SPECIFICATION Spec
CONSTANTS
  Accounts = {a1}
  Emails = {e1, e2}
  Roles = {customer}
  Workers = {w1}
  MaxEvents = 2
PROPERTY RevivedOnlyByClerk
