SPECIFICATION Spec
CONSTANTS
  Accounts = {a1}
  Emails = {e1}
  Roles = {customer, admin, staff}
  Workers = {w1, w2}
  MaxEvents = 3
INVARIANT OneRoleEach
