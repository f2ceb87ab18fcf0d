------------------------------ MODULE UserSync ------------------------------
(***************************************************************************)
(* The local mirror of the accounts the identity provider (Clerk) keeps.   *)
(* Clerk announces every change as an event that carries the account as it *)
(* is then; Svix delivers events late, out of order and again, until one   *)
(* is answered.  A signed-in user whose event has not arrived is           *)
(* provisioned from the claims of the token.                               *)
(*                                                                         *)
(* A webhook reads the user, its profile and its roles without a lock and  *)
(* writes when it commits: a column only where it differs from what was    *)
(* read.  A write that breaks a unique constraint rolls the request back.  *)
(*                                                                         *)
(* user.created and user.updated end in the same two branches, so they are *)
(* one kind of event here.  Every event carries a valid address and a name.*)
(***************************************************************************)
EXTENDS Naturals, Sequences

CONSTANTS
  Accounts,   \* Clerk user ids
  Emails,     \* e-mail addresses
  Roles,      \* values of public_metadata.role
  Workers,    \* webhook requests that may be in flight at the same time
  MaxEvents   \* bound: events Clerk announces

ASSUME UserSyncAssumption == Roles # {} /\ MaxEvents \in Nat

VARIABLES
  log,      \* what Clerk announced, in order
  user,     \* users, user_roles and user_profiles of an account
  worker,   \* what a webhook has read and not yet acted upon
  applied   \* auxiliary: the last event applied to an account

vars == <<log, user, worker, applied>>

NoEmail == "no email"
Scrubbed == "deleted+<id>@oorvashee.invalid"

ProfileEvent == [id : Accounts, kind : {"profile"}, email : Emails, role : Roles]
DeletedEvent == [id : Accounts, kind : {"deleted"}]

UserRow ==
  [status : {"none", "live", "deleted"}, email : Emails \cup {NoEmail, Scrubbed},
   roles : SUBSET Roles, profile : {"none", "known", "scrubbed"}]

NoUser == [status |-> "none", email |-> NoEmail, roles |-> {}, profile |-> "none"]

Idle == [n |-> 0, seen |-> NoUser]

Init ==
  /\ log = <<>>
  /\ user = [i \in Accounts |-> NoUser]
  /\ worker = [w \in Workers |-> Idle]
  /\ applied = [i \in Accounts |-> 0]

-----------------------------------------------------------------------------
(* Clerk *)

EventsOf(i) == {n \in DOMAIN log : log[n].id = i}

\* Clerk has the account: the last thing it said of it is not its deletion.
Open(i) ==
  \E n \in EventsOf(i) : log[n].kind = "profile" /\ \A m \in EventsOf(i) : m <= n

\* The account's e-mail address at Clerk.
AddressOf(i) == log[CHOOSE n \in EventsOf(i) : \A m \in EventsOf(i) : m <= n].email

Announce(ev) ==
  /\ Len(log) < MaxEvents
  /\ log' = Append(log, ev)
  /\ UNCHANGED <<user, worker, applied>>

\* An account is opened, changed or restored; Clerk keeps addresses unique.
OpenOrChange(i, email, role) ==
  /\ \A j \in Accounts \ {i} : Open(j) => AddressOf(j) # email
  /\ Announce([id |-> i, kind |-> "profile", email |-> email, role |-> role])

Close(i) == Open(i) /\ Announce([id |-> i, kind |-> "deleted"])

-----------------------------------------------------------------------------
(* The token path *)

\* UNIQUE(users.email)
EmailFree(i, email) == \A j \in Accounts \ {i} : user[j].email # email

\* get_current_user: the row if there is one, else a bare one with the address
\* in the token, which may be any the account has had.
FirstTouch(i) ==
  /\ user[i].status = "none"
  /\ \E n \in EventsOf(i) :
       /\ log[n].kind = "profile" /\ EmailFree(i, log[n].email)
       /\ user' = [user EXCEPT ![i] = [NoUser EXCEPT !.status = "live", !.email = log[n].email]]
  /\ UNCHANGED <<log, worker, applied>>

-----------------------------------------------------------------------------
(* The webhook *)

Receive(w, n) ==
  /\ worker[w] = Idle
  /\ worker' = [worker EXCEPT ![w] = [n |-> n, seen |-> user[log[n].id]]]
  /\ UNCHANGED <<log, user, applied>>

\* Mutant: the role is added to those the user has.
RolesAdded(row, seen, role) == row.roles \cup {role}

\* _sync_role: the roles read are removed, the event's is added if not among them.
SyncedRoles(row, seen, role) ==
  (row.roles \ (seen.roles \ {role})) \cup (IF role \in seen.roles THEN {} ELSE {role})

\* _apply_update
Updated(row, seen, ev) ==
  {[status |-> IF seen.status = "deleted" THEN "live" ELSE row.status,
    email |-> IF ev.email = seen.email THEN row.email ELSE ev.email,
    roles |-> SyncedRoles(row, seen, ev.role),
    profile |-> profile] :
      profile \in IF seen.profile = "known" THEN {row.profile, "known"} ELSE {"known"}}

\* The unique constraints an update or an insert may break.
Conflict(i, row, seen, ev) ==
  \/ seen.status = "none" /\ row.status # "none"
  \/ ev.email # seen.email /\ ~EmailFree(i, ev.email)
  \/ seen.profile = "none" /\ row.profile # "none"
  \/ ev.role \notin seen.roles /\ ev.role \in row.roles

\* _create
Created(ev) ==
  [status |-> "live", email |-> ev.email, roles |-> {ev.role}, profile |-> "known"]

\* handle_user_created and handle_user_updated: create if nothing was found.
AppliedProfile(i, row, seen, ev) ==
  IF Conflict(i, row, seen, ev) THEN {}
  ELSE IF seen.status = "none" THEN {Created(ev)} ELSE Updated(row, seen, ev)

\* Mutant: the roles of a deleted user stay.
ScrubbedButRoles(row, seen) ==
  [status |-> "deleted", email |-> Scrubbed, roles |-> row.roles,
   profile |-> IF seen.profile = "known" THEN "scrubbed" ELSE row.profile]

\* The scrubbed row.
ScrubbedRow(row, seen) ==
  [status |-> "deleted", email |-> Scrubbed, roles |-> {},
   profile |-> IF seen.profile = "known" THEN "scrubbed" ELSE row.profile]

\* handle_user_deleted
AppliedDeletion(row, seen) ==
  IF seen.status = "live" THEN {ScrubbedRow(row, seen)} ELSE {row}

\* The rows a webhook may leave; none if it rolls back.
Outcomes(w) ==
  LET ev == log[worker[w].n]
      seen == worker[w].seen
  IN IF ev.kind = "deleted"
     THEN AppliedDeletion(user[ev.id], seen)
     ELSE AppliedProfile(ev.id, user[ev.id], seen, ev)

Apply(w) ==
  /\ worker[w] # Idle
  /\ \E row \in Outcomes(w) : user' = [user EXCEPT ![log[worker[w].n].id] = row]
  /\ applied' = [applied EXCEPT ![log[worker[w].n].id] = worker[w].n]
  /\ worker' = [worker EXCEPT ![w] = Idle]
  /\ UNCHANGED log

\* A constraint is broken: the request answers 500 and is delivered again.
RollBack(w) ==
  /\ worker[w] # Idle /\ Outcomes(w) = {}
  /\ worker' = [worker EXCEPT ![w] = Idle]
  /\ UNCHANGED <<log, user, applied>>

Next ==
  \/ \E i \in Accounts, email \in Emails, role \in Roles : OpenOrChange(i, email, role)
  \/ \E i \in Accounts : Close(i)
  \/ \E i \in Accounts : FirstTouch(i)
  \/ \E w \in Workers, n \in DOMAIN log : Receive(w, n)
  \/ \E w \in Workers : Apply(w)
  \/ \E w \in Workers : RollBack(w)

Spec == Init /\ [][Next]_vars

-----------------------------------------------------------------------------
(* What must hold *)

\* The rows have the shape the schema gives them.
TypeOK ==
  /\ log \in Seq(ProfileEvent \cup DeletedEvent)
  /\ user \in [Accounts -> UserRow]
  /\ worker \in [Workers -> [n : Nat, seen : UserRow]]
  /\ applied \in [Accounts -> Nat]

\* "Reconcile to exactly one row for this user": nobody ends with two roles.
OneRoleEach == \A i \in Accounts : \A r, q \in user[i].roles : r = q

\* A deleted user is deleted in every table: no address, no profile, no role is
\* left; and a user never has two roles.
RowsAreWhole ==
  /\ OneRoleEach
  /\ \A i \in Accounts :
       /\ user[i].status = "deleted" =>
            user[i].email = Scrubbed /\ user[i].roles = {} /\ user[i].profile # "known"
       /\ user[i].status = "live" => user[i].email \in Emails

\* The mirror is faithful to the event applied last, whatever the token path
\* provisioned before or between: its address, its one role, its deletion.
MirrorsLastEvent ==
  \A i \in Accounts : applied[i] # 0 =>
    LET ev == log[applied[i]] IN
      IF ev.kind = "profile"
      THEN user[i] = [status |-> "live", email |-> ev.email, roles |-> {ev.role}, profile |-> "known"]
      ELSE user[i].roles = {} /\ user[i].profile # "known"

\* "If Clerk has revived a previously-deleted user": only then is the mark of
\* the deletion cleared.
RevivedOnlyByClerk ==
  [][\A i \in Accounts : user[i].status = "deleted" /\ user'[i].status = "live" => Open(i)]_vars
=============================================================================
