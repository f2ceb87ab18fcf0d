--------------------------- MODULE Identity_proofs ---------------------------
(* Theorems about accounts and credentials.  The mirror of the provider's     *)
(* accounts: webhooks that do not overlap on one account keep it faithful,    *)
(* however events are reordered and whatever the token path does.  The caches *)
(* of credentials: a token taken from one has not expired, however long its   *)
(* caller waited for the lock and however many callers there are, as long as  *)
(* the queue never outgrew the fetches that fit into the refresh margin.      *)
EXTENDS UserSync, CredentialCaches, SequenceTheorems, TLAPS

-----------------------------------------------------------------------------
(* The mirror *)

\* What holds of the tables and the webhooks, however these overlap.
TypesIInv ==
  /\ TypeOK
  /\ \A w \in Workers : worker[w].n # 0 => worker[w].n \in DOMAIN log
  /\ \A w \in Workers : worker[w].n = 0 => worker[w] = Idle

\* The rows that stand for nothing have their types.
LEMMA IdleIsTyped == NoUser \in UserRow /\ Idle \in [n : Nat, seen : UserRow] /\ Idle.n = 0
BY DEF NoUser, UserRow, Idle

\* There are no events and no webhooks at first.
LEMMA InitTypes == Init => TypesIInv
BY IdleIsTyped DEF Init, TypesIInv, TypeOK

\* Whatever a webhook has read, it leaves a row of the table.
LEMMA OutcomeIsARow ==
  ASSUME TypesIInv, NEW w \in Workers, worker[w].n # 0, NEW row \in Outcomes(w)
  PROVE  row \in UserRow
<1> DEFINE ev == log[worker[w].n]
           now == user[ev.id]
           seen == worker[w].seen
<1>1. /\ ev \in ProfileEvent \cup DeletedEvent /\ ev.id \in Accounts
      /\ now \in UserRow /\ seen \in UserRow
  BY DEF TypesIInv, TypeOK, ProfileEvent, DeletedEvent
<1>2. IF ev.kind = "deleted" THEN row \in AppliedDeletion(now, seen)
      ELSE row \in AppliedProfile(ev.id, now, seen, ev)
  BY DEF Outcomes
<1> HIDE DEF ev, now, seen
<1>3. CASE ev.kind = "deleted"
  <2>1. row = ScrubbedRow(now, seen) \/ row = now
    BY <1>2, <1>3 DEF AppliedDeletion
  <2> QED BY <1>1, <2>1 DEF ScrubbedRow, UserRow
<1>4. CASE ev.kind # "deleted"
  <2>1. ev.email \in Emails /\ ev.role \in Roles
    BY <1>1, <1>4 DEF ProfileEvent, DeletedEvent
  <2>2. row = Created(ev) \/ row \in Updated(now, seen, ev)
    BY <1>2, <1>4 DEF AppliedProfile
  <2>3. CASE row = Created(ev)
    BY <2>1, <2>3 DEF Created, UserRow
  <2>4. CASE row \in Updated(now, seen, ev)
    <3>1. PICK profile \in IF seen.profile = "known" THEN {now.profile, "known"} ELSE {"known"} :
            row = [status |-> IF seen.status = "deleted" THEN "live" ELSE now.status,
                   email |-> IF ev.email = seen.email THEN now.email ELSE ev.email,
                   roles |-> SyncedRoles(now, seen, ev.role),
                   profile |-> profile]
      BY <2>4 DEF Updated
    <3>2. /\ now.status \in {"none", "live", "deleted"} /\ now.email \in Emails \cup {NoEmail, Scrubbed}
          /\ now.roles \in SUBSET Roles /\ now.profile \in {"none", "known", "scrubbed"}
      BY <1>1 DEF UserRow
    <3>3. profile \in {"none", "known", "scrubbed"} /\ SyncedRoles(now, seen, ev.role) \in SUBSET Roles
      BY <2>1, <3>2 DEF SyncedRoles
    <3> QED BY <2>1, <3>1, <3>2, <3>3 DEF UserRow
  <2> QED BY <2>2, <2>3, <2>4
<1> QED BY <1>3, <1>4

\* Every step keeps the types, with any number of webhooks in flight.
LEMMA StepTypes == TypesIInv /\ [Next]_vars => TypesIInv'
<1> SUFFICES ASSUME TypesIInv, [Next]_vars PROVE TypesIInv'
  OBVIOUS
<1>0. /\ log \in Seq(ProfileEvent \cup DeletedEvent) /\ user \in [Accounts -> UserRow]
      /\ worker \in [Workers -> [n : Nat, seen : UserRow]] /\ applied \in [Accounts -> Nat]
      /\ \A n \in DOMAIN log : n \in Nat /\ n # 0 /\ log[n] \in ProfileEvent \cup DeletedEvent
                              /\ log[n].id \in Accounts
  BY DEF TypesIInv, TypeOK, ProfileEvent, DeletedEvent
<1>1. ASSUME NEW ev \in ProfileEvent \cup DeletedEvent, Announce(ev) PROVE TypesIInv'
  <2>1. log' = Append(log, ev) /\ UNCHANGED <<user, worker, applied>>
    BY <1>1 DEF Announce
  <2>2. log' \in Seq(ProfileEvent \cup DeletedEvent) /\ \A n \in DOMAIN log : n \in DOMAIN log'
    BY <1>0, <2>1
  <2> QED BY <2>1, <2>2 DEF TypesIInv, TypeOK
<1>2. ASSUME NEW i \in Accounts, FirstTouch(i) PROVE TypesIInv'
  <2>1. PICK n \in EventsOf(i) :
          /\ log[n].kind = "profile"
          /\ user' = [user EXCEPT ![i] = [NoUser EXCEPT !.status = "live", !.email = log[n].email]]
    BY <1>2 DEF FirstTouch
  <2>2. log[n].email \in Emails
    BY <1>0, <2>1 DEF EventsOf, ProfileEvent, DeletedEvent
  <2>3. [NoUser EXCEPT !.status = "live", !.email = log[n].email] \in UserRow
    BY <2>2 DEF NoUser, UserRow
  <2> QED BY <1>0, <1>2, <2>1, <2>3 DEF FirstTouch, TypesIInv, TypeOK
<1>3. ASSUME NEW w \in Workers, NEW n \in DOMAIN log, Receive(w, n) PROVE TypesIInv'
  <2>1. /\ worker' = [worker EXCEPT ![w] = [n |-> n, seen |-> user[log[n].id]]]
        /\ UNCHANGED <<log, user, applied>> /\ user[log[n].id] \in UserRow
    BY <1>0, <1>3 DEF Receive
  <2> QED BY <1>0, <2>1 DEF TypesIInv, TypeOK
<1>4. ASSUME NEW w \in Workers, Apply(w) PROVE TypesIInv'
  <2>1. worker[w].n # 0 /\ worker[w].n \in DOMAIN log
    BY <1>4 DEF Apply, TypesIInv
  <2>2. PICK row \in Outcomes(w) : user' = [user EXCEPT ![log[worker[w].n].id] = row]
    BY <1>4 DEF Apply
  <2>3. row \in UserRow
    BY <2>1, OutcomeIsARow
  <2>4. /\ applied' = [applied EXCEPT ![log[worker[w].n].id] = worker[w].n]
        /\ worker' = [worker EXCEPT ![w] = Idle] /\ log' = log
    BY <1>4 DEF Apply
  <2> QED BY <1>0, <2>1, <2>2, <2>3, <2>4, IdleIsTyped DEF TypesIInv, TypeOK
<1>5. ASSUME NEW w \in Workers, RollBack(w) PROVE TypesIInv'
  BY <1>0, <1>5, IdleIsTyped DEF RollBack, TypesIInv, TypeOK
<1>6. CASE UNCHANGED vars
  BY <1>6 DEF vars, TypesIInv, TypeOK
<1>7. ASSUME NEW i \in Accounts, NEW email \in Emails, NEW role \in Roles, OpenOrChange(i, email, role)
      PROVE  TypesIInv'
  <2>1. [id |-> i, kind |-> "profile", email |-> email, role |-> role] \in ProfileEvent
    BY DEF ProfileEvent
  <2> QED BY <1>1, <1>7, <2>1 DEF OpenOrChange
<1>8. ASSUME NEW i \in Accounts, Close(i) PROVE TypesIInv'
  <2>1. [id |-> i, kind |-> "deleted"] \in DeletedEvent
    BY DEF DeletedEvent
  <2> QED BY <1>1, <1>8, <2>1 DEF Close
<1> QED BY <1>2, <1>3, <1>4, <1>5, <1>6, <1>7, <1>8 DEF Next

\* The tables keep their columns' types with any number of webhooks in flight
\* on any accounts: each acts on an event there is.
THEOREM MirrorTypes == Spec => []TypeOK
<1>1. TypesIInv => TypeOK
  BY DEF TypesIInv
<1> QED BY <1>1, InitTypes, StepTypes, PTL DEF Spec

-----------------------------------------------------------------------------
(* The faithful mirror *)

\* No two webhooks in flight are about one account.  Webhooks about different
\* accounts may overlap as they like.
OnePerAccount ==
  \A w, x \in Workers :
    worker[w].n # 0 /\ worker[x].n # 0 /\ log[worker[w].n].id = log[worker[x].n].id => w = x

\* The token path's row.
Bare(row) == row.status = "live" /\ row.email \in Emails /\ row.roles = {} /\ row.profile = "none"

\* What a webhook has read is the row, unless the token path made it since.
ReadIsCurrent ==
  \A w \in Workers : worker[w].n # 0 =>
    /\ worker[w].n \in DOMAIN log
    /\ LET row == user[log[worker[w].n].id] IN
         row = worker[w].seen \/ (worker[w].seen = NoUser /\ Bare(row))

\* The inductive invariant.
MirrorIInv ==
  /\ TypeOK /\ RowsAreWhole /\ MirrorsLastEvent /\ ReadIsCurrent
  /\ \A i \in Accounts : user[i].status = "none" => user[i] = NoUser
  /\ \A i \in Accounts : applied[i] # 0 => applied[i] \in DOMAIN log
  /\ \A w \in Workers : worker[w].n = 0 => worker[w] = Idle

\* There are no users at first.
LEMMA InitMirror == Init => MirrorIInv
<1> SUFFICES ASSUME Init PROVE MirrorIInv
  OBVIOUS
<1>1. TypeOK
  BY IdleIsTyped DEF Init, TypeOK
<1>2. RowsAreWhole /\ MirrorsLastEvent /\ ReadIsCurrent
  BY IdleIsTyped DEF Init, RowsAreWhole, OneRoleEach, MirrorsLastEvent, ReadIsCurrent, NoUser
<1> QED BY <1>1, <1>2, IdleIsTyped DEF Init, MirrorIInv

\* Clerk says something more: the events said so far stay where they are.
LEMMA AnnounceMirror ==
  ASSUME MirrorIInv, NEW ev \in ProfileEvent \cup DeletedEvent, Announce(ev)
  PROVE  MirrorIInv'
<1>1. /\ log \in Seq(ProfileEvent \cup DeletedEvent) /\ log' = Append(log, ev)
      /\ UNCHANGED <<user, worker, applied>>
  BY DEF MirrorIInv, TypeOK, Announce
<1>2. /\ log' \in Seq(ProfileEvent \cup DeletedEvent)
      /\ \A n \in DOMAIN log : n \in DOMAIN log' /\ log'[n] = log[n]
  BY <1>1
<1>3. TypeOK' /\ RowsAreWhole'
  BY <1>1, <1>2 DEF MirrorIInv, TypeOK, RowsAreWhole, OneRoleEach
<1>4. MirrorsLastEvent' /\ ReadIsCurrent'
  BY <1>1, <1>2 DEF MirrorIInv, MirrorsLastEvent, ReadIsCurrent
<1> QED BY <1>1, <1>2, <1>3, <1>4 DEF MirrorIInv

\* The token path only touches accounts without a row.
LEMMA FirstTouchMirror ==
  ASSUME MirrorIInv, NEW i \in Accounts, FirstTouch(i)
  PROVE  MirrorIInv'
<1>1. PICK n \in EventsOf(i) :
        /\ log[n].kind = "profile"
        /\ user' = [user EXCEPT ![i] = [NoUser EXCEPT !.status = "live", !.email = log[n].email]]
  BY DEF FirstTouch
<1>2. user[i] = NoUser /\ UNCHANGED <<log, worker, applied>>
  BY DEF FirstTouch, MirrorIInv
<1>3. log[n].email \in Emails
  BY <1>1 DEF MirrorIInv, TypeOK, EventsOf, ProfileEvent, DeletedEvent
<1>4. /\ user'[i] \in UserRow /\ Bare(user'[i])
      /\ \A j \in Accounts \ {i} : user'[j] = user[j]
  BY <1>1, <1>3 DEF MirrorIInv, TypeOK, Bare, UserRow, NoUser
<1>5. TypeOK'
  BY <1>1, <1>2, <1>4 DEF MirrorIInv, TypeOK
<1>6. RowsAreWhole'
  BY <1>4 DEF MirrorIInv, RowsAreWhole, OneRoleEach, Bare
<1>7. MirrorsLastEvent'
  BY <1>2, <1>4 DEF MirrorIInv, MirrorsLastEvent, Bare, NoUser
<1>8. ReadIsCurrent'
  <2> SUFFICES ASSUME NEW w \in Workers, worker[w].n # 0
               PROVE  /\ worker[w].n \in DOMAIN log
                      /\ LET row == user'[log[worker[w].n].id] IN
                           row = worker[w].seen \/ (worker[w].seen = NoUser /\ Bare(row))
    BY <1>2 DEF ReadIsCurrent
  <2>1. worker[w].n \in DOMAIN log /\ log[worker[w].n].id \in Accounts
    BY DEF MirrorIInv, TypeOK, ReadIsCurrent, ProfileEvent, DeletedEvent
  <2>2. CASE log[worker[w].n].id = i
    BY <1>2, <1>4, <2>1, <2>2 DEF MirrorIInv, ReadIsCurrent, Bare, NoUser
  <2>3. CASE log[worker[w].n].id # i
    BY <1>4, <2>1, <2>3 DEF MirrorIInv, ReadIsCurrent
  <2> QED BY <2>2, <2>3
<1> QED BY <1>2, <1>4, <1>5, <1>6, <1>7, <1>8 DEF MirrorIInv, Bare

\* Receiving an event keeps the invariant.
LEMMA ReceiveMirror ==
  ASSUME MirrorIInv, NEW w \in Workers, NEW n \in DOMAIN log, Receive(w, n)
  PROVE  MirrorIInv'
<1>1. /\ worker' = [worker EXCEPT ![w] = [n |-> n, seen |-> user[log[n].id]]]
      /\ UNCHANGED <<log, user, applied>>
  BY DEF Receive
<1>2. n \in Nat /\ n # 0 /\ log[n].id \in Accounts
  BY DEF MirrorIInv, TypeOK, ProfileEvent, DeletedEvent
<1>3. TypeOK'
  BY <1>1, <1>2 DEF MirrorIInv, TypeOK
<1>4. ReadIsCurrent'
  BY <1>1, <1>2 DEF MirrorIInv, ReadIsCurrent, TypeOK
<1>5. RowsAreWhole' /\ MirrorsLastEvent'
  BY <1>1 DEF MirrorIInv, RowsAreWhole, OneRoleEach, MirrorsLastEvent
<1> QED BY <1>1, <1>2, <1>3, <1>4, <1>5 DEF MirrorIInv, TypeOK

\* The row an up-to-date webhook leaves is the one its event describes.
LEMMA OutcomeIsFaithful ==
  ASSUME MirrorIInv, NEW w \in Workers, worker[w].n # 0, NEW row \in Outcomes(w),
         NEW ev, ev = log[worker[w].n]
  PROVE  /\ ev.kind = "profile" =>
              row = [status |-> "live", email |-> ev.email, roles |-> {ev.role}, profile |-> "known"]
         /\ ev.kind = "deleted" =>
              /\ row.roles = {} /\ row.profile # "known" /\ row \in UserRow
              /\ row.status = "none" => row = NoUser
              /\ row.status = "deleted" => row.email = Scrubbed
              /\ row.status = "live" => row.email \in Emails
<1> DEFINE now == user[ev.id]
           seen == worker[w].seen
<1>1. /\ ev \in ProfileEvent \cup DeletedEvent /\ ev.id \in Accounts
      /\ now \in UserRow /\ seen \in UserRow
      /\ now = seen \/ (seen = NoUser /\ Bare(now))
      /\ now.status = "none" => now = NoUser
  BY DEF MirrorIInv, TypeOK, ReadIsCurrent, ProfileEvent, DeletedEvent
<1>0. now.status = "deleted" => now.email = Scrubbed /\ now.roles = {} /\ now.profile # "known"
  BY <1>1 DEF MirrorIInv, RowsAreWhole, OneRoleEach
<1>a. ev.kind = "profile" => row \in AppliedProfile(ev.id, now, seen, ev)
  BY DEF Outcomes
<1>b. ev.kind = "deleted" => row \in AppliedDeletion(now, seen)
  BY DEF Outcomes
<1> HIDE DEF now, seen
<1>2. CASE ev.kind = "profile"
  <2>1. row \in AppliedProfile(ev.id, now, seen, ev)
    BY <1>2, <1>a
  <2>2. /\ ~Conflict(ev.id, now, seen, ev)
        /\ seen.status = "none" =>
             row = [status |-> "live", email |-> ev.email, roles |-> {ev.role}, profile |-> "known"]
        /\ seen.status # "none" => row \in Updated(now, seen, ev)
    BY <2>1 DEF AppliedProfile, Created
  <2>3. CASE seen.status # "none"
    <3>1. now = seen
      BY <1>1, <2>3 DEF NoUser
    <3>2. SyncedRoles(now, seen, ev.role) = {ev.role}
      BY <3>1 DEF SyncedRoles
    <3>3. now.status \in {"live", "deleted"}
      BY <1>1, <2>3, <3>1 DEF UserRow
    <3>4. PICK profile \in IF seen.profile = "known" THEN {now.profile, "known"} ELSE {"known"} :
            row = [status |-> IF seen.status = "deleted" THEN "live" ELSE now.status,
                   email |-> IF ev.email = seen.email THEN now.email ELSE ev.email,
                   roles |-> SyncedRoles(now, seen, ev.role),
                   profile |-> profile]
      BY <2>2, <2>3 DEF Updated
    <3>5. profile = "known"
      BY <3>1, <3>4
    <3>6. (IF seen.status = "deleted" THEN "live" ELSE now.status) = "live"
      BY <3>1, <3>3
    <3>7. (IF ev.email = seen.email THEN now.email ELSE ev.email) = ev.email
      BY <3>1
    <3>8. row = [status |-> "live", email |-> ev.email, roles |-> {ev.role}, profile |-> "known"]
      BY <3>2, <3>4, <3>5, <3>6, <3>7
    <3> QED BY <1>2, <3>8
  <2> QED BY <1>2, <2>2, <2>3
<1>3. CASE ev.kind = "deleted"
  <2>1. row \in AppliedDeletion(now, seen)
    BY <1>3, <1>b
  <2>2. CASE seen.status = "live"
    <3>1. row = [status |-> "deleted", email |-> Scrubbed, roles |-> {},
                 profile |-> IF seen.profile = "known" THEN "scrubbed" ELSE now.profile]
      BY <2>1, <2>2 DEF AppliedDeletion, ScrubbedRow
    <3>2. now = seen
      BY <1>1, <2>2 DEF NoUser
    <3>3. now.profile \in {"none", "known", "scrubbed"}
      BY <1>1 DEF UserRow
    <3>4. row.profile # "known" /\ row \in UserRow
      BY <3>1, <3>2, <3>3 DEF UserRow
    <3> QED BY <1>3, <3>1, <3>4
  <2>3. CASE seen.status # "live"
    <3>1. row = now
      BY <2>1, <2>3 DEF AppliedDeletion
    <3>3. CASE now.status = "none"
      BY <1>1, <1>3, <3>1, <3>3 DEF NoUser
    <3>4. CASE now.status = "live"
      BY <1>1, <1>3, <2>3, <3>1, <3>4 DEF Bare
    <3>5. CASE now.status = "deleted"
      BY <1>0, <1>1, <1>3, <3>1, <3>5
    <3> QED BY <1>1, <3>3, <3>4, <3>5 DEF UserRow
  <2> QED BY <2>2, <2>3
<1> QED BY <1>1, <1>2, <1>3 DEF ProfileEvent, DeletedEvent

\* Applying an event keeps the invariant.
LEMMA ApplyMirror ==
  ASSUME MirrorIInv, OnePerAccount, NEW w \in Workers, Apply(w)
  PROVE  MirrorIInv'
<1> DEFINE n == worker[w].n
           ev == log[n]
<1>1. n # 0 /\ n \in DOMAIN log /\ n \in Nat
  BY DEF Apply, MirrorIInv, ReadIsCurrent, TypeOK
<1>2. ev \in ProfileEvent \cup DeletedEvent /\ ev.id \in Accounts
  BY <1>1 DEF MirrorIInv, TypeOK, ProfileEvent, DeletedEvent
<1>3. PICK row \in Outcomes(w) : user' = [user EXCEPT ![ev.id] = row]
  BY DEF Apply
<1>4. /\ applied' = [applied EXCEPT ![ev.id] = n]
      /\ worker' = [worker EXCEPT ![w] = Idle] /\ log' = log
  BY DEF Apply
<1>5. /\ ev.kind = "profile" =>
           row = [status |-> "live", email |-> ev.email, roles |-> {ev.role}, profile |-> "known"]
      /\ ev.kind = "deleted" =>
           /\ row.roles = {} /\ row.profile # "known" /\ row \in UserRow
           /\ row.status = "none" => row = NoUser
           /\ row.status = "deleted" => row.email = Scrubbed
           /\ row.status = "live" => row.email \in Emails
  BY <1>1, OutcomeIsFaithful
<1>6. /\ row \in UserRow
      /\ row.status = "none" => row = NoUser
  BY <1>2, <1>5 DEF ProfileEvent, DeletedEvent, UserRow
<1>7. /\ user'[ev.id] = row /\ \A i \in Accounts \ {ev.id} : user'[i] = user[i]
      /\ applied'[ev.id] = n /\ \A i \in Accounts \ {ev.id} : applied'[i] = applied[i]
      /\ worker'[w] = Idle /\ \A x \in Workers \ {w} : worker'[x] = worker[x]
  BY <1>2, <1>3, <1>4 DEF MirrorIInv, TypeOK
<1>8. TypeOK'
  BY <1>1, <1>3, <1>4, <1>6, <1>7, IdleIsTyped DEF MirrorIInv, TypeOK
<1>9. RowsAreWhole'
  <2>1. /\ row.status = "deleted" => row.email = Scrubbed /\ row.roles = {} /\ row.profile # "known"
        /\ row.status = "live" => row.email \in Emails
        /\ \A r, q \in row.roles : r = q
    BY <1>2, <1>5 DEF ProfileEvent, DeletedEvent
  <2> QED BY <1>7, <2>1 DEF MirrorIInv, RowsAreWhole, OneRoleEach
<1>10. MirrorsLastEvent'
  <2>1. ev.kind = "profile" \/ ev.kind = "deleted"
    BY <1>2 DEF ProfileEvent, DeletedEvent
  <2>2. log' = log /\ MirrorsLastEvent
    BY <1>4 DEF MirrorIInv
  <2> HIDE DEF ev, n
  <2>3. ev = log[n]
    BY DEF ev
  <2>4. IF ev.kind = "profile"
        THEN row = [status |-> "live", email |-> ev.email, roles |-> {ev.role}, profile |-> "known"]
        ELSE row.roles = {} /\ row.profile # "known"
    BY <1>5, <2>1
  <2>5. ASSUME NEW i \in Accounts \ {ev.id}, applied'[i] # 0
        PROVE  IF log'[applied'[i]].kind = "profile"
               THEN user'[i] = [status |-> "live", email |-> log'[applied'[i]].email,
                                roles |-> {log'[applied'[i]].role}, profile |-> "known"]
               ELSE user'[i].roles = {} /\ user'[i].profile # "known"
    <3>1. applied'[i] = applied[i] /\ user'[i] = user[i] /\ applied[i] # 0
      BY <1>7, <2>5
    <3> QED BY <2>2, <3>1 DEF MirrorsLastEvent
  <2>6. applied'[ev.id] = n /\ user'[ev.id] = row
    BY <1>7
  <2> QED BY <2>2, <2>3, <2>4, <2>5, <2>6 DEF MirrorsLastEvent
<1>11. ReadIsCurrent'
  <2> SUFFICES ASSUME NEW x \in Workers, worker'[x].n # 0
               PROVE  /\ worker'[x].n \in DOMAIN log
                      /\ LET now == user'[log[worker'[x].n].id] IN
                           now = worker'[x].seen \/ (worker'[x].seen = NoUser /\ Bare(now))
    BY <1>4 DEF ReadIsCurrent
  <2>1. x # w /\ worker'[x] = worker[x] /\ worker[x].n # 0
    BY <1>7, IdleIsTyped
  <2>2. worker[x].n \in DOMAIN log /\ log[worker[x].n].id \in Accounts
    BY <2>1 DEF MirrorIInv, TypeOK, ReadIsCurrent, ProfileEvent, DeletedEvent
  <2>3. log[worker[x].n].id # ev.id
    BY <1>1, <2>1 DEF OnePerAccount
  <2>4. user'[log[worker[x].n].id] = user[log[worker[x].n].id]
    BY <1>7, <2>2, <2>3
  <2> QED BY <2>1, <2>2, <2>4 DEF MirrorIInv, ReadIsCurrent
<1> QED BY <1>1, <1>4, <1>6, <1>7, <1>8, <1>9, <1>10, <1>11 DEF MirrorIInv

\* Rolling an event back keeps the invariant.
LEMMA RollBackMirror ==
  ASSUME MirrorIInv, NEW w \in Workers, RollBack(w)
  PROVE  MirrorIInv'
<1>1. worker' = [worker EXCEPT ![w] = Idle] /\ UNCHANGED <<log, user, applied>>
  BY DEF RollBack
<1>2. TypeOK'
  BY <1>1, IdleIsTyped DEF MirrorIInv, TypeOK
<1>3. RowsAreWhole' /\ MirrorsLastEvent'
  BY <1>1 DEF MirrorIInv, RowsAreWhole, OneRoleEach, MirrorsLastEvent
<1>4. ReadIsCurrent'
  BY <1>1, IdleIsTyped DEF MirrorIInv, TypeOK, ReadIsCurrent
<1> QED BY <1>1, <1>2, <1>3, <1>4, IdleIsTyped DEF MirrorIInv, TypeOK

\* Every step keeps the invariant while webhooks about one account do not overlap.
LEMMA StepMirror == MirrorIInv /\ OnePerAccount /\ [Next]_vars => MirrorIInv'
<1> SUFFICES ASSUME MirrorIInv, OnePerAccount, [Next]_vars PROVE MirrorIInv'
  OBVIOUS
<1>1. ASSUME NEW i \in Accounts, NEW email \in Emails, NEW role \in Roles, OpenOrChange(i, email, role)
      PROVE  MirrorIInv'
  <2>1. [id |-> i, kind |-> "profile", email |-> email, role |-> role] \in ProfileEvent
    BY DEF ProfileEvent
  <2> QED BY <1>1, <2>1, AnnounceMirror DEF OpenOrChange
<1>2. ASSUME NEW i \in Accounts, Close(i)
      PROVE  MirrorIInv'
  <2>1. [id |-> i, kind |-> "deleted"] \in DeletedEvent
    BY DEF DeletedEvent
  <2> QED BY <1>2, <2>1, AnnounceMirror DEF Close
<1>3. CASE UNCHANGED vars
  BY <1>3 DEF vars, MirrorIInv, TypeOK, RowsAreWhole, OneRoleEach, MirrorsLastEvent, ReadIsCurrent
<1> QED BY <1>1, <1>2, <1>3, FirstTouchMirror, ReceiveMirror, ApplyMirror, RollBackMirror DEF Next

\* As long as webhooks about one account do not overlap the inductive invariant
\* holds, whatever those about other accounts do.
THEOREM MirrorInvariance == Spec /\ []OnePerAccount => []MirrorIInv
<1>1. MirrorIInv /\ OnePerAccount /\ [Next]_vars => MirrorIInv'
  BY StepMirror
<1> QED BY <1>1, InitMirror, PTL DEF Spec

\* A deleted account is deleted in every table, and nobody has two roles.
THEOREM DeletionIsWhole == Spec /\ []OnePerAccount => []RowsAreWhole
<1>1. MirrorIInv => RowsAreWhole
  BY DEF MirrorIInv
<1> QED BY <1>1, MirrorInvariance, PTL

\* The mirror says of an account what the event applied last said, in whatever
\* order events come and wherever the token path got in between.
THEOREM MirrorIsFaithful == Spec /\ []OnePerAccount => []MirrorsLastEvent
<1>1. MirrorIInv => MirrorsLastEvent
  BY DEF MirrorIInv
<1> QED BY <1>1, MirrorInvariance, PTL

-----------------------------------------------------------------------------
(* The caches *)

\* The lock of a cache queues exactly the callers that wait for it or fetch,
\* each once, and only its head fetches.
Queue(k) ==
  /\ \A i, j \in 1..Len(lock[k]) : lock[k][i] = lock[k][j] => i = j
  /\ \A c \in Callers : caller[c].at[k] # "out" <=> \E i \in 1..Len(lock[k]) : lock[k][i] = c
  /\ \A i \in 2..Len(lock[k]) : caller[lock[k][i]].at[k] = "waiting"

\* A caller is in one lock, or in the token's inside the vendors'.
OneErrand(c) ==
  /\ caller[c].at["keys"] # "out" => caller[c].at["token"] = "out" /\ caller[c].at["vendors"] = "out"
  /\ caller[c].at["vendors"] = "waiting" => caller[c].at["token"] = "out"
  /\ caller[c].holdsToken => caller[c].at["vendors"] = "fetching" /\ caller[c].at["token"] = "out"

\* A fetch of the token is not out for longer than the client's timeout.
FetchInTime(c) ==
  caller[c].at["token"] = "fetching" => caller[c].began <= clock /\ clock <= caller[c].began + Timeout

\* How long the fetch under the token's lock is out.
Elapsed ==
  IF lock["token"] # <<>> /\ caller[lock["token"][1]].at["token"] = "fetching"
  THEN clock - caller[lock["token"][1]].began ELSE 0

\* Who waits for the token has waited one fetch at most for each caller ahead.
WaitBounded ==
  /\ Len(lock["token"]) <= Room
  /\ \A i \in 1..Len(lock["token"]) :
       clock - caller[lock["token"][i]].asked["token"] <= (Room - i) * Timeout + Elapsed

CIInv ==
  /\ CachesTypeOK /\ TokenAlive
  /\ ~crowded => WaitBounded
  /\ \A k \in Caches : Queue(k)
  /\ \A c \in Callers : OneErrand(c) /\ FetchInTime(c)

-----------------------------------------------------------------------------
(* The queue of a lock *)

\* Who fetches is the head of the queue.
LEMMA FetcherIsHead ==
  ASSUME CachesTypeOK, NEW k \in Caches, Queue(k), NEW c \in Callers, caller[c].at[k] = "fetching"
  PROVE  lock[k] # <<>> /\ lock[k][1] = c
<1>1. lock[k] \in Seq(Callers)
  BY DEF CachesTypeOK
<1>2. PICK i \in 1..Len(lock[k]) : lock[k][i] = c
  BY DEF Queue
<1>3. i = 1
  BY <1>1, <1>2 DEF Queue
<1> QED BY <1>1, <1>2, <1>3

\* A queue stays sound when nobody in it moves.
LEMMA QueueSame ==
  ASSUME NEW k \in Caches, Queue(k), lock[k] \in Seq(Callers), lock'[k] = lock[k],
         \A c \in Callers : caller'[c].at[k] = caller[c].at[k]
  PROVE  Queue(k)'
<1>1. \A i \in 1..Len(lock[k]) : lock[k][i] \in Callers
  OBVIOUS
<1>2. \A i \in 2..Len(lock[k]) : caller'[lock[k][i]].at[k] = "waiting"
  BY <1>1 DEF Queue
<1>3. \A d \in Callers : caller'[d].at[k] # "out" <=> \E i \in 1..Len(lock[k]) : lock[k][i] = d
  BY DEF Queue
<1> QED BY <1>2, <1>3 DEF Queue

\* A caller that was out may join a queue at its end.
LEMMA QueueJoin ==
  ASSUME NEW k \in Caches, Queue(k), lock[k] \in Seq(Callers), NEW c \in Callers, caller[c].at[k] = "out",
         lock'[k] = Append(lock[k], c), caller'[c].at[k] = "waiting",
         \A d \in Callers \ {c} : caller'[d].at[k] = caller[d].at[k]
  PROVE  Queue(k)'
<1> DEFINE q == lock[k]
           n == Len(q)
<1>1. n \in Nat /\ \A i \in 1..n : q[i] \in Callers /\ q[i] # c
  BY DEF Queue
<1>2. /\ Len(lock'[k]) = n + 1 /\ lock'[k][n + 1] = c
      /\ \A i \in 1..n : lock'[k][i] = q[i]
  OBVIOUS
<1>3. \A i \in 1..(n + 1) : i \in 1..n \/ i = n + 1
  BY <1>1
<1>4. \A i, j \in 1..(n + 1) : lock'[k][i] = lock'[k][j] => i = j
  BY <1>1, <1>2, <1>3 DEF Queue
<1>5. \A d \in Callers : caller'[d].at[k] # "out" <=> \E i \in 1..(n + 1) : lock'[k][i] = d
  <2>1. ASSUME NEW d \in Callers, d # c
        PROVE  caller'[d].at[k] # "out" <=> \E i \in 1..(n + 1) : lock'[k][i] = d
    BY <1>1, <1>2, <1>3, <2>1 DEF Queue
  <2>2. \E i \in 1..(n + 1) : lock'[k][i] = c
    BY <1>1, <1>2
  <2> QED BY <2>1, <2>2
<1>6. \A i \in 2..(n + 1) : caller'[lock'[k][i]].at[k] = "waiting"
  <2>1. \A i \in 2..(n + 1) : i \in 2..n \/ i = n + 1
    BY <1>1
  <2> QED BY <1>1, <1>2, <2>1 DEF Queue
<1> QED BY <1>2, <1>4, <1>5, <1>6 DEF Queue

\* The head of a queue may leave it.
LEMMA QueueLeave ==
  ASSUME NEW k \in Caches, Queue(k), lock[k] \in Seq(Callers), NEW c \in Callers,
         lock[k] # <<>>, lock[k][1] = c, lock'[k] = Tail(lock[k]), caller'[c].at[k] = "out",
         \A d \in Callers \ {c} : caller'[d].at[k] = caller[d].at[k]
  PROVE  Queue(k)'
<1> DEFINE q == lock[k]
           n == Len(q)
<1>1. n \in Nat \ {0} /\ \A i \in 1..n : q[i] \in Callers
  OBVIOUS
<1>2. \A i \in 2..n : q[i] # c
  BY <1>1 DEF Queue
<1>3. Len(lock'[k]) = n - 1 /\ \A i \in 1..(n - 1) : lock'[k][i] = q[i + 1]
  BY <1>1
<1>4. \A i \in 1..(n - 1) : i + 1 \in 2..n /\ i + 1 \in 1..n
  BY <1>1
<1>5. \A i, j \in 1..(n - 1) : lock'[k][i] = lock'[k][j] => i = j
  <2> SUFFICES ASSUME NEW i \in 1..(n - 1), NEW j \in 1..(n - 1), lock'[k][i] = lock'[k][j] PROVE i = j
    OBVIOUS
  <2>1. q[i + 1] = q[j + 1]
    BY <1>3
  <2>2. i + 1 = j + 1
    BY <1>4, <2>1 DEF Queue
  <2> QED BY <1>1, <2>2
<1>6. ASSUME NEW d \in Callers
      PROVE  caller'[d].at[k] # "out" <=> \E i \in 1..(n - 1) : lock'[k][i] = d
  <2>1. CASE d = c
    BY <1>2, <1>3, <1>4, <2>1
  <2>2. CASE d # c
    <3>1. caller[d].at[k] # "out" <=> \E i \in 1..n : q[i] = d
      BY DEF Queue
    <3>2. ASSUME NEW i \in 1..n, q[i] = d PROVE i - 1 \in 1..(n - 1) /\ lock'[k][i - 1] = d
      <4>1. i # 1
        BY <2>2, <3>2
      <4>2. i - 1 \in 1..(n - 1) /\ (i - 1) + 1 = i
        BY <1>1, <4>1
      <4> QED BY <1>3, <3>2, <4>2
    <3> QED BY <1>3, <1>4, <2>2, <3>1, <3>2
  <2> QED BY <2>1, <2>2
<1>7. \A i \in 2..(n - 1) : caller'[lock'[k][i]].at[k] = "waiting"
  <2> TAKE i \in 2..(n - 1)
  <2>1. i \in 1..(n - 1) /\ i + 1 \in 2..n
    BY <1>1
  <2>2. lock'[k][i] = q[i + 1] /\ q[i + 1] # c /\ q[i + 1] \in Callers
    BY <1>1, <1>2, <1>3, <1>4, <2>1
  <2> QED BY <2>1, <2>2 DEF Queue
<1> QED BY <1>3, <1>5, <1>6, <1>7 DEF Queue

\* The head of a queue may start to fetch.
LEMMA QueueFetch ==
  ASSUME NEW k \in Caches, Queue(k), lock[k] \in Seq(Callers), NEW c \in Callers,
         lock[k] # <<>>, lock[k][1] = c, lock'[k] = lock[k], caller'[c].at[k] = "fetching",
         \A d \in Callers \ {c} : caller'[d].at[k] = caller[d].at[k]
  PROVE  Queue(k)'
<1>1. Len(lock[k]) \in Nat \ {0} /\ \A i \in 1..Len(lock[k]) : lock[k][i] \in Callers
  OBVIOUS
<1>2. \A i \in 2..Len(lock[k]) : lock[k][i] \in Callers \ {c}
  BY <1>1 DEF Queue
<1>3. \A i \in 2..Len(lock[k]) : caller'[lock[k][i]].at[k] = "waiting"
  BY <1>2 DEF Queue
<1>4. \A d \in Callers : caller'[d].at[k] # "out" <=> \E i \in 1..Len(lock[k]) : lock[k][i] = d
  BY <1>1 DEF Queue
<1> QED BY <1>3, <1>4 DEF Queue

-----------------------------------------------------------------------------
(* How long a caller waits for the token *)

\* One fetch for each caller ahead, the one under way counted once.
LEMMA Budget ==
  ASSUME NEW n \in Nat, NEW t \in Nat
  PROVE  n * t \in Nat /\ (n + 1) * t = n * t + t
OBVIOUS

\* The fetches that fit the margin do fit it.
LEMMA RoomFits == Room \in Nat /\ Room * Timeout <= Margin
<1>1. PICK m \in Nat, t \in Nat \ {0} : m = Margin /\ t = Timeout
  BY CachesAssumption
<1>2. m \div t \in Nat /\ (m \div t) * t <= m
  BY <1>1
<1> QED BY <1>1, <1>2 DEF Room

\* The budget of a place is within the margin.
LEMMA BudgetInMargin ==
  ASSUME NEW i \in 1..Room
  PROVE  /\ (Room - i) * Timeout \in Nat
         /\ (Room - i) * Timeout + Timeout <= Margin
<1>1. PICK n \in Nat, t \in Nat, m \in Nat :
        n = Room /\ t = Timeout /\ m = Margin /\ n * t <= m
  BY CachesAssumption, RoomFits
<1>2. i \in 1..n
  BY <1>1
<1>3. (n - i) \in Nat /\ (i - 1) \in Nat /\ n = (n - i) + 1 + (i - 1)
  BY <1>1, <1>2
<1>4. \A a, b \in Nat : a * t \in Nat /\ b * t \in Nat /\ (a + 1 + b) * t = a * t + t + b * t
  BY <1>1
<1>5. n * t = (n - i) * t + t + (i - 1) * t
  BY <1>3, <1>4
<1>6. (n - i) * t \in Nat /\ (i - 1) * t \in Nat /\ n * t \in Nat
  BY <1>1, <1>3, <1>4
<1>7. (n - i) * t + t <= m
  BY <1>1, <1>5, <1>6
<1> QED BY <1>1, <1>6, <1>7

\* A fetch of the token is out for no longer than the timeout.
LEMMA ElapsedBounds ==
  ASSUME CIInv
  PROVE  Elapsed \in 0..Timeout
<1>1. /\ lock["token"] \in Seq(Callers) /\ clock \in Nat /\ Timeout \in Nat
      /\ \A c \in Callers : caller[c].began \in Nat
  BY CachesAssumption DEF CIInv, CachesTypeOK, CallerRow, Caches
<1>2. CASE lock["token"] # <<>> /\ caller[lock["token"][1]].at["token"] = "fetching"
  <2>1. lock["token"][1] \in Callers
    BY <1>1, <1>2
  <2>2. caller[lock["token"][1]].began <= clock /\ clock <= caller[lock["token"][1]].began + Timeout
    BY <1>2, <2>1 DEF CIInv, FetchInTime
  <2> QED BY <1>1, <1>2, <2>1, <2>2 DEF Elapsed
<1>3. CASE ~(lock["token"] # <<>> /\ caller[lock["token"][1]].at["token"] = "fetching")
  <2>1. Elapsed = 0
    BY <1>3 DEF Elapsed
  <2> QED BY <1>1, <2>1
<1> QED BY <1>2, <1>3

\* What is known of every place of the queue.
LEMMA Places ==
  ASSUME CIInv, ~crowded
  PROVE  /\ Timeout \in Nat /\ Room \in Nat /\ clock \in Nat /\ Elapsed \in 0..Timeout
         /\ lock["token"] \in Seq(Callers) /\ Len(lock["token"]) <= Room
         /\ \A i \in 1..Len(lock["token"]) :
              /\ i \in 1..Room
              /\ lock["token"][i] \in Callers /\ caller[lock["token"][i]].at["token"] # "out"
              /\ caller[lock["token"][i]].asked["token"] \in Nat
              /\ (Room - i) * Timeout \in Nat
              /\ (Room - i) * Timeout + Timeout <= Margin
              /\ clock - caller[lock["token"][i]].asked["token"]
                   <= (Room - i) * Timeout + Elapsed
<1>1. Timeout \in Nat /\ clock \in Nat /\ "token" \in Caches /\ lock["token"] \in Seq(Callers)
  BY CachesAssumption DEF CIInv, CachesTypeOK, Caches
<1>2. Room \in Nat /\ Len(lock["token"]) \in Nat /\ Len(lock["token"]) <= Room
  BY <1>1, RoomFits DEF CIInv, WaitBounded
<1>3. ASSUME NEW i \in 1..Len(lock["token"])
      PROVE  /\ i \in 1..Room
             /\ lock["token"][i] \in Callers /\ caller[lock["token"][i]].at["token"] # "out"
             /\ caller[lock["token"][i]].asked["token"] \in Nat
             /\ clock - caller[lock["token"][i]].asked["token"]
                  <= (Room - i) * Timeout + Elapsed
  <2>1. i \in 1..Room /\ lock["token"][i] \in Callers
    BY <1>1, <1>2
  <2>2. caller[lock["token"][i]].at["token"] # "out"
    BY <1>1, <2>1 DEF CIInv, Queue
  <2>3. caller[lock["token"][i]] \in CallerRow
    BY <2>1 DEF CIInv, CachesTypeOK
  <2>4. caller[lock["token"][i]].asked["token"] \in Nat
    BY <1>1, <2>3 DEF CallerRow
  <2> QED BY <2>1, <2>2, <2>4 DEF CIInv, WaitBounded
<1>4. \A i \in 1..Room : /\ (Room - i) * Timeout \in Nat
                                        /\ (Room - i) * Timeout + Timeout <= Margin
  BY BudgetInMargin
<1>5. Elapsed \in 0..Timeout
  BY ElapsedBounds
<1> HIDE DEF Elapsed
<1> QED BY <1>1, <1>2, <1>3, <1>4, <1>5

\* Steps of callers that are not in the token's queue.
LEMMA WaitSame ==
  ASSUME CIInv, ~crowded, clock' = clock, lock'["token"] = lock["token"],
         \A d \in Callers : caller[d].at["token"] # "out" => caller'[d] = caller[d]
  PROVE  WaitBounded'
<1>1. \A i \in 1..Len(lock["token"]) : caller'[lock["token"][i]] = caller[lock["token"][i]]
  BY Places
<1>2. lock["token"] # <<>> => 1 \in 1..Len(lock["token"])
  BY Places
<1>3. Elapsed' = Elapsed
  BY <1>1, <1>2 DEF Elapsed
<1> QED BY <1>1, <1>3 DEF CIInv, WaitBounded

\* A caller that joins has not waited yet.
LEMMA WaitJoin ==
  ASSUME CIInv, ~crowded, NEW c \in Callers, caller[c].at["token"] = "out", clock' = clock,
         lock'["token"] = Append(lock["token"], c), caller'[c].asked["token"] = clock,
         caller'[c].at["token"] = "waiting", Len(lock'["token"]) <= Room,
         \A d \in Callers \ {c} : caller'[d] = caller[d]
  PROVE  WaitBounded'
<1> DEFINE q == lock["token"]
           n == Len(q)
           N == Room
<1>1. /\ n \in Nat /\ N \in Nat /\ clock \in Nat /\ Elapsed \in 0..Timeout /\ Timeout \in Nat
      /\ \A i \in 1..n : q[i] \in Callers \ {c}
  <2>1. n \in Nat
    BY Places
  <2> QED BY <2>1, Places
<1>2. Len(lock'["token"]) = n + 1 /\ lock'["token"][n + 1] = c /\ \A i \in 1..n : lock'["token"][i] = q[i]
  BY Places
<1>3. n + 1 <= N
  BY <1>2
<1>4. Elapsed' \in Nat /\ Elapsed' >= Elapsed
  <2>1. CASE n = 0
    <3>1. q = <<>> /\ lock'["token"][1] = c
      BY <1>2, <2>1, Places
    <3>2. Elapsed = 0 /\ Elapsed' = 0
      BY <3>1 DEF Elapsed
    <3> QED BY <3>2
  <2>2. CASE n # 0
    <3>1. /\ q # <<>> /\ lock'["token"] # <<>> /\ lock'["token"][1] = q[1] /\ q[1] \in Callers \ {c}
      BY <1>1, <1>2, <2>2
    <3>2. Elapsed' = Elapsed
      BY <3>1 DEF Elapsed
    <3> QED BY <1>1, <3>2
  <2> QED BY <2>1, <2>2
<1>5. ASSUME NEW i \in 1..(n + 1)
      PROVE  clock - caller'[lock'["token"][i]].asked["token"] <= (N - i) * Timeout + Elapsed'
  <2>1. i \in 1..N
    BY <1>1, <1>3
  <2>2. PICK b \in Nat : b = (N - i) * Timeout
    BY <2>1, BudgetInMargin
  <2>0. PICK f, e, t : f = Elapsed' /\ e = Elapsed /\ t = clock
    OBVIOUS
  <2> f \in Nat /\ e \in Nat /\ t \in Nat /\ f >= e
    BY <1>1, <1>4, <2>0
  <2>3. CASE i = n + 1
    <3>1. caller'[lock'["token"][i]].asked["token"] = t
      BY <1>2, <2>0, <2>3
    <3>2. t - t <= b + f
      BY <2>2
    <3> QED BY <2>0, <2>2, <3>1, <3>2
  <2>4. CASE i # n + 1
    <3>1. i \in 1..n
      BY <1>1, <2>4
    <3>2. PICK a \in Nat : a = caller[q[i]].asked["token"]
      BY <3>1, Places
    <3>3. t - a <= b + e
      BY <2>0, <2>2, <3>1, <3>2, Places
    <3>4. caller'[lock'["token"][i]].asked["token"] = a
      BY <1>1, <1>2, <3>1, <3>2
    <3>5. t - a <= b + f
      BY <2>2, <3>3
    <3> QED BY <2>0, <2>2, <3>4, <3>5
  <2> QED BY <2>3, <2>4
<1> QED BY <1>2, <1>5 DEF WaitBounded

\* When the head leaves, everybody behind it moves up, at most one fetch later.
LEMMA WaitLeave ==
  ASSUME CIInv, ~crowded, NEW c \in Callers, clock' = clock, lock["token"] # <<>>, lock["token"][1] = c,
         lock'["token"] = Tail(lock["token"]), Queue("token")',
         \A d \in Callers \ {c} : caller'[d] = caller[d]
  PROVE  WaitBounded'
<1> DEFINE q == lock["token"]
           n == Len(q)
           N == Room
<1>1. /\ n \in Nat \ {0} /\ N \in Nat /\ clock \in Nat /\ Elapsed \in 0..Timeout /\ Timeout \in Nat
      /\ n <= N /\ \A i \in 1..n : q[i] \in Callers
  BY Places
<1>2. \A i \in 2..n : q[i] \in Callers \ {c} /\ caller[q[i]].at["token"] = "waiting"
  <2>1. Queue("token")
    BY DEF CIInv, Caches
  <2> QED BY <1>1, <2>1 DEF Queue
<1>3. Len(lock'["token"]) = n - 1 /\ \A i \in 1..(n - 1) : lock'["token"][i] = q[i + 1]
  BY <1>1, Places
<1>4. Elapsed' = 0
  <2>1. CASE n = 1
    <3>1. q \in Seq(Callers) /\ Len(q) = 1
      BY <2>1, Places
    <3>2. Tail(q) = <<>>
      <4>1. Tail(q) \in Seq(Callers) /\ Len(Tail(q)) = 0
        BY <3>1
      <4> QED BY <4>1, EmptySeq
    <3> QED BY <3>2 DEF Elapsed
  <2>2. CASE n # 1
    <3>1. lock'["token"][1] = q[2] /\ 2 \in 2..n
      <4>1. PICK m \in Nat : m = n /\ m > 1
        <5>1. n \in Nat /\ n # 0
          BY <1>1
        <5> HIDE DEF n
        <5> QED BY <2>2, <5>1
      <4>2. 1 \in 1..(n - 1) /\ 2 \in 2..n /\ 1 + 1 = 2
        BY <4>1
      <4> QED BY <1>3, <4>2
    <3>2. caller'[lock'["token"][1]].at["token"] = "waiting"
      BY <1>2, <3>1
    <3> QED BY <3>2 DEF Elapsed
  <2> QED BY <2>1, <2>2
<1>5. ASSUME NEW i \in 1..(n - 1)
      PROVE  clock - caller'[lock'["token"][i]].asked["token"] <= (N - i) * Timeout + Elapsed'
  <2>1. i + 1 \in 1..n /\ i + 1 \in 2..n /\ N - i = (N - (i + 1)) + 1 /\ N - (i + 1) \in Nat
    BY <1>1
  <2>2. PICK b \in Nat : b = (N - (i + 1)) * Timeout
    BY <2>1, Places
  <2>3. (N - i) * Timeout = b + Timeout
    <3>1. ((N - (i + 1)) + 1) * Timeout = (N - (i + 1)) * Timeout + Timeout
      BY <1>1, <2>1, Budget
    <3> QED BY <2>1, <2>2, <3>1
  <2>4. clock - caller[q[i + 1]].asked["token"] <= b + Elapsed /\ caller[q[i + 1]].asked["token"] \in Nat
    BY <2>1, <2>2, Places
  <2>5. caller'[lock'["token"][i]] = caller[q[i + 1]]
    BY <1>2, <1>3, <2>1
  <2>6. PICK a \in Nat, e \in Nat, m \in Nat, t \in Nat :
          a = caller[q[i + 1]].asked["token"] /\ e = Elapsed /\ m = Timeout /\ t = clock
    BY <1>1, <2>4
  <2>7. t - a <= b + e /\ e <= m
    BY <1>1, <2>4, <2>6
  <2>8. t - a <= b + m
    BY <2>7
  <2>9. clock - caller'[lock'["token"][i]].asked["token"] = t - a
    BY <2>5, <2>6
  <2>10. (N - i) * Timeout + Elapsed' = b + m
    BY <1>4, <2>3, <2>6
  <2> QED BY <2>8, <2>9, <2>10
<1>6. Len(lock'["token"]) <= N
  <2> HIDE DEF n
  <2> QED BY <1>1, <1>3
<1> QED BY <1>3, <1>5, <1>6 DEF WaitBounded

\* Starting a fetch takes no time.
LEMMA WaitFetch ==
  ASSUME CIInv, ~crowded, NEW c \in Callers, clock' = clock, lock["token"] # <<>>, lock["token"][1] = c,
         lock'["token"] = lock["token"], caller[c].at["token"] = "waiting", caller'[c].began = clock,
         caller'[c].asked = caller[c].asked, \A d \in Callers \ {c} : caller'[d] = caller[d]
  PROVE  WaitBounded'
<1>1. Elapsed = 0
  BY DEF Elapsed
<1>2. Elapsed' = 0
  BY Places DEF Elapsed
<1>3. \A i \in 1..Len(lock["token"]) :
        caller'[lock["token"][i]].asked["token"] = caller[lock["token"][i]].asked["token"]
  BY Places
<1> QED BY <1>1, <1>2, <1>3 DEF CIInv, WaitBounded

\* Time passes for the queue only while its head fetches.
LEMMA WaitTick ==
  ASSUME CIInv, ~crowded, CacheTick
  PROVE  WaitBounded'
<1> DEFINE q == lock["token"]
<1>1. UNCHANGED <<lock, caller>> /\ clock' = clock + 1 /\ clock \in Nat
  BY Places DEF CacheTick
<1>2. ASSUME q # <<>> PROVE caller[q[1]].at["token"] = "fetching"
  <2>1. 1 \in 1..Len(q) /\ q[1] \in Callers /\ caller[q[1]].at["token"] # "out" /\ Head(q) = q[1]
    BY <1>2, Places
  <2>2. caller[q[1]].at["token"] # "waiting"
    BY <2>1 DEF CacheTick, Caches
  <2>3. caller[q[1]].at["token"] \in Stage
    BY <2>1 DEF CIInv, CachesTypeOK, CallerRow, Caches
  <2> QED BY <2>1, <2>2, <2>3 DEF Stage
<1>3. ASSUME NEW i \in 1..Len(q)
      PROVE  clock' - caller[q[i]].asked["token"] <= (Room - i) * Timeout + Elapsed'
  <2>1. q # <<>> /\ q[1] \in Callers
    BY Places
  <2>2. caller[q[1]].began \in Nat
    BY <2>1 DEF CIInv, CachesTypeOK, CallerRow
  <2>3. Elapsed = clock - caller[q[1]].began /\ Elapsed' = (clock + 1) - caller[q[1]].began
    <3>1. q # <<>> /\ caller[q[1]].at["token"] = "fetching"
      BY <1>2, <2>1
    <3>2. lock'["token"] = q /\ caller' = caller /\ clock' = clock + 1
      BY <1>1
    <3> QED BY <3>1, <3>2 DEF Elapsed
  <2>4. PICK b \in Nat, a \in Nat, t \in Nat, g \in Nat :
          /\ b = (Room - i) * Timeout /\ a = caller[q[i]].asked["token"]
          /\ t = clock /\ g = caller[q[1]].began
    BY <1>1, <2>2, Places
  <2>5. t - a <= b + (t - g)
    <3>1. clock - caller[q[i]].asked["token"] <= (Room - i) * Timeout + Elapsed
      BY Places
    <3> HIDE DEF q
    <3> QED BY <2>3, <2>4, <3>1
  <2>6. (t + 1) - a <= b + ((t + 1) - g)
    BY <2>5
  <2> QED BY <1>1, <2>3, <2>4, <2>6
<1> QED BY <1>1, <1>3, Places DEF WaitBounded

-----------------------------------------------------------------------------
(* The caches: every step keeps the invariant *)

\* All a caller has to do with other caches is the vendors' fetch around the token.
Ready(c, k) ==
  \A j \in Caches \ {k} :
    caller[c].at[j] = "out" \/ (k = "token" /\ j = "vendors" /\ caller[c].at[j] = "fetching")

\* The types of a state, one by one.
LEMMA RowTypes ==
  ASSUME CachesTypeOK
  PROVE  /\ clock \in 0..Horizon /\ clock \in Nat
         /\ entry \in [Caches -> Int] /\ lock \in [Caches -> Seq(Callers)]
         /\ caller \in [Callers -> CallerRow]
         /\ \A c \in Callers :
              /\ caller[c].at \in [Caches -> Stage] /\ caller[c].asked \in [Caches -> 0..Horizon]
              /\ caller[c].began \in 0..Horizon /\ caller[c].holdsToken \in BOOLEAN
BY CachesAssumption DEF CachesTypeOK, CallerRow

\* A caller that is out is in no queue and holds nothing.
LEMMA OutIs ==
  /\ Out \in CallerRow /\ Out.holdsToken = FALSE
  /\ \A k \in Caches : Out.at[k] = "out"
<1>1. 0 \in 0..Horizon /\ "out" \in Stage
  BY CachesAssumption DEF Stage
<1> QED BY <1>1 DEF Out, CallerRow

\* A caller that may ask is in no other lock than the vendors', to fetch them.
LEMMA AskIsReady ==
  ASSUME CIInv, NEW c \in Callers, NEW k \in Caches, MayAsk(c, k)
  PROVE  Ready(c, k) /\ caller[c].at[k] = "out" /\ ~caller[c].holdsToken
<1>1. CASE caller[c] = Out
  BY <1>1, OutIs DEF Ready
<1>2. CASE k = "token" /\ caller[c].at["vendors"] = "fetching" /\ caller[c].at["token"] = "out" /\ ~caller[c].holdsToken
  <2>1. caller[c].at["keys"] = "out"
    BY <1>2 DEF CIInv, OneErrand
  <2> QED BY <1>2, <2>1 DEF Ready, Caches
<1> QED BY <1>1, <1>2 DEF MayAsk

\* So is one that waits or calls.
LEMMA InLockIsReady ==
  ASSUME CIInv, NEW c \in Callers, NEW k \in Caches, caller[c].at[k] = "waiting" \/ Calling(c, k)
  PROVE  Ready(c, k)
<1>1. OneErrand(c) /\ \A j \in Caches : caller[c].at[j] \in Stage
  BY RowTypes DEF CIInv
<1>2. CASE k = "token"
  <2>1. caller[c].at["token"] # "out"
    BY <1>2 DEF Calling
  <2>2. caller[c].at["keys"] = "out" /\ caller[c].at["vendors"] # "waiting"
    BY <1>1, <2>1 DEF OneErrand
  <2> QED BY <1>1, <1>2, <2>2 DEF Ready, Caches, Stage
<1>3. CASE k = "vendors"
  <2>1. caller[c].at["vendors"] # "out" /\ (caller[c].at["vendors"] = "waiting" \/ caller[c].holdsToken)
    BY <1>3 DEF Calling
  <2>2. caller[c].at["keys"] = "out" /\ caller[c].at["token"] = "out"
    BY <1>1, <2>1 DEF OneErrand
  <2> QED BY <1>3, <2>2 DEF Ready, Caches
<1>4. CASE k = "keys"
  <2>1. caller[c].at["keys"] # "out"
    BY <1>4 DEF Calling
  <2> QED BY <1>1, <1>4, <2>1 DEF OneErrand, Ready, Caches
<1> QED BY <1>2, <1>3, <1>4 DEF Caches

\* What an answer leaves of the caller's row.
LEMMA AnsweredIs ==
  ASSUME CIInv, NEW c \in Callers, NEW k \in Caches, Ready(c, k)
  PROVE  /\ Answered(c, k) \in CallerRow /\ Answered(c, k).at[k] = "out" /\ Answered(c, k).at["token"] = "out"
         /\ \A j \in Caches \ {k} : Answered(c, k).at[j] = caller[c].at[j]
         /\ Answered(c, k).at["keys"] # "out" => Answered(c, k).at["vendors"] = "out"
         /\ Answered(c, k).holdsToken => Answered(c, k).at["vendors"] = "fetching"
<1>1. CASE k = "token" /\ caller[c].at["vendors"] = "fetching"
  <2>1. Answered(c, k) = [at |-> [caller[c].at EXCEPT !["token"] = "out"], asked |-> caller[c].asked,
                          began |-> clock, holdsToken |-> TRUE]
    BY <1>1, RowTypes DEF Answered, CIInv, CallerRow
  <2>2. caller[c].at \in [Caches -> Stage] /\ caller[c].asked \in [Caches -> 0..Horizon] /\ clock \in 0..Horizon
    BY RowTypes DEF CIInv
  <2>3. [caller[c].at EXCEPT !["token"] = "out"] \in [Caches -> Stage]
    BY <2>2 DEF Stage
  <2>4. Answered(c, k) \in CallerRow
    BY <2>1, <2>2, <2>3 DEF CallerRow
  <2>5. /\ Answered(c, k).at["token"] = "out" /\ Answered(c, k).holdsToken
        /\ \A j \in Caches \ {k} : Answered(c, k).at[j] = caller[c].at[j]
    BY <1>1, <2>1, <2>2 DEF Caches
  <2>6. Answered(c, k).at["keys"] = "out" /\ Answered(c, k).at["vendors"] = "fetching"
    BY <1>1, <2>5 DEF Ready, Caches
  <2> QED BY <1>1, <2>4, <2>5, <2>6
<1>2. CASE ~(k = "token" /\ caller[c].at["vendors"] = "fetching")
  <2>1. Answered(c, k) = Out
    BY <1>2 DEF Answered
  <2>2. \A j \in Caches \ {k} : caller[c].at[j] = "out"
    BY <1>2 DEF Ready
  <2>3. {"token", "vendors", "keys"} = Caches
    BY DEF Caches
  <2> QED BY <2>1, <2>2, <2>3, OutIs
<1> QED BY <1>1, <1>2

\* The parts that speak of one caller, when only one caller moves and time stands.
LEMMA OthersAlone ==
  ASSUME CIInv, NEW c \in Callers, clock' = clock, \A d \in Callers \ {c} : caller'[d] = caller[d],
         OneErrand(c)', FetchInTime(c)'
  PROVE  \A d \in Callers : OneErrand(d)' /\ FetchInTime(d)'
<1>1. \A d \in Callers \ {c} : OneErrand(d)' /\ FetchInTime(d)'
  BY DEF CIInv, OneErrand, FetchInTime
<1> QED BY <1>1

\* A token handed out is alive.
LEMMA HandAlive ==
  ASSUME CIInv, NEW k \in Caches, Hand(k), k = "token" /\ ~crowded' => clock < entry["token"], ~crowded' => ~crowded
  PROVE  TokenAlive' /\ handed' \in [expires : Int, when : Nat]
<1>1. CASE k = "token"
  BY <1>1, RowTypes DEF CIInv, Hand, TokenAlive, Caches
<1>2. CASE k # "token"
  BY <1>2 DEF CIInv, Hand, TokenAlive, CachesTypeOK
<1> QED BY <1>1, <1>2

\* A step of one caller keeps the types when what it writes has them.
LEMMA TypeStep ==
  ASSUME CIInv, NEW c \in Callers, clock' = clock, entry' \in [Caches -> Int], lock' \in [Caches -> Seq(Callers)],
         NEW row \in CallerRow, caller' = [caller EXCEPT ![c] = row], handed' \in [expires : Int, when : Nat],
         crowded' \in BOOLEAN
  PROVE  /\ CachesTypeOK' /\ caller'[c] = row /\ \A d \in Callers \ {c} : caller'[d] = caller[d]
BY RowTypes DEF CIInv, CachesTypeOK

-----------------------------------------------------------------------------
\* The look without the lock finds a fresh entry.
LEMMA AskFresh ==
  ASSUME CIInv, NEW c \in Callers, NEW k \in Caches, Ask(c, k), Fresh(k, clock)
  PROVE  CIInv'
<1> DEFINE row == Answered(c, k)
<1>1. /\ MayAsk(c, k) /\ caller' = [caller EXCEPT ![c] = row] /\ Hand(k) /\ lock' = lock
      /\ crowded' \in BOOLEAN /\ (~crowded' => ~crowded) /\ UNCHANGED <<clock, entry>>
  BY DEF Ask
<1>2. Ready(c, k) /\ caller[c].at[k] = "out"
  BY <1>1, AskIsReady
<1>3. /\ row \in CallerRow /\ row.at["token"] = "out"
      /\ \A j \in Caches : row.at[j] = caller[c].at[j]
      /\ row.at["keys"] # "out" => row.at["vendors"] = "out"
      /\ row.holdsToken => row.at["vendors"] = "fetching"
  BY <1>2, AnsweredIs
<1> HIDE DEF row
<1>4. TokenAlive' /\ handed' \in [expires : Int, when : Nat]
  <2>1. k = "token" => clock < entry["token"]
    <3>1. entry["token"] \in Int /\ clock \in Nat /\ Margin \in Nat
      BY CachesAssumption, RowTypes DEF CIInv, Caches
    <3> QED BY <3>1 DEF Fresh
  <2> QED BY <1>1, <2>1, HandAlive
<1>5. CachesTypeOK' /\ caller'[c] = row /\ \A d \in Callers \ {c} : caller'[d] = caller[d]
  BY <1>1, <1>3, <1>4, RowTypes, TypeStep DEF CIInv
<1>6. ASSUME NEW j \in Caches PROVE Queue(j)'
  <2>1. \A d \in Callers : caller'[d].at[j] = caller[d].at[j]
    BY <1>3, <1>5
  <2> QED BY <1>1, <2>1, QueueSame, RowTypes DEF CIInv
<1>7. OneErrand(c)' /\ FetchInTime(c)'
  BY <1>3, <1>5 DEF OneErrand, FetchInTime
<1>8. ~crowded' => WaitBounded'
  <2>1. caller[c].at["token"] = "out"
    BY <1>3 DEF Caches
  <2> QED BY <1>1, <1>5, <2>1, WaitSame
<1> QED BY <1>1, <1>4, <1>5, <1>6, <1>7, <1>8, OthersAlone DEF CIInv

\* It does not, and the caller queues for the lock.
LEMMA AskStale ==
  ASSUME CIInv, NEW c \in Callers, NEW k \in Caches, Ask(c, k), ~Fresh(k, clock)
  PROVE  CIInv'
<1> DEFINE row == [at |-> [caller[c].at EXCEPT ![k] = "waiting"], asked |-> [caller[c].asked EXCEPT ![k] = clock],
                   began |-> caller[c].began, holdsToken |-> caller[c].holdsToken]
<1>1. /\ MayAsk(c, k) /\ lock' = [lock EXCEPT ![k] = Append(lock[k], c)] /\ UNCHANGED <<clock, entry, handed>>
      /\ crowded' \in BOOLEAN /\ (~crowded' => ~crowded /\ ~(Len(lock'["token"]) > Room))
      /\ caller' = [caller EXCEPT ![c] = [caller[c] EXCEPT !.at[k] = "waiting", !.asked[k] = clock]]
  BY DEF Ask
<1>2. Ready(c, k) /\ caller[c].at[k] = "out" /\ ~caller[c].holdsToken
  BY <1>1, AskIsReady
<1>3. /\ caller \in [Callers -> CallerRow] /\ clock \in 0..Horizon
      /\ caller[c].at \in [Caches -> Stage] /\ caller[c].asked \in [Caches -> 0..Horizon]
      /\ caller[c].began \in 0..Horizon /\ caller[c].holdsToken \in BOOLEAN
  BY RowTypes DEF CIInv
<1>4. caller' = [caller EXCEPT ![c] = row]
  <2>1. [caller[c] EXCEPT !.at[k] = "waiting", !.asked[k] = clock] = row
    <3>1. PICK a \in [Caches -> Stage], s \in [Caches -> 0..Horizon], b \in 0..Horizon, h \in BOOLEAN :
            caller[c] = [at |-> a, asked |-> s, began |-> b, holdsToken |-> h]
      BY <1>3 DEF CallerRow
    <3>2. [caller[c] EXCEPT !.at[k] = "waiting"]
            = [at |-> [a EXCEPT ![k] = "waiting"], asked |-> s, began |-> b, holdsToken |-> h]
      BY <3>1
    <3>3. [caller[c] EXCEPT !.at[k] = "waiting", !.asked[k] = clock]
            = [[caller[c] EXCEPT !.at[k] = "waiting"] EXCEPT !.asked[k] = clock]
      BY <3>1
    <3>4. [[at |-> [a EXCEPT ![k] = "waiting"], asked |-> s, began |-> b, holdsToken |-> h] EXCEPT !.asked[k] = clock]
            = [at |-> [a EXCEPT ![k] = "waiting"], asked |-> [s EXCEPT ![k] = clock], began |-> b, holdsToken |-> h]
      OBVIOUS
    <3> QED BY <3>1, <3>2, <3>3, <3>4
  <2> QED BY <1>1, <2>1
<1>5. [caller[c].at EXCEPT ![k] = "waiting"] \in [Caches -> Stage] /\ [caller[c].asked EXCEPT ![k] = clock] \in [Caches -> 0..Horizon]
  BY <1>3 DEF Stage
<1>6. /\ row \in CallerRow /\ row.at[k] = "waiting" /\ row.asked[k] = clock /\ ~row.holdsToken
      /\ \A j \in Caches \ {k} : row.at[j] = caller[c].at[j]
  BY <1>2, <1>3, <1>5 DEF CallerRow
<1> HIDE DEF row
<1>7. lock \in [Caches -> Seq(Callers)] /\ lock' \in [Caches -> Seq(Callers)] /\ lock'[k] = Append(lock[k], c)
      /\ \A j \in Caches \ {k} : lock'[j] = lock[j]
  <2>1. lock \in [Caches -> Seq(Callers)]
    BY RowTypes DEF CIInv
  <2>2. Append(lock[k], c) \in Seq(Callers)
    BY <2>1
  <2> QED BY <1>1, <2>1, <2>2
<1>8. TokenAlive' /\ handed' \in [expires : Int, when : Nat]
  BY <1>1 DEF CIInv, TokenAlive, CachesTypeOK
<1>9. CachesTypeOK' /\ caller'[c] = row /\ \A d \in Callers \ {c} : caller'[d] = caller[d]
  BY <1>1, <1>4, <1>6, <1>7, <1>8, RowTypes, TypeStep DEF CIInv
<1>10. Queue(k)'
  BY <1>2, <1>6, <1>7, <1>9, QueueJoin DEF CIInv
<1>11. ASSUME NEW j \in Caches \ {k} PROVE Queue(j)'
  <2>1. \A d \in Callers : caller'[d].at[j] = caller[d].at[j]
    BY <1>6, <1>9
  <2> QED BY <1>7, <2>1, QueueSame DEF CIInv
<1>12. OneErrand(c)' /\ FetchInTime(c)'
  <2>1. CASE k = "token"
    BY <1>2, <1>6, <1>9, <2>1 DEF Ready, OneErrand, FetchInTime, Caches
  <2>2. CASE k # "token"
    <3>1. \A j \in Caches \ {k} : row.at[j] = "out"
      BY <1>2, <1>6, <2>2 DEF Ready
    <3>2. row.at["token"] = "out"
      BY <2>2, <3>1 DEF Caches
    <3> QED BY <1>6, <1>9, <3>1, <3>2 DEF OneErrand, FetchInTime, Caches
  <2> QED BY <2>1, <2>2
<1>13. ~crowded' => WaitBounded'
  <2>1. CASE k = "token"
    <3>1. Len(lock'["token"]) \in Nat /\ Room \in Nat
      BY <1>7, <2>1, RoomFits
    <3>2. ~crowded' => Len(lock'["token"]) <= Room
      BY <1>1, <3>1
    <3> QED BY <1>1, <1>2, <1>6, <1>7, <1>9, <2>1, <3>2, WaitJoin
  <2>2. CASE k # "token"
    <3>1. lock'["token"] = lock["token"] /\ caller[c].at["token"] = "out"
      BY <1>2, <1>7, <2>2 DEF Ready, Caches
    <3> QED BY <1>1, <1>9, <3>1, WaitSame
  <2> QED BY <2>1, <2>2
<1>14. \A j \in Caches : Queue(j)'
  BY <1>10, <1>11
<1> QED BY <1>1, <1>8, <1>9, <1>12, <1>13, <1>14, OthersAlone DEF CIInv

\* The caller at the head of a queue leaves it with an answer.
LEMMA Leave ==
  ASSUME CIInv, NEW c \in Callers, NEW k \in Caches, Ready(c, k), lock[k] # <<>>, lock[k][1] = c,
         lock' = [lock EXCEPT ![k] = Tail(lock[k])], caller' = [caller EXCEPT ![c] = Answered(c, k)],
         clock' = clock, entry' \in [Caches -> Int], handed' \in [expires : Int, when : Nat], TokenAlive',
         crowded' = crowded
  PROVE  CIInv'
<1> DEFINE row == Answered(c, k)
<1>1. /\ row \in CallerRow /\ row.at[k] = "out" /\ row.at["token"] = "out"
      /\ \A j \in Caches \ {k} : row.at[j] = caller[c].at[j]
      /\ row.at["keys"] # "out" => row.at["vendors"] = "out"
      /\ row.holdsToken => row.at["vendors"] = "fetching"
  BY AnsweredIs
<1>2. lock \in [Caches -> Seq(Callers)] /\ lock' \in [Caches -> Seq(Callers)] /\ lock'[k] = Tail(lock[k])
      /\ \A j \in Caches \ {k} : lock'[j] = lock[j]
  <2>1. lock \in [Caches -> Seq(Callers)]
    BY RowTypes DEF CIInv
  <2>2. Tail(lock[k]) \in Seq(Callers)
    BY <2>1
  <2> QED BY <2>1, <2>2
<1>0. caller' = [caller EXCEPT ![c] = row]
  OBVIOUS
<1> HIDE DEF row
<1>3. CachesTypeOK' /\ caller'[c] = row /\ \A d \in Callers \ {c} : caller'[d] = caller[d]
  <2>1. row \in CallerRow /\ lock' \in [Caches -> Seq(Callers)]
    BY <1>1, <1>2
  <2>2. crowded' \in BOOLEAN
    BY DEF CIInv, CachesTypeOK
  <2> QED BY <1>0, <2>1, <2>2, TypeStep
<1>4. Queue(k)'
  BY <1>1, <1>2, <1>3, QueueLeave DEF CIInv
<1>5. ASSUME NEW j \in Caches \ {k} PROVE Queue(j)'
  <2>1. \A d \in Callers : caller'[d].at[j] = caller[d].at[j]
    BY <1>1, <1>3
  <2> QED BY <1>2, <2>1, QueueSame DEF CIInv
<1>6. OneErrand(c)' /\ FetchInTime(c)'
  BY <1>1, <1>3 DEF OneErrand, FetchInTime
<1>7. ~crowded' => WaitBounded'
  <2>1. CASE k = "token"
    BY <1>2, <1>3, <1>4, <2>1, WaitLeave
  <2>2. CASE k # "token"
    <3>1. lock'["token"] = lock["token"] /\ caller[c].at["token"] = "out"
      BY <1>2, <2>2 DEF Ready, Caches
    <3> QED BY <1>3, <3>1, WaitSame
  <2> QED BY <2>1, <2>2
<1>8. \A j \in Caches : Queue(j)'
  BY <1>4, <1>5
<1> QED BY <1>3, <1>6, <1>7, <1>8, OthersAlone DEF CIInv

\* A caller that waits at the head of a queue.
LEMMA HeadWaits ==
  ASSUME CIInv, NEW c \in Callers, NEW k \in Caches, caller[c].at[k] = "waiting", Head(lock[k]) = c
  PROVE  lock[k] # <<>> /\ lock[k][1] = c
<1>1. lock[k] \in Seq(Callers)
  BY RowTypes DEF CIInv
<1>2. \E i \in 1..Len(lock[k]) : lock[k][i] = c
  BY DEF CIInv, Queue
<1>3. lock[k] # <<>>
  BY <1>1, <1>2, EmptySeq
<1> QED BY <1>1, <1>3

\* The second look finds the token fresh by the time the caller came: the margin
\* outlasts what it waited since.
LEMMA EnterFresh ==
  ASSUME CIInv, NEW c \in Callers, NEW k \in Caches, Enter(c, k), Fresh(k, Seen(c, k))
  PROVE  CIInv'
<1>1. /\ caller[c].at[k] = "waiting" /\ Head(lock[k]) = c /\ Hand(k)
      /\ caller' = [caller EXCEPT ![c] = Answered(c, k)] /\ lock' = [lock EXCEPT ![k] = Tail(lock[k])]
      /\ UNCHANGED <<clock, entry, crowded>>
  BY DEF Enter
<1>2. Ready(c, k) /\ lock[k] # <<>> /\ lock[k][1] = c
  BY <1>1, InLockIsReady, HeadWaits
<1>3. k = "token" /\ ~crowded => clock < entry["token"]
  <2> SUFFICES ASSUME k = "token", ~crowded PROVE clock < entry["token"]
    OBVIOUS
  <2>1. PICK t \in Nat, e \in Int, a \in Nat, m \in Nat :
          t = clock /\ e = entry["token"] /\ a = caller[c].asked["token"] /\ m = Margin
    <3>1. clock \in Nat /\ entry["token"] \in Int /\ Margin \in Nat
      BY CachesAssumption, RowTypes DEF CIInv, Caches
    <3>2. caller[c].asked \in [Caches -> 0..Horizon] /\ Horizon \in Nat
      BY CachesAssumption, RowTypes DEF CIInv
    <3>3. caller[c].asked["token"] \in Nat
      BY <3>2 DEF Caches
    <3> QED BY <3>1, <3>3
  <2>2. e - m > a
    BY <2>1 DEF Fresh, Seen
  <2>3. 1 \in 1..Len(lock["token"])
    BY <1>2, Places
  <2>4. PICK b \in Nat, f \in Nat, w \in Nat :
          b = (Room - 1) * Timeout /\ f = Elapsed /\ w = Timeout /\ f <= w
    BY <2>3, Places
  <2>5. t - a <= b + f
    BY <1>2, <2>1, <2>3, <2>4, Places
  <2>6. b + w <= m
    BY <2>1, <2>3, <2>4, Places
  <2>7. t < e
    BY <2>1, <2>2, <2>4, <2>5, <2>6
  <2> QED BY <2>1, <2>7
<1>4. TokenAlive' /\ handed' \in [expires : Int, when : Nat]
  BY <1>1, <1>3, HandAlive
<1>5. entry' \in [Caches -> Int]
  BY <1>1, RowTypes DEF CIInv
<1> QED BY <1>1, <1>2, <1>4, <1>5, Leave

\* The second look finds the entry stale, and the caller starts to fetch.
LEMMA EnterStale ==
  ASSUME CIInv, NEW c \in Callers, NEW k \in Caches, Enter(c, k), ~Fresh(k, Seen(c, k))
  PROVE  CIInv'
<1> DEFINE row == [at |-> [caller[c].at EXCEPT ![k] = "fetching"], asked |-> caller[c].asked,
                   began |-> clock, holdsToken |-> caller[c].holdsToken]
<1>1. /\ caller[c].at[k] = "waiting" /\ Head(lock[k]) = c
      /\ caller' = [caller EXCEPT ![c] = [caller[c] EXCEPT !.at[k] = "fetching", !.began = clock]]
      /\ UNCHANGED <<clock, entry, lock, handed, crowded>>
  BY DEF Enter
<1>2. Ready(c, k) /\ lock[k] # <<>> /\ lock[k][1] = c
  BY <1>1, InLockIsReady, HeadWaits
<1>3. /\ caller \in [Callers -> CallerRow] /\ clock \in 0..Horizon
      /\ caller[c].at \in [Caches -> Stage] /\ caller[c].asked \in [Caches -> 0..Horizon]
      /\ caller[c].holdsToken \in BOOLEAN
  BY RowTypes DEF CIInv
<1>4. caller' = [caller EXCEPT ![c] = row]
  <2>1. [caller[c] EXCEPT !.at[k] = "fetching", !.began = clock] = row
    <3>1. PICK a \in [Caches -> Stage], s \in [Caches -> 0..Horizon], b \in 0..Horizon, h \in BOOLEAN :
            caller[c] = [at |-> a, asked |-> s, began |-> b, holdsToken |-> h]
      BY <1>3 DEF CallerRow
    <3>2. [caller[c] EXCEPT !.at[k] = "fetching"]
            = [at |-> [a EXCEPT ![k] = "fetching"], asked |-> s, began |-> b, holdsToken |-> h]
      BY <3>1
    <3>3. [caller[c] EXCEPT !.at[k] = "fetching", !.began = clock]
            = [[caller[c] EXCEPT !.at[k] = "fetching"] EXCEPT !.began = clock]
      BY <3>1
    <3>4. [[at |-> [a EXCEPT ![k] = "fetching"], asked |-> s, began |-> b, holdsToken |-> h] EXCEPT !.began = clock]
            = [at |-> [a EXCEPT ![k] = "fetching"], asked |-> s, began |-> clock, holdsToken |-> h]
      OBVIOUS
    <3> QED BY <3>1, <3>2, <3>3, <3>4
  <2> QED BY <1>1, <2>1
<1>5. [caller[c].at EXCEPT ![k] = "fetching"] \in [Caches -> Stage]
  BY <1>3 DEF Stage
<1>6. /\ row \in CallerRow /\ row.at[k] = "fetching" /\ row.asked = caller[c].asked /\ row.began = clock
      /\ row.holdsToken = caller[c].holdsToken /\ \A j \in Caches \ {k} : row.at[j] = caller[c].at[j]
  BY <1>3, <1>5 DEF CallerRow
<1>7. ~caller[c].holdsToken
  <2>1. OneErrand(c)
    BY DEF CIInv
  <2> QED BY <1>1, <1>2, <2>1 DEF OneErrand, Ready, Caches
<1> HIDE DEF row
<1>8. lock \in [Caches -> Seq(Callers)]
  BY RowTypes DEF CIInv
<1>9. TokenAlive' /\ handed' \in [expires : Int, when : Nat]
  BY <1>1 DEF CIInv, TokenAlive, CachesTypeOK
<1>10. CachesTypeOK' /\ caller'[c] = row /\ \A d \in Callers \ {c} : caller'[d] = caller[d]
  <2>1. clock' = clock /\ entry' \in [Caches -> Int] /\ lock' \in [Caches -> Seq(Callers)]
    BY <1>1, <1>8, RowTypes DEF CIInv
  <2>2. row \in CallerRow
    BY <1>6
  <2>3. crowded' \in BOOLEAN
    BY <1>1 DEF CIInv, CachesTypeOK
  <2> QED BY <1>4, <1>9, <2>1, <2>2, <2>3, TypeStep
<1>11. Queue(k)'
  BY <1>1, <1>2, <1>6, <1>8, <1>10, QueueFetch DEF CIInv
<1>12. ASSUME NEW j \in Caches \ {k} PROVE Queue(j)'
  <2>1. \A d \in Callers : caller'[d].at[j] = caller[d].at[j]
    BY <1>6, <1>10
  <2> QED BY <1>1, <1>8, <2>1, QueueSame DEF CIInv
<1>13. OneErrand(c)' /\ FetchInTime(c)'
  <2>1. Timeout \in Nat /\ clock \in Nat
    BY CachesAssumption, RowTypes DEF CIInv
  <2>2. FetchInTime(c)'
    <3>1. CASE k = "token"
      BY <1>1, <1>6, <1>10, <2>1 DEF FetchInTime
    <3>2. CASE k # "token"
      BY <1>2, <1>6, <1>10, <3>2 DEF FetchInTime, Ready, Caches
    <3> QED BY <3>1, <3>2
  <2>3. OneErrand(c)'
    BY <1>2, <1>6, <1>7, <1>10 DEF OneErrand, Ready, Caches
  <2> QED BY <2>2, <2>3
<1>14. ~crowded' => WaitBounded'
  <2>1. CASE k = "token"
    BY <1>1, <1>2, <1>6, <1>10, <2>1, WaitFetch
  <2>2. CASE k # "token"
    <3>1. caller[c].at["token"] = "out"
      BY <1>2, <2>2 DEF Ready, Caches
    <3> QED BY <1>1, <1>10, <3>1, WaitSame
  <2> QED BY <2>1, <2>2
<1>15. \A j \in Caches : Queue(j)'
  BY <1>11, <1>12
<1> QED BY <1>1, <1>9, <1>10, <1>13, <1>14, <1>15, OthersAlone DEF CIInv

\* An answer fills the entry and lets the next caller in.
LEMMA FetchedKeeps ==
  ASSUME CIInv, NEW c \in Callers, NEW k \in Caches, NEW expiry \in Expiries(c), Fetched(c, k, expiry)
  PROVE  CIInv'
<1>1. /\ Calling(c, k) /\ entry' = [entry EXCEPT ![k] = Kept(c, k, expiry)]
      /\ lock' = [lock EXCEPT ![k] = Tail(lock[k])] /\ caller' = [caller EXCEPT ![c] = Answered(c, k)]
      /\ UNCHANGED <<clock, handed, crowded>>
  BY DEF Fetched
<1>2. Kept(c, k, expiry) \in Int
  <2>1. clock \in Nat /\ {Cutoff, Lifetime} \subseteq Nat \ {0} /\ caller[c].asked[k] \in Nat /\ caller[c].began \in Nat
    BY CachesAssumption, RowTypes DEF CIInv
  <2>2. expiry \in Int
    <3>1. ASSUME NEW issued \in Nat PROVE NextCutoff(issued) \in Int
      <4>1. issued \div Cutoff \in Int
        BY <2>1
      <4> QED BY <2>1, <4>1 DEF NextCutoff
    <3>2. (caller[c].began)..clock \subseteq Nat /\ clock + Lifetime \in Int
      BY <2>1
    <3> QED BY <3>1, <3>2 DEF Expiries
  <2> QED BY <2>1, <2>2 DEF Kept, Caches
<1>3. entry' \in [Caches -> Int]
  BY <1>1, <1>2, RowTypes DEF CIInv
<1>4. Ready(c, k) /\ lock[k] # <<>> /\ lock[k][1] = c
  BY <1>1, InLockIsReady, FetcherIsHead DEF CIInv, Calling
<1>5. TokenAlive' /\ handed' \in [expires : Int, when : Nat]
  BY <1>1 DEF CIInv, TokenAlive, CachesTypeOK
<1> QED BY <1>1, <1>3, <1>4, <1>5, Leave

\* An error leaves every lock the caller is in.
LEMMA FetchFailsKeeps ==
  ASSUME CIInv, NEW c \in Callers, NEW k \in Caches, FetchFails(c, k)
  PROVE  CIInv'
<1>1. /\ Calling(c, k) /\ caller' = [caller EXCEPT ![c] = Out] /\ UNCHANGED <<clock, entry, handed, crowded>>
      /\ lock' = [j \in Caches |-> IF caller[c].at[j] = "fetching" THEN Tail(lock[j]) ELSE lock[j]]
  BY DEF FetchFails
<1>2. Ready(c, k) /\ caller[c].at[k] = "fetching"
  BY <1>1, InLockIsReady DEF Calling
<1>3. \A j \in Caches : caller[c].at[j] = "fetching" \/ caller[c].at[j] = "out"
  BY <1>2 DEF Ready
<1>4. \A j \in Caches : caller[c].at[j] = "fetching" => lock[j] # <<>> /\ lock[j][1] = c
  BY FetcherIsHead DEF CIInv
<1>5. lock \in [Caches -> Seq(Callers)] /\ \A j \in Caches : lock'[j] \in Seq(Callers)
  <2>1. lock \in [Caches -> Seq(Callers)]
    BY RowTypes DEF CIInv
  <2> QED BY <1>1, <1>4, <2>1
<1>6. TokenAlive' /\ handed' \in [expires : Int, when : Nat]
  BY <1>1 DEF CIInv, TokenAlive, CachesTypeOK
<1>7. CachesTypeOK' /\ caller'[c] = Out /\ \A d \in Callers \ {c} : caller'[d] = caller[d]
  <2>1. lock' \in [Caches -> Seq(Callers)]
    BY <1>1, <1>5
  <2>2. crowded' \in BOOLEAN /\ entry' \in [Caches -> Int]
    BY <1>1 DEF CIInv, CachesTypeOK
  <2> QED BY <1>1, <1>6, <2>1, <2>2, OutIs, TypeStep
<1>8. ASSUME NEW j \in Caches PROVE Queue(j)'
  <2>1. CASE caller[c].at[j] = "fetching"
    BY <1>1, <1>4, <1>5, <1>7, <2>1, OutIs, QueueLeave DEF CIInv
  <2>2. CASE caller[c].at[j] = "out"
    <3>1. \A d \in Callers : caller'[d].at[j] = caller[d].at[j]
      BY <1>7, <2>2, OutIs
    <3> QED BY <1>1, <1>5, <2>2, <3>1, QueueSame DEF CIInv
  <2> QED BY <1>3, <2>1, <2>2
<1>9. OneErrand(c)' /\ FetchInTime(c)'
  BY <1>7, OutIs DEF OneErrand, FetchInTime, Caches
<1>10. ~crowded' => WaitBounded'
  <2>0. "token" \in Caches
    BY DEF Caches
  <2>1. CASE caller[c].at["token"] = "fetching"
    BY <1>1, <1>4, <1>7, <1>8, <2>0, <2>1, WaitLeave
  <2>2. CASE caller[c].at["token"] = "out"
    BY <1>1, <1>7, <2>0, <2>2, WaitSame
  <2> QED BY <1>3, <2>0, <2>1, <2>2
<1> QED BY <1>6, <1>7, <1>8, <1>9, <1>10, <1>1, OthersAlone DEF CIInv

\* Time passes only while the head of every queue fetches.
LEMMA TickKeeps ==
  ASSUME CIInv, CacheTick
  PROVE  CIInv'
<1>1. /\ UNCHANGED <<entry, lock, caller, handed, crowded>> /\ clock' = clock + 1 /\ clock < Horizon
      /\ clock \in 0..Horizon /\ Horizon \in Nat /\ Timeout \in Nat
  BY CachesAssumption, RowTypes DEF CacheTick, CIInv
<1>2. CachesTypeOK' /\ TokenAlive'
  BY <1>1 DEF CIInv, CachesTypeOK, TokenAlive
<1>3. ASSUME NEW c \in Callers PROVE OneErrand(c)' /\ FetchInTime(c)'
  <2>1. caller[c].at["token"] = "fetching" => clock < caller[c].began + Timeout
    BY DEF CacheTick, Calling, Caches
  <2>2. caller[c].began \in 0..Horizon
    BY RowTypes DEF CIInv
  <2> QED BY <1>1, <2>1, <2>2 DEF CIInv, OneErrand, FetchInTime
<1>4. \A k \in Caches : Queue(k)'
  BY <1>1 DEF CIInv, Queue
<1>5. ~crowded' => WaitBounded'
  BY <1>1, WaitTick
<1> QED BY <1>2, <1>3, <1>4, <1>5 DEF CIInv

\* The caches start empty, with nobody in a queue.
LEMMA InitCIInv == CachesInit => CIInv
<1> SUFFICES ASSUME CachesInit PROVE CIInv
  OBVIOUS
<1>1. /\ clock \in 0..(Cutoff - 1) /\ entry = [k \in Caches |-> -Ttl] /\ lock = [k \in Caches |-> <<>>]
      /\ caller = [c \in Callers |-> Out] /\ handed = NotYet /\ crowded = FALSE
  BY DEF CachesInit
<1>2. CachesTypeOK
  <2>1. clock \in 0..Horizon /\ -Ttl \in Int
    BY <1>1, CachesAssumption
  <2>2. handed \in [expires : Int, when : Nat]
    BY <1>1 DEF NotYet
  <2> QED BY <1>1, <2>1, <2>2, OutIs, EmptySeq DEF CachesTypeOK
<1>3. \A k \in Caches : Len(lock[k]) = 0
  BY <1>1, EmptySeq
<1>4. \A k \in Caches : Queue(k)
  BY <1>1, <1>3, OutIs DEF Queue
<1>5. WaitBounded
  BY <1>3, RoomFits DEF WaitBounded, Caches
<1>6. \A c \in Callers : OneErrand(c) /\ FetchInTime(c)
  BY <1>1, OutIs DEF OneErrand, FetchInTime, Caches
<1>7. TokenAlive
  BY <1>1 DEF TokenAlive, NotYet
<1> QED BY <1>2, <1>4, <1>5, <1>6, <1>7 DEF CIInv

\* Every step keeps the invariant.
LEMMA StepCIInv == CIInv /\ [CachesNext]_cacheVars => CIInv'
<1> SUFFICES ASSUME CIInv, [CachesNext]_cacheVars PROVE CIInv'
  OBVIOUS
<1>1. CASE UNCHANGED cacheVars
  <2>1. UNCHANGED <<clock, entry, lock, caller, handed, crowded>>
    BY <1>1 DEF cacheVars
  <2>2. Elapsed' = Elapsed
    BY <2>1 DEF Elapsed
  <2> QED BY <2>1, <2>2 DEF CIInv, CachesTypeOK, TokenAlive, WaitBounded, Queue, OneErrand, FetchInTime
<1> QED BY <1>1, AskFresh, AskStale, EnterFresh, EnterStale, FetchedKeeps, FetchFailsKeeps, TickKeeps DEF CachesNext

\* The caches keep their shape.
THEOREM CachesTypeCorrect == CachesSpec => []CachesTypeOK
<1>1. CIInv => CachesTypeOK
  BY DEF CIInv
<1> QED BY <1>1, InitCIInv, StepCIInv, PTL DEF CachesSpec

\* However long a caller waited, the token it is handed has not expired, as long
\* as the queue for the token never outgrew the room the margin leaves.
THEOREM HandedTokenIsAlive == CachesSpec => []TokenAlive
<1>1. CIInv => TokenAlive
  BY DEF CIInv
<1> QED BY <1>1, InitCIInv, StepCIInv, PTL DEF CachesSpec
=============================================================================
