-------------------------- MODULE Catalogue_proofs --------------------------
(* Theorems about what the shop shows. Categories: as long as no two PATCHes  *)
(* that move one overlap, the tree has no cycle, and as long as no two about  *)
(* one category's picture overlap, none is torn. Pictures: one primary        *)
(* picture per product. Products: the time of the first publication stays     *)
(* unless two race to be the first, the page of a variant agrees with its     *)
(* stock and its holds, and a count that corrects it is told. Imports: what   *)
(* the admin polls accounts for every row at every moment, and a row reported *)
(* as failed left nothing in the database, wherever a row fails, somebody     *)
(* else adds its key, a commit is refused or the task dies. All for every     *)
(* number of categories, requests, pictures, products and variants, and for   *)
(* every file and chunk size.                                                 *)
EXTENDS CategoryTree, ProductImages, ProductLifecycle, ImportJob, SumLemmas, NaturalsInduction

-----------------------------------------------------------------------------
(* Categories *)

\* A category comes into being under existing ones only.
Rooted ==
  \A c \in Cats : /\ ~Exists(c) => Parent(c) = None
                  /\ Parent(c) \in Cats => Exists(Parent(c))

\* The picture of every category is whole.
AllWhole == \A c \in Cats : category[c].url = None <=> category[c].pid = None

\* The categories a PATCH names are never deleted.
PatchNames(a) ==
  Exists(patch[a].id) /\ (patch[a].body.parent \in Cats => Exists(patch[a].body.parent))

\* What a lone PATCH has read and tested is still so when it writes.
PatchHolds(a) ==
  LET id == patch[a].id
      body == patch[a].body
      read == patch[a].read
  IN /\ category[id].parent = read.parent
     /\ category[id].url = read.url /\ category[id].pid = read.pid
     /\ WholePair(body, read)
     /\ body.parent \in Cats => body.parent # id /\ body.parent \notin Descendants(id)

\* The inductive invariant.
TreeIInv ==
  /\ CategoryTypeOK
  /\ Rooted
  /\ \A a \in Admins : patch[a] # NoPatch => PatchNames(a)
  /\ ~overlap =>
       /\ Acyclic /\ AllWhole
       /\ \A a, b \in Admins : patch[a] # NoPatch /\ patch[b] # NoPatch => a = b
       /\ \A a \in Admins : patch[a] # NoPatch => PatchHolds(a)

\* A request that is in flight is a record with what it read.
LEMMA InFlight ==
  ASSUME CategoryTypeOK, NEW a \in Admins, patch[a] # NoPatch
  PROVE  /\ patch[a] \in PatchState /\ patch[a].id \in Cats /\ patch[a].body \in Body
         /\ patch[a].read \in CategoryRow
         /\ category[patch[a].id] \in CategoryRow
BY DEF CategoryTypeOK, PatchState, NoPatch

\* An empty shop has a sound tree.
LEMMA TreeInit == CategoryInit => TreeIInv
<1> SUFFICES ASSUME CategoryInit PROVE TreeIInv
  OBVIOUS
<1>1. CategoryTypeOK
  BY DEF CategoryInit, CategoryTypeOK, CategoryRow, NoCategory
<1>2. \A c \in Cats : Parent(c) = None /\ category[c].url = None /\ category[c].pid = None
  BY DEF CategoryInit, NoCategory, Parent
<1>3. Rooted /\ AllWhole
  BY <1>2, CategoryAssumption DEF Rooted, AllWhole
<1>4. Acyclic
  BY <1>2, CategoryAssumption DEF Acyclic
<1>5. \A a \in Admins : patch[a] = NoPatch
  BY DEF CategoryInit
<1> QED BY <1>1, <1>3, <1>4, <1>5 DEF TreeIInv

\* A new leaf makes no cycle and is below nobody who was not above its parent.
LEMMA NewLeaf ==
  ASSUME CategoryTypeOK, Rooted, NEW leaf \in Cats, ~Exists(leaf),
         NEW up \in Cats \cup {None}, up # None => Exists(up),
         \A c \in Cats : Parent(c)' = IF c = leaf THEN up ELSE Parent(c)
  PROVE  /\ Acyclic => Acyclic'
         /\ \A id, p \in Cats : Exists(p) /\ p \notin Descendants(id) => p \notin Descendants(id)'
<1>1. \A c \in Cats : Parent(c) # leaf
  BY DEF Rooted
<1>2. up # leaf
  BY CategoryAssumption
<1>3. ASSUME Acyclic, NEW S \in SUBSET Cats, \A c \in S : Parent(c)' \in S PROVE S = {}
  <2> DEFINE T == S \ {leaf}
  <2>1. \A c \in T : Parent(c) \in T
    BY <1>1, <1>3
  <2>2. T = {}
    BY <1>3, <2>1 DEF Acyclic
  <2>3. leaf \notin S
    BY <1>2, <1>3, <2>2
  <2> QED BY <2>2, <2>3
<1>4. ASSUME NEW id \in Cats, NEW p \in Cats, Exists(p), p \notin Descendants(id)
      PROVE  p \notin Descendants(id)'
  <2>1. CASE p = id
    BY <2>1 DEF Descendants
  <2>2. CASE p # id
    <3>1. PICK S \in SUBSET Cats : id \in S /\ ClosedDown(S) /\ p \notin S
      BY <1>4, <2>2 DEF Descendants
    <3> DEFINE T == S \cup {leaf}
    <3>2. ClosedDown(T)'
      <4> SUFFICES ASSUME NEW c \in Cats, Parent(c)' \in T PROVE c \in T
        BY DEF ClosedDown
      <4>1. CASE c = leaf
        BY <4>1
      <4>2. CASE c # leaf
        BY <1>1, <3>1, <4>2 DEF ClosedDown
      <4> QED BY <4>1, <4>2
    <3>3. T \in SUBSET Cats /\ id \in T /\ p \notin T
      BY <1>4, <3>1
    <3> HIDE DEF T
    <3> QED BY <3>2, <3>3 DEF Descendants
  <2> QED BY <2>1, <2>2
<1> QED BY <1>3, <1>4 DEF Acyclic

\* Moving a category under one that is not below it makes no cycle.
LEMMA Move ==
  ASSUME Acyclic, NEW id \in Cats, NEW up,
         up \in Cats => up # id /\ up \notin Descendants(id),
         \A c \in Cats : Parent(c)' = IF c = id THEN up ELSE Parent(c)
  PROVE  Acyclic'
<1> SUFFICES ASSUME NEW S \in SUBSET Cats, \A c \in S : Parent(c)' \in S PROVE S = {}
  BY DEF Acyclic
<1>1. CASE id \notin S
  <2>1. \A c \in S : Parent(c) \in S
    BY <1>1
  <2> QED BY <2>1 DEF Acyclic
<1>2. CASE id \in S
  <2>1. up \in S /\ up \in Cats
    BY <1>2
  <2>2. PICK D \in SUBSET Cats : id \in D /\ ClosedDown(D) /\ up \notin D
    BY <2>1 DEF Descendants
  <2> DEFINE T == S \ D
  <2>3. \A c \in T : Parent(c) \in T
    BY <2>2 DEF ClosedDown
  <2>4. T = {}
    BY <2>3 DEF Acyclic
  <2> QED BY <2>1, <2>2, <2>4
<1> QED BY <1>1, <1>2

-----------------------------------------------------------------------------

\* POST.
LEMMA CreateTree ==
  ASSUME TreeIInv, NEW c \in Cats, NEW up \in Cats \cup {None}, NEW photo \in Assets \cup {None},
         CreateCategory(c, up, photo)
  PROVE  TreeIInv'
<1> DEFINE new == [status |-> "active", parent |-> up, url |-> photo, pid |-> photo]
<1>1. /\ category \in [Cats -> CategoryRow] /\ category' = [category EXCEPT ![c] = new]
      /\ UNCHANGED <<assets, patch, overlap>> /\ ~Exists(c) /\ (up # None => Exists(up))
  BY DEF TreeIInv, CategoryTypeOK, CreateCategory
<1>2. new \in CategoryRow
  BY DEF CategoryRow
<1>3. CategoryTypeOK'
  BY <1>1, <1>2 DEF TreeIInv, CategoryTypeOK
<1>4. \A d \in Cats : category'[d] = IF d = c THEN new ELSE category[d]
  BY <1>1
<1>5. \A d \in Cats : /\ Parent(d)' = IF d = c THEN up ELSE Parent(d)
                      /\ Exists(d)' = (d = c \/ Exists(d))
  BY <1>4 DEF Parent, Exists
<1>6. Rooted'
  BY <1>1, <1>4, CategoryAssumption DEF TreeIInv, Rooted, Parent, Exists
<1>7. /\ Acyclic => Acyclic'
      /\ \A id, p \in Cats : Exists(p) /\ p \notin Descendants(id) => p \notin Descendants(id)'
  BY <1>1, <1>5, NewLeaf DEF TreeIInv
<1>8. AllWhole => AllWhole'
  BY <1>4 DEF AllWhole
<1>9. ASSUME NEW a \in Admins, patch[a] # NoPatch
      PROVE  PatchNames(a)' /\ (PatchHolds(a) => PatchHolds(a)')
  <2>1. /\ PatchNames(a) /\ patch[a].id \in Cats /\ patch[a].id # c
    BY <1>1, <1>9, InFlight DEF TreeIInv, PatchNames
  <2>2. PatchNames(a)'
    BY <1>1, <1>5, <2>1 DEF PatchNames
  <2>3. PICK id \in Cats : patch[a].id = id /\ patch'[a].id = id /\ category'[id] = category[id]
    BY <1>1, <1>4, <2>1
  <2>4. ASSUME PatchHolds(a), patch[a].body.parent \in Cats
        PROVE  patch[a].body.parent # id /\ patch[a].body.parent \notin Descendants(id)'
    <3> PICK p \in Cats : patch[a].body.parent = p
      BY <2>4
    <3>1. Exists(p) /\ p # id /\ p \notin Descendants(id)
      BY <2>1, <2>3, <2>4 DEF PatchHolds, PatchNames
    <3> QED BY <1>7, <3>1
  <2> QED BY <1>1, <2>2, <2>3, <2>4 DEF PatchHolds
<1> QED BY <1>1, <1>3, <1>6, <1>7, <1>8, <1>9 DEF TreeIInv

\* The start of a PATCH, which reads and tests.
LEMMA BeginTree ==
  ASSUME TreeIInv, NEW a \in Admins, NEW c \in Cats, NEW body \in Bodies, BeginPatch(a, c, body)
  PROVE  TreeIInv'
<1> DEFINE begun == [busy |-> TRUE, id |-> c, body |-> body, read |-> category[c]]
<1>1. /\ patch' = [patch EXCEPT ![a] = begun] /\ patch \in [Admins -> PatchState \cup {NoPatch}]
      /\ UNCHANGED <<category, assets>> /\ Exists(c) /\ category[c] \in CategoryRow
      /\ body.parent \in Cats => ValidParent(body.parent, c)
      /\ WholePair(body, category[c])
      /\ overlap' = (overlap \/ \E b \in Admins : patch[b] # NoPatch) /\ overlap \in BOOLEAN
  BY DEF TreeIInv, CategoryTypeOK, BeginPatch
<1>2. begun \in PatchState /\ body \in Body
  BY <1>1, CategoryAssumption DEF PatchState
<1>3. CategoryTypeOK'
  BY <1>1, <1>2 DEF TreeIInv, CategoryTypeOK
<1>4. \A b \in Admins : patch'[b] = IF b = a THEN begun ELSE patch[b]
  BY <1>1
<1>5. Rooted' /\ (Acyclic => Acyclic') /\ (AllWhole => AllWhole')
  BY <1>1 DEF TreeIInv, Rooted, Acyclic, AllWhole, Parent, Exists
<1>6. ASSUME NEW b \in Admins, patch'[b] # NoPatch PROVE PatchNames(b)'
  BY <1>1, <1>4, <1>6 DEF TreeIInv, PatchNames, ValidParent, Exists
<1>7. ASSUME ~overlap' PROVE \A b \in Admins : patch'[b] # NoPatch => b = a
  BY <1>1, <1>4, <1>7
<1>8. PatchHolds(a)'
  <2>1. patch'[a] = begun
    BY <1>4
  <2>2. begun.id = c /\ begun.body = body /\ begun.read = category[c]
    OBVIOUS
  <2> HIDE DEF begun
  <2>3. body.parent \in Cats => body.parent # c /\ body.parent \notin Descendants(c)'
    BY <1>1 DEF ValidParent, Descendants, ClosedDown, Parent
  <2>4. WholePair(body, category'[c])
    BY <1>1
  <2> QED BY <1>1, <2>1, <2>2, <2>3, <2>4 DEF PatchHolds
<1> QED BY <1>1, <1>3, <1>5, <1>6, <1>7, <1>8 DEF TreeIInv

\* What a PATCH may make of a row: each column keeps its value or takes the one
\* the body names, and a picture that was read as it is stays whole.
MayBecome(row, new, body, read) ==
  /\ new \in CategoryRow /\ new.status = row.status
  /\ new.parent = row.parent \/ (new.parent = body.parent /\ body.parent # Unset)
  /\ row.url = read.url /\ row.pid = read.pid /\ WholePair(body, read)
       /\ (row.url = None <=> row.pid = None)
       => (new.url = None <=> new.pid = None)

\* What a PATCH stores in a row: of a row that is as it was read, the value the
\* body names, or the old one.
LEMMA WrittenValue ==
  ASSUME NEW row \in CategoryRow, NEW read \in CategoryRow, NEW body \in Body
  PROVE  MayBecome(row, Patched(row, body, read), body, read)
<1> DEFINE p == Written(row, "parent", body, read)
           u == Written(row, "url", body, read)
           i == Written(row, "pid", body, read)
<1>1. Patched(row, body, read) = [row EXCEPT !.parent = p, !.url = u, !.pid = i]
  BY DEF Patched
<1>2. /\ p = row.parent \/ (p = body.parent /\ body.parent # Unset)
      /\ u = row.url \/ (u = body.url /\ body.url # Unset)
      /\ i = row.pid \/ (i = body.pid /\ body.pid # Unset)
  BY DEF Written, New
<1>3. p \in Cats \cup {None} /\ u \in Assets \cup {None} /\ i \in Assets \cup {None}
  BY <1>2 DEF CategoryRow, Body
<1>4. row.url = read.url /\ row.pid = read.pid /\ WholePair(body, read)
        /\ (row.url = None <=> row.pid = None) => (u = None <=> i = None)
  BY DEF Written, New, WholePair
<1> HIDE DEF p, u, i
<1> QED BY <1>1, <1>2, <1>3, <1>4 DEF MayBecome, CategoryRow

\* The end of a PATCH.  If it ran alone, its category is as it read it and its
\* new parent is still not below it.
LEMMA CommitTree ==
  ASSUME TreeIInv, NEW a \in Admins, CommitPatch(a)
  PROVE  TreeIInv'
<1>1. PICK id \in Cats, body \in Body, read \in CategoryRow :
        /\ patch[a] # NoPatch /\ patch[a].id = id /\ patch[a].body = body /\ patch[a].read = read
        /\ category[id] \in CategoryRow
  BY InFlight DEF TreeIInv, CommitPatch
<1> DEFINE new == Patched(category[id], body, read)
<1>2. /\ category \in [Cats -> CategoryRow] /\ category' = [category EXCEPT ![id] = new]
      /\ patch \in [Admins -> PatchState \cup {NoPatch}] /\ patch' = [patch EXCEPT ![a] = NoPatch]
      /\ assets \in SUBSET Assets /\ assets' \in SUBSET Assets /\ UNCHANGED overlap
  BY <1>1 DEF TreeIInv, CategoryTypeOK, CommitPatch
<1>n. new = Patched(category[id], body, read)
  OBVIOUS
<1> HIDE DEF new
<1>3. /\ new \in CategoryRow /\ new.status = category[id].status
      /\ new.parent = category[id].parent \/ (new.parent = body.parent /\ body.parent # Unset)
      /\ category[id].url = read.url /\ category[id].pid = read.pid /\ WholePair(body, read)
           /\ (category[id].url = None <=> category[id].pid = None)
           => (new.url = None <=> new.pid = None)
  <2>1. MayBecome(category[id], new, body, read)
    BY <1>1, <1>n, WrittenValue
  <2> QED BY <2>1 DEF MayBecome
<1>4. CategoryTypeOK'
  BY <1>2, <1>3 DEF TreeIInv, CategoryTypeOK
<1>5. \A d \in Cats : category'[d] = IF d = id THEN new ELSE category[d]
  BY <1>2
<1>6. \A d \in Cats : Exists(d)' = Exists(d)
  BY <1>3, <1>5 DEF Exists
<1>7. \A d \in Cats : Parent(d)' = IF d = id THEN new.parent ELSE Parent(d)
  BY <1>5 DEF Parent
<1>8. PatchNames(a)
  BY <1>1 DEF TreeIInv
<1>9. Rooted'
  <2>1. \A d \in Cats : ~Exists(d) => Parent(d)' = None
    BY <1>1, <1>7, <1>8 DEF TreeIInv, Rooted, PatchNames
  <2>2. ASSUME NEW d \in Cats, Parent(d)' \in Cats PROVE Exists(Parent(d))'
    <3> PICK q \in Cats : Parent(d)' = q
      BY <2>2
    <3>1. Exists(q)
      <4>1. CASE d # id \/ new.parent = category[id].parent
        BY <1>7, <4>1 DEF TreeIInv, Rooted, Parent
      <4>2. CASE d = id /\ new.parent = body.parent
        BY <1>1, <1>7, <1>8, <4>2 DEF PatchNames
      <4> QED BY <1>3, <4>1, <4>2
    <3> QED BY <1>6, <3>1 DEF Exists, Parent
  <2> QED BY <1>6, <2>1, <2>2 DEF Rooted
<1>10. ASSUME NEW b \in Admins, patch'[b] # NoPatch
       PROVE  PatchNames(b)' /\ b # a /\ patch[b] # NoPatch
  <2>1. b # a /\ patch'[b] = patch[b] /\ PatchNames(b) /\ patch[b].id \in Cats
    BY <1>2, <1>10, InFlight DEF TreeIInv
  <2> QED BY <1>2, <1>6, <1>10, <2>1 DEF PatchNames, Exists
<1>11. ASSUME ~overlap
       PROVE  Acyclic' /\ AllWhole' /\ \A b \in Admins : patch'[b] = NoPatch
  <2>1. /\ Acyclic /\ AllWhole /\ category[id].url = read.url /\ category[id].pid = read.pid
        /\ WholePair(body, read)
        /\ body.parent \in Cats => body.parent # id /\ body.parent \notin Descendants(id)
    BY <1>1, <1>11 DEF TreeIInv, PatchHolds
  <2>2. Acyclic'
    <3>1. CASE new.parent = category[id].parent
      BY <1>7, <2>1, <3>1 DEF Acyclic, Parent
    <3>2. CASE new.parent = body.parent
      BY <1>7, <2>1, <3>2, Move
    <3> QED BY <1>3, <3>1, <3>2
  <2>3. AllWhole'
    BY <1>3, <1>5, <2>1 DEF AllWhole
  <2>4. ASSUME NEW b \in Admins PROVE patch'[b] = NoPatch
    BY <1>1, <1>10, <1>11 DEF TreeIInv
  <2> QED BY <2>2, <2>3, <2>4
<1> QED BY <1>2, <1>4, <1>9, <1>10, <1>11 DEF TreeIInv

\* A PATCH that is lost, and the archive, touch neither the tree nor a row's picture.
LEMMA QuietTree ==
  ASSUME TreeIInv, (\E a \in Admins : LosePatch(a)) \/ (\E c \in Cats : Archive(c) \/ Unarchive(c))
  PROVE  TreeIInv'
<1>1. ASSUME NEW a \in Admins, LosePatch(a) PROVE TreeIInv'
  <2>1. /\ patch \in [Admins -> PatchState \cup {NoPatch}] /\ patch' = [patch EXCEPT ![a] = NoPatch]
        /\ assets' \in SUBSET Assets /\ UNCHANGED <<category, overlap>>
    BY <1>1 DEF TreeIInv, CategoryTypeOK, LosePatch
  <2>2. CategoryTypeOK' /\ Rooted' /\ (Acyclic => Acyclic') /\ (AllWhole => AllWhole')
    BY <2>1 DEF TreeIInv, CategoryTypeOK, Rooted, Acyclic, AllWhole, Parent, Exists
  <2>3. ASSUME NEW b \in Admins, patch'[b] # NoPatch
        PROVE  /\ patch[b] # NoPatch /\ (PatchNames(b) => PatchNames(b)')
               /\ (PatchHolds(b) => PatchHolds(b)')
    <3>1. patch'[b] = patch[b]
      BY <2>1, <2>3
    <3> QED BY <2>1, <2>3, <3>1 DEF PatchNames, PatchHolds, Exists, Descendants, ClosedDown, Parent
  <2> QED BY <2>1, <2>2, <2>3 DEF TreeIInv
<1>2. ASSUME NEW c \in Cats, Archive(c) \/ Unarchive(c) PROVE TreeIInv'
  <2>1. PICK to \in {"active", "archived"} :
          /\ category' = [category EXCEPT ![c].status = to] /\ Exists(c)
          /\ UNCHANGED <<assets, patch, overlap>>
    BY <1>2 DEF Archive, Unarchive, SetStatus, Exists
  <2>2. category \in [Cats -> CategoryRow] /\ category[c] \in CategoryRow
    BY DEF TreeIInv, CategoryTypeOK
  <2>3. CategoryTypeOK'
    BY <2>1, <2>2 DEF TreeIInv, CategoryTypeOK, CategoryRow
  <2>4. \A d \in Cats : /\ category'[d].parent = category[d].parent
                        /\ category'[d].url = category[d].url /\ category'[d].pid = category[d].pid
                        /\ (category'[d].status # "none" <=> category[d].status # "none")
    BY <2>1, <2>2 DEF CategoryRow, Exists
  <2>5. Rooted' /\ (Acyclic => Acyclic') /\ (AllWhole => AllWhole')
    BY <2>4 DEF TreeIInv, Rooted, Acyclic, AllWhole, Parent, Exists
  <2>6. ASSUME NEW b \in Admins, patch[b] # NoPatch
        PROVE  PatchNames(b)' /\ (PatchHolds(b) => PatchHolds(b)')
    <3>1. patch' = patch /\ patch[b].id \in Cats /\ PatchNames(b)
      BY <2>1, <2>6, InFlight DEF TreeIInv
    <3>2. \A id \in Cats : Descendants(id)' = Descendants(id)
      BY <2>4 DEF Descendants, ClosedDown, Parent
    <3> QED BY <2>4, <3>1, <3>2 DEF PatchNames, PatchHolds, Exists, Descendants
  <2> QED BY <2>1, <2>3, <2>5, <2>6 DEF TreeIInv
<1> QED BY <1>1, <1>2

\* Every request keeps the tree sound, as long as no two PATCHes overlap.
LEMMA NextTree == TreeIInv /\ [CategoryNext]_categoryVars => TreeIInv'
<1> SUFFICES ASSUME TreeIInv, [CategoryNext]_categoryVars PROVE TreeIInv'
  OBVIOUS
<1>1. CASE UNCHANGED categoryVars
  BY <1>1 DEF TreeIInv, CategoryTypeOK, Rooted, Acyclic, AllWhole, PatchNames, PatchHolds, Exists,
         Descendants, ClosedDown, Parent, categoryVars
<1>2. CASE \E c \in Cats, up \in Cats \cup {None}, photo \in Assets \cup {None} :
             CreateCategory(c, up, photo)
  BY <1>2, CreateTree
<1>3. CASE \E a \in Admins, c \in Cats, body \in Bodies : BeginPatch(a, c, body)
  BY <1>3, BeginTree
<1>4. CASE \E a \in Admins : CommitPatch(a)
  BY <1>4, CommitTree
<1>5. CASE (\E a \in Admins : LosePatch(a)) \/ (\E c \in Cats : Archive(c) \/ Unarchive(c))
  BY <1>5, QuietTree
<1> QED BY <1>1, <1>2, <1>3, <1>4, <1>5 DEF CategoryNext

-----------------------------------------------------------------------------

\* The tree stays sound: rooted, without a cycle, and with whole pictures,
\* through creating, moving, archiving and deleting categories.
THEOREM TreeInvariance == CategorySpec => []TreeIInv
BY TreeInit, NextTree, PTL DEF CategorySpec

\* The rows and the requests are what their types say.
THEOREM CategoryTypes == CategorySpec => []CategoryTypeOK
<1>1. TreeIInv => CategoryTypeOK
  BY DEF TreeIInv
<1> QED BY <1>1, TreeInvariance, PTL

\* Unless two PATCHes overlapped, no categories are each other's ancestors.
THEOREM NoCycleEver == CategorySpec => []NoCycle
<1>1. TreeIInv => NoCycle
  BY DEF TreeIInv, NoCycle
<1> QED BY <1>1, TreeInvariance, PTL

\* Unless two PATCHes overlapped, a picture's url and asset come and go together.
THEOREM PictureWhole == CategorySpec => []PictureIsWhole
<1>1. TreeIInv => PictureIsWhole
  BY DEF TreeIInv, AllWhole, PictureIsWhole
<1> QED BY <1>1, TreeInvariance, PTL

-----------------------------------------------------------------------------
(* Categories, while PATCHes overlap: which overlaps the two promises bear *)

\* A PATCH in flight gives its category a parent.
Moves(a) == patch[a] # NoPatch /\ patch[a].body.parent \in Cats

\* A PATCH in flight sets, replaces or removes a picture.
Illustrates(a) == patch[a] # NoPatch /\ ~(patch[a].body.url = Unset /\ patch[a].body.pid = Unset)

\* Of the PATCHes in flight one at most moves a category.
OneMove == \A a, b \in Admins : Moves(a) /\ Moves(b) => a = b

\* Of the PATCHes in flight one at most is about a category's picture.
OnePicturePatch ==
  \A a, b \in Admins : Illustrates(a) /\ Illustrates(b) /\ patch[a].id = patch[b].id => a = b

\* The place for which a category is bound is still not below it.
MoveHolds(a) ==
  patch[a].body.parent # patch[a].id /\ patch[a].body.parent \notin Descendants(patch[a].id)

MovesIInv == Acyclic /\ \A a \in Admins : Moves(a) => MoveHolds(a)

\* The picture a PATCH read is still the category's.
PictureHolds(a) ==
  LET id == patch[a].id
      read == patch[a].read
  IN category[id].url = read.url /\ category[id].pid = read.pid /\ WholePair(patch[a].body, read)

PicturesIInv == AllWhole /\ \A a \in Admins : Illustrates(a) => PictureHolds(a)

\* Nobody comes to be below a category when another loses its parent.
LEMMA Unrooted ==
  ASSUME \A c \in Cats : Parent(c)' = Parent(c) \/ Parent(c)' = None
  PROVE  /\ Acyclic => Acyclic'
         /\ \A id \in Cats : \A p : p \notin Descendants(id) => p \notin Descendants(id)'
<1>1. None \notin Cats
  BY CategoryAssumption
<1>2. Acyclic => Acyclic'
  BY <1>1 DEF Acyclic
<1>3. ASSUME NEW id \in Cats, NEW p, p \notin Descendants(id) PROVE p \notin Descendants(id)'
  <2>1. CASE p \notin Cats \ {id}
    BY <2>1 DEF Descendants
  <2>2. CASE p \in Cats \ {id}
    <3>1. PICK S \in SUBSET Cats : id \in S /\ ClosedDown(S) /\ p \notin S
      BY <1>3, <2>2 DEF Descendants
    <3>2. ClosedDown(S)'
      BY <1>1, <3>1 DEF ClosedDown
    <3> QED BY <3>1, <3>2 DEF Descendants
  <2> QED BY <2>1, <2>2
<1> QED BY <1>2, <1>3

\* What a commit does to its category's row.
LEMMA CommitRow ==
  ASSUME TreeIInv, NEW a \in Admins, CommitPatch(a)
  PROVE  \E id \in Cats, body \in Body, read \in CategoryRow, new \in CategoryRow :
           /\ patch[a] # NoPatch /\ patch[a].id = id /\ patch[a].body = body /\ patch[a].read = read
           /\ new = Patched(category[id], body, read) /\ MayBecome(category[id], new, body, read)
           /\ \A d \in Cats : category'[d] = IF d = id THEN new ELSE category[d]
           /\ \A b \in Admins : patch'[b] = IF b = a THEN NoPatch ELSE patch[b]
<1>1. PICK id \in Cats, body \in Body, read \in CategoryRow :
        /\ patch[a] # NoPatch /\ patch[a].id = id /\ patch[a].body = body /\ patch[a].read = read
        /\ category[id] \in CategoryRow
  BY InFlight DEF TreeIInv, CommitPatch
<1>2. PICK new : new = Patched(category[id], body, read)
  OBVIOUS
<1>3. MayBecome(category[id], new, body, read)
  BY <1>1, <1>2, WrittenValue
<1>4. /\ category \in [Cats -> CategoryRow] /\ category' = [category EXCEPT ![id] = new]
      /\ patch \in [Admins -> PatchState \cup {NoPatch}] /\ patch' = [patch EXCEPT ![a] = NoPatch]
  BY <1>1, <1>2 DEF TreeIInv, CategoryTypeOK, CommitPatch
<1>5. new \in CategoryRow
  BY <1>3 DEF MayBecome
<1> QED BY <1>1, <1>2, <1>3, <1>4, <1>5

\* A row's pictures and parents stay in every step but a creation and a commit,
\* and what is in flight stays or is over.
LEMMA OtherSteps ==
  ASSUME TreeIInv,
         \/ \E a \in Admins : LosePatch(a)
         \/ \E c \in Cats : Archive(c) \/ Unarchive(c)
         \/ UNCHANGED categoryVars
  PROVE  /\ \A d \in Cats : /\ category'[d].parent = category[d].parent
                            /\ category'[d].url = category[d].url /\ category'[d].pid = category[d].pid
         /\ \A b \in Admins : patch'[b] = NoPatch \/ patch'[b] = patch[b]
<1>0. category \in [Cats -> CategoryRow] /\ patch \in [Admins -> PatchState \cup {NoPatch}]
  BY DEF TreeIInv, CategoryTypeOK
<1>1. CASE \E a \in Admins : LosePatch(a)
  BY <1>0, <1>1 DEF LosePatch
<1>2. ASSUME NEW c \in Cats, Archive(c) \/ Unarchive(c)
      PROVE  /\ \A d \in Cats : /\ category'[d].parent = category[d].parent
                                /\ category'[d].url = category[d].url /\ category'[d].pid = category[d].pid
             /\ patch' = patch
  <2>1. PICK to : category' = [category EXCEPT ![c].status = to] /\ patch' = patch
    BY <1>2 DEF Archive, Unarchive, SetStatus
  <2>2. \A d \in Cats : category[d] \in CategoryRow
    BY <1>0
  <2> QED BY <1>0, <2>1, <2>2 DEF CategoryRow
<1>3. CASE UNCHANGED categoryVars
  BY <1>3 DEF categoryVars
<1> QED BY <1>1, <1>2, <1>3

\* As long as one PATCH at a time moves a category, each moves as it was tested.
LEMMA MovesStep ==
  ASSUME TreeIInv, MovesIInv, OneMove, [CategoryNext]_categoryVars
  PROVE  MovesIInv'
<1>0. Acyclic /\ Rooted /\ CategoryTypeOK /\ patch \in [Admins -> PatchState \cup {NoPatch}]
  BY DEF TreeIInv, MovesIInv, CategoryTypeOK
<1>1. ASSUME NEW c \in Cats, NEW up \in Cats \cup {None}, NEW photo \in Assets \cup {None},
             CreateCategory(c, up, photo)
      PROVE  MovesIInv'
  <2>1. /\ ~Exists(c) /\ (up # None => Exists(up)) /\ patch' = patch
        /\ \A d \in Cats : Parent(d)' = IF d = c THEN up ELSE Parent(d)
    BY <1>0, <1>1 DEF CreateCategory, CategoryTypeOK, Parent
  <2>2. /\ Acyclic'
        /\ \A id, p \in Cats : Exists(p) /\ p \notin Descendants(id) => p \notin Descendants(id)'
    BY <1>0, <2>1, NewLeaf
  <2>3. ASSUME NEW a \in Admins, Moves(a)' PROVE MoveHolds(a)'
    <3>1. Moves(a) /\ MoveHolds(a) /\ PatchNames(a) /\ patch'[a] = patch[a]
      BY <2>1, <2>3 DEF TreeIInv, MovesIInv, Moves
    <3>2. patch[a].id \in Cats /\ patch[a].body.parent \in Cats
      BY <1>0, <3>1, InFlight DEF Moves
    <3>3. PICK id \in Cats, p \in Cats : patch[a].id = id /\ patch[a].body.parent = p
      BY <3>2
    <3>4. Exists(p) /\ p # id /\ p \notin Descendants(id)
      BY <3>1, <3>3 DEF PatchNames, MoveHolds
    <3>5. p \notin Descendants(id)'
      BY <2>2, <3>4
    <3> QED BY <3>1, <3>3, <3>4, <3>5 DEF MoveHolds
  <2> QED BY <2>2, <2>3 DEF MovesIInv
<1>2. ASSUME NEW a \in Admins, NEW c \in Cats, NEW body \in Bodies, BeginPatch(a, c, body)
      PROVE  MovesIInv'
  <2> DEFINE begun == [busy |-> TRUE, id |-> c, body |-> body, read |-> category[c]]
  <2>1. /\ category' = category /\ \A b \in Admins : patch'[b] = IF b = a THEN begun ELSE patch[b]
        /\ body.parent \in Cats => ValidParent(body.parent, c)
    BY <1>0, <1>2 DEF BeginPatch
  <2>2. begun.id = c /\ begun.body = body
    OBVIOUS
  <2> HIDE DEF begun
  <2>3. \A id : Descendants(id)' = Descendants(id)
    BY <2>1 DEF Descendants, ClosedDown, Parent
  <2>4. ASSUME NEW b \in Admins, Moves(b)' PROVE MoveHolds(b)'
    <3>1. CASE b = a
      <4>1. body.parent # c /\ body.parent \notin Descendants(c)
        BY <2>1, <2>2, <2>4, <3>1 DEF Moves, ValidParent
      <4> QED BY <2>1, <2>2, <2>3, <3>1, <4>1 DEF MoveHolds
    <3>2. CASE b # a
      <4>1. Moves(b) /\ MoveHolds(b) /\ patch'[b] = patch[b]
        BY <2>1, <2>4, <3>2 DEF Moves, MovesIInv
      <4> QED BY <2>3, <4>1 DEF MoveHolds
    <3> QED BY <3>1, <3>2
  <2> QED BY <1>0, <2>1, <2>4 DEF MovesIInv, Acyclic, Parent
<1>3. ASSUME NEW a \in Admins, CommitPatch(a) PROVE MovesIInv'
  <2>1. PICK id \in Cats, body \in Body, read \in CategoryRow, new \in CategoryRow :
           /\ patch[a] # NoPatch /\ patch[a].id = id /\ patch[a].body = body /\ patch[a].read = read
           /\ new = Patched(category[id], body, read) /\ MayBecome(category[id], new, body, read)
           /\ \A d \in Cats : category'[d] = IF d = id THEN new ELSE category[d]
           /\ \A b \in Admins : patch'[b] = IF b = a THEN NoPatch ELSE patch[b]
    BY <1>3, CommitRow
  <2>2. \A d \in Cats : Parent(d)' = IF d = id THEN new.parent ELSE Parent(d)
    BY <2>1 DEF Parent
  <2>3. ASSUME NEW b \in Admins, Moves(b)' PROVE b # a /\ Moves(b) /\ MoveHolds(b) /\ patch'[b] = patch[b]
    BY <2>1, <2>3 DEF Moves, MovesIInv
  <2>4. CASE Moves(a)
    <3>1. \A b \in Admins : ~Moves(b)'
      BY <2>3, <2>4 DEF OneMove
    <3>2. body.parent \in Cats /\ body.parent # id /\ body.parent \notin Descendants(id)
      BY <2>1, <2>4 DEF Moves, MovesIInv, MoveHolds
    <3>3. Acyclic'
      <4>1. CASE new.parent = category[id].parent
        BY <1>0, <2>2, <4>1 DEF Acyclic, Parent
      <4>2. CASE new.parent = body.parent
        BY <1>0, <2>2, <3>2, <4>2, Move
      <4> QED BY <2>1, <4>1, <4>2 DEF MayBecome
    <3> QED BY <3>1, <3>3 DEF MovesIInv
  <2>5. CASE ~Moves(a)
    <3>1. new.parent = Parent(id) \/ new.parent = None
      <4>1. body.parent \in {None, Unset}
        BY <2>1, <2>5 DEF Moves, Body
      <4> QED BY <2>1, <4>1 DEF MayBecome, Parent
    <3>2. /\ Acyclic'
          /\ \A c \in Cats : \A p : p \notin Descendants(c) => p \notin Descendants(c)'
      BY <1>0, <2>2, <3>1, Unrooted
    <3>3. ASSUME NEW b \in Admins, Moves(b)' PROVE MoveHolds(b)'
      <4>1. b # a /\ Moves(b) /\ MoveHolds(b) /\ patch'[b] = patch[b] /\ patch[b].id \in Cats
        BY <1>0, <2>3, <3>3, InFlight DEF Moves
      <4>2. PICK c \in Cats : patch[b].id = c
        BY <4>1
      <4>3. PICK p : p = patch[b].body.parent
        OBVIOUS
      <4>4. p # c /\ p \notin Descendants(c)
        BY <4>1, <4>2, <4>3 DEF MoveHolds
      <4>5. p \notin Descendants(c)'
        BY <3>2, <4>4
      <4> QED BY <4>1, <4>2, <4>3, <4>4, <4>5 DEF MoveHolds
    <3> QED BY <3>2, <3>3 DEF MovesIInv
  <2> QED BY <2>4, <2>5
<1>4. CASE \/ \E a \in Admins : LosePatch(a)
           \/ \E c \in Cats : Archive(c) \/ Unarchive(c)
           \/ UNCHANGED categoryVars
  <2>1. /\ \A d \in Cats : Parent(d)' = Parent(d)
        /\ \A b \in Admins : patch'[b] = NoPatch \/ patch'[b] = patch[b]
    BY <1>4, OtherSteps DEF Parent
  <2>2. Acyclic' /\ \A id : Descendants(id)' = Descendants(id)
    BY <1>0, <2>1 DEF Acyclic, Descendants, ClosedDown
  <2>3. ASSUME NEW b \in Admins, Moves(b)' PROVE MoveHolds(b)'
    <3>1. patch'[b] = patch[b] /\ Moves(b) /\ MoveHolds(b)
      BY <2>1, <2>3 DEF Moves, MovesIInv
    <3> QED BY <2>2, <3>1 DEF MoveHolds
  <2> QED BY <2>2, <2>3 DEF MovesIInv
<1> QED BY <1>1, <1>2, <1>3, <1>4 DEF CategoryNext

\* As long as one PATCH at a time is about a category's picture, its two columns
\* are written together although each is written only where it differs.
LEMMA PicturesStep ==
  ASSUME TreeIInv, PicturesIInv, OnePicturePatch, [CategoryNext]_categoryVars
  PROVE  PicturesIInv'
<1>0. AllWhole /\ CategoryTypeOK /\ patch \in [Admins -> PatchState \cup {NoPatch}]
      /\ category \in [Cats -> CategoryRow]
  BY DEF TreeIInv, PicturesIInv, CategoryTypeOK
<1>1. ASSUME NEW c \in Cats, NEW up \in Cats \cup {None}, NEW photo \in Assets \cup {None},
             CreateCategory(c, up, photo)
      PROVE  PicturesIInv'
  <2> DEFINE new == [status |-> "active", parent |-> up, url |-> photo, pid |-> photo]
  <2>1. /\ ~Exists(c) /\ patch' = patch
        /\ \A d \in Cats : category'[d] = IF d = c THEN new ELSE category[d]
    BY <1>0, <1>1 DEF CreateCategory
  <2>2. AllWhole'
    BY <1>0, <2>1 DEF AllWhole
  <2>3. ASSUME NEW a \in Admins, Illustrates(a)' PROVE PictureHolds(a)'
    <3>1. Illustrates(a) /\ PictureHolds(a) /\ PatchNames(a) /\ patch'[a] = patch[a] /\ patch[a].id \in Cats
      BY <1>0, <2>1, <2>3, InFlight DEF TreeIInv, PicturesIInv, Illustrates
    <3>2. patch[a].id # c
      BY <2>1, <3>1 DEF PatchNames
    <3>3. category'[patch[a].id] = category[patch[a].id]
      BY <2>1, <3>1, <3>2
    <3> QED BY <3>1, <3>3 DEF PictureHolds
  <2> QED BY <2>2, <2>3 DEF PicturesIInv
<1>2. ASSUME NEW a \in Admins, NEW c \in Cats, NEW body \in Bodies, BeginPatch(a, c, body)
      PROVE  PicturesIInv'
  <2> DEFINE begun == [busy |-> TRUE, id |-> c, body |-> body, read |-> category[c]]
  <2>1. /\ category' = category /\ \A b \in Admins : patch'[b] = IF b = a THEN begun ELSE patch[b]
        /\ WholePair(body, category[c])
    BY <1>0, <1>2 DEF BeginPatch
  <2>2. begun.id = c /\ begun.body = body /\ begun.read = category[c]
    OBVIOUS
  <2> HIDE DEF begun
  <2>3. ASSUME NEW b \in Admins, Illustrates(b)' PROVE PictureHolds(b)'
    <3>1. CASE b = a
      BY <2>1, <2>2, <3>1 DEF PictureHolds
    <3>2. CASE b # a
      BY <2>1, <2>3, <3>2 DEF Illustrates, PicturesIInv, PictureHolds
    <3> QED BY <3>1, <3>2
  <2> QED BY <1>0, <2>1, <2>3 DEF PicturesIInv, AllWhole
<1>3. ASSUME NEW a \in Admins, CommitPatch(a) PROVE PicturesIInv'
  <2>1. PICK id \in Cats, body \in Body, read \in CategoryRow, new \in CategoryRow :
           /\ patch[a] # NoPatch /\ patch[a].id = id /\ patch[a].body = body /\ patch[a].read = read
           /\ new = Patched(category[id], body, read) /\ MayBecome(category[id], new, body, read)
           /\ \A d \in Cats : category'[d] = IF d = id THEN new ELSE category[d]
           /\ \A b \in Admins : patch'[b] = IF b = a THEN NoPatch ELSE patch[b]
    BY <1>3, CommitRow
  <2>2. ASSUME NEW b \in Admins, Illustrates(b)'
        PROVE  b # a /\ Illustrates(b) /\ PictureHolds(b) /\ patch'[b] = patch[b] /\ patch[b].id \in Cats
    BY <1>0, <2>1, <2>2, InFlight DEF Illustrates, PicturesIInv
  <2>3. CASE Illustrates(a)
    <3>1. category[id].url = read.url /\ category[id].pid = read.pid /\ WholePair(body, read)
      BY <2>1, <2>3 DEF PicturesIInv, PictureHolds
    <3>2. AllWhole'
      BY <1>0, <2>1, <3>1 DEF AllWhole, MayBecome
    <3>3. ASSUME NEW b \in Admins, Illustrates(b)' PROVE PictureHolds(b)'
      <4>1. patch[b].id # id
        BY <2>1, <2>2, <2>3, <3>3 DEF OnePicturePatch
      <4>2. category'[patch[b].id] = category[patch[b].id]
        BY <2>1, <2>2, <3>3, <4>1
      <4> QED BY <2>2, <3>3, <4>2 DEF PictureHolds
    <3> QED BY <3>2, <3>3 DEF PicturesIInv
  <2>4. CASE ~Illustrates(a)
    <3>1. body.url = Unset /\ body.pid = Unset
      BY <2>1, <2>4 DEF Illustrates
    <3>2. new.url = category[id].url /\ new.pid = category[id].pid
      <4>1. category[id] \in CategoryRow
        BY <1>0
      <4> QED BY <2>1, <3>1, <4>1 DEF Patched, Written, New, CategoryRow
    <3>3. \A d \in Cats : category'[d].url = category[d].url /\ category'[d].pid = category[d].pid
      BY <2>1, <3>2
    <3>4. ASSUME NEW b \in Admins, Illustrates(b)' PROVE PictureHolds(b)'
      BY <2>2, <3>3, <3>4 DEF PictureHolds
    <3> QED BY <1>0, <3>3, <3>4 DEF PicturesIInv, AllWhole
  <2> QED BY <2>3, <2>4
<1>4. CASE \/ \E a \in Admins : LosePatch(a)
           \/ \E c \in Cats : Archive(c) \/ Unarchive(c)
           \/ UNCHANGED categoryVars
  <2>1. /\ \A d \in Cats : category'[d].url = category[d].url /\ category'[d].pid = category[d].pid
        /\ \A b \in Admins : patch'[b] = NoPatch \/ patch'[b] = patch[b]
    BY <1>4, OtherSteps
  <2>2. ASSUME NEW b \in Admins, Illustrates(b)' PROVE PictureHolds(b)'
    <3>1. patch'[b] = patch[b] /\ Illustrates(b) /\ PictureHolds(b) /\ patch[b].id \in Cats
      BY <1>0, <2>1, <2>2, InFlight DEF Illustrates, PicturesIInv
    <3> QED BY <2>1, <3>1 DEF PictureHolds
  <2> QED BY <1>0, <2>1, <2>2 DEF PicturesIInv, AllWhole
<1> QED BY <1>1, <1>2, <1>3, <1>4 DEF CategoryNext

\* An empty shop has no PATCH in flight.
LEMMA OverlapInit == CategoryInit => MovesIInv /\ PicturesIInv
<1> SUFFICES ASSUME CategoryInit PROVE MovesIInv /\ PicturesIInv
  OBVIOUS
<1>1. \A a \in Admins : patch[a] = NoPatch
  BY DEF CategoryInit
<1>2. overlap = FALSE /\ TreeIInv
  BY TreeInit DEF CategoryInit
<1> QED BY <1>1, <1>2 DEF TreeIInv, MovesIInv, PicturesIInv, Moves, Illustrates

\* However many PATCHes overlap, the tree has no cycle as long as no two of those
\* in flight move a category: creations, un-rootings, pictures and the archive
\* never make one, whenever they happen.
THEOREM OnlyMovesMakeCycles == CategorySpec /\ []OneMove => []Acyclic
<1>1. CategoryInit => TreeIInv /\ MovesIInv
  BY TreeInit, OverlapInit
<1>2. TreeIInv /\ MovesIInv /\ OneMove /\ [CategoryNext]_categoryVars => (TreeIInv /\ MovesIInv)'
  BY NextTree, MovesStep
<1>3. MovesIInv => Acyclic
  BY DEF MovesIInv
<1> QED BY <1>1, <1>2, <1>3, PTL DEF CategorySpec

\* However many PATCHes overlap, no picture is torn as long as no two of those in
\* flight are about the picture of one category.
THEOREM OnlyPicturesTear == CategorySpec /\ []OnePicturePatch => []AllWhole
<1>1. CategoryInit => TreeIInv /\ PicturesIInv
  BY TreeInit, OverlapInit
<1>2. TreeIInv /\ PicturesIInv /\ OnePicturePatch /\ [CategoryNext]_categoryVars => (TreeIInv /\ PicturesIInv)'
  BY NextTree, PicturesStep
<1>3. PicturesIInv => AllWhole
  BY DEF PicturesIInv
<1> QED BY <1>1, <1>2, <1>3, PTL DEF CategorySpec

-----------------------------------------------------------------------------
(* Pictures *)

\* A row is unused, or shows an asset that was uploaded for its product.
OwnRow(i) ==
  \/ image[i] = NoImage
  \/ /\ image[i].product \in Owners /\ image[i].asset \in Pictures
     /\ upload[image[i].asset] = Folder("product", image[i].product)

\* A product without pictures, or with one that is the primary.
OnePrimaryOf(p) == Shown(p) # {} => \E i \in ImageIds : Primary(p) = {i}

\* The inductive invariant.
ImgIInv ==
  /\ ImagesTypeOK
  /\ \A i \in ImageIds : OwnRow(i)
  /\ \A p \in Owners : OnePrimaryOf(p)

-----------------------------------------------------------------------------

\* The greatest position, and -1 if there is none.
LEMMA MaxOfPlaces ==
  ASSUME NEW T \in SUBSET (0..MaxPlace)
  PROVE  Max(T \cup {-1}) \in Int /\ Max(T \cup {-1}) >= -1
<1>0. MaxPlace \in Nat
  BY ImagesAssumption
<1> DEFINE S == T \cup {-1}
<1>1. \E x \in S : \A y \in S : x >= y
  <2>1. CASE T = {}
    BY <2>1
  <2>2. CASE T # {}
    <3> DEFINE D == {MaxPlace - t : t \in T}
    <3>1. D \in SUBSET Nat /\ D # {}
      <4>1. \A t \in T : t \in 0..MaxPlace
        OBVIOUS
      <4>2. \A t \in T : MaxPlace - t \in Nat
        BY <1>0, <4>1
      <4> QED BY <2>2, <4>2
    <3>2. PICK d \in D : \A e \in D : d <= e
      BY <3>1, LeastNat
    <3>3. PICK x \in T : d = MaxPlace - x
      BY <3>2
    <3>4. \A y \in T : x >= y
      BY <1>0, <3>2, <3>3
    <3> QED BY <1>0, <3>4
  <2> QED BY <2>1, <2>2
<1>2. \A y \in S : y \in Int /\ y >= -1
  BY <1>0
<1> HIDE DEF S
<1>3. Max(S) \in S
  BY <1>1 DEF Max
<1>4. Max(S) \in Int /\ Max(S) >= -1
  BY <1>2, <1>3
<1> QED BY <1>4 DEF S

\* Among other pictures of a product one has the lowest position.
LEMMA SomeoneNext ==
  ASSUME ImagesTypeOK, NEW p, NEW i, Shown(p) \ {i} # {}
  PROVE  NextInLine(p, i) # {}
<1> DEFINE places == {image[k].position : k \in Shown(p) \ {i}}
<1>1. \A k \in ImageIds : image[k].position \in 0..MaxPlace
  BY DEF ImagesTypeOK, ImageRow
<1>2. places \in SUBSET Nat /\ places # {}
  BY <1>1, ImagesAssumption DEF Shown
<1>3. PICK x \in places : \A y \in places : x <= y
  BY <1>2, LeastNat
<1>4. PICK j \in Shown(p) \ {i} : image[j].position = x
  BY <1>3
<1> QED BY <1>3, <1>4 DEF NextInLine

-----------------------------------------------------------------------------

\* Products start without pictures.
LEMMA ImgInit == ImagesInit => ImgIInv
<1> SUFFICES ASSUME ImagesInit PROVE ImgIInv
  OBVIOUS
<1>1. ImagesTypeOK
  BY ImagesAssumption DEF ImagesInit, ImagesTypeOK, ImageRow, NoImage
<1>2. \A i \in ImageIds : OwnRow(i)
  BY DEF ImagesInit, OwnRow
<1>3. \A p \in Owners : Shown(p) = {}
  BY ImagesAssumption DEF ImagesInit, Shown, NoImage
<1> QED BY <1>1, <1>2, <1>3 DEF ImgIInv, OnePrimaryOf

\* An asset gets its folder once, before any row shows it.
LEMMA UploadImg ==
  ASSUME ImgIInv, NEW a \in Pictures, NEW context \in Contexts, NEW entity \in Owners \cup {"shared"},
         Upload(a, context, entity)
  PROVE  ImgIInv'
<1>1. /\ upload \in [Pictures -> Folders \cup {NoFolder}] /\ upload[a] = NoFolder
      /\ upload' = [upload EXCEPT ![a] = Folder(context, entity)] /\ image' = image
      /\ stored' = stored \cup {a} /\ stored \subseteq Pictures /\ image \in [ImageIds -> ImageRow]
  BY DEF ImgIInv, ImagesTypeOK, Upload
<1>2. Folder(context, entity) \in Folders
  BY DEF Folder, Folders
<1>3. ImagesTypeOK'
  BY <1>1, <1>2 DEF ImagesTypeOK
<1>4. ASSUME NEW i \in ImageIds PROVE OwnRow(i)'
  <2>1. CASE image[i] = NoImage
    BY <1>1, <2>1 DEF OwnRow
  <2>2. CASE image[i] # NoImage
    <3>1. /\ image[i].product \in Owners /\ image[i].asset \in Pictures
          /\ upload[image[i].asset] = Folder("product", image[i].product)
      BY <2>2 DEF ImgIInv, OwnRow
    <3>2. image[i].asset # a
      BY <1>1, <3>1 DEF Folder, NoFolder
    <3> QED BY <1>1, <3>1, <3>2 DEF OwnRow, Folder
  <2> QED BY <2>1, <2>2
<1>5. \A p \in Owners : OnePrimaryOf(p)'
  BY <1>1 DEF ImgIInv, OnePrimaryOf, Shown, Primary
<1> QED BY <1>3, <1>4, <1>5 DEF ImgIInv

\* What was attached to another product is left as it is.
LEMMA AttachImg ==
  ASSUME ImgIInv, NEW i \in ImageIds, NEW p \in Owners, NEW a \in Pictures,
         NEW override \in {-1, 0}, NEW primary \in BOOLEAN, Attach(i, p, a, override, primary)
  PROVE  ImgIInv'
<1> DEFINE place == NextPlace(p, override)
           first == primary \/ Primary(p) = {}
           new == [product |-> p, asset |-> a, position |-> place, is_primary |-> first]
           shown(k) == IF primary /\ image[k].product = p
                       THEN [image[k] EXCEPT !.is_primary = FALSE] ELSE image[k]
<1>1. /\ image \in [ImageIds -> ImageRow] /\ image[i] = NoImage /\ upload[a] = Folder("product", p)
      /\ place <= MaxPlace /\ UNCHANGED <<upload, stored>>
      /\ image' = [Demoted(p, primary) EXCEPT ![i] = new]
  BY DEF ImgIInv, ImagesTypeOK, Attach, BelongsToProduct
<1>2. place \in 0..MaxPlace
  <2> DEFINE T == {image[k].position : k \in Shown(p)}
  <2>1. T \in SUBSET (0..MaxPlace)
    BY <1>1 DEF ImageRow, Shown
  <2>2. Max(T \cup {-1}) \in Int /\ Max(T \cup {-1}) >= -1
    BY <2>1, MaxOfPlaces
  <2>3. place = IF override # -1 THEN override ELSE 1 + Max(T \cup {-1})
    BY DEF NextPlace
  <2> HIDE DEF T, place
  <2> QED BY <1>1, <2>2, <2>3, ImagesAssumption
<1> HIDE DEF place
<1>3. \A k \in ImageIds : image'[k] = IF k = i THEN new ELSE shown(k)
  BY <1>1 DEF Demoted
<1>4. new \in ImageRow /\ \A k \in ImageIds : /\ shown(k) \in ImageRow
                                              /\ shown(k).product = image[k].product
                                              /\ shown(k).asset = image[k].asset
                                              /\ shown(k).is_primary <=>
                                                   image[k].is_primary /\ ~(primary /\ image[k].product = p)
  BY <1>1, <1>2 DEF ImageRow
<1>5. new.product = p /\ new.asset = a /\ new.is_primary = first
  OBVIOUS
<1>6. image[i].product \notin Owners
  BY <1>1, ImagesAssumption DEF NoImage
<1>7. \A k \in ImageIds : image[k] = NoImage => shown(k) = NoImage
  <2>1. NoImage.product \notin Owners
    BY ImagesAssumption DEF NoImage
  <2> QED BY <2>1
<1> HIDE DEF new, shown, first
<1>8. ImagesTypeOK'
  <2>1. image' = [k \in ImageIds |-> image'[k]]
    BY <1>1 DEF Demoted
  <2>2. \A k \in ImageIds : image'[k] \in ImageRow
    BY <1>3, <1>4
  <2> QED BY <1>1, <2>1, <2>2 DEF ImgIInv, ImagesTypeOK
<1>9. \A k \in ImageIds : OwnRow(k)'
  BY <1>1, <1>3, <1>4, <1>5, <1>7 DEF ImgIInv, OwnRow, Folder
<1>10. ASSUME NEW q \in Owners PROVE OnePrimaryOf(q)'
  <2>1. CASE q # p
    <3>1. Shown(q)' = Shown(q)
      BY <1>3, <1>4, <1>5, <1>6, <2>1 DEF Shown
    <3>2. Primary(q)' = Primary(q)
      BY <1>3, <1>4, <1>5, <1>6, <2>1 DEF Primary, Shown
    <3> QED BY <3>1, <3>2 DEF ImgIInv, OnePrimaryOf
  <2>2. CASE q = p /\ first
    <3>1. Primary(p) = {} /\ ~primary => Shown(p) = {}
      BY DEF ImgIInv, OnePrimaryOf
    <3>2. \A k \in ImageIds \ {i} : image'[k].product = p => ~image'[k].is_primary
      BY <1>3, <1>4, <2>2, <3>1 DEF Shown, first
    <3>3. Primary(p)' = {i}
      BY <1>3, <1>5, <2>2, <3>2 DEF Primary, Shown
    <3> QED BY <2>2, <3>3 DEF OnePrimaryOf
  <2>3. CASE q = p /\ ~first
    <3>1. PICK k \in ImageIds : Primary(p) = {k}
      BY <2>3 DEF first, ImgIInv, OnePrimaryOf, Primary
    <3>2. Primary(p)' = Primary(p)
      BY <1>3, <1>4, <1>5, <1>6, <2>3 DEF Primary, Shown, first
    <3> QED BY <2>3, <3>1, <3>2 DEF OnePrimaryOf
  <2> QED BY <2>1, <2>2, <2>3
<1> QED BY <1>8, <1>9, <1>10 DEF ImgIInv

\* A deleted primary picture hands its place to one of the others, if any.
LEMMA DeleteImg ==
  ASSUME ImgIInv, NEW i \in ImageIds, DeleteImage(i)
  PROVE  ImgIInv'
<1>1. PICK p \in Owners : image[i].product = p /\ image[i] # NoImage
  BY DEF DeleteImage, ImgIInv, OwnRow
<1>2. /\ image \in [ImageIds -> ImageRow] /\ upload' = upload /\ stored' \subseteq Pictures
      /\ stored \subseteq Pictures /\ i \in Shown(p)
  BY <1>1 DEF ImgIInv, ImagesTypeOK, DeleteImage, Destroyed, Shown
<1>3. NoImage \in ImageRow /\ NoImage.product = Absent /\ Absent \notin Owners
  BY ImagesAssumption DEF NoImage, ImageRow
<1>4. PICK k \in ImageIds : Primary(p) = {k}
  BY <1>2 DEF ImgIInv, OnePrimaryOf
<1>5. CASE ~(image[i].is_primary /\ NextInLine(p, i) # {})
  <2>1. image' = [image EXCEPT ![i] = NoImage]
    BY <1>1, <1>5 DEF DeleteImage
  <2>2. \A j \in ImageIds : image'[j] = IF j = i THEN NoImage ELSE image[j]
    BY <1>2, <2>1
  <2>3. ImagesTypeOK'
    BY <1>2, <1>3, <2>1 DEF ImgIInv, ImagesTypeOK
  <2>4. \A j \in ImageIds : OwnRow(j)'
    BY <1>2, <2>2 DEF ImgIInv, OwnRow, Folder
  <2>5. ASSUME NEW q \in Owners PROVE OnePrimaryOf(q)'
    <3>1. Shown(q)' = Shown(q) \ {i} /\ Primary(q)' = Primary(q) \ {i}
      BY <1>3, <2>2 DEF Shown, Primary
    <3>2. CASE q # p
      BY <1>1, <3>1, <3>2 DEF ImgIInv, OnePrimaryOf, Shown, Primary
    <3>3. CASE q = p /\ ~image[i].is_primary
      BY <1>4, <3>1, <3>3 DEF OnePrimaryOf, Primary
    <3>4. CASE q = p /\ image[i].is_primary
      <4>1. Shown(p) \ {i} = {}
        BY <1>5, <3>4, SomeoneNext DEF ImgIInv
      <4> QED BY <3>1, <3>4, <4>1 DEF OnePrimaryOf
    <3> QED BY <3>2, <3>3, <3>4
  <2> QED BY <2>3, <2>4, <2>5 DEF ImgIInv
<1>6. CASE image[i].is_primary /\ NextInLine(p, i) # {}
  <2>1. PICK j \in NextInLine(p, i) :
          image' = [image EXCEPT ![i] = NoImage, ![j].is_primary = TRUE]
    BY <1>1, <1>6 DEF DeleteImage
  <2>2. j \in ImageIds /\ j # i /\ image[j].product = p /\ image[j] \in ImageRow
    BY <1>2, <2>1 DEF NextInLine, Shown
  <2> DEFINE new == [image[j] EXCEPT !.is_primary = TRUE]
  <2>3. \A m \in ImageIds :
          image'[m] = IF m = i THEN NoImage ELSE IF m = j THEN new ELSE image[m]
    BY <1>2, <2>1, <2>2
  <2>4. new \in ImageRow /\ new.product = p /\ new.asset = image[j].asset /\ new.is_primary
    BY <2>2 DEF ImageRow
  <2> HIDE DEF new
  <2>5. ImagesTypeOK'
    <3>1. image' = [m \in ImageIds |-> image'[m]]
      BY <1>2, <2>1
    <3>2. \A m \in ImageIds : image'[m] \in ImageRow
      BY <1>2, <1>3, <2>3, <2>4
    <3> QED BY <1>2, <3>1, <3>2 DEF ImgIInv, ImagesTypeOK
  <2>6. \A m \in ImageIds : OwnRow(m)'
    <3>1. image[j] # NoImage
      BY <1>3, <2>2
    <3>2. ASSUME NEW m \in ImageIds PROVE OwnRow(m)'
      <4>1. OwnRow(m) /\ OwnRow(j)
        BY <2>2 DEF ImgIInv
      <4> QED BY <1>2, <2>2, <2>3, <2>4, <3>1, <4>1 DEF OwnRow, Folder
    <3> QED BY <3>2
  <2>7. ASSUME NEW q \in Owners PROVE OnePrimaryOf(q)'
    <3>1. CASE q # p
      <4>1. Shown(q)' = Shown(q) /\ Primary(q)' = Primary(q)
        BY <1>1, <1>3, <2>2, <2>3, <2>4, <3>1 DEF Shown, Primary
      <4> QED BY <4>1 DEF ImgIInv, OnePrimaryOf
    <3>2. CASE q = p
      <4>1. Primary(p) = {i}
        BY <1>2, <1>4, <1>6 DEF Primary
      <4>2. \A m \in ImageIds \ {i, j} : image'[m].product = p => ~image'[m].is_primary
        BY <2>3, <4>1 DEF Primary, Shown
      <4>3. Primary(p)' = {j}
        BY <1>3, <2>2, <2>3, <2>4, <4>2 DEF Primary, Shown
      <4> QED BY <2>2, <3>2, <4>3 DEF OnePrimaryOf
    <3> QED BY <3>1, <3>2
  <2> QED BY <2>5, <2>6, <2>7 DEF ImgIInv
<1> QED BY <1>5, <1>6

\* Every step of an upload, a reorder or a deletion keeps the pictures sound.
LEMMA NextImg == ImgIInv /\ [ImagesNext]_imageVars => ImgIInv'
<1> SUFFICES ASSUME ImgIInv, [ImagesNext]_imageVars PROVE ImgIInv'
  OBVIOUS
<1>1. CASE UNCHANGED imageVars
  BY <1>1 DEF ImgIInv, ImagesTypeOK, OwnRow, Folder, OnePrimaryOf, Shown, Primary, imageVars
<1>2. CASE \E a \in Pictures, context \in Contexts, entity \in Owners \cup {"shared"} :
             Upload(a, context, entity)
  BY <1>2, UploadImg
<1>3. CASE \E i \in ImageIds, p \in Owners, a \in Pictures, override \in {-1, 0},
             primary \in BOOLEAN : Attach(i, p, a, override, primary)
  BY <1>3, AttachImg
<1>4. CASE \E i \in ImageIds : DeleteImage(i)
  BY <1>4, DeleteImg
<1> QED BY <1>1, <1>2, <1>3, <1>4 DEF ImagesNext

-----------------------------------------------------------------------------

\* The pictures stay sound: each is its product's own, and a product that has
\* any has one primary, through attaching, choosing and deleting.
THEOREM ImagesInvariance == ImagesSpec => []ImgIInv
BY ImgInit, NextImg, PTL DEF ImagesSpec

\* Every row and folder is what its type says; no position leaves its range.
THEOREM ImagesTypes == ImagesSpec => []ImagesTypeOK
<1>1. ImgIInv => ImagesTypeOK
  BY DEF ImgIInv
<1> QED BY <1>1, ImagesInvariance, PTL

\* A product with pictures has exactly one primary one, in whatever order they
\* are attached, made primary and deleted.
THEOREM PrimaryIsOne == ImagesSpec => []OnePrimaryPicture
<1>1. ImgIInv => OnePrimaryPicture
  BY FS_Singleton DEF ImgIInv, OnePrimaryOf, OnePrimaryPicture
<1> QED BY <1>1, ImagesInvariance, PTL

-----------------------------------------------------------------------------
(* Products: the stamp *)

\* A request that read a stamp read one the product still has.
StampRead == \A r \in StatusRequests : change[r].published_at # 0 => product.published_at # 0

\* Before the first publication nobody has seen a time.
Unstamped ==
  publications = 0 => product.published_at = 0 /\ \A r \in StatusRequests : change[r].published_at = 0

\* Without a race, one that would set the time is alone, and the first.
FirstIsAlone ==
  ~raced => \A r \in StatusRequests :
    Publishing(r) /\ change[r].published_at = 0 =>
      publications = 0 /\ \A q \in StatusRequests \ {r} : ~Publishing(q)

PIInv == ProductTypeOK /\ StampKept /\ StampRead /\ Unstamped /\ FirstIsAlone

\* The product starts unpublished, with no request under way.
LEMMA InitPIInv == ProductInit => PIInv
<1> SUFFICES ASSUME ProductInit PROVE PIInv
  OBVIOUS
<1>1. publications = 0 /\ raced = FALSE /\ product = [status |-> "none", published_at |-> 0, shelves |-> {}]
  BY DEF ProductInit
<1>2. \A r \in StatusRequests : change[r] = NoChange /\ ~Publishing(r) /\ change[r].published_at = 0
  BY DEF ProductInit, NoChange, Publishing
<1>3. product \in ProductRow /\ NoVariant \in VariantRow /\ NoChange \in ChangeRow
  BY <1>1, ProductAssumption DEF ProductRow, NoVariant, VariantRow, NoChange, ChangeRow, Statuses
<1>4. ProductTypeOK
  <2>1. variant \in [Variants -> VariantRow] /\ change \in [StatusRequests -> ChangeRow]
    BY <1>3 DEF ProductInit
  <2>2. 0 \in 0..MaxPublications /\ FALSE \in BOOLEAN
    BY ProductAssumption
  <2> QED BY <1>1, <1>3, <2>1, <2>2 DEF ProductTypeOK
<1>5. StampKept /\ StampRead /\ Unstamped /\ FirstIsAlone
  BY <1>1, <1>2 DEF StampKept, StampRead, Unstamped, FirstIsAlone
<1> QED BY <1>4, <1>5 DEF PIInv

\* A step that leaves the stamp, the changes and the count alone.
LEMMA StampAlone ==
  ASSUME PIInv, UNCHANGED <<change, publications, raced>>, product' \in ProductRow,
         product'.published_at = product.published_at, variant' \in [Variants -> VariantRow]
  PROVE  PIInv'
BY DEF PIInv, ProductTypeOK, StampKept, StampRead, Unstamped, FirstIsAlone, Publishing

\* A product is created as a draft, without a stamp.
LEMMA CreatePIInv ==
  ASSUME PIInv, NEW new \in NewVariants, NEW shelves \in SUBSET Shelves, CreateProduct(new, shelves)
  PROVE  PIInv'
<1>1. new \in [Variants -> VariantRow]
  <2>1. ASSUME NEW v \in Variants PROVE new[v] \in VariantRow
    <3>1. new[v] = NoVariant \/ new[v] \in [made : {TRUE}, is_active : BOOLEAN, is_default : BOOLEAN, stock : {0, MaxStock}]
      BY DEF NewVariants
    <3>2. {0, MaxStock} \subseteq 0..MaxStock /\ {TRUE} \subseteq BOOLEAN /\ 0 \in 0..MaxStock
      BY ProductAssumption
    <3>3. NoVariant \in VariantRow
      BY <3>2 DEF NoVariant, VariantRow
    <3>4. [made : {TRUE}, is_active : BOOLEAN, is_default : BOOLEAN, stock : {0, MaxStock}] \subseteq VariantRow
      BY <3>2 DEF VariantRow
    <3> QED BY <3>1, <3>3, <3>4
  <2> QED BY <2>1 DEF NewVariants
<1> QED BY <1>1, StampAlone DEF CreateProduct, PIInv, ProductTypeOK, ProductRow, Statuses

\* An import, a change of shelves and a dropped product keep the stamp.
LEMMA StatusPIInv ==
  ASSUME PIInv,
         \/ \E status \in Statuses : ImportProduct(status)
         \/ \E shelves \in SUBSET Shelves : SetCategories(shelves)
         \/ RetireProduct
  PROVE  PIInv'
BY StampAlone
   DEF ImportProduct, SetCategories, RetireProduct, PIInv, ProductTypeOK, ProductRow, Statuses

\* The sync of the canonical catalogue keeps the stamp.
LEMMA SyncPIInv ==
  ASSUME PIInv, NEW given \in SUBSET Variants, NEW first \in Variants, NEW stock \in 0..MaxStock,
         NEW shelves \in SUBSET Shelves, SyncProduct(given, first, stock, shelves)
  PROVE  PIInv'
<1>1. variant' \in [Variants -> VariantRow]
  BY DEF SyncProduct, PIInv, ProductTypeOK, VariantRow
<1> QED BY <1>1, StampAlone DEF SyncProduct, PIInv, ProductTypeOK, ProductRow, Statuses

\* A request remembers the time it read; one that publishes and saw none is alone
\* unless it races.
LEMMA BeginPIInv ==
  ASSUME PIInv, NEW r \in StatusRequests,
         BeginPublish(r) \/ \E to \in {"draft", "archived"} : BeginHide(r, to)
  PROVE  PIInv'
<1>1. PICK to \in Statuses :
        /\ change' = [change EXCEPT ![r] = [target |-> to, published_at |-> product.published_at]]
        /\ to # "published" => raced' = raced
        /\ to = "published" => raced' = (raced \/ (product.published_at = 0 /\ \E q \in StatusRequests : Publishing(q)))
  BY DEF BeginPublish, BeginHide, Statuses
<1>2. /\ UNCHANGED <<product, variant, publications>> /\ raced \in BOOLEAN /\ raced' \in BOOLEAN
      /\ product \in ProductRow /\ change \in [StatusRequests -> ChangeRow] /\ ProductTypeOK
  BY <1>1 DEF BeginPublish, BeginHide, PIInv, ProductTypeOK
<1>3. /\ change'[r] = [target |-> to, published_at |-> product.published_at]
      /\ \A q \in StatusRequests \ {r} : change'[q] = change[q]
  BY <1>1, <1>2
<1>4. ProductTypeOK'
  BY <1>1, <1>2 DEF ProductTypeOK, ProductRow, ChangeRow
<1>5. StampKept' /\ StampRead' /\ Unstamped'
  BY <1>1, <1>2, <1>3 DEF PIInv, StampKept, StampRead, Unstamped
<1>6. FirstIsAlone'
  <2> SUFFICES ASSUME ~raced', NEW q \in StatusRequests, Publishing(q)', change'[q].published_at = 0
               PROVE  publications' = 0 /\ \A p \in StatusRequests \ {q} : ~Publishing(p)'
    BY DEF FirstIsAlone
  <2>1. ~raced
    BY <1>1, <1>2
  <2>2. CASE q = r
    <3>1. to = "published" /\ product.published_at = 0
      BY <1>3, <2>2 DEF Publishing
    <3>2. \A p \in StatusRequests : ~Publishing(p)
      BY <1>1, <3>1
    <3>3. publications = 0
      BY <1>2, <3>1, ProductAssumption DEF PIInv, StampKept, ProductTypeOK
    <3> QED BY <1>2, <1>3, <2>2, <3>2, <3>3 DEF Publishing
  <2>3. CASE q # r
    <3>1. Publishing(q) /\ change[q].published_at = 0
      BY <1>3, <2>3 DEF Publishing
    <3>2. publications = 0 /\ \A p \in StatusRequests \ {q} : ~Publishing(p)
      BY <2>1, <3>1 DEF PIInv, FirstIsAlone
    <3>3. product.published_at = 0
      BY <3>2 DEF PIInv, Unstamped
    <3>4. to # "published"
      BY <1>1, <3>1, <3>3
    <3> QED BY <1>2, <1>3, <3>2, <3>4 DEF Publishing
  <2> QED BY <2>2, <2>3
<1> QED BY <1>4, <1>5, <1>6 DEF PIInv

\* Publishing sets the time when the request saw none; one that it saw is still
\* there, and is the first.
LEMMA PublishPIInv ==
  ASSUME PIInv, NEW r \in StatusRequests, CommitPublish(r)
  PROVE  PIInv'
<1>1. /\ publications' = publications + 1 /\ publications < MaxPublications /\ UNCHANGED <<variant, raced>>
      /\ change' = [change EXCEPT ![r] = NoChange] /\ Publishing(r)
      /\ product' = [product EXCEPT !.status = "published",
           !.published_at = IF change[r].published_at = 0 THEN publications' ELSE product.published_at]
  BY DEF CommitPublish
<1>2. /\ product \in ProductRow /\ change \in [StatusRequests -> ChangeRow] /\ change[r] \in ChangeRow
      /\ publications \in 0..MaxPublications /\ variant \in [Variants -> VariantRow] /\ raced \in BOOLEAN
  BY DEF PIInv, ProductTypeOK
<1>3. publications' \in 1..MaxPublications
  BY <1>1, <1>2, ProductAssumption
<1>4. /\ product'.published_at =
           IF change[r].published_at = 0 THEN publications' ELSE product.published_at
      /\ product'.status = "published" /\ product'.shelves = product.shelves
      /\ product' = [status |-> product'.status, published_at |-> product'.published_at,
                     shelves |-> product'.shelves]
  BY <1>1, <1>2 DEF ProductRow
<1>5. product'.published_at # 0 /\ product'.published_at \in 0..MaxPublications
  BY <1>2, <1>3, <1>4 DEF PIInv, StampRead, ProductRow
<1>6. product' \in ProductRow
  BY <1>2, <1>4, <1>5 DEF ProductRow, Statuses
<1>7. change' \in [StatusRequests -> ChangeRow]
  BY <1>1, <1>2, ProductAssumption DEF NoChange, ChangeRow, Statuses
<1>8. ~raced => product'.published_at = 1
  <2>1. CASE change[r].published_at = 0
    <3>1. ~raced => publications = 0
      BY <1>1, <2>1 DEF PIInv, FirstIsAlone
    <3> QED BY <1>1, <1>4, <2>1, <3>1
  <2>2. CASE change[r].published_at # 0
    <3>1. publications # 0
      BY <2>2 DEF PIInv, Unstamped
    <3>2. publications > 0
      BY <1>2, <3>1, ProductAssumption
    <3> QED BY <1>4, <2>2, <3>2 DEF PIInv, StampKept
  <2> QED BY <2>1, <2>2
<1>9. FirstIsAlone'
  <2> SUFFICES ASSUME ~raced', NEW q \in StatusRequests, Publishing(q)', change'[q].published_at = 0
               PROVE  FALSE
    BY DEF FirstIsAlone
  <2>1. q # r
    BY <1>1, <1>2 DEF Publishing, NoChange
  <2>2. change'[q] = change[q]
    BY <1>1, <1>2, <2>1
  <2>3. Publishing(q) /\ change[q].published_at = 0
    BY <2>2 DEF Publishing
  <2> QED BY <1>1, <2>1, <2>3 DEF PIInv, FirstIsAlone
<1>10. StampKept' /\ Unstamped' /\ StampRead'
  BY <1>1, <1>2, <1>3, <1>5, <1>8 DEF StampKept, StampRead, Unstamped
<1> QED BY <1>1, <1>2, <1>3, <1>6, <1>7, <1>9, <1>10 DEF PIInv, ProductTypeOK

\* Hiding and archiving keep the stamp.
LEMMA HidePIInv ==
  ASSUME PIInv, NEW r \in StatusRequests, CommitHide(r)
  PROVE  PIInv'
<1>1. /\ UNCHANGED <<variant, publications, raced>>
      /\ change' = [change EXCEPT ![r] = NoChange]
      /\ product' = [product EXCEPT !.status = change[r].target]
      /\ change[r].target \in Statuses /\ product \in ProductRow
  BY DEF CommitHide, Statuses, PIInv, ProductTypeOK
<1>2. product' \in ProductRow /\ product'.published_at = product.published_at
  BY <1>1 DEF ProductRow
<1>3. ProductTypeOK' /\ StampKept' /\ StampRead' /\ Unstamped'
  BY <1>1, <1>2, ProductAssumption
     DEF PIInv, ProductTypeOK, StampKept, StampRead, Unstamped, NoChange, ChangeRow, Statuses
<1>4. \A q \in StatusRequests : Publishing(q)' => Publishing(q) /\ change'[q] = change[q]
  BY <1>1 DEF PIInv, ProductTypeOK, Publishing, NoChange
<1>5. FirstIsAlone'
  BY <1>1, <1>4 DEF PIInv, FirstIsAlone
<1> QED BY <1>3, <1>5 DEF PIInv

\* Changing a variant or its stock leaves the stamp alone.
LEMMA VariantPIInv ==
  ASSUME PIInv, NEW v \in Variants, NEW active \in BOOLEAN, NEW default \in BOOLEAN, NEW stock \in 0..MaxStock,
         AddVariant(v, active, default, stock) \/ UpdateVariant(v, active, default) \/ DeactivateVariant(v) \/ Sell(v)
  PROVE  PIInv'
<1>1. variant \in [Variants -> VariantRow] /\ product \in ProductRow /\ UNCHANGED <<product, change, publications, raced>>
  BY DEF PIInv, ProductTypeOK, AddVariant, UpdateVariant, DeactivateVariant, Sell
<1>2. ClearDefaults(variant) \in [Variants -> VariantRow]
  BY <1>1 DEF ClearDefaults, VariantRow
<1>3. variant' \in [Variants -> VariantRow]
  <2>1. CASE AddVariant(v, active, default, stock)
    BY <1>1, <1>2, <2>1 DEF AddVariant, VariantRow
  <2>2. CASE UpdateVariant(v, active, default)
    <3>1. PICK rows \in [Variants -> VariantRow] :
            variant' = [rows EXCEPT ![v] = [rows[v] EXCEPT !.is_active = active, !.is_default = default]]
      BY <1>1, <1>2, <2>2 DEF UpdateVariant
    <3> QED BY <3>1 DEF VariantRow
  <2>3. CASE DeactivateVariant(v)
    BY <1>1, <2>3 DEF DeactivateVariant, VariantRow
  <2>4. CASE Sell(v)
    <3>1. variant[v].stock - 1 \in 0..MaxStock
      BY <1>1, <2>4, ProductAssumption DEF Sell, VariantRow
    <3>2. variant' = [variant EXCEPT ![v] = [variant[v] EXCEPT !.stock = variant[v].stock - 1]]
      BY <2>4 DEF Sell
    <3> QED BY <1>1, <3>1, <3>2 DEF VariantRow
  <2> QED BY <2>1, <2>2, <2>3, <2>4
<1> QED BY <1>1, <1>3, StampAlone

\* Correcting a count leaves the stamp alone.
LEMMA CorrectPIInv ==
  ASSUME PIInv, NEW v \in Variants, NEW stock \in 0..MaxStock, Correct(v, stock)
  PROVE  PIInv'
<1>1. /\ variant' = [variant EXCEPT ![v].stock = stock] /\ variant \in [Variants -> VariantRow]
      /\ product' = [product EXCEPT !.status = Recomputed(product.status, variant')] /\ product \in ProductRow
      /\ UNCHANGED <<change, publications, raced>>
  BY DEF Correct, PIInv, ProductTypeOK
<1>2. variant' \in [Variants -> VariantRow]
  BY <1>1 DEF VariantRow
<1>3. Recomputed(product.status, variant') \in Statuses
  BY <1>1 DEF Recomputed, Statuses, ProductRow
<1> QED BY <1>1, <1>2, <1>3, StampAlone DEF ProductRow

\* Every step keeps what is known of the stamp.
LEMMA StepPIInv == PIInv /\ [ProductNext]_productVars => PIInv'
<1> SUFFICES ASSUME PIInv, [ProductNext]_productVars PROVE PIInv'
  OBVIOUS
<1>1. CASE UNCHANGED productVars
  BY <1>1, StampAlone DEF productVars, PIInv, ProductTypeOK
<1>2. CASE \E v \in Variants, stock \in 0..MaxStock : Correct(v, stock)
  BY <1>2, CorrectPIInv
<1>3. ASSUME NEW v \in Variants, DeactivateVariant(v) \/ Sell(v) PROVE PIInv'
  <2>1. TRUE \in BOOLEAN /\ 0 \in 0..MaxStock
    BY ProductAssumption
  <2> QED BY <1>3, <2>1, VariantPIInv
<1>4. ASSUME NEW v \in Variants, NEW active \in BOOLEAN, NEW default \in BOOLEAN, UpdateVariant(v, active, default)
      PROVE  PIInv'
  <2>1. 0 \in 0..MaxStock
    BY ProductAssumption
  <2> QED BY <1>4, <2>1, VariantPIInv
<1>5. ASSUME NEW v \in Variants, NEW active \in BOOLEAN, NEW default \in BOOLEAN, NEW stock \in 0..MaxStock,
             AddVariant(v, active, default, stock)
      PROVE  PIInv'
  BY <1>5, VariantPIInv
<1> QED BY <1>1, <1>2, <1>3, <1>4, <1>5, CreatePIInv, StatusPIInv, SyncPIInv, BeginPIInv, PublishPIInv, HidePIInv
    DEF ProductNext

\* The rows of a product keep their shape.
THEOREM ProductTypeCorrect == ProductSpec => []ProductTypeOK
<1>1. PIInv => ProductTypeOK
  BY DEF PIInv
<1> QED BY <1>1, InitPIInv, StepPIInv, PTL DEF ProductSpec

\* The first time stays, unless publications raced to be the first, and some time
\* stays even then (publish in admin_product_service.py), for every number of
\* requests and publications.
THEOREM StampIsKept == ProductSpec => []StampKept
<1>1. PIInv => StampKept
  BY DEF PIInv
<1> QED BY <1>1, InitPIInv, StepPIInv, PTL DEF ProductSpec

-----------------------------------------------------------------------------
(* Products: what the page says *)

StockOf(rows) == [v \in Variants |-> rows[v].stock]

\* The total of the page is the sum of the stocks.
LEMMA TotalIsSum == AggregateStock.total_stock = SumOf(StockOf(variant), Variants)
<1> DEFINE f == StockOf(variant)
           own(g) == g = [t \in SUBSET Variants |->
             IF t = {} THEN 0 ELSE LET x == CHOOSE y \in t : TRUE IN variant[x].stock + g[t \ {x}]]
           sum(g) == g = [t \in SUBSET Variants |->
             IF t = {} THEN 0 ELSE LET x == CHOOSE y \in t : TRUE IN f[x] + g[t \ {x}]]
<1>1. \A x \in Variants : f[x] = variant[x].stock
  BY DEF StockOf
<1> HIDE DEF f
<1>2. \A g : own(g) <=> sum(g)
  BY <1>1
<1>3. (CHOOSE g : own(g)) = (CHOOSE g : sum(g))
  <2> HIDE DEF own, sum
  <2> QED BY <1>2
<1>4. AggregateStock.total_stock = (CHOOSE g : own(g))[Variants]
  BY DEF AggregateStock, MapThenSumSet, MapThenFoldSet
<1>5. SumOf(f, Variants) = (CHOOSE g : sum(g))[Variants]
  BY DEF SumOf, MapThenSumSet, MapThenFoldSet
<1>6. AggregateStock.total_stock = SumOf(f, Variants)
  BY <1>3, <1>4, <1>5
<1> QED BY <1>6 DEF f

ActiveOf(rows) == {v \in Variants : rows[v].is_active}

\* The active total is the sum over the variants on sale.
LEMMA ActiveIsSum ==
  ASSUME NEW rows
  PROVE  SumActiveStock(rows) = SumOf(StockOf(rows), ActiveOf(rows))
<1> DEFINE f == StockOf(rows)
           T == ActiveOf(rows)
           own(g) == g = [t \in SUBSET T |->
             IF t = {} THEN 0 ELSE LET x == CHOOSE y \in t : TRUE IN rows[x].stock + g[t \ {x}]]
           sum(g) == g = [t \in SUBSET T |->
             IF t = {} THEN 0 ELSE LET x == CHOOSE y \in t : TRUE IN f[x] + g[t \ {x}]]
<1>1. \A x \in T : f[x] = rows[x].stock
  BY DEF StockOf, ActiveOf
<1>2. SumActiveStock(rows) = (CHOOSE g : own(g))[T]
  BY DEF SumActiveStock, ActiveOf, MapThenSumSet, MapThenFoldSet
<1> HIDE DEF f, T
<1>3. \A g : own(g) <=> sum(g)
  BY <1>1
<1>4. (CHOOSE g : own(g)) = (CHOOSE g : sum(g))
  <2> HIDE DEF own, sum
  <2> QED BY <1>3
<1>5. SumOf(f, T) = (CHOOSE g : sum(g))[T]
  BY DEF SumOf, MapThenSumSet, MapThenFoldSet
<1>6. SumActiveStock(rows) = SumOf(f, T)
  BY <1>2, <1>4, <1>5
<1> QED BY <1>6 DEF f, T

\* A variant's units, beside those held.
LEMMA AvailableIs ==
  ASSUME ProductTypeOK, NEW v \in Variants, NEW held \in [Variants -> 0..MaxStock]
  PROVE  /\ AvailableQuantity(v, held[v]) \in Nat
         /\ AvailableQuantity(v, held[v]) > 0 => variant[v].stock > 0
<1>1. variant[v] \in VariantRow /\ held[v] \in Nat
  BY DEF ProductTypeOK
<1>2. variant[v].stock \in Nat
  BY <1>1 DEF VariantRow
<1>3. Max({variant[v].stock - held[v], 0}) =
        IF variant[v].stock - held[v] >= 0 THEN variant[v].stock - held[v] ELSE 0
  BY <1>1, <1>2, MaxOfTwo
<1> QED BY <1>1, <1>2, <1>3 DEF AvailableQuantity

\* What the page shows, as sums.
LEMMA PageIs ==
  ASSUME ProductTypeOK
  PROVE  PageAgrees
<1> SUFFICES ASSUME NEW held \in [Variants -> 0..MaxStock]
             PROVE  /\ IsAvailable(held) <=>
                         \E v \in Variants : AvailabilityState(v, held[v]) \notin {"out_of_stock", "reserved"}
                    /\ IsAvailable(held) => HasPage /\ Listed /\ AggregateStock.total_stock > 0
  BY DEF PageAgrees
<1>1. ASSUME NEW v \in Variants
      PROVE  AvailabilityState(v, held[v]) \notin {"out_of_stock", "reserved"}
               <=> product.status = "published" /\ variant[v].is_active /\ AvailableQuantity(v, held[v]) > 0
  <2>1. PICK n \in Nat : n = AvailableQuantity(v, held[v])
    BY AvailableIs
  <2>2. n > 0 => variant[v].stock # 0
    <3>1. variant[v].stock \in Nat
      BY DEF ProductTypeOK, VariantRow
    <3> QED BY <2>1, <3>1, AvailableIs
  <2>3. AvailabilityState(v, held[v]) =
          IF ~Buyable(v) \/ variant[v].stock = 0 THEN "out_of_stock" ELSE
          CASE n = 0 -> "reserved"
            [] n = 1 -> "last_one"
            [] n \in 2..5 -> "selling_fast"
            [] n \in 6..10 -> "low"
            [] OTHER -> "in_stock"
    BY <2>1 DEF AvailabilityState
  <2>4. CASE ~Buyable(v) \/ variant[v].stock = 0
    BY <2>1, <2>2, <2>3, <2>4 DEF Buyable
  <2>5. CASE Buyable(v) /\ variant[v].stock # 0 /\ n = 0
    BY <2>1, <2>3, <2>5 DEF Buyable
  <2>6. CASE Buyable(v) /\ variant[v].stock # 0 /\ n > 0
    <3>1. AvailabilityState(v, held[v]) \in {"last_one", "selling_fast", "low", "in_stock"}
      BY <2>3, <2>6
    <3> QED BY <2>1, <2>6, <3>1 DEF Buyable
  <2> QED BY <2>1, <2>4, <2>5, <2>6
<1>2. IsAvailable(held) => AggregateStock.total_stock > 0
  <2> SUFFICES ASSUME IsAvailable(held) PROVE AggregateStock.total_stock > 0
    OBVIOUS
  <2>1. PICK v \in Variants : AvailableQuantity(v, held[v]) > 0
    BY DEF IsAvailable
  <2>2. \A w \in Variants : StockOf(variant)[w] = variant[w].stock /\ StockOf(variant)[w] \in Nat
    BY DEF StockOf, ProductTypeOK, VariantRow
  <2>3. SumOf(StockOf(variant), Variants) \in Nat /\ StockOf(variant)[v] <= SumOf(StockOf(variant), Variants)
    BY <2>2, ProductAssumption, SumNat
  <2>4. StockOf(variant)[v] > 0
    BY <2>1, <2>2, AvailableIs
  <2>5. SumOf(StockOf(variant), Variants) > 0
    BY <2>2, <2>3, <2>4
  <2> QED BY <2>5, TotalIsSum
<1>3. IsAvailable(held) => HasPage /\ Listed
  BY DEF IsAvailable, HasPage, Listed
<1> QED BY <1>1, <1>2, <1>3 DEF IsAvailable

\* The page's verdict and its variants' buckets agree.
THEOREM PageAlwaysAgrees == ProductSpec => []PageAgrees
<1> QED BY ProductTypeCorrect, PageIs, PTL

\* A correction that leaves the product published leaves something to buy.
LEMMA CorrectionTells ==
  ASSUME PIInv, NEW v \in Variants, NEW stock \in 0..MaxStock, Correct(v, stock)
  PROVE  /\ product'.status = "published" => \E w \in Variants : variant'[w].is_active /\ variant'[w].stock > 0
         /\ product'.status = "unavailable" => \A w \in Variants : variant'[w].is_active => variant'[w].stock = 0
<1>1. product'.status = Recomputed(product.status, variant')
  BY DEF Correct, PIInv, ProductTypeOK, ProductRow
<1>2. \A w \in Variants : variant'[w].stock \in Nat
  BY CorrectPIInv DEF PIInv, ProductTypeOK, VariantRow
<1> DEFINE sum == SumActiveStock(variant')
<1>3. sum \in Nat /\ (sum = 0 <=> \A w \in ActiveOf(variant') : variant'[w].stock = 0)
  <2>1. IsFiniteSet(ActiveOf(variant'))
    BY ProductAssumption, FS_Subset DEF ActiveOf
  <2>2. \A w \in ActiveOf(variant') : StockOf(variant')[w] = variant'[w].stock /\ StockOf(variant')[w] \in Nat
    BY <1>2 DEF StockOf, ActiveOf
  <2>3. SumOf(StockOf(variant'), ActiveOf(variant')) \in Nat
    BY <2>1, <2>2, SumNat
  <2>4. SumOf(StockOf(variant'), ActiveOf(variant')) = 0 <=> \A w \in ActiveOf(variant') : StockOf(variant')[w] = 0
    BY <2>1, <2>2, SumZero
  <2> QED BY <2>2, <2>3, <2>4, ActiveIsSum
<1>4. product'.status = "published" => sum # 0
  BY <1>1, <1>3 DEF Recomputed
<1>5. product'.status = "unavailable" => sum = 0
  BY <1>1, <1>3 DEF Recomputed
<1> HIDE DEF sum
<1> QED BY <1>2, <1>3, <1>4, <1>5 DEF ActiveOf

\* Right after every correction the catalogue tells the truth about the stock.
THEOREM CorrectionIsAlwaysTold == ProductSpec => CorrectionIsTold
<1>1. PIInv /\ [ProductNext]_productVars =>
        [(\E v \in Variants, stock \in 0..MaxStock : Correct(v, stock)) =>
          /\ product'.status = "published" => \E v \in Variants : variant'[v].is_active /\ variant'[v].stock > 0
          /\ product'.status = "unavailable" => \A v \in Variants : variant'[v].is_active => variant'[v].stock = 0]_productVars
  BY CorrectionTells
<1> QED BY <1>1, InitPIInv, StepPIInv, PTL DEF ProductSpec, CorrectionIsTold

-----------------------------------------------------------------------------
(* Imports *)

\* The background task's own state.
TaskRow ==
  [at : {"idle", "chunk", "row", "record", "gone"}, file : Seq(CsvRow), next : Nat \ {0},
   todo : SUBSET Nat, seen : SUBSET Keys, existing : SUBSET Keys, pending : SUBSET Nat,
   levels : {<<>>} \cup [Keys -> 0..MaxLevel], applied : Nat, bad : SUBSET Nat,
   succeeded : Nat, failed : Nat, refused : BOOLEAN]

\* Of n rows, s were counted as succeeded and f times one as failed.
RowsCounted(s, f, n) == s <= n /\ n <= s + f /\ (~task.refused => s + f = n)

\* The rows of the current chunk.
Rows == ChunkAt(task.next)

\* The task that works has its job running.
Running == task.at \in {"chunk", "row", "record"} => job.status = "running"

\* Between chunks every row before the next one was counted, and only these can
\* have been reported or stored.
BetweenChunks ==
  task.at \in {"idle", "chunk"} =>
    /\ RowsCounted(task.succeeded, task.failed, task.next - 1) /\ task.bad = {}
    /\ imported \cup job.errors \subseteq 1..(task.next - 1)

\* A row of the chunk is still to be done, or was reported, or was applied; only
\* an applied one is pending.
InChunk ==
  task.at = "row" =>
    /\ Rows # {} /\ ~job.dry_run /\ task.levels \in [Keys -> 0..MaxLevel]
    /\ RowsCounted(task.succeeded, task.failed, task.next - 1)
    /\ imported \cup job.errors \subseteq 1..(task.next - 1)
    /\ task.todo \subseteq Rows /\ task.bad \subseteq Rows /\ task.pending \subseteq Rows
    /\ Rows \ ValidIn(Rows) \subseteq task.bad
    /\ task.todo \cap task.bad = {} /\ task.todo \cap task.pending = {} /\ task.bad \cap task.pending = {}
    /\ task.applied + Cardinality(task.bad) + Cardinality(task.todo) = Cardinality(Rows)

\* After its commit the chunk's failures are still to be recorded.
ChunkDone ==
  task.at = "record" =>
    /\ Rows # {} /\ task.bad \subseteq Rows
    /\ RowsCounted(task.succeeded, task.failed + Cardinality(task.bad), task.next - 1 + Cardinality(Rows))
    /\ job.errors \subseteq 1..(task.next - 1)
    /\ imported \subseteq 1..(task.next - 1) \cup Rows /\ imported \cap task.bad = {}

ImportInv ==
  /\ ImportTypeOK /\ TallyAddsUp /\ ReportedNotStored
  /\ task \in TaskRow
  /\ Running /\ BetweenChunks /\ InChunk /\ ChunkDone

-----------------------------------------------------------------------------
(* Chunks *)

\* The rows of a chunk are an interval that ends with its last row.
LEMMA ChunkIs ==
  ASSUME NEW n \in Nat \ {0}, task.file \in Seq(CsvRow)
  PROVE  \E e \in Nat :
           /\ ChunkAt(n) = n..e /\ e <= Len(task.file) /\ IsFiniteSet(ChunkAt(n))
           /\ ChunkAt(n) # {} => /\ n <= e /\ Max(ChunkAt(n)) = e
                                 /\ Cardinality(ChunkAt(n)) = e - n + 1
<1>1. ChunkSize \in Nat \ {0} /\ Len(task.file) \in Nat
  BY ImportAssumption
<1>2. PICK a \in Nat, b \in Nat : a = n + ChunkSize - 1 /\ b = Len(task.file)
  <2>1. n + ChunkSize - 1 \in Nat
    BY <1>1
  <2> QED BY <1>1, <2>1
<1>3. PICK e \in Nat : e = Min({a, b}) /\ e <= b
  <2>1. CASE a <= b
    <3>1. Min({a, b}) = a
      BY <2>1 DEF Min
    <3> QED BY <2>1, <3>1
  <2>2. CASE ~(a <= b)
    <3>1. Min({a, b}) = b
      BY <2>2 DEF Min
    <3> QED BY <3>1
  <2> QED BY <2>1, <2>2
<1>4. ChunkAt(n) = n..e /\ e <= Len(task.file)
  BY <1>2, <1>3 DEF ChunkAt
<1>5. n \in Int /\ e \in Int
  OBVIOUS
<1>6. IsFiniteSet(n..e) /\ Cardinality(n..e) = IF n > e THEN 0 ELSE e - n + 1
  BY <1>5, FS_Interval
<1>7. n..e # {} => n <= e /\ Max(n..e) = e
  <2> SUFFICES ASSUME n..e # {} PROVE n <= e /\ Max(n..e) = e
    OBVIOUS
  <2>1. n <= e
    OBVIOUS
  <2>2. e \in n..e /\ \A y \in n..e : e >= y
    BY <2>1
  <2>3. \A x \in n..e : (\A y \in n..e : x >= y) => x = e
    BY <2>1, <2>2
  <2> QED BY <2>1, <2>2, <2>3 DEF Max
<1> QED BY <1>4, <1>6, <1>7

\* The types of a state, one by one.
LEMMA ImportFacts ==
  ASSUME ImportInv
  PROVE  /\ task.at \in {"idle", "chunk", "row", "record", "gone"} /\ task.file \in Seq(CsvRow)
         /\ task.next \in Nat \ {0} /\ task.todo \subseteq Nat /\ task.seen \subseteq Keys
         /\ task.existing \subseteq Keys /\ task.pending \subseteq Nat
         /\ task.levels \in {<<>>} \cup [Keys -> 0..MaxLevel] /\ task.applied \in Nat
         /\ task.bad \subseteq Nat /\ task.succeeded \in Nat /\ task.failed \in Nat /\ task.refused \in BOOLEAN
         /\ job.status \in {"none", "queued", "running", "completed", "failed"} /\ job.kind \in Kinds
         /\ job.dry_run \in BOOLEAN /\ job.processed \in Nat /\ job.succeeded \in Nat
         /\ job.failed \in Nat /\ job.errors \subseteq Nat
         /\ catalogue \subseteq Keys /\ level \in [Keys -> 0..MaxLevel] /\ imported \subseteq Nat
BY DEF ImportInv, ImportTypeOK, ImportRow, TaskRow

\* The rows of a chunk are rows of the file.
LEMMA RowsAreRows ==
  ASSUME ImportInv
  PROVE  /\ Rows \subseteq Nat \ {0} /\ IsFiniteSet(Rows) /\ \A n \in Rows : Row(n) \in CsvRow
         /\ Rows \cap 1..(task.next - 1) = {}
<1>1. task.next \in Nat \ {0} /\ task.file \in Seq(CsvRow)
  BY ImportFacts
<1>2. PICK e \in Nat : Rows = task.next..e /\ e <= Len(task.file) /\ IsFiniteSet(Rows)
  BY <1>1, ChunkIs DEF Rows
<1>3. PICK m \in Nat \ {0} : m = task.next
  BY <1>1
<1>4. m..e \cap 1..(m - 1) = {} /\ m..e \subseteq Nat \ {0} /\ m..e \subseteq 1..e
  OBVIOUS
<1>5. \A n \in 1..e : n \in 1..Len(task.file)
  BY <1>1, <1>2
<1> QED BY <1>1, <1>2, <1>3, <1>4, <1>5 DEF Row

-----------------------------------------------------------------------------
(* The steps of the job *)

\* A step that only ends the task, or leaves it and the job's counters alone.
LEMMA TaskEnds ==
  ASSUME ImportInv, task' \in TaskRow, task'.at = "gone", job' \in ImportRow,
         job'.processed = job.processed, job'.succeeded = job.succeeded, job'.failed = job.failed,
         job'.errors = job.errors, task'.refused = task.refused, UNCHANGED <<catalogue, level, imported>>
  PROVE  ImportInv'
<1>1. ImportTypeOK' /\ TallyAddsUp' /\ ReportedNotStored'
  BY DEF ImportInv, ImportTypeOK, TallyAddsUp, ReportedNotStored
<1>2. Running' /\ BetweenChunks' /\ InChunk' /\ ChunkDone'
  BY DEF Running, BetweenChunks, InChunk, ChunkDone
<1> QED BY <1>1, <1>2 DEF ImportInv

\* A task may end anywhere: what was recorded stands.
LEMMA JobEnds ==
  ASSUME ImportInv, FinishJob \/ NoHeader \/ (\E n \in task.todo : FailFlush(n)) \/ LoseTask
  PROVE  ImportInv'
<1>1. task \in TaskRow /\ job \in ImportRow
  BY DEF ImportInv, ImportTypeOK
<1>2. UNCHANGED <<catalogue, level, imported>> /\ task'.at = "gone" /\ task' \in TaskRow /\ task'.refused = task.refused
  <2>1. CASE FinishJob \/ NoHeader
    BY <1>1, <2>1 DEF FinishJob, NoHeader, TaskRow
  <2>2. CASE (\E n \in task.todo : FailFlush(n)) \/ LoseTask
    BY <1>1, <2>2 DEF FailFlush, LoseTask, TaskRow
  <2> QED BY <2>1, <2>2
<1>3. /\ job' \in ImportRow /\ job'.processed = job.processed /\ job'.succeeded = job.succeeded
      /\ job'.failed = job.failed /\ job'.errors = job.errors
  <2>1. job' = job \/ job' = [job EXCEPT !.status = "completed"] \/ job' = [job EXCEPT !.status = "failed"]
    BY DEF FinishJob, NoHeader, FailFlush, LoseTask
  <2> QED BY <1>1, <2>1 DEF ImportRow
<1> QED BY <1>2, <1>3, TaskEnds

\* A new job has counted nothing.
LEMMA CreateKeeps ==
  ASSUME ImportInv, NEW kind \in Kinds, NEW file \in Files, NEW dry \in BOOLEAN, CreateJob(kind, file, dry)
  PROVE  ImportInv'
<1>1. /\ job.status = "none" /\ job' = [job EXCEPT !.status = "queued", !.kind = kind, !.dry_run = dry]
      /\ task' = [task EXCEPT !.file = file] /\ UNCHANGED <<catalogue, level, imported>>
      /\ task \in TaskRow /\ job \in ImportRow /\ file \in Seq(CsvRow)
  BY ImportAssumption DEF CreateJob, ImportInv, ImportTypeOK
<1>2. task.at = "idle" \/ task.at = "gone"
  BY <1>1, ImportFacts DEF ImportInv, Running
<1>3. /\ task' \in TaskRow /\ task'.at = task.at /\ task'.next = task.next /\ task'.bad = task.bad
      /\ task'.refused = task.refused /\ task'.succeeded = task.succeeded /\ task'.failed = task.failed
  BY <1>1 DEF TaskRow
<1>4. /\ job' \in ImportRow /\ job'.processed = job.processed /\ job'.succeeded = job.succeeded
      /\ job'.failed = job.failed /\ job'.errors = job.errors
  BY <1>1 DEF ImportRow
<1>5. ImportTypeOK' /\ TallyAddsUp' /\ ReportedNotStored'
  BY <1>1, <1>3, <1>4 DEF ImportInv, ImportTypeOK, TallyAddsUp, ReportedNotStored
<1>6. Running' /\ InChunk' /\ ChunkDone'
  BY <1>2, <1>3 DEF Running, InChunk, ChunkDone
<1>7. BetweenChunks'
  BY <1>1, <1>3, <1>4 DEF ImportInv, BetweenChunks, RowsCounted
<1> QED BY <1>3, <1>5, <1>6, <1>7 DEF ImportInv

\* The task starts before the first chunk.
LEMMA StartKeeps ==
  ASSUME ImportInv, StartJob
  PROVE  ImportInv'
<1>1. /\ task.at = "idle" /\ job' = [job EXCEPT !.status = "running"]
      /\ task' = [task EXCEPT !.at = "chunk"] /\ UNCHANGED <<catalogue, level, imported>>
      /\ task \in TaskRow /\ job \in ImportRow
  BY DEF StartJob, ImportInv, ImportTypeOK
<1>2. /\ task' \in TaskRow /\ task'.at = "chunk" /\ task'.next = task.next /\ task'.bad = task.bad
      /\ task'.refused = task.refused /\ task'.succeeded = task.succeeded /\ task'.failed = task.failed
  BY <1>1 DEF TaskRow
<1>3. /\ job' \in ImportRow /\ job'.processed = job.processed /\ job'.succeeded = job.succeeded
      /\ job'.failed = job.failed /\ job'.errors = job.errors /\ job'.status = "running"
  BY <1>1 DEF ImportRow
<1>4. ImportTypeOK' /\ TallyAddsUp' /\ ReportedNotStored'
  BY <1>1, <1>2, <1>3 DEF ImportInv, ImportTypeOK, TallyAddsUp, ReportedNotStored
<1>5. Running' /\ InChunk' /\ ChunkDone'
  BY <1>2, <1>3 DEF Running, InChunk, ChunkDone
<1>6. BetweenChunks'
  BY <1>1, <1>2, <1>3 DEF ImportInv, BetweenChunks, RowsCounted
<1> QED BY <1>2, <1>4, <1>5, <1>6 DEF ImportInv

-----------------------------------------------------------------------------
(* The steps of a chunk *)

\* Somebody else's key changes nothing that was counted.
LEMMA SomeoneKeeps ==
  ASSUME ImportInv, NEW k \in Keys, SomeoneAdds(k)
  PROVE  ImportInv'
<1>1. UNCHANGED <<job, task, level, imported>> /\ catalogue' = catalogue \cup {k}
  BY DEF SomeoneAdds
<1>2. Rows' = Rows
  BY <1>1 DEF Rows, ChunkAt
<1>3. ImportTypeOK' /\ TallyAddsUp' /\ ReportedNotStored'
  BY <1>1 DEF ImportInv, ImportTypeOK, TallyAddsUp, ReportedNotStored
<1>4. ValidIn(Rows)' = ValidIn(Rows)
  BY <1>1, <1>2 DEF ValidIn, Row
<1> QED BY <1>1, <1>2, <1>3, <1>4 DEF ImportInv, Running, BetweenChunks, InChunk, ChunkDone, RowsCounted

\* A chunk is split into the rows its schema refuses and those still to be done;
\* a dry run counts the latter at once.
LEMMA BeginKeeps ==
  ASSUME ImportInv, BeginChunk
  PROVE  ImportInv'
<1> DEFINE valid == ValidIn(Rows)
<1>1. /\ task.at = "chunk" /\ Rows # {} /\ UNCHANGED <<job, catalogue, level, imported>>
      /\ task' = [task EXCEPT
           !.at = IF valid = {} \/ job.dry_run THEN "record" ELSE "row",
           !.todo = valid, !.seen = {}, !.pending = {}, !.applied = 0, !.levels = level,
           !.existing = catalogue \cap KeysOf(valid),
           !.bad = Rows \ valid,
           !.succeeded = IF job.dry_run THEN task.succeeded + Cardinality(valid) ELSE task.succeeded]
  BY DEF BeginChunk, Rows
<1>2. /\ valid \subseteq Rows /\ Rows \subseteq Nat /\ IsFiniteSet(Rows) /\ Rows \cap 1..(task.next - 1) = {}
  BY RowsAreRows DEF ValidIn
<1>3. IsFiniteSet(valid) /\ IsFiniteSet(Rows \ valid)
  BY <1>2, FS_Subset, FS_Difference
<1>4. /\ Cardinality(valid) \in Nat /\ Cardinality(Rows \ valid) \in Nat /\ Cardinality(Rows) \in Nat
      /\ Cardinality(Rows \ valid) = Cardinality(Rows) - Cardinality(valid)
      /\ valid = {} => Cardinality(valid) = 0
  <2>1. Rows \cap valid = valid
    BY <1>2
  <2>2. Cardinality(Rows \ valid) = Cardinality(Rows) - Cardinality(valid)
    BY <1>2, <2>1, FS_Difference
  <2>3. Cardinality(valid) \in Nat /\ Cardinality(Rows \ valid) \in Nat /\ Cardinality(Rows) \in Nat
    BY <1>2, <1>3, FS_CardinalityType
  <2>4. valid = {} => Cardinality(valid) = 0
    BY FS_EmptySet
  <2> QED BY <2>2, <2>3, <2>4
<1>4a. ValidIn(Rows) = valid
  OBVIOUS
<1> HIDE DEF valid
<1>5. level \in [Keys -> 0..MaxLevel] /\ catalogue \cap KeysOf(valid) \subseteq Keys /\ job.dry_run \in BOOLEAN
  BY ImportFacts
<1>6. /\ task' \in TaskRow /\ task'.file = task.file /\ task'.next = task.next /\ task'.todo = valid
      /\ task'.pending = {} /\ task'.applied = 0 /\ task'.levels = level /\ task'.bad = Rows \ valid
      /\ task'.failed = task.failed /\ task'.refused = task.refused
      /\ task'.at = IF valid = {} \/ job.dry_run THEN "record" ELSE "row"
      /\ task'.succeeded = IF job.dry_run THEN task.succeeded + Cardinality(valid) ELSE task.succeeded
  <2>1. task \in TaskRow
    BY DEF ImportInv
  <2>2. valid \subseteq Nat /\ Rows \ valid \subseteq Nat
    BY <1>2
  <2>3. (IF job.dry_run THEN task.succeeded + Cardinality(valid) ELSE task.succeeded) \in Nat
    BY <1>4, ImportFacts
  <2> QED BY <1>1, <1>5, <2>1, <2>2, <2>3 DEF TaskRow
<1>7. /\ RowsCounted(task.succeeded, task.failed, task.next - 1) /\ imported \cup job.errors \subseteq 1..(task.next - 1)
      /\ job.status = "running"
  BY <1>1 DEF ImportInv, BetweenChunks, Running
<1>8. Rows' = Rows /\ ValidIn(Rows)' = valid
  BY <1>4a, <1>6 DEF Rows, ChunkAt, ValidIn, Row
<1>9. ImportTypeOK' /\ TallyAddsUp' /\ ReportedNotStored'
  BY <1>1, <1>6 DEF ImportInv, ImportTypeOK, TallyAddsUp, ReportedNotStored
<1>10. PICK s \in Nat, f \in Nat, n \in Nat \ {0}, v \in Nat, b \in Nat, r \in Nat :
         /\ s = task.succeeded /\ f = task.failed /\ n = task.next /\ v = Cardinality(valid)
         /\ b = Cardinality(Rows \ valid) /\ r = Cardinality(Rows) /\ b = r - v
         /\ s <= n - 1 /\ n - 1 <= s + f /\ (~task.refused => s + f = n - 1)
  BY <1>4, <1>7, ImportFacts DEF RowsCounted
<1>11. CASE valid = {} \/ job.dry_run
  <2>1. task'.at = "record"
    BY <1>6, <1>11
  <2>2. RowsCounted(task.succeeded, task.failed + Cardinality(task.bad), task.next - 1 + Cardinality(Rows))'
    <3>1. PICK d \in {0, v} : task'.succeeded = s + d /\ v = d
      <4>1. CASE job.dry_run
        BY <1>6, <1>10, <4>1
      <4>2. CASE ~job.dry_run
        <5>1. v = 0 /\ s + 0 = s
          BY <1>4, <1>10, <1>11, <4>2
        <5> QED BY <1>6, <1>10, <4>2, <5>1
      <4> QED BY <4>1, <4>2
    <3>2. /\ s + v <= n - 1 + r /\ n - 1 + r <= (s + v) + (f + b)
          /\ ~task.refused => (s + v) + (f + b) = n - 1 + r
      BY <1>10, <1>4
    <3>3. Cardinality(task'.bad) = b /\ Cardinality(Rows') = r /\ task'.failed = f /\ task'.next = n
      BY <1>6, <1>8, <1>10
    <3> QED BY <1>6, <3>1, <3>2, <3>3 DEF RowsCounted
  <2>3. ChunkDone'
    BY <1>1, <1>2, <1>6, <1>7, <1>8, <2>2 DEF ChunkDone
  <2>4. Running' /\ BetweenChunks' /\ InChunk'
    BY <1>1, <1>7, <2>1 DEF Running, BetweenChunks, InChunk
  <2> QED BY <1>6, <1>9, <2>3, <2>4 DEF ImportInv
<1>12. CASE ~(valid = {} \/ job.dry_run)
  <2>1. task'.at = "row" /\ task'.succeeded = task.succeeded
    BY <1>6, <1>12
  <2>2. task'.applied + Cardinality(task'.bad) + Cardinality(task'.todo) = Cardinality(Rows')
    <3>1. 0 + b + v = r
      BY <1>10
    <3> QED BY <1>6, <1>8, <1>10, <3>1
  <2>3. InChunk'
    BY <1>1, <1>2, <1>5, <1>6, <1>7, <1>8, <1>12, <2>1, <2>2 DEF InChunk, RowsCounted
  <2>4. Running' /\ BetweenChunks' /\ ChunkDone'
    BY <1>1, <1>7, <2>1 DEF Running, BetweenChunks, ChunkDone
  <2> QED BY <1>6, <1>9, <2>3, <2>4 DEF ImportInv
<1> QED BY <1>11, <1>12

\* What one row leaves of the task: it is reported, or it is applied.
RowDone(n) ==
  /\ task' \in TaskRow /\ task'.at = "row" /\ task'.file = task.file /\ task'.next = task.next
  /\ task'.todo = task.todo \ {n} /\ task'.levels \in [Keys -> 0..MaxLevel]
  /\ task'.succeeded = task.succeeded /\ task'.failed = task.failed /\ task'.refused = task.refused
  /\ \/ task'.bad = task.bad \cup {n} /\ task'.pending \subseteq task.pending /\ task'.applied = task.applied
     \/ task'.bad = task.bad /\ task'.pending = task.pending \cup {n} /\ task'.applied = task.applied + 1

\* A row that was reported or applied is counted, also when the one reported takes
\* the applied rows of its chunk back.
LEMMA RowDoneKeeps ==
  ASSUME ImportInv, task.at = "row", NEW n \in task.todo, RowDone(n), UNCHANGED <<job, catalogue, level, imported>>
  PROVE  ImportInv'
<1>1. /\ Rows # {} /\ ~job.dry_run /\ RowsCounted(task.succeeded, task.failed, task.next - 1)
      /\ Rows \ ValidIn(Rows) \subseteq task.bad
      /\ imported \cup job.errors \subseteq 1..(task.next - 1)
      /\ task.todo \subseteq Rows /\ task.bad \subseteq Rows /\ task.pending \subseteq Rows
      /\ task.todo \cap task.bad = {} /\ task.todo \cap task.pending = {} /\ task.bad \cap task.pending = {}
      /\ task.applied + Cardinality(task.bad) + Cardinality(task.todo) = Cardinality(Rows)
      /\ job.status = "running"
  BY DEF ImportInv, InChunk, Running
<1>2. IsFiniteSet(task.todo) /\ IsFiniteSet(task.bad)
  BY <1>1, RowsAreRows, FS_Subset
<1>3. Rows' = Rows /\ ValidIn(Rows)' = ValidIn(Rows)
  BY DEF RowDone, Rows, ChunkAt, ValidIn, Row
<1>4. ImportTypeOK' /\ TallyAddsUp' /\ ReportedNotStored'
  BY DEF RowDone, ImportInv, ImportTypeOK, TallyAddsUp, ReportedNotStored
<1>5. /\ Cardinality(task.todo \ {n}) = Cardinality(task.todo) - 1
      /\ Cardinality(task.bad \cup {n}) = Cardinality(task.bad) + 1
      /\ Cardinality(task.todo) \in Nat /\ Cardinality(task.bad) \in Nat /\ task.applied \in Nat
  <2>1. n \notin task.bad
    BY <1>1
  <2> QED BY <1>2, <2>1, FS_RemoveElement, FS_AddElement, FS_CardinalityType, ImportFacts
<1>6. task'.applied + Cardinality(task'.bad) + Cardinality(task'.todo) = Cardinality(Rows')
  <2>1. CASE task'.bad = task.bad \cup {n} /\ task'.applied = task.applied
    BY <1>1, <1>3, <1>5, <2>1 DEF RowDone
  <2>2. CASE task'.bad = task.bad /\ task'.applied = task.applied + 1
    BY <1>1, <1>3, <1>5, <2>2 DEF RowDone
  <2> QED BY <2>1, <2>2 DEF RowDone
<1>7. InChunk'
  BY <1>1, <1>3, <1>6 DEF RowDone, InChunk, RowsCounted
<1>8. Running' /\ BetweenChunks' /\ ChunkDone'
  BY <1>1 DEF RowDone, Running, BetweenChunks, ChunkDone
<1> QED BY <1>4, <1>7, <1>8 DEF RowDone, ImportInv

\* Whatever its kind and its mode, a row is reported or applied.
LEMMA RowIsDone ==
  ASSUME ImportInv, NEW n \in task.todo, ApplyRow(n)
  PROVE  task.at = "row" /\ RowDone(n) /\ UNCHANGED <<job, catalogue, level, imported>>
<1>1. /\ task.at = "row" /\ UNCHANGED <<job, catalogue, level, imported>> /\ task \in TaskRow
      /\ task.levels \in [Keys -> 0..MaxLevel] /\ n \in Rows /\ n \in Nat
  BY ImportFacts DEF ApplyRow, ImportInv, InChunk
<1>2. Row(n) \in CsvRow /\ Row(n).key \in Keys
  BY <1>1, RowsAreRows DEF CsvRow
<1> DEFINE k == Row(n).key
<1> HIDE DEF k
<1>3. Left(n) = [task EXCEPT !.todo = task.todo \ {n}, !.seen = task.seen \cup {k}] /\ k \in Keys
  BY <1>2 DEF Left, k
<1>4. /\ task.todo \ {n} \in SUBSET Nat /\ task.seen \cup {k} \in SUBSET Keys
      /\ task.bad \cup {n} \in SUBSET Nat /\ task.pending \cup {n} \in SUBSET Nat
      /\ task.applied + 1 \in Nat /\ {} \in SUBSET Nat
  BY <1>1, <1>3, ImportFacts
<1> DEFINE left == [task EXCEPT !.todo = task.todo \ {n}, !.seen = task.seen \cup {k}]
           done == [left EXCEPT !.pending = task.pending \cup {n}, !.applied = task.applied + 1]
<1>5. /\ left \in TaskRow /\ left.at = "row" /\ left.file = task.file /\ left.next = task.next
      /\ left.todo = task.todo \ {n} /\ left.levels = task.levels /\ left.bad = task.bad
      /\ left.pending = task.pending /\ left.applied = task.applied
      /\ left.succeeded = task.succeeded /\ left.failed = task.failed /\ left.refused = task.refused
  BY <1>1, <1>4 DEF TaskRow
<1> HIDE DEF left
<1>6. RowDone(n)
  <2>1. CASE task' = [left EXCEPT !.bad = task.bad \cup {n}]
    BY <1>1, <1>4, <1>5, <2>1 DEF RowDone, TaskRow
  <2>2. CASE task' = [[left EXCEPT !.bad = task.bad \cup {n}] EXCEPT !.pending = {}]
    BY <1>1, <1>4, <1>5, <2>2 DEF RowDone, TaskRow
  <2>3. /\ done \in TaskRow /\ done.at = "row" /\ done.file = task.file /\ done.next = task.next
        /\ done.todo = task.todo \ {n} /\ done.levels = task.levels /\ done.bad = task.bad
        /\ done.pending = task.pending \cup {n} /\ done.applied = task.applied + 1
        /\ done.succeeded = task.succeeded /\ done.failed = task.failed /\ done.refused = task.refused
    BY <1>4, <1>5 DEF TaskRow
  <2> HIDE DEF done
  <2>4. CASE task' = done
    BY <1>1, <2>3, <2>4 DEF RowDone
  <2>5. ASSUME NEW t \in 0..MaxLevel, task' = [done EXCEPT !.levels[k] = t]
        PROVE  RowDone(n)
    <3>1. [task.levels EXCEPT ![k] = t] \in [Keys -> 0..MaxLevel]
      BY <1>1
    <3>2. [done EXCEPT !.levels[k] = t] = [done EXCEPT !.levels = [task.levels EXCEPT ![k] = t]]
      BY <2>3 DEF TaskRow
    <3> QED BY <1>1, <2>3, <2>5, <3>1, <3>2 DEF RowDone, TaskRow
  <2>6. Reported(n) = [left EXCEPT !.bad = task.bad \cup {n}]
    BY <1>3, <1>5 DEF Reported, left
  <2>7. [Left(n) EXCEPT !.pending = @ \cup {n}, !.applied = @ + 1] = done
    BY <1>3, <1>5 DEF done, left
  <2>8. \A t : [Left(n) EXCEPT !.pending = @ \cup {n}, !.applied = @ + 1, !.levels[k] = t]
               = [[Left(n) EXCEPT !.pending = @ \cup {n}, !.applied = @ + 1] EXCEPT !.levels[k] = t]
    <3>1. Left(n) \in TaskRow
      BY <1>3, <1>5 DEF left
    <3> QED BY <3>1 DEF TaskRow
  <2>9. CASE InsertRow(n)
    BY <2>1, <2>2, <2>4, <2>6, <2>7, <2>9 DEF InsertRow
  <2>10. CASE AdjustRow(n)
    <3> DEFINE target == Target(Row(n).mode, Row(n).value, task.levels[k])
    <3>1. target \in Int
      BY <1>1, <1>2, ImportAssumption DEF Target, CsvRow, k
    <3>2. /\ target <= MaxLevel
          /\ \/ task' = Reported(n)
             \/ /\ ~(target < Held)
                /\ task' = [Left(n) EXCEPT !.pending = @ \cup {n}, !.applied = @ + 1, !.levels[k] = target]
      BY <2>10 DEF AdjustRow, k
    <3> HIDE DEF target
    <3>3. ~(target < Held) => target \in 0..MaxLevel
      BY <3>1, <3>2, ImportAssumption
    <3>4. CASE task' = Reported(n)
      BY <2>1, <2>6, <3>4
    <3>5. CASE ~(target < Held) /\ task' = [Left(n) EXCEPT !.pending = @ \cup {n}, !.applied = @ + 1, !.levels[k] = target]
      BY <2>5, <2>7, <2>8, <3>3, <3>5
    <3> QED BY <3>2, <3>4, <3>5
  <2> QED BY <2>9, <2>10 DEF ApplyRow
<1> QED BY <1>1, <1>6

\* And so it is counted.
LEMMA ApplyKeeps ==
  ASSUME ImportInv, NEW n \in task.todo, ApplyRow(n)
  PROVE  ImportInv'
BY RowIsDone, RowDoneKeeps

\* The commit stores what is pending, none of which was reported.
LEMMA CommitKeeps ==
  ASSUME ImportInv, CommitChunk
  PROVE  ImportInv'
<1>1. /\ task.at = "row" /\ task.todo = {} /\ imported' = imported \cup task.pending
      /\ catalogue' = catalogue \cup KeysOf(task.pending) /\ level' = task.levels /\ UNCHANGED job
      /\ task' = [task EXCEPT !.at = "record", !.succeeded = task.succeeded + task.applied]
      /\ task \in TaskRow
  BY DEF CommitChunk, ImportInv
<1>2. /\ Rows # {} /\ RowsCounted(task.succeeded, task.failed, task.next - 1)
      /\ imported \cup job.errors \subseteq 1..(task.next - 1)
      /\ task.bad \subseteq Rows /\ task.pending \subseteq Rows /\ task.bad \cap task.pending = {}
      /\ task.applied + Cardinality(task.bad) + Cardinality(task.todo) = Cardinality(Rows)
      /\ task.levels \in [Keys -> 0..MaxLevel] /\ job.status = "running"
  BY <1>1 DEF ImportInv, InChunk, Running
<1>3. /\ Rows \subseteq Nat \ {0} /\ \A n \in Rows : Row(n) \in CsvRow
      /\ Rows \cap 1..(task.next - 1) = {} /\ IsFiniteSet(task.bad) /\ IsFiniteSet(Rows)
  BY <1>2, RowsAreRows, FS_Subset
<1>4. /\ task' \in TaskRow /\ task'.at = "record" /\ task'.file = task.file /\ task'.next = task.next
      /\ task'.bad = task.bad /\ task'.failed = task.failed /\ task'.succeeded = task.succeeded + task.applied
      /\ task'.refused = task.refused
  <2>1. task.succeeded + task.applied \in Nat
    BY ImportFacts
  <2> QED BY <1>1, <2>1 DEF TaskRow
<1>5. Rows' = Rows
  BY <1>4 DEF Rows, ChunkAt
<1>6. ImportTypeOK' /\ TallyAddsUp'
  <2>1. KeysOf(task.pending) \subseteq Keys
    BY <1>2, <1>3 DEF KeysOf, CsvRow
  <2> QED BY <1>1, <1>2, <1>3, <1>4, <2>1 DEF ImportInv, ImportTypeOK, TallyAddsUp
<1>7. ReportedNotStored' /\ (imported \cup task.pending) \cap task.bad = {}
  BY <1>1, <1>2, <1>3 DEF ImportInv, ReportedNotStored
<1>8. RowsCounted(task.succeeded, task.failed + Cardinality(task.bad), task.next - 1 + Cardinality(Rows))'
  <2>1. Cardinality(task.todo) = 0 /\ Cardinality(task.bad) \in Nat /\ Cardinality(Rows) \in Nat
    BY <1>1, <1>3, FS_EmptySet, FS_CardinalityType
  <2>2. PICK s \in Nat, f \in Nat, n \in Nat, a \in Nat, b \in Nat, r \in Nat :
          /\ s = task.succeeded /\ f = task.failed /\ n = task.next /\ a = task.applied
          /\ b = Cardinality(task.bad) /\ r = Cardinality(Rows) /\ a + b + 0 = r
          /\ s <= n - 1 /\ n - 1 <= s + f /\ (~task.refused => s + f = n - 1)
    BY <1>2, <2>1, ImportFacts DEF RowsCounted
  <2>3. /\ s + a <= n - 1 + r /\ n - 1 + r <= (s + a) + (f + b)
        /\ ~task.refused => (s + a) + (f + b) = n - 1 + r
    BY <2>2
  <2> QED BY <1>4, <1>5, <2>2, <2>3 DEF RowsCounted
<1>9. ChunkDone'
  BY <1>1, <1>2, <1>4, <1>5, <1>7, <1>8 DEF ChunkDone
<1>10. Running' /\ BetweenChunks' /\ InChunk'
  BY <1>1, <1>2, <1>4 DEF Running, BetweenChunks, InChunk
<1> QED BY <1>4, <1>6, <1>7, <1>9, <1>10 DEF ImportInv

\* A refused commit stores nothing, and counts every row of the chunk at least once.
LEMMA RefuseKeeps ==
  ASSUME ImportInv, RefuseCommit
  PROVE  ImportInv'
<1> DEFINE valid == ValidIn(Rows)
<1>1. PICK first \in valid :
        /\ task.at = "row" /\ UNCHANGED <<job, catalogue, level, imported>> /\ task \in TaskRow
        /\ task' = [task EXCEPT !.at = "record", !.pending = {}, !.refused = TRUE, !.bad = task.bad \cup {first},
                      !.failed = task.failed + Cardinality(valid) + Cardinality(task.bad \cap {first})]
  BY DEF RefuseCommit, ImportInv, Rows
<1>2. /\ Rows # {} /\ RowsCounted(task.succeeded, task.failed, task.next - 1)
      /\ imported \cup job.errors \subseteq 1..(task.next - 1)
      /\ task.bad \subseteq Rows /\ Rows \ valid \subseteq task.bad /\ job.status = "running"
  BY <1>1 DEF ImportInv, InChunk, Running
<1>3. /\ Rows \subseteq Nat /\ IsFiniteSet(Rows) /\ Rows \cap 1..(task.next - 1) = {}
      /\ first \in Rows /\ valid \subseteq Rows /\ imported \cap Rows = {}
  BY <1>1, <1>2, RowsAreRows DEF ValidIn
<1> HIDE DEF valid
<1>4. IsFiniteSet(valid) /\ IsFiniteSet(task.bad \cup {first}) /\ IsFiniteSet(task.bad \cap {first})
  <2>1. task.bad \cup {first} \subseteq Rows /\ task.bad \cap {first} \subseteq Rows
    BY <1>2, <1>3
  <2> QED BY <1>3, <2>1, FS_Subset
<1>5. PICK s \in Nat, f \in Nat, n \in Nat, v \in Nat, b \in Nat, r \in Nat, d \in Nat :
        /\ s = task.succeeded /\ f = task.failed /\ n = task.next /\ v = Cardinality(valid)
        /\ b = Cardinality(task.bad \cup {first}) /\ r = Cardinality(Rows) /\ d = Cardinality(task.bad \cap {first})
        /\ s <= n - 1 /\ n - 1 <= s + f
  <2>1. /\ Cardinality(valid) \in Nat /\ Cardinality(task.bad \cup {first}) \in Nat
        /\ Cardinality(task.bad \cap {first}) \in Nat /\ Cardinality(Rows) \in Nat
    BY <1>3, <1>4, FS_CardinalityType
  <2> QED BY <1>2, <2>1, ImportFacts DEF RowsCounted
<1>6. r <= v + b
  <2>1. Rows \subseteq valid \cup (task.bad \cup {first})
    BY <1>2
  <2>2. /\ IsFiniteSet(valid \cup (task.bad \cup {first}))
        /\ Cardinality(valid \cup (task.bad \cup {first}))
              = v + b - Cardinality(valid \cap (task.bad \cup {first}))
    BY <1>4, <1>5, FS_Union
  <2>3. Cardinality(valid \cap (task.bad \cup {first})) \in Nat
    BY <1>4, FS_Intersection, FS_CardinalityType
  <2>4. r <= Cardinality(valid \cup (task.bad \cup {first}))
    BY <1>5, <2>1, <2>2, FS_Subset
  <2> QED BY <1>5, <2>2, <2>3, <2>4
<1>7. /\ task' \in TaskRow /\ task'.at = "record" /\ task'.file = task.file /\ task'.next = n
      /\ task'.bad = task.bad \cup {first} /\ task'.failed = f + v + d /\ task'.succeeded = s
      /\ task'.refused = TRUE
  <2>1. f + v + d \in Nat /\ task.bad \cup {first} \in SUBSET Nat
    BY <1>2, <1>3
  <2>2. task.failed + Cardinality(valid) + Cardinality(task.bad \cap {first}) = f + v + d
    BY <1>5
  <2> QED BY <1>1, <1>5, <2>1, <2>2 DEF TaskRow
<1>8. Rows' = Rows
  BY <1>5, <1>7 DEF Rows, ChunkAt
<1>9. ImportTypeOK' /\ TallyAddsUp' /\ ReportedNotStored'
  BY <1>1, <1>7 DEF ImportInv, ImportTypeOK, TallyAddsUp, ReportedNotStored
<1>10. RowsCounted(task.succeeded, task.failed + Cardinality(task.bad), task.next - 1 + Cardinality(Rows))'
  <2>1. s <= n - 1 + r /\ n - 1 + r <= s + ((f + v + d) + b)
    BY <1>5, <1>6
  <2>2. Cardinality(task'.bad) = b /\ Cardinality(Rows') = r
    BY <1>5, <1>7, <1>8
  <2> QED BY <1>7, <2>1, <2>2 DEF RowsCounted
<1>11. ChunkDone'
  BY <1>1, <1>2, <1>3, <1>5, <1>7, <1>8, <1>10 DEF ChunkDone
<1>12. Running' /\ BetweenChunks' /\ InChunk'
  BY <1>1, <1>2, <1>7 DEF Running, BetweenChunks, InChunk
<1> QED BY <1>7, <1>9, <1>11, <1>12 DEF ImportInv

\* The progress that is recorded counts every row up to the end of the chunk.
LEMMA RecordKeeps ==
  ASSUME ImportInv, RecordProgress
  PROVE  ImportInv'
<1> DEFINE last == Max(ChunkAt(task.next))
<1>1. /\ task.at = "record" /\ UNCHANGED <<catalogue, level, imported>> /\ task \in TaskRow /\ job \in ImportRow
      /\ task' = [task EXCEPT !.at = "chunk", !.next = last + 1, !.failed = Failed(task.bad), !.bad = {}]
  BY DEF RecordProgress, ImportInv, ImportTypeOK
<1>2. PICK some \in SUBSET task.bad :
        job' = [job EXCEPT !.processed = last, !.succeeded = task.succeeded,
                           !.failed = Failed(task.bad), !.errors = job.errors \cup some]
  BY DEF RecordProgress, Recorded
<1>3. /\ Rows # {} /\ task.bad \subseteq Rows
      /\ RowsCounted(task.succeeded, task.failed + Cardinality(task.bad), task.next - 1 + Cardinality(Rows))
      /\ job.errors \subseteq 1..(task.next - 1)
      /\ imported \subseteq 1..(task.next - 1) \cup Rows /\ imported \cap task.bad = {}
      /\ job.status = "running"
  BY <1>1 DEF ImportInv, ChunkDone, Running
<1>4. PICK e \in Nat : /\ Rows = task.next..e /\ task.next <= e /\ last = e /\ IsFiniteSet(Rows)
                       /\ Cardinality(Rows) = e - task.next + 1
  BY <1>3, ImportFacts, ChunkIs DEF Rows
<1> HIDE DEF last
<1>5. Cardinality(task.bad) \in Nat
  BY <1>3, <1>4, FS_Subset, FS_CardinalityType
<1>6. PICK s \in Nat, f \in Nat, n \in Nat \ {0}, b \in Nat :
        /\ s = task.succeeded /\ f = task.failed /\ n = task.next /\ b = Cardinality(task.bad)
        /\ n <= e /\ s <= e /\ e <= s + (f + b) /\ (~task.refused => e = s + (f + b))
  <2>1. PICK s \in Nat, f \in Nat, n \in Nat \ {0}, b \in Nat :
          s = task.succeeded /\ f = task.failed /\ n = task.next /\ b = Cardinality(task.bad)
    BY <1>5, ImportFacts
  <2>2. n - 1 + (e - n + 1) = e
    BY <2>1
  <2>3. n - 1 + Cardinality(Rows) = e
    BY <1>4, <2>1, <2>2
  <2>4. s <= e /\ e <= s + (f + b) /\ (~task.refused => s + (f + b) = e)
    BY <1>3, <2>1, <2>3 DEF RowsCounted
  <2> QED BY <1>4, <2>1, <2>4
<1>7. Failed(task.bad) = f + b /\ f + b \in Nat /\ e + 1 \in Nat \ {0}
  BY <1>6 DEF Failed
<1>8. /\ task' \in TaskRow /\ task'.at = "chunk" /\ task'.next = e + 1 /\ task'.bad = {}
      /\ task'.succeeded = s /\ task'.failed = f + b /\ task'.refused = task.refused
  BY <1>1, <1>4, <1>6, <1>7 DEF TaskRow
<1>9. job.errors \cup some \subseteq 1..e /\ imported \subseteq 1..e
  <2>1. 1..(n - 1) \subseteq 1..e /\ n..e \subseteq 1..e
    <3>1. n \in Nat \ {0} /\ e \in Nat /\ n <= e
      BY <1>4, <1>6
    <3>2. \A x \in 1..(n - 1) : x \in 1..e
      BY ONLY <3>1
    <3>3. \A x \in n..e : x \in 1..e
      BY ONLY <3>1
    <3> QED BY ONLY <3>2, <3>3
  <2> QED BY <1>3, <1>4, <1>6, <2>1
<1>10. /\ job' \in ImportRow /\ job'.processed = e /\ job'.succeeded = s /\ job'.failed = f + b
       /\ job'.errors = job.errors \cup some /\ job'.status = "running"
  <2>1. job.errors \cup some \in SUBSET Nat
    BY <1>9
  <2> QED BY <1>1, <1>2, <1>3, <1>4, <1>6, <1>7, <2>1 DEF ImportRow
<1>11. ImportTypeOK' /\ TallyAddsUp'
  BY <1>1, <1>6, <1>8, <1>10 DEF ImportInv, ImportTypeOK, TallyAddsUp
<1>12. ReportedNotStored'
  BY <1>1, <1>3, <1>10 DEF ImportInv, ReportedNotStored
<1>13. BetweenChunks'
  <2>1. (e + 1) - 1 = e
    OBVIOUS
  <2> QED BY <1>1, <1>6, <1>8, <1>9, <1>10, <2>1 DEF BetweenChunks, RowsCounted
<1>14. Running' /\ InChunk' /\ ChunkDone'
  BY <1>8, <1>10 DEF Running, InChunk, ChunkDone
<1> QED BY <1>8, <1>11, <1>12, <1>13, <1>14 DEF ImportInv

-----------------------------------------------------------------------------
(* The import *)

\* Before the upload nothing is counted.
LEMMA InitImportInv == ImportInit => ImportInv
<1> SUFFICES ASSUME ImportInit PROVE ImportInv
  OBVIOUS
<1>1. ImportTypeOK /\ TallyAddsUp /\ ReportedNotStored
  BY ImportAssumption DEF ImportInit, ImportTypeOK, ImportRow, Kinds, TallyAddsUp, ReportedNotStored
<1>2. task \in TaskRow /\ task.at = "idle" /\ task.succeeded = 0 /\ task.failed = 0 /\ task.next = 1 /\ task.bad = {}
      /\ task.refused = FALSE
  <2>1. <<>> \in Seq(CsvRow)
    OBVIOUS
  <2>2. <<>> \in {<<>>} \cup [Keys -> 0..MaxLevel]
    OBVIOUS
  <2> QED BY <2>1, <2>2 DEF ImportInit, NoTask, TaskRow
<1>3. Running /\ BetweenChunks /\ InChunk /\ ChunkDone
  BY <1>2 DEF ImportInit, Running, BetweenChunks, InChunk, ChunkDone, RowsCounted
<1> QED BY <1>1, <1>2, <1>3 DEF ImportInv

\* Every step keeps the invariant.
LEMMA StepImportInv == ImportInv /\ [ImportNext]_importVars => ImportInv'
<1> SUFFICES ASSUME ImportInv, [ImportNext]_importVars PROVE ImportInv'
  OBVIOUS
<1>1. CASE UNCHANGED importVars
  <2>1. UNCHANGED <<job, task, catalogue, level, imported>>
    BY <1>1 DEF importVars
  <2>2. Rows' = Rows /\ ValidIn(Rows)' = ValidIn(Rows)
    BY <2>1 DEF Rows, ChunkAt, ValidIn, Row
  <2> QED BY <2>1, <2>2 DEF ImportInv, ImportTypeOK, TallyAddsUp, ReportedNotStored, Running,
                            BetweenChunks, InChunk, ChunkDone, RowsCounted
<1> QED BY <1>1, CreateKeeps, StartKeeps, BeginKeeps, ApplyKeeps, CommitKeeps, RefuseKeeps, RecordKeeps,
           JobEnds, SomeoneKeeps DEF ImportNext

\* The rows of the import keep their shape, and a stock level its bounds,
\* whatever the mode and the value of a row.
THEOREM ImportTypeCorrect == ImportSpec => []ImportTypeOK
<1>1. ImportInv => ImportTypeOK
  BY DEF ImportInv
<1> QED BY <1>1, InitImportInv, StepImportInv, PTL DEF ImportSpec

\* What the admin polls always accounts for every row (_update_progress), and for
\* each once as long as no commit is refused, through rows that the database
\* refuses and a task that dies anywhere.
THEOREM TallyAlwaysAddsUp == ImportSpec => []TallyAddsUp
<1>1. ImportInv => TallyAddsUp
  BY DEF ImportInv
<1> QED BY <1>1, InitImportInv, StepImportInv, PTL DEF ImportSpec

\* A row reported as failed never left anything in the database.
THEOREM ReportedIsNeverStored == ImportSpec => []ReportedNotStored
<1>1. ImportInv => ReportedNotStored
  BY DEF ImportInv
<1> QED BY <1>1, InitImportInv, StepImportInv, PTL DEF ImportSpec

-----------------------------------------------------------------------------
(* What a finished import counts as succeeded *)

\* No row's failure rolls back the rows of its chunk that were applied before it.
NothingTakenBack ==
  task.at = "row" /\ task'.at = "row" => task.pending \subseteq task'.pending

\* The task's count is what is stored, and within a chunk what is pending.
StoredInv ==
  /\ task.at = "idle" => imported = {} /\ task.succeeded = 0 /\ job.succeeded = 0
  /\ task.at = "chunk" /\ ~job.dry_run =>
       task.succeeded = Cardinality(imported) /\ job.succeeded = task.succeeded
  /\ task.at = "row" => task.succeeded = Cardinality(imported) /\ task.applied = Cardinality(task.pending)
  /\ task.at = "record" /\ ~job.dry_run => task.succeeded = Cardinality(imported)
  /\ SucceededAreStored

\* Nothing is stored before the upload.
LEMMA InitStored == ImportInit => StoredInv
BY DEF ImportInit, NoTask, StoredInv, SucceededAreStored

\* A row that is applied is pending, one that is reported is not.
LEMMA RowStored ==
  ASSUME ImportInv, StoredInv, NEW n \in task.todo, ApplyRow(n), NothingTakenBack
  PROVE  StoredInv'
<1>1. task.at = "row" /\ RowDone(n) /\ UNCHANGED <<job, imported>>
  BY RowIsDone
<1>2. /\ task.pending \subseteq Rows /\ task.todo \cap task.pending = {} /\ job.status = "running"
      /\ task.succeeded = Cardinality(imported) /\ task.applied = Cardinality(task.pending)
  BY <1>1 DEF ImportInv, InChunk, Running, StoredInv
<1>3. IsFiniteSet(task.pending)
  BY <1>2, RowsAreRows, FS_Subset
<1>4. task'.applied = Cardinality(task'.pending)
  <2>1. CASE task'.pending = task.pending \cup {n} /\ task'.applied = task.applied + 1
    <3>1. n \notin task.pending
      BY <1>2
    <3> QED BY <1>2, <1>3, <2>1, <3>1, FS_AddElement
  <2>2. CASE task'.pending \subseteq task.pending /\ task'.applied = task.applied
    <3>1. task'.pending = task.pending
      BY <1>1, <2>2 DEF RowDone, NothingTakenBack
    <3> QED BY <1>2, <2>2, <3>1
  <2> QED BY <1>1, <2>1, <2>2 DEF RowDone
<1> QED BY <1>1, <1>2, <1>4 DEF RowDone, StoredInv, SucceededAreStored

\* The commit stores as many rows as the chunk has applied.
LEMMA CommitStored ==
  ASSUME ImportInv, StoredInv, CommitChunk
  PROVE  StoredInv'
<1>1. /\ task.at = "row" /\ imported' = imported \cup task.pending /\ job' = job
      /\ task' = [task EXCEPT !.at = "record", !.succeeded = task.succeeded + task.applied]
      /\ task \in TaskRow
  BY DEF CommitChunk, ImportInv
<1>2. /\ imported \subseteq 1..(task.next - 1) /\ task.pending \subseteq Rows /\ job.status = "running"
      /\ task.succeeded = Cardinality(imported) /\ task.applied = Cardinality(task.pending)
  BY <1>1 DEF ImportInv, InChunk, Running, StoredInv
<1>3. IsFiniteSet(imported) /\ IsFiniteSet(task.pending) /\ imported \cap task.pending = {}
  <2>1. PICK n \in Nat \ {0} : n = task.next
    BY ImportFacts
  <2>2. n - 1 \in Int /\ 1 \in Int
    OBVIOUS
  <2>3. IsFiniteSet(1..(n - 1))
    BY <2>2, FS_Interval
  <2>4. IsFiniteSet(imported)
    BY <1>2, <2>1, <2>3, FS_Subset
  <2>5. IsFiniteSet(task.pending)
    BY <1>2, RowsAreRows, FS_Subset
  <2>6. imported \cap task.pending = {}
    BY <1>2, RowsAreRows
  <2> QED BY <2>4, <2>5, <2>6
<1>4. Cardinality(imported') = task.succeeded + task.applied
  <2>1. Cardinality(imported \cap task.pending) = 0
    BY <1>3, FS_EmptySet
  <2>2. Cardinality(imported \cup task.pending) = Cardinality(imported) + Cardinality(task.pending) - 0
    BY <1>3, <2>1, FS_Union
  <2> QED BY <1>1, <1>2, <2>2, ImportFacts
<1>5. task'.at = "record" /\ task'.succeeded = task.succeeded + task.applied
  BY <1>1 DEF TaskRow
<1> QED BY <1>1, <1>2, <1>4, <1>5 DEF StoredInv, SucceededAreStored

\* The other steps store nothing; those that copy the count copy what is stored.
LEMMA OthersStored ==
  ASSUME ImportInv, StoredInv,
         \/ \E kind \in Kinds, file \in Files, dry \in BOOLEAN : CreateJob(kind, file, dry)
         \/ StartJob \/ BeginChunk \/ RefuseCommit \/ RecordProgress \/ FinishJob \/ NoHeader
         \/ (\E n \in task.todo : FailFlush(n)) \/ LoseTask \/ \E k \in Keys : SomeoneAdds(k)
  PROVE  StoredInv'
<1>0. task \in TaskRow /\ job \in ImportRow /\ imported' = imported /\ Running
  BY DEF ImportInv, ImportTypeOK, CreateJob, StartJob, BeginChunk, RefuseCommit, RecordProgress,
         FinishJob, NoHeader, FailFlush, LoseTask, SomeoneAdds
<1>1. ASSUME NEW kind \in Kinds, NEW file \in Files, NEW dry \in BOOLEAN, CreateJob(kind, file, dry)
      PROVE  StoredInv'
  <2>1. task.at \in {"idle", "gone"}
    BY <1>0, <1>1, ImportFacts DEF CreateJob, Running
  <2>2. /\ task'.at = task.at /\ task'.succeeded = task.succeeded
        /\ job'.succeeded = job.succeeded /\ job'.status = "queued"
    BY <1>0, <1>1 DEF CreateJob, TaskRow, ImportRow
  <2> QED BY <1>0, <2>1, <2>2 DEF StoredInv, SucceededAreStored
<1>2. CASE StartJob
  <2>1. /\ task.at = "idle" /\ task'.at = "chunk" /\ task'.succeeded = task.succeeded
        /\ job'.succeeded = job.succeeded /\ job'.status = "running"
    BY <1>0, <1>2 DEF StartJob, TaskRow, ImportRow
  <2> QED BY <1>0, <2>1, FS_EmptySet DEF StoredInv, SucceededAreStored
<1>3. CASE BeginChunk
  <2>1. /\ task.at = "chunk" /\ job' = job /\ task'.at \in {"row", "record"} /\ (task'.at = "row" => ~job.dry_run)
        /\ task'.pending = {} /\ task'.applied = 0 /\ (~job.dry_run => task'.succeeded = task.succeeded)
    BY <1>0, <1>3 DEF BeginChunk, TaskRow
  <2> QED BY <1>0, <2>1, FS_EmptySet DEF StoredInv, SucceededAreStored, Running
<1>4. CASE RecordProgress
  <2> DEFINE last == Max(ChunkAt(task.next))
  <2>1. /\ task.at = "record"
        /\ task' = [task EXCEPT !.at = "chunk", !.next = last + 1, !.failed = Failed(task.bad), !.bad = {}]
    BY <1>4 DEF RecordProgress
  <2>2. PICK some \in SUBSET task.bad :
          job' = [job EXCEPT !.processed = last, !.succeeded = task.succeeded,
                             !.failed = Failed(task.bad), !.errors = job.errors \cup some]
    BY <1>4 DEF RecordProgress, Recorded
  <2> HIDE DEF last
  <2>3. /\ task'.at = "chunk" /\ task'.succeeded = task.succeeded
        /\ job'.succeeded = task.succeeded /\ job'.dry_run = job.dry_run /\ job'.status = job.status
    BY <1>0, <2>1, <2>2 DEF TaskRow, ImportRow
  <2> QED BY <1>0, <2>1, <2>3 DEF StoredInv, SucceededAreStored, Running
<1>5. CASE FinishJob
  <2>1. /\ task.at = "chunk" /\ task'.at = "gone" /\ job'.succeeded = job.succeeded /\ job'.dry_run = job.dry_run
    BY <1>0, <1>5 DEF FinishJob, TaskRow, ImportRow
  <2> QED BY <1>0, <2>1 DEF StoredInv, SucceededAreStored
<1>6. CASE NoHeader
  <2>1. task'.at = "gone" /\ job'.status = "failed"
    BY <1>0, <1>6 DEF NoHeader, TaskRow, ImportRow
  <2> QED BY <2>1 DEF StoredInv, SucceededAreStored
<1>7. CASE (\E n \in task.todo : FailFlush(n)) \/ LoseTask
  <2>1. task'.at = "gone" /\ job' = job
    BY <1>0, <1>7 DEF FailFlush, LoseTask, TaskRow
  <2> QED BY <1>0, <2>1 DEF StoredInv, SucceededAreStored
<1>8. CASE \E k \in Keys : SomeoneAdds(k)
  <2>1. task' = task /\ job' = job
    BY <1>8 DEF SomeoneAdds
  <2> QED BY <1>0, <2>1 DEF StoredInv, SucceededAreStored
<1>9. CASE RefuseCommit
  <2>1. task.at = "row" /\ task'.at = "record" /\ task'.succeeded = task.succeeded /\ job' = job
    BY <1>0, <1>9 DEF RefuseCommit, TaskRow
  <2> QED BY <1>0, <2>1 DEF StoredInv, SucceededAreStored
<1> QED BY <1>1, <1>2, <1>3, <1>4, <1>5, <1>6, <1>7, <1>8, <1>9

\* Every step in which nothing is taken back keeps the count.
LEMMA StepStored ==
  ASSUME ImportInv, StoredInv, [ImportNext]_importVars, [NothingTakenBack]_importVars
  PROVE  StoredInv'
<1>1. CASE UNCHANGED importVars
  BY <1>1 DEF importVars, StoredInv, SucceededAreStored
<1>2. CASE ~UNCHANGED importVars
  BY <1>2, RowStored, CommitStored, OthersStored DEF ImportNext
<1> QED BY <1>1, <1>2

\* "failed rows are not counted as succeeded" (commit_stream_products and its
\* like): a finished import has stored exactly what it counts, whatever died, was
\* refused or was added by others, as long as no row's failure takes back rows of
\* its chunk that had been applied.
THEOREM StoredUnlessTakenBack == ImportSpec /\ [][NothingTakenBack]_importVars => []SucceededAreStored
<1>1. ImportInit => ImportInv /\ StoredInv
  BY InitImportInv, InitStored
<1>2. ImportInv /\ StoredInv /\ [ImportNext]_importVars /\ [NothingTakenBack]_importVars
        => (ImportInv /\ StoredInv)'
  BY StepImportInv, StepStored
<1>3. StoredInv => SucceededAreStored
  BY DEF StoredInv
<1> QED BY <1>1, <1>2, <1>3, PTL DEF ImportSpec
=============================================================================
