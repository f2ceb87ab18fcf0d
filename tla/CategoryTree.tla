---------------------------- MODULE CategoryTree ----------------------------
(***************************************************************************)
(* The category hierarchy and its pictures.  An admin creates, moves,      *)
(* edits and archives categories; a PATCH validates against rows it read   *)
(* without a lock and writes when it commits, only the columns that differ *)
(* from what it read.  It destroys a replaced picture at Cloudinary before *)
(* it commits.                                                             *)
(*                                                                         *)
(* A category is never deleted, only archived.  A picture is named by its  *)
(* asset: the url of an asset and its public id are the same value here.   *)
(* The order of the menu, a number nothing reads back, is left out.        *)
(***************************************************************************)
EXTENDS Integers, FiniteSets

CONSTANTS
  Cats,       \* categories.id, created as they are needed
  Assets,     \* Cloudinary public ids, uploaded before
  Bodies,     \* the PATCH bodies an admin sends
  Admins,     \* PATCH requests that may be in flight at the same time
  MaxDepth,   \* MAX_DEPTH
  None,       \* NULL
  Unset       \* a field a PATCH body does not carry

Body ==
  [parent : Cats \cup {None, Unset}, url : Assets \cup {None, Unset},
   pid : Assets \cup {None, Unset}]

ASSUME CategoryAssumption ==
  /\ None \notin Cats \cup Assets /\ Unset \notin Cats \cup Assets \cup {None}
  /\ Bodies \subseteq Body /\ MaxDepth \in Nat

VARIABLES
  category,   \* rows of categories
  assets,     \* the assets Cloudinary still has
  patch,      \* what a PATCH has read and not yet written
  overlap     \* auxiliary: two PATCHes were in flight at the same time

categoryVars == <<category, assets, patch, overlap>>

CategoryRow ==
  [status : {"none", "active", "archived"}, parent : Cats \cup {None},
   url : Assets \cup {None}, pid : Assets \cup {None}]

PatchState == [busy : BOOLEAN, id : Cats, body : Body, read : CategoryRow]

NoPatch == [busy |-> FALSE]

NoCategory == [status |-> "none", parent |-> None, url |-> None, pid |-> None]

CategoryInit ==
  /\ category = [c \in Cats |-> NoCategory]
  /\ assets = Assets
  /\ patch = [a \in Admins |-> NoPatch]
  /\ overlap = FALSE

-----------------------------------------------------------------------------
(* The hierarchy *)

Exists(c) == category[c].status # "none"

Parent(c) == category[c].parent

\* Closed under "is a child of".
ClosedDown(S) == \A c \in Cats : Parent(c) \in S => c \in S

\* descendant_ids: everything below c, found level by level.
Descendants(c) ==
  {d \in Cats \ {c} : \A S \in SUBSET Cats : c \in S /\ ClosedDown(S) => d \in S}

\* get_depth: the walk from a category to its root, or round a cycle once.
Depth(c) ==
  LET up[n \in 0..Cardinality(Cats)] ==
        IF n = 0 THEN c ELSE IF up[n - 1] = None THEN None ELSE Parent(up[n - 1])
      walk == {up[n] : n \in 0..Cardinality(Cats)}
  IN Cardinality(walk) - (IF None \in walk THEN 2 ELSE 0)

\* Mutant: only the category itself is refused.
NotItself(p, c) == p # c /\ Exists(p) /\ Depth(p) + 1 < MaxDepth

\* _validate_parent of a category that moves.
ValidParent(p, c) ==
  /\ p # c /\ Exists(p)
  /\ p \notin Descendants(c)
  /\ Depth(p) + 1 < MaxDepth

-----------------------------------------------------------------------------
(* Requests *)

\* POST: a new row under no parent or a valid one, with both parts of the
\* picture or neither.
CreateCategory(c, parent, image) ==
  /\ ~Exists(c)
  /\ parent # None => Exists(parent) /\ Depth(parent) + 1 < MaxDepth
  /\ category' = [category EXCEPT ![c] =
       [status |-> "active", parent |-> parent, url |-> image, pid |-> image]]
  /\ UNCHANGED <<assets, patch, overlap>>

\* The value a column has after the body was applied to the row.
New(body, field, row) == IF body[field] = Unset THEN row[field] ELSE body[field]

\* Mutant: the picture's parts are set one without the other.
AnyPair(body, row) == TRUE

\* The picture the row would have is whole.
WholePair(body, row) ==
  \/ body.url = Unset /\ body.pid = Unset
  \/ New(body, "url", row) = None <=> New(body, "pid", row) = None

\* PATCH, up to its writes: the row is read and the body validated against it.
BeginPatch(a, c, body) ==
  /\ patch[a] = NoPatch /\ Exists(c)
  /\ body.parent \in Cats => ValidParent(body.parent, c)
  /\ WholePair(body, category[c])
  /\ patch' = [patch EXCEPT ![a] = [busy |-> TRUE, id |-> c, body |-> body, read |-> category[c]]]
  /\ overlap' = (overlap \/ \E b \in Admins : patch[b] # NoPatch)
  /\ UNCHANGED <<category, assets>>

\* The asset a PATCH destroys: the one read, unless the body names it again.
Replaced(body, read) ==
  IF body.url = Unset /\ body.pid = Unset THEN {} ELSE {read.pid} \ {body.pid, None}

\* A column is written only where it differs from what was read.
Written(row, field, body, read) ==
  IF New(body, field, read) = read[field] THEN row[field] ELSE New(body, field, read)

Patched(row, body, read) ==
  [row EXCEPT !.parent = Written(row, "parent", body, read),
              !.url = Written(row, "url", body, read),
              !.pid = Written(row, "pid", body, read)]

\* The writes, the best-effort destroy, the commit.
CommitPatch(a) ==
  /\ patch[a] # NoPatch
  /\ category' = [category EXCEPT ![patch[a].id] = Patched(@, patch[a].body, patch[a].read)]
  /\ \E gone \in SUBSET Replaced(patch[a].body, patch[a].read) : assets' = assets \ gone
  /\ patch' = [patch EXCEPT ![a] = NoPatch]
  /\ UNCHANGED overlap

\* The process dies, or the commit fails, after the destroy.
LosePatch(a) ==
  /\ patch[a] # NoPatch
  /\ \E gone \in SUBSET Replaced(patch[a].body, patch[a].read) : assets' = assets \ gone
  /\ patch' = [patch EXCEPT ![a] = NoPatch]
  /\ UNCHANGED <<category, overlap>>

SetStatus(c, from, to) ==
  /\ category[c].status = from
  /\ category' = [category EXCEPT ![c].status = to]
  /\ UNCHANGED <<assets, patch, overlap>>

Archive(c) == SetStatus(c, "active", "archived")
Unarchive(c) == SetStatus(c, "archived", "active")

CategoryNext ==
  \/ \E c \in Cats, parent \in Cats \cup {None}, image \in Assets \cup {None} :
       CreateCategory(c, parent, image)
  \/ \E a \in Admins, c \in Cats, body \in Bodies : BeginPatch(a, c, body)
  \/ \E a \in Admins : CommitPatch(a)
  \/ \E a \in Admins : LosePatch(a)
  \/ \E c \in Cats : Archive(c)
  \/ \E c \in Cats : Unarchive(c)

CategorySpec == CategoryInit /\ [][CategoryNext]_categoryVars

-----------------------------------------------------------------------------
(* What must hold *)

CategoryTypeOK ==
  /\ category \in [Cats -> CategoryRow]
  /\ assets \in SUBSET Assets
  /\ patch \in [Admins -> PatchState \cup {NoPatch}]
  /\ overlap \in BOOLEAN

Acyclic == \A S \in SUBSET Cats : (\A c \in S : Parent(c) \in S) => S = {}

\* "Cycle prevention": no categories are each other's ancestors, whatever is
\* created, moved and archived while a PATCH is in flight; as long as no two
\* PATCHes are, for each is tested on a tree without the other's move.
NoCycle == ~overlap => Acyclic

\* "Both or neither": under the same proviso, an url without its asset or the
\* other way round is never stored, although only what differs is written.
PictureIsWhole ==
  ~overlap => \A c \in Cats : category[c].url = None <=> category[c].pid = None
=============================================================================
