------------------------------ MODULE ImportJob ------------------------------
(***************************************************************************)
(* A bulk import.  The upload stores a queued job and starts a background  *)
(* task; the task reads the CSV in chunks, validates each row, applies the *)
(* valid ones row by row, commits the chunk and records the progress.  A   *)
(* row the database refuses rolls the session back, which takes the rows   *)
(* of the chunk applied before it.  Other admins add the same keys         *)
(* meanwhile; the commit of a chunk may be refused as a whole; the process *)
(* may die and the task with it.                                           *)
(*                                                                         *)
(* A row is what decides its fate: whether its schema accepts it, whether  *)
(* its columns are wide enough for it, its key (slug or SKU) and, for the  *)
(* stock, the mode and the value.                                          *)
(***************************************************************************)
EXTENDS Integers, Sequences, FiniteSets, FiniteSetsExt

CONSTANTS
  Keys,       \* slugs of products, SKUs of variants
  Files,      \* the CSVs an admin uploads
  ChunkSize,  \* DEFAULT_CHUNK_SIZE
  MaxErrors,  \* MAX_RECORDED_ERRORS
  MaxLevel,   \* bound on a stock level
  Held        \* inventory.reserved of every variant

CsvRow ==
  [valid : BOOLEAN, fits : BOOLEAN, key : Keys,
   mode : {"set", "increment", "decrement"}, value : 0..MaxLevel]

ASSUME ImportAssumption ==
  /\ Files \subseteq Seq(CsvRow) /\ ChunkSize \in Nat \ {0} /\ MaxErrors \in Nat
  /\ MaxLevel \in Nat /\ Held \in 0..MaxLevel

Kinds == {"product", "variant", "inventory"}

VARIABLES
  job,        \* the row of import_jobs
  task,       \* the background task
  catalogue,  \* slugs or SKUs that are in the database
  level,      \* inventory.stock by SKU
  imported    \* rows of the file whose effect was committed

importVars == <<job, task, catalogue, level, imported>>

ImportRow ==
  [status : {"none", "queued", "running", "completed", "failed"}, kind : Kinds,
   dry_run : BOOLEAN, processed : Nat, succeeded : Nat, failed : Nat, errors : SUBSET Nat]

\* at: "idle", "chunk" (between chunks), "row", "record" or "gone"; next is the
\* first row of the chunk to come, todo the valid rows of the current one; refused
\* is history: the commit of a chunk was refused.
NoTask ==
  [at |-> "idle", file |-> <<>>, next |-> 1, todo |-> {}, seen |-> {}, existing |-> {},
   pending |-> {}, levels |-> <<>>, applied |-> 0, bad |-> {}, succeeded |-> 0, failed |-> 0,
   refused |-> FALSE]

ImportInit ==
  /\ job = [status |-> "none", kind |-> "product", dry_run |-> FALSE,
            processed |-> 0, succeeded |-> 0, failed |-> 0, errors |-> {}]
  /\ task = NoTask
  /\ catalogue \in {{}, Keys}
  /\ level = [k \in Keys |-> Held]
  /\ imported = {}

-----------------------------------------------------------------------------
(* The job starts *)

\* The upload's request: the job is committed before the task is scheduled.
CreateJob(kind, file, dry) ==
  /\ job.status = "none" /\ file # <<>>
  /\ job' = [job EXCEPT !.status = "queued", !.kind = kind, !.dry_run = dry]
  /\ task' = [task EXCEPT !.file = file]
  /\ UNCHANGED <<catalogue, level, imported>>

StartJob ==
  /\ job.status = "queued" /\ task.at = "idle"
  /\ job' = [job EXCEPT !.status = "running"]
  /\ task' = [task EXCEPT !.at = "chunk"]
  /\ UNCHANGED <<catalogue, level, imported>>

-----------------------------------------------------------------------------
(* One chunk *)

\* _chunked_rows: the rows of the chunk that starts at n.
ChunkAt(n) == n..Min({n + ChunkSize - 1, Len(task.file)})

Row(n) == task.file[n]

KeysOf(rows) == {Row(n).key : n \in rows}

\* The rows the schema accepts.
ValidIn(rows) == {n \in rows : Row(n).valid}

BeginChunk ==
  LET rows == ChunkAt(task.next)
      valid == ValidIn(rows)
  IN
  /\ task.at = "chunk" /\ rows # {}
  /\ task' = [task EXCEPT
       !.at = IF valid = {} \/ job.dry_run THEN "record" ELSE "row",
       !.todo = valid, !.seen = {}, !.pending = {}, !.applied = 0, !.levels = level,
       !.existing = catalogue \cap KeysOf(valid),
       !.bad = rows \ valid,
       !.succeeded = IF job.dry_run THEN @ + Cardinality(valid) ELSE @]
  /\ UNCHANGED <<job, catalogue, level, imported>>

\* What the checks made before a row is applied refuse.  A product is looked
\* up when the chunk begins, a variant is not (a variant whose product is
\* unknown is refused as a repeated one is, and left out).
Refused(n) ==
  \/ job.kind # "inventory" /\ Row(n).key \in task.seen
  \/ job.kind = "product" /\ Row(n).key \in task.existing

\* The row is in the way of one that is there.
Collides(n) == Row(n).key \in catalogue \cup KeysOf(task.pending)

Left(n) == [task EXCEPT !.todo = @ \ {n}, !.seen = @ \cup {Row(n).key}]

\* Mutant: a row is reported and applied all the same.
ReportedAndApplied(n) == [Left(n) EXCEPT !.bad = @ \cup {n}, !.pending = @ \cup {n}]

Reported(n) == [Left(n) EXCEPT !.bad = @ \cup {n}]

\* Products and variants: the insert, or what refuses it.
InsertRow(n) ==
  /\ job.kind # "inventory"
  /\ task' = IF Refused(n) THEN Reported(n)
             ELSE IF Collides(n) THEN [Reported(n) EXCEPT !.pending = {}]
             ELSE [Left(n) EXCEPT !.pending = @ \cup {n}, !.applied = @ + 1]

\* _compute_target
Target(mode, value, stock) ==
  CASE mode = "set" -> value
    [] mode = "increment" -> stock + value
    [] mode = "decrement" -> stock - value

\* The stock: unknown SKUs, and targets below zero or the reserved units, are
\* refused.
AdjustRow(n) ==
  LET k == Row(n).key
      target == Target(Row(n).mode, Row(n).value, task.levels[k])
  IN
  /\ job.kind = "inventory" /\ target <= MaxLevel
  /\ task' = IF k \notin task.existing \/ target < Held THEN Reported(n)
             ELSE [Left(n) EXCEPT !.pending = @ \cup {n}, !.applied = @ + 1, !.levels[k] = target]

\* The rows of a chunk in their order.
ApplyRow(n) ==
  /\ task.at = "row" /\ n \in task.todo /\ \A m \in task.todo : n <= m
  /\ Row(n).fits
  /\ InsertRow(n) \/ AdjustRow(n)
  /\ UNCHANGED <<job, catalogue, level, imported>>

CommitChunk ==
  /\ task.at = "row" /\ task.todo = {}
  /\ imported' = imported \cup task.pending
  /\ catalogue' = catalogue \cup KeysOf(task.pending)
  /\ level' = task.levels
  /\ task' = [task EXCEPT !.at = "record", !.succeeded = @ + task.applied]
  /\ UNCHANGED job

\* The database refuses the commit: the chunk is rolled back and its valid rows
\* count as failed; so does, once more, each error of the chunk, with one for the
\* chunk that goes by its first valid row.  (That row may have an error already;
\* the two take one place among those kept.)
RefuseCommit ==
  LET valid == ValidIn(ChunkAt(task.next)) IN
  /\ task.at = "row" /\ task.todo = {} /\ task.pending # {}
  /\ \E first \in valid :
       /\ \A n \in valid : first <= n
       /\ task' = [task EXCEPT !.at = "record", !.pending = {}, !.refused = TRUE, !.bad = @ \cup {first},
                    !.failed = @ + Cardinality(valid) + Cardinality(task.bad \cap {first})]
  /\ UNCHANGED <<job, catalogue, level, imported>>

\* The errors kept: as many as there is room for.
Recorded(errors, bad) ==
  {errors \cup kept : kept \in {some \in SUBSET bad :
     Cardinality(some) = Min({Cardinality(bad), MaxErrors - Cardinality(errors)})}}

\* Mutant: the rows the checks refused are not among the failed.
FailedWith(bad) == task.failed + Cardinality({n \in bad : ~Row(n).valid})

Failed(bad) == task.failed + Cardinality(bad)

\* _update_progress, in a transaction of its own.
RecordProgress ==
  LET last == Max(ChunkAt(task.next)) IN
  /\ task.at = "record"
  /\ \E errors \in Recorded(job.errors, task.bad) :
       job' = [job EXCEPT !.processed = last, !.succeeded = task.succeeded,
                          !.failed = Failed(task.bad), !.errors = errors]
  /\ task' = [task EXCEPT !.at = "chunk", !.next = last + 1, !.failed = Failed(task.bad), !.bad = {}]
  /\ UNCHANGED <<catalogue, level, imported>>

FinishJob ==
  /\ task.at = "chunk" /\ ChunkAt(task.next) = {}
  /\ job' = [job EXCEPT !.status = "completed"]
  /\ task' = [task EXCEPT !.at = "gone"]
  /\ UNCHANGED <<catalogue, level, imported>>

-----------------------------------------------------------------------------
(* What goes wrong *)

\* The CSV has no header: the job fails before its first chunk.
NoHeader ==
  /\ task.at = "chunk" /\ task.next = 1
  /\ job' = [job EXCEPT !.status = "failed"]
  /\ task' = [task EXCEPT !.at = "gone"]
  /\ UNCHANGED <<catalogue, level, imported>>

\* A value its column cannot hold: the flush fails with another error than the
\* one the row handler expects, the session refuses everything until it is
\* rolled back, so marking the job failed fails as well and the task ends.
FailFlush(n) ==
  /\ task.at = "row" /\ n \in task.todo /\ \A m \in task.todo : n <= m
  /\ ~Row(n).fits
  /\ task' = [task EXCEPT !.at = "gone", !.pending = {}]
  /\ UNCHANGED <<job, catalogue, level, imported>>

\* The process dies or is replaced: nothing takes the job up again.
LoseTask ==
  /\ job.status \in {"queued", "running"} /\ task.at # "gone"
  /\ task' = [task EXCEPT !.at = "gone", !.pending = {}]
  /\ UNCHANGED <<job, catalogue, level, imported>>

\* Somebody else adds the key; an insert waits for the task's uncommitted one.
SomeoneAdds(k) ==
  /\ k \notin catalogue \cup KeysOf(task.pending)
  /\ catalogue' = catalogue \cup {k}
  /\ UNCHANGED <<job, task, level, imported>>

ImportNext ==
  \/ \E kind \in Kinds, file \in Files, dry \in BOOLEAN : CreateJob(kind, file, dry)
  \/ StartJob
  \/ BeginChunk
  \/ \E n \in task.todo : ApplyRow(n)
  \/ CommitChunk
  \/ RefuseCommit
  \/ RecordProgress
  \/ FinishJob
  \/ NoHeader
  \/ \E n \in task.todo : FailFlush(n)
  \/ LoseTask
  \/ \E k \in Keys : SomeoneAdds(k)

ImportSpec == ImportInit /\ [][ImportNext]_importVars

-----------------------------------------------------------------------------
(* What must hold *)

ImportTypeOK ==
  /\ job \in ImportRow
  /\ catalogue \subseteq Keys
  /\ level \in [Keys -> 0..MaxLevel]
  /\ imported \subseteq Nat

\* What the admin polls adds up at every moment: each row read was counted, as a
\* success or as a failure, and once only as long as no commit was refused.
TallyAddsUp ==
  /\ job.succeeded <= job.processed
  /\ job.processed <= job.succeeded + job.failed
  /\ ~task.refused => job.processed = job.succeeded + job.failed

\* A row reported as failed left nothing in the database: the admin corrects
\* these rows and uploads them again.
ReportedNotStored == job.errors \cap imported = {}

\* The rows a finished job counts as succeeded are in the database.
SucceededAreStored ==
  job.status = "completed" /\ ~job.dry_run => job.succeeded = Cardinality(imported)
=============================================================================
