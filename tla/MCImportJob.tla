----------------------------- MODULE MCImportJob -----------------------------
(* Instances of ImportJob for TLC. *)
EXTENDS ImportJob

CsvOf(valid, fits, key, mode, value) ==
  [valid |-> valid, fits |-> fits, key |-> key, mode |-> mode, value |-> value]

\* A good row of each key, a row of each kind that goes wrong, and, for the
\* stock, one that cannot be taken away and one that is added.
MCRows ==
  LET key == CHOOSE k \in Keys : TRUE IN
  {CsvOf(TRUE, TRUE, k, "set", 1) : k \in Keys}
    \cup {CsvOf(FALSE, TRUE, key, "set", 1), CsvOf(TRUE, FALSE, key, "decrement", 2),
          CsvOf(TRUE, TRUE, key, "increment", 1), CsvOf(TRUE, TRUE, key, "decrement", 1)}

\* The CSVs of up to three rows, two chunks.
MCFiles == UNION {[1..n -> MCRows] : n \in 0..3}

\* Fewer: the third row is a good one.
MCFewFiles ==
  {file \in MCFiles : Len(file) = 3 => file[3].mode = "set" /\ file[3].valid}
=============================================================================
