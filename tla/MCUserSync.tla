----------------------------- MODULE MCUserSync -----------------------------
(* Instances of UserSync for TLC. *)
EXTENDS UserSync, TLC

MCSymmetry == Permutations(Accounts) \cup Permutations(Emails)
=============================================================================
