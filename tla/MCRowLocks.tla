----------------------------- MODULE MCRowLocks -----------------------------
(* Instances of RowLocks for TLC. *)
EXTENDS RowLocks, TLC

CONSTANTS d1, d2, u1, u2

TwoOwners == d1 :> u1 @@ d2 :> u2

Interchangeable == Permutations(Sessions)
=============================================================================
