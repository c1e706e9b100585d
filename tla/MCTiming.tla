------------------------------ MODULE MCTiming ------------------------------
(* Instances of Timing for TLC. *)
EXTENDS Timing, TLC

Interchangeable == Permutations(Procs)
=============================================================================
