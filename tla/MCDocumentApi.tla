---------------------------- MODULE MCDocumentApi ----------------------------
(* Instances of DocumentApi for TLC. *)
EXTENDS DocumentApi, TLC

Interchangeable == Permutations(Calls) \cup Permutations(Values)
=============================================================================
