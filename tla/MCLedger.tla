------------------------------ MODULE MCLedger ------------------------------
EXTENDS Ledger, TLC
CONSTANTS d1, d2, d3, w1, w2, k1
NoKeys == [d \in Docs |-> NoKey]
OneKey == [d \in Docs |-> k1]
SamePrints == [d \in Docs |-> 1]
TwoPrints == [d \in Docs |-> IF d = d3 THEN 2 ELSE 1]
SameRequests == Permutations({d1, d2})
(* Workers have no names in the code. *)
SameWorkers == Permutations(Workers)
=============================================================================
