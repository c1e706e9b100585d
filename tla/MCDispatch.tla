----------------------------- MODULE MCDispatch -----------------------------
EXTENDS Dispatch
CONSTANTS d1, w1, w2, x1, x2
NoKeys == [d \in Docs |-> NoKey]
SamePrints == [d \in Docs |-> 1]
=============================================================================
