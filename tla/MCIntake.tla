------------------------------ MODULE MCIntake ------------------------------
(* An instance of Intake for TLC. *)
EXTENDS Intake

FewSizes   == 0..4
FewLeaves  == 0..4
FewLengths == 0..8
FewPadding == {0, 3}
FewFields  == {0, 2, 3}
Both       == {"pdf", "image"}
=============================================================================
