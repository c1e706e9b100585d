---------------------------- MODULE MCExtraction ----------------------------
(* The instance of Extraction, PDFs only, for TLC. *)
EXTENDS Extraction

FewSizes   == 0..4
FewLeaves  == 0..4
FewLengths == 0..8
NoPadding  == {0}
Pdf        == {"pdf"}
=============================================================================
