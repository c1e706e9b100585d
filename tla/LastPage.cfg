SPECIFICATION Spec
CONSTANTS
  Kinds <- Pdf
  MaxBytes = 3
  MaxPages = 3
  MaxChars = 7
  Chunk = 2
  Sizes <- FewSizes
  Leaves <- FewLeaves
  Lengths <- FewLengths
  Padding <- NoPadding
INVARIANT TextLimitTrue
CHECK_DEADLOCK FALSE
