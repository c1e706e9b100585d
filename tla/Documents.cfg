SPECIFICATION ISpec
CONSTANTS
  Kinds <- Both
  MaxBytes = 3
  MaxPages = 3
  MaxChars = 7
  Chunk = 2
  Sizes <- FewSizes
  Leaves <- FewLeaves
  Lengths <- FewLengths
  Padding <- FewPadding
  Slack = 2
  FieldLimit = 2
  Overhead = 1
  FieldSizes <- FewFields
INVARIANTS ITypeOK StartsAsAssumed AnswerTrue ResultComplete Capped RetriedAsDue RefusedNearLimit
CHECK_DEADLOCK FALSE
