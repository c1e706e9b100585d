SPECIFICATION LSpec
CONSTANTS
  N = 3
  Limit = 1
  Rounds = 3
  PageSize = 1
  Lists <- AllLists
  Stuck <- One
INVARIANTS LTypeOK TakenInTurn MissedBounded RepeatsBounded LinkHolds
VIEW Seen
CHECK_DEADLOCK FALSE
