SPECIFICATION FairSpec
CONSTANTS
  MaxNodes = 9
  MaxCompilations = 2
  MaxStack = 20
INVARIANTS TypeOK ListReachesAll FreedOnce NothingLeaks
PROPERTY FreeReturns
CHECK_DEADLOCK FALSE
