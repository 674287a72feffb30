SPECIFICATION Spec
CONSTANTS
  Careful = FALSE
  MaxLabels = 7
  MaxDepth = 4
CHECK_DEADLOCK FALSE
INVARIANT BreakLeavesInnermost
