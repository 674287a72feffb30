SPECIFICATION Spec
CONSTANTS
  Careful = TRUE
  MaxLabels = 7
  MaxDepth = 4
CHECK_DEADLOCK FALSE
INVARIANTS
  TypeOK
  JumpsCorrect
  LabelsResolved
  ContextsUsable
