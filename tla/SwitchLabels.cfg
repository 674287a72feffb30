SPECIFICATION Spec
CONSTANTS
  Values = {v1, v2}
  Default = default
  MaxScopes = 7
  MaxLabels = 4
SYMMETRY Symmetry
CHECK_DEADLOCK FALSE
INVARIANTS
  TypeOK
  DispatchesCorrectly
  ListsOwnLabels
PROPERTIES
  ListsKept
