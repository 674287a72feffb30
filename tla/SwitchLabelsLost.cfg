SPECIFICATION Spec
CONSTANTS
  Values = {v1, v2}
  Default = default
  MaxScopes = 6
  MaxLabels = 4
SYMMETRY Symmetry
CHECK_DEADLOCK FALSE
INVARIANT AllLabelsListed
