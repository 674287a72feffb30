SPECIFICATION Spec
CONSTANTS
  Types <- MCTypes
  ArrayTypes <- MCArrayTypes
  ArraySizes = {3}
  Names = {x, y}
  TempName = temp
  MaxScopes = 4
  MaxVars = 3
  MaxOffset = 8
SYMMETRY Symmetry
INVARIANTS
  TypeOK
  LiveSlotsDisjoint
  FrameHoldsSlots
  VariablesAligned
  LookupIsInnermost
PROPERTIES
  ImplementsBlockStorage
