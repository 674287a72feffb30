SPECIFICATION Spec
CONSTANTS
  Exprs <- MCExprs
  Vars <- MCVars
  Types <- MCTypes
  Members <- MCMembers
  Funcs <- MCFuncs
  Sizes <- MCSizes
  Memories <- MCMemories
  Places <- MCPlaces
  Offsets <- MCOffsets
  Globals <- MCGlobals
  Arrays <- MCArrays
  Literals <- MCLiterals
  ArgRegs = 1
  FloatRegs = 1
  Bits = 8
  Careful = TRUE
INVARIANTS TypeOK ValueRight EffectsRight StackRight
