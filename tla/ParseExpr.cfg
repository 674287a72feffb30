SPECIFICATION Spec

CONSTANTS
  Exprs <- MCExprs
  Vars <- MCVars
  Types <- MCTypes
  Members <- MCMembers
  Funcs <- MCFuncs
  Sizes <- MCSizes
  Careful = TRUE

INVARIANTS
  TypeOK
  GroupedRight
  AccessesRight

CHECK_DEADLOCK FALSE
