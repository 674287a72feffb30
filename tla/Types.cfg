SPECIFICATION Spec

CONSTANTS
  A = A
  B = B
  T = T
  U = U
  StructNames = {A, B}
  TypedefNames = {T, U}
  Scalars <- MCScalars
  MaxDecls = 4
  MaxMembers = 2
  MaxLevel = 1
  Specs <- MCSpecs

SYMMETRY Symmetry

INVARIANTS
  TypeOK
  LayoutRight
  DeclaredRight

CHECK_DEADLOCK FALSE
