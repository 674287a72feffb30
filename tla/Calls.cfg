SPECIFICATION Spec

CONSTANTS
  IntRegs = 3
  FloatRegs = 2
  FrameWords = 2
  Signatures <- MCSignatures
  Careful = TRUE

INVARIANTS
  TypeOK
  ArgumentsByAbi
  ParamsArrive
  CallerRestored

CHECK_DEADLOCK FALSE
