SPECIFICATION Spec
CONSTANTS
  MainFiles <- MCMainFiles
  HeaderSets <- MCHeaderSets
  FileNames = {"h", "k"}
  Names = {"X", "Y", "Z"}
  MaxLines = 4
CHECK_DEADLOCK FALSE
INVARIANTS TypeOK OutputRight DirectivesCarriedOut ErrorsJustified
PROPERTY Terminates
