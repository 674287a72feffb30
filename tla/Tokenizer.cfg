SPECIFICATION Spec
CONSTANTS
  Letters = {"d", "o"}
  Digits = {"1"}
  Keywords <- MCKeywords
  Texts <- MCTexts
CHECK_DEADLOCK FALSE
INVARIANTS
  TypeOK
  TokensRight

