CONSTANTS
  Letters <- MC_Letters
  NL <- MC_NL
  MaxLines <- MC_MaxLines
  MaxLen <- MC_MaxLen
SPECIFICATION Spec
INVARIANTS
  ReverseTypeOK
  OracleIsReversal
