CONSTANTS
  NameChars <- MC_NameChars
  ContentBytes <- MC_ContentBytes
  NameWidth = 3
  SizeWidth = 2
  TrailerWidth = 2
  Base = 3
  MaxFiles = 2
  MaxContent = 3
SPECIFICATION Spec
INVARIANTS
  WisTarOracleTypeOK
  WisTarUnpacks
