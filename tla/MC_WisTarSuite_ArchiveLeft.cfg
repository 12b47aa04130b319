CONSTANTS
  Cases <- MC_Cases
  Tests <- MC_Tests
  FileNames <- MC_FileNames
  timeout <- MC_timeout
  point_value <- MC_point_value
  kind <- MC_kind
  fixtures <- MC_fixtures
  expected <- MC_expected
  KillTimeout = 5
  short_circuit = FALSE

SPECIFICATION Spec

INVARIANT ArchiveRemovedAtEnd
