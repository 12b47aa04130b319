CONSTANTS
  Cases <- MC_Cases
  Tests <- MC_Tests
  timeout <- MC_timeout
  point_value <- MC_point_value
  KillTimeout = 5
  kind <- MC_kind
  RemovesFiles = TRUE

SPECIFICATION Spec

INVARIANT BodyResultKept
