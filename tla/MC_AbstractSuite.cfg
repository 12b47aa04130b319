CONSTANTS
  Cases <- P1a1Cases
  Tests <- P1a1Tests
  point_value <- P1a1point_value
SPECIFICATION FairSpec
INVARIANTS
  AbsTypeOK
  ReportMatchesOutcomes
