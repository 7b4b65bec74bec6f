CONSTANTS
  Spans = 1
  Found = {{1}}
  MaxRuns = 1
CHECK_DEADLOCK FALSE
SPECIFICATION PageSpec
INVARIANT NoMessageAsHeader
