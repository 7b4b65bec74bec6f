\* No device or two, three time spans, two runs one after the other; from the
\* 9th, 23:30, the clock is put forward at 02:00 or back at 03:00 of the 10th.
CONSTANTS
  Spans = 3
  Found = {{}, {1, 2}}
  MaxRuns = 2
  Start = 14370
  ShiftAt = 5
  Hours = 1
  MaxTime = 10
  MaxPieces = 3
  MaxTokens = 5
  Char <- MCChar
  TagName <- MCTagName
  MaxSet = 2
  Files <- MCFiles
  Values <- MCValues
  MaxHours = 17600
CHECK_DEADLOCK FALSE
SPECIFICATION GraphSpec
INVARIANTS
  PagesAreTheirOwn
  PlaceholdersFilled
  NewerPagesFirst
  SuccessMeansWritten
  DatesSurvive
  SpanWithinShift
  ExportOrdered
  EscapedOnce
  
  SectionsFound
  SpanNamesDiffer
PROPERTY PagesEnd
