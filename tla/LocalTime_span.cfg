\* From the 9th, 23:30: the clock is put forward at 02:00 or back at 03:00 of the 10th.
CONSTANTS
  Start = 14370
  ShiftAt = 5
  Hours = 1
  MaxTime = 10
CHECK_DEADLOCK FALSE
SPECIFICATION TimeSpec
INVARIANT SpanExact
