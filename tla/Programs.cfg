\* A thermal zone and two hwmon devices, one of them with a sensor in either
\* place; at most one thing is broken when a walk begins, and one thing comes,
\* goes and breaks as often as it likes during it.  Or up to two instances of
\* the query.  The logger goes on for ever.
CONSTANTS
  h1 = h1
  h2 = h2
  s1 = s1
  s2 = s2
  Zone = {z1}
  Hwmon = {h1, h2}
  Sensor = {s1, s2}
  HwmonOf <- HwmonOfSensor
  PlaceOf <- PlaceOfSensor
  MaxChanges = 1
  MaxFaults = 1
  MaxInstances = 2
  Modulus = 5
  MaxStep = 2
CHECK_DEADLOCK FALSE
SPECIFICATION ProgramsSpec
INVARIANTS
  TypeOK
  EverythingRead
  ReadOnce
  ErrorIffBroken
  NothingLeaks
  LoadOfInterval
  StoreExists
  OutputIsDirectory
PROPERTY
  ProgramsEnd
