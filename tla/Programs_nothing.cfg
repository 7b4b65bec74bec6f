\* The instance of Programs.cfg.
CONSTANTS
  h1 = h1
  h2 = h2
  s1 = s1
  s2 = s2
  Zone = {z1}
  Hwmon = {h1, h2}
  Sensor = {s1, s2}
  HwmonOf <- HwmonOfSensor
  PlaceOf <- PlaceOfSensor
  MaxChanges = 1
  MaxFaults = 1
  MaxInstances = 2
  Modulus = 5
  MaxStep = 2
CHECK_DEADLOCK FALSE
SPECIFICATION ProgramsSpec
INVARIANT NothingIsAnError
