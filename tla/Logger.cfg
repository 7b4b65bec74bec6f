\* Two processes, which may use the file in turn, at once, or one of them never.
CONSTANTS
  cpu = cpu
  acpi = acpi
  load1 = load1
  Process = {p1, p2}
  Batches = {}
  ThermalDevices <- TwoSensors
  LoadDevices <- OneLoad
  Interval = 1
  MaxTime = 2
  MaxRows = 4
  MaxTimeShared = 1
  MaxRowsShared = 2
SPECIFICATION LoggerFairSpec
INVARIANTS
  RoundStored
  ReadingsAreFresh
  Chronological
  NoEarlyRound
PROPERTY KeepsUp
