\* Two loggers and a reader.
CONSTANTS
  cpu = cpu
  acpi = acpi
  load1 = load1
  Process = {p1, p2}
  Device = {cpu}
  Time = {1, 2}
  Batches <- ThermalReadings
  MaxRows = 2
  Reader = {r1}
  TimeSpan = 1
  MaxReads = 1
SPECIFICATION RetrieveSpec
INVARIANT NoDataIsHandled
