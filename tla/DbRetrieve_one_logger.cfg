\* One logger saves while a reader generates the traces of a graph.
CONSTANTS
  cpu = cpu
  acpi = acpi
  load1 = load1
  Process = {p1}
  Device = {cpu, acpi, load1}
  Time = {1, 2, 3}
  Batches <- BatchesOfOneLogger
  MaxRows = 3
  Reader = {r1}
  TimeSpan = 1
  MaxReads = 1
SPECIFICATION RetrieveFairSpec
INVARIANTS
  NoDataIsHandled
  TraceComplete
  TraceOfDevice
PROPERTIES
  ReadingEnds
  SaveReturns
