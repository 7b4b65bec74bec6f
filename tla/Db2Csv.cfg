\* Two exporters, while one logger saves.
CONSTANTS
  cpu = cpu
  load1 = load1
  Process = {p1}
  Device = {cpu, load1}
  Time = {1}
  Batches <- BatchesOfOneReading
  MaxRows = 2
  Exporter = {e1, e2}
  Earlier = {0}
  MaxName = 2
SPECIFICATION ExportSpec
INVARIANTS
  ExportComplete
  NothingInvented
  OlderFilesKept
PROPERTY ExportEnds
