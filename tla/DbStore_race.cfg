\* Two loggers that save their rounds into the same file.
CONSTANTS
  cpu = cpu
  acpi = acpi
  load1 = load1
  Process = {p1, p2}
  Device = {cpu, acpi, load1}
  Time = {1}
  Batches <- BatchesOfARound
  MaxRows = 3
SPECIFICATION Spec
INVARIANTS
  TypeOK
  ReadingsResolve
  SavedBatchStored
  DuplicatesBounded
PROPERTY Implements
