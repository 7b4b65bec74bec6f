CONSTANTS
  cpu = cpu
  acpi = acpi
  load1 = load1
  Process = {p1}
  Device = {cpu, acpi, load1}
  Time = {1}
  Batches <- BatchesOfARound
  MaxRows = 2
SPECIFICATION Spec
INVARIANT TablesEnsured
