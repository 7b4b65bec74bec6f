----------------------------- MODULE MCDbStore -----------------------------
(***************************************************************************)
(* Small instances of DbStore for TLC.                                     *)
(***************************************************************************)
EXTENDS DbStore

CONSTANTS cpu, acpi, load1

Thermal(d, t) == [dev |-> d, type |-> "thermal", time |-> t]
Load(d, t) == [dev |-> d, type |-> "load", time |-> t]

\* What a round of the logger saves: the temperatures, then the load.
BatchesOfARound ==
  {<<Thermal(cpu, 1), Thermal(acpi, 1)>>, <<Load(load1, 1)>>}
=============================================================================
