---------------------------- MODULE MCDbRetrieve ----------------------------
(***************************************************************************)
(* Small instances of DbRetrieve for TLC.                                  *)
(***************************************************************************)
EXTENDS DbRetrieve

CONSTANTS cpu, acpi, load1

Thermal(d, t) == [dev |-> d, type |-> "thermal", time |-> t]
Load(d, t) == [dev |-> d, type |-> "load", time |-> t]

\* Vectors of every length up to two, one with a device that occurs twice, of
\* two thermal devices and the load; their dates are as far apart as the time
\* span 1, or further.
BatchesOfOneLogger ==
  {<<>>, <<Thermal(cpu, 2), Thermal(acpi, 1)>>, <<Thermal(cpu, 1), Thermal(cpu, 3)>>,
   <<Load(load1, 2)>>}

\* Two rounds of one device.
ThermalReadings == {<<Thermal(cpu, 1)>>, <<Thermal(cpu, 2)>>}
=============================================================================
