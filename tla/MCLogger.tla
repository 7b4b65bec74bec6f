------------------------------ MODULE MCLogger ------------------------------
(***************************************************************************)
(* Small instances of Logger for TLC.                                      *)
(***************************************************************************)
EXTENDS Logger

CONSTANTS cpu, acpi, load1

TwoSensors == {<<cpu, acpi>>}

OneLoad == {<<load1>>}
=============================================================================
