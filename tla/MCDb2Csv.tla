------------------------------ MODULE MCDb2Csv ------------------------------
(***************************************************************************)
(* Small instances of Db2Csv for TLC.                                      *)
(***************************************************************************)
EXTENDS Db2Csv

CONSTANTS cpu, load1

\* One temperature, and the load.
BatchesOfOneReading ==
  {<<[dev |-> cpu, type |-> "thermal", time |-> 1]>>,
   <<[dev |-> load1, type |-> "load", time |-> 1]>>}
=============================================================================
