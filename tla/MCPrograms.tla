----------------------------- MODULE MCPrograms -----------------------------
(***************************************************************************)
(* A small instance of Programs for TLC.                                   *)
(***************************************************************************)
EXTENDS Programs, TLC

CONSTANTS h1, h2, s1, s2

\* h1 has a sensor in either place, h2 has none.
HwmonOfSensor == s1 :> h1 @@ s2 :> h1

PlaceOfSensor == s1 :> "device" @@ s2 :> "self"
=============================================================================
