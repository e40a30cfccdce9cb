------------------------------ MODULE MCCycInt ------------------------------
(***************************************************************************)
(* Small instances of CycInt for TLC: the two permanent timers (1 and 3)   *)
(* around a device timer (2), so that the device's entry is scanned        *)
(* between them. The device arms itself with cycles and with microseconds  *)
(* and can be cancelled.                                                   *)
(***************************************************************************)
EXTENDS CycInt
=============================================================================
