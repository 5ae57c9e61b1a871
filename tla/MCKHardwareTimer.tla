-------------------------- MODULE MCKHardwareTimer --------------------------
(***************************************************************************)
(* KHardwareTimer and CoreTiming for TLC: two sleeping threads and one     *)
(* looping event.                                                          *)
(***************************************************************************)
EXTENDS KHardwareTimer
=============================================================================
