------------------------------ MODULE MCAlarm -------------------------------
(* Instances of Alarm for TLC. *)
EXTENDS Alarm, TLC

\* Processes are interchangeable.
Symm == Permutations(AlarmProcs)
=============================================================================
