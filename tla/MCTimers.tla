------------------------------ MODULE MCTimers ------------------------------
(* Instances of Timers for TLC. *)
EXTENDS Timers, TLC

\* Relative timers are interchangeable, and so are those of addclock0link.
Symm == Permutations(Relative) \cup Permutations(Links)
=============================================================================
