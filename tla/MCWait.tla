------------------------------- MODULE MCWait -------------------------------
(* Instances of Wait for TLC. *)
EXTENDS Wait, TLC

\* Children are interchangeable, and so are readers.
Symm == Permutations(Children) \cup Permutations(Readers)
=============================================================================
