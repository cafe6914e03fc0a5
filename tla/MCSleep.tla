------------------------------- MODULE MCSleep ------------------------------
(* Instances of Sleep for TLC. *)
EXTENDS Sleep, TLC

=============================================================================
