------------------------------- MODULE MCMnt --------------------------------
(* Instances of Mnt for TLC. *)
EXTENDS Mnt, TLC

=============================================================================
