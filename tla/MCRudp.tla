------------------------------- MODULE MCRudp -------------------------------
(* Instances of Rudp for TLC. *)
EXTENDS Rudp, TLC

CONSTANTS a, b
MCMaxMsg == a :> 2 @@ b :> 0
=============================================================================
