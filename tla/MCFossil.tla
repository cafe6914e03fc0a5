------------------------------ MODULE MCFossil ------------------------------
(***************************************************************************)
(* A small disk for Fossil.  Where TLC goes on from: after something that  *)
(* is not ordered it makes one change less, and after something that ends  *)
(* all but a part of Durable for good it makes none.                       *)
(***************************************************************************)
EXTENDS Fossil

GoesOn ==
    \/ old.unsafe = {}
    \/ old.unsafe \subseteq Unordered /\ count.work < MaxWork
=============================================================================
