---------------------------- MODULE MCRendezvous ----------------------------
\* Instances of Rendezvous for TLC, with fairness and so without symmetry.
EXTENDS Rendezvous
=============================================================================
