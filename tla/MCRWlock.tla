------------------------------ MODULE MCRWlock ------------------------------
\* Instances of RWlock for TLC, with fairness and so without symmetry.
EXTENDS RWlock
=============================================================================
