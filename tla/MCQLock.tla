------------------------------ MODULE MCQLock -------------------------------
\* Instances of QLock for TLC, with fairness and so without symmetry.
EXTENDS QLock
=============================================================================
