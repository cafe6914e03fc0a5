------------------------------- MODULE MCSema -------------------------------
\* Instances of Sema for TLC.
EXTENDS Sema

\* Processes are interchangeable, and so are semaphores.
Symmetry == Permutations(Procs) \cup Permutations(Addrs)

=============================================================================
