\* Four processes: a queue of up to three behind an owner. No symmetry, since
\* QlockReturns is about fairness.
CONSTANTS
  Procs = {p1, p2, p3, p4}
  nil = nil
SPECIFICATION FairSpec
INVARIANTS
  TypeOK
  MutualExclusion
  BlockedOnce
PROPERTIES
  ImplementsFifoLock
  QlockReturns
