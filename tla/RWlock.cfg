\* Four processes: queues that mix up to three readers and writers. No
\* symmetry, since WaiterServed is about fairness.
CONSTANTS
  Procs = {p1, p2, p3, p4}
  nil = nil
SPECIFICATION FairSpec
INVARIANTS
  WriterExclusion
  NoPanic
PROPERTIES
  NoOvertaking
  WaiterServed
