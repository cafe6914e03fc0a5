\* Three processes, two semaphores on one list.
CONSTANTS
  Procs = {p1, p2, p3}
  Addrs = {a1, a2}
  Kinds = {"block", "poll", "timed"}
  MaxValue = 1
  MaxDelta = 1
  none = none
SYMMETRY Symmetry
SPECIFICATION SemaSpec
INVARIANTS
  NoLostWakeup
  SemaAlive
