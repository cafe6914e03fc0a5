\* Three children and room for two records; two readers of the wait file; the
\* Proc is used by two processes.
CONSTANTS
  Children = {c1, c2, c3}
  Readers = {r1, r2}
  MaxWait = 2
  MaxPid = 2
  nil = nil
SYMMETRY Symm
SPECIFICATION Spec
INVARIANTS
  Counted
  WaitsForChild
  Accounted
\* After MaxPid processes the structure is not given out again.
CHECK_DEADLOCK FALSE
