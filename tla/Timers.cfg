\* Two processors, a relative timer, and two periodic timers next to the HZ
\* clocks, linked in by either processor.
CONSTANTS
  Machs = {m0, m1}
  Mach0 = m0
  Relative = {t1}
  Links = {l1, l2}
  Delays = {1, 2}
  Periods = {1, 2}
  Hz = 2
  MaxTime = 3
  none = none
SYMMETRY Symm
SPECIFICATION TimersSpec
INVARIANTS
  InterruptSet
  Combined
