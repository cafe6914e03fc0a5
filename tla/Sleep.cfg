\* Two processes take turns on a Rendez, with and without timeout, and move
\* between two processors; a waker, a noter and the timers race for them.
CONSTANTS
  Procs = {p1, p2}
  Rendezes = {r1}
  Wakers = {w1}
  Noters = {n1}
  Machs = {m1, m2}
  Serialised = TRUE
  Timeouts = TRUE
  nil = nil
SPECIFICATION FairSpec
INVARIANTS
  Linked
  ReadyOnce
  NoLostWakeup
PROPERTIES
  SleeperWoken
  PostnoteNotStuck
