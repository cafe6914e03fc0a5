\* Two processes on one channel that may be hung up; one of them may be
\* interrupted, twice per call, and flushes its request each time.
CONSTANTS
  Procs = {p1, p2}
  Rpcs = {r1, r2, r3}
  Noted = {p1}
  MaxFlush = 2
  Hangups = TRUE
  nil = nil
SPECIFICATION FairSpec
INVARIANTS
  TagQuiet
  Expected
  Honoured
  BatonHeld
  ReplyNotSleptThrough
PROPERTIES
  CallReturns
