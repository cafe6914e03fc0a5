\* Three processes, from two ticks before the clock wraps to two after,
\* that set and clear alarms at any time.
CONSTANTS
  AlarmProcs = {p1, p2, p3}
  Wrap = 16
  Delays = {0, 2}
  MaxLag = 1
  FirstTick = 14
  LastTick = 1
  MaxDebug = 1
  null = null
SYMMETRY Symm
SPECIFICATION AlarmSpec
INVARIANTS
  Ordered
PROPERTIES
  AllDuePosted
