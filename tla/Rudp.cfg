\* Two hosts that restart, hang up and close, over a network that loses,
\* repeats and reorders and may return a packet to its sender; numbers go round
\* at 4.  No symmetry: one host writes and the other acknowledges.
CONSTANTS
  a = a
  b = b
  Ends = {a, b}
  Mod = 4
  Maxunacked = 1
  Wakeat = 1
  Rudpmaxxmit = 1
  MaxMsg <- MCMaxMsg
  MaxGen = 2
  Old = {2}
  nil = nil
SPECIFICATION Spec
INVARIANTS
  Window
  InOrder
  AckedArrived
  BlockedKicker
