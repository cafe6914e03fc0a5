\* A reader and two writers, interrupted by notes, and the device.
CONSTANTS
  Readers = {r1}
  Writers = {w1, w2}
  Uses <- MCUses
  MaxSize = 3
  Maxatomic = 2
  MaxBlocks = 2
  Wrap = 3
  null = null
SYMMETRY Symm
SPECIFICATION QioSpec
INVARIANTS
  NoLostWakeup
PROPERTIES
  ImplementsByteStream
