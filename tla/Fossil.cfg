\* A file of up to two levels, snapshots, one crash at any moment.
CONSTANTS
  NBlocks = 6
  Lpb = 3
  Values = {2}
  MaxEpoch = 3
  MaxCrash = 1
  MaxWork = 5
SPECIFICATION Spec
CONSTRAINT GoesOn
INVARIANTS
  Durable
  NotReused
  SnapshotKept
\* The bounds end everything, and a full disk may keep fsOpen from opening.
CHECK_DEADLOCK FALSE
