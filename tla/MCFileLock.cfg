\* Four processes, two of which may die, four lock files: the instance in
\* which a deleted owner file can cost the exclusion.
CONSTANTS
  Proc = {p1, p2, p3, p4}
  None = None
  MaxInode = 4
  MaxEpoch = 1
  MaxCrash = 2
SPECIFICATION LockSpec
SYMMETRY Symm
INVARIANTS LockHolds
CHECK_DEADLOCK FALSE
