\* Three requests that overlap at will, two at a time, and four one after the
\* other, questions or resumptions. The thread comes to rest when its turns are
\* over.
CONSTANTS
  Turns = {u1, u2, u3, u4}
  RecentLimit = 1
  PageLimit = 3
  MaxSeed = 1
  MaxBroken = 2
  HastyTurns = 3
SPECIFICATION Spec
SYMMETRY Symm
CONSTRAINT Bounded
INVARIANTS SummaryCovers RecentVerbatim LogKept
CHECK_DEADLOCK FALSE
