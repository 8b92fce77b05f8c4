\* Four definitions with crashes, retries, grants and cancellation; one fence over four daemons.
CONSTANTS
  Dags <- RunDags
  Cap = 2
  PairBudget = 1
  RunBudget = 1
  OrphanLimit = 1
  MaxRetry = 1
  MaxGrant = 1
  MaxGen = 4
  SlowSetup = FALSE
  MaxBlind = 2
SPECIFICATION FlowSpec
INVARIANTS WorkersAccounted ResultsJustified
PROPERTY HistoryKept RunMoves AttemptSettles
CHECK_DEADLOCK FALSE
