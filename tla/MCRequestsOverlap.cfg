\* The page sends two requests at a time; nothing breaks down.
SPECIFICATION FairSpec
CONSTANTS
  Ways = {"page"}
  MaxRuns = 2
  Streams = {s1, s2}
  MaxFaults = 0
  MaxMsgs = 0
  MaxQueue = 0
  MaxLosses = 0
  Kinds = {}
  Files = {}
INVARIANT PlanConfirmed
CHECK_DEADLOCK FALSE
