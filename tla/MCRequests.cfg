\* Page: one request at a time, three turns, two breakdowns. Bridge: three
\* messages of every kind, an attachment, one fault.
\* Both come to rest when nothing more is sent.
SPECIFICATION FairSpec
CONSTANTS
  Ways = {"page", "bridge"}
  MaxRuns = 3
  Streams = {s1}
  MaxFaults = 2
  MaxMsgs = 3
  MaxQueue = 1
  MaxLosses = 1
  Kinds = {"chat", "plan", "remind", "yes", "no", "due", "empty"}
  Files = {"notes"}
INVARIANTS TurnsKeptApart BridgeTrue
PROPERTY RunSettles EveryMessageAnswered
CHECK_DEADLOCK FALSE
