\* Gate: a handler with an unbounded, a floated bounded and a nested bounded
\* upgrade, a second handler, a detached mutation. Broker: a hook that outlives
\* the daemon, two options, two asks, three faults: restarts,
\* broken connections, failed writes of the record.
\* Both come to rest when every call has returned.
SPECIFICATION FairSpec
CONSTANTS
  h1 = h1
  h2 = h2
  m1 = m1
  m2 = m2
  m3 = m3
  m4 = m4
  Handlers = {h1, h2}
  Mutators = {m1, m2, m3, m4}
  Bounded = {m2, m3}
  Nested = {m3}
  Floated = {m2}
  NoParent = NoParent
  Parent <- MCParent
  Hook = {hook1}
  Resumable = {hook1}
  Option = {"x", "y"}
  MaxSend = 2
  MaxFaults = 3
  MaxIds = 2
INVARIANTS MutationAlone AskKept
PROPERTY EveryCallReturns HookReturns
CHECK_DEADLOCK FALSE
