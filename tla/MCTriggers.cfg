\* Key: fresh sessions and turns, two requests, one restart and a start that
\* dies, two mishaps: failed durable writes or closes, a lost save, a freeze.
\* Meeting: one request at a time, two dispatches, one restart of the receiver.
\* Both come to rest when every request is answered and every batch settled.
SPECIFICATION FairSpec
CONSTANTS
  r1 = r1
  r2 = r2
  Requests = {r1, r2}
  Payloads <- MCPayloads
  Shared = shared
  MaxBoot = 3
  MaxUp = 1
  MaxFaults = 2
  MaxGen = 3
  Freezes = 1
  MaxSoft = 1
  MaxMishaps = 2
  Handlers = {h1}
  NoHandler = NoHandler
  Scopes <- MCScopes
INVARIANTS TriggerOnce
PROPERTY FailedStaysFailed AnswersSettle HeadSettles
CHECK_DEADLOCK FALSE
