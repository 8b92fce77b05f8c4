\* Three instances: overlapping requests, restarts and removal, retries. They
\* come to rest when their bounds are used up.
SPECIFICATION MeetingSpec
CONSTANTS
  Handlers = {h1, h2}
  NoHandler = NoHandler
  Scopes <- MeetingScopes
INVARIANTS ExactlyOnce
PROPERTY SettledKept
SYMMETRY Interchangeable
CHECK_DEADLOCK FALSE
