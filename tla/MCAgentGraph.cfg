\* Every intent, with and without a model, the web, approval and a skill.
CONSTANTS
  MaxRewrites = 1
  MaxIterations = 2
  MaxToolCalls = 3
  Calls <- MCCalls
  Skills <- MCSkills
  QuotedMarks <- MCQuotedMarks
  MaxSources = 1
  MaxBatch = 2
  MaxFailures = 1
SPECIFICATION Spec
INVARIANTS LoopBounded SuperstepBound FinalCited WritesApproved WritesNotRepeated
