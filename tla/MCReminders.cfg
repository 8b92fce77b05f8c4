\* Two processes share one reminder row.
CONSTANTS
  Procs = {web, mcp}
  WebProcs = {web}
  Reminders = {r1}
  None = None
  DayLength = 2
  Grace = 1
  MaxTime = 3
SPECIFICATION FairSpec
INVARIANTS OnceClaimed BooksTrue
PROPERTY CancelQuiesces ImplementsReminderSpec Settles
