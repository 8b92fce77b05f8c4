\* One task of any kind, two runs at most, a crash and two zone changes. It comes
\* to rest when the task is done.
SPECIFICATION FairSpec
CONSTANTS
    t1 = t1
    Tasks = {t1}
    Kinds = {"once", "interval", "cron"}
    Times <- Twice
    Period = 2
    Grace = 1
    OneshotGrace = 1
    Zones = {0, 1}
    MaxRuns = 2
    MaxCrashes = 1
    MaxZoneChanges = 2
CHECK_DEADLOCK FALSE
INVARIANTS SchedulesTrue
PROPERTY DueHandled
