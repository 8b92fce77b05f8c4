---- MODULE MCSchedules ----
(* The instance of Schedules that TLC checks. *)
EXTENDS Schedules, TLC

CONSTANT t1

\* t1 runs at most twice.
Twice == t1 :> 2

\* The stored schedule is true to what happened: no occurrence of a recurring
\* task is fired twice, a removed task does not come back, and the next
\* occurrence of a cron task is one of the zone it was computed for.
SchedulesTrue == TypeOK /\ RecurringNotRefired /\ RemovedStaysRemoved /\ ZoneAligned
====
