------------------------------ MODULE Schedules ------------------------------
(***************************************************************************)
(* The BotMux scheduler: core/scheduler.ts over services/schedule-store.ts.  *)
(* One daemon polls the task file and fires what is due; the `botmux         *)
(* schedule` commands are other processes that write the same file.          *)
(*                                                                           *)
(* Every mutation of the store is one transaction (lock, reload, mutate,     *)
(* durable replace), so it is one step here.  The tick loop never awaits, so *)
(* nothing else of the daemon runs inside it, but it works on a snapshot     *)
(* taken at its start and makes one transaction after another, so a command  *)
(* may commit between any two of them.                                       *)
(*                                                                           *)
(* Instants are kept relative to the present: next = {d} means "due in d     *)
(* units" (negative: overdue), next = {} an undefined nextRunAt.  Values     *)
(* below Floor are not told apart.  A cron expression is a daily one: it     *)
(* occurs when the wall clock of the zone in force reads 0.                  *)
(***************************************************************************)
EXTENDS Integers, FiniteSets

CONSTANTS
    Tasks,          \* task ids (random, never used twice)
    Kinds,          \* the schedule kinds in play, a subset of {"once", "interval", "cron"}
    Times,          \* Times[t]: repeat.times, 0 when the task has no repeat
    Period,         \* units between two occurrences of a recurring task
    Grace,          \* computeGraceSeconds, in units
    OneshotGrace,   \* ONESHOT_GRACE_SECONDS, in units
    Zones,          \* offsets of the time zones the configuration may name
    MaxRuns,        \* bound on the runs of a task in flight
    MaxCrashes,     \* bound on the deaths of the daemon
    MaxZoneChanges  \* bound on the changes of the time zone

ASSUME SchedulesAssumption ==
    /\ Kinds \subseteq {"once", "interval", "cron"}
    /\ Times \in [Tasks -> Nat]
    /\ Period \in Nat \ {0} /\ Grace \in Nat /\ OneshotGrace \in Nat
    /\ Zones \subseteq 0 .. Period - 1 /\ Zones # {}
    /\ MaxRuns \in Nat /\ MaxCrashes \in Nat /\ MaxZoneChanges \in Nat

VARIABLES
    store,     \* the task file: id -> task
    gone,      \* ids removed from the file
    up,        \* the daemon runs
    snap,      \* tick: the tasks it listed at its start and has still to consider
    plan,      \* start-up and tick: the nextRunAt still to be written, id -> value
    adv,       \* tick: the ids whose next run it has advanced and not yet executed
    lastTz,    \* lastTickTz
    zone,      \* the effective time zone
    runs,      \* executions in flight: id -> count
    clock,     \* the wall clock in zone 0, modulo Period
    crashes,   \* deaths so far
    moves,     \* zone changes so far
    flipped,   \* the zone changed again before a tick saw the last change, and
               \* nothing was realigned since
    lastFire,  \* when the task was last fired since its user last (re)scheduled it
    refired    \* <<id, kind>> fired again for an instant no later than a previous fire

vars == <<store, gone, up, snap, plan, adv, lastTz, zone, runs, clock, crashes,
          moves, flipped, lastFire, refired>>

daemonVars == <<up, snap, plan, adv, lastTz>>
worldVars == <<zone, clock, crashes, moves, flipped>>
history == <<lastFire, refired>>

Floor == -1 - Period - (IF Grace > OneshotGrace THEN Grace ELSE OneshotGrace)

Present == DOMAIN store

Nothing == [t \in {} |-> {}]

-----------------------------------------------------------------------------
(* Next-run computation.                                                    *)

\* Units until the wall clock of zone z reads 0 again (never now).
NextOccurrence(z) ==
    CHOOSE d \in 1 .. Period : (clock + z + d) % Period = 0

\* computeNextRun(parsed, lastRunAt), last = {} when none is passed.
ComputeNextRun(task, last) ==
    CASE task.kind = "once" ->
           IF last # {} \/ task.runAt < -OneshotGrace THEN {} ELSE {task.runAt}
      [] task.kind = "interval" ->
           IF last = {} THEN {Period} ELSE {l + Period : l \in last}
      [] task.kind = "cron" -> {NextOccurrence(zone)}

Past(d) == d <= 0
Due(task) == task.enabled /\ \E d \in task.next : Past(d)

\* scheduleStore.updateTask: a missing task is left missing.
UpdateTask(t, new) ==
    store' = IF t \in Present THEN [store EXCEPT ![t] = new] ELSE store

Forget(t) == lastFire' = [lastFire EXCEPT ![t] = {}]

Idle == DOMAIN snap = {} /\ DOMAIN plan = {}

-----------------------------------------------------------------------------
Init ==
    /\ store = Nothing
    /\ gone = {}
    /\ up = TRUE
    /\ snap = Nothing
    /\ adv = {} /\ plan = Nothing
    /\ zone \in Zones
    /\ lastTz = zone
    /\ runs = [t \in Tasks |-> 0]
    /\ clock = 0 /\ crashes = 0 /\ moves = 0 /\ flipped = FALSE
    /\ lastFire = [t \in Tasks |-> {}]
    /\ refired = {}

-----------------------------------------------------------------------------
(* Commands: `botmux schedule`, the chat commands and the dashboard.        *)

\* A one-shot is due in one unit; the other kinds have no runAt.
RunAt(kind) == IF kind = "once" THEN 1 ELSE Floor

Parsed(kind) == [enabled |-> TRUE, kind |-> kind, runAt |-> RunAt(kind),
                 next |-> {}, last |-> {}, done |-> 0]

AddTask(t) ==
    /\ t \notin Present \cup gone
    /\ \E kind \in Kinds :
         LET task == Parsed(kind)
         IN  store' = [u \in Present \cup {t} |->
                         IF u = t
                         THEN [task EXCEPT !.next = ComputeNextRun(task, {})]
                         ELSE store[u]]
    /\ UNCHANGED <<gone, runs, daemonVars, worldVars, history>>

\* importTasks: an entry of the legacy file, without a nextRunAt and perhaps run
\* before, moves into this bot's file.
ImportTask(t) ==
    /\ t \notin Present \cup gone
    /\ \E kind \in Kinds, last \in {{}, {-1}} :
         store' = [u \in Present \cup {t} |->
                     IF u = t THEN [Parsed(kind) EXCEPT !.last = last] ELSE store[u]]
    /\ UNCHANGED <<gone, runs, daemonVars, worldVars, history>>

RemoveTask(t) ==
    /\ t \in Present
    /\ store' = [u \in Present \ {t} |-> store[u]]
    /\ gone' = gone \cup {t}
    /\ UNCHANGED <<runs, daemonVars, worldVars, history>>

EnableTask(t) ==
    /\ t \in Present
    /\ UpdateTask(t, [store[t] EXCEPT !.enabled = TRUE,
                                      !.next = ComputeNextRun(store[t], {})])
    /\ Forget(t)
    /\ UNCHANGED <<gone, runs, daemonVars, worldVars, refired>>

DisableTask(t) ==
    /\ t \in Present
    /\ UpdateTask(t, [store[t] EXCEPT !.enabled = FALSE])
    /\ UNCHANGED <<gone, runs, daemonVars, worldVars, history>>

\* runTaskNow, and `botmux schedule run`: the owner's tick will pick it up.
RunTaskNow(t) ==
    /\ t \in Present
    /\ UpdateTask(t, [store[t] EXCEPT !.next = {0}])
    /\ Forget(t)
    /\ UNCHANGED <<gone, runs, daemonVars, worldVars, refired>>

\* updateTask with a new schedule expression (dashboard, so inside the daemon).
Reschedule(t) ==
    /\ up /\ Idle /\ t \in Present
    /\ \E kind \in Kinds :
         LET new == [store[t] EXCEPT !.kind = kind, !.runAt = RunAt(kind)]
         IN  UpdateTask(t, [new EXCEPT !.next = ComputeNextRun(new, {})])
    /\ Forget(t)
    /\ UNCHANGED <<gone, runs, daemonVars, worldVars, refired>>

\* runNow (dashboard): lastRunAt and nextRunAt move first, then the task runs.
RunNow(t) ==
    /\ up /\ Idle /\ t \in Present
    /\ runs[t] < MaxRuns
    /\ UpdateTask(t, [store[t] EXCEPT !.last = {0},
                                      !.next = ComputeNextRun(store[t], {0})])
    /\ runs' = [runs EXCEPT ![t] = @ + 1]
    /\ lastFire' = [lastFire EXCEPT ![t] = {0}]
    /\ UNCHANGED <<gone, daemonVars, worldVars, refired>>

-----------------------------------------------------------------------------
(* The tick.                                                                *)

\* planCronRealign over the tasks of the store: what to write, where it changes.
PlanCronRealign(ids) ==
    [t \in {u \in ids : /\ store[u].enabled /\ store[u].kind = "cron"
                        /\ ComputeNextRun(store[u], {}) # store[u].next}
       |-> ComputeNextRun(store[t], {})]

\* The snapshot is taken and, if the zone changed since the last tick, a
\* realignment is planned.
TickStart ==
    /\ up /\ Idle /\ Present # {}
    /\ \A t \in Tasks : runs[t] < MaxRuns
    /\ snap' = store
    /\ plan' = IF lastTz # zone THEN PlanCronRealign(Present) ELSE Nothing
    /\ lastTz' = zone
    /\ flipped' = (flipped /\ lastTz = zone)
    /\ UNCHANGED <<store, gone, up, adv, runs, zone, clock, crashes, moves, history>>

\* applyCronRealign, and the filling in of startScheduler: one transaction each.
ApplyPlan(t) ==
    /\ t \in DOMAIN plan
    /\ store' = IF t \in Present THEN [store EXCEPT ![t].next = plan[t]] ELSE store
    /\ plan' = [u \in DOMAIN plan \ {t} |-> plan[u]]
    /\ UNCHANGED <<gone, up, snap, adv, lastTz, runs, worldVars, history>>

\* The loop has come to task t, and considers the snapshot of it.
Considers(t) == t \in DOMAIN snap /\ DOMAIN plan = {}
Done(t) == snap' = [u \in DOMAIN snap \ {t} |-> snap[u]]

\* Disabled in the snapshot, exhausted, or not yet due.
TickSkip(t) ==
    /\ Considers(t)
    /\ \/ ~snap[t].enabled
       \/ snap[t].next = {} /\ ComputeNextRun(snap[t], snap[t].last) = {}
       \/ \E d \in snap[t].next : ~Past(d)
    /\ Done(t)
    /\ UNCHANGED <<store, gone, up, plan, adv, lastTz, runs, worldVars, history>>

\* A missing nextRunAt is recomputed, stored, and considered in this tick.
TickRecover(t) ==
    /\ Considers(t) /\ snap[t].enabled /\ snap[t].next = {}
    /\ ComputeNextRun(snap[t], snap[t].last) # {}
    /\ LET next == ComputeNextRun(snap[t], snap[t].last)
       IN  /\ snap' = [snap EXCEPT ![t].next = next]
           /\ store' = IF t \in Present THEN [store EXCEPT ![t].next = next] ELSE store
    /\ UNCHANGED <<gone, up, plan, adv, lastTz, runs, worldVars, history>>

Late(t) == \E d \in snap[t].next : -d > Grace

\* A stale task that is passed over and left as it is.
TickFastForwardKeeps(t) ==
    /\ Considers(t) /\ t \notin adv /\ Due(snap[t]) /\ snap[t].kind # "once"
    /\ Late(t)
    /\ Done(t)
    /\ UNCHANGED <<store, gone, up, plan, adv, lastTz, runs, worldVars, history>>

\* A recurring task that missed its window beyond the grace is not run.
TickFastForward(t) ==
    /\ Considers(t) /\ t \notin adv /\ Due(snap[t]) /\ snap[t].kind # "once"
    /\ Late(t)
    /\ store' = IF t \in Present
                THEN [store EXCEPT ![t].next = ComputeNextRun(snap[t], {0})] ELSE store
    /\ Done(t)
    /\ UNCHANGED <<gone, up, plan, adv, lastTz, runs, worldVars, history>>

Instant(t) == CHOOSE d \in snap[t].next : TRUE

\* The bookkeeping of a fire decided now for the instant of the snapshot.
Fires(t) ==
    /\ lastFire' = [lastFire EXCEPT ![t] = {0}]
    /\ refired' = IF \E l \in lastFire[t] : Instant(t) <= l
                  THEN refired \cup {<<t, snap[t].kind>>} ELSE refired

\* The tick that leaves the next run to the end of the execution.
TickAdvanceLater(t) ==
    /\ Considers(t) /\ t \notin adv /\ Due(snap[t]) /\ snap[t].kind # "once"
    /\ ~Late(t)
    /\ adv' = adv \cup {t}
    /\ Fires(t)
    /\ UNCHANGED <<store, gone, up, snap, plan, lastTz, runs, worldVars>>

\* A due recurring task: the next run is advanced before the execution.
TickAdvance(t) ==
    /\ Considers(t) /\ t \notin adv /\ Due(snap[t]) /\ snap[t].kind # "once"
    /\ ~Late(t)
    /\ store' = IF t \in Present
                THEN [store EXCEPT ![t].next = ComputeNextRun(snap[t], {0})] ELSE store
    /\ adv' = adv \cup {t}
    /\ Fires(t)
    /\ UNCHANGED <<gone, up, snap, plan, lastTz, runs, worldVars>>

\* lastRunAt is written and executeCallback is called.  What is fired is the
\* task of the snapshot: it may have been removed or paused since.
TickExecute(t) ==
    /\ Considers(t) /\ Due(snap[t])
    /\ \/ t \in adv /\ UNCHANGED <<lastFire, refired>>
       \/ snap[t].kind = "once" /\ Fires(t)
    /\ store' = IF t \in Present THEN [store EXCEPT ![t].last = {0}] ELSE store
    /\ Done(t)
    /\ adv' = adv \ {t}
    /\ runs' = [runs EXCEPT ![t] = @ + 1]
    /\ UNCHANGED <<gone, up, plan, lastTz, worldVars>>

\* What markRun leaves of a task that goes on: a one-shot is switched off.
MarkedRun(task, times) ==
    LET once == task.kind = "once"
    IN  [task EXCEPT !.last = {0},
                     !.done = IF times > 0 THEN task.done + 1 ELSE task.done,
                     !.enabled = task.enabled /\ ~once,
                     !.next = IF once THEN {} ELSE task.next]

\* The execution's promise settles, either way: markRun.
MarkRun(t) ==
    /\ up /\ Idle /\ runs[t] > 0
    /\ runs' = [runs EXCEPT ![t] = @ - 1]
    /\ IF t \notin Present
       THEN UNCHANGED <<store, gone>>
       ELSE IF Times[t] > 0 /\ store[t].done + 1 >= Times[t]
       THEN /\ store' = [u \in Present \ {t} |-> store[u]]
            /\ gone' = gone \cup {t}
       ELSE /\ store' = [store EXCEPT ![t] = MarkedRun(store[t], Times[t])]
            /\ gone' = gone
    /\ UNCHANGED <<daemonVars, worldVars, history>>

-----------------------------------------------------------------------------
(* The daemon's life, the clock and the configuration.                      *)

\* The process dies; what was in flight and where the tick was are lost.
Crash ==
    /\ up /\ crashes < MaxCrashes
    /\ up' = FALSE
    /\ crashes' = crashes + 1
    /\ snap' = Nothing /\ plan' = Nothing
    /\ adv' = {}
    /\ runs' = [t \in Tasks |-> 0]
    /\ UNCHANGED <<store, gone, lastTz, zone, clock, moves, flipped, history>>

\* startScheduler: fill in what is missing, realign what lies in the future.
StartScheduler ==
    /\ ~up
    /\ up' = TRUE
    /\ LET missing == {t \in Present : /\ store[t].enabled /\ store[t].next = {}
                                       /\ ComputeNextRun(store[t], store[t].last) # {}}
           realign == PlanCronRealign({t \in Present : \E d \in store[t].next : ~Past(d)})
       IN  plan' = [t \in missing \cup DOMAIN realign |->
                      IF t \in missing THEN ComputeNextRun(store[t], store[t].last)
                      ELSE realign[t]]
    /\ lastTz' = zone /\ flipped' = FALSE
    /\ UNCHANGED <<store, gone, snap, adv, runs, zone, clock, crashes, moves, history>>

\* One unit of time.  A tick takes no time of this scale.
Pass ==
    /\ Idle
    /\ clock' = (clock + 1) % Period
    /\ LET Earlier(d) == IF d > Floor THEN d - 1 ELSE d
       IN  /\ store' = [t \in Present |->
                          [store[t] EXCEPT !.next = {Earlier(d) : d \in @},
                                           !.last = {Earlier(d) : d \in @},
                                           !.runAt = Earlier(@)]]
           /\ lastFire' = [t \in Tasks |-> {Earlier(d) : d \in lastFire[t]}]
    /\ UNCHANGED <<gone, daemonVars, zone, crashes, moves, flipped, runs, refired>>

\* The schedule time zone of the configuration changes.
ChangeZone ==
    /\ moves < MaxZoneChanges
    /\ \E z \in Zones \ {zone} : zone' = z
    /\ moves' = moves + 1
    /\ flipped' = (flipped \/ lastTz # zone)
    /\ UNCHANGED <<store, gone, daemonVars, clock, crashes, runs, history>>

TickStep(t) ==
    \/ TickSkip(t) \/ TickRecover(t) \/ TickFastForward(t)
    \/ TickAdvance(t) \/ TickExecute(t) \/ ApplyPlan(t)

Command(t) ==
    \/ AddTask(t) \/ ImportTask(t) \/ RemoveTask(t) \/ EnableTask(t) \/ DisableTask(t)
    \/ RunTaskNow(t) \/ Reschedule(t) \/ RunNow(t)

Next ==
    \/ \E t \in Tasks : Command(t) \/ TickStep(t) \/ MarkRun(t)
    \/ TickStart \/ Crash \/ StartScheduler \/ Pass \/ ChangeZone

Spec == Init /\ [][Next]_vars

\* The interval timer keeps firing and each loop runs to its end; an execution
\* settles, its callback taking its turn between two ticks; the process manager
\* starts a dead daemon again.
Fairness ==
    /\ SF_vars(TickStart) /\ WF_vars(StartScheduler)
    /\ \A t \in Tasks : WF_vars(TickStep(t)) /\ SF_vars(MarkRun(t))

FairSpec == Spec /\ Fairness

-----------------------------------------------------------------------------
(* Properties.                                                              *)

Instants == {{}} \cup {{d} : d \in Floor .. Period}

TaskSet == [enabled : BOOLEAN, kind : Kinds, runAt : Floor .. 1, next : Instants,
            last : Instants, done : Nat]

\* Every variable has its type; the tick's work list lies in its snapshot, and
\* only a recurring task is ever advanced.
TypeOK ==
    /\ Present \subseteq Tasks /\ \A t \in Present : store[t] \in TaskSet
    /\ gone \subseteq Tasks
    /\ up \in BOOLEAN /\ lastTz \in Zones /\ zone \in Zones
    /\ adv \subseteq DOMAIN snap
    /\ DOMAIN snap \subseteq Tasks /\ \A t \in DOMAIN snap : snap[t] \in TaskSet
    /\ DOMAIN plan \subseteq Tasks /\ \A t \in DOMAIN plan : plan[t] \in Instants
    /\ \A t \in adv : snap[t].kind # "once"
    /\ runs \in [Tasks -> 0 .. MaxRuns] /\ clock \in 0 .. Period - 1
    /\ crashes \in 0 .. MaxCrashes /\ moves \in 0 .. MaxZoneChanges /\ flipped \in BOOLEAN
    /\ lastFire \in [Tasks -> Instants]
    /\ refired \subseteq Tasks \X Kinds

\* A recurring task is never fired again for an instant no later than the
\* moment of its previous run, by the tick or from the dashboard, unless its
\* user rescheduled it in between: neither a crash in the middle of a run, nor a
\* run that outlasts the poll, nor a zone change makes it run twice.
RecurringNotRefired == \A r \in refired : r[2] = "once"

\* The same of every task, one-shots included.
NothingRefired == refired = {}

\* A task that was removed, by its user or by reaching its repeat count, is
\* never written back by a tick or a run that still holds a copy of it.
RemovedStaysRemoved == Present \cap gone = {}

\* When no loop is writing, the future instant of an enabled cron task is an
\* occurrence under the zone in force or under the one the last tick saw (and
\* the next tick realigns the latter).  Not so when the zone changes twice
\* between two ticks, back to where it was: the tick compares zones and sees no
\* change, and what was computed under the zone in between stays.
ZoneAligned ==
    up /\ Idle /\ ~flipped =>
        \A t \in Present :
            store[t].enabled /\ store[t].kind = "cron" =>
                \A d \in store[t].next :
                    Past(d) \/ \E z \in {zone, lastTz} : (clock + z + d) % Period = 0

\* An enabled task that is due does not stay due: it is fired, or moved on.
DueHandled ==
    \A t \in Tasks :
        (t \in Present /\ Due(store[t])) ~> ~(t \in Present /\ Due(store[t]))

=============================================================================
