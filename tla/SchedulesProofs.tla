--------------------------- MODULE SchedulesProofs ---------------------------
(***************************************************************************)
(* The scheduler's file stays true to what was fired, for every set of      *)
(* tasks and kinds, every period and grace, every number of deaths, runs    *)
(* and zone changes: SchedulesHold.  And the lock under which that file,    *)
(* like every shared file, is written holds, for any number of processes    *)
(* and deaths: LockIsHeld.                                                  *)
(*                                                                         *)
(* A tick acts on a snapshot while commands of other processes commit       *)
(* between its transactions, and a plan computed at its start is written    *)
(* later.  SchedInv therefore says the same of all three copies of a next   *)
(* run, the file's, the snapshot's and the plan's (Copies): it lies after   *)
(* the last fire or is too late to be fired for; and a recurring task       *)
(* without one was not fired since its user last scheduled it.  Zoned does  *)
(* the same for the zone a next run was computed in.                        *)
(*                                                                         *)
(* Of the lock, LockInv says who has made, holds and breaks each lock file  *)
(* (MakersTrue, LocalsTrue), that below a published epoch all owners are    *)
(* dead (OwnersTrue), so that one live process owns a claim, and that its   *)
(* owner still finds the lock it has observed (KeptTrue).  After a single   *)
(* death there is one abandoned file: as long as it is in place its breaker *)
(* finds what it expects (InPlace), and once it is gone nobody comes as far *)
(* as the unlink again (Gone).  A step is first reduced to its effect on    *)
(* the locals of one process and on the files (Effects).                    *)
(***************************************************************************)
EXTENDS MCSchedules, MCFileLock, FiniteSetTheorems, WellFoundedInduction, TLAPS

(* The instants nx lie after the last fire, or are too late to be fired for. *)
Fresh(nx, fires) == \A d \in nx, f \in fires : d > f \/ -d > Grace

(* A copy of a task, in the file or in a snapshot. *)
CopyOK(k, fires) ==
    /\ k \in TaskSet /\ k.last \subseteq Floor .. 0
    /\ k.kind # "once" => Fresh(k.next, fires) /\ (k.next = {} => fires = {})

(* Which tasks exist, and the daemon's own state. *)
Lives ==
    /\ Present \subseteq Tasks /\ gone \subseteq Tasks /\ Present \cap gone = {}
    /\ up \in BOOLEAN /\ lastTz \in Zones /\ zone \in Zones
    /\ clock \in 0 .. Period - 1 /\ flipped \in BOOLEAN
    /\ crashes \in 0 .. MaxCrashes /\ moves \in 0 .. MaxZoneChanges
    /\ ~up => Idle

(* The work lists of a tick, and the room it left for its executions. *)
Loops ==
    /\ DOMAIN snap \subseteq Present \cup gone /\ DOMAIN plan \subseteq Present \cup gone
    /\ adv \subseteq DOMAIN snap
    /\ runs \in [Tasks -> 0 .. MaxRuns] /\ \A t \in DOMAIN snap : runs[t] < MaxRuns
    /\ \A t \in adv : snap[t].kind # "once" /\ Due(snap[t])

(* The history of fires. *)
Fired ==
    /\ lastFire \in [Tasks -> Instants] /\ \A t \in Tasks : lastFire[t] \subseteq Floor .. 0
    /\ \A t \in Tasks \ (Present \cup gone) : lastFire[t] = {}
    /\ refired \subseteq Tasks \X Kinds /\ \A r \in refired : r[2] = "once"

(* All copies of task t. *)
CopiesOf(t) ==
    /\ t \in Present => CopyOK(store[t], lastFire[t])
    /\ t \in DOMAIN snap => /\ snap[t] \in TaskSet /\ snap[t].last \subseteq Floor .. 0
                            /\ t \notin adv => CopyOK(snap[t], lastFire[t])
                            /\ t \in Present => snap[t].kind = store[t].kind
    /\ t \in DOMAIN plan => /\ plan[t] \in Instants
                            /\ t \in Present /\ store[t].kind # "once"
                                  => plan[t] # {} /\ Fresh(plan[t], lastFire[t])

(* The same of every task. *)
Copies == \A t \in Tasks : CopiesOf(t)

(* An instant that is past, or an occurrence under a zone the next tick can *)
(* tell.                                                                    *)
Anchored(nx) ==
    \A d \in nx : d <= 0 \/ \E z \in {zone, lastTz} : (clock + z + d) % Period = 0

(* The next run of a cron task, where it is going to come from. *)
ZonedTask(t) ==
    t \in Present /\ store[t].kind = "cron" =>
        /\ t \in DOMAIN plan => Anchored(plan[t])
        /\ t \notin DOMAIN plan /\ store[t].enabled => Anchored(store[t].next)

(* Unless the zone flipped unseen. *)
Zoned == up /\ ~flipped => \A t \in Tasks : ZonedTask(t)

(* The inductive invariant. *)
SchedInv == Lives /\ Loops /\ Fired /\ Copies /\ Zoned

-----------------------------------------------------------------------------
(* Sums of two offsets of a day stay below two days. *)
LEMMA Modulo ==
    ASSUME NEW n \in Int
    PROVE  /\ n \in 0 .. Period - 1 => n % Period = n
           /\ n = Period => n % Period = 0
           /\ n = 2 * Period => n % Period = 0
<1>0. Period \in Nat /\ Period > 0
  BY SchedulesAssumption
<1>1. n \in 0 .. Period - 1 => n % Period = n
  BY <1>0, Z3
<1>2. n = Period => n % Period = 0
  BY <1>0, Z3
<1>3. n = 2 * Period => n % Period = 0
  BY <1>0, Z3
<1> QED BY <1>1, <1>2, <1>3

(* After one unit an instant one unit nearer is the same occurrence. *)
LEMMA ModuloPass ==
    ASSUME NEW z \in Zones, NEW d \in 1 .. Period, clock \in 0 .. Period - 1
    PROVE  (((clock + 1) % Period) + z + (d - 1)) % Period = (clock + z + d) % Period
<1>0. Period \in Nat /\ Period > 0 /\ z \in 0 .. Period - 1
  BY SchedulesAssumption
<1>1. CASE clock + 1 < Period
  BY <1>0, <1>1, Modulo
<1>2. CASE clock + 1 = Period
  BY <1>0, <1>2, Modulo, Z3
<1> QED BY <1>0, <1>1, <1>2

(* There is a next occurrence within a day, and it is not now. *)
LEMMA NextFacts ==
    ASSUME clock \in 0 .. Period - 1, zone \in Zones
    PROVE  NextOccurrence(zone) \in 1 .. Period /\ (clock + zone + NextOccurrence(zone)) % Period = 0
<1>0. Period \in Nat /\ Period > 0 /\ zone \in 0 .. Period - 1
  BY SchedulesAssumption
<1>1. \E d \in 1 .. Period : (clock + zone + d) % Period = 0
  <2>1. CASE clock + zone < Period
    <3>1. Period - (clock + zone) \in 1 .. Period /\ clock + zone + (Period - (clock + zone)) = Period
      BY <1>0, <2>1
    <3> QED BY <1>0, <3>1, Modulo
  <2>2. CASE clock + zone >= Period
    <3>1. 2 * Period - (clock + zone) \in 1 .. Period
          /\ clock + zone + (2 * Period - (clock + zone)) = 2 * Period
      BY <1>0, <2>2
    <3> QED BY <1>0, <3>1, Modulo
  <2> QED BY <1>0, <2>1, <2>2
<1> QED BY <1>1 DEF NextOccurrence

(* Floor lies below every instant that is told apart. *)
LEMMA FloorFacts == /\ Floor \in Int /\ Floor < -1 /\ -Floor > Grace + 1 /\ Grace \in Nat
                    /\ Period \in Nat /\ Period > 0
BY SchedulesAssumption DEF Floor

(* The set of instants. *)
LEMMA InstantFacts ==
    /\ {} \in Instants /\ \A d \in Floor .. Period : {d} \in Instants
    /\ \A n \in Instants : n = {} \/ \E d \in Floor .. Period : n = {d}
BY DEF Instants

(* What computeNextRun returns. *)
LEMMA ComputeFacts ==
    ASSUME NEW k \in TaskSet, NEW last \in Instants, last \subseteq Floor .. 0,
           clock \in 0 .. Period - 1, zone \in Zones
    PROVE  /\ ComputeNextRun(k, last) \in Instants
           /\ k.kind # "once" => ComputeNextRun(k, last) # {}
           /\ k.kind # "once" /\ last \in {{}, {0}} => \A d \in ComputeNextRun(k, last) : d > 0
           /\ k.kind = "cron" => ComputeNextRun(k, last) = {NextOccurrence(zone)}
<1>0. k.kind \in {"once", "interval", "cron"} /\ k.runAt \in Floor .. 1
  BY SchedulesAssumption DEF TaskSet
<1>1. CASE k.kind = "once"
  BY <1>0, <1>1, InstantFacts, FloorFacts DEF ComputeNextRun
<1>2. CASE k.kind = "interval"
  <2>1. CASE last = {}
    <3>1. ComputeNextRun(k, last) = {Period}
      BY <1>2, <2>1 DEF ComputeNextRun
    <3> QED BY <1>2, <3>1, InstantFacts, FloorFacts
  <2>2. ASSUME NEW e \in Floor .. 0, last = {e} PROVE ComputeNextRun(k, last) = {e + Period}
    BY <1>2, <2>2 DEF ComputeNextRun
  <2>3. last = {} \/ \E e \in Floor .. 0 : last = {e}
    BY InstantFacts
  <2>4. ASSUME NEW e \in Floor .. 0, last = {e} PROVE e + Period \in Floor .. Period /\ (e = 0 => e + Period > 0)
    BY FloorFacts
  <2> QED BY <1>2, <2>1, <2>2, <2>3, <2>4, InstantFacts
<1>3. CASE k.kind = "cron"
  <2>1. ComputeNextRun(k, last) = {NextOccurrence(zone)}
    BY <1>3 DEF ComputeNextRun
  <2> QED BY <1>3, <2>1, NextFacts, InstantFacts, FloorFacts
<1> QED BY <1>0, <1>1, <1>2, <1>3

(* Occurrences of the zone in force are anchored. *)
LEMMA NextAnchored ==
    ASSUME clock \in 0 .. Period - 1, zone \in Zones
    PROVE  Anchored({NextOccurrence(zone)})
BY NextFacts DEF Anchored

-----------------------------------------------------------------------------
(* A step leaves what concerns task u alone. *)
Same(u) ==
    /\ u \in Present' <=> u \in Present
    /\ u \in Present => store'[u] = store[u]
    /\ u \in DOMAIN snap' <=> u \in DOMAIN snap
    /\ u \in DOMAIN snap => snap'[u] = snap[u]
    /\ u \in DOMAIN plan' <=> u \in DOMAIN plan
    /\ u \in DOMAIN plan => plan'[u] = plan[u]
    /\ u \in adv' <=> u \in adv
    /\ lastFire'[u] = lastFire[u]

(* A step of one task. *)
Of(t) == Command(t) \/ TickStep(t) \/ MarkRun(t)

(* It leaves the other tasks alone, and all but the task's own data. *)
LEMMA Others ==
    ASSUME Fired, NEW t \in Tasks, Of(t)
    PROVE  /\ \A u \in Tasks \ {t} : Same(u)
           /\ UNCHANGED <<up, lastTz, worldVars>>
<1>0. lastFire \in [Tasks -> Instants]
  BY DEF Fired
<1>1. CASE AddTask(t) \/ ImportTask(t) \/ RemoveTask(t)
  BY <1>1 DEF AddTask, ImportTask, RemoveTask, Same, Present, daemonVars, history
<1>2. CASE EnableTask(t) \/ DisableTask(t) \/ RunTaskNow(t) \/ Reschedule(t) \/ RunNow(t)
  BY <1>0, <1>2 DEF EnableTask, DisableTask, RunTaskNow, Reschedule, RunNow, UpdateTask, Forget,
     Same, Present, daemonVars, history
<1>3. CASE TickSkip(t) \/ TickRecover(t) \/ TickFastForward(t)
  BY <1>3 DEF TickSkip, TickRecover, TickFastForward, Done, Same, Present, history
<1>4. CASE TickAdvance(t) \/ TickExecute(t)
  BY <1>0, <1>4 DEF TickAdvance, TickExecute, Done, Fires, Same, Present
<1>5. CASE ApplyPlan(t)
  BY <1>5 DEF ApplyPlan, Same, Present, history
<1>6. CASE MarkRun(t)
  BY <1>6 DEF MarkRun, Same, Present, daemonVars, history
<1> QED
  BY <1>1, <1>2, <1>3, <1>4, <1>5, <1>6 DEF Of, Command, TickStep

(* So it is enough to look at the task itself. *)
LEMMA CopiesFrame ==
    ASSUME NEW u, Same(u), CopiesOf(u) PROVE CopiesOf(u)'
BY DEF Same, CopiesOf, CopyOK, Fresh, Present

(* The same of the zone. *)
LEMMA ZonedFrame ==
    ASSUME NEW u, Same(u), UNCHANGED <<zone, lastTz, clock>>, ZonedTask(u) PROVE ZonedTask(u)'
BY DEF Same, ZonedTask, Anchored, Present

(* A task with another next or last run. *)
SetNext(k, n) == [k EXCEPT !.next = n]
SetLast(k, n) == [k EXCEPT !.last = n]

(* Fields of a task. *)
LEMMA Fields ==
    ASSUME NEW k \in TaskSet
    PROVE  /\ k.enabled \in BOOLEAN /\ k.kind \in Kinds /\ k.runAt \in Floor .. 1
           /\ k.next \in Instants /\ k.last \in Instants /\ k.done \in Nat
BY DEF TaskSet

(* They are tasks again, with one field changed. *)
LEMMA SetFacts ==
    ASSUME NEW k \in TaskSet, NEW n \in Instants
    PROVE  /\ SetNext(k, n) \in TaskSet /\ SetNext(k, n).next = n /\ SetNext(k, n).kind = k.kind
           /\ SetNext(k, n).last = k.last /\ SetNext(k, n).enabled = k.enabled
           /\ SetLast(k, n) \in TaskSet /\ SetLast(k, n).next = k.next /\ SetLast(k, n).kind = k.kind
           /\ SetLast(k, n).last = n /\ SetLast(k, n).enabled = k.enabled
BY DEF TaskSet, SetNext, SetLast

-----------------------------------------------------------------------------
(* Who exists, and the daemon's life. *)
LEMMA LivesStep == SchedInv /\ Next => Lives'
<1> SUFFICES ASSUME SchedInv, Next PROVE Lives'
  OBVIOUS
<1>0. Lives /\ Loops /\ Fired
  BY SchedulesAssumption DEF SchedInv
<1> USE <1>0
<1>1. ASSUME NEW t \in Tasks, Of(t) PROVE Lives'
  <2>1. UNCHANGED <<up, lastTz, zone, clock, crashes, moves, flipped>>
    BY <1>1, Others DEF worldVars
  <2>2. ~up => Idle'
    BY <1>1 DEF Lives, Idle, Of, Command, TickStep, AddTask, ImportTask, RemoveTask, EnableTask, DisableTask,
       RunTaskNow, Reschedule, RunNow, daemonVars, TickSkip, TickRecover, TickFastForward, TickAdvance,
       TickExecute, Considers, ApplyPlan, MarkRun
  <2>3. CASE AddTask(t) \/ ImportTask(t) \/ RemoveTask(t)
    BY <2>1, <2>2, <2>3 DEF Lives, AddTask, ImportTask, RemoveTask, Present
  <2>4. CASE MarkRun(t)
    BY <2>1, <2>2, <2>4 DEF Lives, MarkRun, Present
  <2>5. CASE Present' = Present /\ gone' = gone
    BY <2>1, <2>2, <2>5 DEF Lives
  <2>6. \/ AddTask(t) \/ ImportTask(t) \/ RemoveTask(t) \/ MarkRun(t)
        \/ Present' = Present /\ gone' = gone
    BY <1>1 DEF Of, Command, TickStep, EnableTask, DisableTask, RunTaskNow, Reschedule, RunNow, UpdateTask,
       TickSkip, TickRecover, TickFastForward, TickAdvance, TickExecute, ApplyPlan, Present
  <2> QED BY <2>3, <2>4, <2>5, <2>6
<1>2. CASE TickStart
  BY <1>2 DEF Lives, TickStart, Present
<1>5. CASE Crash
  <2>1. crashes' \in 0 .. MaxCrashes
    BY <1>5, SchedulesAssumption DEF Lives, Crash
  <2>2. Idle'
    BY <1>5 DEF Crash, Idle, Nothing
  <2>3. UNCHANGED <<store, gone, lastTz, zone, clock, moves, flipped>> /\ up' = FALSE
    BY <1>5 DEF Crash
  <2> QED BY <2>1, <2>2, <2>3 DEF Lives, Present
<1>6. CASE StartScheduler
  BY <1>6 DEF Lives, StartScheduler, Present
<1>3. CASE Pass
  <2>1. (clock + 1) % Period \in 0 .. Period - 1
    BY SchedulesAssumption, Modulo DEF Lives
  <2> QED BY <1>3, <2>1 DEF Lives, Pass, Present, daemonVars, Idle
<1>4. CASE ChangeZone
  BY <1>4, SchedulesAssumption DEF Lives, ChangeZone, Present, daemonVars, Idle
<1> QED BY <1>1, <1>2, <1>3, <1>4, <1>5, <1>6 DEF Next, Of

(* The tick's work lists, and the room for its executions. *)
LEMMA LoopsStep == SchedInv /\ Next => Loops'
<1> SUFFICES ASSUME SchedInv, Next PROVE Loops'
  OBVIOUS
<1>0. Lives /\ Loops /\ Fired /\ Copies /\ MaxRuns \in Nat
  BY SchedulesAssumption DEF SchedInv
<1> USE <1>0
<1>1. ASSUME NEW t \in Tasks, Of(t) PROVE Loops'
  <2>0. runs \in [Tasks -> 0 .. MaxRuns] /\ runs[t] \in 0 .. MaxRuns
    BY DEF Loops
  <2>1. CASE AddTask(t) \/ ImportTask(t) \/ RemoveTask(t)
    BY <2>1 DEF Loops, AddTask, ImportTask, RemoveTask, Present, daemonVars
  <2>2. CASE EnableTask(t) \/ DisableTask(t) \/ RunTaskNow(t) \/ Reschedule(t)
    <3>1. Present' = Present /\ UNCHANGED <<gone, snap, plan, adv, runs>>
      BY <2>2 DEF EnableTask, DisableTask, RunTaskNow, Reschedule, UpdateTask, Present, daemonVars
    <3> QED BY <3>1 DEF Loops
  <2>9. CASE TickSkip(t) \/ TickFastForward(t)
    <3>1. t \notin adv
      <4>1. CASE TickFastForward(t)
        BY <4>1 DEF TickFastForward
      <4>2. ASSUME t \in adv PROVE ~TickSkip(t)
        <5>1. Due(snap[t]) /\ snap[t] \in TaskSet
          BY <4>2 DEF Loops, Lives, Copies, CopiesOf
        <5>2. PICK d \in Floor .. Period : snap[t].next = {d}
          BY <5>1, Fields, InstantFacts DEF Due
        <5>3. snap[t].enabled /\ d <= 0
          BY <5>1, <5>2 DEF Due, Past
        <5> QED BY <5>2, <5>3 DEF TickSkip, Past
      <4> QED BY <2>9, <4>1, <4>2
    <3>2. /\ Present' = Present /\ UNCHANGED <<gone, plan, adv, runs>>
          /\ DOMAIN snap' = DOMAIN snap \ {t} /\ \A u \in DOMAIN snap' : snap'[u] = snap[u]
      BY <2>9 DEF TickSkip, TickFastForward, Done, Present
    <3> QED BY <3>1, <3>2 DEF Loops
  <2>3. CASE RunNow(t)
    <3>1. runs' \in [Tasks -> 0 .. MaxRuns]
      BY <2>0, <2>3 DEF RunNow
    <3> QED BY <2>3, <3>1 DEF Loops, RunNow, UpdateTask, Idle, Present, daemonVars
  <2>4. CASE TickRecover(t)
    <3>1. snap[t] \in TaskSet /\ t \in DOMAIN snap
      BY <2>4 DEF TickRecover, Considers, Copies, CopiesOf
    <3>2. snap[t].last \subseteq Floor .. 0 /\ snap[t].last \in Instants
      BY <3>1, Fields DEF Copies, CopiesOf
    <3>3. ComputeNextRun(snap[t], snap[t].last) \in Instants
      BY <3>1, <3>2, ComputeFacts DEF Lives
    <3>4. snap'[t].kind = snap[t].kind /\ DOMAIN snap' = DOMAIN snap
          /\ \A u \in DOMAIN snap : u # t => snap'[u] = snap[u]
      BY <2>4, <3>1, <3>3, SetFacts DEF TickRecover, SetNext
    <3>5. t \notin adv
      BY <2>4 DEF TickRecover, Loops, Due
    <3>6. \A u \in adv : snap'[u] = snap[u]
      BY <3>4, <3>5 DEF Loops
    <3>7. Present' = Present /\ UNCHANGED <<gone, plan, adv, runs>>
      BY <2>4 DEF TickRecover, Present
    <3> QED BY <3>4, <3>6, <3>7 DEF Loops
  <2>5. CASE TickAdvance(t)
    BY <2>5 DEF Loops, TickAdvance, Considers, Present
  <2>6. CASE TickExecute(t)
    <3>1. runs' \in [Tasks -> 0 .. MaxRuns] /\ \A u \in DOMAIN snap : u # t => runs'[u] = runs[u]
      BY <2>0, <2>6 DEF TickExecute, Considers, Loops, Lives
    <3> QED BY <2>6, <3>1 DEF Loops, TickExecute, Done, Present
  <2>7. CASE ApplyPlan(t)
    BY <2>7 DEF Loops, ApplyPlan, Present
  <2>8. CASE MarkRun(t)
    <3>1. runs' \in [Tasks -> 0 .. MaxRuns] /\ DOMAIN snap = {} /\ DOMAIN plan = {}
      BY <2>0, <2>8 DEF MarkRun, Idle
    <3> QED BY <2>8, <3>1 DEF Loops, MarkRun, daemonVars
  <2> QED BY <1>1, <2>1, <2>2, <2>3, <2>4, <2>5, <2>6, <2>7, <2>8, <2>9 DEF Of, Command, TickStep
<1>2. CASE TickStart
  BY <1>2 DEF TickStart, Loops, Idle, Present, PlanCronRealign, Nothing, Lives
<1>3. CASE Crash
  BY <1>3 DEF Crash, Loops, Nothing
<1>4. CASE StartScheduler
  BY <1>4 DEF StartScheduler, Loops, Lives, Idle, Present, PlanCronRealign
<1>5. CASE Pass \/ ChangeZone
  BY <1>5 DEF Pass, ChangeZone, Loops, Present, daemonVars
<1> QED BY <1>1, <1>2, <1>3, <1>4, <1>5 DEF Next, Of

(* Nothing recurring is fired again for an instant it was fired for. *)
LEMMA FiredStep == SchedInv /\ Next => Fired'
<1> SUFFICES ASSUME SchedInv, Next PROVE Fired'
  OBVIOUS
<1>0. Lives /\ Loops /\ Fired /\ Copies
  BY DEF SchedInv
<1>f. /\ lastFire \in [Tasks -> Instants] /\ {} \in Instants /\ {0} \in Instants
      /\ 0 \in Floor .. 0
  BY <1>0, InstantFacts, FloorFacts DEF Fired
<1>a. ASSUME lastFire' = lastFire, refired' = refired,
             Present \cup gone \subseteq Present' \cup gone'
      PROVE  Fired'
  BY <1>0, <1>a DEF Fired
<1>b. ASSUME NEW t \in Present \cup gone, NEW n \in {{}, {0}}, lastFire' = [lastFire EXCEPT ![t] = n],
             Present' = Present, gone' = gone,
             refired' = refired \/ (refired' = refired \cup {<<t, "once">>} /\ "once" \in Kinds)
      PROVE  Fired'
  <2>1. t \in Tasks
    BY <1>0, <1>b DEF Lives
  <2>2. lastFire' \in [Tasks -> Instants] /\ \A u \in Tasks : lastFire'[u] \subseteq Floor .. 0
    BY <1>0, <1>b, <1>f, <2>1 DEF Fired
  <2>3. \A u \in Tasks \ (Present \cup gone) : lastFire'[u] = {}
    BY <1>0, <1>b, <1>f DEF Fired
  <2>4. refired' \subseteq Tasks \X Kinds /\ \A r \in refired' : r[2] = "once"
    BY <1>0, <1>b, <2>1 DEF Fired
  <2> QED BY <1>b, <2>2, <2>3, <2>4 DEF Fired
<1>1. ASSUME NEW t \in Tasks, Of(t) PROVE Fired'
  <2>1. CASE AddTask(t) \/ ImportTask(t) \/ RemoveTask(t)
    BY <2>1, <1>a DEF AddTask, ImportTask, RemoveTask, Present, history
  <2>2. CASE DisableTask(t) \/ TickSkip(t) \/ TickRecover(t) \/ TickFastForward(t) \/ ApplyPlan(t)
    BY <2>2, <1>a DEF DisableTask, UpdateTask, TickSkip, TickRecover, TickFastForward, ApplyPlan, Present, history
  <2>3. CASE EnableTask(t) \/ RunTaskNow(t) \/ Reschedule(t) \/ RunNow(t)
    <3>1. t \in Present /\ Present' = Present /\ gone' = gone /\ refired' = refired
          /\ \E n \in {{}, {0}} : lastFire' = [lastFire EXCEPT ![t] = n]
      BY <2>3 DEF EnableTask, RunTaskNow, Reschedule, RunNow, UpdateTask, Forget, Present
    <3> QED BY <3>1, <1>b
  <2>4. CASE TickAdvance(t)
    <3>1. /\ t \in DOMAIN snap /\ t \notin adv /\ snap[t].kind # "once" /\ snap[t] \in TaskSet
          /\ Fresh(snap[t].next, lastFire[t])
      BY <1>0, <2>4 DEF TickAdvance, Considers, Copies, CopiesOf, CopyOK
    <3>2. Instant(t) \in snap[t].next
      BY <2>4 DEF TickAdvance, Due, Instant
    <3>3. \A f \in lastFire[t] : Instant(t) > f
      BY <2>4, <3>1, <3>2 DEF TickAdvance, Late, Fresh
    <3>4. \A f \in lastFire[t] : ~(Instant(t) <= f)
      <4>1. Instant(t) \in Int /\ \A f \in lastFire[t] : f \in Int
        BY <3>1, <3>2, <1>0, Fields, InstantFacts, FloorFacts DEF Fired
      <4> QED BY <3>3, <4>1
    <3>5. lastFire' = [lastFire EXCEPT ![t] = {0}] /\ refired' = refired
      BY <2>4, <3>4 DEF TickAdvance, Fires
    <3>6. t \in Present \cup gone /\ Present' = Present /\ gone' = gone
      BY <2>4, <3>1, <1>0 DEF Loops, TickAdvance, Present
    <3> QED BY <3>5, <3>6, <1>b
  <2>5. CASE TickExecute(t)
    <3>1. t \in Present \cup gone /\ Present' = Present /\ gone' = gone /\ snap[t] \in TaskSet
      BY <2>5, <1>0 DEF Loops, TickExecute, Present, Considers, Copies, CopiesOf
    <3>2. CASE UNCHANGED <<lastFire, refired>>
      BY <3>1, <3>2, <1>a
    <3>3. CASE snap[t].kind = "once" /\ Fires(t)
      <4>1. "once" \in Kinds
        BY <3>1, <3>3, Fields
      <4> QED BY <3>1, <3>3, <4>1, <1>b DEF Fires
    <3> QED BY <2>5, <3>2, <3>3 DEF TickExecute
  <2>6. CASE MarkRun(t)
    <3>1. Present \cup gone \subseteq Present' \cup gone'
      BY <2>6 DEF MarkRun, Present
    <3> QED BY <2>6, <3>1, <1>a DEF MarkRun, history
  <2> QED BY <1>1, <2>1, <2>2, <2>3, <2>4, <2>5, <2>6 DEF Of, Command, TickStep
<1>2. CASE TickStart \/ Crash \/ StartScheduler \/ ChangeZone
  BY <1>2, <1>a DEF TickStart, Crash, StartScheduler, ChangeZone, Present, history
<1>3. CASE Pass
  <2> DEFINE Earlier(d) == IF d > Floor THEN d - 1 ELSE d
  <2>1. /\ lastFire' = [t \in Tasks |-> {Earlier(d) : d \in lastFire[t]}]
        /\ Present' = Present /\ gone' = gone /\ refired' = refired
    BY <1>3 DEF Pass, Present
  <2>2. \A d \in Floor .. Period : Earlier(d) \in Floor .. Period /\ (d <= 0 => Earlier(d) <= 0)
    BY FloorFacts
  <2> HIDE DEF Earlier
  <2>3. ASSUME NEW t \in Tasks PROVE {Earlier(d) : d \in lastFire[t]} \in Instants
    <3>1. lastFire[t] = {} \/ \E d \in Floor .. Period : lastFire[t] = {d}
      BY <1>f, InstantFacts
    <3>2. ASSUME NEW d \in Floor .. Period, lastFire[t] = {d} PROVE {Earlier(e) : e \in lastFire[t]} = {Earlier(d)}
      BY <3>2
    <3>3. lastFire[t] = {} => {Earlier(e) : e \in lastFire[t]} = {}
      OBVIOUS
    <3>4. CASE lastFire[t] = {}
      BY <3>3, <3>4, InstantFacts
    <3>5. ASSUME NEW d \in Floor .. Period, lastFire[t] = {d} PROVE {Earlier(e) : e \in lastFire[t]} \in Instants
      <4>1. {Earlier(d)} \in Instants
        BY <2>2, InstantFacts
      <4> QED BY <4>1, <3>2, <3>5
    <3> QED BY <3>1, <3>4, <3>5
  <2>4. \A t \in Tasks : \A e \in lastFire'[t] : e \in Floor .. 0
    BY <1>0, <2>1, <2>2, FloorFacts DEF Fired
  <2>5. \A t \in Tasks \ (Present \cup gone) : lastFire'[t] = {}
    BY <1>0, <2>1 DEF Fired
  <2> QED BY <1>0, <2>1, <2>3, <2>4, <2>5 DEF Fired
<1> QED BY <1>1, <1>2, <1>3 DEF Next, Of

-----------------------------------------------------------------------------
(* Instants in the future, or of a task not fired since, are fresh. *)
LEMMA FreshFacts ==
    ASSUME Fired, NEW t \in Tasks, NEW n \in Instants
    PROVE  /\ lastFire[t] = {} => Fresh(n, lastFire[t])
           /\ (\A d \in n : d > 0) => Fresh(n, lastFire[t])
<1>1. \A d \in n : d \in Int
  BY InstantFacts, FloorFacts
<1>2. \A f \in lastFire[t] : f \in Int /\ f <= 0
  BY FloorFacts DEF Fired
<1> QED BY <1>1, <1>2 DEF Fresh

(* A task that markRun leaves in the file. *)
LEMMA MarkedFacts ==
    ASSUME NEW k \in TaskSet, NEW n \in Nat
    PROVE  /\ MarkedRun(k, n) \in TaskSet /\ MarkedRun(k, n).last = {0}
           /\ MarkedRun(k, n).kind = k.kind
           /\ k.kind # "once" => MarkedRun(k, n).next = k.next /\ MarkedRun(k, n).enabled = k.enabled
<1>1. {0} \in Instants /\ {} \in Instants
  BY InstantFacts, FloorFacts
<1> DEFINE once == k.kind = "once"
           d == IF n > 0 THEN k.done + 1 ELSE k.done
           e == k.enabled /\ ~once
           x == IF once THEN {} ELSE k.next
<1>2. d \in Nat /\ e \in BOOLEAN /\ x \in Instants
  BY <1>1, Fields
<1>3. MarkedRun(k, n) = [k EXCEPT !.last = {0}, !.done = d, !.enabled = e, !.next = x]
  BY DEF MarkedRun
<1>4. ~once => x = k.next /\ e = k.enabled
  BY Fields
<1> HIDE DEF d, e, x
<1> QED BY <1>1, <1>2, <1>3, <1>4, Fields DEF TaskSet

(* A task as a command parses it. *)
LEMMA ParsedFacts ==
    ASSUME NEW kind \in Kinds, NEW n \in Instants
    PROVE  /\ Parsed(kind) \in TaskSet /\ Parsed(kind).last = {} /\ Parsed(kind).kind = kind
           /\ Parsed(kind).next = {}
           /\ SetNext(Parsed(kind), n) \in TaskSet /\ SetNext(Parsed(kind), n).last = {}
           /\ SetLast(Parsed(kind), n) \in TaskSet /\ SetLast(Parsed(kind), n).last = n
<1>1. RunAt(kind) \in Floor .. 1 /\ {} \in Instants
  BY FloorFacts, InstantFacts DEF RunAt
<1>2. Parsed(kind) \in TaskSet /\ Parsed(kind).last = {} /\ Parsed(kind).kind = kind /\ Parsed(kind).next = {}
  BY <1>1 DEF Parsed, TaskSet
<1> QED BY <1>2, SetFacts

(* What a step that writes task t to the file leaves there. *)
LEMMA Written ==
    ASSUME NEW t, NEW k, store' = IF t \in Present THEN [store EXCEPT ![t] = k] ELSE store
    PROVE  Present' = Present /\ (t \in Present => store'[t] = k)
BY DEF Present

(* Copies of a task stay true to when it was fired. *)
LEMMA CopiesStep == SchedInv /\ Next => Copies'
<1> SUFFICES ASSUME SchedInv, Next PROVE Copies'
  OBVIOUS
<1>0. Lives /\ Loops /\ Fired /\ Copies
  BY DEF SchedInv
<1>c. clock \in 0 .. Period - 1 /\ zone \in Zones /\ {} \in Instants /\ {0} \in Instants /\ {-1} \in Instants
      /\ 0 \in Floor .. 0 /\ -1 \in Floor .. 0 /\ {} \subseteq Floor .. 0 /\ {0} \subseteq Floor .. 0
      /\ {-1} \subseteq Floor .. 0
  BY <1>0, InstantFacts, FloorFacts DEF Lives
<1>n. \A t \in Present : CopyOK(store[t], lastFire[t]) /\ store[t] \in TaskSet /\ t \in Tasks
  BY <1>0 DEF Copies, CopiesOf, CopyOK, Lives
<1>s. \A t \in DOMAIN snap : /\ t \in Tasks /\ snap[t] \in TaskSet /\ snap[t].last \subseteq Floor .. 0
                             /\ t \notin adv => CopyOK(snap[t], lastFire[t])
                             /\ t \in Present => snap[t].kind = store[t].kind
  BY <1>0 DEF Copies, CopiesOf, Lives, Loops
<1>p. \A t \in DOMAIN plan : /\ t \in Tasks /\ plan[t] \in Instants
                             /\ t \in Present /\ store[t].kind # "once" => plan[t] # {} /\ Fresh(plan[t], lastFire[t])
  BY <1>0 DEF Copies, CopiesOf, Lives, Loops
<1>k. ASSUME NEW k \in TaskSet
      PROVE  /\ ComputeNextRun(k, {}) \in Instants /\ ComputeNextRun(k, {0}) \in Instants
             /\ k.kind # "once" => /\ ComputeNextRun(k, {}) # {} /\ ComputeNextRun(k, {0}) # {}
                                   /\ \A d \in ComputeNextRun(k, {}) : d > 0
                                   /\ \A d \in ComputeNextRun(k, {0}) : d > 0
  BY <1>c, ComputeFacts
<1>F. Fired'
  BY FiredStep
<1>1. ASSUME NEW t \in Tasks, Of(t) PROVE Copies'
  <2>a. ASSUME CopiesOf(t)' PROVE Copies'
    <3>1. ASSUME NEW u \in Tasks \ {t} PROVE CopiesOf(u)'
      BY <1>0, <1>1, Others, CopiesFrame DEF Copies
    <3> QED BY <2>a, <3>1 DEF Copies
  <2>l. ASSUME NEW k \in TaskSet, k.last \subseteq Floor .. 0, lastFire'[t] = {} PROVE CopyOK(k, lastFire'[t])
    BY <2>l DEF CopyOK, Fresh
  <2>1. CASE AddTask(t)
    <3>1. PICK kind \in Kinds :
              store' = [u \in Present \cup {t} |->
                          IF u = t THEN [Parsed(kind) EXCEPT !.next = ComputeNextRun(Parsed(kind), {})] ELSE store[u]]
      BY <2>1 DEF AddTask
    <3> DEFINE n == ComputeNextRun(Parsed(kind), {})
    <3>2. Parsed(kind) \in TaskSet /\ n \in Instants
      BY <1>k, <1>c, ParsedFacts
    <3>3. lastFire'[t] = {} /\ t \notin DOMAIN snap' /\ t \notin DOMAIN plan'
      BY <2>1, <1>0 DEF AddTask, Fired, Loops, history, daemonVars
    <3>4. store'[t] = SetNext(Parsed(kind), n)
      BY <3>1 DEF SetNext
    <3>5. store'[t] \in TaskSet /\ store'[t].last \subseteq Floor .. 0
      BY <3>2, <3>4, ParsedFacts, <1>c
    <3> HIDE DEF n
    <3> QED BY <2>a, <2>l, <3>3, <3>5 DEF CopiesOf
  <2>2. CASE ImportTask(t)
    <3>1. PICK kind \in Kinds, last \in {{}, {-1}} :
              store' = [u \in Present \cup {t} |-> IF u = t THEN [Parsed(kind) EXCEPT !.last = last] ELSE store[u]]
      BY <2>2 DEF ImportTask
    <3>3. lastFire'[t] = {} /\ t \notin DOMAIN snap' /\ t \notin DOMAIN plan'
      BY <2>2, <1>0 DEF ImportTask, Fired, Loops, history, daemonVars
    <3>4. store'[t] = SetLast(Parsed(kind), last) /\ last \in Instants /\ last \subseteq Floor .. 0
      BY <3>1, <1>c DEF SetLast
    <3>5. store'[t] \in TaskSet /\ store'[t].last \subseteq Floor .. 0
      BY <3>4, ParsedFacts
    <3> QED BY <2>a, <2>l, <3>3, <3>5 DEF CopiesOf
  <2>3. CASE RemoveTask(t)
    <3>1. t \notin Present' /\ UNCHANGED <<snap, plan, adv, lastFire>>
      BY <2>3 DEF RemoveTask, Present, daemonVars, history
    <3> QED BY <2>a, <3>1, <1>0 DEF Copies, CopiesOf, CopyOK, Fresh
  <2>4. CASE EnableTask(t) \/ RunTaskNow(t)
    <3>0. t \in Present /\ store[t] \in TaskSet /\ store[t].last \subseteq Floor .. 0
      BY <2>4, <1>n DEF EnableTask, RunTaskNow, CopyOK
    <3>1. lastFire'[t] = {} /\ UNCHANGED <<snap, plan, adv>>
      BY <2>4, <1>0 DEF EnableTask, RunTaskNow, Forget, Fired, daemonVars
    <3>2. \E k : k \in TaskSet /\ k.last = store[t].last /\ k.kind = store[t].kind /\ store' = [store EXCEPT ![t] = k]
      <4>1. CASE EnableTask(t)
        <5> DEFINE k == [store[t] EXCEPT !.enabled = TRUE, !.next = ComputeNextRun(store[t], {})]
        <5>1. ComputeNextRun(store[t], {}) \in Instants
          BY <3>0, <1>k
        <5>2. k \in TaskSet /\ k.last = store[t].last /\ k.kind = store[t].kind
          BY <3>0, <5>1 DEF TaskSet
        <5> QED BY <3>0, <4>1, <5>2 DEF EnableTask, UpdateTask
      <4>2. CASE RunTaskNow(t)
        BY <3>0, <4>2, <1>c, SetFacts DEF RunTaskNow, UpdateTask, SetNext
      <4> QED BY <2>4, <4>1, <4>2
    <3>3. t \in Present' /\ store'[t] \in TaskSet /\ store'[t].last = store[t].last /\ store'[t].kind = store[t].kind
      BY <3>0, <3>2 DEF Present
    <3>4. CopyOK(store[t], lastFire[t])'
      <4>1. store'[t].last \subseteq Floor .. 0
        BY <3>0, <3>3
      <4> QED BY <2>l, <3>1, <3>3, <4>1
    <3>5. t \in DOMAIN snap => CopyOK(snap[t], lastFire[t])'
      BY <2>l, <3>1, <1>s
    <3>7. t \in DOMAIN plan => Fresh(plan[t], lastFire[t])'
      BY <3>1 DEF Fresh
    <3> QED BY <2>a, <3>0, <3>1, <3>3, <3>4, <3>5, <3>7, <1>s, <1>p DEF CopiesOf
  <2>5. CASE DisableTask(t)
    <3>0. t \in Present /\ store[t] \in TaskSet /\ CopyOK(store[t], lastFire[t])
      BY <2>5, <1>n DEF DisableTask
    <3>1. UNCHANGED <<snap, plan, adv, lastFire>> /\ store' = [store EXCEPT ![t] = [store[t] EXCEPT !.enabled = FALSE]]
      BY <2>5, <3>0 DEF DisableTask, UpdateTask, daemonVars, history
    <3>2. t \in Present' /\ store'[t] \in TaskSet /\ store'[t].last = store[t].last
          /\ store'[t].kind = store[t].kind /\ store'[t].next = store[t].next
      BY <3>0, <3>1 DEF Present, TaskSet
    <3>3. CopyOK(store[t], lastFire[t])'
      BY <3>0, <3>1, <3>2 DEF CopyOK, Fresh
    <3>4. t \in DOMAIN snap /\ CopyOK(snap[t], lastFire[t]) => CopyOK(snap[t], lastFire[t])'
      BY <3>1 DEF CopyOK, Fresh
    <3>5. t \in DOMAIN plan /\ Fresh(plan[t], lastFire[t]) => Fresh(plan[t], lastFire[t])'
      BY <3>1 DEF Fresh
    <3> QED BY <2>a, <3>0, <3>1, <3>2, <3>3, <3>4, <3>5, <1>s, <1>p DEF CopiesOf
  <2>6. CASE Reschedule(t)
    <3>0. t \in Present /\ store[t] \in TaskSet /\ store[t].last \subseteq Floor .. 0
      BY <2>6, <1>n DEF Reschedule, CopyOK
    <3>1. lastFire'[t] = {} /\ t \notin DOMAIN snap' /\ t \notin DOMAIN plan'
      BY <2>6, <1>0 DEF Reschedule, Forget, Fired, daemonVars, Idle
    <3>2. PICK kind \in Kinds : LET new == [store[t] EXCEPT !.kind = kind, !.runAt = RunAt(kind)]
                                IN  store' = [store EXCEPT ![t] = [new EXCEPT !.next = ComputeNextRun(new, {})]]
      BY <2>6, <3>0 DEF Reschedule, UpdateTask
    <3> DEFINE new == [store[t] EXCEPT !.kind = kind, !.runAt = RunAt(kind)]
    <3>3. new \in TaskSet /\ new.last = store[t].last
      <4>1. RunAt(kind) \in Floor .. 1
        BY FloorFacts DEF RunAt
      <4> QED BY <4>1, <3>0 DEF TaskSet
    <3>4. store'[t] = SetNext(new, ComputeNextRun(new, {}))
      BY <3>0, <3>2 DEF Present, SetNext
    <3> HIDE DEF new
    <3>5. store'[t] \in TaskSet /\ store'[t].last = store[t].last
      BY <3>3, <3>4, <1>k, SetFacts
    <3> QED BY <2>a, <2>l, <3>0, <3>1, <3>5 DEF CopiesOf
  <2>7. CASE RunNow(t)
    <3>0. t \in Present /\ store[t] \in TaskSet
      BY <2>7, <1>n DEF RunNow
    <3>1. lastFire' = [lastFire EXCEPT ![t] = {0}] /\ t \notin DOMAIN snap' /\ t \notin DOMAIN plan'
      BY <2>7 DEF RunNow, daemonVars, Idle
    <3> DEFINE n == ComputeNextRun(store[t], {0})
               k == [store[t] EXCEPT !.last = {0}, !.next = n]
    <3>2. n \in Instants /\ (store[t].kind # "once" => n # {} /\ \A d \in n : d > 0)
      BY <3>0, <1>k
    <3>3. store'[t] = k
      BY <2>7, <3>0 DEF RunNow, UpdateTask, Present
    <3> HIDE DEF n
    <3>4. k \in TaskSet /\ k.last = {0} /\ k.next = n /\ k.kind = store[t].kind
      BY <3>0, <3>2, <1>c DEF TaskSet
    <3>5. k.kind # "once" => Fresh(n, lastFire'[t])
      <4>1. \A d \in n : d \in Int
        BY <3>2, InstantFacts, FloorFacts
      <4>2. lastFire'[t] = {0}
        BY <3>1, <1>0 DEF Fired
      <4> QED BY <3>2, <3>4, <4>1, <4>2 DEF Fresh
    <3> HIDE DEF k
    <3>6. CopyOK(store[t], lastFire[t])'
      BY <3>2, <3>3, <3>4, <3>5, <1>c DEF CopyOK
    <3> QED BY <2>a, <3>1, <3>6 DEF CopiesOf
  <2>8. CASE TickSkip(t)
    <3>1. t \notin DOMAIN snap' /\ UNCHANGED <<store, plan, lastFire>> /\ DOMAIN plan = {}
      BY <2>8 DEF TickSkip, Done, Considers, history
    <3>2. t \in Present => CopyOK(store[t], lastFire[t])'
      BY <3>1, <1>n DEF CopyOK, Fresh
    <3> QED BY <2>a, <3>1, <3>2 DEF CopiesOf, Present
  <2>9. CASE TickRecover(t)
    <3> DEFINE n == ComputeNextRun(snap[t], snap[t].last)
    <3>0. t \in DOMAIN snap /\ snap[t] \in TaskSet /\ snap[t].last \subseteq Floor .. 0 /\ snap[t].next = {}
          /\ n # {} /\ DOMAIN plan = {}
      BY <2>9, <1>s DEF TickRecover, Considers
    <3>1. n \in Instants
      BY <3>0, <1>c, ComputeFacts, Fields
    <3>2. t \notin adv
      BY <3>0, <1>0 DEF Loops, Due
    <3>3. /\ UNCHANGED <<lastFire, plan, adv>> /\ snap' = [snap EXCEPT ![t] = SetNext(snap[t], n)]
          /\ store' = IF t \in Present THEN [store EXCEPT ![t] = SetNext(store[t], n)] ELSE store
      BY <2>9 DEF TickRecover, history, SetNext
    <3> HIDE DEF n
    <3>4. snap[t].kind # "once" => lastFire'[t] = {}
      BY <3>0, <3>2, <3>3, <1>s DEF CopyOK
    <3>5. t \in DOMAIN snap' /\ snap'[t] = SetNext(snap[t], n)
      BY <3>0, <3>3
    <3>6. Present' = Present /\ (t \in Present => store'[t] = SetNext(store[t], n))
      BY <3>3, Written
    <3>7. snap'[t] \in TaskSet /\ snap'[t].kind = snap[t].kind /\ snap'[t].last = snap[t].last /\ snap'[t].next = n
      BY <3>0, <3>1, <3>5, SetFacts
    <3>8. t \in Present => /\ store'[t] \in TaskSet /\ store'[t].kind = store[t].kind
                           /\ store'[t].last = store[t].last /\ store'[t].next = n
      BY <3>1, <3>6, SetFacts, <1>n
    <3>9. CopyOK(snap[t], lastFire[t])'
      BY <3>0, <3>4, <3>7 DEF CopyOK, Fresh
    <3>10. t \in Present => CopyOK(store[t], lastFire[t])'
      BY <3>0, <3>4, <3>8, <1>s, <1>n DEF CopyOK, Fresh
    <3> QED BY <2>a, <3>0, <3>3, <3>5, <3>6, <3>7, <3>8, <3>9, <3>10, <1>s DEF CopiesOf
  <2>10. CASE TickFastForward(t) \/ TickAdvance(t)
    <3> DEFINE n == ComputeNextRun(snap[t], {0})
    <3>0. /\ t \in DOMAIN snap /\ snap[t] \in TaskSet /\ snap[t].kind # "once" /\ DOMAIN plan = {}
          /\ snap[t].last \subseteq Floor .. 0 /\ (t \in Present => snap[t].kind = store[t].kind)
      BY <2>10, <1>s DEF TickFastForward, TickAdvance, Considers
    <3>1. n \in Instants /\ n # {} /\ \A d \in n : d > 0
      BY <3>0, <1>k
    <3>2. /\ store' = IF t \in Present THEN [store EXCEPT ![t] = SetNext(store[t], n)] ELSE store
          /\ UNCHANGED plan
      BY <2>10 DEF TickFastForward, TickAdvance, SetNext
    <3> HIDE DEF n
    <3>3. Present' = Present /\ (t \in Present => store'[t] = SetNext(store[t], n))
      BY <3>2, Written
    <3>4. t \in Present => /\ store'[t] \in TaskSet /\ store'[t].kind = store[t].kind
                           /\ store'[t].last = store[t].last /\ store'[t].next = n
      BY <3>1, <3>3, SetFacts, <1>n
    <3>5. Fresh(n, lastFire'[t])
      <4>1. \A d \in n : d \in Int
        BY <3>1, InstantFacts, FloorFacts
      <4>2. \A f \in lastFire'[t] : f \in Int /\ f <= 0
        BY <1>F, FloorFacts DEF Fired
      <4> QED BY <3>1, <4>1, <4>2 DEF Fresh
    <3>6. t \in Present => CopyOK(store[t], lastFire[t])'
      BY <3>1, <3>4, <3>5, <1>n DEF CopyOK, Fresh
    <3>7. t \notin DOMAIN snap' \/ (t \in adv' /\ snap' = snap)
      BY <2>10 DEF TickFastForward, TickAdvance, Done
    <3> QED BY <2>a, <3>0, <3>2, <3>3, <3>4, <3>6, <3>7 DEF CopiesOf
  <2>11. CASE TickExecute(t)
    <3>0. t \in DOMAIN snap /\ DOMAIN plan' = {} /\ t \notin DOMAIN snap'
          /\ (t \in Present => snap[t].kind = store[t].kind)
      BY <2>11, <1>s DEF TickExecute, Considers, Done
    <3>1. store' = IF t \in Present THEN [store EXCEPT ![t] = SetLast(store[t], {0})] ELSE store
      BY <2>11 DEF TickExecute, SetLast
    <3>2. Present' = Present /\ (t \in Present => store'[t] = SetLast(store[t], {0}))
      BY <3>1, Written
    <3>3. t \in Present => /\ store'[t] \in TaskSet /\ store'[t].kind = store[t].kind
                           /\ store'[t].last = {0} /\ store'[t].next = store[t].next
      <4> DEFINE z == {0}
      <4>1. z \in Instants
        BY <1>c
      <4>2. t \in Present => store'[t] = SetLast(store[t], z) /\ store[t] \in TaskSet
        BY <3>2, <1>n
      <4> HIDE DEF z
      <4>3. t \in Present => /\ store'[t] \in TaskSet /\ store'[t].kind = store[t].kind
                             /\ store'[t].last = z /\ store'[t].next = store[t].next
        BY <4>1, <4>2, SetFacts
      <4> QED BY <4>3 DEF z
    <3>4. lastFire' = lastFire \/ snap[t].kind = "once"
      BY <2>11 DEF TickExecute
    <3>5. t \in Present => CopyOK(store[t], lastFire[t])'
      BY <3>0, <3>3, <3>4, <1>n, <1>c DEF CopyOK, Fresh
    <3> QED BY <2>a, <3>0, <3>2, <3>5 DEF CopiesOf
  <2>12. CASE ApplyPlan(t)
    <3>0. t \in DOMAIN plan /\ plan[t] \in Instants /\ t \notin DOMAIN plan' /\ UNCHANGED <<snap, adv, lastFire>>
      BY <2>12, <1>p DEF ApplyPlan, history
    <3>1. store' = IF t \in Present THEN [store EXCEPT ![t] = SetNext(store[t], plan[t])] ELSE store
      BY <2>12 DEF ApplyPlan, SetNext
    <3>2. Present' = Present /\ (t \in Present => store'[t] = SetNext(store[t], plan[t]))
      BY <3>1, Written
    <3>3. t \in Present => /\ store'[t] \in TaskSet /\ store'[t].kind = store[t].kind
                           /\ store'[t].last = store[t].last /\ store'[t].next = plan[t]
      BY <3>0, <3>2, SetFacts, <1>n
    <3>4. t \in Present => CopyOK(store[t], lastFire[t])'
      BY <3>0, <3>3, <1>n, <1>p DEF CopyOK, Fresh
    <3>5. t \in DOMAIN snap /\ CopyOK(snap[t], lastFire[t]) => CopyOK(snap[t], lastFire[t])'
      BY <3>0 DEF CopyOK, Fresh
    <3> QED BY <2>a, <3>0, <3>2, <3>3, <3>4, <3>5, <1>s DEF CopiesOf
  <2>13. CASE MarkRun(t)
    <3>0. t \notin DOMAIN snap' /\ t \notin DOMAIN plan' /\ lastFire' = lastFire
      BY <2>13 DEF MarkRun, Idle, daemonVars, history
    <3>1. ASSUME t \in Present'
          PROVE  t \in Present /\ store'[t] = MarkedRun(store[t], Times[t])
      BY <2>13, <3>1 DEF MarkRun, Present
    <3>2. Times[t] \in Nat
      BY SchedulesAssumption
    <3>3. ASSUME t \in Present' PROVE CopyOK(store[t], lastFire[t])'
      <4>1. t \in Present /\ store[t] \in TaskSet /\ CopyOK(store[t], lastFire[t])
        BY <3>1, <3>3, <1>n
      <4>2. /\ store'[t] \in TaskSet /\ store'[t].last = {0} /\ store'[t].kind = store[t].kind
            /\ store[t].kind # "once" => store'[t].next = store[t].next
        BY <4>1, <3>1, <3>3, <3>2, MarkedFacts
      <4> QED BY <3>0, <4>1, <4>2, <1>c DEF CopyOK, Fresh
    <3> QED BY <2>a, <3>0, <3>3 DEF CopiesOf
  <2> QED
    BY <1>1, <2>1, <2>2, <2>3, <2>4, <2>5, <2>6, <2>7, <2>8, <2>9, <2>10, <2>11, <2>12, <2>13
    DEF Of, Command, TickStep
<1>2. CASE TickStart
  <2>1. /\ snap' = store /\ UNCHANGED <<store, adv, lastFire>> /\ DOMAIN snap = {}
        /\ plan' = IF lastTz # zone THEN PlanCronRealign(Present) ELSE Nothing
    BY <1>2 DEF TickStart, Idle, history
  <2>2. adv = {}
    BY <1>0, <2>1 DEF Loops
  <2>3. \A t \in Present : CopyOK(store[t], lastFire[t])'
    BY <2>1, <1>n DEF CopyOK, Fresh
  <2>4. ASSUME NEW t \in DOMAIN plan' PROVE plan'[t] \in Instants /\ plan'[t] # {} /\ Fresh(plan[t], lastFire[t])'
    <3>1. t \in Present /\ store[t].kind = "cron" /\ plan'[t] = ComputeNextRun(store[t], {})
      BY <2>1, <2>4 DEF PlanCronRealign, Nothing
    <3>2. plan'[t] \in Instants /\ plan'[t] # {} /\ \A d \in plan'[t] : d > 0
      BY <3>1, <1>k, <1>n
    <3>3. Fresh(plan'[t], lastFire[t])
      BY <3>1, <3>2, <1>0, <1>n, FreshFacts
    <3> QED BY <3>2, <3>3, <2>1 DEF Fresh
  <2>5. ASSUME NEW t \in Tasks PROVE CopiesOf(t)'
    <3>1. t \in Present => CopyOK(store[t], lastFire[t])' /\ store[t] \in TaskSet /\ store[t].last \subseteq Floor .. 0
      BY <2>3, <1>n DEF CopyOK
    <3> QED BY <2>1, <2>2, <2>4, <3>1 DEF CopiesOf, Present
  <2> QED BY <2>5 DEF Copies
<1>3. CASE Crash
  <2>1. DOMAIN snap' = {} /\ DOMAIN plan' = {} /\ UNCHANGED <<store, lastFire>>
    BY <1>3 DEF Crash, Nothing, history
  <2>2. \A t \in Present : CopyOK(store[t], lastFire[t])'
    BY <2>1, <1>n DEF CopyOK, Fresh
  <2> QED BY <2>1, <2>2 DEF Copies, CopiesOf, Present
<1>4. CASE StartScheduler
  <2>1. /\ DOMAIN snap' = {} /\ UNCHANGED <<store, lastFire>>
    BY <1>4, <1>0 DEF StartScheduler, Lives, Idle, history
  <2>2. \A t \in Present : CopyOK(store[t], lastFire[t])'
    BY <2>1, <1>n DEF CopyOK, Fresh
  <2>3. ASSUME NEW t \in DOMAIN plan'
        PROVE  /\ t \in Present
               /\ \/ store[t].next = {} /\ plan'[t] = ComputeNextRun(store[t], store[t].last)
                  \/ store[t].kind = "cron" /\ plan'[t] = ComputeNextRun(store[t], {})
    BY <1>4, <2>3 DEF StartScheduler, PlanCronRealign
  <2>4. ASSUME NEW t \in DOMAIN plan'
        PROVE  plan'[t] \in Instants /\ (store[t].kind # "once" => plan'[t] # {} /\ Fresh(plan'[t], lastFire[t]))
    <3>1. t \in Present /\ store[t] \in TaskSet /\ CopyOK(store[t], lastFire[t]) /\ t \in Tasks
          /\ store[t].last \in Instants /\ store[t].last \subseteq Floor .. 0
      BY <2>3, <2>4, <1>n, Fields DEF CopyOK
    <3>2. CASE store[t].next = {} /\ plan'[t] = ComputeNextRun(store[t], store[t].last)
      <4>1. plan'[t] \in Instants /\ (store[t].kind # "once" => plan'[t] # {})
        BY <3>1, <3>2, <1>c, ComputeFacts
      <4>2. store[t].kind # "once" => lastFire[t] = {}
        BY <3>1, <3>2 DEF CopyOK
      <4> QED BY <3>1, <4>1, <4>2, <1>0, FreshFacts
    <3>3. CASE store[t].kind = "cron" /\ plan'[t] = ComputeNextRun(store[t], {})
      BY <3>1, <3>3, <1>k, <1>0, FreshFacts
    <3> QED BY <2>3, <2>4, <3>2, <3>3
  <2>5. \A t \in DOMAIN plan' : Fresh(plan'[t], lastFire[t]) => Fresh(plan[t], lastFire[t])'
    BY <2>1 DEF Fresh
  <2> QED BY <2>1, <2>2, <2>4, <2>5 DEF Copies, CopiesOf, Present
<1>5. CASE Pass
  <2> DEFINE E(d) == IF d > Floor THEN d - 1 ELSE d
             Es(n) == {E(d) : d \in n}
  <2>1. /\ DOMAIN snap' = {} /\ DOMAIN plan' = {} /\ lastFire' = [t \in Tasks |-> Es(lastFire[t])]
        /\ store' = [t \in Present |-> [store[t] EXCEPT !.next = Es(store[t].next), !.last = Es(store[t].last),
                                                        !.runAt = E(store[t].runAt)]]
    BY <1>5 DEF Pass, Idle, daemonVars
  <2>2. \A d \in Floor .. Period : E(d) \in Floor .. Period /\ (d <= 0 => E(d) <= 0) /\ (d <= 1 => E(d) <= 1)
    BY FloorFacts
  <2>3. ASSUME NEW d \in Floor .. Period, NEW f \in Floor .. 0, d > f \/ -d > Grace
        PROVE  E(d) > E(f) \/ -E(d) > Grace
    BY <2>3, FloorFacts
  <2> HIDE DEF E
  <2>4. ASSUME NEW n \in Instants PROVE Es(n) \in Instants
    <3>1. CASE n = {}
      <4>1. Es(n) = {}
        BY <3>1
      <4> QED BY <4>1, InstantFacts
    <3>2. ASSUME NEW d \in Floor .. Period, n = {d} PROVE Es(n) \in Instants
      <4>1. Es(n) = {E(d)}
        BY <3>2
      <4> QED BY <4>1, <2>2, InstantFacts
    <3> QED BY <3>1, <3>2, InstantFacts
  <2>5. ASSUME NEW t \in Present PROVE CopyOK(store[t], lastFire[t])'
    <3> DEFINE k == store[t]
               m == [k EXCEPT !.next = Es(k.next), !.last = Es(k.last), !.runAt = E(k.runAt)]
    <3>0. k \in TaskSet /\ k.last \subseteq Floor .. 0 /\ CopyOK(k, lastFire[t]) /\ t \in Tasks
          /\ k.next \in Instants /\ k.last \in Instants /\ k.runAt \in Floor .. 1
      BY <1>n, Fields DEF CopyOK
    <3>1. store'[t] = m
      BY <2>1
    <3>2. Es(k.next) \in Instants /\ Es(k.last) \in Instants /\ E(k.runAt) \in Floor .. 1
      BY <3>0, <2>2, <2>4, FloorFacts
    <3>3. \A d \in k.next : d \in Floor .. Period
      BY <3>0, InstantFacts
    <3>4. \A e \in Es(k.last) : e \in Floor .. 0
      BY <3>0, <2>2, FloorFacts
    <3>5. \A f \in lastFire[t] : f \in Floor .. 0
      BY <3>0, <1>0 DEF Fired
    <3>6. k.kind # "once" => Fresh(Es(k.next), lastFire'[t])
      <4>1. lastFire'[t] = Es(lastFire[t])
        BY <2>1, <3>0
      <4>2. ASSUME k.kind # "once" PROVE \A d \in k.next, f \in lastFire[t] : d > f \/ -d > Grace
        BY <3>0, <4>2 DEF CopyOK, Fresh
      <4>3. ASSUME k.kind # "once" PROVE \A d \in k.next, f \in lastFire[t] : E(d) > E(f) \/ -E(d) > Grace
        BY <3>3, <3>5, <4>2, <4>3, <2>3
      <4> QED BY <4>1, <4>3 DEF Fresh
    <3>7. k.kind # "once" /\ Es(k.next) = {} => lastFire'[t] = {}
      <4>1. Es(k.next) = {} => k.next = {}
        OBVIOUS
      <4> QED BY <2>1, <3>0, <4>1 DEF CopyOK
    <3> HIDE DEF Es, k
    <3>8. m \in TaskSet /\ m.kind = k.kind /\ m.next = Es(k.next) /\ m.last = Es(k.last)
      BY <3>0, <3>2 DEF TaskSet
    <3> HIDE DEF m
    <3> QED BY <3>1, <3>4, <3>6, <3>7, <3>8 DEF CopyOK
  <2> QED BY <2>1, <2>5 DEF Copies, CopiesOf, Present
<1>6. CASE ChangeZone
  BY <1>6, <1>0 DEF ChangeZone, daemonVars, history, Copies, CopiesOf, CopyOK, Fresh, Present
<1> QED BY <1>1, <1>2, <1>3, <1>4, <1>5, <1>6 DEF Next, Of

-----------------------------------------------------------------------------
(* While the zone does not change twice unseen, the future instants of cron *)
(* tasks are occurrences under the zone in force or the one last seen.      *)
LEMMA ZonedStep == SchedInv /\ Next => Zoned'
<1> SUFFICES ASSUME SchedInv, Next, up', ~flipped' PROVE \A t \in Tasks : ZonedTask(t)'
  BY DEF Zoned
<1>0. Lives /\ Loops /\ Fired /\ Copies /\ Zoned
  BY DEF SchedInv
<1>c. clock \in 0 .. Period - 1 /\ zone \in Zones /\ lastTz \in Zones /\ {} \in Instants /\ {0} \in Instants
      /\ {} \subseteq Floor .. 0 /\ {0} \subseteq Floor .. 0
  BY <1>0, InstantFacts, FloorFacts DEF Lives
<1>n. \A t \in Present : store[t] \in TaskSet /\ t \in Tasks /\ store[t].last \subseteq Floor .. 0
                         /\ store[t].next \in Instants /\ store[t].last \in Instants
  BY <1>0, Fields DEF Copies, CopiesOf, CopyOK, Lives
<1>s. \A t \in DOMAIN snap : /\ snap[t] \in TaskSet /\ snap[t].last \subseteq Floor .. 0
                             /\ snap[t].last \in Instants
                             /\ t \in Present => snap[t].kind = store[t].kind
  BY <1>0, Fields DEF Copies, CopiesOf, Lives, Loops
<1>k. ASSUME NEW k \in TaskSet, k.kind = "cron", NEW last \in Instants, last \subseteq Floor .. 0
      PROVE  ComputeNextRun(k, last) = {NextOccurrence(zone)}
  BY <1>c, <1>k, ComputeFacts
<1>o. Anchored({NextOccurrence(zone)})
  BY <1>c, NextAnchored
<1>1. ASSUME NEW t \in Tasks, Of(t) PROVE \A u \in Tasks : ZonedTask(u)'
  <2>0. UNCHANGED <<up, flipped, zone, lastTz, clock>> /\ \A u \in Tasks : ZonedTask(u)
    BY <1>0, <1>1, Others DEF worldVars, Zoned
  <2>a. ASSUME ZonedTask(t)' PROVE \A u \in Tasks : ZonedTask(u)'
    <3>1. ASSUME NEW u \in Tasks \ {t} PROVE ZonedTask(u)'
      BY <1>0, <1>1, <2>0, Others, ZonedFrame
    <3> QED BY <2>a, <3>1
  <2>w. ASSUME t \in Present => t \in Present' /\ store'[t].kind = store[t].kind
                                /\ (store'[t].enabled => store[t].enabled),
               t \in Present' => t \in Present,
               UNCHANGED plan,
               t \in Present /\ store[t].kind = "cron" => store'[t].next \in {store[t].next, {NextOccurrence(zone)}}
        PROVE  \A u \in Tasks : ZonedTask(u)'
    <3>1. ZonedTask(t)
      BY <2>0
    <3>2. \A n : Anchored(n) => \A d \in n : d <= 0 \/ \E z \in {zone', lastTz'} : (clock' + z + d) % Period = 0
      BY <2>0 DEF Anchored
    <3>3. ZonedTask(t)'
      BY <2>w, <3>1, <3>2, <1>o DEF ZonedTask, Anchored
    <3> QED BY <2>a, <3>3
  <2>v. ASSUME t \in DOMAIN plan => t \in DOMAIN plan' /\ plan'[t] = plan[t], t \in DOMAIN plan' => t \in DOMAIN plan,
               t \in Present', t \in Present,
               t \in DOMAIN plan => store'[t].kind = store[t].kind,
               store'[t].kind = "cron" => \/ store'[t].next = {NextOccurrence(zone)}
                                          \/ \A d \in store'[t].next : d <= 0
        PROVE  \A u \in Tasks : ZonedTask(u)'
    <3>1. ZonedTask(t)
      BY <2>0
    <3>2. \A n : Anchored(n) => \A d \in n : d <= 0 \/ \E z \in {zone', lastTz'} : (clock' + z + d) % Period = 0
      BY <2>0 DEF Anchored
    <3>3. ZonedTask(t)'
      BY <2>v, <3>1, <3>2, <1>o DEF ZonedTask, Anchored
    <3> QED BY <2>a, <3>3
  <2>1. CASE AddTask(t)
    <3>1. PICK kind \in Kinds :
              store' = [u \in Present \cup {t} |->
                          IF u = t THEN [Parsed(kind) EXCEPT !.next = ComputeNextRun(Parsed(kind), {})] ELSE store[u]]
      BY <2>1 DEF AddTask
    <3> DEFINE n == ComputeNextRun(Parsed(kind), {})
    <3>2. Parsed(kind) \in TaskSet /\ Parsed(kind).kind = kind
      BY <1>c, ParsedFacts
    <3>3. n \in Instants /\ (kind = "cron" => n = {NextOccurrence(zone)})
      BY <3>2, <1>c, ComputeFacts
    <3>4. store'[t] = SetNext(Parsed(kind), n)
      BY <3>1 DEF SetNext
    <3> HIDE DEF n
    <3>5. store'[t].kind = kind /\ store'[t].next = n
      BY <3>2, <3>3, <3>4, SetFacts
    <3>6. t \notin DOMAIN plan'
      BY <2>1, <1>0 DEF AddTask, Loops, daemonVars
    <3>7. ZonedTask(t)'
      <4>1. store'[t].kind = "cron" => Anchored(store[t].next)'
        BY <3>3, <3>5, <1>o, <2>0 DEF Anchored
      <4> QED BY <3>6, <4>1 DEF ZonedTask
    <3> QED BY <2>a, <3>7
  <2>2. CASE ImportTask(t)
    <3>1. PICK kind \in Kinds, last \in {{}, {-1}} :
              store' = [u \in Present \cup {t} |-> IF u = t THEN [Parsed(kind) EXCEPT !.last = last] ELSE store[u]]
      BY <2>2 DEF ImportTask
    <3>2. last \in Instants
      <4>1. -1 \in Floor .. Period
        BY FloorFacts
      <4>2. {} \in Instants /\ {-1} \in Instants
        BY <4>1, InstantFacts
      <4> QED BY <4>2
    <3>3. store'[t] = SetLast(Parsed(kind), last)
      BY <3>1 DEF SetLast
    <3>4. store'[t].next = {}
      BY <3>2, <3>3, ParsedFacts, SetFacts
    <3>5. t \notin DOMAIN plan'
      BY <2>2, <1>0 DEF ImportTask, Loops, daemonVars
    <3> QED BY <2>a, <3>4, <3>5 DEF ZonedTask, Anchored
  <2>3. CASE RemoveTask(t)
    <3>1. t \notin Present'
      BY <2>3 DEF RemoveTask, Present
    <3> QED BY <2>a, <3>1 DEF ZonedTask
  <2>4. CASE EnableTask(t)
    <3>0. t \in Present /\ store[t] \in TaskSet
      BY <2>4, <1>n DEF EnableTask
    <3> DEFINE n == ComputeNextRun(store[t], {})
               k == [store[t] EXCEPT !.enabled = TRUE, !.next = n]
    <3>1. n \in Instants /\ (store[t].kind = "cron" => n = {NextOccurrence(zone)})
      BY <3>0, <1>c, ComputeFacts
    <3>2. Present' = Present /\ store'[t] = k /\ UNCHANGED plan
      BY <2>4, <3>0 DEF EnableTask, UpdateTask, Present, daemonVars
    <3> HIDE DEF n
    <3>3. k.kind = store[t].kind /\ k.next = n
      BY <3>0, <3>1 DEF TaskSet
    <3> HIDE DEF k
    <3> QED BY <3>0, <3>1, <3>2, <3>3, <2>v
  <2>5. CASE RunTaskNow(t)
    <3>0. t \in Present /\ store[t] \in TaskSet
      BY <2>5, <1>n DEF RunTaskNow
    <3>1. Present' = Present /\ store'[t] = SetNext(store[t], {0}) /\ UNCHANGED plan
      BY <2>5, <3>0 DEF RunTaskNow, UpdateTask, Present, daemonVars, SetNext
    <3>2. store'[t].kind = store[t].kind /\ store'[t].next = {0}
      BY <3>0, <3>1 DEF SetNext, TaskSet
    <3> QED BY <3>0, <3>1, <3>2, <2>v
  <2>6. CASE DisableTask(t)
    <3>0. t \in Present /\ store[t] \in TaskSet
      BY <2>6, <1>n DEF DisableTask
    <3>1. UNCHANGED plan /\ Present' = Present /\ store'[t] = [store[t] EXCEPT !.enabled = FALSE]
      BY <2>6, <3>0 DEF DisableTask, UpdateTask, daemonVars, Present
    <3>2. store'[t].kind = store[t].kind /\ store'[t].next = store[t].next /\ store'[t].enabled = FALSE
      BY <3>0, <3>1 DEF TaskSet
    <3> QED BY <3>0, <3>1, <3>2, <2>w
  <2>7. CASE Reschedule(t)
    <3>0. t \in Present /\ store[t] \in TaskSet /\ DOMAIN plan = {} /\ plan' = plan
      BY <2>7, <1>n DEF Reschedule, Idle, daemonVars
    <3>2. PICK kind \in Kinds : LET new == [store[t] EXCEPT !.kind = kind, !.runAt = RunAt(kind)]
                                IN  store' = [store EXCEPT ![t] = [new EXCEPT !.next = ComputeNextRun(new, {})]]
      BY <2>7, <3>0 DEF Reschedule, UpdateTask
    <3> DEFINE new == [store[t] EXCEPT !.kind = kind, !.runAt = RunAt(kind)]
    <3>3. new \in TaskSet /\ new.kind = kind
      <4>1. RunAt(kind) \in Floor .. 1
        BY FloorFacts DEF RunAt
      <4> QED BY <4>1, <3>0 DEF TaskSet
    <3>4. t \in Present' /\ store'[t] = SetNext(new, ComputeNextRun(new, {}))
      BY <3>0, <3>2 DEF Present, SetNext
    <3> HIDE DEF new
    <3>5. ComputeNextRun(new, {}) \in Instants /\ (kind = "cron" => ComputeNextRun(new, {}) = {NextOccurrence(zone)})
      BY <3>3, <1>c, ComputeFacts
    <3>6. store'[t].kind = kind /\ store'[t].next = ComputeNextRun(new, {})
      BY <3>3, <3>4, <3>5, SetFacts
    <3> QED BY <3>0, <3>4, <3>5, <3>6, <2>v
  <2>8. CASE RunNow(t)
    <3>0. t \in Present /\ store[t] \in TaskSet /\ plan' = plan /\ DOMAIN plan = {}
      BY <2>8, <1>n DEF RunNow, Idle, daemonVars
    <3> DEFINE n == ComputeNextRun(store[t], {0})
               k == [store[t] EXCEPT !.last = {0}, !.next = n]
    <3>1. n \in Instants /\ (store[t].kind = "cron" => n = {NextOccurrence(zone)})
      BY <3>0, <1>c, ComputeFacts
    <3>2. t \in Present' /\ store'[t] = k
      BY <2>8, <3>0 DEF RunNow, UpdateTask, Present
    <3> HIDE DEF n
    <3>3. k.kind = store[t].kind /\ k.next = n
      BY <3>0, <3>1 DEF TaskSet
    <3> HIDE DEF k
    <3> QED BY <3>0, <3>1, <3>2, <3>3, <2>v
  <2>9. CASE TickSkip(t)
    BY <2>9, <2>w DEF TickSkip, Present
  <2>10. CASE TickRecover(t) \/ TickFastForward(t) \/ TickAdvance(t)
    <3>0. t \in DOMAIN snap /\ snap[t] \in TaskSet /\ UNCHANGED plan
      BY <2>10, <1>s DEF TickRecover, TickFastForward, TickAdvance, Considers
    <3>1. PICK last \in {snap[t].last, {0}} :
             store' = IF t \in Present THEN [store EXCEPT ![t] = SetNext(store[t], ComputeNextRun(snap[t], last))] ELSE store
      BY <2>10 DEF TickRecover, TickFastForward, TickAdvance, SetNext
    <3> DEFINE n == ComputeNextRun(snap[t], last)
    <3>2. last \in Instants /\ last \subseteq Floor .. 0
      BY <3>0, <1>c, <1>s
    <3>3. n \in Instants /\ (snap[t].kind = "cron" => n = {NextOccurrence(zone)})
      BY <3>0, <3>2, <1>c, ComputeFacts
    <3>4. Present' = Present /\ (t \in Present => store'[t] = SetNext(store[t], n))
      BY <3>1, Written
    <3> HIDE DEF n
    <3>5. t \in Present => store'[t].kind = store[t].kind /\ store'[t].next = n /\ store'[t].enabled = store[t].enabled
      BY <3>3, <3>4, SetFacts, <1>n
    <3> QED BY <3>0, <3>3, <3>4, <3>5, <2>w, <1>s
  <2>11. CASE TickExecute(t)
    <3>0. UNCHANGED plan
      BY <2>11 DEF TickExecute
    <3>1. store' = IF t \in Present THEN [store EXCEPT ![t] = SetLast(store[t], {0})] ELSE store
      BY <2>11 DEF TickExecute, SetLast
    <3>2. Present' = Present /\ (t \in Present => store'[t] = SetLast(store[t], {0}))
      BY <3>1, Written
    <3>3. t \in Present => store'[t].kind = store[t].kind /\ store'[t].next = store[t].next /\ store'[t].enabled = store[t].enabled
      <4>1. SUFFICES ASSUME t \in Present
                     PROVE  store'[t].kind = store[t].kind /\ store'[t].next = store[t].next /\ store'[t].enabled = store[t].enabled
        OBVIOUS
      <4>2. store[t] \in TaskSet /\ store'[t] = [store[t] EXCEPT !.last = {0}]
        BY <4>1, <3>2, <1>n DEF SetLast
      <4> QED BY <4>2 DEF TaskSet
    <3> QED BY <3>0, <3>2, <3>3, <2>w
  <2>12. CASE ApplyPlan(t)
    <3>0. t \in DOMAIN plan /\ plan[t] \in Instants /\ t \notin DOMAIN plan'
      BY <2>12, <1>0 DEF ApplyPlan, Copies, CopiesOf
    <3>1. store' = IF t \in Present THEN [store EXCEPT ![t] = SetNext(store[t], plan[t])] ELSE store
      BY <2>12 DEF ApplyPlan, SetNext
    <3>2. Present' = Present /\ (t \in Present => store'[t] = SetNext(store[t], plan[t]))
      BY <3>1, Written
    <3>3. t \in Present => store'[t].kind = store[t].kind /\ store'[t].next = plan[t]
      BY <3>0, <3>2, SetFacts, <1>n
    <3>4. t \in Present /\ store[t].kind = "cron" => Anchored(plan[t])
      BY <2>0, <3>0 DEF ZonedTask
    <3>5. \A n : Anchored(n) => \A d \in n : d <= 0 \/ \E z \in {zone', lastTz'} : (clock' + z + d) % Period = 0
      BY <2>0 DEF Anchored
    <3>6. ZonedTask(t)'
      BY <3>0, <3>2, <3>3, <3>4, <3>5 DEF ZonedTask, Anchored
    <3> QED BY <2>a, <3>6
  <2>13. CASE MarkRun(t)
    <3>0. UNCHANGED plan /\ Times[t] \in Nat
      BY <2>13, SchedulesAssumption DEF MarkRun, daemonVars
    <3>1. ASSUME t \in Present' PROVE t \in Present /\ store'[t] = MarkedRun(store[t], Times[t])
      BY <2>13, <3>1 DEF MarkRun, Present
    <3>2. CASE t \notin Present'
      BY <2>a, <3>2 DEF ZonedTask
    <3>3. CASE t \in Present'
      <4>1. /\ store'[t].kind = store[t].kind
            /\ store[t].kind # "once" => store'[t].next = store[t].next /\ store'[t].enabled = store[t].enabled
        BY <3>0, <3>1, <3>3, <1>n, MarkedFacts
      <4>2. CASE store[t].kind = "once"
        BY <4>1, <4>2, <2>a DEF ZonedTask
      <4>3. CASE store[t].kind # "once"
        BY <4>1, <4>3, <3>0, <3>1, <3>3, <2>w
      <4> QED BY <4>2, <4>3
    <3> QED BY <3>2, <3>3
  <2> QED
    BY <1>1, <2>1, <2>2, <2>3, <2>4, <2>5, <2>6, <2>7, <2>8, <2>9, <2>10, <2>11, <2>12, <2>13
    DEF Of, Command, TickStep
<1>2. CASE TickStart
  <2>1. /\ UNCHANGED <<store, up, zone, clock>> /\ lastTz' = zone /\ DOMAIN plan = {}
        /\ plan' = IF lastTz # zone THEN PlanCronRealign(Present) ELSE Nothing
        /\ flipped' = (flipped /\ lastTz = zone)
    BY <1>2 DEF TickStart, Idle
  <2>3. ASSUME NEW t \in Present, store[t].kind = "cron"
        PROVE  ComputeNextRun(store[t], {}) = {NextOccurrence(zone)}
    BY <2>3, <1>k, <1>n, <1>c
  <2>4. CASE lastTz = zone
    <3>1. DOMAIN plan' = {} /\ ~flipped /\ up
      BY <2>1, <2>4 DEF Nothing
    <3> QED BY <1>0, <2>1, <2>4, <3>1 DEF Zoned, ZonedTask, Anchored, Present
  <2>5. CASE lastTz # zone
    <3>0. \A t \in Present : store'[t] = store[t]
      BY <2>1
    <3>1. ASSUME NEW t \in Present, store[t].kind = "cron", t \in DOMAIN plan'
          PROVE  plan'[t] = {NextOccurrence(zone)}
      BY <2>1, <2>3, <2>5, <3>1 DEF PlanCronRealign
    <3>2. ASSUME NEW t \in Present, store[t].kind = "cron", store[t].enabled, t \notin DOMAIN plan'
          PROVE  store[t].next = {NextOccurrence(zone)}
      BY <2>1, <2>3, <2>5, <3>2 DEF PlanCronRealign
    <3>4. \A d \in {NextOccurrence(zone)} : d <= 0 \/ \E z \in {zone', lastTz'} : (clock' + z + d) % Period = 0
      BY <2>1, NextFacts, <1>c
    <3>5. Present' = Present
      BY <2>1 DEF Present
    <3> QED BY <3>0, <3>1, <3>2, <3>4, <3>5 DEF ZonedTask, Anchored
  <2> QED BY <2>4, <2>5
<1>3. CASE Crash
  BY <1>3 DEF Crash
<1>4. CASE StartScheduler
  <2> DEFINE missing == {t \in Present : /\ store[t].enabled /\ store[t].next = {}
                                         /\ ComputeNextRun(store[t], store[t].last) # {}}
             realign == PlanCronRealign({t \in Present : \E d \in store[t].next : ~Past(d)})
  <2>1. /\ UNCHANGED <<store, zone, clock>> /\ lastTz' = zone /\ Present' = Present
        /\ plan' = [t \in missing \cup DOMAIN realign |->
                      IF t \in missing THEN ComputeNextRun(store[t], store[t].last) ELSE realign[t]]
    BY <1>4 DEF StartScheduler, Present
  <2>2. ASSUME NEW t \in Present, store[t].kind = "cron"
        PROVE  /\ ComputeNextRun(store[t], {}) = {NextOccurrence(zone)}
               /\ ComputeNextRun(store[t], store[t].last) = {NextOccurrence(zone)}
    BY <2>2, <1>k, <1>n, <1>c
  <2>3. DOMAIN realign = {t \in Present : /\ \E d \in store[t].next : ~Past(d)
                                          /\ store[t].enabled /\ store[t].kind = "cron"
                                          /\ ComputeNextRun(store[t], {}) # store[t].next}
        /\ \A t \in DOMAIN realign : realign[t] = ComputeNextRun(store[t], {})
    BY DEF PlanCronRealign
  <2> HIDE DEF realign
  <2>4. ASSUME NEW t \in Present, store[t].kind = "cron", t \in DOMAIN plan'
        PROVE  plan'[t] = {NextOccurrence(zone)}
    BY <2>1, <2>2, <2>3, <2>4
  <2>5. ASSUME NEW t \in Present, store[t].kind = "cron", store[t].enabled, t \notin DOMAIN plan'
        PROVE  store[t].next = {NextOccurrence(zone)} \/ \A d \in store[t].next : d <= 0
    BY <2>1, <2>2, <2>3, <2>5 DEF Past
  <2>6. \A d \in {NextOccurrence(zone)} : d <= 0 \/ \E z \in {zone', lastTz'} : (clock' + z + d) % Period = 0
    BY <2>1, NextFacts, <1>c
  <2>7. \A t \in Present : store'[t] = store[t]
    BY <2>1
  <2> HIDE DEF missing
  <2>8. ASSUME NEW t \in Present, store[t].kind = "cron", store[t].enabled PROVE Anchored(store[t].next)' \/ t \in DOMAIN plan'
    BY <2>5, <2>6, <2>7, <2>8 DEF Anchored
  <2>9. ASSUME NEW t \in Present, store[t].kind = "cron", t \in DOMAIN plan' PROVE Anchored(plan[t])'
    BY <2>4, <2>6, <2>9 DEF Anchored
  <2> QED BY <2>1, <2>7, <2>8, <2>9 DEF ZonedTask
<1>5. CASE Pass
  <2> DEFINE E(d) == IF d > Floor THEN d - 1 ELSE d
  <2>1. /\ UNCHANGED <<up, flipped, zone, lastTz, plan>> /\ DOMAIN plan = {} /\ clock' = (clock + 1) % Period
        /\ store' = [t \in Present |-> [store[t] EXCEPT !.next = {E(d) : d \in store[t].next},
                                                        !.last = {E(d) : d \in store[t].last},
                                                        !.runAt = E(store[t].runAt)]]
    BY <1>5 DEF Pass, Idle, daemonVars
  <2>2. ASSUME NEW t \in Present
        PROVE  /\ store'[t].kind = store[t].kind /\ store'[t].enabled = store[t].enabled
               /\ store'[t].next = {E(d) : d \in store[t].next}
    <3> DEFINE k == store[t]
               n == {E(d) : d \in k.next}
               x == {E(d) : d \in k.last}
               e == E(k.runAt)
               m == [k EXCEPT !.next = n, !.last = x, !.runAt = e]
    <3>1. store'[t] = m /\ k \in TaskSet
      BY <2>1, <1>n
    <3> HIDE DEF n, x, e
    <3>2. m.kind = k.kind /\ m.enabled = k.enabled /\ m.next = n
      BY <3>1 DEF TaskSet
    <3> QED BY <3>1, <3>2 DEF n
  <2>3. ASSUME NEW d \in Floor .. Period, d <= 0 \/ \E z \in {zone, lastTz} : (clock + z + d) % Period = 0
        PROVE  E(d) <= 0 \/ \E z \in {zone', lastTz'} : (clock' + z + E(d)) % Period = 0
    <3>1. CASE d <= 1
      BY <3>1, FloorFacts
    <3>2. CASE d > 1
      <4>1. d \in 1 .. Period /\ E(d) = d - 1
        BY <3>2, FloorFacts
      <4>2. PICK z \in {zone, lastTz} : (clock + z + d) % Period = 0
        BY <2>3, <3>2, FloorFacts
      <4>3. (clock' + z + (d - 1)) % Period = 0
        BY <2>1, <4>1, <4>2, <1>c, ModuloPass
      <4> QED BY <2>1, <4>1, <4>2, <4>3
    <3> QED BY <3>1, <3>2, FloorFacts
  <2> HIDE DEF E
  <2>4. ASSUME NEW t \in Present, store[t].kind = "cron", store[t].enabled
        PROVE  \A d \in store[t].next : d \in Floor .. Period
                  /\ (d <= 0 \/ \E z \in {zone, lastTz} : (clock + z + d) % Period = 0)
    <3>1. \A d \in store[t].next : d \in Floor .. Period
      BY <1>n, InstantFacts
    <3>2. Anchored(store[t].next)
      BY <1>0, <1>n, <2>1, <2>4 DEF Zoned, ZonedTask
    <3> QED BY <3>1, <3>2 DEF Anchored
  <2>5. Present' = Present
    BY <2>1 DEF Present
  <2>6. ASSUME NEW t \in Present, store[t].kind = "cron", store[t].enabled
        PROVE  \A e \in store'[t].next : e <= 0 \/ \E z \in {zone', lastTz'} : (clock' + z + e) % Period = 0
    BY <2>2, <2>3, <2>4, <2>6
  <2> QED BY <2>1, <2>2, <2>5, <2>6 DEF ZonedTask, Anchored
<1>6. CASE ChangeZone
  <2>1. UNCHANGED <<store, plan, up, lastTz, clock>> /\ ~flipped /\ lastTz = zone /\ Present' = Present
    BY <1>6 DEF ChangeZone, daemonVars, Present
  <2> QED BY <1>0, <2>1 DEF Zoned, ZonedTask, Anchored
<1> QED BY <1>1, <1>2, <1>3, <1>4, <1>5, <1>6 DEF Next, Of

-----------------------------------------------------------------------------
(* An empty file has nothing to go wrong. *)
LEMMA SchedInit == Init => SchedInv
<1> SUFFICES ASSUME Init PROVE SchedInv
  OBVIOUS
<1>1. DOMAIN store = {} /\ DOMAIN snap = {} /\ DOMAIN plan = {} /\ adv = {} /\ gone = {}
  BY DEF Init, Nothing
<1>2. Lives
  <2>1. Idle
    BY <1>1 DEF Idle
  <2>2. clock \in 0 .. Period - 1 /\ crashes \in 0 .. MaxCrashes /\ moves \in 0 .. MaxZoneChanges
    BY SchedulesAssumption DEF Init
  <2>3. up \in BOOLEAN /\ flipped \in BOOLEAN /\ lastTz \in Zones /\ zone \in Zones
    BY DEF Init
  <2> QED BY <1>1, <2>1, <2>2, <2>3 DEF Lives, Present
<1>3. Loops
  <2>1. runs \in [Tasks -> 0 .. MaxRuns]
    BY SchedulesAssumption DEF Init
  <2> QED BY <1>1, <2>1 DEF Loops, Present
<1>4. Fired
  <2>1. lastFire = [t \in Tasks |-> {}] /\ refired = {} /\ {} \in Instants
    BY InstantFacts DEF Init
  <2>2. lastFire \in [Tasks -> Instants] /\ \A t \in Tasks : lastFire[t] = {}
    BY <2>1
  <2> QED BY <2>1, <2>2 DEF Fired
<1>5. Copies /\ Zoned
  BY <1>1 DEF Copies, CopiesOf, Zoned, ZonedTask, Present
<1> QED BY <1>2, <1>3, <1>4, <1>5 DEF SchedInv

(* A stuttering step. *)
LEMMA SchedStutter == SchedInv /\ UNCHANGED vars => SchedInv'
BY DEF SchedInv, vars, Lives, Loops, Fired, Copies, CopiesOf, CopyOK, Fresh, Zoned, ZonedTask, Anchored,
   Present, Idle, Due, Past

(* The inductive invariant holds in every reachable state. *)
LEMMA SchedInvHolds == FairSpec => []SchedInv
<1>1. SchedInv /\ [Next]_vars => SchedInv'
  BY LivesStep, LoopsStep, FiredStep, CopiesStep, ZonedStep, SchedStutter DEF SchedInv
<1> QED BY <1>1, SchedInit, PTL DEF FairSpec, Spec

(* For any number of tasks of any kind, commands of other processes between *)
(* any two transactions of a tick, deaths of the daemon and changes of zone: *)
(* a recurring task is not fired again for an instant it was fired for, a   *)
(* removed task does not come back, and the next run of a cron task is one  *)
(* of the zone in force or of the zone the next tick realigns.              *)
THEOREM SchedulesHold == FairSpec => []SchedulesTrue
<1>1. SchedInv => SchedulesTrue
  <2> SUFFICES ASSUME SchedInv PROVE SchedulesTrue
    OBVIOUS
  <2>1. \A t \in Present : store[t] \in TaskSet
    BY DEF SchedInv, Lives, Copies, CopiesOf, CopyOK
  <2>2. \A t \in DOMAIN snap : snap[t] \in TaskSet /\ t \in Tasks
    BY DEF SchedInv, Lives, Loops, Copies, CopiesOf
  <2>3. \A t \in DOMAIN plan : plan[t] \in Instants /\ t \in Tasks
    BY DEF SchedInv, Lives, Loops, Copies, CopiesOf
  <2>4. TypeOK
    BY <2>1, <2>2, <2>3 DEF SchedInv, Lives, Loops, Fired, TypeOK
  <2>5. RecurringNotRefired /\ RemovedStaysRemoved
    BY DEF SchedInv, Lives, Fired, RecurringNotRefired, RemovedStaysRemoved
  <2>6. ZoneAligned
    BY DEF SchedInv, Lives, Zoned, ZonedTask, Anchored, ZoneAligned, Idle, Past
  <2> QED BY <2>4, <2>5, <2>6 DEF SchedulesTrue
<1> QED BY <1>1, SchedInvHolds, PTL

-----------------------------------------------------------------------------
(* The file lock.                                                           *)

(* Breaking: the process has taken a lock for abandoned and works on it. *)
Breaking == {"link", "lstatClaim", "readdir", "recheck", "publish", "published", "clean", "sweep"} \cup L!Acting

(* The process may have an owner file of its own. *)
Owning == {"published", "clean"} \cup L!Acting

(* Lock files have one maker; only that process is written in them, and it  *)
(* is in the section as long as it is alive and its lock is in place.  What *)
(* a breaker has observed was made by a process that is dead.               *)
MakersTrue ==
    /\ public <= files
    /\ \A i \in L!Inodes : /\ i <= files => maker[i] \in Proc
                           /\ i > files => holder[i] = None
                           /\ holder[i] \in {None, maker[i]}
    /\ public # 0 /\ L!Alive(maker[public]) =>
          l[maker[public]].pc \in L!InSection /\ l[maker[public]].own = public

(* The locals of process p. *)
LocalsTrue(p) ==
    /\ l[p].pc \in L!InSection => l[p].own \in 1 .. files /\ maker[l[p].own] = p
    /\ l[p].pc \in Breaking => l[p].obs # 0
    /\ l[p].obs # 0 => l[p].obs <= files /\ ~L!Alive(maker[l[p].obs])
    /\ l[p].pc \in {"readdir", "recheck", "publish", "published"} \cup L!Acting => l[p].claim # 0

(* A live process owns one epoch at most, the one it works with; below an   *)
(* epoch that is published or about to be, all owners are dead.             *)
OwnersTrue ==
    /\ \A g \in L!Inodes, e \in L!Epochs :
          /\ owner[g][e] # None /\ L!Alive(owner[g][e]) =>
                /\ l[owner[g][e]].pc \in Owning
                /\ l[owner[g][e]].obs = g /\ l[owner[g][e]].epoch = e
          /\ owner[g][e] # None => \A f \in L!Epochs : f < e => owner[g][f] # None /\ ~L!Alive(owner[g][f])
    /\ \A p \in cand : l[p].pc \in {"recheck", "publish"} =>
          \A f \in L!Epochs : f < l[p].epoch => owner[l[p].obs][f] # None /\ ~L!Alive(owner[l[p].obs][f])

(* While no owner file was deleted under a breaker. *)
KeptTrue(p) ==
    /\ l[p].pc \in L!Acting => owner[l[p].obs][l[p].epoch] = p
    /\ l[p].pc \in {"verify", "unlink"} => public = l[p].obs
    /\ l[p].pc \in L!InSection => public = l[p].own

(* One process at most has died.  Then there is one lock file g that was    *)
(* abandoned, 0 if there is none, and nothing else is worked on.            *)
AbandonedOnce(g) ==
    /\ \A p, q \in Proc : ~L!Alive(p) /\ ~L!Alive(q) => p = q
    /\ deaths = 0 => \A p \in Proc : L!Alive(p)
    /\ g # 0 => ~L!Alive(maker[g])
    /\ public # 0 /\ ~L!Alive(maker[public]) => public = g
    /\ \A p \in Proc : /\ l[p].obs \in {0, g} /\ l[p].epoch = 0
                       /\ l[p].pc \in L!InSection => public = l[p].own
    /\ \A h \in L!Inodes : /\ h # g => claim[h] = 0
                           /\ \A e \in L!Epochs : owner[h][e] # None => h = g /\ e = 0 /\ L!Alive(owner[h][e])

(* p alone has the epoch. *)
Alone(g) == \A p \in Proc : l[p].pc \in {"published"} \cup L!Acting => owner[g][0] = p

(* As long as g is in place, its breaker finds what it expects ... *)
InPlace(g) ==
    /\ claim[g] \in {0, g} /\ Alone(g)
    /\ \A p \in Proc :
          /\ l[p].pc \notin {"dropClaim", "withdraw", "clean", "sweep"}
          /\ l[p].pc \in L!Acting => claim[g] = g
          /\ l[p].pc \in {"pin", "pinned", "verify", "unlink"} => l[p].claim = g
          /\ l[p].pc \in {"pinned", "verify"} => l[p].pin = g /\ l[p].nlink = L!Nlink(g) /\ ~l[p].touched

(* ... and once it is gone nobody gets far enough to unlink again. *)
Gone(g) ==
    /\ \A p \in Proc : l[p].pc \notin {"pin", "pinned", "verify", "unlink"}
    /\ claim[g] = g => /\ Alone(g)
                       /\ \A p \in Proc : l[p].pc \notin {"withdraw", "clean", "sweep"}
                       /\ \E p \in Proc : L!At(p, "dropClaim") /\ l[p].claim = g

(* With one death at most. *)
OneDeath ==
    \E g \in 0 .. files :
       AbandonedOnce(g) /\ (g # 0 => IF public = g THEN InPlace(g) ELSE Gone(g))

LockInv ==
    /\ L!TypeOK /\ MakersTrue /\ OwnersTrue
    /\ \A p \in Proc : LocalsTrue(p)
    /\ orphaned = {} => \A p \in Proc : KeptTrue(p)
    /\ deaths <= 1 => OneDeath
-----------------------------------------------------------------------------
(* A non-empty set of epochs has a last one. *)
LEMMA LargestOf ==
    ASSUME NEW n \in Nat, NEW S \in SUBSET (0 .. n), S # {}
    PROVE  \E e \in S : \A f \in S : f <= e
<1> DEFINE R == OpToRel(<, Nat)
           D == {n - e : e \in S}
<1>1. IsWellFoundedOn(R, Nat)
  BY NatLessThanWellFounded, Zenon
<1>2. D \subseteq Nat /\ D # {}
  <2>1. \A e \in S : n - e \in Nat
    OBVIOUS
  <2>2. \A x \in D : \E e \in S : x = n - e
    OBVIOUS
  <2>3. PICK e \in S : TRUE
    OBVIOUS
  <2>4. n - e \in D
    OBVIOUS
  <2> HIDE DEF D
  <2> QED BY <2>1, <2>2, <2>4
<1>3. \A i, j \in Nat : i < j => <<i, j>> \in R
  BY DEF OpToRel
<1> HIDE DEF R
<1>4. PICK x \in D : \A y \in D : ~(<<y, x>> \in R)
  BY <1>1, <1>2, WFMin
<1>5. PICK e \in S : x = n - e
  OBVIOUS
<1>6. ASSUME NEW f \in S PROVE f <= e
  <2>1. n - f \in D /\ n - f \in Nat /\ x \in Nat
    BY <1>2
  <2>2. ~(n - f < x)
    BY <1>3, <1>4, <2>1
  <2> QED BY <1>5, <2>2
<1> QED BY <1>6

(* The locals of a process. *)
Local == [pc : L!PCs, own : 0..MaxInode, obs : 0..MaxInode, made : BOOLEAN,
          claim : 0..MaxInode, epoch : L!Epochs, pin : 0..MaxInode,
          nlink : 0..(MaxInode + 1), touched : BOOLEAN, won : BOOLEAN]

(* What a step of p leaves of the others: all, or all but `touched`. *)
RestSame(p) == \A q \in Proc : q # p => l'[q] = l[q]
Like(q) ==
    /\ l'[q].pc = l[q].pc /\ l'[q].own = l[q].own /\ l'[q].obs = l[q].obs
    /\ l'[q].claim = l[q].claim /\ l'[q].epoch = l[q].epoch
    /\ l'[q].pin = l[q].pin /\ l'[q].nlink = l[q].nlink
Rest(p) == \A q \in Proc : q # p => Like(q)

(* p goes on with what it knows, or forgets it. *)
Keeps(p) ==
    /\ l'[p].own = l[p].own /\ l'[p].obs = l[p].obs /\ l'[p].claim = l[p].claim
    /\ l'[p].epoch = l[p].epoch /\ l'[p].pin = l[p].pin
    /\ l'[p].nlink = l[p].nlink /\ l'[p].touched = l[p].touched
Forgets(p) == l'[p].own = 0 /\ l'[p].obs = 0 /\ l'[p].claim = 0 /\ l'[p].epoch = 0

(* p withdraws the owner file of its epoch, if it is its own. *)
Disowned(p) ==
    \A h \in L!Inodes, f \in L!Epochs :
       owner'[h][f] = IF h = l[p].obs /\ f = l[p].epoch /\ owner[h][f] = p THEN None ELSE owner[h][f]

(* The lock files, and the histories, as they were. *)
LocksSame == UNCHANGED <<public, holder, maker, files>>
HistorySame == UNCHANGED <<orphaned, deaths>>

(* A call begins, ends, waits or starts over. *)
Resets(p) ==
    /\ l[p].pc \notin {"dead", "opened", "unlinkOwn", "dropClaim", "withdraw", "clean", "sweep"}
    /\ l[p].pc = "cs" => public # l[p].own
    /\ l'[p].pc \in {"idle", "try", "wait"} /\ Forgets(p) /\ RestSame(p)
    /\ LocksSame /\ claim' = claim /\ HistorySame /\ cand' \subseteq cand
    /\ (l[p].pc \notin Owning /\ owner' = owner) \/ Disowned(p)

(* Only the program counter moves. *)
Walks(p) ==
    /\ Keeps(p) /\ RestSame(p) /\ LocksSame /\ HistorySame /\ UNCHANGED <<claim, owner, cand>>
    /\ \/ L!At(p, "try") /\ l'[p].pc = "read"
       \/ L!At(p, "cs") /\ l'[p].pc = "unlinkOwn" /\ public = l[p].own
       \/ L!At(p, "link") /\ l'[p].pc = "lstatClaim"
       \/ L!At(p, "recheck") /\ l'[p].pc = "publish"
       \/ L!At(p, "published") /\ l'[p].pc = "claimed"
             /\ owner[l[p].obs][l[p].epoch] = p /\ claim[l[p].obs] = l[p].claim
       \/ L!At(p, "pin") /\ l'[p].pc = "dropClaim" /\ public = 0
       \/ L!At(p, "pinned") /\ l'[p].pc = "verify" /\ public = l[p].obs /\ public = l[p].pin
       \/ L!At(p, "pinned") /\ l'[p].pc = "dropClaim" /\ l[p].pin # l[p].obs
       \/ L!At(p, "pinned") /\ l'[p].pc = "withdraw"
             /\ (~L!Stable(p) \/ (l[p].pin = l[p].obs /\ ~L!Breakable(l[p].pin)))
       \/ L!At(p, "verify") /\ l'[p].pc = "unlink"
       \/ L!At(p, "verify") /\ l'[p].pc = "withdraw" /\ (~L!Stable(p) \/ l[p].touched)

(* p creates the lock file. *)
Opens(p) ==
    /\ L!At(p, "try") /\ public = 0 /\ files + 1 \in L!Inodes
    /\ files' = files + 1 /\ public' = files + 1
    /\ \A i \in L!Inodes : maker'[i] = IF i = files + 1 THEN p ELSE maker[i]
    /\ l'[p].pc = "opened" /\ l'[p].own = files + 1 /\ l'[p].obs = 0 /\ l'[p].epoch = 0 /\ RestSame(p)
    /\ UNCHANGED <<holder, claim, owner, cand>> /\ HistorySame

(* p writes itself into its lock file and enters the section. *)
Writes(p) ==
    /\ L!At(p, "opened") /\ l'[p].pc = "cs" /\ Keeps(p) /\ RestSame(p)
    /\ \A i \in L!Inodes : holder'[i] = IF i = l[p].own THEN p ELSE holder[i]
    /\ UNCHANGED <<public, maker, files, claim, owner, cand>> /\ HistorySame

(* p removes its lock. *)
Releases(p) ==
    /\ L!At(p, "unlinkOwn") /\ l'[p].pc = "idle" /\ Forgets(p) /\ Rest(p) /\ public' = 0
    /\ UNCHANGED <<holder, maker, files, claim, owner, cand>> /\ HistorySame

(* p finds a lock whose holder is dead. *)
Observes(p) ==
    /\ L!At(p, "read") /\ public # 0 /\ L!Breakable(public)
    /\ l'[p].pc = "link" /\ l'[p].obs = public /\ l'[p].own = 0 /\ l'[p].epoch = 0 /\ RestSame(p)
    /\ LocksSame /\ HistorySame /\ UNCHANGED <<claim, owner, cand>>

(* p links the lock to the claim of what it has observed. *)
Links(p) ==
    /\ L!At(p, "link") /\ public # 0 /\ claim[l[p].obs] = 0
    /\ \A h \in L!Inodes : claim'[h] = IF h = l[p].obs THEN public ELSE claim[h]
    /\ l'[p].pc = "lstatClaim" /\ l'[p].own = l[p].own /\ l'[p].obs = l[p].obs /\ l'[p].epoch = l[p].epoch
    /\ Rest(p) /\ LocksSame /\ HistorySame /\ UNCHANGED <<owner, cand>>

(* p finds the claim. *)
Sees(p) ==
    /\ L!At(p, "lstatClaim") /\ l'[p].pc = "readdir" /\ claim[l[p].obs] # 0 /\ l'[p].claim = claim[l[p].obs]
    /\ l'[p].obs = l[p].obs /\ l'[p].epoch = l[p].epoch /\ RestSame(p)
    /\ LocksSame /\ HistorySame /\ UNCHANGED <<claim, owner, cand>>

(* Below the epoch p stands for all owners are published and dead. *)
Stands(p) ==
    /\ L!At(p, "readdir") /\ l'[p].pc = "recheck" /\ l'[p].epoch \in L!Epochs
    /\ \/ l'[p].epoch = 0
       \/ \E k \in L!Epochs : /\ owner[l[p].obs][k] # None /\ ~L!Alive(owner[l[p].obs][k])
                              /\ l'[p].epoch = k + 1
    /\ l'[p].obs = l[p].obs /\ l'[p].claim = l[p].claim /\ RestSame(p)
    /\ cand' = cand \cup {p}
    /\ LocksSame /\ HistorySame /\ UNCHANGED <<claim, owner>>

(* p publishes the owner file of its epoch. *)
Publishes(p) ==
    /\ L!At(p, "publish") /\ l'[p].pc = "published" /\ Keeps(p) /\ RestSame(p)
    /\ p \in cand /\ owner[l[p].obs][l[p].epoch] = None
    /\ \A h \in L!Inodes, f \in L!Epochs :
          owner'[h][f] = IF h = l[p].obs /\ f = l[p].epoch THEN p ELSE owner[h][f]
    /\ LocksSame /\ HistorySame /\ UNCHANGED <<claim, cand>>

(* p looks at what the claim pins. *)
Checks(p) ==
    /\ L!At(p, "claimed") /\ claim[l[p].obs] # 0
    /\ l'[p].pc = IF claim[l[p].obs] = l[p].obs THEN "pin" ELSE "withdraw"
    /\ l'[p].claim = claim[l[p].obs]
    /\ l'[p].obs = l[p].obs /\ l'[p].epoch = l[p].epoch /\ RestSame(p)
    /\ LocksSame /\ HistorySame /\ UNCHANGED <<claim, owner, cand>>

(* p stats the lock for the first time. *)
Pins(p) ==
    /\ L!At(p, "pin") /\ public # 0 /\ l'[p].pc = "pinned"
    /\ l'[p].pin = public /\ l'[p].nlink = L!Nlink(public) /\ ~l'[p].touched
    /\ l'[p].obs = l[p].obs /\ l'[p].epoch = l[p].epoch /\ l'[p].claim = l[p].claim /\ RestSame(p)
    /\ LocksSame /\ HistorySame /\ UNCHANGED <<claim, owner, cand>>

(* p unlinks the abandoned lock. *)
Unlinks(p) ==
    /\ L!At(p, "unlink") /\ public # 0 /\ public' = 0 /\ l'[p].pc = "dropClaim"
    /\ l'[p].obs = l[p].obs /\ l'[p].epoch = l[p].epoch /\ l'[p].claim = l[p].claim /\ Rest(p)
    /\ UNCHANGED <<holder, maker, files, claim, owner, cand>> /\ HistorySame

(* p removes the claim it has seen. *)
Drops(p) ==
    /\ l[p].pc \in {"dropClaim", "withdraw"} /\ l'[p].pc = "clean"
    /\ \A h \in L!Inodes : claim'[h] = IF h = l[p].obs /\ claim[h] = l[p].claim THEN 0 ELSE claim[h]
    /\ l'[p].obs = l[p].obs /\ l'[p].epoch = l[p].epoch /\ l'[p].claim = l[p].claim /\ Rest(p)
    /\ LocksSame /\ HistorySame /\ UNCHANGED <<owner, cand>>

(* p gives up its own epoch. *)
Cleans(p) ==
    /\ L!At(p, "clean") /\ l'[p].pc = "sweep" /\ Keeps(p) /\ RestSame(p) /\ Disowned(p)
    /\ cand' \subseteq cand /\ LocksSame /\ claim' = claim /\ HistorySame

(* p removes every owner and candidate file of the claim. *)
Sweeps(p) ==
    /\ L!At(p, "sweep") /\ l'[p].pc \in {"try", "wait"} /\ Forgets(p) /\ RestSame(p)
    /\ \A h \in L!Inodes, f \in L!Epochs : owner'[h][f] = IF h = l[p].obs THEN None ELSE owner[h][f]
    /\ cand' = cand \ {q \in Proc : l[q].obs = l[p].obs}
    /\ orphaned \subseteq orphaned'
    /\ \A q \in Proc : l[q].pc \in L!Acting /\ (\E e \in L!Epochs : owner[l[p].obs][e] = q) => q \in orphaned'
    /\ LocksSame /\ UNCHANGED <<claim, deaths>>

(* p dies; its files stay. *)
Dies(p) ==
    /\ l[p].pc # "dead" /\ l'[p].pc = "dead" /\ deaths' = deaths + 1
    /\ l'[p].own = 0 /\ l'[p].obs = l[p].obs /\ l'[p].epoch = 0 /\ RestSame(p)
    /\ LocksSame /\ UNCHANGED <<claim, owner, cand, orphaned>>

(* What a step of process p is. *)
Effect(p) ==
    \/ Resets(p) \/ Walks(p) \/ Opens(p) \/ Writes(p) \/ Releases(p) \/ Observes(p) \/ Links(p)
    \/ Sees(p) \/ Stands(p) \/ Publishes(p) \/ Checks(p) \/ Pins(p) \/ Unlinks(p) \/ Drops(p)
    \/ Cleans(p) \/ Sweeps(p) \/ Dies(p)

(* The types in these terms. *)
LEMMA LockTyped ==
    L!TypeOK <=> /\ public \in 0..MaxInode /\ files \in 0..MaxInode
                 /\ holder \in [L!Inodes -> Proc \cup {None}] /\ maker \in [L!Inodes -> Proc \cup {None}]
                 /\ claim \in [L!Inodes -> 0..MaxInode]
                 /\ owner \in [L!Inodes -> [L!Epochs -> Proc \cup {None}]]
                 /\ cand \subseteq Proc /\ orphaned \subseteq Proc
                 /\ deaths \in 0..MaxCrash /\ l \in [Proc -> Local]
BY DEF L!TypeOK, Local

(* Numbers that are always in range. *)
LEMMA LockNumbers ==
    /\ MaxInode \in Nat /\ MaxEpoch \in Nat /\ MaxCrash \in Nat /\ None \notin Proc
    /\ 0 \in 0..MaxInode /\ 0 \in L!Epochs /\ 0 \in 0..(MaxInode + 1)
    /\ L!Inodes \subseteq 0..MaxInode /\ L!Epochs \subseteq Nat
    /\ \A i \in 0..MaxInode : i # 0 => i \in L!Inodes
BY LockAssumption DEF L!FileLockAssumption, L!Inodes, L!Epochs

(* A process that knows nothing. *)
LEMMA IdleLocal ==
    ASSUME NEW x \in L!PCs
    PROVE  /\ [L!Idle EXCEPT !.pc = x] \in Local /\ [L!Idle EXCEPT !.pc = x].pc = x
           /\ [L!Idle EXCEPT !.pc = x].own = 0 /\ [L!Idle EXCEPT !.pc = x].obs = 0
           /\ [L!Idle EXCEPT !.pc = x].claim = 0 /\ [L!Idle EXCEPT !.pc = x].epoch = 0
<1>1. L!Idle \in [pc : L!PCs, own : {0}, obs : {0}, made : BOOLEAN, claim : {0}, epoch : {0}, pin : {0},
                nlink : {0}, touched : BOOLEAN, won : BOOLEAN]
  BY DEF L!Idle, L!PCs
<1> QED BY <1>1, LockNumbers DEF Local

(* The locals after a step of p. *)
LEMMA LockStepFacts ==
    ASSUME l \in [Proc -> Local], NEW p \in Proc, NEW r \in Local, L!Step(p, r)
    PROVE  l' \in [Proc -> Local] /\ l'[p] = r /\ RestSame(p)
BY DEF L!Step, RestSame

(* The same when a link changes under the others. *)
LEMMA TouchFacts ==
    ASSUME l \in [Proc -> Local], NEW p \in Proc, NEW r \in Local, NEW i, L!StepTouching(p, r, i)
    PROVE  l' \in [Proc -> Local] /\ l'[p] = r /\ Rest(p)
<1>1. l' = [q \in Proc |-> IF q = p THEN r
                           ELSE IF i # 0 /\ l[q].pin = i THEN [l[q] EXCEPT !.touched = TRUE]
                           ELSE l[q]]
  BY DEF L!StepTouching
<1>2. ASSUME NEW q \in Proc
      PROVE  LET t == [l[q] EXCEPT !.touched = TRUE]
             IN  /\ t \in Local /\ t.pc = l[q].pc /\ t.own = l[q].own /\ t.obs = l[q].obs
                 /\ t.claim = l[q].claim /\ t.epoch = l[q].epoch /\ t.pin = l[q].pin /\ t.nlink = l[q].nlink
  <2>1. l[q] \in Local
    OBVIOUS
  <2> QED BY <2>1 DEF Local
<1>3. ASSUME NEW q \in Proc, q # p PROVE l'[q] \in Local /\ Like(q)
  <2> DEFINE t == [l[q] EXCEPT !.touched = TRUE]
  <2>1. l'[q] = l[q] \/ l'[q] = t
    BY <1>1, <1>3
  <2>2. /\ t \in Local /\ t.pc = l[q].pc /\ t.own = l[q].own /\ t.obs = l[q].obs
        /\ t.claim = l[q].claim /\ t.epoch = l[q].epoch /\ t.pin = l[q].pin /\ t.nlink = l[q].nlink
    BY <1>2
  <2> HIDE DEF t
  <2> QED BY <2>1, <2>2 DEF Like
<1>4. l'[p] = r
  BY <1>1
<1>5. l' \in [Proc -> Local]
  <2>1. l' = [q \in Proc |-> l'[q]]
    BY <1>1
  <2> QED BY <1>3, <1>4, <2>1
<1> QED BY <1>3, <1>4, <1>5 DEF Rest

(* p goes to x. *)
LEMMA GotoFacts ==
    ASSUME l \in [Proc -> Local], NEW p \in Proc, NEW x \in L!PCs, L!Goto(p, x)
    PROVE  l' \in [Proc -> Local] /\ l'[p].pc = x /\ Keeps(p) /\ RestSame(p)
<1> DEFINE r == [l[p] EXCEPT !.pc = x]
<1>1. /\ r \in Local /\ r.pc = x /\ r.own = l[p].own /\ r.obs = l[p].obs /\ r.claim = l[p].claim
      /\ r.epoch = l[p].epoch /\ r.pin = l[p].pin /\ r.nlink = l[p].nlink /\ r.touched = l[p].touched
  <2>1. l[p] \in Local
    OBVIOUS
  <2> QED BY <2>1 DEF Local
<1>2. L!Step(p, r)
  BY DEF L!Goto
<1> HIDE DEF r
<1>3. l' \in [Proc -> Local] /\ l'[p] = r /\ RestSame(p)
  BY <1>1, <1>2, LockStepFacts
<1> QED BY <1>1, <1>3 DEF Keeps

(* p forgets and goes to x. *)
LEMMA ForgetFacts ==
    ASSUME l \in [Proc -> Local], NEW p \in Proc, NEW x \in L!PCs, L!Step(p, [L!Idle EXCEPT !.pc = x])
    PROVE  l' \in [Proc -> Local] /\ l'[p].pc = x /\ Forgets(p) /\ RestSame(p)
<1> DEFINE r == [L!Idle EXCEPT !.pc = x]
<1>1. r \in Local /\ r.pc = x /\ r.own = 0 /\ r.obs = 0 /\ r.claim = 0 /\ r.epoch = 0
  BY IdleLocal
<1> HIDE DEF r
<1>2. l' \in [Proc -> Local] /\ l'[p] = r /\ RestSame(p)
  BY <1>1, LockStepFacts DEF r
<1> QED BY <1>1, <1>2 DEF Forgets

(* p gives up its epoch. *)
LEMMA DisownFacts ==
    ASSUME L!TypeOK, NEW p \in Proc, l[p].obs # 0, L!Disown(p)
    PROVE  owner' \in [L!Inodes -> [L!Epochs -> Proc \cup {None}]] /\ Disowned(p) /\ cand' \subseteq cand
<1>1. l[p].obs \in L!Inodes /\ l[p].epoch \in L!Epochs
  BY LockTyped, LockNumbers DEF Local
<1>2. owner' = [owner EXCEPT ![l[p].obs][l[p].epoch] = IF @ = p THEN None ELSE @]
  BY DEF L!Disown
<1>3. owner \in [L!Inodes -> [L!Epochs -> Proc \cup {None}]]
  BY LockTyped
<1>4. cand' \subseteq cand
  BY DEF L!Disown
<1>5. owner' \in [L!Inodes -> [L!Epochs -> Proc \cup {None}]]
  BY <1>1, <1>2, <1>3
<1>6. Disowned(p)
  BY <1>1, <1>2, <1>3 DEF Disowned
<1> QED BY <1>4, <1>5, <1>6

(* Of the epochs published, Latest is one. *)
LEMMA LatestFacts ==
    ASSUME L!TypeOK, NEW g \in L!Inodes, L!Published(g) # {}
    PROVE  L!Latest(g) \in L!Epochs /\ owner[g][L!Latest(g)] # None
<1>1. L!Published(g) \in SUBSET (0 .. MaxEpoch)
  BY DEF L!Published, L!Epochs
<1>2. \E e \in L!Published(g) : \A f \in L!Published(g) : f <= e
  BY <1>1, LockNumbers, LargestOf
<1>3. L!Latest(g) \in L!Published(g)
  BY <1>2 DEF L!Latest
<1> QED BY <1>3 DEF L!Published

(* The counting of FileLock is the library's. *)
LEMMA LockSets == ASSUME NEW S PROVE L!Cardinality(S) = Cardinality(S)
BY DEF L!IsFiniteSet, IsFiniteSet, L!Cardinality, Cardinality

(* The links of a file. *)
LEMMA NlinkFacts ==
    ASSUME NEW i
    PROVE  L!Nlink(i) \in 0..(MaxInode + 1)
<1> DEFINE S == {g \in L!Inodes : claim[g] = i}
<1>1. IsFiniteSet(L!Inodes) /\ Cardinality(L!Inodes) <= MaxInode /\ Cardinality(L!Inodes) \in Nat
  <2>1. IsFiniteSet(1..MaxInode) /\ Cardinality(1..MaxInode) = IF 1 > MaxInode THEN 0 ELSE MaxInode - 1 + 1
    BY LockNumbers, FS_Interval
  <2> QED BY <2>1, LockNumbers DEF L!Inodes
<1>2. IsFiniteSet(S) /\ Cardinality(S) <= Cardinality(L!Inodes)
  BY <1>1, FS_Subset
<1>3. Cardinality(S) \in Nat
  BY <1>2, FS_CardinalityType
<1>4. L!Nlink(i) = (IF public = i THEN 1 ELSE 0) + Cardinality(S)
  <2>1. L!Nlink(i) = (IF public = i THEN 1 ELSE 0) + L!Cardinality(S)
    BY DEF L!Nlink
  <2> QED BY <2>1, LockSets
<1> HIDE DEF S
<1> QED BY <1>1, <1>2, <1>3, <1>4, LockNumbers

(* The types but those of the locals. *)
DiskTypes ==
    /\ public \in 0..MaxInode /\ files \in 0..MaxInode
    /\ holder \in [L!Inodes -> Proc \cup {None}] /\ maker \in [L!Inodes -> Proc \cup {None}]
    /\ claim \in [L!Inodes -> 0..MaxInode]
    /\ owner \in [L!Inodes -> [L!Epochs -> Proc \cup {None}]]
    /\ cand \subseteq Proc /\ orphaned \subseteq Proc
    /\ deaths \in 0..MaxCrash

(* The type invariant from its two parts. *)
LEMMA TypedAgain ==
    ASSUME DiskTypes', l' \in [Proc -> Local]
    PROVE  L!TypeOK'
BY DEF L!TypeOK, DiskTypes, Local

(* Calls that end, wait or start over. *)
LEMMA ResetEffects ==
    ASSUME L!TypeOK, NEW p \in Proc, LocalsTrue(p),
           \/ L!Call(p) \/ L!ReadGone(p) \/ L!ReadBusy(p) \/ L!Sleep(p) \/ L!Timeout(p) \/ L!LinkGone(p) \/ L!ReaddirBusy(p)
           \/ L!AbandonCandidate(p) \/ L!ClaimGone(p) \/ L!PinUntrusted(p) \/ L!UnlinkGone(p)
           \/ L!ReleaseLstat(p) /\ public # l[p].own
           \/ L!LstatClaim(p) /\ claim[l[p].obs] = 0
           \/ L!Recheck(p) /\ claim[l[p].obs] # l[p].claim
           \/ L!Publish(p) /\ ~(p \in cand /\ owner[l[p].obs][l[p].epoch] = None)
    PROVE  Resets(p) /\ L!TypeOK'
<1>1. l \in [Proc -> Local] /\ DiskTypes
  BY LockTyped DEF DiskTypes
<1>2. {"idle", "try", "wait"} \subseteq L!PCs
  BY DEF L!PCs
<1>3. L!Idle = [L!Idle EXCEPT !.pc = "idle"]
  BY DEF L!Idle
<1>4. PICK x \in {"idle", "try", "wait"} : L!Step(p, [L!Idle EXCEPT !.pc = x])
  <2>1. L!Step(p, L!Idle) => L!Step(p, [L!Idle EXCEPT !.pc = "idle"])
    BY <1>3
  <2>2. L!Step(p, L!Idle) \/ L!Step(p, L!Retry) \/ L!Step(p, L!Wait)
    BY DEF L!Call, L!ReadGone, L!ReadBusy, L!Sleep, L!Timeout, L!LinkGone, L!ReaddirBusy, L!AbandonCandidate, L!ClaimGone,
       L!PinUntrusted, L!UnlinkGone, L!ReleaseLstat, L!LstatClaim, L!Recheck, L!Publish, L!Throw
  <2> QED BY <2>1, <2>2 DEF L!Retry, L!Wait
<1>5. l' \in [Proc -> Local] /\ l'[p].pc = x /\ Forgets(p) /\ RestSame(p)
  BY <1>1, <1>2, <1>4, ForgetFacts
<1>6. /\ l[p].pc \notin {"dead", "opened", "unlinkOwn", "dropClaim", "withdraw", "clean", "sweep"}
      /\ l[p].pc = "cs" => public # l[p].own
  BY DEF L!Call, L!ReadGone, L!ReadBusy, L!Sleep, L!Timeout, L!LinkGone, L!ReaddirBusy, L!AbandonCandidate, L!ClaimGone,
     L!PinUntrusted, L!UnlinkGone, L!ReleaseLstat, L!LstatClaim, L!Recheck, L!Publish, L!At
<1>7. LocksSame /\ claim' = claim /\ HistorySame
  BY DEF L!Call, L!ReadGone, L!ReadBusy, L!Sleep, L!Timeout, L!LinkGone, L!ReaddirBusy, L!AbandonCandidate, L!ClaimGone,
     L!PinUntrusted, L!UnlinkGone, L!ReleaseLstat, L!LstatClaim, L!Recheck, L!Publish, L!Throw, LocksSame, HistorySame, L!disk
<1>8. \/ l[p].pc \notin Owning /\ owner' = owner /\ cand' \subseteq cand
      \/ l[p].pc \in Breaking /\ L!Disown(p)
  BY DEF L!Call, L!ReadGone, L!ReadBusy, L!Sleep, L!Timeout, L!LinkGone, L!ReaddirBusy, L!AbandonCandidate, L!ClaimGone,
     L!PinUntrusted, L!UnlinkGone, L!ReleaseLstat, L!LstatClaim, L!Recheck, L!Publish, L!Throw, L!disk, L!At, Owning, Breaking, L!Acting
<1>9. /\ (l[p].pc \notin Owning /\ owner' = owner) \/ Disowned(p)
      /\ cand' \subseteq cand /\ owner' \in [L!Inodes -> [L!Epochs -> Proc \cup {None}]]
  <2>1. CASE l[p].pc \in Breaking /\ L!Disown(p)
    BY <2>1, DisownFacts DEF LocalsTrue
  <2> QED BY <1>1, <1>8, <2>1 DEF DiskTypes
<1>10. DiskTypes'
  BY <1>1, <1>7, <1>9 DEF DiskTypes, LocksSame, HistorySame
<1>11. L!TypeOK'
  BY <1>5, <1>10, TypedAgain
<1> QED BY <1>5, <1>6, <1>7, <1>9, <1>11 DEF Resets

(* Moves of the program counter. *)
LEMMA WalkEffects ==
    ASSUME L!TypeOK, NEW p \in Proc, LocalsTrue(p),
           \/ L!OpenExists(p) \/ L!LinkExists(p) \/ L!Elected(p) \/ L!PinStale(p) \/ L!PinNewer(p) \/ L!PinTransient(p) \/ L!Verify(p)
           \/ L!ReleaseLstat(p) /\ public = l[p].own
           \/ L!Recheck(p) /\ claim[l[p].obs] = l[p].claim
           \/ L!Pin(p) /\ public = 0
    PROVE  Walks(p) /\ L!TypeOK'
<1>1. l \in [Proc -> Local] /\ DiskTypes
  BY LockTyped DEF DiskTypes
<1> DEFINE Way(a, x) ==
             \/ a = "try" /\ x = "read"
             \/ a = "cs" /\ x = "unlinkOwn" /\ public = l[p].own
             \/ a = "link" /\ x = "lstatClaim"
             \/ a = "recheck" /\ x = "publish"
             \/ a = "published" /\ x = "claimed" /\ owner[l[p].obs][l[p].epoch] = p /\ claim[l[p].obs] = l[p].claim
             \/ a = "pin" /\ x = "dropClaim" /\ public = 0
             \/ a = "pinned" /\ x = "verify" /\ public = l[p].obs /\ public = l[p].pin
             \/ a = "pinned" /\ x = "dropClaim" /\ l[p].pin # l[p].obs
             \/ a = "pinned" /\ x = "withdraw" /\ (~L!Stable(p) \/ (l[p].pin = l[p].obs /\ ~L!Breakable(l[p].pin)))
             \/ a = "verify" /\ x = "unlink"
             \/ a = "verify" /\ x = "withdraw" /\ (~L!Stable(p) \/ l[p].touched)
<1>2. PICK x \in L!PCs : L!Goto(p, x) /\ Way(l[p].pc, x)
  <2>1. \E x \in {"read", "unlinkOwn", "lstatClaim", "publish", "claimed", "dropClaim", "verify", "withdraw", "unlink"} :
           L!Goto(p, x) /\ Way(l[p].pc, x)
    <3>1. CASE L!OpenExists(p) \/ L!LinkExists(p) \/ L!Elected(p) \/ L!PinNewer(p) \/ (L!Pin(p) /\ public = 0)
      BY <3>1 DEF L!OpenExists, L!LinkExists, L!Elected, L!PinNewer, L!Pin, L!At
    <3>2. CASE L!PinStale(p)
      <4>1. public = l[p].obs /\ public = l[p].pin
        BY <3>2 DEF L!PinStale, L!Stable
      <4> QED BY <3>2, <4>1 DEF L!PinStale, L!At
    <3>3. CASE L!PinTransient(p)
      BY <3>3 DEF L!PinTransient, L!At
    <3>4. CASE L!Verify(p)
      BY <3>4 DEF L!Verify, L!At
    <3>5. CASE (L!ReleaseLstat(p) /\ public = l[p].own) \/ (L!Recheck(p) /\ claim[l[p].obs] = l[p].claim)
      BY <3>5 DEF L!ReleaseLstat, L!Recheck, L!At
    <3> QED BY <3>1, <3>2, <3>3, <3>4, <3>5
  <2> QED BY <2>1 DEF L!PCs
<1>3. l' \in [Proc -> Local] /\ l'[p].pc = x /\ Keeps(p) /\ RestSame(p)
  BY <1>1, <1>2, GotoFacts
<1>4. LocksSame /\ HistorySame /\ UNCHANGED <<claim, owner, cand>>
  BY DEF L!OpenExists, L!LinkExists, L!Elected, L!PinStale, L!PinNewer, L!PinTransient, L!Verify, L!ReleaseLstat, L!Recheck, L!Pin,
     LocksSame, HistorySame, L!disk
<1>5. DiskTypes'
  BY <1>1, <1>4 DEF DiskTypes, LocksSame, HistorySame
<1>6. L!TypeOK'
  BY <1>3, <1>5, TypedAgain
<1>7. Way(l[p].pc, l'[p].pc)
  BY <1>2, <1>3
<1> HIDE DEF Way
<1>8. Walks(p)
  BY <1>3, <1>4, <1>7 DEF Walks, Way, L!At
<1> QED BY <1>6, <1>8

(* The lock file is created, written and removed by its maker. *)
LEMMA HolderEffects ==
    ASSUME L!TypeOK, NEW p \in Proc, LocalsTrue(p), L!OpenNew(p) \/ L!WriteHolder(p) \/ L!ReleaseUnlink(p)
    PROVE  Effect(p) /\ L!TypeOK'
<1>1. l \in [Proc -> Local] /\ DiskTypes /\ l[p] \in Local
  BY LockTyped DEF DiskTypes
<1>2. CASE L!OpenNew(p)
  <2> DEFINE n == files + 1
             b == [L!Idle EXCEPT !.pc = "opened"]
             r == [L!Idle EXCEPT !.pc = "opened", !.own = n]
  <2>1. /\ L!At(p, "try") /\ public = 0 /\ files < MaxInode /\ files' = n /\ public' = n
        /\ maker' = [maker EXCEPT ![n] = p] /\ L!Step(p, r)
        /\ UNCHANGED <<holder, claim, owner, cand, orphaned, deaths>>
    BY <1>2 DEF L!OpenNew
  <2>2. n \in L!Inodes /\ n \in 0..MaxInode
    BY <1>1, <2>1, LockNumbers DEF DiskTypes, L!Inodes
  <2>3. r \in Local /\ r.pc = "opened" /\ r.own = n /\ r.obs = 0 /\ r.epoch = 0
    <3>1. "opened" \in L!PCs
      BY DEF L!PCs
    <3>2. b \in Local /\ b.pc = "opened" /\ b.obs = 0 /\ b.epoch = 0
      BY <3>1, IdleLocal
    <3>3. r = [b EXCEPT !.own = n]
      BY DEF L!Idle
    <3> HIDE DEF b, r
    <3> QED BY <2>2, <3>2, <3>3 DEF Local
  <2> HIDE DEF r
  <2>4. l' \in [Proc -> Local] /\ l'[p] = r /\ RestSame(p)
    BY <1>1, <2>1, <2>3, LockStepFacts
  <2>5. (\A i \in L!Inodes : maker'[i] = IF i = n THEN p ELSE maker[i]) /\ maker' \in [L!Inodes -> Proc \cup {None}]
    BY <1>1, <2>1 DEF DiskTypes
  <2>6. Opens(p)
    BY <2>1, <2>2, <2>3, <2>4, <2>5 DEF Opens, HistorySame
  <2>7. DiskTypes'
    BY <1>1, <2>1, <2>2, <2>5 DEF DiskTypes
  <2> QED BY <2>4, <2>6, <2>7, TypedAgain DEF Effect
<1>3. CASE L!WriteHolder(p)
  <2>1. /\ L!At(p, "opened") /\ holder' = [holder EXCEPT ![l[p].own] = p] /\ L!Goto(p, "cs")
        /\ UNCHANGED <<public, maker, files, claim, owner, cand, orphaned, deaths>>
    BY <1>3 DEF L!WriteHolder
  <2>2. l' \in [Proc -> Local] /\ l'[p].pc = "cs" /\ Keeps(p) /\ RestSame(p)
    <3>1. "cs" \in L!PCs
      BY DEF L!PCs
    <3> QED BY <1>1, <2>1, <3>1, GotoFacts
  <2>3. (\A i \in L!Inodes : holder'[i] = IF i = l[p].own THEN p ELSE holder[i]) /\ holder' \in [L!Inodes -> Proc \cup {None}]
    BY <1>1, <2>1 DEF DiskTypes
  <2>4. Writes(p)
    BY <2>1, <2>2, <2>3 DEF Writes, HistorySame
  <2>5. DiskTypes'
    BY <1>1, <2>1, <2>3 DEF DiskTypes
  <2> QED BY <2>2, <2>4, <2>5, TypedAgain DEF Effect
<1>4. CASE L!ReleaseUnlink(p)
  <2>1. /\ L!At(p, "unlinkOwn") /\ public' = 0 /\ L!StepTouching(p, L!Idle, public)
        /\ UNCHANGED <<holder, maker, files, claim, owner, cand, orphaned, deaths>>
    BY <1>4 DEF L!ReleaseUnlink
  <2>2. L!Idle \in Local /\ L!Idle.pc = "idle" /\ L!Idle.own = 0 /\ L!Idle.obs = 0 /\ L!Idle.claim = 0 /\ L!Idle.epoch = 0
    <3>1. "idle" \in L!PCs /\ L!Idle = [L!Idle EXCEPT !.pc = "idle"]
      BY DEF L!Idle, L!PCs
    <3> QED BY <3>1, IdleLocal
  <2>3. l' \in [Proc -> Local] /\ l'[p] = L!Idle /\ Rest(p)
    BY <1>1, <2>1, <2>2, TouchFacts
  <2>4. Releases(p)
    BY <2>1, <2>2, <2>3 DEF Releases, Forgets, HistorySame
  <2>5. DiskTypes'
    BY <1>1, <2>1, LockNumbers DEF DiskTypes
  <2> QED BY <2>3, <2>4, <2>5, TypedAgain DEF Effect
<1> QED BY <1>2, <1>3, <1>4

(* A breaker finds the lock, its claim and its epoch. *)
LEMMA ClaimEffects ==
    ASSUME L!TypeOK, NEW p \in Proc, LocalsTrue(p),
           \/ L!ReadBreakable(p) \/ L!LinkClaim(p) \/ (L!LstatClaim(p) /\ claim[l[p].obs] # 0) \/ L!Readdir(p)
           \/ L!Publish(p) /\ p \in cand /\ owner[l[p].obs][l[p].epoch] = None
    PROVE  Effect(p) /\ L!TypeOK'
<1>1. l \in [Proc -> Local] /\ DiskTypes /\ l[p] \in Local
  BY LockTyped DEF DiskTypes
<1>2. CASE L!ReadBreakable(p)
  <2> DEFINE b == [L!Idle EXCEPT !.pc = "link"]
             r == [L!Idle EXCEPT !.pc = "link", !.obs = public]
  <2>1. L!At(p, "read") /\ public # 0 /\ L!Breakable(public) /\ L!Step(p, r) /\ UNCHANGED <<L!disk, orphaned, deaths>>
    BY <1>2 DEF L!ReadBreakable
  <2>2. r \in Local /\ r.pc = "link" /\ r.own = 0 /\ r.obs = public /\ r.epoch = 0
    <3>1. "link" \in L!PCs
      BY DEF L!PCs
    <3>2. b \in Local /\ b.pc = "link" /\ b.own = 0 /\ b.epoch = 0
      BY <3>1, IdleLocal
    <3>3. r = [b EXCEPT !.obs = public]
      BY DEF L!Idle
    <3> HIDE DEF b, r
    <3> QED BY <1>1, <3>2, <3>3 DEF Local, DiskTypes
  <2> HIDE DEF r
  <2>3. l' \in [Proc -> Local] /\ l'[p] = r /\ RestSame(p)
    BY <1>1, <2>1, <2>2, LockStepFacts
  <2>4. Observes(p)
    BY <2>1, <2>2, <2>3 DEF Observes, LocksSame, HistorySame, L!disk
  <2>5. DiskTypes'
    BY <1>1, <2>1 DEF DiskTypes, L!disk
  <2> QED BY <2>3, <2>4, <2>5, TypedAgain DEF Effect
<1>3. CASE L!LinkClaim(p)
  <2> DEFINE r == [l[p] EXCEPT !.pc = "lstatClaim", !.made = TRUE]
  <2>1. /\ L!At(p, "link") /\ public # 0 /\ claim[l[p].obs] = 0 /\ claim' = [claim EXCEPT ![l[p].obs] = public]
        /\ L!StepTouching(p, r, public) /\ UNCHANGED <<public, holder, maker, files, owner, cand, orphaned, deaths>>
    BY <1>3 DEF L!LinkClaim
  <2>2. /\ r \in Local /\ r.pc = "lstatClaim" /\ r.own = l[p].own /\ r.obs = l[p].obs /\ r.epoch = l[p].epoch
    BY <1>1 DEF Local, L!PCs
  <2> HIDE DEF r
  <2>3. l' \in [Proc -> Local] /\ l'[p] = r /\ Rest(p)
    BY <1>1, <2>1, <2>2, TouchFacts
  <2>4. (\A h \in L!Inodes : claim'[h] = IF h = l[p].obs THEN public ELSE claim[h]) /\ claim' \in [L!Inodes -> 0..MaxInode]
    BY <1>1, <2>1 DEF DiskTypes
  <2>5. Links(p)
    BY <2>1, <2>2, <2>3, <2>4 DEF Links, LocksSame, HistorySame
  <2>6. DiskTypes'
    BY <1>1, <2>1, <2>4 DEF DiskTypes
  <2> QED BY <2>3, <2>5, <2>6, TypedAgain DEF Effect
<1>4. CASE L!LstatClaim(p) /\ claim[l[p].obs] # 0
  <2> DEFINE c == claim[l[p].obs]
             r == [l[p] EXCEPT !.pc = "readdir", !.claim = c]
  <2>1. L!At(p, "lstatClaim") /\ c # 0 /\ L!Step(p, r) /\ UNCHANGED <<L!disk, orphaned, deaths>>
    BY <1>4 DEF L!LstatClaim
  <2>2. c \in 0..MaxInode
    <3>1. l[p].obs \in L!Inodes
      BY <1>1, <2>1, LockNumbers DEF Local, LocalsTrue, Breaking, L!At
    <3> QED BY <1>1, <3>1 DEF DiskTypes
  <2>3. r \in Local /\ r.pc = "readdir" /\ r.claim = c /\ r.obs = l[p].obs /\ r.epoch = l[p].epoch
    <3> HIDE DEF c
    <3> QED BY <1>1, <2>2 DEF Local, L!PCs
  <2> HIDE DEF r
  <2>4. l' \in [Proc -> Local] /\ l'[p] = r /\ RestSame(p)
    BY <1>1, <2>1, <2>3, LockStepFacts
  <2>5. Sees(p)
    BY <2>1, <2>3, <2>4 DEF Sees, LocksSame, HistorySame, L!disk
  <2>6. DiskTypes'
    BY <1>1, <2>1 DEF DiskTypes, L!disk
  <2> QED BY <2>4, <2>5, <2>6, TypedAgain DEF Effect
<1>5. CASE L!Readdir(p)
  <2> DEFINE g == l[p].obs
  <2>1. PICK e \in L!Epochs : /\ IF L!Published(g) = {} THEN e = 0 ELSE ~L!Alive(owner[g][L!Latest(g)]) /\ e = L!Latest(g) + 1
                              /\ L!Step(p, [l[p] EXCEPT !.pc = "recheck", !.epoch = e])
    BY <1>5 DEF L!Readdir
  <2>2. /\ L!At(p, "readdir") /\ cand' = cand \cup {p}
        /\ UNCHANGED <<public, holder, maker, files, claim, owner, orphaned, deaths>>
    BY <1>5 DEF L!Readdir
  <2> DEFINE r == [l[p] EXCEPT !.pc = "recheck", !.epoch = e]
  <2>3. r \in Local /\ r.pc = "recheck" /\ r.epoch = e /\ r.obs = l[p].obs /\ r.claim = l[p].claim
    BY <1>1 DEF Local, L!PCs
  <2>4. L!Step(p, r)
    BY <2>1
  <2> HIDE DEF r
  <2>5. l' \in [Proc -> Local] /\ l'[p] = r /\ RestSame(p)
    BY <1>1, <2>3, <2>4, LockStepFacts
  <2>6. g \in L!Inodes
    BY <1>1, <2>2, LockNumbers DEF Local, LocalsTrue, Breaking, L!At
  <2>7. e = 0 \/ \E k \in L!Epochs : owner[g][k] # None /\ ~L!Alive(owner[g][k]) /\ e = k + 1
    BY <2>1, <2>6, LatestFacts
  <2>8. Stands(p)
    BY <2>2, <2>3, <2>5, <2>7 DEF Stands, LocksSame, HistorySame
  <2>9. DiskTypes'
    BY <1>1, <2>2 DEF DiskTypes
  <2> QED BY <2>5, <2>8, <2>9, TypedAgain DEF Effect
<1>6. CASE L!Publish(p) /\ p \in cand /\ owner[l[p].obs][l[p].epoch] = None
  <2>1. /\ L!At(p, "publish") /\ owner' = [owner EXCEPT ![l[p].obs][l[p].epoch] = p] /\ L!Goto(p, "published")
        /\ cand' = cand /\ UNCHANGED <<public, holder, maker, files, claim, orphaned, deaths>>
    BY <1>6 DEF L!Publish
  <2>2. l' \in [Proc -> Local] /\ l'[p].pc = "published" /\ Keeps(p) /\ RestSame(p)
    <3>1. "published" \in L!PCs
      BY DEF L!PCs
    <3> QED BY <1>1, <2>1, <3>1, GotoFacts
  <2>3. l[p].obs \in L!Inodes /\ l[p].epoch \in L!Epochs
    BY <1>1, <2>1, LockNumbers DEF Local, LocalsTrue, Breaking, L!At
  <2>4. /\ \A h \in L!Inodes, f \in L!Epochs : owner'[h][f] = IF h = l[p].obs /\ f = l[p].epoch THEN p ELSE owner[h][f]
        /\ owner' \in [L!Inodes -> [L!Epochs -> Proc \cup {None}]]
    BY <1>1, <2>1, <2>3 DEF DiskTypes
  <2>5. Publishes(p)
    BY <1>6, <2>1, <2>2, <2>4 DEF Publishes, LocksSame, HistorySame
  <2>6. DiskTypes'
    BY <1>1, <2>1, <2>4 DEF DiskTypes
  <2> QED BY <2>2, <2>5, <2>6, TypedAgain DEF Effect
<1> QED BY <1>2, <1>3, <1>4, <1>5, <1>6

(* The breaker pins the lock and unlinks it. *)
LEMMA BreakEffects ==
    ASSUME L!TypeOK, NEW p \in Proc, LocalsTrue(p),
           L!CheckClaim(p) \/ (L!Pin(p) /\ public # 0) \/ L!UnlinkStale(p) \/ L!DropClaim(p)
    PROVE  Effect(p) /\ L!TypeOK'
<1>1. l \in [Proc -> Local] /\ DiskTypes /\ l[p] \in Local
  BY LockTyped DEF DiskTypes
<1>2. l[p].obs \in L!Inodes /\ l[p].epoch \in L!Epochs
  <2>1. l[p].pc \in Breaking
    BY DEF L!CheckClaim, L!Pin, L!UnlinkStale, L!DropClaim, Breaking, L!Acting, L!At
  <2> QED BY <1>1, <2>1, LockNumbers DEF Local, LocalsTrue
<1>3. CASE L!CheckClaim(p)
  <2> DEFINE c == claim[l[p].obs]
             x == IF c = l[p].obs THEN "pin" ELSE "withdraw"
             r == [l[p] EXCEPT !.pc = x, !.claim = c]
  <2>1. L!At(p, "claimed") /\ c # 0 /\ L!Step(p, r) /\ UNCHANGED <<L!disk, orphaned, deaths>>
    BY <1>3 DEF L!CheckClaim
  <2>2. c \in 0..MaxInode /\ x \in L!PCs
    BY <1>1, <1>2 DEF DiskTypes, L!PCs
  <2>3. r \in Local /\ r.pc = x /\ r.claim = c /\ r.obs = l[p].obs /\ r.epoch = l[p].epoch
    <3> HIDE DEF c, x
    <3> QED BY <1>1, <2>2 DEF Local
  <2> HIDE DEF r
  <2>4. l' \in [Proc -> Local] /\ l'[p] = r /\ RestSame(p)
    BY <1>1, <2>1, <2>3, LockStepFacts
  <2>5. Checks(p)
    BY <2>1, <2>3, <2>4 DEF Checks, LocksSame, HistorySame, L!disk
  <2>6. DiskTypes'
    BY <1>1, <2>1 DEF DiskTypes, L!disk
  <2> QED BY <2>4, <2>5, <2>6, TypedAgain DEF Effect
<1>4. CASE L!Pin(p) /\ public # 0
  <2> DEFINE n == L!Nlink(public)
             r == [l[p] EXCEPT !.pc = "pinned", !.pin = public, !.nlink = n, !.touched = FALSE]
  <2>1. L!At(p, "pin") /\ public # 0 /\ L!Step(p, r) /\ UNCHANGED <<L!disk, orphaned, deaths>>
    BY <1>4 DEF L!Pin
  <2>2. n \in 0..(MaxInode + 1)
    BY NlinkFacts
  <2>3. /\ r \in Local /\ r.pc = "pinned" /\ r.pin = public /\ r.nlink = n /\ r.obs = l[p].obs
        /\ r.epoch = l[p].epoch /\ r.claim = l[p].claim
    <3> HIDE DEF n
    <3> QED BY <1>1, <2>2 DEF Local, L!PCs, DiskTypes
  <2>4. ~r.touched
    BY <1>1 DEF Local
  <2> HIDE DEF r
  <2>5. l' \in [Proc -> Local] /\ l'[p] = r /\ RestSame(p)
    BY <1>1, <2>1, <2>3, LockStepFacts
  <2>6. ~l'[p].touched
    BY <2>4, <2>5
  <2>7. Pins(p)
    BY <2>1, <2>3, <2>5, <2>6 DEF Pins, LocksSame, HistorySame, L!disk
  <2>8. DiskTypes'
    BY <1>1, <2>1 DEF DiskTypes, L!disk
  <2> QED BY <2>5, <2>7, <2>8, TypedAgain DEF Effect
<1>5. CASE L!UnlinkStale(p)
  <2> DEFINE r == [l[p] EXCEPT !.pc = "dropClaim", !.pin = 0]
  <2>1. /\ L!At(p, "unlink") /\ public # 0 /\ public' = 0 /\ L!StepTouching(p, r, public)
        /\ UNCHANGED <<holder, maker, files, claim, owner, cand, orphaned, deaths>>
    BY <1>5 DEF L!UnlinkStale
  <2>2. r \in Local /\ r.pc = "dropClaim" /\ r.obs = l[p].obs /\ r.epoch = l[p].epoch /\ r.claim = l[p].claim
    BY <1>1, LockNumbers DEF Local, L!PCs
  <2> HIDE DEF r
  <2>3. l' \in [Proc -> Local] /\ l'[p] = r /\ Rest(p)
    BY <1>1, <2>1, <2>2, TouchFacts
  <2>4. Unlinks(p)
    BY <2>1, <2>2, <2>3 DEF Unlinks, HistorySame
  <2>5. DiskTypes'
    BY <1>1, <2>1, LockNumbers DEF DiskTypes
  <2> QED BY <2>3, <2>4, <2>5, TypedAgain DEF Effect
<1>6. CASE L!DropClaim(p)
  <2> DEFINE g == l[p].obs
             mine == claim[g] = l[p].claim
             w == L!At(p, "dropClaim")
             i == IF mine THEN claim[g] ELSE 0
             r == [l[p] EXCEPT !.pc = "clean", !.pin = 0, !.nlink = 0, !.touched = FALSE, !.won = w]
  <2>1. /\ l[p].pc \in {"dropClaim", "withdraw"} /\ claim' = (IF mine THEN [claim EXCEPT ![g] = 0] ELSE claim)
        /\ L!StepTouching(p, r, i)
        /\ UNCHANGED <<public, holder, maker, files, owner, cand, orphaned, deaths>>
    BY <1>6 DEF L!DropClaim
  <2>2. w \in BOOLEAN
    BY DEF L!At
  <2>3. r \in Local /\ r.pc = "clean" /\ r.obs = l[p].obs /\ r.epoch = l[p].epoch /\ r.claim = l[p].claim
    <3> HIDE DEF w
    <3> QED BY <1>1, <2>2, LockNumbers DEF Local, L!PCs
  <2> HIDE DEF r, i
  <2>4. l' \in [Proc -> Local] /\ l'[p] = r /\ Rest(p)
    BY <1>1, <2>1, <2>3, TouchFacts
  <2>5. \A h \in L!Inodes : claim'[h] = IF h = g /\ claim[h] = l[p].claim THEN 0 ELSE claim[h]
    BY <1>1, <1>2, <2>1 DEF DiskTypes
  <2>6. claim' \in [L!Inodes -> 0..MaxInode]
    BY <1>1, <1>2, <2>1, LockNumbers DEF DiskTypes
  <2>7. Drops(p)
    BY <2>1, <2>3, <2>4, <2>5 DEF Drops, LocksSame, HistorySame
  <2>8. DiskTypes'
    BY <1>1, <2>1, <2>6 DEF DiskTypes
  <2> QED BY <2>4, <2>7, <2>8, TypedAgain DEF Effect
<1> QED BY <1>3, <1>4, <1>5, <1>6

(* The breaker cleans up; a process dies. *)
LEMMA EndEffects ==
    ASSUME L!TypeOK, NEW p \in Proc, LocalsTrue(p), L!Clean(p) \/ L!Sweep(p) \/ L!Crash(p)
    PROVE  Effect(p) /\ L!TypeOK'
<1>1. l \in [Proc -> Local] /\ DiskTypes /\ l[p] \in Local
  BY LockTyped DEF DiskTypes
<1>2. CASE L!Clean(p)
  <2>1. /\ L!At(p, "clean") /\ L!Disown(p) /\ L!Goto(p, "sweep")
        /\ UNCHANGED <<public, holder, maker, files, claim, orphaned, deaths>>
    BY <1>2 DEF L!Clean
  <2>2. l' \in [Proc -> Local] /\ l'[p].pc = "sweep" /\ Keeps(p) /\ RestSame(p)
    <3>1. "sweep" \in L!PCs
      BY DEF L!PCs
    <3> QED BY <1>1, <2>1, <3>1, GotoFacts
  <2>3. l[p].obs # 0
    BY <2>1 DEF LocalsTrue, Breaking, L!At
  <2>4. owner' \in [L!Inodes -> [L!Epochs -> Proc \cup {None}]] /\ Disowned(p) /\ cand' \subseteq cand
    BY <2>1, <2>3, DisownFacts
  <2>5. Cleans(p)
    BY <2>1, <2>2, <2>4 DEF Cleans, LocksSame, HistorySame
  <2>6. DiskTypes'
    BY <1>1, <2>1, <2>4 DEF DiskTypes
  <2> QED BY <2>2, <2>5, <2>6, TypedAgain DEF Effect
<1>3. CASE L!Sweep(p)
  <2> DEFINE g == l[p].obs
             taken == {q \in Proc : \E e \in L!Epochs : owner[g][e] = q}
  <2>1. /\ L!At(p, "sweep") /\ owner' = [owner EXCEPT ![g] = [e \in L!Epochs |-> None]]
        /\ cand' = cand \ {q \in Proc : l[q].obs = g}
        /\ orphaned' = orphaned \cup {q \in taken : l[q].pc \in L!Acting}
        /\ UNCHANGED <<public, holder, maker, files, claim, deaths>>
    BY <1>3 DEF L!Sweep
  <2>2. PICK x \in {"try", "wait"} : L!Step(p, [L!Idle EXCEPT !.pc = x])
    BY <1>3 DEF L!Sweep, L!Retry, L!Wait
  <2>3. l' \in [Proc -> Local] /\ l'[p].pc = x /\ Forgets(p) /\ RestSame(p)
    <3>1. x \in L!PCs
      BY DEF L!PCs
    <3> QED BY <1>1, <2>2, <3>1, ForgetFacts
  <2>4. g \in L!Inodes
    BY <1>1, <2>1, LockNumbers DEF Local, LocalsTrue, Breaking, L!At
  <2>5. /\ \A h \in L!Inodes, f \in L!Epochs : owner'[h][f] = IF h = g THEN None ELSE owner[h][f]
        /\ owner' \in [L!Inodes -> [L!Epochs -> Proc \cup {None}]]
    BY <1>1, <2>1, <2>4 DEF DiskTypes
  <2>6. /\ orphaned \subseteq orphaned' /\ orphaned' \subseteq Proc
        /\ \A q \in Proc : l[q].pc \in L!Acting /\ (\E e \in L!Epochs : owner[g][e] = q) => q \in orphaned'
    BY <1>1, <2>1 DEF DiskTypes
  <2>7. Sweeps(p)
    BY <2>1, <2>3, <2>5, <2>6 DEF Sweeps, LocksSame
  <2>8. DiskTypes'
    BY <1>1, <2>1, <2>5, <2>6 DEF DiskTypes
  <2> QED BY <2>3, <2>7, <2>8, TypedAgain DEF Effect
<1>4. CASE L!Crash(p)
  <2> DEFINE o == l[p].obs
             b == [L!Idle EXCEPT !.pc = "dead"]
             r == [L!Idle EXCEPT !.pc = "dead", !.obs = o]
  <2>1. /\ l[p].pc # "dead" /\ deaths < MaxCrash /\ deaths' = deaths + 1 /\ L!Step(p, r)
        /\ UNCHANGED <<L!disk, orphaned>>
    BY <1>4 DEF L!Crash
  <2>2. r \in Local /\ r.pc = "dead" /\ r.own = 0 /\ r.obs = o /\ r.epoch = 0
    <3>1. "dead" \in L!PCs
      BY DEF L!PCs
    <3>2. b \in Local /\ b.pc = "dead" /\ b.own = 0 /\ b.epoch = 0
      BY <3>1, IdleLocal
    <3>3. r = [b EXCEPT !.obs = o]
      BY DEF L!Idle
    <3>4. o \in 0..MaxInode
      BY <1>1 DEF Local
    <3> HIDE DEF b, r, o
    <3> QED BY <3>2, <3>3, <3>4 DEF Local
  <2> HIDE DEF r
  <2>3. l' \in [Proc -> Local] /\ l'[p] = r /\ RestSame(p)
    BY <1>1, <2>1, <2>2, LockStepFacts
  <2>4. Dies(p)
    BY <2>1, <2>2, <2>3 DEF Dies, LocksSame, L!disk
  <2>5. DiskTypes'
    BY <1>1, <2>1, LockNumbers DEF DiskTypes, L!disk
  <2> QED BY <2>3, <2>4, <2>5, TypedAgain DEF Effect
<1> QED BY <1>2, <1>3, <1>4

(* Every step is one of these. *)
LEMMA Effects ==
    ASSUME L!TypeOK, \A q \in Proc : LocalsTrue(q), L!Next
    PROVE  L!TypeOK' /\ \E p \in Proc : Effect(p)
<1>1. PICK p \in Proc : L!Call(p) \/ L!Work(p) \/ L!Timeout(p) \/ L!Crash(p)
  BY DEF L!Next
<1>2. LocalsTrue(p)
  OBVIOUS
<1> DEFINE E == Effect(p) /\ L!TypeOK'
<1>3. Resets(p) \/ Walks(p) => Effect(p)
  BY DEF Effect
<1>4. (\/ L!Call(p) \/ L!ReadGone(p) \/ L!ReadBusy(p) \/ L!Sleep(p) \/ L!Timeout(p) \/ L!LinkGone(p) \/ L!ReaddirBusy(p)
       \/ L!AbandonCandidate(p) \/ L!ClaimGone(p) \/ L!PinUntrusted(p) \/ L!UnlinkGone(p)) => E
  BY <1>2, <1>3, ResetEffects
<1>5. L!ReleaseLstat(p) \/ L!LstatClaim(p) \/ L!Recheck(p) \/ L!Publish(p) \/ L!Pin(p) => E
  <2>1. L!ReleaseLstat(p) => E
    BY <1>2, <1>3, ResetEffects, WalkEffects
  <2>2. L!LstatClaim(p) => E
    BY <1>2, <1>3, ResetEffects, ClaimEffects
  <2>3. L!Recheck(p) => E
    BY <1>2, <1>3, ResetEffects, WalkEffects
  <2>4. L!Publish(p) => E
    BY <1>2, <1>3, ResetEffects, ClaimEffects
  <2>5. L!Pin(p) => E
    BY <1>2, <1>3, WalkEffects, BreakEffects
  <2> QED BY <2>1, <2>2, <2>3, <2>4, <2>5
<1>6. L!OpenExists(p) \/ L!LinkExists(p) \/ L!Elected(p) \/ L!PinStale(p) \/ L!PinNewer(p) \/ L!PinTransient(p) \/ L!Verify(p) => E
  BY <1>2, <1>3, WalkEffects
<1>7. L!OpenNew(p) \/ L!WriteHolder(p) \/ L!ReleaseUnlink(p) => E
  BY <1>2, HolderEffects
<1>8. L!ReadBreakable(p) \/ L!LinkClaim(p) \/ L!Readdir(p) => E
  BY <1>2, ClaimEffects
<1>9. L!CheckClaim(p) \/ L!UnlinkStale(p) \/ L!DropClaim(p) => E
  BY <1>2, BreakEffects
<1>10. L!Clean(p) \/ L!Sweep(p) \/ L!Crash(p) => E
  BY <1>2, EndEffects
<1> HIDE DEF E
<1>11. E
  BY <1>1, <1>4, <1>5, <1>6, <1>7, <1>8, <1>9, <1>10 DEF L!Work
<1> QED BY <1>11 DEF E

(* What every step has in common: the others stay where they are, the dead  *)
(* stay dead, and a file keeps its maker.                                   *)
LEMMA Common ==
    ASSUME L!TypeOK, NEW p \in Proc, Effect(p)
    PROVE  /\ l[p].pc # "dead" /\ Rest(p)
           /\ \A q \in Proc : l[q].pc = "dead" => l'[q].pc = "dead"
           /\ files \in 0..MaxInode /\ files <= files'
           /\ \A i \in L!Inodes : i <= files => maker'[i] = maker[i]
           /\ (deaths' = deaths /\ l'[p].pc # "dead") \/ Dies(p)
<1>1. files \in 0..MaxInode
  BY DEF L!TypeOK
<1>2. RestSame(p) => Rest(p)
  BY DEF RestSame, Rest, Like
<1>3. Rest(p)
  BY <1>2 DEF Effect, Resets, Walks, Opens, Writes, Releases, Observes, Links, Sees, Stands, Publishes, Checks, Pins,
     Unlinks, Drops, Cleans, Sweeps, Dies
<1>4. l[p].pc # "dead"
  BY DEF Effect, Resets, Walks, Opens, Writes, Releases, Observes, Links, Sees, Stands, Publishes, Checks, Pins,
     Unlinks, Drops, Cleans, Sweeps, Dies, L!At
<1>5. (deaths' = deaths /\ l'[p].pc # "dead") \/ Dies(p)
  BY DEF Effect, Resets, Walks, Opens, Writes, Releases, Observes, Links, Sees, Stands, Publishes, Checks, Pins,
     Unlinks, Drops, Cleans, Sweeps, HistorySame
<1>6. (files' = files /\ maker' = maker) \/ Opens(p)
  BY DEF Effect, Resets, Walks, Writes, Releases, Observes, Links, Sees, Stands, Publishes, Checks, Pins,
     Unlinks, Drops, Cleans, Sweeps, Dies, LocksSame
<1>7. files <= files' /\ \A i \in L!Inodes : i <= files => maker'[i] = maker[i]
  BY <1>1, <1>6, LockNumbers DEF Opens, L!Inodes
<1>8. \A q \in Proc : l[q].pc = "dead" => l'[q].pc = "dead"
  BY <1>3, <1>4 DEF Rest, Like
<1> QED BY <1>1, <1>3, <1>4, <1>5, <1>7, <1>8

(* The lock is taken for abandoned just when its maker is dead. *)
LEMMA BreakableDead ==
    ASSUME L!TypeOK, MakersTrue, NEW i \in L!Inodes
    PROVE  L!Breakable(i) <=> l[maker[i]].pc = "dead"
BY DEF MakersTrue, L!Breakable, L!Alive

(* The numbers a process works with. *)
LEMMA LocalRange ==
    ASSUME L!TypeOK, NEW q \in Proc
    PROVE  /\ l[q].own \in 0..MaxInode /\ l[q].obs \in 0..MaxInode /\ l[q].claim \in 0..MaxInode
           /\ l[q].epoch \in L!Epochs /\ l[q].pc \in L!PCs
<1>1. l[q] \in Local
  BY LockTyped
<1> QED BY <1>1 DEF Local

(* The numbers of the disk. *)
LEMMA DiskRange ==
    ASSUME L!TypeOK
    PROVE  /\ public \in 0..MaxInode /\ files \in 0..MaxInode
           /\ \A i \in L!Inodes : i \in Nat /\ i # 0
           /\ \A i \in 0..MaxInode : i # 0 => i \in L!Inodes
BY LockNumbers, LockTyped DEF L!Inodes

(* Who is written where, after a step. *)
LEMMA MakersStep ==
    ASSUME LockInv, L!TypeOK', NEW p \in Proc, Effect(p)
    PROVE  MakersTrue'
<1>1. L!TypeOK /\ MakersTrue /\ LocalsTrue(p)
  BY DEF LockInv
<1>2. /\ public \in 0..MaxInode /\ files \in 0..MaxInode
      /\ \A i \in L!Inodes : i \in Nat /\ i # 0
      /\ \A i \in 0..MaxInode : i # 0 => i \in L!Inodes
  BY <1>1, DiskRange
<1>3. l[p].pc # "dead" /\ Rest(p)
  BY <1>1, Common
<1>4. CASE Opens(p)
  <2>1. \A i \in L!Inodes : holder'[i] = holder[i]
    BY <1>4 DEF Opens
  <2>2. \A i \in L!Inodes : maker'[i] = IF i = files + 1 THEN p ELSE maker[i]
    BY <1>4 DEF Opens
  <2>3. files' = files + 1 /\ public' = files + 1 /\ files + 1 \in L!Inodes
    BY <1>4 DEF Opens
  <2>4. l'[p].pc = "opened" /\ l'[p].own = files + 1
    BY <1>4 DEF Opens
  <2>5. \A i \in L!Inodes : /\ i <= files' => maker'[i] \in Proc
                            /\ i > files' => holder'[i] = None
                            /\ holder'[i] \in {None, maker'[i]}
    BY <1>1, <1>2, <2>1, <2>2, <2>3 DEF MakersTrue
  <2> QED BY <1>2, <2>2, <2>3, <2>4, <2>5 DEF MakersTrue, L!Alive, L!InSection
<1>5. CASE Writes(p)
  <2>1. /\ \A i \in L!Inodes : holder'[i] = IF i = l[p].own THEN p ELSE holder[i]
        /\ maker' = maker /\ files' = files /\ public' = public
    BY <1>5 DEF Writes
  <2>2. l[p].own \in 1..files /\ maker[l[p].own] = p
    BY <1>1, <1>5 DEF Writes, LocalsTrue, L!InSection, L!At
  <2>3. \A i \in L!Inodes : /\ i <= files' => maker'[i] \in Proc
                            /\ i > files' => holder'[i] = None
                            /\ holder'[i] \in {None, maker'[i]}
    BY <1>1, <1>2, <2>1, <2>2 DEF MakersTrue
  <2>4. public # 0 /\ l'[maker[public]].pc # "dead" =>
           l'[maker[public]].pc \in L!InSection /\ l'[maker[public]].own = public
    <3>1. public # 0 => maker[public] \in Proc
      BY <1>1, <1>2 DEF MakersTrue
    <3>2. l[p].pc = "opened" /\ l'[p].pc = "cs" /\ l'[p].own = l[p].own
      BY <1>5 DEF Writes, Keeps, L!At
    <3> QED BY <1>1, <1>3, <3>1, <3>2 DEF MakersTrue, Rest, Like, L!InSection, L!Alive
  <2> QED BY <1>1, <2>1, <2>3, <2>4 DEF MakersTrue, L!Alive
<1>6. CASE (public' = 0 \/ public' = public) /\ UNCHANGED <<holder, maker, files>> /\ l[p].pc # "opened"
  <2>1. ASSUME public' # 0, l'[maker[public]].pc # "dead"
        PROVE  l'[maker[public]].pc \in L!InSection /\ l'[maker[public]].own = public
    <3>1. public' = public /\ public # 0 /\ maker[public] \in Proc
      BY <1>1, <1>2, <1>6, <2>1 DEF MakersTrue
    <3>2. CASE maker[public] # p
      BY <1>1, <1>3, <2>1, <3>1, <3>2 DEF MakersTrue, Rest, Like, L!Alive
    <3>3. CASE maker[public] = p
      <4>1. l[p].pc \in L!InSection /\ l[p].own = public
        BY <1>1, <1>3, <3>1, <3>3 DEF MakersTrue, L!Alive
      <4>2. l'[p].pc = "unlinkOwn" /\ l'[p].own = l[p].own
        <5>1. l[p].pc \in {"cs", "unlinkOwn"}
          BY <1>6, <4>1 DEF L!InSection
        <5>2. ~Resets(p)
          BY <4>1, <5>1 DEF Resets
        <5>3. ~Dies(p)
          BY <2>1, <3>3 DEF Dies
        <5>4. ~Releases(p) /\ ~Opens(p) /\ ~Unlinks(p)
          BY <3>1, <5>1 DEF Releases, Opens, Unlinks, L!At
        <5>5. Walks(p)
          BY <5>1, <5>2, <5>3, <5>4 DEF Effect, Writes, Observes, Links, Sees, Stands, Publishes, Checks, Pins,
             Drops, Cleans, Sweeps, L!At
        <5> QED BY <5>1, <5>5 DEF Walks, Keeps, L!At
      <4> QED BY <3>3, <4>1, <4>2 DEF L!InSection
    <3> QED BY <3>2, <3>3
  <2>2. public' <= files
    BY <1>1, <1>2, <1>6 DEF MakersTrue
  <2> QED BY <1>1, <1>6, <2>1, <2>2 DEF MakersTrue, L!Alive
<1>7. Opens(p) \/ Writes(p) \/ ((public' = 0 \/ public' = public) /\ UNCHANGED <<holder, maker, files>> /\ l[p].pc # "opened")
                \/ Dies(p)
  BY DEF Effect, Resets, Walks, Releases, Observes, Links, Sees, Stands, Publishes, Checks, Pins,
     Unlinks, Drops, Cleans, Sweeps, LocksSame, L!At
<1>8. CASE Dies(p)
  <2>1. public' = public /\ UNCHANGED <<holder, maker, files>> /\ l'[p].pc = "dead"
    BY <1>8 DEF Dies, LocksSame
  <2>2. public # 0 => maker[public] \in Proc
    BY <1>1, <1>2 DEF MakersTrue
  <2>3. public # 0 /\ l'[maker[public]].pc # "dead" =>
           l'[maker[public]].pc \in L!InSection /\ l'[maker[public]].own = public
    BY <1>1, <1>3, <2>1, <2>2 DEF MakersTrue, Rest, Like, L!Alive
  <2> QED BY <1>1, <2>1, <2>3 DEF MakersTrue, L!Alive
<1> QED BY <1>4, <1>5, <1>6, <1>7, <1>8

(* The locals after a step. *)
LEMMA LocalsStep ==
    ASSUME LockInv, L!TypeOK', NEW p \in Proc, Effect(p), NEW q \in Proc
    PROVE  LocalsTrue(q)'
<1>1. L!TypeOK /\ MakersTrue /\ LocalsTrue(q) /\ LocalsTrue(p)
  BY DEF LockInv
<1>2. /\ public \in 0..MaxInode /\ files \in 0..MaxInode
      /\ \A i \in L!Inodes : i \in Nat /\ i # 0
      /\ \A i \in 0..MaxInode : i # 0 => i \in L!Inodes
      /\ l[q].own \in 0..MaxInode /\ l[q].obs \in 0..MaxInode
  BY <1>1, DiskRange, LocalRange
<1>3. /\ l[p].pc # "dead" /\ Rest(p) /\ files <= files' /\ files' \in 0..MaxInode
      /\ \A r \in Proc : l[r].pc = "dead" => l'[r].pc = "dead"
      /\ \A i \in L!Inodes : i <= files => maker'[i] = maker[i] /\ maker[i] \in Proc
  <2>1. \A i \in L!Inodes : i <= files => maker[i] \in Proc
    BY <1>1 DEF MakersTrue
  <2>2. files' \in 0..MaxInode
    BY DEF L!TypeOK
  <2> QED BY <1>1, <2>1, <2>2, Common
<1>4. l[q].obs # 0 => l[q].obs <= files' /\ l'[maker'[l[q].obs]].pc = "dead"
  <2>1. l[q].obs # 0 => l[q].obs \in L!Inodes /\ l[q].obs <= files /\ l[maker[l[q].obs]].pc = "dead"
    BY <1>1, <1>2 DEF LocalsTrue, L!Alive
  <2>2. files <= files' /\ files \in Nat /\ files' \in Nat /\ l[q].obs \in Nat
    BY <1>2, <1>3
  <2>3. l[q].obs # 0 => l[q].obs <= files'
    BY <2>1, <2>2
  <2>4. l[q].obs # 0 => maker'[l[q].obs] = maker[l[q].obs] /\ maker[l[q].obs] \in Proc
    BY <1>3, <2>1
  <2>5. l[q].obs # 0 => l'[maker[l[q].obs]].pc = "dead"
    BY <1>3, <2>1, <2>4
  <2> QED BY <2>3, <2>4, <2>5
<1>5. l[q].own \in 1..files => l[q].own \in 1..files' /\ maker'[l[q].own] = maker[l[q].own]
  <2>1. l[q].own \in 1..files => l[q].own \in L!Inodes /\ l[q].own <= files
    BY <1>2 DEF L!Inodes
  <2>2. l[q].own \in 1..files => l[q].own \in 1..files'
    BY <1>2, <1>3
  <2> QED BY <1>3, <2>1, <2>2
<1>6. CASE q # p
  BY <1>1, <1>3, <1>4, <1>5, <1>6 DEF Rest, Like, LocalsTrue, L!Alive
<1>7. CASE q = p
  <2> DEFINE Claiming == {"readdir", "recheck", "publish", "published"} \cup L!Acting
  <2>1. CASE Opens(p)
    <3>1. /\ l'[p].pc = "opened" /\ l'[p].own = files + 1 /\ l'[p].obs = 0 /\ files' = files + 1 /\ maker'[files + 1] = p
      BY <2>1 DEF Opens
    <3>2. files + 1 \in 1..files'
      BY <1>2, <3>1
    <3> QED BY <1>7, <3>1, <3>2 DEF LocalsTrue, L!InSection, Breaking, L!Acting
  <2>2. CASE Observes(p)
    <3>1. l'[p].pc = "link" /\ l'[p].obs = public /\ public # 0 /\ L!Breakable(public) /\ LocksSame
      BY <2>2 DEF Observes
    <3>2. public \in L!Inodes /\ public <= files /\ l[maker[public]].pc = "dead"
      BY <1>1, <1>2, <3>1, BreakableDead DEF MakersTrue
    <3>3. l'[maker'[public]].pc = "dead" /\ files' = files
      BY <1>3, <3>1, <3>2 DEF LocksSame
    <3> QED BY <1>7, <3>1, <3>2, <3>3 DEF LocalsTrue, L!InSection, Breaking, L!Acting, L!Alive
  <2>3. CASE Resets(p) \/ Releases(p) \/ Sweeps(p)
    <3>1. l'[p].pc \in {"idle", "try", "wait"} /\ l'[p].obs = 0
      BY <2>3 DEF Resets, Releases, Sweeps, Forgets
    <3> QED BY <1>7, <3>1 DEF LocalsTrue, L!InSection, Breaking, L!Acting
  <2>4. CASE Walks(p) \/ Writes(p)
    <3>1. l'[p].own = l[p].own /\ l'[p].obs = l[p].obs /\ l'[p].claim = l[p].claim
      BY <2>4 DEF Walks, Writes, Keeps
    <3>2. /\ l'[p].pc \in L!InSection => l[p].pc \in L!InSection
          /\ l'[p].pc \in Breaking => l[p].pc \in Breaking
          /\ l'[p].pc \in Claiming => l[p].pc \in Claiming
      BY <2>4 DEF Walks, Writes, L!InSection, Breaking, L!Acting, L!At
    <3> QED BY <1>1, <1>4, <1>5, <1>7, <3>1, <3>2 DEF LocalsTrue, L!Alive
  <2>5. CASE Links(p) \/ Sees(p) \/ Stands(p) \/ Publishes(p) \/ Checks(p) \/ Pins(p) \/ Unlinks(p) \/ Drops(p) \/ Cleans(p)
    <3>1. l'[p].obs = l[p].obs /\ l'[p].pc \notin L!InSection /\ l[p].pc \in Breaking
      BY <2>5 DEF Links, Sees, Stands, Publishes, Checks, Pins, Unlinks, Drops, Cleans, Keeps, L!InSection, Breaking, L!Acting, L!At
    <3>2. l'[p].pc \in Claiming => l'[p].claim # 0
      BY <1>1, <2>5 DEF Links, Sees, Stands, Publishes, Checks, Pins, Unlinks, Drops, Cleans, Keeps, L!Acting, L!At, LocalsTrue
    <3> QED BY <1>1, <1>4, <1>7, <3>1, <3>2 DEF LocalsTrue, L!Alive
  <2>6. CASE Dies(p)
    <3>1. l'[p].pc = "dead" /\ l'[p].obs = l[p].obs
      BY <2>6 DEF Dies
    <3> QED BY <1>4, <1>7, <3>1 DEF LocalsTrue, L!InSection, Breaking, L!Acting, L!Alive
  <2> QED BY <2>1, <2>2, <2>3, <2>4, <2>5, <2>6 DEF Effect
<1> QED BY <1>6, <1>7

(* The owners after a step in which nobody but p publishes or gives up an   *)
(* epoch, and p only its own.                                               *)
LEMMA OwnersStep ==
    ASSUME LockInv, L!TypeOK', NEW p \in Proc, Effect(p)
    PROVE  OwnersTrue'
<1>1. L!TypeOK /\ MakersTrue /\ OwnersTrue /\ LocalsTrue(p)
  BY DEF LockInv
<1>2. /\ l[p].pc # "dead" /\ Rest(p)
      /\ \A q \in Proc : l[q].pc = "dead" => l'[q].pc = "dead"
  BY <1>1, Common
<1>3. /\ None \notin Proc /\ cand \subseteq Proc
      /\ \A h \in L!Inodes, f \in L!Epochs : owner[h][f] # None => owner[h][f] \in Proc
  BY <1>1, LockNumbers, LockTyped
<1>4. L!Epochs \subseteq Nat /\ \A q \in Proc : l[q].epoch \in L!Epochs /\ l[q].obs \in 0..MaxInode
  BY <1>1, LockNumbers, LocalRange
<1>5. l[p].pc \in Breaking => l[p].obs \in L!Inodes
  BY <1>1, <1>4, LockNumbers DEF LocalsTrue
<1> DEFINE Below(h, e) == \A f \in L!Epochs : f < e => owner[h][f] # None /\ l[owner[h][f]].pc = "dead"
           BelowNext(h, e) == \A f \in L!Epochs : f < e => owner'[h][f] # None /\ l'[owner'[h][f]].pc = "dead"
           Working(q, h, e) == l[q].pc \in Owning /\ l[q].obs = h /\ l[q].epoch = e
           WorkingNext(q, h, e) == l'[q].pc \in Owning /\ l'[q].obs = h /\ l'[q].epoch = e
           Sure(h, e) == /\ owner'[h][e] # None /\ l'[owner'[h][e]].pc # "dead" => WorkingNext(owner'[h][e], h, e)
                         /\ owner'[h][e] # None => BelowNext(h, e)
           Ready(q) == l'[q].pc \in {"recheck", "publish"} => BelowNext(l'[q].obs, l'[q].epoch)
           OwnersNext == (\A h \in L!Inodes, e \in L!Epochs : Sure(h, e)) /\ (\A q \in cand' : Ready(q))
           OwnGoes == \A h \in L!Inodes, f \in L!Epochs : \/ owner'[h][f] = owner[h][f]
                                                          \/ owner[h][f] = p /\ owner'[h][f] = None
           OwnSure == \A h \in L!Inodes, f \in L!Epochs : owner'[h][f] = p /\ l'[p].pc # "dead" => WorkingNext(p, h, f)
           OwnReady == p \in cand' => Ready(p)
<1>6. SUFFICES OwnersNext
  BY DEF OwnersTrue, L!Alive
<1>7. \A h \in L!Inodes, e \in L!Epochs :
         /\ owner[h][e] # None /\ l[owner[h][e]].pc # "dead" => Working(owner[h][e], h, e)
         /\ owner[h][e] # None => Below(h, e)
  BY <1>1 DEF OwnersTrue, L!Alive
<1>8. \A q \in cand : l[q].pc \in {"recheck", "publish"} => Below(l[q].obs, l[q].epoch)
  BY <1>1 DEF OwnersTrue, L!Alive
<1>9. \A q \in Proc : q # p => /\ l'[q].pc = l[q].pc /\ l'[q].obs = l[q].obs /\ l'[q].epoch = l[q].epoch
  BY <1>2 DEF Rest, Like
(* Owner files stay, but for those of p. *)
<1>10. ASSUME NEW h \in L!Inodes, NEW e \in Nat,
              \A f \in L!Epochs : owner'[h][f] = owner[h][f] \/ owner[h][f] \in {None, p}, Below(h, e)
       PROVE  BelowNext(h, e)
  <2> SUFFICES ASSUME NEW f \in L!Epochs, f < e
               PROVE  owner'[h][f] # None /\ l'[owner'[h][f]].pc = "dead"
    OBVIOUS
  <2>1. owner[h][f] # None /\ l[owner[h][f]].pc = "dead" /\ owner[h][f] \in Proc
    BY <1>3, <1>10
  <2>2. owner'[h][f] = owner[h][f]
    BY <1>2, <1>10, <2>1
  <2> QED BY <1>2, <2>1, <2>2
<1>11. ASSUME OwnGoes, cand' \subseteq cand \cup {p}, OwnSure, OwnReady PROVE OwnersNext
  <2>1. ASSUME NEW h \in L!Inodes, NEW e \in L!Epochs PROVE Sure(h, e)
    <3>1. owner'[h][e] # None => owner'[h][e] = owner[h][e] /\ owner[h][e] \in Proc
      BY <1>3, <1>11
    <3>2. owner'[h][e] # None => BelowNext(h, e)
      <4>1. owner'[h][e] # None => Below(h, e)
        BY <1>7, <3>1
      <4>2. \A f \in L!Epochs : owner'[h][f] = owner[h][f] \/ owner[h][f] \in {None, p}
        BY <1>11
      <4> QED BY <1>4, <1>10, <4>1, <4>2
    <3>3. owner'[h][e] # None /\ owner'[h][e] # p /\ l'[owner'[h][e]].pc # "dead" => WorkingNext(owner'[h][e], h, e)
      BY <1>7, <1>9, <3>1
    <3> QED BY <1>11, <3>2, <3>3
  <2>2. ASSUME NEW q \in cand' PROVE Ready(q)
    <3>1. CASE q # p
      <4> SUFFICES ASSUME l'[q].pc \in {"recheck", "publish"}
                   PROVE  BelowNext(l'[q].obs, l'[q].epoch)
        OBVIOUS
      <4>1. q \in cand /\ q \in Proc
        BY <1>3, <1>11, <2>2, <3>1
      <4>2. l[q].pc \in Breaking
        BY <1>9, <3>1, <4>1 DEF Breaking
      <4>3. l[q].obs \in L!Inodes
        BY <1>4, <4>1, <4>2, LockNumbers DEF LockInv, LocalsTrue
      <4>4. Below(l[q].obs, l[q].epoch)
        BY <1>8, <1>9, <3>1, <4>1
      <4>5. BelowNext(l[q].obs, l[q].epoch)
        <5>1. \A f \in L!Epochs : owner'[l[q].obs][f] = owner[l[q].obs][f] \/ owner[l[q].obs][f] \in {None, p}
          BY <1>11, <4>3
        <5>2. l[q].epoch \in Nat
          BY <1>4, <4>1
        <5> HIDE DEF Below, BelowNext
        <5> QED BY <1>10, <4>3, <4>4, <5>1, <5>2
      <4> QED BY <1>9, <3>1, <4>1, <4>5
    <3> QED BY <1>11, <2>2, <3>1
  <2> QED BY <2>1, <2>2
<1> HIDE DEF Below, BelowNext, OwnersNext, OwnGoes, OwnSure, OwnReady
(* p owns nothing as long as it does not work on a claim. *)
<1>12. l[p].pc \notin Owning => \A h \in L!Inodes, f \in L!Epochs : owner[h][f] # p
  BY <1>2, <1>3, <1>7
<1>13. \A h \in L!Inodes, f \in L!Epochs : owner[h][f] = p => Working(p, h, f)
  BY <1>2, <1>3, <1>7
<1>14. CASE Resets(p) \/ Cleans(p)
  <2>1. (l[p].pc \notin Owning /\ owner' = owner) \/ Disowned(p)
    BY <1>14 DEF Resets, Cleans
  <2>2. l'[p].pc \notin {"recheck", "publish"} /\ cand' \subseteq cand
    BY <1>14 DEF Resets, Cleans
  <2>3. \A h \in L!Inodes, f \in L!Epochs : owner'[h][f] = owner[h][f] \/ (owner[h][f] = p /\ owner'[h][f] = None)
    BY <2>1 DEF Disowned
  <2>4. \A h \in L!Inodes, f \in L!Epochs : owner'[h][f] # p
    <3>1. CASE l[p].pc \notin Owning /\ owner' = owner
      BY <1>12, <3>1
    <3>2. CASE Disowned(p)
      BY <1>3, <1>13, <3>2 DEF Disowned
    <3> QED BY <2>1, <3>1, <3>2
  <2>5. OwnGoes /\ OwnSure /\ OwnReady /\ cand' \subseteq cand \cup {p}
    BY <2>2, <2>3, <2>4 DEF OwnGoes, OwnSure, OwnReady
  <2> QED BY <1>11, <2>5
<1>15. CASE Opens(p) \/ Writes(p) \/ Releases(p) \/ Observes(p) \/ Links(p) \/ Sees(p)
  <2>1. l[p].pc \notin Owning /\ owner' = owner /\ cand' = cand /\ l'[p].pc \notin {"recheck", "publish"}
    BY <1>15 DEF Opens, Writes, Releases, Observes, Links, Sees, Owning, L!Acting, L!At
  <2>2. OwnGoes /\ OwnSure /\ OwnReady /\ cand' \subseteq cand \cup {p}
    BY <1>12, <2>1 DEF OwnGoes, OwnSure, OwnReady
  <2> QED BY <1>11, <2>2
<1>16. CASE Walks(p)
  <2>1. owner' = owner /\ cand' = cand /\ l'[p].obs = l[p].obs /\ l'[p].epoch = l[p].epoch
    BY <1>16 DEF Walks, Keeps
  <2>2. /\ l[p].pc \in Owning => l'[p].pc \in Owning
        /\ l'[p].pc \in {"recheck", "publish"} => l[p].pc = "recheck"
    BY <1>16 DEF Walks, Owning, L!Acting, L!At
  <2>3. p \in cand' => Ready(p)
    <3> SUFFICES ASSUME p \in cand, l'[p].pc \in {"recheck", "publish"}
                 PROVE  BelowNext(l[p].obs, l[p].epoch)
      BY <2>1
    <3>1. Below(l[p].obs, l[p].epoch)
      BY <1>8, <2>2
    <3>2. l[p].obs \in L!Inodes
      BY <1>5, <2>2 DEF Breaking
    <3>3. l[p].epoch \in Nat
      BY <1>4
    <3> QED BY <1>10, <2>1, <3>1, <3>2, <3>3
  <2>4. OwnGoes /\ OwnSure /\ OwnReady /\ cand' \subseteq cand \cup {p}
    BY <1>13, <2>1, <2>2, <2>3 DEF OwnGoes, OwnSure, OwnReady
  <2> QED BY <1>11, <2>4
<1>17. CASE Checks(p) \/ Pins(p) \/ Unlinks(p) \/ Drops(p)
  <2>1. /\ owner' = owner /\ cand' = cand /\ l'[p].obs = l[p].obs /\ l'[p].epoch = l[p].epoch
        /\ l'[p].pc \in Owning /\ l'[p].pc \notin {"recheck", "publish"}
    BY <1>17 DEF Checks, Pins, Unlinks, Drops, Owning, L!Acting
  <2>2. OwnGoes /\ OwnSure /\ OwnReady /\ cand' \subseteq cand \cup {p}
    BY <1>13, <2>1 DEF OwnGoes, OwnSure, OwnReady
  <2> QED BY <1>11, <2>2
<1>18. CASE Dies(p)
  <2>1. owner' = owner /\ cand' = cand /\ l'[p].pc = "dead"
    BY <1>18 DEF Dies
  <2>2. OwnGoes /\ OwnSure /\ OwnReady /\ cand' \subseteq cand \cup {p}
    BY <2>1 DEF OwnGoes, OwnSure, OwnReady
  <2> QED BY <1>11, <2>2
<1>19. CASE Stands(p)
  <2>1. owner' = owner /\ cand' = cand \cup {p} /\ l[p].pc \notin Owning /\ l[p].pc \in Breaking /\ l'[p].obs = l[p].obs
    BY <1>19 DEF Stands, Owning, L!Acting, Breaking, L!At
  <2>2. Ready(p)
    <3>1. BelowNext(l[p].obs, l'[p].epoch)
      <4>1. CASE l'[p].epoch = 0
        <5>1. \A f \in L!Epochs : ~(f < 0)
          BY <1>4
        <5> QED BY <4>1, <5>1 DEF BelowNext
      <4>2. CASE l'[p].epoch # 0
        <5>1. PICK k \in L!Epochs : owner[l[p].obs][k] # None /\ ~L!Alive(owner[l[p].obs][k]) /\ l'[p].epoch = k + 1
          BY <1>19, <4>2 DEF Stands
        <5>2. Below(l[p].obs, k)
          BY <1>5, <1>7, <2>1, <5>1
        <5>3. \A f \in L!Epochs : f < k + 1 => f < k \/ f = k
          BY <1>4, <5>1
        <5>4. Below(l[p].obs, k + 1)
          BY <5>1, <5>2, <5>3 DEF Below, L!Alive
        <5>5. k + 1 \in Nat
          BY <1>4, <5>1
        <5> QED BY <1>5, <1>10, <2>1, <5>1, <5>4, <5>5
      <4> QED BY <4>1, <4>2
    <3> QED BY <2>1, <3>1
  <2>3. OwnGoes /\ OwnSure /\ OwnReady /\ cand' \subseteq cand \cup {p}
    BY <1>12, <2>1, <2>2 DEF OwnGoes, OwnSure, OwnReady
  <2> QED BY <1>11, <2>3
<1>20. CASE Publishes(p)
  <2> DEFINE g == l[p].obs
             d == l[p].epoch
  <2>1. /\ l[p].pc = "publish" /\ l'[p].pc = "published" /\ l'[p].obs = g /\ l'[p].epoch = d
        /\ p \in cand /\ owner[g][d] = None /\ cand' = cand
        /\ \A h \in L!Inodes, f \in L!Epochs : owner'[h][f] = IF h = g /\ f = d THEN p ELSE owner[h][f]
    BY <1>20 DEF Publishes, Keeps, L!At
  <2>2. g \in L!Inodes /\ d \in L!Epochs
    BY <1>4, <1>5, <2>1 DEF Breaking
  <2>3. \A h \in L!Inodes, f \in L!Epochs : owner'[h][f] = owner[h][f] \/ owner[h][f] \in {None, p}
    BY <2>1
  <2>4. ASSUME NEW h \in L!Inodes, NEW e \in L!Epochs PROVE Sure(h, e)
    <3>1. CASE h = g /\ e = d
      <4>1. owner'[h][e] = p
        BY <2>1, <3>1
      <4>2. Below(g, d)
        BY <1>8, <2>1
      <4>3. BelowNext(g, d)
        BY <1>4, <1>10, <2>2, <2>3, <4>2
      <4> QED BY <2>1, <3>1, <4>1, <4>3 DEF Owning
    <3>2. CASE ~(h = g /\ e = d)
      <4>1. owner'[h][e] = owner[h][e]
        BY <2>1, <3>2
      <4>2. owner[h][e] # p
        BY <1>13, <2>1 DEF Owning, L!Acting
      <4>3. owner[h][e] # None => Below(h, e) /\ BelowNext(h, e)
        BY <1>4, <1>7, <1>10, <2>3
      <4>4. owner[h][e] # None /\ l'[owner[h][e]].pc # "dead" => WorkingNext(owner[h][e], h, e)
        BY <1>3, <1>7, <1>9, <4>2
      <4> QED BY <4>1, <4>3, <4>4
    <3> QED BY <3>1, <3>2
  <2>5. ASSUME NEW q \in cand' PROVE Ready(q)
    <3> SUFFICES ASSUME q # p, l'[q].pc \in {"recheck", "publish"}
                 PROVE  BelowNext(l'[q].obs, l'[q].epoch)
      BY <2>1
    <3>1. q \in Proc /\ q \in cand /\ l[q].pc \in {"recheck", "publish"} /\ l'[q].obs = l[q].obs /\ l'[q].epoch = l[q].epoch
      BY <1>3, <1>9, <2>1
    <3>2. l[q].obs \in L!Inodes
      BY <1>4, <3>1, LockNumbers DEF LockInv, LocalsTrue, Breaking
    <3> QED BY <1>4, <1>8, <1>10, <2>3, <3>1, <3>2
  <2> HIDE DEF Sure, Ready
  <2> QED BY <2>4, <2>5 DEF OwnersNext
<1>21. CASE Sweeps(p)
  <2> DEFINE g == l[p].obs
  <2>1. /\ l[p].pc = "sweep" /\ l'[p].pc \in {"try", "wait"} /\ cand' = cand \ {q \in Proc : l[q].obs = g}
        /\ \A h \in L!Inodes, f \in L!Epochs : owner'[h][f] = IF h = g THEN None ELSE owner[h][f]
    BY <1>21 DEF Sweeps, L!At
  <2>2. \A h \in L!Inodes, f \in L!Epochs : owner[h][f] # p
    BY <1>12, <2>1 DEF Owning, L!Acting
  <2>3. ASSUME NEW h \in L!Inodes, NEW e \in L!Epochs PROVE Sure(h, e)
    <3>1. CASE h = g
      BY <2>1, <3>1
    <3>2. CASE h # g
      <4>1. \A f \in L!Epochs : owner'[h][f] = owner[h][f]
        BY <2>1, <3>2
      <4>2. owner[h][e] # None => Below(h, e) /\ BelowNext(h, e)
        BY <1>4, <1>7, <1>10, <4>1
      <4>3. owner[h][e] # None /\ l'[owner[h][e]].pc # "dead" => WorkingNext(owner[h][e], h, e)
        BY <1>3, <1>7, <1>9, <2>2
      <4> QED BY <4>1, <4>2, <4>3
    <3> QED BY <3>1, <3>2
  <2>4. ASSUME NEW q \in cand' PROVE Ready(q)
    <3> SUFFICES ASSUME l'[q].pc \in {"recheck", "publish"}
                 PROVE  BelowNext(l'[q].obs, l'[q].epoch)
      OBVIOUS
    <3>1. q # p /\ q \in Proc /\ q \in cand /\ l[q].obs # g
      BY <1>3, <2>1
    <3>2. l[q].pc \in {"recheck", "publish"} /\ l'[q].obs = l[q].obs /\ l'[q].epoch = l[q].epoch
      BY <1>9, <3>1
    <3>3. l[q].obs \in L!Inodes
      BY <1>4, <3>1, <3>2, LockNumbers DEF LockInv, LocalsTrue, Breaking
    <3>4. \A f \in L!Epochs : owner'[l[q].obs][f] = owner[l[q].obs][f]
      BY <2>1, <3>1, <3>3
    <3> QED BY <1>4, <1>8, <1>10, <3>1, <3>2, <3>3, <3>4
  <2> HIDE DEF Sure, Ready
  <2> QED BY <2>3, <2>4 DEF OwnersNext
<1> HIDE DEF Sure, Ready
<1> QED BY <1>14, <1>15, <1>16, <1>17, <1>18, <1>19, <1>20, <1>21 DEF Effect

(* A lock in place has one maker, and a process that works on it has not    *)
(* made it.                                                                 *)
LEMMA SectionFacts ==
    ASSUME LockInv, NEW p \in Proc, NEW q \in Proc
    PROVE  /\ l[p].pc \in L!InSection => l[p].own # 0 /\ l[p].own \in L!Inodes /\ maker[l[p].own] = p
           /\ l[p].pc \in Breaking => l[p].obs # 0 /\ l[p].obs \in L!Inodes /\ l[maker[l[p].obs]].pc = "dead"
           /\ l[p].pc \in L!InSection /\ l[q].pc \in L!InSection /\ l[p].own = l[q].own => p = q
           /\ l[p].pc \in Breaking /\ l[q].pc \in L!InSection => l[p].obs # l[q].own
<1>1. L!TypeOK /\ LocalsTrue(p) /\ LocalsTrue(q)
  BY DEF LockInv
<1>2. l[p].own \in 0..MaxInode /\ l[p].obs \in 0..MaxInode
  BY <1>1, LocalRange
<1>3. l[p].pc \in L!InSection => l[p].own \in L!Inodes /\ l[p].own # 0 /\ maker[l[p].own] = p
  <2>1. l[p].own \in 1..files => l[p].own # 0
    BY <1>1, DiskRange
  <2> QED BY <1>1, <1>2, <2>1, LockNumbers DEF LocalsTrue
<1>4. l[p].pc \in Breaking => l[p].obs # 0 /\ l[p].obs \in L!Inodes /\ l[maker[l[p].obs]].pc = "dead"
  BY <1>1, <1>2, LockNumbers DEF LocalsTrue, L!Alive
<1>5. l[q].pc \in L!InSection => maker[l[q].own] = q /\ l[q].pc # "dead"
  BY <1>1 DEF LocalsTrue, L!InSection
<1> QED BY <1>3, <1>4, <1>5

(* Nobody else has the epoch of the same claim. *)
LEMMA OneLiveOwner ==
    ASSUME LockInv, NEW p \in Proc, NEW q \in Proc, NEW g \in L!Inodes, NEW d \in L!Epochs, NEW e \in L!Epochs,
           owner[g][d] = p, owner[g][e] = q, L!Alive(p), L!Alive(q)
    PROVE  p = q
<1>1. p # None /\ q # None
  BY LockNumbers
<1>2. ~(d < e) /\ ~(e < d)
  BY <1>1 DEF LockInv, OwnersTrue
<1>3. d = e
  BY <1>2, LockNumbers
<1> QED BY <1>3

(* While no owner file was deleted, after a step. *)
LEMMA KeptStep ==
    ASSUME LockInv, L!TypeOK', NEW p \in Proc, Effect(p), orphaned' = {}, NEW q \in Proc
    PROVE  KeptTrue(q)'
<1>1. L!TypeOK /\ MakersTrue /\ OwnersTrue
  BY DEF LockInv
<1>2. orphaned = {}
  BY DEF Effect, Resets, Walks, Opens, Writes, Releases, Observes, Links, Sees, Stands, Publishes, Checks, Pins,
     Unlinks, Drops, Cleans, Sweeps, Dies, HistorySame
<1>3. KeptTrue(p) /\ KeptTrue(q)
  BY <1>2 DEF LockInv
<1>4. l[p].pc # "dead" /\ Rest(p)
  BY <1>1, Common
<1>5. /\ l[q].pc \in L!InSection => l[q].own # 0 /\ l[q].own \in L!Inodes /\ maker[l[q].own] = q
      /\ l[q].pc \in Breaking => l[q].obs # 0 /\ l[q].obs \in L!Inodes /\ l[maker[l[q].obs]].pc = "dead"
      /\ l[p].pc \in Breaking => l[p].obs # 0 /\ l[p].obs \in L!Inodes
      /\ l[p].pc \in L!InSection /\ l[q].pc \in L!InSection /\ l[p].own = l[q].own => p = q
      /\ l[p].pc \in Breaking /\ l[q].pc \in L!InSection => l[p].obs # l[q].own
      /\ l[q].pc \in Breaking /\ l[p].pc \in L!InSection => l[q].obs # l[p].own
      /\ l[q].epoch \in L!Epochs /\ l[p].epoch \in L!Epochs
  BY <1>1, SectionFacts, LocalRange
(* Others keep their owner file ... *)
<1>6. ASSUME q # p, l[q].pc \in L!Acting
      PROVE  owner'[l[q].obs][l[q].epoch] = q
  <2>1. l[q].obs \in L!Inodes /\ l[q].epoch \in L!Epochs /\ owner[l[q].obs][l[q].epoch] = q
    BY <1>3, <1>5, <1>6 DEF KeptTrue, Breaking
  <2>2. CASE Disowned(p)
    BY <1>6, <2>1, <2>2 DEF Disowned
  <2>3. CASE Publishes(p)
    <3>1. q # None
      BY LockNumbers
    <3> QED BY <2>1, <2>3, <3>1 DEF Publishes
  <2>4. CASE Sweeps(p)
    <3>1. l[q].obs # l[p].obs
      <4>1. q \notin orphaned'
        OBVIOUS
      <4> QED BY <1>6, <2>1, <2>4, <4>1 DEF Sweeps
    <3> QED BY <2>1, <2>4, <3>1 DEF Sweeps
  <2>5. owner' = owner \/ Disowned(p) \/ Publishes(p) \/ Sweeps(p)
    BY DEF Effect, Resets, Walks, Opens, Writes, Releases, Observes, Links, Sees, Stands, Checks, Pins,
       Unlinks, Drops, Cleans, Dies
  <2> QED BY <2>1, <2>2, <2>3, <2>4, <2>5
(* ... and the lock they have or break. *)
<1>7. ASSUME q # p, l[q].pc \in {"verify", "unlink"} \/ l[q].pc \in L!InSection
      PROVE  public' = public
  <2>1. public # 0
    BY <1>3, <1>5, <1>7 DEF KeptTrue, Breaking, L!Acting
  <2>2. ~Opens(p)
    BY <2>1 DEF Opens
  <2>3. ~Releases(p)
    <3> SUFFICES ASSUME Releases(p) PROVE FALSE
      OBVIOUS
    <3>1. l[p].pc \in L!InSection /\ public = l[p].own
      BY <1>3 DEF Releases, L!At, L!InSection, KeptTrue
    <3>2. CASE l[q].pc \in L!InSection
      BY <1>3, <1>5, <1>7, <3>1, <3>2 DEF KeptTrue
    <3>3. CASE l[q].pc \in {"verify", "unlink"}
      BY <1>3, <1>5, <3>1, <3>3 DEF KeptTrue, Breaking, L!Acting
    <3> QED BY <1>7, <3>2, <3>3
  <2>4. ~Unlinks(p)
    <3> SUFFICES ASSUME Unlinks(p) PROVE FALSE
      OBVIOUS
    <3>1. l[p].pc = "unlink" /\ public = l[p].obs /\ owner[l[p].obs][l[p].epoch] = p
      BY <1>3 DEF Unlinks, L!At, KeptTrue, L!Acting
    <3>2. l[p].obs \in L!Inodes
      BY <1>5, <3>1 DEF Breaking, L!Acting
    <3>3. CASE l[q].pc \in L!InSection
      BY <1>3, <1>5, <3>1, <3>3 DEF KeptTrue, Breaking, L!Acting
    <3>4. CASE l[q].pc \in {"verify", "unlink"}
      <4>1. owner[l[p].obs][l[q].epoch] = q
        BY <1>3, <3>1, <3>4 DEF KeptTrue, L!Acting
      <4>2. L!Alive(p) /\ L!Alive(q)
        BY <3>1, <3>4 DEF L!Alive
      <4> QED BY <1>5, <1>7, <3>1, <3>2, <4>1, <4>2, OneLiveOwner
    <3> QED BY <1>7, <3>3, <3>4
  <2> QED BY <2>2, <2>3, <2>4 DEF Effect, Resets, Walks, Writes, Observes, Links, Sees, Stands, Publishes, Checks, Pins,
     Drops, Cleans, Sweeps, Dies, LocksSame
<1>8. CASE q # p
  <2>1. l'[q].pc = l[q].pc /\ l'[q].obs = l[q].obs /\ l'[q].epoch = l[q].epoch /\ l'[q].own = l[q].own
    BY <1>4, <1>8 DEF Rest, Like
  <2> QED BY <1>3, <1>6, <1>7, <1>8, <2>1 DEF KeptTrue
<1>9. CASE q = p
  <2>1. CASE Opens(p)
    BY <1>9, <2>1 DEF Opens, KeptTrue, L!Acting, L!InSection
  <2>2. CASE Walks(p)
    <3>1. /\ l'[p].own = l[p].own /\ l'[p].obs = l[p].obs /\ l'[p].epoch = l[p].epoch
          /\ owner' = owner /\ public' = public
      BY <2>2 DEF Walks, Keeps, LocksSame
    <3>2. l'[p].pc \in L!Acting => owner[l[p].obs][l[p].epoch] = p
      BY <1>3, <2>2 DEF Walks, KeptTrue, L!Acting, L!At
    <3>3. l'[p].pc \in {"verify", "unlink"} => public = l[p].obs
      BY <1>3, <2>2 DEF Walks, KeptTrue, L!At
    <3>4. l'[p].pc \in L!InSection => public = l[p].own
      BY <2>2 DEF Walks, L!InSection, L!At
    <3> QED BY <1>9, <3>1, <3>2, <3>3, <3>4 DEF KeptTrue
  <2>3. CASE Writes(p)
    BY <1>3, <1>9, <2>3 DEF Writes, Keeps, KeptTrue, L!Acting, L!InSection, L!At
  <2>4. CASE Checks(p) \/ Pins(p) \/ Unlinks(p)
    <3>1. /\ l[p].pc \in L!Acting /\ l'[p].pc \notin {"verify", "unlink"} /\ l'[p].pc \notin L!InSection
          /\ l'[p].obs = l[p].obs /\ l'[p].epoch = l[p].epoch /\ owner' = owner
      BY <2>4 DEF Checks, Pins, Unlinks, L!Acting, L!InSection, L!At
    <3> QED BY <1>3, <1>9, <3>1 DEF KeptTrue
  <2>5. CASE ~(Opens(p) \/ Walks(p) \/ Writes(p) \/ Checks(p) \/ Pins(p) \/ Unlinks(p))
    <3>1. l'[p].pc \notin L!Acting /\ l'[p].pc \notin L!InSection
      BY <2>5 DEF Effect, Resets, Releases, Observes, Links, Sees, Stands, Publishes, Drops, Cleans, Sweeps, Dies,
         L!Acting, L!InSection
    <3> QED BY <1>9, <3>1 DEF KeptTrue, L!Acting
  <2> QED BY <2>1, <2>2, <2>3, <2>4, <2>5
<1> QED BY <1>8, <1>9

(* The first death: nothing was abandoned before. *)
LEMMA FirstDeath ==
    ASSUME LockInv, NEW p \in Proc, Dies(p), deaths = 0
    PROVE  OneDeath'
<1>1. L!TypeOK /\ MakersTrue /\ LocalsTrue(p) /\ OneDeath
  BY DEF LockInv
<1>2. PICK g \in 0 .. files : AbandonedOnce(g)
  BY <1>1 DEF OneDeath
<1>3. /\ public \in 0..MaxInode /\ files \in 0..MaxInode
      /\ \A i \in L!Inodes : i \in Nat /\ i # 0
      /\ \A i \in 0..MaxInode : i # 0 => i \in L!Inodes
  BY <1>1, DiskRange
<1>4. \A q \in Proc : l[q].pc # "dead"
  BY <1>2 DEF AbandonedOnce, L!Alive
<1>5. g = 0
  <2>1. g # 0 => g \in L!Inodes /\ g <= files
    BY <1>3, LockNumbers DEF L!Inodes
  <2>2. g # 0 => maker[g] \in Proc
    BY <1>1, <2>1 DEF MakersTrue
  <2> QED BY <1>2, <1>4, <2>2 DEF AbandonedOnce, L!Alive
<1>6. /\ \A q \in Proc : l[q].obs = 0 /\ l[q].epoch = 0 /\ (l[q].pc \in L!InSection => public = l[q].own)
      /\ \A h \in L!Inodes : claim[h] = 0 /\ \A e \in L!Epochs : owner[h][e] = None
  BY <1>2, <1>3, <1>5 DEF AbandonedOnce
<1>7. /\ l'[p].pc = "dead" /\ deaths' = deaths + 1 /\ l'[p].obs = l[p].obs /\ l'[p].epoch = 0
      /\ \A q \in Proc : q # p => l'[q] = l[q]
      /\ public' = public /\ maker' = maker /\ files' = files /\ claim' = claim /\ owner' = owner
  BY DEF Dies, RestSame, LocksSame
<1>8. \A q \in Proc : l'[q].pc \notin Breaking /\ l'[q].obs = 0 /\ l'[q].epoch = 0
  <2>1. \A q \in Proc : l[q].pc \notin Breaking
    BY <1>6 DEF LockInv, LocalsTrue
  <2>2. l'[p].pc \notin Breaking
    BY <1>7 DEF Breaking, L!Acting
  <2> QED BY <1>6, <1>7, <2>1, <2>2
<1>9. PICK k \in 0 .. files' : k = IF l[p].pc \in L!InSection THEN public ELSE 0
  <2>1. public \in 0 .. files
    BY <1>1, <1>3 DEF MakersTrue
  <2>2. 0 \in 0 .. files
    BY <1>3
  <2> QED BY <1>7, <2>1, <2>2
<1>10. k # 0 => maker[k] = p
  <2>1. l[p].pc \in L!InSection => maker[public] = p
    BY <1>1, <1>6 DEF LocalsTrue
  <2> QED BY <1>9, <2>1
<1>11. public # 0 /\ l'[maker[public]].pc = "dead" => public = k
  <2> SUFFICES ASSUME public # 0, l'[maker[public]].pc = "dead" PROVE public = k
    OBVIOUS
  <2>1. maker[public] \in Proc
    BY <1>1, <1>3 DEF MakersTrue
  <2>2. maker[public] = p
    BY <1>4, <1>7, <2>1
  <2>3. l[p].pc \in L!InSection
    BY <1>1, <1>4, <2>2 DEF MakersTrue, L!Alive
  <2> QED BY <1>9, <2>3
<1>12. \A q, r \in Proc : l'[q].pc = "dead" /\ l'[r].pc = "dead" => q = r
  BY <1>4, <1>7
<1>13. deaths' # 0
  BY <1>7
<1>14. \A q \in Proc : l'[q].pc \in L!InSection => public = l'[q].own
  BY <1>6, <1>7 DEF L!InSection
<1>15. AbandonedOnce(k)'
  BY <1>6, <1>7, <1>8, <1>10, <1>11, <1>12, <1>13, <1>14 DEF AbandonedOnce, L!Alive
<1>16. k # 0 => InPlace(k)'
  <2>1. k # 0 => claim'[k] = 0 /\ k = public
    BY <1>3, <1>6, <1>7, <1>9
  <2> QED BY <1>8, <2>1 DEF InPlace, Alone, Breaking, L!Acting
<1>17. k # 0 => public' = k
  BY <1>7, <1>9
<1> QED BY <1>15, <1>16, <1>17 DEF OneDeath

(* What is true of the abandoned file stays true when nobody dies. *)
LEMMA AbandonedStep ==
    ASSUME LockInv, L!TypeOK', NEW p \in Proc, Effect(p), l'[p].pc # "dead", deaths' = deaths,
           NEW g \in 0 .. files, AbandonedOnce(g), g # 0 => IF public = g THEN InPlace(g) ELSE Gone(g)
    PROVE  AbandonedOnce(g)'
<1>1. L!TypeOK /\ MakersTrue
  BY DEF LockInv
<1>2. /\ public \in 0..MaxInode /\ files \in 0..MaxInode
      /\ \A i \in L!Inodes : i \in Nat /\ i # 0
      /\ \A i \in 0..MaxInode : i # 0 => i \in L!Inodes
  BY <1>1, DiskRange
<1>3. /\ l[p].pc # "dead" /\ Rest(p)
      /\ \A q \in Proc : l'[q].pc = "dead" <=> l[q].pc = "dead"
  BY <1>1, Common DEF Rest, Like
<1>4. \A i \in L!Inodes : i <= files => maker'[i] = maker[i] /\ maker[i] \in Proc
  BY <1>1, Common DEF MakersTrue
<1>5. g # 0 => g \in L!Inodes /\ g <= files
  BY <1>2, LockNumbers DEF L!Inodes
<1>6. /\ \A q, r \in Proc : l[q].pc = "dead" /\ l[r].pc = "dead" => q = r
      /\ deaths = 0 => \A q \in Proc : l[q].pc # "dead"
      /\ g # 0 => l[maker[g]].pc = "dead"
      /\ public # 0 /\ l[maker[public]].pc = "dead" => public = g
      /\ \A q \in Proc : l[q].obs \in {0, g} /\ l[q].epoch = 0 /\ (l[q].pc \in L!InSection => public = l[q].own)
      /\ \A h \in L!Inodes : /\ h # g => claim[h] = 0
                             /\ \A e \in L!Epochs : owner[h][e] # None => h = g /\ e = 0 /\ l[owner[h][e]].pc # "dead"
  BY DEF AbandonedOnce, L!Alive
<1>7. l[p].pc \in Breaking => l[p].obs = g /\ g # 0
  BY <1>6 DEF LockInv, LocalsTrue
<1>8. g # 0 => l'[maker'[g]].pc = "dead"
  BY <1>3, <1>4, <1>5, <1>6
<1>9. public' # 0 /\ l'[maker'[public']].pc = "dead" => public' = g
  <2>1. CASE Opens(p)
    BY <2>1 DEF Opens
  <2>2. CASE public' \in {0, public} /\ maker' = maker
    <3>1. public # 0 => public \in L!Inodes /\ public <= files
      BY <1>1, <1>2 DEF MakersTrue
    <3> QED BY <1>3, <1>4, <1>6, <2>2, <3>1
  <2>3. Opens(p) \/ (public' \in {0, public} /\ maker' = maker)
    BY DEF Effect, Resets, Walks, Writes, Releases, Observes, Links, Sees, Stands, Publishes, Checks, Pins,
       Unlinks, Drops, Cleans, Sweeps, Dies, LocksSame
  <2> QED BY <2>1, <2>2, <2>3
<1>10. \A q \in Proc : l'[q].obs \in {0, g} /\ l'[q].epoch = 0
  <2>1. \A q \in Proc : q # p => l'[q].obs \in {0, g} /\ l'[q].epoch = 0
    BY <1>3, <1>6 DEF Rest, Like
  <2>2. CASE Observes(p)
    <3>1. public # 0 /\ L!Breakable(public) /\ l'[p].obs = public /\ l'[p].epoch = 0
      BY <2>2 DEF Observes
    <3>2. public = g
      BY <1>1, <1>2, <1>6, <3>1, BreakableDead
    <3> QED BY <2>1, <3>1, <3>2
  <2>3. CASE Stands(p)
    <3>1. l[p].obs = g /\ l'[p].obs = g /\ g \in L!Inodes
      BY <1>5, <1>7, <2>3 DEF Stands, Breaking, L!At
    <3>2. ~\E k \in L!Epochs : owner[g][k] # None /\ ~L!Alive(owner[g][k])
      BY <1>6, <3>1 DEF L!Alive
    <3>3. l'[p].epoch = 0
      BY <2>3, <3>1, <3>2 DEF Stands
    <3> QED BY <2>1, <3>1, <3>3
  <2>4. CASE ~Observes(p) /\ ~Stands(p)
    <3>1. l'[p].obs \in {0, l[p].obs} /\ l'[p].epoch \in {0, l[p].epoch}
      BY <2>4 DEF Effect, Resets, Walks, Opens, Writes, Releases, Links, Sees, Publishes, Checks, Pins,
         Unlinks, Drops, Cleans, Sweeps, Dies, Keeps, Forgets
    <3> QED BY <1>6, <2>1, <3>1
  <2> QED BY <2>2, <2>3, <2>4
<1>11. ASSUME NEW q \in Proc, l'[q].pc \in L!InSection
       PROVE  public' = l'[q].own
  <2>1. CASE q # p
    <3>1. l[q].pc \in L!InSection /\ l'[q].own = l[q].own /\ public = l[q].own /\ l[q].own # 0 /\ public \in L!Inodes
      BY <1>3, <1>6, <1>11, <2>1, SectionFacts DEF Rest, Like
    <3>2. ~Opens(p)
      BY <3>1 DEF Opens
    <3>3. ~Releases(p)
      BY <1>6, <2>1, <3>1, SectionFacts DEF Releases, L!InSection, L!At
    <3>4. ~Unlinks(p)
      <4> SUFFICES ASSUME Unlinks(p) PROVE FALSE
        OBVIOUS
      <4>1. l[p].pc = "unlink" /\ l[p].pc \in Breaking
        BY DEF Unlinks, Breaking, L!Acting, L!At
      <4>2. l[p].obs = g /\ g # 0 /\ public # g
        BY <1>7, <3>1, <4>1, SectionFacts
      <4> QED BY <4>1, <4>2 DEF Gone
    <3>5. public' = public
      BY <3>2, <3>3, <3>4 DEF Effect, Resets, Walks, Writes, Observes, Links, Sees, Stands, Publishes, Checks, Pins,
         Drops, Cleans, Sweeps, Dies, LocksSame
    <3> QED BY <3>1, <3>5
  <2>2. CASE q = p
    <3>1. CASE Opens(p)
      BY <2>2, <3>1 DEF Opens
    <3>2. CASE Walks(p)
      <4>1. public' = public /\ l'[p].own = l[p].own
        BY <3>2 DEF Walks, Keeps, LocksSame
      <4>2. public = l[p].own
        BY <1>11, <2>2, <3>2 DEF Walks, L!InSection, L!At
      <4> QED BY <2>2, <4>1, <4>2
    <3>3. CASE Writes(p)
      BY <1>6, <2>2, <3>3 DEF Writes, Keeps, L!InSection, L!At
    <3>4. Opens(p) \/ Walks(p) \/ Writes(p)
      BY <1>11, <2>2 DEF Effect, Resets, Releases, Observes, Links, Sees, Stands, Publishes, Checks, Pins,
         Unlinks, Drops, Cleans, Sweeps, Dies, L!InSection
    <3> QED BY <3>1, <3>2, <3>3, <3>4
  <2> QED BY <2>1, <2>2
<1>12. ASSUME NEW h \in L!Inodes, h # g PROVE claim'[h] = 0
  <2>1. CASE Links(p)
    <3>1. l[p].obs = g
      BY <1>7, <2>1 DEF Links, Breaking, L!At
    <3> QED BY <1>6, <1>12, <2>1, <3>1 DEF Links
  <2>2. CASE Drops(p)
    BY <1>6, <1>12, <2>2 DEF Drops
  <2>3. claim' = claim \/ Links(p) \/ Drops(p)
    BY DEF Effect, Resets, Walks, Opens, Writes, Releases, Observes, Sees, Stands, Publishes, Checks, Pins,
       Unlinks, Cleans, Sweeps, Dies
  <2> QED BY <1>6, <1>12, <2>1, <2>2, <2>3
<1>13. ASSUME NEW h \in L!Inodes, NEW e \in L!Epochs, owner'[h][e] # None
       PROVE  h = g /\ e = 0 /\ l'[owner'[h][e]].pc # "dead"
  <2>1. CASE owner'[h][e] = owner[h][e]
    <3>1. owner[h][e] \in Proc
      BY <1>1, <1>13, <2>1, LockTyped
    <3> QED BY <1>3, <1>6, <1>13, <2>1, <3>1
  <2>2. CASE owner'[h][e] # owner[h][e]
    <3>1. Publishes(p)
      BY <1>13, <2>2 DEF Effect, Resets, Walks, Opens, Writes, Releases, Observes, Links, Sees, Stands, Checks, Pins,
         Unlinks, Drops, Cleans, Sweeps, Dies, Disowned
    <3>2. l[p].obs = g /\ l[p].epoch = 0
      BY <1>6, <1>7, <3>1 DEF Publishes, Breaking, L!At
    <3> QED BY <2>2, <3>1, <3>2 DEF Publishes
  <2> QED BY <2>1, <2>2
<1>14. /\ \A q, r \in Proc : l'[q].pc = "dead" /\ l'[r].pc = "dead" => q = r
       /\ deaths' = 0 => \A q \in Proc : l'[q].pc # "dead"
  BY <1>3, <1>6
<1> QED BY <1>8, <1>9, <1>10, <1>11, <1>12, <1>13, <1>14 DEF AbandonedOnce, L!Alive

(* As long as the abandoned file is in place, after a step. *)
LEMMA InPlaceStep ==
    ASSUME LockInv, NEW p \in Proc, Effect(p), l'[p].pc # "dead", deaths' = deaths,
           NEW g \in 0 .. files, g # 0, AbandonedOnce(g), public = g, InPlace(g)
    PROVE  IF public' = g THEN InPlace(g)' ELSE Gone(g)'
<1>1. L!TypeOK /\ MakersTrue /\ LocalsTrue(p)
  BY DEF LockInv
<1>2. /\ public \in 0..MaxInode /\ files \in 0..MaxInode
      /\ \A i \in L!Inodes : i \in Nat /\ i # 0
      /\ g \in L!Inodes /\ 0 \in L!Epochs
  BY <1>1, DiskRange, LockNumbers DEF L!Inodes
<1>3. /\ l[p].pc # "dead" /\ Rest(p)
  BY <1>1, Common
<1>4. /\ l[maker[g]].pc = "dead"
      /\ \A q \in Proc : l[q].obs \in {0, g} /\ l[q].epoch = 0 /\ (l[q].pc \in L!InSection => public = l[q].own)
  BY DEF AbandonedOnce, L!Alive
<1>5. \A q \in Proc : l[q].pc \in Breaking => l[q].obs = g
  BY <1>4 DEF LockInv, LocalsTrue
<1>6. \A q \in Proc : l[q].pc \notin L!InSection
  <2>1. \A q \in Proc : l[q].pc \in L!InSection => maker[g] = q /\ l[q].pc # "dead"
    BY <1>4 DEF LockInv, LocalsTrue, L!InSection
  <2> QED BY <1>4, <2>1
<1>7. /\ claim[g] \in {0, g}
      /\ \A q \in Proc :
            /\ l[q].pc \in {"published"} \cup L!Acting => owner[g][0] = q
            /\ l[q].pc \notin {"dropClaim", "withdraw", "clean", "sweep"}
            /\ l[q].pc \in L!Acting => claim[g] = g
            /\ l[q].pc \in {"pin", "pinned", "verify", "unlink"} => l[q].claim = g
            /\ l[q].pc \in {"pinned", "verify"} => l[q].pin = g /\ l[q].nlink = L!Nlink(g)
  BY DEF InPlace, Alone
<1>8. \A q \in Proc : l[q].pc \in {"pinned", "verify"} => ~l[q].touched
  BY DEF InPlace
<1>9. ~Opens(p) /\ ~Writes(p) /\ ~Releases(p) /\ ~Drops(p) /\ ~Cleans(p) /\ ~Sweeps(p) /\ ~Dies(p)
  BY <1>6, <1>7 DEF Opens, Writes, Releases, Drops, Cleans, Sweeps, Dies, L!InSection, L!At
<1>10. CASE Unlinks(p)
  <2>1. /\ l[p].pc = "unlink" /\ public' = 0 /\ l'[p].pc = "dropClaim" /\ l'[p].claim = l[p].claim
        /\ claim' = claim /\ owner' = owner
    BY <1>10 DEF Unlinks, L!At
  <2>2. owner[g][0] = p /\ claim[g] = g /\ l[p].claim = g
    BY <1>7, <2>1 DEF L!Acting
  <2>3. \A q \in Proc : q # p => l'[q].pc = l[q].pc
    BY <1>3 DEF Rest, Like
  <2>4. \A q \in Proc : q # p => l[q].pc \notin {"published"} \cup L!Acting
    BY <1>7, <2>2
  <2>5. \A q \in Proc : l'[q].pc \notin {"pin", "pinned", "verify", "unlink"}
    BY <2>1, <2>3, <2>4 DEF L!Acting
  <2>6. \A q \in Proc : l'[q].pc \notin {"withdraw", "clean", "sweep"}
    BY <1>7, <2>1, <2>3
  <2>7. Alone(g)'
    BY <2>1, <2>2, <2>3, <2>4 DEF Alone
  <2>8. l'[p].pc = "dropClaim" /\ l'[p].claim = g
    BY <2>1, <2>2
  <2>9. Gone(g)'
    BY <2>5, <2>6, <2>7, <2>8 DEF Gone, L!At
  <2> QED BY <2>1, <2>9
<1>11. CASE Links(p)
  <2>1. /\ l[p].pc = "link" /\ claim[g] = 0 /\ public' = public /\ owner' = owner /\ l'[p].pc = "lstatClaim"
        /\ claim'[g] = g
    <3>1. l[p].pc = "link" /\ l[p].obs = g
      BY <1>5, <1>11 DEF Links, Breaking, L!At
    <3> QED BY <1>2, <1>11, <3>1 DEF Links, LocksSame
  <2>2. \A q \in Proc : l[q].pc \notin L!Acting
    BY <1>2, <1>7, <2>1
  <2>3. \A q \in Proc : q # p => l'[q].pc = l[q].pc
    BY <1>3 DEF Rest, Like
  <2>4. \A q \in Proc : l'[q].pc \notin L!Acting /\ l'[q].pc \notin {"clean", "sweep"}
    BY <1>7, <2>1, <2>2, <2>3 DEF L!Acting
  <2>5. Alone(g)'
    BY <1>7, <2>1, <2>3, <2>4 DEF Alone
  <2>6. InPlace(g)'
    BY <2>1, <2>4, <2>5 DEF InPlace, L!Acting
  <2> QED BY <2>1, <2>6
<1>12. CASE \/ Resets(p) \/ Walks(p) \/ Observes(p) \/ Sees(p) \/ Stands(p) \/ Publishes(p) \/ Checks(p) \/ Pins(p)
  <2>1. RestSame(p) /\ public' = public /\ claim' = claim
    BY <1>12 DEF Resets, Walks, Observes, Sees, Stands, Publishes, Checks, Pins, LocksSame
  <2>2. \A q \in Proc : q # p => l'[q] = l[q]
    BY <2>1 DEF RestSame
  <2>3. L!Nlink(g)' = L!Nlink(g)
    BY <2>1 DEF L!Nlink
  <2> DEFINE Fine(x, c, n, m) ==
               /\ x \notin {"dropClaim", "withdraw", "clean", "sweep"}
               /\ x \in L!Acting => claim[g] = g
               /\ x \in {"pin", "pinned", "verify", "unlink"} => c = g
               /\ x \in {"pinned", "verify"} => n = g /\ m = L!Nlink(g)
  <2>4. Fine(l'[p].pc, l'[p].claim, l'[p].pin, l'[p].nlink) /\ (l'[p].pc \in {"pinned", "verify"} => ~l'[p].touched)
    <3>1. CASE Resets(p) \/ Observes(p) \/ Sees(p) \/ Stands(p) \/ Publishes(p)
      <4>1. l'[p].pc \in {"idle", "try", "wait", "link", "readdir", "recheck", "published"}
        BY <3>1 DEF Resets, Observes, Sees, Stands, Publishes
      <4> QED BY <4>1 DEF L!Acting
    <3>2. CASE Checks(p)
      <4>1. l[p].pc = "claimed" /\ l[p].obs = g /\ claim[g] = g
        BY <1>5, <1>7, <3>2 DEF Checks, L!Acting, Breaking, L!At
      <4>2. l'[p].pc = "pin" /\ l'[p].claim = g
        BY <3>2, <4>1 DEF Checks
      <4> QED BY <4>1, <4>2
    <3>3. CASE Pins(p)
      <4>1. /\ l[p].pc = "pin" /\ l'[p].pc = "pinned" /\ l'[p].pin = g /\ l'[p].nlink = L!Nlink(g)
            /\ l'[p].claim = l[p].claim
        BY <3>3 DEF Pins, L!At
      <4>2. ~l'[p].touched
        BY <3>3 DEF Pins
      <4>3. claim[g] = g /\ l[p].claim = g
        BY <1>7, <4>1 DEF L!Acting
      <4> QED BY <4>1, <4>2, <4>3
    <3>4. CASE Walks(p)
      <4>1. /\ l'[p].claim = l[p].claim /\ l'[p].pin = l[p].pin /\ l'[p].nlink = l[p].nlink
        BY <3>4 DEF Walks, Keeps
      <4>2. l'[p].touched = l[p].touched
        BY <3>4 DEF Walks, Keeps
      <4>3. CASE l[p].pc \in {"pinned", "verify"}
        <5>1. l[p].pin = g /\ l[p].nlink = L!Nlink(g) /\ l[p].claim = g /\ claim[g] = g /\ l[p].obs = g
          BY <1>5, <1>7, <4>3 DEF L!Acting, Breaking
        <5>2. L!Stable(p) /\ L!Breakable(g)
          BY <1>1, <1>2, <1>4, <5>1, BreakableDead DEF L!Stable
        <5>3. ~l[p].touched
          BY <1>8, <4>3
        <5>4. l'[p].pc \in {"verify", "unlink"}
          BY <3>4, <4>3, <5>1, <5>2, <5>3 DEF Walks, L!At
        <5>5. Fine(l'[p].pc, l[p].claim, l[p].pin, l[p].nlink)
          BY <5>1, <5>4
        <5>6. ~l'[p].touched
          BY <4>2, <5>3
        <5> QED BY <4>1, <5>5, <5>6
      <4>4. CASE l[p].pc = "published"
        <5>1. l'[p].pc = "claimed" /\ claim[l[p].obs] = l[p].claim
          BY <3>4, <4>4 DEF Walks, L!At
        <5>2. l[p].obs = g /\ l[p].claim # 0
          BY <1>1, <1>5, <4>4 DEF LocalsTrue, Breaking
        <5>3. claim[g] = g
          BY <1>7, <5>1, <5>2
        <5> QED BY <5>1, <5>3
      <4>5. CASE l[p].pc \notin {"pinned", "verify", "published"}
        <5>1. l'[p].pc \in {"read", "unlinkOwn", "lstatClaim", "publish"}
          BY <1>2, <3>4, <4>5 DEF Walks, L!At
        <5> QED BY <5>1 DEF L!Acting
      <4> QED BY <4>3, <4>4, <4>5
    <3> QED BY <1>12, <3>1, <3>2, <3>3, <3>4
  <2>5. \A q \in Proc : Fine(l'[q].pc, l'[q].claim, l'[q].pin, l'[q].nlink)
    <3>1. \A q \in Proc : q # p => Fine(l[q].pc, l[q].claim, l[q].pin, l[q].nlink)
      BY <1>7
    <3> HIDE DEF Fine
    <3> QED BY <2>2, <2>4, <3>1
  <2>6. \A q \in Proc : l'[q].pc \in {"pinned", "verify"} => ~l'[q].touched
    BY <1>8, <2>2, <2>4
  <2>7. ASSUME NEW q \in Proc, l'[q].pc \in {"published"} \cup L!Acting PROVE owner'[g][0] = q
    <3>1. CASE Publishes(p)
      <4>1. l[p].obs = g /\ l[p].epoch = 0
        BY <1>4, <1>5, <3>1 DEF Publishes, Breaking, L!At
      <4>2. owner'[g][0] = p /\ owner[g][0] = None
        BY <1>2, <3>1, <4>1 DEF Publishes
      <4>3. CASE q # p
        BY <1>7, <2>2, <2>7, <4>2, <4>3, LockNumbers
      <4> QED BY <4>2, <4>3
    <3>2. CASE Resets(p)
      <4>1. q # p
        BY <2>7, <3>2 DEF Resets, L!Acting
      <4>2. owner[g][0] = q
        BY <1>7, <2>2, <2>7, <4>1
      <4> QED BY <1>2, <3>2, <4>1, <4>2 DEF Resets, Disowned
    <3>3. CASE ~Publishes(p) /\ ~Resets(p)
      <4>1. owner' = owner
        BY <1>12, <3>3 DEF Walks, Observes, Sees, Stands, Checks, Pins
      <4>2. l[q].pc \in {"published"} \cup L!Acting
        <5>1. CASE q = p
          BY <1>12, <2>7, <3>3, <5>1 DEF Walks, Observes, Sees, Stands, Checks, Pins, L!Acting, L!At
        <5> QED BY <2>2, <2>7, <5>1
      <4> QED BY <1>7, <4>1, <4>2
    <3> QED BY <3>1, <3>2, <3>3
  <2>8. Alone(g)'
    BY <2>7 DEF Alone
  <2>9. InPlace(g)'
    BY <1>7, <2>1, <2>3, <2>5, <2>6, <2>8 DEF InPlace
  <2> QED BY <2>1, <2>9
<1> QED BY <1>9, <1>10, <1>11, <1>12 DEF Effect

(* Once the abandoned file is gone, after a step. *)
LEMMA GoneStep ==
    ASSUME LockInv, NEW p \in Proc, Effect(p), l'[p].pc # "dead", deaths' = deaths,
           NEW g \in 0 .. files, g # 0, AbandonedOnce(g), public # g, Gone(g)
    PROVE  public' # g /\ Gone(g)'
<1>1. L!TypeOK
  BY DEF LockInv
<1>2. files \in 0..MaxInode /\ g \in L!Inodes /\ 0 \in L!Epochs
  BY <1>1, DiskRange, LockNumbers DEF L!Inodes
<1>3. \A q \in Proc : q # p => l'[q].pc = l[q].pc /\ l'[q].claim = l[q].claim
  BY <1>1, Common DEF Rest, Like
<1>4. \A q \in Proc : l[q].obs \in {0, g} /\ l[q].epoch = 0
  BY DEF AbandonedOnce
<1>5. l[p].pc \in Breaking => l[p].obs = g
  BY <1>4 DEF LockInv, LocalsTrue
<1>6. \A q \in Proc : l[q].pc \notin {"pin", "pinned", "verify", "unlink"}
  BY DEF Gone
<1>7. claim[g] = g => /\ \A q \in Proc : l[q].pc \in {"published"} \cup L!Acting => owner[g][0] = q
                      /\ \A q \in Proc : l[q].pc \notin {"withdraw", "clean", "sweep"}
                      /\ \E q \in Proc : l[q].pc = "dropClaim" /\ l[q].claim = g
  BY DEF Gone, Alone, L!At
<1>8. public' # g
  <2>1. CASE Opens(p)
    BY <1>2, <2>1 DEF Opens
  <2>2. public' \in {0, public} \/ Opens(p)
    BY DEF Effect, Resets, Walks, Writes, Releases, Observes, Links, Sees, Stands, Publishes, Checks, Pins,
       Unlinks, Drops, Cleans, Sweeps, Dies, LocksSame
  <2> QED BY <2>1, <2>2
(* The one that unlinked it is the only one that works on the claim. *)
<1>9. claim[g] = g /\ l[p].pc \in {"published"} \cup L!Acting => l[p].pc = "dropClaim" /\ l[p].claim = g
  BY <1>7 DEF L!Acting
<1>10. l'[p].pc \notin {"pin", "pinned", "verify", "unlink"}
  <2>1. CASE Checks(p)
    <3>1. l[p].pc = "claimed" /\ l[p].obs = g
      BY <1>5, <2>1 DEF Checks, Breaking, L!Acting, L!At
    <3>2. claim[g] # g
      BY <1>9, <3>1 DEF L!Acting
    <3> QED BY <2>1, <3>1, <3>2 DEF Checks
  <2>2. CASE Walks(p)
    BY <1>6, <2>2 DEF Walks, L!At
  <2>3. CASE ~Checks(p) /\ ~Walks(p)
    BY <1>6, <2>3 DEF Effect, Resets, Opens, Writes, Releases, Observes, Links, Sees, Stands, Publishes, Pins,
       Unlinks, Drops, Cleans, Sweeps, Dies, L!At
  <2> QED BY <2>1, <2>2, <2>3
<1>11. ASSUME claim'[g] = g
       PROVE  /\ Alone(g)'
              /\ \A q \in Proc : l'[q].pc \notin {"withdraw", "clean", "sweep"}
              /\ \E q \in Proc : l'[q].pc = "dropClaim" /\ l'[q].claim = g
  <2>1. claim[g] = g
    <3>1. CASE Links(p)
      BY <1>2, <1>5, <1>11, <3>1 DEF Links, Breaking, L!At
    <3>2. CASE Drops(p)
      BY <1>2, <1>11, <3>2 DEF Drops
    <3>3. claim' = claim \/ Links(p) \/ Drops(p)
      BY DEF Effect, Resets, Walks, Opens, Writes, Releases, Observes, Sees, Stands, Publishes, Checks, Pins,
         Unlinks, Cleans, Sweeps, Dies
    <3> QED BY <1>11, <3>1, <3>2, <3>3
  <2>2. PICK r \in Proc : l[r].pc = "dropClaim" /\ l[r].claim = g
    BY <1>7, <2>1
  <2>3. owner[g][0] = r /\ \A q \in Proc : l[q].pc \in {"published"} \cup L!Acting => q = r
    BY <1>7, <2>1, <2>2 DEF L!Acting
  <2>4. p # r
    <3> SUFFICES ASSUME p = r PROVE FALSE
      OBVIOUS
    <3>1. Drops(p)
      BY <2>2 DEF Effect, Resets, Walks, Opens, Writes, Releases, Observes, Links, Sees, Stands, Publishes, Checks, Pins,
         Unlinks, Cleans, Sweeps, Dies, L!At
    <3>2. l[p].obs = g
      BY <1>5, <2>2 DEF Breaking, L!Acting
    <3> QED BY <1>2, <1>11, <2>1, <2>2, <3>1, <3>2 DEF Drops
  <2>5. l[p].pc \notin {"published"} \cup L!Acting /\ l[p].pc \notin {"clean", "sweep"}
    BY <1>7, <2>1, <2>3, <2>4
  <2>6. l'[p].pc \notin {"published"} \cup L!Acting /\ l'[p].pc \notin {"clean", "sweep"}
    <3>1. ~Publishes(p)
      <4> SUFFICES ASSUME Publishes(p) PROVE FALSE
        OBVIOUS
      <4>1. l[p].obs = g /\ l[p].epoch = 0
        BY <1>4, <1>5 DEF Publishes, Breaking, L!At
      <4> QED BY <2>3, <4>1, LockNumbers DEF Publishes
    <3> QED BY <2>5, <3>1 DEF Effect, Resets, Walks, Opens, Writes, Releases, Observes, Links, Sees, Stands, Checks, Pins,
       Unlinks, Drops, Cleans, Sweeps, Dies, L!Acting, L!At
  <2>7. owner'[g][0] = r
    <3>1. ~Publishes(p) /\ ~Sweeps(p)
      <4>1. l[p].pc # "sweep"
        BY <2>5
      <4>2. ~Publishes(p)
        BY <2>6 DEF Publishes
      <4> QED BY <4>1, <4>2 DEF Sweeps, L!At
    <3>2. owner' = owner \/ Disowned(p)
      BY <3>1 DEF Effect, Resets, Walks, Opens, Writes, Releases, Observes, Links, Sees, Stands, Checks, Pins,
         Unlinks, Drops, Cleans, Dies
    <3> QED BY <1>2, <2>3, <2>4, <3>2 DEF Disowned
  <2>8. Alone(g)'
    BY <1>3, <2>3, <2>6, <2>7 DEF Alone
  <2>9. \A q \in Proc : l'[q].pc \notin {"withdraw", "clean", "sweep"}
    BY <1>3, <1>7, <2>1, <2>6 DEF L!Acting
  <2>10. l'[r].pc = "dropClaim" /\ l'[r].claim = g
    BY <1>3, <2>2, <2>4
  <2> QED BY <2>8, <2>9, <2>10
<1>12. \A q \in Proc : l'[q].pc \notin {"pin", "pinned", "verify", "unlink"}
  BY <1>3, <1>6, <1>10
<1>13. Gone(g)'
  BY <1>11, <1>12 DEF Gone, L!At
<1> QED BY <1>8, <1>13

(* One death at most, after a step. *)
LEMMA DeathStep ==
    ASSUME LockInv, L!TypeOK', NEW p \in Proc, Effect(p), deaths' <= 1
    PROVE  OneDeath'
<1>1. L!TypeOK /\ deaths \in Nat
  BY LockNumbers DEF LockInv, L!TypeOK
<1>2. CASE Dies(p)
  <2>1. deaths = 0
    BY <1>1, <1>2 DEF Dies
  <2> QED BY <1>2, <2>1, FirstDeath
<1>3. CASE deaths' = deaths /\ l'[p].pc # "dead"
  <2>1. OneDeath
    BY <1>1, <1>3 DEF LockInv
  <2>2. PICK g \in 0 .. files : AbandonedOnce(g) /\ (g # 0 => IF public = g THEN InPlace(g) ELSE Gone(g))
    BY <2>1 DEF OneDeath
  <2>3. AbandonedOnce(g)'
    BY <1>3, <2>2, AbandonedStep
  <2>4. g # 0 => IF public' = g THEN InPlace(g)' ELSE Gone(g)'
    <3>1. CASE g # 0 /\ public = g
      BY <1>3, <2>2, <3>1, InPlaceStep
    <3>2. CASE g # 0 /\ public # g
      BY <1>3, <2>2, <3>2, GoneStep
    <3> QED BY <3>1, <3>2
  <2>5. g \in 0 .. files'
    <3>1. files \in 0..MaxInode /\ files <= files' /\ files' \in 0..MaxInode
      BY <1>1, Common DEF L!TypeOK
    <3> QED BY <3>1, LockNumbers
  <2> QED BY <2>3, <2>4, <2>5 DEF OneDeath
<1> QED BY <1>1, <1>2, <1>3, Common

(* Nothing has happened yet. *)
LEMMA LockInit ==
    ASSUME L!Init
    PROVE  LockInv
<1>1. L!Idle \in Local /\ L!Idle.pc = "idle" /\ L!Idle.own = 0 /\ L!Idle.obs = 0 /\ L!Idle.claim = 0 /\ L!Idle.epoch = 0
  <2>1. "idle" \in L!PCs /\ L!Idle = [L!Idle EXCEPT !.pc = "idle"]
    BY DEF L!Idle, L!PCs
  <2> QED BY <2>1, IdleLocal
<1>2. /\ public = 0 /\ files = 0 /\ cand = {} /\ orphaned = {} /\ deaths = 0
      /\ holder = [i \in L!Inodes |-> None] /\ maker = [i \in L!Inodes |-> None]
      /\ claim = [i \in L!Inodes |-> 0] /\ owner = [i \in L!Inodes |-> [e \in L!Epochs |-> None]]
      /\ l = [q \in Proc |-> L!Idle]
  BY DEF L!Init
<1>3. \A q \in Proc : l[q].pc = "idle" /\ l[q].own = 0 /\ l[q].obs = 0 /\ l[q].epoch = 0
  BY <1>1, <1>2
<1>4. L!TypeOK
  <2>1. l \in [Proc -> Local]
    BY <1>1, <1>2
  <2>2. /\ public \in 0..MaxInode /\ files \in 0..MaxInode /\ deaths \in 0..MaxCrash
        /\ claim \in [L!Inodes -> 0..MaxInode]
    BY <1>2, LockNumbers
  <2>3. /\ holder \in [L!Inodes -> Proc \cup {None}] /\ maker \in [L!Inodes -> Proc \cup {None}]
        /\ owner \in [L!Inodes -> [L!Epochs -> Proc \cup {None}]]
        /\ cand \subseteq Proc /\ orphaned \subseteq Proc
    BY <1>2
  <2> QED BY <2>1, <2>2, <2>3, LockTyped
<1>5. MakersTrue
  BY <1>2, LockNumbers DEF MakersTrue, L!Inodes
<1>6. OwnersTrue
  BY <1>2 DEF OwnersTrue
<1>7. \A q \in Proc : LocalsTrue(q) /\ KeptTrue(q)
  BY <1>3 DEF LocalsTrue, KeptTrue, L!InSection, Breaking, L!Acting
<1>8. AbandonedOnce(0)
  BY <1>2, <1>3 DEF AbandonedOnce, L!Alive, L!InSection
<1>9. OneDeath
  <2>1. 0 \in 0 .. files
    BY <1>2
  <2> QED BY <1>8, <2>1 DEF OneDeath
<1> QED BY <1>4, <1>5, <1>6, <1>7, <1>9 DEF LockInv

(* The invariant holds after every step. *)
LEMMA LockStep ==
    ASSUME LockInv, [L!Next]_(L!vars)
    PROVE  LockInv'
<1>1. CASE UNCHANGED L!vars
  <2>1. /\ public' = public /\ holder' = holder /\ maker' = maker /\ files' = files /\ claim' = claim
        /\ owner' = owner /\ cand' = cand /\ l' = l /\ orphaned' = orphaned /\ deaths' = deaths
    BY <1>1 DEF L!vars
  <2>2. L!TypeOK'
    BY <2>1 DEF LockInv, L!TypeOK
  <2>3. MakersTrue'
    BY <2>1 DEF LockInv, MakersTrue, L!Alive
  <2>4. OwnersTrue'
    BY <2>1 DEF LockInv, OwnersTrue, L!Alive
  <2>5. \A q \in Proc : LocalsTrue(q)'
    BY <2>1 DEF LockInv, LocalsTrue, L!Alive
  <2>6. orphaned' = {} => \A q \in Proc : KeptTrue(q)'
    BY <2>1 DEF LockInv, KeptTrue
  <2>7. ASSUME deaths' <= 1 PROVE OneDeath'
    <3>1. PICK g \in 0 .. files : AbandonedOnce(g) /\ (g # 0 => IF public = g THEN InPlace(g) ELSE Gone(g))
      BY <2>1, <2>7 DEF LockInv, OneDeath
    <3>2. AbandonedOnce(g)'
      BY <2>1, <3>1 DEF AbandonedOnce, L!Alive
    <3>3. InPlace(g) => InPlace(g)'
      BY <2>1 DEF InPlace, Alone, L!Nlink
    <3>4. Gone(g) => Gone(g)'
      BY <2>1 DEF Gone, Alone, L!At
    <3>5. g # 0 => IF public' = g THEN InPlace(g)' ELSE Gone(g)'
      BY <2>1, <3>1, <3>3, <3>4
    <3>6. g \in 0 .. files'
      BY <2>1
    <3> QED BY <3>2, <3>5, <3>6 DEF OneDeath
  <2> QED BY <2>2, <2>3, <2>4, <2>5, <2>6, <2>7 DEF LockInv
<1>2. CASE L!Next
  <2>1. L!TypeOK /\ \A q \in Proc : LocalsTrue(q)
    BY DEF LockInv
  <2>2. L!TypeOK'
    BY <1>2, <2>1, Effects
  <2>3. PICK p \in Proc : Effect(p)
    BY <1>2, <2>1, Effects
  <2>4. MakersTrue' /\ OwnersTrue'
    BY <2>2, <2>3, MakersStep, OwnersStep
  <2>5. \A q \in Proc : LocalsTrue(q)'
    BY <2>2, <2>3, LocalsStep
  <2>6. orphaned' = {} => \A q \in Proc : KeptTrue(q)'
    BY <2>2, <2>3, KeptStep
  <2>7. deaths' <= 1 => OneDeath'
    BY <2>2, <2>3, DeathStep
  <2> QED BY <2>2, <2>4, <2>5, <2>6, <2>7 DEF LockInv
<1> QED BY <1>1, <1>2

(* What the invariant says of the lock. *)
LEMMA LockSays ==
    ASSUME LockInv
    PROVE  LockHolds
<1>1. L!TypeOK
  BY DEF LockInv
<1>2. ASSUME \A p \in Proc : l[p].pc \in L!InSection => public = l[p].own
      PROVE  L!MutualExclusion
  BY <1>2, SectionFacts DEF L!MutualExclusion
<1>3. L!ExclusionWhileOwnersKept
  BY <1>2 DEF L!ExclusionWhileOwnersKept, LockInv, KeptTrue
<1>4. L!OneBreaker
  <2> SUFFICES ASSUME orphaned = {}, NEW p \in Proc, L!At(p, "unlink")
               PROVE  /\ owner[l[p].obs][l[p].epoch] = p
                      /\ \A q \in Proc \ {p} : L!At(q, "unlink") => l[q].obs # l[p].obs
    BY DEF L!OneBreaker
  <2>1. owner[l[p].obs][l[p].epoch] = p
    BY DEF LockInv, KeptTrue, L!Acting, L!At
  <2>2. l[p].obs \in L!Inodes
    BY SectionFacts DEF Breaking, L!Acting, L!At
  <2>3. ASSUME NEW q \in Proc \ {p}, L!At(q, "unlink"), l[q].obs = l[p].obs PROVE FALSE
    <3>1. owner[l[p].obs][l[q].epoch] = q
      BY <2>3 DEF LockInv, KeptTrue, L!Acting, L!At
    <3>2. L!Alive(p) /\ L!Alive(q) /\ l[p].epoch \in L!Epochs /\ l[q].epoch \in L!Epochs
      BY <1>1, <2>3, LocalRange DEF L!At, L!Alive
    <3> QED BY <2>1, <2>2, <3>1, <3>2, OneLiveOwner
  <2> QED BY <2>1, <2>3
<1>5. L!OneDeathSurvived
  <2>1. deaths <= 1 => \A p \in Proc : l[p].pc \in L!InSection => public = l[p].own
    BY DEF LockInv, OneDeath, AbandonedOnce
  <2> QED BY <1>2, <2>1 DEF L!OneDeathSurvived
<1> QED BY <1>1, <1>3, <1>4, <1>5 DEF LockHolds

(* For any number of processes and lock files, deaths at any system call    *)
(* and breakers delayed for as long as one likes: the death of one process  *)
(* never lets two into the section; with more deaths the section has one    *)
(* process, which removes its own lock only, and the lock of a dead holder  *)
(* one breaker, as long as no owner file is deleted under a breaker that    *)
(* still acts on it.                                                        *)
THEOREM LockIsHeld == LockSpec => []LockHolds
<1>1. L!Init => LockInv
  BY LockInit
<1>2. LockInv /\ [L!Next]_(L!vars) => LockInv'
  BY LockStep
<1>3. LockInv => LockHolds
  BY LockSays
<1> QED BY <1>1, <1>2, <1>3, PTL DEF LockSpec, L!Spec
=============================================================================
