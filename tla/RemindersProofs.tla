--------------------------- MODULE RemindersProofs ---------------------------
(***************************************************************************)
(* Machine-checked proofs about Reminders, for any number of processes,    *)
(* reminders and clock ticks.                                              *)
(***************************************************************************)
EXTENDS Reminders, FiniteSetTheorems, TLAPS

(* The trigger arithmetic stays inside the integers. *)
LEMMA SlotType ==
    ASSUME TypeOK, NEW r \in Reminders
    PROVE  /\ LastSlot(r) \in Int
           /\ NextSlot(r) \in Int
           /\ FirstRun(r) \in Int
<1>1. now \in Int /\ due[r] \in Int /\ DayLength \in Nat \ {0}
  BY RemindersAssumption DEF TypeOK
<1>2. (now - due[r]) % DayLength \in Int
  BY <1>1
<1>3. LastSlot(r) \in Int
  BY <1>1, <1>2 DEF LastSlot
<1>4. NextSlot(r) \in Int
  BY <1>1, <1>3 DEF NextSlot
<1> QED
  BY <1>1, <1>3, <1>4 DEF FirstRun

(* A cron occurrence after the current one lies in the future. *)
LEMMA NextSlotLater ==
    ASSUME TypeOK, NEW r \in Reminders
    PROVE  NextSlot(r) > now
<1>1. now \in Int /\ due[r] \in Int /\ DayLength \in Nat \ {0}
  BY RemindersAssumption DEF TypeOK
<1>2. (now - due[r]) % DayLength \in 0..(DayLength - 1)
  BY <1>1
<1> QED
  BY <1>1, <1>2 DEF NextSlot, LastSlot

(* What the moves of a run do to the runs. *)
LEMMA RunnerMoves ==
    ASSUME TypeOK, NEW p \in Procs, NEW r \in Reminders,
           NEW run \in [pc : PCs, slot : Int]
    PROVE  LET moved == [runner EXCEPT ![p][r] = run]
           IN  /\ moved \in [Procs -> [Reminders -> [pc : PCs, slot : Int]]]
               /\ moved[p][r] = run
               /\ \A q \in Procs, s \in Reminders :
                     q # p \/ s # r => moved[q][s] = runner[q][s]
  BY DEF TypeOK

(* Goto changes the program counter of one run and keeps its slot. *)
LEMMA GotoMoves ==
    ASSUME TypeOK, NEW p \in Procs, NEW r \in Reminders, NEW l \in PCs
    PROVE  /\ Goto(p, r, l) \in [Procs -> [Reminders -> [pc : PCs, slot : Int]]]
           /\ Goto(p, r, l)[p][r].pc = l
           /\ Goto(p, r, l)[p][r].slot = runner[p][r].slot
           /\ \A q \in Procs, s \in Reminders :
                 q # p \/ s # r => Goto(p, r, l)[q][s] = runner[q][s]
<1>1. runner[p][r].slot \in Int
  BY DEF TypeOK
<1> DEFINE run == [pc |-> l, slot |-> runner[p][r].slot]
<1>2. run \in [pc : PCs, slot : Int]
  BY <1>1
<1>3. run.pc = l /\ run.slot = runner[p][r].slot
  OBVIOUS
<1>4. Goto(p, r, l) = [runner EXCEPT ![p][r] = run]
  BY DEF Goto
<1> HIDE DEF run
<1> QED
  BY <1>2, <1>3, <1>4, RunnerMoves

(* Return makes one run idle. *)
LEMMA ReturnMoves ==
    ASSUME TypeOK, NEW p \in Procs, NEW r \in Reminders
    PROVE  /\ Return(p, r) \in [Procs -> [Reminders -> [pc : PCs, slot : Int]]]
           /\ Return(p, r)[p][r].pc = "idle"
           /\ \A q \in Procs, s \in Reminders :
                 q # p \/ s # r => Return(p, r)[q][s] = runner[q][s]
<1>1. Idle \in [pc : PCs, slot : Int] /\ Idle.pc = "idle"
  BY DEF Idle, PCs
<1> QED
  BY <1>1, RunnerMoves DEF Return

(* No step leaves the types of the tables and of the schedulers' state. *)
LEMMA TypeStep == TypeOK /\ [Next]_vars => TypeOK'
<1> SUFFICES ASSUME TypeOK, [Next]_vars
             PROVE  TypeOK'
  OBVIOUS
<1> USE DEF TypeOK
<1>a. Idle \in [pc : PCs, slot : Int]
  BY DEF Idle, PCs
<1>b. {"check", "select", "commit", "event"} \subseteq PCs
  BY DEF PCs
<1>1. CASE Tick
  BY <1>1 DEF Tick, db, local, history
<1>2. ASSUME NEW p \in Procs, Start(p)
      PROVE  TypeOK'
  BY <1>2 DEF Start, db, local, history, Scheduled
<1>3. ASSUME NEW p \in Procs, Resume(p)
      PROVE  TypeOK'
  BY <1>3 DEF Resume, db, local, history
<1>4. ASSUME NEW p \in Procs, Close(p)
      PROVE  TypeOK'
  BY <1>4 DEF Close, db, local, history
<1>5. ASSUME NEW p \in Procs, Crash(p)
      PROVE  TypeOK'
  BY <1>a, <1>5 DEF Crash, db, local, history
<1>6. ASSUME NEW p \in Procs, NEW r \in Reminders, CreateRow(p, r)
      PROVE  TypeOK'
  BY <1>6, RemindersAssumption DEF CreateRow, db, local, history, Statuses
<1>7. ASSUME NEW p \in Procs, NEW r \in Reminders, CreateJob(p, r)
      PROVE  TypeOK'
  BY <1>7, SlotType DEF CreateJob, db, local, history
<1>8. ASSUME NEW p \in Procs, NEW r \in Reminders, CancelRow(p, r)
      PROVE  TypeOK'
  BY <1>8 DEF CancelRow, db, local, history, Statuses
<1>9. ASSUME NEW p \in Procs, NEW r \in Reminders, CancelJob(p, r)
      PROVE  TypeOK'
  BY <1>9 DEF CancelJob, db, local, history
<1>10. ASSUME NEW p \in Procs, NEW r \in Reminders, Dispatch(p, r)
       PROVE  TypeOK'
  <2> DEFINE run == [pc |-> "queued", slot |-> DueSlot(r)]
  <2>1. run \in [pc : PCs, slot : Int]
    BY SlotType DEF PCs, DueSlot
  <2>2. runner' = [runner EXCEPT ![p][r] = run]
    BY <1>10 DEF Dispatch
  <2>3. NextRun(r) \in Int \cup {None}
    BY SlotType DEF NextRun
  <2> HIDE DEF run
  <2> QED
    BY <1>10, <2>1, <2>2, <2>3, RunnerMoves DEF Dispatch, db, history
<1>11. ASSUME NEW p \in Procs, NEW r \in Reminders, SkipOverlap(p, r)
       PROVE  TypeOK'
  <2>1. NextRun(r) \in Int \cup {None}
    BY SlotType DEF NextRun
  <2> QED
    BY <1>11, <2>1 DEF SkipOverlap, db
<1>12. ASSUME NEW p \in Procs, NEW r \in Reminders, StartRun(p, r)
       PROVE  TypeOK'
  BY <1>b, <1>12, GotoMoves, ReturnMoves DEF StartRun, db, history
<1>13. ASSUME NEW p \in Procs, NEW r \in Reminders, Misfire(p, r)
       PROVE  TypeOK'
  <2>1. dropped' \in [Procs -> SUBSET Reminders]
    BY <1>13 DEF Misfire
  <2>2. runner' \in [Procs -> [Reminders -> [pc : PCs, slot : Int]]]
    BY <1>13, ReturnMoves DEF Misfire
  <2> QED
    BY <1>13, <2>1, <2>2 DEF Misfire, db
<1>14. ASSUME NEW p \in Procs, NEW r \in Reminders, GetReminder(p, r)
       PROVE  TypeOK'
  BY <1>b, <1>14, GotoMoves, ReturnMoves DEF GetReminder, db, history
<1>15. ASSUME NEW p \in Procs, NEW r \in Reminders, FireSelect(p, r)
       PROVE  TypeOK'
  BY <1>b, <1>15, GotoMoves, ReturnMoves DEF FireSelect, db, history
<1>16. ASSUME NEW p \in Procs, NEW r \in Reminders, FireCommit(p, r)
       PROVE  TypeOK'
  <2>1. runner' \in [Procs -> [Reminders -> [pc : PCs, slot : Int]]]
    BY <1>b, <1>16, GotoMoves DEF FireCommit
  <2>2. status' \in [Reminders -> Statuses]
    BY <1>16 DEF FireCommit, Statuses
  <2>3. notes' \in [Reminders -> Nat]
    BY <1>16 DEF FireCommit
  <2> QED
    BY <1>16, <2>1, <2>2, <2>3 DEF FireCommit, history
<1>17. ASSUME NEW p \in Procs, NEW r \in Reminders, FireLost(p, r)
       PROVE  TypeOK'
  BY <1>b, <1>17, GotoMoves, ReturnMoves DEF FireLost, db, history
<1>18. ASSUME NEW p \in Procs, NEW r \in Reminders, AddLearningEvent(p, r)
       PROVE  TypeOK'
  <2>1. events' \in [Reminders -> Nat]
    BY <1>18 DEF AddLearningEvent
  <2>2. runner' \in [Procs -> [Reminders -> [pc : PCs, slot : Int]]]
    BY <1>18, ReturnMoves DEF AddLearningEvent
  <2> QED
    BY <1>18, <2>1, <2>2 DEF AddLearningEvent, history
<1>19. ASSUME NEW p \in Procs, NEW r \in Reminders, RunError(p, r)
       PROVE  TypeOK'
  <2>1. lost' \in [Reminders -> Nat]
    BY <1>19 DEF RunError
  <2> QED
    BY <1>19, <2>1, ReturnMoves DEF RunError, db
<1>20. ASSUME NEW p \in Procs, NEW r \in Reminders, RestoreJob(p, r)
       PROVE  TypeOK'
  <2>1. FirstRun(r) \in Int
    BY SlotType
  <2> QED
    BY <1>20, <2>1 DEF RestoreJob, db, history
<1>21. ASSUME NEW p \in Procs, NEW r \in Reminders, RestoreOverdue(p, r)
       PROVE  TypeOK'
  <2>1. [pc |-> "check", slot |-> due[r]] \in [pc : PCs, slot : Int]
    BY DEF PCs
  <2> QED
    BY <1>21, <2>1, RunnerMoves DEF RestoreOverdue, db, history
<1>22. CASE UNCHANGED vars
  BY <1>22 DEF vars, db, local, history
<1> QED
  BY <1>1, <1>2, <1>3, <1>4, <1>5, <1>6, <1>7, <1>8, <1>9, <1>10, <1>11, <1>12,
     <1>13, <1>14, <1>15, <1>16, <1>17, <1>18, <1>19, <1>20, <1>21, <1>22
     DEF Next, RunStep

(* The tables and the schedulers' in-memory state always have their types: *)
(* in particular no row is left in a status that no reader of the table    *)
(* knows, whatever the interleaving of transactions.                       *)
THEOREM TypeCorrect == Spec => []TypeOK
<1>1. Init => TypeOK
  BY RemindersAssumption DEF Init, TypeOK, Statuses, PCs, Idle
<1> QED
  BY <1>1, TypeStep, PTL DEF Spec

-----------------------------------------------------------------------------
(* The only transactions that touch a row's status, kind or notifications. *)
RowsUntouched == UNCHANGED <<status, repeat, due, notes>>

(* Every step creates, cancels or fires one row, or leaves the rows alone. *)
LEMMA RowSteps ==
    ASSUME [Next]_vars
    PROVE  \/ RowsUntouched
           \/ \E p \in Procs, r \in Reminders :
                 CreateRow(p, r) \/ CancelRow(p, r) \/ FireCommit(p, r)
<1> USE DEF RowsUntouched, db, local, history
<1>1. CASE Tick
  BY <1>1 DEF Tick
<1>2. ASSUME NEW p \in Procs, Start(p) \/ Resume(p) \/ Close(p) \/ Crash(p)
      PROVE  RowsUntouched
  BY <1>2 DEF Start, Resume, Close, Crash
<1>3. ASSUME NEW p \in Procs, NEW r \in Reminders,
             \/ CreateJob(p, r) \/ CancelJob(p, r)
             \/ Dispatch(p, r) \/ SkipOverlap(p, r) \/ RunError(p, r)
             \/ RestoreJob(p, r) \/ RestoreOverdue(p, r)
      PROVE  RowsUntouched
  BY <1>3 DEF CreateJob, CancelJob, Dispatch, SkipOverlap, RunError, RestoreJob, RestoreOverdue
<1>4. ASSUME NEW p \in Procs, NEW r \in Reminders,
             \/ StartRun(p, r) \/ Misfire(p, r) \/ GetReminder(p, r)
             \/ FireSelect(p, r) \/ FireLost(p, r) \/ AddLearningEvent(p, r)
      PROVE  RowsUntouched
  BY <1>4 DEF StartRun, Misfire, GetReminder, FireSelect, FireLost, AddLearningEvent
<1>5. CASE UNCHANGED vars
  BY <1>5 DEF vars
<1> QED
  BY <1>1, <1>2, <1>3, <1>4, <1>5 DEF Next, RunStep

(* A row that does not exist yet cannot be claimed: with its placeholder   *)
(* kind, the guarded UPDATE of fire_reminder finds no scheduled row.       *)
Unborn == \A r \in Reminders : status[r] = "absent" => repeat[r] = "once"

ClaimInv == TypeOK /\ OnceClaimed /\ Unborn

(* The claim invariant is inductive: a transaction that moves a one-time   *)
(* row to completed adds its only notification, and no other transaction   *)
(* may change either.                                                      *)
LEMMA ClaimStep == ClaimInv /\ [Next]_vars => ClaimInv'
<1> SUFFICES ASSUME ClaimInv, [Next]_vars
             PROVE  OnceClaimed' /\ Unborn'
  BY TypeStep DEF ClaimInv
<1> USE DEF ClaimInv, TypeOK, OnceClaimed, Unborn
<1>1. CASE RowsUntouched
  BY <1>1 DEF RowsUntouched
<1>2. ASSUME NEW p \in Procs, NEW r \in Reminders, CreateRow(p, r)
      PROVE  OnceClaimed' /\ Unborn'
  BY <1>2 DEF CreateRow
<1>3. ASSUME NEW p \in Procs, NEW r \in Reminders, CancelRow(p, r)
      PROVE  OnceClaimed' /\ Unborn'
  BY <1>3 DEF CancelRow
<1>4. ASSUME NEW p \in Procs, NEW r \in Reminders, FireCommit(p, r)
      PROVE  OnceClaimed' /\ Unborn'
  <2>1. repeat' = repeat
    BY <1>4 DEF FireCommit
  <2>2. \A s \in Reminders : s # r => status'[s] = status[s] /\ notes'[s] = notes[s]
    BY <1>4 DEF FireCommit
  <2>3. notes'[r] = notes[r] + 1
    BY <1>4 DEF FireCommit
  <2>4. CASE repeat[r] = "once"
    <3>1. status[r] = "scheduled" /\ status'[r] = "completed"
      BY <1>4, <2>4 DEF FireCommit, Claimed
    <3> QED
      BY <2>1, <2>2, <2>3, <2>4, <3>1
  <2>5. CASE repeat[r] = "daily"
    <3>1. status'[r] = status[r]
      BY <1>4, <2>5 DEF FireCommit
    <3> QED
      BY <2>1, <2>2, <2>3, <2>5, <3>1
  <2> QED
    BY <2>4, <2>5
<1> QED
  BY <1>1, <1>2, <1>3, <1>4, RowSteps

(* A one-time reminder is notified exactly once, by the transaction that   *)
(* completes it, for any number of processes sharing the database.         *)
THEOREM OnceExactlyOnce == Spec => []OnceClaimed
<1>1. Init => ClaimInv
  BY RemindersAssumption DEF Init, ClaimInv, TypeOK, OnceClaimed, Unborn, Statuses, PCs, Idle
<1>2. ClaimInv => OnceClaimed
  BY DEF ClaimInv
<1> QED
  BY <1>1, <1>2, ClaimStep, PTL DEF Spec

-----------------------------------------------------------------------------
(* Timing. A row that does not exist yet is known to no scheduler, so the  *)
(* INSERT changes no run_at under a job; the job of a one-time row is set  *)
(* for its run_at, and a run of it exists only from then on.               *)
Known(p, r) ==
    status[r] = "absent" =>
       /\ r \notin todo[p] \cup toSchedule[p]
       /\ job[p][r] = None
       /\ runner[p][r].pc = "idle"

OnTime(p, r) ==
    repeat[r] = "once" =>
       /\ job[p][r] \in {None, due[r]}
       /\ runner[p][r].pc # "idle" => due[r] <= now

Timing == \A p \in Procs, r \in Reminders : Known(p, r) /\ OnTime(p, r)

(* A step of a run moves that run or returns from it, and touches no job. *)
LEMMA RunFrame ==
    ASSUME TypeOK, NEW p \in Procs, NEW r \in Reminders, RunStep(p, r) \/ RunError(p, r)
    PROVE  /\ UNCHANGED <<now, repeat, due, phase, todo, job, toSchedule, toRemove, owned>>
           /\ runner[p][r].pc # "idle"
           /\ \A q \in Procs, s \in Reminders :
                 q # p \/ s # r => runner'[q][s] = runner[q][s]
<1>1. /\ UNCHANGED <<now, repeat, due, phase, todo, job, toSchedule, toRemove, owned>>
      /\ runner[p][r].pc # "idle"
  BY DEF RunStep, StartRun, Misfire, GetReminder, FireSelect, FireCommit, FireLost,
         AddLearningEvent, RunError, db, history
<1>2. \/ runner' = Return(p, r)
      \/ \E l \in {"check", "select", "commit", "event"} : runner' = Goto(p, r, l)
  BY DEF RunStep, StartRun, Misfire, GetReminder, FireSelect, FireCommit, FireLost,
         AddLearningEvent, RunError
<1>3. {"check", "select", "commit", "event"} \subseteq PCs
  BY DEF PCs
<1>4. CASE runner' = Return(p, r)
  BY <1>1, <1>4, ReturnMoves
<1>5. ASSUME NEW l \in {"check", "select", "commit", "event"}, runner' = Goto(p, r, l)
      PROVE  \A q \in Procs, s \in Reminders :
                q # p \/ s # r => runner'[q][s] = runner[q][s]
  <2>1. \A q \in Procs, s \in Reminders :
           q # p \/ s # r => Goto(p, r, l)[q][s] = runner[q][s]
    <3>1. l \in PCs
      BY <1>3
    <3> QED
      BY <3>1, GotoMoves
  <2> QED
    BY <1>5, <2>1
<1> QED
  BY <1>1, <1>2, <1>4, <1>5

(* No step breaks the timing of a job or of a run. *)
LEMMA TimingStep == TypeOK /\ Timing /\ [Next]_vars => Timing'
<1> SUFFICES ASSUME TypeOK, Timing, [Next]_vars, NEW q \in Procs, NEW s \in Reminders
             PROVE  Known(q, s)' /\ OnTime(q, s)'
  BY DEF Timing
<1>0. Known(q, s) /\ OnTime(q, s)
  BY DEF Timing
<1>b. {"check", "select", "commit", "event"} \subseteq PCs /\ None \notin Int
  BY RemindersAssumption DEF PCs
<1> USE DEF TypeOK, Known, OnTime
<1>1. CASE Tick
  BY <1>0, <1>1 DEF Tick, db, local, history
<1>2. ASSUME NEW p \in Procs, Start(p)
      PROVE  Known(q, s)' /\ OnTime(q, s)'
  BY <1>0, <1>b, <1>2 DEF Start, db, local, history, Scheduled
<1>3. ASSUME NEW p \in Procs, Resume(p)
      PROVE  Known(q, s)' /\ OnTime(q, s)'
  BY <1>0, <1>b, <1>3 DEF Resume, db, local, history
<1>4. ASSUME NEW p \in Procs, Close(p)
      PROVE  Known(q, s)' /\ OnTime(q, s)'
  BY <1>0, <1>b, <1>4 DEF Close, db, local, history
<1>5. ASSUME NEW p \in Procs, Crash(p)
      PROVE  Known(q, s)' /\ OnTime(q, s)'
  BY <1>0, <1>b, <1>5 DEF Crash, db, local, history, Idle
<1>6. ASSUME NEW p \in Procs, NEW r \in Reminders, CreateRow(p, r)
      PROVE  Known(q, s)' /\ OnTime(q, s)'
  BY <1>0, <1>b, <1>6 DEF CreateRow, db, local, history
<1>7. ASSUME NEW p \in Procs, NEW r \in Reminders, CreateJob(p, r)
      PROVE  Known(q, s)' /\ OnTime(q, s)'
  BY <1>0, <1>b, <1>7, SlotType DEF CreateJob, db, local, history, FirstRun
<1>8. ASSUME NEW p \in Procs, NEW r \in Reminders, CancelRow(p, r)
      PROVE  Known(q, s)' /\ OnTime(q, s)'
  BY <1>0, <1>b, <1>8 DEF CancelRow, db, local, history
<1>9. ASSUME NEW p \in Procs, NEW r \in Reminders, CancelJob(p, r)
      PROVE  Known(q, s)' /\ OnTime(q, s)'
  BY <1>0, <1>b, <1>9 DEF CancelJob, db, local, history
<1>10. ASSUME NEW p \in Procs, NEW r \in Reminders, Dispatch(p, r)
      PROVE  Known(q, s)' /\ OnTime(q, s)'
  BY <1>0, <1>b, <1>10, SlotType DEF Dispatch, db, local, history, RunDue, NextRun, Busy
<1>11. ASSUME NEW p \in Procs, NEW r \in Reminders, SkipOverlap(p, r)
      PROVE  Known(q, s)' /\ OnTime(q, s)'
  BY <1>0, <1>b, <1>11, SlotType DEF SkipOverlap, db, local, history, RunDue, NextRun
<1>12. ASSUME NEW p \in Procs, NEW r \in Reminders, RunStep(p, r) \/ RunError(p, r)
       PROVE  Known(q, s)' /\ OnTime(q, s)'
  <2>1. status'[s] = "absent" => status[s] = "absent"
    BY <1>12, RowSteps DEF RowsUntouched, CreateRow, CancelRow, FireCommit
  <2>2. runner'[q][s].pc # "idle" => runner[q][s].pc # "idle"
    BY <1>12, RunFrame
  <2>3. UNCHANGED <<now, repeat, due, phase, todo, job, toSchedule, toRemove, owned>>
    BY <1>12, RunFrame
  <2> QED
    BY <1>0, <2>1, <2>2, <2>3
<1>13. ASSUME NEW p \in Procs, NEW r \in Reminders, RestoreJob(p, r)
      PROVE  Known(q, s)' /\ OnTime(q, s)'
  BY <1>0, <1>b, <1>13, SlotType DEF RestoreJob, db, local, history, FirstRun
<1>14. ASSUME NEW p \in Procs, NEW r \in Reminders, RestoreOverdue(p, r)
      PROVE  Known(q, s)' /\ OnTime(q, s)'
  BY <1>0, <1>b, <1>14 DEF RestoreOverdue, db, local, history, Overdue
<1>15. CASE UNCHANGED vars
  BY <1>0, <1>15 DEF vars, db, local, history
<1> QED
  BY <1>1, <1>2, <1>3, <1>4, <1>5, <1>6, <1>7, <1>8, <1>9, <1>10, <1>11, <1>12, <1>13, <1>14, <1>15
     DEF Next, RunStep

(* The clock never runs backwards. *)
LEMMA ClockStep == TypeOK /\ [Next]_vars => now' \in Nat /\ now <= now'
<1> SUFFICES ASSUME TypeOK, [Next]_vars
             PROVE  now' \in Nat /\ now <= now'
  OBVIOUS
<1>1. now \in Nat
  BY DEF TypeOK
<1>2. now' = now + 1 \/ now' = now
  BY DEF Next, RunStep, vars, db, local, history, Tick, Start, Resume, Close, Crash,
         CreateRow, CreateJob, CancelRow, CancelJob, Dispatch, SkipOverlap, RunError,
         RestoreJob, RestoreOverdue, StartRun, Misfire, GetReminder, FireSelect,
         FireCommit, FireLost, AddLearningEvent
<1> QED
  BY <1>1, <1>2

(* Rows, jobs and runs agree. *)
ReminderInv == ClaimInv /\ Timing

(* Every step preserves the inductive invariant. *)
LEMMA ReminderStep == ReminderInv /\ [Next]_vars => ReminderInv'
  BY ClaimStep, TimingStep DEF ReminderInv, ClaimInv

(* The inductive invariant holds in every reachable state. *)
LEMMA ReminderInvHolds == Spec => []ReminderInv
<1>1. Init => ReminderInv
  BY RemindersAssumption DEF Init, ReminderInv, ClaimInv, TypeOK, OnceClaimed, Unborn, Statuses,
     PCs, Idle, Timing, Known, OnTime
<1> QED
  BY <1>1, ReminderStep, PTL DEF Spec

-----------------------------------------------------------------------------
(* Refinement: the deliveries under way are the runs between the SELECT    *)
(* and the transaction of fire_reminder.                                   *)

Reading == [r \in Reminders |-> Committers(r)]

(* Moving one run moves at most one process in or out of one set. *)
LEMMA ReadingMoves ==
    ASSUME NEW p \in Procs, NEW r \in Reminders,
           \A q \in Procs, s \in Reminders :
              q # p \/ s # r => runner'[q][s] = runner[q][s]
    PROVE  /\ runner'[p][r].pc = "commit"
                 => Reading' = [Reading EXCEPT ![r] = @ \cup {p}]
           /\ runner'[p][r].pc # "commit"
                 => Reading' = [Reading EXCEPT ![r] = @ \ {p}]
<1>1. \A s \in Reminders : s # r => Committers(s)' = Committers(s)
  BY DEF Committers
<1>2. runner'[p][r].pc = "commit" => Committers(r)' = Committers(r) \cup {p}
  BY DEF Committers
<1>3. runner'[p][r].pc # "commit" => Committers(r)' = Committers(r) \ {p}
  BY DEF Committers
<1> QED
  BY <1>1, <1>2, <1>3 DEF Reading

(* A step that moves no run into or out of the commit point keeps the      *)
(* abstract variable reading.                                              *)
LEMMA ReadingSame ==
    ASSUME NEW p \in Procs, NEW r \in Reminders,
           \A q \in Procs, s \in Reminders :
              q # p \/ s # r => runner'[q][s] = runner[q][s],
           runner[p][r].pc # "commit", runner'[p][r].pc # "commit"
    PROVE  Reading' = Reading
<1>1. \A s \in Reminders : Committers(s)' = Committers(s)
  BY DEF Committers
<1> QED
  BY <1>1 DEF Reading

(* Where each step of a run leaves it. *)
LEMMA RunTarget ==
    ASSUME TypeOK, NEW p \in Procs, NEW r \in Reminders
    PROVE  /\ StartRun(p, r) => runner'[p][r].pc = "check"
           /\ Misfire(p, r) => runner'[p][r].pc = "idle"
           /\ GetReminder(p, r) => runner'[p][r].pc \in {"select", "idle"}
           /\ FireSelect(p, r) =>
                 runner'[p][r].pc = IF status[r] = "scheduled" THEN "commit" ELSE "idle"
           /\ FireCommit(p, r) => runner'[p][r].pc = "event"
           /\ FireLost(p, r) => runner'[p][r].pc = "idle"
           /\ AddLearningEvent(p, r) => runner'[p][r].pc = "idle"
           /\ RunError(p, r) => runner'[p][r].pc = "idle"
<1>1. Return(p, r)[p][r].pc = "idle"
  BY ReturnMoves
<1>2. "check" \in PCs /\ "select" \in PCs /\ "commit" \in PCs /\ "event" \in PCs
  BY DEF PCs
<1>3. /\ Goto(p, r, "check")[p][r].pc = "check"
      /\ Goto(p, r, "select")[p][r].pc = "select"
      /\ Goto(p, r, "commit")[p][r].pc = "commit"
      /\ Goto(p, r, "event")[p][r].pc = "event"
  BY <1>2, GotoMoves
<1> QED
  BY <1>1, <1>3 DEF StartRun, Misfire, GetReminder, FireSelect, FireCommit, FireLost,
     AddLearningEvent, RunError

Stutters == UNCHANGED <<now, status, repeat, due, notes, Reading>>

(* Every step of the service is a step of ReminderSpec or leaves its       *)
(* variables alone.                                                        *)
LEMMA RefinementStep == ReminderInv /\ [Next]_vars => [Abstract!Next]_(Abstract!vars)
<1> SUFFICES ASSUME ReminderInv, [Next]_vars
             PROVE  Abstract!Next \/ Stutters
  BY DEF Stutters, Reading, Abstract!vars
<1>0. TypeOK /\ Timing
  BY DEF ReminderInv, ClaimInv
<1> USE DEF db, local, history
<1>1. CASE Tick
  <2>1. Reading' = Reading
    BY <1>1 DEF Tick, Reading, Committers
  <2> QED
    BY <1>1, <2>1 DEF Tick, Reading, Abstract!Next, Abstract!Tick
<1>2. ASSUME NEW p \in Procs, Start(p) \/ Resume(p) \/ Close(p)
      PROVE  Stutters
  BY <1>2 DEF Start, Resume, Close, Stutters, Reading, Committers
<1>3. ASSUME NEW p \in Procs, Crash(p)
      PROVE  Abstract!Abandon(p)
  <2>1. \A s \in Reminders : runner'[p][s].pc = "idle"
    BY <1>0, <1>3 DEF Crash, Idle, TypeOK
  <2>2. \A q \in Procs \ {p}, s \in Reminders : runner'[q][s] = runner[q][s]
    BY <1>0, <1>3 DEF Crash, TypeOK
  <2>3. \A s \in Reminders : Committers(s)' = Committers(s) \ {p}
    BY <2>1, <2>2 DEF Committers
  <2>4. Reading' = [s \in Reminders |-> IF s \in Reminders THEN Reading[s] \ {p} ELSE Reading[s]]
    BY <2>3 DEF Reading
  <2>5. Reminders \in SUBSET Reminders
    OBVIOUS
  <2> QED
    BY <1>3, <2>4, <2>5 DEF Crash, Reading, Abstract!Abandon
<1>4. ASSUME NEW p \in Procs, NEW r \in Reminders, CreateRow(p, r)
      PROVE  Abstract!Create(r)
  <2>1. Reading' = Reading
    BY <1>4 DEF CreateRow, Reading, Committers
  <2> QED
    BY <1>4, <2>1 DEF CreateRow, Reading, Abstract!Create
<1>5. ASSUME NEW p \in Procs, NEW r \in Reminders, CancelRow(p, r)
      PROVE  Abstract!Cancel(r)
  <2>1. Reading' = Reading
    BY <1>5 DEF CancelRow, Reading, Committers
  <2> QED
    BY <1>5, <2>1 DEF CancelRow, Reading, Abstract!Cancel
<1>6. ASSUME NEW p \in Procs, NEW r \in Reminders,
             CreateJob(p, r) \/ CancelJob(p, r) \/ SkipOverlap(p, r) \/ RestoreJob(p, r)
      PROVE  Stutters
  BY <1>6 DEF CreateJob, CancelJob, SkipOverlap, RestoreJob, Stutters, Reading, Committers
<1>7. ASSUME NEW p \in Procs, NEW r \in Reminders, Dispatch(p, r) \/ RestoreOverdue(p, r)
      PROVE  Stutters
  <2>1. \E l \in {"queued", "check"}, t \in Int :
           runner' = [runner EXCEPT ![p][r] = [pc |-> l, slot |-> t]]
    <3>1. DueSlot(r) \in Int /\ due[r] \in Int
      BY <1>0, SlotType DEF DueSlot, TypeOK
    <3>2. \/ runner' = [runner EXCEPT ![p][r] = [pc |-> "queued", slot |-> DueSlot(r)]]
          \/ runner' = [runner EXCEPT ![p][r] = [pc |-> "check", slot |-> due[r]]]
      BY <1>7 DEF Dispatch, RestoreOverdue
    <3> QED
      BY <3>1, <3>2
  <2>2. runner[p][r].pc = "idle"
    BY <1>7 DEF Dispatch, RestoreOverdue, Busy
  <2>3. runner'[p][r].pc # "commit"
    BY <1>0, <2>1 DEF TypeOK
  <2>4. \A q \in Procs, s \in Reminders : q # p \/ s # r => runner'[q][s] = runner[q][s]
    BY <1>0, <2>1 DEF TypeOK
  <2>5. Reading' = Reading
    BY <2>2, <2>3, <2>4, ReadingSame
  <2> QED
    BY <1>7, <2>5 DEF Dispatch, RestoreOverdue, Stutters
<1>8. ASSUME NEW p \in Procs, NEW r \in Reminders, RunStep(p, r) \/ RunError(p, r)
      PROVE  Abstract!Next \/ Stutters
  <2>0. /\ UNCHANGED <<now, repeat, due>>
        /\ \A q \in Procs, s \in Reminders : q # p \/ s # r => runner'[q][s] = runner[q][s]
    BY <1>0, <1>8, RunFrame
  <2>1. CASE StartRun(p, r) \/ Misfire(p, r) \/ GetReminder(p, r) \/ AddLearningEvent(p, r)
    <3>1. runner[p][r].pc # "commit" /\ runner'[p][r].pc # "commit"
      BY <1>0, <2>1, RunTarget DEF StartRun, Misfire, GetReminder, AddLearningEvent
    <3>2. Reading' = Reading
      BY <2>0, <3>1, ReadingSame
    <3>3. UNCHANGED <<status, notes>>
      BY <2>1 DEF StartRun, Misfire, GetReminder, AddLearningEvent
    <3> QED
      BY <2>0, <3>2, <3>3 DEF Stutters
  <2>2. CASE FireSelect(p, r)
    <3>1. UNCHANGED <<status, notes>>
      BY <2>2 DEF FireSelect
    <3>2. CASE status[r] = "scheduled"
      <4>1. runner'[p][r].pc = "commit"
        BY <1>0, <2>2, <3>2, RunTarget
      <4>2. Reading' = [Reading EXCEPT ![r] = @ \cup {p}]
        BY <2>0, <4>1, ReadingMoves
      <4>3. Abstract!Read(p, r)
        BY <2>0, <3>1, <3>2, <4>2 DEF Reading, Abstract!Read
      <4> QED
        BY <4>3 DEF Abstract!Next
    <3>3. CASE status[r] # "scheduled"
      <4>1. runner[p][r].pc # "commit" /\ runner'[p][r].pc # "commit"
        BY <1>0, <2>2, <3>3, RunTarget DEF FireSelect
      <4> QED
        BY <2>0, <3>1, <4>1, ReadingSame DEF Stutters
    <3> QED
      BY <3>2, <3>3
  <2>3. CASE FireCommit(p, r)
    <3>1. runner'[p][r].pc # "commit" /\ p \in Committers(r)
      BY <1>0, <2>3, RunTarget DEF FireCommit, Committers
    <3>2. Reading' = [Reading EXCEPT ![r] = @ \ {p}]
      BY <2>0, <3>1, ReadingMoves
    <3>3. CASE repeat[r] = "once"
      <4>1. due[r] <= now
        BY <1>0, <2>3, <3>3 DEF FireCommit, Timing, OnTime
      <4>2. status[r] = "scheduled" /\ status' = [status EXCEPT ![r] = "completed"]
        BY <2>3, <3>3 DEF FireCommit, Claimed
      <4>3. Abstract!Deliver(p, r)
        BY <2>0, <2>3, <3>1, <3>2, <3>3, <4>1, <4>2 DEF FireCommit, Reading, Abstract!Deliver
      <4> QED
        BY <4>3 DEF Abstract!Next
    <3>4. CASE repeat[r] = "daily"
      <4>1. status' = status
        BY <1>0, <2>3, <3>4 DEF FireCommit, TypeOK
      <4>2. Abstract!Deliver(p, r)
        BY <2>0, <2>3, <3>1, <3>2, <3>4, <4>1 DEF FireCommit, Reading, Abstract!Deliver
      <4> QED
        BY <4>2 DEF Abstract!Next
    <3> QED
      BY <1>0, <3>3, <3>4 DEF TypeOK
  <2>4. CASE FireLost(p, r) \/ RunError(p, r)
    <3>1. runner'[p][r].pc # "commit"
      BY <1>0, <2>4, RunTarget
    <3>2. Reading' = [Reading EXCEPT ![r] = @ \ {p}]
      BY <2>0, <3>1, ReadingMoves
    <3>3. Reading' = [s \in Reminders |-> IF s \in {r} THEN Reading[s] \ {p} ELSE Reading[s]]
      BY <3>2 DEF Reading
    <3>4. {r} \in SUBSET Reminders
      OBVIOUS
    <3>5. UNCHANGED <<status, notes>>
      BY <2>4 DEF FireLost, RunError
    <3>6. Abstract!Abandon(p)
      BY <2>0, <3>3, <3>4, <3>5 DEF Reading, Abstract!Abandon
    <3> QED
      BY <3>6 DEF Abstract!Next
  <2> QED
    BY <1>8, <2>1, <2>2, <2>3, <2>4 DEF RunStep
<1>9. CASE UNCHANGED vars
  BY <1>9 DEF vars, Stutters, Reading, Committers
<1> QED
  BY <1>1, <1>2, <1>3, <1>4, <1>5, <1>6, <1>7, <1>8, <1>9 DEF Next, Abstract!Next

(* The service, with its processes, jobs, threads, errors and crashes,     *)
(* implements the abstract reminder.                                       *)
THEOREM Refinement == Spec => ImplementsReminderSpec
<1>1. Init => Abstract!Init
  <2>1. ASSUME Init PROVE \A r \in Reminders : Committers(r) = {}
    BY <2>1 DEF Init, Committers, Idle
  <2> QED
    BY <2>1 DEF Init, Abstract!Init
<1> QED
  BY <1>1, RefinementStep, ReminderInvHolds, PTL DEF Spec, ImplementsReminderSpec, Abstract!Spec

-----------------------------------------------------------------------------
(* A multiple of d strictly between -d and d is zero. *)
LEMMA ZeroFactor ==
    ASSUME NEW d \in Nat \ {0}, NEW t \in Int, -d < d * t, d * t < d
    PROVE  t = 0
<1>1. t >= 1 => d * t >= d
  OBVIOUS
<1>2. t <= -1 => d * t <= -d
  OBVIOUS
<1> QED
  BY <1>1, <1>2

(* Quotient and remainder. *)
LEMMA DivMod ==
   ASSUME NEW a \in Int, NEW d \in Nat \ {0}
   PROVE /\ a = d * (a \div d) + (a % d) 
         /\ a \div d \in Int
         /\ a % d \in 0..(d-1)
  OBVIOUS

(* Adding whole days does not change the time of day. *)
LEMMA ModUnique ==
    ASSUME NEW a \in Int, NEW d \in Nat \ {0}, NEW k \in Int
    PROVE  (a + d * k) % d = a % d
<1> DEFINE b == a + d * k
           t == (a \div d) + k - (b \div d)
<1>0. b \in Int
  OBVIOUS
<1>1. b = d * (b \div d) + (b % d) /\ b \div d \in Int /\ b % d \in 0..(d-1)
  BY <1>0, DivMod
<1>2. a = d * (a \div d) + (a % d) /\ a \div d \in Int /\ a % d \in 0..(d-1)
  BY DivMod
<1>3. t \in Int
  BY <1>1, <1>2
<1>4. d * t = (b % d) - (a % d)
  <2> DEFINE q == a \div d
             s == b \div d
             m == a % d
             n == b % d
  <2>1. q \in Int /\ s \in Int /\ m \in Int /\ n \in Int /\ a = d * q + m /\ a + d * k = d * s + n
    BY <1>1, <1>2
  <2> HIDE DEF q, s, m, n
  <2>2. d * (q + k - s) = d * q + d * k - d * s
    BY <2>1
  <2>3. d * (q + k - s) = n - m
    BY <2>1, <2>2
  <2> QED
    BY <2>3 DEF q, s, m, n
<1>5. t = 0
  <2> HIDE DEF t
  <2>1. -d < (b % d) - (a % d) /\ (b % d) - (a % d) < d
    BY <1>1, <1>2
  <2> QED
    BY <1>3, <1>4, <2>1, ZeroFactor
<1>6. (b % d) - (a % d) = 0
  BY <1>3, <1>4, <1>5
<1> QED
  BY <1>1, <1>2, <1>6

(* A cron trigger keeps the time of day of run_at. *)
LEMMA SlotAligned ==
    ASSUME TypeOK, NEW r \in Reminders
    PROVE  NextSlot(r) % DayLength = due[r] % DayLength
<1>1. now \in Int /\ due[r] \in Int /\ DayLength \in Nat \ {0}
  BY RemindersAssumption DEF TypeOK
<1> DEFINE a == now - due[r]
           q == a \div DayLength
<1>2. a \in Int
  BY <1>1
<1> HIDE DEF a
<1>3. a = DayLength * q + (a % DayLength) /\ q \in Int /\ a % DayLength \in Int
  BY <1>1, <1>2, DivMod
<1>4. NextSlot(r) = now - (a % DayLength) + DayLength
  BY DEF NextSlot, LastSlot, a
<1> HIDE DEF q
<1>5. NextSlot(r) = due[r] + DayLength * (q + 1)
  <2>1. DayLength * (q + 1) = DayLength * q + DayLength
    BY <1>1, <1>3
  <2>2. now = due[r] + a
    BY <1>1 DEF a
  <2> QED
    BY <1>1, <1>2, <1>3, <1>4, <2>1, <2>2
<1>6. q + 1 \in Int
  BY <1>3
<1>7. (due[r] + DayLength * (q + 1)) % DayLength = due[r] % DayLength
  BY <1>1, <1>6, ModUnique
<1> QED
  BY <1>5, <1>7

-----------------------------------------------------------------------------
(* A step that is not a step of a run, a dispatch or a crash leaves every  *)
(* run where it is.                                                        *)
LEMMA RunnerSteps ==
    ASSUME TypeOK, [Next]_vars
    PROVE  \/ runner' = runner
           \/ \E p \in Procs : Crash(p)
           \/ \E p \in Procs, r \in Reminders :
                 Dispatch(p, r) \/ RestoreOverdue(p, r) \/ RunStep(p, r) \/ RunError(p, r)
<1> USE DEF db, local, history
<1>1. Tick => runner' = runner
  BY DEF Tick
<1>2. \A p \in Procs : Start(p) \/ Resume(p) \/ Close(p) => runner' = runner
  BY DEF Start, Resume, Close
<1>3. \A p \in Procs, r \in Reminders :
         (CreateRow(p, r) \/ CreateJob(p, r) \/ CancelRow(p, r) \/ CancelJob(p, r)
             \/ SkipOverlap(p, r) \/ RestoreJob(p, r)) => runner' = runner
  BY DEF CreateRow, CreateJob, CancelRow, CancelJob, SkipOverlap, RestoreJob
<1>4. UNCHANGED vars => runner' = runner
  BY DEF vars
<1> QED
  BY <1>1, <1>2, <1>3, <1>4 DEF Next

(* A dispatched run and a restored one start where no run was. *)
LEMMA RunStarts ==
    ASSUME TypeOK, NEW p \in Procs, NEW r \in Reminders,
           Dispatch(p, r) \/ RestoreOverdue(p, r)
    PROVE  /\ runner[p][r].pc = "idle"
           /\ runner'[p][r].pc = IF Dispatch(p, r) THEN "queued" ELSE "check"
           /\ \A q \in Procs, s \in Reminders :
                 q # p \/ s # r => runner'[q][s] = runner[q][s]
<1>1. runner[p][r].pc = "idle"
  BY DEF Dispatch, RestoreOverdue, Busy
<1>2. CASE Dispatch(p, r)
  <2> DEFINE run == [pc |-> "queued", slot |-> DueSlot(r)]
  <2>1. run \in [pc : PCs, slot : Int] /\ run.pc = "queued"
    BY SlotType DEF PCs, DueSlot, TypeOK
  <2>2. runner' = [runner EXCEPT ![p][r] = run]
    BY <1>2 DEF Dispatch
  <2> HIDE DEF run
  <2> QED
    BY <1>1, <1>2, <2>1, <2>2, RunnerMoves
<1>3. CASE RestoreOverdue(p, r) /\ ~Dispatch(p, r)
  <2> DEFINE run == [pc |-> "check", slot |-> due[r]]
  <2>1. run \in [pc : PCs, slot : Int] /\ run.pc = "check"
    BY DEF PCs, TypeOK
  <2>2. runner' = [runner EXCEPT ![p][r] = run]
    BY <1>3 DEF RestoreOverdue
  <2> HIDE DEF run
  <2> QED
    BY <1>1, <1>3, <2>1, <2>2, RunnerMoves
<1> QED
  BY <1>2, <1>3

(* A crash ends every run of the process and no other. *)
LEMMA CrashEnds ==
    ASSUME TypeOK, NEW p \in Procs, Crash(p)
    PROVE  /\ \A s \in Reminders : runner'[p][s].pc = "idle"
           /\ \A q \in Procs \ {p}, s \in Reminders : runner'[q][s] = runner[q][s]
  BY DEF Crash, Idle, TypeOK

(* The status of a row that was cancelled, and the notifications it still  *)
(* gets, for one step.                                                     *)
LEMMA QuiesceStep ==
    ASSUME TypeOK, [Next]_vars, NEW s \in Reminders, status[s] = "cancelled"
    PROVE  /\ Committers(s)' \subseteq Committers(s)
           /\ notes'[s] # notes[s] => Committers(s)' # Committers(s)
<1>1. ASSUME NEW p \in Procs, NEW r \in Reminders, FireCommit(p, r)
      PROVE  p \in Committers(r) /\ p \notin Committers(r)' /\ (r # s => notes'[s] = notes[s])
  BY <1>1, RunTarget DEF FireCommit, Committers, TypeOK
<1>2. notes'[s] # notes[s] => \E p \in Procs : FireCommit(p, s)
  BY <1>1, RowSteps DEF RowsUntouched, CreateRow, CancelRow
<1>3. ASSUME NEW p \in Procs, NEW r \in Reminders,
             Dispatch(p, r) \/ RestoreOverdue(p, r)
      PROVE  Committers(s)' \subseteq Committers(s)
  BY <1>3, RunStarts DEF Committers
<1>4. ASSUME NEW p \in Procs, NEW r \in Reminders, RunStep(p, r) \/ RunError(p, r)
      PROVE  Committers(s)' \subseteq Committers(s)
  <2>1. runner'[p][s].pc = "commit" => runner[p][s].pc = "commit"
    <3>1. CASE r = s
      BY <1>4, <3>1, RunTarget DEF RunStep
    <3>2. CASE r # s
      BY <1>4, <3>2, RunFrame
    <3> QED
      BY <3>1, <3>2
  <2> QED
    BY <1>4, <2>1, RunFrame DEF Committers
<1>5. ASSUME NEW p \in Procs, Crash(p)
      PROVE  Committers(s)' \subseteq Committers(s)
  BY <1>5, CrashEnds DEF Committers
<1>6. runner' = runner => Committers(s)' = Committers(s)
  BY DEF Committers
<1> QED
  BY <1>1, <1>2, <1>3, <1>4, <1>5, <1>6, RunnerSteps

(* After a cancellation the runs that may still notify only become fewer,  *)
(* and each of them notifies at most once.                                 *)
THEOREM CancelledQuiesces == Spec => CancelQuiesces
<1>1. TypeOK /\ [Next]_vars =>
         [\A r \in Reminders : status[r] = "cancelled" =>
             /\ Committers(r)' \subseteq Committers(r)
             /\ notes'[r] # notes[r] => Committers(r)' # Committers(r)]_vars
  BY QuiesceStep
<1> QED
  BY <1>1, TypeCorrect, PTL DEF Spec, CancelQuiesces

-----------------------------------------------------------------------------
(* Counting: two sets that differ at most in one element. *)
LEMMA OneApart ==
    ASSUME NEW A, NEW B, NEW x, IsFiniteSet(A), A \ {x} = B \ {x}
    PROVE  /\ IsFiniteSet(B)
           /\ Cardinality(A) \in Nat
           /\ Cardinality(B) = Cardinality(A) + (IF x \in B THEN 1 ELSE 0)
                                              - (IF x \in A THEN 1 ELSE 0)
<1>1. IsFiniteSet(A \ {x}) /\ Cardinality(A) \in Nat /\ Cardinality(A \ {x}) \in Nat
  BY FS_RemoveElement, FS_CardinalityType
<1>2. Cardinality(A) = Cardinality(A \ {x}) + IF x \in A THEN 1 ELSE 0
  BY <1>1, FS_RemoveElement
<1>3. B = IF x \in B THEN (A \ {x}) \cup {x} ELSE A \ {x}
  OBVIOUS
<1>4. IsFiniteSet(B) /\ Cardinality(B) = Cardinality(A \ {x}) + IF x \in B THEN 1 ELSE 0
  <2>1. CASE x \in B
    <3>1. B = (A \ {x}) \cup {x}
      BY <2>1
    <3>2. /\ IsFiniteSet((A \ {x}) \cup {x})
          /\ Cardinality((A \ {x}) \cup {x}) = Cardinality(A \ {x}) + 1
      BY <1>1, FS_AddElement
    <3> QED
      BY <2>1, <3>1, <3>2
  <2>2. CASE x \notin B
    <3>1. B = A \ {x}
      BY <2>2
    <3> QED
      BY <1>1, <2>2, <3>1
  <2> QED
    BY <2>1, <2>2
<1> QED
  BY <1>1, <1>2, <1>4

(* The runs between the two transactions of run_now. *)
Logging(r) == {p \in Procs : runner[p][r].pc = "event"}

(* One run moves: how the number of runs between the transactions changes. *)
LEMMA LoggingMoves ==
    ASSUME NEW p \in Procs, NEW s \in Reminders,
           \A q \in Procs : q # p => runner'[q][s] = runner[q][s]
    PROVE  /\ Cardinality(Logging(s)) \in Nat
           /\ Cardinality(Logging(s)') =
                 Cardinality(Logging(s)) + (IF runner'[p][s].pc = "event" THEN 1 ELSE 0)
                                         - (IF runner[p][s].pc = "event" THEN 1 ELSE 0)
<1>1. IsFiniteSet(Logging(s))
  BY RemindersAssumption, FS_Subset DEF Logging
<1>2. Logging(s) \ {p} = Logging(s)' \ {p}
  BY DEF Logging
<1>3. (p \in Logging(s)' <=> runner'[p][s].pc = "event") /\ (p \in Logging(s) <=> runner[p][s].pc = "event")
  BY DEF Logging
<1> QED
  BY <1>1, <1>2, <1>3, OneApart

(* Notifications, events and lost events of every step. *)
LEMMA EventStep == TypeOK /\ EventAccounting /\ [Next]_vars => EventAccounting'
<1> SUFFICES ASSUME TypeOK, EventAccounting, [Next]_vars, NEW s \in Reminders
             PROVE  notes'[s] = events'[s] + lost'[s] + Cardinality(Logging(s)')
  BY DEF EventAccounting, Logging
<1>0. /\ notes[s] = events[s] + lost[s] + Cardinality(Logging(s))
      /\ notes[s] \in Nat /\ events[s] \in Nat /\ lost[s] \in Nat
  BY DEF EventAccounting, Logging, TypeOK
<1> USE DEF db, local, history
<1>1. ASSUME runner' = runner, UNCHANGED <<notes, events, lost>>
      PROVE  notes'[s] = events'[s] + lost'[s] + Cardinality(Logging(s)')
  BY <1>0, <1>1 DEF Logging
<1>2. CASE Tick
  BY <1>1, <1>2 DEF Tick
<1>3. ASSUME NEW p \in Procs, Start(p) \/ Resume(p) \/ Close(p)
      PROVE  runner' = runner /\ UNCHANGED <<notes, events, lost>>
  BY <1>3 DEF Start, Resume, Close
<1>4. ASSUME NEW p \in Procs, NEW r \in Reminders,
             CreateRow(p, r) \/ CreateJob(p, r) \/ CancelRow(p, r) \/ CancelJob(p, r)
                \/ SkipOverlap(p, r) \/ RestoreJob(p, r)
      PROVE  runner' = runner /\ UNCHANGED <<notes, events, lost>>
  BY <1>4 DEF CreateRow, CreateJob, CancelRow, CancelJob, SkipOverlap, RestoreJob
<1>5. ASSUME NEW p \in Procs, NEW r \in Reminders, Dispatch(p, r) \/ RestoreOverdue(p, r)
      PROVE  notes'[s] = events'[s] + lost'[s] + Cardinality(Logging(s)')
  <2>1. UNCHANGED <<notes, events, lost>>
    BY <1>5 DEF Dispatch, RestoreOverdue
  <2>2. Logging(s)' = Logging(s)
    BY <1>5, RunStarts DEF Logging
  <2> QED
    BY <1>0, <2>1, <2>2
<1>6. ASSUME NEW p \in Procs, Crash(p)
      PROVE  notes'[s] = events'[s] + lost'[s] + Cardinality(Logging(s)')
  <2>1. /\ UNCHANGED <<notes, events>>
        /\ lost'[s] = lost[s] + IF runner[p][s].pc = "event" THEN 1 ELSE 0
    BY <1>6 DEF Crash
  <2>2. runner'[p][s].pc = "idle" /\ \A q \in Procs : q # p => runner'[q][s] = runner[q][s]
    BY <1>6, CrashEnds
  <2> QED
    BY <1>0, <2>1, <2>2, LoggingMoves
<1>7. ASSUME NEW p \in Procs, NEW r \in Reminders, RunStep(p, r) \/ RunError(p, r)
      PROVE  notes'[s] = events'[s] + lost'[s] + Cardinality(Logging(s)')
  <2>1. \A q \in Procs : q # p => runner'[q][s] = runner[q][s]
    BY <1>7, RunFrame
  <2>2. CASE r # s
    <3>1. runner'[p][s] = runner[p][s]
      BY <1>7, <2>2, RunFrame
    <3>2. notes'[s] = notes[s] /\ events'[s] = events[s] /\ lost'[s] = lost[s]
      BY <1>7, <2>2 DEF RunStep, StartRun, Misfire, GetReminder, FireSelect, FireCommit,
         FireLost, AddLearningEvent, RunError, TypeOK
    <3> QED
      BY <1>0, <2>1, <3>1, <3>2, LoggingMoves
  <2>3. CASE r = s /\ ~(FireCommit(p, s) \/ AddLearningEvent(p, s) \/ RunError(p, s))
    <3>1. UNCHANGED <<notes, events, lost>>
      BY <1>7, <2>3 DEF RunStep, StartRun, Misfire, GetReminder, FireSelect, FireLost
    <3>2. runner[p][s].pc # "event"
      BY <1>7, <2>3 DEF RunStep, StartRun, Misfire, GetReminder, FireSelect, FireLost
    <3>3. runner'[p][s].pc # "event"
      BY <1>7, <2>3, RunTarget DEF RunStep
    <3> QED
      BY <1>0, <2>1, <3>1, <3>2, <3>3, LoggingMoves
  <2>4. CASE r = s /\ FireCommit(p, s)
    <3>1. notes'[s] = notes[s] + 1 /\ UNCHANGED <<events, lost>> /\ runner[p][s].pc = "commit"
      BY <2>4 DEF FireCommit, TypeOK
    <3>2. runner'[p][s].pc = "event"
      BY <2>4, RunTarget
    <3> QED
      BY <1>0, <2>1, <3>1, <3>2, LoggingMoves
  <2>5. CASE r = s /\ AddLearningEvent(p, s)
    <3>1. events'[s] = events[s] + 1 /\ UNCHANGED <<notes, lost>> /\ runner[p][s].pc = "event"
      BY <2>5 DEF AddLearningEvent, TypeOK
    <3>2. runner'[p][s].pc = "idle"
      BY <2>5, RunTarget
    <3> QED
      BY <1>0, <2>1, <3>1, <3>2, LoggingMoves
  <2>6. CASE r = s /\ RunError(p, s)
    <3>1. /\ UNCHANGED <<notes, events>>
          /\ lost'[s] = lost[s] + IF runner[p][s].pc = "event" THEN 1 ELSE 0
      BY <1>0, <2>6 DEF RunError, TypeOK
    <3>2. runner'[p][s].pc = "idle"
      BY <2>6, RunTarget
    <3> QED
      BY <1>0, <2>1, <3>1, <3>2, LoggingMoves
  <2> QED
    BY <2>2, <2>3, <2>4, <2>5, <2>6
<1>8. CASE UNCHANGED vars
  BY <1>1, <1>8 DEF vars
<1> QED
  BY <1>1, <1>2, <1>3, <1>4, <1>5, <1>6, <1>7, <1>8 DEF Next

-----------------------------------------------------------------------------
(* Why a scheduled row cannot be forgotten by a process that undertook it: *)
(* only a cancelled row loses its job, and a run that has committed is     *)
(* one of a daily row, whose next job is already set.                      *)
Kept(p, r) ==
    /\ r \in toRemove[p] => status[r] = "cancelled"
    /\ r \in owned[p] => status[r] # "absent"
    /\ runner[p][r].pc = "event" /\ repeat[r] = "once" => status[r] # "scheduled"
    /\ r \in owned[p] /\ status[r] = "scheduled" =>
          \/ r \in todo[p] \cup toSchedule[p] \cup dropped[p]
          \/ job[p][r] # None
          \/ repeat[r] = "once" /\ runner[p][r].pc \notin {"idle", "event"}

AllKept == \A p \in Procs, r \in Reminders : Kept(p, r)

(* No step forgets a row. *)
LEMMA KeptStep == TypeOK /\ Timing /\ AllKept /\ [Next]_vars => AllKept'
<1> SUFFICES ASSUME TypeOK, Timing, AllKept, [Next]_vars, NEW q \in Procs, NEW s \in Reminders
             PROVE  Kept(q, s)'
  BY DEF AllKept
<1>0. Kept(q, s) /\ Known(q, s)
  BY DEF AllKept, Timing
<1>b. None \notin Int
  BY RemindersAssumption
<1> USE DEF TypeOK, Kept, Known, db, local, history
<1>1. CASE Tick
  BY <1>0, <1>1 DEF Tick
<1>2. ASSUME NEW p \in Procs, Start(p)
      PROVE  Kept(q, s)'
  BY <1>0, <1>2 DEF Start, Scheduled
<1>3. ASSUME NEW p \in Procs, Resume(p)
      PROVE  Kept(q, s)'
  BY <1>0, <1>3 DEF Resume
<1>4. ASSUME NEW p \in Procs, Close(p)
      PROVE  Kept(q, s)'
  BY <1>0, <1>4 DEF Close
<1>5. ASSUME NEW p \in Procs, Crash(p)
      PROVE  Kept(q, s)'
  BY <1>0, <1>5 DEF Crash, Idle
<1>6. ASSUME NEW p \in Procs, NEW r \in Reminders, CreateRow(p, r)
      PROVE  Kept(q, s)'
  BY <1>0, <1>6 DEF CreateRow
<1>7. ASSUME NEW p \in Procs, NEW r \in Reminders, CreateJob(p, r)
      PROVE  Kept(q, s)'
  BY <1>0, <1>b, <1>7, SlotType DEF CreateJob
<1>8. ASSUME NEW p \in Procs, NEW r \in Reminders, CancelRow(p, r)
      PROVE  Kept(q, s)'
  BY <1>0, <1>8 DEF CancelRow
<1>9. ASSUME NEW p \in Procs, NEW r \in Reminders, CancelJob(p, r)
      PROVE  Kept(q, s)'
  BY <1>0, <1>9 DEF CancelJob
<1>10. ASSUME NEW p \in Procs, NEW r \in Reminders, Dispatch(p, r)
       PROVE  Kept(q, s)'
  <2>1. NextRun(r) \in Int \/ repeat[r] = "once"
    BY SlotType DEF NextRun
  <2>2. runner'[p][r].pc = "queued" /\ \A u \in Procs, t \in Reminders : u # p \/ t # r => runner'[u][t] = runner[u][t]
    BY <1>10, RunStarts
  <2>3. UNCHANGED <<status, repeat, todo, toSchedule, toRemove, owned, dropped>>
    BY <1>10 DEF Dispatch
  <2>4. job'[p][r] = NextRun(r) /\ \A u \in Procs, t \in Reminders : u # p \/ t # r => job'[u][t] = job[u][t]
    BY <1>10 DEF Dispatch
  <2>5. CASE q = p /\ s = r
    BY <1>0, <1>b, <2>1, <2>2, <2>3, <2>4, <2>5
  <2>6. CASE q # p \/ s # r
    BY <1>0, <2>2, <2>3, <2>4, <2>6
  <2> QED
    BY <2>5, <2>6
<1>11. ASSUME NEW p \in Procs, NEW r \in Reminders, SkipOverlap(p, r)
       PROVE  Kept(q, s)'
  BY <1>0, <1>11 DEF SkipOverlap
<1>12. ASSUME NEW p \in Procs, NEW r \in Reminders, RunStep(p, r) \/ RunError(p, r)
       PROVE  Kept(q, s)'
  <2>1. /\ UNCHANGED <<repeat, todo, job, toSchedule, toRemove, owned>>
        /\ \A u \in Procs, t \in Reminders : u # p \/ t # r => runner'[u][t] = runner[u][t]
    BY <1>12, RunFrame
  <2>2. /\ dropped[q] \subseteq dropped'[q]
        /\ \A t \in Reminders : \/ status'[t] = status[t]
                                \/ status[t] = "scheduled" /\ status'[t] = "completed"
    <3>1. CASE FireCommit(p, r)
      BY <3>1 DEF FireCommit, Claimed
    <3>2. CASE Misfire(p, r) \/ RunError(p, r)
      <4>1. dropped' = [dropped EXCEPT ![p] = @ \cup {r}] /\ status' = status
        BY <3>2 DEF Misfire, RunError
      <4> QED
        BY <4>1
    <3>3. CASE StartRun(p, r) \/ GetReminder(p, r) \/ FireSelect(p, r) \/ FireLost(p, r)
                  \/ AddLearningEvent(p, r)
      BY <3>3 DEF StartRun, GetReminder, FireSelect, FireLost, AddLearningEvent
    <3> QED
      BY <1>12, <3>1, <3>2, <3>3 DEF RunStep
  <2>3. CASE q # p \/ s # r
    BY <1>0, <2>1, <2>2, <2>3
  <2>4. CASE q = p /\ s = r
    <3>1. CASE Misfire(p, r) \/ RunError(p, r)
      <4>1. dropped' = [dropped EXCEPT ![p] = @ \cup {r}] /\ status' = status
        BY <3>1 DEF Misfire, RunError
      <4>2. r \in dropped'[p]
        BY <4>1
      <4>3. runner'[p][r].pc = "idle"
        BY <3>1, RunTarget
      <4> QED
        BY <1>0, <2>1, <2>4, <4>1, <4>2, <4>3
    <3>2. CASE StartRun(p, r) \/ GetReminder(p, r) \/ FireSelect(p, r)
      <4>1. /\ status' = status /\ dropped' = dropped
            /\ runner[p][r].pc \notin {"idle", "event"} /\ runner'[p][r].pc # "event"
            /\ status[r] = "scheduled" => runner'[p][r].pc # "idle"
        <5>1. CASE StartRun(p, r)
          BY <1>0, <5>1, RunTarget DEF StartRun
        <5>2. CASE GetReminder(p, r)
          <6>1. /\ status' = status /\ dropped' = dropped /\ runner[p][r].pc = "check"
                /\ status[r] = "scheduled" => runner' = Goto(p, r, "select")
            BY <5>2 DEF GetReminder
          <6>2. Goto(p, r, "select")[p][r].pc = "select"
            BY <1>0, GotoMoves DEF PCs
          <6>3. runner'[p][r].pc \in {"select", "idle"}
            BY <1>0, <5>2, RunTarget
          <6> QED
            BY <6>1, <6>2, <6>3
        <5>3. CASE FireSelect(p, r)
          BY <1>0, <5>3, RunTarget DEF FireSelect
        <5> QED
          BY <3>2, <5>1, <5>2, <5>3
      <4> QED
        BY <1>0, <2>1, <2>4, <4>1
    <3>3. CASE FireCommit(p, r)
      BY <1>0, <2>1, <2>4, <3>3, RunTarget DEF FireCommit, Claimed
    <3>4. CASE FireLost(p, r)
      BY <1>0, <2>1, <2>4, <3>4, RunTarget DEF FireLost, Claimed
    <3>5. CASE AddLearningEvent(p, r)
      BY <1>0, <2>1, <2>4, <3>5, RunTarget DEF AddLearningEvent
    <3> QED
      BY <1>12, <3>1, <3>2, <3>3, <3>4, <3>5 DEF RunStep
  <2> QED
    BY <2>3, <2>4
<1>13. ASSUME NEW p \in Procs, NEW r \in Reminders, RestoreJob(p, r)
       PROVE  Kept(q, s)'
  BY <1>0, <1>b, <1>13, SlotType DEF RestoreJob
<1>14. ASSUME NEW p \in Procs, NEW r \in Reminders, RestoreOverdue(p, r)
       PROVE  Kept(q, s)'
  <2>1. runner'[p][r].pc \in {"check", "queued"} /\ \A u \in Procs, t \in Reminders : u # p \/ t # r => runner'[u][t] = runner[u][t]
    BY <1>14, RunStarts
  <2>2. repeat[r] = "once" /\ UNCHANGED <<status, repeat, job, toSchedule, toRemove, owned, dropped>>
    BY <1>14 DEF RestoreOverdue, Overdue
  <2>3. q # p \/ s # r => (s \in todo'[q] <=> s \in todo[q])
    BY <1>14 DEF RestoreOverdue
  <2>4. CASE q = p /\ s = r
    BY <1>0, <2>1, <2>2, <2>4
  <2>5. CASE q # p \/ s # r
    BY <1>0, <2>1, <2>2, <2>3, <2>5
  <2> QED
    BY <2>4, <2>5
<1>15. CASE UNCHANGED vars
  BY <1>0, <1>15 DEF vars
<1> QED
  BY <1>1, <1>2, <1>3, <1>4, <1>5, <1>6, <1>7, <1>8, <1>9, <1>10, <1>11, <1>12, <1>13, <1>14, <1>15
     DEF Next

-----------------------------------------------------------------------------
(* Why no occurrence is notified twice by a process: a run that has not    *)
(* reached its transaction yet is one of an occurrence that has come and   *)
(* that the process has not notified, and the job of a daily row is set    *)
(* for an occurrence after all those.                                      *)
Pending == {"queued", "check", "select", "commit"}

RunSlot(p, r) ==
    runner[p][r].pc \in Pending =>
       /\ runner[p][r].slot \in Occurrences(r)
       /\ repeat[r] = "daily" => <<p, runner[p][r].slot>> \notin fired[r]

JobSlot(p, r) ==
    repeat[r] = "daily" /\ job[p][r] # None =>
       /\ job[p][r] % DayLength = due[r] % DayLength
       /\ job[p][r] > born[r]
       /\ \A t \in Int : <<p, t>> \in fired[r] => t < job[p][r]
       /\ runner[p][r].pc \in Pending => runner[p][r].slot < job[p][r]

SlotInv ==
    /\ NotEarly
    /\ NotTwice
    /\ \A r \in Reminders : born[r] <= now /\ IsFiniteSet(fired[r])
    /\ \A p \in Procs, r \in Reminders : RunSlot(p, r) /\ JobSlot(p, r)

(* The last occurrence of a daily row is no earlier than any that has come. *)
LEMMA LastSlotReached ==
    ASSUME TypeOK, NEW r \in Reminders, NEW j \in Int,
           j <= now, j % DayLength = due[r] % DayLength
    PROVE  /\ LastSlot(r) \in Int
           /\ LastSlot(r) % DayLength = due[r] % DayLength
           /\ j <= LastSlot(r)
           /\ LastSlot(r) <= now
<1> DEFINE L == LastSlot(r)
           d == DayLength
           ql == L \div d
           qj == j \div d
<1>1. L \in Int /\ now \in Int /\ d \in Nat \ {0} /\ NextSlot(r) = L + d /\ NextSlot(r) > now
  BY SlotType, NextSlotLater, RemindersAssumption DEF TypeOK, NextSlot
<1>2. L <= now
  <2>1. (now - due[r]) % DayLength \in 0..(DayLength - 1)
    BY RemindersAssumption DEF TypeOK
  <2> QED
    BY <1>1, <2>1 DEF LastSlot
<1>3. L % d = due[r] % d
  <2>1. NextSlot(r) % d = due[r] % d
    BY SlotAligned
  <2> DEFINE k == 1
  <2>2. k \in Int /\ d * k = d
    BY <1>1
  <2> HIDE DEF L, d, k
  <2>3. (L + d * k) % d = L % d
    BY <1>1, <2>2, ModUnique
  <2> QED
    BY <1>1, <2>1, <2>2, <2>3
<1>4. j <= L
  <2> SUFFICES ASSUME j > L PROVE FALSE
    BY <1>1
  <2>1. L = d * ql + (L % d) /\ ql \in Int /\ j = d * qj + (j % d) /\ qj \in Int /\ L % d \in Int
    <3> HIDE DEF L, d
    <3> QED
      BY <1>1, DivMod
  <2>2. L % d = j % d
    BY <1>3
  <2> HIDE DEF L, d, ql, qj
  <2>3. d * (qj - ql) = d * qj - d * ql /\ d * qj \in Int /\ d * ql \in Int
    BY <1>1, <2>1
  <2>4. d * (qj - ql) = j - L
    BY <1>1, <2>1, <2>2, <2>3
  <2>5. -d < d * (qj - ql) /\ d * (qj - ql) < d
    BY <1>1, <2>4
  <2>6. qj - ql = 0
    BY <1>1, <2>1, <2>5, ZeroFactor
  <2>7. d * 0 = 0
    BY <1>1
  <2> QED
    BY <1>1, <2>4, <2>6, <2>7
<1> QED
  BY <1>1, <1>2, <1>3, <1>4

(* What a step that neither inserts a row nor notifies does to a job and   *)
(* to a run.                                                               *)
JobMove(p, r) ==
    \/ job'[p][r] = job[p][r]
    \/ job'[p][r] = None
    \/ repeat[r] = "daily" /\ job'[p][r] = NextSlot(r)
    \/ repeat[r] = "once"

RunMove(p, r) ==
    \/ runner'[p][r].pc \notin Pending
    \/ runner[p][r].pc \in Pending /\ runner'[p][r].slot = runner[p][r].slot
    \/ repeat[r] = "once" /\ runner'[p][r].slot = due[r] /\ due[r] <= now
    \/ /\ repeat[r] = "daily" /\ runner'[p][r].slot = LastSlot(r)
       /\ job[p][r] # None /\ job[p][r] <= now /\ job'[p][r] = NextSlot(r)

(* Such moves keep every slot where the invariant wants it. *)
LEMMA SlotsKept ==
    ASSUME TypeOK, TypeOK', SlotInv, UNCHANGED <<repeat, due, notes, born, fired>>,
           now <= now', \A p \in Procs, r \in Reminders : JobMove(p, r) /\ RunMove(p, r)
    PROVE  SlotInv'
<1>1. now \in Nat /\ now' \in Nat /\ DayLength \in Nat \ {0} /\ None \notin Int
  BY RemindersAssumption DEF TypeOK
<1>2. \A r \in Reminders : Occurrences(r) \subseteq Occurrences(r)'
  BY <1>1 DEF Occurrences
<1>3. NotEarly'
  BY <1>2 DEF SlotInv, NotEarly
<1>4. NotTwice'
  BY DEF SlotInv, NotTwice
<1>5. ASSUME NEW r \in Reminders
      PROVE  born'[r] <= now' /\ IsFiniteSet(fired'[r])
  <2>1. born[r] \in Nat /\ born[r] <= now /\ IsFiniteSet(fired[r])
    BY DEF SlotInv, TypeOK
  <2> QED
    BY <1>1, <2>1
<1>6. ASSUME NEW p \in Procs, NEW r \in Reminders
      PROVE  RunSlot(p, r)' /\ JobSlot(p, r)'
  <2>1. RunSlot(p, r) /\ JobSlot(p, r) /\ JobMove(p, r) /\ RunMove(p, r)
    BY DEF SlotInv
  <2>2. /\ job[p][r] \in Int \cup {None} /\ job'[p][r] \in Int \cup {None}
        /\ runner[p][r].slot \in Int /\ runner'[p][r].slot \in Int
        /\ repeat[r] \in {"once", "daily"} /\ due[r] \in Nat /\ born[r] \in Nat
    BY DEF TypeOK
  <2>3. /\ NextSlot(r) \in Int /\ NextSlot(r) > now
        /\ NextSlot(r) % DayLength = due[r] % DayLength /\ LastSlot(r) \in Int
        /\ NextSlot(r) = LastSlot(r) + DayLength
    BY SlotType, NextSlotLater, SlotAligned DEF NextSlot
  <2>4. \A t \in Int : <<p, t>> \in fired[r] => t \in 0..now
    <3>1. fired[r] \subseteq Procs \X Occurrences(r)
      BY DEF SlotInv, NotEarly
    <3>2. Occurrences(r) \subseteq 0..now
      BY DEF Occurrences
    <3> QED
      BY <3>1, <3>2
  <2>5. born[r] <= now /\ Occurrences(r) \subseteq Occurrences(r)'
    BY <1>2 DEF SlotInv
  <2>6. runner[p][r].pc \in Pending => runner[p][r].slot <= now
    BY <1>1, <2>1 DEF RunSlot, Occurrences
  <2>7. CASE repeat[r] = "once"
    <3>1. JobSlot(p, r)'
      BY <2>7 DEF JobSlot
    <3>2. RunSlot(p, r)'
      <4>1. ASSUME due[r] <= now PROVE due[r] \in Occurrences(r)'
        BY <1>1, <2>2, <2>7, <4>1 DEF Occurrences
      <4> QED
        BY <2>1, <2>5, <2>7, <4>1 DEF RunSlot, RunMove
    <3> QED
      BY <3>1, <3>2
  <2>8. CASE repeat[r] = "daily" /\ runner'[p][r].pc \notin Pending
    <3>1. RunSlot(p, r)'
      BY <2>8 DEF RunSlot
    <3>2. JobSlot(p, r)'
      BY <1>1, <2>1, <2>2, <2>3, <2>4, <2>5, <2>8 DEF JobSlot, JobMove
    <3> QED
      BY <3>1, <3>2
  <2>9. CASE repeat[r] = "daily" /\ runner[p][r].pc \in Pending
                /\ runner'[p][r].slot = runner[p][r].slot
    <3>1. RunSlot(p, r)'
      BY <2>1, <2>5, <2>9 DEF RunSlot
    <3>2. JobSlot(p, r)'
      BY <1>1, <2>1, <2>2, <2>3, <2>4, <2>5, <2>6, <2>9 DEF JobSlot, JobMove
    <3> QED
      BY <3>1, <3>2
  <2>10. CASE /\ repeat[r] = "daily" /\ runner'[p][r].slot = LastSlot(r)
              /\ job[p][r] # None /\ job[p][r] <= now /\ job'[p][r] = NextSlot(r)
    <3>1. /\ job[p][r] \in Int /\ job[p][r] % DayLength = due[r] % DayLength /\ job[p][r] > born[r]
          /\ \A t \in Int : <<p, t>> \in fired[r] => t < job[p][r]
      BY <2>1, <2>2, <2>10 DEF JobSlot
    <3>2. /\ LastSlot(r) % DayLength = due[r] % DayLength
          /\ job[p][r] <= LastSlot(r) /\ LastSlot(r) <= now
      BY <2>10, <3>1, LastSlotReached
    <3>3. LastSlot(r) \in Occurrences(r)
      BY <1>1, <2>2, <2>3, <2>10, <3>1, <3>2 DEF Occurrences
    <3>4. <<p, LastSlot(r)>> \notin fired[r]
      BY <2>2, <2>3, <3>1, <3>2
    <3>5. RunSlot(p, r)'
      BY <2>5, <2>10, <3>3, <3>4 DEF RunSlot
    <3>6. JobSlot(p, r)'
      BY <1>1, <2>2, <2>3, <2>4, <2>5, <2>10 DEF JobSlot
    <3> QED
      BY <3>5, <3>6
  <2> QED
    BY <2>1, <2>2, <2>7, <2>8, <2>9, <2>10 DEF RunMove
<1> QED
  BY <1>3, <1>4, <1>5, <1>6 DEF SlotInv

(* A row is inserted with no job, no run and no notification. *)
LEMMA SlotsOfNewRow ==
    ASSUME ReminderInv, TypeOK', SlotInv, NEW p \in Procs, NEW r \in Reminders, CreateRow(p, r)
    PROVE  SlotInv'
<1>0. TypeOK /\ Timing /\ OnceClaimed
  BY DEF ReminderInv, ClaimInv
<1>1. /\ \A q \in Procs : job[q][r] = None /\ runner[q][r].pc = "idle"
      /\ notes[r] = 0
  BY <1>0 DEF CreateRow, Timing, Known, OnceClaimed
<1>2. UNCHANGED <<now, notes, job, runner, fired>>
  BY DEF CreateRow
<1>3. /\ \A s \in Reminders \ {r} : repeat'[s] = repeat[s] /\ due'[s] = due[s] /\ born'[s] = born[s]
      /\ born'[r] = now /\ now \in Nat
  BY <1>0 DEF CreateRow, TypeOK
<1>4. fired[r] = {}
  <2>1. IsFiniteSet(fired[r]) /\ Cardinality(fired[r]) = 0
    BY <1>1 DEF SlotInv, NotTwice
  <2> QED
    BY <2>1, FS_EmptySet
<1>5. \A s \in Reminders \ {r} : Occurrences(s)' = Occurrences(s)
  BY <1>2, <1>3 DEF Occurrences
<1>6. NotEarly' /\ NotTwice'
  BY <1>2, <1>4, <1>5 DEF SlotInv, NotEarly, NotTwice
<1>7. \A s \in Reminders : born'[s] <= now' /\ IsFiniteSet(fired'[s])
  BY <1>2, <1>3 DEF SlotInv
<1>8. ASSUME NEW q \in Procs, NEW s \in Reminders
      PROVE  RunSlot(q, s)' /\ JobSlot(q, s)'
  <2>1. CASE s = r
    BY <1>1, <1>2, <2>1 DEF RunSlot, JobSlot, Pending
  <2>2. CASE s # r
    BY <1>2, <1>3, <1>5, <2>2 DEF SlotInv, RunSlot, JobSlot
  <2> QED
    BY <2>1, <2>2
<1> QED
  BY <1>6, <1>7, <1>8 DEF SlotInv

(* A notification is the first of its process for its occurrence. *)
LEMMA SlotsOfNotification ==
    ASSUME ReminderInv, TypeOK', SlotInv, NEW p \in Procs, NEW r \in Reminders, FireCommit(p, r)
    PROVE  SlotInv'
<1> DEFINE t == runner[p][r].slot
<1>0. TypeOK /\ OnceClaimed
  BY DEF ReminderInv, ClaimInv
<1>1. UNCHANGED <<now, repeat, due, born, job>>
  BY DEF FireCommit
<1>2. /\ runner[p][r].pc = "commit" /\ runner'[p][r].pc = "event"
      /\ \A q \in Procs, s \in Reminders : q # p \/ s # r => runner'[q][s] = runner[q][s]
  BY <1>0, RunTarget, RunFrame DEF FireCommit, RunStep
<1>3. /\ fired'[r] = fired[r] \cup {<<p, t>>} /\ notes'[r] = notes[r] + 1
      /\ \A s \in Reminders \ {r} : fired'[s] = fired[s] /\ notes'[s] = notes[s]
  BY <1>0 DEF FireCommit, TypeOK
<1>4. t \in Int /\ t \in Occurrences(r) /\ RunSlot(p, r) /\ notes[r] \in Nat
  <2>1. t \in Int /\ notes[r] \in Nat
    BY <1>0 DEF TypeOK
  <2>2. RunSlot(p, r)
    BY DEF SlotInv
  <2> QED
    BY <1>2, <2>1, <2>2 DEF RunSlot, Pending
<1>5. IsFiniteSet(fired[r]) /\ notes[r] = Cardinality(fired[r])
  BY DEF SlotInv, NotTwice
<1>6. <<p, t>> \notin fired[r]
  <2>1. CASE repeat[r] = "daily"
    BY <1>2, <1>4, <2>1 DEF RunSlot, Pending
  <2>2. CASE repeat[r] = "once"
    <3>1. notes[r] = 0
      BY <1>0, <2>2 DEF FireCommit, Claimed, OnceClaimed
    <3>2. fired[r] = {}
      BY <1>5, <3>1, FS_EmptySet
    <3> QED
      BY <3>2
  <2> QED
    BY <1>0, <2>1, <2>2 DEF TypeOK
<1> HIDE DEF t
<1>7. IsFiniteSet(fired'[r]) /\ notes'[r] = Cardinality(fired'[r])
  <2>1. /\ IsFiniteSet(fired[r] \cup {<<p, t>>})
        /\ Cardinality(fired[r] \cup {<<p, t>>}) = Cardinality(fired[r]) + 1
    BY <1>5, <1>6, FS_AddElement
  <2> QED
    BY <1>3, <1>5, <2>1
<1>8. \A s \in Reminders : Occurrences(s)' = Occurrences(s)
  BY <1>1 DEF Occurrences
<1>9. NotEarly'
  <2>1. \A s \in Reminders : fired[s] \subseteq Procs \X Occurrences(s)
    BY DEF SlotInv, NotEarly
  <2> QED
    BY <1>3, <1>4, <1>8, <2>1 DEF NotEarly
<1>10. NotTwice'
  BY <1>3, <1>7 DEF SlotInv, NotTwice
<1>11. \A s \in Reminders : born'[s] <= now' /\ IsFiniteSet(fired'[s])
  BY <1>1, <1>3, <1>7 DEF SlotInv
<1>12. ASSUME NEW q \in Procs, NEW s \in Reminders
       PROVE  RunSlot(q, s)' /\ JobSlot(q, s)'
  <2>1. RunSlot(q, s) /\ JobSlot(q, s)
    BY DEF SlotInv
  <2>2. CASE s # r
    BY <1>1, <1>2, <1>3, <1>8, <2>1, <2>2 DEF RunSlot, JobSlot
  <2>3. CASE s = r /\ q # p
    <3>1. \A x : <<q, x>> \in fired'[r] <=> <<q, x>> \in fired[r]
      BY <1>3, <2>3
    <3> QED
      BY <1>1, <1>2, <1>8, <2>1, <2>3, <3>1 DEF RunSlot, JobSlot
  <2>4. CASE s = r /\ q = p
    <3>1. RunSlot(p, r)'
      BY <1>2 DEF RunSlot, Pending
    <3>2. \A x : <<p, x>> \in fired'[r] => x = t \/ <<p, x>> \in fired[r]
      BY <1>3
    <3>3. JobSlot(p, r)'
      BY <1>1, <1>2, <2>1, <2>4, <3>2 DEF JobSlot, Pending, t
    <3> QED
      BY <2>4, <3>1, <3>3
  <2> QED
    BY <2>2, <2>3, <2>4
<1> QED
  BY <1>9, <1>10, <1>11, <1>12 DEF SlotInv

(* Every step keeps the slots: a dispatch takes an occurrence after all    *)
(* those the process has notified, a transaction notifies of one that the  *)
(* process has not, and all other steps only give jobs and runs up.        *)
LEMMA SlotStep == ReminderInv /\ SlotInv /\ [Next]_vars => SlotInv'
<1> SUFFICES ASSUME ReminderInv, SlotInv, [Next]_vars
             PROVE  SlotInv'
  OBVIOUS
<1>0. TypeOK /\ Timing /\ OnceClaimed /\ TypeOK'
  BY TypeStep DEF ReminderInv, ClaimInv
<1>b. job \in [Procs -> [Reminders -> Int \cup {None}]] /\ repeat \in [Reminders -> {"once", "daily"}]
  BY <1>0 DEF TypeOK
<1>c. now <= now'
  BY <1>0, ClockStep
<1>d. ASSUME runner' = runner PROVE \A q \in Procs, s \in Reminders : RunMove(q, s)
  BY <1>d DEF RunMove
<1>e. ASSUME job' = job PROVE \A q \in Procs, s \in Reminders : JobMove(q, s)
  BY <1>e DEF JobMove
<1> USE DEF db, local, history
<1>1. CASE Tick
  <2>1. UNCHANGED <<repeat, due, notes, born, fired, job, runner>>
    BY <1>1 DEF Tick
  <2> QED
    BY <1>0, <1>c, <1>d, <1>e, <2>1, SlotsKept
<1>2. ASSUME NEW p \in Procs, Start(p) \/ Resume(p)
      PROVE  SlotInv'
  <2>1. UNCHANGED <<repeat, due, notes, born, fired, job, runner>>
    BY <1>2 DEF Start, Resume
  <2> QED
    BY <1>0, <1>c, <1>d, <1>e, <2>1, SlotsKept
<1>3. ASSUME NEW p \in Procs, Close(p) \/ Crash(p)
      PROVE  SlotInv'
  <2>1. UNCHANGED <<repeat, due, notes, born, fired>>
    BY <1>3 DEF Close, Crash
  <2>2. \A q \in Procs, s \in Reminders : JobMove(q, s)
    <3>1. job' = [job EXCEPT ![p] = [r \in Reminders |-> None]]
      BY <1>3 DEF Close, Crash
    <3> QED
      BY <1>b, <3>1 DEF JobMove
  <2>3. \A q \in Procs, s \in Reminders : RunMove(q, s)
    BY <1>0, <1>3, <1>d, CrashEnds DEF Close, RunMove, Pending
  <2> QED
    BY <1>0, <1>c, <2>1, <2>2, <2>3, SlotsKept
<1>4. ASSUME NEW p \in Procs, NEW r \in Reminders, CreateRow(p, r)
      PROVE  SlotInv'
  BY <1>0, <1>4, SlotsOfNewRow
<1>5. ASSUME NEW p \in Procs, NEW r \in Reminders,
             CreateJob(p, r) \/ RestoreJob(p, r) \/ CancelJob(p, r) \/ SkipOverlap(p, r)
      PROVE  SlotInv'
  <2>1. UNCHANGED <<repeat, due, notes, born, fired, runner>>
    BY <1>5 DEF CreateJob, RestoreJob, CancelJob, SkipOverlap
  <2>2. \/ job' = [job EXCEPT ![p][r] = FirstRun(r)]
        \/ job' = [job EXCEPT ![p][r] = None]
        \/ job' = [job EXCEPT ![p][r] = NextRun(r)]
    BY <1>5 DEF CreateJob, RestoreJob, CancelJob, SkipOverlap
  <2>3. \A q \in Procs, s \in Reminders : JobMove(q, s)
    BY <1>b, <2>2 DEF JobMove, FirstRun, NextRun
  <2> QED
    BY <1>0, <1>c, <1>d, <2>1, <2>3, SlotsKept
<1>6. ASSUME NEW p \in Procs, NEW r \in Reminders, CancelRow(p, r)
      PROVE  SlotInv'
  <2>1. UNCHANGED <<repeat, due, notes, born, fired, job, runner>>
    BY <1>6 DEF CancelRow
  <2> QED
    BY <1>0, <1>c, <1>d, <1>e, <2>1, SlotsKept
<1>7. ASSUME NEW p \in Procs, NEW r \in Reminders, Dispatch(p, r)
      PROVE  SlotInv'
  <2>1. /\ UNCHANGED <<repeat, due, notes, born, fired>> /\ job' = [job EXCEPT ![p][r] = NextRun(r)]
        /\ runner' = [runner EXCEPT ![p][r] = [pc |-> "queued", slot |-> DueSlot(r)]]
        /\ job[p][r] # None /\ job[p][r] <= now
    BY <1>7 DEF Dispatch, RunDue
  <2>2. \A q \in Procs, s \in Reminders : JobMove(q, s)
    BY <1>b, <2>1 DEF JobMove, NextRun
  <2>3. /\ runner'[p][r].slot = DueSlot(r)
        /\ \A q \in Procs, s \in Reminders : q # p \/ s # r => runner'[q][s] = runner[q][s]
    BY <1>0, <2>1 DEF TypeOK
  <2>4. RunMove(p, r)
    <3>1. CASE repeat[r] = "daily"
      <4>1. job'[p][r] = NextSlot(r)
        BY <1>b, <2>1, <3>1 DEF NextRun
      <4> QED
        BY <2>1, <2>3, <3>1, <4>1 DEF RunMove, DueSlot
    <3>2. CASE repeat[r] = "once"
      <4>1. job[p][r] \in {None, due[r]}
        BY <1>0, <3>2 DEF Timing, OnTime
      <4> QED
        BY <2>1, <2>3, <3>2, <4>1 DEF RunMove, DueSlot
    <3> QED
      BY <1>b, <3>1, <3>2
  <2>5. \A q \in Procs, s \in Reminders : RunMove(q, s)
    BY <2>3, <2>4 DEF RunMove
  <2> QED
    BY <1>0, <1>c, <2>1, <2>2, <2>5, SlotsKept
<1>8. ASSUME NEW p \in Procs, NEW r \in Reminders, RunStep(p, r) \/ RunError(p, r)
      PROVE  SlotInv'
  <2>1. CASE FireCommit(p, r)
    BY <1>0, <2>1, SlotsOfNotification
  <2>2. CASE ~FireCommit(p, r)
    <3>1. /\ UNCHANGED <<repeat, due, job>>
          /\ \A q \in Procs, s \in Reminders : q # p \/ s # r => runner'[q][s] = runner[q][s]
      BY <1>0, <1>8, RunFrame
    <3>2. UNCHANGED <<notes, born, fired>>
      BY <1>8, <2>2 DEF RunStep, RunError, StartRun, Misfire, GetReminder, FireSelect,
         FireLost, AddLearningEvent
    <3>3. RunMove(p, r)
      <4>1. CASE StartRun(p, r)
        <5>1. runner[p][r].pc \in Pending /\ runner' = Goto(p, r, "check")
          BY <4>1 DEF StartRun, Pending
        <5>2. Goto(p, r, "check")[p][r].slot = runner[p][r].slot
          BY <1>0, GotoMoves DEF PCs
        <5> QED
          BY <5>1, <5>2 DEF RunMove
      <4>2. CASE GetReminder(p, r)
        <5>1. /\ runner[p][r].pc \in Pending
              /\ runner' = Goto(p, r, "select") \/ runner' = Return(p, r)
          BY <4>2 DEF GetReminder, Pending
        <5>2. Goto(p, r, "select")[p][r].slot = runner[p][r].slot /\ Return(p, r)[p][r].pc = "idle"
          BY <1>0, GotoMoves, ReturnMoves DEF PCs
        <5> QED
          BY <5>1, <5>2 DEF RunMove, Pending
      <4>3. CASE FireSelect(p, r)
        <5>1. /\ runner[p][r].pc \in Pending
              /\ runner' = Goto(p, r, "commit") \/ runner' = Return(p, r)
          BY <4>3 DEF FireSelect, Pending
        <5>2. Goto(p, r, "commit")[p][r].slot = runner[p][r].slot /\ Return(p, r)[p][r].pc = "idle"
          BY <1>0, GotoMoves, ReturnMoves DEF PCs
        <5> QED
          BY <5>1, <5>2 DEF RunMove, Pending
      <4>4. CASE Misfire(p, r) \/ FireLost(p, r) \/ AddLearningEvent(p, r) \/ RunError(p, r)
        BY <1>0, <4>4, RunTarget DEF RunMove, Pending
      <4> QED
        BY <1>8, <2>2, <4>1, <4>2, <4>3, <4>4 DEF RunStep
    <3>4. \A q \in Procs, s \in Reminders : RunMove(q, s)
      BY <3>1, <3>3 DEF RunMove
    <3> QED
      BY <1>0, <1>c, <1>e, <3>1, <3>2, <3>4, SlotsKept
  <2> QED
    BY <2>1, <2>2
<1>9. ASSUME NEW p \in Procs, NEW r \in Reminders, RestoreOverdue(p, r)
      PROVE  SlotInv'
  <2>1. /\ UNCHANGED <<repeat, due, notes, born, fired, job>> /\ repeat[r] = "once" /\ due[r] <= now
        /\ runner' = [runner EXCEPT ![p][r] = [pc |-> "check", slot |-> due[r]]]
    BY <1>9 DEF RestoreOverdue, Overdue
  <2>2. /\ runner'[p][r].slot = due[r]
        /\ \A q \in Procs, s \in Reminders : q # p \/ s # r => runner'[q][s] = runner[q][s]
    BY <1>0, <2>1 DEF TypeOK
  <2>3. \A q \in Procs, s \in Reminders : RunMove(q, s)
    BY <2>1, <2>2 DEF RunMove
  <2> QED
    BY <1>0, <1>c, <1>e, <2>1, <2>3, SlotsKept
<1>10. CASE UNCHANGED vars
  <2>1. UNCHANGED <<repeat, due, notes, born, fired, job, runner>>
    BY <1>10 DEF vars
  <2> QED
    BY <1>0, <1>c, <1>d, <1>e, <2>1, SlotsKept
<1> QED
  BY <1>1, <1>2, <1>3, <1>4, <1>5, <1>6, <1>7, <1>8, <1>9, <1>10 DEF Next

(* The books of the service, with what makes them inductive. *)
BooksInv == ReminderInv /\ EventAccounting /\ AllKept /\ SlotInv

(* Every step keeps the books. *)
LEMMA BooksStep == BooksInv /\ [Next]_vars => BooksInv'
  BY ReminderStep, EventStep, KeptStep, SlotStep DEF BooksInv, ReminderInv, ClaimInv

(* The books are in order before any process starts. *)
LEMMA BooksInit == Init => BooksInv
<1> SUFFICES ASSUME Init PROVE BooksInv
  OBVIOUS
<1>1. ReminderInv
  BY RemindersAssumption DEF Init, ReminderInv, ClaimInv, TypeOK, OnceClaimed, Unborn, Statuses,
     PCs, Idle, Timing, Known, OnTime
<1>2. EventAccounting
  <2>1. ASSUME NEW r \in Reminders PROVE Cardinality(Logging(r)) = 0
    <3>1. Logging(r) = {}
      BY DEF Init, Idle, Logging
    <3>2. Cardinality({}) = 0
      BY FS_EmptySet
    <3> QED
      BY <3>1, <3>2
  <2>2. \A r \in Reminders : notes[r] = 0 /\ events[r] = 0 /\ lost[r] = 0
    BY DEF Init
  <2>3. \A r \in Reminders : notes[r] = events[r] + lost[r] + Cardinality(Logging(r))
    BY <2>1, <2>2
  <2> QED
    BY <2>3 DEF EventAccounting, Logging
<1>3. AllKept
  BY DEF Init, AllKept, Kept, Idle
<1>4. SlotInv
  <2>1. \A r \in Reminders : fired[r] = {} /\ notes[r] = 0 /\ born[r] = 0 /\ now = 0
    BY DEF Init
  <2>2. \A p \in Procs, r \in Reminders : runner[p][r].pc = "idle" /\ repeat[r] = "once"
    BY DEF Init, Idle
  <2>3. IsFiniteSet({}) /\ Cardinality({}) = 0
    BY FS_EmptySet
  <2>4. \A r \in Reminders : IsFiniteSet(fired[r]) /\ Cardinality(fired[r]) = 0
    BY <2>1, <2>3
  <2> QED
    BY <2>1, <2>2, <2>4 DEF SlotInv, NotEarly, NotTwice, RunSlot, JobSlot, Pending
<1> QED
  BY <1>1, <1>2, <1>3, <1>4 DEF BooksInv

(* No reminder, one-time or daily, is notified before an occurrence of it: *)
(* not by its trigger, not by the restore loop of a starting process, not  *)
(* by a job that was added again after a restart.                          *)
THEOREM NeverEarly == Spec => []NotEarly
<1>1. BooksInv => NotEarly
  BY DEF BooksInv, SlotInv
<1> QED
  BY <1>1, BooksInit, BooksStep, PTL DEF Spec

(* Nothing is notified early or more than once per process and occurrence, *)
(* every learning event is accounted for, and a scheduled row keeps a way  *)
(* to fire in every process that undertook it.                             *)
THEOREM BooksHold == Spec => []BooksTrue
<1>1. BooksInv => BooksTrue
  <2> SUFFICES ASSUME BooksInv PROVE KeepsJob
    BY DEF BooksInv, BooksTrue, ReminderInv, ClaimInv, SlotInv
  <2> QED
    BY DEF BooksInv, ReminderInv, ClaimInv, AllKept, Kept, KeepsJob, Busy, TypeOK
<1> QED
  BY <1>1, BooksInit, BooksStep, PTL DEF Spec
==============================================================================
