------------------------------ MODULE Reminders ------------------------------
(***************************************************************************)
(* The reminder service: rows of the SQLite tables reminders and           *)
(* notifications, shared by every process that runs a ReminderService (the *)
(* web application and each stdio MCP server), and in every process an     *)
(* in-memory APScheduler whose worker threads call run_now.                *)
(*                                                                         *)
(* One action is one database transaction or one call on the scheduler, so *)
(* every interleaving of threads and processes between two of them is      *)
(* explored. fire_reminder is two steps: its SELECT runs in autocommit and *)
(* the transaction only opens at the first UPDATE or INSERT.               *)
(***************************************************************************)
EXTENDS Integers, FiniteSets

CONSTANTS
    Procs,      \* processes running a ReminderService on the same database
    WebProcs,   \* those that serve DELETE /reminders/{id}
    Reminders,  \* reminder ids
    None,       \* no job
    DayLength,  \* clock ticks per day, the period of a daily job
    Grace,      \* misfire_grace_time in ticks
    MaxTime     \* bound: the clock stops here

ASSUME RemindersAssumption ==
    /\ WebProcs \subseteq Procs
    /\ IsFiniteSet(Procs)
    /\ None \notin Int
    /\ DayLength \in Nat \ {0}
    /\ Grace \in Nat
    /\ MaxTime \in Nat

VARIABLES
    now,         \* wall clock
    status,      \* reminders.status, "absent" before the INSERT
    repeat,      \* reminders.repeat
    due,         \* reminders.run_at
    notes,       \* number of rows of notifications for a reminder
    events,      \* number of reminder_fired rows of learning_events
    phase,       \* life cycle of a process
    todo,        \* what _restore_jobs has listed and not yet handled
    job,         \* next_run_time of the job of a reminder, or None
    toSchedule,  \* created rows whose add_job has not happened yet
    toRemove,    \* cancelled rows whose remove_job has not happened yet
    runner,      \* the run_now call of a process on a reminder
    born,        \* history: when the row was inserted
    fired,       \* history: <<process, occurrence>> of every notification
    dropped,     \* history: runs a process gave up (misfire, overlap, error)
    owned,       \* history: rows a process undertook to run since its start()
    lost         \* history: notifications whose learning event never comes

db == <<status, repeat, due, notes, events>>
local == <<phase, todo, job, toSchedule, toRemove, runner>>
history == <<born, fired, dropped, owned, lost>>
vars == <<now, db, local, history>>

Statuses == {"absent", "scheduled", "completed", "cancelled"}
PCs == {"idle", "queued", "check", "select", "commit", "event"}
Idle == [pc |-> "idle", slot |-> 0]

TypeOK ==
    /\ now \in Nat
    /\ status \in [Reminders -> Statuses]
    /\ repeat \in [Reminders -> {"once", "daily"}]
    /\ due \in [Reminders -> Nat]
    /\ notes \in [Reminders -> Nat]
    /\ events \in [Reminders -> Nat]
    /\ phase \in [Procs -> {"down", "restoring", "up"}]
    /\ todo \in [Procs -> SUBSET Reminders]
    /\ job \in [Procs -> [Reminders -> Int \cup {None}]]
    /\ toSchedule \in [Procs -> SUBSET Reminders]
    /\ toRemove \in [Procs -> SUBSET Reminders]
    /\ runner \in [Procs -> [Reminders -> [pc : PCs, slot : Int]]]
    /\ born \in [Reminders -> Nat]
    /\ fired \in [Reminders -> SUBSET (Procs \X Int)]
    /\ dropped \in [Procs -> SUBSET Reminders]
    /\ owned \in [Procs -> SUBSET Reminders]
    /\ lost \in [Reminders -> Nat]

Init ==
    /\ now = 0
    /\ status = [r \in Reminders |-> "absent"]
    /\ repeat = [r \in Reminders |-> "once"]
    /\ due = [r \in Reminders |-> 0]
    /\ notes = [r \in Reminders |-> 0]
    /\ events = [r \in Reminders |-> 0]
    /\ phase = [p \in Procs |-> "down"]
    /\ todo = [p \in Procs |-> {}]
    /\ job = [p \in Procs |-> [r \in Reminders |-> None]]
    /\ toSchedule = [p \in Procs |-> {}]
    /\ toRemove = [p \in Procs |-> {}]
    /\ runner = [p \in Procs |-> [r \in Reminders |-> Idle]]
    /\ born = [r \in Reminders |-> 0]
    /\ fired = [r \in Reminders |-> {}]
    /\ dropped = [p \in Procs |-> {}]
    /\ owned = [p \in Procs |-> {}]
    /\ lost = [r \in Reminders |-> 0]

Busy(p) == {r \in Reminders : runner[p][r].pc # "idle"}

(* A run moves to its next transaction, or returns. *)
Goto(p, r, label) == [runner EXCEPT ![p][r] = [pc |-> label, slot |-> runner[p][r].slot]]

Return(p, r) == [runner EXCEPT ![p][r] = Idle]

-----------------------------------------------------------------------------
(* Triggers. A DateTrigger yields run_at, even when it has passed already; *)
(* a CronTrigger keeps only the time of day of run_at.                     *)

LastSlot(r) == now - ((now - due[r]) % DayLength)

NextSlot(r) == LastSlot(r) + DayLength

(* Mutant: a daily row that is added catches up with the occurrence before. *)
FirstRunCatchesUp(r) == IF repeat[r] = "daily" THEN LastSlot(r) ELSE due[r]

FirstRun(r) == IF repeat[r] = "daily" THEN NextSlot(r) ELSE due[r]

Scheduled == {r \in Reminders : status[r] = "scheduled"}

Overdue(r) == repeat[r] = "once" /\ due[r] <= now

-----------------------------------------------------------------------------
(* Requests: create and cancel are a transaction followed by a scheduler   *)
(* call, with other threads free to run between the two.                   *)

CreateRow(p, r) ==
    /\ phase[p] = "up"
    /\ status[r] = "absent"
    /\ \E kind \in {"once", "daily"}, at \in 0..MaxTime :
          /\ kind = "once" => at > now
          /\ repeat' = [repeat EXCEPT ![r] = kind]
          /\ due' = [due EXCEPT ![r] = at]
    /\ status' = [status EXCEPT ![r] = "scheduled"]
    /\ toSchedule' = [toSchedule EXCEPT ![p] = @ \cup {r}]
    /\ owned' = [owned EXCEPT ![p] = @ \cup {r}]
    /\ born' = [born EXCEPT ![r] = now]
    /\ UNCHANGED <<now, notes, events, phase, todo, job, toRemove, runner, fired, dropped, lost>>

CreateJob(p, r) ==
    /\ r \in toSchedule[p]
    /\ toSchedule' = [toSchedule EXCEPT ![p] = @ \ {r}]
    /\ job' = [job EXCEPT ![p][r] = FirstRun(r)]
    /\ UNCHANGED <<now, db, phase, todo, toRemove, runner, history>>

CancelRow(p, r) ==
    /\ p \in WebProcs
    /\ phase[p] = "up"
    /\ status[r] = "scheduled"
    /\ status' = [status EXCEPT ![r] = "cancelled"]
    /\ toRemove' = [toRemove EXCEPT ![p] = @ \cup {r}]
    /\ UNCHANGED <<now, repeat, due, notes, events, phase, todo, job, toSchedule, runner, history>>

CancelJob(p, r) ==
    /\ r \in toRemove[p]
    /\ toRemove' = [toRemove EXCEPT ![p] = @ \ {r}]
    /\ job' = [job EXCEPT ![p][r] = None]
    /\ UNCHANGED <<now, db, phase, todo, toSchedule, runner, history>>

-----------------------------------------------------------------------------
(* The scheduler thread: submit a due job to the pool and compute its next *)
(* run; a one-time job leaves the store as it is submitted. Missed runs of *)
(* a daily job coalesce into the last one. max_instances is 1, so a run    *)
(* that would overlap the previous one is skipped.                         *)

RunDue(p, r) == phase[p] = "up" /\ job[p][r] # None /\ job[p][r] <= now

NextRun(r) == IF repeat[r] = "daily" THEN NextSlot(r) ELSE None

DueSlot(r) == IF repeat[r] = "daily" THEN LastSlot(r) ELSE due[r]

Dispatch(p, r) ==
    /\ RunDue(p, r)
    /\ r \notin Busy(p)
    /\ job' = [job EXCEPT ![p][r] = NextRun(r)]
    /\ runner' = [runner EXCEPT ![p][r] = [pc |-> "queued", slot |-> DueSlot(r)]]
    /\ UNCHANGED <<now, db, phase, todo, toSchedule, toRemove, history>>

SkipOverlap(p, r) ==
    /\ RunDue(p, r)
    /\ r \in Busy(p)
    /\ job' = [job EXCEPT ![p][r] = NextRun(r)]
    /\ dropped' = [dropped EXCEPT ![p] = @ \cup {r}]
    /\ UNCHANGED <<now, db, phase, todo, toSchedule, toRemove, runner, born, fired, owned, lost>>

(* A pool thread picks the run up, and gives it up if it comes too late. *)
StartRun(p, r) ==
    /\ runner[p][r].pc = "queued"
    /\ now - runner[p][r].slot <= Grace
    /\ runner' = Goto(p, r, "check")
    /\ UNCHANGED <<now, db, phase, todo, job, toSchedule, toRemove, history>>

Misfire(p, r) ==
    /\ runner[p][r].pc = "queued"
    /\ now - runner[p][r].slot > Grace
    /\ runner' = Return(p, r)
    /\ dropped' = [dropped EXCEPT ![p] = @ \cup {r}]
    /\ UNCHANGED <<now, db, phase, todo, job, toSchedule, toRemove, born, fired, owned, lost>>

-----------------------------------------------------------------------------
(* run_now, one step per transaction.                                      *)

GetReminder(p, r) ==
    /\ runner[p][r].pc = "check"
    /\ runner' = IF status[r] = "scheduled" THEN Goto(p, r, "select") ELSE Return(p, r)
    /\ UNCHANGED <<now, db, phase, todo, job, toSchedule, toRemove, history>>

(* Mutant: the SELECT of fire_reminder without its status condition. *)
FireSelectAnyStatus(p, r) ==
    /\ runner[p][r].pc = "select"
    /\ runner' = Goto(p, r, "commit")
    /\ UNCHANGED <<now, db, phase, todo, job, toSchedule, toRemove, history>>

FireSelect(p, r) ==
    /\ runner[p][r].pc = "select"
    /\ runner' = IF status[r] = "scheduled" THEN Goto(p, r, "commit") ELSE Return(p, r)
    /\ UNCHANGED <<now, db, phase, todo, job, toSchedule, toRemove, history>>

(* Mutant: the rowcount of the claiming UPDATE is ignored. *)
ClaimedUnchecked(r) == TRUE

(* The transaction of fire_reminder. A one-time reminder is claimed by an   *)
(* UPDATE guarded by its status and the notification is inserted only if   *)
(* the claim changed a row; a daily one is inserted without a new check.   *)
Claimed(r) == repeat[r] = "daily" \/ status[r] = "scheduled"

FireCommit(p, r) ==
    /\ runner[p][r].pc = "commit"
    /\ Claimed(r)
    /\ notes' = [notes EXCEPT ![r] = @ + 1]
    /\ status' = [status EXCEPT ![r] = IF repeat[r] = "once" THEN "completed" ELSE @]
    /\ runner' = Goto(p, r, "event")
    /\ fired' = [fired EXCEPT ![r] = @ \cup {<<p, runner[p][r].slot>>}]
    /\ UNCHANGED <<now, repeat, due, events, phase, todo, job, toSchedule, toRemove, born, dropped, owned, lost>>

FireLost(p, r) ==
    /\ runner[p][r].pc = "commit"
    /\ ~Claimed(r)
    /\ runner' = Return(p, r)
    /\ UNCHANGED <<now, db, phase, todo, job, toSchedule, toRemove, history>>

AddLearningEvent(p, r) ==
    /\ runner[p][r].pc = "event"
    /\ events' = [events EXCEPT ![r] = @ + 1]
    /\ runner' = Return(p, r)
    /\ UNCHANGED <<now, status, repeat, due, notes, phase, todo, job, toSchedule, toRemove, history>>

-----------------------------------------------------------------------------
(* Process life cycle.                                                     *)

(* start(): the scheduler is paused while _restore_jobs walks the rows. *)
Start(p) ==
    /\ phase[p] = "down"
    /\ Busy(p) = {}
    /\ phase' = [phase EXCEPT ![p] = "restoring"]
    /\ todo' = [todo EXCEPT ![p] = Scheduled]
    /\ owned' = [owned EXCEPT ![p] = Scheduled]
    /\ dropped' = [dropped EXCEPT ![p] = {}]
    /\ UNCHANGED <<now, db, job, toSchedule, toRemove, runner, born, fired, lost>>

RestoreJob(p, r) ==
    /\ phase[p] = "restoring"
    /\ r \in todo[p]
    /\ Busy(p) = {}
    /\ ~Overdue(r)
    /\ todo' = [todo EXCEPT ![p] = @ \ {r}]
    /\ job' = [job EXCEPT ![p][r] = FirstRun(r)]
    /\ UNCHANGED <<now, db, phase, toSchedule, toRemove, runner, history>>

(* Mutant: the restore loop passes over a one-time row that is overdue. *)
RestoreOverdueSkipped(p, r) ==
    /\ phase[p] = "restoring"
    /\ r \in todo[p]
    /\ Busy(p) = {}
    /\ Overdue(r)
    /\ todo' = [todo EXCEPT ![p] = @ \ {r}]
    /\ UNCHANGED <<now, db, phase, job, toSchedule, toRemove, runner, history>>

(* run_now is called in line: the next row waits until it has returned. *)
RestoreOverdue(p, r) ==
    /\ phase[p] = "restoring"
    /\ r \in todo[p]
    /\ Busy(p) = {}
    /\ Overdue(r)
    /\ todo' = [todo EXCEPT ![p] = @ \ {r}]
    /\ runner' = [runner EXCEPT ![p][r] = [pc |-> "check", slot |-> due[r]]]
    /\ UNCHANGED <<now, db, phase, job, toSchedule, toRemove, history>>

Resume(p) ==
    /\ phase[p] = "restoring"
    /\ todo[p] = {}
    /\ Busy(p) = {}
    /\ phase' = [phase EXCEPT ![p] = "up"]
    /\ UNCHANGED <<now, db, todo, job, toSchedule, toRemove, runner, history>>

(* close() after the last request: the job store goes, runs already taken  *)
(* by a pool thread finish before the process exits.                       *)
Close(p) ==
    /\ phase[p] = "up"
    /\ toSchedule[p] = {}
    /\ toRemove[p] = {}
    /\ phase' = [phase EXCEPT ![p] = "down"]
    /\ job' = [job EXCEPT ![p] = [r \in Reminders |-> None]]
    /\ owned' = [owned EXCEPT ![p] = {}]
    /\ UNCHANGED <<now, db, todo, toSchedule, toRemove, runner, born, fired, dropped, lost>>

(* The process dies, or start() raises, which ends it: what it held in     *)
(* memory is gone, and so is the learning event of a run that has already  *)
(* committed its notification.                                             *)
Crash(p) ==
    /\ phase[p] # "down" \/ Busy(p) # {}
    /\ phase' = [phase EXCEPT ![p] = "down"]
    /\ todo' = [todo EXCEPT ![p] = {}]
    /\ job' = [job EXCEPT ![p] = [r \in Reminders |-> None]]
    /\ toSchedule' = [toSchedule EXCEPT ![p] = {}]
    /\ toRemove' = [toRemove EXCEPT ![p] = {}]
    /\ runner' = [runner EXCEPT ![p] = [r \in Reminders |-> Idle]]
    /\ lost' = [r \in Reminders |-> lost[r] + IF runner[p][r].pc = "event" THEN 1 ELSE 0]
    /\ owned' = [owned EXCEPT ![p] = {}]
    /\ UNCHANGED <<now, db, born, fired, dropped>>

(* A transaction of run_now fails (database is locked): it is rolled back. *)
(* In a pool thread APScheduler logs the error and the run is over (inside *)
(* start() the exception ends the process: Crash).                         *)
RunError(p, r) ==
    /\ runner[p][r].pc \in {"check", "select", "commit", "event"}
    /\ phase[p] # "restoring"
    /\ runner' = Return(p, r)
    /\ dropped' = [dropped EXCEPT ![p] = @ \cup {r}]
    /\ lost' = [lost EXCEPT ![r] = IF runner[p][r].pc = "event" THEN @ + 1 ELSE @]
    /\ UNCHANGED <<now, db, phase, todo, job, toSchedule, toRemove, born, fired, owned>>

Tick ==
    /\ now < MaxTime
    /\ now' = now + 1
    /\ UNCHANGED <<db, local, history>>

RunStep(p, r) ==
    \/ StartRun(p, r)
    \/ Misfire(p, r)
    \/ GetReminder(p, r)
    \/ FireSelect(p, r)
    \/ FireCommit(p, r)
    \/ FireLost(p, r)
    \/ AddLearningEvent(p, r)

Next ==
    \/ Tick
    \/ \E p \in Procs : Start(p) \/ Resume(p) \/ Close(p) \/ Crash(p)
    \/ \E p \in Procs, r \in Reminders :
          \/ CreateRow(p, r) \/ CreateJob(p, r)
          \/ CancelRow(p, r) \/ CancelJob(p, r)
          \/ Dispatch(p, r) \/ SkipOverlap(p, r)
          \/ RunStep(p, r) \/ RunError(p, r)
          \/ RestoreJob(p, r) \/ RestoreOverdue(p, r)

Spec == Init /\ [][Next]_vars

(* Threads of a live process keep running and the clock advances; nothing  *)
(* obliges anyone to start a process, to create or to cancel.              *)
Fairness ==
    /\ WF_vars(Tick)
    /\ \A p \in Procs : WF_vars(Resume(p))
    /\ \A p \in Procs, r \in Reminders :
          /\ WF_vars(CreateJob(p, r))
          /\ WF_vars(RestoreJob(p, r) \/ RestoreOverdue(p, r))
          /\ WF_vars(Dispatch(p, r) \/ SkipOverlap(p, r))
          /\ WF_vars(RunStep(p, r))

FairSpec == Spec /\ Fairness

-----------------------------------------------------------------------------
(* Properties.                                                             *)

(* A one-time reminder has exactly one notification once it is completed   *)
(* and none before, after a cancellation included, however many processes  *)
(* hold a job for it and wherever they crash: the guarded UPDATE of        *)
(* fire_reminder is the only way in. A daily reminder is never completed,  *)
(* and an id that was never inserted is never notified.                    *)
OnceClaimed ==
    \A r \in Reminders :
       /\ repeat[r] = "once" => notes[r] = IF status[r] = "completed" THEN 1 ELSE 0
       /\ status[r] = "completed" => repeat[r] = "once"
       /\ status[r] = "absent" => notes[r] = 0

(* What a row promises: a one-time row the moment run_at, a daily row the  *)
(* moments after its insertion that have the time of day of run_at, whose  *)
(* date the cron trigger ignores.                                          *)
Occurrences(r) ==
    {t \in 0..now : IF repeat[r] = "daily" THEN t > born[r] /\ t % DayLength = due[r] % DayLength
                                          ELSE t = due[r]}

(* Every notification is one of an occurrence that has come: neither path  *)
(* to run_now (the trigger, the restore loop) notifies a one-time row      *)
(* before its run_at or a daily row for a moment it does not promise.      *)
NotEarly == \A r \in Reminders : fired[r] \subseteq Procs \X Occurrences(r)

(* No process notifies twice for an occurrence: restarts, restored jobs    *)
(* and coalesced runs never repeat one. Two processes may each notify of   *)
(* an occurrence of a daily row.                                           *)
NotTwice == \A r \in Reminders : notes[r] = Cardinality(fired[r])

(* Every notification has its reminder_fired learning event, unless the    *)
(* run is between the two transactions of run_now or died there.           *)
EventAccounting ==
    \A r \in Reminders :
       notes[r] = events[r] + lost[r]
                     + Cardinality({p \in Procs : runner[p][r].pc = "event"})

(* A row a process restored or created, and that is still scheduled, keeps *)
(* a way to fire in that process, unless the process gave a run up.        *)
KeepsJob ==
    \A p \in Procs : \A r \in owned[p] :
       status[r] = "scheduled" =>
          \/ r \in todo[p] \cup toSchedule[p] \cup dropped[p] \cup Busy(p)
          \/ job[p][r] # None

(* The books of the service are true: no row, one-time or daily, is        *)
(* notified before an occurrence of it or twice for an occurrence by one   *)
(* process, every event is accounted for, and a   *)
(* scheduled row keeps a way to fire in the processes that undertook it.   *)
BooksTrue == TypeOK /\ NotEarly /\ NotTwice /\ EventAccounting /\ KeepsJob

(* After a cancellation the only notifications still to come are those of  *)
(* runs that had already read the row as scheduled, and each comes once:   *)
(* the set of such runs only shrinks, and strictly with every notification.*)
Committers(r) == {p \in Procs : runner[p][r].pc = "commit"}

CancelQuiesces ==
    [][\A r \in Reminders : status[r] = "cancelled" =>
          /\ Committers(r)' \subseteq Committers(r)
          /\ notes'[r] # notes[r] => Committers(r)' # Committers(r)]_vars

(* A one-time reminder that a process undertook to run is eventually       *)
(* completed or cancelled, unless that process stops or gives a run up.    *)
Settles ==
    \A p \in Procs, r \in Reminders :
       (r \in owned[p] /\ repeat[r] = "once" /\ status[r] = "scheduled")
          ~> (status[r] # "scheduled" \/ r \notin owned[p] \/ r \in dropped[p])

-----------------------------------------------------------------------------
(* The service implements the abstract reminder: a delivery is under way   *)
(* in the processes that are between the SELECT and the transaction of     *)
(* fire_reminder.                                                          *)

Abstract == INSTANCE ReminderSpec WITH
    Times <- 0..MaxTime,
    reading <- [r \in Reminders |-> Committers(r)]

(* Every behaviour of processes, jobs, threads and crashes is, on the      *)
(* tables the user sees, a behaviour of ReminderSpec.                      *)
ImplementsReminderSpec == Abstract!Spec
==============================================================================
