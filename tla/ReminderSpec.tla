----------------------------- MODULE ReminderSpec -----------------------------
(***************************************************************************)
(* What the reminder service promises, with no processes, jobs or crashes: *)
(* a row is created, cancelled, or delivered. A delivery begins by reading *)
(* the row as scheduled and may be abandoned at any time; a one-time row   *)
(* is completed by the delivery that inserts its only notification, never  *)
(* before run_at, and a cancelled row starts no new delivery.              *)
(***************************************************************************)
EXTENDS Naturals

CONSTANTS Procs, Reminders,
          Times  \* the run_at values a request can carry

VARIABLES now, status, repeat, due, notes,
          reading  \* the processes with a delivery of a reminder under way

vars == <<now, status, repeat, due, notes, reading>>

Init ==
    /\ now = 0
    /\ status = [r \in Reminders |-> "absent"]
    /\ repeat = [r \in Reminders |-> "once"]
    /\ due = [r \in Reminders |-> 0]
    /\ notes = [r \in Reminders |-> 0]
    /\ reading = [r \in Reminders |-> {}]

Create(r) ==
    /\ status[r] = "absent"
    /\ status' = [status EXCEPT ![r] = "scheduled"]
    /\ \E kind \in {"once", "daily"}, at \in Times :
          /\ kind = "once" => at > now
          /\ repeat' = [repeat EXCEPT ![r] = kind]
          /\ due' = [due EXCEPT ![r] = at]
    /\ UNCHANGED <<now, notes, reading>>

Cancel(r) ==
    /\ status[r] = "scheduled"
    /\ status' = [status EXCEPT ![r] = "cancelled"]
    /\ UNCHANGED <<now, repeat, due, notes, reading>>

Read(p, r) ==
    /\ status[r] = "scheduled"
    /\ reading' = [reading EXCEPT ![r] = @ \cup {p}]
    /\ UNCHANGED <<now, status, repeat, due, notes>>

Deliver(p, r) ==
    /\ p \in reading[r]
    /\ reading' = [reading EXCEPT ![r] = @ \ {p}]
    /\ notes' = [notes EXCEPT ![r] = @ + 1]
    /\ \/ /\ repeat[r] = "once"
          /\ status[r] = "scheduled"
          /\ due[r] <= now
          /\ status' = [status EXCEPT ![r] = "completed"]
       \/ /\ repeat[r] = "daily"
          /\ UNCHANGED status
    /\ UNCHANGED <<now, repeat, due>>

Abandon(p) ==
    /\ \E S \in SUBSET Reminders :
          reading' = [r \in Reminders |-> IF r \in S THEN reading[r] \ {p} ELSE reading[r]]
    /\ UNCHANGED <<now, status, repeat, due, notes>>

Tick ==
    /\ now' = now + 1
    /\ UNCHANGED <<status, repeat, due, notes, reading>>

Next ==
    \/ Tick
    \/ \E r \in Reminders : Create(r) \/ Cancel(r)
    \/ \E p \in Procs : Abandon(p)
    \/ \E p \in Procs, r \in Reminders : Read(p, r) \/ Deliver(p, r)

Spec == Init /\ [][Next]_vars
==============================================================================
