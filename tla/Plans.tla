------------------------------- MODULE Plans -------------------------------
(***************************************************************************)
(* The learning plans of one user in the database: a plan is saved, which  *)
(* makes it the active one, and a day of the active plan is marked done or *)
(* not done. The graph, the reminders' MCP server and other requests are   *)
(* clients of the same file; a transaction is atomic, and marking a day    *)
(* reads the plan in one and writes it back in another.                    *)
(***************************************************************************)
EXTENDS Naturals, FiniteSets

CONSTANTS
    Clients,    \* threads and processes that use the database
    Days,       \* the days of a plan
    MaxPlans,   \* bound: plans saved
    MaxMarks    \* bound: marks

PlansAssumption == MaxPlans \in Nat /\ MaxMarks \in Nat

VARIABLES
    items,      \* learning_plans.items_json: the days that are done, per plan
    active,     \* the plans with active = 1
    saved,      \* plans saved so far
    client,     \* per client: a mark between its read and its write
    asked,      \* history: the latest answered mark of each day of each plan
    ever,       \* history: days that were marked done, per plan
    overlap,    \* history: two marks were in progress at the same time
    marks       \* bound: marks so far

vars == <<items, active, saved, client, asked, ever, overlap, marks>>

PlanIds == 1..MaxPlans
Idle == [pc |-> "idle", plan |-> 0, read |-> {}, day |-> 0, done |-> FALSE]

Init ==
    /\ items = [p \in PlanIds |-> {}] /\ active = {} /\ saved = 0
    /\ client = [c \in Clients |-> Idle]
    /\ asked = [p \in PlanIds |-> [d \in Days |-> FALSE]]
    /\ ever = [p \in PlanIds |-> {}] /\ overlap = FALSE /\ marks = 0

\* the other plans lose active and the new one is inserted, in one transaction
SavePlan ==
    /\ saved < MaxPlans
    /\ saved' = saved + 1
    /\ active' = {saved + 1}
    /\ UNCHANGED <<items, client, asked, ever, overlap, marks>>

\* get_active_plan; no plan, or no such day, and nothing is written
ReadPlan(c, d, done) ==
    /\ client[c].pc = "idle" /\ marks < MaxMarks
    /\ marks' = marks + 1
    /\ \E p \in active :
          client' = [client EXCEPT ![c] = [pc |-> "write", plan |-> p, read |-> items[p],
                                           day |-> d, done |-> done]]
    /\ overlap' = (overlap \/ \E b \in Clients : client[b].pc = "write")
    /\ UNCHANGED <<items, active, saved, asked, ever>>

Changed(c) == IF client[c].done THEN client[c].read \cup {client[c].day}
              ELSE client[c].read \ {client[c].day}

\* faulty: whatever plan is active by now is written
WritePlanActive(c) ==
    /\ client[c].pc = "write"
    /\ items' = [p \in PlanIds |-> IF p \in active THEN Changed(c) ELSE items[p]]
    /\ asked' = [asked EXCEPT ![client[c].plan][client[c].day] = client[c].done]
    /\ ever' = [ever EXCEPT ![client[c].plan] = IF client[c].done THEN @ \cup {client[c].day} ELSE @]
    /\ client' = [client EXCEPT ![c] = Idle]
    /\ UNCHANGED <<active, saved, overlap, marks>>

\* UPDATE learning_plans SET items_json ... WHERE id
WritePlan(c) ==
    /\ client[c].pc = "write"
    /\ items' = [items EXCEPT ![client[c].plan] = Changed(c)]
    /\ asked' = [asked EXCEPT ![client[c].plan][client[c].day] = client[c].done]
    /\ ever' = [ever EXCEPT ![client[c].plan] = IF client[c].done THEN @ \cup {client[c].day} ELSE @]
    /\ client' = [client EXCEPT ![c] = Idle]
    /\ UNCHANGED <<active, saved, overlap, marks>>

\* the process ends between the two
Die(c) ==
    /\ client[c].pc = "write"
    /\ client' = [client EXCEPT ![c] = Idle]
    /\ UNCHANGED <<items, active, saved, asked, ever, overlap, marks>>

Next == \/ SavePlan
        \/ \E c \in Clients : \/ \E d \in Days, b \in BOOLEAN : ReadPlan(c, d, b)
                              \/ WritePlan(c) \/ Die(c)
Spec == Init /\ [][Next]_vars

---------------------------------------------------------------------------
\* Types of the tables; a user has at most one active plan.
TypeOK ==
    /\ items \in [PlanIds -> SUBSET Days] /\ saved \in 0..MaxPlans
    /\ active \subseteq 1..saved /\ Cardinality(active) <= 1
    /\ \A c \in Clients : client[c].plan \in 0..saved /\ client[c].read \subseteq Days
    /\ asked \in [PlanIds -> [Days -> BOOLEAN]]
    /\ ever \in [PlanIds -> SUBSET Days] /\ overlap \in BOOLEAN /\ marks \in 0..MaxMarks

\* A day is done only if somebody marked that day of that plan, however marks
\* and new plans interleave: a mark read from one plan never lands in the plan
\* that has replaced it.
OnlyMarked == \A p \in PlanIds : items[p] \subseteq ever[p]

\* "已将第 N 天标记为完成": an answered mark holds until the day is marked again.
MarkHolds == \A p \in PlanIds : items[p] = {d \in Days : asked[p][d]}

\* The same, as long as no two marks overlap.
MarkHoldsAlone == overlap \/ MarkHolds
=============================================================================
