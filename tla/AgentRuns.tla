------------------------------ MODULE AgentRuns ------------------------------
(***************************************************************************)
(* Turns of one conversation thread: AgentService.run and .resume drive    *)
(* the graph from the thread's latest checkpoint, the web page sends       *)
(* messages and answers the approval card, and both keep a run id that the *)
(* checkpoint does not know of. A request is one SSE stream; streams on    *)
(* the same thread share nothing but the checkpoints and the database.     *)
(*                                                                         *)
(* The graph is reduced to where it can stop: a chat turn has one node     *)
(* "work", a plan turn goes "work", "approve_plan", "persist_plan"; module *)
(* AgentGraph has the nodes.                                               *)
(***************************************************************************)
EXTENDS Naturals, FiniteSets

CONSTANTS
    MaxRuns,    \* bound: turns of the thread
    Streams,    \* slots for requests in progress at the same time
    MaxFaults   \* bound: requests that raise, lose their client or their process

AgentRunsAssumption == MaxRuns \in Nat /\ MaxFaults \in Nat

VARIABLES
    kind,       \* what each turn asks for: "none", "chat" or "plan"
    status,     \* agent_runs.status
    answer,     \* agent_runs.final_answer: the turn whose answer the row holds, or 0
    replies,    \* assistant messages per run_id
    ckpt,       \* latest checkpoint: the turn it belongs to, the next node, plan_approved
    stream,     \* per slot: where the request is
    card,       \* the turn whose plan the approval card shows, or 0
    pendingRun, \* the page's pendingRun
    stored,     \* how often the plan of each turn was stored
    confirmed,  \* history: turns whose plan the user confirmed on the card
    abandoned,  \* history: runs whose request ended without a last word
    faults      \* history: faults so far

page == <<card, pendingRun, confirmed>>
rows == <<kind, status, answer, replies>>
vars == <<rows, ckpt, stream, page, stored, abandoned, faults>>

Runs == 1..MaxRuns
NextNode == {"work", "approve_plan", "persist_plan", "none"}
Statuses == {"none", "running", "interrupted", "completed", "failed"}
Checkpoint == [run : 0..MaxRuns, next : NextNode, approved : BOOLEAN]

Idle == [pc |-> "idle", label |-> 0, at |-> [run |-> 0, next |-> "none", approved |-> FALSE],
         decision |-> "none"]

TypeOK ==
    /\ kind \in [Runs -> {"none", "chat", "plan"}]
    /\ status \in [Runs -> Statuses]
    /\ answer \in [Runs -> 0..MaxRuns]
    /\ replies \in [Runs -> Nat]
    /\ ckpt \in Checkpoint
    /\ stream \in [Streams -> [pc : {"idle", "input", "resume", "step", "snapshot", "mark"},
                               label : 0..MaxRuns, at : Checkpoint,
                               decision : {"none", "approved", "rejected"}]]
    /\ card \in 0..MaxRuns /\ pendingRun \in 0..MaxRuns
    /\ stored \in [Runs -> Nat]
    /\ confirmed \subseteq Runs /\ abandoned \subseteq Runs
    /\ faults \in Nat

Init ==
    /\ kind = [r \in Runs |-> "none"]
    /\ status = [r \in Runs |-> "none"]
    /\ answer = [r \in Runs |-> 0]
    /\ replies = [r \in Runs |-> 0]
    /\ ckpt = Idle.at
    /\ stream = [s \in Streams |-> Idle]
    /\ card = 0 /\ pendingRun = 0
    /\ stored = [r \in Runs |-> 0]
    /\ confirmed = {} /\ abandoned = {} /\ faults = 0

Fresh(r) == kind[r] = "none" /\ \A q \in Runs : q < r => kind[q] # "none"

-----------------------------------------------------------------------------
(* Requests of the page.                                                   *)

(* send(): the run row and the user's message are written, run_started     *)
(* tells the page the run id. The card of an earlier plan stays on screen. *)
Run(s, r, k) ==
    /\ stream[s].pc = "idle"
    /\ Fresh(r)
    /\ kind' = [kind EXCEPT ![r] = k]
    /\ status' = [status EXCEPT ![r] = "running"]
    /\ stream' = [stream EXCEPT ![s] = [Idle EXCEPT !.pc = "input", !.label = r]]
    /\ pendingRun' = r
    /\ UNCHANGED <<answer, replies, ckpt, card, confirmed, stored, abandoned, faults>>

(* prepare_turn raises, outside the try: the row stays as it is. *)
RunRefused(r, k) ==
    /\ Fresh(r)
    /\ faults < MaxFaults
    /\ faults' = faults + 1
    /\ kind' = [kind EXCEPT ![r] = k]
    /\ status' = [status EXCEPT ![r] = "running"]
    /\ abandoned' = abandoned \cup {r}
    /\ UNCHANGED <<answer, replies, ckpt, stream, page, stored>>

(* resume(approved): the page hides the card and sends the last run id it  *)
(* has seen.                                                               *)
Resume(s, decision) ==
    /\ stream[s].pc = "idle"
    /\ card # 0
    /\ card' = 0
    /\ confirmed' = IF decision = "approved" THEN confirmed \cup {card} ELSE confirmed
    /\ stream' = [stream EXCEPT ![s] = [Idle EXCEPT !.pc = "resume", !.label = pendingRun,
                                                    !.decision = decision]]
    /\ UNCHANGED <<rows, ckpt, pendingRun, stored, abandoned, faults>>

-----------------------------------------------------------------------------
(* The graph, one checkpoint at a time. A stream works on its own copy of  *)
(* the state; what it writes becomes the thread's latest checkpoint.       *)

Write(s, c) ==
    /\ ckpt' = c
    /\ stream' = [stream EXCEPT ![s].pc = IF c.next = "none" THEN "snapshot" ELSE "step",
                                ![s].at = c, ![s].decision = "none"]

(* Mutant: a new input goes on with what is pending on the thread. *)
InputContinues(s) ==
    /\ stream[s].pc = "input"
    /\ Write(s, IF ckpt.next = "none" THEN [run |-> stream[s].label, next |-> "work", approved |-> FALSE] ELSE ckpt)
    /\ UNCHANGED <<rows, page, stored, abandoned, faults>>

(* A new input discards what was pending on the thread. *)
Input(s) ==
    /\ stream[s].pc = "input"
    /\ Write(s, [run |-> stream[s].label, next |-> "work", approved |-> FALSE])
    /\ UNCHANGED <<rows, page, stored, abandoned, faults>>

(* Command(resume=...) goes on from the latest checkpoint, whichever turn  *)
(* it is of. If that turn has ended there is nothing to run.               *)
Load(s) ==
    /\ stream[s].pc = "resume"
    /\ stream' = [stream EXCEPT ![s].pc = IF ckpt.next = "none" THEN "snapshot" ELSE "step",
                                ![s].at = ckpt]
    /\ UNCHANGED <<rows, ckpt, page, stored, abandoned, faults>>

Work(s) ==
    /\ stream[s].pc = "step" /\ stream[s].at.next = "work"
    /\ Write(s, [stream[s].at EXCEPT !.next = IF kind[stream[s].at.run] = "plan" THEN "approve_plan" ELSE "none"])
    /\ UNCHANGED <<rows, page, stored, abandoned, faults>>

(* interrupt() without an answer: the row of the request's run id is       *)
(* marked, its final_answer blanked as by every update_run without one,    *)
(* and the page shows the plan.                                            *)
Interrupt(s) ==
    /\ stream[s].pc = "step" /\ stream[s].at.next = "approve_plan" /\ stream[s].decision = "none"
    /\ status' = [status EXCEPT ![stream[s].label] = "interrupted"]
    /\ answer' = [answer EXCEPT ![stream[s].label] = 0]
    /\ stream' = [stream EXCEPT ![s].pc = "snapshot"]
    /\ card' = stream[s].at.run
    /\ pendingRun' = stream[s].label
    /\ UNCHANGED <<kind, replies, ckpt, stored, confirmed, abandoned, faults>>

Approve(s) ==
    /\ stream[s].pc = "step" /\ stream[s].at.next = "approve_plan" /\ stream[s].decision # "none"
    /\ Write(s, [stream[s].at EXCEPT !.next = "persist_plan", !.approved = stream[s].decision = "approved"])
    /\ UNCHANGED <<rows, page, stored, abandoned, faults>>

Store(r, approved) == [stored EXCEPT ![r] = IF approved THEN @ + 1 ELSE @]

Persist(s) ==
    /\ stream[s].pc = "step" /\ stream[s].at.next = "persist_plan"
    /\ stored' = Store(stream[s].at.run, stream[s].at.approved)
    /\ Write(s, [stream[s].at EXCEPT !.next = "none"])
    /\ UNCHANGED <<rows, page, abandoned, faults>>

-----------------------------------------------------------------------------
(* The end of _stream: get_state reads the thread's latest checkpoint. If  *)
(* it has ended its answer is appended to the conversation, then the run   *)
(* row is updated; otherwise nothing more happens.                         *)

Snapshot(s) ==
    /\ stream[s].pc = "snapshot"
    /\ \/ /\ ckpt.next # "none"
          /\ stream' = [stream EXCEPT ![s] = Idle]
          /\ UNCHANGED replies
       \/ /\ ckpt.next = "none"
          /\ replies' = [replies EXCEPT ![stream[s].label] = @ + 1]
          /\ stream' = [stream EXCEPT ![s].pc = "mark", ![s].at = ckpt]
    /\ UNCHANGED <<kind, status, answer, ckpt, page, stored, abandoned, faults>>

(* Mutant: the row is updated only when the graph has not been resumed. *)
MarkFirstOnly(s) ==
    /\ stream[s].pc = "mark"
    /\ status' = [status EXCEPT ![stream[s].label] = IF @ = "interrupted" THEN "running" ELSE "completed"]
    /\ answer' = [answer EXCEPT ![stream[s].label] = stream[s].at.run]
    /\ stream' = [stream EXCEPT ![s] = Idle]
    /\ UNCHANGED <<kind, replies, ckpt, page, stored, abandoned, faults>>

Mark(s) ==
    /\ stream[s].pc = "mark"
    /\ status' = [status EXCEPT ![stream[s].label] = "completed"]
    /\ answer' = [answer EXCEPT ![stream[s].label] = stream[s].at.run]
    /\ stream' = [stream EXCEPT ![s] = Idle]
    /\ UNCHANGED <<kind, replies, ckpt, page, stored, abandoned, faults>>

(* Something raises inside the try, before or after the plan was stored. *)
Fail(s) ==
    /\ stream[s].pc # "idle"
    /\ faults < MaxFaults
    /\ faults' = faults + 1
    /\ stored' \in {stored} \cup
         IF stream[s].pc = "step" /\ stream[s].at.next = "persist_plan"
         THEN {Store(stream[s].at.run, stream[s].at.approved)} ELSE {}
    /\ status' = [status EXCEPT ![stream[s].label] = "failed"]
    /\ answer' = [answer EXCEPT ![stream[s].label] = 0]
    /\ stream' = [stream EXCEPT ![s] = Idle]
    /\ UNCHANGED <<kind, replies, ckpt, page, abandoned>>

(* The client goes away and the generator is closed, or the process dies:  *)
(* no handler runs.                                                        *)
Disconnect(s) ==
    /\ stream[s].pc # "idle"
    /\ faults < MaxFaults
    /\ faults' = faults + 1
    /\ abandoned' = abandoned \cup {stream[s].label}
    /\ stream' = [stream EXCEPT ![s] = Idle]
    /\ UNCHANGED <<rows, ckpt, page, stored>>

Serve(s) ==
    \/ Input(s) \/ Load(s) \/ Work(s) \/ Interrupt(s) \/ Approve(s) \/ Persist(s)
    \/ Snapshot(s) \/ Mark(s)

Next ==
    \/ \E s \in Streams, r \in Runs, k \in {"chat", "plan"} : Run(s, r, k)
    \/ \E r \in Runs, k \in {"chat", "plan"} : RunRefused(r, k)
    \/ \E s \in Streams, d \in {"approved", "rejected"} : Resume(s, d)
    \/ \E s \in Streams : Serve(s) \/ Fail(s) \/ Disconnect(s)

Spec == Init /\ [][Next]_vars

(* A request in progress is served by its thread; the user is free. *)
Fairness == \A s \in Streams : WF_vars(Serve(s))

-----------------------------------------------------------------------------
(* Properties.                                                             *)

(* README.md:25: a plan is interrupted for confirmation and stored only    *)
(* after the user confirmed it. Whatever is sent while a card is on        *)
(* screen, the plan stored is one whose card the user confirmed.           *)
PlanConfirmed == \A r \in Runs : stored[r] > 0 => r \in confirmed

(* As long as no request breaks down and each ends before the next begins, *)
(* confirming a card stores the plan on that card, however many plans were *)
(* drafted and passed over before it.                                      *)
PlanConfirmedIfUndisturbed == faults = 0 => PlanConfirmed

(* A run row holds the answer of its own turn, unless a request broke down *)
(* between the run_started event and the graph's first checkpoint.         *)
OwnAnswer ==
    faults = 0 => \A r \in Runs : status[r] = "completed" => answer[r] = r

(* A run does not stay "running": it completes, fails or waits for the     *)
(* user, unless its request ended without any handler.                     *)
RunSettles ==
    \A r \in Runs : status[r] = "running" ~> (status[r] # "running" \/ r \in abandoned)
==============================================================================
