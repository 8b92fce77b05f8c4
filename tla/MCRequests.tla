----------------------------- MODULE MCRequests -----------------------------
(* Two ways a request reaches an agent: the web page's requests to the      *)
(* service and BotMux's messages through the bridge. They share no state    *)
(* here (the bridge has the part of the service it can see), so a property  *)
(* of one holds in every interleaving of both if it holds while the other   *)
(* rests: `way` is the one that moves.                                      *)
EXTENDS Naturals

CONSTANTS
    Ways,
    MaxRuns, Streams, MaxFaults,
    MaxMsgs, MaxQueue, Kinds, Files, MaxLosses

VARIABLES
    way,
    kind, status, answer, replies, ckpt, stream, card, pendingRun, stored, confirmed,
    abandoned, faults,
    inbox, message, file, turn, finals, pending, uploaded, scheduled, docs, tasks, thread,
    request, plans, approved, said, overtaken, losses, up

A == INSTANCE AgentRuns
B == INSTANCE Bridge WITH kind <- message, ckpt <- thread, stream <- request,
                          stored <- plans, faults <- losses, MaxFaults <- MaxLosses

ASSUME RequestsAssumption == A!AgentRunsAssumption /\ B!BridgeAssumption

page == <<kind, status, answer, replies, ckpt, stream, card, pendingRun, stored, confirmed,
          abandoned, faults>>
bridge == <<inbox, message, file, turn, finals, pending, uploaded, scheduled, docs, tasks,
            thread, request, plans, approved, said, overtaken, losses, up>>
vars == <<way, page, bridge>>

Init == way \in Ways /\ A!Init /\ B!Init

Next ==
    \/ way = "page" /\ A!Next /\ UNCHANGED <<way, bridge>>
    \/ way = "bridge" /\ B!Next /\ UNCHANGED <<way, page>>

\* Each has the fairness its own module states, which asks for nothing before
\* the first request: it is empty for the one that rests.
FairSpec == Init /\ [][Next]_vars /\ A!Fairness /\ B!Fairness

-----------------------------------------------------------------------------

\* Requests one at a time and none of them broken: the plan that is stored is
\* the one whose card was confirmed, and a run row holds its own answer.
TurnsKeptApart == A!TypeOK /\ A!PlanConfirmedIfUndisturbed /\ A!OwnAnswer

\* A plan is stored only after the user confirmed it on its card, also when
\* requests of one thread overlap.
PlanConfirmed == A!PlanConfirmed

\* A run does not stay "running" unless its request ended without a handler.
RunSettles == A!RunSettles

\* What the bridge remembers is true: its pending decision belongs to the
\* thread's current run, its plans were approved, its file claims no upload and
\* no task that was not made, and no attachment is indexed twice without a fault.
BridgeTrue ==
    B!TypeOK /\ B!PendingIsCurrent /\ B!StoredOnApproval /\ B!FileTrue /\ B!IndexedOnce

\* Every message the bridge takes ends with a final frame, unless it dies.
EveryMessageAnswered == B!EveryMessageAnswered
=============================================================================
