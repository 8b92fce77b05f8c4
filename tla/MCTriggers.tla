----------------------------- MODULE MCTriggers -----------------------------
(* Turns that other programs ask of a BotMux daemon: two requests under one  *)
(* idempotency key, and the batches of a meeting. They share no state, so a  *)
(* property of one holds in every interleaving of both if it holds while the *)
(* other rests: `source` is the one that moves. Safety of the meeting is     *)
(* checked by MCMeeting, its progress here.                                  *)
EXTENDS MCMeeting

CONSTANTS
    Requests, Payloads, Shared, MaxBoot, MaxUp, MaxFaults, MaxGen, Freezes, MaxSoft, MaxMishaps,
    r1, r2

VARIABLES
    source,
    sent, lease, result, row, boot, phase, active, live, gen, mem, stamp, fault, closing,
    deferred, frozen, req, answer, ranOn, captured, quar, unproven, used

T == INSTANCE Triggers

ASSUME SourcesAssumption == T!TriggersAssumption

\* The same payload twice, and two payloads under one key.
SamePayload == [r \in Requests |-> 1]
MCPayloads == {SamePayload, [r \in Requests |-> IF r = r1 THEN 1 ELSE 2]}

\* One request at a time, the final marker only, two automatic dispatches, one
\* restart of the receiver.
MCScopes == {[items |-> 0, batch |-> 1, attempts |-> 2, tries |-> 3, open |-> 1,
              grants |-> 0, remove |-> FALSE, boots |-> 1, restarts |-> 1]}

keyed == <<sent, lease, result, row, boot, phase, active, live, gen, mem, stamp, fault, closing,
           deferred, frozen, req, answer, ranOn, captured, quar, unproven, used>>
meeting == <<scope, hub, recv, items, hubBoot, ready, waiting, removing, posts, handler, fence,
             worker, up, turns, terms, exits, grants, restarts, ran>>
vars == <<source, keyed, meeting>>

Init ==
    /\ source \in {"key", "meeting"} /\ T!Init /\ M!Init
    /\ source # "key" => sent = [kind |-> "fresh", payload |-> SamePayload]

\* Bound: what goes wrong with a key altogether, beside deaths. A fair action
\* whose write may fail may also succeed, so the bound disables none of them.
FewMishaps == used.faults + used.soft + used.freezes <= MaxMishaps

Next ==
    \/ source = "key" /\ T!Next /\ FewMishaps' /\ UNCHANGED <<source, meeting>>
    \/ source = "meeting" /\ M!Next /\ UNCHANGED <<source, keyed>>

\* Each has the fairness its own module states, which asks for nothing before
\* the first request: it is empty for the one that rests.
FairSpec == Init /\ [][Next]_vars /\ T!Fairness /\ M!Fairness

-----------------------------------------------------------------------------

\* A keyed input reaches a CLI at most once, callers are sent to poll only for
\* one that did, and a captured output stays reported.
TriggerOnce == T!TypeOK /\ T!AtMostOnce /\ T!QueuedWasDispatched /\ T!CapturedStaysCompleted

\* A keyed turn a caller was told has failed does not start afterwards.
FailedStaysFailed == T!NotStartedAfterFailed

\* Whatever a caller was told, its polls end with an outcome.
AnswersSettle == T!AnswersSettle

\* A frozen batch of a meeting does not hold its stream for ever.
HeadSettles == M!HeadSettles
=============================================================================
