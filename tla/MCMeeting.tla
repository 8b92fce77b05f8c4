----------------------------- MODULE MCMeeting -----------------------------
(* The instances of MeetingDelivery that the run checks.  The variables have *)
(* names of their own, for MCTriggers to put the meeting beside the keyed    *)
(* requests: hubBoot is MeetingDelivery's boot, worker its gen, turns its    *)
(* live.                                                                     *)
EXTENDS Naturals, TLC

CONSTANTS Handlers, NoHandler, Scopes

VARIABLES
    scope, hub, recv, items, hubBoot, ready, waiting, removing, posts, handler, fence,
    worker, up, turns, terms, exits, grants, restarts, ran

M == INSTANCE MeetingDelivery WITH boot <- hubBoot, gen <- worker, live <- turns

ASSUME MeetingAssumption == M!DeliveryAssumption

MeetingSpec == M!Spec

\* Two requests open at once, one item and the final marker, two dispatches of
\* each: lost and late requests, dying workers, leases and fences.
Overlap == [items |-> 1, batch |-> 1, attempts |-> 2, tries |-> 2, open |-> 2,
            grants |-> 0, remove |-> FALSE, boots |-> 1, restarts |-> 0]

\* One request at a time; the hub and the receiver each restart once and the
\* member may be removed or retired, with a crash between any two writes.
Owners == [items |-> 1, batch |-> 1, attempts |-> 1, tries |-> 1, open |-> 1,
           grants |-> 0, remove |-> TRUE, boots |-> 2, restarts |-> 1]

\* One request at a time, the final marker only, two automatic dispatches and
\* one by hand, no restart.
Retries == [items |-> 0, batch |-> 1, attempts |-> 2, tries |-> 4, open |-> 1,
            grants |-> 1, remove |-> FALSE, boots |-> 1, restarts |-> 0]

MeetingScopes == {Overlap, Owners, Retries}

\* The open requests are interchangeable.
Interchangeable == Permutations(Handlers)

-----------------------------------------------------------------------------

\* Each item reaches the agent exactly once and in order: the cursors of the
\* two files agree, everything below them was completed by one batch, by the
\* run of its own dispatch, no late request ever conflicts, and a meeting is
\* closed only when all of it was delivered or the member is gone. With one
\* request at a time and no restart, a batch never runs twice at the same time,
\* nor more often than the automatic budget and the operator allow.
ExactlyOnce ==
    /\ M!TypeOK /\ M!CursorsAgree /\ M!DeliveredOnce /\ M!NoConflict
    /\ M!SettledByOwnRun /\ M!ClosedComplete
    /\ M!MaxOpen = 1 /\ M!MaxRestart = 0 => M!OneRun /\ M!BudgetHeld

\* What is settled stays settled, and a replaced boot owns nothing again.
SettledKept == M!SettledForGood /\ M!OwnersOnlyAdvance
=============================================================================
