------------------------------ MODULE MCDaemon ------------------------------
(* Two services of one BotMux daemon: the turn gate and the ask broker. They *)
(* share no state, so a property of one holds in every interleaving of both  *)
(* if it holds while the other rests: `service` is the one that moves.       *)
EXTENDS Naturals, TLC

CONSTANTS
    Handlers, Mutators, Bounded, Nested, Floated, Parent, NoParent,
    Hook, Resumable, Option, MaxSend, MaxFaults, MaxIds,
    h1, h2, m1, m2, m3, m4

VARIABLES
    service,
    count, mutating, active, finished, pending, locked, queue, adm, mut, slot, upg, late, result,
    up, asks, disk, stale, spoiled, hook, card, ids, hookLate, askLate, ticked, accepted, stashed, lost, faults

G == INSTANCE TurnGate
A == INSTANCE AskBroker WITH pending <- asks

ASSUME DaemonAssumption == G!GateAssumption /\ A!AskBrokerAssumption

\* Everything but m4 is started in the first handler; m4 is detached.
MCParent == (m1 :> h1) @@ (m2 :> h1) @@ (m3 :> h1) @@ (m4 :> NoParent)

gate == <<count, mutating, active, finished, pending, locked, queue, adm, mut, slot, upg, late, result>>
broker == <<up, asks, disk, stale, spoiled, hook, card, ids, hookLate, askLate, ticked, accepted, stashed, lost, faults>>
vars == <<service, gate, broker>>

Init == service \in {"gate", "broker"} /\ G!Init /\ A!Init

Next ==
    \/ service = "gate" /\ G!Next /\ UNCHANGED <<service, broker>>
    \/ service = "broker" /\ A!Next /\ UNCHANGED <<service, gate>>

\* Each service has the fairness its own module states, which asks for nothing
\* before the first call: it is empty for the one that rests.
FairSpec == Init /\ [][Next]_vars /\ G!Fairness /\ A!Fairness

-----------------------------------------------------------------------------

\* A mutation's action runs beside no other turn, and the gate's books are
\* true: leases are counted once, it is closed exactly while one mutation drains
\* or runs, and an upgrade slot has one owner.
MutationAlone ==
    G!TypeOK /\ G!MutationAlone /\ G!CountTrue /\ G!GateOwned /\ G!SlotOwned

\* No handler and no mutation waits forever.
EveryCallReturns == G!EveryCallReturns

\* Memory and records agree but where a write failed, a stashed answer and the
\* user's ticks survive restarts unless one finds such a record, and a waiting
\* hook has a card. A hook is told what some user
\* answered; a second answer to one request is only taken when the first may be
\* lost.
AskKept ==
    /\ A!TypeOK /\ A!MemoryDiskAgree /\ A!StashDurable /\ A!TicksKept /\ A!WaitingHasCard
    /\ A!NoInventedAnswer /\ A!AnsweredTwiceOnlyAfterLoss

\* A hook blocked on an open ask returns, whatever dies.
HookReturns == A!HookReturns
=============================================================================
