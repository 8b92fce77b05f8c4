----------------------------- MODULE MCWorkflow -----------------------------
(* A workflow run on several definitions, and beside it the fence of one     *)
(* attempt: Workflow takes from the fence only that a drain ends when the    *)
(* process is gone. They share no variable, so a property of one holds in    *)
(* every interleaving of both if it holds while the other rests: `part` is   *)
(* the one that moves.                                                       *)
EXTENDS Naturals

CONSTANTS
    Dags, Cap, PairBudget, RunBudget, OrphanLimit, MaxRetry, MaxGrant,
    MaxGen, SlowSetup, MaxBlind

VARIABLES
    part,
    j, waits, cards, proc, local, pc, plan, rerun, click, ask, tries, basis, dag,
    fence, worker, sig, pool, gen, up, held, since, sent, drain, journal, blind

\* 1 -> 2 and 1 -> 3, both under a condition; 4 needs one of 2 (gated) and 3
Fork == [n |-> 4, deps |-> <<{}, {1}, {1}, {2, 3}>>, cond |-> {<<1, 2>>, <<1, 3>>},
         rule |-> <<0, 0, 0, 1>>, gated |-> {2}, back |-> <<{}, {}, {}, {}>>, alone |-> FALSE,
         outcome |-> {"ok", "block", "fail"}, crashes |-> 2]

\* 3 (gated) needs one of 1 and 2, both under a condition; 4 needs 2 and 3
Race == [n |-> 4, deps |-> <<{}, {}, {1, 2}, {2, 3}>>, cond |-> {<<1, 3>>, <<2, 3>>},
         rule |-> <<0, 0, 1, 2>>, gated |-> {3}, back |-> <<{}, {}, {}, {}>>, alone |-> FALSE,
         outcome |-> {"ok", "fail"}, crashes |-> 1]

\* 1 (gated) -> 2 and 1 -> 3; 4 needs both; 3 may send the run back to 1
Diamond == [n |-> 4, deps |-> <<{}, {1}, {1}, {2, 3}>>, cond |-> {}, rule |-> <<0, 0, 0, 0>>,
            gated |-> {1}, back |-> <<{}, {}, {1}, {}>>, alone |-> FALSE,
            outcome |-> {"ok", "block", "revisit"}, crashes |-> 0]

\* 1 -> 2 -> 3, driven by a CLI process; 3 may send the run back to 1
Chain == [n |-> 3, deps |-> <<{}, {1}, {2}>>, cond |-> {}, rule |-> <<0, 0, 0>>,
          gated |-> {}, back |-> <<{}, {}, {1}>>, alone |-> TRUE,
          outcome |-> {"ok", "block", "fail", "revisit"}, crashes |-> 1]

RunDags == {Fork, Race, Diamond, Chain}

W == INSTANCE Workflow
F == INSTANCE WorkerFence

ASSUME PartsAssumption == W!WorkflowAssumption /\ F!FenceAssumption

engine == <<j, waits, cards, proc, local, pc, plan, rerun, click, ask, tries, basis, dag>>
attempt == <<fence, worker, sig, pool, gen, up, held, since, sent, drain, journal, blind>>
flow == <<part, engine, attempt>>

FlowInit == part \in {"engine", "attempt"} /\ W!Init /\ F!Init

FlowNext ==
    \/ part = "engine" /\ W!Next /\ UNCHANGED <<part, attempt>>
    \/ part = "attempt" /\ F!Next /\ UNCHANGED <<part, engine>>

\* Neither fairness asks for anything before the run is started, or the attempt
\* claimed, so it is empty for the part that rests.
FlowSpec == FlowInit /\ [][FlowNext]_flow /\ W!Fairness /\ F!Fairness

---------------------------------------------------------------------------
\* No worker is lost sight of: none outlives a run boundary or the record of
\* its close, no node has two, and the driver never gets stuck. The fence of an
\* attempt tells the truth about its worker over any number of daemons: a proof
\* of its close means it is gone, a living one has a fence.
WorkersAccounted ==
    /\ W!TypeOK /\ W!BoundaryQuiet /\ W!NoFalseClose /\ W!OneWorker /\ W!NeverThrows
    /\ F!TypeOK /\ F!ProofMeansGone /\ F!TombstoneTrue /\ F!NoUnfencedWorker

\* What a node worked on is what holds: results come from the present
\* instances of the sources, gated work from an approval of its own instance,
\* and a skip from results that leave no other choice.
ResultsJustified == W!FreshInputs /\ W!GateRespected /\ W!SkipJustified

\* A superseded instance and a cancelled run change no more, and no attempt
\* number is given out twice.
HistoryKept == W!FrozenStays /\ W!AttemptsFresh

\* A started run ends, or stops at a human; a cancellation is carried out, and
\* a decision taken on a card reaches the journal.
RunMoves == W!CancelConverges /\ W!RunSettles /\ W!DecisionLands

\* Every dispatched attempt gets its close proof, whatever dies.
AttemptSettles == F!AttemptSettles
=============================================================================
