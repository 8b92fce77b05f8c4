------------------------------ MODULE Workflow ------------------------------
(***************************************************************************)
(* A BotMux v3 workflow run: the journal and what it folds to, the pure    *)
(* scheduler, and the driver loop that dispatches workers, cancels, drains *)
(* and settles them, with the operators who approve gates, retry blocked   *)
(* nodes and cancel the run, and the death of the driving process.         *)
(*                                                                         *)
(* The journal is represented by its folds (materialize, the ledger of     *)
(* open attempts, the attempt numbers): the record j. Every operator below *)
(* that takes s and returns a record is the effect of appending one event. *)
(* The driver is one JavaScript thread: unless Free it runs              *)
(* without awaiting, and only another process or its death can interfere.  *)
(* Nodes are goal nodes; gates suspend the run. The definition of the run  *)
(* is chosen at the start and never changes.                               *)
(***************************************************************************)
EXTENDS Naturals, Sequences, FiniteSetsExt

CONSTANTS
    Dags,         \* workflow definitions a run may have, as records
    Cap,          \* globalCap
    PairBudget,   \* DEFAULT_REVISIT_BUDGET_PER_PAIR
    RunBudget,    \* DEFAULT_REVISIT_BUDGET_PER_RUN
    OrphanLimit,  \* automatic requeues of an orphan (2 in the code)
    MaxRetry, MaxGrant   \* bounds on the operators

VARIABLES
    dag,      \* the definition of the run
    j,        \* the folds of the journal
    waits,    \* wait files: <<node, instance>> -> pending, approved, rejected
    cards,    \* gates whose approval card was posted
    proc,     \* attempts whose worker process lives
    local,    \* in-memory promise of an attempt: its abort reason and phase
    pc,       \* where the driver is
    plan,     \* what is left to do in this tick, or this drain
    rerun,    \* rerunRequested
    click,    \* a gate click between its two writes
    ask,      \* a revisit whose supersede events are being appended
    tries,    \* bound: operators' retries and grants, deaths
    basis     \* history: source instances the current instance was started on

vars == <<j, waits, cards, proc, local, pc, plan, rerun, click, ask, tries, basis, dag>>

(* The definition, fixed for a run: nodes are numbered in topological order. *)

N == dag.n                  \* number of nodes
Deps == dag.deps            \* Deps[n]: sources of node n
Cond == dag.cond            \* edges <<source, target>> with a `when`
Rule == dag.rule            \* Rule[n]: 0 (all of them), or the number of active edges that suffice
Gated == dag.gated          \* nodes with a humanGate
RevisitTo == dag.back       \* RevisitTo[n]: ancestors n may send the run back to
Standalone == dag.alone     \* driven by a CLI process, cancelled from another
Outcome == dag.outcome      \* what a worker may end with
MaxCrash == dag.crashes     \* bound on the deaths of the driving process

Node == 1..N
Pair == {p \in Node \X Node : p[2] \in RevisitTo[p[1]]}

\* a definition the loader accepts
WellFormed(d) ==
    LET nodes == 1..d.n IN
    /\ d.n \in Nat \ {0} /\ d.crashes \in Nat /\ d.alone \in BOOLEAN
    /\ d.deps \in [nodes -> SUBSET nodes] /\ \A n \in nodes : \A m \in d.deps[n] : m < n
    /\ d.cond \subseteq {e \in nodes \X nodes : e[1] \in d.deps[e[2]]}
    /\ \A n \in nodes : d.rule[n] \in 0..Cardinality(d.deps[n])
    /\ d.gated \subseteq nodes /\ d.back \in [nodes -> SUBSET nodes]
    /\ d.outcome \subseteq {"ok", "block", "fail", "revisit"}
    /\ d.alone => d.gated = {}

WorkflowAssumption ==
    /\ \A d \in Dags : WellFormed(d)
    /\ Cap \in Nat \ {0} /\ PairBudget \in Nat /\ RunBudget \in Nat /\ MaxGrant \in Nat

---------------------------------------------------------------------------
(* The state folded from the journal.                                      *)

NewInstance == [st |-> "pending", max |-> 0, res |-> FALSE, orphans |-> 0, why |-> 0]
NoNode == [status |-> "pending", cleared |-> FALSE, eff |-> 0]

Cut(s) == s.run \in {"cancelling", "cancelled"}
Settling == {"done", "failed", "blocked"}
Terminal == Settling \cup {"skipped", "cancelled"}

\* recordInstance: a superseded instance is frozen
RecordInstance(s, n, k, st) ==
    IF s.inst[n][k].st = "superseded" THEN s
    ELSE [s EXCEPT !.inst[n][k].st = st,
                   !.node[n].status = IF s.node[n].eff = k THEN st ELSE @]

Grown(s, n, k) ==
    IF k <= Len(s.inst[n]) THEN s ELSE [s EXCEPT !.inst[n] = Append(@, NewInstance)]

NodeDispatched(s, n, k, a) ==
    [Grown(s, n, k) EXCEPT !.inst[n][k] = [@ EXCEPT !.st = "running", !.max = a, !.res = FALSE],
                           !.node[n] = [@ EXCEPT !.status = "running", !.eff = k],
                           !.open = @ \cup {<<n, k, a>>}]

\* nodeSucceeded, nodeFailed, nodeBlocked: the verdict is dropped after the cut
\* and for a cancelled instance; the ledger is closed in every case
Settled(s, a, st, why) ==
    LET t == IF Cut(s) \/ s.inst[a[1]][a[2]].st = "cancelled" THEN s
             ELSE [RecordInstance(s, a[1], a[2], st) EXCEPT !.inst[a[1]][a[2]].why = why]
    IN  [t EXCEPT !.open = @ \ {a}]

Drained(s, a, orphan) ==
    LET n == a[1]
        k == a[2]
        t == IF /\ s.run \in {"running", "blocked"}
                /\ s.inst[n][k].max = a[3] /\ s.inst[n][k].st = "running"
             THEN RecordInstance(s, n, k, "pending") ELSE s
    IN  [t EXCEPT !.open = @ \ {a},
                  !.inst[n][k].orphans = IF orphan THEN @ + 1 ELSE @]

\* the reservation of the next attempt number
Reserved(i) == [i EXCEPT !.st = "pending", !.max = @ + 1, !.res = TRUE]

RetryRequested(s, n) ==
    LET k == s.node[n].eff IN
    IF Cut(s) THEN s
    ELSE [s EXCEPT !.node[n].status = "pending",
                   !.inst[n][k] = Reserved(@),
                   !.run = IF @ = "blocked" THEN "running" ELSE @,
                   !.blocked = IF s.run = "blocked" THEN 0 ELSE @]

Superseded(s, n, k) ==
    IF Cut(s) THEN s
    ELSE LET hit == s.run = "blocked" /\ s.blocked = n IN
         [s EXCEPT !.inst[n][k].st = "superseded",
                   !.node[n] = IF @.eff = k THEN NoNode ELSE @,
                   !.run = IF hit THEN "running" ELSE @,
                   !.blocked = IF hit THEN 0 ELSE @]

GateDispatched(s, n, k) ==
    IF <<n, k>> \in s.resolved THEN s
    ELSE [Grown(s, n, k) EXCEPT !.inst[n][k].st = "gateWaiting",
                                !.node[n] = [@ EXCEPT !.status = "gateWaiting", !.eff = k]]

Decision(res) == IF res = "approved" THEN "pending" ELSE "failed"
Decided(nd, res) == [nd EXCEPT !.status = Decision(res), !.cleared = @ \/ res = "approved"]

\* the first resolution of a wait wins
GateResolved(s, n, k, res) ==
    IF Cut(s) \/ <<n, k>> \in s.resolved THEN s
    ELSE LET t == [s EXCEPT !.resolved = @ \cup {<<n, k>>}]
         IN  IF s.node[n].status = "cancelled" THEN t
             ELSE [t EXCEPT !.inst[n][k].st = Decision(res),
                            !.node[n] = IF @.eff = k THEN Decided(@, res) ELSE @]

\* edgeResolved for a set of edges, those in T active
EdgesResolved(s, S, T) ==
    [s EXCEPT !.edges = @ \cup {<<e[1], s.node[e[1]].eff, e[2], e \in T>> : e \in S}]

NodeSkipped(s, n) ==
    IF Cut(s) \/ s.node[n].status \in Terminal THEN s ELSE [s EXCEPT !.node[n].status = "skipped"]

\* latestAttemptIdFor: the last attempt that was dispatched
Latest(s, n, k) == <<n, k, s.inst[n][k].max - (IF s.inst[n][k].res THEN 1 ELSE 0)>>

\* nodeCancelled of an instance (0: the node never had one); for a run cancellation it
\* also closes the latest attempt in the ledger
NodeCancelled(s, n, k, byRun) ==
    LET t == IF byRun /\ k # 0 THEN [s EXCEPT !.open = @ \ {Latest(s, n, k)}] ELSE s
    IN  IF s.node[n].status \in Terminal THEN t
        ELSE IF k # 0 THEN RecordInstance(t, n, k, "cancelled")
        ELSE [t EXCEPT !.node[n].status = "cancelled"]

RunCancelRequested(s) ==
    IF Cut(s) \/ s.run \in {"succeeded", "failed"} THEN s
    ELSE [s EXCEPT !.run = "cancelling", !.blocked = 0]

\* events for several nodes, f[n] being the effect of the one for n: each touches
\* its own node and instances only
Together(s, f) ==
    [s EXCEPT !.node = [n \in DOMAIN @ |-> IF n \in DOMAIN f THEN f[n].node[n] ELSE @[n]],
              !.inst = [n \in DOMAIN @ |-> IF n \in DOMAIN f THEN f[n].inst[n] ELSE @[n]],
              !.open = {a \in @ : \A n \in DOMAIN f : a \in f[n].open},
              !.resolved = @ \cup UNION {f[n].resolved : n \in DOMAIN f}]

\* nodeCancelled for every node of a set
CancelledEach(s, S) == Together(s, [n \in S |-> NodeCancelled(s, n, s.node[n].eff, TRUE)])

---------------------------------------------------------------------------
(* decideNext: the pure scheduler.                                         *)

Status(n) == j.node[n].status
Required(n) == IF Rule[n] = 0 THEN Cardinality(Deps[n]) ELSE Rule[n]
Downstream(n) == {d \in Node : n \in Deps[d]}

\* edgeActivityFor: a verdict belongs to the source's effective instance
Activity(d, n) ==
    LET verdict(v) == <<d, j.node[d].eff, n, v>> \in j.edges IN
    CASE Status(d) = "done" /\ (<<d, n>> \notin Cond \/ verdict(TRUE)) -> "active"
      [] Status(d) = "done" /\ <<d, n>> \in Cond /\ verdict(FALSE) -> "inactive"
      [] Status(d) = "done" /\ <<d, n>> \in Cond /\ ~verdict(TRUE) /\ ~verdict(FALSE)
           -> "unresolved"
      [] Status(d) \in {"skipped", "cancelled"} -> "inactive"
      [] OTHER -> "unsettled"

Among(n, S) == {d \in Deps[n] : Activity(d, n) \in S}
Active(n) == Cardinality(Among(n, {"active"}))
Maybe(n) == Cardinality(Among(n, {"unsettled", "unresolved"}))

Readiness(n) ==
    LET unresolved == Among(n, {"unresolved"}) # {}
        unsettled == Among(n, {"unsettled"}) # {}
    IN  CASE Deps[n] = {} -> "ready"
          [] Deps[n] # {} /\ Rule[n] = 0 /\ unsettled -> "wait"
          [] Deps[n] # {} /\ unresolved /\ (IF Rule[n] = 0 THEN ~unsettled
                                            ELSE Active(n) < Required(n)) -> "resolve"
          [] OTHER -> IF Active(n) >= Required(n) THEN "ready"
                      ELSE IF Active(n) + Maybe(n) >= Required(n) THEN "wait" ELSE "skip"

\* firstUnresolved, in the order of `depends`
EdgeToResolve(n) ==
    <<CHOOSE d \in Among(n, {"unresolved"}) :
          \A c \in Among(n, {"unresolved"}) : d <= c, n>>

SatisfiedWithout(n, d) == Cardinality(Among(n, {"active"}) \ {d}) >= Required(n)
ImpossibleNow(n) == Active(n) + Maybe(n) < Required(n)

FailureRelevant(n) ==
    \/ Downstream(n) = {}
    \/ \E d \in Downstream(n) : Status(d) \notin Terminal /\ ~SatisfiedWithout(d, n)

AcceptableTerminal(n) ==
    \/ Status(n) \in {"done", "skipped", "cancelled"}
    \/ Status(n) \in {"failed", "blocked"} /\ ~FailureRelevant(n)

CanCancelLoser(c, by) ==
    /\ Status(c) \in {"pending", "gateWaiting", "running"}
    /\ \A d \in Downstream(c) \ {by} :
          Status(d) \in Terminal \/ SatisfiedWithout(d, c) \/ ImpossibleNow(d)

Worst(st) == {n \in Node : Status(n) = st /\ FailureRelevant(n)}
First(S) == CHOOSE n \in S : \A m \in S : n <= m
Sinks == {n \in Node : Downstream(n) = {}}

\* The run-level event decideNext asks for: <<status, blocked node>> or <<>>
RunTerminal ==
    CASE Worst("failed") # {} -> <<"failed", 0>>
      [] Worst("failed") = {} /\ Worst("blocked") # {} -> <<"blocked", First(Worst("blocked"))>>
      [] OTHER -> IF \A n \in Node : AcceptableTerminal(n)
                  THEN <<IF \E n \in Sinks : Status(n) = "done" THEN "succeeded" ELSE "failed", 0>>
                  ELSE <<>>

Waiting == {n \in Node : Status(n) = "pending"}
Resolvable == {EdgeToResolve(n) : n \in {m \in Waiting : Readiness(m) = "resolve"}}
Skippable == {n \in Waiting : Readiness(n) = "skip"}
Ready == {n \in Waiting : Readiness(n) = "ready"}
NeedsGate(n) == n \in Gated /\ ~j.node[n].cleared
Losers == {c \in Node : \E n \in Ready : /\ ~NeedsGate(n)
                                         /\ c \in Among(n, {"unsettled"})
                                         /\ CanCancelLoser(c, n)}

InstanceFor(n) == IF j.node[n].eff # 0 THEN j.node[n].eff ELSE Len(j.inst[n]) + 1

\* Faulty variant: the number of the last attempt is used again
NextAttemptReused(n, k) == IF k > Len(j.inst[n]) THEN 1 ELSE j.inst[n][k].max

\* nextAttemptIdFor: a reservation wins over max + 1
NextAttempt(n, k) ==
    IF k > Len(j.inst[n]) THEN 1
    ELSE j.inst[n][k].max + (IF j.inst[n][k].res THEN 0 ELSE 1)

---------------------------------------------------------------------------
(* The driver.                                                             *)

NoPlan == [dispatch |-> {}, losers |-> {}, started |-> FALSE, cancelled |-> FALSE,
           drain |-> {}, orphan |-> FALSE, at |-> <<>>]
NoAsk == [by |-> <<>>, st |-> "none", todo |-> {}]

Thread == click = <<>> /\ ask = NoAsk
Free == Thread /\ pc \notin {"act", "spawn", "wait file", "append", "down"}
InFlight == DOMAIN local
Obsolete == {a \in j.open : j.inst[a[1]][a[2]].st \in {"cancelled", "superseded"}}

\* runtime and journal state an in-memory step of the driver leaves alone
Ext == <<waits, cards, proc, rerun, click, ask, tries, basis, dag>>

\* Aborting a controller has an effect only the first time
Aborted(S, why) ==
    [a \in InFlight |-> IF a \in S /\ local[a].abort = "none"
                        THEN [local[a] EXCEPT !.abort = why] ELSE local[a]]

\* The first branch of the loop: stop the workers, cancel what has none
TickCancelling ==
    /\ pc = "tick" /\ Thread /\ j.run = "cancelling"
    /\ local' = Aborted(InFlight, "run")
    /\ j' = CancelledEach(j, {n \in Node : Status(n) \in {"pending", "gateWaiting"}})
    /\ pc' = IF InFlight # {} THEN "wait" ELSE "drain all"
    /\ UNCHANGED <<plan, Ext>>

\* drainExternallyOwnedAttempts for a cancellation: the process is proved gone
DrainForCancel(a) ==
    /\ pc = "drain all" /\ Thread /\ a \in j.open \ proc
    /\ LET t == Drained(j, a, FALSE) IN
       j' = IF t.inst[a[1]][a[2]].st = "running"
            THEN NodeCancelled(t, a[1], a[2], TRUE) ELSE t
    /\ UNCHANGED <<local, pc, plan, Ext>>

FinalizeCancellation ==
    /\ pc = "drain all" /\ Thread /\ j.open = {}
    /\ j' = [CancelledEach(j, {n \in Node : Status(n) \in {"pending", "gateWaiting", "running"}})
                EXCEPT !.run = "cancelled"]
    /\ pc' = "tick"
    /\ UNCHANGED <<local, plan, Ext>>

\* quiesceAttempts: abort the local ones and wait for them; the others are
\* drained through their fences
Quiesce(S, orphan) ==
    /\ local' = Aborted(S, "drain")
    /\ plan' = [NoPlan EXCEPT !.drain = IF S \cap InFlight # {} THEN S \cap InFlight ELSE S,
                              !.orphan = orphan]
    /\ pc' = IF S \cap InFlight # {} THEN "drain local" ELSE "drain"
    /\ UNCHANGED <<j, Ext>>

\* A boundary is published only without open attempts, so the loop returns (the
\* code's drain of a boundary with open attempts repairs journals of older versions)
TickBoundary ==
    /\ pc = "tick" /\ Thread /\ j.run \in {"succeeded", "failed", "cancelled", "blocked"}
    /\ j.open = {}
    /\ pc' = "ret"
    /\ UNCHANGED <<j, local, plan, Ext>>

TickDrain ==
    /\ pc = "tick" /\ Thread /\ j.run = "running"
    /\ \/ Obsolete # {} /\ Quiesce(Obsolete, FALSE)
       \/ /\ Obsolete = {} /\ j.open \ InFlight # {}
          /\ Quiesce(j.open \ InFlight, TRUE)
       \/ /\ Obsolete = {} /\ j.open \subseteq InFlight
          /\ RunTerminal # <<>> /\ j.open # {}
          /\ Quiesce(j.open, FALSE)

LocalDrained ==
    /\ pc = "drain local" /\ Thread /\ plan.drain \cap InFlight = {}
    /\ pc' = "tick" /\ plan' = NoPlan
    /\ UNCHANGED <<j, local, Ext>>

\* Faulty variant: a drain that does not wait for the proof that the process is gone
DrainExternalBlind(a) ==
    /\ pc = "drain" /\ Thread /\ a \in plan.drain
    /\ j' = IF a \in j.open THEN Drained(j, a, plan.orphan) ELSE j
    /\ plan' = [plan EXCEPT !.drain = @ \ {a}]
    /\ UNCHANGED <<local, pc, Ext>>

\* appendAttemptDrained: the third automatic requeue blocks the node instead
DrainExternal(a) ==
    /\ pc = "drain" /\ Thread /\ a \in plan.drain \ proc
    /\ LET i == j.inst[a[1]][a[2]] IN
       j' = IF a \notin j.open THEN j
            ELSE IF /\ plan.orphan /\ i.orphans >= OrphanLimit /\ j.run = "running"
                    /\ i.st = "running" /\ Latest(j, a[1], a[2]) = a
            THEN Settled(j, a, "blocked", 0)
            ELSE Drained(j, a, plan.orphan)
    /\ plan' = [plan EXCEPT !.drain = @ \ {a}]
    /\ UNCHANGED <<local, pc, Ext>>

\* an attempt that is not proved closed is looked at again in 250 ms
DrainDone ==
    /\ pc = "drain" /\ Thread /\ (plan.drain = {} \/ j.run = "cancelling")
    /\ pc' = "tick" /\ plan' = NoPlan
    /\ UNCHANGED <<j, local, Ext>>

Quiet == pc = "tick" /\ Thread /\ j.run = "running" /\ Obsolete = {} /\ j.open \subseteq InFlight

TickTerminal ==
    /\ Quiet /\ RunTerminal # <<>> /\ j.open = {}
    /\ pc' = "append"
    /\ UNCHANGED <<j, local, plan, Ext>>

\* appendRunTerminalIfQuiescent re-derives the event under the journal lock
AppendTerminal ==
    /\ pc = "append"
    /\ j' = IF j.run = "running" /\ j.open = {} /\ RunTerminal # <<>>
            THEN [j EXCEPT !.run = RunTerminal[1], !.blocked = RunTerminal[2]] ELSE j
    /\ pc' = "tick"
    /\ UNCHANGED <<local, plan, Ext>>

\* The control sweep: verdicts of conditional edges (each its predicate on the
\* source's result) and nodes whose trigger rule cannot be met
TickControl ==
    /\ Quiet /\ RunTerminal = <<>> /\ Resolvable \cup {<<n, n>> : n \in Skippable} # {}
    /\ \E T \in SUBSET Resolvable :
          j' = Together(EdgesResolved(j, Resolvable, T), [n \in Skippable |-> NodeSkipped(j, n)])
    /\ UNCHANGED <<local, pc, plan, Ext>>

TickDispatch ==
    /\ Quiet /\ RunTerminal = <<>> /\ Resolvable = {} /\ Skippable = {}
    /\ plan' = [NoPlan EXCEPT !.dispatch = Ready, !.losers = Losers]
    /\ pc' = "act"
    /\ UNCHANGED <<j, local, Ext>>

\* one dispatch of the tick, in topological order; claimDispatch re-checks that
\* the run still runs and the node still waits
ActDispatch ==
    /\ pc = "act" /\ plan.dispatch # {} /\ Cardinality(InFlight) < Cap
    /\ LET n == First(plan.dispatch)
           k == InstanceFor(n)
           rest == [plan EXCEPT !.dispatch = @ \ {n}]
       IN  \/ /\ j.run # "running" \/ Status(n) # "pending"
              /\ plan' = rest
              /\ UNCHANGED <<j, pc, basis>>
           \/ /\ j.run = "running" /\ Status(n) = "pending" /\ NeedsGate(n)
              /\ j' = GateDispatched(j, n, k)
              /\ plan' = [rest EXCEPT !.started = TRUE, !.at = <<n, k>>]
              /\ pc' = "wait file"
              /\ UNCHANGED basis
           \/ /\ j.run = "running" /\ Status(n) = "pending" /\ ~NeedsGate(n)
              /\ j' = NodeDispatched(j, n, k, NextAttempt(n, k))
              /\ plan' = [rest EXCEPT !.started = TRUE, !.at = <<n, k, NextAttempt(n, k)>>]
              /\ pc' = "spawn"
              /\ basis' = [basis EXCEPT ![n] = [d \in Node |-> IF d \in Among(n, {"active"})
                                                               THEN j.node[d].eff ELSE 0]]
    /\ UNCHANGED <<waits, cards, proc, local, rerun, click, ask, tries, dag>>

ActCapped ==
    /\ pc = "act" /\ plan.dispatch # {} /\ Cardinality(InFlight) >= Cap
    /\ plan' = [plan EXCEPT !.dispatch = {}]
    /\ UNCHANGED <<j, local, pc, Ext>>

WriteWait ==
    /\ pc = "wait file"
    /\ waits' = [waits EXCEPT ![plan.at] = "pending"]
    /\ pc' = "act"
    /\ UNCHANGED <<j, cards, proc, local, plan, rerun, click, ask, tries, basis, dag>>

\* after the claim: the fence is armed and the run looked at once more
Spawn ==
    /\ pc = "spawn"
    /\ IF j.run = "running"
       THEN /\ proc' = proc \cup {plan.at}
            /\ local' = [a \in InFlight \cup {plan.at} |->
                           IF a = plan.at THEN [abort |-> "none", phase |-> "run"] ELSE local[a]]
       ELSE UNCHANGED <<proc, local>>
    /\ pc' = "act"
    /\ UNCHANGED <<j, waits, cards, plan, rerun, click, ask, tries, basis, dag>>

ArmFails ==
    /\ pc = "spawn" /\ "fail" \in Outcome
    /\ j' = Settled(j, plan.at, "failed", 0)
    /\ pc' = "act"
    /\ UNCHANGED <<local, plan, Ext>>

ActLoser ==
    /\ pc = "act" /\ plan.dispatch = {} /\ plan.losers # {}
    /\ LET c == First(plan.losers)
           live == Status(c) \in {"pending", "gateWaiting", "running"}
       IN  /\ j' = IF live THEN NodeCancelled(j, c, j.node[c].eff, FALSE) ELSE j
           /\ local' = IF live THEN Aborted({a \in InFlight : a[1] = c /\ a[2] = j.node[c].eff}, "drain")
                       ELSE local
           /\ plan' = [plan EXCEPT !.losers = @ \ {c}, !.cancelled = @ \/ live]
    /\ UNCHANGED <<pc, Ext>>

\* the end of a tick: again, wait for a worker, suspend at a gate, or give up
ActEnd ==
    /\ pc = "act" /\ plan.dispatch = {} /\ plan.losers = {}
    /\ LET stuck == ~plan.cancelled /\ ~plan.started /\ InFlight = {}
           gates == {<<n, j.node[n].eff>> : n \in {m \in Node : Status(m) = "gateWaiting"}}
       IN  /\ pc' = CASE stuck /\ gates # {} -> "ret"
                      [] stuck /\ gates = {} -> "threw"
                      [] ~plan.cancelled /\ InFlight # {} -> "wait"
                      [] OTHER -> "tick"
           /\ cards' = IF stuck THEN cards \cup gates ELSE cards
    /\ plan' = NoPlan
    /\ UNCHANGED <<j, waits, proc, local, rerun, click, ask, tries, basis, dag>>

\* waitForInFlightOrDurableCancellation polls the journal
SeeCancellation ==
    /\ pc = "wait" /\ Thread /\ j.run = "cancelling"
    /\ \E a \in InFlight : local[a].abort = "none"
    /\ pc' = "tick"
    /\ UNCHANGED <<j, local, plan, Ext>>

\* Faulty variant: a request made during the drive is forgotten
ReturnForgets ==
    /\ pc = "ret" /\ Thread
    /\ pc' = "idle" /\ rerun' = FALSE
    /\ UNCHANGED <<j, waits, cards, proc, local, plan, click, ask, tries, basis, dag>>

\* the drive returns; a cancelled run or a request made meanwhile drives again
Return ==
    /\ pc = "ret" /\ Thread
    /\ pc' = IF rerun \/ j.run = "cancelling" THEN "tick" ELSE "idle"
    /\ rerun' = FALSE
    /\ UNCHANGED <<j, waits, cards, proc, local, plan, click, ask, tries, basis, dag>>

---------------------------------------------------------------------------
(* Workers. A promise settles only once the process has closed.            *)

Forget(a) == local' = [b \in InFlight \ {a} |-> local[b]]
Wake == pc' = IF pc = "wait" THEN "tick" ELSE pc

\* the result of a worker nobody aborted is validated before it counts
WorkerReturns(a, r) ==
    /\ Free /\ a \in InFlight /\ local[a].phase = "run"
    /\ local[a].abort = "none" /\ ~Cut(j)
    /\ r = "revisit" => RevisitTo[a[1]] # {}
    /\ local' = [local EXCEPT ![a].phase = r]
    /\ proc' = proc \ {a}
    /\ UNCHANGED <<j, waits, cards, pc, plan, rerun, click, ask, tries, basis, dag>>

WorkerDrained(a) ==
    /\ Free /\ a \in InFlight /\ local[a].phase = "run"
    /\ local[a].abort # "none" \/ Cut(j)
    /\ LET t == IF a \in j.open THEN Drained(j, a, FALSE) ELSE j IN
       j' = IF local[a].abort = "drain" \/ j.run # "cancelling" \/ t.inst[a[1]][a[2]].st = "cancelled"
            THEN t ELSE NodeCancelled(t, a[1], a[2], TRUE)
    /\ proc' = proc \ {a}
    /\ Forget(a) /\ Wake
    /\ UNCHANGED <<waits, cards, plan, rerun, click, ask, tries, basis, dag>>

Exhausted(p) == j.left[p] = 0 \/ j.leftRun = 0

\* the verdict, appended after the validation whatever happened in between
WorkerSettles(a) ==
    /\ Free /\ a \in InFlight
    /\ \/ \E v \in {<<"ok", "done">>, <<"block", "blocked">>, <<"fail", "failed">>} :
             /\ local[a].phase = v[1]
             /\ j' = Settled(j, a, v[2], 0)
       \/ \E t \in RevisitTo[a[1]] :
             /\ local[a].phase = "revisit" /\ Exhausted(<<a[1], t>>)
             /\ j' = Settled(j, a, "blocked", t)
    /\ Forget(a) /\ Wake
    /\ UNCHANGED <<waits, cards, proc, plan, rerun, click, ask, tries, basis, dag>>

\* affectedNodesFrom: the least set with t that contains what depends on its nodes
Cone(t) ==
    {m \in Node : \A S \in SUBSET Node : t \in S /\ (\A d \in S : Downstream(d) \subseteq S) => m \in S}

\* Faulty variant: only the target and the asking node are refreshed
RevisitRequestedShallow(a, t) ==
    /\ Free /\ a \in InFlight /\ local[a].phase = "revisit"
    /\ t \in RevisitTo[a[1]] /\ ~Exhausted(<<a[1], t>>)
    /\ j' = [j EXCEPT !.left[<<a[1], t>>] = @ - 1, !.leftRun = @ - 1]
    /\ ask' = [by |-> a, st |-> j.inst[a[1]][a[2]].st,
               todo |-> {<<n, j.node[n].eff>> : n \in {a[1], t}}]
    /\ UNCHANGED <<waits, cards, proc, local, pc, plan, rerun, click, tries, basis, dag>>

\* a revisit within its budget: the request is journalled ...
RevisitRequested(a, t) ==
    /\ Free /\ a \in InFlight /\ local[a].phase = "revisit"
    /\ t \in RevisitTo[a[1]] /\ ~Exhausted(<<a[1], t>>)
    /\ j' = [j EXCEPT !.left[<<a[1], t>>] = @ - 1, !.leftRun = @ - 1]
    /\ ask' = [by |-> a, st |-> j.inst[a[1]][a[2]].st,
               todo |-> {<<n, j.node[n].eff>> : n \in {m \in Cone(t) : j.node[m].eff # 0}}]
    /\ UNCHANGED <<waits, cards, proc, local, pc, plan, rerun, click, tries, basis, dag>>

\* ... then the target and its cone are superseded one by one ...
RevisitSupersedes ==
    /\ ask # NoAsk /\ ask.todo # {}
    /\ LET g == CHOOSE x \in ask.todo : \A y \in ask.todo : x[1] <= y[1] IN
       /\ j' = Superseded(j, g[1], g[2])
       /\ local' = Aborted({a \in InFlight : <<a[1], a[2]>> = g}, "drain")
       /\ ask' = [ask EXCEPT !.todo = @ \ {g}]
    /\ UNCHANGED <<waits, cards, proc, pc, plan, rerun, click, tries, basis, dag>>

\* ... and the attempt that asked is closed
RevisitEnds ==
    /\ ask # NoAsk /\ ask.todo = {}
    /\ j' = IF ask.by \in j.open THEN Drained(j, ask.by, FALSE) ELSE j
    /\ ask' = NoAsk
    /\ Forget(ask.by) /\ Wake
    /\ UNCHANGED <<waits, cards, proc, plan, rerun, click, tries, basis, dag>>

\* a worker without its daemon exits, or is signalled by a drain
OrphanExits(a) ==
    /\ a \in proc \ InFlight
    /\ proc' = proc \ {a}
    /\ UNCHANGED <<j, waits, cards, local, pc, plan, rerun, click, ask, tries, basis, dag>>

---------------------------------------------------------------------------
(* Operators, and the death and return of the driving process.             *)

\* driveDetached
Drive ==
    /\ pc' = IF pc \in {"new", "idle", "threw"} THEN "tick" ELSE pc
    /\ rerun' = (pc \notin {"new", "idle", "threw"})

\* the first drive of a run just created
StartRun ==
    /\ pc = "new" /\ Drive
    /\ UNCHANGED <<j, waits, cards, proc, local, plan, click, ask, tries, basis, dag>>

Cancellable == ~Cut(j) /\ j.run \notin {"succeeded", "failed"}

\* requestV3RunCancel in the daemon, then cancelAndDrive
CancelInDaemon ==
    /\ ~Standalone /\ Free /\ Cancellable
    /\ j' = RunCancelRequested(j)
    /\ local' = Aborted(InFlight, "run")
    /\ Drive
    /\ UNCHANGED <<waits, cards, proc, plan, click, ask, tries, basis, dag>>

\* the same request by another process, at any moment
CancelFromCli ==
    /\ Standalone /\ Cancellable
    /\ j' = RunCancelRequested(j)
    /\ UNCHANGED <<local, pc, plan, Ext>>

\* resolveV3GateClick: the wait file first ...
ClickGate(g, res) ==
    /\ Free /\ j.run = "running" /\ g \in cards /\ waits[g] = "pending"
    /\ Status(g[1]) = "gateWaiting" /\ j.node[g[1]].eff = g[2]
    /\ waits' = [waits EXCEPT ![g] = res]
    /\ click' = <<g, res>>
    /\ UNCHANGED <<j, cards, proc, local, pc, plan, rerun, ask, tries, basis, dag>>

\* ... then the journal
ClickAppends ==
    /\ click # <<>>
    /\ j' = GateResolved(j, click[1][1], click[1][2], click[2])
    /\ click' = <<>>
    /\ Drive
    /\ UNCHANGED <<waits, cards, proc, local, plan, ask, tries, basis, dag>>

\* requestV3Retry
Retry(n) ==
    /\ Free /\ Status(n) = "blocked" /\ ~Cut(j) /\ tries.retry < MaxRetry
    /\ j' = RetryRequested(j, n)
    /\ tries' = [tries EXCEPT !.retry = @ + 1]
    /\ Drive
    /\ UNCHANGED <<waits, cards, proc, local, plan, click, ask, basis, dag>>

\* requestRevisitGrant: budget for the pair or for the run, unless a grant
\* interrupted by a death already gave it, and the retry
Granted(n, scope) ==
    LET p == <<n, j.inst[n][j.node[n].eff].why>> IN
    IF ~Exhausted(p) THEN j
    ELSE IF scope = "pair" THEN [j EXCEPT !.left[p] = @ + 1] ELSE [j EXCEPT !.leftRun = @ + 1]

GrantRevisit(n, scope) ==
    /\ Free /\ j.run = "blocked" /\ j.blocked = n
    /\ j.node[n].eff # 0 /\ j.inst[n][j.node[n].eff].why # 0
    /\ tries.grant < MaxGrant
    /\ tries' = [tries EXCEPT !.grant = @ + 1]
    /\ j' = RetryRequested(Granted(n, scope), n)
    /\ Drive
    /\ UNCHANGED <<waits, cards, proc, local, plan, click, ask, basis, dag>>

Die ==
    /\ pc' = "down" /\ local' = <<>> /\ plan' = NoPlan
    /\ rerun' = FALSE /\ click' = <<>> /\ ask' = NoAsk
    /\ UNCHANGED <<waits, cards, proc, basis, dag>>

Crash ==
    /\ pc # "down" /\ tries.crash < MaxCrash
    /\ tries' = [tries EXCEPT !.crash = @ + 1]
    /\ Die /\ UNCHANGED j

CrashInGrant(n, scope) ==
    /\ Free /\ j.run = "blocked" /\ j.blocked = n
    /\ j.node[n].eff # 0 /\ j.inst[n][j.node[n].eff].why # 0
    /\ tries.crash < MaxCrash /\ tries.grant < MaxGrant
    /\ tries' = [tries EXCEPT !.crash = @ + 1, !.grant = @ + 1]
    /\ j' = Granted(n, scope)
    /\ Die

\* coldAttach with reconcileV3PendingGates: lost wait files are written again,
\* resolved ones journalled, and the run is driven if something can move it
ColdAttach ==
    /\ pc = "down"
    /\ LET wait(n) == <<n, j.node[n].eff>>
           waiting == {n \in Node : j.run = "running" /\ Status(n) = "gateWaiting"}
           gates == {wait(n) : n \in waiting}
           healed == {n \in waiting : waits[wait(n)] \in {"approved", "rejected"}}
           resume == \/ j.open # {} \/ j.run = "cancelling" \/ healed # {}
                     \/ /\ j.run = "running" /\ gates = {}
                        /\ \A n \in Node : Status(n) # "running"
       IN  /\ waits' = [g \in DOMAIN waits |->
                          IF g \in gates /\ waits[g] = "none" THEN "pending" ELSE waits[g]]
           /\ j' = Together(j, [n \in healed |-> GateResolved(j, n, j.node[n].eff, waits[wait(n)])])
           /\ cards' = IF resume THEN cards ELSE cards \cup gates
           /\ pc' = IF resume THEN "tick" ELSE "idle"
    /\ UNCHANGED <<proc, local, plan, rerun, click, ask, tries, basis, dag>>

---------------------------------------------------------------------------
MaxInst == IF Pair = {} THEN 1 ELSE 1 + RunBudget + MaxGrant

Init ==
    /\ dag \in Dags
    /\ j = [run |-> "running", blocked |-> 0, node |-> [n \in Node |-> NoNode],
            inst |-> [n \in Node |-> <<>>], open |-> {}, edges |-> {}, resolved |-> {},
            left |-> [p \in Pair |-> PairBudget], leftRun |-> RunBudget]
    /\ waits = [g \in Gated \X (1..MaxInst) |-> "none"]
    /\ cards = {} /\ proc = {} /\ local = <<>>
    /\ pc = "new" /\ plan = NoPlan /\ rerun = FALSE /\ click = <<>> /\ ask = NoAsk
    /\ tries = [retry |-> 0, grant |-> 0, crash |-> 0]
    /\ basis = [n \in Node |-> [d \in Node |-> 0]]

Tick == TickCancelling \/ TickBoundary \/ TickDrain \/ TickTerminal \/ TickControl \/ TickDispatch
Drain == \/ \E a \in j.open : DrainForCancel(a)
         \/ FinalizeCancellation \/ LocalDrained \/ DrainDone \/ \E a \in plan.drain : DrainExternal(a)
Act == \/ ActDispatch \/ ActCapped \/ WriteWait \/ Spawn \/ ArmFails \/ ActLoser \/ ActEnd
       \/ AppendTerminal \/ SeeCancellation \/ Return
Worker == \/ \E a \in InFlight :
                \/ \E r \in Outcome : WorkerReturns(a, r)
                \/ WorkerDrained(a) \/ WorkerSettles(a)
                \/ \E t \in RevisitTo[a[1]] : RevisitRequested(a, t)
          \/ RevisitSupersedes \/ RevisitEnds
          \/ \E a \in proc : OrphanExits(a)
Operator == \/ StartRun \/ CancelInDaemon \/ CancelFromCli \/ ClickAppends
            \/ \E g \in cards, res \in {"approved", "rejected"} : ClickGate(g, res)
            \/ \E n \in Node : Retry(n) \/ \E s \in {"pair", "run"} : GrantRevisit(n, s) \/ CrashInGrant(n, s)
Next == Tick \/ Drain \/ Act \/ Worker \/ Operator \/ Crash \/ ColdAttach

Spec == Init /\ [][Next]_vars

---------------------------------------------------------------------------
Attempt == Node \X (1..MaxInst) \X (Nat \ {0})
NodeStatus == {"pending", "running", "gateWaiting"} \cup Terminal

\* Types of the folded journal and of the driver's memory.
TypeOK ==
    /\ j.run \in {"running", "cancelling", "cancelled", "succeeded", "failed", "blocked"}
    /\ j.blocked \in 0..N
    /\ \A n \in Node :
          /\ j.node[n] \in [status : NodeStatus, cleared : BOOLEAN, eff : 0..Len(j.inst[n])]
          /\ \A k \in DOMAIN j.inst[n] :
                j.inst[n][k] \in [st : NodeStatus \cup {"superseded"}, max : Nat, res : BOOLEAN,
                                  orphans : 0..MaxCrash, why : 0..N]
    /\ j.open \subseteq Attempt /\ proc \subseteq Attempt /\ InFlight \subseteq Attempt
    /\ waits \in [Gated \X (1..MaxInst) -> {"none", "pending", "approved", "rejected"}]
    /\ pc \in {"tick", "wait", "drain all", "drain local", "drain", "append", "act", "spawn",
               "wait file", "ret", "new", "idle", "threw", "down"}

\* The quiescence barrier: no worker process outlives the publication of a
\* run boundary (succeeded, failed, cancelled, blocked).
BoundaryQuiet ==
    j.run \in {"succeeded", "failed", "cancelled", "blocked"} => proc = {} /\ j.open = {}

\* A live worker is always in the ledger of open attempts, so that every drain
\* looks for it: the journal never claims a close that has not happened.
NoFalseClose == proc \subseteq j.open

\* At no time do two workers of one node run, neither of two attempts nor of
\* two instances, although retries, revisits and restarts overlap.
OneWorker == \A a, b \in proc : a[1] = b[1] => a = b

\* A worker of a gated node runs only on an approval of its own instance: a
\* revisit asks again.
GateRespected == \A a \in proc : a[1] \in Gated => waits[<<a[1], a[2]>>] = "approved"

\* The driver of a daemon never reaches "no progress possible and run is not
\* terminal". (A standalone one does, cancelled between its read and a claim.)
NeverThrows == ~Standalone => pc # "threw"

\* A node that is done was computed from the present instances of its sources:
\* no product derived from a superseded instance survives a revisit in a run
\* that goes on, unless the process died between the supersede events.
FreshInputs ==
    ask = NoAsk /\ ~Cut(j) /\ tries.crash = 0 =>
    \A n \in Node : Status(n) = "done" =>
        \A d \in Deps[n] : basis[n][d] # 0 => basis[n][d] = j.node[d].eff

\* A node is skipped only if its trigger rule cannot be met by the present
\* results of its sources, early-release losers counted as if they had won:
\* cancelling a loser never takes away a chance another node still had. (Until
\* a revisit replaces results: no skip is reconsidered then.)
SkipJustified ==
    (\A n \in Node : \A k \in DOMAIN j.inst[n] : j.inst[n][k].st # "superseded") =>
    \A n \in Node : Status(n) = "skipped" =>
        Active(n) + Cardinality({d \in Deps[n] : Status(d) = "cancelled"}) < Required(n)

\* Only an instance that is still running sends the run back: the request of a
\* worker whose instance was cancelled or superseded is not acted upon.
ObsoleteMute == ask # NoAsk => ask.st = "running"

\* Once superseded, an instance stays so, and once the cancellation is
\* journalled no node changes except to cancelled.
FrozenStays ==
    [][/\ \A n \in Node : \A k \in DOMAIN j.inst[n] :
             j.inst[n][k].st = "superseded" => j'.inst[n][k].st = "superseded"
       /\ Cut(j) => /\ Cut(j')
                    /\ \A n \in Node : \/ j'.node[n] = j.node[n]
                                       \/ /\ j.node[n].status \notin Terminal
                                          /\ j'.node[n].status = "cancelled"]_vars

\* An attempt directory is never used twice: every dispatch carries a number
\* its instance has not used.
AttemptsFresh ==
    [][\A a \in j'.open \ j.open :
          a[2] > Len(j.inst[a[1]]) \/ a[3] > j.inst[a[1]][a[2]].max
          \/ (a[3] = j.inst[a[1]][a[2]].max /\ j.inst[a[1]][a[2]].res)]_vars

\* Workers end, fences are probed again, the daemon comes back, the driver's
\* thread runs on. Nothing is asked of a run nobody has started.
WorkerStep == \E a \in InFlight :
    \/ WorkerDrained(a) \/ WorkerSettles(a) \/ \E r \in Outcome : WorkerReturns(a, r)
    \/ \E t \in RevisitTo[a[1]] : RevisitRequested(a, t)
Fairness ==
    /\ WF_vars(Tick) /\ WF_vars(Act) /\ WF_vars(Drain) /\ WF_vars(ColdAttach)
    /\ WF_vars(ClickAppends \/ RevisitSupersedes \/ RevisitEnds)
    /\ WF_vars(WorkerStep) /\ WF_vars(\E a \in proc : OrphanExits(a))

\* A requested cancellation of a run in a daemon is carried out.
CancelConverges == (j.run = "cancelling" /\ ~Standalone) ~> j.run = "cancelled"

\* A run that was started is not left hanging: it ends, or stops where a human
\* has to decide.
RunSettles ==
    (j.run = "running" /\ pc # "new") ~> \/ j.run # "running"
                         \/ \E n \in Node : Status(n) = "gateWaiting"

\* A decision whose wait file is written reaches the journal, whatever dies in
\* between.
DecisionLands ==
    (j.run = "running" /\ \E g \in DOMAIN waits : waits[g] \in {"approved", "rejected"} /\ g \notin j.resolved)
        ~> (j.run # "running" \/ \A g \in DOMAIN waits : waits[g] \in {"approved", "rejected"} => g \in j.resolved)
=============================================================================
