------------------------------ MODULE TurnGate ------------------------------
(***************************************************************************)
(* The per-bot admission and drain gate of BotMux                          *)
(* (src/botmux/src/core/bot-turn-mutation-gate.ts).                        *)
(*                                                                         *)
(* Turn handlers are admitted concurrently; a mutation (one that replaces  *)
(* every live worker) closes the gate, waits for the admitted turns to     *)
(* drain and runs alone.  A mutation asked for from within an admitted     *)
(* handler UPGRADES that handler's lease: it gives the lease up, runs, and *)
(* takes the lease back before it reopens the gate.  Mutations that share  *)
(* a lease queue for its upgrade slot.  Bounded mutations carry a deadline *)
(* and answer timeout or upgrade_conflict instead of waiting.              *)
(*                                                                         *)
(* The daemon is one JavaScript thread: a step is the synchronous stretch  *)
(* between two awaits.  A waiter that has been woken resumes in a later    *)
(* promise job, so its state is "woken" until it takes its own step, and   *)
(* what it finds then may have changed.                                    *)
(***************************************************************************)
EXTENDS Naturals, Sequences, FiniteSets

CONSTANTS
    Handlers,   \* turns admitted by withBotTurnAdmission (or its detached form)
    Mutators,   \* calls of withBotTurnMutation or tryWithBotTurnMutation
    Bounded,    \* the mutators that call tryWithBotTurnMutation
    Nested,     \* the mutators wrapped in an admission of their own
    Floated,    \* the mutators whose promise the handler does not await
    Parent,     \* the handler a mutator was started in, or NoParent
    NoParent    \* a detached mutator: both contexts were cleared

GateAssumption ==
    /\ IsFiniteSet(Handlers) /\ IsFiniteSet(Mutators)
    /\ Handlers \cap Mutators = {}
    /\ NoParent \notin Handlers \cup Mutators
    /\ Bounded \subseteq Mutators
    /\ Nested \subseteq Mutators \ Floated
    /\ Floated \subseteq Mutators
    /\ Parent \in [Mutators -> Handlers \cup {NoParent}]
    /\ \A m \in Nested \cup Floated : Parent[m] # NoParent

Party == Handlers \cup Mutators

VARIABLES
    count,      \* GateState.activeAdmissions
    mutating,   \* GateState.mutating
    active,     \* AdmissionLease.active of the lease each party owns
    finished,   \* AdmissionLease.ownerFinished
    pending,    \* AdmissionLease.pendingUpgrades
    locked,     \* AdmissionLease.upgradeLocked
    queue,      \* AdmissionLease.upgradeWaiters
    adm,        \* where each party's withBotTurnAdmission call is
    mut,        \* where each mutator's call is
    slot,       \* the mutator must call releaseAdmissionUpgrade
    upg,        \* the mutator's local `upgrading`
    late,       \* Date.now() >= deadlineMs for this bounded mutator
    result      \* what the mutator's call returned

gate == <<count, mutating, active>>
lease == <<finished, pending, locked, queue>>
vars == <<count, mutating, active, finished, pending, locked, queue,
          adm, mut, slot, upg, late, result>>

(* "direct" runs under the outer handler's lease; "woken" was resolved by   *)
(* wakeAll and has not resumed yet.                                         *)
AdmState == {"none", "wait", "woken", "in", "direct", "out"}

(* The "_ok" and "_late" states are woken waiters, with the value the       *)
(* promise was resolved with; "leave" is after the inner call returned and  *)
(* before the finally block releases the slot.                              *)
MutState == {"idle", "queued", "slot", "slot_late",
             "open_wait", "open_ok", "open_late",
             "drain_wait", "drain_ok", "drain_late",
             "running", "leave", "done"}

Result == {"none", "ran", "timeout", "upgrade_conflict"}

Init ==
    /\ count = 0
    /\ mutating = FALSE
    /\ active = [p \in Party |-> FALSE]
    /\ finished = [p \in Party |-> FALSE]
    /\ pending = [p \in Party |-> 0]
    /\ locked = [p \in Party |-> FALSE]
    /\ queue = [p \in Party |-> <<>>]
    /\ adm = [p \in Party |-> "none"]
    /\ mut = [m \in Mutators |-> "idle"]
    /\ slot = [m \in Mutators |-> FALSE]
    /\ upg = [m \in Mutators |-> FALSE]
    /\ late = [m \in Mutators |-> FALSE]
    /\ result = [m \in Mutators |-> "none"]

----------------------------------------------------------------------------
(* wakeAll(drainWaiters) when the count of admissions reaches n = 0.        *)
WakeDrain(st, n) ==
    [m \in Mutators |->
        IF n = 0 /\ st[m] = "drain_wait"
        THEN IF late[m] THEN "drain_late" ELSE "drain_ok"
        ELSE st[m]]

(* wakeAll(openWaiters): waiting mutators and waiting admissions.           *)
WakeOpen(st) ==
    [m \in Mutators |->
        IF st[m] = "open_wait"
        THEN IF late[m] THEN "open_late" ELSE "open_ok"
        ELSE st[m]]

WakeAdmissions ==
    [p \in Party |-> IF adm[p] = "wait" THEN "woken" ELSE adm[p]]

(* The admission lease in the mutator's async context.                      *)
Ctx(m) == IF adm[m] = "in" THEN m ELSE Parent[m]

shouldQueueAdmissionUpgrade(m) ==
    /\ Ctx(m) # NoParent
    /\ ~finished[Ctx(m)]
    /\ active[Ctx(m)] \/ pending[Ctx(m)] > 0

----------------------------------------------------------------------------
(* withBotTurnAdmission.  A nested call under a lease that is active now    *)
(* runs its action at once.                                                 *)
AdmitDirect(p) ==
    /\ p \in Nested
    /\ adm[p] = "none"
    /\ adm[Parent[p]] = "in"
    /\ active[Parent[p]]
    /\ adm' = [adm EXCEPT ![p] = "direct"]
    /\ UNCHANGED <<gate, lease, mut, slot, upg, late, result>>

AtGate(p) ==
    \/ adm[p] = "woken"
    \/ /\ adm[p] = "none"
       /\ \/ p \in Handlers
          \/ /\ p \in Nested
             /\ adm[Parent[p]] = "in"
             /\ ~active[Parent[p]]

AdmitWait(p) ==
    /\ AtGate(p)
    /\ mutating
    /\ adm' = [adm EXCEPT ![p] = "wait"]
    /\ UNCHANGED <<gate, lease, mut, slot, upg, late, result>>

(* Mutant of Admit: the gate is not checked again after a wake-up.          *)
AdmitUnchecked(p) ==
    /\ AtGate(p)
    /\ adm[p] = "woken" \/ ~mutating
    /\ count' = count + 1
    /\ active' = [active EXCEPT ![p] = TRUE]
    /\ adm' = [adm EXCEPT ![p] = "in"]
    /\ UNCHANGED <<mutating, lease, mut, slot, upg, late, result>>

Admit(p) ==
    /\ AtGate(p)
    /\ ~mutating
    /\ count' = count + 1
    /\ active' = [active EXCEPT ![p] = TRUE]
    /\ adm' = [adm EXCEPT ![p] = "in"]
    /\ UNCHANGED <<mutating, lease, mut, slot, upg, late, result>>

(* The action of the admission has ended: every promise it awaits has       *)
(* settled.                                                                 *)
ActionEnded(p) ==
    /\ p \in Mutators => mut[p] \in {"idle", "done"}
    /\ \A m \in Mutators \ Floated :
          Parent[m] = p => /\ mut[m] \in {"idle", "done"}
                           /\ adm[m] \in {"none", "out"}

(* The finally block: the lease is revoked, and counted down only if it is  *)
(* still active.                                                            *)
Leave(p) ==
    /\ adm[p] = "in"
    /\ ActionEnded(p)
    /\ active[p]
    /\ finished' = [finished EXCEPT ![p] = TRUE]
    /\ active' = [active EXCEPT ![p] = FALSE]
    /\ count' = count - 1
    /\ mut' = WakeDrain(mut, count - 1)
    /\ adm' = [adm EXCEPT ![p] = "out"]
    /\ UNCHANGED <<mutating, pending, locked, queue, slot, upg, late, result>>

LeaveReleased(p) ==
    /\ adm[p] = "in"
    /\ ActionEnded(p)
    /\ ~active[p]
    /\ finished' = [finished EXCEPT ![p] = TRUE]
    /\ adm' = [adm EXCEPT ![p] = "out"]
    /\ UNCHANGED <<gate, pending, locked, queue, mut, slot, upg, late, result>>

LeaveDirect(p) ==
    /\ adm[p] = "direct"
    /\ ActionEnded(p)
    /\ adm' = [adm EXCEPT ![p] = "out"]
    /\ UNCHANGED <<gate, lease, mut, slot, upg, late, result>>

----------------------------------------------------------------------------
(* The mutation calls.                                                      *)

CanBegin(m) ==
    /\ mut[m] = "idle"
    /\ IF m \in Nested
       THEN adm[m] \in {"in", "direct"}
       ELSE Parent[m] # NoParent =>
                \/ adm[Parent[m]] = "in"
                \/ m \in Floated /\ adm[Parent[m]] = "out"

(* acquireAdmissionUpgrade finds the slot taken.                            *)
Queue(m) ==
    /\ CanBegin(m)
    /\ shouldQueueAdmissionUpgrade(m)
    /\ locked[Ctx(m)]
    /\ ~late[m]
    /\ pending' = [pending EXCEPT ![Ctx(m)] = @ + 1]
    /\ queue' = [queue EXCEPT ![Ctx(m)] = Append(@, m)]
    /\ mut' = [mut EXCEPT ![m] = "queued"]
    /\ UNCHANGED <<gate, finished, locked, adm, slot, upg, late, result>>

(* acquireAdmissionUpgradeBefore with no time left.                         *)
BeginLate(m) ==
    /\ CanBegin(m)
    /\ shouldQueueAdmissionUpgrade(m)
    /\ late[m]
    /\ mut' = [mut EXCEPT ![m] = "done"]
    /\ result' = [result EXCEPT ![m] = "timeout"]
    /\ UNCHANGED <<gate, lease, adm, slot, upg, late>>

(* The mutator starts run(Bounded)BotTurnMutation: in the step of the call  *)
(* itself, taking a free slot if it must, or once the slot was handed over. *)
Taking(m) == mut[m] = "idle" /\ shouldQueueAdmissionUpgrade(m)

Entering(m) ==
    \/ mut[m] = "slot"
    \/ CanBegin(m) /\ (shouldQueueAdmissionUpgrade(m) => ~locked[Ctx(m)] /\ ~late[m])

TakeSlot(m) ==
    /\ locked' = [p \in Party |-> locked[p] \/ (Taking(m) /\ p = Ctx(m))]
    /\ pending' = [p \in Party |-> IF Taking(m) /\ p = Ctx(m)
                                   THEN pending[p] + 1 ELSE pending[p]]
    /\ slot' = [slot EXCEPT ![m] = @ \/ Taking(m)]
    /\ UNCHANGED <<finished, queue>>

(* `upgrading`: the inherited lease is active, and is given up.             *)
Upgrading(m) == Ctx(m) # NoParent /\ active[Ctx(m)]

CountWithout(m) == IF Upgrading(m) THEN count - 1 ELSE count

GiveUpLease(m) ==
    /\ upg' = [upg EXCEPT ![m] = Upgrading(m)]
    /\ active' = [p \in Party |-> active[p] /\ ~(Upgrading(m) /\ p = Ctx(m))]
    /\ count' = CountWithout(m)

(* After the call returned: the slot is released in a later promise job.    *)
Ended(m) == IF slot[m] \/ Taking(m) THEN "leave" ELSE "done"

DrainState(n) == IF n > 0 THEN "drain_wait" ELSE "drain_ok"

(* The gate is open: close it and wait for the admitted turns.              *)
EnterClose(m) ==
    /\ Entering(m)
    /\ ~mutating
    /\ ~late[m]
    /\ TakeSlot(m)
    /\ GiveUpLease(m)
    /\ mutating' = TRUE
    /\ mut' = [mut EXCEPT ![m] = DrainState(CountWithout(m))]
    /\ UNCHANGED <<adm, late, result>>

(* The gate is closed: an unbounded mutation gives its lease up first.      *)
EnterWait(m) ==
    /\ Entering(m)
    /\ mutating
    /\ ~late[m]
    /\ m \in Bounded => ~Upgrading(m)
    /\ TakeSlot(m)
    /\ GiveUpLease(m)
    /\ mut' = [WakeDrain(mut, CountWithout(m)) EXCEPT ![m] = "open_wait"]
    /\ UNCHANGED <<mutating, adm, late, result>>

(* A bounded upgrade never waits for another mutation.                      *)
EnterConflict(m) ==
    /\ Entering(m)
    /\ m \in Bounded
    /\ Upgrading(m)
    /\ mutating
    /\ TakeSlot(m)
    /\ mut' = [mut EXCEPT ![m] = Ended(m)]
    /\ result' = [result EXCEPT ![m] = "upgrade_conflict"]
    /\ UNCHANGED <<gate, adm, upg, late>>

(* The deadline has passed, possibly since the slot was taken: the lease is *)
(* given up and taken back within the step.                                 *)
EnterLate(m) ==
    /\ Entering(m)
    /\ m \in Bounded
    /\ ~(Upgrading(m) /\ mutating)
    /\ TakeSlot(m)
    /\ late' = [late EXCEPT ![m] = TRUE]
    /\ mut' = [mut EXCEPT ![m] = Ended(m)]
    /\ result' = [result EXCEPT ![m] = "timeout"]
    /\ UNCHANGED <<gate, adm, upg>>

(* `while (state.mutating)`: the woken mutator looks again.                 *)
OpenAgain(m) ==
    /\ mut[m] = "open_ok"
    /\ mutating
    /\ ~late[m]
    /\ mut' = [mut EXCEPT ![m] = "open_wait"]
    /\ UNCHANGED <<gate, lease, adm, slot, upg, late, result>>

OpenClose(m) ==
    /\ mut[m] = "open_ok"
    /\ ~mutating
    /\ ~late[m]
    /\ mutating' = TRUE
    /\ mut' = [mut EXCEPT ![m] = DrainState(count)]
    /\ UNCHANGED <<count, active, lease, adm, slot, upg, late, result>>

OpenLate(m) ==
    /\ mut[m] = "open_late" \/ (mut[m] = "open_ok" /\ late[m])
    /\ mut' = [mut EXCEPT ![m] = Ended(m)]
    /\ result' = [result EXCEPT ![m] = "timeout"]
    /\ UNCHANGED <<gate, lease, adm, slot, upg, late>>

(* The turns have drained: the action starts.                               *)
Run(m) ==
    /\ mut[m] = "drain_ok"
    /\ ~late[m]
    /\ mut' = [mut EXCEPT ![m] = "running"]
    /\ UNCHANGED <<gate, lease, adm, slot, upg, late, result>>

(* Mutant: the lease is taken back although its owner has finished.         *)
ReopenGhost(m) ==
    /\ active' = [p \in Party |-> active[p] \/ (upg[m] /\ p = Ctx(m))]
    /\ count' = IF upg[m] THEN count + 1 ELSE count
    /\ mutating' = FALSE
    /\ mut' = [WakeOpen(mut) EXCEPT ![m] = Ended(m)]
    /\ adm' = WakeAdmissions

(* The finally block and the rollback: take the lease back unless its owner *)
(* has finished, reopen the gate, wake everyone who waits for it.           *)
TakesBack(m) == upg[m] /\ ~finished[Ctx(m)]

Reopen(m) ==
    /\ active' = [p \in Party |-> active[p] \/ (TakesBack(m) /\ p = Ctx(m))]
    /\ count' = IF TakesBack(m) THEN count + 1 ELSE count
    /\ mutating' = FALSE
    /\ mut' = [WakeOpen(mut) EXCEPT ![m] = Ended(m)]
    /\ adm' = WakeAdmissions

Finish(m) ==
    /\ mut[m] = "running"
    /\ Reopen(m)
    /\ result' = [result EXCEPT ![m] = "ran"]
    /\ UNCHANGED <<lease, slot, upg, late>>

Rollback(m) ==
    /\ mut[m] = "drain_late" \/ (mut[m] = "drain_ok" /\ late[m])
    /\ Reopen(m)
    /\ result' = [result EXCEPT ![m] = "timeout"]
    /\ UNCHANGED <<lease, slot, upg, late>>

(* releaseAdmissionUpgrade: ownership goes straight to the next waiter.     *)
(* "slot_late" is the expired owner, which only gives the slot on.          *)
ReleaseToNext(m) ==
    LET c == Ctx(m)
        next == Head(queue[c]) IN
    /\ mut[m] \in {"leave", "slot_late"}
    /\ queue[c] # <<>>
    /\ pending' = [pending EXCEPT ![c] = @ - 1]
    /\ queue' = [queue EXCEPT ![c] = Tail(@)]
    /\ mut' = [mut EXCEPT ![m] = "done",
                          ![next] = IF late[next] THEN "slot_late" ELSE "slot"]
    /\ slot' = [slot EXCEPT ![m] = FALSE, ![next] = TRUE]
    /\ result' = [result EXCEPT ![m] = IF @ = "none" THEN "timeout" ELSE @]
    /\ UNCHANGED <<gate, finished, locked, adm, upg, late>>

ReleaseLast(m) ==
    LET c == Ctx(m) IN
    /\ mut[m] \in {"leave", "slot_late"}
    /\ queue[c] = <<>>
    /\ pending' = [pending EXCEPT ![c] = @ - 1]
    /\ locked' = [locked EXCEPT ![c] = FALSE]
    /\ mut' = [mut EXCEPT ![m] = "done"]
    /\ slot' = [slot EXCEPT ![m] = FALSE]
    /\ result' = [result EXCEPT ![m] = IF @ = "none" THEN "timeout" ELSE @]
    /\ UNCHANGED <<gate, finished, queue, adm, upg, late>>

----------------------------------------------------------------------------
(* Time: a deadline passes; later its timer fires, if the waiter is still   *)
(* in the list it waits in, and takes it out.                               *)
Deadline(m) ==
    /\ m \in Bounded
    /\ ~late[m]
    /\ late' = [late EXCEPT ![m] = TRUE]
    /\ UNCHANGED <<gate, lease, adm, mut, slot, upg, result>>

Splice(s, i) == [j \in 1 .. Len(s) - 1 |-> IF j < i THEN s[j] ELSE s[j + 1]]

TimerQueued(m) ==
    /\ mut[m] = "queued"
    /\ late[m]
    /\ \E index \in DOMAIN queue[Ctx(m)] :
          /\ queue[Ctx(m)][index] = m
          /\ queue' = [queue EXCEPT ![Ctx(m)] = Splice(@, index)]
    /\ pending' = [pending EXCEPT ![Ctx(m)] = @ - 1]
    /\ mut' = [mut EXCEPT ![m] = "done"]
    /\ result' = [result EXCEPT ![m] = "timeout"]
    /\ UNCHANGED <<gate, finished, locked, adm, slot, upg, late>>

TimerWaiting(m) ==
    /\ mut[m] \in {"open_wait", "drain_wait"}
    /\ late[m]
    /\ mut' = [mut EXCEPT ![m] = IF @ = "open_wait" THEN "open_late"
                                                     ELSE "drain_late"]
    /\ UNCHANGED <<gate, lease, adm, slot, upg, late, result>>

----------------------------------------------------------------------------
(* Steps that promise jobs, timers and the running actions take by          *)
(* themselves.                                                              *)
AdmissionStep(p) ==
    \/ AdmitWait(p) \/ Admit(p)
    \/ Leave(p) \/ LeaveReleased(p) \/ LeaveDirect(p)

MutationStep(m) ==
    \/ EnterClose(m) \/ EnterWait(m) \/ EnterConflict(m) \/ EnterLate(m)
    \/ OpenAgain(m) \/ OpenClose(m) \/ OpenLate(m)
    \/ Run(m) \/ Finish(m) \/ Rollback(m)
    \/ ReleaseToNext(m) \/ ReleaseLast(m)

TimeStep(m) == Deadline(m) \/ TimerQueued(m) \/ TimerWaiting(m)

Next ==
    \/ \E p \in Party : AdmitDirect(p) \/ AdmissionStep(p)
    \/ \E m \in Mutators : Queue(m) \/ BeginLate(m) \/ MutationStep(m) \/ TimeStep(m)

Spec == Init /\ [][Next]_vars

(* Admitted actions and mutation actions end, promise jobs run and timers   *)
(* fire.  Nothing obliges a handler to start a mutation, so a mutator that  *)
(* has not begun owes no step.                                              *)
Fairness ==
    /\ \A p \in Party : WF_vars(adm[p] # "none" /\ AdmissionStep(p))
    /\ \A m \in Mutators :
          /\ WF_vars(mut[m] # "idle" /\ MutationStep(m))
          /\ WF_vars(mut[m] # "idle" /\ TimeStep(m))

FairSpec == Spec /\ Fairness

----------------------------------------------------------------------------
TypeOK ==
    /\ count \in Nat
    /\ mutating \in BOOLEAN
    /\ active \in [Party -> BOOLEAN]
    /\ finished \in [Party -> BOOLEAN]
    /\ pending \in [Party -> Nat]
    /\ locked \in [Party -> BOOLEAN]
    /\ queue \in [Party -> Seq(Mutators)]
    /\ adm \in [Party -> AdmState]
    /\ mut \in [Mutators -> MutState]
    /\ slot \in [Mutators -> BOOLEAN]
    /\ upg \in [Mutators -> BOOLEAN]
    /\ late \in [Mutators -> BOOLEAN]
    /\ result \in [Mutators -> Result]

Owns == {"drain_wait", "drain_ok", "drain_late", "running"}

(* activeAdmissions is the number of leases that are active: an upgrade,    *)
(* its rollback and the handler's own finally never count one lease twice   *)
(* and never forget one, whichever of them ends first.                      *)
CountTrue == count = Cardinality({p \in Party : active[p]})

(* The gate is closed exactly while one mutation drains or runs: a refused  *)
(* or finished one leaves no closed gate behind and a second never enters.  *)
GateOwned ==
    /\ mutating <=> \E m \in Mutators : mut[m] \in Owns
    /\ \A m, n \in Mutators : mut[m] \in Owns /\ mut[n] \in Owns => m = n

(* While a mutation's action runs every admitted handler is one that asked  *)
(* for a mutation itself and waits for it: no other turn is in progress.    *)
MutationAlone ==
    \A m \in Mutators : mut[m] = "running" =>
        \A p \in Party : adm[p] = "in" => pending[p] > 0 /\ ~active[p]

(* A lease's upgrade slot is locked exactly while one mutator holds it, and *)
(* its waiters are the mutators that still wait for it.                     *)
SlotOwned ==
    \A p \in Party :
        /\ locked[p] = \E m \in Mutators : slot[m] /\ Ctx(m) = p
        /\ \A m, n \in Mutators :
              slot[m] /\ slot[n] /\ Ctx(m) = p /\ Ctx(n) = p => m = n
        /\ \A m \in Mutators : (\E i \in DOMAIN queue[p] : queue[p][i] = m)
                                  <=> (mut[m] = "queued" /\ Ctx(m) = p)

(* A nested admission has, or waits for, a lease of its own: it was begun   *)
(* while a sibling's upgrade had the outer lease inactive.                  *)
Apart == \E n \in Nested : adm[n] \in {"wait", "woken", "in"}

(* Every call returns: no handler and no mutation waits forever for the     *)
(* gate, for turns to drain or for an upgrade slot, unless a nested call    *)
(* came to stand apart from the handler that awaits it.                     *)
EveryCallReturns ==
    /\ \A m \in Mutators : mut[m] # "idle" ~> (mut[m] = "done" \/ Apart)
    /\ \A p \in Handlers : adm[p] \in {"wait", "woken", "in"} ~> (adm[p] = "out" \/ Apart)
=============================================================================
