---------------------------- MODULE DaemonProofs ----------------------------
(***************************************************************************)
(* The turn gate and the ask broker of one BotMux daemon keep their        *)
(* promises for every set of handlers, mutations, hooks and options, and   *)
(* every number of faults: MutationsAlone and AsksKept at the end.         *)
(*                                                                         *)
(* The gate: GateInv strengthens the checked books by who carries a lease  *)
(* that is out, who lent it, and which states of a call go with which.     *)
(* The broker: HookInv says of one hook what its entry, its record, its    *)
(* process and the histories have to do with each other.                   *)
(***************************************************************************)
EXTENDS MCDaemon, Integers, Sequences, FiniteSets, FiniteSetTheorems, TLAPS

-----------------------------------------------------------------------------
(* A mutation call that has passed its slot and has not returned.           *)
InCall == {"open_wait", "open_ok", "open_late",
           "drain_wait", "drain_ok", "drain_late", "running"}

(* Where the leases are: an active or a lent lease is that of a party whose *)
(* admission is open, and only nested mutators have admissions of their own.*)
LeaseShape ==
    /\ \A p \in G!Party : /\ active[p] => adm[p] = "in"
                          /\ finished[p] => adm[p] = "out"
    /\ \A p \in Handlers : adm[p] # "direct" /\ (adm[p] = "out" => finished[p])
    /\ \A m \in Mutators : m \notin Nested => adm[m] = "none"
    /\ \A m \in Nested : /\ adm[m] \in {"none", "wait", "woken"} => mut[m] = "idle"
                         /\ adm[m] = "out" => mut[m] \in {"idle", "done"}

(* Who holds or waits for an upgrade slot, and who carries a lent lease.    *)
Calls ==
    \A m \in Mutators :
        /\ mut[m] \in {"idle", "queued", "done"} => ~slot[m]
        /\ mut[m] \in {"slot", "slot_late", "leave"} => slot[m]
        /\ slot[m] \/ mut[m] = "queued" => G!Ctx(m) # NoParent
        /\ late[m] => m \in Bounded
        /\ mut[m] = "open_late" => late[m]
        /\ mut[m] \in {"idle", "queued", "slot", "slot_late"} => ~upg[m]

(* A call that holds the lease its turn lent it.                            *)
Carries(m) == upg[m] /\ mut[m] \in InCall

Carriers ==
    \A m \in Mutators : Carries(m) =>
        /\ slot[m]
        /\ ~active[G!Ctx(m)]
        /\ adm[G!Ctx(m)] = "in" \/ finished[G!Ctx(m)]
        /\ m \in Bounded => mut[m] \notin {"open_wait", "open_ok", "open_late"}

(* A lease whose owner is still admitted and that is not active was lent.   *)
Lent ==
    \A p \in G!Party : adm[p] = "in" /\ ~active[p] =>
        \E m \in Mutators : Carries(m) /\ G!Ctx(m) = p

(* A mutation that was told the gate has drained finds no lease out.        *)
Drained == \A m \in Mutators : mut[m] \in {"drain_ok", "running"} => count = 0

(* The mutations of turn p that hold its slot or queue for it.              *)
Askers(p) == {m \in Mutators : G!Ctx(m) = p /\ (slot[m] \/ mut[m] = "queued")}

(* The turn counts them.                                                    *)
PendingTrue == \A p \in G!Party : pending[p] = Cardinality(Askers(p))

(* No mutation queues twice.                                                *)
QueueOnce ==
    \A p \in G!Party : \A i, j \in DOMAIN queue[p] : queue[p][i] = queue[p][j] => i = j

(* The inductive invariant of the gate.                                     *)
GateInv ==
    /\ G!TypeOK /\ LeaseShape /\ Calls /\ Carriers /\ Lent
    /\ G!CountTrue /\ G!GateOwned /\ Drained
    /\ PendingTrue /\ G!SlotOwned /\ QueueOnce

-----------------------------------------------------------------------------
(* The gate's types, one variable at a time.                               *)
LEMMA GateVars ==
    ASSUME G!TypeOK
    PROVE  /\ count \in Nat
           /\ mutating \in BOOLEAN
           /\ active \in [G!Party -> BOOLEAN]
           /\ finished \in [G!Party -> BOOLEAN]
           /\ pending \in [G!Party -> Nat]
           /\ locked \in [G!Party -> BOOLEAN]
           /\ queue \in [G!Party -> Seq(Mutators)]
           /\ adm \in [G!Party -> G!AdmState]
           /\ mut \in [Mutators -> G!MutState]
           /\ slot \in [Mutators -> BOOLEAN]
           /\ upg \in [Mutators -> BOOLEAN]
           /\ late \in [Mutators -> BOOLEAN]
           /\ result \in [Mutators -> G!Result]
  BY DEF G!TypeOK

(* The lease a mutator finds in its context is its own, while it is         *)
(* admitted, or that of the handler it was started in.                      *)
LEMMA CtxRange ==
    ASSUME G!GateAssumption, NEW m \in Mutators
    PROVE  /\ G!Ctx(m) \in G!Party \cup {NoParent}
           /\ \/ G!Ctx(m) = m /\ adm[m] = "in"
              \/ G!Ctx(m) \in Handlers \cup {NoParent}
           /\ m \in G!Party
           /\ NoParent \notin G!Party
           /\ G!Ctx(m) # NoParent => G!Ctx(m) \in G!Party
  BY DEF G!GateAssumption, G!Ctx, G!Party

(* A mutation that is under way keeps the lease it has in its context.      *)
LEMMA CtxKept ==
    ASSUME G!GateAssumption, GateInv, G!Next, NEW n \in Mutators,
           mut[n] \notin {"idle", "done"} \/ mut'[n] \notin {"idle", "done"}
    PROVE  G!Ctx(n)' = G!Ctx(n)
<1>1. /\ adm \in [G!Party -> G!AdmState]
      /\ mut \in [Mutators -> G!MutState]
      /\ Handlers \cap Mutators = {} /\ Mutators \subseteq G!Party
      /\ Nested \subseteq Mutators
      /\ n \in G!Party
  BY GateVars DEF GateInv, G!GateAssumption, G!Party
<1>2. /\ n \in Nested => /\ adm[n] \in {"none", "wait", "woken"} => mut[n] = "idle"
                         /\ adm[n] = "out" => mut[n] \in {"idle", "done"}
      /\ n \notin Nested => adm[n] = "none"
  BY DEF GateInv, LeaseShape
<1>3. SUFFICES adm'[n] = "in" <=> adm[n] = "in"
  BY DEF G!Ctx
<1>4. ASSUME NEW p \in G!Party, G!AdmitDirect(p) PROVE adm'[n] = "in" <=> adm[n] = "in"
  BY <1>1, <1>4 DEF G!AdmitDirect
<1>5. ASSUME NEW p \in G!Party, G!AdmitWait(p) PROVE adm'[n] = "in" <=> adm[n] = "in"
  BY <1>1, <1>5 DEF G!AdmitWait, G!AtGate
<1>6. ASSUME NEW p \in G!Party, G!Admit(p) PROVE adm'[n] = "in" <=> adm[n] = "in"
  <2>1. p = n => mut[n] = "idle" /\ mut' = mut
    BY <1>1, <1>2, <1>6 DEF G!Admit, G!AtGate
  <2> QED BY <1>1, <1>6, <2>1 DEF G!Admit
<1>7. ASSUME NEW p \in G!Party, G!Leave(p) PROVE adm'[n] = "in" <=> adm[n] = "in"
  <2>1. p = n => mut[n] \in {"idle", "done"} /\ mut'[n] = mut[n]
    BY <1>1, <1>7 DEF G!Leave, G!ActionEnded, G!WakeDrain
  <2> QED BY <1>1, <1>7, <2>1 DEF G!Leave
<1>8. ASSUME NEW p \in G!Party, G!LeaveReleased(p) PROVE adm'[n] = "in" <=> adm[n] = "in"
  <2>1. p = n => mut[n] \in {"idle", "done"} /\ mut' = mut
    BY <1>1, <1>8 DEF G!LeaveReleased, G!ActionEnded
  <2> QED BY <1>1, <1>8, <2>1 DEF G!LeaveReleased
<1>9. ASSUME NEW p \in G!Party, G!LeaveDirect(p) PROVE adm'[n] = "in" <=> adm[n] = "in"
  BY <1>1, <1>9 DEF G!LeaveDirect
<1>10. ASSUME NEW m \in Mutators, G!Queue(m) \/ G!BeginLate(m) \/ G!MutationStep(m) \/ G!TimeStep(m)
       PROVE adm'[n] = "in" <=> adm[n] = "in"
  <2>1. CASE G!Finish(m) \/ G!Rollback(m)
    BY <1>1, <2>1 DEF G!Finish, G!Rollback, G!Reopen, G!WakeAdmissions
  <2>2. CASE ~(G!Finish(m) \/ G!Rollback(m))
    <3>1. adm' = adm
      BY <1>10, <2>2 DEF G!Queue, G!BeginLate, G!MutationStep, G!TimeStep,
         G!EnterClose, G!EnterWait, G!EnterConflict, G!EnterLate, G!OpenAgain, G!OpenClose,
         G!OpenLate, G!Run, G!ReleaseToNext, G!ReleaseLast, G!Deadline, G!TimerQueued,
         G!TimerWaiting
    <3> QED BY <3>1
  <2> QED BY <2>1, <2>2
<1> QED BY <1>4, <1>5, <1>6, <1>7, <1>8, <1>9, <1>10 DEF G!Next, G!AdmissionStep

-----------------------------------------------------------------------------
(* The gate's module brings its own copy of the notions of finite sets.      *)
LEMMA GateFinite ==
    ASSUME NEW S
    PROVE  G!IsFiniteSet(S) <=> IsFiniteSet(S)
  BY DEF G!IsFiniteSet, IsFiniteSet

(* The same for the number of elements.                                     *)
LEMMA GateCardinality ==
    ASSUME NEW S
    PROVE  G!Cardinality(S) = Cardinality(S)
  BY DEF G!Cardinality, Cardinality

(* There are finitely many parties, as the counts need.                     *)
LEMMA PartyFinite ==
    ASSUME G!GateAssumption
    PROVE  IsFiniteSet(G!Party) /\ IsFiniteSet(Mutators)
<1>1. IsFiniteSet(Handlers) /\ IsFiniteSet(Mutators)
  BY GateFinite DEF G!GateAssumption
<1>2. IsFiniteSet(Handlers \cup Mutators)
  BY <1>1, FS_Union
<1> QED BY <1>1, <1>2 DEF G!Party

(* Every step of the gate keeps the types.                                  *)
LEMMA GateTypesStep ==
    ASSUME G!GateAssumption, GateInv, G!Next
    PROVE  G!TypeOK'
<1>1. /\ count \in Nat
      /\ mutating \in BOOLEAN
      /\ active \in [G!Party -> BOOLEAN]
      /\ finished \in [G!Party -> BOOLEAN]
      /\ pending \in [G!Party -> Nat]
      /\ locked \in [G!Party -> BOOLEAN]
      /\ queue \in [G!Party -> Seq(Mutators)]
      /\ adm \in [G!Party -> G!AdmState]
      /\ mut \in [Mutators -> G!MutState]
      /\ slot \in [Mutators -> BOOLEAN]
      /\ upg \in [Mutators -> BOOLEAN]
      /\ late \in [Mutators -> BOOLEAN]
      /\ result \in [Mutators -> G!Result]
  BY GateVars DEF GateInv
<1>2. \A m \in Mutators : /\ m \in G!Party
                          /\ G!Ctx(m) # NoParent => G!Ctx(m) \in G!Party
  BY CtxRange
<1>3. \A p \in G!Party : active[p] => count > 0
  <2> DEFINE S == {p \in G!Party : active[p]}
  <2>1. IsFiniteSet(S) /\ count = Cardinality(S)
    BY PartyFinite, GateCardinality, FS_Subset, S \in SUBSET G!Party DEF GateInv, G!CountTrue
  <2>2. count = 0 => S = {}
    BY <2>1, FS_EmptySet
  <2> QED BY <1>1, <2>2
<1>4. \A m \in Mutators : slot[m] \/ mut[m] = "queued" =>
         G!Ctx(m) \in G!Party /\ pending[G!Ctx(m)] > 0
  <2> SUFFICES ASSUME NEW m \in Mutators, slot[m] \/ mut[m] = "queued"
               PROVE  G!Ctx(m) \in G!Party /\ pending[G!Ctx(m)] > 0
    OBVIOUS
  <2>1. G!Ctx(m) \in G!Party
    BY <1>2 DEF GateInv, Calls
  <2>2. m \in Askers(G!Ctx(m)) /\ Askers(G!Ctx(m)) \in SUBSET Mutators
    BY DEF Askers
  <2>3. IsFiniteSet(Askers(G!Ctx(m)))
    BY <2>2, PartyFinite, FS_Subset
  <2>4. Cardinality(Askers(G!Ctx(m))) # 0
    BY <2>2, <2>3, FS_EmptySet
  <2>5. pending[G!Ctx(m)] = Cardinality(Askers(G!Ctx(m))) /\ pending[G!Ctx(m)] \in Nat
    BY <1>1, <2>1 DEF GateInv, PendingTrue
  <2> QED BY <2>1, <2>4, <2>5
<1>5. \A f \in [Mutators -> G!MutState] : \A n : G!WakeDrain(f, n) \in [Mutators -> G!MutState]
  BY DEF G!WakeDrain, G!MutState
<1>6. \A f \in [Mutators -> G!MutState] : G!WakeOpen(f) \in [Mutators -> G!MutState]
  BY DEF G!WakeOpen, G!MutState
<1>7. G!WakeAdmissions \in [G!Party -> G!AdmState]
  BY <1>1 DEF G!WakeAdmissions, G!AdmState
<1>8. \A m \in Mutators : /\ G!Ended(m) \in G!MutState
                          /\ \A n : G!DrainState(n) \in G!MutState
  BY DEF G!Ended, G!DrainState, G!MutState
<1>9. \A p \in G!Party : pending[p] \in Nat /\ pending[p] + 1 \in Nat
                         /\ (pending[p] > 0 => pending[p] - 1 \in Nat)
  BY <1>1
<1>a. ASSUME count' \in Nat, mutating' \in BOOLEAN, active' \in [G!Party -> BOOLEAN],
             finished' \in [G!Party -> BOOLEAN], pending' \in [G!Party -> Nat],
             locked' \in [G!Party -> BOOLEAN], queue' \in [G!Party -> Seq(Mutators)],
             adm' \in [G!Party -> G!AdmState], mut' \in [Mutators -> G!MutState],
             slot' \in [Mutators -> BOOLEAN], upg' \in [Mutators -> BOOLEAN],
             late' \in [Mutators -> BOOLEAN], result' \in [Mutators -> G!Result]
      PROVE  G!TypeOK'
  BY <1>a DEF G!TypeOK
<1>10. ASSUME NEW p \in G!Party, G!AdmitDirect(p) \/ G!AdmitWait(p) \/ G!LeaveDirect(p)
       PROVE  G!TypeOK'
  <2>1. adm' \in [G!Party -> G!AdmState]
    BY <1>1, <1>10 DEF G!AdmitDirect, G!AdmitWait, G!LeaveDirect, G!AdmState
  <2> QED BY <1>1, <1>10, <2>1, <1>a DEF G!AdmitDirect, G!AdmitWait, G!LeaveDirect, G!gate, G!lease
<1>11. ASSUME NEW p \in G!Party, G!Admit(p) PROVE G!TypeOK'
  <2>1. adm' \in [G!Party -> G!AdmState] /\ active' \in [G!Party -> BOOLEAN] /\ count' \in Nat
    BY <1>1, <1>11 DEF G!Admit, G!AdmState
  <2> QED BY <1>1, <1>11, <2>1, <1>a DEF G!Admit, G!lease
<1>12. ASSUME NEW p \in G!Party, G!Leave(p) PROVE G!TypeOK'
  <2>1. adm' \in [G!Party -> G!AdmState] /\ active' \in [G!Party -> BOOLEAN]
    BY <1>1, <1>12 DEF G!Leave, G!AdmState
  <2>2. finished' \in [G!Party -> BOOLEAN]
    BY <1>1, <1>12 DEF G!Leave
  <2>3. count' \in Nat
    BY <1>1, <1>3, <1>12 DEF G!Leave
  <2>4. mut' \in [Mutators -> G!MutState]
    BY <1>1, <1>5, <1>12 DEF G!Leave
  <2> QED BY <1>1, <1>12, <2>1, <2>2, <2>3, <2>4, <1>a DEF G!Leave
<1>13. ASSUME NEW p \in G!Party, G!LeaveReleased(p) PROVE G!TypeOK'
  <2>1. adm' \in [G!Party -> G!AdmState] /\ finished' \in [G!Party -> BOOLEAN]
    BY <1>1, <1>13 DEF G!LeaveReleased, G!AdmState
  <2> QED BY <1>1, <1>13, <2>1, <1>a DEF G!LeaveReleased, G!gate
<1>14. ASSUME NEW m \in Mutators, G!Queue(m) PROVE G!TypeOK'
  <2>1. G!Ctx(m) \in G!Party
    BY <1>2, <1>14 DEF G!Queue, G!shouldQueueAdmissionUpgrade
  <2>2. mut' \in [Mutators -> G!MutState]
    BY <1>1, <1>14 DEF G!Queue, G!MutState
  <2>3. pending' \in [G!Party -> Nat]
    BY <1>1, <1>9, <1>14, <2>1 DEF G!Queue
  <2>4. queue' \in [G!Party -> Seq(Mutators)]
    <3>1. queue[G!Ctx(m)] \in Seq(Mutators)
      BY <1>1, <2>1
    <3>2. Append(queue[G!Ctx(m)], m) \in Seq(Mutators)
      BY <3>1
    <3> QED BY <1>1, <1>14, <2>1, <3>2 DEF G!Queue
  <2> QED BY <1>1, <1>14, <2>2, <2>3, <2>4, <1>a DEF G!Queue, G!gate
<1>15. ASSUME NEW m \in Mutators, G!BeginLate(m) PROVE G!TypeOK'
  <2>1. mut' \in [Mutators -> G!MutState] /\ result' \in [Mutators -> G!Result]
    BY <1>1, <1>15 DEF G!BeginLate, G!MutState, G!Result
  <2> QED BY <1>1, <1>15, <2>1, <1>a DEF G!BeginLate, G!gate, G!lease
<1>16. ASSUME NEW m \in Mutators, G!TakeSlot(m)
       PROVE  /\ locked' \in [G!Party -> BOOLEAN] /\ pending' \in [G!Party -> Nat]
              /\ slot' \in [Mutators -> BOOLEAN]
              /\ finished' = finished /\ queue' = queue
  BY <1>1, <1>9, <1>16 DEF G!TakeSlot, G!Taking, G!shouldQueueAdmissionUpgrade
<1>17. ASSUME NEW m \in Mutators, G!GiveUpLease(m)
       PROVE  /\ upg' \in [Mutators -> BOOLEAN] /\ active' \in [G!Party -> BOOLEAN]
              /\ count' \in Nat
  <2>1. G!Upgrading(m) \in BOOLEAN
    BY DEF G!Upgrading
  <2>2. G!Upgrading(m) => count > 0
    BY <1>2, <1>3 DEF G!Upgrading
  <2>3. upg' \in [Mutators -> BOOLEAN] /\ active' \in [G!Party -> BOOLEAN]
    BY <1>1, <1>17, <2>1 DEF G!GiveUpLease
  <2> QED BY <1>1, <1>17, <2>2, <2>3 DEF G!GiveUpLease, G!CountWithout
<1>18. ASSUME NEW m \in Mutators, G!EnterClose(m) PROVE G!TypeOK'
  <2>1. mut' \in [Mutators -> G!MutState] /\ mutating' \in BOOLEAN
    BY <1>1, <1>8, <1>18 DEF G!EnterClose
  <2> QED BY <1>1, <1>18, <1>16, <1>17, <2>1, <1>a DEF G!EnterClose
<1>19. ASSUME NEW m \in Mutators, G!EnterWait(m) PROVE G!TypeOK'
  <2>1. mut' \in [Mutators -> G!MutState]
    <3>1. G!WakeDrain(mut, G!CountWithout(m)) \in [Mutators -> G!MutState]
      BY <1>1, <1>5
    <3> QED BY <3>1, <1>19 DEF G!EnterWait, G!MutState
  <2> QED BY <1>1, <1>19, <1>16, <1>17, <2>1, <1>a DEF G!EnterWait
<1>20. ASSUME NEW m \in Mutators, G!EnterConflict(m) PROVE G!TypeOK'
  <2>1. mut' \in [Mutators -> G!MutState] /\ result' \in [Mutators -> G!Result]
    BY <1>1, <1>8, <1>20 DEF G!EnterConflict, G!Result
  <2> QED BY <1>1, <1>20, <1>16, <2>1, <1>a DEF G!EnterConflict, G!gate
<1>21. ASSUME NEW m \in Mutators, G!EnterLate(m) PROVE G!TypeOK'
  <2>1. mut' \in [Mutators -> G!MutState] /\ result' \in [Mutators -> G!Result]
        /\ late' \in [Mutators -> BOOLEAN]
    BY <1>1, <1>8, <1>21 DEF G!EnterLate, G!Result
  <2> QED BY <1>1, <1>21, <1>16, <2>1, <1>a DEF G!EnterLate, G!gate
<1>22. ASSUME NEW m \in Mutators,
              G!OpenAgain(m) \/ G!OpenLate(m) \/ G!Run(m) \/ G!TimerWaiting(m) \/ G!OpenClose(m)
       PROVE  G!TypeOK'
  <2>1. /\ mut' \in [Mutators -> G!MutState] /\ result' \in [Mutators -> G!Result]
        /\ mutating' \in BOOLEAN
    <3>1. CASE G!OpenAgain(m) \/ G!Run(m)
      BY <1>1, <3>1 DEF G!OpenAgain, G!Run, G!gate, G!MutState
    <3>2. CASE G!OpenLate(m)
      BY <1>1, <1>8, <3>2 DEF G!OpenLate, G!gate, G!Result
    <3>3. CASE G!OpenClose(m)
      BY <1>1, <1>8, <3>3 DEF G!OpenClose
    <3>4. CASE G!TimerWaiting(m)
      BY <1>1, <3>4 DEF G!TimerWaiting, G!gate, G!MutState
    <3> QED BY <1>22, <3>1, <3>2, <3>3, <3>4
  <2> QED BY <1>1, <1>22, <2>1, <1>a DEF G!OpenAgain, G!OpenLate, G!Run, G!TimerWaiting, G!OpenClose,
                                        G!gate, G!lease
<1>23. ASSUME NEW m \in Mutators, G!Finish(m) \/ G!Rollback(m) PROVE G!TypeOK'
  <2>1. mut' \in [Mutators -> G!MutState] /\ result' \in [Mutators -> G!Result]
    <3>1. G!WakeOpen(mut) \in [Mutators -> G!MutState]
      BY <1>1, <1>6
    <3>2. mut' = [G!WakeOpen(mut) EXCEPT ![m] = G!Ended(m)]
      BY <1>23 DEF G!Finish, G!Rollback, G!Reopen
    <3>3. mut' \in [Mutators -> G!MutState]
      BY <1>8, <3>1, <3>2
    <3>4. result' \in [Mutators -> G!Result]
      BY <1>1, <1>23 DEF G!Finish, G!Rollback, G!Result
    <3> QED BY <3>3, <3>4
  <2>2. adm' \in [G!Party -> G!AdmState] /\ mutating' \in BOOLEAN /\ count' \in Nat
    <3>1. adm' \in [G!Party -> G!AdmState]
      BY <1>7, <1>23 DEF G!Finish, G!Rollback, G!Reopen
    <3>2. mutating' \in BOOLEAN
      BY <1>23 DEF G!Finish, G!Rollback, G!Reopen
    <3>3. count' \in {count, count + 1}
      BY <1>23 DEF G!Finish, G!Rollback, G!Reopen
    <3> QED BY <1>1, <3>1, <3>2, <3>3
  <2>3. active' \in [G!Party -> BOOLEAN]
    <3>1. G!TakesBack(m) \in BOOLEAN
      BY <1>1 DEF G!TakesBack
    <3> QED BY <1>1, <3>1, <1>23 DEF G!Finish, G!Rollback, G!Reopen
  <2> QED BY <1>1, <1>23, <2>1, <2>2, <2>3, <1>a DEF G!Finish, G!Rollback, G!lease
<1>24. ASSUME NEW m \in Mutators, G!ReleaseToNext(m) PROVE G!TypeOK'
  <2> DEFINE c == G!Ctx(m)
             next == Head(queue[c])
  <2>1. slot[m] /\ c \in G!Party /\ pending[c] > 0
    BY <1>4, <1>24 DEF GateInv, Calls, G!ReleaseToNext
  <2>2. queue[c] \in Seq(Mutators) /\ queue[c] # <<>>
    BY <1>1, <2>1, <1>24 DEF G!ReleaseToNext
  <2>3. next \in Mutators /\ Tail(queue[c]) \in Seq(Mutators)
    BY <2>2
  <2>4. queue' \in [G!Party -> Seq(Mutators)]
    BY <1>1, <2>1, <2>3, <1>24 DEF G!ReleaseToNext
  <2>5. pending' \in [G!Party -> Nat]
    BY <1>1, <1>9, <2>1, <1>24 DEF G!ReleaseToNext
  <2>6. slot' \in [Mutators -> BOOLEAN]
    BY <1>1, <2>3, <1>24 DEF G!ReleaseToNext
  <2>7. mut' \in [Mutators -> G!MutState] /\ result' \in [Mutators -> G!Result]
    BY <1>1, <2>3, <1>24 DEF G!ReleaseToNext, G!MutState, G!Result
  <2> QED BY <1>1, <1>24, <2>4, <2>5, <2>6, <2>7, <1>a DEF G!ReleaseToNext, G!gate
<1>25. ASSUME NEW m \in Mutators, G!ReleaseLast(m) PROVE G!TypeOK'
  <2>1. slot[m] /\ G!Ctx(m) \in G!Party /\ pending[G!Ctx(m)] > 0
    BY <1>4, <1>25 DEF GateInv, Calls, G!ReleaseLast
  <2>5. pending' \in [G!Party -> Nat] /\ locked' \in [G!Party -> BOOLEAN]
    BY <1>1, <1>9, <2>1, <1>25 DEF G!ReleaseLast
  <2>6. slot' \in [Mutators -> BOOLEAN]
    BY <1>1, <1>25 DEF G!ReleaseLast
  <2>7. mut' \in [Mutators -> G!MutState] /\ result' \in [Mutators -> G!Result]
    BY <1>1, <1>25 DEF G!ReleaseLast, G!MutState, G!Result
  <2> QED BY <1>1, <1>25, <2>5, <2>6, <2>7, <1>a DEF G!ReleaseLast, G!gate
<1>26. ASSUME NEW m \in Mutators, G!Deadline(m) PROVE G!TypeOK'
  <2>1. late' \in [Mutators -> BOOLEAN]
    BY <1>1, <1>26 DEF G!Deadline
  <2> QED BY <1>1, <1>26, <2>1, <1>a DEF G!Deadline, G!gate, G!lease
<1>27. ASSUME NEW m \in Mutators, G!TimerQueued(m) PROVE G!TypeOK'
  <2>1. G!Ctx(m) \in G!Party /\ pending[G!Ctx(m)] > 0
    BY <1>4, <1>27 DEF G!TimerQueued
  <2>2. pending' \in [G!Party -> Nat]
    BY <1>1, <1>9, <2>1, <1>27 DEF G!TimerQueued
  <2>3. PICK index \in DOMAIN queue[G!Ctx(m)] :
           queue' = [queue EXCEPT ![G!Ctx(m)] = G!Splice(@, index)]
    BY <1>27 DEF G!TimerQueued
  <2>4. queue[G!Ctx(m)] \in Seq(Mutators)
    BY <1>1, <2>1
  <2>5. G!Splice(queue[G!Ctx(m)], index) \in Seq(Mutators)
    BY <2>4 DEF G!Splice
  <2>6. queue' \in [G!Party -> Seq(Mutators)]
    BY <1>1, <2>1, <2>3, <2>5
  <2>7. mut' \in [Mutators -> G!MutState] /\ result' \in [Mutators -> G!Result]
    BY <1>1, <1>27 DEF G!TimerQueued, G!MutState, G!Result
  <2> QED BY <1>1, <1>27, <2>2, <2>6, <2>7, <1>a DEF G!TimerQueued, G!gate
<1> QED
  BY <1>10, <1>11, <1>12, <1>13, <1>14, <1>15, <1>18, <1>19, <1>20, <1>21, <1>22, <1>23, <1>24,
     <1>25, <1>26, <1>27
     DEF G!Next, G!AdmissionStep, G!MutationStep, G!TimeStep

-----------------------------------------------------------------------------
(* The steps that leave the leases alone.                                   *)
GateMoves(m) ==
    \/ G!Queue(m) \/ G!BeginLate(m) \/ G!EnterConflict(m) \/ G!EnterLate(m)
    \/ G!OpenAgain(m) \/ G!OpenClose(m) \/ G!OpenLate(m) \/ G!Run(m)
    \/ G!ReleaseLast(m) \/ G!Deadline(m) \/ G!TimerQueued(m) \/ G!TimerWaiting(m)

(* They touch the state of one call only, and a nested call moves only      *)
(* inside its admission.                                                    *)
LEMMA MovesOne ==
    ASSUME G!GateAssumption, GateInv, NEW m \in Mutators, GateMoves(m)
    PROVE  /\ active' = active /\ adm' = adm /\ finished' = finished /\ count' = count
           /\ upg' = upg
           /\ \A n \in Mutators : n # m => mut'[n] = mut[n]
           /\ mut'[m] # mut[m] /\ m \in Nested => adm[m] \in {"in", "direct"}
<1>1. mut \in [Mutators -> G!MutState] /\ adm \in [G!Party -> G!AdmState] /\ m \in G!Party
  BY GateVars, CtxRange DEF GateInv
<1>2. m \in Nested => /\ adm[m] \in {"none", "wait", "woken"} => mut[m] = "idle"
                      /\ adm[m] = "out" => mut[m] \in {"idle", "done"}
  BY DEF GateInv, LeaseShape
<1>3. G!CanBegin(m) /\ m \in Nested => adm[m] \in {"in", "direct"}
  BY DEF G!CanBegin
<1>4. mut[m] \notin {"idle", "done"} /\ m \in Nested => adm[m] \in {"in", "direct"}
  BY <1>1, <1>2 DEF G!AdmState
<1>5. CASE G!Queue(m) \/ G!BeginLate(m)
  BY <1>1, <1>3, <1>5 DEF G!Queue, G!BeginLate, G!gate, G!lease
<1>6. CASE G!EnterConflict(m) \/ G!EnterLate(m)
  <2>1. G!Entering(m) => (m \in Nested => adm[m] \in {"in", "direct"})
    BY <1>3, <1>4 DEF G!Entering
  <2> QED BY <1>1, <2>1, <1>6 DEF G!EnterConflict, G!EnterLate, G!TakeSlot, G!gate
<1>7. CASE G!OpenAgain(m) \/ G!OpenClose(m) \/ G!OpenLate(m) \/ G!Run(m)
  BY <1>1, <1>4, <1>7 DEF G!OpenAgain, G!OpenClose, G!OpenLate, G!Run, G!gate, G!lease
<1>8. CASE G!ReleaseLast(m) \/ G!TimerQueued(m)
  BY <1>1, <1>4, <1>8 DEF G!ReleaseLast, G!TimerQueued, G!gate
<1>9. CASE G!Deadline(m) \/ G!TimerWaiting(m)
  BY <1>1, <1>4, <1>9 DEF G!Deadline, G!TimerWaiting, G!gate, G!lease
<1> QED BY <1>5, <1>6, <1>7, <1>8, <1>9 DEF GateMoves

(* Entering gives a lease up, and wakes at most the mutation that drains.   *)
LEMMA EntersOne ==
    ASSUME G!GateAssumption, GateInv, NEW m \in Mutators, G!EnterClose(m) \/ G!EnterWait(m)
    PROVE  /\ adm' = adm /\ finished' = finished
           /\ \A p \in G!Party : active'[p] = (active[p] /\ ~(G!Upgrading(m) /\ p = G!Ctx(m)))
           /\ count' = G!CountWithout(m)
           /\ \A n \in Mutators : n # m => /\ upg'[n] = upg[n] /\ slot'[n] = slot[n]
                                           /\ \/ mut'[n] = mut[n]
                                              \/ /\ mut[n] = "drain_wait" /\ count' = 0
                                                 /\ mut'[n] \in {"drain_ok", "drain_late"}
           /\ upg'[m] = G!Upgrading(m)
           /\ slot'[m] = (slot[m] \/ G!Taking(m))
           /\ mut[m] \in {"idle", "slot"}
           /\ mut'[m] \in {"open_wait", "drain_wait", "drain_ok"}
           /\ m \in Nested => adm[m] \in {"in", "direct"}
           /\ G!Upgrading(m) => slot[m] \/ G!Taking(m)
           /\ late[m] = FALSE /\ late' = late
<1>1. /\ mut \in [Mutators -> G!MutState] /\ adm \in [G!Party -> G!AdmState] /\ m \in G!Party
      /\ slot \in [Mutators -> BOOLEAN] /\ upg \in [Mutators -> BOOLEAN]
      /\ active \in [G!Party -> BOOLEAN] /\ late \in [Mutators -> BOOLEAN]
  BY GateVars, CtxRange DEF GateInv
<1>2. m \in Nested => /\ adm[m] \in {"none", "wait", "woken"} => mut[m] = "idle"
                      /\ adm[m] = "out" => mut[m] \in {"idle", "done"}
  BY DEF GateInv, LeaseShape
<1>3. G!Entering(m) /\ G!TakeSlot(m) /\ G!GiveUpLease(m) /\ ~late[m] /\ late' = late /\ adm' = adm
  BY DEF G!EnterClose, G!EnterWait
<1>4. finished' = finished
  BY <1>3 DEF G!TakeSlot
<1>5. \A p \in G!Party : active'[p] = (active[p] /\ ~(G!Upgrading(m) /\ p = G!Ctx(m)))
  BY <1>3 DEF G!GiveUpLease
<1>6. count' = G!CountWithout(m)
  BY <1>3 DEF G!GiveUpLease
<1>7. \A n \in Mutators : n # m => upg'[n] = upg[n] /\ slot'[n] = slot[n]
  BY <1>1, <1>3 DEF G!GiveUpLease, G!TakeSlot
<1>8. upg'[m] = G!Upgrading(m) /\ slot'[m] = (slot[m] \/ G!Taking(m))
  BY <1>1, <1>3 DEF G!GiveUpLease, G!TakeSlot
<1>9. mut[m] \in {"idle", "slot"}
  BY <1>3 DEF G!Entering, G!CanBegin
<1>10. m \in Nested => adm[m] \in {"in", "direct"}
  <2>1. mut[m] = "slot" /\ m \in Nested => adm[m] \in {"in", "direct"}
    BY <1>1, <1>2 DEF G!AdmState
  <2> QED BY <1>3, <2>1 DEF G!Entering, G!CanBegin
<1>11. G!Upgrading(m) => slot[m] \/ G!Taking(m)
  <2> SUFFICES ASSUME G!Upgrading(m), mut[m] # "slot" PROVE G!Taking(m)
    BY DEF GateInv, Calls
  <2>1. G!Ctx(m) \in G!Party /\ active[G!Ctx(m)]
    BY CtxRange DEF G!Upgrading
  <2>2. ~finished[G!Ctx(m)]
    BY <2>1 DEF GateInv, LeaseShape
  <2>3. G!Ctx(m) # NoParent
    BY DEF G!Upgrading
  <2> QED BY <1>9, <2>1, <2>2, <2>3 DEF G!Taking, G!shouldQueueAdmissionUpgrade
<1>12. CASE G!EnterClose(m)
  <2>1. mut' = [mut EXCEPT ![m] = G!DrainState(G!CountWithout(m))]
    BY <1>12 DEF G!EnterClose
  <2>2. G!DrainState(G!CountWithout(m)) \in {"drain_wait", "drain_ok"}
    BY DEF G!DrainState
  <2> HIDE DEF G!DrainState
  <2> QED BY <1>1, <1>3, <1>4, <1>5, <1>6, <1>7, <1>8, <1>9, <1>10, <1>11, <2>1, <2>2
<1>13. CASE G!EnterWait(m)
  <2>1. mut' = [G!WakeDrain(mut, G!CountWithout(m)) EXCEPT ![m] = "open_wait"]
    BY <1>13 DEF G!EnterWait
  <2>2. mut'[m] = "open_wait"
    BY <2>1, <1>1 DEF G!WakeDrain
  <2>3. \A n \in Mutators : n # m => \/ mut'[n] = mut[n]
                                     \/ /\ mut[n] = "drain_wait" /\ count' = 0
                                        /\ mut'[n] \in {"drain_ok", "drain_late"}
    BY <2>1, <1>1, <1>6 DEF G!WakeDrain
  <2> QED BY <1>1, <1>3, <1>4, <1>5, <1>6, <1>7, <1>8, <1>9, <1>10, <1>11, <2>2, <2>3
<1> QED BY <1>12, <1>13

(* Reopening gives the lease back to a party that is still admitted.        *)
LEMMA ReopensOne ==
    ASSUME G!GateAssumption, GateInv, NEW m \in Mutators, G!Finish(m) \/ G!Rollback(m)
    PROVE  /\ mut[m] \in {"running", "drain_late", "drain_ok"}
           /\ finished' = finished /\ slot' = slot /\ upg' = upg /\ late' = late
           /\ \A p \in G!Party : active'[p] = (active[p] \/ (G!TakesBack(m) /\ p = G!Ctx(m)))
           /\ count' = IF G!TakesBack(m) THEN count + 1 ELSE count
           /\ mutating' = FALSE
           /\ \A n \in Mutators : n # m => \/ mut'[n] = mut[n]
                                           \/ /\ mut[n] = "open_wait"
                                              /\ \/ mut'[n] = "open_ok"
                                                 \/ mut'[n] = "open_late" /\ late[n]
           /\ mut'[m] = IF slot[m] THEN "leave" ELSE "done"
           /\ \A p \in G!Party : \/ adm'[p] = adm[p]
                                 \/ adm[p] = "wait" /\ adm'[p] = "woken"
           /\ G!TakesBack(m) => /\ G!Ctx(m) \in G!Party
                                /\ adm[G!Ctx(m)] = "in" /\ ~active[G!Ctx(m)]
                                /\ ~finished[G!Ctx(m)] /\ Carries(m)
<1>1. /\ mut \in [Mutators -> G!MutState] /\ adm \in [G!Party -> G!AdmState] /\ m \in G!Party
      /\ slot \in [Mutators -> BOOLEAN] /\ upg \in [Mutators -> BOOLEAN]
  BY GateVars, CtxRange DEF GateInv
<1>2. /\ mut[m] \in {"running", "drain_late", "drain_ok"} /\ G!Reopen(m)
      /\ finished' = finished /\ slot' = slot /\ upg' = upg /\ late' = late
  BY DEF G!Finish, G!Rollback, G!lease
<1>3. \A p \in G!Party : active'[p] = (active[p] \/ (G!TakesBack(m) /\ p = G!Ctx(m)))
  BY <1>2 DEF G!Reopen
<1>4. count' = (IF G!TakesBack(m) THEN count + 1 ELSE count) /\ mutating' = FALSE
  BY <1>2 DEF G!Reopen
<1>5. G!Ended(m) = IF slot[m] THEN "leave" ELSE "done"
  BY <1>2 DEF G!Ended, G!Taking
<1>6. mut' = [G!WakeOpen(mut) EXCEPT ![m] = G!Ended(m)]
  BY <1>2 DEF G!Reopen
<1>7. mut'[m] = IF slot[m] THEN "leave" ELSE "done"
  BY <1>1, <1>5, <1>6 DEF G!WakeOpen
<1>8. \A n \in Mutators : n # m => \/ mut'[n] = mut[n]
                                   \/ /\ mut[n] = "open_wait"
                                      /\ \/ mut'[n] = "open_ok"
                                         \/ mut'[n] = "open_late" /\ late[n]
  <2> HIDE DEF G!Ended
  <2> QED BY <1>1, <1>6 DEF G!WakeOpen
<1>9. \A p \in G!Party : \/ adm'[p] = adm[p]
                         \/ adm[p] = "wait" /\ adm'[p] = "woken"
  BY <1>1, <1>2 DEF G!Reopen, G!WakeAdmissions
<1>10. ASSUME G!TakesBack(m)
       PROVE  /\ G!Ctx(m) \in G!Party
              /\ adm[G!Ctx(m)] = "in" /\ ~active[G!Ctx(m)]
              /\ ~finished[G!Ctx(m)] /\ Carries(m)
  <2>1. Carries(m) /\ ~finished[G!Ctx(m)]
    BY <1>2, <1>10 DEF G!TakesBack, Carries, InCall
  <2>2. slot[m] /\ adm[G!Ctx(m)] = "in" /\ ~active[G!Ctx(m)]
    BY <2>1 DEF GateInv, Carriers
  <2>3. G!Ctx(m) \in G!Party
    BY <2>2, CtxRange DEF GateInv, Calls
  <2> QED BY <2>1, <2>2, <2>3
<1> QED BY <1>2, <1>3, <1>4, <1>7, <1>8, <1>9, <1>10

(* A slot is handed to a mutator that waits for it, and to no other.        *)
LEMMA HandsOn ==
    ASSUME G!GateAssumption, GateInv, NEW m \in Mutators, G!ReleaseToNext(m)
    PROVE  LET c == G!Ctx(m)
               next == Head(queue[c])
           IN  /\ c \in G!Party /\ queue[c] \in Seq(Mutators) /\ queue[c] # <<>>
               /\ next \in Mutators /\ next # m
               /\ mut[next] = "queued" /\ G!Ctx(next) = c
               /\ slot[m] /\ mut[m] \in {"leave", "slot_late"}
               /\ mut'[m] = "done"
               /\ mut'[next] = IF late[next] THEN "slot_late" ELSE "slot"
               /\ slot'[m] = FALSE /\ slot'[next] = TRUE
               /\ \A n \in Mutators \ {m, next} : mut'[n] = mut[n] /\ slot'[n] = slot[n]
               /\ active' = active /\ adm' = adm /\ finished' = finished /\ count' = count
               /\ upg' = upg /\ late' = late /\ locked' = locked /\ mutating' = mutating
               /\ queue' = [queue EXCEPT ![c] = Tail(queue[c])]
               /\ pending' = [pending EXCEPT ![c] = pending[c] - 1]
<1> DEFINE c == G!Ctx(m)
           next == Head(queue[c])
<1>1. /\ mut \in [Mutators -> G!MutState] /\ slot \in [Mutators -> BOOLEAN]
      /\ queue \in [G!Party -> Seq(Mutators)]
  BY GateVars DEF GateInv
<1>2. mut[m] \in {"leave", "slot_late"} /\ queue[c] # <<>>
  BY DEF G!ReleaseToNext
<1>3. slot[m] /\ c \in G!Party
  BY <1>2, CtxRange DEF GateInv, Calls
<1>4. queue[c] \in Seq(Mutators)
  BY <1>1, <1>3
<1>5. next \in Mutators /\ 1 \in DOMAIN queue[c] /\ next = queue[c][1]
  BY <1>2, <1>4
<1>6. mut[next] = "queued" /\ G!Ctx(next) = c
  <2>1. \A n \in Mutators : (\E i \in DOMAIN queue[c] : queue[c][i] = n) => (mut[n] = "queued" /\ G!Ctx(n) = c)
    BY <1>3 DEF GateInv, G!SlotOwned
  <2> QED BY <1>5, <2>1
<1>7. next # m
  BY <1>2, <1>6
<1>8. /\ mut' = [mut EXCEPT ![m] = "done", ![next] = IF late[next] THEN "slot_late" ELSE "slot"]
      /\ slot' = [slot EXCEPT ![m] = FALSE, ![next] = TRUE]
      /\ queue' = [queue EXCEPT ![c] = Tail(queue[c])]
      /\ pending' = [pending EXCEPT ![c] = pending[c] - 1]
      /\ active' = active /\ adm' = adm /\ finished' = finished /\ count' = count
      /\ upg' = upg /\ late' = late /\ locked' = locked /\ mutating' = mutating
  BY DEF G!ReleaseToNext, G!gate
<1> HIDE DEF c, next
<1>9. /\ mut'[m] = "done"
      /\ mut'[next] = IF late[next] THEN "slot_late" ELSE "slot"
      /\ slot'[m] = FALSE /\ slot'[next] = TRUE
      /\ \A n \in Mutators \ {m, next} : mut'[n] = mut[n] /\ slot'[n] = slot[n]
  BY <1>1, <1>5, <1>7, <1>8
<1>10. c = G!Ctx(m) /\ next = Head(queue[c])
  BY DEF c, next
<1> QED BY <1>2, <1>3, <1>4, <1>5, <1>6, <1>7, <1>8, <1>9, <1>10

-----------------------------------------------------------------------------
(* The steps of the gate, by what they do to the leases.                    *)
LEMMA GateSplit ==
    ASSUME G!Next
    PROVE  \/ \E p \in G!Party : \/ G!AdmitDirect(p) \/ G!AdmitWait(p) \/ G!LeaveDirect(p)
                                 \/ G!Admit(p) \/ G!Leave(p) \/ G!LeaveReleased(p)
           \/ \E m \in Mutators : \/ GateMoves(m) \/ G!EnterClose(m) \/ G!EnterWait(m)
                                  \/ G!Finish(m) \/ G!Rollback(m) \/ G!ReleaseToNext(m)
  BY DEF G!Next, G!AdmissionStep, G!MutationStep, G!TimeStep, GateMoves

(* Leases stay where the admissions are.                                    *)
LEMMA LeaseShapeStep ==
    ASSUME G!GateAssumption, GateInv, G!Next
    PROVE  LeaseShape'
<1>1. /\ adm \in [G!Party -> G!AdmState] /\ mut \in [Mutators -> G!MutState]
      /\ active \in [G!Party -> BOOLEAN] /\ finished \in [G!Party -> BOOLEAN]
      /\ Handlers \cap Mutators = {} /\ Nested \subseteq Mutators
      /\ Handlers \subseteq G!Party /\ Mutators \subseteq G!Party
  BY GateVars DEF GateInv, G!GateAssumption, G!Party
<1>2. /\ \A p \in G!Party : (active[p] => adm[p] = "in") /\ (finished[p] => adm[p] = "out")
      /\ \A p \in Handlers : adm[p] # "direct" /\ (adm[p] = "out" => finished[p])
      /\ \A m \in Mutators : m \notin Nested => adm[m] = "none"
      /\ \A m \in Nested : /\ adm[m] \in {"none", "wait", "woken"} => mut[m] = "idle"
                           /\ adm[m] = "out" => mut[m] \in {"idle", "done"}
  BY DEF GateInv, LeaseShape
<1>3. ASSUME NEW p \in G!Party, G!AdmitDirect(p) PROVE LeaseShape'
  <2>1. adm' = [adm EXCEPT ![p] = "direct"] /\ adm[p] = "none" /\ p \in Nested
        /\ active' = active /\ finished' = finished /\ mut' = mut
    BY <1>3 DEF G!AdmitDirect, G!gate, G!lease
  <2> QED BY <1>1, <1>2, <2>1 DEF LeaseShape
<1>4. ASSUME NEW p \in G!Party, G!AdmitWait(p) PROVE LeaseShape'
  <2>1. adm' = [adm EXCEPT ![p] = "wait"] /\ adm[p] \in {"none", "woken"}
        /\ active' = active /\ finished' = finished /\ mut' = mut
        /\ (adm[p] = "none" => p \in Handlers \cup Nested)
    BY <1>4 DEF G!AdmitWait, G!AtGate, G!gate, G!lease
  <2> QED BY <1>1, <1>2, <2>1 DEF LeaseShape
<1>5. ASSUME NEW p \in G!Party, G!LeaveDirect(p) PROVE LeaseShape'
  <2>1. adm' = [adm EXCEPT ![p] = "out"] /\ adm[p] = "direct"
        /\ active' = active /\ finished' = finished /\ mut' = mut
        /\ (p \in Mutators => mut[p] \in {"idle", "done"})
    BY <1>5 DEF G!LeaveDirect, G!ActionEnded, G!gate, G!lease
  <2> QED BY <1>1, <1>2, <2>1 DEF LeaseShape
<1>6. ASSUME NEW p \in G!Party, G!Admit(p) PROVE LeaseShape'
  <2>1. adm' = [adm EXCEPT ![p] = "in"] /\ adm[p] \in {"none", "woken"}
        /\ active' = [active EXCEPT ![p] = TRUE] /\ finished' = finished /\ mut' = mut
        /\ (adm[p] = "none" => p \in Handlers \cup Nested)
    BY <1>6 DEF G!Admit, G!AtGate, G!lease
  <2> QED BY <1>1, <1>2, <2>1 DEF LeaseShape
<1>7. ASSUME NEW p \in G!Party, G!Leave(p) \/ G!LeaveReleased(p) PROVE LeaseShape'
  <2>1. /\ adm' = [adm EXCEPT ![p] = "out"] /\ adm[p] = "in"
        /\ finished' = [finished EXCEPT ![p] = TRUE]
        /\ (p \in Mutators => mut[p] \in {"idle", "done"})
    BY <1>7 DEF G!Leave, G!LeaveReleased, G!ActionEnded
  <2>2. \A q \in G!Party : active'[q] => active[q] /\ q # p
    BY <1>1, <1>7 DEF G!Leave, G!LeaveReleased, G!gate
  <2>3. \A n \in Mutators : mut'[n] # mut[n] => mut[n] = "drain_wait"
    BY <1>1, <1>7 DEF G!Leave, G!LeaveReleased, G!WakeDrain
  <2> QED BY <1>1, <1>2, <2>1, <2>2, <2>3 DEF LeaseShape
<1>8. ASSUME NEW m \in Mutators, GateMoves(m) PROVE LeaseShape'
  <2>1. /\ active' = active /\ adm' = adm /\ finished' = finished
        /\ \A n \in Mutators : n # m => mut'[n] = mut[n]
        /\ mut'[m] # mut[m] /\ m \in Nested => adm[m] \in {"in", "direct"}
    BY <1>8, MovesOne
  <2> QED BY <1>1, <1>2, <2>1 DEF LeaseShape
<1>9. ASSUME NEW m \in Mutators, G!EnterClose(m) \/ G!EnterWait(m) PROVE LeaseShape'
  <2>1. /\ adm' = adm /\ finished' = finished
        /\ \A p \in G!Party : active'[p] => active[p]
        /\ \A n \in Mutators : n # m => mut'[n] = mut[n] \/ mut[n] = "drain_wait"
        /\ m \in Nested => adm[m] \in {"in", "direct"}
    BY <1>9, EntersOne
  <2> QED BY <1>1, <1>2, <2>1 DEF LeaseShape
<1>10. ASSUME NEW m \in Mutators, G!Finish(m) \/ G!Rollback(m) PROVE LeaseShape'
  <2>1. /\ finished' = finished
        /\ \A p \in G!Party : active'[p] => active[p] \/ adm[p] = "in"
        /\ \A n \in Mutators : n # m => mut'[n] = mut[n] \/ mut[n] = "open_wait"
        /\ mut[m] \in {"running", "drain_late", "drain_ok"}
        /\ \A p \in G!Party : \/ adm'[p] = adm[p]
                              \/ adm[p] = "wait" /\ adm'[p] = "woken"
    BY <1>10, ReopensOne
  <2> QED BY <1>1, <1>2, <2>1 DEF LeaseShape, G!AdmState
<1>11. ASSUME NEW m \in Mutators, G!ReleaseToNext(m) PROVE LeaseShape'
  <2>1. PICK next \in Mutators :
           /\ mut[next] = "queued" /\ mut[m] \in {"leave", "slot_late"}
           /\ \A n \in Mutators \ {m, next} : mut'[n] = mut[n]
           /\ active' = active /\ adm' = adm /\ finished' = finished
    BY <1>11, HandsOn
  <2> QED BY <1>1, <1>2, <2>1 DEF LeaseShape
<1> QED BY GateSplit, <1>3, <1>4, <1>5, <1>6, <1>7, <1>8, <1>9, <1>10, <1>11

(* Counting leases: one is added, one is removed, or none.                  *)
LEMMA CountStep ==
    ASSUME G!GateAssumption, GateInv, G!Next
    PROVE  G!CountTrue'
<1> DEFINE S == {p \in G!Party : active[p]}
<1>1. /\ active \in [G!Party -> BOOLEAN] /\ count \in Nat /\ mut \in [Mutators -> G!MutState]
      /\ adm \in [G!Party -> G!AdmState]
  BY GateVars DEF GateInv
<1>2. IsFiniteSet(S) /\ count = Cardinality(S)
  BY PartyFinite, GateCardinality, FS_Subset, S \in SUBSET G!Party DEF GateInv, G!CountTrue
<1>3. ASSUME NEW p \in G!Party, ~active[p], count' = count + 1,
             \A q \in G!Party : active'[q] = (active[q] \/ q = p)
      PROVE  G!CountTrue'
  <2>1. S' = S \cup {p} /\ p \notin S
    BY <1>3
  <2>2. Cardinality(S \cup {p}) = Cardinality(S) + 1
    BY <1>2, <2>1, FS_AddElement
  <2> QED BY <1>2, <1>3, <2>1, <2>2, GateCardinality DEF G!CountTrue
<1>4. ASSUME NEW p \in G!Party, active[p], count' = count - 1,
             \A q \in G!Party : active'[q] = (active[q] /\ q # p)
      PROVE  G!CountTrue'
  <2>1. S' = S \ {p} /\ p \in S
    BY <1>4
  <2>2. Cardinality(S \ {p}) = Cardinality(S) - 1
    BY <1>2, <2>1, FS_RemoveElement
  <2> QED BY <1>2, <1>4, <2>1, <2>2, GateCardinality DEF G!CountTrue
<1>5. ASSUME count' = count, \A q \in G!Party : active'[q] = active[q]
      PROVE  G!CountTrue'
  <2>1. S' = S
    BY <1>5
  <2> QED BY <1>2, <1>5, <2>1, GateCardinality DEF G!CountTrue
<1>6. ASSUME NEW p \in G!Party,
             G!AdmitDirect(p) \/ G!AdmitWait(p) \/ G!LeaveDirect(p) \/ G!LeaveReleased(p)
      PROVE  G!CountTrue'
  BY <1>5, <1>6 DEF G!AdmitDirect, G!AdmitWait, G!LeaveDirect, G!LeaveReleased, G!gate
<1>7. ASSUME NEW p \in G!Party, G!Admit(p) PROVE G!CountTrue'
  <2>1. ~active[p]
    BY <1>1, <1>7 DEF G!Admit, G!AtGate, GateInv, LeaseShape
  <2> QED BY <1>1, <1>3, <1>7, <2>1 DEF G!Admit
<1>8. ASSUME NEW p \in G!Party, G!Leave(p) PROVE G!CountTrue'
  BY <1>1, <1>4, <1>8 DEF G!Leave
<1>9. ASSUME NEW m \in Mutators, GateMoves(m) PROVE G!CountTrue'
  BY <1>5, <1>9, MovesOne
<1>10. ASSUME NEW m \in Mutators, G!EnterClose(m) \/ G!EnterWait(m) PROVE G!CountTrue'
  <2>1. /\ \A p \in G!Party : active'[p] = (active[p] /\ ~(G!Upgrading(m) /\ p = G!Ctx(m)))
        /\ count' = G!CountWithout(m)
    BY <1>10, EntersOne
  <2>2. CASE G!Upgrading(m)
    <3>1. G!Ctx(m) \in G!Party /\ active[G!Ctx(m)]
      BY <2>2, CtxRange DEF G!Upgrading
    <3> QED BY <1>1, <1>4, <2>1, <2>2, <3>1 DEF G!CountWithout
  <2>3. CASE ~G!Upgrading(m)
    BY <1>1, <1>5, <2>1, <2>3 DEF G!CountWithout
  <2> QED BY <2>2, <2>3
<1>11. ASSUME NEW m \in Mutators, G!Finish(m) \/ G!Rollback(m) PROVE G!CountTrue'
  <2>1. /\ \A p \in G!Party : active'[p] = (active[p] \/ (G!TakesBack(m) /\ p = G!Ctx(m)))
        /\ count' = (IF G!TakesBack(m) THEN count + 1 ELSE count)
        /\ G!TakesBack(m) => G!Ctx(m) \in G!Party /\ ~active[G!Ctx(m)]
    BY <1>11, ReopensOne
  <2>2. CASE G!TakesBack(m)
    BY <1>1, <1>3, <2>1, <2>2
  <2>3. CASE ~G!TakesBack(m)
    BY <1>1, <1>5, <2>1, <2>3
  <2> QED BY <2>2, <2>3
<1>12. ASSUME NEW m \in Mutators, G!ReleaseToNext(m) PROVE G!CountTrue'
  BY <1>5, <1>12, HandsOn
<1> QED BY GateSplit, <1>6, <1>7, <1>8, <1>9, <1>10, <1>11, <1>12

-----------------------------------------------------------------------------
(* What a call holds follows from where it is.                              *)
LEMMA CallsStep ==
    ASSUME G!GateAssumption, GateInv, G!Next
    PROVE  Calls'
<1>1. /\ mut \in [Mutators -> G!MutState] /\ slot \in [Mutators -> BOOLEAN]
      /\ upg \in [Mutators -> BOOLEAN] /\ late \in [Mutators -> BOOLEAN]
  BY GateVars DEF GateInv
<1>2. \A n \in Mutators :
        /\ mut[n] \in {"idle", "queued", "done"} => ~slot[n]
        /\ mut[n] \in {"slot", "slot_late", "leave"} => slot[n]
        /\ slot[n] \/ mut[n] = "queued" => G!Ctx(n) # NoParent
        /\ late[n] => n \in Bounded
        /\ mut[n] = "open_late" => late[n]
        /\ mut[n] \in {"idle", "queued", "slot", "slot_late"} => ~upg[n]
  BY DEF GateInv, Calls
<1>3. \A n \in Mutators : mut[n] \notin {"idle", "done"} \/ mut'[n] \notin {"idle", "done"}
                             => G!Ctx(n)' = G!Ctx(n)
  BY CtxKept
<1>4. SUFFICES ASSUME NEW n \in Mutators
               PROVE  /\ mut'[n] \in {"idle", "queued", "done"} => ~slot'[n]
                      /\ mut'[n] \in {"slot", "slot_late", "leave"} => slot'[n]
                      /\ slot'[n] \/ mut'[n] = "queued" => G!Ctx(n)' # NoParent
                      /\ late'[n] => n \in Bounded
                      /\ mut'[n] = "open_late" => late'[n]
                      /\ mut'[n] \in {"idle", "queued", "slot", "slot_late"} => ~upg'[n]
  BY DEF Calls
<1> DEFINE Good == /\ mut'[n] \in {"idle", "queued", "done"} => ~slot'[n]
                   /\ mut'[n] \in {"slot", "slot_late", "leave"} => slot'[n]
                   /\ slot'[n] \/ mut'[n] = "queued" => G!Ctx(n) # NoParent
                   /\ late'[n] => n \in Bounded
                   /\ mut'[n] = "open_late" => late'[n]
                   /\ mut'[n] \in {"idle", "queued", "slot", "slot_late"} => ~upg'[n]
<1>5. SUFFICES Good
  BY <1>3
<1>6. ASSUME mut'[n] = mut[n] \/ (mut[n] \in {"drain_wait", "open_wait"}
                                  /\ mut'[n] \in {"drain_ok", "drain_late", "open_ok"})
                              \/ (mut[n] = "open_wait" /\ mut'[n] = "open_late" /\ late[n]),
             slot'[n] = slot[n], upg'[n] = upg[n], late'[n] = late[n]
      PROVE  Good
  BY <1>2, <1>6
<1>7. ASSUME NEW p \in G!Party,
             \/ G!AdmitDirect(p) \/ G!AdmitWait(p) \/ G!LeaveDirect(p)
             \/ G!Admit(p) \/ G!LeaveReleased(p)
      PROVE  Good
  BY <1>6, <1>7 DEF G!AdmitDirect, G!AdmitWait, G!LeaveDirect, G!Admit, G!LeaveReleased
<1>8. ASSUME NEW p \in G!Party, G!Leave(p) PROVE Good
  <2>1. mut'[n] = mut[n] \/ (mut[n] = "drain_wait" /\ mut'[n] \in {"drain_ok", "drain_late"})
    BY <1>1, <1>8 DEF G!Leave, G!WakeDrain
  <2> QED BY <1>6, <2>1, <1>8 DEF G!Leave
<1>9. ASSUME NEW m \in Mutators, G!EnterClose(m) \/ G!EnterWait(m) PROVE Good
  <2>1. CASE n # m
    BY <1>6, <2>1, <1>9, EntersOne
  <2>2. CASE n = m
    <3>1. /\ mut'[m] \in {"open_wait", "drain_wait", "drain_ok"}
          /\ slot'[m] = (slot[m] \/ G!Taking(m)) /\ late' = late
      BY <1>9, EntersOne
    <3>2. G!Taking(m) => G!Ctx(m) # NoParent
      BY DEF G!Taking, G!shouldQueueAdmissionUpgrade
    <3> QED BY <1>2, <2>2, <3>1, <3>2
  <2> QED BY <2>1, <2>2
<1>10. ASSUME NEW m \in Mutators, G!Finish(m) \/ G!Rollback(m) PROVE Good
  <2>1. CASE n # m
    BY <1>6, <2>1, <1>10, ReopensOne
  <2>2. CASE n = m
    <3>1. /\ mut'[m] = (IF slot[m] THEN "leave" ELSE "done")
          /\ slot' = slot /\ upg' = upg /\ late' = late
      BY <1>10, ReopensOne
    <3> QED BY <1>2, <2>2, <3>1
  <2> QED BY <2>1, <2>2
<1>11. ASSUME NEW m \in Mutators, G!ReleaseToNext(m) PROVE Good
  <2> DEFINE next == Head(queue[G!Ctx(m)])
  <2>1. /\ next \in Mutators /\ next # m
        /\ mut[next] = "queued"
        /\ mut'[m] = "done" /\ slot'[m] = FALSE
        /\ mut'[next] = (IF late[next] THEN "slot_late" ELSE "slot") /\ slot'[next] = TRUE
        /\ \A k \in Mutators \ {m, next} : mut'[k] = mut[k] /\ slot'[k] = slot[k]
        /\ upg' = upg /\ late' = late
    BY <1>11, HandsOn
  <2> HIDE DEF next
  <2>2. CASE n = m
    BY <1>2, <2>1, <2>2
  <2>3. CASE n = next
    BY <1>2, <2>1, <2>3
  <2>4. CASE n \notin {m, next}
    BY <1>6, <2>1, <2>4
  <2> QED BY <2>2, <2>3, <2>4
<1>12. ASSUME NEW m \in Mutators, GateMoves(m) PROVE Good
  <2>1. CASE G!Queue(m)
    <3>1. mut' = [mut EXCEPT ![m] = "queued"] /\ mut[m] = "idle" /\ G!Ctx(m) # NoParent
          /\ slot' = slot /\ upg' = upg /\ late' = late
      BY <2>1 DEF G!Queue, G!CanBegin, G!shouldQueueAdmissionUpgrade
    <3> QED BY <1>1, <1>2, <3>1
  <2>2. CASE G!BeginLate(m)
    <3>1. mut' = [mut EXCEPT ![m] = "done"] /\ mut[m] = "idle"
          /\ slot' = slot /\ upg' = upg /\ late' = late
      BY <2>2 DEF G!BeginLate, G!CanBegin, G!lease
    <3> QED BY <1>1, <1>2, <3>1
  <2>3. CASE G!EnterConflict(m) \/ G!EnterLate(m)
    <3>1. /\ mut' = [mut EXCEPT ![m] = G!Ended(m)]
          /\ slot' = [slot EXCEPT ![m] = slot[m] \/ G!Taking(m)]
          /\ upg' = upg /\ m \in Bounded
      BY <2>3 DEF G!EnterConflict, G!EnterLate, G!TakeSlot
    <3>2. mut'[m] = (IF slot'[m] THEN "leave" ELSE "done") /\ slot'[m] = (slot[m] \/ G!Taking(m))
      <4>1. slot'[m] = (slot[m] \/ G!Taking(m)) /\ mut'[m] = G!Ended(m)
        BY <1>1, <3>1
      <4>2. G!Ended(m) = IF slot[m] \/ G!Taking(m) THEN "leave" ELSE "done"
        BY DEF G!Ended
      <4> QED BY <4>1, <4>2
    <3>3. G!Taking(m) => G!Ctx(m) # NoParent
      BY DEF G!Taking, G!shouldQueueAdmissionUpgrade
    <3>4. late' = late \/ late' = [late EXCEPT ![m] = TRUE]
      BY <2>3 DEF G!EnterConflict, G!EnterLate
    <3>5. n # m => mut'[n] = mut[n] /\ slot'[n] = slot[n] /\ late'[n] = late[n]
      BY <1>1, <3>1, <3>4
    <3>6. late'[n] => n \in Bounded
      BY <1>1, <1>2, <3>1, <3>4
    <3>7. CASE n = m
      <4>1. CASE slot[m] \/ G!Taking(m)
        <5>1. slot'[m] = TRUE /\ mut'[m] = "leave"
          BY <3>2, <4>1
        <5>2. G!Ctx(m) # NoParent
          BY <1>2, <3>3, <4>1
        <5> QED BY <3>6, <3>7, <5>1, <5>2
      <4>2. CASE ~(slot[m] \/ G!Taking(m))
        <5>1. slot'[m] = FALSE /\ mut'[m] = "done"
          BY <3>2, <4>2
        <5> QED BY <3>6, <3>7, <5>1
      <4> QED BY <4>1, <4>2
    <3>8. CASE n # m
      BY <1>6, <3>1, <3>5, <3>8
    <3> QED BY <3>7, <3>8
  <2>4. CASE G!OpenLate(m)
    <3>1. /\ mut[m] \in {"open_late", "open_ok"}
          /\ mut' = [mut EXCEPT ![m] = G!Ended(m)]
          /\ slot' = slot /\ upg' = upg /\ late' = late
      BY <2>4 DEF G!OpenLate
    <3>2. mut'[m] = IF slot[m] THEN "leave" ELSE "done"
      BY <1>1, <3>1 DEF G!Ended, G!Taking
    <3>3. n # m => mut'[n] = mut[n]
      BY <1>1, <3>1
    <3> QED BY <1>2, <1>6, <3>1, <3>2, <3>3
  <2>5. CASE G!OpenAgain(m) \/ G!Run(m) \/ G!OpenClose(m)
    <3>1. /\ mut[m] \in {"drain_ok", "open_ok"}
          /\ mut' \in {[mut EXCEPT ![m] = "open_wait"], [mut EXCEPT ![m] = "running"],
                       [mut EXCEPT ![m] = G!DrainState(count)]}
          /\ slot' = slot /\ upg' = upg /\ late' = late
      BY <2>5 DEF G!OpenAgain, G!Run, G!OpenClose
    <3>2. mut'[m] \in {"open_wait", "running", "drain_wait", "drain_ok"}
      BY <1>1, <3>1 DEF G!DrainState
    <3>3. n # m => mut'[n] = mut[n]
      BY <1>1, <3>1
    <3> QED BY <1>2, <1>6, <3>1, <3>2, <3>3
  <2>6. CASE G!ReleaseLast(m)
    <3>1. /\ mut[m] \in {"leave", "slot_late"}
          /\ mut' = [mut EXCEPT ![m] = "done"] /\ slot' = [slot EXCEPT ![m] = FALSE]
          /\ upg' = upg /\ late' = late
      BY <2>6 DEF G!ReleaseLast
    <3> QED BY <1>1, <1>2, <3>1
  <2>7. CASE G!TimerQueued(m)
    <3>1. mut[m] = "queued" /\ mut' = [mut EXCEPT ![m] = "done"]
          /\ slot' = slot /\ upg' = upg /\ late' = late
      BY <2>7 DEF G!TimerQueued
    <3> QED BY <1>1, <1>2, <3>1
  <2>8. CASE G!TimerWaiting(m)
    <3>1. /\ mut[m] \in {"open_wait", "drain_wait"} /\ late[m]
          /\ mut' = [mut EXCEPT ![m] = IF mut[m] = "open_wait" THEN "open_late" ELSE "drain_late"]
          /\ slot' = slot /\ upg' = upg /\ late' = late
      BY <2>8 DEF G!TimerWaiting
    <3> QED BY <1>1, <1>2, <3>1
  <2>9. CASE G!Deadline(m)
    <3>1. m \in Bounded /\ late' = [late EXCEPT ![m] = TRUE]
          /\ mut' = mut /\ slot' = slot /\ upg' = upg
      BY <2>9 DEF G!Deadline
    <3> QED BY <1>1, <1>2, <3>1
  <2> QED BY <1>12, <2>1, <2>2, <2>3, <2>4, <2>5, <2>6, <2>7, <2>8, <2>9 DEF GateMoves
<1> QED BY GateSplit, <1>7, <1>8, <1>9, <1>10, <1>11, <1>12

(* The gate is closed by one mutation at a time, and the action of that one *)
(* starts when no lease is active.                                          *)
LEMMA OwnedStep ==
    ASSUME G!GateAssumption, GateInv, G!Next
    PROVE  G!GateOwned' /\ Drained'
<1>1. /\ mut \in [Mutators -> G!MutState] /\ count \in Nat /\ mutating \in BOOLEAN
      /\ active \in [G!Party -> BOOLEAN]
  BY GateVars DEF GateInv
<1>2. /\ mutating <=> \E m \in Mutators : mut[m] \in G!Owns
      /\ \A m, n \in Mutators : mut[m] \in G!Owns /\ mut[n] \in G!Owns => m = n
      /\ \A m \in Mutators : mut[m] \in {"drain_ok", "running"} => count = 0
  BY DEF GateInv, G!GateOwned, Drained
<1>3. \A p \in G!Party : active[p] => count # 0
  <2> DEFINE S == {p \in G!Party : active[p]}
  <2>1. IsFiniteSet(S) /\ count = Cardinality(S)
    BY PartyFinite, GateCardinality, FS_Subset, S \in SUBSET G!Party DEF GateInv, G!CountTrue
  <2>2. count = 0 => S = {}
    BY <2>1, FS_EmptySet
  <2> QED BY <2>2
<1>4. ASSUME mutating' = mutating,
             \A n \in Mutators : (mut'[n] \in G!Owns) <=> (mut[n] \in G!Owns),
             \A n \in Mutators : mut'[n] \in {"drain_ok", "running"} =>
                 count' = 0 \/ (mut[n] \in {"drain_ok", "running"} /\ count' = count)
      PROVE  G!GateOwned' /\ Drained'
  BY <1>2, <1>4 DEF G!GateOwned, Drained
<1>5. ASSUME NEW p \in G!Party,
             G!AdmitDirect(p) \/ G!AdmitWait(p) \/ G!LeaveDirect(p) \/ G!LeaveReleased(p)
      PROVE  G!GateOwned' /\ Drained'
  BY <1>4, <1>5 DEF G!AdmitDirect, G!AdmitWait, G!LeaveDirect, G!LeaveReleased, G!gate
<1>6. ASSUME NEW p \in G!Party, G!Admit(p) PROVE G!GateOwned' /\ Drained'
  <2>1. \A n \in Mutators : mut[n] \notin {"drain_ok", "running"}
    BY <1>2, <1>6 DEF G!Admit, G!Owns
  <2> QED BY <1>4, <1>6, <2>1 DEF G!Admit
<1>7. ASSUME NEW p \in G!Party, G!Leave(p) PROVE G!GateOwned' /\ Drained'
  <2>1. \A n \in Mutators : mut'[n] = mut[n]
                            \/ (mut[n] = "drain_wait" /\ mut'[n] \in {"drain_ok", "drain_late"} /\ count' = 0)
    BY <1>1, <1>7 DEF G!Leave, G!WakeDrain
  <2>2. \A n \in Mutators : mut[n] \notin {"drain_ok", "running"}
    BY <1>2, <1>3, <1>7 DEF G!Leave
  <2>3. mutating' = mutating
    BY <1>7 DEF G!Leave
  <2> QED BY <1>4, <2>1, <2>2, <2>3 DEF G!Owns
<1>8. ASSUME NEW m \in Mutators, GateMoves(m) PROVE G!GateOwned' /\ Drained'
  <2>1. count' = count /\ \A n \in Mutators : n # m => mut'[n] = mut[n]
    BY <1>8, MovesOne
  <2>2. CASE G!OpenClose(m)
    <3>1. /\ mut' = [mut EXCEPT ![m] = G!DrainState(count)] /\ ~mutating /\ mutating' = TRUE
      BY <2>2 DEF G!OpenClose
    <3>2. /\ mut'[m] \in {"drain_wait", "drain_ok"} /\ (mut'[m] = "drain_ok" => count = 0)
      BY <1>1, <3>1 DEF G!DrainState
    <3>3. \A n \in Mutators : mut[n] \notin G!Owns
      BY <1>2, <3>1
    <3>4. \A n \in Mutators : mut'[n] \in G!Owns <=> n = m
      BY <2>1, <3>2, <3>3 DEF G!Owns
    <3>5. Drained'
      BY <2>1, <3>2, <3>3 DEF G!Owns, Drained
    <3>6. G!GateOwned'
      BY <3>1, <3>4 DEF G!GateOwned
    <3> QED BY <3>5, <3>6
  <2>3. CASE ~G!OpenClose(m)
    <3>1. mutating' = mutating
      BY <1>8, <2>3 DEF GateMoves, G!Queue, G!BeginLate, G!EnterConflict, G!EnterLate, G!OpenAgain,
         G!OpenLate, G!Run, G!ReleaseLast, G!Deadline, G!TimerQueued, G!TimerWaiting, G!gate
    <3>2. \/ mut'[m] \notin G!Owns /\ mut[m] \notin G!Owns
          \/ mut'[m] = mut[m]
          \/ mut[m] = "drain_ok" /\ mut'[m] = "running"
          \/ mut[m] = "drain_wait" /\ mut'[m] = "drain_late"
      <4>1. G!Ended(m) \in {"leave", "done"}
        BY DEF G!Ended
      <4>2. CASE G!Queue(m) \/ G!BeginLate(m)
        BY <1>1, <4>2 DEF G!Queue, G!BeginLate, G!CanBegin, G!Owns
      <4>3. CASE G!EnterConflict(m) \/ G!EnterLate(m)
        BY <1>1, <4>1, <4>3 DEF G!EnterConflict, G!EnterLate, G!Entering, G!CanBegin, G!Owns
      <4>4. CASE G!OpenAgain(m) \/ G!OpenLate(m) \/ G!Run(m)
        BY <1>1, <4>1, <4>4 DEF G!OpenAgain, G!OpenLate, G!Run, G!Owns
      <4>5. CASE G!ReleaseLast(m) \/ G!TimerQueued(m)
        BY <1>1, <4>5 DEF G!ReleaseLast, G!TimerQueued, G!Owns
      <4>6. CASE G!Deadline(m) \/ G!TimerWaiting(m)
        BY <1>1, <4>6 DEF G!Deadline, G!TimerWaiting, G!Owns
      <4> QED BY <1>8, <2>3, <4>2, <4>3, <4>4, <4>5, <4>6 DEF GateMoves
    <3>3. \A n \in Mutators : (mut'[n] \in G!Owns) <=> (mut[n] \in G!Owns)
      BY <2>1, <3>2 DEF G!Owns
    <3>4. \A n \in Mutators : mut'[n] \in {"drain_ok", "running"} => mut[n] \in {"drain_ok", "running"}
      BY <2>1, <3>2 DEF G!Owns
    <3> QED BY <1>4, <2>1, <3>1, <3>3, <3>4
  <2> QED BY <2>2, <2>3
<1>9. ASSUME NEW m \in Mutators, G!EnterClose(m) PROVE G!GateOwned' /\ Drained'
  <2>1. /\ mut' = [mut EXCEPT ![m] = G!DrainState(G!CountWithout(m))] /\ ~mutating /\ mutating' = TRUE
        /\ count' = G!CountWithout(m)
    BY <1>9 DEF G!EnterClose, G!GiveUpLease
  <2>2. count' \in Nat
    BY GateTypesStep DEF G!TypeOK
  <2>3. /\ mut'[m] \in {"drain_wait", "drain_ok"} /\ (mut'[m] = "drain_ok" => count' = 0)
        /\ \A n \in Mutators : n # m => mut'[n] = mut[n]
    BY <1>1, <2>1, <2>2 DEF G!DrainState
  <2>4. \A n \in Mutators : mut[n] \notin G!Owns
    BY <1>2, <2>1
  <2>5. \A n \in Mutators : mut'[n] \in G!Owns <=> n = m
    BY <2>3, <2>4 DEF G!Owns
  <2>6. Drained'
    BY <2>3, <2>4 DEF G!Owns, Drained
  <2>7. G!GateOwned'
    BY <2>1, <2>5 DEF G!GateOwned
  <2> QED BY <2>6, <2>7
<1>10. ASSUME NEW m \in Mutators, G!EnterWait(m) PROVE G!GateOwned' /\ Drained'
  <2>1. /\ count' = G!CountWithout(m)
        /\ \A n \in Mutators : n # m => \/ mut'[n] = mut[n]
                                        \/ /\ mut[n] = "drain_wait" /\ count' = 0
                                           /\ mut'[n] \in {"drain_ok", "drain_late"}
        /\ mut[m] \in {"idle", "slot"}
    BY <1>10, EntersOne
  <2>2. mut'[m] = "open_wait" /\ mutating' = mutating
    BY <1>1, <1>10 DEF G!EnterWait, G!WakeDrain
  <2>3. G!Upgrading(m) => count # 0
    BY <1>3, CtxRange DEF G!Upgrading
  <2>4. count = 0 => count' = count
    BY <2>1, <2>3 DEF G!CountWithout
  <2>5. \A n \in Mutators : (mut'[n] \in G!Owns) <=> (mut[n] \in G!Owns)
    BY <2>1, <2>2 DEF G!Owns
  <2>6. \A n \in Mutators : mut'[n] \in {"drain_ok", "running"} => count' = 0
    BY <1>2, <2>1, <2>2, <2>4
  <2> QED BY <1>4, <2>2, <2>5, <2>6
<1>11. ASSUME NEW m \in Mutators, G!Finish(m) \/ G!Rollback(m) PROVE G!GateOwned' /\ Drained'
  <2>1. /\ mut[m] \in {"running", "drain_late", "drain_ok"} /\ mutating' = FALSE
        /\ \A n \in Mutators : n # m => \/ mut'[n] = mut[n]
                                        \/ /\ mut[n] = "open_wait"
                                           /\ mut'[n] \in {"open_ok", "open_late"}
        /\ mut'[m] \in {"leave", "done"}
    BY <1>11, ReopensOne
  <2>2. \A n \in Mutators : n # m => mut[n] \notin G!Owns
    BY <1>2, <2>1 DEF G!Owns
  <2>3. \A n \in Mutators : mut'[n] \notin G!Owns
    BY <2>1, <2>2 DEF G!Owns
  <2> QED BY <2>1, <2>3 DEF G!GateOwned, Drained, G!Owns
<1>12. ASSUME NEW m \in Mutators, G!ReleaseToNext(m) PROVE G!GateOwned' /\ Drained'
  <2>1. PICK next \in Mutators :
           /\ mut[next] = "queued" /\ mut[m] \in {"leave", "slot_late"}
           /\ mut'[m] = "done" /\ mut'[next] \in {"slot", "slot_late"}
           /\ \A n \in Mutators \ {m, next} : mut'[n] = mut[n]
           /\ mutating' = mutating /\ count' = count
    BY <1>12, HandsOn
  <2> QED BY <1>4, <2>1 DEF G!Owns
<1> QED BY GateSplit, <1>5, <1>6, <1>7, <1>8, <1>9, <1>10, <1>11, <1>12

-----------------------------------------------------------------------------
Opening == {"open_wait", "open_ok", "open_late"}

(* A call that carries a lease keeps carrying it until it reopens the gate: *)
(* a deadline never ends one that waits, because it is not a bounded call.  *)
LEMMA MovesCarry ==
    ASSUME G!GateAssumption, GateInv, NEW m \in Mutators, GateMoves(m)
    PROVE  /\ Carries(m)' <=> Carries(m)
           /\ Carries(m) => slot'[m] = slot[m] /\ (mut'[m] \in Opening => mut[m] \in Opening)
           /\ \A n \in Mutators : n # m => slot'[n] = slot[n]
<1>1. /\ mut \in [Mutators -> G!MutState] /\ slot \in [Mutators -> BOOLEAN]
      /\ upg \in [Mutators -> BOOLEAN] /\ late \in [Mutators -> BOOLEAN]
  BY GateVars DEF GateInv
<1>2. upg' = upg
  BY MovesOne
<1>3. /\ late[m] => m \in Bounded
      /\ mut[m] = "open_late" => late[m]
      /\ mut[m] \in {"idle", "queued", "slot", "slot_late"} => ~upg[m]
      /\ Carries(m) /\ m \in Bounded => mut[m] \notin Opening
  BY DEF GateInv, Calls, Carriers, Opening
<1>4. G!Ended(m) \in {"leave", "done"}
  BY DEF G!Ended
<1>5. CASE G!Queue(m) \/ G!BeginLate(m)
  <2>1. /\ mut[m] = "idle" /\ mut'[m] \in {"queued", "done"} /\ slot' = slot
    BY <1>1, <1>5 DEF G!Queue, G!BeginLate, G!CanBegin, G!lease
  <2> QED BY <1>2, <2>1 DEF Carries, InCall
<1>6. CASE G!EnterConflict(m) \/ G!EnterLate(m)
  <2>1. /\ mut[m] \in {"idle", "slot"} /\ mut'[m] \in {"leave", "done"}
        /\ \A n \in Mutators : n # m => slot'[n] = slot[n]
    BY <1>1, <1>4, <1>6 DEF G!EnterConflict, G!EnterLate, G!Entering, G!CanBegin, G!TakeSlot
  <2> QED BY <1>2, <2>1 DEF Carries, InCall
<1>7. CASE G!OpenLate(m)
  <2>1. /\ mut[m] \in {"open_ok", "open_late"} /\ mut'[m] \in {"leave", "done"} /\ slot' = slot
        /\ m \in Bounded
    BY <1>1, <1>3, <1>4, <1>7 DEF G!OpenLate
  <2> QED BY <1>3, <2>1 DEF Carries, InCall, Opening
<1>8. CASE G!OpenAgain(m) \/ G!OpenClose(m) \/ G!Run(m)
  <2>1. /\ mut[m] \in {"open_ok", "drain_ok"} /\ slot' = slot
        /\ mut'[m] \in {"open_wait", "drain_wait", "drain_ok", "running"}
        /\ mut'[m] = "open_wait" => mut[m] = "open_ok"
    BY <1>1, <1>8 DEF G!OpenAgain, G!OpenClose, G!Run, G!DrainState
  <2> QED BY <1>2, <2>1 DEF Carries, InCall, Opening
<1>9. CASE G!ReleaseLast(m)
  <2>1. /\ mut[m] \in {"leave", "slot_late"} /\ mut'[m] = "done"
        /\ \A n \in Mutators : n # m => slot'[n] = slot[n]
    BY <1>1, <1>9 DEF G!ReleaseLast
  <2> QED BY <1>2, <2>1 DEF Carries, InCall
<1>10. CASE G!TimerQueued(m)
  <2>1. mut[m] = "queued" /\ mut'[m] = "done" /\ slot' = slot
    BY <1>1, <1>10 DEF G!TimerQueued
  <2> QED BY <1>2, <2>1 DEF Carries, InCall
<1>11. CASE G!TimerWaiting(m)
  <2>1. /\ slot' = slot
        /\ \/ mut[m] = "open_wait" /\ mut'[m] = "open_late"
           \/ mut[m] = "drain_wait" /\ mut'[m] = "drain_late"
    BY <1>1, <1>11 DEF G!TimerWaiting
  <2> QED BY <1>2, <2>1 DEF Carries, InCall, Opening
<1>12. CASE G!Deadline(m)
  <2>1. mut' = mut /\ slot' = slot
    BY <1>12 DEF G!Deadline
  <2> QED BY <1>2, <2>1 DEF Carries
<1> QED BY <1>5, <1>6, <1>7, <1>8, <1>9, <1>10, <1>11, <1>12 DEF GateMoves

(* A lease is carried by the holder of its slot, and is not active then.    *)
LEMMA CarriersStep ==
    ASSUME G!GateAssumption, GateInv, G!Next
    PROVE  Carriers'
<1>1. /\ mut \in [Mutators -> G!MutState] /\ slot \in [Mutators -> BOOLEAN]
      /\ upg \in [Mutators -> BOOLEAN] /\ active \in [G!Party -> BOOLEAN]
      /\ finished \in [G!Party -> BOOLEAN] /\ adm \in [G!Party -> G!AdmState]
  BY GateVars DEF GateInv
<1>2. SUFFICES ASSUME NEW n \in Mutators, Carries(n)'
               PROVE  /\ slot'[n]
                      /\ ~active'[G!Ctx(n)]
                      /\ adm'[G!Ctx(n)] = "in" \/ finished'[G!Ctx(n)]
                      /\ n \in Bounded => mut'[n] \notin Opening
  <2>1. \A n \in Mutators : Carries(n)' => G!Ctx(n)' = G!Ctx(n)
    BY CtxKept DEF Carries, InCall
  <2> QED BY <1>2, <2>1 DEF Carriers, Opening
<1> DEFINE c == G!Ctx(n)
<1>3. ASSUME Carries(n)
      PROVE  /\ slot[n] /\ ~active[c] /\ c \in G!Party
             /\ adm[c] = "in" \/ finished[c]
             /\ n \in Bounded => mut[n] \notin Opening
  <2>1. slot[n] /\ ~active[c] /\ (adm[c] = "in" \/ finished[c])
        /\ (n \in Bounded => mut[n] \notin Opening)
    BY <1>3 DEF GateInv, Carriers, Opening
  <2>2. c \in G!Party
    BY <2>1, CtxRange DEF GateInv, Calls
  <2> QED BY <2>1, <2>2
<1>4. \A p \in G!Party : (active[p] => adm[p] = "in") /\ (finished[p] => adm[p] = "out")
  BY DEF GateInv, LeaseShape
<1> HIDE DEF c
<1> DEFINE Good == /\ slot'[n]
                   /\ ~active'[c]
                   /\ adm'[c] = "in" \/ finished'[c]
                   /\ n \in Bounded => mut'[n] \notin Opening
<1>5. SUFFICES Good
  BY DEF c
<1>6. ASSUME NEW p \in G!Party,
             G!AdmitDirect(p) \/ G!AdmitWait(p) \/ G!LeaveDirect(p) \/ G!Admit(p)
      PROVE  Good
  <2>1. /\ mut' = mut /\ upg' = upg /\ slot' = slot /\ finished' = finished
        /\ adm[p] \in {"none", "woken", "direct"}
        /\ \A q \in G!Party : q # p => adm'[q] = adm[q] /\ active'[q] = active[q]
    BY <1>1, <1>6 DEF G!AdmitDirect, G!AdmitWait, G!LeaveDirect, G!Admit, G!AtGate, G!gate, G!lease
  <2>2. Carries(n)
    BY <1>2, <2>1 DEF Carries
  <2> QED BY <1>3, <1>4, <2>1, <2>2
<1>7. ASSUME NEW p \in G!Party, G!Leave(p) \/ G!LeaveReleased(p) PROVE Good
  <2>1. /\ upg' = upg /\ slot' = slot
        /\ \A q \in G!Party : q # p => adm'[q] = adm[q] /\ finished'[q] = finished[q]
        /\ finished'[p] = TRUE
        /\ \A q \in G!Party : active'[q] => active[q]
    BY <1>1, <1>7 DEF G!Leave, G!LeaveReleased, G!gate
  <2>2. mut'[n] = mut[n] \/ (mut[n] = "drain_wait" /\ mut'[n] \in {"drain_ok", "drain_late"})
    BY <1>1, <1>7 DEF G!Leave, G!LeaveReleased, G!WakeDrain
  <2>3. Carries(n)
    BY <1>2, <2>1, <2>2 DEF Carries, InCall
  <2> QED BY <1>3, <2>1, <2>2, <2>3 DEF Opening
<1>8. ASSUME NEW m \in Mutators, GateMoves(m) PROVE Good
  <2>1. /\ active' = active /\ adm' = adm /\ finished' = finished /\ upg' = upg
        /\ n # m => mut'[n] = mut[n] /\ slot'[n] = slot[n]
    BY <1>8, MovesOne, MovesCarry
  <2>2. Carries(n)
    BY <1>2, <1>8, <2>1, MovesCarry DEF Carries
  <2>3. slot'[n] = slot[n] /\ (mut'[n] \in Opening => mut[n] \in Opening)
    BY <1>8, <2>1, <2>2, MovesCarry
  <2> QED BY <1>3, <2>1, <2>2, <2>3
<1>9. ASSUME NEW m \in Mutators, G!EnterClose(m) \/ G!EnterWait(m) PROVE Good
  <2>1. /\ adm' = adm /\ finished' = finished
        /\ \A p \in G!Party : active'[p] = (active[p] /\ ~(G!Upgrading(m) /\ p = G!Ctx(m)))
        /\ n # m => /\ upg'[n] = upg[n] /\ slot'[n] = slot[n]
                    /\ \/ mut'[n] = mut[n]
                       \/ /\ mut[n] = "drain_wait"
                          /\ mut'[n] \in {"drain_ok", "drain_late"}
        /\ upg'[m] = G!Upgrading(m)
        /\ slot'[m] = (slot[m] \/ G!Taking(m))
        /\ G!Upgrading(m) => slot[m] \/ G!Taking(m)
    BY <1>9, EntersOne
  <2>2. CASE n # m
    <3>1. Carries(n)
      BY <1>2, <2>1, <2>2 DEF Carries, InCall
    <3> QED BY <1>3, <2>1, <2>2, <3>1 DEF Opening
  <2>3. CASE n = m
    <3>1. G!Upgrading(m)
      BY <1>2, <2>1, <2>3 DEF Carries
    <3>2. c \in G!Party /\ active[c] /\ c = G!Ctx(m)
      BY <2>3, <3>1, CtxRange DEF G!Upgrading, c
    <3>3. slot'[m]
      BY <2>1, <3>1
    <3>4. ~active'[c]
      BY <2>1, <3>1, <3>2
    <3>5. adm'[c] = "in"
      BY <1>4, <2>1, <3>2
    <3>6. m \in Bounded => mut'[m] \notin Opening
      <4>1. CASE G!EnterClose(m)
        BY <1>1, <4>1 DEF G!EnterClose, G!DrainState, Opening
      <4>2. CASE G!EnterWait(m)
        BY <3>1, <4>2 DEF G!EnterWait
      <4> QED BY <1>9, <4>1, <4>2
    <3> QED BY <2>3, <3>3, <3>4, <3>5, <3>6
  <2> QED BY <2>2, <2>3
<1>10. ASSUME NEW m \in Mutators, G!Finish(m) \/ G!Rollback(m) PROVE Good
  <2>1. /\ finished' = finished /\ slot' = slot /\ upg' = upg
        /\ \A p \in G!Party : active'[p] = (active[p] \/ (G!TakesBack(m) /\ p = G!Ctx(m)))
        /\ n # m => \/ mut'[n] = mut[n]
                    \/ mut[n] = "open_wait" /\ mut'[n] \in {"open_ok", "open_late"}
        /\ mut'[m] \in {"leave", "done"}
        /\ \A p \in G!Party : adm'[p] = adm[p] \/ adm[p] = "wait"
        /\ G!TakesBack(m) => Carries(m)
    BY <1>10, ReopensOne
  <2>2. n # m
    BY <1>2, <2>1 DEF Carries, InCall
  <2>3. Carries(n)
    BY <1>2, <2>1, <2>2 DEF Carries, InCall
  <2>4. ~(G!TakesBack(m) /\ c = G!Ctx(m))
    <3> SUFFICES ASSUME G!TakesBack(m), c = G!Ctx(m) PROVE FALSE
      OBVIOUS
    <3>1. slot[m] /\ slot[n]
      BY <1>3, <2>1, <2>3 DEF GateInv, Carriers
    <3> QED BY <1>3, <2>2, <2>3, <3>1 DEF GateInv, G!SlotOwned, c
  <2> QED BY <1>3, <2>1, <2>2, <2>3, <2>4 DEF Opening
<1>11. ASSUME NEW m \in Mutators, G!ReleaseToNext(m) PROVE Good
  <2>1. PICK next \in Mutators :
           /\ mut'[m] = "done" /\ mut'[next] \in {"slot", "slot_late"}
           /\ \A k \in Mutators \ {m, next} : mut'[k] = mut[k] /\ slot'[k] = slot[k]
           /\ upg' = upg /\ active' = active /\ adm' = adm /\ finished' = finished
    BY <1>11, HandsOn
  <2>2. n \notin {m, next}
    BY <1>2, <2>1 DEF Carries, InCall
  <2>3. Carries(n)
    BY <1>2, <2>1, <2>2 DEF Carries
  <2> QED BY <1>3, <2>1, <2>2, <2>3
<1> QED BY GateSplit, <1>6, <1>7, <1>8, <1>9, <1>10, <1>11

(* A handler whose lease is away has lent it to a call that will bring it   *)
(* back.                                                                    *)
LEMMA LentStep ==
    ASSUME G!GateAssumption, GateInv, G!Next
    PROVE  Lent'
<1>1. /\ mut \in [Mutators -> G!MutState] /\ active \in [G!Party -> BOOLEAN]
      /\ upg \in [Mutators -> BOOLEAN]
      /\ finished \in [G!Party -> BOOLEAN] /\ adm \in [G!Party -> G!AdmState]
  BY GateVars DEF GateInv
<1>2. SUFFICES ASSUME NEW q \in G!Party, adm'[q] = "in", ~active'[q]
               PROVE  \E n \in Mutators : Carries(n)' /\ G!Ctx(n) = q
  <2>1. \A n \in Mutators : Carries(n)' => G!Ctx(n)' = G!Ctx(n)
    BY CtxKept DEF Carries, InCall
  <2> QED BY <1>2, <2>1 DEF Lent
<1> DEFINE Good == \E n \in Mutators : Carries(n)' /\ G!Ctx(n) = q
<1>3. adm[q] = "in" /\ ~active[q] => \E n \in Mutators : Carries(n) /\ G!Ctx(n) = q
  BY DEF GateInv, Lent
<1>4. \A n \in Mutators : mut'[n] \in InCall /\ upg'[n] => Carries(n)'
  BY DEF Carries
<1>5. \A n \in Mutators : Carries(n) => mut[n] \in InCall /\ upg[n]
  BY DEF Carries
<1>6. ASSUME NEW p \in G!Party,
             G!AdmitDirect(p) \/ G!AdmitWait(p) \/ G!LeaveDirect(p) \/ G!Admit(p)
      PROVE  Good
  <2>1. /\ mut' = mut /\ upg' = upg
        /\ adm'[q] = adm[q] /\ active'[q] = active[q]
    BY <1>1, <1>2, <1>6 DEF G!AdmitDirect, G!AdmitWait, G!LeaveDirect, G!Admit, G!gate
  <2> QED BY <1>2, <1>3, <1>4, <1>5, <2>1
<1>7. ASSUME NEW p \in G!Party, G!Leave(p) \/ G!LeaveReleased(p) PROVE Good
  <2>1. upg' = upg /\ adm'[q] = adm[q] /\ active'[q] = active[q]
    BY <1>1, <1>2, <1>7 DEF G!Leave, G!LeaveReleased, G!gate
  <2>2. \A n \in Mutators : mut'[n] = mut[n] \/ mut'[n] \in {"drain_ok", "drain_late"}
    BY <1>1, <1>7 DEF G!Leave, G!LeaveReleased, G!WakeDrain
  <2> QED BY <1>2, <1>3, <1>4, <1>5, <2>1, <2>2 DEF InCall
<1>8. ASSUME NEW m \in Mutators, GateMoves(m) PROVE Good
  <2>1. /\ active' = active /\ adm' = adm /\ upg' = upg
        /\ \A n \in Mutators : n # m => mut'[n] = mut[n]
        /\ Carries(m)' <=> Carries(m)
    BY <1>8, MovesOne, MovesCarry
  <2>2. PICK n \in Mutators : Carries(n) /\ G!Ctx(n) = q
    BY <1>2, <1>3, <2>1
  <2>3. Carries(n)'
    BY <1>4, <1>5, <2>1, <2>2
  <2> QED BY <2>2, <2>3
<1>9. ASSUME NEW m \in Mutators, G!EnterClose(m) \/ G!EnterWait(m) PROVE Good
  <2>1. /\ adm' = adm
        /\ \A p \in G!Party : active'[p] = (active[p] /\ ~(G!Upgrading(m) /\ p = G!Ctx(m)))
        /\ \A n \in Mutators : n # m => /\ upg'[n] = upg[n]
                                        /\ mut'[n] = mut[n] \/ mut'[n] \in {"drain_ok", "drain_late"}
        /\ upg'[m] = G!Upgrading(m)
        /\ mut[m] \in {"idle", "slot"} /\ mut'[m] \in {"open_wait", "drain_wait", "drain_ok"}
    BY <1>9, EntersOne
  <2>2. CASE G!Upgrading(m) /\ q = G!Ctx(m)
    <3>1. Carries(m)'
      BY <1>4, <2>1, <2>2 DEF InCall
    <3> QED BY <2>2, <3>1
  <2>3. CASE ~(G!Upgrading(m) /\ q = G!Ctx(m))
    <3>1. PICK n \in Mutators : Carries(n) /\ G!Ctx(n) = q
      BY <1>2, <1>3, <2>1, <2>3
    <3>2. n # m
      BY <1>5, <2>1, <3>1 DEF InCall
    <3>3. Carries(n)'
      BY <1>4, <1>5, <2>1, <3>1, <3>2 DEF InCall
    <3> QED BY <3>1, <3>3
  <2> QED BY <2>2, <2>3
<1>10. ASSUME NEW m \in Mutators, G!Finish(m) \/ G!Rollback(m) PROVE Good
  <2>1. /\ upg' = upg
        /\ \A p \in G!Party : active'[p] = (active[p] \/ (G!TakesBack(m) /\ p = G!Ctx(m)))
        /\ \A n \in Mutators : n # m => mut'[n] = mut[n] \/ mut'[n] \in {"open_ok", "open_late"}
        /\ adm'[q] = adm[q] \/ adm'[q] = "woken"
    BY <1>10, ReopensOne
  <2>2. PICK n \in Mutators : Carries(n) /\ G!Ctx(n) = q
    BY <1>2, <1>3, <2>1
  <2>3. n # m
    <3> SUFFICES ASSUME n = m PROVE FALSE
      OBVIOUS
    <3>1. ~finished[q]
      BY <1>2, <2>1 DEF GateInv, LeaseShape
    <3>2. G!TakesBack(m)
      BY <1>5, <2>2, <3>1 DEF G!TakesBack
    <3> QED BY <1>2, <2>1, <2>2, <3>2
  <2>4. Carries(n)'
    BY <1>4, <1>5, <2>1, <2>2, <2>3 DEF InCall
  <2> QED BY <2>2, <2>4
<1>11. ASSUME NEW m \in Mutators, G!ReleaseToNext(m) PROVE Good
  <2>1. PICK next \in Mutators :
           /\ mut[m] \in {"leave", "slot_late"} /\ mut[next] = "queued"
           /\ \A k \in Mutators \ {m, next} : mut'[k] = mut[k]
           /\ upg' = upg /\ active' = active /\ adm' = adm
    BY <1>11, HandsOn
  <2>2. PICK n \in Mutators : Carries(n) /\ G!Ctx(n) = q
    BY <1>2, <1>3, <2>1
  <2>3. n \notin {m, next}
    BY <1>5, <2>1, <2>2 DEF InCall
  <2>4. Carries(n)'
    BY <1>4, <1>5, <2>1, <2>2, <2>3
  <2> QED BY <2>2, <2>4
<1> QED BY GateSplit, <1>6, <1>7, <1>8, <1>9, <1>10, <1>11

-----------------------------------------------------------------------------
Asks(n) == slot[n] \/ mut[n] = "queued"

(* A mutator that holds or awaits a slot, before or after a step, has the   *)
(* same lease in its context before and after.                              *)
LEMMA AskersKept ==
    ASSUME G!GateAssumption, GateInv, G!Next, NEW n \in Mutators, Asks(n) \/ Asks(n)'
    PROVE  G!Ctx(n)' = G!Ctx(n)
<1>1. Asks(n) => mut[n] \notin {"idle", "done"}
  BY DEF Asks, GateInv, Calls
<1>2. Asks(n)' => mut'[n] \notin {"idle", "done"}
  BY CallsStep DEF Asks, Calls
<1> QED BY <1>1, <1>2, CtxKept

(* The number of upgrades pending on a lease follows the set of askers.     *)
LEMMA PendingFrame ==
    ASSUME G!GateAssumption, GateInv, G!Next, pending' = pending,
           \A n \in Mutators : Asks(n)' <=> Asks(n)
    PROVE  PendingTrue'
<1>1. \A p \in G!Party : Askers(p)' = Askers(p)
  BY AskersKept DEF Askers, Asks
<1> QED BY <1>1 DEF GateInv, PendingTrue

(* A mutation begins to ask for the slot of its turn: one more is pending.  *)
LEMMA PendingAdd ==
    ASSUME G!GateAssumption, GateInv, G!Next, NEW m \in Mutators, NEW c \in G!Party,
           ~Asks(m), Asks(m)', G!Ctx(m) = c,
           \A n \in Mutators : n # m => (Asks(n)' <=> Asks(n)),
           \A p \in G!Party : pending'[p] = IF p = c THEN pending[p] + 1 ELSE pending[p]
    PROVE  PendingTrue'
<1>1. \A p \in G!Party : Askers(p)' = IF p = c THEN Askers(p) \cup {m} ELSE Askers(p)
  BY AskersKept DEF Askers, Asks
<1>2. m \notin Askers(c)
  BY DEF Askers, Asks
<1>3. Askers(c) \in SUBSET Mutators
  BY DEF Askers
<1>4. IsFiniteSet(Askers(c))
  BY <1>3, PartyFinite, FS_Subset
<1>5. Cardinality(Askers(c) \cup {m}) = Cardinality(Askers(c)) + 1
  BY <1>2, <1>4, FS_AddElement
<1>6. \A p \in G!Party : pending[p] = Cardinality(Askers(p))
  BY DEF GateInv, PendingTrue
<1> QED BY <1>1, <1>5, <1>6 DEF PendingTrue

(* A mutation returns the slot or its ticket: one fewer is pending.         *)
LEMMA PendingDrop ==
    ASSUME G!GateAssumption, GateInv, G!Next, NEW m \in Mutators, NEW c \in G!Party,
           Asks(m), ~Asks(m)', G!Ctx(m) = c,
           \A n \in Mutators : n # m => (Asks(n)' <=> Asks(n)),
           \A p \in G!Party : pending'[p] = IF p = c THEN pending[p] - 1 ELSE pending[p]
    PROVE  PendingTrue'
<1>1. \A p \in G!Party : Askers(p)' = IF p = c THEN Askers(p) \ {m} ELSE Askers(p)
  BY AskersKept DEF Askers, Asks
<1>2. m \in Askers(c)
  BY DEF Askers, Asks
<1>3. Askers(c) \in SUBSET Mutators
  BY DEF Askers
<1>4. IsFiniteSet(Askers(c))
  BY <1>3, PartyFinite, FS_Subset
<1>5. Cardinality(Askers(c) \ {m}) = Cardinality(Askers(c)) - 1
  BY <1>2, <1>4, FS_RemoveElement
<1>6. \A p \in G!Party : pending[p] = Cardinality(Askers(p))
  BY DEF GateInv, PendingTrue
<1> QED BY <1>1, <1>5, <1>6 DEF PendingTrue

(* Slots and their queues, written out.                                     *)
Locks(p) == \E m \in Mutators : slot[m] /\ G!Ctx(m) = p
Queued(p, m) == \E i \in DOMAIN queue[p] : queue[p][i] = m

(* What the invariant says of slots, member by member.                      *)
LEMMA SlotFacts ==
    ASSUME G!GateAssumption, GateInv
    PROVE  /\ \A p \in G!Party : locked[p] <=> Locks(p)
           /\ \A m, n \in Mutators :
                 slot[m] /\ slot[n] /\ G!Ctx(m) = G!Ctx(n) => m = n
           /\ \A p \in G!Party : \A m \in Mutators :
                 Queued(p, m) <=> (mut[m] = "queued" /\ G!Ctx(m) = p)
<1>1. \A m, n \in Mutators : slot[m] /\ slot[n] /\ G!Ctx(m) = G!Ctx(n) => m = n
  <2> SUFFICES ASSUME NEW m \in Mutators, NEW n \in Mutators, slot[m], slot[n], G!Ctx(m) = G!Ctx(n)
               PROVE  m = n
    OBVIOUS
  <2>1. G!Ctx(m) \in G!Party
    BY CtxRange DEF GateInv, Calls
  <2> QED BY <2>1 DEF GateInv, G!SlotOwned
<1>2. \A p \in G!Party : locked[p] <=> Locks(p)
  BY DEF GateInv, G!SlotOwned, Locks
<1>3. \A p \in G!Party : \A m \in Mutators :
         Queued(p, m) <=> (mut[m] = "queued" /\ G!Ctx(m) = p)
  BY DEF GateInv, G!SlotOwned, Queued
<1> QED BY <1>1, <1>2, <1>3

(* The same of the next state is enough for SlotOwned.                      *)
LEMMA SlotGoal ==
    ASSUME G!GateAssumption, GateInv, G!Next,
           \A p \in G!Party : locked'[p] <=> \E m \in Mutators : slot'[m] /\ G!Ctx(m) = p,
           \A m, n \in Mutators : slot'[m] /\ slot'[n] /\ G!Ctx(m) = G!Ctx(n) => m = n,
           \A p \in G!Party : \A m \in Mutators :
              (\E i \in DOMAIN queue'[p] : queue'[p][i] = m)
                 <=> (mut'[m] = "queued" /\ G!Ctx(m) = p)
    PROVE  G!SlotOwned'
<1>1. \A n \in Mutators : slot'[n] \/ mut'[n] = "queued" => G!Ctx(n)' = G!Ctx(n)
  BY AskersKept DEF Asks
<1>2. locked' \in [G!Party -> BOOLEAN]
  BY GateTypesStep, GateVars DEF G!TypeOK
<1>3. \A p \in G!Party : locked'[p] = \E m \in Mutators : slot'[m] /\ G!Ctx(m)' = p
  <2> SUFFICES ASSUME NEW p \in G!Party
               PROVE  locked'[p] = \E m \in Mutators : slot'[m] /\ G!Ctx(m)' = p
    OBVIOUS
  <2>1. locked'[p] <=> \E m \in Mutators : slot'[m] /\ G!Ctx(m)' = p
    BY <1>1
  <2>2. locked'[p] \in BOOLEAN
    BY <1>2
  <2> QED BY <2>1, <2>2, Zenon
<1>4. \A m, n \in Mutators : slot'[m] /\ slot'[n] /\ G!Ctx(m)' = G!Ctx(n)' => m = n
  BY <1>1
<1>5. \A p \in G!Party : \A m \in Mutators :
              (\E i \in DOMAIN queue'[p] : queue'[p][i] = m)
                 <=> (mut'[m] = "queued" /\ G!Ctx(m)' = p)
  BY <1>1
<1> QED BY <1>3, <1>4, <1>5 DEF G!SlotOwned

(* Steps that leave slots and queues alone leave their books alone.         *)
LEMMA BooksFrame ==
    ASSUME G!GateAssumption, GateInv, G!Next,
           pending' = pending, locked' = locked, queue' = queue,
           \A n \in Mutators : slot'[n] = slot[n],
           \A n \in Mutators : mut'[n] = "queued" <=> mut[n] = "queued"
    PROVE  PendingTrue' /\ G!SlotOwned' /\ QueueOnce'
<1>1. PendingTrue'
  BY PendingFrame DEF Asks
<1>2. G!SlotOwned'
  BY SlotGoal, SlotFacts DEF Locks, Queued
<1>3. QueueOnce'
  BY DEF GateInv, QueueOnce
<1> QED BY <1>1, <1>2, <1>3

(* A free slot is taken.                                                    *)
LEMMA BooksTake ==
    ASSUME G!GateAssumption, GateInv, G!Next, NEW m \in Mutators,
           G!Entering(m), G!TakeSlot(m),
           \A n \in Mutators : mut'[n] = "queued" <=> mut[n] = "queued"
    PROVE  PendingTrue' /\ G!SlotOwned' /\ QueueOnce'
<1>1. /\ slot \in [Mutators -> BOOLEAN] /\ locked \in [G!Party -> BOOLEAN]
      /\ pending \in [G!Party -> Nat]
  BY GateVars DEF GateInv
<1>2. /\ \A p \in G!Party : locked'[p] = (locked[p] \/ (G!Taking(m) /\ p = G!Ctx(m)))
      /\ \A p \in G!Party : pending'[p] = IF G!Taking(m) /\ p = G!Ctx(m)
                                          THEN pending[p] + 1 ELSE pending[p]
      /\ queue' = queue
  BY <1>1 DEF G!TakeSlot
<1>3. slot'[m] = (slot[m] \/ G!Taking(m)) /\ \A n \in Mutators : n # m => slot'[n] = slot[n]
  BY <1>1 DEF G!TakeSlot
<1>4. CASE ~G!Taking(m)
  <2>1. \A n \in Mutators : slot'[n] = slot[n]
    BY <1>1, <1>3, <1>4
  <2>2. PendingTrue'
    <3>1. \A n \in Mutators : Asks(n)' <=> Asks(n)
      BY <2>1 DEF Asks
    <3>2. pending' \in [G!Party -> Nat]
      BY GateTypesStep DEF G!TypeOK
    <3>3. pending' = pending
      BY <1>1, <1>2, <1>4, <3>2
    <3> QED BY <3>1, <3>3, PendingFrame
  <2>3. G!SlotOwned'
    <3>1. \A p \in G!Party : locked'[p] <=> \E n \in Mutators : slot'[n] /\ G!Ctx(n) = p
      <4>1. \A p \in G!Party : locked'[p] <=> locked[p]
        BY <1>2, <1>4
      <4> QED BY <2>1, <4>1, SlotFacts DEF Locks
    <3>2. \A k, n \in Mutators : slot'[k] /\ slot'[n] /\ G!Ctx(k) = G!Ctx(n) => k = n
      BY <2>1, SlotFacts
    <3> QED BY <1>2, <3>1, <3>2, SlotGoal, SlotFacts DEF Queued
  <2>4. QueueOnce'
    BY <1>2 DEF GateInv, QueueOnce
  <2> QED BY <2>2, <2>3, <2>4
<1>5. CASE G!Taking(m)
  <2> DEFINE c == G!Ctx(m)
  <2>1. c \in G!Party /\ ~locked[c] /\ mut[m] = "idle" /\ ~slot[m]
    <3>1. c # NoParent /\ mut[m] = "idle" /\ G!shouldQueueAdmissionUpgrade(m)
      BY <1>5 DEF G!Taking, G!shouldQueueAdmissionUpgrade
    <3>2. ~locked[c]
      BY <3>1 DEF G!Entering
    <3> QED BY <3>1, <3>2, CtxRange DEF GateInv, Calls
  <2>2. slot'[m] = TRUE
    BY <1>3, <1>5
  <2>3. ~Asks(m) /\ Asks(m)' /\ \A n \in Mutators : n # m => (Asks(n)' <=> Asks(n))
    BY <1>3, <2>1, <2>2 DEF Asks
  <2>4. \A p \in G!Party : pending'[p] = IF p = c THEN pending[p] + 1 ELSE pending[p]
    BY <1>2, <1>5
  <2>5. PendingTrue'
    BY <2>1, <2>3, <2>4, PendingAdd
  <2>6. \A p \in G!Party : locked'[p] <=> \E n \in Mutators : slot'[n] /\ G!Ctx(n) = p
    <3>1. \A p \in G!Party : locked'[p] <=> (locked[p] \/ p = c)
      BY <1>2, <1>5
    <3>2. \A p \in G!Party : locked[p] <=> \E n \in Mutators : slot[n] /\ G!Ctx(n) = p
      BY SlotFacts DEF Locks
    <3> QED BY <1>3, <2>1, <2>2, <3>1, <3>2
  <2>7. \A k, n \in Mutators : slot'[k] /\ slot'[n] /\ G!Ctx(k) = G!Ctx(n) => k = n
    <3>1. \A n \in Mutators : slot[n] => G!Ctx(n) # c
      BY <2>1, SlotFacts DEF Locks
    <3> QED BY <1>3, <2>1, <3>1, SlotFacts
  <2>8. G!SlotOwned'
    BY <1>2, <2>6, <2>7, SlotGoal, SlotFacts DEF Queued
  <2>9. QueueOnce'
    BY <1>2 DEF GateInv, QueueOnce
  <2> QED BY <2>5, <2>8, <2>9
<1> QED BY <1>4, <1>5

-----------------------------------------------------------------------------
(* The slot is taken: the mutator goes to the end of the queue.             *)
LEMMA BooksQueue ==
    ASSUME G!GateAssumption, GateInv, G!Next, NEW m \in Mutators, G!Queue(m)
    PROVE  PendingTrue' /\ G!SlotOwned' /\ QueueOnce'
<1> DEFINE c == G!Ctx(m)
<1>1. /\ queue \in [G!Party -> Seq(Mutators)] /\ mut \in [Mutators -> G!MutState]
      /\ pending \in [G!Party -> Nat]
  BY GateVars DEF GateInv
<1>2. /\ mut[m] = "idle" /\ c # NoParent
      /\ pending' = [pending EXCEPT ![c] = pending[c] + 1]
      /\ queue' = [queue EXCEPT ![c] = Append(queue[c], m)]
      /\ mut' = [mut EXCEPT ![m] = "queued"]
      /\ locked' = locked /\ slot' = slot
  BY DEF G!Queue, G!CanBegin, G!shouldQueueAdmissionUpgrade
<1>3. c \in G!Party /\ ~slot[m]
  BY <1>2, CtxRange DEF GateInv, Calls
<1>4. queue[c] \in Seq(Mutators) /\ ~Queued(c, m)
  BY <1>1, <1>2, <1>3, SlotFacts
<1> HIDE DEF c
<1>5. PendingTrue'
  <2>1. ~Asks(m) /\ Asks(m)' /\ \A n \in Mutators : n # m => (Asks(n)' <=> Asks(n))
    BY <1>1, <1>2, <1>3 DEF Asks
  <2>2. \A p \in G!Party : pending'[p] = IF p = c THEN pending[p] + 1 ELSE pending[p]
    BY <1>1, <1>2, <1>3
  <2> QED BY <1>3, <2>1, <2>2, PendingAdd DEF c
<1>6. \A p \in G!Party : p # c => queue'[p] = queue[p]
  BY <1>1, <1>2
<1>7. queue'[c] = Append(queue[c], m)
  BY <1>1, <1>2, <1>3
<1>8. /\ DOMAIN queue'[c] = 1 .. Len(queue[c]) + 1
      /\ \A i \in 1 .. Len(queue[c]) : queue'[c][i] = queue[c][i]
      /\ queue'[c][Len(queue[c]) + 1] = m
      /\ DOMAIN queue[c] = 1 .. Len(queue[c]) /\ Len(queue[c]) \in Nat
  BY <1>4, <1>7
<1>9. \A n \in Mutators : (\E i \in DOMAIN queue'[c] : queue'[c][i] = n) <=> (Queued(c, n) \/ n = m)
  <2>1. Len(queue[c]) + 1 \in DOMAIN queue'[c]
    BY <1>8
  <2>2. \A i \in DOMAIN queue'[c] : i \in DOMAIN queue[c] \/ i = Len(queue[c]) + 1
    BY <1>8
  <2>3. \A i \in DOMAIN queue[c] : i \in DOMAIN queue'[c]
    BY <1>8
  <2> QED BY <1>8, <2>1, <2>2, <2>3 DEF Queued
<1>10. G!SlotOwned'
  <2>1. \A p \in G!Party : \A n \in Mutators :
              (\E i \in DOMAIN queue'[p] : queue'[p][i] = n)
                 <=> (mut'[n] = "queued" /\ G!Ctx(n) = p)
    <3> SUFFICES ASSUME NEW p \in G!Party, NEW n \in Mutators
                 PROVE  (\E i \in DOMAIN queue'[p] : queue'[p][i] = n)
                           <=> (mut'[n] = "queued" /\ G!Ctx(n) = p)
      OBVIOUS
    <3>1. Queued(p, n) <=> (mut[n] = "queued" /\ G!Ctx(n) = p)
      BY SlotFacts
    <3>2. mut'[n] = "queued" <=> (mut[n] = "queued" \/ n = m)
      BY <1>1, <1>2
    <3>3. G!Ctx(m) = c
      BY DEF c
    <3>4. CASE p = c
      BY <1>9, <3>1, <3>2, <3>3, <3>4
    <3>5. CASE p # c
      BY <1>6, <3>1, <3>2, <3>3, <3>5 DEF Queued
    <3> QED BY <3>4, <3>5
  <2> QED BY <1>2, <2>1, SlotGoal, SlotFacts DEF Locks
<1>11. QueueOnce'
  <2>1. \A i, j \in DOMAIN queue[c] : queue[c][i] = queue[c][j] => i = j
    BY <1>3 DEF GateInv, QueueOnce
  <2>2. \A i \in DOMAIN queue[c] : queue[c][i] # m
    BY <1>4 DEF Queued
  <2>3. \A i, j \in DOMAIN queue'[c] : queue'[c][i] = queue'[c][j] => i = j
    BY <1>8, <2>1, <2>2, SMTT(30)
  <2> QED BY <1>6, <2>3 DEF GateInv, QueueOnce
<1> QED BY <1>5, <1>10, <1>11

(* The holder of a slot gives it to the head of the queue.                  *)
LEMMA BooksHand ==
    ASSUME G!GateAssumption, GateInv, G!Next, NEW m \in Mutators, G!ReleaseToNext(m)
    PROVE  PendingTrue' /\ G!SlotOwned' /\ QueueOnce'
<1> DEFINE c == G!Ctx(m)
           next == Head(queue[c])
<1>1. /\ queue \in [G!Party -> Seq(Mutators)] /\ mut \in [Mutators -> G!MutState]
      /\ pending \in [G!Party -> Nat] /\ slot \in [Mutators -> BOOLEAN]
  BY GateVars DEF GateInv
<1>2. /\ c \in G!Party /\ queue[c] \in Seq(Mutators) /\ queue[c] # <<>>
      /\ next \in Mutators /\ next # m
      /\ mut[next] = "queued" /\ G!Ctx(next) = c
      /\ slot[m] /\ mut[m] \in {"leave", "slot_late"}
      /\ mut'[m] = "done"
      /\ mut'[next] \in {"slot_late", "slot"}
      /\ slot'[m] = FALSE /\ slot'[next] = TRUE
      /\ \A n \in Mutators \ {m, next} : mut'[n] = mut[n] /\ slot'[n] = slot[n]
      /\ locked' = locked
      /\ queue' = [queue EXCEPT ![c] = Tail(queue[c])]
      /\ pending' = [pending EXCEPT ![c] = pending[c] - 1]
  BY HandsOn
<1>3. G!Ctx(m) = c /\ ~slot[next] /\ next = queue[c][1]
  BY <1>2 DEF GateInv, Calls
<1> HIDE DEF c, next
<1>4. PendingTrue'
  <2>1. Asks(m) /\ ~Asks(m)'
    BY <1>2 DEF Asks
  <2>2. \A n \in Mutators : n # m => (Asks(n)' <=> Asks(n))
    BY <1>2, <1>3 DEF Asks
  <2>3. \A p \in G!Party : pending'[p] = IF p = c THEN pending[p] - 1 ELSE pending[p]
    BY <1>1, <1>2
  <2> QED BY <1>2, <1>3, <2>1, <2>2, <2>3, PendingDrop
<1>5. /\ \A p \in G!Party : p # c => queue'[p] = queue[p]
      /\ queue'[c] = Tail(queue[c])
  BY <1>1, <1>2
<1>6. /\ DOMAIN queue'[c] = 1 .. Len(queue[c]) - 1
      /\ \A i \in 1 .. Len(queue[c]) - 1 : queue'[c][i] = queue[c][i + 1]
      /\ DOMAIN queue[c] = 1 .. Len(queue[c]) /\ Len(queue[c]) \in Nat /\ Len(queue[c]) > 0
  <2> DEFINE q == queue[c]
  <2>1. q \in Seq(Mutators) /\ q # <<>>
    BY <1>2
  <2> HIDE DEF q
  <2>2. DOMAIN q = 1 .. Len(q) /\ Len(q) \in Nat /\ Len(q) > 0
    BY <2>1
  <2>3. Tail(q) \in Seq(Mutators) /\ Len(Tail(q)) = Len(q) - 1
    BY <2>1, <2>2
  <2>4. DOMAIN Tail(q) = 1 .. Len(q) - 1
    BY <2>3
  <2>5. \A i \in 1 .. Len(q) - 1 : Tail(q)[i] = q[i + 1]
    BY <2>1, <2>2
  <2> QED BY <1>5, <2>2, <2>4, <2>5 DEF q
<1>7. \A i, j \in DOMAIN queue[c] : queue[c][i] = queue[c][j] => i = j
  BY <1>2 DEF GateInv, QueueOnce
<1>8. \A n \in Mutators : (\E i \in DOMAIN queue'[c] : queue'[c][i] = n) <=> (Queued(c, n) /\ n # next)
  <2> SUFFICES ASSUME NEW n \in Mutators
               PROVE  (\E i \in DOMAIN queue'[c] : queue'[c][i] = n) <=> (Queued(c, n) /\ n # next)
    OBVIOUS
  <2>1. ASSUME NEW i \in DOMAIN queue'[c], queue'[c][i] = n
        PROVE  Queued(c, n) /\ n # next
    <3>1. i + 1 \in DOMAIN queue[c] /\ queue[c][i + 1] = n /\ i + 1 # 1 /\ 1 \in DOMAIN queue[c]
      BY <1>6, <2>1
    <3> QED BY <1>3, <1>7, <3>1 DEF Queued
  <2>2. ASSUME NEW i \in DOMAIN queue[c], queue[c][i] = n, n # next
        PROVE  \E j \in DOMAIN queue'[c] : queue'[c][j] = n
    <3>1. i # 1
      BY <1>3, <2>2
    <3>2. i - 1 \in DOMAIN queue'[c] /\ queue'[c][i - 1] = queue[c][(i - 1) + 1] /\ (i - 1) + 1 = i
      BY <1>6, <3>1
    <3> QED BY <2>2, <3>2
  <2> QED BY <2>1, <2>2 DEF Queued
<1>9. G!SlotOwned'
  <2>1. \A p \in G!Party : \A n \in Mutators :
              (\E i \in DOMAIN queue'[p] : queue'[p][i] = n)
                 <=> (mut'[n] = "queued" /\ G!Ctx(n) = p)
    <3> SUFFICES ASSUME NEW p \in G!Party, NEW n \in Mutators
                 PROVE  (\E i \in DOMAIN queue'[p] : queue'[p][i] = n)
                           <=> (mut'[n] = "queued" /\ G!Ctx(n) = p)
      OBVIOUS
    <3>1. Queued(p, n) <=> (mut[n] = "queued" /\ G!Ctx(n) = p)
      BY SlotFacts
    <3>2. mut'[n] = "queued" <=> (mut[n] = "queued" /\ n # next)
      BY <1>2
    <3>4. CASE p = c
      BY <1>8, <3>1, <3>2, <3>4
    <3>5. CASE p # c
      BY <1>2, <1>5, <3>1, <3>2, <3>5 DEF Queued
    <3> QED BY <3>4, <3>5
  <2>2. \A p \in G!Party : locked'[p] <=> \E n \in Mutators : slot'[n] /\ G!Ctx(n) = p
    <3>1. \A p \in G!Party : locked[p] <=> \E n \in Mutators : slot[n] /\ G!Ctx(n) = p
      BY SlotFacts DEF Locks
    <3>2. \A p \in G!Party : (\E n \in Mutators : slot'[n] /\ G!Ctx(n) = p)
                                <=> (\E n \in Mutators : slot[n] /\ G!Ctx(n) = p)
      BY <1>2, <1>3
    <3> QED BY <1>2, <3>1, <3>2
  <2>3. \A k, n \in Mutators : slot'[k] /\ slot'[n] /\ G!Ctx(k) = G!Ctx(n) => k = n
    <3>1. \A n \in Mutators : slot[n] /\ G!Ctx(n) = c => n = m
      BY <1>2, <1>3, SlotFacts
    <3> QED BY <1>2, <3>1, SlotFacts
  <2> QED BY <2>1, <2>2, <2>3, SlotGoal
<1>10. QueueOnce'
  <2>1. \A i, j \in DOMAIN queue'[c] : queue'[c][i] = queue'[c][j] => i = j
    <3> SUFFICES ASSUME NEW i \in DOMAIN queue'[c], NEW j \in DOMAIN queue'[c],
                        queue'[c][i] = queue'[c][j]
                 PROVE  i = j
      OBVIOUS
    <3>1. /\ i + 1 \in DOMAIN queue[c] /\ j + 1 \in DOMAIN queue[c] /\ i \in Nat /\ j \in Nat
          /\ queue[c][i + 1] = queue[c][j + 1]
      BY <1>6, SMTT(30)
    <3>2. i + 1 = j + 1
      BY <1>7, <3>1
    <3> QED BY <3>1, <3>2
  <2> QED BY <1>5, <2>1 DEF GateInv, QueueOnce
<1> QED BY <1>4, <1>9, <1>10

(* The last holder frees the slot.                                          *)
LEMMA BooksFree ==
    ASSUME G!GateAssumption, GateInv, G!Next, NEW m \in Mutators, G!ReleaseLast(m)
    PROVE  PendingTrue' /\ G!SlotOwned' /\ QueueOnce'
<1> DEFINE c == G!Ctx(m)
<1>1. /\ locked \in [G!Party -> BOOLEAN] /\ mut \in [Mutators -> G!MutState]
      /\ pending \in [G!Party -> Nat] /\ slot \in [Mutators -> BOOLEAN]
  BY GateVars DEF GateInv
<1>2. /\ mut[m] \in {"leave", "slot_late"}
      /\ pending' = [pending EXCEPT ![c] = pending[c] - 1]
      /\ locked' = [locked EXCEPT ![c] = FALSE]
      /\ mut' = [mut EXCEPT ![m] = "done"] /\ slot' = [slot EXCEPT ![m] = FALSE]
      /\ queue' = queue
  BY DEF G!ReleaseLast
<1>3. slot[m] /\ c \in G!Party /\ G!Ctx(m) = c
  BY <1>2, CtxRange DEF GateInv, Calls
<1> HIDE DEF c
<1>4. /\ \A n \in Mutators : slot'[n] <=> (slot[n] /\ n # m)
      /\ \A n \in Mutators : mut'[n] = "queued" <=> mut[n] = "queued"
      /\ \A p \in G!Party : locked'[p] <=> (locked[p] /\ p # c)
      /\ \A p \in G!Party : pending'[p] = IF p = c THEN pending[p] - 1 ELSE pending[p]
  BY <1>1, <1>2, <1>3
<1>5. PendingTrue'
  <2>1. Asks(m) /\ ~Asks(m)' /\ \A n \in Mutators : n # m => (Asks(n)' <=> Asks(n))
    BY <1>2, <1>3, <1>4 DEF Asks
  <2> QED BY <1>3, <1>4, <2>1, PendingDrop
<1>6. \A n \in Mutators : slot[n] /\ G!Ctx(n) = c => n = m
  BY <1>3, SlotFacts
<1>7. \A p \in G!Party : locked'[p] <=> \E n \in Mutators : slot'[n] /\ G!Ctx(n) = p
  <2>1. \A p \in G!Party : locked[p] <=> \E n \in Mutators : slot[n] /\ G!Ctx(n) = p
    BY SlotFacts DEF Locks
  <2> QED BY <1>3, <1>4, <1>6, <2>1
<1>8. G!SlotOwned'
  BY <1>2, <1>4, <1>7, SlotGoal, SlotFacts DEF Queued
<1>9. QueueOnce'
  BY <1>2 DEF GateInv, QueueOnce
<1> QED BY <1>5, <1>8, <1>9

(* A deadline takes its waiter, and no other, out of the queue.             *)
LEMMA BooksExpire ==
    ASSUME G!GateAssumption, GateInv, G!Next, NEW m \in Mutators, G!TimerQueued(m)
    PROVE  PendingTrue' /\ G!SlotOwned' /\ QueueOnce'
<1> DEFINE c == G!Ctx(m)
<1>1. /\ queue \in [G!Party -> Seq(Mutators)] /\ mut \in [Mutators -> G!MutState]
      /\ pending \in [G!Party -> Nat]
  BY GateVars DEF GateInv
<1>2. /\ mut[m] = "queued"
      /\ pending' = [pending EXCEPT ![c] = pending[c] - 1]
      /\ mut' = [mut EXCEPT ![m] = "done"] /\ slot' = slot /\ locked' = locked
  BY DEF G!TimerQueued
<1>3. PICK k \in DOMAIN queue[c] :
         queue[c][k] = m /\ queue' = [queue EXCEPT ![c] = G!Splice(queue[c], k)]
  BY DEF G!TimerQueued
<1>4. ~slot[m] /\ c \in G!Party /\ G!Ctx(m) = c
  BY <1>2, CtxRange DEF GateInv, Calls
<1>5. queue[c] \in Seq(Mutators)
  BY <1>1, <1>4
<1> HIDE DEF c
<1>6. PendingTrue'
  <2>1. Asks(m) /\ ~Asks(m)' /\ \A n \in Mutators : n # m => (Asks(n)' <=> Asks(n))
    BY <1>1, <1>2, <1>4 DEF Asks
  <2>2. \A p \in G!Party : pending'[p] = IF p = c THEN pending[p] - 1 ELSE pending[p]
    BY <1>1, <1>2, <1>4
  <2> QED BY <1>4, <2>1, <2>2, PendingDrop
<1>7. /\ \A p \in G!Party : p # c => queue'[p] = queue[p]
      /\ queue'[c] = G!Splice(queue[c], k)
  BY <1>1, <1>3, <1>4
<1>8. DOMAIN queue[c] = 1 .. Len(queue[c]) /\ Len(queue[c]) \in Nat
  BY <1>5
<1>9. /\ DOMAIN queue'[c] = 1 .. Len(queue[c]) - 1
      /\ \A i \in 1 .. Len(queue[c]) - 1 : queue'[c][i] = queue[c][IF i < k THEN i ELSE i + 1]
  BY <1>7 DEF G!Splice
<1>10. \A i, j \in DOMAIN queue[c] : queue[c][i] = queue[c][j] => i = j
  BY <1>4 DEF GateInv, QueueOnce
<1> DEFINE from(i) == IF i < k THEN i ELSE i + 1
<1>11. \A i \in DOMAIN queue'[c] : /\ from(i) \in DOMAIN queue[c] /\ from(i) # k
                                   /\ queue'[c][i] = queue[c][from(i)]
  BY <1>8, <1>9
<1>12. \A i \in DOMAIN queue[c] : i # k => \E j \in DOMAIN queue'[c] : from(j) = i
  <2> SUFFICES ASSUME NEW i \in DOMAIN queue[c], i # k
               PROVE  \E j \in DOMAIN queue'[c] : from(j) = i
    OBVIOUS
  <2>1. CASE i < k
    <3>1. i \in DOMAIN queue'[c] /\ from(i) = i
      BY <1>8, <1>9, <2>1
    <3> QED BY <3>1
  <2>2. CASE ~(i < k)
    <3>1. i - 1 \in DOMAIN queue'[c] /\ from(i - 1) = i
      BY <1>8, <1>9, <2>2
    <3> QED BY <3>1
  <2> QED BY <2>1, <2>2
<1>13. \A i, j \in DOMAIN queue'[c] : from(i) = from(j) => i = j
  BY <1>8, <1>9
<1> HIDE DEF from
<1>14. \A n \in Mutators : (\E i \in DOMAIN queue'[c] : queue'[c][i] = n) <=> (Queued(c, n) /\ n # m)
  <2> SUFFICES ASSUME NEW n \in Mutators
               PROVE  (\E i \in DOMAIN queue'[c] : queue'[c][i] = n) <=> (Queued(c, n) /\ n # m)
    OBVIOUS
  <2>1. ASSUME NEW i \in DOMAIN queue'[c], queue'[c][i] = n
        PROVE  Queued(c, n) /\ n # m
    BY <1>3, <1>10, <1>11, <2>1 DEF Queued
  <2>2. ASSUME NEW i \in DOMAIN queue[c], queue[c][i] = n, n # m
        PROVE  \E j \in DOMAIN queue'[c] : queue'[c][j] = n
    BY <1>3, <1>11, <1>12, <2>2
  <2> QED BY <2>1, <2>2 DEF Queued
<1>15. G!SlotOwned'
  <2>1. \A p \in G!Party : \A n \in Mutators :
              (\E i \in DOMAIN queue'[p] : queue'[p][i] = n)
                 <=> (mut'[n] = "queued" /\ G!Ctx(n) = p)
    <3> SUFFICES ASSUME NEW p \in G!Party, NEW n \in Mutators
                 PROVE  (\E i \in DOMAIN queue'[p] : queue'[p][i] = n)
                           <=> (mut'[n] = "queued" /\ G!Ctx(n) = p)
      OBVIOUS
    <3>1. Queued(p, n) <=> (mut[n] = "queued" /\ G!Ctx(n) = p)
      BY SlotFacts
    <3>2. mut'[n] = "queued" <=> (mut[n] = "queued" /\ n # m)
      BY <1>1, <1>2
    <3>4. CASE p = c
      BY <1>14, <3>1, <3>2, <3>4
    <3>5. CASE p # c
      BY <1>4, <1>7, <3>1, <3>2, <3>5 DEF Queued
    <3> QED BY <3>4, <3>5
  <2> QED BY <1>2, <2>1, SlotGoal, SlotFacts DEF Locks
<1>16. QueueOnce'
  <2>1. \A i, j \in DOMAIN queue'[c] : queue'[c][i] = queue'[c][j] => i = j
    BY <1>10, <1>11, <1>13
  <2> QED BY <1>7, <2>1 DEF GateInv, QueueOnce
<1> QED BY <1>6, <1>15, <1>16

(* Every step keeps the books of the upgrade slots.                         *)
LEMMA BooksStep ==
    ASSUME G!GateAssumption, GateInv, G!Next
    PROVE  PendingTrue' /\ G!SlotOwned' /\ QueueOnce'
<1> DEFINE Good == PendingTrue' /\ G!SlotOwned' /\ QueueOnce'
<1>1. mut \in [Mutators -> G!MutState]
  BY GateVars DEF GateInv
<1>2. ASSUME NEW p \in G!Party,
             \/ G!AdmitDirect(p) \/ G!AdmitWait(p) \/ G!LeaveDirect(p)
             \/ G!Admit(p) \/ G!LeaveReleased(p)
      PROVE  Good
  BY <1>2, BooksFrame DEF G!AdmitDirect, G!AdmitWait, G!LeaveDirect, G!Admit, G!LeaveReleased, G!lease
<1>3. ASSUME NEW p \in G!Party, G!Leave(p) PROVE Good
  <2>1. \A n \in Mutators : mut'[n] = "queued" <=> mut[n] = "queued"
    BY <1>1, <1>3 DEF G!Leave, G!WakeDrain
  <2> QED BY <1>3, <2>1, BooksFrame DEF G!Leave
<1>4. ASSUME NEW m \in Mutators, G!EnterClose(m) \/ G!EnterWait(m) PROVE Good
  <2>1. \A n \in Mutators : mut'[n] = "queued" <=> mut[n] = "queued"
    BY <1>4, EntersOne
  <2> QED BY <1>4, <2>1, BooksTake DEF G!EnterClose, G!EnterWait
<1>5. ASSUME NEW m \in Mutators, G!EnterConflict(m) \/ G!EnterLate(m) PROVE Good
  <2>1. \A n \in Mutators : mut'[n] = "queued" <=> mut[n] = "queued"
    <3>1. mut[m] \in {"idle", "slot"} /\ mut' = [mut EXCEPT ![m] = G!Ended(m)]
      BY <1>5 DEF G!EnterConflict, G!EnterLate, G!Entering, G!CanBegin
    <3>2. G!Ended(m) \in {"leave", "done"}
      BY DEF G!Ended
    <3> HIDE DEF G!Ended
    <3> QED BY <1>1, <3>1, <3>2
  <2> QED BY <1>5, <2>1, BooksTake DEF G!EnterConflict, G!EnterLate
<1>6. ASSUME NEW m \in Mutators, G!Finish(m) \/ G!Rollback(m) PROVE Good
  <2>1. slot' = slot /\ \A n \in Mutators : mut'[n] = "queued" <=> mut[n] = "queued"
    BY <1>6, ReopensOne
  <2> QED BY <1>6, <2>1, BooksFrame DEF G!Finish, G!Rollback, G!lease
<1>7. ASSUME NEW m \in Mutators, G!BeginLate(m) PROVE Good
  <2>1. mut' = [mut EXCEPT ![m] = "done"] /\ mut[m] = "idle"
    BY <1>7 DEF G!BeginLate, G!CanBegin
  <2>2. \A n \in Mutators : mut'[n] = "queued" <=> mut[n] = "queued"
    BY <1>1, <2>1
  <2> QED BY <1>7, <2>2, BooksFrame DEF G!BeginLate, G!lease
<1>8. ASSUME NEW m \in Mutators,
             \/ G!OpenAgain(m) \/ G!OpenClose(m) \/ G!OpenLate(m) \/ G!Run(m)
             \/ G!TimerWaiting(m) \/ G!Deadline(m)
      PROVE  Good
  <2>1. \A n \in Mutators : mut'[n] = "queued" <=> mut[n] = "queued"
    <3>1. G!Ended(m) \in {"leave", "done"} /\ G!DrainState(count) \in {"drain_wait", "drain_ok"}
      BY DEF G!Ended, G!DrainState
    <3>2. CASE G!OpenAgain(m) \/ G!OpenClose(m) \/ G!OpenLate(m) \/ G!Run(m)
      BY <1>1, <3>1, <3>2 DEF G!OpenAgain, G!OpenClose, G!OpenLate, G!Run
    <3>3. CASE G!TimerWaiting(m) \/ G!Deadline(m)
      BY <1>1, <3>3 DEF G!TimerWaiting, G!Deadline
    <3> QED BY <1>8, <3>2, <3>3
  <2> QED BY <1>8, <2>1, BooksFrame DEF G!OpenAgain, G!OpenClose, G!OpenLate, G!Run,
             G!TimerWaiting, G!Deadline, G!lease
<1> QED BY GateSplit, <1>2, <1>3, <1>4, <1>5, <1>6, <1>7, <1>8,
           BooksQueue, BooksHand, BooksFree, BooksExpire DEF GateMoves

(* The gate's invariant is inductive.                                       *)
LEMMA GateInit ==
    ASSUME G!GateAssumption, G!Init
    PROVE  GateInv
<1>1. G!TypeOK
  <2>1. \A p \in G!Party : <<>> \in Seq(Mutators)
    OBVIOUS
  <2>2. queue \in [G!Party -> Seq(Mutators)]
    BY <2>1 DEF G!Init
  <2> QED BY <2>2 DEF G!TypeOK, G!Init, G!AdmState, G!MutState, G!Result
<1>2. /\ \A p \in G!Party : ~active[p] /\ ~finished[p] /\ adm[p] = "none" /\ pending[p] = 0
                            /\ locked[p] = FALSE /\ queue[p] = <<>>
      /\ \A m \in Mutators : mut[m] = "idle" /\ ~slot[m] /\ ~upg[m] /\ ~late[m]
      /\ count = 0 /\ mutating = FALSE
  BY DEF G!Init
<1>3. Handlers \subseteq G!Party /\ Mutators \subseteq G!Party /\ Nested \subseteq Mutators
  BY DEF G!GateAssumption, G!Party
<1>4. LeaseShape /\ Calls /\ Carriers /\ Lent /\ Drained
  BY <1>2, <1>3 DEF LeaseShape, Calls, Carriers, Carries, Lent, Drained
<1>5. G!CountTrue
  <2>1. {p \in G!Party : active[p]} = {}
    BY <1>2
  <2> QED BY <1>2, <2>1, FS_EmptySet, GateCardinality DEF G!CountTrue
<1>6. G!GateOwned
  BY <1>2 DEF G!GateOwned, G!Owns
<1>7. PendingTrue
  <2>1. \A p \in G!Party : Askers(p) = {}
    BY <1>2 DEF Askers
  <2> QED BY <1>2, <2>1, FS_EmptySet DEF PendingTrue
<1>8. G!SlotOwned /\ QueueOnce
  <2>1. \A p \in G!Party : DOMAIN queue[p] = {}
    BY <1>2
  <2> QED BY <1>2, <2>1 DEF G!SlotOwned, QueueOnce
<1> QED BY <1>1, <1>4, <1>5, <1>6, <1>7, <1>8 DEF GateInv

(* Every step of the gate keeps its invariant, conjunct by conjunct.        *)
LEMMA GateStep ==
    ASSUME G!GateAssumption, GateInv, G!Next
    PROVE  GateInv'
  BY GateTypesStep, LeaseShapeStep, CallsStep, CarriersStep, LentStep, CountStep, OwnedStep, BooksStep
     DEF GateInv

(* The gate at rest.                                                        *)
LEMMA GateStutter ==
    ASSUME GateInv, UNCHANGED gate
    PROVE  GateInv'
<1>1. /\ count' = count /\ mutating' = mutating /\ active' = active /\ finished' = finished
      /\ pending' = pending /\ locked' = locked /\ queue' = queue /\ adm' = adm /\ mut' = mut
      /\ slot' = slot /\ upg' = upg /\ late' = late /\ result' = result
  BY DEF gate
<1>2. \A m : G!Ctx(m)' = G!Ctx(m)
  BY <1>1 DEF G!Ctx
<1>3. \A m : Carries(m)' <=> Carries(m)
  BY <1>1 DEF Carries
<1>4. G!TypeOK' /\ LeaseShape' /\ G!CountTrue' /\ G!GateOwned' /\ Drained' /\ QueueOnce'
  BY <1>1 DEF GateInv, G!TypeOK, LeaseShape, G!CountTrue, G!GateOwned, Drained, QueueOnce
<1>5. Calls' /\ Carriers' /\ Lent'
  BY <1>1, <1>2, <1>3 DEF GateInv, Calls, Carriers, Lent
<1>6. PendingTrue'
  <2>1. \A p : Askers(p)' = Askers(p)
    BY <1>1, <1>2 DEF Askers
  <2> QED BY <1>1, <2>1 DEF GateInv, PendingTrue
<1>7. G!SlotOwned'
  BY <1>1, <1>2 DEF GateInv, G!SlotOwned
<1> QED BY <1>4, <1>5, <1>6, <1>7 DEF GateInv

(* A running mutation is alone: no lease is active, so every admitted turn  *)
(* has lent its lease to a mutation that is pending on it.                  *)
LEMMA GateInvAlone ==
    ASSUME G!GateAssumption, GateInv
    PROVE  MutationAlone
<1>1. G!MutationAlone
  <2> SUFFICES ASSUME NEW m \in Mutators, mut[m] = "running", NEW p \in G!Party, adm[p] = "in"
               PROVE  pending[p] > 0 /\ ~active[p]
    BY DEF G!MutationAlone
  <2>1. ~active[p]
    <3> DEFINE S == {q \in G!Party : active[q]}
    <3>1. IsFiniteSet(S) /\ count = Cardinality(S)
      BY PartyFinite, GateCardinality, FS_Subset, S \in SUBSET G!Party DEF GateInv, G!CountTrue
    <3>2. count = 0
      BY DEF GateInv, Drained
    <3>3. S = {}
      BY <3>1, <3>2, FS_EmptySet
    <3> QED BY <3>3
  <2>2. PICK n \in Mutators : Carries(n) /\ G!Ctx(n) = p
    BY <2>1 DEF GateInv, Lent
  <2>3. slot[n]
    BY <2>2 DEF GateInv, Carriers
  <2>4. n \in Askers(p) /\ Askers(p) \in SUBSET Mutators
    BY <2>2, <2>3 DEF Askers
  <2>5. IsFiniteSet(Askers(p))
    BY <2>4, PartyFinite, FS_Subset
  <2>6. Cardinality(Askers(p)) # 0
    BY <2>4, <2>5, FS_EmptySet
  <2>7. pending[p] = Cardinality(Askers(p)) /\ pending[p] \in Nat
    BY GateVars DEF GateInv, PendingTrue
  <2> QED BY <2>1, <2>6, <2>7
<1> QED BY <1>1 DEF MutationAlone, GateInv

-----------------------------------------------------------------------------
(* The broker's invariant concerns one hook at a time: the daemon is up, a  *)
(* fault has hit the hook, it is resumable; its entry, record and process;  *)
(* the ticks, the accepted answers and the stashed answer; the record was   *)
(* not written, and a restart has read such a record.                       *)
HookInv(u, l, res, a, d, k, t, acc, st, w, s) ==
    LET live == res /\ a.id # 0 /\ (~a.settled \/ a.stash)
        open == u /\ a.id # 0 /\ ~a.settled
    IN  \* What entries and records can look like, and when an ask is dormant.
        /\ d.id = 0 => d = A!NoRecord
        /\ d.id # 0 => res
        /\ a.id = 0 => a = A!NoAsk
        /\ a.stash => a.settled /\ a.dormant
        /\ a.dormant => res /\ l /\ k.pc # "wait"
        /\ k.pc = "retry" => l
        /\ ~u => a = A!NoAsk /\ k.pc \notin {"wait", "resp"} /\ l
        \* Memory and disk agree, but for a failed write; the ticks of an open
        \* ask and an answer nobody claimed are on both.
        /\ u /\ ~w => (live <=> d.id # 0)
        /\ u /\ ~w /\ live => d.id = a.id /\ d.sel = a.sel /\ d.stash = a.stash /\ d.result = a.result
        /\ ~w /\ ~s /\ d.id # 0 /\ ~d.stash => d.sel = t
        /\ ~s /\ res /\ open => a.sel = t
        /\ ~w /\ ~s /\ st # A!NoResult => d.stash /\ d.result = st
        /\ ~s /\ u /\ st # A!NoResult => a.stash /\ a.result = st
        /\ ~u /\ w => s
        \* No answer is stored or delivered that no user gave.
        /\ a.result.kind = "answered" => a.result \in acc
        /\ d.result.kind = "answered" => d.result \in acc
        /\ k.result.kind = "answered" => k.result \in acc
        \* An open ask that is not dormant has its card, or is sending it.
        /\ open /\ ~a.dormant => a.card \/ a.send # 0
        \* Until a fault hits the hook its request is answered at most once.
        /\ ~l => /\ acc = {} \/ \E r \in acc : acc = {r}
                 /\ k.pc = "new" => acc = {} /\ a.id = 0
                 /\ open => acc = {}

(* The invariant of hook h.                                                 *)
HookOK(h) ==
    HookInv(up, h \in lost, h \in Resumable, asks[h], disk[h], hook[h],
            ticked[h], accepted[h], stashed[h], h \in stale, h \in spoiled)

(* The inductive invariant of the broker.                                   *)
AskInv == A!TypeOK /\ \A h \in Hook : HookOK(h)

-----------------------------------------------------------------------------
(* The records of the broker.                                               *)
AskRec == [id : 0..MaxIds, settled : BOOLEAN, dormant : BOOLEAN, stash : BOOLEAN,
           result : A!Result, card : BOOLEAN, send : 0..MaxSend, sel : SUBSET Option]
DiskRec == [id : 0..MaxIds, card : BOOLEAN, sel : SUBSET Option, stash : BOOLEAN, result : A!Result]
HookRec == [pc : {"new", "wait", "resp", "retry", "done"}, result : A!Result]

(* The broker's types, one variable at a time.                             *)
LEMMA AskVars ==
    ASSUME A!TypeOK
    PROVE  /\ up \in BOOLEAN
           /\ asks \in [Hook -> AskRec]
           /\ disk \in [Hook -> DiskRec]
           /\ hook \in [Hook -> HookRec]
           /\ card \in [Hook -> 0..MaxIds] /\ ids \in 0..MaxIds
           /\ hookLate \subseteq Hook /\ askLate \subseteq Hook
           /\ ticked \in [Hook -> SUBSET Option]
           /\ accepted \in [Hook -> SUBSET A!Result]
           /\ stashed \in [Hook -> A!Result]
           /\ lost \subseteq Hook /\ faults \in 0..MaxFaults
           /\ stale \subseteq Hook /\ spoiled \subseteq Hook
  BY DEF A!TypeOK, AskRec, DiskRec, HookRec

(* The constant results, entries and records have their types.              *)
LEMMA AskConstants ==
    ASSUME A!AskBrokerAssumption
    PROVE  /\ A!NoResult \in A!Result /\ A!TimedOut \in A!Result /\ A!Invalidated \in A!Result
           /\ A!Reply \in A!Result
           /\ \A s \in SUBSET Option : A!Answered(s) \in A!Result
           /\ A!NoAsk \in AskRec /\ A!NoRecord \in DiskRec
           /\ A!NoResult.kind = "none" /\ A!TimedOut.kind = "timedOut"
           /\ A!Invalidated.kind = "invalidated"
<1>1. /\ A!NoResult \in A!Result /\ A!TimedOut \in A!Result /\ A!Invalidated \in A!Result
      /\ A!Reply \in A!Result
      /\ \A s \in SUBSET Option : A!Answered(s) \in A!Result
  BY DEF A!NoResult, A!TimedOut, A!Invalidated, A!Reply, A!Answered, A!Result
<1>2. 0 \in 0..MaxIds /\ 0 \in 0..MaxSend
  BY DEF A!AskBrokerAssumption
<1>3. A!NoAsk \in AskRec /\ A!NoRecord \in DiskRec
  BY <1>1, <1>2 DEF A!NoAsk, A!NoRecord, AskRec, DiskRec
<1> QED BY <1>1, <1>3 DEF A!NoResult, A!TimedOut, A!Invalidated

(* A step that concerns one hook leaves every other hook as it was.         *)
OthersKept(h) ==
    /\ up' = up
    /\ \A g \in Hook \ {h} :
          /\ asks'[g] = asks[g] /\ disk'[g] = disk[g] /\ hook'[g] = hook[g]
          /\ ticked'[g] = ticked[g] /\ accepted'[g] = accepted[g] /\ stashed'[g] = stashed[g]
          /\ g \in lost' <=> g \in lost
          /\ g \in stale' <=> g \in stale
          /\ g \in spoiled' <=> g \in spoiled

(* Such a step keeps the invariant when it keeps it for its own hook.       *)
LEMMA OneHook ==
    ASSUME AskInv, A!TypeOK', NEW h \in Hook, OthersKept(h), HookOK(h)'
    PROVE  AskInv'
<1>1. ASSUME NEW g \in Hook, g # h PROVE HookOK(g)'
  <2>1. HookOK(g)
    BY DEF AskInv
  <2>2. /\ up' = up /\ asks'[g] = asks[g] /\ disk'[g] = disk[g] /\ hook'[g] = hook[g]
        /\ ticked'[g] = ticked[g] /\ accepted'[g] = accepted[g] /\ stashed'[g] = stashed[g]
    BY <1>1 DEF OthersKept
  <2>3. /\ (g \in lost') = (g \in lost) /\ (g \in stale') = (g \in stale)
        /\ (g \in spoiled') = (g \in spoiled)
    BY <1>1 DEF OthersKept
  <2> QED BY <2>1, <2>2, <2>3 DEF HookOK
<1> QED BY <1>1 DEF AskInv

(* What a write of a hook's record leads to, whether it succeeds or not.    *)
Written(h, d) ==
    /\ disk' \in [Hook -> DiskRec] /\ stale' \subseteq Hook /\ faults' \in 0..MaxFaults
    /\ \A g \in Hook \ {h} : disk'[g] = disk[g] /\ (g \in stale' <=> g \in stale)
    /\ \/ disk'[h] = d /\ h \notin stale'
       \/ h \in Resumable /\ disk'[h] = disk[h] /\ h \in stale'

(* A write concerns one record.                                             *)
LEMMA WriteStep ==
    ASSUME A!AskBrokerAssumption, AskInv, NEW h \in Hook, NEW d \in DiskRec, A!Write(h, d)
    PROVE  Written(h, d)
<1>1. disk \in [Hook -> DiskRec] /\ stale \subseteq Hook /\ faults \in 0..MaxFaults /\ MaxFaults \in Nat
  BY AskVars DEF AskInv, A!AskBrokerAssumption
<1>2. CASE disk' = [disk EXCEPT ![h] = d] /\ stale' = stale \ {h} /\ faults' = faults
  BY <1>1, <1>2 DEF Written
<1>3. CASE h \in Resumable /\ faults < MaxFaults /\ faults' = faults + 1 /\ stale' = stale \cup {h} /\ disk' = disk
  BY <1>1, <1>3 DEF Written
<1> QED BY <1>2, <1>3 DEF A!Write

-----------------------------------------------------------------------------
(* A hook's request arrives: a new ask, a join, a replay, or a reattachment.*)
LEMMA RegisterStep ==
    ASSUME A!AskBrokerAssumption, AskInv, NEW h \in Hook, A!Register(h)
    PROVE  AskInv'
<1>1. /\ up \in BOOLEAN
      /\ asks \in [Hook -> AskRec]
      /\ disk \in [Hook -> DiskRec]
      /\ hook \in [Hook -> HookRec]
      /\ card \in [Hook -> 0..MaxIds] /\ ids \in 0..MaxIds
      /\ hookLate \subseteq Hook /\ askLate \subseteq Hook
      /\ ticked \in [Hook -> SUBSET Option]
      /\ accepted \in [Hook -> SUBSET A!Result]
      /\ stashed \in [Hook -> A!Result]
      /\ lost \subseteq Hook /\ faults \in 0..MaxFaults
      /\ stale \subseteq Hook /\ spoiled \subseteq Hook
  BY AskVars DEF AskInv
<1>2. asks[h] \in AskRec /\ disk[h] \in DiskRec /\ hook[h] \in HookRec
  BY <1>1
<1>3. HookInv(up, h \in lost, h \in Resumable, asks[h], disk[h], hook[h],
              ticked[h], accepted[h], stashed[h], h \in stale, h \in spoiled)
  BY DEF AskInv, HookOK
<1>4. A!NoResult \in A!Result /\ A!NoResult.kind = "none" /\ A!NoAsk \in AskRec /\ A!NoRecord \in DiskRec
  BY AskConstants
<1>5. CASE A!RegisterNew(h)
  <2> DEFINE a == [A!NoAsk EXCEPT !.id = ids', !.send = 1]
             d == [id |-> a.id, card |-> a.card, sel |-> a.sel, stash |-> a.stash, result |-> a.result]
             k == [pc |-> "wait", result |-> A!NoResult]
  <2>1. ids < MaxIds /\ ids' = ids + 1 /\ ids' \in 0..MaxIds /\ ids' # 0 /\ 1 \in 0..MaxSend
    BY <1>1, <1>5 DEF A!RegisterNew, A!AskBrokerAssumption
  <2>2. /\ a \in AskRec
        /\ a.id = ids' /\ a.send = 1 /\ a.settled = A!NoAsk.settled /\ a.dormant = A!NoAsk.dormant
        /\ a.stash = A!NoAsk.stash /\ a.result = A!NoAsk.result /\ a.card = A!NoAsk.card
        /\ a.sel = A!NoAsk.sel
    BY <1>4, <2>1 DEF AskRec
  <2>3. /\ ~a.settled /\ ~a.dormant /\ ~a.stash /\ a.result = A!NoResult /\ ~a.card /\ a.sel = {}
    BY <2>2 DEF A!NoAsk
  <2>4. asks' = [asks EXCEPT ![h] = a]
    BY <1>5, Zenon DEF A!RegisterNew
  <2>5. IF h \in Resumable THEN A!Write(h, d) ELSE UNCHANGED <<disk, stale, faults>>
    <3>1. A!Persist(h, a)
      BY <1>5, Zenon DEF A!RegisterNew
    <3> HIDE DEF a
    <3> QED BY <2>3, <3>1, Zenon DEF A!Persist
  <2>5a. /\ d \in DiskRec /\ d.id = a.id /\ d.sel = a.sel /\ d.stash = a.stash /\ d.result = a.result
        /\ k \in HookRec /\ k.pc = "wait" /\ k.result = A!NoResult
    <3> HIDE DEF a
    <3> QED BY <1>4, <2>2 DEF AskRec, DiskRec, HookRec
  <2>6. hook' = [hook EXCEPT ![h] = k]
    BY <1>5 DEF A!RegisterNew, A!Block
  <2> HIDE DEF a, d, k
  <2>7. /\ askLate' = askLate \ {h} /\ ticked' = [ticked EXCEPT ![h] = {}]
        /\ stashed' = [stashed EXCEPT ![h] = A!NoResult] /\ spoiled' = spoiled \ {h}
        /\ up' = up /\ card' = card /\ hookLate' = hookLate /\ accepted' = accepted
        /\ lost' = lost
        /\ up /\ asks[h].id = 0 /\ hook[h].pc \in {"new", "retry"}
    BY <1>5 DEF A!RegisterNew, A!Arrives, A!Exists
  <2>8. CASE h \in Resumable
    <3>1. Written(h, d)
      BY <2>5, <2>5a, <2>8, WriteStep
    <3>2. A!TypeOK'
      BY <1>1, <1>4, <2>1, <2>2, <2>4, <2>5a, <2>6, <2>7, <3>1 DEF A!TypeOK, AskRec, DiskRec, HookRec, Written
    <3>3. OthersKept(h)
      BY <1>1, <2>4, <2>6, <2>7, <3>1 DEF OthersKept, Written
    <3>4. /\ asks'[h] = a /\ hook'[h] = k /\ ticked'[h] = {} /\ stashed'[h] = A!NoResult
          /\ h \notin spoiled'
      BY <1>1, <2>4, <2>6, <2>7
    <3>5. CASE disk'[h] = d /\ h \notin stale'
      <4>1. HookInv(up, h \in lost, h \in Resumable, a, d, k, {}, accepted[h], A!NoResult, FALSE, FALSE)
        BY <1>2, <1>3, <1>4, <2>1, <2>2, <2>3, <2>5a, <2>7, <2>8 DEF HookInv
      <4>2. (h \in stale') = FALSE /\ (h \in spoiled') = FALSE
        BY <3>4, <3>5
      <4>3. HookOK(h)'
        BY <2>7, <3>4, <3>5, <4>1, <4>2 DEF HookOK
      <4> QED BY <3>2, <3>3, <4>3, OneHook
    <3>6. CASE disk'[h] = disk[h] /\ h \in stale'
      <4>1. HookInv(up, h \in lost, h \in Resumable, a, disk[h], k, {}, accepted[h], A!NoResult, TRUE, FALSE)
        BY <1>2, <1>3, <1>4, <2>1, <2>2, <2>3, <2>5a, <2>7, <2>8 DEF HookInv
      <4>2. (h \in stale') = TRUE /\ (h \in spoiled') = FALSE
        BY <3>4, <3>6
      <4>3. HookOK(h)'
        BY <2>7, <3>4, <3>6, <4>1, <4>2 DEF HookOK
      <4> QED BY <3>2, <3>3, <4>3, OneHook
    <3> QED BY <3>1, <3>5, <3>6 DEF Written
  <2>9. CASE h \notin Resumable
    <3>1. disk' = disk /\ stale' = stale /\ faults' = faults
      BY <2>5, <2>9
    <3>2. A!TypeOK'
      BY <1>1, <1>4, <2>1, <2>2, <2>4, <2>5a, <2>6, <2>7, <3>1 DEF A!TypeOK, AskRec, DiskRec, HookRec
    <3>3. OthersKept(h)
      BY <1>1, <2>4, <2>6, <2>7, <3>1 DEF OthersKept
    <3>4. /\ asks'[h] = a /\ hook'[h] = k /\ ticked'[h] = {} /\ stashed'[h] = A!NoResult
          /\ h \notin spoiled' /\ disk'[h] = disk[h]
      BY <1>1, <2>4, <2>6, <2>7, <3>1
    <3>5. HookInv(up, h \in lost, h \in Resumable, a, disk[h], k, {}, accepted[h], A!NoResult, h \in stale, FALSE)
      BY <1>2, <1>3, <1>4, <2>1, <2>2, <2>3, <2>5a, <2>7, <2>9 DEF HookInv
    <3>6. (h \in stale') = (h \in stale) /\ (h \in spoiled') = FALSE
      BY <3>1, <3>4
    <3>7. HookOK(h)'
      BY <2>7, <3>4, <3>5, <3>6 DEF HookOK
    <3> QED BY <3>2, <3>3, <3>7, OneHook
  <2> QED BY <2>8, <2>9
<1>6. CASE A!RegisterJoin(h)
  <2> DEFINE k == [pc |-> "wait", result |-> A!NoResult]
  <2>1. k \in HookRec /\ k.pc = "wait" /\ k.result = A!NoResult
    BY <1>4 DEF HookRec
  <2>2. /\ hook' = [hook EXCEPT ![h] = k]
        /\ up' = up /\ asks' = asks /\ disk' = disk /\ card' = card /\ ids' = ids
        /\ hookLate' = hookLate /\ askLate' = askLate /\ ticked' = ticked
        /\ accepted' = accepted /\ stashed' = stashed /\ lost' = lost /\ faults' = faults /\ stale' = stale /\ spoiled' = spoiled
        /\ up /\ asks[h].id # 0 /\ ~asks[h].dormant
    BY <1>6 DEF A!RegisterJoin, A!Block, A!Arrives, A!Exists
  <2> HIDE DEF k
  <2>3. A!TypeOK'
    <3>1. hook' \in [Hook -> HookRec]
      BY <1>1, <2>1, <2>2
    <3> QED BY <1>1, <2>2, <3>1 DEF A!TypeOK, AskRec, DiskRec, HookRec
  <2>4. OthersKept(h)
    BY <1>1, <2>2 DEF OthersKept
  <2>5. HookInv(up, h \in lost, h \in Resumable, asks[h], disk[h], k,
                ticked[h], accepted[h], stashed[h], h \in stale, h \in spoiled)
    BY <1>2, <1>3, <1>4, <2>1, <2>2 DEF HookInv
  <2>6. HookOK(h)'
    BY <1>1, <2>2, <2>5 DEF HookOK
  <2> QED BY <2>3, <2>4, <2>6, OneHook
<1>7. CASE A!RegisterReplay(h)
  <2> DEFINE k == [pc |-> "resp", result |-> asks[h].result]
  <2>1. k \in HookRec /\ k.pc = "resp" /\ k.result = asks[h].result
    BY <1>2 DEF HookRec, AskRec
  <2>2. /\ hook' = [hook EXCEPT ![h] = k]
        /\ up' = up /\ asks' = asks /\ disk' = disk /\ card' = card /\ ids' = ids
        /\ hookLate' = hookLate /\ askLate' = askLate /\ ticked' = ticked
        /\ accepted' = accepted /\ stashed' = stashed /\ lost' = lost /\ faults' = faults /\ stale' = stale /\ spoiled' = spoiled
        /\ up /\ asks[h].id # 0
    BY <1>7 DEF A!RegisterReplay, A!Receive, A!Arrives, A!Exists
  <2> HIDE DEF k
  <2>3. A!TypeOK'
    <3>1. hook' \in [Hook -> HookRec]
      BY <1>1, <2>1, <2>2
    <3> QED BY <1>1, <2>2, <3>1 DEF A!TypeOK, AskRec, DiskRec, HookRec
  <2>4. OthersKept(h)
    BY <1>1, <2>2 DEF OthersKept
  <2>5. HookInv(up, h \in lost, h \in Resumable, asks[h], disk[h], k,
                ticked[h], accepted[h], stashed[h], h \in stale, h \in spoiled)
    BY <1>2, <1>3, <1>4, <2>1, <2>2 DEF HookInv
  <2>6. HookOK(h)'
    BY <1>1, <2>2, <2>5 DEF HookOK
  <2> QED BY <2>3, <2>4, <2>6, OneHook
<1>8. CASE A!ReattachClaim(h)
  <2> DEFINE a == [asks[h] EXCEPT !.dormant = FALSE, !.stash = FALSE]
             k == [pc |-> "resp", result |-> asks[h].result]
  <2>1. k \in HookRec /\ k.pc = "resp" /\ k.result = asks[h].result
    BY <1>2 DEF HookRec, AskRec
  <2>2. /\ a \in AskRec /\ a.dormant = FALSE /\ a.stash = FALSE /\ a.id = asks[h].id
        /\ a.settled = asks[h].settled /\ a.result = asks[h].result
    BY <1>2 DEF AskRec
  <2>3. asks' = [asks EXCEPT ![h] = a]
    BY <1>1, <1>8 DEF A!ReattachClaim
  <2>4. /\ hook' = [hook EXCEPT ![h] = k]
        /\ A!Write(h, A!NoRecord)
        /\ stashed' = [stashed EXCEPT ![h] = A!NoResult]
        /\ up' = up /\ card' = card /\ ids' = ids
        /\ hookLate' = hookLate /\ askLate' = askLate /\ ticked' = ticked
        /\ accepted' = accepted /\ lost' = lost /\ spoiled' = spoiled
        /\ up /\ asks[h].id # 0 /\ asks[h].dormant /\ asks[h].stash
    BY <1>8 DEF A!ReattachClaim, A!Receive, A!Remove, A!Arrives, A!Exists
  <2> HIDE DEF k, a
  <2>4a. Written(h, A!NoRecord)
    BY <1>4, <2>4, WriteStep
  <2>5. A!TypeOK'
    <3>1. hook' \in [Hook -> HookRec] /\ asks' \in [Hook -> AskRec]
      BY <1>1, <2>1, <2>2, <2>3, <2>4
    <3>2. stashed' \in [Hook -> A!Result]
      BY <1>1, <1>4, <2>4
    <3> QED BY <1>1, <2>4, <2>4a, <3>1, <3>2 DEF A!TypeOK, AskRec, DiskRec, HookRec, Written
  <2>6. OthersKept(h)
    BY <1>1, <2>3, <2>4, <2>4a DEF OthersKept, Written
  <2>7. asks'[h] = a /\ hook'[h] = k /\ stashed'[h] = A!NoResult
    BY <1>1, <2>3, <2>4
  <2>8. CASE disk'[h] = A!NoRecord /\ h \notin stale'
    <3>1. HookInv(up, h \in lost, h \in Resumable, a, A!NoRecord, k,
                  ticked[h], accepted[h], A!NoResult, FALSE, h \in spoiled)
      <4>1. A!NoRecord.id = 0 /\ A!NoRecord.result = A!NoResult /\ A!NoRecord.stash = FALSE
        BY DEF A!NoRecord
      <4> QED BY <1>2, <1>3, <1>4, <2>1, <2>2, <2>4, <4>1 DEF HookInv
    <3>2. (h \in stale') = FALSE
      BY <2>8
    <3>3. HookOK(h)'
      BY <2>4, <2>7, <2>8, <3>1, <3>2 DEF HookOK
    <3> QED BY <2>5, <2>6, <3>3, OneHook
  <2>9. CASE disk'[h] = disk[h] /\ h \in stale'
    <3>1. HookInv(up, h \in lost, h \in Resumable, a, disk[h], k,
                  ticked[h], accepted[h], A!NoResult, TRUE, h \in spoiled)
      BY <1>2, <1>3, <1>4, <2>1, <2>2, <2>4 DEF HookInv
    <3>2. (h \in stale') = TRUE
      BY <2>9
    <3>3. HookOK(h)'
      BY <2>4, <2>7, <2>9, <3>1, <3>2 DEF HookOK
    <3> QED BY <2>5, <2>6, <3>3, OneHook
  <2> QED BY <2>4a, <2>8, <2>9 DEF Written
<1>9. CASE A!ReattachWait(h)
  <2> DEFINE n == IF asks[h].card \/ asks[h].settled THEN 0 ELSE 1
             a == [asks[h] EXCEPT !.dormant = FALSE, !.send = n]
             k == [pc |-> "wait", result |-> A!NoResult]
  <2>1. k \in HookRec /\ k.pc = "wait" /\ k.result = A!NoResult
    BY <1>4 DEF HookRec
  <2>2. n \in 0..MaxSend /\ (n # 0 \/ asks[h].card \/ asks[h].settled)
    BY DEF A!AskBrokerAssumption
  <2> HIDE DEF n
  <2>3. /\ a \in AskRec /\ a.dormant = FALSE /\ a.stash = asks[h].stash /\ a.id = asks[h].id
        /\ a.settled = asks[h].settled /\ a.result = asks[h].result /\ a.send = n
        /\ a.card = asks[h].card /\ a.sel = asks[h].sel
    BY <1>2, <2>2 DEF AskRec
  <2>4. asks' = [asks EXCEPT ![h] = a]
    BY <1>1, <1>9 DEF A!ReattachWait, n
  <2>5. /\ hook' = [hook EXCEPT ![h] = k] /\ disk' = disk /\ stashed' = stashed
        /\ up' = up /\ card' = card /\ ids' = ids
        /\ hookLate' = hookLate /\ askLate' = askLate /\ ticked' = ticked
        /\ accepted' = accepted /\ lost' = lost /\ faults' = faults /\ stale' = stale /\ spoiled' = spoiled
        /\ up /\ asks[h].id # 0 /\ asks[h].dormant /\ ~asks[h].stash
    BY <1>9 DEF A!ReattachWait, A!Block, A!Arrives, A!Exists
  <2> HIDE DEF k, a
  <2>6. A!TypeOK'
    <3>1. hook' \in [Hook -> HookRec] /\ asks' \in [Hook -> AskRec]
      BY <1>1, <2>1, <2>3, <2>4, <2>5
    <3> QED BY <1>1, <2>5, <3>1 DEF A!TypeOK, AskRec, DiskRec, HookRec
  <2>7. OthersKept(h)
    BY <1>1, <2>4, <2>5 DEF OthersKept
  <2>8. HookInv(up, h \in lost, h \in Resumable, a, disk[h], k,
                ticked[h], accepted[h], stashed[h], h \in stale, h \in spoiled)
    BY <1>2, <1>3, <1>4, <2>1, <2>2, <2>3, <2>5 DEF HookInv
  <2>9. HookOK(h)'
    BY <1>1, <2>4, <2>5, <2>8 DEF HookOK
  <2> QED BY <2>6, <2>7, <2>9, OneHook
<1> QED BY <1>5, <1>6, <1>7, <1>8, <1>9 DEF A!Register

-----------------------------------------------------------------------------
(* An open ask is settled: a dormant one that was answered is stashed, any  *)
(* other is resolved. `acc` is what has been accepted from users then.      *)
LEMMA SettleStep ==
    ASSUME A!AskBrokerAssumption, AskInv, NEW h \in Hook, A!Open(h),
           NEW r \in A!Result, A!Settle(h, r),
           up' = up, card' = card, ids' = ids, hookLate' = hookLate, askLate' = askLate,
           ticked' = ticked, lost' = lost, spoiled' = spoiled,
           NEW acc \in SUBSET A!Result, accepted' = [accepted EXCEPT ![h] = acc],
           acc = accepted[h] \cup {r} \/ (acc = accepted[h] /\ r.kind # "answered")
    PROVE  AskInv'
<1>1. /\ up \in BOOLEAN
      /\ asks \in [Hook -> AskRec]
      /\ disk \in [Hook -> DiskRec]
      /\ hook \in [Hook -> HookRec]
      /\ card \in [Hook -> 0..MaxIds] /\ ids \in 0..MaxIds
      /\ hookLate \subseteq Hook /\ askLate \subseteq Hook
      /\ ticked \in [Hook -> SUBSET Option]
      /\ accepted \in [Hook -> SUBSET A!Result]
      /\ stashed \in [Hook -> A!Result]
      /\ lost \subseteq Hook /\ faults \in 0..MaxFaults
      /\ stale \subseteq Hook /\ spoiled \subseteq Hook
  BY AskVars DEF AskInv
<1>2. asks[h] \in AskRec /\ disk[h] \in DiskRec /\ hook[h] \in HookRec
  BY <1>1
<1>3. HookInv(up, h \in lost, h \in Resumable, asks[h], disk[h], hook[h],
              ticked[h], accepted[h], stashed[h], h \in stale, h \in spoiled)
  BY DEF AskInv, HookOK
<1>4. A!NoResult \in A!Result /\ A!NoResult.kind = "none" /\ A!NoRecord \in DiskRec
  BY AskConstants
<1>5. up /\ asks[h].id # 0 /\ ~asks[h].settled
  BY DEF A!Open, A!Exists
<1>6. accepted' \in [Hook -> SUBSET A!Result] /\ accepted'[h] = acc
  BY <1>1
<1>7. /\ r.kind = "answered" => r \in acc
      /\ \A x \in accepted[h] : x \in acc
      /\ accepted[h] = {} => acc = {} \/ \E x \in acc : acc = {x}
  OBVIOUS
<1>8. 0 \in 0..MaxSend
  BY DEF A!AskBrokerAssumption
<1>9. CASE asks[h].dormant /\ r.kind = "answered" /\ A!Stash(h, r)
  <2> DEFINE a == [asks[h] EXCEPT !.settled = TRUE, !.stash = TRUE, !.result = r, !.send = 0]
             d == [id |-> a.id, card |-> a.card, sel |-> a.sel, stash |-> a.stash, result |-> a.result]
  <2>1. /\ a \in AskRec
        /\ a.id = asks[h].id /\ a.send = 0 /\ a.settled /\ a.dormant = asks[h].dormant
        /\ a.stash /\ a.result = r /\ a.card = asks[h].card /\ a.sel = asks[h].sel
    BY <1>2, <1>8 DEF AskRec
  <2>2. /\ asks' = [asks EXCEPT ![h] = a] /\ A!Persist(h, a)
        /\ stashed' = [stashed EXCEPT ![h] = r] /\ hook' = hook
    BY <1>9, Zenon DEF A!Stash
  <2>3. h \in Resumable /\ h \in lost
    BY <1>3, <1>9 DEF HookInv
  <2> HIDE DEF a
  <2>4. A!Write(h, d)
    BY <2>1, <2>2, <2>3, Zenon DEF A!Persist
  <2>5. d \in DiskRec /\ d.id = a.id /\ d.sel = a.sel /\ d.stash = a.stash /\ d.result = a.result
    BY <2>1 DEF AskRec, DiskRec
  <2> HIDE DEF d
  <2>5a. Written(h, d)
    BY <2>4, <2>5, WriteStep
  <2>6. A!TypeOK'
    <3>1. asks' \in [Hook -> AskRec] /\ stashed' \in [Hook -> A!Result]
      BY <1>1, <2>1, <2>2
    <3> QED BY <1>1, <1>6, <2>2, <2>5a, <3>1 DEF A!TypeOK, AskRec, DiskRec, HookRec, Written
  <2>7. OthersKept(h)
    BY <1>1, <2>2, <2>5a DEF OthersKept, Written
  <2>7a. asks'[h] = a /\ stashed'[h] = r /\ hook'[h] = hook[h]
    BY <1>1, <2>2
  <2>8. CASE disk'[h] = d /\ h \notin stale'
    <3>1. HookInv(up, h \in lost, h \in Resumable, a, d, hook[h], ticked[h], acc, r, FALSE, h \in spoiled)
      BY <1>2, <1>3, <1>5, <1>7, <1>9, <2>1, <2>3, <2>5 DEF HookInv
    <3>2. (h \in stale') = FALSE
      BY <2>8
    <3>3. HookOK(h)'
      BY <1>6, <2>7a, <2>8, <3>1, <3>2 DEF HookOK
    <3> QED BY <2>6, <2>7, <3>3, OneHook
  <2>9. CASE disk'[h] = disk[h] /\ h \in stale'
    <3>1. HookInv(up, h \in lost, h \in Resumable, a, disk[h], hook[h], ticked[h], acc, r, TRUE, h \in spoiled)
      BY <1>2, <1>3, <1>5, <1>7, <1>9, <2>1, <2>3 DEF HookInv
    <3>2. (h \in stale') = TRUE
      BY <2>9
    <3>3. HookOK(h)'
      BY <1>6, <2>7a, <2>9, <3>1, <3>2 DEF HookOK
    <3> QED BY <2>6, <2>7, <3>3, OneHook
  <2> QED BY <2>5a, <2>8, <2>9 DEF Written
<1>10. CASE ~(asks[h].dormant /\ r.kind = "answered") /\ A!Resolve(h, r)
  <2> DEFINE a == [asks[h] EXCEPT !.settled = TRUE, !.result = r, !.send = 0]
             k == IF hook[h].pc = "wait" THEN [pc |-> "resp", result |-> r] ELSE hook[h]
  <2>1. /\ a \in AskRec
        /\ a.id = asks[h].id /\ a.send = 0 /\ a.settled /\ a.dormant = asks[h].dormant
        /\ a.stash = asks[h].stash /\ a.result = r /\ a.card = asks[h].card /\ a.sel = asks[h].sel
    BY <1>2, <1>8 DEF AskRec
  <2>2. asks' = [asks EXCEPT ![h] = a]
    BY <1>1, <1>10 DEF A!Resolve
  <2>3. A!Write(h, A!NoRecord) /\ stashed' = stashed
    BY <1>10 DEF A!Resolve, A!Remove
  <2>3a. Written(h, A!NoRecord)
    BY <1>4, <2>3, WriteStep
  <2>4. k \in HookRec
    BY <1>2 DEF HookRec
  <2>5. hook' = [hook EXCEPT ![h] = k]
    <3>1. CASE hook[h].pc = "wait"
      BY <1>1, <1>10, <3>1 DEF A!Resolve, A!Receive
    <3>2. CASE hook[h].pc # "wait"
      BY <1>1, <1>10, <3>2 DEF A!Resolve
    <3> QED BY <3>1, <3>2
  <2>6. \/ k.pc = "resp" /\ k.result = r
        \/ k = hook[h] /\ hook[h].pc # "wait"
    OBVIOUS
  <2> HIDE DEF a, k
  <2>7. A!TypeOK'
    <3>1. asks' \in [Hook -> AskRec] /\ hook' \in [Hook -> HookRec]
      BY <1>1, <1>4, <2>1, <2>2, <2>4, <2>5
    <3> QED BY <1>1, <1>6, <2>3, <2>3a, <3>1 DEF A!TypeOK, AskRec, DiskRec, HookRec, Written
  <2>8. OthersKept(h)
    BY <1>1, <2>2, <2>3, <2>3a, <2>5 DEF OthersKept, Written
  <2>9. asks'[h] = a /\ hook'[h] = k /\ stashed'[h] = stashed[h]
    BY <1>1, <2>2, <2>3, <2>5
  <2>9a. asks[h].dormant => k = hook[h]
    BY <1>3, <2>6 DEF HookInv, k
  <2>9b. ~asks[h].stash
    BY <1>3, <1>5 DEF HookInv
  <2>10. CASE disk'[h] = A!NoRecord /\ h \notin stale'
    <3>1. A!NoRecord.id = 0 /\ A!NoRecord.result = A!NoResult /\ A!NoRecord.stash = FALSE
      BY DEF A!NoRecord
    <3>2. HookInv(up, h \in lost, h \in Resumable, a, A!NoRecord, k, ticked[h], acc, stashed[h],
                  FALSE, h \in spoiled)
      BY <1>2, <1>3, <1>4, <1>5, <1>7, <2>1, <2>6, <2>9a, <2>9b, <3>1 DEF HookInv
    <3>3. (h \in stale') = FALSE
      BY <2>10
    <3>4. HookOK(h)'
      BY <1>6, <2>9, <2>10, <3>2, <3>3 DEF HookOK
    <3> QED BY <2>7, <2>8, <3>4, OneHook
  <2>11. CASE disk'[h] = disk[h] /\ h \in stale'
    <3>1. HookInv(up, h \in lost, h \in Resumable, a, disk[h], k, ticked[h], acc, stashed[h],
                  TRUE, h \in spoiled)
      BY <1>2, <1>3, <1>4, <1>5, <1>7, <2>1, <2>6, <2>9a, <2>9b DEF HookInv
    <3>2. (h \in stale') = TRUE
      BY <2>11
    <3>3. HookOK(h)'
      BY <1>6, <2>9, <2>11, <3>1, <3>2 DEF HookOK
    <3> QED BY <2>7, <2>8, <3>3, OneHook
  <2> QED BY <2>3a, <2>10, <2>11 DEF Written
<1> QED BY <1>9, <1>10 DEF A!Settle

(* A user answers, a deadline passes, the card cannot be sent.              *)
LEMMA SettlesStep ==
    ASSUME A!AskBrokerAssumption, AskInv, NEW h \in Hook,
           \/ A!Submit(h) \/ A!CustomReply(h) \/ (\E s \in SUBSET Option : A!Desktop(h, s))
           \/ A!Timeout(h) \/ A!SendFails(h)
    PROVE  AskInv'
<1>1. /\ accepted \in [Hook -> SUBSET A!Result] /\ asks \in [Hook -> AskRec]
  BY AskVars DEF AskInv
<1>2. ASSUME NEW r \in A!Result, A!Open(h), A!Accept(h, r) PROVE AskInv'
  <2>1. /\ A!Settle(h, r)
        /\ up' = up /\ card' = card /\ ids' = ids /\ hookLate' = hookLate /\ askLate' = askLate
        /\ ticked' = ticked /\ lost' = lost /\ spoiled' = spoiled
        /\ accepted' = [accepted EXCEPT ![h] = accepted[h] \cup {r}]
    BY <1>2 DEF A!Accept
  <2>2. accepted[h] \cup {r} \in SUBSET A!Result
    BY <1>1
  <2> QED BY <1>2, <2>1, <2>2, SettleStep
<1>3. ASSUME NEW r \in A!Result, A!Open(h), r.kind # "answered", A!Settle(h, r),
             UNCHANGED <<up, card, ids, spoiled, hookLate, askLate, ticked, accepted, lost>>
      PROVE AskInv'
  <2>1. accepted' = [accepted EXCEPT ![h] = accepted[h]] /\ accepted[h] \in SUBSET A!Result
    BY <1>1, <1>3
  <2> QED BY <1>3, <2>1, SettleStep
<1>4. CASE A!Submit(h)
  <2>1. asks[h].sel \in SUBSET Option
    BY <1>1 DEF AskRec
  <2>2. A!Answered(asks[h].sel) \in A!Result
    BY <2>1, AskConstants
  <2> QED BY <1>2, <1>4, <2>2 DEF A!Submit, A!Clickable
<1>5. CASE A!CustomReply(h)
  BY <1>2, <1>5, AskConstants DEF A!CustomReply
<1>6. CASE \E s \in SUBSET Option : A!Desktop(h, s)
  BY <1>2, <1>6, AskConstants DEF A!Desktop
<1>7. CASE A!Timeout(h)
  BY <1>3, <1>7, AskConstants DEF A!Timeout
<1>8. CASE A!SendFails(h)
  BY <1>3, <1>8, AskConstants DEF A!SendFails
<1> QED BY <1>4, <1>5, <1>6, <1>7, <1>8

-----------------------------------------------------------------------------
(* An open ask is changed in memory and written again.                      *)
LEMMA RewriteStep ==
    ASSUME A!AskBrokerAssumption, AskInv, NEW h \in Hook, A!Open(h),
           NEW a \in AskRec, NEW t \in SUBSET Option,
           a.id = asks[h].id, a.settled = asks[h].settled, a.dormant = asks[h].dormant,
           a.stash = asks[h].stash, a.result = asks[h].result,
           asks[h].card \/ asks[h].send # 0 => a.card \/ a.send # 0,
           asks[h].sel = ticked[h] => a.sel = t,
           asks' = [asks EXCEPT ![h] = a], A!Persist(h, a), ticked' = [ticked EXCEPT ![h] = t],
           card' \in [Hook -> 0..MaxIds],
           up' = up, hook' = hook, ids' = ids, hookLate' = hookLate, askLate' = askLate,
           accepted' = accepted, stashed' = stashed, lost' = lost, spoiled' = spoiled
    PROVE  AskInv'
<1> DEFINE d == [id |-> a.id, card |-> a.card, sel |-> a.sel, stash |-> a.stash, result |-> a.result]
<1>1. /\ up \in BOOLEAN
      /\ asks \in [Hook -> AskRec]
      /\ disk \in [Hook -> DiskRec]
      /\ hook \in [Hook -> HookRec]
      /\ ids \in 0..MaxIds
      /\ hookLate \subseteq Hook /\ askLate \subseteq Hook
      /\ ticked \in [Hook -> SUBSET Option]
      /\ accepted \in [Hook -> SUBSET A!Result]
      /\ stashed \in [Hook -> A!Result]
      /\ lost \subseteq Hook /\ faults \in 0..MaxFaults
      /\ stale \subseteq Hook /\ spoiled \subseteq Hook
  BY AskVars DEF AskInv
<1>2. asks[h] \in AskRec /\ disk[h] \in DiskRec /\ hook[h] \in HookRec
  BY <1>1
<1>3. HookInv(up, h \in lost, h \in Resumable, asks[h], disk[h], hook[h],
              ticked[h], accepted[h], stashed[h], h \in stale, h \in spoiled)
  BY DEF AskInv, HookOK
<1>4. up /\ asks[h].id # 0 /\ ~asks[h].settled /\ ~asks[h].stash
  BY <1>3 DEF A!Open, A!Exists, HookInv
<1>5. d \in DiskRec /\ d.id = a.id /\ d.sel = a.sel /\ d.stash = a.stash /\ d.result = a.result
  BY DEF AskRec, DiskRec
<1>6. IF h \in Resumable THEN A!Write(h, d) ELSE UNCHANGED <<disk, stale, faults>>
  BY <1>4, Zenon DEF A!Persist
<1> HIDE DEF d
<1>6a. asks'[h] = a /\ ticked'[h] = t /\ ticked' \in [Hook -> SUBSET Option] /\ asks' \in [Hook -> AskRec]
  BY <1>1
<1>7. CASE h \in Resumable
  <2>1. Written(h, d)
    BY <1>5, <1>6, <1>7, WriteStep
  <2>2. A!TypeOK'
    BY <1>1, <1>6a, <2>1 DEF A!TypeOK, AskRec, DiskRec, HookRec, Written
  <2>3. OthersKept(h)
    BY <1>1, <2>1 DEF OthersKept, Written
  <2>4. h \notin spoiled => a.sel = t
    BY <1>3, <1>4, <1>7 DEF HookInv
  <2>4a. h \notin spoiled => stashed[h] = A!NoResult
    BY <1>3, <1>4, <1>7 DEF HookInv
  <2>5. CASE disk'[h] = d /\ h \notin stale'
    <3>1. HookInv(up, h \in lost, h \in Resumable, a, d, hook[h], t, accepted[h], stashed[h],
                  FALSE, h \in spoiled)
      BY <1>2, <1>3, <1>4, <1>5, <1>7, <2>4, <2>4a DEF HookInv
    <3>2. (h \in stale') = FALSE
      BY <2>5
    <3>3. HookOK(h)'
      BY <1>6a, <2>5, <3>1, <3>2 DEF HookOK
    <3> QED BY <2>2, <2>3, <3>3, OneHook
  <2>6. CASE disk'[h] = disk[h] /\ h \in stale'
    <3>1. HookInv(up, h \in lost, h \in Resumable, a, disk[h], hook[h], t, accepted[h], stashed[h],
                  TRUE, h \in spoiled)
      BY <1>2, <1>3, <1>4, <1>7, <2>4, <2>4a DEF HookInv
    <3>2. (h \in stale') = TRUE
      BY <2>6
    <3>3. HookOK(h)'
      BY <1>6a, <2>6, <3>1, <3>2 DEF HookOK
    <3> QED BY <2>2, <2>3, <3>3, OneHook
  <2> QED BY <2>1, <2>5, <2>6 DEF Written
<1>8. CASE h \notin Resumable
  <2>1. disk' = disk /\ stale' = stale /\ faults' = faults
    BY <1>6, <1>8
  <2>2. A!TypeOK'
    BY <1>1, <1>6a, <2>1 DEF A!TypeOK, AskRec, DiskRec, HookRec
  <2>3. OthersKept(h)
    BY <1>1, <2>1 DEF OthersKept
  <2>4. HookInv(up, h \in lost, h \in Resumable, a, disk[h], hook[h], t, accepted[h], stashed[h],
                h \in stale, h \in spoiled)
    BY <1>2, <1>3, <1>4, <1>8 DEF HookInv
  <2>5. HookOK(h)'
    BY <1>6a, <2>1, <2>4 DEF HookOK
  <2> QED BY <2>2, <2>3, <2>5, OneHook
<1> QED BY <1>7, <1>8

(* A tick, and a card that was sent.                                        *)
LEMMA RewritesStep ==
    ASSUME A!AskBrokerAssumption, AskInv, NEW h \in Hook,
           (\E o \in Option : A!Toggle(h, o)) \/ A!SendOk(h)
    PROVE  AskInv'
<1>1. /\ asks \in [Hook -> AskRec] /\ asks[h] \in AskRec /\ ticked \in [Hook -> SUBSET Option]
      /\ card \in [Hook -> 0..MaxIds] /\ asks[h].id \in 0..MaxIds
      /\ 0 \in 0..MaxSend
  BY AskVars DEF AskInv, AskRec, A!AskBrokerAssumption
<1>2. ASSUME NEW o \in Option, A!Toggle(h, o) PROVE AskInv'
  <2> DEFINE s == (asks[h].sel \cup {o}) \ (asks[h].sel \cap {o})
             a == [asks[h] EXCEPT !.sel = s]
             t == (ticked[h] \cup {o}) \ (ticked[h] \cap {o})
  <2>1. s \in SUBSET Option /\ t \in SUBSET Option
    BY <1>1 DEF AskRec
  <2>2. asks[h].sel = ticked[h] => s = t
    OBVIOUS
  <2>3. /\ asks' = [asks EXCEPT ![h] = a] /\ A!Persist(h, a)
        /\ ticked' = [ticked EXCEPT ![h] = t]
    BY <1>2, Zenon DEF A!Toggle
  <2>4. /\ A!Open(h) /\ up' = up /\ hook' = hook /\ ids' = ids /\ hookLate' = hookLate
        /\ askLate' = askLate /\ card' = card
        /\ accepted' = accepted /\ stashed' = stashed /\ lost' = lost /\ spoiled' = spoiled
    BY <1>2 DEF A!Toggle, A!Clickable
  <2> HIDE DEF s, t
  <2>5. /\ a \in AskRec /\ a.id = asks[h].id /\ a.settled = asks[h].settled
        /\ a.dormant = asks[h].dormant /\ a.stash = asks[h].stash /\ a.result = asks[h].result
        /\ a.card = asks[h].card /\ a.send = asks[h].send /\ a.sel = s
    BY <1>1, <2>1 DEF AskRec
  <2> HIDE DEF a
  <2> QED BY <1>1, <2>1, <2>2, <2>3, <2>4, <2>5, RewriteStep
<1>3. CASE A!SendOk(h)
  <2> DEFINE a == [asks[h] EXCEPT !.card = TRUE, !.send = 0]
  <2>1. asks' = [asks EXCEPT ![h] = a] /\ A!Persist(h, a)
    BY <1>3, Zenon DEF A!SendOk
  <2>2. /\ A!Open(h) /\ up' = up /\ hook' = hook /\ ids' = ids /\ hookLate' = hookLate
        /\ askLate' = askLate /\ ticked' = [ticked EXCEPT ![h] = ticked[h]] /\ A!PostCard(h)
        /\ accepted' = accepted /\ stashed' = stashed /\ lost' = lost /\ spoiled' = spoiled
    BY <1>1, <1>3 DEF A!SendOk
  <2>3. /\ a \in AskRec /\ a.id = asks[h].id /\ a.settled = asks[h].settled
        /\ a.dormant = asks[h].dormant /\ a.stash = asks[h].stash /\ a.result = asks[h].result
        /\ a.card /\ a.sel = asks[h].sel
    BY <1>1 DEF AskRec
  <2>4. card' \in [Hook -> 0..MaxIds]
    BY <1>1, <2>2 DEF A!PostCard
  <2>5. ticked[h] \in SUBSET Option
    BY <1>1
  <2> HIDE DEF a
  <2> QED BY <2>1, <2>2, <2>3, <2>4, <2>5, RewriteStep
<1> QED BY <1>2, <1>3

(* The remaining steps of one hook.                                         *)
LEMMA OtherHookStep ==
    ASSUME A!AskBrokerAssumption, AskInv, NEW h \in Hook,
           \/ A!SendTransient(h) \/ A!Gc(h) \/ A!HandoffExpires(h) \/ A!Response(h)
           \/ A!Passthrough(h) \/ A!ConnectionLost(h) \/ A!HookDeadline(h) \/ A!AskDeadline(h)
    PROVE  AskInv'
<1>1. /\ up \in BOOLEAN
      /\ asks \in [Hook -> AskRec]
      /\ disk \in [Hook -> DiskRec]
      /\ hook \in [Hook -> HookRec]
      /\ card \in [Hook -> 0..MaxIds] /\ ids \in 0..MaxIds
      /\ hookLate \subseteq Hook /\ askLate \subseteq Hook
      /\ ticked \in [Hook -> SUBSET Option]
      /\ accepted \in [Hook -> SUBSET A!Result]
      /\ stashed \in [Hook -> A!Result]
      /\ lost \subseteq Hook /\ faults \in 0..MaxFaults
      /\ stale \subseteq Hook /\ spoiled \subseteq Hook
  BY AskVars DEF AskInv
<1>2. asks[h] \in AskRec /\ disk[h] \in DiskRec /\ hook[h] \in HookRec
  BY <1>1
<1>3. HookInv(up, h \in lost, h \in Resumable, asks[h], disk[h], hook[h],
              ticked[h], accepted[h], stashed[h], h \in stale, h \in spoiled)
  BY DEF AskInv, HookOK
<1>4. A!NoResult \in A!Result /\ A!NoResult.kind = "none" /\ A!NoRecord \in DiskRec /\ A!NoAsk \in AskRec
  BY AskConstants
<1>5. CASE A!SendTransient(h)
  <2> DEFINE n == asks[h].send + 1
             a == [asks[h] EXCEPT !.send = n]
  <2>1. /\ A!Open(h) /\ asks[h].send < MaxSend /\ (A!PostCard(h) \/ card' = card)
        /\ up' = up /\ disk' = disk /\ hook' = hook /\ ids' = ids /\ hookLate' = hookLate
        /\ askLate' = askLate /\ ticked' = ticked
        /\ accepted' = accepted /\ stashed' = stashed /\ lost' = lost /\ faults' = faults /\ stale' = stale /\ spoiled' = spoiled
    BY <1>5 DEF A!SendTransient
  <2>2. asks' = [asks EXCEPT ![h] = a]
    BY <1>1, <1>5 DEF A!SendTransient
  <2>3. asks[h].send \in 0..MaxSend /\ asks[h].id \in 0..MaxIds
    BY <1>2 DEF AskRec
  <2>4. n \in 0..MaxSend /\ n # 0
    BY <2>1, <2>3 DEF A!AskBrokerAssumption
  <2> HIDE DEF n
  <2>5. /\ a \in AskRec /\ a.id = asks[h].id /\ a.settled = asks[h].settled
        /\ a.dormant = asks[h].dormant /\ a.stash = asks[h].stash /\ a.result = asks[h].result
        /\ a.send = n /\ a.sel = asks[h].sel
    BY <1>2, <2>4 DEF AskRec
  <2> HIDE DEF a
  <2>6. card' \in [Hook -> 0..MaxIds]
    BY <1>1, <2>1, <2>3 DEF A!PostCard
  <2>7. A!TypeOK'
    <3>1. asks' \in [Hook -> AskRec]
      BY <1>1, <2>2, <2>5
    <3> QED BY <1>1, <2>1, <2>6, <3>1 DEF A!TypeOK, AskRec, DiskRec, HookRec
  <2>8. OthersKept(h)
    BY <1>1, <2>1, <2>2 DEF OthersKept
  <2>9. HookInv(up, h \in lost, h \in Resumable, a, disk[h], hook[h],
                ticked[h], accepted[h], stashed[h], h \in stale, h \in spoiled)
    <3>1. asks[h].id # 0
      BY <2>1 DEF A!Open, A!Exists
    <3>2. up
      BY <2>1 DEF A!Open
    <3> QED BY <1>2, <1>3, <2>4, <2>5, <3>1, <3>2 DEF HookInv
  <2>10. HookOK(h)'
    BY <1>1, <2>1, <2>2, <2>9 DEF HookOK
  <2> QED BY <2>7, <2>8, <2>10, OneHook
<1>6. CASE A!Gc(h)
  <2>1. /\ asks' = [asks EXCEPT ![h] = A!NoAsk]
        /\ up' = up /\ disk' = disk /\ hook' = hook /\ card' = card /\ ids' = ids
        /\ hookLate' = hookLate /\ askLate' = askLate /\ ticked' = ticked
        /\ accepted' = accepted /\ stashed' = stashed /\ lost' = lost /\ faults' = faults /\ stale' = stale /\ spoiled' = spoiled
        /\ up /\ asks[h].id # 0 /\ asks[h].settled /\ ~(asks[h].dormant /\ asks[h].stash)
    BY <1>6 DEF A!Gc, A!Exists
  <2>2. A!TypeOK'
    <3>1. asks' \in [Hook -> AskRec]
      BY <1>1, <1>4, <2>1
    <3> QED BY <1>1, <2>1, <3>1 DEF A!TypeOK, AskRec, DiskRec, HookRec
  <2>3. OthersKept(h)
    BY <1>1, <2>1 DEF OthersKept
  <2>4. HookInv(up, h \in lost, h \in Resumable, A!NoAsk, disk[h], hook[h],
                ticked[h], accepted[h], stashed[h], h \in stale, h \in spoiled)
    <3>1. /\ A!NoAsk.id = 0 /\ ~A!NoAsk.stash /\ ~A!NoAsk.dormant /\ ~A!NoAsk.settled
          /\ A!NoAsk.result = A!NoResult
      BY DEF A!NoAsk
    <3> QED BY <1>2, <1>3, <1>4, <2>1, <3>1 DEF HookInv
  <2>5. HookOK(h)'
    BY <1>1, <2>1, <2>4 DEF HookOK
  <2> QED BY <2>2, <2>3, <2>5, OneHook
<1>7. CASE A!HandoffExpires(h)
  <2>1. /\ asks' = [asks EXCEPT ![h] = A!NoAsk] /\ A!Write(h, A!NoRecord)
        /\ stashed' = [stashed EXCEPT ![h] = A!NoResult]
        /\ up' = up /\ hook' = hook /\ card' = card /\ ids' = ids
        /\ hookLate' = hookLate /\ askLate' = askLate /\ ticked' = ticked
        /\ accepted' = accepted /\ lost' = lost /\ spoiled' = spoiled
        /\ up /\ asks[h].dormant
    BY <1>7 DEF A!HandoffExpires, A!Remove
  <2>2. Written(h, A!NoRecord)
    BY <1>4, <2>1, WriteStep
  <2>3. A!TypeOK'
    <3>1. asks' \in [Hook -> AskRec] /\ stashed' \in [Hook -> A!Result]
      BY <1>1, <1>4, <2>1
    <3> QED BY <1>1, <2>1, <2>2, <3>1 DEF A!TypeOK, AskRec, DiskRec, HookRec, Written
  <2>4. OthersKept(h)
    BY <1>1, <2>1, <2>2 DEF OthersKept, Written
  <2>5. asks'[h] = A!NoAsk /\ stashed'[h] = A!NoResult
    BY <1>1, <2>1
  <2>6. /\ A!NoAsk.id = 0 /\ ~A!NoAsk.stash /\ ~A!NoAsk.dormant /\ ~A!NoAsk.settled
        /\ A!NoAsk.result = A!NoResult
        /\ A!NoRecord.id = 0 /\ A!NoRecord.result = A!NoResult
    BY DEF A!NoAsk, A!NoRecord
  <2>7. CASE disk'[h] = A!NoRecord /\ h \notin stale'
    <3>1. HookInv(up, h \in lost, h \in Resumable, A!NoAsk, A!NoRecord, hook[h],
                  ticked[h], accepted[h], A!NoResult, FALSE, h \in spoiled)
      BY <1>2, <1>3, <1>4, <2>1, <2>6 DEF HookInv
    <3>2. (h \in stale') = FALSE
      BY <2>7
    <3>3. HookOK(h)'
      BY <2>1, <2>5, <2>7, <3>1, <3>2 DEF HookOK
    <3> QED BY <2>3, <2>4, <3>3, OneHook
  <2>8. CASE disk'[h] = disk[h] /\ h \in stale'
    <3>1. HookInv(up, h \in lost, h \in Resumable, A!NoAsk, disk[h], hook[h],
                  ticked[h], accepted[h], A!NoResult, TRUE, h \in spoiled)
      BY <1>2, <1>3, <1>4, <2>1, <2>6 DEF HookInv
    <3>2. (h \in stale') = TRUE
      BY <2>8
    <3>3. HookOK(h)'
      BY <2>1, <2>5, <2>8, <3>1, <3>2 DEF HookOK
    <3> QED BY <2>3, <2>4, <3>3, OneHook
  <2> QED BY <2>2, <2>7, <2>8 DEF Written
<1>8. ASSUME NEW k \in HookRec, NEW l \in SUBSET Hook, NEW f \in 0..MaxFaults,
             hook' = [hook EXCEPT ![h] = k], lost' = l, faults' = f,
             l = lost \/ l = lost \cup {h},
             up' = up, asks' = asks, disk' = disk, card' = card, ids' = ids,
             hookLate' = hookLate, askLate' = askLate, ticked' = ticked,
             accepted' = accepted, stashed' = stashed, stale' = stale, spoiled' = spoiled,
             k.pc \notin {"wait", "new"}, k.pc = "resp" => hook[h].pc = "resp",
             k.pc = "retry" => h \in l,
             k.result = hook[h].result \/ k.result = A!NoResult
      PROVE  AskInv'
  <2>1. A!TypeOK'
    <3>1. hook' \in [Hook -> HookRec]
      BY <1>1, <1>8
    <3> QED BY <1>1, <1>8, <3>1 DEF A!TypeOK, AskRec, DiskRec, HookRec
  <2>2. OthersKept(h)
    BY <1>1, <1>8 DEF OthersKept
  <2>3. HookInv(up, h \in l, h \in Resumable, asks[h], disk[h], k,
                ticked[h], accepted[h], stashed[h], h \in stale, h \in spoiled)
    BY <1>2, <1>3, <1>4, <1>8 DEF HookInv
  <2>4. HookOK(h)'
    BY <1>1, <1>8, <2>3 DEF HookOK
  <2> QED BY <2>1, <2>2, <2>4, OneHook
<1>9. CASE A!Response(h)
  <2> DEFINE k == [hook[h] EXCEPT !.pc = "done"]
  <2>1. k \in HookRec /\ k.pc = "done" /\ k.result = hook[h].result
    BY <1>2 DEF HookRec
  <2>2. hook' = [hook EXCEPT ![h] = k]
    BY <1>1, <1>9 DEF A!Response
  <2> HIDE DEF k
  <2> QED BY <1>1, <1>8, <1>9, <2>1, <2>2 DEF A!Response
<1>10. CASE A!Passthrough(h)
  <2> DEFINE k == [pc |-> "done", result |-> A!NoResult]
  <2>1. k \in HookRec /\ k.pc = "done" /\ k.result = A!NoResult
    BY <1>4 DEF HookRec
  <2>2. hook' = [hook EXCEPT ![h] = k]
    BY <1>10 DEF A!Passthrough
  <2> HIDE DEF k
  <2> QED BY <1>1, <1>8, <1>10, <2>1, <2>2 DEF A!Passthrough
<1>11. CASE A!ConnectionLost(h)
  <2> DEFINE k == [pc |-> "retry", result |-> A!NoResult]
  <2>1. k \in HookRec /\ k.pc = "retry" /\ k.result = A!NoResult
    BY <1>4 DEF HookRec
  <2>2. hook' = [hook EXCEPT ![h] = k] /\ lost' = lost \cup {h} /\ faults' = faults + 1
        /\ faults < MaxFaults
    BY <1>11 DEF A!ConnectionLost
  <2>3. faults + 1 \in 0..MaxFaults /\ lost \cup {h} \in SUBSET Hook
    BY <1>1, <2>2 DEF A!AskBrokerAssumption
  <2> HIDE DEF k
  <2> QED BY <1>1, <1>8, <1>11, <2>1, <2>2, <2>3 DEF A!ConnectionLost
<1>12. CASE A!HookDeadline(h) \/ A!AskDeadline(h)
  <2>1. /\ up' = up /\ asks' = asks /\ disk' = disk /\ hook' = hook /\ card' = card /\ ids' = ids
        /\ hookLate' \subseteq Hook /\ askLate' \subseteq Hook /\ ticked' = ticked
        /\ accepted' = accepted /\ stashed' = stashed /\ lost' = lost /\ faults' = faults /\ stale' = stale /\ spoiled' = spoiled
    BY <1>1, <1>12 DEF A!HookDeadline, A!AskDeadline
  <2>2. A!TypeOK'
    BY <1>1, <2>1 DEF A!TypeOK, AskRec, DiskRec, HookRec
  <2> QED BY <2>1, <2>2 DEF AskInv, HookOK
<1> QED BY <1>5, <1>6, <1>7, <1>9, <1>10, <1>11, <1>12

-----------------------------------------------------------------------------
(* The daemon dies: no entry is left, and every hook that was connected is  *)
(* told nothing. The records stay.                                          *)
LEMMA CrashStep ==
    ASSUME A!AskBrokerAssumption, AskInv, A!Crash
    PROVE  AskInv'
<1>1. /\ disk \in [Hook -> DiskRec] /\ hook \in [Hook -> HookRec]
      /\ faults \in 0..MaxFaults /\ faults < MaxFaults /\ A!NoAsk \in AskRec
      /\ A!NoResult \in A!Result /\ A!NoResult.kind = "none"
      /\ stale \subseteq Hook /\ spoiled \subseteq Hook
      /\ stale' = stale /\ spoiled' = spoiled \cup stale
  BY AskVars, AskConstants DEF AskInv, A!Crash
<1> DEFINE gone == [pc |-> "retry", result |-> A!NoResult]
<1>2. gone \in HookRec /\ gone.pc = "retry" /\ gone.result = A!NoResult
  BY <1>1 DEF HookRec
<1>3. hook' = [h \in Hook |-> IF hook[h].pc \in {"wait", "resp"} THEN gone ELSE hook[h]]
  BY Zenon DEF A!Crash
<1> HIDE DEF gone
<1>4. A!TypeOK'
  <2>1. hook' \in [Hook -> HookRec]
    BY <1>1, <1>2, <1>3
  <2>2. asks' \in [Hook -> AskRec] /\ faults' \in 0..MaxFaults /\ up' \in BOOLEAN /\ lost' \subseteq Hook
    <3>1. /\ asks' = [h \in Hook |-> A!NoAsk] /\ faults' = faults + 1 /\ up' = FALSE
          /\ lost' = Hook
      BY DEF A!Crash
    <3>2. asks' \in [Hook -> AskRec]
      BY <1>1, <3>1
    <3>3. faults + 1 \in 0..MaxFaults
      BY <1>1 DEF A!AskBrokerAssumption
    <3> QED BY <3>1, <3>2, <3>3
  <2> QED BY <1>1, <2>1, <2>2 DEF AskInv, A!TypeOK, AskRec, DiskRec, HookRec, A!Crash
<1>5. ASSUME NEW h \in Hook PROVE HookOK(h)'
  <2>1. HookInv(up, h \in lost, h \in Resumable, asks[h], disk[h], hook[h],
                ticked[h], accepted[h], stashed[h], h \in stale, h \in spoiled)
    BY DEF AskInv, HookOK
  <2>2. /\ A!NoAsk.id = 0 /\ ~A!NoAsk.stash /\ ~A!NoAsk.dormant /\ ~A!NoAsk.settled
        /\ A!NoAsk.result = A!NoResult
    BY DEF A!NoAsk
  <2>3. asks'[h] = A!NoAsk /\ ~up' /\ h \in lost' /\ disk' = disk /\ ticked' = ticked
        /\ accepted' = accepted /\ stashed' = stashed
    BY DEF A!Crash
  <2>4. \/ hook[h].pc \in {"wait", "resp"} /\ hook'[h] = gone
        \/ hook[h].pc \notin {"wait", "resp"} /\ hook'[h] = hook[h]
    BY <1>3
  <2>5. ASSUME NEW k, k = gone \/ (hook[h].pc \notin {"wait", "resp"} /\ k = hook[h])
        PROVE  HookInv(FALSE, TRUE, h \in Resumable, A!NoAsk, disk[h], k, ticked[h], accepted[h],
                       stashed[h], h \in stale, h \in spoiled \/ h \in stale)
    BY <1>1, <1>2, <2>1, <2>2, <2>5 DEF HookInv
  <2>6. HookInv(FALSE, TRUE, h \in Resumable, A!NoAsk, disk[h], hook'[h], ticked[h], accepted[h],
                stashed[h], h \in stale, h \in spoiled \/ h \in stale)
    BY <2>4, <2>5
  <2>7. /\ up' = FALSE /\ (h \in lost') = TRUE /\ (h \in stale') = (h \in stale)
        /\ (h \in spoiled') = (h \in spoiled \/ h \in stale)
    BY <1>1, <2>3, <1>4 DEF A!Crash
  <2> QED BY <2>3, <2>6, <2>7 DEF HookOK
<1> QED BY <1>4, <1>5 DEF AskInv

(* The daemon starts again: a listed record becomes a dormant ask, with the *)
(* ticks and the answer it holds; any other record is dropped, if it can    *)
(* be, and none of those holds an answer, unless its last write failed.     *)
LEMMA RestoreStep ==
    ASSUME A!AskBrokerAssumption, AskInv, A!Restore
    PROVE  AskInv'
<1>1. /\ disk \in [Hook -> DiskRec] /\ hook \in [Hook -> HookRec]
      /\ A!NoAsk \in AskRec /\ A!NoRecord \in DiskRec
      /\ A!NoResult \in A!Result /\ A!NoResult.kind = "none" /\ 0 \in 0..MaxSend
      /\ faults \in 0..MaxFaults /\ MaxFaults \in Nat
  BY AskVars, AskConstants DEF AskInv, A!AskBrokerAssumption
<1> DEFINE entry(h) == [id |-> disk[h].id, settled |-> disk[h].stash, dormant |-> TRUE,
                        stash |-> disk[h].stash, result |-> disk[h].result,
                        card |-> disk[h].card, send |-> 0, sel |-> disk[h].sel]
<1>2. ASSUME NEW h \in Hook
      PROVE  /\ entry(h) \in AskRec /\ entry(h).id = disk[h].id
             /\ entry(h).settled = disk[h].stash /\ entry(h).dormant
             /\ entry(h).stash = disk[h].stash /\ entry(h).result = disk[h].result
             /\ entry(h).sel = disk[h].sel
  <2>1. disk[h] \in DiskRec
    BY <1>1
  <2> QED BY <1>1, <2>1 DEF AskRec, DiskRec
<1>3. PICK listed \in SUBSET Hook, kept \in SUBSET Hook :
         /\ asks' = [h \in Hook |-> IF h \in listed THEN entry(h) ELSE A!NoAsk]
         /\ A!List(listed, kept)
  BY Zenon DEF A!Restore
<1> HIDE DEF entry
<1>3a. /\ disk' = [h \in Hook |-> IF h \in listed \cup kept THEN disk[h] ELSE A!NoRecord]
       /\ stale' = kept /\ faults' \in 0..MaxFaults
       /\ ~up /\ up' = TRUE /\ spoiled' = spoiled /\ hook' = hook /\ card' = card /\ ids' = ids
       /\ hookLate' = hookLate /\ askLate' = askLate /\ ticked' = ticked /\ accepted' = accepted
       /\ stashed' = stashed /\ lost' = lost
  BY <1>1, <1>3 DEF A!List, A!Restore
<1>3b. /\ \A h \in listed : disk[h].id # 0 /\ h \notin kept
       /\ \A h \in Hook \ listed : h \in stale \/ disk[h].id = 0 \/ ~disk[h].stash
  BY <1>3 DEF A!List, A!Listable
<1>4. A!TypeOK'
  <2>1. asks' \in [Hook -> AskRec] /\ disk' \in [Hook -> DiskRec] /\ stale' \subseteq Hook
    BY <1>1, <1>2, <1>3, <1>3a
  <2> QED BY <1>3a, <2>1 DEF AskInv, A!TypeOK, AskRec, DiskRec, HookRec
<1>5. ASSUME NEW h \in Hook PROVE HookOK(h)'
  <2>1. HookInv(up, h \in lost, h \in Resumable, asks[h], disk[h], hook[h],
                ticked[h], accepted[h], stashed[h], h \in stale, h \in spoiled)
    BY DEF AskInv, HookOK
  <2>2. disk[h] \in DiskRec
    BY <1>1
  <2>3. (h \in stale') = (h \in kept) /\ (h \in spoiled') = (h \in spoiled) /\ (h \in lost') = (h \in lost)
    BY <1>3a
  <2>4. CASE h \in listed
    <3>1. asks'[h] = entry(h) /\ disk'[h] = disk[h] /\ (h \in kept) = FALSE /\ disk[h].id # 0
      BY <1>3, <1>3a, <1>3b, <2>4
    <3>2. HookInv(TRUE, h \in lost, h \in Resumable, entry(h), disk[h], hook[h],
                  ticked[h], accepted[h], stashed[h], FALSE, h \in spoiled)
      BY <1>2, <1>3a, <2>1, <2>2, <3>1 DEF HookInv
    <3> QED BY <1>3a, <2>3, <3>1, <3>2 DEF HookOK
  <2>5. CASE h \notin listed
    <3>1. asks'[h] = A!NoAsk
      BY <1>3, <2>5
    <3>2. /\ A!NoAsk.id = 0 /\ ~A!NoAsk.stash /\ ~A!NoAsk.dormant /\ ~A!NoAsk.settled
          /\ A!NoAsk.result = A!NoResult
          /\ A!NoRecord.id = 0 /\ A!NoRecord.result = A!NoResult /\ ~A!NoRecord.stash
      BY DEF A!NoAsk, A!NoRecord
    <3>3. h \notin stale => ~disk[h].stash
      BY <2>1, <2>5, <1>3b, <3>2 DEF HookInv
    <3>4. h \in spoiled \/ stashed[h] = A!NoResult
      BY <1>3a, <2>1, <3>3 DEF HookInv
    <3>5. CASE h \in kept
      <4>1. disk'[h] = disk[h] /\ (h \in kept) = TRUE
        BY <1>3a, <3>5
      <4>2. HookInv(TRUE, h \in lost, h \in Resumable, A!NoAsk, disk[h], hook[h],
                    ticked[h], accepted[h], stashed[h], TRUE, h \in spoiled)
        BY <1>1, <1>3a, <2>1, <3>2, <3>4 DEF HookInv
      <4> QED BY <1>3a, <2>3, <3>1, <4>1, <4>2 DEF HookOK
    <3>6. CASE h \notin kept
      <4>1. disk'[h] = A!NoRecord /\ (h \in kept) = FALSE
        BY <1>3a, <2>5, <3>6
      <4>2. HookInv(TRUE, h \in lost, h \in Resumable, A!NoAsk, A!NoRecord, hook[h],
                    ticked[h], accepted[h], stashed[h], FALSE, h \in spoiled)
        BY <1>1, <1>3a, <2>1, <3>2, <3>4 DEF HookInv
      <4> QED BY <1>3a, <2>3, <3>1, <4>1, <4>2 DEF HookOK
    <3> QED BY <3>5, <3>6
  <2> QED BY <2>4, <2>5
<1> QED BY <1>4, <1>5 DEF AskInv

(* The broker's invariant is inductive.                                     *)
LEMMA AskInit ==
    ASSUME A!AskBrokerAssumption, A!Init
    PROVE  AskInv
<1>1. /\ A!NoAsk \in AskRec /\ A!NoRecord \in DiskRec /\ A!NoResult \in A!Result
      /\ A!NoResult.kind = "none" /\ 0 \in 0..MaxIds /\ 0 \in 0..MaxFaults
  BY AskConstants DEF A!AskBrokerAssumption
<1> DEFINE new == [pc |-> "new", result |-> A!NoResult]
<1>2. new \in HookRec /\ new.pc = "new" /\ new.result = A!NoResult
  BY <1>1 DEF HookRec
<1>3. hook = [h \in Hook |-> new]
  BY Zenon DEF A!Init
<1> HIDE DEF new
<1>4. A!TypeOK
  <2>1. /\ asks \in [Hook -> AskRec] /\ disk \in [Hook -> DiskRec] /\ hook \in [Hook -> HookRec]
        /\ stashed \in [Hook -> A!Result]
    BY <1>1, <1>2, <1>3 DEF A!Init
  <2> QED BY <1>1, <2>1 DEF A!Init, A!TypeOK, AskRec, DiskRec, HookRec
<1>5. ASSUME NEW h \in Hook PROVE HookOK(h)
  <2>1. /\ asks[h] = A!NoAsk /\ disk[h] = A!NoRecord /\ hook[h] = new /\ up = TRUE
        /\ ticked[h] = {} /\ accepted[h] = {} /\ stashed[h] = A!NoResult
        /\ (h \in stale) = FALSE /\ (h \in spoiled) = FALSE
    BY <1>3 DEF A!Init
  <2>2. /\ A!NoAsk.id = 0 /\ ~A!NoAsk.stash /\ ~A!NoAsk.dormant /\ ~A!NoAsk.settled
        /\ A!NoAsk.result = A!NoResult
        /\ A!NoRecord.id = 0 /\ A!NoRecord.result = A!NoResult /\ ~A!NoRecord.stash
    BY DEF A!NoAsk, A!NoRecord
  <2>3. HookInv(TRUE, h \in lost, h \in Resumable, A!NoAsk, A!NoRecord, new, {}, {}, A!NoResult, FALSE, FALSE)
    BY <1>1, <1>2, <2>2 DEF HookInv
  <2> QED BY <2>1, <2>3 DEF HookOK
<1> QED BY <1>4, <1>5 DEF AskInv

(* Every step of the broker keeps it.                                       *)
LEMMA AskStep ==
    ASSUME A!AskBrokerAssumption, AskInv, A!Next
    PROVE  AskInv'
<1>1. CASE A!Crash \/ A!Restore
  BY <1>1, CrashStep, RestoreStep
<1>2. ASSUME NEW h \in Hook,
             \/ A!Register(h) \/ A!Send(h) \/ A!User(h) \/ A!Timeout(h) \/ A!Gc(h)
             \/ A!HandoffExpires(h) \/ A!Response(h) \/ A!Passthrough(h) \/ A!ConnectionLost(h)
             \/ A!HookDeadline(h) \/ A!AskDeadline(h)
      PROVE  AskInv'
  <2>1. A!Send(h) => A!SendOk(h) \/ A!SendTransient(h) \/ A!SendFails(h)
    BY DEF A!Send
  <2>2. A!User(h) => \/ \E o \in Option : A!Toggle(h, o)
                     \/ A!Submit(h) \/ A!CustomReply(h) \/ \E s \in SUBSET Option : A!Desktop(h, s)
    BY DEF A!User
  <2> QED BY <1>2, <2>1, <2>2, RegisterStep, SettlesStep, RewritesStep, OtherHookStep
<1> QED BY <1>1, <1>2, Zenon DEF A!Next

(* The broker at rest.                                                      *)
LEMMA AskStutter ==
    ASSUME AskInv, UNCHANGED broker
    PROVE  AskInv'
<1>1. /\ up' = up /\ asks' = asks /\ disk' = disk /\ hook' = hook /\ card' = card /\ ids' = ids
      /\ hookLate' = hookLate /\ askLate' = askLate /\ ticked' = ticked
      /\ accepted' = accepted /\ stashed' = stashed /\ lost' = lost /\ faults' = faults /\ stale' = stale /\ spoiled' = spoiled
  BY DEF broker
<1>2. A!TypeOK'
  BY <1>1 DEF AskInv, A!TypeOK
<1> QED BY <1>1, <1>2 DEF AskInv, HookOK

(* The invariant gives what the broker promises of every hook.              *)
LEMMA AskInvKept ==
    ASSUME A!AskBrokerAssumption, AskInv
    PROVE  AskKept
<1>1. ASSUME NEW h \in Hook
      PROVE  HookInv(up, h \in lost, h \in Resumable, asks[h], disk[h], hook[h],
                     ticked[h], accepted[h], stashed[h], h \in stale, h \in spoiled)
  BY <1>1 DEF AskInv, HookOK
<1>2. A!MemoryDiskAgree
  BY <1>1 DEF A!MemoryDiskAgree, A!Exists, HookInv
<1>3. A!StashDurable
  BY <1>1 DEF A!StashDurable, HookInv
<1>4. A!TicksKept
  <2> SUFFICES ASSUME NEW h \in Resumable \ spoiled, up, asks[h].id # 0, ~asks[h].settled
               PROVE  asks[h].sel = ticked[h]
    BY DEF A!TicksKept, A!Exists
  <2>1. h \in Hook
    BY DEF A!AskBrokerAssumption
  <2> QED BY <1>1, <2>1 DEF HookInv
<1>5. A!WaitingHasCard
  BY <1>1 DEF A!WaitingHasCard, A!Open, A!Exists, HookInv
<1>6. A!NoInventedAnswer
  BY <1>1 DEF A!NoInventedAnswer, HookInv
<1>7. A!AnsweredTwiceOnlyAfterLoss
  <2> SUFFICES ASSUME NEW h \in Hook, h \notin lost
               PROVE  ~(A!Cardinality(accepted[h]) > 1)
    BY DEF A!AnsweredTwiceOnlyAfterLoss
  <2>1. accepted[h] = {} \/ \E r \in accepted[h] : accepted[h] = {r}
    BY <1>1 DEF HookInv
  <2>2. Cardinality(accepted[h]) = 0 \/ Cardinality(accepted[h]) = 1
    BY <2>1, FS_EmptySet, FS_Singleton
  <2>3. A!Cardinality(accepted[h]) = Cardinality(accepted[h])
    BY DEF A!Cardinality, Cardinality
  <2> QED BY <2>2, <2>3
<1> QED BY <1>2, <1>3, <1>4, <1>5, <1>6, <1>7 DEF AskKept, AskInv

(* In every behaviour of the daemon, whatever is acquired, upgraded,        *)
(* released, abandoned or timed out: a mutation's action runs beside no     *)
(* other turn of the session, the gate counts its leases and owes its slot  *)
(* to one mutation, for every set of handlers and mutations.                *)
THEOREM MutationsAlone == FairSpec => []MutationAlone
<1> USE DaemonAssumption
<1>1. Init => GateInv
  BY GateInit DEF Init
<1>2. GateInv /\ [Next]_vars => GateInv'
  BY GateStep, GateStutter DEF Next, vars
<1>3. GateInv => MutationAlone
  BY GateInvAlone
<1> QED BY <1>1, <1>2, <1>3, PTL DEF FairSpec

(* In every behaviour of the daemon, across any number of deaths, restarts, *)
(* lost connections and failed writes: an ask in memory and its record      *)
(* agree unless the last write failed; an answer stashed for a hook and the *)
(* ticks on a card survive all but a restart that reads such a record; a    *)
(* hook that waits has a card to answer, it is told only what a user        *)
(* answered, and a second answer is taken only when the first may be lost.  *)
THEOREM AsksKept == FairSpec => []AskKept
<1> USE DaemonAssumption
<1>1. Init => AskInv
  BY AskInit DEF Init
<1>2. AskInv /\ [Next]_vars => AskInv'
  BY AskStep, AskStutter DEF Next, vars
<1>3. AskInv => AskKept
  BY AskInvKept
<1> QED BY <1>1, <1>2, <1>3, PTL DEF FairSpec
==============================================================================
