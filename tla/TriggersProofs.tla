--------------------------- MODULE TriggersProofs ---------------------------
(***************************************************************************)
(* Turns that other programs ask of the daemon.                            *)
(*                                                                         *)
(* The requests under one idempotency key keep their promise for every set *)
(* of requests and every number of boots, failed writes, freezes and worker*)
(* generations: KeyedOnce and FailureIsFinal.                              *)
(*                                                                         *)
(* TriggerInv rests on the persisted lease.  Barred: nothing shows of a    *)
(* turn (a result, a mark, a stamp, a handed-over input) unless the lease  *)
(* is attempting for that request, and attempting is never undone, by a    *)
(* release, a takeover or a restart.  Stages says what a request may rely  *)
(* on at each await, LeaseTrue where the owner of the lease can be, Runs   *)
(* what a live worker and a recorded outcome imply, Told what the answers  *)
(* already given still mean.                                               *)
(*                                                                         *)
(* The items of a meeting reach the agent exactly once and in order for    *)
(* every instance: ItemsExactlyOnce and SettledIsKept.                     *)
(*                                                                         *)
(* StreamInv ties the files of the hub and the receiver together.  Sent: a *)
(* batch anybody still holds is the hub's frozen head or one already       *)
(* completed, so a late request is never about a third one.  Cursor: the   *)
(* receiver is the hub's cursor or exactly the head ahead of it.  Tiled:   *)
(* the completed receipts tile what lies below.  Owning: a boot is trusted *)
(* with the receiver's file only once that file names it.  SingleInv adds, *)
(* for one request at a time without restarts, that a live turn's receipt  *)
(* is still dispatched for it or fenced, so nobody else may dispatch.      *)
(***************************************************************************)
EXTENDS MCTriggers, Integers, FiniteSets, FiniteSetTheorems, TLAPS

(* The records of the model. *)
PCs == {"idle", "ready", "created", "claimed", "losing", "release", "attempting",
        "abort", "abortCrossed", "abortFailed", "done"}
LeaseRec == [state : {"reserved", "attempting"}, req : Requests, boot : 1..MaxBoot,
             hash : {T!Payload[r] : r \in Requests}, rev : Nat]
LeaseOrNone == LeaseRec \cup {T!NoLease}
Request == [pc : PCs, seen : LeaseOrNone]
Reply == [kind : {"none", "queued", "failed", "error", "conflict"}, of : Requests \cup {Shared}]
Counts == [faults : Nat, freezes : Nat, soft : Nat]

(* The types of what survives a restart. *)
DiskTypes ==
    /\ sent.kind \in {"fresh", "turn"}
    /\ lease \in LeaseOrNone
    /\ result \in [Requests -> {"none", "pending"} \cup T!Terminal]
    /\ row \in [T!Sessions -> {"none", "open", "closed"}]
    /\ gen \in [T!Sessions -> Nat]
    /\ boot \in 1..MaxBoot /\ phase \in {"down", "reconcile", "sweep", "up"}

(* The types of what the daemon and its workers hold, and of the history. *)
MemoryTypes ==
    /\ active \subseteq T!Sessions /\ live \subseteq T!Sessions
    /\ closing \subseteq T!Sessions /\ quar \subseteq T!Sessions
    /\ unproven \subseteq Requests \cup {Shared}
    /\ fault \subseteq Requests /\ deferred \subseteq Requests /\ captured \subseteq Requests
    /\ mem \in [Requests -> {"none", "pending", "completed", "failed"}]
    /\ stamp \in [Requests -> Nat] /\ frozen \in BOOLEAN /\ ranOn \in [Requests -> Nat]

(* The types of the calls, their answers and the bounded counters. *)
CallTypes ==
    /\ req \in [Requests -> Request] /\ answer \in [Requests -> Reply]
    /\ used \in Counts

(* The types of all variables. *)
Types == DiskTypes /\ MemoryTypes /\ CallTypes

(* The barrier of request t is crossed: the lease says so, for good. *)
Crossed(t) == lease # T!NoLease /\ lease.state = "attempting" /\ lease.req = t

(* Something of request t's turn shows, on disk or in memory. *)
Shows(t) ==
    \/ result[t] # "none" \/ mem[t] # "none" \/ stamp[t] # 0 \/ ranOn[t] # 0
    \/ t \in fault \/ t \in deferred \/ t \in captured

(* A turn of which anything shows has crossed its barrier. *)
Barred == \A t \in Requests : Shows(t) => Crossed(t)

(* The places of a request between its won claim and its dispatch. *)
Stretch == {"claimed", "release", "attempting"}
(* The places from which a request hands nothing over any more. *)
Over == {"abort", "abortCrossed", "abortFailed", "done"}
(* The places of a request that won its claim, then or since. *)
Claimed == Stretch \cup Over

(* What a request knows at the place it has reached. *)
Stage(r) ==
    /\ req[r].pc \notin {"idle", "done"} => phase = "up"
    /\ req[r].pc \in Stretch => lease # T!NoLease /\ lease.req = r /\ lease.boot = boot
    /\ req[r].pc = "claimed" => lease.state = "reserved"
    /\ req[r].pc = "attempting" => lease.state = "attempting" /\ ~Shows(r)
    /\ req[r].pc = "losing" => /\ sent.kind = "fresh" /\ req[r].seen # T!NoLease
                               /\ req[r].seen.state = "reserved" => req[r].seen.boot = boot
    /\ sent.kind = "fresh" /\ req[r].pc \in {"ready", "created", "claimed", "attempting"} => ~frozen
    /\ req[r].seen # T!NoLease => req[req[r].seen.req].pc \in Claimed

(* Every request is where its knowledge allows it to be. *)
Stages == \A r \in Requests : Stage(r)

(* No write has failed and no freeze has been met. *)
Undecided == used.faults = 0 /\ used.freezes = 0

(* Where the owner of the lease can be: claimed while the lease is          *)
(* reserved, and past the barrier either still dispatching, or handed       *)
(* over, or recorded as ended.                                              *)
LeaseTrue ==
    lease # T!NoLease =>
        /\ req[lease.req].pc \in Claimed
        /\ phase = "sweep" => lease.state = "attempting"
        /\ phase = "up" /\ lease.state = "reserved"
              => lease.boot = boot /\ (used.faults = 0 => req[lease.req].pc = "claimed")
        /\ phase \in {"sweep", "up"} /\ lease.state = "attempting" /\ Undecided
              => \/ req[lease.req].pc = "attempting" \/ ranOn[lease.req] # 0
                 \/ result[lease.req] \in T!Terminal

(* What a live worker, a recorded outcome, a captured output and a          *)
(* waiting fork imply.                                                      *)
Runs ==
    /\ \A s \in live : gen[s] > 0 /\ (sent.kind = "fresh" => ranOn[s] # 0)
    /\ \A t \in Requests :
          result[t] = "completed" \/ mem[t] = "completed" \/ t \in captured => ranOn[t] # 0
    /\ used.soft = 0 => \A t \in captured : result[t] = "completed"
    /\ deferred # {} => sent.kind = "turn" /\ used.freezes > 0
    /\ frozen => used.freezes > 0

(* What callers were told: a failed turn is over, a queued one was          *)
(* dispatched.                                                              *)
Told ==
    /\ \A r, t \in Requests : answer[r] = T!Failed(t) => req[t].pc \in Over
    /\ T!QueuedWasDispatched

(* The inductive invariant. *)
TriggerInv == Types /\ Barred /\ Stages /\ LeaseTrue /\ Runs /\ Told

-----------------------------------------------------------------------------
(* A lease that is not the missing one is a record with all its fields. *)
LEMMA Leases ==
    ASSUME NEW l \in LeaseOrNone
    PROVE  /\ l # T!NoLease => /\ l \in LeaseRec /\ l.req \in Requests /\ l.boot \in 1..MaxBoot
                               /\ l.state \in {"reserved", "attempting"} /\ l.rev \in Nat
           /\ l \in LeaseRec => l # T!NoLease
           /\ l.state \in {"reserved", "attempting"} => l # T!NoLease
BY DEF LeaseOrNone, LeaseRec, T!NoLease

(* The missing lease is one of the values the file can have. *)
LEMMA NoLeaseTyped == T!NoLease \in LeaseOrNone
BY DEF LeaseOrNone

(* A reservation is a lease of its request in this boot. *)
LEMMA ReservationFacts ==
    ASSUME DiskTypes, NEW r \in Requests
    PROVE  /\ T!Reservation(r) \in LeaseRec /\ T!Reservation(r) \in LeaseOrNone
           /\ T!Reservation(r).state = "reserved"
           /\ T!Reservation(r).req = r /\ T!Reservation(r).boot = boot
<1> DEFINE v == IF lease = T!NoLease THEN 1 ELSE lease.rev + 1
<1>1. v \in Nat
  BY Leases DEF DiskTypes
<1>2. T!Payload[r] \in {T!Payload[q] : q \in Requests} /\ boot \in 1..MaxBoot
  BY DEF DiskTypes
<1>3. T!Reservation(r) = [state |-> "reserved", req |-> r, boot |-> boot, hash |-> T!Payload[r], rev |-> v]
  BY DEF T!Reservation
<1> HIDE DEF v
<1> QED
  BY <1>1, <1>2, <1>3 DEF LeaseRec, LeaseOrNone

(* The barrier changes a lease's state and revision, not its owner. *)
LEMMA AttemptingFacts ==
    ASSUME NEW l \in LeaseRec
    PROVE  /\ T!Attempting(l) \in LeaseRec /\ T!Attempting(l) \in LeaseOrNone
           /\ T!Attempting(l).state = "attempting"
           /\ T!Attempting(l).req = l.req /\ T!Attempting(l).boot = l.boot
<1> DEFINE m == [l EXCEPT !.state = "attempting"]
<1>1. m \in LeaseRec /\ m.state = "attempting" /\ m.req = l.req /\ m.boot = l.boot
  BY DEF LeaseRec
<1>2. T!Attempting(l) = [m EXCEPT !.rev = m.rev + 1]
  BY DEF T!Attempting
<1> HIDE DEF m
<1>3. m.rev \in Nat
  BY <1>1 DEF LeaseRec
<1> QED
  BY <1>1, <1>2, <1>3 DEF LeaseRec, LeaseOrNone

(* The answers are different from each other, and each names its turn. *)
LEMMA Replies ==
    ASSUME NEW t \in Requests, NEW u \in Requests
    PROVE  /\ {T!Queued(t), T!Failed(t), T!Error, T!Conflict, T!NoAnswer} \subseteq Reply
           /\ T!Failed(t) \notin {T!Queued(u), T!Error, T!Conflict, T!NoAnswer}
           /\ T!Queued(t) \notin {T!Failed(u), T!Error, T!Conflict, T!NoAnswer}
           /\ T!Failed(t) = T!Failed(u) => t = u
           /\ T!Queued(t) = T!Queued(u) => t = u
<1>1. {T!Queued(t), T!Failed(t), T!Error, T!Conflict, T!NoAnswer} \subseteq Reply
  BY DEF Reply, T!Queued, T!Failed, T!Error, T!Conflict, T!NoAnswer
<1>2. T!Failed(t).kind = "failed" /\ T!Failed(t).of = t /\ T!Failed(u).kind = "failed" /\ T!Failed(u).of = u
  BY DEF T!Failed
<1>3. T!Queued(t).kind = "queued" /\ T!Queued(t).of = t /\ T!Queued(u).kind = "queued" /\ T!Queued(u).of = u
  BY DEF T!Queued
<1>4. T!Error.kind = "error" /\ T!Conflict.kind = "conflict" /\ T!NoAnswer.kind = "none"
  BY DEF T!Error, T!Conflict, T!NoAnswer
<1> QED
  BY <1>1, <1>2, <1>3, <1>4

(* Goto moves one request and leaves what every request has seen. *)
LEMMA GotoFacts ==
    ASSUME CallTypes, NEW r \in Requests, NEW p \in PCs, T!Goto(r, p)
    PROVE  /\ req' \in [Requests -> Request] /\ req'[r].pc = p
           /\ \A q \in Requests : req'[q].seen = req[q].seen /\ (q # r => req'[q] = req[q])
BY DEF CallTypes, T!Goto, Request

(* A request that reads the lease keeps the others as they are. *)
LEMMA SeenFacts ==
    ASSUME CallTypes, NEW r \in Requests, NEW p \in PCs, NEW l \in LeaseOrNone,
           req' = [req EXCEPT ![r] = [pc |-> p, seen |-> l]]
    PROVE  /\ req' \in [Requests -> Request] /\ req'[r].pc = p /\ req'[r].seen = l
           /\ \A q \in Requests : q # r => req'[q] = req[q]
BY DEF CallTypes, Request

(* An answer is given to one request, which is then done. *)
LEMMA AnswerFacts ==
    ASSUME CallTypes, NEW r \in Requests, NEW a \in Reply, T!Answer(r, a)
    PROVE  /\ answer' \in [Requests -> Reply] /\ answer'[r] = a
           /\ \A q \in Requests : q # r => answer'[q] = answer[q]
           /\ T!Goto(r, "done")
BY DEF CallTypes, T!Answer

(* A fresh turn has a session of its own, the others share one. *)
LEMMA SessionFacts ==
    ASSUME DiskTypes, NEW r \in Requests
    PROVE  /\ T!SessionOf(r) \in T!Sessions
           /\ sent.kind = "fresh" => T!SessionOf(r) = r /\ T!Sessions = Requests
           /\ sent.kind = "turn" => T!SessionOf(r) = Shared /\ T!Sessions = {Shared}
           /\ T!kind = sent.kind
BY DEF DiskTypes, T!SessionOf, T!Sessions, T!kind

(* A dispatched input goes to a worker generation after the first. *)
LEMMA DispatchGenFacts ==
    ASSUME Types, Runs, NEW r \in Requests
    PROVE  T!DispatchGen(r) \in Nat /\ T!DispatchGen(r) > 0
<1>1. T!SessionOf(r) \in T!Sessions
  BY SessionFacts DEF Types
<1>2. gen[T!SessionOf(r)] \in Nat /\ (T!SessionOf(r) \in live => gen[T!SessionOf(r)] > 0)
  BY <1>1 DEF Types, DiskTypes, Runs
<1> QED
  BY <1>2 DEF T!DispatchGen

(* A failed write is counted and changes no other counter. *)
LEMMA FailsFacts ==
    ASSUME CallTypes, T!Fails
    PROVE  used' \in Counts /\ used'.faults > 0 /\ used'.freezes = used.freezes /\ used'.soft = used.soft
BY DEF CallTypes, T!Fails, T!MayFail, Counts

(* Why a lease that was found is not answered as failed: its turn           *)
(* completed, its session has a worker, or it is a reservation of an        *)
(* earlier boot.                                                            *)
LEMMA DecisionFacts ==
    ASSUME NEW hit \in LeaseRec, T!Decision(hit) # "terminal"
    PROVE  \/ result[hit.req] = "completed"
           \/ /\ result[hit.req] \notin T!Terminal /\ T!SessionOf(hit.req) \in live
              /\ hit.state = "attempting" \/ (hit.state = "reserved" /\ hit.boot = boot)
           \/ /\ result[hit.req] \notin T!Terminal
              /\ hit.state = "reserved" /\ hit.boot # boot
<1>1. hit.state \in {"reserved", "attempting"}
  BY DEF LeaseRec
<1> QED
  BY <1>1, SMT DEF T!Decision, T!Terminal

-----------------------------------------------------------------------------
(* What never changes. *)
LEMMA Fixed ==
    ASSUME T!Next
    PROVE  /\ sent' = sent /\ T!Sessions' = T!Sessions /\ LeaseRec' = LeaseRec
           /\ LeaseOrNone' = LeaseOrNone /\ Request' = Request
           /\ T!kind' = T!kind
<1>1. sent' = sent
  BY DEF T!Next, T!RequestStep, T!WorkerStep, T!CheckPasses, T!CheckRefuses, T!CheckHits, T!CheckHeals,
     T!CreateSession, T!LostSession, T!ClaimWins, T!ClaimThrows, T!ClaimLoses, T!Lose, T!Barrier,
     T!BarrierThrows, T!Release, T!Dispatch, T!DispatchDeferred, T!DispatchFails, T!Abort,
     T!FinalOutput, T!TurnFails, T!PollHeals, T!WorkerExit, T!CliExit, T!FailClose, T!Wake,
     T!Freeze, T!Unfreeze, T!DeferredFork, T!Crash, T!Boot, T!Reconcile, T!ReconcileThrows, T!RestoreThrows, T!Restore
<1>2. T!Sessions' = T!Sessions /\ T!kind' = T!kind /\ T!Payload' = T!Payload
  BY <1>1 DEF T!Sessions, T!kind, T!Payload
<1>3. LeaseRec' = LeaseRec
  BY <1>2 DEF LeaseRec
<1>4. LeaseOrNone' = LeaseOrNone
  BY <1>3 DEF LeaseOrNone
<1> QED
  BY <1>1, <1>2, <1>3, <1>4 DEF Request

(* Calls and counters keep their types. *)
LEMMA CallTypesStep == Types /\ Stages /\ T!Next => CallTypes'
<1> SUFFICES ASSUME Types, Stages, T!Next PROVE CallTypes'
  OBVIOUS
<1> USE Fixed, Leases, NoLeaseTyped, Replies
<1>0. CallTypes /\ DiskTypes /\ lease \in LeaseOrNone /\ req \in [Requests -> Request]
      /\ answer \in [Requests -> Reply] /\ used \in Counts
  BY DEF Types, CallTypes, DiskTypes
<1>a. ASSUME req' \in [Requests -> Request], answer' \in [Requests -> Reply], used' \in Counts
      PROVE  CallTypes'
  BY <1>a, Fixed DEF CallTypes
<1>b. ASSUME NEW r \in Requests, NEW p \in PCs, T!Goto(r, p) PROVE req' \in [Requests -> Request]
  BY <1>0, <1>b, GotoFacts
<1>c. ASSUME NEW r \in Requests, NEW a \in Reply, T!Answer(r, a)
      PROVE  req' \in [Requests -> Request] /\ answer' \in [Requests -> Reply]
  <2>1. "done" \in PCs BY DEF PCs
  <2> QED BY <1>0, <1>b, <1>c, <2>1, AnswerFacts
<1>d. T!Fails => used' \in Counts
  BY <1>0, FailsFacts
<1>e. ASSUME NEW l \in LeaseOrNone, l # T!NoLease
      PROVE  T!Failed(l.req) \in Reply /\ T!Queued(l.req) \in Reply
  BY <1>e
<1>f. ASSUME NEW n, T!SoftSave(n) PROVE used' \in Counts
  BY <1>0, <1>f DEF T!SoftSave, Counts
<1>g. T!Error \in Reply /\ T!Conflict \in Reply
  BY DEF Reply, T!Error, T!Conflict
<1>1. ASSUME NEW r \in Requests, T!RequestStep(r) PROVE CallTypes'
  <2>1. CASE T!CheckPasses(r)
    <3>1. req' = [req EXCEPT ![r] = [pc |-> "ready", seen |-> lease]] /\ answer' = answer /\ used' = used
      BY <2>1 DEF T!CheckPasses
    <3>2. req' \in [Requests -> Request]
      BY <3>1, <1>0, SeenFacts DEF PCs
    <3> QED BY <1>0, <1>a, <3>1, <3>2
  <2>2. CASE T!CheckRefuses(r) \/ T!LostSession(r)
    BY <2>2, <1>0, <1>a, <1>c, <1>g DEF T!CheckRefuses, T!LostSession
  <2>3. CASE T!CheckHits(r)
    BY <2>3, <1>0, <1>a, <1>c, <1>e, <1>g DEF T!CheckHits
  <2>4. CASE T!CheckHeals(r)
    BY <2>4, <1>0, <1>a, <1>c, <1>d, <1>e, <1>g DEF T!CheckHeals
  <2>5. CASE T!CreateSession(r) \/ T!ClaimWins(r) \/ T!Barrier(r)
    BY <2>5, <1>0, <1>a, <1>b DEF T!CreateSession, T!ClaimWins, T!Barrier, PCs
  <2>6. CASE T!ClaimThrows(r) \/ T!BarrierThrows(r)
    BY <2>6, <1>0, <1>a, <1>b, <1>c, <1>d, <1>g DEF T!ClaimThrows, T!BarrierThrows, PCs
  <2>7. CASE T!ClaimLoses(r)
    <3>1. answer' \in [Requests -> Reply] /\ used' = used /\ lease # T!NoLease
      BY <2>7, <1>0, <1>c, <1>e, <1>g DEF T!ClaimLoses, T!Claimable
    <3>2. CASE T!kind = "fresh"
      <4>1. req' = [req EXCEPT ![r] = [pc |-> "losing", seen |-> lease]]
        BY <2>7, <3>2 DEF T!ClaimLoses
      <4>2. req' \in [Requests -> Request]
        BY <4>1, <1>0, SeenFacts DEF PCs
      <4> QED BY <1>0, <1>a, <3>1, <4>2
    <3>3. CASE T!kind # "fresh"
      BY <2>7, <3>1, <3>3, <1>0, <1>a, <1>c, <1>e, <1>g DEF T!ClaimLoses
    <3> QED BY <3>2, <3>3
  <2>8. CASE T!Lose(r)
    <3>1. req[r].seen \in LeaseOrNone
      BY <1>0 DEF Request
    <3>2. req[r].seen # T!NoLease
      BY <2>8 DEF T!Lose, Stages, Stage
    <3> QED BY <2>8, <3>1, <3>2, <1>0, <1>a, <1>b, <1>c, <1>d, <1>e, <1>g DEF T!Lose, T!Close, T!CloseThrows, PCs
  <2>9. CASE T!Release(r)
    BY <2>9, <1>0, <1>a, <1>b, <1>d DEF T!Release, PCs
  <2>10. CASE T!Dispatch(r) \/ T!DispatchDeferred(r)
    BY <2>10, <1>0, <1>a, <1>c, <1>f DEF T!Dispatch, T!DispatchDeferred, T!SavesPending
  <2>11. CASE T!DispatchFails(r)
    <3>1. used' \in Counts
      BY <2>11, <1>0 DEF T!DispatchFails, Counts
    <3> QED BY <2>11, <3>1, <1>0, <1>a, <1>b, <1>c, <1>g DEF T!DispatchFails, PCs
  <2>12. CASE T!Abort(r)
    BY <2>12, <1>0, <1>a, <1>c, <1>d, <1>g DEF T!Abort, T!Close, T!CloseThrows
  <2> QED
    BY <1>1, <2>1, <2>2, <2>3, <2>4, <2>5, <2>6, <2>7, <2>8, <2>9, <2>10, <2>11, <2>12 DEF T!RequestStep
<1>2. ASSUME NEW r \in Requests, T!FinalOutput(r) \/ T!TurnFails(r) \/ T!PollHeals(r) PROVE CallTypes'
  BY <1>2, <1>0, <1>a, <1>d, <1>f DEF T!FinalOutput, T!TurnFails, T!PollHeals
<1>3. ASSUME NEW s \in T!Sessions, T!WorkerExit(s) \/ T!CliExit(s) \/ T!FailClose(s) \/ T!Wake(s)
      PROVE  CallTypes'
  BY <1>3, <1>0, <1>a, <1>d DEF T!WorkerExit, T!CliExit, T!FailClose, T!Wake, T!Converge, T!Close, T!CloseThrows
<1>4. CASE T!Freeze \/ T!Unfreeze
  BY <1>4, <1>0, <1>a DEF T!Freeze, T!Unfreeze, Counts
<1>5. ASSUME NEW r \in Requests, T!DeferredFork(r) PROVE CallTypes'
  BY <1>5, <1>0, <1>a DEF T!DeferredFork
<1>6. CASE T!Crash
  <2>1. req' \in [Requests -> Request]
    BY <1>6, <1>0 DEF T!Crash, Request, PCs
  <2> QED BY <1>6, <2>1, <1>0, <1>a DEF T!Crash
<1>7. CASE T!Boot \/ T!Reconcile \/ T!ReconcileThrows \/ T!RestoreThrows \/ T!Restore
  BY <1>7, <1>0, <1>a, <1>d DEF T!Boot, T!Reconcile, T!ReconcileThrows, T!RestoreThrows, T!Restore
<1> QED
  BY <1>1, <1>2, <1>3, <1>4, <1>5, <1>6, <1>7 DEF T!Next, T!WorkerStep

(* What survives a restart keeps its type. *)
LEMMA DiskTypesStep == Types /\ Stages /\ Runs /\ T!Next => DiskTypes'
<1> SUFFICES ASSUME Types, Stages, Runs, T!Next PROVE DiskTypes'
  OBVIOUS
<1> USE Fixed
<1> DEFINE Entries == {"none", "pending"} \cup T!Terminal
<1>0. /\ DiskTypes /\ lease \in LeaseOrNone /\ result \in [Requests -> Entries]
      /\ row \in [T!Sessions -> {"none", "open", "closed"}] /\ gen \in [T!Sessions -> Nat]
      /\ boot \in 1..MaxBoot /\ phase \in {"down", "reconcile", "sweep", "up"}
      /\ sent.kind \in {"fresh", "turn"}
  BY DEF Types, DiskTypes
<1>a. ASSUME lease' \in LeaseOrNone, result' \in [Requests -> Entries],
             row' \in [T!Sessions -> {"none", "open", "closed"}], gen' \in [T!Sessions -> Nat],
             boot' \in 1..MaxBoot, phase' \in {"down", "reconcile", "sweep", "up"}
      PROVE  DiskTypes'
  BY <1>a, <1>0, Fixed DEF DiskTypes, T!Terminal
<1>b. UNCHANGED T!disk => /\ lease' \in LeaseOrNone /\ result' \in [Requests -> Entries]
                          /\ row' \in [T!Sessions -> {"none", "open", "closed"}]
                          /\ gen' \in [T!Sessions -> Nat]
  BY <1>0 DEF T!disk
<1>c. ASSUME NEW t \in Requests
      PROVE  /\ T!RecordFailed(result, t) \in [Requests -> Entries]
             /\ T!RecordTerminal(result, t) \in [Requests -> Entries]
             /\ T!RecordCompleted(result, t) \in [Requests -> Entries]
             /\ [result EXCEPT ![t] = "pending"] \in [Requests -> Entries]
  BY <1>0 DEF T!RecordFailed, T!RecordTerminal, T!RecordCompleted, T!Terminal
<1>d. ASSUME NEW n \in [Requests -> Entries], T!SoftSave(n) PROVE result' \in [Requests -> Entries]
  BY <1>0, <1>d DEF T!SoftSave
<1>e. ASSUME NEW s, T!Close(s) \/ T!CloseThrows(s) PROVE row' \in [T!Sessions -> {"none", "open", "closed"}]
  BY <1>0, <1>e DEF T!Close, T!CloseThrows
<1>f. ASSUME NEW s, T!Converge(s) PROVE result' \in [Requests -> Entries]
  <2>1. \A t \in Requests : T!RecordFailed(result, t)[t] \in Entries
    BY <1>c
  <2> HIDE DEF Entries
  <2> QED BY <1>0, <1>f, <2>1 DEF T!Converge
<1> HIDE DEF Entries
<1>1. ASSUME NEW r \in Requests, T!RequestStep(r) PROVE DiskTypes'
  <2>0. T!Reservation(r) \in LeaseOrNone /\ T!SessionOf(r) \in T!Sessions
    BY <1>0, ReservationFacts, SessionFacts
  <2>1. CASE T!CheckPasses(r) \/ T!CheckRefuses(r) \/ T!LostSession(r) \/ T!CheckHits(r) \/ T!ClaimLoses(r)
    BY <2>1, <1>0, <1>a, <1>b DEF T!CheckPasses, T!CheckRefuses, T!LostSession, T!CheckHits, T!ClaimLoses
  <2>2. CASE T!CheckHeals(r)
    <3>1. lease.req \in Requests
      BY <2>2, <1>0, Leases DEF T!CheckHeals
    <3>2. result' \in [Requests -> Entries]
      BY <2>2, <3>1, <1>0, <1>c DEF T!CheckHeals
    <3> QED BY <2>2, <3>2, <1>0, <1>a DEF T!CheckHeals
  <2>3. CASE T!CreateSession(r)
    BY <2>3, <1>0, <1>a DEF T!CreateSession
  <2>4. CASE T!ClaimWins(r) \/ T!ClaimThrows(r)
    BY <2>4, <2>0, <1>0, <1>a DEF T!ClaimWins, T!ClaimThrows, T!memory
  <2>5. CASE T!Barrier(r) \/ T!BarrierThrows(r)
    <3>1. lease \in LeaseRec
      BY <2>5, <1>0, Leases DEF T!Barrier, T!BarrierThrows, Stages, Stage, Stretch
    <3>2. T!Attempting(lease) \in LeaseOrNone
      BY <3>1, AttemptingFacts
    <3> QED BY <2>5, <3>2, <1>0, <1>a DEF T!Barrier, T!BarrierThrows, T!memory
  <2>6. CASE T!Release(r)
    BY <2>6, <1>0, <1>a, <1>c, NoLeaseTyped DEF T!Release, T!memory
  <2>7. CASE T!Dispatch(r)
    <3>1. result' \in [Requests -> Entries]
      BY <2>7, <1>c, <1>d DEF T!Dispatch, T!SavesPending
    <3>2. T!DispatchGen(r) \in Nat
      BY DispatchGenFacts
    <3> QED BY <2>7, <2>0, <3>1, <3>2, <1>0, <1>a DEF T!Dispatch
  <2>8. CASE T!DispatchDeferred(r)
    <3>1. result' \in [Requests -> Entries]
      BY <2>8, <1>c, <1>d DEF T!DispatchDeferred, T!SavesPending
    <3> QED BY <2>8, <2>0, <3>1, <1>0, <1>a DEF T!DispatchDeferred
  <2>9. CASE T!DispatchFails(r)
    BY <2>9, <1>0, <1>a, <1>c DEF T!DispatchFails
  <2>10. CASE T!Lose(r) \/ T!Abort(r)
    BY <2>10, <1>0, <1>a, <1>e DEF T!Lose, T!Abort
  <2> QED
    BY <1>1, <2>1, <2>2, <2>3, <2>4, <2>5, <2>6, <2>7, <2>8, <2>9, <2>10 DEF T!RequestStep
<1>2. ASSUME NEW r \in Requests, T!FinalOutput(r) \/ T!TurnFails(r) \/ T!PollHeals(r) PROVE DiskTypes'
  BY <1>2, <1>0, <1>a, <1>c, <1>d DEF T!FinalOutput, T!TurnFails, T!PollHeals
<1>3. ASSUME NEW s \in T!Sessions, T!WorkerExit(s) \/ T!CliExit(s) PROVE DiskTypes'
  BY <1>3, <1>0, <1>a, <1>f DEF T!WorkerExit, T!CliExit
<1>4. ASSUME NEW s \in T!Sessions, T!FailClose(s) \/ T!Wake(s) PROVE DiskTypes'
  BY <1>4, <1>0, <1>a, <1>e DEF T!FailClose, T!Wake
<1>5. CASE T!Freeze \/ T!Unfreeze \/ T!Crash \/ T!ReconcileThrows \/ T!RestoreThrows
  BY <1>5, <1>0, <1>a, <1>b DEF T!Freeze, T!Unfreeze, T!Crash, T!ReconcileThrows, T!RestoreThrows
<1>6. ASSUME NEW r \in Requests, T!DeferredFork(r) PROVE DiskTypes'
  <2>1. T!SessionOf(r) \in T!Sessions
    BY <1>0, SessionFacts
  <2> QED BY <1>6, <2>1, <1>0, <1>a DEF T!DeferredFork
<1>7. CASE T!Boot
  <2>1. boot + 1 \in 1..MaxBoot
    BY <1>7, <1>0, SourcesAssumption DEF T!Boot, T!TriggersAssumption
  <2> QED BY <1>7, <2>1, <1>0, <1>a, <1>b DEF T!Boot
<1>8. CASE T!Reconcile
  <2>1. lease' \in LeaseOrNone
    BY <1>8, <1>0, NoLeaseTyped DEF T!Reconcile
  <2>2. result' \in [Requests -> Entries]
    BY <1>8, <1>0, <1>c, Leases DEF T!Reconcile
  <2> QED BY <1>8, <2>1, <2>2, <1>0, <1>a DEF T!Reconcile
<1>9. CASE T!Restore
  <2>1. row' \in [T!Sessions -> {"none", "open", "closed"}]
    BY <1>9, <1>0 DEF T!Restore
  <2> QED BY <1>9, <2>1, <1>0, <1>a DEF T!Restore
<1> QED
  BY <1>1, <1>2, <1>3, <1>4, <1>5, <1>6, <1>7, <1>8, <1>9 DEF T!Next, T!WorkerStep

(* What the daemon holds keeps its type. *)
LEMMA MemoryTypesStep == Types /\ Stages /\ Runs /\ T!Next => MemoryTypes'
<1> SUFFICES ASSUME Types, Stages, Runs, T!Next PROVE MemoryTypes'
  OBVIOUS
<1> USE Fixed
<1> DEFINE Marks == {"none", "pending", "completed", "failed"}
<1>0. /\ DiskTypes /\ active \subseteq T!Sessions /\ live \subseteq T!Sessions
      /\ closing \subseteq T!Sessions /\ quar \subseteq T!Sessions
      /\ unproven \subseteq Requests \cup {Shared} /\ T!Sessions \subseteq Requests \cup {Shared}
      /\ fault \subseteq Requests /\ deferred \subseteq Requests /\ captured \subseteq Requests
      /\ mem \in [Requests -> Marks] /\ stamp \in [Requests -> Nat] /\ frozen \in BOOLEAN
      /\ ranOn \in [Requests -> Nat] /\ gen \in [T!Sessions -> Nat] /\ lease \in LeaseOrNone
  BY DEF Types, DiskTypes, MemoryTypes, T!Sessions
<1>a. ASSUME active' \subseteq T!Sessions, live' \subseteq T!Sessions,
             closing' \subseteq T!Sessions, quar' \subseteq T!Sessions,
             unproven' \subseteq Requests \cup {Shared},
             fault' \subseteq Requests, deferred' \subseteq Requests, captured' \subseteq Requests,
             mem' \in [Requests -> Marks], stamp' \in [Requests -> Nat], frozen' \in BOOLEAN,
             ranOn' \in [Requests -> Nat]
      PROVE  MemoryTypes'
  BY <1>a, Fixed DEF MemoryTypes
<1>b. UNCHANGED T!memory => UNCHANGED <<active, live, mem, stamp, fault, closing, deferred, frozen>>
  BY DEF T!memory
<1>c. ASSUME NEW s \in Requests \cup {Shared}, T!Close(s) \/ T!CloseThrows(s)
      PROVE  /\ unproven' \subseteq Requests \cup {Shared}
             /\ active' \subseteq T!Sessions /\ live' \subseteq T!Sessions /\ closing' \subseteq T!Sessions
             /\ fault' \subseteq Requests /\ deferred' \subseteq Requests
             /\ mem' \in [Requests -> Marks] /\ stamp' \in [Requests -> Nat]
  BY <1>0, <1>c DEF T!Close, T!CloseThrows
<1>d. ASSUME NEW s \in T!Sessions, T!Converge(s)
      PROVE  /\ stamp' \in [Requests -> Nat] /\ fault' \subseteq Requests /\ closing' \subseteq T!Sessions
  BY <1>0, <1>d DEF T!Converge
<1> HIDE DEF Marks
<1>1. ASSUME NEW r \in Requests, T!RequestStep(r) PROVE MemoryTypes'
  <2>0. T!SessionOf(r) \in T!Sessions /\ T!DispatchGen(r) \in Nat /\ (T!kind = "fresh" => r \in T!Sessions)
    BY <1>0, SessionFacts, DispatchGenFacts
  <2>1. CASE \/ T!CheckPasses(r) \/ T!CheckRefuses(r) \/ T!LostSession(r) \/ T!CheckHits(r)
             \/ T!ClaimLoses(r) \/ T!ClaimWins(r) \/ T!ClaimThrows(r) \/ T!Barrier(r)
             \/ T!BarrierThrows(r) \/ T!Release(r)
    BY <2>1, <1>0, <1>a, <1>b DEF T!CheckPasses, T!CheckRefuses, T!LostSession, T!CheckHits, T!ClaimLoses,
       T!ClaimWins, T!ClaimThrows, T!Barrier, T!BarrierThrows, T!Release
  <2>2. CASE T!CheckHeals(r)
    <3>1. lease.req \in Requests
      BY <2>2, <1>0, Leases DEF T!CheckHeals
    <3>2. mem' \in [Requests -> Marks] /\ stamp' \in [Requests -> Nat] /\ fault' \subseteq Requests
      BY <2>2, <3>1, <1>0 DEF T!CheckHeals, Marks
    <3> QED BY <2>2, <3>2, <1>0, <1>a DEF T!CheckHeals
  <2>3. CASE T!CreateSession(r)
    BY <2>3, <2>0, <1>0, <1>a DEF T!CreateSession
  <2>4. CASE T!Dispatch(r) \/ T!DispatchDeferred(r)
    <3>1. mem' \in [Requests -> Marks] /\ stamp' \in [Requests -> Nat] /\ ranOn' \in [Requests -> Nat]
      BY <2>4, <2>0, <1>0 DEF T!Dispatch, T!DispatchDeferred, Marks
    <3> QED BY <2>4, <2>0, <3>1, <1>0, <1>a DEF T!Dispatch, T!DispatchDeferred
  <2>5. CASE T!DispatchFails(r)
    BY <2>5, <2>0, <1>0, <1>a DEF T!DispatchFails
  <2>6. CASE T!Lose(r) \/ T!Abort(r)
    BY <2>6, <1>0, <1>a, <1>c DEF T!Lose, T!Abort
  <2> QED
    BY <1>1, <2>1, <2>2, <2>3, <2>4, <2>5, <2>6 DEF T!RequestStep
<1>2. ASSUME NEW r \in Requests, T!FinalOutput(r) \/ T!TurnFails(r) \/ T!PollHeals(r) PROVE MemoryTypes'
  <2>1. mem' \in [Requests -> Marks] /\ stamp' \in [Requests -> Nat]
    BY <1>2, <1>0 DEF T!FinalOutput, T!TurnFails, T!PollHeals, Marks
  <2> QED BY <1>2, <2>1, <1>0, <1>a DEF T!FinalOutput, T!TurnFails, T!PollHeals
<1>3. ASSUME NEW s \in T!Sessions, T!WorkerExit(s) \/ T!CliExit(s) PROVE MemoryTypes'
  BY <1>3, <1>0, <1>a, <1>d DEF T!WorkerExit, T!CliExit
<1>4. ASSUME NEW s \in T!Sessions, T!FailClose(s) \/ T!Wake(s) PROVE MemoryTypes'
  BY <1>4, <1>0, <1>a, <1>c DEF T!FailClose, T!Wake
<1>5. CASE T!Freeze \/ T!Unfreeze \/ T!Boot \/ T!ReconcileThrows \/ T!RestoreThrows
  BY <1>5, <1>0, <1>a, <1>b DEF T!Freeze, T!Unfreeze, T!Boot, T!ReconcileThrows, T!RestoreThrows
<1>6. ASSUME NEW r \in Requests, T!DeferredFork(r) PROVE MemoryTypes'
  <2>1. T!SessionOf(r) \in T!Sessions
    BY <1>0, SessionFacts
  <2> QED BY <1>6, <2>1, <1>0, <1>a DEF T!DeferredFork
<1>7. CASE T!Crash
  <2>1. mem' \in [Requests -> Marks] /\ stamp' \in [Requests -> Nat]
    BY <1>7 DEF T!Crash, Marks
  <2> QED BY <1>7, <2>1, <1>0, <1>a DEF T!Crash
<1>8. CASE T!Reconcile
  <2>1. quar' \subseteq T!Sessions
    BY <1>8, <1>0, Leases, SessionFacts DEF T!Reconcile
  <2> QED BY <1>8, <2>1, <1>0, <1>a, <1>b DEF T!Reconcile
<1>9. CASE T!Restore
  BY <1>9, <1>0, <1>a DEF T!Restore
<1> QED
  BY <1>1, <1>2, <1>3, <1>4, <1>5, <1>6, <1>7, <1>8, <1>9 DEF T!Next, T!WorkerStep

-----------------------------------------------------------------------------
(* Nothing shows of a turn whose barrier is not crossed. *)
LEMMA BarredStep == Types /\ Barred /\ Stages /\ T!Next => Barred'
<1> SUFFICES ASSUME Types, Barred, Stages, T!Next PROVE Barred'
  OBVIOUS
<1>0. /\ DiskTypes /\ lease \in LeaseOrNone /\ req \in [Requests -> Request]
      /\ fault \subseteq Requests /\ deferred \subseteq Requests /\ captured \subseteq Requests
      /\ result \in [Requests -> {"none", "pending"} \cup T!Terminal]
      /\ mem \in [Requests -> {"none", "pending", "completed", "failed"}] /\ stamp \in [Requests -> Nat]
      /\ ranOn \in [Requests -> Nat]
  BY DEF Types, DiskTypes, MemoryTypes, CallTypes
<1>a. ASSUME \A t \in Requests : Shows(t)' => Shows(t) \/ Crossed(t), lease' = lease PROVE Barred'
  BY <1>a DEF Barred, Crossed
<1>b. ASSUME \A t \in Requests : ~Shows(t)' PROVE Barred'
  BY <1>b DEF Barred
<1>c. ASSUME lease = T!NoLease \/ lease.state = "reserved" PROVE \A t \in Requests : ~Shows(t)
  BY <1>c DEF Barred, Crossed
<1>d. ASSUME UNCHANGED <<result, mem, stamp, ranOn, fault, deferred, captured>>
      PROVE  \A t \in Requests : Shows(t)' <=> Shows(t)
  BY <1>d DEF Shows
<1>e. ASSUME NEW t \in Requests, NEW u \in Requests, T!RecordFailed(result, t)[u] # "none"
      PROVE  result[u] # "none" \/ u = t
  BY <1>e, <1>0 DEF T!RecordFailed
<1>f. ASSUME NEW t \in Requests, NEW u \in Requests, T!RecordTerminal(result, t)[u] # "none"
      PROVE  result[u] # "none" \/ u = t
  BY <1>f, <1>0 DEF T!RecordTerminal
<1>g. UNCHANGED T!memory => UNCHANGED <<mem, stamp, fault, deferred>>
  BY DEF T!memory
<1>h. UNCHANGED T!disk => lease' = lease /\ result' = result
  BY DEF T!disk
<1>i. ASSUME NEW s, T!Close(s) \/ T!CloseThrows(s), UNCHANGED <<lease, result, ranOn, captured>> PROVE Barred'
  <2>1. \A t \in Requests : Shows(t)' => Shows(t)
    BY <1>0, <1>i DEF T!Close, T!CloseThrows, Shows
  <2> QED BY <1>i, <2>1, <1>a
<1>j. ASSUME NEW s, T!Converge(s), UNCHANGED <<lease, mem, ranOn, deferred, captured>> PROVE Barred'
  <2>1. \A t \in Requests : Shows(t)' => Shows(t)
    BY <1>0, <1>e, <1>j DEF T!Converge, Shows
  <2> QED BY <1>j, <2>1, <1>a
<1>1. ASSUME NEW r \in Requests, T!RequestStep(r) PROVE Barred'
  <2>1. CASE \/ T!CheckPasses(r) \/ T!CheckRefuses(r) \/ T!LostSession(r) \/ T!CheckHits(r)
             \/ T!ClaimLoses(r) \/ T!CreateSession(r)
    BY <2>1, <1>a, <1>d, <1>g, <1>h DEF T!CheckPasses, T!CheckRefuses, T!LostSession, T!CheckHits,
       T!ClaimLoses, T!CreateSession
  <2>2. CASE T!CheckHeals(r)
    <3>1. lease.req \in Requests /\ Crossed(lease.req)
      BY <2>2, <1>0, Leases DEF T!CheckHeals, Barred, Shows
    <3>2. \A t \in Requests : Shows(t)' => Shows(t) \/ Crossed(t)
      BY <2>2, <3>1, <1>0, <1>e DEF T!CheckHeals, Shows
    <3> QED BY <2>2, <3>2, <1>a DEF T!CheckHeals
  <2>3. CASE T!ClaimWins(r) \/ T!ClaimThrows(r)
    <3>1. lease = T!NoLease \/ lease.state = "reserved"
      BY <2>3 DEF T!ClaimWins, T!ClaimThrows, T!Claimable
    <3> QED BY <2>3, <3>1, <1>b, <1>c, <1>d, <1>g DEF T!ClaimWins, T!ClaimThrows
  <2>4. CASE T!Barrier(r) \/ T!BarrierThrows(r)
    <3>1. lease.state = "reserved"
      BY <2>4 DEF T!Barrier, T!BarrierThrows, Stages, Stage
    <3> QED BY <2>4, <3>1, <1>b, <1>c, <1>d, <1>g DEF T!Barrier, T!BarrierThrows
  <2>5. CASE T!Release(r)
    <3>1. lease # T!NoLease /\ lease.req = r
      BY <2>5 DEF T!Release, Stages, Stage, Stretch
    <3>2. UNCHANGED <<mem, stamp, ranOn, fault, deferred, captured>>
      BY <2>5, <1>g DEF T!Release
    <3>3. CASE lease.state = "reserved" /\ result' = result
      BY <3>2, <3>3, <1>b, <1>c, <1>d
    <3>4. CASE lease.state = "attempting" /\ result' = T!RecordFailed(result, r) /\ lease' = lease
      <4>1. Crossed(r)
        BY <3>1, <3>4 DEF Crossed
      <4>2. \A t \in Requests : Shows(t)' => Shows(t) \/ Crossed(t)
        BY <3>2, <3>4, <4>1, <1>e DEF Shows
      <4> QED BY <3>4, <4>2, <1>a
    <3>5. CASE lease' = lease /\ result' = result
      BY <3>2, <3>5, <1>a, <1>d
    <3> QED BY <2>5, <3>3, <3>4, <3>5 DEF T!Release
  <2>6. CASE T!Dispatch(r) \/ T!DispatchDeferred(r) \/ T!DispatchFails(r)
    <3>1. Crossed(r)
      BY <2>6 DEF T!Dispatch, T!DispatchDeferred, T!DispatchFails, Stages, Stage, Stretch, Crossed
    <3>2. CASE T!Dispatch(r) \/ T!DispatchDeferred(r)
      <4>1. \A t \in Requests : t # r => result'[t] = result[t]
        BY <3>2, <1>0 DEF T!Dispatch, T!DispatchDeferred, T!SavesPending, T!SoftSave
      <4>2. \A t \in Requests : Shows(t)' => Shows(t) \/ t = r
        BY <3>2, <4>1, <1>0 DEF T!Dispatch, T!DispatchDeferred, Shows
      <4> QED BY <3>1, <3>2, <4>2, <1>a DEF T!Dispatch, T!DispatchDeferred
    <3>3. CASE T!DispatchFails(r)
      <4>1. \A t \in Requests : result'[t] # "none" => result[t] # "none" \/ t = r
        BY <3>3, <1>0, <1>e DEF T!DispatchFails
      <4>2. \A t \in Requests : Shows(t)' => Shows(t) \/ t = r
        BY <3>3, <4>1, <1>0 DEF T!DispatchFails, Shows
      <4> QED BY <3>1, <3>3, <4>2, <1>a DEF T!DispatchFails
    <3> QED BY <2>6, <3>2, <3>3
  <2>7. CASE T!Lose(r) \/ T!Abort(r)
    BY <2>7, <1>i DEF T!Lose, T!Abort
  <2> QED
    BY <1>1, <2>1, <2>2, <2>3, <2>4, <2>5, <2>6, <2>7 DEF T!RequestStep
<1>2. ASSUME NEW r \in Requests, T!FinalOutput(r) \/ T!TurnFails(r) \/ T!PollHeals(r) PROVE Barred'
  <2>1. Crossed(r)
    BY <1>2 DEF T!FinalOutput, T!TurnFails, T!PollHeals, T!Executing, Barred, Shows
  <2>2. \A t \in Requests : result'[t] # "none" => result[t] # "none" \/ t = r
    BY <1>2, <1>0, <1>e, <1>f DEF T!FinalOutput, T!TurnFails, T!PollHeals, T!SoftSave, T!RecordCompleted
  <2>3. \A t \in Requests : Shows(t)' => Shows(t) \/ t = r
    BY <1>2, <2>2, <1>0 DEF T!FinalOutput, T!TurnFails, T!PollHeals, Shows
  <2> QED BY <1>2, <2>1, <2>3, <1>a DEF T!FinalOutput, T!TurnFails, T!PollHeals
<1>3. ASSUME NEW s \in T!Sessions, T!WorkerExit(s) \/ T!CliExit(s) PROVE Barred'
  BY <1>3, <1>j DEF T!WorkerExit, T!CliExit
<1>4. ASSUME NEW s \in T!Sessions, T!FailClose(s) PROVE Barred'
  BY <1>4, <1>i DEF T!FailClose
<1>5. ASSUME NEW s \in T!Sessions, T!Wake(s) PROVE Barred'
  BY <1>5, <1>a, <1>d DEF T!Wake
<1>6. CASE T!Freeze \/ T!Unfreeze \/ T!Boot \/ T!ReconcileThrows \/ T!RestoreThrows \/ T!Restore
  BY <1>6, <1>a, <1>d, <1>g, <1>h DEF T!Freeze, T!Unfreeze, T!Boot, T!ReconcileThrows, T!RestoreThrows, T!Restore
<1>7. ASSUME NEW r \in Requests, T!DeferredFork(r) PROVE Barred'
  <2>1. Crossed(r)
    BY <1>7 DEF T!DeferredFork, Barred, Shows
  <2>2. \A t \in Requests : Shows(t)' => Shows(t) \/ t = r
    BY <1>7, <1>0 DEF T!DeferredFork, Shows
  <2> QED BY <1>7, <2>1, <2>2, <1>a DEF T!DeferredFork
<1>8. CASE T!Crash
  <2>1. \A t \in Requests : Shows(t)' => Shows(t)
    BY <1>8, <1>h DEF T!Crash, Shows
  <2> QED BY <1>8, <2>1, <1>a, <1>h DEF T!Crash
<1>9. CASE T!Reconcile
  <2>0. UNCHANGED <<mem, stamp, ranOn, fault, deferred, captured>>
    BY <1>9, <1>g DEF T!Reconcile
  <2>1. CASE lease # T!NoLease /\ lease.state = "attempting"
    <3>1. lease.req \in Requests /\ Crossed(lease.req) /\ lease' = lease
      BY <1>9, <2>1, <1>0, Leases DEF T!Reconcile, Crossed
    <3>2. \A t \in Requests : Shows(t)' => Shows(t) \/ Crossed(t)
      BY <1>9, <2>0, <3>1, <1>e DEF T!Reconcile, Shows
    <3> QED BY <3>1, <3>2, <1>a
  <2>2. CASE ~(lease # T!NoLease /\ lease.state = "attempting")
    <3>1. lease = T!NoLease \/ lease.state = "reserved"
      BY <2>2, <1>0, Leases
    <3>2. result' = result
      BY <1>9, <2>2 DEF T!Reconcile
    <3> QED BY <2>0, <3>1, <3>2, <1>b, <1>c, <1>d
  <2> QED BY <2>1, <2>2
<1> QED
  BY <1>1, <1>2, <1>3, <1>4, <1>5, <1>6, <1>7, <1>8, <1>9 DEF T!Next, T!WorkerStep

-----------------------------------------------------------------------------
(* While a callback of the daemon runs that is not the stretch of a        *)
(* request, no request is in it.                                           *)
LEMMA ServingFacts ==
    ASSUME T!Serving
    PROVE  phase = "up" /\ \A q \in Requests : req[q].pc \notin Stretch
BY DEF T!Serving, T!Busy, Stretch

(* Requests keep what they know. *)
LEMMA StagesStep == TriggerInv /\ T!Next => Stages'
<1> SUFFICES ASSUME TriggerInv, T!Next PROVE Stages'
  OBVIOUS
<1>0. /\ Types /\ Barred /\ Stages /\ LeaseTrue /\ Runs /\ DiskTypes /\ CallTypes
      /\ lease \in LeaseOrNone /\ req \in [Requests -> Request]
      /\ \A q \in Requests : Stage(q) /\ req[q].pc \in PCs /\ req[q].seen \in LeaseOrNone
  BY DEF TriggerInv, Types, DiskTypes, CallTypes, Stages, Request
<1>f. sent' = sent /\ T!kind = sent.kind /\ sent.kind \in {"fresh", "turn"}
  BY <1>0, Fixed DEF T!kind, DiskTypes
<1>g. UNCHANGED T!memory => UNCHANGED <<frozen, mem, stamp, fault, deferred>>
  BY DEF T!memory
<1>h. UNCHANGED T!disk => UNCHANGED <<lease, result>>
  BY DEF T!disk
<1>l. \A l \in LeaseOrNone : l # T!NoLease => l.req \in Requests
  BY Leases
<1>a. ASSUME NEW r \in Requests, UNCHANGED <<phase, boot, frozen>>, phase = "up",
             \A q \in Requests : q # r => req[q].pc \notin Stretch /\ req'[q] = req[q],
             req[r].pc \in Claimed => req'[r].pc \in Claimed, Stage(r)'
      PROVE  Stages'
  <2>1. \A q \in Requests : req[q].pc \in Claimed => req'[q].pc \in Claimed
    BY <1>a
  <2>2. ASSUME NEW q \in Requests, q # r PROVE Stage(q)'
    <3>1. req[q].seen # T!NoLease => req[req[q].seen.req].pc \in Claimed /\ req[q].seen.req \in Requests
      BY <1>0, <1>l DEF Stage
    <3>2. req[q].pc \notin Stretch /\ req'[q] = req[q] /\ Stage(q)
      BY <1>0, <1>a, <2>2
    <3> QED BY <1>a, <1>f, <2>1, <3>1, <3>2 DEF Stage, Stretch
  <2> QED BY <1>a, <2>2 DEF Stages
<1>b. ASSUME UNCHANGED <<phase, boot, req>>, frozen' => frozen, T!Serving PROVE Stages'
  <2>1. \A q \in Requests : req[q].pc \notin Stretch
    BY <1>b, ServingFacts
  <2> QED BY <1>0, <1>b, <1>f, <2>1 DEF Stages, Stage, Stretch
<1>c. ASSUME NEW r \in Requests, NEW a \in Reply, T!Answer(r, a)
      PROVE  /\ req'[r].pc = "done" /\ req'[r].seen = req[r].seen
             /\ \A q \in Requests : q # r => req'[q] = req[q]
  BY <1>c, <1>0, AnswerFacts, GotoFacts DEF PCs
<1>d. ASSUME NEW r \in Requests, NEW p \in PCs, T!Goto(r, p)
      PROVE  /\ req'[r].pc = p /\ req'[r].seen = req[r].seen
             /\ \A q \in Requests : q # r => req'[q] = req[q]
  BY <1>d, <1>0, GotoFacts
<1>e. ASSUME NEW r \in Requests, req'[r].pc \in {"done", "abort"}, req'[r].seen = req[r].seen,
             \A q \in Requests : q # r => req'[q] = req[q], UNCHANGED <<phase, boot, frozen>>,
             phase = "up", \A q \in Requests : q # r => req[q].pc \notin Stretch
      PROVE  Stages'
  <2>1. Stage(r)'
    BY <1>0, <1>e, <1>f, <1>l DEF Stage, Claimed, Stretch, Over
  <2> QED BY <1>a, <1>e, <2>1 DEF Claimed, Over
<1>1. ASSUME NEW r \in Requests, T!RequestStep(r) PROVE Stages'
  <2>0. ASSUME req[r].pc \in Stretch
        PROVE  /\ phase = "up" /\ lease # T!NoLease /\ lease.req = r /\ lease.boot = boot
               /\ \A q \in Requests : q # r => req[q].pc \notin Stretch
    BY <2>0, <1>0 DEF Stage, Stretch
  <2>r. /\ \A a \in Reply : T!Answer(r, a) => /\ req'[r].pc = "done" /\ req'[r].seen = req[r].seen
                                              /\ \A q \in Requests : q # r => req'[q] = req[q]
        /\ T!Error \in Reply /\ T!Conflict \in Reply
    BY <1>c DEF Reply, T!Error, T!Conflict
  <2>q. \A l \in LeaseOrNone : l # T!NoLease => T!Failed(l.req) \in Reply /\ T!Queued(l.req) \in Reply
    BY <1>l, Replies
  <2>s. req[r].seen # T!NoLease => req[req[r].seen.req].pc \in Claimed /\ req[r].seen.req \in Requests
    BY <1>0, <1>l DEF Stage
  <2>1. CASE T!CheckPasses(r)
    <3>1. /\ req'[r].pc = "ready" /\ req'[r].seen = lease /\ \A q \in Requests : q # r => req'[q] = req[q]
      BY <2>1, <1>0, SeenFacts DEF T!CheckPasses, PCs
    <3>2. UNCHANGED <<phase, boot, frozen>> /\ phase = "up" /\ ~frozen /\ req[r].pc = "idle"
          /\ \A q \in Requests : req[q].pc \notin Stretch
      BY <2>1, <1>g, ServingFacts DEF T!CheckPasses
    <3>3. lease # T!NoLease => lease.req \in Requests /\ req[lease.req].pc \in Claimed
      BY <1>0, <1>l DEF LeaseTrue
    <3>4. Stage(r)'
      BY <3>1, <3>2, <3>3 DEF Stage, Stretch, Claimed, Over
    <3> QED BY <3>1, <3>2, <3>4, <1>a DEF Claimed, Over, Stretch
  <2>2. CASE T!CheckRefuses(r) \/ T!LostSession(r) \/ T!CheckHits(r) \/ T!CheckHeals(r)
    <3>1. req'[r].pc = "done" /\ req'[r].seen = req[r].seen /\ \A q \in Requests : q # r => req'[q] = req[q]
      BY <2>2, <2>r, <2>q, <1>0 DEF T!CheckRefuses, T!LostSession, T!CheckHits, T!CheckHeals
    <3>2. UNCHANGED <<phase, boot, frozen>> /\ T!Serving
      BY <2>2, <1>g DEF T!CheckRefuses, T!LostSession, T!CheckHits, T!CheckHeals
    <3> QED BY <3>1, <3>2, <1>e, ServingFacts
  <2>3. CASE T!CreateSession(r)
    <3>1. req'[r].pc = "created" /\ req'[r].seen = req[r].seen /\ \A q \in Requests : q # r => req'[q] = req[q]
      BY <2>3, <1>d DEF T!CreateSession, PCs
    <3>2. UNCHANGED <<phase, boot, frozen>> /\ T!Serving /\ req[r].pc = "ready"
      BY <2>3 DEF T!CreateSession
    <3>3. phase = "up" /\ (sent.kind = "fresh" => ~frozen) /\ \A q \in Requests : req[q].pc \notin Stretch
      BY <3>2, <1>0, ServingFacts DEF Stage
    <3>4. Stage(r)'
      BY <3>1, <3>2, <3>3, <2>s, <1>f DEF Stage, Stretch, Claimed, Over
    <3> QED BY <3>1, <3>2, <3>3, <3>4, <1>a DEF Claimed, Over, Stretch
  <2>4. CASE T!ClaimWins(r)
    <3>1. req'[r].pc = "claimed" /\ req'[r].seen = req[r].seen /\ \A q \in Requests : q # r => req'[q] = req[q]
      BY <2>4, <1>d DEF T!ClaimWins, PCs
    <3>2. UNCHANGED <<phase, boot, frozen>> /\ T!Serving /\ req[r].pc \in {"ready", "created"}
          /\ lease' = T!Reservation(r)
      BY <2>4, <1>g DEF T!ClaimWins, T!AtClaim
    <3>3. phase = "up" /\ (sent.kind = "fresh" => ~frozen) /\ \A q \in Requests : req[q].pc \notin Stretch
      BY <3>2, <1>0, ServingFacts DEF Stage
    <3>4. lease' # T!NoLease /\ lease'.req = r /\ lease'.boot = boot' /\ lease'.state = "reserved"
      BY <3>2, <1>0, ReservationFacts, Leases
    <3>5. Stage(r)'
      BY <3>1, <3>2, <3>3, <3>4, <2>s, <1>f DEF Stage, Stretch, Claimed, Over
    <3> QED BY <3>1, <3>2, <3>3, <3>5, <1>a DEF Claimed, Over, Stretch
  <2>5. CASE T!ClaimThrows(r)
    <3>1. /\ req'[r].pc \in {"abort", "done"} /\ req'[r].seen = req[r].seen
          /\ \A q \in Requests : q # r => req'[q] = req[q]
      BY <2>5, <2>r, <1>d DEF T!ClaimThrows, PCs
    <3>2. UNCHANGED <<phase, boot, frozen>> /\ T!Serving
      BY <2>5, <1>g DEF T!ClaimThrows
    <3>3. phase = "up" /\ \A q \in Requests : req[q].pc \notin Stretch
      BY <3>2, ServingFacts
    <3>4. Stage(r)'
      BY <3>1, <3>2, <3>3, <2>s, <1>f DEF Stage, Stretch, Claimed, Over
    <3> QED BY <3>1, <3>2, <3>3, <3>4, <1>a DEF Claimed, Over, Stretch
  <2>6. CASE T!ClaimLoses(r)
    <3>1. lease # T!NoLease /\ UNCHANGED <<phase, boot, frozen>> /\ T!Serving /\ req[r].pc \in {"ready", "created"}
      BY <2>6, <1>g DEF T!ClaimLoses, T!Claimable, T!AtClaim
    <3>2. phase = "up" /\ \A q \in Requests : req[q].pc \notin Stretch
      BY <3>1, ServingFacts
    <3>3. CASE sent.kind = "fresh"
      <4>1. req'[r].pc = "losing" /\ req'[r].seen = lease /\ \A q \in Requests : q # r => req'[q] = req[q]
        BY <2>6, <3>3, <1>0, <1>f, SeenFacts DEF T!ClaimLoses, PCs
      <4>2. lease.req \in Requests /\ req[lease.req].pc \in Claimed /\ (lease.state = "reserved" => lease.boot = boot)
        BY <3>1, <3>2, <1>0, <1>l DEF LeaseTrue
      <4>3. Stage(r)'
        BY <3>1, <3>2, <3>3, <4>1, <4>2, <1>f DEF Stage, Stretch, Claimed, Over
      <4> QED BY <3>1, <3>2, <4>1, <4>3, <1>a DEF Claimed, Over, Stretch
    <3>4. CASE sent.kind = "turn"
      <4>1. req'[r].pc = "done" /\ req'[r].seen = req[r].seen /\ \A q \in Requests : q # r => req'[q] = req[q]
        BY <2>6, <3>1, <3>4, <2>r, <2>q, <1>0, <1>f DEF T!ClaimLoses
      <4> QED BY <3>1, <3>2, <4>1, <1>e
    <3> QED BY <3>3, <3>4, <1>f
  <2>7. CASE T!Lose(r) \/ T!Abort(r)
    <3>0. T!Failed(r) \in Reply
      BY Replies
    <3>1. /\ req'[r].pc \in {"done", "abort"} /\ req'[r].seen = req[r].seen
          /\ \A q \in Requests : q # r => req'[q] = req[q]
      <4>1. CASE T!Abort(r)
        BY <4>1, <3>0, <2>r DEF T!Abort
      <4>2. CASE T!Lose(r)
        <5>1. req[r].seen # T!NoLease /\ req[r].seen \in LeaseOrNone
          BY <4>2, <1>0 DEF T!Lose, Stage
        <5>2. T!Goto(r, "abort") => /\ req'[r].pc = "abort" /\ req'[r].seen = req[r].seen
                                    /\ \A q \in Requests : q # r => req'[q] = req[q]
          BY <1>0, GotoFacts DEF PCs
        <5> QED BY <4>2, <5>1, <5>2, <2>r, <2>q DEF T!Lose
      <4> QED BY <2>7, <4>1, <4>2
    <3>2. UNCHANGED <<phase, boot, frozen>> /\ T!Serving
      BY <2>7 DEF T!Lose, T!Abort
    <3> QED BY <3>1, <3>2, <1>e, ServingFacts
  <2>8. CASE T!Barrier(r)
    <3>1. req'[r].pc = "attempting" /\ req'[r].seen = req[r].seen /\ \A q \in Requests : q # r => req'[q] = req[q]
      BY <2>8, <1>d DEF T!Barrier, PCs
    <3>2. /\ UNCHANGED <<phase, boot, frozen, result, mem, stamp, ranOn, fault, deferred, captured>>
          /\ req[r].pc = "claimed" /\ lease' = T!Attempting(lease)
      BY <2>8, <1>g DEF T!Barrier
    <3>3. /\ phase = "up" /\ lease # T!NoLease /\ lease.req = r /\ lease.boot = boot
          /\ lease.state = "reserved" /\ (sent.kind = "fresh" => ~frozen)
          /\ \A q \in Requests : q # r => req[q].pc \notin Stretch
      BY <3>2, <2>0, <1>0 DEF Stage, Stretch
    <3>4. lease' # T!NoLease /\ lease'.req = r /\ lease'.boot = boot' /\ lease'.state = "attempting"
      BY <3>2, <3>3, <1>0, AttemptingFacts, Leases
    <3>5. ~Shows(r)'
      <4>1. ~Shows(r)
        BY <3>3, <1>0 DEF Barred, Crossed
      <4> QED BY <3>2, <4>1 DEF Shows
    <3>6. Stage(r)'
      BY <3>1, <3>2, <3>3, <3>4, <3>5, <2>s, <1>f DEF Stage, Stretch, Claimed, Over
    <3> QED BY <3>1, <3>2, <3>3, <3>6, <1>a DEF Claimed, Over, Stretch
  <2>9. CASE T!BarrierThrows(r)
    <3>1. /\ req'[r].pc \in {"release", "done"} /\ req'[r].seen = req[r].seen
          /\ \A q \in Requests : q # r => req'[q] = req[q]
      BY <2>9, <2>r, <1>d DEF T!BarrierThrows, PCs
    <3>2. UNCHANGED <<phase, boot, frozen>> /\ req[r].pc = "claimed" /\ lease' \in {lease, T!Attempting(lease)}
      BY <2>9, <1>g DEF T!BarrierThrows
    <3>3. /\ phase = "up" /\ lease # T!NoLease /\ lease.req = r /\ lease.boot = boot
          /\ \A q \in Requests : q # r => req[q].pc \notin Stretch
      BY <3>2, <2>0 DEF Stretch
    <3>4. lease' # T!NoLease /\ lease'.req = r /\ lease'.boot = boot'
      BY <3>2, <3>3, <1>0, AttemptingFacts, Leases
    <3>6. Stage(r)'
      BY <3>1, <3>2, <3>3, <3>4, <2>s, <1>f DEF Stage, Stretch, Claimed, Over
    <3> QED BY <3>1, <3>2, <3>3, <3>6, <1>a DEF Claimed, Over, Stretch
  <2>10. CASE T!Release(r) \/ T!Dispatch(r) \/ T!DispatchDeferred(r) \/ T!DispatchFails(r)
    <3>0. T!Failed(r) \in Reply /\ T!Queued(r) \in Reply
      BY Replies
    <3>1. /\ req'[r].pc \in Over /\ req'[r].seen = req[r].seen
          /\ \A q \in Requests : q # r => req'[q] = req[q]
      BY <2>10, <3>0, <2>r, <1>d DEF T!Release, T!Dispatch, T!DispatchDeferred, T!DispatchFails, PCs, Over
    <3>2. UNCHANGED <<phase, boot, frozen>> /\ req[r].pc \in Stretch
      BY <2>10, <1>g DEF T!Release, T!Dispatch, T!DispatchDeferred, T!DispatchFails, Stretch
    <3>3. Stage(r)'
      BY <3>1, <3>2, <2>0, <2>s, <1>f DEF Stage, Stretch, Claimed, Over
    <3> QED BY <3>1, <3>2, <3>3, <2>0, <1>a DEF Claimed, Over, Stretch
  <2> QED
    BY <1>1, <2>1, <2>2, <2>3, <2>4, <2>5, <2>6, <2>7, <2>8, <2>9, <2>10 DEF T!RequestStep
<1>2. ASSUME NEW r \in Requests, T!FinalOutput(r) \/ T!TurnFails(r) \/ T!PollHeals(r) PROVE Stages'
  BY <1>2, <1>b DEF T!FinalOutput, T!TurnFails, T!PollHeals
<1>3. ASSUME NEW s \in T!Sessions, T!WorkerExit(s) \/ T!CliExit(s) \/ T!FailClose(s) \/ T!Wake(s) PROVE Stages'
  BY <1>3, <1>b DEF T!WorkerExit, T!CliExit, T!FailClose, T!Wake
<1>4. ASSUME NEW r \in Requests, T!DeferredFork(r) PROVE Stages'
  BY <1>4, <1>b DEF T!DeferredFork
<1>5. CASE T!Unfreeze
  BY <1>5, <1>b DEF T!Unfreeze
<1>6. CASE T!Freeze
  <2>1. /\ UNCHANGED <<phase, boot, req>>
        /\ \A q \in Requests : req[q].pc \notin Stretch /\ (sent.kind = "fresh" => req[q].pc \notin {"ready", "created"})
    BY <1>6, <1>f, ServingFacts DEF T!Freeze
  <2> QED BY <1>0, <1>f, <2>1 DEF Stages, Stage, Stretch
<1>7. CASE T!Crash
  <2>1. \A q \in Requests : /\ req'[q].pc = IF req[q].pc = "idle" THEN "idle" ELSE "done"
                            /\ req'[q].seen = req[q].seen
    BY <1>7, <1>0 DEF T!Crash, Request
  <2>2. \A q \in Requests : req[q].pc \in Claimed => req'[q].pc \in Claimed
    BY <2>1 DEF Claimed, Stretch, Over
  <2>3. \A q \in Requests : req[q].seen # T!NoLease => req[req[q].seen.req].pc \in Claimed /\ req[q].seen.req \in Requests
    BY <1>0, <1>l DEF Stage
  <2> QED BY <2>1, <2>2, <2>3 DEF Stages, Stage, Stretch
<1>8. CASE T!Boot \/ T!Reconcile \/ T!ReconcileThrows \/ T!RestoreThrows \/ T!Restore
  <2>1. req' = req /\ phase # "up"
    BY <1>8 DEF T!Boot, T!Reconcile, T!ReconcileThrows, T!RestoreThrows, T!Restore
  <2>2. \A q \in Requests : req[q].pc \in {"idle", "done"}
    BY <1>0, <2>1 DEF Stage
  <2> QED BY <1>0, <2>1, <2>2 DEF Stages, Stage, Stretch
<1> QED
  BY <1>1, <1>2, <1>3, <1>4, <1>5, <1>6, <1>7, <1>8 DEF T!Next, T!WorkerStep

-----------------------------------------------------------------------------
(* Counters, handed-over inputs and outcomes only grow. *)
LEMMA Grows ==
    ASSUME TriggerInv, T!Next
    PROVE  /\ used'.faults = 0 => used.faults = 0
           /\ used'.freezes = 0 => used.freezes = 0
           /\ used'.soft = 0 => used.soft = 0
           /\ \A t \in Requests : ranOn[t] # 0 => ranOn'[t] # 0
           /\ used' \in Counts /\ used \in Counts
<1>0. /\ Types /\ Runs /\ Stages /\ DiskTypes /\ used \in Counts /\ CallTypes
      /\ ranOn \in [Requests -> Nat] /\ gen \in [T!Sessions -> Nat]
  BY DEF TriggerInv, Types, CallTypes, MemoryTypes, DiskTypes
<1>c. used' \in Counts
  BY <1>0, CallTypesStep DEF CallTypes
<1>d. T!Fails => used'.faults > 0 /\ used'.freezes = used.freezes /\ used'.soft = used.soft
  BY <1>0, FailsFacts
<1>e. ASSUME NEW n, T!SoftSave(n)
      PROVE  used'.faults = used.faults /\ used'.freezes = used.freezes /\ (used'.soft = 0 => used.soft = 0)
  BY <1>0, <1>e DEF T!SoftSave, Counts
<1>f. ASSUME used' = used \/ T!Fails \/ (\E n : T!SoftSave(n))
      PROVE  /\ used'.faults = 0 => used.faults = 0
             /\ used'.freezes = 0 => used.freezes = 0
             /\ used'.soft = 0 => used.soft = 0
  BY <1>d, <1>e, <1>f
<1>1. ASSUME NEW r \in Requests, T!RequestStep(r)
      PROVE  /\ used'.faults = 0 => used.faults = 0
             /\ used'.freezes = 0 => used.freezes = 0
             /\ used'.soft = 0 => used.soft = 0
             /\ \A t \in Requests : ranOn[t] # 0 => ranOn'[t] # 0
  <2>0. T!DispatchGen(r) \in Nat /\ T!DispatchGen(r) > 0
    BY <1>0, DispatchGenFacts
  <2>1. \A t \in Requests : ranOn[t] # 0 => ranOn'[t] # 0
    BY <1>1, <1>0, <2>0 DEF T!RequestStep, T!CheckPasses, T!CheckRefuses, T!CheckHits, T!CheckHeals,
     T!CreateSession, T!LostSession, T!ClaimWins, T!ClaimThrows, T!ClaimLoses, T!Lose, T!Barrier,
     T!BarrierThrows, T!Release, T!Dispatch, T!DispatchDeferred, T!DispatchFails, T!Abort
  <2>2. CASE T!DispatchFails(r)
    <3>1. used'.faults > 0 /\ used'.freezes = used.freezes /\ used'.soft = used.soft
      BY <2>2, <1>0 DEF T!DispatchFails, Counts
    <3> QED BY <2>1, <3>1
  <2>3. CASE ~T!DispatchFails(r)
    <3>1. used' = used \/ T!Fails \/ (\E n : T!SoftSave(n))
      BY <1>1, <2>3 DEF T!RequestStep, T!CheckPasses, T!CheckRefuses, T!CheckHits, T!CheckHeals,
       T!CreateSession, T!LostSession, T!ClaimWins, T!ClaimThrows, T!ClaimLoses, T!Lose, T!Barrier,
       T!BarrierThrows, T!Release, T!Dispatch, T!DispatchDeferred, T!Abort, T!Close, T!CloseThrows, T!SavesPending
    <3> QED BY <2>1, <3>1, <1>f
  <2> QED BY <2>2, <2>3
<1>2. ASSUME ~\E r \in Requests : T!RequestStep(r)
      PROVE  /\ used'.faults = 0 => used.faults = 0
             /\ used'.freezes = 0 => used.freezes = 0
             /\ used'.soft = 0 => used.soft = 0
  <2>1. CASE T!Freeze
    BY <2>1, <1>0 DEF T!Freeze, Counts
  <2>2. CASE ~T!Freeze
    <3>1. used' = used \/ T!Fails \/ (\E n : T!SoftSave(n))
      BY <1>2, <2>2 DEF T!Next, T!WorkerStep, T!FinalOutput, T!TurnFails, T!PollHeals, T!WorkerExit,
         T!CliExit, T!FailClose, T!Close, T!CloseThrows, T!Wake, T!Converge, T!Unfreeze,
         T!DeferredFork, T!Crash, T!Boot, T!Reconcile, T!ReconcileThrows, T!RestoreThrows, T!Restore
    <3> QED BY <3>1, <1>f
  <2> QED BY <2>1, <2>2
<1>3. ASSUME ~\E r \in Requests : T!RequestStep(r)
      PROVE  \A t \in Requests : ranOn[t] # 0 => ranOn'[t] # 0
  <2>1. ASSUME NEW r \in Requests, T!DeferredFork(r)
        PROVE  \A t \in Requests : ranOn[t] # 0 => ranOn'[t] # 0
    <3>1. gen[T!SessionOf(r)] + 1 # 0
      BY <1>0, SessionFacts
    <3> QED BY <2>1, <3>1, <1>0 DEF T!DeferredFork
  <2>2. CASE ~\E r \in Requests : T!DeferredFork(r)
    <3>1. ranOn' = ranOn
      BY <1>3, <2>2 DEF T!Next, T!WorkerStep, T!FinalOutput, T!TurnFails, T!PollHeals, T!WorkerExit,
         T!CliExit, T!FailClose, T!Wake, T!Freeze, T!Unfreeze, T!Crash, T!Boot,
         T!Reconcile, T!ReconcileThrows, T!RestoreThrows, T!Restore
    <3> QED BY <3>1
  <2> QED BY <2>1, <2>2
<1> QED
  BY <1>0, <1>c, <1>1, <1>2, <1>3

(* The lease stays true. *)
LEMMA LeaseTrueStep == TriggerInv /\ T!Next => LeaseTrue'
<1> SUFFICES ASSUME TriggerInv, T!Next PROVE LeaseTrue'
  OBVIOUS
<1>0. /\ Types /\ Barred /\ Stages /\ LeaseTrue /\ Runs /\ DiskTypes /\ CallTypes
      /\ lease \in LeaseOrNone /\ req \in [Requests -> Request]
      /\ result \in [Requests -> {"none", "pending"} \cup T!Terminal]
      /\ \A q \in Requests : Stage(q)
  BY DEF TriggerInv, Types, DiskTypes, CallTypes, Stages
<1>u. /\ used'.faults = 0 => used.faults = 0
      /\ Undecided' => Undecided
      /\ \A t \in Requests : ranOn[t] # 0 => ranOn'[t] # 0
  BY Grows DEF Undecided
<1>l. lease # T!NoLease => lease \in LeaseRec /\ lease.req \in Requests /\ lease.state \in {"reserved", "attempting"}
  BY <1>0, Leases
<1>c. UNCHANGED T!disk => UNCHANGED <<lease, result>>
  BY DEF T!disk
<1>e. ASSUME NEW t \in Requests, NEW u \in Requests, result[u] \in T!Terminal
      PROVE  /\ T!RecordFailed(result, t)[u] \in T!Terminal /\ T!RecordTerminal(result, t)[u] \in T!Terminal
             /\ T!RecordCompleted(result, t)[u] \in T!Terminal
  BY <1>e, <1>0 DEF T!RecordFailed, T!RecordTerminal, T!RecordCompleted, T!Terminal
<1>t. \A t \in Requests : T!RecordFailed(result, t)[t] \in T!Terminal
  BY <1>0 DEF T!RecordFailed, T!Terminal
<1>a. ASSUME T!Serving, UNCHANGED <<lease, phase, boot>>,
             \A q \in Requests : req[q].pc \in Over => req'[q].pc \in Over,
             \A q \in Requests : result[q] \in T!Terminal => result'[q] \in T!Terminal
      PROVE  LeaseTrue'
  <2>1. ASSUME lease # T!NoLease
        PROVE  req[lease.req].pc \in Over /\ req[lease.req].pc \notin {"claimed", "attempting"}
    BY <1>0, <1>a, <1>l, <2>1, ServingFacts DEF LeaseTrue, Claimed, Stretch
  <2> QED BY <1>0, <1>a, <1>l, <1>u, <2>1 DEF LeaseTrue, Claimed
<1>d. ASSUME NEW r \in Requests, NEW p \in PCs, T!Goto(r, p)
      PROVE  req'[r].pc = p /\ \A q \in Requests : q # r => req'[q] = req[q]
  BY <1>d, <1>0, GotoFacts
<1>1. ASSUME NEW r \in Requests, T!RequestStep(r) PROVE LeaseTrue'
  <2>0. ASSUME req[r].pc \in Stretch
        PROVE  phase = "up" /\ lease # T!NoLease /\ lease.req = r /\ lease.boot = boot /\ lease \in LeaseRec
    BY <2>0, <1>0, <1>l DEF Stage, Stretch
  <2>d. \A p \in PCs : T!Goto(r, p) => req'[r].pc = p /\ \A q \in Requests : q # r => req'[q] = req[q]
    BY <1>d
  <2>a. \A a : T!Answer(r, a) => T!Goto(r, "done")
    BY DEF T!Answer
  <2>1. CASE \/ T!CheckPasses(r) \/ T!CheckRefuses(r) \/ T!LostSession(r) \/ T!CheckHits(r)
             \/ T!ClaimLoses(r) \/ T!CreateSession(r) \/ T!Lose(r) \/ T!Abort(r)
    <3>1. T!Serving /\ UNCHANGED <<lease, phase, boot, result>>
      BY <2>1, <1>c DEF T!CheckPasses, T!CheckRefuses, T!LostSession, T!CheckHits, T!ClaimLoses,
         T!CreateSession, T!Lose, T!Abort
    <3>2. \A q \in Requests : req[q].pc \in Over => req'[q].pc \in Over
      <4>1. CASE T!CheckPasses(r) \/ (T!ClaimLoses(r) /\ T!kind = "fresh")
        <5>1. req[r].pc \notin Over /\ \E v : req' = [req EXCEPT ![r] = v]
          BY <4>1 DEF T!CheckPasses, T!ClaimLoses, T!AtClaim, Over
        <5>2. \A q \in Requests : q # r => req'[q] = req[q]
          BY <5>1, <1>0
        <5> QED BY <5>1, <5>2
      <4>2. CASE T!CreateSession(r)
        BY <4>2, <2>d DEF T!CreateSession, Over, PCs
      <4>3. CASE \/ T!CheckRefuses(r) \/ T!LostSession(r) \/ T!CheckHits(r)
                 \/ (T!ClaimLoses(r) /\ T!kind # "fresh") \/ T!Lose(r) \/ T!Abort(r)
        <5>1. T!Goto(r, "done") \/ T!Goto(r, "abort")
          BY <4>3, <2>a DEF T!CheckRefuses, T!LostSession, T!CheckHits, T!ClaimLoses, T!Lose, T!Abort
        <5> QED BY <5>1, <2>d DEF Over, PCs
      <4> QED BY <2>1, <4>1, <4>2, <4>3
    <3> QED BY <3>1, <3>2, <1>a
  <2>2. CASE T!CheckHeals(r)
    <3>1. lease.req \in Requests
      BY <2>2, <1>l DEF T!CheckHeals
    <3>2. T!Serving /\ UNCHANGED <<lease, phase, boot>> /\ T!Goto(r, "done")
      BY <2>2, <2>a DEF T!CheckHeals
    <3>3. \A q \in Requests : result[q] \in T!Terminal => result'[q] \in T!Terminal
      BY <2>2, <3>1, <1>e DEF T!CheckHeals
    <3>4. \A q \in Requests : req[q].pc \in Over => req'[q].pc \in Over
      BY <3>2, <2>d DEF Over, PCs
    <3> QED BY <3>2, <3>3, <3>4, <1>a
  <2>3. CASE T!ClaimWins(r)
    <3>1. req'[r].pc = "claimed" /\ lease' = T!Reservation(r) /\ phase' = phase /\ boot' = boot /\ phase = "up"
      BY <2>3, <2>d, ServingFacts DEF T!ClaimWins, PCs
    <3>2. lease'.req = r /\ lease'.state = "reserved" /\ lease'.boot = boot'
      BY <3>1, <1>0, ReservationFacts
    <3> QED BY <3>1, <3>2 DEF LeaseTrue, Claimed, Stretch
  <2>4. CASE T!ClaimThrows(r)
    <3>1. /\ T!Serving /\ UNCHANGED <<phase, boot, result>> /\ lease' \in {lease, T!Reservation(r)}
          /\ req'[r].pc \in Over /\ \A q \in Requests : q # r => req'[q] = req[q]
      BY <2>4, <2>a, <2>d DEF T!ClaimThrows, PCs, Over
    <3>2. CASE lease' = lease
      BY <3>1, <3>2, <1>a
    <3>3. CASE lease' = T!Reservation(r)
      <4>1. lease'.req = r /\ lease'.state = "reserved" /\ lease'.boot = boot'
        BY <3>1, <3>3, <1>0, ReservationFacts
      <4>2. used'.faults > 0 /\ used'.faults \in Nat /\ phase' = "up"
        BY <2>4, <3>1, <1>0, FailsFacts, ServingFacts DEF T!ClaimThrows, Counts
      <4> QED BY <3>1, <4>1, <4>2 DEF LeaseTrue, Claimed
    <3> QED BY <3>1, <3>2, <3>3
  <2>5. CASE T!Barrier(r)
    <3>1. req'[r].pc = "attempting" /\ req[r].pc = "claimed" /\ lease' = T!Attempting(lease) /\ phase' = phase
      BY <2>5, <2>d DEF T!Barrier, PCs
    <3>2. lease'.req = r /\ lease'.state = "attempting"
      BY <3>1, <2>0, AttemptingFacts DEF Stretch
    <3> QED BY <3>1, <3>2, <2>0 DEF LeaseTrue, Claimed, Stretch
  <2>6. CASE T!BarrierThrows(r)
    <3>1. /\ req'[r].pc \in {"release", "done"} /\ req[r].pc = "claimed"
          /\ lease' \in {lease, T!Attempting(lease)} /\ UNCHANGED <<phase, boot>>
      BY <2>6, <2>a, <2>d DEF T!BarrierThrows, PCs
    <3>2. lease'.req = r /\ lease'.boot = boot' /\ phase' = "up"
      BY <3>1, <2>0, AttemptingFacts DEF Stretch
    <3>3. used'.faults > 0 /\ used'.faults \in Nat
      BY <2>6, <1>0, FailsFacts DEF T!BarrierThrows, Counts
    <3> QED BY <3>1, <3>2, <3>3 DEF LeaseTrue, Claimed, Stretch, Over, Undecided
  <2>7. CASE T!Release(r)
    <3>1. /\ req'[r].pc \in {"abort", "abortCrossed", "abortFailed"} /\ req[r].pc = "release" /\ UNCHANGED <<phase, boot>>
          /\ phase = "up" /\ lease.req = r /\ lease.boot = boot
      BY <2>7, <2>0, <2>d DEF T!Release, PCs, Stretch
    <3>2. CASE lease' = T!NoLease
      BY <3>2 DEF LeaseTrue
    <3>3. CASE lease' = lease
      <4>1. used.faults = 0 => lease.state # "reserved"
        BY <3>1, <2>0, <1>0 DEF LeaseTrue, Stretch
      <4>2. CASE result' = T!RecordFailed(result, r)
        BY <3>1, <3>3, <4>1, <4>2, <1>t, <1>u DEF LeaseTrue, Claimed, Over
      <4>3. CASE T!Fails
        <5>1. used'.faults > 0 /\ used'.faults \in Nat
          BY <4>3, <1>0, FailsFacts DEF Counts
        <5> QED BY <3>1, <3>3, <5>1 DEF LeaseTrue, Claimed, Over, Undecided
      <4>4. CASE lease' = T!NoLease
        BY <4>4 DEF LeaseTrue
      <4> QED BY <2>7, <4>2, <4>3, <4>4 DEF T!Release
    <3> QED BY <2>7, <3>2, <3>3 DEF T!Release
  <2>8. CASE T!Dispatch(r) \/ T!DispatchDeferred(r) \/ T!DispatchFails(r)
    <3>1. req'[r].pc \in Over /\ req[r].pc = "attempting" /\ UNCHANGED <<phase, boot, lease>>
      BY <2>8, <2>a, <2>d DEF T!Dispatch, T!DispatchDeferred, T!DispatchFails, PCs, Over
    <3>2. phase = "up" /\ lease # T!NoLease /\ lease.req = r /\ lease.state = "attempting"
      BY <3>1, <2>0, <1>0 DEF Stage, Stretch
    <3>3. CASE T!Dispatch(r)
      <4>1. ranOn'[r] # 0
        <5>1. T!DispatchGen(r) # 0
          BY <1>0, DispatchGenFacts
        <5> QED BY <3>3, <5>1, <1>0 DEF T!Dispatch, Types, MemoryTypes
      <4> QED BY <3>1, <3>2, <4>1 DEF LeaseTrue, Claimed
    <3>4. CASE T!DispatchDeferred(r)
      <4>1. used.freezes > 0 /\ used.freezes \in Nat
        BY <3>4, <1>0 DEF T!DispatchDeferred, Runs, CallTypes, Counts
      <4> QED BY <3>1, <3>2, <4>1, <1>u DEF LeaseTrue, Claimed, Undecided
    <3>5. CASE T!DispatchFails(r)
      <4>1. used'.faults > 0
        BY <3>5, <1>0 DEF T!DispatchFails, CallTypes, Counts
      <4> QED BY <3>1, <3>2, <4>1 DEF LeaseTrue, Claimed, Undecided
    <3> QED BY <2>8, <3>3, <3>4, <3>5
  <2> QED
    BY <1>1, <2>1, <2>2, <2>3, <2>4, <2>5, <2>6, <2>7, <2>8 DEF T!RequestStep
<1>2. ASSUME NEW r \in Requests, T!FinalOutput(r) \/ T!TurnFails(r) \/ T!PollHeals(r) PROVE LeaseTrue'
  <2>1. \A q \in Requests : result[q] \in T!Terminal => result'[q] \in T!Terminal
    BY <1>2, <1>e DEF T!FinalOutput, T!TurnFails, T!PollHeals, T!SoftSave
  <2> QED BY <1>2, <2>1, <1>a DEF T!FinalOutput, T!TurnFails, T!PollHeals
<1>3. ASSUME NEW s \in T!Sessions, T!WorkerExit(s) \/ T!CliExit(s) PROVE LeaseTrue'
  <2>1. \A q \in Requests : result[q] \in T!Terminal => result'[q] \in T!Terminal
    <3>1. T!Converge(s)
      BY <1>3 DEF T!WorkerExit, T!CliExit
    <3> QED BY <3>1, <1>e DEF T!Converge
  <2> QED BY <1>3, <2>1, <1>a DEF T!WorkerExit, T!CliExit
<1>4. ASSUME NEW s \in T!Sessions, T!FailClose(s) \/ T!Wake(s) PROVE LeaseTrue'
  BY <1>4, <1>a DEF T!FailClose, T!Wake
<1>5. ASSUME NEW r \in Requests, T!DeferredFork(r) PROVE LeaseTrue'
  BY <1>5, <1>a DEF T!DeferredFork
<1>6. CASE T!Freeze \/ T!Unfreeze
  BY <1>6, <1>a, <1>c DEF T!Freeze, T!Unfreeze
<1>7. CASE T!Crash
  <2>1. \A q \in Requests : req'[q].pc = IF req[q].pc = "idle" THEN "idle" ELSE "done"
    BY <1>7, <1>0 DEF T!Crash, Request
  <2>2. phase' = "down" /\ lease' = lease
    BY <1>7, <1>c DEF T!Crash
  <2>3. lease # T!NoLease => req'[lease.req].pc \in Claimed
    BY <1>0, <1>l, <2>1 DEF LeaseTrue, Claimed, Stretch, Over
  <2> QED BY <2>2, <2>3 DEF LeaseTrue
<1>8. CASE T!Boot \/ T!ReconcileThrows \/ T!RestoreThrows
  <2>1. phase' \notin {"sweep", "up"} /\ lease' = lease /\ req' = req
    BY <1>8, <1>c DEF T!Boot, T!ReconcileThrows, T!RestoreThrows
  <2> QED BY <1>0, <2>1 DEF LeaseTrue
<1>9. CASE T!Reconcile
  <2>0. phase' = "sweep" /\ req' = req
    BY <1>9 DEF T!Reconcile
  <2>1. CASE lease = T!NoLease
    BY <1>9, <2>1 DEF T!Reconcile, LeaseTrue
  <2>2. CASE lease # T!NoLease /\ lease.state = "reserved"
    <3>1. result[lease.req] = "none"
      BY <2>2, <1>0, <1>l DEF Barred, Shows, Crossed
    <3> QED BY <1>9, <2>2, <3>1 DEF T!Reconcile, LeaseTrue, T!Terminal
  <2>3. CASE lease # T!NoLease /\ lease.state = "attempting"
    <3>1. lease' = lease
      BY <1>9, <2>3 DEF T!Reconcile
    <3>2. result'[lease.req] \in T!Terminal
      BY <1>9, <2>3, <1>l, <1>t DEF T!Reconcile
    <3> QED BY <2>0, <2>3, <3>1, <3>2, <1>0 DEF LeaseTrue
  <2> QED BY <2>1, <2>2, <2>3, <1>l
<1>10. CASE T!Restore
  <2>1. phase = "sweep" /\ phase' = "up" /\ UNCHANGED <<lease, result, req, ranOn, used>>
    BY <1>10 DEF T!Restore
  <2>2. lease # T!NoLease => lease.state = "attempting"
    BY <1>0, <2>1 DEF LeaseTrue
  <2>3. Undecided' <=> Undecided
    BY <2>1 DEF Undecided
  <2> QED BY <1>0, <2>1, <2>2, <2>3 DEF LeaseTrue
<1> QED
  BY <1>1, <1>2, <1>3, <1>4, <1>5, <1>6, <1>7, <1>8, <1>9, <1>10 DEF T!Next, T!WorkerStep

-----------------------------------------------------------------------------
(* What a step does to the workers. *)
LEMMA LiveSteps ==
    ASSUME T!Next
    PROVE  \/ UNCHANGED <<live, gen>>
           \/ live' \subseteq live /\ gen' = gen
           \/ \E r \in Requests : T!Dispatch(r) \/ T!DeferredFork(r)
           \/ \E s \in T!Sessions : T!WorkerExit(s) \/ T!Wake(s)
<1>a. UNCHANGED T!memory => live' = live
  BY DEF T!memory
<1>b. UNCHANGED T!disk => gen' = gen
  BY DEF T!disk
<1>c. ASSUME NEW s, T!Close(s) \/ T!CloseThrows(s) PROVE live' \subseteq live
  BY <1>c DEF T!Close, T!CloseThrows
<1>1. ASSUME NEW r \in Requests, T!RequestStep(r)
      PROVE  UNCHANGED <<live, gen>> \/ (live' \subseteq live /\ gen' = gen) \/ T!Dispatch(r)
  <2>1. CASE T!Lose(r) \/ T!Abort(r)
    BY <2>1, <1>c DEF T!Lose, T!Abort
  <2>2. CASE ~(T!Lose(r) \/ T!Abort(r) \/ T!Dispatch(r))
    BY <1>1, <2>2, <1>a, <1>b DEF T!RequestStep, T!CheckPasses, T!CheckRefuses, T!CheckHits, T!CheckHeals,
     T!CreateSession, T!LostSession, T!ClaimWins, T!ClaimThrows, T!ClaimLoses, T!Barrier,
     T!BarrierThrows, T!Release, T!DispatchDeferred, T!DispatchFails
  <2> QED BY <2>1, <2>2
<1>2. ASSUME NEW s \in T!Sessions, T!CliExit(s) \/ T!FailClose(s)
      PROVE  UNCHANGED <<live, gen>> \/ (live' \subseteq live /\ gen' = gen)
  BY <1>2, <1>c DEF T!CliExit, T!FailClose
<1>3. ASSUME NEW r \in Requests, T!FinalOutput(r) \/ T!TurnFails(r) \/ T!PollHeals(r) PROVE UNCHANGED <<live, gen>>
  BY <1>3 DEF T!FinalOutput, T!TurnFails, T!PollHeals
<1>4. CASE T!Freeze \/ T!Unfreeze \/ T!Boot \/ T!Reconcile \/ T!ReconcileThrows \/ T!RestoreThrows \/ T!Restore
  BY <1>4, <1>a, <1>b DEF T!Freeze, T!Unfreeze, T!Boot, T!Reconcile, T!ReconcileThrows, T!RestoreThrows, T!Restore
<1>5. CASE T!Crash
  BY <1>5, <1>b DEF T!Crash
<1> QED
  BY <1>1, <1>2, <1>3, <1>4, <1>5 DEF T!Next, T!WorkerStep

(* The parts of Runs, by what they are about: the live workers, *)
Workers == \A s \in live : gen[s] > 0 /\ (sent.kind = "fresh" => ranOn[s] # 0)
(* completed turns had their input, *)
Outcomes == \A t \in Requests :
               result[t] = "completed" \/ mem[t] = "completed" \/ t \in captured => ranOn[t] # 0
(* a captured output is the result unless a save was lost, *)
Outputs == used.soft = 0 => \A t \in captured : result[t] = "completed"
(* and forks wait only for a freeze. *)
Waits == /\ deferred # {} => sent.kind = "turn" /\ used.freezes > 0
         /\ frozen => used.freezes > 0

(* A live worker has a generation, and in a session of its own the input. *)
LEMMA WorkersStep == TriggerInv /\ T!Next => Workers'
<1> SUFFICES ASSUME TriggerInv, T!Next PROVE Workers'
  OBVIOUS
<1>0. /\ Types /\ Runs /\ DiskTypes /\ live \subseteq T!Sessions /\ gen \in [T!Sessions -> Nat]
      /\ ranOn \in [Requests -> Nat] /\ sent' = sent /\ sent.kind \in {"fresh", "turn"}
      /\ deferred # {} => sent.kind = "turn"
      /\ \A s \in live : gen[s] > 0 /\ (sent.kind = "fresh" => ranOn[s] # 0)
  BY Fixed DEF TriggerInv, Types, DiskTypes, MemoryTypes, Runs
<1>1. /\ \A t \in Requests : ranOn[t] # 0 => ranOn'[t] # 0
      /\ sent.kind = "fresh" => live \subseteq Requests
  BY <1>0, Grows, SessionFacts DEF T!Sessions, T!kind
<1>2. CASE UNCHANGED <<live, gen>> \/ (live' \subseteq live /\ gen' = gen)
  BY <1>0, <1>1, <1>2 DEF Workers
<1>3. ASSUME NEW r \in Requests, T!Dispatch(r) PROVE Workers'
  <2>1. T!DispatchGen(r) \in Nat /\ T!DispatchGen(r) > 0 /\ T!SessionOf(r) \in T!Sessions
        /\ (sent.kind = "fresh" => T!SessionOf(r) = r)
    BY <1>0, DispatchGenFacts, SessionFacts
  <2>2. /\ live' = live \cup {T!SessionOf(r)} /\ gen'[T!SessionOf(r)] = T!DispatchGen(r)
        /\ \A s \in T!Sessions : s # T!SessionOf(r) => gen'[s] = gen[s]
        /\ ranOn'[r] = T!DispatchGen(r)
    BY <1>0, <1>3, <2>1 DEF T!Dispatch
  <2> QED BY <1>0, <1>1, <2>1, <2>2 DEF Workers
<1>4. ASSUME NEW r \in Requests, T!DeferredFork(r) PROVE Workers'
  <2>1. sent.kind = "turn" /\ T!SessionOf(r) \in T!Sessions
    BY <1>0, <1>4, SessionFacts DEF T!DeferredFork
  <2>2. /\ live' = live \cup {T!SessionOf(r)} /\ gen'[T!SessionOf(r)] = gen[T!SessionOf(r)] + 1
        /\ \A s \in T!Sessions : s # T!SessionOf(r) => gen'[s] = gen[s]
    BY <1>0, <1>4, <2>1 DEF T!DeferredFork
  <2> QED BY <1>0, <2>1, <2>2 DEF Workers
<1>5. ASSUME NEW s \in T!Sessions, T!WorkerExit(s) PROVE Workers'
  <2>1. live' = live \ {s} /\ \A u \in T!Sessions : u # s => gen'[u] = gen[u]
    BY <1>0, <1>5 DEF T!WorkerExit
  <2> QED BY <1>0, <1>1, <2>1 DEF Workers
<1>6. ASSUME NEW s \in T!Sessions, T!Wake(s) PROVE Workers'
  <2>1. /\ live' = live \cup {s} /\ \A u \in T!Sessions : u # s => gen'[u] = gen[u]
        /\ gen'[s] = gen[s] + 1 /\ sent.kind = "turn"
    BY <1>0, <1>6 DEF T!Wake, T!kind
  <2> QED BY <1>0, <2>1 DEF Workers
<1> QED
  BY <1>2, <1>3, <1>4, <1>5, <1>6, LiveSteps

(* What a step does to results and captured outputs. *)
LEMMA OutcomeSteps ==
    ASSUME TriggerInv, T!Next
    PROVE  \/ /\ captured' = captured
              /\ \A t \in Requests : /\ result'[t] = "completed" => result[t] = "completed"
                                     /\ mem'[t] = "completed" => mem[t] = "completed"
                                     /\ t \in captured /\ result[t] = "completed" => result'[t] = "completed"
           \/ \E r \in Requests : T!FinalOutput(r)
<1>0. /\ result \in [Requests -> {"none", "pending"} \cup T!Terminal]
      /\ mem \in [Requests -> {"none", "pending", "completed", "failed"}]
      /\ lease \in LeaseOrNone /\ Stages /\ Runs
  BY DEF TriggerInv, Types, DiskTypes, MemoryTypes
<1> DEFINE Keeps(res) == \A t \in Requests : res[t] = "completed" <=> result[t] = "completed"
<1>a. Keeps(result) /\ \A t \in Requests : Keeps(T!RecordFailed(result, t)) /\ Keeps(T!RecordTerminal(result, t))
  BY <1>0 DEF T!RecordFailed, T!RecordTerminal
<1>b. ASSUME captured' = captured, Keeps(result'), \A t \in Requests : mem'[t] = "completed" => mem[t] = "completed"
      PROVE  /\ captured' = captured
             /\ \A t \in Requests : /\ result'[t] = "completed" => result[t] = "completed"
                                    /\ mem'[t] = "completed" => mem[t] = "completed"
                                    /\ t \in captured /\ result[t] = "completed" => result'[t] = "completed"
  BY <1>b
<1>c. UNCHANGED T!memory => mem' = mem
  BY DEF T!memory
<1>d. UNCHANGED T!disk => result' = result
  BY DEF T!disk
<1>l. lease # T!NoLease => lease.req \in Requests
  BY <1>0, Leases
<1>e. ASSUME NEW s, T!Close(s) \/ T!CloseThrows(s) PROVE \A t \in Requests : mem'[t] = "completed" => mem[t] = "completed"
  BY <1>e DEF T!Close, T!CloseThrows
<1>1. ASSUME NEW r \in Requests, T!RequestStep(r)
      PROVE  /\ captured' = captured
             /\ \A t \in Requests : /\ result'[t] = "completed" => result[t] = "completed"
                                    /\ mem'[t] = "completed" => mem[t] = "completed"
                                    /\ t \in captured /\ result[t] = "completed" => result'[t] = "completed"
  <2>1. CASE \/ T!CheckPasses(r) \/ T!CheckRefuses(r) \/ T!LostSession(r) \/ T!CheckHits(r)
             \/ T!ClaimLoses(r) \/ T!CreateSession(r) \/ T!ClaimWins(r) \/ T!ClaimThrows(r) \/ T!Barrier(r)
             \/ T!BarrierThrows(r)
    <3>1. UNCHANGED <<captured, result, mem>>
      BY <2>1, <1>c, <1>d DEF T!CheckPasses, T!CheckRefuses, T!LostSession, T!CheckHits, T!ClaimLoses,
         T!CreateSession, T!ClaimWins, T!ClaimThrows, T!Barrier, T!BarrierThrows
    <3> QED BY <3>1
  <2>2. CASE T!CheckHeals(r)
    <3>1. Keeps(result')
      BY <2>2, <1>a, <1>l DEF T!CheckHeals
    <3>2. captured' = captured /\ \A t \in Requests : mem'[t] = "completed" => mem[t] = "completed"
      BY <2>2, <1>0, <1>l DEF T!CheckHeals
    <3> QED BY <3>1, <3>2, <1>b
  <2>3. CASE T!Release(r)
    <3>1. Keeps(result') /\ captured' = captured /\ mem' = mem
      BY <2>3, <1>a, <1>c DEF T!Release
    <3> QED BY <3>1, <1>b
  <2>4. CASE T!Dispatch(r) \/ T!DispatchDeferred(r) \/ T!DispatchFails(r)
    <3>1. ~Shows(r)
      BY <2>4, <1>0 DEF T!Dispatch, T!DispatchDeferred, T!DispatchFails, Stages, Stage
    <3>2. result[r] = "none" /\ r \notin captured /\ captured' = captured
      BY <2>4, <3>1 DEF Shows, T!Dispatch, T!DispatchDeferred, T!DispatchFails
    <3>3. (\A t \in Requests : t # r => result'[t] = result[t]) /\ result'[r] # "completed"
      BY <2>4, <3>2, <1>0 DEF T!Dispatch, T!DispatchDeferred, T!DispatchFails, T!SavesPending, T!SoftSave,
         T!RecordFailed
    <3>4. \A t \in Requests : mem'[t] = "completed" => mem[t] = "completed"
      BY <2>4, <1>0 DEF T!Dispatch, T!DispatchDeferred, T!DispatchFails
    <3> QED BY <3>2, <3>3, <3>4
  <2>5. CASE T!Lose(r) \/ T!Abort(r)
    <3>1. captured' = captured /\ result' = result /\ (T!Close(r) \/ T!CloseThrows(r))
      BY <2>5 DEF T!Lose, T!Abort
    <3> QED BY <3>1, <1>b, <1>e
  <2> QED
    BY <1>1, <2>1, <2>2, <2>3, <2>4, <2>5 DEF T!RequestStep
<1>2. ASSUME NEW r \in Requests, T!TurnFails(r) \/ T!PollHeals(r)
      PROVE  captured' = captured /\ Keeps(result') /\ \A t \in Requests : mem'[t] = "completed" => mem[t] = "completed"
  BY <1>2, <1>0, <1>a DEF T!TurnFails, T!PollHeals
<1>3. ASSUME NEW s \in T!Sessions, T!WorkerExit(s) \/ T!CliExit(s)
      PROVE  captured' = captured /\ Keeps(result') /\ mem' = mem
  <2>1. T!Converge(s) /\ captured' = captured /\ mem' = mem
    BY <1>3 DEF T!WorkerExit, T!CliExit
  <2>2. Keeps(result')
    <3>1. \A t \in Requests : T!RecordFailed(result, t)[t] = "completed" <=> result[t] = "completed"
      BY <1>a
    <3> QED BY <2>1, <3>1 DEF T!Converge
  <2> QED BY <2>1, <2>2
<1>4. ASSUME NEW s \in T!Sessions, T!FailClose(s) \/ T!Wake(s)
      PROVE  captured' = captured /\ Keeps(result') /\ \A t \in Requests : mem'[t] = "completed" => mem[t] = "completed"
  BY <1>4, <1>a, <1>e DEF T!FailClose, T!Wake
<1>5. ASSUME NEW r \in Requests, T!DeferredFork(r) PROVE UNCHANGED <<captured, result, mem>>
  BY <1>5 DEF T!DeferredFork
<1>6. CASE T!Freeze \/ T!Unfreeze \/ T!Boot \/ T!ReconcileThrows \/ T!RestoreThrows \/ T!Restore
  BY <1>6, <1>c, <1>d DEF T!Freeze, T!Unfreeze, T!Boot, T!ReconcileThrows, T!RestoreThrows, T!Restore
<1>7. CASE T!Crash
  BY <1>7, <1>d DEF T!Crash
<1>8. CASE T!Reconcile
  <2>1. captured' = captured /\ mem' = mem /\ Keeps(result')
    BY <1>8, <1>a, <1>c, <1>l DEF T!Reconcile
  <2> QED BY <2>1, <1>b
<1> QED
  BY <1>1, <1>2, <1>3, <1>4, <1>5, <1>6, <1>7, <1>8, <1>b DEF T!Next, T!WorkerStep

(* An outcome comes from a worker that got the input, and a captured output *)
(* stays the result if its save was not lost.                               *)
LEMMA OutcomesStep == TriggerInv /\ T!Next => Outcomes' /\ Outputs'
<1> SUFFICES ASSUME TriggerInv, T!Next PROVE Outcomes' /\ Outputs'
  OBVIOUS
<1>0. /\ result \in [Requests -> {"none", "pending"} \cup T!Terminal]
      /\ mem \in [Requests -> {"none", "pending", "completed", "failed"}] /\ captured \subseteq Requests
      /\ Outcomes /\ Outputs
  BY DEF TriggerInv, Types, DiskTypes, MemoryTypes, Runs, Outcomes, Outputs
<1>1. (\A t \in Requests : ranOn[t] # 0 => ranOn'[t] # 0) /\ (used'.soft = 0 => used.soft = 0)
  BY Grows
<1>2. ASSUME NEW r \in Requests, T!FinalOutput(r) PROVE Outcomes' /\ Outputs'
  <2>1. ranOn[r] # 0 /\ captured' = captured \cup {r} /\ T!SoftSave(T!RecordCompleted(result, r))
    BY <1>2 DEF T!FinalOutput, T!Executing
  <2>2. \A t \in Requests : t # r => mem'[t] = mem[t]
    BY <1>2, <1>0 DEF T!FinalOutput
  <2>3. \A t \in Requests : t # r => result'[t] = result[t]
    BY <2>1, <1>0 DEF T!SoftSave, T!RecordCompleted
  <2>4. used'.soft = 0 => result'[r] = "completed"
    <3>1. CASE result' = T!RecordCompleted(result, r)
      BY <3>1, <1>0 DEF T!RecordCompleted
    <3>2. CASE used' = [used EXCEPT !.soft = @ + 1]
      <4>1. used'.soft = used.soft + 1 /\ used.soft \in Nat
        BY <3>2 DEF TriggerInv, Types, CallTypes, Counts
      <4> QED BY <4>1
    <3> QED BY <2>1, <3>1, <3>2 DEF T!SoftSave
  <2> QED BY <1>0, <1>1, <2>1, <2>2, <2>3, <2>4 DEF Outcomes, Outputs
<1>3. CASE /\ captured' = captured
           /\ \A t \in Requests : /\ result'[t] = "completed" => result[t] = "completed"
                                  /\ mem'[t] = "completed" => mem[t] = "completed"
                                  /\ t \in captured /\ result[t] = "completed" => result'[t] = "completed"
  BY <1>0, <1>1, <1>3 DEF Outcomes, Outputs
<1> QED
  BY <1>2, <1>3, OutcomeSteps

(* A fork waits for the end of a freeze. *)
LEMMA WaitsStep == TriggerInv /\ T!Next => Waits'
<1> SUFFICES ASSUME TriggerInv, T!Next PROVE Waits'
  OBVIOUS
<1>0. Waits /\ Stages /\ sent' = sent /\ sent.kind \in {"fresh", "turn"}
  BY Fixed DEF TriggerInv, Runs, Waits, Types, DiskTypes
<1>1. (used.freezes > 0 => used'.freezes > 0)
  BY Grows DEF Counts
<1>a. UNCHANGED T!memory => UNCHANGED <<deferred, frozen>>
  BY DEF T!memory
<1>b. ASSUME deferred' \subseteq deferred, frozen' => frozen PROVE Waits'
  BY <1>0, <1>1, <1>b DEF Waits
<1>c. ASSUME NEW s, T!Close(s) \/ T!CloseThrows(s) PROVE deferred' \subseteq deferred
  BY <1>c DEF T!Close, T!CloseThrows
<1>2. ASSUME NEW r \in Requests, T!RequestStep(r) PROVE Waits'
  <2>1. CASE T!DispatchDeferred(r)
    <3>1. frozen /\ frozen' = frozen /\ req[r].pc = "attempting"
      BY <2>1 DEF T!DispatchDeferred
    <3>2. sent.kind = "turn"
      BY <3>1, <1>0 DEF Stages, Stage
    <3> QED BY <3>1, <3>2, <1>0, <1>1 DEF Waits
  <2>2. CASE T!Lose(r) \/ T!Abort(r)
    BY <2>2, <1>b, <1>c DEF T!Lose, T!Abort
  <2>3. CASE ~(T!DispatchDeferred(r) \/ T!Lose(r) \/ T!Abort(r))
    <3>1. UNCHANGED <<deferred, frozen>>
      BY <1>2, <2>3, <1>a DEF T!RequestStep, T!CheckPasses, T!CheckRefuses, T!CheckHits, T!CheckHeals,
       T!CreateSession, T!LostSession, T!ClaimWins, T!ClaimThrows, T!ClaimLoses, T!Barrier,
       T!BarrierThrows, T!Release, T!Dispatch, T!DispatchFails
    <3> QED BY <3>1, <1>b
  <2> QED BY <2>1, <2>2, <2>3
<1>3. ASSUME NEW r \in Requests, T!FinalOutput(r) \/ T!TurnFails(r) \/ T!PollHeals(r) \/ T!DeferredFork(r) PROVE Waits'
  BY <1>3, <1>b DEF T!FinalOutput, T!TurnFails, T!PollHeals, T!DeferredFork
<1>4. ASSUME NEW s \in T!Sessions, T!WorkerExit(s) \/ T!CliExit(s) \/ T!FailClose(s) \/ T!Wake(s) PROVE Waits'
  BY <1>4, <1>b, <1>c DEF T!WorkerExit, T!CliExit, T!FailClose, T!Wake
<1>5. CASE T!Unfreeze \/ T!Crash \/ T!Boot \/ T!Reconcile \/ T!ReconcileThrows \/ T!RestoreThrows \/ T!Restore
  BY <1>5, <1>a, <1>b DEF T!Unfreeze, T!Crash, T!Boot, T!Reconcile, T!ReconcileThrows, T!RestoreThrows, T!Restore
<1>6. CASE T!Freeze
  <2>1. used'.freezes > 0 /\ deferred' = deferred
    BY <1>6 DEF T!Freeze, TriggerInv, Types, CallTypes, Counts
  <2> QED BY <2>1, <1>0, <1>1 DEF Waits
<1> QED
  BY <1>2, <1>3, <1>4, <1>5, <1>6 DEF T!Next, T!WorkerStep

-----------------------------------------------------------------------------
(* A request that is over stays so. *)
LEMMA OverStays ==
    ASSUME TriggerInv, T!Next
    PROVE  \A q \in Requests : req[q].pc \in Over => req'[q].pc \in Over
<1>0. CallTypes /\ req \in [Requests -> Request]
  BY DEF TriggerInv, Types, CallTypes
<1>1. ASSUME NEW r \in Requests, T!RequestStep(r)
      PROVE  \A q \in Requests : req[q].pc \in Over => req'[q].pc \in Over
  <2>d. \A p \in PCs : T!Goto(r, p) => req'[r].pc = p /\ \A q \in Requests : q # r => req'[q] = req[q]
    BY <1>0, GotoFacts
  <2>a. \A a : T!Answer(r, a) => T!Goto(r, "done")
    BY DEF T!Answer
  <2>1. CASE T!CheckPasses(r) \/ (T!ClaimLoses(r) /\ T!kind = "fresh")
    <3>1. req[r].pc \notin Over /\ \E v : req' = [req EXCEPT ![r] = v]
      BY <2>1 DEF T!CheckPasses, T!ClaimLoses, T!AtClaim, Over
    <3>2. \A q \in Requests : q # r => req'[q] = req[q]
      BY <3>1, <1>0
    <3> QED BY <3>1, <3>2
  <2>2. CASE T!CreateSession(r) \/ T!ClaimWins(r) \/ T!Barrier(r) \/ T!BarrierThrows(r)
    BY <2>2, <2>a, <2>d DEF T!CreateSession, T!ClaimWins, T!AtClaim, T!Barrier, T!BarrierThrows, Over, PCs
  <2>3. CASE T!ClaimThrows(r) \/ T!Release(r) \/ T!DispatchFails(r)
    BY <2>3, <2>a, <2>d DEF T!ClaimThrows, T!Release, T!DispatchFails, Over, PCs
  <2>4. CASE \/ T!CheckRefuses(r) \/ T!LostSession(r) \/ T!CheckHits(r) \/ T!CheckHeals(r)
             \/ (T!ClaimLoses(r) /\ T!kind # "fresh") \/ T!Lose(r) \/ T!Abort(r)
             \/ T!Dispatch(r) \/ T!DispatchDeferred(r)
    <3>1. T!Goto(r, "done") \/ T!Goto(r, "abort")
      BY <2>4, <2>a DEF T!CheckRefuses, T!LostSession, T!CheckHits, T!CheckHeals, T!ClaimLoses, T!Lose,
         T!Abort, T!Dispatch, T!DispatchDeferred
    <3> QED BY <3>1, <2>d DEF Over, PCs
  <2> QED
    BY <1>1, <2>1, <2>2, <2>3, <2>4 DEF T!RequestStep
<1>2. CASE T!Crash
  <2>1. \A q \in Requests : req'[q].pc = IF req[q].pc = "idle" THEN "idle" ELSE "done"
    BY <1>2, <1>0 DEF T!Crash, Request
  <2> QED BY <2>1 DEF Over
<1>3. CASE ~(T!Crash \/ \E r \in Requests : T!RequestStep(r))
  <2>1. req' = req
    BY <1>3 DEF T!Next, T!WorkerStep, T!FinalOutput, T!TurnFails, T!PollHeals, T!WorkerExit,
       T!CliExit, T!FailClose, T!Wake, T!Freeze, T!Unfreeze, T!DeferredFork, T!Boot,
       T!Reconcile, T!ReconcileThrows, T!RestoreThrows, T!Restore
  <2> QED BY <2>1
<1> QED
  BY <1>1, <1>2, <1>3

(* Where callers are told `queued` for a dispatched turn only. *)
Sure == sent.kind = "fresh" \/ (used.faults = 0 /\ used.freezes = 0)

(* A lease that is reused has a turn that was dispatched. *)
LEMMA ReusedRan ==
    ASSUME TriggerInv, T!Serving, Sure, NEW hit \in LeaseRec, T!Decision(hit) # "terminal",
           \/ hit = lease
           \/ sent.kind = "fresh" /\ (hit.state = "reserved" => hit.boot = boot)
    PROVE  ranOn[hit.req] # 0
<1>0. /\ DiskTypes /\ hit.req \in Requests /\ hit.state \in {"reserved", "attempting"} /\ Runs /\ LeaseTrue
      /\ hit # T!NoLease
  BY Leases DEF TriggerInv, Types, LeaseRec, LeaseOrNone
<1>1. phase = "up" /\ \A q \in Requests : req[q].pc \notin Stretch
  BY ServingFacts
<1>2. hit.state = "reserved" => hit.boot = boot
  BY <1>0, <1>1 DEF LeaseTrue
<1>3. CASE result[hit.req] = "completed"
  BY <1>0, <1>3 DEF Runs
<1>4. CASE sent.kind = "fresh" /\ T!SessionOf(hit.req) \in live
  BY <1>0, <1>4, SessionFacts DEF Runs
<1>5. CASE hit = lease /\ used.faults = 0 /\ used.freezes = 0 /\ result[hit.req] \notin T!Terminal
  BY <1>0, <1>1, <1>5 DEF LeaseTrue, Undecided, Stretch
<1>6. sent.kind \in {"fresh", "turn"}
  BY <1>0 DEF DiskTypes
<1>7. \/ result[hit.req] = "completed"
      \/ result[hit.req] \notin T!Terminal /\ T!SessionOf(hit.req) \in live
  BY <1>2, DecisionFacts
<1> QED
  BY <1>3, <1>4, <1>5, <1>6, <1>7 DEF Sure

(* The parts of Told: a turn reported failed is over, *)
ToldFailedOver == \A r, t \in Requests : answer[r] = T!Failed(t) => req[t].pc \in Over
(* and one reported queued had its input handed over. *)
ToldQueuedRan == Sure => \A r, t \in Requests : answer[r] = T!Queued(t) => ranOn[t] # 0

(* The checked promise about queued answers, with its condition named. *)
LEMMA QueuedSame == Types => (T!QueuedWasDispatched <=> ToldQueuedRan)
<1> SUFFICES ASSUME Types PROVE T!QueuedWasDispatched <=> ToldQueuedRan
  OBVIOUS
<1>1. used.faults \in Nat /\ used.freezes \in Nat
  BY DEF Types, CallTypes, Counts
<1>2. used.faults + used.freezes = 0 <=> (used.faults = 0 /\ used.freezes = 0)
  BY <1>1
<1> QED BY <1>2 DEF T!QueuedWasDispatched, ToldQueuedRan, Sure, T!kind

(* What callers were told stays true. *)
LEMMA ToldStep == TriggerInv /\ T!Next => ToldFailedOver' /\ ToldQueuedRan'
<1> SUFFICES ASSUME TriggerInv, T!Next PROVE ToldFailedOver' /\ ToldQueuedRan'
  OBVIOUS
<1>0. /\ Types /\ DiskTypes /\ CallTypes /\ Stages /\ LeaseTrue /\ Runs /\ lease \in LeaseOrNone
      /\ answer \in [Requests -> Reply] /\ req \in [Requests -> Request]
      /\ ToldFailedOver /\ ToldQueuedRan /\ sent' = sent /\ sent.kind \in {"fresh", "turn"}
  BY Fixed, QueuedSame DEF TriggerInv, Types, DiskTypes, CallTypes, Told, ToldFailedOver
<1>1. /\ \A q \in Requests : req[q].pc \in Over => req'[q].pc \in Over
      /\ \A t \in Requests : ranOn[t] # 0 => ranOn'[t] # 0
      /\ Sure' => Sure
  BY <1>0, OverStays, Grows DEF Sure
<1>a. ASSUME answer' = answer PROVE ToldFailedOver' /\ ToldQueuedRan'
  BY <1>0, <1>1, <1>a DEF ToldFailedOver, ToldQueuedRan
<1>b. ASSUME NEW r \in Requests, NEW a \in Reply, T!Answer(r, a),
             \A t \in Requests : a = T!Failed(t) => req'[t].pc \in Over,
             Sure' => \A t \in Requests : a = T!Queued(t) => ranOn'[t] # 0
      PROVE  ToldFailedOver' /\ ToldQueuedRan'
  <2>1. answer'[r] = a /\ \A q \in Requests : q # r => answer'[q] = answer[q]
    BY <1>0, <1>b, AnswerFacts
  <2> QED BY <1>0, <1>1, <1>b, <2>1 DEF ToldFailedOver, ToldQueuedRan
<1>e. ASSUME NEW r \in Requests, T!Answer(r, T!Error) \/ T!Answer(r, T!Conflict)
      PROVE  ToldFailedOver' /\ ToldQueuedRan'
  <2>1. \A t \in Requests : /\ T!Failed(t) \notin {T!Error, T!Conflict}
                            /\ T!Queued(t) \notin {T!Error, T!Conflict}
    BY Replies
  <2>2. T!Error \in Reply /\ T!Conflict \in Reply
    BY DEF Reply, T!Error, T!Conflict
  <2> QED BY <1>e, <1>b, <2>1, <2>2
<1>f. ASSUME NEW r \in Requests, NEW u \in Requests, T!Answer(r, T!Failed(u)), req'[u].pc \in Over
      PROVE  ToldFailedOver' /\ ToldQueuedRan'
  <2>1. T!Failed(u) \in Reply
        /\ \A t \in Requests : (T!Failed(u) = T!Failed(t) => t = u) /\ T!Failed(u) # T!Queued(t)
    BY Replies
  <2> QED BY <1>b, <1>f, <2>1
<1>g. ASSUME NEW r \in Requests, NEW u \in Requests, T!Answer(r, T!Queued(u)), Sure' => ranOn'[u] # 0
      PROVE  ToldFailedOver' /\ ToldQueuedRan'
  <2>1. T!Queued(u) \in Reply
        /\ \A t \in Requests : (T!Queued(u) = T!Queued(t) => t = u) /\ T!Queued(u) # T!Failed(t)
    BY Replies
  <2> QED BY <1>b, <1>g, <2>1
<1>l. lease # T!NoLease => lease \in LeaseRec /\ lease.req \in Requests
  BY <1>0, Leases
<1>2. ASSUME NEW r \in Requests, T!RequestStep(r) PROVE ToldFailedOver' /\ ToldQueuedRan'
  <2>s. ASSUME T!Serving, NEW l \in LeaseRec, l.req \in Requests, req[l.req].pc \in Claimed,
               l = lease \/ (sent.kind = "fresh" /\ (l.state = "reserved" => l.boot = boot)),
               \/ T!Answer(r, T!Conflict)
               \/ T!Answer(r, T!Failed(l.req))
               \/ T!Answer(r, T!Queued(l.req)) /\ T!Decision(l) # "terminal"
        PROVE  ToldFailedOver' /\ ToldQueuedRan'
    <3>1. req'[l.req].pc \in Over
      BY <1>1, <2>s, ServingFacts DEF Claimed
    <3>2. T!Decision(l) # "terminal" /\ Sure' => ranOn'[l.req] # 0
      BY <1>1, <2>s, ReusedRan
    <3> QED BY <2>s, <3>1, <3>2, <1>e, <1>f, <1>g
  <2>1. CASE \/ T!CheckPasses(r) \/ T!CreateSession(r) \/ T!ClaimWins(r) \/ T!Barrier(r) \/ T!Release(r)
    BY <2>1, <1>a DEF T!CheckPasses, T!CreateSession, T!ClaimWins, T!Barrier, T!Release
  <2>2. CASE T!CheckRefuses(r) \/ T!LostSession(r)
    BY <2>2, <1>e DEF T!CheckRefuses, T!LostSession
  <2>3. CASE T!CheckHits(r)
    <3>1. lease # T!NoLease /\ T!Serving
      BY <2>3 DEF T!CheckHits
    <3>2. lease \in LeaseRec /\ lease.req \in Requests /\ req[lease.req].pc \in Claimed
      BY <3>1, <1>0, <1>l DEF LeaseTrue
    <3>3. \/ T!Answer(r, T!Conflict)
          \/ T!Answer(r, T!Failed(lease.req))
          \/ T!Answer(r, T!Queued(lease.req)) /\ T!Decision(lease) # "terminal"
      BY <2>3 DEF T!CheckHits
    <3> QED BY <3>1, <3>2, <3>3, <2>s
  <2>4. CASE T!CheckHeals(r)
    <3>1. lease # T!NoLease /\ T!Serving
      BY <2>4 DEF T!CheckHeals
    <3>2. lease \in LeaseRec /\ lease.req \in Requests /\ req[lease.req].pc \in Claimed
      BY <3>1, <1>0, <1>l DEF LeaseTrue
    <3>3. req'[lease.req].pc \in Over
      BY <1>1, <3>1, <3>2, ServingFacts DEF Claimed
    <3>4. result[lease.req] = "completed" => ranOn'[lease.req] # 0
      BY <3>2, <1>0, <1>1 DEF Runs
    <3>5. \/ T!Answer(r, T!Error) \/ T!Answer(r, T!Failed(lease.req))
          \/ T!Answer(r, T!Queued(lease.req)) /\ result[lease.req] = "completed"
      BY <2>4 DEF T!CheckHeals
    <3> QED BY <3>2, <3>3, <3>4, <3>5, <1>e, <1>f, <1>g
  <2>5. CASE T!ClaimThrows(r) \/ T!BarrierThrows(r)
    BY <2>5, <1>a, <1>e DEF T!ClaimThrows, T!BarrierThrows
  <2>6. CASE T!ClaimLoses(r)
    <3>1. lease # T!NoLease /\ T!Serving
      BY <2>6 DEF T!ClaimLoses, T!Claimable
    <3>2. lease \in LeaseRec /\ lease.req \in Requests /\ req[lease.req].pc \in Claimed
      BY <3>1, <1>0, <1>l DEF LeaseTrue
    <3>3. \/ answer' = answer \/ T!Answer(r, T!Conflict)
          \/ T!Answer(r, T!Failed(lease.req))
          \/ T!Answer(r, T!Queued(lease.req)) /\ T!Decision(lease) # "terminal"
      BY <2>6 DEF T!ClaimLoses
    <3> QED BY <3>1, <3>2, <3>3, <2>s, <1>a
  <2>7. CASE T!Lose(r)
    <3> DEFINE l == req[r].seen
    <3>1. /\ T!Serving /\ l # T!NoLease /\ sent.kind = "fresh" /\ (l.state = "reserved" => l.boot = boot)
          /\ req[l.req].pc \in Claimed
      BY <2>7, <1>0 DEF T!Lose, Stages, Stage
    <3>2. l \in LeaseRec /\ l.req \in Requests
      BY <3>1, <1>0, Leases DEF Request
    <3>3. \/ T!Answer(r, T!Conflict)
          \/ T!Answer(r, T!Failed(l.req))
          \/ T!Answer(r, T!Queued(l.req)) /\ T!Decision(l) # "terminal"
          \/ T!Answer(r, T!Error)
          \/ T!Goto(r, "abort") /\ answer' = answer
      BY <2>7 DEF T!Lose
    <3> HIDE DEF l
    <3> QED BY <3>1, <3>2, <3>3, <2>s, <1>a, <1>e
  <2>8. CASE T!Dispatch(r)
    <3>1. T!DispatchGen(r) # 0
      BY <1>0, DispatchGenFacts
    <3>2. ranOn'[r] # 0 /\ T!Answer(r, T!Queued(r))
      BY <2>8, <3>1, <1>0 DEF T!Dispatch, Types, MemoryTypes
    <3> QED BY <3>2, <1>g
  <2>9. CASE T!DispatchDeferred(r)
    <3>1. frozen /\ req[r].pc = "attempting" /\ T!Answer(r, T!Queued(r))
      BY <2>9 DEF T!DispatchDeferred
    <3>2. sent.kind = "turn" /\ used.freezes > 0
      BY <3>1, <1>0 DEF Stages, Stage, Runs
    <3>3. ~Sure'
      BY <3>2, <1>0, Grows DEF Sure, CallTypes, Counts
    <3> QED BY <3>1, <3>3, <1>g
  <2>10. CASE T!DispatchFails(r) \/ T!Abort(r)
    <3>1. T!Goto(r, "done") => req'[r].pc \in Over
      BY <1>0, GotoFacts DEF PCs, Over
    <3>2. \A a : T!Answer(r, a) => T!Goto(r, "done")
      BY DEF T!Answer
    <3>3. answer' = answer \/ T!Answer(r, T!Error) \/ T!Answer(r, T!Failed(r))
      BY <2>10 DEF T!DispatchFails, T!Abort
    <3> QED BY <3>1, <3>2, <3>3, <1>a, <1>e, <1>f
  <2> QED
    BY <1>2, <2>1, <2>2, <2>3, <2>4, <2>5, <2>6, <2>7, <2>8, <2>9, <2>10 DEF T!RequestStep
<1>3. CASE ~\E r \in Requests : T!RequestStep(r)
  <2>1. answer' = answer
    BY <1>3 DEF T!Next, T!WorkerStep, T!FinalOutput, T!TurnFails, T!PollHeals, T!WorkerExit,
       T!CliExit, T!FailClose, T!Wake, T!Freeze, T!Unfreeze, T!DeferredFork, T!Crash, T!Boot,
       T!Reconcile, T!ReconcileThrows, T!RestoreThrows, T!Restore
  <2> QED BY <2>1, <1>a
<1> QED
  BY <1>2, <1>3

(* The inductive invariant is kept by every step for the key. *)
LEMMA TriggerStep == TriggerInv /\ T!Next => TriggerInv'
<1> SUFFICES ASSUME TriggerInv, T!Next PROVE TriggerInv'
  OBVIOUS
<1>1. Types'
  BY CallTypesStep, DiskTypesStep, MemoryTypesStep DEF TriggerInv, Types
<1>2. Barred' /\ Stages' /\ LeaseTrue'
  BY BarredStep, StagesStep, LeaseTrueStep DEF TriggerInv
<1>3. Runs'
  BY WorkersStep, OutcomesStep, WaitsStep DEF Runs, Workers, Outcomes, Outputs, Waits
<1>4. Told'
  <2>1. Types' => (T!QueuedWasDispatched' <=> ToldQueuedRan')
    BY <1>1, QueuedSame, PTL
  <2> QED BY <1>1, <2>1, ToldStep DEF Told, ToldFailedOver
<1> QED
  BY <1>1, <1>2, <1>3, <1>4 DEF TriggerInv

(* Before the first request nothing has been handed over. *)
LEMMA TriggerInit == Init => TriggerInv
<1> SUFFICES ASSUME T!Init PROVE TriggerInv
  BY DEF Init
<1>0. /\ sent.kind \in {"fresh", "turn"} /\ lease = T!NoLease /\ phase = "up" /\ boot = 1
      /\ result = [r \in Requests |-> "none"] /\ mem = [r \in Requests |-> "none"]
      /\ stamp = [r \in Requests |-> 0] /\ ranOn = [r \in Requests |-> 0]
      /\ fault = {} /\ closing = {} /\ deferred = {} /\ captured = {} /\ quar = {} /\ unproven = {}
      /\ frozen = FALSE
      /\ req = [r \in Requests |-> [pc |-> "idle", seen |-> T!NoLease]]
      /\ answer = [r \in Requests |-> T!NoAnswer]
      /\ used = [faults |-> 0, freezes |-> 0, soft |-> 0]
  BY DEF T!Init
<1>1. /\ row \in [T!Sessions -> {"none", "open", "closed"}] /\ gen \in [T!Sessions -> Nat]
      /\ active \subseteq T!Sessions /\ live \subseteq active /\ \A s \in live : gen[s] = 1
      /\ sent.kind = "fresh" => live = {}
  BY DEF T!Init, T!kind
<1>2. 1 \in 1..MaxBoot
  BY SourcesAssumption DEF T!TriggersAssumption
<1>3. DiskTypes
  BY <1>0, <1>1, <1>2, NoLeaseTyped DEF DiskTypes
<1>4. MemoryTypes
  BY <1>0, <1>1 DEF MemoryTypes
<1>5. CallTypes
  <2>1. T!NoAnswer \in Reply
    BY DEF T!NoAnswer, Reply
  <2>2. [pc |-> "idle", seen |-> T!NoLease] \in Request
    BY NoLeaseTyped DEF Request, PCs
  <2>3. used \in Counts
    BY <1>0 DEF Counts
  <2> QED BY <1>0, <2>1, <2>2, <2>3 DEF CallTypes
<1>6. Barred
  BY <1>0 DEF Barred, Shows
<1>7. Stages
  <2>1. \A r \in Requests : req[r].pc = "idle" /\ req[r].seen = T!NoLease
    BY <1>0
  <2> QED BY <2>1 DEF Stages, Stage, Stretch
<1>8. LeaseTrue
  BY <1>0 DEF LeaseTrue
<1>9. Runs
  <2>1. \A t \in Requests : result[t] = "none" /\ mem[t] = "none"
    BY <1>0
  <2> QED BY <1>0, <1>1, <2>1 DEF Runs
<1>10. Told
  <2>1. \A r, t \in Requests : answer[r] # T!Failed(t) /\ answer[r] # T!Queued(t)
    BY <1>0, Replies
  <2> QED BY <2>1 DEF Told, T!QueuedWasDispatched
<1> QED
  BY <1>3, <1>4, <1>5, <1>6, <1>7, <1>8, <1>9, <1>10 DEF TriggerInv, Types

(* The meeting does not touch the key. *)
LEMMA TriggerFrame == TriggerInv /\ UNCHANGED keyed => TriggerInv'
<1> SUFFICES ASSUME TriggerInv, UNCHANGED keyed PROVE TriggerInv'
  OBVIOUS
<1>0. /\ UNCHANGED <<sent, lease, result, row, boot, phase, active, live, gen, mem, stamp, fault>>
      /\ UNCHANGED <<closing, deferred, frozen, req, answer, ranOn, captured, quar, unproven, used>>
  BY DEF keyed
<1>1. /\ T!Sessions' = T!Sessions /\ LeaseRec' = LeaseRec /\ LeaseOrNone' = LeaseOrNone /\ Request' = Request
      /\ T!kind' = T!kind
  BY <1>0 DEF T!Sessions, T!kind, LeaseRec, LeaseOrNone, Request, T!Payload
<1>2. Types'
  BY <1>0, <1>1 DEF TriggerInv, Types, DiskTypes, MemoryTypes, CallTypes
<1>3. \A t \in Requests : (Shows(t)' <=> Shows(t)) /\ (Crossed(t)' <=> Crossed(t))
  BY <1>0 DEF Shows, Crossed
<1>4. Barred'
  BY <1>3 DEF TriggerInv, Barred
<1>5. Stages'
  BY <1>0, <1>3 DEF TriggerInv, Stages, Stage
<1>6. LeaseTrue' /\ Runs'
  BY <1>0 DEF TriggerInv, LeaseTrue, Runs, Undecided
<1>7. Told'
  BY <1>0, <1>1 DEF TriggerInv, Told, T!QueuedWasDispatched
<1> QED
  BY <1>2, <1>4, <1>5, <1>6, <1>7 DEF TriggerInv

(* The inductive invariant holds in every reachable state. *)
LEMMA TriggerInvHolds == FairSpec => []TriggerInv
<1>1. TriggerInv /\ [Next]_vars => TriggerInv'
  <2> SUFFICES ASSUME TriggerInv, [Next]_vars PROVE TriggerInv'
    OBVIOUS
  <2>1. CASE T!Next
    BY <2>1, TriggerStep
  <2>2. CASE UNCHANGED keyed
    BY <2>2, TriggerFrame
  <2> QED BY <2>1, <2>2 DEF Next, vars
<1> QED
  BY <1>1, TriggerInit, PTL DEF FairSpec

(* What the invariant says of the checked properties. *)
LEMMA TriggerInvGives == TriggerInv => TriggerOnce
<1> SUFFICES ASSUME TriggerInv PROVE TriggerOnce
  OBVIOUS
<1>1. T!TypeOK
  <2>1. T!LeaseType = LeaseOrNone
    BY DEF T!LeaseType, LeaseOrNone, LeaseRec
  <2>2. \A r \in Requests : req[r].pc \in PCs /\ req[r].seen \in LeaseOrNone
    BY DEF TriggerInv, Types, CallTypes, Request
  <2>3. {active, live, closing, quar} \subseteq SUBSET T!Sessions
        /\ unproven \subseteq Requests \cup {Shared}
        /\ {fault, deferred, captured} \subseteq SUBSET Requests
    BY DEF TriggerInv, Types, MemoryTypes
  <2> QED BY <2>1, <2>2, <2>3 DEF TriggerInv, Types, DiskTypes, MemoryTypes, T!TypeOK, PCs
<1>2. T!AtMostOnce
  <2> DEFINE S == {r \in Requests : ranOn[r] # 0}
  <2>1. \A r, t \in S : r = t
    BY DEF TriggerInv, Barred, Shows, Crossed
  <2>2. S = {} \/ \E x : S = {x}
    BY <2>1
  <2>3. Cardinality(S) = 0 \/ Cardinality(S) = 1
    BY <2>2, FS_EmptySet, FS_Singleton
  <2>4. T!Cardinality(S) = Cardinality(S)
    BY DEF T!Cardinality, Cardinality
  <2> QED BY <2>3, <2>4 DEF T!AtMostOnce
<1>3. T!QueuedWasDispatched
  BY DEF TriggerInv, Told
<1>4. T!CapturedStaysCompleted
  BY DEF TriggerInv, Types, MemoryTypes, Runs, T!CapturedStaysCompleted, T!PollState
<1> QED
  BY <1>1, <1>2, <1>3, <1>4 DEF TriggerOnce

(* For any number of requests under the key, of boots, of failed writes, of *)
(* freezes and of worker generations: one request's input at most is handed *)
(* to a CLI, a caller is sent to poll only for a turn that was, and an      *)
(* output that was captured stays the reported result.                      *)
THEOREM KeyedOnce == FairSpec => []TriggerOnce
BY TriggerInvHolds, TriggerInvGives, PTL

(* A turn that any caller was told has failed is not handed to a CLI        *)
(* afterwards; a keyed turn of a shared session escapes this only when it   *)
(* met a freeze.                                                            *)
THEOREM FailureIsFinal == FairSpec => FailedStaysFailed
<1> DEFINE A == T!kind = "fresh" \/ used.freezes = 0 =>
                  \A r \in Requests : ranOn[r] = 0 /\ ranOn'[r] # 0 => ~T!ToldFailed(r)
<1>1. TriggerInv /\ [Next]_vars => [A]_(T!vars)
  <2> SUFFICES ASSUME TriggerInv, [Next]_vars, ~UNCHANGED T!vars,
                      T!kind = "fresh" \/ used.freezes = 0,
                      NEW r \in Requests, ranOn[r] = 0, ranOn'[r] # 0, T!ToldFailed(r)
               PROVE  FALSE
    OBVIOUS
  <2>0. /\ ranOn \in [Requests -> Nat] /\ req[r].pc \in Over /\ (deferred # {} => sent.kind = "turn" /\ used.freezes > 0)
        /\ T!kind = sent.kind
    BY DEF TriggerInv, Types, MemoryTypes, Told, T!ToldFailed, Runs, T!kind
  <2>1. ASSUME NEW q \in Requests, T!Dispatch(q) PROVE FALSE
    BY <2>0, <2>1 DEF T!Dispatch, Over
  <2>2. ASSUME NEW q \in Requests, T!DeferredFork(q) PROVE FALSE
    BY <2>0, <2>2 DEF T!DeferredFork
  <2>3. CASE ranOn' = ranOn
    BY <2>3
  <2>4. CASE T!Next /\ ~\E q \in Requests : T!Dispatch(q) \/ T!DeferredFork(q)
    <3>1. ranOn' = ranOn
      BY <2>4 DEF T!Next, T!RequestStep, T!CheckPasses, T!CheckRefuses, T!CheckHits, T!CheckHeals,
       T!CreateSession, T!LostSession, T!ClaimWins, T!ClaimThrows, T!ClaimLoses, T!Lose, T!Barrier,
       T!BarrierThrows, T!Release, T!DispatchDeferred, T!DispatchFails, T!Abort,
       T!WorkerStep, T!FinalOutput, T!TurnFails, T!PollHeals, T!WorkerExit,
       T!CliExit, T!FailClose, T!Wake, T!Freeze, T!Unfreeze, T!Crash, T!Boot,
       T!Reconcile, T!ReconcileThrows, T!RestoreThrows, T!Restore
    <3> QED BY <3>1
  <2> QED BY <2>1, <2>2, <2>3, <2>4 DEF Next, vars, keyed
<1> QED
  BY <1>1, TriggerInvHolds, PTL DEF FairSpec, FailedStaysFailed, T!NotStartedAfterFailed

-----------------------------------------------------------------------------
(***************************************************************************)
(* The meeting.                                                            *)
(***************************************************************************)

(* A receipt that is neither untouched nor settled for good. *)
Open(k) == recv.receipts[k].status \notin {"none", "completed", "abandoned"}

(* The hub's cursor and its frozen batch. *)
HubShape ==
    /\ hub.head # M!NoHead => hub.head.from = hub.acked + 1 /\ hub.head.from <= hub.head.to
    /\ hub.head # M!NoHead => IF hub.head.final THEN hub.phase >= 2 /\ hub.head.to = items + 1
                                              ELSE hub.head.to <= items
    /\ IF hub.finalAcked THEN hub.phase >= 2 /\ hub.acked = items + 1 /\ hub.head = M!NoHead
                         ELSE hub.acked <= items

(* What a batch that was sent is: the frozen one, or one that is done. *)
Sent(from, to) ==
    \/ hub.head # M!NoHead /\ from = hub.head.from /\ to = hub.head.to
    \/ recv.receipts[from].status = "completed" /\ to <= hub.acked

(* A receipt is of a batch that was sent, only the active one is open, and a *)
(* completed one was completed by the run of its own last dispatch.          *)
ReceiptOK(k) ==
    /\ recv.receipts[k].status # "none" => k <= recv.receipts[k].to /\ Sent(k, recv.receipts[k].to)
    /\ Open(k) <=> k = recv.active
    /\ recv.receipts[k].status = "completed" =>
           \E t \in ran : t.key = k /\ t.attempt = recv.receipts[k].attempt

(* An open request carries a batch that was sent; an answer `done` is true. *)
HandlerOK(h) ==
    /\ handler[h].pc # "idle" =>
          /\ handler[h].env.from \in M!Keys /\ handler[h].env.from <= handler[h].env.to
          /\ Sent(handler[h].env.from, handler[h].env.to)
    /\ handler[h].done =>
          handler[h].pc # "idle" /\ recv.receipts[handler[h].env.from].status = "completed"

(* The receiver's cursor is the hub's, or one frozen batch ahead of it. *)
Cursor ==
    /\ recv.committed = IF hub.head # M!NoHead /\ recv.receipts[hub.head.from].status = "completed"
                        THEN hub.head.to ELSE hub.acked
    /\ recv.active # 0 => hub.head # M!NoHead /\ recv.active = hub.head.from
    /\ recv.abandoned => recv.active = 0

(* The completed receipts that cover sequence number s. *)
Covering(s) == {k \in M!Keys : recv.receipts[k].status = "completed" /\ k <= s /\ s <= recv.receipts[k].to}

(* Everything below the cursor was completed, by one batch each. *)
Tiled == \A s \in 1 .. recv.committed : \E k \in M!Keys : Covering(s) = {k}

(* No file is owned by a boot still to come, a boot that is ready owns the        *)
(* receiver's file, and a removal under way is of its owner or of a retired boot. *)
Owning ==
    /\ hub.owner <= hubBoot /\ recv.owner <= hubBoot
    /\ ready # "no" => recv.owner = hubBoot
    /\ \A b \in posts : b = recv.owner \/ b \in recv.retired

(* Runs and terminals are of generations the worker had; a `completed` *)
(* terminal is of a turn that completed.                               *)
MeetRuns ==
    /\ up => worker >= 1
    /\ \A t \in turns : t.gen <= worker
    /\ \A m \in terms : m.turn.gen <= worker /\ (m.status = "completed" => m.turn \in ran)

(* The inductive invariant of the stream. *)
StreamInv ==
    /\ M!TypeOK /\ HubShape /\ Cursor /\ Tiled /\ Owning /\ MeetRuns /\ M!ClosedComplete
    /\ \A k \in M!Keys : ReceiptOK(k)
    /\ \A h \in Handlers : HandlerOK(h)

(* One request at a time and no restart of the receiver. *)
Single == scope.open = 1 /\ scope.restarts = 0

(* At most one request is open. *)
Lone == \A g, h \in Handlers : handler[g].pc # "idle" /\ handler[h].pc # "idle" => g = h

(* Dispatch t is the last one its receipt knows of. *)
Latest(t) == recv.receipts[t.key].attempt = t.attempt /\ recv.receipts[t.key].gen = t.gen

(* A live turn is the only one, has not ended yet, and unless the stream is   *)
(* given up its receipt still stands for it: dispatched, or behind its fence. *)
LiveOK(t) ==
    /\ \A u \in turns : u = t
    /\ \A m \in terms : m.turn.gen # t.gen
    /\ \/ recv.abandoned
       \/ /\ Latest(t)
          /\ \/ recv.receipts[t.key].status = "dispatched"
             \/ recv.receipts[t.key].status = "ambiguous" /\ fence = [key |-> t.key, attempt |-> t.attempt]

(* A generation ends one turn, and the terminal of the running one meets its *)
(* receipt, a fence or a stream given up.                                    *)
TermOK(m) ==
    /\ \A n \in terms : n.turn.gen = m.turn.gen => n = m
    /\ up /\ m.turn.gen = worker =>
          \/ recv.abandoned
          \/ fence # M!NoFence
          \/ recv.receipts[m.turn.key].gen = worker /\ recv.receipts[m.turn.key].status = "dispatched"

(* Nothing runs, and no terminal of the running worker is still to come. *)
Calm == turns = {} /\ (up => \A m \in terms : m.turn.gen # worker)

(* The dispatches of a batch stay within the automatic budget and the grants; *)
(* a grant not used yet leaves room for one more.                             *)
BudgetOK(k) ==
    /\ recv.receipts[k].attempt <= M!MaxAttempts + grants
    /\ recv.receipts[k].granted => recv.receipts[k].attempt < M!MaxAttempts + grants
    /\ recv.receipts[k].status \in {"none", "accepted"} => recv.receipts[k].attempt = 0

(* A request about to dispatch finds the worker calm and the budget open. *)
ClaimOK(h) ==
    handler[h].pc = "dispatching" =>
        /\ recv.abandoned \/ Calm
        /\ recv.receipts[handler[h].env.from].attempt < M!MaxAttempts + grants

(* The inductive invariant of one request at a time. *)
SingleInv ==
    /\ Lone
    /\ \A t \in turns : LiveOK(t)
    /\ \A m \in terms : TermOK(m)
    /\ \A k \in M!Keys : BudgetOK(k)
    /\ \A h \in Handlers : ClaimOK(h)

(* It is claimed of those instances only. *)
SingleHolds == Single => SingleInv
-----------------------------------------------------------------------------
(* The records of the two files and of the requests. *)
ReceiptSet == [status : M!Statuses, to : 0 .. M!MaxItems + 1, attempt : 0 .. M!MaxTries, gen : Nat,
               granted : BOOLEAN]
RecvSet == [owner : M!Boots, retired : SUBSET M!Boots, removed : BOOLEAN,
            committed : 0 .. M!MaxItems + 1, active : 0 .. M!MaxItems + 1,
            poisoned : BOOLEAN, abandoned : BOOLEAN, receipts : [M!Keys -> ReceiptSet]]
HubSet == [owner : M!Boots, retired : SUBSET M!Boots, removed : BOOLEAN, head : M!Head,
           acked : 0 .. M!MaxItems + 1, finalAcked : BOOLEAN, phase : 0 .. 3]
RequestSet == [pc : {"idle", "sent", "dispatching", "replied"}, env : M!Head, done : BOOLEAN,
               through : 0 .. M!MaxItems + 1]

(* The instance counts as FiniteSets does. *)
LEMMA MeetSets ==
    ASSUME NEW S
    PROVE  (M!IsFiniteSet(S) <=> IsFiniteSet(S)) /\ M!Cardinality(S) = Cardinality(S)
BY DEF M!IsFiniteSet, IsFiniteSet, M!Cardinality, Cardinality

(* The bounds of an instance. *)
LEMMA ScopeFacts ==
    ASSUME scope \in Scopes
    PROVE  /\ M!MaxItems \in Nat /\ M!MaxBatch \in Nat \ {0} /\ M!MaxAttempts \in Nat \ {0}
           /\ M!MaxTries \in Nat /\ M!MaxWorkerGen \in Nat /\ M!MaxOpen \in Nat /\ M!MaxGrants \in Nat
           /\ M!MayRemove \in BOOLEAN /\ M!MaxHubBoot \in Nat \ {0} /\ M!MaxRestart \in Nat
           /\ IsFiniteSet(Handlers) /\ NoHandler \notin Handlers
BY MeetingAssumption, MeetSets DEF M!DeliveryAssumption, M!MaxItems, M!MaxBatch, M!MaxAttempts, M!MaxTries, M!MaxWorkerGen,
   M!MaxOpen, M!MaxGrants, M!MayRemove, M!MaxHubBoot, M!MaxRestart

(* The bounds do not change. *)
LEMMA ScopeStays ==
    ASSUME scope' = scope
    PROVE  /\ M!MaxItems' = M!MaxItems /\ M!MaxBatch' = M!MaxBatch /\ M!MaxAttempts' = M!MaxAttempts
           /\ M!MaxTries' = M!MaxTries /\ M!MaxWorkerGen' = M!MaxWorkerGen /\ M!MaxGrants' = M!MaxGrants
           /\ M!MaxHubBoot' = M!MaxHubBoot /\ M!MaxRestart' = M!MaxRestart /\ M!Keys' = M!Keys /\ M!Boots' = M!Boots
           /\ M!Head' = M!Head /\ M!Dispatches' = M!Dispatches /\ ReceiptSet' = ReceiptSet
           /\ RecvSet' = RecvSet /\ HubSet' = HubSet /\ RequestSet' = RequestSet
BY DEF M!MaxItems, M!MaxBatch, M!MaxAttempts, M!MaxTries, M!MaxWorkerGen, M!MaxGrants, M!MaxHubBoot, M!MaxRestart,
   M!Keys, M!Boots, M!Head, M!Dispatches, ReceiptSet, RecvSet, HubSet, RequestSet

(* The type invariant in these terms. *)
LEMMA Typed ==
    M!TypeOK <=> /\ scope \in Scopes /\ hub \in HubSet /\ recv \in RecvSet
                 /\ items \in 0 .. M!MaxItems /\ hubBoot \in M!Boots
                 /\ ready \in {"no", "receiver", "yes"}
                 /\ waiting \in Handlers \cup {NoHandler}
                 /\ removing \in {"no", "posted", "accepted"} /\ posts \subseteq M!Boots
                 /\ handler \in [Handlers -> RequestSet]
                 /\ fence \in [key : 0 .. M!MaxItems + 1, attempt : 0 .. M!MaxTries]
                 /\ worker \in 0 .. M!MaxWorkerGen /\ up \in BOOLEAN /\ turns \subseteq M!Dispatches
                 /\ terms \subseteq [turn : M!Dispatches,
                                     status : {"completed", "failed", "cancelled", "ambiguous"}]
                 /\ exits \subseteq 1 .. M!MaxWorkerGen
                 /\ grants \in 0 .. M!MaxGrants /\ restarts \in 0 .. M!MaxRestart
                 /\ ran \subseteq M!Dispatches
BY DEF M!TypeOK, HubSet, RecvSet, ReceiptSet, RequestSet

(* A receipt is replaced. *)
LEMMA SetReceiptFacts ==
    ASSUME recv \in RecvSet, NEW k \in M!Keys, NEW r \in ReceiptSet
    PROVE  /\ M!SetReceipt(k, r) \in RecvSet
           /\ M!SetReceipt(k, r).receipts[k] = r
           /\ \A i \in M!Keys : i # k => M!SetReceipt(k, r).receipts[i] = recv.receipts[i]
           /\ M!SetReceipt(k, r).owner = recv.owner /\ M!SetReceipt(k, r).retired = recv.retired
           /\ M!SetReceipt(k, r).removed = recv.removed /\ M!SetReceipt(k, r).committed = recv.committed
           /\ M!SetReceipt(k, r).active = recv.active /\ M!SetReceipt(k, r).poisoned = recv.poisoned
           /\ M!SetReceipt(k, r).abandoned = recv.abandoned
BY DEF M!SetReceipt, RecvSet

(* Fields of the receiver's file that no property but the owners' is about. *)
Aside(r, s) ==
    /\ s.receipts = r.receipts /\ s.committed = r.committed /\ s.active = r.active
    /\ s.abandoned = r.abandoned

(* A new owner. *)
LEMMA OwnedFacts ==
    ASSUME NEW b \in M!Boots
    PROVE  /\ \A f \in RecvSet : /\ M!Owned(f, b) \in RecvSet /\ Aside(f, M!Owned(f, b))
                                 /\ M!Owned(f, b).owner = b /\ f.retired \subseteq M!Owned(f, b).retired
                                 /\ f.owner # b => f.owner \in M!Owned(f, b).retired
                                 /\ M!Owned(f, b).removed = f.removed
           /\ \A f \in HubSet : /\ M!Owned(f, b) \in HubSet /\ M!Owned(f, b).owner = b
                                /\ M!Owned(f, b).head = f.head /\ M!Owned(f, b).acked = f.acked
                                /\ M!Owned(f, b).finalAcked = f.finalAcked /\ M!Owned(f, b).phase = f.phase
                                /\ M!Owned(f, b).removed = f.removed
<1>1. ASSUME NEW f, f.retired \in SUBSET M!Boots, f.owner \in M!Boots
      PROVE  \E x \in SUBSET M!Boots : /\ M!Owned(f, b) = [f EXCEPT !.owner = b, !.retired = x]
                                      /\ f.retired \subseteq x /\ (f.owner # b => f.owner \in x)
  <2> DEFINE x == IF f.owner = b THEN f.retired ELSE f.retired \cup {f.owner}
  <2>1. x \in SUBSET M!Boots /\ f.retired \subseteq x /\ (f.owner # b => f.owner \in x)
    BY <1>1
  <2>2. M!Owned(f, b) = [f EXCEPT !.owner = b, !.retired = x]
    BY DEF M!Owned
  <2> HIDE DEF x
  <2> QED BY <2>1, <2>2
<1>2. ASSUME NEW f \in RecvSet
      PROVE  /\ M!Owned(f, b) \in RecvSet /\ Aside(f, M!Owned(f, b))
             /\ M!Owned(f, b).owner = b /\ f.retired \subseteq M!Owned(f, b).retired
             /\ f.owner # b => f.owner \in M!Owned(f, b).retired
             /\ M!Owned(f, b).removed = f.removed
  <2>1. PICK x \in SUBSET M!Boots : /\ M!Owned(f, b) = [f EXCEPT !.owner = b, !.retired = x]
                                   /\ f.retired \subseteq x /\ (f.owner # b => f.owner \in x)
    BY <1>1 DEF RecvSet
  <2> QED BY <2>1 DEF RecvSet, Aside
<1>3. ASSUME NEW f \in HubSet
      PROVE  /\ M!Owned(f, b) \in HubSet /\ M!Owned(f, b).owner = b
             /\ M!Owned(f, b).head = f.head /\ M!Owned(f, b).acked = f.acked
             /\ M!Owned(f, b).finalAcked = f.finalAcked /\ M!Owned(f, b).phase = f.phase
             /\ M!Owned(f, b).removed = f.removed
  <2>1. PICK x \in SUBSET M!Boots : M!Owned(f, b) = [f EXCEPT !.owner = b, !.retired = x]
    BY <1>1 DEF HubSet
  <2> QED BY <2>1 DEF HubSet
<1> QED BY <1>2, <1>3

(* A member that is removed. *)
LEMMA RemovedFacts ==
    /\ \A f \in RecvSet : /\ [f EXCEPT !.removed = TRUE] \in RecvSet /\ Aside(f, [f EXCEPT !.removed = TRUE])
                          /\ [f EXCEPT !.removed = TRUE].owner = f.owner
                          /\ [f EXCEPT !.removed = TRUE].retired = f.retired
                          /\ [f EXCEPT !.removed = TRUE].removed
    /\ \A f \in HubSet : /\ [f EXCEPT !.removed = TRUE] \in HubSet
                         /\ [f EXCEPT !.removed = TRUE].owner = f.owner
                         /\ [f EXCEPT !.removed = TRUE].head = f.head
                         /\ [f EXCEPT !.removed = TRUE].acked = f.acked
                         /\ [f EXCEPT !.removed = TRUE].finalAcked = f.finalAcked
                         /\ [f EXCEPT !.removed = TRUE].phase = f.phase
                         /\ [f EXCEPT !.removed = TRUE].removed
BY DEF RecvSet, HubSet, Aside

(* The stream is given up. *)
GivesUp(r) ==
    /\ r \in RecvSet /\ r.abandoned /\ r.active = 0 /\ r.committed = recv.committed
    /\ \A k \in M!Keys : k # recv.active => r.receipts[k] = recv.receipts[k]
    /\ recv.active # 0 => /\ r.receipts[recv.active].status = "abandoned"
                          /\ r.receipts[recv.active].to = recv.receipts[recv.active].to
                          /\ r.receipts[recv.active].attempt = recv.receipts[recv.active].attempt
                          /\ r.receipts[recv.active].granted = recv.receipts[recv.active].granted

(* Giving up leaves the file alone or gives up its stream. *)
LEMMA AbandonedFacts ==
    ASSUME scope \in Scopes, recv \in RecvSet
    PROVE  /\ M!Abandoned = recv \/ GivesUp(M!Abandoned)
           /\ M!Abandoned \in RecvSet /\ M!Abandoned.owner = recv.owner /\ M!Abandoned.retired = recv.retired
<1>1. 0 \notin M!Keys /\ (recv.active # 0 => recv.active \in M!Keys) /\ 0 \in 0 .. M!MaxItems + 1
  BY ScopeFacts DEF RecvSet, M!Keys
<1> DEFINE rs == [k \in M!Keys |-> IF k = recv.active THEN [recv.receipts[k] EXCEPT !.status = "abandoned"]
                                ELSE recv.receipts[k]]
<1>2. rs \in [M!Keys -> ReceiptSet]
  BY DEF RecvSet, ReceiptSet, M!Statuses
<1>3. \A k \in M!Keys : k # recv.active => rs[k] = recv.receipts[k]
  OBVIOUS
<1>4. recv.active # 0 => rs[recv.active] = [recv.receipts[recv.active] EXCEPT !.status = "abandoned"]
  BY <1>1
<1>5. recv.active # 0 => /\ rs[recv.active].status = "abandoned"
                         /\ rs[recv.active].to = recv.receipts[recv.active].to
                         /\ rs[recv.active].attempt = recv.receipts[recv.active].attempt
                         /\ rs[recv.active].granted = recv.receipts[recv.active].granted
  BY <1>1, <1>4 DEF RecvSet, ReceiptSet
<1>6. M!Abandoned = recv \/ M!Abandoned = [recv EXCEPT !.abandoned = TRUE, !.active = 0, !.receipts = rs]
  BY DEF M!Abandoned
<1> HIDE DEF rs
<1>7. GivesUp([recv EXCEPT !.abandoned = TRUE, !.active = 0, !.receipts = rs])
  BY <1>1, <1>2, <1>3, <1>5 DEF GivesUp, RecvSet
<1>8. M!Abandoned \in RecvSet /\ M!Abandoned.owner = recv.owner /\ M!Abandoned.retired = recv.retired
  BY <1>1, <1>2, <1>6 DEF RecvSet
<1> QED BY <1>6, <1>7, <1>8

(* Of the receipts, only that of k changes, between two open states.  The   *)
(* dispatch it names is the same or a new one.                              *)
Moves(r, k) ==
    /\ r \in RecvSet /\ k \in M!Keys
    /\ r.committed = recv.committed /\ r.active = recv.active /\ r.abandoned = recv.abandoned
    /\ r.owner = recv.owner /\ r.retired = recv.retired /\ r.removed = recv.removed
    /\ \A i \in M!Keys : i # k => r.receipts[i] = recv.receipts[i]
    /\ r.receipts[k].to = recv.receipts[k].to
    /\ recv.receipts[k].status \notin {"none", "completed", "abandoned"}
    /\ r.receipts[k].status \notin {"none", "completed", "abandoned"}

(* The receipt of k is settled: completed. *)
Completes(r, k) ==
    /\ r \in RecvSet /\ k \in M!Keys
    /\ r.committed = recv.receipts[k].to /\ r.active = (IF recv.active = k THEN 0 ELSE recv.active)
    /\ r.abandoned = recv.abandoned
    /\ r.owner = recv.owner /\ r.retired = recv.retired /\ r.removed = recv.removed
    /\ \A i \in M!Keys : i # k => r.receipts[i] = recv.receipts[i]
    /\ r.receipts[k] = [recv.receipts[k] EXCEPT !.status = "completed"]
    /\ recv.receipts[k].status \in {"dispatched", "ambiguous"}

(* Only the status changes. *)
Restated(r, k) == r.receipts[k].attempt = recv.receipts[k].attempt /\ r.receipts[k].gen = recv.receipts[k].gen
                  /\ r.receipts[k].granted = recv.receipts[k].granted

(* A terminal: nothing, a completion, or a change between open states. *)
LEMMA SettledFacts ==
    ASSUME scope \in Scopes, recv \in RecvSet, NEW m, m.turn.key \in M!Keys
    PROVE  \/ M!Settled(m) = recv
           \/ /\ recv.receipts[m.turn.key].gen = m.turn.gen
              /\ recv.receipts[m.turn.key].attempt = m.turn.attempt
              /\ \/ m.status = "completed" /\ Completes(M!Settled(m), m.turn.key)
                 \/ /\ Moves(M!Settled(m), m.turn.key) /\ Restated(M!Settled(m), m.turn.key)
                    /\ M!Settled(m).receipts[m.turn.key].status \in {"ambiguous", "failed_retryable", "failed_terminal"}
<1> DEFINE k == m.turn.key
           r == recv.receipts[k]
<1>1. r \in ReceiptSet
  BY DEF RecvSet
<1>2. ASSUME NEW s \in M!Statuses
      PROVE  /\ [r EXCEPT !.status = s] \in ReceiptSet /\ [r EXCEPT !.status = s].status = s
             /\ [r EXCEPT !.status = s].to = r.to /\ [r EXCEPT !.status = s].attempt = r.attempt
             /\ [r EXCEPT !.status = s].gen = r.gen /\ [r EXCEPT !.status = s].granted = r.granted
  BY <1>1 DEF ReceiptSet
<1>3. {"dispatched", "ambiguous", "completed", "failed_retryable", "failed_terminal"} \subseteq M!Statuses
  BY DEF M!Statuses, M!Claimable
<1>4. ASSUME r.status \in {"dispatched", "ambiguous"}
      PROVE  Completes([M!SetReceipt(k, [r EXCEPT !.status = "completed"])
                 EXCEPT !.committed = r.to, !.active = IF @ = k THEN 0 ELSE @], k)
  <2> DEFINE c == [r EXCEPT !.status = "completed"]
             s == M!SetReceipt(k, c)
  <2>1. c \in ReceiptSet /\ r.to \in 0 .. M!MaxItems + 1 /\ 0 \in 0 .. M!MaxItems + 1
    BY <1>1, <1>2, <1>3, ScopeFacts DEF ReceiptSet
  <2>2. /\ s \in RecvSet /\ s.receipts[k] = c
        /\ \A i \in M!Keys : i # k => s.receipts[i] = recv.receipts[i]
        /\ s.owner = recv.owner /\ s.retired = recv.retired /\ s.removed = recv.removed
        /\ s.active = recv.active /\ s.abandoned = recv.abandoned
    BY <2>1, SetReceiptFacts
  <2> HIDE DEF s
  <2> DEFINE p == [s EXCEPT !.committed = r.to, !.active = IF @ = k THEN 0 ELSE @]
  <2>3. /\ p \in RecvSet /\ p.receipts = s.receipts /\ p.committed = r.to /\ p.active = (IF s.active = k THEN 0 ELSE s.active)
        /\ p.abandoned = s.abandoned /\ p.owner = s.owner /\ p.retired = s.retired /\ p.removed = s.removed
    BY <2>1, <2>2 DEF RecvSet
  <2> HIDE DEF p
  <2>4. Completes(p, k)
    BY <2>2, <2>3, <1>4, SMTT(30) DEF Completes
  <2> QED BY <2>4 DEF p, s
<1>5. ASSUME r.status \notin {"none", "completed", "abandoned"}, NEW s \in M!Statuses, s \notin {"none", "completed", "abandoned"}
      PROVE  /\ Moves(M!SetReceipt(k, [r EXCEPT !.status = s]), k)
             /\ Restated(M!SetReceipt(k, [r EXCEPT !.status = s]), k)
             /\ M!SetReceipt(k, [r EXCEPT !.status = s]).receipts[k].status = s
  <2> DEFINE q == [r EXCEPT !.status = s]
             p == M!SetReceipt(k, q)
  <2>1. q \in ReceiptSet /\ q.status = s /\ q.to = r.to /\ q.attempt = r.attempt /\ q.gen = r.gen /\ q.granted = r.granted
    BY <1>2
  <2> HIDE DEF q
  <2>2. /\ p \in RecvSet /\ p.receipts[k] = q /\ \A i \in M!Keys : i # k => p.receipts[i] = recv.receipts[i]
        /\ p.owner = recv.owner /\ p.retired = recv.retired /\ p.removed = recv.removed
        /\ p.committed = recv.committed /\ p.active = recv.active /\ p.abandoned = recv.abandoned
    BY <2>1, SetReceiptFacts
  <2> HIDE DEF p
  <2>3. Moves(p, k) /\ Restated(p, k) /\ p.receipts[k].status = s
    BY <1>5, <2>1, <2>2, SMTT(30) DEF Moves, Restated
  <2> QED BY <2>3 DEF p, q
<1>6. ASSUME r.status \notin {"none", "completed", "abandoned"}
      PROVE  /\ Moves([M!SetReceipt(k, [r EXCEPT !.status = "failed_terminal"]) EXCEPT !.poisoned = TRUE], k)
             /\ Restated([M!SetReceipt(k, [r EXCEPT !.status = "failed_terminal"]) EXCEPT !.poisoned = TRUE], k)
             /\ [M!SetReceipt(k, [r EXCEPT !.status = "failed_terminal"]) EXCEPT !.poisoned = TRUE].receipts[k].status = "failed_terminal"
  <2> DEFINE s == M!SetReceipt(k, [r EXCEPT !.status = "failed_terminal"])
  <2>1. Moves(s, k) /\ Restated(s, k) /\ s.receipts[k].status = "failed_terminal"
    BY <1>3, <1>5, <1>6
  <2> HIDE DEF s
  <2>2. s \in RecvSet
    BY <2>1 DEF Moves
  <2> DEFINE p == [s EXCEPT !.poisoned = TRUE]
  <2>3. /\ p \in RecvSet /\ p.receipts = s.receipts /\ p.committed = s.committed /\ p.active = s.active
        /\ p.abandoned = s.abandoned /\ p.owner = s.owner /\ p.retired = s.retired /\ p.removed = s.removed
    BY <2>2 DEF RecvSet
  <2> HIDE DEF p
  <2>4. Moves(p, k) /\ Restated(p, k) /\ p.receipts[k].status = "failed_terminal"
    BY <2>1, <2>3 DEF Moves, Restated
  <2> QED BY <2>4 DEF p, s
<1> QED BY <1>3, <1>4, <1>5, <1>6, ZenonT(40) DEF M!Settled

(* The file when the dispatches of `heads` are no longer certain. *)
Unsure(heads) ==
    [recv EXCEPT !.receipts = [k \in M!Keys |->
        IF k \in heads THEN [recv.receipts[k] EXCEPT !.status = "ambiguous"] ELSE recv.receipts[k]]]

(* Receipts of a set of at most one dispatched head become ambiguous. *)
LEMMA HeadFacts ==
    ASSUME scope \in Scopes, recv \in RecvSet, NEW heads,
           \A k \in heads : k \in M!Keys /\ k = recv.active /\ recv.receipts[k].status \in {"dispatched", "ambiguous"}
    PROVE  \/ heads = {} /\ Unsure(heads) = recv
           \/ /\ heads = {recv.active} /\ Moves(Unsure(heads), recv.active) /\ Restated(Unsure(heads), recv.active)
              /\ Unsure(heads).receipts[recv.active].status = "ambiguous"
<1> DEFINE r == Unsure(heads)
           rs == [k \in M!Keys |->
                    IF k \in heads THEN [recv.receipts[k] EXCEPT !.status = "ambiguous"] ELSE recv.receipts[k]]
<1>1. CASE heads = {}
  <2>1. rs = recv.receipts
    BY <1>1 DEF RecvSet
  <2>2. r = [recv EXCEPT !.receipts = rs]
    BY DEF Unsure
  <2> HIDE DEF rs, r
  <2>3. r = recv
    BY <2>1, <2>2 DEF RecvSet
  <2> QED BY <1>1, <2>3 DEF r
<1>2. CASE heads # {}
  <2> DEFINE a == recv.active
  <2>1. heads = {a} /\ a \in M!Keys /\ recv.receipts[a].status \in {"dispatched", "ambiguous"}
    BY <1>2
  <2>2. rs \in [M!Keys -> ReceiptSet]
    BY DEF RecvSet, ReceiptSet, M!Statuses, M!Claimable
  <2>3. (\A i \in M!Keys : i # a => rs[i] = recv.receipts[i]) /\ rs[a] = [recv.receipts[a] EXCEPT !.status = "ambiguous"]
    BY <2>1
  <2>4. /\ rs[a].status = "ambiguous" /\ rs[a].to = recv.receipts[a].to
        /\ rs[a].attempt = recv.receipts[a].attempt /\ rs[a].gen = recv.receipts[a].gen
        /\ rs[a].granted = recv.receipts[a].granted
    BY <2>1, <2>3 DEF RecvSet, ReceiptSet
  <2> HIDE DEF rs
  <2>5. r = [recv EXCEPT !.receipts = rs]
    BY DEF rs, Unsure
  <2> HIDE DEF r
  <2>6. /\ r \in RecvSet /\ r.receipts = rs /\ r.committed = recv.committed /\ r.active = recv.active
        /\ r.abandoned = recv.abandoned /\ r.owner = recv.owner /\ r.retired = recv.retired /\ r.removed = recv.removed
    BY <2>2, <2>5 DEF RecvSet
  <2>7. Moves(r, a) /\ Restated(r, a) /\ r.receipts[a].status = "ambiguous"
    BY <2>1, <2>3, <2>4, <2>6 DEF Moves, Restated
  <2> QED BY <2>1, <2>7 DEF r
<1> QED BY <1>1, <1>2

(* A worker's exit, and the lapse of a lease. *)
LEMMA ExitFacts ==
    ASSUME scope \in Scopes, recv \in RecvSet
    PROVE  /\ \A g : \/ M!GenerationHeads(g) = {} /\ M!GenerationExit(g) = recv
                     \/ /\ M!GenerationHeads(g) = {recv.active} /\ recv.receipts[recv.active].gen = g
                        /\ Moves(M!GenerationExit(g), recv.active) /\ Restated(M!GenerationExit(g), recv.active)
                        /\ M!GenerationExit(g).receipts[recv.active].status = "ambiguous"
                        /\ recv.receipts[recv.active].status \in {"dispatched", "ambiguous"}
           /\ \/ M!DispatchedHeads = {} /\ M!Expired = recv
              \/ /\ M!DispatchedHeads = {recv.active} /\ recv.receipts[recv.active].status = "dispatched"
                 /\ Moves(M!Expired, recv.active) /\ Restated(M!Expired, recv.active)
                 /\ M!Expired.receipts[recv.active].status = "ambiguous"
<1>1. ASSUME NEW g
      PROVE  \/ M!GenerationHeads(g) = {} /\ M!GenerationExit(g) = recv
             \/ /\ M!GenerationHeads(g) = {recv.active} /\ recv.receipts[recv.active].gen = g
                /\ Moves(M!GenerationExit(g), recv.active) /\ Restated(M!GenerationExit(g), recv.active)
                /\ M!GenerationExit(g).receipts[recv.active].status = "ambiguous"
                /\ recv.receipts[recv.active].status \in {"dispatched", "ambiguous"}
  <2>1. \A k \in M!GenerationHeads(g) : /\ k \in M!Keys /\ k = recv.active /\ recv.receipts[k].gen = g
                                        /\ recv.receipts[k].status \in {"dispatched", "ambiguous"}
    BY DEF M!GenerationHeads
  <2> DEFINE heads == M!GenerationHeads(g)
             r == M!GenerationExit(g)
  <2>2. r = Unsure(heads)
    BY DEF M!GenerationExit, Unsure
  <2>3. \/ heads = {} /\ r = recv
        \/ /\ heads = {recv.active} /\ Moves(r, recv.active) /\ Restated(r, recv.active)
           /\ r.receipts[recv.active].status = "ambiguous"
    BY <2>1, <2>2, HeadFacts
  <2> HIDE DEF r
  <2>4. heads = {recv.active} => recv.receipts[recv.active].gen = g /\ recv.receipts[recv.active].status \in {"dispatched", "ambiguous"}
    BY <2>1
  <2> HIDE DEF heads
  <2>5. \/ heads = {} /\ r = recv
        \/ /\ heads = {recv.active} /\ recv.receipts[recv.active].gen = g
           /\ Moves(r, recv.active) /\ Restated(r, recv.active) /\ r.receipts[recv.active].status = "ambiguous"
           /\ recv.receipts[recv.active].status \in {"dispatched", "ambiguous"}
    BY <2>3, <2>4
  <2> QED BY <2>5 DEF heads, r
<1>2. \A k \in M!DispatchedHeads : k \in M!Keys /\ k = recv.active /\ recv.receipts[k].status = "dispatched"
  BY DEF M!DispatchedHeads
<1>3. M!Expired = Unsure(M!DispatchedHeads)
  BY DEF M!Expired, Unsure
<1>4. \/ M!DispatchedHeads = {} /\ M!Expired = recv
      \/ /\ M!DispatchedHeads = {recv.active} /\ Moves(M!Expired, recv.active) /\ Restated(M!Expired, recv.active)
         /\ M!Expired.receipts[recv.active].status = "ambiguous"
  BY <1>2, <1>3, HeadFacts
<1> QED BY <1>1, <1>2, <1>4

-----------------------------------------------------------------------------
(* Steps, by what they do to the two files and to the requests. *)

(* The hub's cursor and head stay. *)
HubRests == /\ hub'.head = hub.head /\ hub'.acked = hub.acked /\ hub'.finalAcked = hub.finalAcked
            /\ hub' \in HubSet

(* The hub acknowledges its head, which the receiver has completed. *)
HubAcks ==
    /\ hub.head # M!NoHead /\ recv.receipts[hub.head.from].status = "completed"
    /\ hub' \in HubSet /\ hub'.head = M!NoHead /\ hub'.acked = hub.head.to
    /\ hub'.finalAcked = (hub.finalAcked \/ hub.head.final) /\ recv' = recv

(* What a step does to the hub's file. *)
HubKinds ==
    \/ HubRests
    \/ \E h \in Handlers : M!Freeze(h)
    \/ HubAcks /\ hub'.owner = hub.owner

(* The meeting's own course. *)
Phases ==
    /\ hub' \in HubSet
    /\ \/ items' = items
       \/ items' = items + 1 /\ items < M!MaxItems /\ hub.phase = 0 /\ hub' = hub
    /\ \/ hub'.phase = hub.phase
       \/ hub'.phase = hub.phase + 1 /\ hub.phase < 2
       \/ hub'.phase = 3 /\ hub.phase = 2 /\ (hub.removed \/ (hub.head = M!NoHead /\ hub.finalAcked))
    /\ hub.removed => hub'.removed
    /\ hub'.owner = hub.owner \/ hub'.owner = hubBoot

(* The types, and what the invariant says of each request and receipt. *)
LEMMA StreamTypes ==
    ASSUME StreamInv
    PROVE  /\ scope \in Scopes /\ hub \in HubSet /\ recv \in RecvSet
           /\ items \in 0 .. M!MaxItems /\ hubBoot \in M!Boots /\ handler \in [Handlers -> RequestSet]
           /\ M!MaxItems \in Nat /\ M!MaxTries \in Nat
           /\ \A h \in Handlers : HandlerOK(h)
           /\ \A k \in M!Keys : ReceiptOK(k)
BY Typed, ScopeFacts DEF StreamInv

(* An answer the hub takes for its head is about a completed receipt. *)
LEMMA AckFacts ==
    ASSUME StreamInv, NEW h \in Handlers, M!ObservationAcks(handler[h])
    PROVE  hub.head # M!NoHead /\ recv.receipts[hub.head.from].status = "completed"
<1>1. handler[h].done /\ hub.head.from = handler[h].env.from
  BY DEF M!ObservationAcks
<1>2. /\ handler[h].env.from \in M!Keys
      /\ recv.receipts[handler[h].env.from].status = "completed"
  BY <1>1, StreamTypes DEF HandlerOK
<1>3. 0 \notin M!Keys
  BY DEF M!Keys
<1> QED BY <1>1, <1>2, <1>3 DEF M!NoHead

(* The hub's file after an acknowledgement. *)
LEMMA AckedFacts ==
    ASSUME StreamInv
    PROVE  /\ M!Acked \in HubSet /\ M!Acked.head = M!NoHead /\ M!Acked.acked = hub.head.to
           /\ M!Acked.finalAcked = (hub.finalAcked \/ hub.head.final)
           /\ M!Acked.owner = hub.owner /\ M!Acked.phase = hub.phase /\ M!Acked.removed = hub.removed
<1>1. M!NoHead \in M!Head
  BY StreamTypes, ScopeFacts DEF M!NoHead, M!Head
<1>2. hub.head.to \in 0 .. M!MaxItems + 1 /\ hub.head.final \in BOOLEAN
  BY StreamTypes DEF HubSet, M!Head
<1> QED BY <1>1, <1>2, StreamTypes DEF M!Acked, HubSet

(* A batch that is frozen starts after the cursor and ends at the items there *)
(* are, or at the final marker.                                               *)
LEMMA BatchFacts ==
    ASSUME StreamInv, NEW n \in 0 .. M!MaxBatch, n <= items - hub.acked, M!Batch(n).to >= M!Batch(n).from
    PROVE  /\ M!Batch(n) \in M!Head /\ M!Batch(n) # M!NoHead /\ M!Batch(n).from \in M!Keys
           /\ M!Batch(n).from = hub.acked + 1 /\ M!Batch(n).from <= M!Batch(n).to
           /\ IF M!Batch(n).final THEN hub.phase = 2 /\ M!Batch(n).to = items + 1
                                ELSE M!Batch(n).to <= items
<1>1. /\ hub.acked \in 0 .. M!MaxItems + 1 /\ items \in 0 .. M!MaxItems /\ n \in Nat /\ M!MaxItems \in Nat
      /\ hub.owner \in 0 .. M!MaxHubBoot
  BY StreamTypes, ScopeFacts DEF HubSet, M!Boots
<1> DEFINE f == hub.phase = 2 /\ n = items - hub.acked
<1>2. /\ M!Batch(n).from = hub.acked + 1 /\ M!Batch(n).to = hub.acked + n + (IF f THEN 1 ELSE 0)
      /\ M!Batch(n).boot = hub.owner
      /\ M!Batch(n) = [from |-> hub.acked + 1, to |-> hub.acked + n + (IF f THEN 1 ELSE 0), final |-> f, boot |-> hub.owner]
  BY DEF M!Batch
<1>8. M!Batch(n).final <=> f
  BY DEF M!Batch
<1>3. M!Batch(n).from \in 1 .. M!MaxItems + 1 /\ M!Batch(n).to \in 1 .. M!MaxItems + 1 /\ M!Batch(n).to <= items + 1
  BY <1>1, <1>2
<1>4. M!Batch(n) \in M!Head
  BY <1>1, <1>2, <1>3 DEF M!Head
<1>5. M!Batch(n) # M!NoHead
  <2>1. M!NoHead.from = 0
    BY DEF M!NoHead
  <2> QED BY <1>3, <2>1
<1>6. CASE f
  BY <1>1, <1>2, <1>3, <1>4, <1>5, <1>6, <1>8 DEF M!Keys
<1>7. CASE ~f
  BY <1>1, <1>2, <1>3, <1>4, <1>5, <1>7, <1>8 DEF M!Keys
<1> QED BY <1>6, <1>7

(* What the hub's file undergoes. *)
LEMMA HubChange ==
    ASSUME StreamInv, M!Next
    PROVE  HubKinds /\ Phases
<1>0. /\ hub \in HubSet /\ hubBoot \in M!Boots /\ hub.phase \in 0 .. 3 /\ items \in 0 .. M!MaxItems
      /\ hub.finalAcked \in BOOLEAN /\ hub.removed \in BOOLEAN
  BY StreamTypes DEF HubSet
<1>1. ASSUME NEW h \in Handlers, M!Freeze(h) PROVE HubKinds /\ Phases
  <2>1. PICK n \in 0 .. M!MaxBatch : /\ n <= items - hub.acked /\ M!Batch(n).to >= M!Batch(n).from
                                     /\ hub' = [hub EXCEPT !.head = M!Batch(n)]
    BY <1>1 DEF M!Freeze
  <2>2. M!Batch(n) \in M!Head
    BY <2>1, BatchFacts
  <2>3. hub' \in HubSet /\ hub'.phase = hub.phase /\ hub'.removed = hub.removed /\ hub'.owner = hub.owner
    BY <2>1, <2>2, <1>0 DEF HubSet
  <2> QED BY <1>1, <2>3 DEF HubKinds, Phases, M!Freeze
<1>2. ASSUME NEW h \in Handlers, M!Observe(h) PROVE HubKinds /\ Phases
  <2>1. CASE M!ObservationAcks(handler[h])
    BY <1>2, <2>1, AckFacts, AckedFacts DEF M!Observe, HubKinds, HubAcks, Phases
  <2>2. CASE ~M!ObservationAcks(handler[h])
    BY <1>0, <1>2, <2>2 DEF M!Observe, HubKinds, HubRests, Phases
  <2> QED BY <2>1, <2>2
<1>3. CASE M!ReconcileCompletion
  BY <1>3, AckedFacts DEF M!ReconcileCompletion, HubKinds, HubAcks, Phases
<1>4. CASE M!EndMeeting \/ M!Finalize \/ M!Close
  <2>1. PICK p \in 1 .. 3 : /\ hub' = [hub EXCEPT !.phase = p] /\ items' = items
                            /\ \/ p = hub.phase + 1 /\ hub.phase < 2
                               \/ p = 3 /\ hub.phase = 2 /\ M!MayClose
    BY <1>4 DEF M!EndMeeting, M!Finalize, M!Close
  <2>2. /\ hub' \in HubSet /\ hub'.phase = p /\ hub'.head = hub.head /\ hub'.acked = hub.acked
        /\ hub'.finalAcked = hub.finalAcked /\ hub'.removed = hub.removed /\ hub'.owner = hub.owner
    BY <1>0, <2>1 DEF HubSet
  <2>3. HubRests /\ (hub.removed => hub'.removed)
    BY <2>2 DEF HubRests
  <2>4. \/ hub'.phase = hub.phase + 1 /\ hub.phase < 2
        \/ hub'.phase = 3 /\ hub.phase = 2 /\ (hub.removed \/ (hub.head = M!NoHead /\ hub.finalAcked))
    BY <2>1, <2>2 DEF M!MayClose
  <2> QED BY <2>1, <2>2, <2>3, <2>4 DEF HubKinds, Phases
<1>5. CASE M!RefreshHub
  BY <1>0, <1>5, OwnedFacts DEF M!RefreshHub, HubKinds, HubRests, Phases
<1>6. CASE M!RemoveFinish \/ M!Retire
  <2>1. hub' \in {hub, [M!Owned(hub, hubBoot) EXCEPT !.removed = TRUE]} /\ items' = items
    BY <1>6 DEF M!RemoveFinish, M!Retire
  <2>2. M!Owned(hub, hubBoot) \in HubSet
    BY <1>0, OwnedFacts
  <2> DEFINE o == M!Owned(hub, hubBoot)
             p == [o EXCEPT !.removed = TRUE]
  <2>3. /\ p \in HubSet /\ p.owner = hubBoot /\ p.head = hub.head /\ p.acked = hub.acked
        /\ p.finalAcked = hub.finalAcked /\ p.phase = hub.phase /\ p.removed
    <3>1. /\ o \in HubSet /\ o.owner = hubBoot /\ o.head = hub.head /\ o.acked = hub.acked
          /\ o.finalAcked = hub.finalAcked /\ o.phase = hub.phase
      BY <1>0, OwnedFacts
    <3> HIDE DEF o
    <3> QED BY <3>1, RemovedFacts
  <2>4. hub' = hub \/ hub' = p
    BY <2>1
  <2> HIDE DEF o, p
  <2> QED BY <1>0, <2>1, <2>3, <2>4 DEF HubKinds, HubRests, Phases
<1>7. CASE M!Ingest
  BY <1>0, <1>7 DEF M!Ingest, HubKinds, HubRests, Phases
<1>8. CASE UNCHANGED <<hub, items>>
  BY <1>0, <1>8 DEF HubKinds, HubRests, Phases
<1>9. \/ \E h \in Handlers : M!Freeze(h) \/ M!Observe(h)
      \/ M!ReconcileCompletion \/ M!EndMeeting \/ M!Finalize \/ M!Close \/ M!RefreshHub \/ M!RemoveFinish \/ M!Retire \/ M!Ingest
      \/ UNCHANGED <<hub, items>>
  <2>1. ASSUME M!HubStep PROVE <1>9
    BY <2>1 DEF M!HubStep, M!Timeout, M!HubCrash, M!RefreshReceiver, M!RemoveStart, M!RemoveFails, M!RetireCrash, M!Resend, M!Lose
  <2>2. ASSUME M!WorkerStep PROVE UNCHANGED <<hub, items>>
    BY <2>2 DEF M!WorkerStep, M!WorkerDies, M!CliExit, M!LeaseExpires, M!FenceAck, M!FenceTeardown, M!ReceiverRestart,
       M!ManualRetry, M!ManualAbandon, M!PaneEnds, M!TurnEnds, M!Settle, M!SettleExhausted, M!HandleWorkerExit, M!ReceiveRemoval, M!hubVars
  <2>3. ASSUME NEW h \in Handlers, M!HandlerStep(h) PROVE UNCHANGED <<hub, items>>
    BY <2>3 DEF M!HandlerStep, M!Refuse, M!AnswerExisting, M!ExhaustBudget, M!Accept, M!Redispatch, M!Dispatch,
       M!DispatchRejected, M!NotDispatched, M!hubVars
  <2> QED BY <2>1, <2>2, <2>3 DEF M!Next
<1> QED BY <1>1, <1>2, <1>3, <1>4, <1>5, <1>6, <1>7, <1>8, <1>9

(* What a step does to the receiver's file. *)
FileSteps ==
    \/ recv' \in RecvSet /\ Aside(recv, recv')
    \/ \E k \in M!Keys : Moves(recv', k)
    \/ \E m \in terms : /\ m.status = "completed" /\ recv.receipts[m.turn.key].attempt = m.turn.attempt
                        /\ Completes(recv', m.turn.key)
    \/ GivesUp(recv')
    \/ \E h \in Handlers : M!Accept(h)

(* Who owns it: as before, or boot b, which retires the one before. *)
Hands(b) ==
    /\ recv'.owner = b /\ recv.retired \subseteq recv'.retired
    /\ recv.owner # b => recv.owner \in recv'.retired

(* What a step does to the owner of the receiver's file. *)
OwnerKinds ==
    \/ recv'.owner = recv.owner /\ recv'.retired = recv.retired
    \/ Hands(hubBoot)
    \/ \E b \in posts : b \notin recv.retired /\ Hands(b)

(* A file that does not change. *)
LEMMA AsideSame == \A f \in RecvSet : Aside(f, f)
BY DEF Aside

(* A change between open states leaves the owner alone. *)
LEMMA MovesKeepOwner ==
    ASSUME NEW k, Moves(recv', k)
    PROVE  OwnerKinds
BY DEF Moves, OwnerKinds

(* A claim, and the marks of a refused dispatch. *)
LEMMA ReceiptMoves ==
    ASSUME scope \in Scopes, recv \in RecvSet, NEW k \in M!Keys, NEW r \in ReceiptSet, r.to = recv.receipts[k].to,
           recv.receipts[k].status \notin {"none", "completed", "abandoned"},
           r.status \notin {"none", "completed", "abandoned"}
    PROVE  /\ Moves(M!SetReceipt(k, r), k) /\ M!SetReceipt(k, r).receipts[k] = r
           /\ \A b \in BOOLEAN : /\ Moves([M!SetReceipt(k, r) EXCEPT !.poisoned = b], k)
                                 /\ [M!SetReceipt(k, r) EXCEPT !.poisoned = b].receipts[k] = r
<1>1. Moves(M!SetReceipt(k, r), k) /\ M!SetReceipt(k, r).receipts[k] = r
  BY SetReceiptFacts DEF Moves
<1> DEFINE s == M!SetReceipt(k, r)
<1> HIDE DEF s
<1>2. s \in RecvSet /\ Moves(s, k) /\ s.receipts[k] = r
  BY <1>1 DEF Moves, s
<1>3. ASSUME NEW b \in BOOLEAN
      PROVE  Moves([s EXCEPT !.poisoned = b], k) /\ [s EXCEPT !.poisoned = b].receipts[k] = r
  <2> DEFINE p == [s EXCEPT !.poisoned = b]
  <2>1. /\ p \in RecvSet /\ p.receipts = s.receipts /\ p.committed = s.committed /\ p.active = s.active
        /\ p.abandoned = s.abandoned /\ p.owner = s.owner /\ p.retired = s.retired /\ p.removed = s.removed
    BY <1>2 DEF RecvSet
  <2> HIDE DEF p
  <2>2. Moves(p, k) /\ p.receipts[k] = r
    BY <1>2, <2>1 DEF Moves
  <2> QED BY <2>2 DEF p
<1> QED BY <1>1, <1>3 DEF s

(* The request of a handler at work is about a batch. *)
LEMMA AtWork ==
    ASSUME StreamInv, NEW h \in Handlers, handler[h].pc # "idle"
    PROVE  /\ handler[h].env.from \in M!Keys /\ M!Receipt(h) \in ReceiptSet
           /\ handler[h].env.from <= handler[h].env.to
           /\ handler[h].env.to \in 0 .. M!MaxItems + 1 /\ handler[h].env.from \in Nat
           /\ handler[h].env \in M!Head /\ handler[h] \in RequestSet
           /\ Sent(handler[h].env.from, handler[h].env.to)
<1>1. handler[h].env.from \in M!Keys /\ handler[h] \in RequestSet
      /\ handler[h].env.from <= handler[h].env.to /\ Sent(handler[h].env.from, handler[h].env.to)
  BY StreamTypes DEF HandlerOK
<1>2. handler[h].env \in M!Head /\ handler[h].env.to \in 0 .. M!MaxItems + 1
  BY <1>1 DEF RequestSet, M!Head
<1> QED BY <1>1, <1>2, StreamTypes DEF M!Receipt, RecvSet, M!Keys

(* A step of a handler on its receipt. *)
LEMMA HandlerMoves ==
    ASSUME StreamInv, NEW h \in Handlers,
           M!ExhaustBudget(h) \/ M!Dispatch(h) \/ M!DispatchRejected(h) \/ M!NotDispatched(h)
    PROVE  \/ recv' = recv
           \/ Moves(recv', handler[h].env.from)
<1> DEFINE k == handler[h].env.from
<1>0. /\ k \in M!Keys /\ M!Receipt(h) \in ReceiptSet /\ M!Receipt(h) = recv.receipts[k]
      /\ scope \in Scopes /\ recv \in RecvSet
  <2>1. handler[h].pc \in {"sent", "dispatching"}
    BY ZenonT(40) DEF M!ExhaustBudget, M!Existing, M!Dispatch, M!DispatchRejected, M!NotDispatched
  <2> QED BY <2>1, AtWork, StreamTypes DEF M!Receipt
<1>1. CASE M!ExhaustBudget(h)
  <2>1. /\ M!Receipt(h).status \in M!Retryable
        /\ recv' = [M!SetReceipt(k, [M!Receipt(h) EXCEPT !.status = "failed_terminal"]) EXCEPT !.poisoned = TRUE]
    BY <1>1 DEF M!ExhaustBudget, M!OverBudget
  <2>2. /\ [M!Receipt(h) EXCEPT !.status = "failed_terminal"] \in ReceiptSet
        /\ [M!Receipt(h) EXCEPT !.status = "failed_terminal"].to = M!Receipt(h).to
        /\ [M!Receipt(h) EXCEPT !.status = "failed_terminal"].status = "failed_terminal"
    BY <1>0, SMTT(30) DEF ReceiptSet, M!Statuses, M!Claimable
  <2> DEFINE r == [M!Receipt(h) EXCEPT !.status = "failed_terminal"]
  <2> HIDE DEF r
  <2>3. r \in ReceiptSet /\ r.to = recv.receipts[k].to /\ r.status = "failed_terminal"
        /\ recv.receipts[k].status \notin {"none", "completed", "abandoned"}
        /\ recv' = [M!SetReceipt(k, r) EXCEPT !.poisoned = TRUE]
    BY <1>0, <2>1, <2>2 DEF r, M!Retryable, M!Claimable
  <2> QED BY <1>0, <2>3, ReceiptMoves, ZenonT(40)
<1>2. CASE M!Dispatch(h) \/ M!DispatchRejected(h)
  <2>1. PICK st \in {"dispatched", "failed_retryable"} : recv' = M!SetReceipt(k, M!Claimed(h, st))
    BY <1>2 DEF M!Dispatch, M!DispatchRejected
  <2>2. M!Receipt(h).status \in M!Claimable /\ M!Receipt(h).attempt < M!MaxTries
    BY <1>2 DEF M!Dispatch, M!DispatchRejected, M!CanClaim
  <2>3. M!NextGen \in Nat /\ M!Receipt(h).attempt + 1 \in 0 .. M!MaxTries
    BY <1>0, <2>2, Typed, ScopeFacts DEF StreamInv, M!NextGen, ReceiptSet
  <2>4. /\ M!Claimed(h, st) \in ReceiptSet /\ M!Claimed(h, st).to = M!Receipt(h).to /\ M!Claimed(h, st).status = st
    <3>1. st \in M!Statuses
      BY DEF M!Statuses, M!Claimable
    <3> DEFINE r == M!Receipt(h)
               n == r.attempt + 1
               g == M!NextGen
    <3>2. r \in ReceiptSet /\ n \in 0 .. M!MaxTries /\ g \in Nat
      BY <1>0, <2>3
    <3>3. M!Claimed(h, st) = [r EXCEPT !.status = st, !.attempt = n, !.gen = g, !.granted = FALSE]
      BY DEF M!Claimed
    <3> HIDE DEF r, n, g
    <3>4. M!Claimed(h, st) \in ReceiptSet /\ M!Claimed(h, st).to = r.to /\ M!Claimed(h, st).status = st
      BY <3>1, <3>2, <3>3 DEF ReceiptSet
    <3> QED BY <3>4 DEF r
  <2> QED BY <1>0, <2>1, <2>2, <2>4, ReceiptMoves, ZenonT(40) DEF M!Claimable
<1>3. CASE M!NotDispatched(h)
  <2>1. CASE M!Receipt(h).status = "accepted"
    <3>1. recv' = M!SetReceipt(k, [M!Receipt(h) EXCEPT !.status = "failed_retryable"])
      BY <1>3, <2>1 DEF M!NotDispatched
    <3>2. /\ [M!Receipt(h) EXCEPT !.status = "failed_retryable"] \in ReceiptSet
          /\ [M!Receipt(h) EXCEPT !.status = "failed_retryable"].to = M!Receipt(h).to
          /\ [M!Receipt(h) EXCEPT !.status = "failed_retryable"].status = "failed_retryable"
      BY <1>0 DEF ReceiptSet, M!Statuses, M!Claimable
    <3> DEFINE r == [M!Receipt(h) EXCEPT !.status = "failed_retryable"]
    <3> HIDE DEF r
    <3>3. r \in ReceiptSet /\ r.to = recv.receipts[k].to /\ r.status = "failed_retryable"
          /\ recv.receipts[k].status \notin {"none", "completed", "abandoned"}
          /\ recv' = M!SetReceipt(k, r)
      BY <1>0, <2>1, <3>1, <3>2 DEF r
    <3> QED BY <1>0, <3>3, ReceiptMoves
  <2>2. CASE M!Receipt(h).status # "accepted"
    BY <1>3, <2>2 DEF M!NotDispatched
  <2> QED BY <2>1, <2>2
<1> QED BY <1>1, <1>2, <1>3

(* Every step changes the receiver's file in one of these ways. *)
LEMMA FileChange ==
    ASSUME StreamInv, M!Next
    PROVE  FileSteps /\ OwnerKinds
<1>0. scope \in Scopes /\ recv \in RecvSet /\ hubBoot \in M!Boots /\ posts \subseteq M!Boots
  BY Typed DEF StreamInv
<1>1. ASSUME recv' = recv PROVE FileSteps /\ OwnerKinds
  BY <1>0, <1>1, AsideSame DEF FileSteps, OwnerKinds
<1>2. CASE M!RefreshReceiver
  <2>1. recv' = M!Owned(recv, hubBoot)
    BY <1>2 DEF M!RefreshReceiver
  <2> QED BY <1>0, <2>1, OwnedFacts DEF FileSteps, OwnerKinds, Hands
<1>3. ASSUME NEW a, a = M!Abandoned, recv' = a \/ recv' = [M!Owned(a, hubBoot) EXCEPT !.removed = TRUE]
      PROVE  FileSteps /\ OwnerKinds
  <2>1. (a = recv \/ GivesUp(a)) /\ a \in RecvSet /\ a.owner = recv.owner /\ a.retired = recv.retired
    BY <1>0, <1>3, AbandonedFacts
  <2>2. CASE recv' = a
    BY <2>1, <2>2, <1>1 DEF FileSteps, OwnerKinds
  <2>3. CASE recv' = [M!Owned(a, hubBoot) EXCEPT !.removed = TRUE]
    <3> DEFINE o == M!Owned(a, hubBoot)
    <3>1. /\ o \in RecvSet /\ Aside(a, o) /\ o.owner = hubBoot /\ a.retired \subseteq o.retired
          /\ a.owner # hubBoot => a.owner \in o.retired
      BY <1>0, <2>1, OwnedFacts
    <3>2. /\ recv' \in RecvSet /\ Aside(o, recv') /\ recv'.owner = o.owner /\ recv'.retired = o.retired
      BY <2>3, <3>1, RemovedFacts
    <3> HIDE DEF o
    <3>3. Aside(a, recv') /\ Hands(hubBoot)
      BY <2>1, <3>1, <3>2 DEF Aside, Hands
    <3>4. Aside(recv, recv') \/ GivesUp(recv')
      BY <2>1, <3>2, <3>3 DEF GivesUp, Aside
    <3> QED BY <3>2, <3>3, <3>4 DEF FileSteps, OwnerKinds
  <2> QED BY <1>3, <2>2, <2>3
<1>4. ASSUME NEW b \in posts, M!ReceiveRemoval(b) PROVE FileSteps /\ OwnerKinds
  <2>1. CASE b \in recv.retired
    BY <1>1, <1>4, <2>1 DEF M!ReceiveRemoval, M!AppliedRemoval
  <2>2. CASE b \notin recv.retired
    <3> DEFINE o == M!Owned(recv, b)
    <3>1. recv' = [o EXCEPT !.removed = TRUE] /\ b \in M!Boots
      BY <1>0, <1>4, <2>2 DEF M!ReceiveRemoval, M!AppliedRemoval
    <3>2. /\ o \in RecvSet /\ Aside(recv, o) /\ o.owner = b /\ recv.retired \subseteq o.retired
          /\ recv.owner # b => recv.owner \in o.retired
      BY <1>0, <3>1, OwnedFacts
    <3>3. /\ recv' \in RecvSet /\ Aside(o, recv') /\ recv'.owner = o.owner /\ recv'.retired = o.retired
      BY <3>1, <3>2, RemovedFacts
    <3> HIDE DEF o
    <3>4. Aside(recv, recv') /\ Hands(b)
      BY <3>2, <3>3, SMTT(30) DEF Aside, Hands
    <3> QED BY <2>2, <3>3, <3>4 DEF FileSteps, OwnerKinds
  <2> QED BY <2>1, <2>2
<1>5. ASSUME NEW h \in Handlers, M!ExhaustBudget(h) \/ M!Dispatch(h) \/ M!DispatchRejected(h) \/ M!NotDispatched(h)
      PROVE  FileSteps /\ OwnerKinds
  <2>1. recv' = recv \/ Moves(recv', handler[h].env.from)
    BY <1>5, HandlerMoves
  <2> QED BY <1>1, <2>1, MovesKeepOwner DEF FileSteps, Moves
<1>6. ASSUME NEW h \in Handlers, M!Accept(h) PROVE FileSteps /\ OwnerKinds
  <2> DEFINE k == handler[h].env.from
             s == M!SetReceipt(k, [M!NoReceipt EXCEPT !.status = "accepted", !.to = handler[h].env.to])
  <2>1. recv' = [s EXCEPT !.active = k] /\ handler[h].pc = "sent"
    BY <1>6 DEF M!Accept
  <2>2. k \in M!Keys /\ handler[h].env.to \in 0 .. M!MaxItems + 1 /\ M!MaxTries \in Nat
    BY <2>1, AtWork, StreamTypes
  <2>3. [M!NoReceipt EXCEPT !.status = "accepted", !.to = handler[h].env.to] \in ReceiptSet
    <3>1. M!NoReceipt \in ReceiptSet
      BY <2>2, StreamTypes DEF M!NoReceipt, ReceiptSet, M!Statuses
    <3> QED BY <2>2, <3>1 DEF ReceiptSet, M!Statuses, M!Claimable
  <2>4. s \in RecvSet /\ s.owner = recv.owner /\ s.retired = recv.retired
    BY <1>0, <2>2, <2>3, SetReceiptFacts
  <2> HIDE DEF s, k
  <2>5. recv'.owner = recv.owner /\ recv'.retired = recv.retired
    BY <2>1, <2>4 DEF RecvSet
  <2> QED BY <1>6, <2>5 DEF FileSteps, OwnerKinds
<1>7. ASSUME NEW m \in terms, M!Settle(m) PROVE FileSteps /\ OwnerKinds
  <2>1. recv' = M!Settled(m) /\ m.turn.key \in M!Keys
    BY <1>7, Typed DEF StreamInv, M!Settle, M!Dispatches
  <2>2. CASE M!Settled(m) = recv
    BY <1>1, <2>1, <2>2
  <2>3. CASE M!Settled(m) # recv
    <3>1. /\ recv.receipts[m.turn.key].attempt = m.turn.attempt
          /\ \/ m.status = "completed" /\ Completes(recv', m.turn.key)
             \/ Moves(recv', m.turn.key)
      BY <1>0, <2>1, <2>3, SettledFacts, SMTT(30)
    <3>2. CASE m.status = "completed" /\ Completes(recv', m.turn.key)
      BY <3>1, <3>2 DEF FileSteps, OwnerKinds, Completes
    <3>3. CASE Moves(recv', m.turn.key)
      BY <2>1, <3>3, MovesKeepOwner DEF FileSteps
    <3> QED BY <3>1, <3>2, <3>3, SMTT(30)
  <2> QED BY <2>2, <2>3
<1>8. ASSUME (\E g : recv' = M!GenerationExit(g)) \/ recv' = M!Expired PROVE FileSteps /\ OwnerKinds
  <2>1. recv' = recv \/ Moves(recv', recv.active)
    BY <1>0, <1>8, ExitFacts
  <2> QED BY <1>1, <2>1, MovesKeepOwner DEF FileSteps, Moves
<1>9. CASE M!ManualRetry
  <2> DEFINE k == recv.active
             r == [recv.receipts[k] EXCEPT !.granted = TRUE]
  <2>1. /\ k # 0 /\ recv.receipts[k].status = "failed_terminal"
        /\ recv' = [M!SetReceipt(k, r) EXCEPT !.poisoned = FALSE]
    BY <1>9 DEF M!ManualRetry
  <2>2. k \in M!Keys
    BY <1>0, <2>1, ScopeFacts DEF RecvSet, M!Keys
  <2>3. r \in ReceiptSet /\ r.to = recv.receipts[k].to /\ r.status = "failed_terminal"
    <3>1. recv.receipts[k] \in ReceiptSet
      BY <1>0, <2>2 DEF RecvSet
    <3> QED BY <2>1, <3>1 DEF ReceiptSet
  <2>4. Moves(recv', k)
    BY <1>0, <2>1, <2>2, <2>3, ReceiptMoves
  <2> QED BY <2>2, <2>4, MovesKeepOwner DEF FileSteps
<1>10. \/ recv' = recv
       \/ M!RefreshReceiver
       \/ recv' = M!Abandoned \/ recv' = [M!Owned(M!Abandoned, hubBoot) EXCEPT !.removed = TRUE]
       \/ \E b \in posts : M!ReceiveRemoval(b)
       \/ \E h \in Handlers : M!ExhaustBudget(h) \/ M!Dispatch(h) \/ M!DispatchRejected(h) \/ M!NotDispatched(h) \/ M!Accept(h)
       \/ \E m \in terms : M!Settle(m)
       \/ (\E g : recv' = M!GenerationExit(g)) \/ recv' = M!Expired
       \/ M!ManualRetry
  <2>1. ASSUME M!HubStep PROVE <1>10
    BY <2>1 DEF M!HubStep, M!Ingest, M!Timeout, M!EndMeeting, M!Finalize, M!Close, M!ReconcileCompletion, M!HubCrash, M!RefreshHub,
       M!RemoveStart, M!RemoveFails, M!RemoveFinish, M!Retire, M!RetireCrash, M!Freeze, M!Resend, M!Observe, M!Lose
  <2>2. ASSUME M!WorkerStep PROVE <1>10
    BY <2>2 DEF M!WorkerStep, M!WorkerDies, M!CliExit, M!LeaseExpires, M!FenceAck, M!FenceTeardown, M!ReceiverRestart,
       M!ManualAbandon, M!PaneEnds, M!TurnEnds, M!SettleExhausted, M!HandleWorkerExit
  <2>3. ASSUME NEW h \in Handlers, M!HandlerStep(h) PROVE <1>10
    BY <2>3 DEF M!HandlerStep, M!Refuse, M!AnswerExisting, M!Redispatch
  <2> QED BY <2>1, <2>2, <2>3 DEF M!Next
<1> QED BY <1>1, <1>2, <1>3, <1>4, <1>5, <1>6, <1>7, <1>8, <1>9, <1>10

(* What the receiver makes of a request: never a conflict. *)
LEMMA VerdictFacts ==
    ASSUME StreamInv, NEW h \in Handlers, handler[h].pc # "idle"
    PROVE  /\ M!Verdict(handler[h].env) \notin
                 {"duplicate", "delivery_in_flight", "delivery_partial_overlap", "delivery_gap"}
           /\ M!Verdict(handler[h].env) = "new" =>
                 /\ hub.head # M!NoHead /\ handler[h].env.from = hub.head.from
                 /\ handler[h].env.to = hub.head.to
                 /\ recv.active = 0 /\ ~recv.abandoned
                 /\ recv.receipts[handler[h].env.from].status = "none"
           /\ M!Verdict(handler[h].env) = "existing" =>
                 ~recv.abandoned /\ recv.receipts[handler[h].env.from].status # "none"
<1> DEFINE e == handler[h].env
<1>1. /\ e.from \in M!Keys /\ e.from <= e.to /\ e.to \in 0 .. M!MaxItems + 1 /\ e.from \in Nat /\ Sent(e.from, e.to)
  BY AtWork
<1>2. CASE recv.receipts[e.from].status = "completed" /\ e.to <= hub.acked
  BY <1>2 DEF M!Verdict
<1>3. CASE hub.head # M!NoHead /\ e.from = hub.head.from /\ e.to = hub.head.to
  <2>1. hub.head.from = hub.acked + 1 /\ hub.acked \in Nat /\ M!MaxItems \in Nat /\ recv.committed \in Nat
    BY <1>3, StreamTypes DEF StreamInv, HubShape, HubSet, RecvSet
  <2>2. CASE recv.receipts[e.from].status # "none"
    BY <2>2 DEF M!Verdict
  <2>3. CASE recv.receipts[e.from].status = "none"
    <3>1. recv.committed = hub.acked
      BY <1>3, <2>3 DEF StreamInv, Cursor
    <3>2. recv.active = 0
      <4>1. ~Open(e.from)
        BY <2>3 DEF Open
      <4>2. e.from # recv.active
        BY <1>1, <4>1, StreamTypes DEF ReceiptOK
      <4> QED BY <1>3, <4>2 DEF StreamInv, Cursor
    <3>3. ~(e.to <= recv.committed) /\ ~(e.from <= recv.committed) /\ ~(e.from > recv.committed + 1)
      BY <1>1, <1>3, <2>1, <3>1
    <3> QED BY <1>3, <2>3, <3>2, <3>3 DEF M!Verdict
  <2> QED BY <2>2, <2>3
<1> QED BY <1>1, <1>2, <1>3 DEF Sent

(* What a request undergoes. *)
RequestKinds(h) ==
    \/ handler'[h] = handler[h]
    \/ handler'[h] = M!Idle
    \/ /\ handler[h].pc = "idle" /\ handler'[h].pc = "sent" /\ handler'[h].env = hub'.head
       /\ ~handler'[h].done /\ hub'.head # M!NoHead /\ recv' = recv /\ handler'[h] \in RequestSet
    \/ /\ handler[h].pc \in {"sent", "dispatching"} /\ handler'[h].pc \in {"dispatching", "replied"}
       /\ handler'[h].env = handler[h].env /\ handler'[h] \in RequestSet
       /\ handler'[h].done => \/ handler[h].done
                              \/ recv'.receipts[handler[h].env.from].status = "completed"

(* What a step does to all requests. *)
RequestsChange ==
    /\ handler' \in [Handlers -> RequestSet]
    /\ \A h \in Handlers : RequestKinds(h)

(* An idle request. *)
LEMMA IdleFacts ==
    ASSUME scope \in Scopes
    PROVE  M!Idle \in RequestSet /\ M!Idle.pc = "idle" /\ ~M!Idle.done
<1>1. M!NoHead \in M!Head
  BY ScopeFacts DEF M!NoHead, M!Head
<1> QED BY <1>1, ScopeFacts DEF M!Idle, RequestSet

(* One request changes, in one of these ways. *)
LEMMA OneRequest ==
    ASSUME StreamInv, NEW h \in Handlers, NEW r \in RequestSet, handler' = [handler EXCEPT ![h] = r], RequestKinds(h)
    PROVE  RequestsChange
BY StreamTypes DEF RequestsChange, RequestKinds

(* The hub sends its head. *)
LEMMA SendFacts ==
    ASSUME StreamInv, NEW h \in Handlers, NEW e \in M!Head, e = hub'.head, e # M!NoHead, recv' = recv, M!Send(h, e)
    PROVE  RequestsChange
<1> DEFINE r == [M!Idle EXCEPT !.pc = "sent", !.env = e]
<1>1. handler' = [handler EXCEPT ![h] = r] /\ handler[h].pc = "idle"
  BY DEF M!Send
<1>2. r \in RequestSet /\ r.pc = "sent" /\ r.env = e /\ ~r.done
  BY StreamTypes, IdleFacts DEF RequestSet
<1> HIDE DEF r
<1>3. handler'[h] = r
  BY <1>1, StreamTypes
<1> QED BY <1>1, <1>2, <1>3, OneRequest DEF RequestKinds

(* The receiver answers. *)
LEMMA ReplyFacts ==
    ASSUME StreamInv, NEW h \in Handlers, NEW done \in BOOLEAN, M!Reply(h, done),
           handler[h].pc \in {"sent", "dispatching"}, recv'.committed \in 0 .. M!MaxItems + 1,
           done => recv'.receipts[handler[h].env.from].status = "completed"
    PROVE  RequestsChange /\ handler'[h].pc = "replied" /\ \A g \in Handlers \ {h} : handler'[g] = handler[g]
<1> DEFINE r == [handler[h] EXCEPT !.pc = "replied", !.done = done, !.through = recv'.committed]
<1>1. handler' = [handler EXCEPT ![h] = r]
  BY DEF M!Reply
<1>2. r \in RequestSet /\ r.pc = "replied" /\ r.env = handler[h].env /\ r.done = done
  BY StreamTypes DEF RequestSet
<1> HIDE DEF r
<1>3. handler'[h] = r
  BY <1>1, StreamTypes
<1>4. RequestKinds(h)
  BY <1>2, <1>3 DEF RequestKinds
<1>5. \A g \in Handlers \ {h} : handler'[g] = handler[g]
  BY <1>1, StreamTypes
<1> QED BY <1>1, <1>2, <1>3, <1>4, <1>5, OneRequest

(* Every step changes the requests in these ways. *)
LEMMA RequestChange ==
    ASSUME StreamInv, M!Next
    PROVE  RequestsChange
<1>0. /\ scope \in Scopes /\ recv \in RecvSet /\ handler \in [Handlers -> RequestSet]
      /\ recv.committed \in 0 .. M!MaxItems + 1
  BY StreamTypes DEF RecvSet
<1>1. ASSUME handler' = handler PROVE RequestsChange
  BY <1>0, <1>1 DEF RequestsChange, RequestKinds
<1>2. ASSUME NEW h \in Handlers, handler' = [handler EXCEPT ![h] = M!Idle] PROVE RequestsChange
  <2>1. handler'[h] = M!Idle
    BY <1>0, <1>2
  <2> QED BY <1>0, <1>2, <2>1, OneRequest, IdleFacts DEF RequestKinds
<1>3. CASE M!ReceiverRestart
  <2>1. handler' = [h \in Handlers |-> M!Idle]
    BY <1>3 DEF M!ReceiverRestart
  <2> QED BY <1>0, <2>1, IdleFacts DEF RequestsChange, RequestKinds
<1>4. ASSUME NEW h \in Handlers, M!Freeze(h) PROVE RequestsChange
  <2>1. PICK n \in 0 .. M!MaxBatch : /\ n <= items - hub.acked /\ M!Batch(n).to >= M!Batch(n).from
                                     /\ hub' = [hub EXCEPT !.head = M!Batch(n)] /\ M!Send(h, M!Batch(n))
    BY <1>4 DEF M!Freeze
  <2>2. M!Batch(n) \in M!Head /\ M!Batch(n) # M!NoHead
    BY <2>1, BatchFacts
  <2>3. hub'.head = M!Batch(n)
    BY <2>1, StreamTypes DEF HubSet
  <2> QED BY <1>4, <2>1, <2>2, <2>3, SendFacts DEF M!Freeze
<1>5. ASSUME NEW h \in Handlers, M!Resend(h) PROVE RequestsChange
  <2>1. hub.head \in M!Head /\ hub.head # M!NoHead /\ hub' = hub /\ recv' = recv /\ M!Send(h, hub.head)
    BY <1>5, StreamTypes DEF M!Resend, HubSet
  <2> QED BY <2>1, SendFacts
<1>6. ASSUME NEW h \in Handlers, M!Refuse(h) PROVE RequestsChange
  <2>1. /\ handler[h].pc = "sent" /\ recv' = recv /\ M!Reply(h, FALSE)
    BY <1>6, VerdictFacts DEF M!Refuse
  <2> QED BY <1>0, <2>1, ReplyFacts
<1>7. ASSUME NEW h \in Handlers, M!AnswerExisting(h) PROVE RequestsChange
  <2>1. /\ handler[h].pc = "sent" /\ recv' = recv /\ M!Reply(h, M!Receipt(h).status = "completed")
    BY <1>7 DEF M!AnswerExisting, M!Existing
  <2> QED BY <1>0, <2>1, ReplyFacts DEF M!Receipt
<1>8. ASSUME NEW h \in Handlers, M!ExhaustBudget(h) \/ M!Dispatch(h) \/ M!DispatchRejected(h) PROVE RequestsChange
  <2>1. handler[h].pc \in {"sent", "dispatching"} /\ M!Reply(h, FALSE)
    BY <1>8 DEF M!ExhaustBudget, M!Existing, M!Dispatch, M!DispatchRejected
  <2>2. recv'.committed \in 0 .. M!MaxItems + 1
    BY <1>0, <1>8, HandlerMoves DEF Moves
  <2> QED BY <2>1, <2>2, ReplyFacts
<1>9. ASSUME NEW h \in Handlers, M!NotDispatched(h) PROVE RequestsChange
  <2>1. handler[h].pc = "dispatching" /\ M!Reply(h, M!Receipt(h).status = "completed")
    BY <1>9 DEF M!NotDispatched
  <2>2. recv'.committed \in 0 .. M!MaxItems + 1
    BY <1>0, <1>9, HandlerMoves DEF Moves
  <2>3. M!Receipt(h).status = "completed" => recv' = recv
    BY <1>9 DEF M!NotDispatched
  <2> QED BY <2>1, <2>2, <2>3, ReplyFacts DEF M!Receipt
<1>10. ASSUME NEW h \in Handlers, M!Accept(h) \/ M!Redispatch(h) PROVE RequestsChange
  <2> DEFINE r == [handler[h] EXCEPT !.pc = "dispatching"]
  <2>1. handler[h].pc = "sent" /\ handler' = [handler EXCEPT ![h] = r]
    BY <1>10 DEF M!Accept, M!Redispatch, M!Existing
  <2>2. r \in RequestSet /\ r.pc = "dispatching" /\ r.env = handler[h].env /\ r.done = handler[h].done
    BY <1>0 DEF RequestSet
  <2> HIDE DEF r
  <2>3. handler'[h] = r
    BY <1>0, <2>1
  <2>4. RequestKinds(h)
    BY <2>1, <2>2, <2>3 DEF RequestKinds
  <2> QED BY <2>1, <2>2, <2>4, OneRequest
<1>11. \/ handler' = handler \/ M!ReceiverRestart
       \/ \E h \in Handlers :
             \/ handler' = [handler EXCEPT ![h] = M!Idle]
             \/ M!Freeze(h) \/ M!Resend(h) \/ M!HandlerStep(h)
  <2>1. ASSUME M!HubStep PROVE <1>11
    BY <2>1 DEF M!HubStep, M!Ingest, M!Timeout, M!EndMeeting, M!Finalize, M!Close, M!ReconcileCompletion, M!HubCrash, M!RefreshReceiver,
       M!RefreshHub, M!RemoveStart, M!RemoveFails, M!RemoveFinish, M!Retire, M!RetireCrash, M!Observe, M!Lose
  <2>2. ASSUME M!WorkerStep PROVE <1>11
    BY <2>2 DEF M!WorkerStep, M!WorkerDies, M!CliExit, M!LeaseExpires, M!FenceAck, M!FenceTeardown,
       M!ManualRetry, M!ManualAbandon, M!PaneEnds, M!TurnEnds, M!Settle, M!SettleExhausted, M!HandleWorkerExit, M!ReceiveRemoval
  <2> QED BY <2>1, <2>2 DEF M!Next
<1> QED BY <1>1, <1>2, <1>3, <1>4, <1>5, <1>6, <1>7, <1>8, <1>9, <1>10, <1>11 DEF M!HandlerStep

-----------------------------------------------------------------------------
(* The stream's invariant is kept. *)

(* A new receipt: accepted, the hub's head, the active one. *)
Accepts(k) ==
    /\ recv' \in RecvSet /\ k \in M!Keys /\ hub.head # M!NoHead /\ k = hub.head.from /\ k <= hub.head.to
    /\ recv.active = 0 /\ ~recv.abandoned /\ recv.receipts[k].status = "none"
    /\ recv'.committed = recv.committed /\ recv'.active = k /\ recv'.abandoned = recv.abandoned
    /\ \A i \in M!Keys : i # k => recv'.receipts[i] = recv.receipts[i]
    /\ recv'.receipts[k].status = "accepted" /\ recv'.receipts[k].to = hub.head.to
    /\ recv'.receipts[k].attempt = 0 /\ ~recv'.receipts[k].granted

(* A request that is accepted is about the hub's head. *)
LEMMA AcceptFacts ==
    ASSUME StreamInv, NEW h \in Handlers, M!Accept(h)
    PROVE  Accepts(handler[h].env.from) /\ hub' = hub
<1> DEFINE k == handler[h].env.from
           r == [M!NoReceipt EXCEPT !.status = "accepted", !.to = handler[h].env.to]
           s == M!SetReceipt(k, r)
<1>1. recv' = [s EXCEPT !.active = k] /\ handler[h].pc = "sent" /\ M!Verdict(handler[h].env) = "new" /\ hub' = hub
  BY DEF M!Accept, M!hubVars
<1>2. /\ k \in M!Keys /\ handler[h].env.to \in 0 .. M!MaxItems + 1 /\ M!MaxTries \in Nat /\ k <= handler[h].env.to
      /\ k \in 0 .. M!MaxItems + 1 /\ scope \in Scopes /\ recv \in RecvSet
  BY <1>1, AtWork, StreamTypes DEF M!Keys
<1>3. /\ r \in ReceiptSet /\ r.status = "accepted" /\ r.to = handler[h].env.to /\ r.attempt = 0 /\ ~r.granted
  <2>1. M!NoReceipt \in ReceiptSet /\ M!NoReceipt.attempt = 0 /\ ~M!NoReceipt.granted
    BY <1>2, StreamTypes DEF M!NoReceipt, ReceiptSet, M!Statuses
  <2> QED BY <1>2, <2>1 DEF ReceiptSet, M!Statuses, M!Claimable
<1>4. /\ s \in RecvSet /\ s.receipts[k] = r /\ s.committed = recv.committed /\ s.abandoned = recv.abandoned
      /\ \A i \in M!Keys : i # k => s.receipts[i] = recv.receipts[i]
  BY <1>2, <1>3, SetReceiptFacts, ZenonT(40)
<1> HIDE DEF s, r
<1>5. /\ recv' \in RecvSet /\ recv'.receipts = s.receipts /\ recv'.committed = s.committed
      /\ recv'.abandoned = s.abandoned /\ recv'.active = k
  BY <1>1, <1>2, <1>4 DEF RecvSet
<1>6. /\ hub.head # M!NoHead /\ k = hub.head.from /\ handler[h].env.to = hub.head.to
      /\ recv.active = 0 /\ ~recv.abandoned /\ recv.receipts[k].status = "none"
  BY <1>1, VerdictFacts, SMTT(30)
<1> QED BY <1>1, <1>2, <1>3, <1>4, <1>5, <1>6 DEF Accepts

(* What the receiver's file undergoes, an acceptance spelled out. *)
FileKinds ==
    \/ recv' \in RecvSet /\ Aside(recv, recv')
    \/ \E k \in M!Keys : Moves(recv', k)
    \/ \E m \in terms : /\ m.status = "completed" /\ recv.receipts[m.turn.key].attempt = m.turn.attempt
                        /\ Completes(recv', m.turn.key)
    \/ GivesUp(recv')
    \/ \E k \in M!Keys : Accepts(k)

(* Every step changes the receiver's file in one of these ways. *)
LEMMA FileCases ==
    ASSUME StreamInv, M!Next
    PROVE  FileKinds /\ recv' \in RecvSet
<1>1. FileSteps
  BY FileChange
<1>2. FileKinds
  BY <1>1, AcceptFacts, ZenonT(40) DEF FileSteps, FileKinds, Accepts
<1> QED BY <1>2 DEF FileKinds, Moves, Completes, GivesUp, Accepts

(* The active receipt is open, and it is the hub's head. *)
LEMMA ActiveFacts ==
    ASSUME StreamInv
    PROVE  /\ recv.active # 0 => /\ recv.active \in M!Keys /\ Open(recv.active) /\ hub.head # M!NoHead
                                 /\ recv.active = hub.head.from /\ ~recv.abandoned
                                 /\ recv.receipts[recv.active].to = hub.head.to
           /\ \A k \in M!Keys : Open(k) => k = recv.active /\ k # 0
           /\ recv.committed \in 0 .. M!MaxItems + 1 /\ hub.acked \in 0 .. M!MaxItems + 1
           /\ hub.head # M!NoHead => hub.head.from \in M!Keys /\ hub.head.to \in 0 .. M!MaxItems + 1
           /\ M!Keys \subseteq Nat \ {0}
<1>1. /\ recv.committed \in 0 .. M!MaxItems + 1 /\ hub.acked \in 0 .. M!MaxItems + 1 /\ recv.active \in 0 .. M!MaxItems + 1
      /\ hub.head.from \in 0 .. M!MaxItems + 1 /\ hub.head.to \in 0 .. M!MaxItems + 1 /\ M!MaxItems \in Nat
  BY StreamTypes DEF HubSet, RecvSet, M!Head
<1>2. M!Keys \subseteq Nat \ {0} /\ M!Keys = 1 .. M!MaxItems + 1
  BY DEF M!Keys
<1>3. hub.head # M!NoHead => hub.head.from \in M!Keys
  BY <1>1, <1>2 DEF StreamInv, HubShape
<1>4. recv.active # 0 => recv.active \in M!Keys
  BY <1>1, <1>2
<1>5. \A k \in M!Keys : Open(k) <=> k = recv.active
  BY StreamTypes DEF ReceiptOK
<1>6. recv.active # 0 => recv.receipts[recv.active].to = hub.head.to
  <2> SUFFICES ASSUME recv.active # 0 PROVE recv.receipts[recv.active].to = hub.head.to
    OBVIOUS
  <2>1. Open(recv.active)
    BY <1>4, <1>5
  <2>2. Sent(recv.active, recv.receipts[recv.active].to)
    BY <1>4, <2>1, StreamTypes, SMTT(30) DEF ReceiptOK, Open
  <2> QED BY <2>1, <2>2 DEF Sent, Open
<1> QED BY <1>1, <1>2, <1>3, <1>4, <1>5, <1>6 DEF StreamInv, Cursor

(* A completed receipt is never touched again. *)
LEMMA CompletedStay ==
    ASSUME StreamInv, M!Next, NEW k \in M!Keys, recv.receipts[k].status = "completed"
    PROVE  recv'.receipts[k] = recv.receipts[k]
<1>1. FileKinds
  BY FileCases
<1>2. k # recv.active
  BY ActiveFacts DEF Open
<1> QED BY <1>1, <1>2 DEF FileKinds, Aside, Moves, Completes, GivesUp, Accepts

(* The hub's side of a step, in terms of numbers. *)
LEMMA HubCases ==
    ASSUME StreamInv, M!Next
    PROVE  /\ hub' \in HubSet /\ hub'.acked >= hub.acked
           /\ \/ HubRests
              \/ /\ hub.head = M!NoHead /\ ~hub.finalAcked /\ hub'.head # M!NoHead /\ recv' = recv /\ items' = items
                 /\ hub'.acked = hub.acked /\ hub'.finalAcked = hub.finalAcked /\ hub'.phase = hub.phase
                 /\ hub'.head.from = hub.acked + 1 /\ hub'.head.from <= hub'.head.to
                 /\ IF hub'.head.final THEN hub.phase = 2 /\ hub'.head.to = items + 1
                                       ELSE hub'.head.to <= items
              \/ HubAcks
<1>0. HubKinds /\ Phases /\ hub \in HubSet /\ hub.acked \in Nat
  BY HubChange, StreamTypes DEF HubSet
<1>1. ASSUME NEW h \in Handlers, M!Freeze(h)
      PROVE  /\ hub.head = M!NoHead /\ ~hub.finalAcked /\ hub'.head # M!NoHead /\ recv' = recv /\ items' = items
             /\ hub'.acked = hub.acked /\ hub'.finalAcked = hub.finalAcked /\ hub'.phase = hub.phase
             /\ hub'.head.from = hub.acked + 1 /\ hub'.head.from <= hub'.head.to
             /\ IF hub'.head.final THEN hub.phase = 2 /\ hub'.head.to = items + 1
                                   ELSE hub'.head.to <= items
  <2>1. PICK n \in 0 .. M!MaxBatch : /\ n <= items - hub.acked /\ M!Batch(n).to >= M!Batch(n).from
                                     /\ hub' = [hub EXCEPT !.head = M!Batch(n)]
    BY <1>1 DEF M!Freeze
  <2>2. /\ hub'.head = M!Batch(n) /\ hub'.acked = hub.acked /\ hub'.finalAcked = hub.finalAcked
        /\ hub'.phase = hub.phase
    BY <1>0, <2>1 DEF HubSet
  <2>3. hub.head = M!NoHead /\ ~hub.finalAcked /\ recv' = recv /\ items' = items
    BY <1>1 DEF M!Freeze
  <2> QED BY <2>1, <2>2, <2>3, BatchFacts
<1>2. HubAcks => hub'.acked >= hub.acked
  <2> SUFFICES ASSUME HubAcks PROVE hub'.acked >= hub.acked
    OBVIOUS
  <2>1. hub.head # M!NoHead /\ hub'.acked = hub.head.to
    BY DEF HubAcks
  <2>2. hub.head.from = hub.acked + 1 /\ hub.head.from <= hub.head.to /\ hub.head.to \in Nat
    BY <2>1, ActiveFacts, StreamTypes DEF StreamInv, HubShape
  <2> QED BY <1>0, <2>1, <2>2
<1>3. hub' \in HubSet
  BY <1>0 DEF Phases
<1> QED BY <1>0, <1>1, <1>2, <1>3 DEF HubKinds, HubRests

(* What was sent stays sent. *)
LEMMA SentStays ==
    ASSUME StreamInv, M!Next, NEW k \in M!Keys, NEW to \in Nat, Sent(k, to)
    PROVE  Sent(k, to)'
<1>0. hub.acked \in Nat /\ hub'.acked \in Nat /\ hub'.acked >= hub.acked /\ M!MaxItems \in Nat
  BY HubCases, StreamTypes DEF HubSet
<1>1. CASE recv.receipts[k].status = "completed" /\ to <= hub.acked
  <2>1. recv'.receipts[k].status = "completed" /\ to <= hub'.acked
    BY <1>0, <1>1, CompletedStay
  <2> QED BY <2>1 DEF Sent
<1>2. CASE hub.head # M!NoHead /\ k = hub.head.from /\ to = hub.head.to
  <2>1. HubRests \/ HubAcks
    BY <1>2, HubCases
  <2>2. CASE HubRests
    BY <1>2, <2>2 DEF HubRests, Sent, M!NoHead
  <2>3. CASE HubAcks
    <3>1. recv'.receipts[k].status = "completed" /\ to <= hub'.acked
      BY <1>0, <1>2, <2>3 DEF HubAcks
    <3> QED BY <3>1 DEF Sent
  <2> QED BY <2>1, <2>2, <2>3
<1> QED BY <1>1, <1>2 DEF Sent

(* The hub's shape. *)
LEMMA HubShapeStep ==
    ASSUME StreamInv, M!Next
    PROVE  HubShape'
<1>0. /\ hub \in HubSet /\ hub' \in HubSet /\ hub.acked \in Nat /\ hub'.acked \in Nat /\ items \in Nat /\ Phases
      /\ hub.phase \in 0 .. 3 /\ hub'.phase \in 0 .. 3 /\ hub.head.to \in Nat /\ hub'.head.to \in Nat
      /\ hub.head.final \in BOOLEAN /\ hub'.head.final \in BOOLEAN /\ hub.finalAcked \in BOOLEAN
      /\ HubShape
  <2>1. hub \in HubSet /\ hub' \in HubSet /\ items \in 0 .. M!MaxItems /\ Phases /\ M!MaxItems \in Nat
    BY HubCases, HubChange, StreamTypes
  <2> QED BY <2>1 DEF HubSet, M!Head, StreamInv
<1>1. /\ hub'.phase >= hub.phase
      /\ items' = items \/ (items' = items + 1 /\ hub.phase = 0 /\ hub' = hub)
  BY <1>0 DEF Phases
<1>2. CASE HubRests
  BY <1>0, <1>1, <1>2 DEF HubRests, HubShape
<1>3. CASE HubAcks
  <2>1. /\ hub.head # M!NoHead /\ hub'.head = M!NoHead /\ hub'.acked = hub.head.to /\ items' = items
        /\ hub'.finalAcked = (hub.finalAcked \/ hub.head.final)
    BY <1>1, <1>3 DEF HubAcks
  <2>2. ~hub.finalAcked
    BY <1>0, <2>1 DEF HubShape
  <2> QED BY <1>0, <1>1, <2>1, <2>2 DEF HubShape
<1>4. CASE /\ hub.head = M!NoHead /\ ~hub.finalAcked /\ hub'.head # M!NoHead /\ recv' = recv /\ items' = items
           /\ hub'.acked = hub.acked /\ hub'.finalAcked = hub.finalAcked /\ hub'.phase = hub.phase
           /\ hub'.head.from = hub.acked + 1 /\ hub'.head.from <= hub'.head.to
           /\ IF hub'.head.final THEN hub.phase = 2 /\ hub'.head.to = items + 1
                                 ELSE hub'.head.to <= items
  BY <1>0, <1>4 DEF HubShape
<1> QED BY <1>2, <1>3, <1>4, HubCases

(* The head's first number names no settled batch while the hub has none. *)
LEMMA FreshKey ==
    ASSUME StreamInv, hub.head = M!NoHead, hub.acked + 1 \in M!Keys
    PROVE  recv.receipts[hub.acked + 1].status # "completed"
<1> DEFINE k == hub.acked + 1
<1> SUFFICES ASSUME recv.receipts[k].status = "completed" PROVE FALSE
  OBVIOUS
<1>1. k <= recv.receipts[k].to /\ Sent(k, recv.receipts[k].to)
  BY StreamTypes DEF ReceiptOK
<1>2. hub.acked \in Nat /\ recv.receipts[k].to \in Nat
  BY StreamTypes, ActiveFacts DEF RecvSet, ReceiptSet
<1>3. recv.receipts[k].to <= hub.acked
  BY <1>1 DEF Sent
<1> QED BY <1>1, <1>2, <1>3

(* A batch that is completed is the hub's head. *)
LEMMA CompletesHead ==
    ASSUME StreamInv, NEW k \in M!Keys, Completes(recv', k)
    PROVE  /\ hub.head # M!NoHead /\ k = hub.head.from /\ recv.active = k /\ recv'.active = 0
           /\ recv'.committed = hub.head.to /\ recv.receipts[k].to = hub.head.to /\ ~recv.abandoned
           /\ recv.committed = hub.acked /\ hub.head.from = hub.acked + 1
           /\ recv'.receipts[k].status = "completed" /\ recv'.receipts[k].to = hub.head.to
           /\ recv'.receipts[k].attempt = recv.receipts[k].attempt
<1>1. Open(k)
  BY DEF Completes, Open
<1>2. recv.active = k /\ k # 0
  BY <1>1, ActiveFacts
<1>3. hub.head # M!NoHead /\ k = hub.head.from /\ recv.receipts[k].to = hub.head.to /\ ~recv.abandoned
  BY <1>2, ActiveFacts
<1>4. recv.committed = hub.acked /\ hub.head.from = hub.acked + 1
  BY <1>1, <1>3 DEF StreamInv, Cursor, HubShape, Open
<1>5. /\ recv'.receipts[k].status = "completed" /\ recv'.receipts[k].to = recv.receipts[k].to
      /\ recv'.receipts[k].attempt = recv.receipts[k].attempt
  BY StreamTypes DEF Completes, RecvSet, ReceiptSet
<1> QED BY <1>2, <1>3, <1>4, <1>5 DEF Completes

(* The cursors. *)
LEMMA CursorStep ==
    ASSUME StreamInv, M!Next
    PROVE  Cursor'
<1>0. /\ FileKinds /\ Cursor /\ (hub.head # M!NoHead => hub.head.from \in M!Keys)
      /\ \A k \in M!Keys : k # 0
  BY FileCases, ActiveFacts DEF StreamInv
<1>1. CASE HubRests
  <2>0. hub'.head = hub.head /\ hub'.acked = hub.acked
    BY <1>1 DEF HubRests
  <2>1. CASE Aside(recv, recv')
    BY <1>0, <2>0, <2>1 DEF Aside, Cursor
  <2>2. ASSUME NEW k \in M!Keys, Moves(recv', k) PROVE Cursor'
    <3>1. \A i \in M!Keys : recv'.receipts[i].status = "completed" <=> recv.receipts[i].status = "completed"
      BY <2>2 DEF Moves
    <3> QED BY <1>0, <2>0, <2>2, <3>1 DEF Moves, Cursor
  <2>3. ASSUME NEW m \in terms, Completes(recv', m.turn.key) PROVE Cursor'
    <3>1. m.turn.key \in M!Keys
      BY <2>3 DEF Completes
    <3> DEFINE k == m.turn.key
    <3>2. /\ hub.head # M!NoHead /\ k = hub.head.from /\ recv'.active = 0 /\ recv'.committed = hub.head.to
          /\ recv'.receipts[k].status = "completed"
      BY <2>3, <3>1, CompletesHead
    <3> QED BY <2>0, <3>2 DEF Cursor
  <2>4. CASE GivesUp(recv')
    <3>1. \A i \in M!Keys : recv'.receipts[i].status = "completed" <=> recv.receipts[i].status = "completed"
      BY <1>0, <2>4, ActiveFacts DEF GivesUp, Open
    <3> QED BY <1>0, <2>0, <2>4, <3>1 DEF GivesUp, Cursor
  <2>5. ASSUME NEW k \in M!Keys, Accepts(k) PROVE Cursor'
    BY <1>0, <2>0, <2>5 DEF Accepts, Cursor
  <2> QED BY <1>0, <2>1, <2>2, <2>3, <2>4, <2>5 DEF FileKinds
<1>2. CASE HubAcks
  <2>1. /\ hub.head # M!NoHead /\ recv.receipts[hub.head.from].status = "completed" /\ hub'.head = M!NoHead
        /\ hub'.acked = hub.head.to /\ recv' = recv
    BY <1>2 DEF HubAcks
  <2>2. recv.active = 0
    BY <2>1, ActiveFacts DEF Open
  <2> QED BY <1>0, <2>1, <2>2 DEF Cursor
<1>3. CASE /\ hub.head = M!NoHead /\ hub'.head # M!NoHead /\ recv' = recv /\ hub'.acked = hub.acked
           /\ hub'.head.from = hub.acked + 1
  <2>1. hub.acked + 1 \in M!Keys
    <3>1. hub'.head.from \in 0 .. M!MaxItems + 1 /\ hub.acked \in Nat /\ M!MaxItems \in Nat
      BY HubCases, ActiveFacts, StreamTypes DEF HubSet, M!Head
    <3> QED BY <1>3, <3>1 DEF M!Keys
  <2>2. recv.receipts[hub.acked + 1].status # "completed" /\ recv.active = 0
    BY <1>3, <2>1, FreshKey, ActiveFacts
  <2> QED BY <1>0, <1>3, <2>2 DEF Cursor
<1> QED BY <1>1, <1>2, <1>3, HubCases

(* The requests. *)
LEMMA HandlerOKStep ==
    ASSUME StreamInv, M!Next, HubShape', NEW h \in Handlers
    PROVE  HandlerOK(h)'
<1>0. RequestKinds(h) /\ HandlerOK(h) /\ M!MaxItems \in Nat /\ M!Keys' = M!Keys
  BY RequestChange, StreamTypes, ScopeStays DEF RequestsChange, M!Next
<1>1. ASSUME handler[h].pc # "idle", handler'[h].env = handler[h].env
      PROVE  /\ handler'[h].env.from \in M!Keys /\ handler'[h].env.from <= handler'[h].env.to
             /\ Sent(handler[h].env.from, handler[h].env.to)'
  <2> DEFINE k == handler[h].env.from
             to == handler[h].env.to
  <2>1. k \in M!Keys /\ k <= to /\ to \in Nat /\ Sent(k, to)
    BY <1>0, <1>1, AtWork
  <2>2. PICK n \in Nat : n = to
    BY <2>1
  <2>3. PICK i \in M!Keys : i = k
    BY <2>1
  <2>4. Sent(i, n)'
    BY <2>1, <2>2, <2>3, SentStays
  <2>5. Sent(handler[h].env.from, handler[h].env.to)'
    BY <1>1, <2>2, <2>3, <2>4 DEF Sent
  <2> QED BY <1>1, <2>1, <2>5
<1>2. CASE handler'[h] = handler[h]
  BY <1>0, <1>1, <1>2, CompletedStay DEF HandlerOK
<1>3. CASE handler'[h] = M!Idle
  BY <1>3, IdleFacts, StreamTypes DEF HandlerOK
<1>4. CASE /\ handler[h].pc = "idle" /\ handler'[h].pc = "sent" /\ handler'[h].env = hub'.head
           /\ ~handler'[h].done /\ hub'.head # M!NoHead /\ recv' = recv /\ handler'[h] \in RequestSet
  <2>1. /\ hub'.head.from \in 0 .. M!MaxItems + 1 /\ hub'.acked \in Nat
    BY HubCases, <1>0 DEF HubSet, M!Head
  <2>2. hub'.head.from = hub'.acked + 1 /\ hub'.head.from <= hub'.head.to
    BY <1>4 DEF HubShape
  <2>4. hub'.head.from \in M!Keys
    BY <1>0, <2>1, <2>2 DEF M!Keys
  <2>3. hub'.head.from \in M!Keys'
    BY <1>0, <2>4
  <2> QED BY <1>4, <2>2, <2>3 DEF HandlerOK, Sent
<1>5. CASE /\ handler[h].pc \in {"sent", "dispatching"} /\ handler'[h].pc \in {"dispatching", "replied"}
           /\ handler'[h].env = handler[h].env /\ handler'[h] \in RequestSet
           /\ handler'[h].done => \/ handler[h].done
                                  \/ recv'.receipts[handler[h].env.from].status = "completed"
  <2>1. handler'[h].done => recv'.receipts[handler'[h].env.from].status = "completed"
    BY <1>0, <1>1, <1>5, CompletedStay DEF HandlerOK
  <2> QED BY <1>0, <1>1, <1>5, <2>1 DEF HandlerOK
<1> QED BY <1>0, <1>2, <1>3, <1>4, <1>5 DEF RequestKinds

(* The history only grows. *)
LEMMA RanGrows ==
    ASSUME StreamInv, M!Next
    PROVE  ran \subseteq ran'
<1>1. ASSUME M!HubStep PROVE ran' = ran
  BY <1>1 DEF M!HubStep, M!Ingest, M!Timeout, M!EndMeeting, M!Finalize, M!Close, M!ReconcileCompletion, M!HubCrash, M!RefreshReceiver,
     M!RefreshHub, M!RemoveStart, M!RemoveFails, M!RemoveFinish, M!Retire, M!RetireCrash, M!Freeze, M!Resend, M!Observe, M!Lose, M!workerVars
<1>2. ASSUME M!WorkerStep PROVE ran \subseteq ran'
  BY <1>2 DEF M!WorkerStep, M!WorkerDies, M!CliExit, M!LeaseExpires, M!FenceAck, M!FenceTeardown, M!ReceiverRestart,
     M!ManualRetry, M!ManualAbandon, M!PaneEnds, M!TurnEnds, M!Settle, M!SettleExhausted, M!HandleWorkerExit, M!ReceiveRemoval, M!workerVars
<1>3. ASSUME NEW h \in Handlers, M!HandlerStep(h) PROVE ran' = ran
  BY <1>3 DEF M!HandlerStep, M!Refuse, M!AnswerExisting, M!ExhaustBudget, M!Accept, M!Redispatch, M!Dispatch,
     M!DispatchRejected, M!NotDispatched, M!workerVars
<1> QED BY <1>1, <1>2, <1>3 DEF M!Next

(* The receipts. *)
LEMMA ReceiptOKStep ==
    ASSUME StreamInv, M!Next, NEW k \in M!Keys
    PROVE  ReceiptOK(k)'
<1>0. /\ FileKinds /\ ReceiptOK(k) /\ recv.receipts[k] \in ReceiptSet /\ recv.receipts[k].to \in Nat
      /\ M!MaxItems \in Nat /\ k # 0 /\ k \in Nat
  <2>1. recv.receipts[k] \in ReceiptSet /\ M!MaxItems \in Nat /\ ReceiptOK(k)
    BY StreamTypes DEF RecvSet
  <2> QED BY <2>1, FileCases, ActiveFacts DEF ReceiptSet
<1>1. recv.receipts[k].status # "none" =>
          k <= recv.receipts[k].to /\ Sent(k, recv.receipts[k].to)'
  <2> SUFFICES ASSUME recv.receipts[k].status # "none"
               PROVE  k <= recv.receipts[k].to /\ Sent(k, recv.receipts[k].to)'
    OBVIOUS
  <2>1. PICK n \in Nat : n = recv.receipts[k].to
    BY <1>0
  <2>2. k <= n /\ Sent(k, n)
    BY <1>0, <2>1 DEF ReceiptOK
  <2>3. Sent(k, n)'
    BY <2>2, SentStays
  <2>4. CASE recv'.receipts[k].to = n
    BY <2>1, <2>2, <2>3, <2>4 DEF Sent
  <2>5. recv'.receipts[k].to = n
    <3>1. CASE Aside(recv, recv')
      BY <2>1, <3>1 DEF Aside
    <3>2. ASSUME NEW i \in M!Keys, Moves(recv', i) PROVE <2>5
      BY <2>1, <3>2 DEF Moves
    <3>3. ASSUME NEW m \in terms, Completes(recv', m.turn.key) PROVE <2>5
      <4>1. m.turn.key \in M!Keys
        BY <3>3 DEF Completes
      <4>2. recv'.receipts[m.turn.key].to = recv.receipts[m.turn.key].to
        BY <3>3, <4>1, CompletesHead
      <4> QED BY <2>1, <3>3, <4>2 DEF Completes
    <3>4. CASE GivesUp(recv')
      BY <1>0, <2>1, <3>4 DEF GivesUp
    <3>5. ASSUME NEW i \in M!Keys, Accepts(i) PROVE <2>5
      BY <2>1, <3>5 DEF Accepts
    <3> QED BY <1>0, <3>1, <3>2, <3>3, <3>4, <3>5 DEF FileKinds
  <2> QED BY <2>4, <2>5
<1>2. ASSUME recv'.receipts[k].to = recv.receipts[k].to, recv.receipts[k].status # "none"
      PROVE  k <= recv'.receipts[k].to /\ Sent(k, recv.receipts[k].to)'
  BY <1>1, <1>2
<1>3. ASSUME NEW t \in ran, t.key = k, t.attempt = recv'.receipts[k].attempt
      PROVE  \E u \in ran' : u.key = k /\ u.attempt = recv'.receipts[k].attempt
  BY <1>3, RanGrows
<1>4. CASE recv'.receipts[k] = recv.receipts[k] /\ recv'.active = recv.active
  BY <1>0, <1>1, <1>3, <1>4 DEF ReceiptOK, Open
<1>5. CASE Aside(recv, recv')
  BY <1>4, <1>5 DEF Aside
<1>6. ASSUME NEW i \in M!Keys, Moves(recv', i) PROVE ReceiptOK(k)'
  <2>1. CASE i # k
    BY <1>4, <1>6, <2>1 DEF Moves
  <2>2. CASE i = k
    <3>1. /\ recv'.receipts[k].to = recv.receipts[k].to /\ recv'.active = recv.active
          /\ recv.receipts[k].status \notin {"none", "completed", "abandoned"}
          /\ recv'.receipts[k].status \notin {"none", "completed", "abandoned"}
      BY <1>6, <2>2 DEF Moves
    <3> QED BY <1>0, <1>2, <3>1 DEF ReceiptOK, Open
  <2> QED BY <2>1, <2>2
<1>7. ASSUME NEW m \in terms, m.status = "completed", recv.receipts[m.turn.key].attempt = m.turn.attempt,
             Completes(recv', m.turn.key)
      PROVE  ReceiptOK(k)'
  <2> DEFINE i == m.turn.key
  <2>0. i \in M!Keys
    BY <1>7 DEF Completes
  <2>1. /\ recv.active = i /\ recv'.active = 0 /\ recv'.receipts[i].status = "completed"
        /\ recv'.receipts[i].to = recv.receipts[i].to
        /\ recv'.receipts[i].attempt = recv.receipts[i].attempt
    BY <1>7, <2>0, CompletesHead
  <2>2. CASE i # k
    <3>1. recv'.receipts[k] = recv.receipts[k] /\ ~Open(k)
      BY <1>0, <1>7, <2>1, <2>2 DEF Completes, ReceiptOK
    <3> QED BY <1>0, <1>1, <1>3, <2>1, <3>1 DEF ReceiptOK, Open
  <2>3. CASE i = k
    <3>1. m.turn \in ran /\ m.turn.key = k /\ m.turn.attempt = recv'.receipts[k].attempt
      BY <1>7, <2>1, <2>3 DEF StreamInv, MeetRuns
    <3>2. \E u \in ran' : u.key = k /\ u.attempt = recv'.receipts[k].attempt
      BY <1>3, <3>1
    <3>3. recv.receipts[k].status # "none"
      BY <1>7, <2>3 DEF Completes
    <3> QED BY <1>0, <1>2, <2>1, <2>3, <3>2, <3>3 DEF ReceiptOK, Open
  <2> QED BY <2>2, <2>3
<1>8. CASE GivesUp(recv')
  <2>1. CASE k # recv.active
    <3>1. recv'.receipts[k] = recv.receipts[k] /\ recv'.active = 0 /\ ~Open(k)
      BY <1>0, <1>8, <2>1 DEF GivesUp, ReceiptOK
    <3> QED BY <1>0, <1>1, <1>3, <3>1 DEF ReceiptOK, Open
  <2>2. CASE k = recv.active
    <3>1. /\ recv'.receipts[k].status = "abandoned" /\ recv'.active = 0
          /\ recv'.receipts[k].to = recv.receipts[k].to
          /\ recv.receipts[k].status # "none"
      BY <1>0, <1>8, <2>2 DEF GivesUp, ReceiptOK, Open
    <3> QED BY <1>0, <1>2, <3>1 DEF ReceiptOK, Open
  <2> QED BY <2>1, <2>2
<1>9. ASSUME NEW i \in M!Keys, Accepts(i) PROVE ReceiptOK(k)'
  <2>1. CASE i # k
    <3>1. recv'.receipts[k] = recv.receipts[k] /\ recv'.active # k /\ ~Open(k)
      BY <1>0, <1>9, <2>1 DEF Accepts, ReceiptOK
    <3> QED BY <1>0, <1>1, <1>3, <3>1 DEF ReceiptOK, Open
  <2>2. CASE i = k
    <3>1. /\ hub.head # M!NoHead /\ k = hub.head.from /\ k <= hub.head.to /\ recv'.active = k
          /\ recv'.receipts[k].status = "accepted" /\ recv'.receipts[k].to = hub.head.to
      BY <1>9, <2>2 DEF Accepts
    <3>2. PICK n \in Nat : n = hub.head.to
      BY <1>0, <3>1, ActiveFacts
    <3>3. Sent(k, n)'
      <4>1. Sent(k, n)
        BY <3>1, <3>2 DEF Sent
      <4> QED BY <4>1, SentStays
    <3> QED BY <1>0, <3>1, <3>2, <3>3 DEF ReceiptOK, Open, Sent
  <2> QED BY <2>1, <2>2
<1> QED BY <1>0, <1>5, <1>6, <1>7, <1>8, <1>9 DEF FileKinds

(* Which batches are completed changes with a completion only. *)
LEMMA CoveringKept ==
    ASSUME StreamInv, M!Next, recv'.receipts = recv.receipts \/ (\E k \in M!Keys : Moves(recv', k))
                            \/ GivesUp(recv') \/ (\E k \in M!Keys : Accepts(k)),
           NEW s
    PROVE  Covering(s)' = Covering(s)
<1>0. M!Keys' = M!Keys
  BY ScopeStays DEF M!Next
<1>1. \A j \in M!Keys : /\ recv'.receipts[j].status = "completed" <=> recv.receipts[j].status = "completed"
                        /\ recv.receipts[j].status = "completed" => recv'.receipts[j].to = recv.receipts[j].to
  BY ActiveFacts, CompletedStay DEF Moves, GivesUp, Accepts
<1> QED BY <1>0, <1>1 DEF Covering

(* Every number below the cursor belongs to one completed batch. *)
LEMMA TiledStep ==
    ASSUME StreamInv, M!Next
    PROVE  Tiled'
<1>0. FileKinds /\ Tiled /\ M!Keys' = M!Keys
  BY FileCases, ScopeStays DEF StreamInv, M!Next
<1>1. CASE recv'.receipts = recv.receipts \/ (\E k \in M!Keys : Moves(recv', k))
           \/ GivesUp(recv') \/ (\E k \in M!Keys : Accepts(k))
  <2>1. CASE recv'.committed = recv.committed
    <3> SUFFICES ASSUME NEW s \in 1 .. recv'.committed PROVE \E k \in M!Keys' : Covering(s)' = {k}
      BY DEF Tiled
    <3>1. PICK k \in M!Keys : Covering(s) = {k}
      BY <1>0, <2>1 DEF Tiled
    <3> QED BY <1>0, <1>1, <3>1, CoveringKept
  <2>2. CASE recv'.committed # recv.committed
    <3>1. \E m \in terms : Completes(recv', m.turn.key)
      BY <1>0, <2>2 DEF FileKinds, Aside, Moves, GivesUp, Accepts
    <3>2. PICK i \in M!Keys : Completes(recv', i)
      BY <3>1 DEF Completes
    <3>3. recv'.receipts[i].status = "completed" /\ recv.receipts[i].status # "completed"
      BY <3>2, CompletesHead DEF Completes
    <3>4. recv.receipts[i].status # "none" /\ recv.active = i /\ i # 0
      BY <3>2, CompletesHead, ActiveFacts DEF Completes
    <3> QED BY <1>1, <3>3, <3>4 DEF Moves, GivesUp, Accepts
  <2> QED BY <2>1, <2>2
<1>2. ASSUME NEW i \in M!Keys, Completes(recv', i) PROVE Tiled'
  <2>1. /\ hub.head # M!NoHead /\ i = hub.head.from /\ recv'.committed = hub.head.to
        /\ recv.receipts[i].to = hub.head.to /\ recv.committed = hub.acked /\ i = hub.acked + 1
        /\ recv'.receipts[i].status = "completed" /\ recv'.receipts[i].to = hub.head.to
        /\ recv.receipts[i].status # "completed"
    BY <1>2, CompletesHead DEF Completes
  <2>2. \A j \in M!Keys : j # i => recv'.receipts[j] = recv.receipts[j]
    BY <1>2 DEF Completes
  <2>3. /\ hub.acked \in Nat /\ hub.head.to \in Nat /\ M!Keys \subseteq Nat /\ M!MaxItems \in Nat
    BY <2>1, ActiveFacts, StreamTypes
  <2>4. \A j \in M!Keys : j # i /\ recv.receipts[j].status = "completed" =>
                            recv.receipts[j].to \in Nat /\ recv.receipts[j].to <= hub.acked
    <3> SUFFICES ASSUME NEW j \in M!Keys, j # i, recv.receipts[j].status = "completed"
                 PROVE  recv.receipts[j].to \in Nat /\ recv.receipts[j].to <= hub.acked
      OBVIOUS
    <3>1. recv.receipts[j].to \in Nat
      <4>1. recv.receipts[j] \in ReceiptSet
        BY StreamTypes DEF RecvSet
      <4> QED BY <2>3, <4>1 DEF ReceiptSet
    <3> QED BY <2>1, <3>1, StreamTypes DEF ReceiptOK, Sent
  <2> SUFFICES ASSUME NEW s \in 1 .. recv'.committed PROVE \E k \in M!Keys' : Covering(s)' = {k}
    BY DEF Tiled
  <2>5. s \in Nat /\ s >= 1 /\ s <= hub.head.to
    BY <2>1, <2>3
  <2>6. CASE s <= hub.acked
    <3>1. PICK k \in M!Keys : Covering(s) = {k}
      BY <1>0, <2>1, <2>3, <2>5, <2>6 DEF Tiled
    <3>2. Covering(s)' = Covering(s)
      BY <1>0, <2>1, <2>2, <2>3, <2>5, <2>6 DEF Covering
    <3> QED BY <1>0, <3>1, <3>2
  <2>7. CASE ~(s <= hub.acked)
    <3>1. i <= s
      BY <2>1, <2>3, <2>5, <2>7
    <3>2. \A j \in M!Keys : (recv'.receipts[j].status = "completed" /\ j <= s /\ s <= recv'.receipts[j].to) <=> j = i
      <4>1. ASSUME NEW j \in M!Keys, j # i, recv'.receipts[j].status = "completed", s <= recv'.receipts[j].to PROVE FALSE
        <5>1. recv.receipts[j].to \in Nat /\ recv.receipts[j].to <= hub.acked /\ s <= recv.receipts[j].to
          BY <2>2, <2>4, <4>1
        <5> QED BY <2>3, <2>5, <2>7, <5>1
      <4> QED BY <2>1, <2>5, <3>1, <4>1
    <3>3. Covering(s)' = {i}
      BY <1>0, <3>2 DEF Covering
    <3> QED BY <1>0, <3>3
  <2> QED BY <2>6, <2>7
<1>3. ASSUME NEW m \in terms, Completes(recv', m.turn.key) PROVE Tiled'
  BY <1>2, <1>3 DEF Completes
<1> QED BY <1>0, <1>1, <1>3 DEF FileKinds, Aside

(* Boots, readiness and the removals under way. *)
BootKinds ==
    /\ hubBoot' \in M!Boots /\ ready' \in {"no", "receiver", "yes"}
    /\ hubBoot' = hubBoot \/ (hubBoot' = hubBoot + 1 /\ ready' = "no")
    /\ ready' # "no" => ready # "no" \/ (recv'.owner = hubBoot /\ hubBoot' = hubBoot)
    /\ posts' \subseteq posts \cup {hubBoot} /\ (hubBoot \in posts' => hubBoot \in posts \/ ready = "yes")

(* Every step changes the boot, its readiness and the removals in these ways. *)
LEMMA BootChange ==
    ASSUME StreamInv, M!Next
    PROVE  BootKinds
<1>0. /\ hubBoot \in M!Boots /\ ready \in {"no", "receiver", "yes"} /\ recv \in RecvSet
      /\ M!MaxHubBoot \in Nat /\ hubBoot \in Nat
  <2>1. hubBoot \in M!Boots /\ ready \in {"no", "receiver", "yes"} /\ recv \in RecvSet /\ scope \in Scopes
    BY Typed DEF StreamInv
  <2> QED BY <2>1, ScopeFacts DEF M!Boots
<1>1. ASSUME UNCHANGED <<hubBoot, ready, posts>> PROVE BootKinds
  BY <1>0, <1>1 DEF BootKinds
<1>2. ASSUME hubBoot < M!MaxHubBoot, hubBoot' = hubBoot + 1, ready' = "no", posts' = posts PROVE BootKinds
  <2>1. hubBoot + 1 \in M!Boots
    BY <1>0, <1>2 DEF M!Boots
  <2> QED BY <1>0, <1>2, <2>1 DEF BootKinds
<1>3. CASE M!RefreshReceiver
  <2>1. recv' = M!Owned(recv, hubBoot) /\ ready' = "receiver" /\ UNCHANGED <<hubBoot, posts>>
    BY <1>3 DEF M!RefreshReceiver
  <2>2. recv'.owner = hubBoot
    BY <1>0, <2>1, OwnedFacts
  <2> QED BY <1>0, <2>1, <2>2 DEF BootKinds
<1>4. CASE M!RefreshHub
  <2>1. ready = "receiver" /\ ready' = "yes" /\ UNCHANGED <<hubBoot, posts>>
    BY <1>4 DEF M!RefreshHub
  <2> QED BY <1>0, <2>1 DEF BootKinds
<1>5. CASE M!RemoveStart
  <2>1. ready = "yes" /\ posts' = posts \cup {hubBoot} /\ UNCHANGED <<hubBoot, ready>>
    BY <1>5 DEF M!RemoveStart
  <2> QED BY <1>0, <2>1 DEF BootKinds
<1>6. ASSUME NEW b \in posts, M!ReceiveRemoval(b) PROVE BootKinds
  <2>1. posts' = posts \ {b} /\ UNCHANGED <<hubBoot, ready>>
    BY <1>6 DEF M!ReceiveRemoval
  <2> QED BY <1>0, <2>1 DEF BootKinds
<1>7. \/ UNCHANGED <<hubBoot, ready, posts>>
      \/ hubBoot < M!MaxHubBoot /\ hubBoot' = hubBoot + 1 /\ ready' = "no" /\ posts' = posts
      \/ M!RefreshReceiver \/ M!RefreshHub \/ M!RemoveStart \/ \E b \in posts : M!ReceiveRemoval(b)
  <2>1. ASSUME M!HubStep PROVE <1>7
    BY <2>1 DEF M!HubStep, M!Ingest, M!Timeout, M!EndMeeting, M!Finalize, M!Close, M!ReconcileCompletion, M!HubCrash,
       M!RemoveFails, M!RemoveFinish, M!Retire, M!RetireCrash, M!Freeze, M!Resend, M!Observe, M!Lose
  <2>2. ASSUME M!WorkerStep PROVE <1>7
    BY <2>2 DEF M!WorkerStep, M!WorkerDies, M!CliExit, M!LeaseExpires, M!FenceAck, M!FenceTeardown, M!ReceiverRestart,
       M!ManualRetry, M!ManualAbandon, M!PaneEnds, M!TurnEnds, M!Settle, M!SettleExhausted, M!HandleWorkerExit, M!hubVars
  <2>3. ASSUME NEW h \in Handlers, M!HandlerStep(h) PROVE UNCHANGED <<hubBoot, ready, posts>>
    BY <2>3 DEF M!HandlerStep, M!Refuse, M!AnswerExisting, M!ExhaustBudget, M!Accept, M!Redispatch, M!Dispatch,
       M!DispatchRejected, M!NotDispatched, M!hubVars
  <2> QED BY <2>1, <2>2, <2>3 DEF M!Next
<1> QED BY <1>1, <1>2, <1>3, <1>4, <1>5, <1>6, <1>7

(* The owners. *)
LEMMA OwningStep ==
    ASSUME StreamInv, M!Next
    PROVE  Owning' /\ hub'.owner >= hub.owner /\ recv'.owner >= recv.owner
<1>0. /\ hubBoot \in Nat /\ hubBoot' \in Nat /\ hubBoot' >= hubBoot /\ hub.owner \in Nat /\ recv.owner \in Nat
      /\ BootKinds /\ OwnerKinds /\ Phases /\ Owning
  <2>1. hubBoot \in M!Boots /\ hub.owner \in M!Boots /\ recv.owner \in M!Boots /\ BootKinds
    BY BootChange, StreamTypes DEF HubSet, RecvSet
  <2>2. M!Boots \subseteq Nat
    BY ScopeFacts, StreamTypes DEF M!Boots
  <2>3. hubBoot \in Nat /\ hubBoot' \in Nat /\ hubBoot' >= hubBoot
    BY <2>1, <2>2 DEF BootKinds
  <2> QED BY <2>1, <2>2, <2>3, FileChange, HubChange DEF StreamInv
<1>1. hub'.owner = hub.owner \/ hub'.owner = hubBoot
  BY <1>0 DEF Phases
<1>2. \/ recv'.owner = recv.owner /\ recv'.retired = recv.retired
      \/ Hands(hubBoot)
      \/ Hands(recv.owner)
  BY <1>0 DEF OwnerKinds, Owning
<1>3. recv'.owner \in {recv.owner, hubBoot} /\ recv.retired \subseteq recv'.retired
      /\ (recv.owner = recv'.owner \/ recv.owner \in recv'.retired)
  BY <1>2 DEF Hands
<1>4. recv.owner <= hubBoot /\ hub.owner <= hubBoot
  BY <1>0 DEF Owning
<1>5. ready' # "no" => recv'.owner = hubBoot'
  BY <1>0, <1>3 DEF BootKinds, Owning
<1>6. \A b \in posts' : b = recv'.owner \/ b \in recv'.retired
  <2> SUFFICES ASSUME NEW b \in posts' PROVE b = recv'.owner \/ b \in recv'.retired
    OBVIOUS
  <2>1. b \in posts \/ (b = hubBoot /\ ready = "yes")
    BY <1>0 DEF BootKinds
  <2>2. b = recv.owner \/ b \in recv.retired
    BY <1>0, <2>1 DEF Owning
  <2> QED BY <1>3, <2>2
<1>7. hub'.owner <= hubBoot' /\ recv'.owner <= hubBoot'
  BY <1>0, <1>1, <1>3, <1>4
<1>8. hub'.owner >= hub.owner /\ recv'.owner >= recv.owner
  BY <1>0, <1>1, <1>3, <1>4
<1> QED BY <1>5, <1>6, <1>7, <1>8 DEF Owning

(* A closed meeting. *)
LEMMA ClosedStep ==
    ASSUME StreamInv, M!Next, Cursor'
    PROVE  M!ClosedComplete'
<1>0. /\ Phases /\ HubShape /\ M!ClosedComplete /\ hub.acked \in Nat /\ items \in Nat /\ hub.phase \in 0 .. 3
      /\ hub.removed \in BOOLEAN
  BY HubChange, ActiveFacts, StreamTypes DEF StreamInv, HubSet
<1> SUFFICES ASSUME hub'.phase = 3, ~hub'.removed
             PROVE  recv'.committed = items' + 1 /\ hub'.acked = items' + 1
  BY DEF M!ClosedComplete
<1>1. ~hub.removed
  BY <1>0 DEF Phases
<1>2. hub.acked = items + 1 /\ hub.finalAcked /\ hub.phase >= 2
  BY <1>0, <1>1 DEF Phases, M!ClosedComplete, HubShape
<1>3. hub.head = M!NoHead
  BY <1>0, <1>2 DEF HubShape
<1>4. items' = items
  BY <1>0, <1>2 DEF Phases
<1>5. HubRests
  BY <1>2, <1>3, HubCases DEF HubAcks
<1>6. hub'.head = M!NoHead /\ hub'.acked = items' + 1
  BY <1>2, <1>3, <1>4, <1>5 DEF HubRests
<1> QED BY <1>6 DEF Cursor

(* Terminals, and the fence. *)
TermSet == [turn : M!Dispatches, status : {"completed", "failed", "cancelled", "ambiguous"}]
FenceSet == [key : 0 .. M!MaxItems + 1, attempt : 0 .. M!MaxTries]

(* The types of the worker's side. *)
LEMMA WorkerTypes ==
    ASSUME StreamInv
    PROVE  /\ worker \in 0 .. M!MaxWorkerGen /\ worker \in Nat /\ up \in BOOLEAN /\ turns \subseteq M!Dispatches
           /\ terms \subseteq TermSet /\ exits \subseteq 1 .. M!MaxWorkerGen /\ ran \subseteq M!Dispatches
           /\ fence \in FenceSet /\ grants \in 0 .. M!MaxGrants /\ grants \in Nat /\ restarts \in 0 .. M!MaxRestart
           /\ M!MaxWorkerGen \in Nat /\ M!MaxTries \in Nat /\ M!MaxGrants \in Nat /\ M!MaxRestart \in Nat /\ MeetRuns
           /\ waiting \in Handlers \cup {NoHandler} /\ removing \in {"no", "posted", "accepted"}
<1>1. scope \in Scopes
  BY Typed DEF StreamInv
<1> QED BY <1>1, Typed, ScopeFacts DEF StreamInv, TermSet, FenceSet

(* The new fence names the head. *)
LEMMA ArmedFacts ==
    ASSUME StreamInv, NEW a \in M!Keys
    PROVE  /\ M!Armed({}) = fence
           /\ M!Armed({a}) = [key |-> a, attempt |-> recv.receipts[a].attempt]
           /\ M!Armed({a}) \in FenceSet /\ M!Armed({a}) # M!NoFence
<1>1. (CHOOSE x \in {a} : TRUE) = a
  OBVIOUS
<1>2. M!Armed({a}) = [key |-> a, attempt |-> recv.receipts[a].attempt] /\ M!Armed({}) = fence
  BY <1>1 DEF M!Armed
<1>3. a \in 1 .. M!MaxItems + 1 /\ recv.receipts[a].attempt \in 0 .. M!MaxTries /\ M!MaxItems \in Nat
  BY StreamTypes DEF M!Keys, RecvSet, ReceiptSet
<1>4. M!Armed({a}) \in FenceSet
  BY <1>2, <1>3 DEF FenceSet
<1>5. M!Armed({a}) # M!NoFence
  <2>1. M!NoFence.key = 0 /\ M!Armed({a}).key = a /\ a # 0
    BY <1>2, <1>3 DEF M!NoFence
  <2> QED BY <2>1
<1> QED BY <1>2, <1>4, <1>5

(* The dispatch a claim makes. *)
Turn(h) == [key |-> handler[h].env.from, attempt |-> M!Receipt(h).attempt + 1, gen |-> M!NextGen]

(* A claim starts the next dispatch, on the running worker or a new one. *)
LEMMA DispatchFacts ==
    ASSUME StreamInv, NEW h \in Handlers, M!Dispatch(h)
    PROVE  /\ handler[h].pc = "dispatching" /\ Turn(h) \in M!Dispatches /\ turns' = turns \cup {Turn(h)}
           /\ worker' = M!NextGen /\ up' /\ worker' \in 1 .. M!MaxWorkerGen /\ worker' >= worker /\ (up => worker' = worker) /\ (~up => worker' = worker + 1)
           /\ Turn(h).gen = worker' /\ Turn(h).key = handler[h].env.from /\ Turn(h).attempt = M!Receipt(h).attempt + 1
           /\ UNCHANGED <<fence, terms, exits, grants, restarts, ran>>
<1>1. /\ handler[h].pc = "dispatching" /\ worker' = M!NextGen /\ up' = TRUE /\ turns' = turns \cup {Turn(h)}
      /\ M!NextGen <= M!MaxWorkerGen /\ M!Receipt(h).attempt < M!MaxTries
      /\ UNCHANGED <<fence, terms, exits, grants, restarts, ran>>
  BY DEF M!Dispatch, Turn
<1>2. handler[h].env.from \in M!Keys /\ M!Receipt(h).attempt \in Nat
  BY <1>1, AtWork, WorkerTypes DEF ReceiptSet
<1>3. M!NextGen \in 1 .. M!MaxWorkerGen /\ M!NextGen >= worker /\ (up => M!NextGen = worker) /\ (~up => M!NextGen = worker + 1)
  BY <1>1, WorkerTypes DEF M!NextGen, MeetRuns
<1>4. M!Receipt(h).attempt + 1 \in 1 .. M!MaxTries
  BY <1>1, <1>2, WorkerTypes
<1>5. Turn(h) \in M!Dispatches
  BY <1>2, <1>3, <1>4 DEF Turn, M!Dispatches
<1> QED BY <1>1, <1>3, <1>5 DEF Turn

(* The worker's side keeps its types; its runs are of generations it had. *)
WorkerOK ==
    /\ worker' \in 0 .. M!MaxWorkerGen /\ up' \in BOOLEAN /\ turns' \subseteq M!Dispatches
    /\ terms' \subseteq TermSet /\ exits' \subseteq 1 .. M!MaxWorkerGen /\ ran' \subseteq M!Dispatches
    /\ fence' \in FenceSet /\ grants' \in 0 .. M!MaxGrants /\ restarts' \in 0 .. M!MaxRestart /\ MeetRuns'

(* Every step keeps the worker's side in order. *)
LEMMA WorkerChange ==
    ASSUME StreamInv, M!Next
    PROVE  WorkerOK
<1>0. /\ worker \in 0 .. M!MaxWorkerGen /\ worker \in Nat /\ up \in BOOLEAN /\ turns \subseteq M!Dispatches
      /\ terms \subseteq TermSet /\ exits \subseteq 1 .. M!MaxWorkerGen /\ ran \subseteq M!Dispatches
      /\ fence \in FenceSet /\ grants \in 0 .. M!MaxGrants /\ restarts \in 0 .. M!MaxRestart
      /\ M!MaxWorkerGen \in Nat /\ M!MaxGrants \in Nat /\ M!MaxRestart \in Nat
      /\ (up => worker >= 1) /\ (\A t \in turns : t.gen <= worker)
      /\ \A m \in terms : m.turn.gen <= worker /\ (m.status = "completed" => m.turn \in ran)
  BY WorkerTypes DEF MeetRuns
<1>1. ASSUME UNCHANGED <<worker, ran>>, turns' \subseteq turns, terms' \subseteq terms, up' \in {up, FALSE},
             exits' \subseteq exits \cup (IF up THEN {worker} ELSE {}), fence' \in FenceSet,
             grants' \in 0 .. M!MaxGrants, restarts' \in 0 .. M!MaxRestart
      PROVE  WorkerOK
  <2>1. exits' \subseteq 1 .. M!MaxWorkerGen
    BY <1>0, <1>1
  <2>3. up' => up
    BY <1>1
  <2>4. (up' => worker' >= 1) /\ (\A t \in turns' : t.gen <= worker')
    BY <1>0, <1>1, <2>3
  <2>5. \A m \in terms' : m.turn.gen <= worker' /\ (m.status = "completed" => m.turn \in ran')
    BY <1>0, <1>1
  <2>2. MeetRuns'
    BY <2>4, <2>5 DEF MeetRuns
  <2>6. up' \in BOOLEAN
    BY <1>0, <1>1
  <2> QED BY <1>0, <1>1, <2>1, <2>2, <2>6 DEF WorkerOK
<1>2. ASSUME NEW h \in Handlers, M!Dispatch(h) PROVE WorkerOK
  <2>1. /\ Turn(h) \in M!Dispatches /\ turns' = turns \cup {Turn(h)} /\ up' /\ worker' \in 1 .. M!MaxWorkerGen /\ worker' >= worker
        /\ Turn(h).gen = worker' /\ UNCHANGED <<fence, terms, exits, grants, restarts, ran>>
    BY <1>2, DispatchFacts
  <2>2. worker' \in Nat /\ worker' >= 1
    BY <2>1
  <2>3. \A t \in turns' : t.gen <= worker'
    <3> SUFFICES ASSUME NEW t \in turns' PROVE t.gen <= worker'
      OBVIOUS
    <3>1. CASE t = Turn(h)
      BY <2>1, <2>2, <3>1
    <3>2. CASE t \in turns
      <4>1. t.gen \in Nat /\ t.gen <= worker
        BY <1>0, <3>2 DEF M!Dispatches
      <4> QED BY <1>0, <2>1, <2>2, <4>1
    <3> QED BY <2>1, <3>1, <3>2
  <2>4. \A m \in terms : m.turn.gen <= worker'
    <3> SUFFICES ASSUME NEW m \in terms PROVE m.turn.gen <= worker'
      OBVIOUS
    <3>1. m.turn \in M!Dispatches
      BY <1>0 DEF TermSet
    <3>2. m.turn.gen \in Nat
      BY <3>1 DEF M!Dispatches
    <3> QED BY <1>0, <2>1, <2>2, <3>2
  <2>5. MeetRuns'
    BY <1>0, <2>1, <2>2, <2>3, <2>4 DEF MeetRuns
  <2>6. up' \in BOOLEAN
    BY <1>2 DEF M!Dispatch
  <2> QED BY <1>0, <2>1, <2>5, <2>6 DEF WorkerOK
<1>3. ASSUME NEW t \in turns, NEW st \in {"completed", "failed", "cancelled", "ambiguous"}, M!TurnEnds(t, st)
      PROVE  WorkerOK
  <2> DEFINE m0 == [turn |-> t, status |-> st]
  <2>1. /\ turns' = turns \ {t} /\ terms' = terms \cup {m0} /\ t.gen = worker
        /\ ran' = (IF st = "completed" THEN ran \cup {t} ELSE ran)
        /\ UNCHANGED <<fence, worker, up, exits, grants, restarts>>
    BY <1>3 DEF M!TurnEnds
  <2>2. t \in M!Dispatches /\ m0 \in TermSet /\ m0.turn = t /\ m0.status = st
    BY <1>0 DEF TermSet
  <2> HIDE DEF m0
  <2>3. ran' \subseteq M!Dispatches /\ ran \subseteq ran' /\ (st = "completed" => t \in ran')
    BY <1>0, <2>1, <2>2
  <2>4. MeetRuns'
    BY <1>0, <2>1, <2>2, <2>3 DEF MeetRuns
  <2> QED BY <1>0, <2>1, <2>2, <2>3, <2>4 DEF WorkerOK
<1>4. M!NoFence \in FenceSet
  BY WorkerTypes, StreamTypes DEF M!NoFence, FenceSet
<1>5. ASSUME NEW heads, heads = {} \/ (\E a \in M!Keys : heads = {a}) PROVE M!Armed(heads) \in FenceSet
  <2>1. CASE heads = {}
    BY <1>0, <2>1 DEF M!Armed
  <2> QED BY <1>5, <2>1, ArmedFacts
<1>6. /\ \A g : M!Armed(M!GenerationHeads(g)) \in FenceSet
      /\ M!Armed(M!DispatchedHeads) \in FenceSet
  <2>1. \A g : M!GenerationHeads(g) = {} \/ (\E a \in M!Keys : M!GenerationHeads(g) = {a})
    BY ExitFacts, StreamTypes DEF Moves
  <2>2. M!DispatchedHeads = {} \/ (\E a \in M!Keys : M!DispatchedHeads = {a})
    BY ExitFacts, StreamTypes DEF Moves
  <2> QED BY <1>5, <2>1, <2>2
<1>7. CASE M!HubStep
  BY <1>0, <1>1, <1>7 DEF M!HubStep, M!Ingest, M!Timeout, M!EndMeeting, M!Finalize, M!Close, M!ReconcileCompletion, M!HubCrash, M!RefreshReceiver,
     M!RefreshHub, M!RemoveStart, M!RemoveFails, M!RemoveFinish, M!Retire, M!RetireCrash, M!Freeze, M!Resend, M!Observe, M!Lose, M!workerVars
<1>8. ASSUME NEW h \in Handlers, M!HandlerStep(h) PROVE WorkerOK
  <2>1. CASE M!Dispatch(h)
    BY <1>2, <2>1
  <2>2. CASE ~M!Dispatch(h)
    BY <1>0, <1>1, <1>8, <2>2 DEF M!HandlerStep, M!Refuse, M!AnswerExisting, M!ExhaustBudget, M!Accept, M!Redispatch,
       M!DispatchRejected, M!NotDispatched, M!workerVars
  <2> QED BY <2>1, <2>2
<1>9. CASE M!ManualRetry
  <2>1. grants' = grants + 1 /\ grants < M!MaxGrants /\ UNCHANGED <<fence, M!workerVars, restarts>>
    BY <1>9 DEF M!ManualRetry
  <2>2. grants' \in 0 .. M!MaxGrants
    BY <1>0, <2>1
  <2> QED BY <1>0, <1>1, <2>1, <2>2 DEF M!workerVars
<1>10. CASE M!ReceiverRestart
  <2>1. /\ restarts' = restarts + 1 /\ restarts < M!MaxRestart /\ up' = FALSE /\ terms' = {} /\ exits' = {}
        /\ fence' = (IF M!DispatchedHeads = {} THEN M!NoFence ELSE M!Armed(M!DispatchedHeads))
        /\ UNCHANGED <<worker, turns, grants, ran>>
    BY <1>10 DEF M!ReceiverRestart
  <2>2. restarts' \in 0 .. M!MaxRestart /\ fence' \in FenceSet
    BY <1>0, <1>4, <1>6, <2>1
  <2> QED BY <1>0, <1>1, <2>1, <2>2
<1>11. CASE M!WorkerDies \/ M!FenceTeardown
  BY <1>0, <1>1, <1>4, <1>11 DEF M!WorkerDies, M!FenceTeardown, M!hubVars
<1>12. CASE M!CliExit \/ M!LeaseExpires \/ M!FenceAck \/ M!ManualAbandon
  BY <1>0, <1>1, <1>4, <1>6, <1>12 DEF M!CliExit, M!LeaseExpires, M!FenceAck, M!ManualAbandon, M!hubVars, M!workerVars
<1>13. ASSUME NEW t \in turns, M!PaneEnds(t) PROVE WorkerOK
  BY <1>0, <1>1, <1>13 DEF M!PaneEnds
<1>14. ASSUME NEW m \in terms, M!Settle(m) \/ M!SettleExhausted(m) PROVE WorkerOK
  BY <1>0, <1>1, <1>14 DEF M!Settle, M!SettleExhausted
<1>15. ASSUME NEW g \in exits, M!HandleWorkerExit(g) PROVE WorkerOK
  BY <1>0, <1>1, <1>6, <1>15 DEF M!HandleWorkerExit
<1>16. ASSUME NEW b \in posts, M!ReceiveRemoval(b) PROVE WorkerOK
  BY <1>0, <1>1, <1>16 DEF M!ReceiveRemoval, M!workerVars
<1> QED BY <1>3, <1>7, <1>8, <1>9, <1>10, <1>11, <1>12, <1>13, <1>14, <1>15, <1>16 DEF M!Next, M!WorkerStep

(* Awaited requests and removals. *)
LEMMA WaitChange ==
    ASSUME StreamInv, M!Next
    PROVE  waiting' \in Handlers \cup {NoHandler} /\ removing' \in {"no", "posted", "accepted"}
<1>0. waiting \in Handlers \cup {NoHandler} /\ removing \in {"no", "posted", "accepted"}
  BY WorkerTypes, SMTT(30)
<1>1. CASE M!HubStep
  BY <1>0, <1>1 DEF M!HubStep, M!Ingest, M!Timeout, M!EndMeeting, M!Finalize, M!Close, M!ReconcileCompletion, M!HubCrash, M!RefreshReceiver,
     M!RefreshHub, M!RemoveStart, M!RemoveFails, M!RemoveFinish, M!Retire, M!RetireCrash, M!Freeze, M!Resend, M!Observe, M!Lose, M!Send
<1>2. CASE M!WorkerStep
  BY <1>0, <1>2 DEF M!WorkerStep, M!WorkerDies, M!CliExit, M!LeaseExpires, M!FenceAck, M!FenceTeardown, M!ReceiverRestart,
     M!ManualRetry, M!ManualAbandon, M!PaneEnds, M!TurnEnds, M!Settle, M!SettleExhausted, M!HandleWorkerExit, M!ReceiveRemoval, M!hubVars
<1>3. ASSUME NEW h \in Handlers, M!HandlerStep(h) PROVE waiting' = waiting /\ removing' = removing
  BY <1>3 DEF M!HandlerStep, M!Refuse, M!AnswerExisting, M!ExhaustBudget, M!Accept, M!Redispatch, M!Dispatch,
     M!DispatchRejected, M!NotDispatched, M!hubVars
<1> QED BY <1>0, <1>1, <1>2, <1>3 DEF M!Next

(* The type invariant is kept. *)
LEMMA TypeStep ==
    ASSUME StreamInv, M!Next
    PROVE  M!TypeOK'
<1>1. scope' = scope /\ scope \in Scopes
  BY StreamTypes DEF M!Next
<1>2. hub' \in HubSet /\ recv' \in RecvSet /\ handler' \in [Handlers -> RequestSet]
  BY HubCases, FileCases, RequestChange DEF RequestsChange
<1>3. items' \in 0 .. M!MaxItems
  BY HubChange, StreamTypes DEF Phases
<1>4. hubBoot' \in M!Boots /\ ready' \in {"no", "receiver", "yes"} /\ posts' \subseteq M!Boots
  <2>1. posts \subseteq M!Boots /\ hubBoot \in M!Boots
    BY Typed DEF StreamInv
  <2> QED BY <2>1, BootChange DEF BootKinds
<1>5. WorkerOK
  BY WorkerChange
<1>6. /\ HubSet' = HubSet /\ RecvSet' = RecvSet /\ RequestSet' = RequestSet /\ M!MaxItems' = M!MaxItems
      /\ M!Boots' = M!Boots /\ M!Dispatches' = M!Dispatches /\ M!MaxWorkerGen' = M!MaxWorkerGen /\ M!MaxTries' = M!MaxTries
      /\ M!MaxGrants' = M!MaxGrants /\ M!MaxRestart' = M!MaxRestart
  BY <1>1, ScopeStays
<1>7. TermSet' = TermSet /\ FenceSet' = FenceSet
  BY <1>6 DEF TermSet, FenceSet
<1>8. /\ scope' \in Scopes /\ hub' \in HubSet' /\ recv' \in RecvSet' /\ handler' \in [Handlers -> RequestSet']
      /\ items' \in 0 .. M!MaxItems' /\ hubBoot' \in M!Boots' /\ posts' \subseteq M!Boots'
      /\ fence' \in FenceSet' /\ worker' \in 0 .. M!MaxWorkerGen' /\ turns' \subseteq M!Dispatches' /\ terms' \subseteq TermSet'
      /\ exits' \subseteq 1 .. M!MaxWorkerGen' /\ grants' \in 0 .. M!MaxGrants' /\ restarts' \in 0 .. M!MaxRestart'
      /\ ran' \subseteq M!Dispatches' /\ up' \in BOOLEAN
  BY <1>1, <1>2, <1>3, <1>4, <1>5, <1>6, <1>7 DEF WorkerOK
<1> QED BY <1>4, <1>8, WaitChange DEF M!TypeOK, HubSet, RecvSet, RequestSet, ReceiptSet, TermSet, FenceSet

(* Stuttering steps and the bounds of the instance. *)
LEMMA StreamStep ==
    ASSUME StreamInv, [M!Next]_(M!vars)
    PROVE  StreamInv'
<1>1. CASE M!Next
  <2>1. HubShape' /\ M!TypeOK' /\ Tiled' /\ Owning' /\ Cursor'
    BY <1>1, HubShapeStep, TypeStep, TiledStep, OwningStep, CursorStep
  <2>2. M!ClosedComplete'
    BY <1>1, <2>1, ClosedStep
  <2>3. MeetRuns'
    BY <1>1, WorkerChange DEF WorkerOK
  <2>4. \A h \in Handlers : HandlerOK(h)'
    BY <1>1, <2>1, HandlerOKStep
  <2>5. \A k \in M!Keys' : ReceiptOK(k)'
    <3>1. M!Keys' = M!Keys
      BY <1>1, ScopeStays DEF M!Next
    <3> QED BY <1>1, <3>1, ReceiptOKStep
  <2> QED BY <2>1, <2>2, <2>3, <2>4, <2>5 DEF StreamInv
<1>2. CASE UNCHANGED M!vars
  <2> USE <1>2 DEF M!vars, M!state
  <2>1. M!Keys' = M!Keys /\ scope' = scope
    BY ScopeStays
  <2>2. M!TypeOK'
    BY <2>1, ScopeStays DEF StreamInv, M!TypeOK
  <2>3. HubShape' /\ Cursor' /\ Owning' /\ MeetRuns' /\ M!ClosedComplete'
    BY DEF StreamInv, HubShape, Cursor, Owning, MeetRuns, M!ClosedComplete
  <2>4. \A s : Covering(s)' = Covering(s)
    BY <2>1 DEF Covering
  <2>5. Tiled'
    BY <2>1, <2>4 DEF StreamInv, Tiled
  <2>6. \A k \in M!Keys' : ReceiptOK(k)'
    BY <2>1 DEF StreamInv, ReceiptOK, Sent, Open
  <2>7. \A h \in Handlers : HandlerOK(h)'
    BY <2>1 DEF StreamInv, HandlerOK, Sent
  <2> QED BY <2>2, <2>3, <2>5, <2>6, <2>7 DEF StreamInv
<1> QED BY <1>1, <1>2

-----------------------------------------------------------------------------
(* One request at a time and no restart. *)

(* Only a new request leaves the idle state. *)
LEMMA SenderAlone ==
    ASSUME StreamInv, M!Next, Single, Lone
    PROVE  /\ Lone'
           /\ \A h \in Handlers : handler'[h].pc = "dispatching" =>
                 \/ handler[h].pc = "dispatching" /\ handler'[h].env = handler[h].env
                 \/ M!Accept(h) \/ M!Redispatch(h)
<1>0. handler \in [Handlers -> RequestSet] /\ scope \in Scopes /\ IsFiniteSet(Handlers) /\ M!MaxOpen = 1
  BY StreamTypes, ScopeFacts DEF Single, M!MaxOpen
<1> DEFINE Ok == /\ Lone'
                 /\ \A h \in Handlers : handler'[h].pc = "dispatching" =>
                       \/ handler[h].pc = "dispatching" /\ handler'[h].env = handler[h].env
                       \/ M!Accept(h) \/ M!Redispatch(h)
<1>1. ASSUME handler' = handler PROVE Ok
  BY <1>1 DEF Lone
<1>2. ASSUME NEW h \in Handlers, NEW r, handler' = [handler EXCEPT ![h] = r],
             r.pc \in {"idle", "replied"} \/ M!Accept(h) \/ M!Redispatch(h),
             r.pc # "idle" => handler[h].pc # "idle"
      PROVE  Ok
  <2>1. handler'[h] = r /\ \A g \in Handlers \ {h} : handler'[g] = handler[g]
    BY <1>0, <1>2
  <2>2. \A g \in Handlers : handler'[g].pc # "idle" => handler[g].pc # "idle"
    BY <1>2, <2>1
  <2>3. Lone'
    BY <2>2 DEF Lone
  <2> QED BY <1>2, <2>1, <2>3
<1>3. ASSUME NEW h \in Handlers, NEW e, M!Send(h, e) PROVE Ok
  <2> DEFINE busy == {g \in Handlers : handler[g].pc # "idle"}
             r == [M!Idle EXCEPT !.pc = "sent", !.env = e]
  <2>1. Cardinality(busy) < 1 /\ handler' = [handler EXCEPT ![h] = r]
    BY <1>0, <1>3, MeetSets DEF M!Send
  <2>2. busy = {}
    <3>1. IsFiniteSet(busy)
      BY <1>0, FS_Subset
    <3>2. Cardinality(busy) \in Nat /\ (Cardinality(busy) = 0 <=> busy = {})
      BY <3>1, FS_CardinalityType, FS_EmptySet
    <3> QED BY <2>1, <3>2
  <2>3. r.pc = "sent"
    BY IdleFacts, <1>0 DEF RequestSet
  <2> HIDE DEF r
  <2>4. handler'[h].pc = "sent" /\ \A g \in Handlers \ {h} : handler'[g].pc = "idle"
    BY <1>0, <2>1, <2>2, <2>3
  <2> QED BY <2>4 DEF Lone
<1>4. ASSUME NEW h \in Handlers, M!HandlerStep(h) PROVE Ok
  <2>1. CASE M!Accept(h) \/ M!Redispatch(h)
    <3> DEFINE r == [handler[h] EXCEPT !.pc = "dispatching"]
    <3>1. handler[h].pc = "sent" /\ handler' = [handler EXCEPT ![h] = r]
      BY <2>1 DEF M!Accept, M!Redispatch, M!Existing
    <3> HIDE DEF r
    <3> QED BY <1>2, <2>1, <3>1
  <2>2. CASE \E d : M!Reply(h, d) /\ handler[h].pc \in {"sent", "dispatching"}
    <3>1. PICK d : M!Reply(h, d)
      BY <2>2
    <3> DEFINE r == [handler[h] EXCEPT !.pc = "replied", !.done = d, !.through = recv'.committed]
    <3>2. handler' = [handler EXCEPT ![h] = r]
      BY <3>1 DEF M!Reply
    <3>3. r.pc = "replied"
      BY <1>0 DEF RequestSet
    <3> HIDE DEF r
    <3> QED BY <1>2, <2>2, <3>2, <3>3
  <2> QED BY <1>4, <2>1, <2>2 DEF M!HandlerStep, M!Refuse, M!AnswerExisting, M!ExhaustBudget, M!Dispatch, M!DispatchRejected,
             M!NotDispatched, M!Existing
<1>5. ~M!ReceiverRestart
  BY WorkerTypes DEF M!ReceiverRestart, Single, M!MaxRestart
<1>6. CASE M!HubStep
  <2>1. ASSUME NEW h \in Handlers, handler' = [handler EXCEPT ![h] = M!Idle] PROVE Ok
    BY <1>0, <1>2, <2>1, IdleFacts
  <2>2. \/ handler' = handler
        \/ \E h \in Handlers : handler' = [handler EXCEPT ![h] = M!Idle] \/ \E e : M!Send(h, e)
    BY <1>6 DEF M!HubStep, M!Ingest, M!Timeout, M!EndMeeting, M!Finalize, M!Close, M!ReconcileCompletion, M!HubCrash, M!RefreshReceiver,
       M!RefreshHub, M!RemoveStart, M!RemoveFails, M!RemoveFinish, M!Retire, M!RetireCrash, M!Observe, M!Lose, M!Freeze, M!Resend
  <2> QED BY <1>1, <1>3, <2>1, <2>2
<1>7. CASE M!WorkerStep
  <2>1. handler' = handler
    BY <1>5, <1>7 DEF M!WorkerStep, M!WorkerDies, M!CliExit, M!LeaseExpires, M!FenceAck, M!FenceTeardown,
       M!ManualRetry, M!ManualAbandon, M!PaneEnds, M!TurnEnds, M!Settle, M!SettleExhausted, M!HandleWorkerExit, M!ReceiveRemoval
  <2> QED BY <1>1, <2>1
<1> QED BY <1>4, <1>6, <1>7 DEF M!Next

(* The bounds, and what a live run says while the stream is not given up. *)
LEMMA SingleFacts ==
    ASSUME StreamInv, SingleInv
    PROVE  /\ \A t \in turns : /\ t.key \in M!Keys /\ t.gen \in Nat /\ t \in M!Dispatches
                               /\ LiveOK(t)
                               /\ ~recv.abandoned => t.key = recv.active /\ recv.active # 0 /\ Latest(t)
           /\ \A m \in terms : m.turn.key \in M!Keys /\ m.turn.gen \in Nat /\ TermOK(m)
           /\ M!MaxAttempts \in Nat \ {0} /\ grants \in Nat
           /\ \A k \in M!Keys : BudgetOK(k) /\ recv.receipts[k] \in ReceiptSet /\ recv.receipts[k].attempt \in Nat
<1>1. /\ turns \subseteq M!Dispatches /\ terms \subseteq TermSet /\ grants \in Nat /\ M!MaxAttempts \in Nat \ {0} /\ M!MaxTries \in Nat
  BY WorkerTypes, StreamTypes, ScopeFacts
<1>2. \A k \in M!Keys : recv.receipts[k] \in ReceiptSet
  BY StreamTypes DEF RecvSet
<1>3. \A t \in turns : t.key \in M!Keys /\ t.gen \in Nat
  BY <1>1 DEF M!Dispatches
<1>4. \A m \in terms : m.turn \in M!Dispatches
  BY <1>1 DEF TermSet
<1>5. \A t \in turns : ~recv.abandoned => Latest(t) /\ Open(t.key)
  BY DEF SingleInv, LiveOK, Open
<1>6. \A t \in turns : ~recv.abandoned => t.key = recv.active /\ recv.active # 0 /\ Latest(t)
  BY <1>3, <1>5, ActiveFacts
<1> QED BY <1>1, <1>2, <1>3, <1>4, <1>6 DEF SingleInv, M!Dispatches, ReceiptSet

(* The counters of the receipts do not grow. *)
SameBudget ==
    \A k \in M!Keys : /\ recv'.receipts[k].attempt = recv.receipts[k].attempt
                      /\ recv'.receipts[k].granted => recv.receipts[k].granted
                      /\ recv'.receipts[k].status \in {"none", "accepted"} =>
                            recv.receipts[k].status \in {"none", "accepted"}

(* Budgets are kept by a step that spends none. *)
LEMMA BudgetKept ==
    ASSUME StreamInv, SingleInv, scope' = scope, SameBudget, grants' \in Nat, grants' >= grants
    PROVE  \A k \in M!Keys' : BudgetOK(k)'
<1>1. M!Keys' = M!Keys /\ M!MaxAttempts' = M!MaxAttempts
  BY ScopeStays
<1> SUFFICES ASSUME NEW k \in M!Keys PROVE BudgetOK(k)'
  BY <1>1
<1>2. /\ BudgetOK(k) /\ recv.receipts[k].attempt \in Nat /\ M!MaxAttempts \in Nat /\ grants \in Nat
  BY SingleFacts
<1> QED BY <1>1, <1>2 DEF BudgetOK, SameBudget

(* The changes that spend none. *)
LEMMA SameBudgetFacts ==
    ASSUME StreamInv
    PROVE  /\ recv' = recv \/ Aside(recv, recv') \/ GivesUp(recv') => SameBudget
           /\ \A k \in M!Keys : Moves(recv', k) /\ Restated(recv', k) /\ recv'.receipts[k].status # "accepted" => SameBudget
           /\ \A k \in M!Keys : Completes(recv', k) => SameBudget
<1>1. recv' = recv \/ Aside(recv, recv') => SameBudget
  BY DEF SameBudget, Aside
<1>2. GivesUp(recv') => SameBudget
  BY ActiveFacts DEF GivesUp, SameBudget
<1>3. ASSUME NEW k \in M!Keys, Moves(recv', k), Restated(recv', k), recv'.receipts[k].status # "accepted"
      PROVE  SameBudget
  BY <1>3 DEF Moves, Restated, SameBudget
<1>4. ASSUME NEW k \in M!Keys, Completes(recv', k) PROVE SameBudget
  <2>1. recv'.receipts[k].granted = recv.receipts[k].granted
    BY <1>4, StreamTypes DEF Completes, RecvSet, ReceiptSet
  <2>2. recv'.receipts[k].attempt = recv.receipts[k].attempt /\ recv'.receipts[k].status = "completed"
    BY <1>4, CompletesHead
  <2>3. \A i \in M!Keys : i # k => recv'.receipts[i] = recv.receipts[i]
    BY <1>4 DEF Completes
  <2> QED BY <2>1, <2>2, <2>3 DEF SameBudget
<1> QED BY <1>1, <1>2, <1>3, <1>4

(* The claims that are under way. *)
Claims == \A h \in Handlers : handler'[h].pc = "dispatching" =>
             handler[h].pc = "dispatching" /\ handler'[h].env = handler[h].env

(* The clauses of the invariant, after a step. *)
LEMMA SingleParts ==
    ASSUME Lone', \A t \in turns' : LiveOK(t)', \A m \in terms' : TermOK(m)',
           \A k \in M!Keys' : BudgetOK(k)', \A h \in Handlers : ClaimOK(h)'
    PROVE  SingleInv'
BY DEF SingleInv

(* A claim survives a step that keeps the receipts' counters. *)
LEMMA ClaimKept ==
    ASSUME StreamInv, SingleInv, scope' = scope, Claims, SameBudget, grants' \in Nat, grants' >= grants,
           recv.abandoned => recv'.abandoned,
           Calm => recv'.abandoned \/ Calm'
    PROVE  \A h \in Handlers : ClaimOK(h)'
<1> SUFFICES ASSUME NEW h \in Handlers, handler'[h].pc = "dispatching"
             PROVE  /\ recv'.abandoned \/ Calm'
                    /\ recv'.receipts[handler'[h].env.from].attempt < M!MaxAttempts' + grants'
  BY DEF ClaimOK
<1>1. handler[h].pc = "dispatching" /\ handler'[h].env = handler[h].env
  BY DEF Claims
<1>2. recv.abandoned \/ Calm
  BY <1>1 DEF SingleInv, ClaimOK
<1>3. handler[h].env.from \in M!Keys
  BY <1>1, AtWork
<1>4. recv.receipts[handler[h].env.from].attempt < M!MaxAttempts + grants
  BY <1>1 DEF SingleInv, ClaimOK
<1>5. recv'.receipts[handler'[h].env.from].attempt = recv.receipts[handler[h].env.from].attempt
  BY <1>1, <1>3 DEF SameBudget
<1>6. /\ M!MaxAttempts' = M!MaxAttempts /\ M!MaxAttempts \in Nat /\ grants \in Nat
      /\ recv.receipts[handler[h].env.from].attempt \in Nat
  BY <1>3, ScopeStays, SingleFacts
<1> QED BY <1>2, <1>4, <1>5, <1>6

(* Nothing of the worker's side changes, and of the file only that it may   *)
(* be given up.                                                             *)
LEMMA QuietStep ==
    ASSUME StreamInv, SingleInv, scope' = scope, Lone', Claims,
           UNCHANGED <<worker, up, turns, terms, fence, grants>>,
           recv' = recv \/ Aside(recv, recv') \/ GivesUp(recv')
    PROVE  SingleInv'
<1>1. SameBudget /\ grants \in Nat
  BY SameBudgetFacts, SingleFacts
<1>2. CASE recv'.receipts = recv.receipts /\ recv'.abandoned = recv.abandoned
  <2>1. \A t \in turns' : LiveOK(t)'
    BY <1>2 DEF SingleInv, LiveOK, Latest
  <2>2. \A m \in terms' : TermOK(m)'
    BY <1>2 DEF SingleInv, TermOK
  <2>3. Calm => Calm'
    BY DEF Calm
  <2> QED BY <1>1, <1>2, <2>1, <2>2, <2>3, BudgetKept, ClaimKept, SingleParts
<1>3. CASE recv'.abandoned
  <2>1. \A t \in turns' : LiveOK(t)'
    BY <1>3 DEF SingleInv, LiveOK
  <2>2. \A m \in terms' : TermOK(m)'
    BY <1>3 DEF SingleInv, TermOK
  <2> QED BY <1>1, <1>3, <2>1, <2>2, BudgetKept, ClaimKept, SingleParts
<1> QED BY <1>2, <1>3 DEF Aside, GivesUp

(* Nobody runs or has ended: the clauses about runs say nothing. *)
LEMMA CalmParts ==
    ASSUME Calm', terms' = terms, \A m \in terms : TermOK(m)
    PROVE  (\A t \in turns' : LiveOK(t)') /\ \A m \in terms' : TermOK(m)'
<1>1. turns' = {} /\ (up' => \A m \in terms' : m.turn.gen # worker')
  BY DEF Calm
<1>2. \A m \in terms' : TermOK(m)'
  BY <1>1 DEF TermOK
<1> QED BY <1>1, <1>2

(* When a request is let through, nothing of the stream runs. *)
LEMMA CalmBefore ==
    ASSUME StreamInv, SingleInv, NEW h \in Handlers, handler[h].pc = "sent", ~M!IsBlocked, ~recv.abandoned,
           recv.active = 0 \/ recv.receipts[handler[h].env.from].status \in M!Claimable
    PROVE  Calm
<1>1. fence = M!NoFence
  BY DEF M!IsBlocked
<1>2. \A k \in M!Keys : Open(k) => k = recv.active /\ recv.receipts[k].status # "dispatched"
  <2> SUFFICES ASSUME NEW k \in M!Keys, Open(k) PROVE k = recv.active /\ recv.receipts[k].status # "dispatched"
    OBVIOUS
  <2>1. k = recv.active /\ k # 0
    BY ActiveFacts
  <2>2. handler[h].env.from \in M!Keys
    BY AtWork
  <2>3. recv.receipts[handler[h].env.from].status \in M!Claimable
    BY <2>1
  <2>4. Open(handler[h].env.from)
    BY <2>3 DEF Open, M!Claimable
  <2>5. handler[h].env.from = k
    BY <2>1, <2>2, <2>4, ActiveFacts
  <2> QED BY <2>1, <2>3, <2>5 DEF M!Claimable
<1>3. turns = {}
  <2> SUFFICES ASSUME NEW t \in turns PROVE FALSE
    OBVIOUS
  <2>1. t.key \in M!Keys /\ LiveOK(t) /\ t.key # 0
    BY SingleFacts, ActiveFacts
  <2>2. fence # [key |-> t.key, attempt |-> t.attempt]
    BY <1>1, <2>1 DEF M!NoFence
  <2>3. recv.receipts[t.key].status = "dispatched"
    BY <2>1, <2>2 DEF LiveOK
  <2>4. Open(t.key)
    BY <2>3 DEF Open
  <2> QED BY <1>2, <2>1, <2>3, <2>4
<1>4. ASSUME up, NEW m \in terms, m.turn.gen = worker PROVE FALSE
  <2>1. m.turn.key \in M!Keys /\ TermOK(m)
    BY SingleFacts
  <2>2. recv.receipts[m.turn.key].status = "dispatched"
    BY <1>1, <1>4, <2>1 DEF TermOK
  <2>3. Open(m.turn.key)
    BY <2>2 DEF Open
  <2> QED BY <1>2, <2>1, <2>2, <2>3
<1> QED BY <1>3, <1>4 DEF Calm

(* A step of a handler on its receipt, in detail. *)
LEMMA ClaimFacts ==
    ASSUME StreamInv, NEW h \in Handlers, M!Dispatch(h) \/ M!DispatchRejected(h)
    PROVE  /\ handler[h].pc = "dispatching" /\ handler[h].env.from \in M!Keys /\ ~recv.abandoned /\ ~recv'.abandoned
           /\ \A i \in M!Keys : i # handler[h].env.from => recv'.receipts[i] = recv.receipts[i]
           /\ recv'.receipts[handler[h].env.from].attempt = M!Receipt(h).attempt + 1
           /\ recv'.receipts[handler[h].env.from].gen = M!NextGen
           /\ ~recv'.receipts[handler[h].env.from].granted
           /\ recv'.receipts[handler[h].env.from].status \in {"dispatched", "failed_retryable"}
           /\ M!Dispatch(h) => recv'.receipts[handler[h].env.from].status = "dispatched"
<1> DEFINE k == handler[h].env.from
<1>0. /\ handler[h].pc = "dispatching" /\ M!Receipt(h).attempt < M!MaxTries /\ ~recv.abandoned
      /\ \/ recv' = M!SetReceipt(k, M!Claimed(h, "dispatched"))
         \/ recv' = M!SetReceipt(k, M!Claimed(h, "failed_retryable")) /\ ~M!Dispatch(h)
  <2>1. CASE M!Dispatch(h)
    BY <2>1 DEF M!Dispatch, M!CanClaim
  <2>2. CASE ~M!Dispatch(h)
    BY <2>2 DEF M!DispatchRejected, M!CanClaim
  <2> QED BY <2>1, <2>2
<1>1. k \in M!Keys /\ M!Receipt(h) \in ReceiptSet /\ recv \in RecvSet
  BY <1>0, AtWork, StreamTypes
<1>2. M!NextGen \in Nat /\ M!Receipt(h).attempt + 1 \in 0 .. M!MaxTries
  BY <1>0, <1>1, WorkerTypes DEF M!NextGen, ReceiptSet
<1>3. \A st \in {"dispatched", "failed_retryable"} :
          /\ M!Claimed(h, st) \in ReceiptSet /\ M!Claimed(h, st).status = st /\ M!Claimed(h, st).gen = M!NextGen
          /\ M!Claimed(h, st).attempt = M!Receipt(h).attempt + 1 /\ ~M!Claimed(h, st).granted
  BY <1>1, <1>2 DEF M!Claimed, ReceiptSet, M!Statuses, M!Claimable
<1>4. PICK st \in {"dispatched", "failed_retryable"} :
          recv' = M!SetReceipt(k, M!Claimed(h, st)) /\ (M!Dispatch(h) => st = "dispatched")
  BY <1>0
<1>5. /\ recv'.receipts[k] = M!Claimed(h, st) /\ recv'.abandoned = recv.abandoned
      /\ \A i \in M!Keys : i # k => recv'.receipts[i] = recv.receipts[i]
  BY <1>1, <1>3, <1>4, SetReceiptFacts
<1> QED BY <1>0, <1>1, <1>3, <1>4, <1>5

(* A request at work is the only one; after its answer none claims. *)
LEMMA NobodyClaims ==
    ASSUME StreamInv, Lone, NEW h \in Handlers, handler[h].pc # "idle", handler'[h].pc = "replied",
           \A g \in Handlers \ {h} : handler'[g] = handler[g]
    PROVE  (\A g \in Handlers : ClaimOK(g)') /\ Claims
<1>1. \A g \in Handlers : handler'[g].pc # "dispatching"
  BY DEF Lone
<1> QED BY <1>1 DEF ClaimOK, Claims

(* A request that was answered. *)
LEMMA Replied ==
    ASSUME StreamInv, NEW h \in Handlers, NEW d, M!Reply(h, d)
    PROVE  handler'[h].pc = "replied" /\ \A g \in Handlers \ {h} : handler'[g] = handler[g]
<1> DEFINE r == [handler[h] EXCEPT !.pc = "replied", !.done = d, !.through = recv'.committed]
<1>0. handler \in [Handlers -> RequestSet]
  BY StreamTypes
<1>1. handler' = [handler EXCEPT ![h] = r]
  BY DEF M!Reply
<1>2. r.pc = "replied"
  BY <1>0 DEF RequestSet
<1> HIDE DEF r
<1> QED BY <1>0, <1>1, <1>2

(* The turn is claimed. *)
LEMMA SingleDispatch ==
    ASSUME StreamInv, SingleInv, M!Next, Lone', NEW h \in Handlers, M!Dispatch(h) \/ M!DispatchRejected(h)
    PROVE  SingleInv'
<1> DEFINE k == handler[h].env.from
<1>0. scope' = scope /\ M!Keys' = M!Keys /\ M!MaxAttempts' = M!MaxAttempts
  BY ScopeStays DEF M!Next
<1>1. /\ handler[h].pc = "dispatching" /\ k \in M!Keys /\ ~recv.abandoned /\ ~recv'.abandoned
      /\ \A i \in M!Keys : i # k => recv'.receipts[i] = recv.receipts[i]
      /\ recv'.receipts[k].attempt = M!Receipt(h).attempt + 1
      /\ recv'.receipts[k].gen = M!NextGen /\ ~recv'.receipts[k].granted
      /\ recv'.receipts[k].status \in {"dispatched", "failed_retryable"}
      /\ M!Dispatch(h) => recv'.receipts[k].status = "dispatched"
  BY ClaimFacts
<1>2. Calm /\ M!Receipt(h).attempt < M!MaxAttempts + grants
  BY <1>1 DEF SingleInv, ClaimOK, M!Receipt
<1>3. \A g \in Handlers : ClaimOK(g)'
  <2>1. M!Reply(h, FALSE)
    BY DEF M!Dispatch, M!DispatchRejected
  <2> QED BY <1>1, <2>1, Replied, NobodyClaims DEF SingleInv
<1>4. grants' = grants
  BY DEF M!Dispatch, M!DispatchRejected
<1>5. \A i \in M!Keys' : BudgetOK(i)'
  <2> SUFFICES ASSUME NEW i \in M!Keys PROVE BudgetOK(i)'
    BY <1>0
  <2>1. CASE i # k
    <3>1. BudgetOK(i) /\ recv'.receipts[i] = recv.receipts[i]
      BY <1>1, <2>1, SingleFacts
    <3> QED BY <1>0, <1>4, <3>1 DEF BudgetOK
  <2>2. CASE i = k
    <3>1. M!Receipt(h).attempt \in Nat /\ M!MaxAttempts \in Nat /\ grants \in Nat
      BY <1>1, SingleFacts DEF M!Receipt
    <3>2. recv'.receipts[i].attempt <= M!MaxAttempts' + grants'
      BY <1>0, <1>1, <1>2, <1>4, <2>2, <3>1
    <3> QED BY <1>1, <2>2, <3>2 DEF BudgetOK
  <2> QED BY <2>1, <2>2
<1>6. (\A t \in turns' : LiveOK(t)') /\ (\A m \in terms' : TermOK(m)')
  <2>1. CASE M!Dispatch(h)
    <3>1. /\ turns' = {Turn(h)} /\ worker' = M!NextGen /\ up' /\ (up => worker' = worker) /\ (~up => worker' = worker + 1)
          /\ Turn(h).gen = worker' /\ Turn(h).key = k /\ Turn(h).attempt = M!Receipt(h).attempt + 1
          /\ UNCHANGED <<fence, terms>>
      BY <1>2, <2>1, DispatchFacts DEF Calm
    <3>2. \A m \in terms : m.turn.gen # worker'
      <4> SUFFICES ASSUME NEW m \in terms PROVE m.turn.gen # worker'
        OBVIOUS
      <4>1. m.turn.gen \in Nat /\ m.turn.gen <= worker /\ worker \in Nat
        BY SingleFacts, WorkerTypes DEF MeetRuns
      <4> QED BY <1>2, <3>1, <4>1 DEF Calm
    <3>3. recv'.receipts[k].status = "dispatched"
      BY <1>1, <2>1
    <3>4. \A u \in turns' : LiveOK(u)'
      <4>1. \A m \in terms' : m.turn.gen # Turn(h).gen
        BY <3>1, <3>2
      <4>2. PICK t : t = Turn(h)
        OBVIOUS
      <4>3. turns' = {t} /\ t.gen = worker' /\ t.key = k /\ t.attempt = recv'.receipts[k].attempt
            /\ recv'.receipts[k].gen = worker' /\ \A m \in terms' : m.turn.gen # t.gen
        BY <1>1, <3>1, <4>1, <4>2
      <4> QED BY <3>3, <4>3 DEF LiveOK, Latest
    <3>5. \A m \in terms' : TermOK(m)'
      <4> SUFFICES ASSUME NEW m \in terms' PROVE TermOK(m)'
        OBVIOUS
      <4>1. TermOK(m) /\ m.turn.gen # worker' /\ terms' = terms
        BY <3>1, <3>2 DEF SingleInv
      <4>2. ~(m.turn.gen = worker')
        BY <4>1
      <4>3. \A n \in terms' : n.turn.gen = m.turn.gen => n = m
        BY <4>1 DEF TermOK
      <4> QED BY <4>2, <4>3 DEF TermOK
    <3> QED BY <3>4, <3>5
  <2>2. CASE ~M!Dispatch(h)
    <3>1. M!DispatchRejected(h)
      BY <2>2
    <3>2. UNCHANGED <<worker, up, turns, terms>>
      BY <3>1 DEF M!DispatchRejected, M!workerVars
    <3>3. Calm'
      BY <1>2, <3>2 DEF Calm
    <3> QED BY <3>2, <3>3, CalmParts DEF SingleInv
  <2> QED BY <2>1, <2>2
<1> QED BY <1>3, <1>5, <1>6, SingleParts

(* A request that is let through. *)
LEMMA SingleLetIn ==
    ASSUME StreamInv, SingleInv, M!Next, Lone', NEW h \in Handlers, M!Accept(h) \/ M!Redispatch(h)
    PROVE  SingleInv'
<1> DEFINE k == handler[h].env.from
<1>0. /\ scope' = scope /\ M!Keys' = M!Keys /\ M!MaxAttempts' = M!MaxAttempts /\ handler[h].pc = "sent" /\ ~M!IsBlocked
      /\ UNCHANGED <<worker, up, turns, terms, grants>> /\ handler'[h].env = handler[h].env /\ handler'[h].pc = "dispatching"
  <2> DEFINE r == [handler[h] EXCEPT !.pc = "dispatching"]
  <2>1. scope' = scope /\ handler \in [Handlers -> RequestSet]
    BY StreamTypes DEF M!Next
  <2>2. /\ handler[h].pc = "sent" /\ ~M!IsBlocked /\ UNCHANGED <<worker, up, turns, terms, grants>>
        /\ handler' = [handler EXCEPT ![h] = r]
    BY DEF M!Accept, M!Redispatch, M!Existing, M!workerVars
  <2>3. r.env = handler[h].env /\ r.pc = "dispatching"
    BY <2>1 DEF RequestSet
  <2> HIDE DEF r
  <2>4. handler'[h] = r
    BY <2>1, <2>2
  <2> QED BY <2>1, <2>2, <2>3, <2>4, ScopeStays
<1>1. M!MaxAttempts \in Nat \ {0} /\ grants \in Nat /\ k \in M!Keys
  BY <1>0, SingleFacts, AtWork
<1>2. \A g \in Handlers : handler'[g].pc = "dispatching" => g = h
  BY <1>0 DEF Lone
<1>3. CASE M!Accept(h)
  <2>1. Accepts(k)
    BY <1>3, AcceptFacts
  <2>2. Calm
    BY <1>0, <2>1, CalmBefore DEF Accepts
  <2>3. Calm'
    BY <1>0, <2>2 DEF Calm
  <2>4. \A i \in M!Keys' : BudgetOK(i)'
    <3> SUFFICES ASSUME NEW i \in M!Keys PROVE BudgetOK(i)'
      BY <1>0
    <3>1. CASE i # k
      <4>1. BudgetOK(i) /\ recv'.receipts[i] = recv.receipts[i]
        BY <2>1, <3>1, SingleFacts DEF Accepts
      <4> QED BY <1>0, <4>1 DEF BudgetOK
    <3>2. CASE i = k
      BY <1>0, <1>1, <2>1, <3>2 DEF Accepts, BudgetOK
    <3> QED BY <3>1, <3>2
  <2>5. recv'.receipts[k].attempt < M!MaxAttempts' + grants'
    BY <1>0, <1>1, <2>1 DEF Accepts
  <2>6. \A g \in Handlers : ClaimOK(g)'
    BY <1>0, <1>2, <2>3, <2>5 DEF ClaimOK
  <2> QED BY <1>0, <2>3, <2>4, <2>6, CalmParts, SingleParts DEF SingleInv
<1>4. CASE M!Redispatch(h)
  <2>1. /\ M!Verdict(handler[h].env) = "existing" /\ M!Receipt(h).status \in M!Claimable /\ ~M!OverBudget(M!Receipt(h)) /\ recv' = recv
    BY <1>4 DEF M!Redispatch, M!Existing
  <2>2. ~recv.abandoned
    BY <1>0, <2>1, VerdictFacts
  <2>3. Calm
    BY <1>0, <2>1, <2>2, CalmBefore DEF M!Receipt
  <2>4. Calm'
    BY <1>0, <2>3 DEF Calm
  <2>5. \A i \in M!Keys' : BudgetOK(i)'
    BY <1>0, <1>1, <2>1, BudgetKept, SameBudgetFacts
  <2>6. M!Receipt(h).attempt < M!MaxAttempts + grants
    <3>1. BudgetOK(k) /\ M!Receipt(h).attempt \in Nat
      BY <1>1, SingleFacts DEF M!Receipt
    <3>2. CASE M!Receipt(h).status = "accepted"
      BY <1>1, <3>1, <3>2 DEF BudgetOK, M!Receipt
    <3>3. CASE M!Receipt(h).granted
      BY <3>1, <3>3 DEF BudgetOK, M!Receipt
    <3>4. CASE M!Receipt(h).status # "accepted" /\ ~M!Receipt(h).granted
      <4>1. ~(M!Receipt(h).attempt >= M!MaxAttempts)
        BY <2>1, <3>4 DEF M!OverBudget, M!Retryable
      <4> QED BY <1>1, <3>1, <4>1
    <3> QED BY <3>2, <3>3, <3>4
  <2>7. \A g \in Handlers : ClaimOK(g)'
    BY <1>0, <1>2, <2>1, <2>4, <2>6 DEF ClaimOK, M!Receipt
  <2> QED BY <1>0, <2>4, <2>5, <2>7, CalmParts, SingleParts DEF SingleInv
<1> QED BY <1>3, <1>4

(* The budget is used up, or nothing was claimed. *)
LEMMA SingleSpent ==
    ASSUME StreamInv, SingleInv, M!Next, Lone', NEW h \in Handlers, M!ExhaustBudget(h) \/ M!NotDispatched(h)
    PROVE  SingleInv'
<1> DEFINE k == handler[h].env.from
<1>0. /\ scope' = scope /\ handler[h].pc # "idle" /\ UNCHANGED <<worker, up, turns, terms, grants, fence>>
      /\ grants \in Nat /\ (\E d : M!Reply(h, d))
  <2>1. CASE M!ExhaustBudget(h)
    BY <2>1, SingleFacts DEF M!ExhaustBudget, M!Existing, M!workerVars, M!Next
  <2>2. CASE M!NotDispatched(h)
    BY <2>2, SingleFacts DEF M!NotDispatched, M!workerVars, M!Next
  <2> QED BY <2>1, <2>2
<1>1. k \in M!Keys /\ M!Receipt(h) \in ReceiptSet /\ recv \in RecvSet
  BY <1>0, AtWork, StreamTypes
<1>2. (\A g \in Handlers : ClaimOK(g)') /\ Claims
  BY <1>0, Replied, NobodyClaims DEF SingleInv
<1>3. CASE recv' = recv
  BY <1>0, <1>2, <1>3, QuietStep
<1>4. CASE recv' # recv
  <2>1. PICK st \in {"failed_terminal", "failed_retryable"}, b \in BOOLEAN :
            \/ recv' = M!SetReceipt(k, [M!Receipt(h) EXCEPT !.status = st])
            \/ recv' = [M!SetReceipt(k, [M!Receipt(h) EXCEPT !.status = st]) EXCEPT !.poisoned = b]
    BY <1>4 DEF M!ExhaustBudget, M!NotDispatched
  <2> DEFINE r == [M!Receipt(h) EXCEPT !.status = st]
  <2>2. r \in ReceiptSet /\ r.status = st /\ r.attempt = M!Receipt(h).attempt /\ r.granted = M!Receipt(h).granted /\ r.gen = M!Receipt(h).gen
    BY <1>1 DEF ReceiptSet, M!Statuses, M!Claimable
  <2> HIDE DEF r
  <2>3. /\ M!SetReceipt(k, r) \in RecvSet /\ M!SetReceipt(k, r).receipts[k] = r
        /\ \A i \in M!Keys : i # k => M!SetReceipt(k, r).receipts[i] = recv.receipts[i]
        /\ M!SetReceipt(k, r).abandoned = recv.abandoned
    BY <1>1, <2>2, SetReceiptFacts
  <2> DEFINE s == M!SetReceipt(k, r)
  <2> HIDE DEF s
  <2>4. recv'.receipts = s.receipts /\ recv'.abandoned = s.abandoned
    <3>1. recv' = s \/ recv' = [s EXCEPT !.poisoned = b]
      BY <2>1 DEF s, r
    <3>2. s \in RecvSet
      BY <2>3 DEF s
    <3> QED BY <3>1, <3>2 DEF RecvSet
  <2>5. /\ recv'.receipts[k] = r /\ recv'.abandoned = recv.abandoned
        /\ \A i \in M!Keys : i # k => recv'.receipts[i] = recv.receipts[i]
    BY <2>3, <2>4 DEF s
  <2>6. SameBudget
    BY <2>2, <2>5 DEF SameBudget, M!Receipt
  <2>7. recv.abandoned \/ Calm
    <3>1. CASE M!ExhaustBudget(h)
      <4>1. /\ handler[h].pc = "sent" /\ ~M!IsBlocked /\ M!Verdict(handler[h].env) = "existing"
            /\ M!Receipt(h).status \in M!Claimable
        BY <3>1 DEF M!ExhaustBudget, M!Existing, M!OverBudget, M!Retryable
      <4> QED BY <4>1, VerdictFacts, CalmBefore DEF M!Receipt
    <3>2. CASE M!NotDispatched(h)
      BY <3>2 DEF M!NotDispatched, SingleInv, ClaimOK
    <3> QED BY <3>1, <3>2
  <2>8. \A i \in M!Keys' : BudgetOK(i)'
    BY <1>0, <2>6, BudgetKept
  <2>9. (\A t \in turns' : LiveOK(t)') /\ (\A m \in terms' : TermOK(m)')
    <3>1. CASE Calm
      <4>1. Calm'
        BY <1>0, <3>1 DEF Calm
      <4> QED BY <1>0, <4>1, CalmParts DEF SingleInv
    <3>2. CASE recv.abandoned
      <4>1. recv'.abandoned
        BY <2>5, <3>2
      <4>2. \A t \in turns' : LiveOK(t)'
        BY <1>0, <4>1 DEF SingleInv, LiveOK
      <4> QED BY <1>0, <4>1, <4>2 DEF SingleInv, TermOK
    <3> QED BY <2>7, <3>1, <3>2
  <2> QED BY <1>2, <2>8, <2>9, SingleParts
<1> QED BY <1>3, <1>4

(* Steps of the worker's side leave the requests alone. *)
LEMMA ClaimsSame ==
    ASSUME handler' = handler
    PROVE  Claims
BY DEF Claims

(* A turn ends. *)
LEMMA SingleEnds ==
    ASSUME StreamInv, SingleInv, M!Next, Lone', NEW t \in turns,
           M!PaneEnds(t) \/ \E st \in {"completed", "failed", "cancelled", "ambiguous"} : M!TurnEnds(t, st)
    PROVE  SingleInv'
<1>0. /\ scope' = scope /\ turns' = turns \ {t} /\ UNCHANGED <<handler, recv, fence, worker, up, grants>> /\ grants \in Nat
  BY SingleFacts DEF M!PaneEnds, M!TurnEnds, M!Next
<1>1. LiveOK(t) /\ t.key \in M!Keys /\ t.key # 0
  BY SingleFacts, ActiveFacts
<1>2. turns' = {} /\ ~Calm
  BY <1>0, <1>1 DEF LiveOK, Calm
<1>3. \A k \in M!Keys' : BudgetOK(k)'
  BY <1>0, BudgetKept, SameBudgetFacts
<1>4. \A h \in Handlers : ClaimOK(h)'
  BY <1>0, <1>2, ClaimKept, SameBudgetFacts, ClaimsSame
<1>5. \A m \in terms' : TermOK(m)'
  <2>1. CASE M!PaneEnds(t)
    <3>1. terms' = terms
      BY <2>1 DEF M!PaneEnds
    <3> QED BY <1>0, <3>1 DEF SingleInv, TermOK
  <2>2. ASSUME NEW st, M!TurnEnds(t, st) PROVE <1>5
    <3> DEFINE m0 == [turn |-> t, status |-> st]
    <3>1. terms' = terms \cup {m0} /\ m0.turn = t /\ up /\ t.gen = worker
      BY <2>2 DEF M!TurnEnds
    <3> HIDE DEF m0
    <3>2. \A n \in terms : n.turn.gen # worker
      BY <1>1, <3>1 DEF LiveOK
    <3> SUFFICES ASSUME NEW m \in terms' PROVE TermOK(m)'
      OBVIOUS
    <3>3. CASE m = m0
      <4>1. \A n \in terms' : n.turn.gen = m.turn.gen => n = m
        BY <3>1, <3>2, <3>3
      <4>2. fence = [key |-> t.key, attempt |-> t.attempt] => fence # M!NoFence
        BY <1>1 DEF M!NoFence
      <4>3. \/ recv.abandoned \/ fence # M!NoFence
            \/ recv.receipts[t.key].gen = worker /\ recv.receipts[t.key].status = "dispatched"
        BY <1>1, <3>1, <4>2 DEF LiveOK, Latest
      <4> QED BY <1>0, <3>1, <3>3, <4>1, <4>3 DEF TermOK
    <3>4. CASE m \in terms
      <4>1. TermOK(m) /\ m.turn.gen # worker
        BY <3>2, <3>4 DEF SingleInv
      <4>2. \A n \in terms' : n.turn.gen = m.turn.gen => n = m
        BY <3>1, <4>1 DEF TermOK
      <4> QED BY <1>0, <4>1, <4>2 DEF TermOK
    <3> QED BY <3>1, <3>3, <3>4
  <2> QED BY <2>1, <2>2
<1> QED BY <1>2, <1>3, <1>4, <1>5, SingleParts

(* One receipt, of a dispatch of generation g, changes its status. *)
Restates(g) ==
    \/ recv' = recv
    \/ \E k \in M!Keys : /\ recv.receipts[k].gen = g /\ recv'.abandoned = recv.abandoned
                         /\ \A i \in M!Keys : i # k => recv'.receipts[i] = recv.receipts[i]

(* A terminal is settled, or given up on. *)
LEMMA SingleSettle ==
    ASSUME StreamInv, SingleInv, M!Next, Lone', NEW m \in terms, M!Settle(m) \/ M!SettleExhausted(m)
    PROVE  SingleInv'
<1>0. /\ scope' = scope /\ terms' = terms \ {m} /\ UNCHANGED <<handler, fence, worker, up, turns, grants>> /\ grants \in Nat
      /\ m.turn.key \in M!Keys /\ TermOK(m) /\ recv \in RecvSet /\ scope \in Scopes
  BY SingleFacts, StreamTypes DEF M!Settle, M!SettleExhausted, M!Next
<1>1. SameBudget /\ Restates(m.turn.gen)
  <2>1. CASE M!Settle(m)
    <3>1. recv' = M!Settled(m)
      BY <2>1 DEF M!Settle
    <3>2. CASE recv' = recv
      BY <3>2, SameBudgetFacts DEF Restates
    <3>3. CASE recv' # recv
      <4>1. /\ recv.receipts[m.turn.key].gen = m.turn.gen
            /\ \/ Completes(recv', m.turn.key)
               \/ /\ Moves(recv', m.turn.key) /\ Restated(recv', m.turn.key)
                  /\ recv'.receipts[m.turn.key].status \in {"ambiguous", "failed_retryable", "failed_terminal"}
        BY <1>0, <3>1, <3>3, SettledFacts
      <4>2. SameBudget
        BY <1>0, <4>1, SameBudgetFacts
      <4>3. /\ recv'.abandoned = recv.abandoned
            /\ \A i \in M!Keys : i # m.turn.key => recv'.receipts[i] = recv.receipts[i]
        BY <4>1 DEF Completes, Moves
      <4> QED BY <1>0, <4>1, <4>2, <4>3 DEF Restates
    <3> QED BY <3>2, <3>3
  <2>2. CASE M!SettleExhausted(m)
    <3>1. recv' = M!GenerationExit(m.turn.gen)
      BY <2>2 DEF M!SettleExhausted
    <3>2. \/ recv' = recv
          \/ /\ recv.receipts[recv.active].gen = m.turn.gen /\ Moves(recv', recv.active) /\ Restated(recv', recv.active)
             /\ recv'.receipts[recv.active].status = "ambiguous"
      BY <1>0, <3>1, ExitFacts
    <3>3. SameBudget
      BY <3>2, SameBudgetFacts DEF Moves
    <3> QED BY <3>2, <3>3 DEF Restates, Moves
  <2> QED BY <2>1, <2>2
<1>2. recv'.abandoned = recv.abandoned
  BY <1>1 DEF Restates
<1>3. ASSUME ~recv.abandoned, NEW k \in M!Keys, recv.receipts[k].gen # m.turn.gen
      PROVE  recv'.receipts[k] = recv.receipts[k]
  BY <1>1, <1>3 DEF Restates
<1>4. \A t \in turns' : LiveOK(t)'
  <2> SUFFICES ASSUME NEW t \in turns PROVE LiveOK(t)'
    BY <1>0
  <2>1. LiveOK(t) /\ t.key \in M!Keys
    BY SingleFacts
  <2>2. (\A u \in turns' : u = t) /\ (\A n \in terms' : n.turn.gen # t.gen)
    BY <1>0, <2>1 DEF LiveOK
  <2>3. CASE recv.abandoned
    BY <1>2, <2>2, <2>3 DEF LiveOK
  <2>4. CASE ~recv.abandoned
    <3>1. recv'.receipts[t.key] = recv.receipts[t.key]
      BY <1>3, <2>1, <2>4 DEF LiveOK, Latest
    <3> QED BY <1>0, <2>1, <2>2, <2>4, <3>1 DEF LiveOK, Latest
  <2> QED BY <2>3, <2>4
<1>5. \A n \in terms' : TermOK(n)'
  <2> SUFFICES ASSUME NEW n \in terms, n # m PROVE TermOK(n)'
    BY <1>0
  <2>1. TermOK(n) /\ n.turn.key \in M!Keys /\ n.turn.gen # m.turn.gen
    BY <1>0, SingleFacts DEF TermOK
  <2>2. \A o \in terms' : o.turn.gen = n.turn.gen => o = n
    BY <1>0, <2>1 DEF TermOK
  <2> SUFFICES ASSUME up', n.turn.gen = worker', ~recv'.abandoned, fence' = M!NoFence
               PROVE  recv'.receipts[n.turn.key].gen = worker' /\ recv'.receipts[n.turn.key].status = "dispatched"
    BY <2>2 DEF TermOK
  <2>3. recv.receipts[n.turn.key].gen = worker /\ recv.receipts[n.turn.key].status = "dispatched"
    BY <1>0, <1>2, <2>1 DEF TermOK
  <2>4. recv'.receipts[n.turn.key] = recv.receipts[n.turn.key]
    BY <1>0, <1>2, <1>3, <2>1, <2>3
  <2> QED BY <1>0, <2>3, <2>4
<1>6. Calm => Calm'
  BY <1>0 DEF Calm
<1>7. (\A k \in M!Keys' : BudgetOK(k)') /\ \A h \in Handlers : ClaimOK(h)'
  BY <1>0, <1>1, <1>2, <1>6, BudgetKept, ClaimKept, ClaimsSame
<1> QED BY <1>4, <1>5, <1>7, SingleParts

(* The worker dies, or all of it is torn down. *)
LEMMA SingleDies ==
    ASSUME StreamInv, SingleInv, M!Next, Lone', M!WorkerDies \/ M!FenceTeardown
    PROVE  SingleInv'
<1>0. /\ scope' = scope /\ ~up' /\ UNCHANGED <<recv, handler, worker, terms, grants>> /\ grants \in Nat
      /\ turns' = {} \/ (turns' = turns /\ fence' = fence)
  BY SingleFacts DEF M!WorkerDies, M!FenceTeardown, M!Next
<1>1. \A t \in turns' : LiveOK(t)'
  BY <1>0 DEF SingleInv, LiveOK, Latest
<1>2. \A m \in terms' : TermOK(m)'
  BY <1>0 DEF SingleInv, TermOK
<1>3. Calm => Calm'
  BY <1>0 DEF Calm
<1>4. (\A k \in M!Keys' : BudgetOK(k)') /\ \A h \in Handlers : ClaimOK(h)'
  BY <1>0, <1>3, BudgetKept, ClaimKept, ClaimsSame, SameBudgetFacts
<1> QED BY <1>1, <1>2, <1>4, SingleParts

(* The head becomes ambiguous behind a fence. *)
LEMMA SingleFenced ==
    ASSUME StreamInv, SingleInv, M!Next, Lone', M!LeaseExpires \/ \E g \in exits : M!HandleWorkerExit(g)
    PROVE  SingleInv'
<1> DEFINE a == recv.active
<1>0. /\ scope' = scope /\ UNCHANGED <<handler, worker, up, turns, terms, grants>> /\ grants \in Nat
      /\ recv \in RecvSet /\ scope \in Scopes
  BY SingleFacts, StreamTypes DEF M!LeaseExpires, M!HandleWorkerExit, M!workerVars, M!Next
<1>1. PICK heads : /\ fence' = M!Armed(heads)
                   /\ \/ heads = {} /\ recv' = recv
                      \/ /\ heads = {a} /\ Moves(recv', a) /\ Restated(recv', a)
                         /\ recv'.receipts[a].status = "ambiguous"
  <2> DEFINE Fenced(heads) == /\ fence' = M!Armed(heads)
                              /\ \/ heads = {} /\ recv' = recv
                                 \/ /\ heads = {a} /\ Moves(recv', a) /\ Restated(recv', a)
                                    /\ recv'.receipts[a].status = "ambiguous"
  <2>1. CASE M!LeaseExpires
    <3>1. Fenced(M!DispatchedHeads)
      BY <1>0, <2>1, ExitFacts DEF M!LeaseExpires
    <3> QED BY <3>1
  <2>2. ASSUME NEW g \in exits, M!HandleWorkerExit(g) PROVE \E heads : Fenced(heads)
    <3>1. Fenced(M!GenerationHeads(g))
      BY <1>0, <2>2, ExitFacts DEF M!HandleWorkerExit
    <3> QED BY <3>1
  <2> QED BY <2>1, <2>2
<1>2. CASE heads = {}
  <2>1. fence' = fence /\ recv' = recv
    BY <1>1, <1>2 DEF M!Armed
  <2> QED BY <1>0, <2>1, QuietStep, ClaimsSame
<1>3. CASE heads # {}
  <2>1. a \in M!Keys /\ Moves(recv', a) /\ Restated(recv', a) /\ recv'.receipts[a].status = "ambiguous" /\ fence' = M!Armed({a})
    BY <1>1, <1>3 DEF Moves
  <2>2. fence' # M!NoFence /\ fence' = [key |-> a, attempt |-> recv.receipts[a].attempt] /\ ~recv.abandoned
    <3>1. a # 0
      BY <2>1, ActiveFacts
    <3> QED BY <2>1, <3>1, ArmedFacts, ActiveFacts
  <2>3. \A t \in turns' : LiveOK(t)'
    <3> SUFFICES ASSUME NEW t \in turns PROVE LiveOK(t)'
      BY <1>0
    <3>1. LiveOK(t) /\ t.key = a /\ Latest(t)
      BY <2>2, SingleFacts
    <3>2. recv'.receipts[a].attempt = t.attempt /\ recv'.receipts[a].gen = t.gen /\ recv.receipts[a].attempt = t.attempt
      BY <2>1, <3>1 DEF Latest, Restated
    <3> QED BY <1>0, <2>1, <2>2, <3>1, <3>2 DEF LiveOK, Latest
  <2>4. \A m \in terms' : TermOK(m)'
    BY <1>0, <2>2 DEF SingleInv, TermOK
  <2>5. SameBudget /\ (recv.abandoned => recv'.abandoned) /\ (Calm => Calm')
    BY <1>0, <2>1, SameBudgetFacts DEF Moves, Calm
  <2>6. (\A k \in M!Keys' : BudgetOK(k)') /\ \A h \in Handlers : ClaimOK(h)'
    BY <1>0, <2>5, BudgetKept, ClaimKept, ClaimsSame
  <2> QED BY <2>3, <2>4, <2>6, SingleParts
<1> QED BY <1>2, <1>3

(* The CLI is gone with its turns, or the worker has dropped the fenced one. *)
LEMMA SingleGone ==
    ASSUME StreamInv, SingleInv, M!Next, Lone', M!CliExit \/ M!FenceAck
    PROVE  SingleInv'
<1>0. /\ scope' = scope /\ UNCHANGED <<handler, worker, up, terms, grants>> /\ grants \in Nat
      /\ recv \in RecvSet /\ scope \in Scopes /\ \E t \in turns : t.gen = worker
  BY SingleFacts, StreamTypes DEF M!CliExit, M!FenceAck, M!FencedTurns, M!Next
<1>1. PICK t \in turns : t.gen = worker /\ (M!CliExit \/ t \in M!FencedTurns)
  <2>1. CASE M!CliExit
    BY <1>0, <2>1
  <2>2. CASE M!FenceAck
    BY <2>2 DEF M!FenceAck, M!FencedTurns
  <2> QED BY <2>1, <2>2
<1>2. (\A u \in turns : u = t) /\ \A m \in terms : m.turn.gen # worker
  BY <1>1 DEF SingleInv, LiveOK
<1>3. turns' = {}
  BY <1>1, <1>2 DEF M!CliExit, M!FenceAck, M!FencedTurns
<1>4. Calm'
  BY <1>0, <1>2, <1>3 DEF Calm
<1>5. SameBudget /\ (recv.abandoned => recv'.abandoned)
  <2>1. CASE M!CliExit
    <3>1. \/ recv' = recv
          \/ Moves(recv', recv.active) /\ Restated(recv', recv.active) /\ recv'.receipts[recv.active].status = "ambiguous"
      BY <1>0, <2>1, ExitFacts DEF M!CliExit
    <3> QED BY <3>1, SameBudgetFacts DEF Moves
  <2>2. CASE M!FenceAck
    BY <2>2, SameBudgetFacts DEF M!FenceAck
  <2> QED BY <2>1, <2>2
<1>6. (\A k \in M!Keys' : BudgetOK(k)') /\ \A h \in Handlers : ClaimOK(h)'
  BY <1>0, <1>4, <1>5, BudgetKept, ClaimKept, ClaimsSame
<1> QED BY <1>0, <1>4, <1>6, CalmParts, SingleParts DEF SingleInv

(* The operator allows one more dispatch. *)
LEMMA SingleRetry ==
    ASSUME StreamInv, SingleInv, M!Next, Lone', M!ManualRetry
    PROVE  SingleInv'
<1> DEFINE a == recv.active
           r == [recv.receipts[a] EXCEPT !.granted = TRUE]
           s == M!SetReceipt(a, r)
<1>0. /\ scope' = scope /\ M!Keys' = M!Keys /\ M!MaxAttempts' = M!MaxAttempts /\ a # 0 /\ recv.receipts[a].status = "failed_terminal"
      /\ grants' = grants + 1 /\ grants \in Nat /\ recv' = [s EXCEPT !.poisoned = FALSE]
      /\ UNCHANGED <<handler, fence, worker, up, turns, terms>> /\ M!MaxAttempts \in Nat
  <2>1. scope' = scope
    BY DEF M!Next
  <2>2. /\ a # 0 /\ recv.receipts[a].status = "failed_terminal" /\ grants' = grants + 1
        /\ recv' = [s EXCEPT !.poisoned = FALSE] /\ UNCHANGED <<handler, fence, worker, up, turns, terms>>
    BY DEF M!ManualRetry, M!workerVars
  <2> QED BY <2>1, <2>2, ScopeStays, SingleFacts
<1>1. a \in M!Keys /\ recv \in RecvSet /\ recv.receipts[a] \in ReceiptSet /\ ~recv.abandoned /\ recv.receipts[a].attempt \in Nat
  BY <1>0, ActiveFacts, StreamTypes, SingleFacts
<1>2. r \in ReceiptSet /\ r.attempt = recv.receipts[a].attempt /\ r.status = "failed_terminal"
  BY <1>0, <1>1 DEF ReceiptSet
<1> HIDE DEF r
<1>3. s \in RecvSet /\ s.receipts[a] = r /\ s.abandoned = recv.abandoned
      /\ \A i \in M!Keys : i # a => s.receipts[i] = recv.receipts[i]
  BY <1>1, <1>2, SetReceiptFacts
<1> HIDE DEF s
<1>4. recv'.receipts = s.receipts /\ recv'.abandoned = s.abandoned
  BY <1>0, <1>3 DEF RecvSet
<1>5. turns = {}
  <2> SUFFICES ASSUME NEW t \in turns PROVE FALSE
    OBVIOUS
  <2>1. t.key = a /\ LiveOK(t)
    BY <1>1, SingleFacts
  <2> QED BY <1>0, <1>1, <2>1 DEF LiveOK
<1>6. \A m \in terms' : TermOK(m)'
  <2> SUFFICES ASSUME NEW m \in terms PROVE TermOK(m)'
    BY <1>0
  <2>1. TermOK(m) /\ m.turn.key \in M!Keys
    BY SingleFacts
  <2>2. \A n \in terms' : n.turn.gen = m.turn.gen => n = m
    BY <1>0, <2>1 DEF TermOK
  <2> SUFFICES ASSUME up', m.turn.gen = worker' PROVE fence' # M!NoFence
    BY <2>2 DEF TermOK
  <2>3. fence # M!NoFence \/ recv.receipts[m.turn.key].status = "dispatched"
    BY <1>0, <1>1, <2>1 DEF TermOK
  <2>4. recv.receipts[m.turn.key].status # "dispatched"
    <3>1. Open(m.turn.key) => m.turn.key = a
      BY <2>1, ActiveFacts
    <3> QED BY <1>0, <3>1 DEF Open
  <2> QED BY <1>0, <2>3, <2>4
<1>7. \A k \in M!Keys' : BudgetOK(k)'
  <2> SUFFICES ASSUME NEW k \in M!Keys PROVE BudgetOK(k)'
    BY <1>0
  <2>1. BudgetOK(k) /\ recv.receipts[k].attempt \in Nat
    BY SingleFacts
  <2>2. recv.receipts[k].attempt < M!MaxAttempts' + grants'
    BY <1>0, <2>1 DEF BudgetOK
  <2>3. CASE k # a
    <3>1. recv'.receipts[k] = recv.receipts[k]
      BY <1>3, <1>4, <2>3
    <3> QED BY <1>0, <2>1, <2>2, <3>1 DEF BudgetOK
  <2>4. CASE k = a
    BY <1>0, <1>2, <1>3, <1>4, <2>1, <2>2, <2>4 DEF BudgetOK
  <2> QED BY <2>3, <2>4
<1>8. \A h \in Handlers : ClaimOK(h)'
  <2> SUFFICES ASSUME NEW h \in Handlers, handler[h].pc = "dispatching"
               PROVE  Calm' /\ recv'.receipts[handler[h].env.from].attempt < M!MaxAttempts' + grants'
    BY <1>0 DEF ClaimOK
  <2>1. /\ Calm /\ recv.receipts[handler[h].env.from].attempt < M!MaxAttempts + grants
        /\ handler[h].env.from \in M!Keys
    BY <1>1, AtWork DEF SingleInv, ClaimOK
  <2>2. recv'.receipts[handler[h].env.from].attempt = recv.receipts[handler[h].env.from].attempt
    BY <1>2, <1>3, <1>4, <2>1
  <2>3. recv.receipts[handler[h].env.from].attempt \in Nat
    BY <2>1, SingleFacts
  <2>4. Calm'
    BY <1>0, <2>1 DEF Calm
  <2> QED BY <1>0, <2>1, <2>2, <2>3, <2>4
<1>9. \A t \in turns' : LiveOK(t)'
  BY <1>0, <1>5
<1> QED BY <1>6, <1>7, <1>8, <1>9, SingleParts

(* Every step, with one request at a time and no restart. *)
LEMMA SingleStep ==
    ASSUME StreamInv, Single, SingleInv, [M!Next]_(M!vars)
    PROVE  SingleInv'
<1>1. CASE M!Next
  <2>0. scope' = scope /\ Lone'
    BY <1>1, SenderAlone DEF M!Next, SingleInv
  <2>1. ~M!ReceiverRestart
    BY WorkerTypes DEF M!ReceiverRestart, Single, M!MaxRestart
  <2>2. ASSUME NEW h \in Handlers, M!Accept(h) \/ M!Redispatch(h) PROVE SingleInv'
    BY <1>1, <2>0, <2>2, SingleLetIn
  <2>3. ASSUME NEW h \in Handlers, M!Dispatch(h) \/ M!DispatchRejected(h) PROVE SingleInv'
    BY <1>1, <2>0, <2>3, SingleDispatch
  <2>4. ASSUME NEW h \in Handlers, M!ExhaustBudget(h) \/ M!NotDispatched(h) PROVE SingleInv'
    BY <1>1, <2>0, <2>4, SingleSpent
  <2>5. CASE ~\E h \in Handlers : M!Accept(h) \/ M!Redispatch(h)
    <3>1. Claims
      BY <1>1, <2>5, SenderAlone DEF Claims, SingleInv
    <3>2. ASSUME UNCHANGED <<worker, up, turns, terms, fence, grants>>,
                 recv' = recv \/ Aside(recv, recv') \/ GivesUp(recv')
          PROVE  SingleInv'
      BY <2>0, <3>1, <3>2, QuietStep
    <3>3. CASE M!HubStep
      <4>1. UNCHANGED <<worker, up, turns, terms, fence, grants>>
        BY <3>3 DEF M!HubStep, M!Ingest, M!Timeout, M!EndMeeting, M!Finalize, M!Close, M!ReconcileCompletion, M!HubCrash, M!RefreshReceiver,
           M!RefreshHub, M!RemoveStart, M!RemoveFails, M!RemoveFinish, M!Retire, M!RetireCrash, M!Freeze, M!Resend, M!Observe, M!Lose, M!workerVars
      <4>2. recv \in RecvSet /\ scope \in Scopes /\ hubBoot \in M!Boots
        BY StreamTypes
      <4>3. \/ recv' = recv \/ recv' = M!Owned(recv, hubBoot) \/ recv' = M!Abandoned
            \/ recv' = [M!Owned(M!Abandoned, hubBoot) EXCEPT !.removed = TRUE]
        BY <3>3 DEF M!HubStep, M!Ingest, M!Timeout, M!EndMeeting, M!Finalize, M!Close, M!ReconcileCompletion, M!HubCrash, M!RefreshReceiver,
           M!RefreshHub, M!RemoveStart, M!RemoveFails, M!RemoveFinish, M!Retire, M!RetireCrash, M!Freeze, M!Resend, M!Observe, M!Lose
      <4>4. Aside(recv, M!Owned(recv, hubBoot))
        BY <4>2, OwnedFacts
      <4>5. (M!Abandoned = recv \/ GivesUp(M!Abandoned)) /\ M!Abandoned \in RecvSet
        BY <4>2, AbandonedFacts
      <4>6. recv' = [M!Owned(M!Abandoned, hubBoot) EXCEPT !.removed = TRUE] => recv' \in RecvSet /\ Aside(M!Abandoned, recv')
        <5> DEFINE o == M!Owned(M!Abandoned, hubBoot)
        <5>1. o \in RecvSet /\ Aside(M!Abandoned, o)
          BY <4>2, <4>5, OwnedFacts
        <5> HIDE DEF o
        <5>2. [o EXCEPT !.removed = TRUE] \in RecvSet /\ Aside(o, [o EXCEPT !.removed = TRUE])
          BY <5>1, RemovedFacts
        <5>3. recv' = [o EXCEPT !.removed = TRUE] => recv' \in RecvSet /\ Aside(M!Abandoned, recv')
          BY <5>1, <5>2 DEF Aside
        <5> QED BY <5>3 DEF o
      <4>7. recv' = recv \/ Aside(recv, recv') \/ GivesUp(recv')
        BY <4>3, <4>4, <4>5, <4>6 DEF GivesUp, Aside
      <4> QED BY <3>2, <4>1, <4>7
    <3>4. ASSUME NEW b \in posts, M!ReceiveRemoval(b) PROVE SingleInv'
      <4>1. UNCHANGED <<worker, up, turns, terms, fence, grants>>
        BY <3>4 DEF M!ReceiveRemoval, M!workerVars
      <4>2. recv \in RecvSet /\ b \in M!Boots
        BY StreamTypes, Typed DEF StreamInv
      <4>3. recv' = recv \/ recv' = [M!Owned(recv, b) EXCEPT !.removed = TRUE]
        BY <3>4 DEF M!ReceiveRemoval, M!AppliedRemoval
      <4>4. recv' = recv \/ Aside(recv, recv')
        <5> DEFINE o == M!Owned(recv, b)
        <5>1. o \in RecvSet /\ Aside(recv, o)
          BY <4>2, OwnedFacts
        <5> HIDE DEF o
        <5>2. Aside(o, [o EXCEPT !.removed = TRUE])
          BY <5>1, RemovedFacts
        <5>3. Aside(recv, [o EXCEPT !.removed = TRUE])
          BY <5>1, <5>2 DEF Aside
        <5> QED BY <4>3, <5>3 DEF o
      <4> QED BY <3>2, <4>1, <4>4
    <3>5. CASE M!ManualAbandon
      <4>1. UNCHANGED <<worker, up, turns, terms, fence, grants>> /\ recv' = M!Abandoned
        BY <3>5 DEF M!ManualAbandon, M!workerVars
      <4>2. M!Abandoned = recv \/ GivesUp(M!Abandoned)
        BY AbandonedFacts, StreamTypes
      <4> QED BY <3>2, <4>1, <4>2
    <3>6. ASSUME NEW h \in Handlers, M!Refuse(h) \/ M!AnswerExisting(h) PROVE SingleInv'
      <4>1. UNCHANGED <<worker, up, turns, terms, fence, grants>> /\ recv' = recv
        BY <3>6 DEF M!Refuse, M!AnswerExisting, M!workerVars
      <4> QED BY <3>2, <4>1
    <3>7. ASSUME NEW t \in turns, M!PaneEnds(t) \/ \E st \in {"completed", "failed", "cancelled", "ambiguous"} : M!TurnEnds(t, st)
          PROVE  SingleInv'
      BY <1>1, <2>0, <3>7, SingleEnds
    <3>8. ASSUME NEW m \in terms, M!Settle(m) \/ M!SettleExhausted(m) PROVE SingleInv'
      BY <1>1, <2>0, <3>8, SingleSettle
    <3>9. CASE M!WorkerDies \/ M!FenceTeardown
      BY <1>1, <2>0, <3>9, SingleDies
    <3>10. CASE M!LeaseExpires \/ \E g \in exits : M!HandleWorkerExit(g)
      BY <1>1, <2>0, <3>10, SingleFenced
    <3>11. CASE M!CliExit \/ M!FenceAck
      BY <1>1, <2>0, <3>11, SingleGone
    <3>12. CASE M!ManualRetry
      BY <1>1, <2>0, <3>12, SingleRetry
    <3>13. CASE M!WorkerStep
      BY <2>1, <3>13, <3>4, <3>5, <3>7, <3>8, <3>9, <3>10, <3>11, <3>12 DEF M!WorkerStep
    <3>14. ASSUME NEW h \in Handlers, M!HandlerStep(h) PROVE SingleInv'
      BY <2>3, <2>4, <2>5, <3>6, <3>14 DEF M!HandlerStep
    <3> QED BY <1>1, <3>3, <3>13, <3>14 DEF M!Next
  <2> QED BY <2>2, <2>5
<1>2. CASE UNCHANGED M!vars
  <2>1. scope' = scope /\ UNCHANGED <<handler, recv, worker, up, turns, terms, fence, grants>>
    BY <1>2 DEF M!vars, M!state
  <2>2. Lone' /\ Claims
    BY <2>1 DEF SingleInv, Lone, Claims
  <2> QED BY <2>1, <2>2, QuietStep
<1> QED BY <1>1, <1>2

(* The initial states. *)
LEMMA StreamInit ==
    ASSUME M!Init
    PROVE  StreamInv /\ SingleInv
<1>0. scope \in Scopes
  BY DEF M!Init
<1> USE <1>0
<1>1. /\ M!MaxItems \in Nat /\ M!MaxHubBoot \in Nat \ {0} /\ M!MaxTries \in Nat /\ M!MaxAttempts \in Nat \ {0}
      /\ M!MaxWorkerGen \in Nat /\ M!MaxGrants \in Nat /\ M!MaxRestart \in Nat /\ 1 \in M!Boots /\ 0 \in 0 .. M!MaxItems + 1
      /\ 0 \notin M!Keys
  BY ScopeFacts DEF M!Boots, M!Keys
<1>2. M!NoHead \in M!Head /\ M!NoReceipt \in ReceiptSet /\ M!NoFence \in FenceSet /\ M!Idle \in RequestSet
  BY <1>1, IdleFacts DEF M!NoHead, M!Head, M!NoReceipt, ReceiptSet, M!Statuses, M!NoFence, FenceSet
<1>3. /\ hub \in HubSet /\ hub.owner = 1 /\ hub.head = M!NoHead /\ hub.acked = 0 /\ ~hub.finalAcked /\ hub.phase = 0
  BY <1>1, <1>2 DEF M!Init, HubSet
<1>4. /\ recv \in RecvSet /\ recv.owner = 1 /\ recv.committed = 0 /\ recv.active = 0 /\ ~recv.abandoned
      /\ \A k \in M!Keys : recv.receipts[k] = M!NoReceipt
  BY <1>1, <1>2 DEF M!Init, RecvSet
<1>5. handler \in [Handlers -> RequestSet] /\ \A h \in Handlers : handler[h].pc = "idle" /\ ~handler[h].done
  BY <1>2, IdleFacts DEF M!Init
<1>6. /\ items = 0 /\ hubBoot = 1 /\ ready = "yes" /\ waiting = NoHandler /\ removing = "no" /\ posts = {}
      /\ fence = M!NoFence /\ worker = 0 /\ up = FALSE /\ turns = {} /\ terms = {} /\ exits = {}
      /\ grants = 0 /\ restarts = 0 /\ ran = {}
  BY DEF M!Init
<1>7. M!TypeOK
  <2>1. /\ items \in 0 .. M!MaxItems /\ hubBoot \in M!Boots /\ worker \in 0 .. M!MaxWorkerGen /\ grants \in 0 .. M!MaxGrants
        /\ restarts \in 0 .. M!MaxRestart
    BY <1>1, <1>6
  <2>2. /\ ready \in {"no", "receiver", "yes"} /\ waiting \in Handlers \cup {NoHandler} /\ up \in BOOLEAN
        /\ removing \in {"no", "posted", "accepted"}
    BY <1>6
  <2>3. /\ posts \subseteq M!Boots /\ turns \subseteq M!Dispatches /\ terms \subseteq TermSet /\ exits \subseteq 1 .. M!MaxWorkerGen
        /\ ran \subseteq M!Dispatches /\ fence \in FenceSet
    BY <1>2, <1>6
  <2> QED BY <1>3, <1>4, <1>5, <2>1, <2>2, <2>3, Typed DEF FenceSet, TermSet
<1>8. HubShape /\ Cursor /\ Owning /\ MeetRuns /\ M!ClosedComplete
  BY <1>1, <1>3, <1>4, <1>6 DEF HubShape, Cursor, Owning, MeetRuns, M!ClosedComplete
<1>9. Tiled
  BY <1>4 DEF Tiled
<1>10. \A k \in M!Keys : recv.receipts[k].status = "none" /\ recv.receipts[k].attempt = 0 /\ ~recv.receipts[k].granted
  BY <1>4 DEF M!NoReceipt
<1>11. \A k \in M!Keys : ReceiptOK(k)
  BY <1>1, <1>4, <1>10 DEF ReceiptOK, Open
<1>12. \A h \in Handlers : HandlerOK(h)
  BY <1>5 DEF HandlerOK
<1>13. StreamInv
  BY <1>7, <1>8, <1>9, <1>11, <1>12 DEF StreamInv
<1>14. \A k \in M!Keys : BudgetOK(k)
  BY <1>1, <1>6, <1>10 DEF BudgetOK
<1>15. Lone /\ \A h \in Handlers : ClaimOK(h)
  BY <1>5 DEF Lone, ClaimOK
<1> QED BY <1>6, <1>13, <1>14, <1>15 DEF SingleInv

(* What the two invariants say. *)
LEMMA StreamSays ==
    ASSUME StreamInv, SingleHolds
    PROVE  ExactlyOnce
<1>1. M!CursorsAgree
  BY DEF StreamInv, Cursor, HubShape, M!CursorsAgree
<1>2. M!DeliveredOnce
  <2> SUFFICES ASSUME NEW s \in 1 .. recv.committed
               PROVE  Cardinality({k \in M!Keys : /\ recv.receipts[k].status = "completed"
                                                  /\ k <= s /\ s <= recv.receipts[k].to}) = 1
    BY MeetSets DEF M!DeliveredOnce
  <2>1. PICK k \in M!Keys : Covering(s) = {k}
    BY DEF StreamInv, Tiled
  <2>2. Cardinality(Covering(s)) = 1
    BY <2>1, FS_Singleton
  <2> QED BY <2>2 DEF Covering
<1>3. M!NoConflict
  BY VerdictFacts DEF M!NoConflict
<1>4. M!SettledByOwnRun
  BY StreamTypes DEF M!SettledByOwnRun, ReceiptOK
<1>5. M!MaxOpen = 1 /\ M!MaxRestart = 0 => M!OneRun /\ M!BudgetHeld
  <2> SUFFICES ASSUME SingleInv PROVE M!OneRun /\ M!BudgetHeld
    BY DEF SingleHolds, Single, M!MaxOpen, M!MaxRestart
  <2>1. M!BudgetHeld
    BY DEF SingleInv, BudgetOK, M!BudgetHeld
  <2>2. CASE turns = {}
    <3>1. Cardinality(turns) = 0
      BY <2>2, FS_EmptySet
    <3> QED BY <2>1, <3>1, MeetSets DEF M!OneRun
  <2>3. CASE turns # {}
    <3>1. PICK t \in turns : turns = {t}
      BY <2>3 DEF SingleInv, LiveOK
    <3>2. Cardinality(turns) = 1
      BY <3>1, FS_Singleton
    <3> QED BY <2>1, <3>2, MeetSets DEF M!OneRun
  <2> QED BY <2>2, <2>3
<1> QED BY <1>1, <1>2, <1>3, <1>4, <1>5 DEF ExactlyOnce, StreamInv

(* Both invariants hold of every behaviour of a meeting. *)
LEMMA DeliveryInvariant == MeetingSpec => [](StreamInv /\ SingleHolds)
<1>1. M!Init => StreamInv /\ SingleHolds
  BY StreamInit DEF SingleHolds
<1>2. StreamInv /\ SingleHolds /\ [M!Next]_(M!vars) => (StreamInv /\ SingleHolds)'
  <2> SUFFICES ASSUME StreamInv, SingleHolds, [M!Next]_(M!vars) PROVE StreamInv' /\ SingleHolds'
    OBVIOUS
  <2>1. StreamInv'
    BY StreamStep
  <2>2. Single' => Single
    BY DEF Single, M!Next, M!vars
  <2>3. SingleHolds'
    BY <2>2, SingleStep DEF SingleHolds
  <2> QED BY <2>1, <2>3
<1> QED BY <1>1, <1>2, PTL DEF MeetingSpec, M!Spec

(* For every set of requests and every instance: each item reaches the agent      *)
(* exactly once and in order.  The two cursors agree, everything below them was   *)
(* completed by one batch and by the run of its own dispatch, no late request     *)
(* conflicts, a meeting is closed only when all of it was delivered or the member *)
(* is gone; and with one request at a time and no restart a batch never runs      *)
(* twice at once nor beyond its budget.                                           *)
THEOREM ItemsExactlyOnce == MeetingSpec => []ExactlyOnce
<1>1. StreamInv /\ SingleHolds => ExactlyOnce
  BY StreamSays
<1> QED BY <1>1, DeliveryInvariant, PTL

(* What is settled stays settled: the receiver's cursor, a completed receipt and *)
(* a stream given up are final, and a replaced boot never owns a file again.     *)
THEOREM SettledIsKept == MeetingSpec => SettledKept
<1>1. StreamInv /\ [M!Next]_(M!vars) =>
        /\ [/\ recv'.committed >= recv.committed
            /\ recv.abandoned => recv'.abandoned /\ recv'.committed = recv.committed
            /\ \A k \in M!Keys : recv.receipts[k].status = "completed" =>
                  recv'.receipts[k] = recv.receipts[k]]_(M!vars)
        /\ [hub'.owner >= hub.owner /\ recv'.owner >= recv.owner]_(M!vars)
  <2> SUFFICES ASSUME StreamInv, M!Next
               PROVE  /\ recv'.committed >= recv.committed
                      /\ recv.abandoned => recv'.abandoned /\ recv'.committed = recv.committed
                      /\ \A k \in M!Keys : recv.receipts[k].status = "completed" =>
                            recv'.receipts[k] = recv.receipts[k]
                      /\ hub'.owner >= hub.owner /\ recv'.owner >= recv.owner
    OBVIOUS
  <2>1. hub'.owner >= hub.owner /\ recv'.owner >= recv.owner
    BY OwningStep
  <2>2. FileKinds /\ recv.committed \in Nat
    BY FileCases, ActiveFacts
  <2>3. \/ recv'.committed = recv.committed /\ (recv.abandoned => recv'.abandoned)
        \/ \E k \in M!Keys : Completes(recv', k)
    BY <2>2, ZenonT(40) DEF FileKinds, Aside, Moves, Completes, GivesUp, Accepts
  <2>4. ASSUME NEW k \in M!Keys, Completes(recv', k) PROVE recv'.committed >= recv.committed /\ ~recv.abandoned
    <3>1. /\ hub.head # M!NoHead /\ recv'.committed = hub.head.to /\ recv.committed = hub.acked /\ ~recv.abandoned
          /\ hub.head.from = hub.acked + 1
      BY <2>4, CompletesHead
    <3>2. hub.head.from <= hub.head.to /\ hub.head.to \in Nat /\ hub.acked \in Nat
      BY <3>1, ActiveFacts DEF StreamInv, HubShape
    <3> QED BY <3>1, <3>2
  <2>5. recv'.committed >= recv.committed /\ (recv.abandoned => recv'.abandoned /\ recv'.committed = recv.committed)
    BY <2>2, <2>3, <2>4
  <2> QED BY <2>1, <2>5, CompletedStay
<1> QED BY <1>1, DeliveryInvariant, PTL DEF MeetingSpec, M!Spec, SettledKept, M!SettledForGood, M!OwnersOnlyAdvance
=============================================================================
