------------------------------ MODULE Triggers ------------------------------
(***************************************************************************)
(* Keyed (idempotent) trigger dispatch of the BotMux daemon: a caller may  *)
(* repeat a trigger under one key, and the input must reach the CLI at     *)
(* most once, whatever dies in between, and every caller must be able to   *)
(* learn an outcome.                                                       *)
(*                                                                         *)
(* One bot and one key.  With kind = "fresh" each request creates its own  *)
(* session (options.idempotencyKey); with kind = "turn" all requests       *)
(* append a turn to one shared session (options.turnIdempotencyKey).  A    *)
(* request's session and trigger ids are named by the request.  The lease  *)
(* file, the async-result file and the session rows are on disk; the rest  *)
(* is the daemon's memory and is lost when it dies.                        *)
(***************************************************************************)
EXTENDS Naturals, FiniteSets

CONSTANTS
    Requests,     \* HTTP requests that carry the key
    Payloads,     \* what may be sent: functions from requests to payload hashes
    Shared,       \* the session of kind = "turn"
    MaxBoot,      \* daemon boots
    MaxUp,        \* the last boot that may die while it serves; with a shared
                  \* session, which no boot closes, at any time
    MaxFaults,    \* durable writes that fail
    MaxGen,       \* worker generations of a session
    Freezes,      \* device-isolation freezes
    MaxSoft       \* best-effort saves of a result that are lost

TriggersAssumption ==
    /\ {MaxBoot, MaxUp, MaxFaults, MaxGen, Freezes, MaxSoft} \subseteq Nat /\ MaxBoot > 0
    /\ Shared \notin Requests

VARIABLES
    sent,     \* the option the key came with and the payloads, never changed
    lease,    \* disk: the idempotency record of the key, or NoLease
    result,   \* disk: request -> its entry of the async-trigger file
    row,      \* disk: session -> its row in the session store
    boot,     \* the daemon's boot id
    phase,    \* "down", "reconcile", "sweep" (closing orphans) or "up"
    active,   \* memory: sessions in activeSessions
    live,     \* memory: sessions with a worker that was not killed
    gen,      \* session -> worker generation (kept in its row)
    mem,      \* memory: request -> ds.asyncTriggerResults
    stamp,    \* memory: request -> generation in idempotentAsyncTurns, 0 = none
    fault,    \* memory: requests whose entry is marked postBarrierFault
    closing,  \* memory: sessions being closed in the background
    deferred, \* memory: requests whose fork waits for the freeze to end
    frozen,   \* memory: a device-isolation freeze lease is held
    req,      \* request -> [pc, seen]; seen is the lease its lookup returned
    answer,   \* request -> what its caller was told
    ranOn,    \* request -> generation its input was handed to, 0 = never
    captured, \* requests whose final output reached the daemon
    quar,     \* memory: sessions reconcile keeps from being restored
    unproven, \* history: sessions whose close threw or was cut off, still open
    used      \* faults, freezes and lost saves so far

disk == <<lease, result, row, gen>>
memory == <<active, live, mem, stamp, fault, closing, deferred, frozen>>
vars == <<sent, lease, result, row, boot, phase, active, live, gen, mem, stamp, fault,
          closing, deferred, frozen, req, answer, ranOn, captured, quar, unproven, used>>

kind == sent.kind         \* "fresh" or "turn"
Payload == sent.payload   \* request -> the hash of its business payload

NoLease == [state |-> "absent"]
NoAnswer == [kind |-> "none", of |-> Shared]
Queued(t) == [kind |-> "queued", of |-> t]
Failed(t) == [kind |-> "failed", of |-> t]
Error == [kind |-> "error", of |-> Shared]
Conflict == [kind |-> "conflict", of |-> Shared]
Sessions == IF kind = "fresh" THEN Requests ELSE {Shared}
SessionOf(r) == IF kind = "fresh" THEN r ELSE Shared
Terminal == {"completed", "unknown", "explicit"}

\* A request in the synchronous stretch from the claim to the fork: no other
\* callback of the daemon runs, but the process may die at each durable write.
NeverBusy == FALSE
Busy == \E r \in Requests : req[r].pc \in {"claimed", "release", "attempting"}
Serving == phase = "up" /\ ~Busy

\* A durable write that throws.
MayFail == used.faults < MaxFaults
Fails == MayFail /\ used' = [used EXCEPT !.faults = @ + 1]

Init ==
    /\ sent \in [kind : {"fresh", "turn"}, payload : Payloads]
    /\ lease = NoLease
    /\ result = [r \in Requests |-> "none"]
    /\ row = [s \in Sessions |-> IF kind = "fresh" THEN "none" ELSE "open"]
    /\ boot = 1 /\ phase = "up"
    /\ active = IF kind = "fresh" THEN {} ELSE Sessions
    /\ live \in SUBSET active
    /\ gen = [s \in Sessions |-> IF s \in live THEN 1 ELSE 0]
    /\ mem = [r \in Requests |-> "none"]
    /\ stamp = [r \in Requests |-> 0]
    /\ fault = {} /\ closing = {} /\ deferred = {} /\ frozen = FALSE
    /\ req = [r \in Requests |-> [pc |-> "idle", seen |-> NoLease]]
    /\ answer = [r \in Requests |-> NoAnswer]
    /\ ranOn = [r \in Requests |-> 0]
    /\ captured = {} /\ quar = {} /\ unproven = {}
    /\ used = [faults |-> 0, freezes |-> 0, soft |-> 0]

-----------------------------------------------------------------------------
(* The two stores. *)

\* recordFailedStrict: completed wins, an explicit worker terminal is kept.
RecordFailed(res, t) ==
    IF res[t] \in {"completed", "explicit"} THEN res
    ELSE [res EXCEPT ![t] = "unknown"]

\* recordTerminalFailureStrict: completed wins.
RecordTerminal(res, t) ==
    IF res[t] = "completed" THEN res ELSE [res EXCEPT ![t] = "explicit"]

\* recordCompleted: the strongest evidence, overwrites any earlier entry.
RecordCompleted(res, t) == [res EXCEPT ![t] = "completed"]

\* claim and takeover: the key is free, or it still holds exactly the
\* reservation of an older boot that the lookup saw.
Claimable(r) ==
    \/ lease = NoLease
    \/ /\ req[r].seen # NoLease
       /\ lease = req[r].seen
       /\ lease.state = "reserved"
       /\ lease.boot # boot

Reservation(r) ==
    [state |-> "reserved", req |-> r, boot |-> boot, hash |-> Payload[r],
     rev |-> IF lease = NoLease THEN 1 ELSE lease.rev + 1]

\* transition: the same identity in state attempting, one revision later.
Attempting(l) == [l EXCEPT !.state = "attempting", !.rev = @ + 1]

\* resolveIdempotencyHit.
Decision(hit) ==
    LET done == result[hit.req]
        worker == SessionOf(hit.req) \in live \cap active
    IN  IF done = "completed" THEN "reuse"
        ELSE IF done \in {"unknown", "explicit"} THEN "terminal"
        ELSE IF hit.state = "attempting" \/ hit.boot = boot
             THEN IF worker THEN "reuse" ELSE "terminal"
        ELSE "takeover"

-----------------------------------------------------------------------------
(* A request. *)

Goto(r, pc) == req' = [req EXCEPT ![r].pc = pc]
Answer(r, a) ==
    /\ answer' = [answer EXCEPT ![r] = a]
    /\ Goto(r, "done")

\* Stop a session: closeSession kills the worker, closes the row and drops the
\* in-memory session with everything that hung on it.
Close(s) ==
    /\ row' = [row EXCEPT ![s] = IF @ = "open" THEN "closed" ELSE @]
    /\ active' = active \ {s}
    /\ live' = live \ {s}
    /\ closing' = closing \ {s} /\ unproven' = unproven \ {s}
    /\ mem' = [t \in Requests |-> IF SessionOf(t) = s THEN "none" ELSE mem[t]]
    /\ stamp' = [t \in Requests |-> IF SessionOf(t) = s THEN 0 ELSE stamp[t]]
    /\ fault' = {t \in fault : SessionOf(t) # s}
    /\ deferred' = {t \in deferred : SessionOf(t) # s}
    /\ UNCHANGED used

\* The durable write of a close throws, before the worker is killed and the
\* session leaves the registry: it stays as it was, and nothing tries again.
CloseThrows(s) ==
    /\ row[s] = "open" /\ Fails
    /\ closing' = closing \ {s} /\ unproven' = unproven \cup {s}
    /\ UNCHANGED <<row, active, live, mem, stamp, fault, deferred>>

\* The pre-check lets the request through: the key is unused, or held by an
\* older boot's reservation.
CheckPasses(r) ==
    /\ Serving /\ req[r].pc = "idle" /\ ~frozen
    /\ lease # NoLease => lease.hash = Payload[r] /\ Decision(lease) = "takeover"
    /\ SessionOf(r) \in active \/ kind = "fresh"
    /\ req' = [req EXCEPT ![r] = [pc |-> "ready", seen |-> lease]]
    /\ UNCHANGED <<disk, memory, boot, phase, answer, ranOn, captured, sent, unproven, quar, used>>

\* The pre-check refuses: a freeze is on, or the shared session is gone.
CheckRefuses(r) ==
    /\ Serving /\ req[r].pc = "idle"
    /\ \/ frozen
       \/ lease = NoLease /\ kind = "turn" /\ Shared \notin active
    /\ Answer(r, Error)
    /\ UNCHANGED <<disk, memory, boot, phase, ranOn, captured, sent, unproven, quar, used>>

\* The pre-check answers from the existing lease.
CheckHits(r) ==
    /\ Serving /\ req[r].pc = "idle" /\ ~frozen
    /\ lease # NoLease
    /\ \/ lease.hash # Payload[r] /\ Answer(r, Conflict)
       \/ /\ lease.hash = Payload[r] /\ Decision(lease) = "terminal"
          /\ Answer(r, Failed(lease.req))
       \/ /\ lease.hash = Payload[r] /\ Decision(lease) = "reuse"
          /\ lease.req \notin fault
          /\ Answer(r, Queued(lease.req))
    /\ UNCHANGED <<disk, memory, boot, phase, ranOn, captured, sent, unproven, quar, used>>

\* The pre-check finds a turn marked postBarrierFault and tries once more to
\* write its failed outcome.
CheckHeals(r) ==
    /\ Serving /\ req[r].pc = "idle" /\ ~frozen
    /\ lease # NoLease
    /\ lease.hash = Payload[r] /\ Decision(lease) = "reuse"
    /\ lease.req \in fault
    /\ LET t == lease.req IN
       \/ /\ result' = RecordFailed(result, t)
          /\ stamp' = [stamp EXCEPT ![t] = 0]
          /\ fault' = fault \ {t}
          /\ mem' = [mem EXCEPT ![t] = IF result[t] = "completed" THEN @ ELSE "none"]
          /\ Answer(r, IF result[t] = "completed" THEN Queued(t) ELSE Failed(t))
          /\ UNCHANGED used
       \/ /\ Fails
          /\ Answer(r, Error)
          /\ UNCHANGED <<result, stamp, fault, mem>>
    /\ UNCHANGED <<lease, row, gen, active, live, closing, deferred, frozen,
                   boot, phase, ranOn, captured, sent, unproven, quar>>

\* createSession and the registration under the session-key lock.
CreateSession(r) ==
    /\ kind = "fresh" /\ Serving /\ req[r].pc = "ready"
    /\ row' = [row EXCEPT ![r] = "open"]
    /\ active' = active \cup {r}
    /\ Goto(r, "created")
    /\ UNCHANGED <<lease, result, gen, live, mem, stamp, fault, closing, deferred,
                   frozen, boot, phase, answer, ranOn, captured, sent, unproven, quar, used>>

AtClaim(r) == req[r].pc = IF kind = "fresh" THEN "created" ELSE "ready"

\* The turn's session was closed while the request awaited.
LostSession(r) ==
    /\ Serving /\ AtClaim(r)
    /\ SessionOf(r) \notin active
    /\ Answer(r, Error)
    /\ UNCHANGED <<disk, memory, boot, phase, ranOn, captured, sent, unproven, quar, used>>

\* claim / takeover wins: the reservation is durable.
ClaimWins(r) ==
    /\ Serving /\ AtClaim(r) /\ SessionOf(r) \in active
    /\ Claimable(r)
    /\ lease' = Reservation(r)
    /\ Goto(r, "claimed")
    /\ UNCHANGED <<result, row, gen, memory, boot, phase, answer, ranOn, captured, sent, unproven,
                   quar, used>>

\* claim / takeover throws, before or after the rename took effect.
ClaimThrows(r) ==
    /\ Serving /\ AtClaim(r) /\ SessionOf(r) \in active
    /\ Claimable(r) /\ Fails
    /\ lease' \in {lease, Reservation(r)}
    /\ IF kind = "fresh" THEN Goto(r, "abort") /\ UNCHANGED answer ELSE Answer(r, Error)
    /\ UNCHANGED <<result, row, gen, memory, boot, phase, ranOn, captured, sent, unproven, quar>>

\* claim / takeover finds another winner: a fresh request first closes the
\* session it created, a turn answers at once.
ClaimLoses(r) ==
    /\ Serving /\ AtClaim(r) /\ SessionOf(r) \in active
    /\ ~Claimable(r)
    /\ IF kind = "fresh"
       THEN /\ req' = [req EXCEPT ![r] = [pc |-> "losing", seen |-> lease]]
            /\ UNCHANGED answer
       ELSE Answer(r, IF lease.hash # Payload[r] THEN Conflict
                      ELSE IF Decision(lease) = "terminal" THEN Failed(lease.req)
                      ELSE Queued(lease.req))
    /\ UNCHANGED <<disk, memory, boot, phase, ranOn, captured, sent, unproven, quar, used>>

\* reuseExistingWinner: close our session, then resolve the winner's record. If
\* the close throws, it is tried once more and the caller gets an error.
Lose(r) ==
    /\ Serving /\ req[r].pc = "losing"
    /\ LET hit == req[r].seen IN
       \/ /\ Close(r)
          /\ Answer(r, IF hit.hash # Payload[r] THEN Conflict
                       ELSE IF Decision(hit) = "terminal" THEN Failed(hit.req)
                       ELSE Queued(hit.req))
       \/ /\ CloseThrows(r)
          /\ IF hit.hash = Payload[r] THEN Goto(r, "abort") /\ UNCHANGED answer
             ELSE Answer(r, Error)
    /\ UNCHANGED <<lease, result, gen, frozen, boot, phase, ranOn, captured, sent, quar>>

\* The commit-unknown barrier: reserved -> attempting, durable before any fork.
Barrier(r) ==
    /\ phase = "up" /\ req[r].pc = "claimed"
    /\ lease' = Attempting(lease)
    /\ Goto(r, "attempting")
    /\ UNCHANGED <<result, row, gen, memory, boot, phase, answer, ranOn, captured, sent, unproven,
                   quar, used>>

\* transition throws, before or after its rename took effect.  A turn answers
\* an error and leaves the lease as it is; a fresh request goes on to release it.
BarrierThrows(r) ==
    /\ phase = "up" /\ req[r].pc = "claimed" /\ Fails
    /\ lease' \in {lease, Attempting(lease)}
    /\ IF kind = "fresh" THEN Goto(r, "release") /\ UNCHANGED answer ELSE Answer(r, Error)
    /\ UNCHANGED <<result, row, gen, memory, boot, phase, ranOn, captured, sent, unproven, quar>>

\* compareAndRemove after the failed barrier: drop our reservation, or write
\* the failed outcome of a barrier that was crossed after all.
Release(r) ==
    /\ phase = "up" /\ req[r].pc = "release"
    /\ \/ /\ lease.state = "reserved"
          /\ lease' = NoLease
          /\ Goto(r, "abort")
          /\ UNCHANGED <<result, used>>
       \/ /\ lease.state = "attempting"
          /\ result' = RecordFailed(result, r)
          /\ Goto(r, "abortCrossed")
          /\ UNCHANGED <<lease, used>>
       \/ /\ Fails
          /\ Goto(r, "abort")
          /\ UNCHANGED <<lease, result>>
    /\ UNCHANGED <<row, gen, memory, boot, phase, answer, ranOn, captured, sent, unproven, quar>>

\* A best-effort save of a result: its failure is only logged.
SoftSave(new) ==
    \/ result' = new /\ UNCHANGED used
    \/ /\ used.soft < MaxSoft
       /\ used' = [used EXCEPT !.soft = @ + 1]
       /\ UNCHANGED result

\* beginAsyncTrigger's best-effort recordPending.
SavesPending(r) == SoftSave([result EXCEPT ![r] = "pending"])

\* The generation the dispatch runs on.
DispatchGen(r) == gen[SessionOf(r)] + (IF SessionOf(r) \in live THEN 0 ELSE 1)

\* forkWorker, or sendWorkerInput to a live worker: the input is handed over.
Dispatch(r) ==
    /\ phase = "up" /\ req[r].pc = "attempting"
    /\ SessionOf(r) \in live \/ ~frozen
    /\ SavesPending(r)
    /\ mem' = [mem EXCEPT ![r] = "pending"]
    /\ stamp' = [stamp EXCEPT ![r] = DispatchGen(r)]
    /\ ranOn' = [ranOn EXCEPT ![r] = DispatchGen(r)]
    /\ gen' = [gen EXCEPT ![SessionOf(r)] = DispatchGen(r)]
    /\ live' = live \cup {SessionOf(r)}
    /\ Answer(r, Queued(r))
    /\ UNCHANGED <<lease, row, active, fault, closing, deferred, frozen, boot,
                   phase, captured, sent, unproven, quar>>

\* forkWorker during a freeze: the spawn is deferred and reported as accepted.
DispatchDeferred(r) ==
    /\ phase = "up" /\ req[r].pc = "attempting"
    /\ SessionOf(r) \notin live /\ frozen
    /\ SavesPending(r)
    /\ mem' = [mem EXCEPT ![r] = "pending"]
    /\ stamp' = [stamp EXCEPT ![r] = DispatchGen(r)]
    /\ deferred' = deferred \cup {r}
    /\ Answer(r, Queued(r))
    /\ UNCHANGED <<lease, row, gen, active, live, fault, closing, frozen, boot,
                   phase, ranOn, captured, sent, unproven, quar>>

\* A throw, or the worker's refusal, after the barrier.  The failed outcome is
\* written first; if that fails too a fresh request reports an error, and a turn
\* keeps its entry marked postBarrierFault.
DispatchFails(r) ==
    /\ phase = "up" /\ req[r].pc = "attempting"
    /\ used.faults < MaxFaults
    /\ \E twice \in BOOLEAN :
       /\ twice => used.faults + 1 < MaxFaults
       /\ used' = [used EXCEPT !.faults = @ + (IF twice THEN 2 ELSE 1)]
       /\ result' = IF twice THEN [result EXCEPT ![r] = "pending"]
                    ELSE RecordFailed(result, r)
       /\ IF kind = "fresh"
          THEN /\ Goto(r, IF twice THEN "abort" ELSE "abortFailed")
               /\ UNCHANGED <<answer, stamp, fault>>
          ELSE /\ \E refused \in BOOLEAN :
                     Answer(r, IF refused \/ twice THEN Error ELSE Failed(r))
               /\ stamp' = [stamp EXCEPT ![r] = IF twice THEN DispatchGen(r) ELSE 0]
               /\ fault' = IF twice THEN fault \cup {r} ELSE fault
    /\ UNCHANGED <<lease, row, gen, active, live, mem, closing, deferred, frozen,
                   boot, phase, ranOn, captured, sent, unproven, quar>>

\* The fresh request closes its session and reports what it established. A close
\* that throws is swallowed after the fork, and ends the request before it.
Abort(r) ==
    /\ Serving /\ req[r].pc \in {"abort", "abortCrossed", "abortFailed"}
    /\ \/ /\ Close(r)
          /\ Answer(r, IF req[r].pc = "abort" THEN Error ELSE Failed(r))
       \/ /\ CloseThrows(r)
          /\ Answer(r, IF req[r].pc = "abortFailed" THEN Failed(r) ELSE Error)
    /\ UNCHANGED <<lease, result, gen, frozen, boot, phase, ranOn, captured, sent, quar>>

-----------------------------------------------------------------------------
(* Workers. *)

Executing(r) ==
    /\ SessionOf(r) \in live
    /\ ranOn[r] = gen[SessionOf(r)]
    /\ ranOn[r] # 0
    /\ mem[r] # "none"

\* final_output: the result is captured in memory and saved best-effort.
FinalOutput(r) ==
    /\ Serving /\ Executing(r)
    /\ mem' = [mem EXCEPT ![r] = "completed"]
    /\ SoftSave(RecordCompleted(result, r))
    /\ stamp' = [stamp EXCEPT ![r] = 0]
    /\ fault' = fault \ {r}
    /\ captured' = captured \cup {r}
    /\ UNCHANGED <<sent, unproven, lease, row, gen, active, live, closing, deferred, frozen, boot,
                   phase, req, answer, ranOn, quar>>

\* turn_terminal with a provider failure.
TurnFails(r) ==
    /\ Serving /\ Executing(r)
    /\ \/ /\ mem[r] = "completed"
          /\ UNCHANGED <<mem, result, used>>
       \/ /\ mem[r] # "completed"
          /\ result' = RecordTerminal(result, r)
          /\ mem' = [mem EXCEPT ![r] = IF result[r] = "completed" THEN "none" ELSE "failed"]
          /\ UNCHANGED used
       \/ /\ mem[r] # "completed" /\ Fails
          /\ mem' = [mem EXCEPT ![r] = "failed"]
          /\ UNCHANGED result
    /\ stamp' = [stamp EXCEPT ![r] = 0]
    /\ fault' = fault \ {r}
    /\ UNCHANGED <<lease, row, gen, active, live, closing, deferred, frozen, boot,
                   phase, req, answer, ranOn, captured, sent, unproven, quar>>

\* convergeIdempotentAsyncTurnOnWorkerExit: every turn stamped with the exiting
\* generation gets its failed outcome; if a write fails, the session is closed.
ConvergeLogsOnly(s) ==
    LET turns == {r \in Requests : SessionOf(r) = s /\ stamp[r] = gen[s] /\ stamp[r] # 0}
    IN  \/ /\ result' = [r \in Requests |->
                            IF r \in turns THEN RecordFailed(result, r)[r] ELSE result[r]]
           /\ stamp' = [r \in Requests |-> IF r \in turns THEN 0 ELSE stamp[r]]
           /\ fault' = fault \ turns
           /\ UNCHANGED <<closing, used>>
        \/ turns # {} /\ Fails /\ UNCHANGED <<stamp, fault, closing, result>>
Converge(s) ==
    LET turns == {r \in Requests : SessionOf(r) = s /\ stamp[r] = gen[s] /\ stamp[r] # 0}
        open == {r \in turns : result[r] # "completed"}
    IN  \/ /\ result' = [r \in Requests |->
                            IF r \in open THEN RecordFailed(result, r)[r] ELSE result[r]]
           /\ stamp' = [r \in Requests |-> IF r \in turns THEN 0 ELSE stamp[r]]
           /\ fault' = fault \ turns
           /\ UNCHANGED <<closing, used>>
        \/ /\ open # {} /\ Fails
           /\ stamp' = [r \in Requests |-> IF r \in turns \ open THEN 0 ELSE stamp[r]]
           /\ fault' = fault \ (turns \ open)
           /\ closing' = closing \cup {s}
           /\ UNCHANGED result

\* The worker process dies, with its CLI; the session's generation moves on so
\* that nothing of the dead worker is accepted any more.
WorkerExit(s) ==
    /\ Serving /\ s \in live
    /\ Converge(s)
    /\ live' = live \ {s}
    /\ gen' = [gen EXCEPT ![s] = @ + 1]
    /\ UNCHANGED <<lease, row, active, mem, deferred, frozen, boot, phase, req,
                   answer, ranOn, captured, sent, unproven, quar>>

\* The CLI dies inside a worker that lives on and restarts it, without replaying
\* the keyed input.
CliExit(s) ==
    /\ Serving /\ s \in live
    /\ \E r \in Requests : SessionOf(r) = s /\ stamp[r] # 0
    /\ Converge(s)
    /\ UNCHANGED <<lease, row, gen, active, live, mem, deferred, frozen, boot, phase,
                   req, answer, ranOn, captured, sent, unproven, quar>>

\* runIdempotencyFailClose: a close that throws is only logged.
FailClose(s) ==
    /\ Serving /\ s \in closing
    /\ Close(s) \/ CloseThrows(s)
    /\ UNCHANGED <<lease, result, gen, frozen, boot, phase, req, answer, ranOn,
                   captured, sent, quar>>

\* Another message wakes the dormant shared session.
Wake(s) ==
    /\ kind = "turn" /\ Serving /\ ~frozen
    /\ s \in active \ live /\ s \notin closing
    /\ \A r \in deferred : SessionOf(r) # s
    /\ gen[s] < MaxGen
    /\ gen' = [gen EXCEPT ![s] = @ + 1]
    /\ live' = live \cup {s}
    /\ UNCHANGED <<lease, result, row, active, mem, stamp, fault, closing, deferred,
                   frozen, boot, phase, req, answer, ranOn, captured, sent, unproven, quar, used>>

\* A poll of trigger-result retries the failed outcome of a faulted turn.
PollHeals(r) ==
    /\ Serving /\ r \in fault /\ SessionOf(r) \in active
    /\ result' = RecordFailed(result, r)
    /\ stamp' = [stamp EXCEPT ![r] = 0]
    /\ fault' = fault \ {r}
    /\ mem' = [mem EXCEPT ![r] = IF result[r] = "completed" THEN @ ELSE "none"]
    /\ UNCHANGED <<lease, row, gen, active, live, closing, deferred, frozen, boot,
                   phase, req, answer, ranOn, captured, sent, unproven, quar, used>>

-----------------------------------------------------------------------------
(* The device-isolation freeze. *)

\* acquireDeviceIsolationFreeze, from an HTTP handler: it cannot run inside the
\* chain of promise jobs that takes a fresh request from its check to its fork.
Freeze ==
    /\ Serving /\ ~frozen /\ used.freezes < Freezes
    /\ kind = "fresh" => \A r \in Requests : req[r].pc \notin {"ready", "created"}
    /\ frozen' = TRUE
    /\ used' = [used EXCEPT !.freezes = @ + 1]
    /\ UNCHANGED <<disk, active, live, mem, stamp, fault, closing, deferred, boot,
                   phase, req, answer, ranOn, captured, sent, unproven, quar>>

\* The freeze lease is released or expires.
Unfreeze ==
    /\ Serving /\ frozen
    /\ frozen' = FALSE
    /\ UNCHANGED <<disk, active, live, mem, stamp, fault, closing, deferred, boot,
                   phase, req, answer, ranOn, captured, sent, unproven, quar, used>>

\* A deferred spawn runs once the freeze is over.
DeferredFork(r) ==
    /\ Serving /\ ~frozen /\ r \in deferred
    /\ deferred' = deferred \ {r}
    /\ LET s == SessionOf(r) IN
       /\ gen' = [gen EXCEPT ![s] = @ + 1]
       /\ ranOn' = [ranOn EXCEPT ![r] = gen[s] + 1]
       /\ live' = live \cup {s}
    /\ UNCHANGED <<lease, result, row, active, mem, stamp, fault, closing, frozen,
                   boot, phase, req, answer, captured, sent, unproven, quar, used>>

-----------------------------------------------------------------------------
(* The daemon dies and boots. *)

\* Requests in flight die with the process and are never answered.
Crash ==
    /\ phase # "down" /\ boot < MaxBoot
    /\ phase = "up" \/ kind = "turn" => boot <= MaxUp
    /\ phase' = "down"
    /\ active' = {} /\ live' = {} /\ closing' = {} /\ fault' = {} /\ deferred' = {}
    /\ quar' = {} /\ frozen' = FALSE
    /\ mem' = [r \in Requests |-> "none"]
    /\ stamp' = [r \in Requests |-> 0]
    /\ req' = [r \in Requests |->
                  IF req[r].pc = "idle" THEN req[r] ELSE [req[r] EXCEPT !.pc = "done"]]
    /\ unproven' = unproven \cup {s \in quar : row[s] = "open"}
    /\ UNCHANGED <<disk, boot, answer, ranOn, captured, sent, used>>

Boot ==
    /\ phase = "down" /\ boot < MaxBoot
    /\ boot' = boot + 1
    /\ phase' = "reconcile"
    /\ UNCHANGED <<disk, memory, req, answer, ranOn, captured, sent, unproven, quar, used>>

\* reconcileIdempotencyLeasesOnBoot decides the key's lease: completed stays, a
\* crossed barrier gets its failed outcome, a reservation is removed.
ReconcileForgets ==
    /\ phase = "reconcile"
    /\ phase' = "sweep"
    /\ lease' = NoLease /\ quar' = {}
    /\ UNCHANGED <<result, row, gen, memory, boot, req, answer, ranOn, captured, sent, unproven,
                   used>>
Reconcile ==
    /\ phase = "reconcile"
    /\ phase' = "sweep"
    /\ LET old == lease # NoLease
           done == IF old THEN result[lease.req] ELSE "none"
       IN  /\ lease' = IF old /\ lease.state = "reserved" /\ done \notin Terminal
                       THEN NoLease ELSE lease
           /\ result' = IF old /\ lease.state = "attempting" /\ done \notin Terminal
                        THEN RecordFailed(result, lease.req) ELSE result
           /\ quar' = IF old /\ kind = "fresh" /\ done # "completed"
                      THEN {SessionOf(lease.req)} ELSE {}
    /\ UNCHANGED <<row, gen, memory, boot, req, answer, ranOn, captured, sent, unproven, used>>

\* A write of the reconcile throws: the bot's startup is aborted and the
\* supervisor starts it again.
ReconcileThrows ==
    /\ phase = "reconcile" /\ boot < MaxBoot
    /\ lease # NoLease /\ result[lease.req] \notin Terminal /\ Fails
    /\ phase' = "down"
    /\ UNCHANGED <<disk, memory, boot, req, answer, ranOn, captured, sent, unproven, quar>>

\* Close the quarantined sessions, restore the other open rows, bind the server.
Restore ==
    /\ phase = "sweep"
    /\ phase' = "up"
    /\ row' = [s \in Sessions |-> IF s \in quar /\ row[s] = "open" THEN "closed" ELSE row[s]]
    /\ active' = {s \in Sessions \ quar : row[s] = "open"}
    /\ unproven' = unproven \ quar
    /\ UNCHANGED <<lease, result, gen, live, mem, stamp, fault, closing, deferred,
                   frozen, boot, req, answer, ranOn, captured, sent, quar, used>>

\* A close of the sweep throws: as ReconcileThrows, with the lease settled.
RestoreThrows ==
    /\ phase = "sweep" /\ boot < MaxBoot
    /\ \E s \in quar : row[s] = "open"
    /\ Fails
    /\ phase' = "down"
    /\ unproven' = unproven \cup {s \in quar : row[s] = "open"}
    /\ quar' = {}
    /\ UNCHANGED <<disk, memory, boot, req, answer, ranOn, captured, sent>>

-----------------------------------------------------------------------------
RequestStep(r) ==
    \/ CheckPasses(r) \/ CheckRefuses(r) \/ CheckHits(r) \/ CheckHeals(r)
    \/ CreateSession(r) \/ LostSession(r)
    \/ ClaimWins(r) \/ ClaimThrows(r) \/ ClaimLoses(r) \/ Lose(r)
    \/ Barrier(r) \/ BarrierThrows(r) \/ Release(r)
    \/ Dispatch(r) \/ DispatchDeferred(r) \/ DispatchFails(r) \/ Abort(r)

WorkerStep ==
    \/ \E r \in Requests : FinalOutput(r) \/ TurnFails(r) \/ PollHeals(r)
    \/ \E s \in Sessions : WorkerExit(s) \/ CliExit(s) \/ FailClose(s) \/ Wake(s)

Next ==
    \/ \E r \in Requests : RequestStep(r)
    \/ WorkerStep
    \/ Freeze \/ Unfreeze \/ (\E r \in Requests : DeferredFork(r))
    \/ Crash \/ Boot \/ Reconcile \/ ReconcileThrows \/ Restore \/ RestoreThrows

Spec == Init /\ [][Next]_vars

\* Fairness: the daemon's event loop runs what is ready, a supervisor restarts
\* it, a freeze lease expires after 30 s, and a turn ends or its worker dies.
Turn(r) == Executing(r) /\ (FinalOutput(r) \/ TurnFails(r) \/ WorkerExit(SessionOf(r)))

Fairness ==
    /\ \A r \in Requests :
        /\ WF_vars(req[r].pc # "idle" /\ RequestStep(r))
        /\ WF_vars(Turn(r))
        /\ WF_vars(DeferredFork(r))
    /\ \A s \in Requests \cup {Shared} : WF_vars(FailClose(s))
    /\ WF_vars(Unfreeze) /\ WF_vars(Boot) /\ WF_vars(Restore \/ RestoreThrows)
    /\ WF_vars(Reconcile \/ ReconcileThrows)

FairSpec == Spec /\ Fairness

-----------------------------------------------------------------------------
(* What trigger-result reports: buildAsyncTriggerLookupResponse and           *)
(* resolveAsyncTriggerState.  A fresh session is polled by its session id, a  *)
(* turn by its trigger id.                                                    *)
PollState(r) ==
    LET s == SessionOf(r)
        m == IF s \in active THEN mem[r] ELSE "none"
    IN  IF kind = "turn" /\ m = "none" /\ result[r] = "none" THEN "bad_request"
        ELSE IF m = "completed" \/ result[r] = "completed" THEN "completed"
        ELSE IF m = "failed" \/ result[r] \in {"unknown", "explicit"} \/ row[s] = "closed"
             THEN "failed"
        ELSE "running"

LeaseType ==
    [state : {"reserved", "attempting"}, req : Requests, boot : 1..MaxBoot,
     hash : {Payload[r] : r \in Requests}, rev : Nat] \cup {NoLease}

\* Types of the disk, the daemon's memory and the callers' view.
TypeOK ==
    /\ lease \in LeaseType
    /\ result \in [Requests -> {"none", "pending"} \cup Terminal]
    /\ row \in [Sessions -> {"none", "open", "closed"}]
    /\ gen \in [Sessions -> Nat] /\ ranOn \in [Requests -> Nat]
    /\ boot \in 1..MaxBoot /\ phase \in {"down", "reconcile", "sweep", "up"}
    /\ {active, live, closing, quar} \subseteq SUBSET Sessions
    /\ unproven \subseteq Requests \cup {Shared}
    /\ {fault, deferred, captured} \subseteq SUBSET Requests
    /\ mem \in [Requests -> {"none", "pending", "completed", "failed"}]
    /\ stamp \in [Requests -> Nat] /\ frozen \in BOOLEAN
    /\ \A r \in Requests :
        /\ req[r].pc \in {"idle", "ready", "created", "claimed", "losing", "release",
                          "attempting", "abort", "abortCrossed", "abortFailed", "done"}
        /\ req[r].seen \in LeaseType

\* At most one request's input is ever handed to a CLI under the key, across
\* concurrent retries, failed writes, worker deaths and daemon restarts
\* (the dispatch lease of idempotency-store.ts).
AtMostOnce == Cardinality({r \in Requests : ranOn[r] # 0}) <= 1

ToldFailed(t) == \E r \in Requests : answer[r] = Failed(t)

\* Once a caller was told that a turn failed and will not be re-run, that turn's
\* input is never handed to a CLI (trigger-session.ts 861-870: the freeze guard).
\* A keyed turn that meets a freeze escapes the guard.
NotStartedAfterFailed ==
    [][kind = "fresh" \/ used.freezes = 0 =>
       \A r \in Requests : ranOn[r] = 0 /\ ranOn'[r] # 0 => ~ToldFailed(r)]_vars

\* A caller is told `queued` only for a turn whose input really went to a CLI:
\* nobody is sent to poll for a turn that will never run
\* (resolveIdempotencyHit's reuse decisions, trigger-session.ts 834-836). For a
\* keyed turn only as long as no durable write has failed and no fork waits.
QueuedWasDispatched ==
    kind = "fresh" \/ used.faults + used.freezes = 0 =>
    \A r, t \in Requests : answer[r] = Queued(t) => ranOn[t] # 0

\* Once a turn's final output was captured, a poll of the running daemon reports
\* it completed, also after a worker exit that first wrote it off and after
\* restarts (completed wins in async-trigger-store.ts), if its save was not lost.
CapturedStaysCompleted ==
    phase = "up" /\ used.soft = 0 => \A r \in captured : PollState(r) = "completed"

\* Whatever a caller was told about a turn, queued or failed, a poll of the
\* daemon in the end reports an outcome: it never says running for ever. If the
\* close of its session threw or was cut off, only once a later boot closed it.
\* (For a keyed turn, if its durable writes succeed.)
AnswersSettle ==
    \A t \in Requests :
        (\E r \in Requests : answer[r] \in {Queued(t), Failed(t)})
            ~> \/ phase = "up" /\ PollState(t) \in {"completed", "failed"}
               \/ SessionOf(t) \in unproven
               \/ kind = "turn" /\ used.faults > 0
=============================================================================
