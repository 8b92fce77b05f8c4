--------------------------- MODULE MeetingDelivery ---------------------------
(***************************************************************************)
(* How BotMux hands the items of a meeting to one agent, exactly once and   *)
(* in order: the hub daemon that owns the meeting freezes a batch in its    *)
(* durable file (vc-meeting-delivery-hub-store.ts), posts it to the         *)
(* receiver's daemon until a receipt says `completed`, and only then        *)
(* freezes the next; the receiver keeps its own cursor and receipts         *)
(* (vc-meeting-delivery-store.ts), dispatches a batch as a turn of a worker *)
(* and settles it with the terminal of that very dispatch                   *)
(* (vc-meeting-delivery-receiver.ts).  A dispatch whose end is unknown is   *)
(* `ambiguous` and may be repeated, behind a fence that stays in place      *)
(* until the old run is known to be gone (daemon.ts).                       *)
(*                                                                         *)
(* One member stream and one epoch of it.  Item i has delivery sequence i,  *)
(* the final marker the one after the last item.  A batch is known by its   *)
(* first sequence number, which stands for deliveryKey and inputHash: the   *)
(* code derives both from the frozen envelope.                              *)
(***************************************************************************)
EXTENDS Naturals, FiniteSets

CONSTANTS
    Handlers,       \* /deliver requests
    NoHandler,      \* the hub is not waiting for an answer
    Scopes          \* the instances to look at, one of which is `scope`

VARIABLE scope      \* the instance; it never changes

MaxItems == scope.items         \* bound: items of the meeting
MaxBatch == scope.batch         \* caps.maxItems
MaxAttempts == scope.attempts   \* MAX_AUTOMATIC_DISPATCH_ATTEMPTS
MaxTries == scope.tries         \* bound: dispatches of one batch
MaxWorkerGen == scope.tries     \* bound: generations of the worker
MaxOpen == scope.open           \* bound: requests open at the same time
MaxGrants == scope.grants       \* bound: manual retries
MayRemove == scope.remove       \* bound: whether the member is removed
MaxHubBoot == scope.boots       \* bound: boots of the hub
MaxRestart == scope.restarts    \* bound: restarts of the receiver's daemon

DeliveryAssumption ==
    /\ IsFiniteSet(Handlers) /\ NoHandler \notin Handlers
    /\ Scopes \subseteq [items : Nat, batch : Nat \ {0}, attempts : Nat \ {0},
                        tries : Nat, open : Nat, grants : Nat, remove : BOOLEAN,
                        boots : Nat \ {0}, restarts : Nat]

Keys == 1 .. MaxItems + 1
Boots == 1 .. MaxHubBoot

Claimable == {"accepted", "ambiguous", "failed_retryable", "failed_terminal"}
Retryable == Claimable \ {"accepted"}
Statuses == Claimable \cup {"none", "dispatched", "completed", "abandoned"}

VARIABLES
    hub,        \* the hub's file for this stream
    recv,       \* the receiver's file for this stream
    items,      \* items ingested so far
    boot,       \* bootId of the hub daemon
    ready,      \* consumerProfileOwnerBootReady, and how far its two writes are
    waiting,    \* injectPromise: the request the hub awaits
    removing,   \* removeVcMeetingProfileMember under way in the hub
    posts,      \* removal projections on their way, by the boot that sent them
    handler,    \* the requests and the receiver's handlers
    fence,      \* the runtime or boot recovery fence of the stream
    gen, up,    \* generation of the receiver's worker; is it running
    live,       \* dispatches still queued or executing in a worker or a pane
    terms,      \* turn_terminal messages not settled yet
    exits,      \* worker exits not handled yet
    grants,     \* manual retries so far
    restarts,   \* restarts of the receiver's daemon so far
    ran         \* history: the dispatches whose turn completed

hubVars == <<hub, items, boot, ready, waiting, removing, posts>>
workerVars == <<gen, up, live, terms, exits, ran>>
state == <<hub, recv, items, boot, ready, waiting, removing, posts, handler,
           fence, gen, up, live, terms, exits, grants, restarts, ran>>
vars == <<scope, state>>

NoHead == [from |-> 0, to |-> 0, final |-> FALSE, boot |-> 0]
NoReceipt == [status |-> "none", to |-> 0, attempt |-> 0, gen |-> 0, granted |-> FALSE]
NoFence == [key |-> 0, attempt |-> 0]
Idle == [pc |-> "idle", env |-> NoHead, done |-> FALSE, through |-> 0]

Init ==
    /\ scope \in Scopes
    /\ hub = [owner |-> 1, retired |-> {}, removed |-> FALSE, head |-> NoHead,
              acked |-> 0, finalAcked |-> FALSE, phase |-> 0]
    /\ recv = [owner |-> 1, retired |-> {}, removed |-> FALSE, committed |-> 0,
               active |-> 0, poisoned |-> FALSE, abandoned |-> FALSE,
               receipts |-> [k \in Keys |-> NoReceipt]]
    /\ items = 0 /\ boot = 1 /\ ready = "yes" /\ waiting = NoHandler
    /\ removing = "no" /\ posts = {}
    /\ handler = [h \in Handlers |-> Idle]
    /\ fence = NoFence
    /\ gen = 0 /\ up = FALSE /\ live = {} /\ terms = {} /\ exits = {}
    /\ grants = 0 /\ restarts = 0 /\ ran = {}

-----------------------------------------------------------------------------
(* The hub: freeze, send, observe.                                          *)

\* A new item of the meeting, while it lasts.
Ingest ==
    /\ hub.phase = 0 /\ items < MaxItems
    /\ items' = items + 1
    /\ UNCHANGED <<hub, recv, boot, ready, waiting, removing, posts, handler,
                   fence, gen, up, live, terms, exits, grants, restarts, ran>>

\* The member is active and this boot owns it: injectVcMeetingProfileMember.
MayPump == ready = "yes" /\ waiting = NoHandler /\ ~hub.removed /\ hub.phase < 3

Send(h, env) ==
    /\ handler[h].pc = "idle"
    /\ Cardinality({g \in Handlers : handler[g].pc # "idle"}) < MaxOpen
    /\ handler' = [handler EXCEPT ![h] = [Idle EXCEPT !.pc = "sent", !.env = env]]
    /\ waiting' = h

\* The batch: up to MaxBatch of the items not acknowledged yet, and the final
\* marker when the meeting is finalizing and nothing is left out.
Batch(n) ==
    LET final == hub.phase = 2 /\ n = items - hub.acked
    IN [from |-> hub.acked + 1,
        to |-> hub.acked + n + (IF final THEN 1 ELSE 0),
        final |-> final, boot |-> hub.owner]

Freeze(h) ==
    /\ MayPump /\ hub.head = NoHead /\ ~hub.finalAcked
    /\ \E n \in 0 .. MaxBatch :
          /\ n <= items - hub.acked
          /\ Batch(n).to >= Batch(n).from
          /\ n = 0 => items = hub.acked
          /\ hub' = [hub EXCEPT !.head = Batch(n)]
          /\ Send(h, Batch(n))
    /\ UNCHANGED <<recv, items, boot, ready, removing, posts, fence,
                   workerVars, grants, restarts>>

\* The frozen envelope is rebuilt from the file and posted again.
Resend(h) ==
    /\ MayPump /\ hub.head # NoHead
    /\ Send(h, hub.head)
    /\ UNCHANGED <<hub, recv, items, boot, ready, removing, posts, fence,
                   workerVars, grants, restarts>>

Acked ==
    [hub EXCEPT !.acked = hub.head.to, !.head = NoHead,
                !.finalAcked = @ \/ hub.head.final]

ObservationAcks(a) ==
    a.done /\ hub.head.from = a.env.from /\ a.through >= hub.head.to

\* observeVcMeetingHubReceiverReceipt with the answer that was awaited.
Observe(h) ==
    /\ waiting = h /\ handler[h].pc = "replied"
    /\ hub' = IF ObservationAcks(handler[h]) THEN Acked ELSE hub
    /\ waiting' = NoHandler
    /\ handler' = [handler EXCEPT ![h] = Idle]
    /\ UNCHANGED <<recv, items, boot, ready, removing, posts, fence,
                   workerVars, grants, restarts>>

\* The fetch is aborted after 30 s, or its connection breaks.
Timeout ==
    /\ waiting # NoHandler
    /\ waiting' = NoHandler
    /\ UNCHANGED <<hub, recv, items, boot, ready, removing, posts, handler,
                   fence, workerVars, grants, restarts>>

\* A request nobody awaits is lost, or its answer is.
Lose(h) ==
    /\ waiting # h /\ handler[h].pc \in {"sent", "replied"}
    /\ handler' = [handler EXCEPT ![h] = Idle]
    /\ UNCHANGED <<hub, recv, items, boot, ready, waiting, removing, posts,
                   fence, workerVars, grants, restarts>>

-----------------------------------------------------------------------------
(* The hub: closing, restarting, removing the member.                       *)

EndMeeting ==
    /\ hub.phase = 0
    /\ hub' = [hub EXCEPT !.phase = 1]
    /\ UNCHANGED <<recv, items, boot, ready, waiting, removing, posts, handler,
                   fence, workerVars, grants, restarts>>

Finalize ==
    /\ hub.phase = 1
    /\ hub' = [hub EXCEPT !.phase = 2]
    /\ UNCHANGED <<recv, items, boot, ready, waiting, removing, posts, handler,
                   fence, workerVars, grants, restarts>>

MayClose == hub.removed \/ (hub.head = NoHead /\ hub.finalAcked)

Close ==
    /\ hub.phase = 2 /\ MayClose
    /\ hub' = [hub EXCEPT !.phase = 3]
    /\ UNCHANGED <<recv, items, boot, ready, waiting, removing, posts, handler,
                   fence, workerVars, grants, restarts>>

\* While the meeting closes, the hub reads the receiver's file itself.
ReconcileCompletion ==
    /\ hub.phase \in {1, 2} /\ hub.head # NoHead
    /\ recv.receipts[hub.head.from].status = "completed"
    /\ recv.committed >= hub.head.to
    /\ hub' = Acked
    /\ UNCHANGED <<recv, items, boot, ready, waiting, removing, posts, handler,
                   fence, workerVars, grants, restarts>>

HubCrash ==
    /\ boot < MaxHubBoot
    /\ boot' = boot + 1
    /\ ready' = "no" /\ waiting' = NoHandler /\ removing' = "no"
    /\ UNCHANGED <<hub, recv, items, posts, handler, fence, workerVars,
                   grants, restarts>>

\* Registering a boot retires the one before it for good.
Owned(file, b) ==
    [file EXCEPT !.owner = b,
                 !.retired = IF file.owner = b THEN @ ELSE @ \cup {file.owner}]

\* refreshVcMeetingProfileOwnerBoot: the receiver's file first.  A removal the
\* hub does not know of has raised the generation there and refuses it.
RefreshReceiver ==
    /\ ready = "no" /\ ~hub.removed /\ hub.phase < 3
    /\ boot \notin recv.retired /\ ~recv.removed
    /\ recv' = Owned(recv, boot)
    /\ ready' = "receiver"
    /\ UNCHANGED <<hub, items, boot, waiting, removing, posts, handler, fence,
                   workerVars, grants, restarts>>

RefreshHub ==
    /\ ready = "receiver" /\ hub.phase < 3
    /\ hub' = Owned(hub, boot)
    /\ ready' = "yes"
    /\ UNCHANGED <<recv, items, boot, waiting, removing, posts, handler, fence,
                   workerVars, grants, restarts>>

\* Mutant: every receipt of the stream is marked, completed ones too.
AbandonedAll ==
    IF recv.abandoned \/ \A k \in Keys : recv.receipts[k].status = "none"
    THEN recv
    ELSE [recv EXCEPT
            !.abandoned = TRUE, !.active = 0,
            !.receipts = [k \in Keys |->
                IF @[k].status # "none" THEN [@[k] EXCEPT !.status = "abandoned"]
                ELSE @[k]]]

\* abandonVcMeetingDeliveryStream: a stream without any receipt does not exist.
Abandoned ==
    IF recv.abandoned \/ \A k \in Keys : recv.receipts[k].status = "none"
    THEN recv
    ELSE [recv EXCEPT
            !.abandoned = TRUE, !.active = 0,
            !.receipts = [k \in Keys |->
                IF k = recv.active THEN [@[k] EXCEPT !.status = "abandoned"]
                ELSE @[k]]]

\* removeVcMeetingProfileMember up to the await: the stream is abandoned and
\* the removal posted to the receiver.
RemoveStart ==
    /\ MayRemove
    /\ ready = "yes" /\ removing = "no" /\ ~hub.removed /\ hub.phase < 3
    /\ recv' = Abandoned
    /\ posts' = posts \cup {boot}
    /\ removing' = "posted"
    /\ UNCHANGED <<hub, items, boot, ready, waiting, handler, fence,
                   workerVars, grants, restarts>>

\* applyVcMeetingMemberProjection(removed): refused when b has been retired.
AppliedRemoval(b) ==
    IF b \in recv.retired THEN recv ELSE [Owned(recv, b) EXCEPT !.removed = TRUE]

ReceiveRemoval(b) ==
    /\ b \in posts
    /\ posts' = posts \ {b}
    /\ recv' = AppliedRemoval(b)
    /\ removing' = IF removing = "posted" /\ b = boot /\ recv'.removed
                   THEN "accepted" ELSE removing
    /\ UNCHANGED <<hub, items, boot, ready, waiting, handler, fence,
                   workerVars, grants, restarts>>

\* The post fails or its answer is late: the selection throws.
RemoveFails ==
    /\ removing = "posted"
    /\ removing' = "no"
    /\ UNCHANGED <<hub, recv, items, boot, ready, waiting, posts, handler,
                   fence, workerVars, grants, restarts>>

RemoveFinish ==
    /\ removing = "accepted"
    /\ hub' = IF hub.phase = 3 THEN hub
              ELSE [Owned(hub, boot) EXCEPT !.removed = TRUE]
    /\ removing' = "no"
    /\ UNCHANGED <<recv, items, boot, ready, waiting, posts, handler, fence,
                   workerVars, grants, restarts>>

\* retireVcMeetingProfileMemberForRecovery, when the close has waited enough.
Retire ==
    /\ MayRemove
    /\ hub.phase = 2 /\ ~hub.removed /\ ~hub.finalAcked
    /\ recv' = [Owned(Abandoned, boot) EXCEPT !.removed = TRUE]
    /\ hub' = [Owned(hub, boot) EXCEPT !.removed = TRUE]
    /\ UNCHANGED <<items, boot, ready, waiting, removing, posts, handler, fence,
                   workerVars, grants, restarts>>

\* ... and the daemon dies after the first or the second of its three writes.
RetireCrash ==
    /\ MayRemove
    /\ hub.phase = 2 /\ ~hub.removed /\ ~hub.finalAcked
    /\ boot < MaxHubBoot
    /\ recv' \in {Abandoned, [Owned(Abandoned, boot) EXCEPT !.removed = TRUE]}
    /\ boot' = boot + 1
    /\ ready' = "no" /\ waiting' = NoHandler /\ removing' = "no"
    /\ UNCHANGED <<hub, items, posts, handler, fence, workerVars, grants,
                   restarts>>

-----------------------------------------------------------------------------
(* The receiver: /deliver up to its await, and the dispatch after it.       *)

\* acceptVcMeetingDelivery, in the order of its checks.
Verdict(env) ==
    IF recv.removed THEN "membership_removed"
    ELSE IF recv.abandoned THEN "stream_abandoned"
    ELSE IF recv.poisoned THEN "stream_poisoned"
    ELSE IF recv.receipts[env.from].status # "none" THEN "existing"
    ELSE IF env.boot # recv.owner THEN "stale_owner_boot"
    ELSE IF env.to <= recv.committed THEN "duplicate"
    ELSE IF recv.active # 0 THEN "delivery_in_flight"
    ELSE IF env.from <= recv.committed THEN "delivery_partial_overlap"
    ELSE IF env.from > recv.committed + 1 THEN "delivery_gap"
    ELSE "new"

IsBlocked == fence # NoFence

Reply(h, done) ==
    handler' = [handler EXCEPT ![h].pc = "replied", ![h].done = done,
                               ![h].through = recv'.committed]

Receipt(h) == recv.receipts[handler[h].env.from]

SetReceipt(k, r) == [recv EXCEPT !.receipts[k] = r]

\* A conflict, a duplicate, or 503 while the stream is fenced.
Refuse(h) ==
    /\ handler[h].pc = "sent"
    /\ IsBlocked \/ Verdict(handler[h].env) \notin {"existing", "new"}
    /\ UNCHANGED recv
    /\ Reply(h, ~IsBlocked /\ Verdict(handler[h].env) = "duplicate")
    /\ UNCHANGED <<hubVars, fence, workerVars, grants, restarts>>

Existing(h) ==
    /\ handler[h].pc = "sent" /\ ~IsBlocked
    /\ Verdict(handler[h].env) = "existing"

AnswerExisting(h) ==
    /\ Existing(h)
    /\ Receipt(h).status \in {"dispatched", "completed", "abandoned"}
    /\ UNCHANGED recv
    /\ Reply(h, Receipt(h).status = "completed")
    /\ UNCHANGED <<hubVars, fence, workerVars, grants, restarts>>

OverBudget(r) ==
    r.status \in Retryable /\ r.attempt >= MaxAttempts /\ ~r.granted

\* The automatic retries are used up: the head is poisoned.
ExhaustBudget(h) ==
    /\ Existing(h) /\ OverBudget(Receipt(h))
    /\ recv' = [SetReceipt(handler[h].env.from,
                           [Receipt(h) EXCEPT !.status = "failed_terminal"])
                EXCEPT !.poisoned = TRUE]
    /\ Reply(h, FALSE)
    /\ UNCHANGED <<hubVars, fence, workerVars, grants, restarts>>

\* A new batch: the receipt is durable before anything is dispatched.
Accept(h) ==
    /\ handler[h].pc = "sent" /\ ~IsBlocked
    /\ Verdict(handler[h].env) = "new"
    /\ recv' = [SetReceipt(handler[h].env.from,
                           [NoReceipt EXCEPT !.status = "accepted",
                                             !.to = handler[h].env.to])
                EXCEPT !.active = handler[h].env.from]
    /\ handler' = [handler EXCEPT ![h].pc = "dispatching"]
    /\ UNCHANGED <<hubVars, fence, workerVars, grants, restarts>>

Redispatch(h) ==
    /\ Existing(h)
    /\ Receipt(h).status \in Claimable /\ ~OverBudget(Receipt(h))
    /\ handler' = [handler EXCEPT ![h].pc = "dispatching"]
    /\ UNCHANGED <<hubVars, recv, fence, workerVars, grants, restarts>>

\* What markVcMeetingDeliveryDispatched asks for: neither the fence, nor the
\* poison mark, nor the budget is looked at again.
CanClaim(h) == Receipt(h).status \in Claimable /\ ~recv.abandoned

NextGen == IF up THEN gen ELSE gen + 1

Claimed(h, status) ==
    [Receipt(h) EXCEPT !.status = status, !.attempt = @ + 1, !.gen = NextGen,
                       !.granted = FALSE]

\* The turn is claimed and handed to the worker, forked if there is none.
Dispatch(h) ==
    /\ handler[h].pc = "dispatching" /\ CanClaim(h)
    /\ Receipt(h).attempt < MaxTries /\ NextGen <= MaxWorkerGen
    /\ recv' = SetReceipt(handler[h].env.from, Claimed(h, "dispatched"))
    /\ gen' = NextGen /\ up' = TRUE
    /\ live' = live \cup {[key |-> handler[h].env.from,
                           attempt |-> Receipt(h).attempt + 1, gen |-> NextGen]}
    /\ Reply(h, FALSE)
    /\ UNCHANGED <<hubVars, fence, terms, exits, grants, restarts, ran>>

\* The turn is claimed and then not taken: failed, with evidence.
DispatchRejected(h) ==
    /\ handler[h].pc = "dispatching" /\ CanClaim(h)
    /\ Receipt(h).attempt < MaxTries
    /\ recv' = SetReceipt(handler[h].env.from, Claimed(h, "failed_retryable"))
    /\ Reply(h, FALSE)
    /\ UNCHANGED <<hubVars, fence, workerVars, grants, restarts>>

\* Nothing was claimed: another handler was first, the stream was abandoned,
\* or the trigger refused the turn.  Without evidence only `accepted` fails.
NotDispatched(h) ==
    /\ handler[h].pc = "dispatching"
    /\ recv' = IF Receipt(h).status = "accepted"
               THEN SetReceipt(handler[h].env.from,
                               [Receipt(h) EXCEPT !.status = "failed_retryable"])
               ELSE recv
    /\ Reply(h, Receipt(h).status = "completed")
    /\ UNCHANGED <<hubVars, fence, workerVars, grants, restarts>>

-----------------------------------------------------------------------------
(* The receiver's worker: turns, terminals, deaths, leases and the fence.   *)

\* The worker reports the end of a turn it holds.
TurnEnds(t, status) ==
    /\ t \in live /\ up /\ t.gen = gen
    /\ live' = live \ {t}
    /\ terms' = terms \cup {[turn |-> t, status |-> status]}
    /\ ran' = IF status = "completed" THEN ran \cup {t} ELSE ran
    /\ UNCHANGED <<hubVars, recv, handler, fence, gen, up, exits, grants, restarts>>

\* A turn in a pane whose worker is gone ends, and nobody hears of it.
PaneEnds(t) ==
    /\ t \in live /\ (up => t.gen # gen)
    /\ live' = live \ {t}
    /\ UNCHANGED <<hubVars, recv, handler, fence, gen, up, terms, exits, grants,
                   restarts, ran>>

\* Mutant: the attempt is not part of the evidence.
SettledAnyAttempt(m) ==
    LET k == m.turn.key
        r == recv.receipts[k]
    IN IF /\ r.gen = m.turn.gen
          /\ m.status = "completed" /\ r.status \in {"dispatched", "ambiguous"}
       THEN [SetReceipt(k, [r EXCEPT !.status = "completed"])
             EXCEPT !.committed = r.to, !.active = 0]
       ELSE recv

\* handleVcMeetingTurnTerminal: the evidence must name the current dispatch.
Settled(m) ==
    LET k == m.turn.key
        r == recv.receipts[k]
    IN IF r.gen # m.turn.gen \/ r.attempt # m.turn.attempt THEN recv
       ELSE IF m.status = "completed" /\ r.status \in {"dispatched", "ambiguous"}
       THEN [SetReceipt(k, [r EXCEPT !.status = "completed"])
             EXCEPT !.committed = r.to,
                    !.active = IF @ = k THEN 0 ELSE @]
       ELSE IF m.status = "ambiguous" /\ r.status = "dispatched"
       THEN SetReceipt(k, [r EXCEPT !.status = "ambiguous"])
       ELSE IF m.status = "failed" /\ r.status \in {"dispatched", "ambiguous"}
       THEN SetReceipt(k, [r EXCEPT !.status = "failed_retryable"])
       ELSE IF m.status = "cancelled"
               /\ r.status \in {"dispatched", "ambiguous", "failed_retryable",
                                "failed_terminal"}
       THEN [SetReceipt(k, [r EXCEPT !.status = "failed_terminal"])
             EXCEPT !.poisoned = TRUE]
       ELSE recv

Settle(m) ==
    /\ m \in terms
    /\ terms' = terms \ {m}
    /\ recv' = Settled(m)
    /\ UNCHANGED <<hubVars, handler, fence, gen, up, live, exits, grants,
                   restarts, ran>>

\* The active receipt of worker generation g becomes ambiguous.
GenerationHeads(g) ==
    {k \in Keys : /\ k = recv.active /\ recv.receipts[k].gen = g
                  /\ recv.receipts[k].status \in {"dispatched", "ambiguous"}}

GenerationExit(g) ==
    [recv EXCEPT !.receipts = [k \in Keys |->
        IF k \in GenerationHeads(g) THEN [@[k] EXCEPT !.status = "ambiguous"]
        ELSE @[k]]]

\* The terminal could not be written twenty times over: retry_exhausted.
SettleExhausted(m) ==
    /\ m \in terms
    /\ terms' = terms \ {m}
    /\ recv' = GenerationExit(m.turn.gen)
    /\ UNCHANGED <<hubVars, handler, fence, gen, up, live, exits, grants,
                   restarts, ran>>

\* The Node worker dies; the CLI in a persistent pane does not.
WorkerDies ==
    /\ up
    /\ up' = FALSE /\ exits' = exits \cup {gen}
    /\ UNCHANGED <<hubVars, recv, handler, fence, gen, live, terms, grants,
                   restarts, ran>>

\* A fence for this dispatch; one for an earlier dispatch is superseded.
Armed(heads) ==
    IF heads = {} THEN fence
    ELSE LET k == CHOOSE x \in heads : TRUE
         IN [key |-> k, attempt |-> recv.receipts[k].attempt]

\* onWorkerExit: ambiguous and fenced in the same tick.
HandleWorkerExit(g) ==
    /\ g \in exits
    /\ exits' = exits \ {g}
    /\ recv' = GenerationExit(g)
    /\ fence' = Armed(GenerationHeads(g))
    /\ UNCHANGED <<hubVars, handler, gen, up, live, terms, grants, restarts, ran>>

\* onCliExit: the CLI itself is gone and its queued turns are dropped, so the
\* receipt becomes ambiguous without a fence.
CliExit ==
    /\ up /\ \E t \in live : t.gen = gen
    /\ live' = {t \in live : t.gen # gen}
    /\ recv' = GenerationExit(gen)
    /\ UNCHANGED <<hubVars, handler, fence, gen, up, terms, exits, grants,
                   restarts, ran>>

DispatchedHeads ==
    {k \in Keys : k = recv.active /\ recv.receipts[k].status = "dispatched"}

Expired ==
    [recv EXCEPT !.receipts = [k \in Keys |->
        IF k \in DispatchedHeads THEN [@[k] EXCEPT !.status = "ambiguous"]
        ELSE @[k]]]

\* The lease watchdog: ambiguous and fenced in the same tick.
LeaseExpires ==
    /\ DispatchedHeads # {}
    /\ recv' = Expired
    /\ fence' = Armed(DispatchedHeads)
    /\ UNCHANGED <<hubVars, handler, workerVars, grants, restarts>>

FencedTurns ==
    {t \in live : t.key = fence.key /\ t.attempt = fence.attempt}

\* The worker of that very generation acknowledges: it took the turn out of
\* its queue, or killed the CLI with everything in it.
FenceAck ==
    /\ IsBlocked /\ up /\ \E t \in FencedTurns : t.gen = gen
    /\ live' \in {live \ FencedTurns, {}}
    /\ fence' = NoFence
    /\ UNCHANGED <<hubVars, recv, handler, gen, up, terms, exits, grants,
                   restarts, ran>>

\* Mutant: the proof is there and the fence stays.
FenceTeardownStays ==
    /\ IsBlocked
    /\ live' = {} /\ up' = FALSE
    /\ exits' = IF up THEN exits \cup {gen} ELSE exits
    /\ UNCHANGED <<hubVars, recv, handler, fence, gen, terms, grants, restarts,
                   ran>>

\* teardownAndProbe: worker and panes are killed, and known to be gone.
FenceTeardown ==
    /\ IsBlocked
    /\ live' = {} /\ up' = FALSE
    /\ exits' = IF up THEN exits \cup {gen} ELSE exits
    /\ fence' = NoFence
    /\ UNCHANGED <<hubVars, recv, handler, gen, terms, grants, restarts, ran>>

\* The receiver's daemon restarts.  Its workers go with it, panes stay; what
\* was dispatched is ambiguous and fenced, and no other fence is remembered.
ReceiverRestart ==
    /\ restarts < MaxRestart
    /\ restarts' = restarts + 1
    /\ recv' = Expired
    /\ fence' = IF DispatchedHeads = {} THEN NoFence ELSE Armed(DispatchedHeads)
    /\ handler' = [h \in Handlers |-> Idle]
    /\ up' = FALSE /\ terms' = {} /\ exits' = {}
    /\ UNCHANGED <<hubVars, gen, live, grants, ran>>

\* The operator lets a poisoned head be dispatched once more.
ManualRetry ==
    /\ recv.poisoned /\ recv.active # 0 /\ grants < MaxGrants
    /\ recv.receipts[recv.active].status = "failed_terminal"
    /\ recv' = [SetReceipt(recv.active,
                           [recv.receipts[recv.active] EXCEPT !.granted = TRUE])
                EXCEPT !.poisoned = FALSE]
    /\ grants' = grants + 1
    /\ UNCHANGED <<hubVars, handler, fence, workerVars, restarts>>

\* ... or gives the stream up.
ManualAbandon ==
    /\ recv.active # 0
    /\ recv.receipts[recv.active].status = "failed_terminal"
    /\ recv' = Abandoned
    /\ UNCHANGED <<hubVars, handler, fence, workerVars, grants, restarts>>

-----------------------------------------------------------------------------
HandlerStep(h) ==
    \/ Refuse(h) \/ AnswerExisting(h) \/ ExhaustBudget(h) \/ Accept(h)
    \/ Redispatch(h) \/ Dispatch(h) \/ DispatchRejected(h) \/ NotDispatched(h)

HubStep ==
    \/ Ingest \/ Timeout \/ EndMeeting \/ Finalize \/ Close
    \/ ReconcileCompletion \/ HubCrash \/ RefreshReceiver \/ RefreshHub
    \/ RemoveStart \/ RemoveFails \/ RemoveFinish \/ Retire \/ RetireCrash
    \/ \E h \in Handlers : Freeze(h) \/ Resend(h) \/ Observe(h) \/ Lose(h)

WorkerStep ==
    \/ WorkerDies \/ CliExit \/ LeaseExpires \/ FenceAck \/ FenceTeardown
    \/ ReceiverRestart \/ ManualRetry \/ ManualAbandon
    \/ \E t \in live : PaneEnds(t)
    \/ \E t \in live : \E s \in {"completed", "failed", "cancelled", "ambiguous"} :
          TurnEnds(t, s)
    \/ \E m \in terms : Settle(m) \/ SettleExhausted(m)
    \/ \E g \in exits : HandleWorkerExit(g)
    \/ \E b \in posts : ReceiveRemoval(b)

Next ==
    /\ HubStep \/ WorkerStep \/ \E h \in Handlers : HandlerStep(h)
    /\ UNCHANGED scope

Spec == Init /\ [][Next]_vars

-----------------------------------------------------------------------------
(* Properties.                                                              *)

Head == [from : 0 .. MaxItems + 1, to : 0 .. MaxItems + 1, final : BOOLEAN,
         boot : 0 .. MaxHubBoot]
Dispatches == [key : Keys, attempt : 1 .. MaxTries, gen : 1 .. MaxWorkerGen]

\* Type invariant.
TypeOK ==
    /\ scope \in Scopes
    /\ hub \in [owner : Boots, retired : SUBSET Boots, removed : BOOLEAN,
                head : Head, acked : 0 .. MaxItems + 1, finalAcked : BOOLEAN,
                phase : 0 .. 3]
    /\ recv \in [owner : Boots, retired : SUBSET Boots, removed : BOOLEAN,
                 committed : 0 .. MaxItems + 1, active : 0 .. MaxItems + 1,
                 poisoned : BOOLEAN, abandoned : BOOLEAN,
                 receipts : [Keys -> [status : Statuses, to : 0 .. MaxItems + 1,
                                      attempt : 0 .. MaxTries, gen : Nat,
                                      granted : BOOLEAN]]]
    /\ items \in 0 .. MaxItems /\ boot \in Boots
    /\ ready \in {"no", "receiver", "yes"}
    /\ waiting \in Handlers \cup {NoHandler}
    /\ removing \in {"no", "posted", "accepted"} /\ posts \subseteq Boots
    /\ handler \in [Handlers -> [pc : {"idle", "sent", "dispatching", "replied"},
                                 env : Head, done : BOOLEAN,
                                 through : 0 .. MaxItems + 1]]
    /\ fence \in [key : 0 .. MaxItems + 1, attempt : 0 .. MaxTries]
    /\ gen \in 0 .. MaxWorkerGen /\ up \in BOOLEAN /\ live \subseteq Dispatches
    /\ terms \subseteq [turn : Dispatches,
                        status : {"completed", "failed", "cancelled", "ambiguous"}]
    /\ exits \subseteq 1 .. MaxWorkerGen
    /\ grants \in 0 .. MaxGrants /\ restarts \in 0 .. MaxRestart
    /\ ran \subseteq Dispatches

\* The two files agree although they are never written together: the hub's
\* cursor is the receiver's, or one frozen batch behind it (comments of
\* freezeVcMeetingHubDeliveryAssignment and completeVcMeetingDelivery).
CursorsAgree ==
    /\ hub.head = NoHead => recv.committed = hub.acked
    /\ hub.head # NoHead => /\ hub.head.from = hub.acked + 1
                            /\ recv.committed \in {hub.acked, hub.head.to}

\* Every sequence number up to the receiver's cursor was completed by exactly
\* one batch: no item is skipped and none is delivered twice, whatever was
\* lost, repeated, fenced or restarted.
DeliveredOnce ==
    \A s \in 1 .. recv.committed :
        Cardinality({k \in Keys : /\ recv.receipts[k].status = "completed"
                                  /\ k <= s /\ s <= recv.receipts[k].to}) = 1

\* A request of the hub, however late it arrives, never meets a receiver that
\* calls it a gap, an overlap, a duplicate or a second batch in flight.
NoConflict ==
    \A h \in Handlers : handler[h].pc = "sent" =>
        Verdict(handler[h].env) \notin
            {"duplicate", "delivery_in_flight", "delivery_partial_overlap",
             "delivery_gap"}

\* A completed receipt names the dispatch whose own turn completed: the late
\* terminal of an earlier dispatch never settles a later one.
SettledByOwnRun ==
    \A k \in Keys : recv.receipts[k].status = "completed" =>
        \E t \in ran : t.key = k /\ t.attempt = recv.receipts[k].attempt

\* A meeting is closed only when the member was removed or has completed every
\* item and the final marker.
ClosedComplete ==
    hub.phase = 3 => \/ hub.removed
                     \/ recv.committed = items + 1 /\ hub.acked = items + 1

\* Once a boot of the hub has been replaced it never owns a file again, so its
\* late projections and fresh batches stay out.
OwnersOnlyAdvance ==
    [][hub'.owner >= hub.owner /\ recv'.owner >= recv.owner]_vars

\* What is settled stays settled: a completed receipt never changes and the
\* cursor of an abandoned stream never moves.
SettledForGood ==
    [][/\ recv'.committed >= recv.committed
       /\ recv.abandoned => recv'.abandoned /\ recv'.committed = recv.committed
       /\ \A k \in Keys : recv.receipts[k].status = "completed" =>
             recv'.receipts[k] = recv.receipts[k]]_vars

\* The stream is never executed twice at the same time: a batch is dispatched
\* again only when the run before it is gone (comment of onWorkerExit).
OneRun == Cardinality(live) <= 1

\* A poisoned stream waits for the operator or is given up: its head is
\* failed_terminal and nothing of it runs (comment of handleVcMeetingTurnTerminal on cancelled).
PoisonHolds ==
    recv.poisoned /\ ~recv.abandoned =>
        \E k \in Keys : /\ k = recv.active
                        /\ recv.receipts[k].status = "failed_terminal"

\* Without the operator a batch is dispatched at most MaxAttempts times.
BudgetHeld ==
    \A k \in Keys : recv.receipts[k].attempt <= MaxAttempts + grants

-----------------------------------------------------------------------------
(* Progress.                                                                *)

\* The pump keeps running, handlers answer, turns end or their lease expires,
\* exits are reported, the teardown of a fence ends, and a close that waits
\* for ever retires the member.  A request that is
\* posted again and again is at last handled, and answered, within the hub's
\* 30 s, and a dispatch that is tried again and again is taken.
Fairness ==
    /\ WF_state(\E h \in Handlers : Freeze(h) \/ Resend(h))
    /\ WF_state(\E h \in Handlers : Observe(h) \/ Lose(h))
    /\ WF_state(Timeout)
    /\ WF_state(RefreshReceiver \/ RefreshHub)
    /\ \A h \in Handlers :
          /\ SF_state(/\ waiting = h
                      /\ \/ Refuse(h) \/ AnswerExisting(h) \/ ExhaustBudget(h)
                         \/ Accept(h) \/ Redispatch(h))
          /\ SF_state(Observe(h))
          /\ SF_state(Dispatch(h))
          /\ WF_state(DispatchRejected(h) \/ NotDispatched(h))
    /\ WF_state(\E m \in terms : Settle(m))
    /\ WF_state(\E g \in exits : HandleWorkerExit(g))
    /\ WF_state(LeaseExpires)
    /\ WF_state(FenceTeardown)
    /\ WF_state(Retire)
    /\ WF_state(\E b \in posts : ReceiveRemoval(b))

FairSpec == Spec /\ Fairness

\* A frozen batch does not hold the stream for ever: it is acknowledged, or
\* poisoned for the operator, or the member is given up.
HeadSettles ==
    \A k \in UNION {1 .. s.items + 1 : s \in Scopes} : (hub.head.from = k) ~>
        (hub.head.from # k \/ recv.poisoned \/ recv.abandoned \/ recv.removed)
=============================================================================
