------------------------------ MODULE AskBroker ------------------------------
(***************************************************************************)
(* `botmux ask`: a CLI hook posts a question to the daemon and blocks; the *)
(* broker shows a card, collects clicks, and answers the hook. Asks of     *)
(* hooks that outlive the daemon are kept on disk: after a restart the     *)
(* broker restores them as dormant, a click on the old card is stashed,    *)
(* and the hook claims it when its retried POST arrives.                   *)
(*                                                                         *)
(* One request id per hook, so entries, files and cards are indexed by the *)
(* hook. The question allows several choices (the empty one needs a second *)
(* click). Time is only known as "the deadline is past", of the hook and   *)
(* of the broker; the hook computes its own first.                         *)
(***************************************************************************)
EXTENDS Naturals, FiniteSets

CONSTANTS
    Hook,          \* hook processes, each with one request
    Resumable,     \* those whose backend survives a daemon restart
    Option,        \* options of a question
    MaxSend,       \* CARD_DISPATCH_MAX_ATTEMPTS
    MaxFaults,     \* bound: daemon deaths, lost connections, failed writes of records
    MaxIds         \* bound: asks registered

AskBrokerAssumption ==
    /\ Resumable \subseteq Hook
    /\ MaxSend \in Nat \ {0} /\ MaxFaults \in Nat /\ MaxIds \in Nat

VARIABLES
    up,        \* the daemon runs and has restored its asks
    pending,   \* per hook: the broker's entry, or NoAsk
    disk,      \* per hook: the persisted record, or NoRecord
    stale,     \* history: hooks whose record the last write or removal failed for
    spoiled,   \* history: hooks whose present ask went through a restart with such a record
    hook,      \* per hook: where its process is, and its result
    card,      \* per hook: askId on the card in the chat (the uuid dedupes), or 0
    ids,       \* askIds given out
    hookLate,  \* hooks whose own deadline is past
    askLate,   \* hooks whose ask's deadline is past
    ticked,    \* history: what the user has ticked on the present card
    accepted,  \* history: answers the broker accepted
    stashed,   \* history: an answer was stashed and nobody claimed it yet
    lost,      \* history: hooks a daemon death or a lost connection hit
    faults

vars == <<up, pending, disk, stale, spoiled, hook, card, ids, hookLate, askLate,
          ticked, accepted, stashed, lost, faults>>

NoResult == [kind |-> "none", sel |-> {}]
TimedOut == [kind |-> "timedOut", sel |-> {}]
Invalidated == [kind |-> "invalidated", sel |-> {}]
Answered(s) == [kind |-> "answered", sel |-> s]
Reply == [kind |-> "answered", sel |-> {"comment"}]
Result == [kind : {"none", "timedOut", "invalidated", "answered"},
           sel : SUBSET (Option \cup {"comment"})]

NoAsk == [id |-> 0, settled |-> FALSE, dormant |-> FALSE, stash |-> FALSE, result |-> NoResult,
          card |-> FALSE, send |-> 0, sel |-> {}]
NoRecord == [id |-> 0, card |-> FALSE, sel |-> {}, stash |-> FALSE, result |-> NoResult]

TypeOK ==
    /\ up \in BOOLEAN
    /\ pending \in [Hook -> [id : 0..MaxIds, settled : BOOLEAN, dormant : BOOLEAN, stash : BOOLEAN,
                             result : Result, card : BOOLEAN, send : 0..MaxSend,
                             sel : SUBSET Option]]
    /\ disk \in [Hook -> [id : 0..MaxIds, card : BOOLEAN, sel : SUBSET Option, stash : BOOLEAN,
                          result : Result]]
    /\ stale \subseteq Hook /\ spoiled \subseteq Hook
    /\ hook \in [Hook -> [pc : {"new", "wait", "resp", "retry", "done"}, result : Result]]
    /\ card \in [Hook -> 0..MaxIds] /\ ids \in 0..MaxIds
    /\ hookLate \subseteq Hook /\ askLate \subseteq Hook
    /\ ticked \in [Hook -> SUBSET Option]
    /\ accepted \in [Hook -> SUBSET Result]
    /\ stashed \in [Hook -> Result]
    /\ lost \subseteq Hook /\ faults \in 0..MaxFaults

Init ==
    /\ up = TRUE
    /\ pending = [h \in Hook |-> NoAsk]
    /\ disk = [h \in Hook |-> NoRecord]
    /\ stale = {} /\ spoiled = {}
    /\ hook = [h \in Hook |-> [pc |-> "new", result |-> NoResult]]
    /\ card = [h \in Hook |-> 0] /\ ids = 0
    /\ hookLate = {} /\ askLate = {}
    /\ ticked = [h \in Hook |-> {}]
    /\ accepted = [h \in Hook |-> {}]
    /\ stashed = [h \in Hook |-> NoResult]
    /\ lost = {} /\ faults = 0

-----------------------------------------------------------------------------

Exists(h) == pending[h].id # 0

(* put and remove of the store: a failure is logged, and the caller goes   *)
(* on as if nothing had happened.                                          *)
Write(h, record) ==
    \/ /\ disk' = [disk EXCEPT ![h] = record]
       /\ stale' = stale \ {h}
       /\ UNCHANGED faults
    \/ /\ h \in Resumable /\ disk[h] # record
       /\ faults < MaxFaults /\ faults' = faults + 1
       /\ stale' = stale \cup {h}
       /\ UNCHANGED disk

(* persistFromInternal: a settled ask is written only as a stash. *)
Persist(h, a) ==
    IF h \in Resumable /\ (~a.settled \/ a.stash)
    THEN Write(h, [id |-> a.id, card |-> a.card, sel |-> a.sel, stash |-> a.stash, result |-> a.result])
    ELSE UNCHANGED <<disk, stale, faults>>

Remove(h) == Write(h, NoRecord)

Arrives(h) == hook[h].pc \in {"new", "retry"} /\ up

Receive(h, r) == hook' = [hook EXCEPT ![h] = [pc |-> "resp", result |-> r]]
Block(h) == hook' = [hook EXCEPT ![h] = [pc |-> "wait", result |-> NoResult]]

(* registerAsk without an entry of that key: a new ask, persisted before   *)
(* its card is sent. The deadline starts anew.                             *)
RegisterNew(h) ==
    /\ Arrives(h) /\ ~Exists(h) /\ ids < MaxIds
    /\ ids' = ids + 1
    /\ LET a == [NoAsk EXCEPT !.id = ids', !.send = 1] IN
       /\ pending' = [pending EXCEPT ![h] = a]
       /\ Persist(h, a)
    /\ Block(h)
    /\ askLate' = askLate \ {h}
    /\ ticked' = [ticked EXCEPT ![h] = {}]
    /\ stashed' = [stashed EXCEPT ![h] = NoResult]
    /\ spoiled' = spoiled \ {h}
    /\ UNCHANGED <<up, card, hookLate, accepted, lost>>

(* An active ask is joined. *)
RegisterJoin(h) ==
    /\ Arrives(h) /\ Exists(h) /\ ~pending[h].settled /\ ~pending[h].dormant
    /\ Block(h)
    /\ UNCHANGED <<up, pending, disk, stale, card, ids, spoiled, hookLate, askLate,
                   ticked, accepted, stashed, lost, faults>>

(* A settled one that is still retained is answered as before. *)
RegisterReplay(h) ==
    /\ Arrives(h) /\ Exists(h) /\ pending[h].settled /\ ~pending[h].dormant
    /\ Receive(h, pending[h].result)
    /\ UNCHANGED <<up, pending, disk, stale, card, ids, spoiled, hookLate, askLate,
                   ticked, accepted, stashed, lost, faults>>

(* reattachByRequest with a stashed answer: it is handed over and the      *)
(* record removed.                                                         *)
ReattachClaim(h) ==
    /\ Arrives(h) /\ Exists(h) /\ pending[h].dormant /\ pending[h].stash
    /\ pending' = [pending EXCEPT ![h].dormant = FALSE, ![h].stash = FALSE]
    /\ Remove(h)
    /\ Receive(h, pending[h].result)
    /\ stashed' = [stashed EXCEPT ![h] = NoResult]
    /\ UNCHANGED <<up, card, ids, spoiled, hookLate, askLate, ticked, accepted, lost>>

(* reattachByRequest without one: a waiter, the deadline timer, the card   *)
(* if it was never confirmed. An ask that timed out while dormant comes    *)
(* here as well: its timer finds it settled, and the waiter stays.         *)
ReattachWait(h) ==
    /\ Arrives(h) /\ Exists(h) /\ pending[h].dormant /\ ~pending[h].stash
    /\ pending' = [pending EXCEPT ![h].dormant = FALSE,
                                  ![h].send = IF pending[h].card \/ pending[h].settled THEN 0 ELSE 1]
    /\ Block(h)
    /\ UNCHANGED <<up, disk, stale, card, ids, spoiled, hookLate, askLate, ticked,
                   accepted, stashed, lost, faults>>

-----------------------------------------------------------------------------
(* Settling.                                                               *)

(* A dormant ask that is answered keeps its answer on disk. *)
Stash(h, r) ==
    LET a == [pending[h] EXCEPT !.settled = TRUE, !.stash = TRUE, !.result = r, !.send = 0] IN
    /\ pending' = [pending EXCEPT ![h] = a]
    /\ Persist(h, a)
    /\ stashed' = [stashed EXCEPT ![h] = r]
    /\ UNCHANGED hook

(* Mutant: the waiters are cleared before they are resolved. *)
ResolveSilently(h, r) ==
    /\ pending' = [pending EXCEPT ![h].settled = TRUE, ![h].result = r, ![h].send = 0]
    /\ Remove(h)
    /\ UNCHANGED <<hook, stashed>>

(* Otherwise the record is dropped and every waiter resolved. *)
Resolve(h, r) ==
    /\ pending' = [pending EXCEPT ![h].settled = TRUE, ![h].result = r, ![h].send = 0]
    /\ Remove(h)
    /\ IF hook[h].pc = "wait" THEN Receive(h, r) ELSE UNCHANGED hook
    /\ UNCHANGED stashed

Settle(h, r) ==
    \/ pending[h].dormant /\ r.kind = "answered" /\ Stash(h, r)
    \/ ~(pending[h].dormant /\ r.kind = "answered") /\ Resolve(h, r)

Open(h) == up /\ Exists(h) /\ ~pending[h].settled

(* A click reaches the ask whose id and nonce are on the card. *)
Clickable(h) == Open(h) /\ card[h] = pending[h].id

Toggle(h, o) ==
    /\ Clickable(h)
    /\ LET s == (pending[h].sel \cup {o}) \ (pending[h].sel \cap {o})
           a == [pending[h] EXCEPT !.sel = s]
       IN pending' = [pending EXCEPT ![h] = a] /\ Persist(h, a)
    /\ ticked' = [ticked EXCEPT ![h] = (@ \cup {o}) \ (@ \cap {o})]
    /\ UNCHANGED <<up, hook, card, ids, spoiled, hookLate, askLate, accepted, stashed,
                   lost>>

Accept(h, r) ==
    /\ Settle(h, r)
    /\ accepted' = [accepted EXCEPT ![h] = @ \cup {r}]
    /\ UNCHANGED <<up, card, ids, spoiled, hookLate, askLate, ticked, lost>>

(* submitAsk with the accumulated ticks. An empty choice is accepted on    *)
(* the second click; the first one changes nothing here.                   *)
Submit(h) == Clickable(h) /\ Accept(h, Answered(pending[h].sel))

(* submitCustomReply: a message in the thread, found by its anchor. *)
CustomReply(h) == Open(h) /\ Accept(h, Reply)

(* submitAskFromDesktop: explicit selections, no card needed. *)
Desktop(h, s) == Open(h) /\ Accept(h, Answered(s))

Timeout(h) ==
    /\ Open(h) /\ h \in askLate
    /\ Settle(h, TimedOut)
    /\ UNCHANGED <<up, card, ids, spoiled, hookLate, askLate, ticked, accepted, lost>>

-----------------------------------------------------------------------------
(* sendCardForAsk: up to MaxSend attempts with the uuid of the request; a  *)
(* message that the chat has already is not posted twice.                  *)

PostCard(h) == card' = [card EXCEPT ![h] = IF @ = 0 THEN pending[h].id ELSE @]

SendOk(h) ==
    /\ Open(h) /\ pending[h].send # 0
    /\ PostCard(h)
    /\ LET a == [pending[h] EXCEPT !.card = TRUE, !.send = 0] IN
       pending' = [pending EXCEPT ![h] = a] /\ Persist(h, a)
    /\ UNCHANGED <<up, hook, ids, spoiled, hookLate, askLate, ticked, accepted, stashed,
                   lost>>

(* A transient failure, with the card posted or not. *)
SendTransient(h) ==
    /\ Open(h) /\ pending[h].send # 0 /\ pending[h].send < MaxSend
    /\ PostCard(h) \/ card' = card
    /\ pending' = [pending EXCEPT ![h].send = @ + 1]
    /\ UNCHANGED <<up, disk, stale, hook, ids, spoiled, hookLate, askLate, ticked,
                   accepted, stashed, lost, faults>>

(* A permanent failure, or the last attempt: the hook is let go. *)
SendFails(h) ==
    /\ Open(h) /\ pending[h].send # 0
    /\ Settle(h, Invalidated)
    /\ UNCHANGED <<up, card, ids, spoiled, hookLate, askLate, ticked, accepted, lost>>

(* gcSettled: a settled entry older than a minute, unless it is a stash. *)
Gc(h) ==
    /\ up /\ Exists(h) /\ pending[h].settled /\ ~(pending[h].dormant /\ pending[h].stash)
    /\ pending' = [pending EXCEPT ![h] = NoAsk]
    /\ UNCHANGED <<up, disk, stale, hook, card, ids, spoiled, hookLate, askLate, ticked,
                   accepted, stashed, lost, faults>>

(* armHandoffExpiry: a stash nobody claims within a day. *)
HandoffExpires(h) ==
    /\ up /\ Exists(h) /\ pending[h].dormant /\ pending[h].stash
    /\ pending' = [pending EXCEPT ![h] = NoAsk]
    /\ Remove(h)
    /\ stashed' = [stashed EXCEPT ![h] = NoResult]
    /\ UNCHANGED <<up, hook, card, ids, spoiled, hookLate, askLate, ticked, accepted,
                   lost>>

-----------------------------------------------------------------------------
(* The hook's side: runHook retries while the daemon cannot be reached.    *)

Response(h) ==
    /\ hook[h].pc = "resp"
    /\ hook' = [hook EXCEPT ![h].pc = "done"]
    /\ UNCHANGED <<up, pending, disk, stale, card, ids, spoiled, hookLate, askLate,
                   ticked, accepted, stashed, lost, faults>>

(* The daemon cannot be reached and the hook's deadline is past. *)
Passthrough(h) ==
    /\ hook[h].pc \in {"new", "retry"} /\ h \in hookLate
    /\ hook' = [hook EXCEPT ![h] = [pc |-> "done", result |-> NoResult]]
    /\ UNCHANGED <<up, pending, disk, stale, card, ids, spoiled, hookLate, askLate,
                   ticked, accepted, stashed, lost, faults>>

ConnectionLost(h) ==
    /\ hook[h].pc \in {"wait", "resp"} /\ faults < MaxFaults
    /\ faults' = faults + 1
    /\ hook' = [hook EXCEPT ![h] = [pc |-> "retry", result |-> NoResult]]
    /\ lost' = lost \cup {h}
    /\ UNCHANGED <<up, pending, disk, stale, card, ids, spoiled, hookLate, askLate,
                   ticked, accepted, stashed>>

HookDeadline(h) ==
    /\ h \notin hookLate
    /\ hookLate' = hookLate \cup {h}
    /\ UNCHANGED <<up, pending, disk, stale, hook, card, ids, spoiled, askLate, ticked,
                   accepted, stashed, lost, faults>>

AskDeadline(h) ==
    /\ h \in hookLate \ askLate
    /\ askLate' = askLate \cup {h}
    /\ UNCHANGED <<up, pending, disk, stale, hook, card, ids, spoiled, hookLate, ticked,
                   accepted, stashed, lost, faults>>

(* The daemon dies: entries, timers and connections are gone. *)
Crash ==
    /\ up /\ faults < MaxFaults
    /\ up' = FALSE
    /\ faults' = faults + 1
    /\ pending' = [h \in Hook |-> NoAsk]
    /\ hook' = [h \in Hook |-> IF hook[h].pc \in {"wait", "resp"}
                               THEN [pc |-> "retry", result |-> NoResult] ELSE hook[h]]
    /\ lost' = Hook
    /\ spoiled' = spoiled \cup stale
    /\ UNCHANGED <<disk, stale, card, ids, hookLate, askLate, ticked, accepted, stashed>>

(* list() keeps a record that is stashed or not past its deadline; one     *)
(* that should have been replaced or removed has a time of its own.        *)
Listable == {h \in Hook : disk[h].id # 0 /\ (disk[h].stash \/ h \notin askLate)}

(* What it does not list is removed, unless the removal fails. *)
List(listed, kept) ==
    /\ listed \subseteq Listable /\ Listable \ stale \subseteq listed
    /\ kept \subseteq {h \in Hook \ listed : disk[h].id # 0}
    /\ kept # {} => faults < MaxFaults
    /\ faults' = IF kept = {} THEN faults ELSE faults + 1
    /\ stale' = kept
    /\ disk' = [h \in Hook |-> IF h \in listed \cup kept THEN disk[h] ELSE NoRecord]

(* Mutant: ticks and stash are not taken over from the record. *)
RestoreForgets ==
    /\ ~up /\ up' = TRUE
    /\ \E listed, kept \in SUBSET Hook :
          /\ List(listed, kept)
          /\ pending' = [h \in Hook |->
                IF h \in listed
                THEN [NoAsk EXCEPT !.id = disk[h].id, !.dormant = TRUE, !.card = disk[h].card]
                ELSE NoAsk]
    /\ UNCHANGED <<spoiled, hook, card, ids, hookLate, askLate, ticked, accepted, stashed, lost>>

(* restorePersistedAsks *)
Restore ==
    /\ ~up /\ up' = TRUE
    /\ \E listed, kept \in SUBSET Hook :
          /\ List(listed, kept)
          /\ pending' = [h \in Hook |->
                IF h \in listed
                THEN [id |-> disk[h].id, settled |-> disk[h].stash, dormant |-> TRUE,
                      stash |-> disk[h].stash, result |-> disk[h].result, card |-> disk[h].card,
                      send |-> 0, sel |-> disk[h].sel]
                ELSE NoAsk]
    /\ UNCHANGED <<spoiled, hook, card, ids, hookLate, askLate, ticked, accepted, stashed, lost>>

-----------------------------------------------------------------------------

Register(h) ==
    RegisterNew(h) \/ RegisterJoin(h) \/ RegisterReplay(h) \/ ReattachClaim(h) \/ ReattachWait(h)

Send(h) == SendOk(h) \/ SendTransient(h) \/ SendFails(h)

User(h) ==
    \/ \E o \in Option : Toggle(h, o)
    \/ Submit(h) \/ CustomReply(h) \/ \E s \in SUBSET Option : Desktop(h, s)

Next ==
    \/ Crash \/ Restore
    \/ \E h \in Hook :
          \/ Register(h) \/ Send(h) \/ User(h) \/ Timeout(h) \/ Gc(h) \/ HandoffExpires(h)
          \/ Response(h) \/ Passthrough(h) \/ ConnectionLost(h) \/ HookDeadline(h) \/ AskDeadline(h)

Spec == Init /\ [][Next]_vars

(* Timers fire, deadlines come, the daemon is restarted, a hook keeps      *)
(* posting and reads its response. Nobody has to ask or to click.          *)
Fairness ==
    /\ WF_vars(Restore)
    /\ \A h \in Hook : /\ WF_vars(Timeout(h)) /\ WF_vars(Send(h)) /\ WF_vars(Response(h))
                       /\ WF_vars(hook[h].pc # "new" /\ (HookDeadline(h) \/ AskDeadline(h)))
                       /\ WF_vars(hook[h].pc # "new" /\ (Register(h) \/ Passthrough(h)))

FairSpec == Spec /\ Fairness

-----------------------------------------------------------------------------

(* Memory and disk do not diverge but by a failed write, and until the     *)
(* next one that succeeds: while the daemon runs there is a record of      *)
(* exactly the resumable asks that are open or stashed, with the same id,  *)
(* ticks and answer.                                                       *)
MemoryDiskAgree ==
    up => \A h \in Hook \ stale :
       LET live == h \in Resumable /\ Exists(h) /\ (~pending[h].settled \/ pending[h].stash) IN
       /\ live <=> disk[h].id # 0
       /\ live => /\ disk[h].id = pending[h].id /\ disk[h].sel = pending[h].sel
                  /\ disk[h].stash = pending[h].stash /\ disk[h].result = pending[h].result

(* An answer to a dormant ask survives until the hook claims it or its day *)
(* is over: in memory, and on disk unless that write failed, so only a     *)
(* restart after a failed write can lose it.                               *)
StashDurable ==
    \A h \in Hook \ spoiled : stashed[h] # NoResult =>
       /\ up => pending[h].stash /\ pending[h].result = stashed[h]
       /\ h \notin stale => disk[h].stash /\ disk[h].result = stashed[h]

(* What a hook is told was answered was accepted from a user. *)
NoInventedAnswer ==
    \A h \in Hook : hook[h].result.kind = "answered" => hook[h].result \in accepted[h]

(* A second answer to the same request is only taken when the first one    *)
(* may be lost: the daemon died or the connection broke in between.        *)
AnsweredTwiceOnlyAfterLoss == \A h \in Hook : Cardinality(accepted[h]) > 1 => h \in lost

(* The ticks of the user are in the entry, whatever was restarted, unless  *)
(* a restart found a record whose write had failed.                        *)
TicksKept ==
    \A h \in Resumable \ spoiled : up /\ Exists(h) /\ ~pending[h].settled => pending[h].sel = ticked[h]

(* An open ask with a waiting hook can be seen: its card is confirmed or a *)
(* send is in progress.                                                    *)
WaitingHasCard ==
    \A h \in Hook : Open(h) /\ hook[h].pc = "wait" => pending[h].card \/ pending[h].send # 0

(* registerAsk's promise settles: a hook blocked on an open ask returns in *)
(* the end, whatever dies. One that was attached to an ask which had timed *)
(* out while it was dormant does not: see ReattachWait.                    *)
HookReturns == \A h \in Hook : (hook[h].pc = "wait" /\ Open(h)) ~> (hook[h].pc # "wait")
=============================================================================
