----------------------------- MODULE Conversation -----------------------------
(***************************************************************************)
(* The memory of one conversation thread: conversation_messages and        *)
(* conversation_summaries, and the turns that read and write them,         *)
(* possibly several at a time. Every call of the database opens its own    *)
(* connection, and a SELECT before the first write of a connection is not  *)
(* part of its transaction, so each statement is a step.                   *)
(*                                                                         *)
(* Texts are left out. How many tokens messages have decides when to       *)
(* summarise and how many recent messages fit the budget; both are         *)
(* choices here, of which any content makes one.                           *)
(***************************************************************************)
EXTENDS Integers, Sequences, FiniteSets

CONSTANTS
    Turns,        \* requests on the thread: questions, and resumptions of their runs
    RecentLimit,  \* conversation_recent_messages
    PageLimit,    \* limit of list_conversation_messages_after
    MaxSeed,      \* bound: messages of history a client sends along
    MaxBroken     \* bound: turns that raise or are abandoned

ASSUME ConversationAssumption ==
    /\ RecentLimit \in Nat \ {0}
    /\ PageLimit \in Nat /\ PageLimit > 2 * RecentLimit
    /\ MaxSeed \in Nat /\ MaxBroken \in Nat

VARIABLES
    messages,  \* the thread's rows; the index is the sequence number
    summary,   \* the summary row: version, through_sequence, and the rows its text covers
    turn,      \* per turn: where it is and what it has read
    run,       \* the turn whose run_id it carries, and the rows it writes: its own, unless it resumes one
    broken,    \* history: turns that raised or were abandoned
    overlapped \* history: a turn was begun while another one ran

vars == <<messages, summary, turn, run, broken, overlapped>>

NoSummary == [version |-> 0, through |-> 0, covers |-> {}]

Summary == [version : Nat, through : Nat, covers : SUBSET Nat]

(* A turn at l that has read nothing yet: n messages left to seed with, h  *)
(* messages hidden from it.                                                *)
Unread(l, n, h) == [pc |-> l, seeds |-> n, next |-> 0, old |-> NoSummary, upto |-> 0, hidden |-> h]

PCs == {"idle", "check", "seed", "summary", "rows", "question", "graph", "answer",
        "previous", "pending", "version", "save", "done", "raised", "failed", "gone"}

Ended == {"done", "raised", "failed", "gone"}

Running(t) == turn[t].pc \notin Ended \cup {"idle"}

TypeOK ==
    /\ messages \in Seq([turn : Turns, role : {"seed", "user", "assistant"}])
    /\ summary \in Summary
    /\ turn \in [Turns -> [pc : PCs, seeds : Nat, next : Nat, old : Summary, upto : Nat, hidden : Nat]]
    /\ run \in [Turns -> Turns]
    /\ broken \in Nat
    /\ overlapped \in BOOLEAN

Init ==
    /\ messages = <<>>
    /\ summary = NoSummary
    /\ turn = [t \in Turns |-> Unread("idle", 0, 0)]
    /\ run = [t \in Turns |-> t]
    /\ broken = 0
    /\ overlapped = FALSE

At(t, l) == turn[t].pc = l

(* The turn goes on at l and no longer needs what it has read. *)
Goto(t, l) == turn' = [turn EXCEPT ![t] = Unread(l, 0, 0)]

-----------------------------------------------------------------------------
(* A request begins: a question with prepare_turn, or a resumption.        *)

(* The history a client sends counts only for a thread without messages. *)
Begin(t, n) ==
    /\ At(t, "idle")
    /\ turn' = [turn EXCEPT ![t].pc = "check", ![t].seeds = n]
    /\ overlapped' = (overlapped \/ \E u \in Turns : Running(u))
    /\ UNCHANGED <<messages, summary, run, broken>>

(* resume, for a card of u's run: the stream goes on or, when the graph of *)
(* the thread has ended by then, has nothing left to do. Nothing tells the *)
(* two apart, and either way a graph at its end is completed, once more.   *)
Resume(t, u) ==
    /\ At(t, "idle")
    /\ \E i \in 1..Len(messages) : messages[i] = [turn |-> u, role |-> "user"]
    /\ Goto(t, "graph")
    /\ run' = [run EXCEPT ![t] = u]
    /\ overlapped' = (overlapped \/ \E v \in Turns : Running(v))
    /\ UNCHANGED <<messages, summary, broken>>

Check(t) ==
    /\ At(t, "check")
    /\ turn' = [turn EXCEPT ![t].pc = IF messages = <<>> /\ turn[t].seeds > 0 THEN "seed" ELSE "summary"]
    /\ UNCHANGED <<messages, summary, run, broken, overlapped>>

(* context: the summary row, then the newest rows that fit. A message is   *)
(* hidden from the turn when neither shows it; the newest is never.        *)
ContextSummary(t) ==
    /\ At(t, "summary")
    /\ turn' = [turn EXCEPT ![t].pc = "rows", ![t].old = summary]
    /\ UNCHANGED <<messages, summary, run, broken, overlapped>>

Hidden(t, window) ==
    LET n == Len(messages) - turn[t].old.through - window IN IF n > 0 THEN n ELSE 0

ContextRows(t) ==
    /\ At(t, "rows")
    /\ \E window \in 0..RecentLimit :
          /\ window <= Len(messages)
          /\ messages # <<>> => window > 0
          /\ turn' = [turn EXCEPT ![t] = Unread("question", 0, Hidden(t, window))]
    /\ UNCHANGED <<messages, summary, run, broken, overlapped>>

-----------------------------------------------------------------------------
(* add_conversation_message: SELECT MAX(sequence)+1, then INSERT.          *)

RoleOf == [seed |-> "seed", question |-> "user", answer |-> "assistant"]

SelectNext(t) ==
    /\ turn[t].pc \in {"seed", "question", "answer"}
    /\ turn[t].next = 0
    /\ turn' = [turn EXCEPT ![t].next = Len(messages) + 1]
    /\ UNCHANGED <<messages, summary, run, broken, overlapped>>

AfterInsert(t) ==
    CASE turn[t].pc = "seed" -> IF turn[t].seeds > 1 THEN "seed" ELSE "summary"
      [] turn[t].pc = "question" -> "graph"
      [] turn[t].pc = "answer" -> "previous"

Insert(t) ==
    /\ turn[t].pc \in {"seed", "question", "answer"}
    /\ turn[t].next = Len(messages) + 1
    /\ messages' = Append(messages, [turn |-> t, role |-> RoleOf[turn[t].pc]])
    /\ turn' = [turn EXCEPT ![t] = Unread(AfterInsert(t), IF At(t, "seed") THEN turn[t].seeds - 1 ELSE 0, 0)]
    /\ UNCHANGED <<summary, run, broken, overlapped>>

(* Mutant: the turn goes on without its message. *)
InsertConflictIgnored(t) ==
    /\ turn[t].pc \in {"seed", "question", "answer"}
    /\ turn[t].next # 0 /\ turn[t].next # Len(messages) + 1
    /\ Goto(t, IF turn[t].pc = "answer" THEN "failed" ELSE "graph")
    /\ UNCHANGED <<messages, summary, run, broken, overlapped>>

(* The UNIQUE constraint: another turn has taken the number. In            *)
(* prepare_turn nothing catches it; in complete_turn the run fails.        *)
InsertConflict(t) ==
    /\ turn[t].pc \in {"seed", "question", "answer"}
    /\ turn[t].next # 0 /\ turn[t].next # Len(messages) + 1
    /\ Goto(t, IF turn[t].pc = "answer" THEN "failed" ELSE "raised")
    /\ UNCHANGED <<messages, summary, run, broken, overlapped>>

-----------------------------------------------------------------------------
(* complete_turn, with maybe_summarize.                                    *)

(* The graph ends with an answer or, for deep research without a task,     *)
(* with a blank one, which is not stored.                                  *)
Complete(t) ==
    /\ At(t, "graph")
    /\ \E l \in {"answer", "previous"} : Goto(t, l)
    /\ UNCHANGED <<messages, summary, run, broken, overlapped>>

ReadPrevious(t) ==
    /\ At(t, "previous")
    /\ turn' = [turn EXCEPT ![t].pc = "pending", ![t].old = summary]
    /\ UNCHANGED <<messages, summary, run, broken, overlapped>>

(* The last row of the page list_conversation_messages_after returns. *)
PageEnd(through) == IF Len(messages) <= through + PageLimit THEN Len(messages) ELSE through + PageLimit

(* Mutant: everything pending is summarised. *)
LastCandidateAll(t) == PageEnd(turn[t].old.through)

(* pending[:-recent_limit] ends here. *)
LastCandidate(t) == PageEnd(turn[t].old.through) - RecentLimit

Due(t, large) == large \/ PageEnd(turn[t].old.through) - turn[t].old.through > 2 * RecentLimit

ReadPending(t) ==
    /\ At(t, "pending")
    /\ \E large \in BOOLEAN : Due(t, large)
    /\ LastCandidate(t) > turn[t].old.through
    /\ turn' = [turn EXCEPT ![t].pc = "version", ![t].upto = LastCandidate(t)]
    /\ UNCHANGED <<messages, summary, run, broken, overlapped>>

NothingDue(t) ==
    /\ At(t, "pending")
    /\ \/ \E large \in BOOLEAN : ~Due(t, large)
       \/ LastCandidate(t) <= turn[t].old.through
    /\ Goto(t, "done")
    /\ UNCHANGED <<messages, summary, run, broken, overlapped>>

(* save_conversation_summary: SELECT version, then the upsert. *)
ReadVersion(t) ==
    /\ At(t, "version")
    /\ turn' = [turn EXCEPT ![t].pc = "save", ![t].next = summary.version + 1]
    /\ UNCHANGED <<messages, summary, run, broken, overlapped>>

(* The new text is made of the one that was read and of the candidates. *)
Summarized(t) == turn[t].old.covers \cup ((turn[t].old.through + 1)..turn[t].upto)

(* Mutant: the row keeps the newer through_sequence. *)
SaveKeepsNewer(t) ==
    /\ At(t, "save")
    /\ summary' = [version |-> turn[t].next,
                   through |-> IF summary.through > turn[t].upto THEN summary.through ELSE turn[t].upto,
                   covers |-> Summarized(t)]
    /\ Goto(t, "done")
    /\ UNCHANGED <<messages, run, broken, overlapped>>

(* Whatever summary the row holds by now is replaced. *)
Save(t) ==
    /\ At(t, "save")
    /\ summary' = [version |-> turn[t].next, through |-> turn[t].upto,
                   covers |-> Summarized(t)]
    /\ Goto(t, "done")
    /\ UNCHANGED <<messages, run, broken, overlapped>>

(* The graph or the database raises: the run fails, or, before the try,    *)
(* nothing records it.                                                     *)
Raise(t) ==
    /\ Running(t)
    /\ broken < MaxBroken
    /\ broken' = broken + 1
    /\ Goto(t, IF turn[t].pc \in {"check", "seed", "summary", "rows", "question"} THEN "raised" ELSE "failed")
    /\ UNCHANGED <<messages, summary, run, overlapped>>

(* The process ends, or the client of an interrupted turn never answers. *)
Abandon(t) ==
    /\ Running(t)
    /\ broken < MaxBroken
    /\ broken' = broken + 1
    /\ Goto(t, "gone")
    /\ UNCHANGED <<messages, summary, run, overlapped>>

Step(t) ==
    \/ Check(t) \/ ContextSummary(t) \/ ContextRows(t)
    \/ SelectNext(t) \/ Insert(t) \/ InsertConflict(t)
    \/ Complete(t) \/ ReadPrevious(t) \/ ReadPending(t) \/ NothingDue(t)
    \/ ReadVersion(t) \/ Save(t)

Next ==
    \E t \in Turns :
       \/ \E n \in 0..MaxSeed : Begin(t, n)
       \/ \E u \in Turns : Resume(t, u)
       \/ Step(t) \/ Raise(t) \/ Abandon(t)

Spec == Init /\ [][Next]_vars

-----------------------------------------------------------------------------
(* Properties.                                                             *)

(* database.py:510: the summary covers every message up to its             *)
(* through_sequence and none after it, even when turns that read the       *)
(* summary at different times overwrite each other's.                      *)
SummaryCovers == summary.covers = 1..summary.through

(* The newest RecentLimit messages are never summarised away: the window   *)
(* of verbatim messages can always be filled from unsummarised ones.       *)
RecentVerbatim == summary.through > 0 => summary.through + RecentLimit <= Len(messages)

Count(t, role) == Cardinality({i \in 1..Len(messages) : messages[i].turn = t /\ messages[i].role = role})

(* A question is stored once, a resumption stores none, each of them adds  *)
(* at most one answer, and every answer follows the question of the run it *)
(* belongs to, whichever inserts collide: a run has one question, and as   *)
(* many answers after it as requests completed it.                         *)
QuestionThenAnswer ==
    \A t \in Turns :
       /\ Count(t, "user") <= (IF run[t] = t THEN 1 ELSE 0)
       /\ Count(t, "assistant") <= 1
       /\ \A i \in 1..Len(messages) :
             messages[i] = [turn |-> t, role |-> "assistant"] =>
                \E j \in 1..(i - 1) : messages[j] = [turn |-> run[t], role |-> "user"]

(* If turns do not overlap, what neither the summary nor the window shows  *)
(* to a turn is bounded: the backlog below the trigger, and the two        *)
(* messages of each turn that ended before it could summarise.             *)
HiddenBounded ==
    \A t \in Turns : turn[t].hidden <= 2 * RecentLimit - 1 + MaxSeed + 2 * broken

(* A thread is seeded with a client's history before its first turn only:  *)
(* with turns that do not overlap no seed follows a question.              *)
SeedsFirst ==
    \A i, j \in 1..Len(messages) :
       messages[i].role = "user" /\ messages[j].role = "seed" => j < i

(* The log of a thread reads as it was written: the question of a run      *)
(* comes once and before its answers, of which each request that completes *)
(* the run leaves one at most. As long as no two turns have overlapped,    *)
(* the history a client brings comes before the first question, and what   *)
(* neither the summary nor the recent rows show to a turn stays bounded,   *)
(* whatever turns failed before they could summarise or completed a run    *)
(* once more.                                                              *)
LogKept == QuestionThenAnswer /\ (~overlapped => SeedsFirst /\ HiddenBounded)
==============================================================================
