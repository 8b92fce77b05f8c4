-------------------------- MODULE ConversationProofs --------------------------
(***************************************************************************)
(* Proofs about module Conversation: for any number of turns, overlapping  *)
(* or not, the summary row covers exactly the messages up to its           *)
(* through_sequence, and never the newest RecentLimit of them; a run       *)
(* has one question, and at most one answer after it for every request     *)
(* that completed it; and as long as no two requests overlap, what a turn  *)
(* is not shown is bounded.                                                *)
(***************************************************************************)
EXTENDS Conversation, FiniteSetTheorems, TLAPS

(* A summary, saved or read: it covers a prefix of the messages and leaves *)
(* the newest ones out. Messages are only ever added, so what a turn has   *)
(* read stays good.                                                        *)
Good(x) ==
    /\ x.covers = 1..x.through
    /\ x.through > 0 => x.through + RecentLimit <= Len(messages)

(* The inductive invariant: the row and every copy of it are good, and a   *)
(* turn about to save has chosen candidates that end before the newest     *)
(* messages. A turn that seeds has a message left to seed with.            *)
MemoryInv ==
    /\ TypeOK
    /\ Good(summary)
    /\ \A t \in Turns :
          /\ Good(turn[t].old)
          /\ turn[t].pc = "seed" => turn[t].seeds > 0
          /\ turn[t].pc \in {"version", "save"} =>
                turn[t].old.through < turn[t].upto /\ turn[t].upto + RecentLimit <= Len(messages)

Turn == [pc : PCs, seeds : Nat, next : Nat, old : Summary, upto : Nat, hidden : Nat]

(* Initially nothing is stored and no turn has read anything. *)
LEMMA InitGood == Init => MemoryInv
<1> SUFFICES ASSUME Init PROVE MemoryInv
  OBVIOUS
<1>1. NoSummary \in Summary /\ NoSummary.through = 0 /\ NoSummary.covers = {} /\ 1..0 = {}
  BY DEF NoSummary, Summary
<1>2. Unread("idle", 0, 0) \in Turn
  BY <1>1 DEF Unread, Turn, PCs
<1>3. TypeOK
  <2>1. overlapped \in BOOLEAN /\ run \in [Turns -> Turns]
    BY DEF Init
  <2>2. messages \in Seq([turn : Turns, role : {"seed", "user", "assistant"}]) /\ turn \in [Turns -> Turn]
    BY <1>2 DEF Init
  <2> QED
    BY <2>1, <2>2, <1>1 DEF Init, TypeOK, Turn
<1>4. Good(NoSummary)
  BY <1>1 DEF Good
<1>5. \A t \in Turns : turn[t].old = NoSummary /\ turn[t].pc = "idle"
  BY DEF Init, Unread
<1> QED
  BY <1>3, <1>4, <1>5 DEF Init, MemoryInv

(* What every step of a turn t comes down to: only t's record changes, to  *)
(* a well-typed one whose copy of the summary and candidates are good, and *)
(* the messages do not shrink.                                             *)
LEMMA TurnMoves ==
  ASSUME MemoryInv, NEW t \in Turns, NEW rec \in Turn,
         turn' = [turn EXCEPT ![t] = rec],
         messages' \in Seq([turn : Turns, role : {"seed", "user", "assistant"}]),
         Len(messages) <= Len(messages'),
         summary' \in Summary, Good(summary)', broken' \in Nat, overlapped' \in BOOLEAN, run' \in [Turns -> Turns],
         rec.old.covers = 1..rec.old.through,
         rec.old.through > 0 => rec.old.through + RecentLimit <= Len(messages'),
         rec.pc = "seed" => rec.seeds > 0,
         rec.pc \in {"version", "save"} =>
            rec.old.through < rec.upto /\ rec.upto + RecentLimit <= Len(messages')
  PROVE  MemoryInv'
<1>1. turn \in [Turns -> Turn] /\ messages \in Seq([turn : Turns, role : {"seed", "user", "assistant"}])
  BY DEF MemoryInv, TypeOK, Turn
<1>2. turn' \in [Turns -> Turn]
  BY <1>1
<1>3. TypeOK'
  BY <1>2 DEF TypeOK, Turn
<1>4. ASSUME NEW u \in Turns
      PROVE  /\ Good(turn[u].old)'
             /\ turn'[u].pc = "seed" => turn'[u].seeds > 0
             /\ turn'[u].pc \in {"version", "save"} =>
                   turn'[u].old.through < turn'[u].upto /\ turn'[u].upto + RecentLimit <= Len(messages')
  <2>1. CASE u = t
    BY <2>1, <1>1 DEF Good
  <2>2. CASE u # t
    <3>1. turn'[u] = turn[u]
      BY <2>2, <1>1
    <3>2. turn[u] \in Turn /\ RecentLimit \in Nat /\ Len(messages) \in Nat /\ Len(messages') \in Nat
      BY <1>1, ConversationAssumption
    <3>3. turn[u].old.through \in Nat /\ turn[u].upto \in Nat
      BY <3>2 DEF Turn, Summary
    <3>4. /\ Good(turn[u].old)
          /\ turn[u].pc = "seed" => turn[u].seeds > 0
          /\ turn[u].pc \in {"version", "save"} =>
                turn[u].old.through < turn[u].upto /\ turn[u].upto + RecentLimit <= Len(messages)
      BY DEF MemoryInv
    <3> QED
      BY <3>1, <3>2, <3>3, <3>4 DEF Good
  <2> QED
    BY <2>1, <2>2
<1> QED
  BY <1>3, <1>4 DEF MemoryInv

(* The record of a turn that has read nothing. *)
LEMMA UnreadGood ==
  ASSUME NEW l \in PCs, NEW n \in Nat, NEW h \in Nat
  PROVE  /\ Unread(l, n, h) \in Turn
         /\ Unread(l, n, h).pc = l
         /\ Unread(l, n, h).seeds = n
         /\ Unread(l, n, h).old.covers = 1..Unread(l, n, h).old.through
         /\ ~(Unread(l, n, h).old.through > 0)
<1>1. NoSummary \in Summary /\ NoSummary.through = 0 /\ NoSummary.covers = {}
  BY DEF NoSummary, Summary
<1>2. Unread(l, n, h) \in Turn
  BY <1>1 DEF Turn, Unread
<1>3. Unread(l, n, h).old = NoSummary /\ Unread(l, n, h).pc = l /\ Unread(l, n, h).seeds = n
  BY DEF Unread
<1>4. NoSummary.covers = 1..NoSummary.through /\ ~(NoSummary.through > 0)
  BY DEF NoSummary
<1> QED
  BY <1>2, <1>3, <1>4

(* A turn that forgets what it has read can go anywhere. *)
LEMMA GotoGood ==
  ASSUME MemoryInv, NEW t \in Turns, NEW l \in PCs \ {"version", "save", "seed"}, Goto(t, l),
         messages' \in Seq([turn : Turns, role : {"seed", "user", "assistant"}]),
         Len(messages) <= Len(messages'),
         summary' \in Summary, Good(summary)', broken' \in Nat, overlapped' \in BOOLEAN, run' \in [Turns -> Turns]
  PROVE  MemoryInv'
<1>1. turn' = [turn EXCEPT ![t] = Unread(l, 0, 0)]
  BY DEF Goto
<1>2. /\ Unread(l, 0, 0) \in Turn /\ Unread(l, 0, 0).pc = l
      /\ Unread(l, 0, 0).old.covers = 1..Unread(l, 0, 0).old.through
      /\ ~(Unread(l, 0, 0).old.through > 0)
  BY UnreadGood
<1> QED
  BY <1>1, <1>2, TurnMoves

(* Every step keeps the summaries good. *)
LEMMA MemoryStep == MemoryInv /\ [Next]_vars => MemoryInv'
<1> SUFFICES ASSUME MemoryInv, [Next]_vars PROVE MemoryInv'
  OBVIOUS
<1> DEFINE Msgs == Seq([turn : Turns, role : {"seed", "user", "assistant"}])
<1>0. /\ turn \in [Turns -> Turn] /\ messages \in Msgs /\ summary \in Summary /\ broken \in Nat
      /\ Len(messages) \in Nat /\ RecentLimit \in Nat \ {0} /\ PageLimit \in Nat
  BY ConversationAssumption DEF MemoryInv, TypeOK, Turn
<1>1. /\ Good(summary)
      /\ \A t \in Turns : turn[t] \in Turn /\ Good(turn[t].old)
  BY <1>0 DEF MemoryInv
<1>2. ASSUME UNCHANGED vars PROVE MemoryInv'
  BY <1>2 DEF vars, MemoryInv, TypeOK, Good
<1>c. run' \in [Turns -> Turns]
  <2>1. run \in [Turns -> Turns]
    BY DEF MemoryInv, TypeOK
  <2>2. run' = run \/ \E t, u \in Turns : run' = [run EXCEPT ![t] = u]
    BY DEF Next, Step, vars, Begin, Resume, Check, ContextSummary, ContextRows, SelectNext, Insert,
           InsertConflict, Complete, ReadPrevious, ReadPending, NothingDue, ReadVersion, Save, Raise, Abandon
  <2> QED
    BY <2>1, <2>2
<1>b. overlapped' \in BOOLEAN /\ run' \in [Turns -> Turns]
  BY <1>c DEF MemoryInv, TypeOK, Next, Step, vars, Begin, Resume, Check, ContextSummary, ContextRows, SelectNext, Insert,
         InsertConflict, Complete, ReadPrevious, ReadPending, NothingDue, ReadVersion, Save, Raise, Abandon
<1>a. ASSUME UNCHANGED <<messages, summary>>
      PROVE  /\ messages' \in Msgs /\ Len(messages) <= Len(messages')
             /\ summary' \in Summary /\ Good(summary)'
  BY <1>a, <1>0, <1>1 DEF Good
<1>3. ASSUME NEW t \in Turns, NEW n \in 0..MaxSeed, Begin(t, n) PROVE MemoryInv'
  <2> DEFINE rec == [turn[t] EXCEPT !.pc = "check", !.seeds = n]
  <2>1. turn' = [turn EXCEPT ![t] = rec] /\ UNCHANGED <<messages, summary, broken>>
    BY <1>3, <1>0 DEF Begin
  <2>2. turn[t] \in Turn /\ n \in Nat
    BY <1>1, ConversationAssumption
  <2>3. rec \in Turn /\ rec.old = turn[t].old /\ rec.pc = "check"
    BY <2>2 DEF Turn, PCs
  <2>4. broken' \in Nat /\ Good(turn[t].old)
    BY <2>1, <1>0, <1>1
  <2> HIDE DEF rec
  <2> QED
    BY <2>1, <2>3, <2>4, <1>a, <1>b, TurnMoves DEF Good
<1>4. ASSUME NEW t \in Turns, Check(t) PROVE MemoryInv'
  <2> DEFINE l == IF messages = <<>> /\ turn[t].seeds > 0 THEN "seed" ELSE "summary"
             rec == [turn[t] EXCEPT !.pc = l]
  <2>1. turn' = [turn EXCEPT ![t] = rec] /\ UNCHANGED <<messages, summary, broken>>
    BY <1>4, <1>0 DEF Check
  <2>2. turn[t] \in Turn /\ l \in PCs /\ l \notin {"version", "save"} /\ (l = "seed" => turn[t].seeds > 0)
    BY <1>1 DEF PCs
  <2> HIDE DEF l
  <2>3. rec \in Turn /\ rec.old = turn[t].old /\ rec.pc = l /\ rec.seeds = turn[t].seeds
    BY <2>2 DEF Turn
  <2>4. broken' \in Nat /\ Good(turn[t].old)
    BY <2>1, <1>0, <1>1
  <2> HIDE DEF rec
  <2> QED
    BY <2>1, <2>2, <2>3, <2>4, <1>a, <1>b, TurnMoves DEF Good
<1>5. ASSUME NEW t \in Turns, ContextSummary(t) PROVE MemoryInv'
  <2> DEFINE rec == [turn[t] EXCEPT !.pc = "rows", !.old = summary]
  <2>1. turn' = [turn EXCEPT ![t] = rec] /\ UNCHANGED <<messages, summary, broken>>
    BY <1>5, <1>0 DEF ContextSummary
  <2>3. rec \in Turn /\ rec.old = summary /\ rec.pc = "rows"
    BY <1>0, <1>1 DEF Turn, PCs
  <2>4. broken' \in Nat
    BY <2>1, <1>0
  <2> HIDE DEF rec
  <2> QED
    BY <2>1, <2>3, <2>4, <1>1, <1>a, <1>b, TurnMoves DEF Good
<1>6. ASSUME NEW t \in Turns, ContextRows(t) PROVE MemoryInv'
  <2>1. PICK window \in 0..RecentLimit :
           turn' = [turn EXCEPT ![t] = Unread("question", 0, Hidden(t, window))]
    BY <1>6 DEF ContextRows
  <2>2. turn[t].old.through \in Nat /\ window \in Nat
    BY <1>0, <1>1 DEF Turn, Summary
  <2>3. Hidden(t, window) \in Nat /\ "question" \in PCs
    BY <2>2, <1>0 DEF Hidden, PCs
  <2> DEFINE rec == Unread("question", 0, Hidden(t, window))
  <2>4. /\ rec \in Turn /\ rec.pc = "question"
        /\ rec.old.covers = 1..rec.old.through
        /\ ~(rec.old.through > 0)
    BY <2>3, UnreadGood
  <2>5. UNCHANGED <<messages, summary, broken>> /\ broken' \in Nat
    BY <1>6, <1>0 DEF ContextRows
  <2>6. turn' = [turn EXCEPT ![t] = rec]
    BY <2>1
  <2> HIDE DEF rec
  <2> QED
    BY <2>4, <2>5, <2>6, <1>a, <1>b, TurnMoves
<1>7. ASSUME NEW t \in Turns, SelectNext(t) PROVE MemoryInv'
  <2> DEFINE rec == [turn[t] EXCEPT !.next = Len(messages) + 1]
  <2>1. turn' = [turn EXCEPT ![t] = rec] /\ UNCHANGED <<messages, summary, broken>>
    BY <1>7, <1>0 DEF SelectNext
  <2>2. Len(messages) + 1 \in Nat /\ turn[t] \in Turn
    BY <1>0, <1>1
  <2>3. rec \in Turn /\ rec.old = turn[t].old /\ rec.pc = turn[t].pc /\ rec.seeds = turn[t].seeds
    BY <2>2 DEF Turn
  <2>4. /\ broken' \in Nat /\ Good(turn[t].old) /\ rec.pc \notin {"version", "save"}
        /\ turn[t].pc = "seed" => turn[t].seeds > 0
    BY <2>1, <2>3, <1>0, <1>7 DEF SelectNext, MemoryInv
  <2> HIDE DEF rec
  <2> QED
    BY <2>1, <2>3, <2>4, <1>a, <1>b, TurnMoves DEF Good
<1>8. ASSUME NEW t \in Turns, Insert(t) PROVE MemoryInv'
  <2> DEFINE n == IF At(t, "seed") THEN turn[t].seeds - 1 ELSE 0
             rec == Unread(AfterInsert(t), n, 0)
             row == [turn |-> t, role |-> RoleOf[turn[t].pc]]
  <2>1. turn' = [turn EXCEPT ![t] = rec] /\ UNCHANGED <<summary, broken>>
    BY <1>8 DEF Insert
  <2>2. row \in [turn : Turns, role : {"seed", "user", "assistant"}]
    BY <1>8 DEF Insert, RoleOf
  <2>3. messages' = Append(messages, row)
    BY <1>8 DEF Insert
  <2> HIDE DEF row
  <2>4. messages' \in Msgs /\ Len(messages') = Len(messages) + 1
    BY <2>2, <2>3, <1>0
  <2>5. summary' \in Summary /\ Good(summary)' /\ broken' \in Nat
    <3>1. summary.through \in Nat
      BY <1>0 DEF Summary
    <3> QED
      BY <3>1, <2>1, <2>4, <1>0, <1>1 DEF Good
  <2>6. AfterInsert(t) \in PCs \ {"version", "save"}
    BY <1>8 DEF Insert, AfterInsert, PCs
  <2>7. turn[t].seeds \in Nat /\ (At(t, "seed") => turn[t].seeds > 0)
    BY <1>0 DEF MemoryInv, Turn, At
  <2>8. n \in Nat /\ (AfterInsert(t) = "seed" => n > 0)
    BY <2>7, <1>8 DEF Insert, AfterInsert, At
  <2> HIDE DEF n
  <2>10. /\ rec \in Turn /\ rec.pc = AfterInsert(t) /\ rec.seeds = n
         /\ rec.old.covers = 1..rec.old.through
         /\ ~(rec.old.through > 0)
    BY <2>6, <2>8, UnreadGood
  <2> HIDE DEF rec
  <2>11. Len(messages) <= Len(messages')
    BY <2>4, <1>0
  <2> QED
    BY <2>1, <2>4, <2>5, <2>6, <2>8, <2>10, <2>11, <1>b, TurnMoves
<1>9. ASSUME NEW t \in Turns, InsertConflict(t) PROVE MemoryInv'
  <2>1. PICK l \in {"failed", "raised"} : Goto(t, l)
    BY <1>9 DEF InsertConflict
  <2>2. l \in PCs \ {"version", "save", "seed"}
    BY DEF PCs
  <2>3. UNCHANGED <<messages, summary, broken>>
    BY <1>9 DEF InsertConflict
  <2> QED
    BY <2>1, <2>2, <2>3, <1>0, <1>a, <1>b, GotoGood
<1>10. ASSUME NEW t \in Turns, Complete(t) PROVE MemoryInv'
  <2>1. PICK l \in {"answer", "previous"} : Goto(t, l)
    BY <1>10 DEF Complete
  <2>2. l \in PCs \ {"version", "save", "seed"}
    BY DEF PCs
  <2>3. UNCHANGED <<messages, summary, broken>>
    BY <1>10 DEF Complete
  <2> QED
    BY <2>1, <2>2, <2>3, <1>0, <1>a, <1>b, GotoGood
<1>11. ASSUME NEW t \in Turns, ReadPrevious(t) PROVE MemoryInv'
  <2> DEFINE rec == [turn[t] EXCEPT !.pc = "pending", !.old = summary]
  <2>1. turn' = [turn EXCEPT ![t] = rec] /\ UNCHANGED <<messages, summary, broken>>
    BY <1>11, <1>0 DEF ReadPrevious
  <2>3. rec \in Turn /\ rec.old = summary /\ rec.pc = "pending"
    BY <1>0, <1>1 DEF Turn, PCs
  <2>4. broken' \in Nat
    BY <2>1, <1>0
  <2> HIDE DEF rec
  <2> QED
    BY <2>1, <2>3, <2>4, <1>1, <1>a, <1>b, TurnMoves DEF Good
<1>12. ASSUME NEW t \in Turns, ReadPending(t) PROVE MemoryInv'
  <2> DEFINE rec == [turn[t] EXCEPT !.pc = "version", !.upto = LastCandidate(t)]
  <2>1. turn' = [turn EXCEPT ![t] = rec] /\ UNCHANGED <<messages, summary, broken>>
    BY <1>12, <1>0 DEF ReadPending
  <2>2. turn[t].old.through \in Nat
    BY <1>1 DEF Turn, Summary
  <2>3. /\ turn[t].old.through < LastCandidate(t)
        /\ LastCandidate(t) \in Nat
        /\ LastCandidate(t) + RecentLimit <= Len(messages)
    BY <1>12, <2>2, <1>0, SMTT(30) DEF ReadPending, LastCandidate, PageEnd
  <2>4. rec \in Turn /\ rec.old = turn[t].old /\ rec.pc = "version" /\ rec.upto = LastCandidate(t)
    BY <2>3, <1>1 DEF Turn, PCs
  <2>5. broken' \in Nat /\ Good(turn[t].old)
    BY <2>1, <1>0, <1>1
  <2> HIDE DEF rec
  <2> QED
    BY <2>1, <2>3, <2>4, <2>5, <1>a, <1>b, TurnMoves DEF Good
<1>13. ASSUME NEW t \in Turns, NothingDue(t) PROVE MemoryInv'
  <2>1. Goto(t, "done") /\ UNCHANGED <<messages, summary, broken>>
    BY <1>13 DEF NothingDue
  <2>2. "done" \in PCs \ {"version", "save", "seed"}
    BY DEF PCs
  <2> QED
    BY <2>1, <2>2, <1>0, <1>a, <1>b, GotoGood
<1>14. ASSUME NEW t \in Turns, ReadVersion(t) PROVE MemoryInv'
  <2> DEFINE rec == [turn[t] EXCEPT !.pc = "save", !.next = summary.version + 1]
  <2>1. turn' = [turn EXCEPT ![t] = rec] /\ UNCHANGED <<messages, summary, broken>>
    BY <1>14, <1>0 DEF ReadVersion
  <2>2. summary.version + 1 \in Nat
    BY <1>0 DEF Summary
  <2>3. rec \in Turn /\ rec.old = turn[t].old /\ rec.upto = turn[t].upto /\ rec.pc = "save"
    BY <2>2, <1>1 DEF Turn, PCs
  <2>4. turn[t].old.through < turn[t].upto /\ turn[t].upto + RecentLimit <= Len(messages)
    BY <1>14 DEF ReadVersion, At, MemoryInv
  <2>5. broken' \in Nat /\ Good(turn[t].old)
    BY <2>1, <1>0, <1>1
  <2> HIDE DEF rec
  <2> QED
    BY <2>1, <2>3, <2>4, <2>5, <1>a, <1>b, TurnMoves DEF Good
<1>15. ASSUME NEW t \in Turns, Save(t) PROVE MemoryInv'
  <2>1. Goto(t, "done") /\ UNCHANGED <<messages, broken>>
    BY <1>15 DEF Save
  <2>2. "done" \in PCs \ {"version", "save", "seed"}
    BY DEF PCs
  <2>3. turn[t].old.through \in Nat /\ turn[t].upto \in Nat /\ turn[t].next \in Nat
    BY <1>1 DEF Turn, Summary
  <2>4. turn[t].old.through < turn[t].upto /\ turn[t].upto + RecentLimit <= Len(messages)
    BY <1>15 DEF Save, At, MemoryInv
  <2>5. Summarized(t) = 1..turn[t].upto
    <3>1. turn[t].old.covers = 1..turn[t].old.through
      BY <1>1 DEF Good
    <3> QED
      BY <3>1, <2>3, <2>4 DEF Summarized
  <2>6. summary' = [version |-> turn[t].next, through |-> turn[t].upto, covers |-> Summarized(t)]
    BY <1>15 DEF Save
  <2>7. 1..turn[t].upto \in SUBSET Nat
    BY <2>3
  <2>8. summary' \in Summary
    BY <2>3, <2>5, <2>6, <2>7 DEF Summary
  <2>9. Good(summary)'
    BY <2>1, <2>4, <2>5, <2>6 DEF Good
  <2>10. messages' \in Msgs /\ Len(messages) <= Len(messages') /\ broken' \in Nat
    BY <2>1, <1>0
  <2> QED
    BY <2>1, <2>2, <2>8, <2>9, <2>10, <1>b, GotoGood
<1>16. ASSUME NEW t \in Turns, Raise(t) PROVE MemoryInv'
  <2>1. PICK l \in {"failed", "raised"} : Goto(t, l)
    BY <1>16 DEF Raise
  <2>2. l \in PCs \ {"version", "save", "seed"}
    BY DEF PCs
  <2>3. UNCHANGED <<messages, summary>> /\ broken' \in Nat
    BY <1>16, <1>0 DEF Raise
  <2> QED
    BY <2>1, <2>2, <2>3, <1>a, <1>b, GotoGood
<1>17. ASSUME NEW t \in Turns, Abandon(t) PROVE MemoryInv'
  <2>1. Goto(t, "gone") /\ UNCHANGED <<messages, summary>> /\ broken' \in Nat
    BY <1>17, <1>0 DEF Abandon
  <2>2. "gone" \in PCs \ {"version", "save", "seed"}
    BY DEF PCs
  <2> QED
    BY <2>1, <2>2, <1>a, <1>b, GotoGood
<1>18. ASSUME NEW t \in Turns, NEW u \in Turns, Resume(t, u) PROVE MemoryInv'
  <2>1. Goto(t, "graph") /\ UNCHANGED <<messages, summary, broken>>
    BY <1>18 DEF Resume
  <2>2. "graph" \in PCs \ {"version", "save", "seed"}
    BY DEF PCs
  <2> QED
    BY <2>1, <2>2, <1>0, <1>a, <1>b, GotoGood
<1> QED
  BY <1>2, <1>3, <1>4, <1>5, <1>6, <1>7, <1>8, <1>9, <1>10, <1>11, <1>12, <1>13, <1>14, <1>15, <1>16, <1>17, <1>18
     DEF Next, Step

(* The invariant holds in every reachable state. *)
LEMMA MemoryInvHolds == Spec => []MemoryInv
BY InitGood, MemoryStep, PTL DEF Spec

(* The tables and the turns keep their types. *)
THEOREM ConversationTypes == Spec => []TypeOK
<1>1. MemoryInv => TypeOK
  BY DEF MemoryInv
<1> QED
  BY <1>1, MemoryInvHolds, PTL

(* database.py:510 for any number of overlapping turns: the summary never  *)
(* skips a message, even when a slower turn overwrites a newer summary.    *)
THEOREM NoGaps == Spec => []SummaryCovers
<1>1. MemoryInv => SummaryCovers
  BY DEF MemoryInv, Good, SummaryCovers
<1> QED
  BY <1>1, MemoryInvHolds, PTL

(* maybe_summarize never takes the newest RecentLimit messages away from   *)
(* the verbatim window, whatever the limits and the overlap.               *)
THEOREM NewestKept == Spec => []RecentVerbatim
<1>1. MemoryInv => RecentVerbatim
  BY DEF MemoryInv, Good, RecentVerbatim
<1> QED
  BY <1>1, MemoryInvHolds, PTL

(* What a turn's record is after Goto. *)
LEMMA GotoFields ==
  ASSUME MemoryInv, NEW t \in Turns, NEW l, Goto(t, l)
  PROVE  /\ turn'[t].pc = l /\ turn'[t].hidden = 0 /\ turn'[t].next = 0
         /\ \A u \in Turns : u # t => turn'[u] = turn[u]
<1>1. turn \in [Turns -> Turn]
  BY DEF MemoryInv, TypeOK, Turn
<1> QED
  BY <1>1 DEF Goto, Unread

-----------------------------------------------------------------------------
(* The rows a turn has written in a role. *)
Rows(t, role) == {i \in 1..Len(messages) : messages[i].turn = t /\ messages[i].role = role}

BeforeQuestion == {"idle", "check", "seed", "summary", "rows", "question"}
BeforeAnswer == {"graph", "answer"}

Clean(t) == Rows(t, "user") = {} /\ Rows(t, "assistant") = {}
AtMostOne(S) == S = {} \/ \E j : S = {j}

(* What the place of a turn says about its rows: nothing is written before *)
(* the question's insert, and no answer before the answer's; a turn that   *)
(* may answer belongs to a run whose question is stored.                   *)
LogOf(t) ==
    /\ AtMostOne(Rows(t, "user")) /\ AtMostOne(Rows(t, "assistant"))
    /\ run[t] # t => Rows(t, "user") = {}
    /\ turn[t].pc \in BeforeQuestion => Clean(t) /\ run[t] = t
    /\ turn[t].pc \in BeforeAnswer => Rows(t, "assistant") = {} /\ Rows(run[t], "user") # {}
    /\ \A i \in Rows(t, "assistant") : \E j \in Rows(run[t], "user") : j < i

LogInv == \A t \in Turns : LogOf(t)

(* A set of one element or none has one element at most. *)
LEMMA FewRows == \A S : AtMostOne(S) => Cardinality(S) <= 1
<1> SUFFICES ASSUME NEW S, AtMostOne(S) PROVE Cardinality(S) <= 1
  OBVIOUS
<1>1. CASE S = {}
  BY <1>1, FS_EmptySet
<1>2. ASSUME NEW j, S = {j} PROVE Cardinality(S) <= 1
  <2>1. Cardinality(S) = 1
    BY <1>2, FS_Singleton, Zenon
  <2> QED
    BY <2>1
<1> QED
  BY <1>1, <1>2 DEF AtMostOne

(* One question, and at most one answer after it for every request. *)
LEMMA LogInvQuestion == TypeOK /\ LogInv => QuestionThenAnswer
<1> SUFFICES ASSUME TypeOK, LogInv, NEW t \in Turns
             PROVE  /\ Count(t, "user") <= (IF run[t] = t THEN 1 ELSE 0)
                    /\ Count(t, "assistant") <= 1
                    /\ \A i \in 1..Len(messages) :
                          messages[i] = [turn |-> t, role |-> "assistant"] =>
                             \E j \in 1..(i - 1) : messages[j] = [turn |-> run[t], role |-> "user"]
  BY DEF QuestionThenAnswer
<1>1. Count(t, "user") = Cardinality(Rows(t, "user")) /\ Count(t, "assistant") = Cardinality(Rows(t, "assistant"))
  BY DEF Count, Rows
<1>2. LogOf(t)
  BY DEF LogInv
<1>3. Cardinality(Rows(t, "user")) <= 1 /\ Cardinality(Rows(t, "assistant")) <= 1
  BY <1>2, FewRows DEF LogOf
<1>4. run[t] # t => Cardinality(Rows(t, "user")) = 0
  BY <1>2, FS_EmptySet DEF LogOf
<1>5. ASSUME NEW i \in 1..Len(messages), messages[i] = [turn |-> t, role |-> "assistant"]
      PROVE  \E j \in 1..(i - 1) : messages[j] = [turn |-> run[t], role |-> "user"]
  <2>1. i \in Rows(t, "assistant")
    BY <1>5 DEF Rows
  <2>2. PICK j \in Rows(run[t], "user") : j < i
    BY <2>1, <1>2 DEF LogOf
  <2>3. j \in 1..Len(messages) /\ messages[j].turn = run[t] /\ messages[j].role = "user"
    BY <2>2 DEF Rows
  <2>4. messages[j] \in [turn : Turns, role : {"seed", "user", "assistant"}]
    <3> DEFINE S == [turn : Turns, role : {"seed", "user", "assistant"}]
    <3>1. messages \in Seq(S)
      BY DEF TypeOK
    <3> HIDE DEF S
    <3>2. messages[j] \in S
      BY <2>3, <3>1
    <3> QED
      BY <3>2 DEF S
  <2>5. messages[j] = [turn |-> run[t], role |-> "user"]
    BY <2>3, <2>4
  <2>6. j \in 1..(i - 1)
    BY <2>2, <2>3
  <2> QED
    BY <2>5, <2>6
<1> QED
  BY <1>1, <1>3, <1>4, <1>5

(* An insert adds one row to the turn's rows of that role. *)
LEMMA InsertRows ==
  ASSUME TypeOK, NEW t \in Turns, NEW r \in {"seed", "user", "assistant"},
         messages' = Append(messages, [turn |-> t, role |-> r]),
         NEW u \in Turns, NEW q \in {"seed", "user", "assistant"}
  PROVE  Rows(u, q)' = IF u = t /\ q = r THEN Rows(u, q) \cup {Len(messages) + 1} ELSE Rows(u, q)
<1> DEFINE row == [turn |-> t, role |-> r]
           n == Len(messages)
<1>1. messages \in Seq([turn : Turns, role : {"seed", "user", "assistant"}]) /\ n \in Nat
  BY DEF TypeOK
<1>2. row.turn = t /\ row.role = r
  OBVIOUS
<1>3. messages' = Append(messages, row)
  OBVIOUS
<1> HIDE DEF row
<1>4. Len(messages') = n + 1 /\ messages'[n + 1] = row /\ \A i \in 1..n : messages'[i] = messages[i]
  BY <1>1, <1>3
<1>5. \A i : i \in 1..(n + 1) <=> i \in 1..n \/ i = n + 1
  BY <1>1
<1>6. Rows(u, q)' = {i \in 1..(n + 1) : messages'[i].turn = u /\ messages'[i].role = q}
  BY <1>4 DEF Rows
<1> HIDE DEF n
<1>7. \A i : i \in Rows(u, q)' <=> (i \in Rows(u, q) \/ (i = n + 1 /\ u = t /\ q = r))
  BY <1>2, <1>4, <1>5, <1>6 DEF Rows, n
<1> QED
  BY <1>7 DEF n

(* A step that writes no row, takes no turn back and begins no resumption  *)
(* keeps LogInv.                                                           *)
LEMMA LogMoves ==
  ASSUME LogInv, messages' = messages, run' = run,
         \A u \in Turns : /\ turn'[u].pc \in BeforeQuestion => turn[u].pc \in BeforeQuestion
                          /\ turn'[u].pc \in BeforeAnswer => turn[u].pc \in BeforeAnswer
  PROVE  LogInv'
<1>1. \A u, q : Rows(u, q)' = Rows(u, q)
  BY DEF Rows
<1>2. ASSUME NEW u \in Turns PROVE LogOf(u)'
  <2>1. LogOf(u)
    BY DEF LogInv
  <2> QED
    BY <1>1, <2>1 DEF LogOf, Clean
<1> QED
  BY <1>2 DEF LogInv

(* A resumption has written nothing, and the question of the run it takes  *)
(* up is stored. No other request belongs to its run, as it asks nothing.  *)
LEMMA LogResume ==
  ASSUME MemoryInv, LogInv, NEW t \in Turns, NEW u \in Turns, Resume(t, u)
  PROVE  LogInv'
<1>1. turn[t].pc = "idle" /\ messages' = messages /\ run' = [run EXCEPT ![t] = u]
  BY DEF Resume, At
<1>2. run \in [Turns -> Turns]
  BY DEF MemoryInv, TypeOK
<1>3. run'[t] = u /\ \A v \in Turns : v # t => run'[v] = run[v]
  BY <1>1, <1>2
<1>4. turn'[t].pc = "graph" /\ \A v \in Turns : v # t => turn'[v] = turn[v]
  BY GotoFields DEF Resume
<1>5. \A v, q : Rows(v, q)' = Rows(v, q)
  BY <1>1 DEF Rows
<1>6. Clean(t) /\ LogOf(t)
  BY <1>1 DEF LogInv, LogOf, BeforeQuestion
<1>7. Rows(u, "user") # {}
  <2>1. PICK i \in 1..Len(messages) : messages[i] = [turn |-> u, role |-> "user"]
    BY DEF Resume
  <2>2. i \in Rows(u, "user")
    BY <2>1 DEF Rows
  <2> QED
    BY <2>2
<1>8. LogOf(t)'
  BY <1>3, <1>4, <1>5, <1>6, <1>7 DEF LogOf, Clean, AtMostOne, BeforeQuestion
<1>9. ASSUME NEW v \in Turns, v # t PROVE LogOf(v)'
  <2>1. LogOf(v)
    BY DEF LogInv
  <2> QED
    BY <2>1, <1>3, <1>4, <1>5, <1>9 DEF LogOf, Clean
<1> QED
  BY <1>8, <1>9 DEF LogInv

(* No step but an insert changes messages, and none takes a turn back or   *)
(* gives it another run, but a resumption.                                 *)
LEMMA LogQuiet ==
  ASSUME MemoryInv, [Next]_vars, ~\E t \in Turns : Insert(t), ~\E t, u \in Turns : Resume(t, u)
  PROVE  /\ messages' = messages /\ run' = run
         /\ \A u \in Turns : /\ turn'[u].pc \in BeforeQuestion => turn[u].pc \in BeforeQuestion
                             /\ turn'[u].pc \in BeforeAnswer => turn[u].pc \in BeforeAnswer
<1> DEFINE Ok == /\ messages' = messages /\ run' = run
                 /\ \A u \in Turns : /\ turn'[u].pc \in BeforeQuestion => turn[u].pc \in BeforeQuestion
                                     /\ turn'[u].pc \in BeforeAnswer => turn[u].pc \in BeforeAnswer
<1>0. turn \in [Turns -> Turn]
  BY DEF MemoryInv, TypeOK, Turn
<1>1. CASE UNCHANGED vars
  BY <1>1 DEF vars
<1>a. ASSUME NEW t \in Turns, NEW l, turn' = [turn EXCEPT ![t] = Unread(l, 0, 0)]
      PROVE  turn'[t].pc = l /\ \A u \in Turns : u # t => turn'[u] = turn[u]
  BY <1>0, <1>a DEF Unread
<1>2. ASSUME NEW t \in Turns, NEW n \in 0..MaxSeed, Begin(t, n) PROVE Ok
  BY <1>0, <1>2 DEF Begin, At, BeforeQuestion, BeforeAnswer, Turn
<1>3. ASSUME NEW t \in Turns, Check(t) \/ ContextSummary(t) \/ SelectNext(t) \/ ReadPrevious(t)
                              \/ ReadPending(t) \/ ReadVersion(t)
      PROVE Ok
  <2>1. /\ messages' = messages /\ run' = run /\ \A u \in Turns : u # t => turn'[u] = turn[u]
        /\ turn'[t].pc \in BeforeQuestion => turn[t].pc \in BeforeQuestion
        /\ turn'[t].pc \in BeforeAnswer => turn[t].pc \in BeforeAnswer
    <3>1. CASE Check(t)
      BY <1>0, <3>1 DEF Check, At, BeforeQuestion, BeforeAnswer, Turn
    <3>2. CASE ContextSummary(t)
      BY <1>0, <3>2 DEF ContextSummary, At, BeforeQuestion, BeforeAnswer, Turn
    <3>3. CASE SelectNext(t)
      BY <1>0, <3>3 DEF SelectNext, At, BeforeQuestion, BeforeAnswer, Turn
    <3>4. CASE ReadPrevious(t) \/ ReadPending(t) \/ ReadVersion(t)
      BY <1>0, <3>4 DEF ReadPrevious, ReadPending, ReadVersion, At, BeforeQuestion, BeforeAnswer, Turn
    <3> QED BY <1>3, <3>1, <3>2, <3>3, <3>4
  <2> QED BY <2>1
<1>4. ASSUME NEW t \in Turns, ContextRows(t) PROVE Ok
  BY <1>0, <1>4 DEF ContextRows, At, BeforeQuestion, BeforeAnswer, Turn, Unread
<1>5. ASSUME NEW t \in Turns, InsertConflict(t) \/ Complete(t) \/ NothingDue(t) \/ Save(t) \/ Raise(t) \/ Abandon(t)
      PROVE Ok
  <2>1. messages' = messages /\ run' = run
    BY <1>5 DEF InsertConflict, Complete, NothingDue, Save, Raise, Abandon
  <2>2. PICK l : /\ turn' = [turn EXCEPT ![t] = Unread(l, 0, 0)]
                 /\ l \notin BeforeQuestion
                 /\ l \in BeforeAnswer => turn[t].pc = "graph"
    <3>1. CASE Complete(t)
      <4>1. PICK l \in {"answer", "previous"} : Goto(t, l)
        BY <3>1 DEF Complete
      <4>2. turn[t].pc = "graph"
        BY <3>1 DEF Complete, At
      <4> QED
        BY <4>1, <4>2 DEF Goto, BeforeQuestion
    <3>2. CASE ~Complete(t)
      <4>1. PICK l \in Ended : Goto(t, l)
        BY <1>5, <3>2 DEF InsertConflict, NothingDue, Save, Raise, Abandon, Ended
      <4> QED
        BY <4>1 DEF Goto, Ended, BeforeQuestion, BeforeAnswer
    <3> QED
      BY <3>1, <3>2
  <2> QED
    BY <2>1, <2>2, <1>a, ZenonT(40) DEF BeforeAnswer
<1> QED
  BY <1>1, <1>2, <1>3, <1>4, <1>5 DEF Next, Step

(* The insert of a turn's question or answer is the only one of its kind. *)
LEMMA LogInsert ==
  ASSUME MemoryInv, LogInv, NEW t \in Turns, Insert(t)
  PROVE  LogInv'
<1> DEFINE n == Len(messages)
           r == RoleOf[turn[t].pc]
<1>1. turn \in [Turns -> Turn] /\ n \in Nat /\ TypeOK
  BY DEF MemoryInv, TypeOK, Turn
<1>2. messages' = Append(messages, [turn |-> t, role |-> r]) /\ turn[t].pc \in {"seed", "question", "answer"}
  BY DEF Insert
<1>3. r \in {"seed", "user", "assistant"}
  BY <1>2 DEF RoleOf
<1>4. turn' = [turn EXCEPT ![t] = Unread(AfterInsert(t), IF At(t, "seed") THEN turn[t].seeds - 1 ELSE 0, 0)]
  BY DEF Insert
<1>5. turn'[t].pc = AfterInsert(t) /\ \A u \in Turns : u # t => turn'[u] = turn[u]
  BY <1>1, <1>4, ZenonT(40) DEF Unread
<1>6. Len(messages') = n + 1
  BY <1>1, <1>2, <1>3 DEF TypeOK
<1>7. \A u \in Turns, q \in {"seed", "user", "assistant"} :
         Rows(u, q)' = IF u = t /\ q = r THEN Rows(u, q) \cup {n + 1} ELSE Rows(u, q)
  BY <1>1, <1>2, <1>3, InsertRows
<1>8. run' = run /\ run \in [Turns -> Turns] /\ \A v \in Turns : \A q : \A i \in Rows(v, q) : i < n + 1
  BY <1>1 DEF Insert, Rows, TypeOK
<1> HIDE DEF r, n
<1>9. \A v \in Turns : Rows(v, "user") \subseteq Rows(v, "user")'
  BY <1>7
<1>10. ASSUME NEW v \in Turns, v # t PROVE LogOf(v)'
  <2>1. Rows(v, "user")' = Rows(v, "user") /\ Rows(v, "assistant")' = Rows(v, "assistant") /\ turn'[v] = turn[v]
    BY <1>5, <1>7, <1>10
  <2>2. LogOf(v) /\ run'[v] = run[v] /\ run[v] \in Turns
    BY <1>8 DEF LogInv
  <2>3. PICK w \in Turns : w = run[v]
    BY <2>2
  <2>4. Rows(w, "user") \subseteq Rows(w, "user")'
    BY <1>9
  <2> QED
    BY <2>1, <2>2, <2>3, <2>4 DEF LogOf, Clean
<1>11. LogOf(t)'
  <2>0. LogOf(t) /\ run'[t] = run[t] /\ run[t] \in Turns
    BY <1>8 DEF LogInv
  <2>1. CASE turn[t].pc = "seed"
    <3>1. Clean(t) /\ run[t] = t /\ r = "seed" /\ AfterInsert(t) \in {"seed", "summary"}
      BY <2>0, <2>1 DEF LogOf, BeforeQuestion, r, RoleOf, AfterInsert
    <3>2. Rows(t, "user")' = {} /\ Rows(t, "assistant")' = {}
      BY <3>1, <1>7 DEF Clean
    <3> QED
      BY <3>1, <3>2, <2>0, <1>5 DEF LogOf, Clean, AtMostOne, BeforeAnswer
  <2>2. CASE turn[t].pc = "question"
    <3>1. Clean(t) /\ run[t] = t /\ r = "user" /\ AfterInsert(t) = "graph"
      BY <2>0, <2>2 DEF LogOf, BeforeQuestion, r, RoleOf, AfterInsert
    <3>2. Rows(t, "user")' = {n + 1} /\ Rows(t, "assistant")' = {}
      BY <3>1, <1>7 DEF Clean
    <3> QED
      BY <3>1, <3>2, <2>0, <1>5 DEF LogOf, AtMostOne, BeforeQuestion
  <2>3. CASE turn[t].pc = "answer"
    <3>1. /\ Rows(t, "assistant") = {} /\ Rows(run[t], "user") # {}
          /\ r = "assistant" /\ AfterInsert(t) = "previous"
      BY <2>0, <2>3 DEF LogOf, BeforeAnswer, r, RoleOf, AfterInsert
    <3>2. /\ Rows(t, "user")' = Rows(t, "user") /\ Rows(t, "assistant")' = {n + 1}
      BY <3>1, <1>7
    <3>4. PICK w \in Turns : w = run[t]
      BY <2>0
    <3>5. Rows(w, "user")' = Rows(w, "user") /\ \A j \in Rows(w, "user") : j < n + 1
      BY <3>1, <1>7, <1>8
    <3>3. \A j \in Rows(run[t], "user")' : j < n + 1
      BY <2>0, <3>4, <3>5
    <3>6. Rows(run[t], "user")' # {}
      BY <2>0, <3>1, <3>4, <3>5
    <3> QED
      BY <3>1, <3>2, <3>3, <3>6, <2>0, <1>5 DEF LogOf, AtMostOne, BeforeQuestion, BeforeAnswer
  <2> QED
    BY <1>2, <2>1, <2>2, <2>3
<1> QED
  BY <1>10, <1>11 DEF LogInv

(* The log stays in order, whichever inserts collide. *)
LEMMA LogInvHolds == Spec => []LogInv
<1>1. Init => LogInv
  <2> SUFFICES ASSUME Init PROVE LogInv
    OBVIOUS
  <2>1. Len(messages) = 0 /\ 1..0 = {}
    BY DEF Init
  <2>2. \A t \in Turns : Clean(t) /\ turn[t].pc = "idle" /\ run[t] = t
    BY <2>1 DEF Clean, Rows, Init, Unread
  <2> QED
    BY <2>2 DEF LogInv, LogOf, Clean, AtMostOne, BeforeAnswer
<1>2. MemoryInv /\ LogInv /\ [Next]_vars => LogInv'
  BY LogInsert, LogResume, LogQuiet, LogMoves
<1> QED
  BY <1>1, <1>2, MemoryInvHolds, PTL DEF Spec

-----------------------------------------------------------------------------
(* Messages the summary does not cover, and how many there may be between  *)
(* two turns: what does not trigger a summary, the history, and the two    *)
(* messages of each broken turn.                                           *)
Backlog == Len(messages) - summary.through
Most == 2 * RecentLimit + MaxSeed + 2 * broken

NoQuestion == \A i \in 1..Len(messages) : messages[i].role # "user"

(* What holds at each place of a turn nobody disturbs: what it has read is *)
(* what is stored, and the backlog has grown by its own rows only.         *)
Undisturbed(t) ==
    /\ turn[t].pc \in {"check", "summary", "rows", "question"} => Backlog <= Most
    /\ turn[t].pc = "check" => turn[t].seeds <= MaxSeed
    /\ turn[t].pc \in {"idle", "check"} => turn[t].next = 0
    /\ turn[t].pc = "seed" =>
          NoQuestion /\ summary.through = 0 /\ Len(messages) + turn[t].seeds <= MaxSeed
    /\ turn[t].pc \in BeforeAnswer => Backlog <= Most + 1
    /\ turn[t].pc \in {"previous", "pending"} => Backlog <= Most + 2
    /\ turn[t].pc \in {"rows", "pending"} => turn[t].old = summary
    /\ turn[t].pc \in {"version", "save"} => Backlog <= Most + 2 /\ Len(messages) - turn[t].upto <= Most
    /\ turn[t].pc \in {"seed", "question", "answer"} => turn[t].next \in {0, Len(messages) + 1}

(* Of turns that do not overlap one runs at a time, and the backlog is     *)
(* within bounds whenever none does.                                       *)
Alone ==
    /\ \A t, u \in Turns : Running(t) /\ Running(u) => t = u
    /\ (\A t \in Turns : ~Running(t)) => Backlog <= Most
    /\ \A t \in Turns : Undisturbed(t)
    /\ SeedsFirst
    /\ HiddenBounded

SerialInv == ~overlapped => Alone

(* A step of the only running turn is judged by that turn. *)
LEMMA AloneMoves ==
  ASSUME MemoryInv, MemoryInv', Alone, NEW t \in Turns,
         \A u \in Turns : u # t => ~Running(u) /\ turn'[u] = turn[u],
         broken <= broken',
         Undisturbed(t)', Running(t)' \/ (Backlog <= Most)',
         turn'[t].hidden <= 2 * RecentLimit - 1 + MaxSeed + 2 * broken',
         SeedsFirst'
  PROVE  Alone'
<1>1. ASSUME NEW u \in Turns, u # t PROVE ~Running(u)' /\ Undisturbed(u)'
  <2>1. turn'[u] = turn[u] /\ ~Running(u)
    BY <1>1
  <2>2. turn[u].pc \in Ended \cup {"idle"} /\ turn'[u].pc \in Ended \cup {"idle"}
    BY <2>1 DEF Running
  <2>3. ~Running(u)'
    BY <2>2 DEF Running
  <2>4. Undisturbed(u)'
    BY <2>1, <2>2 DEF Alone, Undisturbed, Ended, BeforeAnswer
  <2> QED
    BY <2>3, <2>4
<1>2. \A a, b \in Turns : Running(a)' /\ Running(b)' => a = b
  BY <1>1
<1>3. (\A a \in Turns : ~Running(a)') => (Backlog <= Most)'
  OBVIOUS
<1>4. \A a \in Turns : Undisturbed(a)'
  BY <1>1
<1>5. HiddenBounded'
  <2>1. broken \in Nat /\ broken' \in Nat /\ turn \in [Turns -> Turn] /\ RecentLimit \in Nat /\ MaxSeed \in Nat
    BY ConversationAssumption DEF MemoryInv, TypeOK, Turn
  <2>2. ASSUME NEW u \in Turns, u # t PROVE turn'[u].hidden <= 2 * RecentLimit - 1 + MaxSeed + 2 * broken'
    <3>1. turn'[u] = turn[u] /\ turn[u].hidden \in Nat
      BY <2>1, <2>2 DEF Turn
    <3>2. turn[u].hidden <= 2 * RecentLimit - 1 + MaxSeed + 2 * broken
      BY DEF Alone, HiddenBounded
    <3> QED
      BY <2>1, <3>1, <3>2
  <2> QED
    BY <2>2 DEF HiddenBounded
<1> QED
  BY <1>2, <1>3, <1>4, <1>5 DEF Alone

(* Every number the bounds speak of is a number. *)
LEMMA Numbers ==
  ASSUME MemoryInv
  PROVE  /\ Len(messages) \in Nat /\ summary.through \in Nat /\ broken \in Nat
         /\ RecentLimit \in Nat \ {0} /\ MaxSeed \in Nat /\ PageLimit \in Nat /\ PageLimit > 2 * RecentLimit
         /\ turn \in [Turns -> Turn]
         /\ summary.through <= Len(messages)
         /\ \A t \in Turns : /\ turn[t] \in Turn /\ turn[t].old.through \in Nat /\ turn[t].upto \in Nat
                             /\ turn[t].seeds \in Nat /\ turn[t].next \in Nat /\ turn[t].hidden \in Nat
<1>1. messages \in Seq([turn : Turns, role : {"seed", "user", "assistant"}]) /\ Len(messages) \in Nat
  BY DEF MemoryInv, TypeOK
<1>2. summary.through \in Nat /\ broken \in Nat
  BY DEF MemoryInv, TypeOK, Summary
<1>3. RecentLimit \in Nat \ {0} /\ MaxSeed \in Nat /\ PageLimit \in Nat /\ PageLimit > 2 * RecentLimit
  BY ConversationAssumption
<1>4. turn \in [Turns -> Turn]
  BY DEF MemoryInv, TypeOK, Turn
<1>5. summary.through <= Len(messages)
  BY <1>1, <1>2, <1>3 DEF MemoryInv, Good
<1>6. \A t \in Turns : /\ turn[t] \in Turn /\ turn[t].old.through \in Nat /\ turn[t].upto \in Nat
                       /\ turn[t].seeds \in Nat /\ turn[t].next \in Nat /\ turn[t].hidden \in Nat
  BY <1>4 DEF Turn, Summary
<1> QED
  BY <1>1, <1>2, <1>3, <1>4, <1>5, <1>6

-----------------------------------------------------------------------------
(* A turn that begins finds the backlog of a thread at rest. *)
LEMMA SerialBegin ==
  ASSUME MemoryInv, MemoryInv', SerialInv, NEW t \in Turns, NEW n \in 0..MaxSeed, Begin(t, n)
  PROVE  SerialInv'
<1> SUFFICES ASSUME ~overlapped' PROVE Alone'
  BY DEF SerialInv
<1>1. Alone /\ \A u \in Turns : ~Running(u)
  BY DEF Begin, SerialInv
<1>2. Backlog <= Most
  BY <1>1 DEF Alone
<1>3. UNCHANGED <<messages, summary, broken>>
  BY DEF Begin
<1>4. /\ turn'[t].pc = "check" /\ turn'[t].seeds = n /\ turn'[t].hidden = turn[t].hidden
      /\ turn'[t].next = 0
      /\ \A u \in Turns : u # t => turn'[u] = turn[u]
  BY <1>1, Numbers DEF Begin, Turn, Alone, Undisturbed, At
<1>5. Undisturbed(t)'
  BY <1>2, <1>3, <1>4 DEF Undisturbed, Backlog, Most, BeforeAnswer
<1>6. Running(t)'
  BY <1>4 DEF Running, Ended
<1>7. turn'[t].hidden <= 2 * RecentLimit - 1 + MaxSeed + 2 * broken' /\ broken <= broken'
  BY <1>1, <1>3, <1>4, Numbers DEF Alone, HiddenBounded
<1>8. SeedsFirst'
  BY <1>1, <1>3 DEF Alone, SeedsFirst
<1> QED
  BY <1>1, <1>4, <1>5, <1>6, <1>7, <1>8, AloneMoves

(* So does a resumption, which has a graph to finish at most. *)
LEMMA SerialResume ==
  ASSUME MemoryInv, MemoryInv', SerialInv, NEW t \in Turns, NEW v \in Turns, Resume(t, v)
  PROVE  SerialInv'
<1> SUFFICES ASSUME ~overlapped' PROVE Alone'
  BY DEF SerialInv
<1>1. Alone /\ \A u \in Turns : ~Running(u)
  BY DEF Resume, SerialInv
<1>2. Backlog <= Most /\ Backlog \in Int /\ Most \in Int
  BY <1>1, Numbers DEF Alone, Backlog, Most
<1>3. UNCHANGED <<messages, summary, broken>>
  BY DEF Resume
<1>4. /\ turn'[t].pc = "graph" /\ turn'[t].hidden = 0
      /\ \A u \in Turns : u # t => turn'[u] = turn[u]
  BY GotoFields DEF Resume
<1>5. Backlog' = Backlog /\ Most' = Most
  BY <1>3 DEF Backlog, Most
<1>6. Undisturbed(t)' /\ Running(t)'
  BY <1>2, <1>4, <1>5 DEF Undisturbed, Running, Ended, BeforeAnswer
<1>7. turn'[t].hidden <= 2 * RecentLimit - 1 + MaxSeed + 2 * broken' /\ broken <= broken'
  BY <1>3, <1>4, Numbers, SMTT(30)
<1>8. SeedsFirst'
  BY <1>1, <1>3 DEF Alone, SeedsFirst
<1> QED
  BY <1>1, <1>4, <1>6, <1>7, <1>8, AloneMoves

(* What a step of a running turn may assume and must show. *)
LEMMA SerialRuns ==
  ASSUME MemoryInv, MemoryInv', Alone, NEW t \in Turns, Running(t),
         \A u \in Turns : u # t => turn'[u] = turn[u],
         broken <= broken',
         Undisturbed(t)', Running(t)' \/ (Backlog <= Most)',
         turn'[t].hidden <= 2 * RecentLimit - 1 + MaxSeed + 2 * broken',
         SeedsFirst'
  PROVE  Alone'
<1>1. \A u \in Turns : u # t => ~Running(u)
  BY DEF Alone
<1> QED
  BY <1>1, AloneMoves

(* A step that changes nothing but the turn. *)
LEMMA SerialReads ==
  ASSUME MemoryInv, MemoryInv', Alone, NEW t \in Turns, Running(t),
         \A u \in Turns : u # t => turn'[u] = turn[u],
         UNCHANGED <<messages, summary, broken>>,
         Undisturbed(t)', Running(t)' \/ Backlog <= Most,
         turn'[t].hidden <= 2 * RecentLimit - 1 + MaxSeed + 2 * broken
  PROVE  Alone'
<1>1. SeedsFirst'
  BY DEF Alone, SeedsFirst
<1>2. broken <= broken' /\ broken' = broken
  BY Numbers
<1>3. Running(t)' \/ (Backlog <= Most)'
  BY DEF Backlog, Most
<1> QED
  BY <1>1, <1>2, <1>3, SerialRuns

(* prepare_turn's reads. *)
LEMMA SerialPrepare ==
  ASSUME MemoryInv, MemoryInv', Alone, NEW t \in Turns,
         Check(t) \/ ContextSummary(t) \/ SelectNext(t)
  PROVE  Alone'
<1>0. /\ turn[t].hidden <= 2 * RecentLimit - 1 + MaxSeed + 2 * broken /\ Undisturbed(t)
  BY DEF Alone, HiddenBounded
<1>1. CASE Check(t)
  <2>1. turn[t].pc = "check" /\ UNCHANGED <<messages, summary, broken>> /\ Running(t)
    BY <1>1 DEF Check, At, Running, Ended
  <2>2. /\ turn'[t].pc = IF messages = <<>> /\ turn[t].seeds > 0 THEN "seed" ELSE "summary"
        /\ turn'[t].seeds = turn[t].seeds /\ turn'[t].hidden = turn[t].hidden /\ turn'[t].next = turn[t].next
        /\ \A u \in Turns : u # t => turn'[u] = turn[u]
    BY <1>1, Numbers DEF Check, Turn
  <2>3. Backlog <= Most /\ turn[t].seeds <= MaxSeed
    BY <2>1, <1>0 DEF Undisturbed
  <2>4. CASE turn'[t].pc = "seed"
    <3>1. Len(messages) = 0 /\ 1..0 = {}
      BY <2>2, <2>4
    <3>2. NoQuestion /\ summary.through = 0
      BY <3>1, Numbers DEF NoQuestion
    <3>3. turn[t].next = 0
      BY <2>1, <1>0 DEF Undisturbed
    <3>4. Undisturbed(t)' /\ Running(t)'
      BY <2>1, <2>2, <2>3, <2>4, <3>1, <3>2, <3>3, Numbers DEF Undisturbed, NoQuestion, Running, Ended, BeforeAnswer
    <3> QED
      BY <3>4, <2>1, <2>2, <1>0, SerialReads
  <2>5. CASE turn'[t].pc = "summary"
    <3>1. Undisturbed(t)' /\ Running(t)'
      BY <2>1, <2>3, <2>5 DEF Undisturbed, Running, Ended, BeforeAnswer, Backlog, Most
    <3> QED
      BY <3>1, <2>1, <2>2, <1>0, SerialReads
  <2> QED
    BY <2>2, <2>4, <2>5
<1>2. CASE ContextSummary(t)
  <2>1. turn[t].pc = "summary" /\ UNCHANGED <<messages, summary, broken>> /\ Running(t)
    BY <1>2 DEF ContextSummary, At, Running, Ended
  <2>2. /\ turn'[t].pc = "rows" /\ turn'[t].old = summary /\ turn'[t].hidden = turn[t].hidden
        /\ \A u \in Turns : u # t => turn'[u] = turn[u]
    BY <1>2, Numbers DEF ContextSummary, Turn
  <2>3. Undisturbed(t)' /\ Running(t)'
    BY <2>1, <2>2, <1>0 DEF Undisturbed, Running, Ended, BeforeAnswer, Backlog, Most
  <2> QED
    BY <2>1, <2>2, <2>3, <1>0, SerialReads
<1>3. CASE SelectNext(t)
  <2>1. turn[t].pc \in {"seed", "question", "answer"} /\ UNCHANGED <<messages, summary, broken>> /\ Running(t)
    BY <1>3 DEF SelectNext, Running, Ended
  <2>2. /\ turn'[t].pc = turn[t].pc /\ turn'[t].next = Len(messages) + 1 /\ turn'[t].hidden = turn[t].hidden
        /\ turn'[t].seeds = turn[t].seeds
        /\ \A u \in Turns : u # t => turn'[u] = turn[u]
    BY <1>3, Numbers DEF SelectNext, Turn
  <2>3. Undisturbed(t)' /\ Running(t)'
    BY <2>1, <2>2, <1>0 DEF Undisturbed, Running, Ended, BeforeAnswer, Backlog, Most, NoQuestion
  <2> QED
    BY <2>1, <2>2, <2>3, <1>0, SerialReads
<1> QED
  BY <1>1, <1>2, <1>3

(* context leaves out what the summary covers and shows the newest row. *)
LEMMA SerialContext ==
  ASSUME MemoryInv, MemoryInv', Alone, NEW t \in Turns, ContextRows(t)
  PROVE  Alone'
<1>1. turn[t].pc = "rows" /\ UNCHANGED <<messages, summary, broken>> /\ Running(t)
  BY DEF ContextRows, At, Running, Ended
<1>2. PICK window \in 0..RecentLimit :
         /\ messages # <<>> => window > 0
         /\ turn' = [turn EXCEPT ![t] = Unread("question", 0, Hidden(t, window))]
  BY DEF ContextRows
<1>3. /\ turn'[t].pc = "question" /\ turn'[t].next = 0 /\ turn'[t].hidden = Hidden(t, window)
      /\ \A u \in Turns : u # t => turn'[u] = turn[u]
  BY <1>2, Numbers DEF Unread
<1>4. Backlog <= Most /\ turn[t].old = summary
  BY <1>1 DEF Alone, Undisturbed
<1>5. Undisturbed(t)' /\ Running(t)'
  BY <1>1, <1>3, <1>4 DEF Undisturbed, Running, Ended, BeforeAnswer, Backlog, Most
<1>6. Len(messages) > 0 => window > 0
  <2>1. messages = <<>> => Len(messages) = 0
    OBVIOUS
  <2> QED
    BY <1>2, <2>1
<1>7. Hidden(t, window) <= 2 * RecentLimit - 1 + MaxSeed + 2 * broken
  <2>1. Hidden(t, window) = LET n == Len(messages) - summary.through - window IN IF n > 0 THEN n ELSE 0
    BY <1>4 DEF Hidden
  <2>2. Len(messages) - summary.through <= 2 * RecentLimit + MaxSeed + 2 * broken
    BY <1>4 DEF Backlog, Most
  <2>3. /\ Len(messages) \in Nat /\ summary.through \in Nat /\ broken \in Nat /\ MaxSeed \in Nat
        /\ RecentLimit \in Nat \ {0} /\ window \in Nat
    BY Numbers
  <2> QED
    BY <2>1, <2>2, <2>3, <1>6
<1> QED
  BY <1>1, <1>3, <1>5, <1>7, SerialReads

-----------------------------------------------------------------------------
(* A turn's own rows are all that the backlog grows by. *)
LEMMA SerialInsert ==
  ASSUME MemoryInv, MemoryInv', Alone, NEW t \in Turns, Insert(t)
  PROVE  Alone'
<1> DEFINE r == RoleOf[turn[t].pc]
           row == [turn |-> t, role |-> r]
           n == Len(messages)
<1>1. /\ turn[t].pc \in {"seed", "question", "answer"} /\ UNCHANGED <<summary, broken>> /\ Running(t)
  BY DEF Insert, Running, Ended
<1>2. messages' = Append(messages, row) /\ row.role = r /\ r \in {"seed", "user", "assistant"}
  BY <1>1 DEF Insert, RoleOf
<1>3. row \in [turn : Turns, role : {"seed", "user", "assistant"}]
  BY <1>2
<1>4. messages \in Seq([turn : Turns, role : {"seed", "user", "assistant"}]) /\ n \in Nat
  BY DEF MemoryInv, TypeOK
<1> HIDE DEF row
<1>5. Len(messages') = n + 1 /\ messages'[n + 1] = row /\ \A i \in 1..n : messages'[i] = messages[i]
  BY <1>2, <1>3, <1>4
<1>6. /\ turn'[t].pc = AfterInsert(t) /\ turn'[t].hidden = 0 /\ turn'[t].next = 0
      /\ turn'[t].seeds = IF At(t, "seed") THEN turn[t].seeds - 1 ELSE 0
      /\ \A u \in Turns : u # t => turn'[u] = turn[u]
  BY Numbers DEF Insert, Unread
<1>7. Undisturbed(t) /\ SeedsFirst
  BY DEF Alone
<1>8. \A i : i \in 1..(n + 1) <=> i \in 1..n \/ i = n + 1
  BY <1>4
<1>9. Backlog' = Backlog + 1 /\ Most' = Most /\ Backlog \in Int /\ Most \in Int
  <2>1. /\ n \in Nat /\ summary.through \in Nat /\ broken \in Nat /\ MaxSeed \in Nat /\ RecentLimit \in Nat
        /\ summary' = summary /\ broken' = broken /\ Len(messages') = n + 1
    BY <1>1, <1>5, Numbers
  <2> QED
    BY <2>1 DEF Backlog, Most
<1>a. turn'[t].hidden <= 2 * RecentLimit - 1 + MaxSeed + 2 * broken' /\ broken <= broken'
  <2>1. broken \in Nat /\ RecentLimit \in Nat \ {0} /\ MaxSeed \in Nat
    BY Numbers
  <2>2. 0 <= 2 * RecentLimit - 1 + MaxSeed + 2 * broken /\ broken <= broken
    BY <2>1
  <2> QED
    BY <2>2, <1>1, <1>6
<1>10. CASE turn[t].pc = "seed"
  <2>1. NoQuestion /\ summary.through = 0 /\ n + turn[t].seeds <= MaxSeed /\ r = "seed"
    BY <1>7, <1>10 DEF Undisturbed, RoleOf
  <2>2. NoQuestion'
    BY <2>1, <1>2, <1>5, <1>8 DEF NoQuestion
  <2>3. SeedsFirst'
    BY <2>2 DEF NoQuestion, SeedsFirst
  <2>4. turn[t].seeds \in Nat /\ turn[t].seeds > 0 /\ turn'[t].seeds = turn[t].seeds - 1
    BY <1>6, <1>10, Numbers DEF MemoryInv, At
  <2>5. Len(messages') + turn'[t].seeds <= MaxSeed /\ (Backlog <= Most)'
    BY <2>1, <2>4, <1>1, <1>4, <1>5, Numbers, SMTT(30) DEF Backlog, Most
  <2>6. AfterInsert(t) \in {"seed", "summary"}
    BY <1>10 DEF AfterInsert
  <2>7. Undisturbed(t)' /\ Running(t)'
    BY <2>1, <2>2, <2>5, <2>6, <1>1, <1>6 DEF Undisturbed, Running, Ended, BeforeAnswer
  <2> QED
    BY <2>3, <2>7, <1>1, <1>6, <1>a, SerialRuns
<1>11. CASE turn[t].pc = "question"
  <2>1. Backlog <= Most /\ r = "user" /\ AfterInsert(t) = "graph"
    BY <1>7, <1>11 DEF Undisturbed, RoleOf, AfterInsert
  <2>2. SeedsFirst'
    <3> SUFFICES ASSUME NEW i \in 1..(n + 1), NEW j \in 1..(n + 1),
                        messages'[i].role = "user", messages'[j].role = "seed"
                 PROVE  j < i
      BY <1>5 DEF SeedsFirst
    <3>1. j \in 1..n
      BY <2>1, <1>2, <1>5, <1>8
    <3>2. CASE i = n + 1
      BY <3>1, <3>2, <1>4
    <3>3. CASE i \in 1..n
      <4>1. messages[i].role = "user" /\ messages[j].role = "seed"
        BY <3>1, <3>3, <1>5
      <4> QED
        BY <4>1, <3>1, <3>3, <1>7 DEF SeedsFirst
    <3> QED
      BY <3>2, <3>3, <1>8
  <2>3. Undisturbed(t)' /\ Running(t)'
    BY <2>1, <1>6, <1>9 DEF Undisturbed, Running, Ended, BeforeAnswer
  <2> QED
    BY <2>2, <2>3, <1>1, <1>6, <1>a, SerialRuns
<1>12. CASE turn[t].pc = "answer"
  <2>1. Backlog <= Most + 1 /\ r = "assistant" /\ AfterInsert(t) = "previous"
    BY <1>7, <1>12 DEF Undisturbed, RoleOf, AfterInsert, BeforeAnswer
  <2>2. SeedsFirst'
    <3> SUFFICES ASSUME NEW i \in 1..(n + 1), NEW j \in 1..(n + 1),
                        messages'[i].role = "user", messages'[j].role = "seed"
                 PROVE  j < i
      BY <1>5 DEF SeedsFirst
    <3>1. i \in 1..n /\ j \in 1..n
      BY <2>1, <1>2, <1>5, <1>8
    <3>2. messages[i].role = "user" /\ messages[j].role = "seed"
      BY <3>1, <1>5
    <3> QED
      BY <3>1, <3>2, <1>7 DEF SeedsFirst
  <2>3. Undisturbed(t)' /\ Running(t)'
    BY <2>1, <1>6, <1>9 DEF Undisturbed, Running, Ended, BeforeAnswer
  <2> QED
    BY <2>2, <2>3, <1>1, <1>6, <1>a, SerialRuns
<1> QED
  BY <1>1, <1>10, <1>11, <1>12

(* Nobody takes the number an undisturbed turn has read. *)
LEMMA SerialNoConflict ==
  ASSUME MemoryInv, Alone, NEW t \in Turns
  PROVE  ~InsertConflict(t)
BY DEF Alone, Undisturbed, InsertConflict

(* complete_turn up to the candidates: a page that triggers no summary is  *)
(* the whole backlog, and one that does shrinks it by more than a turn     *)
(* adds.                                                                   *)
LEMMA SerialComplete ==
  ASSUME MemoryInv, MemoryInv', Alone, NEW t \in Turns,
         Complete(t) \/ ReadPrevious(t) \/ ReadPending(t) \/ NothingDue(t) \/ ReadVersion(t)
  PROVE  Alone'
<1>0. /\ turn[t].hidden <= 2 * RecentLimit - 1 + MaxSeed + 2 * broken /\ Undisturbed(t)
      /\ 0 <= 2 * RecentLimit - 1 + MaxSeed + 2 * broken
  BY Numbers DEF Alone, HiddenBounded
<1>n. Backlog \in Int /\ Most \in Int /\ Backlog = Len(messages) - summary.through
  BY Numbers DEF Backlog, Most
<1>1. CASE Complete(t)
  <2>1. turn[t].pc = "graph" /\ UNCHANGED <<messages, summary, broken>> /\ Running(t)
    BY <1>1 DEF Complete, At, Running, Ended
  <2>2. PICK l \in {"answer", "previous"} : Goto(t, l)
    BY <1>1 DEF Complete
  <2>3. /\ turn'[t].pc = l /\ turn'[t].hidden = 0 /\ turn'[t].next = 0
        /\ \A u \in Turns : u # t => turn'[u] = turn[u]
    BY <2>2, GotoFields
  <2>4. Backlog <= Most + 1 /\ Backlog' = Backlog /\ Most' = Most
    BY <2>1, <1>0 DEF Undisturbed, BeforeAnswer, Backlog, Most
  <2>5. Undisturbed(t)' /\ Running(t)'
    BY <2>3, <2>4, <1>n DEF Undisturbed, Running, Ended, BeforeAnswer
  <2> QED
    BY <2>1, <2>3, <2>5, <1>0, SerialReads
<1>2. CASE ReadPrevious(t)
  <2>1. turn[t].pc = "previous" /\ UNCHANGED <<messages, summary, broken>> /\ Running(t)
    BY <1>2 DEF ReadPrevious, At, Running, Ended
  <2>2. /\ turn'[t].pc = "pending" /\ turn'[t].old = summary /\ turn'[t].hidden = turn[t].hidden
        /\ \A u \in Turns : u # t => turn'[u] = turn[u]
    BY <1>2, Numbers DEF ReadPrevious, Turn
  <2>3. Undisturbed(t)' /\ Running(t)'
    BY <2>1, <2>2, <1>0 DEF Undisturbed, Running, Ended, BeforeAnswer, Backlog, Most
  <2> QED
    BY <2>1, <2>2, <2>3, <1>0, SerialReads
<1>3. CASE ReadPending(t)
  <2>1. turn[t].pc = "pending" /\ UNCHANGED <<messages, summary, broken>> /\ Running(t)
    BY <1>3 DEF ReadPending, At, Running, Ended
  <2>2. /\ turn'[t].pc = "version" /\ turn'[t].upto = LastCandidate(t) /\ turn'[t].hidden = turn[t].hidden
        /\ \A u \in Turns : u # t => turn'[u] = turn[u]
    BY <1>3, Numbers DEF ReadPending, Turn
  <2>3. turn[t].old = summary /\ Backlog <= Most + 2 /\ Backlog' = Backlog /\ Most' = Most
    BY <2>1, <1>0 DEF Undisturbed, Backlog, Most
  <2>4. LastCandidate(t) =
           (IF Len(messages) <= summary.through + PageLimit THEN Len(messages) ELSE summary.through + PageLimit)
           - RecentLimit
    BY <2>3 DEF LastCandidate, PageEnd
  <2>5. Len(messages) - LastCandidate(t) <= Most
    <3>1. /\ Len(messages) \in Nat /\ summary.through \in Nat /\ broken \in Nat /\ MaxSeed \in Nat
          /\ RecentLimit \in Nat \ {0} /\ PageLimit \in Nat /\ PageLimit > 2 * RecentLimit
      BY Numbers
    <3>2. Len(messages) - summary.through <= Most + 2
      BY <2>3, <1>n
    <3>3. RecentLimit <= Most
      BY <3>1 DEF Most
    <3> QED
      BY <2>4, <3>1, <3>2, <3>3, <1>n
  <2>6. Undisturbed(t)' /\ Running(t)'
    BY <2>1, <2>2, <2>3, <2>5 DEF Undisturbed, Running, Ended, BeforeAnswer
  <2> QED
    BY <2>1, <2>2, <2>6, <1>0, SerialReads
<1>4. CASE NothingDue(t)
  <2>1. turn[t].pc = "pending" /\ UNCHANGED <<messages, summary, broken>> /\ Running(t)
    BY <1>4 DEF NothingDue, At, Running, Ended
  <2>2. /\ turn'[t].pc = "done" /\ turn'[t].hidden = 0
        /\ \A u \in Turns : u # t => turn'[u] = turn[u]
    BY <1>4, GotoFields DEF NothingDue
  <2>3. turn[t].old = summary
    BY <2>1, <1>0 DEF Undisturbed
  <2>4. LET e == IF Len(messages) <= summary.through + PageLimit THEN Len(messages) ELSE summary.through + PageLimit
        IN  e - summary.through <= 2 * RecentLimit
    <3> DEFINE e == IF Len(messages) <= summary.through + PageLimit THEN Len(messages) ELSE summary.through + PageLimit
    <3>1. e = PageEnd(turn[t].old.through) /\ e \in Int
      BY <2>3, Numbers DEF PageEnd
    <3>2. ~(e - summary.through > 2 * RecentLimit) \/ e - RecentLimit <= summary.through
      BY <1>4, <2>3, <3>1 DEF NothingDue, Due, LastCandidate
    <3> HIDE DEF e
    <3>3. e - summary.through <= 2 * RecentLimit
      BY <3>1, <3>2, Numbers
    <3> QED
      BY <3>3 DEF e
  <2>5. Backlog <= Most
    BY <2>4, <1>n, Numbers, SMTT(30) DEF Most
  <2>6. Undisturbed(t)'
    BY <2>2 DEF Undisturbed, BeforeAnswer
  <2> QED
    BY <2>1, <2>2, <2>5, <2>6, <1>0, SerialReads
<1>5. CASE ReadVersion(t)
  <2>1. turn[t].pc = "version" /\ UNCHANGED <<messages, summary, broken>> /\ Running(t)
    BY <1>5 DEF ReadVersion, At, Running, Ended
  <2>2. /\ turn'[t].pc = "save" /\ turn'[t].upto = turn[t].upto /\ turn'[t].hidden = turn[t].hidden
        /\ \A u \in Turns : u # t => turn'[u] = turn[u]
    BY <1>5, Numbers DEF ReadVersion, Turn
  <2>3. Undisturbed(t)' /\ Running(t)'
    BY <2>1, <2>2, <1>0 DEF Undisturbed, Running, Ended, BeforeAnswer, Backlog, Most
  <2> QED
    BY <2>1, <2>2, <2>3, <1>0, SerialReads
<1> QED
  BY <1>1, <1>2, <1>3, <1>4, <1>5

(* The end of a turn: its summary is saved, or it breaks off. *)
LEMMA SerialEnds ==
  ASSUME MemoryInv, MemoryInv', Alone, NEW t \in Turns, Save(t) \/ Raise(t) \/ Abandon(t)
  PROVE  Alone'
<1>0. Undisturbed(t) /\ SeedsFirst
  BY DEF Alone
<1>1. messages' = messages /\ Running(t)
  BY DEF Save, Raise, Abandon, At, Running, Ended
<1>2. SeedsFirst'
  BY <1>0, <1>1 DEF SeedsFirst
<1>3. PICK l \in Ended : Goto(t, l)
  BY DEF Save, Raise, Abandon, Ended
<1>4. /\ turn'[t].pc = l /\ turn'[t].hidden = 0
      /\ \A u \in Turns : u # t => turn'[u] = turn[u]
  BY <1>3, GotoFields
<1>5. Undisturbed(t)'
  BY <1>4 DEF Undisturbed, BeforeAnswer, Ended
<1>6. (Backlog <= Most)' /\ broken <= broken'
  <2>1. CASE Save(t)
    <3>1. turn[t].pc = "save" /\ summary'.through = turn[t].upto /\ broken' = broken
      BY <2>1 DEF Save, At
    <3>2. Len(messages) - turn[t].upto <= Most
      BY <3>1, <1>0 DEF Undisturbed
    <3> QED
      BY <3>1, <3>2, <1>1, Numbers DEF Backlog, Most
  <2>2. CASE Raise(t) \/ Abandon(t)
    <3>1. summary' = summary /\ broken' = broken + 1
      BY <2>2 DEF Raise, Abandon
    <3>2. turn[t].pc \in PCs
      BY Numbers DEF Turn
    <3>3. Backlog <= Most + 2
      <4>1. CASE turn[t].pc = "seed"
        <5>1. summary.through = 0 /\ Len(messages) + turn[t].seeds <= MaxSeed
          BY <4>1, <1>0 DEF Undisturbed
        <5> QED
          BY <5>1, Numbers, SMTT(30) DEF Backlog, Most
      <4>2. CASE turn[t].pc # "seed"
        <5>1. Backlog \in Int /\ Most \in Int
          BY Numbers DEF Backlog, Most
        <5>2. Backlog <= Most \/ Backlog <= Most + 1 \/ Backlog <= Most + 2
          BY <4>2, <3>2, <1>0, <1>1 DEF Undisturbed, PCs, Running, Ended, BeforeAnswer
        <5> QED
          BY <5>1, <5>2
      <4> QED
        BY <4>1, <4>2
    <3> QED
      BY <3>1, <3>3, <1>1, Numbers, SMTT(30) DEF Backlog, Most
  <2> QED
    BY <2>1, <2>2
<1>7. turn'[t].hidden <= 2 * RecentLimit - 1 + MaxSeed + 2 * broken'
  <2>1. broken' \in Nat
    BY DEF MemoryInv, TypeOK
  <2> QED
    BY <2>1, <1>4, Numbers, SMTT(30)
<1> QED
  BY <1>1, <1>2, <1>4, <1>5, <1>6, <1>7, SerialRuns

(* As long as no two turns overlap, the backlog and the seeds stay in      *)
(* bounds.                                                                 *)
LEMMA SerialStep == MemoryInv /\ MemoryInv' /\ SerialInv /\ [Next]_vars => SerialInv'
<1> SUFFICES ASSUME MemoryInv, MemoryInv', SerialInv, [Next]_vars PROVE SerialInv'
  OBVIOUS
<1>1. CASE UNCHANGED vars
  <2>1. Alone => Alone'
    BY <1>1 DEF vars, Alone, Running, Undisturbed, Backlog, Most, NoQuestion, SeedsFirst, HiddenBounded
  <2> QED
    BY <2>1, <1>1 DEF SerialInv, vars
<1>2. ASSUME NEW t \in Turns, NEW n \in 0..MaxSeed, Begin(t, n) PROVE SerialInv'
  BY <1>2, SerialBegin
<1>4. ASSUME NEW t \in Turns, NEW v \in Turns, Resume(t, v) PROVE SerialInv'
  BY <1>4, SerialResume
<1>3. ASSUME NEW t \in Turns, Step(t) \/ Raise(t) \/ Abandon(t) PROVE SerialInv'
  <2>1. overlapped' = overlapped
    BY <1>3 DEF Step, Check, ContextSummary, ContextRows, SelectNext, Insert, InsertConflict, Complete,
                ReadPrevious, ReadPending, NothingDue, ReadVersion, Save, Raise, Abandon
  <2>2. ASSUME Alone PROVE Alone'
    BY <1>3, <2>2, SerialPrepare, SerialContext, SerialInsert, SerialNoConflict, SerialComplete, SerialEnds DEF Step
  <2> QED
    BY <2>1, <2>2 DEF SerialInv
<1> QED
  BY <1>1, <1>2, <1>3, <1>4 DEF Next

(* A thread without turns is at rest. *)
LEMMA SerialInit == Init => SerialInv
<1> SUFFICES ASSUME Init PROVE Alone
  BY DEF SerialInv
<1>1. Len(messages) = 0 /\ 1..0 = {} /\ summary.through = 0 /\ broken = 0
  BY DEF Init, NoSummary
<1>2. \A t \in Turns : turn[t].pc = "idle" /\ turn[t].next = 0 /\ turn[t].hidden = 0
  BY DEF Init, Unread
<1>3. RecentLimit \in Nat \ {0} /\ MaxSeed \in Nat
  BY ConversationAssumption
<1>4. \A t \in Turns : ~Running(t) /\ Undisturbed(t)
  BY <1>2 DEF Running, Undisturbed, BeforeAnswer
<1>5. Backlog <= Most
  BY <1>1, <1>3 DEF Backlog, Most
<1>6. SeedsFirst
  BY <1>1 DEF SeedsFirst
<1>7. HiddenBounded
  BY <1>1, <1>2, <1>3 DEF HiddenBounded
<1> QED
  BY <1>4, <1>5, <1>6, <1>7 DEF Alone

(* database.py:482-497 and agent_service.py:78-88 for any number of        *)
(* requests: a question is stored once, and a run leaves at most one       *)
(* answer after it for each request that completed it, a card that is      *)
(* answered again included, whichever inserts collide; and as long as no   *)
(* two requests have overlapped, seeds come first and what a turn is not   *)
(* shown stays bounded, however many broke off before they summarised.     *)
THEOREM LogIsKept == Spec => []LogKept
<1>1. MemoryInv /\ LogInv /\ SerialInv => LogKept
  BY LogInvQuestion DEF MemoryInv, SerialInv, Alone, LogKept
<1> QED
  BY <1>1, MemoryInvHolds, LogInvHolds, SerialInit, SerialStep, PTL DEF Spec
==============================================================================
