--------------------------- MODULE WorkflowProofs ---------------------------
(***************************************************************************)
(* Proofs about the two workflows.                                         *)
(*                                                                         *)
(* The graph of an agent's turn (AgentGraph), for every setting of the     *)
(* budgets, every set of skills and tool calls and any number of failures  *)
(* and resumptions: the loops of the graph keep to their budgets, a turn   *)
(* takes a bounded number of supersteps, and no write tool runs without    *)
(* the user's consent.                                                     *)
(*                                                                         *)
(* The engine that drives a run of a workflow (Workflow, as MCWorkflow has *)
(* it), for every set of definitions, every cap and budget and any number  *)
(* of crashes, retries, grants and revisits: what the journal folds to,    *)
(* what the driver and its workers hold and what a daemon remembers agree, *)
(* no worker is off the record and the past is not rewritten.              *)
(***************************************************************************)
EXTENDS AgentGraph, MCWorkflow, SequenceTheorems, FiniteSetTheorems, WellFoundedInduction, TLAPS

(* How many supersteps lie behind a node, apart from the rounds of its     *)
(* loop: of deep research, and of every other intent.                      *)
ResearchDepth ==
    [load_context |-> 0, contextualize_question |-> 1, route_intent |-> 2,
     plan_research |-> 3, research_worker |-> 4, research_reason |-> 5,
     research_act |-> 3, research_critic |-> 4, synthesize_research |-> 5,
     reflect |-> 6, finalize |-> 7, END |-> 8]

PlainDepth ==
    [load_context |-> 0, contextualize_question |-> 1, route_intent |-> 2,
     direct_chat |-> 3, reminder |-> 3, progress |-> 3, update_progress |-> 3, quiz |-> 3,
     draft_plan |-> 3, approve_plan |-> 4, persist_plan |-> 5,
     prepare_query |-> 3, retrieve |-> 4, grade_retrieval |-> 5, decide_evidence |-> 6,
     rewrite_query |-> 7, web_search |-> 7, generate_grounded |-> 8,
     reflect |-> 9, finalize |-> 10, END |-> 11]

Depth ==
    IF intent = "deep_research"
    THEN node \in DOMAIN ResearchDepth /\ supersteps <= ResearchDepth[node] + 3 * iterations
    ELSE node \in DOMAIN PlainDepth /\ supersteps <= PlainDepth[node] + 4 * rewrites

Counters ==
    /\ supersteps \in Nat /\ rewrites \in Nat /\ webCount \in Nat
    /\ iterations \in Nat /\ toolCalls \in Nat /\ Len(pending) \in Nat

(* A loop is entered only while its budget lasts. *)
Ahead ==
    /\ node = "rewrite_query" => rewrites < MaxRewrites
    /\ node = "web_search" => webCount = 0
    /\ node = "research_reason" => iterations < MaxIterations
    /\ node = "research_worker" => iterations = 0
    /\ node \in {"load_context", "contextualize_question", "route_intent"} =>
          intent = "chat" /\ rewrites = 0 /\ iterations = 0
    /\ node = "plan_research" => iterations = 0

LoopInv == Counters /\ WithinBudgets /\ Depth /\ Ahead

(* What is left of a model's batch of calls fits what is left of the       *)
(* budget.                                                                 *)
LEMMA TruncatedFits ==
  ASSUME NEW S, NEW calls \in Seq(S), toolCalls \in Nat
  PROVE  Len(Truncated(calls)) \in Nat /\ Len(Truncated(calls)) <= ToolBudget
<1>1. ToolBudget \in Nat
  BY AgentGraphAssumption DEF ToolBudget
<1> DEFINE n == IF Len(calls) <= ToolBudget THEN Len(calls) ELSE ToolBudget
<1>2. n \in 0..Len(calls) /\ n <= ToolBudget
  BY <1>1
<1>3. Truncated(calls) = SubSeq(calls, 1, n)
  BY DEF Truncated
<1> HIDE DEF n
<1>4. Len(SubSeq(calls, 1, n)) = n
  BY <1>2, SubSeqProperties
<1> QED
  BY <1>2, <1>3, <1>4

(* The two fixed searches are a sequence. *)
LEMMA OfflineCallsSeq == \E S : OfflineCalls \in Seq(S)
<1> DEFINE call(t) == [tool |-> t, arg |-> "topic"]
           S == {call("search_private_knowledge"), call("search_web")}
           search(t) == IF t \in AllowedTools THEN <<call(t)>> ELSE <<>>
<1>1. search("search_private_knowledge") \in Seq(S) /\ search("search_web") \in Seq(S)
  <2> HIDE DEF call
  <2>1. ASSUME NEW T, NEW x \in T PROVE <<x>> \in Seq(T)
    OBVIOUS
  <2>2. call("search_private_knowledge") \in S /\ call("search_web") \in S
    OBVIOUS
  <2>3. <<call("search_private_knowledge")>> \in Seq(S) /\ <<call("search_web")>> \in Seq(S)
    <3> HIDE DEF S
    <3> QED
      BY <2>1, <2>2
  <2>4. <<>> \in Seq(S)
    OBVIOUS
  <2> HIDE DEF S
  <2> QED
    BY <2>3, <2>4
<1>2. OfflineCalls = IF iterations > 0 THEN <<>> ELSE search("search_private_knowledge") \o search("search_web")
  BY DEF OfflineCalls
<1> HIDE DEF search, S
<1>3. search("search_private_knowledge") \o search("search_web") \in Seq(S)
  BY <1>1
<1>4. OfflineCalls \in Seq(S)
  BY <1>2, <1>3
<1> QED
  BY <1>4

(* A batch is a sequence of calls. *)
LEMMA BatchSeq == ASSUME NEW calls \in Batches PROVE calls \in Seq(Calls)
<1>1. PICK n \in 0..MaxBatch : calls \in [1..n -> Calls]
  BY DEF Batches
<1> QED
  BY <1>1, AgentGraphAssumption

(* The input state is within every bound. *)
LEMMA InitLoop == Init => LoopInv
  BY AgentGraphAssumption DEF Init, LoopInv, Counters, WithinBudgets, Depth, Ahead, ResearchDepth, PlainDepth

-----------------------------------------------------------------------------
(* What a step leaves alone: the counters, and the place in the graph. *)
Steady == UNCHANGED <<intent, rewrites, webCount, iterations, toolCalls, pending>>
Resting == Steady /\ UNCHANGED <<node, supersteps>>

Moves(m, n) == node = m /\ node' = n /\ supersteps' = supersteps + 1

(* A step that rests keeps the invariant. *)
LEMMA RestingKeeps == LoopInv /\ Resting => LoopInv'
  BY DEF LoopInv, Resting, Steady, Counters, WithinBudgets, Depth, Ahead

(* Every step keeps the counters and the depth in the graph within bounds. *)
LEMMA LoopStep == LoopInv /\ [Next]_vars => LoopInv'
<1> SUFFICES ASSUME LoopInv, [Next]_vars PROVE LoopInv'
  OBVIOUS
<1> USE AgentGraphAssumption
<1>1. CASE load_context \/ contextualize_question
  <2>1. Steady /\ (\/ Moves("load_context", "contextualize_question")
                   \/ Moves("contextualize_question", "route_intent"))
    BY <1>1 DEF load_context, contextualize_question, At, Go, rag, research, Steady, Moves
  <2>2. CASE Moves("load_context", "contextualize_question")
    BY <2>1, <2>2 DEF Steady, Moves, LoopInv, Counters, WithinBudgets, Depth, Ahead, PlainDepth, ResearchDepth
  <2>3. CASE Moves("contextualize_question", "route_intent")
    BY <2>1, <2>3 DEF Steady, Moves, LoopInv, Counters, WithinBudgets, Depth, Ahead, PlainDepth, ResearchDepth
  <2> QED
    BY <2>1, <2>2, <2>3
<1>2. CASE route_intent
  <2>1. /\ node = "route_intent" /\ supersteps' = supersteps + 1
        /\ intent' \in Intents /\ node' = Destination(intent')
        /\ UNCHANGED <<rewrites, webCount, iterations, toolCalls, pending>>
    BY <1>2 DEF route_intent, At, Go, rag, research, Intents
  <2>2. /\ intent' = "deep_research" => node' = "plan_research"
        /\ intent' # "deep_research" =>
              node' \in {"direct_chat", "prepare_query", "reminder", "draft_plan", "quiz", "progress",
                         "update_progress"}
    BY <2>1 DEF Destination, Intents
  <2>3. /\ intent # "deep_research" /\ supersteps <= 2 /\ supersteps \in Nat
        /\ rewrites = 0 /\ iterations = 0
    BY <2>1 DEF LoopInv, Counters, Depth, Ahead, PlainDepth
  <2>4. Depth'
    BY <2>1, <2>2, <2>3 DEF Depth, ResearchDepth, PlainDepth
  <2>5. Ahead'
    BY <2>1, <2>2, <2>3 DEF Ahead
  <2> QED
    BY <2>1, <2>3, <2>4, <2>5 DEF LoopInv, Counters, WithinBudgets
<1>3. CASE direct_chat \/ reminder \/ progress \/ update_progress \/ quiz
  <2>1. Steady /\ (\/ Moves("direct_chat", "reflect")
                   \/ Moves("reminder", "reflect")
                   \/ Moves("progress", "reflect")
                   \/ Moves("update_progress", "reflect")
                   \/ Moves("quiz", "reflect"))
    BY <1>3 DEF direct_chat, reminder, progress, update_progress, quiz, Drafts, At, Go, rag, research, Steady, Moves
  <2>2. CASE Moves("direct_chat", "reflect")
    BY <2>1, <2>2 DEF Steady, Moves, LoopInv, Counters, WithinBudgets, Depth, Ahead, PlainDepth, ResearchDepth
  <2>3. CASE Moves("reminder", "reflect")
    BY <2>1, <2>3 DEF Steady, Moves, LoopInv, Counters, WithinBudgets, Depth, Ahead, PlainDepth, ResearchDepth
  <2>4. CASE Moves("progress", "reflect")
    BY <2>1, <2>4 DEF Steady, Moves, LoopInv, Counters, WithinBudgets, Depth, Ahead, PlainDepth, ResearchDepth
  <2>5. CASE Moves("update_progress", "reflect")
    BY <2>1, <2>5 DEF Steady, Moves, LoopInv, Counters, WithinBudgets, Depth, Ahead, PlainDepth, ResearchDepth
  <2>6. CASE Moves("quiz", "reflect")
    BY <2>1, <2>6 DEF Steady, Moves, LoopInv, Counters, WithinBudgets, Depth, Ahead, PlainDepth, ResearchDepth
  <2> QED
    BY <2>1, <2>2, <2>3, <2>4, <2>5, <2>6
<1>4. CASE prepare_query \/ retrieve \/ grade_retrieval
  <2>1. Steady /\ (\/ Moves("prepare_query", "retrieve")
                   \/ Moves("retrieve", "grade_retrieval")
                   \/ Moves("grade_retrieval", "decide_evidence"))
    BY <1>4 DEF prepare_query, retrieve, grade_retrieval, At, Go, rag, research, Steady, Moves
  <2>2. CASE Moves("prepare_query", "retrieve")
    BY <2>1, <2>2 DEF Steady, Moves, LoopInv, Counters, WithinBudgets, Depth, Ahead, PlainDepth, ResearchDepth
  <2>3. CASE Moves("retrieve", "grade_retrieval")
    BY <2>1, <2>3 DEF Steady, Moves, LoopInv, Counters, WithinBudgets, Depth, Ahead, PlainDepth, ResearchDepth
  <2>4. CASE Moves("grade_retrieval", "decide_evidence")
    BY <2>1, <2>4 DEF Steady, Moves, LoopInv, Counters, WithinBudgets, Depth, Ahead, PlainDepth, ResearchDepth
  <2> QED
    BY <2>1, <2>2, <2>3, <2>4
<1>5. CASE decide_evidence
  <2>1. /\ Steady /\ supersteps' = supersteps + 1 /\ node = "decide_evidence"
        /\ node' = (CASE EvidenceAction = "web" -> "web_search"
                      [] EvidenceAction = "rewrite" -> "rewrite_query"
                      [] OTHER -> "generate_grounded")
    BY <1>5 DEF decide_evidence, At, Go, rag, research, Steady
  <2>2. Steady
    BY <2>1
  <2>3. \/ Moves("decide_evidence", "web_search") /\ webCount = 0
        \/ Moves("decide_evidence", "rewrite_query") /\ rewrites < MaxRewrites
        \/ Moves("decide_evidence", "generate_grounded")
    BY <2>1 DEF EvidenceAction, WebOpen, Moves
  <2>4. CASE Moves("decide_evidence", "web_search") /\ webCount = 0
    BY <2>2, <2>4 DEF Steady, Moves, LoopInv, Counters, WithinBudgets, Depth, Ahead, PlainDepth, ResearchDepth
  <2>5. CASE Moves("decide_evidence", "rewrite_query") /\ rewrites < MaxRewrites
    BY <2>2, <2>5 DEF Steady, Moves, LoopInv, Counters, WithinBudgets, Depth, Ahead, PlainDepth, ResearchDepth
  <2>6. CASE Moves("decide_evidence", "generate_grounded")
    BY <2>2, <2>6 DEF Steady, Moves, LoopInv, Counters, WithinBudgets, Depth, Ahead, PlainDepth, ResearchDepth
  <2> QED
    BY <2>3, <2>4, <2>5, <2>6
<1>6. CASE rewrite_query
  <2>1. /\ Moves("rewrite_query", "retrieve") /\ rewrites' = rewrites + 1
        /\ UNCHANGED <<intent, webCount, iterations, toolCalls, pending>>
    BY <1>6 DEF rewrite_query, At, Go, research, Moves
  <2> QED
    BY <2>1 DEF Moves, LoopInv, Counters, WithinBudgets, Depth, Ahead, PlainDepth, ResearchDepth
<1>7. CASE web_search
  <2>1. /\ Moves("web_search", "generate_grounded") /\ webCount' = webCount + 1
        /\ UNCHANGED <<intent, rewrites, iterations, toolCalls, pending>>
    BY <1>7 DEF web_search, At, Go, research, Moves
  <2> QED
    BY <2>1 DEF Moves, LoopInv, Counters, WithinBudgets, Depth, Ahead, PlainDepth, ResearchDepth
<1>8. CASE generate_grounded \/ draft_plan \/ approve_plan \/ persist_plan
  <2>1. Steady /\ (\/ Moves("generate_grounded", "reflect")
                   \/ Moves("draft_plan", "approve_plan")
                   \/ Moves("approve_plan", "persist_plan")
                   \/ Moves("persist_plan", "reflect"))
    BY <1>8 DEF generate_grounded, draft_plan, approve_plan, persist_plan, At, Go, rag, research, Steady, Moves
  <2>2. CASE Moves("generate_grounded", "reflect")
    BY <2>1, <2>2 DEF Steady, Moves, LoopInv, Counters, WithinBudgets, Depth, Ahead, PlainDepth, ResearchDepth
  <2>3. CASE Moves("draft_plan", "approve_plan")
    BY <2>1, <2>3 DEF Steady, Moves, LoopInv, Counters, WithinBudgets, Depth, Ahead, PlainDepth, ResearchDepth
  <2>4. CASE Moves("approve_plan", "persist_plan")
    BY <2>1, <2>4 DEF Steady, Moves, LoopInv, Counters, WithinBudgets, Depth, Ahead, PlainDepth, ResearchDepth
  <2>5. CASE Moves("persist_plan", "reflect")
    BY <2>1, <2>5 DEF Steady, Moves, LoopInv, Counters, WithinBudgets, Depth, Ahead, PlainDepth, ResearchDepth
  <2> QED
    BY <2>1, <2>2, <2>3, <2>4, <2>5
<1>9. CASE plan_research
  <2>1. Steady /\ (\/ Moves("plan_research", "END")
                   \/ Moves("plan_research", "research_worker"))
    BY <1>9 DEF plan_research, At, Go, rag, Steady, Moves
  <2>2. CASE Moves("plan_research", "END")
    BY <2>1, <2>2 DEF Steady, Moves, LoopInv, Counters, WithinBudgets, Depth, Ahead, PlainDepth, ResearchDepth
  <2>3. CASE Moves("plan_research", "research_worker")
    BY <2>1, <2>3 DEF Steady, Moves, LoopInv, Counters, WithinBudgets, Depth, Ahead, PlainDepth, ResearchDepth
  <2> QED
    BY <2>1, <2>2, <2>3
<1>10. CASE research_worker
  <2>1. Resting \/ (Steady /\ Moves("research_worker", "research_reason"))
    BY <1>10 DEF research_worker, At, Go, rag, Steady, Resting, Moves
  <2>2. CASE Steady /\ Moves("research_worker", "research_reason")
    BY <2>2 DEF Steady, Moves, LoopInv, Counters, WithinBudgets, Depth, Ahead, PlainDepth, ResearchDepth
  <2> QED
    BY <2>1, <2>2, RestingKeeps
<1>11. CASE research_reason
  <2>1. Len(pending') \in Nat /\ Len(pending') <= ToolBudget
    BY <1>11, TruncatedFits, OfflineCallsSeq, BatchSeq DEF research_reason, LoopInv, Counters
  <2>2. toolCalls + Len(pending') <= MaxToolCalls
    BY <2>1 DEF ToolBudget, LoopInv, Counters, WithinBudgets
  <2>3. /\ node = "research_reason"
        /\ node' \in {"research_act", "synthesize_research"}
        /\ iterations' = iterations + 1
        /\ supersteps' = supersteps + 1
        /\ UNCHANGED <<intent, rewrites, webCount, toolCalls>>
    BY <1>11 DEF research_reason, At, Go, rag
  <2> QED
    BY <2>1, <2>2, <2>3, SMTT(30) DEF LoopInv, Counters, WithinBudgets, Depth, Ahead, PlainDepth, ResearchDepth
<1>12. CASE research_act
  <2>1. /\ node = "research_act" /\ node' = "research_critic"
        /\ toolCalls' = toolCalls + Len(pending)
        /\ Len(pending') = 0
        /\ supersteps' = supersteps + 1
        /\ UNCHANGED <<intent, rewrites, webCount, iterations>>
    BY <1>12 DEF research_act, At, Go, rag
  <2> QED
    BY <2>1 DEF LoopInv, Counters, WithinBudgets, Depth, Ahead, PlainDepth, ResearchDepth
<1>13. CASE research_critic
  BY <1>13 DEF research_critic, Exhausted, At, Go, rag, research, LoopInv, Counters,
              WithinBudgets, Depth, Ahead, PlainDepth, ResearchDepth
<1>14. CASE synthesize_research \/ reflect \/ finalize
  <2>1. Steady /\ (\/ Moves("synthesize_research", "reflect")
                   \/ Moves("reflect", "finalize")
                   \/ Moves("finalize", "END"))
    BY <1>14 DEF synthesize_research, reflect, finalize, At, Go, rag, research, Steady, Moves
  <2>2. CASE Moves("synthesize_research", "reflect")
    BY <2>1, <2>2 DEF Steady, Moves, LoopInv, Counters, WithinBudgets, Depth, Ahead, PlainDepth, ResearchDepth
  <2>3. CASE Moves("reflect", "finalize")
    BY <2>1, <2>3 DEF Steady, Moves, LoopInv, Counters, WithinBudgets, Depth, Ahead, PlainDepth, ResearchDepth
  <2>4. CASE Moves("finalize", "END")
    BY <2>1, <2>4 DEF Steady, Moves, LoopInv, Counters, WithinBudgets, Depth, Ahead, PlainDepth, ResearchDepth
  <2> QED
    BY <2>1, <2>2, <2>3, <2>4
<1>15. CASE AskPlan \/ AskTools \/ ActCall \/ Fail \/ Ended \/ UNCHANGED vars
  <2>1. Resting
    BY <1>15 DEF AskPlan, AskTools, ActCall, Fail, Ended, vars, rag, research, Resting, Steady
  <2> QED
    BY <2>1, RestingKeeps
<1>16. CASE \E answer \in {"approved", "rejected"} : Resume(answer)
  <2>1. Resting
    BY <1>16 DEF Resume, rag, research, Resting, Steady
  <2> QED
    BY <2>1, RestingKeeps
<1> QED
  BY <1>1, <1>2, <1>3, <1>4, <1>5, <1>6, <1>7, <1>8, <1>9, <1>10, <1>11, <1>12, <1>13, <1>14, <1>15, <1>16 DEF Next

(* The counters and the depth in the graph stay within bounds in every     *)
(* behaviour.                                                              *)
LEMMA LoopInvHolds == Spec => []LoopInv
  BY InitLoop, LoopStep, PTL DEF Spec

(* Rewrites, reasoning rounds, tool calls and web searches stay within the *)
(* settings whatever the model replies, and however often a node fails and *)
(* is resumed.                                                             *)
THEOREM BudgetsKept == Spec => []WithinBudgets
<1>1. LoopInv => WithinBudgets
  BY DEF LoopInv
<1> QED
  BY <1>1, LoopInvHolds, PTL

(* A turn ends within a number of supersteps fixed by the settings, which  *)
(* is what the caller has to allow for in recursion_limit.                 *)
THEOREM TurnsBounded == Spec => []SuperstepBound
<1>1. LoopInv => SuperstepBound
  BY AgentGraphAssumption, SMTT(30)
     DEF LoopInv, Counters, WithinBudgets, Depth, SuperstepBound, ResearchDepth, PlainDepth
<1> QED
  BY <1>1, LoopInvHolds, PTL

-----------------------------------------------------------------------------
(* Consent to write tools. The batch is a sequence walked from its start;  *)
(* at research_act an answer exists only for a batch whose writes were     *)
(* shown, and an execution that failed there had its answer.               *)
BatchInv ==
    /\ DOMAIN pending = 1..Len(pending) /\ Len(pending) \in Nat
    /\ act.i \in Nat \ {0}

ConsentInv ==
    node = "research_act" =>
       /\ phase \in {"running", "interrupted", "failed"}
       /\ phase = "failed" => decision # "none" \/ PendingWrites = {}
       /\ phase = "interrupted" \/ decision # "none" => PendingWrites \subseteq shown
       /\ decision = "approved" => PendingWrites \subseteq granted

WriteInv ==
    /\ BatchInv
    /\ ConsentInv
    /\ executed \in [WriteCalls -> Nat]
    /\ WritesApproved

(* What is left of a batch is a sequence. *)
LEMMA TruncatedSeq ==
  ASSUME NEW S, NEW calls \in Seq(S), toolCalls \in Nat
  PROVE  Truncated(calls) \in Seq(S)
<1>1. ToolBudget \in Nat
  BY AgentGraphAssumption DEF ToolBudget
<1> DEFINE n == IF Len(calls) <= ToolBudget THEN Len(calls) ELSE ToolBudget
<1>2. n \in 0..Len(calls)
  BY <1>1
<1>3. Truncated(calls) = SubSeq(calls, 1, n)
  BY DEF Truncated
<1> HIDE DEF n
<1> QED
  BY <1>2, <1>3, SubSeqProperties

(* Nothing is pending, shown or executed in the input state. *)
LEMMA InitWrite == Init => WriteInv
  BY DEF Init, Entry, WriteInv, BatchInv, ConsentInv, WritesApproved, WriteCalls

(* A step that executes no write and arrives anywhere without an answer,   *)
(* or elsewhere than at research_act, keeps the consent.                   *)
LEMMA ArrivingKeeps ==
  ASSUME WriteInv, BatchInv', UNCHANGED <<executed, shown, granted>>,
         node' = "research_act" => decision' = "none" /\ phase' = "running"
  PROVE  WriteInv'
  BY DEF WriteInv, ConsentInv, WritesApproved

(* Every step keeps the consent; the counters' invariant is needed for the *)
(* batch to be cut to a sequence.                                          *)
LEMMA WriteStep == WriteInv /\ LoopInv /\ [Next]_vars => WriteInv'
<1> SUFFICES ASSUME WriteInv, LoopInv, [Next]_vars PROVE WriteInv'
  OBVIOUS
<1> DEFINE Quiet == UNCHANGED <<pending, act, executed, shown, granted>>
           Fresh == decision' = "none" /\ phase' = "running"
<1>0. ASSUME Quiet, Fresh \/ node' # "research_act" PROVE WriteInv'
  <2>1. BatchInv'
    BY <1>0 DEF WriteInv, BatchInv
  <2> QED
    BY <1>0, <2>1, ArrivingKeeps
<1>1. CASE load_context \/ contextualize_question \/ route_intent
  <2>1. Quiet /\ Fresh
    BY <1>1 DEF load_context, contextualize_question, route_intent, At, Go, research, approval
  <2> QED
    BY <1>0, <2>1
<1>2. CASE direct_chat \/ reminder \/ progress \/ update_progress \/ quiz
  <2>1. Quiet /\ Fresh
    BY <1>2 DEF direct_chat, reminder, progress, update_progress, quiz, Drafts, At, Go, research, approval
  <2> QED
    BY <1>0, <2>1
<1>3. CASE prepare_query \/ retrieve \/ grade_retrieval \/ decide_evidence
  <2>1. Quiet /\ Fresh
    BY <1>3 DEF prepare_query, retrieve, grade_retrieval, decide_evidence, At, Go, research, approval
  <2> QED
    BY <1>0, <2>1
<1>4. CASE rewrite_query \/ web_search \/ generate_grounded
  <2>1. Quiet /\ Fresh
    BY <1>4 DEF rewrite_query, web_search, generate_grounded, At, Go, research, approval
  <2> QED
    BY <1>0, <2>1
<1>5. CASE draft_plan \/ approve_plan \/ persist_plan
  <2>1. Quiet /\ Fresh
    BY <1>5 DEF draft_plan, approve_plan, persist_plan, At, Go, research, approval
  <2> QED
    BY <1>0, <2>1
<1>6. CASE plan_research \/ research_critic \/ synthesize_research
  <2>1. Quiet /\ Fresh
    BY <1>6 DEF plan_research, research_critic, synthesize_research, At, Go, research, approval
  <2> QED
    BY <1>0, <2>1
<1>7. CASE research_worker
  <2>1. Quiet /\ (Fresh \/ node' # "research_act")
    BY <1>7 DEF research_worker, At, Go, approval
  <2> QED
    BY <1>0, <2>1
<1>8. CASE reflect \/ finalize
  <2>1. Quiet /\ Fresh
    BY <1>8 DEF reflect, finalize, At, Go, research, approval
  <2> QED
    BY <1>0, <2>1
<1>9. CASE AskPlan
  <2>1. Quiet /\ node' # "research_act"
    BY <1>9 DEF AskPlan, At, research, approval
  <2> QED
    BY <1>0, <2>1
<1>10. CASE research_reason
  <2>1. \E S : pending' \in Seq(S)
    BY <1>10, TruncatedSeq, OfflineCallsSeq, BatchSeq DEF research_reason, LoopInv, Counters
  <2>2. act'.i = 1
    BY <1>10 DEF research_reason, Entry
  <2>3. BatchInv'
    BY <2>1, <2>2 DEF BatchInv
  <2>4. Fresh /\ UNCHANGED <<executed, shown, granted>>
    BY <1>10 DEF research_reason, At, Go, approval
  <2> QED
    BY <2>3, <2>4, ArrivingKeeps
<1>11. CASE research_act
  <2>1. act'.i = 1 /\ pending' = <<>>
    BY <1>11 DEF research_act, Entry
  <2>2. BatchInv'
    BY <2>1 DEF BatchInv
  <2>3. Fresh /\ UNCHANGED <<executed, shown, granted>>
    BY <1>11 DEF research_act, At, Go, approval
  <2> QED
    BY <2>2, <2>3, ArrivingKeeps
<1>12. CASE AskTools
  <2>1. /\ node = "research_act" /\ decision = "none" /\ phase' = "interrupted"
        /\ shown' = shown \cup PendingWrites
        /\ UNCHANGED <<node, decision, pending, act, granted, executed>>
    BY <1>12 DEF AskTools, MustAskTools, At, research
  <2>2. PendingWrites' = PendingWrites
    BY <2>1 DEF PendingWrites
  <2>3. BatchInv'
    BY <2>1 DEF WriteInv, BatchInv
  <2>4. ConsentInv'
    BY <2>1, <2>2 DEF ConsentInv
  <2>5. WritesApproved'
    BY <2>1 DEF WriteInv, WritesApproved
  <2> QED
    BY <2>1, <2>3, <2>4, <2>5 DEF WriteInv
<1>13. CASE ActCall
  <2> DEFINE call == pending[act.i]
             runs == (call.tool \in WriteTools => Allowed) /\ call \notin act.seen
  <2>1. /\ node = "research_act" /\ ~MustAskTools /\ act.i <= Len(pending)
        /\ act'.i = act.i + 1
        /\ UNCHANGED <<node, phase, decision, pending, shown, granted>>
    BY <1>13 DEF ActCall, At
  <2>2. executed' = [c \in WriteCalls |-> IF runs /\ c = call THEN executed[c] + 1 ELSE executed[c]]
    BY <1>13 DEF ActCall
  <2>3. PendingWrites' = PendingWrites
    BY <2>1 DEF PendingWrites
  <2>4. BatchInv'
    BY <2>1 DEF WriteInv, BatchInv
  <2>5. ConsentInv'
    BY <2>1, <2>3 DEF WriteInv, ConsentInv
  <2>6. executed' \in [WriteCalls -> Nat]
    BY <2>2 DEF WriteInv
  <2>7. ASSUME NEW c \in WriteCalls, executed'[c] > 0 PROVE c \in shown /\ c \in granted
    <3>1. CASE runs /\ c = call
      <4>1. c \in PendingWrites
        BY <2>1, <3>1 DEF PendingWrites, WriteInv, BatchInv
      <4>2. decision = "approved"
        BY <3>1, <4>1 DEF Allowed, WriteCalls
      <4> QED
        BY <2>1, <4>1, <4>2 DEF WriteInv, ConsentInv
    <3>2. CASE ~(runs /\ c = call)
      <4> HIDE DEF runs, call
      <4>1. executed'[c] = executed[c]
        BY <2>2, <3>2
      <4> QED
        BY <2>7, <4>1 DEF WriteInv, WritesApproved
    <3> QED
      BY <3>1, <3>2
  <2>8. WritesApproved'
    BY <2>1, <2>7 DEF WritesApproved
  <2> QED
    BY <2>4, <2>5, <2>6, <2>8 DEF WriteInv
<1>14. CASE Fail
  <2>1. /\ ~MustAskTools /\ phase = "running" /\ phase' = "failed"
        /\ UNCHANGED <<node, decision, pending, shown, granted, executed>>
    BY <1>14 DEF Fail, approval
  <2>2. act'.i = 1 \/ act' = act
    BY <1>14 DEF Fail, Entry
  <2>3. PendingWrites' = PendingWrites
    BY <2>1 DEF PendingWrites
  <2>4. BatchInv'
    BY <2>1, <2>2 DEF WriteInv, BatchInv
  <2>5. ConsentInv'
    BY <2>1, <2>3 DEF WriteInv, ConsentInv, MustAskTools
  <2> QED
    BY <2>1, <2>4, <2>5 DEF WriteInv, WritesApproved
<1>15. CASE \E answer \in {"approved", "rejected"} : Resume(answer)
  <2>1. PICK answer \in {"approved", "rejected"} : Resume(answer)
    BY <1>15
  <2>2. /\ phase \in {"interrupted", "failed"} /\ phase' = "running"
        /\ decision' = IF decision = "none" THEN answer ELSE decision
        /\ granted' = IF node = "research_act" /\ decision' = "approved" THEN granted \cup PendingWrites
                      ELSE granted
        /\ UNCHANGED <<node, pending, act, shown, executed>>
    BY <2>1 DEF Resume, research
  <2>3. PendingWrites' = PendingWrites
    BY <2>2 DEF PendingWrites
  <2>4. BatchInv'
    BY <2>2 DEF WriteInv, BatchInv
  <2>5. ConsentInv'
    BY <2>2, <2>3 DEF WriteInv, ConsentInv
  <2>6. WritesApproved'
    BY <2>2 DEF WriteInv, WritesApproved
  <2> QED
    BY <2>2, <2>4, <2>5, <2>6 DEF WriteInv
<1>16. CASE Ended \/ UNCHANGED vars
  <2>1. UNCHANGED <<node, phase, decision, pending, act, shown, granted, executed>>
    BY <1>16 DEF Ended, vars, research, approval
  <2>2. PendingWrites' = PendingWrites
    BY <2>1 DEF PendingWrites
  <2> QED
    BY <2>1, <2>2 DEF WriteInv, BatchInv, ConsentInv, WritesApproved
<1> QED
  BY <1>1, <1>2, <1>3, <1>4, <1>5, <1>6, <1>7, <1>8, <1>9, <1>10, <1>11, <1>12, <1>13, <1>14, <1>15,
     <1>16 DEF Next

(* A write tool of the research loop takes effect only after the user was  *)
(* shown that call and approved it while it was pending, whatever skill    *)
(* grants the tool and however often the node fails and is resumed.        *)
THEOREM WritesOnlyApproved == Spec => []WritesApproved
<1>1. WriteInv => WritesApproved
  BY DEF WriteInv
<1> QED
  BY <1>1, InitWrite, WriteStep, LoopInvHolds, PTL DEF Spec

-----------------------------------------------------------------------------
(* The types of the variables, by the groups the actions keep or change. *)
PlaceType ==
    /\ cfg \in [llm : BOOLEAN, web : BOOLEAN, approval : BOOLEAN, skill : Skills]
    /\ node \in Nodes \cup {"END"}
    /\ phase \in {"running", "interrupted", "failed"}
    /\ decision \in {"none", "approved", "rejected"}
    /\ supersteps \in Nat /\ failures \in Nat

QuestionType == intent \in Intents /\ policy \in Policies

RagType ==
    /\ hits \in 0..MaxSources /\ web \in 0..MaxSources /\ weak \in BOOLEAN
    /\ quality \in {"good", "weak", "empty"}
    /\ rewrites \in Nat /\ webCount \in Nat

Found == [s : 0..MaxSources, w : 0..MaxSources]

ResearchType ==
    /\ tasks \in 0..4
    /\ found \in Found
    /\ iterations \in Nat /\ toolCalls \in Nat
    /\ pending \in Seq(KnownCalls)
    /\ seen \subseteq KnownCalls
    /\ act \in [i : Nat \ {0}, seen : SUBSET KnownCalls, found : Found]

AnswerType == draft \in Answer \cup {Unset} /\ final \in Answer \cup {Unset} /\ fallback \in BOOLEAN

ApprovalType ==
    /\ planApproved \in BOOLEAN /\ saved \in BOOLEAN
    /\ shown \subseteq WriteCalls /\ granted \subseteq WriteCalls
    /\ executed \in [WriteCalls -> Nat]

(* The type invariant by groups of variables, with the count of branches   *)
(* that the last research worker brings to zero.                           *)
TypeInv ==
    /\ PlaceType /\ QuestionType /\ RagType /\ ResearchType /\ AnswerType /\ ApprovalType
    /\ webCalls \in Nat
    /\ node = "research_worker" => tasks > 0

(* The groups together are the type invariant. *)
LEMMA TypeParts == TypeInv => TypeOK
  BY DEF TypeInv, TypeOK, PlaceType, QuestionType, RagType, ResearchType, AnswerType, ApprovalType, Found

(* A checkpoint at a node of the graph. *)
LEMMA GoType ==
    ASSUME PlaceType, NEW n \in Nodes \cup {"END"}, Go(n)
    PROVE  PlaceType'
  BY DEF PlaceType, Go

(* A step that keeps a group of variables keeps its types. *)
LEMMA QuestionSame == QuestionType /\ UNCHANGED <<intent, policy>> => QuestionType'
  BY DEF QuestionType

(* The same for the retrieval variables. *)
LEMMA RagSame == RagType /\ UNCHANGED rag => RagType'
  BY DEF RagType, rag

(* The same for the research variables. *)
LEMMA ResearchSame == ResearchType /\ UNCHANGED research => ResearchType'
  BY DEF ResearchType, research

(* The same for draft and final answer. *)
LEMMA AnswerSame == AnswerType /\ UNCHANGED answers => AnswerType'
  BY DEF AnswerType, answers

(* The same for what was shown, approved and executed. *)
LEMMA ApprovalSame == ApprovalType /\ UNCHANGED approval => ApprovalType'
  BY DEF ApprovalType, approval

(* The list of what was retrieved is an answer. *)
LEMMA ExcerptsType ==
    ASSUME NEW s \in 0..MaxSources, NEW w \in 0..MaxSources
    PROVE  Excerpts(s, w) \subseteq Answer
<1>1. /\ MaxSources \in Nat /\ QuotedMarks.s \subseteq Marks /\ QuotedMarks.w \subseteq Marks \ {0}
  BY AgentGraphAssumption DEF Marks
<1>2. 1..s \subseteq Marks /\ 1..w \subseteq Marks \ {0}
  BY <1>1 DEF Marks
<1>3. \A q \in Quoted(s, w) : q.s \subseteq Marks /\ q.w \subseteq Marks \ {0}
  BY <1>1 DEF Quoted, Blank
<1>4. ASSUME NEW q \in Quoted(s, w)
      PROVE  [s |-> 1..s \cup q.s, w |-> 1..w \cup q.w] \in Answer
  <2>1. 1..s \cup q.s \in SUBSET Marks /\ 1..w \cup q.w \in SUBSET (Marks \ {0})
    BY <1>2, <1>3
  <2> QED
    BY <2>1 DEF Answer
<1> QED
  BY <1>4 DEF Excerpts

(* The refusal is an answer without marks. *)
LEMMA BlankType == Blank \in Answer
  BY DEF Blank, Answer

(* The two fixed searches are known calls. *)
LEMMA OfflineKnown == OfflineCalls \in Seq(KnownCalls)
<1> DEFINE call(t) == [tool |-> t, arg |-> "topic"]
           search(t) == IF t \in AllowedTools THEN <<call(t)>> ELSE <<>>
<1>1. call("search_private_knowledge") \in KnownCalls /\ call("search_web") \in KnownCalls
  BY DEF KnownCalls, ReadTools
<1>2. OfflineCalls = IF iterations > 0 THEN <<>> ELSE search("search_private_knowledge") \o search("search_web")
  BY DEF OfflineCalls
<1> HIDE DEF call
<1>3. \A t \in {"search_private_knowledge", "search_web"} : search(t) \in Seq(KnownCalls)
  BY <1>1
<1> HIDE DEF search
<1>4. search("search_private_knowledge") \in Seq(KnownCalls) /\ search("search_web") \in Seq(KnownCalls)
  BY <1>3
<1> QED
  BY <1>2, <1>4

(* What research_reason leaves pending is a sequence of known calls. *)
LEMMA PendingKnown ==
    ASSUME ResearchType, research_reason
    PROVE  pending' \in Seq(KnownCalls)
<1>1. toolCalls \in Nat
  BY DEF ResearchType
<1>2. CASE pending' = Truncated(OfflineCalls)
  BY <1>1, <1>2, OfflineKnown, TruncatedSeq
<1>3. ASSUME NEW calls \in Batches, pending' = Truncated(calls)
      PROVE  pending' \in Seq(KnownCalls)
  <2>1. calls \in Seq(Calls)
    BY BatchSeq
  <2>2. Truncated(calls) \in Seq(Calls)
    BY <1>1, <2>1, TruncatedSeq
  <2>3. Calls \subseteq KnownCalls
    BY DEF KnownCalls
  <2> QED
    BY <1>3, <2>2, <2>3
<1> QED
  BY <1>2, <1>3 DEF research_reason

-----------------------------------------------------------------------------
(* No node leaves the types. *)
LEMMA GraphTypeStep == TypeInv /\ [Next]_vars => TypeInv'
<1> SUFFICES ASSUME TypeInv, [Next]_vars PROVE TypeInv'
  OBVIOUS
<1>0. /\ PlaceType /\ QuestionType /\ RagType /\ ResearchType /\ AnswerType /\ ApprovalType
      /\ webCalls \in Nat /\ MaxSources \in Nat
  BY AgentGraphAssumption DEF TypeInv
<1> USE DEF Nodes
<1>1. CASE load_context \/ contextualize_question \/ prepare_query \/ draft_plan \/ finalize
  <2>1. /\ PlaceType' /\ node' # "research_worker"
        /\ UNCHANGED <<intent, policy, rag, research, answers, approval, webCalls>>
    BY <1>0, <1>1, GoType DEF load_context, contextualize_question, prepare_query, draft_plan, finalize, Go
  <2> QED
    BY <1>0, <2>1, QuestionSame, RagSame, ResearchSame, AnswerSame, ApprovalSame DEF TypeInv
<1>2. CASE route_intent
  <2>1. intent' \in Intents /\ policy' \in Policies
    <3>1. PICK guess \in Intents, asks \in Policies :
             /\ intent' = IF /\ cfg.skill.workflow
                             /\ guess \in {"chat", "knowledge_qa", "web_search", "deep_research"}
                          THEN "deep_research" ELSE guess
             /\ policy' = RoutedPolicy(intent', asks)
      BY <1>2 DEF route_intent
    <3> QED
      BY <3>1 DEF RoutedPolicy, Policies, Intents
  <2>2. Destination(intent') \in Nodes \cup {"END"} /\ Destination(intent') # "research_worker"
    BY <2>1 DEF Destination, Intents
  <2>3. /\ Go(Destination(intent'))
        /\ UNCHANGED <<rag, research, answers, approval, webCalls>>
    BY <1>2 DEF route_intent
  <2>4. PlaceType' /\ node' # "research_worker"
    BY <1>0, <2>2, <2>3, GoType DEF Go
  <2> QED
    BY <1>0, <2>1, <2>3, <2>4, RagSame, ResearchSame, AnswerSame, ApprovalSame DEF TypeInv, QuestionType
<1>3. CASE direct_chat \/ reminder \/ progress \/ update_progress \/ quiz
  <2>1. PICK n \in {"direct_chat", "reminder", "progress", "update_progress", "quiz"} : Drafts(n)
    BY <1>3 DEF direct_chat, reminder, progress, update_progress, quiz
  <2>2. /\ PlaceType' /\ node' # "research_worker"
        /\ draft' \in Answer /\ UNCHANGED <<final, fallback>>
        /\ UNCHANGED <<intent, policy, rag, research, approval, webCalls>>
    BY <1>0, <2>1, GoType DEF Drafts, Go
  <2> QED
    BY <1>0, <2>2, QuestionSame, RagSame, ResearchSame, ApprovalSame DEF TypeInv, AnswerType
<1>4. CASE retrieve \/ grade_retrieval \/ rewrite_query
  <2>1. /\ PlaceType' /\ node' # "research_worker"
        /\ UNCHANGED <<intent, policy, research, answers, approval, webCalls>>
    BY <1>0, <1>4, GoType DEF retrieve, grade_retrieval, rewrite_query, Go
  <2>2. RagType'
    BY <1>0, <1>4 DEF retrieve, grade_retrieval, rewrite_query, RagType
  <2> QED
    BY <1>0, <2>1, <2>2, QuestionSame, ResearchSame, AnswerSame, ApprovalSame DEF TypeInv
<1>5. CASE decide_evidence
  <2>1. PICK n \in {"web_search", "rewrite_query", "generate_grounded"} : Go(n)
    BY <1>5 DEF decide_evidence, EvidenceAction
  <2>2. /\ PlaceType' /\ node' # "research_worker"
        /\ UNCHANGED <<intent, policy, rag, research, answers, approval, webCalls>>
    BY <1>0, <1>5, <2>1, GoType DEF decide_evidence, Go
  <2> QED
    BY <1>0, <2>2, QuestionSame, RagSame, ResearchSame, AnswerSame, ApprovalSame DEF TypeInv
<1>6. CASE web_search
  <2>1. /\ PlaceType' /\ node' # "research_worker"
        /\ UNCHANGED <<intent, policy, research, answers, approval>>
    BY <1>0, <1>6, GoType DEF web_search, Go
  <2>2. RagType' /\ webCalls' \in Nat
    BY <1>0, <1>6 DEF web_search, RagType
  <2> QED
    BY <1>0, <2>1, <2>2, QuestionSame, ResearchSame, AnswerSame, ApprovalSame DEF TypeInv
<1>7. CASE generate_grounded
  <2>1. draft' \in Answer
    BY <1>0, <1>7, ExcerptsType, BlankType DEF generate_grounded, RagType
  <2>2. /\ PlaceType' /\ node' # "research_worker"
        /\ UNCHANGED <<intent, policy, rag, research, final, fallback, approval, webCalls>>
    BY <1>0, <1>7, GoType DEF generate_grounded, Go
  <2> QED
    BY <1>0, <2>1, <2>2, QuestionSame, RagSame, ResearchSame, ApprovalSame DEF TypeInv, AnswerType
<1>8. CASE approve_plan \/ persist_plan
  <2>1. /\ PlaceType' /\ node' # "research_worker"
        /\ UNCHANGED <<intent, policy, rag, research, final, fallback, shown, granted, executed, webCalls>>
    BY <1>0, <1>8, GoType DEF approve_plan, persist_plan, Go, answers
  <2>2. planApproved' \in BOOLEAN /\ saved' \in BOOLEAN
    BY <1>0, <1>8 DEF approve_plan, persist_plan, ApprovalType
  <2>3. draft' \in Answer \cup {Unset}
    BY <1>0, <1>8 DEF approve_plan, persist_plan, answers, AnswerType
  <2> QED
    BY <1>0, <2>1, <2>2, <2>3, QuestionSame, RagSame, ResearchSame DEF TypeInv, AnswerType, ApprovalType
<1>9. CASE AskPlan
  <2>1. phase' = "interrupted" /\ UNCHANGED <<cfg, node, decision, supersteps, failures>>
    BY <1>9 DEF AskPlan
  <2>2. UNCHANGED <<intent, policy, rag, research, answers, approval, webCalls>>
    BY <1>9 DEF AskPlan
  <2>3. PlaceType' /\ node' # "research_worker"
    BY <1>0, <1>9, <2>1 DEF PlaceType, AskPlan, At
  <2> QED
    BY <1>0, <2>2, <2>3, QuestionSame, RagSame, ResearchSame, AnswerSame, ApprovalSame DEF TypeInv
<1>10. CASE plan_research
  <2>1. tasks' \in 0..4
    BY <1>10 DEF plan_research
  <2>2. PlaceType' /\ (node' = "research_worker" => tasks' > 0)
    <3>1. PICK n \in {"END", "research_worker"} : Go(n) /\ (n = "research_worker" => tasks' # 0)
      BY <1>10 DEF plan_research
    <3> QED
      BY <1>0, <2>1, <3>1, GoType DEF Go
  <2>3. /\ UNCHANGED <<intent, policy, rag, answers, approval, webCalls>>
        /\ UNCHANGED <<found, iterations, toolCalls, pending, seen, act>>
    BY <1>10 DEF plan_research
  <2>4. ResearchType'
    BY <1>0, <2>1, <2>3 DEF ResearchType
  <2> QED
    BY <1>0, <2>2, <2>3, <2>4, QuestionSame, RagSame, AnswerSame, ApprovalSame DEF TypeInv
<1>11. CASE research_worker
  <2>1. tasks \in 1..4 /\ tasks' = tasks - 1
    BY <1>0, <1>11 DEF research_worker, At, TypeInv, ResearchType
  <2>2. found' \in Found
    <3>1. PICK n \in IF "search_private_knowledge" \in AllowedTools THEN found.s..MaxSources ELSE {found.s} :
             found' = [found EXCEPT !.s = n]
      BY <1>11 DEF research_worker
    <3>2. n \in 0..MaxSources
      BY <1>0, <3>1 DEF ResearchType, Found
    <3> QED
      BY <1>0, <3>1, <3>2 DEF ResearchType, Found
  <2>3. /\ UNCHANGED <<intent, policy, rag, answers, approval, webCalls>>
        /\ UNCHANGED <<iterations, toolCalls, pending, seen, act>>
    BY <1>11 DEF research_worker
  <2>4. ResearchType'
    BY <1>0, <2>1, <2>2, <2>3 DEF ResearchType
  <2>5. PlaceType' /\ (node' = "research_worker" => tasks' > 0)
    <3>1. CASE tasks = 1
      BY <1>0, <1>11, <3>1, GoType DEF research_worker, Go
    <3>2. CASE tasks # 1
      BY <1>0, <1>11, <2>1, <3>2 DEF research_worker, PlaceType
    <3> QED
      BY <3>1, <3>2
  <2> QED
    BY <1>0, <2>3, <2>4, <2>5, QuestionSame, RagSame, AnswerSame, ApprovalSame DEF TypeInv
<1>12. CASE research_reason
  <2>1. pending' \in Seq(KnownCalls)
    BY <1>0, <1>12, PendingKnown
  <2>2. /\ UNCHANGED <<intent, policy, rag, answers, approval, webCalls>>
        /\ UNCHANGED <<tasks, found, toolCalls, seen>>
        /\ iterations' = iterations + 1
        /\ act' = [i |-> 1, seen |-> seen, found |-> found]
    BY <1>12 DEF research_reason, Entry
  <2>3. ResearchType'
    BY <1>0, <2>1, <2>2 DEF ResearchType
  <2>4. PlaceType' /\ node' # "research_worker"
    <3>1. PICK n \in {"research_act", "synthesize_research"} : Go(n)
      BY <1>12 DEF research_reason
    <3> QED
      BY <1>0, <3>1, GoType DEF Go
  <2> QED
    BY <1>0, <2>2, <2>3, <2>4, QuestionSame, RagSame, AnswerSame, ApprovalSame DEF TypeInv
<1>13. CASE AskTools
  <2>1. phase' = "interrupted" /\ UNCHANGED <<cfg, node, decision, supersteps, failures>>
    BY <1>13 DEF AskTools
  <2>2. /\ UNCHANGED <<intent, policy, rag, research, answers, webCalls>>
        /\ UNCHANGED <<planApproved, saved, granted, executed>>
        /\ shown' = shown \cup PendingWrites
    BY <1>13 DEF AskTools
  <2>3. PlaceType' /\ node' # "research_worker"
    BY <1>0, <1>13, <2>1 DEF PlaceType, AskTools, At
  <2>4. ApprovalType'
    BY <1>0, <2>2 DEF ApprovalType, PendingWrites
  <2> QED
    BY <1>0, <2>2, <2>3, <2>4, QuestionSame, RagSame, ResearchSame, AnswerSame DEF TypeInv
<1>14. CASE ActCall
  <2> DEFINE call == pending[act.i]
             runs == (call.tool \in WriteTools => Allowed) /\ call \notin act.seen
  <2>1. /\ UNCHANGED <<cfg, node, phase, decision, supersteps, failures>>
        /\ UNCHANGED <<intent, policy, rag, answers, planApproved, saved, shown, granted>>
        /\ UNCHANGED <<tasks, found, iterations, toolCalls, pending, seen>>
        /\ node = "research_act"
    BY <1>14 DEF ActCall, At
  <2>2. act.i \in 1..Len(pending) => call \in KnownCalls
    BY <1>0 DEF ResearchType
  <2>3. PICK sources \in IF runs THEN Observed(call.tool, act.found) ELSE {act.found} :
           act' = [i |-> act.i + 1, seen |-> IF runs THEN act.seen \cup {call} ELSE act.seen,
                   found |-> sources]
    BY <1>14 DEF ActCall
  <2>4. webCalls' \in Nat
    BY <1>0, <1>14 DEF ActCall
  <2>5. executed' = [c \in WriteCalls |-> IF runs /\ c = call THEN executed[c] + 1 ELSE executed[c]]
    BY <1>14 DEF ActCall
  <2>6. sources \in Found
    <3>1. act.found \in Found
      BY <1>0 DEF ResearchType
    <3> HIDE DEF runs, call
    <3>2. CASE sources \in Observed(call.tool, act.found)
      <4>1. sources \in [s : act.found.s..MaxSources, w : act.found.w..MaxSources]
        BY <3>2 DEF Observed
      <4>2. act.found.s \in 0..MaxSources /\ act.found.w \in 0..MaxSources
        BY <3>1 DEF Found
      <4>3. act.found.s..MaxSources \subseteq 0..MaxSources /\ act.found.w..MaxSources \subseteq 0..MaxSources
        BY <1>0, <4>2
      <4> QED
        BY <4>1, <4>3 DEF Found
    <3> QED
      BY <2>3, <3>1, <3>2
  <2>7. call \in KnownCalls
    <3>1. act.i <= Len(pending) /\ act.i \in Nat \ {0} /\ pending \in Seq(KnownCalls)
      BY <1>0, <1>14 DEF ActCall, ResearchType
    <3> QED
      BY <3>1
  <2>8. ResearchType'
    <3> HIDE DEF runs, call
    <3>1. act \in [i : Nat \ {0}, seen : SUBSET KnownCalls, found : Found]
      BY <1>0 DEF ResearchType
    <3>2. act' \in [i : Nat \ {0}, seen : SUBSET KnownCalls, found : Found]
      BY <2>3, <2>6, <2>7, <3>1
    <3> QED
      BY <1>0, <2>1, <3>2 DEF ResearchType
  <2>9. ApprovalType'
    <3> HIDE DEF runs, call
    <3> QED
      BY <1>0, <2>1, <2>5 DEF ApprovalType
  <2>10. PlaceType' /\ node' # "research_worker"
    BY <1>0, <2>1 DEF PlaceType
  <2> QED
    BY <1>0, <2>1, <2>4, <2>8, <2>9, <2>10, QuestionSame, RagSame, AnswerSame DEF TypeInv
<1>15. CASE research_act
  <2>1. /\ UNCHANGED <<intent, policy, rag, answers, approval, webCalls>>
        /\ UNCHANGED <<tasks, iterations>>
        /\ toolCalls' = toolCalls + Len(pending)
        /\ seen' = seen \cup {pending[i] : i \in DOMAIN pending}
        /\ found' = act.found /\ pending' = <<>>
        /\ act' = [i |-> 1, seen |-> {}, found |-> [s |-> 0, w |-> 0]]
    BY <1>15 DEF research_act, Entry
  <2>2. PlaceType' /\ node' # "research_worker"
    BY <1>0, <1>15, GoType DEF research_act, Go
  <2>3. act' \in [i : Nat \ {0}, seen : SUBSET KnownCalls, found : Found] /\ found' \in Found
    BY <1>0, <2>1 DEF ResearchType, Found
  <2>4. seen' \subseteq KnownCalls
    BY <1>0, <2>1 DEF ResearchType
  <2>5. pending' \in Seq(KnownCalls) /\ toolCalls' \in Nat
    BY <1>0, <2>1 DEF ResearchType
  <2>6. ResearchType'
    BY <1>0, <2>1, <2>3, <2>4, <2>5 DEF ResearchType
  <2> QED
    BY <1>0, <2>1, <2>2, <2>6, QuestionSame, RagSame, AnswerSame, ApprovalSame DEF TypeInv
<1>16. CASE research_critic
  <2>1. UNCHANGED <<intent, policy, rag, research, answers, approval, webCalls>>
    BY <1>16 DEF research_critic
  <2>2. PICK n \in {"research_reason", "synthesize_research"} : Go(n)
    BY <1>16 DEF research_critic
  <2>3. PlaceType' /\ node' # "research_worker"
    BY <1>0, <2>2, GoType DEF Go
  <2> QED
    BY <1>0, <2>1, <2>3, QuestionSame, RagSame, ResearchSame, AnswerSame, ApprovalSame DEF TypeInv
<1>17. CASE synthesize_research
  <2>1. hits' = found.s /\ web' = found.w /\ found.s \in 0..MaxSources /\ found.w \in 0..MaxSources
    BY <1>0, <1>17 DEF synthesize_research, ResearchType, Found
  <2>2. draft' \in Answer
    BY <1>17, <2>1, ExcerptsType, BlankType DEF synthesize_research
  <2>3. /\ UNCHANGED <<intent, policy, research, final, fallback, approval, webCalls>>
        /\ UNCHANGED <<weak, quality, rewrites, webCount>>
    BY <1>17 DEF synthesize_research
  <2>4. PlaceType' /\ node' # "research_worker"
    BY <1>0, <1>17, GoType DEF synthesize_research, Go
  <2>5. RagType'
    BY <1>0, <2>1, <2>3 DEF RagType
  <2> QED
    BY <1>0, <2>2, <2>3, <2>4, <2>5, QuestionSame, ResearchSame, ApprovalSame DEF TypeInv, AnswerType
<1>18. CASE reflect
  <2>1. PICK revised \in IF cfg.llm THEN Answer ELSE {draft} :
           /\ fallback' = CitationIssues(revised, hits, web)
           /\ final' \in IF fallback' THEN Excerpts(hits, web) ELSE {revised}
    BY <1>18 DEF reflect
  <2>2. final' \in Answer \cup {Unset} /\ fallback' \in BOOLEAN
    <3>1. fallback' \in BOOLEAN
      BY <2>1 DEF CitationIssues
    <3> QED
      BY <1>0, <2>1, <3>1, ExcerptsType DEF RagType, AnswerType
  <2>3. UNCHANGED <<intent, policy, rag, research, draft, approval, webCalls>>
    BY <1>18 DEF reflect
  <2>4. PlaceType' /\ node' # "research_worker"
    BY <1>0, <1>18, GoType DEF reflect, Go
  <2> QED
    BY <1>0, <2>2, <2>3, <2>4, QuestionSame, RagSame, ResearchSame, ApprovalSame DEF TypeInv, AnswerType
<1>19. CASE Fail
  <2>1. /\ UNCHANGED <<cfg, node, decision, supersteps>> /\ phase' = "failed" /\ failures' = failures + 1
        /\ UNCHANGED <<intent, policy, rag, answers, approval, webCalls>>
        /\ UNCHANGED <<tasks, found, iterations, toolCalls, pending, seen>>
        /\ act' = IF node = "research_act" THEN [i |-> 1, seen |-> seen, found |-> found] ELSE act
    BY <1>19 DEF Fail, Entry
  <2>2. PlaceType'
    BY <1>0, <2>1 DEF PlaceType
  <2>3. ResearchType'
    BY <1>0, <2>1 DEF ResearchType
  <2> QED
    BY <1>0, <2>1, <2>2, <2>3, QuestionSame, RagSame, AnswerSame, ApprovalSame DEF TypeInv
<1>20. CASE \E answer \in {"approved", "rejected"} : Resume(answer)
  <2>1. PICK answer \in {"approved", "rejected"} : Resume(answer)
    BY <1>20
  <2>2. /\ UNCHANGED <<cfg, node, supersteps, failures>> /\ phase' = "running"
        /\ decision' = IF decision = "none" THEN answer ELSE decision
        /\ UNCHANGED <<intent, policy, rag, research, answers, webCalls>>
        /\ UNCHANGED <<planApproved, saved, shown, executed>>
        /\ granted' = granted \cup PendingWrites \/ granted' = granted
    BY <2>1 DEF Resume
  <2>3. PlaceType'
    BY <1>0, <2>2 DEF PlaceType
  <2>4. ApprovalType'
    BY <1>0, <2>2 DEF ApprovalType, PendingWrites
  <2>5. tasks' = tasks
    BY <2>2 DEF research
  <2> QED
    BY <1>0, <2>2, <2>3, <2>4, <2>5, QuestionSame, RagSame, ResearchSame, AnswerSame DEF TypeInv
<1>21. CASE Ended \/ UNCHANGED vars
  <2>1. UNCHANGED vars
    BY <1>21 DEF Ended
  <2>2. PlaceType' /\ UNCHANGED <<intent, policy, rag, research, answers, approval, webCalls>>
    BY <1>0, <2>1 DEF vars, PlaceType
  <2>3. UNCHANGED <<node, tasks>>
    BY <2>1 DEF vars, research
  <2> QED
    BY <1>0, <2>2, <2>3, QuestionSame, RagSame, ResearchSame, AnswerSame, ApprovalSame DEF TypeInv
<1> QED
  BY <1>1, <1>2, <1>3, <1>4, <1>5, <1>6, <1>7, <1>8, <1>9, <1>10, <1>11, <1>12, <1>13, <1>14, <1>15, <1>16,
     <1>17, <1>18, <1>19, <1>20, <1>21 DEF Next

-----------------------------------------------------------------------------
(* The input state has its types. *)
LEMMA InitType == Init => TypeInv
<1> SUFFICES ASSUME Init PROVE TypeInv
  OBVIOUS
<1>1. PlaceType /\ QuestionType /\ AnswerType /\ webCalls \in Nat /\ node # "research_worker"
  BY DEF Init, PlaceType, QuestionType, AnswerType, Nodes, Intents, Policies
<1>2. RagType
  BY AgentGraphAssumption DEF Init, RagType
<1>3. ResearchType
  BY AgentGraphAssumption DEF Init, ResearchType, Entry, Found
<1>4. ApprovalType
  BY DEF Init, ApprovalType
<1> QED
  BY <1>1, <1>2, <1>3, <1>4 DEF TypeInv

-----------------------------------------------------------------------------
(* Why the web was asked. Nothing that the cause depends on changes after  *)
(* the web search, and before it no request was made.                      *)
Cause ==
    \/ policy = "web_required"
    \/ policy = "auto" /\ quality # "good" /\ rewrites = MaxRewrites

AfterEvidence == {"generate_grounded", "reflect", "finalize", "END"}

CauseInv ==
    /\ intent # "deep_research" /\ webCalls > 0 => Cause /\ node \in AfterEvidence
    /\ intent # "deep_research" /\ node = "web_search" => Cause
    /\ node \in {"load_context", "contextualize_question", "route_intent"} => webCalls = 0

(* Every step keeps the cause. *)
LEMMA CauseStep == TypeInv /\ LoopInv /\ CauseInv /\ [Next]_vars => CauseInv'
<1> SUFFICES ASSUME TypeInv, LoopInv, CauseInv, [Next]_vars PROVE CauseInv'
  OBVIOUS
<1>0. /\ intent # "deep_research" => node \in DOMAIN PlainDepth
      /\ rewrites \in Nat /\ rewrites <= MaxRewrites /\ webCalls \in Nat /\ MaxRewrites \in Nat
      /\ policy \in Policies
      /\ node \in {"load_context", "contextualize_question", "route_intent"} => intent # "deep_research"
  BY AgentGraphAssumption DEF LoopInv, Depth, Counters, WithinBudgets, TypeInv, QuestionType, Ahead
<1> USE DEF CauseInv, Cause, AfterEvidence, PlainDepth, rag
<1>1. CASE load_context \/ contextualize_question \/ prepare_query \/ draft_plan \/ finalize
  BY <1>0, <1>1 DEF load_context, contextualize_question, prepare_query, draft_plan, finalize, At, Go
<1>2. CASE route_intent
  <2>1. node = "route_intent" /\ webCalls' = webCalls
    BY <1>2 DEF route_intent, At
  <2>2. node' = Destination(intent') /\ intent' \in Intents
    BY <1>2 DEF route_intent, Go, Intents
  <2>3. node' # "web_search"
    BY <2>2 DEF Destination, Intents
  <2> QED
    BY <2>1, <2>3
<1>3. CASE direct_chat \/ reminder \/ progress \/ update_progress \/ quiz
  BY <1>0, <1>3 DEF direct_chat, reminder, progress, update_progress, quiz, Drafts, At, Go
<1>4. CASE retrieve \/ grade_retrieval \/ rewrite_query
  BY <1>0, <1>4 DEF retrieve, grade_retrieval, rewrite_query, At, Go
<1>5. CASE decide_evidence
  <2>1. node = "decide_evidence" /\ UNCHANGED <<intent, policy, quality, rewrites, webCalls>>
    BY <1>5 DEF decide_evidence, At
  <2>2. node' \in {"web_search", "rewrite_query", "generate_grounded"}
        /\ (node' = "web_search" => EvidenceAction = "web")
    BY <1>5 DEF decide_evidence, Go, EvidenceAction
  <2>3. EvidenceAction = "web" => Cause
    BY <1>0 DEF EvidenceAction, Policies
  <2> QED
    BY <1>0, <2>1, <2>2, <2>3
<1>6. CASE web_search
  BY <1>0, <1>6 DEF web_search, At, Go
<1>7. CASE generate_grounded \/ approve_plan \/ persist_plan
  BY <1>0, <1>7 DEF generate_grounded, approve_plan, persist_plan, At, Go
<1>8. CASE AskPlan \/ AskTools \/ Fail
  BY <1>0, <1>8 DEF AskPlan, AskTools, Fail
<1>9. CASE plan_research \/ research_worker \/ research_reason \/ ActCall \/ research_act \/ research_critic
  <2>1. node \notin DOMAIN PlainDepth
    BY <1>9 DEF plan_research, research_worker, research_reason, ActCall, research_act, research_critic, At
  <2>2. intent = "deep_research" /\ intent' = intent
    BY <1>0, <1>9, <2>1 DEF plan_research, research_worker, research_reason, ActCall, research_act, research_critic
  <2>3. node' \notin {"load_context", "contextualize_question", "route_intent"}
    BY <1>9 DEF plan_research, research_worker, research_reason, ActCall, research_act, research_critic, At, Go
  <2> QED
    BY <2>2, <2>3
<1>10. CASE synthesize_research \/ reflect
  BY <1>0, <1>10 DEF synthesize_research, reflect, At, Go
<1>11. CASE \E answer \in {"approved", "rejected"} : Resume(answer)
  BY <1>0, <1>11 DEF Resume
<1>12. CASE Ended \/ UNCHANGED vars
  BY <1>0, <1>12 DEF Ended, vars
<1> QED
  BY <1>1, <1>2, <1>3, <1>4, <1>5, <1>6, <1>7, <1>8, <1>9, <1>10, <1>11, <1>12 DEF Next

(* Types, budgets and the cause of a web search hold together. *)
LEMMA GraphInvHolds == Spec => [](TypeInv /\ LoopInv /\ CauseInv)
<1>1. Init => CauseInv
  BY DEF Init, CauseInv
<1> QED
  BY <1>1, InitType, InitLoop, GraphTypeStep, LoopStep, CauseStep, PTL DEF Spec

(* A turn's state is well formed, its loops keep to their budgets, and     *)
(* outside deep research no request goes to the web without a cause, and   *)
(* none for a question restricted to private sources.                      *)
THEOREM LoopsBounded == Spec => []LoopBounded
<1>1. TypeInv /\ LoopInv /\ CauseInv => LoopBounded
  BY TypeParts DEF LoopBounded, LoopInv, CauseInv, Cause, WebNeedsCause
<1> QED
  BY <1>1, GraphInvHolds, PTL

-----------------------------------------------------------------------------
(* The answer is fixed by reflect, and what it cites does not change any   *)
(* more.                                                                   *)
CitedInv == FinalCited /\ (final # Unset => node \in {"finalize", "END"})

(* The list of what was retrieved cites every source under its own mark. *)
LEMMA ExcerptsCited ==
    ASSUME NEW s \in Nat, NEW w \in Nat, NEW a \in Excerpts(s, w)
    PROVE  /\ s > 0 => a.s # {}
           /\ w > 0 => a.w # {}
           /\ \E q \in Quoted(s, w) : a.s = 1..s \cup q.s /\ a.w = 1..w \cup q.w
<1>1. PICK q \in Quoted(s, w) : a = [s |-> 1..s \cup q.s, w |-> 1..w \cup q.w]
  BY DEF Excerpts
<1>2. a.s = 1..s \cup q.s /\ a.w = 1..w \cup q.w
  BY <1>1
<1>3. s > 0 => 1 \in 1..s
  OBVIOUS
<1>4. w > 0 => 1 \in 1..w
  OBVIOUS
<1> QED
  BY <1>2, <1>3, <1>4

(* An answer that passes the check cites what was retrieved. *)
LEMMA CheckedCited ==
    ASSUME NEW s \in Nat, NEW w \in Nat, NEW a \in Answer \cup {Unset}, ~CitationIssues(a, s, w)
    PROVE  /\ s > 0 => a.s # {}
           /\ w > 0 => a.w # {}
           /\ a.s \subseteq 1..s
           /\ a.w \subseteq 1..w
<1>1. a.s \subseteq Int /\ a.w \subseteq Int
  BY AgentGraphAssumption DEF Answer, Unset, Marks
<1> QED
  BY <1>1 DEF CitationIssues

(* Every step keeps the citations. *)
LEMMA CitedStep == TypeInv /\ CitedInv /\ [Next]_vars => CitedInv'
<1> SUFFICES ASSUME TypeInv, CitedInv, [Next]_vars PROVE CitedInv'
  OBVIOUS
<1>0. hits \in Nat /\ web \in Nat /\ draft \in Answer \cup {Unset}
  BY AgentGraphAssumption DEF TypeInv, RagType, AnswerType
<1> DEFINE Early == final = Unset /\ UNCHANGED <<final, fallback>>
<1>a. ASSUME Early PROVE CitedInv'
  BY <1>a DEF CitedInv, FinalCited
<1>b. ASSUME node \notin {"finalize", "END"}, UNCHANGED <<final, fallback>> PROVE CitedInv'
  BY <1>a, <1>b DEF CitedInv
<1> USE DEF At, answers
<1>1. CASE load_context \/ contextualize_question \/ prepare_query \/ draft_plan \/ route_intent
  BY <1>b, <1>1 DEF load_context, contextualize_question, prepare_query, draft_plan, route_intent
<1>2. CASE direct_chat \/ reminder \/ progress \/ update_progress \/ quiz
  BY <1>b, <1>2 DEF direct_chat, reminder, progress, update_progress, quiz, Drafts
<1>3. CASE retrieve \/ grade_retrieval \/ rewrite_query \/ decide_evidence \/ web_search \/ generate_grounded
  BY <1>b, <1>3 DEF retrieve, grade_retrieval, rewrite_query, decide_evidence, web_search, generate_grounded
<1>4. CASE approve_plan \/ persist_plan \/ AskPlan \/ plan_research \/ research_worker \/ research_reason
  BY <1>b, <1>4 DEF approve_plan, persist_plan, AskPlan, plan_research, research_worker, research_reason
<1>5. CASE AskTools \/ ActCall \/ research_act \/ research_critic \/ synthesize_research
  BY <1>b, <1>5 DEF AskTools, ActCall, research_act, research_critic, synthesize_research
<1>6. CASE reflect
  <2>1. UNCHANGED <<hits, web>> /\ node' = "finalize"
    BY <1>6 DEF reflect, Go, rag
  <2>2. PICK revised \in IF cfg.llm THEN Answer ELSE {draft} :
           /\ fallback' = CitationIssues(revised, hits, web)
           /\ final' \in IF fallback' THEN Excerpts(hits, web) ELSE {revised}
    BY <1>6 DEF reflect
  <2>3. CASE CitationIssues(revised, hits, web)
    <3>1. fallback' = TRUE /\ final' \in Excerpts(hits, web)
      BY <2>2, <2>3
    <3>2. /\ hits > 0 => final'.s # {}
          /\ web > 0 => final'.w # {}
          /\ \E q \in Quoted(hits, web) : final'.s = 1..hits \cup q.s /\ final'.w = 1..web \cup q.w
      BY <1>0, <3>1, ExcerptsCited
    <3> QED
      BY <2>1, <3>1, <3>2 DEF CitedInv, FinalCited
  <2>4. CASE ~CitationIssues(revised, hits, web)
    <3>1. revised \in Answer \cup {Unset} /\ final' = revised /\ fallback' = FALSE
      BY <1>0, <2>2, <2>4
    <3> QED
      BY <1>0, <2>1, <2>4, <3>1, CheckedCited DEF CitedInv, FinalCited
  <2> QED
    BY <2>3, <2>4
<1>7. CASE finalize
  BY <1>7 DEF finalize, Go, rag, CitedInv, FinalCited
<1>8. CASE Fail
  BY <1>8 DEF Fail, rag, CitedInv, FinalCited
<1>9. CASE \E answer \in {"approved", "rejected"} : Resume(answer)
  BY <1>9 DEF Resume, rag, CitedInv, FinalCited
<1>10. CASE Ended \/ UNCHANGED vars
  BY <1>10 DEF Ended, vars, rag, CitedInv, FinalCited
<1> QED
  BY <1>1, <1>2, <1>3, <1>4, <1>5, <1>6, <1>7, <1>8, <1>9, <1>10 DEF Next

(* What reaches the user cites every kind of source that was retrieved; an *)
(* answer that passed the check numbers no source that was not retrieved;  *)
(* and the list that replaces one that did not pass has every source under *)
(* its own mark and else only marks that stand in the quoted texts.        *)
THEOREM FinalsCited == Spec => []FinalCited
<1>1. Init => CitedInv
  BY DEF Init, CitedInv, FinalCited
<1>2. CitedInv => FinalCited
  BY DEF CitedInv
<1> QED
  BY <1>1, <1>2, CitedStep, GraphInvHolds, PTL DEF Spec

-----------------------------------------------------------------------------
(* The calls whose effect is on record: of the execution of research_act   *)
(* under way, or else of the checkpoint.                                   *)
OnRecord == IF node = "research_act" THEN act.seen ELSE seen

(* A write that is not on record was made only by executions that failed.  *)
RepeatInv ==
    /\ node = "research_act" =>
          /\ seen \subseteq act.seen
          /\ act.seen \subseteq seen \cup {pending[i] : i \in DOMAIN pending}
    /\ \A c \in WriteCalls : executed[c] <= failures + IF c \in OnRecord THEN 1 ELSE 0

(* Every step keeps the record. *)
LEMMA RepeatStep == TypeInv /\ RepeatInv /\ [Next]_vars => RepeatInv'
<1> SUFFICES ASSUME TypeInv, RepeatInv, [Next]_vars PROVE RepeatInv'
  OBVIOUS
<1>0. failures \in Nat /\ executed \in [WriteCalls -> Nat]
  BY DEF TypeInv, PlaceType, ApprovalType
<1>a. ASSUME UNCHANGED <<seen, executed, failures>>, node # "research_act", node' # "research_act"
      PROVE  RepeatInv'
  BY <1>a DEF RepeatInv, OnRecord
<1>b. ASSUME UNCHANGED <<seen, executed, failures, act, node, pending>>
      PROVE  RepeatInv'
  BY <1>b DEF RepeatInv, OnRecord
<1> USE DEF At, research, approval, Go
<1>1. CASE load_context \/ contextualize_question \/ prepare_query \/ draft_plan \/ finalize \/ reflect
  BY <1>a, <1>1 DEF load_context, contextualize_question, prepare_query, draft_plan, finalize, reflect
<1>2. CASE route_intent
  <2>1. node = "route_intent" /\ intent' \in Intents /\ node' = Destination(intent')
        /\ UNCHANGED <<seen, executed, failures>>
    BY <1>2 DEF route_intent, Intents
  <2>2. node' # "research_act"
    BY <2>1 DEF Destination, Intents
  <2> QED
    BY <1>a, <2>1, <2>2
<1>3. CASE direct_chat \/ reminder \/ progress \/ update_progress \/ quiz
  BY <1>a, <1>3 DEF direct_chat, reminder, progress, update_progress, quiz, Drafts
<1>4. CASE retrieve \/ grade_retrieval \/ rewrite_query \/ web_search \/ generate_grounded
  BY <1>a, <1>4 DEF retrieve, grade_retrieval, rewrite_query, web_search, generate_grounded
<1>5. CASE decide_evidence
  <2>1. node' \in {"web_search", "rewrite_query", "generate_grounded"}
    BY <1>5 DEF decide_evidence, EvidenceAction
  <2> QED
    BY <1>a, <1>5, <2>1 DEF decide_evidence
<1>6. CASE approve_plan \/ persist_plan \/ AskPlan
  BY <1>a, <1>6 DEF approve_plan, persist_plan, AskPlan
<1>7. CASE plan_research \/ research_worker \/ research_critic \/ synthesize_research
  BY <1>a, <1>7 DEF plan_research, research_worker, research_critic, synthesize_research
<1>8. CASE research_reason
  <2>1. /\ node = "research_reason" /\ node' \in {"research_act", "synthesize_research"}
        /\ act'.seen = seen
        /\ UNCHANGED <<seen, executed, failures>>
    BY <1>8 DEF research_reason, Entry
  <2> QED
    BY <2>1 DEF RepeatInv, OnRecord
<1>9. CASE AskTools
  BY <1>b, <1>9 DEF AskTools
<1>10. CASE ActCall
  <2> DEFINE call == pending[act.i]
             runs == (call.tool \in WriteTools => Allowed) /\ call \notin act.seen
  <2>1. /\ node = "research_act" /\ act.i \in DOMAIN pending
        /\ UNCHANGED <<node, pending, seen, failures>>
    <3>1. act.i \in Nat \ {0} /\ DOMAIN pending = 1..Len(pending) /\ Len(pending) \in Nat
      BY DEF TypeInv, ResearchType
    <3> QED
      BY <1>10, <3>1 DEF ActCall
  <2>2. act'.seen = IF runs THEN act.seen \cup {call} ELSE act.seen
    BY <1>10 DEF ActCall
  <2>3. executed' = [c \in WriteCalls |-> IF runs /\ c = call THEN executed[c] + 1 ELSE executed[c]]
    BY <1>10 DEF ActCall
  <2>4. call \in {pending[i] : i \in DOMAIN pending}
    BY <2>1
  <2>5. runs => call \notin act.seen
    OBVIOUS
  <2> HIDE DEF runs, call
  <2> QED
    BY <1>0, <2>1, <2>2, <2>3, <2>4, <2>5 DEF RepeatInv, OnRecord
<1>11. CASE research_act
  <2>1. /\ node = "research_act" /\ node' = "research_critic"
        /\ seen' = seen \cup {pending[i] : i \in DOMAIN pending}
        /\ UNCHANGED <<executed, failures>>
    BY <1>11 DEF research_act
  <2> QED
    BY <1>0, <2>1 DEF RepeatInv, OnRecord
<1>12. CASE Fail
  <2>1. /\ UNCHANGED <<node, seen, pending, executed>> /\ failures' = failures + 1
        /\ node = "research_act" => act'.seen = seen
    BY <1>12 DEF Fail, Entry
  <2> QED
    BY <1>0, <2>1 DEF RepeatInv, OnRecord
<1>13. CASE \E answer \in {"approved", "rejected"} : Resume(answer)
  BY <1>b, <1>13 DEF Resume
<1>14. CASE Ended \/ UNCHANGED vars
  BY <1>b, <1>14 DEF Ended, vars
<1> QED
  BY <1>1, <1>2, <1>3, <1>4, <1>5, <1>6, <1>7, <1>8, <1>9, <1>10, <1>11, <1>12, <1>13, <1>14 DEF Next

(* A write call takes effect once in a turn, and once more for every       *)
(* execution that failed: the record of the observations, in the node and  *)
(* in the checkpoint, keeps the model from repeating it.                   *)
THEOREM WritesOnce == Spec => []WritesNotRepeated
<1>1. Init => RepeatInv
  BY DEF Init, RepeatInv, OnRecord
<1>2. TypeInv /\ RepeatInv => WritesNotRepeated
  <2> SUFFICES ASSUME TypeInv, RepeatInv, NEW c \in WriteCalls
               PROVE  executed[c] <= 1 + failures
    BY DEF WritesNotRepeated
  <2>1. executed[c] \in Nat /\ failures \in Nat
    BY DEF TypeInv, PlaceType, ApprovalType
  <2> QED
    BY <2>1 DEF RepeatInv
<1> QED
  BY <1>1, <1>2, RepeatStep, GraphInvHolds, PTL DEF Spec

-----------------------------------------------------------------------------
(***************************************************************************)
(* The engine of workflow runs.                                            *)
(*                                                                         *)
(* FlowInv, the inductive invariant, relates the ledger the journal folds  *)
(* to (`j`) to the workers alive (`proc`), to what the daemon holds in     *)
(* memory (`plan`, `ask`, `click`, `local`) and to where the driver is     *)
(* (`pc`). The events of the journal are edits of one node and of one of   *)
(* its instances (Edit); the lemmas say of each event that it keeps the    *)
(* ledger true and what is settled as it is (Keeps), then of each step     *)
(* that it keeps FlowInv.                                                  *)
(***************************************************************************)

NodeRec == [status : W!NodeStatus, cleared : BOOLEAN, eff : Nat]
InstRec == [st : W!NodeStatus \cup {"superseded"}, max : Nat, res : BOOLEAN, orphans : Nat, why : Nat]
RunStates == {"running", "cancelling", "cancelled", "succeeded", "failed", "blocked"}
Triples == W!Node \X Nat \X Nat

(* The records the journal folds to. *)
Ledger ==
    [run : RunStates, blocked : Nat, node : [W!Node -> NodeRec], inst : [W!Node -> Seq(InstRec)],
     open : SUBSET Triples, edges : SUBSET (W!Node \X Nat \X W!Node \X BOOLEAN),
     resolved : SUBSET (W!Node \X Nat), left : [W!Pair -> Nat], leftRun : Nat]

(* The instance k of node n, and its index. *)
IsInst(s, n, k) == n \in W!Node /\ k \in 1..Len(s.inst[n])

(* k is the index of an instance of n, or of its next one. *)
AtOrNext(s, n, k) == n \in W!Node /\ k \in 1..Len(s.inst[n]) + 1

(* t is s but for node n and its instance k (none if k = 0). *)
Edit(s, t, n, k) ==
    /\ t \in Ledger
    /\ \A m \in W!Node : m # n => t.node[m] = s.node[m] /\ t.inst[m] = s.inst[m]
    /\ Len(t.inst[n]) = IF k <= Len(s.inst[n]) THEN Len(s.inst[n]) ELSE k
    /\ \A l \in 1..Len(s.inst[n]) : l # k => t.inst[n][l] = s.inst[n][l]
    /\ t.edges = s.edges /\ t.left = s.left /\ t.leftRun = s.leftRun

(* The fields of a ledger. *)
LEMMA Fields ==
    ASSUME NEW s \in Ledger
    PROVE  /\ s.run \in RunStates /\ s.blocked \in Nat /\ s.open \in SUBSET Triples
           /\ s.resolved \in SUBSET (W!Node \X Nat)
           /\ \A n \in W!Node : s.node[n] \in NodeRec /\ s.inst[n] \in Seq(InstRec) /\ Len(s.inst[n]) \in Nat
           /\ \A n, k : IsInst(s, n, k) => s.inst[n][k] \in InstRec /\ k \in Nat /\ k # 0
<1>1. \A n \in W!Node : s.node[n] \in NodeRec /\ s.inst[n] \in Seq(InstRec)
  BY DEF Ledger
<1>2. \A n \in W!Node : Len(s.inst[n]) \in Nat
  BY <1>1
<1>3. ASSUME NEW n, NEW k, IsInst(s, n, k) PROVE s.inst[n][k] \in InstRec /\ k \in Nat /\ k # 0
  BY <1>1, <1>3 DEF IsInst
<1> QED BY <1>1, <1>2, <1>3 DEF Ledger

(* What a node and an instance are with another status. *)
LEMMA Restated ==
    ASSUME NEW st \in W!NodeStatus
    PROVE  /\ \A nd \in NodeRec : [nd EXCEPT !.status = st] \in NodeRec
           /\ \A i \in InstRec : [i EXCEPT !.st = st] \in InstRec
BY DEF NodeRec, InstRec

(* s with node n, its instance k and the rest as given. *)
Edited(s, n, k, nd, i, r, b, o, w) ==
    [run |-> r, blocked |-> b, node |-> [s.node EXCEPT ![n] = nd],
     inst |-> [s.inst EXCEPT ![n] = [s.inst[n] EXCEPT ![k] = i]],
     open |-> o, edges |-> s.edges, resolved |-> w, left |-> s.left, leftRun |-> s.leftRun]

(* A ledger is its fields. *)
LEMMA Record ==
    ASSUME NEW s \in Ledger
    PROVE  s = [run |-> s.run, blocked |-> s.blocked, node |-> s.node, inst |-> s.inst, open |-> s.open,
                edges |-> s.edges, resolved |-> s.resolved, left |-> s.left, leftRun |-> s.leftRun]
BY DEF Ledger

(* A ledger with one node and one of its instances replaced. *)
LEMMA EditIs ==
    ASSUME NEW s \in Ledger, NEW n, NEW k, IsInst(s, n, k), NEW nd \in NodeRec, NEW i \in InstRec,
           NEW r \in RunStates, NEW b \in Nat, NEW o \in SUBSET Triples,
           NEW w \in SUBSET (W!Node \X Nat),
           NEW t, t = Edited(s, n, k, nd, i, r, b, o, w)
    PROVE  /\ Edit(s, t, n, k) /\ t.node[n] = nd /\ t.inst[n][k] = i /\ t.run = r /\ t.blocked = b
           /\ t.open = o /\ t.resolved = w
<1>1. s.inst[n] \in Seq(InstRec) /\ s.node \in [W!Node -> NodeRec] /\ s.inst \in [W!Node -> Seq(InstRec)]
  BY DEF Ledger, IsInst
<1>2. [s.inst[n] EXCEPT ![k] = i] \in Seq(InstRec)
  BY <1>1 DEF IsInst
<1>3. t.node = [s.node EXCEPT ![n] = nd] /\ t.inst = [s.inst EXCEPT ![n] = [s.inst[n] EXCEPT ![k] = i]]
  BY DEF Edited
<1>4. /\ t.node \in [W!Node -> NodeRec] /\ t.inst \in [W!Node -> Seq(InstRec)]
      /\ t.node[n] = nd /\ t.inst[n] = [s.inst[n] EXCEPT ![k] = i]
      /\ \A m \in W!Node : m # n => t.node[m] = s.node[m] /\ t.inst[m] = s.inst[m]
  BY <1>1, <1>2, <1>3 DEF IsInst
<1>5. t.run = r /\ t.blocked = b /\ t.open = o /\ t.resolved = w /\ t.left = s.left /\ t.leftRun = s.leftRun /\ t.edges = s.edges
  BY DEF Edited
<1>6. t \in Ledger
  <2>1. s.edges \in SUBSET (W!Node \X Nat \X W!Node \X BOOLEAN) /\ s.left \in [W!Pair -> Nat] /\ s.leftRun \in Nat
    BY DEF Ledger
  <2>2. t = [run |-> t.run, blocked |-> t.blocked, node |-> t.node, inst |-> t.inst, open |-> t.open,
             edges |-> t.edges, resolved |-> t.resolved, left |-> t.left, leftRun |-> t.leftRun]
    BY DEF Edited
  <2> QED BY <1>4, <1>5, <2>1, <2>2 DEF Ledger
<1>7. /\ Len(t.inst[n]) = Len(s.inst[n]) /\ k <= Len(s.inst[n])
      /\ t.inst[n][k] = i /\ \A l \in 1..Len(s.inst[n]) : l # k => t.inst[n][l] = s.inst[n][l]
  BY <1>1, <1>4 DEF IsInst
<1> QED BY <1>4, <1>5, <1>6, <1>7 DEF Edit

(* recordInstance of an instance that is not superseded. *)
LEMMA RecordIs ==
    ASSUME NEW s \in Ledger, NEW n, NEW k, IsInst(s, n, k), NEW st \in W!NodeStatus, s.inst[n][k].st # "superseded",
           NEW t, t = W!RecordInstance(s, n, k, st)
    PROVE  /\ Edit(s, t, n, k)
           /\ t.node[n] = IF s.node[n].eff = k THEN [s.node[n] EXCEPT !.status = st] ELSE s.node[n]
           /\ t.inst[n][k] = [s.inst[n][k] EXCEPT !.st = st] /\ t.run = s.run /\ t.blocked = s.blocked
           /\ t.open = s.open /\ t.resolved = s.resolved
<1> DEFINE nd == IF s.node[n].eff = k THEN [s.node[n] EXCEPT !.status = st] ELSE s.node[n]
           i == [s.inst[n][k] EXCEPT !.st = st]
<1>0. n \in W!Node
  BY DEF IsInst
<1>1. nd \in NodeRec /\ i \in InstRec
  BY <1>0, Fields, Restated
<1>2. t = Edited(s, n, k, nd, i, s.run, s.blocked, s.open, s.resolved)
  BY DEF Edited, W!RecordInstance, Ledger, IsInst, NodeRec
<1>3. s.run \in RunStates /\ s.blocked \in Nat /\ s.open \in SUBSET Triples /\ s.resolved \in SUBSET (W!Node \X Nat)
  BY Fields
<1> HIDE DEF nd, i
<1>4. /\ Edit(s, t, n, k) /\ t.node[n] = nd /\ t.inst[n][k] = i /\ t.run = s.run /\ t.blocked = s.blocked
      /\ t.open = s.open /\ t.resolved = s.resolved
  BY <1>1, <1>2, <1>3, EditIs
<1> QED BY <1>4 DEF nd, i

(* The statuses. *)
LEMMA Statuses ==
    /\ {"pending", "running", "gateWaiting", "done", "failed", "blocked", "skipped", "cancelled"} = W!NodeStatus
    /\ "superseded" \notin W!NodeStatus
    /\ W!Terminal = {"done", "failed", "blocked", "skipped", "cancelled"}
BY DEF W!NodeStatus, W!Terminal, W!Settling

(* A node that may get its next instance. *)
LEMMA GrownIs ==
    ASSUME NEW s \in Ledger, NEW n, NEW k, AtOrNext(s, n, k), NEW g, g = W!Grown(s, n, k)
    PROVE  /\ Edit(s, g, n, k) /\ g.node = s.node /\ IsInst(g, n, k) /\ g.run = s.run /\ g.blocked = s.blocked
           /\ g.open = s.open /\ g.resolved = s.resolved
           /\ g.inst[n][k] = IF k <= Len(s.inst[n]) THEN s.inst[n][k] ELSE W!NewInstance
<1>1. s.inst[n] \in Seq(InstRec) /\ s.inst \in [W!Node -> Seq(InstRec)] /\ n \in W!Node
  BY DEF Ledger, AtOrNext
<1>2. Len(s.inst[n]) \in Nat /\ k \in 1..Len(s.inst[n]) + 1
  BY <1>1 DEF AtOrNext
<1>3. CASE k <= Len(s.inst[n])
  BY <1>2, <1>3, <1>1 DEF W!Grown, Edit, IsInst
<1>4. CASE ~(k <= Len(s.inst[n]))
  <2>1. W!NewInstance \in InstRec
    BY Statuses DEF W!NewInstance, InstRec
  <2>2. k = Len(s.inst[n]) + 1
    BY <1>2, <1>4
  <2> DEFINE q == Append(s.inst[n], W!NewInstance)
  <2>3. q \in Seq(InstRec) /\ Len(q) = k /\ q[k] = W!NewInstance /\ \A l \in 1..Len(s.inst[n]) : q[l] = s.inst[n][l]
    BY <1>1, <1>2, <2>1, <2>2
  <2>4. g = [s EXCEPT !.inst[n] = q]
    BY <1>4 DEF W!Grown
  <2> HIDE DEF q
  <2>5. g.inst = [s.inst EXCEPT ![n] = q]
    BY <2>4 DEF Ledger
  <2>6. g.inst \in [W!Node -> Seq(InstRec)] /\ g.inst[n] = q /\ \A m \in W!Node : m # n => g.inst[m] = s.inst[m]
    BY <1>1, <2>3, <2>5
  <2>7. /\ g.node = s.node /\ g.run = s.run /\ g.blocked = s.blocked /\ g.open = s.open /\ g.resolved = s.resolved
        /\ g.edges = s.edges /\ g.left = s.left /\ g.leftRun = s.leftRun
    BY <2>4 DEF Ledger
  <2>8. g \in Ledger
    BY <2>4, <2>6, <2>7 DEF Ledger
  <2> QED BY <1>1, <1>2, <1>4, <2>2, <2>3, <2>6, <2>7, <2>8 DEF Edit, IsInst
<1> QED BY <1>3, <1>4

(* Two edits of one instance in a row. *)
LEMMA EditTwice ==
    ASSUME NEW s \in Ledger, NEW g, NEW t, NEW n, NEW k, AtOrNext(s, n, k), IsInst(g, n, k), Edit(s, g, n, k), Edit(g, t, n, k)
    PROVE  Edit(s, t, n, k)
<1>1. Len(s.inst[n]) \in Nat /\ Len(g.inst[n]) \in Nat /\ Len(t.inst[n]) \in Nat /\ n \in W!Node /\ k \in Nat
  BY Fields DEF Edit, IsInst, AtOrNext
<1>2. k \in 1..Len(s.inst[n]) + 1 /\ k \in 1..Len(g.inst[n])
  BY DEF IsInst, AtOrNext
<1>3. Len(t.inst[n]) = IF k <= Len(s.inst[n]) THEN Len(s.inst[n]) ELSE k
  BY <1>1, <1>2 DEF Edit
<1>4. ASSUME NEW l \in 1..Len(s.inst[n]), l # k PROVE t.inst[n][l] = s.inst[n][l]
  <2>1. l \in 1..Len(g.inst[n])
    BY <1>1, <1>2 DEF Edit
  <2> QED BY <2>1, <1>4 DEF Edit
<1> QED BY <1>3, <1>4 DEF Edit

(* An edit through the next instance. *)
LEMMA GrownEdit ==
    ASSUME NEW s \in Ledger, NEW n, NEW k, AtOrNext(s, n, k), NEW nd \in NodeRec, NEW i \in InstRec,
           NEW o \in SUBSET Triples,
           NEW t, t = Edited(W!Grown(s, n, k), n, k, nd, i, s.run, s.blocked, o, s.resolved)
    PROVE  /\ Edit(s, t, n, k) /\ IsInst(t, n, k) /\ t.node[n] = nd /\ t.inst[n][k] = i
           /\ t.run = s.run /\ t.blocked = s.blocked /\ t.open = o /\ t.resolved = s.resolved
<1> DEFINE g == W!Grown(s, n, k)
<1>1. Edit(s, g, n, k) /\ IsInst(g, n, k)
  BY GrownIs
<1>2. g \in Ledger /\ s.run \in RunStates /\ s.blocked \in Nat /\ s.resolved \in SUBSET (W!Node \X Nat)
  BY <1>1, Fields DEF Edit
<1>3. /\ Edit(g, t, n, k) /\ t.node[n] = nd /\ t.inst[n][k] = i /\ t.run = s.run /\ t.blocked = s.blocked
      /\ t.open = o /\ t.resolved = s.resolved
  <2> HIDE DEF g
  <2> QED BY <1>1, <1>2, EditIs DEF g
<1> HIDE DEF g
<1>4. Edit(s, t, n, k)
  BY <1>1, <1>3, EditTwice
<1>5. n \in W!Node /\ k \in 1..Len(g.inst[n]) /\ Len(g.inst[n]) \in Nat
  BY <1>1, <1>2, Fields DEF IsInst
<1>6. Len(t.inst[n]) = Len(g.inst[n])
  BY <1>3, <1>5 DEF Edit
<1> QED BY <1>3, <1>4, <1>5, <1>6 DEF IsInst

(* A node taken up in an instance. *)
Taken(nd, st, k) == [nd EXCEPT !.status = st, !.eff = k]

(* What a node is once its instance k has the status st. *)
LEMMA TakenIs ==
    ASSUME NEW nd \in NodeRec, NEW st \in W!NodeStatus, NEW k \in Nat
    PROVE  /\ Taken(nd, st, k) \in NodeRec /\ Taken(nd, st, k).status = st /\ Taken(nd, st, k).eff = k
           /\ Taken(nd, st, k).cleared = nd.cleared
BY DEF NodeRec, Taken

(* The running instance that a dispatch makes. *)
Begun(i, a) == [i EXCEPT !.st = "running", !.max = a, !.res = FALSE]

(* An instance there is, or a new one. *)
Base(s, n, k) == IF k <= Len(s.inst[n]) THEN s.inst[n][k] ELSE W!NewInstance

(* The instance an edit starts from: the present one, or a fresh one. *)
LEMMA BaseIs ==
    ASSUME NEW s \in Ledger, NEW n, NEW k, AtOrNext(s, n, k)
    PROVE  Base(s, n, k) \in InstRec /\ n \in W!Node /\ s.node[n] \in NodeRec /\ k \in Nat /\ k # 0
<1>1. Len(s.inst[n]) \in Nat /\ k \in 1..Len(s.inst[n]) + 1 /\ n \in W!Node
  BY Fields DEF AtOrNext
<1>2. W!NewInstance \in InstRec
  BY Statuses DEF W!NewInstance, InstRec
<1>3. k <= Len(s.inst[n]) => IsInst(s, n, k)
  BY <1>1 DEF IsInst
<1> QED BY <1>1, <1>2, <1>3, Fields DEF Base

(* nodeDispatched. *)
LEMMA DispatchedIs ==
    ASSUME NEW s \in Ledger, NEW n, NEW k, AtOrNext(s, n, k), NEW a \in Nat,
           NEW t, t = W!NodeDispatched(s, n, k, a)
    PROVE  /\ Edit(s, t, n, k) /\ IsInst(t, n, k)
           /\ t.node[n] = Taken(s.node[n], "running", k)
           /\ t.inst[n][k] = Begun(Base(s, n, k), a)
           /\ t.run = s.run /\ t.blocked = s.blocked /\ t.open = s.open \cup {<<n, k, a>>} /\ t.resolved = s.resolved
<1> DEFINE nd == Taken(s.node[n], "running", k)
           i == Begun(Base(s, n, k), a)
           o == s.open \cup {<<n, k, a>>}
           g == W!Grown(s, n, k)
<1>0. Base(s, n, k) \in InstRec /\ n \in W!Node /\ s.node[n] \in NodeRec /\ k \in Nat /\ s.open \in SUBSET Triples
  BY BaseIs, Fields
<1>1. nd \in NodeRec /\ i \in InstRec /\ o \in SUBSET Triples
  <2>1. nd \in NodeRec
    BY <1>0, Statuses, TakenIs
  <2>2. i \in InstRec
    BY <1>0, Statuses DEF InstRec, Begun
  <2>3. <<n, k, a>> \in Triples
    BY <1>0 DEF Triples
  <2> QED BY <1>0, <2>1, <2>2, <2>3
<1>2. /\ g \in Ledger /\ g.node = s.node /\ g.run = s.run /\ g.blocked = s.blocked /\ IsInst(g, n, k)
      /\ g.open = s.open /\ g.resolved = s.resolved /\ g.inst[n][k] = Base(s, n, k)
  BY GrownIs DEF Base, Edit
<1>3. t = Edited(g, n, k, nd, i, s.run, s.blocked, o, s.resolved)
  <2> HIDE DEF g
  <2>1. t = [g EXCEPT !.inst[n][k] = i, !.node[n] = nd, !.open = o]
    BY <1>2 DEF W!NodeDispatched, g, Begun, Taken
  <2> HIDE DEF nd, i, o
  <2>2. g = [run |-> g.run, blocked |-> g.blocked, node |-> g.node, inst |-> g.inst, open |-> g.open,
             edges |-> g.edges, resolved |-> g.resolved, left |-> g.left, leftRun |-> g.leftRun]
    BY <1>2, Record
  <2>3. t = [run |-> g.run, blocked |-> g.blocked, node |-> [g.node EXCEPT ![n] = nd],
             inst |-> [g.inst EXCEPT ![n] = [g.inst[n] EXCEPT ![k] = i]], open |-> o,
             edges |-> g.edges, resolved |-> g.resolved, left |-> g.left, leftRun |-> g.leftRun]
    BY <2>1, <2>2
  <2> QED BY <1>2, <2>3 DEF Edited
<1> HIDE DEF nd, i, o, g
<1>4. /\ Edit(s, t, n, k) /\ IsInst(t, n, k) /\ t.node[n] = nd /\ t.inst[n][k] = i
      /\ t.run = s.run /\ t.blocked = s.blocked /\ t.open = o /\ t.resolved = s.resolved
  <2>1. t = Edited(W!Grown(s, n, k), n, k, nd, i, s.run, s.blocked, o, s.resolved)
    BY ONLY <1>3 DEF g
  <2>2. s \in Ledger /\ AtOrNext(s, n, k) /\ nd \in NodeRec /\ i \in InstRec /\ o \in SUBSET Triples
    BY <1>1
  <2> QED BY ONLY <2>1, <2>2, GrownEdit
<1>5. t.node[n] = Taken(s.node[n], "running", k)
  BY ONLY <1>4 DEF nd
<1>6. t.inst[n][k] = Begun(Base(s, n, k), a)
  BY ONLY <1>4 DEF i
<1>7. t.open = s.open \cup {<<n, k, a>>}
  BY ONLY <1>4 DEF o
<1> QED BY ONLY <1>4, <1>5, <1>6, <1>7

(* A ledger with one instance and the set of open attempts replaced, or with  *)
(* other fields than nodes and instances.                                     *)
WithInst(s, n, k, i, o) == [s EXCEPT !.inst[n][k] = i, !.open = o]
WithRest(s, r, b, o, w) == [s EXCEPT !.run = r, !.blocked = b, !.open = o, !.resolved = w]

(* The ledger after an edit of one instance and of the open attempts. *)
LEMMA InstIs ==
    ASSUME NEW s \in Ledger, NEW n, NEW k, IsInst(s, n, k), NEW i \in InstRec, NEW o \in SUBSET Triples,
           NEW t, t = WithInst(s, n, k, i, o)
    PROVE  /\ Edit(s, t, n, k) /\ t.node[n] = s.node[n] /\ t.inst[n][k] = i /\ t.run = s.run
           /\ t.blocked = s.blocked /\ t.open = o /\ t.resolved = s.resolved
<1>1. s.run \in RunStates /\ s.blocked \in Nat /\ s.resolved \in SUBSET (W!Node \X Nat) /\ s.node[n] \in NodeRec
  BY Fields DEF IsInst
<1>2. s.node = [s.node EXCEPT ![n] = s.node[n]]
  BY DEF IsInst, Ledger
<1>3. s = [run |-> s.run, blocked |-> s.blocked, node |-> s.node, inst |-> s.inst, open |-> s.open,
             edges |-> s.edges, resolved |-> s.resolved, left |-> s.left, leftRun |-> s.leftRun]
  BY Record
<1>4. t = [run |-> s.run, blocked |-> s.blocked, node |-> s.node,
             inst |-> [s.inst EXCEPT ![n] = [s.inst[n] EXCEPT ![k] = i]], open |-> o,
             edges |-> s.edges, resolved |-> s.resolved, left |-> s.left, leftRun |-> s.leftRun]
  BY <1>3 DEF WithInst
<1>5. t = Edited(s, n, k, s.node[n], i, s.run, s.blocked, o, s.resolved)
  BY <1>2, <1>4 DEF Edited
<1> QED BY <1>1, <1>5, EditIs

(* A ledger with other fields than nodes and instances replaced. *)
LEMMA RestIs ==
    ASSUME NEW s \in Ledger, NEW r \in RunStates, NEW b \in Nat, NEW o \in SUBSET Triples,
           NEW w \in SUBSET (W!Node \X Nat),
           NEW t, t = WithRest(s, r, b, o, w)
    PROVE  /\ t \in Ledger /\ t.node = s.node /\ t.inst = s.inst /\ t.run = r /\ t.blocked = b
           /\ t.open = o /\ t.resolved = w
           /\ t.edges = s.edges /\ t.left = s.left /\ t.leftRun = s.leftRun
BY DEF Ledger, WithRest

(* Then no instance is edited. *)
LEMMA Unedited ==
    ASSUME NEW s \in Ledger, NEW t \in Ledger, t.node = s.node, t.inst = s.inst,
           t.edges = s.edges, t.left = s.left, t.leftRun = s.leftRun
    PROVE  \A n, k : IsInst(s, n, k) => Edit(s, t, n, k)
<1>2. ASSUME NEW n, NEW k, IsInst(s, n, k) PROVE k <= Len(s.inst[n])
  BY <1>2, Fields DEF IsInst
<1> QED BY <1>2 DEF Edit

(* An instance to which a verdict still applies. *)
Applies(s, a) == ~W!Cut(s) /\ s.inst[a[1]][a[2]].st \notin {"cancelled", "superseded"}

(* An instance with a verdict. *)
Judged(i, st, why) == [i EXCEPT !.st = st, !.why = why]

(* What an instance is once it has a status and the node that judged it. *)
LEMMA JudgedIs ==
    ASSUME NEW i \in InstRec, NEW st \in W!NodeStatus \cup {"superseded"}, NEW why \in Nat
    PROVE  /\ Judged(i, st, why) \in InstRec
           /\ Judged(i, st, why).st = st /\ Judged(i, st, why).why = why /\ Judged(i, st, why).max = i.max
           /\ Judged(i, st, why).res = i.res /\ Judged(i, st, why).orphans = i.orphans
BY DEF InstRec, Judged

(* To note who judged an instance leaves its status. *)
LEMMA OnlyWhy ==
    ASSUME NEW i \in InstRec, NEW why \in Nat
    PROVE  [i EXCEPT !.why = why] = Judged(i, i.st, why)
BY DEF InstRec, Judged

(* nodeSucceeded, nodeFailed, nodeBlocked. *)
LEMMA SettledIs ==
    ASSUME NEW s \in Ledger, NEW a \in Triples, IsInst(s, a[1], a[2]), NEW st \in W!NodeStatus, NEW why \in Nat,
           NEW t, t = W!Settled(s, a, st, why)
    PROVE  /\ Edit(s, t, a[1], a[2]) /\ t.run = s.run /\ t.blocked = s.blocked /\ t.resolved = s.resolved
           /\ t.open = s.open \ {a}
           /\ t.node[a[1]] = IF Applies(s, a) /\ s.node[a[1]].eff = a[2]
                             THEN [s.node[a[1]] EXCEPT !.status = st] ELSE s.node[a[1]]
           /\ LET i == s.inst[a[1]][a[2]] IN
              t.inst[a[1]][a[2]] = IF Applies(s, a) THEN Judged(i, st, why)
                                   ELSE IF W!Cut(s) \/ i.st = "cancelled" THEN i ELSE Judged(i, i.st, why)
<1> DEFINE n == a[1]
           k == a[2]
           i == s.inst[n][k]
           u == W!RecordInstance(s, n, k, st)
           o == s.open \ {a}
<1>0. i \in InstRec /\ s.open \in SUBSET Triples /\ o \in SUBSET Triples /\ s.node[n] \in NodeRec
  BY Fields DEF IsInst
<1> HIDE DEF o
<1>1. CASE W!Cut(s) \/ i.st = "cancelled"
  <2>1. t = [s EXCEPT !.open = o]
    BY <1>1 DEF W!Settled, o
  <2>2. t = WithRest(s, s.run, s.blocked, o, s.resolved)
    BY <2>1 DEF Ledger, WithRest
  <2>3. s.run \in RunStates /\ s.blocked \in Nat /\ s.resolved \in SUBSET (W!Node \X Nat)
    BY Fields
  <2>4. Edit(s, t, n, k) /\ t.run = s.run /\ t.blocked = s.blocked /\ t.resolved = s.resolved /\ t.open = o
        /\ t.node = s.node /\ t.inst = s.inst
    <3>1. /\ t \in Ledger /\ t.run = s.run /\ t.blocked = s.blocked /\ t.resolved = s.resolved /\ t.open = o
          /\ t.node = s.node /\ t.inst = s.inst /\ t.edges = s.edges /\ t.left = s.left /\ t.leftRun = s.leftRun
      BY <2>2, <2>3, <1>0, RestIs
    <3> QED BY <3>1, Unedited
  <2> QED BY <1>1, <2>4 DEF Applies, o
<1>2. CASE ~(W!Cut(s) \/ i.st = "cancelled") /\ i.st = "superseded"
  <2>1. t = WithInst(s, n, k, [i EXCEPT !.why = why], o)
    BY <1>2 DEF WithInst, W!Settled, W!RecordInstance, o, Ledger
  <2> DEFINE f == [i EXCEPT !.why = why]
  <2>2. f \in InstRec /\ t = WithInst(s, n, k, f, o)
    BY <1>0, <2>1 DEF InstRec
  <2> HIDE DEF f, i
  <2>3. /\ Edit(s, t, n, k) /\ t.node[n] = s.node[n] /\ t.inst[n][k] = f /\ t.run = s.run
        /\ t.blocked = s.blocked /\ t.open = o /\ t.resolved = s.resolved
    BY ONLY <2>2, <1>0, s \in Ledger, IsInst(s, n, k), InstIs
  <2> USE DEF i
  <2>4. f = Judged(i, i.st, why)
    <3> HIDE DEF i
    <3> QED BY <1>0, OnlyWhy DEF f
  <2> QED BY <1>2, <2>3, <2>4 DEF Applies, o
<1>3. CASE ~(W!Cut(s) \/ i.st = "cancelled") /\ i.st # "superseded"
  <2>1. /\ Edit(s, u, n, k)
        /\ u.node[n] = IF s.node[n].eff = k THEN [s.node[n] EXCEPT !.status = st] ELSE s.node[n]
        /\ u.inst[n][k] = [i EXCEPT !.st = st] /\ u.run = s.run /\ u.blocked = s.blocked
        /\ u.open = s.open /\ u.resolved = s.resolved
    <3> HIDE DEF i
    <3> QED BY <1>3, RecordIs DEF i
  <2> DEFINE f == Judged(i, st, why)
  <2> HIDE DEF u
  <2>2. u \in Ledger /\ IsInst(u, n, k) /\ AtOrNext(s, n, k)
    BY <2>1, Fields DEF Edit, IsInst, AtOrNext
  <2>3. f \in InstRec /\ f = [u.inst[n][k] EXCEPT !.why = why]
    BY <1>0, <2>1 DEF InstRec, Judged
  <2>4. t = WithInst(u, n, k, f, o)
    <3>1. t = [u EXCEPT !.inst[n][k].why = why, !.open = @ \ {a}]
      BY <1>3 DEF W!Settled, u
    <3>2. u.open \ {a} = o
      BY ONLY <2>1 DEF o
    <3>3. t = [u EXCEPT !.inst[n][k] = [@ EXCEPT !.why = why], !.open = o]
      BY ONLY <3>1, <3>2, <2>2 DEF Ledger
    <3> HIDE DEF f, i, o
    <3> QED BY ONLY <3>3, <2>2, <2>3 DEF WithInst, Ledger
  <2> HIDE DEF f, i
  <2>5. /\ Edit(u, t, n, k) /\ t.node[n] = u.node[n] /\ t.inst[n][k] = f /\ t.run = u.run
        /\ t.blocked = u.blocked /\ t.open = o /\ t.resolved = u.resolved
    <3>1. u \in Ledger /\ IsInst(u, n, k) /\ f \in InstRec /\ o \in SUBSET Triples /\ t = WithInst(u, n, k, f, o)
      BY <2>2, <2>3, <2>4, <1>0
    <3> QED BY ONLY <3>1, InstIs
  <2>6. Edit(s, t, n, k)
    <3>1. Edit(s, u, n, k) /\ Edit(u, t, n, k)
      BY <2>1, <2>5
    <3> QED BY <2>2, <3>1, EditTwice
  <2> USE DEF i
  <2> QED BY <1>3, <2>1, <2>5, <2>6 DEF Applies, o, f
<1> QED BY <1>1, <1>2, <1>3

(* attemptDrained gives the instance back to the scheduler. *)
Requeues(s, a) ==
    /\ s.run \in {"running", "blocked"}
    /\ s.inst[a[1]][a[2]].max = a[3] /\ s.inst[a[1]][a[2]].st = "running"

(* An instance whose attempt was drained. *)
Returned(i, st, h) == [i EXCEPT !.st = st, !.orphans = h]

(* What an instance is once its attempt has come back as an orphan. *)
LEMMA ReturnedIs ==
    ASSUME NEW i \in InstRec, NEW st \in W!NodeStatus \cup {"superseded"}, NEW h \in Nat
    PROVE  /\ Returned(i, st, h) \in InstRec
           /\ Returned(i, st, h).st = st /\ Returned(i, st, h).orphans = h /\ Returned(i, st, h).max = i.max
           /\ Returned(i, st, h).res = i.res /\ Returned(i, st, h).why = i.why
BY DEF InstRec, Returned

(* The ledger after the close proof of an attempt: it is not open, and the *)
(* node waits again if it worked on it.                                    *)
LEMMA DrainedIs ==
    ASSUME NEW s \in Ledger, NEW a \in Triples, IsInst(s, a[1], a[2]), NEW orphan \in BOOLEAN,
           NEW t, t = W!Drained(s, a, orphan)
    PROVE  /\ Edit(s, t, a[1], a[2]) /\ t.run = s.run /\ t.blocked = s.blocked /\ t.resolved = s.resolved
           /\ t.open = s.open \ {a}
           /\ t.node[a[1]] = IF Requeues(s, a) /\ s.node[a[1]].eff = a[2]
                             THEN [s.node[a[1]] EXCEPT !.status = "pending"] ELSE s.node[a[1]]
           /\ LET i == s.inst[a[1]][a[2]] IN
              t.inst[a[1]][a[2]] = Returned(i, IF Requeues(s, a) THEN "pending" ELSE i.st,
                                            IF orphan THEN i.orphans + 1 ELSE i.orphans)
<1> DEFINE n == a[1]
           k == a[2]
           i == s.inst[n][k]
           st == IF Requeues(s, a) THEN "pending" ELSE i.st
           h == IF orphan THEN i.orphans + 1 ELSE i.orphans
           f == Returned(i, st, h)
           u == IF Requeues(s, a) THEN W!RecordInstance(s, n, k, "pending") ELSE s
           o == s.open \ {a}
<1>0. i \in InstRec /\ s.open \in SUBSET Triples /\ o \in SUBSET Triples /\ s.node[n] \in NodeRec
  BY Fields DEF IsInst
<1>1. f \in InstRec
  <2>1. "pending" \in W!NodeStatus
    BY Statuses
  <2>2. st \in W!NodeStatus \cup {"superseded"} /\ h \in Nat
    <3> HIDE DEF i
    <3> QED BY <1>0, <2>1 DEF InstRec
  <2> HIDE DEF i, st, h
  <2> QED BY <1>0, <2>2, ReturnedIs
<1>2. /\ u \in Ledger /\ Edit(s, u, n, k) /\ u.run = s.run /\ u.blocked = s.blocked
      /\ u.open = s.open /\ u.resolved = s.resolved
      /\ u.node[n] = IF Requeues(s, a) /\ s.node[n].eff = k
                     THEN [s.node[n] EXCEPT !.status = "pending"] ELSE s.node[n]
      /\ u.inst[n][k] = [i EXCEPT !.st = st]
  <2>1. CASE Requeues(s, a)
    <3>1. i.st # "superseded" /\ "pending" \in W!NodeStatus
      BY <2>1, Statuses DEF Requeues
    <3>2. u = W!RecordInstance(s, n, k, "pending") /\ st = "pending"
      BY <2>1
    <3> HIDE DEF u, st
    <3>3. /\ Edit(s, u, n, k)
          /\ u.node[n] = IF s.node[n].eff = k THEN [s.node[n] EXCEPT !.status = "pending"] ELSE s.node[n]
          /\ u.inst[n][k] = [s.inst[n][k] EXCEPT !.st = "pending"] /\ u.run = s.run /\ u.blocked = s.blocked
          /\ u.open = s.open /\ u.resolved = s.resolved
      BY <3>1, <3>2, RecordIs
    <3> QED BY <2>1, <3>2, <3>3 DEF Edit
  <2>2. CASE ~Requeues(s, a)
    <3>1. u = s /\ st = i.st /\ Edit(s, s, n, k)
      BY <2>2, Unedited
    <3>2. [i EXCEPT !.st = i.st] = i
      <4> HIDE DEF i
      <4> QED BY <1>0 DEF InstRec
    <3> QED BY <2>2, <3>1, <3>2
  <2> QED BY <2>1, <2>2
<1>3. t = WithInst(u, n, k, f, o)
  <2>1. t = [u EXCEPT !.open = @ \ {a}, !.inst[n][k].orphans = IF orphan THEN @ + 1 ELSE @]
    BY DEF W!Drained, Requeues
  <2> HIDE DEF u
  <2>2. IsInst(u, n, k) /\ u.inst[n][k].orphans = i.orphans
    <3> HIDE DEF i
    <3> QED BY <1>0, <1>2, Fields DEF IsInst, Edit, InstRec
  <2>3. f = [u.inst[n][k] EXCEPT !.orphans = h]
    <3> HIDE DEF i
    <3> QED BY <1>0, <1>2 DEF InstRec, Returned
  <2>4. u = [run |-> u.run, blocked |-> u.blocked, node |-> u.node, inst |-> u.inst, open |-> u.open,
             edges |-> u.edges, resolved |-> u.resolved, left |-> u.left, leftRun |-> u.leftRun]
    BY <1>2, Record
  <2>5. t = [run |-> u.run, blocked |-> u.blocked, node |-> u.node,
             inst |-> [u.inst EXCEPT ![n] = [u.inst[n] EXCEPT ![k] = [u.inst[n][k] EXCEPT !.orphans = h]]],
             open |-> u.open \ {a}, edges |-> u.edges, resolved |-> u.resolved, left |-> u.left, leftRun |-> u.leftRun]
    <3>1. t = [u EXCEPT !.open = @ \ {a}, !.inst[n][k].orphans = h]
      BY <2>1, <2>2
    <3> HIDE DEF i, h
    <3> QED BY <3>1, <2>4
  <2>6. ASSUME NEW v, v = WithInst(u, n, k, f, o)
        PROVE  v = [run |-> u.run, blocked |-> u.blocked, node |-> u.node,
                    inst |-> [u.inst EXCEPT ![n] = [u.inst[n] EXCEPT ![k] = f]],
                    open |-> o, edges |-> u.edges, resolved |-> u.resolved, left |-> u.left, leftRun |-> u.leftRun]
    <3> HIDE DEF f, o, i
    <3> QED BY <2>4, <2>6 DEF WithInst
  <2>7. o = u.open \ {a}
    BY <1>2
  <2> HIDE DEF f, h, o
  <2> QED BY <2>3, <2>5, <2>6, <2>7
<1> HIDE DEF u, f, o
<1>4. IsInst(u, n, k) /\ AtOrNext(s, n, k)
  BY <1>2, Fields DEF Edit, IsInst, AtOrNext
<1>5. /\ Edit(u, t, n, k) /\ t.node[n] = u.node[n] /\ t.inst[n][k] = f /\ t.run = u.run
      /\ t.blocked = u.blocked /\ t.open = o /\ t.resolved = u.resolved
  BY <1>0, <1>1, <1>2, <1>3, <1>4, InstIs
<1>6. Edit(s, t, n, k)
  BY <1>2, <1>4, <1>5, EditTwice
<1> QED BY <1>2, <1>5, <1>6 DEF f, o

(* nodeRetryRequested, of a node with an instance. *)
LEMMA RetriedIs ==
    ASSUME NEW s \in Ledger, NEW n, IsInst(s, n, s.node[n].eff), ~W!Cut(s),
           NEW t, t = W!RetryRequested(s, n)
    PROVE  LET k == s.node[n].eff IN
           /\ Edit(s, t, n, k) /\ t.open = s.open /\ t.resolved = s.resolved
           /\ t.run = (IF s.run = "blocked" THEN "running" ELSE s.run)
           /\ t.blocked = (IF s.run = "blocked" THEN 0 ELSE s.blocked)
           /\ t.node[n] = [s.node[n] EXCEPT !.status = "pending"]
           /\ t.inst[n][k] = W!Reserved(s.inst[n][k])
<1> DEFINE k == s.node[n].eff
           nd == [s.node[n] EXCEPT !.status = "pending"]
           i == W!Reserved(s.inst[n][k])
           r == IF s.run = "blocked" THEN "running" ELSE s.run
           b == IF s.run = "blocked" THEN 0 ELSE s.blocked
<1>1. s.inst[n][k] \in InstRec /\ s.node[n] \in NodeRec /\ "pending" \in W!NodeStatus
      /\ s.open \in SUBSET Triples /\ s.resolved \in SUBSET (W!Node \X Nat) /\ s.run \in RunStates /\ s.blocked \in Nat
  BY Fields, Statuses DEF IsInst
<1>2. nd \in NodeRec /\ i \in InstRec
  <2>1. nd \in NodeRec
    BY <1>1, Restated
  <2>2. ASSUME NEW m \in InstRec PROVE W!Reserved(m) \in InstRec
    <3>1. m.max + 1 \in Nat
      BY <2>2 DEF InstRec
    <3> DEFINE x == m.max + 1
    <3>2. [m EXCEPT !.st = "pending", !.max = x, !.res = TRUE] \in InstRec
      <4> HIDE DEF x
      <4> QED BY <1>1, <2>2, <3>1 DEF InstRec, x
    <3> QED BY <3>2 DEF W!Reserved
  <2> QED BY <1>1, <2>1, <2>2
<1>3. r \in RunStates /\ b \in Nat
  BY <1>1 DEF RunStates
<1>4. t = Edited(s, n, k, nd, i, r, b, s.open, s.resolved)
  <2>1. t = [s EXCEPT !.node[n].status = "pending",
                   !.inst[n][k] = W!Reserved(@),
                   !.run = IF @ = "blocked" THEN "running" ELSE @,
                   !.blocked = IF s.run = "blocked" THEN 0 ELSE @]
    BY DEF W!RetryRequested
  <2>2. s = [run |-> s.run, blocked |-> s.blocked, node |-> s.node, inst |-> s.inst, open |-> s.open,
             edges |-> s.edges, resolved |-> s.resolved, left |-> s.left, leftRun |-> s.leftRun]
    BY Record
  <2>3. t = [run |-> r, blocked |-> b, node |-> [s.node EXCEPT ![n] = nd],
             inst |-> [s.inst EXCEPT ![n] = [s.inst[n] EXCEPT ![k] = i]], open |-> s.open,
             edges |-> s.edges, resolved |-> s.resolved, left |-> s.left, leftRun |-> s.leftRun]
    <3>1. t = [run |-> t.run, blocked |-> t.blocked, node |-> t.node, inst |-> t.inst, open |-> s.open,
               edges |-> s.edges, resolved |-> s.resolved, left |-> s.left, leftRun |-> s.leftRun]
      <4> HIDE DEF k, nd, i, r, b
      <4> QED BY <2>1, <2>2
    <3>2. t.run = r
      <4> HIDE DEF k, nd, i, b
      <4> QED BY <2>1, <2>2
    <3>3. t.blocked = b
      <4> HIDE DEF k, nd, i, r
      <4> QED BY <2>1, <2>2
    <3>4. t.node = [s.node EXCEPT ![n] = nd]
      <4> HIDE DEF k, i, r, b
      <4> QED BY <2>1, <2>2
    <3>5. t.inst = [s.inst EXCEPT ![n] = [s.inst[n] EXCEPT ![k] = i]]
      <4> HIDE DEF k, nd, r, b
      <4> QED BY <2>1, <2>2
    <3> HIDE DEF nd, i, r, b, k
    <3> QED BY <3>1, <3>2, <3>3, <3>4, <3>5
  <2> HIDE DEF nd, i, r, b, k
  <2> QED BY <2>3 DEF Edited
<1> HIDE DEF nd, i, r, b
<1>5. /\ Edit(s, t, n, k) /\ t.node[n] = nd /\ t.inst[n][k] = i /\ t.run = r /\ t.blocked = b
      /\ t.open = s.open /\ t.resolved = s.resolved
  <2> HIDE DEF k
  <2> QED BY <1>1, <1>2, <1>3, <1>4, EditIs DEF k
<1> QED BY <1>5 DEF nd, i, r, b

(* instanceSuperseded. *)
LEMMA SupersededIs ==
    ASSUME NEW s \in Ledger, NEW n, NEW k, IsInst(s, n, k), ~W!Cut(s),
           NEW t, t = W!Superseded(s, n, k)
    PROVE  /\ Edit(s, t, n, k) /\ t.open = s.open /\ t.resolved = s.resolved
           /\ t.run = (IF s.run = "blocked" /\ s.blocked = n THEN "running" ELSE s.run)
           /\ t.node[n] = (IF s.node[n].eff = k THEN W!NoNode ELSE s.node[n])
           /\ t.inst[n][k] = [s.inst[n][k] EXCEPT !.st = "superseded"]
<1> DEFINE hit == s.run = "blocked" /\ s.blocked = n
           nd == IF s.node[n].eff = k THEN W!NoNode ELSE s.node[n]
           i == [s.inst[n][k] EXCEPT !.st = "superseded"]
           r == IF hit THEN "running" ELSE s.run
           b == IF hit THEN 0 ELSE s.blocked
<1>1. s.inst[n][k] \in InstRec /\ s.node[n] \in NodeRec /\ "pending" \in W!NodeStatus
      /\ s.open \in SUBSET Triples /\ s.resolved \in SUBSET (W!Node \X Nat) /\ s.run \in RunStates /\ s.blocked \in Nat
  BY Fields, Statuses DEF IsInst
<1>2. nd \in NodeRec /\ i \in InstRec
  BY <1>1 DEF NodeRec, InstRec, W!NoNode
<1>3. r \in RunStates /\ b \in Nat
  BY <1>1 DEF RunStates
<1>4. t = Edited(s, n, k, nd, i, r, b, s.open, s.resolved)
  <2>1. t = [s EXCEPT !.node[n] = nd, !.inst[n][k] = i, !.run = r, !.blocked = b]
    BY DEF W!Superseded, Ledger
  <2>2. s = [run |-> s.run, blocked |-> s.blocked, node |-> s.node, inst |-> s.inst, open |-> s.open,
             edges |-> s.edges, resolved |-> s.resolved, left |-> s.left, leftRun |-> s.leftRun]
    BY Record
  <2> HIDE DEF nd, i, r, b
  <2> QED BY <2>1, <2>2 DEF Edited
<1> HIDE DEF nd, i, r, b
<1>5. /\ Edit(s, t, n, k) /\ t.node[n] = nd /\ t.inst[n][k] = i /\ t.run = r /\ t.blocked = b
      /\ t.open = s.open /\ t.resolved = s.resolved
  BY <1>1, <1>2, <1>3, <1>4, EditIs
<1> QED BY <1>5 DEF nd, i, r, b

(* A node and an instance with another status. *)
Stated(nd, st) == [nd EXCEPT !.status = st]
Standing(i, st) == [i EXCEPT !.st = st]

(* A node and an instance with another status. *)
LEMMA StatedIs ==
    ASSUME NEW st \in W!NodeStatus
    PROVE  /\ \A nd \in NodeRec : /\ Stated(nd, st) \in NodeRec /\ Stated(nd, st).status = st
                                  /\ Stated(nd, st).eff = nd.eff /\ Stated(nd, st).cleared = nd.cleared
           /\ \A i \in InstRec : /\ Standing(i, st) \in InstRec /\ Standing(i, st).st = st /\ Standing(i, st).max = i.max
                                 /\ Standing(i, st).res = i.res /\ Standing(i, st).why = i.why
                                 /\ Standing(i, st).orphans = i.orphans
BY DEF NodeRec, InstRec, Stated, Standing

(* waitCreated. *)
LEMMA GatedIs ==
    ASSUME NEW s \in Ledger, NEW n, NEW k, AtOrNext(s, n, k), <<n, k>> \notin s.resolved,
           NEW t, t = W!GateDispatched(s, n, k)
    PROVE  /\ Edit(s, t, n, k) /\ IsInst(t, n, k)
           /\ t.node[n] = Taken(s.node[n], "gateWaiting", k)
           /\ t.inst[n][k] = [Base(s, n, k) EXCEPT !.st = "gateWaiting"]
           /\ t.run = s.run /\ t.blocked = s.blocked /\ t.open = s.open /\ t.resolved = s.resolved
<1> DEFINE nd == Taken(s.node[n], "gateWaiting", k)
           i == [Base(s, n, k) EXCEPT !.st = "gateWaiting"]
           g == W!Grown(s, n, k)
<1>0. Base(s, n, k) \in InstRec /\ n \in W!Node /\ s.node[n] \in NodeRec /\ k \in Nat /\ s.open \in SUBSET Triples
  BY BaseIs, Fields
<1>1. nd \in NodeRec /\ i \in InstRec
  <2>1. nd \in NodeRec
    BY <1>0, Statuses, TakenIs
  <2>2. i \in InstRec
    BY <1>0, Statuses, Restated
  <2> QED BY <2>1, <2>2
<1>2. /\ g \in Ledger /\ g.node = s.node /\ g.run = s.run /\ g.blocked = s.blocked /\ IsInst(g, n, k)
      /\ g.open = s.open /\ g.resolved = s.resolved /\ g.inst[n][k] = Base(s, n, k)
  BY GrownIs DEF Base, Edit
<1>3. t = Edited(g, n, k, nd, i, s.run, s.blocked, s.open, s.resolved)
  <2> HIDE DEF g
  <2>1. t = [g EXCEPT !.inst[n][k] = i, !.node[n] = nd]
    BY <1>2 DEF W!GateDispatched, g, Taken
  <2>2. g = [run |-> g.run, blocked |-> g.blocked, node |-> g.node, inst |-> g.inst, open |-> g.open,
             edges |-> g.edges, resolved |-> g.resolved, left |-> g.left, leftRun |-> g.leftRun]
    BY <1>2, Record
  <2> HIDE DEF nd, i
  <2>3. t = [run |-> g.run, blocked |-> g.blocked, node |-> [g.node EXCEPT ![n] = nd],
             inst |-> [g.inst EXCEPT ![n] = [g.inst[n] EXCEPT ![k] = i]], open |-> g.open,
             edges |-> g.edges, resolved |-> g.resolved, left |-> g.left, leftRun |-> g.leftRun]
    BY <2>1, <2>2
  <2> QED BY <1>2, <2>3 DEF Edited
<1> HIDE DEF nd, i, g
<1>4. /\ Edit(s, t, n, k) /\ IsInst(t, n, k) /\ t.node[n] = nd /\ t.inst[n][k] = i
      /\ t.run = s.run /\ t.blocked = s.blocked /\ t.open = s.open /\ t.resolved = s.resolved
  BY <1>0, <1>1, <1>3, GrownEdit DEF g
<1> QED BY <1>4 DEF nd, i

(* waitResolved, for the effective instance of a node. *)
LEMMA ResolvedIs ==
    ASSUME NEW s \in Ledger, NEW n, NEW k, IsInst(s, n, k), s.node[n].eff = k, NEW res,
           ~W!Cut(s), <<n, k>> \notin s.resolved, s.node[n].status # "cancelled",
           NEW t, t = W!GateResolved(s, n, k, res)
    PROVE  /\ Edit(s, t, n, k) /\ t.open = s.open /\ t.resolved = s.resolved \cup {<<n, k>>}
           /\ t.run = s.run /\ t.blocked = s.blocked /\ t.node[n] = W!Decided(s.node[n], res)
           /\ t.inst[n][k] = Standing(s.inst[n][k], W!Decision(res))
<1> DEFINE st == W!Decision(res)
           nd == W!Decided(s.node[n], res)
           i == Standing(s.inst[n][k], st)
           w == s.resolved \cup {<<n, k>>}
<1>1. s.inst[n][k] \in InstRec /\ s.node[n] \in NodeRec /\ st \in W!NodeStatus /\ k \in Nat /\ n \in W!Node
      /\ s.open \in SUBSET Triples /\ s.resolved \in SUBSET (W!Node \X Nat) /\ s.run \in RunStates /\ s.blocked \in Nat
  BY Fields, Statuses DEF IsInst, W!Decision
<1>2. nd \in NodeRec /\ i \in InstRec /\ w \in SUBSET (W!Node \X Nat)
  <2>1. i \in InstRec
    BY <1>1, StatedIs
  <2>2. ASSUME NEW m \in NodeRec, NEW c \in BOOLEAN PROVE [m EXCEPT !.status = st, !.cleared = c] \in NodeRec
    <3> HIDE DEF st
    <3> QED BY <1>1, <2>2 DEF NodeRec
  <2>3. nd \in NodeRec
    <3>1. (s.node[n].cleared \/ res = "approved") \in BOOLEAN
      OBVIOUS
    <3> QED BY <1>1, <2>2, <3>1 DEF W!Decided
  <2>4. w \in SUBSET (W!Node \X Nat)
    BY <1>1
  <2> QED BY <2>1, <2>3, <2>4
<1>4. t = Edited(s, n, k, nd, i, s.run, s.blocked, s.open, w)
  <2> DEFINE u == [s EXCEPT !.resolved = @ \cup {<<n, k>>}]
  <2>1. s = [run |-> s.run, blocked |-> s.blocked, node |-> s.node, inst |-> s.inst, open |-> s.open,
             edges |-> s.edges, resolved |-> s.resolved, left |-> s.left, leftRun |-> s.leftRun]
    BY Record
  <2>2. u = [run |-> s.run, blocked |-> s.blocked, node |-> s.node, inst |-> s.inst, open |-> s.open,
             edges |-> s.edges, resolved |-> w, left |-> s.left, leftRun |-> s.leftRun]
    <3> HIDE DEF w, st, nd, i
    <3> QED BY <2>1 DEF w
  <2>3. t = [u EXCEPT !.inst[n][k].st = st,
                      !.node[n] = IF @.eff = k THEN W!Decided(@, res) ELSE @]
    BY DEF W!GateResolved
  <2> HIDE DEF u, st, w, nd, i
  <2>4. u.node[n] = s.node[n] /\ u.inst[n][k] = s.inst[n][k]
    BY ONLY <2>2
  <2>5. t = [u EXCEPT !.inst[n][k] = i, !.node[n] = nd]
    BY <2>3, <2>4 DEF i, nd, Standing
  <2>7. u.run = s.run /\ u.blocked = s.blocked /\ u.node = s.node /\ u.inst = s.inst /\ u.open = s.open
        /\ u.edges = s.edges /\ u.resolved = w /\ u.left = s.left /\ u.leftRun = s.leftRun
    BY ONLY <2>2
  <2>8. u = [run |-> u.run, blocked |-> u.blocked, node |-> u.node, inst |-> u.inst, open |-> u.open,
             edges |-> u.edges, resolved |-> u.resolved, left |-> u.left, leftRun |-> u.leftRun]
    BY ONLY <2>2, <2>7
  <2>6. t = [run |-> u.run, blocked |-> u.blocked, node |-> [u.node EXCEPT ![n] = nd],
             inst |-> [u.inst EXCEPT ![n] = [u.inst[n] EXCEPT ![k] = i]], open |-> u.open,
             edges |-> u.edges, resolved |-> u.resolved, left |-> u.left, leftRun |-> u.leftRun]
    BY ONLY <2>5, <2>8
  <2> QED BY ONLY <2>6, <2>7 DEF Edited
<1> HIDE DEF nd, i, w
<1>5. /\ Edit(s, t, n, k) /\ t.node[n] = nd /\ t.inst[n][k] = i /\ t.run = s.run /\ t.blocked = s.blocked
      /\ t.open = s.open /\ t.resolved = w
  BY <1>1, <1>2, <1>4, EditIs
<1> QED BY <1>5 DEF nd, i, w

(* An event that changes the status of a node only. *)
WithStatus(s, n, st) == [s EXCEPT !.node[n].status = st]

(* The ledger with another status of one node. *)
LEMMA StatusIs ==
    ASSUME NEW s \in Ledger, NEW n \in W!Node, NEW st \in W!NodeStatus, NEW t, t = WithStatus(s, n, st)
    PROVE  /\ Edit(s, t, n, 0) /\ t.node[n] = [s.node[n] EXCEPT !.status = st] /\ t.inst = s.inst /\ t.open = s.open
           /\ t.run = s.run /\ t.blocked = s.blocked /\ t.resolved = s.resolved
<1>1. s.node[n] \in NodeRec /\ s.node \in [W!Node -> NodeRec] /\ Len(s.inst[n]) \in Nat
  BY Fields DEF Ledger
<1> DEFINE nd == [s.node[n] EXCEPT !.status = st]
<1>2. nd \in NodeRec
  BY <1>1, Restated
<1>3. t = [s EXCEPT !.node[n] = nd]
  BY DEF WithStatus
<1> HIDE DEF nd
<1>4. t.node = [s.node EXCEPT ![n] = nd] /\ t.inst = s.inst /\ t.open = s.open /\ t.run = s.run
      /\ t.blocked = s.blocked /\ t.resolved = s.resolved /\ t.edges = s.edges /\ t.left = s.left /\ t.leftRun = s.leftRun
  BY <1>3 DEF Ledger
<1>5. t.node \in [W!Node -> NodeRec] /\ t.node[n] = nd /\ \A m \in W!Node : m # n => t.node[m] = s.node[m]
  BY <1>1, <1>2, <1>4
<1>6. t \in Ledger
  BY <1>3, <1>5 DEF Ledger
<1> QED BY <1>1, <1>4, <1>5, <1>6 DEF Edit, nd

(* An instance or none. *)
AtOrNone(s, n, k) == n \in W!Node /\ (k = 0 \/ IsInst(s, n, k))

(* A ledger is an edit of itself. *)
LEMMA NoneEdited ==
    ASSUME NEW s \in Ledger, NEW n, NEW k, AtOrNone(s, n, k) PROVE Edit(s, s, n, k)
<1>1. Len(s.inst[n]) \in Nat /\ (IsInst(s, n, k) => k <= Len(s.inst[n]))
  BY Fields DEF AtOrNone, IsInst
<1> QED BY <1>1 DEF Edit, AtOrNone

(* Only the open attempts change. *)
LEMMA OpenIs ==
    ASSUME NEW s \in Ledger, NEW n, NEW k, NEW u, Edit(s, u, n, k), NEW o \in SUBSET Triples,
           NEW t, t = [u EXCEPT !.open = o]
    PROVE  /\ Edit(s, t, n, k) /\ t.node = u.node /\ t.inst = u.inst /\ t.run = u.run
           /\ t.blocked = u.blocked /\ t.open = o /\ t.resolved = u.resolved
<1>1. u \in Ledger
  BY DEF Edit
<1>2. /\ t \in Ledger /\ t.node = u.node /\ t.inst = u.inst /\ t.run = u.run
      /\ t.blocked = u.blocked /\ t.open = o /\ t.resolved = u.resolved
      /\ t.edges = u.edges /\ t.left = u.left /\ t.leftRun = u.leftRun
  BY <1>1 DEF Ledger
<1> QED BY <1>2 DEF Edit

(* Cancelling has an effect on the node. *)
Cancels(s, n, k) == s.node[n].status \notin W!Terminal /\ (k = 0 \/ s.inst[n][k].st # "superseded")

(* nodeCancelled. *)
CancelEffect(s, t, n, k, byRun) ==
    /\ t.open = (IF byRun /\ k # 0 THEN s.open \ {W!Latest(s, n, k)} ELSE s.open)
    /\ t.node[n] = (IF Cancels(s, n, k) /\ (k = 0 \/ s.node[n].eff = k)
                    THEN Stated(s.node[n], "cancelled") ELSE s.node[n])
    /\ k # 0 => t.inst[n][k] = (IF Cancels(s, n, k) THEN Standing(s.inst[n][k], "cancelled")
                                ELSE s.inst[n][k])

(* The ledger after a nodeCancelled. *)
LEMMA CancelledIs ==
    ASSUME NEW s \in Ledger, NEW n, NEW k, AtOrNone(s, n, k), NEW byRun \in BOOLEAN,
           NEW t, t = W!NodeCancelled(s, n, k, byRun)
    PROVE  /\ Edit(s, t, n, k) /\ t.run = s.run /\ t.blocked = s.blocked /\ t.resolved = s.resolved
           /\ CancelEffect(s, t, n, k, byRun)
<1> DEFINE o == IF byRun /\ k # 0 THEN s.open \ {W!Latest(s, n, k)} ELSE s.open
           u == IF byRun /\ k # 0 THEN [s EXCEPT !.open = @ \ {W!Latest(s, n, k)}] ELSE s
<1>1. n \in W!Node /\ o \in SUBSET Triples /\ "cancelled" \in W!NodeStatus
  BY Fields, Statuses DEF AtOrNone
<1>2. u = [s EXCEPT !.open = o]
  BY DEF Ledger
<1> HIDE DEF o
<1>3. /\ Edit(s, u, n, k) /\ u.node = s.node /\ u.inst = s.inst /\ u.run = s.run
      /\ u.blocked = s.blocked /\ u.open = o /\ u.resolved = s.resolved
  <2> HIDE DEF u
  <2> QED BY <1>1, <1>2, OpenIs, NoneEdited
<1>4. u \in Ledger /\ AtOrNone(u, n, k) /\ Len(s.inst[n]) \in Nat /\ Edit(u, u, n, k)
  BY <1>3, Fields, NoneEdited DEF Edit, AtOrNone, IsInst
<1>5. t = IF s.node[n].status \in W!Terminal THEN u
          ELSE IF k # 0 THEN W!RecordInstance(u, n, k, "cancelled")
          ELSE [u EXCEPT !.node[n].status = "cancelled"]
  BY DEF W!NodeCancelled
<1> HIDE DEF u
<1>6. CASE ~Cancels(s, n, k)
  <2>1. t = u
    BY <1>3, <1>5, <1>6 DEF Cancels, W!RecordInstance
  <2> QED BY <1>3, <1>6, <2>1 DEF CancelEffect, o
<1>7. CASE Cancels(s, n, k) /\ k # 0
  <2>1. t = W!RecordInstance(u, n, k, "cancelled") /\ u.inst[n][k].st # "superseded" /\ IsInst(u, n, k) /\ AtOrNext(s, n, k)
    BY <1>3, <1>4, <1>5, <1>7 DEF Cancels, AtOrNone, AtOrNext, IsInst
  <2>2. /\ Edit(u, t, n, k)
        /\ t.node[n] = IF u.node[n].eff = k THEN [u.node[n] EXCEPT !.status = "cancelled"] ELSE u.node[n]
        /\ t.inst[n][k] = [u.inst[n][k] EXCEPT !.st = "cancelled"] /\ t.run = u.run /\ t.blocked = u.blocked
        /\ t.open = u.open /\ t.resolved = u.resolved
    BY <1>1, <1>4, <2>1, RecordIs
  <2>3. Edit(s, t, n, k)
    BY <1>3, <2>1, <2>2, EditTwice
  <2> QED BY <1>3, <1>7, <2>2, <2>3 DEF CancelEffect, o, Stated, Standing
<1>8. CASE Cancels(s, n, k) /\ k = 0
  <2>1. t = WithStatus(u, n, "cancelled")
    BY <1>5, <1>8 DEF Cancels, WithStatus
  <2>2. /\ Edit(u, t, n, 0) /\ t.node[n] = [u.node[n] EXCEPT !.status = "cancelled"] /\ t.inst = u.inst
        /\ t.open = u.open /\ t.run = u.run /\ t.blocked = u.blocked /\ t.resolved = u.resolved
    BY <1>1, <1>4, <2>1, StatusIs
  <2>3. Edit(s, t, n, 0)
    BY <1>3, <1>4, <1>8, <2>2 DEF Edit
  <2> QED BY <1>3, <1>8, <2>2, <2>3 DEF CancelEffect, o, Stated
<1> QED BY <1>6, <1>7, <1>8

(* nodeSkipped. *)
LEMMA SkippedIs ==
    ASSUME NEW s \in Ledger, NEW n \in W!Node, NEW t, t = W!NodeSkipped(s, n)
    PROVE  /\ Edit(s, t, n, 0) /\ t.inst = s.inst /\ t.open = s.open /\ t.resolved = s.resolved
           /\ t.run = s.run /\ t.blocked = s.blocked
           /\ t.node[n] = IF W!Cut(s) \/ s.node[n].status \in W!Terminal THEN s.node[n]
                          ELSE [s.node[n] EXCEPT !.status = "skipped"]
<1>1. CASE W!Cut(s) \/ s.node[n].status \in W!Terminal
  BY <1>1, NoneEdited DEF W!NodeSkipped, AtOrNone
<1>2. CASE ~(W!Cut(s) \/ s.node[n].status \in W!Terminal)
  <2>1. t = WithStatus(s, n, "skipped")
    BY <1>2 DEF W!NodeSkipped, WithStatus
  <2>2. "skipped" \in W!NodeStatus
    BY Statuses
  <2> QED BY <1>2, <2>1, <2>2, StatusIs
<1> QED BY <1>1, <1>2

-----------------------------------------------------------------------------
(***************************************************************************)
(* What holds of the ledger.                                               *)
(***************************************************************************)

RunOver == {"succeeded", "failed", "cancelled", "blocked"}

(* A node and its instances: only the effective one is not superseded, and  *)
(* its status is the node's, unless the node was skipped while it waited.   *)
NodeFine(nd, q) ==
    /\ nd.eff <= Len(q)
    /\ \A k \in 1..Len(q) : /\ k # nd.eff => q[k].st = "superseded"
                            /\ q[k].res => q[k].max # 0
                            /\ q[k].why \in W!Node \cup {0}
    /\ nd.eff # 0 => \/ q[nd.eff].st = nd.status
                     \/ nd.status = "skipped" /\ q[nd.eff].st = "pending"
    /\ nd.eff = 0 => nd.status \in {"pending", "skipped", "cancelled"} /\ ~nd.cleared

(* An attempt on record as open is the last one of its instance. *)
OpenTrue(s, a) ==
    /\ IsInst(s, a[1], a[2]) /\ a[3] # 0
    /\ s.inst[a[1]][a[2]].max = a[3] /\ ~s.inst[a[1]][a[2]].res
    /\ s.inst[a[1]][a[2]].st \in {"running", "cancelled", "superseded"}

(* What runs is on record, until the run is cancelled. *)
RunningTrue(s, n) ==
    s.node[n].status = "running" =>
        W!Cut(s) \/ <<n, s.node[n].eff, s.inst[n][s.node[n].eff].max>> \in s.open

(* No node has two open attempts, a run that has ended none. *)
LedgerTrue(s) ==
    /\ \A n \in W!Node : NodeFine(s.node[n], s.inst[n]) /\ RunningTrue(s, n)
    /\ \A a \in s.open : OpenTrue(s, a)
    /\ \A a, b \in s.open : a[1] = b[1] => a = b
    /\ s.run \in RunOver => s.open = {}

(* An edit of one instance keeps this if it holds of that node. *)
LEMMA EditKeeps ==
    ASSUME NEW s \in Ledger, LedgerTrue(s), NEW n \in W!Node, NEW k, NEW t, Edit(s, t, n, k),
           NodeFine(t.node[n], t.inst[n]), RunningTrue(t, n),
           \A a \in Triples : a[1] # n => (a \in t.open <=> a \in s.open),
           \A a \in t.open : a[1] = n => OpenTrue(t, a),
           \A a, b \in t.open : a[1] = n /\ b[1] = n => a = b,
           t.run \in RunOver => t.open = {},
           W!Cut(s) => W!Cut(t)
    PROVE  LedgerTrue(t)
<1>1. t \in Ledger /\ t.open \in SUBSET Triples /\ s.open \in SUBSET Triples
  BY Fields DEF Edit
<1>2. ASSUME NEW m \in W!Node PROVE NodeFine(t.node[m], t.inst[m])
  BY DEF LedgerTrue, Edit
<1>3. ASSUME NEW m \in W!Node PROVE RunningTrue(t, m)
  <2>1. CASE m # n
    <3>1. RunningTrue(s, m) /\ t.node[m] = s.node[m] /\ t.inst[m] = s.inst[m]
      BY <2>1 DEF LedgerTrue, Edit
    <3>2. ASSUME NEW x \in s.open, x[1] = m PROVE x \in t.open
      BY <1>1, <2>1, <3>2
    <3> QED BY <3>1, <3>2 DEF RunningTrue
  <2> QED BY <2>1
<1>4. ASSUME NEW a \in t.open PROVE OpenTrue(t, a)
  <2>1. CASE a[1] # n
    <3>1. a \in s.open
      BY <1>1, <2>1
    <3>2. OpenTrue(s, a)
      BY <3>1 DEF LedgerTrue
    <3>3. t.inst[a[1]] = s.inst[a[1]]
      BY <2>1, <3>2 DEF OpenTrue, IsInst, Edit
    <3> QED BY <3>2, <3>3 DEF OpenTrue, IsInst
  <2> QED BY <2>1
<1>5. ASSUME NEW a \in t.open, NEW b \in t.open, a[1] = b[1] PROVE a = b
  <2>1. CASE a[1] # n
    BY <1>1, <1>5, <2>1 DEF LedgerTrue
  <2> QED BY <1>5, <2>1
<1> QED BY <1>2, <1>3, <1>4, <1>5 DEF LedgerTrue

(* The instances of a node are on record once at most. *)
LEMMA OpenFacts ==
    ASSUME NEW s \in Ledger, LedgerTrue(s), NEW a \in s.open
    PROVE  /\ a \in Triples /\ a = <<a[1], a[2], a[3]>> /\ IsInst(s, a[1], a[2])
           /\ W!Latest(s, a[1], a[2]) = a /\ OpenTrue(s, a)
<1>1. a \in Triples /\ OpenTrue(s, a)
  BY Fields DEF LedgerTrue
<1>2. a = <<a[1], a[2], a[3]>> /\ a[3] \in Nat
  BY <1>1 DEF Triples
<1>3. IsInst(s, a[1], a[2])
  BY <1>1 DEF OpenTrue
<1>4. W!Latest(s, a[1], a[2]) = <<a[1], a[2], a[3]>>
  <2>1. ~s.inst[a[1]][a[2]].res /\ s.inst[a[1]][a[2]].max = a[3] /\ s.inst[a[1]][a[2]].max \in Nat
    BY <1>1, <1>2, <1>3 DEF OpenTrue
  <2> QED BY <2>1 DEF W!Latest
<1> QED BY <1>1, <1>2, <1>3, <1>4

(* The instance a node works on, and an idle node's next one. *)
LEMMA Effective ==
    ASSUME NEW s \in Ledger, LedgerTrue(s), NEW n \in W!Node
    PROVE  /\ s.node[n] \in NodeRec /\ s.node[n].eff \in Nat /\ Len(s.inst[n]) \in Nat
           /\ s.node[n].eff # 0 => IsInst(s, n, s.node[n].eff)
           /\ AtOrNone(s, n, s.node[n].eff)
           /\ NodeFine(s.node[n], s.inst[n])
           /\ s.node[n].eff = 0 => AtOrNext(s, n, Len(s.inst[n]) + 1)
<1>1. s.node[n] \in NodeRec /\ Len(s.inst[n]) \in Nat /\ NodeFine(s.node[n], s.inst[n])
  BY Fields DEF LedgerTrue
<1>2. s.node[n].eff \in Nat
  BY <1>1 DEF NodeRec
<1> QED BY <1>1, <1>2 DEF NodeFine, IsInst, AtOrNone, AtOrNext

(* An open attempt is not of an instance that waits. *)
LEMMA NotOpen ==
    ASSUME NEW s \in Ledger, LedgerTrue(s), NEW n \in W!Node,
           s.node[n].status \notin {"running", "cancelled"}
    PROVE  \A a \in s.open : a[1] = n => a[2] # s.node[n].eff
<1> SUFFICES ASSUME NEW a \in s.open, a[1] = n, a[2] = s.node[n].eff PROVE FALSE
  OBVIOUS
<1>1. OpenTrue(s, a) /\ NodeFine(s.node[n], s.inst[n])
  BY DEF LedgerTrue
<1>2. s.node[n].eff # 0
  BY <1>1, Fields DEF OpenTrue
<1>3. s.inst[n][s.node[n].eff].st \in {s.node[n].status, "pending"}
  BY <1>1, <1>2 DEF NodeFine
<1>4. s.inst[n][s.node[n].eff].st \in {"running", "cancelled", "superseded"} /\ IsInst(s, n, s.node[n].eff)
  BY <1>1 DEF OpenTrue
<1>5. s.node[n].status \in W!NodeStatus
  BY Fields DEF NodeRec
<1> QED BY <1>3, <1>4, <1>5, Statuses

(* The instance a dispatch is for. *)
InstFor(s, n) == IF s.node[n].eff # 0 THEN s.node[n].eff ELSE Len(s.inst[n]) + 1

(* A dispatch is for the instance the node works on, or for its next one. *)
LEMMA InstForIs ==
    ASSUME NEW s \in Ledger, LedgerTrue(s), NEW n \in W!Node
    PROVE  /\ AtOrNext(s, n, InstFor(s, n))
           /\ \A l \in 1..Len(s.inst[n]) : l # InstFor(s, n) => l # s.node[n].eff
<1>1. /\ AtOrNext(s, n, InstFor(s, n)) /\ s.node[n].eff \in Nat /\ s.node[n].eff <= Len(s.inst[n]) /\ Len(s.inst[n]) \in Nat
  BY Effective DEF IsInst, AtOrNext, InstFor, NodeFine
<1>2. ASSUME NEW l \in 1..Len(s.inst[n]), l # InstFor(s, n) PROVE l # s.node[n].eff
  BY <1>1, <1>2 DEF InstFor
<1> QED BY <1>1, <1>2

(* A dispatch of a node that waits and has no open attempt. *)
LEMMA DispatchedTrue ==
    ASSUME NEW s \in Ledger, LedgerTrue(s), NEW n \in W!Node, NEW k, NEW a \in Nat, a # 0,
           s.run = "running",
           k = InstFor(s, n),
           \A b \in s.open : b[1] # n,
           NEW t, t = W!NodeDispatched(s, n, k, a)
    PROVE  LedgerTrue(t)
<1>1. AtOrNext(s, n, k)
  BY InstForIs
<1>2. /\ Edit(s, t, n, k) /\ IsInst(t, n, k)
      /\ t.node[n] = Taken(s.node[n], "running", k)
      /\ t.inst[n][k] = Begun(Base(s, n, k), a)
      /\ t.run = s.run /\ t.open = s.open \cup {<<n, k, a>>}
  <2>1. a \in Nat
    OBVIOUS
  <2> QED BY <1>1, <2>1, DispatchedIs
<1>3. /\ s.node[n] \in NodeRec /\ Base(s, n, k) \in InstRec /\ NodeFine(s.node[n], s.inst[n]) /\ k \in Nat /\ k # 0
      /\ Len(s.inst[n]) \in Nat
  BY <1>1, Effective, BaseIs
<1>4. t.node[n].eff = k /\ t.node[n].status = "running"
  <2>1. "running" \in W!NodeStatus
    BY Statuses
  <2> QED BY <1>2, <1>3, <2>1, TakenIs
<1>5. /\ t.inst[n][k].st = "running" /\ t.inst[n][k].max = a /\ t.inst[n][k].res = FALSE
      /\ t.inst[n][k].why = Base(s, n, k).why
  BY <1>2, <1>3 DEF InstRec, Begun
<1>6. Len(t.inst[n]) = IF k <= Len(s.inst[n]) THEN Len(s.inst[n]) ELSE k
  BY <1>2 DEF Edit
<1>7. NodeFine(t.node[n], t.inst[n])
  <2>2. ASSUME NEW l \in 1..Len(t.inst[n]), l # k
        PROVE  t.inst[n][l].st = "superseded" /\ (t.inst[n][l].res => t.inst[n][l].max # 0) /\ t.inst[n][l].why \in W!Node \cup {0}
    <3>1. l \in 1..Len(s.inst[n]) /\ l # s.node[n].eff
      <4>1. k \in 1..Len(s.inst[n]) + 1
        BY <1>1 DEF AtOrNext
      <4>2. l \in 1..Len(s.inst[n])
        BY <1>3, <1>6, <2>2, <4>1
      <4> QED BY <2>2, <4>2, InstForIs
    <3>2. t.inst[n][l] = s.inst[n][l]
      BY <1>2, <2>2, <3>1 DEF Edit
    <3> QED BY <1>3, <3>1, <3>2 DEF NodeFine
  <2>3. Base(s, n, k).why \in W!Node \cup {0}
    BY <1>3 DEF NodeFine, Base, W!NewInstance
  <2>4. k <= Len(t.inst[n])
    BY <1>3, <1>6
  <2> QED
    <3> HIDE DEF NodeFine
    <3>1. a # 0
      OBVIOUS
    <3> QED BY <1>3, <1>4, <1>5, <2>2, <2>3, <2>4, <3>1 DEF NodeFine
<1>8. RunningTrue(t, n)
  BY <1>2, <1>4, <1>5 DEF RunningTrue
<1>9. ASSUME NEW b \in t.open, b[1] = n PROVE b = <<n, k, a>> /\ OpenTrue(t, b)
  <2>1. b = <<n, k, a>>
    BY <1>2, <1>9
  <2>2. b[1] = n /\ b[2] = k /\ b[3] = a /\ a # 0
    BY <2>1
  <2> QED BY <1>2, <1>5, <2>1, <2>2 DEF OpenTrue
<1>10. ASSUME NEW b \in Triples, b[1] # n PROVE b \in t.open <=> b \in s.open
  BY <1>2, <1>10
<1>11. t.run \notin RunOver /\ (W!Cut(s) => W!Cut(t))
  BY <1>2 DEF RunOver, W!Cut
<1>12. \A b, c \in t.open : b[1] = n /\ c[1] = n => b = c
  BY <1>9
<1> QED BY <1>2, <1>7, <1>8, <1>9, <1>10, <1>11, <1>12, EditKeeps

-----------------------------------------------------------------------------
(* What is superseded stays so, and after the cut nodes are only cancelled. *)
Lasting(s, t) ==
    \A n, k : IsInst(s, n, k) => IsInst(t, n, k) /\ (s.inst[n][k].st = "superseded" => t.inst[n][k].st = "superseded")

NodeLasts(nd, nd2) == nd2 = nd \/ (nd.status \notin W!Terminal /\ nd2.status = "cancelled")

CutLasts(s, t) == W!Cut(s) => W!Cut(t) /\ \A n \in W!Node : NodeLasts(s.node[n], t.node[n])

Keeps(s, t) == t \in Ledger /\ LedgerTrue(t) /\ Lasting(s, t) /\ CutLasts(s, t)

(* What two steps keep, both together keep. *)
LEMMA KeepsTwice ==
    ASSUME NEW s, NEW t, NEW u, Keeps(s, t), Keeps(t, u)
    PROVE  Keeps(s, u)
<1>1. Lasting(s, u)
  BY DEF Keeps, Lasting
<1>2. ASSUME NEW a, NEW b, NEW c, NodeLasts(a, b), NodeLasts(b, c) PROVE NodeLasts(a, c)
  BY <1>2, Statuses DEF NodeLasts
<1>3. CutLasts(s, u)
  BY <1>2 DEF Keeps, CutLasts
<1> QED BY <1>1, <1>3 DEF Keeps

(* A step that leaves the ledger alone keeps everything. *)
LEMMA KeepsItself ==
    ASSUME NEW s \in Ledger, LedgerTrue(s) PROVE Keeps(s, s)
BY DEF Keeps, Lasting, CutLasts, NodeLasts

(* What an edit has to show of its instance and its node. *)
LEMMA EditLasts ==
    ASSUME NEW s \in Ledger, NEW n \in W!Node, NEW k, NEW t, Edit(s, t, n, k),
           IsInst(s, n, k) /\ s.inst[n][k].st = "superseded" => t.inst[n][k].st = "superseded",
           W!Cut(s) => W!Cut(t) /\ NodeLasts(s.node[n], t.node[n])
    PROVE  Lasting(s, t) /\ CutLasts(s, t)
<1>1. ASSUME NEW m, NEW l, IsInst(s, m, l)
      PROVE  IsInst(t, m, l) /\ (s.inst[m][l].st = "superseded" => t.inst[m][l].st = "superseded")
  <2>1. CASE m # n
    BY <1>1, <2>1 DEF Edit, IsInst
  <2>2. CASE m = n
    <3>1. l \in 1..Len(s.inst[n]) /\ Len(s.inst[n]) \in Nat /\ Len(t.inst[n]) \in Nat
      BY <1>1, <2>2, Fields DEF IsInst, Edit
    <3>2. l \in 1..Len(t.inst[n])
      <4>1. Len(t.inst[n]) = IF k <= Len(s.inst[n]) THEN Len(s.inst[n]) ELSE k
        BY DEF Edit
      <4>2. CASE k <= Len(s.inst[n])
        BY <4>1, <4>2, <3>1
      <4>3. CASE ~(k <= Len(s.inst[n]))
        <5>1. Len(t.inst[n]) = k
          BY <4>1, <4>3
        <5>2. Len(s.inst[n]) <= k
          BY <5>1, <4>3, <3>1
        <5> QED BY <5>1, <5>2, <3>1
      <4> QED BY <4>2, <4>3
    <3>3. l # k => t.inst[n][l] = s.inst[n][l]
      BY <3>1 DEF Edit
    <3> QED BY <1>1, <2>2, <3>2, <3>3 DEF IsInst
  <2> QED BY <2>1, <2>2
<1>2. ASSUME W!Cut(s) PROVE W!Cut(t) /\ \A m \in W!Node : NodeLasts(s.node[m], t.node[m])
  <2>1. ASSUME NEW m \in W!Node PROVE NodeLasts(s.node[m], t.node[m])
    <3>1. m # n => t.node[m] = s.node[m]
      BY DEF Edit
    <3> QED BY <1>2, <3>1 DEF NodeLasts
  <2> QED BY <1>2, <2>1
<1> QED BY <1>1, <1>2 DEF Lasting, CutLasts

(* An edit of an instance there is, that opens no attempt. *)
LEMMA TouchKeeps ==
    ASSUME NEW s \in Ledger, LedgerTrue(s), NEW n, NEW k, IsInst(s, n, k), NEW t, Edit(s, t, n, k),
           t.open \subseteq s.open, \A a \in s.open : a[1] # n => a \in t.open,
           t.inst[n][k].max = s.inst[n][k].max, t.inst[n][k].res = s.inst[n][k].res,
           t.inst[n][k].why \in W!Node \cup {0},
           \/ k = s.node[n].eff /\ t.node[n].eff = k /\ t.inst[n][k].st = t.node[n].status
           \/ t.node[n] = s.node[n] /\ t.inst[n][k].st = s.inst[n][k].st,
           \A a \in t.open : a[1] = n /\ a[2] = k => t.inst[n][k].st \in {"running", "cancelled", "superseded"},
           RunningTrue(t, n), t.run = s.run,
           W!Cut(s) => NodeLasts(s.node[n], t.node[n])
    PROVE  Keeps(s, t)
<1>1. t \in Ledger /\ n \in W!Node /\ Len(s.inst[n]) \in Nat /\ k \in 1..Len(s.inst[n]) /\ Len(t.inst[n]) = Len(s.inst[n])
  BY Fields DEF Edit, IsInst
<1>2. NodeFine(s.node[n], s.inst[n]) /\ t.open \in SUBSET Triples
  BY <1>1, Fields DEF LedgerTrue
<1>3. NodeFine(t.node[n], t.inst[n])
  <2>1. t.node[n].eff = s.node[n].eff /\ t.node[n].eff <= Len(t.inst[n])
    BY <1>1, <1>2 DEF NodeFine
  <2>2. ASSUME NEW l \in 1..Len(t.inst[n])
        PROVE  /\ l # t.node[n].eff => t.inst[n][l].st = "superseded"
               /\ t.inst[n][l].res => t.inst[n][l].max # 0
               /\ t.inst[n][l].why \in W!Node \cup {0}
    <3>1. CASE l = k
      BY <1>1, <1>2, <2>1, <3>1 DEF NodeFine
    <3>2. CASE l # k
      <4>1. t.inst[n][l] = s.inst[n][l]
        BY <1>1, <3>2 DEF Edit
      <4> QED BY <1>1, <1>2, <2>1, <4>1 DEF NodeFine
    <3> QED BY <3>1, <3>2
  <2>3. t.node[n].eff # 0 => \/ t.inst[n][t.node[n].eff].st = t.node[n].status
                             \/ t.node[n].status = "skipped" /\ t.inst[n][t.node[n].eff].st = "pending"
    <3>1. CASE t.node[n].eff = k /\ t.inst[n][k].st = t.node[n].status
      BY <3>1
    <3>2. CASE t.node[n] = s.node[n] /\ t.inst[n][k].st = s.inst[n][k].st
      <4>1. ASSUME t.node[n].eff # 0 PROVE t.inst[n][t.node[n].eff].st = s.inst[n][t.node[n].eff].st
        <5>1. t.node[n].eff \in 1..Len(s.inst[n])
          BY <4>1, <2>1, Effective, <1>1 DEF IsInst
        <5> QED BY <3>2, <5>1 DEF Edit
      <4> QED BY <1>2, <3>2, <4>1 DEF NodeFine
    <3> QED BY <3>1, <3>2
  <2>4. t.node[n].eff = 0 => t.node[n].status \in {"pending", "skipped", "cancelled"} /\ ~t.node[n].cleared
    BY <1>1, <1>2 DEF NodeFine
  <2> QED BY <2>1, <2>2, <2>3, <2>4 DEF NodeFine
<1>4. ASSUME NEW a \in t.open, a[1] = n PROVE OpenTrue(t, a)
  <2>1. OpenTrue(s, a)
    BY DEF LedgerTrue
  <2>2. CASE a[2] = k
    BY <1>1, <1>4, <2>1, <2>2 DEF OpenTrue, IsInst
  <2>3. CASE a[2] # k
    <3>1. t.inst[n][a[2]] = s.inst[n][a[2]]
      BY <1>4, <2>1, <2>3 DEF OpenTrue, IsInst, Edit
    <3> QED BY <1>1, <1>4, <2>1, <3>1 DEF OpenTrue, IsInst
  <2> QED BY <2>2, <2>3
<1>5. LedgerTrue(t)
  <2>1. \A a, b \in t.open : a[1] = n /\ b[1] = n => a = b
    BY DEF LedgerTrue
  <2>2. t.run \in RunOver => t.open = {}
    BY DEF LedgerTrue
  <2>3. W!Cut(s) => W!Cut(t)
    BY DEF W!Cut
  <2>4. \A a \in Triples : a[1] # n => (a \in t.open <=> a \in s.open)
    OBVIOUS
  <2> QED BY <1>1, <1>3, <1>4, <2>1, <2>2, <2>3, <2>4, EditKeeps
<1>6. s.inst[n][k].st = "superseded" => t.inst[n][k].st = "superseded"
  <2>1. CASE k = s.node[n].eff /\ t.node[n].eff = k /\ t.inst[n][k].st = t.node[n].status
    <3>1. s.inst[n][k].st # "superseded"
      <4>1. s.inst[n][k].st \in {s.node[n].status, "pending"} /\ s.node[n].status \in W!NodeStatus
        BY <1>1, <1>2, <2>1, Fields DEF NodeFine, NodeRec
      <4> QED BY <4>1, Statuses
    <3> QED BY <3>1
  <2> QED BY <2>1
<1>7. Lasting(s, t) /\ CutLasts(s, t)
  <2>1. W!Cut(s) => W!Cut(t) /\ NodeLasts(s.node[n], t.node[n])
    BY DEF W!Cut
  <2> QED BY <1>1, <1>6, <2>1, EditLasts
<1> QED BY <1>1, <1>5, <1>7 DEF Keeps

(* Closing an attempt of another instance than the one its node runs leaves   *)
(* that one open.                                                             *)
LEMMA RunningElsewhere ==
    ASSUME NEW s \in Ledger, LedgerTrue(s), NEW a \in s.open, s.node[a[1]].status = "running",
           ~W!Cut(s)
    PROVE  a[2] = s.node[a[1]].eff /\ s.inst[a[1]][a[2]].st = "running"
<1>1. OpenTrue(s, a) /\ a[1] \in W!Node
  BY DEF LedgerTrue, OpenTrue, IsInst
<1>2. <<a[1], s.node[a[1]].eff, s.inst[a[1]][s.node[a[1]].eff].max>> \in s.open
  BY <1>1 DEF LedgerTrue, RunningTrue
<1>3. a = <<a[1], s.node[a[1]].eff, s.inst[a[1]][s.node[a[1]].eff].max>>
  BY <1>2 DEF LedgerTrue
<1>4. a[2] = s.node[a[1]].eff
  BY <1>3
<1>5. NodeFine(s.node[a[1]], s.inst[a[1]]) /\ s.node[a[1]].eff # 0
  BY <1>1, <1>4, Fields DEF LedgerTrue, OpenTrue
<1> QED BY <1>4, <1>5 DEF NodeFine

(* Of the instances only the effective one is not superseded. *)
LEMMA EffectiveOnly ==
    ASSUME NEW s \in Ledger, LedgerTrue(s), NEW n, NEW k, IsInst(s, n, k), s.inst[n][k].st # "superseded"
    PROVE  /\ k = s.node[n].eff
           /\ s.inst[n][k].st = s.node[n].status \/ (s.node[n].status = "skipped" /\ s.inst[n][k].st = "pending")
<1>1. NodeFine(s.node[n], s.inst[n]) /\ k \in Nat /\ k # 0 /\ k \in 1..Len(s.inst[n])
  BY Fields DEF LedgerTrue, IsInst
<1> QED BY <1>1 DEF NodeFine

(* A settled attempt. *)
LEMMA SettledTrue ==
    ASSUME NEW s \in Ledger, LedgerTrue(s), NEW a \in s.open, NEW st \in W!Settling, NEW why \in W!Node \cup {0},
           NEW t, t = W!Settled(s, a, st, why)
    PROVE  Keeps(s, t) /\ t.open = s.open \ {a} /\ t.run = s.run /\ Edit(s, t, a[1], a[2])
<1> DEFINE n == a[1]
           k == a[2]
           i == s.inst[n][k]
<1>1. a \in Triples /\ IsInst(s, n, k) /\ OpenTrue(s, a) /\ n \in W!Node
  BY OpenFacts DEF IsInst
<1>2. st \in W!NodeStatus /\ why \in Nat /\ st # "running" /\ st # "superseded"
  BY Statuses DEF W!Settling, W!Node
<1>3. i \in InstRec /\ s.node[n] \in NodeRec
  BY <1>1, Fields
<1>4. /\ Edit(s, t, n, k) /\ t.run = s.run /\ t.open = s.open \ {a}
      /\ t.node[n] = IF Applies(s, a) /\ s.node[n].eff = k
                     THEN [s.node[n] EXCEPT !.status = st] ELSE s.node[n]
      /\ t.inst[n][k] = IF Applies(s, a) THEN Judged(i, st, why)
                        ELSE IF W!Cut(s) \/ i.st = "cancelled" THEN i ELSE Judged(i, i.st, why)
  <2> HIDE DEF n, k
  <2> QED BY <1>1, <1>2, SettledIs DEF n, k
<1> HIDE DEF i
<1>5. i.st \in W!NodeStatus \cup {"superseded"} /\ i.why \in W!Node \cup {0}
  BY <1>1, <1>3 DEF InstRec, LedgerTrue, NodeFine, IsInst, i
<1>6. t.inst[n][k].max = i.max /\ t.inst[n][k].res = i.res /\ t.inst[n][k].why \in W!Node \cup {0}
      /\ t.inst[n][k].st = IF Applies(s, a) THEN st ELSE i.st
  <2>0. i \in InstRec /\ why \in Nat /\ st \in W!NodeStatus /\ i.st \in W!NodeStatus \cup {"superseded"}
    BY <1>2, <1>3, <1>5
  <2>1. /\ Judged(i, st, why).max = i.max /\ Judged(i, st, why).res = i.res
        /\ Judged(i, st, why).st = st /\ Judged(i, st, why).why = why
    BY ONLY <2>0, JudgedIs
  <2>2. /\ Judged(i, i.st, why).max = i.max /\ Judged(i, i.st, why).res = i.res
        /\ Judged(i, i.st, why).st = i.st /\ Judged(i, i.st, why).why = why
    <3> DEFINE old == i.st
    <3>1. old \in W!NodeStatus \cup {"superseded"}
      BY <2>0
    <3> HIDE DEF old
    <3>2. /\ Judged(i, old, why).max = i.max /\ Judged(i, old, why).res = i.res
          /\ Judged(i, old, why).st = old /\ Judged(i, old, why).why = why
      BY ONLY <2>0, <3>1, JudgedIs
    <3> QED BY ONLY <3>2 DEF old
  <2> QED BY <1>4, <1>5, <2>1, <2>2
<1>7. CASE Applies(s, a)
  <2>1. k = s.node[n].eff
    BY <1>1, <1>7, EffectiveOnly DEF Applies
  <2>2. t.node[n].status = st /\ t.node[n].eff = k
    BY <1>3, <1>4, <1>7, <2>1 DEF NodeRec
  <2>3. RunningTrue(t, n)
    BY <1>2, <2>2 DEF RunningTrue
  <2>4. \A b \in t.open : b[1] # n
    BY <1>4 DEF LedgerTrue
  <2>5. ~W!Cut(s)
    BY <1>7 DEF Applies
  <2>6. k = s.node[n].eff /\ t.node[n].eff = k /\ t.inst[n][k].st = t.node[n].status
    BY <1>6, <1>7, <2>1, <2>2
  <2>7. t.open \subseteq s.open /\ \A b \in s.open : b[1] # n => b \in t.open
    BY <1>4
  <2>20. Keeps(s, t)
    <3> HIDE DEF n, k
    <3> QED BY <1>1, <1>4, <1>6, <2>3, <2>4, <2>5, <2>6, <2>7, TouchKeeps DEF i
  <2> QED BY <1>4, <2>20
<1>8. CASE ~Applies(s, a)
  <2>1. t.node[n] = s.node[n] /\ t.inst[n][k].st = i.st
    BY <1>4, <1>6, <1>8
  <2>2. RunningTrue(t, n)
    <3>1. s.node[n].status = "running" => W!Cut(s)
      BY <1>8, RunningElsewhere DEF Applies
    <3> QED BY <1>4, <2>1, <3>1 DEF RunningTrue, W!Cut
  <2>3. \A b \in t.open : b[1] # n
    BY <1>4 DEF LedgerTrue
  <2>4. t.open \subseteq s.open /\ \A b \in s.open : b[1] # n => b \in t.open
    BY <1>4
  <2>5. NodeLasts(s.node[n], t.node[n])
    BY <2>1 DEF NodeLasts
  <2>20. Keeps(s, t)
    <3> HIDE DEF n, k
    <3> QED BY <1>1, <1>4, <1>6, <2>1, <2>2, <2>3, <2>4, <2>5, TouchKeeps DEF i
  <2> QED BY <1>4, <2>20
<1> QED BY <1>4, <1>7, <1>8

(* A drained attempt. *)
LEMMA DrainedTrue ==
    ASSUME NEW s \in Ledger, LedgerTrue(s), NEW a \in s.open, NEW orphan \in BOOLEAN,
           NEW t, t = W!Drained(s, a, orphan)
    PROVE  Keeps(s, t) /\ t.open = s.open \ {a} /\ t.run = s.run /\ Edit(s, t, a[1], a[2])
<1> DEFINE n == a[1]
           k == a[2]
           i == s.inst[n][k]
           st == IF Requeues(s, a) THEN "pending" ELSE i.st
           h == IF orphan THEN i.orphans + 1 ELSE i.orphans
<1>1. a \in Triples /\ IsInst(s, n, k) /\ OpenTrue(s, a) /\ n \in W!Node
  BY OpenFacts DEF IsInst
<1>3. i \in InstRec /\ s.node[n] \in NodeRec
  BY <1>1, Fields
<1>4. /\ Edit(s, t, n, k) /\ t.run = s.run /\ t.open = s.open \ {a}
      /\ t.node[n] = IF Requeues(s, a) /\ s.node[n].eff = k
                     THEN [s.node[n] EXCEPT !.status = "pending"] ELSE s.node[n]
      /\ t.inst[n][k] = Returned(i, st, h)
  <2> HIDE DEF n, k
  <2> QED BY <1>1, DrainedIs DEF n, k
<1> HIDE DEF i
<1>5. i.st \in W!NodeStatus \cup {"superseded"} /\ i.why \in W!Node \cup {0} /\ i.orphans \in Nat /\ "pending" \in W!NodeStatus
  BY <1>1, <1>3, Statuses DEF InstRec, LedgerTrue, NodeFine, IsInst, i
<1>6. t.inst[n][k].max = i.max /\ t.inst[n][k].res = i.res /\ t.inst[n][k].why \in W!Node \cup {0}
      /\ t.inst[n][k].st = st
  <2>1. st \in W!NodeStatus \cup {"superseded"} /\ h \in Nat
    BY <1>5
  <2> HIDE DEF st, h
  <2>2. /\ Returned(i, st, h).max = i.max /\ Returned(i, st, h).res = i.res
        /\ Returned(i, st, h).st = st /\ Returned(i, st, h).why = i.why
    BY <1>3, <2>1, ReturnedIs
  <2> QED BY <1>4, <1>5, <2>2
<1>7. CASE Requeues(s, a)
  <2>1. k = s.node[n].eff
    BY <1>1, <1>7, EffectiveOnly DEF Requeues
  <2>2. t.node[n].status = "pending" /\ t.node[n].eff = k
    BY <1>3, <1>4, <1>7, <2>1 DEF NodeRec
  <2>3. RunningTrue(t, n)
    BY <2>2 DEF RunningTrue
  <2>4. \A b \in t.open : b[1] # n
    BY <1>4 DEF LedgerTrue
  <2>5. ~W!Cut(s)
    BY <1>7 DEF Requeues, W!Cut
  <2>6. k = s.node[n].eff /\ t.node[n].eff = k /\ t.inst[n][k].st = t.node[n].status
    BY <1>6, <1>7, <2>1, <2>2
  <2>7. t.open \subseteq s.open /\ \A b \in s.open : b[1] # n => b \in t.open
    BY <1>4
  <2>20. Keeps(s, t)
    <3> HIDE DEF n, k
    <3> QED BY <1>1, <1>4, <1>6, <2>3, <2>4, <2>5, <2>6, <2>7, TouchKeeps DEF i
  <2> QED BY <1>4, <2>20
<1>8. CASE ~Requeues(s, a)
  <2>1. t.node[n] = s.node[n] /\ t.inst[n][k].st = i.st
    BY <1>4, <1>6, <1>8
  <2>2. RunningTrue(t, n)
    <3>1. s.run \in {"running", "blocked", "cancelling", "cancelled"}
      <4>1. s.run \in RunStates /\ s.run \notin RunOver
        BY Fields DEF LedgerTrue
      <4> QED BY <4>1 DEF RunStates, RunOver
    <3>2. s.node[n].status = "running" => W!Cut(s)
      BY <1>1, <1>8, <3>1, RunningElsewhere DEF Requeues, OpenTrue, W!Cut
    <3> QED BY <1>4, <2>1, <3>2 DEF RunningTrue, W!Cut
  <2>3. \A b \in t.open : b[1] # n
    BY <1>4 DEF LedgerTrue
  <2>4. t.open \subseteq s.open /\ \A b \in s.open : b[1] # n => b \in t.open
    BY <1>4
  <2>5. NodeLasts(s.node[n], t.node[n])
    BY <2>1 DEF NodeLasts
  <2>20. Keeps(s, t)
    <3> HIDE DEF n, k, st
    <3> QED BY <1>1, <1>4, <1>6, <2>1, <2>2, <2>3, <2>4, <2>5, TouchKeeps DEF i
  <2> QED BY <1>4, <2>20
<1> QED BY <1>4, <1>7, <1>8

(* A cancelled node. *)
CancelCloses(s, t, n, k, byRun) ==
    /\ k # 0 /\ byRun => \A a \in t.open : <<a[1], a[2]>> # <<n, k>>
    /\ ~byRun => t.open = s.open

(* nodeCancelled keeps the ledger true; its attempt is open no more unless *)
(* the run was cancelled.                                                  *)
LEMMA CancelledTrue ==
    ASSUME NEW s \in Ledger, LedgerTrue(s), NEW n, NEW k, AtOrNone(s, n, k), NEW byRun \in BOOLEAN,
           k = 0 => s.node[n].eff = 0, byRun => W!Cut(s),
           NEW t, t = W!NodeCancelled(s, n, k, byRun)
    PROVE  /\ Keeps(s, t) /\ t.open \subseteq s.open /\ t.run = s.run /\ t.resolved = s.resolved
           /\ \A a \in s.open : a[1] # n \/ a[2] # k => a \in t.open
           /\ Edit(s, t, n, k)
           /\ CancelCloses(s, t, n, k, byRun)
           /\ s.node[n].status \notin W!Terminal /\ k = s.node[n].eff => t.node[n].status = "cancelled"
<1>1. n \in W!Node /\ s.node[n] \in NodeRec /\ NodeFine(s.node[n], s.inst[n]) /\ RunningTrue(s, n)
  BY Fields DEF AtOrNone, LedgerTrue
<1>2. /\ Edit(s, t, n, k) /\ t.run = s.run /\ t.resolved = s.resolved
      /\ t.open = IF byRun /\ k # 0 THEN s.open \ {W!Latest(s, n, k)} ELSE s.open
      /\ t.node[n] = IF Cancels(s, n, k) /\ (k = 0 \/ s.node[n].eff = k)
                     THEN Stated(s.node[n], "cancelled") ELSE s.node[n]
      /\ k # 0 => t.inst[n][k] = IF Cancels(s, n, k) THEN Standing(s.inst[n][k], "cancelled")
                                 ELSE s.inst[n][k]
  <2>1. Edit(s, t, n, k) /\ t.run = s.run /\ t.resolved = s.resolved /\ CancelEffect(s, t, n, k, byRun)
    BY CancelledIs
  <2> QED BY <2>1 DEF CancelEffect
<1>3. t.open \subseteq s.open /\ \A a \in s.open : a[1] # n \/ a[2] # k => a \in t.open
  BY <1>2 DEF W!Latest
<1>4. Cancels(s, n, k) /\ (k = 0 \/ s.node[n].eff = k) => t.node[n].status = "cancelled" /\ t.node[n].eff = s.node[n].eff
  BY <1>1, <1>2, StatedIs, Statuses
<1>5. RunningTrue(t, n)
  <2>1. CASE Cancels(s, n, k) /\ (k = 0 \/ s.node[n].eff = k)
    BY <1>4, <2>1 DEF RunningTrue
  <2>2. CASE byRun
    BY <1>2, <2>2 DEF RunningTrue, W!Cut
  <2>3. CASE ~byRun /\ ~(Cancels(s, n, k) /\ (k = 0 \/ s.node[n].eff = k))
    <3>1. t.node[n] = s.node[n] /\ t.open = s.open
      BY <1>2, <2>3
    <3>2. s.node[n].eff # 0 /\ s.node[n].eff # k => t.inst[n][s.node[n].eff] = s.inst[n][s.node[n].eff]
      BY <1>1, <1>2, Effective DEF Edit, IsInst
    <3>3. k # 0 /\ s.node[n].eff = k => t.inst[n][k] = s.inst[n][k]
      BY <1>2, <2>3
    <3>4. s.node[n].status = "running" => s.node[n].eff # 0
      BY <1>1 DEF NodeFine
    <3> QED BY <1>1, <1>2, <3>1, <3>2, <3>3, <3>4 DEF RunningTrue, W!Cut
  <2> QED BY <2>1, <2>2, <2>3
<1>6. W!Cut(s) => NodeLasts(s.node[n], t.node[n])
  BY <1>2, <1>4 DEF NodeLasts, Cancels
<1>7. Keeps(s, t)
  <2>1. CASE k # 0
    <3>1. IsInst(s, n, k) /\ s.inst[n][k] \in InstRec
      BY <2>1, Fields DEF AtOrNone
    <3>2. /\ t.inst[n][k].max = s.inst[n][k].max /\ t.inst[n][k].res = s.inst[n][k].res
          /\ t.inst[n][k].why = s.inst[n][k].why
          /\ t.inst[n][k].st = IF Cancels(s, n, k) THEN "cancelled" ELSE s.inst[n][k].st
      BY <1>2, <2>1, <3>1, StatedIs, Statuses
    <3>3. t.inst[n][k].why \in W!Node \cup {0}
      BY <1>1, <3>1, <3>2 DEF NodeFine, IsInst
    <3>4. Cancels(s, n, k) => k = s.node[n].eff
      BY <2>1, <3>1, EffectiveOnly DEF Cancels
    <3>5. \/ k = s.node[n].eff /\ t.node[n].eff = k /\ t.inst[n][k].st = t.node[n].status
          \/ t.node[n] = s.node[n] /\ t.inst[n][k].st = s.inst[n][k].st
      BY <1>2, <1>4, <3>2, <3>4
    <3>6. \A a \in t.open : a[1] = n /\ a[2] = k => t.inst[n][k].st \in {"running", "cancelled", "superseded"}
      BY <1>3, <3>2 DEF LedgerTrue, OpenTrue
    <3> QED BY <1>2, <1>3, <1>5, <1>6, <3>1, <3>2, <3>3, <3>5, <3>6, TouchKeeps
  <2>2. CASE k = 0
    <3>1. t.open = s.open /\ s.node[n].eff = 0 /\ t.node[n].eff = 0 /\ Len(s.inst[n]) \in Nat
      BY <1>1, <1>2, <1>4, <2>2, Fields
    <3>2. Len(t.inst[n]) = Len(s.inst[n]) /\ \A l \in 1..Len(s.inst[n]) : t.inst[n][l] = s.inst[n][l]
      BY <1>2, <2>2, <3>1 DEF Edit
    <3>3. t.node[n].status \in {"pending", "skipped", "cancelled"} /\ ~t.node[n].cleared
      <4>1. s.node[n].status \in {"pending", "skipped", "cancelled"} /\ ~s.node[n].cleared
        BY <1>1, <3>1 DEF NodeFine
      <4>2. t.node[n].status \in {s.node[n].status, "cancelled"} /\ t.node[n].cleared = s.node[n].cleared
        <5>1. /\ Stated(s.node[n], "cancelled").status = "cancelled"
              /\ Stated(s.node[n], "cancelled").cleared = s.node[n].cleared
          BY <1>1, StatedIs, Statuses
        <5>2. t.node[n] \in {s.node[n], Stated(s.node[n], "cancelled")}
          BY <1>2
        <5> QED BY ONLY <5>1, <5>2
      <4> QED BY <4>1, <4>2
    <3>4. NodeFine(t.node[n], t.inst[n])
      <4>1. \A l \in 1..Len(t.inst[n]) : /\ l # 0 => t.inst[n][l].st = "superseded"
                                         /\ t.inst[n][l].res => t.inst[n][l].max # 0
                                         /\ t.inst[n][l].why \in W!Node \cup {0}
        BY <1>1, <3>1, <3>2 DEF NodeFine
      <4> QED BY <3>1, <3>2, <3>3, <4>1 DEF NodeFine
    <3>5. ASSUME NEW a \in t.open, a[1] = n PROVE OpenTrue(t, a)
      <4>1. OpenTrue(s, a)
        BY <3>1 DEF LedgerTrue
      <4> QED BY <3>1, <3>2, <3>5, <4>1 DEF OpenTrue, IsInst
    <3>6. LedgerTrue(t)
      <4>1. \A a, b \in t.open : a[1] = n /\ b[1] = n => a = b
        BY <3>1 DEF LedgerTrue
      <4>2. (t.run \in RunOver => t.open = {}) /\ (W!Cut(s) => W!Cut(t))
        BY <1>2, <3>1 DEF LedgerTrue, W!Cut
      <4>3. \A a \in Triples : a[1] # n => (a \in t.open <=> a \in s.open)
        BY <3>1
      <4> QED BY <1>1, <1>2, <1>5, <3>4, <3>5, <4>1, <4>2, <4>3, EditKeeps
    <3>7. Lasting(s, t) /\ CutLasts(s, t)
      <4>1. IsInst(s, n, k) /\ s.inst[n][k].st = "superseded" => t.inst[n][k].st = "superseded"
        BY <3>2 DEF IsInst
      <4>2. W!Cut(s) => W!Cut(t) /\ NodeLasts(s.node[n], t.node[n])
        BY <1>2, <1>6 DEF W!Cut
      <4> QED BY <1>1, <1>2, <4>1, <4>2, EditLasts
    <3> QED BY <1>2, <3>6, <3>7 DEF Keeps, Edit
  <2> QED BY <2>1, <2>2
<1>8. k # 0 /\ byRun => \A a \in t.open : <<a[1], a[2]>> # <<n, k>>
  <2>1. ASSUME k # 0, byRun, NEW a \in t.open, a[1] = n, a[2] = k PROVE FALSE
    <3>1. a \in s.open /\ a # W!Latest(s, n, k)
      BY <1>2, <2>1
    <3> QED BY <2>1, <3>1, OpenFacts
  <2> QED BY <2>1
<1>9. s.node[n].status \notin W!Terminal /\ k = s.node[n].eff => t.node[n].status = "cancelled"
  <2>1. ASSUME s.node[n].status \notin W!Terminal, k = s.node[n].eff PROVE Cancels(s, n, k)
    <3>1. k # 0 => s.inst[n][k].st = s.node[n].status
      BY <1>1, <2>1, Statuses DEF NodeFine
    <3> QED BY <1>1, <2>1, <3>1, Statuses DEF Cancels, NodeRec
  <2> QED BY <1>4, <2>1
<1> QED BY <1>2, <1>3, <1>7, <1>8, <1>9 DEF CancelCloses

(* A retried node. *)
LEMMA RetriedTrue ==
    ASSUME NEW s \in Ledger, LedgerTrue(s), NEW n \in W!Node, s.node[n].status = "blocked", ~W!Cut(s),
           NEW t, t = W!RetryRequested(s, n)
    PROVE  /\ Keeps(s, t) /\ t.open = s.open /\ t.resolved = s.resolved
           /\ t.run = (IF s.run = "blocked" THEN "running" ELSE s.run)
           /\ s.node[n].eff # 0 /\ Edit(s, t, n, s.node[n].eff)
<1> DEFINE k == s.node[n].eff
           i == s.inst[n][k]
<1>1. s.node[n] \in NodeRec /\ NodeFine(s.node[n], s.inst[n]) /\ k # 0 /\ IsInst(s, n, k) /\ Len(s.inst[n]) \in Nat /\ k \in Nat
  BY Effective, Statuses DEF NodeFine
<1>2. /\ Edit(s, t, n, k) /\ t.open = s.open /\ t.resolved = s.resolved
      /\ t.run = (IF s.run = "blocked" THEN "running" ELSE s.run)
      /\ t.node[n] = [s.node[n] EXCEPT !.status = "pending"]
      /\ t.inst[n][k] = W!Reserved(i)
  BY <1>1, RetriedIs
<1>3. i \in InstRec /\ k \in 1..Len(s.inst[n]) /\ Len(t.inst[n]) = Len(s.inst[n])
  BY <1>1, <1>2, Fields DEF Edit, IsInst
<1> HIDE DEF i, k
<1>4. t.node[n].status = "pending" /\ t.node[n].eff = k
  BY <1>1, <1>2 DEF NodeRec, k
<1>5. t.inst[n][k].st = "pending" /\ t.inst[n][k].max # 0 /\ t.inst[n][k].why = i.why
  <2>1. i.max + 1 # 0
    BY <1>3 DEF InstRec
  <2> DEFINE x == i.max + 1
  <2>2. t.inst[n][k] = [i EXCEPT !.st = "pending", !.max = x, !.res = TRUE]
    BY <1>2 DEF W!Reserved
  <2> HIDE DEF x
  <2>3. t.inst[n][k].st = "pending" /\ t.inst[n][k].max = x /\ t.inst[n][k].why = i.why
    BY <1>3, <2>2 DEF InstRec
  <2> QED BY <2>1, <2>3 DEF x
<1>6. NodeFine(t.node[n], t.inst[n])
  <2>1. ASSUME NEW l \in 1..Len(t.inst[n]), l # k
        PROVE  t.inst[n][l].st = "superseded" /\ (t.inst[n][l].res => t.inst[n][l].max # 0) /\ t.inst[n][l].why \in W!Node \cup {0}
    <3>1. t.inst[n][l] = s.inst[n][l]
      BY <1>2, <1>3, <2>1 DEF Edit
    <3> QED BY <1>1, <1>3, <2>1, <3>1 DEF NodeFine, k
  <2>2. i.why \in W!Node \cup {0}
    BY <1>1, <1>3 DEF NodeFine, i
  <2>3. k <= Len(t.inst[n])
    BY <1>1, <1>3
  <2> QED BY <1>1, <1>4, <1>5, <2>1, <2>2, <2>3 DEF NodeFine
<1>7. RunningTrue(t, n)
  BY <1>4 DEF RunningTrue
<1>8. ASSUME NEW a \in t.open, a[1] = n PROVE OpenTrue(t, a)
  <2>1. OpenTrue(s, a) /\ a[2] # k
    BY <1>2, <1>8, NotOpen DEF LedgerTrue, k
  <2>2. t.inst[n][a[2]] = s.inst[n][a[2]]
    BY <1>2, <1>8, <2>1 DEF OpenTrue, IsInst, Edit
  <2> QED BY <1>3, <1>8, <2>1, <2>2 DEF OpenTrue, IsInst
<1>9. LedgerTrue(t)
  <2>1. \A a, b \in t.open : a[1] = n /\ b[1] = n => a = b
    BY <1>2 DEF LedgerTrue
  <2>2. (t.run \in RunOver => t.open = {}) /\ (W!Cut(s) => W!Cut(t))
    BY <1>2 DEF LedgerTrue, RunOver
  <2>3. \A a \in Triples : a[1] # n => (a \in t.open <=> a \in s.open)
    BY <1>2
  <2> QED BY <1>1, <1>2, <1>6, <1>7, <1>8, <2>1, <2>2, <2>3, EditKeeps
<1>10. Lasting(s, t) /\ CutLasts(s, t)
  <2>1. s.inst[n][k].st # "superseded"
    BY <1>1, Statuses DEF NodeFine, k
  <2> QED BY <1>2, <2>1, EditLasts
<1> QED BY <1>1, <1>2, <1>9, <1>10 DEF Keeps, Edit, k

(* A superseded instance. *)
LEMMA SupersededTrue ==
    ASSUME NEW s \in Ledger, LedgerTrue(s), NEW n \in W!Node, NEW k, k = s.node[n].eff, k # 0, ~W!Cut(s),
           NEW t, t = W!Superseded(s, n, k)
    PROVE  /\ Keeps(s, t) /\ t.open = s.open /\ t.resolved = s.resolved
           /\ t.run \in {s.run, "running"} /\ t.node[n] = W!NoNode /\ Edit(s, t, n, k)
           /\ t.inst[n][k].st = "superseded"
           /\ t.run # s.run => s.run = "blocked"
<1>1. s.node[n] \in NodeRec /\ NodeFine(s.node[n], s.inst[n]) /\ IsInst(s, n, k) /\ Len(s.inst[n]) \in Nat /\ k \in Nat
  BY Effective
<1>2. /\ Edit(s, t, n, k) /\ t.open = s.open /\ t.resolved = s.resolved
      /\ t.run = (IF s.run = "blocked" /\ s.blocked = n THEN "running" ELSE s.run)
      /\ t.node[n] = W!NoNode
      /\ t.inst[n][k] = [s.inst[n][k] EXCEPT !.st = "superseded"]
  BY <1>1, SupersededIs
<1>3. s.inst[n][k] \in InstRec /\ k \in 1..Len(s.inst[n]) /\ Len(t.inst[n]) = Len(s.inst[n])
  <2>1. Edit(s, t, n, k) /\ IsInst(s, n, k)
    BY <1>1, <1>2
  <2> QED BY ONLY s \in Ledger, <2>1, Fields DEF Edit, IsInst
<1>4. /\ t.inst[n][k].st = "superseded" /\ t.inst[n][k].max = s.inst[n][k].max /\ t.inst[n][k].res = s.inst[n][k].res
      /\ t.inst[n][k].why = s.inst[n][k].why
  BY <1>2, <1>3 DEF InstRec
<1>5. t.node[n].eff = 0 /\ t.node[n].status = "pending" /\ ~t.node[n].cleared
  <2>1. t.node[n] = W!NoNode
    BY <1>2
  <2> QED BY ONLY <2>1 DEF W!NoNode
<1>6. NodeFine(t.node[n], t.inst[n])
  <2>1. ASSUME NEW l \in 1..Len(t.inst[n])
        PROVE  t.inst[n][l].st = "superseded" /\ (t.inst[n][l].res => t.inst[n][l].max # 0) /\ t.inst[n][l].why \in W!Node \cup {0}
    <3>1. CASE l # k
      <4>1. t.inst[n][l] = s.inst[n][l]
        <5>1. Edit(s, t, n, k)
          BY <1>2
        <5> QED BY ONLY <1>3, <5>1, <2>1, <3>1, n \in W!Node DEF Edit
      <4>2. l # s.node[n].eff
        BY <3>1
      <4> QED BY ONLY <1>1, <1>3, <2>1, <4>1, <4>2 DEF NodeFine
    <3>2. CASE l = k
      BY ONLY <1>1, <1>3, <1>4, <3>2 DEF NodeFine
    <3> QED BY ONLY <3>1, <3>2
  <2>2. 0 <= Len(t.inst[n])
    BY <1>1, <1>3
  <2> QED BY ONLY <1>5, <2>1, <2>2 DEF NodeFine
<1>7. RunningTrue(t, n)
  BY <1>5 DEF RunningTrue
<1>8. ASSUME NEW a \in t.open, a[1] = n PROVE OpenTrue(t, a)
  <2>1. OpenTrue(s, a)
    BY <1>2, <1>8 DEF LedgerTrue
  <2>2. a[2] # k => t.inst[n][a[2]] = s.inst[n][a[2]]
    BY <1>2, <1>8, <2>1 DEF OpenTrue, IsInst, Edit
  <2> QED BY ONLY <1>3, <1>4, <1>8, <2>1, <2>2 DEF OpenTrue, IsInst
<1>9. LedgerTrue(t)
  <2>0. t.open = s.open /\ Edit(s, t, n, k) /\ n \in W!Node
    BY <1>1, <1>2 DEF IsInst
  <2>1. \A a, b \in t.open : a[1] = n /\ b[1] = n => a = b
    BY <2>0 DEF LedgerTrue
  <2>2. (t.run \in RunOver => t.open = {}) /\ (W!Cut(s) => W!Cut(t))
    BY <1>2 DEF LedgerTrue, RunOver
  <2>3. \A a \in Triples : a[1] # n => (a \in t.open <=> a \in s.open)
    BY <2>0
  <2>4. \A a \in t.open : a[1] = n => OpenTrue(t, a)
    BY <1>8
  <2> QED BY ONLY s \in Ledger, LedgerTrue(s), <1>6, <1>7, <2>0, <2>1, <2>2, <2>3, <2>4, EditKeeps
<1>10. Lasting(s, t) /\ CutLasts(s, t)
  <2>1. Edit(s, t, n, k) /\ n \in W!Node
    BY <1>1, <1>2 DEF IsInst
  <2> QED BY ONLY s \in Ledger, ~W!Cut(s), <2>1, <1>4, EditLasts
<1> QED BY <1>1, <1>2, <1>4, <1>9, <1>10 DEF Keeps, Edit

(* A gate that waits. *)
LEMMA GatedTrue ==
    ASSUME NEW s \in Ledger, LedgerTrue(s), NEW n \in W!Node, NEW k, k = InstFor(s, n), ~W!Cut(s),
           s.node[n].status = "pending",
           NEW t, t = W!GateDispatched(s, n, k)
    PROVE  /\ Keeps(s, t) /\ t.open = s.open /\ t.resolved = s.resolved /\ t.run = s.run
           /\ t # s => /\ Edit(s, t, n, k) /\ IsInst(t, n, k) /\ t.node[n] = Taken(s.node[n], "gateWaiting", k)
<1>1. AtOrNext(s, n, k)
  BY InstForIs
<1>2. CASE <<n, k>> \in s.resolved
  <2>1. t = s
    BY <1>2 DEF W!GateDispatched
  <2> QED BY <2>1, KeepsItself
<1>3. CASE <<n, k>> \notin s.resolved
  <2>1. /\ Edit(s, t, n, k) /\ IsInst(t, n, k)
        /\ t.node[n] = Taken(s.node[n], "gateWaiting", k)
        /\ t.inst[n][k] = [Base(s, n, k) EXCEPT !.st = "gateWaiting"]
        /\ t.run = s.run /\ t.open = s.open /\ t.resolved = s.resolved
    BY <1>1, <1>3, GatedIs
  <2>2. /\ s.node[n] \in NodeRec /\ Base(s, n, k) \in InstRec /\ NodeFine(s.node[n], s.inst[n]) /\ k \in Nat /\ k # 0
        /\ Len(s.inst[n]) \in Nat /\ Len(t.inst[n]) = (IF k <= Len(s.inst[n]) THEN Len(s.inst[n]) ELSE k)
    BY <1>1, <2>1, Effective, BaseIs DEF Edit
  <2>3. t.node[n].eff = k /\ t.node[n].status = "gateWaiting"
    <3>1. "gateWaiting" \in W!NodeStatus
      BY Statuses
    <3> QED BY <2>1, <2>2, <3>1, TakenIs
  <2>4. /\ t.inst[n][k].st = "gateWaiting" /\ t.inst[n][k].max = Base(s, n, k).max /\ t.inst[n][k].res = Base(s, n, k).res
        /\ t.inst[n][k].why = Base(s, n, k).why
    BY <2>1, <2>2 DEF InstRec
  <2>5. NodeFine(t.node[n], t.inst[n])
    <3>2. ASSUME NEW l \in 1..Len(t.inst[n]), l # k
          PROVE  t.inst[n][l].st = "superseded" /\ (t.inst[n][l].res => t.inst[n][l].max # 0) /\ t.inst[n][l].why \in W!Node \cup {0}
      <4>1. l \in 1..Len(s.inst[n]) /\ l # s.node[n].eff
        <5>1. k \in 1..Len(s.inst[n]) + 1
          BY <1>1 DEF AtOrNext
        <5>2. l \in 1..Len(s.inst[n])
          BY <2>2, <3>2, <5>1
        <5> QED BY <3>2, <5>2, InstForIs
      <4>2. t.inst[n][l] = s.inst[n][l]
        BY <2>1, <3>2, <4>1 DEF Edit
      <4> QED BY <2>2, <4>1, <4>2 DEF NodeFine
    <3>3. Base(s, n, k).why \in W!Node \cup {0} /\ (Base(s, n, k).res => Base(s, n, k).max # 0)
      <4>1. CASE k <= Len(s.inst[n])
        BY <2>2, <4>1 DEF NodeFine, Base
      <4>2. CASE ~(k <= Len(s.inst[n]))
        BY <4>2 DEF Base, W!NewInstance
      <4> QED BY <4>1, <4>2
    <3>4. k <= Len(t.inst[n])
      BY <2>2
    <3> QED BY <2>2, <2>3, <2>4, <3>2, <3>3, <3>4 DEF NodeFine
  <2>6. RunningTrue(t, n)
    BY <2>3 DEF RunningTrue
  <2>7. ASSUME NEW b \in t.open, b[1] = n PROVE OpenTrue(t, b)
    <3>1. OpenTrue(s, b) /\ b[2] # s.node[n].eff
      BY <2>1, <2>7, NotOpen DEF LedgerTrue
    <3>2. b[2] \in 1..Len(s.inst[n])
      BY <2>7, <3>1 DEF OpenTrue, IsInst
    <3>3. b[2] # k
      BY <2>2, <3>1, <3>2 DEF InstFor
    <3>4. t.inst[n][b[2]] = s.inst[n][b[2]] /\ b[2] \in 1..Len(t.inst[n])
      BY <2>1, <2>2, <3>2, <3>3 DEF Edit
    <3> QED BY <2>7, <3>1, <3>4 DEF OpenTrue, IsInst
  <2>8. LedgerTrue(t)
    <3>1. \A a, b \in t.open : a[1] = n /\ b[1] = n => a = b
      BY <2>1 DEF LedgerTrue
    <3>2. (t.run \in RunOver => t.open = {}) /\ (W!Cut(s) => W!Cut(t))
      BY <2>1 DEF LedgerTrue, W!Cut
    <3>3. \A a \in Triples : a[1] # n => (a \in t.open <=> a \in s.open)
      BY <2>1
    <3> QED BY <2>1, <2>5, <2>6, <2>7, <3>1, <3>2, <3>3, EditKeeps
  <2>9. Lasting(s, t) /\ CutLasts(s, t)
    <3>1. IsInst(s, n, k) => s.inst[n][k].st # "superseded"
      <4>1. ASSUME IsInst(s, n, k) PROVE k = s.node[n].eff
        <5>1. k # Len(s.inst[n]) + 1
          BY <2>2, <4>1 DEF IsInst
        <5> QED BY <5>1 DEF InstFor
      <4>2. k = s.node[n].eff => s.inst[n][k].st = "pending"
        BY <2>2 DEF NodeFine
      <4> QED BY <4>1, <4>2
    <3> QED BY <2>1, <3>1, EditLasts
  <2> QED BY <2>1, <2>8, <2>9 DEF Keeps, Edit
<1> QED BY <1>2, <1>3

(* A resolved gate. *)
GateEffect(s, t, n, k, res) ==
    /\ s.resolved \subseteq t.resolved /\ t.resolved \subseteq s.resolved \cup {<<n, k>>}
    /\ t.node[n] \in {s.node[n], W!Decided(s.node[n], res)}
    /\ W!Cut(s) \/ <<n, k>> \in t.resolved

(* gateResolved of a node that waits for it keeps the ledger true. *)
LEMMA ResolvedTrue ==
    ASSUME NEW s \in Ledger, LedgerTrue(s), NEW n \in W!Node, NEW k, k = s.node[n].eff,
           s.node[n].status = "gateWaiting", NEW res, NEW t, t = W!GateResolved(s, n, k, res)
    PROVE  /\ Keeps(s, t) /\ t.open = s.open /\ t.run = s.run
           /\ Edit(s, t, n, k) /\ GateEffect(s, t, n, k, res)
<1>1. s.node[n] \in NodeRec /\ NodeFine(s.node[n], s.inst[n]) /\ IsInst(s, n, k) /\ Len(s.inst[n]) \in Nat /\ k \in Nat /\ k # 0
  BY Effective DEF NodeFine
<1>2. CASE W!Cut(s) \/ <<n, k>> \in s.resolved
  <2>1. t = s
    BY <1>2 DEF W!GateResolved
  <2>2. Edit(s, s, n, k)
    BY <1>1, NoneEdited DEF AtOrNone
  <2> QED BY <1>2, <2>1, <2>2, KeepsItself DEF GateEffect
<1>3. CASE ~(W!Cut(s) \/ <<n, k>> \in s.resolved)
  <2>1. /\ Edit(s, t, n, k) /\ t.open = s.open /\ t.resolved = s.resolved \cup {<<n, k>>}
        /\ t.run = s.run /\ t.node[n] = W!Decided(s.node[n], res)
        /\ t.inst[n][k] = Standing(s.inst[n][k], W!Decision(res))
    BY <1>1, <1>3, ResolvedIs
  <2> DEFINE st == W!Decision(res)
  <2>2. st \in {"pending", "failed"}
    BY DEF W!Decision
  <2>3. t.node[n].status = st /\ t.node[n].eff = k
    <3> DEFINE c == s.node[n].cleared \/ res = "approved"
    <3>1. t.node[n] = [s.node[n] EXCEPT !.status = st, !.cleared = c]
      BY <2>1 DEF W!Decided
    <3> HIDE DEF c, st
    <3> QED BY <1>1, <3>1 DEF NodeRec
  <2>4. s.inst[n][k] \in InstRec
    BY <1>1, Fields
  <2> HIDE DEF st
  <2>5. /\ t.inst[n][k].st = st /\ t.inst[n][k].max = s.inst[n][k].max /\ t.inst[n][k].res = s.inst[n][k].res
        /\ t.inst[n][k].why = s.inst[n][k].why
    <3>1. t.inst[n][k] = Standing(s.inst[n][k], st)
      BY <2>1 DEF st
    <3>2. st \in W!NodeStatus
      BY <2>2, Statuses
    <3> QED BY ONLY <2>4, <3>1, <3>2, StatedIs
  <2>6. t.inst[n][k].why \in W!Node \cup {0}
    BY <1>1, <2>5 DEF NodeFine, IsInst
  <2>7. k = s.node[n].eff /\ t.node[n].eff = k /\ t.inst[n][k].st = t.node[n].status
    BY <2>3, <2>5
  <2>8. \A a \in t.open : a[1] = n /\ a[2] = k => FALSE
    BY <2>1, NotOpen
  <2>9. RunningTrue(t, n)
    BY <2>2, <2>3 DEF RunningTrue
  <2>10. Keeps(s, t)
    <3> HIDE DEF RunningTrue
    <3> QED BY <1>1, <1>3, <2>1, <2>5, <2>6, <2>7, <2>8, <2>9, TouchKeeps
  <2> QED BY <2>1, <2>10 DEF GateEffect
<1> QED BY <1>2, <1>3

(* A skipped node. *)
LEMMA SkippedTrue ==
    ASSUME NEW s \in Ledger, LedgerTrue(s), NEW n \in W!Node, s.node[n].status = "pending",
           NEW t, t = W!NodeSkipped(s, n)
    PROVE  /\ Keeps(s, t) /\ t.open = s.open /\ t.run = s.run /\ t.inst = s.inst /\ t.resolved = s.resolved
           /\ Edit(s, t, n, 0)
           /\ t.node[n] = (IF W!Cut(s) THEN s.node[n] ELSE Stated(s.node[n], "skipped"))
<1>1. /\ Edit(s, t, n, 0) /\ t.inst = s.inst /\ t.open = s.open /\ t.resolved = s.resolved /\ t.run = s.run
      /\ t.node[n] = (IF W!Cut(s) THEN s.node[n] ELSE Stated(s.node[n], "skipped"))
  <2>1. s.node[n].status \notin W!Terminal
    BY Statuses
  <2> QED BY <2>1, SkippedIs DEF Stated
<1>2. s.node[n] \in NodeRec /\ NodeFine(s.node[n], s.inst[n]) /\ Len(s.inst[n]) \in Nat
  BY Effective
<1>3. /\ t.node[n].eff = s.node[n].eff /\ t.node[n].cleared = s.node[n].cleared
      /\ t.node[n].status \in {"pending", "skipped"}
  BY <1>1, <1>2 DEF NodeRec, Stated
<1>4. NodeFine(t.node[n], t.inst[n])
  <2>1. t.node[n].eff # 0 => t.inst[n][t.node[n].eff].st = "pending"
    BY <1>1, <1>2, <1>3 DEF NodeFine
  <2>2. t.inst[n] = s.inst[n]
    BY <1>1
  <2> QED BY ONLY <1>2, <1>3, <2>1, <2>2, s.node[n].status = "pending" DEF NodeFine
<1>5. RunningTrue(t, n)
  BY <1>3 DEF RunningTrue
<1>6. LedgerTrue(t)
  <2>1. \A a, b \in t.open : a[1] = n /\ b[1] = n => a = b
    BY <1>1 DEF LedgerTrue
  <2>2. (t.run \in RunOver => t.open = {}) /\ (W!Cut(s) => W!Cut(t))
    BY <1>1 DEF LedgerTrue, W!Cut
  <2>3. \A a \in Triples : a[1] # n => (a \in t.open <=> a \in s.open)
    BY <1>1
  <2>4. \A a \in t.open : a[1] = n => OpenTrue(t, a)
    BY <1>1 DEF LedgerTrue, OpenTrue, IsInst
  <2> QED BY <1>1, <1>4, <1>5, <2>1, <2>2, <2>3, <2>4, EditKeeps
<1>7. Lasting(s, t) /\ CutLasts(s, t)
  <2>1. IsInst(s, n, 0) => FALSE
    BY DEF IsInst
  <2>2. W!Cut(s) => W!Cut(t) /\ NodeLasts(s.node[n], t.node[n])
    BY <1>1 DEF NodeLasts, W!Cut
  <2> QED BY <1>1, <2>1, <2>2, EditLasts
<1> QED BY <1>1, <1>6, <1>7 DEF Keeps, Edit

(* A dispatch. *)
LEMMA DispatchKeeps ==
    ASSUME NEW s \in Ledger, LedgerTrue(s), NEW n \in W!Node, NEW k, NEW a \in Nat, a # 0,
           s.run = "running", s.node[n].status = "pending",
           k = InstFor(s, n),
           \A b \in s.open : b[1] # n,
           NEW t, t = W!NodeDispatched(s, n, k, a)
    PROVE  /\ Keeps(s, t) /\ t.open = s.open \cup {<<n, k, a>>} /\ t.run = s.run /\ t.resolved = s.resolved
           /\ Edit(s, t, n, k) /\ IsInst(t, n, k) /\ t.node[n] = Taken(s.node[n], "running", k)
           /\ t.inst[n][k] = Begun(Base(s, n, k), a)
<1>1. AtOrNext(s, n, k) /\ LedgerTrue(t) /\ ~W!Cut(s)
  BY InstForIs, DispatchedTrue DEF W!Cut
<1>2. /\ Edit(s, t, n, k) /\ IsInst(t, n, k)
      /\ t.node[n] = Taken(s.node[n], "running", k) /\ t.inst[n][k] = Begun(Base(s, n, k), a)
      /\ t.run = s.run /\ t.open = s.open \cup {<<n, k, a>>} /\ t.resolved = s.resolved
  BY <1>1, DispatchedIs
<1>3. Lasting(s, t) /\ CutLasts(s, t)
  <2>1. IsInst(s, n, k) => s.inst[n][k].st # "superseded"
    <3>1. NodeFine(s.node[n], s.inst[n]) /\ Len(s.inst[n]) \in Nat
      BY Effective
    <3>2. ASSUME IsInst(s, n, k) PROVE k = s.node[n].eff /\ k # 0
      <4>1. k # Len(s.inst[n]) + 1 /\ k # 0
        BY <3>1, <3>2 DEF IsInst
      <4> QED BY <4>1 DEF InstFor
    <3>3. k = s.node[n].eff /\ k # 0 => s.inst[n][k].st = "pending"
      BY <3>1 DEF NodeFine
    <3> QED BY <3>2, <3>3
  <2> QED BY <1>1, <1>2, <2>1, EditLasts
<1> QED BY <1>1, <1>2, <1>3 DEF Keeps, Edit

(* Events that touch no node and close no attempt. *)
LEMMA RestKeeps ==
    ASSUME NEW s \in Ledger, LedgerTrue(s), NEW t \in Ledger, t.node = s.node, t.inst = s.inst, t.open = s.open,
           W!Cut(s) => W!Cut(t), t.run \in RunOver => t.open = {}
    PROVE  Keeps(s, t)
<1>1. LedgerTrue(t)
  BY DEF LedgerTrue, OpenTrue, RunningTrue, IsInst
<1>2. Lasting(s, t) /\ CutLasts(s, t)
  BY DEF Lasting, CutLasts, NodeLasts, IsInst
<1> QED BY <1>1, <1>2 DEF Keeps

(* The request of a cancellation. *)
LEMMA CancelRequestedTrue ==
    ASSUME NEW s \in Ledger, LedgerTrue(s), NEW t, t = W!RunCancelRequested(s)
    PROVE  /\ Keeps(s, t) /\ t.node = s.node /\ t.inst = s.inst /\ t.open = s.open
           /\ t.resolved = s.resolved /\ t.edges = s.edges /\ t.left = s.left /\ t.leftRun = s.leftRun
           /\ t.run = (IF W!Cut(s) \/ s.run \in {"succeeded", "failed"} THEN s.run ELSE "cancelling")
<1>1. CASE W!Cut(s) \/ s.run \in {"succeeded", "failed"}
  BY <1>1, KeepsItself DEF W!RunCancelRequested
<1>2. CASE ~(W!Cut(s) \/ s.run \in {"succeeded", "failed"})
  <2>1. t = [s EXCEPT !.run = "cancelling", !.blocked = 0]
    BY <1>2 DEF W!RunCancelRequested
  <2>2. /\ t \in Ledger /\ t.node = s.node /\ t.inst = s.inst /\ t.open = s.open /\ t.run = "cancelling"
        /\ t.resolved = s.resolved /\ t.edges = s.edges /\ t.left = s.left /\ t.leftRun = s.leftRun
    <3>1. t = WithRest(s, "cancelling", 0, s.open, s.resolved)
      BY <2>1 DEF WithRest, Ledger
    <3>2. "cancelling" \in RunStates /\ 0 \in Nat /\ s.open \in SUBSET Triples /\ s.resolved \in SUBSET (W!Node \X Nat)
      BY Fields DEF RunStates
    <3> QED BY <3>1, <3>2, RestIs
  <2>3. Keeps(s, t)
    <3>1. W!Cut(t) /\ t.run \notin RunOver
      BY <2>2 DEF W!Cut, RunOver
    <3> QED BY <2>2, <3>1, RestKeeps
  <2> QED BY <1>2, <2>2, <2>3
<1> QED BY <1>1, <1>2

(* Events for several nodes. *)
Combines(s, t, X, f) ==
    /\ \A n \in X : t.node[n] = f[n].node[n] /\ t.inst[n] = f[n].inst[n]
    /\ \A n \in W!Node \ X : t.node[n] = s.node[n] /\ t.inst[n] = s.inst[n]
    /\ \A a : a \in t.open <=> a \in s.open /\ \A n \in X : a \in f[n].open
    /\ \A w : w \in t.resolved <=> w \in s.resolved \/ \E n \in X : w \in f[n].resolved

(* The ledger after the events of several nodes: each node has its own *)
(* effect.                                                             *)
LEMMA TogetherIs ==
    ASSUME NEW s \in Ledger, NEW X \in SUBSET W!Node, NEW f, DOMAIN f = X,
           \A n \in X : f[n] \in Ledger,
           NEW t, t = W!Together(s, f)
    PROVE  /\ t \in Ledger /\ t.run = s.run /\ t.blocked = s.blocked /\ t.edges = s.edges
           /\ t.left = s.left /\ t.leftRun = s.leftRun
           /\ Combines(s, t, X, f)
<1> DEFINE nodes == [n \in DOMAIN s.node |-> IF n \in DOMAIN f THEN f[n].node[n] ELSE s.node[n]]
           insts == [n \in DOMAIN s.inst |-> IF n \in DOMAIN f THEN f[n].inst[n] ELSE s.inst[n]]
           opens == {a \in s.open : \A n \in DOMAIN f : a \in f[n].open}
           res == s.resolved \cup UNION {f[n].resolved : n \in DOMAIN f}
<1>1. t = [s EXCEPT !.node = nodes, !.inst = insts, !.open = opens, !.resolved = res]
  BY DEF W!Together
<1>2. DOMAIN s.node = W!Node /\ DOMAIN s.inst = W!Node
  BY DEF Ledger
<1>3. \A n \in X : f[n].node[n] \in NodeRec /\ f[n].inst[n] \in Seq(InstRec) /\ f[n].resolved \in SUBSET (W!Node \X Nat)
  BY Fields
<1>4. \A n \in W!Node : s.node[n] \in NodeRec /\ s.inst[n] \in Seq(InstRec)
  BY Fields
<1>5. nodes \in [W!Node -> NodeRec]
  <2> HIDE DEF NodeRec
  <2> QED BY <1>2, <1>3, <1>4
<1>6. insts \in [W!Node -> Seq(InstRec)]
  BY <1>2, <1>3, <1>4
<1>7. opens \in SUBSET Triples /\ res \in SUBSET (W!Node \X Nat)
  BY <1>3, Fields
<1>8. /\ \A n \in X : nodes[n] = f[n].node[n] /\ insts[n] = f[n].inst[n]
      /\ \A n \in W!Node \ X : nodes[n] = s.node[n] /\ insts[n] = s.inst[n]
  BY <1>2
<1>9. /\ \A a : a \in opens <=> a \in s.open /\ \A n \in X : a \in f[n].open
      /\ \A w : w \in res <=> w \in s.resolved \/ \E n \in X : w \in f[n].resolved
  OBVIOUS
<1> HIDE DEF nodes, insts, opens, res
<1>10. /\ t.node = nodes /\ t.inst = insts /\ t.open = opens /\ t.resolved = res /\ t.run = s.run
       /\ t.blocked = s.blocked /\ t.edges = s.edges /\ t.left = s.left /\ t.leftRun = s.leftRun
       /\ t \in Ledger
  <2>1. t = [run |-> s.run, blocked |-> s.blocked, node |-> nodes, inst |-> insts, open |-> opens,
             edges |-> s.edges, resolved |-> res, left |-> s.left, leftRun |-> s.leftRun]
    BY ONLY <1>1, s \in Ledger DEF Ledger
  <2>2. t \in Ledger
    <3>1. /\ s.run \in RunStates /\ s.blocked \in Nat /\ s.edges \in SUBSET (W!Node \X Nat \X W!Node \X BOOLEAN)
          /\ s.left \in [W!Pair -> Nat] /\ s.leftRun \in Nat
      BY ONLY s \in Ledger DEF Ledger
    <3> QED BY ONLY <1>5, <1>6, <1>7, <2>1, <3>1 DEF Ledger
  <2> QED BY ONLY <2>1, <2>2
<1> QED BY ONLY <1>8, <1>9, <1>10 DEF Combines

(* They keep what each of them keeps. *)
LEMMA TogetherKeeps ==
    ASSUME NEW s \in Ledger, LedgerTrue(s), NEW X \in SUBSET W!Node, NEW f, DOMAIN f = X,
           \A n \in X : /\ Keeps(s, f[n]) /\ f[n].run = s.run /\ f[n].open \subseteq s.open
                        /\ \A a \in s.open : a[1] # n => a \in f[n].open,
           NEW t, t = W!Together(s, f)
    PROVE  Keeps(s, t) /\ t.run = s.run /\ t.open \subseteq s.open
<1>1. \A n \in X : f[n] \in Ledger
  BY DEF Keeps
<1>2. /\ t \in Ledger /\ t.run = s.run
      /\ \A n \in X : t.node[n] = f[n].node[n] /\ t.inst[n] = f[n].inst[n]
      /\ \A n \in W!Node \ X : t.node[n] = s.node[n] /\ t.inst[n] = s.inst[n]
      /\ \A a : a \in t.open <=> a \in s.open /\ \A n \in X : a \in f[n].open
  <2>1. t \in Ledger /\ t.run = s.run /\ Combines(s, t, X, f)
    BY <1>1, TogetherIs
  <2> QED BY <2>1 DEF Combines
<1>3. ASSUME NEW n \in W!Node PROVE NodeFine(t.node[n], t.inst[n]) /\ RunningTrue(t, n)
  <2>1. CASE n \notin X
    <3>1. NodeFine(s.node[n], s.inst[n]) /\ RunningTrue(s, n)
      BY DEF LedgerTrue
    <3>2. ASSUME NEW a \in s.open, a[1] = n PROVE a \in t.open
      BY <1>2, <2>1, <3>2
    <3> QED BY <1>2, <2>1, <3>1, <3>2 DEF RunningTrue, W!Cut
  <2>2. CASE n \in X
    <3>1. NodeFine(f[n].node[n], f[n].inst[n]) /\ RunningTrue(f[n], n)
      BY <2>2 DEF Keeps, LedgerTrue
    <3>2. ASSUME NEW a \in f[n].open, a[1] = n PROVE a \in t.open
      <4>1. a \in s.open
        BY <2>2
      <4> QED BY <1>2, <3>2, <4>1
    <3> QED BY <1>2, <2>2, <3>1, <3>2 DEF RunningTrue, W!Cut
  <2> QED BY <2>1, <2>2
<1>4. ASSUME NEW a \in t.open PROVE OpenTrue(t, a)
  <2>1. a \in s.open /\ OpenTrue(s, a) /\ a[1] \in W!Node
    BY <1>2 DEF LedgerTrue, OpenTrue, IsInst
  <2>2. CASE a[1] \notin X
    BY <1>2, <2>1, <2>2 DEF OpenTrue, IsInst
  <2>3. CASE a[1] \in X
    <3>1. OpenTrue(f[a[1]], a)
      BY <1>2, <2>3 DEF Keeps, LedgerTrue
    <3> QED BY <1>2, <2>1, <2>3, <3>1 DEF OpenTrue, IsInst
  <2> QED BY <2>2, <2>3
<1>5. LedgerTrue(t)
  <2>1. \A a, b \in t.open : a[1] = b[1] => a = b
    BY <1>2 DEF LedgerTrue
  <2>2. t.run \in RunOver => t.open = {}
    BY <1>2 DEF LedgerTrue
  <2> QED BY <1>3, <1>4, <2>1, <2>2 DEF LedgerTrue
<1>6. Lasting(s, t)
  <2> SUFFICES ASSUME NEW n, NEW k, IsInst(s, n, k)
               PROVE  IsInst(t, n, k) /\ (s.inst[n][k].st = "superseded" => t.inst[n][k].st = "superseded")
    BY DEF Lasting
  <2>1. CASE n \in X
    <3>1. IsInst(f[n], n, k) /\ (s.inst[n][k].st = "superseded" => f[n].inst[n][k].st = "superseded")
      BY <2>1 DEF Keeps, Lasting
    <3> QED BY <1>2, <2>1, <3>1 DEF IsInst
  <2>2. CASE n \notin X
    BY <1>2, <2>2 DEF IsInst
  <2> QED BY <2>1, <2>2
<1>7. CutLasts(s, t)
  <2> SUFFICES ASSUME W!Cut(s), NEW n \in W!Node PROVE NodeLasts(s.node[n], t.node[n])
    BY <1>2 DEF CutLasts, W!Cut
  <2>1. CASE n \in X
    BY <1>2, <2>1 DEF Keeps, CutLasts
  <2>2. CASE n \notin X
    BY <1>2, <2>2 DEF NodeLasts
  <2> QED BY <2>1, <2>2
<1> QED BY <1>2, <1>5, <1>6, <1>7 DEF Keeps

(* The nodes a cancellation of the run cancels. *)
LEMMA CancelledEachTrue ==
    ASSUME NEW s \in Ledger, LedgerTrue(s), W!Cut(s), NEW X \in SUBSET W!Node,
           NEW t, t = W!CancelledEach(s, X)
    PROVE  /\ Keeps(s, t) /\ t.run = s.run /\ t.open \subseteq s.open /\ t.resolved = s.resolved
           /\ \A n \in X : s.node[n].status \notin W!Terminal => t.node[n].status = "cancelled"
           /\ \A n \in W!Node \ X : t.node[n] = s.node[n] /\ t.inst[n] = s.inst[n]
           /\ \A a \in s.open : a[1] \notin X \/ a[2] # s.node[a[1]].eff => a \in t.open
           /\ \A n \in W!Node : Len(t.inst[n]) = Len(s.inst[n])
<1> DEFINE f == [n \in X |-> W!NodeCancelled(s, n, s.node[n].eff, TRUE)]
<1>1. t = W!Together(s, f)
  BY DEF W!CancelledEach
<1>2. DOMAIN f = X /\ \A n \in X : f[n] = W!NodeCancelled(s, n, s.node[n].eff, TRUE)
  OBVIOUS
<1> HIDE DEF f
<1>3. ASSUME NEW n \in X
      PROVE  /\ Keeps(s, f[n]) /\ f[n].run = s.run /\ f[n].open \subseteq s.open /\ f[n].resolved = s.resolved
             /\ \A a \in s.open : a[1] # n \/ a[2] # s.node[n].eff => a \in f[n].open
             /\ \A a \in s.open : a[1] # n => a \in f[n].open
             /\ s.node[n].status \notin W!Terminal => f[n].node[n].status = "cancelled"
             /\ Len(f[n].inst[n]) = Len(s.inst[n])
  <2> DEFINE k == s.node[n].eff
             u == f[n]
             byRun == TRUE
  <2>1. AtOrNone(s, n, k) /\ u = W!NodeCancelled(s, n, k, byRun) /\ Len(s.inst[n]) \in Nat
    BY <1>2, Effective
  <2> HIDE DEF u, k, byRun
  <2>2. /\ Keeps(s, u) /\ u.open \subseteq s.open /\ u.run = s.run /\ u.resolved = s.resolved
        /\ \A a \in s.open : a[1] # n \/ a[2] # k => a \in u.open
        /\ Edit(s, u, n, k)
        /\ s.node[n].status \notin W!Terminal => u.node[n].status = "cancelled"
    <3>1. k = 0 => s.node[n].eff = 0
      BY DEF k
    <3>2. k = s.node[n].eff /\ byRun \in BOOLEAN /\ (byRun => W!Cut(s))
      BY DEF k, byRun
    <3> QED BY <2>1, <3>1, <3>2, CancelledTrue
  <2>3. Len(u.inst[n]) = Len(s.inst[n])
    <3>1. k <= Len(s.inst[n])
      BY <2>1 DEF AtOrNone, IsInst
    <3> QED BY <2>2, <3>1 DEF Edit
  <2> QED BY <2>2, <2>3 DEF u, k
<1>4. Keeps(s, t) /\ t.run = s.run /\ t.open \subseteq s.open
  <2>1. \A n \in X : /\ Keeps(s, f[n]) /\ f[n].run = s.run /\ f[n].open \subseteq s.open
                      /\ \A a \in s.open : a[1] # n => a \in f[n].open
    BY <1>3
  <2> QED BY <1>1, <1>2, <2>1, TogetherKeeps
<1>5. /\ \A n \in X : t.node[n] = f[n].node[n] /\ t.inst[n] = f[n].inst[n]
      /\ \A n \in W!Node \ X : t.node[n] = s.node[n] /\ t.inst[n] = s.inst[n]
      /\ \A a : a \in t.open <=> a \in s.open /\ \A n \in X : a \in f[n].open
      /\ \A w : w \in t.resolved <=> w \in s.resolved \/ \E n \in X : w \in f[n].resolved
  <2>1. \A n \in X : f[n] \in Ledger
    BY <1>3 DEF Keeps
  <2>2. Combines(s, t, X, f)
    BY <1>1, <1>2, <2>1, TogetherIs
  <2> QED BY <2>2 DEF Combines
<1>6. t.resolved = s.resolved
  <2>1. \A w : w \in t.resolved <=> w \in s.resolved
    BY <1>3, <1>5
  <2>2. t.resolved \in SUBSET (W!Node \X Nat) /\ s.resolved \in SUBSET (W!Node \X Nat)
    BY <1>4, Fields DEF Keeps
  <2> QED BY <2>1, <2>2
<1>7. \A n \in W!Node : Len(t.inst[n]) = Len(s.inst[n])
  BY <1>3, <1>5
<1> QED BY <1>3, <1>4, <1>5, <1>6, <1>7

(* Verdicts on edges. *)
Verdicts(s, Es, Ts) == {<<e[1], s.node[e[1]].eff, e[2], e \in Ts>> : e \in Es}

(* edgeResolved changes the edges alone. *)
LEMMA EdgesTrue ==
    ASSUME NEW s \in Ledger, LedgerTrue(s), NEW Es \in SUBSET (W!Node \X W!Node), NEW Ts,
           NEW t, t = W!EdgesResolved(s, Es, Ts)
    PROVE  /\ Keeps(s, t) /\ t.node = s.node /\ t.inst = s.inst /\ t.open = s.open
           /\ t.run = s.run /\ t.resolved = s.resolved /\ t.left = s.left /\ t.leftRun = s.leftRun
           /\ t.edges = s.edges \cup Verdicts(s, Es, Ts)
<1> DEFINE g == Verdicts(s, Es, Ts)
<1>1. g \in SUBSET (W!Node \X Nat \X W!Node \X BOOLEAN)
  <2> SUFFICES ASSUME NEW e \in Es PROVE <<e[1], s.node[e[1]].eff, e[2], e \in Ts>> \in W!Node \X Nat \X W!Node \X BOOLEAN
    BY DEF Verdicts
  <2>1. e[1] \in W!Node /\ e[2] \in W!Node /\ (e \in Ts) \in BOOLEAN
    OBVIOUS
  <2>2. s.node[e[1]].eff \in Nat
    BY <2>1, Fields DEF NodeRec
  <2> QED BY <2>1, <2>2
<1>2. t = [s EXCEPT !.edges = s.edges \cup g]
  BY DEF W!EdgesResolved, Ledger, Verdicts
<1> HIDE DEF g
<1>3. /\ t.node = s.node /\ t.inst = s.inst /\ t.open = s.open /\ t.run = s.run /\ t.resolved = s.resolved
      /\ t.left = s.left /\ t.leftRun = s.leftRun /\ t.edges = s.edges \cup g
  BY <1>2 DEF Ledger
<1>4. t \in Ledger
  <2>1. s.edges \cup g \in SUBSET (W!Node \X Nat \X W!Node \X BOOLEAN)
    BY <1>1 DEF Ledger
  <2> DEFINE h == s.edges \cup g
  <2> HIDE DEF h
  <2> QED BY <1>2, <2>1 DEF Ledger, h
<1>5. Keeps(s, t)
  <2>1. (W!Cut(s) => W!Cut(t)) /\ (t.run \in RunOver => t.open = {})
    BY <1>3 DEF LedgerTrue, W!Cut
  <2> QED BY <1>3, <1>4, <2>1, RestKeeps
<1> QED BY <1>3, <1>5 DEF g

-----------------------------------------------------------------------------
(***************************************************************************)
(* What holds of the driver.                                               *)
(***************************************************************************)

Memory == [abort : {"none", "run", "drain"}, phase : {"run", "ok", "block", "fail", "revisit"}]
PlanRec == [dispatch : SUBSET W!Node, losers : SUBSET W!Node, started : BOOLEAN, cancelled : BOOLEAN,
            drain : SUBSET Triples, orphan : BOOLEAN, at : Seq(Nat)]
AskRec == [by : Seq(Nat), st : W!NodeStatus \cup {"superseded", "none"}, todo : SUBSET (W!Node \X Nat)]
Acts == {"act", "spawn", "wait file"}
Places == {"tick", "wait", "drain all", "drain local", "drain", "append", "act", "spawn",
           "wait file", "ret", "new", "idle", "threw", "down"}

(* The driver's memory is made of these records. *)
MemoryFine ==
    /\ local \in [W!InFlight -> Memory] /\ plan \in PlanRec /\ ask \in AskRec /\ pc \in Places
    /\ cards \subseteq W!Node \X Nat
    /\ tries \in [retry : Nat, grant : Nat, crash : Nat]

(* A worker and a promise are of an open attempt; a promise whose worker has  *)
(* closed is past the run.                                                    *)
Living ==
    /\ proc \subseteq j.open /\ W!InFlight \subseteq j.open
    /\ \A a \in W!InFlight : local[a].phase # "run" => a \notin proc

(* Between two writes the thread is busy: nobody else moves the driver. *)
Busy ==
    /\ pc \in Acts \cup {"append", "down"} => W!Thread
    /\ click # <<>> => /\ ask = W!NoAsk /\ click[1][1] \in W!Node
                       /\ j.node[click[1][1]].eff = click[1][2] /\ j.node[click[1][1]].status = "gateWaiting"
    /\ ask # W!NoAsk => /\ ask.by \in W!InFlight /\ local[ask.by].phase = "revisit"
                        /\ \A g \in ask.todo : g[2] # 0 /\ j.node[g[1]].eff = g[2]

(* What is drained through its fence has no promise. *)
Draining ==
    /\ pc = "drain" => plan.drain \cap W!InFlight = {}
    /\ pc = "drain all" => W!InFlight = {} /\ j.run = "cancelling"

(* While nodes are dispatched no open attempt is of a replaced instance, and  *)
(* the attempt just claimed has no worker yet.                                *)
Acting ==
    /\ pc = "spawn" => plan.at \in j.open /\ plan.at \notin proc \cup W!InFlight
    /\ pc \in Acts /\ plan.dispatch # {} => W!Obsolete = {}

(* A blocked run names the node a human has to look at; a boundary of the run *)
(* is not passed while nodes are dispatched or a decision is written.         *)
Ending ==
    /\ j.run = "blocked" => j.blocked \in W!Node /\ j.node[j.blocked].status = "blocked"
    /\ pc \in Acts \/ click # <<>> => j.run = "running" \/ W!Cut(j)

FlowInv ==
    /\ dag \in Dags /\ j \in Ledger /\ LedgerTrue(j)
    /\ MemoryFine /\ Living /\ Busy /\ Draining /\ Acting /\ Ending

(* The definition of a run does not change, so its types do not. *)
LEMMA SameTypes ==
    ASSUME dag' = dag
    PROVE  /\ W!Node' = W!Node /\ W!Pair' = W!Pair /\ Ledger' = Ledger /\ Triples' = Triples
           /\ PlanRec' = PlanRec /\ AskRec' = AskRec
<1>1. W!Node' = W!Node
  BY DEF W!Node, W!N
<1>2. W!Pair' = W!Pair
  BY <1>1 DEF W!Pair, W!RevisitTo
<1>3. Triples' = Triples
  BY <1>1 DEF Triples
<1>4. Ledger' = Ledger
  BY <1>1, <1>2, <1>3 DEF Ledger, NodeRec, InstRec
<1> QED BY <1>1, <1>2, <1>3, <1>4 DEF PlanRec, AskRec

(* The invariant after a step. *)
LEMMA Assemble ==
    ASSUME FlowInv, dag' = dag, Keeps(j, j'), MemoryFine', Living', Busy', Draining', Acting', Ending'
    PROVE  FlowInv'
<1>1. /\ W!Node' = W!Node /\ Ledger' = Ledger
  BY SameTypes
<1>2. LedgerTrue(j)'
  <2>1. LedgerTrue(j')
    BY DEF Keeps
  <2>2. \A n \in W!Node : NodeFine(j.node[n], j.inst[n])'
    BY <1>1, <2>1 DEF LedgerTrue, NodeFine
  <2>3. \A n \in W!Node : RunningTrue(j, n)'
    BY <1>1, <2>1 DEF LedgerTrue, RunningTrue
  <2>4. \A a \in j'.open : (OpenTrue(j, a))'
    BY <1>1, <2>1 DEF LedgerTrue, OpenTrue, IsInst
  <2> QED BY <1>1, <2>1, <2>2, <2>3, <2>4 DEF LedgerTrue
<1>3. (dag \in Dags /\ j \in Ledger)'
  BY <1>1 DEF FlowInv, Keeps
<1> QED BY <1>2, <1>3 DEF FlowInv

(* Every attempt that is opened has a number its instance has not used. *)
Fresh ==
    \A a \in j'.open \ j.open :
        \/ a[2] > Len(j.inst[a[1]]) \/ a[3] > j.inst[a[1]][a[2]].max
        \/ a[3] = j.inst[a[1]][a[2]].max /\ j.inst[a[1]][a[2]].res

(* A step that opens no attempt. *)
LEMMA Finish ==
    ASSUME FlowInv, dag' = dag, Keeps(j, j'), j'.open \subseteq j.open,
           MemoryFine', Living', Busy', Draining', Acting', Ending'
    PROVE  FlowInv' /\ Keeps(j, j') /\ Fresh
<1>1. FlowInv'
  BY Assemble
<1> QED BY <1>1 DEF Fresh

(* A step that leaves the journal alone. *)
LEMMA FinishSame ==
    ASSUME FlowInv, dag' = dag, j' = j, MemoryFine', Living', Busy', Draining', Acting', Ending'
    PROVE  FlowInv' /\ Keeps(j, j') /\ Fresh
<1>1. Keeps(j, j')
  BY KeepsItself DEF FlowInv
<1> QED BY <1>1, Finish

(* Aborting changes no more than the reason of an abort. *)
LEMMA AbortedIs ==
    ASSUME local \in [W!InFlight -> Memory], NEW X, NEW why \in {"run", "drain"}, NEW m, m = W!Aborted(X, why)
    PROVE  m \in [W!InFlight -> Memory] /\ DOMAIN m = W!InFlight /\ \A a \in W!InFlight : m[a].phase = local[a].phase
<1>1. \A x \in Memory : [x EXCEPT !.abort = why] \in Memory /\ [x EXCEPT !.abort = why].phase = x.phase
  BY DEF Memory
<1>2. m = [a \in W!InFlight |-> IF a \in X /\ local[a].abort = "none"
                                THEN [local[a] EXCEPT !.abort = why] ELSE local[a]]
  BY DEF W!Aborted
<1>3. ASSUME NEW a \in W!InFlight PROVE m[a] \in Memory /\ m[a].phase = local[a].phase
  <2>1. local[a] \in Memory
    OBVIOUS
  <2> DEFINE y == [local[a] EXCEPT !.abort = why]
  <2>2. y \in Memory /\ y.phase = local[a].phase
    BY <1>1, <2>1
  <2>3. m[a] = y \/ m[a] = local[a]
    BY <1>2
  <2> QED BY <2>1, <2>2, <2>3
<1>4. m = [a \in W!InFlight |-> m[a]]
  BY <1>2
<1> QED BY <1>3, <1>4

(* What the invariant says of an action's first state. *)
LEMMA Holds ==
    ASSUME FlowInv
    PROVE  /\ j \in Ledger /\ LedgerTrue(j) /\ dag \in Dags
           /\ local \in [W!InFlight -> Memory] /\ plan \in PlanRec /\ ask \in AskRec /\ pc \in Places
           /\ cards \subseteq W!Node \X Nat /\ proc \subseteq j.open /\ W!InFlight \subseteq j.open
           /\ j.open \in SUBSET Triples
           /\ tries \in [retry : Nat, grant : Nat, crash : Nat]
BY Fields DEF FlowInv, MemoryFine, Living

(* Memory that a step leaves alone. *)
LEMMA SameMemory ==
    ASSUME FlowInv, dag' = dag, local' \in [DOMAIN local' -> Memory], plan' \in PlanRec, ask' \in AskRec,
           pc' \in Places, cards' \subseteq W!Node \X Nat, tries' \in [retry : Nat, grant : Nat, crash : Nat]
    PROVE  MemoryFine'
BY SameTypes DEF MemoryFine, W!InFlight

(* runWorkflow on a run that is being cancelled. *)
LEMMA TickCancelStep ==
    ASSUME FlowInv, W!TickCancelling
    PROVE  FlowInv' /\ Keeps(j, j') /\ Fresh
<1> DEFINE X == {n \in W!Node : W!Status(n) \in {"pending", "gateWaiting"}}
<1>1. /\ j \in Ledger /\ LedgerTrue(j) /\ local \in [W!InFlight -> Memory]
      /\ plan \in PlanRec /\ ask \in AskRec /\ cards \subseteq W!Node \X Nat
  BY Holds
<1>2. /\ W!Thread /\ j.run = "cancelling" /\ local' = W!Aborted(W!InFlight, "run") /\ j' = W!CancelledEach(j, X)
      /\ pc' = (IF W!InFlight # {} THEN "wait" ELSE "drain all") /\ plan' = plan
      /\ cards' = cards /\ proc' = proc /\ click' = click /\ ask' = ask /\ tries' = tries /\ dag' = dag
  BY DEF W!TickCancelling, W!Ext
<1>3. /\ local' \in [W!InFlight -> Memory] /\ DOMAIN local' = W!InFlight
      /\ \A a \in W!InFlight : local'[a].phase = local[a].phase
  <2>1. local' = W!Aborted(W!InFlight, "run")
    BY <1>2
  <2> QED BY <1>1, <2>1, AbortedIs
<1>4. /\ Keeps(j, j') /\ j'.run = j.run /\ j'.open \subseteq j.open
      /\ \A a \in j.open : a[1] \notin X \/ a[2] # j.node[a[1]].eff => a \in j'.open
  <2>1. X \in SUBSET W!Node /\ W!Cut(j)
    BY <1>2 DEF W!Cut
  <2> HIDE DEF X
  <2> QED BY <1>1, <1>2, <2>1, CancelledEachTrue
<1>5. j'.open = j.open
  <2>1. ASSUME NEW a \in j.open PROVE a \in j'.open
    <3>1. a[1] \in W!Node
      BY <1>1, <2>1, OpenFacts DEF IsInst
    <3>2. a[1] \in X => a[2] # j.node[a[1]].eff
      <4>1. a[1] \in X => j.node[a[1]].status \notin {"running", "cancelled"}
        BY DEF W!Status
      <4> QED BY <1>1, <3>1, <4>1, NotOpen
    <3> QED BY <1>4, <3>2
  <2> QED BY <1>4, <2>1
<1> HIDE DEF X
<1>6. MemoryFine'
  <2>1. pc' \in Places /\ tries' \in [retry : Nat, grant : Nat, crash : Nat]
    BY <1>2, Holds DEF Places
  <2> QED BY <1>1, <1>2, <1>3, <2>1, SameMemory
<1>7. Living'
  BY <1>2, <1>3, <1>5 DEF FlowInv, Living, W!InFlight
<1>8. Busy'
  BY <1>2, SameTypes DEF FlowInv, Busy, W!Thread, W!NoAsk
<1>9. Draining' /\ Acting' /\ Ending'
  BY <1>2, <1>3, <1>4 DEF Draining, Acting, Ending, W!Thread, W!InFlight, Acts
<1> QED BY <1>2, <1>4, <1>6, <1>7, <1>8, <1>9, Finish

(* A set of natural numbers has a least element. *)
LEMMA Least ==
    ASSUME NEW X \in SUBSET Nat, X # {}
    PROVE  \E x \in X : \A y \in X : x <= y
<1>1. IsWellFoundedOn(OpToRel(<, Nat), Nat)
  BY NatLessThanWellFounded
<1>2. PICK x \in X : \A y \in X : ~(<<y, x>> \in OpToRel(<, Nat))
  BY <1>1, WFMin
<1>3. ASSUME NEW y \in X PROVE x <= y
  <2>1. ~(y < x)
    BY <1>2 DEF OpToRel
  <2> QED BY <2>1
<1> QED BY <1>3

(* First is the least node of a set. *)
LEMMA FirstIs ==
    ASSUME NEW X \in SUBSET W!Node, X # {}
    PROVE  W!First(X) \in X /\ \A y \in X : W!First(X) <= y
<1>1. \E x \in X : \A y \in X : x <= y
  <2>1. X \in SUBSET Nat
    BY DEF W!Node
  <2> QED BY <2>1, Least
<1> QED BY <1>1 DEF W!First

(* The cardinality the instance counts with is the one of the library. *)
LEMMA FlowCardinality ==
    ASSUME NEW X
    PROVE  W!Cardinality(X) = Cardinality(X)
BY DEF W!Cardinality, Cardinality

(* What the loader accepts. *)
LEMMA DagFacts ==
    ASSUME dag \in Dags
    PROVE  /\ W!N \in Nat \ {0} /\ W!Deps \in [W!Node -> SUBSET W!Node]
           /\ \A n \in W!Node : \A m \in W!Deps[n] : m < n
           /\ \A n \in W!Node : W!Rule[n] \in 0..W!Cardinality(W!Deps[n])
           /\ W!Gated \subseteq W!Node /\ W!RevisitTo \in [W!Node -> SUBSET W!Node]
           /\ W!MaxCrash \in Nat /\ W!Node \subseteq Nat /\ 0 \notin W!Node
           /\ W!Standalone \in BOOLEAN /\ (W!Standalone => W!Gated = {})
           /\ W!Outcome \subseteq {"ok", "block", "fail", "revisit"}
<1>1. W!WellFormed(dag)
  BY PartsAssumption DEF W!WorkflowAssumption
<1>2. W!Node \subseteq Nat /\ 0 \notin W!Node
  BY DEF W!Node
<1>3. W!Node = 1..dag.n
  BY DEF W!Node, W!N
<1>4. /\ dag.n \in Nat \ {0} /\ dag.crashes \in Nat /\ dag.alone \in BOOLEAN
      /\ dag.deps \in [W!Node -> SUBSET W!Node] /\ \A n \in W!Node : \A m \in dag.deps[n] : m < n
      /\ \A n \in W!Node : dag.rule[n] \in 0..W!Cardinality(dag.deps[n])
      /\ dag.gated \subseteq W!Node /\ dag.back \in [W!Node -> SUBSET W!Node]
      /\ dag.outcome \subseteq {"ok", "block", "fail", "revisit"}
      /\ dag.alone => dag.gated = {}
  <2> DEFINE nodes == 1..dag.n
  <2>1. /\ dag.n \in Nat \ {0} /\ dag.crashes \in Nat /\ dag.alone \in BOOLEAN
        /\ dag.deps \in [nodes -> SUBSET nodes] /\ \A n \in nodes : \A m \in dag.deps[n] : m < n
        /\ \A n \in nodes : dag.rule[n] \in 0..W!Cardinality(dag.deps[n])
        /\ dag.gated \subseteq nodes /\ dag.back \in [nodes -> SUBSET nodes]
        /\ dag.outcome \subseteq {"ok", "block", "fail", "revisit"}
        /\ dag.alone => dag.gated = {}
    BY <1>1 DEF W!WellFormed
  <2>2. nodes = W!Node
    BY <1>3
  <2> HIDE DEF nodes
  <2> QED BY <2>1, <2>2
<1> QED BY <1>2, <1>4 DEF W!N, W!Deps, W!Rule, W!Gated, W!RevisitTo, W!MaxCrash, W!Standalone, W!Outcome

(* The sources of a node with a verdict are dependencies of it, finitely *)
(* many.                                                                 *)
LEMMA AmongIs ==
    ASSUME dag \in Dags, NEW n \in W!Node, NEW X
    PROVE  W!Among(n, X) \subseteq W!Node /\ IsFiniteSet(W!Among(n, X)) /\ W!Among(n, X) \subseteq W!Deps[n]
<1>1. W!Deps[n] \subseteq W!Node
  BY DagFacts
<1>2. IsFiniteSet(W!Node)
  BY DagFacts, FS_Interval DEF W!Node
<1>3. W!Among(n, X) \subseteq W!Deps[n]
  BY DEF W!Among
<1> QED BY <1>1, <1>2, <1>3, FS_Subset

(* An edge to resolve is an edge between nodes that has no verdict. *)
LEMMA ResolvableIs ==
    ASSUME dag \in Dags
    PROVE  /\ W!Resolvable \in SUBSET (W!Node \X W!Node)
           /\ \A e \in W!Resolvable : e[1] \in W!Among(e[2], {"unresolved"}) /\ e[2] \in W!Node
<1> SUFFICES ASSUME NEW n \in W!Node, W!Readiness(n) = "resolve"
             PROVE  /\ W!EdgeToResolve(n)[1] \in W!Among(n, {"unresolved"}) /\ W!EdgeToResolve(n)[2] = n
                    /\ W!EdgeToResolve(n) \in W!Node \X W!Node
  BY DEF W!Resolvable, W!Waiting
<1>1. W!Among(n, {"unresolved"}) # {}
  BY DEF W!Readiness
<1>2. W!Among(n, {"unresolved"}) \in SUBSET Nat /\ W!Among(n, {"unresolved"}) \subseteq W!Node
  BY AmongIs, DagFacts
<1>3. \E d \in W!Among(n, {"unresolved"}) : \A c \in W!Among(n, {"unresolved"}) : d <= c
  BY <1>1, <1>2, Least
<1> DEFINE d == CHOOSE x \in W!Among(n, {"unresolved"}) : \A c \in W!Among(n, {"unresolved"}) : x <= c
<1>4. d \in W!Among(n, {"unresolved"})
  BY <1>3
<1>5. W!EdgeToResolve(n) = <<d, n>>
  BY DEF W!EdgeToResolve
<1> HIDE DEF d
<1> QED BY <1>2, <1>4, <1>5

-----------------------------------------------------------------------------
(***************************************************************************)
(* The steps.                                                              *)
(***************************************************************************)

(* runWorkflow at a boundary of the run. *)
LEMMA BoundaryStep ==
    ASSUME FlowInv, W!TickBoundary
    PROVE  FlowInv' /\ Keeps(j, j') /\ Fresh
<1>1. /\ W!Thread /\ j' = j /\ local' = local /\ pc' = "ret" /\ plan' = plan
      /\ cards' = cards /\ proc' = proc /\ click' = click /\ ask' = ask /\ tries' = tries /\ dag' = dag
  BY DEF W!TickBoundary, W!Ext
<1>2. MemoryFine'
  BY <1>1, Holds, SameMemory DEF Places, W!InFlight
<1>3. Living' /\ Draining' /\ Acting' /\ Ending'
  BY <1>1, SameTypes DEF FlowInv, Living, Draining, Acting, Ending, W!Thread, W!InFlight, Acts
<1>4. Busy'
  BY <1>1, SameTypes DEF FlowInv, Busy, W!Thread, W!NoAsk, W!InFlight
<1> QED BY <1>1, <1>2, <1>3, <1>4, FinishSame

(* The terminal sweep of a tick. *)
LEMMA TerminalStep ==
    ASSUME FlowInv, W!TickTerminal
    PROVE  FlowInv' /\ Keeps(j, j') /\ Fresh
<1>1. /\ W!Thread /\ j' = j /\ local' = local /\ pc' = "append" /\ plan' = plan
      /\ cards' = cards /\ proc' = proc /\ click' = click /\ ask' = ask /\ tries' = tries /\ dag' = dag
  BY DEF W!TickTerminal, W!Ext, W!Quiet
<1>2. MemoryFine'
  BY <1>1, Holds, SameMemory DEF Places, W!InFlight
<1>3. Living' /\ Draining' /\ Acting' /\ Ending'
  BY <1>1, SameTypes DEF FlowInv, Living, Draining, Acting, Ending, W!Thread, W!InFlight, Acts
<1>4. Busy'
  BY <1>1, SameTypes DEF FlowInv, Busy, W!Thread, W!NoAsk, W!InFlight
<1> QED BY <1>1, <1>2, <1>3, <1>4, FinishSame

(* The empty plan, and what is planned from it. *)
LEMMA NoPlanIs ==
    ASSUME NEW X \in SUBSET W!Node, NEW Y \in SUBSET W!Node, NEW Z \in SUBSET Triples, NEW o \in BOOLEAN
    PROVE  /\ W!NoPlan \in PlanRec /\ W!NoPlan.dispatch = {} /\ W!NoPlan.losers = {}
           /\ [W!NoPlan EXCEPT !.drain = Z, !.orphan = o] \in PlanRec
           /\ [W!NoPlan EXCEPT !.drain = Z, !.orphan = o].drain = Z
           /\ [W!NoPlan EXCEPT !.dispatch = X, !.losers = Y] \in PlanRec
<1>1. <<>> \in Seq(Nat)
  OBVIOUS
<1>2. W!NoPlan \in PlanRec /\ W!NoPlan.dispatch = {} /\ W!NoPlan.losers = {}
  BY <1>1 DEF W!NoPlan, PlanRec
<1>3. /\ [W!NoPlan EXCEPT !.drain = Z, !.orphan = o] \in PlanRec
      /\ [W!NoPlan EXCEPT !.drain = Z, !.orphan = o].drain = Z
  BY <1>2 DEF PlanRec
<1>4. [W!NoPlan EXCEPT !.dispatch = X, !.losers = Y] \in PlanRec
  BY <1>2 DEF PlanRec
<1> QED BY <1>2, <1>3, <1>4

(* A tick that finds attempts to drain turns to the drain. *)
LEMMA QuiesceStep ==
    ASSUME FlowInv, W!Thread, NEW X \in SUBSET j.open, NEW o \in BOOLEAN, W!Quiesce(X, o)
    PROVE  FlowInv' /\ Keeps(j, j') /\ Fresh
<1> DEFINE Z == IF X \cap W!InFlight # {} THEN X \cap W!InFlight ELSE X
<1>1. /\ local' = W!Aborted(X, "drain") /\ plan' = [W!NoPlan EXCEPT !.drain = Z, !.orphan = o]
      /\ pc' = (IF X \cap W!InFlight # {} THEN "drain local" ELSE "drain") /\ j' = j
      /\ cards' = cards /\ proc' = proc /\ click' = click /\ ask' = ask /\ tries' = tries /\ dag' = dag
  BY DEF W!Quiesce, W!Ext
<1>2. /\ local \in [W!InFlight -> Memory] /\ ask \in AskRec /\ cards \subseteq W!Node \X Nat
      /\ Z \in SUBSET Triples /\ "drain" \in {"run", "drain"}
  BY Holds
<1>3. /\ local' \in [W!InFlight -> Memory] /\ DOMAIN local' = W!InFlight
      /\ \A a \in W!InFlight : local'[a].phase = local[a].phase
  <2>1. local' = W!Aborted(X, "drain")
    BY <1>1
  <2> QED BY <1>2, <2>1, AbortedIs
<1>4. plan' \in PlanRec /\ plan'.drain = Z
  <2> HIDE DEF Z
  <2>1. plan' = [W!NoPlan EXCEPT !.drain = Z, !.orphan = o]
    BY <1>1
  <2>2. /\ [W!NoPlan EXCEPT !.drain = Z, !.orphan = o] \in PlanRec
        /\ [W!NoPlan EXCEPT !.drain = Z, !.orphan = o].drain = Z
    BY <1>2, NoPlanIs
  <2> QED BY <2>1, <2>2
<1>5. MemoryFine'
  <2>1. pc' \in Places /\ tries' \in [retry : Nat, grant : Nat, crash : Nat]
    BY <1>1, Holds DEF Places
  <2> HIDE DEF Z
  <2> QED BY <1>1, <1>2, <1>3, <1>4, <2>1, SameMemory
<1>6. Living'
  BY <1>1, <1>3 DEF FlowInv, Living, W!InFlight
<1>7. Busy'
  BY <1>1, SameTypes DEF FlowInv, Busy, W!Thread, W!NoAsk
<1>8. Draining' /\ Acting'
  <2>1. pc' = "drain" => plan'.drain \cap W!InFlight = {}
    BY <1>1, <1>4
  <2>2. pc' \in {"drain local", "drain"}
    BY <1>1
  <2> HIDE DEF Z
  <2> QED BY <1>3, <2>1, <2>2 DEF Draining, Acting, W!InFlight, Acts
<1>9. Ending'
  BY <1>1, SameTypes DEF FlowInv, Ending, W!Thread, Acts
<1> QED BY <1>1, <1>5, <1>6, <1>7, <1>8, <1>9, FinishSame

(* The sweep for obsolete, orphaned and losing attempts. *)
LEMMA TickDrainStep ==
    ASSUME FlowInv, W!TickDrain
    PROVE  FlowInv' /\ Keeps(j, j') /\ Fresh
<1>1. W!Thread
  BY DEF W!TickDrain
<1>2. W!Obsolete \in SUBSET j.open /\ j.open \ W!InFlight \in SUBSET j.open
  BY DEF W!Obsolete
<1>3. \E X \in SUBSET j.open, o \in BOOLEAN : W!Quiesce(X, o)
  BY <1>2 DEF W!TickDrain
<1> QED BY <1>1, <1>3, QuiesceStep

(* The control sweep: edges resolved and nodes skipped together. *)
LEMMA ControlStep ==
    ASSUME FlowInv, W!TickControl
    PROVE  FlowInv' /\ Keeps(j, j') /\ Fresh
<1> USE Holds
<1>0. j \in Ledger /\ LedgerTrue(j) /\ dag \in Dags
  OBVIOUS
<1>1. /\ W!Thread /\ pc = "tick" /\ local' = local /\ pc' = pc /\ plan' = plan
      /\ cards' = cards /\ proc' = proc /\ click' = click /\ ask' = ask /\ tries' = tries /\ dag' = dag
  BY DEF W!TickControl, W!Ext, W!Quiet
<1>2. PICK Ts \in SUBSET W!Resolvable :
          j' = W!Together(W!EdgesResolved(j, W!Resolvable, Ts), [n \in W!Skippable |-> W!NodeSkipped(j, n)])
  BY DEF W!TickControl
<1> DEFINE u == W!EdgesResolved(j, W!Resolvable, Ts)
           f == [n \in W!Skippable |-> W!NodeSkipped(j, n)]
<1>3. /\ Keeps(j, u) /\ u.node = j.node /\ u.inst = j.inst /\ u.open = j.open /\ u.run = j.run
  <2>1. W!Resolvable \in SUBSET (W!Node \X W!Node)
    BY <1>0, ResolvableIs
  <2> HIDE DEF u
  <2> QED BY <1>0, <2>1, EdgesTrue DEF u
<1>4. DOMAIN f = W!Skippable /\ \A n \in W!Skippable : f[n] = W!NodeSkipped(j, n)
  OBVIOUS
<1>5. j' = W!Together(u, f)
  BY <1>2
<1>6. W!Skippable \in SUBSET W!Node /\ \A n \in W!Skippable : j.node[n].status = "pending"
  BY DEF W!Skippable, W!Waiting, W!Status
<1> HIDE DEF u, f
<1>7. ASSUME NEW n \in W!Skippable
      PROVE  Keeps(u, f[n]) /\ f[n].run = u.run /\ f[n].open = u.open
  <2>1. Keeps(j, f[n]) /\ f[n].open = j.open /\ f[n].run = j.run
    BY <1>0, <1>4, <1>6, SkippedTrue
  <2> QED BY <1>3, <2>1 DEF Keeps, Lasting, CutLasts, W!Cut, IsInst
<1>8. u \in Ledger /\ LedgerTrue(u)
  BY <1>3 DEF Keeps
<1>9. Keeps(u, j') /\ j'.open \subseteq u.open /\ j'.run = u.run
  <2>1. \A n \in W!Skippable : /\ Keeps(u, f[n]) /\ f[n].run = u.run /\ f[n].open \subseteq u.open
                               /\ \A a \in u.open : a[1] # n => a \in f[n].open
    BY <1>7
  <2> DEFINE X == W!Skippable
  <2>2. X \in SUBSET W!Node /\ DOMAIN f = X
    BY <1>4, <1>6
  <2> HIDE DEF X
  <2> QED BY ONLY <1>5, <1>8, <2>1, <2>2, TogetherKeeps DEF X
<1>10. j'.open = j.open
  <2>1. \A n \in W!Skippable : f[n] \in Ledger
    BY <1>7 DEF Keeps
  <2>2. Combines(u, j', W!Skippable, f)
    BY <1>4, <1>5, <1>6, <1>8, <2>1, TogetherIs
  <2>3. \A a \in u.open : a \in j'.open
    BY <1>7, <2>2 DEF Combines
  <2> QED BY <1>3, <1>9, <2>3
<1>11. Keeps(j, j')
  BY <1>3, <1>9, KeepsTwice
<1>12. MemoryFine'
  BY <1>1, SameMemory DEF W!InFlight
<1>13. Living' /\ Draining' /\ Acting'
  BY <1>1, <1>10 DEF FlowInv, Living, Draining, Acting, W!InFlight, Acts
<1>15. Ending'
  <2>1. j.run = "running"
    BY DEF W!TickControl, W!Quiet
  <2> QED BY <1>1, <1>3, <1>9, <2>1 DEF Ending, W!Thread, Acts
<1>14. Busy'
  BY <1>1 DEF FlowInv, Busy, W!Thread, W!NoAsk, W!InFlight, Acts
<1> QED BY <1>1, <1>10, <1>11, <1>12, <1>13, <1>14, <1>15, Finish

(* The plan of a tick. *)
LEMMA TickDispatchStep ==
    ASSUME FlowInv, W!TickDispatch
    PROVE  FlowInv' /\ Keeps(j, j') /\ Fresh
<1>1. /\ W!Thread /\ W!Obsolete = {} /\ j' = j /\ local' = local /\ pc' = "act"
      /\ plan' = [W!NoPlan EXCEPT !.dispatch = W!Ready, !.losers = W!Losers]
      /\ cards' = cards /\ proc' = proc /\ click' = click /\ ask' = ask /\ tries' = tries /\ dag' = dag
  BY DEF W!TickDispatch, W!Ext, W!Quiet
<1>2. plan' \in PlanRec
  <2>1. W!Ready \in SUBSET W!Node /\ W!Losers \in SUBSET W!Node
    BY DEF W!Ready, W!Losers, W!Waiting
  <2>2. \A X, Y \in SUBSET W!Node : [W!NoPlan EXCEPT !.dispatch = X, !.losers = Y] \in PlanRec
    BY NoPlanIs
  <2> QED BY <1>1, <2>1, <2>2
<1>3. MemoryFine'
  BY <1>1, <1>2, Holds, SameMemory DEF Places, W!InFlight
<1>4. Living' /\ Draining' /\ Acting' /\ Ending'
  <2>1. j.run = "running"
    BY DEF W!TickDispatch, W!Quiet
  <2> QED BY <1>1, <2>1 DEF FlowInv, Living, Draining, Acting, Ending, W!InFlight, Acts, W!Obsolete
<1>5. Busy'
  BY <1>1, SameTypes DEF FlowInv, Busy, W!Thread, W!NoAsk, W!InFlight
<1> QED BY <1>1, <1>3, <1>4, <1>5, FinishSame

(* An attempt drained for a cancellation: then its instance is cancelled. *)
LEMMA DrainCancelTrue ==
    ASSUME NEW s \in Ledger, LedgerTrue(s), W!Cut(s), NEW a \in s.open,
           NEW orphan \in BOOLEAN, NEW byRun \in BOOLEAN,
           NEW t, t = W!Drained(s, a, orphan), NEW u, u = W!NodeCancelled(t, a[1], a[2], byRun)
    PROVE  /\ Keeps(s, t) /\ t.open = s.open \ {a} /\ t.run = s.run
           /\ Keeps(s, u) /\ u.open = s.open \ {a} /\ u.run = s.run
<1> DEFINE n == a[1]
           k == a[2]
<1>1. u = W!NodeCancelled(t, n, k, byRun)
  OBVIOUS
<1>2. IsInst(s, n, k)
  BY OpenFacts
<1> HIDE DEF n, k
<1>3. Keeps(s, t) /\ t.open = s.open \ {a} /\ t.run = s.run
  BY DrainedTrue
<1>4. t \in Ledger /\ LedgerTrue(t) /\ W!Cut(t) /\ IsInst(t, n, k)
  BY <1>2, <1>3 DEF Keeps, CutLasts, Lasting
<1>5. k # 0 /\ AtOrNone(t, n, k)
  BY <1>4, Fields DEF AtOrNone, IsInst
<1>6. /\ Keeps(t, u) /\ u.open \subseteq t.open /\ u.run = t.run
      /\ \A b \in t.open : b[1] # n \/ b[2] # k => b \in u.open
  <2>1. k = 0 => t.node[n].eff = 0
    BY <1>5
  <2>2. byRun => W!Cut(t)
    BY <1>4
  <2> QED BY <1>1, <1>4, <1>5, <2>1, <2>2, CancelledTrue
<1>7. \A b \in t.open : b[1] # n
  BY <1>3 DEF LedgerTrue, n
<1>8. u.open = t.open
  BY <1>6, <1>7
<1>9. Keeps(s, u)
  BY <1>3, <1>6, KeepsTwice
<1> QED BY <1>3, <1>6, <1>8, <1>9

(* An attempt is drained for the cancellation. *)
LEMMA DrainForCancelStep ==
    ASSUME FlowInv, NEW a \in j.open, W!DrainForCancel(a)
    PROVE  FlowInv' /\ Keeps(j, j') /\ Fresh
<1>1. /\ pc = "drain all" /\ W!Thread /\ a \notin proc /\ local' = local /\ pc' = pc /\ plan' = plan
      /\ cards' = cards /\ proc' = proc /\ click' = click /\ ask' = ask /\ tries' = tries /\ dag' = dag
  BY DEF W!DrainForCancel, W!Ext
<1>2. W!InFlight = {} /\ j.run = "cancelling" /\ W!Cut(j)
  BY <1>1 DEF FlowInv, Draining, W!Cut
<1>3. Keeps(j, j') /\ j'.open = j.open \ {a} /\ j'.run = j.run
  <2> DEFINE orphan == FALSE
             byRun == TRUE
             t == W!Drained(j, a, orphan)
             u == W!NodeCancelled(t, a[1], a[2], byRun)
  <2>1. j' = t \/ j' = u
    BY DEF W!DrainForCancel
  <2> HIDE DEF t, u
  <2>2. /\ Keeps(j, t) /\ t.open = j.open \ {a} /\ t.run = j.run
        /\ Keeps(j, u) /\ u.open = j.open \ {a} /\ u.run = j.run
    <3>1. orphan \in BOOLEAN /\ byRun \in BOOLEAN
      OBVIOUS
    <3>2. t = W!Drained(j, a, orphan) /\ u = W!NodeCancelled(t, a[1], a[2], byRun)
      BY DEF t, u
    <3> HIDE DEF orphan, byRun
    <3> QED BY <1>2, <3>1, <3>2, Holds, DrainCancelTrue
  <2> QED BY <2>1, <2>2
<1>4. MemoryFine'
  BY <1>1, Holds, SameMemory DEF W!InFlight
<1>5. Living' /\ Draining' /\ Acting' /\ Ending'
  BY <1>1, <1>2, <1>3, SameTypes DEF FlowInv, Living, Draining, Acting, Ending, W!Thread, W!InFlight, Acts
<1>6. Busy'
  BY <1>1, SameTypes DEF FlowInv, Busy, W!Thread, W!NoAsk, W!InFlight
<1> QED BY <1>1, <1>3, <1>4, <1>5, <1>6, Finish

(* The cancellation is completed. *)
LEMMA FinalizeStep ==
    ASSUME FlowInv, W!FinalizeCancellation
    PROVE  FlowInv' /\ Keeps(j, j') /\ Fresh
<1> DEFINE X == {n \in W!Node : W!Status(n) \in {"pending", "gateWaiting", "running"}}
           u == W!CancelledEach(j, X)
<1>1. /\ pc = "drain all" /\ W!Thread /\ j.open = {} /\ local' = local /\ pc' = "tick" /\ plan' = plan
      /\ cards' = cards /\ proc' = proc /\ click' = click /\ ask' = ask /\ tries' = tries /\ dag' = dag
  BY DEF W!FinalizeCancellation, W!Ext
<1>2. W!InFlight = {} /\ j.run = "cancelling" /\ W!Cut(j) /\ j \in Ledger /\ LedgerTrue(j)
  BY <1>1 DEF FlowInv, Draining, W!Cut
<1>3. Keeps(j, u) /\ u.run = j.run /\ u.open = {}
  <2>1. X \in SUBSET W!Node
    OBVIOUS
  <2> HIDE DEF X
  <2> QED BY <1>1, <1>2, <2>1, CancelledEachTrue
<1>4. j' = [u EXCEPT !.run = "cancelled"]
  BY DEF W!FinalizeCancellation
<1> HIDE DEF u
<1>5. Keeps(u, j') /\ j'.open = {} /\ j'.run = "cancelled"
  <2>1. u \in Ledger /\ LedgerTrue(u)
    BY <1>3 DEF Keeps
  <2>2. j' = WithRest(u, "cancelled", u.blocked, u.open, u.resolved)
    BY <1>4, <2>1 DEF WithRest, Ledger
  <2>3. /\ "cancelled" \in RunStates /\ u.blocked \in Nat /\ u.open \in SUBSET Triples
        /\ u.resolved \in SUBSET (W!Node \X Nat)
    BY <2>1, Fields DEF RunStates
  <2>4. /\ j' \in Ledger /\ j'.node = u.node /\ j'.inst = u.inst /\ j'.open = u.open /\ j'.run = "cancelled"
    BY <2>1, <2>2, <2>3, RestIs
  <2>5. W!Cut(j')
    BY <2>4 DEF W!Cut
  <2> QED BY <1>3, <2>1, <2>4, <2>5, RestKeeps
<1>6. Keeps(j, j')
  BY <1>3, <1>5, KeepsTwice
<1>7. MemoryFine'
  BY <1>1, Holds, SameMemory DEF W!InFlight, Places
<1>8. Living' /\ Draining' /\ Acting' /\ Ending'
  BY <1>1, <1>2, <1>5, SameTypes DEF FlowInv, Living, Draining, Acting, Ending, W!Thread, W!InFlight, Acts
<1>9. Busy'
  BY <1>1, SameTypes DEF FlowInv, Busy, W!Thread, W!NoAsk, W!InFlight
<1> QED BY <1>1, <1>5, <1>6, <1>7, <1>8, <1>9, Finish

(* A drain that is over. *)
LEMMA DrainOverStep ==
    ASSUME FlowInv, W!LocalDrained \/ W!DrainDone
    PROVE  FlowInv' /\ Keeps(j, j') /\ Fresh
<1>1. /\ W!Thread /\ j' = j /\ local' = local /\ pc' = "tick" /\ plan' = W!NoPlan
      /\ cards' = cards /\ proc' = proc /\ click' = click /\ ask' = ask /\ tries' = tries /\ dag' = dag
  BY DEF W!LocalDrained, W!DrainDone, W!Ext
<1>2. W!NoPlan \in PlanRec
  <2>1. {} \in SUBSET W!Node /\ {} \in SUBSET Triples /\ FALSE \in BOOLEAN
    OBVIOUS
  <2> QED BY <2>1, NoPlanIs
<1>3. MemoryFine'
  BY <1>1, <1>2, Holds, SameMemory DEF Places, W!InFlight
<1>4. Living' /\ Draining' /\ Acting' /\ Ending'
  BY <1>1, SameTypes DEF FlowInv, Living, Draining, Acting, Ending, W!Thread, W!InFlight, Acts
<1>5. Busy'
  BY <1>1, SameTypes DEF FlowInv, Busy, W!Thread, W!NoAsk, W!InFlight
<1> QED BY <1>1, <1>3, <1>4, <1>5, FinishSame

(* An attempt inherited from a dead daemon is drained. *)
LEMMA DrainExternalStep ==
    ASSUME FlowInv, NEW a \in plan.drain, W!DrainExternal(a)
    PROVE  FlowInv' /\ Keeps(j, j') /\ Fresh
<1>1. /\ pc = "drain" /\ W!Thread /\ a \notin proc /\ local' = local /\ pc' = pc
      /\ cards' = cards /\ proc' = proc /\ click' = click /\ ask' = ask /\ tries' = tries /\ dag' = dag
      /\ plan' = [plan EXCEPT !.drain = @ \ {a}]
  BY DEF W!DrainExternal, W!Ext
<1>2. /\ j \in Ledger /\ LedgerTrue(j) /\ plan \in PlanRec /\ plan.orphan \in BOOLEAN
      /\ plan.drain \cap W!InFlight = {} /\ a \notin W!InFlight
  BY <1>1, Holds DEF FlowInv, Draining, PlanRec
<1>3. plan' \in PlanRec /\ plan'.drain = plan.drain \ {a}
  BY <1>1, <1>2 DEF PlanRec
<1>4. Keeps(j, j') /\ j'.open = j.open \ {a} /\ j'.run = j.run /\ (a \notin j.open => j' = j)
  <2>1. CASE a \notin j.open
    BY <1>2, <2>1, KeepsItself DEF W!DrainExternal
  <2>2. CASE a \in j.open
    <3>1. \/ j' = W!Settled(j, a, "blocked", 0)
          \/ j' = W!Drained(j, a, plan.orphan)
      BY <2>2 DEF W!DrainExternal
    <3>2. "blocked" \in W!Settling /\ 0 \in W!Node \cup {0}
      BY DEF W!Settling
    <3>3. CASE j' = W!Settled(j, a, "blocked", 0)
      BY <1>2, <2>2, <3>2, <3>3, SettledTrue
    <3>4. CASE j' = W!Drained(j, a, plan.orphan)
      BY <1>2, <2>2, <3>4, DrainedTrue
    <3> QED BY <2>2, <3>1, <3>3, <3>4
  <2> QED BY <2>1, <2>2
<1>5. MemoryFine'
  BY <1>1, <1>3, Holds, SameMemory DEF W!InFlight
<1>6. Living' /\ Draining' /\ Acting'
  BY <1>1, <1>2, <1>3, <1>4, SameTypes DEF FlowInv, Living, Draining, Acting, W!Thread, W!InFlight, Acts
<1>7. Ending'
  <2>1. j.run = "blocked" => j' = j
    BY <1>2, <1>4 DEF LedgerTrue, RunOver
  <2> QED BY <1>1, <1>4, <2>1, SameTypes DEF FlowInv, Ending, W!Thread, Acts
<1>8. Busy'
  BY <1>1, SameTypes DEF FlowInv, Busy, W!Thread, W!NoAsk, W!InFlight
<1> QED BY <1>1, <1>4, <1>5, <1>6, <1>7, <1>8, Finish

(* The dispatch loop stops at the cap. *)
LEMMA ActCappedStep ==
    ASSUME FlowInv, W!ActCapped
    PROVE  FlowInv' /\ Keeps(j, j') /\ Fresh
<1>1. /\ pc = "act" /\ j' = j /\ local' = local /\ pc' = pc /\ plan' = [plan EXCEPT !.dispatch = {}]
      /\ cards' = cards /\ proc' = proc /\ click' = click /\ ask' = ask /\ tries' = tries /\ dag' = dag
  BY DEF W!ActCapped, W!Ext
<1>2. plan' \in PlanRec /\ plan'.dispatch = {}
  BY <1>1, Holds DEF PlanRec
<1>3. MemoryFine'
  BY <1>1, <1>2, Holds, SameMemory DEF W!InFlight
<1>4. Living' /\ Draining' /\ Acting' /\ Ending'
  BY <1>1, <1>2, SameTypes DEF FlowInv, Living, Draining, Acting, Ending, W!InFlight, Acts
<1>5. Busy'
  BY <1>1, SameTypes DEF FlowInv, Busy, W!Thread, W!NoAsk, W!InFlight
<1> QED BY <1>1, <1>3, <1>4, <1>5, FinishSame

(* A gate wait is written and its card posted. *)
LEMMA WriteWaitStep ==
    ASSUME FlowInv, W!WriteWait
    PROVE  FlowInv' /\ Keeps(j, j') /\ Fresh
<1>1. /\ pc = "wait file" /\ j' = j /\ local' = local /\ pc' = "act" /\ plan' = plan
      /\ cards' = cards /\ proc' = proc /\ click' = click /\ ask' = ask /\ tries' = tries /\ dag' = dag
  BY DEF W!WriteWait
<1>3. MemoryFine'
  BY <1>1, Holds, SameMemory DEF W!InFlight, Places
<1>4. Living' /\ Draining' /\ Acting' /\ Ending'
  BY <1>1, SameTypes DEF FlowInv, Living, Draining, Acting, Ending, W!InFlight, W!Obsolete, Acts
<1>5. Busy'
  BY <1>1, SameTypes DEF FlowInv, Busy, W!Thread, W!NoAsk, W!InFlight, Acts
<1> QED BY <1>1, <1>3, <1>4, <1>5, FinishSame

(* The end of a tick. *)
LEMMA ActEndStep ==
    ASSUME FlowInv, W!ActEnd
    PROVE  FlowInv' /\ Keeps(j, j') /\ Fresh
<1> DEFINE gates == {<<n, j.node[n].eff>> : n \in {m \in W!Node : W!Status(m) = "gateWaiting"}}
<1>1. /\ pc = "act" /\ j' = j /\ local' = local /\ pc' \in {"ret", "threw", "wait", "tick"} /\ plan' = W!NoPlan
      /\ proc' = proc /\ click' = click /\ ask' = ask /\ tries' = tries /\ dag' = dag
      /\ cards' \in {cards, cards \cup gates}
  BY DEF W!ActEnd
<1>2. W!NoPlan \in PlanRec
  <2>1. {} \in SUBSET W!Node /\ {} \in SUBSET Triples /\ FALSE \in BOOLEAN
    OBVIOUS
  <2> QED BY <2>1, NoPlanIs
<1>3. cards' \subseteq W!Node \X Nat
  <2>1. gates \subseteq W!Node \X Nat
    BY Holds, Effective
  <2> QED BY <1>1, <2>1, Holds
<1>4. MemoryFine'
  <2> HIDE DEF gates
  <2> QED BY <1>1, <1>2, <1>3, Holds, SameMemory DEF W!InFlight, Places
<1> HIDE DEF gates
<1>5. Living' /\ Draining' /\ Acting'
  BY <1>1, SameTypes DEF FlowInv, Living, Draining, Acting, W!InFlight, Acts
<1>6. Busy' /\ Ending'
  BY <1>1, SameTypes DEF FlowInv, Busy, Ending, W!Thread, W!NoAsk, W!InFlight, Acts
<1> QED BY <1>1, <1>4, <1>5, <1>6, FinishSame

(* The driver wakes up, or is called. *)
LEMMA WakeStep ==
    ASSUME FlowInv, W!SeeCancellation \/ W!Return \/ W!StartRun
    PROVE  FlowInv' /\ Keeps(j, j') /\ Fresh
<1>1. /\ pc \in {"wait", "ret", "new"} /\ j' = j /\ local' = local /\ pc' \in {"tick", "idle"} /\ plan' = plan
      /\ cards' = cards /\ proc' = proc /\ click' = click /\ ask' = ask /\ tries' = tries /\ dag' = dag
  BY DEF W!SeeCancellation, W!Return, W!StartRun, W!Drive, W!Ext
<1>3. MemoryFine'
  BY <1>1, Holds, SameMemory DEF W!InFlight, Places
<1>4. Living' /\ Draining' /\ Acting'
  BY <1>1, SameTypes DEF FlowInv, Living, Draining, Acting, W!InFlight, Acts
<1>5. Busy' /\ Ending'
  BY <1>1, SameTypes DEF FlowInv, Busy, Ending, W!Thread, W!NoAsk, W!InFlight, Acts
<1> QED BY <1>1, <1>3, <1>4, <1>5, FinishSame

(* A click on a card. *)
LEMMA ClickGateStep ==
    ASSUME FlowInv, NEW g \in cards, NEW res, W!ClickGate(g, res)
    PROVE  FlowInv' /\ Keeps(j, j') /\ Fresh
<1>1. /\ W!Free /\ j.run = "running" /\ j.node[g[1]].status = "gateWaiting" /\ j.node[g[1]].eff = g[2]
      /\ j' = j /\ local' = local /\ pc' = pc /\ plan' = plan
      /\ cards' = cards /\ proc' = proc /\ click' = <<g, res>> /\ ask' = ask /\ tries' = tries /\ dag' = dag
  BY DEF W!ClickGate, W!Status
<1>2. ask = W!NoAsk /\ pc \notin Acts \cup {"append", "down"}
  BY <1>1 DEF W!Free, W!Thread, Acts
<1>3. g[1] \in W!Node
  BY Holds
<1>4. MemoryFine'
  BY <1>1, Holds, SameMemory DEF W!InFlight, Places
<1>5. Living' /\ Draining' /\ Acting'
  BY <1>1, <1>2, SameTypes DEF FlowInv, Living, Draining, Acting, W!InFlight, Acts
<1>6. Ending'
  BY <1>1, SameTypes DEF FlowInv, Ending, Acts
<1>7. click'[1][1] = g[1] /\ click'[1][2] = g[2]
  BY <1>1
<1>8. Busy'
  BY <1>1, <1>2, <1>3, <1>7, SameTypes DEF FlowInv, Busy, W!NoAsk, Acts
<1> QED BY <1>1, <1>4, <1>5, <1>6, <1>8, FinishSame

(* A worker whose daemon died exits. *)
LEMMA OrphanStep ==
    ASSUME FlowInv, NEW a \in proc, W!OrphanExits(a)
    PROVE  FlowInv' /\ Keeps(j, j') /\ Fresh
<1>1. /\ j' = j /\ local' = local /\ pc' = pc /\ plan' = plan /\ proc' = proc \ {a}
      /\ cards' = cards /\ click' = click /\ ask' = ask /\ tries' = tries /\ dag' = dag
  BY DEF W!OrphanExits
<1>3. MemoryFine'
  BY <1>1, Holds, SameMemory DEF W!InFlight
<1>4. Living' /\ Draining' /\ Acting'
  BY <1>1, SameTypes DEF FlowInv, Living, Draining, Acting, W!InFlight, W!Obsolete, Acts
<1>5. Busy' /\ Ending'
  BY <1>1, SameTypes DEF FlowInv, Busy, Ending, W!Thread, W!NoAsk, W!InFlight, Acts
<1> QED BY <1>1, <1>3, <1>4, <1>5, FinishSame

(* A worker hands in its manifest. *)
LEMMA WorkerReturnsStep ==
    ASSUME FlowInv, NEW a \in W!InFlight, NEW r \in W!Outcome, W!WorkerReturns(a, r)
    PROVE  FlowInv' /\ Keeps(j, j') /\ Fresh
<1>1. /\ W!Free /\ j' = j /\ local' = [local EXCEPT ![a].phase = r] /\ pc' = pc /\ plan' = plan
      /\ proc' = proc \ {a}
      /\ cards' = cards /\ click' = click /\ ask' = ask /\ tries' = tries /\ dag' = dag
  BY DEF W!WorkerReturns
<1>2. r \in {"ok", "block", "fail", "revisit"}
  BY Holds, DagFacts
<1>3. /\ local' \in [W!InFlight -> Memory] /\ DOMAIN local' = W!InFlight
      /\ \A b \in W!InFlight : b # a => local'[b] = local[b]
  <2>1. local \in [W!InFlight -> Memory] /\ local[a] \in Memory
    BY Holds
  <2> DEFINE m == [local[a] EXCEPT !.phase = r]
  <2>2. m \in Memory
    BY <1>2, <2>1 DEF Memory
  <2>3. local' = [local EXCEPT ![a] = m]
    BY <1>1
  <2> HIDE DEF m
  <2> QED BY <2>1, <2>2, <2>3
<1>4. MemoryFine'
  BY <1>1, <1>3, Holds, SameMemory
<1>5. Living' /\ Draining' /\ Acting'
  BY <1>1, <1>3, SameTypes DEF FlowInv, Living, Draining, Acting, W!InFlight, W!Obsolete, Acts, W!Free
<1>6. Busy' /\ Ending'
  BY <1>1, SameTypes DEF FlowInv, Busy, Ending, W!Thread, W!NoAsk, W!Free, Acts
<1> QED BY <1>1, <1>4, <1>5, <1>6, FinishSame

(* A death leaves the journal and the workers. *)
LEMMA DieStep ==
    ASSUME FlowInv, W!Die, Keeps(j, j'), j'.open = j.open, tries' \in [retry : Nat, grant : Nat, crash : Nat],
           j'.run = j.run, j'.blocked = j.blocked, j'.node = j.node
    PROVE  FlowInv' /\ Keeps(j, j') /\ Fresh
<1>1. /\ local' = <<>> /\ pc' = "down" /\ plan' = W!NoPlan
      /\ cards' = cards /\ proc' = proc /\ click' = <<>> /\ ask' = W!NoAsk /\ dag' = dag
  BY DEF W!Die
<1>2. W!NoPlan \in PlanRec
  <2>1. {} \in SUBSET W!Node /\ {} \in SUBSET Triples /\ FALSE \in BOOLEAN
    OBVIOUS
  <2> QED BY <2>1, NoPlanIs
<1>3. DOMAIN local' = {} /\ local' \in [DOMAIN local' -> Memory]
  BY <1>1
<1>4. ask' \in AskRec
  BY <1>1 DEF W!NoAsk, AskRec
<1>5. MemoryFine'
  BY <1>1, <1>2, <1>3, <1>4, Holds, SameMemory DEF Places
<1>6. Living' /\ Draining' /\ Acting'
  BY <1>1, <1>3 DEF FlowInv, Living, Draining, Acting, W!InFlight, Acts
<1>7. Busy' /\ Ending'
  BY <1>1, SameTypes DEF FlowInv, Busy, Ending, W!Thread, W!NoAsk, Acts
<1> QED BY <1>1, <1>5, <1>6, <1>7, Finish

(* The daemon dies. *)
LEMMA CrashStep ==
    ASSUME FlowInv, W!Crash
    PROVE  FlowInv' /\ Keeps(j, j') /\ Fresh
<1>1. W!Die /\ j' = j /\ tries' = [tries EXCEPT !.crash = @ + 1]
  BY DEF W!Crash
<1>2. tries' \in [retry : Nat, grant : Nat, crash : Nat]
  BY <1>1, Holds
<1>3. Keeps(j, j')
  BY <1>1, Holds, KeepsItself
<1> QED BY <1>1, <1>2, <1>3, DieStep

(* An attempt of this driver is closed and its promise forgotten. *)
LEMMA CloseStep ==
    ASSUME FlowInv, NEW a \in W!InFlight, pc \notin Acts \cup {"append", "down"}, click = <<>>,
           Keeps(j, j'), j'.open = j.open \ {a}, j'.run = j.run, W!Forget(a), W!Wake, proc' = proc \ {a},
           plan' = plan, cards' = cards, click' = click, ask' = W!NoAsk, tries' = tries, dag' = dag
    PROVE  FlowInv' /\ Keeps(j, j') /\ Fresh
<1>1. a \in j.open /\ LedgerTrue(j) /\ local \in [W!InFlight -> Memory]
  BY Holds
<1>2. /\ local' = [b \in W!InFlight \ {a} |-> local[b]] /\ pc' = (IF pc = "wait" THEN "tick" ELSE pc)
  BY DEF W!Forget, W!Wake
<1>3. /\ DOMAIN local' = W!InFlight \ {a} /\ local' \in [DOMAIN local' -> Memory]
      /\ \A b \in W!InFlight \ {a} : local'[b] = local[b]
  BY <1>1, <1>2
<1>4. MemoryFine'
  <2>1. W!NoAsk \in AskRec
    BY DEF W!NoAsk, AskRec
  <2>2. pc' \in Places
    BY <1>2, Holds DEF Places
  <2> QED BY <1>3, <2>1, <2>2, Holds, SameMemory
<1>5. Living'
  BY <1>3 DEF FlowInv, Living, W!InFlight
<1>6. Draining'
  BY <1>2, <1>3 DEF FlowInv, Draining, W!InFlight
<1>7. Acting'
  BY <1>2 DEF Acting, Acts
<1>8. Ending'
  <2>1. j'.run # "blocked"
    BY <1>1 DEF LedgerTrue, RunOver
  <2> QED BY <1>2, <2>1 DEF Ending, Acts
<1>9. Busy'
  BY <1>2, SameTypes DEF Busy, W!NoAsk, Acts
<1> QED BY <1>4, <1>5, <1>6, <1>7, <1>8, <1>9, Finish

(* A worker ends without a manifest. *)
LEMMA WorkerDrainedStep ==
    ASSUME FlowInv, NEW a \in W!InFlight, W!WorkerDrained(a)
    PROVE  FlowInv' /\ Keeps(j, j') /\ Fresh
<1> DEFINE orphan == FALSE
           byRun == TRUE
           t == W!Drained(j, a, orphan)
           u == W!NodeCancelled(t, a[1], a[2], byRun)
<1>1. /\ W!Free /\ W!Forget(a) /\ W!Wake /\ proc' = proc \ {a}
      /\ plan' = plan /\ cards' = cards /\ click' = click /\ ask' = ask /\ tries' = tries /\ dag' = dag
  BY DEF W!WorkerDrained
<1>2. a \in j.open /\ j \in Ledger /\ LedgerTrue(j)
  BY Holds
<1>3. j' = t \/ (j.run = "cancelling" /\ j' = u)
  BY <1>2 DEF W!WorkerDrained
<1>4. orphan \in BOOLEAN /\ byRun \in BOOLEAN /\ t = W!Drained(j, a, orphan) /\ u = W!NodeCancelled(t, a[1], a[2], byRun)
  OBVIOUS
<1> HIDE DEF orphan, byRun, t, u
<1>5. Keeps(j, j') /\ j'.open = j.open \ {a} /\ j'.run = j.run
  <2>1. Keeps(j, t) /\ t.open = j.open \ {a} /\ t.run = j.run
    BY <1>2, <1>4, DrainedTrue
  <2>2. j.run = "cancelling" => Keeps(j, u) /\ u.open = j.open \ {a} /\ u.run = j.run
    <3>1. j.run = "cancelling" => W!Cut(j)
      BY DEF W!Cut
    <3> QED BY <1>2, <1>4, <3>1, DrainCancelTrue
  <2> QED BY <1>3, <2>1, <2>2
<1>6. pc \notin Acts \cup {"append", "down"} /\ click = <<>> /\ ask = W!NoAsk
  BY <1>1 DEF W!Free, W!Thread, Acts
<1> QED BY <1>1, <1>5, <1>6, CloseStep

(* The result of a worker reaches the journal. *)
LEMMA WorkerSettlesStep ==
    ASSUME FlowInv, NEW a \in W!InFlight, W!WorkerSettles(a)
    PROVE  FlowInv' /\ Keeps(j, j') /\ Fresh
<1>1. /\ W!Free /\ W!Forget(a) /\ W!Wake /\ proc' = proc
      /\ plan' = plan /\ cards' = cards /\ click' = click /\ ask' = ask /\ tries' = tries /\ dag' = dag
  BY DEF W!WorkerSettles
<1>2. a \in j.open /\ j \in Ledger /\ LedgerTrue(j) /\ a[1] \in W!Node
  BY Holds, OpenFacts DEF IsInst
<1>3. local[a].phase # "run" /\ \E st \in W!Settling, why \in W!Node \cup {0} : j' = W!Settled(j, a, st, why)
  <2>1. "done" \in W!Settling /\ "blocked" \in W!Settling /\ "failed" \in W!Settling
    BY DEF W!Settling
  <2>2. W!RevisitTo[a[1]] \subseteq W!Node
    BY <1>2, Holds, DagFacts
  <2>3. CASE \E v \in {<<"ok", "done">>, <<"block", "blocked">>, <<"fail", "failed">>} :
               local[a].phase = v[1] /\ j' = W!Settled(j, a, v[2], 0)
    BY <2>1, <2>3
  <2>4. CASE \E t \in W!RevisitTo[a[1]] : local[a].phase = "revisit" /\ j' = W!Settled(j, a, "blocked", t)
    BY <2>1, <2>2, <2>4
  <2> QED BY <2>3, <2>4 DEF W!WorkerSettles
<1>4. Keeps(j, j') /\ j'.open = j.open \ {a} /\ j'.run = j.run
  BY <1>2, <1>3, SettledTrue
<1>5. pc \notin Acts \cup {"append", "down"} /\ click = <<>> /\ ask = W!NoAsk
  BY <1>1 DEF W!Free, W!Thread, Acts
<1>6. proc' = proc \ {a}
  BY <1>1, <1>3 DEF FlowInv, Living
<1> QED BY <1>1, <1>4, <1>5, <1>6, CloseStep

(* The last event of a revisit. *)
LEMMA RevisitEndsStep ==
    ASSUME FlowInv, W!RevisitEnds
    PROVE  FlowInv' /\ Keeps(j, j') /\ Fresh
<1> DEFINE orphan == FALSE
           a == ask.by
<1>1. /\ ask # W!NoAsk /\ W!Forget(a) /\ W!Wake /\ proc' = proc
      /\ plan' = plan /\ cards' = cards /\ click' = click /\ ask' = W!NoAsk /\ tries' = tries /\ dag' = dag
  BY DEF W!RevisitEnds
<1>2. a \in W!InFlight /\ local[a].phase = "revisit" /\ click = <<>> /\ pc \notin Acts \cup {"append", "down"}
  BY <1>1 DEF FlowInv, Busy, W!Thread
<1>3. a \in j.open /\ j \in Ledger /\ LedgerTrue(j) /\ a \notin proc
  BY <1>2, Holds DEF FlowInv, Living
<1>4. j' = W!Drained(j, a, orphan) /\ orphan \in BOOLEAN
  BY <1>3 DEF W!RevisitEnds
<1> HIDE DEF orphan, a
<1>5. Keeps(j, j') /\ j'.open = j.open \ {a} /\ j'.run = j.run
  BY <1>3, <1>4, DrainedTrue
<1>6. proc' = proc \ {a}
  BY <1>1, <1>3
<1> QED BY <1>1, <1>2, <1>5, <1>6, CloseStep

(* A step of an operator that calls the driver. *)
LEMMA DriveStep ==
    ASSUME FlowInv, pc \notin Acts \cup {"append", "down"}, Keeps(j, j'), j'.open = j.open, j'.run # "blocked",
           j.run = "cancelling" => j'.run = "cancelling", W!Drive, proc' = proc,
           local' \in [W!InFlight -> Memory], DOMAIN local' = W!InFlight,
           \A a \in W!InFlight : local'[a].phase = local[a].phase,
           tries' \in [retry : Nat, grant : Nat, crash : Nat],
           plan' = plan, cards' = cards, click' = <<>>, ask' = ask, ask = W!NoAsk, dag' = dag
    PROVE  FlowInv' /\ Keeps(j, j') /\ Fresh
<1>1. pc' \in {pc, "tick"}
  BY DEF W!Drive
<1>2. MemoryFine'
  <2>1. pc' \in Places
    BY <1>1, Holds DEF Places
  <2> QED BY <2>1, Holds, SameMemory
<1>3. Living' /\ Draining' /\ Acting'
  BY <1>1 DEF FlowInv, Living, Draining, Acting, W!InFlight, Acts
<1>4. Busy' /\ Ending'
  BY <1>1 DEF Busy, Ending, Acts, W!NoAsk
<1> QED BY <1>2, <1>3, <1>4, Finish

(* A cancellation in the daemon. *)
LEMMA CancelInDaemonStep ==
    ASSUME FlowInv, W!CancelInDaemon
    PROVE  FlowInv' /\ Keeps(j, j') /\ Fresh
<1>1. /\ W!Free /\ W!Cancellable /\ W!Drive /\ j' = W!RunCancelRequested(j) /\ local' = W!Aborted(W!InFlight, "run")
      /\ plan' = plan /\ cards' = cards /\ click' = click /\ ask' = ask /\ tries' = tries /\ dag' = dag /\ proc' = proc
  BY DEF W!CancelInDaemon
<1>2. pc \notin Acts \cup {"append", "down"} /\ click = <<>> /\ ask = W!NoAsk
  BY <1>1 DEF W!Free, W!Thread, Acts
<1>3. Keeps(j, j') /\ j'.open = j.open /\ j'.run = "cancelling"
  <2>1. ~(W!Cut(j) \/ j.run \in {"succeeded", "failed"})
    BY <1>1 DEF W!Cancellable
  <2> QED BY <1>1, <2>1, Holds, CancelRequestedTrue
<1>4. /\ local' \in [W!InFlight -> Memory] /\ DOMAIN local' = W!InFlight
      /\ \A a \in W!InFlight : local'[a].phase = local[a].phase
  BY <1>1, Holds, AbortedIs
<1> QED BY <1>1, <1>2, <1>3, <1>4, Holds, DriveStep

(* A cancellation by another process, for a standalone run. *)
LEMMA CancelFromCliStep ==
    ASSUME FlowInv, W!CancelFromCli
    PROVE  FlowInv' /\ Keeps(j, j') /\ Fresh
<1>1. /\ W!Cancellable /\ j' = W!RunCancelRequested(j) /\ local' = local /\ pc' = pc
      /\ plan' = plan /\ cards' = cards /\ click' = click /\ ask' = ask /\ tries' = tries /\ dag' = dag /\ proc' = proc
  BY DEF W!CancelFromCli, W!Ext
<1>2. Keeps(j, j') /\ j'.open = j.open /\ j'.run = "cancelling" /\ j'.node = j.node /\ j'.inst = j.inst
  <2>1. ~(W!Cut(j) \/ j.run \in {"succeeded", "failed"})
    BY <1>1 DEF W!Cancellable
  <2> QED BY <1>1, <2>1, Holds, CancelRequestedTrue
<1>3. MemoryFine'
  BY <1>1, Holds, SameMemory DEF W!InFlight
<1>4. Living' /\ Draining' /\ Acting'
  BY <1>1, <1>2 DEF FlowInv, Living, Draining, Acting, W!InFlight, W!Obsolete
<1>5. Ending'
  BY <1>2 DEF Ending, W!Cut
<1>6. Busy'
  BY <1>1, <1>2, SameTypes DEF FlowInv, Busy, W!Thread, W!NoAsk, W!InFlight
<1> QED BY <1>1, <1>2, <1>3, <1>4, <1>5, <1>6, Finish

(* The decision of a click reaches the journal. *)
LEMMA ClickAppendsStep ==
    ASSUME FlowInv, W!ClickAppends
    PROVE  FlowInv' /\ Keeps(j, j') /\ Fresh
<1> DEFINE n == click[1][1]
           k == click[1][2]
           res == click[2]
<1>1. /\ click # <<>> /\ W!Drive /\ j' = W!GateResolved(j, n, k, res) /\ local' = local
      /\ plan' = plan /\ cards' = cards /\ click' = <<>> /\ ask' = ask /\ tries' = tries /\ dag' = dag /\ proc' = proc
  BY DEF W!ClickAppends
<1>2. /\ ask = W!NoAsk /\ n \in W!Node /\ j.node[n].eff = k /\ j.node[n].status = "gateWaiting"
      /\ pc \notin Acts \cup {"append", "down"}
  BY <1>1 DEF FlowInv, Busy, W!Thread
<1>3. j.run = "running" \/ W!Cut(j)
  BY <1>1 DEF FlowInv, Ending
<1> HIDE DEF n, k, res
<1>4. Keeps(j, j') /\ j'.open = j.open /\ j'.run = j.run
  <2>1. j \in Ledger /\ LedgerTrue(j) /\ k = j.node[n].eff /\ j' = W!GateResolved(j, n, k, res)
    BY <1>1, <1>2, Holds
  <2> QED BY <1>2, <2>1, ResolvedTrue
<1> QED BY <1>1, <1>2, <1>3, <1>4, Holds, DriveStep DEF W!Cut

(* A retry of a failed or blocked node. *)
LEMMA RetryStep ==
    ASSUME FlowInv, NEW n \in W!Node, W!Retry(n)
    PROVE  FlowInv' /\ Keeps(j, j') /\ Fresh
<1>1. /\ W!Free /\ j.node[n].status = "blocked" /\ ~W!Cut(j) /\ j' = W!RetryRequested(j, n) /\ W!Drive /\ local' = local
      /\ plan' = plan /\ cards' = cards /\ click' = click /\ ask' = ask /\ dag' = dag /\ proc' = proc
      /\ tries' = [tries EXCEPT !.retry = @ + 1]
  BY DEF W!Retry, W!Status
<1>2. pc \notin Acts \cup {"append", "down"} /\ click = <<>> /\ ask = W!NoAsk
  BY <1>1 DEF W!Free, W!Thread, Acts
<1>3. Keeps(j, j') /\ j'.open = j.open /\ j'.run = (IF j.run = "blocked" THEN "running" ELSE j.run)
  BY <1>1, Holds, RetriedTrue
<1>4. tries' \in [retry : Nat, grant : Nat, crash : Nat]
  BY <1>1, Holds
<1> QED BY <1>1, <1>2, <1>3, <1>4, Holds, DriveStep

(* More budget touches no node. *)
LEMMA GrantedTrue ==
    ASSUME FlowInv, NEW n \in W!Node, NEW scope, j.node[n].eff # 0, j.inst[n][j.node[n].eff].why # 0,
           NEW g, g = W!Granted(n, scope)
    PROVE  /\ Keeps(j, g) /\ g.node = j.node /\ g.inst = j.inst /\ g.open = j.open /\ g.run = j.run
           /\ g.blocked = j.blocked
<1> DEFINE p == <<n, j.inst[n][j.node[n].eff].why>>
           x == j.left[p] + 1
           more == [j.left EXCEPT ![p] = x]
           one == j.leftRun + 1
<1>1. j \in Ledger /\ LedgerTrue(j)
  BY Holds
<1>2. g = j \/ g = [j EXCEPT !.left = more] \/ g = [j EXCEPT !.leftRun = one]
  BY DEF W!Granted
<1>3. more \in [W!Pair -> Nat]
  <2>1. j.left \in [W!Pair -> Nat]
    BY <1>1 DEF Ledger
  <2>2. p \in W!Pair => x \in Nat
    BY <2>1
  <2> HIDE DEF p, x
  <2> QED BY <2>1, <2>2
<1>6. one \in Nat
  BY <1>1 DEF Ledger
<1> HIDE DEF more, one
<1>4. /\ g \in Ledger /\ g.node = j.node /\ g.inst = j.inst /\ g.open = j.open /\ g.run = j.run
      /\ g.blocked = j.blocked
  BY <1>1, <1>2, <1>3, <1>6 DEF Ledger
<1>5. Keeps(j, g)
  BY <1>1, <1>4, RestKeeps DEF LedgerTrue, W!Cut
<1> QED BY <1>4, <1>5

(* A grant of more revisits. *)
LEMMA GrantStep ==
    ASSUME FlowInv, NEW n \in W!Node, NEW scope, W!GrantRevisit(n, scope)
    PROVE  FlowInv' /\ Keeps(j, j') /\ Fresh
<1> DEFINE g == W!Granted(n, scope)
<1>1. /\ W!Free /\ j.run = "blocked" /\ j.blocked = n /\ j.node[n].eff # 0 /\ j.inst[n][j.node[n].eff].why # 0
      /\ j' = W!RetryRequested(g, n) /\ W!Drive /\ local' = local
      /\ plan' = plan /\ cards' = cards /\ click' = click /\ ask' = ask /\ dag' = dag /\ proc' = proc
      /\ tries' = [tries EXCEPT !.grant = @ + 1]
  BY DEF W!GrantRevisit
<1>2. pc \notin Acts \cup {"append", "down"} /\ click = <<>> /\ ask = W!NoAsk
  BY <1>1 DEF W!Free, W!Thread, Acts
<1>3. g = W!Granted(n, scope)
  OBVIOUS
<1> HIDE DEF g
<1>4. /\ Keeps(j, g) /\ g.node = j.node /\ g.inst = j.inst /\ g.open = j.open /\ g.run = j.run
  BY <1>1, <1>3, GrantedTrue
<1>5. j.node[n].status = "blocked"
  BY <1>1 DEF FlowInv, Ending
<1>6. Keeps(g, j') /\ j'.open = g.open /\ j'.run = "running"
  <2>1. g \in Ledger /\ LedgerTrue(g) /\ ~W!Cut(g)
    BY <1>1, <1>4 DEF Keeps, W!Cut
  <2> QED BY <1>1, <1>4, <1>5, <2>1, RetriedTrue
<1>7. Keeps(j, j')
  BY <1>4, <1>6, KeepsTwice
<1>8. tries' \in [retry : Nat, grant : Nat, crash : Nat]
  BY <1>1, Holds
<1> QED BY <1>1, <1>2, <1>4, <1>6, <1>7, <1>8, Holds, DriveStep

(* A crash between the two events of a grant. *)
LEMMA CrashInGrantStep ==
    ASSUME FlowInv, NEW n \in W!Node, NEW scope, W!CrashInGrant(n, scope)
    PROVE  FlowInv' /\ Keeps(j, j') /\ Fresh
<1>1. /\ W!Die /\ j.node[n].eff # 0 /\ j.inst[n][j.node[n].eff].why # 0
      /\ j' = W!Granted(n, scope) /\ tries' = [tries EXCEPT !.crash = @ + 1, !.grant = @ + 1]
  BY DEF W!CrashInGrant
<1>2. tries' \in [retry : Nat, grant : Nat, crash : Nat]
  <2>1. tries \in [retry : Nat, grant : Nat, crash : Nat]
    BY Holds
  <2>2. tries.crash + 1 \in Nat /\ tries.grant + 1 \in Nat
    BY <2>1
  <2> DEFINE c == tries.crash + 1
             g == tries.grant + 1
  <2>3. tries' = [tries EXCEPT !.crash = c, !.grant = g] /\ c \in Nat /\ g \in Nat
    BY <1>1, <2>2
  <2> HIDE DEF c, g
  <2> QED BY <2>1, <2>3
<1>3. /\ Keeps(j, j') /\ j'.node = j.node /\ j'.open = j.open /\ j'.run = j.run /\ j'.blocked = j.blocked
  BY <1>1, GrantedTrue
<1> QED BY <1>1, <1>2, <1>3, DieStep

(* A worker asks for a revisit. *)
LEMMA RevisitRequestedStep ==
    ASSUME FlowInv, NEW a \in W!InFlight, NEW t \in W!RevisitTo[a[1]], W!RevisitRequested(a, t)
    PROVE  FlowInv' /\ Keeps(j, j') /\ Fresh
<1> DEFINE p == <<a[1], t>>
           todo == {<<n, j.node[n].eff>> : n \in {m \in W!Cone(t) : j.node[m].eff # 0}}
           x == j.left[p] - 1
           less == [j.left EXCEPT ![p] = x]
           one == j.leftRun - 1
           st == j.inst[a[1]][a[2]].st
<1>1. /\ W!Free /\ local[a].phase = "revisit" /\ ~W!Exhausted(p)
      /\ j' = [j EXCEPT !.left = less, !.leftRun = one]
      /\ ask' = [by |-> a, st |-> st, todo |-> todo]
      /\ proc' = proc /\ local' = local /\ pc' = pc
      /\ plan' = plan /\ cards' = cards /\ click' = click /\ tries' = tries /\ dag' = dag
  <2>1. j \in Ledger
    BY Holds
  <2> QED BY <2>1 DEF W!RevisitRequested, Ledger
<1>2. a \in j.open /\ j \in Ledger /\ LedgerTrue(j) /\ a \in Triples /\ IsInst(j, a[1], a[2]) /\ a[1] \in W!Node
  BY Holds, OpenFacts DEF IsInst
<1>3. pc \notin Acts \cup {"append", "down"} /\ click = <<>> /\ ask = W!NoAsk
  BY <1>1 DEF W!Free, W!Thread, Acts
<1>4. less \in [W!Pair -> Nat] /\ one \in Nat
  <2>1. j.left \in [W!Pair -> Nat] /\ j.leftRun \in Nat
    BY <1>2 DEF Ledger
  <2>2. j.left[p] # 0 /\ j.leftRun # 0
    BY <1>1 DEF W!Exhausted
  <2>3. p \in W!Pair
    <3>1. t \in W!Node
      BY <1>2, Holds, DagFacts
    <3> QED BY <1>2, <3>1 DEF W!Pair
  <2>4. x \in Nat /\ one \in Nat
    BY <2>1, <2>2, <2>3
  <2> HIDE DEF p, x
  <2> QED BY <2>1, <2>4
<1>5. todo \subseteq W!Node \X Nat /\ \A g \in todo : g[2] # 0 /\ j.node[g[1]].eff = g[2]
  <2>1. W!Cone(t) \subseteq W!Node
    BY DEF W!Cone
  <2>2. \A n \in W!Cone(t) : j.node[n].eff \in Nat
    BY <1>2, <2>1, Effective
  <2> QED BY <2>1, <2>2
<1>6. st \in W!NodeStatus \cup {"superseded"}
  BY <1>2, Fields DEF InstRec
<1>7. a \in Seq(Nat)
  <2>1. a[1] \in Nat /\ a[2] \in Nat /\ a[3] \in Nat /\ a = <<a[1], a[2], a[3]>>
    BY <1>2 DEF Triples, W!Node
  <2>2. \A x1, x2, x3 \in Nat : <<x1, x2, x3>> \in Seq(Nat)
    OBVIOUS
  <2> QED BY <2>1, <2>2
<1> HIDE DEF less, one, todo, st
<1>8. /\ j' \in Ledger /\ j'.node = j.node /\ j'.inst = j.inst /\ j'.open = j.open /\ j'.run = j.run
      /\ j'.blocked = j.blocked
  BY <1>1, <1>2, <1>4 DEF Ledger
<1>9. Keeps(j, j')
  BY <1>2, <1>8, RestKeeps DEF LedgerTrue, W!Cut
<1>10. ask' \in AskRec /\ ask'.by = a /\ ask'.todo = todo
  BY <1>1, <1>5, <1>6, <1>7 DEF AskRec
<1>11. MemoryFine'
  BY <1>1, <1>10, Holds, SameMemory DEF W!InFlight
<1>12. Living' /\ Draining' /\ Acting'
  BY <1>1, <1>3, <1>8 DEF FlowInv, Living, Draining, Acting, W!InFlight
<1>13. Ending'
  BY <1>1, <1>8, SameTypes DEF FlowInv, Ending, W!Cut
<1>14. Busy'
  BY <1>1, <1>3, <1>5, <1>8, <1>10 DEF Busy, W!InFlight
<1> QED BY <1>1, <1>8, <1>9, <1>11, <1>12, <1>13, <1>14, Finish

(* One instance of the cone of a revisit is superseded. *)
LEMMA RevisitSupersedesStep ==
    ASSUME FlowInv, W!RevisitSupersedes
    PROVE  FlowInv' /\ Keeps(j, j') /\ Fresh
<1> DEFINE g == CHOOSE x \in ask.todo : \A y \in ask.todo : x[1] <= y[1]
           n == g[1]
           k == g[2]
           X == {a \in W!InFlight : <<a[1], a[2]>> = g}
<1>1. /\ ask # W!NoAsk /\ ask.todo # {} /\ j' = W!Superseded(j, n, k) /\ local' = W!Aborted(X, "drain")
      /\ ask' = [ask EXCEPT !.todo = @ \ {g}]
      /\ proc' = proc /\ pc' = pc
      /\ plan' = plan /\ cards' = cards /\ click' = click /\ tries' = tries /\ dag' = dag
  BY DEF W!RevisitSupersedes
<1>2. j \in Ledger /\ LedgerTrue(j) /\ ask \in AskRec /\ ask.todo \subseteq W!Node \X Nat
  BY Holds DEF AskRec
<1>3. g \in ask.todo
  <2> DEFINE firsts == {y[1] : y \in ask.todo}
  <2>1. firsts \in SUBSET Nat /\ firsts # {}
    BY <1>1, <1>2 DEF W!Node
  <2>2. \E m \in firsts : \A y \in firsts : m <= y
    <3> HIDE DEF firsts
    <3> QED BY <2>1, Least
  <2>3. \E x \in ask.todo : \A y \in ask.todo : x[1] <= y[1]
    BY <2>2
  <2> QED BY <2>3
<1>4. /\ n \in W!Node /\ k # 0 /\ k = j.node[n].eff /\ g = <<n, k>>
      /\ \A y \in ask.todo : y[2] # 0 /\ y[2] = j.node[y[1]].eff /\ y = <<y[1], y[2]>> /\ y[1] \in W!Node
  <2>1. \A y \in ask.todo : y[2] # 0 /\ j.node[y[1]].eff = y[2]
    BY <1>1 DEF FlowInv, Busy
  <2>2. \A y \in ask.todo : y = <<y[1], y[2]>> /\ y[1] \in W!Node
    BY <1>2
  <2> HIDE DEF g
  <2> QED BY <1>3, <2>1, <2>2
<1>5. /\ ask.by \in W!InFlight /\ local[ask.by].phase = "revisit" /\ click = <<>>
      /\ pc \notin Acts \cup {"append", "down"}
  BY <1>1 DEF FlowInv, Busy, W!Thread
<1> HIDE DEF g, n, k
<1>6. /\ Keeps(j, j') /\ j'.open = j.open /\ j'.run \in {j.run, "running"}
      /\ j.run = "cancelling" => j'.run = "cancelling"
      /\ \A m \in W!Node : m # n => j'.node[m] = j.node[m]
  <2>1. CASE W!Cut(j)
    <3>1. j' = j
      BY <1>1, <2>1 DEF W!Superseded
    <3> QED BY <1>2, <3>1, KeepsItself
  <2>2. CASE ~W!Cut(j)
    <3>1. /\ Keeps(j, j') /\ j'.open = j.open /\ j'.run \in {j.run, "running"} /\ Edit(j, j', n, k)
      BY <1>1, <1>2, <1>4, <2>2, SupersededTrue
    <3> QED BY <2>2, <3>1 DEF Edit, W!Cut
  <2> QED BY <2>1, <2>2
<1>7. j'.run = "blocked" => j.run = "blocked" /\ j.blocked # n /\ j'.blocked = j.blocked
  <2> SUFFICES ASSUME j'.run = "blocked" PROVE j.run = "blocked" /\ j.blocked # n /\ j'.blocked = j.blocked
    OBVIOUS
  <2>1. j.run = "blocked" /\ ~W!Cut(j)
    BY <1>6 DEF W!Cut
  <2> DEFINE hit == j.run = "blocked" /\ j.blocked = n
             insts == [j.inst EXCEPT ![n][k].st = "superseded"]
             nodes == [j.node EXCEPT ![n] = IF @.eff = k THEN W!NoNode ELSE @]
             r == IF hit THEN "running" ELSE j.run
             b == IF hit THEN 0 ELSE j.blocked
  <2>2. j' = [j EXCEPT !.inst = insts, !.node = nodes, !.run = r, !.blocked = b]
    BY <1>1, <1>2, <2>1 DEF W!Superseded, Ledger
  <2> HIDE DEF insts, nodes, r, b
  <2>3. j'.run = r /\ j'.blocked = b
    BY <1>2, <2>2 DEF Ledger
  <2>4. ~hit
    BY <2>3 DEF r
  <2> QED BY <2>1, <2>3, <2>4 DEF b
<1>8. /\ local' \in [W!InFlight -> Memory] /\ DOMAIN local' = W!InFlight
      /\ \A a \in W!InFlight : local'[a].phase = local[a].phase
  <2>1. local' = W!Aborted(X, "drain") /\ "drain" \in {"run", "drain"}
    BY <1>1
  <2> HIDE DEF X
  <2> QED BY <2>1, Holds, AbortedIs
<1>9. ask' \in AskRec /\ ask'.by = ask.by /\ ask'.todo = ask.todo \ {g}
  BY <1>1, <1>2 DEF AskRec
<1>10. MemoryFine'
  BY <1>1, <1>8, <1>9, Holds, SameMemory
<1>11. Living' /\ Draining' /\ Acting'
  BY <1>1, <1>5, <1>6, <1>8 DEF FlowInv, Living, Draining, Acting, W!InFlight
<1>12. Ending'
  <2>1. j.run = "blocked" => j.blocked \in W!Node /\ j.node[j.blocked].status = "blocked"
    BY DEF FlowInv, Ending
  <2> QED BY <1>1, <1>5, <1>6, <1>7, <2>1, SameTypes DEF Ending
<1>13. Busy'
  <2>1. \A y \in ask'.todo : y[2] # 0 /\ j'.node[y[1]].eff = y[2]
    BY <1>4, <1>6, <1>9
  <2> QED BY <1>1, <1>5, <1>8, <1>9, <2>1 DEF Busy, W!InFlight
<1> QED BY <1>1, <1>6, <1>10, <1>11, <1>12, <1>13, Finish

(* The worker of a claimed attempt is forked. *)
LEMMA SpawnStep ==
    ASSUME FlowInv, W!Spawn
    PROVE  FlowInv' /\ Keeps(j, j') /\ Fresh
<1> DEFINE new == [abort |-> "none", phase |-> "run"]
<1>1. /\ pc = "spawn" /\ j' = j /\ pc' = "act"
      /\ plan' = plan /\ cards' = cards /\ click' = click /\ ask' = ask /\ tries' = tries /\ dag' = dag
  BY DEF W!Spawn
<1>2. plan.at \in j.open /\ plan.at \notin proc \cup W!InFlight /\ local \in [W!InFlight -> Memory]
  BY <1>1, Holds DEF FlowInv, Acting
<1>3. new \in Memory
  BY DEF Memory
<1>4. \/ proc' = proc /\ local' = local
      \/ /\ proc' = proc \cup {plan.at}
         /\ local' = [a \in W!InFlight \cup {plan.at} |-> IF a = plan.at THEN new ELSE local[a]]
  BY DEF W!Spawn
<1>5. /\ DOMAIN local' \subseteq W!InFlight \cup {plan.at} /\ local' \in [DOMAIN local' -> Memory]
      /\ proc' \subseteq proc \cup {plan.at}
      /\ W!InFlight \subseteq DOMAIN local'
      /\ \A a \in W!InFlight : local'[a] = local[a]
      /\ \A a \in DOMAIN local' \ W!InFlight : local'[a].phase = "run"
  <2>1. CASE proc' = proc /\ local' = local
    BY <1>2, <2>1 DEF W!InFlight
  <2>2. CASE /\ proc' = proc \cup {plan.at}
             /\ local' = [a \in W!InFlight \cup {plan.at} |-> IF a = plan.at THEN new ELSE local[a]]
    <3>1. DOMAIN local' = W!InFlight \cup {plan.at}
      BY <2>2
    <3>2. \A a \in W!InFlight : local'[a] = local[a]
      BY <1>2, <2>2
    <3>3. local'[plan.at] = new
      BY <2>2
    <3>4. new.phase = "run"
      OBVIOUS
    <3> HIDE DEF new
    <3>5. local' \in [DOMAIN local' -> Memory]
      BY <1>2, <1>3, <2>2
    <3> QED BY <2>2, <3>1, <3>2, <3>3, <3>4, <3>5
  <2> QED BY <1>4, <2>1, <2>2
<1> HIDE DEF new
<1>6. MemoryFine'
  BY <1>1, <1>5, Holds, SameMemory DEF Places
<1>7. Living'
  BY <1>1, <1>2, <1>5 DEF FlowInv, Living, W!InFlight
<1>8. Draining' /\ Acting' /\ Ending'
  BY <1>1, SameTypes DEF FlowInv, Draining, Acting, Ending, W!Obsolete, Acts
<1>9. Busy'
  BY <1>1, SameTypes DEF FlowInv, Busy, W!Thread, W!NoAsk, Acts
<1> QED BY <1>1, <1>6, <1>7, <1>8, <1>9, FinishSame

(* The fence of a claimed attempt cannot be written. *)
LEMMA ArmFailsStep ==
    ASSUME FlowInv, W!ArmFails
    PROVE  FlowInv' /\ Keeps(j, j') /\ Fresh
<1> DEFINE a == plan.at
<1>1. /\ pc = "spawn" /\ j' = W!Settled(j, a, "failed", 0) /\ pc' = "act" /\ local' = local
      /\ plan' = plan /\ cards' = cards /\ click' = click /\ ask' = ask /\ tries' = tries /\ dag' = dag
      /\ proc' = proc
  BY DEF W!ArmFails, W!Ext
<1>2. a \in j.open /\ a \notin proc \cup W!InFlight /\ j \in Ledger /\ LedgerTrue(j)
  BY <1>1, Holds DEF FlowInv, Acting
<1>3. a \in Triples /\ IsInst(j, a[1], a[2]) /\ a[1] \in W!Node
  BY <1>2, OpenFacts DEF IsInst
<1> HIDE DEF a
<1>4. Keeps(j, j') /\ j'.open = j.open \ {a} /\ j'.run = j.run /\ Edit(j, j', a[1], a[2])
  <2>1. "failed" \in W!Settling /\ 0 \in W!Node \cup {0}
    BY DEF W!Settling
  <2> QED BY <1>1, <1>2, <2>1, SettledTrue
<1>5. MemoryFine'
  BY <1>1, Holds, SameMemory DEF W!InFlight, Places
<1>6. Living' /\ Draining'
  BY <1>1, <1>2, <1>4 DEF FlowInv, Living, Draining, W!InFlight
<1>7. Acting'
  <2>1. W!Obsolete = {} => (W!Obsolete)' = {}
    <3> SUFFICES ASSUME W!Obsolete = {}, NEW b \in j'.open PROVE j'.inst[b[1]][b[2]].st \notin {"cancelled", "superseded"}
      BY DEF W!Obsolete
    <3>1. b \in j.open /\ b[1] # a[1]
      BY <1>2, <1>4 DEF LedgerTrue
    <3>2. b[1] \in W!Node
      BY <1>2, <3>1, OpenFacts DEF IsInst
    <3>3. j'.inst[b[1]] = j.inst[b[1]]
      BY <1>4, <3>1, <3>2 DEF Edit
    <3> QED BY <3>1, <3>3 DEF W!Obsolete
  <2> QED BY <1>1, <2>1 DEF FlowInv, Acting, Acts
<1>8. Ending'
  <2>1. j'.run # "blocked"
    BY <1>2, <1>4 DEF LedgerTrue, RunOver
  <2>2. j.run = "running" \/ W!Cut(j)
    BY <1>1 DEF FlowInv, Ending, Acts
  <2> QED BY <1>4, <2>1, <2>2 DEF Ending, W!Cut
<1>9. Busy'
  BY <1>1, SameTypes DEF FlowInv, Busy, W!Thread, W!NoAsk, Acts
<1> QED BY <1>1, <1>4, <1>5, <1>6, <1>7, <1>8, <1>9, Finish

(* A loser of an early release is cancelled. *)
LEMMA ActLoserStep ==
    ASSUME FlowInv, W!ActLoser
    PROVE  FlowInv' /\ Keeps(j, j') /\ Fresh
<1> DEFINE c == W!First(plan.losers)
           k == j.node[c].eff
           byRun == FALSE
           live == W!Status(c) \in {"pending", "gateWaiting", "running"}
           X == {a \in W!InFlight : a[1] = c /\ a[2] = j.node[c].eff}
           u == W!NodeCancelled(j, c, k, byRun)
           left == plan.losers \ {c}
           did == plan.cancelled \/ live
<1>1. /\ pc = "act" /\ plan.dispatch = {} /\ plan.losers # {} /\ pc' = pc
      /\ j' = j \/ j' = u
      /\ local' = local \/ local' = W!Aborted(X, "drain")
      /\ plan' = [plan EXCEPT !.losers = left, !.cancelled = did]
      /\ cards' = cards /\ click' = click /\ ask' = ask /\ tries' = tries /\ dag' = dag /\ proc' = proc
  BY DEF W!ActLoser, W!Ext
<1>2. j \in Ledger /\ LedgerTrue(j) /\ plan \in PlanRec /\ plan.losers \in SUBSET W!Node
  BY Holds DEF PlanRec
<1>3. c \in W!Node
  BY <1>1, <1>2, FirstIs
<1>4. AtOrNone(j, c, k)
  BY <1>2, <1>3, Effective
<1>5. u = W!NodeCancelled(j, c, k, byRun) /\ byRun \in BOOLEAN /\ (byRun => W!Cut(j)) /\ (k = 0 => j.node[c].eff = 0)
  OBVIOUS
<1>6. left \in SUBSET W!Node /\ did \in BOOLEAN
  BY <1>2
<1>7. /\ local' \in [W!InFlight -> Memory] /\ DOMAIN local' = W!InFlight
      /\ \A a \in W!InFlight : local'[a].phase = local[a].phase
  <2>1. CASE local' = local
    BY <2>1, Holds DEF W!InFlight
  <2>2. CASE local' = W!Aborted(X, "drain")
    <3>1. "drain" \in {"run", "drain"}
      OBVIOUS
    <3> HIDE DEF X
    <3> QED BY <2>2, <3>1, Holds, AbortedIs
  <2> QED BY <1>1, <2>1, <2>2
<1>8. ~byRun
  OBVIOUS
<1> HIDE DEF c, k, byRun, live, X, u, left, did
<1>9. Keeps(j, j') /\ j'.open = j.open /\ j'.run = j.run
  <2>1. Keeps(j, u) /\ u.open = j.open /\ u.run = j.run
    <3>1. Keeps(j, u) /\ u.run = j.run /\ CancelCloses(j, u, c, k, byRun)
      BY <1>2, <1>4, <1>5, CancelledTrue
    <3> QED BY <1>8, <3>1 DEF CancelCloses
  <2> QED BY <1>1, <1>2, <2>1, KeepsItself
<1>10. plan' \in PlanRec /\ plan'.dispatch = {}
  BY <1>1, <1>2, <1>6 DEF PlanRec
<1>11. MemoryFine'
  BY <1>1, <1>7, <1>10, Holds, SameMemory
<1>12. Living' /\ Draining' /\ Acting'
  BY <1>1, <1>7, <1>9, <1>10 DEF FlowInv, Living, Draining, Acting, W!InFlight
<1>13. Ending'
  BY <1>1, <1>9 DEF FlowInv, Ending, W!Cut, Acts
<1>14. Busy'
  BY <1>1, SameTypes DEF FlowInv, Busy, W!Thread, W!NoAsk, Acts
<1> QED BY <1>1, <1>9, <1>11, <1>12, <1>13, <1>14, Finish

(* What decideNext ends a run with. *)
LEMMA RunTerminalIs ==
    ASSUME FlowInv, W!RunTerminal # <<>>
    PROVE  /\ W!RunTerminal[1] \in {"succeeded", "failed", "blocked"} /\ W!RunTerminal[2] \in Nat
           /\ W!RunTerminal[1] = "blocked" => /\ W!RunTerminal[2] \in W!Node
                                              /\ j.node[W!RunTerminal[2]].status = "blocked"
<1> DEFINE b == W!First(W!Worst("blocked"))
<1>1. CASE W!Worst("failed") # {}
  <2>1. W!RunTerminal = <<"failed", 0>>
    BY <1>1 DEF W!RunTerminal
  <2> QED BY <2>1
<1>2. CASE W!Worst("failed") = {} /\ W!Worst("blocked") # {}
  <2>1. W!RunTerminal = <<"blocked", b>>
    BY <1>2 DEF W!RunTerminal
  <2>2. W!Worst("blocked") \in SUBSET W!Node
    BY DEF W!Worst
  <2>3. b \in W!Worst("blocked")
    BY <1>2, <2>2, FirstIs
  <2>4. b \in W!Node /\ j.node[b].status = "blocked" /\ b \in Nat
    BY <2>3 DEF W!Worst, W!Status, W!Node
  <2> HIDE DEF b
  <2> QED BY <2>1, <2>4
<1>3. CASE W!Worst("failed") = {} /\ W!Worst("blocked") = {}
  <2>1. W!RunTerminal \in {<<"succeeded", 0>>, <<"failed", 0>>}
    BY <1>3 DEF W!RunTerminal
  <2> QED BY <2>1
<1> QED BY <1>1, <1>2, <1>3

(* The terminal event of the run. *)
LEMMA AppendTerminalStep ==
    ASSUME FlowInv, W!AppendTerminal
    PROVE  FlowInv' /\ Keeps(j, j') /\ Fresh
<1> DEFINE r == W!RunTerminal[1]
           b == W!RunTerminal[2]
<1>1. /\ pc = "append" /\ pc' = "tick" /\ local' = local /\ plan' = plan
      /\ j' = j \/ (j.run = "running" /\ j.open = {} /\ W!RunTerminal # <<>> /\ j' = [j EXCEPT !.run = r, !.blocked = b])
      /\ cards' = cards /\ click' = click /\ ask' = ask /\ tries' = tries /\ dag' = dag /\ proc' = proc
  BY DEF W!AppendTerminal, W!Ext
<1>2. j \in Ledger /\ LedgerTrue(j)
  BY Holds
<1>3. W!RunTerminal # <<>> => /\ r \in {"succeeded", "failed", "blocked"} /\ b \in Nat
                              /\ r = "blocked" => b \in W!Node /\ j.node[b].status = "blocked"
  BY RunTerminalIs
<1> HIDE DEF r, b
<1>4. Keeps(j, j') /\ j'.open = j.open /\ Ending'
  <2>1. CASE j' = j
    BY <1>1, <1>2, <2>1, KeepsItself, SameTypes DEF FlowInv, Ending, W!Thread, Busy, Acts
  <2>2. CASE j.run = "running" /\ j.open = {} /\ W!RunTerminal # <<>> /\ j' = [j EXCEPT !.run = r, !.blocked = b]
    <3>1. /\ j' \in Ledger /\ j'.node = j.node /\ j'.inst = j.inst /\ j'.open = j.open /\ j'.run = r
          /\ j'.blocked = b
      BY <1>2, <1>3, <2>2 DEF Ledger, RunStates
    <3>2. Keeps(j, j')
      BY <1>2, <2>2, <3>1, RestKeeps DEF W!Cut
    <3>3. Ending'
      BY <1>1, <1>3, <2>2, <3>1, SameTypes DEF FlowInv, Ending, W!Thread, Busy, Acts
    <3> QED BY <3>1, <3>2, <3>3
  <2> QED BY <1>1, <2>1, <2>2
<1>5. MemoryFine'
  BY <1>1, Holds, SameMemory DEF W!InFlight, Places
<1>6. Living' /\ Draining' /\ Acting'
  BY <1>1, <1>4 DEF FlowInv, Living, Draining, Acting, W!InFlight, Acts
<1>7. Busy'
  BY <1>1, SameTypes DEF FlowInv, Busy, W!Thread, W!NoAsk, Acts
<1> QED BY <1>1, <1>4, <1>5, <1>6, <1>7, Finish

(* No attempt of a node that waits is open while nodes are dispatched. *)
LEMMA NoneOpen ==
    ASSUME FlowInv, W!Obsolete = {}, NEW n \in W!Node, j.node[n].status = "pending"
    PROVE  \A a \in j.open : a[1] # n
<1> SUFFICES ASSUME NEW a \in j.open, a[1] = n PROVE FALSE
  OBVIOUS
<1>1. j \in Ledger /\ LedgerTrue(j)
  BY Holds
<1>2. a[2] # j.node[n].eff
  BY <1>1, NotOpen
<1>3. IsInst(j, n, a[2])
  BY <1>1, OpenFacts
<1>4. j.inst[n][a[2]].st = "superseded"
  BY <1>1, <1>2, <1>3 DEF LedgerTrue, NodeFine, IsInst
<1> QED BY <1>4 DEF W!Obsolete

(* The plan after a claim. *)
Claimed(p, X, q) == [[p EXCEPT !.dispatch = X] EXCEPT !.started = TRUE, !.at = q]

(* A plan after a claim. *)
LEMMA ClaimedIs ==
    ASSUME NEW p \in PlanRec, NEW X \in SUBSET W!Node, NEW q \in Seq(Nat)
    PROVE  Claimed(p, X, q) \in PlanRec /\ Claimed(p, X, q).at = q /\ Claimed(p, X, q).drain = p.drain
<1>1. TRUE \in BOOLEAN
  OBVIOUS
<1> QED BY <1>1 DEF Claimed, PlanRec

(* The number of the next attempt. *)
LEMMA NextAttemptIs ==
    ASSUME FlowInv, NEW n \in W!Node, NEW k, k = InstFor(j, n)
    PROVE  /\ W!NextAttempt(n, k) \in Nat /\ W!NextAttempt(n, k) # 0 /\ k \in Nat
           /\ \/ k > Len(j.inst[n]) \/ W!NextAttempt(n, k) > j.inst[n][k].max
              \/ W!NextAttempt(n, k) = j.inst[n][k].max /\ j.inst[n][k].res
<1>1. j \in Ledger /\ LedgerTrue(j)
  BY Holds
<1>2. AtOrNext(j, n, k) /\ Len(j.inst[n]) \in Nat /\ NodeFine(j.node[n], j.inst[n])
  BY <1>1, InstForIs, Effective
<1>3. k \in Nat /\ k # 0
  BY <1>2 DEF AtOrNext
<1>4. CASE k > Len(j.inst[n])
  BY <1>3, <1>4 DEF W!NextAttempt
<1>5. CASE ~(k > Len(j.inst[n]))
  <2>1. IsInst(j, n, k)
    BY <1>2, <1>3, <1>5 DEF IsInst
  <2>2. j.inst[n][k].max \in Nat /\ j.inst[n][k].res \in BOOLEAN
    BY <1>1, <2>1, Fields DEF InstRec
  <2>3. j.inst[n][k].res => j.inst[n][k].max # 0
    BY <1>2, <2>1 DEF NodeFine, IsInst
  <2>4. W!NextAttempt(n, k) = j.inst[n][k].max + (IF j.inst[n][k].res THEN 0 ELSE 1)
    BY <1>5 DEF W!NextAttempt
  <2> QED BY <1>3, <2>2, <2>3, <2>4
<1> QED BY <1>4, <1>5

(* A node that no longer waits, or whose run no longer runs. *)
LEMMA DispatchSkipped ==
    ASSUME FlowInv, pc = "act", NEW X \in SUBSET plan.dispatch, plan' = [plan EXCEPT !.dispatch = X], j' = j,
           pc' = pc, local' = local, proc' = proc, cards' = cards, click' = click, ask' = ask, tries' = tries, dag' = dag
    PROVE  FlowInv' /\ Keeps(j, j') /\ Fresh
<1>1. plan' \in PlanRec /\ plan'.dispatch = X
  <2>1. plan \in PlanRec /\ X \in SUBSET W!Node
    BY Holds DEF PlanRec
  <2> QED BY <2>1 DEF PlanRec
<1>2. MemoryFine'
  BY <1>1, Holds, SameMemory DEF W!InFlight
<1>3. Living' /\ Draining' /\ Acting' /\ Ending'
  BY <1>1, SameTypes DEF FlowInv, Living, Draining, Acting, Ending, W!InFlight, W!Obsolete, Acts
<1>4. Busy'
  BY SameTypes DEF FlowInv, Busy, W!Thread, W!NoAsk, W!InFlight
<1> QED BY <1>2, <1>3, <1>4, FinishSame

(* A gate that suspends a node. *)
LEMMA DispatchGated ==
    ASSUME FlowInv, pc = "act", plan.dispatch # {}, NEW n \in W!Node, NEW X \in SUBSET plan.dispatch, NEW k,
           k = InstFor(j, n), j.run = "running", j.node[n].status = "pending", j' = W!GateDispatched(j, n, k),
           NEW q \in Seq(Nat), plan' = Claimed(plan, X, q),
           pc' = "wait file", local' = local, proc' = proc, cards' = cards, click' = click, ask' = ask, tries' = tries, dag' = dag
    PROVE  FlowInv' /\ Keeps(j, j') /\ Fresh
<1>1. j \in Ledger /\ LedgerTrue(j) /\ ~W!Cut(j) /\ W!Obsolete = {}
  BY Holds DEF FlowInv, Acting, Acts, W!Cut
<1>2. plan' \in PlanRec
  <2>1. plan \in PlanRec /\ X \in SUBSET W!Node
    BY Holds DEF PlanRec
  <2> QED BY <2>1, ClaimedIs
<1>3. /\ Keeps(j, j') /\ j'.open = j.open /\ j'.run = j.run
      /\ j' # j => Edit(j, j', n, k)
  <2>1. /\ k = InstFor(j, n) /\ ~W!Cut(j) /\ j.node[n].status = "pending" /\ j' = W!GateDispatched(j, n, k)
        /\ j \in Ledger /\ LedgerTrue(j)
    BY <1>1
  <2> QED BY ONLY <2>1, n \in W!Node, GatedTrue
<1>4. (W!Obsolete)' = {}
  <2> SUFFICES ASSUME NEW b \in j.open PROVE j'.inst[b[1]][b[2]].st \notin {"cancelled", "superseded"}
    BY <1>3 DEF W!Obsolete
  <2>1. b[1] \in W!Node /\ b[1] # n
    BY <1>1, OpenFacts, NoneOpen DEF IsInst
  <2>2. j'.inst[b[1]] = j.inst[b[1]]
    BY <1>3, <2>1 DEF Edit
  <2> QED BY <1>1, <2>2 DEF W!Obsolete
<1>5. MemoryFine'
  BY <1>2, Holds, SameMemory DEF W!InFlight, Places
<1>6. Living' /\ Draining' /\ Acting' /\ Ending'
  BY <1>3, <1>4 DEF FlowInv, Living, Draining, Acting, Ending, W!InFlight, Acts
<1>7. Busy'
  BY SameTypes DEF FlowInv, Busy, W!Thread, W!NoAsk, W!InFlight, Acts
<1> QED BY <1>3, <1>5, <1>6, <1>7, Finish

(* A node that is dispatched. *)
LEMMA DispatchWork ==
    ASSUME FlowInv, pc = "act", plan.dispatch # {}, NEW n \in W!Node, NEW X \in SUBSET plan.dispatch, NEW k,
           k = InstFor(j, n), j.run = "running", j.node[n].status = "pending",
           NEW m, m = W!NextAttempt(n, k), j' = W!NodeDispatched(j, n, k, m),
           plan' = Claimed(plan, X, <<n, k, m>>),
           pc' = "spawn", local' = local, proc' = proc, cards' = cards, click' = click, ask' = ask, tries' = tries, dag' = dag
    PROVE  FlowInv' /\ Keeps(j, j') /\ Fresh
<1>1. j \in Ledger /\ LedgerTrue(j) /\ W!Obsolete = {} /\ proc \subseteq j.open /\ W!InFlight \subseteq j.open
  BY Holds DEF FlowInv, Acting, Acts
<1>2. /\ m \in Nat /\ m # 0 /\ k \in Nat
      /\ k > Len(j.inst[n]) \/ m > j.inst[n][k].max \/ (m = j.inst[n][k].max /\ j.inst[n][k].res)
  BY NextAttemptIs
<1>3. \A b \in j.open : b[1] # n
  BY <1>1, NoneOpen
<1> DEFINE a == <<n, k, m>>
<1>4. a \in Seq(Nat) /\ a[1] = n /\ a[2] = k /\ a[3] = m
  <2>1. n \in Nat
    BY DEF W!Node
  <2> QED BY <1>2, <2>1
<1>5. /\ Keeps(j, j') /\ j'.open = j.open \cup {a} /\ j'.run = j.run
      /\ Edit(j, j', n, k) /\ j'.inst[n][k] = Begun(Base(j, n, k), m)
  BY <1>1, <1>2, <1>3, DispatchKeeps
<1> HIDE DEF a
<1>6. plan' \in PlanRec /\ plan'.at = a
  <2>1. plan \in PlanRec /\ X \in SUBSET W!Node
    BY Holds DEF PlanRec
  <2>2. plan' = Claimed(plan, X, a)
    BY DEF a
  <2> QED BY <1>4, <2>1, <2>2, ClaimedIs
<1>7. j'.inst[n][k].st = "running"
  <2>1. Base(j, n, k) \in InstRec
    BY <1>1, InstForIs, BaseIs
  <2> QED BY <1>5, <2>1 DEF Begun, InstRec
<1>8. (W!Obsolete)' = {}
  <2> SUFFICES ASSUME NEW b \in j'.open PROVE j'.inst[b[1]][b[2]].st \notin {"cancelled", "superseded"}
    BY DEF W!Obsolete
  <2>1. CASE b = a
    BY <1>4, <1>7, <2>1
  <2>2. CASE b # a
    <3>1. b \in j.open /\ b[1] \in W!Node /\ b[1] # n
      BY <1>1, <1>3, <1>5, <2>2, OpenFacts DEF IsInst
    <3>2. j'.inst[b[1]] = j.inst[b[1]]
      BY <1>5, <3>1 DEF Edit
    <3> QED BY <1>1, <3>1, <3>2 DEF W!Obsolete
  <2> QED BY <2>1, <2>2
<1>9. a \notin j.open
  BY <1>3, <1>4
<1>10. MemoryFine'
  BY <1>6, Holds, SameMemory DEF W!InFlight, Places
<1>11. Living' /\ Draining'
  BY <1>5 DEF FlowInv, Living, Draining, W!InFlight
<1>12. Acting'
  BY <1>1, <1>5, <1>6, <1>8, <1>9 DEF Acting, W!InFlight
<1>13. Ending'
  BY <1>5 DEF Ending
<1>14. Busy'
  BY SameTypes DEF FlowInv, Busy, W!Thread, W!NoAsk, W!InFlight, Acts
<1>15. FlowInv'
  BY <1>5, <1>10, <1>11, <1>12, <1>13, <1>14, Assemble
<1>16. Fresh
  BY <1>2, <1>4, <1>5 DEF Fresh
<1> QED BY <1>5, <1>15, <1>16

(* A node of the plan is claimed, skipped or held at its gate. *)
LEMMA ActDispatchStep ==
    ASSUME FlowInv, W!ActDispatch
    PROVE  FlowInv' /\ Keeps(j, j') /\ Fresh
<1> DEFINE n == W!First(plan.dispatch)
           k == W!InstanceFor(n)
           m == W!NextAttempt(n, k)
           X == plan.dispatch \ {n}
           q == <<n, k>>
<1>1. /\ pc = "act" /\ plan.dispatch # {}
      /\ local' = local /\ proc' = proc /\ cards' = cards /\ click' = click /\ ask' = ask /\ tries' = tries /\ dag' = dag
  BY DEF W!ActDispatch
<1>2. \/ plan' = [plan EXCEPT !.dispatch = X] /\ j' = j /\ pc' = pc
      \/ /\ j.run = "running" /\ j.node[n].status = "pending" /\ j' = W!GateDispatched(j, n, k)
         /\ plan' = Claimed(plan, X, q) /\ pc' = "wait file"
      \/ /\ j.run = "running" /\ j.node[n].status = "pending" /\ j' = W!NodeDispatched(j, n, k, m)
         /\ plan' = Claimed(plan, X, <<n, k, m>>) /\ pc' = "spawn"
  BY DEF W!ActDispatch, W!Status, Claimed
<1>3. X \in SUBSET plan.dispatch /\ m = W!NextAttempt(n, k)
  OBVIOUS
<1>4. n \in W!Node
  <2>1. plan.dispatch \in SUBSET W!Node
    BY Holds DEF PlanRec
  <2> QED BY <1>1, <2>1, FirstIs
<1>5. k = InstFor(j, n)
  BY DEF W!InstanceFor, InstFor
<1>6. q \in Seq(Nat)
  <2>1. n \in Nat /\ k \in Nat
    BY <1>4, <1>5, NextAttemptIs DEF W!Node
  <2> HIDE DEF n, k
  <2> QED BY <2>1
<1> HIDE DEF n, k, m, X, q
<1>7. CASE plan' = [plan EXCEPT !.dispatch = X] /\ j' = j /\ pc' = pc
  BY <1>1, <1>3, <1>7, DispatchSkipped
<1>8. CASE /\ j.run = "running" /\ j.node[n].status = "pending" /\ j' = W!GateDispatched(j, n, k)
           /\ plan' = Claimed(plan, X, q) /\ pc' = "wait file"
  BY <1>1, <1>3, <1>4, <1>5, <1>6, <1>8, DispatchGated
<1>9. CASE /\ j.run = "running" /\ j.node[n].status = "pending" /\ j' = W!NodeDispatched(j, n, k, m)
           /\ plan' = Claimed(plan, X, <<n, k, m>>) /\ pc' = "spawn"
  BY <1>1, <1>3, <1>4, <1>5, <1>9, DispatchWork
<1> QED BY <1>2, <1>7, <1>8, <1>9

(* A daemon takes the run up: it replays the journal and heals its gate *)
(* waits.                                                               *)
LEMMA ColdAttachStep ==
    ASSUME FlowInv, W!ColdAttach
    PROVE  FlowInv' /\ Keeps(j, j') /\ Fresh
<1> DEFINE waiting == {n \in W!Node : j.run = "running" /\ W!Status(n) = "gateWaiting"}
           healed == {n \in waiting : waits[<<n, j.node[n].eff>>] \in {"approved", "rejected"}}
           gates == {<<n, j.node[n].eff>> : n \in waiting}
           res(n) == waits[<<n, j.node[n].eff>>]
           f == [n \in healed |-> W!GateResolved(j, n, j.node[n].eff, res(n))]
<1>1. /\ pc = "down" /\ pc' \in {"tick", "idle"} /\ j' = W!Together(j, f) /\ cards' \in {cards, cards \cup gates}
      /\ proc' = proc /\ local' = local /\ plan' = plan /\ click' = click /\ ask' = ask /\ tries' = tries /\ dag' = dag
  BY DEF W!ColdAttach
<1>2. j \in Ledger /\ LedgerTrue(j)
  BY Holds
<1>3. healed \in SUBSET W!Node /\ DOMAIN f = healed /\ \A n \in healed : j.run = "running" /\ j.node[n].status = "gateWaiting"
  BY DEF W!Status
<1>4. gates \subseteq W!Node \X Nat
  BY <1>2, Effective
<1>5. \A n \in healed : f[n] = W!GateResolved(j, n, j.node[n].eff, res(n))
  OBVIOUS
<1> HIDE DEF waiting, healed, gates, res, f
<1>6. \A n \in healed : Keeps(j, f[n]) /\ f[n].open = j.open /\ f[n].run = j.run
  <2> SUFFICES ASSUME NEW n \in healed PROVE Keeps(j, f[n]) /\ f[n].open = j.open /\ f[n].run = j.run
    OBVIOUS
  <2> DEFINE k == j.node[n].eff
             x == res(n)
             t == f[n]
  <2>1. k = j.node[n].eff /\ n \in W!Node /\ j.node[n].status = "gateWaiting" /\ t = W!GateResolved(j, n, k, x)
    BY <1>3, <1>5
  <2> HIDE DEF k, x, t
  <2>2. Keeps(j, t) /\ t.open = j.open /\ t.run = j.run
    BY <1>2, <2>1, ResolvedTrue
  <2> QED BY <2>2 DEF t
<1>7. Keeps(j, j') /\ j'.run = j.run /\ j'.open \subseteq j.open
  <2>1. \A n \in healed : /\ Keeps(j, f[n]) /\ f[n].run = j.run /\ f[n].open \subseteq j.open
                          /\ \A a \in j.open : a[1] # n => a \in f[n].open
    BY <1>6
  <2> QED BY <1>1, <1>2, <1>3, <2>1, TogetherKeeps
<1>8. j'.open = j.open /\ j'.blocked = j.blocked /\ \A n \in W!Node \ healed : j'.node[n] = j.node[n]
  <2>1. \A n \in healed : f[n] \in Ledger
    BY <1>6 DEF Keeps
  <2>2. j'.blocked = j.blocked /\ Combines(j, j', healed, f)
    BY <1>1, <1>2, <1>3, <2>1, TogetherIs
  <2>3. \A a \in j.open : a \in j'.open
    BY <1>6, <2>2 DEF Combines
  <2> QED BY <1>7, <2>2, <2>3 DEF Combines
<1>9. MemoryFine'
  BY <1>1, <1>4, Holds, SameMemory DEF W!InFlight, Places
<1>10. Living' /\ Draining' /\ Acting'
  BY <1>1, <1>8 DEF FlowInv, Living, Draining, Acting, W!InFlight, Acts
<1>11. Busy'
  BY <1>1 DEF FlowInv, Busy, W!Thread, W!NoAsk, W!InFlight, Acts
<1>12. Ending'
  <2>1. click' = <<>> /\ pc' \notin Acts
    BY <1>1 DEF FlowInv, Busy, W!Thread, Acts
  <2>2. j'.run = "blocked" => j'.blocked \in W!Node /\ j'.node[j'.blocked].status = "blocked"
    <3>1. j.run = "blocked" => j.blocked \in W!Node /\ j.node[j.blocked].status = "blocked"
      BY DEF FlowInv, Ending
    <3>2. j.run = "blocked" => healed = {}
      BY <1>3
    <3> QED BY <1>7, <1>8, <3>1, <3>2
  <2> QED BY <1>1, <2>1, <2>2, SameTypes DEF Ending
<1> QED BY <1>1, <1>7, <1>8, <1>9, <1>10, <1>11, <1>12, Finish

-----------------------------------------------------------------------------
(***************************************************************************)
(* The invariant, and what it says.                                        *)
(***************************************************************************)

(* The invariant holds before the run. *)
LEMMA FlowStarts ==
    ASSUME FlowInit
    PROVE  FlowInv
<1>1. /\ dag \in Dags
      /\ j = [run |-> "running", blocked |-> 0, node |-> [n \in W!Node |-> W!NoNode],
              inst |-> [n \in W!Node |-> <<>>], open |-> {}, edges |-> {}, resolved |-> {},
              left |-> [p \in W!Pair |-> PairBudget], leftRun |-> RunBudget]
      /\ cards = {} /\ proc = {} /\ local = <<>>
      /\ pc = "new" /\ plan = W!NoPlan /\ click = <<>> /\ ask = W!NoAsk
      /\ tries = [retry |-> 0, grant |-> 0, crash |-> 0]
  BY DEF FlowInit, W!Init
<1>2. PairBudget \in Nat /\ RunBudget \in Nat
  BY PartsAssumption DEF W!WorkflowAssumption
<1>3. W!NoNode \in NodeRec /\ <<>> \in Seq(InstRec) /\ Len(<<>>) = 0
  BY Statuses DEF W!NoNode, NodeRec
<1>4. j \in Ledger
  <2> DEFINE nodes == [n \in W!Node |-> W!NoNode]
             insts == [n \in W!Node |-> <<>>]
             left == [p \in W!Pair |-> PairBudget]
  <2>1. nodes \in [W!Node -> NodeRec] /\ insts \in [W!Node -> Seq(InstRec)] /\ left \in [W!Pair -> Nat]
    BY <1>2, <1>3
  <2>2. j = [run |-> "running", blocked |-> 0, node |-> nodes, inst |-> insts, open |-> {}, edges |-> {},
             resolved |-> {}, left |-> left, leftRun |-> RunBudget]
    BY <1>1
  <2> HIDE DEF nodes, insts, left
  <2> QED BY <1>2, <2>1, <2>2 DEF Ledger, RunStates
<1>5. /\ j.run = "running" /\ j.open = {}
      /\ \A n \in W!Node : j.node[n] = W!NoNode /\ j.inst[n] = <<>>
  BY <1>1
<1>6. W!NoNode.status = "pending" /\ W!NoNode.eff = 0 /\ W!NoNode.cleared = FALSE
  BY DEF W!NoNode
<1>7. LedgerTrue(j)
  <2>1. ASSUME NEW n \in W!Node PROVE NodeFine(j.node[n], j.inst[n]) /\ RunningTrue(j, n)
    BY <1>3, <1>5, <1>6 DEF NodeFine, RunningTrue
  <2> QED BY <1>5, <2>1 DEF LedgerTrue
<1>8. W!NoPlan \in PlanRec
  <2>1. {} \in SUBSET W!Node /\ {} \in SUBSET Triples /\ FALSE \in BOOLEAN
    OBVIOUS
  <2> QED BY <2>1, NoPlanIs
<1>9. W!NoAsk \in AskRec
  BY DEF W!NoAsk, AskRec
<1>10. W!InFlight = {} /\ local \in [W!InFlight -> Memory]
  BY <1>1 DEF W!InFlight
<1>11. MemoryFine
  BY <1>1, <1>8, <1>9, <1>10 DEF MemoryFine, Places
<1>12. Living /\ Busy /\ Draining /\ Acting /\ Ending
  BY <1>1, <1>5, <1>10 DEF Living, Busy, Draining, Acting, Ending, Acts
<1> QED BY <1>1, <1>4, <1>7, <1>11, <1>12 DEF FlowInv

(* Every step of the run keeps the invariant and the past. *)
LEMMA FlowStep ==
    ASSUME FlowInv, W!Next
    PROVE  FlowInv' /\ Keeps(j, j') /\ Fresh
<1>1. CASE W!Tick
  BY <1>1, TickCancelStep, BoundaryStep, TickDrainStep, TerminalStep, ControlStep, TickDispatchStep DEF W!Tick
<1>2. CASE W!Drain
  BY <1>2, DrainForCancelStep, FinalizeStep, DrainOverStep, DrainExternalStep DEF W!Drain
<1>3. CASE W!Act
  BY <1>3, ActDispatchStep, ActCappedStep, WriteWaitStep, SpawnStep, ArmFailsStep, ActLoserStep, ActEndStep,
     AppendTerminalStep, WakeStep DEF W!Act
<1>4. CASE W!Worker
  BY <1>4, WorkerReturnsStep, WorkerDrainedStep, WorkerSettlesStep, RevisitRequestedStep, RevisitSupersedesStep,
     RevisitEndsStep, OrphanStep DEF W!Worker
<1>5. CASE W!Operator
  BY <1>5, WakeStep, CancelInDaemonStep, CancelFromCliStep, ClickAppendsStep, ClickGateStep, RetryStep,
     GrantStep, CrashInGrantStep DEF W!Operator
<1> QED BY <1>1, <1>2, <1>3, <1>4, <1>5, CrashStep, ColdAttachStep DEF W!Next

(* So does a step that leaves the run alone. *)
LEMMA FlowRests ==
    ASSUME FlowInv, UNCHANGED engine
    PROVE  FlowInv' /\ Keeps(j, j') /\ Fresh
<1>1. /\ j' = j /\ local' = local /\ pc' = pc /\ plan' = plan
      /\ cards' = cards /\ proc' = proc /\ click' = click /\ ask' = ask /\ tries' = tries /\ dag' = dag
  BY DEF engine
<1>2. MemoryFine'
  BY <1>1, Holds, SameMemory DEF W!InFlight
<1>3. Living' /\ Draining' /\ Acting' /\ Ending'
  BY <1>1, SameTypes DEF FlowInv, Living, Draining, Acting, Ending, W!InFlight, W!Obsolete
<1>4. Busy'
  BY <1>1, SameTypes DEF FlowInv, Busy, W!Thread, W!NoAsk, W!InFlight
<1> QED BY <1>1, <1>2, <1>3, <1>4, FinishSame

(* Every step of either part keeps it, and the past with it. *)
LEMMA FlowStays ==
    ASSUME FlowInv, [FlowNext]_flow
    PROVE  FlowInv' /\ Keeps(j, j') /\ Fresh
<1>1. W!Next \/ UNCHANGED engine
  BY DEF FlowNext, flow
<1> QED BY <1>1, FlowStep, FlowRests

(* FlowInv holds in every behaviour: the ledger the journal folds to, what *)
(* the driver and its workers hold and what a daemon remembers agree.      *)
THEOREM FlowSafe == FlowSpec => []FlowInv
<1>1. FlowInit => FlowInv
  BY FlowStarts
<1>2. FlowInv /\ [FlowNext]_flow => FlowInv'
  BY FlowStays
<1> QED BY <1>1, <1>2, PTL DEF FlowSpec

(* No worker outlives a boundary of the run, none is off the record, no node  *)
(* has two.                                                                   *)
THEOREM WorkersOnRecord == FlowSpec => [](W!BoundaryQuiet /\ W!NoFalseClose /\ W!OneWorker)
<1>1. FlowInv => W!BoundaryQuiet /\ W!NoFalseClose /\ W!OneWorker
  <2> SUFFICES ASSUME FlowInv PROVE W!BoundaryQuiet /\ W!NoFalseClose /\ W!OneWorker
    OBVIOUS
  <2>1. proc \subseteq j.open /\ LedgerTrue(j)
    BY Holds
  <2> QED BY <2>1 DEF LedgerTrue, RunOver, W!BoundaryQuiet, W!NoFalseClose, W!OneWorker
<1> QED BY <1>1, FlowSafe, PTL

(* A superseded instance stays superseded and a run that has been cut keeps *)
(* its results, but that open nodes are cancelled; no attempt number of an  *)
(* instance is given out twice (HistoryKept).                               *)
THEOREM PastStays == FlowSpec => HistoryKept
<1> DEFINE Frozen ==
              /\ \A n \in W!Node : \A k \in DOMAIN j.inst[n] :
                    j.inst[n][k].st = "superseded" => j'.inst[n][k].st = "superseded"
              /\ W!Cut(j) => /\ W!Cut(j')
                             /\ \A n \in W!Node : \/ j'.node[n] = j.node[n]
                                                  \/ /\ j.node[n].status \notin W!Terminal
                                                     /\ j'.node[n].status = "cancelled"
           New ==
              \A a \in j'.open \ j.open :
                 a[2] > Len(j.inst[a[1]]) \/ a[3] > j.inst[a[1]][a[2]].max
                 \/ (a[3] = j.inst[a[1]][a[2]].max /\ j.inst[a[1]][a[2]].res)
<1>1. FlowInv /\ [FlowNext]_flow => [Frozen]_W!vars /\ [New]_W!vars
  <2> SUFFICES ASSUME FlowInv, [FlowNext]_flow PROVE Frozen /\ New
    OBVIOUS
  <2>1. Keeps(j, j') /\ Fresh /\ j \in Ledger
    BY FlowStays, Holds
  <2>2. New
    BY <2>1 DEF Fresh
  <2>3. ASSUME NEW n \in W!Node, NEW k \in DOMAIN j.inst[n], j.inst[n][k].st = "superseded"
        PROVE  j'.inst[n][k].st = "superseded"
    <3>1. IsInst(j, n, k)
      BY <2>1, Fields DEF IsInst
    <3> QED BY <2>1, <2>3, <3>1 DEF Keeps, Lasting
  <2> QED BY <2>1, <2>2, <2>3 DEF Keeps, CutLasts, NodeLasts
<1> QED BY <1>1, FlowSafe, PTL DEF FlowSpec, HistoryKept, W!FrozenStays, W!AttemptsFresh

---------------------------------------------------------------------------
(* The fence of one attempt: what relates the pool, the worker, the fence   *)
(* file, the drain and the journal while the attempt's part moves.          *)

(* The daemon whose pool has the attempt before the fork holds an armed     *)
(* fence, and no scan has been made twice.                                  *)
BeforeFork ==
    /\ pool \in {"idle", "claimed", "setup"} =>
         worker = "none" /\ drain = "idle" /\ since # "old" /\ journal # "proved"
    /\ pool = "idle" => journal = "none" /\ since = "no"
    /\ pool = "claimed" => journal = "open"
    /\ pool \in {"idle", "claimed"} => fence.phase = "none"
    /\ pool \in {"setup", "spawned"} => fence.phase = "armed" /\ journal = "open" /\ drain = "idle"

(* A worker that lives is open in the journal and has a fence, and no drain *)
(* has found the attempt closed.                                            *)
LivingFenced ==
    F!Alive => /\ fence.phase \in {"armed", "active"} /\ journal = "open" /\ drain = "idle"
               /\ pool \notin {"result", "cleanup"}

(* What a drain, a scan and a tombstone have found. *)
WhatIsFound ==
    /\ drain # "idle" => up /\ worker \in {"none", "dead"} /\ journal # "none"
    /\ since = "old" => worker # "forked"
    /\ fence.phase = "closed" => worker = "dead"
    /\ fence.phase = "closed_no_spawn" => worker \in {"none", "dead"} /\ pool \notin {"idle", "claimed", "setup", "spawned"}
    /\ ~up => pool \in {"idle", "gone"} /\ gen < MaxGen
    /\ fence.owner <= gen

FenceInv == F!TypeOK /\ BeforeFork /\ LivingFenced /\ WhatIsFound

(* The invariant holds before the attempt is claimed. *)
LEMMA FenceStarts ==
    ASSUME F!Init PROVE FenceInv
<1>1. MaxGen \in Nat \ {0} /\ MaxBlind \in Nat
  BY PartsAssumption DEF F!FenceAssumption
<1>2. F!TypeOK
  <2>1. fence \in [phase : {"none", "armed", "active", "closed", "closed_no_spawn"}, owner : 0..MaxGen]
    BY <1>1 DEF F!Init, F!NoFence
  <2>2. up \in BOOLEAN /\ held \in BOOLEAN
    BY DEF F!Init
  <2> QED BY <1>1, <2>1, <2>2 DEF F!Init, F!TypeOK
<1>3. BeforeFork /\ LivingFenced /\ WhatIsFound
  BY <1>1 DEF F!Init, F!NoFence, F!Alive, BeforeFork, LivingFenced, WhatIsFound
<1> QED BY <1>2, <1>3 DEF FenceInv

(* It is kept by every step, if the setup of a worker does not outlast two *)
(* scans.                                                                  *)
LEMMA FenceStep ==
    ASSUME ~SlowSetup, FenceInv, F!Next PROVE FenceInv'
<1> USE DEF FenceInv, F!TypeOK, F!Alive, BeforeFork, LivingFenced, WhatIsFound, F!Thread, F!Daemon, F!Tracking,
            F!CanDrain, F!CloseNoSpawn, F!NoFence, F!Own
<1>0. MaxGen \in Nat /\ MaxBlind \in Nat
  BY PartsAssumption DEF F!FenceAssumption
<1>1. CASE F!Claim
  BY <1>0, <1>1 DEF F!Claim
<1>2. CASE F!Arm
  <2>1. fence' = [phase |-> "armed", owner |-> gen] /\ gen \in 0..MaxGen
    BY <1>0, <1>2 DEF F!Arm
  <2>2. /\ fence' \in [phase : {"none", "armed", "active", "closed", "closed_no_spawn"}, owner : 0..MaxGen]
        /\ fence'.phase = "armed" /\ fence'.owner = gen
    BY ONLY <2>1
  <2> QED BY <1>0, <1>2, <2>2 DEF F!Arm
<1>3. CASE F!ArmFails
  BY <1>0, <1>3 DEF F!ArmFails
<1>4. CASE F!RunEnded
  BY <1>0, <1>4 DEF F!RunEnded
<1>5. CASE F!SetupEnds
  BY <1>0, <1>5 DEF F!SetupEnds
<1>6. CASE F!Fork
  BY <1>0, <1>6 DEF F!Fork
<1>7. CASE F!Bind
  BY <1>0, <1>7 DEF F!Bind, F!Bindable
<1>8. CASE F!BindFails
  BY <1>0, <1>8 DEF F!BindFails, F!Bindable
<1>9. CASE F!Finish
  BY <1>0, <1>9 DEF F!Finish
<1>10. CASE F!KillTimer
  BY <1>0, <1>10 DEF F!KillTimer
<1>11. CASE F!Closed
  BY <1>0, <1>11 DEF F!Closed
<1>12. CASE F!ClosedUnbound
  BY <1>0, <1>12 DEF F!ClosedUnbound
<1>13. CASE F!Settle
  BY <1>0, <1>13 DEF F!Settle
<1>14. CASE F!Cleanup
  <2>1. fence' \in {fence, [phase |-> "none", owner |-> 0]}
    BY <1>14 DEF F!Cleanup
  <2>2. held' \in BOOLEAN
    BY <1>14 DEF F!Cleanup
  <2> QED BY <1>0, <1>14, <2>1, <2>2 DEF F!Cleanup
<1>15. CASE F!DrainSignal
  BY <1>0, <1>15 DEF F!DrainSignal, F!Signals
<1>16. CASE F!DrainDiscovers
  BY <1>0, <1>16 DEF F!DrainDiscovers, F!Signals
<1>17. CASE F!DrainNone
  BY <1>0, <1>17 DEF F!DrainNone
<1>18. CASE F!DrainStable
  BY <1>0, <1>18 DEF F!DrainStable
<1>19. CASE F!DrainDead
  BY <1>0, <1>19 DEF F!DrainDead, F!Gone
<1>20. CASE F!DrainUnknown
  BY <1>0, <1>20 DEF F!DrainUnknown
<1>21. CASE F!DrainProof
  BY <1>0, <1>21 DEF F!DrainProof
<1>22. CASE F!DrainFinalize
  BY <1>0, <1>22 DEF F!DrainFinalize
<1>23. CASE F!ScanInterval
  <2>1. pool \notin {"claimed", "setup"}
    BY <1>23 DEF F!ScanInterval
  <2> QED BY <1>0, <1>23, <2>1 DEF F!ScanInterval
<1>24. CASE F!GracePasses
  BY <1>0, <1>24 DEF F!GracePasses
<1>25. CASE F!Exec
  BY <1>0, <1>25 DEF F!Exec
<1>26. CASE F!WorkerExits
  BY <1>0, <1>26 DEF F!WorkerExits
<1>27. CASE F!Abandon
  <2>1. held' \in BOOLEAN
    BY <1>27 DEF F!Abandon
  <2> QED BY <1>0, <1>27, <2>1 DEF F!Abandon
<1>28. CASE F!Crash
  BY <1>0, <1>28 DEF F!Crash
<1>29. CASE F!Restart
  BY <1>0, <1>29 DEF F!Restart
<1> HIDE DEF FenceInv
<1> QED BY <1>1, <1>2, <1>3, <1>4, <1>5, <1>6, <1>7, <1>8, <1>9, <1>10, <1>11, <1>12, <1>13, <1>14, <1>15,
           <1>16, <1>17, <1>18, <1>19, <1>20, <1>21, <1>22, <1>23, <1>24, <1>25, <1>26, <1>27, <1>28, <1>29
        DEF F!Next, F!Pool, F!Drain

(* The fence of an attempt tells the truth about its worker over any number *)
(* of daemons (the fence's safety part of WorkersAccounted): a proof of its *)
(* close means that the worker is gone, a tombstone that it is dead or will *)
(* not be forked, and a worker that lives has a fence. It holds if the      *)
(* steps before the fork are shorter than the time between two scans.       *)
THEOREM FenceTellsTruth ==
    ~SlowSetup => (FlowSpec => [](F!TypeOK /\ F!ProofMeansGone /\ F!TombstoneTrue /\ F!NoUnfencedWorker))
<1> SUFFICES ASSUME ~SlowSetup
             PROVE  FlowSpec => [](F!TypeOK /\ F!ProofMeansGone /\ F!TombstoneTrue /\ F!NoUnfencedWorker)
  OBVIOUS
<1>1. FlowInit => FenceInv
  BY FenceStarts DEF FlowInit
<1>2. FenceInv /\ [FlowNext]_flow => FenceInv'
  <2> SUFFICES ASSUME FenceInv, [FlowNext]_flow PROVE FenceInv'
    OBVIOUS
  <2>1. CASE F!Next
    BY <2>1, FenceStep
  <2>2. CASE UNCHANGED attempt
    BY <2>2 DEF attempt, FenceInv, F!TypeOK, BeforeFork, LivingFenced, WhatIsFound, F!Alive
  <2> QED BY <2>1, <2>2 DEF FlowNext, flow
<1>3. FenceInv => F!TypeOK /\ F!ProofMeansGone /\ F!TombstoneTrue /\ F!NoUnfencedWorker
  BY DEF FenceInv, LivingFenced, WhatIsFound, F!Alive, F!ProofMeansGone, F!TombstoneTrue, F!NoUnfencedWorker
<1> QED BY <1>1, <1>2, <1>3, PTL DEF FlowSpec

-----------------------------------------------------------------------------
(***************************************************************************)
(* The driver of a daemon never gets stuck.                                *)
(***************************************************************************)

(* While a daemon dispatches, the run runs, what is left to dispatch still  *)
(* waits, and there is something the tick has moved, will move or can wait  *)
(* for.                                                                     *)
Progress ==
    \/ plan.dispatch # {} \/ plan.started \/ plan.cancelled \/ W!InFlight # {}
    \/ \E n \in W!Node : j.node[n].status = "gateWaiting"

Moving ==
    ~W!Standalone =>
        /\ pc # "threw"
        /\ pc \in Acts => /\ j.run = "running" /\ Progress
                          /\ \A n \in plan.dispatch : j.node[n].status = "pending"
        /\ pc \in {"spawn", "wait file"} => plan.started

(* A source that is finished without being done, skipped or cancelled keeps *)
(* a rule from being met, so its failure counts.                            *)
LEMMA FailureCounts ==
    ASSUME FlowInv, NEW n \in W!Node, j.node[n].status = "pending",
           NEW d \in W!Deps[n], j.node[d].status \in {"failed", "blocked"},
           W!Rule[n] = 0 \/ W!Active(n) < W!Required(n)
    PROVE  W!FailureRelevant(d)
<1>1. dag \in Dags
  BY DEF FlowInv
<1>2. d \in W!Node /\ n \in W!Downstream(d) /\ W!Status(n) \notin W!Terminal
  BY <1>1, DagFacts DEF W!Downstream, W!Status, W!Terminal, W!Settling
<1> DEFINE A == W!Among(n, {"active"})
<1>3. IsFiniteSet(A) /\ A \subseteq W!Deps[n] /\ IsFiniteSet(W!Deps[n])
  <2>1. IsFiniteSet(W!Node) /\ W!Deps[n] \subseteq W!Node
    <3>1. W!N \in Nat \ {0} /\ W!Deps \in [W!Node -> SUBSET W!Node]
      BY <1>1, DagFacts
    <3>2. IsFiniteSet(1..W!N)
      BY <3>1, FS_Interval
    <3> QED BY <3>1, <3>2 DEF W!Node
  <2> QED BY <1>1, <2>1, AmongIs, FS_Subset
<1>4. Cardinality(A \ {d}) < W!Required(n) /\ W!Required(n) \in Nat /\ Cardinality(A \ {d}) \in Nat
  <2>1. Cardinality(A) \in Nat /\ Cardinality(W!Deps[n]) \in Nat
    BY <1>3, FS_CardinalityType
  <2>2. W!Required(n) = IF W!Rule[n] = 0 THEN Cardinality(W!Deps[n]) ELSE W!Rule[n]
    BY FlowCardinality DEF W!Required
  <2>3. W!Rule[n] \in 0..Cardinality(W!Deps[n])
    BY <1>1, DagFacts, FlowCardinality
  <2>4. Cardinality(A \ {d}) \in Nat /\ Cardinality(A \ {d}) <= Cardinality(A)
    <3>1. A \ {d} \in SUBSET A
      OBVIOUS
    <3>2. IsFiniteSet(A \ {d}) /\ Cardinality(A \ {d}) <= Cardinality(A)
      BY <1>3, <3>1, FS_Subset
    <3>3. Cardinality(A \ {d}) \in Nat
      BY <3>2, FS_CardinalityType
    <3> QED BY <3>2, <3>3
  <2>5. CASE W!Rule[n] = 0
    <3>1. A \ {d} \in SUBSET W!Deps[n] /\ A \ {d} # W!Deps[n]
      BY <1>3
    <3>2. /\ Cardinality(A \ {d}) <= Cardinality(W!Deps[n])
          /\ Cardinality(W!Deps[n]) # Cardinality(A \ {d})
      BY <1>3, <3>1, FS_Subset
    <3> QED BY <2>1, <2>2, <2>4, <2>5, <3>2
  <2>6. CASE W!Rule[n] # 0
    <3>1. Cardinality(A) < W!Required(n)
      BY <2>6, FlowCardinality DEF W!Active
    <3> QED BY <2>1, <2>2, <2>3, <2>4, <2>6, <3>1
  <2> QED BY <2>5, <2>6
<1>5. ~W!SatisfiedWithout(n, d)
  <2>1. W!SatisfiedWithout(n, d) <=> Cardinality(A \ {d}) >= W!Required(n)
    BY FlowCardinality DEF W!SatisfiedWithout
  <2> HIDE DEF A
  <2> QED BY <1>4, <2>1
<1> QED BY <1>2, <1>5 DEF W!FailureRelevant

(* The first node that waits, when nothing runs and no failure counts, is   *)
(* ready, to be skipped, or has an edge to resolve.                         *)
LEMMA FirstMoves ==
    ASSUME FlowInv, NEW n \in W!Node, j.node[n].status = "pending",
           \A d \in W!Deps[n] : j.node[d].status \in W!Terminal,
           \A d \in W!Node : j.node[d].status \in {"failed", "blocked"} => ~W!FailureRelevant(d)
    PROVE  W!Readiness(n) \in {"ready", "skip", "resolve"}
<1>1. dag \in Dags
  BY DEF FlowInv
<1>2. W!Deps[n] \subseteq W!Node
  BY <1>1, DagFacts
<1>3. ASSUME W!Rule[n] = 0 \/ W!Active(n) < W!Required(n)
      PROVE  W!Among(n, {"unsettled"}) = {}
  <2> SUFFICES ASSUME NEW d \in W!Deps[n], W!Activity(d, n) = "unsettled" PROVE FALSE
    BY DEF W!Among
  <2>1. j.node[d].status \in {"failed", "blocked"}
    BY DEF W!Activity, W!Status, W!Terminal, W!Settling
  <2> QED BY <1>2, <1>3, <2>1, FailureCounts
<1>4. W!Active(n) \in Nat /\ W!Maybe(n) \in Nat /\ W!Required(n) \in Nat
  <2>1. IsFiniteSet(W!Among(n, {"active"})) /\ IsFiniteSet(W!Among(n, {"unsettled", "unresolved"}))
    BY <1>1, AmongIs
  <2>2. IsFiniteSet(W!Deps[n])
    <3>1. IsFiniteSet(W!Node) /\ W!Deps[n] \in SUBSET W!Node
      BY <1>1, <1>2, DagFacts, FS_Interval DEF W!Node
    <3> QED BY <3>1, FS_Subset
  <2>3. W!Rule[n] \in 0..Cardinality(W!Deps[n])
    BY <1>1, DagFacts, FlowCardinality
  <2> QED BY <2>1, <2>2, <2>3, FS_CardinalityType, FlowCardinality DEF W!Active, W!Maybe, W!Required
<1>5. CASE W!Deps[n] = {}
  BY <1>5 DEF W!Readiness
<1>6. CASE W!Deps[n] # {} /\ W!Rule[n] = 0 /\ W!Among(n, {"unresolved"}) # {}
  BY <1>3, <1>6 DEF W!Readiness
<1>7. CASE W!Deps[n] # {} /\ W!Rule[n] # 0 /\ W!Active(n) < W!Required(n) /\ W!Among(n, {"unresolved"}) # {}
  BY <1>3, <1>7 DEF W!Readiness
<1>8. CASE W!Deps[n] # {} /\ W!Active(n) >= W!Required(n)
  BY <1>3, <1>8 DEF W!Readiness
<1>9. CASE W!Deps[n] # {} /\ W!Active(n) < W!Required(n) /\ W!Among(n, {"unresolved"}) = {}
  <2>1. W!Among(n, {"unsettled", "unresolved"}) = {}
    BY <1>3, <1>9 DEF W!Among
  <2>2. W!Maybe(n) = 0
    BY <2>1, FS_EmptySet, FlowCardinality DEF W!Maybe
  <2>3. ~(W!Active(n) + W!Maybe(n) >= W!Required(n))
    BY <1>4, <1>9, <2>2
  <2> QED BY <1>3, <1>9, <2>3 DEF W!Readiness
<1> QED BY <1>4, <1>5, <1>6, <1>7, <1>8, <1>9

(* A tick that dispatches finds a node ready, an attempt in flight or a     *)
(* node at its gate.                                                        *)
LEMMA TickFinds ==
    ASSUME FlowInv, W!TickDispatch
    PROVE  W!Ready # {} \/ W!InFlight # {} \/ \E n \in W!Node : j.node[n].status = "gateWaiting"
<1> SUFFICES ASSUME W!Ready = {}, W!InFlight = {}, \A n \in W!Node : j.node[n].status # "gateWaiting"
             PROVE  FALSE
  OBVIOUS
<1>1. /\ j.run = "running" /\ j.open = {} /\ W!RunTerminal = <<>> /\ W!Resolvable = {} /\ W!Skippable = {}
  BY DEF W!TickDispatch, W!Quiet
<1>2. j \in Ledger /\ LedgerTrue(j) /\ dag \in Dags
  BY Holds
<1>3. \A n \in W!Node : j.node[n].status \in {"pending"} \cup W!Terminal
  <2> SUFFICES ASSUME NEW n \in W!Node PROVE j.node[n].status \in {"pending"} \cup W!Terminal
    OBVIOUS
  <2>1. j.node[n].status \in W!NodeStatus /\ j.node[n].status # "gateWaiting"
    BY <1>2, Fields DEF NodeRec
  <2>2. j.node[n].status # "running"
    BY <1>1, <1>2 DEF LedgerTrue, RunningTrue, W!Cut
  <2> QED BY <2>1, <2>2 DEF W!NodeStatus
<1>4. /\ W!Worst("failed") = {} /\ W!Worst("blocked") = {}
      /\ ~ \A n \in W!Node : W!AcceptableTerminal(n)
  BY <1>1 DEF W!RunTerminal
<1>5. \A d \in W!Node : j.node[d].status \in {"failed", "blocked"} => ~W!FailureRelevant(d)
  BY <1>4 DEF W!Worst, W!Status
<1>6. W!Waiting # {}
  <2>1. PICK n \in W!Node : ~W!AcceptableTerminal(n)
    BY <1>4
  <2>2. j.node[n].status = "pending"
    BY <1>3, <1>5, <2>1 DEF W!AcceptableTerminal, W!Status, W!Terminal, W!Settling
  <2> QED BY <2>2 DEF W!Waiting, W!Status
<1>7. W!Waiting \in SUBSET W!Node /\ W!Waiting \in SUBSET Nat
  BY <1>2, DagFacts DEF W!Waiting
<1>8. PICK n \in W!Waiting : \A m \in W!Waiting : n <= m
  BY <1>6, <1>7, Least
<1>9. \A d \in W!Deps[n] : j.node[d].status \in W!Terminal
  <2> SUFFICES ASSUME NEW d \in W!Deps[n], j.node[d].status \notin W!Terminal PROVE FALSE
    OBVIOUS
  <2>1. d \in W!Node /\ d < n /\ d \in Nat /\ n \in Nat
    BY <1>2, <1>7, DagFacts
  <2>2. d \in W!Waiting
    BY <1>3, <2>1 DEF W!Waiting, W!Status
  <2> QED BY <1>8, <2>1, <2>2
<1>10. n \in W!Node /\ j.node[n].status = "pending"
  BY DEF W!Waiting, W!Status
<1>11. W!Readiness(n) \in {"ready", "skip", "resolve"}
  BY <1>5, <1>9, <1>10, FirstMoves
<1> QED BY <1>1, <1>11 DEF W!Ready, W!Skippable, W!Resolvable

(* Moving holds on where no node is dispatched, before and after. *)
LEMMA Elsewhere ==
    ASSUME Moving, dag' = dag, pc \notin Acts, pc' = pc \/ pc' \notin Acts \cup {"threw"}
    PROVE  Moving'
BY DEF Moving, Acts, W!Standalone

(* A tick that dispatches begins with something to do. *)
LEMMA TickMoves ==
    ASSUME FlowInv, Moving, W!Tick
    PROVE  Moving'
<1>1. CASE W!TickDispatch
  <2>1. /\ j.run = "running" /\ pc' = "act" /\ j' = j /\ local' = local /\ dag' = dag
        /\ plan' = [W!NoPlan EXCEPT !.dispatch = W!Ready, !.losers = W!Losers]
    BY <1>1 DEF W!TickDispatch, W!Quiet, W!Ext
  <2>2. plan'.dispatch = W!Ready
    BY <2>1 DEF W!NoPlan
  <2>3. \A n \in W!Ready : j.node[n].status = "pending"
    BY DEF W!Ready, W!Waiting, W!Status
  <2>4. Progress'
    <3>1. W!Ready # {} \/ W!InFlight # {} \/ \E n \in W!Node : j.node[n].status = "gateWaiting"
      BY <1>1, TickFinds
    <3> QED BY <2>1, <2>2, <3>1, SameTypes DEF Progress, W!InFlight
  <2> QED BY <2>1, <2>2, <2>3, <2>4 DEF Moving, Acts
<1>2. CASE ~W!TickDispatch
  <2>1. /\ pc = "tick" /\ dag' = dag
        /\ pc' \in {"wait", "drain all", "ret", "drain local", "drain", "append", "tick"}
    BY <1>2 DEF W!Tick, W!TickCancelling, W!TickBoundary, W!TickDrain, W!TickTerminal, W!TickControl, W!Quiesce, W!Quiet, W!Ext
  <2> QED BY <2>1, Elsewhere DEF Acts
<1> QED BY <1>1, <1>2

(* A dispatch starts a node. *)
LEMMA DispatchMoves ==
    ASSUME FlowInv, Moving, W!ActDispatch
    PROVE  Moving'
<1> DEFINE n == W!First(plan.dispatch)
           k == W!InstanceFor(n)
           m == W!NextAttempt(n, k)
           X == plan.dispatch \ {n}
<1> SUFFICES ASSUME ~W!Standalone PROVE Moving'
  BY DEF Moving, W!Standalone, W!ActDispatch
<1>1. pc = "act" /\ plan.dispatch # {} /\ dag' = dag /\ local' = local
  BY DEF W!ActDispatch
<1>2. j.run = "running" /\ \A x \in plan.dispatch : j.node[x].status = "pending"
  BY <1>1 DEF Moving, Acts
<1>3. n \in plan.dispatch /\ n \in W!Node
  <2>1. plan.dispatch \in SUBSET W!Node
    BY Holds DEF PlanRec
  <2> QED BY <1>1, <2>1, FirstIs
<1>4. \/ /\ j' = W!GateDispatched(j, n, k) /\ plan' = Claimed(plan, X, <<n, k>>) /\ pc' = "wait file"
      \/ /\ j' = W!NodeDispatched(j, n, k, m) /\ plan' = Claimed(plan, X, <<n, k, m>>) /\ pc' = "spawn"
  BY <1>2, <1>3 DEF W!ActDispatch, W!Status, Claimed
<1>5. j \in Ledger /\ LedgerTrue(j) /\ ~W!Cut(j) /\ W!Obsolete = {} /\ k = InstFor(j, n)
  BY <1>1, <1>2, Holds DEF FlowInv, Acting, Acts, W!Cut, W!InstanceFor, InstFor
<1>6. plan'.started = TRUE /\ plan'.dispatch = X
  <2>1. plan \in PlanRec
    BY Holds
  <2> HIDE DEF X, n, k, m
  <2> QED BY <1>4, <2>1 DEF Claimed, PlanRec
<1>7. X \in SUBSET W!Node /\ n \notin X
  <2>1. plan.dispatch \in SUBSET W!Node
    BY Holds DEF PlanRec
  <2> QED BY <2>1
<1>8. \A x \in X : j.node[x].status = "pending"
  BY <1>2
<1>9. m = W!NextAttempt(n, k)
  OBVIOUS
<1> HIDE DEF n, k, m, X
<1>10. j'.run = j.run /\ \A x \in X : j'.node[x] = j.node[x]
  <2>1. CASE j' = W!GateDispatched(j, n, k)
    <3>1. k = InstFor(j, n) /\ ~W!Cut(j) /\ j.node[n].status = "pending" /\ j' = W!GateDispatched(j, n, k)
          /\ j \in Ledger /\ LedgerTrue(j) /\ n \in W!Node
      BY <1>2, <1>3, <1>5, <2>1
    <3>2. j'.run = j.run /\ (j' # j => Edit(j, j', n, k))
      BY ONLY <3>1, GatedTrue
    <3> QED BY <1>7, <3>2 DEF Edit
  <2>2. CASE j' = W!NodeDispatched(j, n, k, m)
    <3>1. /\ m \in Nat /\ m # 0 /\ k \in Nat
          /\ k > Len(j.inst[n]) \/ m > j.inst[n][k].max \/ (m = j.inst[n][k].max /\ j.inst[n][k].res)
      BY <1>3, <1>5, <1>9, NextAttemptIs
    <3>2. \A b \in j.open : b[1] # n
      BY <1>2, <1>3, <1>5, NoneOpen
    <3>3. j'.run = j.run /\ Edit(j, j', n, k)
      BY <1>2, <1>3, <1>5, <2>2, <3>1, <3>2, DispatchKeeps
    <3> QED BY <1>7, <3>3 DEF Edit
  <2> QED BY <1>4, <2>1, <2>2
<1> QED BY <1>1, <1>2, <1>4, <1>6, <1>8, <1>10, SameTypes DEF Moving, Progress, Acts

(* The other steps of a dispatching tick. *)
LEMMA ActMoves ==
    ASSUME FlowInv, Moving, W!Act
    PROVE  Moving'
<1>1. CASE W!ActDispatch
  BY <1>1, DispatchMoves
<1>2. CASE W!ActCapped
  <2>1. /\ pc = "act" /\ j' = j /\ local' = local /\ pc' = pc /\ plan' = [plan EXCEPT !.dispatch = {}] /\ dag' = dag
        /\ W!Cardinality(W!InFlight) >= Cap
    BY <1>2 DEF W!ActCapped, W!Ext
  <2>2. W!InFlight # {}
    <3>1. Cap \in Nat \ {0}
      BY PartsAssumption DEF W!WorkflowAssumption
    <3> QED BY <2>1, <3>1, FS_EmptySet, FlowCardinality
  <2>3. plan'.dispatch = {} /\ plan'.started = plan.started
    BY <2>1, Holds DEF PlanRec
  <2> QED BY <2>1, <2>2, <2>3, SameTypes DEF Moving, Progress, W!InFlight, Acts, W!Standalone
<1>3. CASE W!WriteWait
  <2>1. /\ pc = "wait file" /\ j' = j /\ local' = local /\ pc' = "act" /\ plan' = plan /\ dag' = dag
    BY <1>3 DEF W!WriteWait
  <2> QED BY <2>1, SameTypes DEF Moving, Progress, W!InFlight, Acts, W!Standalone
<1>4. CASE W!Spawn
  <2>1. /\ pc = "spawn" /\ j' = j /\ pc' = "act" /\ plan' = plan /\ dag' = dag
    BY <1>4 DEF W!Spawn
  <2> QED BY <2>1, SameTypes DEF Moving, Progress, Acts, W!Standalone
<1>5. CASE W!ArmFails
  <2> DEFINE a == plan.at
  <2>1. /\ pc = "spawn" /\ j' = W!Settled(j, a, "failed", 0) /\ pc' = "act" /\ local' = local
        /\ plan' = plan /\ dag' = dag
    BY <1>5 DEF W!ArmFails, W!Ext
  <2>2. a \in j.open /\ j \in Ledger /\ LedgerTrue(j)
    BY <2>1, Holds DEF FlowInv, Acting
  <2>3. a[1] \in W!Node
    BY <2>2, OpenFacts DEF IsInst
  <2> HIDE DEF a
  <2>4. j'.run = j.run /\ Edit(j, j', a[1], a[2])
    <3>1. "failed" \in W!Settling /\ 0 \in W!Node \cup {0}
      BY DEF W!Settling
    <3> QED BY <2>1, <2>2, <3>1, SettledTrue
  <2>5. ASSUME ~W!Standalone, NEW x \in plan.dispatch PROVE j'.node[x].status = "pending"
    <3>1. j.node[x].status = "pending" /\ W!Obsolete = {}
      BY <2>1, <2>5 DEF Moving, FlowInv, Acting, Acts
    <3>2. x \in W!Node
      BY Holds DEF PlanRec
    <3>3. x # a[1]
      BY <2>2, <3>1, <3>2, NoneOpen
    <3> QED BY <2>4, <3>1, <3>2, <3>3 DEF Edit
  <2> QED BY <2>1, <2>4, <2>5, SameTypes DEF Moving, Progress, Acts, W!Standalone
<1>6. CASE W!ActLoser
  <2> DEFINE live == W!Status(W!First(plan.losers)) \in {"pending", "gateWaiting", "running"}
             c == W!First(plan.losers)
             u == W!NodeCancelled(j, c, j.node[c].eff, FALSE)
  <2>1. /\ pc = "act" /\ plan.dispatch = {} /\ plan.losers # {} /\ pc' = pc /\ dag' = dag
        /\ j' = IF live THEN u ELSE j
        /\ ~live => local' = local
        /\ plan' = [plan EXCEPT !.losers = @ \ {c}, !.cancelled = @ \/ live]
    BY <1>6 DEF W!ActLoser, W!Ext
  <2>2. plan'.dispatch = {} /\ plan'.started = plan.started /\ (plan'.cancelled <=> plan.cancelled \/ live)
    <3> HIDE DEF live, c
    <3>1. plan \in PlanRec
      BY Holds
    <3> QED BY <2>1, <3>1 DEF PlanRec
  <2>3. j'.run = j.run
    <3>1. c \in W!Node
      <4>1. plan.losers \in SUBSET W!Node
        BY Holds DEF PlanRec
      <4> QED BY <2>1, <4>1, FirstIs
    <3>2. AtOrNone(j, c, j.node[c].eff) /\ j \in Ledger /\ LedgerTrue(j)
      BY <3>1, Holds, Effective
    <3> DEFINE byRun == FALSE
               k == j.node[c].eff
    <3>3. u = W!NodeCancelled(j, c, k, byRun) /\ byRun \in BOOLEAN /\ (byRun => W!Cut(j)) /\ (k = 0 => j.node[c].eff = 0)
      OBVIOUS
    <3>4. AtOrNone(j, c, k)
      BY <3>2
    <3> HIDE DEF byRun, k, c, u
    <3>5. u.run = j.run
      BY <3>2, <3>3, <3>4, CancelledTrue
    <3> QED BY <2>1, <3>5
  <2> HIDE DEF live, c, u
  <2> QED BY <2>1, <2>2, <2>3, SameTypes DEF Moving, Progress, Acts, W!Standalone, W!InFlight
<1>7. CASE W!ActEnd
  <2> DEFINE stuck == ~plan.cancelled /\ ~plan.started /\ W!InFlight = {}
             gates == {<<n, j.node[n].eff>> : n \in {m \in W!Node : W!Status(m) = "gateWaiting"}}
  <2>1. /\ pc = "act" /\ plan.dispatch = {} /\ dag' = dag
        /\ pc' = (CASE stuck /\ gates # {} -> "ret"
                    [] stuck /\ gates = {} -> "threw"
                    [] ~plan.cancelled /\ W!InFlight # {} -> "wait"
                    [] OTHER -> "tick")
    BY <1>7 DEF W!ActEnd
  <2>2. ~W!Standalone => ~(stuck /\ gates = {})
    <3> SUFFICES ASSUME ~W!Standalone, stuck PROVE gates # {}
      OBVIOUS
    <3>1. PICK n \in W!Node : j.node[n].status = "gateWaiting"
      BY <2>1 DEF Moving, Progress, Acts
    <3>2. <<n, j.node[n].eff>> \in gates
      BY <3>1 DEF W!Status
    <3> QED BY <3>2
  <2>3. pc' \in {"ret", "threw", "wait", "tick"} /\ (pc' = "threw" => stuck /\ gates = {})
    <3> HIDE DEF stuck, gates
    <3> QED BY <2>1
  <2> HIDE DEF stuck, gates
  <2> QED BY <2>1, <2>2, <2>3 DEF Moving, Acts, W!Standalone
<1>8. CASE W!AppendTerminal \/ W!SeeCancellation \/ W!Return
  <2>1. pc \in {"append", "wait", "ret"} /\ pc' \in {"tick", "idle"} /\ dag' = dag
    BY <1>8 DEF W!AppendTerminal, W!SeeCancellation, W!Return, W!Ext
  <2> QED BY <2>1, Elsewhere DEF Acts
<1> QED BY <1>1, <1>2, <1>3, <1>4, <1>5, <1>6, <1>7, <1>8 DEF W!Act

(* The steps of the workers. *)
LEMMA WorkerMoves ==
    ASSUME FlowInv, Moving, W!Worker
    PROVE  Moving'
<1>1. ASSUME NEW a \in proc, W!OrphanExits(a) PROVE Moving'
  <2>1. j' = j /\ local' = local /\ pc' = pc /\ plan' = plan /\ dag' = dag
    BY <1>1 DEF W!OrphanExits
  <2> QED BY <2>1, SameTypes DEF Moving, Progress, W!InFlight, W!Standalone
<1>2. CASE W!RevisitSupersedes \/ W!RevisitEnds
  <2>1. ask # W!NoAsk /\ dag' = dag /\ pc' \in {pc, "tick"}
    BY <1>2 DEF W!RevisitSupersedes, W!RevisitEnds, W!Wake
  <2>2. pc \notin Acts
    BY <2>1 DEF FlowInv, Busy, W!Thread
  <2> QED BY <2>1, <2>2, Elsewhere DEF Acts
<1>3. ASSUME NEW a \in W!InFlight,
             \/ \E r \in W!Outcome : W!WorkerReturns(a, r)
             \/ W!WorkerDrained(a) \/ W!WorkerSettles(a)
             \/ \E t \in W!RevisitTo[a[1]] : W!RevisitRequested(a, t)
      PROVE  Moving'
  <2>1. W!Free /\ dag' = dag /\ pc' \in {pc, "tick"}
    BY <1>3 DEF W!WorkerReturns, W!WorkerDrained, W!WorkerSettles, W!RevisitRequested, W!Wake
  <2>2. pc \notin Acts
    BY <2>1 DEF W!Free, Acts
  <2> QED BY <2>1, <2>2, Elsewhere DEF Acts
<1> QED BY <1>1, <1>2, <1>3 DEF W!Worker

(* The steps of the operators. *)
LEMMA OperatorMoves ==
    ASSUME FlowInv, Moving, W!Operator
    PROVE  Moving'
<1>1. CASE W!CancelFromCli
  BY <1>1 DEF W!CancelFromCli, W!Ext, Moving, W!Standalone
<1>2. CASE W!ClickAppends
  <2>1. click # <<>> /\ dag' = dag /\ pc' \in {pc, "tick"}
    BY <1>2 DEF W!ClickAppends, W!Drive
  <2>2. pc \notin Acts
    BY <2>1 DEF FlowInv, Busy, W!Thread
  <2> QED BY <2>1, <2>2, Elsewhere DEF Acts
<1>3. CASE W!StartRun
  <2>1. pc = "new" /\ dag' = dag /\ pc' = "tick"
    BY <1>3 DEF W!StartRun, W!Drive
  <2> QED BY <2>1, Elsewhere DEF Acts
<1>4. ASSUME \/ W!CancelInDaemon
             \/ \E g \in cards, res \in {"approved", "rejected"} : W!ClickGate(g, res)
             \/ \E n \in W!Node : W!Retry(n) \/ \E s \in {"pair", "run"} : W!GrantRevisit(n, s) \/ W!CrashInGrant(n, s)
      PROVE  Moving'
  <2>1. W!Free /\ dag' = dag /\ pc' \in {pc, "tick", "down"}
    BY <1>4 DEF W!CancelInDaemon, W!ClickGate, W!Retry, W!GrantRevisit, W!CrashInGrant, W!Drive, W!Die
  <2>2. pc \notin Acts
    BY <2>1 DEF W!Free, Acts
  <2> QED BY <2>1, <2>2, Elsewhere DEF Acts
<1> QED BY <1>1, <1>2, <1>3, <1>4 DEF W!Operator

(* Every step keeps the driver of a daemon moving. *)
LEMMA MovingStays ==
    ASSUME FlowInv, Moving, [FlowNext]_flow
    PROVE  Moving'
<1>1. CASE W!Drain
  <2>1. pc \in {"drain all", "drain local", "drain"} /\ dag' = dag /\ pc' \in {pc, "tick"}
    BY <1>1 DEF W!Drain, W!DrainForCancel, W!FinalizeCancellation, W!LocalDrained, W!DrainDone, W!DrainExternal, W!Ext
  <2> QED BY <2>1, Elsewhere DEF Acts
<1>2. CASE W!Crash
  BY <1>2 DEF W!Crash, W!Die, Moving, Acts
<1>3. CASE W!ColdAttach
  <2>1. pc = "down" /\ dag' = dag /\ pc' \in {"tick", "idle"}
    BY <1>3 DEF W!ColdAttach
  <2> QED BY <2>1, Elsewhere DEF Acts
<1>4. CASE UNCHANGED engine
  <2>1. j' = j /\ local' = local /\ pc' = pc /\ plan' = plan /\ dag' = dag
    BY <1>4 DEF engine
  <2> QED BY <2>1, SameTypes DEF Moving, Progress, W!InFlight, W!Standalone
<1> QED BY <1>1, <1>2, <1>3, <1>4, TickMoves, ActMoves, WorkerMoves, OperatorMoves DEF W!Next, FlowNext, flow

(* The driver of a daemon always finds something to do or to wait for: it   *)
(* never ends with "no progress possible" (NeverThrows).                    *)
THEOREM DriverMoves == FlowSpec => []W!NeverThrows
<1>1. FlowInit => Moving
  BY DEF FlowInit, W!Init, Moving, Acts
<1>2. FlowInv /\ Moving /\ [FlowNext]_flow => Moving'
  BY MovingStays
<1>3. Moving => W!NeverThrows
  BY DEF Moving, W!NeverThrows
<1> QED BY <1>1, <1>2, <1>3, FlowSafe, PTL DEF FlowSpec

-----------------------------------------------------------------------------
(***************************************************************************)
(* The instances of a node and its orphans: what pays for each of them, and*)
(* the events that leave the counts alone.                                 *)
(***************************************************************************)

(* The instances a node has had, and the next one once the last is          *)
(* superseded.                                                              *)
Age(s, n) == Len(s.inst[n]) + (IF s.node[n].eff = 0 THEN 1 ELSE 0)

WhyOf(s, n, k) == IF IsInst(s, n, k) THEN s.inst[n][k].why ELSE 0
OrphansOf(s, n, k) == IF IsInst(s, n, k) THEN s.inst[n][k].orphans ELSE 0

(* What t leaves as it is in s: the age of the nodes and the budget of the  *)
(* run, the judges of the instances, the times they were orphaned.          *)
SameAges(s, t) ==
    t.leftRun = s.leftRun /\ t.blocked \in W!Node \cup {0, s.blocked} /\ \A n \in W!Node : Age(t, n) = Age(s, n)
SameWhys(s, t) == \A n, k : IsInst(t, n, k) => WhyOf(t, n, k) \in {0, WhyOf(s, n, k)}
SameOrphans(s, t) == \A n, k : IsInst(t, n, k) => OrphansOf(t, n, k) = OrphansOf(s, n, k)
Calm(s, t) == SameAges(s, t) /\ SameWhys(s, t) /\ SameOrphans(s, t)

(* Two changes that leave this as it is leave it together. *)
LEMMA CalmTwice ==
    ASSUME NEW s, NEW t, NEW u, Calm(s, t), Calm(t, u), \A n, k : IsInst(s, n, k) => IsInst(t, n, k)
    PROVE  Calm(s, u)
<1>1. SameAges(s, u)
  BY DEF Calm, SameAges
<1>2. \A n, k : IsInst(u, n, k) => WhyOf(u, n, k) \in {0, WhyOf(s, n, k)} /\ OrphansOf(u, n, k) = OrphansOf(s, n, k)
  <2> SUFFICES ASSUME NEW n, NEW k, IsInst(u, n, k)
               PROVE  WhyOf(u, n, k) \in {0, WhyOf(s, n, k)} /\ OrphansOf(u, n, k) = OrphansOf(s, n, k)
    OBVIOUS
  <2>1. WhyOf(u, n, k) \in {0, WhyOf(t, n, k)} /\ OrphansOf(u, n, k) = OrphansOf(t, n, k)
    BY DEF Calm, SameWhys, SameOrphans
  <2>2. CASE IsInst(t, n, k)
    BY <2>1, <2>2 DEF Calm, SameWhys, SameOrphans
  <2>3. CASE ~IsInst(t, n, k)
    BY <2>1, <2>3 DEF WhyOf, OrphansOf
  <2> QED BY <2>2, <2>3
<1> QED BY <1>1, <1>2 DEF Calm, SameWhys, SameOrphans

(* A ledger that is the same in its nodes and instances. *)
LEMMA CalmSame ==
    ASSUME NEW s, NEW t, t.node = s.node, t.inst = s.inst, t.leftRun = s.leftRun,
           t.blocked \in W!Node \cup {0, s.blocked}
    PROVE  Calm(s, t)
<1>1. \A n : Age(t, n) = Age(s, n)
  BY DEF Age
<1>2. \A n, k : /\ IsInst(t, n, k) <=> IsInst(s, n, k)
                /\ WhyOf(t, n, k) = WhyOf(s, n, k) /\ OrphansOf(t, n, k) = OrphansOf(s, n, k)
  BY DEF IsInst, WhyOf, OrphansOf
<1> QED BY <1>1, <1>2 DEF Calm, SameAges, SameWhys, SameOrphans

(* An edit of one instance leaves the age of the nodes if the node works on *)
(* an instance after it only if it did, or if it is a new one.              *)
LEMMA EditAges ==
    ASSUME NEW s \in Ledger, NEW n \in W!Node, NEW k, NEW t, Edit(s, t, n, k), t.blocked \in W!Node \cup {0, s.blocked},
           \/ Len(t.inst[n]) = Len(s.inst[n]) /\ (t.node[n].eff = 0 <=> s.node[n].eff = 0)
           \/ Len(t.inst[n]) = Len(s.inst[n]) + 1 /\ t.node[n].eff # 0 /\ s.node[n].eff = 0
    PROVE  SameAges(s, t)
<1>1. \A m \in W!Node : m # n => Age(t, m) = Age(s, m)
  BY DEF Edit, Age
<1>2. Len(s.inst[n]) \in Nat
  BY Fields
<1>3. Age(t, n) = Age(s, n)
  <2>1. CASE Len(t.inst[n]) = Len(s.inst[n]) /\ (t.node[n].eff = 0 <=> s.node[n].eff = 0)
    BY <1>2, <2>1 DEF Age
  <2>2. CASE Len(t.inst[n]) = Len(s.inst[n]) + 1 /\ t.node[n].eff # 0 /\ s.node[n].eff = 0
    BY <1>2, <2>2 DEF Age
  <2> QED BY <2>1, <2>2
<1> QED BY <1>1, <1>3 DEF SameAges, Edit

(* It leaves the rest of an instance. *)
LEMMA EditMarks ==
    ASSUME NEW s \in Ledger, NEW n \in W!Node, NEW k, NEW t, Edit(s, t, n, k), k = 0 \/ AtOrNext(s, n, k)
    PROVE  /\ k = 0 \/ WhyOf(t, n, k) \in {0, WhyOf(s, n, k)} => SameWhys(s, t)
           /\ k = 0 \/ OrphansOf(t, n, k) = OrphansOf(s, n, k) => SameOrphans(s, t)
<1>1. \A m, l : /\ IsInst(t, m, l) /\ ~(m = n /\ l = k)
                => IsInst(s, m, l) /\ t.inst[m][l] = s.inst[m][l]
  <2> SUFFICES ASSUME NEW m, NEW l, IsInst(t, m, l), ~(m = n /\ l = k)
               PROVE  IsInst(s, m, l) /\ t.inst[m][l] = s.inst[m][l]
    OBVIOUS
  <2>1. CASE m # n
    BY <2>1 DEF IsInst, Edit
  <2>2. CASE m = n
    <3>1. Len(s.inst[n]) \in Nat /\ Len(t.inst[n]) = (IF k <= Len(s.inst[n]) THEN Len(s.inst[n]) ELSE k)
      BY Fields DEF Edit
    <3>2. l \in 1..Len(t.inst[n]) /\ l # k
      BY <2>2 DEF IsInst
    <3>3. l \in 1..Len(s.inst[n])
      BY <3>1, <3>2 DEF AtOrNext
    <3> QED BY <2>2, <3>2, <3>3 DEF IsInst, Edit
  <2> QED BY <2>1, <2>2
<1>2. \A m, l : /\ IsInst(t, m, l) /\ ~(m = n /\ l = k)
                => WhyOf(t, m, l) = WhyOf(s, m, l) /\ OrphansOf(t, m, l) = OrphansOf(s, m, l)
  BY <1>1 DEF WhyOf, OrphansOf
<1>3. k = 0 => ~IsInst(t, n, k)
  BY <1>1 DEF IsInst
<1> QED BY <1>2, <1>3 DEF SameWhys, SameOrphans

(* An edit of an instance a node has. *)
LEMMA EditCalm ==
    ASSUME NEW s \in Ledger, NEW n, NEW k, AtOrNone(s, n, k), NEW t, Edit(s, t, n, k),
           t.blocked \in W!Node \cup {0, s.blocked}, t.node[n].eff = s.node[n].eff
    PROVE  /\ SameAges(s, t)
           /\ k = 0 \/ t.inst[n][k].why \in {0, s.inst[n][k].why} => SameWhys(s, t)
           /\ k = 0 \/ t.inst[n][k].orphans = s.inst[n][k].orphans => SameOrphans(s, t)
<1>1. n \in W!Node /\ (k = 0 \/ AtOrNext(s, n, k)) /\ Len(s.inst[n]) \in Nat /\ (k = 0 \/ IsInst(s, n, k))
  BY Fields DEF AtOrNone, AtOrNext, IsInst
<1>2. Len(t.inst[n]) = Len(s.inst[n])
  BY <1>1 DEF Edit, IsInst
<1>3. k # 0 => IsInst(t, n, k)
  BY <1>1, <1>2 DEF IsInst
<1>4. SameAges(s, t)
  BY <1>1, <1>2, EditAges
<1>5. k # 0 => /\ WhyOf(t, n, k) = t.inst[n][k].why /\ WhyOf(s, n, k) = s.inst[n][k].why
               /\ OrphansOf(t, n, k) = t.inst[n][k].orphans /\ OrphansOf(s, n, k) = s.inst[n][k].orphans
  BY <1>1, <1>3 DEF WhyOf, OrphansOf
<1>6. /\ k = 0 \/ WhyOf(t, n, k) \in {0, WhyOf(s, n, k)} => SameWhys(s, t)
      /\ k = 0 \/ OrphansOf(t, n, k) = OrphansOf(s, n, k) => SameOrphans(s, t)
  BY <1>1, EditMarks
<1> QED BY <1>4, <1>5, <1>6

(* A verdict. *)
LEMMA SettledCalm ==
    ASSUME NEW s \in Ledger, NEW a \in Triples, IsInst(s, a[1], a[2]), NEW st \in W!NodeStatus, NEW why \in Nat,
           NEW t, t = W!Settled(s, a, st, why)
    PROVE  /\ SameAges(s, t) /\ SameOrphans(s, t) /\ (why = 0 => SameWhys(s, t))
           /\ IsInst(t, a[1], a[2]) /\ WhyOf(t, a[1], a[2]) \in {why, WhyOf(s, a[1], a[2])}
           /\ \A n, k : IsInst(t, n, k) /\ ~(n = a[1] /\ k = a[2]) => WhyOf(t, n, k) = WhyOf(s, n, k)
<1> DEFINE n == a[1]
           k == a[2]
           i == s.inst[n][k]
           x == t.inst[n][k]
<1>0. n = a[1] /\ k = a[2] /\ i = s.inst[n][k] /\ x = t.inst[n][k]
  OBVIOUS
<1>1. /\ n \in W!Node /\ AtOrNone(s, n, k) /\ i \in InstRec /\ s.node[n] \in NodeRec /\ k # 0 /\ k \in Nat
      /\ Len(s.inst[n]) \in Nat /\ IsInst(s, n, k)
  BY Fields DEF AtOrNone, IsInst
<1>2. /\ Edit(s, t, n, k) /\ t.blocked = s.blocked
      /\ t.node[n] = s.node[n] \/ t.node[n] = [s.node[n] EXCEPT !.status = st]
      /\ x \in {Judged(i, st, why), i, Judged(i, i.st, why)}
  BY SettledIs
<1> HIDE DEF n, k, i, x
<1>3. t.node[n].eff = s.node[n].eff
  <2> DEFINE nd == s.node[n]
             md == t.node[n]
  <2>1. nd \in NodeRec /\ (md = nd \/ md = [nd EXCEPT !.status = st])
    BY <1>1, <1>2
  <2> HIDE DEF nd, md
  <2>2. md.eff = nd.eff
    BY ONLY <2>1 DEF NodeRec
  <2> QED BY ONLY <2>2 DEF nd, md
<1>4. i.st \in W!NodeStatus \cup {"superseded"}
  BY ONLY <1>1 DEF InstRec
<1>5. x.orphans = i.orphans /\ x.why \in {why, i.why}
  <2>1. ASSUME NEW q \in W!NodeStatus \cup {"superseded"}
        PROVE  Judged(i, q, why).orphans = i.orphans /\ Judged(i, q, why).why = why
    BY <1>1, JudgedIs
  <2> QED BY ONLY <1>2, <1>4, <2>1, st \in W!NodeStatus
<1>6. /\ SameAges(s, t) /\ SameOrphans(s, t) /\ (why = 0 => SameWhys(s, t))
  <2>1. why = 0 => t.inst[n][k].why \in {0, s.inst[n][k].why}
    BY <1>0, <1>5
  <2>2. t.inst[n][k].orphans = s.inst[n][k].orphans /\ t.blocked \in W!Node \cup {0, s.blocked}
    BY <1>0, <1>2, <1>5
  <2> QED BY <1>1, <1>2, <1>3, <2>1, <2>2, EditCalm
<1>7. IsInst(t, n, k) /\ Len(t.inst[n]) = Len(s.inst[n])
  BY <1>1, <1>2 DEF IsInst, Edit
<1>8. WhyOf(t, n, k) \in {why, WhyOf(s, n, k)}
  BY ONLY <1>0, <1>1, <1>5, <1>7 DEF WhyOf
<1>9. ASSUME NEW m, NEW l, IsInst(t, m, l), ~(m = n /\ l = k) PROVE WhyOf(t, m, l) = WhyOf(s, m, l)
  <2>1. IsInst(s, m, l) /\ t.inst[m][l] = s.inst[m][l]
    <3>1. CASE m = n
      BY ONLY <1>2, <1>7, <1>9, <3>1 DEF IsInst, Edit
    <3>2. CASE m # n
      BY ONLY <1>2, <1>9, <3>2 DEF IsInst, Edit
    <3> QED BY <3>1, <3>2
  <2> QED BY ONLY <1>9, <2>1 DEF WhyOf
<1> QED BY <1>0, <1>6, <1>7, <1>8, <1>9

(* A close proof. *)
LEMMA DrainedCalm ==
    ASSUME NEW s \in Ledger, NEW a \in Triples, IsInst(s, a[1], a[2]), NEW orphan \in BOOLEAN,
           NEW t, t = W!Drained(s, a, orphan)
    PROVE  /\ SameAges(s, t) /\ SameWhys(s, t) /\ (~orphan => SameOrphans(s, t))
           /\ OrphansOf(t, a[1], a[2]) <= OrphansOf(s, a[1], a[2]) + 1
           /\ \A n, k : IsInst(t, n, k) /\ ~(n = a[1] /\ k = a[2]) => OrphansOf(t, n, k) = OrphansOf(s, n, k)
<1> DEFINE n == a[1]
           k == a[2]
           i == s.inst[n][k]
           h == IF orphan THEN i.orphans + 1 ELSE i.orphans
           st == IF Requeues(s, a) THEN "pending" ELSE i.st
           x == t.inst[n][k]
<1>0. n = a[1] /\ k = a[2] /\ i = s.inst[n][k] /\ x = t.inst[n][k] /\ (~orphan => h = i.orphans)
  OBVIOUS
<1>1. /\ n \in W!Node /\ AtOrNone(s, n, k) /\ i \in InstRec /\ s.node[n] \in NodeRec /\ k # 0 /\ k \in Nat
      /\ Len(s.inst[n]) \in Nat /\ IsInst(s, n, k)
  BY Fields DEF AtOrNone, IsInst
<1>2. /\ Edit(s, t, n, k) /\ t.blocked = s.blocked
      /\ t.node[n] = s.node[n] \/ t.node[n] = [s.node[n] EXCEPT !.status = "pending"]
      /\ x = Returned(i, st, h)
  BY DrainedIs
<1>10. i.orphans \in Nat /\ i.st \in W!NodeStatus \cup {"superseded"} /\ "pending" \in W!NodeStatus
       /\ h \in {i.orphans + 1, i.orphans} /\ st \in {"pending", i.st}
  <2>1. h \in {i.orphans + 1, i.orphans} /\ st \in {"pending", i.st}
    OBVIOUS
  <2> HIDE DEF i, h, st
  <2> QED BY <1>1, <2>1, Statuses DEF InstRec
<1> HIDE DEF n, k, i, h, st, x
<1>3. t.node[n].eff = s.node[n].eff
  <2> DEFINE nd == s.node[n]
             md == t.node[n]
  <2>1. nd \in NodeRec /\ (md = nd \/ md = [nd EXCEPT !.status = "pending"])
    BY <1>1, <1>2
  <2> HIDE DEF nd, md
  <2>2. md.eff = nd.eff
    BY ONLY <2>1 DEF NodeRec
  <2> QED BY ONLY <2>2 DEF nd, md
<1>4. st \in W!NodeStatus \cup {"superseded"} /\ h \in Nat /\ h <= i.orphans + 1
  BY ONLY <1>10
<1>5. x.orphans = h /\ x.why = i.why
  BY ONLY <1>1, <1>2, <1>4, ReturnedIs
<1>6. /\ SameAges(s, t) /\ SameWhys(s, t) /\ (~orphan => SameOrphans(s, t))
  <2>1. t.inst[n][k].why \in {0, s.inst[n][k].why}
    BY <1>0, <1>5
  <2>2. (~orphan => t.inst[n][k].orphans = s.inst[n][k].orphans) /\ t.blocked \in W!Node \cup {0, s.blocked}
    BY <1>0, <1>2, <1>5
  <2> QED BY <1>1, <1>2, <1>3, <2>1, <2>2, EditCalm
<1>7. IsInst(t, n, k) /\ Len(t.inst[n]) = Len(s.inst[n])
  BY <1>1, <1>2 DEF IsInst, Edit
<1>8. OrphansOf(t, n, k) <= OrphansOf(s, n, k) + 1
  BY ONLY <1>0, <1>1, <1>4, <1>5, <1>7 DEF OrphansOf
<1>9. ASSUME NEW m, NEW l, IsInst(t, m, l), ~(m = n /\ l = k) PROVE OrphansOf(t, m, l) = OrphansOf(s, m, l)
  <2>1. IsInst(s, m, l) /\ t.inst[m][l] = s.inst[m][l]
    <3>1. CASE m = n
      BY ONLY <1>2, <1>7, <1>9, <3>1 DEF IsInst, Edit
    <3>2. CASE m # n
      BY ONLY <1>2, <1>9, <3>2 DEF IsInst, Edit
    <3> QED BY <3>1, <3>2
  <2> QED BY ONLY <1>9, <2>1 DEF OrphansOf
<1> QED BY <1>0, <1>6, <1>8, <1>9

(* A cancelled node. *)
LEMMA CancelledCalm ==
    ASSUME NEW s \in Ledger, NEW n, NEW k, AtOrNone(s, n, k), NEW byRun \in BOOLEAN,
           NEW t, t = W!NodeCancelled(s, n, k, byRun)
    PROVE  Calm(s, t)
<1>1. n \in W!Node /\ s.node[n] \in NodeRec /\ (k # 0 => s.inst[n][k] \in InstRec)
  BY Fields DEF AtOrNone, IsInst
<1>2. Edit(s, t, n, k) /\ t.blocked = s.blocked /\ CancelEffect(s, t, n, k, byRun)
  BY CancelledIs
<1>3. t.node[n].eff = s.node[n].eff
  BY <1>1, <1>2 DEF CancelEffect, NodeRec, Stated
<1>4. k # 0 => t.inst[n][k].why = s.inst[n][k].why /\ t.inst[n][k].orphans = s.inst[n][k].orphans
  BY <1>1, <1>2 DEF CancelEffect, InstRec, Standing
<1> QED BY <1>2, <1>3, <1>4, EditCalm DEF Calm

(* A retry. *)
LEMMA RetriedCalm ==
    ASSUME NEW s \in Ledger, NEW n, IsInst(s, n, s.node[n].eff), NEW t, t = W!RetryRequested(s, n)
    PROVE  Calm(s, t)
<1>1. CASE W!Cut(s)
  BY <1>1, CalmSame DEF W!RetryRequested
<1>2. CASE ~W!Cut(s)
  <2> DEFINE k == s.node[n].eff
  <2>1. n \in W!Node /\ s.node[n] \in NodeRec /\ s.inst[n][k] \in InstRec /\ AtOrNone(s, n, k)
    BY Fields DEF AtOrNone, IsInst
  <2>2. /\ Edit(s, t, n, k) /\ t.blocked \in {0, s.blocked}
        /\ t.node[n] = [s.node[n] EXCEPT !.status = "pending"] /\ t.inst[n][k] = W!Reserved(s.inst[n][k])
    BY <1>2, RetriedIs
  <2>3. t.node[n].eff = s.node[n].eff /\ t.inst[n][k].why = s.inst[n][k].why /\ t.inst[n][k].orphans = s.inst[n][k].orphans
    BY <2>1, <2>2 DEF NodeRec, InstRec, W!Reserved
  <2>4. t.blocked \in W!Node \cup {0, s.blocked}
    BY <2>2
  <2>5. t.inst[n][k].why \in {0, s.inst[n][k].why} /\ Edit(s, t, n, k)
    BY <2>2, <2>3
  <2> HIDE DEF k
  <2>6. SameAges(s, t) /\ SameWhys(s, t) /\ SameOrphans(s, t)
    BY ONLY s \in Ledger, <2>1, <2>3, <2>4, <2>5, EditCalm
  <2> QED BY <2>6 DEF Calm
<1> QED BY <1>1, <1>2

(* A dispatched node. *)
LEMMA DispatchedCalm ==
    ASSUME NEW s \in Ledger, LedgerTrue(s), NEW n \in W!Node, NEW k, k = InstFor(s, n), NEW a \in Nat,
           NEW t, t = W!NodeDispatched(s, n, k, a) \/ (t = W!GateDispatched(s, n, k) /\ <<n, k>> \notin s.resolved)
    PROVE  Calm(s, t)
<1>1. AtOrNext(s, n, k) /\ Len(s.inst[n]) \in Nat /\ s.node[n] \in NodeRec /\ NodeFine(s.node[n], s.inst[n])
  BY InstForIs, Effective
<1>2. /\ Edit(s, t, n, k) /\ IsInst(t, n, k) /\ t.blocked = s.blocked
      /\ \/ t.node[n] = Taken(s.node[n], "running", k) /\ t.inst[n][k] = Begun(Base(s, n, k), a)
         \/ t.node[n] = Taken(s.node[n], "gateWaiting", k) /\ t.inst[n][k] = [Base(s, n, k) EXCEPT !.st = "gateWaiting"]
  <2>1. CASE t = W!NodeDispatched(s, n, k, a)
    BY <1>1, <2>1, DispatchedIs
  <2>2. CASE t = W!GateDispatched(s, n, k) /\ <<n, k>> \notin s.resolved
    BY <1>1, <2>2, GatedIs
  <2> QED BY <2>1, <2>2
<1>3. Base(s, n, k) \in InstRec /\ k \in Nat /\ k # 0
  BY <1>1, BaseIs
<1>4. t.node[n].eff = k
  BY <1>1, <1>2 DEF NodeRec, Taken
<1>5. t.inst[n][k].why = Base(s, n, k).why /\ t.inst[n][k].orphans = Base(s, n, k).orphans
  BY <1>2, <1>3 DEF Begun, InstRec
<1>6. SameAges(s, t)
  <2>1. CASE s.node[n].eff # 0
    <3>1. k <= Len(s.inst[n])
      BY <1>1, <2>1 DEF InstFor, NodeFine
    <3>2. Len(t.inst[n]) = Len(s.inst[n])
      BY <1>2, <3>1 DEF Edit
    <3> QED BY <1>2, <1>3, <1>4, <2>1, <3>2, EditAges
  <2>2. CASE s.node[n].eff = 0
    <3>1. k = Len(s.inst[n]) + 1
      BY <2>2 DEF InstFor
    <3>2. Len(t.inst[n]) = Len(s.inst[n]) + 1
      BY <1>1, <1>2, <3>1 DEF Edit
    <3> QED BY <1>2, <1>3, <1>4, <2>2, <3>2, EditAges
  <2> QED BY <2>1, <2>2
<1>7. WhyOf(t, n, k) = WhyOf(s, n, k) /\ OrphansOf(t, n, k) = OrphansOf(s, n, k)
  <2>1. CASE k <= Len(s.inst[n])
    <3>1. IsInst(s, n, k) /\ Base(s, n, k) = s.inst[n][k]
      BY <1>1, <1>3, <2>1 DEF IsInst, Base
    <3> QED BY <1>2, <1>5, <3>1 DEF WhyOf, OrphansOf
  <2>2. CASE ~(k <= Len(s.inst[n]))
    <3>1. ~IsInst(s, n, k) /\ Base(s, n, k).why = 0 /\ Base(s, n, k).orphans = 0
      BY <1>1, <1>3, <2>2 DEF IsInst, Base, W!NewInstance
    <3> QED BY <1>2, <1>5, <3>1 DEF WhyOf, OrphansOf
  <2> QED BY <2>1, <2>2
<1> QED BY <1>1, <1>2, <1>6, <1>7, EditMarks DEF Calm

(* A decided gate. *)
LEMMA ResolvedCalm ==
    ASSUME NEW s \in Ledger, NEW n, NEW k, IsInst(s, n, k), s.node[n].eff = k, s.node[n].status = "gateWaiting", NEW res,
           NEW t, t = W!GateResolved(s, n, k, res)
    PROVE  Calm(s, t)
<1>1. CASE W!Cut(s) \/ <<n, k>> \in s.resolved
  BY <1>1, CalmSame DEF W!GateResolved
<1>2. CASE ~(W!Cut(s) \/ <<n, k>> \in s.resolved)
  <2>1. n \in W!Node /\ s.node[n] \in NodeRec /\ s.inst[n][k] \in InstRec /\ AtOrNone(s, n, k)
    BY Fields DEF AtOrNone, IsInst
  <2>2. /\ Edit(s, t, n, k) /\ t.blocked = s.blocked
        /\ t.node[n] = W!Decided(s.node[n], res) /\ t.inst[n][k] = Standing(s.inst[n][k], W!Decision(res))
    BY <1>2, ResolvedIs
  <2>3. t.node[n].eff = s.node[n].eff /\ t.inst[n][k].why = s.inst[n][k].why /\ t.inst[n][k].orphans = s.inst[n][k].orphans
    BY <2>1, <2>2 DEF NodeRec, InstRec, W!Decided, Standing
  <2> QED BY <2>1, <2>2, <2>3, EditCalm DEF Calm
<1> QED BY <1>1, <1>2

(* What each of several events leaves as it is, all of them leave. *)
LEMMA TogetherCalm ==
    ASSUME NEW s \in Ledger, NEW X \in SUBSET W!Node, NEW f, DOMAIN f = X,
           \A n \in X : f[n] \in Ledger /\ Calm(s, f[n]),
           NEW t, t = W!Together(s, f)
    PROVE  Calm(s, t)
<1>1. /\ t.blocked = s.blocked /\ t.leftRun = s.leftRun
      /\ \A n \in X : t.node[n] = f[n].node[n] /\ t.inst[n] = f[n].inst[n]
      /\ \A n \in W!Node \ X : t.node[n] = s.node[n] /\ t.inst[n] = s.inst[n]
  <2>1. t.blocked = s.blocked /\ t.leftRun = s.leftRun /\ Combines(s, t, X, f)
    BY TogetherIs
  <2> QED BY <2>1 DEF Combines
<1>2. ASSUME NEW n \in W!Node PROVE Age(t, n) = Age(s, n)
  <2>1. CASE n \in X
    <3>1. Age(f[n], n) = Age(s, n)
      BY <2>1 DEF Calm, SameAges
    <3> QED BY <1>1, <2>1, <3>1 DEF Age
  <2>2. CASE n \notin X
    BY <1>1, <2>2 DEF Age
  <2> QED BY <2>1, <2>2
<1>3. ASSUME NEW n, NEW k, IsInst(t, n, k)
      PROVE  WhyOf(t, n, k) \in {0, WhyOf(s, n, k)} /\ OrphansOf(t, n, k) = OrphansOf(s, n, k)
  <2>1. CASE n \in X
    <3>1. IsInst(f[n], n, k) /\ WhyOf(t, n, k) = WhyOf(f[n], n, k) /\ OrphansOf(t, n, k) = OrphansOf(f[n], n, k)
      BY <1>1, <1>3, <2>1 DEF IsInst, WhyOf, OrphansOf
    <3>2. WhyOf(f[n], n, k) \in {0, WhyOf(s, n, k)} /\ OrphansOf(f[n], n, k) = OrphansOf(s, n, k)
      BY <2>1, <3>1 DEF Calm, SameWhys, SameOrphans
    <3> QED BY <3>1, <3>2
  <2>2. CASE n \notin X
    BY <1>1, <1>3, <2>2 DEF IsInst, WhyOf, OrphansOf
  <2> QED BY <2>1, <2>2
<1> QED BY <1>1, <1>2, <1>3 DEF Calm, SameAges, SameWhys, SameOrphans

(* Whether an instance of n is still to be superseded for a revisit. *)
Asks(todo, n) == IF \E g \in todo : g[1] = n THEN 1 ELSE 0

(* The instances a node has had or is about to get are paid for by the      *)
(* budget of the run; what a judge sends back to is an ancestor.            *)
CountsIn(s, todo, grants) ==
    /\ \A n \in W!Node : Age(s, n) + Asks(todo, n) + s.leftRun <= 1 + RunBudget + grants
    /\ W!Pair = {} => grants = 0 /\ s.leftRun = RunBudget
    /\ \A n, k : WhyOf(s, n, k) # 0 => <<n, WhyOf(s, n, k)>> \in W!Pair
    /\ s.blocked \in W!Node \cup {0}

(* An instance is orphaned at most once for each death: an open attempt that *)
(* is in X, or of a run that is cut, may have been orphaned by each of them, *)
(* any other, and all those in D, not yet by the last.                       *)
OrphansIn(s, X, D, deaths) ==
    /\ \A n, k : OrphansOf(s, n, k) <= deaths
    /\ \A a \in s.open : a \in D \/ (~W!Cut(s) /\ a \notin X) => OrphansOf(s, a[1], a[2]) + 1 <= deaths

(* The attempts of the driver, and those it takes from a dead one. *)
Held == W!InFlight \cup (IF pc = "spawn" THEN {plan.at} ELSE {})
Dropped == IF pc = "drain" /\ plan.orphan THEN plan.drain ELSE {}

Kept ==
    /\ tries.grant <= MaxGrant /\ tries.crash <= W!MaxCrash
    /\ CountsIn(j, ask.todo, tries.grant)
    /\ OrphansIn(j, Held, Dropped, tries.crash)

(* The counts stay true of fewer instances to supersede. *)
LEMMA CountsStay ==
    ASSUME NEW s \in Ledger, NEW t \in Ledger, NEW T, NEW T2, T2 \subseteq T, NEW grants \in Nat,
           CountsIn(s, T, grants), SameAges(s, t), SameWhys(s, t)
    PROVE  CountsIn(t, T2, grants)
<1>1. ASSUME NEW n \in W!Node PROVE Age(t, n) + Asks(T2, n) + t.leftRun <= 1 + RunBudget + grants
  <2>1. Age(t, n) = Age(s, n) /\ t.leftRun = s.leftRun
    BY DEF SameAges
  <2>2. Age(s, n) \in Nat /\ s.leftRun \in Nat /\ RunBudget \in Nat
    <3>1. Len(s.inst[n]) \in Nat
      BY Fields
    <3>2. s.leftRun \in Nat
      BY DEF Ledger
    <3>3. RunBudget \in Nat
      BY PartsAssumption DEF W!WorkflowAssumption
    <3>4. Age(s, n) \in {Len(s.inst[n]) + 1, Len(s.inst[n]) + 0}
      BY DEF Age
    <3>5. Age(s, n) \in Nat
      BY <3>1, <3>4
    <3> QED BY <3>2, <3>3, <3>5
  <2>3. Asks(T2, n) <= Asks(T, n) /\ Asks(T2, n) \in Nat /\ Asks(T, n) \in Nat
    BY DEF Asks
  <2>4. Age(s, n) + Asks(T, n) + s.leftRun <= 1 + RunBudget + grants
    BY DEF CountsIn
  <2> QED BY ONLY <2>1, <2>2, <2>3, <2>4, grants \in Nat
<1>2. ASSUME NEW n, NEW k, WhyOf(t, n, k) # 0 PROVE <<n, WhyOf(t, n, k)>> \in W!Pair
  <2>1. IsInst(t, n, k)
    BY <1>2 DEF WhyOf
  <2>2. WhyOf(t, n, k) = WhyOf(s, n, k)
    BY <1>2, <2>1 DEF SameWhys
  <2> QED BY <1>2, <2>2 DEF CountsIn
<1>3. t.blocked \in W!Node \cup {0} /\ t.leftRun = s.leftRun
  BY DEF SameAges, CountsIn
<1> QED BY <1>1, <1>2, <1>3 DEF CountsIn

(* What was orphaned stays so. *)
LEMMA OrphansStay ==
    ASSUME NEW s \in Ledger, LedgerTrue(s), NEW t, Keeps(s, t), NEW X, NEW Y, NEW D, NEW E, NEW deaths \in Nat,
           OrphansIn(s, X, D, deaths), SameOrphans(s, t), t.open \subseteq s.open,
           X \cap t.open \subseteq Y, E \subseteq D
    PROVE  OrphansIn(t, Y, E, deaths)
<1>1. \A n, k : OrphansOf(t, n, k) <= deaths
  <2> SUFFICES ASSUME NEW n, NEW k PROVE OrphansOf(t, n, k) <= deaths
    OBVIOUS
  <2>1. CASE IsInst(t, n, k)
    BY <2>1 DEF SameOrphans, OrphansIn
  <2>2. CASE ~IsInst(t, n, k)
    BY <2>2 DEF OrphansOf
  <2> QED BY <2>1, <2>2
<1>2. ASSUME NEW a \in t.open, a \in E \/ (~W!Cut(t) /\ a \notin Y) PROVE OrphansOf(t, a[1], a[2]) + 1 <= deaths
  <2>1. IsInst(t, a[1], a[2])
    BY DEF Keeps, LedgerTrue, OpenTrue
  <2>2. OrphansOf(t, a[1], a[2]) = OrphansOf(s, a[1], a[2])
    BY <2>1 DEF SameOrphans
  <2>3. W!Cut(s) => W!Cut(t)
    BY DEF Keeps, CutLasts
  <2>4. a \in s.open /\ (a \in D \/ (~W!Cut(s) /\ a \notin X))
    BY <1>2, <2>3
  <2> QED BY <2>2, <2>4 DEF OrphansIn
<1> QED BY <1>1, <1>2 DEF OrphansIn

(* Kept after a step that does not change the definition. *)
LEMMA KeptAfter ==
    ASSUME dag' = dag, tries'.grant <= MaxGrant, tries'.crash <= W!MaxCrash,
           CountsIn(j', ask'.todo, tries'.grant), OrphansIn(j', Held', Dropped', tries'.crash)
    PROVE  Kept'
<1>1. W!Node' = W!Node /\ W!Pair' = W!Pair /\ W!MaxCrash' = W!MaxCrash
  BY SameTypes DEF W!MaxCrash
<1>2. \A n, k : (IsInst(j, n, k))' <=> IsInst(j', n, k)
  BY <1>1 DEF IsInst
<1>3. /\ \A n, k : (WhyOf(j, n, k))' = WhyOf(j', n, k)
      /\ \A n, k : (OrphansOf(j, n, k))' = OrphansOf(j', n, k)
  BY <1>2 DEF WhyOf, OrphansOf
<1>4. \A n : (Age(j, n))' = Age(j', n) /\ (Asks(ask.todo, n))' = Asks(ask'.todo, n)
  BY DEF Age, Asks
<1>5. CountsIn(j, ask.todo, tries.grant)'
  BY <1>1, <1>3, <1>4 DEF CountsIn
<1>6. OrphansIn(j, Held, Dropped, tries.crash)'
  BY <1>3 DEF OrphansIn, W!Cut
<1> QED BY <1>1, <1>5, <1>6 DEF Kept

(* A step that leaves the ages and the orphans alone. *)
LEMMA KeptBy ==
    ASSUME FlowInv, Kept, Keeps(j, j'), Calm(j, j'), dag' = dag, tries'.grant = tries.grant, tries'.crash = tries.crash,
           ask'.todo \subseteq ask.todo, j'.open \subseteq j.open, Held \cap j'.open \subseteq Held', Dropped' \subseteq Dropped
    PROVE  Kept'
<1>1. /\ j \in Ledger /\ LedgerTrue(j) /\ j' \in Ledger /\ tries.grant \in Nat /\ tries.crash \in Nat
  BY Holds DEF Keeps
<1>2. SameAges(j, j') /\ SameWhys(j, j') /\ SameOrphans(j, j')
  BY DEF Calm
<1>3. CountsIn(j, ask.todo, tries.grant) /\ OrphansIn(j, Held, Dropped, tries.crash)
  BY DEF Kept
<1>4. CountsIn(j', ask'.todo, tries.grant)
  BY <1>1, <1>2, <1>3, CountsStay
<1>5. OrphansIn(j', Held', Dropped', tries.crash)
  BY <1>1, <1>2, <1>3, OrphansStay
<1> QED BY <1>4, <1>5, KeptAfter DEF Kept

(* A step of the driver or of its surroundings that leaves the journal and   *)
(* the promises alone.                                                       *)
LEMMA KeptAlone ==
    ASSUME FlowInv, Kept, j' = j, dag' = dag, tries'.grant = tries.grant, tries'.crash = tries.crash,
           ask' = ask, DOMAIN local' = W!InFlight, pc # "spawn", pc' = "drain" => pc = "drain" /\ plan' = plan
    PROVE  Kept'
<1>1. Keeps(j, j') /\ Calm(j, j') /\ j'.open \subseteq j.open /\ ask'.todo \subseteq ask.todo
  <2>1. j \in Ledger /\ LedgerTrue(j)
    BY Holds
  <2> QED BY <2>1, KeepsItself, CalmSame
<1>2. Held \cap j'.open \subseteq Held' /\ Dropped' \subseteq Dropped
  BY DEF Held, Dropped, W!InFlight
<1> QED BY <1>1, <1>2, KeptBy

(* The same, with events that leave the ages and the orphans alone and close *)
(* no more than the attempts that are no longer held.                        *)
LEMMA KeptEvents ==
    ASSUME FlowInv, Kept, Keeps(j, j'), Calm(j, j'), j'.open \subseteq j.open, dag' = dag,
           tries'.grant = tries.grant, tries'.crash = tries.crash, ask'.todo \subseteq ask.todo,
           W!InFlight \cap j'.open \subseteq DOMAIN local',
           pc = "spawn" => plan.at \notin j'.open \/ (pc' = pc /\ plan' = plan),
           pc' = "drain" => pc = "drain" /\ plan' = plan
    PROVE  Kept'
<1>1. Held \cap j'.open \subseteq Held' /\ Dropped' \subseteq Dropped
  BY DEF Held, Dropped, W!InFlight
<1> QED BY <1>1, KeptBy

(* A cancelled set of nodes. *)
LEMMA CancelledEachCalm ==
    ASSUME NEW s \in Ledger, LedgerTrue(s), W!Cut(s), NEW X \in SUBSET W!Node,
           NEW t, t = W!CancelledEach(s, X)
    PROVE  Calm(s, t)
<1> DEFINE f == [n \in X |-> W!NodeCancelled(s, n, s.node[n].eff, TRUE)]
<1>1. t = W!Together(s, f) /\ DOMAIN f = X
  BY DEF W!CancelledEach
<1>2. ASSUME NEW n \in X PROVE f[n] \in Ledger /\ Calm(s, f[n])
  <2> DEFINE k == s.node[n].eff
             byRun == TRUE
             u == f[n]
  <2>1. u = W!NodeCancelled(s, n, k, byRun) /\ byRun \in BOOLEAN /\ (k = 0 => s.node[n].eff = 0) /\ n \in W!Node
    OBVIOUS
  <2>2. AtOrNone(s, n, k) /\ (byRun => W!Cut(s))
    BY Effective
  <2> HIDE DEF k, byRun, u
  <2>3. Keeps(s, u) /\ Calm(s, u)
    BY <2>1, <2>2, CancelledTrue, CancelledCalm
  <2> QED BY <2>3 DEF Keeps, u
<1> HIDE DEF f
<1> QED BY <1>1, <1>2, TogetherCalm

(* The instances stay instances. *)
LEMMA CalmChain ==
    ASSUME NEW s, NEW t, NEW u, Calm(s, t), Calm(t, u), Keeps(s, t)
    PROVE  Calm(s, u)
<1>1. \A n, k : IsInst(s, n, k) => IsInst(t, n, k)
  BY DEF Keeps, Lasting
<1> QED BY <1>1, CalmTwice

(* The steps of a tick but the drain. *)
LEMMA TickCancelKept ==
    ASSUME FlowInv, Kept, Keeps(j, j'), W!TickCancelling
    PROVE  Kept'
<1> DEFINE X == {n \in W!Node : W!Status(n) \in {"pending", "gateWaiting"}}
<1>1. /\ j.run = "cancelling" /\ local' = W!Aborted(W!InFlight, "run") /\ j' = W!CancelledEach(j, X)
      /\ pc = "tick" /\ pc' \in {"wait", "drain all"}
      /\ ask' = ask /\ tries' = tries /\ dag' = dag
  BY DEF W!TickCancelling, W!Ext
<1>2. X \in SUBSET W!Node /\ W!Cut(j) /\ j \in Ledger /\ LedgerTrue(j)
  BY <1>1, Holds DEF W!Cut
<1> HIDE DEF X
<1>3. Calm(j, j') /\ j'.open \subseteq j.open
  BY <1>1, <1>2, CancelledEachCalm, CancelledEachTrue
<1>4. DOMAIN local' = W!InFlight
  BY <1>1, Holds, AbortedIs
<1> QED BY <1>1, <1>3, <1>4, KeptEvents

(* A drain takes what the driver does not hold. *)
LEMMA QuiesceKept ==
    ASSUME FlowInv, Kept, W!TickDrain
    PROVE  Kept'
<1>1. /\ pc = "tick" /\ j.run = "running" /\ j' = j /\ ask' = ask /\ tries' = tries /\ dag' = dag
      /\ j \in Ledger /\ LedgerTrue(j) /\ tries.crash \in Nat /\ tries.grant \in Nat
  BY Holds DEF W!TickDrain, W!Quiesce, W!Ext
<1>2. PICK X, orphan : orphan \in BOOLEAN /\ W!Quiesce(X, orphan) /\ (orphan => X = j.open \ W!InFlight)
  <2>1. W!Quiesce(W!Obsolete, FALSE) \/ W!Quiesce(j.open \ W!InFlight, TRUE) \/ W!Quiesce(j.open, FALSE)
    BY DEF W!TickDrain
  <2> DEFINE P(Z, orphan) == W!Quiesce(Z, orphan) /\ (orphan => Z = j.open \ W!InFlight)
  <2>2. TRUE \in BOOLEAN /\ FALSE \in BOOLEAN
    OBVIOUS
  <2>3. P(W!Obsolete, FALSE) \/ P(j.open \ W!InFlight, TRUE) \/ P(j.open, FALSE)
    BY <2>1
  <2> HIDE DEF P
  <2>4. \E Z, orphan : orphan \in BOOLEAN /\ P(Z, orphan)
    BY <2>2, <2>3, Zenon
  <2> QED BY <2>4 DEF P
<1>3. /\ local' = W!Aborted(X, "drain")
      /\ pc' = (IF X \cap W!InFlight # {} THEN "drain local" ELSE "drain")
      /\ plan' = [W!NoPlan EXCEPT !.drain = IF X \cap W!InFlight # {} THEN X \cap W!InFlight ELSE X,
                                  !.orphan = orphan]
  BY <1>2 DEF W!Quiesce
<1>4. DOMAIN local' = W!InFlight
  <2>1. "drain" \in {"run", "drain"}
    OBVIOUS
  <2> QED BY <1>3, <2>1, Holds, AbortedIs
<1>5. (plan'.orphan <=> orphan) /\ (pc' = "drain" => plan'.drain = X)
  BY <1>3 DEF W!NoPlan
<1>6. Held' = W!InFlight /\ Held = W!InFlight /\ Dropped' \subseteq (IF orphan THEN j.open \ W!InFlight ELSE {})
  BY <1>1, <1>2, <1>3, <1>4, <1>5 DEF Held, Dropped, W!InFlight
<1>7. OrphansIn(j', Held', Dropped', tries'.crash)
  <2>1. OrphansIn(j, Held, Dropped, tries.crash) /\ ~W!Cut(j)
    BY <1>1 DEF Kept, W!Cut
  <2> QED BY <1>1, <1>6, <2>1 DEF OrphansIn
<1> QED BY <1>1, <1>7, KeptAfter DEF Kept

(* The control sweep. *)
LEMMA ControlKept ==
    ASSUME FlowInv, Kept, Keeps(j, j'), W!TickControl
    PROVE  Kept'
<1>0. j \in Ledger /\ LedgerTrue(j) /\ dag \in Dags
  BY Holds
<1>1. /\ pc = "tick" /\ local' = local /\ pc' = pc /\ ask' = ask /\ tries' = tries /\ dag' = dag
  BY DEF W!TickControl, W!Ext, W!Quiet
<1>2. PICK Ts \in SUBSET W!Resolvable :
          j' = W!Together(W!EdgesResolved(j, W!Resolvable, Ts), [n \in W!Skippable |-> W!NodeSkipped(j, n)])
  BY DEF W!TickControl
<1> DEFINE u == W!EdgesResolved(j, W!Resolvable, Ts)
           f == [n \in W!Skippable |-> W!NodeSkipped(j, n)]
           X == W!Skippable
<1>3. /\ Keeps(j, u) /\ u.node = j.node /\ u.inst = j.inst /\ u.open = j.open /\ u.leftRun = j.leftRun
  <2>1. W!Resolvable \in SUBSET (W!Node \X W!Node)
    BY <1>0, ResolvableIs
  <2> HIDE DEF u
  <2> QED BY <1>0, <2>1, EdgesTrue DEF u
<1>4. u.blocked = j.blocked
  BY <1>0 DEF W!EdgesResolved, Ledger
<1>5. DOMAIN f = X /\ j' = W!Together(u, f) /\ \A n \in X : f[n] = W!NodeSkipped(j, n)
  BY <1>2
<1>6. X \in SUBSET W!Node /\ \A n \in X : j.node[n].status = "pending"
  BY DEF W!Skippable, W!Waiting, W!Status
<1> HIDE DEF u, f, X
<1>7. Calm(j, u) /\ Calm(u, j) /\ u \in Ledger
  <2>1. u.blocked \in W!Node \cup {0, j.blocked} /\ j.blocked \in W!Node \cup {0, u.blocked} /\ u \in Ledger
    BY <1>3, <1>4 DEF Keeps
  <2> QED BY <1>3, <2>1, CalmSame
<1>8. ASSUME NEW n \in X PROVE f[n] \in Ledger /\ Calm(u, f[n])
  <2> DEFINE g == f[n]
  <2>1. g = W!NodeSkipped(j, n) /\ n \in W!Node
    BY <1>5, <1>6
  <2> HIDE DEF g
  <2>2. /\ Edit(j, g, n, 0) /\ g.inst = j.inst /\ g.blocked = j.blocked /\ Keeps(j, g)
        /\ g.node[n] = IF W!Cut(j) \/ j.node[n].status \in W!Terminal THEN j.node[n]
                       ELSE [j.node[n] EXCEPT !.status = "skipped"]
    BY <1>0, <1>6, <2>1, SkippedIs, SkippedTrue
  <2>3. AtOrNone(j, n, 0) /\ j.node[n] \in NodeRec
    BY <1>0, <2>1, Fields DEF AtOrNone
  <2>4. g.node[n].eff = j.node[n].eff
    BY <2>2, <2>3 DEF NodeRec
  <2>5. Calm(j, g)
    BY <1>0, <2>2, <2>3, <2>4, EditCalm DEF Calm
  <2>6. \A m, k : IsInst(u, m, k) => IsInst(j, m, k)
    BY <1>3 DEF IsInst
  <2>7. Calm(u, g)
    BY <1>7, <2>5, <2>6, CalmTwice
  <2> QED BY <2>2, <2>7 DEF Keeps, g
<1>9. Calm(u, j') /\ j'.open \subseteq u.open
  <2>1. \A n \in X : f[n] \in Ledger
    BY <1>8
  <2>2. Combines(u, j', X, f)
    BY <1>5, <1>6, <1>7, <2>1, TogetherIs
  <2> QED BY <1>5, <1>6, <1>7, <1>8, <2>2, TogetherCalm DEF Combines
<1>10. Calm(j, j') /\ j'.open \subseteq j.open
  BY <1>3, <1>7, <1>9, CalmChain
<1> QED BY <1>1, <1>10, KeptEvents DEF W!InFlight

-----------------------------------------------------------------------------
(***************************************************************************)
(* The steps of the run, and the counts.                                   *)
(***************************************************************************)

(* A close proof, and a cancellation after it. *)
LEMMA DrainedEvents ==
    ASSUME NEW s \in Ledger, LedgerTrue(s), NEW a \in s.open, NEW byRun \in BOOLEAN,
           NEW t, t = W!Drained(s, a, FALSE), NEW u, u = W!NodeCancelled(t, a[1], a[2], byRun)
    PROVE  /\ Calm(s, t) /\ Calm(s, u)
<1> DEFINE orphan == FALSE
           n == a[1]
           k == a[2]
<1>1. t = W!Drained(s, a, orphan) /\ orphan \in BOOLEAN /\ ~orphan
  OBVIOUS
<1> HIDE DEF orphan
<1>2. a \in Triples /\ IsInst(s, n, k)
  BY OpenFacts
<1>3. Keeps(s, t)
  BY <1>1, DrainedTrue
<1>4. Calm(s, t)
  BY <1>1, <1>2, DrainedCalm DEF Calm
<1>5. t \in Ledger /\ IsInst(t, n, k)
  BY <1>2, <1>3 DEF Keeps, Lasting
<1>6. AtOrNone(t, n, k) /\ u = W!NodeCancelled(t, n, k, byRun)
  BY <1>5 DEF AtOrNone, IsInst
<1> HIDE DEF n, k
<1>7. Calm(t, u)
  BY <1>5, <1>6, CancelledCalm
<1> QED BY <1>3, <1>4, <1>7, CalmChain

(* An attempt is drained for a cancellation. *)
LEMMA DrainForCancelKept ==
    ASSUME FlowInv, Kept, Keeps(j, j'), NEW a \in j.open, W!DrainForCancel(a)
    PROVE  Kept'
<1>1. /\ pc = "drain all" /\ local' = local /\ pc' = pc
      /\ ask' = ask /\ tries' = tries /\ dag' = dag
  BY DEF W!DrainForCancel, W!Ext
<1>2. W!Cut(j) /\ j \in Ledger /\ LedgerTrue(j)
  BY <1>1, Holds DEF FlowInv, Draining, W!Cut
<1>3. Calm(j, j') /\ j'.open \subseteq j.open
  <2> DEFINE orphan == FALSE
             byRun == TRUE
             t == W!Drained(j, a, orphan)
             u == W!NodeCancelled(t, a[1], a[2], byRun)
  <2>1. j' = t \/ j' = u
    BY DEF W!DrainForCancel
  <2>2. orphan \in BOOLEAN /\ byRun \in BOOLEAN /\ orphan = FALSE
    OBVIOUS
  <2>3. t = W!Drained(j, a, orphan) /\ u = W!NodeCancelled(t, a[1], a[2], byRun)
    OBVIOUS
  <2> HIDE DEF orphan, byRun, t, u
  <2>4. t.open = j.open \ {a} /\ u.open = j.open \ {a}
    BY <1>2, <2>2, <2>3, DrainCancelTrue
  <2>5. t = W!Drained(j, a, FALSE)
    BY <2>2, <2>3
  <2>6. Calm(j, t) /\ Calm(j, u)
    BY <1>2, <2>2, <2>3, <2>5, DrainedEvents
  <2> QED BY <2>1, <2>4, <2>6
<1> QED BY <1>1, <1>3, KeptEvents DEF W!InFlight

(* The cancellation is completed. *)
LEMMA FinalizeKept ==
    ASSUME FlowInv, Kept, Keeps(j, j'), W!FinalizeCancellation
    PROVE  Kept'
<1> DEFINE X == {n \in W!Node : W!Status(n) \in {"pending", "gateWaiting", "running"}}
           u == W!CancelledEach(j, X)
<1>1. /\ pc = "drain all" /\ local' = local /\ pc' = "tick" /\ ask' = ask /\ tries' = tries /\ dag' = dag
  BY DEF W!FinalizeCancellation, W!Ext
<1>2. W!Cut(j) /\ j \in Ledger /\ LedgerTrue(j) /\ X \in SUBSET W!Node /\ u = W!CancelledEach(j, X)
  BY <1>1, Holds DEF FlowInv, Draining, W!Cut
<1>3. j' = [u EXCEPT !.run = "cancelled"]
  BY DEF W!FinalizeCancellation
<1> HIDE DEF X, u
<1>4. Calm(j, u) /\ Keeps(j, u) /\ u.open \subseteq j.open
  BY <1>2, CancelledEachCalm, CancelledEachTrue
<1>5. /\ j'.node = u.node /\ j'.inst = u.inst /\ j'.leftRun = u.leftRun /\ j'.blocked = u.blocked /\ j'.open = u.open
  BY <1>3, <1>4 DEF Keeps, Ledger
<1>6. Calm(u, j')
  <2>1. j'.blocked \in W!Node \cup {0, u.blocked}
    BY <1>5
  <2> QED BY <1>5, <2>1, CalmSame
<1>7. Calm(j, j')
  BY <1>4, <1>6, CalmChain
<1> QED BY <1>1, <1>4, <1>5, <1>7, KeptEvents DEF W!InFlight

(* A drain through a fence: an attempt taken from a dead driver is orphaned *)
(* once more.                                                               *)
LEMMA DrainExternalKept ==
    ASSUME FlowInv, Kept, Keeps(j, j'), NEW a \in plan.drain, W!DrainExternal(a)
    PROVE  Kept'
<1>1. /\ pc = "drain" /\ local' = local /\ pc' = pc /\ ask' = ask /\ tries' = tries /\ dag' = dag
      /\ plan' = [plan EXCEPT !.drain = @ \ {a}]
  BY DEF W!DrainExternal, W!Ext
<1>2. /\ j \in Ledger /\ LedgerTrue(j) /\ plan \in PlanRec /\ plan.orphan \in BOOLEAN
      /\ tries.crash \in Nat /\ tries.grant \in Nat
  BY Holds DEF PlanRec
<1>3. plan'.orphan = plan.orphan /\ plan'.drain = plan.drain \ {a}
  BY <1>1, <1>2 DEF PlanRec
<1>4. Held' = Held /\ Dropped' = Dropped \ {a}
  BY <1>1, <1>3 DEF Held, Dropped, W!InFlight
<1>5. CASE a \notin j.open
  <2>1. j' = j
    BY <1>5 DEF W!DrainExternal
  <2>2. j'.blocked \in W!Node \cup {0, j.blocked}
    BY <2>1
  <2>3. Calm(j, j')
    BY <2>1, <2>2, CalmSame
  <2> QED BY <1>1, <1>4, <2>1, <2>3, KeptBy
<1>6. CASE a \in j.open
  <2>0. a \in Triples /\ IsInst(j, a[1], a[2])
    BY <1>2, <1>6, OpenFacts
  <2>1. j' = W!Settled(j, a, "blocked", 0) \/ j' = W!Drained(j, a, plan.orphan)
    BY <1>6 DEF W!DrainExternal
  <2>2. CASE j' = W!Settled(j, a, "blocked", 0)
    <3>1. "blocked" \in W!Settling /\ "blocked" \in W!NodeStatus /\ 0 \in W!Node \cup {0} /\ 0 \in Nat
      BY DEF W!Settling, W!NodeStatus, W!Terminal
    <3>2. j'.open = j.open \ {a}
      BY <1>2, <1>6, <2>2, <3>1, SettledTrue
    <3> DEFINE why == 0
    <3>3. j' = W!Settled(j, a, "blocked", why) /\ why \in Nat /\ why = 0
      BY <2>2
    <3> HIDE DEF why
    <3>4. Calm(j, j')
      BY <1>2, <2>0, <3>1, <3>3, SettledCalm DEF Calm
    <3> QED BY <1>1, <1>4, <3>2, <3>4, KeptBy
  <2>3. CASE j' = W!Drained(j, a, plan.orphan)
    <3>1. j'.open = j.open \ {a}
      BY <1>2, <1>6, <2>3, DrainedTrue
    <3>2. /\ SameAges(j, j') /\ SameWhys(j, j') /\ (~plan.orphan => SameOrphans(j, j'))
          /\ OrphansOf(j', a[1], a[2]) <= OrphansOf(j, a[1], a[2]) + 1
          /\ \A n, k : IsInst(j', n, k) /\ ~(n = a[1] /\ k = a[2]) => OrphansOf(j', n, k) = OrphansOf(j, n, k)
      BY <1>2, <2>0, <2>3, DrainedCalm
    <3>3. CASE ~plan.orphan
      BY <1>1, <1>4, <3>1, <3>2, <3>3, KeptBy DEF Calm
    <3>4. CASE plan.orphan
      <4>1. OrphansIn(j, Held, Dropped, tries.crash) /\ a \in Dropped
        BY <1>1, <3>4 DEF Kept, Dropped
      <4>2. j' \in Ledger /\ LedgerTrue(j') /\ (W!Cut(j) => W!Cut(j'))
        BY DEF Keeps, CutLasts
      <4>3. ASSUME NEW n, NEW k PROVE OrphansOf(j', n, k) <= tries.crash
        <5>1. CASE ~IsInst(j', n, k)
          BY <1>2, <5>1 DEF OrphansOf
        <5>2. CASE IsInst(j', n, k) /\ ~(n = a[1] /\ k = a[2])
          BY <3>2, <4>1, <5>2 DEF OrphansIn
        <5>3. CASE IsInst(j', n, k) /\ n = a[1] /\ k = a[2]
          <6>1. OrphansOf(j, a[1], a[2]) + 1 <= tries.crash
            BY <1>6, <4>1 DEF OrphansIn
          <6>2. OrphansOf(j, a[1], a[2]) \in Nat /\ OrphansOf(j', a[1], a[2]) \in Nat
            BY <1>2, <2>0, <4>2, <5>3, Fields DEF OrphansOf, InstRec
          <6> QED BY ONLY <1>2, <3>2, <5>3, <6>1, <6>2
        <5> QED BY <5>1, <5>2, <5>3
      <4>4. ASSUME NEW b \in j'.open, b \in Dropped \ {a} \/ (~W!Cut(j') /\ b \notin Held)
            PROVE  OrphansOf(j', b[1], b[2]) + 1 <= tries.crash
        <5>1. IsInst(j', b[1], b[2]) /\ b \in j.open /\ b # a
          BY <3>1, <4>2 DEF LedgerTrue, OpenTrue
        <5>2. b[1] # a[1]
          BY <1>2, <1>6, <5>1 DEF LedgerTrue
        <5>3. OrphansOf(j', b[1], b[2]) = OrphansOf(j, b[1], b[2])
          BY <3>2, <5>1, <5>2
        <5> QED BY <4>1, <4>2, <4>4, <5>1, <5>3 DEF OrphansIn
      <4>5. OrphansIn(j', Held', Dropped', tries'.crash)
        BY <1>1, <1>4, <4>3, <4>4 DEF OrphansIn
      <4>6. CountsIn(j', ask'.todo, tries'.grant)
        <5>1. CountsIn(j, ask.todo, tries.grant)
          BY DEF Kept
        <5> QED BY <1>1, <1>2, <3>2, <4>2, <5>1, CountsStay
      <4> QED BY <1>1, <4>5, <4>6, KeptAfter DEF Kept
    <3> QED BY <3>3, <3>4
  <2> QED BY <2>1, <2>2, <2>3
<1> QED BY <1>5, <1>6

(* A node is dispatched to a worker, or held at its gate. *)
LEMMA ActDispatchKept ==
    ASSUME FlowInv, Kept, Keeps(j, j'), W!ActDispatch
    PROVE  Kept'
<1> DEFINE n == W!First(plan.dispatch)
           k == W!InstanceFor(n)
           m == W!NextAttempt(n, k)
           X == plan.dispatch \ {n}
           q == <<n, k>>
           a == <<n, k, m>>
<1>1. /\ pc = "act" /\ plan.dispatch # {} /\ local' = local /\ ask' = ask /\ tries' = tries /\ dag' = dag
  BY DEF W!ActDispatch
<1>2. \/ j' = j /\ pc' = pc
      \/ /\ j.run = "running" /\ j.node[n].status = "pending" /\ j' = W!GateDispatched(j, n, k)
         /\ pc' = "wait file"
      \/ /\ j.run = "running" /\ j.node[n].status = "pending" /\ j' = W!NodeDispatched(j, n, k, m)
         /\ plan' = Claimed(plan, X, a) /\ pc' = "spawn"
  BY DEF W!ActDispatch, W!Status, Claimed
<1>3. n \in W!Node
  <2>1. plan.dispatch \in SUBSET W!Node
    BY Holds DEF PlanRec
  <2> QED BY <1>1, <2>1, FirstIs
<1>4. k = InstFor(j, n) /\ m = W!NextAttempt(n, k) /\ a = <<n, k, m>>
  BY DEF W!InstanceFor, InstFor
<1>5. /\ j \in Ledger /\ LedgerTrue(j) /\ plan \in PlanRec /\ W!Obsolete = {}
      /\ tries.crash \in Nat /\ tries.grant \in Nat /\ (j.run = "running" => ~W!Cut(j))
      /\ X \in SUBSET W!Node
  <2>1. plan.dispatch \in SUBSET W!Node
    BY Holds DEF PlanRec
  <2> QED BY <1>1, <2>1, Holds DEF FlowInv, Acting, Acts, W!Cut
<1> HIDE DEF n, k, m, X, q, a
<1>6. CASE j' = j /\ pc' = pc
  BY <1>1, <1>6, KeptAlone DEF W!InFlight
<1>7. CASE /\ j.run = "running" /\ j.node[n].status = "pending" /\ j' = W!GateDispatched(j, n, k)
           /\ pc' = "wait file"
  <2>1. j'.open = j.open
    <3>1. /\ k = InstFor(j, n) /\ ~W!Cut(j) /\ j.node[n].status = "pending" /\ j' = W!GateDispatched(j, n, k)
          /\ j \in Ledger /\ LedgerTrue(j)
      BY <1>4, <1>5, <1>7
    <3> QED BY ONLY <3>1, <1>3, GatedTrue
  <2>2. CASE <<n, k>> \in j.resolved
    <3>1. j' = j
      BY <1>7, <2>2 DEF W!GateDispatched
    <3> QED BY <1>1, <1>7, <3>1, KeptAlone DEF W!InFlight
  <2>3. CASE <<n, k>> \notin j.resolved
    <3> DEFINE one == 1
    <3>1. one \in Nat /\ (j' = W!NodeDispatched(j, n, k, one) \/ (j' = W!GateDispatched(j, n, k) /\ <<n, k>> \notin j.resolved))
      BY <1>7, <2>3
    <3> HIDE DEF one
    <3>2. Calm(j, j')
      BY ONLY <1>3, <1>4, <1>5, <3>1, DispatchedCalm
    <3>3. ask'.todo \subseteq ask.todo /\ j'.open \subseteq j.open /\ W!InFlight \cap j'.open \subseteq DOMAIN local'
      BY <1>1, <2>1 DEF W!InFlight
    <3> QED BY <1>1, <1>7, <3>2, <3>3, KeptEvents
  <2> QED BY <2>2, <2>3
<1>8. CASE /\ j.run = "running" /\ j.node[n].status = "pending" /\ j' = W!NodeDispatched(j, n, k, m)
           /\ plan' = Claimed(plan, X, a) /\ pc' = "spawn"
  <2>1. /\ m \in Nat /\ m # 0 /\ k \in Nat
        /\ k > Len(j.inst[n]) \/ m > j.inst[n][k].max \/ (m = j.inst[n][k].max /\ j.inst[n][k].res)
    BY <1>3, <1>4, NextAttemptIs
  <2>2. \A b \in j.open : b[1] # n
    BY <1>3, <1>5, <1>8, NoneOpen
  <2>3. j'.open = j.open \cup {a} /\ j'.run = j.run
    BY <1>3, <1>4, <1>5, <1>8, <2>1, <2>2, DispatchKeeps
  <2>4. Calm(j, j')
    BY <1>3, <1>4, <1>5, <1>8, <2>1, DispatchedCalm
  <2>5. plan'.at = a
    <3>1. n \in Nat
      BY <1>3 DEF W!Node
    <3>2. a \in Seq(Nat)
      BY <1>4, <2>1, <3>1
    <3> QED BY <1>5, <1>8, <3>2, ClaimedIs
  <2>6. Held = W!InFlight /\ Held' = W!InFlight \cup {a} /\ Dropped' = {}
    BY <1>1, <1>8, <2>5 DEF Held, Dropped, W!InFlight
  <2>7. /\ SameAges(j, j') /\ SameWhys(j, j') /\ SameOrphans(j, j') /\ j' \in Ledger /\ LedgerTrue(j')
        /\ CountsIn(j, ask.todo, tries.grant) /\ OrphansIn(j, Held, Dropped, tries.crash)
    BY <2>4 DEF Calm, Keeps, Kept
  <2>8. CountsIn(j', ask'.todo, tries'.grant)
    BY <1>1, <1>5, <2>7, CountsStay
  <2>9. OrphansIn(j', Held', Dropped', tries'.crash)
    <3>1. ASSUME NEW x, NEW y PROVE OrphansOf(j', x, y) <= tries.crash
      <4>1. CASE IsInst(j', x, y)
        BY <2>7, <4>1 DEF SameOrphans, OrphansIn
      <4>2. CASE ~IsInst(j', x, y)
        BY <1>5, <4>2 DEF OrphansOf
      <4> QED BY <4>1, <4>2
    <3>2. ASSUME NEW b \in j'.open, ~W!Cut(j') /\ b \notin W!InFlight \cup {a}
          PROVE  OrphansOf(j', b[1], b[2]) + 1 <= tries.crash
      <4>1. b \in j.open /\ ~W!Cut(j) /\ b \notin Held
        BY <1>5, <1>8, <2>3, <2>6, <3>2
      <4>2. IsInst(j', b[1], b[2])
        BY <2>7 DEF LedgerTrue, OpenTrue
      <4>3. OrphansOf(j', b[1], b[2]) = OrphansOf(j, b[1], b[2])
        BY <2>7, <4>2 DEF SameOrphans
      <4> QED BY <2>7, <4>1, <4>3 DEF OrphansIn
    <3> QED BY <1>1, <2>6, <3>1, <3>2 DEF OrphansIn
  <2> QED BY <1>1, <2>8, <2>9, KeptAfter DEF Kept
<1> QED BY <1>2, <1>6, <1>7, <1>8

(* The worker is forked, or the run is cut. *)
LEMMA SpawnKept ==
    ASSUME FlowInv, Kept, W!Spawn
    PROVE  Kept'
<1>1. /\ pc = "spawn" /\ j' = j /\ pc' = "act" /\ ask' = ask /\ tries' = tries /\ dag' = dag
      /\ j \in Ledger /\ LedgerTrue(j) /\ tries.crash \in Nat /\ tries.grant \in Nat
  BY Holds DEF W!Spawn
<1>2. Held = W!InFlight \cup {plan.at} /\ Held' = DOMAIN local' /\ Dropped' = {}
  BY <1>1 DEF Held, Dropped, W!InFlight
<1>3. W!Cut(j) \/ DOMAIN local' = W!InFlight \cup {plan.at}
  <2>1. j.run = "running" \/ W!Cut(j)
    BY <1>1 DEF FlowInv, Ending, Acts
  <2>2. CASE j.run = "running"
    BY <2>2 DEF W!Spawn
  <2> QED BY <2>1, <2>2
<1>4. OrphansIn(j', Held', Dropped', tries'.crash)
  <2>1. OrphansIn(j, Held, Dropped, tries.crash)
    BY DEF Kept
  <2> QED BY <1>1, <1>2, <1>3, <2>1 DEF OrphansIn
<1> QED BY <1>1, <1>4, KeptAfter DEF Kept

(* The fence of a claimed attempt cannot be written. *)
LEMMA ArmFailsKept ==
    ASSUME FlowInv, Kept, Keeps(j, j'), W!ArmFails
    PROVE  Kept'
<1> DEFINE a == plan.at
           why == 0
<1>1. /\ pc = "spawn" /\ j' = W!Settled(j, a, "failed", why) /\ pc' = "act" /\ local' = local
      /\ ask' = ask /\ tries' = tries /\ dag' = dag
  BY DEF W!ArmFails, W!Ext
<1>2. a \in j.open /\ a \notin W!InFlight /\ j \in Ledger /\ LedgerTrue(j)
  BY <1>1, Holds DEF FlowInv, Acting
<1>3. "failed" \in W!Settling /\ "failed" \in W!NodeStatus /\ why \in W!Node \cup {0} /\ why \in Nat /\ why = 0
  BY DEF W!Settling, W!NodeStatus, W!Terminal
<1> HIDE DEF why, a
<1>4. j'.open = j.open \ {a}
  BY <1>1, <1>2, <1>3, SettledTrue
<1>5. Calm(j, j')
  <2>1. a \in Triples /\ IsInst(j, a[1], a[2])
    BY <1>2, OpenFacts
  <2> QED BY <1>1, <1>2, <1>3, <2>1, SettledCalm DEF Calm
<1>6. /\ ask'.todo \subseteq ask.todo /\ j'.open \subseteq j.open /\ W!InFlight \cap j'.open \subseteq DOMAIN local'
      /\ plan.at \notin j'.open
  BY <1>1, <1>4 DEF W!InFlight, a
<1> QED BY <1>1, <1>5, <1>6, KeptEvents

(* A loser of an early release is cancelled. *)
LEMMA ActLoserKept ==
    ASSUME FlowInv, Kept, Keeps(j, j'), W!ActLoser
    PROVE  Kept'
<1> DEFINE c == W!First(plan.losers)
           live == W!Status(c) \in {"pending", "gateWaiting", "running"}
           k == j.node[c].eff
           byRun == FALSE
           u == W!NodeCancelled(j, c, k, byRun)
           X == {a \in W!InFlight : a[1] = c /\ a[2] = j.node[c].eff}
<1>1. /\ pc = "act" /\ plan.losers # {} /\ pc' = pc /\ dag' = dag /\ ask' = ask /\ tries' = tries
      /\ j' = IF live THEN u ELSE j
      /\ local' = IF live THEN W!Aborted(X, "drain") ELSE local
  BY DEF W!ActLoser, W!Ext
<1>2. c \in W!Node
  <2>1. plan.losers \in SUBSET W!Node
    BY Holds DEF PlanRec
  <2> QED BY <1>1, <2>1, FirstIs
<1>3. AtOrNone(j, c, k) /\ j \in Ledger /\ LedgerTrue(j)
  BY <1>2, Holds, Effective
<1>4. u = W!NodeCancelled(j, c, k, byRun) /\ byRun \in BOOLEAN /\ (byRun => W!Cut(j)) /\ (k = 0 => j.node[c].eff = 0)
  OBVIOUS
<1> HIDE DEF byRun, k, c, u, X, live
<1>5. Calm(j, u) /\ u.open \subseteq j.open
  BY <1>3, <1>4, CancelledTrue, CancelledCalm
<1>6. DOMAIN local' = W!InFlight
  <2>1. "drain" \in {"run", "drain"} /\ DOMAIN local = W!InFlight
    BY DEF W!InFlight
  <2> QED BY <1>1, <2>1, Holds, AbortedIs
<1>7. Calm(j, j') /\ j'.open \subseteq j.open
  <2>1. Calm(j, j)
    <3>1. j.blocked \in W!Node \cup {0, j.blocked}
      OBVIOUS
    <3> QED BY <3>1, CalmSame
  <2> QED BY <1>1, <1>5, <2>1
<1> QED BY <1>1, <1>6, <1>7, KeptEvents

(* The terminal event of the run. *)
LEMMA AppendTerminalKept ==
    ASSUME FlowInv, Kept, Keeps(j, j'), W!AppendTerminal
    PROVE  Kept'
<1> DEFINE r == W!RunTerminal[1]
           b == W!RunTerminal[2]
<1>1. /\ pc = "append" /\ pc' = "tick" /\ local' = local
      /\ j' = j \/ (W!RunTerminal # <<>> /\ j' = [j EXCEPT !.run = r, !.blocked = b])
      /\ ask' = ask /\ tries' = tries /\ dag' = dag
  BY DEF W!AppendTerminal, W!Ext
<1>2. j \in Ledger
  BY Holds
<1>3. W!RunTerminal # <<>> => b \in W!Node \cup {0}
  <2>1. CASE W!RunTerminal # <<>> /\ W!RunTerminal[1] = "blocked"
    BY <2>1, RunTerminalIs
  <2>2. CASE W!RunTerminal # <<>> /\ W!RunTerminal[1] # "blocked"
    <3> DEFINE B == W!First(W!Worst("blocked"))
               v == IF \E n \in W!Sinks : W!Status(n) = "done" THEN "succeeded" ELSE "failed"
    <3>1. W!RunTerminal \in {<<"failed", 0>>, <<"blocked", B>>, <<v, 0>>, <<>>}
      BY DEF W!RunTerminal
    <3> HIDE DEF B, v
    <3> QED BY <2>2, <3>1
  <2> QED BY <2>1, <2>2
<1> HIDE DEF r, b
<1>4. j'.node = j.node /\ j'.inst = j.inst /\ j'.open = j.open /\ j'.leftRun = j.leftRun /\ j'.blocked \in W!Node \cup {0, j.blocked}
  BY <1>1, <1>2, <1>3 DEF Ledger
<1>5. Calm(j, j')
  BY <1>4, CalmSame
<1> QED BY <1>1, <1>4, <1>5, KeptEvents DEF W!InFlight

(* A worker ends without a manifest. *)
LEMMA WorkerDrainedKept ==
    ASSUME FlowInv, Kept, Keeps(j, j'), NEW a \in W!InFlight, W!WorkerDrained(a)
    PROVE  Kept'
<1> DEFINE byRun == TRUE
           t == W!Drained(j, a, FALSE)
           u == W!NodeCancelled(t, a[1], a[2], byRun)
<1>1. /\ W!Free /\ W!Forget(a) /\ W!Wake /\ plan' = plan /\ ask' = ask /\ tries' = tries /\ dag' = dag
  BY DEF W!WorkerDrained
<1>2. a \in j.open /\ j \in Ledger /\ LedgerTrue(j)
  BY Holds
<1>3. j' = t \/ (j.run = "cancelling" /\ j' = u)
  BY <1>2 DEF W!WorkerDrained
<1>4. byRun \in BOOLEAN /\ t = W!Drained(j, a, FALSE) /\ u = W!NodeCancelled(t, a[1], a[2], byRun)
  OBVIOUS
<1> HIDE DEF byRun, t, u
<1>5. Calm(j, t) /\ Calm(j, u)
  BY <1>2, <1>4, DrainedEvents
<1>6. j'.open = j.open \ {a}
  <2> DEFINE orphan == FALSE
  <2>1. orphan \in BOOLEAN /\ t = W!Drained(j, a, orphan)
    BY <1>4
  <2> HIDE DEF orphan
  <2>2. t.open = j.open \ {a}
    BY <1>2, <2>1, DrainedTrue
  <2>3. ASSUME j.run = "cancelling" PROVE u.open = j.open \ {a}
    <3>1. W!Cut(j)
      BY <2>3 DEF W!Cut
    <3>2. t = W!Drained(j, a, orphan) /\ u = W!NodeCancelled(t, a[1], a[2], byRun)
      BY <1>4, <2>1
    <3>3. a \in j.open /\ j \in Ledger /\ LedgerTrue(j) /\ orphan \in BOOLEAN /\ byRun \in BOOLEAN
      BY <1>2, <1>4, <2>1
    <3>4. t.open = j.open \ {a} /\ u.open = j.open \ {a}
      BY ONLY <3>1, <3>2, <3>3, DrainCancelTrue
    <3> QED BY <3>4
  <2> QED BY <1>3, <2>2, <2>3
<1>7. /\ pc # "spawn" /\ (pc' = "drain" => pc = "drain") /\ DOMAIN local' = W!InFlight \ {a}
  BY <1>1 DEF W!Free, W!Forget, W!Wake
<1> QED BY <1>1, <1>3, <1>5, <1>6, <1>7, KeptEvents

(* A verdict reaches the journal, with the ancestor a worker without budget *)
(* would have sent the run back to.                                         *)
LEMMA WorkerSettlesKept ==
    ASSUME FlowInv, Kept, Keeps(j, j'), NEW a \in W!InFlight, W!WorkerSettles(a)
    PROVE  Kept'
<1>1. /\ W!Free /\ W!Forget(a) /\ W!Wake /\ plan' = plan /\ ask' = ask /\ tries' = tries /\ dag' = dag
  BY DEF W!WorkerSettles
<1>2. /\ a \in j.open /\ j \in Ledger /\ LedgerTrue(j) /\ a \in Triples /\ IsInst(j, a[1], a[2]) /\ a[1] \in W!Node
      /\ tries.grant \in Nat /\ tries.crash \in Nat
  BY Holds, OpenFacts DEF IsInst
<1>3. PICK st \in W!Settling, why \in W!Node \cup {0} :
         j' = W!Settled(j, a, st, why) /\ (why # 0 => why \in W!RevisitTo[a[1]])
  <2>1. "done" \in W!Settling /\ "blocked" \in W!Settling /\ "failed" \in W!Settling
    BY DEF W!Settling
  <2>2. W!RevisitTo[a[1]] \subseteq W!Node
    BY <1>2, Holds, DagFacts
  <2>3. CASE \E v \in {<<"ok", "done">>, <<"block", "blocked">>, <<"fail", "failed">>} : j' = W!Settled(j, a, v[2], 0)
    BY <2>1, <2>3
  <2>4. CASE \E t \in W!RevisitTo[a[1]] : j' = W!Settled(j, a, "blocked", t)
    BY <2>1, <2>2, <2>4
  <2> QED BY <2>3, <2>4 DEF W!WorkerSettles
<1>4. j'.open = j.open \ {a}
  BY <1>2, <1>3, SettledTrue
<1>5. st \in W!NodeStatus /\ why \in Nat
  BY DEF W!Settling, W!NodeStatus, W!Terminal, W!Node
<1>6. /\ SameAges(j, j') /\ SameOrphans(j, j') /\ IsInst(j', a[1], a[2])
      /\ WhyOf(j', a[1], a[2]) \in {why, WhyOf(j, a[1], a[2])}
      /\ \A n, k : IsInst(j', n, k) /\ ~(n = a[1] /\ k = a[2]) => WhyOf(j', n, k) = WhyOf(j, n, k)
  BY <1>2, <1>3, <1>5, SettledCalm
<1>7. CountsIn(j, ask.todo, tries.grant) /\ OrphansIn(j, Held, Dropped, tries.crash)
  BY DEF Kept
<1>8. CountsIn(j', ask'.todo, tries'.grant)
  <2>1. ASSUME NEW n \in W!Node PROVE Age(j', n) + Asks(ask'.todo, n) + j'.leftRun <= 1 + RunBudget + tries'.grant
    BY <1>1, <1>6, <1>7 DEF SameAges, CountsIn
  <2>2. ASSUME NEW n, NEW k, WhyOf(j', n, k) # 0 PROVE <<n, WhyOf(j', n, k)>> \in W!Pair
    <3>1. IsInst(j', n, k)
      BY <2>2 DEF WhyOf
    <3>2. CASE WhyOf(j', n, k) = WhyOf(j, n, k)
      BY <1>7, <2>2, <3>2 DEF CountsIn
    <3>3. CASE WhyOf(j', n, k) = why /\ n = a[1]
      BY <1>2, <1>3, <2>2, <3>3 DEF W!Pair
    <3> QED BY <1>6, <3>1, <3>2, <3>3
  <2>3. (W!Pair = {} => tries'.grant = 0 /\ j'.leftRun = RunBudget) /\ j'.blocked \in W!Node \cup {0}
    BY <1>1, <1>6, <1>7 DEF SameAges, CountsIn
  <2> QED BY <2>1, <2>2, <2>3 DEF CountsIn
<1>9. OrphansIn(j', Held', Dropped', tries'.crash)
  <2>1. /\ Held = W!InFlight /\ (pc' = "drain" => pc = "drain") /\ DOMAIN local' = W!InFlight \ {a}
        /\ W!InFlight \ {a} \subseteq Held'
    BY <1>1 DEF W!Free, W!Forget, W!Wake, Held, W!InFlight
  <2>2. j'.open \subseteq j.open /\ Held \cap j'.open \subseteq Held' /\ Dropped' \subseteq Dropped
    BY <1>1, <1>4, <2>1 DEF Dropped
  <2> QED BY <1>1, <1>2, <1>6, <1>7, <2>2, OrphansStay
<1> QED BY <1>1, <1>8, <1>9, KeptAfter DEF Kept

(* The attempt that asked for a revisit is closed. *)
LEMMA RevisitEndsKept ==
    ASSUME FlowInv, Kept, Keeps(j, j'), W!RevisitEnds
    PROVE  Kept'
<1> DEFINE a == ask.by
           byRun == TRUE
           t == W!Drained(j, a, FALSE)
           u == W!NodeCancelled(t, a[1], a[2], byRun)
           orphan == FALSE
<1>1. /\ ask # W!NoAsk /\ W!Forget(a) /\ W!Wake /\ plan' = plan /\ ask' = W!NoAsk /\ tries' = tries /\ dag' = dag
  BY DEF W!RevisitEnds
<1>2. a \in W!InFlight /\ pc \notin Acts \cup {"append", "down"}
  BY <1>1 DEF FlowInv, Busy, W!Thread
<1>3. a \in j.open /\ j \in Ledger /\ LedgerTrue(j)
  BY <1>2, Holds
<1>4. /\ j' = W!Drained(j, a, FALSE) /\ j' = W!Drained(j, a, orphan) /\ orphan \in BOOLEAN /\ byRun \in BOOLEAN
      /\ j' = t /\ t = W!Drained(j, a, FALSE) /\ u = W!NodeCancelled(t, a[1], a[2], byRun)
  BY <1>3 DEF W!RevisitEnds
<1> HIDE DEF orphan, byRun, t, u, a
<1>5. j'.open = j.open \ {a}
  BY <1>3, <1>4, DrainedTrue
<1>6. Calm(j, j')
  BY <1>3, <1>4, DrainedEvents
<1>7. pc # "spawn" /\ (pc' = "drain" => pc = "drain") /\ DOMAIN local' = W!InFlight \ {a} /\ ask'.todo \subseteq ask.todo
  BY <1>1, <1>2 DEF W!Forget, W!Wake, W!NoAsk, Acts
<1> QED BY <1>1, <1>5, <1>6, <1>7, KeptEvents

(* A revisit takes one from the budget of the run for all the nodes it      *)
(* supersedes.                                                              *)
LEMMA RevisitRequestedKept ==
    ASSUME FlowInv, Kept, Keeps(j, j'), NEW a \in W!InFlight, NEW t \in W!RevisitTo[a[1]], W!RevisitRequested(a, t)
    PROVE  Kept'
<1> DEFINE p == <<a[1], t>>
           less == [j.left EXCEPT ![p] = @ - 1]
           one == j.leftRun - 1
<1>1. /\ W!Free /\ ~W!Exhausted(p) /\ j' = [j EXCEPT !.left = less, !.leftRun = one]
      /\ local' = local /\ pc' = pc /\ plan' = plan /\ tries' = tries /\ dag' = dag
  <2>1. j \in Ledger
    BY Holds
  <2> QED BY <2>1 DEF W!RevisitRequested, Ledger
<1>2. /\ a \in j.open /\ j \in Ledger /\ LedgerTrue(j) /\ a[1] \in W!Node /\ tries.grant \in Nat /\ tries.crash \in Nat
  BY Holds, OpenFacts DEF IsInst
<1>3. j.leftRun \in Nat /\ j.leftRun # 0 /\ p \in W!Pair /\ RunBudget \in Nat
  <2>1. t \in W!Node
    BY <1>2, Holds, DagFacts
  <2>2. j.leftRun \in Nat /\ j.leftRun # 0
    BY <1>1, <1>2 DEF Ledger, W!Exhausted
  <2>3. RunBudget \in Nat
    BY PartsAssumption DEF W!WorkflowAssumption
  <2> QED BY <1>2, <2>1, <2>2, <2>3 DEF W!Pair
<1> HIDE DEF less
<1>4. /\ j'.node = j.node /\ j'.inst = j.inst /\ j'.open = j.open /\ j'.blocked = j.blocked /\ j'.leftRun = one
  BY <1>1, <1>2 DEF Ledger
<1>5. CountsIn(j, ask.todo, tries.grant) /\ OrphansIn(j, Held, Dropped, tries.crash)
  BY DEF Kept
<1>6. CountsIn(j', ask'.todo, tries'.grant)
  <2>1. ASSUME NEW n \in W!Node PROVE Age(j', n) + Asks(ask'.todo, n) + j'.leftRun <= 1 + RunBudget + tries'.grant
    <3>1. Asks(ask.todo, n) = 0
      BY <1>1 DEF W!Free, W!Thread, W!NoAsk, Asks
    <3>2. Asks(ask'.todo, n) \in {0, 1}
      BY DEF Asks
    <3>3. Age(j', n) = Age(j, n) /\ Age(j, n) \in {Len(j.inst[n]) + 1, Len(j.inst[n]) + 0} /\ Len(j.inst[n]) \in Nat
      BY <1>2, <1>4, Fields DEF Age
    <3>4. Age(j, n) + Asks(ask.todo, n) + j.leftRun <= 1 + RunBudget + tries.grant
      BY <1>5 DEF CountsIn
    <3>5. j'.leftRun = j.leftRun - 1 /\ tries'.grant = tries.grant /\ j.leftRun \in Nat /\ RunBudget \in Nat /\ tries.grant \in Nat
      BY <1>1, <1>2, <1>3, <1>4
    <3>6. Age(j, n) \in Nat
      BY ONLY <3>3
    <3> QED BY ONLY <3>1, <3>2, <3>3, <3>4, <3>5, <3>6
  <2>2. \A n, k : WhyOf(j', n, k) = WhyOf(j, n, k)
    BY <1>4 DEF WhyOf, IsInst
  <2> QED BY <1>3, <1>4, <1>5, <2>1, <2>2 DEF CountsIn
<1>7. OrphansIn(j', Held', Dropped', tries'.crash)
  <2>1. SameOrphans(j, j') /\ j'.open \subseteq j.open
    BY <1>4 DEF SameOrphans, OrphansOf, IsInst
  <2>2. Held \cap j'.open \subseteq Held' /\ Dropped' \subseteq Dropped
    BY <1>1 DEF Held, Dropped, W!InFlight
  <2> QED BY <1>1, <1>2, <1>5, <2>1, <2>2, OrphansStay
<1> QED BY <1>1, <1>6, <1>7, KeptAfter DEF Kept

(* Each of them ages when it is superseded. *)
LEMMA RevisitSupersedesKept ==
    ASSUME FlowInv, Kept, Keeps(j, j'), W!RevisitSupersedes
    PROVE  Kept'
<1> DEFINE g == CHOOSE x \in ask.todo : \A y \in ask.todo : x[1] <= y[1]
           n == g[1]
           k == g[2]
           X == {a \in W!InFlight : <<a[1], a[2]>> = g}
<1>1. /\ ask # W!NoAsk /\ ask.todo # {} /\ j' = W!Superseded(j, n, k) /\ local' = W!Aborted(X, "drain")
      /\ ask' = [ask EXCEPT !.todo = @ \ {g}]
      /\ pc' = pc /\ plan' = plan /\ tries' = tries /\ dag' = dag
  BY DEF W!RevisitSupersedes
<1>2. /\ j \in Ledger /\ LedgerTrue(j) /\ ask \in AskRec /\ ask.todo \subseteq W!Node \X Nat
      /\ tries.grant \in Nat /\ tries.crash \in Nat
  BY Holds DEF AskRec
<1>3. g \in ask.todo
  <2> DEFINE firsts == {y[1] : y \in ask.todo}
  <2>1. firsts \in SUBSET Nat /\ firsts # {}
    BY <1>1, <1>2 DEF W!Node
  <2>2. \E m \in firsts : \A y \in firsts : m <= y
    <3> HIDE DEF firsts
    <3> QED BY <2>1, Least
  <2>3. \E x \in ask.todo : \A y \in ask.todo : x[1] <= y[1]
    BY <2>2
  <2> QED BY <2>3
<1>4. /\ n \in W!Node /\ k # 0 /\ k = j.node[n].eff /\ g = <<n, k>>
      /\ \A y \in ask.todo : y[2] # 0 /\ y[2] = j.node[y[1]].eff /\ y = <<y[1], y[2]>> /\ y[1] \in W!Node
  <2>1. \A y \in ask.todo : y[2] # 0 /\ j.node[y[1]].eff = y[2]
    BY <1>1 DEF FlowInv, Busy
  <2>2. \A y \in ask.todo : y = <<y[1], y[2]>> /\ y[1] \in W!Node
    BY <1>2
  <2> HIDE DEF g
  <2> QED BY <1>3, <2>1, <2>2
<1> HIDE DEF g, n, k, X
<1>5. ask'.todo = ask.todo \ {g} /\ DOMAIN local' = W!InFlight
  <2>1. "drain" \in {"run", "drain"}
    OBVIOUS
  <2> QED BY <1>1, <1>2, <2>1, Holds, AbortedIs DEF AskRec
<1>6. Held' = Held /\ Dropped' = Dropped
  BY <1>1, <1>5 DEF Held, Dropped, W!InFlight
<1>7. CASE W!Cut(j)
  <2>1. j' = j /\ j'.blocked \in W!Node \cup {0, j.blocked}
    BY <1>1, <1>7 DEF W!Superseded
  <2>2. Calm(j, j')
    BY <2>1, CalmSame
  <2> QED BY <1>1, <1>5, <1>6, <2>1, <2>2, KeptBy
<1>8. CASE ~W!Cut(j)
  <2>1. IsInst(j, n, k) /\ AtOrNext(j, n, k) /\ Len(j.inst[n]) \in Nat
    <3>1. IsInst(j, n, k) /\ Len(j.inst[n]) \in Nat
      BY <1>2, <1>4, Effective
    <3> QED BY <3>1 DEF IsInst, AtOrNext
  <2>2. /\ Edit(j, j', n, k) /\ j'.open = j.open
        /\ j'.node[n] = (IF j.node[n].eff = k THEN W!NoNode ELSE j.node[n])
        /\ j'.inst[n][k] = [j.inst[n][k] EXCEPT !.st = "superseded"]
    BY <1>1, <1>2, <1>8, <2>1, SupersededIs
  <2>3. j'.blocked \in {0, j.blocked}
    <3> DEFINE insts == [j.inst EXCEPT ![n][k].st = "superseded"]
               nodes == [j.node EXCEPT ![n] = IF @.eff = k THEN W!NoNode ELSE @]
               hit == j.run = "blocked" /\ j.blocked = n
               r == IF hit THEN "running" ELSE j.run
               b == IF hit THEN 0 ELSE j.blocked
    <3>1. j' = [j EXCEPT !.inst = insts, !.node = nodes, !.run = r, !.blocked = b]
      BY <1>1, <1>2, <1>8 DEF W!Superseded, Ledger
    <3>2. b \in {0, j.blocked}
      OBVIOUS
    <3> HIDE DEF insts, nodes, r, b
    <3> QED BY <1>2, <3>1, <3>2 DEF Ledger
  <2>4. /\ j'.node[n].eff = 0 /\ j'.inst[n][k].why = j.inst[n][k].why /\ j'.inst[n][k].orphans = j.inst[n][k].orphans
        /\ Len(j'.inst[n]) = Len(j.inst[n]) /\ IsInst(j', n, k)
    <3>1. j.inst[n][k] \in InstRec
      BY <1>2, <2>1, Fields
    <3>2. Len(j'.inst[n]) = Len(j.inst[n])
      BY <2>1, <2>2 DEF Edit, IsInst
    <3> QED BY <1>4, <2>1, <2>2, <3>1, <3>2 DEF W!NoNode, InstRec, IsInst
  <2>5. SameWhys(j, j') /\ SameOrphans(j, j')
    <3>1. WhyOf(j', n, k) = WhyOf(j, n, k) /\ OrphansOf(j', n, k) = OrphansOf(j, n, k)
      BY <2>1, <2>4 DEF WhyOf, OrphansOf
    <3> QED BY <1>2, <1>4, <2>1, <2>2, <3>1, EditMarks
  <2>6. CountsIn(j, ask.todo, tries.grant) /\ OrphansIn(j, Held, Dropped, tries.crash) /\ j'.leftRun = j.leftRun
    BY <2>2 DEF Kept, Edit
  <2>7. ASSUME NEW m \in W!Node PROVE Age(j', m) + Asks(ask'.todo, m) = Age(j, m) + Asks(ask.todo, m)
    <3>1. CASE m = n
      <4>1. Asks(ask.todo, m) = 1
        BY <1>3, <1>4, <3>1 DEF Asks
      <4>2. Asks(ask'.todo, m) = 0
        BY <1>4, <1>5, <3>1 DEF Asks
      <4>3. Age(j', m) = Len(j.inst[n]) + 1 /\ Age(j, m) = Len(j.inst[n]) + 0
        BY <1>4, <2>4, <3>1 DEF Age
      <4> QED BY <2>1, <4>1, <4>2, <4>3
    <3>2. CASE m # n
      <4>1. Age(j', m) = Age(j, m)
        BY <2>2, <3>2 DEF Edit, Age
      <4>2. Asks(ask'.todo, m) = Asks(ask.todo, m)
        BY <1>4, <1>5, <3>2 DEF Asks
      <4> QED BY <4>1, <4>2
    <3> QED BY <3>1, <3>2
  <2>8. CountsIn(j', ask'.todo, tries'.grant)
    <3>1. ASSUME NEW m \in W!Node PROVE Age(j', m) + Asks(ask'.todo, m) + j'.leftRun <= 1 + RunBudget + tries'.grant
      BY <1>1, <2>6, <2>7 DEF CountsIn
    <3>2. ASSUME NEW x, NEW y, WhyOf(j', x, y) # 0 PROVE <<x, WhyOf(j', x, y)>> \in W!Pair
      <4>1. IsInst(j', x, y)
        BY <3>2 DEF WhyOf
      <4>2. WhyOf(j', x, y) = WhyOf(j, x, y)
        BY <2>5, <3>2, <4>1 DEF SameWhys
      <4> QED BY <2>6, <3>2, <4>2 DEF CountsIn
    <3> QED BY <1>1, <2>3, <2>6, <3>1, <3>2 DEF CountsIn
  <2>9. OrphansIn(j', Held', Dropped', tries'.crash)
    <3>1. j'.open \subseteq j.open /\ Held \cap j'.open \subseteq Held' /\ Dropped' \subseteq Dropped
      BY <1>6, <2>2
    <3> QED BY <1>1, <1>2, <2>5, <2>6, <3>1, OrphansStay
  <2> QED BY <1>1, <2>8, <2>9, KeptAfter DEF Kept
<1> QED BY <1>7, <1>8

(* A cancellation changes the status of the run. *)
LEMMA RequestCalm ==
    ASSUME NEW s \in Ledger, LedgerTrue(s), NEW t, t = W!RunCancelRequested(s)
    PROVE  Calm(s, t) /\ t.open = s.open
<1>1. t.node = s.node /\ t.inst = s.inst /\ t.open = s.open /\ t.leftRun = s.leftRun
  BY CancelRequestedTrue
<1>2. t.blocked \in {0, s.blocked}
  BY DEF W!RunCancelRequested, Ledger
<1>3. t.blocked \in W!Node \cup {0, s.blocked}
  BY <1>2
<1> QED BY <1>1, <1>3, CalmSame

(* The two cancellations. *)
LEMMA RequestKept ==
    ASSUME FlowInv, Kept, Keeps(j, j'), W!CancelInDaemon \/ W!CancelFromCli
    PROVE  Kept'
<1>1. /\ j' = W!RunCancelRequested(j) /\ plan' = plan /\ ask' = ask /\ tries' = tries /\ dag' = dag
      /\ \/ local' = local /\ pc' = pc
         \/ local' = W!Aborted(W!InFlight, "run") /\ pc # "spawn" /\ pc' \in {pc, "tick"}
  BY DEF W!CancelInDaemon, W!CancelFromCli, W!Ext, W!Free, W!Drive
<1>2. Calm(j, j') /\ j'.open = j.open
  BY <1>1, Holds, RequestCalm
<1>3. DOMAIN local' = W!InFlight
  <2>1. CASE local' = local
    BY <2>1 DEF W!InFlight
  <2>2. CASE local' = W!Aborted(W!InFlight, "run")
    BY <2>2, Holds, AbortedIs
  <2> QED BY <1>1, <2>1, <2>2
<1> QED BY <1>1, <1>2, <1>3, KeptEvents

(* The decision of a click. *)
LEMMA ClickAppendsKept ==
    ASSUME FlowInv, Kept, Keeps(j, j'), W!ClickAppends
    PROVE  Kept'
<1> DEFINE n == click[1][1]
           k == click[1][2]
           res == click[2]
<1>1. /\ click # <<>> /\ W!Drive /\ j' = W!GateResolved(j, n, k, res) /\ local' = local
      /\ plan' = plan /\ ask' = ask /\ tries' = tries /\ dag' = dag
  BY DEF W!ClickAppends
<1>2. /\ n \in W!Node /\ j.node[n].eff = k /\ j.node[n].status = "gateWaiting" /\ pc \notin Acts
  BY <1>1 DEF FlowInv, Busy, W!Thread
<1> HIDE DEF n, k, res
<1>3. j \in Ledger /\ LedgerTrue(j) /\ k = j.node[n].eff /\ j' = W!GateResolved(j, n, k, res)
  BY <1>1, <1>2, Holds
<1>4. IsInst(j, n, k)
  <2>1. k # 0
    BY <1>2, <1>3, Effective DEF NodeFine
  <2> QED BY <1>2, <1>3, <2>1, Effective
<1>5. Calm(j, j') /\ j'.open = j.open
  BY <1>2, <1>3, <1>4, ResolvedCalm, ResolvedTrue
<1>6. pc # "spawn" /\ (pc' = "drain" => pc = "drain") /\ DOMAIN local' = W!InFlight
  BY <1>1, <1>2 DEF Acts, W!Drive, W!InFlight
<1> QED BY <1>1, <1>5, <1>6, KeptEvents

(* A retry. *)
LEMMA RetryKept ==
    ASSUME FlowInv, Kept, Keeps(j, j'), NEW n \in W!Node, W!Retry(n)
    PROVE  Kept'
<1>1. /\ W!Free /\ j.node[n].status = "blocked" /\ ~W!Cut(j) /\ j' = W!RetryRequested(j, n) /\ W!Drive /\ local' = local
      /\ plan' = plan /\ ask' = ask /\ dag' = dag /\ tries' = [tries EXCEPT !.retry = @ + 1]
  BY DEF W!Retry, W!Status
<1>2. j \in Ledger /\ LedgerTrue(j) /\ j.node[n].eff # 0 /\ j'.open = j.open
  BY <1>1, Holds, RetriedTrue
<1>3. Calm(j, j')
  BY <1>1, <1>2, Effective, RetriedCalm
<1>4. tries'.grant = tries.grant /\ tries'.crash = tries.crash
  BY <1>1, Holds
<1>5. pc # "spawn" /\ (pc' = "drain" => pc = "drain") /\ DOMAIN local' = W!InFlight
  BY <1>1 DEF W!Free, W!Drive, W!InFlight
<1> QED BY <1>1, <1>2, <1>3, <1>4, <1>5, KeptEvents

(* A grant may add one to the budget of the run. *)
LEMMA GrantedCounts ==
    ASSUME FlowInv, Kept, NEW n \in W!Node, NEW scope, j.node[n].eff # 0, j.inst[n][j.node[n].eff].why # 0,
           NEW g, g = W!Granted(n, scope)
    PROVE  CountsIn(g, {}, tries.grant + 1)
<1>1. /\ j \in Ledger /\ LedgerTrue(j) /\ tries.grant \in Nat /\ g \in Ledger
      /\ g.node = j.node /\ g.inst = j.inst /\ g.blocked = j.blocked
  BY Holds, GrantedTrue DEF Keeps
<1>2. g.leftRun \in {j.leftRun + 1, j.leftRun + 0}
  <2> DEFINE p == <<n, j.inst[n][j.node[n].eff].why>>
             more == [j.left EXCEPT ![p] = j.left[p] + 1]
             one == j.leftRun + 1
  <2>1. g = j \/ g = [j EXCEPT !.left = more] \/ g = [j EXCEPT !.leftRun = one]
    BY DEF W!Granted
  <2> HIDE DEF more, one
  <2>2. g.leftRun \in {one, j.leftRun}
    BY <1>1, <2>1 DEF Ledger
  <2>3. one = j.leftRun + 1 /\ j.leftRun = j.leftRun + 0
    BY <1>1 DEF one, Ledger
  <2> QED BY <2>2, <2>3
<1>3. W!Pair # {}
  <2>1. IsInst(j, n, j.node[n].eff)
    BY <1>1, Effective
  <2>2. WhyOf(j, n, j.node[n].eff) # 0
    BY <2>1 DEF WhyOf
  <2> QED BY <2>2 DEF Kept, CountsIn
<1>4. ASSUME NEW m \in W!Node PROVE Age(g, m) + Asks({}, m) + g.leftRun <= 1 + RunBudget + (tries.grant + 1)
  <2>1. Age(g, m) = Age(j, m) /\ Age(j, m) \in Nat
    <3>1. Len(j.inst[m]) \in Nat
      BY <1>1, Fields
    <3>2. Age(j, m) \in {Len(j.inst[m]) + 1, Len(j.inst[m]) + 0}
      BY DEF Age
    <3>3. Age(j, m) \in Nat
      BY <3>1, <3>2
    <3> QED BY <1>1, <3>3 DEF Age
  <2>2. Asks({}, m) = 0 /\ Asks(ask.todo, m) \in {0, 1}
    BY DEF Asks
  <2>3. Age(j, m) + Asks(ask.todo, m) + j.leftRun <= 1 + RunBudget + tries.grant
    BY DEF Kept, CountsIn
  <2>4. j.leftRun \in Nat /\ RunBudget \in Nat
    BY <1>1, PartsAssumption DEF Ledger, W!WorkflowAssumption
  <2> QED BY ONLY <1>1, <1>2, <2>1, <2>2, <2>3, <2>4
<1>5. \A m, k : WhyOf(g, m, k) = WhyOf(j, m, k)
  BY <1>1 DEF WhyOf, IsInst
<1> QED BY <1>1, <1>3, <1>4, <1>5 DEF Kept, CountsIn

(* A grant of more revisits, and the retry with it. *)
LEMMA GrantKept ==
    ASSUME FlowInv, Kept, Keeps(j, j'), NEW n \in W!Node, NEW scope, W!GrantRevisit(n, scope)
    PROVE  Kept'
<1> DEFINE g == W!Granted(n, scope)
           more == tries.grant + 1
<1>1. /\ W!Free /\ j.run = "blocked" /\ j.blocked = n /\ j.node[n].eff # 0 /\ j.inst[n][j.node[n].eff].why # 0
      /\ j' = W!RetryRequested(g, n) /\ W!Drive /\ local' = local /\ tries.grant < MaxGrant
      /\ plan' = plan /\ ask' = ask /\ dag' = dag /\ tries' = [tries EXCEPT !.grant = more]
  BY DEF W!GrantRevisit
<1>2. /\ j \in Ledger /\ LedgerTrue(j) /\ tries.grant \in Nat /\ tries.crash \in Nat
      /\ tries'.grant = more /\ tries'.crash = tries.crash /\ more <= MaxGrant /\ more \in Nat
  <2>1. tries \in [retry : Nat, grant : Nat, crash : Nat] /\ MaxGrant \in Nat
    BY Holds, PartsAssumption DEF W!WorkflowAssumption
  <2> QED BY <1>1, <2>1, Holds
<1>3. CountsIn(g, {}, more)
  BY <1>1, GrantedCounts
<1>4. /\ Keeps(j, g) /\ g.node = j.node /\ g.inst = j.inst /\ g.open = j.open /\ g.run = j.run /\ g.blocked = j.blocked
  BY <1>1, GrantedTrue
<1>5. j.node[n].status = "blocked"
  BY <1>1 DEF FlowInv, Ending
<1> HIDE DEF g, more
<1>6. g \in Ledger /\ LedgerTrue(g) /\ ~W!Cut(g)
  BY <1>1, <1>4 DEF Keeps, W!Cut
<1>7. Keeps(g, j') /\ j'.open = g.open /\ Calm(g, j')
  <2>1. g.node[n].status = "blocked" /\ g.node[n].eff # 0 /\ j' = W!RetryRequested(g, n)
    BY <1>1, <1>4, <1>5
  <2>2. IsInst(g, n, g.node[n].eff)
    BY <1>6, <2>1, Effective
  <2> QED BY <1>6, <2>1, <2>2, RetriedTrue, RetriedCalm
<1>8. CountsIn(j', ask'.todo, tries'.grant)
  <2>1. ask'.todo = {}
    BY <1>1 DEF W!Free, W!Thread, W!NoAsk
  <2>2. j' \in Ledger /\ SameAges(g, j') /\ SameWhys(g, j') /\ {} \subseteq {}
    BY <1>7 DEF Calm, Keeps
  <2> QED BY <1>2, <1>3, <1>6, <2>1, <2>2, CountsStay
<1>9. OrphansIn(j', Held', Dropped', tries'.crash)
  <2>1. OrphansIn(j, Held, Dropped, tries.crash) /\ SameOrphans(g, j')
    BY <1>7 DEF Kept, Calm
  <2>2. SameOrphans(j, j')
    <3>1. \A m, k : OrphansOf(g, m, k) = OrphansOf(j, m, k)
      BY <1>4 DEF OrphansOf, IsInst
    <3> QED BY <2>1, <3>1 DEF SameOrphans
  <2>3. j'.open \subseteq j.open /\ Held \cap j'.open \subseteq Held' /\ Dropped' \subseteq Dropped
    BY <1>1, <1>4, <1>7 DEF Held, Dropped, W!Free, W!Drive, W!InFlight
  <2> QED BY <1>2, <2>1, <2>2, <2>3, OrphansStay
<1> QED BY <1>1, <1>2, <1>8, <1>9, KeptAfter DEF Kept

(* After a death nothing is held. *)
LEMMA DieKept ==
    ASSUME FlowInv, Kept, W!Die, Keeps(j, j'), j'.inst = j.inst, j'.open = j.open,
           tries'.crash = tries.crash + 1, tries'.crash <= W!MaxCrash, tries'.grant <= MaxGrant,
           CountsIn(j', {}, tries'.grant)
    PROVE  Kept'
<1>1. /\ pc' = "down" /\ local' = <<>> /\ plan' = W!NoPlan /\ ask' = W!NoAsk /\ dag' = dag
  BY DEF W!Die
<1>2. tries.crash \in Nat /\ j \in Ledger
  BY Holds
<1>3. \A n, k : OrphansOf(j', n, k) = OrphansOf(j, n, k) /\ OrphansOf(j, n, k) \in Nat
  <2> SUFFICES ASSUME NEW n, NEW k PROVE OrphansOf(j', n, k) = OrphansOf(j, n, k) /\ OrphansOf(j, n, k) \in Nat
    OBVIOUS
  <2>1. CASE IsInst(j, n, k)
    <3>1. j.inst[n][k].orphans \in Nat
      BY <1>2, <2>1, Fields DEF InstRec
    <3> QED BY <2>1, <3>1 DEF OrphansOf, IsInst
  <2>2. CASE ~IsInst(j, n, k)
    BY <2>2 DEF OrphansOf, IsInst
  <2> QED BY <2>1, <2>2
<1>4. \A n, k : OrphansOf(j, n, k) <= tries.crash
  BY DEF Kept, OrphansIn
<1>5. \A n, k : OrphansOf(j', n, k) <= tries'.crash /\ OrphansOf(j', n, k) + 1 <= tries'.crash
  BY <1>2, <1>3, <1>4
<1>6. OrphansIn(j', Held', Dropped', tries'.crash)
  BY <1>5 DEF OrphansIn
<1>7. CountsIn(j', ask'.todo, tries'.grant)
  BY <1>1 DEF W!NoAsk
<1> QED BY <1>1, <1>6, <1>7, KeptAfter

(* The process dies. *)
LEMMA CrashKept ==
    ASSUME FlowInv, Kept, W!Crash
    PROVE  Kept'
<1>1. /\ W!Die /\ j' = j /\ tries.crash < W!MaxCrash /\ tries' = [tries EXCEPT !.crash = @ + 1]
  BY DEF W!Crash
<1>2. j \in Ledger /\ LedgerTrue(j) /\ tries.grant \in Nat
  BY Holds
<1>3. tries'.crash = tries.crash + 1 /\ tries'.crash <= W!MaxCrash /\ tries'.grant = tries.grant
  <2>1. tries \in [retry : Nat, grant : Nat, crash : Nat] /\ W!MaxCrash \in Nat
    BY Holds, DagFacts
  <2> QED BY <1>1, <2>1
<1>4. CountsIn(j', {}, tries'.grant)
  <2>1. Calm(j, j) /\ CountsIn(j, ask.todo, tries.grant) /\ {} \subseteq ask.todo
    BY CalmSame DEF Kept
  <2>2. SameAges(j, j) /\ SameWhys(j, j)
    BY <2>1 DEF Calm
  <2>3. CountsIn(j, {}, tries.grant)
    BY <1>2, <2>1, <2>2, CountsStay
  <2> QED BY <1>1, <1>3, <2>3
<1>5. Keeps(j, j') /\ tries'.grant <= MaxGrant
  BY <1>1, <1>2, <1>3, KeepsItself DEF Kept
<1> QED BY <1>1, <1>3, <1>4, <1>5, DieKept

(* It dies between the two events of a grant. *)
LEMMA CrashInGrantKept ==
    ASSUME FlowInv, Kept, NEW n \in W!Node, NEW scope, W!CrashInGrant(n, scope)
    PROVE  Kept'
<1> DEFINE more == tries.grant + 1
           dead == tries.crash + 1
<1>1. /\ W!Die /\ j.node[n].eff # 0 /\ j.inst[n][j.node[n].eff].why # 0
      /\ tries.crash < W!MaxCrash /\ tries.grant < MaxGrant
      /\ j' = W!Granted(n, scope) /\ tries' = [tries EXCEPT !.crash = dead, !.grant = more]
  BY DEF W!CrashInGrant
<1>2. /\ tries'.crash = tries.crash + 1 /\ tries'.crash <= W!MaxCrash
      /\ tries'.grant = tries.grant + 1 /\ tries'.grant <= MaxGrant
  <2>1. tries \in [retry : Nat, grant : Nat, crash : Nat] /\ W!MaxCrash \in Nat /\ MaxGrant \in Nat
    BY Holds, DagFacts, PartsAssumption DEF W!WorkflowAssumption
  <2>2. more \in Nat /\ dead \in Nat /\ more <= MaxGrant /\ dead <= W!MaxCrash /\ dead = tries.crash + 1 /\ more = tries.grant + 1
    BY <1>1, <2>1
  <2> HIDE DEF more, dead
  <2>3. tries'.crash = dead /\ tries'.grant = more
    BY <1>1, <2>1
  <2> QED BY <2>2, <2>3
<1>3. Keeps(j, j') /\ j'.inst = j.inst /\ j'.open = j.open
  BY <1>1, GrantedTrue
<1>4. CountsIn(j', {}, tries'.grant)
  BY <1>1, <1>2, GrantedCounts
<1> QED BY <1>1, <1>2, <1>3, <1>4, DieKept

(* The return of a daemon. *)
LEMMA ColdAttachKept ==
    ASSUME FlowInv, Kept, Keeps(j, j'), W!ColdAttach
    PROVE  Kept'
<1> DEFINE waiting == {n \in W!Node : j.run = "running" /\ W!Status(n) = "gateWaiting"}
           healed == {n \in waiting : waits[<<n, j.node[n].eff>>] \in {"approved", "rejected"}}
           res(n) == waits[<<n, j.node[n].eff>>]
           f == [n \in healed |-> W!GateResolved(j, n, j.node[n].eff, res(n))]
<1>1. /\ pc = "down" /\ pc' \in {"tick", "idle"} /\ j' = W!Together(j, f)
      /\ local' = local /\ plan' = plan /\ ask' = ask /\ tries' = tries /\ dag' = dag
  BY DEF W!ColdAttach
<1>2. j \in Ledger /\ LedgerTrue(j)
  BY Holds
<1>3. healed \in SUBSET W!Node /\ DOMAIN f = healed /\ \A n \in healed : j.node[n].status = "gateWaiting"
  BY DEF W!Status
<1>4. \A n \in healed : f[n] = W!GateResolved(j, n, j.node[n].eff, res(n))
  OBVIOUS
<1> HIDE DEF waiting, healed, res, f
<1>5. ASSUME NEW n \in healed PROVE f[n] \in Ledger /\ Calm(j, f[n])
  <2> DEFINE k == j.node[n].eff
             x == res(n)
             t == f[n]
  <2>1. k = j.node[n].eff /\ n \in W!Node /\ j.node[n].status = "gateWaiting" /\ t = W!GateResolved(j, n, k, x)
    BY <1>3, <1>4
  <2> HIDE DEF k, x, t
  <2>2. k # 0
    BY <1>2, <2>1, Effective DEF NodeFine
  <2>3. IsInst(j, n, k)
    BY <1>2, <2>1, <2>2, Effective
  <2>4. Keeps(j, t) /\ Calm(j, t)
    BY <1>2, <2>1, <2>3, ResolvedTrue, ResolvedCalm
  <2> QED BY <2>4 DEF Keeps, t
<1>6. Calm(j, j')
  BY <1>1, <1>2, <1>3, <1>5, TogetherCalm
<1>7. j'.open \subseteq j.open
  BY <1>1, <1>2 DEF W!Together, Ledger
<1>8. DOMAIN local' = W!InFlight
  BY <1>1 DEF W!InFlight
<1> QED BY <1>1, <1>6, <1>7, <1>8, KeptEvents

-----------------------------------------------------------------------------
(***************************************************************************)
(* The types of the engine, and all that holds of the workers.             *)
(***************************************************************************)

(* The steps that touch neither the journal nor a promise. *)
LEMMA QuietKept ==
    ASSUME FlowInv, Kept,
           \/ W!TickBoundary \/ W!TickTerminal \/ W!TickDispatch \/ W!LocalDrained \/ W!DrainDone
           \/ W!ActCapped \/ W!WriteWait \/ W!ActEnd \/ W!SeeCancellation \/ W!Return \/ W!StartRun
           \/ \E g \in cards, res \in {"approved", "rejected"} : W!ClickGate(g, res)
    PROVE  Kept'
<1>1. /\ j' = j /\ local' = local /\ dag' = dag /\ tries' = tries /\ ask' = ask
      /\ pc # "spawn" /\ (pc' = "drain" => pc = "drain" /\ plan' = plan)
  BY DEF W!TickBoundary, W!TickTerminal, W!TickDispatch, W!LocalDrained, W!DrainDone, W!ActCapped, W!WriteWait,
         W!ActEnd, W!SeeCancellation, W!Return, W!StartRun, W!ClickGate, W!Ext, W!Quiet, W!Drive, W!Free
<1>2. DOMAIN local' = W!InFlight
  BY <1>1 DEF W!InFlight
<1> QED BY <1>1, <1>2, KeptAlone

(* The steps of what is outside: a worker that returns, or none at all. *)
LEMMA RestKept ==
    ASSUME FlowInv, Kept,
           \/ \E a \in W!InFlight, r \in W!Outcome : W!WorkerReturns(a, r)
           \/ \E a \in proc : W!OrphanExits(a)
           \/ UNCHANGED engine
    PROVE  Kept'
<1>1. /\ j' = j /\ DOMAIN local' = W!InFlight /\ dag' = dag /\ tries' = tries /\ ask' = ask /\ pc' = pc /\ plan' = plan
  BY DEF W!WorkerReturns, W!OrphanExits, engine, W!InFlight
<1>2. Keeps(j, j') /\ Calm(j, j') /\ j'.open \subseteq j.open
  <2>1. j \in Ledger /\ LedgerTrue(j)
    BY Holds
  <2> QED BY <1>1, <2>1, KeepsItself, CalmSame
<1> QED BY <1>1, <1>2, KeptEvents

(* The counts before the run. *)
LEMMA KeptStarts ==
    ASSUME FlowInit
    PROVE  Kept
<1>1. /\ dag \in Dags /\ j.blocked = 0 /\ j.leftRun = RunBudget /\ j.open = {}
      /\ \A n \in W!Node : j.node[n] = W!NoNode /\ j.inst[n] = <<>>
      /\ ask.todo = {} /\ tries.grant = 0 /\ tries.crash = 0
  BY DEF FlowInit, W!Init, W!NoAsk
<1>2. W!MaxCrash \in Nat /\ RunBudget \in Nat /\ MaxGrant \in Nat
  BY <1>1, DagFacts, PartsAssumption DEF W!WorkflowAssumption
<1>3. \A n, k : ~IsInst(j, n, k)
  BY <1>1 DEF IsInst
<1>4. \A n \in W!Node : Age(j, n) = 1 /\ Asks(ask.todo, n) = 0
  <2> SUFFICES ASSUME NEW n \in W!Node PROVE Age(j, n) = 1 /\ Asks(ask.todo, n) = 0
    OBVIOUS
  <2>1. Len(j.inst[n]) = 0 /\ j.node[n].eff = 0
    BY <1>1 DEF W!NoNode
  <2>2. Age(j, n) = 1
    BY <2>1 DEF Age
  <2>3. Asks(ask.todo, n) = 0
    BY <1>1 DEF Asks
  <2> QED BY <2>2, <2>3
<1>5. CountsIn(j, ask.todo, tries.grant)
  BY <1>1, <1>2, <1>3, <1>4 DEF CountsIn, WhyOf
<1>6. OrphansIn(j, Held, Dropped, tries.crash)
  BY <1>1, <1>3 DEF OrphansIn, OrphansOf
<1> QED BY <1>1, <1>2, <1>5, <1>6 DEF Kept

(* Every step keeps the counts. *)
LEMMA KeptStays ==
    ASSUME FlowInv, Kept, [FlowNext]_flow
    PROVE  Kept'
<1>0. Keeps(j, j')
  BY FlowStays
<1>1. CASE W!Tick
  BY <1>0, <1>1, QuietKept, TickCancelKept, QuiesceKept, ControlKept DEF W!Tick
<1>2. CASE W!Drain
  BY <1>0, <1>2, QuietKept, DrainForCancelKept, FinalizeKept, DrainExternalKept DEF W!Drain
<1>3. CASE W!Act
  BY <1>0, <1>3, QuietKept, ActDispatchKept, SpawnKept, ArmFailsKept, ActLoserKept, AppendTerminalKept DEF W!Act
<1>4. CASE W!Worker
  BY <1>0, <1>4, RestKept, WorkerDrainedKept, WorkerSettlesKept, RevisitRequestedKept, RevisitSupersedesKept,
     RevisitEndsKept DEF W!Worker
<1>5. CASE W!Operator
  BY <1>0, <1>5, QuietKept, RequestKept, ClickAppendsKept, RetryKept, GrantKept, CrashInGrantKept DEF W!Operator
<1>6. W!Next \/ UNCHANGED engine
  BY DEF FlowNext, flow
<1> QED BY <1>0, <1>1, <1>2, <1>3, <1>4, <1>5, <1>6, RestKept, CrashKept, ColdAttachKept DEF W!Next

(* The wait files. *)
Waits == waits \in [W!Gated \X (1..W!MaxInst) -> {"none", "pending", "approved", "rejected"}]

(* The definition stays, and with it the names of the wait files. *)
LEMMA WaitsStay ==
    ASSUME Waits, [FlowNext]_flow
    PROVE  Waits'
<1>1. /\ dag' = dag
      /\ \/ waits' = waits
         \/ \E g, v : waits' = [waits EXCEPT ![g] = v] /\ v \in {"pending", "approved", "rejected"}
         \/ \E X : waits' = [g \in DOMAIN waits |-> IF g \in X /\ waits[g] = "none" THEN "pending" ELSE waits[g]]
  <2>1. CASE W!WriteWait
    BY <2>1 DEF W!WriteWait
  <2>2. CASE \E g \in cards, res \in {"approved", "rejected"} : W!ClickGate(g, res)
    BY <2>2 DEF W!ClickGate
  <2>3. CASE W!ColdAttach
    BY <2>3 DEF W!ColdAttach
  <2>4. CASE UNCHANGED engine
    BY <2>4 DEF engine
  <2>5. CASE W!Tick \/ W!Drain
    BY <2>5 DEF W!Tick, W!Drain, W!TickCancelling, W!TickBoundary, W!TickDrain, W!Quiesce, W!TickTerminal, W!TickControl,
                W!TickDispatch, W!DrainForCancel, W!FinalizeCancellation, W!LocalDrained, W!DrainDone, W!DrainExternal, W!Ext
  <2>6. CASE W!Act /\ ~W!WriteWait
    BY <2>6 DEF W!Act, W!ActDispatch, W!ActCapped, W!Spawn, W!ArmFails, W!ActLoser, W!ActEnd, W!AppendTerminal,
                W!SeeCancellation, W!Return, W!Ext
  <2>7. CASE W!Worker
    BY <2>7 DEF W!Worker, W!WorkerReturns, W!WorkerDrained, W!WorkerSettles, W!RevisitRequested, W!RevisitSupersedes,
                W!RevisitEnds, W!OrphanExits
  <2>8. CASE \/ W!StartRun \/ W!CancelInDaemon \/ W!CancelFromCli \/ W!ClickAppends \/ W!Crash
             \/ \E n \in W!Node : W!Retry(n) \/ \E s \in {"pair", "run"} : W!GrantRevisit(n, s) \/ W!CrashInGrant(n, s)
    BY <2>8 DEF W!StartRun, W!CancelInDaemon, W!CancelFromCli, W!ClickAppends, W!Crash, W!Retry, W!GrantRevisit,
                W!CrashInGrant, W!Die, W!Ext
  <2> QED BY <2>1, <2>2, <2>3, <2>4, <2>5, <2>6, <2>7, <2>8 DEF FlowNext, flow, W!Next, W!Operator
<1>2. W!Gated' = W!Gated /\ W!MaxInst' = W!MaxInst
  BY <1>1, SameTypes DEF W!Gated, W!MaxInst
<1> DEFINE names == W!Gated \X (1..W!MaxInst)
           values == {"none", "pending", "approved", "rejected"}
<1>3. waits \in [names -> values]
  BY DEF Waits
<1>4. "pending" \in values /\ "approved" \in values /\ "rejected" \in values
  OBVIOUS
<1> HIDE DEF names, values
<1>5. waits' \in [names -> values]
  <2>1. CASE waits' = waits
    BY <1>3, <2>1
  <2>2. ASSUME NEW g, NEW v, waits' = [waits EXCEPT ![g] = v], v \in {"pending", "approved", "rejected"}
        PROVE  waits' \in [names -> values]
    <3>1. v \in values
      BY <1>4, <2>2
    <3> QED BY <1>3, <2>2, <3>1
  <2>3. ASSUME NEW X, waits' = [g \in DOMAIN waits |-> IF g \in X /\ waits[g] = "none" THEN "pending" ELSE waits[g]]
        PROVE  waits' \in [names -> values]
    BY <1>3, <1>4, <2>3
  <2> QED BY <1>1, <2>1, <2>2, <2>3
<1> QED BY <1>2, <1>5 DEF Waits, names, values

(* An instance, and an attempt of it, is within the bound. *)
LEMMA InstancesBounded ==
    ASSUME FlowInv, Kept, NEW n \in W!Node
    PROVE  Len(j.inst[n]) \in Nat /\ Len(j.inst[n]) <= W!MaxInst /\ W!MaxInst \in Nat
<1>1. j \in Ledger /\ LedgerTrue(j) /\ tries.grant \in Nat
  BY Holds
<1>2. Len(j.inst[n]) \in Nat
  BY <1>1, Fields
<1>3. Age(j, n) \in {Len(j.inst[n]) + 1, Len(j.inst[n]) + 0} /\ Asks(ask.todo, n) \in {0, 1}
  BY DEF Age, Asks
<1>4. Age(j, n) + Asks(ask.todo, n) + j.leftRun <= 1 + RunBudget + tries.grant /\ tries.grant <= MaxGrant
  BY DEF Kept, CountsIn
<1>5. j.leftRun \in Nat /\ RunBudget \in Nat /\ MaxGrant \in Nat
  BY <1>1, PartsAssumption DEF Ledger, W!WorkflowAssumption
<1>6. CASE W!Pair = {}
  <2>1. tries.grant = 0 /\ j.leftRun = RunBudget
    BY <1>6 DEF Kept, CountsIn
  <2>2. Len(j.inst[n]) <= 1
    BY ONLY <1>2, <1>3, <1>4, <1>5, <2>1
  <2> QED BY <1>2, <1>6, <2>2 DEF W!MaxInst
<1>7. CASE W!Pair # {}
  <2>1. W!MaxInst = 1 + RunBudget + MaxGrant
    BY <1>7 DEF W!MaxInst
  <2>2. Len(j.inst[n]) <= 1 + RunBudget + MaxGrant /\ 1 + RunBudget + MaxGrant \in Nat
    BY ONLY <1>1, <1>2, <1>3, <1>4, <1>5
  <2> QED BY <1>2, <2>1, <2>2
<1> QED BY <1>6, <1>7

(* The invariant gives every type of the engine. *)
LEMMA EngineTypes ==
    ASSUME FlowInv, Kept, Waits
    PROVE  W!TypeOK
<1>1. /\ j \in Ledger /\ LedgerTrue(j) /\ dag \in Dags /\ pc \in Places /\ tries.crash \in Nat
      /\ proc \subseteq j.open /\ W!InFlight \subseteq j.open
  BY Holds
<1>2. W!N \in Nat /\ W!Node = 1..W!N /\ W!MaxCrash \in Nat
  BY <1>1, DagFacts DEF W!Node
<1>3. j.run \in RunStates /\ j.blocked \in 0..W!N
  BY <1>1, <1>2, Fields DEF Kept, CountsIn
<1>4. ASSUME NEW n \in W!Node
      PROVE  j.node[n] \in [status : W!NodeStatus, cleared : BOOLEAN, eff : 0..Len(j.inst[n])]
  <2>1. j.node[n] \in NodeRec /\ Len(j.inst[n]) \in Nat /\ NodeFine(j.node[n], j.inst[n])
    BY <1>1, Effective
  <2>2. j.node[n].eff \in 0..Len(j.inst[n])
    BY <2>1 DEF NodeRec, NodeFine
  <2> QED BY <2>1, <2>2 DEF NodeRec
<1>5. ASSUME NEW n \in W!Node, NEW k \in DOMAIN j.inst[n]
      PROVE  j.inst[n][k] \in [st : W!NodeStatus \cup {"superseded"}, max : Nat, res : BOOLEAN,
                               orphans : 0..W!MaxCrash, why : 0..W!N]
  <2>1. IsInst(j, n, k) /\ k \in 1..Len(j.inst[n])
    <3>1. j.inst[n] \in Seq(InstRec)
      BY <1>1, Fields
    <3> QED BY <3>1 DEF IsInst
  <2>2. j.inst[n][k] \in InstRec
    BY <1>1, <2>1, Fields
  <2>3. j.inst[n][k].why \in 0..W!N
    <3>1. NodeFine(j.node[n], j.inst[n])
      BY <1>1, Effective
    <3>2. j.inst[n][k].why \in W!Node \cup {0}
      BY <2>1, <3>1 DEF NodeFine
    <3> QED BY <1>2, <3>2
  <2>4. j.inst[n][k].orphans \in 0..W!MaxCrash
    <3>1. OrphansOf(j, n, k) <= tries.crash /\ tries.crash <= W!MaxCrash
      BY DEF Kept, OrphansIn
    <3>2. OrphansOf(j, n, k) = j.inst[n][k].orphans /\ j.inst[n][k].orphans \in Nat
      BY <2>1, <2>2 DEF OrphansOf, InstRec
    <3> QED BY <1>1, <1>2, <3>1, <3>2
  <2> QED BY <2>2, <2>3, <2>4 DEF InstRec
<1>6. j.open \subseteq W!Attempt
  <2> SUFFICES ASSUME NEW a \in j.open PROVE a \in W!Attempt
    OBVIOUS
  <2>1. a \in Triples /\ a = <<a[1], a[2], a[3]>> /\ IsInst(j, a[1], a[2]) /\ OpenTrue(j, a)
    BY <1>1, OpenFacts
  <2>2. a[1] \in W!Node /\ a[2] \in 1..Len(j.inst[a[1]]) /\ a[3] \in Nat \ {0}
    BY <2>1 DEF IsInst, OpenTrue, Triples
  <2>3. a[2] \in 1..W!MaxInst
    <3>1. Len(j.inst[a[1]]) \in Nat /\ Len(j.inst[a[1]]) <= W!MaxInst /\ W!MaxInst \in Nat
      BY <2>2, InstancesBounded
    <3> QED BY <2>2, <3>1
  <2> QED BY <2>1, <2>2, <2>3 DEF W!Attempt
<1> QED BY <1>1, <1>3, <1>4, <1>5, <1>6 DEF W!TypeOK, Waits, RunStates, Places

(* No worker of a run is lost sight of, the driver of a daemon never gets   *)
(* stuck, and the fence of an attempt tells the truth about its worker      *)
(* (WorkersAccounted), as long as the steps before the fork are shorter     *)
(* than the pause between two scans.                                        *)
THEOREM WorkersKept == ~SlowSetup => (FlowSpec => []WorkersAccounted)
<1> SUFFICES ASSUME ~SlowSetup PROVE FlowSpec => []WorkersAccounted
  OBVIOUS
<1>1. FlowInit => Kept /\ Waits
  BY KeptStarts DEF FlowInit, W!Init, Waits
<1>2. FlowInv /\ Kept /\ Waits /\ [FlowNext]_flow => Kept' /\ Waits'
  BY KeptStays, WaitsStay
<1>3. FlowInv /\ Kept /\ Waits => W!TypeOK
  BY EngineTypes
<1>4. FlowSpec => []W!TypeOK
  BY <1>1, <1>2, <1>3, FlowSafe, PTL DEF FlowSpec
<1>5. FlowSpec => [](F!TypeOK /\ F!ProofMeansGone /\ F!TombstoneTrue /\ F!NoUnfencedWorker)
  BY FenceTellsTruth
<1>6. /\ W!TypeOK /\ W!BoundaryQuiet /\ W!NoFalseClose /\ W!OneWorker /\ W!NeverThrows
      /\ F!TypeOK /\ F!ProofMeansGone /\ F!TombstoneTrue /\ F!NoUnfencedWorker
      => WorkersAccounted
  BY DEF WorkersAccounted
<1> QED BY <1>4, <1>5, <1>6, WorkersOnRecord, DriverMoves, PTL

=============================================================================
