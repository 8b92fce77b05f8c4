------------------------------ MODULE AgentGraph ------------------------------
(***************************************************************************)
(* One turn of the LangGraph workflow: from START to END through the nodes *)
(* of WorkflowNodes, along the edges of build_graph. An action is a node   *)
(* run to its checkpoint, except that research_act runs its tool calls one *)
(* by one, because it may fail after some of them have had their effect.   *)
(*                                                                         *)
(* What the language model returns is a nondeterministic choice, and so is *)
(* what the user's text matches. Texts are reduced to what is decided on:  *)
(* an answer is the set of [Sn] and the set of [Wn] marks it contains, a   *)
(* result list is its length.                                              *)
(***************************************************************************)
EXTENDS Integers, Sequences, FiniteSets

CONSTANTS
    MaxRewrites,    \* settings.max_rewrite_count
    MaxIterations,  \* settings.research_max_iterations
    MaxToolCalls,   \* settings.research_max_tool_calls
    Calls,          \* the [tool, arg] calls a model may ask for
    Skills,         \* the [workflow, tools] skills a question may match
    QuotedMarks,    \* the [Sn] and [Wn] marks in the text of sources
    MaxSources,     \* bound: length of a result list
    MaxBatch,       \* bound: tool calls in one model reply
    MaxFailures     \* bound: node executions that raise

ASSUME AgentGraphAssumption ==
    /\ MaxRewrites \in Nat
    /\ MaxIterations \in Nat \ {0}
    /\ MaxToolCalls \in Nat \ {0}
    /\ MaxSources \in Nat
    /\ MaxBatch \in Nat
    /\ MaxFailures \in Nat
    /\ QuotedMarks \in [s : SUBSET (0..(MaxSources + 1)), w : SUBSET (1..(MaxSources + 1))]

VARIABLES
    cfg,         \* [llm, web, approval, skill]: what is configured and matched
    node,        \* the next node, or "END"
    phase,       \* "running", "interrupted" or "failed"
    intent, policy,
    hits, weak, web,             \* retrieval_hits, retrieval_weak, web_results
    quality, rewrites, webCount, \* retrieval_quality, rewrite_count, web_search_count
    tasks,                       \* research_tasks not yet run by a worker
    found,                       \* [s, w]: sources held in research_outputs
    iterations, toolCalls,       \* research_iterations, research_tool_calls
    pending,                     \* pending_tool_calls
    seen,                        \* signatures of the observations in research_outputs
    act,                         \* research_act under way: [i, seen, found]
    decision,                    \* what the user answered to the interrupt
    planApproved, saved,         \* plan_approved, and whether the plan is stored
    draft, final,                \* draft_answer, final_answer
    fallback,                    \* reflection["fallback"] is "evidence_only"
    supersteps,  \* history: checkpoints written
    webCalls,    \* history: requests made to the web search service
    shown,       \* history: write calls put to the user in an interrupt
    granted,     \* history: write calls pending as the user approved
    executed,    \* history: how often a write call took effect
    failures     \* history: node executions that raised

research == <<tasks, found, iterations, toolCalls, pending, seen, act>>
rag == <<hits, weak, web, quality, rewrites, webCount>>
answers == <<draft, final, fallback>>
approval == <<planApproved, saved, shown, granted, executed>>
vars == <<cfg, node, phase, decision, intent, policy, rag, research, answers, approval,
          supersteps, webCalls, failures>>

Intents == {"chat", "knowledge_qa", "web_search", "reminder", "create_plan", "quiz",
            "progress", "update_progress", "deep_research"}

(* What _retrieval_policy finds in the question. *)
Policies == {"auto", "local_only", "web_required"}

ReadTools == {"search_private_knowledge", "list_knowledge_documents", "search_web",
              "get_learning_plan", "list_learning_reminders"}
WriteTools == {"update_learning_progress", "create_learning_reminder"}
ResearchTools == ReadTools \cup WriteTools
WriteCalls == {c \in Calls : c.tool \in WriteTools}

Marks == 0..(MaxSources + 1)
(* [W0] is left out: the code treats it as it treats [S0]. *)
Answer == [s : SUBSET Marks, w : SUBSET (Marks \ {0})]
Blank == [s |-> {}, w |-> {}]
Unset == [s |-> {-1}, w |-> {-1}]

Nodes == {"load_context", "contextualize_question", "route_intent", "direct_chat",
          "web_search", "reminder", "prepare_query", "retrieve", "grade_retrieval",
          "decide_evidence", "rewrite_query", "generate_grounded", "draft_plan",
          "approve_plan", "persist_plan", "progress", "update_progress", "quiz",
          "plan_research", "research_worker", "research_reason", "research_act",
          "research_critic", "synthesize_research", "reflect", "finalize"}

Batches == UNION {[1..n -> Calls] : n \in 0..MaxBatch}

(* What may be pending: what a model asks for, and the code's own searches. *)
KnownCalls == Calls \cup {[tool |-> t, arg |-> "topic"] : t \in ReadTools}

TypeOK ==
    /\ cfg \in [llm : BOOLEAN, web : BOOLEAN, approval : BOOLEAN, skill : Skills]
    /\ node \in Nodes \cup {"END"}
    /\ phase \in {"running", "interrupted", "failed"}
    /\ intent \in Intents
    /\ policy \in Policies
    /\ hits \in 0..MaxSources /\ web \in 0..MaxSources /\ weak \in BOOLEAN
    /\ quality \in {"good", "weak", "empty"}
    /\ rewrites \in Nat /\ webCount \in Nat
    /\ tasks \in 0..4
    /\ found \in [s : 0..MaxSources, w : 0..MaxSources]
    /\ iterations \in Nat /\ toolCalls \in Nat
    /\ pending \in Seq(KnownCalls)
    /\ seen \subseteq KnownCalls
    /\ act \in [i : Nat, seen : SUBSET KnownCalls, found : [s : 0..MaxSources, w : 0..MaxSources]]
    /\ decision \in {"none", "approved", "rejected"}
    /\ planApproved \in BOOLEAN /\ saved \in BOOLEAN
    /\ draft \in Answer \cup {Unset}
    /\ final \in Answer \cup {Unset} /\ fallback \in BOOLEAN
    /\ supersteps \in Nat /\ webCalls \in Nat /\ failures \in Nat
    /\ shown \subseteq WriteCalls /\ granted \subseteq WriteCalls
    /\ executed \in [WriteCalls -> Nat]

(* research_act at its first call, with what the checkpoint holds. *)
Entry(signatures, sources) == [i |-> 1, seen |-> signatures, found |-> sources]

(* The input state AgentService.run overwrites the thread's state with. *)
Init ==
    /\ cfg \in [llm : BOOLEAN, web : BOOLEAN, approval : BOOLEAN, skill : Skills]
    /\ node = "load_context" /\ phase = "running"
    /\ intent = "chat" /\ policy = "auto"
    /\ hits = 0 /\ weak = TRUE /\ web = 0
    /\ quality = "empty" /\ rewrites = 0 /\ webCount = 0
    /\ tasks = 0 /\ found = [s |-> 0, w |-> 0]
    /\ iterations = 0 /\ toolCalls = 0 /\ pending = <<>>
    /\ seen = {} /\ act = Entry(seen, found)
    /\ decision = "none" /\ planApproved = FALSE /\ saved = FALSE
    /\ draft = Unset /\ final = Unset /\ fallback = FALSE
    /\ supersteps = 0 /\ webCalls = 0 /\ failures = 0
    /\ shown = {} /\ granted = {} /\ executed = [c \in WriteCalls |-> 0]

-----------------------------------------------------------------------------
At(n) == node = n /\ phase = "running"

(* The checkpoint after a node: the graph goes on at n. An answer to an    *)
(* interrupt belongs to the checkpoint it was given at.                    *)
Go(n) ==
    /\ node' = n
    /\ decision' = "none"
    /\ supersteps' = supersteps + 1
    /\ UNCHANGED <<cfg, phase, failures>>

load_context ==
    /\ At("load_context")
    /\ Go("contextualize_question")
    /\ UNCHANGED <<intent, policy, rag, research, answers, approval, webCalls>>

contextualize_question ==
    /\ At("contextualize_question")
    /\ Go("route_intent")
    /\ UNCHANGED <<intent, policy, rag, research, answers, approval, webCalls>>

Destination(i) ==
    CASE i = "chat" -> "direct_chat"
      [] i \in {"knowledge_qa", "web_search"} -> "prepare_query"
      [] i = "create_plan" -> "draft_plan"
      [] i = "deep_research" -> "plan_research"
      [] OTHER -> i

RoutedPolicy(i, p) == IF i = "web_search" /\ p # "local_only" THEN "web_required" ELSE p

(* guess: a rule, a file name in the question or the model; asks: the      *)
(* phrases of _retrieval_policy. A skill with a workflow forces research.  *)
route_intent ==
    /\ At("route_intent")
    /\ \E guess \in Intents, asks \in Policies :
          /\ intent' = IF /\ cfg.skill.workflow
                          /\ guess \in {"chat", "knowledge_qa", "web_search", "deep_research"}
                       THEN "deep_research" ELSE guess
          /\ policy' = RoutedPolicy(intent', asks)
    /\ Go(Destination(intent'))
    /\ UNCHANGED <<rag, research, answers, approval, webCalls>>

(* A node that drafts an answer, quoting text it does not control. What    *)
(* reminder, update_progress and quiz write to the database is no part of  *)
(* the turn's state; the reminder's row is created in module Reminders.    *)
Drafts(n) ==
    /\ At(n)
    /\ draft' \in Answer
    /\ Go("reflect")
    /\ UNCHANGED <<intent, policy, rag, research, final, fallback, approval, webCalls>>

direct_chat == Drafts("direct_chat")
reminder == Drafts("reminder")
progress == Drafts("progress")
update_progress == Drafts("update_progress")
quiz == Drafts("quiz")

-----------------------------------------------------------------------------
(* Adaptive retrieval.                                                     *)

prepare_query ==
    /\ At("prepare_query")
    /\ Go("retrieve")
    /\ UNCHANGED <<intent, policy, rag, research, answers, approval, webCalls>>

retrieve ==
    /\ At("retrieve")
    /\ hits' \in 0..MaxSources
    /\ weak' \in BOOLEAN
    /\ Go("grade_retrieval")
    /\ UNCHANGED <<intent, policy, web, quality, rewrites, webCount, research, answers, approval, webCalls>>

grade_retrieval ==
    /\ At("grade_retrieval")
    /\ \/ quality' = IF hits = 0 THEN "empty" ELSE IF weak THEN "weak" ELSE "good"
       \/ cfg.llm /\ hits > 0 /\ quality' \in {"good", "weak", "empty"}
    /\ Go("decide_evidence")
    /\ UNCHANGED <<intent, policy, hits, weak, web, rewrites, webCount, research, answers, approval, webCalls>>

WebOpen == cfg.web /\ webCount = 0

(* Mutant: a question restricted to private sources still reaches the web. *)
EvidenceActionNotLocal ==
    IF policy = "web_required" /\ WebOpen THEN "web"
    ELSE IF quality = "good" THEN "generate"
    ELSE IF rewrites < MaxRewrites THEN "rewrite"
    ELSE IF WebOpen THEN "web"
    ELSE "refuse"

EvidenceAction ==
    IF policy = "web_required" /\ WebOpen THEN "web"
    ELSE IF quality = "good" THEN "generate"
    ELSE IF rewrites < MaxRewrites THEN "rewrite"
    ELSE IF policy # "local_only" /\ WebOpen THEN "web"
    ELSE "refuse"

decide_evidence ==
    /\ At("decide_evidence")
    /\ Go(CASE EvidenceAction = "web" -> "web_search"
            [] EvidenceAction = "rewrite" -> "rewrite_query"
            [] OTHER -> "generate_grounded")
    /\ UNCHANGED <<intent, policy, rag, research, answers, approval, webCalls>>

rewrite_query ==
    /\ At("rewrite_query")
    /\ rewrites' = rewrites + 1
    /\ Go("retrieve")
    /\ UNCHANGED <<intent, policy, hits, weak, web, quality, webCount, research, answers, approval, webCalls>>

web_search ==
    /\ At("web_search")
    /\ web' \in 0..MaxSources
    /\ webCount' = webCount + 1
    /\ webCalls' = webCalls + 1
    /\ Go("generate_grounded")
    /\ UNCHANGED <<intent, policy, hits, weak, quality, rewrites, research, answers, approval>>

(* Every source is quoted under its own mark, with the marks that happen   *)
(* to be in the quoted part of its text.                                   *)
Quoted(s, w) == IF s + w = 0 THEN {Blank} ELSE [s : SUBSET QuotedMarks.s, w : SUBSET QuotedMarks.w]

Excerpts(s, w) == {[s |-> 1..s \cup q.s, w |-> 1..w \cup q.w] : q \in Quoted(s, w)}

generate_grounded ==
    /\ At("generate_grounded")
    /\ \/ hits = 0 /\ web = 0 /\ draft' = Blank
       \/ hits + web > 0 /\ draft' \in Excerpts(hits, web)
       \/ hits + web > 0 /\ cfg.llm /\ draft' \in Answer
    /\ Go("reflect")
    /\ UNCHANGED <<intent, policy, rag, research, final, fallback, approval, webCalls>>

-----------------------------------------------------------------------------
(* Learning plans: nothing is stored before the user's approval.           *)

draft_plan ==
    /\ At("draft_plan")
    /\ Go("approve_plan")
    /\ UNCHANGED <<intent, policy, rag, research, answers, approval, webCalls>>

MustAskPlan == node = "approve_plan" /\ cfg.approval /\ decision = "none"

approve_plan ==
    /\ At("approve_plan")
    /\ ~MustAskPlan
    /\ planApproved' = (~cfg.approval \/ decision = "approved")
    /\ Go("persist_plan")
    /\ UNCHANGED <<intent, policy, rag, research, answers, saved, shown, granted, executed, webCalls>>

AskPlan ==
    /\ At("approve_plan")
    /\ MustAskPlan
    /\ phase' = "interrupted"
    /\ UNCHANGED <<cfg, node, decision, intent, policy, rag, research, answers, approval, supersteps,
                   webCalls, failures>>

persist_plan ==
    /\ At("persist_plan")
    /\ saved' = (saved \/ planApproved)
    /\ draft' \in Answer
    /\ Go("reflect")
    /\ UNCHANGED <<intent, policy, rag, research, final, fallback, planApproved, shown, granted, executed, webCalls>>

-----------------------------------------------------------------------------
(* Deep research.                                                          *)

(* Blank items of the model's list are dropped; without one there is no    *)
(* branch to run and the graph stops after this node.                      *)
plan_research ==
    /\ At("plan_research")
    /\ tasks' \in IF cfg.llm THEN 0..4 ELSE {3}
    /\ Go(IF tasks' = 0 THEN "END" ELSE "research_worker")
    /\ UNCHANGED <<intent, policy, rag, found, iterations, toolCalls, pending, seen, act, answers, approval, webCalls>>

AllowedTools ==
    LET default == {"search_private_knowledge", "list_knowledge_documents", "get_learning_plan"}
                      \cup (IF cfg.web THEN {"search_web"} ELSE {})
        listed == cfg.skill.tools \cap ResearchTools
        usable == IF listed = {} THEN default ELSE listed
    IN  IF cfg.web THEN usable ELSE usable \ {"search_web"}

(* The branches run in one superstep; the last one completes it. *)
research_worker ==
    /\ At("research_worker")
    /\ \E n \in IF "search_private_knowledge" \in AllowedTools THEN found.s..MaxSources ELSE {found.s} :
          found' = [found EXCEPT !.s = n]
    /\ tasks' = tasks - 1
    /\ IF tasks = 1 THEN Go("research_reason")
       ELSE UNCHANGED <<cfg, node, phase, decision, supersteps, failures>>
    /\ UNCHANGED <<intent, policy, rag, iterations, toolCalls, pending, seen, act, answers, approval, webCalls>>

(* Without a usable model reply two fixed searches are made, once. *)
OfflineCalls ==
    IF iterations > 0 THEN <<>>
    ELSE LET search(t) == IF t \in AllowedTools THEN <<[tool |-> t, arg |-> "topic"]>> ELSE <<>>
         IN  search("search_private_knowledge") \o search("search_web")

ToolBudget == IF toolCalls < MaxToolCalls THEN MaxToolCalls - toolCalls ELSE 0

Truncated(calls) == SubSeq(calls, 1, IF Len(calls) <= ToolBudget THEN Len(calls) ELSE ToolBudget)

(* The model's calls outside the allowed tools are dropped before the cut. *)
research_reason ==
    /\ At("research_reason")
    /\ \/ pending' = Truncated(OfflineCalls)
       \/ /\ cfg.llm
          /\ \E calls \in Batches :
                /\ \A i \in DOMAIN calls : calls[i].tool \in AllowedTools
                /\ pending' = Truncated(calls)
    /\ iterations' = iterations + 1
    /\ act' = Entry(seen, found)
    /\ Go(IF pending' # <<>> THEN "research_act" ELSE "synthesize_research")
    /\ UNCHANGED <<intent, policy, rag, tasks, found, toolCalls, seen, answers, approval, webCalls>>

PendingWrites == {pending[i] : i \in DOMAIN pending} \cap WriteCalls

MustAskTools == node = "research_act" /\ PendingWrites # {} /\ decision = "none"

AskTools ==
    /\ At("research_act")
    /\ MustAskTools
    /\ phase' = "interrupted"
    /\ shown' = shown \cup PendingWrites
    /\ UNCHANGED <<cfg, node, decision, intent, policy, rag, research, answers, planApproved, saved,
                   granted, executed, supersteps, webCalls, failures>>

(* Mutant: the answer to the interrupt is not looked at. *)
AllowedUnasked == TRUE

Allowed == PendingWrites = {} \/ decision = "approved"

(* What a tool may add to the sources. *)
Observed(tool, sources) ==
    {f \in [s : sources.s..MaxSources, w : sources.w..MaxSources] :
        /\ tool # "search_private_knowledge" => f.s = sources.s
        /\ tool # "search_web" => f.w = sources.w}

(* One call of the batch: rejected, skipped as a repetition, or executed. *)
ActCall ==
    /\ At("research_act")
    /\ ~MustAskTools
    /\ act.i <= Len(pending)
    /\ LET call == pending[act.i]
           runs == /\ call.tool \in WriteTools => Allowed
                   /\ call \notin act.seen
       IN  /\ \E sources \in IF runs THEN Observed(call.tool, act.found) ELSE {act.found} :
                 act' = [i |-> act.i + 1,
                         seen |-> IF runs THEN act.seen \cup {call} ELSE act.seen,
                         found |-> sources]
           /\ webCalls' = IF runs /\ call.tool = "search_web" THEN webCalls + 1 ELSE webCalls
           /\ executed' = [c \in WriteCalls |-> IF runs /\ c = call THEN executed[c] + 1 ELSE executed[c]]
    /\ UNCHANGED <<cfg, node, phase, decision, intent, policy, rag, tasks, found, iterations, toolCalls,
                   pending, seen, answers, planApproved, saved, shown, granted, supersteps, failures>>

(* Mutant: the observations do not enter research_outputs. *)
research_actForgetful ==
    /\ At("research_act")
    /\ ~MustAskTools
    /\ act.i > Len(pending)
    /\ toolCalls' = toolCalls + Len(pending)
    /\ found' = act.found
    /\ pending' = <<>>
    /\ act' = Entry({}, [s |-> 0, w |-> 0])
    /\ Go("research_critic")
    /\ UNCHANGED <<intent, policy, rag, tasks, iterations, seen, answers, approval, webCalls>>

(* The node returns: all its observations, the rejected and the skipped    *)
(* ones too, enter research_outputs and the count.                         *)
research_act ==
    /\ At("research_act")
    /\ ~MustAskTools
    /\ act.i > Len(pending)
    /\ toolCalls' = toolCalls + Len(pending)
    /\ seen' = seen \cup {pending[i] : i \in DOMAIN pending}
    /\ found' = act.found
    /\ pending' = <<>>
    /\ act' = Entry({}, [s |-> 0, w |-> 0])
    /\ Go("research_critic")
    /\ UNCHANGED <<intent, policy, rag, tasks, iterations, answers, approval, webCalls>>

(* Mutant: only the tool calls are limited. *)
ExhaustedCallsOnly == toolCalls >= MaxToolCalls

Exhausted == iterations >= MaxIterations \/ toolCalls >= MaxToolCalls

research_critic ==
    /\ At("research_critic")
    /\ \E continue \in BOOLEAN :
          /\ Exhausted => ~continue
          /\ ~cfg.llm /\ ~Exhausted => (continue <=> iterations < 2)
          /\ Go(IF continue THEN "research_reason" ELSE "synthesize_research")
    /\ UNCHANGED <<intent, policy, rag, research, answers, approval, webCalls>>

synthesize_research ==
    /\ At("synthesize_research")
    /\ hits' = found.s
    /\ web' = found.w
    /\ \/ hits' = 0 /\ web' = 0 /\ draft' = Blank
       \/ hits' + web' > 0 /\ draft' \in Excerpts(hits', web')
       \/ hits' + web' > 0 /\ cfg.llm /\ draft' \in Answer
    /\ Go("reflect")
    /\ UNCHANGED <<intent, policy, weak, quality, rewrites, webCount, research, final, fallback, approval, webCalls>>

-----------------------------------------------------------------------------
(* Quality gate.                                                           *)

(* Mutant: [S0] and [W0] pass. *)
CitationIssuesFromZero(a, s, w) ==
    \/ s > 0 /\ a.s = {}
    \/ w > 0 /\ a.w = {}
    \/ \E n \in a.s : n > s
    \/ \E n \in a.w : n > w

CitationIssues(a, s, w) ==
    \/ s > 0 /\ a.s = {}
    \/ w > 0 /\ a.w = {}
    \/ \E n \in a.s : n < 1 \/ n > s
    \/ \E n \in a.w : n < 1 \/ n > w

(* The model may revise the draft; an answer whose marks do not check is   *)
(* replaced by the list of what was retrieved, which is not checked again. *)
reflect ==
    /\ At("reflect")
    /\ \E revised \in IF cfg.llm THEN Answer ELSE {draft} :
          /\ fallback' = CitationIssues(revised, hits, web)
          /\ final' \in IF fallback' THEN Excerpts(hits, web) ELSE {revised}
    /\ Go("finalize")
    /\ UNCHANGED <<intent, policy, rag, research, draft, approval, webCalls>>

finalize ==
    /\ At("finalize")
    /\ Go("END")
    /\ UNCHANGED <<intent, policy, rag, research, answers, approval, webCalls>>

-----------------------------------------------------------------------------
(* A node raises: nothing of it is checkpointed, but the tool calls it has *)
(* made are made. Nothing raises before a call of interrupt().             *)
(* Command(resume=...) runs the pending node from its start with the       *)
(* user's answer, after an interrupt as after a failure; an answer that a  *)
(* failed execution has already taken is kept with the checkpoint and wins *)
(* over a later one.                                                       *)

Fail ==
    /\ phase = "running" /\ node # "END"
    /\ ~MustAskPlan /\ ~MustAskTools
    /\ failures < MaxFailures
    /\ failures' = failures + 1
    /\ phase' = "failed"
    /\ act' = IF node = "research_act" THEN Entry(seen, found) ELSE act
    /\ UNCHANGED <<cfg, node, decision, intent, policy, rag, tasks, found, iterations, toolCalls, pending, seen,
                   answers, approval, supersteps, webCalls>>

Resume(answer) ==
    /\ phase \in {"interrupted", "failed"}
    /\ phase' = "running"
    /\ decision' = IF decision = "none" THEN answer ELSE decision
    /\ granted' = IF node = "research_act" /\ decision' = "approved" THEN granted \cup PendingWrites ELSE granted
    /\ UNCHANGED <<cfg, node, intent, policy, rag, research, answers, planApproved, saved, shown, executed,
                   supersteps, webCalls, failures>>

Ended == node = "END" /\ UNCHANGED vars

Next ==
    \/ load_context \/ contextualize_question \/ route_intent
    \/ direct_chat \/ reminder \/ progress \/ update_progress \/ quiz
    \/ prepare_query \/ retrieve \/ grade_retrieval \/ decide_evidence
    \/ rewrite_query \/ web_search \/ generate_grounded
    \/ draft_plan \/ AskPlan \/ approve_plan \/ persist_plan
    \/ plan_research \/ research_worker \/ research_reason
    \/ AskTools \/ ActCall \/ research_act \/ research_critic \/ synthesize_research
    \/ reflect \/ finalize \/ Ended
    \/ Fail
    \/ \E answer \in {"approved", "rejected"} : Resume(answer)

Spec == Init /\ [][Next]_vars

-----------------------------------------------------------------------------
(* Properties.                                                             *)

(* The loops of the graph respect their budgets however the model behaves: *)
(* rewrites, reasoning rounds, tool calls (cut to what remains before they *)
(* are counted) and one web search per retrieval turn.                     *)
WithinBudgets ==
    /\ rewrites <= MaxRewrites
    /\ webCount <= 1
    /\ iterations <= MaxIterations
    /\ toolCalls + Len(pending) <= MaxToolCalls

(* A turn takes a bounded number of supersteps, which is what LangGraph's  *)
(* recursion_limit counts: 26 for deep research with the default budget.   *)
SuperstepBound ==
    supersteps <= IF intent = "deep_research" THEN 8 + 3 * MaxIterations ELSE 11 + 4 * MaxRewrites

(* What reaches the user after the quality gate cites every kind of source *)
(* that was retrieved. An answer that passed the check numbers only        *)
(* sources that were retrieved, whatever text it quotes. The list that     *)
(* replaces a failed one is not checked: it has every source under its own *)
(* mark, and any mark beyond those stands in the text of a source.         *)
FinalCited ==
    final # Unset =>
       /\ hits > 0 => final.s # {}
       /\ web > 0 => final.w # {}
       /\ ~fallback => final.s \subseteq 1..hits /\ final.w \subseteq 1..web
       /\ fallback => \E q \in Quoted(hits, web) :
                         final.s = 1..hits \cup q.s /\ final.w = 1..web \cup q.w

(* A write tool of the research loop takes effect only after the user was  *)
(* shown that very call and approved while it was pending.                 *)
WritesApproved ==
    \A c \in WriteCalls : executed[c] > 0 => c \in shown /\ c \in granted

(* A write call is not repeated within a turn, except by a node that       *)
(* failed after making it and was resumed.                                 *)
WritesNotRepeated ==
    \A c \in WriteCalls : executed[c] <= 1 + failures

(* Outside deep research the web is searched only when the user wants web  *)
(* evidence or local evidence stays insufficient after every rewrite, and  *)
(* never for a question restricted to private sources.                     *)
WebNeedsCause ==
    intent # "deep_research" /\ webCalls > 0 =>
       \/ policy = "web_required"
       \/ policy = "auto" /\ quality # "good" /\ rewrites = MaxRewrites

(* The research loop stays within its budgets, and the web is asked only    *)
(* when the user asked for it or the private documents were not enough.     *)
LoopBounded == TypeOK /\ WithinBudgets /\ WebNeedsCause

(* README.md:162: a question that says not to use the web forces the local *)
(* mode. Deep research does not look at the policy.                        *)
LocalModeForced == policy = "local_only" => webCalls = 0

(* README.md:46: the deep research branch, like every other, leads through *)
(* reflect and finalize to END. With no task left there is no branch.      *)
EveryBranchFinalizes == node = "END" => final # Unset
==============================================================================
