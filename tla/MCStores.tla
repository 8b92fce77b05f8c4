------------------------------ MODULE MCStores ------------------------------
(* The three stores of the backend that take no part in a turn of the agent *)
(* graph: the learning plans, the knowledge store and the skills directory. *)
(* They share no state, so a property of one holds in every interleaving of *)
(* them if it holds while the other two rest: `store` is the one that moves.*)
EXTENDS Naturals

CONSTANTS
    Clients, Days, MaxPlans, MaxMarks,
    Docs, Chunks, TopK, FinalK, MaxPerDoc, K, WVector, WKeyword, MaxFaults,
    Packages, NoPackage, Ships, Refs, ListOrder, MaxInstalls, MaxToggles, MaxDeletes, MaxCrash,
    rich, plain, odd, broken

VARIABLES
    store,
    items, active, saved, client, asked, ever, overlap, marks,
    status, past, points, upload, deleting, search, semantic, faults,
    pkg, place, files, man, loop, toggle, delete, run, count, crashes, mixed

P == INSTANCE Plans
D == INSTANCE Knowledge
S == INSTANCE Skills

ASSUME StoresAssumption == P!PlansAssumption /\ D!KnowledgeAssumption /\ S!SkillAssumption

\* Two documents, of three chunks and one.
TwoDocs == {"a", "b"}
FourChunks == {<<"a", 1>>, <<"a", 2>>, <<"a", 3>>, <<"b", 1>>}

\* A package with a resource, one without, one with a file of a refused
\* suffix, and one whose manifest names a resource it does not ship.
MCShips == [p \in Packages |-> {"manifest", "SKILL"} \cup (IF p = rich THEN {"resource"} ELSE {})
                                                     \cup (IF p = odd THEN {"odd"} ELSE {})]
MCRefs == [p \in Packages |-> IF p \in {rich, broken} THEN {"resource"} ELSE {}]
MCListOrder == [manifest |-> 2, SKILL |-> 1, resource |-> 3]

plans == <<items, active, saved, client, asked, ever, overlap, marks>>
documents == <<status, past, points, upload, deleting, search, semantic, faults>>
skills == <<pkg, place, files, man, loop, toggle, delete, run, count, crashes, mixed>>
vars == <<store, plans, documents, skills>>

Init ==
    /\ store \in {"plans", "documents", "skills"} /\ P!Init /\ D!Init /\ S!Init
    /\ store # "documents" => semantic

Next ==
    \/ store = "plans" /\ P!Next /\ UNCHANGED <<store, documents, skills>>
    \/ store = "documents" /\ D!Next /\ UNCHANGED <<store, plans, skills>>
    \/ store = "skills" /\ S!Next /\ UNCHANGED <<store, plans, documents>>

Spec == Init /\ [][Next]_vars

-----------------------------------------------------------------------------

\* mark_plan_day: a day is done only if somebody marked that day of that plan,
\* and an answered mark holds as long as no two marks overlap.
PlanMarks == P!TypeOK /\ P!OnlyMarked /\ P!MarkHoldsAlone

\* index_document and delete_document: a document called indexed has its
\* vectors, and no search answers from one deleted before it began, whichever
\* store fails and wherever the process ends.
StoresAgree == D!TypeOK /\ D!IndexedMeansPoints /\ D!NoGhosts

\* reciprocal_rank_fusion and limit_chunks_per_document: two rankings that
\* agree are not contradicted, and every document gets its share.
AnswersRanked == D!AgreementKept /\ D!DocumentShare

\* install_zip, delete and set_enabled: no half skill under the skill's name
\* and no leftover directory that list() would offer.
SkillWhole == S!TypeOK /\ S!DestLoadable /\ S!NoLeftovers

\* install_zip: a refused package never costs the installed one.
RejectedKeepsOld == S!RejectedKeepsOld
=============================================================================
