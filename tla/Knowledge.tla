------------------------------ MODULE Knowledge ------------------------------
(***************************************************************************)
(* The knowledge store of one user: documents with their chunks in SQLite, *)
(* vectors of the chunks in Qdrant, and the search that ranks both ways,   *)
(* fuses the rankings and limits the chunks of one document. The two       *)
(* stores share no transaction: every call to either can fail, and the     *)
(* process can end between them. Uploads run on the event loop, one at a   *)
(* time; deletions and searches run in threads.                            *)
(***************************************************************************)
EXTENDS Integers, Sequences, FiniteSets, SequencesExt

CONSTANTS
    Docs,       \* documents
    Chunks,     \* chunk ids: pairs of a document and a number
    TopK,       \* candidate_k of both searches
    FinalK,     \* hits of an answer
    MaxPerDoc,  \* max_chunks_per_document
    K,          \* rrf_k
    WVector, WKeyword,  \* the weights of the two rankings, in hundredths
    MaxFaults   \* bound: failures of Qdrant or the embeddings, deaths

KnowledgeAssumption ==
    IsFiniteSet(Chunks) /\ Chunks \subseteq Docs \X Nat /\ TopK \in Nat \ {0} /\ FinalK \in Nat \ {0} /\ MaxPerDoc \in Nat
    /\ K \in Nat /\ WVector \in Nat /\ WKeyword \in Nat /\ MaxFaults \in Nat

VARIABLES
    status,   \* vector_status of each document; "none": not in SQLite
    past,     \* documents that were deleted (an id is never used again)
    points,   \* documents whose vectors are in Qdrant
    upload,   \* the document being uploaded, and where; NoUpload
    deleting, \* documents deleted in SQLite and not yet in Qdrant
    search,   \* the search in progress
    semantic, \* semantic_enabled: set by the configuration of this process
    faults

vars == <<status, past, points, upload, deleting, search, semantic, faults>>

NoDoc == "no document"
NoUpload == [doc |-> NoDoc, pc |-> "idle"]
NoSearch == [pc |-> "idle", gone |-> {}, keyword |-> <<>>, vector |-> <<>>, hits |-> <<>>]

Rows == {c \in Chunks : status[c[1]] # "none"}
Fault == faults < MaxFaults /\ faults' = faults + 1

Init ==
    /\ status = [d \in Docs |-> "none"] /\ past = {} /\ points = {}
    /\ upload = NoUpload /\ deleting = {} /\ search = NoSearch
    /\ semantic \in BOOLEAN /\ faults = 0

---------------------------------------------------------------------------
(* upload_document: add_document and index_document.                       *)

AddDocument(d) ==
    /\ upload.pc = "idle" /\ status[d] = "none" /\ d \notin past
    /\ status' = [status EXCEPT ![d] = "pending"]
    /\ upload' = [doc |-> d, pc |-> "embed"]
    /\ UNCHANGED <<past, points, deleting, search, semantic, faults>>

\* upsert, with wait
Upsert ==
    /\ upload.pc = "embed" /\ semantic
    /\ points' = points \cup {upload.doc}
    /\ upload' = [upload EXCEPT !.pc = "stored"]
    /\ UNCHANGED <<status, past, deleting, search, semantic, faults>>

SetStatus(s) == status' = [status EXCEPT ![upload.doc] = IF @ = "none" THEN "none" ELSE s]

Indexed ==
    /\ upload.pc = "stored"
    /\ SetStatus("indexed") /\ upload' = NoUpload
    /\ UNCHANGED <<past, points, deleting, search, semantic, faults>>

\* no embedding provider
Fallback ==
    /\ upload.pc = "embed" /\ ~semantic
    /\ SetStatus("fallback") /\ upload' = NoUpload
    /\ UNCHANGED <<past, points, deleting, search, semantic, faults>>

\* the embeddings or Qdrant raise, perhaps after the points were stored
IndexFails ==
    /\ upload.pc \in {"embed", "stored"} /\ semantic /\ Fault
    /\ SetStatus("failed") /\ upload' = NoUpload
    /\ UNCHANGED <<past, points, deleting, search, semantic>>

---------------------------------------------------------------------------
(* delete_document. A second request finds no row and does nothing.        *)

DeleteRow(d) ==
    /\ status[d] # "none" /\ upload.doc # d
    /\ status' = [status EXCEPT ![d] = "none"] /\ past' = past \cup {d}
    /\ deleting' = deleting \cup {d}
    /\ UNCHANGED <<points, upload, search, semantic, faults>>

DeletePoints(d) ==
    /\ d \in deleting
    /\ points' = points \ {d} /\ deleting' = deleting \ {d}
    /\ UNCHANGED <<status, past, upload, search, semantic, faults>>

\* Qdrant raises: the request fails, the row is gone
DeleteFails(d) ==
    /\ d \in deleting /\ Fault
    /\ deleting' = deleting \ {d}
    /\ UNCHANGED <<status, past, points, upload, search, semantic>>

---------------------------------------------------------------------------
(* search.                                                                 *)

\* the members of a finite set in a strict total order R on it
Ordered(S, R) ==
    [n \in 1..Cardinality(S) |-> CHOOSE x \in S : Cardinality({y \in S : <<y, x>> \in R}) = n - 1]

\* what a sequence has at the places in I, in its order
Picked(s, I) ==
    LET o == Ordered(I, {ij \in I \X I : ij[1] < ij[2]}) IN [n \in 1..Cardinality(I) |-> s[o[n]]]

\* a filter: what of s is in T
Within(s, T) == Picked(s, {i \in DOMAIN s : s[i] \in T})

\* a ranking of at most TopK members of a set, best first
Rankings(S) == {s \in UNION {[1..n -> S] : n \in 0..(IF TopK < Cardinality(S) THEN TopK ELSE Cardinality(S))} :
                   \A i, j \in DOMAIN s : s[i] = s[j] => i = j}

KeywordSearch ==
    /\ search.pc = "idle"
    /\ \E s \in Rankings(Rows) :
          search' = [NoSearch EXCEPT !.pc = IF semantic THEN "vector" ELSE "fuse", !.gone = past, !.keyword = s]
    /\ UNCHANGED <<status, past, points, upload, deleting, semantic, faults>>

\* query_points: a full answer unless fewer points pass the threshold
QueryPoints ==
    /\ search.pc = "vector"
    /\ \E s \in Rankings({c \in Chunks : c[1] \in points}) :
          search' = [search EXCEPT !.pc = "rows", !.vector = s]
    /\ UNCHANGED <<status, past, points, upload, deleting, semantic, faults>>

\* the vector search raises: the search goes on with the keywords alone
QueryFails ==
    /\ search.pc = "vector" /\ Fault
    /\ search' = [search EXCEPT !.pc = "fuse"]
    /\ UNCHANGED <<status, past, points, upload, deleting, semantic>>

\* faulty: points are turned into hits without their rows
GetChunksUnchecked ==
    /\ search.pc = "rows"
    /\ search' = [search EXCEPT !.pc = "fuse"]
    /\ UNCHANGED <<status, past, points, upload, deleting, semantic, faults>>

\* get_chunks: points without a row in SQLite are dropped
GetChunks ==
    /\ search.pc = "rows"
    /\ search' = [search EXCEPT !.pc = "fuse",
                                !.vector = Within(search.vector, Rows)]
    /\ UNCHANGED <<status, past, points, upload, deleting, semantic, faults>>

Rank(s, c) == CHOOSE i \in DOMAIN s : s[i] = c

\* the score of reciprocal_rank_fusion, over the common denominator (the code
\* rounds it to eight places, finer than the scores of the run differ)
Denominator == LET F[n \in 0..TopK] == IF n = 0 THEN 1 ELSE F[n - 1] * (K + n) IN F[TopK]
Part(s, c) == IF c \in Range(s) THEN Denominator \div (K + Rank(s, c)) ELSE 0
Score(v, k, c) == WVector * Part(v, c) + WKeyword * Part(k, c)

\* the chunks in the order in which the scores dictionary gets them; the sort
\* is stable
Merged(v, k) == v \o Within(k, Range(k) \ Range(v))

Fusion(v, k) ==
    LET m == Merged(v, k)
        Before == {ab \in Range(m) \X Range(m) :
                      \/ Score(v, k, ab[1]) > Score(v, k, ab[2])
                      \/ Score(v, k, ab[1]) = Score(v, k, ab[2]) /\ Rank(m, ab[1]) < Rank(m, ab[2])}
    IN Ordered(Range(m), Before)

\* limit_chunks_per_document
Limit(hits) ==
    IF MaxPerDoc = 0 THEN hits
    ELSE LET Earlier(i) == {j \in 1..i : hits[j][1] = hits[i][1]}
         IN Picked(hits, {i \in DOMAIN hits : Cardinality(Earlier(i)) <= MaxPerDoc})

\* rerank, without a reranker
Best(hits) == SubSeq(hits, 1, IF Len(hits) < FinalK THEN Len(hits) ELSE FinalK)

\* faulty: neighbours only are limited
LimitNeighbours(hits) ==
    SelectSeq(hits, LAMBDA c : Rank(hits, c) = 1 \/ hits[Rank(hits, c) - 1][1] # c[1])
FuseNeighbours ==
    /\ search.pc = "fuse"
    /\ search' = [search EXCEPT !.pc = "answer",
                                !.hits = Best(LimitNeighbours(Fusion(search.vector, search.keyword)))]
    /\ UNCHANGED <<status, past, points, upload, deleting, semantic, faults>>

Fuse ==
    /\ search.pc = "fuse"
    /\ search' = [search EXCEPT !.pc = "answer", !.hits = Best(Limit(Fusion(search.vector, search.keyword)))]
    /\ UNCHANGED <<status, past, points, upload, deleting, semantic, faults>>

Answer ==
    /\ search.pc = "answer" /\ search' = NoSearch
    /\ UNCHANGED <<status, past, points, upload, deleting, semantic, faults>>

\* the process ends; what was under way is forgotten, the next one may be
\* configured otherwise
Die ==
    /\ Fault
    /\ upload' = NoUpload /\ deleting' = {} /\ search' = NoSearch
    /\ semantic' \in BOOLEAN
    /\ UNCHANGED <<status, past, points>>

Next ==
    \/ \E d \in Docs : AddDocument(d) \/ DeleteRow(d) \/ DeletePoints(d) \/ DeleteFails(d)
    \/ Upsert \/ Fallback \/ Indexed \/ IndexFails
    \/ KeywordSearch \/ QueryPoints \/ QueryFails \/ GetChunks \/ Fuse \/ Answer \/ Die

Spec == Init /\ [][Next]_vars

---------------------------------------------------------------------------
\* Types of both stores and of the requests.
TypeOK ==
    /\ status \in [Docs -> {"none", "pending", "indexed", "failed", "fallback"}]
    /\ semantic \in BOOLEAN
    /\ past \subseteq Docs /\ points \subseteq Docs /\ deleting \subseteq Docs
    /\ upload.doc \in Docs \cup {NoDoc} /\ upload.pc \in {"idle", "embed", "stored"}
    /\ search.pc \in {"idle", "vector", "rows", "fuse", "answer"}
    /\ Range(search.hits) \subseteq Chunks /\ faults \in 0..MaxFaults

\* A document that is called indexed can be found by its vectors.
IndexedMeansPoints == \A d \in Docs : status[d] = "indexed" => d \in points

\* A search never answers with a chunk of a document that had been deleted
\* when it began, whatever a failed deletion left in Qdrant.
NoGhosts == search.pc = "answer" => \A c \in Range(search.hits) : c[1] \notin search.gone

\* Fusion respects agreement: a chunk both rankings put before another is not
\* answered behind it.
AgreementKept ==
    search.pc = "answer" =>
        \A i, j \in DOMAIN search.hits :
            LET a == search.hits[i]
                b == search.hits[j]
                Ahead(s) == a \in Range(s) /\ (b \in Range(s) => Rank(s, a) < Rank(s, b))
            IN Ahead(search.vector) /\ Ahead(search.keyword) => i < j

\* The answer has at most MaxPerDoc chunks of a document and no chunk twice, and
\* while it has room it leaves out a chunk only when the document has its share.
DocumentShare ==
    search.pc = "answer" =>
        LET Of(d) == {c \in Range(search.hits) : c[1] = d}
            found == Range(search.vector) \cup Range(search.keyword)
            Share(d) == LET n == Cardinality({c \in found : c[1] = d})
                        IN IF MaxPerDoc > 0 /\ MaxPerDoc < n THEN MaxPerDoc ELSE n
        IN /\ Cardinality(Range(search.hits)) = Len(search.hits) /\ Len(search.hits) <= FinalK
           /\ \A d \in Docs : /\ Cardinality(Of(d)) <= Share(d)
                             /\ Len(search.hits) < FinalK => Cardinality(Of(d)) = Share(d)
=============================================================================
