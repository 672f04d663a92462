------------------------------ MODULE Retrieval ------------------------------
(***************************************************************************)
(* Retrieval for one question: dense candidates from the vector store, each *)
(* checked against the canonical store in a read of its own; lexical        *)
(* candidates, again document by document; fusion, reranking, diversity and *)
(* abstention. Documents are replaced, projected and deleted between any    *)
(* two of these reads.                                                      *)
(***************************************************************************)
EXTENDS Naturals, FiniteSets

CONSTANTS
    Corpus,       \* documents
    Revisions,    \* bound: replacements of documents
    MaxLimit      \* bound: the limit of a question

ASSUME RetrievalConstants == {Revisions, MaxLimit} \subseteq Nat

VARIABLES
    canon,   \* canon[d]: the canonical document and whether its projection is pending
    points,  \* points[d]: the chunks of d in the vector store
    query,   \* the question being answered
    current  \* chunks that were current since the question was asked

retrievalVars == <<canon, points, query, current>>

-----------------------------------------------------------------------------
(* Chunks. The identity of a chunk has the content version, not the title. *)

\* The first content is long enough for two chunks.
Chunks(d, content, title) ==
    {[id |-> <<d, content, part>>, document |-> d, title |-> title] : part \in IF content = 0 THEN {1, 2} ELSE {1}}

ChunksOf(d) == Chunks(d, canon[d].content, canon[d].title)

Point(chunk, readable) ==
    [id |-> chunk.id, document |-> chunk.document, title |-> chunk.title, readable |-> readable]

NoQuery == [at |-> "idle"]

\* Tenant, project and ACL; a tombstone is visible to nobody.
Visible(d) == ~ canon[d].deleted /\ canon[d].readable

\* Mutant: content whose projection is not confirmed.
StoredUnconfirmed(d) == Visible(d)

Stored(d) == ~ canon[d].pending /\ Visible(d)

CurrentNow(c) ==
    UNION {Chunks(d, c[d].content, c[d].title) :
           d \in {e \in Corpus : ~ c[e].pending /\ ~ c[e].deleted /\ c[e].readable}}

RetrievalInit ==
    /\ canon = [d \in Corpus |-> [content |-> 0, title |-> 0, deleted |-> FALSE, readable |-> TRUE,
                                  pending |-> FALSE, revision |-> 0]]
    /\ points = [d \in Corpus |-> {Point(c, TRUE) : c \in Chunks(d, 0, 0)}]
    /\ query = NoQuery
    /\ current = {}

Witnessed == current' = IF query.at = "idle" THEN {} ELSE current \cup CurrentNow(canon')

-----------------------------------------------------------------------------
(* Ingestion, as far as it concerns readers.                               *)

Stage(d) ==
    /\ \A e \in Corpus : canon[e].revision < Revisions
    /\ ~ canon[d].deleted
    /\ \E next \in {[canon[d] EXCEPT !.content = @ + 1], [canon[d] EXCEPT !.title = @ + 1],
                    [canon[d] EXCEPT !.readable = ~ @], [canon[d] EXCEPT !.deleted = TRUE]} :
         canon' = [canon EXCEPT ![d] = [next EXCEPT !.pending = TRUE, !.revision = next.revision + 1]]
    /\ Witnessed
    /\ UNCHANGED <<points, query>>

Projection(d) ==
    IF canon[d].deleted THEN {}
    ELSE {Point(c, canon[d].readable) : c \in ChunksOf(d)}

\* The upload replaces chunks of the same identity; the others are pruned after it.
Upload(d) ==
    /\ canon[d].pending
    /\ points' = [points EXCEPT ![d] = {c \in @ : \A n \in Projection(d) : n.id # c.id} \cup Projection(d)]
    /\ UNCHANGED <<canon, query, current>>

PruneAndMark(d) ==
    /\ canon[d].pending /\ Projection(d) \subseteq points[d]
    /\ points' = [points EXCEPT ![d] = Projection(d)]
    /\ canon' = [canon EXCEPT ![d].pending = FALSE]
    /\ Witnessed
    /\ UNCHANGED query

-----------------------------------------------------------------------------
(* The question.                                                           *)

Settled(hits, outcome) == query' = [query EXCEPT !.at = "answered", !.hits = hits, !.outcome = outcome]

\* The limit of the candidate lists, four times the question's and at most 20.
CandidateLimit(limit) == IF 4 * limit > 20 THEN 20 ELSE 4 * limit

\* A question for a secret is not answered at all.
AsksForSecret(strategy, sensitive) == sensitive /\ strategy = "hybrid"

Ask(limit, strategy, sensitive) ==
    /\ query.at \in {"idle", "answered"}
    /\ query' = [at |-> IF AsksForSecret(strategy, sensitive) THEN "answered" ELSE "asked",
                 limit |-> limit, strategy |-> strategy, sensitive |-> sensitive,
                 left |-> {}, dense |-> {}, lexical |-> {}, hits |-> {}, outcome |-> "ok"]
    /\ current' = CurrentNow(canon)
    /\ UNCHANGED <<canon, points>>

\* Chunks the subject may read; without the confidence policy, those of
\* sufficient score. A failure of the store is an error of the request.
FetchDense ==
    /\ query.at = "asked"
    /\ LET readable == {c \in UNION {points[d] : d \in Corpus} : c.readable} IN
       \/ \E found \in IF query.strategy = "hybrid" THEN {readable} ELSE SUBSET readable :
            query' = [query EXCEPT !.at = "dense",
                        !.left = {[id |-> c.id, document |-> c.document, title |-> c.title] : c \in found}]
       \/ Settled({}, "failed")
    /\ UNCHANGED <<canon, points, current>>

\* What the canonical document has under the candidate's identity, if it is
\* all the same.
Matches(candidate) == candidate \in ChunksOf(candidate.document)

DenseLimit == IF query.strategy = "hybrid" THEN CandidateLimit(query.limit) ELSE query.limit

\* One candidate, the best of those left, meets the canonical document.
CheckCandidate ==
    /\ query.at = "dense" /\ Cardinality(query.dense) < DenseLimit
    /\ \E candidate \in query.left :
         query' = [query EXCEPT !.left = @ \ {candidate},
                     !.dense = IF Stored(candidate.document) /\ Matches(candidate)
                               THEN @ \cup {candidate} ELSE @]
    /\ UNCHANGED <<canon, points, current>>

DenseEnds ==
    /\ query.at = "dense"
    /\ query.left = {} \/ Cardinality(query.dense) >= DenseLimit
    /\ IF query.strategy = "dense" THEN Settled(query.dense, "ok")
       ELSE query' = [query EXCEPT !.at = "lexical", !.left = Corpus]
    /\ UNCHANGED <<canon, points, current>>

\* BM25 reads the documents of the project one by one.
ReadDocument ==
    /\ query.at = "lexical"
    /\ \E d \in query.left :
         query' = [query EXCEPT !.left = @ \ {d},
                     !.lexical = IF Stored(d) THEN @ \cup ChunksOf(d) ELSE @]
    /\ UNCHANGED <<canon, points, current>>

\* A chunk on both lists must be the same on both.
Agree(dense, lexical) == \A a \in dense, b \in lexical : a.id = b.id => a = b

DocumentsOf(chunks) == {c.document : c \in chunks}

\* Mutant: the best chunks, whatever their documents.
Best(hits, fused) == TRUE

\* Every document gives its best chunk before any gives its second.
Diverse(hits, fused) ==
    DocumentsOf(hits) = DocumentsOf(fused) \/ Cardinality(DocumentsOf(hits)) = Cardinality(hits)

\* Fusion orders the union of the two lists, and the reranker orders it anew:
\* any order, of which `limit' chunks are kept.
Ranked(lexical, limit) ==
    LET fused == query.dense \cup lexical
        size  == IF Cardinality(fused) < limit THEN Cardinality(fused) ELSE limit
    IN  {hits \in SUBSET fused : Cardinality(hits) = size /\ Diverse(hits, fused)}

\* Without candidates on both lists, or without confidence, it abstains.
Confident(lexical) == query.dense # {} /\ lexical # {}

\* Lexical candidates are those whose terms give a positive score.
Scored(chunks) == SUBSET chunks

\* The reranker is called only with candidates; it may time out, or answer with
\* fewer scores or other ones than it was asked for, which ends the request.
RerankerFails(candidates) == candidates # {} /\ Settled({}, "reranker_unavailable")

Rank ==
    /\ query.at = "lexical" /\ query.left = {}
    /\ \E lexical \in Scored(query.lexical) :
         IF ~ Agree(query.dense, lexical) THEN Settled({}, "failed")
         ELSE \/ RerankerFails(query.dense \cup lexical)
              \/ Settled({}, "ok")
              \/ Confident(lexical) /\ \E hits \in Ranked(lexical, query.limit) : Settled(hits, "ok")
    /\ UNCHANGED <<canon, points, current>>

RetrievalNext ==
    \/ \E d \in Corpus : Stage(d) \/ Upload(d) \/ PruneAndMark(d)
    \/ \E limit \in 1 .. MaxLimit, strategy \in {"dense", "hybrid"}, sensitive \in BOOLEAN :
         Ask(limit, strategy, sensitive)
    \/ FetchDense \/ CheckCandidate \/ DenseEnds \/ ReadDocument \/ Rank

RetrievalSpec == RetrievalInit /\ [][RetrievalNext]_retrievalVars

-----------------------------------------------------------------------------
RetrievalTypeOK ==
    /\ \A d \in Corpus : canon[d].revision \in 0 .. Revisions
    /\ query.at \in {"idle", "asked", "dense", "lexical", "answered"}
    /\ query.at # "idle" => query.outcome \in {"ok", "failed", "reranker_unavailable"}

\* Everything that is retrieved was, at one moment of the question at least,
\* the canonical content, projected, not deleted and visible to the asker; no
\* chunk comes twice, every document is heard before one is heard twice, and
\* without the lexical list no answer mixes two versions of a document. The
\* vector store, the enumeration and each check are from different moments.
HitsWereCurrent ==
    query.at = "answered" =>
        /\ query.hits \subseteq current
        /\ Cardinality({h.id : h \in query.hits}) = Cardinality(query.hits)
        /\ Cardinality(query.hits) <= query.limit
        /\ query.strategy = "dense" => \A a, b \in query.hits : a.document = b.document => a.id[2] = b.id[2]
        /\ query.strategy = "hybrid" /\ query.hits # {} =>
             /\ ~ query.sensitive
             /\ Cardinality(DocumentsOf(query.hits)) < Cardinality(query.hits)
                => DocumentsOf(query.dense) \subseteq DocumentsOf(query.hits)
=============================================================================
