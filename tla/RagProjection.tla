--------------------------- MODULE RagProjection ----------------------------
(***************************************************************************)
(* The ingestion of one document into the knowledge index: the canonical   *)
(* document in MongoDB (stage, mark_projected), its chunks in Qdrant       *)
(* (replace_documents, tombstone) and the workers that run the rag.* jobs  *)
(* (CanonicalIngestionApplication behind RagJobHandlers).                  *)
(*                                                                         *)
(* One call of a store is one step. Between two of them other workers run, *)
(* Qdrant becomes unavailable and processes die; a job that is not         *)
(* finished is run again, by any worker. The queue is JobQueue; here it is *)
(* the set of jobs that are still open.                                    *)
(***************************************************************************)
EXTENDS Naturals

CONSTANTS
    Workers,  \* worker processes
    Events,   \* the commands of the sources: kind, source_sequence, content
    Contents, \* distinguishable contents: text, content_version and title, where
              \* the title stands for all that a chunk's payload carries besides
    Empty,    \* the text of a deleted document; it has no chunks
    Batches,  \* uploads that one document's chunks take
    Faults,   \* bound: outages of Qdrant and deaths of processes
    None      \* no content: the document is deleted, or there is none

Kinds == {"upsert", "tombstone", "extract", "reindex"}

ASSUME ProjectionConstants ==
    /\ Batches \in Nat \ {0}
    /\ Faults \in Nat
    /\ None \notin Contents \cup Events
    /\ \A x \in Contents : DOMAIN x = {"text", "version", "title"}
    /\ \A e \in Events : /\ e.kind \in Kinds
                         /\ e.seq \in Nat \ {0}
                         /\ e.content \in Contents \cup {None}
                         /\ e.content = None <=> e.kind = "tombstone"

VARIABLES
    canon,   \* the canonical document, and whether its projection is pending
    nodes,   \* nodes[c]: chunk c in Qdrant, its source_sequence and its payload
    jobs,    \* jobs[e]: what became of the job of command e
    workers, \* workers[w]: where worker w is in its handler
    faults,  \* faults still to come
    late     \* history: a chunk of another than the canonical revision was uploaded

vars == <<canon, nodes, jobs, workers, faults, late>>

-----------------------------------------------------------------------------
(* Types.                                                                  *)

\* A document as a worker has it in hand.
Document == [seq : Nat, content : Contents \cup {None}]

Canonical == [doc : Document, pending : BOOLEAN]

NoDocument == [seq |-> 0, content |-> None]

Parts == 1 .. Batches

\* content_checksum is the hash of this, and of nothing else of the content.
TextOf(content) == IF content = None THEN Empty ELSE content.text

\* A chunk id is a hash of content_version, text and position: not of the
\* sequence, and not of the title.
Chunks == {<<x.version, x.text, n>> : x \in Contents, n \in Parts}

ChunksOf(doc) ==
    IF TextOf(doc.content) = Empty THEN {}
    ELSE {<<doc.content.version, doc.content.text, n>> : n \in Parts}

\* The point that Qdrant holds of a chunk.
Node == [seq : Nat, title : {x.title : x \in Contents} \cup {None}]

NodeOf(doc) == [seq |-> doc.seq, title |-> doc.content.title]

NoNode == [seq |-> 0, title |-> None]

\* The calls of a handler, in their order.
Calls == {"idle", "stage", "refused", "duplicate",               \* ingest, tombstone
          "plan", "add", "prune", "delete", "mark",              \* _project
          "reread", "inspect", "pending", "settled", "compare",  \* reindex_project, reconcile
          "finish"}

Worker ==
    [at       : Calls,
     job      : Events \cup {None},
     doc      : Document,
     part     : Parts,      \* the upload that is next
     after    : {"finish", "reread", "inspect"}, \* where _project returns to
     conflict : BOOLEAN]    \* the result counts a conflict

TypeOK ==
    /\ canon \in Canonical
    /\ nodes \in [Chunks -> Node]
    /\ jobs \in [Events -> {"open", "completed", "dead_letter"}]
    /\ workers \in [Workers -> Worker]
    /\ faults \in 0 .. Faults
    /\ late \in BOOLEAN
    /\ \A w \in Workers : workers[w].at # "idle" <=> workers[w].job # None
    /\ \A w \in Workers : workers[w].at \in {"add", "prune"} => workers[w].doc.content # None

Idle == [at |-> "idle", job |-> None, doc |-> NoDocument, part |-> 1,
         after |-> "finish", conflict |-> FALSE]

Init ==
    /\ canon = [doc |-> NoDocument, pending |-> FALSE]
    /\ nodes = [c \in Chunks |-> NoNode]
    /\ jobs = [e \in Events |-> "open"]
    /\ workers = [w \in Workers |-> Idle]
    /\ faults = Faults
    /\ late = FALSE

-----------------------------------------------------------------------------
(* ingest and tombstone.                                                   *)

Goes(w, at) == workers' = [workers EXCEPT ![w].at = at]

\* A worker claims an open job and its handler accepts the payload. Losing
\* the lease lets two workers run one job.
Begin(w) ==
    /\ workers[w].at = "idle"
    /\ \E e \in Events :
          /\ jobs[e] = "open"
          /\ workers' = [workers EXCEPT ![w] =
                [Idle EXCEPT !.at = "stage", !.job = e,
                             !.doc = [seq |-> e.seq, content |-> e.content],
                             !.after = IF e.kind = "reindex" THEN "reread" ELSE "finish"]]
    /\ UNCHANGED <<canon, nodes, jobs, faults, late>>

\* Mutant: the selector has no condition on source_sequence.
StageAny(w) ==
    /\ workers[w].at = "stage"
    /\ canon' = [doc |-> workers[w].doc, pending |-> TRUE]
    /\ Goes(w, "plan")
    /\ UNCHANGED <<nodes, jobs, faults, late>>

\* stage: replace_one, with an upsert that a newer or equal document refuses
Stage(w) ==
    /\ workers[w].at = "stage"
    /\ IF canon.doc.seq < workers[w].doc.seq
       THEN /\ canon' = [doc |-> workers[w].doc, pending |-> TRUE]
            /\ Goes(w, "plan")
       ELSE /\ Goes(w, "refused")
            /\ UNCHANGED canon
    /\ UNCHANGED <<nodes, jobs, faults, late>>

\* What the store compares of two documents: the sequence and the checksum.
SameChecksum(doc, other) ==
    doc.seq = other.seq /\ TextOf(doc.content) = TextOf(other.content)

\* _classify_existing: a second read says why. A stale or conflicting document
\* is not projected. One with the text of the stored document is a duplicate,
\* whatever its version and title, and also when one of the two is a tombstone
\* and the other an empty document.
Classify(w) ==
    /\ workers[w].at = "refused"
    /\ LET doc == workers[w].doc IN
       workers' = [workers EXCEPT
          ![w].at = IF SameChecksum(doc, canon.doc) THEN "duplicate" ELSE workers[w].after,
          ![w].conflict = doc.seq = canon.doc.seq /\ ~ SameChecksum(doc, canon.doc)]
    /\ UNCHANGED <<canon, nodes, jobs, faults, late>>

\* A duplicate whose projection is pending is projected as it is stored now.
Resume(w) ==
    /\ workers[w].at = "duplicate"
    /\ workers' = [workers EXCEPT
          ![w].at = IF canon.pending THEN "plan" ELSE workers[w].after,
          ![w].doc = canon.doc]
    /\ UNCHANGED <<canon, nodes, jobs, faults, late>>

-----------------------------------------------------------------------------
(* _project.                                                               *)

\* the chunks that Qdrant holds under the sequence of doc
Projected(doc) == {c \in Chunks : nodes[c].seq = doc.seq /\ nodes[c] # NoNode}

Newer(doc) == \E c \in Chunks : nodes[c].seq > doc.seq

\* Mutant: a deleted document is projected like any other.
PlanAsReplacement(w) ==
    /\ workers[w].at = "plan"
    /\ LET doc == workers[w].doc IN
       Goes(w, IF Newer(doc) THEN "mark"
               ELSE IF Projected(doc) = {}
               THEN IF ChunksOf(doc) = {} THEN "prune" ELSE "add"
               ELSE IF Projected(doc) = ChunksOf(doc) THEN "mark"
               ELSE workers[w].after)
    /\ UNCHANGED <<canon, nodes, jobs, faults, late>>

\* replace_documents and tombstone read what is there: a newer sequence makes
\* the call succeed without a change, the same one with other chunks makes it
\* fail ("conflicting sequence").
Plan(w) ==
    /\ workers[w].at = "plan"
    /\ LET doc == workers[w].doc IN
       Goes(w, IF Newer(doc) THEN "mark"
               ELSE IF doc.content = None THEN "delete"
               ELSE IF Projected(doc) = {}
               THEN IF ChunksOf(doc) = {} THEN "prune" ELSE "add"
               ELSE IF Projected(doc) = ChunksOf(doc) THEN "mark"
               ELSE workers[w].after)
    /\ UNCHANGED <<canon, nodes, jobs, faults, late>>

\* store.add uploads the chunks batch by batch; a chunk id that is there
\* already is overwritten.
Add(w) ==
    /\ workers[w].at = "add"
    /\ LET n == workers[w].part IN
       /\ nodes' = [nodes EXCEPT
             ![<<workers[w].doc.content.version, workers[w].doc.content.text, n>>] =
                NodeOf(workers[w].doc)]
       /\ workers' = [workers EXCEPT ![w].at = IF n = Batches THEN "prune" ELSE "add",
                                     ![w].part = IF n = Batches THEN 1 ELSE n + 1]
    /\ late' = (late \/ workers[w].doc # canon.doc)
    /\ UNCHANGED <<canon, jobs, faults>>

\* Mutant: _delete_older_versions takes everything that is not its own.
PruneOthers(w) ==
    /\ workers[w].at = "prune"
    /\ nodes' = [c \in Chunks |-> IF nodes[c].seq # workers[w].doc.seq THEN NoNode ELSE nodes[c]]
    /\ Goes(w, "mark")
    /\ UNCHANGED <<canon, jobs, faults, late>>

\* _delete_older_versions
Prune(w) ==
    /\ workers[w].at = "prune"
    /\ nodes' = [c \in Chunks |-> IF nodes[c].seq < workers[w].doc.seq THEN NoNode ELSE nodes[c]]
    /\ Goes(w, "mark")
    /\ UNCHANGED <<canon, jobs, faults, late>>

\* the delete of tombstone
Delete(w) ==
    /\ workers[w].at = "delete"
    /\ nodes' = [c \in Chunks |-> IF nodes[c].seq <= workers[w].doc.seq THEN NoNode ELSE nodes[c]]
    /\ Goes(w, "mark")
    /\ UNCHANGED <<canon, jobs, faults, late>>

\* Mutant: a projected tombstone is removed from the store.
MarkAndPurge(w) ==
    /\ workers[w].at = "mark"
    /\ canon' = IF canon.doc # workers[w].doc THEN canon
                ELSE IF canon.doc.content = None
                THEN [doc |-> NoDocument, pending |-> FALSE]
                ELSE [canon EXCEPT !.pending = FALSE]
    /\ Goes(w, workers[w].after)
    /\ UNCHANGED <<nodes, jobs, faults, late>>

\* mark_projected: nothing if the canonical document is another by now
Mark(w) ==
    /\ workers[w].at = "mark"
    /\ canon' = IF SameChecksum(canon.doc, workers[w].doc)
                THEN [canon EXCEPT !.pending = FALSE] ELSE canon
    /\ Goes(w, workers[w].after)
    /\ UNCHANGED <<nodes, jobs, faults, late>>

\* Qdrant does not answer: ProjectionUnavailable ends _project, and a compare
\* that cannot be made ends the handler, whose job is run again.
Outage(w) ==
    /\ faults > 0
    /\ faults' = faults - 1
    /\ \/ /\ workers[w].at \in {"plan", "add", "prune", "delete"}
          /\ workers' = [workers EXCEPT ![w].at = workers[w].after, ![w].part = 1]
       \/ /\ workers[w].at = "compare"
          /\ workers' = [workers EXCEPT ![w] = Idle]
    /\ UNCHANGED <<canon, nodes, jobs, late>>

-----------------------------------------------------------------------------
(* RepositoryReindexHandler: ingest, reindex_project, reconcile.           *)

\* reindex_project projects what the store holds.
Reread(w) ==
    /\ workers[w].at = "reread"
    /\ workers' = [workers EXCEPT ![w].at = "plan", ![w].doc = canon.doc,
                                  ![w].after = "inspect"]
    /\ UNCHANGED <<canon, nodes, jobs, faults, late>>

\* reconcile asks first which documents are pending ...
Inspect(w) ==
    /\ workers[w].at = "inspect"
    /\ Goes(w, IF canon.pending THEN "pending" ELSE "settled")
    /\ UNCHANGED <<canon, nodes, jobs, faults, late>>

\* ... then reads them all: what was pending is projected ...
Fetch(w) ==
    /\ workers[w].at \in {"pending", "settled"}
    /\ workers' = [workers EXCEPT
          ![w].at = IF workers[w].at = "pending" THEN "plan" ELSE "compare",
          ![w].doc = canon.doc, ![w].after = "finish"]
    /\ UNCHANGED <<canon, nodes, jobs, faults, late>>

\* ... and so is what differs from the chunks that are there.
Compare(w) ==
    /\ workers[w].at = "compare"
    /\ Goes(w, IF {c \in Chunks : nodes[c] # NoNode} = ChunksOf(workers[w].doc)
               THEN "finish" ELSE "plan")
    /\ UNCHANGED <<canon, nodes, jobs, faults, late>>

-----------------------------------------------------------------------------
(* The end of a job.                                                       *)

Ends(w, outcome) ==
    LET e == workers[w].job IN
    /\ jobs' = IF jobs[e] = "open" THEN [jobs EXCEPT ![e] = outcome] ELSE jobs
    /\ workers' = [workers EXCEPT ![w] = Idle]
    /\ UNCHANGED <<canon, nodes, faults, late>>

\* Mutant: the handlers do not look at the conflicts of the result.
FinishUnchecked(w) ==
    /\ workers[w].at = "finish"
    /\ Ends(w, IF canon.pending THEN "open" ELSE "completed")

\* upsert and tombstone reject a conflict for good; the other handlers do not
\* ask. A projection that is still pending raises ProjectionUnavailable, and
\* the job is queued again or, its attempts exhausted, given up.
Finish(w) ==
    /\ workers[w].at = "finish"
    /\ IF workers[w].conflict /\ workers[w].job.kind \in {"upsert", "tombstone"}
       THEN Ends(w, "dead_letter")
       ELSE IF canon.pending
       THEN \E outcome \in {"open", "dead_letter"} : Ends(w, outcome)
       ELSE Ends(w, "completed")

\* The process is killed; the lease of its job runs out.
Die(w) ==
    /\ faults > 0
    /\ workers[w].at # "idle"
    /\ workers' = [workers EXCEPT ![w] = Idle]
    /\ faults' = faults - 1
    /\ UNCHANGED <<canon, nodes, jobs, late>>

Ingest(w) == Begin(w) \/ Stage(w) \/ Classify(w) \/ Resume(w)

Project(w) == Plan(w) \/ Add(w) \/ Prune(w) \/ Delete(w) \/ Mark(w) \/ Outage(w)

Reconcile(w) == Reread(w) \/ Inspect(w) \/ Fetch(w) \/ Compare(w)

Next == \E w \in Workers : Ingest(w) \/ Project(w) \/ Reconcile(w) \/ Finish(w) \/ Die(w)

Spec == Init /\ [][Next]_vars

-----------------------------------------------------------------------------
(* Properties.                                                             *)

\* "canonical-before-vector ingestion": whatever is retried, late or out of
\* order, Qdrant holds no chunk of a revision the store has not accepted.
CanonicalBeforeVector == \A c \in Chunks : nodes[c].seq <= canon.doc.seq

\* What CanonicalRetriever may return: chunks of the canonical document with
\* its title, once its projection is not pending.
Retrievable ==
    {c \in ChunksOf(canon.doc) :
        ~ canon.pending /\ nodes[c] # NoNode /\ nodes[c].title = canon.doc.content.title}

\* A document that is not pending is retrieved whole: no outage, death, retry,
\* duplicate with another title or later command took one of its chunks away,
\* left one out or gave it another payload. Chunk ids do not contain the
\* sequence: once a worker has uploaded a revision after its successor was
\* stored, it may have overwritten a chunk both have, and nothing is said.
SettledIsWhole == ~ canon.pending /\ ~ late => Retrievable = ChunksOf(canon.doc)

\* doc is newer than what command e asks for, or has its sequence and text,
\* the text being asked for only where the handler looks at conflicts. (That doc
\* has the version and the title of e as well, or is deleted if e is a
\* tombstone, is more than the store compares.)
Stored(e, doc) ==
    \/ e.seq < doc.seq
    \/ /\ e.seq = doc.seq
       /\ e.kind \in {"upsert", "tombstone"} => TextOf(e.content) = TextOf(doc.content)

\* A completed job's text is stored or a newer revision is, also when the job
\* was run twice, resumed by another or overtaken; a source that uses one
\* sequence for two texts is told (upsert, tombstone).
CompletedIsStored == \A e \in Events : jobs[e] = "completed" => Stored(e, canon.doc)

\* The two RuntimeErrors of _classify_existing are out of reach: between the
\* refused write and the read that explains it, the document that refused it
\* does not vanish and does not become older.
RefusalIsExplained ==
    \A w \in Workers : workers[w].at = "refused" =>
        canon.doc # NoDocument /\ workers[w].doc.seq <= canon.doc.seq
=============================================================================
