------------------------ MODULE RagProjectionProofs -------------------------
(***************************************************************************)
(* Proofs about RagProjection, for any number of workers, any commands and *)
(* contents, any number of uploads per document and any number of faults.  *)
(*                                                                         *)
(* The argument: the canonical document only moves to higher sequences, so *)
(* what a worker has in hand is the canonical document or is older. What   *)
(* is older can neither upload a chunk above the canonical sequence nor    *)
(* remove a chunk at it. Sound says this of one worker, in terms of the    *)
(* canonical document, the chunks and the history alone, so that one lemma *)
(* (Undisturbed) covers the workers a step does not move.                  *)
(***************************************************************************)
EXTENDS RagProjection, TLAPS

\* Calls that work on a document which was the canonical one.
InHand == {"plan", "add", "prune", "delete", "mark", "compare"}

\* The handler will reject the job.
Refused(r) == r.conflict /\ r.job.kind \in {"upsert", "tombstone"}

\* All chunks of the document are there, under its sequence and with its title.
Whole(doc, n) == \A c \in ChunksOf(doc) : n[c] = NodeOf(doc)

\* What holds of a worker r while doc is the canonical document, n the chunks.
Sound(r, doc, n, l) ==
    /\ r.at \in {"stage", "refused"} => r.doc = [seq |-> r.job.seq, content |-> r.job.content]
    /\ r.at \notin {"idle", "stage"} => r.doc.seq <= doc.seq /\ doc.seq # 0
    /\ r.at \in InHand /\ r.doc.seq = doc.seq => r.doc = doc
    /\ r.at \notin {"idle", "stage", "refused"} => Stored(r.job, doc) \/ Refused(r)
    /\ r.at # "add" => r.part = 1
    /\ r.at = "delete" => r.doc.content = None
    /\ ~ l /\ r.at = "add" /\ r.doc = doc =>
          \A c \in ChunksOf(doc) : c[3] < r.part => n[c] = NodeOf(doc)
    /\ ~ l /\ r.at \in {"prune", "mark"} /\ r.doc = doc => Whole(doc, n)

AllSound == \A w \in Workers : Sound(workers[w], canon.doc, nodes, late)

ContentHasSequence == canon.doc.content # None => canon.doc.seq # 0

SettledUnderSequence == ~ canon.pending /\ ~ late => Whole(canon.doc, nodes)

\* What Qdrant holds under the canonical sequence it holds as the canonical
\* document has it.
PointsOfSequence ==
    \A c \in ChunksOf(canon.doc) :
        nodes[c].seq = canon.doc.seq => nodes[c] = NodeOf(canon.doc)

\* The inductive invariant.
IInv ==
    /\ TypeOK
    /\ AllSound
    /\ ContentHasSequence
    /\ SettledUnderSequence
    /\ PointsOfSequence
    /\ CanonicalBeforeVector
    /\ CompletedIsStored

-----------------------------------------------------------------------------
(* Data.                                                                   *)

LEMMA WorkerFields ==
    ASSUME NEW r \in Worker
    PROVE  /\ r.at \in Calls
           /\ r.job \in Events \cup {None}
           /\ r.doc \in Document
           /\ r.part \in Parts
           /\ r.after \in {"finish", "reread", "inspect"}
           /\ r.conflict \in BOOLEAN
BY DEF Worker

LEMMA DocumentFields ==
    ASSUME NEW d \in Document
    PROVE  d.seq \in Nat /\ d.content \in Contents \cup {None}
BY DEF Document

LEMMA EventFields ==
    ASSUME NEW e \in Events
    PROVE  /\ e.kind \in Kinds
           /\ e.seq \in Nat \ {0}
           /\ e.content \in Contents \cup {None}
           /\ e.content = None <=> e.kind = "tombstone"
           /\ [seq |-> e.seq, content |-> e.content] \in Document
BY ProjectionConstants DEF Document

\* A document is its sequence and its content.
LEMMA SameDocument ==
    ASSUME NEW d \in Document, NEW e \in Document, d.seq = e.seq, d.content = e.content
    PROVE  d = e
BY DEF Document

\* The chunks of a document are its version and text at every position.
LEMMA ChunkShape ==
    ASSUME NEW d \in Document, NEW c \in ChunksOf(d)
    PROVE  /\ c[3] \in Parts /\ c = <<d.content.version, d.content.text, c[3]>>
           /\ c \in Chunks /\ d.content # None
<1>1. d.content # None /\ d.content \in Contents
    BY DocumentFields DEF ChunksOf, TextOf
<1>2. PICK n \in Parts : c = <<d.content.version, d.content.text, n>>
    BY DEF ChunksOf
<1> QED
    BY <1>1, <1>2 DEF Chunks

\* The point of a document that has a content is one.
LEMMA NodeShape ==
    ASSUME NEW d \in Document, d.content # None
    PROVE  NodeOf(d) \in Node /\ NodeOf(d).seq = d.seq
BY DocumentFields DEF NodeOf, Node

LEMMA NoNodeShape == NoNode \in Node /\ NoNode.seq = 0
BY DEF NoNode, Node

LEMMA NodeFields ==
    ASSUME NEW n \in Node
    PROVE  n.seq \in Nat
BY DEF Node

\* What a command asks for stays stored when a newer document replaces it.
LEMMA StoredForGood ==
    ASSUME NEW e \in Events, NEW d \in Document, NEW f \in Document,
           Stored(e, d), d = f \/ d.seq < f.seq
    PROVE  Stored(e, f)
<1>1. e.seq \in Nat /\ d.seq \in Nat /\ f.seq \in Nat
    BY EventFields, DocumentFields
<1>2. CASE d = f
    BY <1>2
<1>3. CASE d.seq < f.seq
    <2>1. e.seq <= d.seq
        BY <1>1 DEF Stored
    <2> QED
        BY <1>1, <1>3, <2>1 DEF Stored
<1> QED
    BY <1>2, <1>3

\* A worker stays sound when others replace the canonical document by a newer
\* one, or leave it and all its chunks that are there.
LEMMA Undisturbed ==
    ASSUME NEW r \in Worker, r.at # "idle" => r.job \in Events,
           NEW d \in Document, NEW f \in Document,
           NEW n \in [Chunks -> Node], NEW m \in [Chunks -> Node],
           NEW l \in BOOLEAN, NEW k \in BOOLEAN,
           Sound(r, d, n, l), l => k,
           \/ d.seq < f.seq
           \/ d = f /\ (~ k => \A c \in ChunksOf(d) : n[c] = NodeOf(d) => m[c] = NodeOf(d))
    PROVE  Sound(r, f, m, k)
<1>1. r.doc \in Document /\ r.doc.seq \in Nat /\ d.seq \in Nat /\ f.seq \in Nat
    BY WorkerFields, DocumentFields
<1>2. r.at \notin {"idle", "stage"} => r.doc.seq <= f.seq /\ f.seq # 0
    BY <1>1 DEF Sound
<1>3. r.at \in InHand /\ r.doc.seq = f.seq => r.doc = f
    BY <1>1 DEF Sound, InHand
<1>4. r.at \notin {"idle", "stage", "refused"} => Stored(r.job, f) \/ Refused(r)
    BY StoredForGood DEF Sound
<1>5. d.seq < f.seq /\ r.at \in InHand => r.doc # f
    BY <1>1 DEF Sound, InHand
<1>6. ~ k /\ r.at = "add" /\ r.doc = f =>
          \A c \in ChunksOf(f) : c[3] < r.part => m[c] = NodeOf(f)
    BY <1>5 DEF InHand, Sound
<1>7. ~ k /\ r.at \in {"prune", "mark"} /\ r.doc = f => Whole(f, m)
    BY <1>5 DEF InHand, Sound, Whole
<1>8. (r.at # "add" => r.part = 1) /\ (r.at = "delete" => r.doc.content = None)
    BY DEF Sound
<1> QED
    BY <1>2, <1>3, <1>4, <1>6, <1>7, <1>8 DEF Sound

-----------------------------------------------------------------------------
(* Steps. Every step moves one worker.                                     *)

\* A worker in the model has the fields of one.
LEMMA WorkerState ==
    ASSUME TypeOK, NEW w \in Workers
    PROVE  /\ workers[w] \in Worker
           /\ workers[w].at # "idle" => workers[w].job \in Events
           /\ workers[w].at \in {"add", "prune"} => workers[w].doc.content # None
           /\ canon.doc \in Document /\ canon.pending \in BOOLEAN
           /\ nodes \in [Chunks -> Node]
           /\ late \in BOOLEAN
<1>1. workers[w] \in Worker
    BY DEF TypeOK
<1>2. workers[w].job \in Events \cup {None}
    BY <1>1, WorkerFields
<1>3. canon.doc \in Document /\ canon.pending \in BOOLEAN
    BY DEF TypeOK, Canonical
<1> QED
    BY <1>1, <1>2, <1>3 DEF TypeOK

\* A worker without a job.
LEMMA IdleIsWorker == Idle \in Worker
BY ProjectionConstants DEF Idle, Worker, Calls, NoDocument, Document, Parts

\* What is to be shown of a step in which w becomes r.
LEMMA WorkerMoves ==
    ASSUME IInv, NEW w \in Workers, NEW r \in Worker,
           workers' = [workers EXCEPT ![w] = r],
           r.at # "idle" <=> r.job # None,
           r.at \in {"add", "prune"} => r.doc.content # None,
           canon' \in Canonical,
           nodes' \in [Chunks -> Node],
           jobs' \in [Events -> {"open", "completed", "dead_letter"}],
           faults' \in 0 .. Faults,
           late' \in BOOLEAN, late => late',
           \/ canon.doc.seq < canon'.doc.seq
           \/ /\ canon.doc = canon'.doc
              /\ ~ late' => \A c \in ChunksOf(canon.doc) :
                               nodes[c] = NodeOf(canon.doc) => nodes'[c] = NodeOf(canon.doc),
           Sound(r, canon'.doc, nodes', late'),
           ContentHasSequence',
           SettledUnderSequence',
           PointsOfSequence',
           CanonicalBeforeVector',
           CompletedIsStored'
    PROVE  IInv'
<1>1. workers' \in [Workers -> Worker]
      /\ workers'[w] = r
      /\ \A v \in Workers \ {w} : workers'[v] = workers[v]
    BY DEF IInv, TypeOK
<1>2. TypeOK'
    <2>1. \A v \in Workers : workers'[v].at # "idle" <=> workers'[v].job # None
        BY <1>1 DEF IInv, TypeOK
    <2>2. \A v \in Workers :
             workers'[v].at \in {"add", "prune"} => workers'[v].doc.content # None
        BY <1>1 DEF IInv, TypeOK
    <2> QED
        BY <1>1, <2>1, <2>2 DEF TypeOK
<1>3. canon.doc \in Document /\ canon'.doc \in Document
    BY WorkerState DEF IInv, Canonical
<1>4. \A v \in Workers : Sound(workers'[v], canon'.doc, nodes', late')
    <2> SUFFICES ASSUME NEW v \in Workers, v # w
                 PROVE  Sound(workers[v], canon'.doc, nodes', late')
        BY <1>1
    <2>1. Sound(workers[v], canon.doc, nodes, late)
        BY DEF IInv, AllSound
    <2>2. workers[v] \in Worker /\ (workers[v].at # "idle" => workers[v].job \in Events)
          /\ nodes \in [Chunks -> Node] /\ late \in BOOLEAN
        BY WorkerState DEF IInv
    <2> QED
        BY <1>3, <2>1, <2>2, Undisturbed
<1>5. AllSound'
    BY <1>4 DEF AllSound
<1> QED
    BY <1>2, <1>5 DEF IInv

\* A step that moves w and nothing else, but perhaps a fault.
LEMMA WorkerMovesOnly ==
    ASSUME IInv, NEW w \in Workers, NEW r \in Worker,
           workers' = [workers EXCEPT ![w] = r],
           r.at # "idle" <=> r.job # None,
           r.at \in {"add", "prune"} => r.doc.content # None,
           UNCHANGED <<canon, nodes, jobs, late>>,
           faults' \in 0 .. Faults,
           Sound(r, canon.doc, nodes, late)
    PROVE  IInv'
<1>1. /\ canon' = canon /\ nodes' = nodes /\ jobs' = jobs /\ late' = late
    OBVIOUS
<1>2. /\ canon' \in Canonical
      /\ nodes' \in [Chunks -> Node]
      /\ jobs' \in [Events -> {"open", "completed", "dead_letter"}]
      /\ late' \in BOOLEAN
    BY <1>1 DEF IInv, TypeOK
<1>3. /\ ContentHasSequence' /\ SettledUnderSequence' /\ PointsOfSequence'
      /\ CanonicalBeforeVector' /\ CompletedIsStored'
    BY <1>1 DEF IInv, ContentHasSequence, SettledUnderSequence, PointsOfSequence,
                CanonicalBeforeVector, CompletedIsStored
<1>4. Sound(r, canon'.doc, nodes', late')
    BY <1>1
<1>5. /\ canon.doc = canon'.doc
      /\ ~ late' => \A c \in ChunksOf(canon.doc) :
                       nodes[c] = NodeOf(canon.doc) => nodes'[c] = NodeOf(canon.doc)
      /\ late => late'
    BY <1>1
<1> QED
    BY <1>2, <1>3, <1>4, <1>5, WorkerMoves

\* A step that has no fault keeps their number in range.
LEMMA NoFault ==
    ASSUME TypeOK, faults' = faults
    PROVE  faults' \in 0 .. Faults
BY DEF TypeOK

-----------------------------------------------------------------------------
(* The steps that move a worker only.                                      *)

\* A worker that begins a job has the document of its command in hand.
LEMMA BeginStep ==
    ASSUME IInv, NEW w \in Workers, Begin(w)
    PROVE  IInv'
<1>1. PICK e \in Events :
         workers' = [workers EXCEPT ![w] =
            [Idle EXCEPT !.at = "stage", !.job = e,
                         !.doc = [seq |-> e.seq, content |-> e.content],
                         !.after = IF e.kind = "reindex" THEN "reread" ELSE "finish"]]
    BY DEF Begin
<1> DEFINE doc == [seq |-> e.seq, content |-> e.content]
           after == IF e.kind = "reindex" THEN "reread" ELSE "finish"
           r == [Idle EXCEPT !.at = "stage", !.job = e, !.doc = doc, !.after = after]
<1>2. workers' = [workers EXCEPT ![w] = r]
    BY <1>1
<1>3. r \in Worker /\ r.at = "stage" /\ r.job = e /\ r.doc = doc /\ r.part = 1
    <2>1. /\ 1 \in Parts
          /\ doc \in Document
          /\ after \in {"finish", "reread", "inspect"}
          /\ "stage" \in Calls
          /\ e \in Events \cup {None}
        BY ProjectionConstants, EventFields DEF Parts, Calls
    <2> HIDE DEF doc, after
    <2>2. r \in Worker
        BY <2>1, IdleIsWorker, Zenon DEF Worker
    <2>3. r.at = "stage" /\ r.job = e /\ r.doc = doc /\ r.part = 1
        BY DEF Idle
    <2> QED
        BY <2>2, <2>3
<1>4. e # None
    BY ProjectionConstants
<1>5. Sound(r, canon.doc, nodes, late)
    <2> HIDE DEF r
    <2> QED
        BY <1>3 DEF Sound, InHand
<1>6. faults' \in 0 .. Faults /\ UNCHANGED <<canon, nodes, jobs, late>>
    BY NoFault DEF Begin, IInv
<1> HIDE DEF r
<1> QED
    BY <1>2, <1>3, <1>4, <1>5, <1>6, WorkerMovesOnly

\* A refused worker learns whether it is stale, a duplicate or in conflict.
LEMMA ClassifyStep ==
    ASSUME IInv, NEW w \in Workers, Classify(w)
    PROVE  IInv'
<1> DEFINE q == workers[w]
           at == IF SameChecksum(q.doc, canon.doc) THEN "duplicate" ELSE q.after
           conflict == q.doc.seq = canon.doc.seq /\ ~ SameChecksum(q.doc, canon.doc)
           r == [q EXCEPT !.at = at, !.conflict = conflict]
<1>1. q \in Worker /\ q.at = "refused" /\ q.job \in Events /\ q.doc \in Document
      /\ canon.doc \in Document
    BY WorkerState, WorkerFields DEF IInv, Classify
<1>2. workers' = [workers EXCEPT ![w] = r]
    BY DEF Classify
<1>3. /\ r \in Worker /\ r.at = at /\ r.conflict = conflict
      /\ r.job = q.job /\ r.doc = q.doc /\ r.part = q.part
    BY <1>1 DEF Worker, Calls
<1>4. at \in {"duplicate", "finish", "reread", "inspect"}
    BY <1>1, WorkerFields
<1>5. Sound(q, canon.doc, nodes, late)
    BY DEF IInv, AllSound
<1>6. q.doc.seq <= canon.doc.seq /\ canon.doc.seq # 0 /\ q.part = 1
      /\ q.doc = [seq |-> q.job.seq, content |-> q.job.content]
    BY <1>1, <1>5 DEF Sound
<1>7. Stored(q.job, canon.doc) \/ Refused(r)
    <2>1. q.job.seq = q.doc.seq /\ q.job.content = q.doc.content
        BY <1>6
    <2>2. q.doc.seq \in Nat /\ canon.doc.seq \in Nat
        BY <1>1, DocumentFields
    <2> HIDE DEF q, r
    <2>3. CASE conflict /\ q.job.kind \in {"upsert", "tombstone"}
        BY <1>3, <2>3 DEF Refused
    <2>4. CASE conflict /\ q.job.kind \notin {"upsert", "tombstone"}
        BY <2>1, <2>4 DEF Stored
    <2>5. CASE ~ conflict
        BY <1>6, <2>1, <2>2, <2>5 DEF Stored, SameChecksum
    <2> QED
        BY <2>3, <2>4, <2>5
<1>8. Sound(r, canon.doc, nodes, late)
    <2> HIDE DEF q, r, at
    <2> QED
        BY <1>3, <1>4, <1>6, <1>7 DEF Sound, InHand
<1>9. faults' \in 0 .. Faults /\ UNCHANGED <<canon, nodes, jobs, late>>
    BY NoFault DEF Classify, IInv
<1>10. r.at # "idle" /\ r.job # None /\ r.at \notin {"add", "prune"}
    <2> HIDE DEF q, r, at
    <2> QED
        BY <1>1, <1>3, <1>4, ProjectionConstants
<1> HIDE DEF r
<1> QED
    BY <1>2, <1>3, <1>8, <1>9, <1>10, WorkerMovesOnly

\* A worker goes to another call of the same job, with the same document or the
\* canonical one, and nothing is promised there: it is not in the course of an
\* upload.
LEMMA Turns ==
    ASSUME IInv, NEW w \in Workers, NEW r \in Worker,
           workers' = [workers EXCEPT ![w] = r],
           r.job = workers[w].job, r.conflict = workers[w].conflict, r.part = 1,
           workers[w].at \notin {"idle", "stage", "refused"},
           r.at \notin {"idle", "stage", "refused", "add", "prune", "mark"},
           r.at = "delete" => r.doc.content = None,
           \/ r.doc = canon.doc
           \/ r.doc = workers[w].doc /\ (r.at \in InHand => workers[w].at \in InHand),
           UNCHANGED <<canon, nodes, jobs, late>>,
           faults' \in 0 .. Faults
    PROVE  IInv'
<1> DEFINE q == workers[w]
<1>1. q \in Worker /\ q.job \in Events /\ canon.doc.seq \in Nat
    BY WorkerState, DocumentFields DEF IInv
<1>2. Sound(q, canon.doc, nodes, late)
    BY DEF IInv, AllSound
<1>3. /\ r.job = q.job /\ r.conflict = q.conflict
      /\ q.at \notin {"idle", "stage", "refused"}
      /\ r.doc = canon.doc \/ (r.doc = q.doc /\ (r.at \in InHand => q.at \in InHand))
    OBVIOUS
<1> HIDE DEF q
<1>4. Sound(r, canon.doc, nodes, late)
    BY <1>1, <1>2, <1>3 DEF Sound, Refused
<1>5. r.at # "idle" /\ r.job # None /\ r.at \notin {"add", "prune"}
    BY <1>1, <1>3, ProjectionConstants
<1> QED
    BY <1>4, <1>5, WorkerMovesOnly

\* A worker drops its job.
LEMMA IdleMoves ==
    ASSUME IInv, NEW w \in Workers,
           workers' = [workers EXCEPT ![w] = Idle],
           UNCHANGED <<canon, nodes, jobs, late>>,
           faults' \in 0 .. Faults
    PROVE  IInv'
<1>1. Sound(Idle, canon.doc, nodes, late)
    BY DEF Sound, Idle, InHand
<1>2. Idle.at = "idle" /\ Idle.job = None
    BY DEF Idle
<1> QED
    BY <1>1, <1>2, IdleIsWorker, WorkerMovesOnly

\* Where a worker is whose handler is past the stage.
LEMMA PastStage ==
    ASSUME IInv, NEW w \in Workers,
           workers[w].at \notin {"idle", "stage", "refused", "add"}
    PROVE  /\ workers[w] \in Worker
           /\ workers[w].doc \in Document
           /\ workers[w].after \in {"finish", "reread", "inspect"}
           /\ workers[w].part = 1
           /\ canon.doc \in Document
BY WorkerState, WorkerFields DEF IInv, AllSound, Sound

\* A duplicate takes up the stored document or is done.
LEMMA ResumeStep ==
    ASSUME IInv, NEW w \in Workers, Resume(w)
    PROVE  IInv'
<1> DEFINE q == workers[w]
           at == IF canon.pending THEN "plan" ELSE q.after
           r == [q EXCEPT !.at = at, !.doc = canon.doc]
<1>1. q.at = "duplicate" /\ q \in Worker /\ q.part = 1 /\ canon.doc \in Document
      /\ at \in {"plan", "finish", "reread", "inspect"}
    BY PastStage DEF Resume
<1>2. workers' = [workers EXCEPT ![w] = r]
    BY DEF Resume
<1>3. faults' \in 0 .. Faults /\ UNCHANGED <<canon, nodes, jobs, late>>
    BY NoFault DEF Resume, IInv
<1> HIDE DEF at
<1>4. r \in Worker /\ r.at = at /\ r.job = q.job /\ r.doc = canon.doc
      /\ r.part = 1 /\ r.conflict = q.conflict
    BY <1>1 DEF Worker, Calls
<1> HIDE DEF r
<1> QED
    BY <1>1, <1>2, <1>3, <1>4, Turns

\* reindex_project reads what is stored.
LEMMA RereadStep ==
    ASSUME IInv, NEW w \in Workers, Reread(w)
    PROVE  IInv'
<1> DEFINE q == workers[w]
           r == [q EXCEPT !.at = "plan", !.doc = canon.doc, !.after = "inspect"]
<1>1. q.at = "reread" /\ q \in Worker /\ q.part = 1 /\ canon.doc \in Document
    BY PastStage DEF Reread
<1>2. workers' = [workers EXCEPT ![w] = r]
    BY DEF Reread
<1>3. faults' \in 0 .. Faults /\ UNCHANGED <<canon, nodes, jobs, late>>
    BY NoFault DEF Reread, IInv
<1>4. r \in Worker /\ r.at = "plan" /\ r.job = q.job /\ r.doc = canon.doc
      /\ r.part = 1 /\ r.conflict = q.conflict
    BY <1>1 DEF Worker, Calls
<1> HIDE DEF r
<1> QED
    BY <1>1, <1>2, <1>3, <1>4, Turns

\* reconcile asks for the pending documents.
LEMMA InspectStep ==
    ASSUME IInv, NEW w \in Workers, Inspect(w)
    PROVE  IInv'
<1> DEFINE q == workers[w]
           at == IF canon.pending THEN "pending" ELSE "settled"
           r == [q EXCEPT !.at = at]
<1>1. q.at = "inspect" /\ q \in Worker /\ q.part = 1 /\ at \in {"pending", "settled"}
      /\ canon.doc \in Document
    BY PastStage DEF Inspect
<1>2. workers' = [workers EXCEPT ![w] = r]
    BY DEF Inspect, Goes
<1>3. faults' \in 0 .. Faults /\ UNCHANGED <<canon, nodes, jobs, late>>
    BY NoFault DEF Inspect, IInv
<1> HIDE DEF at
<1>4. r \in Worker /\ r.at = at /\ r.job = q.job /\ r.doc = q.doc
      /\ r.part = 1 /\ r.conflict = q.conflict
    BY <1>1 DEF Worker, Calls
<1> HIDE DEF r
<1> QED
    BY <1>1, <1>2, <1>3, <1>4, Turns DEF InHand

\* reconcile reads the documents.
LEMMA FetchStep ==
    ASSUME IInv, NEW w \in Workers, Fetch(w)
    PROVE  IInv'
<1> DEFINE q == workers[w]
           at == IF q.at = "pending" THEN "plan" ELSE "compare"
           r == [q EXCEPT !.at = at, !.doc = canon.doc, !.after = "finish"]
<1>1. q.at \in {"pending", "settled"} /\ q \in Worker /\ q.part = 1
      /\ at \in {"plan", "compare"} /\ canon.doc \in Document
    BY PastStage DEF Fetch
<1>2. workers' = [workers EXCEPT ![w] = r]
    BY DEF Fetch
<1>3. faults' \in 0 .. Faults /\ UNCHANGED <<canon, nodes, jobs, late>>
    BY NoFault DEF Fetch, IInv
<1> HIDE DEF at
<1>4. r \in Worker /\ r.at = at /\ r.job = q.job /\ r.doc = canon.doc
      /\ r.part = 1 /\ r.conflict = q.conflict
    BY <1>1 DEF Worker, Calls
<1> HIDE DEF r
<1> QED
    BY <1>1, <1>2, <1>3, <1>4, Turns

\* reconcile compares a document with its chunks.
LEMMA CompareStep ==
    ASSUME IInv, NEW w \in Workers, Compare(w)
    PROVE  IInv'
<1> DEFINE q == workers[w]
           at == IF {c \in Chunks : nodes[c] # NoNode} = ChunksOf(q.doc) THEN "finish" ELSE "plan"
           r == [q EXCEPT !.at = at]
<1>1. q.at = "compare" /\ q \in Worker /\ q.part = 1 /\ at \in {"finish", "plan"}
      /\ canon.doc \in Document
    BY PastStage DEF Compare
<1>2. workers' = [workers EXCEPT ![w] = r]
    BY DEF Compare, Goes
<1>3. faults' \in 0 .. Faults /\ UNCHANGED <<canon, nodes, jobs, late>>
    BY NoFault DEF Compare, IInv
<1> HIDE DEF at
<1>4. r \in Worker /\ r.at = at /\ r.job = q.job /\ r.doc = q.doc
      /\ r.part = 1 /\ r.conflict = q.conflict
    BY <1>1 DEF Worker, Calls
<1> HIDE DEF r
<1> QED
    BY <1>1, <1>2, <1>3, <1>4, Turns DEF InHand

\* Qdrant does not answer.
LEMMA OutageStep ==
    ASSUME IInv, NEW w \in Workers, Outage(w)
    PROVE  IInv'
<1>1. faults' \in 0 .. Faults /\ UNCHANGED <<canon, nodes, jobs, late>>
    BY ProjectionConstants DEF Outage, IInv, TypeOK
<1>2. CASE /\ workers[w].at \in {"plan", "add", "prune", "delete"}
           /\ workers' = [workers EXCEPT ![w].at = workers[w].after, ![w].part = 1]
    <2> DEFINE q == workers[w]
               r == [q EXCEPT !.at = q.after, !.part = 1]
    <2>1. q.at \in {"plan", "add", "prune", "delete"} /\ q \in Worker
          /\ q.after \in {"finish", "reread", "inspect"} /\ 1 \in Parts
        BY <1>2, WorkerState, WorkerFields, ProjectionConstants DEF IInv, Parts
    <2>2. workers' = [workers EXCEPT ![w] = r]
        BY <1>2
    <2>3. r \in Worker /\ r.at = q.after /\ r.job = q.job /\ r.doc = q.doc
          /\ r.part = 1 /\ r.conflict = q.conflict
        BY <2>1 DEF Worker, Calls
    <2> HIDE DEF r
    <2> QED
        BY <1>1, <2>1, <2>2, <2>3, Turns DEF InHand
<1>3. CASE workers' = [workers EXCEPT ![w] = Idle]
    BY <1>1, <1>3, IdleMoves
<1> QED
    BY <1>2, <1>3 DEF Outage

\* The process dies.
LEMMA DieStep ==
    ASSUME IInv, NEW w \in Workers, Die(w)
    PROVE  IInv'
<1>1. faults' \in 0 .. Faults /\ UNCHANGED <<canon, nodes, jobs, late>>
    BY ProjectionConstants DEF Die, IInv, TypeOK
<1> QED
    BY <1>1, IdleMoves DEF Die

\* replace_documents and tombstone look at what is there. A document whose
\* chunks are all there under its sequence goes on to be marked.
LEMMA PlanStep ==
    ASSUME IInv, NEW w \in Workers, Plan(w)
    PROVE  IInv'
<1> DEFINE q == workers[w]
           at == IF Newer(q.doc) THEN "mark"
                 ELSE IF q.doc.content = None THEN "delete"
                 ELSE IF Projected(q.doc) = {}
                 THEN IF ChunksOf(q.doc) = {} THEN "prune" ELSE "add"
                 ELSE IF Projected(q.doc) = ChunksOf(q.doc) THEN "mark"
                 ELSE q.after
           r == [q EXCEPT !.at = at]
<1>1. q.at = "plan" /\ q \in Worker /\ q.part = 1 /\ q.doc \in Document /\ canon.doc \in Document
      /\ at \in {"mark", "delete", "add", "prune", "finish", "reread", "inspect"}
    BY PastStage DEF Plan
<1>2. workers' = [workers EXCEPT ![w] = r]
    BY DEF Plan, Goes
<1>3. faults' \in 0 .. Faults /\ UNCHANGED <<canon, nodes, jobs, late>>
    BY NoFault DEF Plan, IInv
<1>4. r \in Worker /\ r.at = at /\ r.job = q.job /\ r.doc = q.doc
      /\ r.part = 1 /\ r.conflict = q.conflict
    <2> HIDE DEF at
    <2> QED
        BY <1>1 DEF Worker, Calls
<1>5. CASE at \notin {"add", "prune", "mark"}
    <2>1. at = "delete" => q.doc.content = None
        BY PastStage DEF Plan
    <2> HIDE DEF at, r
    <2> QED
        BY <1>1, <1>2, <1>3, <1>4, <1>5, <2>1, Turns DEF InHand
<1>6. CASE at \in {"add", "prune", "mark"}
    <2>1. Sound(q, canon.doc, nodes, late)
        BY DEF IInv, AllSound
    <2>2. at \in {"add", "prune"} => q.doc.content # None
        BY PastStage DEF Plan
    <2>3. at = "mark" /\ q.doc = canon.doc => Whole(canon.doc, nodes)
        <3>1. q.doc = canon.doc => ~ Newer(q.doc)
            <4>1. canon.doc.seq \in Nat /\ \A c \in Chunks : nodes[c].seq \in Nat
                BY <1>1, DocumentFields, NodeFields DEF IInv, TypeOK
            <4> QED
                BY <4>1 DEF IInv, CanonicalBeforeVector, Newer
        <3>2. q.after # "mark"
            BY PastStage DEF Plan
        <3>3. at = "mark" /\ q.doc = canon.doc => Projected(q.doc) = ChunksOf(q.doc)
            BY <3>1, <3>2
        <3> HIDE DEF at, q
        <3> QED
            BY <3>3 DEF Whole, Projected, IInv, PointsOfSequence
    <2>8. at = "prune" /\ q.doc = canon.doc => Whole(canon.doc, nodes)
        <3>1. at = "prune" => ChunksOf(q.doc) = {}
            BY PastStage DEF Plan
        <3> HIDE DEF at, q
        <3> QED
            BY <3>1 DEF Whole
    <2>4. \A c \in ChunksOf(canon.doc) : ~ (c[3] < 1)
        BY <1>1, ChunkShape, ProjectionConstants DEF Parts
    <2>5. q.job \in Events
        BY <1>1, WorkerState DEF IInv
    <2> HIDE DEF at, q, r
    <2>6. Sound(r, canon.doc, nodes, late)
        BY <1>1, <1>4, <1>6, <2>1, <2>3, <2>4, <2>8 DEF Sound, InHand, Refused
    <2>7. r.at # "idle" /\ r.job # None /\ (r.at \in {"add", "prune"} => r.doc.content # None)
        BY <1>4, <1>6, <2>2, <2>5, ProjectionConstants
    <2> QED
        BY <1>2, <1>3, <1>4, <2>6, <2>7, WorkerMovesOnly
<1> QED
    BY <1>5, <1>6

-----------------------------------------------------------------------------
(* The steps that write the stores.                                        *)

\* An accepted document is newer than the one it replaces, and pending.
LEMMA StageStep ==
    ASSUME IInv, NEW w \in Workers, Stage(w)
    PROVE  IInv'
<1> DEFINE q == workers[w]
<1>1. q.at = "stage" /\ q \in Worker /\ q.job \in Events /\ q.part = 1
      /\ q.doc \in Document /\ canon.doc \in Document
      /\ q.doc = [seq |-> q.job.seq, content |-> q.job.content]
    BY WorkerState, WorkerFields DEF Stage, IInv, AllSound, Sound
<1>2. q.doc.seq = q.job.seq /\ q.doc.content = q.job.content /\ q.job.seq \in Nat \ {0}
      /\ canon.doc.seq \in Nat
    BY <1>1, EventFields, DocumentFields
<1>3. faults' \in 0 .. Faults /\ UNCHANGED <<nodes, jobs, late>>
    BY NoFault DEF Stage, IInv
<1>4. CASE canon.doc.seq < q.doc.seq
    <2> DEFINE r == [q EXCEPT !.at = "plan"]
    <2>1. workers' = [workers EXCEPT ![w] = r] /\ canon' = [doc |-> q.doc, pending |-> TRUE]
        BY <1>4 DEF Stage, Goes
    <2>2. r \in Worker /\ r.at = "plan" /\ r.job = q.job /\ r.doc = q.doc
          /\ r.part = 1 /\ r.conflict = q.conflict
        BY <1>1 DEF Worker, Calls
    <2>3. canon'.doc = q.doc /\ canon'.pending = TRUE /\ canon' \in Canonical
        BY <1>1, <2>1 DEF Canonical
    <2> HIDE DEF q, r
    <2>4. Sound(r, canon'.doc, nodes', late')
        BY <1>2, <2>2, <2>3 DEF Sound, InHand, Stored
    <2>5. ContentHasSequence' /\ SettledUnderSequence'
        BY <1>2, <2>3 DEF ContentHasSequence, SettledUnderSequence
    <2>6. CanonicalBeforeVector' /\ PointsOfSequence'
        <3>1. \A c \in Chunks : nodes[c].seq \in Nat /\ nodes[c].seq <= canon.doc.seq
            BY NodeFields DEF IInv, TypeOK, CanonicalBeforeVector
        <3>2. canon'.doc.seq = q.doc.seq /\ q.doc.seq \in Nat
            BY <1>2, <2>3
        <3>3. \A c \in Chunks : nodes[c].seq <= q.doc.seq /\ nodes[c].seq # q.doc.seq
            BY <1>2, <1>4, <3>1, <3>2
        <3>4. PointsOfSequence'
            BY <1>1, <1>3, <2>3, <3>2, <3>3, ChunkShape DEF PointsOfSequence
        <3> QED
            BY <1>3, <3>2, <3>3, <3>4 DEF CanonicalBeforeVector
    <2>7. CompletedIsStored'
        BY <1>1, <1>2, <1>3, <1>4, <2>3, StoredForGood DEF IInv, CompletedIsStored
    <2>8. r.at # "idle" /\ r.job # None /\ r.at \notin {"add", "prune"}
        BY <1>1, <2>2, ProjectionConstants
    <2>9. /\ nodes' \in [Chunks -> Node] /\ late' \in BOOLEAN
          /\ jobs' \in [Events -> {"open", "completed", "dead_letter"}]
        BY <1>3 DEF IInv, TypeOK
    <2>10. canon.doc.seq < canon'.doc.seq /\ (late => late')
        BY <1>3, <1>4, <2>3
    <2> QED
        BY <1>3, <2>1, <2>2, <2>3, <2>4, <2>5, <2>6, <2>7, <2>8, <2>9, <2>10, WorkerMoves
<1>5. CASE ~ (canon.doc.seq < q.doc.seq)
    <2> DEFINE r == [q EXCEPT !.at = "refused"]
    <2>1. workers' = [workers EXCEPT ![w] = r] /\ UNCHANGED canon
        BY <1>5 DEF Stage, Goes
    <2>2. r \in Worker /\ r.at = "refused" /\ r.job = q.job /\ r.doc = q.doc
          /\ r.part = 1 /\ r.conflict = q.conflict
        BY <1>1 DEF Worker, Calls
    <2> HIDE DEF q, r
    <2>3. Sound(r, canon.doc, nodes, late)
        BY <1>1, <1>2, <1>5, <2>2 DEF Sound, InHand
    <2>4. r.at # "idle" /\ r.job # None /\ r.at \notin {"add", "prune"}
        BY <1>1, <2>2, ProjectionConstants
    <2> QED
        BY <1>3, <2>1, <2>2, <2>3, <2>4, WorkerMovesOnly
<1> QED
    BY <1>4, <1>5

\* Sequences of chunks that are removed or stay keep below the canonical one.
LEMMA RemovalKeepsOrder ==
    ASSUME IInv, nodes' \in [Chunks -> Node], UNCHANGED <<jobs, late>>, canon'.doc = canon.doc,
           \A c \in Chunks : nodes'[c] = NoNode \/ nodes'[c] = nodes[c]
    PROVE  ContentHasSequence' /\ PointsOfSequence' /\ CanonicalBeforeVector' /\ CompletedIsStored'
<1>1. canon.doc.seq \in Nat /\ canon.doc \in Document
    BY DocumentFields DEF IInv, TypeOK, Canonical
<1>2. CanonicalBeforeVector'
    BY <1>1, NoNodeShape DEF IInv, TypeOK, CanonicalBeforeVector
<1>3. PointsOfSequence'
    <2> SUFFICES ASSUME NEW c \in ChunksOf(canon.doc), nodes'[c].seq = canon.doc.seq
                 PROVE  nodes'[c] = NodeOf(canon.doc)
        BY DEF PointsOfSequence
    <2>1. c \in Chunks /\ canon.doc.seq # 0
        BY <1>1, ChunkShape DEF IInv, ContentHasSequence
    <2> QED
        BY <2>1, NoNodeShape DEF IInv, PointsOfSequence
<1> QED
    BY <1>2, <1>3 DEF IInv, ContentHasSequence, CompletedIsStored

\* A batch of chunks is uploaded. It is the canonical document's, or the history
\* says otherwise.
LEMMA AddStep ==
    ASSUME IInv, NEW w \in Workers, Add(w)
    PROVE  IInv'
<1> DEFINE q == workers[w]
           n == q.part
           c0 == <<q.doc.content.version, q.doc.content.text, n>>
           at == IF n = Batches THEN "prune" ELSE "add"
           part == IF n = Batches THEN 1 ELSE n + 1
           r == [q EXCEPT !.at = at, !.part = part]
           S == canon.doc.seq
           N == NodeOf(canon.doc)
<1>1. q.at = "add" /\ q \in Worker /\ q.job \in Events /\ q.doc \in Document
      /\ q.doc.content # None /\ n \in Parts /\ canon.doc \in Document
    BY WorkerState, WorkerFields DEF Add, IInv
<1>2. Sound(q, canon.doc, nodes, late)
    BY DEF IInv, AllSound
<1>3. q.doc.seq \in Nat /\ S \in Nat /\ q.doc.seq <= S
    BY <1>1, <1>2, DocumentFields DEF Sound
<1>4. c0 \in Chunks /\ NodeOf(q.doc) \in Node /\ NodeOf(q.doc).seq = q.doc.seq
    BY <1>1, DocumentFields, NodeShape DEF Chunks
<1>5. workers' = [workers EXCEPT ![w] = r]
      /\ nodes' = [nodes EXCEPT ![c0] = NodeOf(q.doc)]
      /\ late' = (late \/ q.doc # canon.doc)
      /\ UNCHANGED <<canon, jobs>> /\ faults' = faults
    BY DEF Add
<1>6. nodes \in [Chunks -> Node] /\ late \in BOOLEAN
      /\ nodes' \in [Chunks -> Node] /\ nodes'[c0] = NodeOf(q.doc)
      /\ \A c \in Chunks : c # c0 => nodes'[c] = nodes[c]
    BY <1>3, <1>4, <1>5 DEF IInv, TypeOK
<1>7. ~ late' => ~ late /\ q.doc = canon.doc
    BY <1>5
<1>8. part \in Parts /\ n \in Nat /\ Batches \in Nat /\ n <= Batches
    BY <1>1, ProjectionConstants DEF Parts
<1>9. r \in Worker /\ r.at = at /\ r.job = q.job /\ r.doc = q.doc
      /\ r.part = part /\ r.conflict = q.conflict
    <2> HIDE DEF part
    <2> QED
        BY <1>1, <1>8 DEF Worker, Calls
<1>10. at \in {"prune", "add"} /\ (at = "prune" <=> n = Batches)
       /\ (at = "prune" => part = 1) /\ (at = "add" => part = n + 1)
    OBVIOUS
<1> HIDE DEF q, n, c0, at, part, r, S, N
<1>11. ~ late' => \A c \in ChunksOf(canon.doc) : nodes[c] = N => nodes'[c] = N
    BY <1>1, <1>6, <1>7, ChunkShape DEF N
<1>12. ~ late' => \A c \in ChunksOf(canon.doc) : c[3] <= n => nodes'[c] = N
    <2> SUFFICES ASSUME ~ late', NEW c \in ChunksOf(canon.doc), c[3] <= n
                 PROVE  nodes'[c] = N
        OBVIOUS
    <2>1. /\ c \in Chunks /\ c[3] \in Nat
          /\ c = <<canon.doc.content.version, canon.doc.content.text, c[3]>>
        BY <1>1, ChunkShape DEF Parts
    <2>2. CASE c[3] = n
        BY <1>6, <1>7, <2>1, <2>2 DEF c0, N
    <2>3. CASE c[3] < n
        BY <1>1, <1>2, <1>7, <1>11, <2>3 DEF Sound, n, N
    <2> QED
        BY <1>8, <2>1, <2>2, <2>3
<1>13. Sound(r, canon.doc, nodes', late')
    <2>1. \A c \in ChunksOf(canon.doc) : c[3] \in Nat /\ c[3] <= Batches
        BY <1>1, <1>8, ChunkShape DEF Parts
    <2>2. ~ late' /\ r.at = "add" => \A c \in ChunksOf(canon.doc) : c[3] < r.part => nodes'[c] = N
        BY <1>8, <1>9, <1>10, <1>12, <2>1
    <2>3. ~ late' /\ r.at = "prune" => Whole(canon.doc, nodes')
        BY <1>9, <1>10, <1>12, <2>1 DEF Whole, N
    <2> QED
        BY <1>1, <1>2, <1>9, <1>10, <2>2, <2>3 DEF Sound, Refused, InHand, N
<1>14. CanonicalBeforeVector'
    <2>1. \A c \in Chunks : nodes[c].seq <= S /\ nodes[c].seq \in Nat
        BY <1>6, NodeFields DEF IInv, CanonicalBeforeVector, S
    <2>2. \A c \in Chunks : nodes'[c].seq <= S
        BY <1>3, <1>4, <1>6, <2>1
    <2> QED
        BY <1>5, <2>2 DEF CanonicalBeforeVector, S
<1>15. SettledUnderSequence'
    BY <1>5, <1>7, <1>11 DEF IInv, SettledUnderSequence, Whole, N
<1>21. PointsOfSequence'
    <2>1. q.doc.seq = S => q.doc = canon.doc
        BY <1>1, <1>2 DEF Sound, InHand, S
    <2>2. ASSUME NEW c \in ChunksOf(canon.doc), nodes'[c].seq = S PROVE nodes'[c] = N
        <3>1. c \in Chunks
            BY <1>1, ChunkShape
        <3>2. CASE c = c0
            BY <1>4, <1>6, <2>1, <2>2, <3>2 DEF N
        <3>3. CASE c # c0
            BY <1>6, <2>2, <3>1, <3>3 DEF IInv, PointsOfSequence, S, N
        <3> QED
            BY <3>2, <3>3
    <2> QED
        BY <1>5, <2>2 DEF PointsOfSequence, S, N
<1>16. ContentHasSequence' /\ CompletedIsStored'
    BY <1>5 DEF IInv, ContentHasSequence, CompletedIsStored
<1>17. /\ canon' \in Canonical /\ faults' \in 0 .. Faults /\ late' \in BOOLEAN /\ (late => late')
       /\ jobs' \in [Events -> {"open", "completed", "dead_letter"}]
       /\ canon' = canon
    BY <1>5, <1>6, NoFault DEF IInv, TypeOK
<1>18. r.at # "idle" /\ r.job # None /\ r.doc.content # None
    BY <1>1, <1>9, <1>10, ProjectionConstants
<1>19. /\ canon.doc = canon'.doc
       /\ ~ late' => \A c \in ChunksOf(canon.doc) :
                        nodes[c] = NodeOf(canon.doc) => nodes'[c] = NodeOf(canon.doc)
    BY <1>11, <1>17 DEF N
<1>20. Sound(r, canon'.doc, nodes', late')
    BY <1>13, <1>17
<1> QED
    BY <1>5, <1>6, <1>9, <1>14, <1>15, <1>16, <1>17, <1>18, <1>19, <1>20, <1>21, WorkerMoves

\* What Qdrant loses in a removal that spares the canonical document's chunks.
LEMMA Removes ==
    ASSUME IInv, NEW w \in Workers, workers[w].at \in {"prune", "delete"},
           nodes' \in [Chunks -> Node],
           \A c \in Chunks : nodes'[c] = NoNode \/ nodes'[c] = nodes[c],
           \A c \in ChunksOf(canon.doc) : nodes[c] = NodeOf(canon.doc) => nodes'[c] = NodeOf(canon.doc),
           workers' = [workers EXCEPT ![w].at = "mark"],
           UNCHANGED <<canon, jobs, faults, late>>
    PROVE  IInv'
<1> DEFINE q == workers[w]
           r == [q EXCEPT !.at = "mark"]
<1>1. q \in Worker /\ q.job \in Events /\ q.doc \in Document /\ canon.doc \in Document
      /\ q.at \in {"prune", "delete"}
    BY WorkerState, WorkerFields DEF IInv
<1>2. Sound(q, canon.doc, nodes, late)
    BY DEF IInv, AllSound
<1>3. workers' = [workers EXCEPT ![w] = r]
    OBVIOUS
<1>4. r \in Worker /\ r.at = "mark" /\ r.job = q.job /\ r.doc = q.doc
      /\ r.part = q.part /\ r.conflict = q.conflict
    BY <1>1 DEF Worker, Calls
<1> HIDE DEF q, r
<1>5. Sound(r, canon.doc, nodes', late)
    <2>1. ~ late /\ q.doc = canon.doc => Whole(canon.doc, nodes')
        <3>1. CASE q.at = "prune"
            BY <1>2, <3>1 DEF Sound, Whole
        <3>2. CASE q.at = "delete"
            BY <1>1, <1>2, <3>2, ChunkShape DEF Sound, Whole
        <3> QED
            BY <1>1, <3>1, <3>2
    <2> QED
        BY <1>1, <1>2, <1>4, <2>1 DEF Sound, Refused, InHand
<1>6. ContentHasSequence' /\ PointsOfSequence' /\ CanonicalBeforeVector' /\ CompletedIsStored'
    BY RemovalKeepsOrder
<1>7. SettledUnderSequence'
    BY DEF IInv, SettledUnderSequence, Whole
<1>8. /\ canon' \in Canonical /\ faults' \in 0 .. Faults /\ late' \in BOOLEAN /\ (late => late')
      /\ jobs' \in [Events -> {"open", "completed", "dead_letter"}]
    BY NoFault DEF IInv, TypeOK
<1>9. r.at # "idle" /\ r.job # None /\ r.at \notin {"add", "prune"}
    BY <1>1, <1>4, ProjectionConstants
<1>10. /\ canon.doc = canon'.doc
       /\ ~ late' => \A c \in ChunksOf(canon.doc) :
                        nodes[c] = NodeOf(canon.doc) => nodes'[c] = NodeOf(canon.doc)
    OBVIOUS
<1>11. Sound(r, canon'.doc, nodes', late')
    BY <1>5
<1> QED
    BY <1>3, <1>4, <1>6, <1>7, <1>8, <1>9, <1>10, <1>11, WorkerMoves

\* Chunks of the canonical sequence are not older than any document in hand.
LEMMA PruneStep ==
    ASSUME IInv, NEW w \in Workers, Prune(w)
    PROVE  IInv'
<1>1. /\ workers[w].at = "prune"
      /\ nodes' = [c \in Chunks |-> IF nodes[c].seq < workers[w].doc.seq THEN NoNode ELSE nodes[c]]
      /\ workers' = [workers EXCEPT ![w].at = "mark"]
      /\ UNCHANGED <<canon, jobs, faults, late>>
    BY DEF Prune, Goes
<1>2. nodes \in [Chunks -> Node] /\ canon.doc \in Document /\ workers[w].doc \in Document
    BY WorkerState, WorkerFields DEF IInv
<1>3. workers[w].doc.seq <= canon.doc.seq
    BY <1>1 DEF IInv, AllSound, Sound
<1>4. workers[w].doc.seq \in Nat /\ canon.doc.seq \in Nat
    BY <1>2, DocumentFields
<1>5. \A c \in ChunksOf(canon.doc) : nodes[c] = NodeOf(canon.doc) => nodes'[c] = NodeOf(canon.doc)
    <2> SUFFICES ASSUME NEW c \in ChunksOf(canon.doc), nodes[c] = NodeOf(canon.doc)
                 PROVE  nodes'[c] = NodeOf(canon.doc)
        OBVIOUS
    <2>1. c \in Chunks /\ NodeOf(canon.doc).seq = canon.doc.seq
        BY <1>2, ChunkShape, NodeShape
    <2> QED
        BY <1>1, <1>3, <1>4, <2>1
<1>6. nodes' \in [Chunks -> Node] /\ \A c \in Chunks : nodes'[c] = NoNode \/ nodes'[c] = nodes[c]
    BY <1>1, <1>2, NoNodeShape
<1> QED
    BY <1>1, <1>5, <1>6, Removes

\* A tombstone that removes chunks of the canonical sequence is the canonical
\* document itself, which has none.
LEMMA DeleteStep ==
    ASSUME IInv, NEW w \in Workers, Delete(w)
    PROVE  IInv'
<1>1. /\ workers[w].at = "delete"
      /\ nodes' = [c \in Chunks |-> IF nodes[c].seq <= workers[w].doc.seq THEN NoNode ELSE nodes[c]]
      /\ workers' = [workers EXCEPT ![w].at = "mark"]
      /\ UNCHANGED <<canon, jobs, faults, late>>
    BY DEF Delete, Goes
<1>2. nodes \in [Chunks -> Node] /\ canon.doc \in Document /\ workers[w].doc \in Document
    BY WorkerState, WorkerFields DEF IInv
<1>3. Sound(workers[w], canon.doc, nodes, late)
    BY DEF IInv, AllSound
<1>4. workers[w].doc.seq \in Nat /\ canon.doc.seq \in Nat
    BY <1>2, DocumentFields
<1>5. \A c \in ChunksOf(canon.doc) : nodes[c] = NodeOf(canon.doc) => nodes'[c] = NodeOf(canon.doc)
    <2> SUFFICES ASSUME NEW c \in ChunksOf(canon.doc), nodes[c] = NodeOf(canon.doc)
                 PROVE  nodes'[c] = NodeOf(canon.doc)
        OBVIOUS
    <2>1. canon.doc.content # None /\ c \in Chunks /\ NodeOf(canon.doc).seq = canon.doc.seq
        BY <1>2, ChunkShape, NodeShape
    <2>2. workers[w].doc # canon.doc
        BY <1>1, <1>3, <2>1 DEF Sound
    <2>3. workers[w].doc.seq < canon.doc.seq
        BY <1>1, <1>3, <1>4, <2>2 DEF Sound, InHand
    <2> QED
        BY <1>1, <1>4, <2>1, <2>3
<1>6. nodes' \in [Chunks -> Node] /\ \A c \in Chunks : nodes'[c] = NoNode \/ nodes'[c] = nodes[c]
    BY <1>1, <1>2, NoNodeShape
<1> QED
    BY <1>1, <1>5, <1>6, Removes

\* A document is marked when its chunks are there, and only while it is stored.
LEMMA MarkStep ==
    ASSUME IInv, NEW w \in Workers, Mark(w)
    PROVE  IInv'
<1> DEFINE q == workers[w]
           r == [q EXCEPT !.at = q.after]
<1>1. q.at = "mark" /\ q \in Worker /\ q.job \in Events /\ q.doc \in Document /\ q.part = 1
      /\ q.after \in {"finish", "reread", "inspect"} /\ canon.doc \in Document
    BY PastStage, WorkerState DEF Mark, IInv
<1>2. Sound(q, canon.doc, nodes, late)
    BY DEF IInv, AllSound
<1>3. /\ workers' = [workers EXCEPT ![w] = r]
      /\ canon' = IF canon.doc = q.doc THEN [canon EXCEPT !.pending = FALSE] ELSE canon
      /\ UNCHANGED <<nodes, jobs, late>> /\ faults' = faults
    <2>1. canon.doc = q.doc <=> SameChecksum(canon.doc, q.doc)
        BY <1>1, <1>2 DEF Sound, InHand, SameChecksum
    <2> QED
        BY <2>1 DEF Mark, Goes
<1>4. r \in Worker /\ r.at = q.after /\ r.job = q.job /\ r.doc = q.doc
      /\ r.part = 1 /\ r.conflict = q.conflict
    BY <1>1 DEF Worker, Calls
<1> HIDE DEF q, r
<1>5. canon' \in Canonical /\ canon'.doc = canon.doc
      /\ (~ canon'.pending => ~ canon.pending \/ canon.doc = q.doc)
    <2>1. canon \in Canonical
        BY DEF IInv, TypeOK
    <2> QED
        BY <1>3, <2>1 DEF Canonical
<1>6. SettledUnderSequence'
    BY <1>1, <1>2, <1>3, <1>5 DEF IInv, SettledUnderSequence, Sound
<1>7. ContentHasSequence' /\ PointsOfSequence' /\ CanonicalBeforeVector' /\ CompletedIsStored'
    BY <1>3, <1>5 DEF IInv, ContentHasSequence, PointsOfSequence, CanonicalBeforeVector,
                      CompletedIsStored
<1>8. Sound(r, canon'.doc, nodes', late')
    BY <1>1, <1>2, <1>3, <1>4, <1>5 DEF Sound, Refused, InHand
<1>9. /\ nodes' \in [Chunks -> Node] /\ late' \in BOOLEAN /\ (late => late')
      /\ jobs' \in [Events -> {"open", "completed", "dead_letter"}]
      /\ faults' \in 0 .. Faults
    BY <1>3, NoFault DEF IInv, TypeOK
<1>10. r.at # "idle" /\ r.job # None /\ r.at \notin {"add", "prune"}
    BY <1>1, <1>4, ProjectionConstants
<1>11. /\ canon.doc = canon'.doc
       /\ ~ late' => \A c \in ChunksOf(canon.doc) :
                        nodes[c] = NodeOf(canon.doc) => nodes'[c] = NodeOf(canon.doc)
    BY <1>3, <1>5
<1> QED
    BY <1>3, <1>4, <1>5, <1>6, <1>7, <1>8, <1>9, <1>10, <1>11, WorkerMoves

\* A job completes on what its worker has seen stored.
LEMMA FinishStep ==
    ASSUME IInv, NEW w \in Workers, Finish(w)
    PROVE  IInv'
<1> DEFINE q == workers[w]
<1>1. q.at = "finish" /\ q.job \in Events
    BY WorkerState DEF Finish, IInv
<1>2. Stored(q.job, canon.doc) \/ Refused(q)
    BY <1>1 DEF IInv, AllSound, Sound
<1>3. PICK outcome \in {"open", "completed", "dead_letter"} :
         Ends(w, outcome) /\ (outcome = "completed" => ~ Refused(q))
    BY DEF Finish, Refused
<1>4. /\ jobs' = IF jobs[q.job] = "open" THEN [jobs EXCEPT ![q.job] = outcome] ELSE jobs
      /\ workers' = [workers EXCEPT ![w] = Idle]
      /\ UNCHANGED <<canon, nodes, late>> /\ faults' = faults
    BY <1>3 DEF Ends
<1> HIDE DEF q
<1>5. jobs' \in [Events -> {"open", "completed", "dead_letter"}]
    BY <1>1, <1>4 DEF IInv, TypeOK
<1>6. CompletedIsStored'
    <2>1. \A e \in Events : jobs'[e] = "completed" =>
             jobs[e] = "completed" \/ (e = q.job /\ outcome = "completed")
        BY <1>1, <1>4 DEF IInv, TypeOK
    <2> QED
        BY <1>2, <1>3, <1>4, <2>1 DEF IInv, CompletedIsStored
<1>7. /\ ContentHasSequence' /\ SettledUnderSequence' /\ PointsOfSequence'
      /\ CanonicalBeforeVector'
    BY <1>4 DEF IInv, ContentHasSequence, SettledUnderSequence, PointsOfSequence,
                CanonicalBeforeVector
<1>8. /\ canon' \in Canonical /\ nodes' \in [Chunks -> Node] /\ late' \in BOOLEAN /\ (late => late')
      /\ faults' \in 0 .. Faults
    BY <1>4, NoFault DEF IInv, TypeOK
<1>9. Sound(Idle, canon'.doc, nodes', late')
    BY DEF Sound, Idle, InHand
<1>10. Idle.at = "idle" /\ Idle.job = None
    BY DEF Idle
<1>11. /\ canon.doc = canon'.doc
       /\ ~ late' => \A c \in ChunksOf(canon.doc) :
                        nodes[c] = NodeOf(canon.doc) => nodes'[c] = NodeOf(canon.doc)
    BY <1>4
<1> QED
    BY <1>4, <1>5, <1>6, <1>7, <1>8, <1>9, <1>10, <1>11, IdleIsWorker, WorkerMoves

-----------------------------------------------------------------------------
(* The theorems.                                                           *)

\* Before the first command nothing is stored and nobody has work.
LEMMA InitHolds == Init => IInv
<1> SUFFICES ASSUME Init PROVE IInv
    OBVIOUS
<1>1. NoDocument \in Document /\ NoDocument.seq = 0 /\ NoDocument.content = None
    BY DEF NoDocument, Document
<1>2. canon \in Canonical /\ canon.doc = NoDocument /\ nodes \in [Chunks -> Node]
      /\ \A c \in Chunks : nodes[c].seq = 0
    BY <1>1, NoNodeShape DEF Init, Canonical
<1>3. workers \in [Workers -> Worker] /\ \A w \in Workers : workers[w] = Idle
    BY IdleIsWorker DEF Init
<1>4. Idle.at = "idle" /\ Idle.job = None
    BY DEF Idle
<1>5. TypeOK
    <2>1. faults \in 0 .. Faults /\ jobs \in [Events -> {"open", "completed", "dead_letter"}]
        <3>1. faults = Faults /\ Faults \in Nat /\ jobs = [e \in Events |-> "open"]
            BY ProjectionConstants DEF Init
        <3> QED
            BY <3>1
    <2>2. \A w \in Workers : workers[w].at = "idle" /\ workers[w].job = None
        BY <1>3, <1>4
    <2>3. late \in BOOLEAN
        BY DEF Init
    <2> QED
        BY <1>2, <1>3, <2>1, <2>2, <2>3 DEF TypeOK
<1>6. AllSound
    <2>1. Sound(Idle, canon.doc, nodes, late)
        BY DEF Sound, Idle, InHand
    <2> QED
        BY <1>3, <2>1, Zenon DEF AllSound
<1>7. ContentHasSequence /\ CanonicalBeforeVector /\ CompletedIsStored
    BY <1>1, <1>2 DEF Init, ContentHasSequence, CanonicalBeforeVector, CompletedIsStored
<1>8. SettledUnderSequence /\ PointsOfSequence
    BY <1>1, <1>2, ChunkShape DEF SettledUnderSequence, PointsOfSequence, Whole
<1> QED
    BY <1>5, <1>6, <1>7, <1>8 DEF IInv

\* Every call of every handler preserves the invariant.
LEMMA NextHolds == IInv /\ [Next]_vars => IInv'
<1> SUFFICES ASSUME IInv, [Next]_vars PROVE IInv'
    OBVIOUS
<1>1. ASSUME NEW w \in Workers, Ingest(w) PROVE IInv'
    BY <1>1, BeginStep, StageStep, ClassifyStep, ResumeStep DEF Ingest
<1>2. ASSUME NEW w \in Workers, Project(w) PROVE IInv'
    BY <1>2, PlanStep, AddStep, PruneStep, DeleteStep, MarkStep, OutageStep DEF Project
<1>3. ASSUME NEW w \in Workers, Reconcile(w) PROVE IInv'
    BY <1>3, RereadStep, InspectStep, FetchStep, CompareStep DEF Reconcile
<1>4. ASSUME NEW w \in Workers, Finish(w) PROVE IInv'
    BY <1>4, FinishStep
<1>5. ASSUME NEW w \in Workers, Die(w) PROVE IInv'
    BY <1>5, DieStep
<1>6. CASE UNCHANGED vars
    BY <1>6 DEF vars, IInv, TypeOK, AllSound, ContentHasSequence, SettledUnderSequence,
                PointsOfSequence, CanonicalBeforeVector, CompletedIsStored
<1> QED
    BY <1>1, <1>2, <1>3, <1>4, <1>5, <1>6 DEF Next

\* The inductive invariant of the ingestion: what a worker has in hand is the
\* canonical document or older, whatever the interleaving of store calls.
THEOREM ProjectionInvariance == Spec => []IInv
BY InitHolds, NextHolds, PTL DEF Spec

\* The stores, the jobs and the workers stay within their types.
THEOREM ProjectionTypeCorrect == Spec => []TypeOK
<1>1. IInv => TypeOK
    BY DEF IInv
<1> QED
    BY <1>1, ProjectionInvariance, PTL

\* "canonical-before-vector ingestion": Qdrant never holds a chunk of a revision
\* that MongoDB has not accepted.
THEOREM IndexNeverLeads == Spec => []CanonicalBeforeVector
<1>1. IInv => CanonicalBeforeVector
    BY DEF IInv
<1> QED
    BY <1>1, ProjectionInvariance, PTL

\* CanonicalRetriever finds all of a settled document, however often Qdrant
\* failed, workers died and jobs were run again on the way.
THEOREM SettledDocumentsAreWhole == Spec => []SettledIsWhole
<1>1. IInv => SettledIsWhole
    <2> SUFFICES ASSUME IInv, ~ canon.pending, ~ late
                 PROVE  \A c \in ChunksOf(canon.doc) :
                           nodes[c] # NoNode /\ nodes[c].title = canon.doc.content.title
        BY DEF SettledIsWhole, Retrievable
    <2>1. Whole(canon.doc, nodes)
        BY DEF IInv, SettledUnderSequence
    <2>2. canon.doc \in Document
        BY DEF IInv, TypeOK, Canonical
    <2>3. ASSUME NEW c \in ChunksOf(canon.doc)
          PROVE  nodes[c] # NoNode /\ nodes[c].title = canon.doc.content.title
        <3>1. canon.doc.content # None /\ canon.doc.seq # 0
            BY <2>2, ChunkShape DEF IInv, ContentHasSequence
        <3>2. nodes[c] = NodeOf(canon.doc) /\ NodeOf(canon.doc).seq = canon.doc.seq
            BY <2>1, <2>2, <3>1, NodeShape DEF Whole
        <3>3. NodeOf(canon.doc).title = canon.doc.content.title
            BY DEF NodeOf
        <3> QED
            BY <3>1, <3>2, <3>3, NoNodeShape
    <2> QED
        BY <2>3
<1> QED
    BY <1>1, ProjectionInvariance, PTL

\* A job the queue calls completed has left its text, or a newer revision, in
\* the canonical store.
THEOREM CompletedJobsAreStored == Spec => []CompletedIsStored
<1>1. IInv => CompletedIsStored
    BY DEF IInv
<1> QED
    BY <1>1, ProjectionInvariance, PTL

\* _classify_existing never raises.
THEOREM RefusalsAreExplained == Spec => []RefusalIsExplained
<1>1. IInv => RefusalIsExplained
    <2> SUFFICES ASSUME IInv, NEW w \in Workers, workers[w].at = "refused"
                 PROVE  canon.doc # NoDocument /\ workers[w].doc.seq <= canon.doc.seq
        BY DEF RefusalIsExplained
    <2>1. workers[w].doc.seq <= canon.doc.seq /\ canon.doc.seq # 0
        BY DEF IInv, AllSound, Sound
    <2> QED
        BY <2>1 DEF NoDocument
<1> QED
    BY <1>1, ProjectionInvariance, PTL
=============================================================================
