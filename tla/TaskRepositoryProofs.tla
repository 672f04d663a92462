------------------------ MODULE TaskRepositoryProofs ------------------------
(***************************************************************************)
(* Proofs about TaskRepository, for every set of tasks, keys, payloads,    *)
(* schedules and users and every value of the bounds.                      *)
(*                                                                         *)
(* The argument: (1) with its checks still true, every step is a step of   *)
(* the ledger (StepIsLedgerStep); (2) a step of the ledger only evolves a  *)
(* document (LedgerEvolution), and a live document that changes gets a new *)
(* revision; (3) so a document that still has the revision a request read  *)
(* is the document it read, and its checks stay true (SoundnessIsStable).  *)
(***************************************************************************)
EXTENDS TaskRepository, TLAPS

\* The fields a conditional write sets.
Fields == {"payload", "schedule", "placement", "delegation"}

\* The fields of a stored document, one by one.
LEMMA TypedFields ==
    ASSUME NEW doc \in Document
    PROVE  /\ doc.kind \in Kinds
           /\ doc.payload \in Payloads \cup {Redacted}
           /\ doc.placement \in Placement
           /\ doc.schedule \in Schedules \cup {None}
           /\ doc.delegation \in Delegation \cup {None}
           /\ doc.revision \in Nat
           /\ doc.operation \in Operations \cup {None}
           /\ doc.digest \in Payloads \cup {Redacted, None}
BY DEF Document

\* The fields of a write in flight: its value is one its field can hold.
LEMMA PendingFields ==
    ASSUME NEW w \in Pending
    PROVE  /\ w.task \in Tasks
           /\ w.base \in Nat
           /\ w.field \in Fields
           /\ w.field = "payload" => w.value \in Payloads
           /\ w.field = "schedule" => w.value \in Schedules \cup {None}
           /\ w.field = "placement" => w.value \in Placement
           /\ w.field = "delegation" => w.value \in Delegation \cup {None}
           /\ w.stored \in BOOLEAN
BY DEF Pending, Fields

\* A write whose attempt was rolled back is a write in flight still.
LEMMA StoredPending ==
    ASSUME NEW w \in Pending
    PROVE  [w EXCEPT !.stored = TRUE] \in Pending
BY DEF Pending

\* A document with another revision is a document.
LEMMA SetRevision ==
    ASSUME NEW doc \in Document, NEW r \in Nat
    PROVE  [doc EXCEPT !.revision = r] \in Document
BY DEF Document

\* What one conditional write changes in a document, and what it keeps.
LEMMA WrittenFields ==
    ASSUME NEW doc \in Document, NEW f \in Fields, NEW v
    PROVE  LET new == Written(doc, f, v)
           IN  /\ new.kind = doc.kind
               /\ new.revision = doc.revision + 1
               /\ new.operation = doc.operation
               /\ new.digest = doc.digest
               /\ new.payload = IF f = "payload" THEN v ELSE doc.payload
               /\ new.placement = IF f = "placement" THEN v ELSE doc.placement
               /\ new.schedule = IF f = "schedule" THEN v ELSE doc.schedule
               /\ new.delegation = IF f = "delegation" THEN v ELSE doc.delegation
BY DEF Written, Document, Fields

\* A conditional write leaves a document.
LEMMA WrittenType ==
    ASSUME NEW doc \in Document, NEW w \in Pending
    PROVE  Written(doc, w.field, w.value) \in Document
<1>1. doc.revision + 1 \in Nat
    BY TypedFields
<1>2. ASSUME NEW r \in Nat
      PROVE  [doc EXCEPT ![w.field] = w.value, !.revision = r] \in Document
    <2>1. [doc EXCEPT ![w.field] = w.value] \in Document
        BY PendingFields DEF Document, Fields
    <2> QED
        BY <2>1, Zenon DEF Document
<1> QED
    BY <1>1, <1>2 DEF Written

\* What create stores: an active task at revision 0, under its operation id.
LEMMA NewTaskFields ==
    ASSUME NEW op \in Operations \cup {None}, NEW payload \in Payloads,
           NEW schedule \in Schedules \cup {None}
    PROVE  LET new == NewTask(op, payload, schedule)
           IN  /\ new \in Document
               /\ new.kind = "live"
               /\ new.revision = 0
               /\ new.operation = op
               /\ new.placement.state = "active"
               /\ new.delegation = None
<1>1. Unborn \in Document /\ Unborn.placement.state = "active"
      /\ Unborn.revision = 0 /\ Unborn.delegation = None
    BY DEF Unborn, Document, Placement, PriorStates, LifecycleStates, Kinds
<1>2. ASSUME NEW digest \in Payloads \cup {None}
      PROVE  [Unborn EXCEPT !.kind = "live", !.payload = payload, !.schedule = schedule,
                            !.operation = op, !.digest = digest] \in Document
    <2>1. /\ "live" \in Kinds
          /\ payload \in Payloads \cup {Redacted}
          /\ digest \in Payloads \cup {Redacted, None}
        BY DEF Kinds
    <2>2. [Unborn EXCEPT !.kind = "live", !.payload = payload] \in Document
        BY <1>1, <2>1, Zenon DEF Document
    <2>3. [[Unborn EXCEPT !.kind = "live", !.payload = payload]
              EXCEPT !.schedule = schedule, !.operation = op] \in Document
        BY <2>2, Zenon DEF Document
    <2> QED
        BY <2>1, <2>3, Zenon DEF Document
<1>3. NewTask(op, payload, schedule) \in Document
    BY <1>2 DEF NewTask
<1> QED
    BY <1>1, <1>3 DEF NewTask, Document

\* What the first delete call leaves: the operation id outlives the task.
LEMMA TombstoneFields ==
    ASSUME NEW doc \in Document
    PROVE  LET new == TombstoneOf(doc)
           IN  /\ new \in Document
               /\ new.kind = "tombstone"
               /\ new.revision = doc.revision + 1
               /\ new.operation = doc.operation
<1>1. [state |-> "trashed", prior |-> None] \in Placement
    BY DEF Placement, LifecycleStates
<1>2. ASSUME NEW r \in Nat
      PROVE  [doc EXCEPT !.kind = "tombstone", !.payload = Redacted,
                         !.placement = [state |-> "trashed", prior |-> None],
                         !.delegation = None, !.revision = r] \in Document
    <2>1. /\ "tombstone" \in Kinds
          /\ Redacted \in Payloads \cup {Redacted}
          /\ None \in Delegation \cup {None}
        BY DEF Kinds
    <2> QED
        BY <1>1, <2>1, Zenon DEF Document
<1>3. TombstoneOf(doc) \in Document
    <2>1. doc.revision + 1 \in Nat
        BY TypedFields
    <2> QED
        BY <1>2, <2>1, Zenon DEF TombstoneOf
<1> QED
    BY <1>3 DEF TombstoneOf, Document

\* What the second delete call leaves, as history.
LEMMA RemovalFields ==
    ASSUME NEW doc \in Document
    PROVE  LET new == RemovalOf(doc)
           IN  /\ new \in Document
               /\ new.kind = "gone"
               /\ new.revision = doc.revision
               /\ new.operation = doc.operation
BY DEF RemovalOf, Document, Kinds

\* What the calendar code saves: it touches neither kind, placement nor delegation.
LEMMA RewrittenFields ==
    ASSUME NEW doc \in Document, NEW payload \in Payloads \cup {Redacted},
           NEW schedule \in Schedules \cup {None}
    PROVE  LET new == Rewritten(doc, payload, schedule)
           IN  /\ new \in Document
               /\ new.kind = doc.kind
               /\ new.revision = doc.revision + 1
               /\ new.operation = doc.operation
               /\ new.placement = doc.placement
               /\ new.delegation = doc.delegation
<1>1. ASSUME NEW r \in Nat
      PROVE  [doc EXCEPT !.payload = payload, !.schedule = schedule,
                         !.revision = r] \in Document
    BY ZenonT(30) DEF Document
<1>2. Rewritten(doc, payload, schedule) \in Document
    <2>1. doc.revision + 1 \in Nat
        BY TypedFields
    <2> QED
        BY <1>1, <2>1, Zenon DEF Rewritten
<1> QED
    BY <1>2 DEF Rewritten, Document

-----------------------------------------------------------------------------
(* Every step is a step of the ledger.                                     *)

\* A document nobody has created has no operation id.
BlankUntilBorn ==
    \A t \in Tasks : docs[t].kind = "unborn" => docs[t].operation = None

\* The ledger reads the same data definitions as the repository.
LEMMA SameDomain ==
    /\ Ledger!Unborn = Unborn
    /\ \A doc, f, v : Ledger!Written(doc, f, v) = Written(doc, f, v)
    /\ \A op, p, s : Ledger!NewTask(op, p, s) = NewTask(op, p, s)
    /\ \A doc : /\ Ledger!TombstoneOf(doc) = TombstoneOf(doc)
                /\ Ledger!RemovalOf(doc) = RemovalOf(doc)
    /\ \A from, action, to : Ledger!LegalMove(from, action, to) <=> LegalMove(from, action, to)
    /\ \A from, to : Ledger!LegalAnswer(from, to) <=> LegalAnswer(from, to)
    /\ Ledger!Placement = Placement
    /\ Ledger!LifecycleActions = LifecycleActions
    /\ Ledger!DelegationStatuses = DelegationStatuses
BY DEF Ledger!Unborn, Unborn, Ledger!Written, Written, Ledger!NewTask, NewTask,
       Ledger!TombstoneOf, TombstoneOf, Ledger!RemovalOf, RemovalOf,
       Ledger!LegalMove, LegalMove, Ledger!LegalAnswer, LegalAnswer,
       Ledger!Placement, Placement, Ledger!PriorStates, PriorStates,
       Ledger!LifecycleStates, LifecycleStates, Ledger!LifecycleActions,
       LifecycleActions, Ledger!DelegationStatuses, DelegationStatuses

\* A conditional write whose guard was checked before an await is, when it
\* commits, a legal change of the document as it is then.
LEMMA CommitIsLedgerStep ==
    ASSUME TypeOK, ChecksStillHold, NEW w \in pending, Commit(w)
    PROVE  Ledger!Next
<1> DEFINE t == w.task
<1>1. w \in Pending /\ t \in Tasks /\ docs[t] \in Document
    BY PendingFields DEF TypeOK
<1>2. /\ docs[t].kind = "live"
      /\ Matches(t, w.base)
      /\ docs' = [docs EXCEPT ![t] = Written(docs[t], w.field, w.value)]
    BY DEF Commit, Matches
<1>3. CASE w.field = "payload"
    <2>1. w.value \in Payloads
        BY <1>1, <1>3, PendingFields
    <2>2. Ledger!OwnerWrites(t, "payload", w.value)
        BY <1>2, <1>3, <2>1, SameDomain DEF Ledger!OwnerWrites
    <2> QED
        BY <1>1, <2>1, <2>2 DEF Ledger!Next
<1>4. CASE w.field = "schedule"
    <2>1. w.value \in Schedules \cup {None}
        BY <1>1, <1>4, PendingFields
    <2>2. Ledger!OwnerWrites(t, "schedule", w.value)
        BY <1>2, <1>4, <2>1, SameDomain DEF Ledger!OwnerWrites
    <2> QED
        BY <1>1, <2>1, <2>2 DEF Ledger!Next
<1>5. CASE w.field = "placement"
    <2>1. w.value \in Placement
        BY <1>1, <1>5, PendingFields
    <2>2. PICK action \in LifecycleActions : LegalMove(docs[t].placement, action, w.value)
        BY <1>2, <1>5 DEF ChecksStillHold
    <2>3. docs'[t].placement = w.value
        BY <1>1, <1>2, <1>5 DEF TypeOK, Written, Document
    <2>4. Ledger!Moves(t, action)
        BY <1>2, <1>5, <2>2, <2>3, SameDomain DEF Ledger!Moves
    <2> QED
        BY <1>1, <2>2, <2>4, SameDomain DEF Ledger!Next
<1>6. CASE w.field = "delegation" /\ w.value \in Offers \cup {None}
    <2>1. Ledger!OwnerWrites(t, "delegation", w.value)
        BY <1>2, <1>6, SameDomain DEF Ledger!OwnerWrites, Offers
    <2> QED
        BY <1>1, <1>6, <2>1 DEF Ledger!Next, Offers
<1>7. CASE w.field = "delegation" /\ w.value \notin Offers \cup {None}
    <2>1. w.value \in Delegation
        BY <1>1, <1>7, PendingFields
    <2>2. /\ w.value.assignee \in Users
          /\ w.value.status \in DelegationStatuses
          /\ w.value = [assignee |-> w.value.assignee, status |-> w.value.status]
        BY <2>1 DEF Delegation
    <2>3. /\ docs[t].delegation # None
          /\ docs[t].delegation.assignee = w.value.assignee
          /\ LegalAnswer(docs[t].delegation.status, w.value.status)
        BY <1>2, <1>7 DEF ChecksStillHold
    <2>4. Ledger!Answers(t, w.value.assignee, w.value.status)
        BY <1>2, <1>7, <2>2, <2>3, SameDomain DEF Ledger!Answers
    <2> QED
        BY <1>1, <2>2, <2>4, SameDomain DEF Ledger!Next
<1> QED
    BY <1>1, <1>3, <1>4, <1>5, <1>6, <1>7, PendingFields DEF Fields

\* A create, keyed or not, adds a task to the ledger or finds one there.
LEMMA CreatesAreLedgerSteps ==
    ASSUME TypeOK, OneTaskPerOperation,
           \/ \E t \in Tasks, payload \in Payloads : Create(t, payload)
           \/ \E op \in Operations, payload \in Payloads : CreateUpsert(op, payload)
    PROVE  [Ledger!Next]_docs
<1>1. ASSUME NEW t \in Tasks, NEW payload \in Payloads, Create(t, payload)
      PROVE  Ledger!Next
    <2>1. Ledger!Create(t, None, payload, None)
        BY <1>1, SameDomain DEF Create, Ledger!Create
    <2> QED
        BY <2>1 DEF Ledger!Next
<1>2. ASSUME NEW op \in Operations, NEW payload \in Payloads, CreateUpsert(op, payload)
      PROVE  [Ledger!Next]_docs
    <2>1. CASE Holders(op) # {}
        BY <1>2, <2>1 DEF CreateUpsert
    <2>2. CASE Holders(op) = {}
        <3>1. PICK t \in Tasks : /\ docs[t].kind = "unborn"
                                 /\ docs' = [docs EXCEPT ![t] = NewTask(op, payload, None)]
            BY <1>2, <2>2 DEF CreateUpsert
        <3>2. \A u \in Tasks : docs[u].operation # op
            BY <2>2, DistinctValues DEF Holders, OneTaskPerOperation
        <3>3. Ledger!Create(t, op, payload, None)
            BY <3>1, <3>2, SameDomain DEF Ledger!Create
        <3> QED
            BY <3>3 DEF Ledger!Next
    <2> QED
        BY <2>1, <2>2
<1> QED
    BY <1>1, <1>2

\* Each of the two delete calls is a removal of the ledger or changes nothing.
LEMMA DeletesAreLedgerSteps ==
    ASSUME TypeOK, RemovalsAreUnkeyed, NEW d \in deleting,
           DeleteTombstone(d) \/ DeleteRemove(d)
    PROVE  [Ledger!Next]_docs
<1>1. d.task \in Tasks
    BY DEF TypeOK, Deleting
<1>2. CASE DeleteTombstone(d) /\ DeleteMatches(d) /\ docs[d.task].operation # None
    <2>1. Ledger!Removes(d.task)
        BY <1>2, SameDomain
        DEF DeleteTombstone, DeleteMatches, Matches, Ledger!Removes
    <2> QED
        BY <1>1, <2>1 DEF Ledger!Next
<1>3. CASE DeleteRemove(d) /\ DeleteMatches(d)
    <2>1. docs[d.task].operation = None
        BY <1>3 DEF DeleteRemove, DeleteMatches, RemovalsAreUnkeyed
    <2>2. Ledger!Removes(d.task)
        BY <1>3, <2>1, SameDomain
        DEF DeleteRemove, DeleteMatches, Matches, Ledger!Removes
    <2> QED
        BY <1>1, <2>2 DEF Ledger!Next
<1>4. CASE DeleteTombstone(d) /\ ~(DeleteMatches(d) /\ docs[d.task].operation # None)
    BY <1>4 DEF DeleteTombstone
<1>5. CASE DeleteRemove(d) /\ ~DeleteMatches(d)
    BY <1>5 DEF DeleteRemove
<1> QED
    BY <1>2, <1>3, <1>4, <1>5

\* What the calendar code saves is a calendar write of the ledger.
LEMMA RewriteIsLedgerStep ==
    ASSUME TypeOK, NEW t \in Tasks, Stored(t),
           NEW payload \in Payloads \cup {docs[t].payload},
           NEW schedule \in Schedules \cup {None},
           docs' = [docs EXCEPT ![t] = Rewritten(docs[t], payload, schedule)]
    PROVE  Ledger!Next
<1>1. Ledger!CalendarWrites(t, payload, schedule)
    BY DEF Stored, Ledger!CalendarWrites, Rewritten
<1>2. docs[t] \in Document
    BY DEF TypeOK
<1>3. payload \in Payloads \cup {Redacted}
    BY <1>2, TypedFields
<1> QED
    BY <1>1, <1>3 DEF Ledger!Next

\* So is every action of the calendar code, or it leaves the documents alone.
LEMMA CalendarIsLedgerStep ==
    ASSUME TypeOK, Calendar
    PROVE  [Ledger!Next]_docs
<1>1. ASSUME NEW t \in Tasks, NEW payload \in Payloads, NEW schedule \in Schedules,
             InboundWrite(t, payload, schedule) \/ LinkFromGoogle(t, payload, schedule)
      PROVE  Ledger!Next
    <2>1. /\ Stored(t)
          /\ docs' = [docs EXCEPT ![t] = Rewritten(docs[t], payload, schedule)]
        BY <1>1 DEF InboundWrite, LinkFromGoogle
    <2> QED
        BY <2>1, RewriteIsLedgerStep
<1>2. ASSUME NEW t \in Tasks, NEW payload \in Payloads, NEW schedule \in Schedules,
             Import(t, payload, schedule)
      PROVE  Ledger!Next
    <2>1. Ledger!Create(t, None, payload, schedule)
        BY <1>2, SameDomain DEF Import, Ledger!Create
    <2> QED
        BY <2>1 DEF Ledger!Next
<1>3. ASSUME NEW t \in Tasks, ClearDate(t)
      PROVE  Ledger!Next
    <2>1. /\ Stored(t)
          /\ docs' = [docs EXCEPT ![t] = Rewritten(docs[t], docs[t].payload, None)]
        BY <1>3 DEF ClearDate
    <2> QED
        BY <2>1, RewriteIsLedgerStep
<1>4. ASSUME NEW t \in Tasks, Detach(t) \/ LinkToGoogle(t)
      PROVE  UNCHANGED docs
    BY <1>4 DEF Detach, LinkToGoogle
<1>5. ASSUME NEW e \in outbox, Acknowledge(e)
      PROVE  UNCHANGED docs
    BY <1>5 DEF Acknowledge
<1> QED
    BY <1>1, <1>2, <1>3, <1>4, <1>5 DEF Calendar

\* A request that arrives and reads has written nothing yet.
LEMMA RequestsLeaveDocs == Request => UNCHANGED docs
BY DEF Request, RequestFor, Update, UpdateSchedule, UpdateDelegation, TransitionLifecycle,
       TransitionDelegation, DeleteRequest, Accept

\* Every step of the repository is a step of the ledger or leaves it alone.
LEMMA StepIsLedgerStep ==
    ASSUME TypeOK, OneTaskPerOperation, ChecksStillHold, RemovalsAreUnkeyed, [Next]_vars
    PROVE  [Ledger!Next]_docs
<1>1. CASE Request
    BY <1>1, RequestsLeaveDocs
<1>2. CASE \/ \E t \in Tasks, payload \in Payloads : Create(t, payload)
           \/ \E op \in Operations, payload \in Payloads : CreateUpsert(op, payload)
    BY <1>2, CreatesAreLedgerSteps
<1>3. ASSUME NEW c \in creating, CreateRead(c)
      PROVE  UNCHANGED docs
    BY <1>3 DEF CreateRead
<1>4. ASSUME NEW w \in pending, Commit(w) \/ Abort(w) \/ Miss(w)
      PROVE  [Ledger!Next]_docs
    BY <1>4, CommitIsLedgerStep DEF Abort, Miss
<1>5. ASSUME NEW d \in deleting, DeleteTombstone(d) \/ DeleteRemove(d)
      PROVE  [Ledger!Next]_docs
    BY <1>5, DeletesAreLedgerSteps
<1>6. CASE Die
    BY <1>6 DEF Die
<1>7. CASE Calendar
    BY <1>7, CalendarIsLedgerStep
<1>8. CASE ToggleConnection
    BY <1>8 DEF ToggleConnection
<1>9. CASE UNCHANGED vars
    BY <1>9 DEF vars
<1> QED
    BY <1>1, <1>2, <1>3, <1>4, <1>5, <1>6, <1>7, <1>8, <1>9 DEF Next

-----------------------------------------------------------------------------
(* What a step of the ledger does to each document.                        *)

\* Every way a step may change a document: history is kept, a revision counts
\* up with every change of a live task, the dead stay dead.
Evolves(old, new) ==
    /\ old.kind # "unborn" => /\ new.kind # "unborn"
                              /\ new.operation = old.operation
                              /\ old.revision <= new.revision
    /\ old.kind \in {"tombstone", "gone"} => new.kind = old.kind
    /\ old.kind = "live" /\ new.kind # "live" =>
          old.placement.state = "trashed"
    /\ old.kind = "live" /\ new.kind = "live" /\ new.revision = old.revision =>
          new = old
    /\ new.kind = "gone" => new.operation = None \/ new = old
    /\ new.kind = "unborn" => new = old

\* A conditional write of a live task is an evolution of it.
LEMMA WrittenEvolves ==
    ASSUME NEW doc \in Document, NEW f \in Fields, NEW v, doc.kind = "live",
           \/ f = "payload" /\ v \in Payloads
           \/ f = "schedule" /\ v \in Schedules \cup {None}
           \/ f = "placement" /\ v \in Placement
           \/ f = "delegation" /\ v \in Delegation \cup {None}
    PROVE  /\ Written(doc, f, v) \in Document
           /\ Evolves(doc, Written(doc, f, v))
<1>1. doc.revision \in Nat /\ doc.revision + 1 \in Nat
    BY TypedFields
<1>2. ASSUME NEW r \in Nat
      PROVE  [doc EXCEPT ![f] = v, !.revision = r] \in Document
    <2>1. [doc EXCEPT ![f] = v] \in Document
        BY DEF Document, Fields
    <2> QED
        BY <2>1, Zenon DEF Document
<1>3. Written(doc, f, v) \in Document
    BY <1>1, <1>2 DEF Written
<1>4. Evolves(doc, Written(doc, f, v))
    BY <1>1, WrittenFields DEF Evolves
<1> QED
    BY <1>3, <1>4

\* Every step of the ledger keeps the documents typed and only evolves them.
LEMMA LedgerEvolution ==
    ASSUME docs \in [Tasks -> Document], [Ledger!Next]_docs
    PROVE  /\ docs' \in [Tasks -> Document]
           /\ \A t \in Tasks : Evolves(docs[t], docs'[t])
<1> DEFINE Changes(t, new) == /\ docs' = [docs EXCEPT ![t] = new]
                              /\ new \in Document
                              /\ Evolves(docs[t], new)
<1>1. \A t \in Tasks : docs[t] \in Document /\ Evolves(docs[t], docs[t])
    BY TypedFields DEF Evolves
<1>2. ASSUME NEW t \in Tasks, NEW new, Changes(t, new)
      PROVE  /\ docs' \in [Tasks -> Document]
             /\ \A u \in Tasks : Evolves(docs[u], docs'[u])
    BY <1>1, <1>2
<1>3. ASSUME NEW t \in Tasks, NEW op \in Operations \cup {None},
             NEW payload \in Payloads, NEW schedule \in Schedules \cup {None},
             Ledger!Create(t, op, payload, schedule)
      PROVE  Changes(t, NewTask(op, payload, schedule))
    BY <1>3, NewTaskFields, SameDomain DEF Ledger!Create, Evolves
<1>4. ASSUME NEW t \in Tasks, NEW f, NEW v, Ledger!OwnerWrites(t, f, v)
      PROVE  Changes(t, Written(docs[t], f, v))
    <2>1. /\ docs[t].kind = "live"
          /\ f \in Fields
          /\ docs' = [docs EXCEPT ![t] = Written(docs[t], f, v)]
          /\ \/ f = "payload" /\ v \in Payloads
             \/ f = "schedule" /\ v \in Schedules \cup {None}
             \/ f = "delegation" /\ v \in Offers \cup {None}
        BY <1>4, SameDomain DEF Ledger!OwnerWrites, Offers, Fields
    <2>2. Offers \subseteq Delegation
        BY DEF Offers, Delegation, DelegationStatuses
    <2> QED
        BY <1>1, <2>1, <2>2, WrittenEvolves
<1>5. ASSUME NEW t \in Tasks, NEW action, Ledger!Moves(t, action)
      PROVE  Changes(t, Written(docs[t], "placement", docs'[t].placement))
    <2> DEFINE to == docs'[t].placement
    <2>1. LegalMove(docs[t].placement, action, to)
        BY <1>5, SameDomain DEF Ledger!Moves
    <2>2. docs[t].placement \in Placement
        BY <1>1 DEF Document
    <2>3. to \in Placement
        BY <2>1, <2>2 DEF LegalMove, Placement, PriorStates, LifecycleStates
    <2> QED
        BY <1>1, <1>5, <2>3, SameDomain, WrittenEvolves DEF Ledger!Moves, Fields
<1>6. ASSUME NEW t \in Tasks, NEW user \in Users, NEW status \in DelegationStatuses,
             Ledger!Answers(t, user, status)
      PROVE  Changes(t, Written(docs[t], "delegation", [assignee |-> user, status |-> status]))
    <2>1. [assignee |-> user, status |-> status] \in Delegation
        BY DEF Delegation
    <2> QED
        BY <1>1, <1>6, <2>1, SameDomain, WrittenEvolves DEF Ledger!Answers, Fields
<1>7. ASSUME NEW t \in Tasks, NEW payload \in Payloads \cup {Redacted},
             NEW schedule \in Schedules \cup {None},
             Ledger!CalendarWrites(t, payload, schedule)
      PROVE  Changes(t, Rewritten(docs[t], payload, schedule))
    <2>1. /\ docs[t].kind \in {"live", "tombstone"}
          /\ docs' = [docs EXCEPT ![t] = Rewritten(docs[t], payload, schedule)]
        BY <1>7 DEF Ledger!CalendarWrites, Rewritten
    <2>2. docs[t].revision \in Nat
        BY <1>1, TypedFields
    <2> QED
        BY <1>1, <2>1, <2>2, RewrittenFields DEF Evolves
<1>8. ASSUME NEW t \in Tasks, Ledger!Removes(t)
      PROVE  \/ Changes(t, TombstoneOf(docs[t]))
             \/ Changes(t, RemovalOf(docs[t]))
    <2>1. docs[t].revision \in Nat
        BY <1>1, TypedFields
    <2>2. docs[t] \in Document /\ docs[t].kind = "live" /\ docs[t].placement.state = "trashed"
        BY <1>1, <1>8 DEF Ledger!Removes
    <2>3. CASE docs[t].operation = None
        <3>1. docs' = [docs EXCEPT ![t] = RemovalOf(docs[t])]
            BY <1>8, <2>3, SameDomain DEF Ledger!Removes
        <3>2. Evolves(docs[t], RemovalOf(docs[t]))
            BY <2>1, <2>2, <2>3, RemovalFields DEF Evolves
        <3> QED
            BY <2>2, <3>1, <3>2, RemovalFields
    <2>4. CASE docs[t].operation # None
        <3>1. docs' = [docs EXCEPT ![t] = TombstoneOf(docs[t])]
            BY <1>8, <2>4, SameDomain DEF Ledger!Removes
        <3>2. Evolves(docs[t], TombstoneOf(docs[t]))
            BY <2>1, <2>2, TombstoneFields DEF Evolves
        <3> QED
            BY <2>2, <3>1, <3>2, TombstoneFields
    <2> QED
        BY <2>3, <2>4
<1>9. CASE Ledger!Next
    BY <1>2, <1>3, <1>4, <1>5, <1>6, <1>7, <1>8, <1>9, SameDomain DEF Ledger!Next
<1>10. CASE UNCHANGED docs
    BY <1>1, <1>10
<1> QED
    BY <1>9, <1>10

\* Every step of the ledger keeps one task per operation id.
LEMMA LedgerKeepsKeys ==
    ASSUME docs \in [Tasks -> Document], BlankUntilBorn, OneTaskPerOperation,
           [Ledger!Next]_docs
    PROVE  BlankUntilBorn' /\ OneTaskPerOperation'
<1>1. /\ docs' \in [Tasks -> Document]
      /\ \A t \in Tasks : Evolves(docs[t], docs'[t])
    BY LedgerEvolution
<1>2. BlankUntilBorn'
    BY <1>1 DEF BlankUntilBorn, Evolves
<1>3. \A t \in Tasks : docs'[t].kind \in Kinds
    BY <1>1, TypedFields
<1>4. ASSUME NEW t \in Tasks, NEW op \in Operations \cup {None}, NEW payload \in Payloads,
             NEW schedule \in Schedules \cup {None}, Ledger!Create(t, op, payload, schedule)
      PROVE  OneTaskPerOperation'
    <2>1. /\ docs[t].kind = "unborn"
          /\ op # None => \A u \in Tasks : docs[u].operation # op
          /\ docs' = [docs EXCEPT ![t] = NewTask(op, payload, schedule)]
        BY <1>4, SameDomain DEF Ledger!Create
    <2>2. NewTask(op, payload, schedule).operation = op /\ NewTask(op, payload, schedule).kind = "live"
        BY NewTaskFields
    <2> QED
        BY <2>1, <2>2 DEF OneTaskPerOperation
<1>5. CASE \A t \in Tasks : docs[t].kind # "unborn" \/ docs'[t] = docs[t]
    <2>1. \A t \in Tasks : docs'[t].operation = docs[t].operation
        BY <1>1, <1>5 DEF Evolves
    <2>2. \A t \in Tasks : docs'[t].operation # None => docs'[t].kind \in {"live", "tombstone"}
        BY <1>1, <1>2, <1>3, <2>1 DEF OneTaskPerOperation, BlankUntilBorn, Evolves, Kinds
    <2>3. ASSUME NEW t \in Tasks, docs'[t].operation # None, NEW u \in Tasks,
                 docs'[u].operation = docs'[t].operation
          PROVE  u = t
        <3>1. docs[t].operation # None /\ docs[u].operation = docs[t].operation
            BY <2>1, <2>3
        <3> QED
            BY <3>1 DEF OneTaskPerOperation
    <2> QED
        BY <1>2, <2>2, <2>3 DEF OneTaskPerOperation
<1>6. CASE \E t \in Tasks : docs[t].kind = "unborn" /\ docs'[t] # docs[t]
    <2>1. PICK t \in Tasks : docs[t].kind = "unborn" /\ docs'[t] # docs[t]
        BY <1>6
    <2>2. Ledger!Next
        BY <2>1
    <2>3. \E u \in Tasks, op \in Operations \cup {None}, payload \in Payloads,
             schedule \in Schedules \cup {None} : Ledger!Create(u, op, payload, schedule)
        BY <2>1, <2>2
        DEF Ledger!Next, Ledger!OwnerWrites, Ledger!Moves, Ledger!Answers,
            Ledger!CalendarWrites, Ledger!Removes
    <2>4. PICK u \in Tasks, op \in Operations \cup {None}, payload \in Payloads,
               schedule \in Schedules \cup {None} : Ledger!Create(u, op, payload, schedule)
        BY <2>3
    <2> QED
        BY <1>2, <1>4, <2>4
<1> QED
    BY <1>2, <1>5, <1>6

-----------------------------------------------------------------------------
(* The inductive invariant.                                                *)

\* Why CreatesAreAnswered holds: the key of a create in flight has a holder.
CreatesHoldTheirKey == \A c \in creating : Holders(c.operation) # {}

\* TypeOK, OneTaskPerOperation, InFlightConsistent and EventsAreOfThePast are
\* not inductive alone: each needs the others, and the two parts above.
IInv ==
    /\ TypeOK
    /\ BlankUntilBorn
    /\ OneTaskPerOperation
    /\ InFlightConsistent
    /\ CreatesHoldTheirKey
    /\ EventsAreOfThePast

\* The initial state satisfies the inductive invariant.
LEMMA InitEstablishes == Init => IInv
<1> SUFFICES ASSUME Init PROVE IInv
    OBVIOUS
<1>1. Unborn \in Document
    BY DEF Unborn, Document, Placement, PriorStates, LifecycleStates, Kinds
<1>2. TypeOK
    BY <1>1 DEF Init, TypeOK
<1>3. \A t \in Tasks : docs[t].operation = None
    BY DEF Init, Unborn
<1> QED
    BY <1>2, <1>3
    DEF Init, IInv, BlankUntilBorn, OneTaskPerOperation, InFlightConsistent,
        BasesWereReached, ChecksStillHold, RemovalsAreUnkeyed,
        CreatesHoldTheirKey, EventsAreOfThePast

\* What a request in flight relies on, for the documents as they are.
WriteIsSound(w) ==
    /\ w.base \in Issued(w.task)
    /\ Matches(w.task, w.base) =>
        /\ w.field = "placement" =>
              \E action \in LifecycleActions :
                  LegalMove(docs[w.task].placement, action, w.value)
        /\ w.field = "delegation" /\ w.value \notin Offers \cup {None} =>
              /\ docs[w.task].delegation # None
              /\ docs[w.task].delegation.assignee = w.value.assignee
              /\ LegalAnswer(docs[w.task].delegation.status, w.value.status)

DeleteIsSound(d) ==
    /\ d.base \in Issued(d.task)
    /\ Matches(d.task, d.base) =>
        /\ docs[d.task].placement.state = "trashed"
        /\ d.call = "remove" => docs[d.task].operation = None

\* InFlightConsistent, request by request.
LEMMA SoundRequests ==
    InFlightConsistent <=> /\ \A w \in pending : WriteIsSound(w)
                           /\ \A d \in deleting : DeleteIsSound(d)
BY DEF InFlightConsistent, BasesWereReached, ChecksStillHold, RemovalsAreUnkeyed,
       WriteIsSound, DeleteIsSound

\* No step of the ledger invalidates what a request relies on.
LEMMA SoundnessIsStable ==
    ASSUME docs \in [Tasks -> Document], docs' \in [Tasks -> Document],
           \A t \in Tasks : Evolves(docs[t], docs'[t])
    PROVE  /\ \A w \in Pending : WriteIsSound(w) => WriteIsSound(w)'
           /\ \A d \in Deleting : DeleteIsSound(d) => DeleteIsSound(d)'
<1>1. ASSUME NEW t \in Tasks, NEW base \in Nat, base \in Issued(t)
      PROVE  /\ base \in Issued(t)'
             /\ Matches(t, base)' => Matches(t, base) /\ docs'[t] = docs[t]
    <2>1. /\ docs[t].kind # "unborn" /\ base <= docs[t].revision
          /\ docs[t].revision \in Nat /\ docs'[t].revision \in Nat
          /\ docs[t].kind \in Kinds
        BY <1>1, TypedFields DEF Issued
    <2>2. docs'[t].kind # "unborn" /\ docs[t].revision <= docs'[t].revision
        BY <2>1 DEF Evolves
    <2>3. base \in Issued(t)'
        BY <2>1, <2>2 DEF Issued
    <2>4. ASSUME Matches(t, base)'
          PROVE  Matches(t, base) /\ docs'[t] = docs[t]
        <3>1. docs'[t].kind = "live" /\ docs'[t].revision = base
            BY <2>4 DEF Matches
        <3>2. docs[t].revision = base
            BY <2>1, <2>2, <3>1
        <3>3. docs[t].kind = "live"
            BY <2>1, <3>1 DEF Evolves, Kinds
        <3> QED
            BY <3>1, <3>2, <3>3 DEF Evolves, Matches
    <2> QED
        BY <2>3, <2>4
<1>2. ASSUME NEW w \in Pending, WriteIsSound(w)
      PROVE  WriteIsSound(w)'
    <2>1. w.task \in Tasks /\ w.base \in Nat /\ w.base \in Issued(w.task)
        BY <1>2, PendingFields DEF WriteIsSound
    <2>2. /\ w.base \in Issued(w.task)'
          /\ Matches(w.task, w.base)' =>
                Matches(w.task, w.base) /\ docs'[w.task] = docs[w.task]
        BY <1>1, <2>1
    <2> QED
        BY <1>2, <2>2 DEF WriteIsSound
<1>3. ASSUME NEW d \in Deleting, DeleteIsSound(d)
      PROVE  DeleteIsSound(d)'
    <2>1. d.task \in Tasks /\ d.base \in Nat /\ d.base \in Issued(d.task)
        BY <1>3 DEF Deleting, DeleteIsSound
    <2>2. /\ d.base \in Issued(d.task)'
          /\ Matches(d.task, d.base)' =>
                Matches(d.task, d.base) /\ docs'[d.task] = docs[d.task]
        BY <1>1, <2>1
    <2> QED
        BY <1>3, <2>2 DEF DeleteIsSound
<1> QED
    BY <1>2, <1>3

\* A step of the repository evolves the documents, being a step of the ledger.
LEMMA DocumentsEvolve ==
    ASSUME IInv, [Next]_vars
    PROVE  /\ docs' \in [Tasks -> Document]
           /\ \A t \in Tasks : Evolves(docs[t], docs'[t])
           /\ BlankUntilBorn' /\ OneTaskPerOperation'
<1>1. [Ledger!Next]_docs
    BY StepIsLedgerStep DEF IInv, InFlightConsistent
<1>2. docs \in [Tasks -> Document]
    BY DEF IInv, TypeOK
<1> QED
    BY <1>1, <1>2, LedgerEvolution, LedgerKeepsKeys DEF IInv

\* The events a write owes name its task and the revision after its base.
LEMMA EventsOfType ==
    ASSUME NEW w \in Pending
    PROVE  /\ EventsOf(w) \in SUBSET Event
           /\ \A e \in EventsOf(w) : e.task = w.task /\ e.revision = w.base + 1
<1>1. w.task \in Tasks /\ w.base + 1 \in Nat
    BY PendingFields
<1>2. \A type \in EventTypes :
        [task |-> w.task, type |-> type, revision |-> w.base + 1] \in Event
    BY <1>1 DEF Event
<1>3. \A e \in EventsOf(w) : \E type \in EventTypes :
        e = [task |-> w.task, type |-> type, revision |-> w.base + 1]
    BY DEF EventsOf, EventTypes
<1> QED
    BY <1>2, <1>3

\* A request after a step: in flight already, or new and sound in a step that
\* leaves the documents alone.
WriteIsCovered(w) ==
    w \in Pending /\ (w \in pending \/ (UNCHANGED docs /\ WriteIsSound(w)))

DeleteIsCovered(d) ==
    d \in Deleting /\ (d \in deleting \/ (UNCHANGED docs /\ DeleteIsSound(d)))

\* A step adds no write in flight whose checks do not hold: the checks are made
\* in the step that adds it, or by the attempt it retries.
LEMMA PendingAreSound ==
    ASSUME IInv, [Next]_vars
    PROVE  \A w \in pending' : WriteIsCovered(w)
<1>1. pending \subseteq Pending /\ \A w \in pending : w \in Pending /\ WriteIsSound(w)
    BY SoundRequests DEF IInv, TypeOK
<1>2. ASSUME pending' \subseteq pending
      PROVE  \A w \in pending' : WriteIsCovered(w)
    BY <1>1, <1>2 DEF WriteIsCovered
<1>3. ASSUME NEW t \in Tasks, NEW base \in Issued(t), RequestFor(t, base)
      PROVE  \A w \in pending' : WriteIsCovered(w)
    <2>2. base \in Nat
        BY DEF Issued
    <2>3. ASSUME NEW field, NEW value, Accept(t, base, field, value),
                 LET w == [task |-> t, base |-> base, field |-> field,
                           value |-> value, stored |-> FALSE]
                 IN  w \in Pending /\ WriteIsSound(w)
          PROVE  \A w \in pending' : WriteIsCovered(w)
        BY <1>1, <2>3 DEF Accept, WriteIsCovered
    <2>4. ASSUME NEW payload \in Payloads, Update(t, base, payload)
          PROVE  \A w \in pending' : WriteIsCovered(w)
        <3>1. LET w == [task |-> t, base |-> base, field |-> "payload",
                        value |-> payload, stored |-> FALSE]
              IN  w \in Pending /\ WriteIsSound(w)
            BY <2>2 DEF Pending, WriteIsSound
        <3> QED
            BY <2>3, <2>4, <3>1 DEF Update
    <2>5. ASSUME NEW schedule \in Schedules \cup {None}, UpdateSchedule(t, base, schedule)
          PROVE  \A w \in pending' : WriteIsCovered(w)
        <3>1. LET w == [task |-> t, base |-> base, field |-> "schedule",
                        value |-> schedule, stored |-> FALSE]
              IN  w \in Pending /\ WriteIsSound(w)
            BY <2>2 DEF Pending, WriteIsSound
        <3> QED
            BY <2>3, <2>5, <3>1 DEF UpdateSchedule
    <2>6. ASSUME NEW delegation \in Offers \cup {None}, UpdateDelegation(t, base, delegation)
          PROVE  \A w \in pending' : WriteIsCovered(w)
        <3>1. delegation \in Delegation \cup {None}
            BY DEF Offers, Delegation, DelegationStatuses
        <3>2. LET w == [task |-> t, base |-> base, field |-> "delegation",
                        value |-> delegation, stored |-> FALSE]
              IN  w \in Pending /\ WriteIsSound(w)
            BY <2>2, <3>1 DEF Pending, WriteIsSound
        <3> QED
            BY <2>3, <2>6, <3>2 DEF UpdateDelegation
    <2>7. ASSUME NEW action \in LifecycleActions, TransitionLifecycle(t, base, action)
          PROVE  \A w \in pending' : WriteIsCovered(w)
        <3>1. PICK to \in Placement : /\ LegalMove(docs[t].placement, action, to)
                                      /\ Accept(t, base, "placement", to)
            BY <2>7 DEF TransitionLifecycle
        <3>2. LET w == [task |-> t, base |-> base, field |-> "placement",
                        value |-> to, stored |-> FALSE]
              IN  w \in Pending /\ WriteIsSound(w)
            BY <2>2, <3>1 DEF Pending, WriteIsSound
        <3> QED
            BY <2>3, <3>1, <3>2
    <2>8. ASSUME NEW user \in Users, NEW status \in DelegationStatuses,
                 TransitionDelegation(t, base, user, status)
          PROVE  \A w \in pending' : WriteIsCovered(w)
        <3>1. [assignee |-> user, status |-> status] \in Delegation
            BY DEF Delegation
        <3>2. LET w == [task |-> t, base |-> base, field |-> "delegation",
                        value |-> [assignee |-> user, status |-> status], stored |-> FALSE]
              IN  w \in Pending /\ WriteIsSound(w)
            BY <2>2, <2>8, <3>1 DEF TransitionDelegation, Pending, WriteIsSound
        <3> QED
            BY <2>3, <2>8, <3>2 DEF TransitionDelegation
    <2>9. CASE DeleteRequest(t, base)
        BY <1>2, <2>9 DEF DeleteRequest
    <2> QED
        BY <1>3, <2>4, <2>5, <2>6, <2>7, <2>8, <2>9 DEF RequestFor
<1>4. ASSUME NEW w \in pending, Abort(w)
      PROVE  \A x \in pending' : WriteIsCovered(x)
    <2>1. w \in Pending /\ WriteIsSound(w)
        BY <1>1
    <2>2. [w EXCEPT !.stored = TRUE] \in Pending
        BY <2>1, StoredPending
    <2>3. WriteIsSound([w EXCEPT !.stored = TRUE])
        <3>1. LET x == [w EXCEPT !.stored = TRUE]
              IN  x.task = w.task /\ x.base = w.base /\ x.field = w.field /\ x.value = w.value
            BY <2>1 DEF Pending
        <3> QED
            BY <2>1, <3>1 DEF WriteIsSound
    <2> QED
        BY <1>1, <1>4, <2>2, <2>3 DEF Abort, WriteIsCovered
<1>5. ASSUME NEW w \in pending, Commit(w) \/ Miss(w)
      PROVE  pending' \subseteq pending
    BY <1>5 DEF Commit, Miss
<1>6. CASE \/ \E t \in Tasks, payload \in Payloads : Create(t, payload)
           \/ \E op \in Operations, payload \in Payloads : CreateUpsert(op, payload)
           \/ \E c \in creating : CreateRead(c)
           \/ \E d \in deleting : DeleteTombstone(d) \/ DeleteRemove(d)
           \/ Die \/ Calendar \/ ToggleConnection \/ UNCHANGED vars
    <2>1. pending' \subseteq pending
        BY <1>6 DEF Create, CreateUpsert, CreateRead, DeleteTombstone, DeleteRemove,
                    Die, Calendar, ToggleConnection, vars
    <2> QED
        BY <1>2, <2>1
<1> QED
    BY <1>2, <1>3, <1>4, <1>5, <1>6 DEF Next, Request

\* Nor a delete: the fall-through to the second call was just refused by the
\* first, so what it may still match has no operation id.
LEMMA DeletingAreSound ==
    ASSUME IInv, [Next]_vars
    PROVE  \A d \in deleting' : DeleteIsCovered(d)
<1>1. \A d \in deleting : d \in Deleting /\ DeleteIsSound(d)
    BY SoundRequests DEF IInv, TypeOK
<1>2. ASSUME deleting' \subseteq deleting
      PROVE  \A d \in deleting' : DeleteIsCovered(d)
    BY <1>1, <1>2 DEF DeleteIsCovered
<1>3. ASSUME NEW t \in Tasks, NEW base \in Issued(t), DeleteRequest(t, base)
      PROVE  \A d \in deleting' : DeleteIsCovered(d)
    <2> DEFINE new == [task |-> t, base |-> base, call |-> "tombstone"]
    <2>1. base \in Nat
        BY DEF Issued
    <2>2. new \in Deleting /\ DeleteIsSound(new)
        BY <1>3, <2>1 DEF DeleteRequest, Deleting, DeleteIsSound
    <2>3. UNCHANGED docs /\ deleting' = deleting \cup {new}
        BY <1>3 DEF DeleteRequest
    <2> QED
        BY <1>1, <2>2, <2>3 DEF DeleteIsCovered
<1>4. ASSUME NEW d \in deleting, DeleteTombstone(d)
      PROVE  \A x \in deleting' : DeleteIsCovered(x)
    <2>1. CASE DeleteMatches(d) /\ docs[d.task].operation # None
        BY <1>2, <1>4, <2>1 DEF DeleteTombstone
    <2>2. CASE ~ (DeleteMatches(d) /\ docs[d.task].operation # None)
        <3> DEFINE new == [d EXCEPT !.call = "remove"]
        <3>1. d \in Deleting /\ DeleteIsSound(d)
            BY <1>1
        <3>2. new \in Deleting /\ new.task = d.task /\ new.base = d.base
            BY <3>1 DEF Deleting
        <3>3. DeleteIsSound(new)
            BY <2>2, <3>1, <3>2 DEF DeleteIsSound, DeleteMatches
        <3>4. UNCHANGED docs /\ deleting' = (deleting \ {d}) \cup {new}
            BY <1>4, <2>2 DEF DeleteTombstone
        <3> QED
            BY <1>1, <3>2, <3>3, <3>4 DEF DeleteIsCovered
    <2> QED
        BY <2>1, <2>2
<1>5. ASSUME NEW d \in deleting, DeleteRemove(d)
      PROVE  deleting' \subseteq deleting
    BY <1>5 DEF DeleteRemove
<1>6. CASE Request /\ ~ \E t \in Tasks : \E base \in Issued(t) : DeleteRequest(t, base)
    <2>1. deleting' \subseteq deleting
        BY <1>6 DEF Request, RequestFor, Update, UpdateSchedule, UpdateDelegation,
                    TransitionLifecycle, TransitionDelegation, Accept
    <2> QED
        BY <1>2, <2>1
<1>7. CASE \/ \E t \in Tasks, payload \in Payloads : Create(t, payload)
           \/ \E op \in Operations, payload \in Payloads : CreateUpsert(op, payload)
           \/ \E c \in creating : CreateRead(c)
           \/ \E w \in pending : Commit(w) \/ Abort(w) \/ Miss(w)
           \/ Die \/ Calendar \/ ToggleConnection \/ UNCHANGED vars
    <2>1. deleting' \subseteq deleting
        BY <1>7 DEF Create, CreateUpsert, CreateRead, Commit, Abort, Miss,
                    Die, Calendar, ToggleConnection, vars
    <2> QED
        BY <1>2, <2>1
<1> QED
    BY <1>2, <1>3, <1>4, <1>5, <1>6, <1>7 DEF Next

\* A step keeps what every request in flight relies on.
LEMMA InFlightIsKept ==
    ASSUME IInv, [Next]_vars
    PROVE  /\ pending' \subseteq Pending /\ deleting' \subseteq Deleting
           /\ InFlightConsistent'
<1>1. /\ docs \in [Tasks -> Document] /\ docs' \in [Tasks -> Document]
      /\ \A t \in Tasks : Evolves(docs[t], docs'[t])
    BY DocumentsEvolve DEF IInv, TypeOK
<1>2. /\ \A w \in pending' : w \in Pending /\ WriteIsSound(w)
      /\ \A d \in deleting' : d \in Deleting /\ DeleteIsSound(d)
    BY PendingAreSound, DeletingAreSound, SoundRequests
    DEF IInv, WriteIsCovered, DeleteIsCovered
<1>3. /\ \A w \in pending' : WriteIsSound(w)'
      /\ \A d \in deleting' : DeleteIsSound(d)'
    BY <1>1, <1>2, SoundnessIsStable
<1>4. InFlightConsistent'
    BY <1>3 DEF InFlightConsistent, BasesWereReached, ChecksStillHold, RemovalsAreUnkeyed,
                WriteIsSound, DeleteIsSound
<1> QED
    BY <1>2, <1>4

\* While a keyed create is between its upsert and its read, its document stays.
LEMMA KeysStayHeld ==
    ASSUME IInv, [Next]_vars
    PROVE  creating' \subseteq Creating /\ CreatesHoldTheirKey'
<1>1. /\ docs' \in [Tasks -> Document] /\ OneTaskPerOperation'
      /\ \A t \in Tasks : Evolves(docs[t], docs'[t])
    BY DocumentsEvolve
<1>2. ASSUME NEW op \in Operations, Holders(op) # {}
      PROVE  Holders(op)' # {}
    <2>1. PICK t \in Tasks : docs[t].kind \in {"live", "tombstone"} /\ docs[t].operation = op
        BY <1>2 DEF Holders
    <2>2. docs'[t].operation = op
        BY <1>1, <2>1 DEF Evolves
    <2>3. docs'[t].kind \in {"live", "tombstone"}
        BY <1>1, <2>2, DistinctValues DEF OneTaskPerOperation
    <2> QED
        BY <2>2, <2>3 DEF Holders
<1>3. \A c \in creating : /\ c \in Creating /\ c.operation \in Operations
                          /\ Holders(c.operation) # {}
    BY DEF IInv, TypeOK, Creating, CreatesHoldTheirKey
<1>4. CASE creating' \subseteq creating
    BY <1>2, <1>3, <1>4 DEF CreatesHoldTheirKey
<1>5. ASSUME NEW op \in Operations, NEW payload \in Payloads, CreateUpsert(op, payload)
      PROVE  creating' \subseteq Creating /\ CreatesHoldTheirKey'
    <2> DEFINE new == [operation |-> op, payload |-> payload, replayed |-> Holders(op) # {}]
    <2>1. creating' = creating \cup {new} /\ new \in Creating /\ new.operation = op
        BY <1>5 DEF CreateUpsert, Creating
    <2>2. Holders(op)' # {}
        <3>1. CASE Holders(op) # {}
            BY <1>2, <3>1
        <3>2. CASE Holders(op) = {}
            <4>1. PICK t \in Tasks : docs' = [docs EXCEPT ![t] = NewTask(op, payload, None)]
                BY <1>5, <3>2 DEF CreateUpsert
            <4>2. docs'[t].kind = "live" /\ docs'[t].operation = op
                BY <4>1, NewTaskFields DEF IInv, TypeOK
            <4> QED
                BY <4>2 DEF Holders
        <3> QED
            BY <3>1, <3>2
    <2>3. \A c \in creating' : Holders(c.operation)' # {}
        BY <1>2, <1>3, <2>1, <2>2
    <2> QED
        BY <1>3, <2>1, <2>3 DEF CreatesHoldTheirKey
<1>6. CASE ~ \E op \in Operations, payload \in Payloads : CreateUpsert(op, payload)
    <2>1. creating' \subseteq creating
        BY <1>6 DEF Next, vars, Request, RequestFor, Update, UpdateSchedule, UpdateDelegation,
                    TransitionLifecycle, TransitionDelegation, Accept, DeleteRequest,
                    Create, CreateRead, Commit, Abort, Miss, DeleteTombstone,
                    DeleteRemove, Die, Calendar, ToggleConnection
    <2> QED
        BY <1>3, <1>4, <2>1
<1> QED
    BY <1>5, <1>6

\* A step keeps the events behind the revisions of their tasks: the write that
\* enqueues one takes its task to the event's revision in the same step.
LEMMA EventsStayPast ==
    ASSUME IInv, [Next]_vars
    PROVE  outbox' \subseteq Event /\ EventsAreOfThePast'
<1>1. /\ docs \in [Tasks -> Document] /\ docs' \in [Tasks -> Document]
      /\ \A t \in Tasks : Evolves(docs[t], docs'[t])
    BY DocumentsEvolve DEF IInv, TypeOK
<1>2. \A e \in outbox : /\ e \in Event
                        /\ docs'[e.task].kind # "unborn"
                        /\ e.revision <= docs'[e.task].revision
    <2> SUFFICES ASSUME NEW e \in outbox
                 PROVE  /\ e \in Event
                        /\ docs'[e.task].kind # "unborn"
                        /\ e.revision <= docs'[e.task].revision
        OBVIOUS
    <2>1. e \in Event /\ e.task \in Tasks /\ e.revision \in Nat
        BY DEF IInv, TypeOK, Event
    <2>2. docs[e.task].kind # "unborn" /\ e.revision <= docs[e.task].revision
        BY DEF IInv, EventsAreOfThePast
    <2>3. /\ docs'[e.task].kind # "unborn"
          /\ docs[e.task].revision <= docs'[e.task].revision
        BY <1>1, <2>1, <2>2 DEF Evolves
    <2>4. docs[e.task].revision \in Nat /\ docs'[e.task].revision \in Nat
        BY <1>1, <2>1, TypedFields
    <2> QED
        BY <2>1, <2>2, <2>3, <2>4
<1>3. CASE outbox' \subseteq outbox
    BY <1>2, <1>3 DEF EventsAreOfThePast
<1>4. ASSUME NEW w \in pending, Commit(w)
      PROVE  outbox' \subseteq Event /\ EventsAreOfThePast'
    <2>1. w \in Pending /\ w.task \in Tasks /\ w.base \in Nat /\ w.field \in Fields
        BY PendingFields DEF IInv, TypeOK
    <2>2. docs[w.task] \in Document
        BY <1>1, <2>1
    <2>3. /\ docs'[w.task].kind = "live"
          /\ docs'[w.task].revision = w.base + 1
        BY <1>1, <1>4, <2>1, <2>2, WrittenFields DEF Commit, Matches
    <2>4. /\ EventsOf(w) \in SUBSET Event
          /\ \A e \in EventsOf(w) : e.task = w.task /\ e.revision = w.base + 1
        BY <2>1, EventsOfType
    <2>5. \A e \in EventsOf(w) : /\ docs'[e.task].kind # "unborn"
                                 /\ e.revision <= docs'[e.task].revision
        BY <2>1, <2>3, <2>4
    <2>6. outbox' = outbox \cup EventsOf(w)
        BY <1>4 DEF Commit
    <2> QED
        BY <1>2, <2>4, <2>5, <2>6 DEF EventsAreOfThePast
<1>5. CASE ~ \E w \in pending : Commit(w)
    <2>1. outbox' \subseteq outbox
        BY <1>5 DEF Next, vars, Request, RequestFor, Update, UpdateSchedule, UpdateDelegation,
                    TransitionLifecycle, TransitionDelegation, Accept, DeleteRequest,
                    Create, CreateUpsert, CreateRead, Abort, Miss, DeleteTombstone,
                    DeleteRemove, Die, Calendar, ToggleConnection
    <2> QED
        BY <1>3, <2>1
<1> QED
    BY <1>4, <1>5

\* The calendar side keeps bindings and connection typed.
LEMMA BindingsStayTyped ==
    ASSUME IInv, [Next]_vars
    PROVE  bound' \in SUBSET Tasks /\ connected' \in BOOLEAN
<1>1. bound \in SUBSET Tasks /\ connected \in BOOLEAN /\ \A e \in outbox : e.task \in Tasks
    BY DEF IInv, TypeOK, Event
<1>2. CASE Calendar
    BY <1>1, <1>2 DEF Calendar, InboundWrite, LinkFromGoogle, Import, ClearDate, Detach,
                      LinkToGoogle, Acknowledge
<1>3. CASE ToggleConnection
    BY <1>1, <1>3 DEF ToggleConnection
<1>4. CASE ~ Calendar /\ ~ ToggleConnection
    <2>1. UNCHANGED <<bound, connected>>
        BY <1>4 DEF Next, vars, Request, RequestFor, Update, UpdateSchedule, UpdateDelegation,
                    TransitionLifecycle, TransitionDelegation, Accept, DeleteRequest,
                    Create, CreateUpsert, CreateRead, Commit, Abort, Miss,
                    DeleteTombstone, DeleteRemove, Die
    <2> QED
        BY <1>1, <2>1
<1> QED
    BY <1>2, <1>3, <1>4

-----------------------------------------------------------------------------
(* Theorems.                                                               *)

\* Every step preserves the inductive invariant.
LEMMA StepPreserves == IInv /\ [Next]_vars => IInv'
<1> SUFFICES ASSUME IInv, [Next]_vars PROVE IInv'
    OBVIOUS
<1>1. TypeOK'
    BY DocumentsEvolve, BindingsStayTyped, EventsStayPast, InFlightIsKept, KeysStayHeld
    DEF TypeOK
<1> QED
    BY <1>1, DocumentsEvolve, InFlightIsKept, KeysStayHeld, EventsStayPast DEF IInv

\* The inductive invariant holds in every reachable state.
THEOREM Invariance == Spec => []IInv
BY InitEstablishes, StepPreserves, PTL DEF Spec

\* The state stays within its types (all of TaskRepository).
THEOREM TypeCorrect == Spec => []TypeOK
<1>1. IInv => TypeOK
    BY DEF IInv
<1> QED
    BY <1>1, Invariance, PTL

\* What a handler checked before an await still holds for the document its later
\* call matches (transitionLifecycle, transitionDelegation, delete).
THEOREM ChecksSurviveAwaits == Spec => []InFlightConsistent
<1>1. IInv => InFlightConsistent
    BY DEF IInv
<1> QED
    BY <1>1, Invariance, PTL

\* An idempotency key creates one task, ever, and its record outlives the task
\* (create, delete).
THEOREM KeysAreUnique == Spec => []OneTaskPerOperation
<1>1. IInv => OneTaskPerOperation
    BY DEF IInv
<1> QED
    BY <1>1, Invariance, PTL

\* The read that follows a keyed create's upsert always finds the task or its
\* tombstone (create).
THEOREM CreatesFindTheirTask == Spec => []CreatesAreAnswered
<1>1. IInv => CreatesAreAnswered
    BY DEF IInv, CreatesHoldTheirKey, CreatesAreAnswered, CreateReply
<1> QED
    BY <1>1, Invariance, PTL

\* The next write's calendar event never has the id of one already enqueued, so
\* the unique index never rolls a task write back (enqueueCalendarTaskEvent).
THEOREM EventIdsNeverCollide == Spec => []EventsAreOfThePast
<1>1. IInv => EventsAreOfThePast
    BY DEF IInv
<1> QED
    BY <1>1, Invariance, PTL

\* The interleaved, retried, crashing handlers implement the ledger of atomic,
\* legal changes (all writes of mongooseTaskRepository.ts).
THEOREM ImplementsLedger == Spec => LedgerSpec
<1>1. Init => Ledger!Init
    BY SameDomain DEF Init, Ledger!Init
<1>2. IInv /\ [Next]_vars => [Ledger!Next]_docs
    BY StepIsLedgerStep DEF IInv, InFlightConsistent
<1> QED
    BY <1>1, <1>2, Invariance, PTL DEF Spec, LedgerSpec, Ledger!Spec

\* A finally deleted task never comes back, and only a trashed one is finally
\* deleted (delete, and every write that could race it).
THEOREM DeletesAreFinal == Spec => DeletionIsFinal
<1> DEFINE Final == \A t \in Tasks :
          /\ docs[t].kind \in {"tombstone", "gone"} => docs'[t].kind = docs[t].kind
          /\ docs[t].kind = "live" /\ docs'[t].kind # "live" =>
                docs[t].placement.state = "trashed"
<1>1. IInv /\ [Next]_vars => [Final]_vars
    BY DocumentsEvolve DEF Evolves
<1> QED
    BY <1>1, Invariance, PTL DEF Spec, DeletionIsFinal
=============================================================================
