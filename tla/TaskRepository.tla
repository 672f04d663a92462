--------------------------- MODULE TaskRepository ---------------------------
(***************************************************************************)
(* The Node task API against MongoDB: TaskCommandService and               *)
(* MongooseTaskRepository, with every await between two database calls a   *)
(* point where other requests, other processes and the calendar code run.  *)
(*                                                                         *)
(* A request is a record in `pending`, `deleting` or `creating` from its   *)
(* first database call (or its arrival) to its last; a process that dies   *)
(* takes its request with it and leaves what was committed. A client sends  *)
(* If-Match with a revision the server has answered at some time, so one   *)
(* the document has reached. What a request is answered is a function of   *)
(* the request and the documents at its last call (WriteReply,             *)
(* CreateReply); one that is refused by the read it starts with changes    *)
(* nothing and is no step. "Not found" and "revision conflict" are the one *)
(* reply "refused".                                                        *)
(***************************************************************************)
EXTENDS TaskDomain, FiniteSets

CONSTANTS
    TransientAborts, \* whether MongoDB may abort a transaction to be retried
    MaxRevision,     \* bound: no write takes a document past this revision
    MaxInFlight      \* bound: requests in flight at a time

ASSUME BoundsAndSwitches ==
    /\ TransientAborts \in BOOLEAN
    /\ MaxRevision \in Nat
    /\ MaxInFlight \in Nat \ {0}

VARIABLES
    docs,      \* docs[t]: the document of task t
    bound,     \* the tasks that have a calendar binding
    connected, \* whether the owner has an active calendar connection
    outbox,    \* calendar events this repository enqueued: eventId task:<id>:<type>:<revision>
    pending,   \* conditional writes between their guard and their commit
    deleting,  \* final deletes, before the first or the second delete call
    creating   \* keyed creates between the upsert and the read that follows

vars == <<docs, bound, connected, outbox, pending, deleting, creating>>

-----------------------------------------------------------------------------
(* Types.                                                                  *)

Offers == [assignee : Users, status : {"offered"}]

\* One field and its new value, to be written if the document still has
\* revision `base`. `stored` says that an attempt that was rolled back has
\* already filled in the result variable of the handler.
Pending ==
    [task : Tasks, base : Nat, field : {"payload"}, value : Payloads,
     stored : BOOLEAN]
    \cup [task : Tasks, base : Nat, field : {"schedule"},
          value : Schedules \cup {None}, stored : BOOLEAN]
    \cup [task : Tasks, base : Nat, field : {"placement"}, value : Placement,
          stored : BOOLEAN]
    \cup [task : Tasks, base : Nat, field : {"delegation"},
          value : Delegation \cup {None}, stored : BOOLEAN]

Deleting == [task : Tasks, base : Nat, call : {"tombstone", "remove"}]

Creating == [operation : Operations, payload : Payloads, replayed : BOOLEAN]

EventTypes == {"event_create", "event_update", "event_delete"}

Event == [task : Tasks, type : EventTypes, revision : Nat]

TypeOK ==
    /\ docs \in [Tasks -> Document]
    /\ bound \in SUBSET Tasks
    /\ connected \in BOOLEAN
    /\ outbox \in SUBSET Event
    /\ pending \in SUBSET Pending
    /\ deleting \in SUBSET Deleting
    /\ creating \in SUBSET Creating

Init ==
    /\ docs = [t \in Tasks |-> Unborn]
    /\ bound = {}
    /\ connected = FALSE
    /\ outbox = {}
    /\ pending = {} /\ deleting = {} /\ creating = {}

-----------------------------------------------------------------------------
(* Helpers.                                                                *)

Capacity == Cardinality(pending) + Cardinality(deleting) + Cardinality(creating) < MaxInFlight

\* The filter of every conditional call: not deleted, and at this revision.
Matches(t, base) == docs[t].kind = "live" /\ docs[t].revision = base

\* The revisions a client can hold for a task.
Issued(t) == IF docs[t].kind = "unborn" THEN {} ELSE 0 .. docs[t].revision

\* Mutant: the upsert's filter with the deletedAt condition of the other calls.
LiveHolders(op) == {t \in Tasks : docs[t].kind = "live" /\ docs[t].operation = op}

\* The documents an operation id finds: tombstones count, removed ones do not.
Holders(op) == {t \in Tasks : docs[t].kind \in {"live", "tombstone"}
                              /\ docs[t].operation = op}

\* The calendar event a committed write owes, by the field it wrote. A new
\* content or placement goes out for a bound task whatever its schedule.
EventsOf(w) ==
    LET event(type) == {[task |-> w.task, type |-> type, revision |-> w.base + 1]}
    IN  CASE w.field = "payload" /\ w.task \in bound -> event("event_update")
          [] w.field = "placement" /\ w.task \in bound ->
               IF w.value.state \in {"archived", "trashed"}
               THEN event("event_delete") ELSE event("event_update")
          [] w.field = "schedule" /\ w.value # None /\ w.task \in bound ->
               event("event_update")
          [] w.field = "schedule" /\ w.value # None /\ w.task \notin bound /\ connected ->
               event("event_create")
          [] w.field = "schedule" /\ w.value = None /\ w.task \in bound ->
               event("event_delete")
          [] OTHER -> {}

\* update, transitionLifecycle and updateSchedule run in a transaction the
\* driver retries; the two delegation writes are single calls.
Transactional(w) == w.field # "delegation"

Accept(t, base, field, value) ==
    /\ Capacity
    /\ pending' = pending \cup {[task |-> t, base |-> base, field |-> field,
                                 value |-> value, stored |-> FALSE]}
    /\ UNCHANGED <<docs, bound, connected, outbox, deleting, creating>>

-----------------------------------------------------------------------------
(* Writes: arrival, and for the two that read first, the read and its      *)
(* checks.                                                                 *)

\* update
Update(t, base, payload) == Accept(t, base, "payload", payload)

\* updateSchedule
UpdateSchedule(t, base, schedule) == Accept(t, base, "schedule", schedule)

\* updateDelegation: a new offer, or None to withdraw it
UpdateDelegation(t, base, delegation) == Accept(t, base, "delegation", delegation)

\* transitionLifecycle: the move is computed from the document as read here.
TransitionLifecycle(t, base, action) ==
    /\ Matches(t, base)
    /\ \E to \in Placement :
          /\ LegalMove(docs[t].placement, action, to)
          /\ Accept(t, base, "placement", to)

\* transitionDelegation, by the user the read document is delegated to
TransitionDelegation(t, base, user, status) ==
    /\ Matches(t, base)
    /\ docs[t].delegation # None
    /\ docs[t].delegation.assignee = user
    /\ LegalAnswer(docs[t].delegation.status, status)
    /\ Accept(t, base, "delegation", [assignee |-> user, status |-> status])

-----------------------------------------------------------------------------
(* Writes: the conditional write itself.                                   *)

\* Mutant: the write without revisionFilter.
CommitUnconditionally(w) ==
    /\ docs[w.task].kind = "live"
    /\ docs[w.task].revision < MaxRevision
    /\ docs' = [docs EXCEPT ![w.task] = Written(@, w.field, w.value)]
    /\ outbox' = outbox \cup EventsOf(w)
    /\ pending' = pending \ {w}
    /\ UNCHANGED <<bound, connected, deleting, creating>>

\* The document still has revision `base`: the write and the calendar event
\* it owes are committed together.
Commit(w) ==
    /\ Matches(w.task, w.base)
    /\ docs[w.task].revision < MaxRevision
    /\ docs' = [docs EXCEPT ![w.task] = Written(@, w.field, w.value)]
    /\ outbox' = outbox \cup EventsOf(w)
    /\ pending' = pending \ {w}
    /\ UNCHANGED <<bound, connected, deleting, creating>>

\* Mutant: the calendar event enqueued outside the session.
AbortKeepingEvent(w) ==
    /\ TransientAborts
    /\ Transactional(w)
    /\ Matches(w.task, w.base)
    /\ pending' = (pending \ {w}) \cup {[w EXCEPT !.stored = TRUE]}
    /\ outbox' = outbox \cup EventsOf(w)
    /\ UNCHANGED <<docs, bound, connected, deleting, creating>>

\* The attempt wrote, filled in `stored`, and was rolled back by a transient
\* error; the driver will run the callback again.
Abort(w) ==
    /\ TransientAborts
    /\ Transactional(w)
    /\ Matches(w.task, w.base)
    /\ pending' = (pending \ {w}) \cup {[w EXCEPT !.stored = TRUE]}
    /\ UNCHANGED <<docs, bound, connected, outbox, deleting, creating>>

\* What a write is answered: `if (!task) return` leaves `stored` as it is, so
\* a retried callback that finds the document changed answers with what its
\* first attempt stored.
WriteReply(w) ==
    IF Matches(w.task, w.base) \/ w.stored THEN "ok" ELSE "refused"

\* The document has moved on, and nothing is written.
Miss(w) ==
    /\ ~ Matches(w.task, w.base)
    /\ pending' = pending \ {w}
    /\ UNCHANGED <<docs, bound, connected, outbox, deleting, creating>>

-----------------------------------------------------------------------------
(* Creates.                                                                *)

\* create without an operation id
Create(t, payload) ==
    /\ docs[t].kind = "unborn"
    /\ docs' = [docs EXCEPT ![t] = NewTask(None, payload, None)]
    /\ UNCHANGED <<bound, connected, outbox, pending, deleting, creating>>

\* create under an operation id: one upsert, which inserts or finds
CreateUpsert(op, payload) ==
    /\ Capacity
    /\ \/ /\ Holders(op) # {}
          /\ UNCHANGED docs
       \/ /\ Holders(op) = {}
          /\ \E t \in Tasks :
                /\ docs[t].kind = "unborn"
                /\ docs' = [docs EXCEPT ![t] = NewTask(op, payload, None)]
    /\ creating' = creating \cup {[operation |-> op, payload |-> payload,
                                   replayed |-> Holders(op) # {}]}
    /\ UNCHANGED <<bound, connected, outbox, pending, deleting>>

\* what the read that follows and createTask's checks of it answer
CreateReply(c) ==
    IF Holders(c.operation) = {} THEN "internal_error"
    ELSE LET doc == docs[CHOOSE t \in Holders(c.operation) : TRUE]
         IN  IF doc.digest # c.payload THEN "key_reused"
             ELSE IF doc.kind = "tombstone" THEN "result_deleted"
             ELSE IF c.replayed THEN "replayed" ELSE "created"

\* the read itself
CreateRead(c) ==
    /\ creating' = creating \ {c}
    /\ UNCHANGED <<docs, bound, connected, outbox, pending, deleting>>

-----------------------------------------------------------------------------
(* Final deletes.                                                          *)

\* TaskCommandService.delete asks for the lifecycle state first.
DeleteRequest(t, base) ==
    /\ Capacity
    /\ docs[t].kind = "live" /\ docs[t].placement.state = "trashed"
    /\ deleting' = deleting \cup {[task |-> t, base |-> base, call |-> "tombstone"]}
    /\ UNCHANGED <<docs, bound, connected, outbox, pending, creating>>

\* Mutant: delete by _id, relying on the state read before.
DeleteMatchesId(d) == docs[d.task].kind = "live"

\* the filter of both delete calls
DeleteMatches(d) ==
    Matches(d.task, d.base) /\ docs[d.task].placement.state = "trashed"

\* Mutant: no tombstone call.
DeleteSkipsTombstone(d) ==
    /\ d.call = "tombstone"
    /\ deleting' = (deleting \ {d}) \cup {[d EXCEPT !.call = "remove"]}
    /\ UNCHANGED <<docs, bound, connected, outbox, pending, creating>>

\* the first call: leaves a tombstone of a task with an operation id
DeleteTombstone(d) ==
    /\ d.call = "tombstone"
    /\ \/ /\ DeleteMatches(d) /\ docs[d.task].operation # None
          /\ docs[d.task].revision < MaxRevision
          /\ docs' = [docs EXCEPT ![d.task] = TombstoneOf(@)]
          /\ deleting' = deleting \ {d}
       \/ /\ ~ (DeleteMatches(d) /\ docs[d.task].operation # None)
          /\ deleting' = (deleting \ {d}) \cup {[d EXCEPT !.call = "remove"]}
          /\ UNCHANGED docs
    /\ UNCHANGED <<bound, connected, outbox, pending, creating>>

\* the second call: removes whatever matches, operation id or not
DeleteRemove(d) ==
    /\ d.call = "remove"
    /\ \/ /\ DeleteMatches(d)
          /\ docs' = [docs EXCEPT ![d.task] = RemovalOf(@)]
       \/ /\ ~ DeleteMatches(d)
          /\ UNCHANGED docs
    /\ deleting' = deleting \ {d}
    /\ UNCHANGED <<bound, connected, outbox, pending, creating>>

-----------------------------------------------------------------------------
(* A process dies with one of its requests.                                *)

Die ==
    /\ \/ \E w \in pending : pending' = pending \ {w} /\ UNCHANGED <<deleting, creating>>
       \/ \E d \in deleting : deleting' = deleting \ {d} /\ UNCHANGED <<pending, creating>>
       \/ \E c \in creating : creating' = creating \ {c} /\ UNCHANGED <<pending, deleting>>
    /\ UNCHANGED <<docs, bound, connected, outbox>>

-----------------------------------------------------------------------------
(* The calendar code, where it writes tasks or decides what the repository *)
(* enqueues. Each is one transaction; none filters on deletedAt.           *)

Stored(t) == docs[t].kind \in {"live", "tombstone"}

\* Mutant: task.save() without counting the revision up.
RewrittenInPlace(doc, payload, schedule) ==
    [doc EXCEPT !.payload = payload, !.schedule = schedule]

\* what the calendar code saves
Rewritten(doc, payload, schedule) ==
    [doc EXCEPT !.payload = payload, !.schedule = schedule,
                !.revision = doc.revision + 1]

\* applyInbound of a changed event, and resolveConflict in Google's favour
InboundWrite(t, payload, schedule) ==
    /\ t \in bound /\ Stored(t) /\ docs[t].revision < MaxRevision
    /\ docs' = [docs EXCEPT ![t] = Rewritten(@, payload, schedule)]
    /\ UNCHANGED bound

\* resolveProviderDeletion, strategy clear_date
ClearDate(t) ==
    /\ t \in bound /\ Stored(t) /\ docs[t].revision < MaxRevision
    /\ docs' = [docs EXCEPT ![t] = Rewritten(@, @.payload, None)]
    /\ bound' = bound \ {t}

\* resolveProviderDeletion, strategy detach
Detach(t) ==
    /\ t \in bound /\ Stored(t)
    /\ bound' = bound \ {t}
    /\ UNCHANGED docs

\* linkExisting, in Google's favour
LinkFromGoogle(t, payload, schedule) ==
    /\ connected /\ t \notin bound /\ Stored(t) /\ docs[t].revision < MaxRevision
    /\ docs' = [docs EXCEPT ![t] = Rewritten(@, payload, schedule)]
    /\ bound' = bound \cup {t}

\* linkExisting, in the task's favour
LinkToGoogle(t) ==
    /\ connected /\ t \notin bound /\ Stored(t) /\ docs[t].schedule # None
    /\ bound' = bound \cup {t}
    /\ UNCHANGED docs

\* importSelected: a new task, bound from the start
Import(t, payload, schedule) ==
    /\ connected /\ docs[t].kind = "unborn"
    /\ docs' = [docs EXCEPT ![t] = NewTask(None, payload, schedule)]
    /\ bound' = bound \cup {t}

\* acknowledgeOutbox of a delivered create or update: the binding is upserted
Acknowledge(e) ==
    /\ e \in outbox /\ e.type # "event_delete"
    /\ bound' = bound \cup {e.task}
    /\ UNCHANGED docs

Calendar ==
    /\ \/ \E t \in Tasks, payload \in Payloads, schedule \in Schedules :
            \/ InboundWrite(t, payload, schedule)
            \/ LinkFromGoogle(t, payload, schedule)
            \/ Import(t, payload, schedule)
       \/ \E t \in Tasks : ClearDate(t) \/ Detach(t) \/ LinkToGoogle(t)
       \/ \E e \in outbox : Acknowledge(e)
    /\ UNCHANGED <<connected, outbox, pending, deleting, creating>>

\* the OAuth callback and disconnect
ToggleConnection ==
    /\ connected' = ~connected
    /\ UNCHANGED <<docs, bound, outbox, pending, deleting, creating>>

-----------------------------------------------------------------------------

RequestFor(t, base) ==
    \/ \E payload \in Payloads : Update(t, base, payload)
    \/ \E schedule \in Schedules \cup {None} : UpdateSchedule(t, base, schedule)
    \/ \E delegation \in Offers \cup {None} : UpdateDelegation(t, base, delegation)
    \/ \E action \in LifecycleActions : TransitionLifecycle(t, base, action)
    \/ \E user \in Users, status \in DelegationStatuses :
          TransitionDelegation(t, base, user, status)
    \/ DeleteRequest(t, base)

Request == \E t \in Tasks : \E base \in Issued(t) : RequestFor(t, base)

Next ==
    \/ Request
    \/ \E t \in Tasks, payload \in Payloads : Create(t, payload)
    \/ \E op \in Operations, payload \in Payloads : CreateUpsert(op, payload)
    \/ \E c \in creating : CreateRead(c)
    \/ \E w \in pending : Commit(w) \/ Abort(w) \/ Miss(w)
    \/ \E d \in deleting : DeleteTombstone(d) \/ DeleteRemove(d)
    \/ Die
    \/ Calendar
    \/ ToggleConnection

Spec == Init /\ [][Next]_vars

-----------------------------------------------------------------------------
(* Properties.                                                             *)

Ledger == INSTANCE TaskLedger

\* The handlers, interleaved at every await, crashed and retried, implement
\* the ledger: what reaches a document is always one atomic, legal change of
\* its current content, by someone allowed to make it. (repositories/
\* mongooseTaskRepository.ts, all writes)
LedgerSpec == Ledger!Spec

\* A request holds a revision its task has reached; the two later parts are
\* what makes a check made at that revision still true when it is used.
BasesWereReached ==
    /\ \A w \in pending : w.base \in Issued(w.task)
    /\ \A d \in deleting : d.base \in Issued(d.task)

\* A lifecycle move or a delegation answer computed from an earlier read is
\* legal from the document its conditional write still matches.
ChecksStillHold ==
    \A w \in pending : Matches(w.task, w.base) =>
        /\ w.field = "placement" =>
              \E action \in LifecycleActions :
                  LegalMove(docs[w.task].placement, action, w.value)
        /\ w.field = "delegation" /\ w.value \notin Offers \cup {None} =>
              /\ docs[w.task].delegation # None
              /\ docs[w.task].delegation.assignee = w.value.assignee
              /\ LegalAnswer(docs[w.task].delegation.status, w.value.status)

\* delete's second call has no condition on createOperationId, and needs
\* none: it never matches a task that an operation id created.
RemovalsAreUnkeyed ==
    \A d \in deleting : Matches(d.task, d.base) =>
        /\ docs[d.task].placement.state = "trashed"
        /\ d.call = "remove" => docs[d.task].operation = None

\* What a request checked before an await still holds for the document its
\* later call matches, whatever ran in between.
InFlightConsistent == BasesWereReached /\ ChecksStillHold /\ RemovalsAreUnkeyed

\* However creates are retried, raced or deleted in between, an idempotency
\* key creates one task, and its record outlives the task (README: replays
\* "cannot recreate the deleted task").
OneTaskPerOperation ==
    \A t \in Tasks : docs[t].operation # None =>
        /\ docs[t].kind \in {"live", "tombstone"}
        /\ \A u \in Tasks : docs[u].operation = docs[t].operation => u = t

\* The upsert's document is still there when create reads it back, as a
\* tombstone at least: "did not return a task" is never thrown.
CreatesAreAnswered == \A c \in creating : CreateReply(c) # "internal_error"

\* eventId is unique in the outbox: an event is about a revision its task has
\* reached, so the next write's event, one revision on, never collides and
\* never rolls the task write back.
EventsAreOfThePast ==
    \A e \in outbox : /\ docs[e.task].kind # "unborn"
                      /\ e.revision <= docs[e.task].revision

\* Nothing brings a finally deleted task back, and only a trashed task is
\* finally deleted, whatever was in flight when it was.
DeletionIsFinal ==
    [][\A t \in Tasks :
          /\ docs[t].kind \in {"tombstone", "gone"} => docs'[t].kind = docs[t].kind
          /\ docs[t].kind = "live" /\ docs'[t].kind # "live" =>
                docs[t].placement.state = "trashed"]_vars

-----------------------------------------------------------------------------
(* What the documentation says and the code does not do.                   *)

\* README.md:229: "a stale revision returns 412": a write whose revision is
\* superseded is never answered as done.
StaleIsRefused ==
    \A w \in pending : ~ Matches(w.task, w.base) => WriteReply(w) = "refused"

\* README.md:241: a tombstone is redacted, and its title cannot be recovered.
TombstonesStayRedacted ==
    \A t \in Tasks : docs[t].kind = "tombstone" => docs[t].payload = Redacted
=============================================================================
