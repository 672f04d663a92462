----------------------------- MODULE TaskDomain -----------------------------
(***************************************************************************)
(* The data of the task API: what a task document holds, which lifecycle   *)
(* moves and which delegation answers the domain allows.                   *)
(*                                                                         *)
(* Code: backend-node/src/models/task.ts (the document) and                *)
(* application/taskRepository.ts (the two transition tables).              *)
(*                                                                         *)
(* A payload stands for {title, description, urgent, important} and for    *)
(* the sha256 digest of those four fields: two payloads are equal exactly  *)
(* when createTask.ts would compute the same digest.                       *)
(***************************************************************************)
EXTENDS Naturals

CONSTANTS
    Tasks,      \* identities of task documents (_id)
    Operations, \* Idempotency-Key values a client may send with a create
    Payloads,   \* distinguishable {title, description, urgent, important}
    Schedules,  \* distinguishable schedules
    Users,      \* users a task may be delegated to
    Redacted,   \* the content a final delete leaves in a tombstone
    None        \* an absent field

ASSUME DistinctValues ==
    /\ Redacted \notin Payloads
    /\ None \notin Operations \cup Payloads \cup Schedules \cup Users \cup {Redacted}

-----------------------------------------------------------------------------
(* The lifecycle.                                                          *)

LifecycleStates == {"active", "completed", "archived", "trashed"}

LifecycleActions == {"complete", "reopen", "archive", "trash", "restore"}

PriorStates == LifecycleStates \ {"trashed"}

\* Where a task is, and where a restore from the trash takes it back to.
Placement == [state : LifecycleStates, prior : PriorStates \cup {None}]

\* resolveLifecycleTransition: the one placement, if any, that `action` takes
\* a task in placement `from` to. No action keeps a prior state but "trash".
LegalMove(from, action, to) ==
    \/ /\ action = "complete"
       /\ from.state = "active"
       /\ to = [state |-> "completed", prior |-> None]
    \/ /\ action = "reopen"
       /\ from.state = "completed"
       /\ to = [state |-> "active", prior |-> None]
    \/ /\ action = "archive"
       /\ from.state \in {"active", "completed"}
       /\ to = [state |-> "archived", prior |-> None]
    \/ /\ action = "trash"
       /\ from.state # "trashed"
       /\ to = [state |-> "trashed", prior |-> from.state]
    \/ /\ action = "restore"
       /\ from.state = "archived"
       /\ to = [state |-> "active", prior |-> None]
    \/ /\ action = "restore"
       /\ from.state = "trashed"
       /\ to = [state |-> IF from.prior = None THEN "active" ELSE from.prior,
                prior |-> None]

-----------------------------------------------------------------------------
(* Delegation.                                                             *)

DelegationStatuses ==
    {"offered", "accepted", "in_progress", "blocked", "completed", "declined"}

Delegation == [assignee : Users, status : DelegationStatuses]

\* DELEGATION_TRANSITIONS: what an assignee may answer; "completed" and
\* "declined" are final.
LegalAnswer(from, to) ==
    <<from, to>> \in {<<"offered", "accepted">>, <<"offered", "declined">>,
                      <<"accepted", "in_progress">>, <<"accepted", "declined">>,
                      <<"in_progress", "blocked">>, <<"in_progress", "completed">>,
                      <<"blocked", "in_progress">>, <<"blocked", "completed">>}

-----------------------------------------------------------------------------
(* Documents.                                                              *)

\* What became of an _id: never used, a stored task, the redacted remains of
\* a finally deleted one (deletedAt is set), or a document that was removed.
Kinds == {"unborn", "live", "tombstone", "gone"}

Document ==
    [kind       : Kinds,
     payload    : Payloads \cup {Redacted},
     placement  : Placement,
     schedule   : Schedules \cup {None},
     delegation : Delegation \cup {None},
     revision   : Nat,
     operation  : Operations \cup {None},         \* createOperationId
     digest     : Payloads \cup {Redacted, None}] \* createOperationDigest

\* The document of an _id nobody has used.
Unborn ==
    [kind |-> "unborn", payload |-> Redacted,
     placement |-> [state |-> "active", prior |-> None],
     schedule |-> None, delegation |-> None, revision |-> 0,
     operation |-> None, digest |-> None]

\* A task as create() stores it, with the schema's defaults; `schedule` is
\* None for the task API and the event's time for an imported event.
NewTask(op, payload, schedule) ==
    [Unborn EXCEPT !.kind = "live",
                   !.payload = payload,
                   !.schedule = schedule,
                   !.operation = op,
                   !.digest = IF op = None THEN None ELSE payload]

\* Mutant: the title unset instead of replaced.
TombstoneWithoutTitle(doc) ==
    [doc EXCEPT !.kind = "tombstone",
                !.payload = None,
                !.placement = [state |-> "trashed", prior |-> None],
                !.delegation = None,
                !.revision = doc.revision + 1]

\* The tombstone a final delete leaves of a task created under an operation
\* id: content, prior state and delegation go, the schedule stays.
TombstoneOf(doc) ==
    [doc EXCEPT !.kind = "tombstone",
                !.payload = Redacted,
                !.placement = [state |-> "trashed", prior |-> None],
                !.delegation = None,
                !.revision = doc.revision + 1]

\* findOneAndDelete removes the document. Its last content is kept here, as
\* history that no operation reads.
RemovalOf(doc) == [doc EXCEPT !.kind = "gone"]

\* Mutant: the update without its $inc.
WrittenInPlace(doc, field, value) == [doc EXCEPT ![field] = value]

\* One conditional write sets one field and counts the revision up.
Written(doc, field, value) ==
    [doc EXCEPT ![field] = value, !.revision = doc.revision + 1]
=============================================================================
