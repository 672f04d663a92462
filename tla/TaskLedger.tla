----------------------------- MODULE TaskLedger -----------------------------
(***************************************************************************)
(* What the task API promises, whatever its handlers interleave with: a    *)
(* ledger of task documents in which every change is one atomic step on    *)
(* the document as it is at that moment.  TaskRepository implements it.    *)
(***************************************************************************)
EXTENDS TaskDomain

VARIABLE docs   \* docs[t]: the document of task t

Init == docs = [t \in Tasks |-> Unborn]

-----------------------------------------------------------------------------

\* A new task; an operation id names one task for ever, finally deleted or not.
Create(t, op, payload, schedule) ==
    /\ docs[t].kind = "unborn"
    /\ op # None => \A u \in Tasks : docs[u].operation # op
    /\ docs' = [docs EXCEPT ![t] = NewTask(op, payload, schedule)]

\* The owner edits the content, the schedule or the delegation; a delegation
\* always starts as an offer.
OwnerWrites(t, field, value) ==
    /\ docs[t].kind = "live"
    /\ \/ field = "payload" /\ value \in Payloads
       \/ field = "schedule" /\ value \in Schedules \cup {None}
       \/ /\ field = "delegation"
          /\ value \in [assignee : Users, status : {"offered"}] \cup {None}
    /\ docs' = [docs EXCEPT ![t] = Written(@, field, value)]

\* A lifecycle move takes the placement it replaces to a legal next one.
Moves(t, action) ==
    LET to == docs'[t].placement
    IN  /\ docs[t].kind = "live"
        /\ LegalMove(docs[t].placement, action, to)
        /\ docs' = [docs EXCEPT ![t] = Written(@, "placement", to)]

\* Only the current assignee answers, and only along the legal edges.
Answers(t, user, status) ==
    /\ docs[t].kind = "live"
    /\ docs[t].delegation # None
    /\ docs[t].delegation.assignee = user
    /\ LegalAnswer(docs[t].delegation.status, status)
    /\ docs' = [docs EXCEPT ![t] = Written(@, "delegation",
                              [assignee |-> user, status |-> status])]

\* The calendar side rewrites title and schedule, or clears the schedule. It
\* reaches tombstones too: none of its reads filters on deletedAt.
CalendarWrites(t, payload, schedule) ==
    /\ docs[t].kind \in {"live", "tombstone"}
    /\ payload \in Payloads \cup {docs[t].payload}
    /\ docs' = [docs EXCEPT ![t] =
                    [docs[t] EXCEPT !.payload = payload, !.schedule = schedule,
                                    !.revision = docs[t].revision + 1]]

\* A final delete takes a trashed task only; one created under an operation
\* id leaves a tombstone.
Removes(t) ==
    /\ docs[t].kind = "live"
    /\ docs[t].placement.state = "trashed"
    /\ docs' = [docs EXCEPT ![t] = IF @.operation = None THEN RemovalOf(@)
                                                         ELSE TombstoneOf(@)]

-----------------------------------------------------------------------------

Next ==
    \E t \in Tasks :
        \/ \E op \in Operations \cup {None}, payload \in Payloads,
              schedule \in Schedules \cup {None} : Create(t, op, payload, schedule)
        \/ \E payload \in Payloads : OwnerWrites(t, "payload", payload)
        \/ \E schedule \in Schedules \cup {None} : OwnerWrites(t, "schedule", schedule)
        \/ \E delegation \in [assignee : Users, status : {"offered"}] \cup {None} :
              OwnerWrites(t, "delegation", delegation)
        \/ \E action \in LifecycleActions : Moves(t, action)
        \/ \E user \in Users, status \in DelegationStatuses : Answers(t, user, status)
        \/ \E payload \in Payloads \cup {Redacted}, schedule \in Schedules \cup {None} :
              CalendarWrites(t, payload, schedule)
        \/ Removes(t)

Spec == Init /\ [][Next]_docs
=============================================================================
