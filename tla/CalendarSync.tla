---------------------------- MODULE CalendarSync ----------------------------
(***************************************************************************)
(* One task and its event in Google Calendar: the user's edits with their  *)
(* outbox events, the n8n executions that lease and dispatch them, the     *)
(* changes pulled from Google and applied, conflicts and deletions that    *)
(* wait for a decision.                                                    *)
(*                                                                         *)
(* A text stands for a title with a schedule; every edit, on either side,  *)
(* makes a new one. Executions overlap, stall, vanish and lose replies;    *)
(* pulled changes are applied late, in any order and more than once.       *)
(* Google writes conditionally on the etag and never frees an event id.    *)
(***************************************************************************)
EXTENDS Naturals, Sequences

CONSTANTS
    Executions,  \* executions of the outbound workflow at a time
    MaxAttempts, \* MAX_OUTBOX_ATTEMPTS
    MaxTexts,    \* bound: edits on both sides together
    MaxRevision, \* bound: revisions of the task
    MaxEvents,   \* bound: outbox events
    Disruptions, \* bound: lost replies, vanished and stalled executions
    None         \* no binding, no schedule

ASSUME SyncConstants ==
    /\ {MaxAttempts, MaxTexts, MaxRevision, MaxEvents, Disruptions} \subseteq Nat
    /\ MaxAttempts > 0
    /\ None \notin Nat

VARIABLES
    task,      \* the task: revision, text, and whether it has a schedule
    binding,   \* the CalendarBinding of the task, or None
    outbox,    \* the events of the task in the calendar outbox
    conflicts, \* calendar conflicts of the binding
    google,    \* the event at Google
    execs,     \* execs[x]: where execution x of the outbound workflow is
    pulled,    \* changes on their way from Google
    texts,     \* the texts made so far
    spared,    \* disruptions still to come
    seen       \* history: the texts this side has had

vars == <<task, binding, outbox, conflicts, google, execs, pulled, texts, spared, seen>>

-----------------------------------------------------------------------------
Texts == 0 .. MaxTexts
Etags == Nat
EventTypes == {"event_create", "event_update", "event_delete"}

Binding == [etag : Etags, rev : Nat, gone : BOOLEAN]

\* The lease stands for its leaseId: the number of claims so far.
Event == [type : EventTypes, rev : Nat, text : Texts \cup {None},
          why : {"task", "conflict", "recreate"},
          status : {"pending", "leased", "expired", "delivered", "dead_letter"},
          attempts : Nat, lease : Nat]

Change == [etag : Etags, text : Texts, alive : BOOLEAN]

Conflict == [rev : Nat, etag : Etags, text : Texts,
             status : {"open", "resolved_local", "resolved_provider"}]

Execution == [at : {"idle", "claimed", "done", "failed"}, event : Nat, lease : Nat, etag : Etags]

TypeOK ==
    /\ task \in [rev : 0 .. MaxRevision, text : Texts, dated : BOOLEAN]
    /\ binding \in Binding \cup {None}
    /\ outbox \in Seq(Event) /\ Len(outbox) <= MaxEvents
    /\ conflicts \subseteq Conflict
    /\ google \in Change
    /\ execs \in [Executions -> Execution]
    /\ pulled \subseteq Change
    /\ texts \in Texts /\ seen \subseteq Texts
    /\ spared \in 0 .. Disruptions
    /\ \A e \in DOMAIN outbox : outbox[e].attempts <= MaxAttempts

Idle == [at |-> "idle", event |-> 0, lease |-> 0, etag |-> 0]

\* A task without a schedule and a calendar connection: no event yet.
Init ==
    /\ task = [rev |-> 0, text |-> 0, dated |-> FALSE]
    /\ binding = None
    /\ outbox = <<>>
    /\ conflicts = {}
    /\ google = [etag |-> 0, text |-> 0, alive |-> FALSE]
    /\ execs = [x \in Executions |-> Idle]
    /\ pulled = {}
    /\ texts = 0 /\ seen = {0}
    /\ spared = Disruptions

-----------------------------------------------------------------------------
(* The task API.                                                           *)

Enqueued(type, t, why) ==
    Append(outbox, [type |-> type, rev |-> t.rev, text |-> IF t.dated THEN t.text ELSE None,
                    why |-> why, status |-> "pending", attempts |-> 0, lease |-> 0])

\* update and updateSchedule: the event a write owes, if any.
Owed(t, scheduled) ==
    IF binding # None
    THEN Enqueued(IF scheduled /\ ~ t.dated THEN "event_delete" ELSE "event_update", t, "task")
    ELSE IF scheduled /\ t.dated THEN Enqueued("event_create", t, "task")
    ELSE outbox

Write(t, scheduled) ==
    /\ task.rev < MaxRevision /\ Len(outbox) < MaxEvents
    /\ task' = t
    /\ outbox' = Owed(t, scheduled)
    /\ UNCHANGED <<binding, conflicts, google, execs, pulled, spared>>

Edit == /\ texts < MaxTexts
        /\ texts' = texts + 1 /\ seen' = seen \cup {texts'}
        /\ \/ Write([task EXCEPT !.rev = @ + 1, !.text = texts'], FALSE)
           \/ Write([task EXCEPT !.rev = @ + 1, !.text = texts', !.dated = TRUE], TRUE)

ClearSchedule == /\ Write([task EXCEPT !.rev = @ + 1, !.dated = FALSE], TRUE)
                 /\ UNCHANGED <<texts, seen>>

-----------------------------------------------------------------------------
(* The outbox: claimOutbox, outbound, acknowledgeOutbox.                   *)

\* The first call of claimOutbox: expired leases without an attempt left.
Swept == [e \in DOMAIN outbox |->
    IF outbox[e].status = "expired" /\ outbox[e].attempts >= MaxAttempts
    THEN [outbox[e] EXCEPT !.status = "dead_letter"] ELSE outbox[e]]

\* Mutant: attempts are not looked at.
ClaimableForEver(e) == outbox[e].status \in {"pending", "expired"}

\* Mutant: expired leases are left alone.
ClaimablePending(e) == outbox[e].attempts < MaxAttempts /\ outbox[e].status = "pending"

Claimable(e) == outbox[e].attempts < MaxAttempts /\ outbox[e].status \in {"pending", "expired"}

\* An update or a delete without a binding has nowhere to go.
Executable(e) == outbox[e].type = "event_create" \/ binding # None

Claim(x) ==
    /\ execs[x].at = "idle"
    /\ \/ /\ ~ \E e \in DOMAIN outbox : Claimable(e)
          /\ Swept # outbox
          /\ outbox' = Swept /\ UNCHANGED execs
       \/ \E e \in DOMAIN outbox :
            /\ Claimable(e)
            /\ outbox' = [Swept EXCEPT ![e].attempts = @ + 1, ![e].lease = @ + 1,
                             ![e].status = IF Executable(e) THEN "leased" ELSE "dead_letter"]
            /\ IF Executable(e)
               THEN execs' = [execs EXCEPT ![x] = [Idle EXCEPT !.at = "claimed", !.event = e,
                                                               !.lease = outbox[e].lease + 1]]
               ELSE UNCHANGED execs
    /\ UNCHANGED <<task, binding, conflicts, google, pulled, texts, spared, seen>>

\* Mutant: writes are not conditional on the etag of the binding.
AcceptsAny(e) == IF outbox[e].type = "event_create" THEN google.etag = 0 /\ outbox[e].text # None
                 ELSE google.alive /\ (outbox[e].type = "event_update" => outbox[e].text # None)

\* createEvent under the task's deterministic id; updateEvent and deleteEvent
\* If-Match the binding's etag as it is now, which may be later than the event.
Accepts(e) ==
    IF outbox[e].type = "event_create" THEN google.etag = 0 /\ outbox[e].text # None
    ELSE /\ binding # None /\ google.alive /\ google.etag = binding.etag
         /\ outbox[e].type = "event_update" => outbox[e].text # None

\* What Google answers: the new etag, for a deletion the one that was sent.
AnswerTo(e) == IF outbox[e].type = "event_delete" THEN google.etag ELSE google.etag + 1

\* outbound. The reply may be lost on its way to n8n.
Dispatch(x) ==
    LET e == execs[x].event IN
    /\ execs[x].at = "claimed"
    /\ Accepts(e)
    /\ google' = [etag |-> google.etag + 1, alive |-> outbox[e].type # "event_delete",
                  text |-> IF outbox[e].type = "event_delete" THEN google.text ELSE outbox[e].text]
    /\ \/ /\ execs' = [execs EXCEPT ![x].at = "done", ![x].etag = AnswerTo(e)]
          /\ UNCHANGED spared
       \/ /\ spared > 0 /\ spared' = spared - 1
          /\ execs' = [execs EXCEPT ![x].at = "failed"]
    /\ UNCHANGED <<task, binding, outbox, conflicts, pulled, texts, seen>>

\* Google refuses, or cannot be reached.
DispatchFails(x) ==
    /\ execs[x].at = "claimed"
    /\ \/ ~ Accepts(execs[x].event) /\ UNCHANGED spared
       \/ spared > 0 /\ spared' = spared - 1
    /\ execs' = [execs EXCEPT ![x].at = "failed"]
    /\ UNCHANGED <<task, binding, outbox, conflicts, google, pulled, texts, seen>>

\* Mutant: whoever answers last decides.
HoldsAnyLease(x) == outbox[execs[x].event].status \in {"leased", "expired"}

\* The event is still leased, and under the lease the execution claimed.
Holds(x) == /\ outbox[execs[x].event].status \in {"leased", "expired"}
            /\ outbox[execs[x].event].lease = execs[x].lease

\* Mutant: the binding takes the task's revision, not the event's.
BoundToCurrent(e, etag) ==
    IF outbox[e].type = "event_delete"
    THEN IF binding = None THEN None ELSE [binding EXCEPT !.gone = TRUE, !.etag = etag]
    ELSE [etag |-> etag, rev |-> task.rev, gone |-> FALSE]

\* The binding as a delivered event leaves it; only a create makes one.
Bound(e, etag) ==
    IF outbox[e].type = "event_delete"
    THEN IF binding = None THEN None ELSE [binding EXCEPT !.gone = TRUE, !.etag = etag]
    ELSE [etag |-> etag, rev |-> outbox[e].rev, gone |-> FALSE]

AnsweredStatus(e, ok) == IF ok THEN "delivered"
                   ELSE IF outbox[e].attempts >= MaxAttempts THEN "dead_letter" ELSE "pending"

Acknowledge(x) ==
    LET e == execs[x].event
        ok == execs[x].at = "done"
    IN  /\ execs[x].at \in {"done", "failed"}
        /\ IF Holds(x)
           THEN /\ outbox' = [outbox EXCEPT ![e].status = AnsweredStatus(e, ok)]
                /\ binding' = IF ok THEN Bound(e, execs[x].etag) ELSE binding
           ELSE UNCHANGED <<outbox, binding>>
        /\ execs' = [execs EXCEPT ![x] = Idle]
        /\ UNCHANGED <<task, conflicts, google, pulled, texts, spared, seen>>

\* n8n is restarted: the execution is gone.
Vanish(x) ==
    /\ spared > 0 /\ spared' = spared - 1
    /\ execs[x].at # "idle"
    /\ execs' = [execs EXCEPT ![x] = Idle]
    /\ UNCHANGED <<task, binding, outbox, conflicts, google, pulled, texts, seen>>

\* A lease lasts 35 minutes: an execution that outlives it was stalled.
LeaseElapses(e) ==
    /\ outbox[e].status = "leased"
    /\ IF \E x \in Executions : execs[x].at # "idle" /\ execs[x].event = e
                                /\ execs[x].lease = outbox[e].lease
       THEN spared > 0 /\ spared' = spared - 1
       ELSE UNCHANGED spared
    /\ outbox' = [outbox EXCEPT ![e].status = "expired"]
    /\ UNCHANGED <<task, binding, conflicts, google, execs, pulled, texts, seen>>

\* requestSync puts dead letters back.
RequestSync ==
    /\ spared > 0 /\ spared' = spared - 1
    /\ \E e \in DOMAIN outbox : outbox[e].status = "dead_letter"
    /\ outbox' = [e \in DOMAIN outbox |->
          IF outbox[e].status = "dead_letter"
          THEN [outbox[e] EXCEPT !.status = "pending", !.attempts = 0] ELSE outbox[e]]
    /\ UNCHANGED <<task, binding, conflicts, google, execs, pulled, texts, seen>>

-----------------------------------------------------------------------------
(* Google, and what comes from it.                                         *)

GoogleEdit ==
    /\ google.alive
    /\ \/ /\ texts < MaxTexts /\ texts' = texts + 1
          /\ google' = [google EXCEPT !.etag = @ + 1, !.text = texts']
       \/ google' = [google EXCEPT !.etag = @ + 1, !.alive = FALSE] /\ UNCHANGED texts
    /\ UNCHANGED <<task, binding, outbox, conflicts, execs, pulled, spared, seen>>

Pull ==
    /\ google.etag > 0
    /\ google \notin pulled
    /\ pulled' = pulled \cup {google}
    /\ UNCHANGED <<task, binding, outbox, conflicts, google, execs, texts, spared, seen>>

LocalChanged == task.rev # binding.rev

ProviderChanged(c) == c.etag # binding.etag

Conflicts(c) ==
    /\ IF \E k \in conflicts : k.rev = task.rev /\ k.etag = c.etag
       THEN UNCHANGED conflicts
       ELSE conflicts' = conflicts \cup
               {[rev |-> task.rev, etag |-> c.etag, text |-> c.text, status |-> "open"]}
    /\ seen' = seen \cup {c.text}
    /\ UNCHANGED <<task, binding>>

\* The provider's text becomes the task's, without an outbox event.
RewritesTask(c) ==
    /\ task.rev < MaxRevision
    /\ task' = [rev |-> task.rev + 1, text |-> c.text, dated |-> TRUE]
    /\ binding' = [binding EXCEPT !.etag = c.etag, !.rev = task'.rev]
    /\ seen' = seen \cup {c.text}
    /\ UNCHANGED conflicts

\* applyInbound; a second signal may carry the same change again.
Apply(c) ==
    /\ c \in pulled
    /\ pulled' \in {pulled, pulled \ {c}}
    /\ IF binding = None THEN UNCHANGED <<task, binding, conflicts, seen>>
       ELSE IF ~ c.alive
       THEN binding' = [binding EXCEPT !.etag = c.etag, !.gone = TRUE]
            /\ UNCHANGED <<task, conflicts, seen>>
       ELSE IF LocalChanged /\ ProviderChanged(c) THEN Conflicts(c)
       ELSE RewritesTask(c)
    /\ UNCHANGED <<outbox, google, execs, texts, spared>>

-----------------------------------------------------------------------------
(* Decisions of the user.                                                  *)

Resolved(k, status) == (conflicts \ {k}) \cup {[k EXCEPT !.status = status]}

ResolveForGoogle(k) ==
    /\ k \in conflicts /\ k.status = "open" /\ binding # None
    /\ task.rev < MaxRevision
    /\ task' = [rev |-> task.rev + 1, text |-> k.text, dated |-> TRUE]
    /\ binding' = [binding EXCEPT !.etag = k.etag, !.rev = task'.rev]
    /\ conflicts' = Resolved(k, "resolved_provider")
    /\ UNCHANGED <<outbox, google, execs, pulled, texts, spared, seen>>

ResolveForEisenhower(k) ==
    /\ k \in conflicts /\ k.status = "open" /\ binding # None
    /\ Len(outbox) < MaxEvents
    /\ outbox' = Enqueued("event_update", task, "conflict")
    /\ conflicts' = Resolved(k, "resolved_local")
    /\ UNCHANGED <<task, binding, google, execs, pulled, texts, spared, seen>>

\* resolveProviderDeletion
ClearDate ==
    /\ binding # None /\ binding.gone
    /\ task.rev < MaxRevision
    /\ task' = [task EXCEPT !.rev = @ + 1, !.dated = FALSE]
    /\ binding' = None
    /\ UNCHANGED <<outbox, conflicts, google, execs, pulled, texts, spared, seen>>

Detach ==
    /\ binding # None /\ binding.gone
    /\ binding' = None
    /\ UNCHANGED <<task, outbox, conflicts, google, execs, pulled, texts, spared, seen>>

Recreate ==
    /\ binding # None /\ binding.gone /\ task.dated
    /\ Len(outbox) < MaxEvents
    /\ ~ \E e \in DOMAIN outbox : outbox[e].why = "recreate" /\ outbox[e].rev = task.rev
    /\ outbox' = Enqueued("event_create", task, "recreate")
    /\ binding' = [binding EXCEPT !.gone = FALSE]
    /\ UNCHANGED <<task, conflicts, google, execs, pulled, texts, spared, seen>>

-----------------------------------------------------------------------------
Execute(x) == Claim(x) \/ Dispatch(x) \/ DispatchFails(x) \/ Acknowledge(x)

Next ==
    \/ Edit \/ ClearSchedule
    \/ \E x \in Executions : Execute(x) \/ Vanish(x)
    \/ \E e \in DOMAIN outbox : LeaseElapses(e)
    \/ RequestSync
    \/ GoogleEdit \/ Pull
    \/ \E c \in pulled : Apply(c)
    \/ \E k \in conflicts : ResolveForGoogle(k) \/ ResolveForEisenhower(k)
    \/ ClearDate \/ Detach \/ Recreate

Spec == Init /\ [][Next]_vars

\* The workflow polls every 15 seconds, its calls return, and time passes.
Fairness ==
    /\ \A x \in Executions : WF_vars(Execute(x))
    /\ \A e \in 1 .. MaxEvents : WF_vars(e \in DOMAIN outbox /\ LeaseElapses(e))

FairSpec == Spec /\ Fairness

-----------------------------------------------------------------------------
(* Properties.                                                             *)

\* What somebody wrote at Google is never overwritten unseen: this side has had
\* the text that its write or deletion replaces, whatever was acknowledged,
\* applied or decided late (googleCalendar.ts outbound, calendar.ts).
WriteStep == execs' # execs /\ google' # google => google.text \in seen

GoogleEditsSurvive == [][WriteStep]_vars

\* The binding tells the truth: where it says that the task's revision and the
\* event's etag are the same thing, they are, although writes overtake each
\* other, replies are lost, and changes are applied late and twice.
BindingIsTruthful ==
    binding # None /\ google.alive /\ binding.etag = google.etag /\ binding.rev = task.rev
        => task.dated /\ google.text = task.text

OutboxStep ==
    \A e \in DOMAIN outbox :
        /\ outbox[e].status = "delivered" => outbox'[e] = outbox[e]
        /\ outbox[e].status \in {"leased", "expired"} /\ outbox'[e].status = "delivered" =>
              \E x \in Executions : /\ execs[x].at = "done" /\ execs[x].event = e
                                    /\ execs[x].lease = outbox[e].lease

\* An event is delivered by the execution of its latest lease, once: neither a
\* stalled execution nor a requeue decides over somebody else's delivery.
LatestLeaseDelivers == [][OutboxStep]_vars

\* Every event is delivered or reported as a dead letter in the end, whatever
\* executions vanish.
EventsAreResolved ==
    \A e \in 1 .. MaxEvents :
        (e \in DOMAIN outbox /\ outbox[e].status \notin {"delivered", "dead_letter"})
            ~> (e \in DOMAIN outbox /\ outbox[e].status \in {"delivered", "dead_letter"})

\* Claimed by the product design: Eisenhower owns a task's text and schedule.
\* Unless the user decides a conflict that way, a text is not replaced by an
\* older one.
EditsAreKept == [][task'.text < task.text => conflicts' # conflicts]_vars
=============================================================================
