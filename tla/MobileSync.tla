----------------------------- MODULE MobileSync -----------------------------
(***************************************************************************)
(* The mobile client's list of tasks and its synchronisation with the task *)
(* API: commands that are shown at once and sent with the revision they    *)
(* were given on, a single flight that reconciles a snapshot of the list,  *)
(* conflicts the user resolves, restarts, requests and replies that are    *)
(* lost, and other clients of the same task.                               *)
(*                                                                         *)
(* Code: mobile/eisenhower-matrix/src/utils/taskSync.js and                *)
(* hooks/useTaskSyncController.js. One task of the owner's list; titles    *)
(* and descriptions are part of its payload. The reminder of a schedule is *)
(* only the wait it causes; the list is saved as it is set, except at the  *)
(* start of the app. The delegation of a task goes the way of its          *)
(* schedule, without that wait; it, the list of delegated tasks and the    *)
(* import of scanned ones are left out.                                    *)
(***************************************************************************)
EXTENDS Naturals, Sequences

CONSTANTS
    UserActions,  \* lifecycle actions the user takes
    MaxCommands,  \* bound: commands of the user
    MaxMishaps,   \* bound: lost messages, writes of other clients, restarts, and
                  \* commands given while something is in progress
    MaxTogether   \* bound: commands and mishaps together

ASSUME BoundsAreNumbers == {MaxCommands, MaxMishaps, MaxTogether} \subseteq Nat

VARIABLES
    remote,    \* the task at the server
    creation, \* the key and the payload it was created with
    tasks,     \* tasksRef.current
    saved,     \* its copy in AsyncStorage
    handlers,  \* handlers[n]: the handler of the n-th command
    flight,    \* syncInFlightRef.current: at most one reconciliation
    placing,   \* the list that the start of the app, its flight over, has yet to place
    stray,     \* requests of a process that is gone
    mishaps,   \* how many of them there were
    latest,    \* history: the latest command, while it is followed
    shown,     \* history: the revisions the list has shown
    copies,    \* history: how many tasks the addition has created
    blind,     \* history: a write replaced a version the list never showed
    settled    \* history: the last step ended a flight that nothing disturbed

mobileVars == <<remote, creation, tasks, saved, handlers, flight, placing, stray, mishaps,
                latest, shown, copies, blind, settled>>

Unset == "absent"

Domain == INSTANCE TaskDomain
    WITH Tasks <- {}, Operations <- {}, Payloads <- {"p", "q"}, Schedules <- {"s"},
         Users <- {"u"}, Redacted <- "redacted", None <- Unset

Values(type) == CASE type = "update" -> {"p", "q"}
                  [] type = "lifecycle" -> UserActions
                  [] type = "schedule" -> {"s"}
                  [] OTHER -> {Unset}

CommandTypes == {"update", "lifecycle", "schedule", "delete"}

-----------------------------------------------------------------------------
(* A task and its entry in the list.                                       *)

Task == [payload : {"p", "q"}, placement : Domain!Placement, schedule : {"s", Unset},
         revision : Nat]

NewTask(payload) ==
    [payload |-> payload, placement |-> [state |-> "active", prior |-> Unset],
     schedule |-> Unset, revision |-> 0]

CanMove(task, action) == \E to \in Domain!Placement : Domain!LegalMove(task.placement, action, to)

\* What a command makes of a task, on the phone and at the server.
Changed(task, type, value) ==
    CASE type = "update" -> [task EXCEPT !.payload = value]
      [] type = "schedule" -> [task EXCEPT !.schedule = value]
      [] type = "lifecycle" ->
            [task EXCEPT !.placement =
                CHOOSE to \in Domain!Placement : Domain!LegalMove(task.placement, value, to)]
      [] OTHER -> task

\* pendingIntent: what a later sync sends, and what a conflict keeps.
Intent == [type : CommandTypes \cup {Unset}, value : UNION {Values(t) : t \in CommandTypes},
           placement : Domain!Placement]

NoIntent == [type |-> Unset, value |-> Unset, placement |-> NewTask("p").placement]

SyncStates == CommandTypes \cup {"synced", "create", "conflict"}

\* "local" has no remoteId and the id of its addition, "remote" the server's id.
ListEntry == [id : {"local", "remote"}, task : Task, sync : SyncStates, intent : Intent,
          missing : BOOLEAN]

\* normalizeRemoteTask.
Synced(task) ==
    [id |-> "remote", task |-> task, sync |-> "synced", intent |-> NoIntent, missing |-> FALSE]

IsPending(e) == e.sync \notin {"synced", "conflict"}

\* The entries markTaskPending... leave in the list. What has no remoteId stays
\* a pending create.
Marked(e, type, value) ==
    LET task == Changed(e.task, type, value)
    IN  [e EXCEPT !.task = task,
                  !.sync = IF e.id = "local" THEN "create" ELSE type,
                  !.intent = IF type \in {"update", "delete"} THEN NoIntent
                             ELSE [type |-> type, value |-> value, placement |-> task.placement]]

\* The entry at one of these places of a list, and the rest of it. Of the kinds of
\* entries that are looked for below a list has one at most.
EntryAt(list, places) ==
    IF places = {} THEN <<>> ELSE <<list[CHOOSE i \in places : TRUE]>>

RestOf(list, places) ==
    IF places = {} THEN list
    ELSE LET i == CHOOSE i \in places : TRUE
         IN  SubSeq(list, 1, i - 1) \o SubSeq(list, i + 1, Len(list))

Positions(list, id) == {i \in DOMAIN list : list[i].id = id}

Lookup(list, id) == EntryAt(list, Positions(list, id))

Dropping(list, id) == RestOf(list, Positions(list, id))

\* upsertTask.
Upserted(list, e) == <<e>> \o Dropping(list, e.id)

-----------------------------------------------------------------------------
(* The server, as TaskRepository answers it.                               *)

\* Mutant: an id made for every attempt.
FreshOperationId == 1 + mishaps

\* The Idempotency-Key of the addition, kept in its entry through every retry.
ClientOperationId == 1

Call(type, value, base) ==
    [type |-> type, value |-> value, base |-> base,
     key |-> IF type = "create" THEN ClientOperationId ELSE 0, followUp |-> FALSE]

\* A create under a key the server has not seen.
Creates(call) == call.type = "create" /\ call.key # creation.key

\* The status of a call: 2xx, 409 or 412, another error.
Status(call) ==
    IF Creates(call) THEN "ok"
    ELSE IF call.type = "create"
    THEN IF creation.payload # call.value THEN "conflict"
         ELSE IF remote.kind = "gone" THEN "error" ELSE "ok"
    ELSE IF remote.kind # "live" THEN "error"
    ELSE IF \/ call.base # remote.task.revision
            \/ call.type = "lifecycle" /\ ~CanMove(remote.task, call.value)
            \/ call.type = "delete" /\ remote.task.placement.state # "trashed"
    THEN "conflict" ELSE "ok"

\* What is left of a deleted task: the key of its addition stays bound.
Gone == [kind |-> "gone", task |-> NewTask("p")]

\* The task after a call; a repeated create writes nothing.
After(call) ==
    IF Status(call) # "ok" THEN remote
    ELSE CASE call.type = "create" ->
                 IF remote.kind = "unborn" THEN [kind |-> "live", task |-> NewTask(call.value)]
                                           ELSE remote
           [] call.type = "delete" -> Gone
           [] OTHER -> [kind |-> "live",
                        task |-> [Changed(remote.task, call.type, call.value)
                                     EXCEPT !.revision = remote.task.revision + 1]]

MayFail == mishaps < MaxMishaps /\ Len(handlers) + mishaps < MaxTogether

\* What may become of a call: it is answered, or its request or its reply is lost.
Outcomes(call) ==
    {[taken |-> TRUE, status |-> Status(call)]}
    \cup IF ~MayFail THEN {} ELSE {[taken |-> t, status |-> "lost"] : t \in BOOLEAN}

\* The latest command is not followed any more: the server has it, the user has
\* given it up, or what was in progress may have overwritten it.
Closed == [type |-> Unset, value |-> Unset]

\* A call carries the latest command, alone or in a create.
Carries(call) ==
    \/ call.type = latest.type /\ call.value = latest.value
    \/ call.type = "create" /\ latest.type = "update" /\ call.value = latest.value

\* The server takes a call.
Takes(call, outcome) ==
    LET accepted == outcome.taken /\ Status(call) = "ok"
    IN  /\ remote' = IF accepted THEN After(call) ELSE remote
        /\ mishaps' = IF outcome.status = "lost" THEN mishaps + 1 ELSE mishaps
        /\ creation' = IF accepted /\ Creates(call)
                        THEN [key |-> call.key, payload |-> call.value] ELSE creation
        /\ copies' = IF accepted /\ Creates(call) THEN copies + 1 ELSE copies
        /\ blind' = (blind \/ (/\ accepted /\ ~call.followUp /\ call.type # "create"
                               /\ call.base \notin shown))
        /\ latest' = IF accepted /\ Carries(call) THEN Closed ELSE latest

-----------------------------------------------------------------------------
(* The handlers of the user's commands.                                    *)

\* tasksRef.current, and the history of what it has shown.
Shows(list) ==
    /\ tasks' = list
    /\ LET entries == Lookup(list, "remote")
       IN  shown' = shown \cup {entries[i].task.revision : i \in DOMAIN entries}

\* persistTasks.
Persists(list) == Shows(list) /\ saved' = list

\* A handler that has returned.
Returned == [at |-> "done"]

Running == {n \in DOMAIN handlers : handlers[n].at # "done"}

NewFlight(list, boot) ==
    [stage |-> "fetch", snapshot |-> list, resolved |-> <<>>, todo |-> <<>>, followUp |-> <<>>,
     boot |-> boot, calm |-> Running = {} /\ stray = {}]

\* A flight in whose time something else happens.
Disturbed == {[f EXCEPT !.calm = FALSE] : f \in flight}
DisturbedPlacing == {[p EXCEPT !.calm = FALSE] : p \in placing}
Disturbs == flight' = Disturbed /\ placing' = DisturbedPlacing

\* retrySync: while a flight runs, its promise is returned and the list is not looked at.
Retries(list) ==
    /\ flight' = IF flight = {} THEN {NewFlight(list, FALSE)} ELSE Disturbed
    /\ placing' = DisturbedPlacing

\* The latest command, which is in no entry before its handler persists it.
Unsaved ==
    \E n \in Running : /\ n = Len(handlers)
                       /\ \/ handlers[n].at = "reminder"
                          \/ handlers[n].type \in {"update", "delete"}

\* What is in progress may overwrite the command or drop it.
Exposed == IF Unsaved THEN Closed ELSE latest

Quiet == Running = {} /\ flight = {} /\ placing = {} /\ stray = {}

\* A command is followed when it is given while nothing is in progress, on a list
\* that shows the task once.
Given(type, value) ==
    latest' = IF Quiet /\ Len(tasks) < 2
              THEN [type |-> type, value |-> value] ELSE Closed

\* What a handler is told, with the task if its call has succeeded.
Reply(status, task) ==
    [status |-> status, task |-> IF status = "ok" THEN task ELSE NewTask("p")]

\* What a handler has read: its task and, for a toggle, the whole list.
Handler(at, type, value, e) ==
    [at |-> at, type |-> type, value |-> value, entry |-> e,
     list |-> IF type = "update" THEN tasks ELSE <<>>,
     reply |-> Reply(Unset, NewTask("p"))]

CallOf(h) == Call(h.type, h.value, h.entry.task.revision)

\* handleAddTask.
Add ==
    /\ Len(handlers) < MaxCommands /\ Len(handlers) + mishaps < MaxTogether
    /\ remote.kind = "unborn" /\ Len(handlers) = 0
    /\ LET e == [Synced(NewTask("p")) EXCEPT !.id = "local", !.sync = "create"]
       IN  /\ Persists(<<e>> \o tasks)
           /\ handlers' = Append(handlers, Handler("asking", "create", "p", e))
    /\ Given("create", "p")
    /\ Disturbs /\ settled' = FALSE
    /\ UNCHANGED <<remote, creation, stray, mishaps, copies, blind>>

\* handleToggle, handleLifecycle, handleSchedule, handleDelete.
\* What has no remoteId is not sent. A toggle and a delete are not persisted
\* before the reply, a schedule not before its reminder is set.
MayCommand(e, type, value) ==
    /\ type \in {"lifecycle", "schedule"} => e.sync # "conflict"
    /\ type = "update" => value # e.task.payload
    /\ type = "lifecycle" => CanMove(e.task, value)
    /\ type = "delete" => e.task.placement.state = "trashed"

Command(e, type, value) ==
    /\ Len(handlers) < MaxCommands /\ Len(handlers) + mishaps < MaxTogether
    /\ Quiet \/ MayFail
    /\ mishaps' = IF Quiet THEN mishaps ELSE mishaps + 1
    /\ e.sync # "delete" /\ MayCommand(e, type, value)
    /\ LET at == IF type = "schedule" THEN "reminder"
                 ELSE IF e.id = "local" THEN "done" ELSE "asking"
       IN  handlers' = Append(handlers, IF at = "done" THEN Returned
                                        ELSE Handler(at, type, value, e))
    /\ CASE type = "schedule" -> UNCHANGED <<tasks, saved, shown>>
         [] type = "delete" /\ e.id = "local" -> Persists(Dropping(tasks, "local"))
         [] e.id = "remote" /\ type \in {"update", "delete"} -> UNCHANGED <<tasks, saved, shown>>
         [] OTHER -> Persists(Upserted(tasks, Marked(e, type, value)))
    /\ IF e.id = "local" /\ type \in {"lifecycle", "delete"}
       THEN latest' = Closed ELSE Given(type, value)
    /\ Disturbs /\ settled' = FALSE
    /\ UNCHANGED <<remote, creation, stray, copies, blind>>

\* syncTaskReminder returns: the entry read before it is put into the list.
ReminderIsSet(n) ==
    /\ handlers[n].at = "reminder"
    /\ LET e == handlers[n].entry
       IN  /\ Persists(Upserted(tasks, Marked(e, "schedule", handlers[n].value)))
           /\ handlers' = [handlers EXCEPT ![n] = IF e.id = "local" THEN Returned
                                                  ELSE [handlers[n] EXCEPT !.at = "asking"]]
    /\ Disturbs /\ settled' = FALSE
    /\ UNCHANGED <<remote, creation, stray, mishaps, latest, copies, blind>>

\* The server answers the handler, or the call gets lost.
HandlerIsAnswered(n) ==
    /\ handlers[n].at = "asking"
    /\ \E outcome \in Outcomes(CallOf(handlers[n])) :
        /\ Takes(CallOf(handlers[n]), outcome)
        /\ handlers' = [handlers EXCEPT ![n] =
                            [handlers[n] EXCEPT !.at = "answered",
                                                !.reply = Reply(outcome.status, remote'.task)]]
    /\ Disturbs /\ settled' = FALSE
    /\ UNCHANGED <<tasks, saved, stray, shown>>

\* The list after a reply.
Replied(h) ==
    IF h.reply.status = "ok"
    THEN IF h.type = "delete" THEN Dropping(tasks, "remote")
         ELSE Upserted(Dropping(tasks, h.entry.id), Synced(h.reply.task))
    ELSE IF h.type = "create" THEN Upserted(tasks, h.entry)
    ELSE IF h.type = "update" /\ h.reply.status = "conflict"
    THEN Upserted(h.list, Marked(h.entry, h.type, h.value))
    ELSE Upserted(tasks, Marked(h.entry, h.type, h.value))

\* The reply, or the error, is put into the list as it is then; a conflict is
\* reconciled at once.
HandlerEnds(n) ==
    /\ handlers[n].at = "answered"
    /\ LET h == handlers[n]
       IN  /\ Persists(Replied(h))
           /\ handlers' = [handlers EXCEPT ![n] = Returned]
           /\ IF h.reply.status = "conflict" /\ h.type # "create"
              THEN Retries(Replied(h)) ELSE Disturbs
    /\ settled' = FALSE
    /\ UNCHANGED <<remote, creation, stray, mishaps, latest, copies, blind>>

\* handleResolveConflict with the server's version: the intent is given up.
ResolveRemote(e) ==
    /\ e.sync = "conflict"
    /\ Persists(IF e.missing THEN Dropping(tasks, "remote")
                ELSE Upserted(tasks, Synced(e.task)))
    /\ latest' = Closed
    /\ Disturbs /\ settled' = FALSE
    /\ UNCHANGED <<remote, creation, handlers, stray, mishaps, copies, blind>>

\* resolveTaskConflict for the local side: the intent on the version shown.
Rebased(e) ==
    LET i == e.intent
        state == [e.task.placement EXCEPT !.state = i.placement.state]
        task == CASE i.type = "delete" -> [e.task EXCEPT !.placement = state]
                  [] i.type = "lifecycle" ->
                        [e.task EXCEPT !.placement = IF i.placement.prior = Unset THEN state
                                                     ELSE i.placement]
                  [] OTHER -> Changed(e.task, i.type, i.value)
    IN  [e EXCEPT !.task = task, !.sync = i.type,
                  !.intent = IF i.type \in {"update", "delete"} THEN NoIntent ELSE i]

ResolveLocal(e) ==
    /\ e.sync = "conflict"
    /\ Persists(Upserted(tasks, Rebased(e)))
    /\ Retries(Upserted(tasks, Rebased(e)))
    /\ latest' = Exposed /\ settled' = FALSE
    /\ UNCHANGED <<remote, creation, handlers, stray, mishaps, copies, blind>>

-----------------------------------------------------------------------------
(* The flight.                                                             *)

\* retrySync, by the user.
Sync ==
    /\ flight = {}
    /\ Retries(tasks)
    /\ latest' = Exposed /\ settled' = FALSE
    /\ UNCHANGED <<remote, creation, tasks, saved, handlers, stray, mishaps,
                   shown, copies, blind>>

\* What the server lists.
ServerList == IF remote.kind = "live" THEN <<Synced(remote.task)>> ELSE <<>>

ConflictPositions(list) == {i \in DOMAIN list : list[i].sync = "conflict"}

\* Mutant: a conflict stays on the version it arose on.
StaleConflicts(list) ==
    LET conflicts == EntryAt(list, ConflictPositions(list))
    IN  IF conflicts = <<>> THEN ServerList ELSE Upserted(ServerList, conflicts[1])

\* reconcilePendingTasks starts from what the server lists: a conflict keeps its
\* intent on the fresh version, or is marked as missing there.
FromServer(list) ==
    LET conflicts == EntryAt(list, ConflictPositions(list))
    IN  IF conflicts = <<>> THEN ServerList
        ELSE IF remote.kind # "live" THEN <<[conflicts[1] EXCEPT !.missing = TRUE]>>
        ELSE <<[Synced(remote.task) EXCEPT !.sync = "conflict", !.intent = conflicts[1].intent]>>

\* The pending entries; of the others there is one at most, the server's.
PendingIn(list) == RestOf(list, {i \in DOMAIN list : ~IsPending(list[i])})

FlightFetches(f) ==
    /\ f.stage = "fetch"
    /\ flight' = {[f EXCEPT !.stage = "reconcile", !.snapshot = <<>>,
                            !.resolved = FromServer(f.snapshot),
                            !.todo = PendingIn(f.snapshot)]}
    /\ settled' = FALSE
    /\ UNCHANGED <<remote, creation, tasks, saved, handlers, placing, stray, mishaps, latest,
                   shown, copies, blind>>

\* The tasks cannot be fetched. A retry leaves the list alone; the start of the
\* app is to put back what it had loaded.
FlightFails(f) ==
    /\ f.stage = "fetch" /\ MayFail
    /\ mishaps' = mishaps + 1
    /\ flight' = {}
    /\ placing' = IF f.boot THEN {[list |-> f.snapshot, failed |-> TRUE, calm |-> FALSE]} ELSE placing
    /\ settled' = FALSE
    /\ UNCHANGED <<remote, creation, tasks, saved, handlers, stray, latest, shown, copies, blind>>

\* Mutant: the revision of the version just fetched.
FreshBase(e, resolved) ==
    IF Lookup(resolved, "remote") = <<>> THEN e.task.revision
    ELSE Lookup(resolved, "remote")[1].task.revision

\* A pending entry is sent with the revision it was made on.
Base(e, resolved) == e.task.revision

PendingCall(e, resolved) ==
    Call(e.sync,
         CASE e.sync \in {"create", "update"} -> e.task.payload
           [] e.sync = "lifecycle" -> e.intent.value
           [] e.sync = "schedule" -> e.task.schedule
           [] OTHER -> Unset,
         Base(e, resolved))

\* Mutant: the conflict without what the user wanted.
ForgetfulConflict(resolved, e) ==
    IF Lookup(resolved, "remote") = <<>> THEN e ELSE Lookup(resolved, "remote")[1]

\* createConflictTask: the fresh version, with the intent to be resolved.
ConflictTask(resolved, e) ==
    LET fresh == Lookup(resolved, "remote")
        visible == IF fresh = <<>> THEN e ELSE fresh[1]
        intent == [type |-> e.sync, placement |-> e.task.placement,
                   value |-> PendingCall(e, resolved).value]
    IN  [visible EXCEPT !.sync = "conflict", !.intent = intent]

\* A reply to a pending entry in the list that is being resolved.
Reconciled(resolved, e, status, task) ==
    IF status = "ok"
    THEN IF e.sync = "delete" THEN Dropping(resolved, "remote") ELSE Upserted(resolved, Synced(task))
    ELSE IF status = "conflict" /\ e.sync # "create" THEN Upserted(resolved, ConflictTask(resolved, e))
    ELSE Upserted(resolved, e)

\* A created task whose entry has a schedule is written once more.
NeedsFollowUp(e, status) ==
    status = "ok" /\ e.sync = "create" /\ e.intent.type = "schedule"

\* The write that follows a create, on the revision of the create's reply.
FollowUpCall(e) ==
    [Call(e.intent.type, e.intent.value, e.task.revision) EXCEPT !.followUp = TRUE]

FlightReconciles(f) ==
    /\ f.stage = "reconcile" /\ f.followUp = <<>> /\ f.todo # <<>>
    /\ LET e == Head(f.todo)
           call == PendingCall(e, f.resolved)
       IN  \E outcome \in Outcomes(call) :
            /\ Takes(call, outcome)
            /\ flight' =
                {IF NeedsFollowUp(e, outcome.status)
                 THEN [f EXCEPT !.todo = Tail(@),
                                !.followUp = <<[Synced(remote'.task) EXCEPT !.intent = e.intent]>>]
                 ELSE [f EXCEPT !.todo = Tail(@), !.calm = @ /\ outcome.status # "lost",
                                !.resolved = Reconciled(@, e, outcome.status, remote'.task)]}
    /\ settled' = FALSE
    /\ UNCHANGED <<tasks, saved, handlers, placing, stray, shown>>

\* Whatever the error of the follow-up, it stays pending.
FlightFollowsUp(f) ==
    /\ f.followUp # <<>>
    /\ LET e == Head(f.followUp)
           call == FollowUpCall(e)
       IN  \E outcome \in Outcomes(call) :
            /\ Takes(call, outcome)
            /\ flight' =
                {[f EXCEPT !.followUp = <<>>, !.calm = @ /\ outcome.status # "lost",
                           !.resolved = Upserted(@, IF outcome.status = "ok"
                                                    THEN Synced(remote'.task)
                                                    ELSE Marked(e, e.intent.type, e.intent.value))]}
    /\ settled' = FALSE
    /\ UNCHANGED <<tasks, saved, handlers, placing, stray, shown>>

\* The resolved list takes the place of the list; that of the start of the app is
\* saved, but the list waits for fetchAICapabilities to settle.
FlightEnds(f) ==
    /\ f.stage = "reconcile" /\ f.followUp = <<>> /\ f.todo = <<>>
    /\ flight' = {}
    /\ IF f.boot
       THEN /\ placing' = {[list |-> f.resolved, failed |-> FALSE, calm |-> f.calm]}
            /\ saved' = f.resolved /\ settled' = FALSE
            /\ UNCHANGED <<tasks, shown>>
       ELSE Persists(f.resolved) /\ settled' = f.calm /\ UNCHANGED placing
    /\ UNCHANGED <<remote, creation, handlers, stray, mishaps, latest, copies, blind>>

\* The start of the app places its list, over whatever was given meanwhile; a list
\* that was loaded is saved again.
BootPlaces(p) ==
    /\ placing' = {}
    /\ Shows(p.list) /\ saved' = IF p.failed THEN p.list ELSE saved
    /\ settled' = p.calm
    /\ UNCHANGED <<remote, creation, handlers, flight, stray, mishaps, latest, copies, blind>>

-----------------------------------------------------------------------------
(* The surroundings.                                                       *)

\* The call a flight may have sent when the app stops.
CallsOf(f) ==
    IF f.followUp # <<>> THEN {FollowUpCall(Head(f.followUp))}
    ELSE IF f.stage = "reconcile" /\ f.todo # <<>> THEN {PendingCall(Head(f.todo), f.resolved)}
    ELSE {}

\* The app stops, with requests on the wire that may arrive later, and starts from the storage.
Restart ==
    /\ MayFail
    /\ mishaps' = mishaps + 1
    /\ handlers' = [n \in DOMAIN handlers |-> Returned]
    /\ stray' = stray \cup (UNION {CallsOf(f) : f \in flight})
                    \cup {CallOf(handlers[n]) : n \in {m \in Running : handlers[m].at = "asking"}}
    /\ Shows(saved)
    /\ flight' = {[NewFlight(saved, TRUE) EXCEPT !.calm = stray' = {}]} /\ placing' = {}
    /\ latest' = Exposed /\ settled' = FALSE
    /\ UNCHANGED <<remote, creation, saved, copies, blind>>

\* A request of the stopped process arrives.
LateArrival(call) ==
    /\ Takes(call, [taken |-> TRUE, status |-> Unset])
    /\ stray' = stray \ {call}
    /\ Disturbs /\ settled' = FALSE
    /\ UNCHANGED <<tasks, saved, handlers, shown>>

\* Another client of the task: a newer version, or the final delete.
OtherClientWrites ==
    /\ MayFail /\ remote.kind = "live"
    /\ mishaps' = mishaps + 1
    /\ \/ \E value \in Values("update") \ {remote.task.payload} :
            remote' = [kind |-> "live",
                       task |-> [remote.task EXCEPT !.payload = value,
                                                    !.revision = remote.task.revision + 1]]
       \/ remote' = Gone
    /\ Disturbs /\ settled' = FALSE
    /\ UNCHANGED <<creation, tasks, saved, handlers, stray, latest, shown, copies, blind>>

-----------------------------------------------------------------------------

MobileInit ==
    /\ \/ /\ remote = [kind |-> "unborn", task |-> NewTask("p")]
          /\ tasks = <<>> /\ shown = {}
       \/ /\ remote = [kind |-> "live", task |-> NewTask("p")]
          /\ tasks = <<Synced(NewTask("p"))>> /\ shown = {0}
    /\ creation = [key |-> 0, payload |-> "p"]
    /\ saved = tasks /\ handlers = <<>> /\ flight = {} /\ placing = {} /\ stray = {}
    /\ mishaps = 0
    /\ latest = Closed
    /\ copies = 0 /\ blind = FALSE /\ settled = FALSE

MobileNext ==
    \/ Add
    \/ \E i \in DOMAIN tasks :
        \/ \E type \in CommandTypes : \E value \in Values(type) : Command(tasks[i], type, value)
        \/ ResolveRemote(tasks[i])
        \/ ResolveLocal(tasks[i])
    \/ \E n \in DOMAIN handlers : ReminderIsSet(n) \/ HandlerIsAnswered(n) \/ HandlerEnds(n)
    \/ Sync
    \/ \E f \in flight :
        \/ FlightFetches(f) \/ FlightFails(f) \/ FlightReconciles(f)
        \/ FlightFollowsUp(f) \/ FlightEnds(f)
    \/ \E p \in placing : BootPlaces(p)
    \/ Restart
    \/ \E call \in stray : LateArrival(call)
    \/ OtherClientWrites

MobileSpec == MobileInit /\ [][MobileNext]_mobileVars

-----------------------------------------------------------------------------
(* Properties.                                                             *)

\* A list holds at most the added task and the server's.
MobileTypeOK ==
    /\ remote \in [kind : {"unborn", "live", "gone"}, task : Task]
    /\ \A list \in {tasks, saved} \cup {p.list : p \in placing} :
          Len(list) <= 2 /\ \A i \in DOMAIN list : list[i] \in ListEntry
    /\ Len(handlers) <= MaxCommands
    /\ latest.type \in CommandTypes \cup {"create", Unset}
    /\ shown \subseteq Nat

\* One task at the server for one addition, whatever is repeated or late.
OneTaskPerAddition == copies <= 1

\* No write of the phone replaces a version of another client that its list has
\* never shown; the write that follows a create is made on the create's reply.
NothingUnseenIsReplaced == ~blind

\* An entry that still has the latest command.
StillHolds(e) ==
    CASE latest.type = "create" -> e.sync = "create"
      [] latest.type = "update" ->
            \/ e.sync \in {"create", "update"} /\ e.task.payload = latest.value
            \/ e.sync = "conflict" /\ e.intent.type = "update" /\ e.intent.value = latest.value
      [] latest.type = "delete" ->
            e.sync = "delete" \/ (e.sync = "conflict" /\ e.intent.type = "delete")
      [] OTHER -> /\ e.sync # "synced"
                  /\ e.intent.type = latest.type /\ e.intent.value = latest.value

\* The latest command, given while nothing was in progress, neither a handler nor
\* a flight nor the start of the app until its list is placed, and persisted
\* before a flight begins or the app stops, reaches the server, or is in the list
\* to be sent or resolved, until the user gives it up. What is given meanwhile is
\* exempt: the list of that flight or start overwrites it.
LatestIsKept ==
    latest # Closed =>
        Len(handlers) \in Running \/ \E i \in DOMAIN tasks : StillHolds(tasks[i])

\* A list that shows the server's version, a conflict over it, or a command that
\* has no version to be applied to; an addition only if the server refuses it.
SettledList(list) ==
    /\ remote.kind = "live" => \E i \in DOMAIN list :
            list[i].sync \in {"synced", "conflict"} /\ list[i].task = remote.task
    /\ \A i \in DOMAIN list :
            \/ list[i].id = "local" /\ Status(PendingCall(list[i], list)) # "ok"
            \/ list[i].id = "remote" /\ (remote.kind = "live" \/ list[i].sync # "synced")

\* The list after a flight that nothing disturbed, and after a start of the app
\* that nothing disturbed until its list is placed.
FlightsSettle == settled => SettledList(tasks)

\* The client of useTaskSyncController.js neither repeats an addition, nor writes
\* over what it has not shown, nor loses the latest command, and its flights settle.
MobileIsSound == OneTaskPerAddition /\ NothingUnseenIsReplaced /\ LatestIsKept /\ FlightsSettle
=============================================================================
