# TLA+ models of the Eisenhower matrix

The specifications, model-checking configurations and proofs kept beside the
code in `backend-node/`, `backend-ai/`, `mcp/` and the clients. Paths below are
relative to the repository; `PROJECT.json` names the source lines of every
definition.

- [The system](#the-system): components, state, operations, hard behaviours
- [Modules](#modules): which module models what, and how
- [Runs](#runs): what TLC checks, with which bounds
- [Fairness](#fairness)
- [Proofs](#proofs): what holds for all constants, and why
- [Where the code and its documents disagree](#where-the-code-and-its-documents-disagree)
- [Plan](#plan) and [what is not modelled](#not-modelled)

Run a configuration with `tlc -config TaskLifecycle.cfg MCTaskRepository`, a proof
module with `tlapm TaskRepositoryProofs.tla`.

## The system

A task manager with two backends. The Node backend owns tasks (MongoDB) and their
synchronisation with Google Calendar; the Python backend owns a knowledge index
(MongoDB and Qdrant), a job queue and an audit ledger (SQLite), confirmed memory, grounded
answers and a local classifier, with the governance that decides which of its AI phases
may be seen by users. n8n workflows poll and call both; web, mobile and MCP clients use
the task API.

| component | state | operations | interacts by |
|---|---|---|---|
| Task API (`backend-node/src/repositories`, `application/tasks`) | task documents with revision, lifecycle state, schedule, delegation, operation id, tombstones | create (keyed or not), update, schedule, delegate, answer, lifecycle move, final delete | HTTP with `If-Match`; enqueues calendar events in the same transaction |
| Calendar mutations (`application/calendar.ts`) | bindings, conflicts, mutation receipts | apply an inbound event, resolve a conflict or a provider deletion | writes task documents, reads bindings; called by n8n and the web client |
| Calendar outbox (`calendarInternal.ts`, `googleCalendar.ts`) | outbox rows with lease and attempts, sync state | claim, acknowledge, fail, deliver, list changes | n8n polls every 15 s; Google over HTTP |
| Google OAuth (`googleOAuth.ts`) | grants, one-time states, connections | begin, callback, refresh, disconnect | browser redirects, Google |
| Job queue and worker (`backend-ai/app/jobs.py`, `job_worker.py`) | job rows, terminal receipts; lease and attempts per row | enqueue, claim, renew, complete, fail, compact | SQLite transactions; webhooks enqueue, worker processes drain |
| RAG ingestion (`app/rag`) | canonical documents with sequence and `projection_pending`; chunks in Qdrant | ingest, tombstone, reindex, reconcile | handlers of the `rag.*` jobs |
| RAG migration and cutover (`rag/migration.py`, `llamaindex_*_runtime.py`, `verify_qdrant_recovery.py`) | the alias, the candidate collection, rehearsal collections | backfill, cut over, roll back, rehearse a restore | operator commands, audited |
| Retrieval (`rag/hybrid.py`, `canonical.py`) | none of its own; reads both stores | dense and lexical candidates, fusion, reranking, abstention | HTTP `/v2/knowledge`, generation |
| Generation (`rag/adapters.py`, `response_runtime.py`, `generation/`) | a circuit breaker per process | gates, prompt, private runtime, validation, fallback | private runtime over HTTP |
| Document extraction (`app/document_extraction`) | a reused child process with cached converters | inspect, authorize, parse, ingest | files, the frozen manifest, ingestion |
| Confirmed memory (`app/memory`) | records, idempotency receipts, audit, projection | confirm, supersede, revoke, delete, search, reconcile | HTTP; an index that only proposes candidates |
| Webhooks and dispatch (`webhooks.py`, `http/internal.py`) | reserved event ids | verify, enqueue, reserve, clean up, dispatch | connectors, n8n, the job queue |
| Audit ledger (`audit.py`) | hash-chained rows, base and head | record, verify, prune | every sensitive operation |
| MCP adapter, HTTP boundary (`mcp/eisenhower_adapter`, `api_boundary.py`, `http/middleware.py`) | cached signing keys, cached exchanged tokens | verify, exchange, call, audit | identity provider, task API |
| Local classifier (`local_model.py`, `service.py`, `store.py`) | generations, the pointer, the model in memory, the training store | train, promote, load, refresh, predict | threads and processes over one directory |
| Promotion (`ops/promotion.py`, `ops/response_canary.py`) | rollout pointer, history files | transition, roll back, route a request | operators; approvals signed by the owner |
| Artifact registry (`artifacts/`, `ops/candidates.py`) | blobs, manifests, on disk or S3 | register, deliver, publish a commitment | candidate workflows |
| Evidence (`evaluation.py`, `human_review.py`, `holdout_owner_acceptance.py`, `knowledge_answer_holdout.py`, `private_rag_activation.py` and their scripts) | label files, reviews, receipts, reports, frozen sets | measure, finalize, freeze, review, run a holdout, approve, build a receipt | people who edit files; promotion and activation read the results |
| Mobile client (`mobile/eisenhower-matrix/src`) | cached tasks with sync state and one pending intent | edit offline, retry, reconcile, resolve conflicts | task API |
| Web client, platform, CI impact, benchmarks | caches or none | | task API, AI API |

What is hard in it:

- **Interleaving at awaits.** Handlers read, decide and write in separate database calls.
  What ties them together is the revision in the filter of the last call; some writes run
  in a transaction the driver retries.
- **Two stores for one fact.** Canonical documents and memories are in MongoDB, their
  points in Qdrant; a task and the event it owes are one transaction, delivery is not; a
  frozen set and its approval are two files; an effect and its audit are three writes.
- **At-least-once everything.** Clients retry, n8n redelivers, connectors resend, leases
  run out while a handler still runs, processes restart under their old worker id.
- **Commands out of order.** Sequences, revisions, etags and generations decide which of
  two is newer; an outdated worker or a late answer must not undo a newer one's work.
- **Files read one by one.** The governance tools digest files that people edit, decide,
  and read them again; a death between two writes leaves one of a pair.
- **Limits.** Attempts, capacity, compaction, retention windows, budgets, caches, expiry.

What makes each component correct is the comment above its property; in short: a ledger
of legal steps (tasks, jobs, memories); an index behind its store; a settled thing whole;
an effect done once, in the name of somebody who may, with its audit; what users see
approved, current and grounded; what is accepted witnessed by what was examined.

## Modules

| module | role |
|---|---|
| `TaskDomain` | documents, lifecycle moves, delegation answers: data shared by the next two |
| `TaskLedger` | abstract: a ledger of documents that change in atomic, legal steps |
| `TaskRepository` | the handlers of the task API, call by call; implements `TaskLedger` |
| `CalendarSync` | one task and its Google event: outbox, executions, inbound changes, decisions |
| `JobLedger` | abstract: a key stands for one request with one outcome |
| `JobQueue` | queue, workers, renewal threads, crashes; implements `JobLedger` |
| `RagProjection` | canonical store, Qdrant and the handlers between them, call by call |
| `MemoryRegister` | abstract: a register in which at most one memory of a subject is active |
| `MemoryRepository` | confirmed memory, store call by store call; implements `MemoryRegister` |
| `Intake`, `AuditTrail`, `Gateway` | webhooks; the hash chain; MCP calls and HTTP requests |
| `Extraction`, `Retrieval`, `Generation` | documents in, answers out |
| `Cutover`, `Recovery` | the switch of the index; the rehearsal of its recovery |
| `LocalModel` | generations of the classifier, over threads and processes |
| `Promotion`, `ArtifactRegistry` | the rollout pointer; the registry and its workflows |
| `Evidence`, `Review`, `Holdout`, `Activation` | the chains of evidence |
| `Answers`, `Evaluation` | put together retrieval and generation, and the four chains of evidence |
| `MobileSync` | the mobile client's list, its commands and its reconciliation |
| `RecentlyUsed` | caches of a limited number of entries, for `Extraction` and `Gateway` |
| `MCPlatform` | composes the components from `Intake` to `MobileSync` into one run |
| other `MC*` | small instances for TLC |
| `*Proofs` | theorems, checked by TLAPS |

The abstract modules are specifications, not translations. `JobQueue` and `RagProjection`
meet at the set of open jobs: `JobQueue` shows that one job may be run by two workers and
again after every failure, and `RagProjection` assumes no more (`Begin` takes any open
job). `Intake` uses the queue as what `JobQueue` shows it to be, a ledger that binds a key
to one payload. `TaskRepository` has the calendar's writes among its steps because they
race the API's; `CalendarSync` has the API's edits among its steps because they race the
delivery.

### TaskRepository

`docs` is the `tasks` collection, `bound` the calendar bindings as far as the repository
looks at them, `connected` whether an active calendar connection exists, `outbox` the
`eventId`s it enqueues. A request is a record in `pending`, `deleting` or `creating`
between its first and its last database call. `TransitionLifecycle` and
`TransitionDelegation` read first: the step computes the new value from the document as
it is read, and `Commit` writes it if the revision still matches. `update`,
`updateSchedule` and `updateDelegation` have no read before their conditional call; their
step is the arrival of the request. `Commit` is the whole transaction, task and event;
`Abort` is an attempt that was rolled back to be retried, which leaves the handler's
`stored` variable set; `Miss` is the filter that finds nothing. `delete` is two steps
because the code makes two calls; a keyed create is an upsert and a read. A payload
stands for title, description, matrix position and the like (all written by one filter).
The README of the repository (line 230) accepts legacy requests without `If-Match`; the
controller answers 428 (`task-command.controller.ts:21`), and so does the model.

### CalendarSync

One task, because every document here is of one task. `task` is the API's side, `outbox`
the events it owes, `execs[x]` an execution of the outbound workflow between lease,
Google's reply and acknowledgement; `google` the event at the provider with its etag;
`pulled` the changes on their way back, which are applied late, in any order, twice. A
text stands for title and schedule and is new with every edit, so that "overwritten
unseen" can be said of it (`seen` is a history variable). Google writes conditionally on
the etag and never frees an event id; a conflict or a deletion by the provider waits for
the user's decision, which is any of the code's strategies.

### JobQueue

`jobs[k]` and `receipts[k]` are the rows with idempotency key `k` in the two tables,
`workers[w]` is where the process with worker id `w` is in `run_once`, `answered` what
callers were told. Each method of `SqliteJobQueue` is one SQLite transaction and one
step. `available_at` and `lease_expires_at` become one bit, `due`. The worker id is host
name and process id, so a restarted container has its old one (`Restart`). `Stall` is a
process that is not scheduled for longer than its lease, `RenewalFails` the renewal
thread's exception, which is not seen until the handler ends. Heartbeats and metrics are
left out; an enqueue that conflicts or finds the queue full changes nothing.

### RagProjection

One document, because every selector of the two stores names one: `canon` is its row in MongoDB,
`nodes[c]` the point of chunk `c` in Qdrant, its `source_sequence` and payload. A content is a
text, a `content_version` and a title, which stands for all that a chunk's payload carries
besides (ACL, source). The checksum is of the text alone, so `SameChecksum` compares that; a
chunk id is of version, text and position, not of the sequence, so two revisions may share their
chunks. A worker's `at` is the next store call of its handler; `Add` is one batch of points,
`Outage` the exception that becomes `ProjectionUnavailable`, `Die` a killed process, `Finish`
what handler and worker make of the result. `late` is a history variable.

### MemoryRepository

`prepare` signs a consent receipt; `confirm` verifies it, reads the record and the active
memory of its conflict key, decides (`Decided`), writes in one transaction with the
idempotency receipt and then reconciles the whole index, memory by memory, from a list it
read at the start; `search` asks the index and revalidates every candidate. Each store
call is a step and fails or loses its reply at will; clients repeat requests under their
keys; MongoDB drops expired records in its own time. The constant `Exact` says whether
the clock shows whole milliseconds: MongoDB keeps no more, and the fingerprint covers
microseconds. `memory_lifecycle` takes the clocks of the tests (`TRUE`),
`replays_return_the_result` those of production (`FALSE`). Reads are time-zone aware
(`rag/bootstrap.py:42`).

### The components of MCPlatform

They share no state, so the run is their sum: `focus` names the one that moves. Its view
shows the component in focus only: the others keep their one initial state, so no two
reachable states have the same view.

- **Promotion.** `pointer` is `current.json`, `history` the files beside it, `op` the
  command that has the lock, between the steps in which it may die. Reports and approvals
  are sets of what the gates tell apart. `Allowed` is the response router.
- **ArtifactRegistry.** Blobs and manifests on a file system (created exclusively, then
  written, so a death leaves a torn file) or S3; three workflows that overlap; a blob is
  its checksum.
- **Cutover.** `alias` and the collections behind it, `commands[o]` an operator's command
  between audit, look at the alias, switch, its read-back, the success row, the row's
  read-back and the two steps of the compensation; every call fails, before or after its
  effect, and commands of several operators overlap, since nothing keeps them apart.
  `reported`, `doubtful`, `certain` are history variables. **Recovery.** `room` is the
  rehearsal with its snapshot and cleanup. `Failures` bounds failed calls and deaths.
- **Intake.** Messages on the wire are repeated; a request is in `intake` between
  verification, enqueue and reservation, where it may die; hours pass and replay records
  expire in batches. Signature arithmetic is a set of flaws a message may have.
- **AuditTrail.** `rows` between the base and the head in `meta`; a recorder has its
  timestamp before it has the lock. A hash is what it covers.
- **Extraction.** `files[s]` is a content by the traits the checks tell apart, replaced by
  its author at any step; `child` the parser process with the answers in its pipe and the
  converters it caches. `Inspect`, `Authorize`, `Receive` open the file anew.
- **Retrieval.** `query` between dense candidates, their canonical checks one document at
  a time, the lexical enumeration and the ranking; scores are any order; documents are
  replaced, projected and deleted between. `current` is a history variable: what was
  canonical and visible at some moment of the question.
- **Generation.** Requests `asker[a]` share a circuit breaker; the runtime replies
  anything a runtime may, and what `OutputRefused` refuses becomes the fallback. A
  claim is the text it states; budgets count chunks.
- **Gateway.** A tool call with its attempt, exchange, effect and outcome; a request of
  the AI backend behind a boundary that gives up; keys rotate, tokens are cached.
- **LocalModel.** Threads of several processes; a training holds the lock of its process
  and of the file system; a loader reads the pointer anew for each file; head, temperature
  and index are assigned in turn. A generation stands for its weights; the gate that let
  it pass is recorded with it, and of the ways to evaluate the ones with a gate are
  instantiated (`owner`, `draft`, `approved`). A deployment has its `APP_ENV` (`production`)
  and its `LOCAL_MODEL_EVALUATION_PROFILE` (`profile`) apart, as `config.py` does.
- **Evidence.** Two passes of labels, the agreement report, the adjudication, the
  candidate and the frozen set with its manifest: tools that read and create files one by
  one. Days are what people write down, not a clock.
- **Review.** The packet, the manifest of the corpus, the reviewer's file and the frozen
  pair, with the finalizer's link calls and its cleanup. One finalizer at a time.
- **Holdout.** Validation, digest of the receipt, use marker, evaluation, quality gate, second
  validation, report: each reads the receipt or the files anew. The owner replaces the
  receipt at any moment, and a file gets a content it had before.
- **Activation.** The answer holdout with its report, the approval, the receipt and its
  public commitment. A policy is its thresholds (`AnswerShare`), and the files may come to hold
  another one; a report names the policy it was gated by. Corpus manifest and snapshot are
  one version; rounding of the rates to four digits is left out.
- **MobileSync.** `tasks` is `tasksRef.current`, which the storage follows; `handlers[n]` is
  where the handler of the user's n-th command is: it has read its entry (a toggle the
  whole list) and waits for the reminder or the server. `flight` is the one
  reconciliation, from its snapshot of the list over the calls it makes to the list it
  puts in place; `placing` is that list at the start of the app, which is over the single
  flight when it still waits for `fetchAICapabilities`, while handlers, resolutions and
  another flight run. `remote` is the task at the server, which answers as `TaskRepository`
  does; requests and replies are lost, the app restarts and leaves requests on the wire
  (`stray`), and another client writes. `latest`, `shown`, `copies`, `blind` and `settled` are
  history variables. One task of the list; its reminder is only the wait it causes.

## Runs

| run | instance | question |
|---|---|---|
| `task_lifecycle` | 1 task, 1 key, 1 user, 1 schedule, revisions to 2, 2 requests in flight, transaction retries | do checks made before an await hold at the write; is every change a ledger step; is deletion final; can an `eventId` collide |
| `task_creates` | 2 tasks, 1 key, revisions to 2, 2 in flight | does a key create one task ever, and is a create always answered |
| `queue` | 2 keys for 1 place, 2 requests, 2 workers, 2 attempts, 2 disruptions | one request and one outcome per key; the latest claim decides; is every accepted job resolved |
| `rag_projection` | 2 workers, 5 commands repeated at will, 2 batches, 1 fault | does the index stay behind the store; is a settled document whole; what does completion mean |
| `memory_lifecycle` | 2 requests at a time, 2 memories of one topic, 3 keys, expiry | is it a register; does what was withdrawn come back or get served; is the index exact after a quiet reconciliation |
| `calendar_sync` | 2 executions, 2 edits, 2 events, 2 attempts, 1 disruption | is an edit at Google overwritten unseen; does the binding lie; does an old lease deliver; does every event end |
| `platform` | each of sixteen components, as `Platform.cfg` says | the questions of their properties, `PointerIsSound` to `MobileIsSound`, component by component |
| `stale_is_refused`, `tombstones_stay_redacted`, `attempts_are_capped`, `replays_return_the_result`, `edits_are_kept` | as small | a statement of the documents or tests that the code does not keep (below) |

Why the bounds are enough to be interesting. Two requests in flight are a racing pair at
every await; with two revisions a move is read, overtaken and retried (`stale_is_refused`
and `tombstones_stay_redacted`, where a task has to be created, bound, trashed, deleted and
written, have three and four). Two task identities are what it takes to create one key
twice. One place for two keys fills the queue; two attempts reach the retry and the dead
letter. Five commands in `rag_projection` are two revisions, a tombstone between them, a
reindex that sends the first content under the second's sequence, and an upsert that sends
the second text under it with another title: a stale, a duplicate, a conflicting and an
accepted stage each occur, and a duplicate that is not the same document. One fault at any
moment is the upload that stops between two batches or the worker that dies; the theorems
are for any number. In `memory_lifecycle` the four intents are a
memory that expires, its rival and successor on the same topic, and the withdrawal of
either. In `calendar_sync` two edits on either side make the echo, the conflict and the
overtaken delivery; one disruption is the lost reply or the stalled execution between.

In `platform`: five revisions of the pointer reach full exposure and a rollback; three workflows
share a candidate id and blobs; three hours over a retention of two expire a reservation while
its message is still repeated; three audit rows are a chain with a base, a middle and a head;
one rewrite hits each of the three openings of a file; three questions with a threshold of two
open, probe and close the circuit; one cached key, one cached token and two tokens evict and
outlive; four answerable cases and a least share of a half let one or two fail in a green
report, as nine tenths of the twelve real ones do; two generations, three threads in two
processes and one death let a loader meet a promotion; three examples with two passes agree,
disagree and are adjudicated; two edits touch a file before and after it was read, or once each
way; two policies make a report of the one meet the files of the other; two runners and two
receipts, the second written at any moment, race for one use; two operators overlap, and two
failures are a read-back that fails and an undo that fails too. In the mobile client two
commands are an addition or an edit and what overtakes it; two mishaps (`MaxMishaps`: a lost
message, another client's write, a restart, a command while something is in progress) are a lost
reply and the restart that repeats it, or a conflict and the command that races its
reconciliation; `MaxTogether` leaves out only two commands with two mishaps in one behaviour.

The proofs remove the bounds for the safety of every module; liveness is checked on the
instances only. The deadlock check is off where the bounds use up
what people and faults may do and nothing is left open; `JobsAreResolved` and
`EventsAreResolved` are what says that a stop is not a hang. In `task_lifecycle`,
`task_creates` and `queue` it is on. Symmetry is used for safety only, where no definition
singles out a value.

`PROJECT.json` pairs each property with a mutant: a definition with a plausible bug (a
dropped filter, a missing comparison, a swapped order) that makes TLC find the property
violated on the same instance. They stand next to the definitions they mutate, marked
"Mutant".

## Fairness

`JobQueue` (`FairSpec`): weak fairness of each worker's `run_once` and restart, and of each
row's clock. The worker loop polls for ever (`worker_runtime.py:104-113`) and handlers
return (their I/O has timeouts); the compose file restarts the container (`restart:
unless-stopped`, `compose.yaml:4`); time passes. Without a bound on crashes nothing could
be promised, since attempts are not capped across crashes (see `AttemptsAreCapped`), so
`Disruptions` bounds crashes, stalls and failed renewals per behaviour. Enqueueing and
compaction are not fair.

`CalendarSync` (`FairSpec`): weak fairness of each execution's next call, because n8n's
schedule trigger fires every 15 seconds and an execution that vanishes is followed by
another, and of each lease's expiry. Edits, Google's changes, decisions and disruptions are
not fair. Deliveries end in success or in the dead letter after `MAX_OUTBOX_ATTEMPTS`.

The other modules state safety only.

## Proofs

Eight proof modules, all leaves checked by TLAPS (SMT, Zenon, and LS4 for the temporal
steps). They assume the constants' `ASSUME`s: any sets of tasks, keys, requests, workers,
contents, commands, files and threads, any bounds on clocks, edits and faults. What is
counted is finite (keys of the queue; askers and hits, because a prompt has a budget;
cases of the answer holdout, because rates are taken of them), the limits are positive,
every thread of the classifier has a process, and no thread is called as the mark of a free
lock. Four theorems, of confirmed memory, have one hypothesis more, which the code
does not ensure and their statements name:

- `IdsAreFresh`: no two intents bring one memory id to life. The web
  client makes up a random id for every memory (`MemoryControls.tsx:19`), the API takes what
  it is given. Without it a memory that was dropped after its expiry is created anew under
  its id, and a late repetition of the old request finds it; TLC shows as much when the
  intents of an instance share an id. `TypeOK` and `SynchronizedIsExact` do without.

**TaskRepositoryProofs.** Inductive: `TypeOK`, an unborn task has no history
(`BlankUntilBorn`), `OneTaskPerOperation`, `InFlightConsistent`, `CreatesHoldTheirKey`
(a create in flight has its key's document) and `EventsAreOfThePast`. The argument has
three parts: with its checks still true, every step is a step of the ledger; a ledger step
gives a live document that changes a new revision; so a document at the revision a request
read *is* the document it read, and its checks stay true. `InFlightConsistent` is needed
in the induction exactly there. Proved: `TypeOK`, `InFlightConsistent`,
`OneTaskPerOperation`, `CreatesAreAnswered`, `EventsAreOfThePast`, `DeletionIsFinal`, and
`LedgerSpec`, the refinement of `TaskLedger`.

**JobQueueProofs.** Inductive: `TypeOK`, `AnswersAreDurable`, rows have requests, claims
belong to busy workers, `LeaseIdentifiesClaim` and `LeasesAreRenewed`. The point is
`LeaseIdentifiesClaim`: `complete` and `fail` are conditioned on status and worker id only,
and still never act for an older claim, because a worker id has one claim at a time and a
restart forgets it. Proved: `TypeOK`, `AnswersAreDurable`, `OneHandlerUndisturbed`,
`LatestClaimDecides`, a bound on open jobs, and `LedgerSpec`, the refinement of `JobLedger`.

**RagProjectionProofs.** The invariant speaks of one worker at a time: `Sound(r, doc, n, l)`
says what the call a worker is at may assume, in terms of the canonical document, the
chunks and the history alone. Its core is that a document in hand is the canonical one or
has a lower sequence; hence it cannot upload above the canonical sequence and cannot
remove at it. `Undisturbed` shows that a step of one worker keeps the others sound, if
it leaves the canonical document and its chunks alone or accepts a newer document; each
call then only has to be checked for the worker that makes it. `CompletedIsStored` is about
the text: a duplicate is told by the checksum (below). Proved: `TypeOK`,
`CanonicalBeforeVector`, `SettledIsWhole`, `CompletedIsStored`, `RefusalIsExplained`.

**MemoryRepositoryProofs.** Two invariants. `Plain` needs no hypothesis: records are well
formed, and a reconciliation nobody disturbed has put in order what is not on its list any
more, hence `SynchronizedIsExact`. `IInv` adds that a function `root` takes every memory to
the created memory it descends from, by the supersessions that were confirmed; a memory
has the topic and the expiry of its root in the store and in the hands of every request.
What was withdrawn is stored in another stage, and the lifecycle keeps it there, or was
dropped because its root had expired, and then whatever a late request writes anew has
expired too. Proved: `TypeOK`, `SynchronizedIsExact`, `WithdrawnStaysWithdrawn`,
`RecordsAreWhole`, `SearchServesTheLiving`, and `RegisterSpec`, the refinement of
`MemoryRegister`.

**SyncProofs.** What is kept in step with another system: the calendar and the phone.
- *CalendarSync*: every version of Google's event has an etag of its own and the task never
  returns to a revision. So what is applied, acknowledged or decided late speaks of a
  version that is gone and says nothing, or of the current one and has its text; `Knows`
  says this of a pair of etag and text, and the invariant says it of the binding, of every
  execution, change and conflict. Proved: `TypeOK`, `BindingIsTruthful`,
  `GoogleEditsSurvive`, `LatestLeaseDelivers`.
- *MobileSync*: the invariant, `MobileInv`, has three parts. `PartsInv` says of everything
  that holds entries or commands (the list, every handler, the flight's snapshot, list and
  queue, every stray request) that its entries are of one identity each and fit their
  state, and that every revision a command will be sent with was shown on the phone; an
  addition has one operation id, so the copies at the server are the creations it has
  recorded. `LatestInv` follows the last command: unless its handler is at work, exactly one
  entry of the list has it and all others are synchronised, and a flight has it in its
  snapshot, its queue, its follow-up or the list it will put in place; so has the list that
  the start of the app has yet to place (`StartKept`). `LatestIsKept` is
  not inductive without that: the flight, and the start, replace the list. `SettleInv` says of a flight
  nothing has disturbed since it began that what it has resolved agrees with the server, or
  is an addition the server refuses. Proved: the type (`MobileTypeSafe`) and
  `MobileIsSound` (`MobileSound`), that is `OneTaskPerAddition`, `NothingUnseenIsReplaced`,
  `LatestIsKept` and `FlightsSettle`.

**BackendProofs.** Ten parts without shared state, and lemmas on the caches of
`RecentlyUsed`; `AnswersSupported` joins two of them in `AnswersAreSupported`.
- *Intake*: what was accepted is reserved, or was accepted longer than a retention ago; a
  message older than the window is refused, and the window is shorter. Proved: `IntakeIsSound`.
- *Cutover* and *Recovery*: as long as `certain`, a command that runs is the only one, and
  where it stands, the alias stands; the ledger's last success is the reported one or was
  committed by a command that failed. What was purged stays out of the rehearsal's
  collections. Proved: the types, `AuditedIsActive`, `RollbackForgets`, `SwitchIsSound`,
  without a hypothesis on the operators.
- *Promotion*: the lineage of the pointer is a sequence of revisions, each naming the one
  before, and all but the last are in the history, whatever a rollback left there; every
  pointer keeps dependencies, percentages and approvals. Proved: `PointerIsSound`.
- *ArtifactRegistry*: blobs and manifests are only ever completed, so what a run has seen
  whole stays whole until it publishes. Proved: `RegistryIsSound`.
- *AuditTrail*: what is recorded continues the chain; what is pruned is a prefix, and the
  base takes its last hash. Proved: `TrailIsWhole`.
- *Generation*: failures and calls under way together are no more than the questions asked;
  what may yet be shown passed the gates, with a context that keeps the budgets. Proved:
  `AnswersAreGrounded`.
- *Retrieval*: points are of versions the document has had, and candidates that met their
  document are of the newest; a question has seen what is current now, and what it holds
  was current since it was asked. Proved: `HitsWereCurrent`.
- *Gateway*: the rows of a request follow its steps; who is about to hear "ok" has what was
  asked for; a cached credential is of the token it is cached for, and a key that retired
  is in the key set for one lifetime at most. Proved: `EffectsAreAccounted`.
- *Extraction*: a request and an answer in the pipe are those of the job, never an earlier
  one's, because a child that was given up is killed with its pipe; a converter performs the
  OCR it is looked up by. Proved: `IngestsWhatWasApproved`.

**ServingProofs.** Five parts; `EvaluationSound` joins the first four in `EvaluationIsWitnessed`.
- *Review*: an approval carries its review, every decision of which is valid for the files it
  binds; from its verification on, the finalizer holds such a pair, and a data set without
  an approval lies only where the finalizer put it or died. Proved: `ReviewIsSound`.
- *Evidence*: every file a tool has read or written is sound by itself (`ReportSound`,
  `WitnessSound`): it carries what it was made from. Files are created exclusively, so
  two tools never fill one. Proved: `EvidenceIsSound`.
- *Activation*: with the rounding left out, a share that reaches one is the whole set
  (`AllOfIt`), so a green report has no failed case where the policy it was gated by lets
  none fail; what a process has
  digested stands, because reports and receipts are written once. Proved:
  `ActivationIsBound`.
- *Holdout*: from the marker to the report the runs of two runners are under two receipts,
  whichever is in force. Of a runner whose receipt was not replaced since it began, the
  files are those of the receipt but for changes that are counted; a file that was evaluated
  with another content and is back at the second validation has changed twice. Proved:
  `HoldoutIsSound`.
- *LocalModel*: the invariant speaks of a process, of a thread's call and of two calls of
  one process. A process assigns its generation last but for the index, so who has the
  pointer's generation has its head and temperature, and at rest its index; a load reads a
  generation that was the pointer, its process still has an older one, and every
  prediction of the process has seen it; a training holds both locks and publishes above the
  pointer. Proved: `ServedModelIsSound`.

**PlatformProofs.** The components of the AI backend and the phone that `MCPlatform` runs
side by side share no state: a step of the platform is a step of the component in focus and
leaves the variables of the others alone (`PlatformComposes`). So every theorem of a
component holds in the run; `PlatformTyped` is what that says of `PlatformTypeOK`.

Only model-checked: liveness (`JobsAreResolved`, `EventsAreResolved`), which is beyond the
prover, as are `ENABLED`, induction over data and `RECURSIVE` operators. Every invariant and
every action property that a passing run checks is also a theorem.

`SettledIsWhole` has a condition, `~ late`: once a worker has uploaded chunks of a revision
after its successor was staged, shared chunk ids let it overwrite the successor's and
prune others, until a reconciliation. The corpus contract (line 89) relies on a
single-consumer worker here; the queue does not enforce one, and a lost lease makes two.

## Where the code and its documents disagree

Shown by a run:

- **A stale write may be answered as done** (`StaleIsRefused`). A transaction attempt
  fills in `stored`, is rolled back, and its retry finds the revision superseded: the
  handler returns the rolled-back attempt's document.
- **A tombstone can be written into** (`TombstonesStayRedacted`). The calendar code finds
  tasks without the `deletedAt` filter and the binding of a deleted task stays.
- **Attempts are not capped across crashes** (`AttemptsAreCapped`): an expired lease is
  claimed again whatever the attempts.
- **A repeated memory mutation is refused** (`ReplaysReturnTheResult`): its fingerprint
  covers microseconds, the store keeps milliseconds.
- **An echo may replace a newer edit** (`EditsAreKept`): a change with the binding's etag
  counts as no change of the provider and is assigned to the task all the same.

Met while modelling; the models do what the code does:

- *Mobile* (`useTaskSyncController.js`, `taskSync.js`). A task has one pending intent, so a
  second offline command of another kind replaces the first; a lifecycle move of a task that was
  never sent is dropped, because only a schedule or a delegation follows a create. What the user
  does during a flight is overwritten by the flight's list, unless its handler is answered
  later; a toggle and a delete are not persisted before their reply. A payload that is edited
  after the reply to its create was lost is refused with 409 (410 once the task is deleted) on
  every retry. The write that follows a repeated create takes the revision of the reply, which
  may be another client's. At the start of the app the flight is over before its list is placed:
  what is given, resolved or synchronised until `fetchAICapabilities` has settled is overwritten
  by that list (`useTaskSyncController.js:146-194`); only the storage keeps it, until the next
  save. A failed start puts the list it had loaded back over what was done since; the conflict
  of a toggle does so with the list of the toggle's beginning. `LatestIsKept` therefore follows
  a command only if it is given while nothing is in progress, no start of the app with a list to
  place either, and is saved before something begins.
- *Tasks.* A lifecycle move of a task without a date still emits a calendar event: moves
  look at the state and the binding, not at the schedule (`mongooseTaskRepository.ts:230`).
- *RAG.* A command whose sequence and text are stored completes as a duplicate, although its
  version, title or ACL differ and are not stored (`mongo_document_store.py:116`; the checksum
  is of the text, `models.py:179-186`); so does a tombstone under the sequence of an empty
  document, or the other way round. When the upload succeeded and the removal of older chunks
  did not, every retry takes the revision for projected: the drift is reported and never
  repaired.
- *Cutover.* Nothing keeps two commands apart, and the compensation compares the alias with
  its own target, so of two operators it also undoes the other's audited switch. When the
  success row is committed and its read-back fails (`audit.py:214-221`), the command fails
  and undoes its switch (`migration.py:143-145`): the ledger ends with a success and no
  error, and the alias is where it was. *Audit.* The timestamp is taken before the
  lock, so `prune_before` can remove younger rows and more than its limit.
- *Retrieval.* A hybrid answer may mix two content versions of one document. A change of
  the title alone between the two enumerations makes an `InvalidCandidateSet` error.
  `ProjectionUnavailable` is not caught by the analysis service.
- *Generation.* The probe of the half-open circuit is cleared by success or
  `GenerationProviderError` only (`rag/adapters.py:418-431`); a prompt over its budget
  leaves it set and every later call is refused until a restart. The design
  (`docs/superpowers/specs/2026-08-19-task-065-private-rag-oidc-design.md:94-97`) does not
  expect it, `tests/test_rag_adapters.py:381` covers the closed state.
- *Gateway.* When the outcome cannot be audited the caller is told 503 although the
  effect happened.
- *Classifier.* A blank task title raises a `ValueError` that is remembered as a start-up
  error and disables the classifier until the next training or restart. Training on a store
  whose clean records are empty sets `ready` to false though the incumbent is intact. A
  retraining reads the store before it takes the lock and compares with the incumbent in
  its memory, which may be stale. Predictions may combine head, temperature and index of
  two generations. A production process that trained serves a generation whose pointer is
  not the approved one.
- *Evidence.* A failed agreement can be measured again after an edit, as often as one
  likes. A death between candidate and manifest, or inside a write, blocks those names.
- *Review.* Of two finalizers one may adopt the other's data set and link the approval
  before the other fails and takes the data set back; a directory sync that fails after
  the approval was linked does the same alone. Retries are then refused.
- *Holdout.* The second validation takes the receipt and the files of its moment and does not
  compare the receipt with the digest that the report names
  (`holdout_owner_acceptance.py:221-236`): a receipt that is replaced during a run leaves a
  report under one that may not bind what was evaluated, and a file that was edited and
  edited back is not noticed.
- *Activation.* The builder compares digests and does not look whether the reports are
  green, which `docs/ai-rebuild/corpus-owner-decision-packet.md:170-173` asks for;
  `deploy/generic/verify-private-rag.sh` does not look at `valid_until`; an approval is not
  single-use; date, commit and cleanliness are what the caller says.

## Plan

Done: the modules above, the refinements of three abstract specifications, and the proofs of
the safety of all components. Next, the most important first:

1. `MobileSync`: the delegated tasks' list and the imported tasks, and the server's side as an
   instance of `TaskLedger`.
2. OAuth state and disconnect; the provider switches of the AI service.

The hazards in `PROJECT.json` with a note and no property are the work list.

## Not modelled

- *Numbers and words*: embeddings, scores, learning, confidence and the wording of prompts;
  where a decision is made on them the model takes any outcome.
- *Google OAuth*: token exchange with a server outside; whether the connection is active is
  a variable of `TaskRepository`. The one-off import of existing Google events creates
  tasks as `TaskRepository` does.
- *Web client*, apart from what `TaskRepository` checks of its requests; of the *mobile client* its
  screens, reminders, list of delegated tasks, scans, and the merging of several tasks by title.
- *MCP adapter*: read-only tools and the rate limiter. *Classifier*: the similar examples
  beside an answer, the provider switches (`provider_state.py` reads, changes and writes a
  file without a lock, so two changes at a time may lose one).
- *CI impact* (`app/ci_impact`): offline analysis by one process at a time; without a
  verifier of approvals every path ends in the full CI (`ci_impact/promotion.py:85`).
- *Benchmarks, calibrations, verification scripts*: sequential clients that assert what
  they see. *Object storage* is used by tests only. *Inference lifecycle, metrics,
  configuration, deployment, corpora*: no decision of theirs has more than one step.
- Scopes (tenant, owner) are one value wherever every filter has them; `Gateway` and
  `Retrieval` model them where they are decided on.
