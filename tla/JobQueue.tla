------------------------------ MODULE JobQueue ------------------------------
(***************************************************************************)
(* The durable job queue of the AI service (SqliteJobQueue) and the worker *)
(* processes that drain it (JobWorker.run_once in worker_runtime.main).    *)
(*                                                                         *)
(* Every method of the queue is one SQLite transaction and one step here.  *)
(* Between two of them a worker runs its handler, its renewal thread       *)
(* extends the lease, other workers claim, and processes die; a restarted  *)
(* process has its old worker id again (host name and pid).                *)
(*                                                                         *)
(* Time is abstracted to one bit per job: `due` says that available_at (of *)
(* a queued job) or lease_expires_at (of a running one) has passed.        *)
(***************************************************************************)
EXTENDS Naturals, FiniteSets

CONSTANTS
    Keys,        \* idempotency keys
    Requests,    \* distinguishable commands: job type and canonical payload
    Workers,     \* worker ids
    MaxQueued,   \* max_queued_jobs
    MaxAttempts, \* max_attempts of the worker
    Disruptions, \* bound: crashes, stalls and failed renewals in a behaviour
    None         \* an absent value

ASSUME QueueConstants ==
    /\ MaxQueued \in Nat \ {0}
    /\ MaxAttempts \in Nat \ {0}
    /\ Disruptions \in Nat
    /\ None \notin Requests \cup Workers \cup Keys

ASSUME FinitelyManyKeys == IsFiniteSet(Keys)

\* None is no receipt and no entry of the ledger.
ASSUME NoneIsNoRecord ==
    /\ None \notin [request : Requests, status : {"completed", "dead_letter"}]
    /\ None \notin [request : Requests, outcome : {"open", "completed", "dead_letter"}]

VARIABLES
    jobs,     \* jobs[k]: the row of table jobs with idempotency key k
    receipts, \* receipts[k]: its row of job_terminal_receipts, or None
    workers,  \* workers[w]: where worker process w is in run_once
    answered, \* the <<key, request>> pairs the API has answered with a job
    spared    \* disruptions still to come

vars == <<jobs, receipts, workers, answered, spared>>

-----------------------------------------------------------------------------
(* Types.                                                                  *)

TerminalStatuses == {"completed", "dead_letter"}

Job ==
    [status   : {"absent", "queued", "running"} \cup TerminalStatuses,
     request  : Requests \cup {None},
     attempts : Nat,
     worker   : Workers \cup {None},
     due      : BOOLEAN,
     created  : Nat]   \* created_at, as a rank

Receipt == [request : Requests, status : TerminalStatuses]

\* "handling": in the handler, with the renewal thread running. Then how the
\* handler ended: it returned, it raised, or it raised PermanentJobError.
Worker ==
    [phase   : {"idle", "handling", "succeeded", "raised", "rejected", "down"},
     key     : Keys \cup {None},
     attempt : Nat,        \* job.attempts of the claimed row
     lost    : BOOLEAN]    \* the renewal thread ended with an error

TypeOK ==
    /\ jobs \in [Keys -> Job]
    /\ receipts \in [Keys -> Receipt \cup {None}]
    /\ workers \in [Workers -> Worker]
    /\ answered \in SUBSET (Keys \X Requests)
    /\ spared \in 0 .. Disruptions

NoJob == [status |-> "absent", request |-> None, attempts |-> 0,
          worker |-> None, due |-> FALSE, created |-> 0]

Idle == [phase |-> "idle", key |-> None, attempt |-> 0, lost |-> FALSE]

Down == [Idle EXCEPT !.phase = "down"]

Init ==
    /\ jobs = [k \in Keys |-> NoJob]
    /\ receipts = [k \in Keys |-> None]
    /\ workers = [w \in Workers |-> Idle]
    /\ answered = {}
    /\ spared = Disruptions

-----------------------------------------------------------------------------
(* enqueue.                                                                *)

Open == {k \in Keys : jobs[k].status \in {"queued", "running"}}

\* Mutant: room for one more command than max_queued_jobs.
RoomForOneMore == Cardinality(Open) <= MaxQueued

Room == Cardinality(Open) < MaxQueued

\* the key has a receipt or a row
Known(k) == receipts[k] # None \/ jobs[k].status # "absent"

\* the request the key is bound to
RequestOf(k) == IF receipts[k] # None THEN receipts[k].request ELSE jobs[k].request

\* A key nobody has used, and room: a new row.
EnqueueNew(k, r) ==
    /\ ~ Known(k)
    /\ Room
    /\ jobs' = [jobs EXCEPT ![k] = [NoJob EXCEPT !.status = "queued", !.request = r,
                                                 !.due = TRUE,
                                                 !.created = Cardinality({j \in Keys : Known(j)})]]
    /\ answered' = answered \cup {<<k, r>>}
    /\ UNCHANGED <<receipts, workers, spared>>

\* A known key with its request: answered with the job it has. Another
\* request raises JobConflictError, and a full queue QueueCapacityExceeded:
\* neither changes anything, so neither is a step.
EnqueueReplay(k, r) ==
    /\ Known(k)
    /\ RequestOf(k) = r
    /\ answered' = answered \cup {<<k, r>>}
    /\ UNCHANGED <<jobs, receipts, workers, spared>>

-----------------------------------------------------------------------------
(* run_once.                                                               *)

\* Mutant: running jobs are claimed without asking for an expired lease.
EligibleUnexpired(k) ==
    \/ jobs[k].status = "queued" /\ jobs[k].due
    \/ jobs[k].status = "running"

\* Mutant: running jobs are never claimed again.
EligibleQueued(k) == jobs[k].status = "queued" /\ jobs[k].due

Eligible(k) == jobs[k].status \in {"queued", "running"} /\ jobs[k].due

\* claim_next: the oldest eligible job
Claim(w) ==
    /\ workers[w].phase = "idle"
    /\ \E k \in Keys :
          /\ Eligible(k)
          /\ \A j \in Keys : Eligible(j) => jobs[k].created <= jobs[j].created
          /\ jobs' = [jobs EXCEPT ![k] = [jobs[k] EXCEPT !.status = "running",
                                              !.attempts = jobs[k].attempts + 1,
                                              !.worker = w, !.due = FALSE]]
          /\ workers' = [workers EXCEPT ![w] = [phase |-> "handling", key |-> k,
                                                attempt |-> jobs[k].attempts + 1,
                                                lost |-> FALSE]]
    /\ UNCHANGED <<receipts, answered, spared>>

\* Mutant: complete and fail ask for a running job, not for whose it is.
OwnsAnyRunning(w) == jobs[workers[w].key].status = "running"

\* the condition of renew_lease, complete and fail; none looks at the expiry
Owns(w) == /\ jobs[workers[w].key].status = "running"
           /\ jobs[workers[w].key].worker = w

\* renew_lease by the renewal thread, every 30 seconds
Renew(w) ==
    /\ workers[w].phase = "handling" /\ ~ workers[w].lost
    /\ \/ /\ Owns(w)
          /\ jobs' = [jobs EXCEPT ![workers[w].key].due = FALSE]
          /\ UNCHANGED workers
       \/ /\ ~ Owns(w)
          /\ workers' = [workers EXCEPT ![w].lost = TRUE]
          /\ UNCHANGED jobs
    /\ UNCHANGED <<receipts, answered, spared>>

\* The renewal thread meets any other error (a locked database) and ends.
RenewalFails(w) ==
    /\ spared > 0
    /\ workers[w].phase = "handling" /\ ~ workers[w].lost
    /\ workers' = [workers EXCEPT ![w].lost = TRUE]
    /\ spared' = spared - 1
    /\ UNCHANGED <<jobs, receipts, answered>>

\* The handler ends; the renewal thread is stopped and joined.
HandlerEnds(w) ==
    /\ workers[w].phase = "handling"
    /\ \E phase \in {"succeeded", "raised", "rejected"} :
          workers' = [workers EXCEPT ![w].phase = phase]
    /\ UNCHANGED <<jobs, receipts, answered, spared>>

\* Mutant: a job that is given up gets the status of an older version.
FinishedAsFailed(k, status) ==
    [jobs EXCEPT ![k] = [jobs[k] EXCEPT
        !.status = IF status = "dead_letter" THEN "failed" ELSE status,
        !.worker = None, !.due = FALSE]]

\* the row after complete or fail: nobody's, and if queued, not before a backoff
Finished(k, status) ==
    [jobs EXCEPT ![k] = [jobs[k] EXCEPT !.status = status, !.worker = None, !.due = FALSE]]

\* complete, unless the renewal thread reported an error
Complete(w) ==
    /\ workers[w].phase = "succeeded" /\ ~ workers[w].lost
    /\ Owns(w)
    /\ jobs' = Finished(workers[w].key, "completed")
    /\ workers' = [workers EXCEPT ![w] = Idle]
    /\ UNCHANGED <<receipts, answered, spared>>

\* _record_failure and fail: dead letter if permanent or exhausted, queued
\* again after a backoff otherwise. A renewal error is not asked for.
Fail(w) ==
    /\ workers[w].phase \in {"raised", "rejected"}
    /\ Owns(w)
    /\ jobs' = IF workers[w].phase = "rejected" \/ workers[w].attempt >= MaxAttempts
               THEN Finished(workers[w].key, "dead_letter")
               ELSE Finished(workers[w].key, "queued")
    /\ workers' = [workers EXCEPT ![w] = Idle]
    /\ UNCHANGED <<receipts, answered, spared>>

\* The lease is another's, or renewing it failed: RuntimeError leaves
\* run_once and main, and the process ends.
Refuse(w) ==
    /\ \/ workers[w].phase = "succeeded" /\ (workers[w].lost \/ ~ Owns(w))
       \/ workers[w].phase \in {"raised", "rejected"} /\ ~ Owns(w)
    /\ workers' = [workers EXCEPT ![w] = Down]
    /\ UNCHANGED <<jobs, receipts, answered, spared>>

\* The process is killed, anywhere.
Die(w) ==
    /\ spared > 0
    /\ workers[w].phase # "down"
    /\ workers' = [workers EXCEPT ![w] = Down]
    /\ spared' = spared - 1
    /\ UNCHANGED <<jobs, receipts, answered>>

\* The container is started again, with the same host name and pid.
Restart(w) ==
    /\ workers[w].phase = "down"
    /\ workers' = [workers EXCEPT ![w] = Idle]
    /\ UNCHANGED <<jobs, receipts, answered, spared>>

-----------------------------------------------------------------------------
(* Maintenance and time.                                                   *)

\* Mutant: old terminal rows are deleted without a receipt.
PruneWithoutReceipt(w) ==
    /\ workers[w].phase = "idle"
    /\ \E old \in SUBSET {k \in Keys : jobs[k].status \in TerminalStatuses} :
          /\ old # {}
          /\ jobs' = [k \in Keys |-> IF k \in old THEN NoJob ELSE jobs[k]]
    /\ UNCHANGED <<receipts, workers, answered, spared>>

\* prune_terminal_jobs, from main's loop: some old terminal rows become
\* receipts, in one transaction.
Prune(w) ==
    /\ workers[w].phase = "idle"
    /\ \E old \in SUBSET {k \in Keys : jobs[k].status \in TerminalStatuses} :
          /\ old # {}
          /\ receipts' = [k \in Keys |-> IF k \in old
                                         THEN [request |-> jobs[k].request,
                                               status |-> jobs[k].status]
                                         ELSE receipts[k]]
          /\ jobs' = [k \in Keys |-> IF k \in old THEN NoJob ELSE jobs[k]]
    /\ UNCHANGED <<workers, answered, spared>>

BackoffElapses(k) ==
    /\ jobs[k].status = "queued" /\ ~ jobs[k].due
    /\ jobs' = [jobs EXCEPT ![k].due = TRUE]
    /\ UNCHANGED <<receipts, workers, answered, spared>>

\* Somebody holds the lease of k and will renew it, or is about to finish k.
Held(k) == \E w \in Workers :
    /\ workers[w].key = k /\ jobs[k].worker = w
    /\ workers[w].phase # "handling" \/ ~ workers[w].lost

\* A lease that nobody renews runs out.
LeaseElapses(k) ==
    /\ jobs[k].status = "running" /\ ~ jobs[k].due
    /\ ~ Held(k)
    /\ jobs' = [jobs EXCEPT ![k].due = TRUE]
    /\ UNCHANGED <<receipts, workers, answered, spared>>

\* A lease runs out under its holder: the process was stalled for minutes.
Stall(k) ==
    /\ spared > 0
    /\ jobs[k].status = "running" /\ ~ jobs[k].due
    /\ Held(k)
    /\ jobs' = [jobs EXCEPT ![k].due = TRUE]
    /\ spared' = spared - 1
    /\ UNCHANGED <<receipts, workers, answered>>

-----------------------------------------------------------------------------

\* run_once from its claim to its last call
RunOnce(w) == Claim(w) \/ HandlerEnds(w) \/ Complete(w) \/ Fail(w) \/ Refuse(w)

Next ==
    \/ \E k \in Keys, r \in Requests : EnqueueNew(k, r) \/ EnqueueReplay(k, r)
    \/ \E w \in Workers : \/ RunOnce(w)
                          \/ Renew(w) \/ RenewalFails(w)
                          \/ Die(w) \/ Restart(w) \/ Prune(w)
    \/ \E k \in Keys : BackoffElapses(k) \/ LeaseElapses(k) \/ Stall(k)

Spec == Init /\ [][Next]_vars

\* Processes run and are restarted when they end, handlers return, and time
\* passes. Nobody is obliged to enqueue, to prune or to fail.
Fairness ==
    /\ \A w \in Workers : WF_vars(RunOnce(w)) /\ WF_vars(Restart(w))
    /\ \A k \in Keys : WF_vars(BackoffElapses(k)) /\ WF_vars(LeaseElapses(k))

FairSpec == Spec /\ Fairness

-----------------------------------------------------------------------------
(* Properties.                                                             *)

\* What a caller can know of a key, in jobs or compacted to a receipt.
Entries ==
    [k \in Keys |->
        IF receipts[k] # None
        THEN [request |-> receipts[k].request, outcome |-> receipts[k].status]
        ELSE IF jobs[k].status = "absent" THEN None
        ELSE [request |-> jobs[k].request,
              outcome |-> IF k \in Open THEN "open" ELSE jobs[k].status]]

Ledger == INSTANCE JobLedger WITH entries <- Entries

\* Workers that race, die, stall and prune leave callers with the ledger: a
\* key keeps its request, a terminal job is never run again, and the queue
\* never holds more than max_queued_jobs (enqueue, claim_next, complete,
\* fail, prune_terminal_jobs).
LedgerSpec == Ledger!Spec

\* A command the API has answered for is stored under its key, in exactly one
\* of the two tables: no later command took the key, and compaction neither
\* loses a key nor meets a receipt that is already there.
AnswersAreDurable ==
    /\ \A k \in Keys : receipts[k] = None \/ jobs[k].status = "absent"
    /\ \A a \in answered : Known(a[1]) /\ RequestOf(a[1]) = a[2]

EndsByLatestClaim ==
    \A k \in Keys :
        jobs[k].status = "running" /\ jobs'[k].status # "running" =>
            \E w \in Workers :
                /\ workers[w].key = k /\ workers[w].attempt = jobs[k].attempts
                /\ jobs'[k].status = "completed" <=> workers[w].phase = "succeeded"
                /\ jobs'[k].status = "queued" => workers[w].attempt < MaxAttempts

\* Whatever is claimed, stolen, renewed and restarted in between, a job's
\* outcome is the outcome of its latest claim: "never acknowledge a lost
\* lease" (job_worker.py, renew_lease).
LatestClaimDecides == [][EndsByLatestClaim]_vars

\* As long as no process died or stalled and every renewal went through, no
\* two workers are in the same job and nobody refuses to acknowledge.
OneHandlerUndisturbed ==
    spared = Disruptions =>
        \A w \in Workers : workers[w].key # None =>
            /\ Owns(w)
            /\ \A v \in Workers : workers[v].key = workers[w].key => v = w

\* Every accepted job is completed or dead-lettered in the end, crashed and
\* lost claims included.
JobsAreResolved ==
    \A k \in Keys : jobs[k].status \in {"queued", "running"}
                       ~> jobs[k].status \notin {"queued", "running"}

\* n8n/README.md:101: "Cap attempts and send exhausted jobs to a reviewable
\* dead-letter state."
AttemptsAreCapped == \A k \in Keys : jobs[k].attempts <= MaxAttempts
=============================================================================
