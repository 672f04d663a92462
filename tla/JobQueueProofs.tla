--------------------------- MODULE JobQueueProofs ---------------------------
(***************************************************************************)
(* Proofs about JobQueue, for every finite set of keys, every set of       *)
(* requests and workers and every value of the limits.                     *)
(*                                                                         *)
(* The argument: a worker id has at most one claim, so a row that is       *)
(* running under the worker's id and key is the row of its latest claim    *)
(* (LeaseIdentifiesClaim), although neither the lease nor the attempt is   *)
(* part of the condition of complete and fail. Every other step leaves     *)
(* what callers can know of a key alone, or opens or resolves it once.     *)
(***************************************************************************)
EXTENDS JobQueue, TLAPS, FiniteSetTheorems

Busy == {"handling", "succeeded", "raised", "rejected"}

-----------------------------------------------------------------------------
(* Rows.                                                                   *)

\* The fields of a row of table jobs.
LEMMA RowFields ==
    ASSUME NEW row \in Job
    PROVE  /\ row.status \in {"absent", "queued", "running", "completed", "dead_letter"}
           /\ row.request \in Requests \cup {None}
           /\ row.attempts \in Nat
           /\ row.worker \in Workers \cup {None}
           /\ row.due \in BOOLEAN
           /\ row.created \in Nat
BY DEF Job, TerminalStatuses

\* No row is a row of the model.
LEMMA NoJobIsRow == NoJob \in Job
BY DEF NoJob, Job, TerminalStatuses

\* What enqueue inserts.
LEMMA NewRow ==
    ASSUME NEW r \in Requests, NEW n \in Nat
    PROVE  LET new == [NoJob EXCEPT !.status = "queued", !.request = r,
                                    !.due = TRUE, !.created = n]
           IN  new \in Job /\ new.status = "queued" /\ new.request = r
<1>1. [NoJob EXCEPT !.status = "queued", !.request = r,
                    !.due = TRUE, !.created = n] \in Job
    <2>1. "queued" \in {"absent", "queued", "running"} \cup TerminalStatuses
          /\ r \in Requests \cup {None} /\ TRUE \in BOOLEAN
        OBVIOUS
    <2> QED
        BY <2>1, NoJobIsRow, Zenon DEF Job
<1> QED
    BY <1>1 DEF NoJob

\* What claim_next leaves of a row.
LEMMA ClaimedRow ==
    ASSUME NEW row \in Job, NEW w \in Workers
    PROVE  LET new == [row EXCEPT !.status = "running", !.attempts = row.attempts + 1,
                                  !.worker = w, !.due = FALSE]
           IN  /\ new \in Job
               /\ new.status = "running" /\ new.worker = w /\ new.due = FALSE
               /\ new.attempts = row.attempts + 1
               /\ new.request = row.request
<1>1. row.attempts + 1 \in Nat
    BY RowFields
<1>2. ASSUME NEW n \in Nat
      PROVE  [row EXCEPT !.status = "running", !.attempts = n,
                         !.worker = w, !.due = FALSE] \in Job
    <2>1. "running" \in {"absent", "queued", "running"} \cup TerminalStatuses
          /\ w \in Workers \cup {None} /\ FALSE \in BOOLEAN
        OBVIOUS
    <2> QED
        BY <2>1, Zenon DEF Job
<1>3. [row EXCEPT !.status = "running", !.attempts = row.attempts + 1,
                  !.worker = w, !.due = FALSE] \in Job
    BY <1>1, <1>2
<1> QED
    BY <1>3 DEF Job

\* What a renewal or the passing of time leaves of a row.
LEMMA TimedRow ==
    ASSUME NEW row \in Job, NEW due \in BOOLEAN
    PROVE  LET new == [row EXCEPT !.due = due]
           IN  /\ new \in Job /\ new.due = due
               /\ new.status = row.status /\ new.worker = row.worker
               /\ new.attempts = row.attempts
               /\ new.request = row.request
BY DEF Job

\* Where a worker is in run_once.
LEMMA WorkerFields ==
    ASSUME NEW x \in Worker
    PROVE  /\ x.phase \in Busy \cup {"idle", "down"}
           /\ x.key \in Keys \cup {None}
           /\ x.attempt \in Nat
           /\ x.lost \in BOOLEAN
BY DEF Worker, Busy

\* A worker between two jobs, and one that has ended, has no claim.
LEMMA RestingWorkers ==
    /\ Idle \in Worker /\ Idle.phase = "idle" /\ Idle.key = None
    /\ Down \in Worker /\ Down.phase = "down" /\ Down.key = None
<1>1. Idle \in Worker /\ Idle.phase = "idle" /\ Idle.key = None
    BY DEF Idle, Worker
<1>2. Down \in Worker /\ Down.phase = "down" /\ Down.key = None
    BY <1>1 DEF Down, Worker
<1> QED
    BY <1>1, <1>2

-----------------------------------------------------------------------------
(* The inductive invariant.                                                *)

\* A worker has a claim exactly while it is between claim_next and its end.
ClaimsAreBusy ==
    \A w \in Workers : workers[w].key # None <=> workers[w].phase \in Busy

\* A row has the request it was inserted with.
RowsHaveRequests ==
    \A k \in Keys : jobs[k].status # "absent" => jobs[k].request \in Requests

\* What complete and fail do not ask: the row a worker still owns is the row
\* as it claimed it.
LeaseIdentifiesClaim ==
    \A w \in Workers : workers[w].key # None /\ Owns(w) =>
        workers[w].attempt = jobs[workers[w].key].attempts

\* Without a disruption every claim is renewed in time.
LeasesAreRenewed ==
    spared = Disruptions =>
        \A w \in Workers : workers[w].key # None =>
            Owns(w) /\ ~ workers[w].lost /\ ~ jobs[workers[w].key].due

IInv ==
    /\ TypeOK
    /\ AnswersAreDurable
    /\ RowsHaveRequests
    /\ ClaimsAreBusy
    /\ LeaseIdentifiesClaim
    /\ LeasesAreRenewed

\* The initial state satisfies the inductive invariant.
LEMMA InitEstablishes == Init => IInv
<1> SUFFICES ASSUME Init PROVE IInv
    OBVIOUS
<1>1. TypeOK
    BY NoJobIsRow, RestingWorkers, QueueConstants DEF Init, TypeOK
<1>2. \A k \in Keys : jobs[k].status = "absent"
    BY DEF Init, NoJob
<1>3. \A w \in Workers : workers[w].phase = "idle" /\ workers[w].key = None
    BY RestingWorkers DEF Init
<1>4. AnswersAreDurable
    BY DEF Init, AnswersAreDurable
<1> QED
    BY <1>1, <1>2, <1>3, <1>4
    DEF IInv, RowsHaveRequests, ClaimsAreBusy, LeaseIdentifiesClaim, LeasesAreRenewed, Busy

\* What the conditions of the types say of one key and one worker.
LEMMA Typed ==
    ASSUME TypeOK
    PROVE  /\ \A k \in Keys : jobs[k] \in Job
           /\ \A w \in Workers : workers[w] \in Worker
           /\ \A w \in Workers : workers[w].key # None => workers[w].key \in Keys
           /\ spared \in Nat
BY WorkerFields, QueueConstants DEF TypeOK

-----------------------------------------------------------------------------
(* Each step preserves it.                                                 *)

\* A step that changes neither which rows there are nor what they request, and
\* answers nobody, keeps every answer.
LEMMA AnswersAreKept ==
    ASSUME IInv, UNCHANGED <<receipts, answered>>,
           \A j \in Keys : /\ jobs'[j].status = "absent" <=> jobs[j].status = "absent"
                          /\ jobs'[j].request = jobs[j].request
    PROVE  AnswersAreDurable' /\ RowsHaveRequests'
<1>1. \A j \in Keys : /\ Known(j)' <=> Known(j)
                     /\ RequestOf(j)' = RequestOf(j)
    BY DEF Known, RequestOf
<1>2. \A a \in answered : a[1] \in Keys
    BY DEF IInv, TypeOK
<1>3. AnswersAreDurable'
    BY <1>1, <1>2 DEF IInv, AnswersAreDurable
<1> QED
    BY <1>3 DEF IInv, RowsHaveRequests

\* Inserting a row.
LEMMA EnqueueNewKeeps ==
    ASSUME IInv, NEW k \in Keys, NEW r \in Requests, EnqueueNew(k, r)
    PROVE  IInv'
<1> DEFINE n == Cardinality({j \in Keys : Known(j)})
           new == [NoJob EXCEPT !.status = "queued", !.request = r,
                                !.due = TRUE, !.created = n]
<1>1. n \in Nat
    BY FinitelyManyKeys, FS_Subset, FS_CardinalityType
<1>2. new \in Job /\ new.status = "queued" /\ new.request = r
    BY <1>1, NewRow
<1>3. /\ jobs' = [jobs EXCEPT ![k] = new]
      /\ answered' = answered \cup {<<k, r>>}
      /\ UNCHANGED <<receipts, workers, spared>>
      /\ receipts[k] = None /\ jobs[k].status = "absent"
    BY DEF EnqueueNew, Known
<1>4. TypeOK'
    BY <1>2, <1>3 DEF IInv, TypeOK
<1>5. /\ jobs'[k] = new
      /\ \A j \in Keys : j # k => jobs'[j] = jobs[j]
    BY <1>3 DEF IInv, TypeOK
<1>6. AnswersAreDurable'
    <2>1. \A j \in Keys : receipts'[j] = None \/ jobs'[j].status = "absent"
        BY <1>3, <1>5 DEF IInv, AnswersAreDurable
    <2>2. ASSUME NEW a \in answered'
          PROVE  Known(a[1])' /\ RequestOf(a[1])' = a[2]
        <3>1. CASE a = <<k, r>>
            BY <1>2, <1>3, <1>5, <3>1 DEF Known, RequestOf
        <3>2. CASE a # <<k, r>>
            <4>1. a \in answered /\ a[1] \in Keys /\ Known(a[1]) /\ RequestOf(a[1]) = a[2]
                BY <1>3, <3>2 DEF IInv, TypeOK, AnswersAreDurable
            <4>2. a[1] # k
                BY <1>3, <4>1 DEF Known
            <4> QED
                BY <1>3, <1>5, <4>1, <4>2 DEF Known, RequestOf
        <3> QED
            BY <3>1, <3>2
    <2> QED
        BY <2>1, <2>2 DEF AnswersAreDurable
<1>7. RowsHaveRequests'
    BY <1>2, <1>5 DEF IInv, RowsHaveRequests
<1>8. ClaimsAreBusy'
    BY <1>3 DEF IInv, ClaimsAreBusy
<1>9. \A w \in Workers : workers[w].key # None /\ Owns(w)' => Owns(w) /\ workers[w].key # k
    BY <1>2, <1>3, <1>5, Typed DEF IInv, Owns
<1>10. \A w \in Workers : workers[w].key # None /\ Owns(w) => Owns(w)' /\ workers[w].key # k
    BY <1>2, <1>3, <1>5, Typed DEF IInv, Owns
<1>11. LeaseIdentifiesClaim'
    BY <1>3, <1>5, <1>9, Typed DEF IInv, LeaseIdentifiesClaim
<1>12. LeasesAreRenewed'
    BY <1>3, <1>5, <1>10, Typed DEF IInv, LeasesAreRenewed
<1> QED
    BY <1>4, <1>6, <1>7, <1>8, <1>11, <1>12 DEF IInv

\* Answering for a known key.
LEMMA EnqueueReplayKeeps ==
    ASSUME IInv, NEW k \in Keys, NEW r \in Requests, EnqueueReplay(k, r)
    PROVE  IInv'
<1>1. /\ Known(k) /\ RequestOf(k) = r
      /\ answered' = answered \cup {<<k, r>>}
      /\ UNCHANGED <<jobs, receipts, workers, spared>>
    BY DEF EnqueueReplay
<1>2. TypeOK'
    BY <1>1 DEF IInv, TypeOK
<1>3. AnswersAreDurable'
    BY <1>1 DEF IInv, AnswersAreDurable, Known, RequestOf
<1> QED
    BY <1>1, <1>2, <1>3
    DEF IInv, RowsHaveRequests, ClaimsAreBusy, LeaseIdentifiesClaim, LeasesAreRenewed, Owns

\* claim_next.
LEMMA ClaimKeeps ==
    ASSUME IInv, NEW w \in Workers, Claim(w)
    PROVE  IInv'
<1>1. PICK k \in Keys :
          /\ Eligible(k)
          /\ jobs' = [jobs EXCEPT ![k] = [jobs[k] EXCEPT !.status = "running",
                                              !.attempts = jobs[k].attempts + 1,
                                              !.worker = w, !.due = FALSE]]
          /\ workers' = [workers EXCEPT ![w] = [phase |-> "handling", key |-> k,
                                                attempt |-> jobs[k].attempts + 1,
                                                lost |-> FALSE]]
    BY DEF Claim
<1>2. workers[w].phase = "idle" /\ UNCHANGED <<receipts, answered, spared>>
    BY DEF Claim
<1> DEFINE new == [jobs[k] EXCEPT !.status = "running",
                                  !.attempts = jobs[k].attempts + 1,
                                  !.worker = w, !.due = FALSE]
           claim == [phase |-> "handling", key |-> k,
                     attempt |-> jobs[k].attempts + 1, lost |-> FALSE]
<1>3. /\ new \in Job
      /\ new.status = "running" /\ new.worker = w /\ new.due = FALSE
      /\ new.attempts = jobs[k].attempts + 1
      /\ new.request = jobs[k].request
    BY Typed, ClaimedRow DEF IInv
<1>4. claim \in Worker /\ claim.phase = "handling" /\ claim.key = k
      /\ claim.attempt = jobs[k].attempts + 1 /\ claim.lost = FALSE
    <2>1. jobs[k].attempts + 1 \in Nat
        BY Typed, RowFields DEF IInv
    <2> QED
        BY <2>1 DEF Worker
<1>5. TypeOK'
    BY <1>1, <1>2, <1>3, <1>4 DEF IInv, TypeOK
<1>6. /\ jobs'[k] = new
      /\ \A j \in Keys : j # k => jobs'[j] = jobs[j]
      /\ workers'[w] = claim
      /\ \A v \in Workers : v # w => workers'[v] = workers[v]
    BY <1>1 DEF IInv, TypeOK
<1>7. AnswersAreDurable' /\ RowsHaveRequests'
    BY <1>1, <1>2, <1>3, <1>6, AnswersAreKept DEF Eligible
<1>8. ClaimsAreBusy'
    BY <1>4, <1>6, QueueConstants DEF IInv, ClaimsAreBusy, Busy
<1> HIDE DEF new, claim
<1>9. LeaseIdentifiesClaim'
    <2> SUFFICES ASSUME NEW v \in Workers, workers'[v].key # None, Owns(v)'
                 PROVE  workers'[v].attempt = jobs'[workers'[v].key].attempts
        BY DEF LeaseIdentifiesClaim
    <2>1. CASE v = w
        BY <1>3, <1>4, <1>6, <2>1
    <2>2. CASE v # w
        <3>1. workers'[v] = workers[v] /\ workers[v].key \in Keys
            BY <1>6, <2>2, Typed DEF IInv
        <3>2. workers[v].key # k
            BY <1>3, <1>6, <2>2, <3>1 DEF Owns
        <3> QED
            BY <1>6, <3>1, <3>2 DEF IInv, LeaseIdentifiesClaim, Owns
    <2> QED
        BY <2>1, <2>2
<1>10. LeasesAreRenewed'
    <2> SUFFICES ASSUME spared = Disruptions, NEW v \in Workers, workers'[v].key # None
                 PROVE  Owns(v)' /\ ~ workers'[v].lost /\ ~ jobs'[workers'[v].key].due
        BY <1>2 DEF LeasesAreRenewed
    <2>1. CASE v = w
        BY <1>3, <1>4, <1>6, <2>1 DEF Owns
    <2>2. CASE v # w
        <3>1. workers'[v] = workers[v] /\ workers[v].key \in Keys
            BY <1>6, <2>2, Typed DEF IInv
        <3>2. Owns(v) /\ ~ workers[v].lost /\ ~ jobs[workers[v].key].due
            BY <3>1 DEF IInv, LeasesAreRenewed
        <3>3. workers[v].key # k
            BY <1>1, <3>2 DEF Eligible
        <3> QED
            BY <1>6, <3>1, <3>2, <3>3 DEF Owns
    <2> QED
        BY <2>1, <2>2
<1> QED
    BY <1>5, <1>7, <1>8, <1>9, <1>10 DEF IInv

\* A step that only moves one worker: it keeps its claim, or is left without.
LEMMA WorkerStepKeeps ==
    ASSUME IInv, NEW w \in Workers, NEW x \in Worker,
           workers' = [workers EXCEPT ![w] = x],
           UNCHANGED <<jobs, receipts, answered>>,
           spared' \in 0 .. Disruptions,
           \/ x.key = None /\ x.phase \notin Busy
           \/ /\ workers[w].key # None /\ x.key = workers[w].key /\ x.phase \in Busy
              /\ x.attempt = workers[w].attempt,
           spared' = Disruptions =>
              spared = Disruptions /\ (x.key # None => x.lost = workers[w].lost)
    PROVE  IInv'
<1>1. TypeOK'
    BY DEF IInv, TypeOK
<1>2. AnswersAreDurable' /\ RowsHaveRequests'
    BY AnswersAreKept
<1>3. /\ workers'[w] = x
      /\ \A v \in Workers : v # w => workers'[v] = workers[v]
    BY DEF IInv, TypeOK
<1>4. ClaimsAreBusy'
    BY <1>3 DEF IInv, ClaimsAreBusy
<1>5. LeaseIdentifiesClaim'
    BY <1>3 DEF IInv, LeaseIdentifiesClaim, Owns
<1>6. LeasesAreRenewed'
    BY <1>3 DEF IInv, LeasesAreRenewed, Owns
<1> QED
    BY <1>1, <1>2, <1>4, <1>5, <1>6 DEF IInv

\* A lease that is renewed or runs out, and a backoff that ends.
LEMMA DueStepKeeps ==
    ASSUME IInv, NEW k \in Keys, NEW due \in BOOLEAN,
           jobs' = [jobs EXCEPT ![k].due = due],
           UNCHANGED <<receipts, workers, answered>>,
           spared' \in 0 .. Disruptions,
           spared' = Disruptions =>
              spared = Disruptions /\ (due => \A w \in Workers : workers[w].key # k)
    PROVE  IInv'
<1>1. /\ jobs'[k] \in Job /\ jobs'[k].due = due
      /\ jobs'[k].status = jobs[k].status /\ jobs'[k].worker = jobs[k].worker
      /\ jobs'[k].attempts = jobs[k].attempts
      /\ jobs'[k].request = jobs[k].request
    BY Typed, TimedRow DEF IInv, TypeOK
<1>2. \A j \in Keys : j # k => jobs'[j] = jobs[j]
    BY DEF IInv, TypeOK
<1>3. TypeOK'
    <2>1. jobs' \in [Keys -> Job]
        BY <1>1 DEF IInv, TypeOK
    <2> QED
        BY <2>1 DEF IInv, TypeOK
<1>4. AnswersAreDurable' /\ RowsHaveRequests'
    BY <1>1, <1>2, AnswersAreKept
<1>5. ClaimsAreBusy'
    BY DEF IInv, ClaimsAreBusy
<1>6. \A w \in Workers : workers[w].key # None =>
          /\ Owns(w)' <=> Owns(w)
          /\ jobs'[workers[w].key].attempts = jobs[workers[w].key].attempts
    BY <1>1, <1>2, Typed DEF IInv, Owns
<1>7. LeaseIdentifiesClaim'
    BY <1>6 DEF IInv, LeaseIdentifiesClaim
<1>8. LeasesAreRenewed'
    BY <1>1, <1>2, <1>6, Typed DEF IInv, LeasesAreRenewed
<1> QED
    BY <1>3, <1>4, <1>5, <1>7, <1>8 DEF IInv

\* The rows after complete and fail.
LEMMA FinishedQueue ==
    ASSUME TypeOK, NEW k \in Keys, NEW status \in {"queued", "completed", "dead_letter"},
           jobs' = Finished(k, status)
    PROVE  /\ jobs' \in [Keys -> Job]
           /\ jobs'[k] \in Job
           /\ jobs'[k].status = status /\ jobs'[k].worker = None
           /\ jobs'[k].request = jobs[k].request
           /\ \A j \in Keys : j # k => jobs'[j] = jobs[j]
<1> DEFINE new == [jobs[k] EXCEPT !.status = status, !.worker = None, !.due = FALSE]
<1>1. new \in Job /\ new.status = status /\ new.worker = None
      /\ new.request = jobs[k].request
    <2>1. jobs[k] \in Job
        BY Typed
    <2>2. status \in {"absent", "queued", "running"} \cup TerminalStatuses
          /\ None \in Workers \cup {None} /\ FALSE \in BOOLEAN
        BY DEF TerminalStatuses
    <2>3. new \in Job
        BY <2>1, <2>2, Zenon DEF Job
    <2> QED
        BY <2>1 , <2>3 DEF Job
<1>2. jobs' = [jobs EXCEPT ![k] = new]
    BY DEF Finished
<1> HIDE DEF new
<1> QED
    BY <1>1, <1>2 DEF TypeOK

\* complete and fail.
LEMMA FinishKeeps ==
    ASSUME IInv, NEW w \in Workers, NEW status \in {"queued", "completed", "dead_letter"},
           workers[w].key # None, Owns(w),
           jobs' = Finished(workers[w].key, status),
           workers' = [workers EXCEPT ![w] = Idle],
           UNCHANGED <<receipts, answered, spared>>
    PROVE  IInv'
<1> DEFINE k == workers[w].key
<1>1. k \in Keys /\ jobs[k].status = "running" /\ jobs[k].worker = w
    BY Typed DEF IInv, Owns
<1>2. /\ jobs'[k] \in Job
      /\ jobs'[k].status = status /\ jobs'[k].worker = None
      /\ jobs'[k].request = jobs[k].request
    BY <1>1, FinishedQueue DEF IInv
<1>3. \A j \in Keys : j # k => jobs'[j] = jobs[j]
    BY <1>1, FinishedQueue DEF IInv
<1>4. /\ workers'[w] = Idle
      /\ \A v \in Workers : v # w => workers'[v] = workers[v]
    BY DEF IInv, TypeOK
<1>5. TypeOK'
    <2>1. jobs' \in [Keys -> Job]
        BY <1>1, FinishedQueue DEF IInv
    <2> QED
        BY <2>1, RestingWorkers DEF IInv, TypeOK
<1>6. AnswersAreDurable' /\ RowsHaveRequests'
    BY <1>1, <1>2, <1>3, AnswersAreKept
<1>7. ClaimsAreBusy'
    BY <1>4, RestingWorkers DEF IInv, ClaimsAreBusy, Busy
<1> HIDE DEF k
<1>8. \A v \in Workers : v # w /\ workers[v].key # None =>
          /\ workers[v].key \in Keys
          /\ workers[v].key = k => ~ Owns(v) /\ ~ Owns(v)'
          /\ workers[v].key # k => (Owns(v)' <=> Owns(v))
    <2> SUFFICES ASSUME NEW v \in Workers, v # w, workers[v].key # None
                 PROVE  /\ workers[v].key \in Keys
                        /\ workers[v].key = k => ~ Owns(v) /\ ~ Owns(v)'
                        /\ workers[v].key # k => (Owns(v)' <=> Owns(v))
        OBVIOUS
    <2>1. workers[v].key \in Keys /\ workers'[v] = workers[v] /\ v # None
        BY <1>4, Typed, QueueConstants DEF IInv
    <2> QED
        BY <1>1, <1>2, <1>3, <2>1 DEF Owns
<1>9. LeaseIdentifiesClaim'
    BY <1>3, <1>4, <1>8, RestingWorkers DEF IInv, LeaseIdentifiesClaim
<1>10. LeasesAreRenewed'
    BY <1>3, <1>4, <1>8, RestingWorkers DEF IInv, LeasesAreRenewed
<1> QED
    BY <1>5, <1>6, <1>7, <1>9, <1>10 DEF IInv

\* prune_terminal_jobs.
LEMMA PruneKeeps ==
    ASSUME IInv, NEW w \in Workers, Prune(w)
    PROVE  IInv'
<1>1. PICK old \in SUBSET {k \in Keys : jobs[k].status \in TerminalStatuses} :
          /\ receipts' = [k \in Keys |-> IF k \in old
                                         THEN [request |-> jobs[k].request,
                                               status |-> jobs[k].status]
                                         ELSE receipts[k]]
          /\ jobs' = [k \in Keys |-> IF k \in old THEN NoJob ELSE jobs[k]]
    BY DEF Prune
<1>2. UNCHANGED <<workers, answered, spared>>
    BY DEF Prune
<1>3. \A k \in old : /\ k \in Keys /\ jobs[k].status \in TerminalStatuses
                     /\ jobs[k].status # "absent" /\ jobs[k].status # "running"
                     /\ jobs[k].request \in Requests
                     /\ receipts[k] = None
    BY DEF IInv, RowsHaveRequests, AnswersAreDurable, TerminalStatuses
<1>4. /\ \A k \in Keys : k \in old => jobs'[k] = NoJob
      /\ \A k \in Keys : k \notin old => jobs'[k] = jobs[k] /\ receipts'[k] = receipts[k]
      /\ \A k \in old : receipts'[k] = [request |-> jobs[k].request,
                                        status |-> jobs[k].status]
    BY <1>1
<1>5. \A k \in old : /\ receipts'[k] \in Receipt
                     /\ receipts'[k].request = jobs[k].request
    <2> SUFFICES ASSUME NEW k \in old
                 PROVE  receipts'[k] \in Receipt /\ receipts'[k].request = jobs[k].request
        OBVIOUS
    <2>1. /\ receipts'[k] = [request |-> jobs[k].request, status |-> jobs[k].status]
          /\ jobs[k].request \in Requests /\ jobs[k].status \in TerminalStatuses
        BY <1>3, <1>4
    <2> QED
        BY <2>1 DEF Receipt
<1>6. TypeOK'
    <2>1. jobs' \in [Keys -> Job]
        BY <1>1, Typed, NoJobIsRow DEF IInv
    <2>2. receipts' \in [Keys -> Receipt \cup {None}]
        BY <1>1, <1>3, <1>4, <1>5 DEF IInv, TypeOK
    <2> QED
        BY <1>2, <2>1, <2>2 DEF IInv, TypeOK
<1>7. NoJob.status = "absent"
    BY DEF NoJob
<1>8. RowsHaveRequests'
    BY <1>4, <1>7 DEF IInv, RowsHaveRequests
<1>9. \A k \in old : receipts'[k] # None
    BY <1>5, NoneIsNoRecord DEF Receipt, TerminalStatuses
<1>10. \A k \in Keys : Known(k)' <=> Known(k)
    BY <1>3, <1>4, <1>9 DEF Known
<1>11. \A k \in Keys : RequestOf(k)' = RequestOf(k)
    BY <1>3, <1>4, <1>5, <1>9 DEF RequestOf
<1>12. AnswersAreDurable'
    <2>1. \A k \in Keys : receipts'[k] = None \/ jobs'[k].status = "absent"
        BY <1>4, <1>7 DEF IInv, AnswersAreDurable
    <2>2. \A a \in answered : a[1] \in Keys
        BY DEF IInv, TypeOK
    <2> QED
        BY <1>2, <1>10, <1>11, <2>1, <2>2 DEF IInv, AnswersAreDurable
<1>13. ClaimsAreBusy'
    BY <1>2 DEF IInv, ClaimsAreBusy
<1>14. \A v \in Workers : workers[v].key # None =>
          /\ workers[v].key \in Keys
          /\ Owns(v)' <=> Owns(v)
          /\ Owns(v) => jobs'[workers[v].key] = jobs[workers[v].key]
    <2> SUFFICES ASSUME NEW v \in Workers, workers[v].key # None
                 PROVE  /\ workers[v].key \in Keys
                        /\ Owns(v)' <=> Owns(v)
                        /\ Owns(v) => jobs'[workers[v].key] = jobs[workers[v].key]
        OBVIOUS
    <2>1. workers[v].key \in Keys
        BY Typed DEF IInv
    <2>2. NoJob.status # "running"
        BY DEF NoJob
    <2>3. CASE workers[v].key \in old
        BY <1>2, <1>3, <1>4, <2>1, <2>2, <2>3 DEF Owns
    <2>4. CASE workers[v].key \notin old
        BY <1>2, <1>4, <2>1, <2>4 DEF Owns
    <2> QED
        BY <2>1, <2>3, <2>4
<1>15. LeaseIdentifiesClaim'
    BY <1>2, <1>14 DEF IInv, LeaseIdentifiesClaim
<1>16. LeasesAreRenewed'
    BY <1>2, <1>14 DEF IInv, LeasesAreRenewed
<1> QED
    BY <1>6, <1>8, <1>12, <1>13, <1>15, <1>16 DEF IInv

\* Every step keeps the invariant.
LEMMA NextKeeps == IInv /\ [Next]_vars => IInv'
<1> SUFFICES ASSUME IInv, [Next]_vars PROVE IInv'
    OBVIOUS
<1>1. ASSUME NEW k \in Keys, NEW r \in Requests, EnqueueNew(k, r) \/ EnqueueReplay(k, r)
      PROVE  IInv'
    BY <1>1, EnqueueNewKeeps, EnqueueReplayKeeps
<1>2. ASSUME NEW w \in Workers, Claim(w) \/ Prune(w)
      PROVE  IInv'
    BY <1>2, ClaimKeeps, PruneKeeps
<1>3. ASSUME NEW w \in Workers, Renew(w)
      PROVE  IInv'
    <2>1. workers[w] \in Worker /\ workers[w].key # None /\ workers[w].key \in Keys
          /\ workers[w].phase = "handling" /\ ~ workers[w].lost
          /\ spared' = spared /\ spared \in 0 .. Disruptions
        BY <1>3, Typed DEF Renew, IInv, TypeOK, ClaimsAreBusy, Busy
    <2>2. CASE Owns(w)
        <3>1. jobs' = [jobs EXCEPT ![workers[w].key].due = FALSE]
              /\ UNCHANGED <<receipts, workers, answered>>
            BY <1>3, <2>2 DEF Renew
        <3> QED
            BY <2>1, <3>1, DueStepKeeps
    <2>3. CASE ~ Owns(w)
        <3> DEFINE x == [workers[w] EXCEPT !.lost = TRUE]
        <3>1. workers' = [workers EXCEPT ![w] = x] /\ UNCHANGED <<jobs, receipts, answered>>
            BY <1>3, <2>3 DEF Renew, IInv, TypeOK
        <3>2. x \in Worker /\ x.key = workers[w].key /\ x.phase = workers[w].phase
              /\ x.attempt = workers[w].attempt
            BY <2>1 DEF Worker
        <3>3. spared # Disruptions
            BY <2>1, <2>3 DEF IInv, LeasesAreRenewed
        <3> QED
            BY <2>1, <3>1, <3>2, <3>3, WorkerStepKeeps DEF Busy
    <2> QED
        BY <2>2, <2>3
<1>4. ASSUME NEW w \in Workers, RenewalFails(w)
      PROVE  IInv'
    <2> DEFINE x == [workers[w] EXCEPT !.lost = TRUE]
    <2>1. workers[w] \in Worker /\ workers[w].key # None /\ workers[w].phase = "handling"
        BY <1>4, Typed DEF RenewalFails, IInv, ClaimsAreBusy, Busy
    <2>2. workers' = [workers EXCEPT ![w] = x] /\ UNCHANGED <<jobs, receipts, answered>>
        BY <1>4 DEF RenewalFails, IInv, TypeOK
    <2>3. spared' \in 0 .. Disruptions /\ spared' # Disruptions
        BY <1>4, QueueConstants DEF RenewalFails, IInv, TypeOK
    <2>4. x \in Worker /\ x.key = workers[w].key /\ x.phase = workers[w].phase
          /\ x.attempt = workers[w].attempt
        BY <2>1 DEF Worker
    <2> QED
        BY <2>1, <2>2, <2>3, <2>4, WorkerStepKeeps DEF Busy
<1>5. ASSUME NEW w \in Workers, HandlerEnds(w)
      PROVE  IInv'
    <2>1. PICK phase \in {"succeeded", "raised", "rejected"} :
              workers' = [workers EXCEPT ![w].phase = phase]
        BY <1>5 DEF HandlerEnds
    <2> DEFINE x == [workers[w] EXCEPT !.phase = phase]
    <2>2. workers[w] \in Worker /\ workers[w].key # None
          /\ UNCHANGED <<jobs, receipts, answered, spared>>
          /\ spared \in 0 .. Disruptions
        BY <1>5, Typed DEF HandlerEnds, IInv, TypeOK, ClaimsAreBusy, Busy
    <2>3. workers' = [workers EXCEPT ![w] = x]
        BY <2>1 DEF IInv, TypeOK
    <2>4. x \in Worker /\ x.key = workers[w].key /\ x.phase \in Busy
          /\ x.attempt = workers[w].attempt /\ x.lost = workers[w].lost
        BY <2>2 DEF Worker, Busy
    <2> QED
        BY <2>2, <2>3, <2>4, WorkerStepKeeps
<1>6. ASSUME NEW w \in Workers, Complete(w)
      PROVE  IInv'
    <2>1. workers[w].key # None /\ Owns(w)
        BY <1>6 DEF Complete, IInv, ClaimsAreBusy, Busy
    <2> QED
        BY <1>6, <2>1, FinishKeeps DEF Complete
<1>7. ASSUME NEW w \in Workers, Fail(w)
      PROVE  IInv'
    <2>1. workers[w].key # None /\ Owns(w)
        BY <1>7 DEF Fail, IInv, ClaimsAreBusy, Busy
    <2>2. \/ jobs' = Finished(workers[w].key, "dead_letter")
          \/ jobs' = Finished(workers[w].key, "queued")
        BY <1>7 DEF Fail
    <2> QED
        BY <1>7, <2>1, <2>2, FinishKeeps DEF Fail
<1>8. ASSUME NEW w \in Workers, Refuse(w) \/ Restart(w) \/ Die(w)
      PROVE  IInv'
    <2>1. \/ workers' = [workers EXCEPT ![w] = Down]
          \/ workers' = [workers EXCEPT ![w] = Idle]
        BY <1>8 DEF Refuse, Restart, Die
    <2>2. UNCHANGED <<jobs, receipts, answered>>
        BY <1>8 DEF Refuse, Restart, Die
    <2>3. spared' \in 0 .. Disruptions /\ (spared' = Disruptions => spared = Disruptions)
        BY <1>8, QueueConstants DEF Refuse, Restart, Die, IInv, TypeOK
    <2> QED
        BY <2>1, <2>2, <2>3, RestingWorkers, WorkerStepKeeps DEF Busy
<1>9. ASSUME NEW k \in Keys, BackoffElapses(k) \/ LeaseElapses(k) \/ Stall(k)
      PROVE  IInv'
    <2>1. jobs' = [jobs EXCEPT ![k].due = TRUE]
          /\ UNCHANGED <<receipts, workers, answered>>
        BY <1>9 DEF BackoffElapses, LeaseElapses, Stall
    <2>2. spared' \in 0 .. Disruptions /\ (spared' = Disruptions => spared = Disruptions)
        BY <1>9, QueueConstants DEF BackoffElapses, LeaseElapses, Stall, IInv, TypeOK
    <2>3. ASSUME spared' = Disruptions, NEW w \in Workers, workers[w].key = k
          PROVE  FALSE
        <3>1. spared = Disruptions /\ k # None
            BY <2>2, <2>3, QueueConstants
        <3>2. Owns(w) /\ ~ workers[w].lost
            BY <2>3, <3>1 DEF IInv, LeasesAreRenewed
        <3>3. Held(k) /\ jobs[k].status = "running"
            BY <2>3, <3>2 DEF Held, Owns
        <3>4. LeaseElapses(k) \/ Stall(k)
            BY <1>9, <3>3 DEF BackoffElapses
        <3>5. Stall(k)
            BY <3>3, <3>4 DEF LeaseElapses
        <3> QED
            BY <3>1, <3>5, <2>3 DEF Stall, IInv, TypeOK
    <2> QED
        BY <2>1, <2>2, <2>3, DueStepKeeps
<1>10. ASSUME UNCHANGED vars PROVE IInv'
    BY <1>10 DEF vars, IInv, TypeOK, AnswersAreDurable, Known, RequestOf,
       RowsHaveRequests, ClaimsAreBusy, LeaseIdentifiesClaim, LeasesAreRenewed, Owns
<1> QED
    BY <1>1, <1>2, <1>3, <1>4, <1>5, <1>6, <1>7, <1>8, <1>9, <1>10 DEF Next, RunOnce

-----------------------------------------------------------------------------
(* What callers see: each step is a step of the ledger or none.            *)

\* The ledger's open entries are the queued and the running rows.
LEMMA OpenEntriesAreOpenRows ==
    ASSUME IInv
    PROVE  Ledger!OpenEntries = Open
<1> SUFFICES ASSUME NEW k \in Keys
             PROVE  Entries[k] # None /\ Entries[k].outcome = "open" <=> k \in Open
    BY DEF Ledger!OpenEntries, Open
<1>1. jobs[k] \in Job /\ receipts[k] \in Receipt \cup {None}
    BY Typed DEF IInv, TypeOK
<1>2. CASE receipts[k] # None
    <2>1. Entries[k] = [request |-> receipts[k].request, outcome |-> receipts[k].status]
        BY <1>2 DEF Entries
    <2>2. receipts[k].status \in TerminalStatuses /\ jobs[k].status = "absent"
        BY <1>1, <1>2 DEF Receipt, IInv, AnswersAreDurable
    <2> QED
        BY <2>1, <2>2 DEF Open, TerminalStatuses
<1>3. CASE receipts[k] = None /\ jobs[k].status = "absent"
    BY <1>3 DEF Entries, Open
<1>4. CASE receipts[k] = None /\ jobs[k].status # "absent"
    <2>1. Entries[k] = [request |-> jobs[k].request,
                        outcome |-> IF k \in Open THEN "open" ELSE jobs[k].status]
        BY <1>4 DEF Entries
    <2>2. jobs[k].request \in Requests
          /\ jobs[k].status \in {"queued", "running", "completed", "dead_letter"}
        BY <1>1, <1>4, RowFields DEF IInv, RowsHaveRequests
    <2>3. Entries[k] # None
        BY <2>1, <2>2, NoneIsNoRecord DEF Open
    <2> QED
        BY <2>1, <2>2, <2>3 DEF Open
<1> QED
    BY <1>2, <1>3, <1>4

\* A step that keeps the receipts, and of the rows whether they are there, open
\* or how they ended, and what they request, is no step of the ledger.
LEMMA EntriesAreKept ==
    ASSUME UNCHANGED receipts,
           \A k \in Keys : /\ \/ jobs'[k].status = jobs[k].status
                              \/ jobs[k].status \in {"queued", "running"}
                                 /\ jobs'[k].status \in {"queued", "running"}
                           /\ jobs'[k].request = jobs[k].request
    PROVE  Entries' = Entries
<1>1. Open' = Open
    BY DEF Open
<1>2. \A k \in Keys : jobs'[k].status = "absent" <=> jobs[k].status = "absent"
    OBVIOUS
<1>3. \A k \in Keys : k \notin Open => jobs'[k].status = jobs[k].status
    BY DEF Open
<1> QED
    BY <1>1, <1>2, <1>3 DEF Entries

\* complete and fail, seen from outside.
LEMMA FinishResolves ==
    ASSUME IInv, NEW w \in Workers, NEW status \in {"queued", "completed", "dead_letter"},
           workers[w].key # None, Owns(w),
           jobs' = Finished(workers[w].key, status), UNCHANGED receipts
    PROVE  [Ledger!Next]_Entries
<1> DEFINE k == workers[w].key
<1>1. k \in Keys /\ jobs[k].status = "running" /\ jobs[k] \in Job
      /\ jobs[k].request \in Requests
    BY Typed DEF IInv, Owns, RowsHaveRequests
<1>2. jobs'[k].status = status /\ jobs'[k].request = jobs[k].request
    BY <1>1, FinishedQueue DEF IInv
<1>3. \A j \in Keys : j # k => jobs'[j] = jobs[j]
    BY <1>1, FinishedQueue DEF IInv
<1> HIDE DEF k
<1>4. CASE status = "queued"
    <2>1. Entries' = Entries
        BY <1>1, <1>2, <1>3, <1>4, EntriesAreKept
    <2> QED
        BY <2>1
<1>5. CASE status # "queued"
    <2>1. receipts[k] = None
        BY <1>1 DEF IInv, AnswersAreDurable
    <2>2. k \in Open /\ k \notin Open' /\ \A j \in Keys : j # k => (j \in Open' <=> j \in Open)
        BY <1>1, <1>2, <1>3, <1>5 DEF Open
    <2>3. Entries[k] = [request |-> jobs[k].request, outcome |-> "open"]
        BY <1>1, <2>1, <2>2 DEF Entries
    <2>4. Entries'[k] = [request |-> jobs[k].request, outcome |-> status]
        BY <1>1, <1>2, <1>5, <2>1, <2>2 DEF Entries
    <2>5. \A j \in Keys : j # k => Entries'[j] = Entries[j]
        BY <1>3, <2>2 DEF Entries
    <2>6. Entries' = [Entries EXCEPT ![k] = [request |-> Entries[k].request,
                                             outcome |-> status]]
        <3>1. /\ Entries = [j \in Keys |-> Entries[j]]
              /\ Entries' = [j \in Keys |-> Entries'[j]]
            BY DEF Entries
        <3> QED
            BY <1>1, <2>3, <2>4, <2>5, <3>1
    <2>7. k \in Ledger!OpenEntries /\ status \in Ledger!Outcomes
        BY <1>5, <2>2, OpenEntriesAreOpenRows DEF Ledger!Outcomes
    <2>8. Ledger!Resolve(k, status)
        BY <2>6, <2>7 DEF Ledger!Resolve
    <2> QED
        BY <1>1, <2>7, <2>8 DEF Ledger!Next
<1> QED
    BY <1>4, <1>5

\* prune_terminal_jobs, seen from outside.
LEMMA PruneIsInvisible ==
    ASSUME IInv, NEW w \in Workers, Prune(w)
    PROVE  Entries' = Entries
<1>1. PICK old \in SUBSET {k \in Keys : jobs[k].status \in TerminalStatuses} :
          /\ receipts' = [k \in Keys |-> IF k \in old
                                         THEN [request |-> jobs[k].request,
                                               status |-> jobs[k].status]
                                         ELSE receipts[k]]
          /\ jobs' = [k \in Keys |-> IF k \in old THEN NoJob ELSE jobs[k]]
    BY DEF Prune
<1> SUFFICES ASSUME NEW k \in Keys PROVE Entries'[k] = Entries[k]
    <2>1. /\ Entries = [j \in Keys |-> Entries[j]]
          /\ Entries' = [j \in Keys |-> Entries'[j]]
        BY DEF Entries
    <2> QED
        BY <2>1
<1>2. CASE k \in old
    <2>1. /\ jobs[k].status \in TerminalStatuses /\ jobs[k].status # "absent"
          /\ jobs[k].request \in Requests /\ receipts[k] = None /\ k \notin Open
        BY <1>2 DEF IInv, RowsHaveRequests, AnswersAreDurable, TerminalStatuses, Open
    <2>2. receipts'[k] = [request |-> jobs[k].request, status |-> jobs[k].status]
        BY <1>1, <1>2
    <2>3. receipts'[k] # None
        BY <2>1, <2>2, NoneIsNoRecord DEF TerminalStatuses
    <2>4. Entries'[k] = [request |-> jobs[k].request, outcome |-> jobs[k].status]
        BY <2>2, <2>3 DEF Entries
    <2> QED
        BY <2>1, <2>4 DEF Entries
<1>3. CASE k \notin old
    <2>1. jobs'[k] = jobs[k] /\ receipts'[k] = receipts[k]
        BY <1>1, <1>3
    <2>2. k \in Open' <=> k \in Open
        BY <2>1 DEF Open
    <2> QED
        BY <2>1, <2>2 DEF Entries
<1> QED
    BY <1>2, <1>3

\* enqueue of a new key, seen from outside.
LEMMA EnqueueAccepts ==
    ASSUME IInv, NEW k \in Keys, NEW r \in Requests, EnqueueNew(k, r)
    PROVE  Ledger!Accept(k, r)
<1> DEFINE n == Cardinality({j \in Keys : Known(j)})
           new == [NoJob EXCEPT !.status = "queued", !.request = r,
                                !.due = TRUE, !.created = n]
<1>1. n \in Nat
    BY FinitelyManyKeys, FS_Subset, FS_CardinalityType
<1>2. new.status = "queued" /\ new.request = r
    BY <1>1, NewRow
<1>3. /\ jobs' = [jobs EXCEPT ![k] = new]
      /\ UNCHANGED receipts
      /\ receipts[k] = None /\ jobs[k].status = "absent"
      /\ Cardinality(Open) < MaxQueued
    BY DEF EnqueueNew, Known, Room
<1> HIDE DEF new
<1>4. jobs'[k] = new /\ \A j \in Keys : j # k => jobs'[j] = jobs[j]
    BY <1>3 DEF IInv, TypeOK
<1>5. k \in Open' /\ \A j \in Keys : j # k => (j \in Open' <=> j \in Open)
    BY <1>2, <1>4 DEF Open
<1>6. Entries[k] = None
    BY <1>3 DEF Entries
<1>7. Entries'[k] = [request |-> r, outcome |-> "open"]
    BY <1>2, <1>3, <1>4, <1>5 DEF Entries
<1>8. \A j \in Keys : j # k => Entries'[j] = Entries[j]
    BY <1>3, <1>4, <1>5 DEF Entries
<1>9. Entries' = [Entries EXCEPT ![k] = [request |-> r, outcome |-> "open"]]
    <2>1. /\ Entries = [j \in Keys |-> Entries[j]]
          /\ Entries' = [j \in Keys |-> Entries'[j]]
        BY DEF Entries
    <2> QED
        BY <1>7, <1>8, <2>1
<1>10. Ledger!Cardinality(Open) = Cardinality(Open)
    BY DEF Ledger!Cardinality, Cardinality
<1> QED
    BY <1>3, <1>6, <1>9, <1>10, OpenEntriesAreOpenRows DEF Ledger!Accept

\* Every step maps to a step of the ledger or to none.
LEMMA StepsAreLedgerSteps == IInv /\ [Next]_vars => [Ledger!Next]_Entries
<1> SUFFICES ASSUME IInv, [Next]_vars PROVE [Ledger!Next]_Entries
    OBVIOUS
<1>1. ASSUME NEW k \in Keys, NEW r \in Requests, EnqueueNew(k, r)
      PROVE  Ledger!Next
    BY <1>1, EnqueueAccepts DEF Ledger!Next
<1>2. ASSUME NEW k \in Keys, NEW r \in Requests, EnqueueReplay(k, r)
      PROVE  Entries' = Entries
    BY <1>2, EntriesAreKept DEF EnqueueReplay
<1>3. ASSUME NEW w \in Workers, Claim(w)
      PROVE  Entries' = Entries
    <2>1. PICK k \in Keys :
              /\ Eligible(k)
              /\ jobs' = [jobs EXCEPT ![k] = [jobs[k] EXCEPT !.status = "running",
                                                  !.attempts = jobs[k].attempts + 1,
                                                  !.worker = w, !.due = FALSE]]
        BY <1>3 DEF Claim
    <2> DEFINE new == [jobs[k] EXCEPT !.status = "running",
                                      !.attempts = jobs[k].attempts + 1,
                                      !.worker = w, !.due = FALSE]
    <2>2. new.status = "running" /\ new.request = jobs[k].request
        BY Typed, ClaimedRow DEF IInv
    <2> HIDE DEF new
    <2>3. jobs'[k] = new /\ \A j \in Keys : j # k => jobs'[j] = jobs[j]
        BY <2>1 DEF IInv, TypeOK, new
    <2> QED
        BY <1>3, <2>1, <2>2, <2>3, EntriesAreKept DEF Claim, Eligible
<1>4. ASSUME NEW k \in Keys, NEW due \in BOOLEAN,
             jobs' = [jobs EXCEPT ![k].due = due], UNCHANGED receipts
      PROVE  Entries' = Entries
    <2>1. jobs'[k].status = jobs[k].status /\ jobs'[k].request = jobs[k].request
        BY <1>4, Typed, TimedRow DEF IInv, TypeOK
    <2>2. \A j \in Keys : j # k => jobs'[j] = jobs[j]
        BY <1>4 DEF IInv, TypeOK
    <2> QED
        BY <1>4, <2>1, <2>2, EntriesAreKept
<1>5. ASSUME NEW w \in Workers, Complete(w) \/ Fail(w)
      PROVE  [Ledger!Next]_Entries
    <2>1. workers[w].key # None /\ Owns(w) /\ UNCHANGED receipts
        BY <1>5 DEF Complete, Fail, IInv, ClaimsAreBusy, Busy
    <2>2. \/ jobs' = Finished(workers[w].key, "completed")
          \/ jobs' = Finished(workers[w].key, "dead_letter")
          \/ jobs' = Finished(workers[w].key, "queued")
        BY <1>5 DEF Complete, Fail
    <2> QED
        BY <2>1, <2>2, FinishResolves
<1>6. ASSUME UNCHANGED <<jobs, receipts>>
      PROVE  Entries' = Entries
    BY <1>6, EntriesAreKept
<1>7. ASSUME NEW w \in Workers, Renew(w)
      PROVE  Entries' = Entries
    <2>1. \/ UNCHANGED <<jobs, receipts>>
          \/ /\ jobs' = [jobs EXCEPT ![workers[w].key].due = FALSE]
             /\ UNCHANGED receipts /\ workers[w].key \in Keys
        BY <1>7, Typed DEF Renew, IInv, ClaimsAreBusy, Busy
    <2> QED
        BY <1>4, <1>6, <2>1
<1>8. ASSUME NEW w \in Workers,
             RenewalFails(w) \/ HandlerEnds(w) \/ Refuse(w) \/ Die(w) \/ Restart(w)
      PROVE  Entries' = Entries
    BY <1>6, <1>8 DEF RenewalFails, HandlerEnds, Refuse, Die, Restart
<1>9. ASSUME NEW w \in Workers, Prune(w)
      PROVE  Entries' = Entries
    BY <1>9, PruneIsInvisible
<1>10. ASSUME NEW k \in Keys, BackoffElapses(k) \/ LeaseElapses(k) \/ Stall(k)
       PROVE  Entries' = Entries
    BY <1>4, <1>10 DEF BackoffElapses, LeaseElapses, Stall
<1>11. ASSUME UNCHANGED vars PROVE Entries' = Entries
    BY <1>6, <1>11 DEF vars
<1> QED
    BY <1>1, <1>2, <1>3, <1>5, <1>7, <1>8, <1>9, <1>10, <1>11 DEF Next, RunOnce

\* No step opens more rows than the queue has room for.
LEMMA CapacityIsKept ==
    ASSUME IInv, [Next]_vars, Cardinality(Open) <= MaxQueued,
           Ledger!OpenEntries = Open, Ledger!OpenEntries' = Open'
    PROVE  Cardinality(Open') <= MaxQueued
<1>1. [Ledger!Next]_Entries
    BY StepsAreLedgerSteps
<1>2. IsFiniteSet(Open) /\ IsFiniteSet(Open') /\ Cardinality(Open) \in Nat
    BY FinitelyManyKeys, FS_Subset, FS_CardinalityType DEF Open
<1>3. Ledger!OpenEntries = Open /\ Ledger!OpenEntries' = Open'
    OBVIOUS
<1>4. Entries = [j \in Keys |-> Entries[j]]
    BY DEF Entries
<1>5. CASE UNCHANGED Entries
    BY <1>3, <1>5 DEF Ledger!OpenEntries
<1>6. ASSUME NEW k \in Keys, NEW r \in Requests, Ledger!Accept(k, r)
      PROVE  Cardinality(Open') <= MaxQueued
    <2>1. Open' \subseteq Open \cup {k}
        BY <1>3, <1>4, <1>6 DEF Ledger!Accept, Ledger!OpenEntries
    <2>2. Ledger!Cardinality(Open) = Cardinality(Open)
        BY DEF Ledger!Cardinality, Cardinality
    <2>3. Cardinality(Open) < MaxQueued
        BY <1>3, <1>6, <2>2 DEF Ledger!Accept
    <2>4. /\ IsFiniteSet(Open \cup {k})
          /\ Cardinality(Open \cup {k}) =
                IF k \in Open THEN Cardinality(Open) ELSE Cardinality(Open) + 1
        BY <1>2, FS_AddElement
    <2>5. Cardinality(Open') <= Cardinality(Open \cup {k})
        BY <2>1, <2>4, FS_Subset
    <2>6. Cardinality(Open') \in Nat /\ Cardinality(Open \cup {k}) \in Nat
        BY <1>2, <2>4, FS_CardinalityType
    <2> QED
        BY <1>2, <2>3, <2>4, <2>5, <2>6, QueueConstants
<1>7. ASSUME NEW k \in Keys, NEW outcome \in Ledger!Outcomes, Ledger!Resolve(k, outcome)
      PROVE  Cardinality(Open') <= MaxQueued
    <2>1. Open' \subseteq Open
        BY <1>3, <1>4, <1>7 DEF Ledger!Resolve, Ledger!OpenEntries
    <2>2. Cardinality(Open') <= Cardinality(Open) /\ Cardinality(Open') \in Nat
        BY <1>2, <2>1, FS_Subset, FS_CardinalityType
    <2> QED
        BY <1>2, <2>2, QueueConstants
<1> QED
    BY <1>1, <1>5, <1>6, <1>7 DEF Ledger!Next

\* No other step than complete and fail ends a running job.
LEMMA OnlyCompleteAndFailEndJobs ==
    ASSUME IInv, [Next]_vars, NEW k \in Keys,
           jobs[k].status = "running", jobs'[k].status # "running"
    PROVE  \E w \in Workers : Complete(w) \/ Fail(w)
<1>1. ASSUME NEW j \in Keys, NEW r \in Requests, EnqueueNew(j, r)
      PROVE  FALSE
    <2>1. j # k
        BY <1>1 DEF EnqueueNew, Known
    <2> QED
        BY <1>1, <2>1 DEF EnqueueNew, IInv, TypeOK
<1>2. ASSUME NEW w \in Workers, Claim(w)
      PROVE  FALSE
    <2>1. PICK j \in Keys :
              jobs' = [jobs EXCEPT ![j] = [jobs[j] EXCEPT !.status = "running",
                                                  !.attempts = jobs[j].attempts + 1,
                                                  !.worker = w, !.due = FALSE]]
        BY <1>2 DEF Claim
    <2> DEFINE new == [jobs[j] EXCEPT !.status = "running",
                                      !.attempts = jobs[j].attempts + 1,
                                      !.worker = w, !.due = FALSE]
    <2>2. new.status = "running"
        <3>1. jobs[j] \in Job
            BY Typed DEF IInv
        <3> QED
            BY <3>1 DEF Job
    <2>3. jobs' = [jobs EXCEPT ![j] = new]
        BY <2>1
    <2> HIDE DEF new
    <2> QED
        BY <2>2, <2>3 DEF IInv, TypeOK
<1>3. ASSUME NEW j \in Keys, NEW due \in BOOLEAN, jobs' = [jobs EXCEPT ![j].due = due]
      PROVE  FALSE
    <2>1. jobs'[j].status = jobs[j].status
        BY <1>3, Typed, TimedRow DEF IInv, TypeOK
    <2> QED
        BY <1>3, <2>1 DEF IInv, TypeOK
<1>4. ASSUME NEW w \in Workers, Renew(w)
      PROVE  FALSE
    <2>1. workers[w].key \in Keys
        BY <1>4, Typed DEF Renew, IInv, ClaimsAreBusy, Busy
    <2> QED
        BY <1>3, <1>4, <2>1 DEF Renew
<1>5. ASSUME NEW w \in Workers, Prune(w)
      PROVE  FALSE
    BY <1>5 DEF Prune, TerminalStatuses
<1>6. ASSUME NEW w \in Workers,
             RenewalFails(w) \/ HandlerEnds(w) \/ Refuse(w) \/ Die(w) \/ Restart(w)
      PROVE  FALSE
    BY <1>6 DEF RenewalFails, HandlerEnds, Refuse, Die, Restart
<1>7. ASSUME NEW j \in Keys, BackoffElapses(j) \/ LeaseElapses(j) \/ Stall(j)
      PROVE  FALSE
    BY <1>3, <1>7 DEF BackoffElapses, LeaseElapses, Stall
<1>8. ~ (\E j \in Keys, r \in Requests : EnqueueReplay(j, r)) /\ jobs' # jobs
    BY DEF EnqueueReplay
<1> QED
    BY <1>1, <1>2, <1>4, <1>5, <1>6, <1>7, <1>8 DEF Next, RunOnce, vars

-----------------------------------------------------------------------------
(* The theorems.                                                           *)

\* The strengthening holds in every reachable state.
THEOREM QueueInvariance == Spec => []IInv
<1>1. Init => IInv
    BY InitEstablishes
<1>2. IInv /\ [Next]_vars => IInv'
    BY NextKeeps
<1> QED
    BY <1>1, <1>2, PTL DEF Spec

\* Rows, receipts and worker processes keep their types, whatever races.
THEOREM QueueTypeCorrect == Spec => []TypeOK
<1>1. IInv => TypeOK
    BY DEF IInv
<1> QED
    BY <1>1, QueueInvariance, PTL

\* A command the API answered for stays stored under its key, in exactly one
\* of jobs and job_terminal_receipts (enqueue, prune_terminal_jobs).
THEOREM AnswersStayStored == Spec => []AnswersAreDurable
<1>1. IInv => AnswersAreDurable
    BY DEF IInv
<1> QED
    BY <1>1, QueueInvariance, PTL

\* Without a disruption no two workers are ever in one job (claim_next,
\* renew_lease).
THEOREM HandlersAreExclusive == Spec => []OneHandlerUndisturbed
<1>1. IInv => OneHandlerUndisturbed
    BY DEF IInv, LeasesAreRenewed, OneHandlerUndisturbed, Owns
<1> QED
    BY <1>1, QueueInvariance, PTL

\* Racing, dying and restarted workers give callers the ledger: one request
\* and one outcome for each key.
THEOREM ImplementsJobLedger == Spec => LedgerSpec
<1>1. Init => Ledger!Init
    BY DEF Init, Ledger!Init, Entries, NoJob
<1>2. IInv /\ [Next]_vars => [Ledger!Next]_Entries
    BY StepsAreLedgerSteps
<1> QED
    BY <1>1, <1>2, QueueInvariance, PTL DEF Spec, LedgerSpec, Ledger!Spec

\* There are never more open jobs than max_queued_jobs (enqueue).
THEOREM QueueIsBounded == Spec => [](Cardinality(Open) <= MaxQueued)
<1>1. Init => Cardinality(Open) <= MaxQueued
    <2>1. Init => Open = {}
        BY DEF Init, Open, NoJob
    <2> QED
        BY <2>1, FS_EmptySet, QueueConstants
<1>2. IInv => Ledger!OpenEntries = Open
    BY OpenEntriesAreOpenRows
<1>3. /\ IInv /\ [Next]_vars /\ Cardinality(Open) <= MaxQueued
      /\ Ledger!OpenEntries = Open /\ (Ledger!OpenEntries = Open)'
      => (Cardinality(Open) <= MaxQueued)'
    BY CapacityIsKept
<1> QED
    BY <1>1, <1>2, <1>3, QueueInvariance, PTL DEF Spec

\* A job leaves "running" by the verdict of its latest claim only, whoever
\* claimed, stole or restarted in between (complete, fail).
THEOREM LatestClaimWins == Spec => LatestClaimDecides
<1>1. ASSUME IInv, [Next]_vars, NEW k \in Keys,
             jobs[k].status = "running", jobs'[k].status # "running"
      PROVE  \E w \in Workers :
                /\ workers[w].key = k /\ workers[w].attempt = jobs[k].attempts
                /\ jobs'[k].status = "completed" <=> workers[w].phase = "succeeded"
                /\ jobs'[k].status = "queued" => workers[w].attempt < MaxAttempts
    <2>1. PICK w \in Workers : Complete(w) \/ Fail(w)
        BY <1>1, OnlyCompleteAndFailEndJobs
    <2>2. workers[w].key # None /\ Owns(w) /\ workers[w].key \in Keys
          /\ workers[w].attempt = jobs[workers[w].key].attempts
        BY <1>1, <2>1, Typed
        DEF Complete, Fail, IInv, ClaimsAreBusy, LeaseIdentifiesClaim, Busy
    <2>3. CASE Complete(w)
        <3>1. jobs' = Finished(workers[w].key, "completed") /\ workers[w].phase = "succeeded"
            BY <2>3 DEF Complete
        <3>2. /\ jobs'[workers[w].key].status = "completed"
              /\ \A j \in Keys : j # workers[w].key => jobs'[j] = jobs[j]
            BY <1>1, <2>2, <3>1, FinishedQueue DEF IInv
        <3> QED
            BY <1>1, <2>2, <3>1, <3>2
    <2>4. CASE Fail(w)
        <3>1. PICK status \in {"queued", "dead_letter"} :
                  /\ jobs' = Finished(workers[w].key, status)
                  /\ status = "queued" => ~ (workers[w].attempt >= MaxAttempts)
            BY <2>4 DEF Fail
        <3>2. /\ jobs'[workers[w].key].status = status
              /\ \A j \in Keys : j # workers[w].key => jobs'[j] = jobs[j]
            BY <1>1, <2>2, <3>1, FinishedQueue DEF IInv
        <3>3. workers[w].phase # "succeeded" /\ workers[w].attempt \in Nat
            BY <1>1, <2>4, Typed, WorkerFields DEF Fail, IInv
        <3> QED
            BY <1>1, <2>2, <3>1, <3>2, <3>3, QueueConstants
    <2> QED
        BY <2>1, <2>3, <2>4
<1>2. IInv /\ [Next]_vars => EndsByLatestClaim
    BY <1>1 DEF EndsByLatestClaim
<1> QED
    BY <1>2, QueueInvariance, PTL DEF Spec, LatestClaimDecides
=============================================================================
