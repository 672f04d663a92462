-------------------------------- MODULE Intake --------------------------------
(***************************************************************************)
(* The ingestion webhook: a connector signs and sends an event, the        *)
(* network repeats and delays it, the verifier checks it, enqueues its job *)
(* and reserves its event id, n8n dispatches what was accepted. Requests   *)
(* overlap and die between two steps; replay records expire.               *)
(* The job queue is its ledger (JobLedger): a key is bound to one payload. *)
(***************************************************************************)
EXTENDS Naturals, FiniteSets

CONSTANTS
    IngestEvents, \* event ids
    Envelopes,    \* operations with their payloads
    Window,       \* tolerance of the signature's timestamp
    Retention,    \* how long an event id is remembered
    CleanupBatch, \* expired records deleted by one reservation
    LastHour,     \* bound: the clock
    OnWire,       \* bound: messages on the wire, each of which may arrive again
    AtOnce        \* bound: requests in the handler

ASSUME IntakeConstants ==
    /\ {Window, Retention, CleanupBatch, LastHour} \subseteq Nat
    /\ Window < Retention /\ CleanupBatch > 0

VARIABLES
    hour,      \* the clock
    wire,      \* signed messages, which may arrive again
    intake,    \* requests between two steps of the handler
    jobs,      \* jobs[e]: the payload bound to the key e
    reserved,  \* reserved[e]: when the event was accepted, while remembered
    tickets,   \* dispatch signatures handed out, with the envelope they came with
    lastAccepted \* history variable: when the event was last accepted

intakeVars == <<hour, wire, intake, jobs, reserved, tickets, lastAccepted>>

-----------------------------------------------------------------------------
NoJob == "no job"
ASSUME NoJobIsNoEnvelope == NoJob \notin Envelopes
Never == LastHour + 1
SignedMessage == [event : IngestEvents, envelope : Envelopes, sent : 0 .. LastHour]
Inflight == [event : IngestEvents, envelope : Envelopes, stage : {"verified", "enqueued"}]
Ticket == [event : IngestEvents, envelope : Envelopes]

IntakeInit ==
    /\ hour = 0
    /\ wire = {} /\ intake = {} /\ tickets = {}
    /\ jobs = [e \in IngestEvents |-> NoJob]
    /\ reserved = [e \in IngestEvents |-> Never]
    /\ lastAccepted = [e \in IngestEvents |-> Never]

HourPasses ==
    /\ hour < LastHour /\ hour' = hour + 1
    /\ UNCHANGED <<wire, intake, jobs, reserved, tickets, lastAccepted>>

\* The connector signs an event; it may sign it again, later or with other content.
Send(e, envelope) ==
    /\ Cardinality(wire) < OnWire
    /\ wire' = wire \cup {[event |-> e, envelope |-> envelope, sent |-> hour]}
    /\ UNCHANGED <<hour, intake, jobs, reserved, tickets, lastAccepted>>

WireForgets(m) ==
    /\ m \in wire /\ wire' = wire \ {m}
    /\ UNCHANGED <<hour, intake, jobs, reserved, tickets, lastAccepted>>

\* What verify_n8n_webhook refuses before it touches a store.
RefusedEarly == {"scope", "media type", "length", "version", "signature", "envelope", "tenant"}

SignatureHolds(m, flaws) ==
    /\ flaws \cap {"version", "signature"} = {}
    /\ hour - m.sent <= Window

\* The checks, up to the enqueue.
Verify(m) ==
    /\ m \in wire /\ Cardinality(intake) < AtOnce
    /\ \E flaws \in {{}} \cup {{f} : f \in RefusedEarly} :
         /\ flaws \ {"version", "signature"} = {}
         /\ SignatureHolds(m, flaws)
    /\ intake' = intake \cup {[event |-> m.event, envelope |-> m.envelope, stage |-> "verified"]}
    /\ UNCHANGED <<hour, wire, jobs, reserved, tickets, lastAccepted>>

\* The queue's answer to an idempotency key: bound, replayed, or a conflict.
Binds(e, envelope) == jobs[e] \in {NoJob, envelope}

\* enqueue, which a full queue refuses; a conflict ends the request.
EnqueueEvent(q) ==
    /\ q \in intake /\ q.stage = "verified"
    /\ IF Binds(q.event, q.envelope)
       THEN /\ jobs' = [jobs EXCEPT ![q.event] = q.envelope]
            /\ intake' = (intake \ {q}) \cup {[q EXCEPT !.stage = "enqueued"]}
       ELSE intake' = intake \ {q} /\ UNCHANGED jobs
    /\ UNCHANGED <<hour, wire, reserved, tickets, lastAccepted>>

\* Expired records, of which a reservation deletes the oldest.
Expired == {e \in IngestEvents : reserved[e] # Never /\ hour - reserved[e] > Retention}

Forgettable == {gone \in SUBSET Expired :
    /\ Cardinality(gone) = IF Cardinality(Expired) < CleanupBatch THEN Cardinality(Expired) ELSE CleanupBatch
    /\ \A e \in gone, kept \in Expired \ gone : reserved[e] <= reserved[kept]}

\* Mutant: the event is reserved before its job is enqueued.
ReadyAtOnce(q) == q \in intake

ReadyToReserve(q) == q \in intake /\ q.stage = "enqueued"

\* Mutant: an id that is still remembered is taken anew.
AlwaysFree(e, gone) == TRUE

FreeToReserve(e, gone) == reserved[e] = Never \/ e \in gone

\* reserve_event, and the reply: accepted with a dispatch signature, or not.
\* A refused insert undoes its cleanup.
Reserve(q) ==
    /\ ReadyToReserve(q)
    /\ intake' = intake \ {q}
    /\ \E gone \in Forgettable :
         IF FreeToReserve(q.event, gone)
         THEN /\ reserved' = [e \in IngestEvents |-> IF e = q.event THEN hour
                                                     ELSE IF e \in gone THEN Never ELSE reserved[e]]
              /\ tickets' = tickets \cup {[event |-> q.event, envelope |-> q.envelope]}
              /\ lastAccepted' = [lastAccepted EXCEPT ![q.event] = hour]
         ELSE UNCHANGED <<reserved, tickets, lastAccepted>>
    /\ UNCHANGED <<hour, wire, jobs>>

\* The process dies, the queue is full, or the caller is gone.
RequestLost(q) ==
    /\ q \in intake
    /\ intake' = intake \ {q}
    /\ UNCHANGED <<hour, wire, jobs, reserved, tickets, lastAccepted>>

\* enqueue_internal_job: n8n dispatches what was accepted, under the signature.
EnqueueJob(t) ==
    /\ t \in tickets
    /\ IF Binds(t.event, t.envelope)
       THEN jobs' = [jobs EXCEPT ![t.event] = t.envelope] ELSE UNCHANGED jobs
    /\ UNCHANGED <<hour, wire, intake, reserved, tickets, lastAccepted>>

IntakeNext ==
    \/ HourPasses
    \/ \E e \in IngestEvents, envelope \in Envelopes : Send(e, envelope)
    \/ \E m \in wire : Verify(m) \/ WireForgets(m)
    \/ \E q \in intake : EnqueueEvent(q) \/ Reserve(q) \/ RequestLost(q)
    \/ \E t \in tickets : EnqueueJob(t)

IntakeSpec == IntakeInit /\ [][IntakeNext]_intakeVars

-----------------------------------------------------------------------------
IntakeTypeOK ==
    /\ hour \in 0 .. LastHour
    /\ wire \subseteq SignedMessage /\ intake \subseteq Inflight /\ tickets \subseteq Ticket
    /\ jobs \in [IngestEvents -> Envelopes \cup {NoJob}]
    /\ {reserved, lastAccepted} \subseteq [IngestEvents -> 0 .. Never]

\* Whatever is repeated, delayed, changed or lost: an event that is remembered
\* as accepted has its job, and every dispatch that was authorised is of that
\* job's payload, so that n8n's dispatch never meets a conflict.
AcceptedHasItsJob ==
    /\ \A e \in IngestEvents : reserved[e] # Never => jobs[e] # NoJob
    /\ \A t \in tickets : jobs[t.event] = t.envelope

\* An event is accepted at most once within the retention, and from then on at
\* most once in every such period, however late its records are cleaned up.
AcceptedOnce ==
    \A e \in IngestEvents :
        lastAccepted'[e] # lastAccepted[e] /\ lastAccepted[e] # Never =>
            lastAccepted'[e] - lastAccepted[e] > Retention

AcceptsSparingly == [][AcceptedOnce]_intakeVars

\* Intake is sound: what it accepts has its job, and is accepted once.
IntakeIsSound == []AcceptedHasItsJob /\ AcceptsSparingly
=============================================================================
