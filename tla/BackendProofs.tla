----------------------------- MODULE BackendProofs -----------------------------
(***************************************************************************)
(* Proofs about the AI backend: what operates it (the intake of webhooks,  *)
(* the cutover of the RAG store, the rollout pointer, the artifact         *)
(* registry and the audit ledger), and its answers and boundaries          *)
(* (generated answers, retrieval, the gateway of tool calls and requests,  *)
(* the extraction of documents). They share no state; each part has its    *)
(* inductive invariant, a lemma for every action that changes what the     *)
(* invariant relates, and its theorem.                                     *)
(***************************************************************************)
EXTENDS Intake, Recovery, Promotion, ArtifactRegistry, AuditTrail, Answers, Gateway, Extraction,
        FiniteSetTheorems, FunctionTheorems, SequenceTheorems, TLAPS

-----------------------------------------------------------------------------
(* The ingestion webhook (Intake).                                         *)

\* What was accepted is remembered, or was accepted longer than a retention ago.
JobRemembered(e) ==
    /\ lastAccepted[e] # Never => lastAccepted[e] <= hour
    /\ reserved[e] # Never => lastAccepted[e] = reserved[e]
    /\ lastAccepted[e] # Never /\ reserved[e] = Never => hour - lastAccepted[e] > Retention

\* A request that was enqueued has its job.
EnqueuedHasItsJob == \A q \in intake : q.stage = "enqueued" => jobs[q.event] = q.envelope

IntakeInv ==
    /\ IntakeTypeOK
    /\ AcceptedHasItsJob
    /\ EnqueuedHasItsJob
    /\ \A e \in IngestEvents : JobRemembered(e)

LEMMA IntakeTypes ==
    ASSUME IntakeTypeOK
    PROVE  /\ hour \in Nat /\ hour <= LastHour /\ LastHour \in Nat /\ Retention \in Nat
           /\ Never \in Nat /\ Never > hour
           /\ \A e \in IngestEvents : reserved[e] \in Nat /\ lastAccepted[e] \in Nat
           /\ \A q \in intake : q \in Inflight /\ q.event \in IngestEvents /\ q.envelope \in Envelopes
           /\ \A t \in tickets : t.event \in IngestEvents /\ t.envelope \in Envelopes
BY IntakeConstants DEF IntakeTypeOK, Never, Inflight, Ticket

LEMMA IntakeStarts == IntakeInit => IntakeInv
<1>1. SUFFICES ASSUME IntakeInit PROVE IntakeInv
    OBVIOUS
<1>2. IntakeTypeOK
    BY <1>1, IntakeConstants DEF IntakeInit, IntakeTypeOK, Never
<1> QED
    BY <1>1, <1>2 DEF IntakeInit, IntakeInv, AcceptedHasItsJob, EnqueuedHasItsJob, JobRemembered

\* A job stays bound to its payload.
LEMMA BoundStays ==
    ASSUME IntakeTypeOK, NEW e \in IngestEvents, NEW envelope \in Envelopes, Binds(e, envelope)
    PROVE  /\ [jobs EXCEPT ![e] = envelope] \in [IngestEvents -> Envelopes \cup {NoJob}]
           /\ [jobs EXCEPT ![e] = envelope][e] = envelope
           /\ \A d \in IngestEvents : jobs[d] # NoJob => [jobs EXCEPT ![e] = envelope][d] = jobs[d]
BY DEF IntakeTypeOK, Binds

LEMMA HourPassesSound ==
    ASSUME IntakeInv, HourPasses
    PROVE  IntakeInv'
<1>1. IntakeTypeOK'
    BY IntakeConstants DEF IntakeInv, IntakeTypeOK, HourPasses
<1>2. /\ IntakeTypeOK /\ hour' = hour + 1
      /\ UNCHANGED <<intake, jobs, reserved, tickets, lastAccepted>>
    BY DEF IntakeInv, HourPasses
<1>3. \A e \in IngestEvents : JobRemembered(e)'
    <2> SUFFICES ASSUME NEW e \in IngestEvents PROVE JobRemembered(e)'
        OBVIOUS
    <2>1. JobRemembered(e) /\ hour \in Nat /\ Retention \in Nat
          /\ reserved[e] \in Nat /\ lastAccepted[e] \in Nat
        BY <1>2, IntakeTypes DEF IntakeInv
    <2> QED
        BY <1>2, <2>1 DEF JobRemembered, Never
<1> QED
    BY <1>1, <1>2, <1>3 DEF IntakeInv, AcceptedHasItsJob, EnqueuedHasItsJob

\* Steps of the wire, and requests that come and go.
LEMMA RequestStepSound ==
    ASSUME IntakeInv, UNCHANGED <<hour, jobs, reserved, tickets, lastAccepted>>,
           wire' \subseteq SignedMessage, intake' \subseteq Inflight,
           \A q \in intake' : q \in intake \/ q.stage = "verified"
    PROVE  IntakeInv'
<1>1. IntakeTypeOK'
    BY DEF IntakeInv, IntakeTypeOK
<1>2. EnqueuedHasItsJob'
    BY DEF IntakeInv, EnqueuedHasItsJob
<1>3. AcceptedHasItsJob'
    BY DEF IntakeInv, AcceptedHasItsJob
<1>4. \A e \in IngestEvents : JobRemembered(e)'
    BY DEF IntakeInv, JobRemembered
<1> QED
    BY <1>1, <1>2, <1>3, <1>4 DEF IntakeInv

LEMMA BindingStepSound ==
    ASSUME IntakeInv, UNCHANGED <<hour, wire, reserved, tickets, lastAccepted>>,
           NEW e \in IngestEvents, NEW envelope \in Envelopes, Binds(e, envelope),
           jobs' = [jobs EXCEPT ![e] = envelope], intake' \subseteq Inflight,
           \A q \in intake' : q \in intake \/ q.stage = "verified" \/ (q.event = e /\ q.envelope = envelope)
    PROVE  IntakeInv'
<1>1. /\ IntakeTypeOK /\ jobs' \in [IngestEvents -> Envelopes \cup {NoJob}] /\ jobs'[e] = envelope
      /\ \A d \in IngestEvents : jobs[d] # NoJob => jobs'[d] = jobs[d]
    BY BoundStays DEF IntakeInv
<1>2. IntakeTypeOK'
    BY <1>1 DEF IntakeTypeOK
<1>3. \A q \in intake : q.event \in IngestEvents /\ q.envelope \in Envelopes
    BY <1>1, IntakeTypes
<1>4. EnqueuedHasItsJob'
    BY <1>1, <1>3, NoJobIsNoEnvelope DEF IntakeInv, EnqueuedHasItsJob
<1>5. \A t \in tickets : t.event \in IngestEvents /\ t.envelope \in Envelopes
    BY <1>1, IntakeTypes
<1>6. AcceptedHasItsJob'
    BY <1>1, <1>5, NoJobIsNoEnvelope DEF IntakeInv, AcceptedHasItsJob
<1>7. \A d \in IngestEvents : JobRemembered(d)'
    BY DEF IntakeInv, JobRemembered
<1> QED
    BY <1>2, <1>4, <1>6, <1>7 DEF IntakeInv

LEMMA ReserveSound ==
    ASSUME IntakeInv, NEW q \in intake, Reserve(q)
    PROVE  IntakeInv' /\ AcceptedOnce
<1>1. /\ IntakeTypeOK /\ q \in Inflight /\ q.event \in IngestEvents /\ q.envelope \in Envelopes
      /\ q.stage = "enqueued" /\ intake' = intake \ {q} /\ UNCHANGED <<hour, wire, jobs>>
      /\ jobs[q.event] = q.envelope
    BY IntakeTypes DEF IntakeInv, EnqueuedHasItsJob, Reserve, ReadyToReserve
<1>2. CASE UNCHANGED <<reserved, tickets, lastAccepted>>
    <2>1. intake' \subseteq Inflight /\ wire' \subseteq SignedMessage
        BY <1>1 DEF IntakeTypeOK
    <2>2. IntakeInv'
        BY <1>1, <1>2, <2>1, RequestStepSound
    <2> QED
        BY <1>2, <2>2 DEF AcceptedOnce
<1>3. ASSUME NEW gone \in Forgettable, FreeToReserve(q.event, gone),
             reserved' = [e \in IngestEvents |-> IF e = q.event THEN hour
                                                 ELSE IF e \in gone THEN Never ELSE reserved[e]],
             tickets' = tickets \cup {[event |-> q.event, envelope |-> q.envelope]},
             lastAccepted' = [lastAccepted EXCEPT ![q.event] = hour]
      PROVE  IntakeInv' /\ AcceptedOnce
    <2>1. /\ hour \in Nat /\ hour <= LastHour /\ Retention \in Nat /\ LastHour \in Nat
          /\ Never \in Nat /\ Never > hour
          /\ \A e \in IngestEvents : reserved[e] \in 0 .. Never /\ lastAccepted[e] \in 0 .. Never
          /\ lastAccepted \in [IngestEvents -> 0 .. Never]
        BY <1>1, IntakeTypes DEF IntakeTypeOK
    <2>2. \A e \in gone : reserved[e] # Never /\ hour - reserved[e] > Retention
        BY <1>3 DEF Forgettable, Expired
    <2>3. /\ reserved' \in [IngestEvents -> 0 .. Never]
          /\ lastAccepted' \in [IngestEvents -> 0 .. Never]
        <3>1. hour \in 0 .. Never /\ Never \in 0 .. Never
            BY <2>1
        <3>2. \A e \in IngestEvents : reserved'[e] \in 0 .. Never
            BY <1>3, <2>1, <3>1
        <3>3. reserved' = [e \in IngestEvents |-> reserved'[e]]
            BY <1>3
        <3> QED
            BY <1>3, <2>1, <3>1, <3>2, <3>3
    <2>4. IntakeTypeOK'
        <3>1. tickets' \subseteq Ticket
            BY <1>1, <1>3 DEF IntakeTypeOK, Ticket
        <3> QED
            BY <1>1, <2>3, <3>1 DEF IntakeTypeOK, Never
    <2>5. AcceptedHasItsJob'
        <3>1. \A e \in IngestEvents : reserved'[e] # Never => jobs'[e] # NoJob
            BY <1>1, <1>3, <2>1, NoJobIsNoEnvelope DEF IntakeInv, AcceptedHasItsJob
        <3>2. \A t \in tickets' : jobs'[t.event] = t.envelope
            BY <1>1, <1>3 DEF IntakeInv, AcceptedHasItsJob
        <3> QED
            BY <3>1, <3>2 DEF AcceptedHasItsJob, Never
    <2>6. EnqueuedHasItsJob'
        BY <1>1 DEF IntakeInv, EnqueuedHasItsJob
    <2>7. ASSUME NEW e \in IngestEvents
          PROVE  /\ JobRemembered(e)'
                 /\ lastAccepted'[e] # lastAccepted[e] /\ lastAccepted[e] # Never =>
                       lastAccepted'[e] - lastAccepted[e] > Retention
        <3>1. JobRemembered(e)
            BY DEF IntakeInv
        <3>2. CASE e = q.event
            <4>1. reserved'[e] = hour /\ lastAccepted'[e] = hour
                BY <1>3, <2>1, <3>2
            <4>2. lastAccepted[e] # Never => hour - lastAccepted[e] > Retention
                BY <1>3, <2>1, <2>2, <3>1, <3>2 DEF FreeToReserve, JobRemembered
            <4> QED
                BY <1>1, <2>1, <4>1, <4>2 DEF JobRemembered, Never
        <3>3. CASE e # q.event
            <4>1. lastAccepted'[e] = lastAccepted[e]
                BY <1>3, <2>1, <3>3
            <4>2. reserved'[e] = IF e \in gone THEN Never ELSE reserved[e]
                BY <1>3, <3>3
            <4>3. e \in gone => lastAccepted[e] = reserved[e] /\ hour - lastAccepted[e] > Retention
                BY <2>2, <3>1 DEF JobRemembered
            <4> QED
                BY <1>1, <2>1, <3>1, <4>1, <4>2, <4>3 DEF JobRemembered, Never
        <3> QED
            BY <3>2, <3>3
    <2> QED
        BY <2>4, <2>5, <2>6, <2>7 DEF IntakeInv, AcceptedOnce
<1> QED
    BY <1>2, <1>3 DEF Reserve

LEMMA IntakeStep ==
    ASSUME IntakeInv, [IntakeNext]_intakeVars
    PROVE  IntakeInv' /\ [AcceptedOnce]_intakeVars
<1>1. IntakeTypeOK /\ wire \subseteq SignedMessage /\ intake \subseteq Inflight
    BY DEF IntakeInv, IntakeTypeOK
<1>2. CASE HourPasses
    BY <1>2, HourPassesSound DEF HourPasses, AcceptedOnce
<1>3. ASSUME NEW e \in IngestEvents, NEW envelope \in Envelopes, Send(e, envelope)
      PROVE  IntakeInv' /\ AcceptedOnce
    <2>1. [event |-> e, envelope |-> envelope, sent |-> hour] \in SignedMessage
        BY <1>1 DEF IntakeTypeOK, SignedMessage
    <2>2. /\ wire' \subseteq SignedMessage /\ intake' \subseteq Inflight
          /\ \A q \in intake' : q \in intake \/ q.stage = "verified"
          /\ UNCHANGED <<hour, jobs, reserved, tickets, lastAccepted>>
        BY <1>1, <1>3, <2>1 DEF Send
    <2> QED
        BY <2>2, RequestStepSound DEF AcceptedOnce
<1>4. ASSUME NEW m \in wire, Verify(m) \/ WireForgets(m)
      PROVE  IntakeInv' /\ AcceptedOnce
    <2>1. [event |-> m.event, envelope |-> m.envelope, stage |-> "verified"] \in Inflight
        BY <1>1 DEF SignedMessage, Inflight
    <2>2. /\ wire' \subseteq SignedMessage /\ intake' \subseteq Inflight
          /\ \A q \in intake' : q \in intake \/ q.stage = "verified"
          /\ UNCHANGED <<hour, jobs, reserved, tickets, lastAccepted>>
        BY <1>1, <1>4, <2>1 DEF Verify, WireForgets
    <2> QED
        BY <2>2, RequestStepSound DEF AcceptedOnce
<1>5. ASSUME NEW q \in intake, EnqueueEvent(q)
      PROVE  IntakeInv' /\ AcceptedOnce
    <2>1. q \in Inflight /\ q.event \in IngestEvents /\ q.envelope \in Envelopes
        BY <1>1, IntakeTypes
    <2>2. CASE Binds(q.event, q.envelope)
        <3> DEFINE r == [q EXCEPT !.stage = "enqueued"]
        <3>1. r \in Inflight /\ r.event = q.event /\ r.envelope = q.envelope
            BY <2>1 DEF Inflight
        <3>2. /\ jobs' = [jobs EXCEPT ![q.event] = q.envelope] /\ intake' = (intake \ {q}) \cup {r}
              /\ UNCHANGED <<hour, wire, reserved, tickets, lastAccepted>>
            BY <1>5, <2>2 DEF EnqueueEvent
        <3> HIDE DEF r
        <3>3. /\ intake' \subseteq Inflight
              /\ \A p \in intake' : p \in intake \/ p.stage = "verified"
                                    \/ (p.event = q.event /\ p.envelope = q.envelope)
            BY <1>1, <3>1, <3>2
        <3> QED
            BY <2>1, <2>2, <3>2, <3>3, BindingStepSound DEF AcceptedOnce
    <2>3. CASE ~ Binds(q.event, q.envelope)
        <3>1. /\ intake' = intake \ {q}
              /\ UNCHANGED <<hour, wire, jobs, reserved, tickets, lastAccepted>>
            BY <1>5, <2>3 DEF EnqueueEvent
        <3> QED
            BY <1>1, <3>1, RequestStepSound DEF AcceptedOnce
    <2> QED
        BY <2>2, <2>3
<1>6. ASSUME NEW q \in intake, Reserve(q)
      PROVE  IntakeInv' /\ AcceptedOnce
    BY <1>6, ReserveSound
<1>7. ASSUME NEW q \in intake, RequestLost(q)
      PROVE  IntakeInv' /\ AcceptedOnce
    <2>1. /\ intake' = intake \ {q}
          /\ UNCHANGED <<hour, wire, jobs, reserved, tickets, lastAccepted>>
        BY <1>7 DEF RequestLost
    <2> QED
        BY <1>1, <2>1, RequestStepSound DEF AcceptedOnce
<1>8. ASSUME NEW t \in tickets, EnqueueJob(t)
      PROVE  IntakeInv' /\ AcceptedOnce
    <2>1. t.event \in IngestEvents /\ t.envelope \in Envelopes
        BY <1>1, IntakeTypes
    <2>2. UNCHANGED <<hour, wire, intake, reserved, tickets, lastAccepted>>
        BY <1>8 DEF EnqueueJob
    <2>3. CASE Binds(t.event, t.envelope)
        <3>1. jobs' = [jobs EXCEPT ![t.event] = t.envelope]
            BY <1>8, <2>3 DEF EnqueueJob
        <3> QED
            BY <1>1, <2>1, <2>2, <2>3, <3>1, BindingStepSound DEF AcceptedOnce
    <2>4. CASE ~ Binds(t.event, t.envelope)
        <3>1. UNCHANGED jobs
            BY <1>8, <2>4 DEF EnqueueJob
        <3> QED
            BY <1>1, <2>2, <3>1, RequestStepSound DEF AcceptedOnce
    <2> QED
        BY <2>3, <2>4
<1>9. CASE UNCHANGED intakeVars
    <2>1. UNCHANGED <<hour, wire, intake, jobs, reserved, tickets, lastAccepted>>
        BY <1>9 DEF intakeVars
    <2> QED
        BY <1>1, <2>1, RequestStepSound DEF AcceptedOnce
<1> QED
    BY <1>2, <1>3, <1>4, <1>5, <1>6, <1>7, <1>8, <1>9 DEF IntakeNext

\* The intake keeps its types (IntakeTypeOK); what it remembers as accepted, and
\* what n8n was authorised to dispatch, has its job with that payload; and an
\* event is accepted at most once in a retention, however often messages are
\* repeated, delayed or changed, whatever requests die, and however late the
\* records are cleaned up (webhooks.py, internal.py).
THEOREM IntakeSound == IntakeSpec => []IntakeTypeOK /\ IntakeIsSound
<1>1. IntakeInv /\ [IntakeNext]_intakeVars => IntakeInv' /\ [AcceptedOnce]_intakeVars
    BY IntakeStep
<1>2. IntakeInv => IntakeTypeOK /\ AcceptedHasItsJob
    BY DEF IntakeInv
<1>3. IntakeSpec => []IntakeInv
    BY IntakeStarts, <1>1, PTL DEF IntakeSpec
<1> QED
    BY <1>1, <1>2, <1>3, PTL DEF IntakeSpec, IntakeIsSound, AcceptsSparingly
-----------------------------------------------------------------------------
(* The alias (Cutover).                                                    *)

\* When no command is under way: the alias is where the last report says.
AliasSettled == certain => alias = reported /\ (audited # reported => doubtful)

\* What holds of a command that no other overlaps; where it stands, the alias
\* stands.
CommandSound(o) ==
    LET c == commands[o] IN
    /\ \A p \in Operators \ {o} : CommandOver(p)
    /\ c.at \in {"attempted", "checked"} => alias = Source(c.action)
    /\ c.at \in {"switched", "active", "committed"} => alias = Target(c.action)
    /\ c.at = "committed" => audited = Target(c.action)
    /\ certain => /\ reported = Source(c.action)
                  /\ c.at # "committed" => (audited # reported => doubtful)

SwitchInv ==
    /\ CutoverTypeOK
    /\ (\A o \in Operators : CommandOver(o)) => AliasSettled
    /\ \A o \in Operators : ~ CommandOver(o) =>
          IF commands[o].alone THEN CommandSound(o) ELSE ~ certain

LEMMA CutoverStarts == CutoverInit => SwitchInv
<1> SUFFICES ASSUME CutoverInit PROVE SwitchInv
    OBVIOUS
<1>1. NoCommand \in Commands /\ NoCommand.at = "idle"
    BY DEF NoCommand, Commands
<1>2. \A o \in Operators : CommandOver(o)
    BY <1>1 DEF CutoverInit, CommandOver
<1>3. CutoverTypeOK
    <2>1. commands \in [Operators -> Commands]
        BY <1>1 DEF CutoverInit
    <2>2. /\ {alias, audited, reported} \subseteq Collections
          /\ doubtful \in BOOLEAN /\ certain \in BOOLEAN
          /\ candidate \subseteq Documents /\ canonical \subseteq Documents /\ todo \subseteq Documents
        BY DEF CutoverInit, Collections
    <2>3. failures \in 0 .. Failures
        BY CutoverConstants DEF CutoverInit
    <2> QED
        BY <2>1, <2>2, <2>3, Zenon DEF CutoverTypeOK
<1> QED
    BY <1>2, <1>3 DEF SwitchInv, AliasSettled, CutoverInit

LEMMA BackfillStep ==
    ASSUME SwitchInv, StartBackfill \/ \E d \in Documents : Backfill(d) \/ Tombstone(d)
    PROVE  SwitchInv'
<1>1. UNCHANGED <<alias, commands, audited, reported, doubtful, certain>>
    BY DEF StartBackfill, Backfill, Tombstone, UnchangedByBackfill
<1>2. failures' \in 0 .. Failures
    BY CutoverConstants DEF SwitchInv, CutoverTypeOK, StartBackfill, Backfill, Tombstone, Works, Fails
<1>3. candidate' \subseteq Documents /\ canonical' \subseteq Documents /\ todo' \subseteq Documents
    BY DEF SwitchInv, CutoverTypeOK, StartBackfill, Backfill, Tombstone
<1>4. CutoverTypeOK'
    BY <1>1, <1>2, <1>3 DEF SwitchInv, CutoverTypeOK
<1> QED
    BY <1>1, <1>4 DEF SwitchInv, AliasSettled, CommandSound, CommandOver

\* A step of a command that is under way.
CommandContinues(o) ==
    \/ Check(o) \/ Switch(o) \/ ReadBack(o) \/ Audit(o) \/ Confirm(o) \/ Compensate(o)
    \/ Undo(o) \/ OperatorDies(o)

CommandStep(o) == Preflight(o) \/ CommandContinues(o)

\* A command goes to another point and nothing else of it changes.
LEMMA CommandMoves ==
    ASSUME SwitchInv, NEW o \in Operators, CommandContinues(o)
    PROVE  /\ commands' \in [Operators -> Commands]
           /\ commands'[o].action = commands[o].action
           /\ commands'[o].alone = commands[o].alone
           /\ \A p \in Operators \ {o} : commands'[p] = commands[p]
           /\ ~ CommandOver(o)
<1>1. commands \in [Operators -> Commands]
    BY DEF SwitchInv, CutoverTypeOK
<1>2. PICK at \in {"idle", "checked", "switched", "active", "committed", "failed", "undoing"} : At(o, at)
    BY DEF CommandContinues, Check, Switch, ReadBack, Audit, Confirm, Compensate, Undo, OperatorDies
<1>3. commands' = [commands EXCEPT ![o] = [commands[o] EXCEPT !.at = at]]
    BY <1>2 DEF At
<1>4. /\ [commands[o] EXCEPT !.at = at] \in Commands
      /\ [commands[o] EXCEPT !.at = at].action = commands[o].action
      /\ [commands[o] EXCEPT !.at = at].alone = commands[o].alone
    BY <1>1 DEF Commands
<1>5. ~ CommandOver(o)
    BY DEF CommandContinues, Check, Switch, ReadBack, Audit, Confirm, Compensate, Undo, OperatorDies, CommandOver
<1> QED
    BY <1>1, <1>3, <1>4, <1>5

LEMMA CommandTyped ==
    ASSUME SwitchInv, NEW o \in Operators, CommandStep(o)
    PROVE  CutoverTypeOK'
<1>1. UNCHANGED <<candidate, canonical, todo>>
    BY DEF CommandStep, CommandContinues, Preflight, Check, Switch, ReadBack, Audit, Confirm, Compensate,
           Undo, OperatorDies, UnchangedByCommand
<1>2. failures' \in 0 .. Failures
    BY CutoverConstants DEF SwitchInv, CutoverTypeOK, CommandStep, CommandContinues, Preflight, Check,
           Switch, ReadBack, Audit, Confirm, Compensate, Undo, OperatorDies, Works, Fails
<1>3. commands' \in [Operators -> Commands]
    <2>1. CASE Preflight(o)
        <3>1. commands \in [Operators -> Commands]
            BY DEF SwitchInv, CutoverTypeOK
        <3>2. PICK action \in {"cutover", "rollback"} :
                 \/ commands' = [commands EXCEPT
                       ![o] = [at |-> "attempted", action |-> action, alone |-> TRUE]]
                 \/ commands' = [p \in Operators |->
                       IF p = o THEN [at |-> "attempted", action |-> action, alone |-> FALSE]
                                ELSE [commands[p] EXCEPT !.alone = FALSE]]
            BY <2>1 DEF Preflight
        <3>3. /\ \A b \in BOOLEAN : [at |-> "attempted", action |-> action, alone |-> b] \in Commands
              /\ \A p \in Operators : [commands[p] EXCEPT !.alone = FALSE] \in Commands
            BY <3>1 DEF Commands
        <3> QED
            BY <3>1, <3>2, <3>3
    <2> QED
        BY <2>1, CommandMoves DEF CommandStep
<1>4. alias' \in Collections /\ audited' \in Collections /\ reported' \in Collections
    BY DEF SwitchInv, CutoverTypeOK, CommandStep, CommandContinues, Preflight, Check, Switch, ReadBack,
           Audit, Confirm, Compensate, Undo, OperatorDies, Source, Target, Collections
<1>5. doubtful' \in BOOLEAN /\ certain' \in BOOLEAN
    <2>1. /\ doubtful \in BOOLEAN /\ certain \in BOOLEAN
          /\ commands[o].alone \in BOOLEAN
        BY DEF SwitchInv, CutoverTypeOK, Commands
    <2>2. doubtful' = doubtful \/ doubtful' = TRUE \/ doubtful' = FALSE
        BY DEF CommandStep, CommandContinues, Preflight, Check, Switch, ReadBack, Audit, Confirm,
               Compensate, Undo, OperatorDies
    <2>3. certain' = certain \/ certain' = FALSE \/ certain' = (certain \/ commands[o].alone)
        BY DEF CommandStep, CommandContinues, Preflight, Check, Switch, ReadBack, Audit, Confirm,
               Compensate, Undo, OperatorDies
    <2> QED
        BY <2>1, <2>2, <2>3, Zenon
<1>6. {alias', audited', reported'} \subseteq Collections
    BY <1>4
<1>7. /\ candidate' \subseteq Documents /\ canonical' \subseteq Documents /\ todo' \subseteq Documents
    BY <1>1 DEF SwitchInv, CutoverTypeOK
<1> QED
    BY <1>2, <1>3, <1>5, <1>6, <1>7, Zenon DEF CutoverTypeOK

\* A command begins: alone, or beside others, which ends every certainty.
LEMMA PreflightSound ==
    ASSUME SwitchInv, NEW o \in Operators, Preflight(o)
    PROVE  SwitchInv'
<1>1. commands \in [Operators -> Commands]
    BY DEF SwitchInv, CutoverTypeOK
<1>2. PICK action \in {"cutover", "rollback"} :
        /\ alias = Source(action)
        /\ IF \A p \in Operators : CommandOver(p)
           THEN /\ commands' = [commands EXCEPT
                      ![o] = [at |-> "attempted", action |-> action, alone |-> TRUE]]
                /\ UNCHANGED certain
           ELSE /\ commands' = [p \in Operators |->
                      IF p = o THEN [at |-> "attempted", action |-> action, alone |-> FALSE]
                               ELSE [commands[p] EXCEPT !.alone = FALSE]]
                /\ certain' = FALSE
    BY DEF Preflight
<1>3. UNCHANGED <<alias, audited, reported, doubtful>> /\ CutoverTypeOK'
    BY CommandTyped DEF Preflight, CommandStep
<1>4. CASE \A p \in Operators : CommandOver(p)
    <2>1. /\ commands'[o] = [at |-> "attempted", action |-> action, alone |-> TRUE]
          /\ \A p \in Operators \ {o} : commands'[p] = commands[p]
          /\ certain' = certain
        BY <1>1, <1>2, <1>4
    <2>2. \A p \in Operators \ {o} : CommandOver(p)'
        BY <1>4, <2>1 DEF CommandOver
    <2>3. AliasSettled
        BY <1>4 DEF SwitchInv
    <2>4. CommandSound(o)'
        BY <1>2, <1>3, <2>1, <2>2, <2>3 DEF CommandSound, AliasSettled
    <2>5. ~ CommandOver(o)' /\ commands'[o].alone
        BY <2>1 DEF CommandOver
    <2> QED
        BY <1>3, <2>2, <2>4, <2>5 DEF SwitchInv
<1>5. CASE ~ \A p \in Operators : CommandOver(p)
    <2>1. /\ commands'[o] = [at |-> "attempted", action |-> action, alone |-> FALSE]
          /\ \A p \in Operators \ {o} : commands'[p] = [commands[p] EXCEPT !.alone = FALSE]
          /\ ~ certain'
        BY <1>1, <1>2, <1>5
    <2>2. \A p \in Operators : ~ commands'[p].alone
        <3>1. ~ commands'[o].alone
            BY <2>1
        <3>2. ASSUME NEW p \in Operators \ {o} PROVE ~ commands'[p].alone
            <4>1. "alone" \in DOMAIN commands[p]
                BY <1>1 DEF Commands
            <4> QED
                BY <2>1, <4>1
        <3> QED
            BY <3>1, <3>2
    <2> QED
        BY <1>3, <2>1, <2>2 DEF SwitchInv, AliasSettled
<1> QED
    BY <1>4, <1>5

\* A command goes on that another overlaps, or did: nothing is certain.
LEMMA CrowdedStep ==
    ASSUME SwitchInv, NEW o \in Operators, CommandContinues(o), ~ commands[o].alone
    PROVE  SwitchInv'
<1>1. /\ ~ certain /\ CutoverTypeOK'
      /\ commands'[o].alone = commands[o].alone
      /\ \A p \in Operators \ {o} : commands'[p] = commands[p]
      /\ ~ CommandOver(o)
    BY CommandMoves, CommandTyped DEF SwitchInv, CommandStep
<1>2. ~ certain'
    BY <1>1 DEF CommandContinues, Check, Switch, ReadBack, Audit, Confirm, Compensate, Undo, OperatorDies
<1>3. \A p \in Operators : ~ CommandOver(p) => ~ commands[p].alone
    BY <1>1 DEF SwitchInv, CommandSound
<1>4. \A p \in Operators : ~ CommandOver(p)' => ~ commands'[p].alone
    BY <1>1, <1>3 DEF CommandOver
<1> QED
    BY <1>1, <1>2, <1>4 DEF SwitchInv, AliasSettled

\* A command goes on alone.
LEMMA AloneStep ==
    ASSUME SwitchInv, NEW o \in Operators, CommandContinues(o), commands[o].alone
    PROVE  SwitchInv'
<1> DEFINE act == commands[o].action
<1>1. /\ CommandSound(o) /\ CutoverTypeOK'
      /\ commands'[o].alone = commands[o].alone /\ commands'[o].action = act
      /\ \A p \in Operators \ {o} : commands'[p] = commands[p]
      /\ ~ CommandOver(o)
    BY CommandMoves, CommandTyped DEF SwitchInv, CommandStep
<1>2. \A p \in Operators \ {o} : CommandOver(p)'
    BY <1>1 DEF CommandSound, CommandOver
<1>3. /\ commands \in [Operators -> Commands] /\ alias \in Collections
      /\ act \in {"cutover", "rollback"}
    BY DEF SwitchInv, CutoverTypeOK, Commands
<1>4. ASSUME NEW at, At(o, at)
      PROVE  commands'[o].at = at
    <2>1. commands' = [commands EXCEPT ![o] = [commands[o] EXCEPT !.at = at]]
        BY <1>4 DEF At
    <2> QED
        BY <1>3, <2>1 DEF Commands
<1>5. alias # Target(act) => alias = Source(act)
    BY <1>3 DEF Source, Target, Collections
<1>6. CASE commands'[o].at # "idle"
    <2>1. CommandSound(o)'
        <3>1. CASE Check(o)
            BY <1>1, <1>2, <1>4, <3>1 DEF Check, CommandSound
        <3>2. CASE Switch(o)
            BY <1>1, <1>2, <1>4, <3>2 DEF Switch, CommandSound
        <3>3. CASE ReadBack(o)
            BY <1>1, <1>2, <1>4, <3>3 DEF ReadBack, CommandSound
        <3>4. CASE Audit(o)
            BY <1>1, <1>2, <1>4, <3>4 DEF Audit, CommandSound
        <3>5. CASE Confirm(o)
            BY <1>1, <1>2, <1>4, <1>6, <3>5 DEF Confirm, CommandSound
        <3>6. CASE Compensate(o)
            BY <1>1, <1>2, <1>4, <1>6, <3>6 DEF Compensate, CommandSound
        <3>7. CASE Undo(o) \/ OperatorDies(o)
            BY <1>4, <1>6, <3>7 DEF Undo, OperatorDies
        <3> QED
            BY <3>1, <3>2, <3>3, <3>4, <3>5, <3>6, <3>7 DEF CommandContinues
    <2>2. commands'[o].alone /\ ~ CommandOver(o)'
        BY <1>1, <1>6 DEF CommandOver
    <2> QED
        BY <1>1, <1>2, <2>1, <2>2 DEF SwitchInv
<1>7. CASE commands'[o].at = "idle"
    <2>1. AliasSettled'
        <3>1. CASE Check(o) \/ Switch(o) \/ ReadBack(o) \/ Audit(o)
            BY <1>4, <1>7, <3>1 DEF Check, Switch, ReadBack, Audit
        <3>2. CASE Confirm(o)
            BY <1>1, <1>4, <1>7, <3>2 DEF Confirm, CommandSound, AliasSettled
        <3>3. CASE Compensate(o)
            BY <1>1, <1>4, <1>5, <1>7, <3>3 DEF Compensate, CommandSound, AliasSettled
        <3>4. CASE Undo(o)
            BY <1>1, <3>4 DEF Undo, CommandSound, AliasSettled
        <3>5. CASE OperatorDies(o)
            BY <3>5 DEF OperatorDies, AliasSettled
        <3> QED
            BY <3>1, <3>2, <3>3, <3>4, <3>5 DEF CommandContinues
    <2>2. \A p \in Operators : CommandOver(p)'
        BY <1>2, <1>7 DEF CommandOver
    <2> QED
        BY <1>1, <2>1, <2>2 DEF SwitchInv
<1> QED
    BY <1>6, <1>7

LEMMA SwitchStep ==
    ASSUME SwitchInv, [CutoverNext]_cutoverVars
    PROVE  SwitchInv'
<1>1. CASE UNCHANGED cutoverVars
    BY <1>1 DEF cutoverVars, SwitchInv, CutoverTypeOK, AliasSettled, CommandSound, CommandOver
<1>2. CASE CutoverNext
    BY <1>2, BackfillStep, PreflightSound, CrowdedStep, AloneStep DEF CutoverNext, CommandContinues
<1> QED
    BY <1>1, <1>2

\* The cutover keeps its types (CutoverTypeOK), and when no command is under way
\* the alias is where the last command that reported success put it, although
\* switches and audits fail on either side of their effect: what failed is
\* undone, and the ledger ends with that success or with one that was committed
\* and reported as a failure. Overlapping operators, deaths and failed undoings
\* end the certainty, and a command alone that succeeds restores it.
THEOREM CutoverSound == CutoverSpec => [](CutoverTypeOK /\ AuditedIsActive)
<1>1. SwitchInv => CutoverTypeOK /\ AuditedIsActive
    BY DEF SwitchInv, AliasSettled, AuditedIsActive
<1> QED
    BY CutoverStarts, SwitchStep, <1>1, PTL DEF CutoverSpec

-----------------------------------------------------------------------------
(* The recovery rehearsal (Recovery).                                      *)

Rooms == [at : {"idle", "filled", "snapshot", "restored", "purged", "refreshed", "cutover",
                "cleanup", "cleaned", "littered"},
          source : SUBSET (RoomPoints \cup {"new"}), restored : SUBSET (RoomPoints \cup {"new"}),
          exist : SUBSET {"source", "restored"}, alias : {"none", "source", "restored"},
          snapshot : SUBSET (RoomPoints \cup {"new"})]

\* Once purged, the document stays away.
RoomInv ==
    /\ room \in Rooms /\ roomFailures \in 0 .. Failures
    /\ room.at \in {"purged", "refreshed", "cutover"} => "doomed" \notin room.source \cup room.restored

\* A call of the rehearsal.
LEMMA RehearseSound ==
    ASSUME RoomInv, NEW from, NEW to, NEW next, Rehearse(from, to, next),
           next \in Rooms, to \in {"filled", "snapshot", "restored", "purged", "refreshed", "cutover",
                                   "cleanup"},
           to \in {"purged", "refreshed", "cutover"} => "doomed" \notin next.source \cup next.restored
    PROVE  RoomInv'
<1>1. roomFailures' \in 0 .. Failures
    BY CutoverConstants DEF RoomInv, Rehearse, RoomWorks, RoomFails
<1>2. room' = [next EXCEPT !.at = to] \/ room' = [room EXCEPT !.at = "cleanup"]
    BY DEF Rehearse
<1> QED
    BY <1>1, <1>2 DEF RoomInv, Rooms

LEMMA RoomStepSound ==
    ASSUME RoomInv, RecoveryNext
    PROVE  RoomInv'
<1>1. room \in Rooms
    BY DEF RoomInv
<1>2. CASE PrepareSource
    <2>1. [room EXCEPT !.exist = {"source"}, !.alias = "source", !.source = RoomPoints] \in Rooms
        BY <1>1 DEF Rooms
    <2> QED
        BY <1>2, <2>1, RehearseSound DEF PrepareSource
<1>3. CASE TakeSnapshot
    <2>1. [room EXCEPT !.snapshot = room.source] \in Rooms
        BY <1>1 DEF Rooms
    <2> QED
        BY <1>3, <2>1, RehearseSound DEF TakeSnapshot
<1>4. CASE RestoreSnapshot
    <2>1. room.exist \cup {"restored"} \in SUBSET {"source", "restored"}
        BY <1>1 DEF Rooms
    <2>2. [room EXCEPT !.exist = @ \cup {"restored"}, !.restored = room.snapshot] \in Rooms
        BY <1>1, <2>1 DEF Rooms
    <2> QED
        BY <1>4, <2>2, RehearseSound DEF RestoreSnapshot
<1>5. CASE PurgeBoth
    <2>1. /\ room.source \ {"doomed"} \in SUBSET (RoomPoints \cup {"new"})
          /\ room.restored \ {"doomed"} \in SUBSET (RoomPoints \cup {"new"})
        BY <1>1 DEF Rooms
    <2>2. /\ Purged(room) \in Rooms /\ Purged(room).source = room.source \ {"doomed"}
          /\ Purged(room).restored = room.restored \ {"doomed"}
        BY <1>1, <2>1 DEF Rooms, Purged
    <2> QED
        BY <1>5, <2>2, RehearseSound DEF PurgeBoth
<1>6. CASE Refresh
    <2> DEFINE next == [room EXCEPT !.restored = (@ \ {"old"}) \cup {"new"}]
    <2>1. (room.restored \ {"old"}) \cup {"new"} \in SUBSET (RoomPoints \cup {"new"})
        BY <1>1 DEF Rooms
    <2>2. /\ next \in Rooms /\ next.source = room.source
          /\ next.restored = (room.restored \ {"old"}) \cup {"new"}
        BY <1>1, <2>1 DEF Rooms
    <2>3. room.at = "purged" /\ Rehearse("purged", "refreshed", next)
        BY <1>6 DEF Refresh, Rehearse
    <2> HIDE DEF next
    <2>4. "doomed" \notin next.source \cup next.restored
        BY <2>2, <2>3 DEF RoomInv
    <2> QED
        BY <2>2, <2>3, <2>4, RehearseSound
<1>7. CASE RehearseCutover
    <2> DEFINE next == [room EXCEPT !.alias = "restored"]
    <2>1. next \in Rooms /\ next.source = room.source /\ next.restored = room.restored
        BY <1>1 DEF Rooms
    <2>2. room.at = "refreshed" /\ Rehearse("refreshed", "cutover", next)
        BY <1>7 DEF RehearseCutover, Rehearse
    <2> HIDE DEF next
    <2>3. "doomed" \notin next.source \cup next.restored
        BY <2>1, <2>2 DEF RoomInv
    <2> QED
        BY <2>1, <2>2, <2>3, RehearseSound
<1>8. CASE RehearseRollback
    <2>1. [room EXCEPT !.alias = "source"] \in Rooms
        BY <1>1 DEF Rooms
    <2> QED
        BY <1>8, <2>1, RehearseSound DEF RehearseRollback
<1>9. CASE CleanUp
    <2>1. roomFailures' \in 0 .. Failures
        BY <1>9, CutoverConstants DEF RoomInv, CleanUp, RoomWorks, RoomFails
    <2>2. room.exist \ {"restored"} \in SUBSET {"source", "restored"}
        BY <1>1 DEF Rooms
    <2>3. room' \in Rooms /\ room'.at \in {"cleaned", "littered"}
        BY <1>1, <1>9, <2>2 DEF CleanUp, EmptyRoom, Rooms
    <2> QED
        BY <2>1, <2>3 DEF RoomInv
<1> QED
    BY <1>2, <1>3, <1>4, <1>5, <1>6, <1>7, <1>8, <1>9 DEF RecoveryNext

\* The rehearsal keeps its types, and the collection that a rehearsed rollback
\* would bring back never has the deleted document again, whatever calls fail
\* (verify_qdrant_recovery.py).
THEOREM RehearsalForgets == RecoverySpec => [](RecoveryTypeOK /\ RollbackForgets)
<1>1. RecoveryInit => RoomInv
    BY CutoverConstants DEF RecoveryInit, EmptyRoom, RoomInv, Rooms
<1>2. RoomInv /\ [RecoveryNext]_recoveryVars => RoomInv'
    <2>1. ASSUME RoomInv, UNCHANGED recoveryVars PROVE RoomInv'
        BY <2>1 DEF recoveryVars, RoomInv
    <2> QED
        BY <2>1, RoomStepSound
<1>3. RoomInv => RecoveryTypeOK /\ RollbackForgets
    BY DEF RoomInv, Rooms, RecoveryTypeOK, RollbackForgets
<1> QED
    BY <1>1, <1>2, <1>3, PTL DEF RecoverySpec

\* An operator who cuts over or rolls back finds the alias where the reports of
\* the commands put it, and the rehearsal that allows the cutover forgets what
\* was deleted.
THEOREM SwitchSound == CutoverSpec /\ RecoverySpec => []SwitchIsSound
<1>1. AuditedIsActive /\ RollbackForgets => SwitchIsSound
    BY DEF SwitchIsSound
<1> QED
    BY CutoverSound, RehearsalForgets, <1>1, PTL
-----------------------------------------------------------------------------
(* The rollout pointer (Promotion).                                        *)

PercentSound(p) == \A ph \in Phases : p.phases[ph].percent \in
    [disabled |-> {0}, shadow |-> {0}, canary |-> {50}, enabled |-> {100}][p.phases[ph].mode]

DependenciesSound(p) == \A ph \in Phases : p.phases[ph].mode # "disabled" =>
    \A d \in Dependencies[ph] : p.phases[d].mode # "disabled"

\* Where responses may be shown, the owner approved of it.
ApprovalSound(p, approvals) ==
    LET r == p.phases["response"] IN
    r.mode \in {"canary", "enabled"} => [candidate |-> r.candidate, until |-> r.until] \in approvals

PointerSound(p, approvals) ==
    p \in Pointer /\ PercentSound(p) /\ DependenciesSound(p) /\ ApprovalSound(p, approvals)

HistorySound == \A r \in 0 .. MaxPointerRevision :
    history[r] \notin {Missing, Torn} => PointerSound(history[r], granted)

\* The pointers that led to the current one are numbered, and archived.
LineageSound ==
    /\ lineage \in Seq(Pointer) /\ Len(lineage) = pointer.revision + 1
    /\ pointer = lineage[Len(lineage)]
    /\ \A i \in 1 .. Len(lineage) :
          /\ lineage[i].revision = i - 1
          /\ lineage[i].previous = IF i = 1 THEN NoPrevious ELSE i - 2
    /\ \A i \in 1 .. Len(lineage) - 1 : history[i - 1] = lineage[i]

OpSound ==
    /\ op.at # "idle" => op.from = pointer /\ PointerSound(op.to, granted)
    /\ op.at \in {"decided", "archiving", "archived"} =>
          op.to.revision = pointer.revision + 1 /\ op.to.previous = pointer.revision
    /\ op.at = "archiving" => history[pointer.revision] \in {Missing, Torn}
    /\ op.at = "archived" => history[pointer.revision] = pointer
    /\ op.at = "restoring" => Len(lineage) > 1 /\ op.to = lineage[Len(lineage) - 1]

Ops == [at : {"idle", "decided", "archiving", "archived", "restoring"}, to : Pointer, from : Pointer]

PromotionInv ==
    /\ history \in [0 .. MaxPointerRevision -> Pointer \cup {Missing, Torn}]
    /\ op \in Ops /\ now \in 0 .. MaxNow
    /\ PointerSound(pointer, granted) /\ HistorySound /\ LineageSound /\ OpSound

LEMMA PhaseTables ==
    /\ \A ph \in Phases : Dependencies[ph] \subseteq Phases
    /\ \A m \in Modes : Transitions[m] \subseteq {"shadow", "canary", "enabled"}
    /\ \A m \in Modes : [disabled |-> {0}, shadow |-> {0}, canary |-> {50}, enabled |-> {100}][m] =
          IF m \in {"disabled", "shadow"} THEN {0} ELSE IF m = "canary" THEN {50} ELSE {100}
BY DEF Phases, Dependencies, Transitions, Modes

LEMMA PointerFields ==
    ASSUME NEW p \in Pointer
    PROVE  /\ p.revision \in Nat /\ p.revision <= MaxPointerRevision
           /\ p.phases \in [Phases -> PhaseState]
           /\ \A ph \in Phases : /\ p.phases[ph] \in PhaseState /\ p.phases[ph].mode \in Modes
                                 /\ p.phases[ph].until \in Nat
BY PromotionConstants DEF Pointer, PhaseState

LEMMA FirstSound ==
    PointerSound(FirstPointer, {}) /\ FirstPointer.revision = 0 /\ FirstPointer.previous = NoPrevious
<1> DEFINE s == [mode |-> "disabled", candidate |-> NoCandidate, percent |-> 0, until |-> 0]
<1>1. s \in PhaseState /\ s.mode = "disabled" /\ s.percent = 0
    BY PromotionConstants DEF PhaseState, Modes
<1>2. FirstPointer = [revision |-> 0, previous |-> NoPrevious, phases |-> [ph \in Phases |-> s]]
    BY DEF FirstPointer
<1> HIDE DEF s
<1>3. /\ FirstPointer \in Pointer /\ FirstPointer.revision = 0 /\ FirstPointer.previous = NoPrevious
      /\ \A ph \in Phases : FirstPointer.phases[ph] = s
    BY <1>1, <1>2, PromotionConstants DEF Pointer, NoPrevious
<1>4. "response" \in Phases /\ "disabled" \in Modes
    BY DEF Phases, Modes
<1> QED
    BY <1>1, <1>3, <1>4, PhaseTables
       DEF PointerSound, PercentSound, DependenciesSound, ApprovalSound

LEMMA PromotionStarts == PromotionInit => PromotionInv
<1> SUFFICES ASSUME PromotionInit PROVE PromotionInv
    OBVIOUS
<1>1. PointerSound(FirstPointer, {}) /\ FirstPointer.revision = 0 /\ FirstPointer.previous = NoPrevious
    BY FirstSound
<1>2. FirstPointer \in Pointer
    BY <1>1 DEF PointerSound
<1>3. op \in Ops /\ op.at = "idle"
    BY <1>2 DEF PromotionInit, NoOp, Ops
<1>4. LineageSound
    <2>1. /\ lineage \in Seq(Pointer) /\ Len(lineage) = 1 /\ lineage[1] = FirstPointer
        BY <1>2 DEF PromotionInit
    <2> QED
        BY <1>1, <2>1 DEF PromotionInit, LineageSound
<1>5. HistorySound /\ history \in [0 .. MaxPointerRevision -> Pointer \cup {Missing, Torn}]
    BY DEF PromotionInit, HistorySound
<1>6. now \in 0 .. MaxNow
    BY PromotionConstants DEF PromotionInit
<1> QED
    BY <1>1, <1>3, <1>4, <1>5, <1>6 DEF PromotionInit, PromotionInv, OpSound

LEMMA MoreApprovals ==
    ASSUME NEW approvals, NEW more, approvals \subseteq more,
           NEW p, PointerSound(p, approvals)
    PROVE  PointerSound(p, more)
BY DEF PointerSound, ApprovalSound

\* q is what a transition from p proposes, and its approval is on record.
Promotes(p, q, approvals) ==
    \E ph \in Phases, to \in Modes, c \in Candidates, percent \in {0, 50, 100} : \E approval :
        /\ LegalTransition(p, ph, to, c, percent)
        /\ approval.until \in {now, now + 1}
        /\ Exposes(ph, to) => [candidate |-> c, until |-> approval.until] \in approvals
        /\ q = Proposed(p, ph, to, c, percent, approval)

\* What a transition proposes is as sound as what it starts from.
LEMMA ProposedSound ==
    ASSUME now \in 0 .. MaxNow, NEW approvals, NEW more, approvals \subseteq more,
           NEW p, PointerSound(p, approvals), p.revision < MaxPointerRevision,
           NEW q, Promotes(p, q, more)
    PROVE  PointerSound(q, more) /\ q.revision = p.revision + 1 /\ q.previous = p.revision
<1>0. PICK ph \in Phases, to \in Modes, c \in Candidates, percent \in {0, 50, 100} : \E approval :
        /\ LegalTransition(p, ph, to, c, percent)
        /\ approval.until \in {now, now + 1}
        /\ Exposes(ph, to) => [candidate |-> c, until |-> approval.until] \in more
        /\ q = Proposed(p, ph, to, c, percent, approval)
    BY DEF Promotes
<1>1. PICK approval :
        /\ LegalTransition(p, ph, to, c, percent)
        /\ approval.until \in {now, now + 1}
        /\ Exposes(ph, to) => [candidate |-> c, until |-> approval.until] \in more
        /\ q = Proposed(p, ph, to, c, percent, approval)
    BY <1>0
<1> DEFINE u == IF Exposes(ph, to) THEN approval.until ELSE 0
           s == [mode |-> to, candidate |-> c, percent |-> percent, until |-> u]
<1>2. /\ p \in Pointer /\ p.revision \in Nat /\ p.phases \in [Phases -> PhaseState]
      /\ MaxPointerRevision \in Nat /\ PercentSound(p) /\ DependenciesSound(p) /\ ApprovalSound(p, approvals)
    BY PointerFields, PromotionConstants DEF PointerSound
<1>3. /\ q = [revision |-> p.revision + 1, previous |-> p.revision, phases |-> [p.phases EXCEPT ![ph] = s]]
    BY <1>1 DEF Proposed
<1>4. s \in PhaseState
    <2>1. u \in 0 .. MaxNow + 1
        BY <1>1, PromotionConstants
    <2> HIDE DEF u
    <2> QED
        BY <2>1 DEF PhaseState
<1>5. s.mode = to /\ s.percent = percent /\ s.candidate = c /\ s.until = u
    OBVIOUS
<1> HIDE DEF s
<1>6. /\ q \in Pointer /\ q.revision = p.revision + 1 /\ q.previous = p.revision
      /\ \A x \in Phases : q.phases[x] = IF x = ph THEN s ELSE p.phases[x]
    BY <1>2, <1>3, <1>4 DEF Pointer
<1>7. /\ to \in {"shadow", "canary", "enabled"} /\ to # "disabled"
      /\ \A d \in Dependencies[ph] : p.phases[d].mode # "disabled"
      /\ to = "shadow" => percent = 0
      /\ to = "enabled" => percent = 100
      /\ to = "canary" => percent = 50
    <2>1. p.phases[ph].mode \in Modes
        BY <1>2, PointerFields
    <2> QED
        BY <1>1, <2>1, PhaseTables DEF LegalTransition
<1>8. PercentSound(q)
    <2> SUFFICES ASSUME NEW x \in Phases
                 PROVE  q.phases[x].percent \in
                    [disabled |-> {0}, shadow |-> {0}, canary |-> {50}, enabled |-> {100}][q.phases[x].mode]
        BY DEF PercentSound
    <2>1. CASE x = ph
        BY <1>5, <1>6, <1>7, <2>1, PhaseTables
    <2>2. CASE x # ph
        BY <1>2, <1>6, <2>2 DEF PercentSound
    <2> QED
        BY <2>1, <2>2
<1>9. DependenciesSound(q)
    <2> SUFFICES ASSUME NEW x \in Phases, q.phases[x].mode # "disabled", NEW d \in Dependencies[x]
                 PROVE  q.phases[d].mode # "disabled"
        BY DEF DependenciesSound
    <2>1. d \in Phases
        BY PhaseTables
    <2> QED
        BY <1>2, <1>5, <1>6, <1>7, <2>1 DEF DependenciesSound
<1>10. ApprovalSound(q, more)
    <2>1. "response" \in Phases
        BY DEF Phases
    <2>2. CASE ph = "response"
        BY <1>1, <1>5, <1>6, <2>1, <2>2 DEF ApprovalSound, Exposes
    <2>3. CASE ph # "response"
        BY <1>2, <1>6, <2>1, <2>3 DEF ApprovalSound
    <2> QED
        BY <2>2, <2>3
<1> QED
    BY <1>6, <1>8, <1>9, <1>10 DEF PointerSound

\* A step that leaves the pointer and its files alone, and ends the command.
LEMMA IdleSound ==
    ASSUME PromotionInv, op' = NoOp, UNCHANGED <<pointer, history, lineage, granted, now>>
    PROVE  PromotionInv'
<1>1. op' \in Ops /\ op'.at = "idle"
    BY FirstSound DEF NoOp, Ops, PointerSound
<1> QED
    BY <1>1 DEF PromotionInv, OpSound, HistorySound, LineageSound

LEMMA HistoryKept == ASSUME PromotionInv, granted \subseteq granted', history' = history PROVE HistorySound'
BY MoreApprovals DEF PromotionInv, HistorySound

LEMMA DecideTransitionSound == PromotionInv /\ DecideTransition => PromotionInv'
<1> SUFFICES ASSUME PromotionInv, DecideTransition PROVE PromotionInv'
    OBVIOUS
<1>0. PICK ph \in Phases, to \in Modes, c \in Candidates, percent \in {0, 50, 100} :
         \E report \in Reports(c), approval \in Approvals(ph, c) :
            /\ LegalTransition(pointer, ph, to, c, percent)
            /\ QualityGate(report, ph, to, c)
            /\ ApprovalGate(approval, ph, to, c)
            /\ op' = [at |-> "decided", from |-> pointer,
                      to |-> Proposed(pointer, ph, to, c, percent, approval)]
            /\ granted' = IF Exposes(ph, to)
                          THEN granted \cup {[candidate |-> c, until |-> approval.until]} ELSE granted
    BY DEF DecideTransition
<1>1. PICK report \in Reports(c), approval \in Approvals(ph, c) :
            /\ LegalTransition(pointer, ph, to, c, percent)
            /\ QualityGate(report, ph, to, c)
            /\ ApprovalGate(approval, ph, to, c)
            /\ op' = [at |-> "decided", from |-> pointer,
                      to |-> Proposed(pointer, ph, to, c, percent, approval)]
            /\ granted' = IF Exposes(ph, to)
                          THEN granted \cup {[candidate |-> c, until |-> approval.until]} ELSE granted
    BY <1>0
<1>2. /\ op.at = "idle" /\ pointer.revision < MaxPointerRevision
      /\ UNCHANGED <<pointer, history, now, lineage>>
    BY DEF DecideTransition
<1>3. approval.candidate = c /\ approval.until \in {now, now + 1}
    <2>1. approval.until \in {now, now + 1}
        BY DEF Approvals
    <2> QED
        BY <1>1, <2>1 DEF ApprovalGate
<1>4. granted \subseteq granted' /\ (Exposes(ph, to) => [candidate |-> c, until |-> approval.until] \in granted')
    BY <1>1
<1>5. PICK q : q = Proposed(pointer, ph, to, c, percent, approval)
    OBVIOUS
<1>6. PointerSound(q, granted') /\ q.revision = pointer.revision + 1 /\ q.previous = pointer.revision
    <2>1. now \in 0 .. MaxNow /\ PointerSound(pointer, granted) /\ pointer.revision < MaxPointerRevision
        BY <1>2 DEF PromotionInv
    <2>2. /\ LegalTransition(pointer, ph, to, c, percent)
          /\ approval.until \in {now, now + 1}
          /\ Exposes(ph, to) => [candidate |-> c, until |-> approval.until] \in granted'
          /\ q = Proposed(pointer, ph, to, c, percent, approval)
        BY <1>1, <1>3, <1>4, <1>5
    <2>3. \E a : /\ LegalTransition(pointer, ph, to, c, percent)
                 /\ a.until \in {now, now + 1}
                 /\ Exposes(ph, to) => [candidate |-> c, until |-> a.until] \in granted'
                 /\ q = Proposed(pointer, ph, to, c, percent, a)
        BY <2>2, Zenon
    <2>4. Promotes(pointer, q, granted')
        BY <2>3 DEF Promotes
    <2> QED
        BY <1>4, <2>1, <2>4, ProposedSound
<1>7. op' = [at |-> "decided", from |-> pointer, to |-> q] /\ pointer \in Pointer /\ q \in Pointer
    BY <1>1, <1>5, <1>6 DEF PromotionInv, PointerSound
<1>8. OpSound' /\ op' \in Ops
    BY <1>2, <1>6, <1>7 DEF OpSound, Ops
<1>9. PointerSound(pointer, granted)' /\ HistorySound'
    BY <1>2, <1>4, MoreApprovals, HistoryKept DEF PromotionInv
<1> QED
    BY <1>2, <1>8, <1>9 DEF PromotionInv, LineageSound

LEMMA BeginHistorySound == PromotionInv /\ BeginHistory => PromotionInv'
<1> SUFFICES ASSUME PromotionInv, BeginHistory PROVE PromotionInv'
    OBVIOUS
<1> DEFINE r == pointer.revision
<1>1. /\ op.at = "decided" /\ op.from = pointer /\ op \in Ops
      /\ history \in [0 .. MaxPointerRevision -> Pointer \cup {Missing, Torn}]
      /\ UNCHANGED <<pointer, now, granted, lineage>>
    BY DEF BeginHistory, PromotionInv, OpSound
<1>2. r \in 0 .. MaxPointerRevision /\ pointer \in Pointer /\ Len(lineage) = r + 1
    BY PointerFields DEF PromotionInv, PointerSound, LineageSound
<1>3. CASE HistoryAgrees(r, pointer)
    <2>1. /\ op' = [op EXCEPT !.at = IF history[r] = Missing THEN "archiving" ELSE "archived"]
          /\ history' = [history EXCEPT ![r] = IF @ = Missing THEN Torn ELSE @]
        BY <1>1, <1>3 DEF BeginHistory
    <2>2. /\ \A x \in 0 .. MaxPointerRevision : x # r => history'[x] = history[x]
          /\ history'[r] = IF history[r] = Missing THEN Torn ELSE pointer
          /\ history' \in [0 .. MaxPointerRevision -> Pointer \cup {Missing, Torn}]
        BY <1>1, <1>2, <1>3, <2>1 DEF HistoryAgrees
    <2>3. /\ op' \in Ops /\ op'.to = op.to /\ op'.from = op.from
          /\ op'.at = IF history[r] = Missing THEN "archiving" ELSE "archived"
        BY <1>1, <2>1 DEF Ops
    <2>4. HistorySound'
        BY <1>1, <1>2, <2>2 DEF HistorySound, PromotionInv
    <2>5. LineageSound'
        <3>1. \A i \in 1 .. Len(lineage) - 1 : i - 1 \in 0 .. MaxPointerRevision /\ i - 1 # r
            BY <1>2, PromotionConstants
        <3> QED
            BY <1>1, <2>2, <3>1 DEF LineageSound, PromotionInv
    <2>6. OpSound'
        BY <1>1, <2>2, <2>3 DEF OpSound, PromotionInv
    <2> QED
        BY <1>1, <2>2, <2>3, <2>4, <2>5, <2>6 DEF PromotionInv
<1>4. CASE ~ HistoryAgrees(r, pointer)
    <2>1. op' = NoOp /\ history' = history
        BY <1>1, <1>4 DEF BeginHistory
    <2> QED
        BY <1>1, <2>1, IdleSound
<1> QED
    BY <1>3, <1>4

LEMMA EndHistorySound == PromotionInv /\ EndHistory => PromotionInv'
<1> SUFFICES ASSUME PromotionInv, EndHistory PROVE PromotionInv'
    OBVIOUS
<1> DEFINE r == pointer.revision
<1>1. /\ op.at = "archiving" /\ op.from = pointer /\ op \in Ops
      /\ history \in [0 .. MaxPointerRevision -> Pointer \cup {Missing, Torn}]
      /\ op' = [op EXCEPT !.at = "archived"] /\ history' = [history EXCEPT ![r] = pointer]
      /\ UNCHANGED <<pointer, now, granted, lineage>>
    BY DEF EndHistory, PromotionInv, OpSound
<1>2. r \in 0 .. MaxPointerRevision /\ pointer \in Pointer /\ Len(lineage) = r + 1
    BY PointerFields DEF PromotionInv, PointerSound, LineageSound
<1>3. /\ \A x \in 0 .. MaxPointerRevision : x # r => history'[x] = history[x]
      /\ history'[r] = pointer /\ history' \in [0 .. MaxPointerRevision -> Pointer \cup {Missing, Torn}]
    BY <1>1, <1>2
<1>4. op' \in Ops /\ op'.to = op.to /\ op'.from = op.from /\ op'.at = "archived"
    BY <1>1 DEF Ops
<1>5. HistorySound'
    BY <1>1, <1>3 DEF HistorySound, PromotionInv
<1>6. LineageSound'
    <2>1. \A i \in 1 .. Len(lineage) - 1 : i - 1 \in 0 .. MaxPointerRevision /\ i - 1 # r
        BY <1>2, PromotionConstants
    <2> QED
        BY <1>1, <1>3, <2>1 DEF LineageSound, PromotionInv
<1>7. OpSound'
    BY <1>1, <1>3, <1>4 DEF OpSound, PromotionInv
<1> QED
    BY <1>1, <1>3, <1>4, <1>5, <1>6, <1>7 DEF PromotionInv

LEMMA ApplyTransitionSound == PromotionInv /\ ApplyTransition => PromotionInv'
<1> SUFFICES ASSUME PromotionInv, ApplyTransition PROVE PromotionInv'
    OBVIOUS
<1>1. /\ pointer' = op.to /\ lineage' = Append(lineage, op.to) /\ op' = NoOp
      /\ UNCHANGED <<history, now, granted>>
      /\ PointerSound(op.to, granted) /\ op.to \in Pointer
      /\ op.to.revision = pointer.revision + 1 /\ op.to.previous = pointer.revision
      /\ history[pointer.revision] = pointer
    BY DEF ApplyTransition, PromotionInv, OpSound, PointerSound
<1>2. pointer.revision \in Nat
    BY PointerFields DEF PromotionInv, PointerSound
<1> DEFINE n == Len(lineage)
<1>3. /\ lineage \in Seq(Pointer) /\ n = pointer.revision + 1 /\ pointer = lineage[n]
      /\ \A i \in 1 .. n :
            /\ lineage[i].revision = i - 1
            /\ lineage[i].previous = IF i = 1 THEN NoPrevious ELSE i - 2
      /\ \A i \in 1 .. n - 1 : history[i - 1] = lineage[i]
    BY DEF PromotionInv, LineageSound
<1>4. /\ lineage' \in Seq(Pointer) /\ Len(lineage') = n + 1
      /\ lineage'[n + 1] = op.to
      /\ \A i \in 1 .. n : lineage'[i] = lineage[i]
    BY <1>1, <1>3
<1> HIDE DEF n
<1>5. LineageSound'
    <2>1. n \in Nat /\ n >= 1 /\ op.to.revision = n /\ op.to.previous = n - 1
        BY <1>1, <1>2, <1>3
    <2>2. ASSUME NEW i \in 1 .. n + 1
          PROVE  /\ lineage'[i].revision = i - 1
                 /\ lineage'[i].previous = IF i = 1 THEN NoPrevious ELSE i - 2
        <3>1. CASE i = n + 1
            BY <1>4, <2>1, <3>1
        <3>2. CASE i # n + 1
            <4>1. i \in 1 .. n
                BY <2>1, <3>2
            <4> QED
                BY <1>3, <1>4, <4>1
        <3> QED
            BY <3>1, <3>2
    <2>3. ASSUME NEW i \in 1 .. n PROVE history'[i - 1] = lineage'[i]
        <3>1. lineage'[i] = lineage[i]
            BY <1>4
        <3>2. CASE i = n
            BY <1>1, <1>2, <1>3, <3>1, <3>2
        <3>3. CASE i # n
            <4>1. i \in 1 .. n - 1
                BY <2>1, <3>3
            <4> QED
                BY <1>1, <1>3, <3>1, <4>1
        <3> QED
            BY <3>2, <3>3
    <2>4. (n + 1) - 1 = n
        BY <2>1
    <2> QED
        BY <1>1, <1>2, <1>3, <1>4, <2>1, <2>2, <2>3, <2>4 DEF LineageSound
<1>6. op' \in Ops /\ op'.at = "idle"
    BY <1>1, FirstSound DEF NoOp, Ops, PointerSound
<1> QED
    BY <1>1, <1>5, <1>6 DEF PromotionInv, HistorySound, OpSound

LEMMA DecideRollbackSound == PromotionInv /\ DecideRollback => PromotionInv'
<1> SUFFICES ASSUME PromotionInv, DecideRollback PROVE PromotionInv'
    OBVIOUS
<1> DEFINE r == pointer.previous
<1>1. /\ r # NoPrevious /\ history[r] \notin {Missing, Torn}
      /\ op' = [at |-> "restoring", from |-> pointer, to |-> history[r]]
      /\ UNCHANGED <<pointer, history, now, granted, lineage>>
    BY DEF DecideRollback, Restorable
<1>2. pointer \in Pointer /\ pointer.revision \in Nat /\ pointer.revision <= MaxPointerRevision
    BY PointerFields DEF PromotionInv, PointerSound
<1>3. /\ Len(lineage) > 1 /\ r = Len(lineage) - 2 /\ history[r] = lineage[Len(lineage) - 1]
      /\ r \in 0 .. MaxPointerRevision
    <2>1. /\ Len(lineage) = pointer.revision + 1 /\ pointer = lineage[Len(lineage)]
          /\ \A i \in 1 .. Len(lineage) :
                lineage[i].previous = IF i = 1 THEN NoPrevious ELSE i - 2
          /\ \A i \in 1 .. Len(lineage) - 1 : history[i - 1] = lineage[i]
        BY DEF PromotionInv, LineageSound
    <2>0. Len(lineage) = pointer.revision + 1
        BY <2>1
    <2>2. Len(lineage) > 1 /\ r = Len(lineage) - 2
        BY <1>1, <1>2, <2>1
    <2>3. Len(lineage) - 1 \in 1 .. Len(lineage) - 1 /\ (Len(lineage) - 1) - 1 = r
        BY <1>2, <2>0, <2>2
    <2>4. r \in 0 .. MaxPointerRevision
        BY <1>2, <2>0, <2>2, PromotionConstants
    <2> QED
        BY <2>1, <2>2, <2>3, <2>4
<1>4. PointerSound(history[r], granted) /\ history[r] \in Pointer
    BY <1>1, <1>3 DEF PromotionInv, HistorySound, PointerSound
<1>5. op' \in Ops /\ op'.at = "restoring" /\ op'.from = pointer /\ op'.to = history[r]
    BY <1>1, <1>2, <1>4 DEF Ops
<1>6. OpSound'
    BY <1>1, <1>3, <1>4, <1>5 DEF OpSound
<1> QED
    BY <1>1, <1>5, <1>6 DEF PromotionInv, HistorySound, LineageSound

LEMMA ApplyRollbackSound == PromotionInv /\ ApplyRollback => PromotionInv'
<1> SUFFICES ASSUME PromotionInv, ApplyRollback PROVE PromotionInv'
    OBVIOUS
<1> DEFINE n == Len(lineage)
<1>1. /\ pointer' = op.to /\ lineage' = SubSeq(lineage, 1, n - 1) /\ op' = NoOp
      /\ UNCHANGED <<history, now, granted>>
      /\ PointerSound(op.to, granted) /\ n > 1 /\ op.to = lineage[n - 1]
    BY DEF ApplyRollback, PromotionInv, OpSound
<1>2. /\ lineage \in Seq(Pointer) /\ n \in Nat
      /\ \A i \in 1 .. n :
            /\ lineage[i].revision = i - 1
            /\ lineage[i].previous = IF i = 1 THEN NoPrevious ELSE i - 2
      /\ \A i \in 1 .. n - 1 : history[i - 1] = lineage[i]
    <2>1. LineageSound
        BY DEF PromotionInv
    <2>2. lineage \in Seq(Pointer) /\ n \in Nat
        BY <2>1 DEF LineageSound
    <2> QED
        BY <2>1, <2>2 DEF LineageSound
<1>3. /\ lineage' \in Seq(Pointer) /\ Len(lineage') = n - 1
      /\ \A i \in 1 .. n - 1 : lineage'[i] = lineage[i]
    <2>1. PICK line, m, short : line = lineage /\ m = n - 1 /\ short = SubSeq(line, 1, m)
        OBVIOUS
    <2>2. line \in Seq(Pointer) /\ m \in Nat /\ 1 <= m /\ n = m + 1 /\ Len(line) = m + 1
        BY <1>1, <1>2, <2>1
    <2>3. \A i \in 1 .. m : line[i] \in Pointer
        BY <2>2
    <2>4. /\ short \in Seq(Pointer) /\ Len(short) = m - 1 + 1
          /\ \A i \in 1 .. m - 1 + 1 : short[i] = line[1 + i - 1]
        BY <2>1, <2>2, <2>3, SubSeqProperties
    <2>5. m - 1 + 1 = m /\ \A i \in 1 .. m : 1 + i - 1 = i
        BY <2>2
    <2> QED
        BY <1>1, <2>1, <2>4, <2>5
<1> HIDE DEF n
<1>4. LineageSound'
    <2>1. n - 1 \in 1 .. n /\ pointer' = lineage'[n - 1] /\ pointer'.revision = n - 2
        BY <1>1, <1>2, <1>3
    <2>2. \A i \in 1 .. n - 1 : i \in 1 .. n
        BY <1>2
    <2>3. \A i \in 1 .. (n - 1) - 1 : i \in 1 .. n - 1
        BY <1>2
    <2> QED
        BY <1>1, <1>2, <1>3, <2>1, <2>2, <2>3 DEF LineageSound
<1>5. op' \in Ops /\ op'.at = "idle"
    BY <1>1, FirstSound DEF NoOp, Ops, PointerSound
<1> QED
    BY <1>1, <1>4, <1>5 DEF PromotionInv, HistorySound, OpSound

LEMMA PromotionPreserved == PromotionInv /\ [PromotionNext]_promotionVars => PromotionInv'
<1> SUFFICES ASSUME PromotionInv, [PromotionNext]_promotionVars PROVE PromotionInv'
    OBVIOUS
<1>1. CASE ControllerDies
    BY <1>1, IdleSound DEF ControllerDies
<1>2. CASE TimePasses
    <2>1. now' \in 0 .. MaxNow
        BY <1>2, PromotionConstants DEF TimePasses, PromotionInv
    <2> QED
        BY <1>2, <2>1 DEF TimePasses, PromotionInv, HistorySound, LineageSound, OpSound
<1>3. CASE UNCHANGED promotionVars
    BY <1>3 DEF promotionVars, PromotionInv, HistorySound, LineageSound, OpSound
<1> QED
    BY <1>1, <1>2, <1>3, DecideTransitionSound, BeginHistorySound, EndHistorySound,
       ApplyTransitionSound, DecideRollbackSound, ApplyRollbackSound DEF PromotionNext

LEMMA PromotionInvSound == PromotionInv => PromotionTypeOK /\ PointerIsSound
<1> SUFFICES ASSUME PromotionInv PROVE PromotionTypeOK /\ PointerIsSound
    OBVIOUS
<1>1. PromotionTypeOK
    BY DEF PromotionInv, PromotionTypeOK, PointerSound, PercentSound, Ops
<1>2. RollbackIsUndo
    BY DEF PromotionInv, LineageSound, OpSound, RollbackIsUndo
<1>3. DependenciesHold
    BY DEF PromotionInv, HistorySound, PointerSound, DependenciesSound, DependenciesHold
<1>4. ExposureIsApproved
    <2> SUFFICES ASSUME NEW bucket, Allowed(bucket)
                 PROVE  \E g \in granted : g.candidate = Serving /\ g.until > now
        BY DEF ExposureIsApproved
    <2> DEFINE r == pointer.phases["response"]
    <2>1. r.candidate = Serving /\ r.until > now /\ r.mode \in {"canary", "enabled"}
        BY DEF Allowed
    <2>2. [candidate |-> r.candidate, until |-> r.until] \in granted
        BY <2>1 DEF PromotionInv, PointerSound, ApprovalSound
    <2> QED
        BY <2>1, <2>2
<1> QED
    BY <1>1, <1>2, <1>3, <1>4 DEF PointerIsSound

\* The rollout pointer is sound for any set of candidates and any number of
\* revisions and expiries: it and its history files are an undo stack that a
\* crash at no point breaks, no phase runs on a disabled one, also after a
\* rollback, and a response is shown only under an unexpired approval of it.
THEOREM PromotionSound == PromotionSpec => [](PromotionTypeOK /\ PointerIsSound)
<1>1. PromotionSpec => []PromotionInv
    BY PromotionStarts, PromotionPreserved, PTL DEF PromotionSpec
<1> QED
    BY <1>1, PromotionInvSound, PTL

-----------------------------------------------------------------------------
(* The artifact registry (ArtifactRegistry).                               *)

RunStates == [at : {"new", "blobs", "creating", "writing", "publishing", "finishing",
                    "published", "delivered", "done", "failed"},
              todo : SUBSET AllBlobs, blob : AllBlobs \cup {Nobody},
              pointer : 0 .. 1, files : {"none", "private", "committed"}]

Manifests == [by : Runs \cup {Nobody}, state : {"absent", "torn", "whole"}]

Whole(r, bs) == \A b \in BlobsOf[r] : bs[b] = "whole"

\* What a run may rely on where it is, and what it left outside.
RunSound(r, run, bs, ms) ==
    LET m == ms[CandidateOf[r]] IN
    /\ run.at \in {"creating", "writing"} => run.blob \in AllBlobs
    /\ run.at = "publishing" => Whole(r, bs)
    /\ run.at = "finishing" => m.by = r
    /\ run.at \in {"published", "delivered", "done"} \/ run.files # "none" =>
          m.by = r /\ m.state = "whole"

\* A manifest somebody published, torn or whole, has its blobs.
ManifestSound(m, bs) == IF m.by = Nobody THEN m.state = "absent" ELSE Whole(m.by, bs)

RegistryInv ==
    /\ RegistryTypeOK
    /\ \A r \in Runs : RunSound(r, runs[r], blobs, manifests)
    /\ \A c \in AllCandidates : ManifestSound(manifests[c], blobs)

\* Blobs and manifests are only ever completed.
Completes(bs, bs2, ms, ms2) ==
    /\ \A b \in AllBlobs : bs[b] = "whole" => bs2[b] = "whole"
    /\ \A c \in AllCandidates : /\ ms[c].by # Nobody => ms2[c].by = ms[c].by
                                /\ ms[c].state = "whole" => ms2[c].state = "whole"

LEMMA RegistryNames ==
    /\ \A r \in Runs : CandidateOf[r] \in AllCandidates /\ BlobsOf[r] \subseteq AllBlobs
    /\ \A r \in Runs : r # Nobody
BY RunsAreNamed DEF AllCandidates, AllBlobs

LEMMA RegistryTypes ==
    RegistryTypeOK <=>
    /\ backend \in {"file", "s3"} /\ modelPointer \in 0 .. 1
    /\ blobs \in [AllBlobs -> {"absent", "torn", "whole"}]
    /\ manifests \in [AllCandidates -> Manifests] /\ runs \in [Runs -> RunStates]
BY DEF RegistryTypeOK, RunStates, Manifests

LEMMA FailedRun ==
    ASSUME NEW run \in RunStates
    PROVE  Failed(run) \in RunStates /\ Failed(run).at = "failed" /\ Failed(run).files = run.files
<1>0. 0 \in 0 .. 1
    OBVIOUS
<1>1. Failed(run) \in RunStates
    BY <1>0, Zenon DEF Failed, RunStates
<1>2. Failed(run).at = "failed" /\ Failed(run).files = run.files
    BY Zenon DEF Failed, RunStates
<1> QED
    BY <1>1, <1>2

LEMMA CompletionKeepsRuns ==
    ASSUME NEW r \in Runs, NEW run, NEW bs, NEW bs2, NEW ms, NEW ms2,
           Completes(bs, bs2, ms, ms2), RunSound(r, run, bs, ms)
    PROVE  RunSound(r, run, bs2, ms2)
BY RegistryNames DEF RunSound, Completes, Whole

LEMMA CompletionKeepsManifests ==
    ASSUME NEW m \in Manifests, NEW bs, NEW bs2, NEW ms, NEW ms2,
           Completes(bs, bs2, ms, ms2), ManifestSound(m, bs)
    PROVE  ManifestSound(m, bs2)
<1>1. CASE m.by = Nobody
    BY <1>1 DEF ManifestSound
<1>2. CASE m.by # Nobody
    <2>1. m.by \in Runs
        BY <1>2 DEF Manifests
    <2> QED
        BY <1>2, <2>1, RegistryNames DEF ManifestSound, Whole, Completes
<1> QED
    BY <1>1, <1>2

\* A step of one run, which moves it to v.
LEMMA RunStepSound ==
    ASSUME RegistryInv, NEW r \in Runs, NEW v \in RunStates, runs' = [runs EXCEPT ![r] = v],
           blobs' \in [AllBlobs -> {"absent", "torn", "whole"}],
           manifests' \in [AllCandidates -> Manifests],
           UNCHANGED <<backend, modelPointer>>,
           Completes(blobs, blobs', manifests, manifests'),
           RunSound(r, v, blobs', manifests'),
           \A c \in AllCandidates : manifests'[c] = manifests[c] \/ ManifestSound(manifests'[c], blobs')
    PROVE  RegistryInv'
<1>1. /\ runs \in [Runs -> RunStates] /\ manifests \in [AllCandidates -> Manifests]
      /\ backend \in {"file", "s3"} /\ modelPointer \in 0 .. 1
    BY RegistryTypes DEF RegistryInv
<1>2. runs' \in [Runs -> RunStates] /\ \A x \in Runs : runs'[x] = IF x = r THEN v ELSE runs[x]
    BY <1>1
<1>3. RegistryTypeOK'
    BY <1>1, <1>2 DEF RegistryTypeOK, RunStates, Manifests
<1>4. ASSUME NEW x \in Runs PROVE RunSound(x, runs'[x], blobs', manifests')
    <2>1. RunSound(x, runs[x], blobs, manifests)
        BY DEF RegistryInv
    <2>2. RunSound(x, runs[x], blobs', manifests')
        BY <2>1, CompletionKeepsRuns
    <2> QED
        BY <1>2, <2>2
<1>5. ASSUME NEW c \in AllCandidates PROVE ManifestSound(manifests'[c], blobs')
    <2>1. ManifestSound(manifests[c], blobs) /\ manifests[c] \in Manifests
        BY <1>1 DEF RegistryInv
    <2>2. ManifestSound(manifests[c], blobs')
        BY <2>1, CompletionKeepsManifests
    <2> QED
        BY <2>2
<1> QED
    BY <1>3, <1>4, <1>5 DEF RegistryInv

LEMMA NothingMoves == Completes(blobs, blobs, manifests, manifests)
BY DEF Completes

\* A step of a run that leaves the registry alone.
LEMMA PrivateStepSound ==
    ASSUME RegistryInv, NEW r \in Runs, NEW v \in RunStates, runs' = [runs EXCEPT ![r] = v],
           UNCHANGED <<backend, blobs, manifests, modelPointer>>,
           RunSound(r, v, blobs, manifests)
    PROVE  RegistryInv'
BY RunStepSound, NothingMoves, RegistryTypes DEF RegistryInv

LEMMA RunDiesSound ==
    ASSUME RegistryInv, NEW r \in Runs, runs' = [runs EXCEPT ![r] = Failed(@)],
           UNCHANGED <<backend, blobs, manifests, modelPointer>>
    PROVE  RegistryInv'
<1>1. runs \in [Runs -> RunStates] /\ runs[r] \in RunStates /\ RunSound(r, runs[r], blobs, manifests)
    BY RegistryTypes DEF RegistryInv
<1>2. PICK v : v = Failed(runs[r])
    OBVIOUS
<1>3. v \in RunStates /\ v.at = "failed" /\ v.files = runs[r].files /\ runs' = [runs EXCEPT ![r] = v]
    BY <1>1, <1>2, FailedRun
<1>4. RunSound(r, v, blobs, manifests)
    BY <1>1, <1>3 DEF RunSound
<1> QED
    BY <1>3, <1>4, PrivateStepSound

LEMMA RegistryStarts == RegistryInit => RegistryInv
<1> SUFFICES ASSUME RegistryInit PROVE RegistryInv
    OBVIOUS
<1>1. \A r \in Runs : runs[r].at = "new" /\ runs[r].files = "none"
    BY DEF RegistryInit
<1>2. runs \in [Runs -> RunStates]
    <2>1. \A r \in Runs : [at |-> "new", todo |-> BlobsOf[r], blob |-> Nobody,
                          pointer |-> 0, files |-> "none"] \in RunStates
        BY RegistryNames DEF RunStates
    <2> QED
        BY <2>1 DEF RegistryInit
<1>3. /\ manifests \in [AllCandidates -> Manifests]
      /\ \A c \in AllCandidates : manifests[c].by = Nobody /\ manifests[c].state = "absent"
    BY DEF RegistryInit, Manifests
<1>4. RegistryTypeOK
    BY <1>2, <1>3, RegistryTypes DEF RegistryInit
<1>5. ASSUME NEW r \in Runs PROVE RunSound(r, runs[r], blobs, manifests)
    <2>1. runs[r].at = "new" /\ runs[r].files = "none"
        BY <1>1
    <2> QED
        BY <2>1 DEF RunSound
<1>6. ASSUME NEW c \in AllCandidates PROVE ManifestSound(manifests[c], blobs)
    BY <1>3 DEF ManifestSound
<1> QED
    BY <1>4, <1>5, <1>6 DEF RegistryInv

\* What the steps of a run start from.
LEMMA RunFacts ==
    ASSUME RegistryInv, NEW r \in Runs
    PROVE  /\ runs \in [Runs -> RunStates] /\ runs[r] \in RunStates
           /\ RunSound(r, runs[r], blobs, manifests)
           /\ blobs \in [AllBlobs -> {"absent", "torn", "whole"}]
           /\ manifests \in [AllCandidates -> Manifests]
           /\ backend \in {"file", "s3"} /\ modelPointer \in 0 .. 1
           /\ CandidateOf[r] \in AllCandidates /\ r # Nobody
BY RegistryTypes, RegistryNames DEF RegistryInv

LEMMA BeginSound ==
    ASSUME RegistryInv, NEW r \in Runs, NEW accepted, Begin(r, accepted)
    PROVE  RegistryInv'
<1>1. /\ runs[r].at = "new"
      /\ runs' = [runs EXCEPT ![r] =
            IF ~ accepted THEN Failed(@)
            ELSE [@ EXCEPT !.at = "blobs", !.pointer = IF WorkflowRun[r] = "mlops" THEN modelPointer ELSE 0]]
      /\ UNCHANGED <<backend, blobs, manifests, modelPointer>>
    BY DEF Begin
<1>2. CASE ~ accepted
    <2>1. runs' = [runs EXCEPT ![r] = Failed(@)]
        BY <1>1, <1>2
    <2> QED
        BY <1>1, <2>1, RunDiesSound
<1>3. CASE accepted
    <2>1. PICK at : at = IF WorkflowRun[r] = "mlops" THEN modelPointer ELSE 0
        OBVIOUS
    <2>2. at \in 0 .. 1
        BY <2>1, RunFacts
    <2>3. PICK v : v = [runs[r] EXCEPT !.at = "blobs", !.pointer = at]
        OBVIOUS
    <2>4. v \in RunStates /\ v.at = "blobs" /\ v.files = runs[r].files
        <3>1. runs[r] \in RunStates
            BY RunFacts
        <3>2. v \in RunStates
            BY <2>2, <2>3, <3>1, Zenon DEF RunStates
        <3> QED
            BY <2>3, <3>1, <3>2 DEF RunStates
    <2>5. RunSound(r, v, blobs, manifests)
        BY <2>4, RunFacts DEF RunSound
    <2>6. runs' = [runs EXCEPT ![r] = v]
        BY <1>1, <1>3, <2>1, <2>3
    <2> QED
        BY <1>1, <2>4, <2>5, <2>6, PrivateStepSound
<1> QED
    BY <1>2, <1>3

LEMMA StartSound ==
    ASSUME RegistryInv, NEW r \in Runs, StartMlops(r) \/ StartRagops(r) \/ StartLlmops(r)
    PROVE  RegistryInv'
<1>1. CASE StartMlops(r)
    BY <1>1, BeginSound DEF StartMlops
<1>2. CASE StartRagops(r)
    BY <1>2, BeginSound DEF StartRagops
<1>3. CASE StartLlmops(r)
    BY <1>3, BeginSound DEF StartLlmops
<1> QED
    BY <1>1, <1>2, <1>3

LEMMA FindBlobSound ==
    ASSUME RegistryInv, NEW r \in Runs, NEW b \in runs[r].todo, FindBlob(r, b)
    PROVE  RegistryInv'
<1>1. CASE blobs[b] = "whole"
    <2>1. PICK v : v = [runs[r] EXCEPT !.todo = @ \ {b}]
        OBVIOUS
    <2>2. v \in RunStates /\ v.at = runs[r].at /\ v.files = runs[r].files /\ runs[r].at = "blobs"
        BY <2>1, RunFacts DEF RunStates, FindBlob
    <2>3. RunSound(r, v, blobs, manifests)
        BY <2>2, RunFacts DEF RunSound
    <2>4. runs' = [runs EXCEPT ![r] = IF blobs[b] = "whole" THEN v ELSE Failed(@)]
        BY <2>1, Zenon DEF FindBlob
    <2>5. runs' = [runs EXCEPT ![r] = v]
        BY <1>1, <2>4
    <2> QED
        BY <2>2, <2>3, <2>5, PrivateStepSound DEF FindBlob
<1>2. CASE blobs[b] # "whole"
    BY <1>2, RunDiesSound DEF FindBlob
<1> QED
    BY <1>1, <1>2

LEMMA MissBlobSound ==
    ASSUME RegistryInv, NEW r \in Runs, NEW b \in runs[r].todo, MissBlob(r, b)
    PROVE  RegistryInv'
<1>1. PICK v : v = [runs[r] EXCEPT !.at = "creating", !.blob = b]
    OBVIOUS
<1>2. b \in AllBlobs
    BY RunFacts DEF RunStates
<1>3. v \in RunStates /\ v.at = "creating" /\ v.blob = b /\ v.files = runs[r].files
    <2>1. runs[r] \in RunStates
        BY RunFacts
    <2>2. v \in RunStates
        BY <1>1, <1>2, <2>1, Zenon DEF RunStates
    <2> QED
        BY <1>1, <2>1, <2>2 DEF RunStates
<1>4. RunSound(r, v, blobs, manifests)
    BY <1>2, <1>3, RunFacts DEF RunSound
<1>5. runs' = [runs EXCEPT ![r] = v]
    BY <1>1, RunFacts DEF MissBlob
<1> QED
    BY <1>3, <1>4, <1>5, PrivateStepSound DEF MissBlob

\* A run has the blob it came for.
LEMMA BlobDone ==
    ASSUME RegistryInv, NEW r \in Runs, NEW b \in AllBlobs,
           runs' = [runs EXCEPT ![r].at = "blobs", ![r].todo = @ \ {b}, ![r].blob = Nobody],
           blobs' = [blobs EXCEPT ![b] = "whole"],
           UNCHANGED <<backend, manifests, modelPointer>>
    PROVE  RegistryInv'
<1>1. PICK v : v = [runs[r] EXCEPT !.at = "blobs", !.todo = @ \ {b}, !.blob = Nobody]
    OBVIOUS
<1>2. v \in RunStates /\ v.at = "blobs" /\ v.files = runs[r].files
    <2>1. runs[r] \in RunStates
        BY RunFacts
    <2>2. v \in RunStates
        BY <1>1, <2>1, Zenon DEF RunStates
    <2> QED
        BY <1>1, <2>1 , <2>2 DEF RunStates
<1>3. /\ blobs' \in [AllBlobs -> {"absent", "torn", "whole"}]
      /\ Completes(blobs, blobs', manifests, manifests')
    BY RunFacts DEF Completes
<1>4. RunSound(r, v, blobs', manifests')
    BY <1>2, RunFacts DEF RunSound
<1>5. runs' = [runs EXCEPT ![r] = v]
    BY <1>1, RunFacts
<1> QED
    BY <1>2, <1>3, <1>4, <1>5, RunStepSound, RunFacts

LEMMA CreateBlobSound ==
    ASSUME RegistryInv, NEW r \in Runs, CreateBlob(r)
    PROVE  RegistryInv'
<1>1. PICK b : b = runs[r].blob
    OBVIOUS
<1>2. runs[r].at = "creating" /\ b \in AllBlobs
    BY <1>1, RunFacts DEF CreateBlob, RunSound
<1>3. CASE backend = "s3"
    BY <1>1, <1>2, <1>3, BlobDone DEF CreateBlob
<1>4. CASE backend # "s3" /\ blobs[b] = "absent"
    <2>1. PICK v : v = [runs[r] EXCEPT !.at = "writing"]
        OBVIOUS
    <2>2. v \in RunStates /\ v.at = "writing" /\ v.blob = b /\ v.files = runs[r].files
        BY <1>1, <2>1, RunFacts DEF RunStates
    <2>3. /\ blobs' = [blobs EXCEPT ![b] = "torn"] /\ runs' = [runs EXCEPT ![r].at = "writing"]
          /\ UNCHANGED <<backend, manifests, modelPointer>>
        BY <1>1, <1>4 DEF CreateBlob
    <2>4. /\ blobs' \in [AllBlobs -> {"absent", "torn", "whole"}]
          /\ Completes(blobs, blobs', manifests, manifests')
        BY <1>2, <1>4, <2>3, RunFacts DEF Completes
    <2>5. RunSound(r, v, blobs', manifests')
        BY <1>2, <2>2, <2>3, RunFacts DEF RunSound
    <2>6. runs' = [runs EXCEPT ![r] = v]
        BY <2>1, <2>3, RunFacts
    <2> QED
        BY <2>2, <2>3, <2>4, <2>5, <2>6, RunStepSound, RunFacts
<1>5. CASE backend # "s3" /\ blobs[b] # "absent"
    BY <1>1, <1>5, RunDiesSound DEF CreateBlob
<1> QED
    BY <1>3, <1>4, <1>5

LEMMA WriteBlobSound ==
    ASSUME RegistryInv, NEW r \in Runs, WriteBlob(r)
    PROVE  RegistryInv'
<1>1. runs[r].blob \in AllBlobs
    BY RunFacts DEF WriteBlob, RunSound
<1> QED
    BY <1>1, BlobDone DEF WriteBlob

LEMMA CheckManifestSound ==
    ASSUME RegistryInv, NEW r \in Runs, CheckManifest(r)
    PROVE  RegistryInv'
<1>1. CASE Backed(r) /\ (backend = "s3" \/ manifests[CandidateOf[r]].by = Nobody)
    <2>1. PICK v : v = [runs[r] EXCEPT !.at = "publishing"]
        OBVIOUS
    <2>2. v \in RunStates /\ v.at = "publishing" /\ v.files = runs[r].files
        BY <2>1, RunFacts DEF RunStates
    <2>3. RunSound(r, v, blobs, manifests)
        BY <1>1, <2>2, RunFacts DEF RunSound, Backed, Whole
    <2>4. runs' = [runs EXCEPT ![r] = v]
        BY <1>1, <2>1, RunFacts DEF CheckManifest
    <2> QED
        BY <2>2, <2>3, <2>4, PrivateStepSound DEF CheckManifest
<1>2. CASE ~ (Backed(r) /\ (backend = "s3" \/ manifests[CandidateOf[r]].by = Nobody))
    BY <1>2, RunDiesSound DEF CheckManifest
<1> QED
    BY <1>1, <1>2

LEMMA PublishManifestSound ==
    ASSUME RegistryInv, NEW r \in Runs, PublishManifest(r)
    PROVE  RegistryInv'
<1> DEFINE c == CandidateOf[r]
<1>1. CASE MayPublish(r)
    <2>1. PICK m : m = [by |-> r, state |-> IF backend = "s3" THEN "whole" ELSE "torn"]
        OBVIOUS
    <2>2. PICK v : v = [runs[r] EXCEPT !.at = IF backend = "s3" THEN "published" ELSE "finishing"]
        OBVIOUS
    <2>3. /\ manifests' = [manifests EXCEPT ![c] = m] /\ manifests[c].by = Nobody
          /\ runs' = [runs EXCEPT ![r] = v] /\ runs[r].at = "publishing"
          /\ UNCHANGED <<backend, blobs, modelPointer>>
        BY <1>1, <2>1, <2>2, RunFacts DEF PublishManifest, MayPublish
    <2>4. /\ m \in Manifests /\ m.by = r
          /\ m.state = IF backend = "s3" THEN "whole" ELSE "torn"
        BY <2>1 DEF Manifests
    <2>5. /\ v \in RunStates /\ v.files = runs[r].files
          /\ v.at = IF backend = "s3" THEN "published" ELSE "finishing"
        BY <2>2, RunFacts DEF RunStates
    <2>6. /\ manifests' \in [AllCandidates -> Manifests] /\ manifests'[c] = m
          /\ \A d \in AllCandidates : d # c => manifests'[d] = manifests[d]
        BY <2>3, <2>4, RunFacts
    <2>7. Whole(r, blobs) /\ runs[r].files = "none" /\ manifests[c].state # "whole"
        BY <2>3, RunFacts DEF RegistryInv, RunSound, ManifestSound, RunStates
    <2>8. Completes(blobs, blobs', manifests, manifests')
        BY <2>3, <2>6, <2>7 DEF Completes
    <2>9. RunSound(r, v, blobs', manifests')
        BY <2>4, <2>5, <2>6, <2>7 DEF RunSound
    <2>10. ManifestSound(m, blobs')
        BY <2>3, <2>4, <2>7, RunFacts DEF ManifestSound
    <2> QED
        BY <2>3, <2>5, <2>6, <2>8, <2>9, <2>10, RunStepSound, RunFacts
<1>2. CASE ~ MayPublish(r)
    BY <1>2, RunDiesSound DEF PublishManifest
<1> QED
    BY <1>1, <1>2

LEMMA FinishManifestSound ==
    ASSUME RegistryInv, NEW r \in Runs, FinishManifest(r)
    PROVE  RegistryInv'
<1> DEFINE c == CandidateOf[r]
<1>1. PICK m : m = [manifests[c] EXCEPT !.state = "whole"]
    OBVIOUS
<1>2. PICK v : v = [runs[r] EXCEPT !.at = "published"]
    OBVIOUS
<1>3. /\ manifests' = [manifests EXCEPT ![c] = m] /\ runs' = [runs EXCEPT ![r] = v]
      /\ runs[r].at = "finishing" /\ UNCHANGED <<backend, blobs, modelPointer>>
    BY <1>1, <1>2, RunFacts DEF FinishManifest
<1>4. manifests[c] \in Manifests /\ manifests[c].by = r /\ ManifestSound(manifests[c], blobs)
    BY <1>3, RunFacts DEF RunSound, RegistryInv
<1>5. m \in Manifests /\ m.by = r /\ m.state = "whole"
    BY <1>1, <1>4 DEF Manifests
<1>6. v \in RunStates /\ v.at = "published" /\ v.files = runs[r].files
    BY <1>2, RunFacts DEF RunStates
<1>7. /\ manifests' \in [AllCandidates -> Manifests] /\ manifests'[c] = m
      /\ \A d \in AllCandidates : d # c => manifests'[d] = manifests[d]
    BY <1>3, <1>5, RunFacts
<1>8. Completes(blobs, blobs', manifests, manifests')
    BY <1>3, <1>4, <1>5, <1>7 DEF Completes
<1>9. RunSound(r, v, blobs', manifests') /\ ManifestSound(m, blobs')
    BY <1>3, <1>4, <1>5, <1>6, <1>7, RunFacts DEF RunSound, ManifestSound
<1> QED
    BY <1>3, <1>6, <1>7, <1>8, <1>9, RunStepSound, RunFacts

LEMMA DeliverManifestSound ==
    ASSUME RegistryInv, NEW r \in Runs, DeliverManifest(r)
    PROVE  RegistryInv'
<1>1. CASE WorkflowRun[r] = "mlops" /\ runs[r].pointer # modelPointer
    BY <1>1, RunDiesSound DEF DeliverManifest
<1>2. CASE ~ (WorkflowRun[r] = "mlops" /\ runs[r].pointer # modelPointer)
    <2>1. PICK v : v = [runs[r] EXCEPT !.at = "delivered", !.files = "private"]
        OBVIOUS
    <2>2. v \in RunStates /\ v.at = "delivered" /\ runs[r].at = "published"
        BY <2>1, RunFacts DEF RunStates, DeliverManifest
    <2>3. RunSound(r, v, blobs, manifests)
        BY <2>2, RunFacts DEF RunSound
    <2>4. runs' = [runs EXCEPT ![r] = v]
        BY <1>2, <2>1, RunFacts DEF DeliverManifest
    <2> QED
        BY <2>2, <2>3, <2>4, PrivateStepSound DEF DeliverManifest
<1> QED
    BY <1>1, <1>2

LEMMA CommitPubliclySound ==
    ASSUME RegistryInv, NEW r \in Runs, CommitPublicly(r)
    PROVE  RegistryInv'
<1>1. PICK v : v = [runs[r] EXCEPT !.at = "done", !.pointer = 0, !.files = "committed"]
    OBVIOUS
<1>2. v \in RunStates /\ v.at = "done" /\ runs[r].at = "delivered"
    <2>1. runs[r] \in RunStates
        BY RunFacts
    <2>2. 0 \in 0 .. 1
        OBVIOUS
    <2>3. v \in RunStates
        BY <1>1, <2>1, <2>2, Zenon DEF RunStates
    <2> QED
        BY <1>1, <2>1, <2>3 DEF RunStates, CommitPublicly
<1>3. RunSound(r, v, blobs, manifests)
    BY <1>2, RunFacts DEF RunSound
<1>4. runs' = [runs EXCEPT ![r] = v]
    BY <1>1, RunFacts DEF CommitPublicly
<1> QED
    BY <1>2, <1>3, <1>4, PrivateStepSound DEF CommitPublicly

LEMMA RegistryPreserved == RegistryInv /\ [RegistryNext]_registryVars => RegistryInv'
<1> SUFFICES ASSUME RegistryInv, [RegistryNext]_registryVars PROVE RegistryInv'
    OBVIOUS
<1>1. CASE ChooseBackend
    BY <1>1 DEF ChooseBackend, RegistryInv, RegistryTypeOK
<1>2. CASE TrainModel
    BY <1>2 DEF TrainModel, RegistryInv, RegistryTypeOK
<1>3. CASE UNCHANGED registryVars
    BY <1>3 DEF registryVars, RegistryInv, RegistryTypeOK
<1>4. ASSUME NEW r \in Runs, RunDies(r) PROVE RegistryInv'
    BY <1>4, RunDiesSound DEF RunDies
<1> QED
    BY <1>1, <1>2, <1>3, <1>4, StartSound, FindBlobSound, MissBlobSound, CreateBlobSound,
       WriteBlobSound, CheckManifestSound, PublishManifestSound, FinishManifestSound,
       DeliverManifestSound, CommitPubliclySound DEF RegistryNext

LEMMA RegistryInvBacked == RegistryInv => ManifestsAreBacked
<1> SUFFICES ASSUME RegistryInv PROVE ManifestsAreBacked
    OBVIOUS
<1>1. ASSUME NEW c \in AllCandidates, manifests[c].state = "whole" PROVE Verified(c)
    BY <1>1 DEF RegistryInv, ManifestSound, Whole, Verified
<1>2. ASSUME NEW r \in Runs, runs[r].files # "none"
      PROVE  manifests[CandidateOf[r]].by = r /\ Verified(CandidateOf[r])
    BY <1>1, <1>2, RunFacts DEF RunSound
<1> QED
    BY <1>1, <1>2 DEF ManifestsAreBacked

LEMMA CandidatesStay == RegistryInv /\ [RegistryNext]_registryVars => [RegistryStep]_registryVars
<1> SUFFICES ASSUME RegistryInv, RegistryNext PROVE RegistryStep
    OBVIOUS
<1>1. ASSUME manifests' = manifests PROVE RegistryStep
    BY <1>1 DEF RegistryStep
<1>2. ASSUME NEW r \in Runs, PublishManifest(r) PROVE RegistryStep
    <2>1. CASE MayPublish(r)
        BY <1>2, <2>1, RunFacts DEF PublishManifest, MayPublish, RegistryStep
    <2>2. CASE ~ MayPublish(r)
        BY <1>1, <1>2, <2>2 DEF PublishManifest
    <2> QED
        BY <2>1, <2>2
<1>3. ASSUME NEW r \in Runs, FinishManifest(r) PROVE RegistryStep
    <2>1. ASSUME NEW c \in AllCandidates PROVE manifests'[c].by = manifests[c].by
        BY <1>3, RunFacts DEF FinishManifest, Manifests
    <2> QED
        BY <2>1 DEF RegistryStep
<1>4. manifests' = manifests \/ \E r \in Runs : PublishManifest(r) \/ FinishManifest(r)
    BY DEF RegistryNext, ChooseBackend, TrainModel, StartMlops, StartRagops, StartLlmops, Begin, CreateBlob,
           WriteBlob, FindBlob, MissBlob, CheckManifest, DeliverManifest, CommitPublicly, RunDies
<1> QED
    BY <1>1, <1>2, <1>3, <1>4

\* The artifact registry is sound for any runs, whatever blobs and candidate
\* ids they share, on both backends: what it lists can be verified, also what
\* a run that died later left outside, and a candidate id never changes hands.
THEOREM RegistrySound == RegistrySpec => []RegistryTypeOK /\ RegistryIsSound
<1>1. RegistrySpec => []RegistryInv
    BY RegistryStarts, RegistryPreserved, PTL DEF RegistrySpec
<1>2. RegistryInv => RegistryTypeOK
    BY DEF RegistryInv
<1> QED
    BY <1>1, <1>2, RegistryInvBacked, CandidatesStay, PTL
       DEF RegistrySpec, RegistryIsSound, ManifestsAreFinal

-----------------------------------------------------------------------------
(* The audit ledger (AuditTrail).                                          *)

Hashes == (Nat \X (0 .. LastTick) \X AuditEvents) \cup {Genesis}
Rows == [sequence : Nat, at : 0 .. LastTick, event : AuditEvents, data : Metadata, previous : Hashes]
Stamps == [at : 0 .. LastTick, event : AuditEvents, data : Metadata]

TrailInv ==
    /\ tick \in 0 .. LastTick /\ recorders \in [Recorders -> Stamps \cup {NoEvent}]
    /\ rows \in Seq(Rows)
    /\ meta \in [baseSequence : Nat, baseHash : Hashes, headSequence : Nat, headHash : Hashes]
    /\ TrailIsWhole

\* What is appended continues the chain.
LEMMA NextContinues ==
    ASSUME TrailInv
    PROVE  /\ Len(rows) \in Nat /\ meta.baseSequence \in Nat
           /\ NextSequence = meta.baseSequence + Len(rows) + 1
           /\ PreviousHash = HashBefore(Len(rows) + 1) /\ PreviousHash = meta.headHash
           /\ PreviousHash \in Hashes
<1>1. /\ rows \in Seq(Rows) /\ meta.baseSequence \in Nat /\ meta.headHash \in Hashes
      /\ \A i \in 1 .. Len(rows) : rows[i].sequence = meta.baseSequence + i
      /\ meta.headHash = HashBefore(Len(rows) + 1)
    BY DEF TrailInv, TrailIsWhole, TrailVerifies
<1>2. CASE rows = <<>>
    <2>1. Len(rows) = 0
        BY <1>2
    <2> QED
        BY <1>1, <1>2, <2>1 DEF NextSequence, PreviousHash, HashBefore
<1>3. CASE rows # <<>>
    <2>1. Len(rows) \in Nat /\ Len(rows) > 0 /\ Len(rows) \in 1 .. Len(rows)
        BY <1>1, <1>3
    <2>2. rows[Len(rows)].sequence = meta.baseSequence + Len(rows)
        BY <1>1, <2>1
    <2>3. Len(rows) + 1 # 1 /\ (Len(rows) + 1) - 1 = Len(rows)
        BY <2>1
    <2>4. NextSequence = meta.baseSequence + Len(rows) + 1
        BY <1>1, <1>3, <2>1, <2>2 DEF NextSequence
    <2>5. PreviousHash = HashBefore(Len(rows) + 1)
        BY <1>3, <2>3 DEF PreviousHash, HashBefore
    <2> QED
        BY <1>1, <2>1, <2>4, <2>5
<1> QED
    BY <1>2, <1>3

LEMMA TrailStarts == AuditInit => TrailInv
<1> SUFFICES ASSUME AuditInit PROVE TrailInv
    OBVIOUS
<1>1. rows = <<>> /\ Len(rows) = 0 /\ rows \in Seq(Rows) /\ acked = {}
    BY DEF AuditInit
<1>2. meta = [baseSequence |-> 0, baseHash |-> Genesis, headSequence |-> 0, headHash |-> Genesis]
    BY DEF AuditInit
<1>3. Genesis \in Hashes
    BY DEF Hashes
<1>4. meta \in [baseSequence : Nat, baseHash : Hashes, headSequence : Nat, headHash : Hashes]
    BY <1>2, <1>3
<1>5. tick \in 0 .. LastTick /\ recorders \in [Recorders -> Stamps \cup {NoEvent}]
    BY AuditConstants DEF AuditInit
<1>6. TrailVerifies
    BY <1>1, <1>2 DEF TrailVerifies, HashBefore
<1> QED
    BY <1>1, <1>4, <1>5, <1>6 DEF TrailInv, TrailIsWhole

LEMMA AppendRowSound ==
    ASSUME TrailInv, NEW r \in Recorders, AppendRow(r)
    PROVE  TrailInv'
<1>0. PICK n : n = Len(rows)
    OBVIOUS
<1>1. PICK e : e = recorders[r]
    OBVIOUS
<1>2. e \in Stamps /\ recorders' \in [Recorders -> Stamps \cup {NoEvent}] /\ tick' = tick
    BY <1>1 DEF TrailInv, AppendRow
<1>3. CASE Recorded(e.event) # {}
    <2>1. UNCHANGED <<rows, meta, acked>>
        BY <1>1, <1>3 DEF AppendRow
    <2> QED
        BY <1>2, <2>1 DEF TrailInv, TrailIsWhole, TrailVerifies, HashBefore, Recorded
<1>4. CASE Recorded(e.event) = {}
    <2>1. PICK row : row = [sequence |-> NextSequence, at |-> e.at, event |-> e.event, data |-> e.data,
                            previous |-> PreviousHash]
        OBVIOUS
    <2>2. /\ rows' = Append(rows, row)
          /\ meta' = [meta EXCEPT !.headSequence = row.sequence, !.headHash = HashOf(row)]
          /\ acked' = acked \cup {[event |-> e.event, data |-> e.data]}
        BY <1>1, <1>4, <2>1 DEF AppendRow
    <2>3. /\ n \in Nat /\ rows \in Seq(Rows) /\ meta.baseSequence \in Nat /\ meta.baseHash \in Hashes
          /\ meta \in [baseSequence : Nat, baseHash : Hashes, headSequence : Nat, headHash : Hashes]
        BY <1>0, NextContinues DEF TrailInv
    <2>4. /\ row \in Rows /\ row.sequence = meta.baseSequence + n + 1 /\ row.event = e.event
          /\ row.data = e.data /\ row.previous = HashBefore(n + 1)
        BY <1>0, <1>2, <2>1, NextContinues DEF Rows, Stamps
    <2>5. HashOf(row) \in Hashes
        BY <2>4 DEF HashOf, Hashes, Rows
    <2>55. row.sequence \in Nat
        BY <2>4 DEF Rows
    <2>6. /\ meta' \in [baseSequence : Nat, baseHash : Hashes, headSequence : Nat, headHash : Hashes]
          /\ meta'.baseSequence = meta.baseSequence /\ meta'.baseHash = meta.baseHash
          /\ meta'.headSequence = meta.baseSequence + n + 1 /\ meta'.headHash = HashOf(row)
        BY <2>2, <2>3, <2>4, <2>5, <2>55
    <2>7. /\ rows' \in Seq(Rows) /\ Len(rows') = n + 1 /\ rows'[n + 1] = row
          /\ \A i \in 1 .. n : rows'[i] = rows[i]
        BY <1>0, <2>2, <2>3, <2>4
    <2>8. \A i \in 1 .. n : rows[i].sequence = meta.baseSequence + i /\ rows[i].previous = HashBefore(i)
        BY <1>0 DEF TrailInv, TrailIsWhole, TrailVerifies
    <2>9. \A i \in 1 .. n + 1 : HashBefore(i)' = HashBefore(i)
        <3> SUFFICES ASSUME NEW i \in 1 .. n + 1, i # 1 PROVE rows'[i - 1] = rows[i - 1]
            BY <2>6 DEF HashBefore
        <3>1. i - 1 \in 1 .. n
            BY <2>3
        <3> QED
            BY <2>7, <3>1
    <2>10. TrailVerifies'
        <3>1. ASSUME NEW i \in 1 .. n + 1
              PROVE  rows'[i].sequence = meta.baseSequence + i /\ rows'[i].previous = HashBefore(i)'
            <4>1. CASE i = n + 1
                <5>1. rows'[i] = row /\ HashBefore(i)' = HashBefore(n + 1)
                    BY <2>7, <2>9, <4>1
                <5>2. meta.baseSequence + n + 1 = meta.baseSequence + i
                    BY <2>3, <4>1
                <5> QED
                    BY <2>4, <5>1, <5>2
            <4>2. CASE i # n + 1
                <5>1. i \in 1 .. n
                    BY <2>3, <4>2
                <5> QED
                    BY <2>7, <2>8, <2>9, <5>1
            <4> QED
                BY <4>1, <4>2
        <3>2. (n + 1) + 1 # 1 /\ ((n + 1) + 1) - 1 = n + 1 /\ meta.baseSequence + n + 1 = meta.baseSequence + (n + 1)
            BY <2>3
        <3>3. HashBefore((n + 1) + 1)' = HashOf(row)
            BY <2>7, <3>2 DEF HashBefore
        <3> QED
            BY <2>6, <2>7, <3>1, <3>2, <3>3 DEF TrailVerifies
    <2>11. ASSUME NEW a \in acked'
           PROVE  \E i \in 1 .. Len(rows') : Recorded(a.event)' = {i} /\ rows'[i].data = a.data
        <3>1. CASE a \in acked
            <4>1. PICK i \in 1 .. n : Recorded(a.event) = {i} /\ rows[i].data = a.data
                BY <1>0, <3>1 DEF TrailInv, TrailIsWhole
            <4>2. a.event # e.event /\ i \in 1 .. n + 1
                <5>1. rows[i].event = a.event /\ \A j \in 1 .. n : rows[j].event # e.event
                    BY <1>0, <1>4, <4>1 DEF Recorded
                <5> QED
                    BY <2>3, <5>1
            <4>3. \A j \in 1 .. n + 1 : j \in 1 .. n \/ j = n + 1
                BY <2>3
            <4>4. \A j \in 1 .. n : j \in 1 .. n + 1
                BY <2>3
            <4>5. {j \in 1 .. n + 1 : rows'[j].event = a.event} = {j \in 1 .. n : rows[j].event = a.event}
                BY <2>4, <2>7, <4>2, <4>3, <4>4
            <4> QED
                BY <1>0, <2>7, <4>1, <4>2, <4>5 DEF Recorded
        <3>2. CASE a = [event |-> e.event, data |-> e.data]
            <4>1. a.event = e.event /\ a.data = e.data /\ n + 1 \in 1 .. n + 1
                BY <2>3, <3>2
            <4>2. \A j \in 1 .. n : rows[j].event # e.event
                BY <1>0, <1>4 DEF Recorded
            <4>3. \A j \in 1 .. n + 1 : j \in 1 .. n \/ j = n + 1
                BY <2>3
            <4>4. {j \in 1 .. n + 1 : rows'[j].event = a.event} = {n + 1}
                BY <2>4, <2>7, <4>1, <4>2, <4>3
            <4> QED
                BY <2>4, <2>7, <4>1, <4>4 DEF Recorded
        <3> QED
            BY <2>2, <3>1, <3>2
    <2> QED
        BY <1>2, <2>6, <2>7, <2>10, <2>11 DEF TrailInv, TrailIsWhole
<1> QED
    BY <1>3, <1>4

LEMMA PruneBeforeSound ==
    ASSUME TrailInv, NEW cutoff, NEW limit, PruneBefore(cutoff, limit)
    PROVE  TrailInv'
<1>0. PICK n : n = Len(rows)
    OBVIOUS
<1>1. PICK k \in Prunable(cutoff, limit) :
        /\ meta' = [meta EXCEPT !.baseSequence = rows[k].sequence, !.baseHash = HashOf(rows[k])]
        /\ rows' = SubSeq(rows, k + 1, Len(rows))
        /\ acked' = {a \in acked : \E i \in k + 1 .. Len(rows) : rows[i].event = a.event}
    BY DEF PruneBefore
<1>2. UNCHANGED <<tick, recorders>>
    BY DEF PruneBefore
<1>3. /\ rows \in Seq(Rows) /\ n \in Nat /\ meta.baseSequence \in Nat
      /\ meta \in [baseSequence : Nat, baseHash : Hashes, headSequence : Nat, headHash : Hashes]
      /\ \A i \in 1 .. n : rows[i].sequence = meta.baseSequence + i /\ rows[i].previous = HashBefore(i)
      /\ meta.headSequence = meta.baseSequence + n /\ meta.headHash = HashBefore(n + 1)
    BY <1>0 DEF TrailInv, TrailIsWhole, TrailVerifies
<1>4. k \in 1 .. n /\ rows[k] \in Rows
    BY <1>0, <1>3 DEF Prunable
<1>4a. n \in Nat /\ k \in Nat /\ 1 <= k /\ k <= n
    BY <1>3, <1>4
<1>5. rows[k].sequence = meta.baseSequence + k /\ rows[k].sequence \in Nat /\ HashOf(rows[k]) \in Hashes
    BY <1>3, <1>4 DEF HashOf, Hashes, Rows
<1>6. /\ meta' \in [baseSequence : Nat, baseHash : Hashes, headSequence : Nat, headHash : Hashes]
      /\ meta'.baseSequence = meta.baseSequence + k /\ meta'.baseHash = HashOf(rows[k])
      /\ meta'.headSequence = meta.headSequence /\ meta'.headHash = meta.headHash
    BY <1>1, <1>3, <1>4, <1>5
<1>7. /\ rows' \in Seq(Rows) /\ Len(rows') = n - k
      /\ \A i \in 1 .. n - k : rows'[i] = rows[k + i]
    <2>1. \A i \in k + 1 .. n : rows[i] \in Rows
        <3>1. \A i \in k + 1 .. n : i \in 1 .. n
            BY <1>4a
        <3>2. \A i \in 1 .. n : rows[i] \in Rows
            BY <1>0, <1>3
        <3> QED
            BY <3>1, <3>2
    <2>2. k + 1 \in Int /\ n \in Int
        BY <1>4a
    <2>3. /\ SubSeq(rows, k + 1, n) \in Seq(Rows)
          /\ Len(SubSeq(rows, k + 1, n)) = IF k + 1 <= n THEN n - (k + 1) + 1 ELSE 0
          /\ \A i \in 1 .. n - (k + 1) + 1 : SubSeq(rows, k + 1, n)[i] = rows[(k + 1) + i - 1]
        BY <2>1, <2>2, SubSeqProperties
    <2>4. /\ (IF k + 1 <= n THEN n - (k + 1) + 1 ELSE 0) = n - k
          /\ n - (k + 1) + 1 = n - k
        BY <1>4a
    <2>5. \A i \in 1 .. n - k : (k + 1) + i - 1 = k + i
        BY <1>4a
    <2>6. rows' = SubSeq(rows, k + 1, n)
        BY <1>0, <1>1
    <2> QED
        BY <2>3, <2>4, <2>5, <2>6
<1>8. \A i \in 1 .. n - k + 1 : HashBefore(i)' = HashBefore(k + i)
    <2> SUFFICES ASSUME NEW i \in 1 .. n - k + 1 PROVE HashBefore(i)' = HashBefore(k + i)
        OBVIOUS
    <2>1. k + i # 1 /\ (k + i) - 1 = k + (i - 1)
        BY <1>4
    <2>2. CASE i = 1
        <3>1. k + (i - 1) = k
            BY <1>4, <2>2
        <3> QED
            BY <1>6, <2>1, <2>2, <3>1 DEF HashBefore
    <2>3. CASE i # 1
        <3>1. i - 1 \in 1 .. n - k
            BY <1>4a, <2>3
        <3>2. rows'[i - 1] = rows[k + (i - 1)]
            BY <1>7, <3>1
        <3> QED
            BY <2>1, <2>3, <3>2 DEF HashBefore
    <2> QED
        BY <2>2, <2>3
<1>9. TrailVerifies'
    <2>1. ASSUME NEW i \in 1 .. n - k
          PROVE  rows'[i].sequence = meta'.baseSequence + i /\ rows'[i].previous = HashBefore(i)'
        <3>1. k + i \in 1 .. n /\ i \in 1 .. n - k + 1 /\ meta.baseSequence + (k + i) = (meta.baseSequence + k) + i
            BY <1>3, <1>4a
        <3> QED
            BY <1>3, <1>6, <1>7, <1>8, <3>1
    <2>2. /\ n - k + 1 \in 1 .. n - k + 1 /\ k + (n - k + 1) = n + 1
          /\ meta.baseSequence + n = (meta.baseSequence + k) + (n - k)
        BY <1>3, <1>4a
    <2>3. meta'.headHash = HashBefore(n - k + 1)'
        BY <1>3, <1>6, <1>8, <2>2
    <2> QED
        BY <1>3, <1>6, <1>7, <2>1, <2>2, <2>3 DEF TrailVerifies
<1>10. ASSUME NEW a \in acked'
       PROVE  \E i \in 1 .. Len(rows') : Recorded(a.event)' = {i} /\ rows'[i].data = a.data
    <2>1. PICK j \in k + 1 .. n : rows[j].event = a.event
        BY <1>0, <1>1
    <2>2. PICK i \in 1 .. n : Recorded(a.event) = {i} /\ rows[i].data = a.data
        BY <1>0, <1>1 DEF TrailInv, TrailIsWhole
    <2>3. \A x \in 1 .. n : rows[x].event = a.event <=> x = i
        BY <1>0, <2>2 DEF Recorded
    <2>4. j \in 1 .. n /\ j = i
        <3>1. j \in 1 .. n
            BY <1>4a
        <3> QED
            BY <2>1, <2>3, <3>1
    <2>5. i - k \in 1 .. n - k /\ k + (i - k) = i
        BY <1>4a, <2>4
    <2>6. \A x \in 1 .. n - k : rows'[x].event = a.event <=> x = i - k
        <3> SUFFICES ASSUME NEW x \in 1 .. n - k PROVE rows'[x].event = a.event <=> x = i - k
            OBVIOUS
        <3>1. k + x \in 1 .. n
            BY <1>4a
        <3>2. k + x = i <=> x = i - k
            BY <1>4a
        <3> QED
            BY <1>7, <2>3, <3>1, <3>2
    <2>7. {x \in 1 .. n - k : rows'[x].event = a.event} = {i - k}
        BY <2>5, <2>6
    <2>8. Recorded(a.event)' = {i - k}
        BY <1>7, <2>7 DEF Recorded
    <2>9. rows'[i - k].data = a.data
        BY <1>7, <2>2, <2>5
    <2> QED
        BY <1>7, <2>5, <2>8, <2>9
<1> QED
    BY <1>2, <1>6, <1>7, <1>9, <1>10 DEF TrailInv, TrailIsWhole

LEMMA TrailPreserved == TrailInv /\ [AuditNext]_auditVars => TrailInv'
<1> SUFFICES ASSUME TrailInv, [AuditNext]_auditVars PROVE TrailInv'
    OBVIOUS
<1> USE DEF TrailInv, TrailIsWhole, TrailVerifies, HashBefore, Recorded
<1>1. CASE Ticks
    <2>1. tick' \in 0 .. LastTick
        BY <1>1, AuditConstants DEF Ticks
    <2> QED
        BY <1>1, <2>1 DEF Ticks
<1>2. ASSUME NEW r \in Recorders, Stamp(r) PROVE TrailInv'
    <2>1. recorders' \in [Recorders -> Stamps \cup {NoEvent}]
        BY <1>2 DEF Stamp, Stamps
    <2> QED
        BY <1>2, <2>1 DEF Stamp
<1>3. ASSUME NEW r \in Recorders, RecorderDies(r) PROVE TrailInv'
    BY <1>3 DEF RecorderDies
<1>4. CASE UNCHANGED auditVars
    BY <1>4 DEF auditVars
<1> HIDE DEF TrailInv, TrailIsWhole, TrailVerifies, HashBefore, Recorded
<1> QED
    BY <1>1, <1>2, <1>3, <1>4, AppendRowSound, PruneBeforeSound DEF AuditNext

LEMMA TrailTyped == TrailInv => AuditTypeOK
<1> SUFFICES ASSUME TrailInv PROVE AuditTypeOK
    OBVIOUS
<1>1. /\ rows \in Seq(Rows) /\ Len(rows) \in Nat /\ meta.baseSequence \in Nat
      /\ \A i \in 1 .. Len(rows) : rows[i] \in Rows /\ rows[i].sequence = meta.baseSequence + i
      /\ meta.headSequence = meta.baseSequence + Len(rows)
    BY DEF TrailInv, TrailIsWhole, TrailVerifies
<1>2. meta.headSequence \in Nat /\ meta.baseSequence \in 0 .. meta.headSequence
    BY <1>1
<1>3. ASSUME NEW i \in 1 .. Len(rows)
      PROVE  /\ rows[i].sequence \in 1 .. meta.headSequence
             /\ rows[i].at \in 0 .. LastTick /\ rows[i].event \in AuditEvents
    BY <1>1 DEF Rows
<1> QED
    BY <1>2, <1>3 DEF TrailInv, AuditTypeOK, Stamps

\* The audit ledger is whole for any recorders, events, clock and retention
\* limits: the chain verifies before every transaction, and what was
\* acknowledged is recorded once, as acknowledged, until it is pruned.
THEOREM TrailSound == AuditSpec => [](AuditTypeOK /\ TrailIsWhole)
<1>1. AuditSpec => []TrailInv
    BY TrailStarts, TrailPreserved, PTL DEF AuditSpec
<1>2. TrailInv => TrailIsWhole
    BY DEF TrailInv
<1> QED
    BY <1>1, <1>2, TrailTyped, PTL

-----------------------------------------------------------------------------
(* Caches that remember a limited number of entries.                       *)

\* A cache without an entry: what is left was there, and there is less of it.
LEMMA DroppedSound ==
    ASSUME NEW S, NEW cache \in Seq(S), NEW places \in SUBSET (DOMAIN cache)
    PROVE  /\ Dropped(cache, places) \in Seq(S)
           /\ Len(Dropped(cache, places)) <= Len(cache)
           /\ places # {} => Len(Dropped(cache, places)) < Len(cache)
           /\ \A k \in 1 .. Len(Dropped(cache, places)) :
                \E m \in 1 .. Len(cache) : Dropped(cache, places)[k] = cache[m]
<1>1. Len(cache) \in Nat /\ DOMAIN cache = 1 .. Len(cache) /\ \A k \in 1 .. Len(cache) : cache[k] \in S
    OBVIOUS
<1>2. CASE places = {}
    BY <1>1, <1>2 DEF Dropped
<1>3. CASE places # {}
    <2>1. PICK i : i = CHOOSE k \in places : TRUE
        OBVIOUS
    <2>2. i \in 1 .. Len(cache)
        BY <1>1, <1>3, <2>1
    <2>3. PICK front, back, n : /\ front = SubSeq(cache, 1, i - 1) /\ n = Len(cache)
                                /\ back = SubSeq(cache, i + 1, Len(cache))
        OBVIOUS
    <2>4. Dropped(cache, places) = front \o back
        BY <1>3, <2>1, <2>3 DEF Dropped
    <2>5. PICK j : j = i - 1
        OBVIOUS
    <2>6. /\ n \in Nat /\ i \in 1 .. n /\ j \in 0 .. n - 1 /\ i + 1 \in Int /\ n - (i + 1) + 1 = n - i
          /\ front = SubSeq(cache, 1, j) /\ back = SubSeq(cache, i + 1, n)
        BY <1>1, <2>2, <2>3, <2>5
    <2>7. front \in Seq(S) /\ Len(front) = j /\ \A k \in 1 .. j : front[k] = cache[k]
        <3>1. \A k \in 1 .. j : cache[k] \in S /\ 1 + k - 1 = k
            BY <1>1, <2>3, <2>6
        <3>2. /\ front \in Seq(S) /\ Len(front) = IF 1 <= j THEN j - 1 + 1 ELSE 0
              /\ \A k \in 1 .. j - 1 + 1 : front[k] = cache[1 + k - 1]
            BY <2>6, <3>1, SubSeqProperties
        <3> QED
            BY <2>6, <3>1, <3>2
    <2>8. back \in Seq(S) /\ Len(back) = n - i /\ \A k \in 1 .. n - i : back[k] = cache[i + k]
        <3>1. \A k \in i + 1 .. n : cache[k] \in S
            BY <1>1, <2>3, <2>6
        <3>2. /\ back \in Seq(S) /\ Len(back) = IF i + 1 <= n THEN n - (i + 1) + 1 ELSE 0
              /\ \A k \in 1 .. n - (i + 1) + 1 : back[k] = cache[i + 1 + k - 1]
            BY <2>6, <3>1, SubSeqProperties
        <3>3. \A k \in 1 .. n - i : i + 1 + k - 1 = i + k
            BY <2>6
        <3> QED
            BY <2>6, <3>2, <3>3
    <2>9. PICK both : both = front \o back
        OBVIOUS
    <2>10. /\ both \in Seq(S) /\ Len(both) = j + (n - i)
           /\ \A k \in 1 .. j + (n - i) : both[k] = IF k <= j THEN front[k] ELSE back[k - j]
        BY <2>7, <2>8, <2>9, ConcatProperties
    <2>11. ASSUME NEW k \in 1 .. j + (n - i)
           PROVE  \E m \in 1 .. n : both[k] = cache[m]
        <3>1. CASE k <= j
            BY <2>6, <2>7, <2>10, <3>1
        <3>2. CASE ~ (k <= j)
            <4>1. k - j \in 1 .. n - i /\ i + (k - j) \in 1 .. n
                BY <2>6, <3>2
            <4> QED
                BY <2>8, <2>10, <3>2, <4>1
        <3> QED
            BY <3>1, <3>2
    <2>12. Len(both) = j + (n - i) /\ j + (n - i) < n
        BY <2>2, <2>5, <2>6, <2>10
    <2>13. Dropped(cache, places) = both /\ n = Len(cache)
        BY <2>3, <2>4, <2>9
    <2>14. /\ both \in Seq(S) /\ Len(both) < n
           /\ \A k \in 1 .. Len(both) : \E m \in 1 .. n : both[k] = cache[m]
        BY <2>10, <2>11, <2>12
    <2>15. Len(both) <= n
        BY <2>6, <2>10, <2>12
    <2> QED
        BY <2>13, <2>14, <2>15
<1> QED
    BY <1>2, <1>3

\* A cache that has at most one entry too many is cut down to its size.
LEMMA LimitedSound ==
    ASSUME NEW S, NEW cache \in Seq(S), NEW size \in Nat, Len(cache) <= size + 1
    PROVE  /\ Limited(cache, size) \in Seq(S)
           /\ Len(Limited(cache, size)) <= size
           /\ \A k \in 1 .. Len(Limited(cache, size)) :
                \E m \in 1 .. Len(cache) : Limited(cache, size)[k] = cache[m]
<1>1. CASE ~ (Len(cache) > size)
    BY <1>1 DEF Limited
<1>2. CASE Len(cache) > size
    <2>1. PICK rest, n : rest = Tail(cache) /\ n = Len(cache)
        OBVIOUS
    <2>2. n = size + 1 /\ cache # <<>> /\ n \in Nat
        BY <1>2, <2>1
    <2>3. rest \in Seq(S) /\ Len(rest) = n - 1 /\ \A k \in 1 .. n - 1 : rest[k] = cache[k + 1]
        BY <2>1, <2>2, HeadTailProperties
    <2>4. \A k \in 1 .. Len(rest) : \E m \in 1 .. n : rest[k] = cache[m]
        <3>1. \A k \in 1 .. Len(rest) : k + 1 \in 1 .. n /\ rest[k] = cache[k + 1]
            BY <2>2, <2>3
        <3> QED
            BY <3>1
    <2>5. Len(rest) <= size
        BY <2>2, <2>3
    <2>6. Limited(cache, size) = rest
        BY <1>2, <2>1 DEF Limited
    <2> QED
        BY <2>1, <2>3, <2>4, <2>5, <2>6
<1> QED
    BY <1>1, <1>2


-----------------------------------------------------------------------------
(* Grounded answers (Generation).                                          *)

Results == [mode : {"none", "fallback", "no_answer", "error", "answer"}, citations : SUBSET Hits,
            claim : Claims]

RequestStates ==
    [at : {"idle", "calling", "rendering", "waiting", "done"}, kind : {"none", "analyze", "answer"},
     closed : Gates \cup {"none"}, delta : {"none", "known", "world"}, shadow : BOOLEAN,
     hits : SUBSET Hits, context : SUBSET Hits, result : Results]

Underway(r) == r.at \in {"calling", "rendering", "waiting"}
AnswerGiven(r) == r.at = "done" /\ r.result.mode = "answer"

\* The gates were open to what may yet be shown.
GatesWereOpen(r) == (Underway(r) \/ AnswerGiven(r)) /\ ~ r.shadow => r.closed = "none" /\ r.delta # "world"

\* The model is shown a context that keeps the budgets.
ContextIsBuilt(r) == r.at = "waiting" \/ AnswerGiven(r) => r.context \in Contexts(r.hits)

ClaimIsSound(result) == result.claim.relation = "new_information" =>
    /\ result.claim.text \notin Known
    /\ \E c \in result.citations : TextOf[c] = result.claim.text

ResultIsSound(r) == AnswerGiven(r) =>
    r.result.citations # {} /\ r.result.citations \subseteq r.context /\ ClaimIsSound(r.result)

RequestSound(r) ==
    r \in RequestStates /\ GatesWereOpen(r) /\ ContextIsBuilt(r) /\ ResultIsSound(r)

Busy == {a \in Askers : Underway(asker[a])}

GenerationInv ==
    /\ breaker \in [open : BOOLEAN, cooled : BOOLEAN, probing : BOOLEAN, failures : Nat]
    /\ recent = breaker.failures /\ (breaker.open <=> recent >= Threshold)
    /\ asker \in [Askers -> RequestStates] /\ \A a \in Askers : RequestSound(asker[a])
    /\ asked \in 0 .. Questions /\ breaker.failures + Cardinality(Busy) <= asked

LEMMA NoAnswerResults ==
    /\ {NoAnswer, Fallback, Abstention, Error} \subseteq Results
    /\ \A r \in {NoAnswer, Fallback, Abstention, Error} : r.mode # "answer"
    /\ \A kind : Unanswered(kind) \in {Fallback, Abstention}
<1>1. NoClaim \in Claims
    BY DEF Claims
<1>2. NoAnswer = [mode |-> "none", citations |-> {}, claim |-> NoClaim]
    BY DEF NoAnswer
<1>3. NoAnswer \in Results /\ NoAnswer.mode = "none"
    BY <1>1, <1>2, Zenon DEF Results
<1>4. Fallback \in Results /\ Fallback.mode = "fallback"
    BY <1>1, <1>2, Zenon DEF Results, Fallback
<1>5. Abstention \in Results /\ Abstention.mode = "no_answer"
    BY <1>1, <1>2, Zenon DEF Results, Abstention
<1>6. Error \in Results /\ Error.mode = "error"
    BY <1>1, <1>2, Zenon DEF Results, Error
<1>7. \A kind : Unanswered(kind) \in {Fallback, Abstention}
    BY DEF Unanswered
<1> QED
    BY <1>3, <1>4, <1>5, <1>6, <1>7

LEMMA NoRequestSound ==
    NoRequest0 \in RequestStates /\ NoRequest0.at = "idle" /\ NoRequest0.shadow = FALSE
<1>1. NoAnswer \in Results
    BY NoAnswerResults
<1> HIDE DEF NoAnswer
<1> QED
    BY <1>1, Zenon DEF NoRequest0, RequestStates

\* A request that ends without an answer.
LEMMA EndedSound ==
    ASSUME NEW result \in Results, result.mode # "answer"
    PROVE  RequestSound(Ended0(result)) /\ Ended0(result).at = "done"
<1>1. Ended0(result) = [NoRequest0 EXCEPT !.at = "done", !.result = result]
    BY DEF Ended0
<1> HIDE DEF Ended0
<1>2. Ended0(result) \in RequestStates
    BY <1>1, NoRequestSound, Zenon DEF RequestStates
<1>3. Ended0(result).at = "done" /\ Ended0(result).result = result
    BY <1>1, NoRequestSound, Zenon DEF RequestStates
<1> QED
    BY <1>2, <1>3 DEF RequestSound, GatesWereOpen, ContextIsBuilt, ResultIsSound, Underway, AnswerGiven

\* A request that nothing was decided about.
Asks(request) == /\ request \in RequestStates /\ request.at = "idle"

LEMMA RetrievedSound ==
    ASSUME NEW request, Asks(request), request.shadow \/ request.closed = "none" \/ request.delta = "world",
           NEW retrieval
    PROVE  RequestSound(Retrieved(request, retrieval))
<1>1. Unanswered(request.kind) \in Results /\ Unanswered(request.kind).mode # "answer"
    BY NoAnswerResults
<1>2. Error \in Results /\ Error.mode # "answer" /\ Abstention \in Results /\ Abstention.mode # "answer"
    BY NoAnswerResults
<1>3. CASE retrieval \in {"failed", "unavailable"} \/ request.delta = "world" \/ retrieval = "nothing"
    BY <1>1, <1>2, <1>3, EndedSound DEF Retrieved
<1>4. CASE ~ (retrieval \in {"failed", "unavailable"} \/ request.delta = "world" \/ retrieval = "nothing")
    <2>1. Retrieved(request, retrieval) = [request EXCEPT !.at = "calling", !.hits = Hits]
        BY <1>4 DEF Retrieved
    <2>2. PICK v : v = [request EXCEPT !.at = "calling", !.hits = Hits]
        OBVIOUS
    <2>3. v \in RequestStates
        BY <2>2, Zenon DEF Asks, RequestStates
    <2>4. /\ v.at = "calling" /\ v.closed = request.closed /\ v.delta = request.delta
          /\ v.shadow = request.shadow
        BY <2>2, Zenon DEF Asks, RequestStates
    <2>5. RequestSound(v)
        BY <1>4, <2>3, <2>4
           DEF RequestSound, GatesWereOpen, ContextIsBuilt, ResultIsSound, Underway, AnswerGiven
    <2> QED
        BY <2>1, <2>2, <2>5
<1> QED
    BY <1>3, <1>4

LEMMA RoutedSound ==
    ASSUME NEW request, Asks(request), NEW retrieval
    PROVE  RequestSound(Routed(request, retrieval))
<1>1. CASE Opens(request)
    BY <1>1, RetrievedSound DEF Routed, Opens
<1>2. CASE ~ Opens(request) /\ Shadowed(request)
    <2>1. PICK v : v = [NoRequest0 EXCEPT !.kind = "analyze", !.shadow = TRUE]
        OBVIOUS
    <2>2. v \in RequestStates
        BY <2>1, NoRequestSound, Zenon DEF RequestStates
    <2>3. v.at = "idle" /\ v.shadow
        BY <2>1, NoRequestSound, Zenon DEF RequestStates
    <2> QED
        BY <1>2, <2>1, <2>2, <2>3, RetrievedSound DEF Asks, Routed
<1>3. CASE ~ Opens(request) /\ ~ Shadowed(request)
    <2>1. Unanswered(request.kind) \in Results /\ Unanswered(request.kind).mode # "answer"
        BY NoAnswerResults
    <2> QED
        BY <1>3, <2>1, EndedSound DEF Routed
<1> QED
    BY <1>1, <1>2, <1>3

LEMMA GenerationStarts == GenerationInit => GenerationInv
<1> SUFFICES ASSUME GenerationInit PROVE GenerationInv
    OBVIOUS
<1>1. breaker = [open |-> FALSE, cooled |-> FALSE, probing |-> FALSE, failures |-> 0]
    BY DEF GenerationInit
<1>2. asker \in [Askers -> RequestStates] /\ \A a \in Askers : asker[a] = NoRequest0
    BY NoRequestSound DEF GenerationInit
<1>3. RequestSound(NoRequest0) /\ ~ Underway(NoRequest0)
    BY NoRequestSound DEF RequestSound, GatesWereOpen, ContextIsBuilt, ResultIsSound, Underway, AnswerGiven
<1>4. Busy = {} /\ Cardinality(Busy) = 0
    BY <1>2, <1>3, FS_EmptySet DEF Busy
<1>5. recent = 0 /\ asked = 0
    BY DEF GenerationInit
<1> QED
    BY <1>1, <1>2, <1>3, <1>4, <1>5, GenerationConstants DEF GenerationInv

\* A step of one request, which moves it to v.
LEMMA BusySteps ==
    ASSUME asker \in [Askers -> RequestStates], NEW a \in Askers, NEW v,
           asker' = [asker EXCEPT ![a] = v]
    PROVE  /\ Cardinality(Busy) \in Nat /\ Cardinality(Busy') \in Nat
           /\ Cardinality(Busy') <= Cardinality(Busy) + 1
           /\ ~ Underway(v) \/ a \in Busy => Cardinality(Busy') <= Cardinality(Busy)
           /\ ~ Underway(v) /\ a \in Busy => Cardinality(Busy') = Cardinality(Busy) - 1
<1>1. IsFiniteSet(Busy)
    <2>1. Busy \subseteq Askers
        BY DEF Busy
    <2> QED
        BY <2>1, GenerationConstants, FS_Subset
<1>2. Busy' = IF Underway(v) THEN Busy \cup {a} ELSE Busy \ {a}
    BY DEF Busy
<1>3. /\ Cardinality(Busy) \in Nat
      /\ Cardinality(Busy \cup {a}) = IF a \in Busy THEN Cardinality(Busy) ELSE Cardinality(Busy) + 1
      /\ Cardinality(Busy \ {a}) = IF a \in Busy THEN Cardinality(Busy) - 1 ELSE Cardinality(Busy)
    BY <1>1, FS_CardinalityType, FS_AddElement, FS_RemoveElement
<1>4. a \in Busy => Cardinality(Busy) - 1 \in Nat
    <2>1. a \in Busy => Cardinality(Busy) # 0
        BY <1>1, FS_EmptySet
    <2> QED
        BY <1>3, <2>1
<1> QED
    BY <1>2, <1>3, <1>4

LEMMA AskerSteps ==
    ASSUME GenerationInv, NEW a \in Askers, NEW v, RequestSound(v), asker' = [asker EXCEPT ![a] = v]
    PROVE  asker' \in [Askers -> RequestStates] /\ \A b \in Askers : RequestSound(asker'[b])
BY DEF GenerationInv, RequestSound

LEMMA QuestionSound ==
    ASSUME GenerationInv, NEW a \in Askers, Question(a)
    PROVE  GenerationInv'
<1>1. PICK r \in Requests, closed \in Gates \cup {"none"}, retrieval \in {"failed", "unavailable", "nothing", "hits"} :
        asker' = [asker EXCEPT ![a] =
            Routed(Asking(r, closed), retrieval)]
    <2>1. PICK next \in FirstSteps : asker' = [asker EXCEPT ![a] = next]
        BY DEF Question
    <2>2. \E r \in Requests, closed \in Gates \cup {"none"}, retrieval \in {"failed", "unavailable", "nothing", "hits"} :
            next = Routed(Asking(r, closed), retrieval)
        BY DEF FirstSteps
    <2> QED
        BY <2>1, <2>2
<1>2. asked < Questions /\ asked' = asked + 1 /\ UNCHANGED <<breaker, recent>>
    BY DEF Question
<1>3. PICK request : request = Asking(r, closed)
    OBVIOUS
<1>4. Asks(request)
    <2>1. r.kind \in {"analyze", "answer"} /\ r.delta \in {"none", "known", "world"}
        BY DEF Requests
    <2>2. r.kind \in {"none", "analyze", "answer"}
        BY <2>1
    <2>3. request \in RequestStates
        BY <1>3, <2>1, <2>2, NoRequestSound, Zenon DEF RequestStates, Asking
    <2>4. request.at = "idle"
        BY <1>3, NoRequestSound, Zenon DEF RequestStates, Asking
    <2> QED
        BY <2>3, <2>4 DEF Asks
<1>5. PICK v : v = Routed(request, retrieval)
    OBVIOUS
<1>6. RequestSound(v) /\ asker' = [asker EXCEPT ![a] = v]
    BY <1>1, <1>3, <1>4, <1>5, RoutedSound
<1>7. asker \in [Askers -> RequestStates] /\ asked \in 0 .. Questions /\ breaker.failures \in Nat
    BY DEF GenerationInv
<1>8. Cardinality(Busy') <= Cardinality(Busy) + 1 /\ Cardinality(Busy') \in Nat /\ Cardinality(Busy) \in Nat
    BY <1>6, <1>7, BusySteps
<1>9. breaker'.failures + Cardinality(Busy') <= asked' /\ asked' \in 0 .. Questions
    BY <1>2, <1>7, <1>8, GenerationConstants DEF GenerationInv
<1> QED
    BY <1>2, <1>6, <1>9, AskerSteps DEF GenerationInv

\* The ways a request ends.
LEMMA DoneSound ==
    ASSUME GenerationInv, NEW a \in Askers, Underway(asker[a]), NEW result \in Results, Done(a, result),
           result.mode = "answer" =>
               /\ asker[a].context \in Contexts(asker[a].hits)
               /\ result.citations # {} /\ result.citations \subseteq asker[a].context /\ ClaimIsSound(result)
    PROVE  /\ asker' \in [Askers -> RequestStates] /\ \A b \in Askers : RequestSound(asker'[b])
           /\ Cardinality(Busy') = Cardinality(Busy) - 1 /\ Cardinality(Busy) \in Nat /\ Cardinality(Busy') \in Nat
<1>1. /\ asker \in [Askers -> RequestStates] /\ asker[a] \in RequestStates /\ RequestSound(asker[a])
      /\ a \in Busy
    BY DEF GenerationInv, Busy
<1>2. PICK v : v = IF result.mode = "answer" THEN [asker[a] EXCEPT !.at = "done", !.result = result] ELSE Ended0(result)
    OBVIOUS
<1>3. asker' = [asker EXCEPT ![a] = v]
    BY <1>2 DEF Done
<1>4. RequestSound(v) /\ v.at = "done"
    <2>1. CASE result.mode # "answer"
        BY <1>2, <2>1, EndedSound
    <2>2. CASE result.mode = "answer"
        <3>1. v = [asker[a] EXCEPT !.at = "done", !.result = result]
            BY <1>2, <2>2
        <3>2. v \in RequestStates
            BY <1>1, <3>1, Zenon DEF RequestStates
        <3>3. /\ v.at = "done" /\ v.result = result /\ v.closed = asker[a].closed
              /\ v.delta = asker[a].delta /\ v.shadow = asker[a].shadow
              /\ v.context = asker[a].context /\ v.hits = asker[a].hits
            BY <1>1, <3>1, Zenon DEF RequestStates
        <3>4. GatesWereOpen(v)
            BY <1>1, <3>3 DEF RequestSound, GatesWereOpen
        <3>5. ContextIsBuilt(v) /\ ResultIsSound(v)
            BY <2>2, <3>3 DEF ContextIsBuilt, ResultIsSound
        <3> QED
            BY <3>2, <3>3, <3>4, <3>5 DEF RequestSound
    <2> QED
        BY <2>1, <2>2
<1>5. ~ Underway(v)
    BY <1>4 DEF Underway
<1> QED
    BY <1>1, <1>3, <1>4, <1>5, AskerSteps, BusySteps

LEMMA UnansweredResult ==
    ASSUME NEW kind
    PROVE  Unanswered(kind) \in Results /\ Unanswered(kind).mode # "answer"
BY NoAnswerResults

LEMMA EnterCircuitSound ==
    ASSUME GenerationInv, NEW a \in Askers, EnterCircuit(a)
    PROVE  GenerationInv'
<1>1. /\ asker[a].at = "calling" /\ Underway(asker[a]) /\ a \in Busy /\ UNCHANGED <<recent, asked>>
      /\ asker[a] \in RequestStates /\ RequestSound(asker[a]) /\ asker \in [Askers -> RequestStates]
      /\ breaker.failures \in Nat /\ asked \in 0 .. Questions
      /\ breaker.failures + Cardinality(Busy) <= asked
      /\ breaker \in [open : BOOLEAN, cooled : BOOLEAN, probing : BOOLEAN, failures : Nat]
    BY DEF EnterCircuit, Underway, GenerationInv, Busy
<1>2. CASE breaker.open /\ (~ breaker.cooled \/ breaker.probing)
    <2>1. Done(a, Unanswered(asker[a].kind)) /\ UNCHANGED breaker
        BY <1>2 DEF EnterCircuit
    <2>2. PICK result : result = Unanswered(asker[a].kind)
        OBVIOUS
    <2>3. result \in Results /\ result.mode # "answer" /\ Done(a, result)
        BY <2>1, <2>2, UnansweredResult
    <2>4. /\ asker' \in [Askers -> RequestStates] /\ \A b \in Askers : RequestSound(asker'[b])
          /\ Cardinality(Busy') = Cardinality(Busy) - 1 /\ Cardinality(Busy) \in Nat /\ Cardinality(Busy') \in Nat
        BY <1>1, <2>3, DoneSound
    <2>5. breaker'.failures + Cardinality(Busy') <= asked'
        BY <1>1, <2>1, <2>4
    <2> QED
        BY <1>1, <2>1, <2>4, <2>5 DEF GenerationInv
<1>3. CASE ~ (breaker.open /\ (~ breaker.cooled \/ breaker.probing))
    <2>1. breaker' = [breaker EXCEPT !.probing = breaker.open] /\ asker' = [asker EXCEPT ![a].at = "rendering"]
        BY <1>3 DEF EnterCircuit
    <2>2. PICK v : v = [asker[a] EXCEPT !.at = "rendering"]
        OBVIOUS
    <2>3. v \in RequestStates
        BY <1>1, <2>2, Zenon DEF RequestStates
    <2>4. /\ v.at = "rendering" /\ v.closed = asker[a].closed
          /\ v.delta = asker[a].delta /\ v.shadow = asker[a].shadow
        BY <1>1, <2>2, Zenon DEF RequestStates
    <2>5. RequestSound(v)
        BY <1>1, <2>3, <2>4 DEF RequestSound, GatesWereOpen, ContextIsBuilt, ResultIsSound, Underway, AnswerGiven
    <2>6. asker' = [asker EXCEPT ![a] = v]
        BY <1>1, <2>1, <2>2
    <2>7. Cardinality(Busy') <= Cardinality(Busy) /\ Cardinality(Busy') \in Nat /\ Cardinality(Busy) \in Nat
        BY <1>1, <2>6, BusySteps
    <2>8. /\ breaker' \in [open : BOOLEAN, cooled : BOOLEAN, probing : BOOLEAN, failures : Nat]
          /\ breaker'.failures = breaker.failures /\ breaker'.open = breaker.open
        BY <1>1, <2>1
    <2>9. breaker'.failures + Cardinality(Busy') <= asked'
        BY <1>1, <2>7, <2>8
    <2>10. asker' \in [Askers -> RequestStates] /\ \A b \in Askers : RequestSound(asker'[b])
        BY <2>5, <2>6, AskerSteps
    <2> QED
        BY <1>1, <2>8, <2>9, <2>10 DEF GenerationInv
<1> QED
    BY <1>2, <1>3

LEMMA RenderPromptSound ==
    ASSUME GenerationInv, NEW a \in Askers, RenderPrompt(a)
    PROVE  GenerationInv'
<1>1. /\ asker[a].at = "rendering" /\ Underway(asker[a]) /\ a \in Busy /\ UNCHANGED <<breaker, recent, asked>>
      /\ asker[a] \in RequestStates /\ RequestSound(asker[a]) /\ asker \in [Askers -> RequestStates]
      /\ breaker.failures \in Nat /\ asked \in 0 .. Questions
      /\ breaker.failures + Cardinality(Busy) <= asked
    BY DEF RenderPrompt, Underway, GenerationInv, Busy
<1>2. ASSUME NEW context \in Contexts(asker[a].hits),
             asker' = [asker EXCEPT ![a].at = "waiting", ![a].context = context]
      PROVE  GenerationInv'
    <2>1. PICK v : v = [asker[a] EXCEPT !.at = "waiting", !.context = context]
        OBVIOUS
    <2>2. context \in SUBSET Hits
        BY <1>1 DEF Contexts, RequestStates
    <2>3. v \in RequestStates
        BY <1>1, <2>1, <2>2, Zenon DEF RequestStates
    <2>4. /\ v.at = "waiting" /\ v.context = context /\ v.hits = asker[a].hits /\ v.closed = asker[a].closed
          /\ v.delta = asker[a].delta /\ v.shadow = asker[a].shadow
        BY <1>1, <2>1, Zenon DEF RequestStates
    <2>5. RequestSound(v)
        BY <1>1, <2>3, <2>4 DEF RequestSound, GatesWereOpen, ContextIsBuilt, ResultIsSound, Underway, AnswerGiven
    <2>6. asker' = [asker EXCEPT ![a] = v]
        BY <1>1, <1>2, <2>1
    <2>7. Cardinality(Busy') <= Cardinality(Busy) /\ Cardinality(Busy') \in Nat /\ Cardinality(Busy) \in Nat
        BY <1>1, <2>6, BusySteps
    <2>8. breaker'.failures + Cardinality(Busy') <= asked'
        BY <1>1, <2>7
    <2>9. asker' \in [Askers -> RequestStates] /\ \A b \in Askers : RequestSound(asker'[b])
        BY <2>5, <2>6, AskerSteps
    <2> QED
        BY <1>1, <2>8, <2>9 DEF GenerationInv
<1>3. ASSUME Done(a, Error) PROVE GenerationInv'
    <2>1. Error \in Results /\ Error.mode # "answer"
        BY NoAnswerResults
    <2>2. PICK result : result = Error
        OBVIOUS
    <2>3. result \in Results /\ result.mode # "answer" /\ Done(a, result)
        BY <1>3, <2>1, <2>2
    <2>4. /\ asker' \in [Askers -> RequestStates] /\ \A b \in Askers : RequestSound(asker'[b])
          /\ Cardinality(Busy') = Cardinality(Busy) - 1 /\ Cardinality(Busy) \in Nat /\ Cardinality(Busy') \in Nat
        BY <1>1, <2>3, DoneSound
    <2>5. breaker'.failures + Cardinality(Busy') <= asked'
        BY <1>1, <2>4
    <2> QED
        BY <1>1, <2>4, <2>5 DEF GenerationInv
<1> QED
    BY <1>2, <1>3 DEF RenderPrompt

LEMMA CallFailsSound ==
    ASSUME GenerationInv, NEW a \in Askers, asker[a].at = "waiting", CallFails(a)
    PROVE  GenerationInv'
<1>1. /\ Underway(asker[a]) /\ asked' = asked /\ recent' = recent + 1
      /\ breaker.failures \in Nat /\ asked \in 0 .. Questions /\ Threshold \in Nat
      /\ breaker.failures + Cardinality(Busy) <= asked /\ recent = breaker.failures
      /\ breaker.open \in BOOLEAN /\ (breaker.open <=> recent >= Threshold)
      /\ breaker \in [open : BOOLEAN, cooled : BOOLEAN, probing : BOOLEAN, failures : Nat]
    BY GenerationConstants DEF CallFails, Underway, GenerationInv
<1>2. PICK result : result = Unanswered(asker[a].kind)
    OBVIOUS
<1>3. result \in Results /\ result.mode # "answer" /\ Done(a, result)
    BY <1>2, UnansweredResult DEF CallFails
<1>4. /\ asker' \in [Askers -> RequestStates] /\ \A b \in Askers : RequestSound(asker'[b])
      /\ Cardinality(Busy') = Cardinality(Busy) - 1 /\ Cardinality(Busy) \in Nat /\ Cardinality(Busy') \in Nat
    BY <1>1, <1>3, DoneSound
<1>5. /\ breaker' \in [open : BOOLEAN, cooled : BOOLEAN, probing : BOOLEAN, failures : Nat]
      /\ breaker'.failures = breaker.failures + 1
      /\ breaker'.open = (breaker.open \/ breaker.failures + 1 >= Threshold)
    <2>1. PICK n : n = breaker.failures + 1
        OBVIOUS
    <2>2. n \in Nat
        BY <1>1, <2>1
    <2>3. PICK open, cooled : /\ open = (breaker.open \/ breaker.failures + 1 >= Threshold)
                              /\ cooled = (breaker.cooled /\ ~ (breaker.probing \/ breaker.failures + 1 >= Threshold))
        OBVIOUS
    <2>4. open \in BOOLEAN /\ cooled \in BOOLEAN
        BY <2>3
    <2>5. breaker' = [breaker EXCEPT !.failures = n, !.probing = FALSE, !.open = open, !.cooled = cooled]
        BY <2>1, <2>3, Zenon DEF CallFails
    <2>6. breaker' \in [open : BOOLEAN, cooled : BOOLEAN, probing : BOOLEAN, failures : Nat]
        BY <1>1, <2>2, <2>4, <2>5, Zenon
    <2>7. breaker'.failures = n /\ breaker'.open = open
        BY <1>1, <2>5, Zenon
    <2> QED
        BY <2>1, <2>3, <2>6, <2>7
<1>6. breaker'.failures + Cardinality(Busy') <= asked'
    BY <1>1, <1>4, <1>5
<1>7. recent' = breaker'.failures
    BY <1>1, <1>5
<1>8. breaker'.open <=> recent' >= Threshold
    BY <1>1, <1>5
<1> QED
    BY <1>1, <1>4, <1>5, <1>6, <1>7, <1>8 DEF GenerationInv

LEMMA ValidatedSound ==
    ASSUME NEW r \in RequestStates, NEW output, output \in Outputs(r.kind), Within(output, r.context)
    PROVE  /\ Validated(r, output) \in Results
           /\ Validated(r, output).mode = "answer" =>
                 /\ Validated(r, output).citations # {} /\ Validated(r, output).citations \subseteq r.context
                 /\ ClaimIsSound(Validated(r, output))
<1>1. Unanswered(r.kind) \in Results /\ Unanswered(r.kind).mode # "answer"
    BY NoAnswerResults
<1>2. Abstention \in Results /\ Abstention.mode # "answer"
    BY NoAnswerResults
<1>3. CASE ~ DeltaHolds(r, output) \/ ~ output.answers \/ output.citations = {}
    BY <1>1, <1>2, <1>3 DEF Validated
<1>4. CASE DeltaHolds(r, output) /\ output.answers /\ output.citations # {}
    <2>1. output.citations \in SUBSET Hits /\ output.claim \in Claims
        <3>1. NoClaim \in Claims
            BY DEF Claims
        <3>2. CASE output \in AnalysisOutputs
            BY <3>2 DEF AnalysisOutputs
        <3>3. CASE output \in KnowledgeOutputs
            <4>1. PICK none : none = NoClaim
                OBVIOUS
            <4>2. output \in [answers : {TRUE}, citations : {{c} : c \in Hits}, claim : {none}] \cup {Insufficient}
                BY <3>3, <4>1 DEF KnowledgeOutputs
            <4>3. Insufficient = [answers |-> FALSE, citations |-> {}, claim |-> none]
                BY <4>1 DEF Insufficient
            <4>4. CASE output = Insufficient
                BY <3>1, <4>1, <4>3, <4>4
            <4>5. CASE output \in [answers : {TRUE}, citations : {{c} : c \in Hits}, claim : {none}]
                <5>1. output.claim = none /\ output.citations \in {{c} : c \in Hits}
                    BY <4>5
                <5> QED
                    BY <3>1, <4>1, <5>1
            <4> QED
                BY <3>1, <4>1, <4>2, <4>4, <4>5
        <3> QED
            BY <3>2, <3>3 DEF Outputs
    <2>2. PICK v : v = [mode |-> "answer", citations |-> output.citations, claim |-> output.claim]
        OBVIOUS
    <2>3. Validated(r, output) = v
        BY <1>4, <2>2 DEF Validated
    <2>4. v \in Results /\ v.citations = output.citations /\ v.claim = output.claim
        BY <2>1, <2>2 DEF Results
    <2>5. ClaimIsSound(v)
        <3> SUFFICES ASSUME output.claim.relation = "new_information"
                     PROVE  /\ output.claim.text \notin Known
                            /\ \E c \in output.citations : TextOf[c] = output.claim.text
            BY <2>4 DEF ClaimIsSound
        <3>1. output.claim # NoClaim
            BY DEF NoClaim
        <3>2. output.claim.cites \subseteq output.citations /\ SoundDelta(output.claim)
            BY <1>4, <3>1 DEF DeltaHolds
        <3> QED
            BY <3>2 DEF SoundDelta, Supported
    <2> QED
        BY <1>4, <2>3, <2>4, <2>5 DEF Within
<1> QED
    BY <1>3, <1>4

LEMMA ProviderRepliesSound ==
    ASSUME GenerationInv, NEW a \in Askers, ProviderReplies(a)
    PROVE  GenerationInv'
<1>1. /\ asker[a].at = "waiting" /\ Underway(asker[a]) /\ recent' = 0 /\ asked' = asked
      /\ asker[a] \in RequestStates /\ asker[a].context \in Contexts(asker[a].hits)
      /\ breaker.failures \in Nat /\ asked \in 0 .. Questions /\ Threshold \in Nat \ {0}
      /\ breaker.failures + Cardinality(Busy) <= asked
      /\ breaker \in [open : BOOLEAN, cooled : BOOLEAN, probing : BOOLEAN, failures : Nat]
    BY GenerationConstants DEF ProviderReplies, Underway, GenerationInv, RequestSound, ContextIsBuilt
<1>2. PICK output \in Outputs(asker[a].kind) :
        Within(output, asker[a].context) /\ Done(a, Validated(asker[a], output))
    BY DEF ProviderReplies
<1>3. PICK result : result = Validated(asker[a], output)
    OBVIOUS
<1>4. /\ result \in Results /\ Done(a, result)
      /\ result.mode = "answer" =>
            result.citations # {} /\ result.citations \subseteq asker[a].context /\ ClaimIsSound(result)
    BY <1>1, <1>2, <1>3, ValidatedSound
<1>5. /\ asker' \in [Askers -> RequestStates] /\ \A b \in Askers : RequestSound(asker'[b])
      /\ Cardinality(Busy') = Cardinality(Busy) - 1 /\ Cardinality(Busy) \in Nat /\ Cardinality(Busy') \in Nat
    BY <1>1, <1>4, DoneSound
<1>6. /\ breaker' \in [open : BOOLEAN, cooled : BOOLEAN, probing : BOOLEAN, failures : Nat]
      /\ breaker'.failures = 0 /\ breaker'.open = FALSE
    <2>1. 0 \in Nat
        OBVIOUS
    <2>2. breaker' = [breaker EXCEPT !.failures = 0, !.open = FALSE, !.cooled = FALSE, !.probing = FALSE]
        BY DEF ProviderReplies
    <2>3. breaker' \in [open : BOOLEAN, cooled : BOOLEAN, probing : BOOLEAN, failures : Nat]
        BY <1>1, <2>1, <2>2, Zenon
    <2>4. breaker'.failures = 0 /\ breaker'.open = FALSE
        BY <1>1, <2>2, Zenon
    <2> QED
        BY <2>3, <2>4
<1>7. breaker'.failures + Cardinality(Busy') <= asked'
    BY <1>1, <1>5, <1>6
<1>8. recent' = breaker'.failures /\ (breaker'.open <=> recent' >= Threshold)
    BY <1>1, <1>6
<1> QED
    BY <1>1, <1>5, <1>6, <1>7, <1>8 DEF GenerationInv

LEMMA GenerationPreserved == GenerationInv /\ [GenerationNext]_generationVars => GenerationInv'
<1> SUFFICES ASSUME GenerationInv, [GenerationNext]_generationVars PROVE GenerationInv'
    OBVIOUS
<1>1. CASE CircuitCools
    <2>1. /\ breaker' \in [open : BOOLEAN, cooled : BOOLEAN, probing : BOOLEAN, failures : Nat]
          /\ breaker'.failures = breaker.failures /\ breaker'.open = breaker.open
        BY <1>1 DEF CircuitCools, GenerationInv
    <2> QED
        BY <1>1, <2>1 DEF CircuitCools, GenerationInv, Busy
<1>2. ASSUME NEW a \in Askers, RuntimeGivesUp(a) \/ ProviderUnreachable(a) \/ OutputRefused(a)
      PROVE  GenerationInv'
    BY <1>2, CallFailsSound DEF RuntimeGivesUp, ProviderUnreachable, OutputRefused
<1>3. CASE UNCHANGED generationVars
    BY <1>3 DEF generationVars, GenerationInv, Busy
<1> QED
    BY <1>1, <1>2, <1>3, QuestionSound, EnterCircuitSound, RenderPromptSound, ProviderRepliesSound
       DEF GenerationNext

LEMMA GenerationInvGrounds == GenerationInv => GenerationTypeOK /\ AnswersAreGrounded
<1> SUFFICES ASSUME GenerationInv PROVE GenerationTypeOK /\ AnswersAreGrounded
    OBVIOUS
<1>1. GenerationTypeOK
    <2>1. Cardinality(Busy) \in Nat
        <3>1. Busy \subseteq Askers
            BY DEF Busy
        <3> QED
            BY <3>1, GenerationConstants, FS_Subset, FS_CardinalityType
    <2>2. breaker.failures \in 0 .. Questions
        BY <2>1, GenerationConstants DEF GenerationInv
    <2>3. \A a \in Askers : asker[a].at \in {"idle", "calling", "rendering", "waiting", "done"}
        BY DEF GenerationInv, RequestStates
    <2> QED
        BY <2>2, <2>3 DEF GenerationInv, GenerationTypeOK
<1>2. ASSUME NEW a \in Askers, asker[a].at = "done", asker[a].result.mode = "answer", ~ asker[a].shadow
      PROVE  LET r == asker[a] IN
             /\ r.closed = "none" /\ r.delta # "world"
             /\ r.result.citations # {} /\ r.result.citations \subseteq r.context /\ r.context \subseteq r.hits
             /\ \A c \in r.result.citations :
                    Cardinality({b \in r.result.citations : DocumentOf[b] = DocumentOf[c]}) <= 2
             /\ r.result.claim.relation = "new_information" =>
                  /\ r.result.claim.text \notin Known
                  /\ \E c \in r.result.citations : TextOf[c] = r.result.claim.text
    <2>1. PICK r : r = asker[a]
        OBVIOUS
    <2>2. RequestSound(r) /\ AnswerGiven(r) /\ ~ r.shadow
        BY <1>2, <2>1 DEF GenerationInv, AnswerGiven
    <2>3. r.closed = "none" /\ r.delta # "world"
        BY <2>2 DEF RequestSound, GatesWereOpen
    <2>4. r.context \in Contexts(r.hits) /\ r.context \subseteq r.hits /\ r.hits \subseteq Hits
        BY <2>2 DEF RequestSound, ContextIsBuilt, Contexts, RequestStates
    <2>5. r.result.citations # {} /\ r.result.citations \subseteq r.context /\ ClaimIsSound(r.result)
        BY <2>2 DEF RequestSound, ResultIsSound
    <2>6. ASSUME NEW c \in r.result.citations
          PROVE  Cardinality({b \in r.result.citations : DocumentOf[b] = DocumentOf[c]}) <= 2
        <3> DEFINE shown == {b \in r.context : DocumentOf[b] = DocumentOf[c]}
                   cited == {b \in r.result.citations : DocumentOf[b] = DocumentOf[c]}
        <3>1. cited \subseteq shown /\ shown \subseteq Hits
            BY <2>4, <2>5
        <3>2. Cardinality(shown) <= 2
            BY <2>4, <2>5 DEF Contexts
        <3>3. IsFiniteSet(shown)
            BY <3>1, GenerationConstants, FS_Subset
        <3> HIDE DEF shown, cited
        <3>4. /\ Cardinality(cited) \in Nat /\ Cardinality(shown) \in Nat
              /\ Cardinality(cited) <= Cardinality(shown)
            BY <3>1, <3>3, FS_Subset, FS_CardinalityType
        <3>5. Cardinality(cited) <= 2
            BY <3>2, <3>4
        <3> QED
            BY <3>5 DEF cited
    <2> QED
        BY <2>1, <2>3, <2>4, <2>5, <2>6 DEF ClaimIsSound
<1>3. breaker.open <=> recent >= Threshold
    BY DEF GenerationInv
<1> QED
    BY <1>1, <1>2, <1>3 DEF AnswersAreGrounded

\* Grounded answers, for any callers, chunks and circuit breaker threshold: what
\* is shown was allowed by every gate and cites what the model was shown, and
\* the circuit is open exactly after Threshold failed calls in a row.
THEOREM GenerationSound == GenerationSpec => [](GenerationTypeOK /\ AnswersAreGrounded)
<1>1. GenerationSpec => []GenerationInv
    BY GenerationStarts, GenerationPreserved, PTL DEF GenerationSpec
<1> QED
    BY <1>1, GenerationInvGrounds, PTL

-----------------------------------------------------------------------------
(* Retrieval (Retrieval).                                                  *)

ChunkSet == {c \in [id : Corpus \X Nat \X {1, 2}, document : Corpus, title : Nat] : c.id[1] = c.document}
PointSet == [id : Corpus \X Nat \X {1, 2}, document : Corpus, title : Nat, readable : BOOLEAN]
DocumentSet == [content : Nat, title : Nat, deleted : BOOLEAN, readable : BOOLEAN, pending : BOOLEAN,
                revision : 0 .. Revisions]

QuerySet == [at : {"asked", "dense", "lexical", "answered"}, limit : 1 .. MaxLimit,
             strategy : {"dense", "hybrid"}, sensitive : BOOLEAN,
             left : (SUBSET ChunkSet) \cup (SUBSET Corpus), dense : SUBSET ChunkSet, lexical : SUBSET ChunkSet,
             hits : SUBSET ChunkSet, outcome : {"ok", "failed", "reranker_unavailable"}]

\* No identity twice.
OneEach(chunks) == \A a, b \in chunks : a.id = b.id => a = b

\* The vector store holds no identity twice, and no version the canonical
\* document has not had.
PointsSound(d, ps, document) ==
    /\ ps \subseteq PointSet /\ OneEach(ps)
    /\ \A p \in ps : p.document = d /\ p.id[1] = d /\ p.id[2] <= document.content

\* No version of a document below another.
VersionsAgree(chunks) == \A a, b \in chunks : a.document = b.document => a.id[2] = b.id[2]

\* The candidates of the vector store: no chunk is of a version the canonical
\* document has not had, and those that met the document are of the newest.
CandidatesSound(q, c) ==
    /\ q.left \subseteq ChunkSet /\ OneEach(q.dense \cup q.left)
    /\ \A e \in q.dense \cup q.left : e.id[2] <= c[e.document].content
    /\ \A a \in q.dense, e \in q.dense \cup q.left : a.document = e.document => e.id[2] <= a.id[2]

\* The lists of the two branches.
ListsSound(q, seen) ==
    /\ q.dense \subseteq seen /\ q.lexical \subseteq seen
    /\ IsFiniteSet(q.dense) /\ IsFiniteSet(q.lexical)
    /\ OneEach(q.dense) /\ OneEach(q.lexical) /\ VersionsAgree(q.dense)
    /\ q.strategy = "dense" => Cardinality(q.dense) <= q.limit

EnumerationSound(q) ==
    /\ q.strategy = "hybrid" /\ q.left \subseteq Corpus
    /\ \A c \in q.lexical : c.document \notin q.left

\* What an answer is made of.
HitsSound(q, seen) ==
    /\ q.hits \subseteq seen /\ IsFiniteSet(q.hits) /\ OneEach(q.hits) /\ Cardinality(q.hits) <= q.limit
    /\ q.strategy = "dense" => VersionsAgree(q.hits)
    /\ q.strategy = "hybrid" /\ q.hits # {} =>
         /\ ~ q.sensitive
         /\ Cardinality(DocumentsOf(q.hits)) < Cardinality(q.hits)
            => DocumentsOf(q.dense) \subseteq DocumentsOf(q.hits)

QuerySound(q, c, seen) ==
    /\ q \in QuerySet /\ ListsSound(q, seen)
    /\ q.at = "asked" => q.dense = {} /\ q.lexical = {}
    /\ q.at = "dense" => CandidatesSound(q, c) /\ q.lexical = {}
    /\ q.at = "lexical" => EnumerationSound(q)
    /\ q.at # "answered" /\ q.strategy = "hybrid" => ~ q.sensitive
    /\ q.at = "answered" => HitsSound(q, seen)

\* The store, and a question that is being answered.
RetrievalInv ==
    /\ canon \in [Corpus -> DocumentSet]
    /\ points \in [Corpus -> SUBSET PointSet] /\ \A d \in Corpus : PointsSound(d, points[d], canon[d])
    /\ \/ query = NoQuery
       \/ QuerySound(query, canon, current) /\ CurrentNow(canon) \subseteq current

\* The canonical documents move on; what was current stays seen.
Advances(c, seen) ==
    /\ c \in [Corpus -> DocumentSet]
    /\ \A d \in Corpus : canon[d].content <= c[d].content
    /\ current \subseteq seen

LEMMA NoQueryIdle == NoQuery.at = "idle" /\ \A q \in QuerySet : q.at # "idle"
BY DEF NoQuery, QuerySet

\* What the two lists and an answer are stays true as documents move on.
LEMMA AdvancingSound ==
    ASSUME NEW q, NEW c, NEW seen, canon \in [Corpus -> DocumentSet], QuerySound(q, canon, current), Advances(c, seen)
    PROVE  QuerySound(q, c, seen)
<1>1. ListsSound(q, seen)
    BY DEF QuerySound, ListsSound, Advances
<1>2. q.at = "answered" => HitsSound(q, seen)
    BY DEF QuerySound, HitsSound, Advances
<1>3. ASSUME q.at = "dense" PROVE CandidatesSound(q, c)
    <2>1. CandidatesSound(q, canon) /\ q.dense \cup q.left \subseteq ChunkSet
        BY <1>3 DEF QuerySound, CandidatesSound, QuerySet
    <2>2. ASSUME NEW e \in q.dense \cup q.left PROVE e.id[2] <= c[e.document].content
        <3>1. e.id[2] \in Nat /\ e.document \in Corpus
            BY <2>1 DEF ChunkSet
        <3>2. canon[e.document].content \in Nat /\ c[e.document].content \in Nat
            BY <3>1 DEF Advances, DocumentSet
        <3>3. e.id[2] <= canon[e.document].content /\ canon[e.document].content <= c[e.document].content
            BY <2>1, <3>1 DEF CandidatesSound, Advances
        <3> QED
            BY <3>1, <3>2, <3>3
    <2> QED
        BY <2>1, <2>2 DEF CandidatesSound
<1> QED
    BY <1>1, <1>2, <1>3 DEF QuerySound

\* The chunks of one document.
LEMMA ChunkShapes ==
    ASSUME NEW d \in Corpus, NEW content \in Nat, NEW title \in Nat
    PROVE  /\ Chunks(d, content, title) \subseteq ChunkSet /\ OneEach(Chunks(d, content, title))
           /\ IsFiniteSet(Chunks(d, content, title))
           /\ \A c \in Chunks(d, content, title) : c.document = d /\ c.id[1] = d /\ c.id[2] = content /\ c.title = title
<1>1. PICK parts : parts = IF content = 0 THEN {1, 2} ELSE {1}
    OBVIOUS
<1>2. parts \subseteq {1, 2}
    BY <1>1
<1>3. Chunks(d, content, title) = {[id |-> <<d, content, part>>, document |-> d, title |-> title] : part \in parts}
    BY <1>1 DEF Chunks
<1>4. PICK one, two : /\ one = [id |-> <<d, content, 1>>, document |-> d, title |-> title]
                      /\ two = [id |-> <<d, content, 2>>, document |-> d, title |-> title]
    OBVIOUS
<1>5. Chunks(d, content, title) \subseteq {one, two}
    BY <1>2, <1>3, <1>4
<1>6. /\ one \in ChunkSet /\ one.document = d /\ one.id = <<d, content, 1>> /\ one.title = title
      /\ two \in ChunkSet /\ two.document = d /\ two.id = <<d, content, 2>> /\ two.title = title
    BY <1>4 DEF ChunkSet
<1>7. one.id # two.id
    BY <1>6
<1>8. OneEach(Chunks(d, content, title))
    BY <1>5, <1>7 DEF OneEach
<1>9. IsFiniteSet(Chunks(d, content, title))
    <2>1. IsFiniteSet({one} \cup {two})
        BY FS_Singleton, FS_AddElement
    <2>2. Chunks(d, content, title) \in SUBSET ({one} \cup {two})
        BY <1>5
    <2> QED
        BY <2>1, <2>2, FS_Subset
<1> QED
    BY <1>5, <1>6, <1>8, <1>9

LEMMA CurrentChunks ==
    ASSUME NEW c \in [Corpus -> DocumentSet], NEW d \in Corpus, ~ c[d].pending, ~ c[d].deleted, c[d].readable
    PROVE  Chunks(d, c[d].content, c[d].title) \subseteq CurrentNow(c)
BY DEF CurrentNow

LEMMA CanonChunks ==
    ASSUME canon \in [Corpus -> DocumentSet], NEW d \in Corpus
    PROVE  /\ ChunksOf(d) \subseteq ChunkSet /\ OneEach(ChunksOf(d)) /\ IsFiniteSet(ChunksOf(d))
           /\ \A c \in ChunksOf(d) : c.document = d /\ c.id[1] = d /\ c.id[2] = canon[d].content
           /\ Stored(d) => ChunksOf(d) \subseteq CurrentNow(canon)
<1>1. canon[d].content \in Nat /\ canon[d].title \in Nat
    BY DEF DocumentSet
<1>2. Stored(d) => ChunksOf(d) \subseteq CurrentNow(canon)
    BY CurrentChunks DEF Stored, Visible, ChunksOf
<1> QED
    BY <1>1, <1>2, ChunkShapes DEF ChunksOf

LEMMA RetrievalInitSound == ASSUME RetrievalInit PROVE RetrievalInv
<1>1. 0 \in Nat /\ 0 \in 0 .. Revisions
    BY RetrievalConstants
<1>2. canon \in [Corpus -> DocumentSet] /\ \A d \in Corpus : canon[d].content = 0 /\ canon[d].title = 0
    BY <1>1 DEF RetrievalInit, DocumentSet
<1>3. ASSUME NEW d \in Corpus PROVE points[d] \in SUBSET PointSet /\ PointsSound(d, points[d], canon[d])
    <2>1. PICK cs, yes : cs = Chunks(d, 0, 0) /\ yes = TRUE
        OBVIOUS
    <2>2. cs \subseteq ChunkSet /\ OneEach(cs) /\ \A c \in cs : c.document = d /\ c.id[1] = d /\ c.id[2] = 0
        BY <2>1, ChunkShapes
    <2>3. points[d] = {Point(c, yes) : c \in cs}
        BY <2>1 DEF RetrievalInit
    <2>4. \A c \in cs : /\ Point(c, yes) \in PointSet /\ Point(c, yes).id = c.id
                        /\ Point(c, yes).document = c.document
        BY <2>1, <2>2 DEF Point, PointSet, ChunkSet
    <2>5. points[d] \subseteq PointSet /\ OneEach(points[d])
        BY <2>2, <2>3, <2>4 DEF OneEach
    <2>6. \A p \in points[d] : p.document = d /\ p.id[1] = d /\ p.id[2] = 0
        BY <2>2, <2>3, <2>4
    <2> QED
        BY <1>2, <2>5, <2>6 DEF PointsSound
<1>4. points \in [Corpus -> SUBSET PointSet]
    BY <1>3 DEF RetrievalInit
<1> QED
    BY <1>2, <1>3, <1>4 DEF RetrievalInv, RetrievalInit

\* What Witnessed adds, as documents move on.
LEMMA WitnessedSound ==
    ASSUME RetrievalInv, canon' \in [Corpus -> DocumentSet], Witnessed, UNCHANGED query,
           \A d \in Corpus : canon[d].content <= canon'[d].content
    PROVE  \/ query' = NoQuery
           \/ QuerySound(query', canon', current') /\ CurrentNow(canon') \subseteq current'
<1>1. CASE query = NoQuery
    BY <1>1
<1>2. CASE QuerySound(query, canon, current) /\ query # NoQuery
    <2>1. query.at # "idle"
        BY <1>2, NoQueryIdle DEF QuerySound
    <2>2. current' = current \cup CurrentNow(canon')
        BY <2>1 DEF Witnessed
    <2>3. Advances(canon', current') /\ CurrentNow(canon') \subseteq current'
        BY <2>2 DEF Advances
    <2>4. canon \in [Corpus -> DocumentSet]
        BY DEF RetrievalInv
    <2>5. QuerySound(query, canon', current')
        BY <1>2, <2>3, <2>4, AdvancingSound
    <2> QED
        BY <2>3, <2>5
<1> QED
    BY <1>1, <1>2 DEF RetrievalInv

LEMMA StageSound == ASSUME RetrievalInv, NEW d \in Corpus, Stage(d) PROVE RetrievalInv'
<1>1. canon \in [Corpus -> DocumentSet] /\ canon[d] \in DocumentSet /\ canon[d].revision < Revisions
    BY DEF RetrievalInv, Stage
<1>2. PICK next : /\ next \in {[canon[d] EXCEPT !.content = @ + 1], [canon[d] EXCEPT !.title = @ + 1],
                               [canon[d] EXCEPT !.readable = ~ @], [canon[d] EXCEPT !.deleted = TRUE]}
                  /\ canon' = [canon EXCEPT ![d] = [next EXCEPT !.pending = TRUE, !.revision = next.revision + 1]]
    BY Zenon DEF Stage
<1>3. next \in DocumentSet /\ next.revision = canon[d].revision /\ canon[d].content <= next.content
    <2>1. canon[d].content \in Nat /\ canon[d].title \in Nat
        BY <1>1 DEF DocumentSet
    <2>2. CASE next = [canon[d] EXCEPT !.content = @ + 1]
        BY <1>1, <2>1, <2>2 DEF DocumentSet
    <2>3. CASE next = [canon[d] EXCEPT !.title = @ + 1]
        BY <1>1, <2>1, <2>3 DEF DocumentSet
    <2>4. CASE next = [canon[d] EXCEPT !.readable = ~ @]
        <3>1. PICK b : b = ~ canon[d].readable
            OBVIOUS
        <3>2. b \in BOOLEAN /\ next = [canon[d] EXCEPT !.readable = b]
            BY <2>4, <3>1
        <3>3. next \in DocumentSet /\ next.revision = canon[d].revision /\ next.content = canon[d].content
            BY <1>1, <3>2, Zenon DEF DocumentSet
        <3> QED
            BY <2>1, <3>3
    <2>5. CASE next = [canon[d] EXCEPT !.deleted = TRUE]
        <3>1. next \in DocumentSet /\ next.revision = canon[d].revision /\ next.content = canon[d].content
            BY <1>1, <2>5, Zenon DEF DocumentSet
        <3> QED
            BY <2>1, <3>1
    <2> QED
        BY <1>2, <2>2, <2>3, <2>4, <2>5
<1>4. PICK v : v = [next EXCEPT !.pending = TRUE, !.revision = next.revision + 1]
    OBVIOUS
<1>5. v \in DocumentSet /\ v.content = next.content
    <2>1. PICK n : n = next.revision + 1
        OBVIOUS
    <2>2. n \in 0 .. Revisions
        BY <1>1, <1>3, <2>1, RetrievalConstants DEF DocumentSet
    <2>3. v = [next EXCEPT !.pending = TRUE, !.revision = n]
        BY <1>4, <2>1
    <2> QED
        BY <1>3, <2>2, <2>3, Zenon DEF DocumentSet
<1>6. canon' = [canon EXCEPT ![d] = v]
    BY <1>2, <1>4
<1>7. /\ canon' \in [Corpus -> DocumentSet]
      /\ \A e \in Corpus : canon[e].content \in Nat /\ canon'[e].content \in Nat /\ canon[e].content <= canon'[e].content
    BY <1>1, <1>3, <1>5, <1>6 DEF DocumentSet
<1>8. UNCHANGED <<points, query>> /\ Witnessed
    BY Zenon DEF Stage
<1>9. \A e \in Corpus : PointsSound(e, points'[e], canon'[e])
    <2> SUFFICES ASSUME NEW e \in Corpus PROVE PointsSound(e, points[e], canon'[e])
        BY <1>8
    <2>1. PointsSound(e, points[e], canon[e])
        BY DEF RetrievalInv
    <2>2. \A p \in points[e] : p.id[2] \in Nat
        BY <2>1 DEF PointsSound, PointSet
    <2> QED
        BY <1>7, <2>1, <2>2 DEF PointsSound
<1> QED
    BY <1>7, <1>8, <1>9, WitnessedSound DEF RetrievalInv

\* A projection holds one chunk of the canonical content under each identity.
LEMMA ProjectionSound ==
    ASSUME RetrievalInv, NEW d \in Corpus
    PROVE  PointsSound(d, Projection(d), canon[d]) /\ \A p \in Projection(d) : p.id[2] = canon[d].content
<1>1. canon \in [Corpus -> DocumentSet] /\ canon[d].content \in Nat /\ canon[d].readable \in BOOLEAN
    BY DEF RetrievalInv, DocumentSet
<1>2. CASE canon[d].deleted
    BY <1>2 DEF Projection, PointsSound, OneEach
<1>3. CASE ~ canon[d].deleted
    <2>1. PICK cs, readable : cs = ChunksOf(d) /\ readable = canon[d].readable
        OBVIOUS
    <2>2. /\ cs \subseteq ChunkSet /\ OneEach(cs) /\ readable \in BOOLEAN
          /\ \A c \in cs : c.document = d /\ c.id[1] = d /\ c.id[2] = canon[d].content
        BY <1>1, <2>1, CanonChunks
    <2>3. Projection(d) = {Point(c, readable) : c \in cs}
        BY <1>3, <2>1 DEF Projection
    <2>4. \A c \in cs : /\ Point(c, readable) \in PointSet /\ Point(c, readable).id = c.id
                        /\ Point(c, readable).document = c.document
        BY <2>2 DEF Point, PointSet, ChunkSet
    <2> QED
        BY <1>1, <2>2, <2>3, <2>4 DEF PointsSound, OneEach
<1> QED
    BY <1>2, <1>3

LEMMA UploadSound == ASSUME RetrievalInv, NEW d \in Corpus, Upload(d) PROVE RetrievalInv'
<1>1. PICK ps : ps = {c \in points[d] : \A n \in Projection(d) : n.id # c.id} \cup Projection(d)
    OBVIOUS
<1>2. points' = [points EXCEPT ![d] = ps] /\ UNCHANGED <<canon, query, current>>
    BY <1>1 DEF Upload
<1>3. PointsSound(d, ps, canon[d])
    <2>1. PointsSound(d, points[d], canon[d]) /\ PointsSound(d, Projection(d), canon[d])
        BY ProjectionSound DEF RetrievalInv
    <2> QED
        BY <1>1, <2>1 DEF PointsSound, OneEach
<1>4. points' \in [Corpus -> SUBSET PointSet] /\ \A e \in Corpus : PointsSound(e, points'[e], canon'[e])
    BY <1>2, <1>3 DEF RetrievalInv, PointsSound
<1> QED
    BY <1>2, <1>4 DEF RetrievalInv

LEMMA PruneAndMarkSound == ASSUME RetrievalInv, NEW d \in Corpus, PruneAndMark(d) PROVE RetrievalInv'
<1>1. /\ points' = [points EXCEPT ![d] = Projection(d)] /\ canon' = [canon EXCEPT ![d].pending = FALSE]
      /\ Witnessed /\ UNCHANGED query
    BY DEF PruneAndMark
<1>2. canon \in [Corpus -> DocumentSet] /\ points \in [Corpus -> SUBSET PointSet]
    BY DEF RetrievalInv
<1>3. /\ canon' \in [Corpus -> DocumentSet] /\ \A e \in Corpus : canon'[e].content = canon[e].content
      /\ \A e \in Corpus : canon[e].content \in Nat
    BY <1>1, <1>2 DEF DocumentSet
<1>4. PointsSound(d, Projection(d), canon[d])
    BY ProjectionSound
<1>5. points' \in [Corpus -> SUBSET PointSet] /\ \A e \in Corpus : PointsSound(e, points'[e], canon'[e])
    BY <1>1, <1>2, <1>3, <1>4 DEF RetrievalInv, PointsSound
<1>6. \A e \in Corpus : canon[e].content <= canon'[e].content
    BY <1>3
<1> QED
    BY <1>1, <1>3, <1>5, <1>6, WitnessedSound DEF RetrievalInv

\* The steps of the question leave the documents alone.
LEMMA QueryFrame ==
    ASSUME RetrievalInv, UNCHANGED <<canon, points, current>>, query.at # "idle",
           QuerySound(query, canon, current) => QuerySound(query', canon, current)
    PROVE  RetrievalInv'
BY NoQueryIdle DEF RetrievalInv

LEMMA AskSound ==
    ASSUME RetrievalInv, NEW limit \in 1 .. MaxLimit, NEW strategy \in {"dense", "hybrid"}, NEW sensitive \in BOOLEAN,
           Ask(limit, strategy, sensitive)
    PROVE  RetrievalInv'
<1>1. PICK at : at = IF AsksForSecret(strategy, sensitive) THEN "answered" ELSE "asked"
    OBVIOUS
<1>2. query' = [at |-> at, limit |-> limit, strategy |-> strategy, sensitive |-> sensitive,
                left |-> {}, dense |-> {}, lexical |-> {}, hits |-> {}, outcome |-> "ok"]
    BY <1>1, Zenon DEF Ask
<1>3. current' = CurrentNow(canon) /\ UNCHANGED <<canon, points>>
    BY Zenon DEF Ask
<1>4. at \in {"asked", "answered"} /\ (at = "asked" /\ strategy = "hybrid" => ~ sensitive)
    BY <1>1 DEF AsksForSecret
<1>5. query' \in QuerySet
    BY <1>2, <1>4 DEF QuerySet
<1>6. /\ query'.at = at /\ query'.limit = limit /\ query'.strategy = strategy /\ query'.sensitive = sensitive
      /\ query'.dense = {} /\ query'.lexical = {} /\ query'.hits = {}
    BY <1>2
<1>7. IsFiniteSet({}) /\ Cardinality({}) = 0 /\ 0 <= limit
    BY FS_EmptySet, RetrievalConstants
<1>8. ListsSound(query', current') /\ HitsSound(query', current')
    BY <1>6, <1>7 DEF ListsSound, HitsSound, OneEach, VersionsAgree
<1>9. QuerySound(query', canon', current')
    BY <1>4, <1>5, <1>6, <1>8 DEF QuerySound
<1> QED
    BY <1>3, <1>9 DEF RetrievalInv

\* A question that ends: what it found is sound.
LEMMA SettledSound ==
    ASSUME QuerySound(query, canon, current), NEW hits \in SUBSET ChunkSet,
           NEW outcome \in {"ok", "failed", "reranker_unavailable"}, Settled(hits, outcome),
           \A q : /\ q.hits = hits /\ q.limit = query.limit /\ q.strategy = query.strategy
                  /\ q.sensitive = query.sensitive /\ q.dense = query.dense
                  => HitsSound(q, current)
    PROVE  QuerySound(query', canon, current)
<1>1. query \in QuerySet /\ query' = [query EXCEPT !.at = "answered", !.hits = hits, !.outcome = outcome]
    BY DEF QuerySound, Settled
<1>2. query' \in QuerySet
    BY <1>1, Zenon DEF QuerySet
<1>3. /\ query'.at = "answered" /\ query'.hits = hits /\ query'.limit = query.limit /\ query'.strategy = query.strategy
      /\ query'.sensitive = query.sensitive /\ query'.dense = query.dense /\ query'.lexical = query.lexical
    BY <1>1, Zenon DEF QuerySet
<1>4. ListsSound(query', current)
    BY <1>3 DEF QuerySound, ListsSound
<1>5. HitsSound(query', current)
    BY <1>3
<1> QED
    BY <1>2, <1>3, <1>4, <1>5 DEF QuerySound

LEMMA NothingSettled ==
    ASSUME QuerySound(query, canon, current), NEW outcome \in {"ok", "failed", "reranker_unavailable"},
           Settled({}, outcome)
    PROVE  QuerySound(query', canon, current)
<1>1. query.limit \in Nat
    <2>1. query \in QuerySet /\ MaxLimit \in Nat
        BY RetrievalConstants DEF QuerySound
    <2>2. query.limit \in 1 .. MaxLimit
        BY <2>1, Zenon DEF QuerySet
    <2>3. PICK limit : limit = query.limit
        OBVIOUS
    <2>4. limit \in Nat
        BY <2>1, <2>2, <2>3
    <2> QED
        BY <2>3, <2>4
<1>2. IsFiniteSet({}) /\ Cardinality({}) = 0
    BY FS_EmptySet
<1>3. ASSUME NEW q, q.hits = {}, q.limit = query.limit
      PROVE  HitsSound(q, current)
    <2>1. Cardinality(q.hits) = 0 /\ IsFiniteSet(q.hits) /\ Cardinality(q.hits) <= q.limit
        <3>1. PICK limit : limit = query.limit
            OBVIOUS
        <3>2. limit \in Nat
            BY <1>1, <3>1
        <3>3. 0 <= limit
            BY <3>2
        <3> QED
            BY <1>2, <1>3, <3>1, <3>3, Zenon
    <2>2. OneEach(q.hits) /\ VersionsAgree(q.hits) /\ q.hits \subseteq current
        BY <1>3 DEF OneEach, VersionsAgree
    <2> QED
        BY <1>3, <2>1, <2>2 DEF HitsSound
<1> QED
    BY <1>3, SettledSound

LEMMA FetchDenseSound == ASSUME RetrievalInv, FetchDense PROVE RetrievalInv'
<1>1. query.at = "asked" /\ UNCHANGED <<canon, points, current>> /\ QuerySound(query, canon, current)
    BY NoQueryIdle DEF FetchDense, RetrievalInv
<1>2. CASE Settled({}, "failed")
    BY <1>1, <1>2, NothingSettled, QueryFrame
<1>3. ASSUME NEW found \in SUBSET UNION {points[d] : d \in Corpus},
             query' = [query EXCEPT !.at = "dense",
                         !.left = {[id |-> c.id, document |-> c.document, title |-> c.title] : c \in found}]
      PROVE  QuerySound(query', canon, current)
    <2>1. PICK left : left = {[id |-> c.id, document |-> c.document, title |-> c.title] : c \in found}
        OBVIOUS
    <2>2. \A p \in found : /\ p \in PointSet /\ p \in points[p.document] /\ p.id[1] = p.document
                           /\ p.id[2] <= canon[p.document].content
        BY DEF RetrievalInv, PointsSound
    <2>3. \A p, r \in found : p.id = r.id => p = r
        <3> SUFFICES ASSUME NEW p \in found, NEW r \in found, p.id = r.id PROVE p = r
            OBVIOUS
        <3>1. p.document = r.document /\ p.document \in Corpus
            BY <2>2 DEF PointSet
        <3>2. PointsSound(p.document, points[p.document], canon[p.document])
            BY <3>1 DEF RetrievalInv
        <3> QED
            BY <2>2, <3>1, <3>2 DEF PointsSound, OneEach
    <2>4. left \subseteq ChunkSet
        BY <2>1, <2>2 DEF PointSet, ChunkSet
    <2>5. ASSUME NEW e \in left PROVE \E p \in found : e.id = p.id /\ e.document = p.document /\ e.title = p.title
        BY <2>1, <2>5
    <2>6. OneEach(left)
        <3> SUFFICES ASSUME NEW e \in left, NEW f \in left, e.id = f.id PROVE e = f
            BY DEF OneEach
        <3>1. e.document = f.document /\ e.title = f.title
            BY <2>3, <2>5
        <3> QED
            BY <2>4, <3>1 DEF ChunkSet
    <2>7. \A e \in left : e.id[2] <= canon[e.document].content
        BY <2>2, <2>5
    <2>8. query \in QuerySet /\ query.dense = {} /\ query.lexical = {} /\ (query.strategy = "hybrid" => ~ query.sensitive)
        BY <1>1 DEF QuerySound
    <2>9. query' = [query EXCEPT !.at = "dense", !.left = left]
        BY <1>3, <2>1
    <2>10. query' \in QuerySet
        <3>1. left \in (SUBSET ChunkSet) \cup (SUBSET Corpus)
            BY <2>4
        <3> QED
            BY <2>8, <2>9, <3>1, Zenon DEF QuerySet
    <2>11. /\ query'.at = "dense" /\ query'.left = left /\ query'.limit = query.limit /\ query'.strategy = query.strategy
           /\ query'.sensitive = query.sensitive /\ query'.dense = query.dense /\ query'.lexical = query.lexical
        BY <2>8, <2>9, Zenon DEF QuerySet
    <2>12. ListsSound(query', current)
        BY <1>1, <2>11 DEF QuerySound, ListsSound
    <2>13. CandidatesSound(query', canon)
        BY <2>4, <2>6, <2>7, <2>8, <2>11 DEF CandidatesSound, OneEach
    <2> QED
        BY <2>8, <2>10, <2>11, <2>12, <2>13 DEF QuerySound
<1>4. CASE ~ Settled({}, "failed")
    <2>1. PICK readable : readable = {c \in UNION {points[d] : d \in Corpus} : c.readable}
        OBVIOUS
    <2>2. PICK found \in IF query.strategy = "hybrid" THEN {readable} ELSE SUBSET readable :
            query' = [query EXCEPT !.at = "dense",
                        !.left = {[id |-> c.id, document |-> c.document, title |-> c.title] : c \in found}]
        BY <1>4, <2>1 DEF FetchDense
    <2>3. found \in SUBSET UNION {points[d] : d \in Corpus}
        BY <2>1, <2>2
    <2> QED
        BY <1>1, <1>3, <2>2, <2>3, QueryFrame
<1> QED
    BY <1>2, <1>4

LEMMA CheckCandidateSound == ASSUME RetrievalInv, CheckCandidate PROVE RetrievalInv'
<1>1. /\ query.at = "dense" /\ Cardinality(query.dense) < DenseLimit /\ UNCHANGED <<canon, points, current>>
      /\ QuerySound(query, canon, current) /\ CurrentNow(canon) \subseteq current
      /\ canon \in [Corpus -> DocumentSet]
    BY NoQueryIdle DEF CheckCandidate, RetrievalInv
<1>2. PICK chunk \in query.left :
        query' = [query EXCEPT !.left = @ \ {chunk},
                    !.dense = IF Stored(chunk.document) /\ Matches(chunk)
                              THEN @ \cup {chunk} ELSE @]
    BY DEF CheckCandidate
<1>3. PICK left, dense :
        /\ left = query.left \ {chunk}
        /\ dense = IF Stored(chunk.document) /\ Matches(chunk)
                   THEN query.dense \cup {chunk} ELSE query.dense
    OBVIOUS
<1>4. query' = [query EXCEPT !.left = left, !.dense = dense]
    BY <1>2, <1>3
<1>5. /\ query \in QuerySet /\ CandidatesSound(query, canon) /\ ListsSound(query, current) /\ query.lexical = {}
      /\ query.strategy = "hybrid" => ~ query.sensitive
    BY <1>1 DEF QuerySound
<1>6. query.left \subseteq ChunkSet /\ query.dense \subseteq ChunkSet /\ chunk \in ChunkSet
    BY <1>2, <1>5 DEF CandidatesSound, QuerySet
<1>7. left \subseteq ChunkSet /\ dense \subseteq ChunkSet /\ dense \cup left \subseteq query.dense \cup query.left
    BY <1>2, <1>3, <1>6
<1>8. query' \in QuerySet
    <2>1. left \in (SUBSET ChunkSet) \cup (SUBSET Corpus) /\ dense \in SUBSET ChunkSet
        BY <1>7
    <2> QED
        BY <1>4, <1>5, <2>1, Zenon DEF QuerySet
<1>9. /\ query'.at = "dense" /\ query'.left = left /\ query'.limit = query.limit /\ query'.strategy = query.strategy
      /\ query'.sensitive = query.sensitive /\ query'.dense = dense /\ query'.lexical = query.lexical
    BY <1>1, <1>4, <1>5, Zenon DEF QuerySet
<1>10. ASSUME NEW a \in dense, NEW e \in dense \cup left, a.document = e.document PROVE e.id[2] <= a.id[2]
    <2>1. CASE a \in query.dense
        BY <1>5, <1>7, <1>10, <2>1 DEF CandidatesSound
    <2>2. CASE a \notin query.dense
        <3>1. a = chunk /\ Matches(chunk)
            BY <1>3, <2>2
        <3>2. a \in ChunksOf(a.document) /\ a.document \in Corpus
            BY <1>6, <3>1 DEF Matches, ChunkSet
        <3>3. a.id[2] = canon[a.document].content
            BY <1>1, <3>2, CanonChunks
        <3> QED
            BY <1>5, <1>7, <1>10, <3>3 DEF CandidatesSound
    <2> QED
        BY <2>1, <2>2
<1>11. CandidatesSound(query', canon)
    <2>1. OneEach(query.dense \cup query.left) /\ \A e \in query.dense \cup query.left : e.id[2] <= canon[e.document].content
        BY <1>5 DEF CandidatesSound
    <2>2. OneEach(dense \cup left) /\ \A e \in dense \cup left : e.id[2] <= canon[e.document].content
        BY <1>7, <2>1 DEF OneEach
    <2> QED
        BY <1>7, <1>9, <1>10, <2>2 DEF CandidatesSound
<1>12. ListsSound(query', current)
    <2>1. dense \subseteq current
        <3>1. CASE dense = query.dense
            BY <1>5, <3>1 DEF ListsSound
        <3>2. CASE dense # query.dense
            <4>1. dense = query.dense \cup {chunk} /\ Stored(chunk.document) /\ Matches(chunk)
                BY <1>3, <3>2
            <4>2. chunk \in ChunksOf(chunk.document) /\ chunk.document \in Corpus
                BY <1>6, <4>1 DEF Matches, ChunkSet
            <4>3. chunk \in current
                BY <1>1, <4>1, <4>2, CanonChunks
            <4> QED
                BY <1>5, <4>1, <4>3 DEF ListsSound
        <3> QED
            BY <3>1, <3>2
    <2>2. IsFiniteSet(dense) /\ Cardinality(query.dense) \in Nat /\ Cardinality(dense) <= Cardinality(query.dense) + 1
        <3>1. IsFiniteSet(query.dense)
            BY <1>5 DEF ListsSound
        <3>2. Cardinality(query.dense) \in Nat
            BY <3>1, FS_CardinalityType
        <3>3. PICK found : found = query.dense \cup {chunk}
            OBVIOUS
        <3>4. IsFiniteSet(found) /\ Cardinality(found) <= Cardinality(query.dense) + 1
            BY <3>1, <3>2, <3>3, FS_AddElement
        <3>5. dense = found \/ dense = query.dense
            BY <1>3, <3>3
        <3> QED
            BY <3>1, <3>2, <3>4, <3>5
    <2>3. Cardinality(dense) \in Nat
        BY <2>2, FS_CardinalityType
    <2>4. query.strategy = "dense" => Cardinality(dense) <= query.limit
        <3>1. query.limit \in 1 .. MaxLimit
            BY <1>5, Zenon DEF QuerySet
        <3> QED
            BY <1>1, <2>2, <2>3, <3>1, RetrievalConstants DEF DenseLimit
    <2>5. OneEach(dense)
        BY <1>5, <1>7 DEF CandidatesSound, OneEach
    <2>6. VersionsAgree(dense)
        <3> SUFFICES ASSUME NEW a \in dense, NEW b \in dense, a.document = b.document PROVE a.id[2] = b.id[2]
            BY DEF VersionsAgree
        <3>1. a.id[2] <= b.id[2] /\ b.id[2] <= a.id[2]
            BY <1>10
        <3>2. a.id[2] \in Nat /\ b.id[2] \in Nat
            BY <1>7 DEF ChunkSet
        <3> QED
            BY <3>1, <3>2
    <2> QED
        BY <1>5, <1>9, <2>1, <2>2, <2>4, <2>5, <2>6 DEF ListsSound
<1>13. QuerySound(query', canon, current)
    BY <1>5, <1>8, <1>9, <1>11, <1>12 DEF QuerySound
<1> QED
    BY <1>1, <1>13, QueryFrame

LEMMA DenseEndsSound == ASSUME RetrievalInv, DenseEnds PROVE RetrievalInv'
<1>1. /\ query.at = "dense" /\ UNCHANGED <<canon, points, current>>
      /\ QuerySound(query, canon, current) /\ CurrentNow(canon) \subseteq current
    BY NoQueryIdle DEF DenseEnds, RetrievalInv
<1>2. query \in QuerySet /\ ListsSound(query, current) /\ query.lexical = {} /\ (query.strategy = "hybrid" => ~ query.sensitive)
    BY <1>1 DEF QuerySound
<1>3. CASE query.strategy = "dense"
    <2>1. Settled(query.dense, "ok") /\ query.dense \in SUBSET ChunkSet
        BY <1>2, <1>3 DEF DenseEnds, QuerySet
    <2>2. ASSUME NEW q, q.hits = query.dense, q.limit = query.limit, q.strategy = query.strategy
          PROVE  HitsSound(q, current)
        BY <1>2, <1>3, <2>2 DEF HitsSound, ListsSound
    <2>3. QuerySound(query', canon, current)
        BY <1>1, <2>1, <2>2, SettledSound
    <2> QED
        BY <1>1, <2>3, QueryFrame
<1>4. CASE query.strategy # "dense"
    <2>1. query' = [query EXCEPT !.at = "lexical", !.left = Corpus] /\ query.strategy = "hybrid"
        BY <1>2, <1>4 DEF DenseEnds, QuerySet
    <2>2. query' \in QuerySet
        <3>1. Corpus \in (SUBSET ChunkSet) \cup (SUBSET Corpus)
            OBVIOUS
        <3> QED
            BY <1>2, <2>1, <3>1, Zenon DEF QuerySet
    <2>3. /\ query'.at = "lexical" /\ query'.left = Corpus /\ query'.limit = query.limit
          /\ query'.strategy = query.strategy /\ query'.sensitive = query.sensitive
          /\ query'.dense = query.dense /\ query'.lexical = query.lexical
        BY <1>2, <2>1, Zenon DEF QuerySet
    <2>4. ListsSound(query', current) /\ EnumerationSound(query')
        BY <1>2, <2>1, <2>3 DEF ListsSound, EnumerationSound
    <2>5. QuerySound(query', canon, current)
        BY <1>2, <2>2, <2>3, <2>4 DEF QuerySound
    <2> QED
        BY <1>1, <2>5, QueryFrame
<1> QED
    BY <1>3, <1>4

LEMMA ReadDocumentSound == ASSUME RetrievalInv, ReadDocument PROVE RetrievalInv'
<1>1. /\ query.at = "lexical" /\ UNCHANGED <<canon, points, current>>
      /\ QuerySound(query, canon, current) /\ CurrentNow(canon) \subseteq current
      /\ canon \in [Corpus -> DocumentSet]
    BY NoQueryIdle DEF ReadDocument, RetrievalInv
<1>2. PICK d \in query.left :
        query' = [query EXCEPT !.left = @ \ {d}, !.lexical = IF Stored(d) THEN @ \cup ChunksOf(d) ELSE @]
    BY DEF ReadDocument
<1>3. PICK left, lexical :
        left = query.left \ {d} /\ lexical = IF Stored(d) THEN query.lexical \cup ChunksOf(d) ELSE query.lexical
    OBVIOUS
<1>4. query' = [query EXCEPT !.left = left, !.lexical = lexical]
    BY <1>2, <1>3
<1>5. /\ query \in QuerySet /\ EnumerationSound(query) /\ ListsSound(query, current) /\ d \in Corpus
      /\ query.strategy = "hybrid" => ~ query.sensitive
    BY <1>1, <1>2 DEF QuerySound, EnumerationSound
<1>6. /\ ChunksOf(d) \subseteq ChunkSet /\ OneEach(ChunksOf(d)) /\ IsFiniteSet(ChunksOf(d))
      /\ \A c \in ChunksOf(d) : c.document = d /\ c.id[1] = d
      /\ Stored(d) => ChunksOf(d) \subseteq current
    BY <1>1, <1>5, CanonChunks
<1>7. lexical \subseteq ChunkSet /\ lexical \subseteq current /\ IsFiniteSet(lexical)
    <2>1. /\ query.lexical \subseteq ChunkSet /\ query.lexical \subseteq current /\ IsFiniteSet(query.lexical)
        BY <1>5 DEF ListsSound, QuerySet
    <2>2. IsFiniteSet(query.lexical \cup ChunksOf(d))
        BY <1>6, <2>1, FS_Union
    <2> QED
        BY <1>3, <1>6, <2>1, <2>2
<1>8. left \subseteq Corpus /\ \A c \in lexical : c.document \notin left
    BY <1>3, <1>5, <1>6 DEF EnumerationSound
<1>9. OneEach(lexical)
    <2>1. OneEach(query.lexical) /\ query.lexical \subseteq ChunkSet
        BY <1>5 DEF ListsSound, QuerySet
    <2>2. \A c \in query.lexical : c.document # d
        BY <1>2, <1>5 DEF EnumerationSound
    <2>3. ASSUME NEW a \in query.lexical, NEW b \in ChunksOf(d), Stored(d) PROVE a.id # b.id
        <3>1. a.id[1] = a.document /\ b.id[1] = d
            BY <1>6, <2>1 DEF ChunkSet
        <3> QED
            BY <2>2, <3>1
    <2> QED
        BY <1>3, <1>6, <2>1, <2>3 DEF OneEach
<1>10. query' \in QuerySet
    <2>1. left \in (SUBSET ChunkSet) \cup (SUBSET Corpus) /\ lexical \in SUBSET ChunkSet
        BY <1>7, <1>8
    <2> QED
        BY <1>4, <1>5, <2>1, Zenon DEF QuerySet
<1>11. /\ query'.at = "lexical" /\ query'.left = left /\ query'.limit = query.limit /\ query'.strategy = query.strategy
       /\ query'.sensitive = query.sensitive /\ query'.dense = query.dense /\ query'.lexical = lexical
    BY <1>1, <1>4, <1>5, Zenon DEF QuerySet
<1>12. ListsSound(query', current) /\ EnumerationSound(query')
    BY <1>5, <1>7, <1>8, <1>9, <1>11 DEF ListsSound, EnumerationSound
<1>13. QuerySound(query', canon, current)
    BY <1>5, <1>10, <1>11, <1>12 DEF QuerySound
<1> QED
    BY <1>1, <1>13, QueryFrame

LEMMA RankSound == ASSUME RetrievalInv, Rank PROVE RetrievalInv'
<1>1. /\ query.at = "lexical" /\ UNCHANGED <<canon, points, current>> /\ QuerySound(query, canon, current)
    BY NoQueryIdle DEF Rank, RetrievalInv
<1>2. PICK lexical \in SUBSET query.lexical :
        IF ~ Agree(query.dense, lexical) THEN Settled({}, "failed")
        ELSE \/ RerankerFails(query.dense \cup lexical)
             \/ Settled({}, "ok")
             \/ Confident(lexical) /\ \E hits \in Ranked(lexical, query.limit) : Settled(hits, "ok")
    BY DEF Rank, Scored
<1>3. CASE \E outcome \in {"ok", "failed", "reranker_unavailable"} : Settled({}, outcome)
    BY <1>1, <1>3, NothingSettled, QueryFrame
<1>4. ASSUME Agree(query.dense, lexical), NEW hits \in Ranked(lexical, query.limit), Settled(hits, "ok")
      PROVE  QuerySound(query', canon, current)
    <2>1. PICK fused : fused = query.dense \cup lexical
        OBVIOUS
    <2>2. /\ query \in QuerySet /\ ListsSound(query, current) /\ query.strategy = "hybrid" /\ ~ query.sensitive
          /\ query.dense \subseteq ChunkSet /\ query.lexical \subseteq ChunkSet
        BY <1>1 DEF QuerySound, EnumerationSound, QuerySet
    <2>3. IsFiniteSet(fused) /\ fused \subseteq current /\ fused \subseteq ChunkSet
        <3>1. IsFiniteSet(query.dense) /\ IsFiniteSet(query.lexical) /\ query.dense \subseteq current /\ query.lexical \subseteq current
            BY <2>2 DEF ListsSound
        <3>2. IsFiniteSet(lexical)
            BY <1>2, <3>1, FS_Subset
        <3>3. IsFiniteSet(query.dense \cup lexical)
            BY <3>1, <3>2, FS_Union
        <3> QED
            BY <1>2, <2>1, <2>2, <3>1, <3>3
    <2>4. OneEach(fused)
        <3>1. OneEach(query.dense) /\ OneEach(lexical)
            BY <1>2, <2>2 DEF ListsSound, OneEach
        <3>2. \A a \in query.dense, b \in lexical : a.id = b.id => a = b
            BY <1>4 DEF Agree
        <3> QED
            BY <2>1, <3>1, <3>2 DEF OneEach
    <2>5. PICK size : size = IF Cardinality(fused) < query.limit THEN Cardinality(fused) ELSE query.limit
        OBVIOUS
    <2>6. hits \in SUBSET fused /\ Cardinality(hits) = size /\ Diverse(hits, fused)
        BY <1>4, <2>1, <2>5 DEF Ranked
    <2>7. size \in Nat /\ size <= query.limit
        <3>1. Cardinality(fused) \in Nat
            BY <2>3, FS_CardinalityType
        <3>2. query.limit \in 1 .. MaxLimit /\ MaxLimit \in Nat
            BY <2>2, RetrievalConstants, Zenon DEF QuerySet
        <3> QED
            BY <2>5, <3>1, <3>2
    <2>8. IsFiniteSet(hits) /\ OneEach(hits) /\ hits \subseteq current /\ hits \in SUBSET ChunkSet
        BY <2>3, <2>4, <2>6, FS_Subset DEF OneEach
    <2>9. Cardinality(DocumentsOf(hits)) < Cardinality(hits) => DocumentsOf(query.dense) \subseteq DocumentsOf(hits)
        <3>1. ASSUME Cardinality(DocumentsOf(hits)) < Cardinality(hits) PROVE DocumentsOf(hits) = DocumentsOf(fused)
            BY <2>6, <2>7, <3>1 DEF Diverse
        <3>2. DocumentsOf(query.dense) \subseteq DocumentsOf(fused)
            BY <2>1 DEF DocumentsOf
        <3> QED
            BY <3>1, <3>2
    <2>10. ASSUME NEW q, q.hits = hits, q.limit = query.limit, q.strategy = query.strategy,
                  q.sensitive = query.sensitive, q.dense = query.dense
           PROVE  HitsSound(q, current)
        <3>1. Cardinality(q.hits) <= q.limit
            BY <2>6, <2>7, <2>10
        <3>2. q.strategy = "hybrid" /\ ~ q.sensitive
            BY <2>2, <2>10
        <3> QED
            BY <2>8, <2>9, <2>10, <3>1, <3>2 DEF HitsSound
    <2> QED
        BY <1>1, <1>4, <2>8, <2>10, SettledSound
<1>5. CASE ~ \E outcome \in {"ok", "failed", "reranker_unavailable"} : Settled({}, outcome)
    <2>1. ~ RerankerFails(query.dense \cup lexical)
        BY <1>5 DEF RerankerFails
    <2>2. Agree(query.dense, lexical) /\ \E hits \in Ranked(lexical, query.limit) : Settled(hits, "ok")
        BY <1>2, <1>5, <2>1
    <2> QED
        BY <1>1, <1>4, <2>2, QueryFrame
<1> QED
    BY <1>3, <1>5

LEMMA RetrievalStep == ASSUME RetrievalInv, [RetrievalNext]_retrievalVars PROVE RetrievalInv'
<1>1. CASE \E d \in Corpus : Stage(d) \/ Upload(d) \/ PruneAndMark(d)
    BY <1>1, StageSound, UploadSound, PruneAndMarkSound
<1>2. CASE \E limit \in 1 .. MaxLimit, strategy \in {"dense", "hybrid"}, sensitive \in BOOLEAN :
             Ask(limit, strategy, sensitive)
    BY <1>2, AskSound
<1>3. CASE FetchDense \/ CheckCandidate \/ DenseEnds \/ ReadDocument \/ Rank
    BY <1>3, FetchDenseSound, CheckCandidateSound, DenseEndsSound, ReadDocumentSound, RankSound
<1>4. CASE UNCHANGED retrievalVars
    BY <1>4 DEF retrievalVars, RetrievalInv, CurrentNow
<1> QED
    BY <1>1, <1>2, <1>3, <1>4 DEF RetrievalNext

\* One identity each: as many identities as chunks.
LEMMA Identities ==
    ASSUME NEW hits, IsFiniteSet(hits), OneEach(hits)
    PROVE  Cardinality({h.id : h \in hits}) = Cardinality(hits)
<1>1. PICK ids, f : ids = {h.id : h \in hits} /\ f = [h \in hits |-> h.id]
    OBVIOUS
<1>2. f \in [hits -> ids] /\ \A h \in hits : f[h] = h.id
    BY <1>1
<1>3. \A i \in ids : \E h \in hits : f[h] = i
    BY <1>1, <1>2
<1>4. \A a, b \in hits : f[a] = f[b] => a = b
    BY <1>2 DEF OneEach
<1>5. f \in Surjection(hits, ids) /\ f \in Injection(hits, ids)
    BY <1>2, <1>3, <1>4, Fun_IsSurj, Fun_IsInj
<1> QED
    BY <1>1, <1>5, FS_Surjection

LEMMA AnsweredRight == ASSUME RetrievalInv PROVE RetrievalTypeOK /\ HitsWereCurrent
<1>1. RetrievalTypeOK
    BY NoQueryIdle DEF RetrievalInv, RetrievalTypeOK, QuerySound, QuerySet, DocumentSet, NoQuery
<1>2. ASSUME query.at = "answered" PROVE HitsSound(query, current)
    BY <1>2, NoQueryIdle DEF RetrievalInv, QuerySound, NoQuery
<1>3. HitsWereCurrent
    BY <1>2, Identities DEF HitsWereCurrent, HitsSound, VersionsAgree
<1> QED
    BY <1>1, <1>3

\* Whatever replaces, hides or deletes the documents between the reads of a
\* question (hybrid.py, store.py), an answer holds chunks that were current at a
\* moment of it, each once, within the limit, without two versions of a document
\* where no lexical list is asked, and with every document heard.
THEOREM RetrievalSound == RetrievalSpec => [](RetrievalTypeOK /\ HitsWereCurrent)
<1>1. RetrievalSpec => []RetrievalInv
    BY RetrievalInitSound, RetrievalStep, PTL DEF RetrievalSpec
<1> QED
    BY <1>1, AnsweredRight, PTL

\* Together: an answer is of hits that were current, and claims what the gates
\* and the chunks in its prompt allow (hybrid.py, adapters.py).
THEOREM AnswersSupported == AnswersSpec => []AnswersAreSupported
BY RetrievalSound, GenerationSound, PTL DEF AnswersSpec, AnswersAreSupported

-----------------------------------------------------------------------------
(* Requests on their way in (Gateway).                                     *)

CredentialSet == [subject : Subjects \cup {"nobody"}, scopes : SUBSET {"tasks:write", "calendar:write"}]

ToolSteps == {"presented", "verified", "attempted", "exchanging", "calling", "called"}
OperatorSteps == {"boundary", "proxied", "admitted", "attempted_at_backend", "handled"}

\* Before and after the attempt.
Unattempted == {"presented", "verified", "boundary", "proxied", "admitted"}
Attempted == {"attempted", "exchanging", "calling", "called", "attempted_at_backend", "handled"}

VisitSet == [at : ToolSteps \cup OperatorSteps \cup {"ended"}, kind : {"tool", "operator"}, token : Tokens,
             key : {0, 1}, since : Nat, credential : CredentialSet, ok : BOOLEAN, unaudited : BOOLEAN,
             told : {"nothing", "ok", "error", "refused", "timeout"}]

CallOutcomes == {"attempt", "success", "error", "rejected"}
RowSet == [id : Callers, subject : Subjects, outcome : CallOutcomes]
EffectSet == [id : Callers, kind : {"tool", "operator"}, subject : Subjects]

RowsOf(lines, id) == {r.outcome : r \in {q \in lines : q.id = id}}

ScopeFor(kind) == IF kind = "tool" THEN "tasks:write" ELSE "ai:operate"

\* What the request asked for was done for its user, by it or before it.
DoneFor(v, deeds) == \E e \in deeds : e.kind = v.kind /\ e.subject = SubjectOf[v.token]

\* One outcome at most, and one at least if it was attempted and is accounted for.
RowsAtTheEnd(c, lines, unaudited) ==
    \E o \in {"success", "error", "rejected"} :
        /\ RowsOf(lines, c) \subseteq {"attempt", o}
        /\ "attempt" \in RowsOf(lines, c) /\ ~ unaudited => o \in RowsOf(lines, c)

\* The rows of a request are of its user and follow its steps.
RowsAreInStep(c, v, lines) ==
    /\ \A r \in lines : r.id = c => r.subject = SubjectOf[v.token]
    /\ v.at \in Unattempted => RowsOf(lines, c) = {}
    /\ v.at \in Attempted => RowsOf(lines, c) = {"attempt"}
    /\ v.at = "ended" => RowsAtTheEnd(c, lines, v.unaudited)

\* What a request did was attempted, and its user may do it.
EffectsAreItsOwn(c, v, lines, deeds) ==
    \A e \in deeds : e.id = c =>
        /\ e.subject = SubjectOf[v.token] /\ e.kind = v.kind /\ ScopeFor(v.kind) \in ScopesOf[v.token]
        /\ "attempt" \in RowsOf(lines, c)

\* Who is about to hear "ok", or has, has what was asked for.
ReplyIsTrue(c, v, lines, deeds) ==
    /\ v.ok => v.at \in {"called", "handled"} /\ DoneFor(v, deeds)
    /\ v.told = "ok" => v.at = "ended" /\ DoneFor(v, deeds) /\ {"attempt", "success"} \subseteq RowsOf(lines, c)

CallerSound(c, v, lines, deeds) ==
    \/ v = NoVisit /\ (\A r \in lines : r.id # c) /\ (\A e \in deeds : e.id # c)
    \/ /\ v \in VisitSet
       /\ v.at \in ToolSteps => v.kind = "tool"
       /\ v.at \in OperatorSteps => v.kind = "operator"
       /\ RowsAreInStep(c, v, lines) /\ EffectsAreItsOwn(c, v, lines, deeds) /\ ReplyIsTrue(c, v, lines, deeds)
       /\ v.at = "calling" => SameIdentity(v.token, v.credential)

\* The key a request was verified with is, or was until lately, the issuer's.
KeySound(v, key, retired, time) ==
    v # NoVisit =>
        /\ v.key <= key /\ v.since <= time
        /\ v.at = "verified" /\ v.key # key => v.since < retired + KeyTtl

KeySetSound(set, key, retired, time) ==
    /\ set \in [keys : SUBSET {0, 1}, until : Nat] /\ set.until <= time + KeyTtl
    /\ \A k \in set.keys : k <= key /\ (k # key => set.until <= retired + KeyTtl)

CacheSet == [token : Tokens, credential : CredentialSet, until : Nat]

CacheSound(cache) ==
    /\ cache \in Seq(CacheSet) /\ Len(cache) <= CacheSize
    /\ \A i \in DOMAIN cache : SameIdentity(cache[i].token, cache[i].credential)

OncePerUser(deeds) ==
    \A e, f \in deeds : e.kind = "tool" /\ f.kind = "tool" /\ e.subject = f.subject => e = f

GatewayInv ==
    /\ issuer \in [key : {0, 1}, retired : Nat] /\ minute \in 0 .. LastMinute
    /\ KeySetSound(jwks, issuer.key, issuer.retired, minute)
    /\ CacheSound(exchanged)
    /\ visit \in [Callers -> VisitSet \cup {NoVisit}]
    /\ trail \subseteq RowSet /\ effects \subseteq EffectSet /\ OncePerUser(effects)
    /\ \A c \in Callers : /\ CallerSound(c, visit[c], trail, effects)
                          /\ KeySound(visit[c], issuer.key, issuer.retired, minute)

LEMMA NoVisitIdle == NoVisit.at = "idle" /\ \A v \in VisitSet : v.at # "idle" /\ v # NoVisit
<1>1. NoVisit.at = "idle" /\ NoVisit.told = "nothing"
    BY DEF NoVisit
<1>2. \A v \in VisitSet : v.at # "idle"
    BY DEF VisitSet, ToolSteps, OperatorSteps
<1> QED
    BY <1>1, <1>2

LEMMA GatewayInitSound == ASSUME GatewayInit PROVE GatewayInv
<1>1. issuer \in [key : {0, 1}, retired : Nat] /\ minute \in 0 .. LastMinute
    BY GatewayConstants DEF GatewayInit, NotRetired
<1>2. KeySetSound(jwks, issuer.key, issuer.retired, minute)
    BY GatewayConstants DEF GatewayInit, KeySetSound
<1>3. CacheSound(exchanged)
    <2>1. exchanged = <<>> /\ CacheSize \in Nat
        BY GatewayConstants DEF GatewayInit
    <2> QED
        BY <2>1 DEF CacheSound
<1>4. visit \in [Callers -> VisitSet \cup {NoVisit}] /\ \A c \in Callers : visit[c] = NoVisit
    BY DEF GatewayInit
<1>5. trail = {} /\ effects = {}
    BY DEF GatewayInit
<1>6. \A c \in Callers : CallerSound(c, visit[c], trail, effects)
    BY <1>4, <1>5 DEF CallerSound
<1> QED
    BY <1>1, <1>2, <1>3, <1>4, <1>5, <1>6 DEF GatewayInv, KeySound, OncePerUser

\* What a request's own step says of the others: nothing of theirs is taken.
LEMMA OthersUndisturbed ==
    ASSUME NEW b, NEW c, b # c, NEW v, NEW lines, NEW lines2, NEW deeds, NEW deeds2,
           lines \subseteq lines2, \A r \in lines2 : r \in lines \/ r.id = c,
           deeds \subseteq deeds2, \A e \in deeds2 : e \in deeds \/ e.id = c,
           CallerSound(b, v, lines, deeds)
    PROVE  CallerSound(b, v, lines2, deeds2)
<1>1. {q \in lines2 : q.id = b} = {q \in lines : q.id = b}
    OBVIOUS
<1>2. RowsOf(lines2, b) = RowsOf(lines, b)
    BY <1>1 DEF RowsOf
<1>3. RowsAreInStep(b, v, lines) => RowsAreInStep(b, v, lines2)
    BY <1>2 DEF RowsAreInStep, RowsAtTheEnd
<1>4. EffectsAreItsOwn(b, v, lines, deeds) => EffectsAreItsOwn(b, v, lines2, deeds2)
    BY <1>2 DEF EffectsAreItsOwn
<1>5. ReplyIsTrue(b, v, lines, deeds) => ReplyIsTrue(b, v, lines2, deeds2)
    BY <1>2 DEF ReplyIsTrue, DoneFor
<1> QED
    BY <1>3, <1>4, <1>5 DEF CallerSound

\* What a step of request c adds to the audit and to what was done is its own.
Adds(c, lines, lines2, deeds, deeds2) ==
    /\ lines \subseteq lines2 /\ lines2 \subseteq RowSet /\ \A r \in lines2 : r \in lines \/ r.id = c
    /\ deeds \subseteq deeds2 /\ deeds2 \subseteq EffectSet /\ \A e \in deeds2 : e \in deeds \/ e.id = c

LEMMA RequestStep ==
    ASSUME GatewayInv, NEW c \in Callers, NEW v \in VisitSet, visit' = [visit EXCEPT ![c] = v],
           UNCHANGED <<issuer, minute>>, Adds(c, trail, trail', effects, effects'), OncePerUser(effects'),
           CallerSound(c, v, trail', effects'), KeySound(v, issuer.key, issuer.retired, minute),
           KeySetSound(jwks', issuer.key, issuer.retired, minute), CacheSound(exchanged')
    PROVE  GatewayInv'
<1>1. visit' \in [Callers -> VisitSet \cup {NoVisit}] /\ trail' \subseteq RowSet /\ effects' \subseteq EffectSet
    BY DEF GatewayInv, Adds
<1>2. ASSUME NEW b \in Callers
      PROVE  CallerSound(b, visit'[b], trail', effects') /\ KeySound(visit'[b], issuer.key, issuer.retired, minute)
    <2>1. CASE b = c
        BY <2>1 DEF GatewayInv
    <2>2. CASE b # c
        <3>1. visit'[b] = visit[b]
            BY <2>2 DEF GatewayInv
        <3>2. CallerSound(b, visit[b], trail, effects) /\ KeySound(visit[b], issuer.key, issuer.retired, minute)
            BY DEF GatewayInv
        <3>3. CallerSound(b, visit[b], trail', effects')
            BY <2>2, <3>2, OthersUndisturbed DEF Adds
        <3> QED
            BY <3>1, <3>2, <3>3
    <2> QED
        BY <2>1, <2>2
<1> QED
    BY <1>1, <1>2 DEF GatewayInv

LEMMA NothingAdded ==
    ASSUME GatewayInv, NEW c \in Callers, UNCHANGED <<trail, effects>>
    PROVE  Adds(c, trail, trail', effects, effects') /\ OncePerUser(effects')
BY DEF GatewayInv, Adds

\* A request that has arrived.
LEMMA Arrived ==
    ASSUME GatewayInv, NEW c \in Callers, visit[c].at # "idle"
    PROVE  /\ visit[c] \in VisitSet /\ SubjectOf[visit[c].token] = User(c) /\ User(c) \in Subjects
           /\ visit[c].at \in ToolSteps => visit[c].kind = "tool"
           /\ visit[c].at \in OperatorSteps => visit[c].kind = "operator"
           /\ RowsAreInStep(c, visit[c], trail) /\ EffectsAreItsOwn(c, visit[c], trail, effects)
           /\ ReplyIsTrue(c, visit[c], trail, effects)
           /\ visit[c].at = "calling" => SameIdentity(visit[c].token, visit[c].credential)
           /\ KeySound(visit[c], issuer.key, issuer.retired, minute) /\ visit[c] # NoVisit
<1>1. visit[c] \in VisitSet /\ CallerSound(c, visit[c], trail, effects) /\ visit[c] # NoVisit
    BY NoVisitIdle DEF GatewayInv
<1>2. visit[c].token \in Tokens
    BY <1>1, Zenon DEF VisitSet
<1>3. KeySound(visit[c], issuer.key, issuer.retired, minute)
    BY DEF GatewayInv
<1> QED
    BY <1>1, <1>2, <1>3 DEF CallerSound, User, Subjects

LEMMA RowWritten ==
    ASSUME GatewayInv, NEW c \in Callers, visit[c].at # "idle", NEW outcome \in CallOutcomes, WriteRow(c, outcome),
           UNCHANGED effects
    PROVE  /\ Adds(c, trail, trail', effects, effects')
           /\ RowsOf(trail', c) = RowsOf(trail, c) \cup {outcome}
           /\ \A r \in trail' : r.id = c => r.subject = User(c)
<1>1. PICK row : row = [id |-> c, subject |-> User(c), outcome |-> outcome]
    OBVIOUS
<1>2. trail' = trail \cup {row}
    BY <1>1 DEF WriteRow
<1>3. User(c) \in Subjects /\ RowsAreInStep(c, visit[c], trail) /\ SubjectOf[visit[c].token] = User(c)
    BY Arrived
<1>4. row \in RowSet /\ row.id = c /\ row.subject = User(c) /\ row.outcome = outcome
    BY <1>1, <1>3 DEF RowSet
<1>5. {q \in trail' : q.id = c} = {q \in trail : q.id = c} \cup {row}
    BY <1>2, <1>4
<1>6. RowsOf(trail', c) = RowsOf(trail, c) \cup {outcome}
    BY <1>4, <1>5 DEF RowsOf
<1>7. Adds(c, trail, trail', effects, effects')
    BY <1>2, <1>4 DEF Adds, GatewayInv
<1> QED
    BY <1>2, <1>3, <1>4, <1>6, <1>7 DEF RowsAreInStep

\* A request that ends.
LEMMA ClosesSound ==
    ASSUME GatewayInv, NEW c \in Callers, visit[c].at # "idle", NEW told \in {"ok", "error", "refused"},
           NEW unaudited \in BOOLEAN, Closes(c, told, unaudited), UNCHANGED effects,
           Adds(c, trail, trail', effects, effects'), RowsOf(trail, c) \subseteq RowsOf(trail', c),
           \A r \in trail' : r.id = c => r.subject = User(c),
           RowsAtTheEnd(c, trail', unaudited),
           told = "ok" => DoneFor(visit[c], effects) /\ {"attempt", "success"} \subseteq RowsOf(trail', c)
    PROVE  \E v \in VisitSet : /\ visit' = [visit EXCEPT ![c] = v] /\ CallerSound(c, v, trail', effects')
                               /\ KeySound(v, issuer.key, issuer.retired, minute)
<1>1. PICK told2 : told2 = IF visit[c].told = "nothing" THEN told ELSE visit[c].told
    OBVIOUS
<1>2. PICK v : v = [visit[c] EXCEPT !.at = "ended", !.credential = NoCredential, !.key = 0, !.since = 0, !.ok = FALSE,
                                    !.unaudited = unaudited, !.told = told2]
    OBVIOUS
<1>3. visit' = [visit EXCEPT ![c] = v]
    BY <1>1, <1>2 DEF Closes
<1>4. /\ visit[c] \in VisitSet /\ SubjectOf[visit[c].token] = User(c)
      /\ EffectsAreItsOwn(c, visit[c], trail, effects) /\ ReplyIsTrue(c, visit[c], trail, effects)
    BY Arrived
<1>5. told2 \in {"nothing", "ok", "error", "refused", "timeout"}
    <2>1. visit[c].told \in {"nothing", "ok", "error", "refused", "timeout"}
        BY <1>4, Zenon DEF VisitSet
    <2> QED
        BY <1>1, <2>1
<1>6. v \in VisitSet
    <2>1. NoCredential \in CredentialSet
        BY DEF NoCredential, CredentialSet
    <2>2. 0 \in {0, 1} /\ 0 \in Nat /\ "ended" \in ToolSteps \cup OperatorSteps \cup {"ended"}
        OBVIOUS
    <2> QED
        BY <1>2, <1>4, <1>5, <2>1, <2>2, Zenon DEF VisitSet
<1>7. /\ v.at = "ended" /\ v.ok = FALSE /\ v.unaudited = unaudited /\ v.told = told2 /\ v.key = 0 /\ v.since = 0
      /\ v.kind = visit[c].kind /\ v.token = visit[c].token
    BY <1>2, <1>4, Zenon DEF VisitSet
<1>8. RowsAreInStep(c, v, trail')
    BY <1>4, <1>7 DEF RowsAreInStep, Unattempted, Attempted
<1>9. EffectsAreItsOwn(c, v, trail', effects')
    BY <1>4, <1>7 DEF EffectsAreItsOwn
<1>10. ReplyIsTrue(c, v, trail', effects')
    BY <1>1, <1>4, <1>7 DEF ReplyIsTrue, DoneFor
<1>11. CallerSound(c, v, trail', effects')
    BY <1>6, <1>7, <1>8, <1>9, <1>10 DEF CallerSound, ToolSteps, OperatorSteps
<1>12. KeySound(v, issuer.key, issuer.retired, minute)
    BY <1>7 DEF KeySound, GatewayInv
<1> QED
    BY <1>3, <1>6, <1>11, <1>12

\* Nothing is recorded: before the attempt, or unaccounted for.
LEMMA QuietlyClosed ==
    ASSUME GatewayInv, NEW c \in Callers, NEW told \in {"error", "refused"}, NEW unaudited \in BOOLEAN,
           Closes(c, told, unaudited), UNCHANGED <<trail, effects>>,
           visit[c].at \in Unattempted \/ (visit[c].at \in Attempted /\ unaudited)
    PROVE  \E v \in VisitSet : /\ visit' = [visit EXCEPT ![c] = v] /\ CallerSound(c, v, trail', effects')
                               /\ KeySound(v, issuer.key, issuer.retired, minute)
<1>1. visit[c].at # "idle"
    BY DEF Unattempted, Attempted
<1>2. RowsAreInStep(c, visit[c], trail) /\ SubjectOf[visit[c].token] = User(c)
    BY <1>1, Arrived
<1>3. RowsAtTheEnd(c, trail', unaudited)
    BY <1>2 DEF RowsAreInStep, RowsAtTheEnd
<1>4. \A r \in trail' : r.id = c => r.subject = User(c)
    BY <1>2 DEF RowsAreInStep
<1>5. Adds(c, trail, trail', effects, effects')
    BY NothingAdded
<1> QED
    BY <1>1, <1>3, <1>4, <1>5, ClosesSound

\* The outcome of a request is recorded as it ends, or not.
LEMMA OutcomeRecorded ==
    ASSUME GatewayInv, NEW c \in Callers, NEW outcome \in {"success", "error", "rejected"},
           NEW told \in {"ok", "error", "refused"}, RecordedOrNot(c, outcome, Ends(c, told)),
           UNCHANGED <<issuer, jwks, exchanged, effects, minute>>,
           \/ visit[c].at \in Unattempted /\ told # "ok"
           \/ visit[c].at \in Attempted /\ (told = "ok" => outcome = "success" /\ visit[c].ok)
    PROVE  GatewayInv'
<1>1. visit[c].at # "idle"
    BY DEF Unattempted, Attempted
<1>2. OncePerUser(effects') /\ KeySetSound(jwks', issuer.key, issuer.retired, minute) /\ CacheSound(exchanged')
    BY DEF GatewayInv
<1>3. CASE Closes(c, "error", TRUE) /\ UNCHANGED trail
    <2>1. \E v \in VisitSet : /\ visit' = [visit EXCEPT ![c] = v] /\ CallerSound(c, v, trail', effects')
                              /\ KeySound(v, issuer.key, issuer.retired, minute)
        BY <1>3, QuietlyClosed
    <2>2. Adds(c, trail, trail', effects, effects')
        BY <1>3, NothingAdded
    <2> QED
        BY <1>2, <2>1, <2>2, RequestStep
<1>4. CASE WriteRow(c, outcome) /\ Closes(c, told, FALSE)
    <2>1. /\ Adds(c, trail, trail', effects, effects') /\ RowsOf(trail', c) = RowsOf(trail, c) \cup {outcome}
          /\ \A r \in trail' : r.id = c => r.subject = User(c)
        BY <1>1, <1>4, RowWritten DEF CallOutcomes
    <2>2. RowsAreInStep(c, visit[c], trail) /\ ReplyIsTrue(c, visit[c], trail, effects)
        BY <1>1, Arrived
    <2>3. RowsAtTheEnd(c, trail', FALSE)
        BY <2>1, <2>2 DEF RowsAreInStep, RowsAtTheEnd
    <2>4. told = "ok" => DoneFor(visit[c], effects) /\ {"attempt", "success"} \subseteq RowsOf(trail', c)
        BY <2>1, <2>2 DEF RowsAreInStep, ReplyIsTrue
    <2>5. \E v \in VisitSet : /\ visit' = [visit EXCEPT ![c] = v] /\ CallerSound(c, v, trail', effects')
                              /\ KeySound(v, issuer.key, issuer.retired, minute)
        BY <1>1, <1>4, <2>1, <2>3, <2>4, ClosesSound
    <2> QED
        BY <1>2, <2>1, <2>5, RequestStep
<1> QED
    BY <1>3, <1>4 DEF RecordedOrNot, Ends

LEMMA ClockSound == ASSUME GatewayInv, MinutePasses PROVE GatewayInv'
<1>1. minute' = minute + 1 /\ minute < LastMinute /\ UNCHANGED <<issuer, jwks, exchanged, visit, trail, effects>>
    BY DEF MinutePasses
<1>2. minute' \in 0 .. LastMinute /\ minute \in Nat /\ minute <= minute'
    BY <1>1, GatewayConstants DEF GatewayInv
<1>3. KeySetSound(jwks, issuer.key, issuer.retired, minute')
    <2>1. KeySetSound(jwks, issuer.key, issuer.retired, minute)
        BY DEF GatewayInv
    <2>2. jwks.until \in Nat /\ KeyTtl \in Nat /\ jwks.until <= minute + KeyTtl
        BY <2>1, GatewayConstants DEF KeySetSound
    <2>3. jwks.until <= minute' + KeyTtl
        BY <1>2, <2>2
    <2> QED
        BY <2>1, <2>3 DEF KeySetSound
<1>4. ASSUME NEW c \in Callers PROVE KeySound(visit[c], issuer.key, issuer.retired, minute')
    <2>1. KeySound(visit[c], issuer.key, issuer.retired, minute) /\ visit[c] \in VisitSet \cup {NoVisit}
        BY DEF GatewayInv
    <2>2. ASSUME visit[c] # NoVisit PROVE visit[c].since <= minute'
        <3>1. visit[c].since \in Nat /\ visit[c].since <= minute
            BY <2>1, <2>2 DEF KeySound, VisitSet
        <3> QED
            BY <1>2, <3>1
    <2> QED
        BY <2>1, <2>2 DEF KeySound
<1> QED
    BY <1>1, <1>2, <1>3, <1>4 DEF GatewayInv

LEMMA KeyRotatesSound == ASSUME GatewayInv, KeyRotates PROVE GatewayInv'
<1>1. /\ issuer.key = 0 /\ issuer' = [key |-> 1, retired |-> minute]
      /\ UNCHANGED <<jwks, exchanged, visit, trail, effects, minute>>
    BY DEF KeyRotates
<1>2. minute \in Nat /\ KeyTtl \in Nat \ {0}
    BY GatewayConstants DEF GatewayInv
<1>3. issuer' \in [key : {0, 1}, retired : Nat] /\ issuer'.key = 1 /\ issuer'.retired = minute
    BY <1>1, <1>2
<1>4. KeySetSound(jwks, issuer'.key, issuer'.retired, minute)
    <2>1. KeySetSound(jwks, 0, issuer.retired, minute)
        BY <1>1 DEF GatewayInv
    <2>2. jwks \in [keys : SUBSET {0, 1}, until : Nat] /\ jwks.until <= minute + KeyTtl
        BY <2>1 DEF KeySetSound
    <2>3. \A k \in jwks.keys : k \in {0, 1}
        BY <2>2
    <2> QED
        BY <1>3, <2>2, <2>3 DEF KeySetSound
<1>5. ASSUME NEW c \in Callers PROVE KeySound(visit[c], issuer'.key, issuer'.retired, minute)
    <2>1. KeySound(visit[c], 0, issuer.retired, minute) /\ visit[c] \in VisitSet \cup {NoVisit}
        BY <1>1 DEF GatewayInv
    <2>2. ASSUME visit[c] # NoVisit PROVE visit[c].key <= 1 /\ visit[c].since < minute + KeyTtl /\ visit[c].since <= minute
        <3>1. visit[c].since \in Nat /\ visit[c].since <= minute /\ visit[c].key \in {0, 1}
            BY <2>1, <2>2 DEF KeySound, VisitSet
        <3> QED
            BY <1>2, <3>1
    <2> QED
        BY <1>3, <2>2 DEF KeySound
<1> QED
    BY <1>1, <1>3, <1>4, <1>5 DEF GatewayInv

LEMMA ArriveSound == ASSUME GatewayInv, NEW c \in Callers, Arrive(c) PROVE GatewayInv'
<1>1. visit[c].at = "idle" /\ UNCHANGED <<issuer, jwks, exchanged, trail, effects, minute>>
    BY DEF Arrive
<1>2. PICK kind \in {"tool", "operator"}, token \in Tokens, key \in 0 .. issuer.key :
        visit' = [visit EXCEPT ![c] =
            [at |-> IF kind = "tool" THEN "presented" ELSE "boundary", kind |-> kind, token |-> token,
             key |-> key, since |-> minute, credential |-> NoCredential, ok |-> FALSE, unaudited |-> FALSE,
             told |-> "nothing"]]
    BY DEF Arrive
<1>3. PICK at : at = IF kind = "tool" THEN "presented" ELSE "boundary"
    OBVIOUS
<1>4. PICK v : v = [at |-> at, kind |-> kind, token |-> token, key |-> key, since |-> minute,
                    credential |-> NoCredential, ok |-> FALSE, unaudited |-> FALSE, told |-> "nothing"]
    OBVIOUS
<1>5. visit' = [visit EXCEPT ![c] = v]
    BY <1>2, <1>3, <1>4
<1>6. minute \in Nat /\ key \in {0, 1} /\ key <= issuer.key
    BY <1>2, GatewayConstants DEF GatewayInv
<1>7. v \in VisitSet
    <2>1. NoCredential \in CredentialSet
        BY DEF NoCredential, CredentialSet
    <2> QED
        BY <1>3, <1>4, <1>6, <2>1 DEF VisitSet, ToolSteps, OperatorSteps
<1>8. /\ v.at = at /\ v.kind = kind /\ v.token = token /\ v.key = key /\ v.since = minute /\ v.ok = FALSE
      /\ v.told = "nothing"
    BY <1>4
<1>9. visit[c] = NoVisit /\ (\A r \in trail : r.id # c) /\ (\A e \in effects : e.id # c)
    BY <1>1, NoVisitIdle DEF GatewayInv, CallerSound
<1>10. RowsAreInStep(c, v, trail') /\ EffectsAreItsOwn(c, v, trail', effects') /\ ReplyIsTrue(c, v, trail', effects')
    BY <1>1, <1>3, <1>8, <1>9 DEF RowsAreInStep, EffectsAreItsOwn, ReplyIsTrue, RowsOf, Attempted
<1>11. CallerSound(c, v, trail', effects')
    BY <1>3, <1>7, <1>8, <1>10 DEF CallerSound, ToolSteps, OperatorSteps
<1>12. KeySound(v, issuer.key, issuer.retired, minute)
    BY <1>3, <1>6, <1>8 DEF KeySound
<1>13. KeySetSound(jwks', issuer.key, issuer.retired, minute) /\ CacheSound(exchanged')
    BY <1>1 DEF GatewayInv
<1>14. Adds(c, trail, trail', effects, effects') /\ OncePerUser(effects')
    BY <1>1, NothingAdded
<1> QED
    BY <1>1, <1>5, <1>7, <1>11, <1>12, <1>13, <1>14, RequestStep

\* A request that goes on: v is its next state, on the same side of the attempt.
Continues(u, v) ==
    /\ v.token = u.token /\ v.kind = u.kind /\ v.told # "ok"
    /\ v.at \in ToolSteps => v.kind = "tool"
    /\ v.at \in OperatorSteps => v.kind = "operator"
    /\ (u.at \in Unattempted /\ v.at \in Unattempted) \/ (u.at \in Attempted /\ v.at \in Attempted)

LEMMA GoesOn ==
    ASSUME GatewayInv, NEW c \in Callers, NEW v \in VisitSet, visit[c].at # "idle", Continues(visit[c], v),
           UNCHANGED <<issuer, minute, trail, effects>>, visit' = [visit EXCEPT ![c] = v],
           v.ok => v.at \in {"called", "handled"} /\ DoneFor(v, effects),
           v.at = "calling" => SameIdentity(v.token, v.credential),
           KeySound(v, issuer.key, issuer.retired, minute),
           KeySetSound(jwks', issuer.key, issuer.retired, minute), CacheSound(exchanged')
    PROVE  GatewayInv'
<1>1. /\ RowsAreInStep(c, visit[c], trail) /\ EffectsAreItsOwn(c, visit[c], trail, effects)
    BY Arrived
<1>2. RowsAreInStep(c, v, trail)
    <2>1. v.at # "ended" /\ v.at \in Unattempted \cup Attempted
        BY DEF Continues, Unattempted, Attempted
    <2>2. v.at \in Unattempted => visit[c].at \in Unattempted
        BY DEF Continues, Unattempted, Attempted
    <2>3. v.at \in Attempted => visit[c].at \in Attempted
        BY DEF Continues, Unattempted, Attempted
    <2> QED
        BY <1>1, <2>1, <2>2, <2>3 DEF RowsAreInStep, Continues
<1>3. EffectsAreItsOwn(c, v, trail, effects)
    BY <1>1 DEF EffectsAreItsOwn, Continues
<1>4. ReplyIsTrue(c, v, trail, effects)
    BY DEF ReplyIsTrue, Continues
<1>5. CallerSound(c, v, trail', effects')
    BY <1>2, <1>3, <1>4 DEF CallerSound, Continues
<1>6. Adds(c, trail, trail', effects, effects') /\ OncePerUser(effects')
    BY NothingAdded
<1> QED
    BY <1>5, <1>6, RequestStep

\* The step that only moves on.
LEMMA MovesOn ==
    ASSUME GatewayInv, NEW c \in Callers, NEW at \in ToolSteps \cup OperatorSteps, Moves(c, at), visit[c].at # "idle",
           visit[c].told # "ok", at \notin {"calling", "verified"},
           at \in ToolSteps => visit[c].at \in ToolSteps,
           at \in OperatorSteps => visit[c].at \in OperatorSteps,
           (visit[c].at \in Unattempted /\ at \in Unattempted) \/ (visit[c].at \in Attempted /\ at \in Attempted),
           visit[c].ok => at \in {"called", "handled"},
           UNCHANGED <<issuer, minute, trail, effects, jwks, exchanged>>
    PROVE  GatewayInv'
<1>1. /\ visit[c] \in VisitSet /\ ReplyIsTrue(c, visit[c], trail, effects)
      /\ visit[c].at \in ToolSteps => visit[c].kind = "tool"
      /\ visit[c].at \in OperatorSteps => visit[c].kind = "operator"
      /\ KeySound(visit[c], issuer.key, issuer.retired, minute) /\ visit[c] # NoVisit
    BY Arrived
<1>2. PICK v : v = [visit[c] EXCEPT !.at = at]
    OBVIOUS
<1>3. visit' = [visit EXCEPT ![c] = v]
    BY <1>2 DEF Moves
<1>4. v \in VisitSet
    BY <1>1, <1>2, Zenon DEF VisitSet
<1>5. /\ v.at = at /\ v.kind = visit[c].kind /\ v.token = visit[c].token /\ v.key = visit[c].key
      /\ v.since = visit[c].since /\ v.ok = visit[c].ok /\ v.told = visit[c].told
    BY <1>1, <1>2, Zenon DEF VisitSet
<1>6. Continues(visit[c], v)
    BY <1>1, <1>5 DEF Continues
<1>7. KeySound(v, issuer.key, issuer.retired, minute)
    BY <1>1, <1>5 DEF KeySound
<1>8. v.ok => v.at \in {"called", "handled"} /\ DoneFor(v, effects)
    BY <1>1, <1>5 DEF ReplyIsTrue, DoneFor
<1>9. KeySetSound(jwks', issuer.key, issuer.retired, minute) /\ CacheSound(exchanged')
    BY DEF GatewayInv
<1> QED
    BY <1>3, <1>4, <1>5, <1>6, <1>7, <1>8, <1>9, GoesOn

\* Before its end nobody hears "ok", and nothing is ok before it was called or handled.
LEMMA NotYet ==
    ASSUME GatewayInv, NEW c \in Callers, visit[c].at \notin {"idle", "ended"}
    PROVE  visit[c].told # "ok" /\ (visit[c].ok => visit[c].at \in {"called", "handled"}) /\ visit[c].ok \in BOOLEAN
<1>1. visit[c] \in VisitSet /\ ReplyIsTrue(c, visit[c], trail, effects)
    BY Arrived
<1>2. visit[c].ok \in BOOLEAN
    BY <1>1, Zenon DEF VisitSet
<1> QED
    BY <1>1, <1>2 DEF ReplyIsTrue

\* A request that is closed quietly.
LEMMA QuietStep ==
    ASSUME GatewayInv, NEW c \in Callers, NEW told \in {"error", "refused"}, NEW unaudited \in BOOLEAN,
           Closes(c, told, unaudited), UNCHANGED <<trail, effects, issuer, minute, exchanged>>,
           KeySetSound(jwks', issuer.key, issuer.retired, minute),
           visit[c].at \in Unattempted \/ (visit[c].at \in Attempted /\ unaudited)
    PROVE  GatewayInv'
<1>1. \E v \in VisitSet : /\ visit' = [visit EXCEPT ![c] = v] /\ CallerSound(c, v, trail', effects')
                          /\ KeySound(v, issuer.key, issuer.retired, minute)
    BY QuietlyClosed
<1>2. Adds(c, trail, trail', effects, effects') /\ OncePerUser(effects') /\ CacheSound(exchanged')
    BY NothingAdded DEF GatewayInv
<1> QED
    BY <1>1, <1>2, RequestStep

LEMMA VerifyTokenSound == ASSUME GatewayInv, NEW c \in Callers, VerifyToken(c) PROVE GatewayInv'
<1>1. visit[c].at = "presented" /\ UNCHANGED <<issuer, exchanged, trail, effects, minute>>
    BY DEF VerifyToken
<1>2. /\ visit[c] \in VisitSet /\ KeySound(visit[c], issuer.key, issuer.retired, minute) /\ visit[c] # NoVisit
      /\ visit[c].kind = "tool" /\ visit[c].told # "ok" /\ visit[c].ok = FALSE
    BY <1>1, Arrived, NotYet DEF ToolSteps
<1>3. /\ issuer.key \in {0, 1} /\ minute \in Nat /\ issuer.retired \in Nat /\ KeyTtl \in Nat \ {0}
      /\ KeySetSound(jwks, issuer.key, issuer.retired, minute) /\ CacheSound(exchanged')
    BY <1>1, GatewayConstants DEF GatewayInv
<1>4. ASSUME jwks' = Fetched PROVE KeySetSound(jwks', issuer.key, issuer.retired, minute)
    <2>1. jwks' = [keys |-> {issuer.key}, until |-> minute + KeyTtl] /\ minute + KeyTtl \in Nat
        BY <1>3, <1>4 DEF Fetched
    <2>2. jwks'.keys = {issuer.key} /\ jwks'.until = minute + KeyTtl /\ jwks' \in [keys : SUBSET {0, 1}, until : Nat]
        BY <1>3, <2>1
    <2> QED
        BY <1>3, <2>2 DEF KeySetSound
<1>5. ASSUME visit' = [visit EXCEPT ![c].at = "verified", ![c].since = minute],
             KeySetSound(jwks', issuer.key, issuer.retired, minute),
             visit[c].key # issuer.key => minute < issuer.retired + KeyTtl
      PROVE  GatewayInv'
    <2>1. PICK v : v = [visit[c] EXCEPT !.at = "verified", !.since = minute]
        OBVIOUS
    <2>2. visit' = [visit EXCEPT ![c] = v]
        BY <1>5, <2>1
    <2>3. v \in VisitSet
        <3>1. "verified" \in ToolSteps \cup OperatorSteps \cup {"ended"}
            BY DEF ToolSteps
        <3> QED
            BY <1>2, <1>3, <2>1, <3>1, Zenon DEF VisitSet
    <2>4. /\ v.at = "verified" /\ v.kind = visit[c].kind /\ v.token = visit[c].token /\ v.key = visit[c].key
          /\ v.since = minute /\ v.ok = visit[c].ok /\ v.told = visit[c].told
        BY <1>2, <2>1, Zenon DEF VisitSet
    <2>5. Continues(visit[c], v)
        <3>1. "verified" \in Unattempted /\ "presented" \in Unattempted /\ "verified" \notin OperatorSteps
            BY DEF OperatorSteps, Unattempted
        <3>2. visit[c].at \in Unattempted /\ v.at \in Unattempted /\ v.at \notin OperatorSteps
            BY <1>1, <2>4, <3>1, Zenon
        <3>3. v.token = visit[c].token /\ v.kind = visit[c].kind /\ v.kind = "tool" /\ v.told # "ok"
            BY <1>2, <2>4, Zenon
        <3> QED
            BY <3>2, <3>3, Zenon DEF Continues
    <2>6. KeySound(v, issuer.key, issuer.retired, minute)
        BY <1>2, <1>3, <1>5, <2>4 DEF KeySound
    <2> QED
        BY <1>1, <1>2, <1>3, <1>5, <2>2, <2>3, <2>4, <2>5, <2>6, GoesOn
<1>6. CASE ~ NeedsFetch(visit[c].key) /\ visit' = [visit EXCEPT ![c].at = "verified", ![c].since = minute] /\ UNCHANGED jwks
    <2>1. minute < jwks.until /\ visit[c].key \in jwks.keys
        BY <1>6 DEF NeedsFetch, Fresh
    <2>2. visit[c].key # issuer.key => minute < issuer.retired + KeyTtl
        <3>1. jwks.until \in Nat /\ (visit[c].key # issuer.key => jwks.until <= issuer.retired + KeyTtl)
            BY <1>3, <2>1 DEF KeySetSound
        <3> QED
            BY <1>3, <2>1, <3>1
    <2> QED
        BY <1>3, <1>5, <1>6, <2>2
<1>7. CASE /\ jwks' = Fetched
           /\ visit[c].key \in Fetched.keys
           /\ visit' = [visit EXCEPT ![c].at = "verified", ![c].since = minute]
    <2>1. visit[c].key = issuer.key
        BY <1>7 DEF Fetched
    <2> QED
        BY <1>4, <1>5, <1>7, <2>1
<1>8. CASE Closes(c, "refused", FALSE) /\ (jwks' = Fetched \/ UNCHANGED jwks)
    <2>1. KeySetSound(jwks', issuer.key, issuer.retired, minute)
        BY <1>3, <1>4, <1>8
    <2>2. visit[c].at \in Unattempted /\ FALSE \in BOOLEAN
        BY <1>1 DEF Unattempted
    <2>3. UNCHANGED <<trail, effects, issuer, minute, exchanged>>
        BY <1>1
    <2>4. Closes(c, "refused", FALSE)
        BY <1>8
    <2> QED
        BY <2>1, <2>2, <2>3, <2>4, QuietStep
<1> QED
    BY <1>6, <1>7, <1>8 DEF VerifyToken, Ends

\* The attempt is recorded as the request goes on to v, or the request is closed.
LEMMA AttemptRecorded ==
    ASSUME GatewayInv, NEW c \in Callers, NEW v \in VisitSet, visit[c].at \in Unattempted, WriteRow(c, "attempt"),
           visit' = [visit EXCEPT ![c] = v], UNCHANGED <<issuer, jwks, exchanged, effects, minute>>,
           v.token = visit[c].token, v.kind = visit[c].kind, v.told # "ok", ~ v.ok, v.at \in Attempted, v.at # "calling",
           v.at \in ToolSteps => v.kind = "tool", v.at \in OperatorSteps => v.kind = "operator",
           v.key <= issuer.key, v.since <= minute
    PROVE  GatewayInv'
<1>1. visit[c].at # "idle"
    BY DEF Unattempted
<1>2. /\ Adds(c, trail, trail', effects, effects') /\ RowsOf(trail', c) = RowsOf(trail, c) \cup {"attempt"}
      /\ \A r \in trail' : r.id = c => r.subject = User(c)
    BY <1>1, RowWritten DEF CallOutcomes
<1>3. /\ RowsAreInStep(c, visit[c], trail) /\ EffectsAreItsOwn(c, visit[c], trail, effects)
      /\ SubjectOf[visit[c].token] = User(c)
    BY <1>1, Arrived
<1>4. RowsOf(trail', c) = {"attempt"}
    BY <1>2, <1>3 DEF RowsAreInStep
<1>5. v.at \notin Unattempted /\ v.at \notin {"ended", "verified"}
    BY DEF Attempted, Unattempted
<1>6. RowsAreInStep(c, v, trail')
    BY <1>2, <1>3, <1>4, <1>5 DEF RowsAreInStep
<1>7. EffectsAreItsOwn(c, v, trail', effects') /\ ReplyIsTrue(c, v, trail', effects')
    BY <1>3, <1>4 DEF EffectsAreItsOwn, ReplyIsTrue
<1>8. CallerSound(c, v, trail', effects') /\ KeySound(v, issuer.key, issuer.retired, minute)
    BY <1>5, <1>6, <1>7 DEF CallerSound, KeySound
<1>9. OncePerUser(effects') /\ KeySetSound(jwks', issuer.key, issuer.retired, minute) /\ CacheSound(exchanged')
    BY DEF GatewayInv
<1> QED
    BY <1>2, <1>8, <1>9, RequestStep

LEMMA InvokeToolSound == ASSUME GatewayInv, NEW c \in Callers, InvokeTool(c) PROVE GatewayInv'
<1>1. visit[c].at = "verified" /\ UNCHANGED <<issuer, jwks, exchanged, effects, minute>> /\ visit[c].at \in Unattempted
    BY DEF InvokeTool, Unattempted
<1>2. /\ visit[c] \in VisitSet /\ KeySound(visit[c], issuer.key, issuer.retired, minute) /\ visit[c] # NoVisit
      /\ visit[c].kind = "tool" /\ visit[c].told # "ok" /\ visit[c].ok = FALSE
      /\ KeySetSound(jwks', issuer.key, issuer.retired, minute)
    BY <1>1, Arrived, NotYet DEF ToolSteps, GatewayInv
<1>3. CASE RecordedOrNot(c, "rejected", Ends(c, "refused"))
    BY <1>1, <1>3, OutcomeRecorded
<1>4. CASE Closes(c, "error", TRUE) /\ UNCHANGED trail
    BY <1>1, <1>2, <1>4, QuietStep
<1>5. CASE WriteRow(c, "attempt") /\ visit' = [visit EXCEPT ![c].at = "attempted", ![c].key = 0, ![c].since = 0]
    <2>1. PICK v : v = [visit[c] EXCEPT !.at = "attempted", !.key = 0, !.since = 0]
        OBVIOUS
    <2>2. visit' = [visit EXCEPT ![c] = v]
        BY <1>5, <2>1
    <2>3. v \in VisitSet
        <3>1. "attempted" \in ToolSteps \cup OperatorSteps \cup {"ended"} /\ 0 \in {0, 1} /\ 0 \in Nat
            BY DEF ToolSteps
        <3> QED
            BY <1>2, <2>1, <3>1, Zenon DEF VisitSet
    <2>4. /\ v.at = "attempted" /\ v.kind = visit[c].kind /\ v.token = visit[c].token /\ v.key = 0 /\ v.since = 0
          /\ v.ok = visit[c].ok /\ v.told = visit[c].told
        BY <1>2, <2>1, Zenon DEF VisitSet
    <2>5. v.key <= issuer.key /\ v.since <= minute
        BY <2>4 DEF GatewayInv
    <2> QED
        BY <1>1, <1>2, <1>5, <2>2, <2>3, <2>4, <2>5, AttemptRecorded DEF Attempted, ToolSteps, OperatorSteps
<1> QED
    BY <1>3, <1>4, <1>5 DEF InvokeTool, RecordedOrNot

\* The cache without the entry of a token.
LEMMA WithoutSound ==
    ASSUME CacheSound(exchanged), NEW token \in Tokens
    PROVE  /\ CacheSound(Without(token))
           /\ Places(token) # {} => Len(Without(token)) < Len(exchanged)
<1>1. exchanged \in Seq(CacheSet) /\ Len(exchanged) \in Nat /\ DOMAIN exchanged = 1 .. Len(exchanged)
      /\ Len(exchanged) <= CacheSize
      /\ \A i \in DOMAIN exchanged : SameIdentity(exchanged[i].token, exchanged[i].credential)
    BY DEF CacheSound
<1>2. Places(token) \in SUBSET (DOMAIN exchanged)
    BY DEF Places
<1>3. /\ Without(token) \in Seq(CacheSet)
      /\ Len(Without(token)) <= Len(exchanged)
      /\ Places(token) # {} => Len(Without(token)) < Len(exchanged)
      /\ \A k \in 1 .. Len(Without(token)) : \E m \in 1 .. Len(exchanged) : Without(token)[k] = exchanged[m]
    BY <1>1, <1>2, DroppedSound DEF Without
<1>4. DOMAIN Without(token) = 1 .. Len(Without(token)) /\ Len(Without(token)) \in Nat
    BY <1>3
<1>5. \A k \in DOMAIN Without(token) : SameIdentity(Without(token)[k].token, Without(token)[k].credential)
    BY <1>1, <1>3, <1>4
<1>6. Len(Without(token)) <= CacheSize
    BY <1>1, <1>3, <1>4, GatewayConstants
<1> QED
    BY <1>3, <1>5, <1>6 DEF CacheSound

\* An entry is put at the end.
LEMMA AppendSound ==
    ASSUME NEW cache, CacheSound(cache), NEW entry \in CacheSet, SameIdentity(entry.token, entry.credential)
    PROVE  /\ Append(cache, entry) \in Seq(CacheSet) /\ Len(Append(cache, entry)) = Len(cache) + 1 /\ Len(cache) \in Nat
           /\ \A i \in 1 .. Len(cache) + 1 : SameIdentity(Append(cache, entry)[i].token, Append(cache, entry)[i].credential)
           /\ Len(cache) < CacheSize => CacheSound(Append(cache, entry))
<1>1. cache \in Seq(CacheSet) /\ Len(cache) \in Nat /\ DOMAIN cache = 1 .. Len(cache) /\ Len(cache) <= CacheSize
      /\ CacheSize \in Nat /\ \A i \in DOMAIN cache : SameIdentity(cache[i].token, cache[i].credential)
    BY GatewayConstants DEF CacheSound
<1>2. PICK longer : longer = Append(cache, entry)
    OBVIOUS
<1>3. longer \in Seq(CacheSet) /\ Len(longer) = Len(cache) + 1 /\ DOMAIN longer = 1 .. Len(cache) + 1
    BY <1>1, <1>2
<1>4. ASSUME NEW i \in 1 .. Len(cache) + 1 PROVE SameIdentity(longer[i].token, longer[i].credential)
    <2>1. CASE i = Len(cache) + 1
        <3>1. longer[i] = entry
            BY <1>1, <1>2, <2>1
        <3> QED
            BY <3>1
    <2>2. CASE i # Len(cache) + 1
        <3>1. i \in DOMAIN cache
            BY <1>1, <2>2
        <3>2. longer[i] = cache[i]
            BY <1>1, <1>2, <3>1
        <3> QED
            BY <1>1, <3>1, <3>2
    <2> QED
        BY <2>1, <2>2
<1>5. Len(cache) < CacheSize => CacheSound(longer)
    BY <1>1, <1>3, <1>4 DEF CacheSound
<1> QED
    BY <1>1, <1>2, <1>3, <1>4, <1>5

LEMMA KeptSound ==
    ASSUME NEW cache, CacheSound(cache), NEW entry \in CacheSet, SameIdentity(entry.token, entry.credential)
    PROVE  CacheSound(Kept(Append(cache, entry)))
<1>1. PICK longer, n : longer = Append(cache, entry) /\ n = Len(cache)
    OBVIOUS
<1>2. /\ longer \in Seq(CacheSet) /\ Len(longer) = n + 1 /\ n \in Nat
      /\ \A i \in 1 .. n + 1 : SameIdentity(longer[i].token, longer[i].credential)
    BY <1>1, AppendSound
<1>3. n <= CacheSize /\ CacheSize \in Nat
    BY <1>1, GatewayConstants DEF CacheSound
<1>4. PICK kept : kept = Kept(longer)
    OBVIOUS
<1>5. /\ kept \in Seq(CacheSet) /\ Len(kept) <= CacheSize
      /\ \A k \in 1 .. Len(kept) : \E m \in 1 .. Len(longer) : kept[k] = longer[m]
    <2>1. Len(longer) <= CacheSize + 1
        BY <1>2, <1>3
    <2> QED
        BY <1>2, <1>3, <1>4, <2>1, LimitedSound DEF Kept
<1>6. \A k \in DOMAIN kept : SameIdentity(kept[k].token, kept[k].credential)
    <2>1. DOMAIN kept = 1 .. Len(kept)
        BY <1>5
    <2> QED
        BY <1>2, <1>5, <2>1
<1> QED
    BY <1>1, <1>4, <1>5, <1>6 DEF CacheSound

\* A request that calls with a credential.
LEMMA CallingSound ==
    ASSUME GatewayInv, NEW c \in Callers, visit[c].at \in {"attempted", "exchanging"}, NEW credential \in CredentialSet,
           SameIdentity(visit[c].token, credential),
           visit' = [visit EXCEPT ![c].at = "calling", ![c].credential = credential],
           UNCHANGED <<issuer, jwks, trail, effects, minute>>, CacheSound(exchanged')
    PROVE  GatewayInv'
<1>1. /\ visit[c] \in VisitSet /\ KeySound(visit[c], issuer.key, issuer.retired, minute) /\ visit[c] # NoVisit
      /\ visit[c].kind = "tool" /\ visit[c].told # "ok" /\ visit[c].ok = FALSE
      /\ KeySetSound(jwks', issuer.key, issuer.retired, minute)
    BY Arrived, NotYet DEF ToolSteps, GatewayInv
<1>2. PICK v : v = [visit[c] EXCEPT !.at = "calling", !.credential = credential]
    OBVIOUS
<1>3. visit' = [visit EXCEPT ![c] = v]
    BY <1>2
<1>4. v \in VisitSet
    <2>1. "calling" \in ToolSteps \cup OperatorSteps \cup {"ended"}
        BY DEF ToolSteps
    <2> QED
        BY <1>1, <1>2, <2>1, Zenon DEF VisitSet
<1>5. /\ v.at = "calling" /\ v.kind = visit[c].kind /\ v.token = visit[c].token /\ v.key = visit[c].key
      /\ v.since = visit[c].since /\ v.ok = visit[c].ok /\ v.told = visit[c].told /\ v.credential = credential
    BY <1>1, <1>2, Zenon DEF VisitSet
<1>6. Continues(visit[c], v)
    <2>1. visit[c].at \in Attempted /\ v.at \in Attempted /\ v.at \notin OperatorSteps
        BY <1>5 DEF Attempted, OperatorSteps
    <2> QED
        BY <1>1, <1>5, <2>1 DEF Continues
<1>7. KeySound(v, issuer.key, issuer.retired, minute)
    BY <1>1, <1>5 DEF KeySound
<1> QED
    BY <1>1, <1>3, <1>4, <1>5, <1>6, <1>7, GoesOn

LEMMA LookUpExchangeSound == ASSUME GatewayInv, NEW c \in Callers, LookUpExchange(c) PROVE GatewayInv'
<1>1. visit[c].at = "attempted" /\ UNCHANGED <<issuer, jwks, trail, effects, minute>>
    BY DEF LookUpExchange
<1>2. visit[c] \in VisitSet /\ CacheSound(exchanged) /\ visit[c].told # "ok" /\ visit[c].ok = FALSE
    BY <1>1, Arrived, NotYet DEF GatewayInv
<1>3. PICK token : token = visit[c].token
    OBVIOUS
<1>4. token \in Tokens
    BY <1>2, <1>3, Zenon DEF VisitSet
<1>5. ASSUME NEW entry \in Entry(token), exchanged' = Append(Without(token), entry),
             visit' = [visit EXCEPT ![c].at = "calling", ![c].credential = entry.credential]
      PROVE  GatewayInv'
    <2>1. PICK i \in DOMAIN exchanged : exchanged[i].token = token /\ entry = exchanged[i]
        BY DEF Entry, Places
    <2>2. entry \in CacheSet /\ entry.token = token /\ SameIdentity(token, entry.credential) /\ Places(token) # {}
        BY <1>2, <2>1 DEF CacheSound, Places
    <2>3. CacheSound(Without(token)) /\ Len(Without(token)) < Len(exchanged)
        BY <1>2, <1>4, <2>2, WithoutSound
    <2>4. Len(Without(token)) < CacheSize
        BY <1>2, <2>3, GatewayConstants DEF CacheSound
    <2>5. CacheSound(exchanged')
        BY <1>5, <2>2, <2>3, <2>4, AppendSound
    <2>6. entry.credential \in CredentialSet
        BY <2>2 DEF CacheSet
    <2> QED
        BY <1>1, <1>3, <1>5, <2>2, <2>5, <2>6, CallingSound
<1>6. CASE Moves(c, "exchanging") /\ UNCHANGED exchanged
    <2>1. "exchanging" \in ToolSteps /\ "attempted" \in ToolSteps /\ "exchanging" \in Attempted /\ "attempted" \in Attempted
          /\ "exchanging" \notin OperatorSteps
        BY DEF ToolSteps, Attempted, OperatorSteps
    <2> QED
        BY <1>1, <1>2, <1>6, <2>1, MovesOn
<1> QED
    BY <1>3, <1>5, <1>6 DEF LookUpExchange

LEMMA ExchangeTokenSound == ASSUME GatewayInv, NEW c \in Callers, ExchangeToken(c) PROVE GatewayInv'
<1>1. visit[c].at = "exchanging" /\ UNCHANGED <<issuer, jwks, trail, effects, minute>>
    BY DEF ExchangeToken
<1>2. visit[c] \in VisitSet /\ CacheSound(exchanged) /\ visit[c].told # "ok" /\ visit[c].ok = FALSE /\ minute \in Nat
    BY <1>1, Arrived, NotYet DEF GatewayInv
<1>3. PICK token : token = visit[c].token
    OBVIOUS
<1>4. token \in Tokens
    BY <1>2, <1>3, Zenon DEF VisitSet
<1>5. ASSUME NEW credential \in Credentials, NEW until \in {minute, minute + 1}, SameIdentity(token, credential),
             exchanged' = Kept(Append(Without(token), [token |-> token, credential |-> credential, until |-> until])),
             visit' = [visit EXCEPT ![c].at = "calling", ![c].credential = credential]
      PROVE  GatewayInv'
    <2>1. PICK entry : entry = [token |-> token, credential |-> credential, until |-> until]
        OBVIOUS
    <2>2. credential \in CredentialSet
        BY DEF Credentials, CredentialSet
    <2>3. entry \in CacheSet /\ SameIdentity(entry.token, entry.credential)
        BY <1>2, <1>4, <1>5, <2>1, <2>2 DEF CacheSet
    <2>4. exchanged' = Kept(Append(Without(token), entry))
        BY <1>5, <2>1
    <2>5. CacheSound(Without(token))
        BY <1>2, <1>4, WithoutSound
    <2>6. CacheSound(exchanged')
        BY <2>3, <2>4, <2>5, KeptSound
    <2> QED
        BY <1>1, <1>3, <1>5, <2>2, <2>6, CallingSound
<1>6. CASE Moves(c, "called") /\ UNCHANGED exchanged
    <2>1. "called" \in ToolSteps /\ "exchanging" \in ToolSteps /\ "called" \in Attempted /\ "exchanging" \in Attempted
          /\ "called" \notin OperatorSteps
        BY DEF ToolSteps, Attempted, OperatorSteps
    <2> QED
        BY <1>1, <1>2, <1>6, <2>1, MovesOn
<1> QED
    BY <1>3, <1>5, <1>6 DEF ExchangeToken

\* What a request does is its user's, who may do it.
MayDo(c, e) ==
    /\ e \in EffectSet /\ e.id = c /\ e.subject = User(c) /\ e.kind = visit[c].kind
    /\ ScopeFor(visit[c].kind) \in ScopesOf[visit[c].token]

LEMMA DoesSound ==
    ASSUME GatewayInv, NEW c \in Callers, NEW v \in VisitSet, visit[c].at \in Attempted, Continues(visit[c], v),
           UNCHANGED <<issuer, jwks, exchanged, minute, trail>>, visit' = [visit EXCEPT ![c] = v],
           effects \subseteq effects', \A e \in effects' : e \in effects \/ MayDo(c, e), OncePerUser(effects'),
           v.ok => v.at \in {"called", "handled"} /\ DoneFor(v, effects'), v.at # "calling",
           v.key = visit[c].key, v.since = visit[c].since
    PROVE  GatewayInv'
<1>1. visit[c].at # "idle" /\ visit[c].at \notin Unattempted /\ v.at \in Attempted /\ v.at \notin Unattempted
      /\ v.at \notin {"ended", "verified"}
    BY DEF Continues, Unattempted, Attempted
<1>2. /\ RowsAreInStep(c, visit[c], trail) /\ EffectsAreItsOwn(c, visit[c], trail, effects)
      /\ KeySound(visit[c], issuer.key, issuer.retired, minute) /\ visit[c] # NoVisit /\ SubjectOf[visit[c].token] = User(c)
    BY <1>1, Arrived
<1>3. RowsAreInStep(c, v, trail) /\ RowsOf(trail, c) = {"attempt"}
    BY <1>1, <1>2 DEF RowsAreInStep, Continues
<1>4. EffectsAreItsOwn(c, v, trail, effects')
    <2> SUFFICES ASSUME NEW e \in effects', e.id = c
                 PROVE  /\ e.subject = SubjectOf[v.token] /\ e.kind = v.kind /\ ScopeFor(v.kind) \in ScopesOf[v.token]
                        /\ "attempt" \in RowsOf(trail, c)
        BY DEF EffectsAreItsOwn
    <2>1. CASE e \in effects
        BY <1>2, <2>1 DEF EffectsAreItsOwn, Continues
    <2>2. CASE MayDo(c, e)
        BY <1>2, <1>3, <2>2 DEF MayDo, Continues
    <2> QED
        BY <2>1, <2>2
<1>5. ReplyIsTrue(c, v, trail, effects')
    BY DEF ReplyIsTrue, Continues
<1>6. CallerSound(c, v, trail', effects')
    BY <1>3, <1>4, <1>5 DEF CallerSound, Continues
<1>7. Adds(c, trail, trail', effects, effects')
    BY DEF Adds, MayDo, GatewayInv
<1>8. KeySound(v, issuer.key, issuer.retired, minute)
    BY <1>1, <1>2 DEF KeySound
<1>9. KeySetSound(jwks', issuer.key, issuer.retired, minute) /\ CacheSound(exchanged')
    BY DEF GatewayInv
<1> QED
    BY <1>6, <1>7, <1>8, <1>9, RequestStep

LEMMA CalledSound ==
    ASSUME GatewayInv, NEW c \in Callers, visit[c].at = "calling", NEW ok \in BOOLEAN, Called(c, ok),
           UNCHANGED <<issuer, jwks, exchanged, minute, trail>>,
           effects \subseteq effects', \A e \in effects' : e \in effects \/ MayDo(c, e), OncePerUser(effects'),
           ok => DoneFor(visit[c], effects')
    PROVE  GatewayInv'
<1>1. /\ visit[c] \in VisitSet /\ visit[c].kind = "tool" /\ visit[c].told # "ok"
    BY Arrived, NotYet DEF ToolSteps
<1>2. PICK v : v = [visit[c] EXCEPT !.at = "called", !.ok = ok, !.credential = NoCredential]
    OBVIOUS
<1>3. visit' = [visit EXCEPT ![c] = v]
    BY <1>2 DEF Called
<1>4. v \in VisitSet
    <2>1. "called" \in ToolSteps \cup OperatorSteps \cup {"ended"} /\ NoCredential \in CredentialSet
        BY DEF ToolSteps, NoCredential, CredentialSet
    <2> QED
        BY <1>1, <1>2, <2>1, Zenon DEF VisitSet
<1>5. /\ v.at = "called" /\ v.kind = visit[c].kind /\ v.token = visit[c].token /\ v.key = visit[c].key
      /\ v.since = visit[c].since /\ v.ok = ok /\ v.told = visit[c].told
    BY <1>1, <1>2, Zenon DEF VisitSet
<1>6. visit[c].at \in Attempted /\ Continues(visit[c], v)
    <2>1. "calling" \in Attempted /\ "called" \in Attempted /\ "called" \notin OperatorSteps
        BY DEF Attempted, OperatorSteps
    <2> QED
        BY <1>1, <1>5, <2>1 DEF Continues
<1>7. v.ok => v.at \in {"called", "handled"} /\ DoneFor(v, effects')
    BY <1>5 DEF DoneFor
<1> QED
    BY <1>3, <1>4, <1>5, <1>6, <1>7, DoesSound

LEMMA CallTaskApiSound == ASSUME GatewayInv, NEW c \in Callers, CallTaskApi(c) PROVE GatewayInv'
<1>1. visit[c].at = "calling" /\ UNCHANGED <<issuer, jwks, exchanged, minute, trail>> /\ OncePerUser(effects)
    BY DEF CallTaskApi, GatewayInv
<1>2. /\ visit[c] \in VisitSet /\ visit[c].kind = "tool" /\ SameIdentity(visit[c].token, visit[c].credential)
      /\ SubjectOf[visit[c].token] = User(c) /\ User(c) \in Subjects
    BY <1>1, Arrived DEF ToolSteps
<1>3. PICK credential, before : /\ credential = visit[c].credential
                                /\ before = \E e \in effects : e.kind = "tool" /\ e.subject = credential.subject
    OBVIOUS
<1>4. credential.subject = User(c) /\ credential.scopes \subseteq ScopesOf[visit[c].token]
    BY <1>2, <1>3 DEF SameIdentity
<1>5. CASE Called(c, FALSE) /\ UNCHANGED effects
    BY <1>1, <1>5, CalledSound
<1>6. ASSUME "tasks:write" \in credential.scopes, NEW ok \in BOOLEAN, Called(c, ok),
             effects' = IF before THEN effects ELSE effects \cup {Effect(c, credential.subject)}
      PROVE  GatewayInv'
    <2>1. CASE before
        <3>1. DoneFor(visit[c], effects') /\ effects' = effects
            BY <1>2, <1>3, <1>4, <1>6, <2>1 DEF DoneFor
        <3> QED
            BY <1>1, <1>6, <3>1, CalledSound
    <2>2. CASE ~ before
        <3>1. PICK e : e = [id |-> c, kind |-> visit[c].kind, subject |-> credential.subject]
            OBVIOUS
        <3>2. effects' = effects \cup {e}
            BY <1>6, <2>2, <3>1 DEF Effect
        <3>3. e.id = c /\ e.kind = "tool" /\ e.subject = User(c) /\ e \in EffectSet
            BY <1>2, <1>4, <3>1 DEF EffectSet
        <3>4. MayDo(c, e)
            BY <1>2, <1>4, <1>6, <3>3 DEF MayDo, ScopeFor
        <3>5. \A f \in effects : ~ (f.kind = "tool" /\ f.subject = e.subject)
            BY <1>3, <1>4, <2>2, <3>3
        <3>6. OncePerUser(effects') /\ DoneFor(visit[c], effects')
            BY <1>1, <1>2, <3>2, <3>3, <3>5 DEF OncePerUser, DoneFor
        <3> QED
            BY <1>1, <1>6, <3>2, <3>4, <3>6, CalledSound
    <2> QED
        BY <1>3, <2>1, <2>2
<1>7. ASSUME NEW tool, NEW replied \in BOOLEAN, Called(c, replied /\ (before => tool = "task_create")),
             "tasks:write" \in credential.scopes,
             effects' = IF before THEN effects ELSE effects \cup {Effect(c, credential.subject)}
      PROVE  GatewayInv'
    <2>1. PICK ok : ok = (replied /\ (before => tool = "task_create"))
        OBVIOUS
    <2>2. ok \in BOOLEAN /\ Called(c, ok)
        BY <1>7, <2>1
    <2> QED
        BY <1>6, <1>7, <2>2
<1> QED
    BY <1>3, <1>5, <1>7 DEF CallTaskApi

LEMMA ReportToolSound == ASSUME GatewayInv, NEW c \in Callers, ReportTool(c) PROVE GatewayInv'
<1>1. visit[c].at \in Attempted /\ UNCHANGED <<issuer, jwks, exchanged, effects, minute>>
    BY DEF ReportTool, Attempted
<1>2. CASE visit[c].ok /\ RecordedOrNot(c, "success", Ends(c, "ok"))
    BY <1>1, <1>2, OutcomeRecorded
<1>3. CASE RecordedOrNot(c, "error", Ends(c, "error"))
    BY <1>1, <1>3, OutcomeRecorded
<1> QED
    BY <1>2, <1>3 DEF ReportTool

LEMMA StepNames ==
    /\ {"boundary", "proxied", "admitted"} \subseteq Unattempted \cap OperatorSteps
    /\ {"attempted_at_backend", "handled"} \subseteq Attempted \cap OperatorSteps
    /\ ToolSteps \cap OperatorSteps = {} /\ Unattempted \cap Attempted = {}
    /\ {"idle", "ended"} \cap (Unattempted \cup Attempted) = {}
BY DEF Unattempted, Attempted, ToolSteps, OperatorSteps

\* What a refusal without a row changes.
LEMMA RefusedSound ==
    ASSUME GatewayInv, NEW c \in Callers, visit[c].at \in Unattempted, Ends(c, "refused"),
           UNCHANGED <<issuer, jwks, exchanged, effects, minute, trail>>
    PROVE  GatewayInv'
<1>1. Closes(c, "refused", FALSE) /\ KeySetSound(jwks', issuer.key, issuer.retired, minute)
    BY DEF Ends, GatewayInv
<1> QED
    BY <1>1, QuietStep

LEMMA PassBoundarySound == ASSUME GatewayInv, NEW c \in Callers, PassBoundary(c) PROVE GatewayInv'
<1>1. visit[c].at = "boundary" /\ visit[c].at \in Unattempted /\ UNCHANGED <<issuer, jwks, exchanged, effects, minute>>
    BY StepNames DEF PassBoundary
<1>2. CASE RecordedOrNot(c, "rejected", Ends(c, "refused"))
    BY <1>1, <1>2, OutcomeRecorded
<1>3. CASE Ends(c, "refused") /\ UNCHANGED trail
    BY <1>1, <1>3, RefusedSound
<1>4. CASE Moves(c, "proxied") /\ UNCHANGED trail
    <2>1. visit[c].told # "ok" /\ visit[c].ok = FALSE
        BY <1>1, NotYet
    <2> QED
        BY <1>1, <1>4, <2>1, StepNames, MovesOn
<1> QED
    BY <1>2, <1>3, <1>4 DEF PassBoundary

LEMMA AuthenticateSound == ASSUME GatewayInv, NEW c \in Callers, Authenticate(c) PROVE GatewayInv'
<1>1. visit[c].at = "proxied" /\ visit[c].at \in Unattempted /\ UNCHANGED <<issuer, jwks, exchanged, effects, minute>>
    BY StepNames DEF Authenticate
<1>2. CASE RecordedOrNot(c, "rejected", Ends(c, "refused"))
    BY <1>1, <1>2, OutcomeRecorded
<1>3. CASE Ends(c, "refused") /\ UNCHANGED trail
    BY <1>1, <1>3, RefusedSound
<1>4. CASE Moves(c, "admitted") /\ UNCHANGED trail
    <2>1. visit[c].told # "ok" /\ visit[c].ok = FALSE
        BY <1>1, NotYet
    <2> QED
        BY <1>1, <1>4, <2>1, StepNames, MovesOn
<1> QED
    BY <1>2, <1>3, <1>4 DEF Authenticate

LEMMA AttemptSensitiveSound == ASSUME GatewayInv, NEW c \in Callers, AttemptSensitive(c) PROVE GatewayInv'
<1>1. visit[c].at = "admitted" /\ visit[c].at \in Unattempted /\ UNCHANGED <<issuer, jwks, exchanged, effects, minute>>
    BY StepNames DEF AttemptSensitive
<1>2. /\ visit[c] \in VisitSet /\ KeySound(visit[c], issuer.key, issuer.retired, minute) /\ visit[c] # NoVisit
      /\ visit[c].kind = "operator" /\ visit[c].told # "ok" /\ visit[c].ok = FALSE
      /\ KeySetSound(jwks', issuer.key, issuer.retired, minute)
    BY <1>1, Arrived, NotYet, StepNames DEF GatewayInv
<1>3. CASE Closes(c, "error", TRUE) /\ UNCHANGED trail
    BY <1>1, <1>2, <1>3, QuietStep
<1>4. CASE WriteRow(c, "attempt") /\ Moves(c, "attempted_at_backend")
    <2>1. PICK v : v = [visit[c] EXCEPT !.at = "attempted_at_backend"]
        OBVIOUS
    <2>2. visit' = [visit EXCEPT ![c] = v]
        BY <1>4, <2>1 DEF Moves
    <2>3. v \in VisitSet
        <3>1. "attempted_at_backend" \in ToolSteps \cup OperatorSteps \cup {"ended"}
            BY StepNames
        <3> QED
            BY <1>2, <2>1, <3>1, Zenon DEF VisitSet
    <2>4. /\ v.at = "attempted_at_backend" /\ v.kind = visit[c].kind /\ v.token = visit[c].token
          /\ v.key = visit[c].key /\ v.since = visit[c].since /\ v.ok = visit[c].ok /\ v.told = visit[c].told
        BY <1>2, <2>1, Zenon DEF VisitSet
    <2>5. v.key <= issuer.key /\ v.since <= minute /\ v.at \in Attempted /\ v.at \notin ToolSteps /\ v.at # "calling"
        BY <1>2, <2>4, StepNames DEF KeySound
    <2> QED
        BY <1>1, <1>2, <1>4, <2>2, <2>3, <2>4, <2>5, AttemptRecorded
<1> QED
    BY <1>3, <1>4 DEF AttemptSensitive, RecordedOrNot

LEMMA HandleSound == ASSUME GatewayInv, NEW c \in Callers, Handle(c) PROVE GatewayInv'
<1>1. visit[c].at = "attempted_at_backend" /\ visit[c].at \in Attempted
      /\ UNCHANGED <<issuer, jwks, exchanged, trail, minute>>
    BY StepNames DEF Handle
<1>2. /\ visit[c] \in VisitSet /\ visit[c].kind = "operator" /\ visit[c].told # "ok" /\ visit[c].ok = FALSE
      /\ SubjectOf[visit[c].token] = User(c) /\ User(c) \in Subjects /\ OncePerUser(effects)
    BY <1>1, Arrived, NotYet, StepNames DEF GatewayInv
<1>3. CASE Moves(c, "handled") /\ UNCHANGED effects
    BY <1>1, <1>2, <1>3, StepNames, MovesOn
<1>4. CASE /\ Has(c, "ai:operate") /\ effects' = effects \cup {Effect(c, User(c))}
           /\ visit' = [visit EXCEPT ![c].at = "handled", ![c].ok = TRUE]
    <2>1. PICK v : v = [visit[c] EXCEPT !.at = "handled", !.ok = TRUE]
        OBVIOUS
    <2>2. visit' = [visit EXCEPT ![c] = v]
        BY <1>4, <2>1
    <2>3. v \in VisitSet
        <3>1. "handled" \in ToolSteps \cup OperatorSteps \cup {"ended"} /\ TRUE \in BOOLEAN
            BY StepNames
        <3> QED
            BY <1>2, <2>1, <3>1, Zenon DEF VisitSet
    <2>4. /\ v.at = "handled" /\ v.kind = visit[c].kind /\ v.token = visit[c].token
          /\ v.key = visit[c].key /\ v.since = visit[c].since /\ v.told = visit[c].told
        BY <1>2, <2>1, Zenon DEF VisitSet
    <2>5. PICK e : e = [id |-> c, kind |-> visit[c].kind, subject |-> User(c)]
        OBVIOUS
    <2>6. effects' = effects \cup {e}
        BY <1>4, <2>5 DEF Effect
    <2>7. e.id = c /\ e.kind = "operator" /\ e.subject = User(c) /\ e \in EffectSet
        BY <1>2, <2>5 DEF EffectSet
    <2>8. MayDo(c, e)
        BY <1>2, <1>4, <2>7 DEF MayDo, ScopeFor, Has
    <2>9. OncePerUser(effects')
        BY <1>2, <2>6, <2>7 DEF OncePerUser
    <2>10. DoneFor(v, effects')
        BY <1>2, <2>4, <2>6, <2>7 DEF DoneFor
    <2>11. Continues(visit[c], v)
        <3>1. v.at \in Attempted /\ v.at \notin ToolSteps
            BY <2>4, StepNames
        <3> QED
            BY <1>1, <1>2, <2>4, <3>1 DEF Continues
    <2>12. v.at \in {"called", "handled"} /\ v.at # "calling"
        BY <2>4
    <2> QED
        BY <1>1, <2>2, <2>3, <2>4, <2>6, <2>8, <2>9, <2>10, <2>11, <2>12, DoesSound
<1> QED
    BY <1>3, <1>4 DEF Handle

LEMMA ReportSensitiveSound == ASSUME GatewayInv, NEW c \in Callers, ReportSensitive(c) PROVE GatewayInv'
<1>1. visit[c].at \in Attempted /\ UNCHANGED <<issuer, jwks, exchanged, effects, minute>>
    BY StepNames DEF ReportSensitive
<1>2. CASE visit[c].ok /\ RecordedOrNot(c, "success", Ends(c, "ok"))
    BY <1>1, <1>2, OutcomeRecorded
<1>3. CASE \E outcome \in {"rejected", "error"} : RecordedOrNot(c, outcome, Ends(c, "error"))
    BY <1>1, <1>3, OutcomeRecorded
<1> QED
    BY <1>2, <1>3 DEF ReportSensitive

LEMMA BoundaryGivesUpSound == ASSUME GatewayInv, NEW c \in Callers, BoundaryGivesUp(c) PROVE GatewayInv'
<1>1. /\ visit[c].at \in InBackend /\ visit' = [visit EXCEPT ![c].told = "timeout"]
      /\ UNCHANGED <<issuer, jwks, exchanged, trail, effects, minute>>
    BY DEF BoundaryGivesUp
<1>2. /\ visit[c].at \in OperatorSteps /\ visit[c].at \in Unattempted \cup Attempted
      /\ visit[c].at \notin {"idle", "ended", "verified", "calling"}
    BY <1>1, StepNames DEF InBackend
<1>3. /\ visit[c] \in VisitSet /\ ReplyIsTrue(c, visit[c], trail, effects) /\ visit[c].kind = "operator"
      /\ KeySound(visit[c], issuer.key, issuer.retired, minute) /\ visit[c] # NoVisit
    BY <1>2, Arrived
<1>4. PICK v : v = [visit[c] EXCEPT !.told = "timeout"]
    OBVIOUS
<1>5. visit' = [visit EXCEPT ![c] = v]
    BY <1>1, <1>4
<1>6. v \in VisitSet
    <2>1. "timeout" \in {"nothing", "ok", "error", "refused", "timeout"}
        OBVIOUS
    <2> QED
        BY <1>3, <1>4, <2>1, Zenon DEF VisitSet
<1>7. /\ v.at = visit[c].at /\ v.kind = visit[c].kind /\ v.token = visit[c].token /\ v.key = visit[c].key
      /\ v.since = visit[c].since /\ v.ok = visit[c].ok /\ v.told = "timeout"
    BY <1>3, <1>4, Zenon DEF VisitSet
<1>8. Continues(visit[c], v)
    BY <1>2, <1>3, <1>7, StepNames DEF Continues
<1>9. KeySound(v, issuer.key, issuer.retired, minute)
    BY <1>3, <1>7 DEF KeySound
<1>10. v.ok => v.at \in {"called", "handled"} /\ DoneFor(v, effects)
    BY <1>3, <1>7 DEF ReplyIsTrue, DoneFor
<1>11. KeySetSound(jwks', issuer.key, issuer.retired, minute) /\ CacheSound(exchanged')
    BY <1>1 DEF GatewayInv
<1> QED
    BY <1>1, <1>2, <1>5, <1>6, <1>7, <1>8, <1>9, <1>10, <1>11, GoesOn

LEMMA RequestDiesSound == ASSUME GatewayInv, NEW c \in Callers, RequestDies(c) PROVE GatewayInv'
<1>1. visit[c].at \notin {"idle", "ended"} /\ Closes(c, "error", TRUE) /\ TRUE \in BOOLEAN
      /\ UNCHANGED <<issuer, jwks, exchanged, trail, effects, minute>>
    BY DEF RequestDies
<1>2. visit[c] \in VisitSet /\ KeySetSound(jwks', issuer.key, issuer.retired, minute)
    BY <1>1, Arrived DEF GatewayInv
<1>3. visit[c].at \in ToolSteps \cup OperatorSteps
    BY <1>1, <1>2 DEF VisitSet
<1>4. visit[c].at \in Unattempted \cup Attempted
    BY <1>3 DEF ToolSteps, OperatorSteps, Unattempted, Attempted
<1> QED
    BY <1>1, <1>2, <1>4, QuietStep

LEMMA GatewayStep == ASSUME GatewayInv, [GatewayNext]_gatewayVars PROVE GatewayInv'
<1>1. CASE UNCHANGED gatewayVars
    BY <1>1 DEF gatewayVars, GatewayInv
<1>2. CASE MinutePasses \/ KeyRotates
    BY <1>2, ClockSound, KeyRotatesSound
<1>3. ASSUME NEW c \in Callers,
             \/ Arrive(c) \/ VerifyToken(c) \/ InvokeTool(c) \/ LookUpExchange(c) \/ ExchangeToken(c) \/ CallTaskApi(c)
             \/ ReportTool(c)
      PROVE  GatewayInv'
    BY <1>3, ArriveSound, VerifyTokenSound, InvokeToolSound, LookUpExchangeSound, ExchangeTokenSound,
       CallTaskApiSound, ReportToolSound
<1>4. ASSUME NEW c \in Callers,
             \/ PassBoundary(c) \/ BoundaryGivesUp(c) \/ Authenticate(c) \/ AttemptSensitive(c)
             \/ Handle(c) \/ ReportSensitive(c) \/ RequestDies(c)
      PROVE  GatewayInv'
    BY <1>4, PassBoundarySound, BoundaryGivesUpSound, AuthenticateSound, AttemptSensitiveSound, HandleSound,
       ReportSensitiveSound, RequestDiesSound
<1> QED
    BY <1>1, <1>2, <1>3, <1>4 DEF GatewayNext

\* The rows of a request: the attempt and one outcome, at most.
LEMMA RowsCounted ==
    ASSUME GatewayInv, NEW c \in Callers, visit[c] # NoVisit
    PROVE  /\ Cardinality(RowsOf(trail, c) \ {"attempt"}) <= 1
           /\ visit[c].at = "ended" /\ "attempt" \in RowsOf(trail, c) /\ ~ visit[c].unaudited
                => Cardinality(RowsOf(trail, c)) = 2
<1>1. visit[c] \in VisitSet /\ RowsAreInStep(c, visit[c], trail)
    BY DEF GatewayInv, CallerSound
<1>2. visit[c].at \in Unattempted \cup Attempted \cup {"ended"}
    BY <1>1 DEF VisitSet, ToolSteps, OperatorSteps, Unattempted, Attempted
<1>3. PICK o \in {"success", "error", "rejected"} :
        /\ RowsOf(trail, c) \subseteq {"attempt", o}
        /\ visit[c].at = "ended" /\ "attempt" \in RowsOf(trail, c) /\ ~ visit[c].unaudited => o \in RowsOf(trail, c)
    <2>1. CASE visit[c].at = "ended"
        BY <1>1, <2>1 DEF RowsAreInStep, RowsAtTheEnd
    <2>2. CASE visit[c].at # "ended"
        BY <1>1, <1>2, <2>2 DEF RowsAreInStep
    <2> QED
        BY <2>1, <2>2
<1>4. Cardinality(RowsOf(trail, c) \ {"attempt"}) <= 1
    <2>1. IsFiniteSet({o}) /\ Cardinality({o}) = 1
        BY FS_Singleton
    <2>2. RowsOf(trail, c) \ {"attempt"} \in SUBSET {o}
        BY <1>3
    <2> QED
        BY <2>1, <2>2, FS_Subset
<1>5. ASSUME visit[c].at = "ended", "attempt" \in RowsOf(trail, c), ~ visit[c].unaudited
      PROVE  Cardinality(RowsOf(trail, c)) = 2
    <2>1. RowsOf(trail, c) = {"attempt"} \cup {o} /\ o \notin {"attempt"}
        BY <1>3, <1>5
    <2>2. IsFiniteSet({"attempt"}) /\ Cardinality({"attempt"}) = 1
        BY FS_Singleton
    <2>3. Cardinality({"attempt"} \cup {o}) = Cardinality({"attempt"}) + 1
        BY <2>1, <2>2, FS_AddElement
    <2> QED
        BY <2>1, <2>2, <2>3
<1> QED
    BY <1>4, <1>5

LEMMA EffectsAccounted ==
    ASSUME GatewayInv, NEW e \in effects
    PROVE  /\ [id |-> e.id, subject |-> e.subject, outcome |-> "attempt"] \in trail
           /\ \E t \in Tokens : SubjectOf[t] = e.subject /\ ScopeFor(e.kind) \in ScopesOf[t]
<1>1. PICK c \in Callers : e.id = c
    BY DEF GatewayInv, EffectSet
<1>2. visit[c] \in VisitSet /\ RowsAreInStep(c, visit[c], trail) /\ EffectsAreItsOwn(c, visit[c], trail, effects)
    BY <1>1 DEF GatewayInv, CallerSound
<1>3. PICK token : token = visit[c].token
    OBVIOUS
<1>4. /\ token \in Tokens /\ SubjectOf[token] = e.subject /\ ScopeFor(e.kind) \in ScopesOf[token]
      /\ "attempt" \in RowsOf(trail, c)
    <2>1. token \in Tokens
        BY <1>2, <1>3, Zenon DEF VisitSet
    <2> QED
        BY <1>1, <1>2, <1>3, <2>1 DEF EffectsAreItsOwn
<1>5. PICK r \in trail : r.id = c /\ r.outcome = "attempt"
    BY <1>4 DEF RowsOf
<1>6. r \in RowSet /\ r.subject = SubjectOf[token]
    BY <1>2, <1>3, <1>5 DEF GatewayInv, RowsAreInStep
<1>7. r = [id |-> e.id, subject |-> e.subject, outcome |-> "attempt"]
    BY <1>1, <1>4, <1>5, <1>6 DEF RowSet
<1> QED
    BY <1>4, <1>5, <1>7

LEMMA AccountsAreRight == ASSUME GatewayInv PROVE GatewayTypeOK /\ EffectsAreAccounted
<1>1. GatewayTypeOK
    <2>1. issuer.key \in {0, 1} /\ minute \in 0 .. LastMinute /\ jwks.keys \subseteq {0, 1}
        BY DEF GatewayInv, KeySetSound
    <2>2. Len(exchanged) \in 0 .. CacheSize
        BY GatewayConstants DEF GatewayInv, CacheSound
    <2>3. ASSUME NEW c \in Callers PROVE visit[c].told \in {"nothing", "ok", "error", "refused", "timeout"}
        <3>1. CASE visit[c] = NoVisit
            BY <3>1 DEF NoVisit
        <3>2. CASE visit[c] \in VisitSet
            BY <3>2, Zenon DEF VisitSet
        <3> QED
            BY <3>1, <3>2 DEF GatewayInv
    <2> QED
        BY <2>1, <2>2, <2>3 DEF GatewayTypeOK
<1>2. \A e \in effects :
        /\ [id |-> e.id, subject |-> e.subject, outcome |-> "attempt"] \in trail
        /\ \E t \in Tokens : SubjectOf[t] = e.subject
                              /\ (IF e.kind = "tool" THEN "tasks:write" ELSE "ai:operate") \in ScopesOf[t]
    BY EffectsAccounted DEF ScopeFor
<1>3. \A e, f \in effects : e.kind = "tool" /\ f.kind = "tool" /\ e.subject = f.subject => e = f
    BY DEF GatewayInv, OncePerUser
<1>4. \A r \in trail : Cardinality(RowsOf(trail, r.id) \ {"attempt"}) <= 1
    <2> SUFFICES ASSUME NEW r \in trail PROVE Cardinality(RowsOf(trail, r.id) \ {"attempt"}) <= 1
        OBVIOUS
    <2>1. PICK c \in Callers : r.id = c
        BY DEF GatewayInv, RowSet
    <2>2. visit[c] # NoVisit
        BY <2>1, NoVisitIdle DEF GatewayInv, CallerSound
    <2> QED
        BY <2>1, <2>2, RowsCounted
<1>5. ASSUME NEW c \in Callers, visit[c].at # "idle"
      PROVE  /\ visit[c].told = "ok" =>
                  /\ \E e \in effects : e.kind = visit[c].kind /\ e.subject = User(c)
                  /\ {"attempt", "success"} \subseteq RowsOf(trail, c)
             /\ visit[c].at = "ended" /\ "attempt" \in RowsOf(trail, c) /\ ~ visit[c].unaudited =>
                  Cardinality(RowsOf(trail, c)) = 2
             /\ visit[c].at = "calling" =>
                  visit[c].credential.subject = User(c) /\ visit[c].credential.scopes \subseteq ScopesOf[visit[c].token]
             /\ visit[c].at = "verified" /\ visit[c].key # issuer.key => visit[c].since < issuer.retired + KeyTtl
    <2>1. /\ visit[c] # NoVisit /\ SubjectOf[visit[c].token] = User(c)
          /\ ReplyIsTrue(c, visit[c], trail, effects) /\ KeySound(visit[c], issuer.key, issuer.retired, minute)
          /\ visit[c].at = "calling" => SameIdentity(visit[c].token, visit[c].credential)
        BY <1>5, Arrived
    <2>2. visit[c].told = "ok" =>
            /\ \E e \in effects : e.kind = visit[c].kind /\ e.subject = User(c)
            /\ {"attempt", "success"} \subseteq RowsOf(trail, c)
        BY <2>1 DEF ReplyIsTrue, DoneFor
    <2>3. visit[c].at = "calling" =>
            visit[c].credential.subject = User(c) /\ visit[c].credential.scopes \subseteq ScopesOf[visit[c].token]
        BY <2>1 DEF SameIdentity
    <2>4. visit[c].at = "verified" /\ visit[c].key # issuer.key => visit[c].since < issuer.retired + KeyTtl
        BY <2>1 DEF KeySound
    <2> QED
        BY <2>1, <2>2, <2>3, <2>4, RowsCounted
<1>6. EffectsAreAccounted
    BY <1>2, <1>3, <1>4, <1>5, Zenon DEF EffectsAreAccounted, RowsOf
<1> QED
    BY <1>1, <1>6

\* However calls, key rotations, audit failures, timeouts and deaths interleave
\* (server.py, oidc.py, token_exchange.py, http_boundary.py, audit.py): what was
\* done was attempted in the audit by a user who may do it, a tool's command once,
\* "ok" is heard only for what was done, and no call carries more than its token.
THEOREM GatewaySound == GatewaySpec => [](GatewayTypeOK /\ EffectsAreAccounted)
<1>1. GatewaySpec => []GatewayInv
    BY GatewayInitSound, GatewayStep, PTL DEF GatewaySpec
<1> QED
    BY <1>1, AccountsAreRight, PTL
-----------------------------------------------------------------------------
(* The extraction of documents: the files, the job and the child process.  *)

FileVersions == 0 .. Rewrites
Languages == {NoOcr, "pl", "en"}
AnyTrait == CommonTraits \cup PdfTraits \cup HtmlTraits \cup OoxmlTraits

FileSet == [trait : AnyTrait, injection : BOOLEAN, version : FileVersions]
JobSet == [at : {"inspected", "sent"}, number : Nat, source : Sources, ocr : Languages, refused : BOOLEAN,
           injection : BOOLEAN, checksum : FileVersions, disturbed : BOOLEAN]
RequestSet == [number : Nat, source : Sources, ocr : Languages]
AnswerSet == [number : Nat, status : PrimaryOutcomes, source : Sources, text : FileVersions,
              ocr : Languages, claims : Languages]
ConverterSet == [key : Languages, ocr : Languages]
ChildSet == [alive : BOOLEAN, request : RequestSet \cup {NoRequest}, answers : Seq(AnswerSet),
             converters : Seq(ConverterSet)]

SourceFilesSound(fs) ==
    /\ fs \in [Sources -> FileSet]
    /\ \A s \in Sources : fs[s].trait \in Traits(FormatOf[s])

\* What the worker knows of a file that was not replaced since it looked.
LooksWhole(j, content) ==
    /\ j.injection = content.injection
    /\ ~ j.refused => content.trait \in {"plain", "large"}
    /\ j.at = "sent" => content.trait = "plain" /\ j.checksum = content.version

\* Only what was not refused, with the OCR a human approved, is sent.
JobSound(j, fs, ended) ==
    /\ ended \in 0 .. MaxExtractions
    /\ j # NoJob0 =>
        /\ j \in JobSet /\ j.number = ended + 1 /\ ended < MaxExtractions
        /\ ~ j.disturbed => LooksWhole(j, fs[j.source])
        /\ j.at = "sent" => ~ j.refused /\ OcrApproved(j.source, j.checksum, j.ocr)

\* A request and an answer are this job's, never those of an earlier one.
RequestIsOfJob(request, j) ==
    request = [number |-> j.number, source |-> j.source, ocr |-> j.ocr]

AnswerSound(answer, j, fs) ==
    /\ answer \in AnswerSet /\ answer.number = j.number /\ answer.source = j.source
    /\ answer.ocr \in {NoOcr, j.ocr} /\ answer.claims = answer.ocr
    /\ ~ j.disturbed => answer.text = fs[j.source].version

\* A converter performs the OCR it is looked up by.
ConvertersSound(cache) ==
    /\ cache \in Seq(ConverterSet) /\ Len(cache) <= 4
    /\ \A i \in 1 .. Len(cache) : cache[i].ocr = cache[i].key

ChildSound(k, j, fs) ==
    /\ k \in ChildSet /\ ConvertersSound(k.converters)
    /\ k.request # NoRequest => k.alive /\ k.answers = <<>> /\ j.at = "sent" /\ RequestIsOfJob(k.request, j)
    /\ k.answers # <<>> => j.at = "sent" /\ Len(k.answers) = 1 /\ AnswerSound(k.answers[1], j, fs)

DocumentSound(d) ==
    /\ d.of = d.for /\ d.parsed = d.source
    /\ d.ocr \in {NoOcr, d.asked} /\ d.claims = d.ocr
    /\ OcrApproved(d.source, d.checksum, d.ocr)
    /\ ~ d.disturbed => d.text = d.checksum /\ d.trait = "plain" /\ d.injection = d.found

ExtractionInv ==
    /\ SourceFilesSound(files) /\ bundle \in {"approved", "drifted"}
    /\ JobSound(job, files, done)
    /\ ChildSound(child, job, files)
    /\ \A d \in ingested : DocumentSound(d)

LEMMA ExtractionInvImplies == ExtractionInv => ExtractionTypeOK /\ IngestsWhatWasApproved
<1> SUFFICES ASSUME ExtractionInv PROVE ExtractionTypeOK /\ IngestsWhatWasApproved
    OBVIOUS
<1>1. \A s \in Sources : files[s].trait \in Traits(FormatOf[s]) /\ files[s].version \in 0 .. Rewrites
    BY DEF ExtractionInv, SourceFilesSound, FileSet, FileVersions
<1>2. job.at \in {"idle", "inspected", "sent"} /\ done \in 0 .. MaxExtractions
    BY DEF ExtractionInv, JobSound, JobSet, NoJob0
<1>3. bundle \in {"approved", "drifted"} /\ Len(child.converters) <= 4
    BY DEF ExtractionInv, ChildSound, ConvertersSound
<1>4. IngestsWhatWasApproved
    BY DEF ExtractionInv, DocumentSound, IngestsWhatWasApproved
<1> QED
    BY <1>1, <1>2, <1>3, <1>4 DEF ExtractionTypeOK

\* A child that has just been stopped holds nothing.
LEMMA DeadChildSound == ASSUME NEW j, NEW fs PROVE ChildSound(DeadChild, j, fs)
<1>1. DeadChild.request = NoRequest /\ DeadChild.answers = <<>> /\ DeadChild.converters = <<>>
    BY DEF DeadChild
<1>2. DeadChild \in ChildSet
    BY DEF DeadChild, ChildSet
<1>3. ConvertersSound(<<>>)
    BY DEF ConvertersSound
<1> QED
    BY <1>1, <1>2, <1>3 DEF ChildSound

LEMMA ExtractionInitSound == ExtractionInit => ExtractionInv
<1> SUFFICES ASSUME ExtractionInit PROVE ExtractionInv
    OBVIOUS
<1>1. ASSUME NEW s \in Sources PROVE files[s] \in FileSet /\ files[s].trait \in Traits(FormatOf[s])
    <2>1. files[s] = [trait |-> "plain", injection |-> FALSE, version |-> 0]
        BY DEF ExtractionInit, Plain
    <2>2. "plain" \in AnyTrait /\ "plain" \in Traits(FormatOf[s]) /\ 0 \in FileVersions
        BY ExtractionConstants DEF AnyTrait, Traits, CommonTraits, FileVersions
    <2> QED
        BY <2>1, <2>2 DEF FileSet
<1>2. SourceFilesSound(files)
    BY <1>1 DEF ExtractionInit, SourceFilesSound
<1>3. JobSound(job, files, done)
    BY ExtractionConstants DEF ExtractionInit, JobSound
<1>4. ChildSound(child, job, files) /\ bundle = "approved" /\ ingested = {}
    BY DeadChildSound DEF ExtractionInit
<1> QED
    BY <1>2, <1>3, <1>4 DEF ExtractionInv

\* A file is refused by its inspection unless it is plain or only too large.
LEMMA InspectedFinds ==
    ASSUME NEW s \in Sources, files[s].trait \in Traits(FormatOf[s]), files[s].trait \notin {"plain", "large"}
    PROVE  Refused(Inspected(s))
<1>1. PICK content : content = files[s]
    OBVIOUS
<1>2. /\ PdfTraits \subseteq AnyTrait /\ HtmlTraits \subseteq AnyTrait
      /\ {"media", "pages", "budget", "secret", "incomplete", "malformed", "executable"} \subseteq Refusals
    BY DEF AnyTrait, Refusals
<1>3. Estimated(content) \subseteq Inspected(s)
    BY <1>1 DEF Inspected
<1>4. CASE content.trait \in {"heavy", "long", "other_media"}
    BY <1>2, <1>3, <1>4 DEF Estimated, Refused
<1>5. CASE content.trait = "secret"
    <2>1. "secret" \in InspectPdf(content) /\ "secret" \in InspectHtml(content) /\ "secret" \in InspectOoxml(content)
        BY <1>5 DEF InspectPdf, InspectHtml, InspectOoxml, Scanned
    <2>2. "secret" \in Inspected(s)
        BY <1>1, <2>1 DEF Inspected
    <2> QED
        BY <1>2, <2>2 DEF Refused
<1>6. CASE content.trait \notin CommonTraits
    <2>1. CASE FormatOf[s] = "pdf"
        <3>1. content.trait \in PdfTraits
            BY <1>1, <1>6, <2>1 DEF Traits
        <3>2. "incomplete" \in InspectPdf(content)
            BY <3>1 DEF PdfTraits, InspectPdf, FailedInspection
        <3> QED
            BY <1>1, <1>2, <2>1, <3>2 DEF Inspected, Refused
    <2>2. CASE FormatOf[s] = "html"
        <3>1. content.trait \in HtmlTraits
            BY <1>1, <1>6, <2>2 DEF Traits
        <3>2. "incomplete" \in InspectHtml(content)
            BY <3>1 DEF HtmlTraits, InspectHtml, FailedInspection
        <3> QED
            BY <1>1, <1>2, <2>2, <3>2 DEF Inspected, Refused
    <2>3. CASE FormatOf[s] = "ooxml"
        <3>1. content.trait \in OoxmlTraits
            BY <1>1, <1>6, <2>3 DEF Traits
        <3>2. InspectOoxml(content) \cap {"incomplete", "malformed", "executable"} # {}
            BY <3>1 DEF OoxmlTraits, InspectOoxml, FailedInspection
        <3>3. InspectOoxml(content) \subseteq Inspected(s)
            BY <1>1, <2>3 DEF Inspected
        <3> QED
            BY <1>2, <3>2, <3>3 DEF Refused
    <2> QED
        BY <2>1, <2>2, <2>3, ExtractionConstants
<1>7. CASE content.trait \in CommonTraits /\ content.trait \notin {"heavy", "long", "other_media", "secret"}
    BY <1>1, <1>7 DEF CommonTraits
<1> QED
    BY <1>4, <1>5, <1>6, <1>7

\* The fields of a job under way.
LEMMA JobFields ==
    ASSUME ExtractionInv, job.at # "idle"
    PROVE  /\ job \in JobSet /\ job # NoJob0 /\ job.source \in Sources /\ job.ocr \in Languages
           /\ job.number = done + 1 /\ job.number \in Nat /\ done \in Nat /\ done < MaxExtractions
           /\ ~ job.disturbed => LooksWhole(job, files[job.source])
           /\ job.at = "sent" => ~ job.refused /\ OcrApproved(job.source, job.checksum, job.ocr)
<1>1. job # NoJob0
    BY DEF NoJob0
<1>2. /\ job \in JobSet /\ job.number = done + 1 /\ done < MaxExtractions /\ done \in 0 .. MaxExtractions
      /\ ~ job.disturbed => LooksWhole(job, files[job.source])
      /\ job.at = "sent" => ~ job.refused /\ OcrApproved(job.source, job.checksum, job.ocr)
    BY <1>1 DEF ExtractionInv, JobSound
<1>3. done \in Nat
    BY <1>2, ExtractionConstants
<1> QED
    BY <1>1, <1>2, <1>3 DEF JobSet

\* No request and no answer is on the pipe unless a job waits for it.
LEMMA QuietPipe ==
    ASSUME ExtractionInv, job.at # "sent"
    PROVE  child \in ChildSet /\ ConvertersSound(child.converters) /\ child.request = NoRequest /\ child.answers = <<>>
BY DEF ExtractionInv, ChildSound

\* A job that ends leaves the pipe empty.
LEMMA JobEndedSound ==
    ASSUME ExtractionInv, job.at # "idle", Ended,
           NEW k \in ChildSet, ConvertersSound(k.converters), k.request = NoRequest, k.answers = <<>>
    PROVE  JobSound(job', files, done') /\ ChildSound(k, job', files)
<1>1. job' = NoJob0 /\ done' = done + 1 /\ done' \in 0 .. MaxExtractions
    BY JobFields, ExtractionConstants DEF Ended
<1> QED
    BY <1>1 DEF JobSound, ChildSound

LEMMA RewriteSound == ASSUME ExtractionInv, NEW s \in Sources, Rewrite(s) PROVE ExtractionInv'
<1>1. PICK trait \in Traits(FormatOf[s]), injection \in BOOLEAN :
        files' = [files EXCEPT ![s] = [trait |-> trait, injection |-> injection, version |-> files[s].version + 1]]
    BY DEF Rewrite
<1>2. /\ UNCHANGED <<bundle, child, ingested, done>> /\ files[s].version < Rewrites
      /\ job' = IF job.at # "idle" /\ job.source = s THEN [job EXCEPT !.disturbed = TRUE] ELSE job
    BY DEF Rewrite
<1>3. SourceFilesSound(files)
    BY DEF ExtractionInv
<1>4. PICK content : content = [trait |-> trait, injection |-> injection, version |-> files[s].version + 1]
    OBVIOUS
<1>5. content \in FileSet /\ content.trait \in Traits(FormatOf[s])
    <2>1. trait \in AnyTrait
        <3>1. CASE FormatOf[s] = "pdf"
            BY <3>1 DEF Traits, AnyTrait
        <3>2. CASE FormatOf[s] = "html"
            BY <3>2 DEF Traits, AnyTrait
        <3>3. CASE FormatOf[s] = "ooxml"
            BY <3>3 DEF Traits, AnyTrait
        <3> QED
            BY <3>1, <3>2, <3>3, ExtractionConstants
    <2>2. files[s].version \in FileVersions
        BY <1>3 DEF SourceFilesSound, FileSet
    <2>3. files[s].version + 1 \in FileVersions
        BY <1>2, <2>2, ExtractionConstants DEF FileVersions
    <2> QED
        BY <1>4, <2>1, <2>3 DEF FileSet
<1>6. SourceFilesSound(files')
    BY <1>1, <1>3, <1>4, <1>5 DEF SourceFilesSound
<1>7. \A t \in Sources : t # s => files'[t] = files[t]
    BY <1>1, <1>3 DEF SourceFilesSound
<1>8. CASE job.at # "idle" /\ job.source = s
    <2>1. PICK yes : yes = TRUE
        OBVIOUS
    <2>2. PICK j : j = [job EXCEPT !.disturbed = yes]
        OBVIOUS
    <2>3. job \in JobSet /\ job' = j
        BY <1>2, <1>8, <2>1, <2>2, JobFields
    <2>4. j \in JobSet
        BY <2>1, <2>2, <2>3, Zenon DEF JobSet
    <2>5. /\ j.disturbed = yes /\ j.number = job.number /\ j.at = job.at /\ j.refused = job.refused
          /\ j.source = job.source /\ j.ocr = job.ocr /\ j.checksum = job.checksum
        BY <2>2, <2>3, Zenon DEF JobSet
    <2>6. JobSound(j, files', done)
        <3>1. done \in 0 .. MaxExtractions
            BY DEF ExtractionInv, JobSound
        <3> QED
            BY <1>8, <2>1, <2>4, <2>5, <3>1, JobFields DEF JobSound
    <2>7. ChildSound(child, j, files')
        <3>1. ChildSound(child, job, files)
            BY DEF ExtractionInv
        <3>2. RequestIsOfJob(child.request, job) => RequestIsOfJob(child.request, j)
            BY <2>5 DEF RequestIsOfJob
        <3>3. AnswerSound(child.answers[1], job, files) => AnswerSound(child.answers[1], j, files')
            BY <2>1, <2>5 DEF AnswerSound
        <3> QED
            BY <2>5, <3>1, <3>2, <3>3 DEF ChildSound
    <2> QED
        BY <1>2, <1>6, <2>3, <2>6, <2>7 DEF ExtractionInv
<1>9. CASE ~ (job.at # "idle" /\ job.source = s)
    <2>1. job' = job
        BY <1>2, <1>9
    <2>2. job.at # "idle" => files'[job.source] = files[job.source]
        BY <1>7, <1>9, JobFields
    <2>3. JobSound(job, files', done)
        <3>1. CASE job = NoJob0
            BY <3>1 DEF ExtractionInv, JobSound
        <3>2. CASE job # NoJob0
            <4>1. job.at # "idle"
                BY <3>2 DEF ExtractionInv, JobSound, JobSet
            <4> QED
                BY <2>2, <4>1 DEF ExtractionInv, JobSound
        <3> QED
            BY <3>1, <3>2
    <2>4. ChildSound(child, job, files')
        <3>1. ChildSound(child, job, files)
            BY DEF ExtractionInv
        <3>2. job.at = "sent" => (AnswerSound(child.answers[1], job, files) => AnswerSound(child.answers[1], job, files'))
            BY <2>2 DEF AnswerSound
        <3> QED
            BY <3>1, <3>2 DEF ChildSound
    <2> QED
        BY <1>2, <1>6, <2>1, <2>3, <2>4 DEF ExtractionInv
<1> QED
    BY <1>8, <1>9

LEMMA InspectSound == ASSUME ExtractionInv, Inspect PROVE ExtractionInv'
<1>1. job.at = "idle" /\ done < MaxExtractions /\ UNCHANGED <<files, bundle, child, ingested, done>>
    BY DEF Inspect
<1>2. PICK s \in Sources, ocr \in Languages, flaws \in {{}} \cup {{f} : f \in PathFlaws} :
        job' = [at |-> "inspected", number |-> done + 1, source |-> s, ocr |-> ocr,
                refused |-> Refused(flaws \cup Inspected(s)), injection |-> files[s].injection,
                checksum |-> 0, disturbed |-> FALSE]
    BY DEF Inspect, Languages
<1>3. SourceFilesSound(files) /\ done \in Nat /\ done \in 0 .. MaxExtractions
    BY ExtractionConstants DEF ExtractionInv, JobSound
<1>4. PICK refused \in BOOLEAN : refused = Refused(flaws \cup Inspected(s))
    BY DEF Refused
<1>5. ~ refused => files[s].trait \in {"plain", "large"}
    <2>1. Refused(Inspected(s)) => refused
        BY <1>4 DEF Refused
    <2>2. files[s].trait \in Traits(FormatOf[s])
        BY <1>3 DEF SourceFilesSound
    <2> QED
        BY <2>1, <2>2, InspectedFinds
<1>6. PICK no : no = FALSE
    OBVIOUS
<1>7. job' = [at |-> "inspected", number |-> done + 1, source |-> s, ocr |-> ocr, refused |-> refused,
              injection |-> files[s].injection, checksum |-> 0, disturbed |-> no]
    BY <1>2, <1>4, <1>6, Zenon
<1>8. job' \in JobSet
    <2>1. files[s].injection \in BOOLEAN
        BY <1>3 DEF SourceFilesSound, FileSet
    <2>2. 0 \in FileVersions /\ done + 1 \in Nat
        BY <1>3, ExtractionConstants DEF FileVersions
    <2>3. no \in BOOLEAN /\ "inspected" \in {"inspected", "sent"}
        BY <1>6
    <2> QED
        BY <1>7, <2>1, <2>2, <2>3, Zenon DEF JobSet
<1>9. JobSound(job', files, done)
    <2>1. job'.at = "inspected" /\ job'.source = s /\ job'.refused = refused /\ job'.injection = files[s].injection
          /\ job'.number = done + 1
        BY <1>7
    <2>2. LooksWhole(job', files[job'.source])
        BY <1>5, <2>1 DEF LooksWhole
    <2> QED
        BY <1>1, <1>3, <1>8, <2>1, <2>2 DEF JobSound
<1>10. ChildSound(child, job', files)
    BY <1>1, QuietPipe DEF ChildSound
<1> QED
    BY <1>1, <1>9, <1>10 DEF ExtractionInv

LEMMA AuthorizeSound == ASSUME ExtractionInv, Authorize PROVE ExtractionInv'
<1>1. job.at = "inspected" /\ UNCHANGED <<files, bundle, ingested>>
    BY DEF Authorize
<1>2. CASE ~ Authorized
    <2>1. Ended /\ UNCHANGED child
        BY <1>2 DEF Authorize
    <2>2. JobSound(job', files, done') /\ ChildSound(child, job', files)
        BY <1>1, <2>1, JobEndedSound, QuietPipe
    <2> QED
        BY <1>1, <2>1, <2>2 DEF ExtractionInv
<1>3. CASE Authorized
    <2>1. PICK version : version = files[job.source].version
        OBVIOUS
    <2>2. PICK j : j = [job EXCEPT !.at = "sent", !.checksum = version]
        OBVIOUS
    <2>3. PICK request : request = [number |-> job.number, source |-> job.source, ocr |-> job.ocr]
        OBVIOUS
    <2>4. PICK yes : yes = TRUE
        OBVIOUS
    <2>5. PICK base : base = IF child.alive THEN child ELSE [DeadChild EXCEPT !.alive = yes]
        OBVIOUS
    <2>6. PICK k : k = [base EXCEPT !.request = request]
        OBVIOUS
    <2>7. job' = j /\ child' = k /\ done' = done
        BY <1>3, <2>1, <2>2, <2>3, <2>4, <2>5, <2>6 DEF Authorize
    <2>8. /\ job \in JobSet /\ job.source \in Sources /\ job.ocr \in Languages /\ job.number \in Nat
          /\ job.number = done + 1 /\ done < MaxExtractions /\ done \in 0 .. MaxExtractions
          /\ ~ job.disturbed => LooksWhole(job, files[job.source])
        BY <1>1, JobFields, ExtractionConstants
    <2>9. version \in FileVersions /\ "sent" \in {"inspected", "sent"}
        BY <2>1, <2>8 DEF ExtractionInv, SourceFilesSound, FileSet
    <2>10. j \in JobSet
        BY <2>2, <2>8, <2>9, Zenon DEF JobSet
    <2>11. /\ j.at = "sent" /\ j.checksum = version /\ j.number = job.number /\ j.source = job.source
           /\ j.ocr = job.ocr /\ j.refused = job.refused /\ j.injection = job.injection /\ j.disturbed = job.disturbed
        BY <2>2, <2>8, Zenon DEF JobSet
    <2>12. ~ job.refused /\ OcrApproved(job.source, version, job.ocr) /\ files[job.source].trait # "large"
        <3>1. files[job.source].trait = "large" => Refused({"bytes"})
            BY DEF Refused, Refusals
        <3> QED
            BY <1>3, <2>1, <3>1 DEF Authorized
    <2>13. JobSound(j, files, done)
        <3>1. ~ j.disturbed => LooksWhole(j, files[j.source])
            BY <2>1, <2>8, <2>11, <2>12 DEF LooksWhole
        <3> QED
            BY <2>8, <2>10, <2>11, <2>12, <3>1 DEF JobSound
    <2>14. /\ base \in ChildSet /\ base.alive = yes /\ base.answers = <<>> /\ ConvertersSound(base.converters)
        <3>1. CASE child.alive
            <4>1. child \in ChildSet /\ ConvertersSound(child.converters) /\ child.answers = <<>>
                BY <1>1, QuietPipe
            <4>2. child.alive = TRUE
                BY <3>1, <4>1 DEF ChildSet
            <4> QED
                BY <2>4, <2>5, <3>1, <4>1, <4>2
        <3>2. CASE ~ child.alive
            <4>1. /\ DeadChild \in ChildSet /\ DeadChild.answers = <<>> /\ DeadChild.converters = <<>>
                  /\ ConvertersSound(DeadChild.converters) /\ DeadChild.request = NoRequest
                BY DeadChildSound DEF ChildSound, DeadChild
            <4>2. base = [DeadChild EXCEPT !.alive = yes] /\ yes \in BOOLEAN
                BY <2>4, <2>5, <3>2
            <4>3. base \in ChildSet
                BY <4>1, <4>2, Zenon DEF ChildSet
            <4>4. base.alive = yes /\ base.answers = DeadChild.answers /\ base.converters = DeadChild.converters
                BY <4>1, <4>2, Zenon DEF ChildSet
            <4> QED
                BY <4>1, <4>3, <4>4
        <3> QED
            BY <3>1, <3>2
    <2>15. request \in RequestSet \cup {NoRequest}
        BY <2>3, <2>8 DEF RequestSet
    <2>16. k \in ChildSet
        BY <2>6, <2>14, <2>15, Zenon DEF ChildSet
    <2>17. k.request = request /\ k.alive = base.alive /\ k.answers = base.answers /\ k.converters = base.converters
        BY <2>6, <2>14, Zenon DEF ChildSet
    <2>18. ChildSound(k, j, files)
        <3>1. RequestIsOfJob(k.request, j)
            BY <2>3, <2>11, <2>17 DEF RequestIsOfJob
        <3>2. k.alive /\ k.answers = <<>> /\ ConvertersSound(k.converters)
            BY <2>4, <2>14, <2>17
        <3> QED
            BY <2>11, <2>16, <3>1, <3>2 DEF ChildSound
    <2> QED
        BY <1>1, <2>7, <2>13, <2>18 DEF ExtractionInv
<1> QED
    BY <1>2, <1>3

LEMMA GiveUpSound == ASSUME ExtractionInv, GiveUp PROVE ExtractionInv'
<1>1. job.at = "sent" /\ child' = DeadChild /\ Ended /\ UNCHANGED <<files, bundle, ingested>>
    BY DEF GiveUp, StoppedChild
<1>2. DeadChild \in ChildSet /\ ConvertersSound(DeadChild.converters) /\ DeadChild.request = NoRequest
      /\ DeadChild.answers = <<>>
    BY DeadChildSound DEF ChildSound, DeadChild
<1>3. JobSound(job', files, done') /\ ChildSound(DeadChild, job', files)
    BY <1>1, <1>2, JobEndedSound
<1> QED
    BY <1>1, <1>3 DEF ExtractionInv

\* The one answer on the pipe is read: it is the answer to this job.
LEMMA ReceiveSound == ASSUME ExtractionInv, Receive PROVE ExtractionInv'
<1>1. job.at = "sent" /\ child.answers # <<>> /\ Ended /\ UNCHANGED <<files, bundle>>
    BY DEF Receive
<1>2. PICK answer : answer = Head(child.answers)
    OBVIOUS
<1>3. PICK next : next = [child EXCEPT !.answers = Tail(child.answers)]
    OBVIOUS
<1>4. /\ child' = IF answer.status \in {"memory", "budget"} THEN DeadChild ELSE next
      /\ ingested' = IF answer.status = "ok" THEN ingested \cup {Document(answer)} ELSE ingested
    BY <1>2, <1>3 DEF Receive, StoppedChild
<1>5. /\ child \in ChildSet /\ ConvertersSound(child.converters) /\ child.request = NoRequest
      /\ Len(child.answers) = 1 /\ AnswerSound(child.answers[1], job, files)
    BY <1>1 DEF ExtractionInv, ChildSound
<1>6. /\ ~ job.disturbed => LooksWhole(job, files[job.source])
      /\ ~ job.refused /\ OcrApproved(job.source, job.checksum, job.ocr)
    BY <1>1, JobFields
<1>7. answer = child.answers[1] /\ Tail(child.answers) = <<>>
    <2>1. child.answers \in Seq(AnswerSet)
        BY <1>5 DEF ChildSet
    <2>2. Head(child.answers) = child.answers[1]
        BY <1>1, <2>1
    <2>3. Tail(child.answers) \in Seq(AnswerSet) /\ Len(Tail(child.answers)) = 0
        BY <1>1, <1>5, <2>1, HeadTailProperties
    <2>4. Tail(child.answers) = <<>>
        BY <2>3, EmptySeq
    <2> QED
        BY <1>2, <2>2, <2>4
<1>8. /\ next \in ChildSet /\ next.answers = <<>> /\ next.converters = child.converters /\ next.request = NoRequest
    <2>1. <<>> \in Seq(AnswerSet)
        OBVIOUS
    <2>4. next = [child EXCEPT !.answers = <<>>]
        BY <1>3, <1>7, Zenon
    <2>2. next \in ChildSet
        BY <1>5, <2>4, <2>1, Zenon DEF ChildSet
    <2>3. next.answers = <<>> /\ next.converters = child.converters /\ next.request = child.request
        BY <1>5, <2>4, Zenon DEF ChildSet
    <2> QED
        BY <1>5, <2>2, <2>3
<1>9. JobSound(job', files, done') /\ ChildSound(child', job', files)
    <2>1. DeadChild \in ChildSet /\ ConvertersSound(DeadChild.converters) /\ DeadChild.request = NoRequest
          /\ DeadChild.answers = <<>>
        BY DeadChildSound DEF ChildSound, DeadChild
    <2>2. CASE child' = DeadChild
        BY <1>1, <2>1, <2>2, JobEndedSound
    <2>3. CASE child' = next
        BY <1>1, <1>5, <1>8, <2>3, JobEndedSound
    <2> QED
        BY <1>4, <2>2, <2>3
<1>10. DocumentSound(Document(answer))
    <2>1. PICK d : d = Document(answer)
        OBVIOUS
    <2>2. /\ d.for = job.number /\ d.of = answer.number /\ d.source = job.source /\ d.checksum = job.checksum
          /\ d.parsed = answer.source /\ d.text = answer.text /\ d.injection = job.injection
          /\ d.asked = job.ocr /\ d.ocr = answer.ocr /\ d.claims = answer.claims
          /\ d.trait = files[job.source].trait /\ d.found = files[job.source].injection
        BY <2>1 DEF Document
    <2>3. d.disturbed = job.disturbed
        BY <2>1, Zenon DEF Document
    <2>4. /\ answer.number = job.number /\ answer.source = job.source /\ answer.ocr \in {NoOcr, job.ocr}
          /\ answer.claims = answer.ocr
          /\ ~ job.disturbed => answer.text = files[job.source].version
        BY <1>5, <1>7 DEF AnswerSound
    <2>5. OcrApproved(d.source, d.checksum, d.ocr)
        BY <1>6, <2>2, <2>4 DEF OcrApproved
    <2>6. ~ d.disturbed => d.text = d.checksum /\ d.trait = "plain" /\ d.injection = d.found
        BY <1>1, <1>6, <2>2, <2>3, <2>4 DEF LooksWhole
    <2> QED
        BY <2>1, <2>2, <2>4, <2>5, <2>6 DEF DocumentSound
<1>11. \A d \in ingested' : DocumentSound(d)
    BY <1>4, <1>10 DEF ExtractionInv
<1> QED
    BY <1>1, <1>9, <1>11 DEF ExtractionInv

LEMMA CloseChildSound == ASSUME ExtractionInv, CloseChild PROVE ExtractionInv'
<1>1. child' = DeadChild /\ UNCHANGED <<files, bundle, job, ingested, done>>
    BY DEF CloseChild, StoppedChild
<1>2. ChildSound(DeadChild, job, files)
    BY DeadChildSound
<1> QED
    BY <1>1, <1>2 DEF ExtractionInv

\* What the cached converter, or a new one for it, does with a request.
LEMMA ConverterSound ==
    ASSUME ConvertersSound(child.converters), NEW request \in RequestSet
    PROVE  /\ Cached(request) \in SUBSET (DOMAIN child.converters)
           /\ Converter(request) \in ConverterSet
           /\ Converter(request).ocr = request.ocr /\ Converter(request).key = request.ocr
<1>1. /\ child.converters \in Seq(ConverterSet) /\ DOMAIN child.converters = 1 .. Len(child.converters)
      /\ \A i \in DOMAIN child.converters : /\ child.converters[i] \in ConverterSet
                                            /\ child.converters[i].ocr = child.converters[i].key
    BY DEF ConvertersSound
<1>2. Cached(request) \in SUBSET (DOMAIN child.converters)
    BY DEF Cached
<1>3. CASE Cached(request) # {}
    <2>1. PICK i : i = CHOOSE k \in Cached(request) : TRUE
        OBVIOUS
    <2>2. i \in DOMAIN child.converters /\ child.converters[i].key = request.ocr
        BY <1>3, <2>1 DEF Cached, ConverterKey
    <2>3. Converter(request) = child.converters[i]
        BY <1>3, <2>1 DEF Converter
    <2> QED
        BY <1>1, <1>2, <2>2, <2>3
<1>4. CASE Cached(request) = {}
    <2>1. Converter(request) = [key |-> request.ocr, ocr |-> request.ocr] /\ request.ocr \in Languages
        BY <1>4 DEF Converter, ConverterKey, RequestSet
    <2> QED
        BY <1>2, <2>1 DEF ConverterSet
<1> QED
    BY <1>3, <1>4

LEMMA RememberedSound ==
    ASSUME ConvertersSound(child.converters), NEW request \in RequestSet
    PROVE  ConvertersSound(Remembered(request))
<1>1. PICK n : n = Len(child.converters)
    OBVIOUS
<1>2. PICK fewer : fewer = Dropped(child.converters, Cached(request))
    OBVIOUS
<1>3. PICK last : last = Converter(request)
    OBVIOUS
<1>4. PICK longer : longer = Append(fewer, last)
    OBVIOUS
<1>5. PICK kept : kept = Limited(longer, 4)
    OBVIOUS
<1>6. Remembered(request) = kept
    BY <1>2, <1>3, <1>4, <1>5 DEF Remembered
<1>7. /\ child.converters \in Seq(ConverterSet) /\ n \in Nat /\ n <= 4
      /\ \A i \in 1 .. n : child.converters[i].ocr = child.converters[i].key
    BY <1>1 DEF ConvertersSound
<1>8. last \in ConverterSet /\ last.ocr = last.key
    BY <1>3, ConverterSound
<1>9. /\ fewer \in Seq(ConverterSet) /\ Len(fewer) <= n
      /\ \A k \in 1 .. Len(fewer) : \E m \in 1 .. n : fewer[k] = child.converters[m]
    BY <1>1, <1>2, <1>7, ConverterSound, DroppedSound
<1>10. /\ longer \in Seq(ConverterSet) /\ Len(longer) = Len(fewer) + 1 /\ Len(fewer) \in Nat
       /\ \A k \in 1 .. Len(fewer) : longer[k] = fewer[k]
       /\ longer[Len(fewer) + 1] = last
    BY <1>4, <1>8, <1>9
<1>11. ASSUME NEW k \in 1 .. Len(longer) PROVE longer[k].ocr = longer[k].key
    <2>1. CASE k = Len(fewer) + 1
        BY <1>8, <1>10, <2>1
    <2>2. CASE k # Len(fewer) + 1
        <3>1. k \in 1 .. Len(fewer) /\ longer[k] = fewer[k]
            BY <1>10, <2>2
        <3> QED
            BY <1>7, <1>9, <3>1
    <2> QED
        BY <2>1, <2>2
<1>12. /\ kept \in Seq(ConverterSet) /\ Len(kept) <= 4
       /\ \A k \in 1 .. Len(kept) : \E m \in 1 .. Len(longer) : kept[k] = longer[m]
    <2>1. Len(longer) <= 4 + 1 /\ 4 \in Nat
        BY <1>7, <1>9, <1>10
    <2> QED
        BY <1>5, <1>10, <2>1, LimitedSound
<1>13. \A k \in 1 .. Len(kept) : kept[k].ocr = kept[k].key
    BY <1>11, <1>12
<1> QED
    BY <1>6, <1>12, <1>13 DEF ConvertersSound

\* Whatever the parsers do, the answer names its request and owns up to its OCR.
LEMMA AnswersSound ==
    ASSUME ExtractionInv, child.request # NoRequest,
           NEW primary \in PrimaryOutcomes, NEW fallback \in FallbackOutcomes
    PROVE  AnswerSound(Answers(primary, fallback), job, files)
<1>1. PICK r : r = child.request
    OBVIOUS
<1>2. /\ r \in RequestSet /\ job.at = "sent" /\ ConvertersSound(child.converters)
      /\ r.number = job.number /\ r.source = job.source /\ r.ocr = job.ocr
    <2>1. r \in RequestSet /\ job.at = "sent" /\ RequestIsOfJob(r, job) /\ ConvertersSound(child.converters)
        BY <1>1 DEF ExtractionInv, ChildSound, ChildSet
    <2> QED
        BY <2>1 DEF RequestIsOfJob
<1>3. Converter(r).ocr = job.ocr
    BY <1>2, ConverterSound
<1>4. /\ job.source \in Sources /\ job.number \in Nat /\ job.ocr \in Languages /\ NoOcr \in Languages
      /\ files[job.source].version \in FileVersions
    BY <1>2, JobFields DEF Languages, ExtractionInv, SourceFilesSound, FileSet
<1>5. ASSUME NEW status \in PrimaryOutcomes, NEW extractor \in {"docling", "unstructured"}
      PROVE  AnswerSound(Answer(status, extractor), job, files)
    <2>1. PICK ocr : ocr = IF extractor = "docling" THEN job.ocr ELSE NoOcr
        OBVIOUS
    <2>2. Answer(status, extractor) = [number |-> job.number, status |-> status, source |-> job.source,
                                       text |-> files[job.source].version, ocr |-> ocr, claims |-> ocr]
        <3>1. CASE extractor = "docling"
            BY <1>1, <1>2, <1>3, <2>1, <3>1 DEF Answer
        <3>2. CASE extractor # "docling"
            BY <1>1, <1>2, <2>1, <3>2 DEF Answer
        <3> QED
            BY <3>1, <3>2
    <2>3. ocr \in Languages /\ ocr \in {NoOcr, job.ocr}
        BY <1>4, <2>1
    <2> QED
        BY <1>4, <2>2, <2>3 DEF AnswerSound, AnswerSet
<1>6. "failed" \in PrimaryOutcomes /\ fallback \in PrimaryOutcomes
    BY DEF PrimaryOutcomes, FallbackOutcomes
<1>7. Answers(primary, fallback) \in {Answer("failed", "docling"), Answer(fallback, "unstructured"),
                                      Answer(primary, "docling")}
    BY DEF Answers
<1> QED
    BY <1>5, <1>6, <1>7

LEMMA ParseSound == ASSUME ExtractionInv, Parse PROVE ExtractionInv'
<1>1. child.request # NoRequest /\ UNCHANGED <<files, bundle, job, ingested, done>>
    BY DEF Parse
<1>2. PICK answer \in PossibleAnswers :
        child' = [child EXCEPT !.request = NoRequest,
                    !.answers = Append(child.answers, answer),
                    !.converters = IF bundle = "drifted" /\ Cached(child.request) = {}
                                   THEN child.converters ELSE Remembered(child.request)]
    BY DEF Parse
<1>3. /\ child \in ChildSet /\ child.request \in RequestSet /\ child.answers = <<>> /\ job.at = "sent"
      /\ ConvertersSound(child.converters)
    BY <1>1 DEF ExtractionInv, ChildSound, ChildSet
<1>4. \E primary \in PrimaryOutcomes, fallback \in FallbackOutcomes : answer = Answers(primary, fallback)
    BY DEF PossibleAnswers
<1>5. AnswerSound(answer, job, files) /\ answer \in AnswerSet
    BY <1>1, <1>4, AnswersSound DEF AnswerSound
<1>6. PICK converters : converters = IF bundle = "drifted" /\ Cached(child.request) = {}
                                     THEN child.converters ELSE Remembered(child.request)
    OBVIOUS
<1>7. ConvertersSound(converters)
    BY <1>3, <1>6, RememberedSound
<1>8. PICK answers : answers = Append(child.answers, answer)
    OBVIOUS
<1>9. answers \in Seq(AnswerSet) /\ Len(answers) = 1 /\ answers[1] = answer
    BY <1>3, <1>5, <1>8
<1>10. PICK k : k = [child EXCEPT !.request = NoRequest, !.answers = answers, !.converters = converters]
    OBVIOUS
<1>11. child' = k
    BY <1>2, <1>6, <1>8, <1>10, Zenon
<1>12. k \in ChildSet
    <2>1. converters \in Seq(ConverterSet) /\ NoRequest \in RequestSet \cup {NoRequest}
        BY <1>7 DEF ConvertersSound
    <2> QED
        BY <1>3, <1>9, <1>10, <2>1, Zenon DEF ChildSet
<1>13. k.request = NoRequest /\ k.answers = answers /\ k.converters = converters
    BY <1>3, <1>10, Zenon DEF ChildSet
<1>14. ChildSound(k, job, files)
    BY <1>3, <1>5, <1>7, <1>9, <1>12, <1>13 DEF ChildSound
<1> QED
    BY <1>1, <1>11, <1>14 DEF ExtractionInv

LEMMA ChildDiesSound == ASSUME ExtractionInv, ChildDies PROVE ExtractionInv'
<1>1. UNCHANGED <<files, bundle, job, ingested, done>>
    BY DEF ChildDies
<1>2. PICK no : no = FALSE
    OBVIOUS
<1>3. PICK k : k = [child EXCEPT !.alive = no, !.request = NoRequest, !.converters = <<>>]
    OBVIOUS
<1>4. child' = k
    BY <1>2, <1>3 DEF ChildDies
<1>5. child \in ChildSet /\ ChildSound(child, job, files)
    BY DEF ExtractionInv, ChildSound
<1>6. no \in BOOLEAN /\ NoRequest \in RequestSet \cup {NoRequest}
    BY <1>2
<1>11. <<>> \in Seq(ConverterSet)
    OBVIOUS
<1>7. k \in ChildSet
    BY <1>3, <1>5, <1>6, <1>11, Zenon DEF ChildSet
<1>8. k.request = NoRequest /\ k.answers = child.answers /\ k.converters = <<>>
    BY <1>3, <1>5, Zenon DEF ChildSet
<1>9. ConvertersSound(<<>>)
    BY DEF ConvertersSound
<1>10. ChildSound(k, job, files)
    BY <1>5, <1>7, <1>8, <1>9 DEF ChildSound
<1> QED
    BY <1>1, <1>4, <1>10 DEF ExtractionInv

LEMMA ExtractionStepSound == ExtractionInv /\ [ExtractionNext]_extractionVars => ExtractionInv'
<1> SUFFICES ASSUME ExtractionInv, [ExtractionNext]_extractionVars PROVE ExtractionInv'
    OBVIOUS
<1>1. ASSUME NEW s \in Sources, Rewrite(s) PROVE ExtractionInv'
    BY <1>1, RewriteSound
<1>2. CASE BundleDrifts
    BY <1>2 DEF BundleDrifts, ExtractionInv
<1>3. CASE Inspect
    BY <1>3, InspectSound
<1>4. CASE Authorize
    BY <1>4, AuthorizeSound
<1>5. CASE GiveUp
    BY <1>5, GiveUpSound
<1>6. CASE Receive
    BY <1>6, ReceiveSound
<1>7. CASE CloseChild
    BY <1>7, CloseChildSound
<1>8. CASE Parse
    BY <1>8, ParseSound
<1>9. CASE ChildDies
    BY <1>9, ChildDiesSound
<1>10. CASE UNCHANGED extractionVars
    BY <1>10 DEF extractionVars, ExtractionInv
<1> QED
    BY <1>1, <1>2, <1>3, <1>4, <1>5, <1>6, <1>7, <1>8, <1>9, <1>10 DEF ExtractionNext

\* What is handed to the ingestion is the parser's answer to the request it was
\* asked for, with the OCR a human approved, and the text of an undisturbed file
\* is the text that was inspected and authorized.
THEOREM ExtractionSound == ExtractionSpec => [](ExtractionTypeOK /\ IngestsWhatWasApproved)
<1>1. ExtractionSpec => []ExtractionInv
    BY ExtractionInitSound, ExtractionStepSound, PTL DEF ExtractionSpec
<1> QED
    BY <1>1, ExtractionInvImplies, PTL
================================================================================
