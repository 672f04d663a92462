------------------------------ MODULE Promotion ------------------------------
(***************************************************************************)
(* The rollout pointer of the AI phases: operators move a phase forward or *)
(* roll the pointer back, under a file lock, with audit records before and *)
(* history files beside the pointer; the response router reads it.         *)
(*                                                                         *)
(* The process may die between any two writes, the audit database may be   *)
(* away, approvals expire. A report or an approval is abstracted to what   *)
(* the gates tell apart.                                                   *)
(***************************************************************************)
EXTENDS Naturals, Sequences

CONSTANTS
    WorkflowOf,   \* verified candidates and their workflows
    Serving,      \* the candidate the response runtime serves
    MaxPointerRevision,  \* bound: revisions of the pointer
    MaxNow        \* bound: expiry periods

ASSUME PromotionConstants == {MaxPointerRevision, MaxNow} \subseteq Nat

VARIABLES
    pointer,  \* current.json
    history,  \* history[r]: r.json
    op,       \* the operator command that has the lock
    now,      \* the clock, in periods of an approval
    granted,  \* history variable: the owner's approvals of response candidates
    lineage   \* history variable: the pointers that led to the current one

promotionVars == <<pointer, history, op, now, granted, lineage>>

-----------------------------------------------------------------------------
Phases == {"retrieval", "generation", "response", "mag"}
Modes == {"disabled", "shadow", "canary", "enabled"}
Candidates == DOMAIN WorkflowOf
NoCandidate == "no candidate"

Transitions == [disabled |-> {"shadow"}, shadow |-> {"canary"}, canary |-> {"enabled"}, enabled |-> {}]

PhaseWorkflow(ph) == IF ph = "retrieval" THEN "ragops" ELSE "llmops"

Dependencies == [retrieval |-> {}, generation |-> {"retrieval"},
                 response |-> {"retrieval", "generation"}, mag |-> {"response"}]

PhaseState == [mode : Modes, candidate : Candidates \cup {NoCandidate},
               percent : {0, 50, 100}, until : 0 .. MaxNow + 1]

Pointer == [revision : 0 .. MaxPointerRevision, previous : 0 .. MaxPointerRevision \cup {MaxPointerRevision + 1},
            phases : [Phases -> PhaseState]]

\* previous_revision of the first pointer: none.
NoPrevious == MaxPointerRevision + 1
Missing == [file |-> "missing"]
Torn == [file |-> "torn"]

FirstPointer == [revision |-> 0, previous |-> NoPrevious,
    phases |-> [ph \in Phases |->
        [mode |-> "disabled", candidate |-> NoCandidate, percent |-> 0, until |-> 0]]]

NoOp == [at |-> "idle", to |-> FirstPointer, from |-> FirstPointer]

PromotionInit ==
    /\ pointer = FirstPointer
    /\ history = [r \in 0 .. MaxPointerRevision |-> Missing]
    /\ op = NoOp
    /\ now = 0
    /\ granted = {}
    /\ lineage = <<FirstPointer>>

-----------------------------------------------------------------------------
(* Evidence.                                                               *)

\* The snapshot of a phase in the quality monitor.
Snapshots == {"missing", "without samples", "drifted", "slice drifted", "within limits"}

QualityStatus(snapshots) == IF \A s \in snapshots : s = "within limits" THEN "green" ELSE "blocked"

\* A request whose evidence is in order but for at most one flaw.
Reports(c) ==
    LET good == [status |-> QualityStatus({"within limits"}), candidate |-> c,
                 intact |-> TRUE, holdout |-> TRUE, age |-> "fresh"]
    IN  {good, [good EXCEPT !.intact = FALSE], [good EXCEPT !.holdout = FALSE],
         [good EXCEPT !.age = "stale"], [good EXCEPT !.age = "future"]}
        \cup {[good EXCEPT !.status = QualityStatus({s})] : s \in Snapshots}
        \cup {[good EXCEPT !.candidate = d] : d \in Candidates}

Approvals(ph, c) ==
    LET good == [phase |-> ph, candidate |-> c, owner |-> TRUE, signed |-> TRUE,
                 made |-> "past", until |-> now + 1]
    IN  {good, [good EXCEPT !.until = now], [good EXCEPT !.owner = FALSE],
         [good EXCEPT !.signed = FALSE], [good EXCEPT !.made = "future"]}
        \cup {[good EXCEPT !.candidate = d] : d \in Candidates}

\* Mutant: a canary may have any share.
LegalAnyShare(p, ph, to, c, percent) ==
    /\ PhaseWorkflow(ph) = WorkflowOf[c]
    /\ to \in Transitions[p.phases[ph].mode]
    /\ \A d \in Dependencies[ph] : p.phases[d].mode # "disabled"
    /\ to = "shadow" => percent = 0

\* Mutant: the phases below are not looked at.
LegalAlone(p, ph, to, c, percent) ==
    /\ PhaseWorkflow(ph) = WorkflowOf[c]
    /\ to \in Transitions[p.phases[ph].mode]
    /\ to = "shadow" => percent = 0
    /\ to = "enabled" => percent = 100
    /\ to = "canary" => percent \in 1 .. 99

LegalTransition(p, ph, to, c, percent) ==
    /\ PhaseWorkflow(ph) = WorkflowOf[c]
    /\ to \in Transitions[p.phases[ph].mode]
    /\ \A d \in Dependencies[ph] : p.phases[d].mode # "disabled"
    /\ to = "shadow" => percent = 0
    /\ to = "enabled" => percent = 100
    /\ to = "canary" => percent \in 1 .. 99

QualityGate(report, ph, to, c) ==
    /\ report.status = "green" /\ report.candidate = c /\ report.intact
    /\ ph = "response" /\ to = "canary" => report.holdout
    /\ report.age = "fresh"

Exposes(ph, to) == ph = "response" /\ to \in {"canary", "enabled"}

ApprovalGate(approval, ph, to, c) ==
    /\ approval.phase = ph /\ approval.candidate = c
    /\ approval.owner /\ approval.made = "past"
    /\ Exposes(ph, to) => approval.until > now
    /\ approval.signed

-----------------------------------------------------------------------------
(* An operator command, under the lock.                                    *)

\* Mutant: the pointer leads back to the first one.
BackToTheFirst(p, ph, to, c, percent, approval) ==
    [revision |-> p.revision + 1, previous |-> 0,
     phases |-> [p.phases EXCEPT ![ph] =
        [mode |-> to, candidate |-> c, percent |-> percent,
         until |-> IF Exposes(ph, to) THEN approval.until ELSE 0]]]

Proposed(p, ph, to, c, percent, approval) ==
    [revision |-> p.revision + 1, previous |-> p.revision,
     phases |-> [p.phases EXCEPT ![ph] =
        [mode |-> to, candidate |-> c, percent |-> percent,
         until |-> IF Exposes(ph, to) THEN approval.until ELSE 0]]]

\* transition: audits the attempt, validates, audits the outcome. A refusal, and
\* an audit database that is away, leave everything as it is.
DecideTransition ==
    /\ op.at = "idle" /\ pointer.revision < MaxPointerRevision
    /\ \E ph \in Phases, to \in Modes, c \in Candidates, percent \in {0, 50, 100} :
         \E report \in Reports(c), approval \in Approvals(ph, c) :
            /\ LegalTransition(pointer, ph, to, c, percent)
            /\ QualityGate(report, ph, to, c)
            /\ ApprovalGate(approval, ph, to, c)
            /\ op' = [at |-> "decided", from |-> pointer,
                      to |-> Proposed(pointer, ph, to, c, percent, approval)]
            /\ granted' = IF Exposes(ph, to)
                          THEN granted \cup {[candidate |-> c, until |-> approval.until]} ELSE granted
    /\ UNCHANGED <<pointer, history, now, lineage>>

\* _write_history: an existing file must say the same.
HistoryAgrees(r, p) == history[r] \in {Missing, p}

\* The history file is created, then written.
BeginHistory ==
    /\ op.at = "decided"
    /\ IF HistoryAgrees(op.from.revision, op.from)
       THEN /\ op' = [op EXCEPT !.at = IF history[op.from.revision] = Missing THEN "archiving" ELSE "archived"]
            /\ history' = [history EXCEPT ![op.from.revision] = IF @ = Missing THEN Torn ELSE @]
       ELSE op' = NoOp /\ UNCHANGED history
    /\ UNCHANGED <<pointer, now, granted, lineage>>

EndHistory ==
    /\ op.at = "archiving"
    /\ op' = [op EXCEPT !.at = "archived"]
    /\ history' = [history EXCEPT ![op.from.revision] = op.from]
    /\ UNCHANGED <<pointer, now, granted, lineage>>

\* _write replaces the pointer atomically.
ApplyTransition ==
    /\ op.at = "archived"
    /\ pointer' = op.to
    /\ lineage' = Append(lineage, op.to)
    /\ op' = NoOp
    /\ UNCHANGED <<history, now, granted>>

Restorable(r) == r # NoPrevious /\ history[r] \notin {Missing, Torn}

\* rollback: reads the previous pointer, audits, writes it.
DecideRollback ==
    /\ op.at = "idle" /\ Restorable(pointer.previous)
    /\ op' = [at |-> "restoring", from |-> pointer, to |-> history[pointer.previous]]
    /\ UNCHANGED <<pointer, history, now, granted, lineage>>

ApplyRollback ==
    /\ op.at = "restoring"
    /\ pointer' = op.to
    /\ lineage' = SubSeq(lineage, 1, Len(lineage) - 1)
    /\ op' = NoOp
    /\ UNCHANGED <<history, now, granted>>

\* The process dies; the kernel releases its lock.
ControllerDies ==
    /\ op.at # "idle"
    /\ op' = NoOp
    /\ UNCHANGED <<pointer, history, now, granted, lineage>>

TimePasses ==
    /\ now < MaxNow
    /\ now' = now + 1
    /\ UNCHANGED <<pointer, history, op, granted, lineage>>

PromotionNext ==
    \/ DecideTransition \/ BeginHistory \/ EndHistory \/ ApplyTransition
    \/ DecideRollback \/ ApplyRollback \/ ControllerDies \/ TimePasses

PromotionSpec == PromotionInit /\ [][PromotionNext]_promotionVars

-----------------------------------------------------------------------------
(* The response router.                                                    *)

\* ResponseCanaryRouter.evaluate for a user whose bucket is given, in percent.
Allowed(bucket) ==
    LET r == pointer.phases["response"] IN
    /\ r.candidate = Serving
    /\ r.until > now
    /\ r.mode = "enabled" \/ (r.mode = "canary" /\ bucket < r.percent)

-----------------------------------------------------------------------------
PromotionTypeOK ==
    /\ pointer \in Pointer
    /\ history \in [0 .. MaxPointerRevision -> Pointer \cup {Missing, Torn}]
    /\ op \in [at : {"idle", "decided", "archiving", "archived", "restoring"}, to : Pointer, from : Pointer]
    /\ now \in 0 .. MaxNow
    /\ \A ph \in Phases : pointer.phases[ph].percent \in
          [disabled |-> {0}, shadow |-> {0}, canary |-> {50}, enabled |-> {100}][pointer.phases[ph].mode]

\* The pointer and its history files are an undo stack: whatever was promoted,
\* rolled back, promoted anew or interrupted, the current pointer is the one
\* the last decision left, and a rollback brings back the one before it.
RollbackIsUndo ==
    /\ pointer = lineage[Len(lineage)]
    /\ op.at = "restoring" => Len(lineage) > 1 /\ op.to = lineage[Len(lineage) - 1]

\* No phase runs on top of a disabled one, in any pointer that is in force or
\* that a rollback could bring back.
DependenciesHold ==
    \A p \in ({pointer} \cup {history[r] : r \in 0 .. MaxPointerRevision}) \ {Missing, Torn} :
        \A ph \in Phases : p.phases[ph].mode # "disabled" =>
            \A d \in Dependencies[ph] : p.phases[d].mode # "disabled"

\* A generated response reaches users only while an approval that the owner
\* gave for that very candidate is in force, also after rollbacks.
ExposureIsApproved ==
    \A bucket \in {0, 60} : Allowed(bucket) =>
        \E g \in granted : g.candidate = Serving /\ g.until > now

\* The pointer is sound: it can be undone, rests on enabled phases, and exposes
\* what was approved.
PointerIsSound == RollbackIsUndo /\ DependenciesHold /\ ExposureIsApproved
=============================================================================
