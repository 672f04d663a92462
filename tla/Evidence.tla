------------------------------- MODULE Evidence -------------------------------
(***************************************************************************)
(* The evaluation set of the classifier. Two people label a pool blindly;  *)
(* tools measure their agreement, finalize a candidate after adjudication  *)
(* and freeze it after an approval. Every tool reads files one by one that *)
(* people edit meanwhile, writes files that must be new, one after the     *)
(* other, and may die between any two steps. A digest is the content.      *)
(***************************************************************************)
EXTENDS Integers, Sequences, FiniteSets
LOCAL INSTANCE FiniteSetsExt

CONSTANTS
    Examples,       \* ids of the pool
    Labels,         \* the classes
    Passes,         \* label files that annotators may write: functions on Examples
    Adjudications,  \* decisions that an adjudicator may write: functions on sets of them
    Agreement,      \* the least agreement, as a fraction <<numerator, denominator>>
    Tools,          \* runs of the tools at a time
    Slots,          \* names of output files
    LastDay,        \* bound: the timestamps people give are days up to this one
    Relabels        \* bound: edits of the files

ASSUME EvidenceConstants == Agreement[1] \in Nat /\ Agreement[2] \in Nat \ {0} /\ {LastDay, Relabels} \subseteq Nat

VARIABLES
    inputs,        \* the pool, and the label files of the annotators a and b
    adjudication,  \* the adjudicator's file
    outputs,       \* outputs[kind][slot]: what the tools wrote
    tools,         \* tools[k]: where a tool is
    relabels       \* edits so far

evidenceVars == <<inputs, adjudication, outputs, tools, relabels>>

-----------------------------------------------------------------------------
Kinds == {"report", "candidate", "evidence", "dataset", "approval"}
Days == 1 .. LastDay
Absent == [file |-> "absent"]
TornFile == [file |-> "torn"]
Unused == [at |-> "idle"]
NoDecisions == [e \in {} |-> 0]
Written(kind, s) == outputs[kind][s].file = "whole"

EvidenceInit ==
    /\ inputs \in [pool : {0}, a : Passes, b : Passes]
    /\ adjudication = NoDecisions
    /\ outputs = [kind \in Kinds |-> [s \in Slots |-> Absent]]
    /\ tools = [k \in Tools |-> Unused]
    /\ relabels = 0

\* People edit what they have written, and the candidate.
EditFile ==
    /\ relabels < Relabels /\ relabels' = relabels + 1
    /\ \/ /\ inputs' \in {[inputs EXCEPT !.pool = @ + 1]} \cup [pool : {inputs.pool}, a : Passes, b : Passes]
          /\ inputs'.a = inputs.a \/ inputs'.b = inputs.b
          /\ UNCHANGED <<adjudication, outputs>>
       \/ adjudication' \in Adjudications /\ UNCHANGED <<inputs, outputs>>
       \/ \E s \in Slots, labels \in Passes :
             /\ Written("candidate", s)
             /\ outputs' = [outputs EXCEPT !["candidate"][s].labels = labels]
             /\ UNCHANGED <<inputs, adjudication>>
    /\ UNCHANGED tools

-----------------------------------------------------------------------------
(* Agreement.                                                              *)

Disagreements(a, b) == {e \in Examples : a[e] # b[e]}

\* n * n times the agreement that chance would give.
Chance(a, b) ==
    LET Of(pass, l) == Cardinality({e \in Examples : pass[e] = l})
    IN  MapThenSumSet(LAMBDA l : Of(a, l) * Of(b, l), Labels)

\* Raw agreement, and Cohen's kappa.
Agrees(a, b) ==
    LET n == Cardinality(Examples)
        agreed == n - Cardinality(Disagreements(a, b))
        expected == Chance(a, b)
    IN  /\ agreed * Agreement[2] >= Agreement[1] * n
        /\ IF expected = n * n THEN agreed = n
           ELSE (agreed * n - expected) * Agreement[2] >= Agreement[1] * (n * n - expected)

\* An agreed label stands; a disagreement has the adjudicator's.
FinalLabels(a, b, decisions) == [e \in Examples |-> IF a[e] = b[e] THEN a[e] ELSE decisions[e]]

Represented(labels) == \A l \in Labels : \E e \in Examples : labels[e] = l

-----------------------------------------------------------------------------
(* Tools.                                                                  *)

ToolAt(k, at) == tools[k].at = at
Moves0(k, step) == tools' = [tools EXCEPT ![k] = step]
Writes(slot, writes) == [at |-> "create", slot |-> slot, writes |-> writes]

\* The tool dies, or refuses what it read.
ToolEnds(k) ==
    /\ ~ ToolAt(k, "idle") /\ Moves0(k, Unused)
    /\ UNCHANGED <<inputs, adjudication, outputs, relabels>>

\* All outputs must be new, and each is created exclusively.
NewOutputs(k) == \A i \in DOMAIN tools[k].writes : outputs[tools[k].writes[i].kind][tools[k].slot] = Absent

CreateFile(k) ==
    /\ ToolAt(k, "create") /\ NewOutputs(k)
    /\ outputs' = [outputs EXCEPT ![Head(tools[k].writes).kind][tools[k].slot] = TornFile]
    /\ Moves0(k, [tools[k] EXCEPT !.at = "fill"])
    /\ UNCHANGED <<inputs, adjudication, relabels>>

FillFile(k) ==
    /\ ToolAt(k, "fill")
    /\ LET t == tools[k] IN
       /\ outputs' = [outputs EXCEPT ![Head(t.writes).kind][t.slot] = Head(t.writes).content]
       /\ Moves0(k, IF Len(t.writes) = 1 THEN Unused ELSE Writes(t.slot, Tail(t.writes)))
    /\ UNCHANGED <<inputs, adjudication, relabels>>

\* Measuring and finalizing read the pool and the first label file first.
ReadFirst(k) ==
    /\ ToolAt(k, "idle")
    /\ \E tool \in {"measure", "finalize"} : Moves0(k, [at |-> tool, pool |-> inputs.pool, a |-> inputs.a])
    /\ UNCHANGED <<inputs, adjudication, outputs, relabels>>

\* The report is written whether the gate passes or not.
Measure(k) ==
    /\ ToolAt(k, "measure")
    /\ \E completed, measured \in Days, s \in Slots :
         /\ completed <= measured
         /\ Moves0(k, Writes(s, <<[kind |-> "report", content |->
              [file |-> "whole", pool |-> tools[k].pool, a |-> tools[k].a, b |-> inputs.b,
               completed |-> completed, measured |-> measured]]>>))
    /\ UNCHANGED <<inputs, adjudication, outputs, relabels>>

\* Mutant: some passed report, whatever it measured.
MeasuredOnce(report, pool, a, b) == Agrees(report.a, report.b)

\* The report, rebuilt from what is read now, is the same.
Measured(report, pool, a, b) == <<report.pool, report.a, report.b>> = <<pool, a, b>>

\* What the evidence manifest says; nothing is adjudicated if there is nothing to decide.
Witness(candidate, name, report, decisions, day) ==
    [file |-> "whole", candidate |-> candidate, name |-> name, report |-> report, adjudication |-> decisions,
     adjudicated |-> IF decisions = NoDecisions THEN 0 ELSE day]

Finalize(k) ==
    /\ ToolAt(k, "finalize")
    /\ LET a == tools[k].a
           b == inputs.b
       IN \E s, o \in Slots, day \in Days :
            LET report == outputs["report"][s]
                candidate == [file |-> "whole", labels |-> FinalLabels(a, b, adjudication),
                              pool |-> tools[k].pool, a |-> a, b |-> b]
            IN /\ Written("report", s) /\ Measured(report, tools[k].pool, a, b)
               /\ Agrees(a, b)
               /\ DOMAIN adjudication = Disagreements(a, b)
               /\ Represented(candidate.labels)
               /\ adjudication # NoDecisions => report.measured <= day
               /\ Moves0(k, Writes(o, <<[kind |-> "candidate", content |-> candidate],
                    [kind |-> "evidence", content |-> Witness(candidate, o, report, adjudication, day)]>>))
    /\ UNCHANGED <<inputs, adjudication, outputs, relabels>>

ReadCandidate(k) ==
    /\ ToolAt(k, "idle")
    /\ \E s \in Slots :
         /\ Written("candidate", s)
         /\ Moves0(k, [at |-> "freeze", name |-> s, candidate |-> outputs["candidate"][s]])
    /\ UNCHANGED <<inputs, adjudication, outputs, relabels>>

\* Mutant: the manifest that lies beside the candidate.
WitnessedByName(witness, candidate, name) == witness.name = name

\* The manifest binds these bytes under this name, the same label files and
\* as many decisions as they have disagreements.
Witnessed0(witness, candidate, name) ==
    /\ witness.candidate = candidate /\ witness.name = name
    /\ Measured(witness.report, candidate.pool, candidate.a, candidate.b)
    /\ Cardinality(DOMAIN witness.adjudication) = Cardinality(Disagreements(candidate.a, candidate.b))

Anchor(witness) == IF witness.adjudicated # 0 THEN witness.adjudicated ELSE witness.report.measured

Freeze(k) ==
    /\ ToolAt(k, "freeze")
    /\ LET candidate == tools[k].candidate IN
       \E s, o \in Slots, day \in Days :
         LET witness == outputs["evidence"][s]
             frozen == [file |-> "whole", labels |-> candidate.labels, pool |-> candidate.pool,
                        a |-> candidate.a, b |-> candidate.b, witness |-> witness, approved |-> day]
         IN /\ Written("evidence", s) /\ Witnessed0(witness, candidate, tools[k].name)
            /\ Anchor(witness) <= day
            /\ Agrees(candidate.a, candidate.b) /\ Represented(candidate.labels)
            /\ Moves0(k, Writes(o, <<[kind |-> "dataset", content |-> frozen],
                                     [kind |-> "approval", content |-> [file |-> "whole", dataset |-> frozen]]>>))
    /\ UNCHANGED <<inputs, adjudication, outputs, relabels>>

EvidenceNext ==
    \/ EditFile
    \/ \E k \in Tools : ToolEnds(k) \/ CreateFile(k) \/ FillFile(k) \/ ReadFirst(k) \/ Measure(k) \/ Finalize(k)
                        \/ ReadCandidate(k) \/ Freeze(k)

EvidenceSpec == EvidenceInit /\ [][EvidenceNext]_evidenceVars

-----------------------------------------------------------------------------
EvidenceTypeOK ==
    /\ {inputs.a, inputs.b} \subseteq Passes /\ adjudication \in Adjudications \cup {NoDecisions}
    /\ \A kind \in Kinds, s \in Slots : outputs[kind][s].file \in {"absent", "torn", "whole"}

\* A frozen set has the labels on which two passes agree that were measured as
\* they are, well enough, and the adjudicator's for exactly the others; it was
\* approved after the adjudication, that after the measurement, that after the
\* passes, as people date them, whatever files were edited meanwhile. An
\* approval manifest stands beside the very set that it names.
EvidenceIsSound ==
    \A s \in Slots :
        /\ Written("dataset", s) =>
             LET set == outputs["dataset"][s]
                 report == set.witness.report
                 decisions == set.witness.adjudication
             IN /\ <<report.pool, report.a, report.b>> = <<set.pool, set.a, set.b>> /\ Agrees(set.a, set.b)
                /\ DOMAIN decisions = Disagreements(set.a, set.b)
                /\ set.labels = FinalLabels(set.a, set.b, decisions) /\ Represented(set.labels)
                /\ report.completed <= report.measured /\ report.measured <= set.approved
                /\ decisions # NoDecisions => set.witness.adjudicated \in report.measured .. set.approved
        /\ Written("approval", s) =>
             Written("dataset", s) /\ outputs["approval"][s].dataset = outputs["dataset"][s]
=============================================================================
