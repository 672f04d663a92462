-------------------------------- MODULE Review --------------------------------
(***************************************************************************)
(* The human review of the retrieval golden set. A tool generates the      *)
(* candidate from the corpus, a manifest snapshots the corpus, a template  *)
(* binds both to the reviewer's file; the reviewer decides case by case    *)
(* while the files may change; the finalizer freezes a data set and the    *)
(* approval that names it, in two steps that may fail or be cut short.     *)
(* A digest is the content, and what a document says is its version.       *)
(***************************************************************************)
EXTENDS Integers

CONSTANTS
    Cases,        \* cases of the golden set
    Probes,       \* those without an answer
    ReviewEdits   \* bound: changes of files

ASSUME ReviewConstants == Probes \subseteq Cases /\ ReviewEdits \in Nat

VARIABLES
    corpus,      \* version of the documents
    bound,       \* the files that a review binds: candidate, thresholds, manifest
    review,      \* the reviewer's file
    frozen,      \* the data set and the approval
    finalizer,   \* where the finalizer is
    reviewEdits  \* changes so far

reviewVars == <<corpus, bound, review, frozen, finalizer, reviewEdits>>

-----------------------------------------------------------------------------
NoFile == [present |-> FALSE]
Waiting == [at |-> "waiting"]
Pending == [outcome |-> "PENDING"]
Approval == [outcome |-> "APPROVED"]
Corrections == [outcome : {"CORRECTED"}, label : 0 .. corpus]

\* Labels: the version of the documents that answer, 0 for no answer. A packet
\* may be older than the manifest, and the documents newer.
BuildRecord(version) == [c \in Cases |-> IF c \in Probes THEN 0 ELSE version]

ReviewInit ==
    /\ corpus \in {2, 3}
    /\ bound \in [candidate : {BuildRecord(1), BuildRecord(2)}, thresholds : {0}, manifest : {2}]
    /\ review = NoFile
    /\ frozen = [dataset |-> NoFile, approval |-> NoFile]
    /\ finalizer = Waiting
    /\ reviewEdits = 0

Edited == reviewEdits < ReviewEdits /\ reviewEdits' = reviewEdits + 1 /\ UNCHANGED <<frozen, finalizer>>

EditCorpus == Edited /\ corpus' = corpus + 1 /\ UNCHANGED <<bound, review>>

EditThresholds ==
    Edited /\ bound' = [bound EXCEPT !.thresholds = @ + 1] /\ UNCHANGED <<corpus, review>>

\* The packet is of the documents as they are, whatever the manifest says.
GeneratePacket ==
    Edited /\ bound' = [bound EXCEPT !.candidate = BuildRecord(corpus)] /\ UNCHANGED <<corpus, review>>

RefreshManifest == Edited /\ bound' = [bound EXCEPT !.manifest = corpus] /\ UNCHANGED <<corpus, review>>

RemoveReview == Edited /\ review.present /\ review' = NoFile /\ UNCHANGED <<corpus, bound>>

BuildReviewTemplate ==
    /\ ~ review.present
    /\ review' = [present |-> TRUE, bound |-> bound, decisions |-> [c \in Cases |-> Pending]]
    /\ UNCHANGED <<corpus, bound, frozen, finalizer, reviewEdits>>

\* The reviewer decides a case, or strikes it out.
Decide ==
    /\ review.present
    /\ \E c \in DOMAIN review.decisions :
         \/ \E decision \in {Approval} \cup Corrections : review' = [review EXCEPT !.decisions[c] = decision]
         \/ review' = [review EXCEPT !.decisions = [d \in DOMAIN @ \ {c} |-> @[d]]]
    /\ UNCHANGED <<corpus, bound, frozen, finalizer, reviewEdits>>

-----------------------------------------------------------------------------
FinalizerAt(at) == finalizer.at = at
FinalizerGoes(step) == finalizer' = step /\ UNCHANGED <<corpus, bound, review, reviewEdits>>

\* It refuses, or dies.
FinalizerEnds == ~ FinalizerAt("waiting") /\ FinalizerGoes(Waiting) /\ UNCHANGED frozen

ReadInputs ==
    /\ FinalizerAt("waiting")
    /\ FinalizerGoes([at |-> "verify", candidate |-> bound.candidate])
    /\ UNCHANGED frozen

\* Mutant: only the manifest is compared.
BindsManifest(record, candidate) == record.bound.manifest = bound.manifest

VerifyBoundHashes(record, candidate) ==
    record.bound = [candidate |-> candidate, thresholds |-> bound.thresholds, manifest |-> bound.manifest]

DecidesEveryCase(record) ==
    DOMAIN record.decisions = Cases /\ \A c \in Cases : record.decisions[c] # Pending

\* A probe cannot become answerable.
ValidCorrection(case, decision) == decision.outcome = "CORRECTED" => (case = 0 => decision.label = 0)

Selected(candidate, decisions) ==
    [c \in Cases |-> IF decisions[c].outcome = "CORRECTED" THEN decisions[c].label ELSE candidate[c]]

\* Mutant: labels of documents as they were once.
LabelsKnown(labels, manifest) == TRUE

\* An answer is in the documents of the manifest, which are those that lie there.
ValidLabels(labels, manifest) == corpus = manifest /\ \A c \in Cases : labels[c] \in {0, manifest}

FinalizeHumanReview ==
    /\ FinalizerAt("verify") /\ review.present
    /\ LET candidate == finalizer.candidate
           labels == Selected(candidate, review.decisions)
       IN /\ DecidesEveryCase(review) /\ VerifyBoundHashes(review, candidate)
          /\ \A c \in Cases : ValidCorrection(candidate[c], review.decisions[c])
          /\ ValidLabels(labels, bound.manifest)
          /\ FinalizerGoes([at |-> "pair", dataset |-> [present |-> TRUE, labels |-> labels],
                            approval |-> [present |-> TRUE, labels |-> labels, review |-> review]])
    /\ UNCHANGED frozen

\* Mutant: a data set that lies there is taken for this one.
TakesOrphan(dataset) == TRUE

Adopts(dataset) == dataset = finalizer.dataset

\* An approval is never overwritten; a data set without one is adopted if it is the same.
WriteFrozenPair ==
    /\ FinalizerAt("pair") /\ ~ frozen.approval.present
    /\ frozen.dataset.present => Adopts(frozen.dataset)
    /\ FinalizerGoes([finalizer EXCEPT !.at = IF frozen.dataset.present THEN "adopt" ELSE "dataset"])
    /\ UNCHANGED frozen

LinkDataset ==
    /\ FinalizerAt("dataset") /\ ~ frozen.dataset.present
    /\ frozen' = [frozen EXCEPT !.dataset = finalizer.dataset]
    /\ FinalizerGoes([finalizer EXCEPT !.at = "approval"])

LinkApproval ==
    /\ finalizer.at \in {"adopt", "approval"} /\ ~ frozen.approval.present
    /\ frozen' = [frozen EXCEPT !.approval = finalizer.approval]
    /\ FinalizerGoes([finalizer EXCEPT !.at = IF @ = "adopt" THEN "done" ELSE "sync"])

\* A link, or the sync that follows it, fails: the data set is taken back.
TakeBack ==
    /\ finalizer.at \in {"approval", "sync"}
    /\ frozen' = [frozen EXCEPT !.dataset = NoFile]
    /\ FinalizerGoes(Waiting)

ReviewNext ==
    \/ EditCorpus \/ EditThresholds \/ GeneratePacket \/ RefreshManifest
    \/ RemoveReview \/ BuildReviewTemplate \/ Decide
    \/ FinalizerEnds \/ ReadInputs \/ FinalizeHumanReview \/ WriteFrozenPair
    \/ LinkDataset \/ LinkApproval \/ TakeBack

ReviewSpec == ReviewInit /\ [][ReviewNext]_reviewVars

-----------------------------------------------------------------------------
ReviewTypeOK ==
    /\ corpus \in 2 .. ReviewEdits + 3 /\ bound.manifest \in 2 .. corpus
    /\ finalizer.at \in {"waiting", "verify", "pair", "adopt", "dataset", "approval", "sync", "done"}

\* An approval names a data set in which every case was decided by the review
\* of exactly the files that the reviewer was given, each answer is in the
\* documents that were frozen with them, and no probe has become answerable.
\* No other data set lies beside it, however the finalizer was cut short.
ReviewIsSound ==
    LET approval == frozen.approval IN
    approval.present =>
        LET given == approval.review.bound
            decisions == approval.review.decisions
        IN /\ DOMAIN decisions = Cases
           /\ \A c \in Cases :
                /\ approval.labels[c] \in {0, given.manifest}
                /\ c \in Probes => approval.labels[c] = 0
                /\ CASE decisions[c].outcome = "APPROVED" -> approval.labels[c] = given.candidate[c]
                     [] decisions[c].outcome = "CORRECTED" -> approval.labels[c] = decisions[c].label
                     [] OTHER -> FALSE
           /\ frozen.dataset.present => frozen.dataset.labels = approval.labels
=============================================================================
