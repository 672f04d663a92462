----------------------------- MODULE ServingProofs -----------------------------
(***************************************************************************)
(* Proofs about how models are judged and what they serve: the review of   *)
(* retrieval, the frozen set of the classifier, the activation of private  *)
(* answers, the runs on the holdout and the local classifier. They share   *)
(* no state; each part has its inductive invariant, a lemma for every      *)
(* action that changes what the invariant relates, and its theorem.        *)
(***************************************************************************)
EXTENDS Evaluation, LocalModel, SequenceTheorems, FiniteSetTheorems, TLAPS
-----------------------------------------------------------------------------
(* The human review of the retrieval golden set (Review).                  *)

\* Whatever a packet is of, the probes have no answer in it.
CandidateSet == {labels \in [Cases -> Nat] : \A c \in Probes : labels[c] = 0}
BoundSet == [candidate : CandidateSet, thresholds : Nat, manifest : Nat]
DecisionSet == {Pending, Approval} \cup [outcome : {"CORRECTED"}, label : Nat]
DecisionsOf(S) == [S -> DecisionSet]
ReviewSet == [present : {TRUE}, bound : BoundSet, decisions : UNION {DecisionsOf(S) : S \in SUBSET Cases}]
DatasetSet == [present : {TRUE}, labels : [Cases -> Nat]]
ApprovalSet == [present : {TRUE}, labels : [Cases -> Nat], review : ReviewSet]

\* What an approval says of the review that it carries.
GoldenApprovalSound(approval) ==
    LET given == approval.review.bound
        decisions == approval.review.decisions
    IN /\ approval \in ApprovalSet /\ DOMAIN decisions = Cases
       /\ \A c \in Cases :
            /\ approval.labels[c] \in {0, given.manifest}
            /\ c \in Probes => approval.labels[c] = 0
            /\ \/ decisions[c].outcome = "APPROVED" /\ approval.labels[c] = given.candidate[c]
               \/ decisions[c].outcome = "CORRECTED" /\ approval.labels[c] = decisions[c].label

FrozenSound(f) ==
    /\ f = [dataset |-> f.dataset, approval |-> f.approval]
    /\ f.dataset = NoFile \/ f.dataset \in DatasetSet
    /\ f.approval = NoFile \/ GoldenApprovalSound(f.approval)
    /\ f.approval # NoFile /\ f.dataset # NoFile => f.dataset.labels = f.approval.labels

Pairing == {"pair", "dataset", "adopt", "approval", "sync", "done"}
PairSet == [at : Pairing, dataset : DatasetSet, approval : ApprovalSet]

\* The pair that is being written, and how much of it is there.
FinalizerSound(z, f) ==
    \/ z = Waiting
    \/ z.at = "verify" /\ z.candidate \in CandidateSet
    \/ /\ z \in PairSet /\ GoldenApprovalSound(z.approval) /\ z.dataset.labels = z.approval.labels
       /\ z.at \in {"dataset", "adopt", "approval"} => f.approval = NoFile
       /\ z.at \in {"adopt", "approval"} => f.dataset = z.dataset

ReviewInv ==
    /\ reviewEdits \in 0 .. ReviewEdits
    /\ corpus \in 2 .. reviewEdits + 3 /\ bound \in BoundSet /\ bound.manifest \in 2 .. corpus
    /\ review = NoFile \/ review \in ReviewSet
    /\ FrozenSound(frozen)
    /\ FinalizerSound(finalizer, frozen)

LEMMA FilesTold == NoFile.present = FALSE /\ (\A d \in DatasetSet : d.present = TRUE /\ d # NoFile)
                   /\ (\A a \in ApprovalSet : a.present = TRUE /\ a # NoFile)
                   /\ (\A r \in ReviewSet : r.present = TRUE /\ r # NoFile)
<1>1. NoFile.present = FALSE
    BY DEF NoFile
<1>2. /\ \A d \in DatasetSet : d.present = TRUE
      /\ \A a \in ApprovalSet : a.present = TRUE
      /\ \A r \in ReviewSet : r.present = TRUE
    BY DEF DatasetSet, ApprovalSet, ReviewSet
<1> QED
    BY <1>1, <1>2

LEMMA ReviewInvImplies == ReviewInv => ReviewTypeOK /\ ReviewIsSound
<1> SUFFICES ASSUME ReviewInv PROVE ReviewTypeOK /\ ReviewIsSound
    OBVIOUS
<1>1. ReviewTypeOK
    <2>1. corpus \in 2 .. ReviewEdits + 3 /\ bound.manifest \in 2 .. corpus
        BY ReviewConstants DEF ReviewInv
    <2>2. finalizer.at \in {"waiting", "verify", "pair", "adopt", "dataset", "approval", "sync", "done"}
        BY DEF ReviewInv, FinalizerSound, Waiting, PairSet, Pairing
    <2> QED
        BY <2>1, <2>2 DEF ReviewTypeOK
<1>2. ASSUME frozen.approval.present PROVE GoldenApprovalSound(frozen.approval) /\ frozen.approval # NoFile
    BY <1>2, FilesTold DEF ReviewInv, FrozenSound
<1>3. ASSUME frozen.approval.present, frozen.dataset.present
      PROVE  frozen.dataset.labels = frozen.approval.labels
    BY <1>2, <1>3, FilesTold DEF ReviewInv, FrozenSound
<1>4. ReviewIsSound
    BY <1>2, <1>3 DEF ReviewIsSound, GoldenApprovalSound
<1> QED
    BY <1>1, <1>4

LEMMA PacketSound == ASSUME NEW version \in Nat PROVE BuildRecord(version) \in CandidateSet
BY ReviewConstants DEF BuildRecord, CandidateSet

LEMMA ReviewInitSound == ReviewInit => ReviewInv
<1> SUFFICES ASSUME ReviewInit PROVE ReviewInv
    OBVIOUS
<1>1. reviewEdits \in 0 .. ReviewEdits /\ corpus \in 2 .. reviewEdits + 3 /\ review = NoFile
    BY ReviewConstants DEF ReviewInit
<1>2. bound \in BoundSet /\ bound.manifest = 2
    <2>1. BuildRecord(1) \in CandidateSet /\ BuildRecord(2) \in CandidateSet
        BY PacketSound
    <2> QED
        BY <2>1 DEF ReviewInit, BoundSet
<1>3. FrozenSound(frozen)
    BY DEF ReviewInit, FrozenSound
<1>4. FinalizerSound(finalizer, frozen)
    BY DEF ReviewInit, FinalizerSound
<1> QED
    BY <1>1, <1>2, <1>3, <1>4 DEF ReviewInv

\* People change the files, never what was frozen or what the finalizer read.
LEMMA EditSound ==
    ASSUME ReviewInv, Edited, corpus' = corpus \/ corpus' = corpus + 1,
           bound' \in BoundSet, bound'.manifest \in 2 .. corpus', review' = review \/ review' = NoFile
    PROVE  ReviewInv'
<1>1. reviewEdits' \in 0 .. ReviewEdits /\ corpus' \in 2 .. reviewEdits' + 3 /\ UNCHANGED <<frozen, finalizer>>
    BY ReviewConstants DEF ReviewInv, Edited
<1> QED
    BY <1>1 DEF ReviewInv

LEMMA ReviewPeopleSound ==
    ASSUME ReviewInv,
           EditCorpus \/ EditThresholds \/ GeneratePacket \/ RefreshManifest \/ RemoveReview
    PROVE  ReviewInv'
<1>1. /\ corpus \in Nat /\ corpus >= 2 /\ bound \in BoundSet /\ bound.manifest \in 2 .. corpus /\ bound.thresholds \in Nat
      /\ BuildRecord(corpus) \in CandidateSet
    <2>1. reviewEdits \in Nat
        BY ReviewConstants DEF ReviewInv
    <2>2. corpus \in Nat /\ corpus >= 2 /\ bound \in BoundSet /\ bound.manifest \in 2 .. corpus
        BY <2>1 DEF ReviewInv
    <2>3. bound.thresholds \in Nat
        BY <2>2 DEF BoundSet
    <2> QED
        BY <2>2, <2>3, PacketSound
<1>2. CASE EditCorpus
    <2>1. Edited /\ corpus' = corpus + 1 /\ bound' = bound /\ review' = review
        BY <1>2 DEF EditCorpus
    <2>2. bound'.manifest \in 2 .. corpus'
        BY <1>1, <2>1
    <2> QED
        BY <1>1, <2>1, <2>2, EditSound
<1>3. CASE EditThresholds
    <2>1. Edited /\ corpus' = corpus /\ review' = review
          /\ bound' = [bound EXCEPT !.thresholds = bound.thresholds + 1]
        BY <1>3 DEF EditThresholds
    <2>2. bound.thresholds + 1 \in Nat
        BY <1>1
    <2>3. bound' \in BoundSet /\ bound'.manifest = bound.manifest
        BY <1>1, <2>1, <2>2 DEF BoundSet
    <2> QED
        BY <1>1, <2>1, <2>3, EditSound
<1>4. CASE GeneratePacket
    <2>1. Edited /\ corpus' = corpus /\ review' = review
          /\ bound' = [bound EXCEPT !.candidate = BuildRecord(corpus)]
        BY <1>4 DEF GeneratePacket
    <2>2. bound' \in BoundSet /\ bound'.manifest = bound.manifest
        BY <1>1, <2>1 DEF BoundSet
    <2> QED
        BY <1>1, <2>1, <2>2, EditSound
<1>5. CASE RefreshManifest
    <2>1. Edited /\ corpus' = corpus /\ review' = review /\ bound' = [bound EXCEPT !.manifest = corpus]
        BY <1>5 DEF RefreshManifest
    <2>2. bound' \in BoundSet /\ bound'.manifest = corpus
        BY <1>1, <2>1 DEF BoundSet
    <2>3. bound'.manifest \in 2 .. corpus'
        BY <1>1, <2>1, <2>2
    <2> QED
        BY <2>1, <2>2, <2>3, EditSound
<1>6. CASE RemoveReview
    BY <1>1, <1>6, EditSound DEF RemoveReview
<1> QED
    BY <1>2, <1>3, <1>4, <1>5, <1>6

LEMMA BuildReviewTemplateSound == ASSUME ReviewInv, BuildReviewTemplate PROVE ReviewInv'
<1>1. UNCHANGED <<corpus, bound, frozen, finalizer, reviewEdits>>
    BY DEF BuildReviewTemplate
<1>2. PICK decisions : decisions = [c \in Cases |-> Pending]
    OBVIOUS
<1>3. PICK yes : yes = TRUE
    OBVIOUS
<1>4. review' = [present |-> yes, bound |-> bound, decisions |-> decisions]
    BY <1>2, <1>3, Zenon DEF BuildReviewTemplate
<1>5. decisions \in DecisionsOf(Cases)
    BY <1>2 DEF DecisionsOf, DecisionSet
<1>6. decisions \in UNION {DecisionsOf(S) : S \in SUBSET Cases}
    BY <1>5
<1>7. bound \in BoundSet /\ yes \in {TRUE}
    BY <1>3 DEF ReviewInv
<1>8. review' \in ReviewSet
    BY <1>4, <1>6, <1>7, Zenon DEF ReviewSet
<1> QED
    BY <1>1, <1>8 DEF ReviewInv

LEMMA DecideSound == ASSUME ReviewInv, Decide PROVE ReviewInv'
<1>1. UNCHANGED <<corpus, bound, frozen, finalizer, reviewEdits>> /\ review.present
    BY DEF Decide
<1>2. review \in ReviewSet
    BY <1>1, FilesTold DEF ReviewInv
<1>3. PICK S \in SUBSET Cases : review.decisions \in DecisionsOf(S)
    BY <1>2 DEF ReviewSet
<1>4. PICK dec : dec = review.decisions
    OBVIOUS
<1>5. dec \in [S -> DecisionSet] /\ DOMAIN dec = S
    BY <1>3, <1>4 DEF DecisionsOf
<1>6. ASSUME NEW next, NEW T \in SUBSET Cases, next \in DecisionsOf(T), review' = [review EXCEPT !.decisions = next]
      PROVE  ReviewInv'
    <2>1. next \in UNION {DecisionsOf(R) : R \in SUBSET Cases}
        BY <1>6
    <2>2. review' \in ReviewSet
        BY <1>2, <1>6, <2>1, Zenon DEF ReviewSet
    <2> QED
        BY <1>1, <2>2 DEF ReviewInv
<1>7. corpus \in Nat
    BY ReviewConstants DEF ReviewInv
<1>8. PICK c \in S :
        \/ \E decision \in {Approval} \cup Corrections : review' = [review EXCEPT !.decisions[c] = decision]
        \/ review' = [review EXCEPT !.decisions = [d \in DOMAIN review.decisions \ {c} |-> review.decisions[d]]]
    BY <1>4, <1>5 DEF Decide
<1>9. ASSUME NEW decision \in {Approval} \cup Corrections, review' = [review EXCEPT !.decisions[c] = decision]
      PROVE  ReviewInv'
    <2>1. decision \in DecisionSet
        BY <1>7 DEF Corrections, DecisionSet
    <2>2. PICK next : next = [dec EXCEPT ![c] = decision]
        OBVIOUS
    <2>3. next \in DecisionsOf(S)
        BY <1>5, <2>1, <2>2 DEF DecisionsOf
    <2>4. review' = [review EXCEPT !.decisions = next]
        BY <1>4, <1>9, <2>2
    <2> QED
        BY <1>6, <2>3, <2>4
<1>10. ASSUME review' = [review EXCEPT !.decisions = [d \in DOMAIN review.decisions \ {c} |-> review.decisions[d]]]
       PROVE  ReviewInv'
    <2>1. PICK next : next = [d \in S \ {c} |-> dec[d]]
        OBVIOUS
    <2>2. next \in DecisionsOf(S \ {c}) /\ S \ {c} \in SUBSET Cases
        BY <1>5, <2>1 DEF DecisionsOf
    <2>3. review' = [review EXCEPT !.decisions = next]
        BY <1>4, <1>5, <1>10, <2>1
    <2> QED
        BY <1>6, <2>2, <2>3
<1> QED
    BY <1>8, <1>9, <1>10

\* A step of the finalizer that leaves the other files alone.
LEMMA FinalizerStepSound ==
    ASSUME ReviewInv, UNCHANGED <<corpus, bound, review, reviewEdits>>,
           FrozenSound(frozen'), FinalizerSound(finalizer', frozen')
    PROVE  ReviewInv'
BY DEF ReviewInv

LEMMA ReadInputsSound == ASSUME ReviewInv, FinalizerEnds \/ ReadInputs PROVE ReviewInv'
<1>1. UNCHANGED <<corpus, bound, review, reviewEdits, frozen>>
    BY DEF FinalizerEnds, ReadInputs, FinalizerGoes
<1>2. FrozenSound(frozen') /\ bound.candidate \in CandidateSet
    BY <1>1 DEF ReviewInv, BoundSet
<1>3. FinalizerSound(finalizer', frozen')
    BY <1>2 DEF FinalizerEnds, ReadInputs, FinalizerGoes, FinalizerSound
<1> QED
    BY <1>1, <1>2, <1>3, FinalizerStepSound

\* What is approved: every answer is in the documents that were reviewed.
LEMMA FinalizeHumanReviewSound == ASSUME ReviewInv, FinalizeHumanReview PROVE ReviewInv'
<1>1. UNCHANGED <<corpus, bound, review, reviewEdits, frozen>> /\ review.present /\ finalizer.at = "verify"
    BY DEF FinalizeHumanReview, FinalizerGoes, FinalizerAt
<1>2. review \in ReviewSet /\ FrozenSound(frozen) /\ bound.manifest \in Nat
    <2>1. bound.manifest \in Nat
        BY DEF ReviewInv, BoundSet
    <2> QED
        BY <1>1, <2>1, FilesTold DEF ReviewInv
<1>3. PICK built, decisions : built = finalizer.candidate /\ decisions = review.decisions
    OBVIOUS
<1>4. PICK labels : labels = Selected(built, decisions)
    OBVIOUS
<1>5. PICK yes : yes = TRUE
    OBVIOUS
<1>6. /\ DecidesEveryCase(review) /\ VerifyBoundHashes(review, built)
      /\ \A c \in Cases : ValidCorrection(built[c], decisions[c])
      /\ ValidLabels(labels, bound.manifest)
    BY <1>3, <1>4 DEF FinalizeHumanReview
<1>7. finalizer' = [at |-> "pair", dataset |-> [present |-> yes, labels |-> labels],
                    approval |-> [present |-> yes, labels |-> labels, review |-> review]]
    BY <1>3, <1>4, <1>5, Zenon DEF FinalizeHumanReview, FinalizerGoes
<1>8. built \in CandidateSet
    BY <1>1, <1>3 DEF ReviewInv, FinalizerSound, Waiting, PairSet, Pairing
<1>9. /\ DOMAIN decisions = Cases /\ \A c \in Cases : decisions[c] \in DecisionSet /\ decisions[c] # Pending
    <2>1. PICK S \in SUBSET Cases : decisions \in DecisionsOf(S)
        BY <1>2, <1>3 DEF ReviewSet
    <2> QED
        BY <1>3, <1>6, <2>1 DEF DecisionsOf, DecidesEveryCase
<1>10. /\ review.bound.candidate = built /\ review.bound.manifest = bound.manifest
    BY <1>6 DEF VerifyBoundHashes
<1>11. /\ labels \in [Cases -> Nat]
       /\ \A c \in Cases : labels[c] = IF decisions[c].outcome = "CORRECTED" THEN decisions[c].label ELSE built[c]
    <2>1. \A c \in Cases : built[c] \in Nat
        BY <1>8 DEF CandidateSet
    <2>2. \A c \in Cases : decisions[c].outcome = "CORRECTED" => decisions[c].label \in Nat
        BY <1>9 DEF DecisionSet, Pending, Approval
    <2> QED
        BY <1>4, <2>1, <2>2 DEF Selected
<1>12. PICK dataset, approval : /\ dataset = [present |-> yes, labels |-> labels]
                                /\ approval = [present |-> yes, labels |-> labels, review |-> review]
    OBVIOUS
<1>13. dataset \in DatasetSet /\ approval \in ApprovalSet /\ dataset.labels = labels /\ approval.labels = labels
       /\ approval.review = review
    <2>1. yes \in {TRUE}
        BY <1>5
    <2>2. dataset \in DatasetSet
        BY <1>11, <1>12, <2>1, Zenon DEF DatasetSet
    <2>3. approval \in ApprovalSet
        BY <1>2, <1>11, <1>12, <2>1, Zenon DEF ApprovalSet
    <2> QED
        BY <1>12, <2>2, <2>3
<1>14. GoldenApprovalSound(approval)
    <2>1. ASSUME NEW c \in Cases
          PROVE  /\ labels[c] \in {0, review.bound.manifest}
                 /\ c \in Probes => labels[c] = 0
                 /\ \/ decisions[c].outcome = "APPROVED" /\ labels[c] = review.bound.candidate[c]
                    \/ decisions[c].outcome = "CORRECTED" /\ labels[c] = decisions[c].label
        <3>1. labels[c] \in {0, review.bound.manifest}
            BY <1>6, <1>10 DEF ValidLabels
        <3>2. c \in Probes => labels[c] = 0
            BY <1>6, <1>8, <1>11 DEF CandidateSet, ValidCorrection
        <3>3. decisions[c].outcome = "APPROVED" \/ decisions[c].outcome = "CORRECTED"
            BY <1>9 DEF DecisionSet, Pending, Approval
        <3> QED
            BY <1>10, <1>11, <3>1, <3>2, <3>3
    <2> QED
        BY <1>3, <1>9, <1>13, <2>1 DEF GoldenApprovalSound
<1>15. FinalizerSound(finalizer', frozen')
    <2>1. finalizer' = [at |-> "pair", dataset |-> dataset, approval |-> approval] /\ "pair" \in Pairing
        BY <1>7, <1>12 DEF Pairing
    <2>2. finalizer' \in PairSet
        BY <1>13, <2>1 DEF PairSet
    <2> QED
        BY <1>13, <1>14, <2>1, <2>2 DEF FinalizerSound
<1> QED
    BY <1>1, <1>2, <1>15, FinalizerStepSound

\* The fields of the pair when the finalizer moves on.
LEMMA PairGoesOn ==
    ASSUME NEW z \in PairSet, NEW at \in Pairing, NEW y, y = [z EXCEPT !.at = at]
    PROVE  y \in PairSet /\ y.at = at /\ y.dataset = z.dataset /\ y.approval = z.approval
BY DEF PairSet

LEMMA AtPair ==
    ASSUME ReviewInv, finalizer.at \in Pairing
    PROVE  /\ finalizer \in PairSet /\ GoldenApprovalSound(finalizer.approval)
           /\ finalizer.dataset.labels = finalizer.approval.labels
           /\ finalizer.dataset \in DatasetSet /\ finalizer.approval \in ApprovalSet
           /\ finalizer.at \in {"dataset", "adopt", "approval"} => frozen.approval = NoFile
           /\ finalizer.at \in {"adopt", "approval"} => frozen.dataset = finalizer.dataset
           /\ FrozenSound(frozen)
BY DEF ReviewInv, FinalizerSound, Waiting, Pairing, PairSet

LEMMA WriteFrozenPairSound == ASSUME ReviewInv, WriteFrozenPair PROVE ReviewInv'
<1>1. /\ UNCHANGED <<corpus, bound, review, reviewEdits, frozen>> /\ finalizer.at = "pair" /\ ~ frozen.approval.present
      /\ frozen.dataset.present => frozen.dataset = finalizer.dataset
    BY DEF WriteFrozenPair, FinalizerGoes, FinalizerAt, Adopts
<1>2. finalizer.at \in Pairing
    BY <1>1 DEF Pairing
<1>3. PICK at : at = IF frozen.dataset.present THEN "adopt" ELSE "dataset"
    OBVIOUS
<1>4. finalizer' = [finalizer EXCEPT !.at = at] /\ at \in Pairing
    BY <1>3 DEF WriteFrozenPair, FinalizerGoes, Pairing
<1>5. /\ finalizer' \in PairSet /\ finalizer'.at = at
      /\ finalizer'.dataset = finalizer.dataset /\ finalizer'.approval = finalizer.approval
    BY <1>2, <1>4, AtPair, PairGoesOn
<1>6. frozen.approval = NoFile
    BY <1>1, <1>2, AtPair, FilesTold DEF FrozenSound, GoldenApprovalSound
<1>7. at = "adopt" => frozen.dataset = finalizer.dataset
    BY <1>1, <1>3
<1>8. at \in {"adopt", "dataset"}
    BY <1>3
<1>9. FinalizerSound(finalizer', frozen)
    BY <1>2, <1>5, <1>6, <1>7, <1>8, AtPair DEF FinalizerSound
<1> QED
    BY <1>1, <1>2, <1>9, AtPair, FinalizerStepSound

LEMMA LinkDatasetSound == ASSUME ReviewInv, LinkDataset PROVE ReviewInv'
<1>1. /\ UNCHANGED <<corpus, bound, review, reviewEdits>> /\ finalizer.at = "dataset"
      /\ frozen' = [frozen EXCEPT !.dataset = finalizer.dataset]
      /\ finalizer' = [finalizer EXCEPT !.at = "approval"]
    BY DEF LinkDataset, FinalizerGoes, FinalizerAt
<1>2. finalizer.at \in Pairing /\ "approval" \in Pairing
    BY <1>1 DEF Pairing
<1>3. /\ finalizer' \in PairSet /\ finalizer'.at = "approval"
      /\ finalizer'.dataset = finalizer.dataset /\ finalizer'.approval = finalizer.approval
    BY <1>1, <1>2, AtPair, PairGoesOn
<1>4. frozen'.dataset = finalizer.dataset /\ frozen'.approval = frozen.approval
      /\ frozen' = [dataset |-> frozen'.dataset, approval |-> frozen'.approval]
    BY <1>1, <1>2, AtPair DEF FrozenSound
<1>5. frozen.approval = NoFile
    BY <1>1, <1>2, AtPair
<1>6. FrozenSound(frozen')
    BY <1>2, <1>4, <1>5, AtPair DEF FrozenSound
<1>7. FinalizerSound(finalizer', frozen')
    BY <1>2, <1>3, <1>4, <1>5, AtPair DEF FinalizerSound
<1> QED
    BY <1>1, <1>6, <1>7, FinalizerStepSound

LEMMA LinkApprovalSound == ASSUME ReviewInv, LinkApproval PROVE ReviewInv'
<1>1. /\ UNCHANGED <<corpus, bound, review, reviewEdits>> /\ finalizer.at \in {"adopt", "approval"}
      /\ frozen' = [frozen EXCEPT !.approval = finalizer.approval]
      /\ finalizer' = [finalizer EXCEPT !.at = IF finalizer.at = "adopt" THEN "done" ELSE "sync"]
    BY DEF LinkApproval, FinalizerGoes
<1>2. PICK at : at = IF finalizer.at = "adopt" THEN "done" ELSE "sync"
    OBVIOUS
<1>3. finalizer.at \in Pairing /\ at \in Pairing /\ at \notin {"dataset", "adopt", "approval"}
    BY <1>1, <1>2 DEF Pairing
<1>4. /\ finalizer' \in PairSet /\ finalizer'.at = at
      /\ finalizer'.dataset = finalizer.dataset /\ finalizer'.approval = finalizer.approval
    BY <1>1, <1>2, <1>3, AtPair, PairGoesOn
<1>5. frozen'.dataset = frozen.dataset /\ frozen'.approval = finalizer.approval
      /\ frozen' = [dataset |-> frozen'.dataset, approval |-> frozen'.approval]
    BY <1>1, <1>3, AtPair DEF FrozenSound
<1>6. frozen.dataset = finalizer.dataset
    BY <1>1, <1>3, AtPair
<1>7. FrozenSound(frozen')
    BY <1>3, <1>5, <1>6, AtPair DEF FrozenSound
<1>8. FinalizerSound(finalizer', frozen')
    BY <1>3, <1>4, AtPair DEF FinalizerSound
<1> QED
    BY <1>1, <1>7, <1>8, FinalizerStepSound

LEMMA TakeBackSound == ASSUME ReviewInv, TakeBack PROVE ReviewInv'
<1>1. /\ UNCHANGED <<corpus, bound, review, reviewEdits>> /\ finalizer.at \in {"approval", "sync"}
      /\ frozen' = [frozen EXCEPT !.dataset = NoFile] /\ finalizer' = Waiting
    BY DEF TakeBack, FinalizerGoes
<1>2. FrozenSound(frozen)
    BY DEF ReviewInv
<1>3. frozen'.dataset = NoFile /\ frozen'.approval = frozen.approval
      /\ frozen' = [dataset |-> frozen'.dataset, approval |-> frozen'.approval]
    BY <1>1, <1>2 DEF FrozenSound
<1>4. FrozenSound(frozen') /\ FinalizerSound(finalizer', frozen')
    BY <1>1, <1>2, <1>3 DEF FrozenSound, FinalizerSound
<1> QED
    BY <1>1, <1>4, FinalizerStepSound

LEMMA ReviewStepSound == ReviewInv /\ [ReviewNext]_reviewVars => ReviewInv'
<1> SUFFICES ASSUME ReviewInv, [ReviewNext]_reviewVars PROVE ReviewInv'
    OBVIOUS
<1>1. CASE EditCorpus \/ EditThresholds \/ GeneratePacket \/ RefreshManifest \/ RemoveReview
    BY <1>1, ReviewPeopleSound
<1>2. CASE BuildReviewTemplate
    BY <1>2, BuildReviewTemplateSound
<1>3. CASE Decide
    BY <1>3, DecideSound
<1>4. CASE FinalizerEnds \/ ReadInputs
    BY <1>4, ReadInputsSound
<1>5. CASE FinalizeHumanReview
    BY <1>5, FinalizeHumanReviewSound
<1>6. CASE WriteFrozenPair
    BY <1>6, WriteFrozenPairSound
<1>7. CASE LinkDataset
    BY <1>7, LinkDatasetSound
<1>8. CASE LinkApproval
    BY <1>8, LinkApprovalSound
<1>9. CASE TakeBack
    BY <1>9, TakeBackSound
<1>10. CASE UNCHANGED reviewVars
    BY <1>10 DEF reviewVars, ReviewInv
<1> QED
    BY <1>1, <1>2, <1>3, <1>4, <1>5, <1>6, <1>7, <1>8, <1>9, <1>10 DEF ReviewNext

\* An approval of the golden set carries a review in which every case of it was
\* decided on the very files that were frozen, whatever was edited meanwhile and
\* however the finalizer was cut short, and no other data set lies beside it.
THEOREM ReviewSound == ReviewSpec => [](ReviewTypeOK /\ ReviewIsSound)
<1>1. ReviewSpec => []ReviewInv
    BY ReviewInitSound, ReviewStepSound, PTL DEF ReviewSpec
<1> QED
    BY <1>1, ReviewInvImplies, PTL

-----------------------------------------------------------------------------
(* The evaluation set of the classifier (Evidence).                        *)

ReportSound(report) ==
    report.completed \in Days /\ report.measured \in Days /\ report.completed <= report.measured

\* An evidence manifest tells how the labels of its candidate came about.
WitnessSound(witness) ==
    LET labelled == witness.candidate
        decisions == witness.adjudication
    IN /\ ReportSound(witness.report) /\ Measured(witness.report, labelled.pool, labelled.a, labelled.b)
       /\ DOMAIN decisions = Disagreements(labelled.a, labelled.b)
       /\ labelled.labels = FinalLabels(labelled.a, labelled.b, decisions)
       /\ decisions = NoDecisions => witness.adjudicated = 0
       /\ decisions # NoDecisions => witness.adjudicated \in Days /\ witness.report.measured <= witness.adjudicated

FrozenSetSound(set) ==
    LET report == set.witness.report
        decisions == set.witness.adjudication
    IN /\ <<report.pool, report.a, report.b>> = <<set.pool, set.a, set.b>> /\ Agrees(set.a, set.b)
       /\ DOMAIN decisions = Disagreements(set.a, set.b)
       /\ set.labels = FinalLabels(set.a, set.b, decisions) /\ Represented(set.labels)
       /\ report.completed <= report.measured /\ report.measured <= set.approved
       /\ decisions # NoDecisions => set.witness.adjudicated \in report.measured .. set.approved

CandidateShape(c) == c = [file |-> "whole", labels |-> c.labels, pool |-> c.pool, a |-> c.a, b |-> c.b]

ContentSound(kind, content) ==
    /\ content.file = "whole"
    /\ kind = "report" => ReportSound(content)
    /\ kind = "candidate" => CandidateShape(content)
    /\ kind = "evidence" => WitnessSound(content)
    /\ kind = "dataset" => FrozenSetSound(content)

\* An approval names this data set.
ApprovalOf(content, dataset) == content.file = "whole" /\ dataset.file = "whole" /\ content.dataset = dataset

OutputSound(kind, content) == content \in {Absent, TornFile} \/ ContentSound(kind, content)

OutputsSound(o) ==
    /\ o = [kind \in Kinds |-> [s \in Slots |-> o[kind][s]]]
    /\ \A kind \in Kinds, s \in Slots : OutputSound(kind, o[kind][s])
    /\ \A s \in Slots : o["approval"][s].file = "whole" => ApprovalOf(o["approval"][s], o["dataset"][s])

\* What is still to be written; an approval follows its data set.
WritesSound(s, w, o) ==
    \/ w = <<w[1]>> /\ w[1].kind \in {"report", "evidence"} /\ ContentSound(w[1].kind, w[1].content)
    \/ w = <<w[1]>> /\ w[1].kind = "approval" /\ ApprovalOf(w[1].content, o["dataset"][s])
    \/ /\ w = <<w[1], w[2]>> /\ w[1].kind = "candidate" /\ w[2].kind = "evidence"
       /\ ContentSound("candidate", w[1].content) /\ ContentSound("evidence", w[2].content)
    \/ /\ w = <<w[1], w[2]>> /\ w[1].kind = "dataset" /\ w[2].kind = "approval"
       /\ ContentSound("dataset", w[1].content) /\ ApprovalOf(w[2].content, w[1].content)

Writing == {"create", "fill"}

\* A file that is being filled is torn, and nobody else's.
ToolSound(t, o) ==
    /\ t.at \in {"idle", "measure", "finalize", "freeze"} \cup Writing
    /\ t.at \in Writing =>
        /\ t = [at |-> t.at, slot |-> t.slot, writes |-> t.writes]
        /\ t.slot \in Slots /\ WritesSound(t.slot, t.writes, o)
        /\ t.at = "fill" => o[t.writes[1].kind][t.slot] = TornFile

SameFile(t, u) == t.slot = u.slot /\ t.writes[1].kind = u.writes[1].kind

FillersApart(ts) ==
    \A k, j \in Tools : ts[k].at = "fill" /\ ts[j].at = "fill" /\ SameFile(ts[k], ts[j]) => k = j

EvidenceInv ==
    /\ inputs.a \in Passes /\ inputs.b \in Passes /\ adjudication \in Adjudications \cup {NoDecisions}
    /\ inputs = [pool |-> inputs.pool, a |-> inputs.a, b |-> inputs.b]
    /\ OutputsSound(outputs)
    /\ tools = [k \in Tools |-> tools[k]]
    /\ \A k \in Tools : ToolSound(tools[k], outputs)
    /\ FillersApart(tools)

LEMMA FilesApart == /\ Absent.file = "absent" /\ TornFile.file = "torn" /\ Absent # TornFile
                    /\ {"report", "candidate", "evidence", "dataset", "approval"} = Kinds
<1>1. Absent.file = "absent" /\ TornFile.file = "torn"
    BY DEF Absent, TornFile
<1> QED
    BY <1>1 DEF Kinds

LEMMA EvidenceInvImplies == EvidenceInv => EvidenceTypeOK /\ EvidenceIsSound
<1> SUFFICES ASSUME EvidenceInv PROVE EvidenceTypeOK /\ EvidenceIsSound
    OBVIOUS
<1>1. /\ \A kind \in Kinds, s \in Slots : OutputSound(kind, outputs[kind][s])
      /\ \A s \in Slots : outputs["approval"][s].file = "whole"
                            => ApprovalOf(outputs["approval"][s], outputs["dataset"][s])
    BY DEF EvidenceInv, OutputsSound
<1>2. EvidenceTypeOK
    <2>1. \A kind \in Kinds, s \in Slots : outputs[kind][s].file \in {"absent", "torn", "whole"}
        BY <1>1, FilesApart DEF OutputSound, ContentSound
    <2> QED
        BY <2>1 DEF EvidenceTypeOK, EvidenceInv
<1>3. ASSUME NEW s \in Slots, Written("dataset", s) PROVE FrozenSetSound(outputs["dataset"][s])
    BY <1>1, <1>3, FilesApart DEF Written, OutputSound, ContentSound
<1>4. ASSUME NEW s \in Slots, Written("approval", s)
      PROVE  Written("dataset", s) /\ outputs["approval"][s].dataset = outputs["dataset"][s]
    BY <1>1, <1>4 DEF Written, ApprovalOf
<1>5. EvidenceIsSound
    BY <1>3, <1>4 DEF EvidenceIsSound, FrozenSetSound
<1> QED
    BY <1>2, <1>5

LEMMA EvidenceInitSound == EvidenceInit => EvidenceInv
<1> SUFFICES ASSUME EvidenceInit PROVE EvidenceInv
    OBVIOUS
<1>1. \A kind \in Kinds, s \in Slots : outputs[kind][s] = Absent
    BY DEF EvidenceInit
<1>2. outputs = [kind \in Kinds |-> [s \in Slots |-> outputs[kind][s]]]
    BY DEF EvidenceInit
<1>3. OutputsSound(outputs)
    BY <1>1, <1>2, FilesApart DEF OutputsSound, OutputSound
<1>4. \A k \in Tools : tools[k].at = "idle"
    BY DEF EvidenceInit, Unused
<1>5. (\A k \in Tools : ToolSound(tools[k], outputs)) /\ FillersApart(tools)
    BY <1>4 DEF ToolSound, FillersApart, Writing
<1>6. /\ inputs.a \in Passes /\ inputs.b \in Passes /\ adjudication \in Adjudications \cup {NoDecisions}
      /\ inputs = [pool |-> inputs.pool, a |-> inputs.a, b |-> inputs.b]
    BY DEF EvidenceInit
<1>7. tools = [k \in Tools |-> tools[k]]
    BY DEF EvidenceInit
<1> QED
    BY <1>3, <1>5, <1>6, <1>7 DEF EvidenceInv

\* One file is written: the others stay, and so does the shape of the table.
OnlyFile(o, o2, kind, s, content) ==
    /\ o2 = [l \in Kinds |-> [r \in Slots |-> o2[l][r]]]
    /\ o2[kind][s] = content
    /\ \A l \in Kinds, r \in Slots : <<l, r>> # <<kind, s>> => o2[l][r] = o[l][r]

WritesFile(o, o2, kind, s, content) == o2 = [o EXCEPT ![kind][s] = content]

LEMMA OneFile ==
    ASSUME NEW o, OutputsSound(o), NEW kind \in Kinds, NEW s \in Slots, NEW content,
           NEW o2, WritesFile(o, o2, kind, s, content)
    PROVE  OnlyFile(o, o2, kind, s, content)
<1>0. o2 = [o EXCEPT ![kind][s] = content]
    BY DEF WritesFile
<1>1. o = [l \in Kinds |-> [r \in Slots |-> o[l][r]]]
    BY DEF OutputsSound
<1>2. DOMAIN o2 = Kinds /\ \A l \in Kinds : o2[l] = IF l = kind THEN [o[l] EXCEPT ![s] = content] ELSE o[l]
    BY <1>0, <1>1
<1>3. \A l \in Kinds : o2[l] = [r \in Slots |-> o2[l][r]]
    <2> TAKE l \in Kinds
    <2>1. o[l] = [r \in Slots |-> o[l][r]]
        BY <1>1
    <2> QED
        BY <1>2, <2>1
<1>4. o2 = [l \in Kinds |-> o2[l]]
    BY <1>0, <1>1
<1>5. o2 = [l \in Kinds |-> [r \in Slots |-> o2[l][r]]]
    BY <1>3, <1>4
<1>6. \A l \in Kinds, r \in Slots : o2[l][r] = IF l = kind /\ r = s THEN content ELSE o[l][r]
    <2> TAKE l \in Kinds, r \in Slots
    <2>1. o[l] = [q \in Slots |-> o[l][q]]
        BY <1>1
    <2> QED
        BY <1>2, <2>1
<1> QED
    BY <1>2, <1>5, <1>6 DEF OnlyFile

\* The other tools do not mind a file that was absent, or torn and not theirs.
LEMMA OtherTool ==
    ASSUME NEW t, NEW o, NEW o2, ToolSound(t, o), NEW kind \in Kinds, NEW s \in Slots,
           \A l \in Kinds, r \in Slots : <<l, r>> # <<kind, s>> => o2[l][r] = o[l][r],
           kind = "dataset" => o[kind][s].file # "whole",
           t.at = "fill" => t.slot # s \/ t.writes[1].kind # kind
    PROVE  ToolSound(t, o2)
<1>1. CASE t.at \notin Writing
    BY <1>1 DEF ToolSound
<1>2. CASE t.at \in Writing
    <2>1. t.slot \in Slots /\ WritesSound(t.slot, t.writes, o)
        BY <1>2 DEF ToolSound
    <2>2. t.writes[1].kind \in Kinds
        BY <2>1, FilesApart DEF WritesSound
    <2>3. t.at = "fill" => o2[t.writes[1].kind][t.slot] = TornFile
        BY <1>2, <2>1, <2>2 DEF ToolSound
    <2>4. WritesSound(t.slot, t.writes, o2)
        <3>1. CASE t.writes[1].kind = "approval" /\ ApprovalOf(t.writes[1].content, o["dataset"][t.slot])
            <4>1. o["dataset"][t.slot].file = "whole"
                BY <3>1 DEF ApprovalOf
            <4>2. o2["dataset"][t.slot] = o["dataset"][t.slot]
                BY <2>1, <4>1, FilesApart
            <4> QED
                BY <2>1, <4>2 DEF WritesSound
        <3>2. CASE ~ (t.writes[1].kind = "approval" /\ ApprovalOf(t.writes[1].content, o["dataset"][t.slot]))
            BY <2>1, <3>2 DEF WritesSound
        <3> QED
            BY <3>1, <3>2
    <2> QED
        BY <1>2, <2>1, <2>3, <2>4 DEF ToolSound
<1> QED
    BY <1>1, <1>2

\* A tool that goes on without touching a file.
LEMMA ToolGoesOn ==
    ASSUME EvidenceInv, NEW k \in Tools, NEW step, ToolSound(step, outputs), step.at # "fill", Moves0(k, step),
           UNCHANGED <<inputs, adjudication, outputs>>
    PROVE  EvidenceInv'
<1>1. /\ tools = [j \in Tools |-> tools[j]] /\ tools' = [tools EXCEPT ![k] = step]
      /\ \A j \in Tools : ToolSound(tools[j], outputs)
    BY DEF EvidenceInv, Moves0
<1>2. /\ tools' = [j \in Tools |-> tools'[j]] /\ tools'[k] = step /\ \A j \in Tools : j # k => tools'[j] = tools[j]
    BY <1>1
<1>3. \A j \in Tools : ToolSound(tools'[j], outputs)
    BY <1>1, <1>2
<1>4. FillersApart(tools')
    BY <1>2 DEF FillersApart, EvidenceInv
<1> QED
    BY <1>2, <1>3, <1>4 DEF EvidenceInv

LEMMA EditFileSound == ASSUME EvidenceInv, EditFile PROVE EvidenceInv'
<1>1. UNCHANGED tools
    BY DEF EditFile
<1>2. CASE UNCHANGED <<adjudication, outputs>>
           /\ inputs' \in {[inputs EXCEPT !.pool = inputs.pool + 1]} \cup [pool : {inputs.pool}, a : Passes, b : Passes]
    <2>1. /\ inputs'.a \in Passes /\ inputs'.b \in Passes
          /\ inputs' = [pool |-> inputs'.pool, a |-> inputs'.a, b |-> inputs'.b]
        <3>1. CASE inputs' = [inputs EXCEPT !.pool = inputs.pool + 1]
            BY <3>1 DEF EvidenceInv
        <3>2. CASE inputs' \in [pool : {inputs.pool}, a : Passes, b : Passes]
            BY <3>2
        <3> QED
            BY <1>2, <3>1, <3>2
    <2> QED
        BY <1>1, <1>2, <2>1 DEF EvidenceInv
<1>3. CASE adjudication' \in Adjudications /\ UNCHANGED <<inputs, outputs>>
    BY <1>1, <1>3 DEF EvidenceInv
<1>4. ASSUME NEW s \in Slots, NEW labels \in Passes, Written("candidate", s),
             outputs' = [outputs EXCEPT !["candidate"][s].labels = labels], UNCHANGED <<inputs, adjudication>>
      PROVE  EvidenceInv'
    <2>1. PICK old : old = outputs["candidate"][s]
        OBVIOUS
    <2>2. PICK new : new = [old EXCEPT !.labels = labels]
        OBVIOUS
    <2>3. OutputsSound(outputs) /\ "candidate" \in Kinds
        BY FilesApart DEF EvidenceInv
    <2>4. outputs' = [outputs EXCEPT !["candidate"][s] = new]
        BY <1>4, <2>1, <2>2
    <2>5. old.file = "whole" /\ CandidateShape(old)
        <3>1. OutputSound("candidate", old)
            BY <2>1, <2>3 DEF OutputsSound
        <3> QED
            BY <1>4, <2>1, <3>1, FilesApart DEF Written, OutputSound, ContentSound
    <2>6. new.file = "whole" /\ CandidateShape(new)
        BY <2>2, <2>5 DEF CandidateShape
    <2>7. /\ outputs' = [l \in Kinds |-> [r \in Slots |-> outputs'[l][r]]]
          /\ outputs'["candidate"][s] = new
          /\ \A l \in Kinds, r \in Slots : <<l, r>> # <<"candidate", s>> => outputs'[l][r] = outputs[l][r]
        <3>1. WritesFile(outputs, outputs', "candidate", s, new)
            BY <2>4 DEF WritesFile
        <3>2. OnlyFile(outputs, outputs', "candidate", s, new)
            BY <2>3, <3>1, OneFile
        <3> QED
            BY <3>2 DEF OnlyFile
    <2>8. OutputsSound(outputs')
        <3>1. \A l \in Kinds, r \in Slots : OutputSound(l, outputs'[l][r])
            BY <2>3, <2>6, <2>7 DEF OutputsSound, OutputSound, ContentSound
        <3>2. \A r \in Slots : /\ outputs'["approval"][r] = outputs["approval"][r]
                               /\ outputs'["dataset"][r] = outputs["dataset"][r]
            BY <2>7, FilesApart
        <3> QED
            BY <2>3, <2>7, <3>1, <3>2 DEF OutputsSound
    <2>9. \A k \in Tools : ToolSound(tools[k], outputs')
        <3> TAKE k \in Tools
        <3>1. ToolSound(tools[k], outputs)
            BY DEF EvidenceInv
        <3>2. tools[k].at = "fill" => tools[k].slot # s \/ tools[k].writes[1].kind # "candidate"
            BY <2>1, <2>5, <3>1, FilesApart DEF ToolSound, Writing
        <3> QED
            BY <2>3, <2>7, <3>1, <3>2, OtherTool
    <2> QED
        BY <1>1, <1>4, <2>8, <2>9 DEF EvidenceInv
<1> QED
    BY <1>2, <1>3, <1>4 DEF EditFile

LEMMA ReadsSound ==
    ASSUME EvidenceInv, NEW k \in Tools, ToolEnds(k) \/ ReadFirst(k) \/ ReadCandidate(k)
    PROVE  EvidenceInv'
<1>1. UNCHANGED <<inputs, adjudication, outputs>>
    BY DEF ToolEnds, ReadFirst, ReadCandidate
<1>2. PICK step : Moves0(k, step) /\ step.at \in {"idle", "measure", "finalize", "freeze"}
    <2>1. CASE ToolEnds(k)
        BY <2>1 DEF ToolEnds, Unused
    <2>2. CASE ReadFirst(k)
        BY <2>2 DEF ReadFirst
    <2>3. CASE ReadCandidate(k)
        BY <2>3 DEF ReadCandidate
    <2> QED
        BY <2>1, <2>2, <2>3
<1>3. ToolSound(step, outputs) /\ step.at # "fill"
    BY <1>2 DEF ToolSound, Writing
<1> QED
    BY <1>1, <1>2, <1>3, ToolGoesOn

\* A tool that knows what it will write.
LEMMA WritesNext ==
    ASSUME EvidenceInv, NEW k \in Tools, NEW s \in Slots, NEW w, WritesSound(s, w, outputs),
           Moves0(k, Writes(s, w)), UNCHANGED <<inputs, adjudication, outputs>>
    PROVE  EvidenceInv'
<1>1. PICK step : step = Writes(s, w)
    OBVIOUS
<1>2. step = [at |-> "create", slot |-> s, writes |-> w]
    BY <1>1 DEF Writes
<1>3. ToolSound(step, outputs) /\ step.at # "fill"
    BY <1>2 DEF ToolSound, Writing
<1> QED
    BY <1>1, <1>3, ToolGoesOn

LEMMA MeasureSound == ASSUME EvidenceInv, NEW k \in Tools, Measure(k) PROVE EvidenceInv'
<1>1. PICK completed \in Days, measured \in Days, s \in Slots :
        /\ completed <= measured
        /\ Moves0(k, Writes(s, <<[kind |-> "report", content |->
             [file |-> "whole", pool |-> tools[k].pool, a |-> tools[k].a, b |-> inputs.b,
              completed |-> completed, measured |-> measured]]>>))
    BY DEF Measure
<1>2. PICK content : content = [file |-> "whole", pool |-> tools[k].pool, a |-> tools[k].a, b |-> inputs.b,
                                completed |-> completed, measured |-> measured]
    OBVIOUS
<1>3. PICK w : w = <<[kind |-> "report", content |-> content]>>
    OBVIOUS
<1>4. ContentSound("report", content)
    BY <1>1, <1>2 DEF ContentSound, ReportSound
<1>5. WritesSound(s, w, outputs)
    BY <1>3, <1>4 DEF WritesSound
<1>6. UNCHANGED <<inputs, adjudication, outputs>> /\ Moves0(k, Writes(s, w))
    BY <1>1, <1>2, <1>3 DEF Measure
<1> QED
    BY <1>5, <1>6, WritesNext

LEMMA FinalizeSound == ASSUME EvidenceInv, NEW k \in Tools, Finalize(k) PROVE EvidenceInv'
<1>1. PICK a, b, pool : a = tools[k].a /\ b = inputs.b /\ pool = tools[k].pool
    OBVIOUS
<1>2. PICK s \in Slots, o \in Slots, day \in Days :
        LET report == outputs["report"][s]
            labelled == [file |-> "whole", labels |-> FinalLabels(a, b, adjudication), pool |-> pool, a |-> a, b |-> b]
        IN /\ Written("report", s) /\ Measured(report, pool, a, b)
           /\ Agrees(a, b)
           /\ DOMAIN adjudication = Disagreements(a, b)
           /\ Represented(labelled.labels)
           /\ adjudication # NoDecisions => report.measured <= day
           /\ Moves0(k, Writes(o, <<[kind |-> "candidate", content |-> labelled],
                [kind |-> "evidence", content |-> Witness(labelled, o, report, adjudication, day)]>>))
    BY <1>1 DEF Finalize
<1>3. PICK report : report = outputs["report"][s]
    OBVIOUS
<1>4. PICK labelled : labelled = [file |-> "whole", labels |-> FinalLabels(a, b, adjudication),
                                    pool |-> pool, a |-> a, b |-> b]
    OBVIOUS
<1>5. PICK witness : witness = Witness(labelled, o, report, adjudication, day)
    OBVIOUS
<1>6. PICK w : w = <<[kind |-> "candidate", content |-> labelled], [kind |-> "evidence", content |-> witness]>>
    OBVIOUS
<1>7. /\ Written("report", s) /\ Measured(report, pool, a, b) /\ DOMAIN adjudication = Disagreements(a, b)
      /\ adjudication # NoDecisions => report.measured <= day
      /\ Moves0(k, Writes(o, w))
    BY <1>2, <1>3, <1>4, <1>5, <1>6
<1>8. ReportSound(report)
    <2>1. OutputSound("report", report)
        BY <1>3, FilesApart DEF EvidenceInv, OutputsSound
    <2> QED
        BY <1>3, <1>7, <2>1, FilesApart DEF OutputSound, ContentSound, Written
<1>9. ContentSound("candidate", labelled)
    BY <1>4 DEF ContentSound, CandidateShape
<1>10. ContentSound("evidence", witness)
    <2>1. /\ witness.file = "whole" /\ witness.candidate = labelled /\ witness.report = report
          /\ witness.adjudication = adjudication
          /\ witness.adjudicated = IF adjudication = NoDecisions THEN 0 ELSE day
        BY <1>5 DEF Witness
    <2>2. labelled.a = a /\ labelled.b = b /\ labelled.pool = pool
          /\ labelled.labels = FinalLabels(a, b, adjudication)
        BY <1>4
    <2>3. WitnessSound(witness)
        BY <1>7, <1>8, <2>1, <2>2 DEF WitnessSound
    <2> QED
        BY <2>1, <2>3 DEF ContentSound
<1>11. WritesSound(o, w, outputs)
    BY <1>6, <1>9, <1>10 DEF WritesSound
<1>12. UNCHANGED <<inputs, adjudication, outputs>>
    BY DEF Finalize
<1> QED
    BY <1>7, <1>11, <1>12, WritesNext

LEMMA FreezeSound == ASSUME EvidenceInv, NEW k \in Tools, Freeze(k) PROVE EvidenceInv'
<1>1. PICK labelled, name : labelled = tools[k].candidate /\ name = tools[k].name
    OBVIOUS
<1>2. PICK s \in Slots, o \in Slots, day \in Days :
        LET witness == outputs["evidence"][s]
            frozenSet == [file |-> "whole", labels |-> labelled.labels, pool |-> labelled.pool,
                          a |-> labelled.a, b |-> labelled.b, witness |-> witness, approved |-> day]
        IN /\ Written("evidence", s) /\ Witnessed0(witness, labelled, name)
           /\ Anchor(witness) <= day
           /\ Agrees(labelled.a, labelled.b) /\ Represented(labelled.labels)
           /\ Moves0(k, Writes(o, <<[kind |-> "dataset", content |-> frozenSet],
                                    [kind |-> "approval", content |-> [file |-> "whole", dataset |-> frozenSet]]>>))
    BY <1>1 DEF Freeze
<1>3. PICK witness : witness = outputs["evidence"][s]
    OBVIOUS
<1>4. PICK set : set = [file |-> "whole", labels |-> labelled.labels, pool |-> labelled.pool,
                        a |-> labelled.a, b |-> labelled.b, witness |-> witness, approved |-> day]
    OBVIOUS
<1>5. PICK approval : approval = [file |-> "whole", dataset |-> set]
    OBVIOUS
<1>6. PICK w : w = <<[kind |-> "dataset", content |-> set], [kind |-> "approval", content |-> approval]>>
    OBVIOUS
<1>7. /\ Written("evidence", s) /\ witness.candidate = labelled /\ Anchor(witness) <= day
      /\ Agrees(labelled.a, labelled.b) /\ Represented(labelled.labels)
      /\ Moves0(k, Writes(o, w))
    BY <1>2, <1>3, <1>4, <1>5, <1>6 DEF Witnessed0
<1>8. WitnessSound(witness)
    <2>1. OutputSound("evidence", witness)
        BY <1>3, FilesApart DEF EvidenceInv, OutputsSound
    <2> QED
        BY <1>3, <1>7, <2>1, FilesApart DEF OutputSound, ContentSound, Written
<1>9. /\ set.labels = labelled.labels /\ set.pool = labelled.pool /\ set.a = labelled.a /\ set.b = labelled.b
      /\ set.witness = witness /\ set.approved = day /\ set.file = "whole"
    BY <1>4
<1>10. FrozenSetSound(set)
    <2>1. /\ witness.report.completed \in Days /\ witness.report.measured \in Days /\ Days = 1 .. LastDay
          /\ witness.report.completed <= witness.report.measured /\ LastDay \in Nat
        BY <1>8, EvidenceConstants DEF WitnessSound, ReportSound, Days
    <2>2. /\ <<witness.report.pool, witness.report.a, witness.report.b>> = <<labelled.pool, labelled.a, labelled.b>>
          /\ DOMAIN witness.adjudication = Disagreements(labelled.a, labelled.b)
          /\ labelled.labels = FinalLabels(labelled.a, labelled.b, witness.adjudication)
          /\ witness.adjudication = NoDecisions => witness.adjudicated = 0
          /\ witness.adjudication # NoDecisions =>
                witness.adjudicated \in Days /\ witness.report.measured <= witness.adjudicated
        BY <1>7, <1>8 DEF WitnessSound, Measured
    <2>3. witness.adjudication # NoDecisions => witness.adjudicated \in witness.report.measured .. day
        BY <1>7, <2>1, <2>2 DEF Anchor
    <2>4. witness.report.measured <= day
        <3>1. witness.adjudicated # 0 => witness.adjudicated <= day
            BY <1>7 DEF Anchor
        <3>2. witness.adjudicated = 0 => witness.report.measured <= day
            BY <1>7 DEF Anchor
        <3> QED
            BY <1>8, <2>1, <2>2, <3>1, <3>2
    <2> QED
        BY <1>7, <1>9, <2>1, <2>2, <2>3, <2>4 DEF FrozenSetSound
<1>11. WritesSound(o, w, outputs)
    <2>1. ContentSound("dataset", set)
        BY <1>9, <1>10 DEF ContentSound
    <2>2. ApprovalOf(approval, set)
        BY <1>5, <1>9 DEF ApprovalOf
    <2> QED
        BY <1>6, <2>1, <2>2 DEF WritesSound
<1>12. UNCHANGED <<inputs, adjudication, outputs>>
    BY DEF Freeze
<1> QED
    BY <1>7, <1>11, <1>12, WritesNext


\* A tool touches one file that was absent, or its own.
LEMMA FileTouched ==
    ASSUME EvidenceInv, NEW k \in Tools, NEW kind \in Kinds, NEW s \in Slots, NEW content, NEW step,
           Moves0(k, step), UNCHANGED <<inputs, adjudication>>,
           WritesFile(outputs, outputs', kind, s, content), OutputSound(kind, content),
           outputs[kind][s] \in {Absent, TornFile},
           kind = "approval" /\ content.file = "whole" => ApprovalOf(content, outputs["dataset"][s]),
           \A j \in Tools : j # k /\ tools[j].at = "fill" => tools[j].slot # s \/ tools[j].writes[1].kind # kind,
           ToolSound(step, outputs'), step.at = "fill" => step.slot = s /\ step.writes[1].kind = kind
    PROVE  EvidenceInv'
<1>1. /\ OutputsSound(outputs) /\ tools = [j \in Tools |-> tools[j]] /\ tools' = [tools EXCEPT ![k] = step]
      /\ \A j \in Tools : ToolSound(tools[j], outputs)
    BY DEF EvidenceInv, Moves0
<1>2. /\ tools' = [j \in Tools |-> tools'[j]] /\ tools'[k] = step /\ \A j \in Tools : j # k => tools'[j] = tools[j]
    BY <1>1
<1>3. OnlyFile(outputs, outputs', kind, s, content)
    BY <1>1, OneFile
<1>4. /\ outputs' = [l \in Kinds |-> [r \in Slots |-> outputs'[l][r]]]
      /\ outputs'[kind][s] = content
      /\ \A l \in Kinds, r \in Slots : <<l, r>> # <<kind, s>> => outputs'[l][r] = outputs[l][r]
    BY <1>3 DEF OnlyFile
<1>5. OutputsSound(outputs')
    <2>1. \A l \in Kinds, r \in Slots : OutputSound(l, outputs'[l][r])
        BY <1>1, <1>4 DEF OutputsSound
    <2>2. ASSUME NEW r \in Slots, outputs'["approval"][r].file = "whole"
          PROVE  ApprovalOf(outputs'["approval"][r], outputs'["dataset"][r])
        <3>1. CASE kind = "approval" /\ r = s
            <4>1. outputs'["dataset"][s] = outputs["dataset"][s]
                BY <1>4, <3>1, FilesApart
            <4> QED
                BY <1>4, <2>2, <3>1, <4>1
        <3>2. CASE ~ (kind = "approval" /\ r = s)
            <4>1. outputs'["approval"][r] = outputs["approval"][r]
                BY <1>4, <3>2, FilesApart
            <4>2. ApprovalOf(outputs["approval"][r], outputs["dataset"][r])
                BY <1>1, <2>2, <4>1 DEF OutputsSound
            <4>3. outputs["dataset"][r].file = "whole"
                BY <4>2 DEF ApprovalOf
            <4>4. outputs'["dataset"][r] = outputs["dataset"][r]
                BY <1>4, <4>3, FilesApart
            <4> QED
                BY <4>1, <4>2, <4>4
        <3> QED
            BY <3>1, <3>2
    <2> QED
        BY <1>4, <2>1, <2>2 DEF OutputsSound
<1>6. \A j \in Tools : ToolSound(tools'[j], outputs')
    <2> TAKE j \in Tools
    <2>1. CASE j = k
        BY <1>2, <2>1
    <2>2. CASE j # k
        <3>1. ToolSound(tools[j], outputs) /\ (tools[j].at = "fill" => tools[j].slot # s \/ tools[j].writes[1].kind # kind)
            BY <1>1, <2>2
        <3>2. kind = "dataset" => outputs[kind][s].file # "whole"
            BY FilesApart
        <3>3. ToolSound(tools[j], outputs')
            BY <1>4, <3>1, <3>2, OtherTool
        <3> QED
            BY <1>2, <2>2, <3>3
    <2> QED
        BY <2>1, <2>2
<1>7. FillersApart(tools')
    <2> SUFFICES ASSUME NEW i \in Tools, NEW j \in Tools, tools'[i].at = "fill", tools'[j].at = "fill",
                        SameFile(tools'[i], tools'[j]), i # j
                 PROVE  FALSE
        BY DEF FillersApart
    <2>1. CASE i # k /\ j # k
        BY <1>2, <2>1 DEF EvidenceInv, FillersApart
    <2>2. CASE i = k
        BY <1>2, <2>2 DEF SameFile
    <2>3. CASE j = k
        BY <1>2, <2>3 DEF SameFile
    <2> QED
        BY <2>1, <2>2, <2>3
<1>8. inputs' = inputs /\ adjudication' = adjudication
    OBVIOUS
<1>9. /\ inputs'.a \in Passes /\ inputs'.b \in Passes /\ adjudication' \in Adjudications \cup {NoDecisions}
      /\ inputs' = [pool |-> inputs'.pool, a |-> inputs'.a, b |-> inputs'.b]
    BY <1>8 DEF EvidenceInv
<1> QED
    BY <1>2, <1>5, <1>6, <1>7, <1>9 DEF EvidenceInv

\* What a tool that writes is about to do.
LEMMA WriterIsSound ==
    ASSUME EvidenceInv, NEW k \in Tools, tools[k].at \in Writing
    PROVE  /\ tools[k].slot \in Slots /\ WritesSound(tools[k].slot, tools[k].writes, outputs)
           /\ tools[k] = [at |-> tools[k].at, slot |-> tools[k].slot, writes |-> tools[k].writes]
           /\ tools[k].writes[1].kind \in Kinds
           /\ tools[k].at = "fill" => outputs[tools[k].writes[1].kind][tools[k].slot] = TornFile
           /\ Head(tools[k].writes) = tools[k].writes[1] /\ 1 \in DOMAIN tools[k].writes
<1>1. /\ tools[k].slot \in Slots /\ WritesSound(tools[k].slot, tools[k].writes, outputs)
      /\ tools[k] = [at |-> tools[k].at, slot |-> tools[k].slot, writes |-> tools[k].writes]
      /\ tools[k].at = "fill" => outputs[tools[k].writes[1].kind][tools[k].slot] = TornFile
    BY DEF EvidenceInv, ToolSound
<1>2. PICK w : w = tools[k].writes
    OBVIOUS
<1>3. (w = <<w[1]>> \/ w = <<w[1], w[2]>>) /\ w[1].kind \in Kinds
    BY <1>1, <1>2, FilesApart DEF WritesSound
<1>4. Head(w) = w[1] /\ 1 \in DOMAIN w
    BY <1>3
<1> QED
    BY <1>1, <1>2, <1>3, <1>4

LEMMA CreateFileSound == ASSUME EvidenceInv, NEW k \in Tools, CreateFile(k) PROVE EvidenceInv'
<1>1. PICK s, w : s = tools[k].slot /\ w = tools[k].writes
    OBVIOUS
<1>2. PICK kind : kind = w[1].kind
    OBVIOUS
<1>3. tools[k].at = "create" /\ tools[k].at \in Writing
    BY DEF CreateFile, ToolAt, Writing
<1>4. /\ s \in Slots /\ WritesSound(s, w, outputs) /\ tools[k] = [at |-> "create", slot |-> s, writes |-> w]
      /\ kind \in Kinds /\ Head(w) = w[1] /\ 1 \in DOMAIN w
    BY <1>1, <1>2, <1>3, WriterIsSound
<1>5. outputs[kind][s] = Absent
    BY <1>1, <1>2, <1>4 DEF CreateFile, NewOutputs
<1>6. PICK step : step = [tools[k] EXCEPT !.at = "fill"]
    OBVIOUS
<1>7. step = [at |-> "fill", slot |-> s, writes |-> w]
    BY <1>4, <1>6
<1>8. /\ Moves0(k, step) /\ UNCHANGED <<inputs, adjudication>> /\ WritesFile(outputs, outputs', kind, s, TornFile)
    BY <1>1, <1>2, <1>4, <1>6 DEF CreateFile, WritesFile
<1>9. OnlyFile(outputs, outputs', kind, s, TornFile)
    BY <1>4, <1>8, OneFile DEF EvidenceInv
<1>10. ToolSound(step, outputs')
    <2>1. kind = "approval" => outputs'["dataset"][s] = outputs["dataset"][s]
        BY <1>4, <1>9, FilesApart DEF OnlyFile
    <2>2. WritesSound(s, w, outputs')
        <3>1. CASE kind = "approval"
            BY <1>2, <1>4, <2>1, <3>1 DEF WritesSound
        <3>2. CASE kind # "approval"
            BY <1>2, <1>4, <3>2 DEF WritesSound
        <3> QED
            BY <3>1, <3>2
    <2>3. outputs'[kind][s] = TornFile
        BY <1>9 DEF OnlyFile
    <2> QED
        BY <1>2, <1>4, <1>7, <2>2, <2>3 DEF ToolSound, Writing
<1>11. ASSUME NEW j \in Tools, tools[j].at = "fill"
       PROVE  tools[j].slot # s \/ tools[j].writes[1].kind # kind
    <2>1. outputs[tools[j].writes[1].kind][tools[j].slot] = TornFile
        BY <1>11, WriterIsSound DEF Writing
    <2> QED
        BY <1>5, <2>1, FilesApart
<1>12. OutputSound(kind, TornFile) /\ TornFile.file # "whole"
    BY FilesApart DEF OutputSound
<1>13. step.slot = s /\ step.writes[1].kind = kind
    BY <1>2, <1>7
<1> QED
    BY <1>4, <1>5, <1>8, <1>10, <1>11, <1>12, <1>13, FileTouched

LEMMA FillFileSound == ASSUME EvidenceInv, NEW k \in Tools, FillFile(k) PROVE EvidenceInv'
<1>1. PICK s, w : s = tools[k].slot /\ w = tools[k].writes
    OBVIOUS
<1>2. PICK kind, content : kind = w[1].kind /\ content = w[1].content
    OBVIOUS
<1>3. tools[k].at = "fill" /\ tools[k].at \in Writing
    BY DEF FillFile, ToolAt, Writing
<1>4. /\ s \in Slots /\ WritesSound(s, w, outputs) /\ kind \in Kinds /\ Head(w) = w[1]
      /\ outputs[kind][s] = TornFile
    BY <1>1, <1>2, <1>3, WriterIsSound
<1>5. PICK step : step = IF Len(w) = 1 THEN Unused ELSE Writes(s, Tail(w))
    OBVIOUS
<1>6. Moves0(k, step) /\ UNCHANGED <<inputs, adjudication>> /\ WritesFile(outputs, outputs', kind, s, content)
    BY <1>1, <1>2, <1>4, <1>5 DEF FillFile, WritesFile
<1>7. OnlyFile(outputs, outputs', kind, s, content)
    BY <1>4, <1>6, OneFile DEF EvidenceInv
<1>8. ToolSound(step, outputs') /\ step.at # "fill"
    <2>1. CASE w = <<w[1]>>
        <3>1. step = Unused
            BY <1>5, <2>1
        <3> QED
            BY <3>1 DEF Unused, ToolSound, Writing
    <2>2. CASE w = <<w[1], w[2]>>
        <3>1. Len(w) = 2 /\ Tail(w) = <<w[2]>>
            <4>1. PICK x, y : x = w[1] /\ y = w[2]
                OBVIOUS
            <4>2. w = <<x, y>>
                BY <2>2, <4>1
            <4>3. Len(<<x, y>>) = 2
                OBVIOUS
            <4>4. Tail(<<x, y>>) = <<y>>
                OBVIOUS
            <4> QED
                BY <4>1, <4>2, <4>3, <4>4
        <3>2. PICK rest : rest = <<w[2]>>
            OBVIOUS
        <3>3. rest = <<rest[1]>> /\ rest[1] = w[2]
            BY <3>2
        <3>4. step = [at |-> "create", slot |-> s, writes |-> rest]
            <4>1. Len(w) # 1
                BY <3>1
            <4>2. step = Writes(s, Tail(w))
                BY <1>5, <4>1
            <4> QED
                BY <3>1, <3>2, <4>2 DEF Writes
        <3>5. kind = "dataset" => outputs'["dataset"][s] = content
            BY <1>7 DEF OnlyFile
        <3>6. \/ w[2].kind = "evidence" /\ ContentSound("evidence", w[2].content)
              \/ kind = "dataset" /\ w[2].kind = "approval" /\ ApprovalOf(w[2].content, content)
            <4>1. Len(<<w[1]>>) = 1
                OBVIOUS
            <4>2. w # <<w[1]>>
                BY <3>1, <4>1
            <4> QED
                BY <1>2, <1>4, <4>2 DEF WritesSound
        <3>7. WritesSound(s, rest, outputs')
            <4>1. CASE w[2].kind = "evidence" /\ ContentSound("evidence", w[2].content)
                BY <3>3, <4>1 DEF WritesSound
            <4>2. CASE kind = "dataset" /\ w[2].kind = "approval" /\ ApprovalOf(w[2].content, content)
                BY <3>3, <3>5, <4>2 DEF WritesSound
            <4> QED
                BY <3>6, <4>1, <4>2
        <3> QED
            BY <1>4, <3>4, <3>7 DEF ToolSound, Writing
    <2> QED
        BY <1>4, <2>1, <2>2 DEF WritesSound
<1>9. /\ OutputSound(kind, content)
      /\ kind = "approval" /\ content.file = "whole" => ApprovalOf(content, outputs["dataset"][s])
    <2>1. \/ ContentSound(kind, content) /\ kind # "approval"
          \/ kind = "approval" /\ ApprovalOf(content, outputs["dataset"][s])
        BY <1>2, <1>4 DEF WritesSound
    <2>2. CASE kind = "approval" /\ ApprovalOf(content, outputs["dataset"][s])
        BY <2>2 DEF ApprovalOf, OutputSound, ContentSound
    <2> QED
        BY <2>1, <2>2 DEF OutputSound
<1>10. ASSUME NEW j \in Tools, j # k, tools[j].at = "fill"
       PROVE  tools[j].slot # s \/ tools[j].writes[1].kind # kind
    BY <1>1, <1>2, <1>3, <1>10 DEF EvidenceInv, FillersApart, SameFile
<1> QED
    BY <1>4, <1>6, <1>8, <1>9, <1>10, FileTouched

LEMMA EvidenceStepSound == EvidenceInv /\ [EvidenceNext]_evidenceVars => EvidenceInv'
<1> SUFFICES ASSUME EvidenceInv, [EvidenceNext]_evidenceVars PROVE EvidenceInv'
    OBVIOUS
<1>1. CASE EditFile
    BY <1>1, EditFileSound
<1>2. ASSUME NEW k \in Tools, ToolEnds(k) \/ ReadFirst(k) \/ ReadCandidate(k) PROVE EvidenceInv'
    BY <1>2, ReadsSound
<1>3. ASSUME NEW k \in Tools, CreateFile(k) PROVE EvidenceInv'
    BY <1>3, CreateFileSound
<1>4. ASSUME NEW k \in Tools, FillFile(k) PROVE EvidenceInv'
    BY <1>4, FillFileSound
<1>5. ASSUME NEW k \in Tools, Measure(k) PROVE EvidenceInv'
    BY <1>5, MeasureSound
<1>6. ASSUME NEW k \in Tools, Finalize(k) PROVE EvidenceInv'
    BY <1>6, FinalizeSound
<1>7. ASSUME NEW k \in Tools, Freeze(k) PROVE EvidenceInv'
    BY <1>7, FreezeSound
<1>8. CASE UNCHANGED evidenceVars
    BY <1>8 DEF evidenceVars, EvidenceInv
<1> QED
    BY <1>1, <1>2, <1>3, <1>4, <1>5, <1>6, <1>7, <1>8 DEF EvidenceNext

\* A frozen data set has the labels on which two passes agree that were measured
\* as they are, well enough, and the adjudicator's for exactly the others, and
\* its approval manifest stands beside the very set that it names, for every
\* pool, any number of tools and files, whatever people edit meanwhile and
\* wherever a tool dies (finalize_local_model_dataset_candidate.py,
\* freeze_local_model_dataset.py).
THEOREM EvidenceSound == EvidenceSpec => [](EvidenceTypeOK /\ EvidenceIsSound)
<1>1. EvidenceInit => EvidenceInv
    BY EvidenceInitSound
<1>2. EvidenceInv /\ [EvidenceNext]_evidenceVars => EvidenceInv'
    BY EvidenceStepSound
<1>3. EvidenceInv => EvidenceTypeOK /\ EvidenceIsSound
    BY EvidenceInvImplies
<1> QED
    BY <1>1, <1>2, <1>3, PTL DEF EvidenceSpec

-----------------------------------------------------------------------------
(* The activation of private answers (Activation).                         *)

\* What reaches all of a finite set is the set.
LEMMA AllOfIt ==
    ASSUME NEW whole, IsFiniteSet(whole), NEW part, part \subseteq whole, AtLeast(Share(part, whole), All)
    PROVE  part = whole
<1>1. IsFiniteSet(part) /\ Cardinality(part) <= Cardinality(whole)
      /\ (Cardinality(part) = Cardinality(whole) => part = whole)
    BY FS_Subset
<1>2. Cardinality(part) \in Nat /\ Cardinality(whole) \in Nat
    BY <1>1, FS_CardinalityType
<1>3. Cardinality(part) * 1 >= 1 * Cardinality(whole)
    BY DEF AtLeast, Share, All
<1> QED
    BY <1>1, <1>2, <1>3

\* What a green verdict says of the cases.
VerdictSound(verdict) ==
    verdict.green =>
      LET answerable == {c \in verdict.dataset : Expected(c) = "answered"}
          failed == verdict.failed
      IN failed \subseteq answerable /\ AtLeast(Share(answerable \ failed, answerable), AnswerShare[verdict.policy])

LEMMA GatedMeans ==
    ASSUME NEW policy, NEW dataset \in SUBSET AnswerCases, NEW reply, Gated(policy, dataset, reply),
           NEW failed, failed = {c \in dataset : ~ CasePassed(c, reply[c])},
           NEW answerable, answerable = {c \in dataset : Expected(c) = "answered"}
    PROVE  failed \subseteq answerable /\ AtLeast(Share(answerable \ failed, answerable), AnswerShare[policy])
<1>1. \A rate \in {"recall", "supported", "cited", "covered", "schema", "context"} :
        AtLeast(Rates(dataset, reply)[rate], Minimum(policy)[rate])
    BY DEF Gated, Minimum
<1>2. PICK silent : silent = {c \in dataset : reply[c].status = "insufficient"}
    OBVIOUS
<1>3. PICK right : right = {c \in answerable : FactSupported(c, reply[c]) /\ StatusCorrect(c, reply[c])}
    OBVIOUS
<1>4. /\ AtLeast(Share(silent \ answerable, dataset \ answerable), All)
      /\ AtLeast(Share(right, answerable), AnswerShare[policy])
      /\ AtLeast(Share({c \in dataset : CitationCorrect(c, reply[c])}, dataset), All)
      /\ AtLeast(Share({c \in dataset : reply[c].covered}, dataset), All)
      /\ AtLeast(Share({c \in dataset : reply[c] # NoReply}, dataset), All)
      /\ AtLeast(Share({c \in dataset : reply[c].context}, dataset), All)
    BY <1>1, <1>2, <1>3 DEF Rates, Minimum
<1>5. IsFiniteSet(dataset) /\ IsFiniteSet(dataset \ answerable)
    BY ActivationConstants, FS_Subset
<1>6. silent \ answerable = dataset \ answerable
    BY <1>2, <1>4, <1>5, AllOfIt
<1>7. {c \in dataset : CitationCorrect(c, reply[c])} = dataset
    BY <1>4, <1>5, AllOfIt
<1>8. {c \in dataset : reply[c].covered} = dataset
    BY <1>4, <1>5, AllOfIt
<1>9. {c \in dataset : reply[c] # NoReply} = dataset
    BY <1>4, <1>5, AllOfIt
<1>10. {c \in dataset : reply[c].context} = dataset
    BY <1>4, <1>5, AllOfIt
<1>11. \A c \in dataset : ~ InjectionSuccess(c, reply[c])
    BY DEF Gated
<1>12. \A c \in dataset : CasePassed(c, reply[c]) <=> StatusCorrect(c, reply[c]) /\ FactSupported(c, reply[c])
    BY <1>7, <1>8, <1>9, <1>10, <1>11 DEF CasePassed
<1>13. failed \subseteq answerable
    <2>1. ASSUME NEW c \in dataset, c \notin answerable
          PROVE  StatusCorrect(c, reply[c]) /\ FactSupported(c, reply[c])
        <3>1. CategoryOf[c] # "answerable" /\ Expected(c) = "insufficient"
            BY <2>1 DEF Expected
        <3>2. reply[c].status = "insufficient"
            BY <1>2, <1>6, <2>1
        <3> QED
            BY <3>1, <3>2 DEF StatusCorrect, FactSupported
    <2> QED
        BY <1>12, <2>1
<1>14. answerable \ failed = right
    BY <1>3, <1>12
<1> QED
    BY <1>4, <1>13, <1>14

LEMMA VerdictsSound == \A verdict \in Verdicts : VerdictSound(verdict)
<1> TAKE verdict \in Verdicts
<1>1. PICK policy \in Policies, dataset \in SUBSET AnswerCases : verdict \in VerdictsOn(policy, dataset)
    BY DEF Verdicts
<1>2. CASE verdict = [policy |-> policy, dataset |-> dataset, green |-> FALSE, failed |-> dataset]
    <2>1. ~ verdict.green
        BY <1>2, Zenon
    <2> QED
        BY <2>1 DEF VerdictSound
<1>3. CASE verdict # [policy |-> policy, dataset |-> dataset, green |-> FALSE, failed |-> dataset]
    <2>1. \E reply : /\ Gated(policy, dataset, reply)
                     /\ verdict = [policy |-> policy, dataset |-> dataset, green |-> TRUE,
                                   failed |-> {c \in dataset : ~ CasePassed(c, reply[c])}]
        BY <1>1, <1>3, Zenon DEF VerdictsOn
    <2>2. PICK reply : /\ Gated(policy, dataset, reply)
                       /\ verdict = [policy |-> policy, dataset |-> dataset, green |-> TRUE,
                                     failed |-> {c \in dataset : ~ CasePassed(c, reply[c])}]
        BY <2>1
    <2>3. PICK failed, answerable : failed = {c \in dataset : ~ CasePassed(c, reply[c])}
                                    /\ answerable = {c \in dataset : Expected(c) = "answered"}
        OBVIOUS
    <2>4. failed \subseteq answerable /\ AtLeast(Share(answerable \ failed, answerable), AnswerShare[policy])
        BY <2>2, <2>3, GatedMeans
    <2>5. verdict.policy = policy /\ verdict.dataset = dataset /\ verdict.failed = failed
        BY <2>2, <2>3, Zenon
    <2>6. {c \in verdict.dataset : Expected(c) = "answered"} = answerable
        BY <2>3, <2>5
    <2> QED
        BY <2>4, <2>5, <2>6 DEF VerdictSound
<1> QED
    BY <1>2, <1>3

\* An approval of a report that is still there.
AnswerApprovalSound(approval, a, onDay) ==
    /\ approval.path \in AnswerReports /\ approval.report.file = "whole" /\ a[approval.path] = approval.report
    /\ approval.from \in Nat /\ approval.until \in Nat /\ approval.from <= onDay

ReceiptSound(content, a) ==
    LET approval == content.approval
    IN /\ content.file = "whole" /\ approval.path \in AnswerReports /\ approval.report.file = "whole"
       /\ a[approval.path] = approval.report
       /\ content.on \in approval.from .. approval.until - 1 /\ approval.commit = "head"
       /\ content.found = approval.corpus

\* Whether an approval was in force on the day it was read.
InForce(approval, on, a) ==
    /\ approval.path \in AnswerReports /\ approval.report.file = "whole" /\ a[approval.path] = approval.report
    /\ on \in approval.from .. approval.until - 1 /\ approval.commit = "head"

\* What a process holds, and which files are its own.
ProcessSound(p, a, rs) ==
    /\ p.at \in {"idle", "dataset_read", "reporting", "approval_read", "corpus_read", "built", "receipt", "received",
                 "commitment"}
    /\ p.at = "reporting" =>
        /\ p.path \in AnswerReports /\ a[p.path] = HalfThere
        /\ p.content.file = "whole" /\ VerdictSound(p.content)
    /\ p.at \in {"approval_read", "corpus_read"} => InForce(p.approval, p.on, a)
    /\ p.at \in {"built", "receipt", "received", "commitment"} =>
        /\ p = [at |-> p.at, path |-> p.path, commitment |-> p.commitment, content |-> p.content]
        /\ p.path \in ReceiptPaths /\ p.commitment \in CommitmentPaths /\ ReceiptSound(p.content, a)
    /\ p.at = "receipt" => rs[p.path] = HalfThere
    /\ p.at \in {"received", "commitment"} => rs[p.path] = p.content

AnswerFileSound(file) == file \in {NotThere, HalfThere} \/ (file.file = "whole" /\ VerdictSound(file))
ReceiptFileSound(file, a) == file \in {NotThere, HalfThere} \/ ReceiptSound(file, a)
CommitmentFileSound(file, rs) ==
    \/ file \in {NotThere, HalfThere}
    \/ /\ file.file = "whole" /\ file.path \in ReceiptPaths /\ file.receipt.file = "whole"
       /\ rs[file.path] = file.receipt

WritersApart(ps) ==
    \A o, q \in Operations :
        /\ ps[o].at = "reporting" /\ ps[q].at = "reporting" /\ ps[o].path = ps[q].path => o = q
        /\ ps[o].at = "receipt" /\ ps[q].at = "receipt" /\ ps[o].path = ps[q].path => o = q

FilesSound(a, rs, cs) ==
    /\ a = [r \in AnswerReports |-> a[r]] /\ rs = [p \in ReceiptPaths |-> rs[p]] /\ cs = [c \in CommitmentPaths |-> cs[c]]
    /\ \A r \in AnswerReports : AnswerFileSound(a[r])
    /\ \A p \in ReceiptPaths : ReceiptFileSound(rs[p], a)
    /\ \A c \in CommitmentPaths : CommitmentFileSound(cs[c], rs)

OwnerSound(own, a, onDay) == own.given => AnswerApprovalSound(own, a, onDay)

ActivationInv ==
    /\ materials.dataset \subseteq AnswerCases /\ day0 \in 0 .. LastValidDay /\ touched \in 0 .. CorpusEdits
    /\ FilesSound(answers, receipts0, commitments)
    /\ OwnerSound(owner, answers, day0)
    /\ operation = [o \in Operations |-> operation[o]]
    /\ \A o \in Operations : ProcessSound(operation[o], answers, receipts0)
    /\ WritersApart(operation)

LEMMA HalvesApart == NotThere.file = "absent" /\ HalfThere.file = "torn" /\ NotThere # HalfThere
<1>1. NotThere.file = "absent" /\ HalfThere.file = "torn"
    BY DEF NotThere, HalfThere
<1> QED
    BY <1>1

LEMMA ActivationInvImplies == ActivationInv => ActivationTypeOK /\ ActivationIsBound
<1> SUFFICES ASSUME ActivationInv PROVE ActivationTypeOK /\ ActivationIsBound
    OBVIOUS
<1>1. /\ \A r \in AnswerReports : AnswerFileSound(answers[r])
      /\ \A p \in ReceiptPaths : ReceiptFileSound(receipts0[p], answers)
      /\ \A c \in CommitmentPaths : CommitmentFileSound(commitments[c], receipts0)
    BY DEF ActivationInv, FilesSound
<1>2. \A r \in AnswerReports : answers[r].file \in {"absent", "torn", "whole"}
    BY <1>1, HalvesApart DEF AnswerFileSound
<1>3. ActivationTypeOK
    BY <1>2 DEF ActivationTypeOK, ActivationInv
<1>4. ASSUME NEW r \in AnswerReports, answers[r].file = "whole", answers[r].green
      PROVE  VerdictSound(answers[r])
    BY <1>1, <1>4, HalvesApart DEF AnswerFileSound
<1>5. ASSUME NEW p \in ReceiptPaths, receipts0[p].file = "whole"
      PROVE  ReceiptSound(receipts0[p], answers)
    BY <1>1, <1>5, HalvesApart DEF ReceiptFileSound
<1>6. ASSUME NEW c \in CommitmentPaths, commitments[c].file = "whole"
      PROVE  receipts0[commitments[c].path] = commitments[c].receipt
    BY <1>1, <1>6, HalvesApart DEF CommitmentFileSound
<1>7. ActivationIsBound
    BY <1>4, <1>5, <1>6 DEF ActivationIsBound, VerdictSound, ReceiptSound
<1> QED
    BY <1>3, <1>7

LEMMA ActivationInitSound == ActivationInit => ActivationInv
<1> SUFFICES ASSUME ActivationInit PROVE ActivationInv
    OBVIOUS
<1>1. /\ \A r \in AnswerReports : answers[r] = NotThere
      /\ \A p \in ReceiptPaths : receipts0[p] = NotThere
      /\ \A c \in CommitmentPaths : commitments[c] = NotThere
    BY DEF ActivationInit
<1>2. /\ answers = [r \in AnswerReports |-> answers[r]] /\ receipts0 = [p \in ReceiptPaths |-> receipts0[p]]
      /\ commitments = [c \in CommitmentPaths |-> commitments[c]]
    BY DEF ActivationInit
<1>3. FilesSound(answers, receipts0, commitments)
    <2>1. \A r \in AnswerReports : AnswerFileSound(answers[r])
        BY <1>1 DEF AnswerFileSound
    <2>2. \A p \in ReceiptPaths : ReceiptFileSound(receipts0[p], answers)
        BY <1>1 DEF ReceiptFileSound
    <2>3. \A c \in CommitmentPaths : CommitmentFileSound(commitments[c], receipts0)
        BY <1>1 DEF CommitmentFileSound
    <2> QED
        BY <1>2, <2>1, <2>2, <2>3 DEF FilesSound
<1>4. \A o \in Operations : operation[o].at = "idle"
    BY DEF ActivationInit, AtRest
<1>5. /\ \A o \in Operations : ProcessSound(operation[o], answers, receipts0)
      /\ WritersApart(operation)
    BY <1>4 DEF ProcessSound, WritersApart
<1>6. OwnerSound(owner, answers, day0)
    BY DEF ActivationInit, NoApproval, OwnerSound
<1>7. materials.dataset \subseteq AnswerCases /\ day0 \in 0 .. LastValidDay /\ touched \in 0 .. CorpusEdits
    BY ActivationConstants DEF ActivationInit
<1>8. operation = [o \in Operations |-> operation[o]]
    BY DEF ActivationInit
<1> QED
    BY <1>3, <1>5, <1>6, <1>7, <1>8 DEF ActivationInv

\* A process that goes on without touching a file.
LEMMA ProcessGoesOn ==
    ASSUME ActivationInv, NEW o \in Operations, NEW step, OperationGoes(o, step),
           ProcessSound(step, answers, receipts0), step.at \notin {"reporting", "receipt"},
           UNCHANGED <<materials, owner, answers, receipts0, commitments, day0, touched>>
    PROVE  ActivationInv'
<1>1. /\ operation = [q \in Operations |-> operation[q]] /\ operation' = [operation EXCEPT ![o] = step]
      /\ \A q \in Operations : ProcessSound(operation[q], answers, receipts0)
    BY DEF ActivationInv, OperationGoes
<1>2. /\ operation' = [q \in Operations |-> operation'[q]] /\ operation'[o] = step
      /\ \A q \in Operations : q # o => operation'[q] = operation[q]
    BY <1>1
<1>3. \A q \in Operations : ProcessSound(operation'[q], answers, receipts0)
    BY <1>1, <1>2
<1>4. WritersApart(operation')
    BY <1>2 DEF WritersApart, ActivationInv
<1> QED
    BY <1>2, <1>3, <1>4 DEF ActivationInv

\* Reports are there once and for all, receipts too.
LEMMA OtherProcess ==
    ASSUME NEW p, NEW a, NEW rs, NEW a2, NEW rs2, ProcessSound(p, a, rs),
           \A r \in AnswerReports : a[r].file = "whole" => a2[r] = a[r],
           \A r \in ReceiptPaths : rs[r].file = "whole" => rs2[r] = rs[r],
           p.at = "reporting" => a2[p.path] = a[p.path],
           p.at = "receipt" => rs2[p.path] = rs[p.path]
    PROVE  ProcessSound(p, a2, rs2)
<1>1. p.at = "reporting" => a2[p.path] = HalfThere
    BY DEF ProcessSound
<1>2. p.at \in {"approval_read", "corpus_read"} => InForce(p.approval, p.on, a2)
    BY DEF ProcessSound, InForce
<1>3. p.at \in {"built", "receipt", "received", "commitment"} => ReceiptSound(p.content, a2)
    BY DEF ProcessSound, ReceiptSound
<1>4. p.at = "receipt" => rs2[p.path] = HalfThere
    BY DEF ProcessSound
<1>5. p.at \in {"received", "commitment"} => rs2[p.path] = p.content
    BY DEF ProcessSound, ReceiptSound
<1> QED
    BY <1>1, <1>2, <1>3, <1>4, <1>5 DEF ProcessSound

\* A process goes on, and what is there whole stays.
LEMMA FilesGrow ==
    ASSUME ActivationInv, NEW o \in Operations, NEW step, OperationGoes(o, step),
           UNCHANGED <<materials, owner, day0, touched>>,
           FilesSound(answers', receipts0', commitments'),
           \A r \in AnswerReports : answers[r].file = "whole" => answers'[r] = answers[r],
           \A p \in ReceiptPaths : receipts0[p].file = "whole" => receipts0'[p] = receipts0[p],
           \A q \in Operations : q # o =>
                /\ operation[q].at = "reporting" => answers'[operation[q].path] = answers[operation[q].path]
                /\ operation[q].at = "receipt" => receipts0'[operation[q].path] = receipts0[operation[q].path]
                /\ operation[q].at = step.at /\ step.at \in {"reporting", "receipt"} => operation[q].path # step.path,
           ProcessSound(step, answers', receipts0')
    PROVE  ActivationInv'
<1>1. /\ operation = [q \in Operations |-> operation[q]] /\ operation' = [operation EXCEPT ![o] = step]
      /\ \A q \in Operations : ProcessSound(operation[q], answers, receipts0)
    BY DEF ActivationInv, OperationGoes
<1>2. /\ operation' = [q \in Operations |-> operation'[q]] /\ operation'[o] = step
      /\ \A q \in Operations : q # o => operation'[q] = operation[q]
    BY <1>1
<1>3. \A q \in Operations : ProcessSound(operation'[q], answers', receipts0')
    <2> TAKE q \in Operations
    <2>1. CASE q = o
        BY <1>2, <2>1
    <2>2. CASE q # o
        <3>1. /\ ProcessSound(operation[q], answers, receipts0)
              /\ operation[q].at = "reporting" => answers'[operation[q].path] = answers[operation[q].path]
              /\ operation[q].at = "receipt" => receipts0'[operation[q].path] = receipts0[operation[q].path]
            BY <1>1, <2>2
        <3>2. ProcessSound(operation[q], answers', receipts0')
            BY <3>1, OtherProcess
        <3> QED
            BY <1>2, <2>2, <3>2
    <2> QED
        BY <2>1, <2>2
<1>4. WritersApart(operation')
    <2> SUFFICES ASSUME NEW i \in Operations, NEW j \in Operations, i # j, operation'[i].at = operation'[j].at,
                        operation'[i].at \in {"reporting", "receipt"}, operation'[i].path = operation'[j].path
                 PROVE  FALSE
        BY DEF WritersApart
    <2>1. CASE i # o /\ j # o
        BY <1>2, <2>1 DEF ActivationInv, WritersApart
    <2>2. CASE i = o
        BY <1>2, <2>2
    <2>3. CASE j = o
        BY <1>2, <2>3
    <2> QED
        BY <2>1, <2>2, <2>3
<1>5. OwnerSound(owner, answers', day0)
    BY DEF ActivationInv, OwnerSound, AnswerApprovalSound
<1>6. /\ materials' = materials /\ owner' = owner /\ day0' = day0 /\ touched' = touched
    OBVIOUS
<1> QED
    BY <1>2, <1>3, <1>4, <1>5, <1>6 DEF ActivationInv

\* What is there whole stays; one file may be written.
KeptWhole(f, f2, x, S) == \A q \in S : q # x \/ f[q].file = "whole" => f2[q] = f[q]
WritesOne(f, f2, x, file) == f2 = [f EXCEPT ![x] = file]

\* Reports may change if those that are there stay.
LEMMA AnswersChange ==
    ASSUME NEW a, NEW rs, NEW cs, FilesSound(a, rs, cs), NEW r \in AnswerReports, a[r].file # "whole",
           NEW file, AnswerFileSound(file), NEW a2, WritesOne(a, a2, r, file)
    PROVE  /\ FilesSound(a2, rs, cs) /\ a2[r] = file
           /\ KeptWhole(a, a2, r, AnswerReports)
<1>1. a = [q \in AnswerReports |-> a[q]]
    BY DEF FilesSound
<1>2. /\ a2 = [q \in AnswerReports |-> a2[q]] /\ a2[r] = file
      /\ \A q \in AnswerReports : q # r \/ a[q].file = "whole" => a2[q] = a[q]
    BY <1>1 DEF WritesOne
<1>3. \A q \in AnswerReports : AnswerFileSound(a2[q])
    BY <1>2 DEF FilesSound
<1>4. \A p \in ReceiptPaths : ReceiptFileSound(rs[p], a2)
    <2> TAKE p \in ReceiptPaths
    <2>1. ReceiptFileSound(rs[p], a)
        BY DEF FilesSound
    <2> QED
        BY <1>2, <2>1 DEF ReceiptFileSound, ReceiptSound
<1> QED
    BY <1>2, <1>3, <1>4 DEF FilesSound, KeptWhole

LEMMA ReceiptsChange ==
    ASSUME NEW a, NEW rs, NEW cs, FilesSound(a, rs, cs), NEW r \in ReceiptPaths, rs[r].file # "whole",
           NEW file, ReceiptFileSound(file, a), NEW rs2, WritesOne(rs, rs2, r, file)
    PROVE  /\ FilesSound(a, rs2, cs) /\ rs2[r] = file
           /\ KeptWhole(rs, rs2, r, ReceiptPaths)
<1>1. rs = [q \in ReceiptPaths |-> rs[q]]
    BY DEF FilesSound
<1>2. /\ rs2 = [q \in ReceiptPaths |-> rs2[q]] /\ rs2[r] = file
      /\ \A q \in ReceiptPaths : q # r \/ rs[q].file = "whole" => rs2[q] = rs[q]
    BY <1>1 DEF WritesOne
<1>3. \A q \in ReceiptPaths : ReceiptFileSound(rs2[q], a)
    BY <1>2 DEF FilesSound
<1>4. \A c \in CommitmentPaths : CommitmentFileSound(cs[c], rs2)
    <2> TAKE c \in CommitmentPaths
    <2>1. CommitmentFileSound(cs[c], rs)
        BY DEF FilesSound
    <2> QED
        BY <1>2, <2>1 DEF CommitmentFileSound
<1> QED
    BY <1>2, <1>3, <1>4 DEF FilesSound, KeptWhole

LEMMA CommitmentsChange ==
    ASSUME NEW a, NEW rs, NEW cs, FilesSound(a, rs, cs), NEW c \in CommitmentPaths,
           NEW file, CommitmentFileSound(file, rs), NEW cs2, WritesOne(cs, cs2, c, file)
    PROVE  FilesSound(a, rs, cs2)
<1>1. cs = [q \in CommitmentPaths |-> cs[q]]
    BY DEF FilesSound
<1>2. /\ cs2 = [q \in CommitmentPaths |-> cs2[q]] /\ cs2[c] = file
      /\ \A q \in CommitmentPaths : q # c => cs2[q] = cs[q]
    BY <1>1 DEF WritesOne
<1>3. \A q \in CommitmentPaths : CommitmentFileSound(cs2[q], rs)
    BY <1>2 DEF FilesSound
<1> QED
    BY <1>2, <1>3 DEF FilesSound

LEMMA ActivationPeopleSound ==
    ASSUME ActivationInv, DayEnds \/ ReplaceInput \/ Approve
    PROVE  ActivationInv'
<1>1. CASE DayEnds
    <2>1. day0 \in Int /\ LastValidDay \in Nat /\ day0 \in 0 .. LastValidDay
        BY ActivationConstants DEF ActivationInv
    <2>2. day0' \in 0 .. LastValidDay /\ day0' = day0 + 1
        BY <1>1, <2>1 DEF DayEnds
    <2>3. OwnerSound(owner, answers, day0')
        BY <2>1, <2>2 DEF ActivationInv, OwnerSound, AnswerApprovalSound
    <2>4. UNCHANGED <<materials, owner, answers, receipts0, commitments, operation, touched>>
        BY <1>1 DEF DayEnds
    <2> QED
        BY <2>2, <2>3, <2>4 DEF ActivationInv
<1>2. CASE ReplaceInput
    <2>1. materials'.dataset \subseteq AnswerCases
        <3>1. CASE materials' = [materials EXCEPT !.corpus = materials.corpus + 1]
            <4>1. materials'.dataset = materials.dataset
                BY <3>1
            <4> QED
                BY <4>1 DEF ActivationInv
        <3>3. ASSUME NEW policy \in Policies, materials' = [materials EXCEPT !.policy = policy]
              PROVE  materials'.dataset \subseteq AnswerCases
            <4>1. materials'.dataset = materials.dataset
                BY <3>3
            <4> QED
                BY <4>1 DEF ActivationInv
        <3>2. ASSUME NEW c \in AnswerCases, materials' = [materials EXCEPT !.dataset = AnswerCases \ {c}]
              PROVE  materials'.dataset \subseteq AnswerCases
            <4>1. materials'.dataset \in {AnswerCases \ {c}, materials.dataset}
                BY <3>2
            <4> QED
                BY <4>1 DEF ActivationInv
        <3> QED
            BY <1>2, <3>1, <3>2, <3>3 DEF ReplaceInput
    <2>2. touched' \in 0 .. CorpusEdits
        BY <1>2, ActivationConstants DEF ReplaceInput, ActivationInv
    <2>3. UNCHANGED <<owner, answers, receipts0, commitments, operation, day0>>
        BY <1>2 DEF ReplaceInput
    <2> QED
        BY <2>1, <2>2, <2>3 DEF ActivationInv
<1>3. CASE Approve
    <2>1. PICK r \in AnswerReports, until \in day0 .. LastValidDay + 1, commit \in {"head", "other"} :
            /\ answers[r].file = "whole"
            /\ owner' = [given |-> TRUE, corpus |-> materials.corpus, path |-> r, report |-> answers[r],
                         from |-> day0, until |-> until, commit |-> commit]
        BY <1>3 DEF Approve
    <2>2. /\ owner'.path = r /\ owner'.report = answers[r] /\ owner'.from = day0 /\ owner'.until = until
        BY <2>1
    <2>3. day0 \in Nat /\ until \in Nat
        BY ActivationConstants DEF ActivationInv
    <2>4. OwnerSound(owner', answers, day0)
        BY <2>1, <2>2, <2>3 DEF OwnerSound, AnswerApprovalSound
    <2>5. touched' \in 0 .. CorpusEdits
        BY <1>3, ActivationConstants DEF Approve, ActivationInv
    <2>6. UNCHANGED <<materials, answers, receipts0, commitments, operation, day0>>
        BY <1>3 DEF Approve
    <2> QED
        BY <2>4, <2>5, <2>6 DEF ActivationInv
<1> QED
    BY <1>1, <1>2, <1>3

\* Steps that only read, and deaths.
LEMMA ReadingSound ==
    ASSUME ActivationInv, NEW o \in Operations,
           ReadDataset(o) \/ LoadApproval(o) \/ DigestCorpus(o) \/ OperationEnds(o)
    PROVE  ActivationInv'
<1>0. ProcessSound(operation[o], answers, receipts0)
    BY DEF ActivationInv
<1>1. UNCHANGED <<materials, owner, answers, receipts0, commitments, day0, touched>>
    BY DEF ReadDataset, LoadApproval, DigestCorpus, OperationEnds
<1>2. \E step : /\ OperationGoes(o, step) /\ ProcessSound(step, answers, receipts0)
                /\ step.at \notin {"reporting", "receipt"}
    <2>1. CASE ReadDataset(o)
        <3>1. PICK step : step = [at |-> "dataset_read", dataset |-> materials.dataset]
            OBVIOUS
        <3>2. step.at = "dataset_read"
            BY <3>1
        <3> QED
            BY <2>1, <3>1, <3>2 DEF ReadDataset, ProcessSound
    <2>2. CASE LoadApproval(o)
        <3>1. PICK step : step = [at |-> "approval_read", approval |-> owner, on |-> day0]
            OBVIOUS
        <3>2. step.at = "approval_read" /\ step.approval = owner /\ step.on = day0
            BY <3>1
        <3>3. owner.given /\ day0 < owner.until /\ owner.commit = "head"
            BY <2>2 DEF LoadApproval, ValidApproval
        <3>4. /\ AnswerApprovalSound(owner, answers, day0) /\ day0 \in Nat
            BY <3>3, ActivationConstants DEF ActivationInv, OwnerSound
        <3>5. day0 \in owner.from .. owner.until - 1
            BY <3>3, <3>4 DEF AnswerApprovalSound
        <3>6. InForce(owner, day0, answers)
            BY <3>3, <3>4, <3>5 DEF AnswerApprovalSound, InForce
        <3>7. ProcessSound(step, answers, receipts0)
            BY <3>2, <3>6 DEF ProcessSound
        <3> QED
            BY <2>2, <3>1, <3>2, <3>7 DEF LoadApproval
    <2>3. CASE DigestCorpus(o)
        <3>1. PICK step : step = [at |-> "corpus_read", approval |-> operation[o].approval, on |-> operation[o].on,
                                  corpus |-> materials.corpus]
            OBVIOUS
        <3>2. step.at = "corpus_read" /\ step.approval = operation[o].approval /\ step.on = operation[o].on
            BY <3>1
        <3>3. InForce(operation[o].approval, operation[o].on, answers)
            BY <1>0, <2>3 DEF ProcessSound, DigestCorpus, OperationAt
        <3>4. ProcessSound(step, answers, receipts0)
            BY <3>2, <3>3 DEF ProcessSound
        <3> QED
            BY <2>3, <3>1, <3>2, <3>4 DEF DigestCorpus
    <2>4. CASE OperationEnds(o)
        <3>1. AtRest.at = "idle"
            BY DEF AtRest
        <3> QED
            BY <2>4, <3>1 DEF OperationEnds, ProcessSound
    <2> QED
        BY <2>1, <2>2, <2>3, <2>4
<1> QED
    BY <1>1, <1>2, ProcessGoesOn

LEMMA DigestReportSound == ASSUME ActivationInv, NEW o \in Operations, DigestReport(o) PROVE ActivationInv'
<1>0. ProcessSound(operation[o], answers, receipts0) /\ operation[o].at = "corpus_read"
    BY DEF ActivationInv, DigestReport, OperationAt
<1>1. PICK approval, on, found :
        approval = operation[o].approval /\ on = operation[o].on /\ found = operation[o].corpus
    OBVIOUS
<1>2. InForce(approval, on, answers)
    BY <1>0, <1>1 DEF ProcessSound
<1>3. PICK p \in ReceiptPaths, c \in CommitmentPaths, r \in AnswerReports :
        /\ NoDrift(approval, found, answers[r])
        /\ OperationGoes(o, [at |-> "built", path |-> p, commitment |-> c, content |->
             [file |-> "whole", approval |-> approval, on |-> on, found |-> found]])
    BY <1>1 DEF DigestReport
<1>4. PICK content : content = [file |-> "whole", approval |-> approval, on |-> on, found |-> found]
    OBVIOUS
<1>5. PICK step : step = [at |-> "built", path |-> p, commitment |-> c, content |-> content]
    OBVIOUS
<1>6. ReceiptSound(content, answers)
    <2>1. content.file = "whole" /\ content.approval = approval /\ content.on = on /\ content.found = found
        BY <1>4
    <2> QED
        BY <1>2, <1>3, <2>1 DEF ReceiptSound, InForce, NoDrift
<1>7. ProcessSound(step, answers, receipts0)
    <2>1. step.at = "built" /\ step.path = p /\ step.commitment = c /\ step.content = content
        BY <1>5
    <2>2. step = [at |-> step.at, path |-> step.path, commitment |-> step.commitment, content |-> step.content]
        BY <1>5
    <2> QED
        BY <1>6, <2>1, <2>2 DEF ProcessSound
<1>8. OperationGoes(o, step) /\ step.at \notin {"reporting", "receipt"}
    BY <1>3, <1>4, <1>5
<1>9. UNCHANGED <<materials, owner, answers, receipts0, commitments, day0, touched>>
    BY DEF DigestReport
<1> QED
    BY <1>7, <1>8, <1>9, ProcessGoesOn

LEMMA RunHoldoutSound == ASSUME ActivationInv, NEW o \in Operations, RunHoldout(o) PROVE ActivationInv'
<1>1. PICK r \in {path \in AnswerReports : answers[path] = NotThere},
           verdict \in {v \in Verdicts : v.dataset = operation[o].dataset /\ v.policy = materials.policy} :
        /\ answers[r] = NotThere
        /\ answers' = [answers EXCEPT ![r] = HalfThere]
        /\ OperationGoes(o, [at |-> "reporting", path |-> r, content |->
             [file |-> "whole", dataset |-> verdict.dataset, policy |-> verdict.policy,
              green |-> verdict.green, failed |-> verdict.failed]])
    BY DEF RunHoldout
<1>2. PICK content : content = [file |-> "whole", dataset |-> verdict.dataset, policy |-> verdict.policy,
                                green |-> verdict.green, failed |-> verdict.failed]
    OBVIOUS
<1>3. PICK step : step = [at |-> "reporting", path |-> r, content |-> content]
    OBVIOUS
<1>4. UNCHANGED <<materials, owner, receipts0, commitments, day0, touched>> /\ OperationGoes(o, step)
    BY <1>1, <1>2, <1>3 DEF RunHoldout
<1>5. content.file = "whole" /\ VerdictSound(content)
    <2>1. /\ content.file = "whole" /\ content.dataset = verdict.dataset /\ content.failed = verdict.failed
          /\ content.policy = verdict.policy /\ (content.green => verdict.green)
        BY <1>2
    <2>2. VerdictSound(verdict)
        BY VerdictsSound
    <2> QED
        BY <2>1, <2>2 DEF VerdictSound
<1>6. /\ FilesSound(answers', receipts0, commitments) /\ answers'[r] = HalfThere
      /\ KeptWhole(answers, answers', r, AnswerReports)
    <2>1. FilesSound(answers, receipts0, commitments) /\ answers[r].file # "whole"
        BY <1>1, HalvesApart DEF ActivationInv
    <2>2. AnswerFileSound(HalfThere)
        BY DEF AnswerFileSound
    <2> QED
        <3>1. WritesOne(answers, answers', r, HalfThere)
            BY <1>1 DEF WritesOne
        <3> QED
            BY <2>1, <2>2, <3>1, AnswersChange
<1>7. step.at = "reporting" /\ step.path = r /\ step.content = content
    BY <1>3
<1>8. ProcessSound(step, answers', receipts0')
    BY <1>5, <1>6, <1>7 DEF ProcessSound
<1>9. ASSUME NEW q \in Operations, operation[q].at = "reporting"
      PROVE  operation[q].path \in AnswerReports /\ operation[q].path # r
    <2>1. operation[q].path \in AnswerReports /\ answers[operation[q].path] = HalfThere
        BY <1>9 DEF ActivationInv, ProcessSound
    <2> QED
        BY <1>1, <2>1, HalvesApart
<1>10. \A q \in Operations : q # o =>
          /\ operation[q].at = "reporting" => answers'[operation[q].path] = answers[operation[q].path]
          /\ operation[q].at = "receipt" => receipts0'[operation[q].path] = receipts0[operation[q].path]
          /\ operation[q].at = step.at /\ step.at \in {"reporting", "receipt"} => operation[q].path # step.path
    BY <1>4, <1>6, <1>7, <1>9 DEF KeptWhole
<1>11. FilesSound(answers', receipts0', commitments')
    BY <1>4, <1>6
<1> QED
    <2>1. \A q \in AnswerReports : answers[q].file = "whole" => answers'[q] = answers[q]
        BY <1>6 DEF KeptWhole
    <2>2. \A q \in ReceiptPaths : receipts0[q].file = "whole" => receipts0'[q] = receipts0[q]
        BY <1>4
    <2> QED
        BY <1>4, <1>8, <1>10, <1>11, <2>1, <2>2, FilesGrow

LEMMA WriteReportSound == ASSUME ActivationInv, NEW o \in Operations, WriteReport(o) PROVE ActivationInv'
<1>0. ProcessSound(operation[o], answers, receipts0) /\ operation[o].at = "reporting"
    BY DEF ActivationInv, WriteReport, OperationAt
<1>1. PICK r, content : r = operation[o].path /\ content = operation[o].content
    OBVIOUS
<1>2. /\ r \in AnswerReports /\ answers[r] = HalfThere
      /\ content.file = "whole" /\ VerdictSound(content)
    BY <1>0, <1>1 DEF ProcessSound
<1>3. /\ UNCHANGED <<materials, owner, receipts0, commitments, day0, touched>> /\ OperationGoes(o, AtRest)
      /\ answers' = [answers EXCEPT ![r] = content]
    BY <1>1 DEF WriteReport
<1>4. /\ FilesSound(answers', receipts0, commitments)
      /\ KeptWhole(answers, answers', r, AnswerReports)
    <2>1. FilesSound(answers, receipts0, commitments) /\ answers[r].file # "whole"
        BY <1>2, HalvesApart DEF ActivationInv
    <2>2. AnswerFileSound(content)
        BY <1>2 DEF AnswerFileSound
    <2> QED
        <3>1. WritesOne(answers, answers', r, content)
            BY <1>2, <1>3 DEF WritesOne
        <3> QED
            BY <1>2, <1>3, <2>1, <2>2, <3>1, AnswersChange
<1>10. PICK step : step = AtRest
    OBVIOUS
<1>5. step.at = "idle"
    BY <1>10 DEF AtRest
<1>6. ProcessSound(step, answers', receipts0') /\ OperationGoes(o, step)
    BY <1>3, <1>5, <1>10 DEF ProcessSound
<1>7. ASSUME NEW q \in Operations, q # o, operation[q].at = "reporting"
      PROVE  operation[q].path \in AnswerReports /\ operation[q].path # r
    BY <1>0, <1>1, <1>7 DEF ActivationInv, ProcessSound, WritersApart
<1>8. \A q \in Operations : q # o =>
          /\ operation[q].at = "reporting" => answers'[operation[q].path] = answers[operation[q].path]
          /\ operation[q].at = "receipt" => receipts0'[operation[q].path] = receipts0[operation[q].path]
          /\ operation[q].at = step.at /\ step.at \in {"reporting", "receipt"} => operation[q].path # step.path
    BY <1>3, <1>4, <1>5, <1>7 DEF KeptWhole
<1>9. FilesSound(answers', receipts0', commitments')
    BY <1>3, <1>4
<1> QED
    <2>1. \A q \in AnswerReports : answers[q].file = "whole" => answers'[q] = answers[q]
        BY <1>4 DEF KeptWhole
    <2>2. \A q \in ReceiptPaths : receipts0[q].file = "whole" => receipts0'[q] = receipts0[q]
        BY <1>3
    <2>3. UNCHANGED <<materials, owner, day0, touched>>
        BY <1>3
    <2> QED
        BY <1>6, <1>8, <1>9, <2>1, <2>2, <2>3, FilesGrow

LEMMA CreateReceiptSound == ASSUME ActivationInv, NEW o \in Operations, CreateReceipt(o) PROVE ActivationInv'
<1>0. ProcessSound(operation[o], answers, receipts0) /\ operation[o].at = "built"
    BY DEF ActivationInv, CreateReceipt, OperationAt
<1>1. PICK p, content, c : p = operation[o].path /\ content = operation[o].content /\ c = operation[o].commitment
    OBVIOUS
<1>2. /\ p \in ReceiptPaths /\ c \in CommitmentPaths /\ ReceiptSound(content, answers)
      /\ operation[o] = [at |-> operation[o].at, path |-> p, commitment |-> c, content |-> content]
    BY <1>0, <1>1 DEF ProcessSound
<1>3. PICK step : step = [operation[o] EXCEPT !.at = "receipt"]
    OBVIOUS
<1>4. /\ UNCHANGED <<materials, owner, answers, commitments, day0, touched>> /\ OperationGoes(o, step)
      /\ receipts0[p] = NotThere /\ receipts0' = [receipts0 EXCEPT ![p] = HalfThere]
    BY <1>1, <1>3 DEF CreateReceipt
<1>5. /\ step.at = "receipt" /\ step.path = p /\ step.commitment = c /\ step.content = content
      /\ step = [at |-> step.at, path |-> step.path, commitment |-> step.commitment, content |-> step.content]
    BY <1>2, <1>3
<1>6. /\ FilesSound(answers, receipts0', commitments) /\ receipts0'[p] = HalfThere
      /\ KeptWhole(receipts0, receipts0', p, ReceiptPaths)
    <2>1. FilesSound(answers, receipts0, commitments) /\ receipts0[p].file # "whole"
        BY <1>4, HalvesApart DEF ActivationInv
    <2>2. ReceiptFileSound(HalfThere, answers)
        BY DEF ReceiptFileSound
    <2>3. WritesOne(receipts0, receipts0', p, HalfThere)
        BY <1>4 DEF WritesOne
    <2> QED
        BY <1>2, <2>1, <2>2, <2>3, ReceiptsChange
<1>7. ProcessSound(step, answers', receipts0')
    BY <1>2, <1>4, <1>5, <1>6 DEF ProcessSound
<1>8. ASSUME NEW q \in Operations, operation[q].at = "receipt"
      PROVE  operation[q].path \in ReceiptPaths /\ operation[q].path # p
    <2>1. operation[q].path \in ReceiptPaths /\ receipts0[operation[q].path] = HalfThere
        BY <1>8 DEF ActivationInv, ProcessSound
    <2> QED
        BY <1>4, <2>1, HalvesApart
<1>9. \A q \in Operations : q # o =>
         /\ operation[q].at = "reporting" => answers'[operation[q].path] = answers[operation[q].path]
         /\ operation[q].at = "receipt" => receipts0'[operation[q].path] = receipts0[operation[q].path]
         /\ operation[q].at = step.at /\ step.at \in {"reporting", "receipt"} => operation[q].path # step.path
    BY <1>4, <1>5, <1>6, <1>8 DEF KeptWhole
<1>10. FilesSound(answers', receipts0', commitments')
    BY <1>4, <1>6
<1>11. \A q \in AnswerReports : answers[q].file = "whole" => answers'[q] = answers[q]
    BY <1>4
<1>12. \A q \in ReceiptPaths : receipts0[q].file = "whole" => receipts0'[q] = receipts0[q]
    BY <1>6 DEF KeptWhole
<1>13. UNCHANGED <<materials, owner, day0, touched>> /\ OperationGoes(o, step)
    BY <1>4
<1> QED
    BY <1>7, <1>9, <1>10, <1>11, <1>12, <1>13, FilesGrow

LEMMA WriteReceiptSound == ASSUME ActivationInv, NEW o \in Operations, WriteReceipt(o) PROVE ActivationInv'
<1>0. ProcessSound(operation[o], answers, receipts0) /\ operation[o].at = "receipt"
    BY DEF ActivationInv, WriteReceipt, OperationAt
<1>1. PICK p, content, c : p = operation[o].path /\ content = operation[o].content /\ c = operation[o].commitment
    OBVIOUS
<1>2. /\ p \in ReceiptPaths /\ c \in CommitmentPaths /\ ReceiptSound(content, answers) /\ receipts0[p] = HalfThere
      /\ operation[o] = [at |-> operation[o].at, path |-> p, commitment |-> c, content |-> content]
    BY <1>0, <1>1 DEF ProcessSound
<1>3. PICK step : step = [operation[o] EXCEPT !.at = "received"]
    OBVIOUS
<1>4. /\ UNCHANGED <<materials, owner, answers, commitments, day0, touched>> /\ OperationGoes(o, step)
      /\ receipts0' = [receipts0 EXCEPT ![p] = content]
    BY <1>1, <1>3 DEF WriteReceipt
<1>5. /\ step.at = "received" /\ step.path = p /\ step.commitment = c /\ step.content = content
      /\ step = [at |-> step.at, path |-> step.path, commitment |-> step.commitment, content |-> step.content]
    BY <1>2, <1>3
<1>6. /\ FilesSound(answers, receipts0', commitments) /\ receipts0'[p] = content
      /\ KeptWhole(receipts0, receipts0', p, ReceiptPaths)
    <2>1. FilesSound(answers, receipts0, commitments) /\ receipts0[p].file # "whole"
        BY <1>2, HalvesApart DEF ActivationInv
    <2>2. ReceiptFileSound(content, answers)
        BY <1>2 DEF ReceiptFileSound
    <2>3. WritesOne(receipts0, receipts0', p, content)
        BY <1>4 DEF WritesOne
    <2> QED
        BY <1>2, <2>1, <2>2, <2>3, ReceiptsChange
<1>7. ProcessSound(step, answers', receipts0')
    BY <1>2, <1>4, <1>5, <1>6 DEF ProcessSound
<1>8. ASSUME NEW q \in Operations, q # o, operation[q].at = "receipt"
      PROVE  operation[q].path \in ReceiptPaths /\ operation[q].path # p
    BY <1>0, <1>1, <1>8 DEF ActivationInv, ProcessSound, WritersApart
<1>9. \A q \in Operations : q # o =>
         /\ operation[q].at = "reporting" => answers'[operation[q].path] = answers[operation[q].path]
         /\ operation[q].at = "receipt" => receipts0'[operation[q].path] = receipts0[operation[q].path]
         /\ operation[q].at = step.at /\ step.at \in {"reporting", "receipt"} => operation[q].path # step.path
    BY <1>4, <1>5, <1>6, <1>8 DEF KeptWhole
<1>10. FilesSound(answers', receipts0', commitments')
    BY <1>4, <1>6
<1>11. \A q \in AnswerReports : answers[q].file = "whole" => answers'[q] = answers[q]
    BY <1>4
<1>12. \A q \in ReceiptPaths : receipts0[q].file = "whole" => receipts0'[q] = receipts0[q]
    BY <1>6 DEF KeptWhole
<1>13. UNCHANGED <<materials, owner, day0, touched>> /\ OperationGoes(o, step)
    BY <1>4
<1> QED
    BY <1>7, <1>9, <1>10, <1>11, <1>12, <1>13, FilesGrow

\* A commitment comes when its receipt stands.
LEMMA CommitmentSound ==
    ASSUME ActivationInv, NEW o \in Operations, CreateCommitment(o) \/ WriteCommitment(o)
    PROVE  ActivationInv'
<1>0. ProcessSound(operation[o], answers, receipts0) /\ operation[o].at \in {"received", "commitment"}
    BY DEF ActivationInv, CreateCommitment, WriteCommitment, ReceiptWritten, OperationAt
<1>1. PICK p, content, c : p = operation[o].path /\ content = operation[o].content /\ c = operation[o].commitment
    OBVIOUS
<1>2. /\ p \in ReceiptPaths /\ c \in CommitmentPaths /\ ReceiptSound(content, answers) /\ receipts0[p] = content
      /\ operation[o] = [at |-> operation[o].at, path |-> p, commitment |-> c, content |-> content]
    BY <1>0, <1>1 DEF ProcessSound
<1>3. UNCHANGED <<materials, owner, answers, receipts0, day0, touched>>
    BY DEF CreateCommitment, WriteCommitment
<1>4. PICK file : commitments' = [commitments EXCEPT ![c] = file] /\ CommitmentFileSound(file, receipts0)
    <2>1. CASE CreateCommitment(o)
        BY <1>1, <2>1 DEF CreateCommitment, CommitmentFileSound
    <2>2. CASE WriteCommitment(o)
        <3>1. PICK file : file = [file |-> "whole", path |-> p, receipt |-> content]
            OBVIOUS
        <3>2. file.file = "whole" /\ file.path = p /\ file.receipt = content
            BY <3>1
        <3>3. CommitmentFileSound(file, receipts0)
            BY <1>2, <3>2 DEF CommitmentFileSound, ReceiptSound
        <3> QED
            BY <1>1, <2>2, <3>1, <3>3 DEF WriteCommitment
    <2> QED
        BY <2>1, <2>2
<1>5. PICK step : /\ OperationGoes(o, step) /\ ProcessSound(step, answers, receipts0)
                  /\ step.at \notin {"reporting", "receipt"}
    <2>1. CASE CreateCommitment(o)
        <3>1. PICK step : step = [operation[o] EXCEPT !.at = "commitment"]
            OBVIOUS
        <3>2. /\ step.at = "commitment" /\ step.path = p /\ step.commitment = c /\ step.content = content
              /\ step = [at |-> step.at, path |-> step.path, commitment |-> step.commitment,
                         content |-> step.content]
            BY <1>2, <3>1
        <3>3. ProcessSound(step, answers, receipts0)
            BY <1>2, <3>2 DEF ProcessSound
        <3> QED
            BY <2>1, <3>1, <3>2, <3>3 DEF CreateCommitment
    <2>2. CASE WriteCommitment(o)
        <3>1. AtRest.at = "idle"
            BY DEF AtRest
        <3> QED
            BY <2>2, <3>1 DEF WriteCommitment, ProcessSound
    <2> QED
        BY <2>1, <2>2
<1>6. FilesSound(answers, receipts0, commitments')
    <2>1. FilesSound(answers, receipts0, commitments) /\ WritesOne(commitments, commitments', c, file)
        BY <1>4 DEF ActivationInv, WritesOne
    <2> QED
        BY <1>2, <1>4, <2>1, CommitmentsChange
<1>7. \A q \in Operations : q # o =>
         /\ operation[q].at = "reporting" => answers'[operation[q].path] = answers[operation[q].path]
         /\ operation[q].at = "receipt" => receipts0'[operation[q].path] = receipts0[operation[q].path]
         /\ operation[q].at = step.at /\ step.at \in {"reporting", "receipt"} => operation[q].path # step.path
    BY <1>3, <1>5
<1>8. FilesSound(answers', receipts0', commitments') /\ ProcessSound(step, answers', receipts0')
    BY <1>3, <1>5, <1>6
<1>9. /\ \A q \in AnswerReports : answers[q].file = "whole" => answers'[q] = answers[q]
      /\ \A q \in ReceiptPaths : receipts0[q].file = "whole" => receipts0'[q] = receipts0[q]
      /\ UNCHANGED <<materials, owner, day0, touched>>
    BY <1>3
<1> QED
    BY <1>5, <1>7, <1>8, <1>9, FilesGrow

LEMMA ActivationStepSound == ActivationInv /\ [ActivationNext]_activationVars => ActivationInv'
<1> SUFFICES ASSUME ActivationInv, [ActivationNext]_activationVars PROVE ActivationInv'
    OBVIOUS
<1>1. CASE DayEnds \/ ReplaceInput \/ Approve
    BY <1>1, ActivationPeopleSound
<1>2. ASSUME NEW o \in Operations, ReadDataset(o) \/ LoadApproval(o) \/ DigestCorpus(o) \/ OperationEnds(o)
      PROVE  ActivationInv'
    BY <1>2, ReadingSound
<1>3. ASSUME NEW o \in Operations, DigestReport(o) PROVE ActivationInv'
    BY <1>3, DigestReportSound
<1>4. ASSUME NEW o \in Operations, RunHoldout(o) PROVE ActivationInv'
    BY <1>4, RunHoldoutSound
<1>5. ASSUME NEW o \in Operations, WriteReport(o) PROVE ActivationInv'
    BY <1>5, WriteReportSound
<1>6. ASSUME NEW o \in Operations, CreateReceipt(o) PROVE ActivationInv'
    BY <1>6, CreateReceiptSound
<1>7. ASSUME NEW o \in Operations, WriteReceipt(o) PROVE ActivationInv'
    BY <1>7, WriteReceiptSound
<1>8. ASSUME NEW o \in Operations, CreateCommitment(o) \/ WriteCommitment(o) PROVE ActivationInv'
    BY <1>8, CommitmentSound
<1>9. CASE UNCHANGED activationVars
    BY <1>9 DEF activationVars, ActivationInv
<1> QED
    BY <1>1, <1>2, <1>3, <1>4, <1>5, <1>6, <1>7, <1>8, <1>9 DEF ActivationNext

\* A green report of the answer holdout has refused every question without an
\* answer and answered the least share of the others, a receipt was built while
\* its approval was in force, from what it approved and beside the report that
\* it binds, and a commitment names a receipt that stands, for every holdout,
\* every least share and any number of processes that overlap, die and collide
\* (knowledge_answer_holdout.py, private_rag_activation.py).
THEOREM ActivationSound == ActivationSpec => [](ActivationTypeOK /\ ActivationIsBound)
<1>1. ActivationInit => ActivationInv
    BY ActivationInitSound
<1>2. ActivationInv /\ [ActivationNext]_activationVars => ActivationInv'
    BY ActivationStepSound
<1>3. ActivationInv => ActivationTypeOK /\ ActivationIsBound
    BY ActivationInvImplies
<1> QED
    BY <1>1, <1>2, <1>3, PTL DEF ActivationSpec

-----------------------------------------------------------------------------
(* The runs on the holdout (Holdout).                                      *)

Sinces == [receipts : Nat, edits : [Inputs -> Nat]]

\* A runner between its first validation and its second.
HoldoutValidated == [at : {"digest"}, output : ReportPaths, until : Nat, since : Sinces]
HoldoutAuthorized == [at : {"mark", "run"}, output : ReportPaths, until : Nat, since : Sinces,
               receipt : Receipts]
Evaluated == [at : {"compare", "complete"}, output : ReportPaths, until : Nat, since : Sinces,
              receipt : Receipts, evaluated : Held]

\* A file that was not changed since is as the receipt binds it; one that was
\* changed once is not.
Tracked(since) == \A f \in Inputs :
    /\ heldEdits[f] = since.edits[f] => held[f] = receipt.binds[f]
    /\ heldEdits[f] = since.edits[f] + 1 => held[f] # receipt.binds[f]

\* What a run still knows of a receipt that was not replaced.
StillKnown(c) ==
    c.since.receipts = receipts =>
        /\ c.until = receipt.until /\ Tracked(c.since)
        /\ c \in HoldoutAuthorized \cup Evaluated => c.receipt = receipt
        /\ c \in Evaluated => \A f \in Inputs :
              heldEdits[f] = c.since.edits[f] => c.evaluated[f] = receipt.binds[f]

HoldoutUnderway(c) ==
    /\ c \in HoldoutValidated \cup HoldoutAuthorized \cup Evaluated
    /\ c.since.receipts <= receipts /\ \A f \in Inputs : c.since.edits[f] <= heldEdits[f]
    /\ StillKnown(c)

ReportTrue(report) == report.written = TRUE /\ report.receipt \in Receipts /\ TrueToReceipt(report)

RunnerSound(r) ==
    \/ runners[r] = Resting
    \/ HoldoutUnderway(runners[r])
    \/ runners[r].at = "write" /\ runners[r].output \in ReportPaths /\ ReportTrue(runners[r].report)

\* From the marker on, a runner runs under the receipt that it named.
UnderReceipt(r) == runners[r].at \in {"run", "compare", "complete", "write"}
Named(r) == IF runners[r].at = "write" THEN runners[r].report.receipt ELSE runners[r].receipt

HoldoutTypes ==
    /\ held \in Held /\ receipt \in Receipts /\ used \subseteq Receipts
    /\ heldEdits \in [Inputs -> Nat] /\ receipts \in Nat /\ today \in Nat
    /\ evaluations \in Seq(Receipts)
    /\ DOMAIN reports = ReportPaths
    /\ DOMAIN runners = Runners

\* A receipt is used once: by a runner, then in its report.
UsedOnce ==
    /\ \A r \in Runners : UnderReceipt(r) => Named(r) \in used
    /\ \A r, q \in Runners : UnderReceipt(r) /\ UnderReceipt(q) /\ Named(r) = Named(q) => r = q
    /\ \A i \in DOMAIN evaluations : evaluations[i] \in used
    /\ \A i, j \in DOMAIN evaluations : evaluations[i] = evaluations[j] => i = j
    /\ \A r \in Runners, i \in DOMAIN evaluations : runners[r].at = "run" => evaluations[i] # Named(r)
    /\ \A o \in ReportPaths : reports[o].written => reports[o].receipt \in used
    /\ \A r \in Runners, o \in ReportPaths :
          UnderReceipt(r) /\ reports[o].written => reports[o].receipt # Named(r)
    /\ \A o, p \in ReportPaths :
          reports[o].written /\ reports[p].written /\ reports[o].receipt = reports[p].receipt => o = p

HoldoutInv ==
    /\ HoldoutTypes
    /\ \A r \in Runners : RunnerSound(r)
    /\ \A o \in ReportPaths : reports[o] = NoReport \/ ReportTrue(reports[o])
    /\ UsedOnce

LEMMA HoldoutStarts == HoldoutInit => HoldoutInv
<1> SUFFICES ASSUME HoldoutInit PROVE HoldoutInv
    OBVIOUS
<1>1. evaluations \in Seq(Receipts) /\ DOMAIN evaluations = {}
    BY EmptySeq DEF HoldoutInit
<1>2. HoldoutTypes
    BY <1>1 DEF HoldoutInit, HoldoutTypes
<1>3. \A r \in Runners : runners[r] = Resting /\ ~ UnderReceipt(r) /\ runners[r].at # "run"
    BY DEF HoldoutInit, Resting, UnderReceipt
<1>4. \A o \in ReportPaths : reports[o] = NoReport /\ ~ reports[o].written
    BY DEF HoldoutInit, NoReport
<1>5. UsedOnce
    BY <1>1, <1>3, <1>4 DEF UsedOnce
<1> QED
    BY <1>2, <1>3, <1>4, <1>5 DEF HoldoutInv, RunnerSound

\* The shape of a run does not depend on what is outside.
LEMMA UnderwayFields ==
    ASSUME NEW c, HoldoutUnderway(c)
    PROVE  /\ c.at \in {"digest", "mark", "run", "compare", "complete"} /\ c.output \in ReportPaths
           /\ c.until \in Nat /\ c.since \in Sinces /\ c.since.receipts \in Nat
           /\ \A f \in Inputs : c.since.edits[f] \in Nat
           /\ c.at \in {"mark", "run"} <=> c \in HoldoutAuthorized
           /\ c.at \in {"compare", "complete"} <=> c \in Evaluated
BY DEF HoldoutUnderway, HoldoutValidated, HoldoutAuthorized, Evaluated, Sinces

\* A file changes: what a run knows of the other files, and of this one before,
\* is as it was.
LEMMA EditKeepsRuns ==
    ASSUME HoldoutTypes, EditHeld, NEW c, HoldoutUnderway(c)
    PROVE  HoldoutUnderway(c)'
<1>1. PICK f \in Inputs, content \in Editions :
        /\ content # held[f] /\ held' = [held EXCEPT ![f] = content]
        /\ heldEdits' = [heldEdits EXCEPT ![f] = @ + 1]
    BY DEF EditHeld
<1>2. UNCHANGED <<receipt, receipts>>
    BY DEF EditHeld
<1>3. /\ \A g \in Inputs : heldEdits[g] \in Nat /\ (g # f => heldEdits'[g] = heldEdits[g] /\ held'[g] = held[g])
      /\ heldEdits'[f] = heldEdits[f] + 1 /\ held'[f] # held[f]
    BY <1>1 DEF HoldoutTypes, Held
<1>4. \A g \in Inputs : c.since.edits[g] \in Nat /\ c.since.edits[g] <= heldEdits[g]
    BY UnderwayFields DEF HoldoutUnderway
<1>5. \A g \in Inputs : c.since.edits[g] <= heldEdits'[g]
    BY <1>3, <1>4
<1>6. Tracked(c.since) => Tracked(c.since)'
    BY <1>2, <1>3, <1>4 DEF Tracked
<1>7. \A g \in Inputs : heldEdits'[g] = c.since.edits[g] => heldEdits[g] = c.since.edits[g]
    BY <1>3, <1>4
<1>8. StillKnown(c)'
    BY <1>2, <1>6, <1>7 DEF HoldoutUnderway, StillKnown
<1> QED
    BY <1>2, <1>5, <1>8 DEF HoldoutUnderway

\* The owner replaces the receipt: a run under way knows nothing of the new one.
LEMMA AcceptKeepsRuns ==
    ASSUME HoldoutTypes, Accept, NEW c, HoldoutUnderway(c)
    PROVE  HoldoutUnderway(c)'
<1>1. receipts \in Nat /\ receipts' = receipts + 1 /\ UNCHANGED <<held, heldEdits>>
    BY DEF HoldoutTypes, Accept
<1>2. c.since.receipts \in Nat /\ c.since.receipts <= receipts
    BY UnderwayFields DEF HoldoutUnderway
<1>3. c.since.receipts # receipts' /\ c.since.receipts <= receipts'
    BY <1>1, <1>2
<1> QED
    BY <1>1, <1>3 DEF HoldoutUnderway, StillKnown

\* Files change, days pass, the owner writes a receipt.
LEMMA OutsideSound ==
    ASSUME HoldoutInv, EditHeld \/ DayPasses \/ Accept
    PROVE  HoldoutInv'
<1>1. HoldoutTypes /\ UNCHANGED <<used, reports, runners, evaluations>>
    BY DEF HoldoutInv, EditHeld, DayPasses, Accept
<1>2. HoldoutTypes'
    <2>1. CASE EditHeld
        <3>1. held' \in Held /\ heldEdits' \in [Inputs -> Nat]
            BY <1>1, <2>1 DEF HoldoutTypes, EditHeld, Held
        <3> QED
            BY <1>1, <2>1, <3>1 DEF HoldoutTypes, EditHeld
    <2>2. CASE DayPasses
        BY <1>1, <2>2 DEF HoldoutTypes, DayPasses
    <2>3. CASE Accept
        BY <1>1, <2>3 DEF HoldoutTypes, Accept
    <2> QED
        BY <2>1, <2>2, <2>3
<1>3. ASSUME NEW c, HoldoutUnderway(c) PROVE HoldoutUnderway(c)'
    <2>1. CASE DayPasses
        BY <1>3, <2>1 DEF DayPasses, HoldoutUnderway, StillKnown, Tracked
    <2> QED
        BY <1>1, <1>3, <2>1, EditKeepsRuns, AcceptKeepsRuns
<1>4. ASSUME NEW r \in Runners PROVE RunnerSound(r)'
    <2>1. RunnerSound(r) /\ runners'[r] = runners[r]
        BY <1>1 DEF HoldoutInv
    <2>2. HoldoutUnderway(runners[r]) => HoldoutUnderway(runners[r])'
        BY <1>3, <2>1
    <2> QED
        BY <2>1, <2>2 DEF RunnerSound, ReportTrue, TrueToReceipt
<1>5. \A r \in Runners : UnderReceipt(r)' = UnderReceipt(r) /\ Named(r)' = Named(r)
    BY <1>1 DEF UnderReceipt, Named
<1>6. UsedOnce'
    BY <1>1, <1>5 DEF HoldoutInv, UsedOnce
<1>7. \A o \in ReportPaths : reports'[o] = NoReport \/ ReportTrue(reports[o])'
    BY <1>1 DEF HoldoutInv, ReportTrue, TrueToReceipt
<1> QED
    BY <1>1, <1>2, <1>4, <1>6, <1>7 DEF HoldoutInv

\* A step of one runner leaves the others as they are.
LEMMA OthersSound ==
    ASSUME HoldoutInv, NEW r \in Runners, NEW step, RunnerGoes(r, step)
    PROVE  /\ runners'[r] = step /\ DOMAIN runners' = Runners
           /\ \A q \in Runners : q # r =>
                /\ runners'[q] = runners[q] /\ RunnerSound(q)'
                /\ UnderReceipt(q)' = UnderReceipt(q) /\ Named(q)' = Named(q)
           /\ \A c : HoldoutUnderway(c) => HoldoutUnderway(c)'
           /\ \A o \in ReportPaths : ReportTrue(reports[o]) => (reports'[o] = reports[o] => ReportTrue(reports[o])')
<1>1. /\ HoldoutTypes /\ runners' = [runners EXCEPT ![r] = step]
      /\ UNCHANGED <<held, receipt, today, receipts, heldEdits>>
    BY DEF HoldoutInv, RunnerGoes
<1>2. runners'[r] = step /\ DOMAIN runners' = Runners /\ \A q \in Runners : q # r => runners'[q] = runners[q]
    BY <1>1 DEF HoldoutTypes
<1>3. \A c : HoldoutUnderway(c) => HoldoutUnderway(c)'
    BY <1>1 DEF HoldoutUnderway, StillKnown, Tracked
<1>4. ASSUME NEW q \in Runners, q # r
      PROVE  RunnerSound(q)' /\ UnderReceipt(q)' = UnderReceipt(q) /\ Named(q)' = Named(q)
    <2>1. RunnerSound(q) /\ runners'[q] = runners[q]
        BY <1>2, <1>4 DEF HoldoutInv
    <2>2. HoldoutUnderway(runners[q]) => HoldoutUnderway(runners[q])'
        BY <1>3, <2>1
    <2> QED
        BY <2>1, <2>2 DEF RunnerSound, UnderReceipt, Named, ReportTrue, TrueToReceipt
<1>5. \A o \in ReportPaths : ReportTrue(reports[o]) => (reports'[o] = reports[o] => ReportTrue(reports[o])')
    BY DEF ReportTrue, TrueToReceipt
<1> QED
    BY <1>2, <1>3, <1>4, <1>5

\* A step of one runner that leaves the history and the reports alone, and takes
\* no receipt.
LEMMA RunnerStepSound ==
    ASSUME HoldoutInv, NEW r \in Runners, NEW step, RunnerGoes(r, step),
           UNCHANGED <<used, reports, evaluations>>, RunnerSound(r)',
           UnderReceipt(r)' => UnderReceipt(r) /\ Named(r)' = Named(r) /\ step.at # "run"
    PROVE  HoldoutInv'
<1>1. HoldoutTypes'
    <2>1. DOMAIN runners' = Runners
        BY OthersSound
    <2> QED
        BY <2>1 DEF HoldoutInv, HoldoutTypes, RunnerGoes
<1>2. \A q \in Runners : RunnerSound(q)'
    BY OthersSound
<1>3. \A o \in ReportPaths : reports'[o] = NoReport \/ ReportTrue(reports[o])'
    BY OthersSound DEF HoldoutInv
<1>4. \A q \in Runners : UnderReceipt(q)' => UnderReceipt(q) /\ Named(q)' = Named(q)
    BY OthersSound
<1>5. \A q \in Runners : runners'[q].at = "run" => runners[q].at = "run" /\ Named(q)' = Named(q)
    <2>1. runners'[r].at # "run"
        <3>1. runners'[r] = step
            BY OthersSound
        <3> QED
            BY <3>1 DEF UnderReceipt
    <2> QED
        BY <2>1, OthersSound
<1>6. UsedOnce'
    BY <1>4, <1>5 DEF HoldoutInv, UsedOnce
<1> QED
    BY <1>1, <1>2, <1>3, <1>6 DEF HoldoutInv

LEMMA RunnerEndsSound ==
    ASSUME HoldoutInv, NEW r \in Runners, RunnerEnds(r)
    PROVE  HoldoutInv'
<1>1. RunnerGoes(r, Resting) /\ UNCHANGED <<used, reports, evaluations>>
    BY DEF RunnerEnds
<1>2. runners'[r] = Resting
    BY <1>1, OthersSound
<1>3. RunnerSound(r)' /\ ~ UnderReceipt(r)'
    BY <1>2 DEF RunnerSound, UnderReceipt, Resting
<1> QED
    BY <1>1, <1>3, RunnerStepSound

\* A validated receipt is in force, and the files are as it binds them.
LEMMA RunOwnerAcceptedSound ==
    ASSUME HoldoutInv, NEW r \in Runners, RunOwnerAcceptedHoldout(r)
    PROVE  HoldoutInv'
<1>1. PICK o \in ReportPaths :
        RunnerGoes(r, [at |-> "digest", output |-> o, until |-> receipt.until,
                       since |-> [receipts |-> receipts, edits |-> heldEdits]])
    BY DEF RunOwnerAcceptedHoldout
<1> DEFINE since == [receipts |-> receipts, edits |-> heldEdits]
           step == [at |-> "digest", output |-> o, until |-> receipt.until, since |-> since]
<1>2. /\ HoldoutTypes /\ receipt.binds = held /\ UNCHANGED <<used, reports, evaluations>>
    BY DEF HoldoutInv, RunOwnerAcceptedHoldout, ValidateOwnerAcceptance
<1>3. since \in Sinces /\ since.receipts = receipts /\ since.edits = heldEdits
    BY <1>2 DEF HoldoutTypes, Sinces
<1>4. receipt.until \in Nat
    BY <1>2 DEF HoldoutTypes, Receipts
<1> HIDE DEF since
<1>5. /\ step \in HoldoutValidated /\ step.since = since /\ step.until = receipt.until /\ step.at = "digest"
      /\ step \notin HoldoutAuthorized \cup Evaluated
    BY <1>3, <1>4 DEF HoldoutValidated, HoldoutAuthorized, Evaluated
<1> HIDE DEF step
<1>6. Tracked(since)
    BY <1>2, <1>3 DEF Tracked, HoldoutTypes
<1>7. HoldoutUnderway(step)
    BY <1>2, <1>3, <1>5, <1>6 DEF HoldoutUnderway, StillKnown, HoldoutTypes
<1>8. PICK now : now = step
    OBVIOUS
<1>9. RunnerGoes(r, now)
    BY <1>1, <1>8 DEF step, since
<1>10. HoldoutUnderway(now) /\ now \in HoldoutValidated
    BY <1>5, <1>7, <1>8
<1>11. runners'[r] = now /\ HoldoutUnderway(now)'
    BY <1>9, <1>10, OthersSound
<1>12. RunnerSound(r)' /\ ~ UnderReceipt(r)'
    BY <1>10, <1>11 DEF RunnerSound, UnderReceipt, HoldoutValidated
<1> QED
    BY <1>2, <1>9, <1>12, RunnerStepSound

\* The digest is that of the receipt in force.
LEMMA ReadDigestSound ==
    ASSUME HoldoutInv, NEW r \in Runners, ReadDigest(r)
    PROVE  HoldoutInv'
<1> DEFINE c == runners[r]
           step == [at |-> "mark", output |-> c.output, until |-> c.until, since |-> c.since,
                    receipt |-> receipt]
<1>1. /\ HoldoutTypes /\ c.at = "digest" /\ RunnerGoes(r, step)
      /\ UNCHANGED <<used, reports, evaluations>>
    BY DEF HoldoutInv, ReadDigest, RunnerAt
<1>2. HoldoutUnderway(c)
    <2>1. RunnerSound(r)
        BY DEF HoldoutInv
    <2> QED
        BY <1>1, <2>1 DEF RunnerSound, Resting
<1>3. c.output \in ReportPaths /\ c.until \in Nat /\ c.since \in Sinces
    BY <1>2, UnderwayFields
<1> HIDE DEF c
<1>4. /\ step \in HoldoutAuthorized /\ step \notin Evaluated /\ step.since = c.since /\ step.until = c.until
      /\ step.receipt = receipt /\ step.at = "mark"
    BY <1>1, <1>3 DEF HoldoutAuthorized, Evaluated, HoldoutTypes
<1> HIDE DEF step
<1>5. HoldoutUnderway(step)
    BY <1>2, <1>4 DEF HoldoutUnderway, StillKnown
<1>6. PICK now : now = step
    OBVIOUS
<1>7. RunnerGoes(r, now) /\ HoldoutUnderway(now) /\ now.at = "mark"
    BY <1>1, <1>4, <1>5, <1>6
<1>8. runners'[r] = now /\ HoldoutUnderway(now)'
    BY <1>7, OthersSound
<1>9. RunnerSound(r)' /\ ~ UnderReceipt(r)'
    BY <1>7, <1>8 DEF RunnerSound, UnderReceipt
<1> QED
    BY <1>1, <1>7, <1>9, RunnerStepSound

\* A receipt that is not used has no runner, no evaluation and no report.
LEMMA TakeUseSound ==
    ASSUME HoldoutInv, NEW r \in Runners, TakeUse(r)
    PROVE  HoldoutInv'
<1> DEFINE c == runners[r]
           step == [c EXCEPT !.at = "run"]
<1>1. /\ HoldoutTypes /\ c.at = "mark" /\ c.receipt \notin used /\ used' = used \cup {c.receipt}
      /\ RunnerGoes(r, step) /\ UNCHANGED <<reports, evaluations>>
    BY DEF HoldoutInv, TakeUse, RunnerAt, Unused0
<1>2. HoldoutUnderway(c) /\ c \in HoldoutAuthorized
    <2>1. RunnerSound(r)
        BY DEF HoldoutInv
    <2>2. HoldoutUnderway(c)
        BY <1>1, <2>1 DEF RunnerSound, Resting
    <2> QED
        BY <1>1, <2>2, UnderwayFields
<1> HIDE DEF c
<1>3. /\ step \in HoldoutAuthorized /\ step \notin Evaluated /\ step.since = c.since /\ step.until = c.until
      /\ step.receipt = c.receipt /\ step.at = "run" /\ c.receipt \in Receipts
    BY <1>2 DEF HoldoutAuthorized, Evaluated
<1> HIDE DEF step
<1>4. HoldoutUnderway(step)
    BY <1>2, <1>3 DEF HoldoutUnderway, StillKnown
<1>5. PICK now : now = step
    OBVIOUS
<1>6. RunnerSound(r)' /\ Named(r)' = c.receipt
    <2>1. RunnerGoes(r, now) /\ HoldoutUnderway(now) /\ now.at = "run" /\ now.receipt = c.receipt
        BY <1>1, <1>3, <1>4, <1>5
    <2>2. runners'[r] = now /\ HoldoutUnderway(now)'
        BY <2>1, OthersSound
    <2> QED
        BY <2>1, <2>2 DEF RunnerSound, Named
<1>7. HoldoutTypes'
    <2>1. DOMAIN runners' = Runners
        BY <1>1, OthersSound
    <2> QED
        BY <1>1, <1>3, <2>1 DEF HoldoutTypes, RunnerGoes
<1>8. \A q \in Runners : RunnerSound(q)'
    BY <1>1, <1>6, OthersSound
<1>9. \A o \in ReportPaths : reports'[o] = NoReport \/ ReportTrue(reports[o])'
    BY <1>1, OthersSound DEF HoldoutInv
<1>10. UsedOnce'
    <2>1. \A q \in Runners : q # r =>
            UnderReceipt(q)' = UnderReceipt(q) /\ Named(q)' = Named(q) /\ runners'[q] = runners[q]
        BY <1>1, OthersSound
    <2>2. UsedOnce /\ c.receipt \in used' /\ used \subseteq used'
        BY <1>1 DEF HoldoutInv
    <2>3. \A q \in Runners : UnderReceipt(q)' => Named(q)' \in used'
        BY <1>6, <2>1, <2>2 DEF UsedOnce
    <2>4. \A q, p \in Runners : UnderReceipt(q)' /\ UnderReceipt(p)' /\ Named(q)' = Named(p)' => q = p
        BY <1>1, <1>6, <2>1, <2>2 DEF UsedOnce
    <2>5. \A q \in Runners, i \in DOMAIN evaluations' : runners'[q].at = "run" => evaluations'[i] # Named(q)'
        BY <1>1, <1>6, <2>1, <2>2 DEF UsedOnce
    <2>6. \A q \in Runners, o \in ReportPaths :
            UnderReceipt(q)' /\ reports'[o].written => reports'[o].receipt # Named(q)'
        BY <1>1, <1>6, <2>1, <2>2 DEF UsedOnce
    <2> QED
        BY <1>1, <2>2, <2>3, <2>4, <2>5, <2>6 DEF UsedOnce
<1> QED
    BY <1>7, <1>8, <1>9, <1>10 DEF HoldoutInv

\* The holdout is evaluated under the receipt, for the first time.
LEMMA RunFrozenSound ==
    ASSUME HoldoutInv, NEW r \in Runners, RunFrozenHoldout(r)
    PROVE  HoldoutInv'
<1> DEFINE c == runners[r]
           next == [at |-> "compare", output |-> c.output, until |-> c.until, since |-> c.since,
                    receipt |-> c.receipt, evaluated |-> held]
<1>1. /\ HoldoutTypes /\ c.at = "run" /\ evaluations' = Append(evaluations, c.receipt)
      /\ UNCHANGED <<used, reports>>
    BY DEF HoldoutInv, RunFrozenHoldout, RunnerAt
<1>2. PICK step \in {Resting, next} : RunnerGoes(r, step)
    <2>1. PICK stop \in BOOLEAN : RunnerGoes(r, IF stop THEN Resting ELSE next)
        BY DEF RunFrozenHoldout
    <2> HIDE DEF next
    <2> QED
        BY <2>1
<1>3. HoldoutUnderway(c) /\ c \in HoldoutAuthorized
    <2>1. RunnerSound(r)
        BY DEF HoldoutInv
    <2>2. HoldoutUnderway(c)
        BY <1>1, <2>1 DEF RunnerSound, Resting
    <2> QED
        BY <1>1, <2>2, UnderwayFields
<1>4. /\ Named(r) = c.receipt /\ UnderReceipt(r) /\ c.receipt \in used
      /\ \A i \in DOMAIN evaluations : evaluations[i] # c.receipt
    BY <1>1 DEF Named, UnderReceipt, HoldoutInv, UsedOnce
<1> HIDE DEF c
<1>5. c.receipt \in Receipts /\ c.output \in ReportPaths /\ c.until \in Nat /\ c.since \in Sinces
    BY <1>3 DEF HoldoutAuthorized
<1>6. /\ next \in Evaluated /\ next.since = c.since /\ next.until = c.until
      /\ next.receipt = c.receipt /\ next.evaluated = held /\ next.at = "compare"
    BY <1>1, <1>5 DEF Evaluated, HoldoutTypes
<1> HIDE DEF next
<1>6a. PICK now : now = next
    OBVIOUS
<1>7. HoldoutUnderway(now)
    BY <1>3, <1>6, <1>6a DEF HoldoutUnderway, StillKnown, Tracked
<1>8. /\ runners'[r] = step /\ DOMAIN runners' = Runners
      /\ \A q \in Runners : q # r => runners'[q] = runners[q] /\ RunnerSound(q)'
                                     /\ UnderReceipt(q)' = UnderReceipt(q) /\ Named(q)' = Named(q)
      /\ HoldoutUnderway(now)'
    BY <1>2, <1>7, OthersSound
<1>9. RunnerSound(r)' /\ (UnderReceipt(r)' => Named(r)' = c.receipt) /\ runners'[r].at # "run"
    <2>1. CASE step = Resting
        BY <1>8, <2>1 DEF RunnerSound, UnderReceipt, Resting
    <2>2. CASE step = next
        <3>1. now.at = "compare" /\ now.receipt = c.receipt /\ runners'[r] = now
            BY <1>6, <1>6a, <1>8, <2>2
        <3> QED
            BY <1>8, <3>1 DEF RunnerSound, UnderReceipt, Named
    <2> QED
        BY <1>2, <2>1, <2>2
<1>10. /\ evaluations' \in Seq(Receipts) /\ DOMAIN evaluations = 1 .. Len(evaluations)
       /\ Len(evaluations) \in Nat /\ DOMAIN evaluations' = 1 .. Len(evaluations) + 1
       /\ \A i \in DOMAIN evaluations : evaluations'[i] = evaluations[i]
       /\ evaluations'[Len(evaluations) + 1] = c.receipt
    <2>1. evaluations \in Seq(Receipts)
        BY <1>1 DEF HoldoutTypes
    <2>2. /\ DOMAIN evaluations = 1 .. Len(evaluations) /\ Len(evaluations) \in Nat
        BY <2>1, LenProperties
    <2>3. /\ evaluations' \in Seq(Receipts) /\ Len(evaluations') = Len(evaluations) + 1
          /\ \A i \in 1 .. Len(evaluations) : evaluations'[i] = evaluations[i]
          /\ evaluations'[Len(evaluations) + 1] = c.receipt
        BY <1>1, <1>5, <2>1, AppendProperties
    <2>4. DOMAIN evaluations' = 1 .. Len(evaluations')
        BY <2>3, LenProperties
    <2> QED
        BY <2>2, <2>3, <2>4
<1>11. \A i \in DOMAIN evaluations' :
          i \in DOMAIN evaluations \/ (i = Len(evaluations) + 1 /\ i \notin DOMAIN evaluations)
    BY <1>10
<1>12. HoldoutTypes'
    BY <1>1, <1>2, <1>8, <1>10 DEF HoldoutTypes, RunnerGoes
<1>13. /\ \A i \in DOMAIN evaluations' : evaluations'[i] \in used'
       /\ \A i, j \in DOMAIN evaluations' : evaluations'[i] = evaluations'[j] => i = j
    BY <1>1, <1>4, <1>10, <1>11 DEF HoldoutInv, UsedOnce
<1>14. \A q \in Runners, i \in DOMAIN evaluations' : runners'[q].at = "run" => evaluations'[i] # Named(q)'
    <2> SUFFICES ASSUME NEW q \in Runners, NEW i \in DOMAIN evaluations', runners'[q].at = "run"
                 PROVE  evaluations'[i] # Named(q)'
        OBVIOUS
    <2>1. q # r /\ runners[q].at = "run" /\ Named(q)' = Named(q) /\ UnderReceipt(q)
        BY <1>8, <1>9 DEF UnderReceipt
    <2>2. Named(q) # c.receipt
        BY <1>4, <2>1 DEF HoldoutInv, UsedOnce
    <2> QED
        BY <1>10, <1>11, <2>1, <2>2 DEF HoldoutInv, UsedOnce
<1>15. \A q \in Runners : UnderReceipt(q)' => UnderReceipt(q) /\ Named(q)' = Named(q)
    BY <1>4, <1>8, <1>9
<1>16. UsedOnce'
    BY <1>1, <1>13, <1>14, <1>15 DEF HoldoutInv, UsedOnce
<1>17. \A o \in ReportPaths : reports'[o] = NoReport \/ ReportTrue(reports[o])'
    BY <1>1, <1>2, OthersSound DEF HoldoutInv
<1>18. \A q \in Runners : RunnerSound(q)'
    BY <1>8, <1>9
<1> QED
    BY <1>12, <1>16, <1>17, <1>18 DEF HoldoutInv

LEMMA ValidateComparisonSound ==
    ASSUME HoldoutInv, NEW r \in Runners, ValidateComparison(r)
    PROVE  HoldoutInv'
<1> DEFINE c == runners[r]
           evaluated == [c.evaluated EXCEPT !["thresholds"] = held["thresholds"]]
           step == [c EXCEPT !.at = "complete", !.evaluated = evaluated]
<1>1. /\ HoldoutTypes /\ c.at = "compare" /\ RunnerGoes(r, step)
      /\ UNCHANGED <<used, reports, evaluations>>
    BY DEF HoldoutInv, ValidateComparison, RunnerAt
<1>2. HoldoutUnderway(c) /\ c \in Evaluated
    <2>1. RunnerSound(r)
        BY DEF HoldoutInv
    <2>2. HoldoutUnderway(c)
        BY <1>1, <2>1 DEF RunnerSound, Resting
    <2> QED
        BY <1>1, <2>2, UnderwayFields
<1>3. UnderReceipt(r) /\ Named(r) = c.receipt
    BY <1>1 DEF UnderReceipt, Named
<1> HIDE DEF c
<1>4. /\ evaluated \in Held
      /\ \A f \in Inputs : evaluated[f] = IF f = "thresholds" THEN held[f] ELSE c.evaluated[f]
    <2>1. c.evaluated \in Held /\ held \in Held /\ "thresholds" \in Inputs
        BY <1>1, <1>2, HoldoutConstants DEF Evaluated, HoldoutTypes
    <2> QED
        BY <2>1 DEF Held
<1> HIDE DEF evaluated
<1>5. /\ step \in Evaluated /\ step.since = c.since /\ step.until = c.until
      /\ step.receipt = c.receipt /\ step.evaluated = evaluated /\ step.at = "complete"
    BY <1>2, <1>4 DEF Evaluated
<1> HIDE DEF step
<1>6. ASSUME c.since.receipts = receipts, NEW f \in Inputs, heldEdits[f] = c.since.edits[f]
      PROVE  evaluated[f] = receipt.binds[f]
    BY <1>2, <1>4, <1>6 DEF HoldoutUnderway, StillKnown, Tracked
<1>7. HoldoutUnderway(step)
    BY <1>2, <1>5, <1>6 DEF HoldoutUnderway, StillKnown
<1>7a. PICK now : now = step
    OBVIOUS
<1>8. RunnerGoes(r, now) /\ HoldoutUnderway(now) /\ now.at = "complete" /\ now.receipt = c.receipt
    BY <1>1, <1>5, <1>7, <1>7a
<1>9. RunnerSound(r)' /\ Named(r)' = c.receipt
    <2>1. runners'[r] = now /\ HoldoutUnderway(now)'
        BY <1>8, OthersSound
    <2> QED
        BY <1>8, <2>1 DEF RunnerSound, Named
<1> QED
    BY <1>1, <1>3, <1>8, <1>9, RunnerStepSound

\* At the second validation no file is in the middle of a change.
LEMMA CompleteSound ==
    ASSUME HoldoutInv, NEW r \in Runners, Complete(r)
    PROVE  HoldoutInv'
<1> DEFINE c == runners[r]
           edited == [f \in Inputs |-> heldEdits[f] - c.since.edits[f]]
           report == [written |-> TRUE, receipt |-> c.receipt, until |-> c.until,
                      evaluated |-> c.evaluated, completed |-> today,
                      replaced |-> receipts - c.since.receipts, edited |-> edited]
           step == [at |-> "write", output |-> c.output, report |-> report]
<1>1. /\ HoldoutTypes /\ c.at = "complete" /\ RunnerGoes(r, step)
      /\ UNCHANGED <<used, reports, evaluations>>
      /\ today < receipt.until /\ receipt.binds = held
    BY DEF HoldoutInv, Complete, RunnerAt, StillAccepted, ValidateOwnerAcceptance
<1>2. HoldoutUnderway(c) /\ c \in Evaluated
    <2>1. RunnerSound(r)
        BY DEF HoldoutInv
    <2>2. HoldoutUnderway(c)
        BY <1>1, <2>1 DEF RunnerSound, Resting
    <2> QED
        BY <1>1, <2>2, UnderwayFields
<1>3. UnderReceipt(r) /\ Named(r) = c.receipt
    BY <1>1 DEF UnderReceipt, Named
<1>4. /\ c.receipt \in Receipts /\ c.output \in ReportPaths /\ c.since.receipts \in Nat
      /\ \A f \in Inputs : c.since.edits[f] \in Nat /\ heldEdits[f] \in Nat
      /\ c.since.receipts <= receipts /\ receipts \in Nat
      /\ \A f \in Inputs : c.since.edits[f] <= heldEdits[f]
    BY <1>1, <1>2, UnderwayFields DEF Evaluated, HoldoutUnderway, HoldoutTypes
<1> HIDE DEF c
<1>5. ASSUME c.since.receipts = receipts
      PROVE  /\ c.until = c.receipt.until /\ today < c.until
             /\ \A f \in Inputs : c.evaluated[f] = c.receipt.binds[f] \/ edited[f] >= 2
    <2>1. /\ c.until = receipt.until /\ c.receipt = receipt /\ Tracked(c.since)
          /\ \A f \in Inputs : heldEdits[f] = c.since.edits[f] => c.evaluated[f] = receipt.binds[f]
        BY <1>2, <1>5 DEF HoldoutUnderway, StillKnown
    <2>2. \A f \in Inputs : heldEdits[f] # c.since.edits[f] + 1
        BY <1>1, <2>1 DEF Tracked
    <2>3. \A f \in Inputs : heldEdits[f] = c.since.edits[f] \/ edited[f] >= 2
        BY <1>4, <2>2
    <2> QED
        BY <1>1, <2>1, <2>3
<1>6. /\ report.written = TRUE /\ report.receipt = c.receipt /\ report.until = c.until
      /\ report.evaluated = c.evaluated /\ report.completed = today /\ report.edited = edited
      /\ report.replaced = receipts - c.since.receipts
    OBVIOUS
<1>7. step.at = "write" /\ step.output \in ReportPaths /\ step.report = report
    BY <1>4
<1> HIDE DEF step, report, edited
<1>8. receipts - c.since.receipts = 0 => c.since.receipts = receipts
    BY <1>4
<1>9. TrueToReceipt(report)
    BY <1>5, <1>6, <1>8 DEF TrueToReceipt
<1>10. runners'[r] = step
    BY <1>1, OthersSound
<1>11. RunnerSound(r)'
    BY <1>4, <1>6, <1>7, <1>9, <1>10 DEF RunnerSound, ReportTrue, TrueToReceipt
<1>12. Named(r)' = Named(r)
    BY <1>3, <1>6, <1>7, <1>10 DEF Named
<1> QED
    BY <1>1, <1>3, <1>7, <1>11, <1>12, RunnerStepSound

LEMMA WriteOnceSound ==
    ASSUME HoldoutInv, NEW r \in Runners, WriteOnce(r)
    PROVE  HoldoutInv'
<1> DEFINE out == runners[r].output
           report == runners[r].report
<1>1. /\ HoldoutTypes /\ runners[r].at = "write" /\ ~ reports[out].written
      /\ reports' = [reports EXCEPT ![out] = report]
      /\ RunnerGoes(r, Resting) /\ UNCHANGED <<used, evaluations>>
    BY DEF HoldoutInv, WriteOnce, RunnerAt
<1>2. out \in ReportPaths /\ ReportTrue(report)
    <2>1. RunnerSound(r)
        BY DEF HoldoutInv
    <2>2. ~ HoldoutUnderway(runners[r])
        BY <1>1, UnderwayFields
    <2> QED
        BY <1>1, <2>1, <2>2 DEF RunnerSound, Resting
<1>3. UnderReceipt(r) /\ Named(r) = report.receipt /\ report.receipt \in used
    BY <1>1 DEF HoldoutInv, UsedOnce, UnderReceipt, Named
<1> HIDE DEF out, report
<1>4. /\ runners'[r] = Resting /\ DOMAIN runners' = Runners
      /\ \A q \in Runners : q # r => runners'[q] = runners[q] /\ RunnerSound(q)'
                                     /\ UnderReceipt(q)' = UnderReceipt(q) /\ Named(q)' = Named(q)
      /\ \A o \in ReportPaths : ReportTrue(reports[o]) => (reports'[o] = reports[o] => ReportTrue(reports[o])')
    BY <1>1, OthersSound
<1>5. /\ DOMAIN reports' = ReportPaths /\ reports'[out] = report
      /\ \A o \in ReportPaths : o # out => reports'[o] = reports[o]
    BY <1>1, <1>2 DEF HoldoutTypes
<1>6. HoldoutTypes'
    BY <1>1, <1>4, <1>5 DEF HoldoutTypes, RunnerGoes
<1>7. RunnerSound(r)' /\ ~ UnderReceipt(r)' /\ runners'[r].at # "run"
    BY <1>4 DEF RunnerSound, UnderReceipt, Resting
<1>8. \A q \in Runners : RunnerSound(q)'
    BY <1>4, <1>7
<1>9. ASSUME NEW o \in ReportPaths
      PROVE  reports'[o] = NoReport \/ ReportTrue(reports[o])'
    <2>1. CASE o = out
        BY <1>2, <1>5, <2>1 DEF ReportTrue, TrueToReceipt
    <2>2. CASE o # out
        BY <1>4, <1>5, <2>2 DEF HoldoutInv
    <2> QED
        BY <2>1, <2>2
<1>10. \A q \in Runners : UnderReceipt(q)' => UnderReceipt(q) /\ Named(q)' = Named(q) /\ q # r
    BY <1>4, <1>7
<1>11. \A q \in Runners : runners'[q].at = "run" => runners[q].at = "run" /\ Named(q)' = Named(q)
    BY <1>4, <1>7
<1>12. \A q \in Runners : UnderReceipt(q) /\ q # r => Named(q) # report.receipt
    BY <1>3 DEF HoldoutInv, UsedOnce
<1>13. \A o \in ReportPaths : reports[o].written => reports[o].receipt # report.receipt
    BY <1>3 DEF HoldoutInv, UsedOnce
<1>14. \A q \in Runners, o \in ReportPaths :
          UnderReceipt(q)' /\ reports'[o].written => reports'[o].receipt # Named(q)'
    BY <1>5, <1>10, <1>12 DEF HoldoutInv, UsedOnce
<1>15. \A o, p \in ReportPaths :
          reports'[o].written /\ reports'[p].written /\ reports'[o].receipt = reports'[p].receipt => o = p
    BY <1>5, <1>13 DEF HoldoutInv, UsedOnce
<1>16. \A o \in ReportPaths : reports'[o].written => reports'[o].receipt \in used'
    BY <1>1, <1>3, <1>5 DEF HoldoutInv, UsedOnce
<1>17. UsedOnce'
    BY <1>1, <1>10, <1>11, <1>14, <1>15, <1>16 DEF HoldoutInv, UsedOnce
<1> QED
    BY <1>6, <1>8, <1>9, <1>17 DEF HoldoutInv

LEMMA HoldoutStep ==
    ASSUME HoldoutInv, [HoldoutNext]_holdoutVars
    PROVE  HoldoutInv'
<1>1. CASE EditHeld \/ DayPasses \/ Accept
    BY <1>1, OutsideSound
<1>2. ASSUME NEW r \in Runners,
             RunnerEnds(r) \/ RunOwnerAcceptedHoldout(r) \/ ReadDigest(r) \/ TakeUse(r)
             \/ RunFrozenHoldout(r) \/ ValidateComparison(r) \/ Complete(r) \/ WriteOnce(r)
      PROVE  HoldoutInv'
    BY <1>2, RunnerEndsSound, RunOwnerAcceptedSound, ReadDigestSound, TakeUseSound, RunFrozenSound,
       ValidateComparisonSound, CompleteSound, WriteOnceSound
<1>3. CASE UNCHANGED holdoutVars
    <2>1. UNCHANGED <<held, receipt, used, reports, runners, today, receipts, heldEdits, evaluations>>
        BY <1>3 DEF holdoutVars
    <2>2. \A c : HoldoutUnderway(c)' = HoldoutUnderway(c)
        BY <2>1 DEF HoldoutUnderway, StillKnown, Tracked
    <2>3. \A r \in Runners : RunnerSound(r)'
        BY <2>1, <2>2 DEF HoldoutInv, RunnerSound, ReportTrue, TrueToReceipt
    <2>4. HoldoutTypes' /\ UsedOnce'
        BY <2>1 DEF HoldoutInv, HoldoutTypes, UsedOnce, UnderReceipt, Named
    <2>5. \A o \in ReportPaths : reports'[o] = NoReport \/ ReportTrue(reports[o])'
        BY <2>1 DEF HoldoutInv, ReportTrue, TrueToReceipt
    <2> QED
        BY <2>3, <2>4, <2>5 DEF HoldoutInv
<1> QED
    BY <1>1, <1>2, <1>3 DEF HoldoutNext

\* The holdout is evaluated at most once under a receipt, whoever runs, fails or
\* dies and whatever receipt takes its place, and no receipt has two reports. A
\* report whose receipt was not replaced during the run was completed before
\* that receipt expired, and is of another content than the owner accepted only
\* where a file was changed and changed back (holdout_owner_acceptance.py).
THEOREM HoldoutSound == HoldoutSpec => [](HoldoutTypeOK /\ HoldoutIsSound)
<1>1. HoldoutInv => HoldoutTypeOK /\ HoldoutIsSound
    <2> SUFFICES ASSUME HoldoutInv PROVE HoldoutTypeOK /\ HoldoutIsSound
        OBVIOUS
    <2>1. \A o \in ReportPaths :
            reports[o].written \in BOOLEAN /\ (reports[o].written => TrueToReceipt(reports[o]))
        <3> SUFFICES ASSUME NEW o \in ReportPaths
                     PROVE  reports[o].written \in BOOLEAN /\ (reports[o].written => TrueToReceipt(reports[o]))
            OBVIOUS
        <3>1. CASE reports[o] = NoReport
            BY <3>1 DEF NoReport
        <3>2. CASE ReportTrue(reports[o])
            <4>1. PICK w : w = TRUE /\ reports[o].written = w
                BY <3>2 DEF ReportTrue
            <4> QED
                BY <3>2, <4>1 DEF ReportTrue
        <3> QED
            BY <3>1, <3>2 DEF HoldoutInv
    <2>2. HoldoutTypeOK
        BY <2>1 DEF HoldoutInv, HoldoutTypes, HoldoutTypeOK
    <2> QED
        BY <2>1, <2>2 DEF HoldoutInv, UsedOnce, HoldoutIsSound
<1> QED
    BY HoldoutStarts, HoldoutStep, <1>1, PTL DEF HoldoutSpec

\* Together: what evaluation and activation rest on was witnessed as the
\* records say, however people, tools and deaths interleave (evaluation.py,
\* human_review.py, holdout_owner_acceptance.py, private_rag_activation.py).
THEOREM EvaluationSound == EvaluationSpec => []EvaluationIsWitnessed
BY EvidenceSound, ReviewSound, HoldoutSound, ActivationSound, PTL DEF EvaluationSpec, EvaluationIsWitnessed

-----------------------------------------------------------------------------
(* The local classifier (LocalModel).                                      *)

TrainSteps == {"training", "writing", "published", "head_of_own", "rest_of_own", "index_of_own"}
LoadSteps == {"load", "metadata", "head", "rest", "index"}

CleanData(data) == \A r, s \in data : ~ r.pending /\ (r.text = s.text => r.quadrant = s.quadrant)

\* Data and settings with which a candidate may be published.
FitToPublish(data, gate, d) ==
    /\ d.chosen /\ Covered(data) /\ CleanData(data)
    /\ gate \in {"draft", "approved"} => {r.text : r \in data} \cap EvaluationTexts = {}
    /\ d.profile = "production" => gate \in {"owner", "approved", "none"}

DeploymentShape(d) ==
    \/ d = [chosen |-> FALSE]
    \/ d = [chosen |-> TRUE, production |-> d.production, profile |-> d.profile, gate |-> d.gate,
            expired |-> d.expired]

PublishedSound(pubs, d) ==
    /\ \E S : pubs \in Seq(S)
    /\ \A i \in DOMAIN pubs : FitToPublish(pubs[i].data, pubs[i].gate, d)

Indexed(m, pointer) == m.head # 0 /\ m.generation = pointer /\ pointer # 0 => m.index = pointer

MemoryShape(m) ==
    m = [up |-> m.up, ready |-> m.ready, error |-> m.error, head |-> m.head, temperature |-> m.temperature,
         generation |-> m.generation, index |-> m.index, own |-> m.own, approved |-> m.approved, lock |-> m.lock]

\* The generation of a process is set last but for the index.
MemorySound(m, pointer, d) ==
    /\ MemoryShape(m) /\ m.up \in {"down", "starting", "up"} /\ {m.head, m.temperature, m.generation} \subseteq 0 .. pointer
    /\ (m.ready => m.head # 0) /\ (m.up # "down" => d.chosen)
    /\ m.generation = pointer /\ pointer # 0 =>
        /\ m.temperature = pointer /\ m.head \in {0, pointer}
        /\ d.production => m.own \/ m.approved = pointer
    /\ m.lock = Nobody0 /\ m.up # "starting" => Indexed(m, pointer)

CallShape(c) ==
    \/ c = Nothing
    \/ c.at = "load" /\ c = [at |-> "load", kind |-> "startup"]
    \/ /\ c.at \in {"waiting", "training"} /\ c.kind \in {"startup", "retrain"} /\ CleanData(c.data)
       /\ c = [at |-> c.at, kind |-> c.kind, data |-> c.data]
    \/ /\ c.at \in TrainSteps \ {"training"} /\ c.kind \in {"startup", "retrain"}
       /\ c = [at |-> c.at, kind |-> c.kind, data |-> c.data, candidate |-> c.candidate]
    \/ c.at \in {"refresh", "load", "asked"} /\ c = [at |-> c.at, kind |-> "predict", seen |-> c.seen]
    \/ /\ c.at \in LoadSteps \ {"load"} /\ c.kind \in {"startup", "predict"}
       /\ c = [at |-> c.at, kind |-> c.kind, meta |-> c.meta, seen |-> c.seen]
    \/ c.at = "scale" /\ c = [at |-> "scale", kind |-> "predict", seen |-> c.seen, head |-> c.head]
    \/ /\ c.at = "answered"
       /\ c = [at |-> "answered", kind |-> "predict", seen |-> c.seen, head |-> c.head, temperature |-> c.temperature]

\* A training: what it will publish, and what it has put in memory.
TrainingSound(t, c, m, pointer, pubs, d, f) ==
    /\ c.at \in TrainSteps => f = t /\ m.lock = t
    /\ c.at = "training" \/ (c.at = "waiting" /\ c.kind = "startup") => Indexed(m, pointer)
    /\ c.at = "writing" => FitToPublish(c.data, d.gate, d) /\ c.candidate = Len(pubs) + 1 /\ c.candidate <= MaxGenerations
    /\ c.at = "published" => c.candidate = Len(pubs) /\ pointer < c.candidate
    /\ c.at \in {"head_of_own", "rest_of_own", "index_of_own"} => c.candidate = pointer /\ pointer # 0
    /\ c.at \in {"head_of_own", "rest_of_own"} => m.generation < pointer
    /\ c.at \in {"rest_of_own", "index_of_own"} => m.head = pointer /\ m.own
    /\ c.at = "index_of_own" => m.temperature = pointer /\ m.generation = pointer

\* A load: what it read, and what it has put in memory.
LoadSound(t, c, m, pointer, d) ==
    /\ c.at \in LoadSteps /\ c.kind = "predict" => m.lock = t
    /\ c.at \in LoadSteps \ {"index"} => m.generation < pointer
    /\ c.at \in LoadSteps \ {"load"} => c.meta \in 1 .. pointer
    /\ c.at = "metadata" => m.generation < c.meta
    /\ c.at \in {"head", "rest", "index"} => (d.production => m.approved = c.meta)
    /\ c.at \in {"rest", "index"} => m.head \in c.meta .. pointer
    /\ c.at = "index" => m.temperature = c.meta /\ m.generation = c.meta

\* A prediction: what it may come upon in memory.
PredictionSound(c, m, pointer) ==
    c # Nothing /\ c.kind = "predict" =>
        /\ pointer \in c.seen /\ c.seen \subseteq 0 .. pointer
        /\ c.at \in LoadSteps \ {"load"} => c.meta \in c.seen
        /\ c.at \in {"rest", "index"} => m.head \in c.seen
        /\ c.at \in {"asked", "scale"} => m.head \in c.seen \cup {0} /\ m.temperature \in c.seen
        /\ c.at \in {"asked", "scale", "answered"} /\ pointer # 0 /\ c.seen = {pointer} => m.generation = pointer
        /\ c.at \in {"scale", "answered"} => c.head \in c.seen \ {0}
        /\ c.at = "answered" => c.temperature \in c.seen

\* A call is made in a process that is up, or that it starts.
CallSound(t, c, m, pointer, pubs, d, f) ==
    /\ CallShape(c)
    /\ c # Nothing => m.up = IF c.kind = "startup" THEN "starting" ELSE "up"
    /\ TrainingSound(t, c, m, pointer, pubs, d, f) /\ LoadSound(t, c, m, pointer, d) /\ PredictionSound(c, m, pointer)

\* One call starts a process; a prediction under way sees what another one loads.
CallsAgree(c, e) ==
    /\ ~ (c # Nothing /\ e # Nothing /\ c.kind = "startup" /\ e.kind = "startup")
    /\ c.at \in {"asked", "scale"} /\ e.at \in {"metadata", "head", "rest"} => e.meta \in c.seen

ModelInv ==
    /\ servedPointer \in 0 .. Len(published) /\ Len(published) <= MaxGenerations
    /\ DeploymentShape(deployment) /\ PublishedSound(published, deployment)
    /\ flock \in Threads \cup {Nobody0}
    /\ memory = [p \in Servers |-> memory[p]] /\ call = [t \in Threads |-> call[t]]
    /\ \A p \in Servers : MemorySound(memory[p], servedPointer, deployment)
    /\ \A t \in Threads : CallSound(t, call[t], Mine(t), servedPointer, published, deployment, flock)
    /\ \A t, u \in Threads : t # u /\ ServerOf[t] = ServerOf[u] => CallsAgree(call[t], call[u])


LEMMA DownIsSound ==
    ASSUME NEW pointer \in Nat, NEW d
    PROVE  /\ MemorySound(Down, pointer, d) /\ Down.up = "down" /\ Down.lock = Nobody0 /\ Indexed(Down, pointer)
           /\ Down.head = 0 /\ Down.generation = 0 /\ ~ Down.ready /\ MemoryShape(Down)
<1>1. PICK no : no = FALSE
    OBVIOUS
<1>2. PICK m : m = Down
    OBVIOUS
<1>3. m = [up |-> "down", ready |-> no, error |-> no, head |-> 0, temperature |-> 0, generation |-> 0,
           index |-> 0, own |-> no, approved |-> 0, lock |-> Nobody0]
    BY <1>1, <1>2 DEF Down
<1>4. /\ m.up = "down" /\ m.lock = Nobody0 /\ m.head = 0 /\ m.temperature = 0 /\ m.generation = 0
      /\ m.ready = no /\ MemoryShape(m)
    BY <1>3 DEF MemoryShape
<1>5. ~ m.ready
    BY <1>1, <1>4
<1>6. Indexed(m, pointer)
    BY <1>4 DEF Indexed
<1>7. {m.head, m.temperature, m.generation} \subseteq 0 .. pointer
    BY <1>4
<1>8. ~ (m.generation = pointer /\ pointer # 0)
    BY <1>4
<1>9. MemorySound(m, pointer, d)
    BY <1>4, <1>5, <1>6, <1>7, <1>8 DEF MemorySound
<1> QED
    BY <1>2, <1>4, <1>5, <1>6, <1>9

LEMMA IdleIsSound ==
    ASSUME NEW t, NEW m, NEW pointer, NEW pubs, NEW d, NEW f
    PROVE  CallSound(t, Nothing, m, pointer, pubs, d, f) /\ Nothing.at = "idle"
<1>1. Nothing.at = "idle"
    BY DEF Nothing
<1> QED
    BY <1>1 DEF CallSound, CallShape, TrainingSound, LoadSound, PredictionSound, TrainSteps, LoadSteps

LEMMA IdleAgrees == \A c : CallsAgree(Nothing, c) /\ CallsAgree(c, Nothing)
<1>1. Nothing.at = "idle"
    BY DEF Nothing
<1> QED
    BY <1>1 DEF CallsAgree

LEMMA PointerTyped ==
    ModelInv => /\ servedPointer \in Nat /\ Len(published) \in Nat /\ servedPointer <= Len(published)
                /\ Len(published) <= MaxGenerations /\ MaxGenerations \in Nat /\ DOMAIN published = 1 .. Len(published)
<1> SUFFICES ASSUME ModelInv PROVE /\ servedPointer \in Nat /\ Len(published) \in Nat
                                   /\ servedPointer <= Len(published)
                                   /\ Len(published) <= MaxGenerations /\ MaxGenerations \in Nat
                                   /\ DOMAIN published = 1 .. Len(published)
    OBVIOUS
<1>1. PICK S : published \in Seq(S)
    BY DEF ModelInv, PublishedSound
<1>2. Len(published) \in Nat /\ DOMAIN published = 1 .. Len(published)
    BY <1>1
<1>3. servedPointer \in 0 .. Len(published) /\ Len(published) <= MaxGenerations
    BY DEF ModelInv
<1> QED
    BY <1>2, <1>3, LocalModelConstants

LEMMA ModelInvImplies == ModelInv => ModelTypeOK /\ ServedModelIsSound
<1> SUFFICES ASSUME ModelInv PROVE ModelTypeOK /\ ServedModelIsSound
    OBVIOUS
<1>1. /\ servedPointer \in Nat /\ Len(published) \in Nat /\ servedPointer <= Len(published)
      /\ Len(published) <= MaxGenerations /\ MaxGenerations \in Nat /\ DOMAIN published = 1 .. Len(published)
    BY PointerTyped
<1>2. \A p \in Servers : MemorySound(memory[p], servedPointer, deployment)
    BY DEF ModelInv
<1>3. ModelTypeOK
    <2>1. servedPointer \in 0 .. MaxGenerations /\ DOMAIN published \subseteq 1 .. MaxGenerations
        BY <1>1
    <2>2. ASSUME NEW p \in Servers
          PROVE  memory[p].head \in 0 .. MaxGenerations /\ memory[p].up \in {"down", "starting", "up"}
        <3>1. memory[p].head \in 0 .. servedPointer /\ memory[p].up \in {"down", "starting", "up"}
            BY <1>2 DEF MemorySound
        <3> QED
            BY <1>1, <3>1
    <2> QED
        BY <2>1, <2>2 DEF ModelTypeOK, ModelInv
<1>4. ASSUME servedPointer # 0
      PROVE  /\ servedPointer \in DOMAIN published
             /\ FitToPublish(published[servedPointer].data, published[servedPointer].gate, deployment)
    <2>1. servedPointer \in DOMAIN published
        BY <1>1, <1>4
    <2> QED
        BY <2>1 DEF ModelInv, PublishedSound
<1>5. ASSUME NEW p \in Servers, memory[p].up = "up", memory[p].lock = Nobody0, memory[p].ready,
             memory[p].generation = servedPointer, servedPointer # 0
      PROVE  {memory[p].head, memory[p].temperature, memory[p].index} = {servedPointer}
    <2>1. MemorySound(memory[p], servedPointer, deployment)
        BY <1>2
    <2>2. memory[p].head = servedPointer /\ memory[p].temperature = servedPointer
        BY <1>5, <2>1 DEF MemorySound
    <2>3. memory[p].index = servedPointer
        BY <1>5, <2>1, <2>2 DEF MemorySound, Indexed
    <2> QED
        BY <2>2, <2>3
<1>6. ASSUME NEW t \in Threads, AtStep(t, "answered")
      PROVE  /\ {call[t].head, call[t].temperature} \subseteq call[t].seen
             /\ deployment.production /\ Cardinality(call[t].seen) = 1 =>
                  call[t].head = Mine(t).approved \/ Mine(t).own
    <2>1. CallSound(t, call[t], Mine(t), servedPointer, published, deployment, flock)
        BY DEF ModelInv
    <2>2. call[t].at = "answered"
        BY <1>6 DEF AtStep
    <2>3. call[t].kind = "predict" /\ call[t] # Nothing
        <3>1. CallShape(call[t])
            BY <2>1 DEF CallSound
        <3>2. call[t] # Nothing
            BY <2>2 DEF Nothing
        <3>3. PICK c : c = call[t]
            OBVIOUS
        <3>4. c = [at |-> "answered", kind |-> "predict", seen |-> c.seen, head |-> c.head,
                   temperature |-> c.temperature]
            BY <2>2, <3>1, <3>2, <3>3 DEF CallShape, TrainSteps, LoadSteps
        <3>5. c.kind = "predict"
            BY <3>4
        <3> QED
            BY <3>2, <3>3, <3>5
    <2>4. /\ servedPointer \in call[t].seen /\ call[t].seen \subseteq 0 .. servedPointer
          /\ call[t].head \in call[t].seen \ {0} /\ call[t].temperature \in call[t].seen
          /\ servedPointer # 0 /\ call[t].seen = {servedPointer} => Mine(t).generation = servedPointer
        BY <2>1, <2>2, <2>3 DEF CallSound, PredictionSound
    <2>5. ASSUME deployment.production, Cardinality(call[t].seen) = 1
          PROVE  call[t].head = Mine(t).approved \/ Mine(t).own
        <3>1. IsFiniteSet(call[t].seen)
            <4>1. IsFiniteSet(0 .. servedPointer)
                BY <1>1, FS_Interval
            <4> QED
                BY <2>4, <4>1, FS_Subset
        <3>2. PICK x : call[t].seen = {x}
            BY <2>5, <3>1, FS_Singleton
        <3>3. call[t].seen = {servedPointer} /\ call[t].head = servedPointer /\ servedPointer # 0
            BY <2>4, <3>2
        <3>4. Mine(t).generation = servedPointer
            BY <2>4, <3>3
        <3>5. MemorySound(Mine(t), servedPointer, deployment)
            BY <1>2, LocalModelConstants DEF Mine
        <3> QED
            BY <2>5, <3>3, <3>4, <3>5 DEF MemorySound
    <2> QED
        BY <2>4, <2>5
<1>7. ServedModelIsSound
    BY <1>4, <1>5, <1>6 DEF ServedModelIsSound, FitToPublish, CleanData
<1> QED
    BY <1>3, <1>7

LEMMA ModelInitSound == ModelInit => ModelInv
<1> SUFFICES ASSUME ModelInit PROVE ModelInv
    OBVIOUS
<1>1. published = << >> /\ servedPointer = 0 /\ deployment = [chosen |-> FALSE] /\ flock = Nobody0
    BY DEF ModelInit
<1>2. published \in Seq({}) /\ Len(published) = 0 /\ DOMAIN published = {}
    BY <1>1
<1>3. servedPointer \in 0 .. Len(published) /\ Len(published) <= MaxGenerations
    BY <1>1, <1>2, LocalModelConstants
<1>4. DeploymentShape(deployment) /\ PublishedSound(published, deployment)
    <2>1. DeploymentShape(deployment)
        BY <1>1 DEF DeploymentShape
    <2>2. PublishedSound(published, deployment)
        BY <1>2 DEF PublishedSound
    <2> QED
        BY <2>1, <2>2
<1>5. /\ memory = [p \in Servers |-> memory[p]] /\ call = [t \in Threads |-> call[t]]
      /\ \A p \in Servers : memory[p] = Down
      /\ \A t \in Threads : call[t] = Nothing
    BY DEF ModelInit
<1>6. \A p \in Servers : MemorySound(memory[p], servedPointer, deployment)
    BY <1>1, <1>5, DownIsSound
<1>7. \A t \in Threads : CallSound(t, call[t], Mine(t), servedPointer, published, deployment, flock)
    BY <1>5, IdleIsSound
<1>8. \A t, u \in Threads : t # u /\ ServerOf[t] = ServerOf[u] => CallsAgree(call[t], call[u])
    BY <1>5, IdleAgrees
<1> QED
    BY <1>1, <1>3, <1>4, <1>5, <1>6, <1>7, <1>8 DEF ModelInv

\* A thread takes a step in its process.
LEMMA ThreadMoves ==
    ASSUME ModelInv, NEW t \in Threads, NEW m2, NEW c2,
           memory' = [memory EXCEPT ![ServerOf[t]] = m2], call' = [call EXCEPT ![t] = c2],
           servedPointer' = servedPointer, deployment' = deployment,
           PublishedSound(published', deployment), servedPointer <= Len(published'), Len(published') <= MaxGenerations,
           Len(published') \in Nat, flock' \in Threads \cup {Nobody0},
           MemorySound(m2, servedPointer, deployment),
           CallSound(t, c2, m2, servedPointer, published', deployment, flock'),
           \A u \in Threads : u # t /\ ServerOf[u] = ServerOf[t] =>
                /\ CallSound(u, call[u], m2, servedPointer, published', deployment, flock')
                /\ CallsAgree(c2, call[u]) /\ CallsAgree(call[u], c2),
           \A u \in Threads : ServerOf[u] # ServerOf[t] =>
                CallSound(u, call[u], Mine(u), servedPointer, published', deployment, flock')
    PROVE  ModelInv'
<1>1. /\ memory = [p \in Servers |-> memory[p]] /\ call = [u \in Threads |-> call[u]]
      /\ \A u \in Threads : ServerOf[u] \in Servers
    BY LocalModelConstants DEF ModelInv
<1>2. /\ memory' = [p \in Servers |-> memory'[p]] /\ memory'[ServerOf[t]] = m2
      /\ \A p \in Servers : p # ServerOf[t] => memory'[p] = memory[p]
    BY <1>1
<1>3. /\ call' = [u \in Threads |-> call'[u]] /\ call'[t] = c2 /\ \A u \in Threads : u # t => call'[u] = call[u]
    BY <1>1
<1>4. \A p \in Servers : MemorySound(memory'[p], servedPointer, deployment)
    BY <1>2 DEF ModelInv
<1>5. \A u \in Threads : CallSound(u, call'[u], memory'[ServerOf[u]], servedPointer, published', deployment, flock')
    <2> TAKE u \in Threads
    <2>1. CASE u = t
        BY <1>2, <1>3, <2>1
    <2>2. CASE u # t /\ ServerOf[u] = ServerOf[t]
        BY <1>2, <1>3, <2>2
    <2>3. CASE ServerOf[u] # ServerOf[t]
        <3>1. memory'[ServerOf[u]] = Mine(u) /\ call'[u] = call[u]
            BY <1>1, <1>2, <1>3, <2>3 DEF Mine
        <3> QED
            BY <2>3, <3>1
    <2> QED
        BY <2>1, <2>2, <2>3
<1>6. \A u, v \in Threads : u # v /\ ServerOf[u] = ServerOf[v] => CallsAgree(call'[u], call'[v])
    <2> SUFFICES ASSUME NEW u \in Threads, NEW v \in Threads, u # v, ServerOf[u] = ServerOf[v]
                 PROVE  CallsAgree(call'[u], call'[v])
        OBVIOUS
    <2>1. CASE u = t
        BY <1>3, <2>1
    <2>2. CASE v = t
        BY <1>3, <2>2
    <2>3. CASE u # t /\ v # t
        BY <1>3, <2>3 DEF ModelInv
    <2> QED
        BY <2>1, <2>2, <2>3
<1>7. servedPointer \in 0 .. Len(published') /\ DeploymentShape(deployment)
    <2>1. servedPointer \in Nat
        BY PointerTyped
    <2> QED
        BY <2>1 DEF ModelInv
<1>8. \A u \in Threads : CallSound(u, call[u], Mine(u), servedPointer, published, deployment, flock)'
    BY <1>5 DEF Mine
<1> QED
    BY <1>2, <1>3, <1>4, <1>6, <1>7, <1>8 DEF ModelInv

\* What is published and who trains matters to trainings only.
LEMMA OutsideTraining ==
    ASSUME NEW u, NEW c, NEW m, NEW pointer, NEW pubs, NEW d, NEW f, CallSound(u, c, m, pointer, pubs, d, f),
           c.at \notin TrainSteps, NEW pubs2, NEW f2
    PROVE  CallSound(u, c, m, pointer, pubs2, d, f2)
<1>1. TrainingSound(u, c, m, pointer, pubs2, d, f2)
    BY DEF CallSound, TrainingSound, TrainSteps
<1> QED
    BY <1>1 DEF CallSound

\* The owner of the file lock goes on, or lets it go.
FlockGoes(t) == flock' = flock \/ (flock = t /\ flock' = Nobody0)

LEMMA TrainersHold ==
    ASSUME ModelInv, NEW t \in Threads, FlockGoes(t) \/ flock = Nobody0, NEW u \in Threads, u # t, NEW m,
           CallSound(u, call[u], m, servedPointer, published, deployment, flock)
    PROVE  CallSound(u, call[u], m, servedPointer, published, deployment, flock')
<1>1. CASE call[u].at \in TrainSteps
    <2>1. flock = u /\ u # Nobody0
        BY <1>1, LocalModelConstants DEF CallSound, TrainingSound, Nobody0
    <2>2. flock' = flock
        BY <2>1 DEF FlockGoes
    <2> QED
        BY <2>2
<1>2. CASE call[u].at \notin TrainSteps
    BY <1>2, OutsideTraining
<1> QED
    BY <1>1, <1>2

\* A call that holds no lock and does not start its process.
FreeCall(c) == c = Nothing \/ (c.at \in {"waiting", "refresh", "asked", "scale", "answered"} /\ c.kind # "startup")

LEMMA CallKinds ==
    ASSUME NEW c, CallShape(c), c # Nothing
    PROVE  /\ c.at \in {"waiting", "refresh", "asked", "scale", "answered"} \cup TrainSteps \cup LoadSteps
           /\ c.kind \in {"startup", "retrain", "predict"}
           /\ c.at \in {"refresh", "asked", "scale", "answered"} => c.kind = "predict"
           /\ c.at \in LoadSteps => c.kind \in {"startup", "predict"}
           /\ c.at \in TrainSteps \cup {"waiting"} => c.kind \in {"startup", "retrain"}
<1>1. CASE c.at = "load" /\ c = [at |-> "load", kind |-> "startup"]
    <2>1. c.kind = "startup"
        BY <1>1
    <2> QED
        BY <1>1, <2>1 DEF TrainSteps, LoadSteps
<1>2. CASE c.at \in {"refresh", "load", "asked"} /\ c = [at |-> c.at, kind |-> "predict", seen |-> c.seen]
    <2>1. c.kind = "predict"
        BY <1>2
    <2> QED
        BY <1>2, <2>1 DEF TrainSteps, LoadSteps
<1>3. CASE c.at = "scale" /\ c = [at |-> "scale", kind |-> "predict", seen |-> c.seen, head |-> c.head]
    <2>1. c.kind = "predict"
        BY <1>3
    <2> QED
        BY <1>3, <2>1 DEF TrainSteps, LoadSteps
<1>4. CASE c.at = "answered" /\ c = [at |-> "answered", kind |-> "predict", seen |-> c.seen, head |-> c.head,
                                     temperature |-> c.temperature]
    <2>1. c.kind = "predict"
        BY <1>4
    <2> QED
        BY <1>4, <2>1 DEF TrainSteps, LoadSteps
<1>5. CASE c.at \in TrainSteps \cup {"waiting"} /\ c.kind \in {"startup", "retrain"}
    BY <1>5 DEF TrainSteps, LoadSteps
<1>6. CASE c.at \in LoadSteps \ {"load"} /\ c.kind \in {"startup", "predict"}
    BY <1>6 DEF TrainSteps, LoadSteps
<1> QED
    BY <1>1, <1>2, <1>3, <1>4, <1>5, <1>6 DEF CallShape, TrainSteps

\* Beside the holder of the process lock, and beside a start, calls are free.
LEMMA OthersAreFree ==
    ASSUME ModelInv, NEW t \in Threads, NEW u \in Threads, t # u, ServerOf[t] = ServerOf[u], call[t] # Nothing,
           call[t].kind = "startup" \/ Mine(t).lock = t
    PROVE  FreeCall(call[u]) /\ (call[t].kind = "startup" => call[u] = Nothing)
<1> SUFFICES ASSUME call[u] # Nothing
             PROVE  FreeCall(call[u]) /\ call[t].kind # "startup"
    BY DEF FreeCall
<1>1. /\ CallSound(t, call[t], Mine(t), servedPointer, published, deployment, flock)
      /\ CallSound(u, call[u], Mine(t), servedPointer, published, deployment, flock)
      /\ CallsAgree(call[t], call[u])
    BY DEF ModelInv, Mine
<1>2. call[t].kind # "startup"
    BY <1>1 DEF CallSound, CallsAgree
<1>3. call[u].kind # "startup" /\ Mine(t).lock = t
    BY <1>1, <1>2 DEF CallSound
<1>4. call[u].at \notin TrainSteps
    BY <1>1, <1>3 DEF CallSound, TrainingSound
<1>5. call[u].at \notin LoadSteps
    <2>1. CallShape(call[u])
        BY <1>1 DEF CallSound
    <2>2. call[u].at \in LoadSteps => call[u].kind = "predict"
        BY <1>3, <2>1, CallKinds
    <2> QED
        BY <1>1, <1>3, <2>2 DEF CallSound, LoadSound
<1>6. FreeCall(call[u])
    <2>1. CallShape(call[u])
        BY <1>1 DEF CallSound
    <2>2. call[u].at \in {"waiting", "refresh", "asked", "scale", "answered"} \cup TrainSteps \cup LoadSteps
        BY <2>1, CallKinds
    <2> QED
        BY <1>3, <1>4, <1>5, <2>2 DEF FreeCall
<1> QED
    BY <1>2, <1>6

\* What a free call has to find in memory.
LEMMA FreeKeeps ==
    ASSUME NEW u, NEW c, NEW m, NEW pointer, NEW pubs, NEW d, NEW f, CallSound(u, c, m, pointer, pubs, d, f),
           FreeCall(c), NEW m2, c # Nothing => m2.up = m.up,
           c # Nothing /\ c.at \in {"asked", "scale"} => m2.head \in c.seen \cup {0} /\ m2.temperature \in c.seen,
           pointer # 0 /\ m.generation = pointer => m2.generation = pointer
    PROVE  CallSound(u, c, m2, pointer, pubs, d, f)
<1>1. CASE c = Nothing
    BY <1>1, IdleIsSound
<1>2. CASE c # Nothing
    <2>1. c.at \in {"waiting", "refresh", "asked", "scale", "answered"} /\ c.kind # "startup"
        BY <1>2 DEF FreeCall
    <2>2. TrainingSound(u, c, m2, pointer, pubs, d, f) /\ LoadSound(u, c, m2, pointer, d)
        BY <2>1 DEF TrainingSound, LoadSound, TrainSteps, LoadSteps
    <2>3. PredictionSound(c, m2, pointer)
        <3>1. PredictionSound(c, m, pointer) /\ c.at \notin LoadSteps
            BY <2>1 DEF CallSound, LoadSteps
        <3> QED
            BY <1>2, <2>1, <3>1 DEF PredictionSound, LoadSteps
    <2> QED
        BY <1>2, <2>1, <2>2, <2>3 DEF CallSound
<1> QED
    BY <1>1, <1>2

\* The holder of the process lock, or the call that starts the process, takes a step.
LEMMA LockedStep ==
    ASSUME ModelInv, NEW t \in Threads, NEW m2, NEW c2,
           memory' = [memory EXCEPT ![ServerOf[t]] = m2], call' = [call EXCEPT ![t] = c2],
           servedPointer' = servedPointer, deployment' = deployment, published' = published, FlockGoes(t),
           call[t] # Nothing, call[t].kind = "startup" \/ Mine(t).lock = t,
           m2.up = Mine(t).up \/ call[t].kind = "startup",
           m2.head \in {Mine(t).head, 0, servedPointer},
           m2.temperature \in {Mine(t).temperature, servedPointer}
             \/ (call[t].at = "rest" /\ m2.temperature = call[t].meta),
           servedPointer # 0 /\ Mine(t).generation = servedPointer => m2.generation = servedPointer,
           c2.at \in {"metadata", "head", "rest"} =>
             c2.meta = servedPointer \/ (call[t].at \in {"metadata", "head"} /\ c2.meta = call[t].meta),
           c2 = Nothing \/ c2.kind = call[t].kind,
           MemorySound(m2, servedPointer, deployment),
           CallSound(t, c2, m2, servedPointer, published, deployment, flock')
    PROVE  ModelInv'
<1>1. /\ PublishedSound(published', deployment) /\ servedPointer <= Len(published')
      /\ Len(published') <= MaxGenerations /\ Len(published') \in Nat
    BY PointerTyped DEF ModelInv
<1>2. flock' \in Threads \cup {Nobody0}
    BY DEF FlockGoes, ModelInv
<1>3. \A u \in Threads : CallSound(u, call[u], Mine(u), servedPointer, published, deployment, flock)
    BY DEF ModelInv
<1>4. ASSUME NEW u \in Threads, u # t, ServerOf[u] = ServerOf[t]
      PROVE  /\ CallSound(u, call[u], m2, servedPointer, published', deployment, flock')
             /\ CallsAgree(c2, call[u]) /\ CallsAgree(call[u], c2)
    <2>1. FreeCall(call[u]) /\ (call[t].kind = "startup" => call[u] = Nothing)
        BY <1>4, OthersAreFree
    <2>2. CallSound(u, call[u], Mine(t), servedPointer, published, deployment, flock)
        BY <1>3, <1>4 DEF Mine
    <2>3. CallSound(u, call[u], Mine(t), servedPointer, published, deployment, flock')
        BY <1>4, <2>2, TrainersHold
    <2>4. CASE call[u] = Nothing
        BY <2>4, IdleIsSound, IdleAgrees
    <2>5. CASE call[u] # Nothing
        <3>1. call[t].kind # "startup" /\ m2.up = Mine(t).up
            BY <2>1, <2>5
        <3>2. CallsAgree(call[u], call[t])
            BY <1>4 DEF ModelInv
        <3>3. ASSUME call[u].at \in {"asked", "scale"}
              PROVE  /\ servedPointer \in call[u].seen
                     /\ Mine(t).head \in call[u].seen \cup {0} /\ Mine(t).temperature \in call[u].seen
                     /\ call[t].at \in {"metadata", "head", "rest"} => call[t].meta \in call[u].seen
            <4>1. CallShape(call[u])
                BY <2>2 DEF CallSound
            <4>2. call[u].kind = "predict"
                BY <2>5, <3>3, <4>1, CallKinds
            <4>3. PredictionSound(call[u], Mine(t), servedPointer)
                BY <2>2 DEF CallSound
            <4>4. /\ servedPointer \in call[u].seen
                  /\ Mine(t).head \in call[u].seen \cup {0} /\ Mine(t).temperature \in call[u].seen
                BY <2>5, <3>3, <4>2, <4>3 DEF PredictionSound
            <4>5. call[t].at \in {"metadata", "head", "rest"} => call[t].meta \in call[u].seen
                BY <3>2, <3>3 DEF CallsAgree
            <4> QED
                BY <4>4, <4>5
        <3>4. call[u] # Nothing /\ call[u].at \in {"asked", "scale"} =>
                m2.head \in call[u].seen \cup {0} /\ m2.temperature \in call[u].seen
            BY <3>3
        <3>5. CallSound(u, call[u], m2, servedPointer, published, deployment, flock')
            BY <2>1, <2>3, <3>1, <3>4, FreeKeeps
        <3>6. CallsAgree(call[u], c2)
            <4>1. ~ (c2 # Nothing /\ c2.kind = "startup")
                BY <3>1
            <4>2. ASSUME call[u].at \in {"asked", "scale"}, c2.at \in {"metadata", "head", "rest"}
                  PROVE  c2.meta \in call[u].seen
                BY <3>3, <4>2
            <4> QED
                BY <4>1, <4>2 DEF CallsAgree
        <3>7. CallsAgree(c2, call[u])
            <4>1. ~ (c2 # Nothing /\ c2.kind = "startup")
                BY <3>1
            <4>2. call[u].at \notin {"metadata", "head", "rest"}
                BY <2>1, <2>5 DEF FreeCall
            <4> QED
                BY <4>1, <4>2 DEF CallsAgree
        <3> QED
            BY <3>5, <3>6, <3>7
    <2> QED
        BY <2>4, <2>5
<1>5. ASSUME NEW u \in Threads, ServerOf[u] # ServerOf[t]
      PROVE  CallSound(u, call[u], Mine(u), servedPointer, published', deployment, flock')
    <2>1. u # t
        BY <1>5
    <2> QED
        BY <1>3, <2>1, TrainersHold
<1> QED
    BY <1>1, <1>2, <1>4, <1>5, ThreadMoves

\* A thread takes a step that leaves memory alone.
LEMMA CallMoves ==
    ASSUME ModelInv, NEW t \in Threads, NEW c2, memory' = memory, call' = [call EXCEPT ![t] = c2],
           servedPointer' = servedPointer, deployment' = deployment, published' = published, flock' = flock,
           CallSound(t, c2, Mine(t), servedPointer, published, deployment, flock),
           \A u \in Threads : u # t /\ ServerOf[u] = ServerOf[t] => CallsAgree(c2, call[u]) /\ CallsAgree(call[u], c2)
    PROVE  ModelInv'
<1>1. memory' = [memory EXCEPT ![ServerOf[t]] = Mine(t)]
    <2>1. memory = [p \in Servers |-> memory[p]] /\ ServerOf[t] \in Servers
        BY LocalModelConstants DEF ModelInv
    <2> QED
        BY <2>1 DEF Mine
<1>2. /\ PublishedSound(published', deployment) /\ servedPointer <= Len(published')
      /\ Len(published') <= MaxGenerations /\ Len(published') \in Nat /\ flock' \in Threads \cup {Nobody0}
    BY PointerTyped DEF ModelInv
<1>3. MemorySound(Mine(t), servedPointer, deployment)
    BY LocalModelConstants DEF ModelInv, Mine
<1>4. \A u \in Threads : CallSound(u, call[u], Mine(u), servedPointer, published', deployment, flock')
    BY DEF ModelInv
<1>5. ASSUME NEW u \in Threads, u # t, ServerOf[u] = ServerOf[t]
      PROVE  CallSound(u, call[u], Mine(t), servedPointer, published', deployment, flock')
    BY <1>4, <1>5 DEF Mine
<1> QED
    BY <1>1, <1>2, <1>3, <1>4, <1>5, ThreadMoves

LEMMA UnlockedIs ==
    ASSUME NEW m, MemoryShape(m)
    PROVE  /\ MemoryShape(Unlocked(m)) /\ Unlocked(m).lock = Nobody0
           /\ Unlocked(m).up = m.up /\ Unlocked(m).ready = m.ready /\ Unlocked(m).head = m.head
           /\ Unlocked(m).temperature = m.temperature /\ Unlocked(m).generation = m.generation
           /\ Unlocked(m).index = m.index /\ Unlocked(m).own = m.own /\ Unlocked(m).approved = m.approved
<1>1. PICK w : w = Unlocked(m)
    OBVIOUS
<1>2. PICK nobody : nobody = Nobody0
    OBVIOUS
<1>3. w = [m EXCEPT !.lock = nobody]
    BY <1>1, <1>2 DEF Unlocked
<1>4. MemoryShape(w) /\ w.lock = nobody
    BY <1>3 DEF MemoryShape
<1>5. /\ w.up = m.up /\ w.ready = m.ready /\ w.head = m.head /\ w.temperature = m.temperature
      /\ w.generation = m.generation /\ w.index = m.index /\ w.own = m.own /\ w.approved = m.approved
    BY <1>3 DEF MemoryShape
<1> QED
    BY <1>1, <1>2, <1>4, <1>5

LEMMA NotReadyIs ==
    ASSUME NEW m, MemoryShape(m)
    PROVE  /\ MemoryShape(NotReady(m)) /\ NotReady(m).lock = m.lock /\ NotReady(m).up = m.up
           /\ ~ NotReady(m).ready /\ NotReady(m).head = 0
           /\ NotReady(m).temperature = m.temperature /\ NotReady(m).generation = m.generation
           /\ NotReady(m).own = m.own /\ NotReady(m).approved = m.approved
<1>1. PICK w : w = NotReady(m)
    OBVIOUS
<1>2. PICK no : no = FALSE
    OBVIOUS
<1>3. w = [m EXCEPT !.head = 0, !.index = 0, !.ready = no]
    BY <1>1, <1>2 DEF NotReady
<1>4. w = [up |-> m.up, ready |-> no, error |-> m.error, head |-> 0, temperature |-> m.temperature,
           generation |-> m.generation, index |-> 0, own |-> m.own, approved |-> m.approved, lock |-> m.lock]
    BY <1>3 DEF MemoryShape
<1>5. MemoryShape(w) /\ w.lock = m.lock /\ w.up = m.up /\ w.head = 0 /\ w.ready = no
    BY <1>4 DEF MemoryShape
<1>6. w.temperature = m.temperature /\ w.generation = m.generation /\ w.own = m.own /\ w.approved = m.approved
    BY <1>4
<1>7. ~ w.ready
    BY <1>2, <1>5
<1> QED
    BY <1>1, <1>5, <1>6, <1>7

\* What a process may have in memory after a step that kept its generation.
LEMMA MemoryFollows ==
    ASSUME NEW pointer \in Nat, NEW d, NEW m, MemorySound(m, pointer, d), NEW m2, MemoryShape(m2),
           m.up # "down", m2.up \in {"down", "starting", "up"}, m2.head \in {m.head, 0}, m2.temperature = m.temperature,
           m2.generation = m.generation, m2.own = m.own, m2.approved = m.approved, m2.ready => m2.head # 0,
           m2.lock = Nobody0 /\ m2.up # "starting" => Indexed(m2, pointer)
    PROVE  MemorySound(m2, pointer, d)
<1>1. {m.head, m.temperature, m.generation} \subseteq 0 .. pointer
    BY DEF MemorySound
<1>2. {m2.head, m2.temperature, m2.generation} \subseteq 0 .. pointer
    BY <1>1
<1>3. ASSUME m2.generation = pointer, pointer # 0
      PROVE  m2.temperature = pointer /\ m2.head \in {0, pointer} /\ (d.production => m2.own \/ m2.approved = pointer)
    <2>1. m.temperature = pointer /\ m.head \in {0, pointer} /\ (d.production => m.own \/ m.approved = pointer)
        BY <1>3 DEF MemorySound
    <2> QED
        BY <2>1
<1> QED
    BY <1>2, <1>3 DEF MemorySound

LEMMA CallersAreUp ==
    ASSUME ModelInv, NEW t \in Threads, call[t] # Nothing
    PROVE  Mine(t).up # "down" /\ Mine(t).up = (IF call[t].kind = "startup" THEN "starting" ELSE "up") /\ deployment.chosen
<1>1. CallSound(t, call[t], Mine(t), servedPointer, published, deployment, flock)
    BY DEF ModelInv
<1>2. MemorySound(Mine(t), servedPointer, deployment)
    BY LocalModelConstants DEF ModelInv, Mine
<1>3. Mine(t).up = IF call[t].kind = "startup" THEN "starting" ELSE "up"
    BY <1>1 DEF CallSound
<1>4. Mine(t).up # "down"
    BY <1>3
<1> QED
    BY <1>2, <1>3, <1>4 DEF MemorySound

LEMMA RaisesKeeps ==
    ASSUME ModelInv, NEW t \in Threads, NEW m, Raises(t, m),
           servedPointer' = servedPointer, deployment' = deployment, published' = published,
           call[t] # Nothing, call[t].kind = "startup" \/ Mine(t).lock = t,
           MemoryShape(m), m.up = Mine(t).up, m.head \in {Mine(t).head, 0}, m.temperature = Mine(t).temperature,
           m.generation = Mine(t).generation, m.own = Mine(t).own, m.approved = Mine(t).approved,
           m.ready => m.head # 0, call[t].kind # "startup" => Indexed(m, servedPointer)
    PROVE  ModelInv'
<1>1. servedPointer \in Nat /\ MemorySound(Mine(t), servedPointer, deployment)
    BY PointerTyped, LocalModelConstants DEF ModelInv, Mine
<1>2. FlockGoes(t)
    BY DEF Raises, FlockGoes
<1>3. call' = [call EXCEPT ![t] = Nothing]
    BY DEF Raises
<1>4. /\ MemoryShape(Unlocked(m)) /\ Unlocked(m).lock = Nobody0
      /\ Unlocked(m).up = m.up /\ Unlocked(m).ready = m.ready /\ Unlocked(m).head = m.head
      /\ Unlocked(m).temperature = m.temperature /\ Unlocked(m).generation = m.generation
      /\ Unlocked(m).index = m.index /\ Unlocked(m).own = m.own /\ Unlocked(m).approved = m.approved
    BY UnlockedIs
<1>5. PICK m2 : /\ memory' = [memory EXCEPT ![ServerOf[t]] = m2] /\ MemoryShape(m2)
                /\ m2.up = Mine(t).up \/ (call[t].kind = "startup" /\ m2.up = "up")
                /\ m2.head \in {Mine(t).head, 0} /\ m2.temperature = Mine(t).temperature
                /\ m2.generation = Mine(t).generation /\ m2.own = Mine(t).own /\ m2.approved = Mine(t).approved
                /\ m2.ready => m2.head # 0
                /\ Indexed(m2, servedPointer)
    <2>1. CASE call[t].kind = "startup"
        <3>1. PICK w : w = NotReady(Unlocked(m))
            OBVIOUS
        <3>2. /\ MemoryShape(w) /\ w.head = 0 /\ ~ w.ready /\ w.temperature = m.temperature
              /\ w.generation = m.generation /\ w.own = m.own /\ w.approved = m.approved
            BY <1>4, <3>1, NotReadyIs
        <3>3. PICK yes : yes = TRUE
            OBVIOUS
        <3>4. PICK m2 : m2 = [w EXCEPT !.up = "up", !.error = yes]
            OBVIOUS
        <3>5. m2 = [up |-> "up", ready |-> w.ready, error |-> yes, head |-> w.head, temperature |-> w.temperature,
                    generation |-> w.generation, index |-> w.index, own |-> w.own, approved |-> w.approved,
                    lock |-> w.lock]
            BY <3>2, <3>4 DEF MemoryShape
        <3>6. MemoryShape(m2) /\ m2.up = "up" /\ m2.head = 0 /\ m2.ready = w.ready
            BY <3>2, <3>5 DEF MemoryShape
        <3>7. /\ m2.temperature = m.temperature /\ m2.generation = m.generation
              /\ m2.own = m.own /\ m2.approved = m.approved
            BY <3>2, <3>5
        <3>8. ~ m2.ready
            BY <3>2, <3>6
        <3>9. memory' = [memory EXCEPT ![ServerOf[t]] = m2]
            BY <2>1, <3>1, <3>3, <3>4 DEF Raises, SetMine
        <3>10. Indexed(m2, servedPointer)
            BY <3>6 DEF Indexed
        <3> QED
            BY <2>1, <3>6, <3>7, <3>8, <3>9, <3>10
    <2>2. CASE call[t].kind # "startup"
        <3>1. memory' = [memory EXCEPT ![ServerOf[t]] = Unlocked(m)]
            BY <2>2 DEF Raises, SetMine
        <3>2. Unlocked(m).ready => Unlocked(m).head # 0
            BY <1>4
        <3>3. Indexed(Unlocked(m), servedPointer)
            BY <1>4, <2>2 DEF Indexed
        <3> QED
            BY <1>4, <3>1, <3>2, <3>3
    <2> QED
        BY <2>1, <2>2
<1>6. m2.up \in {"down", "starting", "up"}
    BY <1>1, <1>5 DEF MemorySound
<1>7. MemorySound(m2, servedPointer, deployment)
    BY <1>1, <1>5, <1>6, CallersAreUp, MemoryFollows
<1>8. /\ m2.up = Mine(t).up \/ call[t].kind = "startup"
      /\ m2.head \in {Mine(t).head, 0, servedPointer}
      /\ m2.temperature \in {Mine(t).temperature, servedPointer}
      /\ servedPointer # 0 /\ Mine(t).generation = servedPointer => m2.generation = servedPointer
    BY <1>5
<1>9. CallSound(t, Nothing, m2, servedPointer, published, deployment, flock') /\ Nothing.at = "idle"
    BY IdleIsSound
<1> QED
    BY <1>2, <1>3, <1>5, <1>7, <1>8, <1>9, LockedStep

LEMMA TrainingCall ==
    ASSUME ModelInv, NEW t \in Threads, call[t].at \in TrainSteps
    PROVE  /\ call[t] # Nothing /\ Mine(t).lock = t /\ flock = t /\ call[t].kind \in {"startup", "retrain"}
           /\ CallSound(t, call[t], Mine(t), servedPointer, published, deployment, flock)
           /\ MemorySound(Mine(t), servedPointer, deployment) /\ MemoryShape(Mine(t))
           /\ call[t].at = "training" => CleanData(call[t].data)
<1>1. CallSound(t, call[t], Mine(t), servedPointer, published, deployment, flock)
    BY DEF ModelInv
<1>2. MemorySound(Mine(t), servedPointer, deployment) /\ MemoryShape(Mine(t))
    BY LocalModelConstants DEF ModelInv, Mine, MemorySound
<1>3. Mine(t).lock = t /\ flock = t
    BY <1>1 DEF CallSound, TrainingSound
<1>4. call[t] # Nothing
    <2>1. Nothing.at = "idle"
        BY IdleIsSound
    <2> QED
        BY <2>1 DEF TrainSteps
<1>5. CallShape(call[t])
    BY <1>1 DEF CallSound
<1>6. call[t].kind \in {"startup", "retrain"}
    BY <1>4, <1>5, CallKinds
<1>7. ASSUME call[t].at = "training" PROVE CleanData(call[t].data)
    BY <1>4, <1>5, <1>7 DEF CallShape, LoadSteps
<1> QED
    BY <1>1, <1>2, <1>3, <1>4, <1>6, <1>7

LEMMA PassedKeeps ==
    ASSUME ModelInv, NEW t \in Threads, Passed(t), AtStep(t, "training"),
           UNCHANGED <<deployment, published, servedPointer>>,
           FitToPublish(call[t].data, deployment.gate, deployment)
    PROVE  ModelInv'
<1>1. call[t].at = "training" /\ call[t].at \in TrainSteps
    BY DEF AtStep, TrainSteps
<1>2. /\ call[t] # Nothing /\ Mine(t).lock = t /\ flock = t /\ call[t].kind \in {"startup", "retrain"}
      /\ CallSound(t, call[t], Mine(t), servedPointer, published, deployment, flock)
      /\ MemorySound(Mine(t), servedPointer, deployment)
    BY <1>1, TrainingCall
<1>3. PICK c2 : c2 = [at |-> "writing", kind |-> call[t].kind, data |-> call[t].data, candidate |-> Len(published) + 1]
    OBVIOUS
<1>4. call' = [call EXCEPT ![t] = c2] /\ memory' = memory /\ flock' = flock /\ Len(published) < MaxGenerations
    BY <1>3 DEF Passed
<1>5. /\ c2.at = "writing" /\ c2.kind = call[t].kind /\ c2.data = call[t].data /\ c2.candidate = Len(published) + 1
      /\ c2 = [at |-> c2.at, kind |-> c2.kind, data |-> c2.data, candidate |-> c2.candidate]
    BY <1>3
<1>6. c2.candidate <= MaxGenerations
    BY <1>4, <1>5, PointerTyped
<1>7. CallShape(c2)
    BY <1>2, <1>5 DEF CallShape, TrainSteps
<1>8. c2 # Nothing
    BY <1>5, IdleIsSound
<1>9. call[t].kind # "predict" /\ Mine(t).up = IF c2.kind = "startup" THEN "starting" ELSE "up"
    BY <1>2, <1>5 DEF CallSound
<1>10. TrainingSound(t, c2, Mine(t), servedPointer, published, deployment, flock)
    BY <1>2, <1>5, <1>6 DEF TrainingSound, TrainSteps
<1>11. LoadSound(t, c2, Mine(t), servedPointer, deployment) /\ PredictionSound(c2, Mine(t), servedPointer)
    BY <1>5, <1>9 DEF LoadSound, PredictionSound, LoadSteps
<1>12. CallSound(t, c2, Mine(t), servedPointer, published, deployment, flock)
    BY <1>7, <1>8, <1>9, <1>10, <1>11 DEF CallSound
<1>13. memory' = [memory EXCEPT ![ServerOf[t]] = Mine(t)]
    <2>1. memory = [p \in Servers |-> memory[p]] /\ ServerOf[t] \in Servers
        BY LocalModelConstants DEF ModelInv
    <2> QED
        BY <1>4, <2>1 DEF Mine
<1>14. FlockGoes(t)
    BY <1>4 DEF FlockGoes
<1>15. c2.at \notin {"metadata", "head", "rest"} /\ (c2 = Nothing \/ c2.kind = call[t].kind)
    BY <1>5
<1>16. CallSound(t, c2, Mine(t), servedPointer, published, deployment, flock')
    BY <1>4, <1>12
<1> QED
    BY <1>2, <1>4, <1>13, <1>14, <1>15, <1>16, LockedStep

LEMMA RejectedKeeps ==
    ASSUME ModelInv, NEW t \in Threads, Rejected(t), AtStep(t, "training"),
           UNCHANGED <<deployment, published, servedPointer>>
    PROVE  ModelInv'
<1>1. call[t].at = "training" /\ call[t].at \in TrainSteps
    BY DEF AtStep, TrainSteps
<1>2. /\ call[t] # Nothing /\ Mine(t).lock = t /\ flock = t /\ call[t].kind \in {"startup", "retrain"}
      /\ CallSound(t, call[t], Mine(t), servedPointer, published, deployment, flock)
      /\ MemorySound(Mine(t), servedPointer, deployment) /\ MemoryShape(Mine(t))
    BY <1>1, TrainingCall
<1>3. CASE Mine(t).head = 0
    <2>1. Raises(t, NotReady(Mine(t)))
        BY <1>3 DEF Rejected
    <2>2. PICK m : m = NotReady(Mine(t))
        OBVIOUS
    <2>3. /\ MemoryShape(m) /\ m.up = Mine(t).up /\ m.head = 0 /\ ~ m.ready /\ m.temperature = Mine(t).temperature
          /\ m.generation = Mine(t).generation /\ m.own = Mine(t).own /\ m.approved = Mine(t).approved
        BY <1>2, <2>2, NotReadyIs
    <2>4. Indexed(m, servedPointer)
        BY <2>3 DEF Indexed
    <2>5. Raises(t, m)
        BY <2>1, <2>2
    <2> QED
        BY <1>2, <2>3, <2>4, <2>5, RaisesKeeps
<1>4. CASE Mine(t).head # 0
    <2>1. PICK w : w = Unlocked(Mine(t))
        OBVIOUS
    <2>2. /\ MemoryShape(w) /\ w.lock = Nobody0 /\ w.up = Mine(t).up /\ w.ready = Mine(t).ready
          /\ w.head = Mine(t).head /\ w.temperature = Mine(t).temperature /\ w.generation = Mine(t).generation
          /\ w.index = Mine(t).index /\ w.own = Mine(t).own /\ w.approved = Mine(t).approved
        BY <1>2, <2>1, UnlockedIs
    <2>3. PICK no : no = FALSE
        OBVIOUS
    <2>4. PICK m2 : m2 = [w EXCEPT !.error = no]
        OBVIOUS
    <2>5. MemoryShape(m2) /\ m2.lock = w.lock /\ m2.up = w.up /\ m2.ready = w.ready
        BY <2>2, <2>4 DEF MemoryShape
    <2>6. /\ m2.head = w.head /\ m2.temperature = w.temperature /\ m2.generation = w.generation
          /\ m2.index = w.index /\ m2.own = w.own /\ m2.approved = w.approved
        BY <2>2, <2>4 DEF MemoryShape
    <2>7. memory' = [memory EXCEPT ![ServerOf[t]] = m2] /\ call' = [call EXCEPT ![t] = Nothing] /\ flock' = Nobody0
        BY <1>4, <2>1, <2>3, <2>4 DEF Rejected, SetMine
    <2>8. Indexed(m2, servedPointer)
        <3>1. Indexed(Mine(t), servedPointer)
            BY <1>1, <1>2 DEF CallSound, TrainingSound
        <3> QED
            BY <2>2, <2>6, <3>1 DEF Indexed
    <2>9. m2.up \in {"down", "starting", "up"} /\ (m2.ready => m2.head # 0)
        BY <1>2, <2>2, <2>5, <2>6 DEF MemorySound
    <2>10. MemorySound(m2, servedPointer, deployment)
        BY <1>2, <2>2, <2>5, <2>6, <2>8, <2>9, PointerTyped, CallersAreUp, MemoryFollows
    <2>11. /\ m2.up = Mine(t).up /\ m2.head = Mine(t).head /\ m2.temperature = Mine(t).temperature
           /\ m2.generation = Mine(t).generation
        BY <2>2, <2>5, <2>6
    <2>12. FlockGoes(t)
        BY <1>2, <2>7 DEF FlockGoes
    <2>13. CallSound(t, Nothing, m2, servedPointer, published, deployment, flock') /\ Nothing.at = "idle"
        BY IdleIsSound
    <2> QED
        BY <1>2, <2>7, <2>10, <2>11, <2>12, <2>13, LockedStep
<1> QED
    BY <1>3, <1>4

\* A gate lets pass what may be published.
LEMMA JudgeKeeps ==
    ASSUME ModelInv, NEW t \in Threads, Judge(t)
    PROVE  ModelInv'
<1>1. call[t].at = "training" /\ call[t].at \in TrainSteps /\ AtStep(t, "training")
    BY DEF Judge, AtStep, TrainSteps
<1>2. /\ call[t] # Nothing /\ Mine(t).lock = t /\ CleanData(call[t].data)
      /\ CallSound(t, call[t], Mine(t), servedPointer, published, deployment, flock)
      /\ MemorySound(Mine(t), servedPointer, deployment) /\ MemoryShape(Mine(t))
    BY <1>1, TrainingCall
<1>3. servedPointer' = servedPointer /\ deployment' = deployment /\ published' = published
    BY DEF Judge
<1>4. Indexed(Mine(t), servedPointer) /\ (Mine(t).ready => Mine(t).head # 0)
    BY <1>1, <1>2 DEF CallSound, TrainingSound, MemorySound
<1>5. ASSUME NEW ready, ready => Mine(t).head # 0, Raises(t, [Mine(t) EXCEPT !.ready = ready])
      PROVE  ModelInv'
    <2>1. PICK m : m = [Mine(t) EXCEPT !.ready = ready]
        OBVIOUS
    <2>2. /\ MemoryShape(m) /\ m.up = Mine(t).up /\ m.head = Mine(t).head /\ m.temperature = Mine(t).temperature
          /\ m.generation = Mine(t).generation /\ m.index = Mine(t).index
          /\ m.own = Mine(t).own /\ m.approved = Mine(t).approved /\ m.ready = ready
        BY <1>2, <2>1 DEF MemoryShape
    <2>3. (m.ready => m.head # 0) /\ Indexed(m, servedPointer)
        BY <1>4, <1>5, <2>2 DEF Indexed
    <2>4. Raises(t, m)
        BY <1>5, <2>1
    <2> QED
        BY <1>2, <1>3, <2>2, <2>3, <2>4, RaisesKeeps
<1>6. ASSUME Raises(t, Mine(t)) PROVE ModelInv'
    BY <1>2, <1>3, <1>4, <1>6, RaisesKeeps
<1>7. CASE call[t].data = {}
    <2>1. PICK no : no = FALSE
        OBVIOUS
    <2>2. Raises(t, [Mine(t) EXCEPT !.ready = no])
        BY <1>7, <2>1 DEF Judge
    <2> QED
        BY <1>5, <2>1, <2>2
<1>8. CASE call[t].data # {} /\ ~ Covered(call[t].data)
    <2>1. PICK ready : ready = (Mine(t).head # 0)
        OBVIOUS
    <2>2. Raises(t, [Mine(t) EXCEPT !.ready = ready])
        BY <1>8, <2>1 DEF Judge
    <2> QED
        BY <1>5, <2>1, <2>2
<1>9. CASE call[t].data # {} /\ Covered(call[t].data)
    <2>1. UNCHANGED <<deployment, published, servedPointer>> /\ deployment.chosen
        BY <1>2, <1>3, CallersAreUp
    <2>2. CASE deployment.gate = "owner" /\ ApprovalActive
        <3>1. Passed(t) /\ ~ (deployment.gate \in {"draft", "approved"})
            BY <1>9, <2>2 DEF Judge
        <3>2. FitToPublish(call[t].data, deployment.gate, deployment)
            BY <1>2, <1>9, <2>1, <2>2, <3>1 DEF FitToPublish
        <3> QED
            BY <1>1, <2>1, <3>1, <3>2, PassedKeeps
    <2>3. CASE deployment.gate = "owner" /\ ~ ApprovalActive
        <3>1. Raises(t, Mine(t))
            BY <1>9, <2>3 DEF Judge
        <3> QED
            BY <1>6, <3>1
    <2>4. CASE deployment.gate = "none"
        <3>1. Passed(t) /\ ~ (deployment.gate \in {"draft", "approved"})
            BY <1>9, <2>4 DEF Judge
        <3>2. FitToPublish(call[t].data, deployment.gate, deployment)
            BY <1>2, <1>9, <2>1, <2>4, <3>1 DEF FitToPublish
        <3> QED
            BY <1>1, <2>1, <3>1, <3>2, PassedKeeps
    <2>5. CASE deployment.gate \notin {"owner", "none"} /\ ~ Evaluates(call[t].data)
        <3>1. Raises(t, Mine(t))
            BY <1>9, <2>5 DEF Judge
        <3> QED
            BY <1>6, <3>1
    <2>6. CASE deployment.gate \notin {"owner", "none"} /\ Evaluates(call[t].data)
        <3>1. (MayPass /\ Passed(t)) \/ Rejected(t)
            BY <1>9, <2>6 DEF Judge
        <3>2. CASE MayPass /\ Passed(t)
            <4>1. FitToPublish(call[t].data, deployment.gate, deployment)
                BY <1>2, <1>9, <2>1, <2>6, <3>2 DEF FitToPublish, Evaluates, MayPass
            <4> QED
                BY <1>1, <2>1, <3>2, <4>1, PassedKeeps
        <3>3. CASE Rejected(t)
            BY <1>1, <2>1, <3>3, RejectedKeeps
        <3> QED
            BY <3>1, <3>2, <3>3
    <2> QED
        BY <2>2, <2>3, <2>4, <2>5, <2>6
<1> QED
    BY <1>7, <1>8, <1>9

LEMMA GoesIs ==
    ASSUME ModelInv, NEW t \in Threads, NEW at, Goes(t, at)
    PROVE  call' = [call EXCEPT ![t] = [call[t] EXCEPT !.at = at]]
<1>1. call = [u \in Threads |-> call[u]]
    BY DEF ModelInv
<1> QED
    BY <1>1 DEF Goes

LEMMA MovedCall ==
    ASSUME NEW c, CallShape(c), NEW at, NEW c2, c2 = [c EXCEPT !.at = at]
    PROVE  /\ c.at \in TrainSteps \ {"training"} =>
                /\ c2 = [at |-> at, kind |-> c.kind, data |-> c.data, candidate |-> c.candidate]
                /\ c2.at = at /\ c2.kind = c.kind /\ c2.data = c.data /\ c2.candidate = c.candidate
           /\ c.at \in LoadSteps \ {"load"} =>
                /\ c2 = [at |-> at, kind |-> c.kind, meta |-> c.meta, seen |-> c.seen]
                /\ c2.at = at /\ c2.kind = c.kind /\ c2.meta = c.meta /\ c2.seen = c.seen
<1>1. ASSUME c.at \in TrainSteps \ {"training"}
      PROVE  /\ c2 = [at |-> at, kind |-> c.kind, data |-> c.data, candidate |-> c.candidate]
             /\ c2.at = at /\ c2.kind = c.kind /\ c2.data = c.data /\ c2.candidate = c.candidate
    <2>1. c # Nothing
        BY <1>1, IdleIsSound DEF TrainSteps
    <2>2. c = [at |-> c.at, kind |-> c.kind, data |-> c.data, candidate |-> c.candidate]
        BY <1>1, <2>1 DEF CallShape, TrainSteps, LoadSteps
    <2>3. c2 = [at |-> at, kind |-> c.kind, data |-> c.data, candidate |-> c.candidate]
        BY <2>2
    <2> QED
        BY <2>3
<1>2. ASSUME c.at \in LoadSteps \ {"load"}
      PROVE  /\ c2 = [at |-> at, kind |-> c.kind, meta |-> c.meta, seen |-> c.seen]
             /\ c2.at = at /\ c2.kind = c.kind /\ c2.meta = c.meta /\ c2.seen = c.seen
    <2>1. c # Nothing
        BY <1>2, IdleIsSound DEF LoadSteps
    <2>2. c = [at |-> c.at, kind |-> c.kind, meta |-> c.meta, seen |-> c.seen]
        BY <1>2, <2>1 DEF CallShape, TrainSteps, LoadSteps
    <2>3. c2 = [at |-> at, kind |-> c.kind, meta |-> c.meta, seen |-> c.seen]
        BY <2>2
    <2> QED
        BY <2>3
<1> QED
    BY <1>1, <1>2

LEMMA AdoptHeadKeeps ==
    ASSUME ModelInv, NEW t \in Threads, AdoptHead(t)
    PROVE  ModelInv'
<1>1. call[t].at = "head_of_own" /\ call[t].at \in TrainSteps \ {"training"}
    BY DEF AdoptHead, AtStep, TrainSteps
<1>2. /\ call[t] # Nothing /\ Mine(t).lock = t /\ flock = t /\ call[t].kind \in {"startup", "retrain"}
      /\ CallSound(t, call[t], Mine(t), servedPointer, published, deployment, flock)
      /\ MemorySound(Mine(t), servedPointer, deployment) /\ MemoryShape(Mine(t))
    BY <1>1, TrainingCall
<1>3. call[t].candidate = servedPointer /\ servedPointer # 0 /\ Mine(t).generation < servedPointer
    BY <1>1, <1>2 DEF CallSound, TrainingSound
<1>4. PICK c2 : c2 = [call[t] EXCEPT !.at = "rest_of_own"]
    OBVIOUS
<1>5. call' = [call EXCEPT ![t] = c2]
    BY <1>4, GoesIs DEF AdoptHead
<1>6. /\ c2 = [at |-> c2.at, kind |-> c2.kind, data |-> c2.data, candidate |-> c2.candidate]
      /\ c2.at = "rest_of_own" /\ c2.kind = call[t].kind /\ c2.candidate = servedPointer
    BY <1>1, <1>2, <1>3, <1>4, MovedCall DEF CallSound
<1>7. PICK yes : yes = TRUE
    OBVIOUS
<1>8. PICK m2 : m2 = [Mine(t) EXCEPT !.head = call[t].candidate, !.own = yes]
    OBVIOUS
<1>9. memory' = [memory EXCEPT ![ServerOf[t]] = m2]
    BY <1>7, <1>8 DEF AdoptHead, SetMine
<1>10. m2 = [up |-> Mine(t).up, ready |-> Mine(t).ready, error |-> Mine(t).error, head |-> servedPointer,
             temperature |-> Mine(t).temperature, generation |-> Mine(t).generation, index |-> Mine(t).index,
             own |-> yes, approved |-> Mine(t).approved, lock |-> Mine(t).lock]
    BY <1>2, <1>3, <1>8 DEF MemoryShape
<1>11. /\ MemoryShape(m2) /\ m2.up = Mine(t).up /\ m2.ready = Mine(t).ready /\ m2.head = servedPointer
       /\ m2.own = yes
    BY <1>10 DEF MemoryShape
<1>12. m2.temperature = Mine(t).temperature /\ m2.generation = Mine(t).generation /\ m2.lock = t
    BY <1>2, <1>10
<1>13. servedPointer \in Nat /\ t # Nobody0
    BY PointerTyped, LocalModelConstants DEF Nobody0
<1>14. MemorySound(m2, servedPointer, deployment)
    <2>1. /\ m2.up \in {"down", "starting", "up"} /\ (m2.up # "down" => deployment.chosen)
          /\ {Mine(t).temperature, Mine(t).generation} \subseteq 0 .. servedPointer
        BY <1>2, <1>11 DEF MemorySound
    <2>2. {m2.head, m2.temperature, m2.generation} \subseteq 0 .. servedPointer /\ m2.generation # servedPointer
        BY <1>3, <1>11, <1>12, <1>13, <2>1
    <2> QED
        BY <1>3, <1>11, <1>12, <1>13, <2>1, <2>2 DEF MemorySound
<1>15. CallSound(t, c2, m2, servedPointer, published, deployment, flock')
    <2>1. c2 # Nothing /\ CallShape(c2)
        BY <1>2, <1>6, IdleIsSound DEF CallShape, TrainSteps
    <2>2. m2.up = IF c2.kind = "startup" THEN "starting" ELSE "up"
        BY <1>2, <1>6, <1>11 DEF CallSound
    <2>3. m2.own
        BY <1>7, <1>11
    <2>4. TrainingSound(t, c2, m2, servedPointer, published, deployment, flock')
        BY <1>2, <1>3, <1>6, <1>11, <1>12, <2>3 DEF TrainingSound, TrainSteps, AdoptHead
    <2>5. LoadSound(t, c2, m2, servedPointer, deployment) /\ PredictionSound(c2, m2, servedPointer)
        BY <1>2, <1>6 DEF LoadSound, PredictionSound, LoadSteps
    <2> QED
        BY <2>1, <2>2, <2>4, <2>5 DEF CallSound
<1>16. UNCHANGED <<deployment, published, servedPointer, flock>> /\ FlockGoes(t)
    BY DEF AdoptHead, FlockGoes
<1>17. servedPointer # 0 /\ Mine(t).generation = servedPointer => m2.generation = servedPointer
    BY <1>12
<1>18. c2.at \notin {"metadata", "head", "rest"}
    BY <1>6
<1> QED
    BY <1>2, <1>5, <1>6, <1>9, <1>11, <1>12, <1>14, <1>15, <1>16, <1>17, <1>18, LockedStep

LEMMA AdoptRestKeeps ==
    ASSUME ModelInv, NEW t \in Threads, AdoptRest(t)
    PROVE  ModelInv'
<1>1. call[t].at = "rest_of_own" /\ call[t].at \in TrainSteps \ {"training"}
    BY DEF AdoptRest, AtStep, TrainSteps
<1>2. /\ call[t] # Nothing /\ Mine(t).lock = t /\ flock = t /\ call[t].kind \in {"startup", "retrain"}
      /\ CallSound(t, call[t], Mine(t), servedPointer, published, deployment, flock)
      /\ MemorySound(Mine(t), servedPointer, deployment) /\ MemoryShape(Mine(t))
    BY <1>1, TrainingCall
<1>3. /\ call[t].candidate = servedPointer /\ servedPointer # 0 /\ Mine(t).head = servedPointer /\ Mine(t).own
      /\ Mine(t).generation < servedPointer
    BY <1>1, <1>2 DEF CallSound, TrainingSound
<1>4. PICK c2 : c2 = [call[t] EXCEPT !.at = "index_of_own"]
    OBVIOUS
<1>5. call' = [call EXCEPT ![t] = c2]
    BY <1>4, GoesIs DEF AdoptRest
<1>6. /\ c2 = [at |-> c2.at, kind |-> c2.kind, data |-> c2.data, candidate |-> c2.candidate]
      /\ c2.at = "index_of_own" /\ c2.kind = call[t].kind /\ c2.candidate = servedPointer
    BY <1>1, <1>2, <1>3, <1>4, MovedCall DEF CallSound
<1>7. PICK m2 : m2 = [Mine(t) EXCEPT !.temperature = call[t].candidate, !.generation = call[t].candidate]
    OBVIOUS
<1>8. memory' = [memory EXCEPT ![ServerOf[t]] = m2]
    BY <1>7 DEF AdoptRest, SetMine
<1>9. m2 = [up |-> Mine(t).up, ready |-> Mine(t).ready, error |-> Mine(t).error, head |-> Mine(t).head,
            temperature |-> servedPointer, generation |-> servedPointer, index |-> Mine(t).index,
            own |-> Mine(t).own, approved |-> Mine(t).approved, lock |-> Mine(t).lock]
    BY <1>2, <1>3, <1>7 DEF MemoryShape
<1>10. /\ MemoryShape(m2) /\ m2.up = Mine(t).up /\ m2.ready = Mine(t).ready /\ m2.head = Mine(t).head
       /\ m2.own = Mine(t).own
    BY <1>9 DEF MemoryShape
<1>11. m2.temperature = servedPointer /\ m2.generation = servedPointer /\ m2.lock = t
    BY <1>2, <1>9
<1>12. servedPointer \in Nat /\ t # Nobody0
    BY PointerTyped, LocalModelConstants DEF Nobody0
<1>13. m2.own
    BY <1>3, <1>10
<1>14. MemorySound(m2, servedPointer, deployment)
    <2>1. m2.up \in {"down", "starting", "up"} /\ (m2.up # "down" => deployment.chosen)
        BY <1>2, <1>10 DEF MemorySound
    <2>2. {m2.head, m2.temperature, m2.generation} \subseteq 0 .. servedPointer /\ m2.head = servedPointer
        BY <1>3, <1>10, <1>11, <1>12
    <2> QED
        BY <1>3, <1>10, <1>11, <1>12, <1>13, <2>1, <2>2 DEF MemorySound
<1>15. CallSound(t, c2, m2, servedPointer, published, deployment, flock')
    <2>1. c2 # Nothing /\ CallShape(c2)
        BY <1>2, <1>6, IdleIsSound DEF CallShape, TrainSteps
    <2>2. m2.up = IF c2.kind = "startup" THEN "starting" ELSE "up"
        BY <1>2, <1>6, <1>10 DEF CallSound
    <2>3. TrainingSound(t, c2, m2, servedPointer, published, deployment, flock')
        BY <1>2, <1>3, <1>6, <1>10, <1>11, <1>13 DEF TrainingSound, TrainSteps, AdoptRest
    <2>4. LoadSound(t, c2, m2, servedPointer, deployment) /\ PredictionSound(c2, m2, servedPointer)
        BY <1>2, <1>6 DEF LoadSound, PredictionSound, LoadSteps
    <2> QED
        BY <2>1, <2>2, <2>3, <2>4 DEF CallSound
<1>16. UNCHANGED <<deployment, published, servedPointer, flock>> /\ FlockGoes(t)
    BY DEF AdoptRest, FlockGoes
<1>17. c2.at \notin {"metadata", "head", "rest"}
    BY <1>6
<1> QED
    BY <1>2, <1>5, <1>6, <1>8, <1>10, <1>11, <1>14, <1>15, <1>16, <1>17, LockedStep

LEMMA AdoptIndexKeeps ==
    ASSUME ModelInv, NEW t \in Threads, AdoptIndex(t)
    PROVE  ModelInv'
<1>1. call[t].at = "index_of_own" /\ call[t].at \in TrainSteps \ {"training"}
    BY DEF AdoptIndex, AtStep, TrainSteps
<1>2. /\ call[t] # Nothing /\ Mine(t).lock = t /\ flock = t /\ call[t].kind \in {"startup", "retrain"}
      /\ CallSound(t, call[t], Mine(t), servedPointer, published, deployment, flock)
      /\ MemorySound(Mine(t), servedPointer, deployment) /\ MemoryShape(Mine(t)) /\ deployment.chosen
    BY <1>1, TrainingCall, CallersAreUp
<1>3. /\ call[t].candidate = servedPointer /\ servedPointer # 0 /\ Mine(t).head = servedPointer /\ Mine(t).own
      /\ Mine(t).temperature = servedPointer /\ Mine(t).generation = servedPointer
    BY <1>1, <1>2 DEF CallSound, TrainingSound
<1>4. PICK w : w = Unlocked(Mine(t))
    OBVIOUS
<1>5. /\ MemoryShape(w) /\ w.lock = Nobody0 /\ w.head = Mine(t).head /\ w.temperature = Mine(t).temperature
      /\ w.generation = Mine(t).generation /\ w.own = Mine(t).own /\ w.approved = Mine(t).approved
    BY <1>2, <1>4, UnlockedIs
<1>6. PICK yes, no : yes = TRUE /\ no = FALSE
    OBVIOUS
<1>7. PICK m2 : m2 = [w EXCEPT !.index = call[t].candidate, !.ready = yes, !.error = no, !.up = "up"]
    OBVIOUS
<1>8. memory' = [memory EXCEPT ![ServerOf[t]] = m2] /\ call' = [call EXCEPT ![t] = Nothing] /\ flock' = Nobody0
    BY <1>4, <1>6, <1>7 DEF AdoptIndex, SetMine
<1>9. m2 = [up |-> "up", ready |-> yes, error |-> no, head |-> w.head, temperature |-> w.temperature,
            generation |-> w.generation, index |-> servedPointer, own |-> w.own, approved |-> w.approved, lock |-> w.lock]
    BY <1>3, <1>5, <1>7 DEF MemoryShape
<1>10. MemoryShape(m2) /\ m2.up = "up" /\ m2.head = servedPointer /\ m2.index = servedPointer
    BY <1>3, <1>5, <1>9 DEF MemoryShape
<1>11. m2.temperature = servedPointer /\ m2.generation = servedPointer /\ m2.own = Mine(t).own
    BY <1>3, <1>5, <1>9
<1>12. m2.own /\ servedPointer \in Nat
    BY <1>3, <1>11, PointerTyped
<1>13. MemorySound(m2, servedPointer, deployment)
    <2>1. {m2.head, m2.temperature, m2.generation} \subseteq 0 .. servedPointer
        BY <1>10, <1>11, <1>12
    <2> QED
        BY <1>2, <1>3, <1>10, <1>11, <1>12, <2>1 DEF MemorySound, Indexed
<1>14. m2.up = Mine(t).up \/ call[t].kind = "startup"
    BY <1>2, <1>10 DEF CallSound
<1>15. UNCHANGED <<deployment, published, servedPointer>> /\ FlockGoes(t)
    BY <1>2, <1>8 DEF AdoptIndex, FlockGoes
<1>16. CallSound(t, Nothing, m2, servedPointer, published, deployment, flock') /\ Nothing.at = "idle"
    BY IdleIsSound
<1> QED
    BY <1>2, <1>8, <1>10, <1>11, <1>13, <1>14, <1>15, <1>16, LockedStep

LEMMA LoadingCall ==
    ASSUME ModelInv, NEW t \in Threads, call[t].at \in LoadSteps
    PROVE  /\ call[t] # Nothing /\ (call[t].kind = "startup" \/ Mine(t).lock = t)
           /\ call[t].kind \in {"startup", "predict"}
           /\ CallSound(t, call[t], Mine(t), servedPointer, published, deployment, flock)
           /\ MemorySound(Mine(t), servedPointer, deployment) /\ MemoryShape(Mine(t)) /\ deployment.chosen
           /\ call[t].at # "index" => Mine(t).generation < servedPointer
           /\ call[t].at # "load" => call[t].meta \in 1 .. servedPointer
           /\ call[t].kind = "predict" => PredictionSound(call[t], Mine(t), servedPointer)
<1>1. CallSound(t, call[t], Mine(t), servedPointer, published, deployment, flock)
    BY DEF ModelInv
<1>2. MemorySound(Mine(t), servedPointer, deployment) /\ MemoryShape(Mine(t))
    BY LocalModelConstants DEF ModelInv, Mine, MemorySound
<1>3. call[t] # Nothing
    BY IdleIsSound DEF LoadSteps
<1>4. call[t].kind \in {"startup", "predict"}
    BY <1>1, <1>3, CallKinds DEF CallSound
<1>5. /\ call[t].kind = "predict" => Mine(t).lock = t
      /\ call[t].at # "index" => Mine(t).generation < servedPointer
      /\ call[t].at # "load" => call[t].meta \in 1 .. servedPointer
    BY <1>1 DEF CallSound, LoadSound
<1> QED
    BY <1>1, <1>2, <1>3, <1>4, <1>5, CallersAreUp DEF CallSound

LEMMA LoadMetadataKeeps ==
    ASSUME ModelInv, NEW t \in Threads, LoadMetadata(t)
    PROVE  ModelInv'
<1>1. call[t].at = "load" /\ call[t].at \in LoadSteps
    BY DEF LoadMetadata, AtStep, LoadSteps
<1>2. /\ call[t] # Nothing /\ (call[t].kind = "startup" \/ Mine(t).lock = t)
      /\ call[t].kind \in {"startup", "predict"}
      /\ CallSound(t, call[t], Mine(t), servedPointer, published, deployment, flock)
      /\ MemorySound(Mine(t), servedPointer, deployment) /\ Mine(t).generation < servedPointer
      /\ call[t].kind = "predict" => PredictionSound(call[t], Mine(t), servedPointer)
    BY <1>1, LoadingCall
<1>3. PICK seen : seen = IF call[t].kind = "predict" THEN call[t].seen ELSE {}
    OBVIOUS
<1>4. PICK c2 : c2 = [at |-> "metadata", kind |-> call[t].kind, meta |-> servedPointer, seen |-> seen]
    OBVIOUS
<1>5. call' = [call EXCEPT ![t] = c2] /\ UNCHANGED <<deployment, published, servedPointer, flock, memory>>
    BY <1>3, <1>4 DEF LoadMetadata
<1>6. /\ c2.at = "metadata" /\ c2.kind = call[t].kind /\ c2.meta = servedPointer
      /\ c2.kind = "predict" => c2.seen = call[t].seen
      /\ c2 = [at |-> c2.at, kind |-> c2.kind, meta |-> c2.meta, seen |-> c2.seen]
    BY <1>3, <1>4
<1>7. servedPointer \in Nat /\ Mine(t).generation \in Nat
    <2>1. servedPointer \in Nat
        BY PointerTyped
    <2>2. Mine(t).generation \in 0 .. servedPointer
        BY <1>2 DEF MemorySound
    <2> QED
        BY <2>1, <2>2
<1>8. CallSound(t, c2, Mine(t), servedPointer, published, deployment, flock')
    <2>1. c2 # Nothing /\ CallShape(c2)
        BY <1>2, <1>6, IdleIsSound DEF CallShape, LoadSteps
    <2>2. Mine(t).up = IF c2.kind = "startup" THEN "starting" ELSE "up"
        BY <1>2, <1>6 DEF CallSound
    <2>3. TrainingSound(t, c2, Mine(t), servedPointer, published, deployment, flock')
        BY <1>6 DEF TrainingSound, TrainSteps
    <2>4. LoadSound(t, c2, Mine(t), servedPointer, deployment)
        <3>1. servedPointer \in 1 .. servedPointer
            BY <1>2, <1>7
        <3> QED
            BY <1>2, <1>6, <3>1 DEF LoadSound, LoadSteps
    <2>5. PredictionSound(c2, Mine(t), servedPointer)
        BY <1>2, <1>6 DEF PredictionSound, LoadSteps
    <2> QED
        BY <2>1, <2>2, <2>3, <2>4, <2>5 DEF CallSound
<1>9. memory' = [memory EXCEPT ![ServerOf[t]] = Mine(t)]
    <2>1. memory = [p \in Servers |-> memory[p]] /\ ServerOf[t] \in Servers
        BY LocalModelConstants DEF ModelInv
    <2> QED
        BY <1>5, <2>1 DEF Mine
<1>10. FlockGoes(t)
    BY <1>5 DEF FlockGoes
<1>11. c2.at \in {"metadata", "head", "rest"} => c2.meta = servedPointer
    BY <1>6
<1>12. CallSound(t, c2, Mine(t), servedPointer, published, deployment, flock')
    BY <1>8
<1> QED
    BY <1>2, <1>5, <1>6, <1>9, <1>10, <1>11, <1>12, LockedStep

LEMMA ValidateChecksumsKeeps ==
    ASSUME ModelInv, NEW t \in Threads, ValidateChecksums(t)
    PROVE  ModelInv'
<1>1. call[t].at = "metadata" /\ call[t].at \in LoadSteps /\ call[t].at \in LoadSteps \ {"load"}
    BY DEF ValidateChecksums, AtStep, LoadSteps
<1>2. /\ call[t] # Nothing /\ (call[t].kind = "startup" \/ Mine(t).lock = t)
      /\ call[t].kind \in {"startup", "predict"}
      /\ CallSound(t, call[t], Mine(t), servedPointer, published, deployment, flock)
      /\ MemorySound(Mine(t), servedPointer, deployment) /\ MemoryShape(Mine(t))
      /\ Mine(t).generation < servedPointer /\ call[t].meta \in 1 .. servedPointer
      /\ call[t].kind = "predict" => PredictionSound(call[t], Mine(t), servedPointer)
    BY <1>1, LoadingCall
<1>3. UNCHANGED <<deployment, published, servedPointer>>
    BY DEF ValidateChecksums
<1>4. servedPointer \in Nat
    BY PointerTyped
<1>5. CASE call[t].meta = servedPointer /\ Approved(t)
    <2>1. PICK c2 : c2 = [call[t] EXCEPT !.at = "head"]
        OBVIOUS
    <2>2. call' = [call EXCEPT ![t] = c2] /\ UNCHANGED <<memory, flock>>
        BY <1>5, <2>1, GoesIs DEF ValidateChecksums
    <2>3. /\ c2 = [at |-> c2.at, kind |-> c2.kind, meta |-> c2.meta, seen |-> c2.seen]
          /\ c2.at = "head" /\ c2.kind = call[t].kind /\ c2.meta = call[t].meta /\ c2.seen = call[t].seen
        BY <1>1, <1>2, <2>1, MovedCall DEF CallSound
    <2>4. CallSound(t, c2, Mine(t), servedPointer, published, deployment, flock')
        <3>1. c2 # Nothing /\ CallShape(c2)
            BY <1>2, <2>3, IdleIsSound DEF CallShape, LoadSteps
        <3>2. Mine(t).up = IF c2.kind = "startup" THEN "starting" ELSE "up"
            BY <1>2, <2>3 DEF CallSound
        <3>3. TrainingSound(t, c2, Mine(t), servedPointer, published, deployment, flock')
            BY <2>3 DEF TrainingSound, TrainSteps
        <3>4. LoadSound(t, c2, Mine(t), servedPointer, deployment)
            BY <1>2, <1>5, <2>3 DEF LoadSound, LoadSteps, Approved
        <3>5. PredictionSound(c2, Mine(t), servedPointer)
            BY <1>1, <1>2, <2>3 DEF PredictionSound, LoadSteps
        <3> QED
            BY <3>1, <3>2, <3>3, <3>4, <3>5 DEF CallSound
    <2>5. memory' = [memory EXCEPT ![ServerOf[t]] = Mine(t)]
        <3>1. memory = [p \in Servers |-> memory[p]] /\ ServerOf[t] \in Servers
            BY LocalModelConstants DEF ModelInv
        <3> QED
            BY <2>2, <3>1 DEF Mine
    <2>6. FlockGoes(t)
        BY <2>2 DEF FlockGoes
    <2>7. c2.at \in {"metadata", "head", "rest"} => c2.meta = servedPointer
        BY <1>5, <2>3
    <2> QED
        BY <1>2, <1>3, <2>2, <2>3, <2>4, <2>5, <2>6, <2>7, LockedStep
<1>6. CASE ~ (call[t].meta = servedPointer /\ Approved(t))
    <2>1. Raises(t, Mine(t))
        BY <1>6 DEF ValidateChecksums
    <2>2. Indexed(Mine(t), servedPointer) /\ (Mine(t).ready => Mine(t).head # 0)
        <3>1. Mine(t).generation \in 0 .. servedPointer
            BY <1>2 DEF MemorySound
        <3>2. Mine(t).generation # servedPointer
            BY <1>2, <1>4, <3>1
        <3> QED
            BY <1>2, <3>2 DEF Indexed, MemorySound
    <2> QED
        BY <1>2, <1>3, <2>1, <2>2, RaisesKeeps
<1> QED
    BY <1>5, <1>6

LEMMA LoadHeadKeeps ==
    ASSUME ModelInv, NEW t \in Threads, LoadHead(t)
    PROVE  ModelInv'
<1>1. call[t].at = "head" /\ call[t].at \in LoadSteps /\ call[t].at \in LoadSteps \ {"load"}
    BY DEF LoadHead, AtStep, LoadSteps
<1>2. /\ call[t] # Nothing /\ (call[t].kind = "startup" \/ Mine(t).lock = t)
      /\ call[t].kind \in {"startup", "predict"}
      /\ CallSound(t, call[t], Mine(t), servedPointer, published, deployment, flock)
      /\ MemorySound(Mine(t), servedPointer, deployment) /\ MemoryShape(Mine(t)) /\ deployment.chosen
      /\ Mine(t).generation < servedPointer /\ call[t].meta \in 1 .. servedPointer
      /\ call[t].kind = "predict" => PredictionSound(call[t], Mine(t), servedPointer)
    BY <1>1, LoadingCall
<1>3. servedPointer \in Nat /\ servedPointer # 0 /\ Mine(t).generation # servedPointer
    <2>1. servedPointer \in Nat
        BY PointerTyped
    <2>2. Mine(t).generation \in 0 .. servedPointer
        BY <1>2 DEF MemorySound
    <2> QED
        BY <1>2, <2>1, <2>2
<1>4. PICK c2 : c2 = [call[t] EXCEPT !.at = "rest"]
    OBVIOUS
<1>5. call' = [call EXCEPT ![t] = c2]
    BY <1>4, GoesIs DEF LoadHead
<1>6. /\ c2 = [at |-> c2.at, kind |-> c2.kind, meta |-> c2.meta, seen |-> c2.seen]
      /\ c2.at = "rest" /\ c2.kind = call[t].kind /\ c2.meta = call[t].meta /\ c2.seen = call[t].seen
    BY <1>1, <1>2, <1>4, MovedCall DEF CallSound
<1>7. PICK no : no = FALSE
    OBVIOUS
<1>8. PICK m2 : m2 = [Mine(t) EXCEPT !.head = servedPointer, !.own = no]
    OBVIOUS
<1>9. memory' = [memory EXCEPT ![ServerOf[t]] = m2]
    BY <1>7, <1>8 DEF LoadHead, SetMine
<1>10. m2 = [up |-> Mine(t).up, ready |-> Mine(t).ready, error |-> Mine(t).error, head |-> servedPointer,
             temperature |-> Mine(t).temperature, generation |-> Mine(t).generation, index |-> Mine(t).index,
             own |-> no, approved |-> Mine(t).approved, lock |-> Mine(t).lock]
    BY <1>2, <1>8 DEF MemoryShape
<1>11. /\ MemoryShape(m2) /\ m2.up = Mine(t).up /\ m2.head = servedPointer /\ m2.approved = Mine(t).approved
       /\ m2.temperature = Mine(t).temperature /\ m2.generation = Mine(t).generation /\ m2.lock = Mine(t).lock
    BY <1>10 DEF MemoryShape
<1>12. MemorySound(m2, servedPointer, deployment)
    <2>1. /\ m2.up \in {"down", "starting", "up"}
          /\ {Mine(t).temperature, Mine(t).generation} \subseteq 0 .. servedPointer
        BY <1>2, <1>11 DEF MemorySound
    <2>2. {m2.head, m2.temperature, m2.generation} \subseteq 0 .. servedPointer /\ m2.generation # servedPointer
        BY <1>3, <1>11, <2>1
    <2> QED
        BY <1>2, <1>3, <1>11, <2>1, <2>2 DEF MemorySound, Indexed
<1>13. CallSound(t, c2, m2, servedPointer, published, deployment, flock')
    <2>1. c2 # Nothing /\ CallShape(c2)
        BY <1>2, <1>6, IdleIsSound DEF CallShape, LoadSteps
    <2>2. m2.up = IF c2.kind = "startup" THEN "starting" ELSE "up"
        BY <1>2, <1>6, <1>11 DEF CallSound
    <2>3. TrainingSound(t, c2, m2, servedPointer, published, deployment, flock')
        BY <1>6 DEF TrainingSound, TrainSteps
    <2>4. LoadSound(t, c2, m2, servedPointer, deployment)
        <3>1. deployment.production => Mine(t).approved = call[t].meta
            BY <1>1, <1>2 DEF CallSound, LoadSound
        <3>2. m2.head \in c2.meta .. servedPointer
            BY <1>2, <1>3, <1>6, <1>11
        <3>3. c2.kind = "predict" => m2.lock = t
            BY <1>2, <1>6, <1>11
        <3> QED
            BY <1>2, <1>6, <1>11, <3>1, <3>2, <3>3 DEF LoadSound, LoadSteps
    <2>5. PredictionSound(c2, m2, servedPointer)
        BY <1>1, <1>2, <1>6, <1>11 DEF PredictionSound, LoadSteps
    <2> QED
        BY <2>1, <2>2, <2>3, <2>4, <2>5 DEF CallSound
<1>14. UNCHANGED <<deployment, published, servedPointer, flock>> /\ FlockGoes(t)
    BY DEF LoadHead, FlockGoes
<1>15. c2.at \in {"metadata", "head", "rest"} => call[t].at \in {"metadata", "head"} /\ c2.meta = call[t].meta
    BY <1>1, <1>6
<1> QED
    BY <1>2, <1>5, <1>6, <1>9, <1>11, <1>12, <1>13, <1>14, <1>15, LockedStep

LEMMA LoadRestKeeps ==
    ASSUME ModelInv, NEW t \in Threads, LoadRest(t)
    PROVE  ModelInv'
<1>1. call[t].at = "rest" /\ call[t].at \in LoadSteps /\ call[t].at \in LoadSteps \ {"load"}
    BY DEF LoadRest, AtStep, LoadSteps
<1>2. /\ call[t] # Nothing /\ (call[t].kind = "startup" \/ Mine(t).lock = t)
      /\ call[t].kind \in {"startup", "predict"}
      /\ CallSound(t, call[t], Mine(t), servedPointer, published, deployment, flock)
      /\ MemorySound(Mine(t), servedPointer, deployment) /\ MemoryShape(Mine(t)) /\ deployment.chosen
      /\ Mine(t).generation < servedPointer /\ call[t].meta \in 1 .. servedPointer
      /\ call[t].kind = "predict" => PredictionSound(call[t], Mine(t), servedPointer)
    BY <1>1, LoadingCall
<1>3. servedPointer \in Nat /\ Mine(t).generation # servedPointer
    <2>1. servedPointer \in Nat
        BY PointerTyped
    <2>2. Mine(t).generation \in 0 .. servedPointer
        BY <1>2 DEF MemorySound
    <2> QED
        BY <1>2, <2>1, <2>2
<1>4. PICK c2 : c2 = [call[t] EXCEPT !.at = "index"]
    OBVIOUS
<1>5. call' = [call EXCEPT ![t] = c2]
    BY <1>4, GoesIs DEF LoadRest
<1>6. /\ c2 = [at |-> c2.at, kind |-> c2.kind, meta |-> c2.meta, seen |-> c2.seen]
      /\ c2.at = "index" /\ c2.kind = call[t].kind /\ c2.meta = call[t].meta /\ c2.seen = call[t].seen
    BY <1>1, <1>2, <1>4, MovedCall DEF CallSound
<1>7. PICK m2 : m2 = [Mine(t) EXCEPT !.temperature = call[t].meta, !.generation = call[t].meta]
    OBVIOUS
<1>8. memory' = [memory EXCEPT ![ServerOf[t]] = m2]
    BY <1>7 DEF LoadRest, SetMine
<1>9. m2 = [up |-> Mine(t).up, ready |-> Mine(t).ready, error |-> Mine(t).error, head |-> Mine(t).head,
            temperature |-> call[t].meta, generation |-> call[t].meta, index |-> Mine(t).index,
            own |-> Mine(t).own, approved |-> Mine(t).approved, lock |-> Mine(t).lock]
    BY <1>2, <1>7 DEF MemoryShape
<1>10. /\ MemoryShape(m2) /\ m2.up = Mine(t).up /\ m2.head = Mine(t).head /\ m2.approved = Mine(t).approved
       /\ m2.temperature = call[t].meta /\ m2.generation = call[t].meta /\ m2.lock = Mine(t).lock
       /\ m2.ready = Mine(t).ready
    BY <1>9 DEF MemoryShape
<1>11. /\ Mine(t).head \in call[t].meta .. servedPointer
       /\ deployment.production => Mine(t).approved = call[t].meta
    BY <1>1, <1>2 DEF CallSound, LoadSound
<1>12. MemorySound(m2, servedPointer, deployment)
    <2>1. m2.up \in {"down", "starting", "up"} /\ (m2.ready => m2.head # 0)
        BY <1>2, <1>10 DEF MemorySound
    <2>2. {m2.head, m2.temperature, m2.generation} \subseteq 0 .. servedPointer
        BY <1>2, <1>3, <1>10, <1>11
    <2>3. ASSUME m2.generation = servedPointer
          PROVE  m2.temperature = servedPointer /\ m2.head = servedPointer
                 /\ (deployment.production => m2.approved = servedPointer)
        BY <1>3, <1>10, <1>11, <2>3
    <2>4. m2.lock # Nobody0 \/ m2.up = "starting"
        BY <1>2, <1>10, LocalModelConstants DEF CallSound, Nobody0
    <2> QED
        BY <1>2, <1>10, <2>1, <2>2, <2>3, <2>4 DEF MemorySound
<1>13. CallSound(t, c2, m2, servedPointer, published, deployment, flock')
    <2>1. c2 # Nothing /\ CallShape(c2)
        BY <1>2, <1>6, IdleIsSound DEF CallShape, LoadSteps
    <2>2. m2.up = IF c2.kind = "startup" THEN "starting" ELSE "up"
        BY <1>2, <1>6, <1>10 DEF CallSound
    <2>3. TrainingSound(t, c2, m2, servedPointer, published, deployment, flock')
        BY <1>6 DEF TrainingSound, TrainSteps
    <2>4. LoadSound(t, c2, m2, servedPointer, deployment)
        BY <1>2, <1>6, <1>10, <1>11 DEF LoadSound, LoadSteps
    <2>5. PredictionSound(c2, m2, servedPointer)
        BY <1>1, <1>2, <1>6, <1>10 DEF PredictionSound, LoadSteps
    <2> QED
        BY <2>1, <2>2, <2>3, <2>4, <2>5 DEF CallSound
<1>14. UNCHANGED <<deployment, published, servedPointer, flock>> /\ FlockGoes(t)
    BY DEF LoadRest, FlockGoes
<1>15. c2.at \notin {"metadata", "head", "rest"}
    BY <1>6
<1> QED
    BY <1>1, <1>2, <1>3, <1>5, <1>6, <1>8, <1>10, <1>12, <1>13, <1>14, <1>15, LockedStep

LEMMA LoadIndexKeeps ==
    ASSUME ModelInv, NEW t \in Threads, LoadIndex(t)
    PROVE  ModelInv'
<1>1. call[t].at = "index" /\ call[t].at \in LoadSteps /\ call[t].at \in LoadSteps \ {"load"}
    BY DEF LoadIndex, AtStep, LoadSteps
<1>2. /\ call[t] # Nothing /\ (call[t].kind = "startup" \/ Mine(t).lock = t)
      /\ call[t].kind \in {"startup", "predict"}
      /\ CallSound(t, call[t], Mine(t), servedPointer, published, deployment, flock)
      /\ MemorySound(Mine(t), servedPointer, deployment) /\ MemoryShape(Mine(t)) /\ deployment.chosen
      /\ call[t].meta \in 1 .. servedPointer
      /\ call[t].kind = "predict" => PredictionSound(call[t], Mine(t), servedPointer)
    BY <1>1, LoadingCall
<1>3. /\ Mine(t).temperature = call[t].meta /\ Mine(t).generation = call[t].meta
      /\ Mine(t).head \in call[t].meta .. servedPointer
    BY <1>1, <1>2 DEF CallSound, LoadSound, LoadSteps
<1>4. servedPointer \in Nat /\ Mine(t).head # 0
    BY <1>2, <1>3, PointerTyped
<1>5. PICK w : w = Unlocked(Mine(t))
    OBVIOUS
<1>6. /\ MemoryShape(w) /\ w.lock = Nobody0 /\ w.head = Mine(t).head /\ w.temperature = Mine(t).temperature
      /\ w.generation = Mine(t).generation /\ w.own = Mine(t).own /\ w.approved = Mine(t).approved
    BY <1>2, <1>5, UnlockedIs
<1>7. PICK yes : yes = TRUE
    OBVIOUS
<1>8. PICK m2 : m2 = [w EXCEPT !.index = servedPointer, !.ready = yes, !.up = "up"]
    OBVIOUS
<1>9. PICK c2 : c2 = IF call[t].kind = "startup" THEN Nothing
                     ELSE [at |-> "asked", kind |-> "predict", seen |-> call[t].seen]
    OBVIOUS
<1>10. memory' = [memory EXCEPT ![ServerOf[t]] = m2] /\ call' = [call EXCEPT ![t] = c2]
    BY <1>5, <1>7, <1>8, <1>9 DEF LoadIndex, SetMine
<1>11. m2 = [up |-> "up", ready |-> yes, error |-> w.error, head |-> w.head, temperature |-> w.temperature,
             generation |-> w.generation, index |-> servedPointer, own |-> w.own, approved |-> w.approved,
             lock |-> w.lock]
    BY <1>6, <1>8 DEF MemoryShape
<1>12. /\ MemoryShape(m2) /\ m2.up = "up" /\ m2.head = Mine(t).head /\ m2.index = servedPointer
       /\ m2.temperature = Mine(t).temperature /\ m2.generation = Mine(t).generation
       /\ m2.own = Mine(t).own /\ m2.approved = Mine(t).approved
    BY <1>6, <1>11 DEF MemoryShape
<1>13. MemorySound(m2, servedPointer, deployment)
    <2>1. m2.head # 0 /\ Indexed(m2, servedPointer)
        BY <1>4, <1>12 DEF Indexed
    <2>2. {m2.head, m2.temperature, m2.generation} \subseteq 0 .. servedPointer
        BY <1>2, <1>12 DEF MemorySound
    <2>3. ASSUME m2.generation = servedPointer, servedPointer # 0
          PROVE  m2.temperature = servedPointer /\ m2.head \in {0, servedPointer}
                 /\ (deployment.production => m2.own \/ m2.approved = servedPointer)
        <3>1. /\ Mine(t).temperature = servedPointer /\ Mine(t).head \in {0, servedPointer}
              /\ deployment.production => Mine(t).own \/ Mine(t).approved = servedPointer
            BY <1>2, <1>12, <2>3 DEF MemorySound
        <3> QED
            BY <1>12, <3>1
    <2> QED
        BY <1>2, <1>12, <2>1, <2>2, <2>3 DEF MemorySound
<1>14. m2.up = Mine(t).up \/ call[t].kind = "startup"
    BY <1>2, <1>12 DEF CallSound
<1>15. /\ c2 = Nothing \/ c2.kind = call[t].kind
       /\ c2.at \notin {"metadata", "head", "rest"}
       /\ CallSound(t, c2, m2, servedPointer, published, deployment, flock')
    <2>1. CASE call[t].kind = "startup"
        BY <1>9, <2>1, IdleIsSound
    <2>2. CASE call[t].kind = "predict"
        <3>1. /\ c2.at = "asked" /\ c2.kind = "predict" /\ c2.seen = call[t].seen
              /\ c2 = [at |-> c2.at, kind |-> "predict", seen |-> c2.seen]
            BY <1>9, <2>2
        <3>2. CallShape(c2) /\ c2 # Nothing
            BY <3>1, IdleIsSound DEF CallShape
        <3>3. /\ servedPointer \in call[t].seen /\ call[t].seen \subseteq 0 .. servedPointer
              /\ call[t].meta \in call[t].seen /\ Mine(t).head \in call[t].seen
            BY <1>1, <1>2, <2>2 DEF PredictionSound, LoadSteps
        <3>4. call[t].seen = {servedPointer} => m2.generation = servedPointer
            BY <1>3, <1>12, <3>3
        <3>5. PredictionSound(c2, m2, servedPointer)
            BY <1>3, <1>12, <3>1, <3>3, <3>4 DEF PredictionSound, LoadSteps
        <3>6. TrainingSound(t, c2, m2, servedPointer, published, deployment, flock')
              /\ LoadSound(t, c2, m2, servedPointer, deployment)
            BY <3>1 DEF TrainingSound, LoadSound, TrainSteps, LoadSteps
        <3> QED
            BY <1>12, <2>2, <3>1, <3>2, <3>5, <3>6 DEF CallSound
    <2> QED
        BY <1>2, <2>1, <2>2
<1>16. UNCHANGED <<deployment, published, servedPointer, flock>> /\ FlockGoes(t)
    BY DEF LoadIndex, FlockGoes
<1> QED
    BY <1>2, <1>10, <1>12, <1>13, <1>14, <1>15, <1>16, LockedStep

\* A step into which no agreement with other calls enters.
LEMMA Agreeable ==
    ASSUME NEW c2, c2 = Nothing \/ c2.kind # "startup",
           c2.at \notin {"asked", "scale", "metadata", "head", "rest"}, NEW e
    PROVE  CallsAgree(c2, e) /\ CallsAgree(e, c2)
BY DEF CallsAgree

\* A thread takes a step that takes the process lock, or notes an error.
LEMMA MarkStep ==
    ASSUME ModelInv, NEW t \in Threads, NEW m2, NEW c2,
           memory' = [memory EXCEPT ![ServerOf[t]] = m2], call' = [call EXCEPT ![t] = c2],
           servedPointer' = servedPointer, deployment' = deployment, published' = published,
           FlockGoes(t) \/ flock = Nobody0, flock' \in Threads \cup {Nobody0},
           MemoryShape(m2), m2.up = Mine(t).up, m2.ready = Mine(t).ready, m2.head = Mine(t).head,
           m2.temperature = Mine(t).temperature, m2.generation = Mine(t).generation, m2.index = Mine(t).index,
           m2.own = Mine(t).own, m2.approved = Mine(t).approved,
           m2.lock = Mine(t).lock \/ (Mine(t).lock = Nobody0 /\ m2.lock = t),
           CallSound(t, c2, m2, servedPointer, published, deployment, flock'),
           \A u \in Threads : u # t /\ ServerOf[u] = ServerOf[t] => CallsAgree(c2, call[u]) /\ CallsAgree(call[u], c2)
    PROVE  ModelInv'
<1>1. /\ PublishedSound(published', deployment) /\ servedPointer <= Len(published')
      /\ Len(published') <= MaxGenerations /\ Len(published') \in Nat
    BY PointerTyped DEF ModelInv
<1>2. \A u \in Threads : u # Nobody0 /\ CallSound(u, call[u], Mine(u), servedPointer, published, deployment, flock)
    BY LocalModelConstants DEF ModelInv, Nobody0
<1>3. MemorySound(Mine(t), servedPointer, deployment)
    BY LocalModelConstants DEF ModelInv, Mine
<1>4. MemorySound(m2, servedPointer, deployment)
    <2>1. m2.lock = Nobody0 /\ m2.up # "starting" => Indexed(Mine(t), servedPointer)
        BY <1>2, <1>3 DEF MemorySound
    <2>2. m2.lock = Nobody0 /\ m2.up # "starting" => Indexed(m2, servedPointer)
        BY <2>1 DEF Indexed
    <2> QED
        BY <1>3, <2>2 DEF MemorySound
<1>5. ASSUME NEW u \in Threads, u # t, ServerOf[u] = ServerOf[t]
      PROVE  CallSound(u, call[u], m2, servedPointer, published', deployment, flock')
    <2>1. CallSound(u, call[u], Mine(t), servedPointer, published, deployment, flock)
        BY <1>2, <1>5 DEF Mine
    <2>2. CallSound(u, call[u], Mine(t), servedPointer, published, deployment, flock')
        BY <1>5, <2>1, TrainersHold
    <2>3. Mine(t).lock = u => m2.lock = u
        BY <1>2
    <2>4. TrainingSound(u, call[u], m2, servedPointer, published, deployment, flock')
        BY <2>2, <2>3 DEF CallSound, TrainingSound, Indexed
    <2>5. LoadSound(u, call[u], m2, servedPointer, deployment) /\ PredictionSound(call[u], m2, servedPointer)
        BY <2>2, <2>3 DEF CallSound, LoadSound, PredictionSound
    <2> QED
        BY <2>2, <2>4, <2>5 DEF CallSound
<1>6. ASSUME NEW u \in Threads, ServerOf[u] # ServerOf[t]
      PROVE  CallSound(u, call[u], Mine(u), servedPointer, published', deployment, flock')
    <2>1. u # t
        BY <1>6
    <2> QED
        BY <1>2, <2>1, TrainersHold
<1> QED
    BY <1>1, <1>4, <1>5, <1>6, ThreadMoves

LEMMA PredictionCall ==
    ASSUME ModelInv, NEW t \in Threads, call[t].at \in {"refresh", "asked", "scale", "answered"}
    PROVE  /\ call[t] # Nothing /\ call[t].kind = "predict" /\ Mine(t).up = "up"
           /\ CallSound(t, call[t], Mine(t), servedPointer, published, deployment, flock)
           /\ MemorySound(Mine(t), servedPointer, deployment) /\ MemoryShape(Mine(t))
           /\ PredictionSound(call[t], Mine(t), servedPointer)
           /\ servedPointer \in call[t].seen /\ call[t].seen \subseteq 0 .. servedPointer
           /\ call[t].at = "refresh" =>
                \A at : [call[t] EXCEPT !.at = at] = [at |-> at, kind |-> "predict", seen |-> call[t].seen]
<1>1. CallSound(t, call[t], Mine(t), servedPointer, published, deployment, flock)
    BY DEF ModelInv
<1>2. MemorySound(Mine(t), servedPointer, deployment) /\ MemoryShape(Mine(t))
    BY LocalModelConstants DEF ModelInv, Mine, MemorySound
<1>3. call[t] # Nothing
    BY IdleIsSound
<1>4. CallShape(call[t]) /\ PredictionSound(call[t], Mine(t), servedPointer)
    BY <1>1 DEF CallSound
<1>5. call[t].kind = "predict"
    BY <1>3, <1>4, CallKinds
<1>6. servedPointer \in call[t].seen /\ call[t].seen \subseteq 0 .. servedPointer
    BY <1>3, <1>4, <1>5 DEF PredictionSound
<1>7. ASSUME call[t].at = "refresh", NEW at
      PROVE  [call[t] EXCEPT !.at = at] = [at |-> at, kind |-> "predict", seen |-> call[t].seen]
    <2>1. call[t] = [at |-> call[t].at, kind |-> "predict", seen |-> call[t].seen]
        BY <1>3, <1>4, <1>7 DEF CallShape, TrainSteps, LoadSteps
    <2>2. PICK c : c = call[t]
        OBVIOUS
    <2>3. [c EXCEPT !.at = at] = [at |-> at, kind |-> "predict", seen |-> c.seen]
        BY <2>1, <2>2
    <2> QED
        BY <2>2, <2>3
<1> QED
    BY <1>1, <1>2, <1>3, <1>4, <1>5, <1>6, <1>7, CallersAreUp

LEMMA CleanTrainingRecordsAreClean == \A all : CleanData(CleanTrainingRecords(all))
<1> SUFFICES ASSUME NEW all, NEW r \in CleanTrainingRecords(all), NEW s \in CleanTrainingRecords(all)
             PROVE  ~ r.pending /\ (r.text = s.text => r.quadrant = s.quadrant)
    BY DEF CleanData
<1>1. PICK reviewed : reviewed = {x \in all : ~ x.pending}
    OBVIOUS
<1>2. CleanTrainingRecords(all) = {x \in reviewed : \A y \in reviewed : x.text = y.text => x.quadrant = y.quadrant}
    BY <1>1 DEF CleanTrainingRecords
<1> QED
    BY <1>1, <1>2

LEMMA RetrainKeeps ==
    ASSUME ModelInv, NEW t \in Threads, Retrain(t)
    PROVE  ModelInv'
<1>1. PICK c2 : c2 = [at |-> "waiting", kind |-> "retrain", data |-> CleanTrainingRecords(records)]
    OBVIOUS
<1>2. /\ call' = [call EXCEPT ![t] = c2] /\ Mine(t).up = "up"
      /\ UNCHANGED <<deployment, published, servedPointer, flock, memory>>
    BY <1>1 DEF Retrain
<1>3. /\ c2.at = "waiting" /\ c2.kind = "retrain" /\ c2.data = CleanTrainingRecords(records)
      /\ c2 = [at |-> c2.at, kind |-> c2.kind, data |-> c2.data]
    BY <1>1
<1>4. CallShape(c2) /\ c2 # Nothing
    BY <1>3, CleanTrainingRecordsAreClean, IdleIsSound DEF CallShape
<1>5. TrainingSound(t, c2, Mine(t), servedPointer, published, deployment, flock)
    BY <1>3 DEF TrainingSound, TrainSteps
<1>6. LoadSound(t, c2, Mine(t), servedPointer, deployment) /\ PredictionSound(c2, Mine(t), servedPointer)
    BY <1>3 DEF LoadSound, PredictionSound, LoadSteps
<1>7. CallSound(t, c2, Mine(t), servedPointer, published, deployment, flock)
    BY <1>2, <1>3, <1>4, <1>5, <1>6 DEF CallSound
<1>8. \A e : CallsAgree(c2, e) /\ CallsAgree(e, c2)
    BY <1>3, Agreeable
<1> QED
    BY <1>2, <1>7, <1>8, CallMoves

LEMMA AcquireTrainingKeeps ==
    ASSUME ModelInv, NEW t \in Threads, AcquireTraining(t)
    PROVE  ModelInv'
<1>1. call[t].at = "waiting" /\ Mine(t).lock = Nobody0 /\ flock = Nobody0 /\ flock' = t
    BY DEF AcquireTraining, AtStep
<1>2. CallSound(t, call[t], Mine(t), servedPointer, published, deployment, flock)
    BY DEF ModelInv
<1>3. MemorySound(Mine(t), servedPointer, deployment) /\ MemoryShape(Mine(t))
    BY LocalModelConstants DEF ModelInv, Mine, MemorySound
<1>4. /\ call[t] # Nothing /\ call[t].kind \in {"startup", "retrain"} /\ CleanData(call[t].data)
      /\ call[t] = [at |-> call[t].at, kind |-> call[t].kind, data |-> call[t].data]
    <2>1. call[t] # Nothing
        BY <1>1, IdleIsSound
    <2>2. CallShape(call[t])
        BY <1>2 DEF CallSound
    <2> QED
        BY <1>1, <2>1, <2>2 DEF CallShape, TrainSteps, LoadSteps
<1>5. PICK c2 : c2 = [call[t] EXCEPT !.at = "training"]
    OBVIOUS
<1>6. call' = [call EXCEPT ![t] = c2]
    BY <1>5, GoesIs DEF AcquireTraining
<1>7. c2 = [at |-> "training", kind |-> call[t].kind, data |-> call[t].data]
    BY <1>4, <1>5
<1>8. c2.at = "training" /\ c2.kind = call[t].kind /\ c2.data = call[t].data
    BY <1>7
<1>9. PICK m2 : m2 = [Mine(t) EXCEPT !.lock = t]
    OBVIOUS
<1>10. memory' = [memory EXCEPT ![ServerOf[t]] = m2]
    BY <1>9 DEF AcquireTraining, SetMine
<1>11. /\ MemoryShape(m2) /\ m2.up = Mine(t).up /\ m2.ready = Mine(t).ready /\ m2.head = Mine(t).head
       /\ m2.temperature = Mine(t).temperature /\ m2.generation = Mine(t).generation /\ m2.index = Mine(t).index
       /\ m2.own = Mine(t).own /\ m2.approved = Mine(t).approved /\ m2.lock = t
    BY <1>3, <1>9 DEF MemoryShape
<1>12. Mine(t).up = IF c2.kind = "startup" THEN "starting" ELSE "up"
    BY <1>4, <1>8, CallersAreUp
<1>13. Indexed(m2, servedPointer)
    <2>1. Indexed(Mine(t), servedPointer)
        <3>1. CASE call[t].kind = "startup"
            BY <1>1, <1>2, <3>1 DEF CallSound, TrainingSound
        <3>2. CASE call[t].kind # "startup"
            BY <1>1, <1>3, <1>8, <1>12, <3>2 DEF MemorySound
        <3> QED
            BY <3>1, <3>2
    <2> QED
        BY <1>11, <2>1 DEF Indexed
<1>14. CallSound(t, c2, m2, servedPointer, published, deployment, flock')
    <2>1. CallShape(c2) /\ c2 # Nothing
        BY <1>4, <1>7, <1>8, IdleIsSound DEF CallShape
    <2>2. TrainingSound(t, c2, m2, servedPointer, published, deployment, flock')
        BY <1>1, <1>8, <1>11, <1>13 DEF TrainingSound
    <2>3. LoadSound(t, c2, m2, servedPointer, deployment) /\ PredictionSound(c2, m2, servedPointer)
        BY <1>4, <1>8 DEF LoadSound, PredictionSound, LoadSteps
    <2> QED
        BY <1>11, <1>12, <2>1, <2>2, <2>3 DEF CallSound
<1>15. ASSUME NEW u \in Threads, u # t, ServerOf[u] = ServerOf[t]
       PROVE  CallsAgree(c2, call[u]) /\ CallsAgree(call[u], c2)
    <2>1. CASE c2.kind = "startup"
        <3>1. call[u] = Nothing
            BY <1>4, <1>8, <1>15, <2>1, OthersAreFree
        <3> QED
            BY <3>1, IdleAgrees
    <2>2. CASE c2.kind # "startup"
        BY <1>8, <2>2, Agreeable
    <2> QED
        BY <2>1, <2>2
<1>16. UNCHANGED <<deployment, published, servedPointer>> /\ flock' \in Threads \cup {Nobody0}
    BY <1>1 DEF AcquireTraining
<1> QED
    BY <1>1, <1>6, <1>10, <1>11, <1>14, <1>15, <1>16, MarkStep

LEMMA PredictKeeps ==
    ASSUME ModelInv, NEW t \in Threads, Predict(t)
    PROVE  ModelInv'
<1>1. PICK c2 : c2 = [at |-> "refresh", kind |-> "predict", seen |-> {servedPointer}]
    OBVIOUS
<1>2. /\ call' = [call EXCEPT ![t] = c2] /\ Mine(t).up = "up"
      /\ UNCHANGED <<deployment, published, servedPointer, flock, memory>>
    BY <1>1 DEF Predict, Active
<1>3. /\ c2.at = "refresh" /\ c2.kind = "predict" /\ c2.seen = {servedPointer}
      /\ c2 = [at |-> c2.at, kind |-> "predict", seen |-> c2.seen]
    BY <1>1
<1>4. CallShape(c2) /\ c2 # Nothing
    BY <1>3, IdleIsSound DEF CallShape
<1>5. PredictionSound(c2, Mine(t), servedPointer)
    <2>1. servedPointer \in c2.seen /\ c2.seen \subseteq 0 .. servedPointer
        BY <1>3, PointerTyped
    <2> QED
        BY <1>3, <2>1 DEF PredictionSound, LoadSteps
<1>6. TrainingSound(t, c2, Mine(t), servedPointer, published, deployment, flock)
      /\ LoadSound(t, c2, Mine(t), servedPointer, deployment)
    BY <1>3 DEF TrainingSound, LoadSound, TrainSteps, LoadSteps
<1>7. CallSound(t, c2, Mine(t), servedPointer, published, deployment, flock)
    BY <1>2, <1>3, <1>4, <1>5, <1>6 DEF CallSound
<1>8. \A e : CallsAgree(c2, e) /\ CallsAgree(e, c2)
    BY <1>3, Agreeable
<1> QED
    BY <1>2, <1>7, <1>8, CallMoves

LEMMA RefreshKeeps ==
    ASSUME ModelInv, NEW t \in Threads, RefreshIfGenerationChanged(t)
    PROVE  ModelInv'
<1>1. call[t].at = "refresh"
    BY DEF RefreshIfGenerationChanged, AtStep
<1>2. /\ call[t] # Nothing /\ call[t].kind = "predict" /\ Mine(t).up = "up"
      /\ CallSound(t, call[t], Mine(t), servedPointer, published, deployment, flock)
      /\ MemorySound(Mine(t), servedPointer, deployment) /\ MemoryShape(Mine(t))
      /\ servedPointer \in call[t].seen /\ call[t].seen \subseteq 0 .. servedPointer
      /\ \A at : [call[t] EXCEPT !.at = at] = [at |-> at, kind |-> "predict", seen |-> call[t].seen]
    BY <1>1, PredictionCall
<1>3. UNCHANGED <<deployment, published, servedPointer, flock>> /\ servedPointer \in Nat
    BY PointerTyped DEF RefreshIfGenerationChanged
<1>4. {Mine(t).head, Mine(t).temperature, Mine(t).generation} \subseteq 0 .. servedPointer
    BY <1>2 DEF MemorySound
<1>5. CASE UpToDate(t)
    <2>1. PICK c2 : c2 = [at |-> "asked", kind |-> "predict", seen |-> call[t].seen]
        OBVIOUS
    <2>2. c2 = [call[t] EXCEPT !.at = "asked"]
        BY <1>2, <2>1
    <2>3. call' = [call EXCEPT ![t] = c2] /\ memory' = memory
        <3>1. Goes(t, "asked") /\ memory' = memory
            BY <1>5 DEF RefreshIfGenerationChanged
        <3> QED
            BY <2>2, <3>1, GoesIs
    <2>4. /\ c2.at = "asked" /\ c2.kind = "predict" /\ c2.seen = call[t].seen
          /\ c2 = [at |-> c2.at, kind |-> "predict", seen |-> c2.seen]
        BY <2>1
    <2>5. CallShape(c2) /\ c2 # Nothing
        BY <2>4, IdleIsSound DEF CallShape
    <2>6. servedPointer = 0 \/ Mine(t).generation = servedPointer
        BY <1>5 DEF UpToDate
    <2>7. Mine(t).head \in call[t].seen \cup {0} /\ Mine(t).temperature \in call[t].seen
        <3>1. CASE servedPointer = 0
            BY <1>2, <1>4, <3>1
        <3>2. CASE servedPointer # 0 /\ Mine(t).generation = servedPointer
            BY <1>2, <3>2 DEF MemorySound
        <3> QED
            BY <2>6, <3>1, <3>2
    <2>8. PredictionSound(c2, Mine(t), servedPointer)
        BY <1>2, <2>4, <2>6, <2>7 DEF PredictionSound, LoadSteps
    <2>9. TrainingSound(t, c2, Mine(t), servedPointer, published, deployment, flock)
          /\ LoadSound(t, c2, Mine(t), servedPointer, deployment)
        BY <2>4 DEF TrainingSound, LoadSound, TrainSteps, LoadSteps
    <2>10. CallSound(t, c2, Mine(t), servedPointer, published, deployment, flock)
        BY <1>2, <2>4, <2>5, <2>8, <2>9 DEF CallSound
    <2>11. ASSUME NEW u \in Threads, u # t, ServerOf[u] = ServerOf[t]
           PROVE  CallsAgree(c2, call[u]) /\ CallsAgree(call[u], c2)
        <3>1. call[u].at \notin {"metadata", "head", "rest"}
            <4>1. SUFFICES ASSUME call[u].at \in {"metadata", "head", "rest"} PROVE FALSE
                OBVIOUS
            <4>2. Mine(u).generation < servedPointer /\ Mine(u) = Mine(t)
                BY <2>11, <4>1, LoadingCall DEF LoadSteps, Mine
            <4> QED
                BY <1>3, <1>4, <2>6, <4>2
        <3> QED
            BY <2>4, <3>1 DEF CallsAgree
    <2> QED
        BY <1>3, <2>3, <2>10, <2>11, CallMoves
<1>6. CASE ~ UpToDate(t)
    <2>1. PICK c2 : c2 = [at |-> "load", kind |-> "predict", seen |-> call[t].seen]
        OBVIOUS
    <2>2. c2 = [call[t] EXCEPT !.at = "load"]
        BY <1>2, <2>1
    <2>3. PICK m2 : m2 = [Mine(t) EXCEPT !.lock = t]
        OBVIOUS
    <2>4. Mine(t).lock = Nobody0 /\ memory' = [memory EXCEPT ![ServerOf[t]] = m2] /\ Goes(t, "load")
        BY <1>6, <2>3 DEF RefreshIfGenerationChanged, SetMine
    <2>5. call' = [call EXCEPT ![t] = c2]
        BY <2>2, <2>4, GoesIs
    <2>6. /\ c2.at = "load" /\ c2.kind = "predict" /\ c2.seen = call[t].seen
          /\ c2 = [at |-> c2.at, kind |-> "predict", seen |-> c2.seen]
        BY <2>1
    <2>7. CallShape(c2) /\ c2 # Nothing
        BY <2>6, IdleIsSound DEF CallShape
    <2>8. /\ MemoryShape(m2) /\ m2.up = Mine(t).up /\ m2.ready = Mine(t).ready /\ m2.head = Mine(t).head
          /\ m2.temperature = Mine(t).temperature /\ m2.generation = Mine(t).generation
          /\ m2.index = Mine(t).index /\ m2.own = Mine(t).own /\ m2.approved = Mine(t).approved /\ m2.lock = t
        BY <1>2, <2>3 DEF MemoryShape
    <2>9. Mine(t).generation < servedPointer
        BY <1>3, <1>4, <1>6 DEF UpToDate
    <2>10. PredictionSound(c2, m2, servedPointer)
        BY <1>2, <2>6 DEF PredictionSound, LoadSteps
    <2>11. TrainingSound(t, c2, m2, servedPointer, published, deployment, flock')
           /\ LoadSound(t, c2, m2, servedPointer, deployment)
        BY <2>6, <2>8, <2>9 DEF TrainingSound, LoadSound, TrainSteps, LoadSteps
    <2>12. CallSound(t, c2, m2, servedPointer, published, deployment, flock')
        BY <1>2, <2>6, <2>7, <2>8, <2>10, <2>11 DEF CallSound
    <2>13. \A e : CallsAgree(c2, e) /\ CallsAgree(e, c2)
        BY <2>6, Agreeable
    <2>14. FlockGoes(t) /\ flock' \in Threads \cup {Nobody0}
        BY <1>3 DEF FlockGoes, ModelInv
    <2> QED
        BY <1>3, <2>4, <2>5, <2>8, <2>12, <2>13, <2>14, MarkStep
<1> QED
    BY <1>5, <1>6

LEMMA RefuseBlankKeeps ==
    ASSUME ModelInv, NEW t \in Threads, RefuseBlank(t)
    PROVE  ModelInv'
<1>1. call[t].at = "asked"
    BY DEF RefuseBlank, AtStep
<1>2. MemoryShape(Mine(t))
    BY <1>1, PredictionCall
<1>3. PICK yes : yes = TRUE
    OBVIOUS
<1>4. PICK m2 : m2 = [Mine(t) EXCEPT !.error = yes]
    OBVIOUS
<1>5. /\ memory' = [memory EXCEPT ![ServerOf[t]] = m2] /\ call' = [call EXCEPT ![t] = Nothing]
      /\ UNCHANGED <<deployment, published, servedPointer, flock>>
    BY <1>3, <1>4 DEF RefuseBlank, SetMine
<1>6. /\ MemoryShape(m2) /\ m2.up = Mine(t).up /\ m2.ready = Mine(t).ready /\ m2.head = Mine(t).head
      /\ m2.temperature = Mine(t).temperature /\ m2.generation = Mine(t).generation
      /\ m2.index = Mine(t).index /\ m2.own = Mine(t).own /\ m2.approved = Mine(t).approved
      /\ m2.lock = Mine(t).lock
    BY <1>2, <1>4 DEF MemoryShape
<1>7. FlockGoes(t) /\ flock' \in Threads \cup {Nobody0}
    BY <1>5 DEF FlockGoes, ModelInv
<1>8. CallSound(t, Nothing, m2, servedPointer, published, deployment, flock')
    BY IdleIsSound
<1>9. \A e : CallsAgree(Nothing, e) /\ CallsAgree(e, Nothing)
    BY IdleAgrees
<1> QED
    BY <1>5, <1>6, <1>7, <1>8, <1>9, MarkStep

LEMMA ComputeLogitsKeeps ==
    ASSUME ModelInv, NEW t \in Threads, ComputeLogits(t)
    PROVE  ModelInv'
<1>1. call[t].at = "asked" /\ UNCHANGED <<deployment, published, servedPointer, flock, memory>>
    BY DEF ComputeLogits, AtStep
<1>2. /\ call[t] # Nothing /\ call[t].kind = "predict" /\ Mine(t).up = "up"
      /\ PredictionSound(call[t], Mine(t), servedPointer)
      /\ servedPointer \in call[t].seen /\ call[t].seen \subseteq 0 .. servedPointer
    BY <1>1, PredictionCall
<1>3. CASE RequireReady(t)
    <2>1. PICK c2 : c2 = [at |-> "scale", kind |-> "predict", seen |-> call[t].seen, head |-> Mine(t).head]
        OBVIOUS
    <2>2. call' = [call EXCEPT ![t] = c2] /\ Mine(t).head # 0
        BY <1>3, <2>1 DEF ComputeLogits, RequireReady
    <2>3. /\ c2.at = "scale" /\ c2.kind = "predict" /\ c2.seen = call[t].seen /\ c2.head = Mine(t).head
          /\ c2 = [at |-> "scale", kind |-> "predict", seen |-> c2.seen, head |-> c2.head]
        BY <2>1
    <2>4. CallShape(c2) /\ c2 # Nothing
        BY <2>3, IdleIsSound DEF CallShape
    <2>5. PredictionSound(c2, Mine(t), servedPointer)
        BY <1>1, <1>2, <2>2, <2>3 DEF PredictionSound, LoadSteps
    <2>6. TrainingSound(t, c2, Mine(t), servedPointer, published, deployment, flock)
          /\ LoadSound(t, c2, Mine(t), servedPointer, deployment)
        BY <2>3 DEF TrainingSound, LoadSound, TrainSteps, LoadSteps
    <2>7. CallSound(t, c2, Mine(t), servedPointer, published, deployment, flock)
        BY <1>2, <2>3, <2>4, <2>5, <2>6 DEF CallSound
    <2>8. ASSUME NEW u \in Threads, u # t, ServerOf[u] = ServerOf[t]
          PROVE  CallsAgree(c2, call[u]) /\ CallsAgree(call[u], c2)
        <3>1. CallsAgree(call[t], call[u])
            BY <2>8 DEF ModelInv
        <3>2. call[u].at \in {"metadata", "head", "rest"} => call[u].meta \in c2.seen
            BY <1>1, <2>3, <3>1 DEF CallsAgree
        <3> QED
            BY <2>3, <3>2 DEF CallsAgree
    <2> QED
        BY <1>1, <2>2, <2>7, <2>8, CallMoves
<1>4. CASE ~ RequireReady(t)
    <2>1. call' = [call EXCEPT ![t] = Nothing]
        BY <1>4 DEF ComputeLogits
    <2> QED
        BY <1>1, <2>1, IdleIsSound, IdleAgrees, CallMoves
<1> QED
    BY <1>3, <1>4

LEMMA ScaleAndAnswerKeeps ==
    ASSUME ModelInv, NEW t \in Threads, ScaleAndAnswer(t)
    PROVE  ModelInv'
<1>1. call[t].at = "scale" /\ UNCHANGED <<deployment, published, servedPointer, flock, memory>>
    BY DEF ScaleAndAnswer, AtStep
<1>2. /\ call[t] # Nothing /\ call[t].kind = "predict" /\ Mine(t).up = "up"
      /\ PredictionSound(call[t], Mine(t), servedPointer)
    BY <1>1, PredictionCall
<1>3. PICK c2 : c2 = [at |-> "answered", kind |-> "predict", seen |-> call[t].seen, head |-> call[t].head,
                      temperature |-> Mine(t).temperature]
    OBVIOUS
<1>4. call' = [call EXCEPT ![t] = c2]
    BY <1>3 DEF ScaleAndAnswer
<1>5. /\ c2.at = "answered" /\ c2.kind = "predict" /\ c2.seen = call[t].seen /\ c2.head = call[t].head
      /\ c2.temperature = Mine(t).temperature
      /\ c2 = [at |-> "answered", kind |-> "predict", seen |-> c2.seen, head |-> c2.head,
               temperature |-> c2.temperature]
    BY <1>3
<1>6. CallShape(c2) /\ c2 # Nothing
    BY <1>5, IdleIsSound DEF CallShape
<1>7. PredictionSound(c2, Mine(t), servedPointer)
    BY <1>1, <1>2, <1>5 DEF PredictionSound, LoadSteps
<1>8. TrainingSound(t, c2, Mine(t), servedPointer, published, deployment, flock)
      /\ LoadSound(t, c2, Mine(t), servedPointer, deployment)
    BY <1>5 DEF TrainingSound, LoadSound, TrainSteps, LoadSteps
<1>9. CallSound(t, c2, Mine(t), servedPointer, published, deployment, flock)
    BY <1>2, <1>5, <1>6, <1>7, <1>8 DEF CallSound
<1>10. \A e : CallsAgree(c2, e) /\ CallsAgree(e, c2)
    BY <1>5, Agreeable
<1> QED
    BY <1>1, <1>4, <1>9, <1>10, CallMoves

LEMMA AnsweredKeeps ==
    ASSUME ModelInv, NEW t \in Threads, Answered(t)
    PROVE  ModelInv'
BY IdleIsSound, IdleAgrees, CallMoves DEF Answered

LEMMA PublishKeeps ==
    ASSUME ModelInv, NEW t \in Threads, PublishGeneration(t)
    PROVE  ModelInv'
<1>1. call[t].at = "writing" /\ call[t].at \in TrainSteps \ {"training"} /\ call[t].at \in TrainSteps
    BY DEF PublishGeneration, AtStep, TrainSteps
<1>2. /\ call[t] # Nothing /\ Mine(t).lock = t /\ flock = t /\ call[t].kind \in {"startup", "retrain"}
      /\ CallSound(t, call[t], Mine(t), servedPointer, published, deployment, flock)
      /\ MemorySound(Mine(t), servedPointer, deployment) /\ MemoryShape(Mine(t))
    BY <1>1, TrainingCall
<1>3. /\ FitToPublish(call[t].data, deployment.gate, deployment)
      /\ call[t].candidate = Len(published) + 1 /\ call[t].candidate <= MaxGenerations
    BY <1>1, <1>2 DEF CallSound, TrainingSound
<1>4. /\ servedPointer \in Nat /\ Len(published) \in Nat /\ servedPointer <= Len(published)
      /\ DOMAIN published = 1 .. Len(published)
    BY PointerTyped
<1>5. PICK g : g = [data |-> call[t].data, gate |-> deployment.gate]
    OBVIOUS
<1>6. g.data = call[t].data /\ g.gate = deployment.gate
    BY <1>5
<1>7. published' = Append(published, g) /\ UNCHANGED <<deployment, servedPointer, flock, memory>>
    BY <1>5 DEF PublishGeneration
<1>8. /\ Len(published') = Len(published) + 1 /\ published' \in Seq(UNION {{published[i] : i \in DOMAIN published}, {g}})
      /\ \A i \in DOMAIN published' : published'[i] = g \/ (i \in DOMAIN published /\ published'[i] = published[i])
    <2>1. PICK S : published \in Seq(S)
        BY DEF ModelInv, PublishedSound
    <2>2. PICK R : R = {published[i] : i \in DOMAIN published}
        OBVIOUS
    <2>3. published \in Seq(R \cup {g}) /\ g \in R \cup {g}
        BY <2>1, <2>2
    <2>4. PICK U : U = R \cup {g}
        OBVIOUS
    <2>5. published \in Seq(U) /\ g \in U
        BY <2>3, <2>4
    <2>6. /\ published' \in Seq(U) /\ Len(published') = Len(published) + 1
          /\ \A i \in 1 .. Len(published) : published'[i] = published[i] /\ published'[Len(published) + 1] = g
          /\ published'[Len(published) + 1] = g
        BY <1>7, <2>5, AppendProperties
    <2>7. DOMAIN published' = 1 .. Len(published) + 1
        BY <2>6
    <2>8. U = UNION {{published[i] : i \in DOMAIN published}, {g}}
        BY <2>2, <2>4
    <2>9. \A i \in DOMAIN published' : published'[i] = g \/ (i \in DOMAIN published /\ published'[i] = published[i])
        <3>1. TAKE i \in DOMAIN published'
        <3>2. i = Len(published) + 1 \/ i \in 1 .. Len(published)
            BY <1>4, <2>7
        <3> QED
            BY <1>4, <2>6, <3>2
    <2> QED
        BY <2>6, <2>8, <2>9
<1>9. PublishedSound(published', deployment)
    <2>1. \E S : published' \in Seq(S)
        BY <1>8
    <2>2. \A i \in DOMAIN published : FitToPublish(published[i].data, published[i].gate, deployment)
        BY DEF ModelInv, PublishedSound
    <2>3. \A i \in DOMAIN published' : FitToPublish(published'[i].data, published'[i].gate, deployment)
        BY <1>3, <1>6, <1>8, <2>2
    <2> QED
        BY <2>1, <2>3 DEF PublishedSound
<1>10. /\ servedPointer <= Len(published') /\ Len(published') <= MaxGenerations /\ Len(published') \in Nat
       /\ servedPointer < Len(published')
    BY <1>3, <1>4, <1>8
<1>11. PICK c2 : c2 = [call[t] EXCEPT !.at = "published"]
    OBVIOUS
<1>12. call' = [call EXCEPT ![t] = c2]
    BY <1>11, GoesIs DEF PublishGeneration
<1>13. /\ c2 = [at |-> c2.at, kind |-> c2.kind, data |-> c2.data, candidate |-> c2.candidate]
       /\ c2.at = "published" /\ c2.kind = call[t].kind /\ c2.candidate = Len(published')
    <2>1. CallShape(call[t]) /\ call[t].candidate = Len(published')
        BY <1>2, <1>3, <1>8 DEF CallSound
    <2>2. /\ c2 = [at |-> "published", kind |-> call[t].kind, data |-> call[t].data, candidate |-> call[t].candidate]
          /\ c2.at = "published" /\ c2.kind = call[t].kind /\ c2.data = call[t].data
          /\ c2.candidate = call[t].candidate
        BY <1>1, <1>11, <2>1, MovedCall
    <2> QED
        BY <2>1, <2>2
<1>14. CallSound(t, c2, Mine(t), servedPointer, published', deployment, flock')
    <2>1. CallShape(c2) /\ c2 # Nothing
        BY <1>2, <1>13, IdleIsSound DEF CallShape, TrainSteps
    <2>2. Mine(t).up = IF c2.kind = "startup" THEN "starting" ELSE "up"
        BY <1>2, <1>13 DEF CallSound
    <2>3. TrainingSound(t, c2, Mine(t), servedPointer, published', deployment, flock')
        BY <1>2, <1>7, <1>10, <1>13 DEF TrainingSound, TrainSteps
    <2>4. LoadSound(t, c2, Mine(t), servedPointer, deployment) /\ PredictionSound(c2, Mine(t), servedPointer)
        BY <1>2, <1>13 DEF LoadSound, PredictionSound, LoadSteps
    <2> QED
        BY <2>1, <2>2, <2>3, <2>4 DEF CallSound
<1>15. ASSUME NEW u \in Threads, u # t
       PROVE  CallSound(u, call[u], Mine(u), servedPointer, published', deployment, flock')
    <2>1. CallSound(u, call[u], Mine(u), servedPointer, published, deployment, flock)
        BY DEF ModelInv
    <2>2. call[u].at \notin TrainSteps
        BY <1>2, <1>15, <2>1 DEF CallSound, TrainingSound
    <2> QED
        BY <2>1, <2>2, OutsideTraining
<1>16. c2.kind # "startup" => \A e : CallsAgree(c2, e) /\ CallsAgree(e, c2)
    BY <1>13, Agreeable
<1>17. ASSUME NEW u \in Threads, u # t, ServerOf[u] = ServerOf[t]
       PROVE  /\ CallSound(u, call[u], Mine(t), servedPointer, published', deployment, flock')
              /\ CallsAgree(c2, call[u]) /\ CallsAgree(call[u], c2)
    <2>1. CallSound(u, call[u], Mine(t), servedPointer, published', deployment, flock')
        BY <1>15, <1>17 DEF Mine
    <2>2. CASE c2.kind = "startup"
        <3>1. call[u] = Nothing
            BY <1>2, <1>13, <1>17, <2>2, OthersAreFree
        <3> QED
            BY <2>1, <3>1, IdleAgrees
    <2>3. CASE c2.kind # "startup"
        BY <1>16, <2>1, <2>3
    <2> QED
        BY <2>2, <2>3
<1>18. memory' = [memory EXCEPT ![ServerOf[t]] = Mine(t)]
    <2>1. memory = [p \in Servers |-> memory[p]] /\ ServerOf[t] \in Servers
        BY LocalModelConstants DEF ModelInv
    <2> QED
        BY <1>7, <2>1 DEF Mine
<1>19. ASSUME NEW u \in Threads, ServerOf[u] # ServerOf[t]
       PROVE  CallSound(u, call[u], Mine(u), servedPointer, published', deployment, flock')
    BY <1>15, <1>19
<1>20. flock' \in Threads \cup {Nobody0}
    BY <1>7 DEF ModelInv
<1> QED
    BY <1>2, <1>7, <1>9, <1>10, <1>12, <1>14, <1>17, <1>18, <1>19, <1>20, ThreadMoves

LEMMA StartProcessKeeps ==
    ASSUME ModelInv, NEW t \in Threads, StartProcess(t)
    PROVE  ModelInv'
<1>1. /\ deployment.chosen /\ Mine(t).up = "down" /\ servedPointer \in Nat
      /\ UNCHANGED <<deployment, published, servedPointer, flock>>
    BY PointerTyped DEF StartProcess
<1>2. \A u \in Threads : ServerOf[u] = ServerOf[t] => call[u] = Nothing
    <2>1. \A u \in Threads : ServerOf[u] = ServerOf[t] => Mine(u) = Mine(t)
        BY DEF Mine
    <2> QED
        BY <1>1, <2>1, CallersAreUp
<1>3. PICK m2, c2 :
        /\ memory' = [memory EXCEPT ![ServerOf[t]] = m2] /\ call' = [call EXCEPT ![t] = c2]
        /\ MemoryShape(m2) /\ m2.head = 0 /\ m2.temperature = 0 /\ m2.generation = 0 /\ ~ m2.ready
        /\ \/ c2 = Nothing /\ m2.up = "up"
           \/ m2.up = "starting" /\ servedPointer # 0 /\ c2 = [at |-> "load", kind |-> "startup"]
           \/ m2.up = "starting"
              /\ c2 = [at |-> "waiting", kind |-> "startup", data |-> CleanTrainingRecords(records)]
    <2>1. PICK approved \in {0, servedPointer} :
            LET m == [Down EXCEPT !.up = "starting", !.approved = approved] IN
            IF servedPointer # 0
            THEN SetMine(t, m) /\ call' = [call EXCEPT ![t] = [at |-> "load", kind |-> "startup"]]
            ELSE IF deployment.production
            THEN SetMine(t, [m EXCEPT !.up = "up", !.error = TRUE]) /\ UNCHANGED call
            ELSE SetMine(t, m) /\ call' = [call EXCEPT ![t] =
                   [at |-> "waiting", kind |-> "startup", data |-> CleanTrainingRecords(records)]]
        BY DEF StartProcess
    <2>2. PICK down : down = Down
        OBVIOUS
    <2>3. PICK m : m = [down EXCEPT !.up = "starting", !.approved = approved]
        OBVIOUS
    <2>4. /\ MemoryShape(down) /\ down.head = 0 /\ down.generation = 0 /\ ~ down.ready /\ down.temperature = 0
        <3>1. MemoryShape(down) /\ down.head = 0 /\ down.generation = 0 /\ ~ down.ready
            BY <2>2, DownIsSound
        <3>2. down.temperature = 0
            BY <2>2 DEF Down
        <3> QED
            BY <3>1, <3>2
    <2>5. /\ MemoryShape(m) /\ m.up = "starting" /\ m.head = 0 /\ m.temperature = 0 /\ m.generation = 0
          /\ m.ready = down.ready
        BY <2>3, <2>4 DEF MemoryShape
    <2>6. ~ m.ready
        BY <2>4, <2>5
    <2>7. CASE servedPointer # 0
        <3>1. /\ memory' = [memory EXCEPT ![ServerOf[t]] = m]
              /\ call' = [call EXCEPT ![t] = [at |-> "load", kind |-> "startup"]]
            BY <2>1, <2>2, <2>3, <2>7 DEF SetMine
        <3> QED
            BY <2>5, <2>6, <2>7, <3>1
    <2>8. CASE servedPointer = 0 /\ deployment.production
        <3>1. PICK yes : yes = TRUE
            OBVIOUS
        <3>2. PICK w : w = [m EXCEPT !.up = "up", !.error = yes]
            OBVIOUS
        <3>3. memory' = [memory EXCEPT ![ServerOf[t]] = w] /\ call' = call
            BY <2>1, <2>2, <2>3, <2>8, <3>1, <3>2 DEF SetMine
        <3>4. /\ MemoryShape(w) /\ w.up = "up" /\ w.head = 0 /\ w.temperature = 0 /\ w.generation = 0
              /\ w.ready = m.ready
            BY <2>5, <3>2 DEF MemoryShape
        <3>5. ~ w.ready
            BY <2>6, <3>4
        <3>6. call' = [call EXCEPT ![t] = Nothing]
            <4>1. call = [u \in Threads |-> call[u]] /\ call[t] = Nothing
                BY <1>2 DEF ModelInv
            <4> QED
                BY <3>3, <4>1
        <3> QED
            BY <3>3, <3>4, <3>5, <3>6
    <2>9. CASE servedPointer = 0 /\ ~ deployment.production
        <3>1. /\ memory' = [memory EXCEPT ![ServerOf[t]] = m]
              /\ call' = [call EXCEPT ![t] =
                            [at |-> "waiting", kind |-> "startup", data |-> CleanTrainingRecords(records)]]
            BY <2>1, <2>2, <2>3, <2>9 DEF SetMine
        <3> QED
            BY <2>5, <2>6, <3>1
    <2> QED
        BY <2>7, <2>8, <2>9
<1>4. Indexed(m2, servedPointer)
    BY <1>3 DEF Indexed
<1>5. MemorySound(m2, servedPointer, deployment)
    <2>1. {m2.head, m2.temperature, m2.generation} \subseteq 0 .. servedPointer
        BY <1>1, <1>3
    <2>2. ~ (m2.generation = servedPointer /\ servedPointer # 0) /\ m2.up \in {"down", "starting", "up"}
        BY <1>3
    <2> QED
        BY <1>1, <1>3, <1>4, <2>1, <2>2 DEF MemorySound
<1>6. CallSound(t, c2, m2, servedPointer, published, deployment, flock)
    <2>1. CASE c2 = Nothing
        BY <2>1, IdleIsSound
    <2>2. CASE m2.up = "starting" /\ servedPointer # 0 /\ c2 = [at |-> "load", kind |-> "startup"]
        <3>1. c2.at = "load" /\ c2.kind = "startup"
            BY <2>2
        <3>2. CallShape(c2) /\ c2 # Nothing
            BY <2>2, <3>1, IdleIsSound DEF CallShape
        <3>3. LoadSound(t, c2, m2, servedPointer, deployment)
            BY <1>1, <1>3, <2>2, <3>1 DEF LoadSound, LoadSteps
        <3>4. TrainingSound(t, c2, m2, servedPointer, published, deployment, flock)
              /\ PredictionSound(c2, m2, servedPointer)
            BY <3>1 DEF TrainingSound, PredictionSound, TrainSteps
        <3> QED
            BY <2>2, <3>1, <3>2, <3>3, <3>4 DEF CallSound
    <2>3. CASE /\ m2.up = "starting"
               /\ c2 = [at |-> "waiting", kind |-> "startup", data |-> CleanTrainingRecords(records)]
        <3>1. /\ c2.at = "waiting" /\ c2.kind = "startup" /\ c2.data = CleanTrainingRecords(records)
              /\ c2 = [at |-> c2.at, kind |-> c2.kind, data |-> c2.data]
            BY <2>3
        <3>2. CallShape(c2) /\ c2 # Nothing
            BY <3>1, IdleIsSound, CleanTrainingRecordsAreClean DEF CallShape
        <3>3. TrainingSound(t, c2, m2, servedPointer, published, deployment, flock)
            BY <1>4, <3>1 DEF TrainingSound, TrainSteps
        <3>4. LoadSound(t, c2, m2, servedPointer, deployment) /\ PredictionSound(c2, m2, servedPointer)
            BY <3>1 DEF LoadSound, PredictionSound, LoadSteps
        <3> QED
            BY <2>3, <3>1, <3>2, <3>3, <3>4 DEF CallSound
    <2> QED
        BY <1>3, <2>1, <2>2, <2>3
<1>7. ASSUME NEW u \in Threads, u # t, ServerOf[u] = ServerOf[t]
      PROVE  /\ CallSound(u, call[u], m2, servedPointer, published', deployment, flock')
             /\ CallsAgree(c2, call[u]) /\ CallsAgree(call[u], c2)
    <2>1. call[u] = Nothing
        BY <1>2, <1>7
    <2> QED
        BY <2>1, IdleIsSound, IdleAgrees
<1>8. ASSUME NEW u \in Threads, ServerOf[u] # ServerOf[t]
      PROVE  CallSound(u, call[u], Mine(u), servedPointer, published', deployment, flock')
    BY <1>1 DEF ModelInv
<1>9. /\ PublishedSound(published', deployment) /\ servedPointer <= Len(published')
      /\ Len(published') <= MaxGenerations /\ Len(published') \in Nat /\ flock' \in Threads \cup {Nobody0}
    BY <1>1, PointerTyped DEF ModelInv
<1>10. CallSound(t, c2, m2, servedPointer, published', deployment, flock')
    BY <1>1, <1>6
<1> QED
    BY <1>1, <1>3, <1>5, <1>7, <1>8, <1>9, <1>10, ThreadMoves

\* A call that sees a generation is the same call but for what it has seen.
LEMMA SeesIs ==
    ASSUME NEW c, CallShape(c), NEW g, NEW c2, c2 = Sees(c, g)
    PROVE  /\ CallShape(c2) /\ c2.at = c.at /\ (c = Nothing => c2 = Nothing)
           /\ c # Nothing => c2 # Nothing /\ c2.kind = c.kind
           /\ c.at = "waiting" => c2 = c
           /\ c.at \in LoadSteps \ {"load"} => c2.meta = c.meta
           /\ c # Nothing /\ c.kind = "predict" => c2.seen = c.seen \cup {g}
           /\ c.at \in {"scale", "answered"} => c2.head = c.head
           /\ c.at = "answered" => c2.temperature = c.temperature
<1>1. CASE "seen" \notin DOMAIN c
    <2>1. c2 = c
        BY <1>1 DEF Sees
    <2>2. c # Nothing => c.kind # "predict"
        <3>1. ASSUME c # Nothing, c.kind = "predict" PROVE FALSE
            <4>1. CASE c.at = "load" /\ c = [at |-> "load", kind |-> "startup"]
                <5>1. c.kind = "startup"
                    BY <4>1
                <5> QED
                    BY <3>1, <5>1
            <4>2. CASE c.kind \in {"startup", "retrain"}
                BY <3>1, <4>2
            <4>3. CASE c = [at |-> c.at, kind |-> "predict", seen |-> c.seen]
                <5>1. "seen" \in DOMAIN c
                    BY <4>3
                <5> QED
                    BY <1>1, <5>1
            <4>4. CASE c = [at |-> c.at, kind |-> c.kind, meta |-> c.meta, seen |-> c.seen]
                <5>1. "seen" \in DOMAIN c
                    BY <4>4
                <5> QED
                    BY <1>1, <5>1
            <4>5. CASE c = [at |-> "scale", kind |-> "predict", seen |-> c.seen, head |-> c.head]
                <5>1. "seen" \in DOMAIN c
                    BY <4>5
                <5> QED
                    BY <1>1, <5>1
            <4>6. CASE c = [at |-> "answered", kind |-> "predict", seen |-> c.seen, head |-> c.head,
                            temperature |-> c.temperature]
                <5>1. "seen" \in DOMAIN c
                    BY <4>6
                <5> QED
                    BY <1>1, <5>1
            <4> QED
                BY <3>1, <4>1, <4>2, <4>3, <4>4, <4>5, <4>6 DEF CallShape
        <3> QED
            BY <3>1
    <2>3. c # Nothing /\ c.at \in {"waiting", "scale", "answered"} \cup LoadSteps => c2 = c
        BY <2>1
    <2> QED
        BY <2>1, <2>2
<1>2. CASE "seen" \in DOMAIN c
    <2>1. c2 = [c EXCEPT !.seen = c.seen \cup {g}]
        BY <1>2 DEF Sees
    <2>2. c # Nothing
        <3>1. DOMAIN Nothing = {"at"}
            BY DEF Nothing
        <3> QED
            BY <1>2, <3>1
    <2>3. CASE c.at = "load" /\ c = [at |-> "load", kind |-> "startup"]
        <3>1. DOMAIN c = {"at", "kind"}
            BY <2>3
        <3> QED
            BY <1>2, <3>1
    <2>4. CASE c = [at |-> c.at, kind |-> c.kind, data |-> c.data]
        <3>1. DOMAIN c = {"at", "kind", "data"}
            BY <2>4
        <3> QED
            BY <1>2, <3>1
    <2>5. CASE c = [at |-> c.at, kind |-> c.kind, data |-> c.data, candidate |-> c.candidate]
        <3>1. DOMAIN c = {"at", "kind", "data", "candidate"}
            BY <2>5
        <3> QED
            BY <1>2, <3>1
    <2>6. CASE c.at \in {"refresh", "load", "asked"} /\ c = [at |-> c.at, kind |-> "predict", seen |-> c.seen]
        <3>1. c2 = [at |-> c.at, kind |-> "predict", seen |-> c.seen \cup {g}]
            BY <2>1, <2>6
        <3>2. c2.at = c.at /\ c2.kind = "predict" /\ c2.seen = c.seen \cup {g} /\ c.kind = "predict"
            BY <2>6, <3>1
        <3>3. c2 = [at |-> c2.at, kind |-> "predict", seen |-> c2.seen]
            BY <3>1, <3>2
        <3>4. CallShape(c2) /\ c2 # Nothing
            BY <2>6, <3>2, <3>3, IdleIsSound DEF CallShape
        <3> QED
            BY <2>2, <2>6, <3>2, <3>4 DEF LoadSteps
    <2>7. CASE /\ c.at \in LoadSteps \ {"load"} /\ c.kind \in {"startup", "predict"}
               /\ c = [at |-> c.at, kind |-> c.kind, meta |-> c.meta, seen |-> c.seen]
        <3>1. c2 = [at |-> c.at, kind |-> c.kind, meta |-> c.meta, seen |-> c.seen \cup {g}]
            BY <2>1, <2>7
        <3>2. c2.at = c.at /\ c2.kind = c.kind /\ c2.meta = c.meta /\ c2.seen = c.seen \cup {g}
            BY <3>1
        <3>3. c2 = [at |-> c2.at, kind |-> c2.kind, meta |-> c2.meta, seen |-> c2.seen]
            BY <3>1, <3>2
        <3>4. CallShape(c2) /\ c2 # Nothing
            BY <2>7, <3>2, <3>3, IdleIsSound DEF CallShape, LoadSteps
        <3> QED
            BY <2>2, <2>7, <3>2, <3>4 DEF LoadSteps
    <2>8. CASE c.at = "scale" /\ c = [at |-> "scale", kind |-> "predict", seen |-> c.seen, head |-> c.head]
        <3>1. c2 = [at |-> "scale", kind |-> "predict", seen |-> c.seen \cup {g}, head |-> c.head]
            BY <2>1, <2>8
        <3>2. /\ c2.at = "scale" /\ c2.kind = "predict" /\ c2.seen = c.seen \cup {g} /\ c2.head = c.head
              /\ c.kind = "predict"
            BY <2>8, <3>1
        <3>3. c2 = [at |-> "scale", kind |-> "predict", seen |-> c2.seen, head |-> c2.head]
            BY <3>1, <3>2
        <3>4. CallShape(c2) /\ c2 # Nothing
            BY <3>2, <3>3, IdleIsSound DEF CallShape
        <3> QED
            BY <2>2, <2>8, <3>2, <3>4 DEF LoadSteps
    <2>9. CASE /\ c.at = "answered"
               /\ c = [at |-> "answered", kind |-> "predict", seen |-> c.seen, head |-> c.head,
                       temperature |-> c.temperature]
        <3>1. c2 = [at |-> "answered", kind |-> "predict", seen |-> c.seen \cup {g}, head |-> c.head,
                    temperature |-> c.temperature]
            BY <2>1, <2>9
        <3>2. /\ c2.at = "answered" /\ c2.kind = "predict" /\ c2.seen = c.seen \cup {g} /\ c2.head = c.head
              /\ c2.temperature = c.temperature /\ c.kind = "predict"
            BY <2>9, <3>1
        <3>3. c2 = [at |-> "answered", kind |-> "predict", seen |-> c2.seen, head |-> c2.head,
                    temperature |-> c2.temperature]
            BY <3>1, <3>2
        <3>4. CallShape(c2) /\ c2 # Nothing
            BY <3>2, <3>3, IdleIsSound DEF CallShape
        <3> QED
            BY <2>2, <2>9, <3>2, <3>4 DEF LoadSteps
    <2> QED
        BY <2>2, <2>3, <2>4, <2>5, <2>6, <2>7, <2>8, <2>9 DEF CallShape
<1> QED
    BY <1>1, <1>2

\* The pointer moves to a generation that no memory has yet.
LEMMA SeenCallSound ==
    ASSUME NEW u, NEW c, NEW m, NEW pointer \in Nat, NEW pointer2 \in Nat, pointer < pointer2,
           NEW pubs, NEW d, NEW f, CallSound(u, c, m, pointer, pubs, d, f), c.at \notin TrainSteps,
           MemorySound(m, pointer, d), NEW c2, c2 = Sees(c, pointer2)
    PROVE  CallSound(u, c2, m, pointer2, pubs, d, f)
<1>1. CallShape(c)
    BY DEF CallSound
<1>2. /\ CallShape(c2) /\ c2.at = c.at /\ (c = Nothing => c2 = Nothing)
      /\ c # Nothing => c2 # Nothing /\ c2.kind = c.kind
      /\ c.at \in LoadSteps \ {"load"} => c2.meta = c.meta
      /\ c # Nothing /\ c.kind = "predict" => c2.seen = c.seen \cup {pointer2}
      /\ c.at \in {"scale", "answered"} => c2.head = c.head
      /\ c.at = "answered" => c2.temperature = c.temperature
    BY <1>1, SeesIs
<1>3. CASE c = Nothing
    BY <1>2, <1>3, IdleIsSound
<1>4. CASE c # Nothing
    <2>1. m.generation \in 0 .. pointer /\ m.generation < pointer2
        <3>1. m.generation \in 0 .. pointer
            BY DEF MemorySound
        <3> QED
            BY <3>1
    <2>2. TrainingSound(u, c2, m, pointer2, pubs, d, f)
        <3>1. Indexed(m, pointer2)
            BY <2>1 DEF Indexed
        <3> QED
            BY <1>2, <3>1 DEF TrainingSound, TrainSteps
    <2>3. LoadSound(u, c2, m, pointer2, d)
        <3>1. LoadSound(u, c, m, pointer, d)
            BY DEF CallSound
        <3>2. c.at \in LoadSteps \ {"load"} => c.meta \in 1 .. pointer /\ c2.meta = c.meta /\ c.meta \in 1 .. pointer2
            BY <1>2, <3>1 DEF LoadSound
        <3>3. c.at \in {"rest", "index"} => m.head \in c.meta .. pointer /\ m.head \in c.meta .. pointer2
            BY <3>1, <3>2 DEF LoadSound, LoadSteps
        <3> QED
            BY <1>2, <1>4, <2>1, <3>1, <3>2, <3>3 DEF LoadSound, LoadSteps
    <2>4. PredictionSound(c2, m, pointer2)
        <3>1. PredictionSound(c, m, pointer)
            BY DEF CallSound
        <3>2. ASSUME c.kind = "predict"
              PROVE  /\ pointer2 \in c2.seen /\ c2.seen \subseteq 0 .. pointer2 /\ c2.seen # {pointer2}
                     /\ c.seen \subseteq c2.seen
            <4>1. pointer \in c.seen /\ c.seen \subseteq 0 .. pointer /\ c2.seen = c.seen \cup {pointer2}
                BY <1>2, <1>4, <3>1, <3>2 DEF PredictionSound
            <4>2. \A x \in c.seen : x \in 0 .. pointer2
                BY <4>1
            <4> QED
                BY <4>1, <4>2
        <3>3. SUFFICES ASSUME c.kind = "predict" PROVE PredictionSound(c2, m, pointer2)
            BY <1>2, <1>4 DEF PredictionSound
        <3>4. c.at \in LoadSteps \ {"load"} => c2.meta \in c2.seen
            BY <1>2, <1>4, <3>1, <3>2, <3>3 DEF PredictionSound
        <3>5. /\ c.at \in {"rest", "index"} => m.head \in c2.seen
              /\ c.at \in {"asked", "scale"} => m.head \in c2.seen \cup {0} /\ m.temperature \in c2.seen
              /\ c.at \in {"scale", "answered"} => c2.head \in c2.seen \ {0}
              /\ c.at = "answered" => c2.temperature \in c2.seen
            BY <1>2, <1>4, <3>1, <3>2, <3>3 DEF PredictionSound
        <3> QED
            BY <1>2, <3>2, <3>3, <3>4, <3>5 DEF PredictionSound
    <2> QED
        BY <1>2, <1>4, <2>2, <2>3, <2>4 DEF CallSound
<1> QED
    BY <1>3, <1>4

LEMMA MovePointerKeeps ==
    ASSUME ModelInv, NEW t \in Threads, MovePointer(t)
    PROVE  ModelInv'
<1>1. call[t].at = "published" /\ call[t].at \in TrainSteps \ {"training"} /\ call[t].at \in TrainSteps
    BY DEF MovePointer, ReadyToPoint, AtStep, TrainSteps
<1>2. /\ call[t] # Nothing /\ Mine(t).lock = t /\ flock = t /\ call[t].kind \in {"startup", "retrain"}
      /\ CallSound(t, call[t], Mine(t), servedPointer, published, deployment, flock)
      /\ MemorySound(Mine(t), servedPointer, deployment)
    BY <1>1, TrainingCall
<1>3. call[t].candidate = Len(published) /\ servedPointer < Len(published)
    BY <1>1, <1>2 DEF CallSound, TrainingSound
<1>4. servedPointer \in Nat /\ Len(published) \in Nat
    BY PointerTyped
<1>5. /\ servedPointer' = Len(published)
      /\ call' = [u \in Threads |-> IF u = t THEN [call[t] EXCEPT !.at = "head_of_own"]
                                    ELSE Sees(call[u], call[t].candidate)]
      /\ UNCHANGED <<deployment, published, flock, memory>>
    BY <1>3 DEF MovePointer
<1>6. PICK c2 : c2 = [call[t] EXCEPT !.at = "head_of_own"]
    OBVIOUS
<1>7. /\ call' = [u \in Threads |-> call'[u]] /\ call'[t] = c2
      /\ \A u \in Threads : u # t => call'[u] = Sees(call[u], Len(published))
    <2>1. call' = [u \in Threads |-> call'[u]]
        BY <1>5
    <2>2. call'[t] = c2
        BY <1>5, <1>6
    <2>3. \A u \in Threads : u # t => call'[u] = Sees(call[u], Len(published))
        BY <1>3, <1>5
    <2> QED
        BY <2>1, <2>2, <2>3
<1>8. /\ c2 = [at |-> c2.at, kind |-> c2.kind, data |-> c2.data, candidate |-> c2.candidate]
      /\ c2.at = "head_of_own" /\ c2.kind = call[t].kind /\ c2.candidate = Len(published)
    <2>1. CallShape(call[t])
        BY <1>2 DEF CallSound
    <2>2. /\ c2 = [at |-> "head_of_own", kind |-> call[t].kind, data |-> call[t].data,
                   candidate |-> call[t].candidate]
          /\ c2.at = "head_of_own" /\ c2.kind = call[t].kind /\ c2.data = call[t].data
          /\ c2.candidate = call[t].candidate
        BY <1>1, <1>6, <2>1, MovedCall
    <2> QED
        BY <1>3, <2>2
<1>9. \A p \in Servers : memory[p].generation \in 0 .. servedPointer /\ memory[p].generation < Len(published)
    <2> TAKE p \in Servers
    <2>1. memory[p].generation \in 0 .. servedPointer
        BY DEF ModelInv, MemorySound
    <2> QED
        BY <1>3, <1>4, <2>1
<1>10. \A p \in Servers : MemorySound(memory[p], Len(published), deployment)
    <2> TAKE p \in Servers
    <2>1. MemorySound(memory[p], servedPointer, deployment)
        BY DEF ModelInv
    <2>2. {memory[p].head, memory[p].temperature, memory[p].generation} \subseteq 0 .. servedPointer
        BY <2>1 DEF MemorySound
    <2>3. {memory[p].head, memory[p].temperature, memory[p].generation} \subseteq 0 .. Len(published)
        BY <1>3, <1>4, <2>2
    <2>4. memory[p].generation # Len(published)
        BY <1>4, <1>9
    <2> QED
        BY <2>1, <2>3, <2>4 DEF MemorySound, Indexed
<1>11. CallSound(t, c2, Mine(t), Len(published), published, deployment, flock)
    <2>1. CallShape(c2) /\ c2 # Nothing
        BY <1>2, <1>8, IdleIsSound DEF CallShape, TrainSteps
    <2>2. Mine(t).up = IF c2.kind = "startup" THEN "starting" ELSE "up"
        BY <1>2, <1>8 DEF CallSound
    <2>3. Mine(t).generation < Len(published)
        BY <1>9, LocalModelConstants DEF Mine
    <2>4. TrainingSound(t, c2, Mine(t), Len(published), published, deployment, flock)
        BY <1>2, <1>3, <1>4, <1>8, <2>3 DEF TrainingSound, TrainSteps
    <2>5. LoadSound(t, c2, Mine(t), Len(published), deployment) /\ PredictionSound(c2, Mine(t), Len(published))
        BY <1>2, <1>8 DEF LoadSound, PredictionSound, LoadSteps
    <2> QED
        BY <2>1, <2>2, <2>4, <2>5 DEF CallSound
<1>12. ASSUME NEW u \in Threads, u # t
       PROVE  /\ CallSound(u, call'[u], Mine(u), Len(published), published, deployment, flock)
              /\ call'[u].at = call[u].at /\ (call[u] = Nothing => call'[u] = Nothing)
              /\ call[u] # Nothing => call'[u] # Nothing /\ call'[u].kind = call[u].kind
              /\ call[u].at \in LoadSteps \ {"load"} => call'[u].meta = call[u].meta
              /\ call[u] # Nothing /\ call[u].kind = "predict" => call'[u].seen = call[u].seen \cup {Len(published)}
              /\ CallShape(call[u])
    <2>1. CallSound(u, call[u], Mine(u), servedPointer, published, deployment, flock)
        BY DEF ModelInv
    <2>2. call[u].at \notin TrainSteps /\ CallShape(call[u])
        BY <1>2, <1>12, <2>1 DEF CallSound, TrainingSound
    <2>3. MemorySound(Mine(u), servedPointer, deployment)
        BY LocalModelConstants DEF ModelInv, Mine
    <2>4. PICK e : e = Sees(call[u], Len(published))
        OBVIOUS
    <2>5. CallSound(u, e, Mine(u), Len(published), published, deployment, flock)
        BY <1>3, <1>4, <2>1, <2>2, <2>3, <2>4, SeenCallSound
    <2>6. /\ e.at = call[u].at /\ (call[u] = Nothing => e = Nothing)
          /\ call[u] # Nothing => e # Nothing /\ e.kind = call[u].kind
          /\ call[u].at \in LoadSteps \ {"load"} => e.meta = call[u].meta
          /\ call[u] # Nothing /\ call[u].kind = "predict" => e.seen = call[u].seen \cup {Len(published)}
        BY <2>2, <2>4, SeesIs
    <2>7. call'[u] = e
        BY <1>7, <1>12, <2>4
    <2> QED
        BY <2>2, <2>5, <2>6, <2>7
<1>13. ASSUME NEW u \in Threads, NEW v \in Threads, u # v, ServerOf[u] = ServerOf[v]
       PROVE  CallsAgree(call'[u], call'[v])
    <2>1. CallsAgree(call[u], call[v])
        BY <1>13 DEF ModelInv
    <2>2. CASE u = t \/ v = t
        <3>1. PICK w \in Threads : w # t /\ ServerOf[w] = ServerOf[t] /\ {u, v} = {t, w}
            BY <1>13, <2>2
        <3>2. FreeCall(call[w]) /\ (call[t].kind = "startup" => call[w] = Nothing)
            BY <1>2, <3>1, OthersAreFree
        <3>3. c2.at \notin {"asked", "scale", "metadata", "head", "rest"} /\ c2 # Nothing /\ c2.kind = call[t].kind
            BY <1>8, IdleIsSound
        <3>4. CASE call[w] = Nothing
            <4>1. call'[w] = Nothing
                BY <1>12, <3>1, <3>4
            <4> QED
                BY <3>1, <4>1, IdleAgrees
        <3>5. CASE call[w] # Nothing
            <4>1. c2.kind # "startup"
                BY <3>2, <3>3, <3>5
            <4>2. CallsAgree(c2, call'[w]) /\ CallsAgree(call'[w], c2)
                BY <3>3, <4>1, Agreeable
            <4> QED
                BY <1>7, <3>1, <4>2
        <3> QED
            BY <3>4, <3>5
    <2>3. CASE u # t /\ v # t
        <3>1. ~ (call'[u] # Nothing /\ call'[v] # Nothing /\ call'[u].kind = "startup" /\ call'[v].kind = "startup")
            BY <1>12, <2>1, <2>3 DEF CallsAgree
        <3>2. ASSUME call'[u].at \in {"asked", "scale"}, call'[v].at \in {"metadata", "head", "rest"}
              PROVE  call'[v].meta \in call'[u].seen
            <4>1. call[u].at \in {"asked", "scale"} /\ call[v].at \in {"metadata", "head", "rest"}
                BY <1>12, <2>3, <3>2
            <4>2. call[u] # Nothing /\ CallShape(call[u])
                BY <1>12, <2>3, <4>1, IdleIsSound
            <4>3. call[u].kind = "predict"
                BY <4>1, <4>2, CallKinds
            <4>4. call'[u].seen = call[u].seen \cup {Len(published)} /\ call'[v].meta = call[v].meta
                BY <1>12, <2>3, <4>1, <4>2, <4>3 DEF LoadSteps
            <4>5. call[v].meta \in call[u].seen
                BY <2>1, <4>1 DEF CallsAgree
            <4> QED
                BY <4>4, <4>5
        <3> QED
            BY <3>1, <3>2 DEF CallsAgree
    <2> QED
        BY <2>2, <2>3
<1>14. \A u \in Threads : CallSound(u, call[u], Mine(u), servedPointer, published, deployment, flock)'
    <2> TAKE u \in Threads
    <2>1. CallSound(u, call'[u], Mine(u), Len(published), published, deployment, flock)
        BY <1>7, <1>11, <1>12
    <2> QED
        BY <1>5, <2>1 DEF Mine
<1>15. \A p \in Servers : MemorySound(memory'[p], servedPointer', deployment')
    BY <1>5, <1>10
<1>16. servedPointer' \in 0 .. Len(published')
    BY <1>4, <1>5
<1> QED
    BY <1>5, <1>7, <1>13, <1>14, <1>15, <1>16 DEF ModelInv

LEMMA ServerDiesKeeps ==
    ASSUME ModelInv, NEW p \in Servers, ServerDies(p)
    PROVE  ModelInv'
<1>1. /\ memory = [q \in Servers |-> memory[q]] /\ servedPointer \in Nat
      /\ \A t \in Threads : t # Nobody0 /\ ServerOf[t] \in Servers
    BY PointerTyped, LocalModelConstants DEF ModelInv, Nobody0
<1>2. /\ memory' = [memory EXCEPT ![p] = Down]
      /\ call' = [t \in Threads |-> IF ServerOf[t] = p THEN Nothing ELSE call[t]]
      /\ flock' = (IF flock # Nobody0 /\ ServerOf[flock] = p THEN Nobody0 ELSE flock)
      /\ UNCHANGED <<deployment, published, servedPointer>>
    BY DEF ServerDies
<1>3. /\ memory' = [q \in Servers |-> memory'[q]] /\ memory'[p] = Down
      /\ \A q \in Servers : q # p => memory'[q] = memory[q]
    BY <1>1, <1>2
<1>4. /\ call' = [t \in Threads |-> call'[t]]
      /\ \A t \in Threads : call'[t] = IF ServerOf[t] = p THEN Nothing ELSE call[t]
    BY <1>2
<1>5. \A q \in Servers : MemorySound(memory'[q], servedPointer, deployment)
    BY <1>1, <1>3, DownIsSound DEF ModelInv
<1>6. \A t \in Threads : CallSound(t, call'[t], memory'[ServerOf[t]], servedPointer, published, deployment, flock')
    <2> TAKE t \in Threads
    <2>1. CASE ServerOf[t] = p
        BY <1>4, <2>1, IdleIsSound
    <2>2. CASE ServerOf[t] # p
        <3>1. call'[t] = call[t] /\ memory'[ServerOf[t]] = Mine(t)
            BY <1>1, <1>3, <1>4, <2>2 DEF Mine
        <3>2. CallSound(t, call[t], Mine(t), servedPointer, published, deployment, flock)
            BY DEF ModelInv
        <3>3. CASE call[t].at \in TrainSteps
            <4>1. flock = t
                BY <3>2, <3>3 DEF CallSound, TrainingSound
            <4>2. flock' = flock
                BY <1>2, <2>2, <4>1
            <4> QED
                BY <3>1, <3>2, <4>2
        <3>4. CASE call[t].at \notin TrainSteps
            BY <3>1, <3>2, <3>4, OutsideTraining
        <3> QED
            BY <3>3, <3>4
    <2> QED
        BY <2>1, <2>2
<1>7. \A t, u \in Threads : t # u /\ ServerOf[t] = ServerOf[u] => CallsAgree(call'[t], call'[u])
    BY <1>4, IdleAgrees DEF ModelInv
<1>8. \A t \in Threads : CallSound(t, call[t], Mine(t), servedPointer, published, deployment, flock)'
    BY <1>2, <1>6 DEF Mine
<1>9. flock' \in Threads \cup {Nobody0}
    BY <1>2 DEF ModelInv
<1> QED
    BY <1>2, <1>3, <1>4, <1>5, <1>7, <1>8, <1>9 DEF ModelInv

\* Nothing runs and nothing is published before the settings are there.
LEMMA DeployKeeps ==
    ASSUME ModelInv, Deploy
    PROVE  ModelInv'
<1>1. PICK d : deployment' = [chosen |-> TRUE, production |-> d.production, profile |-> d.profile, gate |-> d.gate,
                              expired |-> FALSE]
    BY DEF Deploy
<1>2. /\ ~ deployment.chosen /\ UNCHANGED <<published, servedPointer, flock, memory, call>>
      /\ \A t \in Threads : ServerOf[t] \in Servers
    BY LocalModelConstants DEF Deploy
<1>3. DeploymentShape(deployment') /\ deployment'.chosen
    <2>1. PICK no, yes : no = FALSE /\ yes = TRUE
        OBVIOUS
    <2>2. deployment' = [chosen |-> yes, production |-> d.production, profile |-> d.profile, gate |-> d.gate,
                         expired |-> no]
        BY <1>1, <2>1
    <2>3. /\ deployment'.chosen = yes /\ deployment'.production = d.production /\ deployment'.gate = d.gate
          /\ deployment'.profile = d.profile /\ deployment'.expired = no
        BY <2>2
    <2>4. deployment' = [chosen |-> TRUE, production |-> deployment'.production, profile |-> deployment'.profile,
                         gate |-> deployment'.gate, expired |-> deployment'.expired]
        BY <2>1, <2>2, <2>3
    <2> QED
        BY <2>1, <2>3, <2>4 DEF DeploymentShape
<1>4. \A t \in Threads : call[t] = Nothing
    BY <1>2, CallersAreUp
<1>5. DOMAIN published = {} /\ servedPointer = 0
    <2>1. DOMAIN published = {}
        BY <1>2 DEF ModelInv, PublishedSound, FitToPublish
    <2> QED
        BY <2>1, PointerTyped
<1>6. PublishedSound(published', deployment')
    BY <1>2, <1>5 DEF PublishedSound, ModelInv
<1>7. \A p \in Servers : MemorySound(memory'[p], servedPointer', deployment')
    BY <1>2, <1>3, <1>5 DEF ModelInv, MemorySound
<1>8. \A t \in Threads : CallSound(t, call[t], Mine(t), servedPointer, published, deployment, flock)'
    BY <1>2, <1>4, IdleIsSound DEF Mine
<1> QED
    BY <1>2, <1>3, <1>6, <1>7, <1>8 DEF ModelInv

LEMMA ApprovalExpiresKeeps ==
    ASSUME ModelInv, ApprovalExpires
    PROVE  ModelInv'
<1>1. PICK yes : yes = TRUE
    OBVIOUS
<1>2. /\ deployment' = [deployment EXCEPT !.expired = yes] /\ deployment.chosen
      /\ UNCHANGED <<published, servedPointer, flock, memory, call>>
    BY <1>1 DEF ApprovalExpires
<1>3. deployment = [chosen |-> TRUE, production |-> deployment.production, profile |-> deployment.profile,
                    gate |-> deployment.gate, expired |-> deployment.expired]
    <2>1. DeploymentShape(deployment)
        BY DEF ModelInv
    <2>2. deployment # [chosen |-> FALSE]
        BY <1>2
    <2> QED
        BY <2>1, <2>2 DEF DeploymentShape
<1>4. PICK d : d = deployment'
    OBVIOUS
<1>5. d = [chosen |-> yes, production |-> deployment.production, profile |-> deployment.profile,
           gate |-> deployment.gate, expired |-> yes]
    BY <1>1, <1>2, <1>3, <1>4
<1>6. /\ d.chosen = yes /\ d.production = deployment.production /\ d.profile = deployment.profile
      /\ d.gate = deployment.gate /\ d.expired = yes
    BY <1>5
<1>7. d = [chosen |-> TRUE, production |-> d.production, profile |-> d.profile, gate |-> d.gate, expired |-> d.expired]
    BY <1>1, <1>5, <1>6
<1>8. d.chosen /\ DeploymentShape(d)
    BY <1>1, <1>6, <1>7 DEF DeploymentShape
<1>9. \A data, gate : FitToPublish(data, gate, deployment) => FitToPublish(data, gate, d)
    BY <1>6, <1>8 DEF FitToPublish
<1>10. PublishedSound(published, d)
    BY <1>9 DEF ModelInv, PublishedSound
<1>11. \A p \in Servers : MemorySound(memory[p], servedPointer, d)
    BY <1>6, <1>8 DEF ModelInv, MemorySound
<1>12. ASSUME NEW t \in Threads
       PROVE  CallSound(t, call[t], Mine(t), servedPointer, published, d, flock)
    <2>1. CallSound(t, call[t], Mine(t), servedPointer, published, deployment, flock)
        BY DEF ModelInv
    <2>2. TrainingSound(t, call[t], Mine(t), servedPointer, published, d, flock)
        BY <1>6, <1>9, <2>1 DEF CallSound, TrainingSound
    <2>3. LoadSound(t, call[t], Mine(t), servedPointer, d)
        BY <1>6, <2>1 DEF CallSound, LoadSound
    <2> QED
        BY <2>1, <2>2, <2>3 DEF CallSound
<1>13. \A t \in Threads : CallSound(t, call[t], Mine(t), servedPointer, published, deployment, flock)'
    BY <1>2, <1>4, <1>12 DEF Mine
<1> QED
    BY <1>2, <1>4, <1>8, <1>10, <1>11, <1>13 DEF ModelInv

LEMMA ModelFrame ==
    ASSUME ModelInv, UNCHANGED <<deployment, published, servedPointer, flock, memory, call>>
    PROVE  ModelInv'
BY DEF ModelInv, Mine

LEMMA ModelStepSound ==
    ASSUME ModelInv, ModelNext
    PROVE  ModelInv'
<1>1. CASE Deploy
    BY <1>1, DeployKeeps
<1>2. CASE ApprovalExpires
    BY <1>2, ApprovalExpiresKeeps
<1>3. CASE AddExamples
    BY <1>3, ModelFrame DEF AddExamples
<1>4. CASE ClearExamples
    BY <1>4, ModelFrame DEF ClearExamples
<1>5. ASSUME NEW p \in Servers, ServerDies(p) PROVE ModelInv'
    BY <1>5, ServerDiesKeeps
<1>6. ASSUME NEW t \in Threads,
             \/ StartProcess(t) \/ Retrain(t) \/ AcquireTraining(t) \/ Judge(t) \/ PublishGeneration(t)
             \/ MovePointer(t) \/ AdoptHead(t) \/ AdoptRest(t) \/ AdoptIndex(t)
      PROVE  ModelInv'
    <2>1. CASE StartProcess(t)
        BY <2>1, StartProcessKeeps
    <2>2. CASE Retrain(t)
        BY <2>2, RetrainKeeps
    <2>3. CASE AcquireTraining(t)
        BY <2>3, AcquireTrainingKeeps
    <2>4. CASE Judge(t)
        BY <2>4, JudgeKeeps
    <2>5. CASE PublishGeneration(t)
        BY <2>5, PublishKeeps
    <2>6. CASE MovePointer(t)
        BY <2>6, MovePointerKeeps
    <2>7. CASE AdoptHead(t)
        BY <2>7, AdoptHeadKeeps
    <2>8. CASE AdoptRest(t)
        BY <2>8, AdoptRestKeeps
    <2>9. CASE AdoptIndex(t)
        BY <2>9, AdoptIndexKeeps
    <2> QED
        BY <1>6, <2>1, <2>2, <2>3, <2>4, <2>5, <2>6, <2>7, <2>8, <2>9
<1>7. ASSUME NEW t \in Threads,
             \/ LoadMetadata(t) \/ ValidateChecksums(t) \/ LoadHead(t) \/ LoadRest(t) \/ LoadIndex(t)
             \/ Predict(t) \/ RefreshIfGenerationChanged(t) \/ RefuseBlank(t) \/ ComputeLogits(t)
             \/ ScaleAndAnswer(t) \/ Answered(t)
      PROVE  ModelInv'
    <2>1. CASE LoadMetadata(t)
        BY <2>1, LoadMetadataKeeps
    <2>2. CASE ValidateChecksums(t)
        BY <2>2, ValidateChecksumsKeeps
    <2>3. CASE LoadHead(t)
        BY <2>3, LoadHeadKeeps
    <2>4. CASE LoadRest(t)
        BY <2>4, LoadRestKeeps
    <2>5. CASE LoadIndex(t)
        BY <2>5, LoadIndexKeeps
    <2>6. CASE Predict(t)
        BY <2>6, PredictKeeps
    <2>7. CASE RefreshIfGenerationChanged(t)
        BY <2>7, RefreshKeeps
    <2>8. CASE RefuseBlank(t)
        BY <2>8, RefuseBlankKeeps
    <2>9. CASE ComputeLogits(t)
        BY <2>9, ComputeLogitsKeeps
    <2>10. CASE ScaleAndAnswer(t)
        BY <2>10, ScaleAndAnswerKeeps
    <2>11. CASE Answered(t)
        BY <2>11, AnsweredKeeps
    <2> QED
        BY <1>7, <2>1, <2>2, <2>3, <2>4, <2>5, <2>6, <2>7, <2>8, <2>9, <2>10, <2>11
<1> QED
    BY <1>1, <1>2, <1>3, <1>4, <1>5, <1>6, <1>7 DEF ModelNext

\* The generation that the pointer names was trained on reviewed data that
\* contradict neither each other nor the evaluation, and passed a gate that the
\* settings allow; a process that is not loading has its head, temperature and
\* index together; and no prediction, whatever is trained, loaded and lost around
\* it, is made with a head or a temperature that was not current meanwhile
\* (LocalModel, local_model.py). For any number of processes and threads.
THEOREM ServedModelSound == ModelSpec => [](ModelTypeOK /\ ServedModelIsSound)
<1>1. ModelInit => ModelInv
    BY ModelInitSound
<1>2. ModelInv /\ [ModelNext]_modelVars => ModelInv'
    BY ModelStepSound, ModelFrame DEF modelVars
<1>3. ModelInv => ModelTypeOK /\ ServedModelIsSound
    BY ModelInvImplies
<1> QED
    BY <1>1, <1>2, <1>3, PTL DEF ModelSpec
=============================================================================
