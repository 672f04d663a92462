----------------------------- MODULE Evaluation -----------------------------
(***************************************************************************)
(* What evaluation and activation rest on: the frozen sets of the          *)
(* classifier and of retrieval, the runs on the holdout, the reports and    *)
(* the receipts of private answers. People and tools work on each of the   *)
(* four at their own pace.                                                 *)
(***************************************************************************)
EXTENDS Evidence, Review, Holdout, Activation

EvaluationSpec == EvidenceSpec /\ ReviewSpec /\ HoldoutSpec /\ ActivationSpec

\* What evaluation and activation rest on was witnessed as the records say
\* (evaluation.py, human_review.py, holdout_owner_acceptance.py,
\* private_rag_activation.py).
EvaluationIsWitnessed == EvidenceIsSound /\ ReviewIsSound /\ HoldoutIsSound /\ ActivationIsBound
=============================================================================
