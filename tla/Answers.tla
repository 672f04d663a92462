------------------------------ MODULE Answers ------------------------------
(***************************************************************************)
(* The two halves of an answer: the hits that are retrieved for it, while   *)
(* documents are replaced, and what is generated from any hits, while       *)
(* requests share a circuit breaker.                                       *)
(***************************************************************************)
EXTENDS Retrieval, Generation

AnswersSpec == RetrievalSpec /\ GenerationSpec

\* Answers rest on hits of one moment and on the gates (hybrid.py, adapters.py).
AnswersAreSupported == HitsWereCurrent /\ AnswersAreGrounded
=============================================================================
