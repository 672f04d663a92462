-------------------------- MODULE MCTaskRepository --------------------------
(* Small instances of TaskRepository for TLC.                              *)
EXTENDS TaskRepository, TLC

\* No definition singles out one task identity.
TaskSymmetry == Permutations(Tasks)
=============================================================================
