----------------------------- MODULE MCJobQueue -----------------------------
(* Small instances of JobQueue for TLC.                                    *)
EXTENDS JobQueue, TLC

\* No definition singles out a key, a request or a worker.
QueueSymmetry == Permutations(Keys) \cup Permutations(Requests) \cup Permutations(Workers)
=============================================================================
