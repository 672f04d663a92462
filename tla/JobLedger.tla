----------------------------- MODULE JobLedger ------------------------------
(***************************************************************************)
(* What the durable job queue promises its callers: an idempotency key     *)
(* stands for one request for ever, and that request gets one outcome.     *)
(* JobQueue implements it.                                                 *)
(***************************************************************************)
EXTENDS Naturals, FiniteSets

CONSTANTS
    Keys,      \* idempotency keys
    Requests,  \* distinguishable commands: job type and canonical payload
    MaxQueued, \* how many commands may be open at a time
    None       \* nothing recorded

VARIABLE entries   \* entries[k]: the command of key k and what became of it

Outcomes == {"completed", "dead_letter"}

Entry == [request : Requests, outcome : Outcomes \cup {"open"}]

Init == entries = [k \in Keys |-> None]

OpenEntries == {k \in Keys : entries[k] # None /\ entries[k].outcome = "open"}

\* A new key is accepted while there is room.
Accept(k, r) ==
    /\ entries[k] = None
    /\ Cardinality(OpenEntries) < MaxQueued
    /\ entries' = [entries EXCEPT ![k] = [request |-> r, outcome |-> "open"]]

\* An open command is completed or given up, once.
Resolve(k, outcome) ==
    /\ k \in OpenEntries
    /\ entries' = [entries EXCEPT ![k] = [request |-> entries[k].request,
                                          outcome |-> outcome]]

Next ==
    \E k \in Keys : \/ \E r \in Requests : Accept(k, r)
                    \/ \E outcome \in Outcomes : Resolve(k, outcome)

Spec == Init /\ [][Next]_entries
=============================================================================
