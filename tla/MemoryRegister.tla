--------------------------- MODULE MemoryRegister ---------------------------
(***************************************************************************)
(* What confirmed memory promises its user: a register of memories that    *)
(* change one confirmed step at a time. At most one memory per subject is  *)
(* active; replacing it retires the old and admits the new in one step;    *)
(* what was withdrawn or erased is not active again under the same entry;  *)
(* entries disappear only when they are dropped for good.                  *)
(***************************************************************************)
CONSTANTS
    Memories, \* memory ids
    Topics    \* conflict keys

VARIABLES
    status, \* status[m]: the stage of memory m
    topic   \* topic[m]: its subject, if there is one

Retired == {"superseded", "consent_revoked", "deleted"}

Types ==
    /\ status \in [Memories -> {"absent", "active"} \cup Retired]
    /\ topic \in [Memories -> Topics]

Active(t) == {m \in Memories : status[m] = "active" /\ topic[m] = t}

Init == status = [m \in Memories |-> "absent"] /\ topic \in [Memories -> Topics]

Remember(m) ==
    /\ status[m] = "absent"
    /\ \E t \in Topics : /\ Active(t) = {}
                         /\ topic' = [topic EXCEPT ![m] = t]
    /\ status' = [status EXCEPT ![m] = "active"]

Replace(m, n) ==
    /\ m # n
    /\ status[m] = "active" /\ status[n] = "absent"
    /\ status' = [status EXCEPT ![m] = "superseded", ![n] = "active"]
    /\ topic' = [topic EXCEPT ![n] = topic[m]]

Retire(m) ==
    /\ \/ /\ status[m] = "active"
          /\ \E s \in {"consent_revoked", "deleted"} : status' = [status EXCEPT ![m] = s]
       \/ /\ status[m] \in {"superseded", "consent_revoked"}
          /\ status' = [status EXCEPT ![m] = "deleted"]
    /\ UNCHANGED topic

\* A decision about an entry that was dropped in the meantime is recorded.
Record(m) ==
    /\ status[m] = "absent"
    /\ \E s \in {"consent_revoked", "deleted"} : status' = [status EXCEPT ![m] = s]
    /\ \E t \in Topics : topic' = [topic EXCEPT ![m] = t]

Drop(m) ==
    /\ status[m] # "absent"
    /\ status' = [status EXCEPT ![m] = "absent"]
    /\ \E t \in Topics : topic' = [topic EXCEPT ![m] = t]

Next == \E m \in Memories : \/ Remember(m) \/ Retire(m) \/ Record(m) \/ Drop(m)
                            \/ \E n \in Memories : Replace(m, n)

Spec == Init /\ [][Next]_<<status, topic>>
=============================================================================
