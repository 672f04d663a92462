------------------------- MODULE MCMemoryRepository -------------------------
(* Small instances of MemoryRepository for TLC.                            *)
EXTENDS MemoryRepository, TLC

CONSTANTS M1, M2, T, A, B

Says(action, id, content, replacement, expires) ==
    [action |-> action, id |-> id, topic |-> T, content |-> content,
     replacement |-> replacement, expires |-> expires]

\* A memory, its rival on the same topic and its successor under the rival's
\* id, the successor's end and the first one's.
Lifecycle == {Says("create", M1, A, M2, 1), Says("supersede", M1, B, M2, 0),
              Says("delete", M1, Redacted, M1, 0), Says("revoke", M2, Redacted, M2, 0)}

Withdrawal == {Says("create", M1, A, M2, 1), Says("revoke", M1, Redacted, M1, 0)}

AnyKeyAnyWorker == Permutations(Keys) \cup Permutations(Workers)
=============================================================================
