\* One request at a time: a memory is created and revoked, and the revocation repeated.
CONSTANTS
    M1 = M1
    M2 = M2
    T = T
    A = A
    B = B
    Ids = {M1, M2}
    Topics = {T}
    Contents = {A, B}
    Intents <- Withdrawal
    Keys = {k1, k2, k3}
    Workers = {w1}
    Exact = {FALSE}
    Ttl = 2
    Horizon = 1
    Redacted = Redacted
    None = None
SPECIFICATION Spec
SYMMETRY AnyKeyAnyWorker
INVARIANT ReplaysReturnTheResult
CHECK_DEADLOCK FALSE
