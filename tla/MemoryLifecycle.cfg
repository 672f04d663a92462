\* Two requests at a time over two memories of one topic.
CONSTANTS
    M1 = M1
    M2 = M2
    T = T
    A = A
    B = B
    Ids = {M1, M2}
    Topics = {T}
    Contents = {A, B}
    Intents <- Lifecycle
    Keys = {k1, k2, k3}
    Workers = {w1, w2}
    Exact = {TRUE}
    Ttl = 2
    Horizon = 1
    Redacted = Redacted
    None = None
SPECIFICATION Spec
SYMMETRY AnyKeyAnyWorker
INVARIANTS
    WithdrawnStaysWithdrawn
    RecordsAreWhole
    SearchServesTheLiving
    SynchronizedIsExact
PROPERTY RegisterSpec
CHECK_DEADLOCK FALSE
