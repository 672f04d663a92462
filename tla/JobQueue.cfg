CONSTANTS
    Keys = {k1, k2}
    Requests = {r1, r2}
    Workers = {w1, w2}
    MaxQueued = 1
    MaxAttempts = 2
    Disruptions = 2
    None = None
SPECIFICATION FairSpec
INVARIANTS
    TypeOK
    AnswersAreDurable
    OneHandlerUndisturbed
PROPERTIES
    LedgerSpec
    LatestClaimDecides
    JobsAreResolved
