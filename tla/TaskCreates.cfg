\* Two task identities, keyed and plain creates, their retries and deletes.
CONSTANTS
    Tasks = {t1, t2}
    Operations = {o1}
    Payloads = {p1}
    Schedules = {}
    Users = {}
    Redacted = Redacted
    None = None
    TransientAborts = FALSE
    MaxRevision = 2
    MaxInFlight = 2
SPECIFICATION Spec
SYMMETRY TaskSymmetry
INVARIANTS
    OneTaskPerOperation
    CreatesAreAnswered
