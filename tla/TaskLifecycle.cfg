\* One task: edits, lifecycle moves, answers, calendar writes and final deletes, racing.
CONSTANTS
    Tasks = {t1}
    Operations = {o1}
    Payloads = {p1}
    Schedules = {s1}
    Users = {u1}
    Redacted = Redacted
    None = None
    TransientAborts = TRUE
    MaxRevision = 2
    MaxInFlight = 2
SPECIFICATION Spec
INVARIANTS
    TypeOK
    InFlightConsistent
    EventsAreOfThePast
PROPERTIES
    LedgerSpec
    DeletionIsFinal
