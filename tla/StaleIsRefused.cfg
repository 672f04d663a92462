CONSTANTS
    Tasks = {t1}
    Operations = {o1}
    Payloads = {p1}
    Schedules = {s1}
    Users = {}
    Redacted = Redacted
    None = None
    TransientAborts = TRUE
    MaxRevision = 3
    MaxInFlight = 2
SPECIFICATION Spec
INVARIANT StaleIsRefused
