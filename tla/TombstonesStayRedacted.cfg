CONSTANTS
    Tasks = {t1}
    Operations = {o1}
    Payloads = {p1}
    Schedules = {s1}
    Users = {}
    Redacted = Redacted
    None = None
    TransientAborts = FALSE
    MaxRevision = 4
    MaxInFlight = 1
SPECIFICATION Spec
INVARIANT TombstonesStayRedacted
