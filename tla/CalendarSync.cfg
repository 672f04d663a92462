\* Two executions, two edits on the two sides with their writes, one disruption.
CONSTANTS
    Executions = {x1, x2}
    MaxAttempts = 2
    MaxTexts = 2
    MaxRevision = 3
    MaxEvents = 2
    Disruptions = 1
    None = None
SPECIFICATION FairSpec
INVARIANTS
    TypeOK
    BindingIsTruthful
PROPERTIES
    GoogleEditsSurvive
    LatestLeaseDelivers
    EventsAreResolved
CHECK_DEADLOCK FALSE
