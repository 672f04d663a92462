\* One execution, two edits: the echo of the first write is applied after the second.
CONSTANTS
    Executions = {x1}
    MaxAttempts = 1
    MaxTexts = 2
    MaxRevision = 3
    MaxEvents = 2
    Disruptions = 0
    None = None
SPECIFICATION Spec
PROPERTIES
    EditsAreKept
CHECK_DEADLOCK FALSE
