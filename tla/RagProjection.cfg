\* Two workers, five commands in any order and any number of times, uploads in
\* two batches, and an outage or a death at any moment.
CONSTANTS
    Workers = {w1, w2}
    Events <- RacingEvents
    Contents <- AllContents
    Empty = ""
    Batches = 2
    Faults = 1
    None = None
SPECIFICATION Spec
SYMMETRY AnyWorker
INVARIANTS
    TypeOK
    CanonicalBeforeVector
    SettledIsWhole
    CompletedIsStored
    RefusalIsExplained
CHECK_DEADLOCK FALSE
