SPECIFICATION Spec

CONSTANTS
    s1 = s1
    s2 = s2
    Streams = {s1, s2}
    Samples = {s1}
    MaxRuns = 3
    Decisions = TRUE
    Offers <- SyncOffers
    Faults = {}

INVARIANTS
    TypeOK
    RefusedLeavesNoTrace
    SavedStays
    SavedIsCurrent
    StageAgrees

PROPERTIES
    NeverWorse

CHECK_DEADLOCK FALSE
