SPECIFICATION Spec

CONSTANTS
    s1 = s1
    s2 = s2
    Streams = {s1, s2}
    Samples = {s1}
    MaxRuns = 2
    Decisions = TRUE
    Offers <- RebuildOffers
    Faults = {}

INVARIANTS
    RefusedLeavesNoTrace

CHECK_DEADLOCK FALSE
