SPECIFICATION Spec

CONSTANTS
    s1 = s1
    s2 = s2
    Streams = {s1, s2}
    Samples = {s1}
    MaxRuns = 1
    Decisions = TRUE
    Offers <- AnswerOffers
    Faults = {"panic"}

INVARIANTS
    RefusedLeavesNoTrace

CHECK_DEADLOCK FALSE
