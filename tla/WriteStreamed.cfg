SPECIFICATION FairSpec

CONSTANTS
    s1 = s1
    s2 = s2
    Streams = {s1, s2}
    Samples = {s1}
    MaxRuns = 2
    Decisions = TRUE
    Offers <- StreamedOffers
    Faults = {"io", "panic"}

INVARIANTS
    GateExact
    JudgedOnItsText
    LatestStands
    RestoredExactly

PROPERTIES
    RunsEnd

CHECK_DEADLOCK FALSE
