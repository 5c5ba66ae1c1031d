SPECIFICATION FairSpec

CONSTANTS
    r1 = r1
    r2 = r2
    Runs = {r1, r2}
    Faults = {"spawn", "wait", "leave"}

INVARIANTS
    TypeOK
    CountExact
    CountedWhileUp
    NothingOutlives
    SignalsItsOwn
    NoLostWakeup
    EndsTheTree

PROPERTIES
    RunsReturn

CHECK_DEADLOCK FALSE
