SPECIFICATION FairSpec

CONSTANTS
    listing = listing
    stream = stream
    MaxBuilds = 2
    Chains = {listing, stream}
    Docs <- TwoChains
    MaxRefusals = 1
    Faults = {"pointer", "resume", "link"}

INVARIANTS
    TypeOK
    LandsInOrder
    NewestReaches
    ReplayedFirst
    DroppedIsForgottenOrUnresumed

PROPERTIES
    PublicationsEnd

CHECK_DEADLOCK FALSE
