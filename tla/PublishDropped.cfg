SPECIFICATION Spec

CONSTANTS
    listing = listing
    stream = stream
    MaxBuilds = 2
    Chains = {listing, stream}
    Docs <- TwoChains
    MaxRefusals = 1
    Faults = {"resume"}

INVARIANT
    DroppedIsForgotten

CHECK_DEADLOCK FALSE
