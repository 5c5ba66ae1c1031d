SPECIFICATION Spec

CONSTANTS
    listing = listing
    stream = stream
    MaxBuilds = 2
    Chains = {listing, stream}
    Docs <- TwoChains
    MaxRefusals = 0
    Faults = {}

INVARIANT
    ShowsLatest

CHECK_DEADLOCK FALSE
