SPECIFICATION Spec

CONSTANTS
    MaxTurns = 1
    MaxCalls = 2
    MaxEdits = 1
    MaxFaults = 1
    Envs <- MCEnvs
    Flags <- MCFlags
    Files <- MCFiles
    KeyFiles <- MCKeyFiles
    KeyStates <- MCKeyStates
    Builds <- MCBuilds
    Library <- MCLibrary
    Envelopes <- MCEnvelopes
    Reaches <- MCReaches
    Web <- MCWeb

INVARIANTS
    TypeOK
    HitsAreAnswered
    CutIsSaid

PROPERTIES
    NothingUnasked
    CallsReturn

CHECK_DEADLOCK FALSE
