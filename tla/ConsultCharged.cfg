SPECIFICATION Spec

CONSTANTS
    MaxTurns = 2
    Conversations = {"c"}
    Thread <- MCThread
    Urls <- MCUrls
    Accepts <- MCAccepts
    Configs <- MCConfigs
    Enabled = {"read_source"}
    Transcripts <- MCTranscripts
    MaxSteps = 1
    MaxInput = 2
    MaxOutput = 1
    Budget = 3
    Faults = {}
    MaxFaults = 0
    Losable = {"end"}

INVARIANT
    RunningTotal

CHECK_DEADLOCK FALSE
