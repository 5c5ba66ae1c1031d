SPECIFICATION Spec

CONSTANTS
    MaxTurns = 2
    Conversations = {"c"}
    Thread <- MCThread
    Urls <- MCUrls
    Accepts <- MCAccepts
    Configs <- MCConfigs
    Enabled = {"read_source"}
    Transcripts <- MCTranscripts
    MaxSteps = 1
    MaxInput = 2
    MaxOutput = 1
    Budget = 3
    Faults = {"append", "transport", "status", "tool", "panic", "index", "crash"}
    MaxFaults = 1
    Losable = {"end"}

INVARIANTS
    TypeOK
    EveryCallIsAnswered
    OverrunIsOneReply
    ChargedOnce
    LearntOfItsEndpoint

PROPERTIES
    ShowsTheLog
    NothingIsUnlearnt
    ReplaysTheEnded

CHECK_DEADLOCK FALSE
