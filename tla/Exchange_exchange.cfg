SPECIFICATION FairSpec
CONSTANTS
    Kinds = {"bare", "upload", "give"}
    Parts = 4
    Limited = TRUE
    Window = 2
    HighWater = 2
    Chunks = 3
    ResponseWindow = 2
    Timeout = TRUE
    Answers = {"plain", "stream", "ask"}
    LeavesEarly = TRUE
    Awaits = TRUE
    SourceFails = TRUE
    IpcBusy = TRUE
    Exits = TRUE
INVARIANTS UploadPaced LeaseOutlivesConnection NothingForgotten
PROPERTIES WorkerIsGivenBack ResponseIsDelivered UploadIsDelivered
CHECK_DEADLOCK FALSE
