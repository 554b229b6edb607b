SPECIFICATION FairSpec
CONSTANTS
    Commands <- MCCommands
    Mode = "Direct"
    Buttons = {"a"}
    MCButtons = {"a"}
    MCOps = {"pair", "tap"}
    OutputReports = {"mode_full", "lights_on"}
    Period = 2
    ReplyHoldoff = 1
    BootstrapRetry = 2
    PollBatches = 2
    TimerModulus = 4
    SessionModulus = 3
    Shutdowns = {"plain"}
    Pipelined = FALSE
    StaleFailure = FALSE
    MaxTime = 3
    MaxEvents = 5
    MaxCommands = 2
    MaxFaults = 1
    MaxQueue = 2
    PairTimeout = 2
    TapTime = 1
    MaxInstant = 1000
    MaxSkipped = 1000
PROPERTIES
    NobodyWaitsForever
