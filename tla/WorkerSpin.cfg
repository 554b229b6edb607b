SPECIFICATION Spec
CONSTANTS
    Commands <- MCCommands
    Mode = "Periodic"
    Buttons = {"a"}
    MCButtons = {"a"}
    MCOps = {"pair", "press", "tap"}
    OutputReports = {"plain", "mode_full", "lights_on"}
    Period = 2
    ReplyHoldoff = 1
    BootstrapRetry = 2
    PollBatches = 2
    TimerModulus = 4
    SessionModulus = 3
    Shutdowns = {"neutral", "dropped"}
    Pipelined = FALSE
    StaleFailure = FALSE
    MaxTime = 4
    MaxEvents = 6
    MaxCommands = 2
    MaxFaults = 1
    MaxQueue = 3
    PairTimeout = 3
    TapTime = 1
    MaxInstant = 1000
    MaxSkipped = 1000
INVARIANTS
    NoBusyLoop
