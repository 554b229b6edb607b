SPECIFICATION Spec
CONSTANTS
    Commands <- MCCommands
    Mode = "Direct"
    Buttons = {"a"}
    MCButtons = {"a"}
    MCOps = {"reconnect", "press", "release", "tap"}
    OutputReports = {"mode_full", "mode_other", "lights_on"}
    Period = 2
    ReplyHoldoff = 1
    BootstrapRetry = 2
    PollBatches = 2
    TimerModulus = 4
    SessionModulus = 3
    Shutdowns = {"neutral", "dropped"}
    Pipelined = TRUE
    StaleFailure = FALSE
    MaxTime = 3
    MaxEvents = 6
    MaxCommands = 3
    MaxFaults = 1
    MaxQueue = 3
    PairTimeout = 2
    TapTime = 1
    MaxInstant = 1000
    MaxSkipped = 1000
INVARIANTS
    SleepsAndWakes
    ClosedAnswersAll
    InputIsHeld
    LinkIsReal
