SPECIFICATION PathSpec
CONSTANTS
    Setups <- MCSetups
    Colors <- MCColors
    DeviceAddress <- MCAddress
    Requested <- MCRequested
    OutputReports <- MCOutputReports
    Plain <- MCPlain
    StickUnit = 8
    Axis = 2
    MsPerTick = 1000
    ReplyHoldoff = 1
    TimerModulus = 2
    MaxInstant = 4
    MaxSkipped = 1
    MaxPeriod = 2
    Horizon = 3
    MaxWork = 2
INVARIANTS
    PathTypeOK
    ReportsDecode
    OrientationIsShown
    SettingsAreAcknowledged
    RepliesAnswer
PROPERTIES
    Paced
