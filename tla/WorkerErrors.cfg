SPECIFICATION Spec
CONSTANTS
    Buttons = {"A", "B"}
    Commands <- MCCommands
    SendErrors = {"SendRejected", "Closed"}
    PollErrors = {"InvalidKeyStore", "EventQueueOverflow"}
    StartErrors = {"NoBond", "InvalidKeyStore", "Closed"}
    OpenErrors = {"AdapterIdentityRecoveryRequired", "OpenFailed"}
    ShutErrors = {"DrainTimedOut", "CloseFailed"}
    MaxCommands = 3
    MaxFaults = 3
INVARIANTS
    FailuresAreTold
    FatalErrorsEnd
PROPERTIES
    TapLetsGo
