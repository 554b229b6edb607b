SPECIFICATION Spec
CONSTANTS
    Kinds = {"Pro"}
    Mode = "Periodic"
    Periods = {0, 8}
    Buses <- MCBuses
    Identities <- MCIdentities
    Strangers <- MCStrangers
    Consoles <- MCConsoles
    Keys = {"k1"}
    OpenErrors <- MCOpenErrors
    BeginErrors <- MCBeginErrors
    PollErrors <- MCPollErrors
    MaxCalls = 4
    MaxFaults = 1
    MaxChanges = 1
INVARIANTS
    TypeOK
    ErrorTellsCause
    PortReleased
PROPERTIES
    ProfileIsKept
    PairsOnlyWithoutBond
