SPECIFICATION FairSpec
CONSTANTS
    MaxOpens = 2
    MaxCommands = 2
    MaxFaults = 2
INVARIANTS
    TypeOK
    OneAtATime
    TerminalIsTerminal
    CleanupIsWhole
    FailuresAreSeen
PROPERTIES
    EveryoneGetsAway
    KeepsPromise
