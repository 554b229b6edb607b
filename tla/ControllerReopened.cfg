SPECIFICATION Spec
CONSTANTS
    MaxOpens = 2
    MaxCommands = 2
    MaxFaults = 2
INVARIANTS
    NoWorkerNoLifecycle
