SPECIFICATION Spec
CONSTANTS
    Paths <- MCPaths
    Absent = Absent
    Unreadable = Unreadable
    Empty = Empty
    Written <- MCWritten
    ConnectionErrors = {"ConnectionFailed", "ConnectionTimeout"}
    CallErrors = {"WorkerFailed"}
    MaxOutside = 1
    Kind = "Pro"
    Reporting = "Periodic"
    MaxCount = 1
    MaxSessions = 2
    Buttons <- MCButtons
    RunnerArguments <- MCRunnerArguments
    ProbeArguments <- MCProbeArguments
    Disks <- MCDisks
INVARIANTS
    ExitTellsTheEvidence
    OpensFreeAdapter
    ProbeTellsTheCause
PROPERTIES
    FilesAreKept
    StreamIsTraceable
