CONSTANTS
    Threads = {t1, t2}
    Namespaces = {n1, n2}
    Keys = {k1, k2}
    NoKey = NoKey
    Absent = Absent
    Foreign = Foreign
    Torn = Torn
    Attempts = 2
    MaxCalls = 3
    MaxFaults = 1
    MaxCrashes = 2
SPECIFICATION Spec
SYMMETRY Symmetry
INVARIANTS
    TypeOK ToldIsTrue
PROPERTIES
    KeepsPromise
