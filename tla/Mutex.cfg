SPECIFICATION Spec
CONSTANTS
    Low = low
    Middle = middle
    High = high
    Task = {low, middle, high}
    Idle = idle
    ListEnd = end
    NULL = null
    Plain = {m1}
    Recursive = {m2}
    uxCreated <- Ascending
    Priority = {3}
    MAX_PRIORITIES = 4
    Waits = {"none", "some"}
    MaxCount = 2
INVARIANTS
    NoInversion
    InheritanceEnds
    
    CountsTakes
    FreeIsWanted
