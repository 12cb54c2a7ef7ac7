SPECIFICATION Spec
CONSTANTS
    Low = low
    Middle = middle
    High = high
    Task = {low, middle, high}
    Idle = idle
    ListEnd = end
    NULL = null
    Plain = {m1}
    Recursive = {m2}
    uxCreated <- Ascending
    Priority = {}
    MAX_PRIORITIES = 4
    Waits = {"none", "some"}
    MaxCount = 2
INVARIANTS
    HighestOfThoseWanting
