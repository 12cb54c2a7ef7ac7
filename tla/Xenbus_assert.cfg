SPECIFICATION Spec
CONSTANTS
    Task = {t1}
    NULL = null
    NR_REQS = 1
    RING_SIZE = 4
    BODY = 2
    INDICES = 8
    MaxCalls = 5
    MaxEvents = 0
INVARIANTS
    NoBug
CHECK_DEADLOCK FALSE
