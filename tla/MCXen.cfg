SPECIFICATION FairSpec
CONSTANTS
    \* Xenbus
    Task = {t1, t2, t3}
    NULL = null
    NR_REQS = 2
    RING_SIZE = 8
    BODY = 2
    INDICES = 32
    MaxCalls = 3
    MaxEvents = 1
    \* Ivc
    SIZE = 5
    WORD = 19
    LONG = 2
    ItemSizes = {0, 1, 3}
    ITEMS = 4
INVARIANTS
    
    
    ItemsArriveWhole
PROPERTIES
    
    ItemsArrive
CHECK_DEADLOCK FALSE
