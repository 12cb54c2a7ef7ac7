SPECIFICATION Spec
CONSTANTS
    \* SuspendAll
    Task = {t1, t2, t3}
    NoTask = none
    MaxNesting = 3
    \* TimeOut and Timers
    TICKS = 6
    OVERFLOWS = 2
    Wait = {1, 3, 4, 5}
    \* QueueStorage
    Item = {a, b, c}
    Lengths = {1, 3}
    \* ListPointers
    List = {l1, l2}
    ListItem = {x, y, z}
    NULL = null
    ListEnd = end
    MAX_VALUE = 1
    \* Watches
    Watcher = {t1, t2}
    Token = {w1, w2}
    MaxEvents = 2
    \* EventChannels
    NR_EVS = 3
    BITS = 2
    \* GrantTable
    Owner = {t1, t2, t3}
    NR_RESERVED_ENTRIES = 2
    NR_GRANT_ENTRIES = 4
    \* Heap
    portBYTE_ALIGNMENT = 2
    heapSTRUCT_SIZE = 2
    xTotalHeapSize = 42
    WantedSizes = {0, 1, 2, 5, 9}
    \* CriticalNesting
    Thread = {t1, t2, t3}
    MaxCritical = 2
    \* Timers
    Timer = {r1, r2}
    AutoReload = {r1}
    Period = {1, 3}
    QUEUE_LENGTH = 2
    MaxLag = 2
    MaxTime = 11
    MaxCommands = 2
    \* Rendezvous
    Left = {a1, a2}
    Right = {b1, b2}
INVARIANTS
    OnlyRacesLose
    
    FreeListIsSound
    
    BlocksTile
    RefusedOnlyWhenFull
    SectionsAreTheTasks
    
    EndsAgree
PROPERTIES
    ImplementsLock
    TimesOutOnTime
    ImplementsBuffer
    ImplementsRings
CHECK_DEADLOCK FALSE
