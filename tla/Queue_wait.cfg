SPECIFICATION Spec
CONSTANTS
    Task = {t1, t2, t3}
    Highest = t3
    Idle = idle
    ListEnd = end
    uxPriority <- OneAbove
    uxLength = 2
    Calls = {"send", "receive", "peek"}
    Interrupts = {"send", "receive"}
    Waits = {"none", "some"}
    MaxLock = 2
INVARIANTS
    WaitersAreBlocked
    NoWakeUpLost
    HighestPriorityRuns
PROPERTIES
    LockHoldsTheLists
