SPECIFICATION FairSpec
CONSTANTS
    Task = {t1, t2}
    Highest = t3
    Idle = idle
    ListEnd = end
    uxPriority <- AllEqual
    uxLength = 1
    Calls = {"send", "receive", "overwrite", "reset"}
    Interrupts = {"receive", "overwrite"}
    Waits = {"some", "forever"}
    MaxLock = 1
PROPERTIES
    TimedCallsReturn
    ItemsAreTaken
