SPECIFICATION FairSpec
CONSTANTS
    Task = {t1, t2}
    Main = t1
    Idle = idle
    ListEnd = end
    EventList = {e1}
    MAX_PRIORITIES = 2
    TICKS = 4
    OVERFLOWS = 1
    Calls = {"xTaskGenericCreate", "uxTaskGetSystemState"}
    Interrupts = {}
    Priority = {1}
    Delay = {1}
    Wait = {1}
    MaxPended = 1
    MaxNesting = 1
PROPERTIES
    EqualShare
