SPECIFICATION FairSpec
CONSTANTS
    Task = {t1, t2}
    Main = t1
    Idle = idle
    ListEnd = end
    EventList = {e1}
    MAX_PRIORITIES = 3
    TICKS = 5
    OVERFLOWS = 1
    Calls = {"xTaskGenericCreate", "vTaskDelay", "vTaskDelayUntil", "vTaskPlaceOnEventList", "wake_up", "vTaskSuspendAll"}
    Interrupts = {"wake_up_from_isr"}
    Priority = {1, 2}
    Delay = {1, 4}
    Wait = {4}
    MaxPended = 2
    MaxNesting = 1
INVARIANTS
    SleepersAreAhead
    TicksAreCounted
    DelayedListsSwitchEmpty
PROPERTIES
    WokenOnTime
    SleepersWake
    EqualShare
