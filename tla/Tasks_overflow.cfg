SPECIFICATION Spec
CONSTANTS
    Task = {t1, t2}
    Main = t1
    Idle = idle
    ListEnd = end
    EventList = {e1}
    MAX_PRIORITIES = 3
    TICKS = 4
    OVERFLOWS = 1
    Calls = {"xTaskGenericCreate", "vTaskPlaceOnEventList"}
    Interrupts = {"wake_up_from_isr"}
    Priority = {1, 2}
    Delay = {1}
    Wait = {0}
    MaxPended = 1
    MaxNesting = 1
INVARIANTS
    DelayedListsSwitchEmpty
