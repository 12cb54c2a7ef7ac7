SPECIFICATION Spec
CONSTANTS
    Task = {t1, t2}
    Main = t1
    Idle = idle
    ListEnd = end
    EventList = {e1}
    MAX_PRIORITIES = 3
    TICKS = 3
    OVERFLOWS = 2
    Calls = {"xTaskGenericCreate", "vTaskDelete", "vTaskSuspend", "vTaskResume", "vTaskDelay", "vTaskPlaceOnEventList", "vTaskSuspendAll", "uxTaskGetSystemState", "vTaskPrioritySet", "taskYIELD"}
    Interrupts = {"wake_up_from_isr", "xTaskResumeFromISR"}
    Priority = {0, 1, 2}
    Delay = {1}
    Wait = {1, 2}
    MaxPended = 1
    MaxNesting = 2
INVARIANTS
    EachTaskInOneList
    WaitersAreBlocked
    HighestPriorityRuns
    IInv

    
