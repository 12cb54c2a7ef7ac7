-------------------------- MODULE SuspendAllConstants --------------------------
\* The constants of SuspendAll.  Their assumptions are evaluated with MCParts.
CONSTANTS
    Task,
    NoTask,
    MaxNesting      \* bound on the calls a task nests

ASSUME NoTaskAssumption == NoTask \notin Task
=============================================================================
