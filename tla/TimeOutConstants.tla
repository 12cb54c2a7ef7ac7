--------------------------- MODULE TimeOutConstants ---------------------------
\* The constants of TimeOut.  Their assumptions are evaluated with MCParts.
EXTENDS Integers

CONSTANTS
    TICKS,       \* the number of values of a portTickType
    OVERFLOWS,   \* the number of values of xNumOfOverflows
    Wait         \* the times to wait that calls are given

ASSUME SizeAssumption ==
    /\ TICKS \in Nat /\ TICKS > 1
    /\ OVERFLOWS \in Nat /\ OVERFLOWS > 1
    /\ Wait \subseteq (0..TICKS - 1) \ {0}
=============================================================================
