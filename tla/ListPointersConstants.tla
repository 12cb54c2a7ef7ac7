------------------------- MODULE ListPointersConstants -------------------------
\* The constants of ListPointers.  Their assumptions are evaluated with MCParts.
CONSTANTS
    List,
    ListItem,
    NULL,
    ListEnd,          \* the marker in the rings of ListRings
    MAX_VALUE         \* portMAX_DELAY, the value of a marker

ASSUME NodeAssumption == List \cap ListItem = {} /\ NULL \notin List
=============================================================================
