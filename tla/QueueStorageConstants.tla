------------------------- MODULE QueueStorageConstants -------------------------
\* The constants of QueueStorage.  Their assumptions are evaluated with MCParts.
EXTENDS Integers

CONSTANTS
    Item,
    Lengths   \* what xQueueGenericCreate is asked for

ASSUME LengthAssumption == Lengths \subseteq Nat \ {0}
=============================================================================
