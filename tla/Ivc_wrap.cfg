SPECIFICATION Spec
CONSTANTS
    SIZE = 5
    WORD = 16
    LONG = 2
    ItemSizes = {0, 1, 3}
    ITEMS = 6
INVARIANTS
    SizesFit
CHECK_DEADLOCK FALSE
