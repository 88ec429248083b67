SPECIFICATION InputSpec
CONSTANTS
    RouterCap = 2
    MaxTyped = 3
    MaxCopies = 1
    MaxRefused = 0
CHECK_DEADLOCK FALSE
INVARIANTS
    PasteIsFresh
