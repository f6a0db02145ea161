\* A key that is released and pressed again between two polls.
SPECIFICATION Spec
CONSTANTS
    Keys      = {"a", "ctrl"}
    KeysymOf  <- MCKeysymOf
    TextOf    <- MCTextOf
    Positions = {1}
    Origin    = 1
    MaxInputs = 3
    Repeating = {}
    Hasty     = TRUE
    MaxEvents = 4
INVARIANTS
    NoStuckCtrl
\* A program that has left its loop, or has nothing to read and nothing to
\* do, takes no further step once the user takes none.
CHECK_DEADLOCK FALSE
