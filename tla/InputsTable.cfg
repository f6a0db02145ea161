\* A key of every kind, a button and the pointer, with a table of three.
SPECIFICATION Spec
CONSTANTS
    Keys      = {"a", "ctrl", "backspace", "=", "up"}
    KeysymOf  <- MCKeysymOf
    TextOf    <- MCTextOf
    Positions = {1, 2}
    Origin    = 1
    MaxInputs = 3
    Repeating = {"a", "backspace", "=", "up"}
    Hasty     = FALSE
    MaxEvents = 4
INVARIANTS
    TypeOK
    NoStuckCtrl
PROPERTIES
    CommandsAreNotText
    LettersArePreserved
    CloseIsHonoured
    TextsLeave
\* A program that has left its loop, or has nothing to read and nothing to
\* do, takes no further step once the user takes none.
CHECK_DEADLOCK FALSE
