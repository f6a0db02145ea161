\* Three buttons that come and go in a table of three.
SPECIFICATION Spec
CONSTANTS
    Ids        = {"ok", "menu", "quit", "file"}
    Boxes      <- MCBoxes
    Points     <- MCPoints
    MaxButtons = 3
    MaxCreated = 4
INVARIANTS
    TypeOK
    IdsAreUnique
    MostRecentRunsAtFirst
PROPERTIES
    PurgeIsExact
\* A process that was aborted takes no further step.
CHECK_DEADLOCK FALSE
