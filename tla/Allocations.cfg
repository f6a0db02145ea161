CONSTANTS
    Threads = {t1, t2}
    Addresses = {a1, a2, a3}
    None = None
    MaxSlots = 3
    MaxIds = 5
SPECIFICATION Spec
SYMMETRY Symmetry
INVARIANTS
    EntriesAreLive
    NothingIsMissed
    InspectFindsTheEntry
PROPERTY OnlyUnknownCrash
CHECK_DEADLOCK FALSE
