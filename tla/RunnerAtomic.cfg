\* Two workers, which is enough for one to overtake the other.
SPECIFICATION Spec
CONSTANTS
    Cores     = 2
    NumGroups = 3
    Cases     <- MCCases
INVARIANTS
    EachGroupRunsOnce
\* The runner stops when it is done.
CHECK_DEADLOCK FALSE
