\* Three workers on three groups, two of which fail.
SPECIFICATION Spec
CONSTANTS
    Cores     = 3
    NumGroups = 3
    Cases     <- MCCases
INVARIANTS
    NoMoreRunsThanGroups
    CountsFailures
PROPERTIES
    WorkersGoForward
    Terminates
\* The runner stops when it is done.
CHECK_DEADLOCK FALSE
