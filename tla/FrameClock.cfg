\* Frames of five on a clock that stops after three seconds of ten.
SPECIFICATION Spec
CONSTANTS
    NsPerSec  = 10
    NsPerUsec = 2
    Target    = 5
    Delay     <- MCDelay
    MaxNow    = 30
INVARIANTS
    FramesArePaced
    TogglesInTime
PROPERTIES
    TogglesApart
\* The clock stops at its bound.
CHECK_DEADLOCK FALSE
