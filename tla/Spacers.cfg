CONSTANTS
    Junk = Junk
    CafeBabe = 99
    Bytes <- McBytes
    Starts <- McStarts
    Commands <- McCommands
    LinesCapacity = 1
    MaxRuns = 2
SPECIFICATION Spec
INVARIANTS
    TextSurvives
    SuccessIsTrimmed
    CheckAgrees
    StringCallsAgree
    VectorCallsAgree
CHECK_DEADLOCK FALSE
