\* A string that no longer fits the gap.
SPECIFICATION Spec
CONSTANTS
    PageSize     = 4
    HeaderSize   = 1
    MaxPages     = 2
    Bytes        <- MCBytes
    Cont         = {"c"}
    NUL          = "nul"
    FreshByte    = "nul"
    MaxBuffers   = 1
    BlankSizes   = {0, 1}
    FileTexts    <- MCEmptyFile
    Inputs       <- MCInputs
    Asciis       = {"a"}
    ByteLevel    = FALSE
    MmapOutcomes = {TRUE}
    MaxFile      = 0
INVARIANTS
    NoStaleStore
\* A process that was killed takes no further step.
CHECK_DEADLOCK FALSE
