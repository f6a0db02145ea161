\* Two buffers under every call, with files, saves and failures to map.
SPECIFICATION Spec
CONSTANTS
    PageSize     = 4
    HeaderSize   = 1
    MaxPages     = 1
    Bytes        <- MCBytes
    Cont         = {"c"}
    NUL          = "nul"
    FreshByte    = "nul"
    MaxBuffers   = 2
    BlankSizes   = {1}
    FileTexts    <- MCFiles
    Inputs       <- MCInputs
    Asciis       = {"a"}
    ByteLevel    = TRUE
    MmapOutcomes = {TRUE, FALSE}
    MaxFile      = 1
INVARIANTS
    TypeOK
PROPERTY
    DocumentSpec
\* A process that was killed takes no further step.
CHECK_DEADLOCK FALSE
