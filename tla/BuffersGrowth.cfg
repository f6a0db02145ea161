\* One buffer that outgrows its first page, called by characters.
SPECIFICATION Spec
CONSTANTS
    PageSize     = 4
    HeaderSize   = 1
    MaxPages     = 2
    Bytes        <- MCBytes
    Cont         = {"c"}
    NUL          = "nul"
    FreshByte    = "nul"
    MaxBuffers   = 1
    BlankSizes   = {1, 5}
    FileTexts    <- MCWholeFiles
    Inputs       <- MCInputs
    Asciis       = {"a"}
    ByteLevel    = FALSE
    MmapOutcomes = {TRUE}
    MaxFile      = 1
INVARIANTS
    NulTerminated
    CharIndexAgrees
    OnCharBoundaries
    CorruptOnlyByFile
PROPERTY
    DocumentSpec
\* A process that was killed takes no further step.
CHECK_DEADLOCK FALSE
