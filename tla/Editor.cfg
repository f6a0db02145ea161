\* Tabs, rows and characters of two bytes, on a page with room for four bytes.
SPECIFICATION EditorSpec
CONSTANTS
    PageSize     = 6
    HeaderSize   = 1
    MaxPages     = 2
    Bytes        <- MCBytes
    Cont         = {"c"}
    NUL          = "nul"
    FreshByte    = "nul"
    MaxBuffers   = 1
    BlankSizes   = {6}
    FileTexts    <- MCNoFiles
    Inputs       <- MCInputs
    Asciis       = {}
    ByteLevel    = FALSE
    MmapOutcomes = {TRUE}
    MaxFile      = 0
    Newlines     = {"n"}
    Tab          = "t"
    TabSpaces    = 2
    CoordRange   = 9
    MouseRows    = {0, 2}
    MouseCols    = {0, 3}
    ViewRows     = {1, 2, 9}
INVARIANTS
    EditorTypeOK
    WalksFindText
    RenderEnds
    DrawsText
PROPERTIES
    EditsText
    StaysTogether
    OnlyLostWalksLeave
\* A process that was killed takes no further step.
CHECK_DEADLOCK FALSE
