SPECIFICATION CrtSpec
CONSTANTS
    MemEnd = 32
    PageBytes = 9
    Cap = 7
    LCap = 6
    MaxOut = 20
    MaxMove = 4
    Modulus = 16
    Memories <- mcMemories
    Formats <- mcFormats
    Layouts <- mcLayouts
    Places = {0, 3, 5, 8}
    Lengths = {0, 1, 4}
    Is64 = TRUE
    OverlapUp = TRUE
    MaxRuntimeCalls = 1
CHECK_DEADLOCK FALSE
INVARIANTS MovesRight
