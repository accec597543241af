\* Heaps, modules, images, drawing, dialogs, Direct3D, the C runtime, paths and the interpreter, each over its own state.
SPECIFICATION Spec
CONSTANTS
    Base64 = 24
    End64 = 28
    Granule = 2
    MaxAlloc64 = 2
    Base1 = 2
    End1 = 6
    Base2 = 8
    HoleLo = 10
    HoleHi = 12
    End2 = 16
    MaxAllocs = 4
    MaxFree = 2
    Guests <- AllGuests
    Sizes = {1, 2, 4}
    MaxTracked = 4
    MaxLoads = 1
    Defaults <- mcDefaults
    MaxEntries = 13
    MaxModules = 2
    Programs <- mcPrograms
    Plugin <- mcPlugin
    Emulated = {"nsprocess"}
    NsDialogs = {"KillTimer", "Create"}
    MaxPrograms = 2
    MaxThreads = 2
    Images <- mcImages
    PageWords = 2
    High = 256
    Low = 8
    MaxImports = 3
    MaxFuncs = 3
    MaxRegions = 3
    MaxWord = 1
    Inks = {"red", "blue"}
    MaxWindows = 2
    MaxDcs = 2
    MaxBitmaps = 2
    MaxBrushes = 2
    Painters <- mcPainters
    Points <- mcPoints
    MaxFonts = 1
    PictureFiles <- mcPictureFiles
    WizardCopy <- mcWizardCopy
    Side = 3
    MaxHandle = 4
    DialogGuests <- mcDialogGuests
    MaxCalls = 2
    MaxControls = 3
    MaxFrameWindows = 4
    MaxLevel = 3
    MaxMade = 3
    MaxReloads = 1
    Bits <- mcBits
    Codes <- mcCodes
    Seeds <- mcSeeds
    StackTop = 60
    Stubs = {50}
    MemEnd = 32
    PageBytes = 9
    Cap = 7
    LCap = 6
    MaxOut = 20
    MaxMove = 4
    Modulus = 16
    Memories <- mcMemories
    Formats <- mcFormats
    Layouts <- mcLayouts
    Places = {0, 3, 5, 8}
    Lengths = {0, 4}
    Is64 = TRUE
    OverlapUp = FALSE
    MaxRuntimeCalls = 1
    Programs0 <- mcPrograms0
    PathGuests <- mcPathGuests
    MaxFinds = 2
    MaxTemp = 2
    MaxFilesMade = 1
    MaxRuns = 2
    Dyes = {"red", "blue"}
    MaxCom = 8
    MaxWrappers = 6
    MaxTextures = 3
    MaxInFlight = 2
    MaxRefs = 2
    Gamers <- mcGamers
    SourcesLast = TRUE
    OneDevice = TRUE
CHECK_DEADLOCK FALSE
INVARIANTS PoolsConsistent HeapConsistent LoadedConsistent DrawingConsistent GraphicsConsistent DialogsConsistent InterpreterConsistent RuntimeConsistent PathsConsistent
