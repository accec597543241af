\* Files, sockets, HTTP, TLS and names, each over its own state.
SPECIFICATION Spec
CONSTANTS
    Path = {"a", "c"}
    Config = {"c"}
    MaxFiles = 2
    MaxFilemap = 1
    MaxLen = 3
    MaxOpens = 2
    MaxSockets = 2
    MaxBindings = 2
    Programs <- mcProgramsOfSockets
    MaxFds = 3
    MaxCells = 2
    MaxHttp = 3
    Host = {"x", "y"}
    MaxRedirects = 2
    Answers <- mcAnswers
    MaxLinks = 2
    MaxBody = 2
    MaxTls = 2
    Peer = {1, 2}
    Lengths = {9, 40}
    Overheads = {24, 52}
    MaxHandles = 4
    MaxStream = 6
    HostNames = {1, 2, 3}
    LocalNames = {3}
    Resolver <- mcResolver
    NetPorts = {80, 20}
    GaiBases = {100, 300}
    GaiSize = 85
    HostentAt = 150
    SockaddrAt = 400
    OneList = TRUE
    MaxLookups = 2
CHECK_DEADLOCK FALSE
INVARIANTS FilesConsistent SocketsConsistent HttpConsistent TlsConsistent NamesConsistent
