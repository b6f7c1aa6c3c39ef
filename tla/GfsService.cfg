SPECIFICATION SpecR
CONSTANTS
    Client = {c1, c2}
    Byte <- Bytes
    Bar = "|"
    Path <- TwoPaths
    ErrorText = "error"
    Command <- FittingCommands
    MaxCommands = 4
    CallsMayFail = TRUE
    GFSChunkSize = 3
    NumServers = 2
    Replicas = 2
SYMMETRY AnyClient
PROPERTY ImplementsFileService
CHECK_DEADLOCK FALSE
