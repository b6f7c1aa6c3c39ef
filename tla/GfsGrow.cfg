SPECIFICATION Spec
CONSTANTS
    Client = {c1}
    Byte <- Bytes
    Bar = "|"
    Path <- TwoPaths
    ErrorText = "error"
    Command <- GrowingWrites
    MaxCommands = 3
    CallsMayFail = FALSE
    GFSChunkSize = 2
    NumServers = 3
    Replicas = 2
    Alphabet <- AlphabetOf
INVARIANT WriteReadsBack
CHECK_DEADLOCK FALSE
