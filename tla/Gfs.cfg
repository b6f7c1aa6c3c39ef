SPECIFICATION Spec
CONSTANTS
    Client = {c1, c2}
    Byte <- Bytes
    Bar = "|"
    Path <- TwoPaths
    ErrorText = "error"
    Command <- MixedCommands
    MaxCommands = 4
    CallsMayFail = FALSE
    GFSChunkSize = 2
    NumServers = 2
    Replicas = 2
    Alphabet <- AlphabetOf
INVARIANT ReadsOwnData
INVARIANT Isolation
PROPERTY CommandsEnd
CHECK_DEADLOCK FALSE
