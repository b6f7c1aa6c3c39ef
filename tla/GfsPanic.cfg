SPECIFICATION Spec
CONSTANTS
    Client = {c1}
    Byte <- Bytes
    Bar = "|"
    Path <- TwoPaths
    ErrorText = "error"
    Command <- AppendsThenWrites
    MaxCommands = 4
    CallsMayFail = FALSE
    GFSChunkSize = 2
    NumServers = 3
    Replicas = 2
    Alphabet <- AlphabetOf
INVARIANT MasterKeepsRunning
CHECK_DEADLOCK FALSE
