SPECIFICATION Spec
CONSTANTS
    Handler = {h1, h2}
    Path = {"p", "q"}
    Ops <- OpsOf
    MaxRequests = 4
    MaxChunks = 2
    Shared = {"p"}
    GFSChunkSize = 2
    NumServers = 1
    Replicas = 1
SYMMETRY AnyHandler
INVARIANT RacesTypeOK
INVARIANT ChunksListedOnce
PROPERTY HandlersOfFilesAreAtomic
PROPERTY BackupHasStableFiles
CHECK_DEADLOCK FALSE
