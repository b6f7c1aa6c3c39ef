--------------------------- MODULE GfsRefinement ---------------------------
(***************************************************************************)
(* GeekGFS implements FileService as long as writes replace whole chunks   *)
(* and appends fit: where a file is one chunk and neither grows nor        *)
(* shrinks.  The first server of a chunk decides, the one that readers ask. *)
(* Two auxiliary variables record what FileService asks of a command.      *)
(***************************************************************************)
EXTENDS GfsProperties

\* All writes of a file have one length, of a chunk at most, and nothing is
\* appended to it; or as many appends as there can be, with a creation before
\* them, fit into a chunk.  No data has a '|' in it.
ASSUME FittingAssumption ==
    \A cmd \in Command :
        /\ UpToBar(cmd.data) = cmd.data
        /\ cmd.op = "write" =>
            /\ Len(cmd.data) \in 1 .. GFSChunkSize
            /\ \A other \in Command : other.path = cmd.path =>
                /\ other.op # "append"
                /\ other.op = "write" => Len(other.data) = Len(cmd.data)
        /\ cmd.op = "append" => (MaxCommands - 1) * Len(cmd.data) <= GFSChunkSize

VARIABLES worked, excused
varsR == <<vars, worked, excused>>

HasFirstChunk(p) ==
    LET f == files[p] IN f.handles[1] \in DOMAIN disk[f.chunks[f.handles[1]][1]]

InitR == Init /\ worked = [c \in Client |-> FALSE] /\ excused = [c \in Client |-> FALSE]

\* The call with which a command works has been served in this step.
Served(c) ==
    /\ proc[c].todo # <<>>
    /\ proc'[c].todo # proc[c].todo
    /\ proc'[c].state = proc[c].state
    /\ LET call == Head(proc[c].todo)
       IN  /\ call.op = proc[c].cmd.op
           /\ call.op \in {"write", "append", "read"} => call.to # Master

Deletes(p) == p \in DOMAIN files /\ p \notin DOMAIN files'

NextR ==
    /\ Next
    /\ worked' = [c \in Client |-> proc'[c].state # "idle" /\ (worked[c] \/ Served(c))]
    /\ excused' = [c \in Client |->
            /\ proc'[c].state # "idle"
            /\ proc'[c].cmd.op \in {"write", "append", "read"}
            /\ LET p == proc'[c].cmd.path
               IN  \/ excused[c] \/ Deletes(p)
                   \/ proc[c].state = "idle" /\ ~(p \in DOMAIN files /\ HasFirstChunk(p))]

SpecR == InitR /\ [][NextR]_varsR

\* The refinement mapping: the files as readers find them, and the commands
\* without their calls.
FilesSeen == [p \in DOMAIN files |-> [ready |-> HasFirstChunk(p), data |-> FileData(p)]]
Requests ==
    [c \in Client |-> [state |-> proc[c].state, cmd |-> proc[c].cmd, got |-> proc[c].got]]
FS == INSTANCE FileService WITH file <- FilesSeen, req <- Requests

\* Any number of clients, calls that time out, are served late or never, and
\* clients that die halfway: each command works at most once and atomically,
\* and a client that is told nothing went wrong has had its effect.
ImplementsFileService == FS!FSSpec

============================================================================
