------------------------------ MODULE GeekGFS ------------------------------
(***************************************************************************)
(* GeekGFS: client processes that run one command each                     *)
(* (src/geekGFS/src/client/client.go), the master's handlers               *)
(* (server/masterserver/masterserver.go), and the chunk servers'           *)
(* (server/chunkserver/chunkserver.go).  A client makes its calls one      *)
(* after the other: proc[c].todo holds the call under way and those that   *)
(* the command will make after it.  A handler of a server is one step      *)
(* here, which also hands the answer to the client; module GfsMasterRaces  *)
(* cuts the handlers of the master.  The error of a call is dropped by the *)
(* client, which then reads a nil reply and dies (GiveUp); its last call   *)
(* may reach the server all the same, at any later time, or never (Leave). *)
(***************************************************************************)
EXTENDS GfsMetadata, FiniteSets

CONSTANTS
    Client,         \* client processes at a time
    Byte,           \* what paths and data consist of
    Bar,            \* '|', which stands between the fields of a message
    Path,           \* file paths
    ErrorText,      \* a server's error message where data was expected
    Command,        \* the commands that users run
    MaxCommands,    \* bound: commands of a behaviour
    CallsMayFail    \* whether calls time out or servers are unreachable

\* No path has a '|' in it: the master would take p for the path of a write or
\* an append to p|q, and the bytes would go into another file.
ASSUME PathAssumption ==
    /\ Path \subseteq Seq(Byte)
    /\ \A p \in Path : \A i \in DOMAIN p : p[i] # Bar

ASSUME ClientAssumption ==
    /\ Command \subseteq [op : {"create", "list", "write", "read", "append", "delete"},
                          path : Path, data : Seq(Byte)]
    /\ ErrorText \notin Byte
    /\ MaxCommands \in Nat
    /\ CallsMayFail \in BOOLEAN

VARIABLES
    files,          \* MetaData.Files: path -> File
    masterUp,       \* the master's process has not panicked
    nextHandle,     \* the next uuid
    disk,           \* server -> handle -> contents of the file of that name
    proc,           \* client -> its process
    commands        \* commands started so far

vars == <<files, masterUp, nextHandle, disk, proc, commands>>

Master == -1

ToMaster(op, handle, data) ==
    [to |-> Master, op |-> op, handle |-> handle, data |-> data]

\* One call to each server of a chunk, in the order of its locations.
ToEach(locations, op, handle, data) ==
    [i \in 1 .. Replicas |->
        [to |-> locations[i], op |-> op, handle |-> handle, data |-> data]]

\* The field of a message that begins with s: strings.Split ends it at the next
\* '|', and nobody looks at the fields behind.
UpToBar(s) == SubSeq(s, 1, Cardinality({n \in DOMAIN s : \A i \in 1 .. n : s[i] # Bar}))

NoCommand == [op |-> "none"]
NoProcess == [state |-> "idle", cmd |-> NoCommand, todo |-> <<>>, got |-> <<>>]

Init ==
    /\ files = EmptyMap
    /\ masterUp = TRUE
    /\ nextHandle = 1
    /\ disk = [s \in Server |-> EmptyMap]
    /\ proc = [c \in Client |-> NoProcess]
    /\ commands = 0

----------------------------------------------------------------------------
(* A client process. *)

Start(c, cmd) ==
    /\ proc[c].state = "idle"
    /\ commands < MaxCommands
    /\ proc' = [proc EXCEPT ![c] =
                    [state |-> "running", cmd |-> cmd,
                     todo |-> <<ToMaster(cmd.op, 0, <<>>)>>, got |-> <<>>]]
    /\ commands' = commands + 1
    /\ UNCHANGED <<files, masterUp, nextHandle, disk>>

Return(c) ==
    /\ proc[c].state = "running"
    /\ proc[c].todo = <<>>
    /\ proc' = [proc EXCEPT ![c] = NoProcess]
    /\ UNCHANGED <<files, masterUp, nextHandle, disk, commands>>

\* The call fails or takes longer than the second of its context.
GiveUp(c) ==
    /\ proc[c].state = "running"
    /\ proc[c].todo # <<>>
    /\ CallsMayFail \/ (Head(proc[c].todo).to = Master /\ ~masterUp)
    /\ proc' = [proc EXCEPT ![c].state = "gone", ![c].todo = <<Head(@)>>]
    /\ UNCHANGED <<files, masterUp, nextHandle, disk, commands>>

Leave(c) ==
    /\ proc[c].state = "gone"
    /\ proc' = [proc EXCEPT ![c] = NoProcess]
    /\ UNCHANGED <<files, masterUp, nextHandle, disk, commands>>

\* A server works on the call of c.
Serves(c, server, op) ==
    /\ proc[c].todo # <<>>
    /\ Head(proc[c].todo).to = server
    /\ Head(proc[c].todo).op = op

\* c has its answer and makes the calls more before those still to do.  The
\* answer to a client that is gone is lost.
Proceed(c, more) ==
    proc' = [proc EXCEPT ![c].todo =
                IF proc[c].state = "gone" THEN <<>> ELSE more \o Tail(@)]

----------------------------------------------------------------------------
(* The handlers of the master. *)

\* The master takes a call of c on a file that is, or is not, in its table.
OnFile(c, op) == masterUp /\ Serves(c, Master, op) /\ proc[c].cmd.path \in DOMAIN files
OnNoFile(c, op) == masterUp /\ Serves(c, Master, op) /\ proc[c].cmd.path \notin DOMAIN files

\* The answer without effect: of a listing, and with status -1 of the others.
Reply(c) ==
    /\ Proceed(c, <<>>)
    /\ UNCHANGED <<files, masterUp, nextHandle, disk, commands>>

\* A handler that follows the nil pointer ends the process, and c, whose call
\* fails, dies with it.
Panic(c) ==
    /\ masterUp' = FALSE
    /\ proc' = [proc EXCEPT ![c].state = "gone", ![c].todo = <<>>]
    /\ UNCHANGED <<files, nextHandle, disk, commands>>

\* Nothing is read back from the backups.
RestartMaster ==
    /\ ~masterUp
    /\ masterUp' = TRUE
    /\ files' = EmptyMap
    /\ UNCHANGED <<nextHandle, disk, proc, commands>>

\* (mutant) does not look whether the file is there
CreateFileAgain(c) ==
    \/ /\ OnFile(c, "create") \/ OnNoFile(c, "create")
       /\ \E index \in Server :
            LET locations == ChooseChunkServerLocations(index)
            IN  /\ files' = Put(files, proc[c].cmd.path,
                                AddChunk(NewFile, nextHandle, locations))
                /\ Proceed(c, ToEach(locations, "create", nextHandle, <<>>))
       /\ nextHandle' = nextHandle + 1
       /\ UNCHANGED <<masterUp, disk, commands>>

CreateFile(c) ==
    \/ OnFile(c, "create") /\ Reply(c)
    \/ /\ OnNoFile(c, "create")
       /\ \E index \in Server :
            LET locations == ChooseChunkServerLocations(index)
            IN  /\ files' = Put(files, proc[c].cmd.path,
                                AddChunk(NewFile, nextHandle, locations))
                /\ Proceed(c, ToEach(locations, "create", nextHandle, <<>>))
       /\ nextHandle' = nextHandle + 1
       /\ UNCHANGED <<masterUp, disk, commands>>

ListFiles(c) == (OnFile(c, "list") \/ OnNoFile(c, "list")) /\ Reply(c)

\* The part of data that goes into its i-th chunk.
Piece(data, i) ==
    LET last == i * GFSChunkSize
    IN  SubSeq(data, last - GFSChunkSize + 1, IF last < Len(data) THEN last ELSE Len(data))

\* The client writes each piece to all servers of its chunk.
WriteCalls(file, num, data) ==
    [n \in 1 .. num * Replicas |->
        LET i == (n - 1) \div Replicas + 1
            h == file.handles[i]
        IN  ToEach(file.chunks[h], "write", h, Piece(data, i))[((n - 1) % Replicas) + 1]]

\* The master counts the chunks of the field that it is sent, the client cuts
\* the pieces for them off its own data.
WriteFile(c) ==
    LET p == proc[c].cmd.path
        data == proc[c].cmd.data
        num == ChunkNum(Len(UpToBar(data)))
    IN  \/ OnNoFile(c, "write") /\ Reply(c)
        \/ OnFile(c, "write") /\ ~HasChunks(files[p], num) /\ Panic(c)
        \/ /\ OnFile(c, "write")
           /\ HasChunks(files[p], num)
           /\ \E indexes \in [1 .. num - Len(files[p].handles) -> Server] :
                LET grown == GrowChunks(files[p], nextHandle, indexes)
                IN  /\ files' = [files EXCEPT ![p] = KeepChunks(grown, num)]
                    /\ nextHandle' = nextHandle + Len(indexes)
                    /\ Proceed(c, WriteCalls(grown, num, data))
           /\ UNCHANGED <<masterUp, disk, commands>>

\* The client reads each chunk from the first of its servers.
ReadFile(c) ==
    LET f == files[proc[c].cmd.path]
    IN  \/ OnNoFile(c, "read") /\ Reply(c)
        \/ OnFile(c, "read") /\ ~HasChunks(f, Len(f.handles)) /\ Panic(c)
        \/ /\ OnFile(c, "read")
           /\ HasChunks(f, Len(f.handles))
           /\ Proceed(c, [i \in DOMAIN f.handles |->
                            ToEach(f.chunks[f.handles[i]], "read", f.handles[i], <<>>)[1]])
           /\ UNCHANGED <<files, masterUp, nextHandle, disk, commands>>

\* The client asks the first server of the last chunk for its size, and will
\* append the data on each server if it fits (GetChunkSpace).
AppendFile(c) ==
    LET f == files[proc[c].cmd.path]
        h == GetLatestChunkHandle(f)
        HasLatest == f.handles # <<>> /\ h \in DOMAIN f.chunks
    IN  \/ OnNoFile(c, "append") /\ Reply(c)
        \/ OnFile(c, "append") /\ ~HasLatest /\ Panic(c)
        \/ /\ OnFile(c, "append")
           /\ HasLatest
           /\ Proceed(c, <<ToEach(f.chunks[h], "space", h, <<>>)[1]>>
                         \o ToEach(f.chunks[h], "append", h, proc[c].cmd.data))
           /\ UNCHANGED <<files, masterUp, nextHandle, disk, commands>>

\* The chunk is entered under the handle the client sent, not under the new
\* one, and the client appends to the new servers under that handle.
CreateChunk(c) ==
    LET p == proc[c].cmd.path
        call == Head(proc[c].todo)
    IN  \/ OnNoFile(c, "createChunk") /\ Reply(c)
        \/ /\ OnFile(c, "createChunk")
           /\ \E index \in Server :
                LET locations == ChooseChunkServerLocations(index)
                IN  /\ files' = [files EXCEPT ![p] = AddChunk(@, call.handle, locations)]
                    /\ Proceed(c, ToEach(locations, "append", call.handle, call.data))
           /\ UNCHANGED <<masterUp, nextHandle, disk, commands>>

\* The chunks stay on the chunk servers.
DeleteFile(c) ==
    \/ OnNoFile(c, "delete") /\ Reply(c)
    \/ /\ OnFile(c, "delete")
       /\ files' = Without(files, {proc[c].cmd.path})
       /\ Proceed(c, <<>>)
       /\ UNCHANGED <<masterUp, nextHandle, disk, commands>>

----------------------------------------------------------------------------
(* The handlers of a chunk server. *)

\* The handler op of s, which leaves contents in the file of its handle.
OnChunk(c, s, op) == Serves(c, s, op) /\ Head(proc[c].todo).handle \in DOMAIN disk[s]
OnNoChunk(c, s, op) == Serves(c, s, op) /\ Head(proc[c].todo).handle \notin DOMAIN disk[s]

Store(c, s, contents) ==
    /\ disk' = [disk EXCEPT ![s] = Put(@, Head(proc[c].todo).handle, contents)]
    /\ Proceed(c, <<>>)
    /\ UNCHANGED <<files, masterUp, nextHandle, commands>>

Contents(c, s) == disk[s][Head(proc[c].todo).handle]

\* A chunk that is there already would stay as it is.
Create(c, s) ==
    /\ Serves(c, s, "create")
    /\ Store(c, s, IF OnChunk(c, s, "create") THEN Contents(c, s) ELSE <<>>)

\* The file is not truncated: what was behind the new data stays.
Overwrite(old, new) == new \o SubSeq(old, Len(new) + 1, Len(old))

Write(c, s) ==
    \/ OnNoChunk(c, s, "write") /\ Reply(c)
    \/ /\ OnChunk(c, s, "write")
       /\ Store(c, s, Overwrite(Contents(c, s), UpToBar(Head(proc[c].todo).data)))

AppendTo(c, s) ==
    \/ OnNoChunk(c, s, "append") /\ Reply(c)
    \/ /\ OnChunk(c, s, "append")
       /\ Store(c, s, Contents(c, s) \o UpToBar(Head(proc[c].todo).data))

\* The client takes the message of a failure for data.
Read(c, s) ==
    /\ Serves(c, s, "read")
    /\ LET got == IF OnChunk(c, s, "read") THEN Contents(c, s) ELSE <<ErrorText>>
       IN  proc' = [proc EXCEPT
                        ![c].todo = IF proc[c].state = "gone" THEN <<>> ELSE Tail(@),
                        ![c].got = IF proc[c].state = "gone" THEN @ ELSE @ \o got]
    /\ UNCHANGED <<files, masterUp, nextHandle, disk, commands>>

\* (mutant) starts over with what does not fit
SpillAgain(rest, handle) == <<ToMaster("append", handle, rest)>>

\* What does not fit is appended piece by piece, to a chunk created for each.
Spill(rest, handle) ==
    [i \in 1 .. ChunkNum(Len(rest)) |-> ToMaster("createChunk", handle, Piece(rest, i))]

\* With the size, the client decides how to append; a chunk with more than a
\* chunk's bytes makes it panic, a message instead of a size makes it end.
GetChunkSpace(c, s) ==
    LET data == proc[c].cmd.data
        room == GFSChunkSize - Len(Contents(c, s))
        appends == Tail(proc[c].todo)
        todo == IF OnNoChunk(c, s, "space") THEN <<>>
                ELSE IF Len(data) <= room THEN appends
                ELSE IF room < 0 THEN <<>>
                ELSE [i \in DOMAIN appends |->
                        [appends[i] EXCEPT !.data = SubSeq(data, 1, room)]]
                     \o Spill(SubSeq(data, room + 1, Len(data)), Head(proc[c].todo).handle)
    IN  /\ Serves(c, s, "space")
        /\ proc' = [proc EXCEPT ![c].todo = IF proc[c].state = "gone" THEN <<>> ELSE todo]
        /\ UNCHANGED <<files, masterUp, nextHandle, disk, commands>>

----------------------------------------------------------------------------
MasterStep(c) ==
    \/ CreateFile(c) \/ ListFiles(c) \/ WriteFile(c) \/ ReadFile(c)
    \/ AppendFile(c) \/ CreateChunk(c) \/ DeleteFile(c)

ChunkServerStep(c, s) ==
    Create(c, s) \/ Write(c, s) \/ AppendTo(c, s) \/ Read(c, s) \/ GetChunkSpace(c, s)

Step(c) ==
    \/ Return(c) \/ GiveUp(c) \/ Leave(c)
    \/ MasterStep(c)
    \/ \E s \in Server : ChunkServerStep(c, s)

Next ==
    \/ \E c \in Client : Step(c) \/ \E cmd \in Command : Start(c, cmd)
    \/ RestartMaster

\* Every call ends after a second, with an answer or with an error, and the
\* client's loops end with their calls.  Users and operators need do nothing.
Spec == Init /\ [][Next]_vars /\ \A c \in Client : WF_vars(Step(c))

============================================================================
