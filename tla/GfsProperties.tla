--------------------------- MODULE GfsProperties ---------------------------
(***************************************************************************)
(* What must hold of geekGFS/src as a whole.                               *)
(***************************************************************************)
EXTENDS GeekGFS, SequencesExt

\* Every command ends, whatever fails and whoever else is at work: each of its
\* calls ends and no loop of the client makes calls forever.
CommandsEnd == \A c \in Client : proc[c].state # "idle" ~> proc[c].state = "idle"

----------------------------------------------------------------------------
(* What a user sees of a file. *)

\* The contents of a chunk on the server that readers ask.
ChunkData(file, h) ==
    LET s == file.chunks[h][1]
    IN  IF h \in DOMAIN disk[s] THEN disk[s][h] ELSE <<>>

FileData(p) ==
    FlattenSeq([i \in DOMAIN files[p].handles |-> ChunkData(files[p], files[p].handles[i])])

\* The command op of c has made all its calls and its file is in the table.
Done(c, op) ==
    /\ proc[c].state = "running" /\ proc[c].todo = <<>>
    /\ proc[c].cmd.op = op /\ proc[c].cmd.path \in DOMAIN files

\* After a write, a read returns what was written, and only that.  (Client
\* does the transfer to the chunk servers, README.md:7.  For one client and
\* calls that do not fail.)
WriteReadsBack ==
    \A c \in Client : Done(c, "write") => FileData(proc[c].cmd.path) = proc[c].cmd.data

\* No request leads a handler of the master to a nil pointer.
MasterKeepsRunning == masterUp

============================================================================
