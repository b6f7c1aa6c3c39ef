---------------------------- MODULE GfsIsolation ----------------------------
(***************************************************************************)
(* The files of GeekGFS stay apart: whatever clients die, whatever calls    *)
(* arrive late or never, however often files are deleted and created again, *)
(* and although CreateChunk enters a chunk under a handle of the caller's   *)
(* choice, no bytes get from one file into another.                         *)
(***************************************************************************)
EXTENDS GeekGFS

CONSTANT Alphabet       \* the bytes that users put into a file

ASSUME AlphabetAssumption ==
    /\ Alphabet \in [Path -> SUBSET Byte]
    /\ \A cmd \in Command : cmd.data \in Seq(Alphabet[cmd.path])

\* A read returns bytes of its own file, or the message of a chunk server.
ReadsOwnData ==
    \A c \in Client :
        proc[c].state # "idle" => proc[c].got \in Seq(Alphabet[proc[c].cmd.path] \cup {ErrorText})

----------------------------------------------------------------------------
(* Each handle is made for one file, which it belongs to ever after. *)

Handles == 1 .. nextHandle - 1
HandlesOf(owner, p) == {h \in DOMAIN owner : owner[h] = p}

FirstCalls == {"create", "list", "write", "read", "append", "delete"}
ChunkCalls == {"create", "write", "read", "append", "space", "createChunk"}

\* The calls that a command on p makes: the first one, then those about chunks.
CallsOn(owner, p) ==
    [to : {Master}, op : FirstCalls, handle : {0}, data : Seq(Alphabet[p])]
    \cup [to : Server \cup {Master}, op : ChunkCalls, handle : HandlesOf(owner, p),
          data : Seq(Alphabet[p])]

ProcessOf(owner, cmd) ==
    [state : {"running", "gone"}, cmd : {cmd}, todo : Seq(CallsOn(owner, cmd.path)),
     got : Seq(Alphabet[cmd.path] \cup {ErrorText})]

FileKeepsHandles(owner, p, file) ==
    /\ file.handles \in Seq(HandlesOf(owner, p))
    /\ DOMAIN file.chunks \subseteq HandlesOf(owner, p)
    /\ \A h \in DOMAIN file.chunks : file.chunks[h] \in Locations

FilesKeepHandles(owner) == \A p \in DOMAIN files : FileKeepsHandles(owner, p, files[p])

ProcessesKeepHandles(owner) ==
    \A c \in Client :
        proc[c] = NoProcess \/ \E cmd \in Command : proc[c] \in ProcessOf(owner, cmd)

DiskKeepsHandles(owner) ==
    \A s \in Server : \A h \in DOMAIN disk[s] :
        h \in DOMAIN owner /\ disk[s][h] \in Seq(Alphabet[owner[h]])

Apart(owner) ==
    FilesKeepHandles(owner) /\ ProcessesKeepHandles(owner) /\ DiskKeepsHandles(owner)

\* The inductive invariant.
Isolation ==
    /\ nextHandle \in Nat \ {0}
    /\ DOMAIN files \subseteq Path
    /\ DOMAIN disk = Server
    /\ DOMAIN proc = Client
    /\ \E owner \in [Handles -> Path] : Apart(owner)

============================================================================
