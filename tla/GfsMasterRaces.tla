--------------------------- MODULE GfsMasterRaces ---------------------------
(***************************************************************************)
(* The master of GeekGFS (src/geekGFS/src/server/masterserver) with its    *)
(* handlers cut where they read or write what they share: gRPC runs each   *)
(* handler in a goroutine of its own, the metadata has no lock, and the    *)
(* ticker's goroutine marshals the metadata meanwhile.  One access is one  *)
(* step, an assignment to a slice of handles a load and a store.  Accesses *)
(* that meet in one map or slice may end the process instead (Fatal).  The *)
(* loops over the chunks of one file are one step each, and a slice is its *)
(* handles: the array that two slices of one file may share is left out.   *)
(***************************************************************************)
EXTENDS GfsMetadata

CONSTANTS
    Handler,        \* handlers at work at a time
    Path,
    Ops,            \* path -> the requests sent for it
    MaxRequests,    \* bound: requests and backups of a behaviour
    MaxChunks,      \* bound: chunks that a write asks for
    Shared          \* the files on which two requests may work at a time

ASSUME RacesAssumption ==
    /\ Ops \in [Path -> SUBSET {"create", "read", "write", "append", "createChunk", "delete"}]
    /\ MaxRequests \in Nat /\ MaxChunks \in Nat
    /\ Shared \subseteq Path

VARIABLES
    files,          \* MetaData.Files: path -> pointer
    objects,        \* pointer -> File
    made,           \* the path that each handle was made for
    up,             \* the process has not panicked
    hand,           \* handler -> its locals; before, for the properties: the
                    \* file when it began, if it works on it alone
    loaded,         \* handler -> the slice it has loaded and not yet stored
    storage,        \* the locals of Storage and json.Marshal; still, for the
                    \* properties: the files nobody has worked on since it began
    requests        \* requests and backups so far

vars == <<files, objects, made, up, hand, loaded, storage, requests>>
metadata == <<files, objects, made, up>>
saving == <<storage, requests>>
others == <<loaded, storage, requests>>

None == [handles |-> <<0>>]
FileAt(p) == IF p \in DOMAIN files THEN objects[files[p]] ELSE None
Before(p) == IF p \in Shared THEN None ELSE FileAt(p)

Idle == [pc |-> "idle", op |-> "none", path |-> "none", num |-> 0, handle |-> 0,
         obj |-> 0, prev |-> 0, status |-> 0, before |-> None]

NotStoring == [pc |-> "idle", todo |-> EmptyMap, now |-> "none", still |-> {}, part |-> EmptyMap]

Init ==
    /\ files = EmptyMap /\ objects = <<>> /\ made = <<>> /\ up = TRUE
    /\ hand = [h \in Handler |-> Idle]
    /\ loaded = [h \in Handler |-> <<>>]
    /\ storage = NotStoring
    /\ requests = 0

----------------------------------------------------------------------------
Busy(p) == {h \in Handler : hand[h].pc # "idle" /\ hand[h].path = p}
NextHandleSkipping == Len(made) + 2     \* (mutant)
NextHandle == Len(made) + 1
At(h, pc) == up /\ hand[h].pc = pc
Found(h) == hand[h].path \in DOMAIN files
File(h) == objects[hand[h].obj]

GoTo(h, pc) == hand' = [hand EXCEPT ![h].pc = pc]
Done(h, status) == hand' = [hand EXCEPT ![h].pc = "done", ![h].status = status]
Panic == up' = FALSE /\ UNCHANGED <<files, objects, made, hand>>

First(op) == CASE op = "create" -> "exists" [] op = "append" -> "latest" [] OTHER -> "check"

Start(h, op, p, num, handle) ==
    /\ At(h, "idle") /\ requests < MaxRequests
    /\ p \in Shared \/ Busy(p) = {}
    /\ hand' = [hand EXCEPT ![h] = [Idle EXCEPT !.pc = First(op), !.op = op, !.path = p,
                    !.num = num, !.handle = handle, !.before = Before(p)]]
    /\ requests' = requests + 1
    /\ storage' = [storage EXCEPT !.still = @ \ {p}]
    /\ UNCHANGED <<metadata, loaded>>

Return(h) ==
    /\ At(h, "done")
    /\ hand' = [hand EXCEPT ![h] = Idle]
    /\ UNCHANGED <<metadata, others>>

\* CreateNewFile: is the path taken?  If not, a new handle and a new File.
Exists(h) ==
    /\ At(h, "exists")
    /\ IF Found(h) THEN Done(h, -1) /\ UNCHANGED made
       ELSE /\ hand' = [hand EXCEPT ![h].pc = "insert", ![h].handle = NextHandle]
            /\ made' = Append(made, hand[h].path)
    /\ UNCHANGED <<files, objects, up, others>>

\* (mutant) enters a File that is in use
InsertShared(h) ==
    /\ At(h, "insert")
    /\ objects' = IF objects = <<>> THEN <<NewFile>> ELSE objects
    /\ files' = Put(files, hand[h].path, Len(objects'))
    /\ GoTo(h, "lookup")
    /\ UNCHANGED <<made, up, others>>

Insert(h) ==
    /\ At(h, "insert")
    /\ objects' = Append(objects, NewFile)
    /\ files' = Put(files, hand[h].path, Len(objects'))
    /\ GoTo(h, "lookup")
    /\ UNCHANGED <<made, up, others>>

Latest(h) ==
    /\ At(h, "latest")
    /\ LET f == FileAt(hand[h].path)
       IN  hand' = [hand EXCEPT ![h].pc = "check",
                        ![h].handle = IF f.handles = <<>> THEN 0 ELSE GetLatestChunkHandle(f)]
    /\ UNCHANGED <<metadata, others>>

\* checkValidFile
Check(h) ==
    /\ At(h, "check")
    /\ IF ~Found(h) THEN Done(h, -1)
       ELSE GoTo(h, IF hand[h].op = "delete" THEN "remove" ELSE "lookup")
    /\ UNCHANGED <<metadata, others>>

Remove(h) ==
    /\ At(h, "remove")
    /\ files' = Without(files, {hand[h].path})
    /\ Done(h, 0)
    /\ UNCHANGED <<objects, made, up, others>>

\* The pointer of the path, checked only where a chunk is added.
Lookup(h) ==
    /\ At(h, "lookup")
    /\ \/ /\ Found(h)
          /\ LET f == files[hand[h].path]
             IN  hand' = [hand EXCEPT ![h].obj = f, ![h].prev = Len(objects[f].handles),
                    ![h].pc = IF hand[h].op \in {"create", "createChunk"} THEN "put" ELSE "chunks"]
          /\ UNCHANGED metadata
       \/ /\ ~Found(h) /\ hand[h].op \in {"create", "createChunk"}
          /\ Done(h, -1)
          /\ UNCHANGED metadata
       \/ ~Found(h) /\ hand[h].op \notin {"create", "createChunk"} /\ Panic
    /\ UNCHANGED others

\* The handler follows the pointers of the chunks for its answer: a write
\* those of as many handles as it keeps, which must still be there.
Keeps(h) == IF hand[h].num <= hand[h].prev THEN hand[h].num ELSE hand[h].prev
Wanted(h) ==
    LET handles == File(h).handles
    IN  CASE hand[h].op = "append" -> {hand[h].handle}
          [] hand[h].op = "read" -> Range(handles)
          [] OTHER -> {handles[i] : i \in {j \in DOMAIN handles : j <= Keeps(h)}}
HasWanted(h) ==
    /\ Wanted(h) \subseteq DOMAIN File(h).chunks
    /\ hand[h].op = "write" => Keeps(h) <= Len(File(h).handles)

Chunks(h) ==
    /\ At(h, "chunks")
    /\ \/ ~HasWanted(h) /\ Panic
       \/ /\ HasWanted(h)
          /\ \/ hand[h].op # "write" /\ Done(h, 0) /\ UNCHANGED made
             \/ /\ hand[h].op = "write" /\ hand[h].num <= hand[h].prev
                /\ GoTo(h, "drop") /\ UNCHANGED made
             \/ /\ hand[h].op = "write" /\ hand[h].num > hand[h].prev
                /\ hand' = [hand EXCEPT ![h].pc = "put", ![h].handle = NextHandle,
                                        ![h].num = @ - hand[h].prev]
                /\ made' = Append(made, hand[h].path)
          /\ UNCHANGED <<files, objects, up>>
    /\ UNCHANGED others

Drop(h) ==
    /\ At(h, "drop")
    /\ objects' = [objects EXCEPT ![hand[h].obj].chunks =
                        Without(@, HandlesBehind(File(h), hand[h].num))]
    /\ GoTo(h, "cut")
    /\ UNCHANGED <<files, made, up, others>>

\* The handles are loaded to be cut or added to.  No more can be kept than
\* there are.
LoadHandles(h) ==
    /\ At(h, "cut") \/ At(h, "list")
    /\ \/ /\ hand[h].pc = "cut" /\ hand[h].num > Len(File(h).handles)
          /\ Panic /\ UNCHANGED loaded
       \/ /\ hand[h].pc = "cut" => hand[h].num <= Len(File(h).handles)
          /\ loaded' = [loaded EXCEPT ![h] = File(h).handles]
          /\ GoTo(h, IF hand[h].pc = "cut" THEN "shrink" ELSE "append")
          /\ UNCHANGED metadata
    /\ UNCHANGED saving

\* The new slice is stored, whatever the list has become since.
Store(h, handles) ==
    /\ objects' = [objects EXCEPT ![hand[h].obj].handles = handles]
    /\ loaded' = [loaded EXCEPT ![h] = <<>>]

Cut(h) ==
    /\ At(h, "shrink")
    /\ Store(h, SubSeq(loaded[h], 1, hand[h].num))
    /\ Done(h, 0)
    /\ UNCHANGED <<files, made, up, saving>>

\* A chunk is added to the table, then to the list.
PutChunk(h) ==
    /\ At(h, "put")
    /\ \E index \in Server :
        objects' = [objects EXCEPT ![hand[h].obj].chunks =
                        Put(@, hand[h].handle, ChooseChunkServerLocations(index))]
    /\ GoTo(h, "list")
    /\ UNCHANGED <<files, made, up, others>>

NextChunk(h, handle) ==
    hand' = [hand EXCEPT ![h].pc = "put", ![h].handle = handle, ![h].num = @ - 1]

\* (mutant) all chunks that a write adds get one handle
ListSameHandle(h) ==
    /\ At(h, "append")
    /\ Store(h, Append(loaded[h], hand[h].handle))
    /\ \/ hand[h].op = "write" /\ hand[h].num > 1 /\ NextChunk(h, hand[h].handle)
       \/ hand[h].op = "create" /\ GoTo(h, "locate")
       \/ hand[h].op = "createChunk" /\ Done(h, 0)
       \/ hand[h].op = "write" /\ hand[h].num = 1 /\ Done(h, 0)
    /\ UNCHANGED <<files, made, up, saving>>

ListHandle(h) ==
    /\ At(h, "append")
    /\ Store(h, Append(loaded[h], hand[h].handle))
    /\ \/ /\ hand[h].op = "write" /\ hand[h].num > 1
          /\ NextChunk(h, NextHandle)
          /\ made' = Append(made, hand[h].path)
       \/ /\ hand[h].op = "create"
          /\ GoTo(h, "locate") /\ UNCHANGED made
       \/ /\ hand[h].op = "createChunk" \/ (hand[h].op = "write" /\ hand[h].num = 1)
          /\ Done(h, 0) /\ UNCHANGED made
    /\ UNCHANGED <<files, up, saving>>

\* createFile looks for the new chunk's locations.
Locate(h) ==
    /\ At(h, "locate")
    /\ IF ~Found(h) THEN Done(h, 0)
       ELSE hand' = [hand EXCEPT ![h].pc = "answer", ![h].obj = files[hand[h].path]]
    /\ UNCHANGED <<metadata, others>>

Answer(h) ==
    /\ At(h, "answer")
    /\ \/ hand[h].handle \in DOMAIN File(h).chunks /\ Done(h, 0) /\ UNCHANGED metadata
       \/ hand[h].handle \notin DOMAIN File(h).chunks /\ Panic
    /\ UNCHANGED others

----------------------------------------------------------------------------
(* Storage: json.Marshal takes all pointers, then goes through the files:   *)
(* the chunks, whose locations have no exported name, then the handles.     *)

Hidden == <<>>

Marshal ==
    /\ up /\ storage.pc = "idle" /\ requests < MaxRequests
    /\ requests' = requests + 1
    /\ storage' = [pc |-> "files", todo |-> files, now |-> "none",
                   still |-> {p \in DOMAIN files : Busy(p) = {}}, part |-> EmptyMap]
    /\ UNCHANGED <<metadata, hand, loaded>>

MarshalChunks ==
    /\ up /\ storage.pc = "files"
    /\ \E p \in DOMAIN storage.todo :
        storage' = [storage EXCEPT !.pc = "handles", !.now = p,
            !.part = Put(@, p, [handles |-> <<>>, chunks |->
                                [h \in DOMAIN objects[storage.todo[p]].chunks |-> Hidden]])]
    /\ UNCHANGED <<metadata, hand, loaded, requests>>

MarshalHandles ==
    /\ up /\ storage.pc = "handles"
    /\ LET p == storage.now
       IN  storage' = [storage EXCEPT !.pc = "files", !.todo = Without(@, {p}),
                            !.part[p].handles = objects[storage.todo[p]].handles]
    /\ UNCHANGED <<metadata, hand, loaded, requests>>

\* (mutant) does not wait for all files
SaveEarly ==
    /\ up /\ storage.pc = "files"
    /\ storage' = NotStoring
    /\ UNCHANGED <<metadata, hand, loaded, requests>>

\* storage.part goes into a new file, which nothing reads.
Save ==
    /\ up /\ storage.pc = "files" /\ storage.todo = EmptyMap
    /\ storage' = NotStoring
    /\ UNCHANGED <<metadata, hand, loaded, requests>>

----------------------------------------------------------------------------
(* The runtime ends the process when it sees an access to a map during a   *)
(* write to it; so may one to a slice of which only a part is written.     *)

TheFiles == <<"files", 0>>
TheChunks(o) == <<"chunks", o>>
TheHandles(o) == <<"handles", o>>

Writing(h) ==
    CASE hand[h].pc \in {"insert", "remove"} -> {TheFiles}
      [] hand[h].pc \in {"drop", "put"} -> {TheChunks(hand[h].obj)}
      [] hand[h].pc \in {"append", "shrink"} -> {TheHandles(hand[h].obj)}
      [] OTHER -> {}
Reading(h) ==
    CASE hand[h].pc \in {"exists", "check", "locate"} -> {TheFiles}
      [] hand[h].pc \in {"latest", "lookup"} ->
            {TheFiles} \cup (IF Found(h) THEN {TheHandles(files[hand[h].path])} ELSE {})
      [] hand[h].pc = "answer" -> {TheChunks(hand[h].obj)}
      [] hand[h].pc \in {"chunks", "drop"} -> {TheChunks(hand[h].obj), TheHandles(hand[h].obj)}
      [] hand[h].pc \in {"list", "cut"} -> {TheHandles(hand[h].obj)}
      [] OTHER -> {}
Marshalling ==
    IF storage.pc = "idle" THEN {TheFiles}
    ELSE {TheChunks(o) : o \in Range(storage.todo)} \cup {TheHandles(o) : o \in Range(storage.todo)}

Fatal ==
    /\ up
    /\ \E h \in Handler : Writing(h) \cap
            (Marshalling \cup UNION {Reading(g) \cup Writing(g) : g \in Handler \ {h}}) # {}
    /\ Panic /\ UNCHANGED others

----------------------------------------------------------------------------
Handle(h) ==
    \/ Return(h) \/ Exists(h) \/ Insert(h) \/ Latest(h) \/ Check(h) \/ Remove(h) \/ Lookup(h)
    \/ Chunks(h) \/ Drop(h) \/ LoadHandles(h) \/ Cut(h) \/ PutChunk(h) \/ ListHandle(h) \/ Locate(h) \/ Answer(h)

\* The handle of createChunk is one that the file has, or had, which the
\* client knows from an append.
Requests ==
    \E h \in Handler, p \in Path : \E op \in Ops[p] :
        \E num \in (IF op = "write" THEN 0 .. MaxChunks ELSE {0}),
           handle \in (IF op = "createChunk" THEN {k \in DOMAIN made : made[k] = p} ELSE {0}) :
            Start(h, op, p, num, handle)

Storing == Marshal \/ MarshalChunks \/ MarshalHandles \/ Save

Next == Requests \/ (\E h \in Handler : Handle(h)) \/ Storing \/ Fatal

Spec == Init /\ [][Next]_vars

============================================================================
