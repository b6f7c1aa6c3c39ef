-------------------------- MODULE GfsMasterProofs --------------------------
(***************************************************************************)
(* The handlers of the GeekGFS master without a lock, for any number of    *)
(* handlers, files and requests: the types, what survives when several     *)
(* work on one file, and that those that work alone on a file look as if   *)
(* each worked at one moment.                                              *)
(***************************************************************************)
EXTENDS GfsMasterProperties, SequenceTheorems, TLAPS

(* The invariant *)

Labels == {"idle", "done", "exists", "insert", "latest", "check", "remove", "lookup",
           "chunks", "drop", "cut", "shrink", "put", "list", "append", "locate", "answer"}
OpNames == {"create", "read", "write", "append", "createChunk", "delete"}

\* What n handles and m objects allow.
Tables(n) == UNION {[D -> Locations] : D \in SUBSET (1 .. n)}
Files(n) == [chunks : Tables(n), handles : Seq(1 .. n)]
HandRecords(n, m) ==
    [pc : Labels, op : OpNames \cup {"none"}, path : Path \cup {"none"}, num : Nat,
     handle : 0 .. n, obj : 0 .. m, prev : Nat, status : {0, -1}, before : Files(n) \cup {None}]

MasterTyped ==
    /\ made \in Seq(Path) /\ up \in BOOLEAN /\ requests \in 0 .. MaxRequests
    /\ DOMAIN files \subseteq Path /\ files \in [DOMAIN files -> 1 .. Len(objects)]
    /\ objects \in Seq(Files(Len(made)))
    /\ hand \in [Handler -> HandRecords(Len(made), Len(objects))]

StorageTyped ==
    /\ storage = [pc |-> storage.pc, todo |-> storage.todo, now |-> storage.now,
                  still |-> storage.still, part |-> storage.part]
    /\ storage.pc \in {"idle", "files", "handles"}
    /\ storage.still \subseteq Path /\ DOMAIN storage.part \subseteq Path
    /\ DOMAIN storage.todo \subseteq Path
    /\ storage.todo \in [DOMAIN storage.todo -> DOMAIN objects]
    /\ storage.pc = "handles" => storage.now \in DOMAIN storage.todo \cap DOMAIN storage.part
    /\ \A p \in DOMAIN storage.part : storage.part[p]
            = [handles |-> storage.part[p].handles, chunks |-> storage.part[p].chunks]

\* What a handler knows: its request, and whether its pointer and its handle
\* are set.
HasPointer(h) ==
    hand[h].pc \in {"chunks", "drop", "cut", "shrink", "put", "list", "append", "answer"}
HasHandle(h) ==
    \/ hand[h].pc \in {"put", "list", "append"}
    \/ hand[h].op = "create" /\ hand[h].pc \in {"insert", "lookup"}
    \/ hand[h].op = "createChunk" /\ hand[h].pc \in {"check", "lookup"}

Control(h) ==
    LET pc == hand[h].pc
        op == hand[h].op
    IN  /\ pc # "idle" => hand[h].path \in Path /\ op \in Ops[hand[h].path]
        /\ pc \in {"exists", "insert", "locate", "answer"} => op = "create"
        /\ pc = "latest" => op = "append"
        /\ pc = "remove" => op = "delete"
        /\ pc \in {"drop", "cut", "shrink"} => op = "write"
        /\ pc = "chunks" => op \in {"read", "write", "append"}
        /\ pc \in {"put", "list", "append"} => op \in {"create", "createChunk", "write"}
        /\ pc = "lookup" => op # "delete"
        /\ pc = "check" => op # "create"
        /\ HasPointer(h) => hand[h].obj \in DOMAIN objects
        /\ HasHandle(h) => hand[h].handle \in DOMAIN made
                           /\ made[hand[h].handle] = hand[h].path

\* An object is of one path, which its chunks are made for.
Owns(p, o) ==
    \/ p \in DOMAIN files /\ files[p] = o
    \/ \E h \in Handler : HasPointer(h) /\ hand[h].path = p /\ hand[h].obj = o
OneOwner ==
    \A o \in DOMAIN objects : \A p, q \in Path : Owns(p, o) /\ Owns(q, o) => p = q
ChunksOfOwner ==
    /\ \A o \in DOMAIN objects : \A p \in Path : Owns(p, o) =>
            \A k \in DOMAIN objects[o].chunks : made[k] = p
    /\ \A h \in Handler : hand[h].pc # "idle" /\ hand[h].before # None =>
            \A k \in DOMAIN hand[h].before.chunks : made[k] = hand[h].path

\* Who works on a file.
Working(h, p) == hand[h].pc # "idle" /\ hand[h].path = p
OneAtATime ==
    \A g, h \in Handler : \A p \in Path :
        Working(g, p) /\ Working(h, p)
          /\ p \notin Shared => g = h

\* A slice is loaded between the load and the store only, and long enough to cut.
LoadedTyped == loaded \in [Handler -> Seq(1 .. Len(made))]
SliceLoaded(h) ==
    /\ hand[h].pc \notin {"append", "shrink"} => loaded[h] = <<>>
    /\ hand[h].pc = "shrink" => hand[h].num <= Len(loaded[h])

MasterInv ==
    /\ MasterTyped /\ LoadedTyped
    /\ \A h \in Handler : Control(h) /\ SliceLoaded(h)
    /\ OneOwner /\ OneAtATime

\* A handle is at one place of one object only, in the object's list and in the
\* slices loaded from it; one that is about to be listed is at none yet.
Adds(h) == HasHandle(h) /\ "createChunk" \notin Ops[hand[h].path]
Place(k, o, i) ==
    \/ o \in DOMAIN objects /\ i \in DOMAIN objects[o].handles /\ objects[o].handles[i] = k
    \/ \E h \in Handler : /\ HasPointer(h) /\ hand[h].obj = o
                          /\ i \in DOMAIN loaded[h] /\ loaded[h][i] = k
OnePlace ==
    \A k \in DOMAIN made : "createChunk" \notin Ops[made[k]] =>
        \A o, q \in DOMAIN objects : \A i, j \in Nat :
            Place(k, o, i) /\ Place(k, q, j) => o = q /\ i = j
Unlisted(h) == Adds(h) =>
    /\ \A o \in DOMAIN objects : \A i \in Nat : ~Place(hand[h].handle, o, i)
    /\ \A g \in Handler : Adds(g) /\ hand[g].handle = hand[h].handle => g = h
ListsKept == OnePlace /\ \A h \in Handler : Unlisted(h)

\* A file that nobody has worked on since the backup began.
Kept(p) == storage.pc = "idle" \/
    /\ p \in DOMAIN files
    /\ \A h \in Handler : ~Working(h, p)
    /\ p \in DOMAIN storage.todo => storage.todo[p] = files[p]
    /\ p \notin DOMAIN storage.todo =>
          p \in DOMAIN storage.part /\ storage.part[p].handles = objects[files[p]].handles
    /\ p \notin DOMAIN storage.todo \/ (storage.pc = "handles" /\ storage.now = p) =>
          DOMAIN storage.part[p].chunks = DOMAIN objects[files[p]].chunks
BackupKept == \A p \in storage.still : Kept(p)

\* How far a handler that works alone has got with the file that it found.
GrownFrom(b, f) ==
    /\ Len(f.handles) >= Len(b.handles)
    /\ \A i \in 1 .. Len(b.handles) : f.handles[i] = b.handles[i]
    /\ \A i \in Len(b.handles) + 1 .. Len(f.handles) : f.handles[i] \notin DOMAIN b.chunks
    /\ DOMAIN f.chunks = DOMAIN b.chunks
            \cup {f.handles[i] : i \in Len(b.handles) + 1 .. Len(f.handles)}
    /\ \A k \in DOMAIN b.chunks : f.chunks[k] = b.chunks[k]

WithChunk(f, k, loc) == [chunks |-> Put(f.chunks, k, loc), handles |-> f.handles]

SoFar(h) ==
    LET r == hand[h]
        b == r.before
        f == FileAt(r.path)
    IN  /\ r.pc \in {"exists", "latest", "check", "remove", "chunks", "drop"} => f = b
        /\ r.pc = "lookup" /\ r.op # "create" => f = b
        /\ r.pc \in {"remove", "lookup", "chunks", "drop", "cut", "shrink", "put", "list", "append"}
                /\ r.op # "create" => b # None
        /\ r.op = "create" /\ r.pc \in {"insert", "lookup", "put", "list", "append", "locate", "answer"}
             => b = None
        /\ r.op = "create" /\ r.pc \in {"lookup", "put"} => f = NewFile
        /\ r.pc = "insert" => f = None
        /\ HasPointer(h) => r.path \in DOMAIN files /\ r.obj = files[r.path]
        /\ r.pc \in {"cut", "shrink"} =>
                f = [chunks |-> KeepChunks(b, r.num).chunks, handles |-> b.handles]
        /\ r.pc \in {"chunks", "drop", "cut", "shrink"} => r.prev = Len(b.handles)
        /\ r.pc \in {"drop", "cut", "shrink"} => r.num <= r.prev
        /\ r.pc \in {"shrink", "append"} => loaded[h] = f.handles
        /\ r.pc = "put" /\ r.op = "createChunk" => f = b
        /\ r.pc = "put" /\ r.op = "write" => GrownFrom(b, f) /\ r.handle \notin DOMAIN f.chunks
        /\ r.pc \in {"list", "append"} => \E loc \in Locations :
            /\ r.op = "create" => f = WithChunk(NewFile, r.handle, loc)
            /\ r.op = "createChunk" => f = WithChunk(b, r.handle, loc)
            /\ r.op = "write" => \E g : /\ GrownFrom(b, g) /\ r.handle \notin DOMAIN g.chunks
                                        /\ f = WithChunk(g, r.handle, loc)
        /\ r.pc \in {"locate", "answer"} => \E loc \in Locations :
            f = AddChunk(NewFile, r.handle, loc)
SoFarAlone ==
    \A h \in Handler : hand[h].pc \notin {"idle", "done"} /\ hand[h].path \notin Shared => SoFar(h)

-----------------------------------------------------------------------------
(* Tables, files and hands *)

LEMMA InTables ==
  ASSUME NEW n \in Nat, NEW c
  PROVE  c \in Tables(n) <=> c \in [DOMAIN c -> Locations] /\ DOMAIN c \subseteq 1 .. n
  BY DEF Tables

LEMMA TypesGrow ==
  ASSUME NEW n \in Nat, NEW m \in Nat, NEW k \in Nat, NEW l \in Nat, n <= k, m <= l
  PROVE  /\ Tables(n) \subseteq Tables(k) /\ Files(n) \subseteq Files(k)
         /\ Seq(Files(n)) \subseteq Seq(Files(k))
         /\ HandRecords(n, m) \subseteq HandRecords(k, l)
<1>1. 1 .. n \subseteq 1 .. k /\ 0 .. n \subseteq 0 .. k /\ 0 .. m \subseteq 0 .. l
  OBVIOUS
<1>2. Tables(n) \subseteq Tables(k)
  BY <1>1 DEF Tables
<1>3. Seq(1 .. n) \subseteq Seq(1 .. k)
  BY <1>1, SeqMonotonic
<1>4. Files(n) \subseteq Files(k)
  BY <1>2, <1>3 DEF Files
<1>5. Seq(Files(n)) \subseteq Seq(Files(k))
  BY <1>4, SeqMonotonic
<1>6. HandRecords(n, m) \subseteq HandRecords(k, l)
  BY <1>1, <1>4 DEF HandRecords
<1> QED
  BY <1>2, <1>4, <1>5, <1>6

LEMMA ChosenLocations ==
  ASSUME NEW index \in Server
  PROVE  ChooseChunkServerLocations(index) \in Locations
  BY GfsAssumption DEF GfsAssumption, ChooseChunkServerLocations, Locations, Server

LEMMA NewFileTyped ==
  ASSUME NEW n \in Nat
  PROVE  NewFile \in Files(n)
<1>1. EmptyMap \in Tables(n)
  BY InTables DEF EmptyMap
<1> QED
  BY <1>1, EmptySeq DEF NewFile, Files

LEMMA PutTyped ==
  ASSUME NEW n \in Nat, NEW c \in Tables(n), NEW k \in 1 .. n, NEW loc \in Locations
  PROVE  Put(c, k, loc) \in Tables(n)
<1>1. c \in [DOMAIN c -> Locations] /\ DOMAIN c \subseteq 1 .. n
  BY InTables
<1>2. Put(c, k, loc) \in [DOMAIN Put(c, k, loc) -> Locations]
      /\ DOMAIN Put(c, k, loc) \subseteq 1 .. n
  BY <1>1 DEF Put
<1> QED
  BY <1>2, InTables

LEMMA WithoutTyped ==
  ASSUME NEW n \in Nat, NEW c \in Tables(n), NEW K
  PROVE  Without(c, K) \in Tables(n) /\ DOMAIN Without(c, K) = DOMAIN c \ K
         /\ \A k \in DOMAIN c \ K : Without(c, K)[k] = c[k]
<1> DEFINE w == Without(c, K)
<1>1. c \in [DOMAIN c -> Locations] /\ DOMAIN c \subseteq 1 .. n
  BY InTables
<1>2. DOMAIN w = DOMAIN c \ K /\ (\A k \in DOMAIN c \ K : w[k] = c[k])
      /\ w \in [DOMAIN w -> Locations]
  BY <1>1 DEF Without, Restrict
<1> HIDE DEF w
<1>3. w \in Tables(n)
  BY <1>1, <1>2, InTables
<1> QED
  BY <1>2, <1>3 DEF w

\* No File is None.
LEMMA FileIsNotNone ==
  ASSUME NEW n \in Nat, NEW f \in Files(n)
  PROVE  f # None /\ f = [chunks |-> f.chunks, handles |-> f.handles]
         /\ f.chunks \in Tables(n) /\ f.handles \in Seq(1 .. n)
<1>1. f.handles \in Seq(1 .. n)
  BY DEF Files
<1>2. f.handles # <<0>>
  <2> SUFFICES ASSUME f.handles = << 0 >> PROVE FALSE
    OBVIOUS
  <2>1. Len(f.handles) = 1 /\ f.handles[1] = 0
    OBVIOUS
  <2>2. f.handles[1] \in 1 .. n
    BY <1>1, <2>1, ElementOfSeq
  <2> QED
    BY <2>1, <2>2
<1> QED
  BY <1>1, <1>2 DEF None, Files

LEMMA MadeGrows ==
  ASSUME MasterTyped, NEW p \in Path, made' = Append(made, p)
  PROVE  /\ made' \in Seq(Path) /\ Len(made') = Len(made) + 1 /\ NextHandle \in 1 .. Len(made')
         /\ made'[NextHandle] = p /\ \A k \in DOMAIN made : k \in DOMAIN made' /\ made'[k] = made[k]
         /\ DOMAIN made = 1 .. Len(made) /\ DOMAIN made' = 1 .. Len(made') /\ Len(made) \in Nat
  BY AppendProperties, LenProperties DEF MasterTyped, NextHandle

-----------------------------------------------------------------------------
(* Types *)

\* The facts about the types that the steps need.
LEMMA Typed ==
  ASSUME MasterTyped
  PROVE  /\ Len(made) \in Nat /\ DOMAIN made = 1 .. Len(made)
         /\ Len(objects) \in Nat /\ DOMAIN objects = 1 .. Len(objects)
         /\ \A o \in DOMAIN objects : objects[o] \in Files(Len(made))
         /\ DOMAIN hand = Handler
         /\ \A h \in Handler : hand[h] \in HandRecords(Len(made), Len(objects))
         /\ \A p \in DOMAIN files : files[p] \in DOMAIN objects
<1>1. Len(made) \in Nat /\ DOMAIN made = 1 .. Len(made)
  BY LenProperties DEF MasterTyped
<1>2. /\ Len(objects) \in Nat /\ DOMAIN objects = 1 .. Len(objects)
      /\ \A o \in DOMAIN objects : objects[o] \in Files(Len(made))
  BY LenProperties, ElementOfSeq DEF MasterTyped
<1> QED
  BY <1>1, <1>2 DEF MasterTyped

\* One handler changes its own locals only.
Moves(h, r) == hand' = [hand EXCEPT ![h] = r]

\* The File it works on is replaced.
Becomes(h, f) == objects' = [objects EXCEPT ![hand[h].obj] = f]

LEMMA Moved ==
  ASSUME MasterTyped, NEW h \in Handler, NEW r, Moves(h, r)
  PROVE  /\ DOMAIN hand' = Handler /\ hand'[h] = r
         /\ \A g \in Handler : g # h => hand'[g] = hand[g]
  BY Typed DEF Moves

\* Each action on the locals of its handler.
LEMMA ReturnMoves ==
  ASSUME MasterTyped, NEW h \in Handler, Return(h)
  PROVE  hand[h].pc = "done" /\ Moves(h, Idle) /\ UNCHANGED <<metadata, others>>
  BY Typed DEF Return, Moves, At

LEMMA ExistsMoves ==
  ASSUME MasterTyped, NEW h \in Handler, Exists(h)
  PROVE  /\ hand[h].pc = "exists" /\ UNCHANGED others
         /\ \/ /\ Found(h) /\ Moves(h, [hand[h] EXCEPT !.pc = "done", !.status = -1])
               /\ UNCHANGED metadata
            \/ /\ ~Found(h) /\ Moves(h, [hand[h] EXCEPT !.pc = "insert", !.handle = NextHandle])
               /\ made' = Append(made, hand[h].path)
               /\ UNCHANGED <<files, objects, up>>
  BY Typed DEF Exists, Done, Moves, metadata, At, others

LEMMA InsertMoves ==
  ASSUME MasterTyped, NEW h \in Handler, Insert(h)
  PROVE  /\ hand[h].pc = "insert" /\ UNCHANGED others
         /\ Moves(h, [hand[h] EXCEPT !.pc = "lookup"])
         /\ objects' = Append(objects, NewFile) /\ files' = Put(files, hand[h].path, Len(objects'))
         /\ UNCHANGED <<made, up>>
  BY Typed DEF Insert, GoTo, Moves, At, others

LEMMA LatestMoves ==
  ASSUME MasterTyped, NEW h \in Handler, Latest(h)
  PROVE  /\ hand[h].pc = "latest" /\ UNCHANGED <<metadata, others>>
         /\ \E k \in 0 .. Len(made) : Moves(h, [hand[h] EXCEPT !.pc = "check", !.handle = k])
<1> DEFINE f == FileAt(hand[h].path)
           k == IF f.handles = <<>> THEN 0 ELSE GetLatestChunkHandle(f)
<1>1. f = None \/ f \in Files(Len(made))
  BY Typed DEF FileAt
<1>2. f.handles \in Seq(0 .. Len(made))
  <2>1. CASE f = None
    BY <2>1, Typed DEF None
  <2>2. CASE f \in Files(Len(made))
    <3>1. f.handles \in Seq(1 .. Len(made))
      BY <2>2, Typed, FileIsNotNone
    <3>2. 1 .. Len(made) \subseteq 0 .. Len(made)
      BY Typed
    <3> QED
      BY <3>1, <3>2, SeqMonotonic
  <2> QED
    BY <1>1, <2>1, <2>2
<1> HIDE DEF f
<1>3. k \in 0 .. Len(made)
  <2>1. CASE f.handles = <<>>
    BY <2>1, Typed
  <2>2. CASE f.handles # <<>>
    <3>1. Len(f.handles) \in 1 .. Len(f.handles)
      BY <1>2, <2>2, LenProperties, EmptySeq
    <3> QED
      BY <1>2, <2>2, <3>1, ElementOfSeq DEF GetLatestChunkHandle
  <2> QED
    BY <2>1, <2>2
<1>4. Moves(h, [hand[h] EXCEPT !.pc = "check", !.handle = k])
  BY Typed DEF Latest, Moves, f
<1> QED
  BY <1>3, <1>4 DEF Latest, At

LEMMA CheckMoves ==
  ASSUME MasterTyped, NEW h \in Handler, Check(h)
  PROVE  /\ hand[h].pc = "check" /\ UNCHANGED <<metadata, others>>
         /\ \/ ~Found(h) /\ Moves(h, [hand[h] EXCEPT !.pc = "done", !.status = -1])
            \/ /\ Found(h) /\ hand[h].op = "delete"
               /\ Moves(h, [hand[h] EXCEPT !.pc = "remove"])
            \/ /\ Found(h) /\ hand[h].op # "delete"
               /\ Moves(h, [hand[h] EXCEPT !.pc = "lookup"])
  BY Typed DEF Check, Done, GoTo, Moves, At

LEMMA RemoveMoves ==
  ASSUME MasterTyped, NEW h \in Handler, Remove(h)
  PROVE  /\ hand[h].pc = "remove" /\ UNCHANGED others
         /\ Moves(h, [hand[h] EXCEPT !.pc = "done", !.status = 0])
         /\ files' = Without(files, {hand[h].path})
         /\ UNCHANGED <<objects, made, up>>
  BY Typed DEF Remove, Done, Moves, At, others

LEMMA LookupMoves ==
  ASSUME MasterTyped, NEW h \in Handler, Lookup(h)
  PROVE  /\ hand[h].pc = "lookup" /\ UNCHANGED others
         /\ \/ /\ Found(h) /\ UNCHANGED metadata
               /\ Moves(h, [hand[h] EXCEPT !.obj = files[hand[h].path],
                      !.prev = Len(objects[files[hand[h].path]].handles),
                      !.pc = IF hand[h].op \in {"create", "createChunk"} THEN "put"
                             ELSE "chunks"])
            \/ /\ ~Found(h) /\ UNCHANGED metadata
               /\ Moves(h, [hand[h] EXCEPT !.pc = "done", !.status = -1])
            \/ Panic
  BY Typed DEF Lookup, Done, Moves, metadata, At

LEMMA ChunksMoves ==
  ASSUME MasterTyped, NEW h \in Handler, Chunks(h)
  PROVE  /\ hand[h].pc = "chunks" /\ UNCHANGED others
         /\ \/ Panic
            \/ /\ hand[h].op # "write" /\ UNCHANGED metadata
               /\ Moves(h, [hand[h] EXCEPT !.pc = "done", !.status = 0])
            \/ /\ hand[h].op = "write" /\ hand[h].num <= hand[h].prev /\ UNCHANGED metadata
               /\ Moves(h, [hand[h] EXCEPT !.pc = "drop"])
            \/ /\ hand[h].op = "write" /\ hand[h].num > hand[h].prev
               /\ Moves(h, [hand[h] EXCEPT !.pc = "put", !.handle = NextHandle,
                                           !.num = hand[h].num - hand[h].prev])
               /\ made' = Append(made, hand[h].path) /\ UNCHANGED <<files, objects, up>>
  BY Typed DEF Chunks, Done, GoTo, Moves, metadata, At

LEMMA DropMoves ==
  ASSUME MasterTyped, NEW h \in Handler, Drop(h)
  PROVE  /\ hand[h].pc = "drop" /\ UNCHANGED <<files, made, up, others>>
         /\ Becomes(h, [File(h) EXCEPT !.chunks = Without(File(h).chunks, HandlesBehind(File(h), hand[h].num))])
         /\ Moves(h, [hand[h] EXCEPT !.pc = "cut"])
  BY Typed DEF Drop, GoTo, Moves, At, Becomes, File

LEMMA LoadMoves ==
  ASSUME MasterTyped, NEW h \in Handler, LoadHandles(h)
  PROVE  /\ hand[h].pc \in {"cut", "list"} /\ UNCHANGED saving
         /\ \/ Panic /\ UNCHANGED loaded
            \/ /\ loaded' = [loaded EXCEPT ![h] = File(h).handles] /\ UNCHANGED metadata
               /\ \/ /\ hand[h].pc = "cut" /\ hand[h].num <= Len(File(h).handles)
                     /\ Moves(h, [hand[h] EXCEPT !.pc = "shrink"])
                  \/ hand[h].pc = "list" /\ Moves(h, [hand[h] EXCEPT !.pc = "append"])
  BY Typed DEF LoadHandles, GoTo, Moves, At, File

LEMMA CutMoves ==
  ASSUME MasterTyped, NEW h \in Handler, Cut(h)
  PROVE  /\ hand[h].pc = "shrink" /\ UNCHANGED <<files, made, up, saving>>
         /\ Becomes(h, [File(h) EXCEPT !.handles = SubSeq(loaded[h], 1, hand[h].num)])
         /\ Moves(h, [hand[h] EXCEPT !.pc = "done", !.status = 0])
         /\ loaded' = [loaded EXCEPT ![h] = <<>>]
  BY Typed DEF Cut, Store, Done, Moves, At, Becomes, File

LEMMA PutChunkMoves ==
  ASSUME MasterTyped, NEW h \in Handler, PutChunk(h)
  PROVE  /\ hand[h].pc = "put" /\ UNCHANGED <<files, made, up, others>>
         /\ \E loc \in Locations :
                Becomes(h, [File(h) EXCEPT !.chunks = Put(File(h).chunks, hand[h].handle, loc)])
         /\ Moves(h, [hand[h] EXCEPT !.pc = "list"])
  BY Typed, ChosenLocations DEF PutChunk, GoTo, Moves, At, Becomes, File

LEMMA ListHandleMoves ==
  ASSUME MasterTyped, NEW h \in Handler, ListHandle(h)
  PROVE  /\ hand[h].pc = "append" /\ UNCHANGED <<files, up, saving>>
         /\ Becomes(h, [File(h) EXCEPT !.handles = Append(loaded[h], hand[h].handle)])
         /\ loaded' = [loaded EXCEPT ![h] = <<>>]
         /\ \/ /\ hand[h].op = "write" /\ hand[h].num > 1
               /\ Moves(h, [hand[h] EXCEPT !.pc = "put", !.handle = NextHandle,
                                           !.num = hand[h].num - 1])
               /\ made' = Append(made, hand[h].path)
            \/ /\ hand[h].op = "create" /\ Moves(h, [hand[h] EXCEPT !.pc = "locate"])
               /\ made' = made
            \/ /\ hand[h].op # "create"
               /\ Moves(h, [hand[h] EXCEPT !.pc = "done", !.status = 0])
               /\ made' = made
  BY Typed DEF ListHandle, NextChunk, Store, Done, GoTo, Moves, At, Becomes, File

LEMMA LocateMoves ==
  ASSUME MasterTyped, NEW h \in Handler, Locate(h)
  PROVE  /\ hand[h].pc = "locate" /\ UNCHANGED <<metadata, others>>
         /\ \/ ~Found(h) /\ Moves(h, [hand[h] EXCEPT !.pc = "done", !.status = 0])
            \/ Found(h) /\ Moves(h, [hand[h] EXCEPT !.pc = "answer",
                                                    !.obj = files[hand[h].path]])
  BY Typed DEF Locate, Done, Moves, At

LEMMA AnswerMoves ==
  ASSUME MasterTyped, NEW h \in Handler, Answer(h)
  PROVE  /\ hand[h].pc = "answer" /\ UNCHANGED others
         /\ \/ /\ Moves(h, [hand[h] EXCEPT !.pc = "done", !.status = 0]) /\ UNCHANGED metadata
            \/ Panic
  BY Typed DEF Answer, Done, Moves, At

LEMMA StartMoves ==
  ASSUME MasterTyped, NEW h \in Handler, NEW op, NEW p, NEW num, NEW handle,
         Start(h, op, p, num, handle)
  PROVE  /\ hand[h].pc = "idle" /\ UNCHANGED <<metadata, loaded>>
         /\ Moves(h, [Idle EXCEPT !.pc = First(op), !.op = op, !.path = p, !.num = num,
                                  !.handle = handle, !.before = Before(p)])
         /\ storage' = [storage EXCEPT !.still = @ \ {p}]
         /\ requests < MaxRequests /\ requests' = requests + 1
  BY Typed DEF Start, Moves, At

-----------------------------------------------------------------------------
(* Types, pointers and handles *)

\* The object a handler works on, after its chunks or handles were replaced.
LEMMA Became ==
  ASSUME MasterTyped, NEW h \in Handler, hand[h].obj \in DOMAIN objects, NEW f, Becomes(h, f)
  PROVE  /\ DOMAIN objects' = DOMAIN objects /\ objects'[hand[h].obj] = f
         /\ \A o \in DOMAIN objects : o # hand[h].obj => objects'[o] = objects[o]
         /\ f \in Files(Len(made)) =>
               objects' \in Seq(Files(Len(made))) /\ Len(objects') = Len(objects)
<1>1. objects \in Seq(Files(Len(made)))
  BY DEF MasterTyped
<1>2. f \in Files(Len(made)) =>
         objects' \in Seq(Files(Len(made))) /\ Len(objects') = Len(objects)
  BY <1>1, ExceptSeq DEF Becomes
<1> QED
  BY <1>2, Typed DEF Becomes

LEMMA TypesStep ==
  ASSUME MasterTyped, NEW h \in Handler, NEW r, Moves(h, r),
         made' = made \/ \E p \in Path : made' = Append(made, p),
         up' \in BOOLEAN, requests' \in 0 .. MaxRequests,
         \/ objects' = objects
         \/ objects' = Append(objects, NewFile)
         \/ hand[h].obj \in DOMAIN objects
              /\ \E f \in Files(Len(made)) : Becomes(h, f),
         DOMAIN files' \subseteq Path, files' \in [DOMAIN files' -> 1 .. Len(objects')],
         r \in HandRecords(Len(made'), Len(objects'))
  PROVE  MasterTyped'
<1>1. Len(made) \in Nat /\ Len(objects) \in Nat
  BY Typed
<1>2. made' \in Seq(Path) /\ Len(made') \in Nat /\ Len(made) <= Len(made')
  <2>1. CASE made' = made
    BY <1>1, <2>1 DEF MasterTyped
  <2>2. ASSUME NEW p \in Path, made' = Append(made, p)
        PROVE  made' \in Seq(Path) /\ Len(made') \in Nat /\ Len(made) <= Len(made')
    BY <1>1, <2>2, MadeGrows
  <2> QED
    BY <2>1, <2>2
<1>3. objects' \in Seq(Files(Len(made))) /\ Len(objects') \in Nat
      /\ Len(objects) <= Len(objects')
  <2>1. CASE objects' = objects
    BY <1>1, <2>1 DEF MasterTyped
  <2>2. CASE objects' = Append(objects, NewFile)
    BY <1>1, <2>2, NewFileTyped, AppendProperties DEF MasterTyped
  <2>3. CASE hand[h].obj \in DOMAIN objects /\ \E f \in Files(Len(made)) : Becomes(h, f)
    BY <1>1, <2>3, Became
  <2> QED
    BY <2>1, <2>2, <2>3
<1>4. objects' \in Seq(Files(Len(made')))
  BY <1>1, <1>2, <1>3, TypesGrow
<1>5. HandRecords(Len(made), Len(objects)) \subseteq HandRecords(Len(made'), Len(objects'))
  BY <1>1, <1>2, <1>3, TypesGrow
<1>6. hand' \in [Handler -> HandRecords(Len(made'), Len(objects'))]
  BY <1>5, Typed DEF Moves, MasterTyped
<1> QED
  BY <1>2, <1>4, <1>6 DEF MasterTyped

\* A File stays a File when its table or its list changes.
LEMMA ChunksChanged ==
  ASSUME NEW n \in Nat, NEW f \in Files(n), NEW c \in Tables(n)
  PROVE  LET g == [f EXCEPT !.chunks = c]
         IN  g = [chunks |-> c, handles |-> f.handles] /\ g \in Files(n)
<1>1. f = [chunks |-> f.chunks, handles |-> f.handles] /\ f.handles \in Seq(1 .. n)
  BY FileIsNotNone
<1>2. [f EXCEPT !.chunks = c] = [chunks |-> c, handles |-> f.handles]
  BY <1>1
<1> QED
  BY <1>1, <1>2 DEF Files

LEMMA HandlesChanged ==
  ASSUME NEW n \in Nat, NEW f \in Files(n), NEW l \in Seq(1 .. n)
  PROVE  LET g == [f EXCEPT !.handles = l]
         IN  g = [chunks |-> f.chunks, handles |-> l] /\ g \in Files(n)
<1>1. f = [chunks |-> f.chunks, handles |-> f.handles] /\ f.chunks \in Tables(n)
  BY FileIsNotNone
<1>2. [f EXCEPT !.handles = l] = [chunks |-> f.chunks, handles |-> l]
  BY <1>1
<1> QED
  BY <1>1, <1>2 DEF Files

\* The handles behind the first num are dropped from the table.
LEMMA DropTyped ==
  ASSUME NEW n \in Nat, NEW f \in Files(n), NEW num
  PROVE  LET c == Without(f.chunks, HandlesBehind(f, num))
         IN  /\ c \in Tables(n) /\ DOMAIN c = DOMAIN f.chunks \ HandlesBehind(f, num)
             /\ \A x \in DOMAIN c : c[x] = f.chunks[x]
<1>1. f.chunks \in Tables(n)
  BY FileIsNotNone
<1>2. PICK t, K : t = f.chunks /\ K = HandlesBehind(f, num)
  OBVIOUS
<1>3. t \in Tables(n)
  BY <1>1, <1>2
<1>4. Without(t, K) \in Tables(n) /\ DOMAIN Without(t, K) = DOMAIN t \ K
      /\ \A k \in DOMAIN t \ K : Without(t, K)[k] = t[k]
  BY <1>3, WithoutTyped
<1> QED
  BY <1>2, <1>4

LEMMA KeepChunksTyped ==
  ASSUME NEW n \in Nat, NEW f \in Files(n), NEW num \in Nat, num <= Len(f.handles)
  PROVE  LET k == KeepChunks(f, num)
             gone == {f.handles[i] : i \in num + 1 .. Len(f.handles)}
         IN  /\ k \in Files(n) /\ k = [chunks |-> k.chunks, handles |-> k.handles]
             /\ Len(k.handles) = num /\ \A i \in 1 .. num : k.handles[i] = f.handles[i]
             /\ DOMAIN k.chunks = DOMAIN f.chunks \ gone
             /\ \A x \in DOMAIN f.chunks \ gone : k.chunks[x] = f.chunks[x]
<1> DEFINE gone == {f.handles[i] : i \in num + 1 .. Len(f.handles)}
           c == Without(f.chunks, gone)
           l == SubSeq(f.handles, 1, num)
<1>1. f.chunks \in Tables(n) /\ f.handles \in Seq(1 .. n)
  BY FileIsNotNone
<1>2. KeepChunks(f, num) = [chunks |-> c, handles |-> l]
  BY DEF KeepChunks, HandlesBehind
<1> HIDE DEF gone, l
<1>3. c \in Tables(n) /\ DOMAIN c = DOMAIN f.chunks \ gone
      /\ \A x \in DOMAIN f.chunks \ gone : c[x] = f.chunks[x]
  <2> DEFINE t == f.chunks
  <2>1. t \in Tables(n)
    BY <1>1
  <2> HIDE DEF t
  <2>2. \A K : Without(t, K) \in Tables(n) /\ DOMAIN Without(t, K) = DOMAIN t \ K
                /\ \A x \in DOMAIN t \ K : Without(t, K)[x] = t[x]
    BY <2>1, WithoutTyped
  <2>3. Without(t, gone) \in Tables(n) /\ DOMAIN Without(t, gone) = DOMAIN t \ gone
        /\ \A x \in DOMAIN t \ gone : Without(t, gone)[x] = t[x]
    BY <2>2
  <2> QED
    BY <2>3 DEF t
<1> HIDE DEF c
<1>4. \A i \in 1 .. num : f.handles[i] \in 1 .. n
  BY <1>1, ElementOfSeq
<1>5. l \in Seq(1 .. n) /\ Len(l) = num /\ \A i \in 1 .. num : l[i] = f.handles[i]
  BY <1>1, <1>4, SubSeqProperties DEF l
<1> QED
  BY <1>2, <1>3, <1>5 DEF Files, gone

\* The File of a handler that has a pointer.
LEMMA FileOf ==
  ASSUME MasterInv, NEW h \in Handler, HasPointer(h)
  PROVE  /\ hand[h].obj \in DOMAIN objects /\ File(h) = objects[hand[h].obj]
         /\ File(h) \in Files(Len(made)) /\ Len(made) \in Nat
         /\ File(h).chunks \in Tables(Len(made)) /\ File(h).handles \in Seq(1 .. Len(made))
         /\ Len(File(h).handles) \in Nat
         /\ DOMAIN File(h).handles = 1 .. Len(File(h).handles)
         /\ hand[h].path \in Path /\ hand[h].num \in Nat /\ hand[h].prev \in Nat
         /\ loaded[h] \in Seq(1 .. Len(made)) /\ Len(loaded[h]) \in Nat
         /\ hand[h].pc = "shrink" => hand[h].num <= Len(loaded[h])
<1>1. hand[h] \in HandRecords(Len(made), Len(objects)) /\ MasterTyped
  BY Typed DEF MasterInv
<1>2. /\ hand[h].obj \in DOMAIN objects /\ hand[h].path \in Path
      /\ hand[h].pc = "shrink" => hand[h].num <= Len(loaded[h])
  BY DEF MasterInv, Control, HasPointer, SliceLoaded
<1>3. File(h) \in Files(Len(made)) /\ Len(made) \in Nat
  BY <1>1, <1>2, Typed DEF File
<1>4. File(h).chunks \in Tables(Len(made)) /\ File(h).handles \in Seq(1 .. Len(made))
  BY <1>3, FileIsNotNone
<1>5. Len(File(h).handles) \in Nat /\ DOMAIN File(h).handles = 1 .. Len(File(h).handles)
  BY <1>4, LenProperties
<1>6. hand[h].num \in Nat /\ hand[h].prev \in Nat
  BY <1>1 DEF HandRecords
<1>7. loaded[h] \in Seq(1 .. Len(made)) /\ Len(loaded[h]) \in Nat
  BY LenProperties DEF MasterInv, LoadedTyped
<1> QED
  BY <1>2, <1>3, <1>4, <1>5, <1>6, <1>7 DEF File

\* The File after each of the four actions that change one.
LEMMA DropFile ==
  ASSUME MasterInv, NEW h \in Handler, Drop(h)
  PROVE  LET f == [chunks |-> Without(File(h).chunks, HandlesBehind(File(h), hand[h].num)),
                   handles |-> File(h).handles]
         IN  f \in Files(Len(made)) /\ Becomes(h, f)
<1>1. hand[h].pc = "drop"
      /\ Becomes(h, [File(h) EXCEPT !.chunks = Without(File(h).chunks, HandlesBehind(File(h), hand[h].num))])
  BY DropMoves DEF MasterInv
<1>2. File(h) \in Files(Len(made)) /\ Len(made) \in Nat
  BY <1>1, FileOf DEF HasPointer
<1>3. Without(File(h).chunks, HandlesBehind(File(h), hand[h].num)) \in Tables(Len(made))
      /\ File(h).handles \in Seq(1 .. Len(made))
  BY <1>2, FileIsNotNone, DropTyped
<1>4. PICK n, x : n = Len(made) /\ x = Without(File(h).chunks, HandlesBehind(File(h), hand[h].num))
  OBVIOUS
<1>5. PICK g : g = File(h)
  OBVIOUS
<1>6. n \in Nat /\ g \in Files(n) /\ x \in Tables(n)
  BY <1>2, <1>3, <1>4, <1>5
<1>7. /\ [g EXCEPT !.chunks = x] = [chunks |-> x, handles |-> g.handles]
      /\ [g EXCEPT !.chunks = x] \in Files(n)
  BY <1>6, ChunksChanged
<1>8. Becomes(h, [g EXCEPT !.chunks = x])
  BY <1>1, <1>4, <1>5
<1> QED
  BY <1>4, <1>5, <1>7, <1>8

LEMMA CutFile ==
  ASSUME MasterInv, NEW h \in Handler, Cut(h)
  PROVE  LET f == [chunks |-> File(h).chunks,
                   handles |-> SubSeq(loaded[h], 1, hand[h].num)]
         IN  f \in Files(Len(made)) /\ Becomes(h, f)
<1>1. hand[h].pc = "shrink"
      /\ Becomes(h, [File(h) EXCEPT !.handles = SubSeq(loaded[h], 1, hand[h].num)])
  BY CutMoves DEF MasterInv
<1>2. /\ File(h) \in Files(Len(made)) /\ Len(made) \in Nat /\ hand[h].num \in Nat
      /\ loaded[h] \in Seq(1 .. Len(made)) /\ hand[h].num <= Len(loaded[h])
      /\ File(h).chunks \in Tables(Len(made))
  BY <1>1, FileOf DEF HasPointer
<1>3. SubSeq(loaded[h], 1, hand[h].num) \in Seq(1 .. Len(made))
  BY <1>2, SubSeqProperties, ElementOfSeq, LenProperties
<1>4. PICK n, x : n = Len(made) /\ x = SubSeq(loaded[h], 1, hand[h].num)
  OBVIOUS
<1>5. PICK g : g = File(h)
  OBVIOUS
<1>6. n \in Nat /\ g \in Files(n) /\ x \in Seq(1 .. n)
  BY <1>2, <1>3, <1>4, <1>5
<1>7. /\ [g EXCEPT !.handles = x] = [chunks |-> g.chunks, handles |-> x]
      /\ [g EXCEPT !.handles = x] \in Files(n)
  BY <1>6, HandlesChanged
<1>8. Becomes(h, [g EXCEPT !.handles = x])
  BY <1>1, <1>4, <1>5
<1> QED
  BY <1>4, <1>5, <1>7, <1>8

LEMMA PutFile ==
  ASSUME MasterInv, NEW h \in Handler, PutChunk(h)
  PROVE  \E loc \in Locations :
            WithChunk(File(h), hand[h].handle, loc) \in Files(Len(made))
              /\ Becomes(h, WithChunk(File(h), hand[h].handle, loc))
<1>1. hand[h].pc = "put"
  BY PutChunkMoves DEF MasterInv
<1>2. PICK loc \in Locations :
         Becomes(h, [File(h) EXCEPT !.chunks = Put(File(h).chunks, hand[h].handle, loc)])
  BY PutChunkMoves DEF MasterInv
<1>3. hand[h].handle \in 1 .. Len(made) /\ HasPointer(h)
  BY <1>1, Typed DEF MasterInv, Control, HasHandle, HasPointer
<1>4. Put(File(h).chunks, hand[h].handle, loc) \in Tables(Len(made))
      /\ File(h) \in Files(Len(made)) /\ Len(made) \in Nat
      /\ File(h).handles \in Seq(1 .. Len(made))
  BY <1>3, FileOf, PutTyped
<1> QED
  BY <1>2, <1>4, ChunksChanged DEF WithChunk

LEMMA ListFile ==
  ASSUME MasterInv, NEW h \in Handler, ListHandle(h)
  PROVE  LET f == [chunks |-> File(h).chunks,
                   handles |-> Append(loaded[h], hand[h].handle)]
         IN  f \in Files(Len(made)) /\ Becomes(h, f)
<1>1. hand[h].pc = "append"
      /\ Becomes(h, [File(h) EXCEPT !.handles = Append(loaded[h], hand[h].handle)])
  BY ListHandleMoves DEF MasterInv
<1>2. hand[h].handle \in 1 .. Len(made) /\ HasPointer(h)
  BY <1>1, Typed DEF MasterInv, Control, HasHandle, HasPointer
<1>3. Append(loaded[h], hand[h].handle) \in Seq(1 .. Len(made))
      /\ File(h) \in Files(Len(made)) /\ Len(made) \in Nat
      /\ File(h).chunks \in Tables(Len(made))
  BY <1>2, FileOf, AppendProperties
<1> DEFINE l == Append(loaded[h], hand[h].handle)
<1> HIDE DEF l
<1>4. [File(h) EXCEPT !.handles = l] = [chunks |-> File(h).chunks, handles |-> l]
      /\ [File(h) EXCEPT !.handles = l] \in Files(Len(made))
  BY <1>3, HandlesChanged DEF l
<1> QED
  BY <1>1, <1>4 DEF l

\* The locals of a handler that is about to add a chunk, and of one that begins.
LEMMA PutRecord ==
  ASSUME NEW n \in Nat, NEW m \in Nat, NEW r \in HandRecords(n, m),
         NEW k \in 0 .. n, NEW num \in Nat
  PROVE  [r EXCEPT !.pc = "put", !.handle = k, !.num = num] \in HandRecords(n, m)
  BY DEF HandRecords, Labels

LEMMA StartRecord ==
  ASSUME NEW n \in Nat, NEW m \in Nat, NEW k \in 0 .. n, NEW num \in Nat,
         NEW pc \in Labels, NEW op \in OpNames, NEW p \in Path, NEW b \in Files(n) \cup {None}
  PROVE  LET r == [Idle EXCEPT !.pc = pc, !.op = op, !.path = p, !.num = num, !.handle = k,
                               !.before = b]
         IN  r \in HandRecords(n, m)
<1> DEFINE e == [Idle EXCEPT !.pc = pc, !.op = op, !.path = p, !.num = num, !.handle = k,
                             !.before = b]
           f == [pc |-> pc, op |-> op, path |-> p, num |-> num, handle |-> k, obj |-> 0,
                 prev |-> 0, status |-> 0, before |-> b]
           D == {"pc", "op", "path", "num", "handle", "obj", "prev", "status", "before"}
<1> SUFFICES e = f /\ f \in HandRecords(n, m)
  OBVIOUS
<1>1. f \in HandRecords(n, m)
  BY DEF HandRecords
<1>2. DOMAIN e = D
  BY DEF Idle
<1>3. /\ e.pc = pc /\ e.op = op /\ e.path = p /\ e.num = num /\ e.handle = k /\ e.obj = 0
      /\ e.prev = 0 /\ e.status = 0 /\ e.before = b
  BY DEF Idle
<1>4. e = [x \in DOMAIN e |-> e[x]]
  BY DEF Idle
<1>5. f = [x \in D |-> f[x]]
  OBVIOUS
<1>6. \A x \in D : e[x] = f[x]
  <2> HIDE DEF e
  <2> QED
    BY <1>3
<1> HIDE DEF e, f, D
<1>7. e = [x \in D |-> e[x]]
  BY <1>2, <1>4
<1>8. [x \in D |-> e[x]] = [x \in D |-> f[x]]
  BY <1>6
<1> QED
  BY <1>1, <1>5, <1>7, <1>8

LEMMA IdleTyped ==
  ASSUME NEW n \in Nat, NEW m \in Nat
  PROVE  Idle \in HandRecords(n, m)
  BY DEF Idle, HandRecords, Labels

\* The step of a handler that leaves the map of the files alone.
LEMMA SameFiles ==
  ASSUME MasterTyped, files' = files, Len(objects') = Len(objects)
  PROVE  DOMAIN files' \subseteq Path /\ files' \in [DOMAIN files' -> 1 .. Len(objects')]
  BY DEF MasterTyped

\* A handler that changes no map and makes at most a handle.
LEMMA LocalsTyped ==
  ASSUME MasterTyped, NEW h \in Handler, NEW r, Moves(h, r), UNCHANGED <<files, objects>>,
         made' = made \/ \E p \in Path : made' = Append(made, p),
         up' \in BOOLEAN, requests' \in 0 .. MaxRequests, r \in HandRecords(Len(made'), Len(objects))
  PROVE  MasterTyped'
<1>1. DOMAIN files' \subseteq Path /\ files' \in [DOMAIN files' -> 1 .. Len(objects')]
  BY SameFiles
<1> QED
  BY <1>1, TypesStep

\* What is typed in every state, for the leaves that follow.
LEMMA HandNow ==
  ASSUME MasterInv, NEW h \in Handler
  PROVE  /\ hand[h] \in HandRecords(Len(made), Len(objects))
         /\ Len(made) \in Nat /\ Len(objects) \in Nat
         /\ hand[h].pc # "idle" => hand[h].path \in Path
         /\ up \in BOOLEAN /\ requests \in 0 .. MaxRequests /\ MasterTyped
  BY Typed DEF MasterInv, Control, MasterTyped

\* The record of a handler that also made a handle.
LEMMA HandAfterMade ==
  ASSUME MasterInv, NEW h \in Handler, NEW p \in Path, made' = Append(made, p)
  PROVE  hand[h] \in HandRecords(Len(made'), Len(objects)) /\ NextHandle \in 1 .. Len(made')
         /\ NextHandle \in 0 .. Len(made') /\ Len(made') = Len(made) + 1
<1>1. Len(made') = Len(made) + 1 /\ NextHandle \in 1 .. Len(made')
  BY MadeGrows DEF MasterInv
<1>2. HandRecords(Len(made), Len(objects)) \subseteq HandRecords(Len(made'), Len(objects))
  BY <1>1, HandNow, TypesGrow
<1> QED
  BY <1>1, <1>2, HandNow

LEMMA PanicTyped ==
  ASSUME MasterTyped, Panic, UNCHANGED others
  PROVE  MasterTyped'
  BY DEF MasterTyped, Panic, others

LEMMA StartTyped ==
  ASSUME MasterInv, NEW h \in Handler, NEW p \in Path, NEW op \in Ops[p],
         NEW num \in 0 .. MaxChunks, NEW handle \in 0 .. Len(made), Start(h, op, p, num, handle)
  PROVE  MasterTyped'
<1> DEFINE r == [Idle EXCEPT !.pc = First(op), !.op = op, !.path = p, !.num = num,
                             !.handle = handle, !.before = Before(p)]
<1>1. Moves(h, r) /\ UNCHANGED metadata /\ requests < MaxRequests /\ requests' = requests + 1
  BY StartMoves DEF MasterInv
<1>2. op \in OpNames /\ MaxRequests \in Nat /\ MaxChunks \in Nat
  BY RacesAssumption DEF RacesAssumption, OpNames
<1>3. Before(p) \in Files(Len(made)) \cup {None}
  BY Typed, HandNow DEF Before, FileAt
<1>4. First(op) \in Labels
  BY DEF First, Labels
<1>5. r \in HandRecords(Len(made), Len(objects))
  <2>1. num \in Nat /\ Len(made) \in Nat /\ Len(objects) \in Nat
    BY <1>2, HandNow
  <2> QED
    BY <1>2, <1>3, <1>4, <2>1, StartRecord
<1> HIDE DEF r
<1>6. requests' \in 0 .. MaxRequests
  BY <1>1, <1>2, HandNow
<1> QED
  BY <1>1, <1>5, <1>6, LocalsTyped, HandNow DEF metadata

\* A handler that changes the File that it works on, and makes no handle.
LEMMA BecomesTyped ==
  ASSUME MasterInv, NEW h \in Handler, HasPointer(h), NEW f \in Files(Len(made)), Becomes(h, f),
         NEW pc \in Labels, NEW status \in {0, -1},
         \/ Moves(h, [hand[h] EXCEPT !.pc = pc])
         \/ Moves(h, [hand[h] EXCEPT !.pc = pc, !.status = status]),
         UNCHANGED <<files, made, up, requests>>
  PROVE  MasterTyped'
<1>0. /\ hand[h] \in HandRecords(Len(made), Len(objects)) /\ MasterTyped
      /\ Len(made) \in Nat /\ Len(objects) \in Nat /\ hand[h].obj \in DOMAIN objects
      /\ up \in BOOLEAN /\ requests \in 0 .. MaxRequests
  BY HandNow, FileOf
<1>1. Len(objects') = Len(objects)
  BY <1>0, Became
<1>2. DOMAIN files' \subseteq Path /\ files' \in [DOMAIN files' -> 1 .. Len(objects')]
  BY <1>0, <1>1, SameFiles
<1>3. /\ [hand[h] EXCEPT !.pc = pc] \in HandRecords(Len(made'), Len(objects'))
      /\ [hand[h] EXCEPT !.pc = pc, !.status = status] \in HandRecords(Len(made'), Len(objects'))
  BY <1>0, <1>1 DEF HandRecords
<1> QED
  BY <1>0, <1>2, <1>3, TypesStep

LEMMA HandleTyped ==
  ASSUME MasterInv, NEW h \in Handler, Handle(h)
  PROVE  MasterTyped'
<1>0. /\ hand[h] \in HandRecords(Len(made), Len(objects)) /\ MasterTyped
      /\ Len(made) \in Nat /\ Len(objects) \in Nat
      /\ hand[h].pc # "idle" => hand[h].path \in Path
      /\ up \in BOOLEAN /\ requests \in 0 .. MaxRequests
  BY HandNow
<1>1. CASE Return(h)
  BY <1>0, <1>1, ReturnMoves, IdleTyped, LocalsTyped DEF metadata, others
<1>2. CASE Exists(h)
  <2>1. hand[h].pc = "exists" /\ UNCHANGED others
    BY <1>0, <1>2, ExistsMoves
  <2>2. CASE Moves(h, [hand[h] EXCEPT !.pc = "done", !.status = -1]) /\ UNCHANGED metadata
    <3>1. [hand[h] EXCEPT !.pc = "done", !.status = -1] \in HandRecords(Len(made), Len(objects))
      BY <1>0 DEF HandRecords, Labels
    <3> QED
      BY <1>0, <2>1, <2>2, <3>1, LocalsTyped DEF metadata, others
  <2>3. CASE /\ Moves(h, [hand[h] EXCEPT !.pc = "insert", !.handle = NextHandle])
             /\ made' = Append(made, hand[h].path) /\ UNCHANGED <<files, objects, up>>
    <3>1. hand[h].path \in Path
      BY <1>0, <2>1
    <3>2. [hand[h] EXCEPT !.pc = "insert", !.handle = NextHandle]
              \in HandRecords(Len(made'), Len(objects))
      <4>1. PICK r, k, n, m : /\ r = hand[h] /\ k = NextHandle
                              /\ n = Len(made') /\ m = Len(objects)
        OBVIOUS
      <4>2. r \in HandRecords(n, m) /\ k \in 0 .. n
        BY <2>3, <3>1, <4>1, HandAfterMade
      <4>3. [r EXCEPT !.pc = "insert", !.handle = k] \in HandRecords(n, m)
        BY <4>2 DEF HandRecords, Labels
      <4> QED
        BY <4>1, <4>3
    <3> QED
      BY <1>0, <2>1, <2>3, <3>1, <3>2, LocalsTyped DEF others
  <2> QED
    BY <1>0, <1>2, <2>2, <2>3, ExistsMoves
<1>3. CASE Insert(h)
  <2>1. /\ hand[h].pc = "insert" /\ UNCHANGED others
        /\ Moves(h, [hand[h] EXCEPT !.pc = "lookup"])
        /\ objects' = Append(objects, NewFile) /\ files' = Put(files, hand[h].path, Len(objects'))
        /\ UNCHANGED <<made, up>>
    BY <1>0, <1>3, InsertMoves
  <2>2. Len(objects') = Len(objects) + 1
    BY <1>0, <2>1, NewFileTyped, AppendProperties DEF MasterTyped
  <2>3. HandRecords(Len(made), Len(objects)) \subseteq HandRecords(Len(made'), Len(objects'))
    BY <1>0, <2>1, <2>2, TypesGrow
  <2>4. [hand[h] EXCEPT !.pc = "lookup"] \in HandRecords(Len(made'), Len(objects'))
    BY <1>0, <2>3 DEF HandRecords, Labels
  <2>5. DOMAIN files' \subseteq Path /\ files' \in [DOMAIN files' -> 1 .. Len(objects')]
    BY <1>0, <2>1, <2>2 DEF MasterTyped, Put
  <2> QED
    BY <1>0, <2>1, <2>4, <2>5, TypesStep DEF others
<1>4. CASE Latest(h)
  <2>1. PICK k \in 0 .. Len(made) : Moves(h, [hand[h] EXCEPT !.pc = "check", !.handle = k])
    BY <1>0, <1>4, LatestMoves
  <2>2. [hand[h] EXCEPT !.pc = "check", !.handle = k] \in HandRecords(Len(made), Len(objects))
    BY <1>0 DEF HandRecords, Labels
  <2> QED
    BY <1>0, <1>4, <2>1, <2>2, LatestMoves, LocalsTyped DEF metadata, others
<1>5. CASE Check(h)
  <2>1. /\ [hand[h] EXCEPT !.pc = "done", !.status = -1] \in HandRecords(Len(made), Len(objects))
        /\ [hand[h] EXCEPT !.pc = "remove"] \in HandRecords(Len(made), Len(objects))
        /\ [hand[h] EXCEPT !.pc = "lookup"] \in HandRecords(Len(made), Len(objects))
    BY <1>0 DEF HandRecords, Labels
  <2>2. /\ UNCHANGED <<metadata, others>>
        /\ \/ Moves(h, [hand[h] EXCEPT !.pc = "done", !.status = -1])
           \/ Moves(h, [hand[h] EXCEPT !.pc = "remove"])
           \/ Moves(h, [hand[h] EXCEPT !.pc = "lookup"])
    BY <1>0, <1>5, CheckMoves
  <2> QED
    BY <1>0, <2>1, <2>2, LocalsTyped DEF metadata, others
<1>6. CASE Remove(h)
  <2>1. [hand[h] EXCEPT !.pc = "done", !.status = 0] \in HandRecords(Len(made), Len(objects))
    BY <1>0 DEF HandRecords, Labels
  <2>2. /\ Moves(h, [hand[h] EXCEPT !.pc = "done", !.status = 0]) /\ UNCHANGED others
        /\ files' = Without(files, {hand[h].path}) /\ UNCHANGED <<objects, made, up>>
    BY <1>0, <1>6, RemoveMoves
  <2>3. DOMAIN files' \subseteq Path /\ files' \in [DOMAIN files' -> 1 .. Len(objects')]
    BY <1>0, <2>2 DEF MasterTyped, Without, Restrict
  <2> QED
    BY <1>0, <2>1, <2>2, <2>3, TypesStep DEF others
<1>7. CASE Lookup(h)
  <2>1. CASE Found(h)
    <3> DEFINE o == files[hand[h].path]
               r == [hand[h] EXCEPT !.obj = o, !.prev = Len(objects[o].handles),
                       !.pc = IF hand[h].op \in {"create", "createChunk"} THEN "put" ELSE "chunks"]
    <3>1. o \in DOMAIN objects /\ o \in 0 .. Len(objects) /\ objects[o] \in Files(Len(made))
      BY <1>0, <2>1, Typed DEF Found
    <3>2. Len(objects[o].handles) \in Nat
      BY <1>0, <3>1, FileIsNotNone, LenProperties
    <3>3. UNCHANGED others /\ ((UNCHANGED metadata /\ Moves(h, r)) \/ Panic)
      BY <1>0, <1>7, <2>1, LookupMoves
    <3> HIDE DEF o
    <3>4. r \in HandRecords(Len(made), Len(objects))
      BY <1>0, <3>1, <3>2 DEF HandRecords, Labels
    <3> HIDE DEF r
    <3> QED
      BY <1>0, <3>3, <3>4, LocalsTyped, PanicTyped DEF metadata, others
  <2>2. CASE ~Found(h)
    <3>1. [hand[h] EXCEPT !.pc = "done", !.status = -1] \in HandRecords(Len(made), Len(objects))
      BY <1>0 DEF HandRecords, Labels
    <3>2. /\ UNCHANGED others
          /\ \/ UNCHANGED metadata /\ Moves(h, [hand[h] EXCEPT !.pc = "done", !.status = -1])
             \/ Panic
      BY <1>0, <1>7, <2>2, LookupMoves
    <3> QED
      BY <1>0, <3>1, <3>2, LocalsTyped, PanicTyped DEF metadata, others
  <2> QED
    BY <2>1, <2>2
<1>8. CASE Chunks(h)
  <2>0. hand[h].pc = "chunks" /\ UNCHANGED others
    BY <1>0, <1>8, ChunksMoves
  <2>1. CASE Panic
    BY <1>0, <2>0, <2>1, PanicTyped
  <2>2. CASE /\ UNCHANGED metadata
             /\ \/ Moves(h, [hand[h] EXCEPT !.pc = "done", !.status = 0])
                \/ Moves(h, [hand[h] EXCEPT !.pc = "drop"])
    <3>1. /\ [hand[h] EXCEPT !.pc = "done", !.status = 0] \in HandRecords(Len(made), Len(objects))
          /\ [hand[h] EXCEPT !.pc = "drop"] \in HandRecords(Len(made), Len(objects))
      BY <1>0 DEF HandRecords, Labels
    <3> QED
      BY <1>0, <2>0, <2>2, <3>1, LocalsTyped DEF metadata, others
  <2>3. CASE /\ hand[h].num > hand[h].prev
             /\ Moves(h, [hand[h] EXCEPT !.pc = "put", !.handle = NextHandle,
                                         !.num = hand[h].num - hand[h].prev])
             /\ made' = Append(made, hand[h].path) /\ UNCHANGED <<files, objects, up>>
    <3>1. hand[h].path \in Path
      BY <1>0, <2>0
    <3>2. hand[h].num - hand[h].prev \in Nat
      BY <1>0, <2>3 DEF HandRecords
    <3>3. [hand[h] EXCEPT !.pc = "put", !.handle = NextHandle, !.num = hand[h].num - hand[h].prev]
              \in HandRecords(Len(made'), Len(objects))
      <4>1. hand[h] \in HandRecords(Len(made'), Len(objects)) /\ NextHandle \in 0 .. Len(made')
            /\ Len(made') \in Nat
        BY <1>0, <2>3, <3>1, HandAfterMade
      <4> QED
        BY <1>0, <3>2, <4>1, PutRecord
    <3> QED
      BY <1>0, <2>0, <2>3, <3>1, <3>3, LocalsTyped DEF others
  <2> QED
    BY <1>0, <1>8, <2>1, <2>2, <2>3, ChunksMoves
<1>9. CASE Drop(h)
  <2>1. PICK f \in Files(Len(made)) : Becomes(h, f)
    BY <1>9, DropFile
  <2>2. /\ hand[h].pc = "drop" /\ UNCHANGED <<files, made, up, requests>>
        /\ Moves(h, [hand[h] EXCEPT !.pc = "cut"])
    BY <1>0, <1>9, DropMoves DEF others
  <2> QED
    BY <2>1, <2>2, BecomesTyped DEF Labels, HasPointer
<1>10. CASE Cut(h)
  <2>1. PICK f \in Files(Len(made)) : Becomes(h, f)
    BY <1>10, CutFile
  <2>2. /\ hand[h].pc = "shrink" /\ UNCHANGED <<files, made, up, requests>>
        /\ Moves(h, [hand[h] EXCEPT !.pc = "done", !.status = 0])
    BY <1>0, <1>10, CutMoves DEF saving
  <2> QED
    BY <2>1, <2>2, BecomesTyped DEF Labels, HasPointer
<1>11. CASE PutChunk(h)
  <2>1. PICK f \in Files(Len(made)) : Becomes(h, f)
    BY <1>11, PutFile
  <2>2. /\ hand[h].pc = "put" /\ UNCHANGED <<files, made, up, requests>>
        /\ Moves(h, [hand[h] EXCEPT !.pc = "list"])
    BY <1>0, <1>11, PutChunkMoves DEF others
  <2> QED
    BY <2>1, <2>2, BecomesTyped DEF Labels, HasPointer
<1>12. CASE ListHandle(h)
  <2>1. PICK f \in Files(Len(made)) : Becomes(h, f)
    BY <1>12, ListFile
  <2>2. hand[h].pc = "append" /\ UNCHANGED <<files, up, saving>>
    BY <1>0, <1>12, ListHandleMoves
  <2>3. CASE \/ Moves(h, [hand[h] EXCEPT !.pc = "locate"]) /\ made' = made
             \/ Moves(h, [hand[h] EXCEPT !.pc = "done", !.status = 0]) /\ made' = made
    <3>1. UNCHANGED <<files, made, up, requests>>
      BY <2>2, <2>3 DEF saving
    <3> QED
      BY <2>1, <2>2, <2>3, <3>1, BecomesTyped DEF Labels, HasPointer
  <2>4. CASE /\ hand[h].op = "write" /\ hand[h].num > 1
             /\ Moves(h, [hand[h] EXCEPT !.pc = "put", !.handle = NextHandle,
                                         !.num = hand[h].num - 1])
             /\ made' = Append(made, hand[h].path)
    <3>1. hand[h].path \in Path /\ hand[h].obj \in DOMAIN objects
      BY <1>0, <2>2, FileOf DEF HasPointer
    <3>2. hand[h].num - 1 \in Nat
      BY <1>0, <2>4 DEF HandRecords
    <3>3. [hand[h] EXCEPT !.pc = "put", !.handle = NextHandle, !.num = hand[h].num - 1]
              \in HandRecords(Len(made'), Len(objects))
      <4>1. hand[h] \in HandRecords(Len(made'), Len(objects)) /\ NextHandle \in 0 .. Len(made')
            /\ Len(made') \in Nat
        BY <1>0, <2>4, <3>1, HandAfterMade
      <4> QED
        BY <1>0, <3>2, <4>1, PutRecord
    <3>4. Len(objects') = Len(objects)
      BY <1>0, <2>1, <3>1, Became
    <3>5. DOMAIN files' \subseteq Path /\ files' \in [DOMAIN files' -> 1 .. Len(objects')]
      BY <1>0, <2>2, <3>4, SameFiles
    <3> QED
      BY <1>0, <2>1, <2>2, <2>4, <3>1, <3>3, <3>4, <3>5, TypesStep DEF saving
  <2> QED
    BY <1>0, <1>12, <2>3, <2>4, ListHandleMoves
<1>13. CASE Locate(h)
  <2>1. CASE ~Found(h)
    <3>1. [hand[h] EXCEPT !.pc = "done", !.status = 0] \in HandRecords(Len(made), Len(objects))
      BY <1>0 DEF HandRecords, Labels
    <3> QED
      BY <1>0, <1>13, <2>1, <3>1, LocateMoves, LocalsTyped DEF metadata, others
  <2>2. CASE Found(h)
    <3>1. files[hand[h].path] \in 0 .. Len(objects)
      BY <1>0, <2>2, Typed DEF Found
    <3>2. [hand[h] EXCEPT !.pc = "answer", !.obj = files[hand[h].path]]
             \in HandRecords(Len(made), Len(objects))
      BY <1>0, <3>1 DEF HandRecords, Labels
    <3> QED
      BY <1>0, <1>13, <2>2, <3>2, LocateMoves, LocalsTyped DEF metadata, others
  <2> QED
    BY <2>1, <2>2
<1>14. CASE Answer(h)
  <2>1. [hand[h] EXCEPT !.pc = "done", !.status = 0] \in HandRecords(Len(made), Len(objects))
    BY <1>0 DEF HandRecords, Labels
  <2> QED
    BY <1>0, <1>14, <2>1, AnswerMoves, LocalsTyped, PanicTyped DEF metadata, others
<1>15. CASE LoadHandles(h)
  <2>1. /\ [hand[h] EXCEPT !.pc = "shrink"] \in HandRecords(Len(made), Len(objects))
        /\ [hand[h] EXCEPT !.pc = "append"] \in HandRecords(Len(made), Len(objects))
    BY <1>0 DEF HandRecords, Labels
  <2>2. UNCHANGED saving
        /\ \/ Panic /\ UNCHANGED loaded
           \/ /\ UNCHANGED metadata
              /\ \/ Moves(h, [hand[h] EXCEPT !.pc = "shrink"])
                 \/ Moves(h, [hand[h] EXCEPT !.pc = "append"])
    BY <1>0, <1>15, LoadMoves
  <2>3. CASE Panic /\ UNCHANGED loaded
    BY <1>0, <2>2, <2>3, PanicTyped DEF others, saving
  <2>4. CASE /\ UNCHANGED metadata
             /\ \/ Moves(h, [hand[h] EXCEPT !.pc = "shrink"])
                \/ Moves(h, [hand[h] EXCEPT !.pc = "append"])
    BY <1>0, <2>1, <2>2, <2>4, LocalsTyped DEF metadata, saving
  <2> QED
    BY <2>2, <2>3, <2>4
<1> QED
  BY <1>1, <1>2, <1>3, <1>4, <1>5, <1>6, <1>7, <1>8, <1>9, <1>10, <1>11, <1>12, <1>13, <1>14,
     <1>15 DEF Handle

-----------------------------------------------------------------------------
(* What the steps of a handler do to its locals and to the tables *)

\* The request that a handler works on does not change, nor do other handlers.
Goes(h, pc) ==
    /\ hand'[h].pc = pc /\ hand'[h].op = hand[h].op /\ hand'[h].path = hand[h].path
    /\ hand'[h].before = hand[h].before
    /\ \A g \in Handler : g # h => hand'[g] = hand[g]
Carries(h) == hand'[h].handle = hand[h].handle /\ hand'[h].num = hand[h].num
Points(h) == hand'[h].obj = hand[h].obj /\ hand'[h].prev = hand[h].prev
Stops == UNCHANGED <<files, objects, made, hand, loaded, storage, requests>> /\ up' = FALSE

\* A new value of the object of h.
Changes(h, f) ==
    /\ DOMAIN objects' = DOMAIN objects /\ objects'[hand[h].obj] = f
    /\ \A o \in DOMAIN objects : o # hand[h].obj => objects'[o] = objects[o]

\* The locals that a step does not assign keep their values.
LEMMA GoesOn ==
  ASSUME MasterInv, NEW h \in Handler, NEW pc, NEW status,
         \/ Moves(h, [hand[h] EXCEPT !.pc = pc])
         \/ Moves(h, [hand[h] EXCEPT !.pc = pc, !.status = status])
  PROVE  Goes(h, pc) /\ Carries(h) /\ Points(h)
<1>1. PICK r : r = hand[h]
  OBVIOUS
<1>2. r \in HandRecords(Len(made), Len(objects)) /\ MasterTyped
  BY <1>1, HandNow
<1>3. /\ hand'[h] = [r EXCEPT !.pc = pc] \/ hand'[h] = [r EXCEPT !.pc = pc, !.status = status]
      /\ \A g \in Handler : g # h => hand'[g] = hand[g]
  BY <1>1, <1>2, Moved
<1>4. DOMAIN r = {"pc", "op", "path", "num", "handle", "obj", "prev", "status", "before"}
  BY <1>2 DEF HandRecords
<1> QED
  BY <1>1, <1>3, <1>4 DEF Goes, Carries, Points

LEMMA GoesWithHandle ==
  ASSUME MasterInv, NEW h \in Handler, NEW pc, NEW k, NEW num,
         \/ Moves(h, [hand[h] EXCEPT !.pc = pc, !.handle = k])
         \/ Moves(h, [hand[h] EXCEPT !.pc = pc, !.handle = k, !.num = num])
  PROVE  Goes(h, pc) /\ hand'[h].handle = k /\ Points(h)
<1>1. PICK r : r = hand[h]
  OBVIOUS
<1>2. r \in HandRecords(Len(made), Len(objects)) /\ MasterTyped
  BY <1>1, HandNow
<1>3. /\ \/ hand'[h] = [r EXCEPT !.pc = pc, !.handle = k]
         \/ hand'[h] = [r EXCEPT !.pc = pc, !.handle = k, !.num = num]
      /\ \A g \in Handler : g # h => hand'[g] = hand[g]
  BY <1>1, <1>2, Moved
<1>4. DOMAIN r = {"pc", "op", "path", "num", "handle", "obj", "prev", "status", "before"}
  BY <1>2 DEF HandRecords
<1> QED
  BY <1>1, <1>3, <1>4 DEF Goes, Points

LEMMA GoesWithPointer ==
  ASSUME MasterInv, NEW h \in Handler, NEW pc, NEW o
  PROVE  /\ Moves(h, [hand[h] EXCEPT !.pc = pc, !.obj = o])
              => Goes(h, pc) /\ Carries(h) /\ hand'[h].obj = o
         /\ \A prev : Moves(h, [hand[h] EXCEPT !.obj = o, !.prev = prev, !.pc = pc])
              => Goes(h, pc) /\ Carries(h) /\ hand'[h].obj = o /\ hand'[h].prev = prev
<1>1. PICK r : r = hand[h]
  OBVIOUS
<1>2. r \in HandRecords(Len(made), Len(objects)) /\ MasterTyped
  BY <1>1, HandNow
<1>3. DOMAIN r = {"pc", "op", "path", "num", "handle", "obj", "prev", "status", "before"}
  BY <1>2 DEF HandRecords
<1>4. ASSUME Moves(h, [r EXCEPT !.pc = pc, !.obj = o])
      PROVE  Goes(h, pc) /\ Carries(h) /\ hand'[h].obj = o
  <2>1. /\ hand'[h] = [r EXCEPT !.pc = pc, !.obj = o]
        /\ \A g \in Handler : g # h => hand'[g] = hand[g]
    BY <1>2, <1>4, Moved
  <2> QED
    BY <1>1, <1>3, <2>1 DEF Goes, Carries
<1>5. ASSUME NEW prev, Moves(h, [r EXCEPT !.obj = o, !.prev = prev, !.pc = pc])
      PROVE  Goes(h, pc) /\ Carries(h) /\ hand'[h].obj = o /\ hand'[h].prev = prev
  <2>1. /\ hand'[h] = [r EXCEPT !.obj = o, !.prev = prev, !.pc = pc]
        /\ \A g \in Handler : g # h => hand'[g] = hand[g]
    BY <1>2, <1>5, Moved
  <2> QED
    BY <1>1, <1>3, <2>1 DEF Goes, Carries
<1> QED
  BY <1>1, <1>4, <1>5

LEMMA ReturnStep ==
  ASSUME MasterInv, NEW h \in Handler, Return(h)
  PROVE  /\ hand[h].pc = "done" /\ hand'[h] = Idle /\ UNCHANGED <<files, objects, made, up, loaded, storage, requests>>
         /\ \A g \in Handler : g # h => hand'[g] = hand[g]
  BY ReturnMoves, Moved DEF MasterInv, metadata, others

LEMMA ExistsStep ==
  ASSUME MasterInv, NEW h \in Handler, Exists(h)
  PROVE  /\ hand[h].pc = "exists" /\ UNCHANGED <<files, objects, up, loaded, storage, requests>> /\ Points(h)
         /\ \/ Found(h) /\ Goes(h, "done") /\ Carries(h) /\ made' = made
            \/ /\ ~Found(h) /\ Goes(h, "insert") /\ hand'[h].handle = NextHandle
               /\ made' = Append(made, hand[h].path)
<1>1. hand[h] \in HandRecords(Len(made), Len(objects)) /\ MasterTyped
      /\ Len(made) \in Nat /\ Len(objects) \in Nat
  BY HandNow
<1>2. hand[h].pc = "exists" /\ UNCHANGED others
  BY <1>1, ExistsMoves
<1>3. CASE /\ Found(h) /\ Moves(h, [hand[h] EXCEPT !.pc = "done", !.status = -1])
           /\ UNCHANGED metadata
  BY <1>1, <1>2, <1>3, GoesOn DEF metadata, others
<1>4. CASE /\ ~Found(h) /\ Moves(h, [hand[h] EXCEPT !.pc = "insert", !.handle = NextHandle])
           /\ made' = Append(made, hand[h].path) /\ UNCHANGED <<files, objects, up>>
  BY <1>1, <1>2, <1>4, GoesWithHandle DEF others
<1> QED
  BY <1>1, <1>3, <1>4, ExistsMoves

LEMMA InsertStep ==
  ASSUME MasterInv, NEW h \in Handler, Insert(h)
  PROVE  /\ hand[h].pc = "insert" /\ UNCHANGED <<made, up, loaded, storage, requests>>
         /\ Goes(h, "lookup") /\ Carries(h) /\ Points(h)
         /\ DOMAIN objects' = DOMAIN objects \cup {Len(objects) + 1}
         /\ Len(objects) + 1 \notin DOMAIN objects
         /\ objects'[Len(objects) + 1] = NewFile
         /\ \A o \in DOMAIN objects : objects'[o] = objects[o]
         /\ DOMAIN files' = DOMAIN files \cup {hand[h].path}
         /\ files'[hand[h].path] = Len(objects) + 1
         /\ \A p \in DOMAIN files : p # hand[h].path => files'[p] = files[p]
<1>1. hand[h] \in HandRecords(Len(made), Len(objects)) /\ MasterTyped
      /\ Len(made) \in Nat /\ Len(objects) \in Nat
  BY HandNow
<1>2. /\ hand[h].pc = "insert" /\ UNCHANGED others
      /\ Moves(h, [hand[h] EXCEPT !.pc = "lookup"])
      /\ objects' = Append(objects, NewFile) /\ files' = Put(files, hand[h].path, Len(objects'))
      /\ UNCHANGED <<made, up>>
  BY <1>1, InsertMoves
<1>3. Goes(h, "lookup") /\ Carries(h) /\ Points(h)
  BY <1>2, GoesOn
<1>4. /\ objects' \in Seq(Files(Len(made))) /\ Len(objects') = Len(objects) + 1
      /\ DOMAIN objects = 1 .. Len(objects)
      /\ \A o \in 1 .. Len(objects) : objects'[o] = objects[o]
      /\ objects'[Len(objects) + 1] = NewFile
  BY <1>1, <1>2, NewFileTyped, AppendProperties, Typed DEF MasterTyped
<1>5. DOMAIN objects' = 1 .. Len(objects')
  BY <1>4, LenProperties
<1>6. DOMAIN objects' = DOMAIN objects \cup {Len(objects) + 1}
  BY <1>1, <1>4, <1>5
<1> QED
  BY <1>1, <1>2, <1>3, <1>4, <1>6 DEF Put, others

LEMMA LatestStep ==
  ASSUME MasterInv, NEW h \in Handler, Latest(h)
  PROVE  /\ hand[h].pc = "latest" /\ UNCHANGED <<files, objects, made, up, loaded, storage, requests>>
         /\ Goes(h, "check") /\ Points(h)
<1>1. hand[h] \in HandRecords(Len(made), Len(objects)) /\ MasterTyped
      /\ Len(made) \in Nat /\ Len(objects) \in Nat
  BY HandNow
<1>2. PICK k \in 0 .. Len(made) : Moves(h, [hand[h] EXCEPT !.pc = "check", !.handle = k])
  BY <1>1, LatestMoves
<1> QED
  BY <1>1, <1>2, LatestMoves, GoesWithHandle DEF metadata, others

LEMMA CheckStep ==
  ASSUME MasterInv, NEW h \in Handler, Check(h)
  PROVE  /\ hand[h].pc = "check" /\ UNCHANGED <<files, objects, made, up, loaded, storage, requests>>
         /\ Carries(h) /\ Points(h)
         /\ \/ ~Found(h) /\ Goes(h, "done")
            \/ Found(h) /\ hand[h].op = "delete" /\ Goes(h, "remove")
            \/ Found(h) /\ hand[h].op # "delete" /\ Goes(h, "lookup")
<1>1. hand[h] \in HandRecords(Len(made), Len(objects)) /\ MasterTyped
      /\ Len(made) \in Nat /\ Len(objects) \in Nat
  BY HandNow
<1>2. hand[h].pc = "check" /\ UNCHANGED <<metadata, others>>
  BY <1>1, CheckMoves
<1>3. CASE ~Found(h) /\ Moves(h, [hand[h] EXCEPT !.pc = "done", !.status = -1])
  BY <1>1, <1>2, <1>3, GoesOn DEF metadata, others
<1>4. CASE Found(h) /\ hand[h].op = "delete" /\ Moves(h, [hand[h] EXCEPT !.pc = "remove"])
  BY <1>1, <1>2, <1>4, GoesOn DEF metadata, others
<1>5. CASE Found(h) /\ hand[h].op # "delete" /\ Moves(h, [hand[h] EXCEPT !.pc = "lookup"])
  BY <1>1, <1>2, <1>5, GoesOn DEF metadata, others
<1> QED
  BY <1>1, <1>3, <1>4, <1>5, CheckMoves

LEMMA RemoveStep ==
  ASSUME MasterInv, NEW h \in Handler, Remove(h)
  PROVE  /\ hand[h].pc = "remove" /\ UNCHANGED <<objects, made, up, loaded, storage, requests>>
         /\ Goes(h, "done") /\ Carries(h) /\ Points(h)
         /\ DOMAIN files' = DOMAIN files \ {hand[h].path}
         /\ \A p \in DOMAIN files' : files'[p] = files[p]
<1>1. hand[h] \in HandRecords(Len(made), Len(objects)) /\ MasterTyped
      /\ Len(made) \in Nat /\ Len(objects) \in Nat
  BY HandNow
<1>2. /\ hand[h].pc = "remove" /\ UNCHANGED others
      /\ Moves(h, [hand[h] EXCEPT !.pc = "done", !.status = 0])
      /\ files' = Without(files, {hand[h].path}) /\ UNCHANGED <<objects, made, up>>
  BY <1>1, RemoveMoves
<1>3. Goes(h, "done") /\ Carries(h) /\ Points(h)
  BY <1>2, GoesOn
<1> QED
  BY <1>2, <1>3 DEF others, Without, Restrict

LEMMA LookupStep ==
  ASSUME MasterInv, NEW h \in Handler, Lookup(h)
  PROVE  /\ hand[h].pc = "lookup"
         /\ \/ /\ Found(h) /\ Carries(h) /\ hand'[h].obj = files[hand[h].path]
               /\ hand'[h].prev = Len(objects[files[hand[h].path]].handles)
               /\ Goes(h, IF hand[h].op \in {"create", "createChunk"} THEN "put" ELSE "chunks")
               /\ UNCHANGED <<files, objects, made, up, loaded, storage, requests>>
            \/ /\ ~Found(h) /\ Goes(h, "done") /\ Carries(h) /\ Points(h)
               /\ UNCHANGED <<files, objects, made, up, loaded, storage, requests>>
            \/ Stops
<1>1. hand[h] \in HandRecords(Len(made), Len(objects)) /\ MasterTyped
      /\ Len(made) \in Nat /\ Len(objects) \in Nat
  BY HandNow
<1>2. hand[h].pc = "lookup" /\ UNCHANGED others
  BY <1>1, LookupMoves
<1> DEFINE o == files[hand[h].path]
           l == Len(objects[o].handles)
           pc == IF hand[h].op \in {"create", "createChunk"} THEN "put" ELSE "chunks"
<1>3. CASE Found(h) /\ UNCHANGED metadata /\ Moves(h, [hand[h] EXCEPT !.obj = o, !.prev = l, !.pc = pc])
  <2> HIDE DEF o, l, pc
  <2>1. Goes(h, pc) /\ Carries(h) /\ hand'[h].obj = o /\ hand'[h].prev = l
    BY <1>3, GoesWithPointer
  <2> QED
    BY <1>2, <1>3, <2>1 DEF metadata, others, o, l, pc
<1>4. CASE ~Found(h) /\ UNCHANGED metadata /\ Moves(h, [hand[h] EXCEPT !.pc = "done", !.status = -1])
  BY <1>1, <1>2, <1>4, GoesOn DEF metadata, others
<1>5. CASE Panic
  BY <1>2, <1>5 DEF Panic, others, Stops
<1> QED
  BY <1>1, <1>3, <1>4, <1>5, LookupMoves

LEMMA ChunksStep ==
  ASSUME MasterInv, NEW h \in Handler, Chunks(h)
  PROVE  /\ hand[h].pc = "chunks"
         /\ \/ Stops
            \/ /\ Points(h) /\ UNCHANGED <<files, objects, up, loaded, storage, requests>>
               /\ \/ hand[h].op # "write" /\ Goes(h, "done") /\ Carries(h) /\ made' = made
                  \/ /\ hand[h].op = "write" /\ hand[h].num <= hand[h].prev
                     /\ Goes(h, "drop") /\ Carries(h) /\ made' = made
                  \/ /\ hand[h].op = "write" /\ hand[h].num > hand[h].prev
                     /\ Goes(h, "put") /\ hand'[h].handle = NextHandle
                     /\ made' = Append(made, hand[h].path)
<1>1. hand[h] \in HandRecords(Len(made), Len(objects)) /\ MasterTyped
      /\ Len(made) \in Nat /\ Len(objects) \in Nat
  BY HandNow
<1>2. hand[h].pc = "chunks" /\ UNCHANGED others
  BY <1>1, ChunksMoves
<1>3. CASE /\ hand[h].op # "write" /\ UNCHANGED metadata
           /\ Moves(h, [hand[h] EXCEPT !.pc = "done", !.status = 0])
  BY <1>1, <1>2, <1>3, GoesOn DEF metadata, others
<1>4. CASE /\ hand[h].op = "write" /\ hand[h].num <= hand[h].prev /\ UNCHANGED metadata
           /\ Moves(h, [hand[h] EXCEPT !.pc = "drop"])
  BY <1>1, <1>2, <1>4, GoesOn DEF metadata, others
<1>5. CASE /\ hand[h].op = "write" /\ hand[h].num > hand[h].prev
           /\ Moves(h, [hand[h] EXCEPT !.pc = "put", !.handle = NextHandle,
                                       !.num = hand[h].num - hand[h].prev])
           /\ made' = Append(made, hand[h].path) /\ UNCHANGED <<files, objects, up>>
  <2>1. Goes(h, "put") /\ hand'[h].handle = NextHandle /\ Points(h)
    BY <1>5, GoesWithHandle
  <2> QED
    BY <1>2, <1>5, <2>1 DEF others
<1>6. CASE Panic
  BY <1>2, <1>6 DEF Panic, others, Stops
<1> QED
  BY <1>1, <1>3, <1>4, <1>5, <1>6, ChunksMoves

LEMMA DropStep ==
  ASSUME MasterInv, NEW h \in Handler, Drop(h)
  PROVE  /\ hand[h].pc = "drop" /\ UNCHANGED <<files, made, up, loaded, storage, requests>>
         /\ Goes(h, "cut") /\ Carries(h) /\ Points(h)
         /\ Changes(h, [chunks |-> Without(File(h).chunks, HandlesBehind(File(h), hand[h].num)),
                        handles |-> File(h).handles])
<1>1. hand[h] \in HandRecords(Len(made), Len(objects)) /\ MasterTyped
      /\ Len(made) \in Nat /\ Len(objects) \in Nat
  BY HandNow
<1>2. hand[h].pc = "drop" /\ UNCHANGED <<files, made, up, others>>
      /\ Moves(h, [hand[h] EXCEPT !.pc = "cut"])
  BY <1>1, DropMoves
<1>3. hand[h].obj \in DOMAIN objects
  BY <1>2, FileOf DEF HasPointer
<1>4. Changes(h, [chunks |-> Without(File(h).chunks, HandlesBehind(File(h), hand[h].num)),
                        handles |-> File(h).handles])
  BY <1>1, <1>3, DropFile, Became DEF Changes
<1>5. Goes(h, "cut") /\ Carries(h) /\ Points(h)
  BY <1>2, GoesOn
<1> QED
  BY <1>2, <1>4, <1>5 DEF others

LEMMA LoadStep ==
  ASSUME MasterInv, NEW h \in Handler, LoadHandles(h)
  PROVE  /\ hand[h].pc \in {"cut", "list"}
         /\ \/ Stops
            \/ /\ UNCHANGED <<files, objects, made, up, storage, requests>>
               /\ loaded' = [loaded EXCEPT ![h] = File(h).handles]
               /\ Carries(h) /\ Points(h)
               /\ \/ /\ hand[h].pc = "cut" /\ hand[h].num <= Len(File(h).handles)
                     /\ Goes(h, "shrink")
                  \/ hand[h].pc = "list" /\ Goes(h, "append")
<1>1. /\ hand[h].pc \in {"cut", "list"} /\ UNCHANGED saving
      /\ \/ Panic /\ UNCHANGED loaded
         \/ /\ loaded' = [loaded EXCEPT ![h] = File(h).handles] /\ UNCHANGED metadata
            /\ \/ /\ hand[h].pc = "cut" /\ hand[h].num <= Len(File(h).handles)
                  /\ Moves(h, [hand[h] EXCEPT !.pc = "shrink"])
               \/ hand[h].pc = "list" /\ Moves(h, [hand[h] EXCEPT !.pc = "append"])
  BY HandNow, LoadMoves
<1>2. /\ Moves(h, [hand[h] EXCEPT !.pc = "shrink"]) => Goes(h, "shrink") /\ Carries(h) /\ Points(h)
      /\ Moves(h, [hand[h] EXCEPT !.pc = "append"]) => Goes(h, "append") /\ Carries(h) /\ Points(h)
  BY GoesOn
<1> QED
  BY <1>1, <1>2 DEF metadata, saving, Panic, Stops

LEMMA CutStep ==
  ASSUME MasterInv, NEW h \in Handler, Cut(h)
  PROVE  /\ hand[h].pc = "shrink" /\ UNCHANGED <<files, made, up, storage, requests>>
         /\ Goes(h, "done") /\ Carries(h) /\ Points(h) /\ loaded' = [loaded EXCEPT ![h] = <<>>]
         /\ Changes(h, [chunks |-> File(h).chunks,
                        handles |-> SubSeq(loaded[h], 1, hand[h].num)])
<1>1. hand[h] \in HandRecords(Len(made), Len(objects)) /\ MasterTyped
      /\ Len(made) \in Nat /\ Len(objects) \in Nat
  BY HandNow
<1>2. hand[h].pc = "shrink" /\ UNCHANGED <<files, made, up, saving>>
      /\ Moves(h, [hand[h] EXCEPT !.pc = "done", !.status = 0])
      /\ loaded' = [loaded EXCEPT ![h] = <<>>]
  BY <1>1, CutMoves
<1>3. hand[h].obj \in DOMAIN objects
  BY <1>2, FileOf DEF HasPointer
<1>4. Changes(h, [chunks |-> File(h).chunks,
                        handles |-> SubSeq(loaded[h], 1, hand[h].num)])
  BY <1>1, <1>3, CutFile, Became DEF Changes
<1>5. Goes(h, "done") /\ Carries(h) /\ Points(h)
  BY <1>2, GoesOn
<1> QED
  BY <1>2, <1>4, <1>5 DEF saving

LEMMA PutChunkStep ==
  ASSUME MasterInv, NEW h \in Handler, PutChunk(h)
  PROVE  /\ hand[h].pc = "put" /\ UNCHANGED <<files, made, up, loaded, storage, requests>>
         /\ Goes(h, "list") /\ Carries(h) /\ Points(h)
         /\ \E loc \in Locations : Changes(h, WithChunk(File(h), hand[h].handle, loc))
<1>1. hand[h] \in HandRecords(Len(made), Len(objects)) /\ MasterTyped
      /\ Len(made) \in Nat /\ Len(objects) \in Nat
  BY HandNow
<1>2. hand[h].pc = "put" /\ UNCHANGED <<files, made, up, others>>
      /\ Moves(h, [hand[h] EXCEPT !.pc = "list"])
  BY <1>1, PutChunkMoves
<1>3. hand[h].obj \in DOMAIN objects
  BY <1>2, FileOf DEF HasPointer
<1>4. \E loc \in Locations : Changes(h, WithChunk(File(h), hand[h].handle, loc))
  BY <1>1, <1>3, PutFile, Became DEF Changes
<1>5. Goes(h, "list") /\ Carries(h) /\ Points(h)
  BY <1>2, GoesOn
<1> QED
  BY <1>2, <1>4, <1>5 DEF others

LEMMA ListHandleStep ==
  ASSUME MasterInv, NEW h \in Handler, ListHandle(h)
  PROVE  /\ hand[h].pc = "append" /\ UNCHANGED <<files, up, storage, requests>> /\ Points(h)
         /\ loaded' = [loaded EXCEPT ![h] = <<>>]
         /\ Changes(h, [chunks |-> File(h).chunks,
                        handles |-> Append(loaded[h], hand[h].handle)])
         /\ \/ /\ hand[h].op = "write" /\ Goes(h, "put") /\ hand'[h].handle = NextHandle
               /\ made' = Append(made, hand[h].path)
            \/ hand[h].op = "create" /\ Goes(h, "locate") /\ Carries(h) /\ made' = made
            \/ hand[h].op # "create" /\ Goes(h, "done") /\ Carries(h) /\ made' = made
<1>1. hand[h] \in HandRecords(Len(made), Len(objects)) /\ MasterTyped
      /\ Len(made) \in Nat /\ Len(objects) \in Nat
  BY HandNow
<1>2. hand[h].pc = "append" /\ UNCHANGED <<files, up, saving>>
      /\ loaded' = [loaded EXCEPT ![h] = <<>>]
  BY <1>1, ListHandleMoves
<1>3. hand[h].obj \in DOMAIN objects
  BY <1>2, FileOf DEF HasPointer
<1>4. Changes(h, [chunks |-> File(h).chunks, handles |-> Append(loaded[h], hand[h].handle)])
  BY <1>1, <1>3, ListFile, Became DEF Changes
<1>5. CASE /\ hand[h].op = "write"
           /\ Moves(h, [hand[h] EXCEPT !.pc = "put", !.handle = NextHandle, !.num = hand[h].num - 1])
           /\ made' = Append(made, hand[h].path)
  <2>1. Goes(h, "put") /\ hand'[h].handle = NextHandle /\ Points(h)
    BY <1>5, GoesWithHandle
  <2> QED
    BY <1>2, <1>4, <1>5, <2>1 DEF saving
<1>6. CASE hand[h].op = "create" /\ Moves(h, [hand[h] EXCEPT !.pc = "locate"]) /\ made' = made
  <2>1. Goes(h, "locate") /\ Carries(h) /\ Points(h)
    BY <1>6, GoesOn
  <2> QED
    BY <1>2, <1>4, <1>6, <2>1 DEF saving
<1>7. CASE /\ hand[h].op # "create" /\ Moves(h, [hand[h] EXCEPT !.pc = "done", !.status = 0])
           /\ made' = made
  <2>1. Goes(h, "done") /\ Carries(h) /\ Points(h)
    BY <1>7, GoesOn
  <2> QED
    BY <1>2, <1>4, <1>7, <2>1 DEF saving
<1> QED
  BY <1>1, <1>5, <1>6, <1>7, ListHandleMoves

LEMMA LocateStep ==
  ASSUME MasterInv, NEW h \in Handler, Locate(h)
  PROVE  /\ hand[h].pc = "locate" /\ UNCHANGED <<files, objects, made, up, loaded, storage, requests>>
         /\ Carries(h)
         /\ \/ ~Found(h) /\ Goes(h, "done") /\ Points(h)
            \/ Found(h) /\ Goes(h, "answer") /\ hand'[h].obj = files[hand[h].path]
<1>1. hand[h] \in HandRecords(Len(made), Len(objects)) /\ MasterTyped
      /\ Len(made) \in Nat /\ Len(objects) \in Nat
  BY HandNow
<1>2. hand[h].pc = "locate" /\ UNCHANGED <<metadata, others>>
  BY <1>1, LocateMoves
<1>3. CASE ~Found(h) /\ Moves(h, [hand[h] EXCEPT !.pc = "done", !.status = 0])
  BY <1>1, <1>2, <1>3, GoesOn DEF metadata, others
<1>4. CASE Found(h) /\ Moves(h, [hand[h] EXCEPT !.pc = "answer", !.obj = files[hand[h].path]])
  <2> DEFINE o == files[hand[h].path]
  <2>1. Goes(h, "answer") /\ Carries(h) /\ hand'[h].obj = o
    <3> HIDE DEF o
    <3>1. Moves(h, [hand[h] EXCEPT !.pc = "answer", !.obj = o])
      BY <1>4 DEF o
    <3> QED
      BY <3>1, GoesWithPointer
  <2> QED
    BY <1>2, <1>4, <2>1 DEF metadata, others
<1> QED
  BY <1>1, <1>3, <1>4, LocateMoves

LEMMA AnswerStep ==
  ASSUME MasterInv, NEW h \in Handler, Answer(h)
  PROVE  /\ hand[h].pc = "answer"
         /\ \/ /\ Goes(h, "done") /\ Carries(h) /\ Points(h)
               /\ UNCHANGED <<files, objects, made, up, loaded, storage, requests>>
            \/ Stops
<1>1. hand[h] \in HandRecords(Len(made), Len(objects)) /\ MasterTyped
      /\ Len(made) \in Nat /\ Len(objects) \in Nat
  BY HandNow
<1>2. hand[h].pc = "answer" /\ UNCHANGED others
  BY <1>1, AnswerMoves
<1>3. CASE Moves(h, [hand[h] EXCEPT !.pc = "done", !.status = 0]) /\ UNCHANGED metadata
  BY <1>1, <1>2, <1>3, GoesOn DEF metadata, others
<1>4. CASE Panic
  BY <1>2, <1>4 DEF Panic, others, Stops
<1> QED
  BY <1>1, <1>3, <1>4, AnswerMoves

LEMMA StartStep ==
  ASSUME MasterInv, NEW h \in Handler, NEW p \in Path, NEW op \in Ops[p],
         NEW num \in 0 .. MaxChunks, NEW handle \in 0 .. Len(made), Start(h, op, p, num, handle)
  PROVE  /\ hand[h].pc = "idle" /\ UNCHANGED <<files, objects, made, up, loaded>>
         /\ hand'[h].pc = First(op) /\ hand'[h].op = op /\ hand'[h].path = p
         /\ hand'[h].handle = handle /\ hand'[h].before = Before(p)
         /\ \A g \in Handler : g # h => hand'[g] = hand[g]
         /\ storage' = [storage EXCEPT !.still = @ \ {p}]
<1> DEFINE r == [Idle EXCEPT !.pc = First(op), !.op = op, !.path = p, !.num = num,
                             !.handle = handle, !.before = Before(p)]
<1>1. /\ hand[h].pc = "idle" /\ UNCHANGED <<metadata, loaded>> /\ Moves(h, r) /\ MasterTyped
      /\ storage' = [storage EXCEPT !.still = @ \ {p}]
  BY StartMoves DEF MasterInv
<1>2. /\ r.pc = First(op) /\ r.op = op /\ r.path = p /\ r.handle = handle
      /\ r.before = Before(p)
  BY DEF Idle
<1> HIDE DEF r
<1>3. hand'[h] = r /\ \A g \in Handler : g # h => hand'[g] = hand[g]
  BY <1>1, Moved
<1> QED
  BY <1>1, <1>2, <1>3 DEF metadata

-----------------------------------------------------------------------------
(* The invariant of the control *)

\* Nothing that was made is lost.
Ahead ==
    /\ DOMAIN objects \subseteq DOMAIN objects'
    /\ \A k \in DOMAIN made : k \in DOMAIN made' /\ made'[k] = made[k]

LEMMA HandleAhead ==
  ASSUME MasterInv, NEW h \in Handler, Handle(h)
  PROVE  /\ Ahead
         /\ made' = made \/ (/\ made' = Append(made, hand[h].path) /\ NextHandle \in DOMAIN made'
                             /\ made'[NextHandle] = hand[h].path
                             /\ NextHandle \notin DOMAIN made)
<1>1. CASE Return(h)
  BY <1>1, ReturnStep DEF Ahead
<1>2. ASSUME made' = Append(made, hand[h].path), hand[h].pc # "idle"
      PROVE  /\ NextHandle \in DOMAIN made' /\ made'[NextHandle] = hand[h].path
             /\ NextHandle \notin DOMAIN made
             /\ \A k \in DOMAIN made : k \in DOMAIN made' /\ made'[k] = made[k]
  <2>1. hand[h].path \in Path /\ MasterTyped
    BY <1>2, HandNow
  <2> QED
    BY <1>2, <2>1, MadeGrows DEF NextHandle
<1>3. CASE Exists(h)
  BY <1>2, <1>3, ExistsStep DEF Ahead
<1>4. CASE Insert(h)
  BY <1>4, InsertStep DEF Ahead
<1>5. CASE Latest(h) \/ Check(h) \/ Remove(h)
  BY <1>5, LatestStep, CheckStep, RemoveStep DEF Ahead
<1>6. CASE Lookup(h)
  BY <1>6, LookupStep DEF Ahead, Stops
<1>7. CASE Chunks(h)
  BY <1>2, <1>7, ChunksStep DEF Ahead, Stops
<1>8. CASE Drop(h) \/ Cut(h)
  BY <1>8, DropStep, CutStep DEF Ahead, Changes
<1>9. CASE PutChunk(h)
  BY <1>9, PutChunkStep DEF Ahead, Changes
<1>10. CASE ListHandle(h)
  BY <1>2, <1>10, ListHandleStep DEF Ahead, Changes
<1>11. CASE Locate(h)
  BY <1>11, LocateStep DEF Ahead
<1>12. CASE Answer(h)
  BY <1>12, AnswerStep DEF Ahead, Stops
<1>13. CASE LoadHandles(h)
  BY <1>13, LoadStep DEF Ahead, Stops
<1> QED
  BY <1>1, <1>3, <1>4, <1>5, <1>6, <1>7, <1>8, <1>9, <1>10, <1>11, <1>12, <1>13 DEF Handle

\* A handler acts on what it found at its label, and goes on with its request
\* unless it returns; the others do not move.
LEMMA HandleMoves ==
  ASSUME MasterInv, NEW h \in Handler, Handle(h)
  PROVE  /\ \A g \in Handler : g # h => hand'[g] = hand[g]
         /\ hand[h].pc # "idle"
         /\ \/ hand[h].pc = "done" /\ hand'[h] = Idle
            \/ /\ hand[h].pc # "done" /\ hand'[h].pc # "idle" /\ hand'[h].op = hand[h].op
               /\ hand'[h].path = hand[h].path /\ hand'[h].before = hand[h].before
<1>1. CASE Return(h)
  BY <1>1, ReturnStep
<1>2. CASE Exists(h) \/ Insert(h) \/ Latest(h) \/ Check(h) \/ Remove(h)
  BY <1>2, ExistsStep, InsertStep, LatestStep, CheckStep, RemoveStep DEF Goes
<1>3. CASE Lookup(h)
  BY <1>3, LookupStep DEF Goes, Stops
<1>4. CASE Chunks(h)
  BY <1>4, ChunksStep DEF Goes, Stops
<1>5. CASE Drop(h) \/ Cut(h)
  BY <1>5, DropStep, CutStep DEF Goes
<1>6. CASE PutChunk(h) \/ ListHandle(h)
  BY <1>6, PutChunkStep, ListHandleStep DEF Goes
<1>7. CASE Locate(h)
  BY <1>7, LocateStep DEF Goes
<1>8. CASE Answer(h)
  BY <1>8, AnswerStep DEF Goes, Stops
<1>9. CASE LoadHandles(h)
  BY <1>9, LoadStep DEF Goes, Stops
<1> QED
  BY <1>1, <1>2, <1>3, <1>4, <1>5, <1>6, <1>7, <1>8, <1>9 DEF Handle

LEMMA GrowsOne ==
  ASSUME MasterInv, NEW p
  PROVE  Append(made, p) # made
<1>1. Len(Append(made, p)) = Len(made) + 1 /\ Len(made) \in Nat
  BY HandNow, LenProperties DEF MasterInv, MasterTyped
<1> QED
  BY <1>1

LEMMA ControlKept ==
  ASSUME NEW g \in Handler, Control(g), hand'[g] = hand[g], Ahead
  PROVE  Control(g)'
  BY DEF Control, HasPointer, HasHandle, Ahead

LEMMA HandleControl ==
  ASSUME MasterInv, NEW h \in Handler, Handle(h), NEW g \in Handler
  PROVE  Control(g)'
<1>0. Control(h) /\ Control(g) /\ Ahead /\ hand[h].pc # "idle"
      /\ (g # h => hand'[g] = hand[g])
  BY HandleAhead, HandleMoves DEF MasterInv
<1>1. SUFFICES Control(h)'
  BY <1>0, ControlKept
<1> DEFINE pc == hand[h].pc
           op == hand[h].op
<1>2. hand[h].path \in Path /\ op \in Ops[hand[h].path]
  BY <1>0 DEF Control
<1>3. CASE hand'[h] = Idle
  BY <1>3 DEF Idle, Control, HasPointer, HasHandle
<1>4. CASE Goes(h, "done")
  BY <1>2, <1>4 DEF Control, HasPointer, HasHandle, Goes
<1>5. CASE Exists(h) /\ ~Goes(h, "done")
  <2>1. op = "create" /\ Goes(h, "insert") /\ hand'[h].handle = NextHandle
    BY <1>0, <1>5, ExistsStep DEF Control
  <2>2. NextHandle \in DOMAIN made' /\ made'[NextHandle] = hand[h].path
    BY <1>5, ExistsStep, HandleAhead DEF Handle
  <2> QED
    BY <1>2, <2>1, <2>2 DEF Control, HasPointer, HasHandle, Goes
<1>6. CASE Insert(h)
  <2>1. /\ op = "create" /\ Goes(h, "lookup") /\ Carries(h)
        /\ hand[h].handle \in DOMAIN made /\ made[hand[h].handle] = hand[h].path
    BY <1>0, <1>6, InsertStep DEF Control, HasHandle
  <2> QED
    BY <1>0, <1>2, <2>1 DEF Control, HasPointer, HasHandle, Goes, Carries, Ahead
<1>7. CASE Latest(h)
  <2>1. op = "append" /\ Goes(h, "check")
    BY <1>0, <1>7, LatestStep DEF Control
  <2> QED
    BY <1>2, <2>1 DEF Control, HasPointer, HasHandle, Goes
<1>8. CASE Check(h) /\ ~Goes(h, "done")
  <2>1. /\ op # "create" /\ Carries(h)
        /\ \/ op = "delete" /\ Goes(h, "remove")
           \/ op # "delete" /\ Goes(h, "lookup")
        /\ op = "createChunk" => hand[h].handle \in DOMAIN made
                                 /\ made[hand[h].handle] = hand[h].path
    BY <1>0, <1>8, CheckStep DEF Control, HasHandle
  <2> QED
    BY <1>0, <1>2, <2>1 DEF Control, HasPointer, HasHandle, Goes, Carries, Ahead
<1>9. CASE Remove(h)
  BY <1>4, <1>9, RemoveStep
<1>10. CASE Lookup(h) /\ ~Goes(h, "done")
  <2>1. CASE Stops
    BY <1>0, <2>1 DEF Stops, Control, HasPointer, HasHandle
  <2>2. CASE /\ Found(h) /\ Carries(h) /\ hand'[h].obj = files[hand[h].path]
             /\ Goes(h, IF op \in {"create", "createChunk"} THEN "put" ELSE "chunks")
    <3>1. files[hand[h].path] \in DOMAIN objects'
      BY <1>0, <2>2, Typed DEF Found, MasterInv, Ahead
    <3>2. op \in OpNames /\ op # "delete"
      BY <1>0, <1>2, <1>10, LookupStep, RacesAssumption DEF RacesAssumption, OpNames, Control
    <3>3. op \in {"create", "createChunk"} =>
             hand[h].handle \in DOMAIN made /\ made[hand[h].handle] = hand[h].path
      BY <1>0, <1>10, LookupStep DEF Control, HasHandle
    <3>4. CASE op \in {"create", "createChunk"}
      BY <1>0, <1>2, <2>2, <3>1, <3>3, <3>4 DEF Control, HasPointer, HasHandle, Goes, Carries, Ahead
    <3>5. CASE op \notin {"create", "createChunk"}
      BY <1>2, <2>2, <3>1, <3>2, <3>5 DEF Control, HasPointer, HasHandle, Goes, OpNames
    <3> QED
      BY <3>4, <3>5
  <2> QED
    BY <1>10, <2>1, <2>2, LookupStep
<1>11. CASE Chunks(h) /\ ~Goes(h, "done")
  <2>0. hand[h].obj \in DOMAIN objects'
    BY <1>0, <1>11, ChunksStep DEF Control, HasPointer, Ahead
  <2>1. CASE Stops
    BY <1>0, <2>1 DEF Stops, Control, HasPointer, HasHandle
  <2>2. CASE op = "write" /\ Points(h) /\ Goes(h, "drop")
    BY <1>2, <2>0, <2>2 DEF Control, HasPointer, HasHandle, Goes, Points
  <2>3. CASE op = "write" /\ Points(h) /\ Goes(h, "put") /\ hand'[h].handle = NextHandle
             /\ made' = Append(made, hand[h].path)
    <3>1. NextHandle \in DOMAIN made' /\ made'[NextHandle] = hand[h].path
      BY <1>11, <2>3, GrowsOne, HandleAhead DEF Handle
    <3> QED
      BY <1>2, <2>0, <2>3, <3>1 DEF Control, HasPointer, HasHandle, Goes, Points
  <2> QED
    BY <1>11, <2>1, <2>2, <2>3, ChunksStep
<1>12. CASE Drop(h)
  <2>1. op = "write" /\ Goes(h, "cut") /\ Points(h) /\ hand[h].obj \in DOMAIN objects'
    BY <1>0, <1>12, DropStep DEF Control, HasPointer, Ahead
  <2> QED
    BY <1>2, <2>1 DEF Control, HasPointer, HasHandle, Goes, Points
<1>13. CASE Cut(h)
  BY <1>4, <1>13, CutStep
<1>19. CASE LoadHandles(h)
  <2>0. /\ hand[h].obj \in DOMAIN objects' /\ hand[h].pc \in {"cut", "list"}
    BY <1>0, <1>19, LoadStep DEF Control, HasPointer, Ahead
  <2>1. CASE Stops
    BY <1>0, <2>1 DEF Stops, Control, HasPointer, HasHandle
  <2>2. CASE hand[h].pc = "cut" /\ Goes(h, "shrink") /\ Points(h)
    BY <1>0, <1>2, <2>0, <2>2 DEF Control, HasPointer, HasHandle, Goes, Points
  <2>3. CASE hand[h].pc = "list" /\ Goes(h, "append") /\ Points(h) /\ Carries(h)
    <3>1. /\ op \in {"create", "createChunk", "write"}
          /\ hand[h].handle \in DOMAIN made /\ made[hand[h].handle] = hand[h].path
      BY <1>0, <2>3 DEF Control, HasHandle
    <3> QED
      BY <1>0, <1>2, <2>0, <2>3, <3>1 DEF Control, HasPointer, HasHandle, Goes, Points, Carries, Ahead
  <2> QED
    BY <1>19, <2>1, <2>2, <2>3, LoadStep
<1>14. CASE PutChunk(h)
  <2>1. /\ op \in {"create", "createChunk", "write"} /\ Goes(h, "list") /\ Points(h) /\ Carries(h)
        /\ hand[h].obj \in DOMAIN objects' /\ hand[h].handle \in DOMAIN made
        /\ made[hand[h].handle] = hand[h].path
    BY <1>0, <1>14, PutChunkStep DEF Control, HasPointer, HasHandle, Ahead
  <2> QED
    BY <1>0, <1>2, <2>1 DEF Control, HasPointer, HasHandle, Goes, Points, Carries, Ahead
<1>15. CASE ListHandle(h) /\ ~Goes(h, "done")
  <2>0. hand[h].obj \in DOMAIN objects' /\ Points(h)
    BY <1>0, <1>15, ListHandleStep DEF Control, HasPointer, Ahead
  <2>1. CASE op = "create" /\ Goes(h, "locate")
    BY <1>2, <2>1 DEF Control, HasPointer, HasHandle, Goes
  <2>2. CASE op = "write" /\ Goes(h, "put") /\ hand'[h].handle = NextHandle
             /\ made' = Append(made, hand[h].path)
    <3>1. NextHandle \in DOMAIN made' /\ made'[NextHandle] = hand[h].path
      BY <1>15, <2>2, GrowsOne, HandleAhead DEF Handle
    <3> QED
      BY <1>2, <2>0, <2>2, <3>1 DEF Control, HasPointer, HasHandle, Goes, Points
  <2> QED
    BY <1>15, <2>1, <2>2, ListHandleStep
<1>16. CASE Locate(h) /\ ~Goes(h, "done")
  <2>1. /\ op = "create" /\ Goes(h, "answer") /\ Found(h) /\ hand'[h].obj = files[hand[h].path]
    BY <1>0, <1>16, LocateStep DEF Control
  <2>2. files[hand[h].path] \in DOMAIN objects'
    BY <1>0, <2>1, Typed DEF Found, MasterInv, Ahead
  <2> QED
    BY <1>2, <2>1, <2>2 DEF Control, HasPointer, HasHandle, Goes
<1>17. CASE Answer(h) /\ ~Goes(h, "done")
  <2>1. Stops
    BY <1>17, AnswerStep
  <2> QED
    BY <1>0, <2>1 DEF Stops, Control, HasPointer, HasHandle
<1>18. CASE Return(h)
  BY <1>3, <1>18, ReturnStep
<1> QED
  BY <1>4, <1>5, <1>6, <1>7, <1>8, <1>9, <1>10, <1>11, <1>12, <1>13, <1>14, <1>15, <1>16, <1>17,
     <1>18, <1>19 DEF Handle

\* Where a pointer comes from: it was there, or the map has it.
LEMMA HandlePointers ==
  ASSUME MasterInv, NEW h \in Handler, Handle(h), HasPointer(h)'
  PROVE  /\ hand'[h].path = hand[h].path
         /\ \/ HasPointer(h) /\ hand'[h].obj = hand[h].obj
            \/ Found(h) /\ hand'[h].obj = files[hand[h].path]
<1>0. /\ Control(h)
      /\ hand'[h].pc \in {"chunks", "drop", "cut", "shrink", "put", "list", "append", "answer"}
  BY DEF MasterInv, HasPointer
<1>1. ~Goes(h, "done") /\ ~Goes(h, "insert") /\ ~Goes(h, "lookup") /\ ~Goes(h, "check")
      /\ ~Goes(h, "remove") /\ ~Goes(h, "locate") /\ hand'[h] # Idle
  BY <1>0 DEF Goes, Idle
<1>2. CASE Return(h) \/ Exists(h) \/ Insert(h) \/ Latest(h) \/ Check(h) \/ Remove(h) \/ Cut(h)
  BY <1>1, <1>2, ReturnStep, ExistsStep, InsertStep, LatestStep, CheckStep, RemoveStep, CutStep
<1>3. CASE Lookup(h)
  BY <1>1, <1>3, LookupStep DEF Stops, Goes, HasPointer
<1>4. CASE Chunks(h)
  BY <1>1, <1>4, ChunksStep DEF Stops, Goes, Points, HasPointer
<1>5. CASE Drop(h)
  BY <1>5, DropStep DEF Goes, Points, HasPointer
<1>10. CASE LoadHandles(h)
  BY <1>10, LoadStep DEF Stops, Goes, Points, HasPointer
<1>6. CASE PutChunk(h)
  BY <1>6, PutChunkStep DEF Goes, Points, HasPointer
<1>7. CASE ListHandle(h)
  BY <1>1, <1>7, ListHandleStep DEF Goes, Points, HasPointer
<1>8. CASE Locate(h)
  BY <1>1, <1>8, LocateStep DEF Goes, HasPointer
<1>9. CASE Answer(h)
  BY <1>1, <1>9, AnswerStep DEF Stops, Goes, HasPointer
<1> QED
  BY <1>2, <1>3, <1>4, <1>5, <1>6, <1>7, <1>8, <1>9, <1>10 DEF Handle

\* What a step does to the map of the files.
LEMMA HandleFiles ==
  ASSUME MasterInv, NEW h \in Handler, Handle(h)
  PROVE  \/ files' = files /\ DOMAIN objects' = DOMAIN objects
         \/ Insert(h)
         \/ Remove(h)
<1>1. CASE Return(h) \/ Exists(h) \/ Latest(h) \/ Check(h) \/ Drop(h) \/ Cut(h)
  BY <1>1, ReturnStep, ExistsStep, LatestStep, CheckStep, DropStep, CutStep DEF Changes
<1>2. CASE Lookup(h) \/ Chunks(h) \/ LoadHandles(h) \/ Answer(h)
  BY <1>2, LookupStep, ChunksStep, LoadStep, AnswerStep DEF Stops
<1>3. CASE PutChunk(h)
  BY <1>3, PutChunkStep DEF Changes
<1>4. CASE ListHandle(h) \/ Locate(h)
  BY <1>4, ListHandleStep, LocateStep DEF Changes
<1> QED
  BY <1>1, <1>2, <1>3, <1>4 DEF Handle

LEMMA HandleOwns ==
  ASSUME MasterInv, NEW h \in Handler, Handle(h), NEW p \in Path, NEW o \in DOMAIN objects',
         Owns(p, o)'
  PROVE  \/ o \in DOMAIN objects /\ Owns(p, o)
         \/ Insert(h) /\ o \notin DOMAIN objects /\ p = hand[h].path
<1>0. \A q \in DOMAIN files : files[q] \in DOMAIN objects
  BY Typed DEF MasterInv
<1>1. CASE p \in DOMAIN files' /\ files'[p] = o
  <2>1. CASE files' = files
    BY <1>0, <1>1, <2>1 DEF Owns
  <2>2. CASE Insert(h)
    BY <1>0, <1>1, <2>2, InsertStep DEF Owns
  <2>3. CASE Remove(h)
    BY <1>0, <1>1, <2>3, RemoveStep DEF Owns
  <2> QED
    BY <2>1, <2>2, <2>3, HandleFiles
<1>2. ASSUME NEW g \in Handler, HasPointer(g)', hand'[g].path = p, hand'[g].obj = o
      PROVE  o \in DOMAIN objects /\ Owns(p, o)
  <2>1. CASE g # h
    <3>1. hand'[g] = hand[g] /\ Control(g)
      BY <2>1, HandleMoves DEF MasterInv
    <3> QED
      BY <1>2, <3>1 DEF Owns, HasPointer, Control
  <2>2. CASE g = h
    <3>1. /\ hand'[h].path = hand[h].path
          /\ \/ HasPointer(h) /\ hand'[h].obj = hand[h].obj
             \/ Found(h) /\ hand'[h].obj = files[hand[h].path]
      BY <1>2, <2>2, HandlePointers
    <3>2. HasPointer(h) => hand[h].obj \in DOMAIN objects
      BY FileOf
    <3> QED
      BY <1>0, <1>2, <2>2, <3>1, <3>2 DEF Owns, Found
  <2> QED
    BY <2>1, <2>2
<1> QED
  BY <1>1, <1>2 DEF Owns

LEMMA HandleOneOwner ==
  ASSUME MasterInv, NEW h \in Handler, Handle(h)
  PROVE  OneOwner'
<1> SUFFICES ASSUME NEW o \in DOMAIN objects', NEW p \in Path, NEW q \in Path,
                    Owns(p, o)', Owns(q, o)'
             PROVE  p = q
  BY DEF OneOwner
<1>1. \/ o \in DOMAIN objects /\ Owns(p, o)
      \/ o \notin DOMAIN objects /\ p = hand[h].path
  BY HandleOwns
<1>2. \/ o \in DOMAIN objects /\ Owns(q, o)
      \/ o \notin DOMAIN objects /\ q = hand[h].path
  BY HandleOwns
<1> QED
  BY <1>1, <1>2 DEF MasterInv, OneOwner

LEMMA HandleOneAtATime ==
  ASSUME MasterInv, NEW h \in Handler, Handle(h)
  PROVE  OneAtATime'
<1> SUFFICES ASSUME NEW f \in Handler, NEW g \in Handler, NEW p \in Path,
                    Working(f, p)', Working(g, p)', p \notin Shared
             PROVE  f = g
  BY DEF OneAtATime
<1>1. \A k \in Handler : Working(k, p)' => Working(k, p)
  <2> TAKE k \in Handler
  <2> HAVE Working(k, p)'
  <2>1. CASE k # h
    BY <2>1, HandleMoves DEF Working
  <2>2. CASE k = h
    BY <2>2, HandleMoves DEF Working, Idle
  <2> QED
    BY <2>1, <2>2
<1> QED
  BY <1>1 DEF MasterInv, OneAtATime

\* The list of the object after a change.
LEMMA ChangedLists ==
  ASSUME MasterInv, NEW h \in Handler
  PROVE  /\ Drop(h) => \E f : Changes(h, f) /\ f.handles = File(h).handles
         /\ PutChunk(h) => \E f : Changes(h, f) /\ f.handles = File(h).handles
         /\ ListHandle(h) => \E f : Changes(h, f)
                                     /\ f.handles = Append(loaded[h], hand[h].handle)
         /\ Cut(h) => \E f : Changes(h, f) /\ f.handles = SubSeq(loaded[h], 1, hand[h].num)
<1>0. \A c, l : [chunks |-> c, handles |-> l].handles = l
  OBVIOUS
<1>1. ASSUME Drop(h)
      PROVE  \E f : Changes(h, f) /\ f.handles = File(h).handles
  <2>1. PICK c : Changes(h, [chunks |-> c, handles |-> File(h).handles])
    BY <1>1, DropStep
  <2> QED
    BY <1>0, <2>1
<1>2. ASSUME PutChunk(h)
      PROVE  \E f : Changes(h, f) /\ f.handles = File(h).handles
  <2>1. PICK loc \in Locations : Changes(h, WithChunk(File(h), hand[h].handle, loc))
    BY <1>2, PutChunkStep
  <2>2. WithChunk(File(h), hand[h].handle, loc).handles = File(h).handles
    BY DEF WithChunk
  <2> QED
    BY <2>1, <2>2
<1>3. ASSUME ListHandle(h)
      PROVE  \E f : Changes(h, f) /\ f.handles = Append(loaded[h], hand[h].handle)
  <2>1. PICK c, l : Changes(h, [chunks |-> c, handles |-> l]) /\ l = Append(loaded[h], hand[h].handle)
    BY <1>3, ListHandleStep
  <2> QED
    BY <1>0, <2>1
<1>4. ASSUME Cut(h)
      PROVE  \E f : Changes(h, f) /\ f.handles = SubSeq(loaded[h], 1, hand[h].num)
  <2>1. PICK c, l : Changes(h, [chunks |-> c, handles |-> l]) /\ l = SubSeq(loaded[h], 1, hand[h].num)
    BY <1>4, CutStep
  <2> QED
    BY <1>0, <2>1
<1> QED
  BY <1>1, <1>2, <1>3, <1>4

LEMMA HandleLists ==
  ASSUME MasterInv, NEW h \in Handler, Handle(h), NEW o \in DOMAIN objects
  PROVE  /\ o \in DOMAIN objects'
         /\ \/ objects'[o].handles = objects[o].handles
            \/ /\ ListHandle(h) /\ o = hand[h].obj
               /\ objects'[o].handles = Append(loaded[h], hand[h].handle)
            \/ /\ Cut(h) /\ o = hand[h].obj
               /\ objects'[o].handles = SubSeq(loaded[h], 1, hand[h].num)
<1>0. o \in DOMAIN objects'
  BY HandleAhead DEF Ahead
<1>1. CASE Return(h) \/ Exists(h) \/ Insert(h) \/ Latest(h) \/ Check(h) \/ Remove(h)
  BY <1>0, <1>1, ReturnStep, ExistsStep, InsertStep, LatestStep, CheckStep, RemoveStep
<1>2. CASE Lookup(h) \/ Chunks(h) \/ LoadHandles(h) \/ Locate(h) \/ Answer(h)
  BY <1>0, <1>2, LookupStep, ChunksStep, LoadStep, LocateStep, AnswerStep DEF Stops
<1>3. CASE Drop(h)
  <2>1. \E f : Changes(h, f) /\ f.handles = File(h).handles
    BY <1>3, ChangedLists
  <2> QED
    BY <1>0, <2>1 DEF Changes, File
<1>4. CASE Cut(h)
  <2>1. \E f : Changes(h, f) /\ f.handles = SubSeq(loaded[h], 1, hand[h].num)
    BY <1>4, ChangedLists
  <2> QED
    BY <1>0, <1>4, <2>1 DEF Changes
<1>5. CASE PutChunk(h)
  <2>1. \E f : Changes(h, f) /\ f.handles = File(h).handles
    BY <1>5, ChangedLists
  <2> QED
    BY <1>0, <2>1 DEF Changes, File
<1>6. CASE ListHandle(h)
  <2>1. \E f : Changes(h, f) /\ f.handles = Append(loaded[h], hand[h].handle)
    BY <1>6, ChangedLists
  <2> QED
    BY <1>0, <1>6, <2>1 DEF Changes
<1> QED
  BY <1>1, <1>2, <1>3, <1>4, <1>5, <1>6 DEF Handle

\* What a step does to the slices that were loaded.
LEMMA LoadedMoves ==
  ASSUME MasterInv, NEW h \in Handler, Handle(h)
  PROVE  \/ loaded' = loaded /\ hand' = hand
         \/ /\ loaded' = loaded
            /\ hand[h].pc \notin {"append", "shrink"} /\ hand'[h].pc \notin {"append", "shrink"}
         \/ /\ LoadHandles(h) /\ HasPointer(h) /\ hand[h].pc \notin {"append", "shrink"}
            /\ loaded' = [loaded EXCEPT ![h] = File(h).handles] /\ UNCHANGED <<objects, made>>
            /\ Points(h) /\ Carries(h)
            /\ \/ hand'[h].pc = "append"
               \/ hand'[h].pc = "shrink" /\ hand[h].num <= Len(File(h).handles)
         \/ /\ Cut(h) \/ ListHandle(h)
            /\ loaded' = [loaded EXCEPT ![h] = <<>>] /\ hand'[h].pc \notin {"append", "shrink"}
            /\ Points(h)
<1>1. CASE Return(h) \/ Exists(h) \/ Insert(h) \/ Latest(h) \/ Check(h) \/ Remove(h)
  <2>1. CASE Return(h)
    BY <2>1, ReturnStep DEF Idle
  <2>2. CASE Exists(h) \/ Insert(h)
    BY <2>2, ExistsStep, InsertStep DEF Goes
  <2>3. CASE Latest(h) \/ Check(h)
    BY <2>3, LatestStep, CheckStep DEF Goes
  <2>4. CASE Remove(h)
    BY <2>4, RemoveStep DEF Goes
  <2> QED
    BY <1>1, <2>1, <2>2, <2>3, <2>4
<1>2. CASE Lookup(h) \/ Locate(h) \/ Answer(h)
  BY <1>2, LookupStep, LocateStep, AnswerStep DEF Stops, Goes
<1>3. CASE Chunks(h)
  BY <1>3, ChunksStep DEF Stops, Goes
<1>4. CASE Drop(h) \/ PutChunk(h)
  BY <1>4, DropStep, PutChunkStep DEF Goes
<1>5. CASE LoadHandles(h)
  BY <1>5, LoadStep DEF Stops, Goes, HasPointer
<1>6. CASE Cut(h)
  BY <1>6, CutStep DEF Goes
<1>7. CASE ListHandle(h)
  BY <1>7, ListHandleStep DEF Goes
<1> QED
  BY <1>1, <1>2, <1>3, <1>4, <1>5, <1>6, <1>7 DEF Handle

LEMMA HandleLoaded ==
  ASSUME MasterInv, NEW h \in Handler, Handle(h)
  PROVE  LoadedTyped' /\ \A g \in Handler : SliceLoaded(g)'
<1>1. PICK n, m : n = Len(made) /\ m = Len(made')
  OBVIOUS
<1>2. n \in Nat /\ m \in Nat /\ n <= m /\ loaded \in [Handler -> Seq(1 .. n)]
  <2>1. made \in Seq(Path) /\ Len(made) \in Nat
    BY HandNow DEF MasterTyped
  <2>2. made' = made \/ made' = Append(made, hand[h].path)
    BY HandleAhead
  <2>3. Len(Append(made, hand[h].path)) = Len(made) + 1
    BY <2>1
  <2> QED
    BY <1>1, <2>1, <2>2, <2>3 DEF MasterInv, LoadedTyped
<1>3. loaded \in [Handler -> Seq(1 .. m)]
  <2>1. Seq(1 .. n) \subseteq Seq(1 .. m)
    BY <1>2, SeqMonotonic
  <2> QED
    BY <1>2, <2>1
<1>4. \A g \in Handler : SliceLoaded(g) /\ (g # h => hand'[g] = hand[g])
  BY HandleMoves DEF MasterInv
<1>5. CASE loaded' = loaded /\ hand' = hand
  BY <1>1, <1>3, <1>4, <1>5 DEF LoadedTyped, SliceLoaded
<1>6. CASE /\ loaded' = loaded
           /\ hand[h].pc \notin {"append", "shrink"} /\ hand'[h].pc \notin {"append", "shrink"}
  BY <1>1, <1>3, <1>4, <1>6 DEF LoadedTyped, SliceLoaded
<1>7. CASE /\ HasPointer(h) /\ hand[h].pc \notin {"append", "shrink"}
           /\ loaded' = [loaded EXCEPT ![h] = File(h).handles] /\ UNCHANGED <<objects, made>>
           /\ Points(h) /\ Carries(h)
           /\ \/ hand'[h].pc = "append"
              \/ hand'[h].pc = "shrink" /\ hand[h].num <= Len(File(h).handles)
  <2>1. PICK l : l = File(h).handles
    OBVIOUS
  <2>2. l \in Seq(1 .. n)
    BY <1>1, <1>7, <2>1, FileOf
  <2>3. loaded' = [loaded EXCEPT ![h] = l]
    BY <1>7, <2>1
  <2>4. loaded' \in [Handler -> Seq(1 .. n)] /\ loaded'[h] = l
        /\ \A g \in Handler : g # h => loaded'[g] = loaded[g]
    BY <1>2, <2>2, <2>3
  <2>5. SliceLoaded(h)'
    BY <1>7, <2>1, <2>4 DEF SliceLoaded, Carries
  <2>6. ASSUME NEW g \in Handler, g # h
        PROVE  SliceLoaded(g)'
    BY <1>4, <2>4, <2>6 DEF SliceLoaded
  <2> QED
    BY <1>1, <1>7, <2>4, <2>5, <2>6 DEF LoadedTyped
<1>8. CASE /\ loaded' = [loaded EXCEPT ![h] = <<>>]
           /\ hand'[h].pc \notin {"append", "shrink"}
  <2>1. <<>> \in Seq(1 .. m)
    BY EmptySeq
  <2>2. loaded' \in [Handler -> Seq(1 .. m)] /\ loaded'[h] = <<>>
        /\ \A g \in Handler : g # h => loaded'[g] = loaded[g]
    BY <1>3, <1>8, <2>1
  <2>3. ASSUME NEW g \in Handler
        PROVE  SliceLoaded(g)'
    BY <1>4, <1>8, <2>2 DEF SliceLoaded
  <2> QED
    BY <1>1, <2>2, <2>3 DEF LoadedTyped
<1> QED
  BY <1>5, <1>6, <1>7, <1>8, LoadedMoves

\* A handler changes the object that it points at, and no other.
LEMMA HandleObjects ==
  ASSUME MasterInv, NEW h \in Handler, Handle(h), NEW o \in DOMAIN objects,
         objects'[o] # objects[o]
  PROVE  HasPointer(h) /\ o = hand[h].obj /\ hand[h].pc \in {"drop", "shrink", "put", "append"}
<1>1. CASE Return(h) \/ Exists(h) \/ Insert(h) \/ Latest(h) \/ Check(h) \/ Remove(h)
  BY <1>1, ReturnStep, ExistsStep, InsertStep, LatestStep, CheckStep, RemoveStep
<1>2. CASE Lookup(h) \/ Chunks(h) \/ LoadHandles(h) \/ Locate(h) \/ Answer(h)
  BY <1>2, LookupStep, ChunksStep, LoadStep, LocateStep, AnswerStep DEF Stops
<1>3. CASE Drop(h)
  BY <1>3, DropStep DEF Changes, HasPointer
<1>4. CASE Cut(h)
  BY <1>4, CutStep DEF Changes, HasPointer
<1>5. CASE PutChunk(h)
  BY <1>5, PutChunkStep DEF Changes, HasPointer
<1>6. CASE ListHandle(h)
  BY <1>6, ListHandleStep DEF Changes, HasPointer
<1> QED
  BY <1>1, <1>2, <1>3, <1>4, <1>5, <1>6 DEF Handle

\* So the files of other paths stay as they are.
LEMMA OtherFiles ==
  ASSUME MasterInv, NEW h \in Handler, Handle(h), NEW p \in Path, p # hand[h].path
  PROVE  /\ p \in DOMAIN files' <=> p \in DOMAIN files
         /\ p \in DOMAIN files => files'[p] = files[p] /\ objects'[files[p]] = objects[files[p]]
         /\ FileAt(p)' = FileAt(p)
<1>1. /\ p \in DOMAIN files' <=> p \in DOMAIN files
      /\ p \in DOMAIN files => files'[p] = files[p]
  BY HandleFiles, InsertStep, RemoveStep
<1>2. ASSUME p \in DOMAIN files, objects'[files[p]] # objects[files[p]]
      PROVE  FALSE
  <2>1. files[p] \in DOMAIN objects
    BY <1>2, Typed DEF MasterInv
  <2>2. HasPointer(h) /\ files[p] = hand[h].obj
    BY <1>2, <2>1, HandleObjects
  <2>3. hand[h].path \in Path
    BY <2>2, FileOf
  <2> QED
    BY <1>2, <2>1, <2>2, <2>3 DEF MasterInv, OneOwner, Owns
<1> QED
  BY <1>1, <1>2 DEF FileAt

LEMMA HandleMaster ==
  ASSUME MasterInv, NEW h \in Handler, Handle(h)
  PROVE  MasterInv'
  BY HandleTyped, HandleControl, HandleLoaded, HandleOneOwner, HandleOneAtATime DEF MasterInv

LEMMA StartMaster ==
  ASSUME MasterInv, NEW h \in Handler, NEW p \in Path, NEW op \in Ops[p],
         NEW num \in 0 .. MaxChunks, NEW handle \in 0 .. Len(made),
         op = "createChunk" => handle \in DOMAIN made /\ made[handle] = p,
         Start(h, op, p, num, handle)
  PROVE  MasterInv'
<1>0. /\ hand[h].pc = "idle" /\ UNCHANGED <<files, objects, made, up, loaded>>
      /\ hand'[h].pc = First(op) /\ hand'[h].op = op /\ hand'[h].path = p
      /\ hand'[h].handle = handle
      /\ \A g \in Handler : g # h => hand'[g] = hand[g]
  BY StartStep
<1>1. MasterTyped'
  BY StartTyped
<1>2. First(op) \in {"exists", "latest", "check"} /\ (First(op) = "exists" <=> op = "create")
      /\ (First(op) = "latest" <=> op = "append")
  BY DEF First
<1>3. ~HasPointer(h)' /\ (HasHandle(h)' => op = "createChunk")
  BY <1>0, <1>2 DEF HasPointer, HasHandle
<1>4. Control(h)'
  BY <1>0, <1>2, <1>3 DEF Control
<1>5. ASSUME NEW g \in Handler
      PROVE  Control(g)' /\ SliceLoaded(g)'
  <2>1. CASE g # h
    <3>1. hand'[g] = hand[g] /\ Control(g) /\ SliceLoaded(g)
      BY <1>0, <2>1 DEF MasterInv
    <3> QED
      BY <1>0, <3>1, ControlKept DEF Ahead, SliceLoaded
  <2>2. CASE g = h
    <3>1. SliceLoaded(h)
      BY DEF MasterInv
    <3> QED
      BY <1>0, <1>2, <1>4, <2>2, <3>1 DEF SliceLoaded
  <2> QED
    BY <2>1, <2>2
<1>6. OneOwner'
  <2>1. \A q \in Path, o \in DOMAIN objects : Owns(q, o)' => Owns(q, o)
    BY <1>0, <1>3 DEF Owns, HasPointer
  <2> QED
    BY <1>0, <2>1 DEF MasterInv, OneOwner
<1>7. OneAtATime'
  <2>1. p \in Shared \/ Busy(p) = {}
    BY DEF Start
  <2> SUFFICES ASSUME NEW f \in Handler, NEW g \in Handler, NEW q \in Path, f # g,
                      Working(f, q)', Working(g, q)', q \notin Shared
               PROVE  FALSE
    BY DEF OneAtATime
  <2>2. ASSUME NEW k \in Handler, k # h, Working(k, q)'
        PROVE  Working(k, q)
    BY <1>0, <2>2 DEF Working
  <2>3. CASE f # h /\ g # h
    BY <2>2, <2>3 DEF MasterInv, OneAtATime
  <2>4. ASSUME NEW k \in Handler, k # h, Working(k, q), Working(h, q)', q \notin Shared
        PROVE  FALSE
    BY <1>0, <2>1, <2>4 DEF Working, Busy
  <2> QED
    BY <1>0, <2>2, <2>3, <2>4
<1> QED
  BY <1>0, <1>1, <1>5, <1>6, <1>7 DEF MasterInv, LoadedTyped

\* Neither Storage nor the end of the process moves a handler.
LEMMA StorageMaster ==
  ASSUME MasterInv, UNCHANGED <<files, objects, made, hand, loaded>>, up' \in BOOLEAN,
         requests' \in 0 .. MaxRequests
  PROVE  MasterInv'
  BY DEF MasterInv, MasterTyped, Control, HasPointer, HasHandle, LoadedTyped, SliceLoaded, OneOwner, Owns,
         OneAtATime, Working

LEMMA StoringLeaves ==
  ASSUME MasterInv, Storing
  PROVE  UNCHANGED <<files, objects, made, hand, loaded, up>> /\ requests' \in 0 .. MaxRequests
         /\ up' \in BOOLEAN
<1>1. UNCHANGED <<files, objects, made, hand, loaded, up>>
      /\ (requests' = requests \/ (requests' = requests + 1 /\ requests < MaxRequests))
  BY DEF Storing, Marshal, MarshalChunks, MarshalHandles, Save, metadata
<1>2. requests \in 0 .. MaxRequests /\ up \in BOOLEAN
  BY DEF MasterInv, MasterTyped
<1> QED
  BY <1>1, <1>2, RacesAssumption DEF RacesAssumption

\* Every start gives a handler a request that was sent for the path.
LEMMA RequestsStart ==
  ASSUME MasterInv, Requests
  PROVE  \E h \in Handler, p \in Path : \E op \in Ops[p] :
            \E num \in 0 .. MaxChunks, handle \in 0 .. Len(made) :
                /\ op = "createChunk" => handle \in DOMAIN made /\ made[handle] = p
                /\ Start(h, op, p, num, handle)
<1>1. PICK h \in Handler, p \in Path : \E op \in Ops[p] :
        \E num \in (IF op = "write" THEN 0 .. MaxChunks ELSE {0}),
           handle \in (IF op = "createChunk" THEN {k \in DOMAIN made : made[k] = p} ELSE {0}) :
            Start(h, op, p, num, handle)
  BY DEF Requests
<1>2. PICK op \in Ops[p] :
        \E num \in (IF op = "write" THEN 0 .. MaxChunks ELSE {0}),
           handle \in (IF op = "createChunk" THEN {k \in DOMAIN made : made[k] = p} ELSE {0}) :
            Start(h, op, p, num, handle)
  BY <1>1
<1>3. PICK num \in (IF op = "write" THEN 0 .. MaxChunks ELSE {0}),
           handle \in (IF op = "createChunk" THEN {k \in DOMAIN made : made[k] = p} ELSE {0}) :
            Start(h, op, p, num, handle)
  BY <1>2
<1>4. num \in 0 .. MaxChunks
  BY RacesAssumption DEF RacesAssumption
<1>5. handle \in 0 .. Len(made)
      /\ (op = "createChunk" => handle \in DOMAIN made /\ made[handle] = p)
  <2>1. CASE op = "createChunk"
    BY <1>3, <2>1, HandNow, Typed DEF MasterInv
  <2>2. CASE op # "createChunk"
    BY <1>3, <2>2, Typed DEF MasterInv
  <2> QED
    BY <2>1, <2>2
<1> QED
  BY <1>3, <1>4, <1>5

LEMMA FatalStops ==
  ASSUME Fatal
  PROVE  Stops
  BY DEF Fatal, Panic, others, Stops

LEMMA MasterInit ==
  ASSUME Init
  PROVE  MasterInv
<1>1. MasterTyped
  <2>1. files = EmptyMap /\ DOMAIN files = {} /\ files \in [DOMAIN files -> 1 .. Len(objects)]
    BY DEF Init, EmptyMap
  <2>2. made \in Seq(Path) /\ objects \in Seq(Files(Len(made))) /\ Len(made) = 0
        /\ Len(objects) = 0
    BY EmptySeq DEF Init
  <2>3. hand \in [Handler -> HandRecords(Len(made), Len(objects))]
    BY <2>2, IdleTyped DEF Init
  <2>4. up \in BOOLEAN /\ requests \in 0 .. MaxRequests
    BY RacesAssumption DEF RacesAssumption, Init
  <2> QED
    BY <2>1, <2>2, <2>3, <2>4 DEF MasterTyped
<1>2. \A h \in Handler : hand[h] = Idle /\ hand[h].pc = "idle"
  BY DEF Init, Idle
<1>3. DOMAIN objects = {}
  BY DEF Init
<1>4. LoadedTyped /\ \A h \in Handler : loaded[h] = <<>>
  BY EmptySeq DEF Init, LoadedTyped
<1> QED
  BY <1>1, <1>2, <1>3, <1>4
  DEF MasterInv, Control, SliceLoaded, OneOwner, OneAtATime, Working, HasPointer, HasHandle

LEMMA MasterStep ==
  ASSUME MasterInv, [Next]_vars
  PROVE  MasterInv'
<1>1. CASE Requests
  BY <1>1, RequestsStart, StartMaster
<1>2. ASSUME NEW h \in Handler, Handle(h)
      PROVE  MasterInv'
  BY <1>2, HandleMaster
<1>3. CASE Storing
  BY <1>3, StoringLeaves, StorageMaster
<1>4. CASE Fatal
  <2>1. Stops /\ requests \in 0 .. MaxRequests
    BY <1>4, FatalStops DEF MasterInv, MasterTyped
  <2> QED
    BY <2>1, StorageMaster DEF Stops
<1>5. CASE UNCHANGED vars
  BY <1>5, StorageMaster DEF vars, MasterInv, MasterTyped
<1> QED
  BY <1>1, <1>2, <1>3, <1>4, <1>5 DEF Next

LEMMA MasterInvariant == Spec => []MasterInv
  BY MasterInit, MasterStep, PTL DEF Spec

-----------------------------------------------------------------------------
(* The backup *)

LEMMA StorageInit ==
  ASSUME Init
  PROVE  StorageTyped /\ BackupKept
  BY DEF Init, NotStoring, EmptyMap, StorageTyped, BackupKept, Kept

\* The locals of Storage stay typed while handlers work: no object is lost.
LEMMA StorageTypedKept ==
  ASSUME StorageTyped, DOMAIN objects \subseteq DOMAIN objects',
         storage' = storage \/ \E p : storage' = [storage EXCEPT !.still = @ \ {p}]
  PROVE  StorageTyped'
<1>1. CASE storage' = storage
  BY <1>1 DEF StorageTyped
<1>2. ASSUME NEW p, storage' = [storage EXCEPT !.still = @ \ {p}]
      PROVE  StorageTyped'
  <2>1. storage' = [pc |-> storage.pc, todo |-> storage.todo, now |-> storage.now,
                    still |-> storage.still \ {p}, part |-> storage.part]
    BY <1>2 DEF StorageTyped
  <2> QED
    BY <2>1 DEF StorageTyped
<1> QED
  BY <1>1, <1>2

LEMMA MarshalBackup ==
  ASSUME MasterInv, Marshal
  PROVE  StorageTyped' /\ BackupKept'
<1>1. /\ storage' = [pc |-> "files", todo |-> files, now |-> "none",
                     still |-> {p \in DOMAIN files : Busy(p) = {}}, part |-> EmptyMap]
      /\ UNCHANGED <<files, objects, hand>>
  BY DEF Marshal, metadata
<1>2. DOMAIN files \subseteq Path /\ files \in [DOMAIN files -> DOMAIN objects]
  BY Typed DEF MasterInv, MasterTyped
<1>3. DOMAIN EmptyMap = {}
  BY DEF EmptyMap
<1>4. StorageTyped'
  BY <1>1, <1>2, <1>3 DEF StorageTyped
<1>5. ASSUME NEW p \in storage'.still
      PROVE  Kept(p)'
  <2>1. p \in DOMAIN files /\ Busy(p) = {}
    BY <1>1
  <2> QED
    BY <1>1, <2>1 DEF Kept, Working, Busy
<1> QED
  BY <1>4, <1>5 DEF BackupKept

LEMMA MarshalChunksBackup ==
  ASSUME MasterInv, StorageTyped, BackupKept, MarshalChunks
  PROVE  StorageTyped' /\ BackupKept'
<1>1. storage.pc = "files" /\ UNCHANGED <<files, objects, hand>>
  BY DEF MarshalChunks, metadata
<1>2. PICK p \in DOMAIN storage.todo :
        storage' = [storage EXCEPT !.pc = "handles", !.now = p,
            !.part = Put(storage.part, p, [handles |-> <<>>, chunks |->
                                [h \in DOMAIN objects[storage.todo[p]].chunks |-> Hidden]])]
  BY DEF MarshalChunks
<1> DEFINE entry == [handles |-> <<>>,
                     chunks |-> [h \in DOMAIN objects[storage.todo[p]].chunks |-> Hidden]]
           part == Put(storage.part, p, entry)
<1>3. /\ entry = [handles |-> entry.handles, chunks |-> entry.chunks]
      /\ DOMAIN entry.chunks = DOMAIN objects[storage.todo[p]].chunks
  OBVIOUS
<1> HIDE DEF entry
<1>4. /\ DOMAIN part = DOMAIN storage.part \cup {p} /\ part[p] = entry
      /\ \A q \in DOMAIN storage.part : q # p => part[q] = storage.part[q]
  BY DEF Put
<1>5. storage' = [pc |-> "handles", todo |-> storage.todo, now |-> p, still |-> storage.still,
                  part |-> part]
  BY <1>2 DEF StorageTyped, entry
<1> HIDE DEF part
<1>6. StorageTyped'
  BY <1>1, <1>3, <1>4, <1>5 DEF StorageTyped
<1>7. ASSUME NEW q \in storage.still
      PROVE  Kept(q)'
  <2>1. Kept(q)
    BY DEF BackupKept
  <2>2. CASE q = p
    BY <1>1, <1>3, <1>4, <1>5, <2>1, <2>2 DEF Kept, Working
  <2>3. CASE q # p
    BY <1>1, <1>4, <1>5, <2>1, <2>3 DEF Kept, Working
  <2> QED
    BY <2>2, <2>3
<1> QED
  BY <1>5, <1>6, <1>7 DEF BackupKept

LEMMA MarshalHandlesBackup ==
  ASSUME MasterInv, StorageTyped, BackupKept, MarshalHandles
  PROVE  StorageTyped' /\ BackupKept'
<1>1. /\ storage.pc = "handles" /\ UNCHANGED <<files, objects, hand>>
      /\ storage' = [storage EXCEPT !.pc = "files", !.todo = Without(storage.todo, {storage.now}),
                        !.part[storage.now].handles = objects[storage.todo[storage.now]].handles]
  BY DEF MarshalHandles, metadata
<1>2. PICK p : p = storage.now
  OBVIOUS
<1>3. /\ p \in DOMAIN storage.todo /\ p \in DOMAIN storage.part
      /\ storage.part[p] = [handles |-> storage.part[p].handles,
                            chunks |-> storage.part[p].chunks]
  BY <1>1, <1>2 DEF StorageTyped
<1>4. PICK entry : entry = [handles |-> objects[storage.todo[p]].handles,
                            chunks |-> storage.part[p].chunks]
  OBVIOUS
<1>5. /\ entry = [handles |-> entry.handles, chunks |-> entry.chunks]
      /\ entry.handles = objects[storage.todo[p]].handles
      /\ entry.chunks = storage.part[p].chunks
      /\ [storage.part[p] EXCEPT !.handles = objects[storage.todo[p]].handles] = entry
  BY <1>3, <1>4
<1>6. PICK part : part = [storage.part EXCEPT ![p] = entry]
  OBVIOUS
<1>7. PICK todo : todo = Without(storage.todo, {p})
  OBVIOUS
<1>8. storage' = [pc |-> "files", todo |-> todo, now |-> p, still |-> storage.still,
                  part |-> part]
  BY <1>1, <1>2, <1>5, <1>6, <1>7 DEF StorageTyped
<1>9. /\ storage'.pc = "files" /\ storage'.todo = todo /\ storage'.part = part
      /\ storage'.still = storage.still
  BY <1>8
<1>10. /\ DOMAIN part = DOMAIN storage.part /\ part[p] = entry
       /\ \A q \in DOMAIN storage.part : q # p => part[q] = storage.part[q]
  BY <1>3, <1>6
<1>11. /\ DOMAIN todo = DOMAIN storage.todo \ {p}
       /\ \A q \in DOMAIN todo : todo[q] = storage.todo[q]
       /\ todo \in [DOMAIN todo -> DOMAIN objects]
  BY <1>7 DEF Without, Restrict, StorageTyped
<1>12. StorageTyped'
  <2>1. \A q \in DOMAIN part : part[q] = [handles |-> part[q].handles, chunks |-> part[q].chunks]
    BY <1>5, <1>10 DEF StorageTyped
  <2>2. /\ storage.still \subseteq Path /\ DOMAIN part \subseteq Path
        /\ DOMAIN todo \subseteq Path
    BY <1>10, <1>11 DEF StorageTyped
  <2> QED
    BY <1>1, <1>8, <1>9, <1>11, <2>1, <2>2 DEF StorageTyped
<1>13. ASSUME NEW q \in storage.still
      PROVE  Kept(q)'
  <2>1. /\ q \in DOMAIN files /\ \A h \in Handler : ~Working(h, q)
        /\ q \in DOMAIN storage.todo => storage.todo[q] = files[q]
        /\ q \notin DOMAIN storage.todo =>
              q \in DOMAIN storage.part /\ storage.part[q].handles = objects[files[q]].handles
        /\ (q \notin DOMAIN storage.todo \/ q = p) =>
              DOMAIN storage.part[q].chunks = DOMAIN objects[files[q]].chunks
    BY <1>1, <1>2 DEF BackupKept, Kept
  <2>2. /\ q \in DOMAIN files' /\ (\A h \in Handler : ~Working(h, q)') /\ files' = files
        /\ objects' = objects
    BY <1>1, <2>1 DEF Working
  <2>3. q \in DOMAIN todo => todo[q] = files[q]
    BY <1>11, <2>1
  <2>4. q \notin DOMAIN todo =>
            /\ q \in DOMAIN part /\ part[q].handles = objects[files[q]].handles
            /\ DOMAIN part[q].chunks = DOMAIN objects[files[q]].chunks
    <3>1. CASE q = p
      BY <1>3, <1>5, <1>10, <2>1, <3>1
    <3>2. CASE q # p
      BY <1>10, <1>11, <2>1, <3>2
    <3> QED
      BY <3>1, <3>2
  <2> QED
    BY <1>9, <2>2, <2>3, <2>4 DEF Kept
<1> QED
  BY <1>9, <1>12, <1>13 DEF BackupKept

LEMMA SaveBackup ==
  ASSUME Save
  PROVE  StorageTyped' /\ BackupKept'
  BY DEF Save, NotStoring, EmptyMap, StorageTyped, BackupKept, Kept

\* A handler works on no file that is still as the backup found it.
LEMMA HandleBackup ==
  ASSUME MasterInv, StorageTyped, BackupKept, NEW h \in Handler, Handle(h)
  PROVE  StorageTyped' /\ BackupKept'
<1>1. storage' = storage
  <2>1. CASE Return(h) \/ Exists(h) \/ Insert(h) \/ Latest(h) \/ Check(h) \/ Remove(h)
    BY <2>1, ReturnStep, ExistsStep, InsertStep, LatestStep, CheckStep, RemoveStep
  <2>2. CASE Lookup(h) \/ Chunks(h) \/ LoadHandles(h) \/ Locate(h) \/ Answer(h)
    BY <2>2, LookupStep, ChunksStep, LoadStep, LocateStep, AnswerStep DEF Stops
  <2>3. CASE Drop(h) \/ Cut(h) \/ PutChunk(h) \/ ListHandle(h)
    BY <2>3, DropStep, CutStep, PutChunkStep, ListHandleStep
  <2> QED
    BY <2>1, <2>2, <2>3 DEF Handle
<1>2. StorageTyped'
  BY <1>1, HandleAhead, StorageTypedKept DEF Ahead
<1>3. ASSUME NEW p \in storage.still, storage.pc # "idle"
      PROVE  Kept(p)'
  <2>1. Kept(p) /\ p \in Path /\ p \in DOMAIN files
    BY <1>3 DEF BackupKept, StorageTyped, Kept
  <2>2. p # hand[h].path
    BY <1>3, <2>1, HandleMoves DEF Kept, Working
  <2>3. \A g \in Handler : ~Working(g, p)'
    BY <1>3, <2>1, <2>2, HandleMoves DEF Kept, Working, Idle
  <2>4. p \in DOMAIN files' /\ files'[p] = files[p] /\ objects'[files[p]] = objects[files[p]]
    BY <2>1, <2>2, OtherFiles
  <2> QED
    BY <1>1, <1>3, <2>1, <2>3, <2>4 DEF Kept
<1> QED
  BY <1>1, <1>2, <1>3 DEF BackupKept, Kept

LEMMA StartBackup ==
  ASSUME MasterInv, StorageTyped, BackupKept, NEW h \in Handler, NEW p \in Path, NEW op \in Ops[p],
         NEW num \in 0 .. MaxChunks, NEW handle \in 0 .. Len(made), Start(h, op, p, num, handle)
  PROVE  StorageTyped' /\ BackupKept'
<1>1. /\ UNCHANGED <<files, objects>> /\ hand'[h].path = p
      /\ \A g \in Handler : g # h => hand'[g] = hand[g]
      /\ storage' = [storage EXCEPT !.still = @ \ {p}]
  BY StartStep
<1>2. storage' = [pc |-> storage.pc, todo |-> storage.todo, now |-> storage.now,
                  still |-> storage.still \ {p}, part |-> storage.part]
  BY <1>1 DEF StorageTyped
<1>3. StorageTyped'
  BY <1>1, StorageTypedKept
<1>4. ASSUME NEW q \in storage'.still
      PROVE  Kept(q)'
  <2>1. Kept(q) /\ q # p
    BY <1>2 DEF BackupKept
  <2> QED
    BY <1>1, <1>2, <2>1 DEF Kept, Working
<1> QED
  BY <1>3, <1>4 DEF BackupKept

LEMMA BackupStep ==
  ASSUME MasterInv, StorageTyped, BackupKept, [Next]_vars
  PROVE  StorageTyped' /\ BackupKept'
<1>1. CASE Requests
  BY <1>1, RequestsStart, StartBackup
<1>2. ASSUME NEW h \in Handler, Handle(h)
      PROVE  StorageTyped' /\ BackupKept'
  BY <1>2, HandleBackup
<1>3. CASE Storing
  BY <1>3, MarshalBackup, MarshalChunksBackup, MarshalHandlesBackup, SaveBackup DEF Storing
<1>4. CASE Fatal \/ UNCHANGED vars
  <2>1. UNCHANGED <<files, objects, hand, storage>>
    BY <1>4, FatalStops DEF Stops, vars
  <2> QED
    BY <2>1 DEF StorageTyped, BackupKept, Kept, Working
<1> QED
  BY <1>1, <1>2, <1>3, <1>4 DEF Next

LEMMA BackupInvariant == Spec => [](MasterInv /\ StorageTyped /\ BackupKept)
<1>1. Init => MasterInv /\ StorageTyped /\ BackupKept
  BY MasterInit, StorageInit
<1>2. MasterInv /\ StorageTyped /\ BackupKept /\ [Next]_vars
        => (MasterInv /\ StorageTyped /\ BackupKept)'
  BY MasterStep, BackupStep
<1> QED
  BY <1>1, <1>2, PTL DEF Spec

\* RacesTypeOK: every pointer of the map leads to a File, its handles were made,
\* and so were those of its chunks, whoever works on it.
THEOREM RacesAreTyped == Spec => []RacesTypeOK
<1>1. MasterInv /\ StorageTyped => RacesTypeOK
  <2> SUFFICES ASSUME MasterInv, StorageTyped PROVE RacesTypeOK
    OBVIOUS
  <2>1. MasterTyped
    BY DEF MasterInv
  <2>2. DOMAIN files \subseteq Path /\ \A p \in DOMAIN files : files[p] \in DOMAIN objects
    BY <2>1, Typed DEF MasterTyped
  <2>3. ASSUME NEW o \in DOMAIN objects
        PROVE  objects[o].handles \in Seq(DOMAIN made) /\ DOMAIN objects[o].chunks \subseteq DOMAIN made
    <3>1. objects[o] \in Files(Len(made)) /\ DOMAIN made = 1 .. Len(made) /\ Len(made) \in Nat
      BY <2>1, Typed
    <3>2. objects[o].chunks \in Tables(Len(made)) /\ objects[o].handles \in Seq(1 .. Len(made))
      BY <3>1, FileIsNotNone
    <3> QED
      BY <3>1, <3>2, InTables
  <2>4. ASSUME NEW h \in Handler
        PROVE  /\ loaded[h] \in Seq(DOMAIN made) /\ hand[h].handle \in 0 .. Len(made) /\ hand[h].obj \in 0 .. Len(objects)
               /\ hand[h].status \in {0, -1}
    <3>1. loaded[h] \in Seq(DOMAIN made)
      BY <2>1, Typed DEF MasterInv, LoadedTyped
    <3> QED
      BY <3>1, HandNow DEF HandRecords
  <2>5. DOMAIN storage.todo \cup storage.still \cup DOMAIN storage.part \subseteq Path
    BY DEF StorageTyped
  <2> QED
    BY <2>1, <2>2, <2>3, <2>4, <2>5 DEF RacesTypeOK, MasterTyped
<1> QED
  BY <1>1, BackupInvariant, PTL

\* BackupHasStableFiles: what Save writes holds, with its chunks and handles,
\* every file that no handler has worked on since Marshal took the pointers.
THEOREM BackupsHoldStableFiles == Spec => BackupHasStableFiles
<1> DEFINE Held == \A p \in storage.still :
            /\ p \in DOMAIN storage.part
            /\ storage.part[p].handles = FileAt(p).handles
            /\ DOMAIN storage.part[p].chunks = DOMAIN FileAt(p).chunks
<1>1. MasterInv /\ StorageTyped /\ BackupKept /\ [Next]_vars => [Save => Held]_vars
  <2> SUFFICES ASSUME BackupKept, Save PROVE Held
    OBVIOUS
  <2>1. storage.pc = "files" /\ DOMAIN storage.todo = {}
    BY DEF Save, EmptyMap
  <2> SUFFICES ASSUME NEW p \in storage.still
               PROVE  /\ p \in DOMAIN storage.part
                      /\ storage.part[p].handles = FileAt(p).handles
                      /\ DOMAIN storage.part[p].chunks = DOMAIN FileAt(p).chunks
    OBVIOUS
  <2>2. Kept(p)
    BY DEF BackupKept
  <2> QED
    BY <2>1, <2>2 DEF Kept, FileAt
<1>2. BackupHasStableFiles <=> [][Save => Held]_vars
  BY DEF BackupHasStableFiles
<1> HIDE DEF Held
<1> QED
  BY <1>1, <1>2, BackupInvariant, PTL DEF Spec

-----------------------------------------------------------------------------
(* What the lists of handles hold *)

\* Where a handle that is about to be listed comes from.
LEMMA HandleAdds ==
  ASSUME MasterInv, NEW h \in Handler, Handle(h), NEW g \in Handler, Adds(g)'
  PROVE  /\ hand'[g].path = hand[g].path
         /\ \/ Adds(g) /\ hand'[g].handle = hand[g].handle
               /\ (g = h => ~ListHandle(h))
            \/ /\ g = h /\ hand'[h].handle = NextHandle /\ made' = Append(made, hand[h].path)
<1>1. CASE g # h
  BY <1>1, HandleMoves DEF Adds, HasHandle
<1>2. CASE g = h
  <2>0. Control(h) /\ hand'[h].pc # "idle" /\ hand[h].path \in Path
        /\ hand'[h].path = hand[h].path /\ hand'[h].op = hand[h].op
        /\ hand[h].op # "createChunk" /\ HasHandle(h)'
        /\ hand'[h].pc \in {"put", "list", "append", "insert", "lookup"}
    <3>1. hand'[h].pc # "idle" /\ HasHandle(h)'
      BY <1>2 DEF Adds, HasHandle
    <3>2. /\ hand'[h].path = hand[h].path /\ hand'[h].op = hand[h].op /\ hand[h].pc # "idle"
          /\ Control(h)
      BY <3>1, HandleMoves DEF Idle, MasterInv
    <3> QED
      BY <1>2, <3>1, <3>2 DEF Adds, HasHandle, Control
  <2>1. ~Goes(h, "done") /\ ~Goes(h, "chunks") /\ ~Goes(h, "check")
        /\ ~Goes(h, "remove") /\ ~Goes(h, "locate") /\ ~Goes(h, "cut") /\ ~Goes(h, "drop")
        /\ ~Goes(h, "answer") /\ ~Goes(h, "shrink")
    BY <2>0 DEF Goes
  <2>2. CASE Return(h) \/ Latest(h) \/ Remove(h) \/ Cut(h) \/ Drop(h) \/ Locate(h)
    <3>1. ~Return(h)
      BY <2>0, ReturnStep DEF Idle
    <3> QED
      BY <2>1, <2>2, <3>1, LatestStep, RemoveStep, CutStep, DropStep, LocateStep
  <2>3. CASE Exists(h)
    BY <1>2, <2>0, <2>1, <2>3, ExistsStep DEF Goes
  <2>4. CASE Insert(h)
    <3>1. Goes(h, "lookup") /\ Carries(h) /\ hand[h].pc = "insert"
      BY <2>4, InsertStep
    <3> QED
      BY <1>2, <2>0, <2>4, <3>1, ListHandleStep DEF Adds, HasHandle, Goes, Carries, Control
  <2>5. CASE Check(h)
    <3>1. Goes(h, "lookup") /\ hand[h].op # "create"
      BY <2>0, <2>1, <2>5, CheckStep DEF Control
    <3> QED
      BY <2>0, <3>1 DEF HasHandle, Goes
  <2>6. CASE Lookup(h)
    <3>1. CASE Stops
      BY <1>2, <2>0, <2>6, <3>1, LookupStep, ListHandleStep DEF Stops, Adds, HasHandle
    <3>2. CASE Carries(h) /\ Goes(h, IF hand[h].op \in {"create", "createChunk"} THEN "put"
                                     ELSE "chunks")
      <4>1. hand[h].op = "create" /\ Goes(h, "put") /\ hand[h].pc = "lookup"
        BY <2>0, <2>1, <2>6, <3>2, LookupStep
      <4> QED
        BY <1>2, <2>0, <3>2, <4>1, ListHandleStep DEF Adds, HasHandle, Goes, Carries
    <3> QED
      BY <2>1, <2>6, <3>1, <3>2, LookupStep
  <2>7. CASE Chunks(h)
    <3>1. CASE Stops
      BY <2>0, <2>7, <3>1, ChunksStep DEF Stops
    <3> QED
      BY <1>2, <2>0, <2>1, <2>7, <3>1, ChunksStep DEF Goes
  <2>8. CASE PutChunk(h)
    <3>1. Goes(h, "list") /\ Carries(h) /\ hand[h].pc = "put"
      BY <2>8, PutChunkStep
    <3> QED
      BY <1>2, <2>0, <2>8, <3>1, ListHandleStep DEF Adds, HasHandle, Goes, Carries
  <2>9. CASE ListHandle(h)
    BY <1>2, <2>0, <2>1, <2>9, ListHandleStep DEF Goes
  <2>10. CASE Answer(h)
    BY <2>0, <2>1, <2>10, AnswerStep DEF Stops
  <2>11. CASE LoadHandles(h)
    <3>1. CASE Stops
      BY <1>2, <2>0, <2>11, <3>1, LoadStep, ListHandleStep DEF Stops, Adds, HasHandle
    <3>2. \/ Goes(h, "append") /\ Carries(h) /\ hand[h].pc = "list"
          \/ Stops
      BY <2>1, <2>11, LoadStep
    <3> QED
      BY <1>2, <2>0, <2>11, <3>1, <3>2, ListHandleStep DEF Adds, HasHandle, Goes, Carries
  <2> QED
    BY <2>2, <2>3, <2>4, <2>5, <2>6, <2>7, <2>8, <2>9, <2>10, <2>11 DEF Handle
<1> QED
  BY <1>1, <1>2

\* A handle that a handler is about to list was made for its path.
LEMMA AddsMade ==
  ASSUME MasterInv, NEW h \in Handler, Adds(h)
  PROVE  hand[h].handle \in DOMAIN made /\ made[hand[h].handle] = hand[h].path
         /\ hand[h].handle # NextHandle
  BY Typed DEF MasterInv, Control, Adds, NextHandle

\* What is at a place was made.
LEMMA PlaceMade ==
  ASSUME MasterInv, NEW k, NEW o, NEW i, Place(k, o, i)
  PROVE  k \in DOMAIN made /\ o \in DOMAIN objects /\ i \in Nat \ {0} /\ k # NextHandle
<1>1. /\ Len(made) \in Nat /\ DOMAIN made = 1 .. Len(made) /\ MasterTyped
      /\ \A q \in DOMAIN objects : objects[q].handles \in Seq(1 .. Len(made))
  BY Typed, FileIsNotNone DEF MasterInv
<1>2. \A s \in Seq(1 .. Len(made)) : \A j \in DOMAIN s : j \in Nat \ {0} /\ s[j] \in 1 .. Len(made)
  BY ElementOfSeq, LenProperties
<1>3. CASE o \in DOMAIN objects /\ i \in DOMAIN objects[o].handles /\ objects[o].handles[i] = k
  BY <1>1, <1>2, <1>3 DEF NextHandle
<1>4. ASSUME NEW h \in Handler, HasPointer(h), hand[h].obj = o, i \in DOMAIN loaded[h],
             loaded[h][i] = k
      PROVE  k \in DOMAIN made /\ o \in DOMAIN objects /\ i \in Nat \ {0} /\ k # NextHandle
  <2>1. loaded[h] \in Seq(1 .. Len(made)) /\ o \in DOMAIN objects
    BY <1>4 DEF MasterInv, LoadedTyped, Control
  <2> QED
    BY <1>1, <1>2, <1>4, <2>1 DEF NextHandle
<1> QED
  BY <1>3, <1>4 DEF Place

\* A step puts one handle at a new place at most: at the end of the slice that
\* was loaded, when ListHandle stores it.
LEMMA PlaceOfNew ==
  ASSUME NEW S, NEW s \in Seq(S), NEW k, NEW i \in DOMAIN Append(s, k)
  PROVE  \/ i \in DOMAIN s /\ Append(s, k)[i] = s[i]
         \/ i = Len(s) + 1 /\ Append(s, k)[i] = k
  BY LenProperties

LEMMA PlaceOfKept ==
  ASSUME NEW S, NEW s \in Seq(S), NEW n \in Nat, n <= Len(s), NEW i \in DOMAIN SubSeq(s, 1, n)
  PROVE  i \in DOMAIN s /\ SubSeq(s, 1, n)[i] = s[i]
  BY LenProperties

LEMMA PlaceAfter ==
  ASSUME MasterInv, NEW h \in Handler, Handle(h), NEW k, NEW o, NEW i, Place(k, o, i)'
  PROVE  \/ Place(k, o, i)
         \/ /\ ListHandle(h) /\ o = hand[h].obj /\ k = hand[h].handle
            /\ i = Len(loaded[h]) + 1
<1>0. /\ \A g \in Handler : g # h => hand'[g] = hand[g]
      /\ \A g \in Handler : loaded[g] \in Seq(1 .. Len(made))
      /\ \A q \in DOMAIN objects : objects[q].handles \in Seq(1 .. Len(made))
      /\ hand[h].num \in Nat
  BY HandleMoves, Typed, FileIsNotNone, HandNow DEF MasterInv, LoadedTyped, HandRecords
<1>1. CASE o \in DOMAIN objects' /\ i \in DOMAIN objects'[o].handles /\ objects'[o].handles[i] = k
  <2>1. CASE o \notin DOMAIN objects
    <3>1. Insert(h)
      BY <1>1, <2>1, HandleFiles, RemoveStep
    <3>2. objects'[o] = NewFile
      BY <1>1, <2>1, <3>1, InsertStep
    <3>3. DOMAIN NewFile.handles = {}
      BY DEF NewFile
    <3> QED
      BY <1>1, <3>2, <3>3
  <2>2. CASE o \in DOMAIN objects /\ objects'[o].handles = objects[o].handles
    BY <1>1, <2>2 DEF Place
  <2>3. CASE /\ ListHandle(h) /\ o = hand[h].obj
             /\ objects'[o].handles = Append(loaded[h], hand[h].handle)
    <3>1. HasPointer(h)
      BY <2>3, ListHandleStep DEF HasPointer
    <3>2. \/ i \in DOMAIN loaded[h] /\ k = loaded[h][i]
          \/ i = Len(loaded[h]) + 1 /\ k = hand[h].handle
      BY <1>0, <1>1, <2>3, PlaceOfNew
    <3> QED
      BY <2>3, <3>1, <3>2 DEF Place
  <2>4. CASE /\ Cut(h) /\ o = hand[h].obj
             /\ objects'[o].handles = SubSeq(loaded[h], 1, hand[h].num)
    <3>1. HasPointer(h) /\ hand[h].num <= Len(loaded[h])
      BY <2>4, CutStep DEF HasPointer, MasterInv, SliceLoaded
    <3>2. i \in DOMAIN loaded[h] /\ k = loaded[h][i]
      BY <1>0, <1>1, <2>4, <3>1, PlaceOfKept
    <3> QED
      BY <2>4, <3>1, <3>2 DEF Place
  <2> QED
    BY <2>1, <2>2, <2>3, <2>4, HandleLists
<1>2. ASSUME NEW g \in Handler, HasPointer(g)', hand'[g].obj = o, i \in DOMAIN loaded'[g],
             loaded'[g][i] = k
      PROVE  Place(k, o, i)
  <2>1. CASE g # h
    <3>1. loaded'[g] = loaded[g]
      BY <2>1, LoadedMoves DEF MasterInv, LoadedTyped
    <3> QED
      BY <1>0, <1>2, <2>1, <3>1 DEF Place, HasPointer
  <2>2. CASE g = h
    <3>1. SliceLoaded(h)' /\ loaded'[h] # <<>>
      BY <1>2, <2>2, HandleLoaded
    <3>2. hand'[h].pc \in {"append", "shrink"}
      BY <3>1 DEF SliceLoaded
    <3>3. CASE loaded' = loaded /\ hand' = hand
      BY <1>2, <2>2, <3>3 DEF Place, HasPointer
    <3>4. CASE /\ LoadHandles(h) /\ HasPointer(h)
               /\ loaded' = [loaded EXCEPT ![h] = File(h).handles] /\ Points(h)
      <4>1. loaded'[h] = File(h).handles /\ hand'[h].obj = hand[h].obj
            /\ hand[h].obj \in DOMAIN objects
        BY <3>4, FileOf DEF Points, MasterInv, LoadedTyped
      <4> QED
        BY <1>2, <2>2, <4>1 DEF Place, File
    <3> QED
      BY <3>2, <3>3, <3>4, LoadedMoves
  <2> QED
    BY <2>1, <2>2
<1> QED
  BY <1>1, <1>2 DEF Place

\* What ListHandle lists was to be added.
LEMMA ListsAdded ==
  ASSUME MasterInv, NEW h \in Handler, ListHandle(h),
         "createChunk" \notin Ops[made[hand[h].handle]]
  PROVE  Adds(h)
<1>1. HasHandle(h)
  BY ListHandleStep DEF HasHandle
<1>2. made[hand[h].handle] = hand[h].path
  BY <1>1 DEF MasterInv, Control
<1> QED
  BY <1>1, <1>2 DEF Adds

LEMMA HandleOnePlace ==
  ASSUME MasterInv, ListsKept, NEW h \in Handler, Handle(h)
  PROVE  OnePlace'
<1> SUFFICES ASSUME NEW k \in DOMAIN made', "createChunk" \notin Ops[made'[k]],
                    NEW o \in DOMAIN objects', NEW q \in DOMAIN objects', NEW i \in Nat, NEW j \in Nat,
                    Place(k, o, i)', Place(k, q, j)'
             PROVE  o = q /\ i = j
  BY DEF OnePlace
<1>1. \A x, y : Place(k, x, y) => /\ k \in DOMAIN made /\ made'[k] = made[k]
                                  /\ x \in DOMAIN objects /\ y \in Nat
  BY PlaceMade, HandleAhead DEF Ahead
<1>2. ASSUME ListHandle(h), k = hand[h].handle
      PROVE  \A x, y : ~Place(k, x, y)
  <2>1. HasHandle(h)
    BY <1>2, ListHandleStep DEF HasHandle
  <2>2. k \in DOMAIN made /\ made'[k] = made[k]
    BY <1>2, <2>1, HandleAhead DEF MasterInv, Control, Ahead
  <2>3. Adds(h)
    BY <1>2, <2>2, ListsAdded
  <2>4. Unlisted(h)
    BY DEF ListsKept
  <2> QED
    BY <1>1, <1>2, <2>3, <2>4 DEF Unlisted
<1>3. /\ Place(k, o, i) \/ (ListHandle(h) /\ o = hand[h].obj /\ k = hand[h].handle /\ i = Len(loaded[h]) + 1)
      /\ Place(k, q, j) \/ (ListHandle(h) /\ q = hand[h].obj /\ k = hand[h].handle /\ j = Len(loaded[h]) + 1)
  BY PlaceAfter
<1>4. CASE ListHandle(h) /\ k = hand[h].handle
  BY <1>2, <1>3, <1>4
<1>5. CASE Place(k, o, i) /\ Place(k, q, j)
  <2>1. k \in DOMAIN made /\ made'[k] = made[k] /\ o \in DOMAIN objects /\ q \in DOMAIN objects
    BY <1>1, <1>5
  <2> QED
    BY <1>5, <2>1 DEF ListsKept, OnePlace
<1> QED
  BY <1>3, <1>4, <1>5

LEMMA HandleUnlisted ==
  ASSUME MasterInv, ListsKept, NEW h \in Handler, Handle(h), NEW g \in Handler
  PROVE  Unlisted(g)'
<1> SUFFICES ASSUME Adds(g)'
             PROVE  /\ \A o \in DOMAIN objects' : \A i \in Nat : ~Place(hand[g].handle, o, i)'
                    /\ \A k \in Handler : Adds(k)' /\ hand'[k].handle = hand'[g].handle => k = g
  BY DEF Unlisted
<1>0. \A k \in Handler : Unlisted(k)
  BY DEF ListsKept
<1> DEFINE Old(k) == Adds(k) /\ hand'[k].handle = hand[k].handle /\ hand'[k].path = hand[k].path
                     /\ (k = h => ~ListHandle(h))
           New(k) == k = h /\ hand'[h].handle = NextHandle
<1>1. \A k \in Handler : Adds(k)' => Old(k) \/ New(k)
  BY HandleAdds
<1>2. \A k \in Handler : Adds(k) => hand[k].handle # NextHandle
  BY AddsMade
<1>3. ASSUME NEW o, NEW i, Place(hand[g].handle, o, i)'
      PROVE  FALSE
  <2>1. CASE Place(hand'[g].handle, o, i)
    <3>1. o \in DOMAIN objects /\ i \in Nat /\ hand'[g].handle # NextHandle
      BY <2>1, PlaceMade
    <3>2. Old(g)
      BY <1>1, <3>1
    <3> QED
      BY <1>0, <2>1, <3>1, <3>2 DEF Unlisted
  <2>2. CASE ListHandle(h) /\ hand'[g].handle = hand[h].handle
    <3>1. HasHandle(h)
      BY <2>2, ListHandleStep DEF HasHandle
    <3>2. hand[h].handle \in DOMAIN made /\ made[hand[h].handle] = hand[h].path
      BY <3>1 DEF MasterInv, Control
    <3>3. hand[h].handle # NextHandle
      BY <3>2, Typed DEF NextHandle, MasterInv
    <3>4. Adds(g) /\ hand[g].handle = hand[h].handle /\ g # h
      BY <1>1, <2>2, <3>3
    <3>5. hand[g].path = hand[h].path
      BY <3>2, <3>4, AddsMade
    <3>6. Adds(h)
      BY <3>1, <3>4, <3>5 DEF Adds
    <3> QED
      BY <1>0, <3>4, <3>6 DEF Unlisted
  <2>3. PICK k : k = hand'[g].handle
    OBVIOUS
  <2>4. Place(k, o, i)'
    BY <1>3, <2>3
  <2> QED
    BY <2>1, <2>2, <2>3, <2>4, PlaceAfter
<1>4. ASSUME NEW k \in Handler, Adds(k)', hand'[k].handle = hand'[g].handle
      PROVE  k = g
  <2>1. CASE Old(k) /\ Old(g)
    BY <1>0, <1>4, <2>1 DEF Unlisted
  <2>2. CASE New(k) /\ New(g)
    BY <2>2
  <2>3. CASE (Old(k) /\ New(g)) \/ (New(k) /\ Old(g))
    BY <1>2, <1>4, <2>3
  <2>4. (Old(k) \/ New(k)) /\ (Old(g) \/ New(g))
    BY <1>1, <1>4
  <2> HIDE DEF Old, New
  <2> QED
    BY <2>1, <2>2, <2>3, <2>4
<1> QED
  BY <1>3, <1>4

LEMMA StartLists ==
  ASSUME MasterInv, ListsKept, NEW h \in Handler, NEW p \in Path, NEW op \in Ops[p],
         NEW num \in 0 .. MaxChunks, NEW handle \in 0 .. Len(made), Start(h, op, p, num, handle)
  PROVE  ListsKept'
<1>0. /\ hand[h].pc = "idle" /\ UNCHANGED <<objects, made, loaded>>
      /\ hand'[h].pc = First(op) /\ hand'[h].op = op /\ hand'[h].path = p
      /\ \A g \in Handler : g # h => hand'[g] = hand[g]
  BY StartStep
<1>1. First(op) \in {"exists", "latest", "check"}
  BY DEF First
<1>2. ~Adds(h)' /\ ~HasPointer(h)'
  BY <1>0, <1>1 DEF Adds, HasHandle, HasPointer
<1>3. \A g \in Handler : /\ Adds(g)' => g # h /\ Adds(g) /\ hand'[g] = hand[g]
                         /\ HasPointer(g)' => HasPointer(g) /\ hand'[g] = hand[g]
  BY <1>0, <1>2 DEF Adds, HasHandle, HasPointer
<1>4. ASSUME NEW k, NEW o, NEW i, Place(k, o, i)'
      PROVE  Place(k, o, i)
  BY <1>0, <1>3, <1>4 DEF Place
<1>5. ASSUME NEW g \in Handler
      PROVE  Unlisted(g)'
  <2> SUFFICES ASSUME Adds(g)'
               PROVE  /\ \A o \in DOMAIN objects' : \A i \in Nat : ~Place(hand[g].handle, o, i)'
                      /\ \A k \in Handler : Adds(k)' /\ hand'[k].handle = hand'[g].handle => k = g
    BY DEF Unlisted
  <2>1. Unlisted(g) /\ Adds(g) /\ hand'[g] = hand[g]
    BY <1>3 DEF ListsKept
  <2>2. PICK k : k = hand[g].handle
    OBVIOUS
  <2>3. \A o \in DOMAIN objects : \A i \in Nat : ~Place(k, o, i)
    BY <2>1, <2>2 DEF Unlisted
  <2>4. \A o \in DOMAIN objects : \A i \in Nat : ~Place(k, o, i)'
    BY <1>4, <2>3
  <2>5. \A o \in DOMAIN objects' : \A i \in Nat : ~Place(hand[g].handle, o, i)'
    BY <1>0, <2>1, <2>2, <2>4
  <2> QED
    BY <1>3, <2>1, <2>5 DEF Unlisted
<1>6. OnePlace'
  BY <1>0, <1>4 DEF ListsKept, OnePlace
<1> QED
  BY <1>5, <1>6 DEF ListsKept

LEMMA ListsStep ==
  ASSUME MasterInv, ListsKept, [Next]_vars
  PROVE  ListsKept'
<1>1. CASE Requests
  BY <1>1, RequestsStart, StartLists
<1>2. ASSUME NEW h \in Handler, Handle(h)
      PROVE  ListsKept'
  BY <1>2, HandleUnlisted, HandleOnePlace DEF ListsKept
<1>3. CASE Storing \/ Fatal \/ UNCHANGED vars
  <2>1. UNCHANGED <<objects, made, hand, loaded>>
    BY <1>3, FatalStops, StoringLeaves DEF Stops, vars
  <2>2. \A h \in Handler : HasPointer(h)' <=> HasPointer(h)
    BY <2>1 DEF HasPointer
  <2>3. \A k, o, i : Place(k, o, i)' <=> Place(k, o, i)
    BY <2>1, <2>2 DEF Place
  <2>4. \A h \in Handler : Adds(h)' <=> Adds(h)
    BY <2>1 DEF Adds, HasHandle
  <2>5. OnePlace'
    BY <2>1, <2>3 DEF ListsKept, OnePlace
  <2>6. \A h \in Handler : Unlisted(h)'
    BY <2>1, <2>3, <2>4 DEF ListsKept, Unlisted
  <2> QED
    BY <2>5, <2>6 DEF ListsKept
<1> QED
  BY <1>1, <1>2, <1>3 DEF Next

LEMMA ListsInit ==
  ASSUME Init
  PROVE  ListsKept
<1>1. DOMAIN objects = {} /\ \A h \in Handler : ~Adds(h)
  BY DEF Init, Idle, Adds, HasHandle
<1> QED
  BY <1>1 DEF ListsKept, OnePlace, Unlisted

LEMMA ListsInvariant == Spec => [](MasterInv /\ ListsKept)
<1>1. Init => MasterInv /\ ListsKept
  BY MasterInit, ListsInit
<1>2. MasterInv /\ ListsKept /\ [Next]_vars => (MasterInv /\ ListsKept)'
  BY MasterStep, ListsStep
<1> QED
  BY <1>1, <1>2, PTL DEF Spec

\* ChunksListedOnce: however the handlers meet, and whichever update of a list is
\* lost, a handle that the master made stays at one place of one file's list
\* (without CreateChunk).
THEOREM ChunksAreListedOnce == Spec => []ChunksListedOnce
<1>1. MasterInv /\ ListsKept => ChunksListedOnce
  <2> SUFFICES ASSUME MasterInv, ListsKept, NEW p \in DOMAIN files, NEW q \in DOMAIN files,
                      NEW i \in DOMAIN FileAt(p).handles, NEW j \in DOMAIN FileAt(q).handles,
                      FileAt(p).handles[i] = FileAt(q).handles[j],
                      "createChunk" \notin Ops[made[FileAt(p).handles[i]]]
               PROVE  p = q /\ i = j
    BY DEF ChunksListedOnce
  <2>1. PICK k : k = FileAt(p).handles[i]
    OBVIOUS
  <2>2. /\ p \in Path /\ q \in Path /\ files[p] \in DOMAIN objects /\ files[q] \in DOMAIN objects
        /\ FileAt(p) = objects[files[p]] /\ FileAt(q) = objects[files[q]]
    BY Typed DEF MasterInv, MasterTyped, FileAt
  <2>3. Place(k, files[p], i) /\ Place(k, files[q], j)
    BY <2>1, <2>2 DEF Place
  <2>4. k \in DOMAIN made /\ i \in Nat /\ j \in Nat
    BY <2>3, PlaceMade
  <2>5. files[p] = files[q] /\ i = j
    BY <2>1, <2>2, <2>3, <2>4 DEF ListsKept, OnePlace
  <2> QED
    BY <2>2, <2>5 DEF MasterInv, OneOwner, Owns
<1> QED
  BY <1>1, ListsInvariant, PTL

-----------------------------------------------------------------------------
(* Handlers that work alone on a file *)

\* The tables of a path hold the chunks that were made for it.
LEMMA ChunkKeys ==
  ASSUME MasterInv, NEW h \in Handler, Handle(h), NEW o \in DOMAIN objects,
         NEW k \in DOMAIN objects'[o].chunks
  PROVE  \/ k \in DOMAIN objects[o].chunks
         \/ HasPointer(h) /\ o = hand[h].obj /\ k \in DOMAIN made /\ made[k] = hand[h].path
<1>1. CASE objects'[o] = objects[o]
  BY <1>1
<1>2. CASE objects'[o] # objects[o]
  <2>1. HasPointer(h) /\ o = hand[h].obj /\ hand[h].pc \in {"drop", "shrink", "put", "append"}
    BY <1>2, HandleObjects
  <2>2. Len(made) \in Nat /\ File(h) = objects[o] /\ File(h) \in Files(Len(made))
    BY <2>1, FileOf
  <2>3. CASE Drop(h)
    <3> DEFINE c == Without(File(h).chunks, HandlesBehind(File(h), hand[h].num))
               f == [chunks |-> c, handles |-> File(h).handles]
    <3>1. f.chunks = c
      OBVIOUS
    <3>2. Changes(h, f)
      BY <2>3, DropStep
    <3>3. DOMAIN c \subseteq DOMAIN File(h).chunks
      <4>1. PICK n, b, m : n = Len(made) /\ b = File(h) /\ m = hand[h].num
        OBVIOUS
      <4>2. n \in Nat /\ b \in Files(n)
        BY <2>2, <4>1
      <4>3. DOMAIN Without(b.chunks, HandlesBehind(b, m)) = DOMAIN b.chunks \ HandlesBehind(b, m)
        BY <4>2, DropTyped
      <4> QED
        BY <4>1, <4>3
    <3> HIDE DEF f, c
    <3> QED
      BY <2>1, <2>2, <3>1, <3>2, <3>3 DEF Changes
  <2>4. CASE Cut(h)
    <3> DEFINE f == [chunks |-> File(h).chunks,
                     handles |-> SubSeq(loaded[h], 1, hand[h].num)]
    <3>1. f.chunks = File(h).chunks
      OBVIOUS
    <3>2. Changes(h, f)
      BY <2>4, CutStep
    <3> HIDE DEF f
    <3> QED
      BY <2>1, <2>2, <3>1, <3>2 DEF Changes
  <2>5. CASE PutChunk(h)
    <3>1. PICK loc \in Locations : Changes(h, WithChunk(File(h), hand[h].handle, loc))
      BY <2>5, PutChunkStep
    <3>2. DOMAIN WithChunk(File(h), hand[h].handle, loc).chunks
             = DOMAIN File(h).chunks \cup {hand[h].handle}
      BY DEF WithChunk, Put
    <3>3. hand[h].handle \in DOMAIN made /\ made[hand[h].handle] = hand[h].path
      BY <2>5, PutChunkStep DEF MasterInv, Control, HasHandle
    <3> QED
      BY <2>1, <2>2, <3>1, <3>2, <3>3 DEF Changes
  <2>6. CASE ListHandle(h)
    <3> DEFINE f == [chunks |-> File(h).chunks, handles |-> Append(loaded[h], hand[h].handle)]
    <3>1. f.chunks = File(h).chunks
      OBVIOUS
    <3>2. Changes(h, f)
      BY <2>6, ListHandleStep
    <3> HIDE DEF f
    <3> QED
      BY <2>1, <2>2, <3>1, <3>2 DEF Changes
  <2>7. Drop(h) \/ Cut(h) \/ PutChunk(h) \/ ListHandle(h)
    BY <2>1, ReturnStep, ExistsStep, InsertStep, LatestStep, CheckStep, RemoveStep, LookupStep,
       ChunksStep, LoadStep, LocateStep, AnswerStep DEF Handle
  <2> QED
    BY <2>3, <2>4, <2>5, <2>6, <2>7
<1> QED
  BY <1>1, <1>2

LEMMA TableKeys ==
  ASSUME MasterInv, NEW f, f \in Files(Len(made)), NEW k \in DOMAIN f.chunks
  PROVE  k \in DOMAIN made
<1>1. f.chunks \in Tables(Len(made)) /\ Len(made) \in Nat /\ DOMAIN made = 1 .. Len(made)
  BY FileIsNotNone, Typed DEF MasterInv
<1> QED
  BY <1>1, InTables

LEMMA HandleChunksOfOwner ==
  ASSUME MasterInv, ChunksOfOwner, NEW h \in Handler, Handle(h)
  PROVE  ChunksOfOwner'
<1>0. \A k \in DOMAIN made : made'[k] = made[k]
  BY HandleAhead DEF Ahead
<1>1. ASSUME NEW o \in DOMAIN objects', NEW p \in Path, Owns(p, o)',
             NEW k \in DOMAIN objects'[o].chunks
      PROVE  made'[k] = p
  <2>1. CASE o \notin DOMAIN objects
    <3>1. objects'[o] = NewFile
      <4>1. Insert(h)
        BY <1>1, <2>1, HandleOwns
      <4> QED
        BY <2>1, <4>1, InsertStep
    <3>2. DOMAIN NewFile.chunks = {}
      BY DEF NewFile, EmptyMap
    <3> QED
      BY <1>1, <3>1, <3>2
  <2>2. CASE o \in DOMAIN objects
    <3>1. Owns(p, o)
      BY <1>1, <2>2, HandleOwns
    <3>2. CASE k \in DOMAIN objects[o].chunks
      <4>1. made[k] = p
        BY <2>2, <3>1, <3>2 DEF ChunksOfOwner
      <4>2. objects[o] \in Files(Len(made))
        BY <2>2, Typed DEF MasterInv
      <4>3. k \in DOMAIN made
        BY <3>2, <4>2, TableKeys
      <4> QED
        BY <1>0, <4>1, <4>3
    <3>3. CASE HasPointer(h) /\ o = hand[h].obj /\ k \in DOMAIN made /\ made[k] = hand[h].path
      <4>1. hand[h].path \in Path
        BY <3>3, FileOf
      <4>2. hand[h].path = p
        BY <2>2, <3>1, <3>3, <4>1 DEF MasterInv, OneOwner, Owns
      <4> QED
        BY <1>0, <3>3, <4>2
    <3> QED
      BY <1>1, <2>2, <3>2, <3>3, ChunkKeys
  <2> QED
    BY <2>1, <2>2
<1>2. ASSUME NEW g \in Handler, hand'[g].pc # "idle", hand'[g].before # None,
             NEW k \in DOMAIN hand'[g].before.chunks
      PROVE  made'[k] = hand'[g].path
  <2>1. hand[g].pc # "idle" /\ hand'[g].before = hand[g].before /\ hand'[g].path = hand[g].path
    BY <1>2, HandleMoves DEF Idle
  <2>2. made[k] = hand[g].path
    BY <1>2, <2>1 DEF ChunksOfOwner
  <2>3. hand[g].before \in Files(Len(made))
    BY <1>2, <2>1, HandNow DEF HandRecords
  <2>4. k \in DOMAIN made
    BY <1>2, <2>1, <2>3, TableKeys
  <2> QED
    BY <1>0, <2>1, <2>2, <2>4
<1> QED
  BY <1>1, <1>2 DEF ChunksOfOwner

LEMMA GrownSelf ==
  ASSUME NEW n \in Nat, NEW b \in Files(n)
  PROVE  GrownFrom(b, b)
<1>1. Len(b.handles) \in Nat
  BY FileIsNotNone, LenProperties
<1>2. Len(b.handles) + 1 .. Len(b.handles) = {}
  BY <1>1
<1> QED
  BY <1>1, <1>2 DEF GrownFrom

LEMMA AddedChunk ==
  ASSUME NEW n \in Nat, NEW g, g.handles \in Seq(1 .. n), NEW k \in 1 .. n, NEW loc
  PROVE  LET f == AddChunk(g, k, loc)
         IN  /\ f = [chunks |-> WithChunk(g, k, loc).chunks, handles |-> Append(g.handles, k)]
             /\ WithChunk(g, k, loc).handles = g.handles
             /\ DOMAIN f.chunks = DOMAIN g.chunks \cup {k}
             /\ \A x \in DOMAIN g.chunks : x # k => f.chunks[x] = g.chunks[x]
             /\ Len(g.handles) \in Nat /\ Len(f.handles) = Len(g.handles) + 1
             /\ \A i \in 1 .. Len(g.handles) : f.handles[i] = g.handles[i]
             /\ f.handles[Len(g.handles) + 1] = k
             /\ GetLatestChunkHandle(f) = k
<1> DEFINE l == Append(g.handles, k)
           c == Put(g.chunks, k, loc)
<1>1. AddChunk(g, k, loc) = [chunks |-> c, handles |-> l]
      /\ WithChunk(g, k, loc) = [chunks |-> c, handles |-> g.handles]
  BY DEF AddChunk, WithChunk
<1>2. DOMAIN c = DOMAIN g.chunks \cup {k} /\ \A x \in DOMAIN g.chunks : x # k => c[x] = g.chunks[x]
  BY DEF Put
<1>3. /\ Len(g.handles) \in Nat /\ Len(l) = Len(g.handles) + 1
      /\ \A i \in 1 .. Len(g.handles) : l[i] = g.handles[i]
      /\ l[Len(g.handles) + 1] = k
  BY AppendProperties, LenProperties
<1> HIDE DEF c
<1>4. [chunks |-> c, handles |-> l].handles = l
  OBVIOUS
<1>5. GetLatestChunkHandle([chunks |-> c, handles |-> l]) = k
  BY <1>3, <1>4 DEF GetLatestChunkHandle
<1> QED
  BY <1>1, <1>2, <1>3, <1>5

LEMMA GrownMore ==
  ASSUME NEW n \in Nat, NEW b \in Files(n), NEW g, g.handles \in Seq(1 .. n), GrownFrom(b, g),
         NEW k \in 1 .. n, k \notin DOMAIN g.chunks, NEW loc
  PROVE  GrownFrom(b, AddChunk(g, k, loc))
         /\ Len(AddChunk(g, k, loc).handles) > Len(b.handles)
<1> DEFINE f == AddChunk(g, k, loc)
<1>1. /\ DOMAIN f.chunks = DOMAIN g.chunks \cup {k}
      /\ \A x \in DOMAIN g.chunks : x # k => f.chunks[x] = g.chunks[x]
      /\ Len(g.handles) \in Nat /\ Len(f.handles) = Len(g.handles) + 1
      /\ \A i \in 1 .. Len(g.handles) : f.handles[i] = g.handles[i]
      /\ f.handles[Len(g.handles) + 1] = k
  BY ONLY n \in Nat, g.handles \in Seq(1 .. n), k \in 1 .. n, AddedChunk DEF f
<1>2. Len(b.handles) \in Nat
  BY FileIsNotNone, LenProperties
<1>3. /\ Len(g.handles) >= Len(b.handles)
      /\ \A i \in 1 .. Len(b.handles) : g.handles[i] = b.handles[i]
      /\ \A i \in Len(b.handles) + 1 .. Len(g.handles) : g.handles[i] \notin DOMAIN b.chunks
      /\ DOMAIN g.chunks = DOMAIN b.chunks
            \cup {g.handles[i] : i \in Len(b.handles) + 1 .. Len(g.handles)}
      /\ \A x \in DOMAIN b.chunks : g.chunks[x] = b.chunks[x]
  BY DEF GrownFrom
<1> HIDE DEF f
<1>4. Len(f.handles) > Len(b.handles)
  BY <1>1, <1>2, <1>3
<1>5. \A i \in 1 .. Len(b.handles) : f.handles[i] = b.handles[i]
  BY <1>1, <1>2, <1>3
<1>6. \A i \in Len(b.handles) + 1 .. Len(f.handles) :
         \/ i \in Len(b.handles) + 1 .. Len(g.handles) /\ f.handles[i] = g.handles[i]
         \/ i = Len(g.handles) + 1 /\ f.handles[i] = k
  <2> SUFFICES ASSUME NEW i \in Len(b.handles) + 1 .. Len(f.handles)
               PROVE  \/ /\ i \in Len(b.handles) + 1 .. Len(g.handles)
                         /\ f.handles[i] = g.handles[i]
                      \/ i = Len(g.handles) + 1 /\ f.handles[i] = k
    OBVIOUS
  <2>1. \/ i \in Len(b.handles) + 1 .. Len(g.handles) /\ i \in 1 .. Len(g.handles)
        \/ i = Len(g.handles) + 1
    BY <1>1, <1>2
  <2> QED
    BY <1>1, <2>1
<1>7. \A i \in Len(b.handles) + 1 .. Len(f.handles) : f.handles[i] \notin DOMAIN b.chunks
  BY <1>3, <1>6
<1>8. {f.handles[i] : i \in Len(b.handles) + 1 .. Len(f.handles)}
        = {g.handles[i] : i \in Len(b.handles) + 1 .. Len(g.handles)} \cup {k}
  <2>1. ASSUME NEW i \in Len(b.handles) + 1 .. Len(f.handles)
        PROVE  f.handles[i] \in {g.handles[j] : j \in Len(b.handles) + 1 .. Len(g.handles)} \cup {k}
    BY <1>6
  <2>2. ASSUME NEW i \in Len(b.handles) + 1 .. Len(g.handles)
        PROVE  g.handles[i] \in {f.handles[j] : j \in Len(b.handles) + 1 .. Len(f.handles)}
    <3>1. i \in Len(b.handles) + 1 .. Len(f.handles) /\ f.handles[i] = g.handles[i]
      BY <1>1, <1>2
    <3> QED
      BY <3>1
  <2>3. k \in {f.handles[j] : j \in Len(b.handles) + 1 .. Len(f.handles)}
    <3>1. Len(g.handles) + 1 \in Len(b.handles) + 1 .. Len(f.handles)
      BY <1>1, <1>2, <1>3
    <3> QED
      BY <1>1, <3>1
  <2> QED
    BY <2>1, <2>2, <2>3
<1>9. DOMAIN f.chunks = DOMAIN b.chunks
            \cup {f.handles[i] : i \in Len(b.handles) + 1 .. Len(f.handles)}
  BY <1>1, <1>3, <1>8
<1>10. \A x \in DOMAIN b.chunks : f.chunks[x] = b.chunks[x]
  BY <1>1, <1>3
<1> QED
  BY <1>4, <1>5, <1>7, <1>9, <1>10 DEF GrownFrom, f

LEMMA StartChunksOfOwner ==
  ASSUME MasterInv, ChunksOfOwner, NEW h \in Handler, NEW p \in Path, NEW op \in Ops[p],
         NEW num \in 0 .. MaxChunks, NEW handle \in 0 .. Len(made), Start(h, op, p, num, handle)
  PROVE  ChunksOfOwner'
<1>0. /\ UNCHANGED <<files, objects, made>>
      /\ hand'[h].pc = First(op) /\ hand'[h].path = p /\ hand'[h].before = Before(p)
      /\ \A g \in Handler : g # h => hand'[g] = hand[g]
  BY StartStep
<1>1. First(op) \in {"exists", "latest", "check"}
  BY DEF First
<1>2. \A q \in Path, o \in DOMAIN objects : Owns(q, o)' => Owns(q, o)
  BY <1>0, <1>1 DEF Owns, HasPointer
<1>3. ASSUME FileAt(p) # None, NEW k \in DOMAIN FileAt(p).chunks
      PROVE  made[k] = p
  <2>1. p \in DOMAIN files /\ FileAt(p) = objects[files[p]]
    BY <1>3 DEF FileAt
  <2>2. files[p] \in DOMAIN objects
    BY <2>1, Typed DEF MasterInv
  <2> QED
    BY <1>3, <2>1, <2>2 DEF ChunksOfOwner, Owns
<1>4. \A g \in Handler : hand'[g].pc # "idle" /\ hand'[g].before # None =>
            \A k \in DOMAIN hand'[g].before.chunks : made[k] = hand'[g].path
  BY <1>0, <1>3 DEF ChunksOfOwner, Before
<1> QED
  BY <1>0, <1>2, <1>4 DEF ChunksOfOwner

\* A handler that works alone on its file: the File at its pointer is the one
\* in the map.
LEMMA AloneFile ==
  ASSUME MasterInv, SoFarAlone, NEW h \in Handler, HasPointer(h), hand[h].path \notin Shared
  PROVE  /\ hand[h].path \in DOMAIN files /\ hand[h].obj = files[hand[h].path]
         /\ hand[h].obj \in DOMAIN objects
         /\ File(h) = FileAt(hand[h].path) /\ FileAt(hand[h].path) = objects[hand[h].obj]
         /\ SoFar(h)
<1>1. SoFar(h)
  BY DEF SoFarAlone, HasPointer
<1>2. hand[h].path \in DOMAIN files /\ hand[h].obj = files[hand[h].path]
  BY <1>1 DEF SoFar
<1> QED
  BY <1>1, <1>2, Typed DEF MasterInv, File, FileAt

LEMMA AtMap ==
  ASSUME MasterInv, NEW p \in Path
  PROVE  /\ p \in DOMAIN files <=> FileAt(p) # None
         /\ p \in DOMAIN files => FileAt(p) = objects[files[p]] /\ files[p] \in DOMAIN objects
                                  /\ FileAt(p) \in Files(Len(made))
         /\ FileAt(p) \in Files(Len(made)) \cup {None}
<1>1. \A q \in DOMAIN files : files[q] \in DOMAIN objects /\ objects[files[q]] \in Files(Len(made))
                              /\ Len(made) \in Nat
  BY Typed DEF MasterInv
<1>2. p \in DOMAIN files => objects[files[p]] # None
  BY <1>1, FileIsNotNone
<1> QED
  BY <1>1, <1>2 DEF FileAt

\* The other handlers leave the file and its map entry as they are.
LEMMA OthersSoFar ==
  ASSUME MasterInv, SoFarAlone, NEW h \in Handler, Handle(h), NEW g \in Handler, g # h,
         hand'[g].pc \notin {"idle", "done"}, hand'[g].path \notin Shared
  PROVE  SoFar(g)'
<1>1. hand'[g] = hand[g] /\ hand[h].pc # "idle"
  BY HandleMoves
<1>2. SoFar(g) /\ hand[g].path \in Path
  BY <1>1 DEF SoFarAlone, MasterInv, Control
<1>3. hand[g].path # hand[h].path
  BY <1>1, <1>2 DEF MasterInv, OneAtATime, Working
<1>4. PICK r : r = hand[g] /\ hand'[g] = r
  BY <1>1
<1>5. /\ r.path \in DOMAIN files' <=> r.path \in DOMAIN files
      /\ r.path \in DOMAIN files => files'[r.path] = files[r.path]
      /\ FileAt(r.path)' = FileAt(r.path)
  BY <1>2, <1>3, <1>4, OtherFiles
<1>6. PICK f : f = FileAt(r.path) /\ FileAt(r.path)' = f
  BY <1>5
<1>7. HasPointer(g)' <=> HasPointer(g)
  BY <1>1 DEF HasPointer
<1>8. PICK l : l = loaded[g] /\ loaded'[g] = l
  BY LoadedMoves DEF MasterInv, LoadedTyped
<1> QED
  BY <1>2, <1>4, <1>5, <1>6, <1>7, <1>8 DEF SoFar

LEMMA AloneNow ==
  ASSUME MasterInv, SoFarAlone, NEW h \in Handler, hand[h].pc \notin {"idle", "done"},
         hand[h].path \notin Shared
  PROVE  SoFar(h) /\ Control(h) /\ hand[h].path \in Path
  BY DEF SoFarAlone, MasterInv, Control

\* Its steps on the File change the file that all see.
LEMMA AloneChanges ==
  ASSUME MasterInv, SoFarAlone, NEW h \in Handler, HasPointer(h), NEW p, p = hand[h].path,
         p \notin Shared, NEW f, Changes(h, f), files' = files
  PROVE  FileAt(p)' = f /\ p \in DOMAIN files' /\ files'[p] = hand[h].obj
  BY AloneFile DEF Changes, FileAt

\* A step that changes no file, by its labels.
LEMMA UnchangedSoFar ==
  ASSUME MasterInv, SoFarAlone, NEW h \in Handler, hand[h].path \notin Shared,
         UNCHANGED <<files, objects>>, NEW pc, Goes(h, pc),
         \/ hand[h].pc = "exists" /\ pc = "insert" /\ ~Found(h)
         \/ hand[h].pc = "latest" /\ pc = "check"
         \/ hand[h].pc = "check" /\ pc \in {"remove", "lookup"} /\ Found(h)
         \/ hand[h].pc = "lookup" /\ pc \in {"put", "chunks"} /\ Found(h)
               /\ pc = (IF hand[h].op \in {"create", "createChunk"} THEN "put" ELSE "chunks")
               /\ hand'[h].obj = files[hand[h].path]
               /\ hand'[h].prev = Len(objects[files[hand[h].path]].handles)
         \/ hand[h].pc = "chunks" /\ pc = "drop" /\ Points(h) /\ Carries(h)
               /\ hand[h].num <= hand[h].prev
         \/ hand[h].pc = "chunks" /\ pc = "put" /\ hand[h].op = "write" /\ Points(h)
               /\ hand'[h].handle = NextHandle
         \/ hand[h].pc = "locate" /\ pc = "answer" /\ Found(h) /\ Carries(h)
               /\ hand'[h].obj = files[hand[h].path]
  PROVE  SoFar(h)'
<1>1. PICK r, s : r = hand[h] /\ s = hand'[h]
  OBVIOUS
<1>2. PICK f : f = FileAt(r.path) /\ FileAt(r.path)' = f
  BY DEF FileAt
<1>3. SoFar(h) /\ Control(h) /\ r.path \in Path
  BY <1>1, AloneNow
<1>4. /\ r.path \in DOMAIN files <=> f # None
      /\ r.path \in DOMAIN files => f = objects[files[r.path]] /\ f \in Files(Len(made))
      /\ Len(made) \in Nat
  BY <1>2, <1>3, AtMap, Typed DEF MasterInv
<1>5. s.pc = pc /\ s.op = r.op /\ s.path = r.path /\ s.before = r.before
  BY <1>1 DEF Goes
<1>6. HasPointer(h)' <=> pc \in {"chunks", "drop", "cut", "shrink", "put", "list", "append", "answer"}
  BY <1>1, <1>5 DEF HasPointer
<1>7. CASE r.pc = "exists" /\ pc = "insert" /\ ~Found(h)
  BY <1>1, <1>2, <1>3, <1>4, <1>5, <1>6, <1>7 DEF SoFar, Found, Control
<1>8. CASE r.pc = "latest" /\ pc = "check"
  BY <1>1, <1>2, <1>3, <1>4, <1>5, <1>6, <1>8 DEF SoFar, Control
<1>9. CASE r.pc = "check" /\ pc \in {"remove", "lookup"} /\ Found(h)
  BY <1>1, <1>2, <1>3, <1>4, <1>5, <1>6, <1>9 DEF SoFar, Found, Control
<1>10. CASE /\ r.pc = "lookup" /\ pc \in {"put", "chunks"} /\ Found(h)
            /\ pc = (IF hand[h].op \in {"create", "createChunk"} THEN "put" ELSE "chunks")
            /\ hand'[h].obj = files[hand[h].path]
            /\ hand'[h].prev = Len(objects[files[hand[h].path]].handles)
  BY <1>1, <1>2, <1>3, <1>4, <1>5, <1>6, <1>10 DEF SoFar, Found, Control
<1>11. CASE r.pc = "chunks" /\ pc = "drop" /\ Points(h) /\ Carries(h) /\ r.num <= r.prev
  BY <1>1, <1>2, <1>3, <1>4, <1>5, <1>6, <1>11 DEF SoFar, Control, HasPointer, Points, Carries
<1>12. CASE /\ r.pc = "chunks" /\ pc = "put" /\ hand[h].op = "write" /\ Points(h)
            /\ hand'[h].handle = NextHandle
  <2>1. f = r.before /\ r.path \in DOMAIN files
    BY <1>1, <1>2, <1>3, <1>12 DEF SoFar, HasPointer
  <2>2. GrownFrom(f, f) /\ NextHandle \notin DOMAIN f.chunks
    BY <1>4, <2>1, GrownSelf, TableKeys, Typed DEF MasterInv, NextHandle
  <2> QED
    BY <1>1, <1>2, <1>3, <1>4, <1>5, <1>6, <1>12, <2>1, <2>2 DEF SoFar, Control, HasPointer, Points
<1>13. CASE /\ r.pc = "locate" /\ pc = "answer" /\ Found(h) /\ Carries(h)
            /\ hand'[h].obj = files[hand[h].path]
  BY <1>1, <1>2, <1>3, <1>4, <1>5, <1>6, <1>13 DEF SoFar, Found, Control, Carries
<1> QED
  BY <1>1, <1>7, <1>8, <1>9, <1>10, <1>11, <1>12, <1>13

LEMMA InsertSoFar ==
  ASSUME MasterInv, SoFarAlone, NEW h \in Handler, hand[h].path \notin Shared, Insert(h)
  PROVE  SoFar(h)'
<1>1. PICK r, s : r = hand[h] /\ s = hand'[h]
  OBVIOUS
<1>2. r.pc = "insert" /\ s.pc = "lookup" /\ s.op = r.op /\ s.path = r.path /\ s.before = r.before
  BY <1>1, InsertStep DEF Goes
<1>3. SoFar(h) /\ Control(h) /\ r.path \in Path
  BY <1>1, <1>2, AloneNow
<1>4. r.op = "create" /\ r.before = None
  BY <1>1, <1>2, <1>3 DEF SoFar, Control
<1>5. FileAt(r.path)' = NewFile
  BY <1>1, InsertStep DEF FileAt
<1>6. ~HasPointer(h)'
  BY <1>1, <1>2 DEF HasPointer
<1> QED
  BY <1>1, <1>2, <1>4, <1>5, <1>6 DEF SoFar

LEMMA DropSoFar ==
  ASSUME MasterInv, SoFarAlone, NEW h \in Handler, hand[h].path \notin Shared, Drop(h)
  PROVE  SoFar(h)'
<1>1. PICK r, s : r = hand[h] /\ s = hand'[h]
  OBVIOUS
<1>2. /\ r.pc = "drop" /\ s.pc = "cut" /\ s.op = r.op /\ s.path = r.path /\ s.before = r.before
      /\ s.num = r.num /\ s.obj = r.obj /\ s.prev = r.prev /\ HasPointer(h) /\ files' = files
  BY <1>1, DropStep DEF Goes, Carries, Points, HasPointer
<1>3. SoFar(h) /\ Control(h) /\ r.path \in Path
  BY <1>1, <1>2, AloneNow
<1>4. r.op = "write" /\ r.before # None /\ r.prev = Len(r.before.handles) /\ File(h) = r.before
      /\ r.num <= r.prev
  BY <1>1, <1>2, <1>3, AloneFile DEF SoFar, Control
<1> DEFINE f == [chunks |-> KeepChunks(r.before, r.num).chunks, handles |-> r.before.handles]
<1>5. Changes(h, f)
  <2>1. PICK b : b = r.before
    OBVIOUS
  <2>2. Changes(h, [chunks |-> Without(b.chunks, HandlesBehind(b, r.num)), handles |-> b.handles])
    BY <1>1, <1>4, <2>1, DropStep
  <2>3. KeepChunks(b, r.num).chunks = Without(b.chunks, HandlesBehind(b, r.num))
    BY DEF KeepChunks
  <2> QED
    BY <2>1, <2>2, <2>3
<1>6. f = [chunks |-> KeepChunks(s.before, s.num).chunks, handles |-> s.before.handles]
  BY <1>2
<1> HIDE DEF f
<1>7. FileAt(r.path)' = f /\ r.path \in DOMAIN files' /\ files'[r.path] = hand[h].obj
  BY <1>1, <1>2, <1>5, AloneChanges
<1> QED
  BY <1>1, <1>2, <1>4, <1>6, <1>7 DEF SoFar

LEMMA PutChunkSoFar ==
  ASSUME MasterInv, SoFarAlone, NEW h \in Handler, hand[h].path \notin Shared, PutChunk(h)
  PROVE  SoFar(h)'
<1>1. PICK r, s : r = hand[h] /\ s = hand'[h]
  OBVIOUS
<1>2. /\ r.pc = "put" /\ s.pc = "list" /\ s.op = r.op /\ s.path = r.path /\ s.before = r.before
      /\ s.handle = r.handle /\ s.obj = r.obj /\ HasPointer(h) /\ files' = files
  BY <1>1, PutChunkStep DEF Goes, Carries, Points, HasPointer
<1>3. PICK f : f = FileAt(r.path)
  OBVIOUS
<1>4. SoFar(h) /\ Control(h) /\ r.path \in Path /\ File(h) = f
  BY <1>1, <1>2, <1>3, AloneNow, AloneFile
<1>5. PICK loc \in Locations : Changes(h, WithChunk(f, r.handle, loc))
  BY <1>1, <1>4, PutChunkStep
<1>6. FileAt(r.path)' = WithChunk(f, r.handle, loc) /\ r.path \in DOMAIN files'
      /\ files'[r.path] = r.obj
  BY <1>1, <1>2, <1>5, AloneChanges
<1>7. /\ r.op \in {"create", "createChunk", "write"}
      /\ r.op = "create" => f = NewFile /\ r.before = None
      /\ r.op # "create" => r.before # None
      /\ r.op = "createChunk" => f = r.before
      /\ r.op = "write" => GrownFrom(r.before, f) /\ r.handle \notin DOMAIN f.chunks
  BY <1>1, <1>2, <1>3, <1>4 DEF SoFar, Control
<1> QED
  BY <1>1, <1>2, <1>5, <1>6, <1>7 DEF SoFar

LEMMA LoadSoFar ==
  ASSUME MasterInv, SoFarAlone, NEW h \in Handler, hand[h].path \notin Shared, LoadHandles(h),
         ~Stops
  PROVE  SoFar(h)'
<1>1. PICK r, s : r = hand[h] /\ s = hand'[h]
  OBVIOUS
<1>2. /\ UNCHANGED <<files, objects>> /\ loaded' = [loaded EXCEPT ![h] = File(h).handles]
      /\ s.op = r.op /\ s.path = r.path /\ s.before = r.before /\ s.handle = r.handle
      /\ s.num = r.num /\ s.obj = r.obj /\ s.prev = r.prev /\ HasPointer(h)
      /\ \/ r.pc = "cut" /\ s.pc = "shrink"
         \/ r.pc = "list" /\ s.pc = "append"
  BY <1>1, LoadStep DEF Goes, Carries, Points, HasPointer
<1>3. SoFar(h) /\ Control(h) /\ r.path \in Path /\ File(h) = FileAt(r.path)
  BY <1>1, <1>2, AloneNow, AloneFile
<1>4. PICK f : f = FileAt(r.path) /\ FileAt(r.path)' = f
  BY <1>2 DEF FileAt
<1>5. loaded'[h] = f.handles
  BY <1>2, <1>3, <1>4 DEF MasterInv, LoadedTyped
<1>6. CASE r.pc = "cut" /\ s.pc = "shrink"
  BY <1>1, <1>2, <1>3, <1>4, <1>5, <1>6 DEF SoFar, HasPointer, Control
<1>7. CASE r.pc = "list" /\ s.pc = "append"
  BY <1>1, <1>2, <1>3, <1>4, <1>5, <1>7 DEF SoFar, HasPointer
<1> QED
  BY <1>2, <1>6, <1>7

\* The handle that a handler lists makes its chunk one of the File.
LEMMA AloneLists ==
  ASSUME MasterInv, SoFarAlone, NEW h \in Handler, hand[h].path \notin Shared, ListHandle(h),
         NEW p, p = hand[h].path
  PROVE  /\ p \in DOMAIN files' /\ files'[p] = hand[h].obj
         /\ Control(h) /\ SoFar(h)
         /\ hand[h].handle \in 1 .. Len(made) /\ Len(made) \in Nat
         /\ \E loc, g :
                /\ loc \in Locations
                /\ FileAt(p)' = AddChunk(g, hand[h].handle, loc)
                /\ g.handles \in Seq(1 .. Len(made))
                /\ FileAt(p) = WithChunk(g, hand[h].handle, loc) /\ FileAt(p) \in Files(Len(made))
                /\ DOMAIN AddChunk(g, hand[h].handle, loc).chunks = DOMAIN FileAt(p).chunks
                /\ hand[h].op = "create" => g = NewFile
                /\ hand[h].op = "createChunk" => g = hand[h].before
                /\ hand[h].op = "write" => GrownFrom(hand[h].before, g)
                                           /\ hand[h].handle \notin DOMAIN g.chunks
<1>1. PICK r : r = hand[h]
  OBVIOUS
<1>2. r.pc = "append" /\ HasPointer(h) /\ files' = files
  BY <1>1, ListHandleStep DEF HasPointer
<1>3. PICK f : f = FileAt(p)
  OBVIOUS
<1>4. SoFar(h) /\ Control(h) /\ p \in Path /\ File(h) = f /\ loaded[h] = f.handles
  BY <1>1, <1>2, <1>3, AloneNow, AloneFile DEF SoFar
<1>5. p \in DOMAIN files /\ files[p] = r.obj /\ f \in Files(Len(made))
  BY <1>1, <1>2, <1>3, <1>4, AloneFile, AtMap
<1>6. r.handle \in 1 .. Len(made) /\ Len(made) \in Nat
  BY <1>1, <1>2, <1>4, Typed DEF MasterInv, Control, HasHandle
<1>7. r.op \in {"create", "createChunk", "write"}
  BY <1>1, <1>2, <1>4 DEF Control
<1>8. PICK loc, g :
        /\ loc \in Locations
        /\ f = WithChunk(g, r.handle, loc)
        /\ r.op = "create" => g = NewFile
        /\ r.op = "createChunk" => g = r.before
        /\ r.op = "write" => GrownFrom(r.before, g) /\ r.handle \notin DOMAIN g.chunks
  BY <1>1, <1>2, <1>3, <1>4, <1>7 DEF SoFar
<1>9. g.handles \in Seq(1 .. Len(made))
  <2>1. f.handles = g.handles
    BY <1>8 DEF WithChunk
  <2> QED
    BY <1>5, <1>6, <2>1, FileIsNotNone
<1> DEFINE n == AddChunk(g, r.handle, loc)
<1>10. n = [chunks |-> f.chunks, handles |-> Append(f.handles, r.handle)]
  <2>1. f.chunks = Put(g.chunks, r.handle, loc) /\ f.handles = g.handles
    BY <1>8 DEF WithChunk
  <2> QED
    BY <2>1 DEF AddChunk
<1>11. Changes(h, n)
  BY <1>1, <1>4, <1>10, ListHandleStep
<1>12. DOMAIN n.chunks = DOMAIN f.chunks
  BY <1>8 DEF AddChunk, WithChunk
<1> HIDE DEF n
<1>13. FileAt(p)' = n /\ p \in DOMAIN files' /\ files'[p] = r.obj
  BY <1>1, <1>2, <1>11, AloneChanges
<1> QED
  BY <1>1, <1>3, <1>4, <1>5, <1>6, <1>8, <1>9, <1>12, <1>13 DEF n

LEMMA ListHandleSoFar ==
  ASSUME MasterInv, SoFarAlone, NEW h \in Handler, hand[h].path \notin Shared, ListHandle(h),
         hand'[h].pc # "done"
  PROVE  SoFar(h)'
<1>1. PICK r, s, p : r = hand[h] /\ s = hand'[h] /\ p = r.path
  OBVIOUS
<1>2. /\ r.pc = "append" /\ s.op = r.op /\ s.path = r.path /\ s.before = r.before /\ s.obj = r.obj
      /\ \/ r.op = "write" /\ s.pc = "put" /\ s.handle = NextHandle
         \/ r.op = "create" /\ s.pc = "locate" /\ s.handle = r.handle
  BY <1>1, ListHandleStep DEF Goes, Carries, Points
<1>3. /\ p \in DOMAIN files' /\ files'[p] = r.obj
      /\ Control(h) /\ SoFar(h)
      /\ r.handle \in 1 .. Len(made) /\ Len(made) \in Nat
  BY <1>1, AloneLists
<1>4. PICK loc, g :
        /\ loc \in Locations
        /\ FileAt(p)' = AddChunk(g, r.handle, loc)
        /\ g.handles \in Seq(1 .. Len(made)) /\ FileAt(p) \in Files(Len(made))
        /\ DOMAIN AddChunk(g, r.handle, loc).chunks = DOMAIN FileAt(p).chunks
        /\ r.op = "create" => g = NewFile
        /\ r.op = "write" => GrownFrom(r.before, g) /\ r.handle \notin DOMAIN g.chunks
  BY <1>1, AloneLists
<1>5. CASE r.op = "create"
  <2>1. s.pc = "locate" /\ ~HasPointer(h)' /\ r.before = None /\ s.handle = r.handle
    BY <1>1, <1>2, <1>3, <1>5 DEF SoFar, HasPointer
  <2>2. FileAt(s.path)' = AddChunk(NewFile, r.handle, loc)
    BY <1>1, <1>2, <1>4, <1>5
  <2> QED
    BY <1>1, <1>2, <1>4, <1>5, <2>1, <2>2 DEF SoFar
<1>6. CASE r.op = "write"
  <2>1. s.pc = "put" /\ HasPointer(h)' /\ r.before # None /\ s.handle = NextHandle
    BY <1>1, <1>2, <1>3, <1>6 DEF SoFar, HasPointer
  <2>2. PICK f : f = AddChunk(g, r.handle, loc)
    OBVIOUS
  <2>3. r.before \in Files(Len(made))
    BY <1>1, <2>1, HandNow DEF HandRecords
  <2>4. GrownFrom(r.before, f)
    BY <1>3, <1>4, <1>6, <2>2, <2>3, GrownMore
  <2>5. NextHandle \notin DOMAIN f.chunks
    BY <1>3, <1>4, <2>2, TableKeys, Typed DEF MasterInv, NextHandle
  <2>6. FileAt(s.path)' = f
    BY <1>1, <1>2, <1>4, <2>2
  <2> QED
    BY <1>1, <1>2, <1>3, <1>6, <2>1, <2>4, <2>5, <2>6 DEF SoFar
<1> QED
  BY <1>2, <1>5, <1>6

LEMMA HandleSoFar ==
  ASSUME MasterInv, SoFarAlone, NEW h \in Handler, Handle(h)
  PROVE  SoFarAlone'
<1> SUFFICES ASSUME hand'[h].pc \notin {"idle", "done"}, hand'[h].path \notin Shared
             PROVE  SoFar(h)'
  BY OthersSoFar DEF SoFarAlone
<1>0. hand[h].pc \notin {"idle", "done"} /\ hand[h].path \notin Shared
      /\ hand[h].path = hand'[h].path
  BY HandleMoves DEF Idle
<1>1. ASSUME Stops PROVE SoFar(h)'
  BY <1>0, <1>1, AloneNow DEF Stops, SoFar, FileAt, HasPointer
<1>2. \A pc \in {"done"} : ~Goes(h, pc)
  BY DEF Goes
<1>3. ~Return(h) /\ ~Remove(h) /\ ~Cut(h)
  BY <1>0, <1>2, ReturnStep, RemoveStep, CutStep
<1>4. CASE Exists(h)
  BY <1>0, <1>2, <1>4, ExistsStep, UnchangedSoFar
<1>5. CASE Latest(h)
  BY <1>0, <1>5, LatestStep, UnchangedSoFar
<1>6. CASE Check(h)
  BY <1>0, <1>2, <1>6, CheckStep, UnchangedSoFar
<1>7. CASE Lookup(h)
  <2>1. CASE hand[h].op \in {"create", "createChunk"}
    BY <1>0, <1>1, <1>2, <1>7, <2>1, LookupStep, UnchangedSoFar
  <2>2. CASE hand[h].op \notin {"create", "createChunk"}
    BY <1>0, <1>1, <1>2, <1>7, <2>2, LookupStep, UnchangedSoFar
  <2> QED
    BY <2>1, <2>2
<1>8. CASE Chunks(h)
  BY <1>0, <1>1, <1>2, <1>8, ChunksStep, UnchangedSoFar
<1>9. CASE Locate(h)
  BY <1>0, <1>2, <1>9, LocateStep, UnchangedSoFar
<1>10. CASE Answer(h)
  BY <1>0, <1>1, <1>2, <1>10, AnswerStep
<1>11. CASE LoadHandles(h)
  BY <1>0, <1>1, <1>11, LoadSoFar
<1> QED
  BY <1>0, <1>3, <1>4, <1>5, <1>6, <1>7, <1>8, <1>9, <1>10, <1>11, InsertSoFar, DropSoFar,
     PutChunkSoFar, ListHandleSoFar DEF Handle

\* A request begins with the file as it is, and its path was nobody's.
LEMMA StartSoFar ==
  ASSUME MasterInv, SoFarAlone, NEW h \in Handler, NEW p \in Path, NEW op \in Ops[p],
         NEW num \in 0 .. MaxChunks, NEW handle \in 0 .. Len(made), Start(h, op, p, num, handle)
  PROVE  SoFarAlone'
<1>1. /\ UNCHANGED <<files, objects>>
      /\ hand'[h].pc = First(op) /\ hand'[h].op = op /\ hand'[h].path = p
      /\ hand'[h].before = Before(p)
      /\ \A g \in Handler : g # h => hand'[g] = hand[g]
  BY StartStep
<1>2. First(op) \in {"exists", "latest", "check"}
  BY DEF First
<1>3. ASSUME p \notin Shared
      PROVE  SoFar(h)'
  <2>1. PICK s, f : s = hand'[h] /\ f = FileAt(p)
    OBVIOUS
  <2>2. FileAt(p)' = f /\ s.before = f /\ s.path = p /\ ~HasPointer(h)'
        /\ s.pc \in {"exists", "latest", "check"}
    BY <1>1, <1>2, <1>3, <2>1 DEF Before, FileAt, HasPointer
  <2> QED
    BY <2>1, <2>2 DEF SoFar
<1>4. ASSUME NEW g \in Handler, g # h, hand'[g].pc \notin {"idle", "done"},
             hand'[g].path \notin Shared
      PROVE  SoFar(g)'
  <2>1. hand'[g] = hand[g] /\ SoFar(g) /\ loaded' = loaded
    BY <1>1, <1>4 DEF SoFarAlone, Start
  <2> QED
    BY <1>1, <2>1 DEF SoFar, FileAt, HasPointer
<1> QED
  BY <1>1, <1>3, <1>4 DEF SoFarAlone

AloneInv == MasterInv /\ ChunksOfOwner /\ SoFarAlone

LEMMA AloneStays ==
  ASSUME AloneInv, UNCHANGED <<files, objects, made, hand, loaded>>
  PROVE  ChunksOfOwner' /\ SoFarAlone'
  BY DEF AloneInv, ChunksOfOwner, Owns, SoFarAlone, SoFar, FileAt, HasPointer

LEMMA AloneStep ==
  ASSUME AloneInv, [Next]_vars
  PROVE  AloneInv'
<1>1. MasterInv'
  BY MasterStep DEF AloneInv
<1>2. ChunksOfOwner' /\ SoFarAlone'
  <2>1. CASE Requests
    <3>1. PICK h \in Handler, p \in Path : \E op \in Ops[p] :
            \E num \in 0 .. MaxChunks, handle \in 0 .. Len(made) : Start(h, op, p, num, handle)
      BY <2>1, RequestsStart DEF AloneInv
    <3> QED
      BY <3>1, StartChunksOfOwner, StartSoFar DEF AloneInv
  <2>2. CASE \E h \in Handler : Handle(h)
    BY <2>2, HandleChunksOfOwner, HandleSoFar DEF AloneInv
  <2>3. CASE Storing
    BY <2>3, StoringLeaves, AloneStays DEF AloneInv
  <2>4. CASE Fatal
    BY <2>4, FatalStops, AloneStays DEF Stops
  <2>5. CASE UNCHANGED vars
    BY <2>5, AloneStays DEF vars
  <2> QED
    BY <2>1, <2>2, <2>3, <2>4, <2>5 DEF Next
<1> QED
  BY <1>1, <1>2 DEF AloneInv

LEMMA AloneInit ==
  ASSUME Init
  PROVE  AloneInv
<1>1. MasterInv
  BY MasterInit
<1>2. \A h \in Handler : hand[h].pc = "idle"
  BY DEF Init, Idle
<1>3. DOMAIN objects = {}
  BY DEF Init
<1> QED
  BY <1>1, <1>2, <1>3 DEF AloneInv, ChunksOfOwner, SoFarAlone

LEMMA AloneInvariant == Spec => []AloneInv
  BY AloneInit, AloneStep, PTL DEF Spec

-----------------------------------------------------------------------------
(* The table that the others see *)

Works(h, p) == hand[h].pc \notin {"idle", "done"} /\ hand[h].path = p

\* The file that a handler found, until it returns.
LEMMA SeenNow ==
  ASSUME MasterInv, NEW p \in Path, p \notin Shared
  PROVE  /\ \A h \in Handler : Works(h, p) => Seen(p) = hand[h].before
         /\ (\A h \in Handler : ~Works(h, p)) => Seen(p) = FileAt(p)
<1> DEFINE W == {h \in Busy(p) : hand[h].pc # "done"}
<1>1. \A h : h \in W <=> h \in Handler /\ Works(h, p)
  BY DEF Busy, Works
<1>2. \A g, h \in W : g = h
  BY <1>1 DEF MasterInv, OneAtATime, Working, Works
<1>3. Seen(p) = IF W = {} THEN FileAt(p) ELSE hand[CHOOSE h \in W : TRUE].before
  BY DEF Seen
<1> HIDE DEF W
<1>4. ASSUME NEW h \in Handler, Works(h, p)
      PROVE  Seen(p) = hand[h].before
  <2>1. h \in W
    BY <1>1, <1>4
  <2>2. (CHOOSE g \in W : TRUE) \in W
    BY <2>1
  <2>3. (CHOOSE g \in W : TRUE) = h
    BY <1>2, <2>1, <2>2
  <2> QED
    BY <1>3, <2>1, <2>3
<1>5. ASSUME \A h \in Handler : ~Works(h, p)
      PROVE  Seen(p) = FileAt(p)
  <2>1. W = {}
    BY <1>1, <1>5
  <2> QED
    BY <1>3, <2>1
<1> QED
  BY <1>4, <1>5

LEMMA SeenThen ==
  ASSUME MasterInv', NEW p \in Path, p \notin Shared
  PROVE  /\ \A h \in Handler : Works(h, p)' => Seen(p)' = hand'[h].before
         /\ (\A h \in Handler : ~Works(h, p)') => Seen(p)' = FileAt(p)'
<1> DEFINE W == {h \in Busy(p)' : hand'[h].pc # "done"}
<1>1. \A h : h \in W <=> h \in Handler /\ Works(h, p)'
  BY DEF Busy, Works
<1>2. \A g, h \in W : g = h
  BY <1>1 DEF MasterInv, OneAtATime, Working, Works
<1>3. Seen(p)' = IF W = {} THEN FileAt(p)' ELSE hand'[CHOOSE h \in W : TRUE].before
  BY DEF Seen
<1> HIDE DEF W
<1>4. ASSUME NEW h \in Handler, Works(h, p)'
      PROVE  Seen(p)' = hand'[h].before
  <2>1. h \in W
    BY <1>1, <1>4
  <2>2. (CHOOSE g \in W : TRUE) \in W
    BY <2>1
  <2>3. (CHOOSE g \in W : TRUE) = h
    BY <1>2, <2>1, <2>2
  <2> QED
    BY <1>3, <2>1, <2>3
<1>5. ASSUME \A h \in Handler : ~Works(h, p)'
      PROVE  Seen(p)' = FileAt(p)'
  <2>1. W = {}
    BY <1>1, <1>5
  <2> QED
    BY <1>3, <2>1
<1> QED
  BY <1>4, <1>5

\* A step shows at most the file of its handler, and that when it returns.
LEMMA SeenMoves ==
  ASSUME MasterInv, MasterInv', NEW h \in Handler, Handle(h), NEW p \in Path, p \notin Shared
  PROVE  \/ Seen(p)' = Seen(p)
         \/ /\ p = hand[h].path /\ hand[h].pc \notin {"idle", "done"} /\ hand'[h].pc = "done"
            /\ Seen(p) = hand[h].before /\ Seen(p)' = FileAt(p)'
<1>1. /\ \A g \in Handler : g # h => hand'[g] = hand[g]
      /\ hand[h].pc # "idle"
      /\ \/ hand[h].pc = "done" /\ hand'[h] = Idle
         \/ /\ hand[h].pc # "done" /\ hand'[h].pc # "idle" /\ hand'[h].path = hand[h].path
            /\ hand'[h].before = hand[h].before
  BY HandleMoves
<1>2. CASE p # hand[h].path
  <2>1. FileAt(p)' = FileAt(p)
    BY <1>2, OtherFiles
  <2>2. \A g \in Handler : /\ Works(g, p)' <=> Works(g, p)
                           /\ Works(g, p) => hand'[g].before = hand[g].before
    BY <1>1, <1>2 DEF Works, Idle
  <2> QED
    BY <2>1, <2>2, SeenNow, SeenThen
<1>3. CASE p = hand[h].path /\ hand[h].pc = "done"
  <2>1. \A g \in Handler : ~Works(g, p)
    BY <1>3 DEF MasterInv, OneAtATime, Working, Works
  <2>2. \A g \in Handler : ~Works(g, p)'
    BY <1>1, <1>3, <2>1 DEF Works, Idle
  <2>3. UNCHANGED <<files, objects>>
    <3>1. Return(h)
      BY <1>3, ExistsStep, InsertStep, LatestStep, CheckStep, RemoveStep, LookupStep,
         ChunksStep, DropStep, LoadStep, CutStep, PutChunkStep, ListHandleStep, LocateStep,
         AnswerStep
      DEF Handle
    <3> QED
      BY <3>1, ReturnStep
  <2>4. FileAt(p)' = FileAt(p)
    BY <2>3 DEF FileAt
  <2> QED
    BY <2>1, <2>2, <2>4, SeenNow, SeenThen
<1>4. CASE p = hand[h].path /\ hand[h].pc # "done"
  <2>1. Works(h, p) /\ Seen(p) = hand[h].before
    BY <1>1, <1>4, SeenNow DEF Works
  <2>2. CASE hand'[h].pc = "done"
    <3>1. \A g \in Handler : ~Works(g, p)'
      BY <1>1, <1>4, <2>1, <2>2 DEF MasterInv, OneAtATime, Working, Works
    <3> QED
      BY <1>1, <1>4, <2>1, <2>2, <3>1, SeenThen
  <2>3. CASE hand'[h].pc # "done"
    BY <1>1, <1>4, <2>1, <2>3, SeenThen DEF Works
  <2> QED
    BY <2>2, <2>3
<1> QED
  BY <1>2, <1>3, <1>4

\* The tables of a path that somebody sees are its own.
LEMMA SeenOwner ==
  ASSUME AloneInv, NEW p \in Path, p \notin Shared, Seen(p) # None,
         NEW k \in DOMAIN Seen(p).chunks
  PROVE  made[k] = p
<1>1. CASE \E h \in Handler : Works(h, p)
  BY <1>1, SeenNow DEF AloneInv, ChunksOfOwner, Works
<1>2. CASE \A h \in Handler : ~Works(h, p)
  <2>1. Seen(p) = FileAt(p) /\ p \in DOMAIN files /\ FileAt(p) = objects[files[p]]
        /\ files[p] \in DOMAIN objects
    BY <1>2, SeenNow, AtMap DEF AloneInv
  <2> QED
    BY <2>1 DEF AloneInv, ChunksOfOwner, Owns
<1> QED
  BY <1>1, <1>2

LEMMA FileOwner ==
  ASSUME AloneInv, NEW p \in DOMAIN files, p \in Path, NEW k \in DOMAIN FileAt(p).chunks
  PROVE  made[k] = p
  BY AtMap DEF AloneInv, ChunksOfOwner, Owns

\* What a handler has done to the file that it found when it returns.
Effect(p, b, k, f) ==
    \/ f = b
    \/ /\ b = None /\ f # None /\ f = FileAt(p)
       /\ \E loc \in Locations : f = AddChunk(NewFile, k, loc) /\ GetLatestChunkHandle(f) = k
    \/ b # None /\ f = None
    \/ b # None /\ f # None /\ \E num \in 0 .. Len(b.handles) : f = KeepChunks(b, num)
    \/ /\ b # None /\ f # None
       /\ \E loc \in Locations : f = AddChunk(b, k, loc) /\ GetLatestChunkHandle(f) = k
    \/ /\ b # None /\ f # None
       /\ GrownFrom(b, f) /\ Len(f.handles) > Len(b.handles)
       /\ DOMAIN f.chunks = DOMAIN FileAt(p).chunks /\ FileAt(p) # None

\* A chunk added to a new File is a File that is not None.
LEMMA AddedIsFile ==
  ASSUME NEW g, NEW k, NEW loc
  PROVE  AddChunk(g, k, loc) # None
<1>1. "chunks" \in DOMAIN AddChunk(g, k, loc) /\ "chunks" \notin DOMAIN None
  BY DEF AddChunk, None
<1> QED
  BY <1>1

LEMMA LastOfCut ==
  ASSUME AloneInv, NEW h \in Handler, hand[h].path \notin Shared, Cut(h), NEW p, p = hand[h].path
  PROVE  Effect(p, hand[h].before, hand[h].handle, FileAt(p)')
<1>1. PICK r : r = hand[h]
  OBVIOUS
<1>2. r.pc = "shrink" /\ HasPointer(h) /\ files' = files /\ MasterInv /\ SoFarAlone
  BY <1>1, CutStep DEF HasPointer, AloneInv
<1>3. PICK f, b : f = FileAt(p) /\ b = r.before
  OBVIOUS
<1>4. SoFar(h) /\ Control(h) /\ p \in Path /\ File(h) = f /\ p \in DOMAIN files
      /\ f = objects[r.obj]
  BY <1>1, <1>2, <1>3, AloneNow, AloneFile
<1>5. /\ b # None /\ f = [chunks |-> KeepChunks(b, r.num).chunks, handles |-> b.handles]
      /\ r.prev = Len(b.handles) /\ r.num <= r.prev /\ loaded[h] = f.handles
  BY <1>1, <1>2, <1>3, <1>4 DEF SoFar, Control
<1>6. /\ r.num \in Nat /\ r.num <= r.prev /\ r.prev \in Nat
      /\ b \in Files(Len(made)) /\ Len(made) \in Nat
  <2>1. r \in HandRecords(Len(made), Len(objects)) /\ Len(made) \in Nat
    BY <1>1, <1>2, HandNow
  <2> QED
    BY <1>3, <1>5, <2>1 DEF HandRecords
<1> DEFINE k == KeepChunks(b, r.num)
<1>7. Changes(h, k)
  <2>1. SubSeq(loaded[h], 1, r.num) = k.handles
    <3>1. loaded[h] = b.handles
      BY <1>5
    <3> QED
      BY <3>1 DEF KeepChunks
  <2>2. f.chunks = k.chunks
    BY <1>5
  <2>3. k = [chunks |-> k.chunks, handles |-> k.handles]
    BY DEF KeepChunks
  <2>4. Changes(h, [chunks |-> f.chunks, handles |-> SubSeq(loaded[h], 1, r.num)])
    <3>1. Changes(h, [chunks |-> File(h).chunks,
                      handles |-> SubSeq(loaded[h], 1, hand[h].num)])
      BY <1>2, CutStep
    <3>2. File(h) = f /\ hand[h].num = r.num
      BY <1>1, <1>4
    <3> QED
      BY <3>1, <3>2
  <2> HIDE DEF k
  <2> QED
    BY <2>1, <2>2, <2>3, <2>4
<1>8. k # None
  <2>1. k \in Files(Len(made))
    BY <1>5, <1>6, KeepChunksTyped
  <2> QED
    BY <1>6, <2>1, FileIsNotNone
<1> HIDE DEF k
<1>9. FileAt(p)' = k
  BY <1>1, <1>2, <1>7, AloneChanges
<1>10. r.num \in 0 .. Len(b.handles)
  BY <1>5, <1>6
<1> QED
  BY <1>1, <1>3, <1>5, <1>8, <1>9, <1>10 DEF Effect, k

LEMMA LastOfList ==
  ASSUME AloneInv, NEW h \in Handler, hand[h].path \notin Shared, ListHandle(h),
         hand'[h].pc = "done", NEW p, p = hand[h].path
  PROVE  Effect(p, hand[h].before, hand[h].handle, FileAt(p)')
<1>1. PICK r, b : r = hand[h] /\ b = r.before
  OBVIOUS
<1>2. r.pc = "append" /\ r.op # "create" /\ MasterInv /\ SoFarAlone
  BY <1>1, ListHandleStep DEF Goes, AloneInv
<1>3. /\ Control(h) /\ SoFar(h) /\ r.handle \in 1 .. Len(made) /\ Len(made) \in Nat
  BY <1>1, <1>2, AloneLists
<1>4. PICK loc, g :
        /\ loc \in Locations
        /\ FileAt(p)' = AddChunk(g, r.handle, loc)
        /\ g.handles \in Seq(1 .. Len(made))
        /\ FileAt(p) \in Files(Len(made))
        /\ DOMAIN AddChunk(g, r.handle, loc).chunks = DOMAIN FileAt(p).chunks
        /\ r.op = "createChunk" => g = b
        /\ r.op = "write" => GrownFrom(b, g) /\ r.handle \notin DOMAIN g.chunks
  BY <1>1, <1>2, AloneLists
<1>5. PICK f : f = AddChunk(g, r.handle, loc)
  OBVIOUS
<1>6. /\ b # None /\ f # None /\ FileAt(p)' = f /\ FileAt(p) # None
      /\ GetLatestChunkHandle(f) = r.handle
      /\ r.op \in {"createChunk", "write"}
  BY <1>1, <1>2, <1>3, <1>4, <1>5, AddedIsFile, AddedChunk, FileIsNotNone DEF SoFar, Control
<1>7. CASE r.op = "createChunk"
  BY <1>1, <1>4, <1>5, <1>6, <1>7 DEF Effect
<1>8. CASE r.op = "write"
  <2>1. b \in Files(Len(made))
    BY <1>1, <1>2, <1>6, HandNow DEF HandRecords
  <2>2. GrownFrom(b, f) /\ Len(f.handles) > Len(b.handles)
    BY <1>3, <1>4, <1>5, <1>8, <2>1, GrownMore
  <2> QED
    BY <1>1, <1>4, <1>5, <1>6, <2>2 DEF Effect
<1> QED
  BY <1>6, <1>7, <1>8

LEMMA LastSteps ==
  ASSUME AloneInv, NEW h \in Handler, Handle(h), hand[h].path \notin Shared,
         hand[h].pc \notin {"idle", "done"}, hand'[h].pc = "done", NEW p, p = hand[h].path
  PROVE  Effect(p, hand[h].before, hand[h].handle, FileAt(p)')
<1>1. PICK r, b, f : r = hand[h] /\ b = r.before /\ f = FileAt(p)
  OBVIOUS
<1>2. MasterInv /\ SoFarAlone /\ SoFar(h) /\ Control(h) /\ p \in Path
  BY AloneNow DEF AloneInv
<1>3. ASSUME UNCHANGED <<files, objects>>
      PROVE  FileAt(p)' = f
  BY <1>1, <1>3 DEF FileAt
<1>4. /\ p \in DOMAIN files <=> f # None
      /\ Found(h) <=> f # None
  BY <1>1, <1>2, AtMap DEF Found
<1>5. \A pc : Goes(h, pc) => pc = "done"
  BY DEF Goes
<1>6. ~Stops
  BY DEF Stops
<1>7. CASE Exists(h) \/ Check(h) \/ Chunks(h)
  <2>1. f = b /\ UNCHANGED <<files, objects>>
    BY <1>1, <1>2, <1>6, <1>7, ExistsStep, CheckStep, ChunksStep DEF SoFar
  <2> QED
    BY <1>1, <1>3, <2>1 DEF Effect
<1>8. CASE Lookup(h)
  <2>1. r.pc = "lookup" /\ f = None /\ UNCHANGED <<files, objects>>
    <3>1. ~Goes(h, "put") /\ ~Goes(h, "chunks")
      BY <1>5
    <3>2. ~Goes(h, IF hand[h].op \in {"create", "createChunk"} THEN "put" ELSE "chunks")
      BY <3>1
    <3> QED
      BY <1>1, <1>2, <1>4, <1>6, <1>8, <3>2, LookupStep
  <2>2. CASE r.op = "create"
    <3>1. f = NewFile
      BY <1>1, <1>2, <2>1, <2>2 DEF SoFar
    <3> QED
      BY <1>2, <2>1, <3>1, NewFileTyped, FileIsNotNone, Typed DEF MasterInv
  <2>3. CASE r.op # "create"
    <3>1. f = b
      BY <1>1, <1>2, <2>1, <2>3 DEF SoFar
    <3> QED
      BY <1>1, <1>3, <2>1, <3>1 DEF Effect
  <2> QED
    BY <2>2, <2>3
<1>9. CASE Remove(h)
  <2>1. r.pc = "remove" /\ r.op = "delete" /\ p \notin DOMAIN files'
    BY <1>1, <1>2, <1>9, RemoveStep DEF Control
  <2>2. b # None
    BY <1>1, <1>2, <2>1 DEF SoFar
  <2>3. FileAt(p)' = None
    BY <2>1 DEF FileAt
  <2> QED
    BY <1>1, <2>2, <2>3 DEF Effect
<1>10. CASE Locate(h) \/ Answer(h)
  <2>1. r.pc \in {"locate", "answer"} /\ UNCHANGED <<files, objects>> /\ r.op = "create"
    BY <1>1, <1>2, <1>6, <1>10, LocateStep, AnswerStep DEF Control
  <2>2. b = None
    BY <1>1, <1>2, <2>1 DEF SoFar
  <2>3. PICK loc \in Locations : f = AddChunk(NewFile, r.handle, loc)
    BY <1>1, <1>2, <2>1 DEF SoFar
  <2>4. f # None
    BY <2>3, AddedIsFile
  <2>5. GetLatestChunkHandle(f) = r.handle
    <3>1. f.handles = <<r.handle>>
      BY <2>3 DEF AddChunk, NewFile
    <3> QED
      BY <3>1 DEF GetLatestChunkHandle
  <2>6. FileAt(p)' = f
    BY <1>3, <2>1
  <2> QED
    BY <1>1, <2>2, <2>3, <2>4, <2>5, <2>6 DEF Effect
<1>11. ~Return(h) /\ ~Insert(h) /\ ~Latest(h) /\ ~Drop(h) /\ ~PutChunk(h) /\ ~LoadHandles(h)
  BY <1>2, <1>5, <1>6, ReturnStep, InsertStep, LatestStep, DropStep, LoadStep, PutChunkStep
<1> QED
  BY <1>7, <1>8, <1>9, <1>10, <1>11, LastOfCut, LastOfList DEF Handle

\* The table of the property.
Shown == [p \in {q \in Path \ Shared : Seen(q) # None} |-> Seen(p)]

LEMMA ShownFiles ==
  /\ \A q : q \in DOMAIN Shown <=> q \in Path \ Shared /\ Seen(q) # None
  /\ \A q \in DOMAIN Shown : Shown[q] = Seen(q)
  BY DEF Shown

LEMMA ShownFilesThen ==
  /\ \A q : q \in DOMAIN Shown' <=> q \in Path \ Shared /\ Seen(q)' # None
  /\ \A q \in DOMAIN Shown' : Shown'[q] = Seen(q)'
  BY DEF Shown

LEMMA ShownSame ==
  ASSUME \A p \in Path \ Shared : Seen(p)' = Seen(p)
  PROVE  Shown' = Shown
  BY DEF Shown

\* What the operators of the table say of what is seen.
LEMMA TableOnly ==
  ASSUME NEW p, \A q \in Path \ Shared : q # p => Seen(q)' = Seen(q)
  PROVE  Table!Only(p)
<1>1. PICK T, U : T = Shown /\ U = Shown'
  OBVIOUS
<1>2. \A q \in (Path \ Shared) \ {p} :
        /\ q \in DOMAIN U <=> q \in DOMAIN T
        /\ q \in DOMAIN T => U[q] = T[q]
  BY <1>1, ShownFiles, ShownFilesThen
<1> QED
  BY <1>1, <1>2 DEF Table!Only, Shown

\* A chunk of p is in no table of another path.
LEMMA TableFresh ==
  ASSUME AloneInv, NEW p \in Path, p \notin Shared, NEW k, made[k] = p,
         Seen(p) = None \/ k \notin DOMAIN Seen(p).chunks
  PROVE  Table!Fresh(k)
<1>1. PICK T : T = Shown
  OBVIOUS
<1>2. \A q \in DOMAIN T : k \notin DOMAIN T[q].chunks
  BY <1>1, ShownFiles, SeenOwner
<1> QED
  BY <1>1, <1>2 DEF Table!Fresh, Shown

LEMMA TableOperators ==
  /\ \A file, k, loc : Table!AddChunk(file, k, loc) = AddChunk(file, k, loc)
  /\ \A file, num : Table!KeepChunks(file, num) = KeepChunks(file, num)
  /\ \A file : Table!GetLatestChunkHandle(file) = GetLatestChunkHandle(file)
  /\ Table!NewFile = NewFile /\ Table!Locations = Locations
<1>1. \A m, k, v : Table!Put(m, k, v) = Put(m, k, v)
  BY DEF Table!Put, Put
<1>2. \A file, k, loc : Table!AddChunk(file, k, loc) = AddChunk(file, k, loc)
  BY <1>1 DEF Table!AddChunk, AddChunk
<1>3. \A m, K : Table!Without(m, K) = Without(m, K)
  BY DEF Table!Without, Without, Table!Restrict, Restrict
<1>4. \A file, num : Table!KeepChunks(file, num) = KeepChunks(file, num)
  <2>1. \A file, num : Table!HandlesBehind(file, num) = HandlesBehind(file, num)
    BY DEF Table!HandlesBehind, HandlesBehind
  <2> QED
    BY <1>3, <2>1 DEF Table!KeepChunks, KeepChunks
<1>5. \A file : Table!GetLatestChunkHandle(file) = GetLatestChunkHandle(file)
  BY DEF Table!GetLatestChunkHandle, GetLatestChunkHandle
<1>6. Table!NewFile = NewFile
  BY DEF Table!NewFile, NewFile, Table!EmptyMap, EmptyMap
<1>7. Table!Locations = Locations
  BY DEF Table!Locations, Locations, Table!Server, Server
<1> QED
  BY <1>2, <1>4, <1>5, <1>6, <1>7

LEMMA SeenTyped ==
  ASSUME AloneInv, NEW p \in Path, p \notin Shared, Seen(p) # None
  PROVE  Seen(p) \in Files(Len(made)) /\ Seen(p).handles \in Seq(1 .. Len(made))
<1>1. MasterInv /\ Len(made) \in Nat
  BY Typed DEF AloneInv, MasterInv
<1>2. Seen(p) \in Files(Len(made))
  <2>1. CASE \E h \in Handler : Works(h, p)
    <3>1. PICK h \in Handler : Works(h, p)
      BY <2>1
    <3>2. hand[h].before \in Files(Len(made)) \cup {None}
      BY <1>1, HandNow DEF HandRecords
    <3>3. Seen(p) = hand[h].before
      BY <1>1, <3>1, SeenNow
    <3> QED
      BY <3>2, <3>3
  <2>2. CASE \A h \in Handler : ~Works(h, p)
    BY <1>1, <2>2, SeenNow, AtMap
  <2> QED
    BY <2>1, <2>2
<1> QED
  BY <1>1, <1>2, FileIsNotNone

LEMMA TableEffect ==
  ASSUME AloneInv, NEW p \in Path, p \notin Shared, NEW k,
         Effect(p, Seen(p), k, Seen(p)'),
         \A q \in Path \ Shared : q # p => Seen(q)' = Seen(q)
  PROVE  Table!Request \/ Shown' = Shown
<1>1. PICK b, f : b = Seen(p) /\ f = Seen(p)'
  OBVIOUS
<1>2. PICK T, U : T = Shown /\ U = Shown'
  OBVIOUS
<1>3. /\ p \in DOMAIN T <=> b # None
      /\ p \in DOMAIN U <=> f # None
      /\ b # None => T[p] = b
      /\ f # None => U[p] = f
  BY <1>1, <1>2, ShownFiles, ShownFilesThen
<1>4. Table!Only(p) /\ p \in Path \ Shared
  BY TableOnly
<1>5. ASSUME FileAt(p) # None, NEW x \in DOMAIN FileAt(p).chunks, b = None \/ x \notin DOMAIN b.chunks
      PROVE  Table!Fresh(x)
  <2>1. p \in DOMAIN files
    BY <1>5 DEF FileAt
  <2> QED
    BY <1>1, <1>5, <2>1, FileOwner, TableFresh
<1>6. CASE f = b
  BY <1>1, <1>6, ShownSame
<1>7. CASE /\ b = None /\ f # None /\ f = FileAt(p)
           /\ \E loc \in Locations : f = AddChunk(NewFile, k, loc) /\ GetLatestChunkHandle(f) = k
  <2>1. PICK loc \in Locations : f = AddChunk(NewFile, k, loc) /\ GetLatestChunkHandle(f) = k
    BY <1>7
  <2>2. k \in DOMAIN f.chunks
    BY <2>1 DEF AddChunk, Put
  <2>3. Table!Fresh(k)
    BY <1>5, <1>7, <2>2
  <2>4. p \notin DOMAIN T /\ p \in DOMAIN U /\ U[p] = f
    BY <1>3, <1>7
  <2>5. Table!Created(p)
    <3>1. /\ p \notin DOMAIN T /\ p \in DOMAIN U
          /\ \E l \in Table!Locations :
                LET h == Table!GetLatestChunkHandle(U[p])
                IN  Table!Fresh(h) /\ U[p] = Table!AddChunk(Table!NewFile, h, l)
      BY <2>1, <2>3, <2>4, TableOperators
    <3> QED
      BY <1>2, <3>1 DEF Table!Created, Shown
  <2> QED
    BY <1>4, <2>5 DEF Table!Request
<1>8. CASE b # None /\ f = None
  <2>1. Table!Deleted(p)
    BY <1>2, <1>3, <1>8 DEF Table!Deleted, Shown
  <2> QED
    BY <1>4, <2>1 DEF Table!Request
<1>9. ASSUME b # None, f # None, Table!Kept(p) \/ Table!Grown(p) \/ Table!Listed(p)
      PROVE  Table!Request
  <2>1. p \in DOMAIN T \cap DOMAIN U
    BY <1>3, <1>9
  <2> QED
    BY <1>2, <1>4, <1>9, <2>1 DEF Table!Request, Shown
<1>10. CASE b # None /\ f # None /\ \E num \in 0 .. Len(b.handles) : f = KeepChunks(b, num)
  <2>1. \E num \in 0 .. Len(T[p].handles) : U[p] = Table!KeepChunks(T[p], num)
    BY <1>3, <1>10, TableOperators
  <2>2. Table!Kept(p)
    BY <1>2, <2>1 DEF Table!Kept, Shown
  <2> QED
    BY <1>9, <1>10, <2>2
<1>11. CASE /\ b # None /\ f # None
            /\ \E loc \in Locations : f = AddChunk(b, k, loc) /\ GetLatestChunkHandle(f) = k
  <2>1. \E loc \in Table!Locations :
            U[p] = Table!AddChunk(T[p], Table!GetLatestChunkHandle(U[p]), loc)
    BY <1>3, <1>11, TableOperators
  <2>2. Table!Listed(p)
    BY <1>2, <2>1 DEF Table!Listed, Shown
  <2> QED
    BY <1>9, <1>11, <2>2
<1>12. CASE /\ b # None /\ f # None
            /\ GrownFrom(b, f) /\ Len(f.handles) > Len(b.handles)
            /\ DOMAIN f.chunks = DOMAIN FileAt(p).chunks /\ FileAt(p) # None
  <2> DEFINE old == T[p].handles
             new == U[p].handles
  <2>1. T[p] = b /\ U[p] = f
    BY <1>3, <1>12
  <2>2. /\ Len(new) > Len(old) /\ Len(old) \in Nat
        /\ \A i \in 1 .. Len(old) : new[i] = old[i]
        /\ \A i \in Len(old) + 1 .. Len(new) : new[i] \notin DOMAIN b.chunks
        /\ DOMAIN U[p].chunks = DOMAIN T[p].chunks \cup {new[i] : i \in Len(old) + 1 .. Len(new)}
        /\ \A x \in DOMAIN T[p].chunks : U[p].chunks[x] = T[p].chunks[x]
    <3>1. b.handles \in Seq(1 .. Len(made))
      BY <1>1, <1>12, SeenTyped
    <3> QED
      BY <1>12, <2>1, <3>1, LenProperties DEF GrownFrom
  <2>3. SubSeq(new, 1, Len(old)) = old
    <3>1. old \in Seq(1 .. Len(made))
      BY <1>1, <1>12, <2>1, SeenTyped
    <3>2. SubSeq(new, 1, Len(old)) = [i \in 1 .. Len(old) |-> new[i]]
      BY <2>2 DEF SubSeq
    <3>3. old = [i \in 1 .. Len(old) |-> old[i]]
      BY <3>1
    <3> QED
      BY <2>2, <3>2, <3>3
  <2>4. ASSUME NEW i \in Len(old) + 1 .. Len(new)
        PROVE  Table!Fresh(new[i])
    <3>1. new[i] \in DOMAIN FileAt(p).chunks /\ new[i] \notin DOMAIN b.chunks
      BY <1>12, <2>1, <2>2
    <3> QED
      BY <1>5, <1>12, <3>1
  <2>5. LET o == T[p].handles
            n == U[p].handles
        IN  /\ Len(n) > Len(o) /\ SubSeq(n, 1, Len(o)) = o
            /\ \A i \in Len(o) + 1 .. Len(n) : Table!Fresh(n[i])
            /\ DOMAIN U[p].chunks = DOMAIN T[p].chunks \cup {n[i] : i \in Len(o) + 1 .. Len(n)}
            /\ \A x \in DOMAIN T[p].chunks : U[p].chunks[x] = T[p].chunks[x]
    BY <2>2, <2>3, <2>4
  <2>6. Table!Grown(p)
    BY ONLY <1>2, <2>5 DEF Table!Grown, Shown
  <2> QED
    BY <1>9, <1>12, <2>6
<1> QED
  BY <1>1, <1>6, <1>7, <1>8, <1>10, <1>11, <1>12 DEF Effect

LEMMA TableHandle ==
  ASSUME AloneInv, AloneInv', NEW h \in Handler, Handle(h)
  PROVE  Table!Request \/ Shown' = Shown
<1>1. MasterInv /\ MasterInv'
  BY DEF AloneInv
<1>2. CASE \A p \in Path \ Shared : Seen(p)' = Seen(p)
  BY <1>2, ShownSame
<1>3. ASSUME NEW p \in Path \ Shared, Seen(p)' # Seen(p)
      PROVE  Table!Request \/ Shown' = Shown
  <2>1. /\ p = hand[h].path /\ hand[h].pc \notin {"idle", "done"} /\ hand'[h].pc = "done"
        /\ Seen(p) = hand[h].before /\ Seen(p)' = FileAt(p)'
    BY <1>1, <1>3, SeenMoves
  <2>2. Effect(p, Seen(p), hand[h].handle, Seen(p)')
    BY <2>1, LastSteps
  <2>3. \A q \in Path \ Shared : q # p => Seen(q)' = Seen(q)
    BY <1>1, <2>1, SeenMoves
  <2> QED
    BY <2>2, <2>3, TableEffect
<1> QED
  BY <1>2, <1>3

LEMMA TableStart ==
  ASSUME AloneInv, AloneInv', NEW h \in Handler, NEW p \in Path, NEW op \in Ops[p],
         NEW num \in 0 .. MaxChunks, NEW handle \in 0 .. Len(made), Start(h, op, p, num, handle),
         NEW q \in Path \ Shared
  PROVE  Seen(q)' = Seen(q)
<1>1. MasterInv /\ MasterInv'
  BY DEF AloneInv
<1>2. /\ hand[h].pc = "idle" /\ UNCHANGED <<files, objects>>
      /\ hand'[h].pc = First(op) /\ hand'[h].path = p /\ hand'[h].before = Before(p)
      /\ \A g \in Handler : g # h => hand'[g] = hand[g]
  BY <1>1, StartStep
<1>3. First(op) \in {"exists", "latest", "check"}
  BY DEF First
<1>4. FileAt(q)' = FileAt(q)
  BY <1>2 DEF FileAt
<1>5. CASE q = p
  <2>1. \A g \in Handler : ~Works(g, q)
    BY <1>5 DEF Start, Busy, Works
  <2>2. Works(h, q)'
    BY <1>2, <1>3, <1>5 DEF Works
  <2>3. Before(p) = FileAt(p)
    BY <1>5 DEF Before
  <2> QED
    BY <1>1, <1>2, <1>5, <2>1, <2>2, <2>3, SeenNow, SeenThen
<1>6. CASE q # p
  <2>1. \A g \in Handler : /\ Works(g, q)' <=> Works(g, q)
                           /\ Works(g, q) => hand'[g].before = hand[g].before
    BY <1>2, <1>6 DEF Works
  <2> QED
    BY <1>1, <1>4, <2>1, SeenNow, SeenThen
<1> QED
  BY <1>5, <1>6

LEMMA TableStays ==
  ASSUME UNCHANGED <<files, objects, hand>>
  PROVE  Shown' = Shown
<1>1. \A p \in Path \ Shared : Seen(p)' = Seen(p)
  BY DEF Seen, Busy, FileAt
<1> QED
  BY <1>1, ShownSame

LEMMA TableStep ==
  ASSUME AloneInv, AloneInv', [Next]_vars
  PROVE  Table!Request \/ Shown' = Shown
<1>1. CASE Requests
  <2>1. PICK h \in Handler, p \in Path : \E op \in Ops[p] :
          \E num \in 0 .. MaxChunks, handle \in 0 .. Len(made) : Start(h, op, p, num, handle)
    BY <1>1, RequestsStart DEF AloneInv
  <2>2. \A q \in Path \ Shared : Seen(q)' = Seen(q)
    BY <2>1, TableStart
  <2> QED
    BY <2>2, ShownSame
<1>2. CASE \E h \in Handler : Handle(h)
  BY <1>2, TableHandle
<1>3. CASE Storing
  BY <1>3, StoringLeaves, TableStays DEF AloneInv
<1>4. CASE Fatal
  BY <1>4, FatalStops, TableStays DEF Stops
<1>5. CASE UNCHANGED vars
  BY <1>5, TableStays DEF vars
<1> QED
  BY <1>1, <1>2, <1>3, <1>4, <1>5 DEF Next

LEMMA TableInit ==
  ASSUME Init
  PROVE  Table!TInit
<1>1. \A p \in Path : Seen(p) = None
  BY DEF Init, Seen, Busy, FileAt, Idle, EmptyMap
<1>2. DOMAIN Shown = {}
  BY <1>1 DEF Shown
<1> QED
  BY <1>2 DEF Table!TInit, Table!EmptyMap, Shown

\* Every behaviour of the handlers without a lock, for any number of handlers
\* and files, shows a table on which each request worked at one moment, as in
\* GeekGFS.tla: what the steps of CreateNewFile, of a write's cut or growth and
\* of the others leave is seen all together when the handler returns, on the
\* files that only one works on at a time.
THEOREM HandlersAreAtomic == Spec => HandlersOfFilesAreAtomic
<1>1. Init => Table!TInit
  BY TableInit
<1>2. AloneInv /\ AloneInv' /\ [Next]_vars
        => [Table!TNext]_[p \in {q \in Path \ Shared : Seen(q) # None} |-> Seen(p)]
  BY TableStep DEF Shown, Table!TNext
<1> QED
  BY <1>1, <1>2, AloneInvariant, PTL DEF Spec, HandlersOfFilesAreAtomic, Table!TSpec
=============================================================================
