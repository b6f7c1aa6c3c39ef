---------------------------- MODULE GfsMetadata ----------------------------
(***************************************************************************)
(* The objects behind the metadata of the GeekGFS master                   *)
(* (src/geekGFS/src/server/masterserver/metadata.go, file.go, chunk.go) and *)
(* the operations its handlers perform on one File object, without who     *)
(* performs them.  A Go map is a function whose domain is the set of keys  *)
(* that are present; the generated uuids are natural numbers.              *)
(***************************************************************************)
EXTENDS Integers, Sequences, Functions

CONSTANTS
    GFSChunkSize,   \* bytes of a chunk, 64 in common/util.go
    NumServers,     \* chunk servers, 5 in common/util.go
    Replicas        \* servers of a chunk, 3 in ChooseChunkServerLocations

ASSUME GfsAssumption ==
    /\ GFSChunkSize \in Nat \ {0}
    /\ NumServers \in Nat \ {0}
    /\ Replicas \in 1 .. NumServers

Server == 0 .. NumServers - 1
Locations == [1 .. Replicas -> Server]

\* The assignment m[k] = v of a Go map, and delete(m, k) for every k in K.
Put(m, k, v) == [x \in DOMAIN m \cup {k} |-> IF x = k THEN v ELSE m[x]]
Without(m, K) == Restrict(m, DOMAIN m \ K)
EmptyMap == [x \in {} |-> x]

\* Consecutive servers from a random one on.
ChooseChunkServerLocations(index) ==
    [i \in 1 .. Replicas |-> (index + i - 1) % NumServers]

NewFile == [chunks |-> EmptyMap, handles |-> <<>>]

\* (mutant) numbers the chunks of each file, without a uuid
AddChunkByNumber(file, handle, locations) ==
    [chunks |-> Put(file.chunks, Len(file.handles) + 1, locations),
     handles |-> Append(file.handles, Len(file.handles) + 1)]

\* The table entry and the handle list of a chunk are written together.  A
\* handle that is there already is listed again and its locations replaced.
AddChunk(file, handle, locations) ==
    [chunks |-> Put(file.chunks, handle, locations),
     handles |-> Append(file.handles, handle)]

\* The chunks that a write of length len needs.
ChunkNum(len) == (len + GFSChunkSize - 1) \div GFSChunkSize

\* The i-th uuid from first on.
HandleBefore(first, i) == first + i - 2     \* (mutant)
HandleAt(first, i) == first + i - 1

\* A write that needs more chunks than there are: a new handle for each index.
GrowChunks(file, first, indexes) ==
    LET new == [i \in DOMAIN indexes |-> HandleAt(first, i)]
        IndexOf(h) == indexes[CHOOSE i \in DOMAIN indexes : new[i] = h]
    IN  [chunks |-> [h \in DOMAIN file.chunks \cup Range(new) |->
                        IF h \in Range(new) THEN ChooseChunkServerLocations(IndexOf(h))
                        ELSE file.chunks[h]],
         handles |-> file.handles \o new]

HandlesBehind(file, num) == {file.handles[i] : i \in num + 1 .. Len(file.handles)}

\* (mutant) the handles are cut one too late
KeepChunksLate(file, num) ==
    [chunks |-> Without(file.chunks, HandlesBehind(file, num)),
     handles |-> SubSeq(file.handles, 1, IF num < Len(file.handles) THEN num + 1 ELSE num)]

\* A write that needs no more than there are: those behind the first num go.
KeepChunks(file, num) ==
    [chunks |-> Without(file.chunks, HandlesBehind(file, num)),
     handles |-> SubSeq(file.handles, 1, num)]

\* None of the first num handles leads to the nil pointer.
HasChunks(file, num) ==
    \A i \in DOMAIN file.handles : i <= num => file.handles[i] \in DOMAIN file.chunks

GetLatestChunkHandle(file) == file.handles[Len(file.handles)]

============================================================================
