--------------------------- MODULE GfsMasterTable ---------------------------
(***************************************************************************)
(* The table of the GeekGFS master as GeekGFS.tla uses it: a request works *)
(* on one file at one moment.                                              *)
(***************************************************************************)
EXTENDS GfsMetadata

CONSTANT Path

VARIABLE table      \* path -> File

\* Only the entry of p changes.
Only(p) == \A q \in Path \ {p} :
    /\ q \in DOMAIN table' <=> q \in DOMAIN table
    /\ q \in DOMAIN table => table'[q] = table[q]

Fresh(h) == \A p \in DOMAIN table : h \notin DOMAIN table[p].chunks

Created(p) ==
    /\ p \notin DOMAIN table /\ p \in DOMAIN table'
    /\ \E loc \in Locations :
        LET h == GetLatestChunkHandle(table'[p])
        IN  Fresh(h) /\ table'[p] = AddChunk(NewFile, h, loc)

Deleted(p) == p \in DOMAIN table /\ p \notin DOMAIN table'

Kept(p) ==
    \E num \in 0 .. Len(table[p].handles) : table'[p] = KeepChunks(table[p], num)

\* New chunks behind the others, which stay where they are.
Grown(p) ==
    LET old == table[p].handles
        new == table'[p].handles
    IN  /\ Len(new) > Len(old) /\ SubSeq(new, 1, Len(old)) = old
        /\ \A i \in Len(old) + 1 .. Len(new) : Fresh(new[i])
        /\ DOMAIN table'[p].chunks = DOMAIN table[p].chunks
                                     \cup {new[i] : i \in Len(old) + 1 .. Len(new)}
        /\ \A h \in DOMAIN table[p].chunks : table'[p].chunks[h] = table[p].chunks[h]

\* CreateChunk: a handle of the caller, known or not.
Listed(p) ==
    \E loc \in Locations : table'[p] = AddChunk(table[p], GetLatestChunkHandle(table'[p]), loc)

TInit == table = EmptyMap
Request ==
    \E p \in Path :
        /\ Only(p)
        /\ \/ Created(p) \/ Deleted(p)
           \/ p \in DOMAIN table \cap DOMAIN table' /\ (Kept(p) \/ Grown(p) \/ Listed(p))

\* A request that changes nothing is a step that stutters.
TNext == table' # table /\ Request
TSpec == TInit /\ [][TNext]_table

============================================================================
