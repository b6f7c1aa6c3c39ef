------------------------ MODULE GfsMasterProperties ------------------------
(***************************************************************************)
(* What holds of the master's handlers without a lock, and what does not.  *)
(***************************************************************************)
EXTENDS GfsMasterRaces

\* The type of every variable.
RacesTypeOK ==
    /\ DOMAIN files \subseteq Path
    /\ \A p \in DOMAIN files : files[p] \in DOMAIN objects
    /\ \A o \in DOMAIN objects :
        /\ objects[o].handles \in Seq(DOMAIN made)
        /\ DOMAIN objects[o].chunks \subseteq DOMAIN made
    /\ made \in Seq(Path) /\ up \in BOOLEAN /\ requests \in 0 .. MaxRequests
    /\ \A h \in Handler :
        /\ loaded[h] \in Seq(DOMAIN made)
        /\ hand[h].handle \in 0 .. Len(made)
        /\ hand[h].obj \in 0 .. Len(objects)
        /\ hand[h].status \in {0, -1}
    /\ DOMAIN storage.todo \cup storage.still \cup DOMAIN storage.part \subseteq Path

\* The file of p as its users see it while a handler works on it.
Seen(p) ==
    LET working == {h \in Busy(p) : hand[h].pc # "done"}
    IN  IF working = {} THEN FileAt(p) ELSE hand[CHOOSE h \in working : TRUE].before

Table == INSTANCE GfsMasterTable WITH
            Path <- Path \ Shared,
            table <- [p \in {q \in Path \ Shared : Seen(q) # None} |-> Seen(p)]

\* Handlers, each cut into its accesses and any of them ended by a panic of
\* another, look as if each worked at one moment, like the table of GeekGFS.tla,
\* on the files that only one works on at a time, whatever the others do to
\* the maps meanwhile.
HandlersOfFilesAreAtomic == Table!TSpec

\* A file nobody has worked on since the backup began is in it with its chunks
\* and handles, whatever the handlers of the other files do meanwhile.
BackupHasStableFiles ==
    [][Save => \A p \in storage.still :
            /\ p \in DOMAIN storage.part
            /\ storage.part[p].handles = FileAt(p).handles
            /\ DOMAIN storage.part[p].chunks = DOMAIN FileAt(p).chunks]_vars

\* A handle that the master made is listed by one file and at one place,
\* whatever lists are stored over others, on files that are deleted and created
\* meanwhile too.  (Without CreateChunk, which lists a handle again.)
ChunksListedOnce ==
    \A p, q \in DOMAIN files :
        LET ours == FileAt(p).handles
            theirs == FileAt(q).handles
        IN  \A i \in DOMAIN ours, j \in DOMAIN theirs :
                ours[i] = theirs[j] /\ "createChunk" \notin Ops[made[ours[i]]] => p = q /\ i = j

\* readFile takes the chunk of every handle that the file lists without a test
\* (masterserver.go:248): while nobody works on the file all should be there.
\* (Without CreateChunk.)  Not so: an update of the list may be lost.
ListedChunksExist ==
    \A p \in DOMAIN files : "createChunk" \notin Ops[p] /\ Busy(p) = {} =>
        Range(FileAt(p).handles) \subseteq DOMAIN FileAt(p).chunks

============================================================================
