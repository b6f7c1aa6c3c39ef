------------------------- MODULE GfsIsolationProofs -------------------------
(***************************************************************************)
(* The files of GeekGFS stay apart, for any number of clients, servers and  *)
(* files.  Each handle belongs to the file it was made for.  The steps that *)
(* make handles extend the owner function; no other step moves a handle or  *)
(* a byte to a file that does not own it.                                   *)
(***************************************************************************)
EXTENDS GfsIsolation, FiniteSetTheorems, SequenceTheorems, TLAPS

(* Sequences *)

LEMMA FunctionIsSeq ==
  ASSUME NEW S, NEW n \in Nat, NEW f \in [1 .. n -> S]
  PROVE  f \in Seq(S) /\ Len(f) = n
  BY SMT

LEMMA SubSeqStays ==
  ASSUME NEW S, NEW s \in Seq(S), NEW m \in Nat \ {0}, NEW n \in Nat, n <= Len(s)
  PROVE  SubSeq(s, m, n) \in Seq(S)
  <1>1. \A i \in m .. n : s[i] \in S
    BY ElementOfSeq
  <1> QED
    BY <1>1, SubSeqProperties

LEMMA UpToBarStays ==
  ASSUME NEW S, NEW s \in Seq(S)
  PROVE  UpToBar(s) \in Seq(S)
  <1> DEFINE N == {n \in DOMAIN s : \A i \in 1 .. n : s[i] # Bar}
  <1>1. Len(s) \in Nat /\ N \subseteq 1 .. Len(s)
    BY LenProperties
  <1>2. IsFiniteSet(1 .. Len(s)) /\ Cardinality(1 .. Len(s)) = Len(s)
    <2>1. PICK k : k = Len(s)
      OBVIOUS
    <2>2. k \in Nat
      BY <1>1, <2>1
    <2>3. IsFiniteSet(1 .. k) /\ Cardinality(1 .. k) = k
      BY <2>2, FS_Interval
    <2> QED
      BY <2>1, <2>3
  <1> HIDE DEF N
  <1>3. IsFiniteSet(N) /\ Cardinality(N) <= Len(s)
    BY <1>1, <1>2, FS_Subset
  <1>4. Cardinality(N) \in Nat
    BY <1>3, FS_CardinalityType
  <1>5. SubSeq(s, 1, Cardinality(N)) \in Seq(S)
    BY <1>1, <1>3, <1>4, SubSeqStays
  <1> QED
    BY <1>5 DEF UpToBar, N

\* The master finds the path of a request, whatever data is behind it.
LEMMA PathIsFirstField ==
  ASSUME NEW p \in Path, NEW data \in Seq(Byte)
  PROVE  UpToBar(p \o <<Bar>> \o data) = p
  <1>1. PICK m, n, k : m = p \o <<Bar>> \o data /\ n = Len(p) /\ k = Len(data)
    OBVIOUS
  <1>2. p \in Seq(Byte) /\ n \in Nat /\ k \in Nat /\ \A i \in 1 .. n : p[i] # Bar
    BY <1>1, PathAssumption, LenProperties DEF PathAssumption
  <1>3. /\ DOMAIN m = 1 .. n + 1 + k /\ m[n + 1] = Bar
        /\ \A i \in 1 .. n : m[i] = p[i]
        /\ m \in Seq(Byte \cup {Bar}) /\ Len(m) = n + 1 + k
    <2>1. p \in Seq(Byte \cup {Bar}) /\ data \in Seq(Byte \cup {Bar}) /\ <<Bar>> \in Seq(Byte \cup {Bar})
      BY <1>2
    <2>2. PICK q : q = p \o <<Bar>>
      OBVIOUS
    <2>3. /\ q \in Seq(Byte \cup {Bar}) /\ Len(q) = n + 1 /\ q[n + 1] = Bar
          /\ \A i \in 1 .. n : q[i] = p[i]
      BY <1>1, <1>2, <2>1, <2>2, ConcatProperties
    <2>4. m = q \o data
      BY <1>1, <2>2
    <2> QED
      BY <1>1, <1>2, <2>1, <2>3, <2>4, ConcatProperties
  <1>4. {i \in DOMAIN m : \A j \in 1 .. i : m[j] # Bar} = 1 .. n
    BY <1>2, <1>3
  <1>5. Cardinality(1 .. n) = n
    BY <1>2, FS_Interval
  <1>6. UpToBar(m) = SubSeq(m, 1, n)
    BY <1>4, <1>5 DEF UpToBar
  <1>7. SubSeq(m, 1, n) = p
    <2>1. PICK t : t = SubSeq(m, 1, n)
      OBVIOUS
    <2>2. t \in Seq(Byte \cup {Bar}) /\ Len(t) = n /\ \A i \in 1 .. n : t[i] = m[i]
      BY <1>2, <1>3, <2>1, SubSeqProperties
    <2> QED
      BY <1>1, <1>2, <1>3, <2>1, <2>2, SeqEqual
  <1> QED
    BY <1>1, <1>6, <1>7

LEMMA PieceStays ==
  ASSUME NEW S, NEW data \in Seq(S), NEW i \in Nat \ {0}
  PROVE  Piece(data, i) \in Seq(S)
  <1> DEFINE last == i * GFSChunkSize
             first == last - GFSChunkSize + 1
             end == IF last < Len(data) THEN last ELSE Len(data)
  <1>1. last \in Nat /\ first \in Nat \ {0}
    <2>1. PICK j \in Nat : i = j + 1
      BY SMT
    <2>2. j * GFSChunkSize \in Nat /\ GFSChunkSize \in Nat
      BY <2>1, GfsAssumption DEF GfsAssumption
    <2>3. (j + 1) * GFSChunkSize = j * GFSChunkSize + GFSChunkSize
      BY <2>1, <2>2
    <2> QED
      BY <2>1, <2>2, <2>3
  <1>2. end \in Nat /\ end <= Len(data)
    BY <1>1, LenProperties
  <1> HIDE DEF last, first, end
  <1>3. SubSeq(data, first, end) \in Seq(S)
    BY <1>1, <1>2, SubSeqStays
  <1> QED
    BY <1>3 DEF Piece, first, end, last

LEMMA ChunkNumIsNat ==
  ASSUME NEW len \in Nat
  PROVE  ChunkNum(len) \in Nat
  BY GfsAssumption DEF GfsAssumption, ChunkNum

-----------------------------------------------------------------------------
(* Owners *)

\* The handles from those of owner up to n - 1 are made for p.
Extend(owner, n, p) == [h \in 1 .. n - 1 |-> IF h \in DOMAIN owner THEN owner[h] ELSE p]

Grows(owner, larger) ==
    DOMAIN owner \subseteq DOMAIN larger /\ \A h \in DOMAIN owner : larger[h] = owner[h]

LEMMA ExtendGrows ==
  ASSUME NEW k \in Nat \ {0}, NEW n \in Nat, k <= n, NEW p \in Path,
         NEW owner \in [1 .. k - 1 -> Path]
  PROVE  /\ Extend(owner, n, p) \in [1 .. n - 1 -> Path]
         /\ Grows(owner, Extend(owner, n, p))
         /\ k .. n - 1 \subseteq HandlesOf(Extend(owner, n, p), p)
  BY DEF Extend, Grows, HandlesOf

LEMMA HandlesOfGrows ==
  ASSUME NEW owner, NEW larger, Grows(owner, larger), NEW p
  PROVE  /\ HandlesOf(owner, p) \subseteq HandlesOf(larger, p)
         /\ CallsOn(owner, p) \subseteq CallsOn(larger, p)
  <1>1. HandlesOf(owner, p) \subseteq HandlesOf(larger, p)
    BY DEF Grows, HandlesOf
  <1> QED
    BY <1>1 DEF CallsOn

LEMMA ApartGrows ==
  ASSUME NEW owner, NEW larger, Grows(owner, larger), Apart(owner)
  PROVE  Apart(larger)
  <1>1. FilesKeepHandles(larger)
    <2> SUFFICES ASSUME NEW p \in DOMAIN files
                 PROVE  FileKeepsHandles(larger, p, files[p])
      BY DEF FilesKeepHandles
    <2>1. HandlesOf(owner, p) \subseteq HandlesOf(larger, p)
      BY HandlesOfGrows
    <2>2. FileKeepsHandles(owner, p, files[p])
      BY DEF Apart, FilesKeepHandles
    <2>3. files[p].handles \in Seq(HandlesOf(larger, p))
      BY <2>1, <2>2, SeqMonotonic DEF FileKeepsHandles
    <2> QED
      BY <2>1, <2>2, <2>3 DEF FileKeepsHandles
  <1>2. ProcessesKeepHandles(larger)
    <2> SUFFICES ASSUME NEW c \in Client, proc[c] # NoProcess
                 PROVE  \E cmd \in Command : proc[c] \in ProcessOf(larger, cmd)
      BY DEF ProcessesKeepHandles
    <2>1. PICK cmd \in Command : proc[c] \in ProcessOf(owner, cmd)
      BY DEF Apart, ProcessesKeepHandles
    <2>2. CallsOn(owner, cmd.path) \subseteq CallsOn(larger, cmd.path)
      BY HandlesOfGrows
    <2>3. \A s \in Seq(CallsOn(owner, cmd.path)) : s \in Seq(CallsOn(larger, cmd.path))
      BY <2>2, SeqMonotonic
    <2> QED
      BY <2>1, <2>3 DEF ProcessOf
  <1>3. DiskKeepsHandles(larger)
    BY DEF Apart, DiskKeepsHandles, Grows
  <1> QED
    BY <1>1, <1>2, <1>3 DEF Apart

-----------------------------------------------------------------------------
(* Processes *)

LEMMA Running ==
  ASSUME NEW owner, ProcessesKeepHandles(owner), NEW c \in Client, proc[c].state # "idle"
  PROVE  proc[c].cmd \in Command /\ proc[c] \in ProcessOf(owner, proc[c].cmd)
  <1>1. proc[c] # NoProcess
    BY DEF NoProcess
  <1>2. PICK cmd \in Command : proc[c] \in ProcessOf(owner, cmd)
    BY <1>1 DEF ProcessesKeepHandles
  <1>3. proc[c].cmd = cmd
    BY <1>2 DEF ProcessOf
  <1> QED
    BY <1>2, <1>3

LEMMA Calling ==
  ASSUME NEW owner, ProcessesKeepHandles(owner), NEW c \in Client, proc[c].todo # <<>>
  PROVE  /\ proc[c].cmd \in Command
         /\ proc[c] \in ProcessOf(owner, proc[c].cmd)
         /\ Head(proc[c].todo) \in CallsOn(owner, proc[c].cmd.path)
         /\ Tail(proc[c].todo) \in Seq(CallsOn(owner, proc[c].cmd.path))
  <1>1. proc[c] # NoProcess
    BY DEF NoProcess
  <1>2. PICK cmd \in Command : proc[c] \in ProcessOf(owner, cmd)
    BY <1>1 DEF ProcessesKeepHandles
  <1>3. proc[c].cmd = cmd /\ proc[c].todo \in Seq(CallsOn(owner, cmd.path))
    BY <1>2 DEF ProcessOf
  <1>4. /\ Head(proc[c].todo) \in CallsOn(owner, cmd.path)
        /\ Tail(proc[c].todo) \in Seq(CallsOn(owner, cmd.path))
    BY <1>3, HeadTailProperties
  <1> QED
    BY <1>2, <1>3, <1>4

LEMMA ProcessStep ==
  ASSUME NEW owner, ProcessesKeepHandles(owner), DOMAIN proc = Client, NEW c \in Client,
         NEW new, proc' = [proc EXCEPT ![c] = new],
         new = NoProcess \/ \E cmd \in Command : new \in ProcessOf(owner, cmd)
  PROVE  ProcessesKeepHandles(owner)' /\ DOMAIN proc' = Client
  <1>1. DOMAIN proc' = Client /\ \A d \in Client : proc'[d] = IF d = c THEN new ELSE proc[d]
    OBVIOUS
  <1> QED
    BY <1>1 DEF ProcessesKeepHandles, ProcessOf, CallsOn, HandlesOf, NoProcess, NoCommand

LEMMA ProceedStep ==
  ASSUME NEW owner, ProcessesKeepHandles(owner), DOMAIN proc = Client, NEW c \in Client,
         proc[c].todo # <<>>, NEW more \in Seq(CallsOn(owner, proc[c].cmd.path)),
         Proceed(c, more)
  PROVE  ProcessesKeepHandles(owner)' /\ DOMAIN proc' = Client
  <1> DEFINE calls == CallsOn(owner, proc[c].cmd.path)
             todo == IF proc[c].state = "gone" THEN <<>> ELSE more \o Tail(proc[c].todo)
             new == [proc[c] EXCEPT !.todo = todo]
  <1>1. proc[c].cmd \in Command /\ proc[c] \in ProcessOf(owner, proc[c].cmd)
    BY Calling
  <1>2. Tail(proc[c].todo) \in Seq(calls)
    BY Calling
  <1>3. more \in Seq(calls)
    OBVIOUS
  <1> HIDE DEF calls
  <1>4. more \o Tail(proc[c].todo) \in Seq(calls) /\ <<>> \in Seq(calls)
    BY <1>2, <1>3, ConcatProperties, EmptySeq
  <1>5. proc' = [proc EXCEPT ![c] = new]
    BY DEF Proceed
  <1>6. todo \in Seq(calls)
    BY <1>4
  <1> HIDE DEF todo
  <1>7. new \in ProcessOf(owner, proc[c].cmd)
    BY <1>1, <1>6 DEF ProcessOf, calls
  <1> HIDE DEF new
  <1> QED
    BY <1>1, <1>5, <1>7, ProcessStep

-----------------------------------------------------------------------------
(* Chunks and calls *)

LEMMA ChosenLocations ==
  ASSUME NEW index \in Server
  PROVE  ChooseChunkServerLocations(index) \in Locations
  BY GfsAssumption DEF GfsAssumption, ChooseChunkServerLocations, Locations, Server

LEMMA CallIsOn ==
  ASSUME NEW owner, NEW p, NEW to \in Server \cup {Master}, NEW name \in ChunkCalls,
         NEW h \in HandlesOf(owner, p), NEW data \in Seq(Alphabet[p])
  PROVE  [to |-> to, op |-> name, handle |-> h, data |-> data] \in CallsOn(owner, p)
  BY DEF CallsOn

LEMMA EachIsOn ==
  ASSUME NEW owner, NEW p, NEW locations \in Locations, NEW name \in ChunkCalls,
         NEW h \in HandlesOf(owner, p), NEW data \in Seq(Alphabet[p])
  PROVE  /\ ToEach(locations, name, h, data) \in Seq(CallsOn(owner, p))
         /\ ToEach(locations, name, h, data) \in [1 .. Replicas -> CallsOn(owner, p)]
  <1> DEFINE calls == CallsOn(owner, p)
  <1>1. Replicas \in Nat
    BY GfsAssumption DEF GfsAssumption
  <1>2. \A i \in 1 .. Replicas :
            [to |-> locations[i], op |-> name, handle |-> h, data |-> data] \in calls
    <2> SUFFICES ASSUME NEW i \in 1 .. Replicas
                 PROVE  [to |-> locations[i], op |-> name, handle |-> h, data |-> data] \in calls
      OBVIOUS
    <2>1. locations[i] \in Server \cup {Master}
      BY DEF Locations
    <2> QED
      BY <2>1, CallIsOn
  <1> HIDE DEF calls
  <1>3. ToEach(locations, name, h, data) \in [1 .. Replicas -> calls]
    BY <1>2 DEF ToEach
  <1> QED
    BY <1>1, <1>3, FunctionIsSeq DEF calls

LEMMA DataStays ==
  ASSUME NEW cmd \in Command
  PROVE  cmd.data \in Seq(Alphabet[cmd.path]) /\ cmd.path \in Path
  BY AlphabetAssumption, ClientAssumption DEF AlphabetAssumption, ClientAssumption

-----------------------------------------------------------------------------
(* Files *)

LEMMA FilesStep ==
  ASSUME NEW owner, FilesKeepHandles(owner), DOMAIN files \subseteq Path, NEW p \in Path,
         NEW file, FileKeepsHandles(owner, p, file),
         \/ files' = Put(files, p, file)
         \/ p \in DOMAIN files /\ files' = [files EXCEPT ![p] = file]
  PROVE  FilesKeepHandles(owner)' /\ DOMAIN files' \subseteq Path
  <1>1. /\ DOMAIN files' \subseteq DOMAIN files \cup {p}
        /\ \A q \in DOMAIN files' : files'[q] = IF q = p THEN file ELSE files[q]
    BY DEF Put
  <1>2. \A q \in DOMAIN files' : FileKeepsHandles(owner, q, files'[q])
    BY <1>1 DEF FilesKeepHandles
  <1> QED
    BY <1>1, <1>2 DEF FilesKeepHandles, FileKeepsHandles, HandlesOf

LEMMA NewFileKeeps ==
  ASSUME NEW owner, NEW p
  PROVE  FileKeepsHandles(owner, p, NewFile)
  BY EmptySeq DEF FileKeepsHandles, NewFile, EmptyMap

LEMMA AddChunkKeeps ==
  ASSUME NEW owner, NEW p, NEW file, FileKeepsHandles(owner, p, file),
         NEW h \in HandlesOf(owner, p), NEW locations \in Locations
  PROVE  FileKeepsHandles(owner, p, AddChunk(file, h, locations))
  <1>1. Append(file.handles, h) \in Seq(HandlesOf(owner, p))
    BY AppendProperties DEF FileKeepsHandles
  <1>2. /\ DOMAIN Put(file.chunks, h, locations) \subseteq HandlesOf(owner, p)
        /\ \A k \in DOMAIN Put(file.chunks, h, locations) :
              Put(file.chunks, h, locations)[k] \in Locations
    BY DEF FileKeepsHandles, Put
  <1> QED
    BY <1>1, <1>2 DEF FileKeepsHandles, AddChunk

LEMMA KeepChunksKeeps ==
  ASSUME NEW owner, NEW p, NEW file, FileKeepsHandles(owner, p, file),
         NEW num \in Nat, num <= Len(file.handles)
  PROVE  FileKeepsHandles(owner, p, KeepChunks(file, num))
  <1>1. SubSeq(file.handles, 1, num) \in Seq(HandlesOf(owner, p))
    BY SubSeqStays DEF FileKeepsHandles
  <1>2. \A K : /\ DOMAIN Without(file.chunks, K) \subseteq HandlesOf(owner, p)
               /\ \A k \in DOMAIN Without(file.chunks, K) :
                     Without(file.chunks, K)[k] \in Locations
    BY DEF FileKeepsHandles, Without, Restrict
  <1> QED
    BY <1>1, <1>2 DEF FileKeepsHandles, KeepChunks

\* What WriteFile needs to know of the file that it has made.
LEMMA GrowChunksKeeps ==
  ASSUME NEW owner, NEW p, NEW file, FileKeepsHandles(owner, p, file),
         NEW first \in Nat \ {0}, NEW num \in Nat, HasChunks(file, num),
         NEW indexes \in [1 .. num - Len(file.handles) -> Server],
         first .. first + Len(indexes) - 1 \subseteq HandlesOf(owner, p)
  PROVE  LET grown == GrowChunks(file, first, indexes)
         IN  /\ FileKeepsHandles(owner, p, grown)
             /\ num <= Len(grown.handles)
             /\ \A i \in 1 .. num : grown.handles[i] \in DOMAIN grown.chunks
  <1> DEFINE new == [i \in DOMAIN indexes |-> HandleAt(first, i)]
             grown == GrowChunks(file, first, indexes)
             handles == HandlesOf(owner, p)
             IndexOf(h) == indexes[CHOOSE i \in DOMAIN indexes : new[i] = h]
  <1>1. file.handles \in Seq(handles) /\ Len(file.handles) \in Nat
    BY LenProperties DEF FileKeepsHandles
  <1>2. /\ indexes \in Seq(Server) /\ Len(indexes) \in Nat
        /\ DOMAIN indexes = 1 .. Len(indexes)
        /\ num <= Len(file.handles) + Len(indexes)
    <2>1. CASE num <= Len(file.handles)
      <3>1. 1 .. num - Len(file.handles) = 1 .. 0
        BY <1>1, <2>1
      <3>2. indexes \in [1 .. 0 -> Server]
        BY <3>1
      <3>3. indexes \in Seq(Server) /\ Len(indexes) = 0
        BY <3>2, FunctionIsSeq
      <3>4. DOMAIN indexes = 1 .. Len(indexes)
        BY <3>2, <3>3
      <3> QED
        BY <1>1, <2>1, <3>3, <3>4
    <2>2. CASE num > Len(file.handles)
      <3>1. num - Len(file.handles) \in Nat
        BY <1>1, <2>2
      <3>2. indexes \in Seq(Server) /\ Len(indexes) = num - Len(file.handles)
        BY <3>1, FunctionIsSeq
      <3> QED
        BY <1>1, <3>1, <3>2
    <2> QED
      BY <1>1, <2>1, <2>2
  <1>3. /\ new \in Seq(handles) /\ Len(new) = Len(indexes)
        /\ DOMAIN new = DOMAIN indexes /\ Range(new) \subseteq handles
    <2>1. new \in [1 .. Len(indexes) -> handles]
      BY <1>2 DEF HandleAt
    <2> HIDE DEF new, handles
    <2> QED
      BY <1>2, <2>1, FunctionIsSeq DEF Range
  <1>4. \A h \in Range(new) : IndexOf(h) \in Server
    <2> SUFFICES ASSUME NEW h \in Range(new) PROVE IndexOf(h) \in Server
      OBVIOUS
    <2>1. \E i \in DOMAIN indexes : new[i] = h
      BY DEF Range
    <2>2. (CHOOSE i \in DOMAIN indexes : new[i] = h) \in DOMAIN indexes
      BY <2>1
    <2> QED
      BY <2>2
  <1>5. /\ grown.handles = file.handles \o new
        /\ grown.chunks = [h \in DOMAIN file.chunks \cup Range(new) |->
                              IF h \in Range(new) THEN ChooseChunkServerLocations(IndexOf(h))
                              ELSE file.chunks[h]]
    BY DEF GrowChunks
  <1> HIDE DEF grown, new, IndexOf, handles
  <1>6. /\ DOMAIN grown.chunks = DOMAIN file.chunks \cup Range(new)
        /\ \A h \in DOMAIN grown.chunks : grown.chunks[h] \in Locations
    BY <1>4, <1>5, ChosenLocations DEF FileKeepsHandles
  <1>7. /\ grown.handles \in Seq(handles)
        /\ Len(grown.handles) = Len(file.handles) + Len(new)
        /\ \A i \in 1 .. Len(file.handles) + Len(new) :
              grown.handles[i] = IF i <= Len(file.handles) THEN file.handles[i]
                                 ELSE new[i - Len(file.handles)]
    <2>1. file.handles \in Seq(handles) /\ new \in Seq(handles) /\ grown.handles = file.handles \o new
      BY <1>1, <1>3, <1>5
    <2> QED
      BY <2>1, ConcatProperties
  <1>8. FileKeepsHandles(owner, p, grown)
    BY <1>3, <1>6, <1>7 DEF FileKeepsHandles, handles
  <1>9. ASSUME NEW i \in 1 .. num
        PROVE  grown.handles[i] \in DOMAIN grown.chunks
    <2>1. CASE i <= Len(file.handles)
      BY <1>1, <1>3, <1>6, <1>7, <2>1, LenProperties, <1>2 DEF HasChunks
    <2>2. CASE i > Len(file.handles)
      <3>1. i - Len(file.handles) \in DOMAIN new
        BY <1>1, <1>2, <1>3, <2>2
      <3>2. new[i - Len(file.handles)] \in Range(new)
        BY <3>1 DEF Range
      <3> QED
        BY <1>1, <1>2, <1>3, <1>6, <1>7, <2>2, <3>2
    <2> QED
      BY <1>1, <2>1, <2>2
  <1> QED
    BY <1>2, <1>3, <1>7, <1>8, <1>9 DEF grown

-----------------------------------------------------------------------------
(* Steps that make no handles *)

LEMMA SameHandles ==
  ASSUME nextHandle \in Nat \ {0}, nextHandle' = nextHandle, NEW owner \in [Handles -> Path],
         DOMAIN files' \subseteq Path, DOMAIN disk' = Server, DOMAIN proc' = Client,
         FilesKeepHandles(owner)', ProcessesKeepHandles(owner)', DiskKeepsHandles(owner)'
  PROVE  Isolation'
  <1>1. owner \in [Handles' -> Path]
    BY DEF Handles
  <1>2. Apart(owner)'
    BY DEF Apart
  <1> QED
    BY <1>1, <1>2 DEF Isolation

LEMMA SameFiles ==
  ASSUME NEW owner, FilesKeepHandles(owner), files' = files
  PROVE  FilesKeepHandles(owner)'
  BY DEF FilesKeepHandles, FileKeepsHandles, HandlesOf

LEMMA SameDisk ==
  ASSUME NEW owner, DiskKeepsHandles(owner), disk' = disk
  PROVE  DiskKeepsHandles(owner)'
  BY DEF DiskKeepsHandles

\* A process changes, and nothing that is stored.
LEMMA ProcessOnly ==
  ASSUME Isolation, NEW c \in Client, UNCHANGED <<files, nextHandle, disk>>,
         NEW new, proc' = [proc EXCEPT ![c] = new],
         \A owner \in [Handles -> Path] : Apart(owner) =>
            new = NoProcess \/ \E cmd \in Command : new \in ProcessOf(owner, cmd)
  PROVE  Isolation'
  <1>1. PICK owner \in [Handles -> Path] : Apart(owner)
    BY DEF Isolation
  <1>2. new = NoProcess \/ \E cmd \in Command : new \in ProcessOf(owner, cmd)
    BY <1>1
  <1>3. ProcessesKeepHandles(owner)' /\ DOMAIN proc' = Client
    BY <1>1, <1>2, ProcessStep DEF Apart, Isolation
  <1>4. FilesKeepHandles(owner)' /\ DiskKeepsHandles(owner)'
    BY <1>1, SameFiles, SameDisk DEF Apart
  <1> QED
    BY <1>1, <1>3, <1>4, SameHandles DEF Isolation

\* A client has its answer, and nothing that is stored changes.
LEMMA ProceedOnly ==
  ASSUME Isolation, NEW c \in Client, UNCHANGED <<files, nextHandle, disk>>,
         proc[c].todo # <<>>, NEW more, Proceed(c, more),
         \A owner \in [Handles -> Path] : Apart(owner) =>
            more \in Seq(CallsOn(owner, proc[c].cmd.path))
  PROVE  Isolation'
  <1>1. PICK owner \in [Handles -> Path] : Apart(owner)
    BY DEF Isolation
  <1>2. more \in Seq(CallsOn(owner, proc[c].cmd.path))
    BY <1>1
  <1>3. ProcessesKeepHandles(owner)' /\ DOMAIN proc' = Client
    BY <1>1, <1>2, ProceedStep DEF Apart, Isolation
  <1>4. FilesKeepHandles(owner)' /\ DiskKeepsHandles(owner)'
    BY <1>1, SameFiles, SameDisk DEF Apart
  <1> QED
    BY <1>1, <1>3, <1>4, SameHandles DEF Isolation

LEMMA StartKeeps ==
  ASSUME Isolation, NEW c \in Client, NEW cmd \in Command, Start(c, cmd)
  PROVE  Isolation'
  <1> DEFINE new == [state |-> "running", cmd |-> cmd,
                     todo |-> <<ToMaster(cmd.op, 0, <<>>)>>, got |-> <<>>]
  <1>1. cmd.op \in FirstCalls
    BY ClientAssumption DEF ClientAssumption, FirstCalls
  <1>2. ASSUME NEW owner
        PROVE  new \in ProcessOf(owner, cmd)
    <2>1. <<>> \in Seq(Alphabet[cmd.path]) /\ <<>> \in Seq(Alphabet[cmd.path] \cup {ErrorText})
      BY EmptySeq
    <2>2. ToMaster(cmd.op, 0, <<>>) \in CallsOn(owner, cmd.path)
      BY <1>1, <2>1 DEF ToMaster, CallsOn
    <2>3. <<ToMaster(cmd.op, 0, <<>>)>> \in Seq(CallsOn(owner, cmd.path))
      BY <2>2
    <2> QED
      BY <2>1, <2>3 DEF ProcessOf
  <1>3. proc' = [proc EXCEPT ![c] = new] /\ UNCHANGED <<files, nextHandle, disk>>
    BY DEF Start
  <1> HIDE DEF new
  <1> QED
    BY <1>2, <1>3, ProcessOnly

LEMMA EndKeeps ==
  ASSUME Isolation, NEW c \in Client, Return(c) \/ Leave(c)
  PROVE  Isolation'
  BY ProcessOnly DEF Return, Leave

LEMMA GiveUpKeeps ==
  ASSUME Isolation, NEW c \in Client, GiveUp(c)
  PROVE  Isolation'
  <1> DEFINE new == [proc[c] EXCEPT !.state = "gone", !.todo = <<Head(proc[c].todo)>>]
  <1>1. ASSUME NEW owner, Apart(owner)
        PROVE  \E cmd \in Command : new \in ProcessOf(owner, cmd)
    <2>1. /\ proc[c].cmd \in Command
          /\ proc[c] \in ProcessOf(owner, proc[c].cmd)
          /\ Head(proc[c].todo) \in CallsOn(owner, proc[c].cmd.path)
      BY <1>1, Calling DEF Apart, GiveUp
    <2>2. <<Head(proc[c].todo)>> \in Seq(CallsOn(owner, proc[c].cmd.path))
      BY <2>1
    <2>3. new \in ProcessOf(owner, proc[c].cmd)
      BY <2>1, <2>2 DEF ProcessOf
    <2> QED
      BY <2>1, <2>3
  <1>2. proc' = [proc EXCEPT ![c] = new] /\ UNCHANGED <<files, nextHandle, disk>>
    BY DEF GiveUp
  <1> HIDE DEF new
  <1> QED
    BY <1>1, <1>2, ProcessOnly

LEMMA ReplyKeeps ==
  ASSUME Isolation, NEW c \in Client, proc[c].todo # <<>>, Reply(c)
  PROVE  Isolation'
  BY ProceedOnly, EmptySeq DEF Reply

LEMMA PanicKeeps ==
  ASSUME Isolation, NEW c \in Client, proc[c].todo # <<>>, Panic(c)
  PROVE  Isolation'
  <1> DEFINE new == [proc[c] EXCEPT !.state = "gone", !.todo = <<>>]
  <1>1. ASSUME NEW owner, Apart(owner)
        PROVE  \E cmd \in Command : new \in ProcessOf(owner, cmd)
    <2>1. proc[c].cmd \in Command /\ proc[c] \in ProcessOf(owner, proc[c].cmd)
      BY <1>1, Calling DEF Apart
    <2>2. new \in ProcessOf(owner, proc[c].cmd)
      BY <2>1, EmptySeq DEF ProcessOf
    <2> QED
      BY <2>1, <2>2
  <1>2. proc' = [proc EXCEPT ![c] = new] /\ UNCHANGED <<files, nextHandle, disk>>
    BY DEF Panic
  <1> HIDE DEF new
  <1> QED
    BY <1>1, <1>2, ProcessOnly

LEMMA RestartKeeps ==
  ASSUME Isolation, RestartMaster
  PROVE  Isolation'
  <1>1. PICK owner \in [Handles -> Path] : Apart(owner)
    BY DEF Isolation
  <1>2. DOMAIN files' = {} /\ UNCHANGED <<nextHandle, disk, proc>>
    BY DEF RestartMaster, EmptyMap
  <1>3. FilesKeepHandles(owner)' /\ DiskKeepsHandles(owner)'
    BY <1>1, <1>2, SameDisk DEF Apart, FilesKeepHandles
  <1>4. ProcessesKeepHandles(owner)'
    BY <1>1, <1>2 DEF Apart, ProcessesKeepHandles, ProcessOf, CallsOn, HandlesOf, NoProcess, NoCommand
  <1> QED
    BY <1>1, <1>2, <1>3, <1>4, SameHandles DEF Isolation

-----------------------------------------------------------------------------
(* The handlers of the master *)

\* The file of p changes; handles may be made for it.
LEMMA FileChanges ==
  ASSUME Isolation, NEW c \in Client, proc[c].todo # <<>>, UNCHANGED disk,
         nextHandle' \in Nat, nextHandle <= nextHandle',
         NEW file, NEW more, Proceed(c, more),
         LET p == proc[c].cmd.path
         IN  \/ files' = Put(files, p, file)
             \/ p \in DOMAIN files /\ files' = [files EXCEPT ![p] = file],
         \A owner : Apart(owner) /\ nextHandle .. nextHandle' - 1
                                      \subseteq HandlesOf(owner, proc[c].cmd.path) =>
            /\ FileKeepsHandles(owner, proc[c].cmd.path, file)
            /\ more \in Seq(CallsOn(owner, proc[c].cmd.path))
  PROVE  Isolation'
  <1> DEFINE p == proc[c].cmd.path
  <1>1. PICK before \in [Handles -> Path] : Apart(before)
    BY DEF Isolation
  <1>2. p \in Path
    BY <1>1, Calling, DataStays DEF Apart
  <1>3. PICK owner \in [Handles' -> Path] :
            /\ Grows(before, owner)
            /\ nextHandle .. nextHandle' - 1 \subseteq HandlesOf(owner, p)
    BY <1>1, <1>2, ExtendGrows DEF Isolation, Handles
  <1>4. Apart(owner)
    BY <1>1, <1>3, ApartGrows
  <1>5. FileKeepsHandles(owner, p, file) /\ more \in Seq(CallsOn(owner, p))
    BY <1>3, <1>4
  <1>6. FilesKeepHandles(owner)' /\ DOMAIN files' \subseteq Path
    BY <1>2, <1>4, <1>5, FilesStep DEF Apart, Isolation
  <1>7. ProcessesKeepHandles(owner)' /\ DOMAIN proc' = Client
    BY <1>4, <1>5, ProceedStep DEF Apart, Isolation
  <1>8. DiskKeepsHandles(owner)'
    BY <1>4, SameDisk DEF Apart
  <1>9. Apart(owner)'
    BY <1>6, <1>7, <1>8 DEF Apart
  <1>10. nextHandle' \in Nat \ {0}
    BY DEF Isolation
  <1> QED
    BY <1>3, <1>6, <1>7, <1>9, <1>10 DEF Isolation

LEMMA CreateFileKeeps ==
  ASSUME Isolation, NEW c \in Client, CreateFile(c)
  PROVE  Isolation'
  <1>1. proc[c].todo # <<>>
    BY DEF CreateFile, OnFile, OnNoFile, Serves
  <1>2. CASE Reply(c)
    BY <1>1, <1>2, ReplyKeeps
  <1>3. CASE ~Reply(c)
    <2>1. PICK index \in Server :
            LET locations == ChooseChunkServerLocations(index)
            IN  /\ files' = Put(files, proc[c].cmd.path, AddChunk(NewFile, nextHandle, locations))
                /\ Proceed(c, ToEach(locations, "create", nextHandle, <<>>))
      BY <1>3 DEF CreateFile
    <2> DEFINE locations == ChooseChunkServerLocations(index)
    <2>2. locations \in Locations
      BY ChosenLocations
    <2>3. nextHandle' = nextHandle + 1 /\ UNCHANGED disk
      BY <1>3 DEF CreateFile
    <2>4. nextHandle \in Nat
      BY DEF Isolation
    <2> HIDE DEF locations
    <2> DEFINE p == proc[c].cmd.path
               file == AddChunk(NewFile, nextHandle, locations)
               more == ToEach(locations, "create", nextHandle, <<>>)
    <2>5. ASSUME NEW owner, nextHandle .. nextHandle' - 1 \subseteq HandlesOf(owner, p)
          PROVE  FileKeepsHandles(owner, p, file) /\ more \in Seq(CallsOn(owner, p))
      <3>1. nextHandle \in HandlesOf(owner, p)
        BY <2>3, <2>4, <2>5
      <3>2. <<>> \in Seq(Alphabet[p])
        BY EmptySeq
      <3> HIDE DEF p
      <3>3. FileKeepsHandles(owner, p, NewFile)
        BY NewFileKeeps
      <3>4. FileKeepsHandles(owner, p, file)
        BY <2>2, <3>1, <3>3, AddChunkKeeps
      <3>5. "create" \in ChunkCalls
        BY DEF ChunkCalls
      <3>6. more \in Seq(CallsOn(owner, p))
        BY <2>2, <3>1, <3>2, <3>5, EachIsOn
      <3> QED
        BY <3>4, <3>6
    <2>6. files' = Put(files, p, file) /\ Proceed(c, more)
      BY <2>1 DEF locations
    <2>7. nextHandle' \in Nat /\ nextHandle <= nextHandle'
      BY <2>3, <2>4
    <2> HIDE DEF file, more
    <2> QED
      BY <1>1, <2>3, <2>5, <2>6, <2>7, FileChanges
  <1> QED
    BY <1>2, <1>3

LEMMA ListFilesKeeps ==
  ASSUME Isolation, NEW c \in Client, ListFiles(c)
  PROVE  Isolation'
  BY ReplyKeeps DEF ListFiles, OnFile, OnNoFile, Serves

LEMMA DeleteFileKeeps ==
  ASSUME Isolation, NEW c \in Client, DeleteFile(c)
  PROVE  Isolation'
  <1>1. proc[c].todo # <<>>
    BY DEF DeleteFile, OnFile, OnNoFile, Serves
  <1>2. CASE Reply(c)
    BY <1>1, <1>2, ReplyKeeps
  <1>3. CASE ~Reply(c)
    <2>1. /\ files' = Without(files, {proc[c].cmd.path})
          /\ Proceed(c, <<>>)
          /\ UNCHANGED <<nextHandle, disk>>
      BY <1>3 DEF DeleteFile
    <2>2. PICK owner \in [Handles -> Path] : Apart(owner)
      BY DEF Isolation
    <2>3. ProcessesKeepHandles(owner)' /\ DOMAIN proc' = Client
      BY <1>1, <2>1, <2>2, ProceedStep, EmptySeq DEF Apart, Isolation
    <2>4. /\ DOMAIN files' \subseteq DOMAIN files
          /\ \A q \in DOMAIN files' : files'[q] = files[q]
      BY <2>1 DEF Without, Restrict
    <2>5. FilesKeepHandles(owner)'
      BY <2>2, <2>4 DEF Apart, FilesKeepHandles, FileKeepsHandles, HandlesOf
    <2>6. DiskKeepsHandles(owner)'
      BY <2>1, <2>2, SameDisk DEF Apart
    <2> QED
      BY <2>1, <2>2, <2>3, <2>4, <2>5, <2>6, SameHandles DEF Isolation
  <1> QED
    BY <1>2, <1>3

LEMMA CreateChunkKeeps ==
  ASSUME Isolation, NEW c \in Client, CreateChunk(c)
  PROVE  Isolation'
  <1> DEFINE p == proc[c].cmd.path
             call == Head(proc[c].todo)
  <1>1. proc[c].todo # <<>> /\ call.op = "createChunk"
    BY DEF CreateChunk, OnFile, OnNoFile, Serves
  <1>2. CASE Reply(c)
    BY <1>1, <1>2, ReplyKeeps
  <1>3. CASE ~Reply(c)
    <2>1. PICK index \in Server :
            LET locations == ChooseChunkServerLocations(index)
            IN  /\ files' = [files EXCEPT ![p] = AddChunk(@, call.handle, locations)]
                /\ Proceed(c, ToEach(locations, "append", call.handle, call.data))
      BY <1>3 DEF CreateChunk
    <2> DEFINE locations == ChooseChunkServerLocations(index)
               file == AddChunk(files[p], call.handle, locations)
               more == ToEach(locations, "append", call.handle, call.data)
    <2>2. locations \in Locations
      BY ChosenLocations
    <2>3. p \in DOMAIN files /\ UNCHANGED <<nextHandle, disk>>
      BY <1>3 DEF CreateChunk, OnFile
    <2>4. files' = [files EXCEPT ![p] = file] /\ Proceed(c, more)
      BY <2>1
    <2> HIDE DEF locations
    <2>5. ASSUME NEW owner, Apart(owner)
          PROVE  FileKeepsHandles(owner, p, file) /\ more \in Seq(CallsOn(owner, p))
      <3>1. call \in CallsOn(owner, p)
        BY <1>1, <2>5, Calling DEF Apart
      <3>2. call.handle \in HandlesOf(owner, p) /\ call.data \in Seq(Alphabet[p])
        BY <1>1, <3>1 DEF CallsOn, FirstCalls
      <3>3. FileKeepsHandles(owner, p, files[p])
        BY <2>3, <2>5 DEF Apart, FilesKeepHandles
      <3> HIDE DEF call, p
      <3>4. FileKeepsHandles(owner, p, file)
        BY <2>2, <3>2, <3>3, AddChunkKeeps
      <3>5. more \in Seq(CallsOn(owner, p))
        <4>1. "append" \in ChunkCalls
          BY DEF ChunkCalls
        <4> QED
          BY <2>2, <3>2, <4>1, EachIsOn
      <3> QED
        BY <3>4, <3>5
    <2>6. nextHandle' \in Nat /\ nextHandle <= nextHandle'
      BY <2>3 DEF Isolation
    <2> HIDE DEF file, more
    <2> QED
      BY <1>1, <2>3, <2>4, <2>5, <2>6, FileChanges
  <1> QED
    BY <1>2, <1>3

LEMMA Quotient ==
  ASSUME NEW r \in Nat \ {0}, NEW num \in Nat, NEW n \in 1 .. num * r
  PROVE  (n - 1) \div r \in 0 .. num - 1 /\ (n - 1) % r \in 0 .. r - 1
  <1> DEFINE q == (n - 1) \div r
             rest == (n - 1) % r
             all == num * r
  <1>1. all \in Nat
    OBVIOUS
  <1>2. n \in 1 .. all
    OBVIOUS
  <1> HIDE DEF all
  <1>3. n - 1 \in Nat /\ n - 1 < all
    BY <1>1, <1>2
  <1>4. q \in Nat /\ rest \in 0 .. r - 1 /\ n - 1 = r * q + rest
    BY <1>3
  <1> HIDE DEF q, rest
  <1>5. q < num
    <2> SUFFICES ASSUME ~(q < num) PROVE FALSE
      OBVIOUS
    <2> DEFINE k == q - num
    <2>1. k \in Nat /\ q = num + k
      BY <1>4
    <2> HIDE DEF k
    <2> DEFINE beyond == r * k
    <2>2. beyond \in Nat
      BY <2>1
    <2>3. r * q = all + beyond
      BY <2>1 DEF all
    <2> HIDE DEF beyond
    <2> QED
      BY <1>1, <1>3, <1>4, <2>2, <2>3
  <1> QED
    BY <1>4, <1>5 DEF q, rest

LEMMA WriteCallsAreOn ==
  ASSUME NEW owner, NEW p, NEW file, FileKeepsHandles(owner, p, file), NEW num \in Nat,
         \A i \in 1 .. num : file.handles[i] \in DOMAIN file.chunks,
         NEW data \in Seq(Alphabet[p])
  PROVE  WriteCalls(file, num, data) \in Seq(CallsOn(owner, p))
  <1> DEFINE i(n) == (n - 1) \div Replicas + 1
             h(n) == file.handles[i(n)]
             calls == CallsOn(owner, p)
             each(n) == ToEach(file.chunks[h(n)], "write", h(n), Piece(data, i(n)))
  <1>1. Replicas \in Nat \ {0} /\ num * Replicas \in Nat
    BY GfsAssumption DEF GfsAssumption
  <1>2. ASSUME NEW n \in 1 .. num * Replicas
        PROVE  each(n)[((n - 1) % Replicas) + 1] \in calls
    <2>1. (n - 1) \div Replicas \in 0 .. num - 1 /\ (n - 1) % Replicas \in 0 .. Replicas - 1
      BY <1>1, Quotient
    <2>2. i(n) \in 1 .. num /\ i(n) \in Nat \ {0}
      BY <2>1
    <2> HIDE DEF i
    <2>3. h(n) \in DOMAIN file.chunks
      BY <2>2
    <2> HIDE DEF h
    <2>4. h(n) \in HandlesOf(owner, p) /\ file.chunks[h(n)] \in Locations
      BY <2>3 DEF FileKeepsHandles
    <2>5. Piece(data, i(n)) \in Seq(Alphabet[p])
      BY <2>2, PieceStays
    <2>6. "write" \in ChunkCalls
      BY DEF ChunkCalls
    <2>7. each(n) \in [1 .. Replicas -> calls]
      BY <2>4, <2>5, <2>6, EachIsOn
    <2> HIDE DEF each, calls
    <2>8. ((n - 1) % Replicas) + 1 \in 1 .. Replicas
      BY <1>1, <2>1
    <2> QED
      BY <2>7, <2>8
  <1>3. WriteCalls(file, num, data) = [n \in 1 .. num * Replicas |-> each(n)[((n - 1) % Replicas) + 1]]
    BY DEF WriteCalls
  <1> HIDE DEF each, calls
  <1>4. WriteCalls(file, num, data) \in [1 .. num * Replicas -> calls]
    BY <1>2, <1>3
  <1> QED
    BY <1>1, <1>4, FunctionIsSeq DEF calls

LEMMA WriteFileKeeps ==
  ASSUME Isolation, NEW c \in Client, WriteFile(c)
  PROVE  Isolation'
  <1> DEFINE p == proc[c].cmd.path
             data == proc[c].cmd.data
             num == ChunkNum(Len(UpToBar(data)))
  <1>1. proc[c].todo # <<>>
    BY DEF WriteFile, OnFile, OnNoFile, Serves
  <1>2. CASE Reply(c)
    BY <1>1, <1>2, ReplyKeeps
  <1>3. CASE Panic(c)
    BY <1>1, <1>3, PanicKeeps
  <1>4. CASE ~Reply(c) /\ ~Panic(c)
    <2>1. PICK indexes \in [1 .. num - Len(files[p].handles) -> Server] :
            LET grown == GrowChunks(files[p], nextHandle, indexes)
            IN  /\ files' = [files EXCEPT ![p] = KeepChunks(grown, num)]
                /\ nextHandle' = nextHandle + Len(indexes)
                /\ Proceed(c, WriteCalls(grown, num, data))
      BY <1>4 DEF WriteFile
    <2> DEFINE grown == GrowChunks(files[p], nextHandle, indexes)
               file == KeepChunks(grown, num)
               more == WriteCalls(grown, num, data)
    <2>2. p \in DOMAIN files /\ HasChunks(files[p], num) /\ UNCHANGED disk
      BY <1>4 DEF WriteFile, OnFile
    <2>3. PICK before \in [Handles -> Path] : Apart(before)
      BY DEF Isolation
    <2>4. data \in Seq(Alphabet[p])
      BY <1>1, <2>3, Calling, DataStays DEF Apart
    <2>5. num \in Nat
      BY <2>4, UpToBarStays, LenProperties, ChunkNumIsNat
    <2>6. nextHandle \in Nat \ {0} /\ Len(indexes) \in Nat
      <3>1. files[p].handles \in Seq(HandlesOf(before, p))
        BY <2>2, <2>3 DEF Apart, FilesKeepHandles, FileKeepsHandles
      <3>2. Len(files[p].handles) \in Nat
        BY <3>1, LenProperties
      <3> HIDE DEF num, p
      <3>3. CASE num - Len(files[p].handles) \in Nat
        BY <3>3, FunctionIsSeq DEF Isolation
      <3>4. CASE num - Len(files[p].handles) \notin Nat
        <4>1. 1 .. num - Len(files[p].handles) = 1 .. 0
          BY <2>5, <3>2, <3>4
        <4>2. indexes \in [1 .. 0 -> Server]
          BY <4>1
        <4> QED
          BY <4>2, FunctionIsSeq DEF Isolation
      <3> QED
        BY <3>3, <3>4
    <2>7. nextHandle' = nextHandle + Len(indexes)
      BY <2>1
    <2>8. ASSUME NEW owner, Apart(owner),
                 nextHandle .. nextHandle' - 1 \subseteq HandlesOf(owner, p)
          PROVE  FileKeepsHandles(owner, p, file) /\ more \in Seq(CallsOn(owner, p))
      <3>1. FileKeepsHandles(owner, p, files[p])
        BY <2>2, <2>8 DEF Apart, FilesKeepHandles
      <3> HIDE DEF num, p, data
      <3>2. nextHandle .. nextHandle + Len(indexes) - 1 \subseteq HandlesOf(owner, p)
        <4>1. nextHandle' - 1 = nextHandle + Len(indexes) - 1
          BY <2>6, <2>7
        <4> QED
          BY <2>8, <4>1
      <3>3. /\ FileKeepsHandles(owner, p, grown)
            /\ num <= Len(grown.handles)
            /\ \A i \in 1 .. num : grown.handles[i] \in DOMAIN grown.chunks
        BY <2>2, <2>5, <2>6, <3>1, <3>2, GrowChunksKeeps
      <3> HIDE DEF grown
      <3>4. FileKeepsHandles(owner, p, file)
        BY <2>5, <3>3, KeepChunksKeeps
      <3>5. more \in Seq(CallsOn(owner, p))
        BY <2>4, <2>5, <3>3, WriteCallsAreOn
      <3> QED
        BY <3>4, <3>5
    <2>9. files' = [files EXCEPT ![p] = file] /\ Proceed(c, more)
      BY <2>1
    <2>10. nextHandle' \in Nat /\ nextHandle <= nextHandle'
      BY <2>6, <2>7
    <2> HIDE DEF file, more, grown, num, data
    <2> QED
      BY <1>1, <2>2, <2>8, <2>9, <2>10, FileChanges
  <1> QED
    BY <1>2, <1>3, <1>4

LEMMA ReadFileKeeps ==
  ASSUME Isolation, NEW c \in Client, ReadFile(c)
  PROVE  Isolation'
  <1> DEFINE p == proc[c].cmd.path
             f == files[p]
             more == [i \in DOMAIN f.handles |->
                        ToEach(f.chunks[f.handles[i]], "read", f.handles[i], <<>>)[1]]
  <1>1. proc[c].todo # <<>>
    BY DEF ReadFile, OnFile, OnNoFile, Serves
  <1>2. CASE Reply(c)
    BY <1>1, <1>2, ReplyKeeps
  <1>3. CASE Panic(c)
    BY <1>1, <1>3, PanicKeeps
  <1>4. CASE ~Reply(c) /\ ~Panic(c)
    <2>1. /\ p \in DOMAIN files /\ HasChunks(f, Len(f.handles))
          /\ Proceed(c, more)
          /\ UNCHANGED <<files, nextHandle, disk>>
      BY <1>4 DEF ReadFile, OnFile
    <2>2. ASSUME NEW owner, Apart(owner)
          PROVE  more \in Seq(CallsOn(owner, p))
      <3> DEFINE calls == CallsOn(owner, p)
      <3>1. FileKeepsHandles(owner, p, f)
        BY <2>1, <2>2 DEF Apart, FilesKeepHandles
      <3> HIDE DEF f, p
      <3>2. Len(f.handles) \in Nat /\ DOMAIN f.handles = 1 .. Len(f.handles)
        BY <3>1, LenProperties DEF FileKeepsHandles
      <3>3. ASSUME NEW i \in DOMAIN f.handles
            PROVE  ToEach(f.chunks[f.handles[i]], "read", f.handles[i], <<>>)[1] \in calls
        <4>1. f.handles[i] \in DOMAIN f.chunks
          BY <2>1, <3>2 DEF HasChunks
        <4>2. f.handles[i] \in HandlesOf(owner, p) /\ f.chunks[f.handles[i]] \in Locations
          BY <3>1, <4>1 DEF FileKeepsHandles
        <4>3. "read" \in ChunkCalls /\ <<>> \in Seq(Alphabet[p])
          BY EmptySeq DEF ChunkCalls
        <4>4. ToEach(f.chunks[f.handles[i]], "read", f.handles[i], <<>>) \in [1 .. Replicas -> calls]
          BY <4>2, <4>3, EachIsOn
        <4> HIDE DEF calls
        <4> QED
          BY <4>4, GfsAssumption DEF GfsAssumption
      <3> HIDE DEF calls
      <3>4. more \in [1 .. Len(f.handles) -> calls]
        BY <3>2, <3>3
      <3> HIDE DEF more
      <3> QED
        BY <3>2, <3>4, FunctionIsSeq DEF calls
    <2> HIDE DEF more
    <2> QED
      BY <1>1, <2>1, <2>2, ProceedOnly
  <1> QED
    BY <1>2, <1>3, <1>4

LEMMA AppendFileKeeps ==
  ASSUME Isolation, NEW c \in Client, AppendFile(c)
  PROVE  Isolation'
  <1> DEFINE p == proc[c].cmd.path
             f == files[p]
             h == GetLatestChunkHandle(f)
             data == proc[c].cmd.data
             space == ToEach(f.chunks[h], "space", h, <<>>)[1]
             appends == ToEach(f.chunks[h], "append", h, data)
             more == <<space>> \o appends
  <1>1. proc[c].todo # <<>>
    BY DEF AppendFile, OnFile, OnNoFile, Serves
  <1>2. CASE Reply(c)
    BY <1>1, <1>2, ReplyKeeps
  <1>3. CASE Panic(c)
    BY <1>1, <1>3, PanicKeeps
  <1>4. CASE ~Reply(c) /\ ~Panic(c)
    <2>1. /\ p \in DOMAIN files /\ h \in DOMAIN f.chunks
          /\ Proceed(c, more)
          /\ UNCHANGED <<files, nextHandle, disk>>
      BY <1>4 DEF AppendFile, OnFile
    <2>2. ASSUME NEW owner, Apart(owner)
          PROVE  more \in Seq(CallsOn(owner, p))
      <3> DEFINE calls == CallsOn(owner, p)
      <3>1. FileKeepsHandles(owner, p, f)
        BY <2>1, <2>2 DEF Apart, FilesKeepHandles
      <3>2. data \in Seq(Alphabet[p])
        BY <1>1, <2>2, Calling, DataStays DEF Apart
      <3> HIDE DEF h, f, p, data
      <3>3. h \in HandlesOf(owner, p) /\ f.chunks[h] \in Locations
        BY <2>1, <3>1 DEF FileKeepsHandles
      <3>4. {"space", "append"} \subseteq ChunkCalls /\ <<>> \in Seq(Alphabet[p])
        BY EmptySeq DEF ChunkCalls
      <3>5. ToEach(f.chunks[h], "space", h, <<>>) \in [1 .. Replicas -> calls]
        BY <3>3, <3>4, EachIsOn
      <3>6. appends \in Seq(calls)
        BY <3>2, <3>3, <3>4, EachIsOn
      <3> HIDE DEF calls, appends
      <3>7. space \in calls
        BY <3>5, GfsAssumption DEF GfsAssumption
      <3> HIDE DEF space
      <3>8. <<space>> \in Seq(calls)
        BY <3>7
      <3>9. more \in Seq(calls)
        BY <3>6, <3>8, ConcatProperties
      <3> QED
        BY <3>9 DEF calls
    <2> HIDE DEF more
    <2> QED
      BY <1>1, <2>1, <2>2, ProceedOnly
  <1> QED
    BY <1>2, <1>3, <1>4

-----------------------------------------------------------------------------
(* The handlers of a chunk server *)

LEMMA Served ==
  ASSUME NEW owner, Apart(owner), NEW c \in Client, NEW s \in Server, NEW op, Serves(c, s, op)
  PROVE  LET p == proc[c].cmd.path
             call == Head(proc[c].todo)
         IN  /\ call.handle \in HandlesOf(owner, p)
             /\ call.data \in Seq(Alphabet[p])
             /\ call.handle \in DOMAIN disk[s] => Contents(c, s) \in Seq(Alphabet[p])
  <1> DEFINE p == proc[c].cmd.path
             call == Head(proc[c].todo)
  <1>1. call \in CallsOn(owner, p) /\ call.to \in Server
    BY Calling DEF Apart, Serves
  <1>2. call.to # Master
    BY <1>1, GfsAssumption DEF GfsAssumption, Server, Master
  <1> HIDE DEF p, call
  <1>3. call.handle \in HandlesOf(owner, p) /\ call.data \in Seq(Alphabet[p])
    BY <1>1, <1>2 DEF CallsOn
  <1>4. call.handle \in DOMAIN disk[s] => disk[s][call.handle] \in Seq(Alphabet[p])
    BY <1>3 DEF Apart, DiskKeepsHandles, HandlesOf
  <1> QED
    BY <1>3, <1>4 DEF Contents, p, call

LEMMA StoreKeeps ==
  ASSUME Isolation, NEW c \in Client, NEW s \in Server, NEW op, Serves(c, s, op),
         NEW contents, Store(c, s, contents),
         \A owner : Apart(owner) => contents \in Seq(Alphabet[proc[c].cmd.path])
  PROVE  Isolation'
  <1> DEFINE p == proc[c].cmd.path
             h == Head(proc[c].todo).handle
  <1>1. PICK owner \in [Handles -> Path] : Apart(owner)
    BY DEF Isolation
  <1>2. h \in HandlesOf(owner, p) /\ contents \in Seq(Alphabet[p])
    BY <1>1, Served
  <1>3. /\ disk' = [disk EXCEPT ![s] = Put(disk[s], h, contents)]
        /\ Proceed(c, <<>>) /\ UNCHANGED <<files, nextHandle>>
    BY DEF Store
  <1>4. ProcessesKeepHandles(owner)' /\ DOMAIN proc' = Client
    BY <1>1, <1>3, ProceedStep, EmptySeq DEF Apart, Isolation, Serves
  <1>5. FilesKeepHandles(owner)'
    BY <1>1, <1>3, SameFiles DEF Apart
  <1> HIDE DEF p, h
  <1>6. DOMAIN disk' = Server /\ DiskKeepsHandles(owner)'
    <2>1. DOMAIN disk = Server /\ DiskKeepsHandles(owner)
      BY <1>1 DEF Apart, Isolation
    <2>2. DOMAIN disk' = Server
      BY <1>3, <2>1
    <2>3. ASSUME NEW t \in Server, NEW k \in DOMAIN disk'[t]
          PROVE  k \in DOMAIN owner /\ disk'[t][k] \in Seq(Alphabet[owner[k]])
      <3>1. CASE t = s /\ k = h
        BY <1>2, <1>3, <2>1, <3>1 DEF Put, HandlesOf
      <3>2. CASE ~(t = s /\ k = h)
        <4>1. k \in DOMAIN disk[t] /\ disk'[t][k] = disk[t][k]
          BY <1>3, <2>1, <2>3, <3>2 DEF Put
        <4> QED
          BY <2>1, <4>1 DEF DiskKeepsHandles
      <3> QED
        BY <3>1, <3>2
    <2> QED
      BY <2>2, <2>3 DEF DiskKeepsHandles
  <1> QED
    BY <1>1, <1>3, <1>4, <1>5, <1>6, SameHandles DEF Isolation

LEMMA CreateKeeps ==
  ASSUME Isolation, NEW c \in Client, NEW s \in Server, Create(c, s)
  PROVE  Isolation'
  <1> DEFINE contents == IF OnChunk(c, s, "create") THEN Contents(c, s) ELSE <<>>
  <1>1. Serves(c, s, "create") /\ Store(c, s, contents)
    BY DEF Create
  <1>2. ASSUME NEW owner, Apart(owner)
        PROVE  contents \in Seq(Alphabet[proc[c].cmd.path])
    BY <1>1, <1>2, Served, EmptySeq DEF OnChunk
  <1> HIDE DEF contents
  <1> QED
    BY <1>1, <1>2, StoreKeeps

LEMMA OverwriteStays ==
  ASSUME NEW S, NEW old \in Seq(S), NEW new \in Seq(S)
  PROVE  Overwrite(old, new) \in Seq(S)
  <1> DEFINE rest == SubSeq(old, Len(new) + 1, Len(old))
  <1>1. Len(new) + 1 \in Nat \ {0} /\ Len(old) \in Nat
    BY LenProperties
  <1>2. rest \in Seq(S)
    BY <1>1, SubSeqStays
  <1> HIDE DEF rest
  <1>3. new \o rest \in Seq(S)
    BY <1>2, ConcatProperties
  <1> QED
    BY <1>3 DEF Overwrite, rest

LEMMA WriteKeeps ==
  ASSUME Isolation, NEW c \in Client, NEW s \in Server, Write(c, s)
  PROVE  Isolation'
  <1> DEFINE contents == Overwrite(Contents(c, s), UpToBar(Head(proc[c].todo).data))
  <1>1. CASE OnNoChunk(c, s, "write") /\ Reply(c)
    BY <1>1, ReplyKeeps DEF OnNoChunk, Serves
  <1>2. CASE OnChunk(c, s, "write") /\ Store(c, s, contents)
    <2>1. Serves(c, s, "write") /\ Store(c, s, contents)
      BY <1>2 DEF OnChunk
    <2>2. ASSUME NEW owner, Apart(owner)
          PROVE  contents \in Seq(Alphabet[proc[c].cmd.path])
      <3>1. /\ Contents(c, s) \in Seq(Alphabet[proc[c].cmd.path])
            /\ Head(proc[c].todo).data \in Seq(Alphabet[proc[c].cmd.path])
        BY <1>2, <2>1, <2>2, Served DEF OnChunk
      <3> QED
        BY <3>1, UpToBarStays, OverwriteStays
    <2> HIDE DEF contents
    <2> QED
      BY <2>1, <2>2, StoreKeeps
  <1> QED
    BY <1>1, <1>2 DEF Write

LEMMA AppendToKeeps ==
  ASSUME Isolation, NEW c \in Client, NEW s \in Server, AppendTo(c, s)
  PROVE  Isolation'
  <1> DEFINE contents == Contents(c, s) \o UpToBar(Head(proc[c].todo).data)
  <1>1. CASE OnNoChunk(c, s, "append") /\ Reply(c)
    BY <1>1, ReplyKeeps DEF OnNoChunk, Serves
  <1>2. CASE OnChunk(c, s, "append") /\ Store(c, s, contents)
    <2>1. Serves(c, s, "append") /\ Store(c, s, contents)
      BY <1>2 DEF OnChunk
    <2>2. ASSUME NEW owner, Apart(owner)
          PROVE  contents \in Seq(Alphabet[proc[c].cmd.path])
      <3>1. /\ Contents(c, s) \in Seq(Alphabet[proc[c].cmd.path])
            /\ Head(proc[c].todo).data \in Seq(Alphabet[proc[c].cmd.path])
        BY <1>2, <2>1, <2>2, Served DEF OnChunk
      <3> QED
        BY <3>1, UpToBarStays, ConcatProperties
    <2> HIDE DEF contents
    <2> QED
      BY <2>1, <2>2, StoreKeeps
  <1> QED
    BY <1>1, <1>2 DEF AppendTo

LEMMA ReadKeeps ==
  ASSUME Isolation, NEW c \in Client, NEW s \in Server, Read(c, s)
  PROVE  Isolation'
  <1> DEFINE p == proc[c].cmd.path
             text == Alphabet[p] \cup {ErrorText}
             gone == proc[c].state = "gone"
             part == IF OnChunk(c, s, "read") THEN Contents(c, s) ELSE <<ErrorText>>
             todo == IF gone THEN <<>> ELSE Tail(proc[c].todo)
             got == IF gone THEN proc[c].got ELSE proc[c].got \o part
             new == [proc[c] EXCEPT !.todo = todo, !.got = got]
  <1>1. Serves(c, s, "read") /\ proc' = [proc EXCEPT ![c] = new] /\ UNCHANGED <<files, nextHandle, disk>>
    BY DEF Read
  <1>2. ASSUME NEW owner, Apart(owner)
        PROVE  \E cmd \in Command : new \in ProcessOf(owner, cmd)
    <2>1. /\ proc[c].cmd \in Command
          /\ proc[c] \in ProcessOf(owner, proc[c].cmd)
          /\ Tail(proc[c].todo) \in Seq(CallsOn(owner, p))
      BY <1>1, <1>2, Calling DEF Apart, Serves
    <2>2. todo \in Seq(CallsOn(owner, p))
      BY <2>1, EmptySeq
    <2>3. part \in Seq(text)
      <3>1. OnChunk(c, s, "read") => Contents(c, s) \in Seq(Alphabet[p])
        BY <1>1, <1>2, Served DEF OnChunk
      <3>2. \A t \in Seq(Alphabet[p]) : t \in Seq(text)
        BY SeqMonotonic
      <3>3. <<ErrorText>> \in Seq(text)
        OBVIOUS
      <3> QED
        BY <3>1, <3>2, <3>3
    <2>4. proc[c].got \in Seq(text)
      BY <2>1 DEF ProcessOf
    <2> HIDE DEF part, text
    <2>5. got \in Seq(text)
      BY <2>3, <2>4, ConcatProperties
    <2> HIDE DEF todo, got
    <2>6. new \in ProcessOf(owner, proc[c].cmd)
      BY <2>1, <2>2, <2>5 DEF ProcessOf, text
    <2> QED
      BY <2>1, <2>6
  <1> HIDE DEF new
  <1> QED
    BY <1>1, <1>2, ProcessOnly

LEMMA SpillIsOn ==
  ASSUME NEW owner, NEW p, NEW h \in HandlesOf(owner, p), NEW rest \in Seq(Alphabet[p])
  PROVE  Spill(rest, h) \in Seq(CallsOn(owner, p))
  <1> DEFINE calls == CallsOn(owner, p)
             num == ChunkNum(Len(rest))
  <1>1. num \in Nat
    BY LenProperties, ChunkNumIsNat
  <1> HIDE DEF num
  <1>2. ASSUME NEW i \in 1 .. num
        PROVE  ToMaster("createChunk", h, Piece(rest, i)) \in calls
    <2>1. Piece(rest, i) \in Seq(Alphabet[p])
      BY <1>1, PieceStays
    <2>2. "createChunk" \in ChunkCalls
      BY DEF ChunkCalls
    <2> QED
      BY <2>1, <2>2, CallIsOn DEF ToMaster
  <1> HIDE DEF calls
  <1>3. Spill(rest, h) \in [1 .. num -> calls]
    BY <1>2 DEF Spill, num
  <1> QED
    BY <1>1, <1>3, FunctionIsSeq DEF calls

LEMMA CutsStay ==
  ASSUME NEW S, NEW data \in Seq(S), NEW room \in Nat, room <= Len(data)
  PROVE  SubSeq(data, 1, room) \in Seq(S) /\ SubSeq(data, room + 1, Len(data)) \in Seq(S)
  <1>1. Len(data) \in Nat /\ room + 1 \in Nat \ {0}
    BY LenProperties
  <1> QED
    BY <1>1, SubSeqStays

LEMMA GetChunkSpaceKeeps ==
  ASSUME Isolation, NEW c \in Client, NEW s \in Server, GetChunkSpace(c, s)
  PROVE  Isolation'
  <1> DEFINE p == proc[c].cmd.path
             data == proc[c].cmd.data
             h == Head(proc[c].todo).handle
             room == GFSChunkSize - Len(Contents(c, s))
             appends == Tail(proc[c].todo)
             fitting == SubSeq(data, 1, room)
             filling == [i \in DOMAIN appends |-> [appends[i] EXCEPT !.data = fitting]]
             spilling == Spill(SubSeq(data, room + 1, Len(data)), h)
             todo == IF OnNoChunk(c, s, "space") THEN <<>>
                     ELSE IF Len(data) <= room THEN appends
                     ELSE IF room < 0 THEN <<>>
                     ELSE filling \o spilling
             left == IF proc[c].state = "gone" THEN <<>> ELSE todo
             new == [proc[c] EXCEPT !.todo = left]
  <1>1. Serves(c, s, "space") /\ UNCHANGED <<files, nextHandle, disk>>
    BY DEF GetChunkSpace
  <1>2. proc' = [proc EXCEPT ![c] = new]
    BY DEF GetChunkSpace
  <1>3. ASSUME NEW owner, Apart(owner)
        PROVE  \E cmd \in Command : new \in ProcessOf(owner, cmd)
    <2> DEFINE calls == CallsOn(owner, p)
    <2>1. /\ proc[c].cmd \in Command
          /\ proc[c] \in ProcessOf(owner, proc[c].cmd)
          /\ appends \in Seq(calls)
      BY <1>1, <1>3, Calling DEF Apart, Serves
    <2>2. data \in Seq(Alphabet[p])
      BY <2>1, DataStays
    <2>3. /\ h \in HandlesOf(owner, p)
          /\ ~OnNoChunk(c, s, "space") => Contents(c, s) \in Seq(Alphabet[p])
      BY <1>1, <1>3, Served DEF OnNoChunk
    <2>4. CASE OnNoChunk(c, s, "space") \/ Len(data) <= room \/ room < 0
      <3>1. todo = <<>> \/ todo = appends
        BY <2>4
      <3> HIDE DEF p, appends, calls, todo, left, new
      <3>2. left \in Seq(calls)
        BY <2>1, <3>1, EmptySeq DEF left
      <3> QED
        BY <2>1, <3>2 DEF ProcessOf, calls, p, new
    <2>5. CASE ~OnNoChunk(c, s, "space") /\ ~(Len(data) <= room) /\ ~(room < 0)
      <3>1. Len(Contents(c, s)) \in Nat /\ Len(data) \in Nat
        BY <2>2, <2>3, <2>5, LenProperties
      <3>2. room \in Nat /\ room <= Len(data)
        BY <2>5, <3>1, GfsAssumption DEF GfsAssumption
      <3>3. todo = filling \o spilling
        BY <2>5
      <3> HIDE DEF p, data, h, room, appends, calls, todo, left, new
      <3>4. fitting \in Seq(Alphabet[p]) /\ SubSeq(data, room + 1, Len(data)) \in Seq(Alphabet[p])
        BY <2>2, <3>2, CutsStay
      <3>5. filling \in Seq(calls)
        <4> HIDE DEF fitting
        <4>1. Len(appends) \in Nat /\ DOMAIN appends = 1 .. Len(appends)
          BY <2>1, LenProperties
        <4>2. ASSUME NEW i \in DOMAIN appends
              PROVE  [appends[i] EXCEPT !.data = fitting] \in calls
          <5>1. appends[i] \in calls
            BY <2>1, <4>1, ElementOfSeq
          <5> QED
            BY <3>4, <5>1 DEF calls, CallsOn
        <4>3. filling \in [1 .. Len(appends) -> calls]
          BY <4>1, <4>2
        <4> HIDE DEF filling
        <4> QED
          BY <4>1, <4>3, FunctionIsSeq
      <3>6. spilling \in Seq(calls)
        BY <2>3, <3>4, SpillIsOn DEF calls
      <3> HIDE DEF filling, spilling
      <3>7. filling \o spilling \in Seq(calls)
        BY <3>5, <3>6, ConcatProperties
      <3>8. left \in Seq(calls)
        BY <3>3, <3>7, EmptySeq DEF left
      <3> QED
        BY <2>1, <3>8 DEF ProcessOf, calls, p, new
    <2> QED
      BY <2>4, <2>5
  <1> HIDE DEF new
  <1> QED
    BY <1>1, <1>2, <1>3, ProcessOnly

-----------------------------------------------------------------------------
(* The theorems *)

LEMMA InitIsolation == Init => Isolation
  <1> SUFFICES ASSUME Init PROVE Isolation
    OBVIOUS
  <1>1. nextHandle = 1 /\ DOMAIN files = {} /\ DOMAIN disk = Server /\ DOMAIN proc = Client
    BY DEF Init, EmptyMap
  <1> DEFINE owner == [h \in Handles |-> CHOOSE p \in Path : TRUE]
  <1>2. owner \in [Handles -> Path]
    BY <1>1 DEF Handles
  <1>3. Apart(owner)
    BY DEF Init, EmptyMap, Apart, FilesKeepHandles, ProcessesKeepHandles, DiskKeepsHandles
  <1> QED
    BY <1>1, <1>2, <1>3 DEF Isolation

LEMMA StutterKeeps == Isolation /\ UNCHANGED vars => Isolation'
  <1> SUFFICES ASSUME Isolation, UNCHANGED vars PROVE Isolation'
    OBVIOUS
  <1>1. PICK owner \in [Handles -> Path] : Apart(owner)
    BY DEF Isolation
  <1>2. FilesKeepHandles(owner)' /\ DiskKeepsHandles(owner)'
    BY <1>1, SameFiles, SameDisk DEF Apart, vars
  <1>3. ProcessesKeepHandles(owner)'
    BY <1>1 DEF Apart, vars, ProcessesKeepHandles, ProcessOf, CallsOn, HandlesOf, NoProcess, NoCommand
  <1> QED
    BY <1>1, <1>2, <1>3, SameHandles DEF Isolation, vars

LEMMA NextKeeps == Isolation /\ [Next]_vars => Isolation'
  <1> SUFFICES ASSUME Isolation, [Next]_vars PROVE Isolation'
    OBVIOUS
  <1>1. CASE UNCHANGED vars
    BY <1>1, StutterKeeps
  <1>2. CASE RestartMaster
    BY <1>2, RestartKeeps
  <1>3. ASSUME NEW c \in Client, NEW cmd \in Command, Start(c, cmd)
        PROVE  Isolation'
    BY <1>3, StartKeeps
  <1>4. ASSUME NEW c \in Client, MasterStep(c)
        PROVE  Isolation'
    BY <1>4, CreateFileKeeps, ListFilesKeeps, WriteFileKeeps, ReadFileKeeps, AppendFileKeeps,
       CreateChunkKeeps, DeleteFileKeeps DEF MasterStep
  <1>5. ASSUME NEW c \in Client, NEW s \in Server, ChunkServerStep(c, s)
        PROVE  Isolation'
    BY <1>5, CreateKeeps, WriteKeeps, AppendToKeeps, ReadKeeps, GetChunkSpaceKeeps
       DEF ChunkServerStep
  <1>6. ASSUME NEW c \in Client, Step(c)
        PROVE  Isolation'
    BY <1>4, <1>5, <1>6, EndKeeps, GiveUpKeeps DEF Step
  <1> QED
    BY <1>1, <1>2, <1>3, <1>6 DEF Next

\* Each handle belongs to one file for good: the files, the processes and the
\* disks hold, under a handle, only what belongs to the file of that handle.
THEOREM IsolationInvariant == Spec => []Isolation
  <1> QED
    BY InitIsolation, NextKeeps, PTL DEF Spec

\* The bytes that a client gets are bytes that users put into the file it
\* reads, or the message of a chunk server: CreateChunk's handle of the
\* caller's choice, late calls and recycled paths never mix two files.
THEOREM FilesStayApart == Spec => []ReadsOwnData
  <1>1. Isolation => ReadsOwnData
    <2> SUFFICES ASSUME Isolation, NEW c \in Client, proc[c].state # "idle"
                 PROVE  proc[c].got \in Seq(Alphabet[proc[c].cmd.path] \cup {ErrorText})
      BY DEF ReadsOwnData
    <2>1. PICK owner \in [Handles -> Path] : Apart(owner)
      BY DEF Isolation
    <2>2. proc[c] \in ProcessOf(owner, proc[c].cmd)
      BY <2>1, Running DEF Apart
    <2> QED
      BY <2>2 DEF ProcessOf
  <1> QED
    BY <1>1, IsolationInvariant, PTL

=============================================================================
