------------------------- MODULE GfsServiceProofs -------------------------
(***************************************************************************)
(* GeekGFS implements FileService: for any number of clients, servers,     *)
(* replicas, files and commands that fit into a chunk.                     *)
(***************************************************************************)
EXTENDS GfsRefinement, FiniteSetTheorems, SequenceTheorems, TLAPS

(* The invariant *)

Op(c) == proc[c].cmd.op
PathOf(c) == proc[c].cmd.path
Todo(c) == proc[c].todo
DataOps == {"write", "append", "read"}
FirstCall(op) == ToMaster(op, 0, <<>>)

\* No server has a chunk twice.
Places == {loc \in Locations : \A i, j \in 1 .. Replicas : loc[i] = loc[j] => i = j}

Calls == [to : Server \cup {Master},
          op : {"create", "list", "write", "read", "append", "delete", "space"},
          handle : Nat, data : Seq(Byte)]
Processes == [state : {"idle", "running", "gone"}, cmd : Command \cup {NoCommand},
              todo : Seq(Calls), got : Seq(Byte \cup {ErrorText})]

\* Every file is one chunk, as it was created.
ServiceTyped ==
    /\ masterUp = TRUE /\ nextHandle \in Nat \ {0} /\ commands \in 0 .. MaxCommands
    /\ DOMAIN files \subseteq Path /\ files = [p \in DOMAIN files |-> files[p]]
    /\ \A p \in DOMAIN files : \E h \in 1 .. nextHandle - 1, loc \in Places :
            files[p] = AddChunk(NewFile, h, loc)
    /\ disk = [s \in Server |-> disk[s]]
    /\ \A s \in Server :
        disk[s] \in [DOMAIN disk[s] -> Seq(Byte)] /\ DOMAIN disk[s] \subseteq 1 .. nextHandle - 1
    /\ proc \in [Client -> Processes]
    /\ worked \in [Client -> BOOLEAN] /\ excused \in [Client -> BOOLEAN]
    /\ \A c \in Client :
        IF proc[c].state = "idle"
        THEN proc[c] = NoProcess /\ ~worked[c] /\ ~excused[c]
        ELSE proc[c].cmd \in Command

HandleOf(p) == files[p].handles[1]

\* How far a command is: it asks the master, or has made the calls to the first
\* k servers of its chunk.  Reading asks the first server only.
Carried(cmd) == IF cmd.op \in {"write", "append"} THEN cmd.data ELSE <<>>
Width(op) == IF op = "read" THEN 1 ELSE Replicas
Follows(calls, cmd, h, loc, k) ==
    /\ k + Len(calls) <= Width(cmd.op)
    /\ \A i \in DOMAIN calls :
         calls[i] = [to |-> loc[k + i], op |-> cmd.op, handle |-> h, data |-> Carried(cmd)]

Asking(c) == Todo(c) = << FirstCall(Op(c)) >> /\ ~worked[c] /\ proc[c].got = <<>>

AsksSpace(c, h, loc) ==
    /\ Op(c) = "append"
    /\ Head(Todo(c)) = [to |-> loc[1], op |-> "space", handle |-> h, data |-> <<>>]
    /\ Follows(Tail(Todo(c)), proc[c].cmd, h, loc, 0)
    /\ proc[c].state = "running" => Tail(Todo(c)) # <<>>

AtChunk(c, h, loc, k) ==
    /\ Todo(c) # <<>> /\ Op(c) \in {"create", "write", "append", "read"}
    /\ \/ Follows(Todo(c), proc[c].cmd, h, loc, k)
       \/ k = 0 /\ AsksSpace(c, h, loc)
    /\ worked[c] <=> Op(c) = "create" \/ k > 0
    /\ Op(c) = "read" => proc[c].got = <<>>
    /\ \A p \in DOMAIN files : HandleOf(p) = h => files[p] = AddChunk(NewFile, h, loc)
    /\ Op(c) \in DataOps /\ ~excused[c] => PathOf(c) \in DOMAIN files /\ HandleOf(PathOf(c)) = h

Staged(c) ==
    \/ Todo(c) = <<>>
    \/ Asking(c)
    \/ \E h \in 1 .. nextHandle - 1, loc \in Places, k \in 0 .. Replicas : AtChunk(c, h, loc, k)

\* Who is excused, and who is not.
Excusable(c) ==
    /\ excused[c] => Op(c) \in DataOps
    /\ Op(c) \in DataOps /\ ~excused[c] => PathOf(c) \in DOMAIN files /\ HasFirstChunk(PathOf(c))
    /\ proc[c].state = "running" /\ Todo(c) = <<>> => worked[c] \/ excused[c]

\* A handle is that of one file, also in calls that are late.
CallsFor(c, h) == \E i \in DOMAIN Todo(c) : Todo(c)[i].to # Master /\ Todo(c)[i].handle = h
Belongs(h, p) ==
    \/ p \in DOMAIN files /\ HandleOf(p) = h
    \/ \E c \in Client : CallsFor(c, h) /\ PathOf(c) = p
OneFile == \A h \in Nat : \A p, q \in Path : Belongs(h, p) /\ Belongs(h, q) => p = q

\* The appends that have not reached s.
Pending(s) ==
    {c \in Client : /\ Op(c) = "append"
                    /\ \E i \in DOMAIN Todo(c) : \/ Todo(c)[i].op = "space"
                                                 \/ Todo(c)[i].to \in {Master, s}}
Active == {c \in Client : proc[c].state # "idle"}

\* What is in a chunk and what may still come fits.
Fits(p, contents, s) ==
    \A cmd \in Command : cmd.path = p =>
        /\ cmd.op = "write" => Len(contents) <= Len(cmd.data)
        /\ cmd.op = "append" =>
             (MaxCommands - 1) * Len(contents) + GFSChunkSize * Cardinality(Pending(s))
               <= GFSChunkSize * (commands - 1)
ChunksFit ==
    /\ IsFiniteSet(Active) /\ Cardinality(Active) <= commands
    /\ \A h \in Nat, p \in Path, s \in Server :
         Belongs(h, p) /\ h \in DOMAIN disk[s] => Fits(p, disk[s][h], s)

ServiceInv ==
    /\ ServiceTyped
    /\ \A c \in Client : proc[c].state # "idle" => Staged(c) /\ Excusable(c)
    /\ OneFile
    /\ ChunksFit

-----------------------------------------------------------------------------
(* Chunks and files *)

LEMMA RemainderApart ==
  ASSUME NEW n \in Nat \ {0}, NEW x \in 0 .. 2 * n - 1
  PROVE  x % n = IF x < n THEN x ELSE x - n
<1>1. /\ x \div n \in Int /\ n * (x \div n) <= x /\ x < n * (x \div n) + n
      /\ x % n = x - n * (x \div n)
  OBVIOUS
<1>2. PICK k \in Int : k = x \div n
  BY <1>1
<1>3. CASE k <= -1
  <2>1. n * k <= -n
    BY <1>3
  <2> QED
    BY <1>1, <1>2, <2>1
<1>4. CASE k >= 2
  <2>1. n * k >= n * 2
    BY <1>4
  <2> QED
    BY <1>1, <1>2, <2>1
<1>5. CASE k = 0
  BY <1>1, <1>2, <1>5
<1>6. CASE k = 1
  BY <1>1, <1>2, <1>6
<1> QED
  BY <1>3, <1>4, <1>5, <1>6

LEMMA ChosenPlaces ==
  ASSUME NEW index \in Server
  PROVE  ChooseChunkServerLocations(index) \in Places
<1> DEFINE loc == ChooseChunkServerLocations(index)
<1>1. NumServers \in Nat \ {0} /\ Replicas \in Nat /\ Replicas <= NumServers
      /\ index \in 0 .. NumServers - 1
  BY GfsAssumption DEF GfsAssumption, Server
<1>2. \A i \in 1 .. Replicas :
        /\ index + i - 1 \in 0 .. 2 * NumServers - 1
        /\ loc[i] = IF index + i - 1 < NumServers THEN index + i - 1
                    ELSE index + i - 1 - NumServers
  <2> SUFFICES ASSUME NEW i \in 1 .. Replicas
               PROVE  /\ index + i - 1 \in 0 .. 2 * NumServers - 1
                      /\ loc[i] = IF index + i - 1 < NumServers THEN index + i - 1
                                  ELSE index + i - 1 - NumServers
    OBVIOUS
  <2>1. PICK x : x = index + i - 1
    OBVIOUS
  <2>2. x \in 0 .. 2 * NumServers - 1
    BY <1>1, <2>1
  <2>3. x % NumServers = IF x < NumServers THEN x ELSE x - NumServers
    BY <1>1, <2>2, RemainderApart
  <2>4. loc[i] = x % NumServers
    BY <2>1 DEF ChooseChunkServerLocations
  <2> HIDE DEF loc
  <2> QED
    BY <1>1, <2>1, <2>2, <2>3, <2>4
<1>3. loc \in Locations
  <2>1. loc = [i \in 1 .. Replicas |-> loc[i]]
    BY DEF ChooseChunkServerLocations
  <2>2. \A i \in 1 .. Replicas : loc[i] \in Server
    BY <1>1, <1>2 DEF Server
  <2> HIDE DEF loc
  <2> QED
    BY <2>1, <2>2 DEF Locations
<1>4. \A i, j \in 1 .. Replicas : loc[i] = loc[j] => i = j
  <2> HIDE DEF loc
  <2> QED
    BY <1>1, <1>2
<1> QED
  BY <1>3, <1>4 DEF Places

LEMMA OneChunkIs ==
  ASSUME NEW h, NEW loc, NEW f, f = AddChunk(NewFile, h, loc)
  PROVE  /\ f.handles = << h >> /\ f.handles[1] = h /\ Len(f.handles) = 1
         /\ DOMAIN f.chunks = {h} /\ f.chunks[h] = loc
<1>1. NewFile.handles = <<>> /\ DOMAIN NewFile.chunks = {}
  BY DEF NewFile, EmptyMap
<1>2. Append(<<>>, h) = << h >>
  OBVIOUS
<1> QED
  BY <1>1, <1>2 DEF AddChunk, Put

\* What a file is, by its handle and where its chunk is.
LEMMA FileIs ==
  ASSUME ServiceTyped, NEW p \in DOMAIN files
  PROVE  /\ HandleOf(p) \in 1 .. nextHandle - 1
         /\ \E loc \in Places :
              /\ files[p] = AddChunk(NewFile, HandleOf(p), loc)
              /\ files[p].chunks[HandleOf(p)] = loc
<1>1. PICK h \in 1 .. nextHandle - 1, loc \in Places : files[p] = AddChunk(NewFile, h, loc)
  BY DEF ServiceTyped
<1>2. HandleOf(p) = h /\ files[p].chunks[h] = loc
  BY <1>1, OneChunkIs DEF HandleOf
<1> QED
  BY <1>1, <1>2

LEMMA PlaceIs ==
  ASSUME NEW loc \in Places
  PROVE  /\ \A i \in 1 .. Replicas : loc[i] \in Server
         /\ \A i, j \in 1 .. Replicas : loc[i] = loc[j] => i = j
         /\ 1 \in 1 .. Replicas /\ Replicas \in Nat
         /\ Master \notin Server
  BY GfsAssumption DEF Places, Locations, GfsAssumption, Server, Master

LEMMA FlattenOne ==
  ASSUME NEW s
  PROVE  FlattenSeq(<< s >>) = s
<1> DEFINE body(g, i) == IF i = 1 THEN << s >>[i] ELSE g[i - 1] \o << s >>[i]
           flatten == CHOOSE g : g = [i \in 1 .. Len(<< s >>) |-> body(g, i)]
           f == [i \in {1} |-> s]
<1>1. f = [i \in 1 .. Len(<< s >>) |-> body(f, i)]
  OBVIOUS
<1>2. flatten = [i \in 1 .. Len(<< s >>) |-> body(flatten, i)]
  BY <1>1
<1>3. flatten[1] = s
  BY <1>2
<1> QED
  BY <1>3 DEF FlattenSeq

\* What readers find in a file.
LEMMA DataIs ==
  ASSUME NEW h, NEW loc, NEW p, files[p] = AddChunk(NewFile, h, loc)
  PROVE  /\ HasFirstChunk(p) <=> h \in DOMAIN disk[loc[1]]
         /\ FileData(p) = IF h \in DOMAIN disk[loc[1]] THEN disk[loc[1]][h] ELSE <<>>
<1>1. files[p].handles = << h >> /\ files[p].chunks[h] = loc
  BY OneChunkIs
<1>2. HasFirstChunk(p) <=> h \in DOMAIN disk[loc[1]]
  BY <1>1 DEF HasFirstChunk
<1>3. ChunkData(files[p], h) = IF h \in DOMAIN disk[loc[1]] THEN disk[loc[1]][h] ELSE <<>>
  BY <1>1 DEF ChunkData
<1>4. [i \in DOMAIN files[p].handles |-> ChunkData(files[p], files[p].handles[i])]
        = << ChunkData(files[p], h) >>
  BY <1>1
<1>5. FileData(p) = ChunkData(files[p], h)
  BY <1>4, FlattenOne DEF FileData
<1> QED
  BY <1>2, <1>3, <1>5

LEMMA DataThen ==
  ASSUME NEW h, NEW loc, NEW p, files'[p] = AddChunk(NewFile, h, loc)
  PROVE  /\ HasFirstChunk(p)' <=> h \in DOMAIN disk'[loc[1]]
         /\ FileData(p)' = IF h \in DOMAIN disk'[loc[1]] THEN disk'[loc[1]][h] ELSE <<>>
<1>1. files'[p].handles = << h >> /\ files'[p].chunks[h] = loc
  BY OneChunkIs
<1>2. HasFirstChunk(p)' <=> h \in DOMAIN disk'[loc[1]]
  BY <1>1 DEF HasFirstChunk
<1>3. ChunkData(files[p], h)' = IF h \in DOMAIN disk'[loc[1]] THEN disk'[loc[1]][h] ELSE <<>>
  BY <1>1 DEF ChunkData
<1>4. [i \in DOMAIN files'[p].handles |-> ChunkData(files[p], files[p].handles[i])']
        = << ChunkData(files[p], h)' >>
  BY <1>1
<1>5. FileData(p)' = ChunkData(files[p], h)'
  BY <1>4, FlattenOne DEF FileData
<1> QED
  BY <1>2, <1>3, <1>5

-----------------------------------------------------------------------------
(* Processes *)

LEMMA CommandIs ==
  ASSUME NEW cmd \in Command
  PROVE  /\ cmd.op \in {"create", "list", "write", "read", "append", "delete"}
         /\ cmd.path \in Path /\ cmd.data \in Seq(Byte) /\ Carried(cmd) \in Seq(Byte)
         /\ cmd # NoCommand
  BY ClientAssumption DEF ClientAssumption, Carried, NoCommand

LEMMA ProcessIs ==
  ASSUME ServiceTyped, NEW c \in Client
  PROVE  /\ proc[c] \in Processes
         /\ proc[c].state \in {"idle", "running", "gone"}
         /\ Todo(c) \in Seq(Calls) /\ proc[c].got \in Seq(Byte \cup {ErrorText})
         /\ proc[c].state # "idle" => proc[c].cmd \in Command
         /\ proc[c].state = "idle" =>
              Todo(c) = <<>> /\ Op(c) = "none" /\ ~worked[c] /\ ~excused[c]
         /\ Todo(c) # <<>> => /\ Head(Todo(c)) \in Calls /\ Tail(Todo(c)) \in Seq(Calls)
                              /\ Head(Todo(c)) = Todo(c)[1] /\ 1 \in DOMAIN Todo(c)
                              /\ proc[c].state # "idle"
<1>1. proc[c] \in Processes
  BY DEF ServiceTyped
<1>2. /\ proc[c].state \in {"idle", "running", "gone"} /\ Todo(c) \in Seq(Calls)
      /\ proc[c].got \in Seq(Byte \cup {ErrorText})
  BY <1>1 DEF Processes, Todo
<1>3. /\ proc[c].state # "idle" => proc[c].cmd \in Command
      /\ proc[c].state = "idle" => Todo(c) = <<>> /\ Op(c) = "none" /\ ~worked[c] /\ ~excused[c]
  BY DEF ServiceTyped, NoProcess, Todo, Op, NoCommand
<1>4. Todo(c) # <<>> => /\ Head(Todo(c)) \in Calls /\ Tail(Todo(c)) \in Seq(Calls)
                        /\ Head(Todo(c)) = Todo(c)[1] /\ 1 \in DOMAIN Todo(c)
  <2>1. PICK t : t = Todo(c)
    OBVIOUS
  <2>2. t \in Seq(Calls)
    BY <1>2, <2>1
  <2>3. t # <<>> => Head(t) \in Calls /\ Tail(t) \in Seq(Calls) /\ Head(t) = t[1] /\ 1 \in DOMAIN t
    BY <2>2
  <2> QED
    BY <2>1, <2>3
<1> QED
  BY <1>1, <1>2, <1>3, <1>4

\* A step that changes only what c has to do.
Sets(c, todo) == proc' = [proc EXCEPT ![c].todo = todo]

LEMMA SetsTodo ==
  ASSUME ServiceTyped, NEW c \in Client, NEW todo \in Seq(Calls), Sets(c, todo)
  PROVE  /\ proc' \in [Client -> Processes]
         /\ proc'[c].todo = todo /\ proc'[c].state = proc[c].state
         /\ proc'[c].cmd = proc[c].cmd /\ proc'[c].got = proc[c].got
         /\ \A d \in Client : d # c => proc'[d] = proc[d]
<1>1. proc \in [Client -> Processes]
  BY DEF ServiceTyped
<1>2. proc[c] = [state |-> proc[c].state, cmd |-> proc[c].cmd, todo |-> proc[c].todo,
                 got |-> proc[c].got]
      /\ proc[c].state \in {"idle", "running", "gone"} /\ proc[c].cmd \in Command \cup {NoCommand}
      /\ proc[c].got \in Seq(Byte \cup {ErrorText})
  BY <1>1 DEF Processes
<1>3. proc'[c] = [state |-> proc[c].state, cmd |-> proc[c].cmd, todo |-> todo, got |-> proc[c].got]
  BY <1>1, <1>2 DEF Sets
<1>4. proc'[c] \in Processes
  BY <1>2, <1>3 DEF Processes
<1>5. /\ proc' = [d \in Client |-> proc'[d]]
      /\ \A d \in Client : d # c => proc'[d] = proc[d]
  BY <1>1 DEF Sets
<1>6. \A d \in Client : proc'[d] \in Processes
  BY <1>1, <1>4, <1>5
<1> QED
  BY <1>3, <1>5, <1>6

\* What c has to do when it has its answer.
Rest(c) == IF proc[c].state = "gone" THEN <<>> ELSE Tail(Todo(c))

LEMMA ProceedSets ==
  ASSUME ServiceTyped, NEW c \in Client, Todo(c) # <<>>, NEW more \in Seq(Calls), Proceed(c, more)
  PROVE  /\ Sets(c, IF proc[c].state = "gone" THEN <<>> ELSE more \o Tail(Todo(c)))
         /\ more = <<>> => Sets(c, Rest(c))
         /\ Len(Todo(c)) = 1 => Sets(c, IF proc[c].state = "gone" THEN <<>> ELSE more)
<1>1. PICK t, r : t = Todo(c) /\ r = Tail(t)
  OBVIOUS
<1>2. t \in Seq(Calls) /\ r \in Seq(Calls)
  BY <1>1, ProcessIs
<1>3. Sets(c, IF proc[c].state = "gone" THEN <<>> ELSE more \o r)
  BY <1>1, ProcessIs DEF Proceed, Sets, Todo, ServiceTyped
<1>4. more = <<>> => more \o r = r
  BY <1>2
<1>5. Len(t) = 1 => more \o r = more
  BY <1>1, <1>2
<1>6. more = <<>> => Sets(c, IF proc[c].state = "gone" THEN <<>> ELSE r)
  BY <1>3, <1>4
<1>7. Len(t) = 1 => Sets(c, IF proc[c].state = "gone" THEN <<>> ELSE more)
  BY <1>3, <1>5
<1> QED
  BY <1>1, <1>3, <1>6, <1>7 DEF Rest

LEMMA AskingIs ==
  ASSUME NEW c, Asking(c)
  PROVE  /\ Len(Todo(c)) = 1 /\ Todo(c) # <<>> /\ Tail(Todo(c)) = <<>> /\ DOMAIN Todo(c) = {1}
         /\ Head(Todo(c)) = FirstCall(Op(c)) /\ Todo(c)[1] = FirstCall(Op(c))
         /\ FirstCall(Op(c)).to = Master /\ FirstCall(Op(c)).op = Op(c)
         /\ ~worked[c] /\ proc[c].got = <<>>
<1>1. PICK k : k = FirstCall(Op(c))
  OBVIOUS
<1>2. Todo(c) = << k >>
  BY <1>1 DEF Asking
<1>3. /\ Len(<< k >>) = 1 /\ << k >> # <<>> /\ Tail(<< k >>) = <<>> /\ DOMAIN << k >> = {1}
      /\ Head(<< k >>) = k /\ << k >>[1] = k
  OBVIOUS
<1> QED
  BY <1>1, <1>2, <1>3 DEF Asking, FirstCall, ToMaster

\* The head of the calls of a command that has its chunk.
LEMMA AtChunkHead ==
  ASSUME ServiceTyped, NEW c \in Client, NEW h, NEW loc \in Places, NEW k \in 0 .. Replicas,
         AtChunk(c, h, loc, k)
  PROVE  LET call == Head(Todo(c)) IN
         /\ call.to \in Server /\ call.handle = h /\ Todo(c) # <<>>
         /\ \/ /\ Follows(Todo(c), proc[c].cmd, h, loc, k)
               /\ k + 1 \in 1 .. Replicas /\ k + 1 <= Width(Op(c))
               /\ call = [to |-> loc[k + 1], op |-> Op(c), handle |-> h,
                          data |-> Carried(proc[c].cmd)]
            \/ /\ k = 0 /\ AsksSpace(c, h, loc)
               /\ call = [to |-> loc[1], op |-> "space", handle |-> h, data |-> <<>>]
<1>1. PICK t : t = Todo(c)
  OBVIOUS
<1>2. t \in Seq(Calls) /\ t # <<>> /\ Len(t) \in Nat \ {0} /\ Head(t) = t[1] /\ 1 \in DOMAIN t
  BY <1>1, ProcessIs DEF AtChunk
<1>3. CASE Follows(t, proc[c].cmd, h, loc, k)
  <2>1. k + Len(t) <= Width(Op(c)) /\ Width(Op(c)) <= Replicas /\ Width(Op(c)) \in Nat
    BY <1>3, GfsAssumption DEF Follows, Width, Op, GfsAssumption
  <2>2. k + 1 \in 1 .. Replicas /\ k + 1 <= Width(Op(c))
    BY <1>2, <2>1, PlaceIs
  <2>3. t[1] = [to |-> loc[k + 1], op |-> Op(c), handle |-> h, data |-> Carried(proc[c].cmd)]
    BY <1>2, <1>3 DEF Follows, Op
  <2> QED
    BY <1>1, <1>2, <1>3, <2>2, <2>3, PlaceIs
<1>4. CASE k = 0 /\ AsksSpace(c, h, loc)
  BY <1>1, <1>2, <1>4, PlaceIs DEF AsksSpace
<1> QED
  BY <1>1, <1>3, <1>4 DEF AtChunk

LEMMA MasterServes ==
  ASSUME ServiceInv, NEW c \in Client, NEW op, Serves(c, Master, op)
  PROVE  Asking(c) /\ op = Op(c) /\ proc[c].state # "idle" /\ proc[c].cmd \in Command
<1>1. ServiceTyped /\ Todo(c) # <<>> /\ Head(Todo(c)).to = Master /\ Head(Todo(c)).op = op
  BY DEF Serves, Todo, ServiceInv
<1>2. proc[c].state # "idle" /\ proc[c].cmd \in Command
  BY <1>1, ProcessIs
<1>3. ~\E h \in 1 .. nextHandle - 1, loc \in Places, k \in 0 .. Replicas : AtChunk(c, h, loc, k)
  BY <1>1, AtChunkHead, PlaceIs
<1>4. Asking(c)
  BY <1>1, <1>2, <1>3 DEF ServiceInv, Staged
<1> QED
  BY <1>1, <1>2, <1>4, AskingIs

LEMMA ChunkServes ==
  ASSUME ServiceInv, NEW c \in Client, NEW s \in Server, NEW op, Serves(c, s, op)
  PROVE  /\ proc[c].state # "idle" /\ proc[c].cmd \in Command /\ Todo(c) # <<>>
         /\ \E h \in 1 .. nextHandle - 1, loc \in Places, k \in 0 .. Replicas :
              /\ AtChunk(c, h, loc, k) /\ Head(Todo(c)).handle = h
              /\ \/ /\ op = Op(c) /\ Follows(Todo(c), proc[c].cmd, h, loc, k)
                    /\ s = loc[k + 1] /\ Head(Todo(c)).data = Carried(proc[c].cmd)
                 \/ op = "space" /\ k = 0 /\ s = loc[1] /\ AsksSpace(c, h, loc)
<1>1. ServiceTyped /\ Todo(c) # <<>> /\ Head(Todo(c)).to = s /\ Head(Todo(c)).op = op
  BY DEF Serves, Todo, ServiceInv
<1>2. proc[c].state # "idle" /\ proc[c].cmd \in Command
  BY <1>1, ProcessIs
<1>3. ~Asking(c)
  <2>1. Master \notin Server
    BY DEF Master, Server
  <2> QED
    BY <1>1, <2>1, AskingIs
<1>4. PICK h \in 1 .. nextHandle - 1, loc \in Places, k \in 0 .. Replicas : AtChunk(c, h, loc, k)
  BY <1>1, <1>2, <1>3 DEF ServiceInv, Staged
<1>5. PICK call : call = Head(Todo(c))
  OBVIOUS
<1>6. /\ call.handle = h
      /\ \/ /\ Follows(Todo(c), proc[c].cmd, h, loc, k)
            /\ call = [to |-> loc[k + 1], op |-> Op(c), handle |-> h,
                       data |-> Carried(proc[c].cmd)]
         \/ /\ k = 0 /\ AsksSpace(c, h, loc)
            /\ call = [to |-> loc[1], op |-> "space", handle |-> h, data |-> <<>>]
  BY <1>1, <1>4, <1>5, AtChunkHead
<1>7. \/ /\ op = Op(c) /\ Follows(Todo(c), proc[c].cmd, h, loc, k)
         /\ s = loc[k + 1] /\ call.data = Carried(proc[c].cmd)
      \/ op = "space" /\ k = 0 /\ s = loc[1] /\ AsksSpace(c, h, loc)
  BY <1>1, <1>5, <1>6
<1> QED
  BY <1>1, <1>2, <1>4, <1>5, <1>6, <1>7

-----------------------------------------------------------------------------
(* The answers of the master *)

LEMMA Quotients ==
  ASSUME NEW n \in Nat \ {0}, NEW x \in 0 .. n - 1
  PROVE  x \div n = 0 /\ x % n = x /\ (x + n) \div n = 1
<1>1. /\ x \div n \in Int /\ n * (x \div n) <= x /\ x < n * (x \div n) + n
      /\ x % n = x - n * (x \div n)
      /\ (x + n) \div n \in Int /\ n * ((x + n) \div n) <= x + n
      /\ x + n < n * ((x + n) \div n) + n
  OBVIOUS
<1>2. PICK k \in Int, l \in Int : k = x \div n /\ l = (x + n) \div n
  BY <1>1
<1>3. \A m \in Int : (m <= -1 => n * m <= -n) /\ (m >= 1 => n * m >= n) /\ (m >= 2 => n * m >= 2 * n)
                     /\ (m <= 0 => n * m <= 0)
  <2>1. \A m \in Int : \A a \in Int : m <= a => n * m <= n * a
    <3> SUFFICES ASSUME NEW m \in Int, NEW a \in Int, m <= a PROVE n * m <= n * a
      OBVIOUS
    <3>1. n * (a - m) >= 0
      OBVIOUS
    <3> QED
      BY <3>1
  <2>2. \A m \in Int : (m <= -1 => n * m <= n * (-1)) /\ (1 <= m => n * 1 <= n * m)
                       /\ (2 <= m => n * 2 <= n * m) /\ (m <= 0 => n * m <= n * 0)
    BY <2>1
  <2> QED
    BY <2>2
<1>4. k = 0
  BY <1>1, <1>2, <1>3
<1>5. l = 1
  BY <1>1, <1>2, <1>3
<1> QED
  BY <1>1, <1>2, <1>4, <1>5

LEMMA EachCall ==
  ASSUME NEW loc \in Places, NEW h \in Nat, NEW data \in Seq(Byte),
         NEW op \in {"create", "write", "append", "read", "space"}
  PROVE  /\ ToEach(loc, op, h, data) \in Seq(Calls)
         /\ Len(ToEach(loc, op, h, data)) = Replicas
         /\ DOMAIN ToEach(loc, op, h, data) = 1 .. Replicas
         /\ \A i \in 1 .. Replicas :
              /\ ToEach(loc, op, h, data)[i] = [to |-> loc[i], op |-> op, handle |-> h, data |-> data]
              /\ ToEach(loc, op, h, data)[i] \in Calls
<1> DEFINE f == ToEach(loc, op, h, data)
<1>1. f = [i \in 1 .. Replicas |-> [to |-> loc[i], op |-> op, handle |-> h, data |-> data]]
  BY DEF ToEach
<1>2. \A i \in 1 .. Replicas : loc[i] \in Server
  BY PlaceIs
<1>3. \A i \in 1 .. Replicas : [to |-> loc[i], op |-> op, handle |-> h, data |-> data] \in Calls
  BY <1>2 DEF Calls
<1>4. Replicas \in Nat
  BY PlaceIs
<1> HIDE DEF f
<1>5. f \in [1 .. Replicas -> Calls]
  BY <1>1, <1>3
<1>6. f \in Seq(Calls) /\ Len(f) = Replicas
  BY <1>4, <1>5
<1> QED
  BY <1>1, <1>3, <1>5, <1>6 DEF f

\* A write of one chunk leaves the file as it is.
LEMMA WriteLeavesFile ==
  ASSUME NEW h, NEW loc, NEW first, NEW indexes \in [1 .. 0 -> Server]
  PROVE  LET f == AddChunk(NewFile, h, loc)
         IN  GrowChunks(f, first, indexes) = f /\ KeepChunks(f, 1) = f /\ Len(indexes) = 0
<1>1. PICK f : f = AddChunk(NewFile, h, loc)
  OBVIOUS
<1>2. /\ f.handles = << h >> /\ DOMAIN f.chunks = {h} /\ f.chunks[h] = loc
      /\ Len(f.handles) = 1 /\ f.handles[1] = h
  BY <1>1, OneChunkIs
<1>3. f = [chunks |-> f.chunks, handles |-> f.handles] /\ f.chunks = [x \in {h} |-> f.chunks[x]]
  BY <1>1, <1>2 DEF AddChunk, Put
<1>4. indexes = <<>> /\ Len(indexes) = 0 /\ DOMAIN indexes = {}
  OBVIOUS
<1> DEFINE new == [i \in DOMAIN indexes |-> HandleAt(first, i)]
           IndexOf(x) == indexes[CHOOSE i \in DOMAIN indexes : new[i] = x]
<1>5. new = <<>> /\ Range(new) = {}
  BY <1>4 DEF Range
<1>6. f.handles \o new = f.handles
  BY <1>2, <1>5
<1>7. [x \in DOMAIN f.chunks \cup Range(new) |->
          IF x \in Range(new) THEN ChooseChunkServerLocations(IndexOf(x)) ELSE f.chunks[x]]
        = f.chunks
  <2> HIDE DEF new, IndexOf
  <2>1. DOMAIN f.chunks \cup Range(new) = {h}
    BY <1>2, <1>5
  <2>2. [x \in {h} |-> IF x \in Range(new) THEN ChooseChunkServerLocations(IndexOf(x)) ELSE f.chunks[x]]
          = [x \in {h} |-> f.chunks[x]]
    BY <1>5
  <2> QED
    BY <1>3, <2>1, <2>2
<1>8. GrowChunks(f, first, indexes) = [chunks |-> f.chunks, handles |-> f.handles]
  BY <1>6, <1>7 DEF GrowChunks
<1>9. Without(f.chunks, HandlesBehind(f, 1)) = f.chunks
  <2>1. DOMAIN f.chunks \ HandlesBehind(f, 1) = {h}
    BY <1>2 DEF HandlesBehind
  <2>2. [x \in {h} |-> f.chunks[x]] = f.chunks
    BY <1>3
  <2> QED
    BY <2>1, <2>2 DEF Without, Restrict
<1>10. SubSeq(f.handles, 1, 1) = f.handles
  <2>1. PICK t : t = << h >>
    OBVIOUS
  <2>2. t \in Seq({h}) /\ Len(t) = 1
    BY <2>1
  <2>3. SubSeq(t, 1, Len(t)) = t
    BY <2>2
  <2> QED
    BY <1>2, <2>1, <2>2, <2>3
<1>11. KeepChunks(f, 1) = [chunks |-> f.chunks, handles |-> f.handles]
  BY <1>9, <1>10 DEF KeepChunks
<1> QED
  BY <1>1, <1>3, <1>4, <1>8, <1>11

\* The master has an answer for c; more is what c will do.
Answers(c, more) ==
    /\ more \in Seq(Calls) /\ Sets(c, IF proc[c].state = "gone" THEN <<>> ELSE more)
    /\ UNCHANGED <<masterUp, disk, commands>>

\* It has nothing for it to do.
Declines(c) ==
    /\ Op(c) \in {"write", "append", "read", "delete"} => PathOf(c) \notin DOMAIN files
    /\ Op(c) = "create" => PathOf(c) \in DOMAIN files
    /\ Answers(c, <<>>) /\ UNCHANGED <<files, nextHandle>>

\* It creates the file.
Creates(c, loc) ==
    /\ Op(c) = "create" /\ PathOf(c) \notin DOMAIN files
    /\ files' = Put(files, PathOf(c), AddChunk(NewFile, nextHandle, loc))
    /\ nextHandle' = nextHandle + 1
    /\ Answers(c, ToEach(loc, "create", nextHandle, <<>>))

\* It says where the chunk is.
Directs(c, h, loc, more) ==
    /\ Op(c) \in DataOps /\ PathOf(c) \in DOMAIN files
    /\ files[PathOf(c)] = AddChunk(NewFile, h, loc)
    /\ UNCHANGED <<files, nextHandle>>
    /\ more # <<>>
    /\ \/ Follows(more, proc[c].cmd, h, loc, 0)
       \/ /\ Op(c) = "append"
          /\ Head(more) = [to |-> loc[1], op |-> "space", handle |-> h, data |-> <<>>]
          /\ Tail(more) # <<>> /\ Follows(Tail(more), proc[c].cmd, h, loc, 0)
    /\ Answers(c, more)

Removes(c) ==
    /\ Op(c) = "delete" /\ PathOf(c) \in DOMAIN files
    /\ files' = Without(files, {PathOf(c)})
    /\ Answers(c, <<>>) /\ UNCHANGED nextHandle

MasterAnswers(c) ==
    \/ Declines(c)
    \/ \E loc \in Places : Creates(c, loc)
    \/ \E h \in 1 .. nextHandle - 1, loc \in Places, more \in Seq(Calls) : Directs(c, h, loc, more)
    \/ Removes(c)

LEMMA AskerProceeds ==
  ASSUME ServiceInv, NEW c \in Client, Asking(c), NEW more \in Seq(Calls), Proceed(c, more),
         UNCHANGED <<masterUp, disk, commands>>
  PROVE  Answers(c, more)
<1>1. Todo(c) # <<>> /\ Len(Todo(c)) = 1 /\ ServiceTyped
  BY AskingIs DEF ServiceInv
<1> QED
  BY <1>1, ProceedSets DEF Answers

LEMMA AskerReplied ==
  ASSUME ServiceInv, NEW c \in Client, Asking(c), Reply(c),
         Op(c) \in {"write", "append", "read", "delete"} => PathOf(c) \notin DOMAIN files,
         Op(c) = "create" => PathOf(c) \in DOMAIN files
  PROVE  Declines(c)
<1>1. <<>> \in Seq(Calls)
  OBVIOUS
<1>2. Answers(c, <<>>)
  BY <1>1, AskerProceeds DEF Reply
<1> QED
  BY <1>2 DEF Reply, Declines

LEMMA FileHasChunk ==
  ASSUME ServiceTyped, NEW p \in DOMAIN files
  PROVE  /\ Len(files[p].handles) = 1 /\ files[p].handles = << HandleOf(p) >>
         /\ \A num : HasChunks(files[p], num)
         /\ HandleOf(p) \in DOMAIN files[p].chunks
         /\ GetLatestChunkHandle(files[p]) = HandleOf(p)
<1>1. PICK f, h, loc : f = files[p] /\ f = AddChunk(NewFile, h, loc)
  BY DEF ServiceTyped
<1>2. /\ f.handles = << h >> /\ DOMAIN f.chunks = {h}
      /\ Len(f.handles) = 1 /\ f.handles[1] = h
  BY <1>1, OneChunkIs
<1>3. DOMAIN f.handles = {1}
  BY <1>2
<1> QED
  BY <1>1, <1>2, <1>3 DEF HasChunks, GetLatestChunkHandle, HandleOf

LEMMA CreateAnswers ==
  ASSUME ServiceInv, NEW c \in Client, CreateFile(c)
  PROVE  Asking(c) /\ MasterAnswers(c)
<1>1. ServiceTyped /\ nextHandle \in Nat
  BY DEF ServiceInv, ServiceTyped
<1>2. CASE OnFile(c, "create") /\ Reply(c)
  <2>1. Asking(c) /\ Op(c) = "create" /\ PathOf(c) \in DOMAIN files
    BY <1>2, MasterServes DEF OnFile, PathOf
  <2> QED
    BY <1>2, <2>1, AskerReplied DEF MasterAnswers
<1>3. CASE /\ OnNoFile(c, "create")
           /\ \E index \in Server :
                LET locations == ChooseChunkServerLocations(index)
                IN  /\ files' = Put(files, proc[c].cmd.path,
                                    AddChunk(NewFile, nextHandle, locations))
                    /\ Proceed(c, ToEach(locations, "create", nextHandle, <<>>))
           /\ nextHandle' = nextHandle + 1
           /\ UNCHANGED <<masterUp, disk, commands>>
  <2>1. Asking(c) /\ Op(c) = "create" /\ PathOf(c) \notin DOMAIN files
    BY <1>3, MasterServes DEF OnNoFile, PathOf
  <2>2. PICK index \in Server :
          LET locations == ChooseChunkServerLocations(index)
          IN  /\ files' = Put(files, proc[c].cmd.path,
                              AddChunk(NewFile, nextHandle, locations))
              /\ Proceed(c, ToEach(locations, "create", nextHandle, <<>>))
    BY <1>3
  <2>3. PICK loc \in Places : loc = ChooseChunkServerLocations(index)
    BY ChosenPlaces
  <2>4. <<>> \in Seq(Byte)
    OBVIOUS
  <2>5. ToEach(loc, "create", nextHandle, <<>>) \in Seq(Calls)
    BY <1>1, <2>4, EachCall
  <2>6. Answers(c, ToEach(loc, "create", nextHandle, <<>>))
    BY <1>3, <2>1, <2>2, <2>3, <2>5, AskerProceeds
  <2>7. files' = Put(files, PathOf(c), AddChunk(NewFile, nextHandle, loc))
    BY <2>2, <2>3 DEF PathOf
  <2> QED
    BY <1>3, <2>1, <2>6, <2>7 DEF MasterAnswers, Creates
<1> QED
  BY <1>2, <1>3 DEF CreateFile

\* The calls that a command makes once it knows its chunk.
LEMMA EachFollows ==
  ASSUME NEW cmd \in Command, cmd.op \in {"create", "write", "append"},
         NEW loc \in Places, NEW h \in Nat
  PROVE  Follows(ToEach(loc, cmd.op, h, Carried(cmd)), cmd, h, loc, 0)
<1>1. Carried(cmd) \in Seq(Byte) /\ Width(cmd.op) = Replicas /\ Replicas \in Nat
  BY CommandIs, PlaceIs DEF Width
<1>2. PICK t : t = ToEach(loc, cmd.op, h, Carried(cmd))
  OBVIOUS
<1>3. /\ Len(t) = Replicas /\ DOMAIN t = 1 .. Replicas
      /\ \A i \in 1 .. Replicas :
           t[i] = [to |-> loc[i], op |-> cmd.op, handle |-> h, data |-> Carried(cmd)]
  BY <1>1, <1>2, EachCall
<1>4. \A i \in 1 .. Replicas : 0 + i = i
  OBVIOUS
<1>5. Follows(t, cmd, h, loc, 0)
  BY <1>1, <1>3, <1>4 DEF Follows
<1> QED
  BY <1>2, <1>5

\* What the master says to a command on data.
LEMMA DirectsAnswers ==
  ASSUME ServiceInv, NEW c \in Client, Asking(c), Op(c) \in DataOps,
         PathOf(c) \in DOMAIN files, NEW h, NEW loc \in Places,
         files[PathOf(c)] = AddChunk(NewFile, h, loc),
         NEW more \in Seq(Calls), more # <<>>,
         \/ Follows(more, proc[c].cmd, h, loc, 0)
         \/ /\ Op(c) = "append"
            /\ Head(more) = [to |-> loc[1], op |-> "space", handle |-> h, data |-> <<>>]
            /\ Tail(more) # <<>> /\ Follows(Tail(more), proc[c].cmd, h, loc, 0),
         Proceed(c, more), UNCHANGED <<files, nextHandle, masterUp, disk, commands>>
  PROVE  MasterAnswers(c)
<1>1. h \in 1 .. nextHandle - 1
  <2>1. HandleOf(PathOf(c)) = h
    BY OneChunkIs DEF HandleOf
  <2> QED
    BY <2>1, FileIs DEF ServiceInv
<1>2. Answers(c, more)
  BY AskerProceeds
<1> QED
  BY <1>1, <1>2 DEF MasterAnswers, Directs

\* The data of a command is one field of a message.
LEMMA WholeField ==
  ASSUME NEW cmd \in Command
  PROVE  UpToBar(cmd.data) = cmd.data
  BY FittingAssumption DEF FittingAssumption

LEMMA WriteAnswers ==
  ASSUME ServiceInv, NEW c \in Client, WriteFile(c)
  PROVE  Asking(c) /\ MasterAnswers(c)
<1> DEFINE p == PathOf(c)
           data == proc[c].cmd.data
           num == ChunkNum(Len(UpToBar(data)))
<1>1. ServiceTyped
  BY DEF ServiceInv
<1>2. Asking(c) /\ Op(c) = "write" /\ proc[c].cmd \in Command
  <2>1. Serves(c, Master, "write")
    BY DEF WriteFile, OnFile, OnNoFile
  <2> QED
    BY <2>1, MasterServes
<1>3. CASE OnNoFile(c, "write") /\ Reply(c)
  <2>1. PathOf(c) \notin DOMAIN files
    BY <1>3 DEF OnNoFile, PathOf
  <2> QED
    BY <1>2, <1>3, <2>1, AskerReplied DEF MasterAnswers
<1>4. CASE p \in DOMAIN files
  <2>1. PICK h \in 1 .. nextHandle - 1, loc \in Places : files[p] = AddChunk(NewFile, h, loc)
    BY <1>1, <1>4 DEF ServiceTyped
  <2>2. HasChunks(files[p], num) /\ Len(files[p].handles) = 1
    BY <1>1, <1>4, FileHasChunk
  <2>3. data \in Seq(Byte) /\ Len(data) \in 1 .. GFSChunkSize /\ GFSChunkSize \in Nat \ {0}
    BY <1>2, CommandIs, FittingAssumption, GfsAssumption
    DEF FittingAssumption, GfsAssumption, Op
  <2>4. num = 1
    <3>1. PICK x : x = Len(data) - 1
      OBVIOUS
    <3>2. x \in 0 .. GFSChunkSize - 1 /\ x + GFSChunkSize = Len(data) + GFSChunkSize - 1
      BY <2>3, <3>1
    <3>3. (x + GFSChunkSize) \div GFSChunkSize = 1
      BY <2>3, <3>2, Quotients
    <3>4. UpToBar(data) = data
      BY <1>2, WholeField
    <3>5. num = ChunkNum(Len(data))
      BY <3>4
    <3> QED
      BY <3>2, <3>3, <3>5 DEF ChunkNum
  <2>5. Piece(data, 1) = data
    <3>1. SubSeq(data, 1, Len(data)) = data
      BY <2>3
    <3>2. 1 * GFSChunkSize = GFSChunkSize /\ GFSChunkSize - GFSChunkSize + 1 = 1
      BY <2>3
    <3>3. (IF GFSChunkSize < Len(data) THEN GFSChunkSize ELSE Len(data)) = Len(data)
      BY <2>3
    <3> QED
      BY <3>1, <3>2, <3>3 DEF Piece
  <2>6. PICK indexes \in [1 .. num - Len(files[p].handles) -> Server] :
          LET grown == GrowChunks(files[p], nextHandle, indexes)
          IN  /\ files' = [files EXCEPT ![p] = KeepChunks(grown, num)]
              /\ nextHandle' = nextHandle + Len(indexes)
              /\ Proceed(c, WriteCalls(grown, num, data))
              /\ UNCHANGED <<masterUp, disk, commands>>
    BY <1>4, <2>2 DEF WriteFile, OnNoFile, PathOf
  <2>7. indexes \in [1 .. 0 -> Server]
    BY <2>2, <2>4, <2>6
  <2>8. /\ GrowChunks(files[p], nextHandle, indexes) = files[p]
        /\ KeepChunks(files[p], 1) = files[p] /\ Len(indexes) = 0
    BY <2>1, <2>7, WriteLeavesFile
  <2>9. files' = files /\ nextHandle' = nextHandle
    <3>1. [files EXCEPT ![p] = files[p]] = files
      BY <1>1, <1>4 DEF ServiceTyped
    <3>2. nextHandle + 0 = nextHandle
      BY <1>1 DEF ServiceTyped
    <3> QED
      BY <2>4, <2>6, <2>8, <3>1, <3>2
  <2>10. WriteCalls(files[p], 1, data) = ToEach(loc, "write", h, data)
    <3>1. files[p].handles[1] = h /\ files[p].chunks[h] = loc
      BY <2>1, OneChunkIs
    <3>2. Replicas \in Nat \ {0}
      BY PlaceIs
    <3>3. \A n \in 1 .. Replicas : (n - 1) \div Replicas + 1 = 1 /\ ((n - 1) % Replicas) + 1 = n
      <4> SUFFICES ASSUME NEW n \in 1 .. Replicas
                   PROVE  (n - 1) \div Replicas + 1 = 1 /\ ((n - 1) % Replicas) + 1 = n
        OBVIOUS
      <4>1. PICK x : x = n - 1
        OBVIOUS
      <4>2. x \in 0 .. Replicas - 1 /\ x + 1 = n
        BY <3>2, <4>1
      <4>3. x \div Replicas = 0 /\ x % Replicas = x
        BY <3>2, <4>2, Quotients
      <4> QED
        BY <4>1, <4>2, <4>3
    <3>4. PICK t : t = ToEach(loc, "write", h, Piece(data, 1))
      OBVIOUS
    <3>5. t = [n \in 1 .. Replicas |-> t[n]]
      BY <3>4 DEF ToEach
    <3>6. WriteCalls(files[p], 1, data) = [n \in 1 .. 1 * Replicas |-> t[n]]
      <4>1. 1 * Replicas = Replicas
        BY <3>2
      <4>2. \A n \in 1 .. Replicas :
              LET i == (n - 1) \div Replicas + 1
                  x == files[p].handles[i]
              IN  ToEach(files[p].chunks[x], "write", x, Piece(data, i))[((n - 1) % Replicas) + 1]
                    = t[n]
        BY <3>1, <3>3, <3>4
      <4> QED
        BY <4>1, <4>2 DEF WriteCalls
    <3>7. 1 * Replicas = Replicas
      BY <3>2
    <3> QED
      BY <2>5, <3>4, <3>5, <3>6, <3>7
  <2> DEFINE more == ToEach(loc, "write", h, data)
  <2>11. Proceed(c, more) /\ UNCHANGED <<masterUp, disk, commands>>
    BY <2>4, <2>6, <2>8, <2>10
  <2>12. /\ more \in Seq(Calls) /\ Len(more) = Replicas /\ more # <<>>
         /\ Follows(more, proc[c].cmd, h, loc, 0)
    <3>1. more \in Seq(Calls) /\ Len(more) = Replicas /\ Replicas # 0
      BY <2>3, EachCall, PlaceIs
    <3>2. Carried(proc[c].cmd) = data
      BY <1>2 DEF Carried, Op
    <3>3. Follows(more, proc[c].cmd, h, loc, 0)
      BY <1>2, <3>2, EachFollows DEF Op
    <3>4. more # <<>>
      BY <3>1
    <3> QED
      BY <3>1, <3>3, <3>4
  <2> HIDE DEF more
  <2> QED
    BY <1>2, <1>4, <2>1, <2>9, <2>11, <2>12, DirectsAnswers DEF DataOps
<1> QED
  BY <1>2, <1>3, <1>4 DEF WriteFile, OnNoFile, OnFile, PathOf

LEMMA ReadAnswers ==
  ASSUME ServiceInv, NEW c \in Client, ReadFile(c)
  PROVE  Asking(c) /\ MasterAnswers(c)
<1> DEFINE p == PathOf(c)
<1>1. ServiceTyped
  BY DEF ServiceInv
<1>2. Asking(c) /\ Op(c) = "read" /\ proc[c].cmd \in Command
  <2>1. Serves(c, Master, "read")
    BY DEF ReadFile, OnFile, OnNoFile
  <2> QED
    BY <2>1, MasterServes
<1>3. CASE OnNoFile(c, "read") /\ Reply(c)
  <2>1. PathOf(c) \notin DOMAIN files
    BY <1>3 DEF OnNoFile, PathOf
  <2> QED
    BY <1>2, <1>3, <2>1, AskerReplied DEF MasterAnswers
<1>4. CASE p \in DOMAIN files
  <2>1. PICK h \in 1 .. nextHandle - 1, loc \in Places : files[p] = AddChunk(NewFile, h, loc)
    BY <1>1, <1>4 DEF ServiceTyped
  <2>2. HasChunks(files[p], Len(files[p].handles)) /\ Len(files[p].handles) = 1
    BY <1>1, <1>4, FileHasChunk
  <2>3. /\ files[p].handles[1] = h /\ files[p].chunks[h] = loc
        /\ files[p].handles = << h >> /\ DOMAIN files[p].handles = {1}
    BY <2>1, OneChunkIs
  <2> DEFINE call == ToEach(loc, "read", h, <<>>)[1]
  <2>4. /\ Proceed(c, [i \in DOMAIN files[p].handles |->
                ToEach(files[p].chunks[files[p].handles[i]], "read", files[p].handles[i], <<>>)[1]])
        /\ UNCHANGED <<files, masterUp, nextHandle, disk, commands>>
    BY <1>4, <2>2 DEF ReadFile, OnNoFile, PathOf
  <2>5. [i \in DOMAIN files[p].handles |->
                ToEach(files[p].chunks[files[p].handles[i]], "read", files[p].handles[i], <<>>)[1]]
          = << call >>
    <3>1. [i \in {1} |-> ToEach(files[p].chunks[files[p].handles[i]], "read", files[p].handles[i], <<>>)[1]]
            = [i \in {1} |-> call]
      BY <2>3
    <3> HIDE DEF call
    <3>2. [i \in {1} |-> call] = << call >>
      OBVIOUS
    <3> QED
      BY <2>3, <3>1, <3>2
  <2>6. Proceed(c, << call >>)
    BY <2>4, <2>5
  <2>7. call = [to |-> loc[1], op |-> "read", handle |-> h, data |-> <<>>] /\ call \in Calls
    <3>1. <<>> \in Seq(Byte) /\ h \in Nat
      BY <1>1 DEF ServiceTyped
    <3> QED
      BY <3>1, EachCall, PlaceIs
  <2> HIDE DEF call
  <2>8. Carried(proc[c].cmd) = <<>> /\ Width("read") = 1
    BY <1>2 DEF Carried, Width, Op
  <2>9. << call >> \in Seq(Calls) /\ << call >> # <<>> /\ Len(<< call >>) = 1
        /\ DOMAIN << call >> = {1} /\ << call >>[1] = call
    BY <2>7
  <2>10. Follows(<< call >>, proc[c].cmd, h, loc, 0)
    <3>1. \A i \in {1} : 0 + i = 1
      OBVIOUS
    <3> QED
      BY <1>2, <2>7, <2>8, <2>9, <3>1 DEF Follows, Op
  <2> QED
    BY <1>2, <1>4, <2>1, <2>4, <2>6, <2>9, <2>10, DirectsAnswers DEF DataOps
<1> QED
  BY <1>2, <1>3, <1>4 DEF ReadFile, OnNoFile, OnFile, PathOf

LEMMA AppendAnswers ==
  ASSUME ServiceInv, NEW c \in Client, AppendFile(c)
  PROVE  Asking(c) /\ MasterAnswers(c)
<1> DEFINE p == PathOf(c)
           data == proc[c].cmd.data
<1>1. ServiceTyped
  BY DEF ServiceInv
<1>2. Asking(c) /\ Op(c) = "append" /\ proc[c].cmd \in Command
  <2>1. Serves(c, Master, "append")
    BY DEF AppendFile, OnFile, OnNoFile
  <2> QED
    BY <2>1, MasterServes
<1>3. CASE OnNoFile(c, "append") /\ Reply(c)
  <2>1. PathOf(c) \notin DOMAIN files
    BY <1>3 DEF OnNoFile, PathOf
  <2> QED
    BY <1>2, <1>3, <2>1, AskerReplied DEF MasterAnswers
<1>4. CASE p \in DOMAIN files
  <2>1. PICK h \in 1 .. nextHandle - 1, loc \in Places : files[p] = AddChunk(NewFile, h, loc)
    BY <1>1, <1>4 DEF ServiceTyped
  <2>2. /\ files[p].handles[1] = h /\ files[p].chunks[h] = loc /\ files[p].handles = << h >>
        /\ DOMAIN files[p].chunks = {h} /\ files[p].handles # <<>>
        /\ GetLatestChunkHandle(files[p]) = h
    <3>1. /\ files[p].handles[1] = h /\ files[p].chunks[h] = loc /\ files[p].handles = << h >>
          /\ DOMAIN files[p].chunks = {h} /\ Len(files[p].handles) = 1
      BY <2>1, OneChunkIs
    <3>2. << h >> # <<>>
      OBVIOUS
    <3> QED
      BY <3>1, <3>2 DEF GetLatestChunkHandle
  <2> DEFINE call == ToEach(loc, "space", h, <<>>)[1]
             each == ToEach(loc, "append", h, data)
  <2>3. /\ Proceed(c, << call >> \o each)
        /\ UNCHANGED <<files, masterUp, nextHandle, disk, commands>>
    BY <1>4, <2>2 DEF AppendFile, OnNoFile, PathOf
  <2>4. call = [to |-> loc[1], op |-> "space", handle |-> h, data |-> <<>>] /\ call \in Calls
    <3>1. <<>> \in Seq(Byte) /\ h \in Nat
      BY <1>1 DEF ServiceTyped
    <3> QED
      BY <3>1, EachCall, PlaceIs
  <2>5. each \in Seq(Calls) /\ each # <<>> /\ Follows(each, proc[c].cmd, h, loc, 0)
    <3>1. data \in Seq(Byte) /\ h \in Nat /\ Carried(proc[c].cmd) = data
      BY <1>1, <1>2, CommandIs DEF ServiceTyped, Carried, Op
    <3>2. each \in Seq(Calls) /\ Len(each) = Replicas
      BY <3>1, EachCall
    <3>3. each # <<>>
      <4>1. Replicas # 0
        BY PlaceIs
      <4> QED
        BY <3>2, <4>1
    <3>4. Follows(each, proc[c].cmd, h, loc, 0)
      BY <1>2, <3>1, EachFollows DEF Op
    <3> QED
      BY <3>2, <3>3, <3>4
  <2> HIDE DEF call, each
  <2>6. /\ << call >> \o each \in Seq(Calls) /\ << call >> \o each # <<>>
        /\ Head(<< call >> \o each) = call /\ Tail(<< call >> \o each) = each
    <3>1. << call >> \in Seq(Calls)
      BY <2>4
    <3>2. << call >> \o each \in Seq(Calls) /\ Len(<< call >> \o each) = 1 + Len(each)
          /\ Len(each) \in Nat /\ (<< call >> \o each)[1] = call
      BY <2>5, <3>1
    <3>3. << call >> \o each # <<>> /\ Head(<< call >> \o each) = call
      BY <3>2
    <3>4. Tail(<< call >> \o each) = each
      BY <2>5, <3>1
    <3> QED
      BY <3>2, <3>3, <3>4
  <2>7. PICK more \in Seq(Calls) : more = << call >> \o each
    BY <2>6
  <2> QED
    BY <1>2, <1>4, <2>1, <2>3, <2>4, <2>5, <2>6, <2>7, DirectsAnswers DEF DataOps
<1> QED
  BY <1>2, <1>3, <1>4 DEF AppendFile, OnNoFile, OnFile, PathOf

LEMMA MasterStepAnswers ==
  ASSUME ServiceInv, NEW c \in Client, MasterStep(c)
  PROVE  Asking(c) /\ proc[c].state # "idle" /\ proc[c].cmd \in Command /\ MasterAnswers(c)
<1>1. ASSUME ListFiles(c) PROVE Asking(c) /\ MasterAnswers(c)
  <2>1. Asking(c) /\ Op(c) = "list"
    BY <1>1, MasterServes DEF ListFiles, OnFile, OnNoFile
  <2> QED
    BY <1>1, <2>1, AskerReplied DEF ListFiles, MasterAnswers
<1>2. ~CreateChunk(c)
  <2>1. \A op : Serves(c, Master, op) => op = Op(c) /\ proc[c].cmd \in Command
    BY MasterServes
  <2> QED
    BY <2>1, CommandIs DEF CreateChunk, OnFile, OnNoFile, Op
<1>3. ASSUME DeleteFile(c) PROVE Asking(c) /\ MasterAnswers(c)
  <2>1. Asking(c) /\ Op(c) = "delete"
    BY <1>3, MasterServes DEF DeleteFile, OnFile, OnNoFile
  <2>2. CASE OnNoFile(c, "delete") /\ Reply(c)
    <3>1. PathOf(c) \notin DOMAIN files
      BY <2>2 DEF OnNoFile, PathOf
    <3> QED
      BY <2>1, <2>2, <3>1, AskerReplied DEF MasterAnswers
  <2>3. CASE /\ OnFile(c, "delete")
             /\ files' = Without(files, {proc[c].cmd.path})
             /\ Proceed(c, <<>>)
             /\ UNCHANGED <<masterUp, nextHandle, disk, commands>>
    <3>1. <<>> \in Seq(Calls)
      OBVIOUS
    <3>2. Answers(c, <<>>)
      BY <2>1, <2>3, <3>1, AskerProceeds
    <3> QED
      BY <2>1, <2>3, <3>2 DEF MasterAnswers, Removes, OnFile, PathOf
  <2> QED
    BY <1>3, <2>1, <2>2, <2>3 DEF DeleteFile
<1>4. Asking(c) /\ MasterAnswers(c)
  BY <1>1, <1>2, <1>3, CreateAnswers, WriteAnswers, ReadAnswers, AppendAnswers,
     MasterServes DEF MasterStep, ListFiles, DeleteFile, OnFile, OnNoFile
<1>5. Todo(c) # <<>> /\ ServiceTyped
  BY <1>4, AskingIs DEF ServiceInv
<1> QED
  BY <1>4, <1>5, ProcessIs

-----------------------------------------------------------------------------
(* The answers of the chunk servers *)

LEMMA TimesMonotone ==
  ASSUME NEW n \in Nat, NEW a \in Int, NEW b \in Int, a <= b
  PROVE  n * a <= n * b /\ n * a \in Int /\ n * b \in Int
<1>1. n * (b - a) >= 0 /\ n * (b - a) = n * b - n * a
  OBVIOUS
<1> QED
  BY <1>1

\* If each of m appends has its share of the size, and one of those that have
\* not come yet has d bytes, there is room for it.
LEMMA RoomLeft ==
  ASSUME NEW m \in Nat, NEW size \in Nat \ {0}, NEW a \in Nat, NEW d \in Nat,
         NEW n \in Nat \ {0}, NEW q \in Int, q <= m,
         m * a + size * n <= size * q, m * d <= size
  PROVE  d <= size - a
<1>1. size * 1 <= size * n /\ size * n \in Int /\ size * q \in Int
  BY TimesMonotone
<1>2. size * q <= size * m
  BY TimesMonotone
<1>3. m >= 1
  <2>1. CASE m = 0
    <3>1. size * q <= 0 /\ m * a = 0
      BY <2>1, <1>2
    <3> QED
      BY <1>1, <3>1
  <2> QED
    BY <2>1
<1>4. m * a + size <= size * m
  BY <1>1, <1>2, <1>3
<1>5. SUFFICES ASSUME a + d >= size + 1 PROVE FALSE
  OBVIOUS
<1>6. m * (size + 1) <= m * (a + d)
  BY <1>3, <1>5, TimesMonotone
<1>7. m * (size + 1) = size * m + m /\ m * (a + d) = m * a + m * d
  BY <1>3
<1> QED
  BY <1>3, <1>4, <1>6, <1>7

\* A command that calls about a chunk is at work on the file of its handle.
LEMMA CallerBelongs ==
  ASSUME ServiceTyped, NEW c \in Client, NEW h, NEW loc \in Places, NEW k \in 0 .. Replicas,
         AtChunk(c, h, loc, k)
  PROVE  CallsFor(c, h) /\ Belongs(h, PathOf(c))
<1>1. /\ Head(Todo(c)).to \in Server /\ Head(Todo(c)).handle = h /\ Todo(c) # <<>>
  BY AtChunkHead
<1>2. 1 \in DOMAIN Todo(c) /\ Head(Todo(c)) = Todo(c)[1] /\ Master \notin Server
  BY <1>1, ProcessIs, PlaceIs
<1>3. CallsFor(c, h)
  BY <1>1, <1>2 DEF CallsFor
<1> QED
  BY <1>3 DEF Belongs

LEMMA PendingCount ==
  ASSUME ServiceInv, NEW s \in Server
  PROVE  /\ Pending(s) \subseteq Active /\ IsFiniteSet(Pending(s))
         /\ Cardinality(Pending(s)) \in Nat /\ Cardinality(Active) \in Nat
         /\ Cardinality(Pending(s)) <= Cardinality(Active)
         /\ Cardinality(Active) <= commands
         /\ \A c \in Pending(s) : Cardinality(Pending(s)) >= 1
<1>1. ServiceTyped /\ IsFiniteSet(Active) /\ Cardinality(Active) <= commands
  BY DEF ServiceInv, ChunksFit
<1>2. Pending(s) \subseteq Active
  BY <1>1, ProcessIs DEF Pending, Active
<1>3. IsFiniteSet(Pending(s)) /\ Cardinality(Pending(s)) <= Cardinality(Active)
  BY <1>1, <1>2, FS_Subset
<1>4. Cardinality(Pending(s)) \in Nat /\ Cardinality(Active) \in Nat
  BY <1>1, <1>3, FS_CardinalityType
<1>5. \A c \in Pending(s) : Cardinality(Pending(s)) # 0
  BY <1>3, FS_EmptySet
<1> QED
  BY <1>1, <1>2, <1>3, <1>4, <1>5

\* What the chunk holds when s has worked on the call of c.
NewContents(c, s, h) ==
    IF h \notin DOMAIN disk[s] THEN <<>>
    ELSE IF Op(c) = "create" THEN disk[s][h]
    ELSE IF Op(c) = "write" THEN proc[c].cmd.data
    ELSE disk[s][h] \o proc[c].cmd.data

Stores(c, s, h) ==
    /\ Op(c) \in {"create", "write", "append"}
    /\ Op(c) # "create" => h \in DOMAIN disk[s]
    /\ disk' = [disk EXCEPT ![s] = Put(@, h, NewContents(c, s, h))]
    /\ Sets(c, Rest(c))

Misses(c, s, h) ==
    /\ Op(c) \in {"write", "append"} /\ h \notin DOMAIN disk[s]
    /\ Sets(c, Rest(c)) /\ UNCHANGED disk

Found(s, h) == IF h \in DOMAIN disk[s] THEN disk[s][h] ELSE << ErrorText >>
Reads(c, s, h) ==
    /\ Op(c) = "read" /\ UNCHANGED disk
    /\ proc' = [proc EXCEPT ![c].todo = Rest(c),
                            ![c].got = IF proc[c].state = "gone" THEN @ ELSE Found(s, h)]

Sizes(c, s, h) ==
    /\ Sets(c, IF proc[c].state = "gone" \/ h \notin DOMAIN disk[s] THEN <<>> ELSE Tail(Todo(c)))
    /\ UNCHANGED disk

ChunkAnswers(c, s, h, loc, k) ==
    /\ AtChunk(c, h, loc, k)
    /\ UNCHANGED <<files, masterUp, nextHandle, commands>>
    /\ \/ /\ Follows(Todo(c), proc[c].cmd, h, loc, k) /\ s = loc[k + 1]
          /\ Stores(c, s, h) \/ Misses(c, s, h) \/ Reads(c, s, h)
       \/ k = 0 /\ s = loc[1] /\ AsksSpace(c, h, loc) /\ Sizes(c, s, h)

LEMMA FoundTyped ==
  ASSUME NEW s, NEW h, h \in DOMAIN disk[s] => disk[s][h] \in Seq(Byte)
  PROVE  Found(s, h) \in Seq(Byte \cup {ErrorText})
<1>1. Seq(Byte) \subseteq Seq(Byte \cup {ErrorText})
  BY SeqMonotonic
<1>2. << ErrorText >> \in Seq(Byte \cup {ErrorText})
  OBVIOUS
<1> QED
  BY <1>1, <1>2 DEF Found

\* What is in a chunk, by its file.
LEMMA ContentsFit ==
  ASSUME ServiceInv, NEW c \in Client, NEW h \in 1 .. nextHandle - 1, NEW loc \in Places,
         NEW k \in 0 .. Replicas, AtChunk(c, h, loc, k), NEW s \in Server, h \in DOMAIN disk[s]
  PROVE  /\ disk[s][h] \in Seq(Byte) /\ proc[c].cmd \in Command
         /\ Fits(PathOf(c), disk[s][h], s)
         /\ Op(c) = "write" => Len(disk[s][h]) <= Len(proc[c].cmd.data)
<1>1. ServiceTyped /\ h \in Nat
  BY DEF ServiceInv, ServiceTyped
<1>2. Belongs(h, PathOf(c)) /\ Todo(c) # <<>>
  BY <1>1, CallerBelongs DEF AtChunk
<1>3. proc[c].cmd \in Command /\ PathOf(c) \in Path
  BY <1>1, <1>2, ProcessIs, CommandIs DEF PathOf
<1>4. Fits(PathOf(c), disk[s][h], s)
  BY <1>1, <1>2, <1>3 DEF ServiceInv, ChunksFit
<1>5. disk[s][h] \in Seq(Byte)
  BY <1>1 DEF ServiceTyped
<1> QED
  BY <1>3, <1>4, <1>5 DEF Fits, PathOf, Op

LEMMA ReplyRests ==
  ASSUME ServiceTyped, NEW c \in Client, Todo(c) # <<>>, Proceed(c, <<>>)
  PROVE  Sets(c, Rest(c))
<1>1. <<>> \in Seq(Calls)
  OBVIOUS
<1> QED
  BY <1>1, ProceedSets

LEMMA StoreStores ==
  ASSUME ServiceInv, NEW c \in Client, NEW s \in Server,
         NEW h \in 1 .. nextHandle - 1, NEW loc \in Places, NEW k \in 0 .. Replicas,
         AtChunk(c, h, loc, k), Head(Todo(c)).handle = h,
         Op(c) \in {"create", "write", "append"},
         Op(c) # "create" => h \in DOMAIN disk[s],
         NEW contents, contents = NewContents(c, s, h), Store(c, s, contents)
  PROVE  Stores(c, s, h) /\ UNCHANGED <<files, masterUp, nextHandle, commands>>
<1>1. Todo(c) # <<>> /\ ServiceTyped
  BY DEF AtChunk, ServiceInv
<1>2. Sets(c, Rest(c))
  BY <1>1, ReplyRests DEF Store
<1>3. disk' = [disk EXCEPT ![s] = Put(@, h, NewContents(c, s, h))]
  BY DEF Store, Todo
<1> QED
  BY <1>2, <1>3 DEF Stores, Store

LEMMA OverwriteReplaces ==
  ASSUME NEW old \in Seq(Byte), NEW new \in Seq(Byte), Len(old) <= Len(new)
  PROVE  Overwrite(old, new) = new
<1>1. SubSeq(old, Len(new) + 1, Len(old)) = <<>>
  <2>1. Len(new) + 1 > Len(old) /\ Len(old) \in Nat /\ Len(new) \in Nat
    OBVIOUS
  <2> QED
    BY <2>1, SubSeqProperties
<1>2. new \o <<>> = new
  OBVIOUS
<1> QED
  BY <1>1, <1>2 DEF Overwrite

LEMMA SpaceIsLeft ==
  ASSUME ServiceInv, NEW c \in Client, NEW h \in 1 .. nextHandle - 1, NEW loc \in Places,
         AtChunk(c, h, loc, 0), NEW s \in Server, h \in DOMAIN disk[s],
         AsksSpace(c, h, loc)
  PROVE  Len(proc[c].cmd.data) <= GFSChunkSize - Len(disk[s][h])
<1>1. ServiceTyped /\ 0 \in 0 .. Replicas
  BY PlaceIs DEF ServiceInv
<1>2. /\ disk[s][h] \in Seq(Byte) /\ proc[c].cmd \in Command /\ Fits(PathOf(c), disk[s][h], s)
  BY <1>1, ContentsFit
<1>3. Op(c) = "append" /\ Head(Todo(c)).op = "space" /\ Todo(c) # <<>>
  BY DEF AsksSpace, AtChunk
<1>4. c \in Pending(s)
  <2>1. 1 \in DOMAIN Todo(c) /\ Todo(c)[1].op = "space"
    BY <1>1, <1>3, ProcessIs
  <2> QED
    BY <1>3, <2>1 DEF Pending
<1>5. PICK m, a, d, n, q : /\ m = MaxCommands - 1 /\ a = Len(disk[s][h])
                           /\ d = Len(proc[c].cmd.data) /\ n = Cardinality(Pending(s))
                           /\ q = commands - 1
  OBVIOUS
<1>6. /\ a \in Nat /\ d \in Nat /\ n \in Nat \ {0} /\ commands \in 0 .. MaxCommands /\ MaxCommands \in Nat
      /\ n <= commands
  <2>1. a \in Nat
    BY <1>2, <1>5, LenProperties
  <2>2. d \in Nat
    BY <1>2, <1>5, CommandIs, LenProperties
  <2>3. n \in Nat /\ n <= Cardinality(Active) /\ Cardinality(Active) <= commands
        /\ n >= 1 /\ Cardinality(Active) \in Nat
    BY <1>4, <1>5, PendingCount
  <2>4. commands \in 0 .. MaxCommands /\ MaxCommands \in Nat
    BY <1>1, ClientAssumption DEF ServiceTyped, ClientAssumption
  <2> QED
    BY <2>1, <2>2, <2>3, <2>4
<1>7. m \in Nat /\ q \in Int /\ q <= m
  BY <1>5, <1>6
<1>8. m * a + GFSChunkSize * n <= GFSChunkSize * q
  BY <1>2, <1>3, <1>5 DEF Fits, PathOf, Op
<1>9. m * d <= GFSChunkSize
  BY <1>2, <1>3, <1>5, FittingAssumption DEF FittingAssumption, Op
<1>10. GFSChunkSize \in Nat \ {0}
  BY GfsAssumption DEF GfsAssumption
<1>11. d <= GFSChunkSize - a
  BY <1>6, <1>7, <1>8, <1>9, <1>10, RoomLeft
<1> QED
  BY <1>5, <1>11

LEMMA ChunkStepAnswers ==
  ASSUME ServiceInv, NEW c \in Client, NEW s \in Server, ChunkServerStep(c, s)
  PROVE  /\ proc[c].state # "idle" /\ proc[c].cmd \in Command
         /\ \E h \in 1 .. nextHandle - 1, loc \in Places, k \in 0 .. Replicas :
                ChunkAnswers(c, s, h, loc, k)
<1>1. ServiceTyped
  BY DEF ServiceInv
<1>2. PICK op \in {"create", "write", "append", "read", "space"} :
        /\ Serves(c, s, op)
        /\ \/ op = "create" /\ Create(c, s)
           \/ op = "write" /\ Write(c, s)
           \/ op = "append" /\ AppendTo(c, s)
           \/ op = "read" /\ Read(c, s)
           \/ op = "space" /\ GetChunkSpace(c, s)
  BY DEF ChunkServerStep, Create, Write, AppendTo, Read, GetChunkSpace, OnChunk, OnNoChunk
<1>3. /\ proc[c].state # "idle" /\ proc[c].cmd \in Command /\ Todo(c) # <<>>
      /\ \E h \in 1 .. nextHandle - 1, loc \in Places, k \in 0 .. Replicas :
              /\ AtChunk(c, h, loc, k) /\ Head(Todo(c)).handle = h
              /\ \/ /\ op = Op(c) /\ Follows(Todo(c), proc[c].cmd, h, loc, k)
                    /\ s = loc[k + 1] /\ Head(Todo(c)).data = Carried(proc[c].cmd)
                 \/ op = "space" /\ k = 0 /\ s = loc[1] /\ AsksSpace(c, h, loc)
  BY <1>2, ChunkServes
<1>4. PICK h \in 1 .. nextHandle - 1, loc \in Places, k \in 0 .. Replicas :
              /\ AtChunk(c, h, loc, k) /\ Head(Todo(c)).handle = h
              /\ \/ /\ op = Op(c) /\ Follows(Todo(c), proc[c].cmd, h, loc, k)
                    /\ s = loc[k + 1] /\ Head(Todo(c)).data = Carried(proc[c].cmd)
                 \/ op = "space" /\ k = 0 /\ s = loc[1] /\ AsksSpace(c, h, loc)
  BY <1>3
<1>5. /\ \A o : OnChunk(c, s, o) <=> Serves(c, s, o) /\ h \in DOMAIN disk[s]
      /\ \A o : OnNoChunk(c, s, o) <=> Serves(c, s, o) /\ h \notin DOMAIN disk[s]
      /\ Contents(c, s) = disk[s][h]
  BY <1>4 DEF OnChunk, OnNoChunk, Contents, Todo
<1>6. h \in DOMAIN disk[s] =>
        /\ disk[s][h] \in Seq(Byte)
        /\ Op(c) = "write" => Len(disk[s][h]) <= Len(proc[c].cmd.data)
  BY <1>4, ContentsFit
<1>7. CASE op = "create"
  <2>1. Op(c) = "create" /\ Follows(Todo(c), proc[c].cmd, h, loc, k) /\ s = loc[k + 1]
    BY <1>4, <1>7
  <2>2. PICK contents : contents = NewContents(c, s, h) /\ Store(c, s, contents)
    BY <1>2, <1>5, <1>7, <2>1 DEF Create, NewContents
  <2>3. Stores(c, s, h) /\ UNCHANGED <<files, masterUp, nextHandle, commands>>
    BY <1>4, <2>1, <2>2, StoreStores
  <2> QED
    BY <1>3, <1>4, <2>1, <2>3 DEF ChunkAnswers
<1>8. CASE op \in {"write", "append"}
  <2>1. Op(c) = op /\ Follows(Todo(c), proc[c].cmd, h, loc, k) /\ s = loc[k + 1]
        /\ Head(Todo(c)).data = proc[c].cmd.data
        /\ UpToBar(Head(Todo(c)).data) = proc[c].cmd.data
    <3>1. Head(Todo(c)).data = proc[c].cmd.data
      BY <1>4, <1>8 DEF Carried, Op
    <3>2. UpToBar(Head(Todo(c)).data) = proc[c].cmd.data
      BY <1>3, <3>1, WholeField
    <3> QED
      BY <1>4, <1>8, <3>1, <3>2 DEF Carried, Op
  <2>2. CASE h \notin DOMAIN disk[s]
    <3>1. Reply(c)
      BY <1>2, <1>5, <1>8, <2>2 DEF Write, AppendTo
    <3>2. Misses(c, s, h) /\ UNCHANGED <<files, masterUp, nextHandle, commands>>
      BY <1>1, <1>3, <1>8, <2>1, <2>2, <3>1, ReplyRests DEF Misses, Reply
    <3> QED
      BY <1>3, <1>4, <2>1, <3>2 DEF ChunkAnswers
  <2>3. CASE h \in DOMAIN disk[s]
    <3>1. op = "write" => Overwrite(disk[s][h], proc[c].cmd.data) = proc[c].cmd.data
      BY <1>3, <1>6, <2>1, <2>3, CommandIs, OverwriteReplaces
    <3>2. PICK contents : contents = NewContents(c, s, h) /\ Store(c, s, contents)
      <4>1. CASE op = "write"
        <5>1. Store(c, s, Overwrite(disk[s][h], proc[c].cmd.data))
          BY <1>2, <1>5, <2>1, <2>3, <4>1 DEF Write, Todo
        <5>2. NewContents(c, s, h) = proc[c].cmd.data
          BY <2>1, <2>3, <4>1 DEF NewContents
        <5> QED
          BY <3>1, <4>1, <5>1, <5>2
      <4>2. CASE op = "append"
        <5>1. Store(c, s, disk[s][h] \o proc[c].cmd.data)
          BY <1>2, <1>5, <2>1, <2>3, <4>2 DEF AppendTo, Todo
        <5>2. NewContents(c, s, h) = disk[s][h] \o proc[c].cmd.data
          BY <2>1, <2>3, <4>2 DEF NewContents
        <5> QED
          BY <5>1, <5>2
      <4> QED
        BY <1>8, <4>1, <4>2
    <3>3. Stores(c, s, h) /\ UNCHANGED <<files, masterUp, nextHandle, commands>>
      BY <1>4, <1>8, <2>1, <2>3, <3>2, StoreStores
    <3> QED
      BY <1>3, <1>4, <2>1, <3>3 DEF ChunkAnswers
  <2> QED
    BY <2>2, <2>3
<1>9. CASE op = "read"
  <2>1. Op(c) = "read" /\ Follows(Todo(c), proc[c].cmd, h, loc, k) /\ s = loc[k + 1]
    BY <1>4, <1>9
  <2>2. proc[c].got = <<>>
    BY <1>4, <2>1 DEF AtChunk
  <2> DEFINE got == IF OnChunk(c, s, "read") THEN Contents(c, s) ELSE <<ErrorText>>
  <2>3. got = Found(s, h)
    BY <1>2, <1>5, <1>9 DEF Found
  <2>4. /\ proc' = [proc EXCEPT ![c].todo = IF proc[c].state = "gone" THEN <<>> ELSE Tail(@),
                                ![c].got = IF proc[c].state = "gone" THEN @ ELSE @ \o got]
        /\ UNCHANGED <<files, masterUp, nextHandle, disk, commands>>
    BY <1>2, <1>9 DEF Read
  <2>5. proc[c].got \o Found(s, h) = Found(s, h)
    <3>1. Found(s, h) \in Seq(Byte \cup {ErrorText})
      BY <1>6, FoundTyped
    <3> QED
      BY <2>2, <3>1
  <2> HIDE DEF got
  <2>6. proc' = [proc EXCEPT ![c].todo = Rest(c),
                             ![c].got = IF proc[c].state = "gone" THEN @ ELSE Found(s, h)]
    <3>1. /\ proc \in [Client -> Processes]
          /\ proc[c] = [state |-> proc[c].state, cmd |-> proc[c].cmd, todo |-> proc[c].todo,
                        got |-> proc[c].got]
      BY <1>1 DEF ServiceTyped, Processes
    <3> QED
      BY <2>3, <2>4, <2>5, <3>1 DEF Rest, Todo
  <2>7. Reads(c, s, h)
    BY <2>1, <2>4, <2>6 DEF Reads
  <2> QED
    BY <1>3, <1>4, <2>1, <2>4, <2>7 DEF ChunkAnswers
<1>10. CASE op = "space"
  <2>1. k = 0 /\ s = loc[1] /\ AsksSpace(c, h, loc)
    <3>1. Op(c) # "space"
      BY <1>3, CommandIs DEF Op
    <3> QED
      BY <1>4, <1>10, <3>1
  <2>2. h \in DOMAIN disk[s] => Len(proc[c].cmd.data) <= GFSChunkSize - Len(Contents(c, s))
    BY <1>4, <1>5, <2>1, SpaceIsLeft
  <2>3. /\ proc' = [proc EXCEPT ![c].todo =
                        IF proc[c].state = "gone" THEN <<>>
                        ELSE IF h \notin DOMAIN disk[s] THEN <<>> ELSE Tail(Todo(c))]
        /\ UNCHANGED <<files, masterUp, nextHandle, disk, commands>>
    BY <1>2, <1>5, <1>10, <2>2 DEF GetChunkSpace, Todo
  <2>4. Sizes(c, s, h)
    BY <2>3 DEF Sizes, Sets
  <2> QED
    BY <1>3, <1>4, <2>1, <2>3, <2>4 DEF ChunkAnswers
<1> QED
  BY <1>2, <1>7, <1>8, <1>9, <1>10

-----------------------------------------------------------------------------
(* What every step keeps *)

\* What NextR says of the auxiliary variables.
Records ==
    /\ worked' = [c \in Client |-> proc'[c].state # "idle" /\ (worked[c] \/ Served(c))]
    /\ excused' = [c \in Client |->
            /\ proc'[c].state # "idle"
            /\ proc'[c].cmd.op \in {"write", "append", "read"}
            /\ LET p == proc'[c].cmd.path
               IN  \/ excused[c] \/ Deletes(p)
                   \/ proc[c].state = "idle" /\ ~(p \in DOMAIN files /\ HasFirstChunk(p))]

LEMMA RecordsOf ==
  ASSUME Records, NEW c \in Client
  PROVE  /\ worked' \in [Client -> BOOLEAN] /\ excused' \in [Client -> BOOLEAN]
         /\ worked'[c] <=> proc'[c].state # "idle" /\ (worked[c] \/ Served(c))
         /\ excused'[c] <=>
              /\ proc'[c].state # "idle" /\ proc'[c].cmd.op \in DataOps
              /\ \/ excused[c] \/ Deletes(proc'[c].cmd.path)
                 \/ /\ proc[c].state = "idle"
                    /\ ~(proc'[c].cmd.path \in DOMAIN files /\ HasFirstChunk(proc'[c].cmd.path))
<1>1. /\ worked' \in [Client -> BOOLEAN]
      /\ worked'[c] <=> proc'[c].state # "idle" /\ (worked[c] \/ Served(c))
  BY DEF Records
<1>2. /\ excused' \in [Client -> BOOLEAN]
      /\ excused'[c] <=>
              /\ proc'[c].state # "idle" /\ proc'[c].cmd.op \in DataOps
              /\ \/ excused[c] \/ Deletes(proc'[c].cmd.path)
                 \/ /\ proc[c].state = "idle"
                    /\ ~(proc'[c].cmd.path \in DOMAIN files /\ HasFirstChunk(proc'[c].cmd.path))
  BY DEF Records, DataOps
<1> QED
  BY <1>1, <1>2

\* Files stay, go, or come with the next handle.
FilesStay ==
    /\ nextHandle' \in {nextHandle, nextHandle + 1}
    /\ \A p \in DOMAIN files' :
        \/ p \in DOMAIN files /\ files'[p] = files[p]
        \/ p \notin DOMAIN files /\ HandleOf(p)' = nextHandle /\ nextHandle' = nextHandle + 1
ChunksStay == \A s \in Server : DOMAIN disk[s] \subseteq DOMAIN disk'[s]

LEMMA OthersKeep ==
  ASSUME ServiceInv, NEW d \in Client, proc'[d] = proc[d], proc[d].state # "idle",
         Records, FilesStay, ChunksStay
  PROVE  /\ Staged(d)' /\ Excusable(d)'
         /\ worked'[d] = worked[d]
         /\ excused'[d] <=> excused[d] \/ (Op(d) \in DataOps /\ Deletes(PathOf(d)))
<1>1. ServiceTyped /\ Staged(d) /\ Excusable(d)
  BY DEF ServiceInv
<1>2. /\ Op(d)' = Op(d) /\ PathOf(d)' = PathOf(d) /\ Todo(d)' = Todo(d)
      /\ nextHandle \in Nat /\ 1 .. nextHandle - 1 \subseteq 1 .. nextHandle' - 1
      /\ worked[d] \in BOOLEAN /\ excused[d] \in BOOLEAN
  BY <1>1 DEF Op, PathOf, Todo, FilesStay, ServiceTyped
<1>3. worked'[d] = worked[d]
  <2>1. ~Served(d)
    BY DEF Served
  <2>2. worked'[d] \in BOOLEAN /\ (worked'[d] <=> worked[d])
    BY <2>1, RecordsOf
  <2> QED
    BY <1>2, <2>2
<1>4. excused'[d] <=> excused[d] \/ (Op(d) \in DataOps /\ Deletes(PathOf(d)))
  <2>1. excused[d] => Op(d) \in DataOps
    BY <1>1 DEF Excusable
  <2> QED
    BY <2>1, RecordsOf DEF Op, PathOf
<1>5. Op(d) \in DataOps /\ ~excused'[d] =>
        /\ ~excused[d] /\ PathOf(d) \in DOMAIN files /\ PathOf(d) \in DOMAIN files'
        /\ files'[PathOf(d)] = files[PathOf(d)] /\ HasFirstChunk(PathOf(d))
  BY <1>1, <1>4 DEF Excusable, Deletes, FilesStay
<1>6. Excusable(d)'
  <2>1. excused'[d] => Op(d) \in DataOps
    BY <1>1, <1>4 DEF Excusable
  <2>2. Op(d) \in DataOps /\ ~excused'[d] => HasFirstChunk(PathOf(d))'
    <3> SUFFICES ASSUME Op(d) \in DataOps, ~excused'[d] PROVE HasFirstChunk(PathOf(d))'
      OBVIOUS
    <3>1. PICK p \in DOMAIN files : p = PathOf(d)
      BY <1>5
    <3>2. PICK h \in 1 .. nextHandle - 1, loc \in Places : files[p] = AddChunk(NewFile, h, loc)
      BY <1>1 DEF ServiceTyped
    <3>3. files'[p] = AddChunk(NewFile, h, loc) /\ HasFirstChunk(p)
      BY <1>5, <3>1, <3>2
    <3>4. h \in DOMAIN disk[loc[1]] /\ loc[1] \in Server
      BY <3>2, <3>3, DataIs, PlaceIs
    <3>5. h \in DOMAIN disk'[loc[1]]
      BY <3>4 DEF ChunksStay
    <3>6. HasFirstChunk(p)'
      BY <3>3, <3>5, DataThen
    <3>7. PathOf(d)' = p
      BY <1>2, <3>1
    <3> QED
      BY <3>6, <3>7 DEF HasFirstChunk
  <2>3. proc'[d].state = "running" /\ Todo(d)' = <<>> => worked'[d] \/ excused'[d]
    BY <1>1, <1>2, <1>3, <1>4 DEF Excusable
  <2> QED
    BY <1>2, <1>5, <2>1, <2>2, <2>3 DEF Excusable
<1>7. ASSUME NEW h \in 1 .. nextHandle - 1, NEW loc, NEW k, AtChunk(d, h, loc, k)
      PROVE  AtChunk(d, h, loc, k)'
  <2>1. \A p \in DOMAIN files' : HandleOf(p)' = h => files'[p] = AddChunk(NewFile, h, loc)
    <3> SUFFICES ASSUME NEW p \in DOMAIN files', HandleOf(p)' = h
                 PROVE  files'[p] = AddChunk(NewFile, h, loc)
      OBVIOUS
    <3>1. p \in DOMAIN files /\ files'[p] = files[p]
      BY <1>2 DEF FilesStay
    <3>2. HandleOf(p) = h
      BY <3>1 DEF HandleOf
    <3> QED
      BY <1>7, <3>1, <3>2 DEF AtChunk
  <2>2. Op(d) \in DataOps /\ ~excused'[d] => HandleOf(PathOf(d))' = h
    BY <1>2, <1>5, <1>7 DEF AtChunk, HandleOf
  <2>3. \/ Follows(Todo(d), proc[d].cmd, h, loc, k)'
        \/ k = 0 /\ AsksSpace(d, h, loc)'
    BY <1>7 DEF AtChunk, Follows, AsksSpace, Todo, Op
  <2> QED
    BY <1>2, <1>3, <1>5, <1>7, <2>1, <2>2, <2>3 DEF AtChunk
<1>8. Staged(d)'
  <2>1. CASE Todo(d) = <<>>
    BY <1>2, <2>1 DEF Staged
  <2>2. CASE Asking(d)
    BY <1>2, <1>3, <2>2 DEF Staged, Asking
  <2>3. CASE \E h \in 1 .. nextHandle - 1, loc \in Places, k \in 0 .. Replicas : AtChunk(d, h, loc, k)
    <3>1. PICK h \in 1 .. nextHandle - 1, loc \in Places, k \in 0 .. Replicas : AtChunk(d, h, loc, k)
      BY <2>3
    <3>2. AtChunk(d, h, loc, k)' /\ h \in 1 .. nextHandle' - 1
      BY <1>2, <1>7, <3>1
    <3> QED
      BY <3>2 DEF Staged
  <2> QED
    BY <1>1, <2>1, <2>2, <2>3 DEF Staged
<1> QED
  BY <1>3, <1>4, <1>6, <1>8

LEMMA CallsAt ==
  ASSUME ServiceTyped, NEW c \in Client, NEW h, NEW loc \in Places, NEW k \in 0 .. Replicas,
         AtChunk(c, h, loc, k), NEW i \in DOMAIN Todo(c)
  PROVE  Todo(c)[i].handle = h
<1>1. PICK t : t = Todo(c)
  OBVIOUS
<1>2. t \in Seq(Calls) /\ t # <<>> /\ DOMAIN t = 1 .. Len(t) /\ Len(t) \in Nat
  BY <1>1, ProcessIs, LenProperties DEF AtChunk
<1>3. CASE Follows(t, proc[c].cmd, h, loc, k)
  BY <1>1, <1>3 DEF Follows
<1>4. CASE AsksSpace(c, h, loc)
  <2>1. Head(t).handle = h /\ \A j \in DOMAIN Tail(t) : Tail(t)[j].handle = h
    <3>1. PICK r : r = Tail(t)
      OBVIOUS
    <3>2. Follows(r, proc[c].cmd, h, loc, 0)
      BY <1>1, <1>4, <3>1 DEF AsksSpace
    <3>3. \A j \in DOMAIN r : r[j].handle = h
      BY <3>2 DEF Follows
    <3>4. Head(t).handle = h
      BY <1>1, <1>4 DEF AsksSpace
    <3> QED
      BY <3>1, <3>3, <3>4
  <2>2. CASE i = 1
    BY <1>1, <1>2, <2>1, <2>2
  <2>3. CASE i # 1
    <3>1. i - 1 \in DOMAIN Tail(t) /\ Tail(t)[i - 1] = t[i]
      BY <1>1, <1>2, <2>3
    <3> QED
      BY <1>1, <2>1, <3>1
  <2> QED
    BY <2>2, <2>3
<1> QED
  BY <1>1, <1>3, <1>4 DEF AtChunk

LEMMA BelongsBelow ==
  ASSUME ServiceInv, NEW h, NEW p, Belongs(h, p)
  PROVE  h \in 1 .. nextHandle - 1
<1>1. ServiceTyped
  BY DEF ServiceInv
<1>2. CASE p \in DOMAIN files /\ HandleOf(p) = h
  BY <1>1, <1>2, FileIs
<1>3. ASSUME NEW c \in Client, CallsFor(c, h)
      PROVE  h \in 1 .. nextHandle - 1
  <2>1. PICK i \in DOMAIN Todo(c) : Todo(c)[i].to # Master /\ Todo(c)[i].handle = h
    BY <1>3 DEF CallsFor
  <2>2. Todo(c) # <<>>
    BY <2>1
  <2>3. proc[c].state # "idle"
    BY <1>1, <2>2, ProcessIs
  <2>4. ~Asking(c)
    BY <2>1, AskingIs
  <2>5. PICK x \in 1 .. nextHandle - 1, loc \in Places, k \in 0 .. Replicas : AtChunk(c, x, loc, k)
    BY <2>2, <2>3, <2>4 DEF ServiceInv, Staged
  <2> QED
    BY <1>1, <2>1, <2>5, CallsAt
<1> QED
  BY <1>2, <1>3 DEF Belongs

\* Only c takes part in a step.
Moves(c) == \A d \in Client : d # c => proc'[d] = proc[d]

LEMMA StepKeeps ==
  ASSUME ServiceInv, ServiceTyped', NEW c \in Client, Moves(c), Records, FilesStay, ChunksStay,
         proc'[c].state # "idle" => Staged(c)' /\ Excusable(c)',
         \A p \in DOMAIN files' : p \in DOMAIN files \/ p = PathOf(c)',
         \A h \in Nat : CallsFor(c, h)' =>
            \/ Belongs(h, PathOf(c)')
            \/ h = nextHandle /\ nextHandle' = nextHandle + 1,
         IsFiniteSet(Active'), Cardinality(Active') <= commands',
         \A s \in Server : nextHandle \notin DOMAIN disk'[s] \/ nextHandle' = nextHandle,
         \A h \in Nat, p \in Path, s \in Server :
            Belongs(h, p) /\ h \in DOMAIN disk'[s] => Fits(p, disk[s][h], s)'
  PROVE  ServiceInv'
<1>1. nextHandle \in Nat /\ ServiceTyped
  BY DEF ServiceInv, ServiceTyped
<1>2. ASSUME NEW h \in Nat, NEW p, Belongs(h, p)'
      PROVE  \/ Belongs(h, p)
             \/ h = nextHandle /\ nextHandle' = nextHandle + 1 /\ p = PathOf(c)'
  <2>1. CASE p \in DOMAIN files' /\ HandleOf(p)' = h
    BY <2>1 DEF FilesStay, HandleOf, Belongs
  <2>2. ASSUME NEW d \in Client, CallsFor(d, h)', PathOf(d)' = p, d # c
        PROVE  Belongs(h, p)
    <3>1. CallsFor(d, h) /\ PathOf(d) = p
      BY <2>2 DEF Moves, CallsFor, Todo, PathOf
    <3> QED
      BY <3>1 DEF Belongs
  <2>3. ASSUME CallsFor(c, h)', PathOf(c)' = p
        PROVE  \/ Belongs(h, p)
               \/ h = nextHandle /\ nextHandle' = nextHandle + 1 /\ p = PathOf(c)'
    BY <2>3
  <2> QED
    BY <1>2, <2>1, <2>2, <2>3 DEF Belongs
<1>3. \A d \in Client : proc'[d].state # "idle" => Staged(d)' /\ Excusable(d)'
  <2>1. \A d \in Client : d # c /\ proc'[d].state # "idle" => Staged(d)' /\ Excusable(d)'
    BY OthersKeep DEF Moves
  <2> QED
    BY <2>1
<1>4. OneFile'
  <2>1. ASSUME NEW h \in Nat, NEW p \in Path, NEW q \in Path, Belongs(h, p)', Belongs(h, q)'
        PROVE  p = q
    <3>1. \A x : Belongs(h, x) => h # nextHandle
      BY <1>1, BelongsBelow
    <3>2. Belongs(h, p) /\ Belongs(h, q) => p = q
      BY DEF ServiceInv, OneFile
    <3> QED
      BY <1>2, <2>1, <3>1, <3>2
  <2> QED
    BY <2>1 DEF OneFile
<1>5. ChunksFit'
  <2>1. ASSUME NEW h \in Nat, NEW p \in Path, NEW s \in Server, Belongs(h, p)', h \in DOMAIN disk'[s]
        PROVE  Fits(p, disk[s][h], s)'
    <3>1. Belongs(h, p)
      BY <1>1, <1>2, <2>1
    <3> QED
      BY <2>1, <3>1
  <2> QED
    BY <2>1 DEF ChunksFit
<1> QED
  BY <1>3, <1>4, <1>5 DEF ServiceInv

\* The calls that c will make are some of those it was to make.
Shortens(c) == \A i \in DOMAIN Todo(c)' : \E j \in DOMAIN Todo(c) : Todo(c)'[i] = Todo(c)[j]

\* c goes on with its command, or ends.
Continues(c) ==
    /\ Moves(c) /\ commands' = commands
    /\ proc[c].state # "idle" /\ (proc'[c].state # "idle" => proc'[c].cmd = proc[c].cmd)
    /\ Asking(c) \/ Shortens(c)

LEMMA ContinuesKeeps ==
  ASSUME ServiceInv, ServiceTyped', NEW c \in Client, Continues(c)
  PROVE  /\ Active' \subseteq Active /\ IsFiniteSet(Active') /\ Cardinality(Active') <= commands'
         /\ \A s \in Server :
              /\ Pending(s)' \subseteq Pending(s) /\ IsFiniteSet(Pending(s)')
              /\ Cardinality(Pending(s)') \in Nat
              /\ Cardinality(Pending(s)') <= Cardinality(Pending(s))
         /\ Shortens(c) => \A h : CallsFor(c, h)' => Belongs(h, PathOf(c)')
<1>1. IsFiniteSet(Active) /\ Cardinality(Active) <= commands /\ ServiceTyped
      /\ commands \in Nat
  BY DEF ServiceInv, ChunksFit, ServiceTyped
<1>2. Active' \subseteq Active
  BY DEF Continues, Moves, Active
<1>3. IsFiniteSet(Active') /\ Cardinality(Active') <= Cardinality(Active)
  BY <1>1, <1>2, FS_Subset
<1>4. Cardinality(Active') \in Nat /\ Cardinality(Active) \in Nat
  BY <1>1, <1>3, FS_CardinalityType
<1>5. Cardinality(Active') <= commands'
  BY <1>1, <1>3, <1>4 DEF Continues
<1>6. Todo(c)' # <<>> => proc'[c].state # "idle" /\ proc'[c].cmd = proc[c].cmd
  BY DEF ServiceTyped, NoProcess, Todo, Continues
<1>7. ASSUME NEW s \in Server PROVE Pending(s)' \subseteq Pending(s)
  <2> SUFFICES ASSUME NEW d \in Client, d \in Pending(s)' PROVE d \in Pending(s)
    BY DEF Pending
  <2>1. CASE d # c
    BY <2>1 DEF Pending, Op, Todo, Continues, Moves
  <2>2. CASE d = c
    <3>1. PICK i \in DOMAIN Todo(c)' : Todo(c)'[i].op = "space" \/ Todo(c)'[i].to \in {Master, s}
      BY <2>2 DEF Pending
    <3>2. Todo(c)' # <<>> /\ Op(c)' = "append"
      BY <2>2, <3>1 DEF Pending
    <3>3. Op(c) = "append"
      BY <1>6, <3>2 DEF Op
    <3>4. \E j \in DOMAIN Todo(c) : Todo(c)[j].op = "space" \/ Todo(c)[j].to \in {Master, s}
      <4>1. CASE Asking(c)
        BY <4>1, AskingIs
      <4>2. CASE Shortens(c)
        BY <3>1, <4>2 DEF Shortens
      <4> QED
        BY <4>1, <4>2 DEF Continues
    <3> QED
      BY <2>2, <3>3, <3>4 DEF Pending
  <2> QED
    BY <2>1, <2>2
<1>8. ASSUME NEW s \in Server
      PROVE  /\ IsFiniteSet(Pending(s)') /\ Cardinality(Pending(s)') \in Nat
             /\ Cardinality(Pending(s)') <= Cardinality(Pending(s))
  <2>1. IsFiniteSet(Pending(s))
    BY PendingCount
  <2>2. IsFiniteSet(Pending(s)') /\ Cardinality(Pending(s)') <= Cardinality(Pending(s))
    BY <1>7, <2>1, FS_Subset
  <2> QED
    BY <2>2, FS_CardinalityType
<1>9. ASSUME Shortens(c), NEW h, CallsFor(c, h)'
      PROVE  Belongs(h, PathOf(c)')
  <2>1. CallsFor(c, h) /\ Todo(c)' # <<>>
    BY <1>9 DEF CallsFor, Shortens
  <2>2. PathOf(c)' = PathOf(c)
    BY <1>6, <2>1 DEF PathOf
  <2> QED
    BY <2>1, <2>2 DEF Belongs
<1> QED
  BY <1>2, <1>3, <1>5, <1>7, <1>8, <1>9

LEMMA SharesKept ==
  ASSUME NEW n \in Nat, NEW m \in Nat, NEW k \in Nat, NEW l \in Nat, NEW g \in Nat,
         NEW a \in Int, m <= n + l - k, a + g * n <= g * (k - 1)
  PROVE  a + g * m <= g * (l - 1)
<1>1. g * (n + l - k - m) >= 0
  OBVIOUS
<1>2. g * (n + l - k - m) = g * n + g * l - g * k - g * m
      /\ g * (k - 1) = g * k - g /\ g * (l - 1) = g * l - g
      /\ g * n \in Int /\ g * l \in Int /\ g * k \in Int /\ g * m \in Int
  OBVIOUS
<1> QED
  BY <1>1, <1>2

\* Contents that fit go on to do so when fewer appends are pending.
LEMMA FitsStill ==
  ASSUME NEW p, NEW contents \in Seq(Byte), NEW s \in Server, Fits(p, contents, s),
         commands \in Nat, commands' \in Nat,
         Cardinality(Pending(s)) \in Nat, Cardinality(Pending(s)') \in Nat,
         Cardinality(Pending(s)') <= Cardinality(Pending(s)) + commands' - commands
  PROVE  Fits(p, contents, s)'
<1>1. PICK n, m, k, l, a : /\ n = Cardinality(Pending(s)) /\ m = Cardinality(Pending(s)')
                           /\ k = commands /\ l = commands'
                           /\ a = (MaxCommands - 1) * Len(contents)
  OBVIOUS
<1>2. n \in Nat /\ m \in Nat /\ k \in Nat /\ l \in Nat /\ m <= n + l - k
      /\ GFSChunkSize \in Nat /\ a \in Int
  <2>1. MaxCommands - 1 \in Int /\ Len(contents) \in Int
    BY ClientAssumption DEF ClientAssumption
  <2>2. a \in Int
    BY <1>1, <2>1
  <2> QED
    BY <1>1, <2>2, GfsAssumption DEF GfsAssumption
<1>3. a + GFSChunkSize * n <= GFSChunkSize * (k - 1)
        => a + GFSChunkSize * m <= GFSChunkSize * (l - 1)
  BY <1>2, SharesKept
<1>7. ASSUME NEW cmd \in Command, cmd.path = p, cmd.op = "append"
      PROVE  (MaxCommands - 1) * Len(contents) + GFSChunkSize * Cardinality(Pending(s)')
               <= GFSChunkSize * (commands' - 1)
  BY <1>1, <1>3, <1>7 DEF Fits
<1> QED
  BY <1>7 DEF Fits

LEMMA QuietKeeps ==
  ASSUME ServiceInv, ServiceTyped', NEW c \in Client, Continues(c), Records, FilesStay,
         UNCHANGED disk,
         proc'[c].state # "idle" => Staged(c)' /\ Excusable(c)',
         \A p \in DOMAIN files' : p \in DOMAIN files \/ p = PathOf(c)',
         \/ Shortens(c)
         \/ \A h \in Nat : CallsFor(c, h)' =>
              \/ Belongs(h, PathOf(c)')
              \/ h = nextHandle /\ nextHandle' = nextHandle + 1
  PROVE  ServiceInv'
<1>1. ServiceTyped /\ ChunksStay /\ commands \in Nat /\ commands' = commands /\ nextHandle \in Nat
  BY DEF ServiceInv, ServiceTyped, ChunksStay, Continues
<1>2. \A s \in Server : nextHandle \notin DOMAIN disk'[s]
  BY <1>1 DEF ServiceTyped
<1>3. ASSUME NEW h \in Nat, NEW p \in Path, NEW s \in Server, Belongs(h, p), h \in DOMAIN disk'[s]
      PROVE  Fits(p, disk[s][h], s)'
  <2>1. PICK x : x = disk[s][h]
    OBVIOUS
  <2>2. x \in Seq(Byte) /\ Fits(p, x, s)
    BY <1>1, <1>3, <2>1 DEF ServiceInv, ChunksFit, ServiceTyped
  <2>3. /\ Cardinality(Pending(s)) \in Nat /\ Cardinality(Pending(s)') \in Nat
        /\ Cardinality(Pending(s)') <= Cardinality(Pending(s)) + commands' - commands
    <3>1. /\ Cardinality(Pending(s)) \in Nat /\ Cardinality(Pending(s)') \in Nat
          /\ Cardinality(Pending(s)') <= Cardinality(Pending(s))
      BY PendingCount, ContinuesKeeps
    <3> QED
      BY <1>1, <3>1
  <2>4. Fits(p, x, s)'
    BY <1>1, <2>2, <2>3, FitsStill
  <2>5. x = disk'[s][h]
    BY <2>1
  <2> QED
    BY <2>4, <2>5 DEF Fits
<1> QED
  BY <1>1, <1>2, <1>3, ContinuesKeeps, StepKeeps DEF Continues

FilesTyped ==
    /\ DOMAIN files \subseteq Path /\ files = [p \in DOMAIN files |-> files[p]]
    /\ \A p \in DOMAIN files : \E h \in 1 .. nextHandle - 1, loc \in Places :
            files[p] = AddChunk(NewFile, h, loc)
DisksTyped ==
    /\ disk = [s \in Server |-> disk[s]]
    /\ \A s \in Server :
        disk[s] \in [DOMAIN disk[s] -> Seq(Byte)] /\ DOMAIN disk[s] \subseteq 1 .. nextHandle - 1

LEMMA StayTyped ==
  ASSUME ServiceInv, nextHandle' \in {nextHandle, nextHandle + 1}
  PROVE  (UNCHANGED files => FilesTyped') /\ (UNCHANGED disk => DisksTyped')
<1>1. FilesTyped /\ DisksTyped /\ nextHandle \in Nat
  BY DEF ServiceInv, ServiceTyped, FilesTyped, DisksTyped
<1>2. 1 .. nextHandle - 1 \subseteq 1 .. nextHandle' - 1
  <2>1. PICK n, m : n = nextHandle /\ m = nextHandle'
    OBVIOUS
  <2>2. n \in Nat /\ m \in Nat /\ n <= m
    BY <1>1, <2>1
  <2>3. 1 .. n - 1 \subseteq 1 .. m - 1
    BY <2>2
  <2> QED
    BY <2>1, <2>3
<1>3. ASSUME UNCHANGED files PROVE FilesTyped'
  <2>1. \A p \in DOMAIN files' : \E h \in 1 .. nextHandle' - 1, loc \in Places :
            files'[p] = AddChunk(NewFile, h, loc)
    BY <1>1, <1>2, <1>3 DEF FilesTyped
  <2> QED
    BY <1>1, <1>3, <2>1 DEF FilesTyped
<1>4. ASSUME UNCHANGED disk PROVE DisksTyped'
  BY <1>1, <1>2, <1>4 DEF DisksTyped
<1> QED
  BY <1>3, <1>4

LEMMA TypedThen ==
  ASSUME ServiceInv, NEW c \in Client, Moves(c), Records, UNCHANGED masterUp,
         commands' \in 0 .. MaxCommands, proc' \in [Client -> Processes],
         IF proc'[c].state = "idle" THEN proc'[c] = NoProcess ELSE proc'[c].cmd \in Command,
         nextHandle' \in {nextHandle, nextHandle + 1}, FilesTyped', DisksTyped'
  PROVE  ServiceTyped'
<1>1. ServiceTyped /\ nextHandle' \in Nat \ {0} /\ masterUp' = TRUE
  BY DEF ServiceInv, ServiceTyped
<1>2. worked' \in [Client -> BOOLEAN] /\ excused' \in [Client -> BOOLEAN]
  BY RecordsOf
<1>3. ASSUME NEW d \in Client
      PROVE  IF proc'[d].state = "idle"
             THEN proc'[d] = NoProcess /\ ~worked'[d] /\ ~excused'[d]
             ELSE proc'[d].cmd \in Command
  <2>1. IF proc'[d].state = "idle" THEN proc'[d] = NoProcess ELSE proc'[d].cmd \in Command
    BY <1>1 DEF Moves, ServiceTyped
  <2>2. proc'[d].state = "idle" => ~worked'[d] /\ ~excused'[d]
    BY RecordsOf
  <2> QED
    BY <2>1, <2>2
<1> QED
  BY <1>1, <1>2, <1>3 DEF ServiceTyped, FilesTyped, DisksTyped

LEMMA SetsTyped ==
  ASSUME ServiceInv, NEW c \in Client, proc[c].state # "idle",
         NEW todo \in Seq(Calls), Sets(c, todo), Records,
         UNCHANGED <<masterUp, commands>>, nextHandle' \in {nextHandle, nextHandle + 1},
         FilesTyped', DisksTyped'
  PROVE  /\ ServiceTyped' /\ Moves(c)
         /\ Todo(c)' = todo /\ proc'[c].state = proc[c].state
         /\ proc'[c].cmd = proc[c].cmd /\ proc'[c].got = proc[c].got
         /\ Op(c)' = Op(c) /\ PathOf(c)' = PathOf(c)
<1>1. ServiceTyped
  BY DEF ServiceInv
<1>2. /\ proc' \in [Client -> Processes]
      /\ proc'[c].todo = todo /\ proc'[c].state = proc[c].state
      /\ proc'[c].cmd = proc[c].cmd /\ proc'[c].got = proc[c].got
      /\ \A d \in Client : d # c => proc'[d] = proc[d]
  BY <1>1, SetsTodo
<1>3. proc[c].cmd \in Command /\ commands' \in 0 .. MaxCommands
  BY <1>1 DEF ServiceTyped
<1>4. Moves(c)
  BY <1>2 DEF Moves
<1>5. ServiceTyped'
  BY <1>2, <1>3, <1>4, TypedThen
<1> QED
  BY <1>2, <1>4, <1>5 DEF Todo, Op, PathOf

LEMMA StartKeeps ==
  ASSUME ServiceInv, Records, NEW c \in Client, NEW cmd \in Command, Start(c, cmd)
  PROVE  ServiceInv'
<1>1. /\ ServiceTyped /\ proc \in [Client -> Processes] /\ nextHandle \in Nat
      /\ commands \in Nat /\ MaxCommands \in Nat
  BY ClientAssumption DEF ServiceInv, ServiceTyped, ClientAssumption
<1>2. PICK call : call = FirstCall(cmd.op)
  OBVIOUS
<1>3. call \in Calls /\ call.to = Master /\ call.op = cmd.op
  <2>1. <<>> \in Seq(Byte)
    OBVIOUS
  <2> QED
    BY <1>2, <2>1, CommandIs DEF FirstCall, ToMaster, Calls
<1>4. /\ proc' = [proc EXCEPT ![c] = [state |-> "running", cmd |-> cmd, todo |-> << call >>, got |-> <<>>]]
      /\ proc[c].state = "idle" /\ commands < MaxCommands /\ commands' = commands + 1
      /\ UNCHANGED <<files, masterUp, nextHandle, disk>>
  BY <1>2 DEF Start, FirstCall
<1>5. << call >> \in Seq(Calls) /\ << call >> # <<>> /\ DOMAIN << call >> = {1} /\ << call >>[1] = call
  BY <1>3
<1>6. /\ proc'[c] = [state |-> "running", cmd |-> cmd, todo |-> << call >>, got |-> <<>>]
      /\ Moves(c) /\ proc' \in [Client -> Processes]
  <2>1. <<>> \in Seq(Byte \cup {ErrorText})
    OBVIOUS
  <2>2. [state |-> "running", cmd |-> cmd, todo |-> << call >>, got |-> <<>>] \in Processes
    BY <1>5, <2>1 DEF Processes
  <2> QED
    BY <1>1, <1>4, <2>2 DEF Moves
<1>7. /\ proc'[c].state = "running" /\ proc'[c].cmd = cmd /\ Todo(c)' = << call >>
      /\ proc'[c].got = <<>> /\ Op(c)' = cmd.op /\ PathOf(c)' = cmd.path
  BY <1>6 DEF Todo, Op, PathOf
<1>8. ServiceTyped'
  <2>1. FilesTyped' /\ DisksTyped' /\ nextHandle' = nextHandle /\ commands' \in 0 .. MaxCommands
    BY <1>1, <1>4, StayTyped
  <2> QED
    BY <1>4, <1>6, <1>7, <2>1, TypedThen
<1>9. FilesStay /\ ChunksStay
  BY <1>4 DEF FilesStay, ChunksStay
<1>10. ~worked'[c]
  <2>1. ~worked[c] /\ Todo(c) = <<>>
    BY <1>1, <1>4, ProcessIs
  <2>2. ~Served(c)
    BY <2>1 DEF Served, Todo
  <2> QED
    BY <2>1, <2>2, RecordsOf
<1>11. Staged(c)'
  BY <1>2, <1>7, <1>10 DEF Staged, Asking
<1>12. Excusable(c)'
  <2>1. excused'[c] <=> Op(c)' \in DataOps /\ ~(PathOf(c)' \in DOMAIN files /\ HasFirstChunk(PathOf(c)'))
    <3>1. ~excused[c] /\ ~Deletes(proc'[c].cmd.path)
      BY <1>1, <1>4, ProcessIs DEF Deletes
    <3> QED
      BY <1>4, <1>7, <3>1, RecordsOf DEF Op, PathOf
  <2>2. PathOf(c)' \in DOMAIN files /\ HasFirstChunk(PathOf(c)')
          => PathOf(c)' \in DOMAIN files' /\ HasFirstChunk(PathOf(c))'
    BY <1>4 DEF HasFirstChunk
  <2>3. Todo(c)' # <<>>
    BY <1>5, <1>7
  <2> QED
    BY <2>1, <2>2, <2>3 DEF Excusable
<1>13. \A h \in Nat : ~CallsFor(c, h)'
  BY <1>3, <1>5, <1>7 DEF CallsFor
<1>14. IsFiniteSet(Active') /\ Cardinality(Active') <= commands'
  <2>1. IsFiniteSet(Active) /\ Cardinality(Active) <= commands
    BY DEF ServiceInv, ChunksFit
  <2>2. Active' = Active \cup {c}
    BY <1>6, <1>7 DEF Active, Moves
  <2>3. IsFiniteSet(Active') /\ (Cardinality(Active') = Cardinality(Active) \/ Cardinality(Active') = Cardinality(Active) + 1)
    BY <2>1, <2>2, FS_AddElement
  <2> QED
    BY <1>1, <1>4, <2>1, <2>3, FS_CardinalityType
<1>15. ASSUME NEW h \in Nat, NEW p \in Path, NEW s \in Server, Belongs(h, p), h \in DOMAIN disk'[s]
       PROVE  Fits(p, disk[s][h], s)'
  <2>1. PICK x : x = disk[s][h]
    OBVIOUS
  <2>2. x \in Seq(Byte) /\ Fits(p, x, s) /\ x = disk'[s][h]
    BY <1>1, <1>4, <1>15, <2>1 DEF ServiceInv, ChunksFit, ServiceTyped
  <2>3. Pending(s)' \subseteq Pending(s) \cup {c}
    BY <1>6 DEF Pending, Moves, Op, Todo
  <2>4. IsFiniteSet(Pending(s)) /\ Cardinality(Pending(s)) \in Nat
    BY PendingCount
  <2>5. /\ IsFiniteSet(Pending(s) \cup {c})
        /\ \/ Cardinality(Pending(s) \cup {c}) = Cardinality(Pending(s))
           \/ Cardinality(Pending(s) \cup {c}) = Cardinality(Pending(s)) + 1
    BY <2>4, FS_AddElement
  <2>6. IsFiniteSet(Pending(s)') /\ Cardinality(Pending(s)') <= Cardinality(Pending(s) \cup {c})
    BY <2>3, <2>5, FS_Subset
  <2>7. Cardinality(Pending(s)') \in Nat
    BY <2>6, FS_CardinalityType
  <2>8. Cardinality(Pending(s)') <= Cardinality(Pending(s)) + commands' - commands
    BY <1>1, <1>4, <2>4, <2>5, <2>6, <2>7
  <2>9. Fits(p, x, s)'
    BY <1>1, <1>4, <2>2, <2>4, <2>7, <2>8, FitsStill
  <2> QED
    BY <2>2, <2>9 DEF Fits
<1> QED
  BY <1>4, <1>6, <1>8, <1>9, <1>11, <1>12, <1>13, <1>14, <1>15, StepKeeps

LEMMA EndKeeps ==
  ASSUME ServiceInv, Records, NEW c \in Client, proc[c].state # "idle",
         proc' = [proc EXCEPT ![c] = NoProcess],
         UNCHANGED <<files, masterUp, nextHandle, disk, commands>>
  PROVE  ServiceInv'
<1>1. /\ ServiceTyped /\ proc \in [Client -> Processes] /\ commands \in 0 .. MaxCommands
  BY DEF ServiceInv, ServiceTyped
<1>2. NoProcess \in Processes /\ NoProcess.state = "idle" /\ NoProcess.todo = <<>>
  BY DEF NoProcess, Processes
<1>3. /\ proc'[c] = NoProcess /\ Moves(c) /\ proc' \in [Client -> Processes]
      /\ proc'[c].state = "idle" /\ Todo(c)' = <<>>
  BY <1>1, <1>2 DEF Moves, Todo
<1>4. ServiceTyped'
  <2>1. FilesTyped' /\ DisksTyped' /\ nextHandle' = nextHandle /\ commands' \in 0 .. MaxCommands
    BY <1>1, StayTyped
  <2> QED
    BY <1>3, <2>1, TypedThen
<1>5. FilesStay
  BY DEF FilesStay
<1>6. Shortens(c)
  BY <1>3 DEF Shortens
<1>7. Continues(c)
  BY <1>3, <1>6 DEF Continues
<1> QED
  BY <1>3, <1>4, <1>5, <1>6, <1>7, QuietKeeps

LEMMA GiveUpKeeps ==
  ASSUME ServiceInv, Records, NEW c \in Client, GiveUp(c)
  PROVE  /\ ServiceInv' /\ Moves(c)
         /\ proc'[c].state = "gone" /\ proc'[c].cmd = proc[c].cmd /\ proc'[c].got = proc[c].got
         /\ worked'[c] = worked[c] /\ excused'[c] = excused[c]
<1>1. /\ ServiceTyped /\ proc \in [Client -> Processes] /\ commands \in 0 .. MaxCommands
      /\ Staged(c) /\ Excusable(c) /\ nextHandle \in Nat
      /\ worked[c] \in BOOLEAN /\ excused[c] \in BOOLEAN
  BY DEF ServiceInv, ServiceTyped, GiveUp
<1>2. /\ proc[c] = [state |-> proc[c].state, cmd |-> proc[c].cmd, todo |-> proc[c].todo,
                    got |-> proc[c].got]
      /\ proc[c].state = "running" /\ proc[c].cmd \in Command
      /\ proc[c].got \in Seq(Byte \cup {ErrorText})
  BY <1>1, ProcessIs DEF Processes, GiveUp
<1>3. PICK t, r : t = Todo(c) /\ r = << Head(t) >>
  OBVIOUS
<1>4. t \in Seq(Calls) /\ t # <<>> /\ Head(t) \in Calls /\ Head(t) = t[1] /\ 1 \in DOMAIN t
      /\ Len(t) \in Nat \ {0}
  BY <1>1, <1>3, ProcessIs DEF GiveUp, Todo
<1>5. r \in Seq(Calls) /\ r # <<>> /\ DOMAIN r = {1} /\ r[1] = t[1] /\ Len(r) = 1
      /\ Head(r) = t[1] /\ Tail(r) = <<>>
  BY <1>3, <1>4
<1>6. /\ proc' = [proc EXCEPT ![c].state = "gone", ![c].todo = r]
      /\ UNCHANGED <<files, masterUp, nextHandle, disk, commands>>
  <2>1. \A x \in Processes : [[x EXCEPT !.state = "gone"] EXCEPT !.todo = << Head(@) >>]
                               = [[x EXCEPT !.state = "gone"] EXCEPT !.todo = << Head(x.todo) >>]
    BY DEF Processes
  <2> QED
    BY <1>1, <1>3, <2>1 DEF GiveUp, Todo
<1>7. /\ proc'[c] = [state |-> "gone", cmd |-> proc[c].cmd, todo |-> r, got |-> proc[c].got]
      /\ Moves(c) /\ proc' \in [Client -> Processes]
  <2>1. [state |-> "gone", cmd |-> proc[c].cmd, todo |-> r, got |-> proc[c].got] \in Processes
    BY <1>2, <1>5 DEF Processes
  <2>2. proc'[c] = [state |-> "gone", cmd |-> proc[c].cmd, todo |-> r, got |-> proc[c].got]
    BY <1>1, <1>2, <1>6
  <2> QED
    BY <1>1, <1>6, <2>1, <2>2 DEF Moves
<1>8. /\ proc'[c].state = "gone" /\ proc'[c].cmd = proc[c].cmd /\ Todo(c)' = r
      /\ proc'[c].got = proc[c].got /\ Op(c)' = Op(c) /\ PathOf(c)' = PathOf(c)
  BY <1>7 DEF Todo, Op, PathOf
<1>9. ServiceTyped'
  <2>1. FilesTyped' /\ DisksTyped' /\ nextHandle' = nextHandle /\ commands' \in 0 .. MaxCommands
    BY <1>1, <1>6, StayTyped
  <2> QED
    BY <1>2, <1>6, <1>7, <1>8, <2>1, TypedThen
<1>10. worked'[c] = worked[c] /\ excused'[c] = excused[c]
  <2>1. ~Served(c) /\ ~Deletes(proc'[c].cmd.path)
    BY <1>2, <1>6, <1>8 DEF Served, Deletes
  <2>2. excused[c] => Op(c) \in DataOps
    BY <1>1 DEF Excusable
  <2>3. (worked'[c] <=> worked[c]) /\ worked'[c] \in BOOLEAN
    BY <1>2, <1>8, <2>1, RecordsOf
  <2>4. (excused'[c] <=> excused[c]) /\ excused'[c] \in BOOLEAN
    BY <1>2, <1>8, <2>1, <2>2, RecordsOf DEF Op
  <2> QED
    BY <1>1, <2>3, <2>4
<1>11. Excusable(c)'
  BY <1>1, <1>6, <1>8, <1>10 DEF Excusable, HasFirstChunk
<1>12. Staged(c)'
  <2>1. CASE Asking(c)
    <3>1. r = << FirstCall(Op(c)) >>
      BY <1>3, <2>1, AskingIs
    <3> QED
      BY <1>8, <1>10, <2>1, <3>1 DEF Asking, Staged
  <2>2. ASSUME NEW h \in 1 .. nextHandle - 1, NEW loc \in Places, NEW k \in 0 .. Replicas,
               AtChunk(c, h, loc, k)
        PROVE  AtChunk(c, h, loc, k)'
    <3>1. CASE Follows(t, proc[c].cmd, h, loc, k)
      <4>1. Follows(r, proc[c].cmd, h, loc, k)
        <5>1. Width(Op(c)) \in Nat
          BY PlaceIs DEF Width
        <5> QED
          BY <1>4, <1>5, <3>1, <5>1 DEF Follows, Op
      <4>2. Follows(Todo(c), proc[c].cmd, h, loc, k)'
        BY <1>8, <4>1 DEF Follows
      <4> QED
        BY <1>5, <1>6, <1>8, <1>10, <2>2, <4>2 DEF AtChunk, HandleOf
    <3>2. CASE k = 0 /\ AsksSpace(c, h, loc)
      <4>1. Follows(<<>>, proc[c].cmd, h, loc, 0)
        <5>1. Width(Op(c)) \in Nat
          BY PlaceIs DEF Width
        <5> QED
          BY <5>1 DEF Follows, Op
      <4>2. Follows(Tail(r), proc'[c].cmd, h, loc, 0)
        BY <1>5, <1>8, <4>1
      <4>3. Head(r) = [to |-> loc[1], op |-> "space", handle |-> h, data |-> <<>>]
        BY <1>3, <1>4, <1>5, <3>2 DEF AsksSpace
      <4>4. AsksSpace(c, h, loc)'
        BY <1>8, <3>2, <4>2, <4>3 DEF AsksSpace
      <4> QED
        BY <1>5, <1>6, <1>8, <1>10, <2>2, <3>2, <4>4 DEF AtChunk, HandleOf
    <3> QED
      BY <1>3, <2>2, <3>1, <3>2 DEF AtChunk
  <2> QED
    BY <1>1, <1>3, <1>4, <1>6, <2>1, <2>2 DEF Staged
<1>13. FilesStay
  BY <1>6 DEF FilesStay
<1>14. Shortens(c)
  BY <1>3, <1>4, <1>5, <1>8 DEF Shortens
<1>15. Continues(c)
  BY <1>2, <1>6, <1>7, <1>8, <1>14 DEF Continues
<1>16. ServiceInv'
  BY <1>6, <1>9, <1>11, <1>12, <1>13, <1>14, <1>15, QuietKeeps
<1> QED
  BY <1>7, <1>8, <1>10, <1>16

-----------------------------------------------------------------------------
(* The steps keep the invariant *)

\* A command is excused when its file goes, and not in other steps.
LEMMA ExcusedThen ==
  ASSUME ServiceInv, Records, NEW c \in Client, proc[c].state # "idle",
         proc'[c].state = proc[c].state, proc'[c].cmd = proc[c].cmd
  PROVE  /\ worked'[c] <=> worked[c] \/ Served(c)
         /\ worked'[c] \in BOOLEAN /\ excused'[c] \in BOOLEAN
         /\ excused'[c] <=> excused[c] \/ (Op(c) \in DataOps /\ Deletes(PathOf(c)))
<1>1. excused[c] => Op(c) \in DataOps
  BY DEF ServiceInv, Excusable
<1> QED
  BY <1>1, RecordsOf DEF Op, PathOf

LEMMA AskerServed ==
  ASSUME ServiceInv, NEW c \in Client, Asking(c), Todo(c)' # Todo(c),
         proc'[c].state = proc[c].state
  PROVE  Served(c) <=> Op(c) \notin DataOps
  BY AskingIs DEF Served, Todo, Op, DataOps, FirstCall, ToMaster

LEMMA DeclinesKeeps ==
  ASSUME ServiceInv, Records, NEW c \in Client, Asking(c), proc[c].state # "idle", Declines(c)
  PROVE  /\ ServiceInv' /\ Moves(c)
         /\ proc'[c].state = proc[c].state /\ proc'[c].cmd = proc[c].cmd
         /\ proc'[c].got = proc[c].got
         /\ excused'[c] = excused[c] /\ (Op(c) \in DataOps => excused[c])
         /\ worked'[c] <=> Op(c) \notin DataOps
<1>1. /\ ServiceTyped /\ Excusable(c) /\ excused[c] \in BOOLEAN
  BY DEF ServiceInv, ServiceTyped
<1>2. <<>> \in Seq(Calls) /\ Sets(c, <<>>)
      /\ UNCHANGED <<masterUp, disk, commands, files, nextHandle>>
  BY DEF Declines, Answers
<1>3. /\ ServiceTyped' /\ Moves(c)
      /\ Todo(c)' = <<>> /\ proc'[c].state = proc[c].state
      /\ proc'[c].cmd = proc[c].cmd /\ proc'[c].got = proc[c].got
      /\ Op(c)' = Op(c) /\ PathOf(c)' = PathOf(c)
  BY <1>2, StayTyped, SetsTyped
<1>4. excused'[c] = excused[c]
  <2>1. ~Deletes(PathOf(c))
    BY <1>2 DEF Deletes
  <2> QED
    BY <1>1, <1>3, <2>1, ExcusedThen
<1>5. worked'[c] <=> Op(c) \notin DataOps
  BY <1>3, AskerServed, AskingIs, ExcusedThen
<1>6. Op(c) \in DataOps => excused[c]
  BY <1>1 DEF Declines, Excusable, DataOps
<1>7. Staged(c)' /\ Excusable(c)'
  BY <1>1, <1>3, <1>4, <1>5, <1>6 DEF Staged, Excusable
<1>8. FilesStay
  BY <1>2 DEF FilesStay
<1>9. Shortens(c)
  BY <1>3 DEF Shortens
<1>10. Continues(c)
  BY <1>2, <1>3, <1>9 DEF Continues
<1>11. ServiceInv'
  BY <1>2, <1>3, <1>7, <1>8, <1>9, <1>10, QuietKeeps
<1> QED
  BY <1>3, <1>4, <1>5, <1>6, <1>11

LEMMA RemovesKeeps ==
  ASSUME ServiceInv, Records, NEW c \in Client, Asking(c), proc[c].state # "idle", Removes(c)
  PROVE  /\ ServiceInv' /\ Moves(c)
         /\ proc'[c].state = proc[c].state /\ proc'[c].cmd = proc[c].cmd
         /\ proc'[c].got = proc[c].got
         /\ excused'[c] = excused[c] /\ worked'[c]
         /\ DOMAIN files' = DOMAIN files \ {PathOf(c)}
         /\ \A p \in DOMAIN files' : files'[p] = files[p]
<1>1. /\ ServiceTyped /\ Excusable(c) /\ excused[c] \in BOOLEAN /\ FilesTyped
  BY DEF ServiceInv, ServiceTyped, FilesTyped
<1>2. <<>> \in Seq(Calls) /\ Sets(c, <<>>) /\ UNCHANGED <<masterUp, disk, commands, nextHandle>>
  BY DEF Removes, Answers
<1>3. PICK dom : dom = DOMAIN files \ {PathOf(c)}
  OBVIOUS
<1>4. files' = [p \in dom |-> files[p]]
  BY <1>3 DEF Removes, Without, Restrict
<1>5. /\ DOMAIN files' = dom /\ \A p \in DOMAIN files' : files'[p] = files[p]
      /\ dom \subseteq DOMAIN files
  BY <1>3, <1>4
<1>6. FilesTyped'
  <2>1. files' = [p \in DOMAIN files' |-> files'[p]]
    BY <1>4
  <2>2. \A p \in DOMAIN files' : \E h \in 1 .. nextHandle' - 1, loc \in Places :
            files'[p] = AddChunk(NewFile, h, loc)
    BY <1>1, <1>2, <1>5 DEF FilesTyped
  <2> QED
    BY <1>1, <1>5, <2>1, <2>2 DEF FilesTyped
<1>7. /\ ServiceTyped' /\ Moves(c)
      /\ Todo(c)' = <<>> /\ proc'[c].state = proc[c].state
      /\ proc'[c].cmd = proc[c].cmd /\ proc'[c].got = proc[c].got
      /\ Op(c)' = Op(c) /\ PathOf(c)' = PathOf(c)
  BY <1>2, <1>6, StayTyped, SetsTyped
<1>8. Op(c) = "delete" /\ Op(c) \notin DataOps
  BY DEF Removes, DataOps
<1>9. excused'[c] = excused[c] /\ worked'[c]
  BY <1>1, <1>7, <1>8, AskerServed, AskingIs, ExcusedThen
<1>10. Staged(c)' /\ Excusable(c)'
  BY <1>1, <1>7, <1>8, <1>9 DEF Staged, Excusable
<1>11. FilesStay
  BY <1>2, <1>5 DEF FilesStay
<1>12. Shortens(c)
  BY <1>7 DEF Shortens
<1>13. Continues(c)
  BY <1>2, <1>7, <1>12 DEF Continues
<1>14. \A p \in DOMAIN files' : p \in DOMAIN files
  BY <1>5
<1>15. ServiceInv'
  BY <1>2, <1>7, <1>10, <1>11, <1>12, <1>13, <1>14, QuietKeeps
<1> QED
  BY <1>3, <1>5, <1>7, <1>9, <1>15

LEMMA CreatesKeeps ==
  ASSUME ServiceInv, Records, NEW c \in Client, Asking(c), proc[c].state # "idle",
         NEW loc \in Places, Creates(c, loc)
  PROVE  /\ ServiceInv' /\ Moves(c)
         /\ proc'[c].state = proc[c].state /\ proc'[c].cmd = proc[c].cmd
         /\ proc'[c].got = proc[c].got
         /\ excused'[c] = excused[c] /\ worked'[c]
         /\ DOMAIN files' = DOMAIN files \cup {PathOf(c)}
         /\ files'[PathOf(c)] = AddChunk(NewFile, nextHandle, loc)
         /\ \A p \in DOMAIN files : files'[p] = files[p] /\ p # PathOf(c)
<1>1. /\ ServiceTyped /\ Excusable(c) /\ excused[c] \in BOOLEAN /\ FilesTyped
      /\ nextHandle \in Nat \ {0} /\ proc[c].cmd \in Command
  BY DEF ServiceInv, ServiceTyped, FilesTyped
<1>2. PICK f, dom : f = AddChunk(NewFile, nextHandle, loc) /\ dom = DOMAIN files \cup {PathOf(c)}
  OBVIOUS
<1>3. PICK each : each = ToEach(loc, "create", nextHandle, <<>>)
  OBVIOUS
<1>4. /\ each \in Seq(Calls) /\ Len(each) = Replicas /\ DOMAIN each = 1 .. Replicas
      /\ \A i \in 1 .. Replicas : each[i] = [to |-> loc[i], op |-> "create", handle |-> nextHandle,
                                             data |-> <<>>]
  <2>1. PICK data : data = <<>>
    OBVIOUS
  <2>2. data \in Seq(Byte) /\ nextHandle \in Nat /\ each = ToEach(loc, "create", nextHandle, data)
    BY <1>1, <1>3, <2>1
  <2>3. each \in Seq(Calls) /\ Len(each) = Replicas /\ DOMAIN each = 1 .. Replicas
    BY <2>2, EachCall
  <2>4. \A i \in 1 .. Replicas : each[i] = [to |-> loc[i], op |-> "create", handle |-> nextHandle,
                                            data |-> data]
    BY <2>2 DEF ToEach
  <2> QED
    BY <2>1, <2>3, <2>4
<1>5. Op(c) = "create" /\ Op(c) \notin DataOps /\ PathOf(c) \notin DOMAIN files
      /\ PathOf(c) \in Path
  BY <1>1, CommandIs DEF Creates, DataOps, PathOf
<1>6. /\ files' = Put(files, PathOf(c), f) /\ nextHandle' = nextHandle + 1
      /\ Sets(c, IF proc[c].state = "gone" THEN <<>> ELSE each)
      /\ UNCHANGED <<masterUp, disk, commands>>
  BY <1>2, <1>3 DEF Creates, Answers
<1>7. /\ DOMAIN files' = dom /\ files'[PathOf(c)] = f
      /\ \A p \in DOMAIN files : files'[p] = files[p] /\ p # PathOf(c)
      /\ files' = [p \in dom |-> files'[p]]
  BY <1>2, <1>5, <1>6 DEF Put
<1>8. PICK n, h : n = nextHandle' /\ h = nextHandle
  OBVIOUS
<1>9. h \in 1 .. n - 1 /\ 1 .. h - 1 \subseteq 1 .. n - 1 /\ n = h + 1
  BY <1>1, <1>6, <1>8
<1>10. FilesTyped'
  <2>1. \A p \in DOMAIN files' : \E x \in 1 .. nextHandle' - 1, l \in Places :
            files'[p] = AddChunk(NewFile, x, l)
    <3> SUFFICES ASSUME NEW p \in DOMAIN files'
                 PROVE  \E x \in 1 .. n - 1, l \in Places : files'[p] = AddChunk(NewFile, x, l)
      BY <1>8
    <3>1. CASE p = PathOf(c)
      BY <1>2, <1>7, <1>8, <1>9, <3>1
    <3>2. CASE p \in DOMAIN files
      BY <1>1, <1>7, <1>8, <1>9, <3>2 DEF FilesTyped
    <3> QED
      BY <1>2, <1>7, <3>1, <3>2
  <2>2. DOMAIN files' \subseteq Path
    BY <1>1, <1>2, <1>5, <1>7 DEF FilesTyped
  <2> QED
    BY <1>7, <2>1, <2>2 DEF FilesTyped
<1>11. PICK todo \in Seq(Calls) : todo = IF proc[c].state = "gone" THEN <<>> ELSE each
  <2>1. (IF proc[c].state = "gone" THEN <<>> ELSE each) \in Seq(Calls)
    BY <1>4, EmptySeq
  <2> QED
    BY <2>1
<1>12. /\ ServiceTyped' /\ Moves(c)
       /\ Todo(c)' = todo /\ proc'[c].state = proc[c].state
       /\ proc'[c].cmd = proc[c].cmd /\ proc'[c].got = proc[c].got
       /\ Op(c)' = Op(c) /\ PathOf(c)' = PathOf(c)
  BY <1>6, <1>10, <1>11, StayTyped, SetsTyped
<1>13. excused'[c] = excused[c] /\ worked'[c]
  <2>1. todo # Todo(c)
    <3>1. CASE todo = <<>>
      BY <3>1, AskingIs
    <3>2. CASE todo = each
      BY <1>4, <3>2, AskingIs, PlaceIs
    <3> QED
      BY <1>11, <3>1, <3>2
  <2> QED
    BY <1>1, <1>5, <1>12, <2>1, AskerServed, ExcusedThen
<1>14. Excusable(c)'
  BY <1>1, <1>5, <1>12, <1>13 DEF Excusable
<1>15. Staged(c)'
  <2>1. CASE proc[c].state = "gone"
    BY <1>11, <1>12, <2>1 DEF Staged
  <2>2. CASE proc[c].state # "gone"
    <3>1. Todo(c)' = each /\ each # <<>>
      <4>1. Replicas # 0
        BY PlaceIs
      <4> QED
        BY <1>4, <1>11, <1>12, <2>2, <4>1
    <3>2. Follows(Todo(c), proc[c].cmd, h, loc, 0)'
      <4>1. Carried(proc[c].cmd) = <<>> /\ proc[c].cmd.op = "create"
        BY <1>5 DEF Carried, Op
      <4>2. Follows(each, proc[c].cmd, h, loc, 0)
        BY <1>1, <1>3, <1>8, <4>1, EachFollows
      <4> QED
        BY <1>12, <3>1, <4>2 DEF Follows
    <3>3. \A p \in DOMAIN files' : HandleOf(p)' = h => files'[p] = AddChunk(NewFile, h, loc)
      <4> SUFFICES ASSUME NEW p \in DOMAIN files', HandleOf(p)' = h
                   PROVE  files'[p] = AddChunk(NewFile, h, loc)
        OBVIOUS
      <4>1. CASE p = PathOf(c)
        BY <1>2, <1>7, <1>8, <4>1
      <4>2. CASE p \in DOMAIN files
        <5>1. HandleOf(p) = h
          BY <1>7, <4>2 DEF HandleOf
        <5>2. HandleOf(p) \in 1 .. nextHandle - 1
          BY <1>1, <4>2, FileIs
        <5> QED
          BY <1>1, <1>8, <5>1, <5>2
      <4> QED
        BY <1>2, <1>7, <4>1, <4>2
    <3>4. AtChunk(c, h, loc, 0)'
      BY <1>5, <1>12, <1>13, <3>1, <3>2, <3>3 DEF AtChunk, DataOps
    <3>5. 0 \in 0 .. Replicas
      BY PlaceIs
    <3> QED
      BY <1>8, <1>9, <3>4, <3>5 DEF Staged
  <2> QED
    BY <2>1, <2>2
<1>16. FilesStay
  <2>1. HandleOf(PathOf(c))' = nextHandle
    <3>1. f.handles[1] = nextHandle
      BY <1>2, OneChunkIs
    <3> QED
      BY <1>7, <1>12, <3>1 DEF HandleOf
  <2>2. \A p : p = PathOf(c) => HandleOf(p)' = nextHandle
    BY <1>12, <2>1 DEF HandleOf
  <2> QED
    BY <1>2, <1>5, <1>6, <1>7, <2>2 DEF FilesStay
<1>17. \A x \in Nat : CallsFor(c, x)' => x = nextHandle /\ nextHandle' = nextHandle + 1
  BY <1>4, <1>6, <1>11, <1>12 DEF CallsFor
<1>18. Continues(c)
  BY <1>6, <1>12 DEF Continues
<1>19. \A p \in DOMAIN files' : p \in DOMAIN files \/ p = PathOf(c)'
  BY <1>2, <1>7, <1>12
<1>20. ServiceInv'
  BY <1>6, <1>12, <1>14, <1>15, <1>16, <1>17, <1>18, <1>19, QuietKeeps
<1> QED
  BY <1>2, <1>7, <1>12, <1>13, <1>20

LEMMA DirectsKeeps ==
  ASSUME ServiceInv, Records, NEW c \in Client, Asking(c), proc[c].state # "idle",
         NEW h \in 1 .. nextHandle - 1, NEW loc \in Places, NEW more \in Seq(Calls),
         Directs(c, h, loc, more)
  PROVE  /\ ServiceInv' /\ Moves(c)
         /\ proc'[c].state = proc[c].state /\ proc'[c].cmd = proc[c].cmd
         /\ proc'[c].got = proc[c].got
         /\ excused'[c] = excused[c] /\ ~worked'[c]
<1>1. /\ ServiceTyped /\ Excusable(c) /\ excused[c] \in BOOLEAN /\ nextHandle \in Nat
      /\ proc[c].cmd \in Command /\ h \in Nat
  BY DEF ServiceInv, ServiceTyped
<1>2. PICK todo \in Seq(Calls) : todo = IF proc[c].state = "gone" THEN <<>> ELSE more
  <2>1. (IF proc[c].state = "gone" THEN <<>> ELSE more) \in Seq(Calls)
    BY EmptySeq
  <2> QED
    BY <2>1
<1>3. /\ Sets(c, todo) /\ UNCHANGED <<masterUp, disk, commands, files, nextHandle>>
      /\ Op(c) \in DataOps /\ PathOf(c) \in DOMAIN files
      /\ files[PathOf(c)] = AddChunk(NewFile, h, loc) /\ more # <<>>
  BY <1>2 DEF Directs, Answers
<1>4. HandleOf(PathOf(c)) = h /\ Belongs(h, PathOf(c)) /\ PathOf(c) \in Path
  BY <1>1, <1>3, OneChunkIs, CommandIs DEF HandleOf, Belongs, PathOf
<1>5. /\ ServiceTyped' /\ Moves(c)
      /\ Todo(c)' = todo /\ proc'[c].state = proc[c].state
      /\ proc'[c].cmd = proc[c].cmd /\ proc'[c].got = proc[c].got
      /\ Op(c)' = Op(c) /\ PathOf(c)' = PathOf(c)
  BY <1>3, StayTyped, SetsTyped
<1>6. Head(more).to \in Server /\ \A i \in DOMAIN more : more[i].handle = h
  <2>1. CASE Follows(more, proc[c].cmd, h, loc, 0)
    <3>1. 1 \in DOMAIN more /\ Head(more) = more[1] /\ 0 + 1 = 1
      BY <1>3
    <3> QED
      BY <2>1, <3>1, PlaceIs DEF Follows
  <2>2. CASE /\ Head(more) = [to |-> loc[1], op |-> "space", handle |-> h, data |-> <<>>]
             /\ Follows(Tail(more), proc[c].cmd, h, loc, 0)
    <3>1. PICK r : r = Tail(more)
      OBVIOUS
    <3>2. \A i \in DOMAIN r : r[i].handle = h
      <4>1. Follows(r, proc[c].cmd, h, loc, 0)
        BY <2>2, <3>1
      <4> QED
        BY <4>1 DEF Follows
    <3>3. ASSUME NEW i \in DOMAIN more PROVE more[i].handle = h
      <4>1. CASE i = 1
        BY <1>3, <2>2, <4>1
      <4>2. CASE i # 1
        <5>1. i - 1 \in DOMAIN r /\ r[i - 1] = more[i]
          BY <3>1, <4>2
        <5> QED
          BY <3>2, <5>1
      <4> QED
        BY <4>1, <4>2
    <3> QED
      BY <2>2, <3>3, PlaceIs
  <2> QED
    BY <2>1, <2>2 DEF Directs
<1>7. excused'[c] = excused[c] /\ ~worked'[c]
  <2>1. todo # Todo(c)
    <3>1. CASE todo = <<>>
      BY <3>1, AskingIs
    <3>2. CASE todo = more
      BY <1>6, <3>2, AskingIs, PlaceIs
    <3> QED
      BY <1>2, <3>1, <3>2
  <2>2. ~Deletes(PathOf(c))
    BY <1>3 DEF Deletes
  <2> QED
    BY <1>1, <1>3, <1>5, <2>1, <2>2, AskerServed, AskingIs, ExcusedThen
<1>8. proc[c].state = "running" => Todo(c)' # <<>>
  BY <1>2, <1>3, <1>5
<1>9. Excusable(c)'
  BY <1>1, <1>3, <1>5, <1>7, <1>8 DEF Excusable, HasFirstChunk
<1>10. Staged(c)'
  <2>1. CASE proc[c].state = "gone"
    BY <1>2, <1>5, <2>1 DEF Staged
  <2>2. CASE proc[c].state # "gone"
    <3>1. Todo(c)' = more
      BY <1>2, <1>5, <2>2
    <3>2. Follows(Todo(c), proc[c].cmd, h, loc, 0)' \/ AsksSpace(c, h, loc)'
      <4>1. CASE Follows(more, proc[c].cmd, h, loc, 0)
        BY <1>5, <3>1, <4>1 DEF Follows
      <4>2. CASE /\ Op(c) = "append" /\ Tail(more) # <<>>
                 /\ Head(more) = [to |-> loc[1], op |-> "space", handle |-> h, data |-> <<>>]
                 /\ Follows(Tail(more), proc[c].cmd, h, loc, 0)
        BY <1>5, <3>1, <4>2 DEF AsksSpace
      <4> QED
        BY <4>1, <4>2 DEF Directs
    <3>3. \A p \in DOMAIN files' : HandleOf(p)' = h => files'[p] = AddChunk(NewFile, h, loc)
      <4> SUFFICES ASSUME NEW p \in DOMAIN files, HandleOf(p) = h
                   PROVE  files[p] = AddChunk(NewFile, h, loc)
        BY <1>3 DEF HandleOf
      <4>1. Belongs(h, p) /\ p \in Path
        BY <1>1 DEF Belongs, ServiceTyped
      <4>2. p = PathOf(c)
        BY <1>1, <1>4, <4>1 DEF ServiceInv, OneFile
      <4> QED
        BY <1>3, <4>2
    <3>4. HandleOf(PathOf(c))' = h
      BY <1>3, <1>4, <1>5 DEF HandleOf
    <3>5. Op(c) \in {"create", "write", "append", "read"} /\ Op(c) # "create"
      BY <1>3 DEF DataOps
    <3>6. proc'[c].got = <<>>
      BY <1>5, AskingIs
    <3>7. AtChunk(c, h, loc, 0)'
      BY <1>3, <1>5, <1>7, <3>1, <3>2, <3>3, <3>4, <3>5, <3>6 DEF AtChunk
    <3>8. 0 \in 0 .. Replicas
      BY PlaceIs
    <3> QED
      BY <1>3, <3>7, <3>8 DEF Staged
  <2> QED
    BY <2>1, <2>2
<1>11. FilesStay
  BY <1>3 DEF FilesStay
<1>12. \A x \in Nat : CallsFor(c, x)' => Belongs(x, PathOf(c)')
  BY <1>2, <1>4, <1>5, <1>6 DEF CallsFor
<1>13. Continues(c)
  BY <1>3, <1>5 DEF Continues
<1>14. ServiceInv'
  BY <1>3, <1>5, <1>9, <1>10, <1>11, <1>12, <1>13, QuietKeeps
<1> QED
  BY <1>5, <1>7, <1>14

LEMMA RestFollows ==
  ASSUME ServiceTyped, NEW c \in Client, NEW h, NEW loc \in Places, NEW k \in 0 .. Replicas,
         Todo(c) # <<>>, Follows(Todo(c), proc[c].cmd, h, loc, k)
  PROVE  /\ Rest(c) \in Seq(Calls) /\ Rest(c) # Todo(c) /\ k + 1 \in 1 .. Replicas
         /\ Follows(Rest(c), proc[c].cmd, h, loc, k + 1)
         /\ \A i \in DOMAIN Rest(c) :
              /\ \E j \in DOMAIN Todo(c) : Rest(c)[i] = Todo(c)[j]
              /\ Rest(c)[i].op = Op(c) /\ Rest(c)[i].to \in Server \ {loc[k + 1]}
         /\ Rest(c) # <<>> => Op(c) # "read"
<1>1. PICK t, r, w : t = Todo(c) /\ r = Rest(c) /\ w = Width(Op(c))
  OBVIOUS
<1>2. t \in Seq(Calls) /\ t # <<>> /\ Len(t) \in Nat \ {0} /\ DOMAIN t = 1 .. Len(t)
  BY <1>1, ProcessIs
<1>3. /\ Replicas \in Nat /\ w \in 1 .. Replicas /\ (Op(c) = "read" => w = 1)
  BY <1>1, PlaceIs DEF Width
<1>4. /\ k + Len(t) <= w
      /\ \A i \in DOMAIN t :
           t[i] = [to |-> loc[k + i], op |-> Op(c), handle |-> h, data |-> Carried(proc[c].cmd)]
  BY <1>1 DEF Follows, Op
<1>5. k + 1 \in 1 .. Replicas
  BY <1>2, <1>3, <1>4
<1>6. CASE r = <<>>
  <2>1. k + 1 + Len(r) <= w /\ DOMAIN r = {} /\ r \in Seq(Calls)
    BY <1>2, <1>3, <1>4, <1>6
  <2>2. Follows(r, proc[c].cmd, h, loc, k + 1)
    BY <1>1, <2>1 DEF Follows, Op
  <2> QED
    BY <1>1, <1>2, <1>5, <1>6, <2>1, <2>2
<1>7. CASE r = Tail(t)
  <2>1. r \in Seq(Calls) /\ Len(r) = Len(t) - 1 /\ DOMAIN r = 1 .. Len(r)
    BY <1>2, <1>7
  <2>2. \A i \in DOMAIN r : i + 1 \in DOMAIN t /\ r[i] = t[i + 1] /\ k + (i + 1) \in 1 .. Replicas
                            /\ k + (i + 1) = k + 1 + i /\ k + (i + 1) # k + 1
    <3> SUFFICES ASSUME NEW i \in DOMAIN r
                 PROVE  /\ i + 1 \in DOMAIN t /\ r[i] = t[i + 1] /\ k + (i + 1) \in 1 .. Replicas
                        /\ k + (i + 1) = k + 1 + i /\ k + (i + 1) # k + 1
      OBVIOUS
    <3>1. i \in Nat \ {0} /\ i <= Len(t) - 1
      BY <1>2, <2>1
    <3>2. i + 1 \in DOMAIN t
      BY <1>2, <3>1
    <3>3. r[i] = t[i + 1]
      BY <1>2, <1>7, <2>1
    <3>4. k + (i + 1) <= k + Len(t) /\ k + Len(t) <= Replicas
      BY <1>2, <1>3, <1>4, <3>1
    <3>5. k + (i + 1) \in 1 .. Replicas
      BY <1>2, <1>3, <3>1, <3>4
    <3> QED
      BY <3>1, <3>2, <3>3, <3>5
  <2>3. \A i \in DOMAIN r :
           r[i] = [to |-> loc[k + 1 + i], op |-> Op(c), handle |-> h, data |-> Carried(proc[c].cmd)]
    BY <1>4, <2>2
  <2>4. k + 1 + Len(r) <= w
    BY <1>2, <1>3, <1>4, <2>1
  <2>5. Follows(r, proc[c].cmd, h, loc, k + 1)
    BY <1>1, <2>3, <2>4 DEF Follows, Op
  <2>6. \A i \in DOMAIN r : r[i].op = Op(c) /\ r[i].to \in Server \ {loc[k + 1]}
    BY <1>5, <2>2, <2>3, PlaceIs
  <2>7. r # <<>> => Op(c) # "read"
    BY <1>3, <2>1, <2>4
  <2>8. r # t
    BY <1>2, <2>1
  <2> QED
    BY <1>1, <1>5, <2>1, <2>2, <2>5, <2>6, <2>7, <2>8
<1> QED
  BY <1>1, <1>6, <1>7 DEF Rest

\* A chunk server has worked on the call of c, who goes on to the next.
LEMMA CarriesOn ==
  ASSUME ServiceInv, Records, NEW c \in Client, NEW h \in 1 .. nextHandle - 1, NEW loc \in Places,
         NEW k \in 0 .. Replicas, AtChunk(c, h, loc, k), Follows(Todo(c), proc[c].cmd, h, loc, k),
         proc[c].state # "idle", UNCHANGED <<files, nextHandle, commands>>, ChunksStay,
         Moves(c), Todo(c)' = Rest(c),
         proc'[c].state = proc[c].state, proc'[c].cmd = proc[c].cmd
  PROVE  /\ Staged(c)' /\ Excusable(c)' /\ FilesStay /\ Shortens(c) /\ Continues(c)
         /\ worked'[c] /\ excused'[c] = excused[c]
<1>1. /\ ServiceTyped /\ Excusable(c) /\ excused[c] \in BOOLEAN /\ nextHandle \in Nat
      /\ Todo(c) # <<>> /\ Op(c)' = Op(c) /\ PathOf(c)' = PathOf(c)
      /\ Op(c) \in {"create", "write", "append", "read"}
  BY DEF ServiceInv, ServiceTyped, Op, PathOf, AtChunk
<1>2. /\ Rest(c) \in Seq(Calls) /\ Rest(c) # Todo(c) /\ k + 1 \in 1 .. Replicas
      /\ Follows(Rest(c), proc[c].cmd, h, loc, k + 1)
      /\ \A i \in DOMAIN Rest(c) : \E j \in DOMAIN Todo(c) : Rest(c)[i] = Todo(c)[j]
      /\ Rest(c) # <<>> => Op(c) # "read"
  BY <1>1, RestFollows
<1>3. Served(c)
  <2>1. Head(Todo(c)).to \in Server /\ Head(Todo(c)).op = Op(c)
    <3>1. 1 \in DOMAIN Todo(c) /\ Head(Todo(c)) = Todo(c)[1] /\ k + 1 \in 1 .. Replicas
      BY <1>1, <1>2, ProcessIs
    <3> QED
      BY <3>1, PlaceIs DEF Follows, Op
  <2> QED
    BY <1>1, <1>2, <2>1, PlaceIs DEF Served, Todo, Op
<1>4. worked'[c] /\ excused'[c] = excused[c]
  <2>1. ~Deletes(PathOf(c))
    BY DEF Deletes
  <2> QED
    BY <1>1, <1>3, <2>1, ExcusedThen
<1>5. Op(c) \in DataOps /\ ~excused[c] => HasFirstChunk(PathOf(c))'
  <2> SUFFICES ASSUME Op(c) \in DataOps, ~excused[c] PROVE HasFirstChunk(PathOf(c))'
    OBVIOUS
  <2>1. PICK p \in DOMAIN files : p = PathOf(c) /\ HasFirstChunk(p)
    BY <1>1 DEF Excusable
  <2>2. PICK x \in 1 .. nextHandle - 1, l \in Places : files[p] = AddChunk(NewFile, x, l)
    BY <1>1 DEF ServiceTyped
  <2>3. x \in DOMAIN disk[l[1]] /\ l[1] \in Server
    BY <2>1, <2>2, DataIs, PlaceIs
  <2>4. x \in DOMAIN disk'[l[1]] /\ files'[p] = AddChunk(NewFile, x, l)
    BY <2>2, <2>3 DEF ChunksStay
  <2>5. HasFirstChunk(p)'
    BY <2>4, DataThen
  <2> QED
    BY <1>1, <2>1, <2>5 DEF HasFirstChunk
<1>6. Excusable(c)'
  BY <1>1, <1>4, <1>5 DEF Excusable
<1>7. Staged(c)'
  <2>1. CASE Rest(c) = <<>>
    BY <2>1 DEF Staged
  <2>2. CASE Rest(c) # <<>>
    <3>1. PICK m \in 0 .. Replicas : m = k + 1 /\ m > 0
      BY <1>2
    <3>2. Follows(Todo(c), proc[c].cmd, h, loc, m)'
      BY <1>2, <3>1 DEF Follows
    <3>3. \A p \in DOMAIN files' : HandleOf(p)' = h => files'[p] = AddChunk(NewFile, h, loc)
      BY DEF AtChunk, HandleOf
    <3>4. Op(c) \in DataOps /\ ~excused[c]
            => PathOf(c) \in DOMAIN files' /\ HandleOf(PathOf(c))' = h
      BY <1>1 DEF AtChunk, HandleOf
    <3>5. AtChunk(c, h, loc, m)'
      BY <1>1, <1>2, <1>4, <2>2, <3>1, <3>2, <3>3, <3>4 DEF AtChunk
    <3> QED
      BY <3>5 DEF Staged
  <2> QED
    BY <2>1, <2>2
<1>8. FilesStay
  BY DEF FilesStay
<1>9. Shortens(c)
  BY <1>2 DEF Shortens
<1>10. Continues(c)
  BY <1>9 DEF Continues
<1> QED
  BY <1>4, <1>6, <1>7, <1>8, <1>9, <1>10

LEMMA MissesKeeps ==
  ASSUME ServiceInv, Records, NEW c \in Client, NEW s \in Server,
         NEW h \in 1 .. nextHandle - 1, NEW loc \in Places,
         NEW k \in 0 .. Replicas, AtChunk(c, h, loc, k), Follows(Todo(c), proc[c].cmd, h, loc, k),
         proc[c].state # "idle", UNCHANGED <<files, masterUp, nextHandle, commands>>,
         Misses(c, s, h)
  PROVE  /\ ServiceInv' /\ Moves(c)
         /\ proc'[c].state = proc[c].state /\ proc'[c].cmd = proc[c].cmd
         /\ proc'[c].got = proc[c].got
         /\ excused'[c] = excused[c] /\ worked'[c]
<1>1. ServiceTyped /\ Todo(c) # <<>> /\ UNCHANGED disk /\ ChunksStay
  BY DEF ServiceInv, AtChunk, Misses, ChunksStay
<1>2. PICK r \in Seq(Calls) : r = Rest(c)
  BY <1>1, RestFollows
<1>3. Sets(c, r)
  BY <1>2 DEF Misses
<1>4. /\ ServiceTyped' /\ Moves(c) /\ Todo(c)' = r
      /\ proc'[c].state = proc[c].state /\ proc'[c].cmd = proc[c].cmd
      /\ proc'[c].got = proc[c].got
  BY <1>1, <1>3, StayTyped, SetsTyped
<1>5. /\ Staged(c)' /\ Excusable(c)' /\ FilesStay /\ Shortens(c) /\ Continues(c)
      /\ worked'[c] /\ excused'[c] = excused[c]
  BY <1>1, <1>2, <1>4, CarriesOn
<1>6. ServiceInv'
  BY <1>1, <1>4, <1>5, QuietKeeps
<1> QED
  BY <1>4, <1>5, <1>6

LEMMA ReadsKeeps ==
  ASSUME ServiceInv, Records, NEW c \in Client, NEW s \in Server,
         NEW h \in 1 .. nextHandle - 1, NEW loc \in Places,
         NEW k \in 0 .. Replicas, AtChunk(c, h, loc, k), Follows(Todo(c), proc[c].cmd, h, loc, k),
         proc[c].state # "idle", UNCHANGED <<files, masterUp, nextHandle, commands>>,
         Reads(c, s, h)
  PROVE  /\ ServiceInv' /\ Moves(c)
         /\ proc'[c].state = proc[c].state /\ proc'[c].cmd = proc[c].cmd
         /\ proc[c].state = "running" => proc'[c].got = Found(s, h)
         /\ excused'[c] = excused[c] /\ worked'[c]
<1>1. ServiceTyped /\ Todo(c) # <<>> /\ UNCHANGED disk /\ ChunksStay
      /\ proc \in [Client -> Processes] /\ commands' \in 0 .. MaxCommands
  BY DEF ServiceInv, ServiceTyped, AtChunk, Reads, ChunksStay
<1>2. PICK r \in Seq(Calls) : r = Rest(c)
  BY <1>1, RestFollows
<1>3. PICK got \in Seq(Byte \cup {ErrorText}) :
        got = IF proc[c].state = "gone" THEN proc[c].got ELSE Found(s, h)
  <2>1. Found(s, h) \in Seq(Byte \cup {ErrorText})
    <3>1. h \in DOMAIN disk[s] => disk[s][h] \in Seq(Byte)
      BY <1>1 DEF ServiceTyped
    <3> QED
      BY <3>1, FoundTyped
  <2>2. proc[c].got \in Seq(Byte \cup {ErrorText})
    BY <1>1, ProcessIs
  <2> QED
    BY <2>1, <2>2
<1>4. /\ proc[c] = [state |-> proc[c].state, cmd |-> proc[c].cmd, todo |-> proc[c].todo,
                    got |-> proc[c].got]
      /\ proc[c].state \in {"idle", "running", "gone"} /\ proc[c].cmd \in Command
  BY <1>1, ProcessIs DEF Processes
<1>5. proc' = [proc EXCEPT ![c].todo = r, ![c].got = got]
  BY <1>1, <1>2, <1>3, <1>4 DEF Reads
<1>6. proc'[c] = [state |-> proc[c].state, cmd |-> proc[c].cmd, todo |-> r, got |-> got]
  BY <1>1, <1>4, <1>5
<1>7. Moves(c) /\ proc' \in [Client -> Processes]
  <2>1. [state |-> proc[c].state, cmd |-> proc[c].cmd, todo |-> r, got |-> got] \in Processes
    BY <1>4 DEF Processes
  <2> QED
    BY <1>1, <1>5, <1>6, <2>1 DEF Moves
<1>8. /\ proc'[c].state = proc[c].state /\ proc'[c].cmd = proc[c].cmd /\ Todo(c)' = r
      /\ proc'[c].got = got
  BY <1>6 DEF Todo
<1>9. ServiceTyped'
  <2>1. FilesTyped' /\ DisksTyped'
    BY <1>1, StayTyped
  <2> QED
    BY <1>1, <1>4, <1>7, <1>8, <2>1, TypedThen
<1>10. /\ Staged(c)' /\ Excusable(c)' /\ FilesStay /\ Shortens(c) /\ Continues(c)
       /\ worked'[c] /\ excused'[c] = excused[c]
  BY <1>1, <1>2, <1>7, <1>8, CarriesOn
<1>11. ServiceInv'
  BY <1>1, <1>9, <1>10, QuietKeeps
<1> QED
  BY <1>3, <1>7, <1>8, <1>10, <1>11

LEMMA SizesKeeps ==
  ASSUME ServiceInv, Records, NEW c \in Client,
         NEW h \in 1 .. nextHandle - 1, NEW loc \in Places,
         AtChunk(c, h, loc, 0), AsksSpace(c, h, loc),
         proc[c].state # "idle", UNCHANGED <<files, masterUp, nextHandle, commands>>,
         NEW s \in Server, s = loc[1], Sizes(c, s, h)
  PROVE  /\ ServiceInv' /\ Moves(c)
         /\ proc'[c].state = proc[c].state /\ proc'[c].cmd = proc[c].cmd
         /\ proc'[c].got = proc[c].got
         /\ excused'[c] = excused[c] /\ ~worked'[c]
<1>1. /\ ServiceTyped /\ Todo(c) # <<>> /\ UNCHANGED disk /\ Excusable(c)
      /\ excused[c] \in BOOLEAN /\ Op(c) = "append" /\ Op(c) \in DataOps
  BY DEF ServiceInv, ServiceTyped, AtChunk, Sizes, AsksSpace, DataOps
<1>2. PICK t, rest : t = Todo(c) /\ rest = Tail(t)
  OBVIOUS
<1>3. t \in Seq(Calls) /\ rest \in Seq(Calls) /\ t # <<>> /\ Len(t) \in Nat \ {0}
      /\ Len(rest) = Len(t) - 1 /\ DOMAIN rest = 1 .. Len(rest)
      /\ \A i \in DOMAIN rest : i + 1 \in DOMAIN t /\ rest[i] = t[i + 1]
  BY <1>1, <1>2, ProcessIs
<1>4. /\ Head(t) = [to |-> loc[1], op |-> "space", handle |-> h, data |-> <<>>]
      /\ Follows(rest, proc[c].cmd, h, loc, 0)
      /\ proc[c].state = "running" => rest # <<>>
  BY <1>2 DEF AsksSpace
<1>5. PICK todo \in Seq(Calls) :
        todo = IF proc[c].state = "gone" \/ h \notin DOMAIN disk[s] THEN <<>> ELSE rest
  <2>1. (IF proc[c].state = "gone" \/ h \notin DOMAIN disk[s] THEN <<>> ELSE rest) \in Seq(Calls)
    BY <1>3, EmptySeq
  <2> QED
    BY <2>1
<1>6. Sets(c, todo)
  BY <1>2, <1>5 DEF Sizes
<1>7. /\ ServiceTyped' /\ Moves(c) /\ Todo(c)' = todo
      /\ proc'[c].state = proc[c].state /\ proc'[c].cmd = proc[c].cmd
      /\ proc'[c].got = proc[c].got /\ Op(c)' = Op(c) /\ PathOf(c)' = PathOf(c)
  BY <1>1, <1>6, StayTyped, SetsTyped
<1>8. excused'[c] = excused[c] /\ ~worked'[c]
  <2>1. ~Deletes(PathOf(c))
    BY DEF Deletes
  <2>2. ~worked[c]
    BY <1>1 DEF AtChunk
  <2>3. ~Served(c)
    BY <1>1, <1>2, <1>4 DEF Served, Todo, Op
  <2> QED
    BY <1>1, <1>7, <2>1, <2>2, <2>3, ExcusedThen
<1>9. Op(c) \in DataOps /\ ~excused[c] => h \in DOMAIN disk[s]
  <2> SUFFICES ASSUME ~excused[c] PROVE h \in DOMAIN disk[s]
    OBVIOUS
  <2>1. PICK p \in DOMAIN files : p = PathOf(c) /\ HasFirstChunk(p) /\ HandleOf(p) = h
    BY <1>1 DEF Excusable, AtChunk
  <2>2. files[p] = AddChunk(NewFile, h, loc)
    BY <2>1 DEF AtChunk
  <2> QED
    BY <2>1, <2>2, DataIs
<1>10. Excusable(c)'
  <2>1. proc'[c].state = "running" /\ Todo(c)' = <<>> => excused'[c]
    BY <1>1, <1>4, <1>5, <1>7, <1>8, <1>9
  <2> QED
    BY <1>1, <1>7, <1>8, <2>1 DEF Excusable, HasFirstChunk
<1>11. Staged(c)'
  <2>1. CASE todo = <<>>
    BY <1>7, <2>1 DEF Staged
  <2>2. CASE todo # <<>>
    <3>1. todo = rest
      BY <1>5, <2>2
    <3>2. Follows(Todo(c), proc[c].cmd, h, loc, 0)'
      BY <1>4, <1>7, <3>1 DEF Follows
    <3>3. \A p \in DOMAIN files' : HandleOf(p)' = h => files'[p] = AddChunk(NewFile, h, loc)
      BY DEF AtChunk, HandleOf
    <3>4. ~excused[c] => PathOf(c) \in DOMAIN files' /\ HandleOf(PathOf(c))' = h
      BY <1>1, <1>7 DEF AtChunk, HandleOf
    <3>5. AtChunk(c, h, loc, 0)'
      BY <1>1, <1>7, <1>8, <2>2, <3>2, <3>3, <3>4 DEF AtChunk
    <3>6. 0 \in 0 .. Replicas
      BY PlaceIs
    <3> QED
      BY <3>5, <3>6 DEF Staged
  <2> QED
    BY <2>1, <2>2
<1>12. FilesStay
  BY DEF FilesStay
<1>13. Shortens(c)
  <2>1. CASE todo = <<>>
    BY <1>7, <2>1 DEF Shortens
  <2>2. CASE todo = rest
    BY <1>2, <1>3, <1>7, <2>2 DEF Shortens
  <2> QED
    BY <1>5, <2>1, <2>2
<1>14. Continues(c)
  BY <1>7, <1>13 DEF Continues
<1>15. ServiceInv'
  BY <1>1, <1>7, <1>10, <1>11, <1>12, <1>13, <1>14, QuietKeeps
<1> QED
  BY <1>7, <1>8, <1>15

\* What has been stored.
LEMMA StoredIs ==
  ASSUME ServiceInv, NEW c \in Client, NEW s \in Server, NEW h \in 1 .. nextHandle - 1,
         proc[c].cmd \in Command, Stores(c, s, h), nextHandle' = nextHandle
  PROVE  /\ NewContents(c, s, h) \in Seq(Byte)
         /\ DOMAIN disk'[s] = DOMAIN disk[s] \cup {h} /\ disk'[s][h] = NewContents(c, s, h)
         /\ \A x \in DOMAIN disk[s] : x # h => disk'[s][x] = disk[s][x]
         /\ \A d \in Server : d # s => disk'[d] = disk[d]
         /\ ChunksStay /\ DisksTyped'
<1>1. DisksTyped /\ nextHandle \in Nat
  BY DEF ServiceInv, ServiceTyped, DisksTyped
<1>2. PICK new : new = NewContents(c, s, h)
  OBVIOUS
<1>3. new \in Seq(Byte)
  <2>1. proc[c].cmd.data \in Seq(Byte) /\ <<>> \in Seq(Byte)
    BY CommandIs, EmptySeq
  <2>2. h \in DOMAIN disk[s] => disk[s][h] \in Seq(Byte)
    BY <1>1 DEF DisksTyped
  <2>3. h \in DOMAIN disk[s] => disk[s][h] \o proc[c].cmd.data \in Seq(Byte)
    BY <2>1, <2>2
  <2> QED
    BY <1>2, <2>1, <2>2, <2>3 DEF NewContents
<1>4. /\ disk'[s] = Put(disk[s], h, new)
      /\ \A d \in Server : d # s => disk'[d] = disk[d]
      /\ disk' = [d \in Server |-> disk'[d]]
  <2>1. disk' = [disk EXCEPT ![s] = Put(disk[s], h, new)]
    BY <1>2 DEF Stores
  <2> QED
    BY <1>1, <2>1 DEF DisksTyped
<1>5. /\ DOMAIN disk'[s] = DOMAIN disk[s] \cup {h} /\ disk'[s][h] = new
      /\ \A x \in DOMAIN disk[s] : x # h => disk'[s][x] = disk[s][x]
      /\ disk'[s] = [x \in DOMAIN disk'[s] |-> disk'[s][x]]
  BY <1>4 DEF Put
<1>6. ChunksStay
  BY <1>4, <1>5 DEF ChunksStay
<1>7. DisksTyped'
  <2>1. disk'[s] \in [DOMAIN disk'[s] -> Seq(Byte)] /\ DOMAIN disk'[s] \subseteq 1 .. nextHandle' - 1
    <3>1. \A x \in DOMAIN disk'[s] : disk'[s][x] \in Seq(Byte)
      BY <1>1, <1>3, <1>5 DEF DisksTyped
    <3> QED
      BY <1>1, <1>5, <3>1 DEF DisksTyped
  <2>2. \A d \in Server : d # s =>
          disk'[d] \in [DOMAIN disk'[d] -> Seq(Byte)] /\ DOMAIN disk'[d] \subseteq 1 .. nextHandle' - 1
    BY <1>1, <1>4 DEF DisksTyped
  <2> QED
    BY <1>4, <2>1, <2>2 DEF DisksTyped
<1> QED
  BY <1>2, <1>3, <1>4, <1>5, <1>6, <1>7

\* A chunk that is new fits: nobody but those who will append to it are counted.
LEMMA EmptyFits ==
  ASSUME ServiceInv, ServiceTyped', NEW c \in Client, Continues(c), Op(c) = "create",
         NEW s \in Server, NEW p
  PROVE  Fits(p, <<>>, s)'
<1>1. PICK n, m, k : n = Cardinality(Pending(s)') /\ m = Cardinality(Active) /\ k = commands
  OBVIOUS
<1>2. k \in Nat /\ m \in Nat /\ n \in Nat /\ m <= k /\ commands' = k
      /\ n <= Cardinality(Pending(s)) /\ IsFiniteSet(Pending(s)) /\ Cardinality(Pending(s)) \in Nat
      /\ IsFiniteSet(Active)
  BY <1>1, PendingCount, ContinuesKeeps DEF ServiceInv, ServiceTyped, ChunksFit, Continues
<1>3. Pending(s) \subseteq Active \ {c} /\ c \in Active
  BY PendingCount DEF Pending, Active, Continues
<1>4. IsFiniteSet(Active \ {c}) /\ Cardinality(Active \ {c}) = m - 1
  BY <1>1, <1>2, <1>3, FS_RemoveElement
<1>5. Cardinality(Pending(s)) <= m - 1
  BY <1>3, <1>4, FS_Subset
<1>6. n <= k - 1
  BY <1>2, <1>5
<1>7. GFSChunkSize \in Nat /\ MaxCommands \in Nat /\ Len(<<>>) = 0
  BY GfsAssumption, ClientAssumption DEF GfsAssumption, ClientAssumption
<1>8. (MaxCommands - 1) * Len(<<>>) + GFSChunkSize * n <= GFSChunkSize * (k - 1)
  <2>1. (MaxCommands - 1) * 0 = 0
    BY <1>7
  <2>2. GFSChunkSize * n <= GFSChunkSize * (k - 1) /\ GFSChunkSize * n \in Int
    BY <1>2, <1>6, <1>7, TimesMonotone
  <2> QED
    BY <1>7, <2>1, <2>2
<1>9. \A cmd \in Command : cmd.op = "write" => Len(<<>>) <= Len(cmd.data)
  BY <1>7, CommandIs, LenProperties
<1> QED
  BY <1>1, <1>2, <1>8, <1>9 DEF Fits

\* So does what a write leaves, of the length that all writes have.
LEMMA WrittenFits ==
  ASSUME NEW cmd \in Command, cmd.op = "write", NEW s \in Server
  PROVE  Fits(cmd.path, cmd.data, s)'
<1>1. \A other \in Command : other.path = cmd.path =>
        other.op # "append" /\ (other.op = "write" => Len(other.data) = Len(cmd.data))
  BY FittingAssumption DEF FittingAssumption
<1>2. Len(cmd.data) \in Nat
  BY CommandIs, LenProperties
<1> QED
  BY <1>1, <1>2 DEF Fits

LEMMA AppendedShare ==
  ASSUME NEW m \in Int, NEW size \in Nat, NEW a \in Nat, NEW d \in Nat,
         NEW n \in Nat, NEW l \in Nat, NEW q \in Int, l <= n - 1,
         m * a + size * n <= size * q, m * d <= size
  PROVE  m * (a + d) + size * l <= size * q
<1>1. size * l <= size * (n - 1) /\ size * (n - 1) = size * n - size
  BY TimesMonotone
<1>2. m * (a + d) = m * a + m * d /\ m * a \in Int /\ m * d \in Int
      /\ size * n \in Int /\ size * l \in Int /\ size * q \in Int
  OBVIOUS
<1> QED
  BY <1>1, <1>2

\* And what an append leaves: it is not pending any more.
LEMMA AppendedFits ==
  ASSUME ServiceInv, ServiceTyped', NEW c \in Client, Continues(c), proc[c].cmd \in Command,
         Op(c) = "append", NEW s \in Server, c \in Pending(s), c \notin Pending(s)',
         NEW p, p = PathOf(c), NEW old \in Seq(Byte), Fits(p, old, s),
         NEW new, new = old \o proc[c].cmd.data
  PROVE  Fits(p, new, s)'
<1>1. PICK a, d, n, l, k : /\ a = Len(old) /\ d = Len(proc[c].cmd.data)
                           /\ n = Cardinality(Pending(s)) /\ l = Cardinality(Pending(s)')
                           /\ k = commands
  OBVIOUS
<1>2. /\ a \in Nat /\ d \in Nat /\ n \in Nat /\ l \in Nat /\ k \in Nat /\ commands' = k
      /\ IsFiniteSet(Pending(s)) /\ Pending(s)' \subseteq Pending(s)
  BY <1>1, CommandIs, LenProperties, PendingCount, ContinuesKeeps
  DEF ServiceInv, ServiceTyped, Continues
<1>3. l <= n - 1
  <2>1. Pending(s)' \subseteq Pending(s) \ {c}
    BY <1>2
  <2>2. IsFiniteSet(Pending(s) \ {c}) /\ Cardinality(Pending(s) \ {c}) = n - 1
    BY <1>1, <1>2, FS_RemoveElement
  <2> QED
    BY <1>1, <2>1, <2>2, FS_Subset
<1>4. PICK m \in Int : m = MaxCommands - 1
  BY ClientAssumption DEF ClientAssumption
<1>5. m * a + GFSChunkSize * n <= GFSChunkSize * (k - 1)
  BY <1>1, <1>4 DEF Fits, PathOf, Op
<1>6. m * d <= GFSChunkSize
  BY <1>1, <1>4, FittingAssumption DEF FittingAssumption, Op
<1>7. GFSChunkSize \in Nat /\ k - 1 \in Int
  BY <1>2, GfsAssumption DEF GfsAssumption
<1>8. m * (a + d) + GFSChunkSize * l <= GFSChunkSize * (k - 1)
  BY <1>2, <1>3, <1>5, <1>6, <1>7, AppendedShare
<1>9. Len(new) = a + d
  <2>1. proc[c].cmd.data \in Seq(Byte)
    BY CommandIs
  <2> QED
    BY <1>1, <2>1, ConcatProperties
<1>10. \A cmd \in Command : cmd.path = p => cmd.op # "write"
  BY FittingAssumption DEF FittingAssumption, PathOf, Op
<1> QED
  BY <1>1, <1>2, <1>4, <1>8, <1>9, <1>10 DEF Fits

LEMMA StoresKeeps ==
  ASSUME ServiceInv, Records, NEW c \in Client, NEW s \in Server,
         NEW h \in 1 .. nextHandle - 1, NEW loc \in Places,
         NEW k \in 0 .. Replicas, AtChunk(c, h, loc, k), Follows(Todo(c), proc[c].cmd, h, loc, k),
         s = loc[k + 1],
         proc[c].state # "idle", UNCHANGED <<files, masterUp, nextHandle, commands>>,
         Stores(c, s, h)
  PROVE  /\ ServiceInv' /\ Moves(c)
         /\ proc'[c].state = proc[c].state /\ proc'[c].cmd = proc[c].cmd
         /\ proc'[c].got = proc[c].got
         /\ excused'[c] = excused[c] /\ worked'[c]
<1>1. ServiceTyped /\ Todo(c) # <<>> /\ proc[c].cmd \in Command /\ commands \in Nat
      /\ commands' = commands /\ nextHandle \in Nat
  BY DEF ServiceInv, ServiceTyped, AtChunk
<1>2. /\ NewContents(c, s, h) \in Seq(Byte)
      /\ DOMAIN disk'[s] = DOMAIN disk[s] \cup {h} /\ disk'[s][h] = NewContents(c, s, h)
      /\ \A x \in DOMAIN disk[s] : x # h => disk'[s][x] = disk[s][x]
      /\ \A d \in Server : d # s => disk'[d] = disk[d]
      /\ ChunksStay /\ DisksTyped'
  BY <1>1, StoredIs
<1>3. /\ Rest(c) \in Seq(Calls) /\ k + 1 \in 1 .. Replicas
      /\ \A i \in DOMAIN Rest(c) : Rest(c)[i].op = Op(c) /\ Rest(c)[i].to \in Server \ {loc[k + 1]}
  BY <1>1, RestFollows
<1>4. PICK r \in Seq(Calls) : r = Rest(c)
  BY <1>3
<1>5. Sets(c, r)
  BY <1>4 DEF Stores
<1>6. /\ ServiceTyped' /\ Moves(c) /\ Todo(c)' = r
      /\ proc'[c].state = proc[c].state /\ proc'[c].cmd = proc[c].cmd
      /\ proc'[c].got = proc[c].got
  BY <1>2, <1>5, StayTyped, SetsTyped
<1>7. /\ Staged(c)' /\ Excusable(c)' /\ FilesStay /\ Shortens(c) /\ Continues(c)
      /\ worked'[c] /\ excused'[c] = excused[c]
  BY <1>1, <1>2, <1>4, <1>6, CarriesOn
<1>8. c \notin Pending(s)'
  <2>1. \A i \in DOMAIN r : r[i].op # "space" /\ r[i].to \notin {Master, s}
    BY <1>3, <1>4, PlaceIs DEF Stores
  <2> QED
    BY <1>6, <2>1 DEF Pending
<1>9. Op(c) = "append" => c \in Pending(s)
  <2>1. 1 \in DOMAIN Todo(c)
    BY <1>1, ProcessIs
  <2>2. Todo(c)[1].to = s
    BY <2>1 DEF Follows
  <2> QED
    BY <2>1, <2>2 DEF Pending
<1>10. ASSUME NEW x \in Nat, NEW p \in Path, NEW d \in Server, Belongs(x, p), x \in DOMAIN disk'[d]
       PROVE  Fits(p, disk[d][x], d)'
  <2>1. PICK new : new = disk'[d][x]
    OBVIOUS
  <2>2. CASE x \in DOMAIN disk[d] /\ new = disk[d][x]
    <3>1. new \in Seq(Byte) /\ Fits(p, new, d)
      BY <1>1, <1>10, <2>2 DEF ServiceInv, ChunksFit, ServiceTyped
    <3>2. /\ Cardinality(Pending(d)) \in Nat /\ Cardinality(Pending(d)') \in Nat
          /\ Cardinality(Pending(d)') <= Cardinality(Pending(d))
      BY <1>6, <1>7, PendingCount, ContinuesKeeps
    <3>3. Cardinality(Pending(d)') <= Cardinality(Pending(d)) + commands' - commands
      BY <1>1, <3>2
    <3>4. Fits(p, new, d)'
      BY <1>1, <3>1, <3>2, <3>3, FitsStill
    <3> QED
      BY <2>1, <3>4 DEF Fits
  <2>3. CASE d = s /\ x = h
    <3>1. p = PathOf(c)
      <4>1. Belongs(h, PathOf(c)) /\ PathOf(c) \in Path /\ h \in Nat
        <5>1. Belongs(h, PathOf(c))
          BY <1>1, CallerBelongs
        <5>2. PathOf(c) \in Path
          BY <1>1, CommandIs DEF PathOf
        <5> QED
          BY <1>1, <5>1, <5>2
      <4> QED
        BY <1>10, <2>3, <4>1 DEF ServiceInv, OneFile
    <3>2. new = NewContents(c, s, h)
      BY <1>2, <2>1, <2>3
    <3>3. Fits(p, new, s)' \/ (h \in DOMAIN disk[s] /\ new = disk[s][h])
      <4>1. CASE h \notin DOMAIN disk[s]
        <5>1. new = <<>> /\ Op(c) = "create"
          BY <3>2, <4>1 DEF NewContents, Stores
        <5>2. Fits(p, <<>>, s)'
          BY <1>6, <1>7, <5>1, EmptyFits
        <5> QED
          BY <5>1, <5>2
      <4>2. CASE h \in DOMAIN disk[s] /\ Op(c) = "create"
        BY <3>2, <4>2 DEF NewContents
      <4>3. CASE h \in DOMAIN disk[s] /\ Op(c) = "write"
        <5>1. PICK cmd \in Command : cmd = proc[c].cmd
          BY <1>1
        <5>2. new = cmd.data /\ p = cmd.path /\ cmd.op = "write"
          BY <3>1, <3>2, <4>3, <5>1 DEF NewContents, PathOf, Op
        <5>3. Fits(cmd.path, cmd.data, s)'
          BY <5>2, WrittenFits
        <5> QED
          BY <5>2, <5>3
      <4>4. CASE h \in DOMAIN disk[s] /\ Op(c) = "append"
        <5>1. PICK old \in Seq(Byte) : old = disk[s][h]
          BY <1>1, <4>4 DEF ServiceTyped
        <5>2. Fits(p, old, s)
          BY <1>10, <2>3, <4>4, <5>1 DEF ServiceInv, ChunksFit
        <5>3. new = old \o proc[c].cmd.data
          BY <3>2, <4>4, <5>1 DEF NewContents
        <5> QED
          BY <1>1, <1>6, <1>7, <1>8, <1>9, <3>1, <4>4, <5>2, <5>3, AppendedFits
      <4> QED
        BY <4>1, <4>2, <4>3, <4>4 DEF Stores
    <3> QED
      BY <2>1, <2>2, <2>3, <3>3 DEF Fits
  <2> QED
    BY <1>2, <1>10, <2>1, <2>2, <2>3
<1>11. \A h2 \in Nat : CallsFor(c, h2)' => Belongs(h2, PathOf(c)')
  BY <1>6, <1>7, ContinuesKeeps
<1>12. IsFiniteSet(Active') /\ Cardinality(Active') <= commands'
  BY <1>6, <1>7, ContinuesKeeps
<1>13. ServiceInv'
  BY <1>2, <1>6, <1>7, <1>10, <1>11, <1>12, StepKeeps
<1> QED
  BY <1>6, <1>7, <1>13

-----------------------------------------------------------------------------
(* What users see *)

LEMMA SeenIs ==
  /\ DOMAIN FilesSeen = DOMAIN files
  /\ \A p \in DOMAIN files :
       FilesSeen[p] = [ready |-> HasFirstChunk(p), data |-> FileData(p)]
  BY DEF FilesSeen

LEMMA SeenThen ==
  /\ DOMAIN FilesSeen' = DOMAIN files'
  /\ \A p \in DOMAIN files' :
       FilesSeen'[p] = [ready |-> HasFirstChunk(p)', data |-> FileData(p)']
  /\ FilesSeen' = [p \in DOMAIN files' |-> FilesSeen'[p]]
  BY DEF FilesSeen

LEMMA SeenSame ==
  ASSUME UNCHANGED <<files, disk>>
  PROVE  FilesSeen' = FilesSeen
  BY DEF FilesSeen, HasFirstChunk, FileData, ChunkData

LEMMA SeenBecomes ==
  ASSUME NEW p, NEW f, DOMAIN files' = DOMAIN files \cup {p}, FilesSeen'[p] = f,
         \A q \in DOMAIN files : q # p => FilesSeen'[q] = FilesSeen[q]
  PROVE  FS!Become(p, f)
<1>1. PICK F, G : F = FilesSeen /\ G = FilesSeen'
  OBVIOUS
<1>2. /\ DOMAIN F = DOMAIN files /\ DOMAIN G = DOMAIN files \cup {p}
      /\ G = [q \in DOMAIN G |-> G[q]]
  BY <1>1, SeenIs, SeenThen
<1>3. G = [q \in DOMAIN F \cup {p} |-> IF q = p THEN f ELSE F[q]]
  BY <1>1, <1>2
<1> QED
  BY <1>1, <1>3 DEF FS!Become

LEMMA ReadyIs ==
  ASSUME NEW p
  PROVE  FS!Ready(p) <=> p \in DOMAIN files /\ HasFirstChunk(p)
  BY SeenIs DEF FS!Ready

\* The command of c, as users see it.
LEMMA RequestIs ==
  ASSUME NEW c \in Client
  PROVE  /\ Requests[c].state = proc[c].state /\ Requests[c].cmd = proc[c].cmd
         /\ Requests[c].got = proc[c].got
         /\ FS!Path_(c) = PathOf(c)
         /\ \A op : FS!Under(c, op) <=> proc[c].state # "idle" /\ Op(c) = op /\ ~worked[c]
<1>1. /\ Requests[c].state = proc[c].state /\ Requests[c].cmd = proc[c].cmd
      /\ Requests[c].got = proc[c].got
  BY DEF Requests
<1> QED
  BY <1>1 DEF FS!Path_, FS!Under, PathOf, Op

LEMMA RequestThen ==
  ASSUME NEW c \in Client, Moves(c)
  PROVE  /\ Requests'[c].state = proc'[c].state /\ Requests'[c].cmd = proc'[c].cmd
         /\ Requests'[c].got = proc'[c].got
         /\ \A d \in Client : d # c => Requests'[d] = Requests[d]
         /\ (/\ proc'[c].state = proc[c].state /\ proc'[c].cmd = proc[c].cmd
             /\ proc'[c].got = proc[c].got) => Requests' = Requests
  BY DEF Requests, Moves

LEMMA OthersRecorded ==
  ASSUME ServiceInv, Records, NEW c \in Client, Moves(c), NEW d \in Client, d # c
  PROVE  /\ worked'[d] = worked[d]
         /\ excused'[d] <=>
              excused[d] \/ (proc[d].state # "idle" /\ Op(d) \in DataOps /\ Deletes(PathOf(d)))
<1>1. /\ ServiceTyped /\ worked[d] \in BOOLEAN /\ excused[d] \in BOOLEAN /\ proc'[d] = proc[d]
      /\ worked'[d] \in BOOLEAN
  BY RecordsOf DEF ServiceInv, ServiceTyped, Moves
<1>2. CASE proc[d].state = "idle"
  <2>1. ~worked[d] /\ ~excused[d]
    BY <1>1, <1>2, ProcessIs
  <2>2. ~worked'[d] /\ ~excused'[d]
    BY <1>1, <1>2, RecordsOf
  <2> QED
    BY <1>1, <1>2, <2>1, <2>2
<1>3. CASE proc[d].state # "idle"
  <2>1. ~Served(d)
    BY <1>1 DEF Served
  <2>2. worked'[d] <=> worked[d]
    BY <1>1, <1>3, <2>1, RecordsOf
  <2>3. excused[d] => Op(d) \in DataOps
    BY <1>3 DEF ServiceInv, Excusable
  <2>4. excused'[d] <=> excused[d] \/ (Op(d) \in DataOps /\ Deletes(PathOf(d)))
    BY <1>1, <1>3, <2>3, RecordsOf DEF Op, PathOf
  <2> QED
    BY <1>1, <1>3, <2>2, <2>4
<1> QED
  BY <1>2, <1>3

LEMMA RecordedThen ==
  ASSUME ServiceInv, Records, NEW c \in Client, Moves(c)
  PROVE  /\ worked' = [worked EXCEPT ![c] = worked'[c]]
         /\ worked'[c] = worked[c] => worked' = worked
         /\ DOMAIN files \subseteq DOMAIN files' =>
              /\ excused' = [excused EXCEPT ![c] = excused'[c]]
              /\ excused'[c] = excused[c] => excused' = excused
<1>1. /\ worked \in [Client -> BOOLEAN] /\ excused \in [Client -> BOOLEAN]
      /\ worked' \in [Client -> BOOLEAN] /\ excused' \in [Client -> BOOLEAN]
  BY RecordsOf DEF ServiceInv, ServiceTyped
<1>2. \A d \in Client : d # c => worked'[d] = worked[d]
  BY OthersRecorded
<1>3. ASSUME DOMAIN files \subseteq DOMAIN files'
      PROVE  \A d \in Client : d # c => excused'[d] = excused[d]
  BY <1>1, <1>3, OthersRecorded DEF Deletes
<1> QED
  BY <1>1, <1>2, <1>3

LEMMA WorksNow ==
  ASSUME ServiceInv, Records, NEW c \in Client, Moves(c),
         proc'[c].state = proc[c].state, proc'[c].cmd = proc[c].cmd, worked'[c]
  PROVE  FS!Works(c)
<1>1. worked' = [worked EXCEPT ![c] = TRUE]
  <2>1. worked'[c] = TRUE
    BY RecordsOf
  <2> QED
    BY <2>1, RecordedThen
<1> QED
  BY <1>1, RequestIs, RequestThen DEF FS!Works

LEMMA StepStutters ==
  ASSUME ServiceInv, Records, NEW c \in Client, Moves(c),
         proc'[c].state = proc[c].state, proc'[c].cmd = proc[c].cmd, proc'[c].got = proc[c].got,
         DOMAIN files \subseteq DOMAIN files',
         worked'[c] <=> worked[c], excused'[c] = excused[c], FilesSeen' = FilesSeen
  PROVE  UNCHANGED FS!fsVars
<1>1. worked'[c] = worked[c]
  BY RecordsOf DEF ServiceInv, ServiceTyped
<1> QED
  BY <1>1, RecordedThen, RequestThen DEF FS!fsVars

\* A command that is excused may do nothing at all.
LEMMA ExcusedStep ==
  ASSUME ServiceInv, Records, NEW c \in Client, Moves(c),
         proc'[c].state = proc[c].state, proc'[c].cmd = proc[c].cmd,
         DOMAIN files \subseteq DOMAIN files', FilesSeen' = FilesSeen,
         worked'[c], excused[c], excused'[c] = excused[c]
  PROVE  FS!Excuse(c)
  BY WorksNow, RecordedThen DEF FS!Excuse

-----------------------------------------------------------------------------
(* Every step is a step of the file service, or none *)

LEMMA StartBegins ==
  ASSUME ServiceInv, Records, NEW c \in Client, NEW cmd \in Command, Start(c, cmd)
  PROVE  FS!Begin(c)
<1>1. /\ ServiceTyped /\ proc \in [Client -> Processes] /\ proc[c].state = "idle"
      /\ UNCHANGED <<files, disk>>
  BY DEF ServiceInv, ServiceTyped, Start
<1>2. /\ proc'[c].state = "running" /\ proc'[c].cmd = cmd /\ Moves(c)
  BY <1>1 DEF Start, Moves
<1>3. Todo(c) = <<>> /\ ~worked[c] /\ ~excused[c]
  BY <1>1, ProcessIs
<1>4. ~Served(c) /\ ~Deletes(cmd.path)
  BY <1>1, <1>3 DEF Served, Todo, Deletes
<1>5. worked' = worked
  <2>1. worked'[c] = worked[c]
    <3>1. worked'[c] <=> worked[c]
      BY <1>2, <1>3, <1>4, RecordsOf
    <3> QED
      BY <1>1, <3>1, RecordsOf DEF ServiceTyped
  <2> QED
    BY <1>2, <2>1, RecordedThen
<1>6. excused' = [excused EXCEPT ![c] = cmd.op \in DataOps /\ ~FS!Ready(cmd.path)]
  <2>1. excused'[c] <=> cmd.op \in DataOps /\ ~FS!Ready(cmd.path)
    BY <1>1, <1>2, <1>3, <1>4, RecordsOf, ReadyIs
  <2>2. excused'[c] \in BOOLEAN
    BY RecordsOf
  <2>3. excused'[c] = (cmd.op \in DataOps /\ ~FS!Ready(cmd.path))
    BY <2>1, <2>2
  <2>4. excused' = [excused EXCEPT ![c] = excused'[c]]
    BY <1>1, <1>2, RecordedThen
  <2> QED
    BY <2>3, <2>4
<1>7. FilesSeen' = FilesSeen
  BY <1>1, SeenSame
<1> QED
  BY <1>1, <1>2, <1>5, <1>6, <1>7, RequestIs, RequestThen
  DEF FS!Begin, FS!Data, DataOps

LEMMA EndEnds ==
  ASSUME ServiceInv, Records, NEW c \in Client, proc[c].state # "idle",
         proc[c].state = "gone" \/ Todo(c) = <<>>,
         proc' = [proc EXCEPT ![c] = NoProcess],
         UNCHANGED <<files, masterUp, nextHandle, disk, commands>>
  PROVE  FS!End(c)
<1>1. ServiceTyped /\ proc \in [Client -> Processes] /\ Excusable(c)
      /\ proc[c].state \in {"running", "gone"}
  BY ProcessIs DEF ServiceInv, ServiceTyped
<1>2. proc'[c].state = "idle" /\ Moves(c)
  BY <1>1 DEF Moves, NoProcess
<1>3. worked'[c] = FALSE /\ excused'[c] = FALSE
  BY <1>2, RecordsOf
<1>4. worked' = [worked EXCEPT ![c] = FALSE] /\ excused' = [excused EXCEPT ![c] = FALSE]
  BY <1>2, <1>3, RecordedThen
<1>5. proc[c].state = "gone" \/ worked[c] \/ excused[c]
  BY <1>1 DEF Excusable
<1> QED
  BY <1>2, <1>4, <1>5, SeenSame, RequestIs, RequestThen DEF FS!End

LEMMA GiveUpFails ==
  ASSUME ServiceInv, Records, NEW c \in Client, GiveUp(c)
  PROVE  FS!Fail(c)
<1>1. /\ Moves(c) /\ proc[c].state = "running" /\ UNCHANGED <<files, disk>>
      /\ proc'[c].state = "gone" /\ proc'[c].cmd = proc[c].cmd
      /\ worked'[c] = worked[c] /\ excused'[c] = excused[c]
  BY GiveUpKeeps DEF GiveUp
<1> QED
  BY <1>1, RecordedThen, SeenSame, RequestIs, RequestThen DEF FS!Fail

LEMMA DeclinesMaps ==
  ASSUME ServiceInv, Records, NEW c \in Client, Asking(c), proc[c].state # "idle",
         proc[c].cmd \in Command, Declines(c)
  PROVE  \/ FS!FSCreate(c) \/ FS!FSDelete(c) \/ FS!FSList(c)
         \/ UNCHANGED FS!fsVars
<1>1. /\ Moves(c)
      /\ proc'[c].state = proc[c].state /\ proc'[c].cmd = proc[c].cmd
      /\ proc'[c].got = proc[c].got /\ ~worked[c]
      /\ excused'[c] = excused[c] /\ (Op(c) \in DataOps => excused[c])
      /\ worked'[c] <=> Op(c) \notin DataOps
      /\ UNCHANGED <<files, disk>>
  BY DeclinesKeeps, AskingIs DEF Declines, Answers
<1>2. FilesSeen' = FilesSeen /\ excused' = excused
  BY <1>1, SeenSame, RecordedThen
<1>3. CASE Op(c) \in DataOps
  BY <1>1, <1>2, <1>3, StepStutters
<1>4. CASE Op(c) \notin DataOps
  <2>1. FS!Works(c)
    BY <1>1, <1>4, WorksNow
  <2>2. CASE Op(c) = "create"
    <3>1. PathOf(c) \in DOMAIN FilesSeen
      BY <2>2, SeenIs DEF Declines
    <3>2. FS!FSCreate(c)
      BY <1>1, <1>2, <2>1, <2>2, <3>1, RequestIs DEF FS!FSCreate
    <3> QED
      BY <3>2
  <2>3. CASE Op(c) = "list"
    <3>1. FS!FSList(c)
      BY <1>1, <1>2, <2>1, <2>3, RequestIs DEF FS!FSList
    <3> QED
      BY <3>1
  <2>4. CASE Op(c) = "delete"
    <3>1. PathOf(c) \notin DOMAIN files
      BY <2>4 DEF Declines
    <3>2. FilesSeen' = FS!Restrict(FilesSeen, DOMAIN FilesSeen \ {FS!Path_(c)})
      <4>1. PICK F : F = FilesSeen
        OBVIOUS
      <4>2. FS!Path_(c) \notin DOMAIN F /\ F = [p \in DOMAIN F |-> F[p]]
        BY <3>1, <4>1, SeenIs, RequestIs DEF FilesSeen
      <4>3. DOMAIN F \ {FS!Path_(c)} = DOMAIN F
        BY <4>2
      <4>4. F = FS!Restrict(F, DOMAIN F \ {FS!Path_(c)})
        BY <4>2, <4>3 DEF FS!Restrict
      <4> QED
        BY <1>2, <4>1, <4>4
    <3>3. excused' = [d \in Client |->
                    \/ excused[d]
                    \/ Requests[d].state # "idle" /\ Requests[d].cmd.op \in FS!Data
                       /\ FS!Path_(d) = FS!Path_(c)]
      <4>1. ASSUME NEW d \in Client
            PROVE  excused[d] = \/ excused[d]
                                \/ Requests[d].state # "idle" /\ Requests[d].cmd.op \in FS!Data
                                   /\ FS!Path_(d) = FS!Path_(c)
        <5>1. excused[d] \in BOOLEAN
          BY DEF ServiceInv, ServiceTyped
        <5>2. proc[d].state # "idle" /\ Op(d) \in DataOps /\ PathOf(d) = PathOf(c) => excused[d]
          BY <3>1 DEF ServiceInv, Excusable
        <5> QED
          BY <5>1, <5>2, RequestIs DEF FS!Data, DataOps, Op
      <4>2. excused = [d \in Client |-> excused[d]]
        BY DEF ServiceInv, ServiceTyped
      <4> QED
        BY <1>2, <4>1, <4>2
    <3>4. FS!FSDelete(c)
      BY <1>1, <2>1, <2>4, <3>2, <3>3, RequestIs DEF FS!FSDelete
    <3> QED
      BY <3>4
  <2> QED
    BY <1>4, <2>2, <2>3, <2>4, CommandIs DEF Op, DataOps
<1> QED
  BY <1>3, <1>4

LEMMA RemovesMaps ==
  ASSUME ServiceInv, Records, NEW c \in Client, Asking(c), proc[c].state # "idle", Removes(c)
  PROVE  FS!FSDelete(c)
<1>1. /\ Moves(c)
      /\ proc'[c].state = proc[c].state /\ proc'[c].cmd = proc[c].cmd
      /\ excused'[c] = excused[c] /\ worked'[c] /\ ~worked[c]
      /\ DOMAIN files' = DOMAIN files \ {PathOf(c)}
      /\ \A p \in DOMAIN files' : files'[p] = files[p]
      /\ Op(c) = "delete" /\ PathOf(c) \in DOMAIN files /\ UNCHANGED disk
  BY RemovesKeeps, AskingIs DEF Removes, Answers
<1>2. FS!Works(c)
  BY <1>1, WorksNow
<1>3. FilesSeen' = FS!Restrict(FilesSeen, DOMAIN FilesSeen \ {FS!Path_(c)})
  <2>1. PICK F, G : F = FilesSeen /\ G = FilesSeen'
    OBVIOUS
  <2>2. ASSUME NEW p \in DOMAIN files'
        PROVE  G[p] = F[p]
    <3>1. p \in DOMAIN files /\ files'[p] = files[p]
      BY <1>1
    <3>2. HasFirstChunk(p)' = HasFirstChunk(p) /\ FileData(p)' = FileData(p)
      BY <1>1, <3>1 DEF HasFirstChunk, FileData, ChunkData
    <3> QED
      BY <2>1, <3>1, <3>2, SeenIs, SeenThen
  <2>3. G = [p \in DOMAIN F \ {PathOf(c)} |-> F[p]]
    BY <1>1, <2>1, <2>2, SeenIs, SeenThen
  <2>4. G = FS!Restrict(F, DOMAIN F \ {PathOf(c)})
    BY <2>3 DEF FS!Restrict
  <2> QED
    BY <2>1, <2>4, RequestIs
<1>4. excused' = [d \in Client |->
                    \/ excused[d]
                    \/ Requests[d].state # "idle" /\ Requests[d].cmd.op \in FS!Data
                       /\ FS!Path_(d) = FS!Path_(c)]
  <2>1. ASSUME NEW d \in Client
        PROVE  excused'[d] = \/ excused[d]
                             \/ Requests[d].state # "idle" /\ Requests[d].cmd.op \in FS!Data
                                /\ FS!Path_(d) = FS!Path_(c)
    <3>1. excused[d] \in BOOLEAN /\ excused'[d] \in BOOLEAN
      BY RecordsOf DEF ServiceInv, ServiceTyped
    <3>2. excused'[d] <=> excused[d] \/ (/\ proc[d].state # "idle" /\ Op(d) \in DataOps
                                         /\ PathOf(d) = PathOf(c))
      <4>1. \A p : Deletes(p) <=> p = PathOf(c)
        BY <1>1 DEF Deletes
      <4>2. CASE d # c
        BY <1>1, <4>1, <4>2, OthersRecorded
      <4>3. CASE d = c
        BY <1>1, <4>3 DEF DataOps
      <4> QED
        BY <4>2, <4>3
    <3> QED
      BY <3>1, <3>2, RequestIs DEF FS!Data, DataOps, Op
  <2>2. excused' = [d \in Client |-> excused'[d]]
    BY RecordsOf
  <2> QED
    BY <2>1, <2>2
<1> QED
  BY <1>1, <1>2, <1>3, <1>4, RequestIs DEF FS!FSDelete

LEMMA CreatesMaps ==
  ASSUME ServiceInv, Records, NEW c \in Client, Asking(c), proc[c].state # "idle",
         NEW loc \in Places, Creates(c, loc)
  PROVE  FS!FSCreate(c)
<1>1. /\ Moves(c)
      /\ proc'[c].state = proc[c].state /\ proc'[c].cmd = proc[c].cmd
      /\ excused'[c] = excused[c] /\ worked'[c] /\ ~worked[c]
      /\ DOMAIN files' = DOMAIN files \cup {PathOf(c)}
      /\ files'[PathOf(c)] = AddChunk(NewFile, nextHandle, loc)
      /\ \A p \in DOMAIN files : files'[p] = files[p] /\ p # PathOf(c)
      /\ Op(c) = "create" /\ PathOf(c) \notin DOMAIN files /\ UNCHANGED disk
  BY CreatesKeeps, AskingIs DEF Creates, Answers
<1>2. FS!Works(c)
  BY <1>1, WorksNow
<1>3. excused' = excused
  BY <1>1, RecordedThen
<1>4. PICK p, h : p = PathOf(c) /\ h = nextHandle
  OBVIOUS
<1>5. FilesSeen'[p] = [ready |-> FALSE, data |-> <<>>]
  <2>1. h \notin DOMAIN disk'[loc[1]]
    BY <1>1, <1>4, PlaceIs DEF ServiceInv, ServiceTyped
  <2>2. files'[p] = AddChunk(NewFile, h, loc) /\ p \in DOMAIN files'
    BY <1>1, <1>4
  <2>3. ~HasFirstChunk(p)' /\ FileData(p)' = <<>>
    BY <2>1, <2>2, DataThen
  <2>4. FilesSeen'[p] = [ready |-> HasFirstChunk(p)', data |-> FileData(p)']
    BY <2>2, SeenThen
  <2>5. HasFirstChunk(p)' = FALSE
    BY <2>3 DEF HasFirstChunk
  <2> QED
    BY <2>3, <2>4, <2>5
<1>6. ASSUME NEW q \in DOMAIN files
      PROVE  FilesSeen'[q] = FilesSeen[q]
  <2>1. files'[q] = files[q] /\ q \in DOMAIN files'
    BY <1>1
  <2>2. HasFirstChunk(q)' = HasFirstChunk(q) /\ FileData(q)' = FileData(q)
    BY <1>1, <2>1 DEF HasFirstChunk, FileData, ChunkData
  <2> QED
    BY <2>1, <2>2, SeenIs, SeenThen
<1>7. FS!Become(p, [ready |-> FALSE, data |-> <<>>])
  BY <1>1, <1>4, <1>5, <1>6, SeenBecomes
<1>8. p \notin DOMAIN FilesSeen /\ FS!Path_(c) = p
  BY <1>1, <1>4, SeenIs, RequestIs
<1>9. FS!Become(FS!Path_(c), [ready |-> FALSE, data |-> <<>>])
  BY <1>7, <1>8
<1> QED
  BY <1>1, <1>2, <1>3, <1>8, <1>9, RequestIs DEF FS!FSCreate

LEMMA DirectsMaps ==
  ASSUME ServiceInv, Records, NEW c \in Client, Asking(c), proc[c].state # "idle",
         NEW h \in 1 .. nextHandle - 1, NEW loc \in Places, NEW more \in Seq(Calls),
         Directs(c, h, loc, more)
  PROVE  UNCHANGED FS!fsVars
<1>1. /\ Moves(c)
      /\ proc'[c].state = proc[c].state /\ proc'[c].cmd = proc[c].cmd
      /\ proc'[c].got = proc[c].got
      /\ excused'[c] = excused[c] /\ ~worked'[c] /\ ~worked[c]
      /\ UNCHANGED <<files, disk>>
  BY DirectsKeeps, AskingIs DEF Directs, Answers
<1>2. FilesSeen' = FilesSeen
  BY <1>1, SeenSame
<1> QED
  BY <1>1, <1>2, StepStutters

LEMMA SizesMaps ==
  ASSUME ServiceInv, Records, NEW c \in Client,
         NEW h \in 1 .. nextHandle - 1, NEW loc \in Places,
         AtChunk(c, h, loc, 0), AsksSpace(c, h, loc),
         proc[c].state # "idle", UNCHANGED <<files, masterUp, nextHandle, commands>>,
         NEW s \in Server, s = loc[1], Sizes(c, s, h)
  PROVE  UNCHANGED FS!fsVars
<1>1. /\ Moves(c)
      /\ proc'[c].state = proc[c].state /\ proc'[c].cmd = proc[c].cmd
      /\ proc'[c].got = proc[c].got
      /\ excused'[c] = excused[c] /\ ~worked'[c] /\ UNCHANGED disk
  BY SizesKeeps DEF Sizes
<1>2. ~worked[c]
  BY DEF AtChunk, AsksSpace
<1>3. FilesSeen' = FilesSeen
  BY <1>1, SeenSame
<1> QED
  BY <1>1, <1>2, <1>3, StepStutters

\* A command on data that is not excused has its file, with the chunk at hand.
LEMMA NotExcused ==
  ASSUME ServiceInv, NEW c \in Client, NEW h, NEW loc \in Places, NEW k,
         AtChunk(c, h, loc, k), Op(c) \in DataOps, ~excused[c]
  PROVE  /\ PathOf(c) \in DOMAIN files /\ HandleOf(PathOf(c)) = h
         /\ files[PathOf(c)] = AddChunk(NewFile, h, loc)
         /\ h \in DOMAIN disk[loc[1]]
<1>1. proc[c].state # "idle"
  <2>1. Todo(c) # <<>>
    BY DEF AtChunk
  <2> QED
    BY <2>1, ProcessIs DEF ServiceInv
<1>2. PICK p \in DOMAIN files : p = PathOf(c) /\ HandleOf(p) = h /\ HasFirstChunk(p)
  BY <1>1 DEF ServiceInv, Excusable, AtChunk
<1>3. files[p] = AddChunk(NewFile, h, loc)
  BY <1>2 DEF AtChunk
<1>4. h \in DOMAIN disk[loc[1]]
  BY <1>2, <1>3, DataIs
<1> QED
  BY <1>2, <1>3, <1>4

LEMMA MissesMaps ==
  ASSUME ServiceInv, Records, NEW c \in Client, NEW s \in Server,
         NEW h \in 1 .. nextHandle - 1, NEW loc \in Places,
         NEW k \in 0 .. Replicas, AtChunk(c, h, loc, k), Follows(Todo(c), proc[c].cmd, h, loc, k),
         s = loc[k + 1],
         proc[c].state # "idle", UNCHANGED <<files, masterUp, nextHandle, commands>>,
         Misses(c, s, h)
  PROVE  FS!Excuse(c) \/ UNCHANGED FS!fsVars
<1>1. /\ Moves(c)
      /\ proc'[c].state = proc[c].state /\ proc'[c].cmd = proc[c].cmd
      /\ proc'[c].got = proc[c].got
      /\ excused'[c] = excused[c] /\ worked'[c] /\ UNCHANGED disk
      /\ Op(c) \in DataOps /\ Op(c) # "create" /\ h \notin DOMAIN disk[s]
  BY MissesKeeps DEF Misses, DataOps
<1>2. FilesSeen' = FilesSeen
  BY <1>1, SeenSame
<1>3. CASE k = 0
  <2>1. s = loc[1]
    BY <1>3
  <2>2. excused[c]
    BY <1>1, <2>1, NotExcused
  <2> QED
    BY <1>1, <1>2, <2>2, ExcusedStep
<1>4. CASE k # 0
  <2>1. worked[c]
    BY <1>4 DEF AtChunk
  <2> QED
    BY <1>1, <1>2, <2>1, StepStutters
<1> QED
  BY <1>3, <1>4

LEMMA ReadsMaps ==
  ASSUME ServiceInv, Records, NEW c \in Client, NEW s \in Server,
         NEW h \in 1 .. nextHandle - 1, NEW loc \in Places,
         NEW k \in 0 .. Replicas, AtChunk(c, h, loc, k), Follows(Todo(c), proc[c].cmd, h, loc, k),
         s = loc[k + 1],
         proc[c].state # "idle", UNCHANGED <<files, masterUp, nextHandle, commands>>,
         Reads(c, s, h)
  PROVE  FS!FSRead(c) \/ FS!Excuse(c)
<1>1. /\ Moves(c)
      /\ proc'[c].state = proc[c].state /\ proc'[c].cmd = proc[c].cmd
      /\ proc[c].state = "running" => proc'[c].got = Found(s, h)
      /\ excused'[c] = excused[c] /\ worked'[c] /\ UNCHANGED disk
      /\ Op(c) \in DataOps /\ Op(c) = "read"
  BY ReadsKeeps DEF Reads, DataOps
<1>2. FilesSeen' = FilesSeen /\ excused' = excused
  BY <1>1, SeenSame, RecordedThen
<1>3. k = 0 /\ s = loc[1] /\ ~worked[c]
  <2>1. Width(Op(c)) = 1
    BY <1>1 DEF Width
  <2>2. PICK t : t = Todo(c)
    OBVIOUS
  <2>3. t \in Seq(Calls) /\ t # <<>>
    BY <2>2, ProcessIs DEF AtChunk, ServiceInv
  <2>4. Len(t) \in Nat \ {0} /\ k + Len(t) <= 1
    BY <2>1, <2>2, <2>3 DEF Follows, Op
  <2>5. k = 0
    BY <2>4
  <2> QED
    BY <1>1, <2>5 DEF AtChunk
<1>4. CASE excused[c]
  BY <1>1, <1>2, <1>4, ExcusedStep
<1>5. CASE ~excused[c]
  <2>1. PICK p \in DOMAIN files : p = PathOf(c) /\ files[p] = AddChunk(NewFile, h, loc)
                                  /\ h \in DOMAIN disk[loc[1]]
    BY <1>1, <1>5, NotExcused
  <2>2. HasFirstChunk(p) /\ FileData(p) = Found(s, h)
    BY <1>3, <2>1, DataIs DEF Found
  <2>3. FS!Ready(p) /\ FilesSeen[p].data = Found(s, h) /\ FS!Path_(c) = p
    BY <2>1, <2>2, SeenIs, ReadyIs, RequestIs
  <2>4. FS!Works(c)
    BY <1>1, WorksNow
  <2>5. FS!FSRead(c)
    BY <1>1, <1>2, <1>3, <2>3, <2>4, RequestIs, RequestThen DEF FS!FSRead
  <2> QED
    BY <2>5
<1> QED
  BY <1>4, <1>5

\* What a server has stored is seen if it is the first of a file's chunk.
LEMMA StoreSeen ==
  ASSUME ServiceInv, NEW c \in Client, NEW s \in Server, NEW h \in 1 .. nextHandle - 1,
         NEW loc \in Places, NEW k \in 0 .. Replicas, AtChunk(c, h, loc, k),
         s = loc[k + 1], k + 1 \in 1 .. Replicas, proc[c].cmd \in Command,
         UNCHANGED <<files, nextHandle>>, Stores(c, s, h)
  PROVE  /\ \A p \in DOMAIN files : HandleOf(p) # h \/ k # 0 => FilesSeen'[p] = FilesSeen[p]
         /\ k = 0 => \A p \in DOMAIN files : HandleOf(p) = h =>
              /\ FilesSeen[p] = [ready |-> h \in DOMAIN disk[s],
                                 data |-> IF h \in DOMAIN disk[s] THEN disk[s][h] ELSE <<>>]
              /\ FilesSeen'[p] = [ready |-> TRUE, data |-> NewContents(c, s, h)]
         /\ (\A p \in DOMAIN files : FilesSeen'[p] = FilesSeen[p]) => FilesSeen' = FilesSeen
<1>1. /\ DOMAIN disk'[s] = DOMAIN disk[s] \cup {h} /\ disk'[s][h] = NewContents(c, s, h)
      /\ \A x \in DOMAIN disk[s] : x # h => disk'[s][x] = disk[s][x]
      /\ \A d \in Server : d # s => disk'[d] = disk[d]
  BY StoredIs
<1>2. ASSUME NEW p \in DOMAIN files, HandleOf(p) # h \/ k # 0
      PROVE  FilesSeen'[p] = FilesSeen[p]
  <2>1. PICK x \in 1 .. nextHandle - 1, l \in Places :
          /\ files[p] = AddChunk(NewFile, x, l) /\ x = HandleOf(p)
          /\ x = h => l = loc
    <3>1. PICK x \in 1 .. nextHandle - 1, l \in Places :
            files[p] = AddChunk(NewFile, x, l)
      BY DEF ServiceInv, ServiceTyped
    <3>2. x = HandleOf(p)
      BY <3>1, OneChunkIs DEF HandleOf
    <3>3. CASE x = h
      BY <3>2, <3>3 DEF AtChunk
    <3> QED
      BY <3>1, <3>2, <3>3
  <2>2. l[1] \in Server
    BY PlaceIs
  <2>3. (x \in DOMAIN disk'[l[1]] <=> x \in DOMAIN disk[l[1]])
        /\ (x \in DOMAIN disk[l[1]] => disk'[l[1]][x] = disk[l[1]][x])
    <3>1. CASE x # h
      BY <1>1, <2>2, <3>1
    <3>2. CASE x = h /\ k # 0
      <4>1. l[1] # s
        <5>1. 1 \in 1 .. Replicas /\ k + 1 # 1
          BY <3>2, PlaceIs
        <5> QED
          BY <2>1, <3>2, <5>1, PlaceIs
      <4> QED
        BY <1>1, <2>2, <4>1
    <3> QED
      BY <1>2, <2>1, <3>1, <3>2
  <2>4. files'[p] = AddChunk(NewFile, x, l) /\ p \in DOMAIN files'
    BY <2>1
  <2>5. /\ HasFirstChunk(p) <=> x \in DOMAIN disk[l[1]]
        /\ FileData(p) = IF x \in DOMAIN disk[l[1]] THEN disk[l[1]][x] ELSE <<>>
    BY <2>1, DataIs
  <2>6. /\ HasFirstChunk(p)' <=> x \in DOMAIN disk'[l[1]]
        /\ FileData(p)' = IF x \in DOMAIN disk'[l[1]] THEN disk'[l[1]][x] ELSE <<>>
    BY <2>4, DataThen
  <2>7. HasFirstChunk(p)' = HasFirstChunk(p)
    BY <2>3, <2>5, <2>6 DEF HasFirstChunk
  <2>8. FileData(p)' = FileData(p)
    BY <2>3, <2>5, <2>6
  <2> QED
    BY <2>4, <2>7, <2>8, SeenIs, SeenThen
<1>3. ASSUME k = 0, NEW p \in DOMAIN files, HandleOf(p) = h
      PROVE  /\ FilesSeen[p] = [ready |-> h \in DOMAIN disk[s],
                                data |-> IF h \in DOMAIN disk[s] THEN disk[s][h] ELSE <<>>]
             /\ FilesSeen'[p] = [ready |-> TRUE, data |-> NewContents(c, s, h)]
  <2>1. files[p] = AddChunk(NewFile, h, loc) /\ s = loc[1]
    BY <1>3 DEF AtChunk
  <2>2. files'[p] = AddChunk(NewFile, h, loc) /\ p \in DOMAIN files'
    BY <2>1
  <2>3. /\ HasFirstChunk(p) = (h \in DOMAIN disk[s])
        /\ FileData(p) = IF h \in DOMAIN disk[s] THEN disk[s][h] ELSE <<>>
    BY <2>1, DataIs DEF HasFirstChunk
  <2>4. h \in DOMAIN disk'[loc[1]] /\ disk'[loc[1]][h] = NewContents(c, s, h)
    BY <1>1, <2>1
  <2>5. HasFirstChunk(p)' /\ FileData(p)' = NewContents(c, s, h)
    BY <2>2, <2>4, DataThen
  <2>6. HasFirstChunk(p)' = TRUE
    BY <2>5 DEF HasFirstChunk
  <2>7. FilesSeen'[p] = [ready |-> HasFirstChunk(p)', data |-> FileData(p)']
    BY <2>2, SeenThen
  <2>8. FilesSeen[p] = [ready |-> HasFirstChunk(p), data |-> FileData(p)]
    BY SeenIs
  <2> QED
    BY <2>3, <2>5, <2>6, <2>7, <2>8
<1>4. ASSUME \A p \in DOMAIN files : FilesSeen'[p] = FilesSeen[p]
      PROVE  FilesSeen' = FilesSeen
  <2>1. PICK F, G : F = FilesSeen /\ G = FilesSeen'
    OBVIOUS
  <2>2. /\ DOMAIN F = DOMAIN files /\ DOMAIN G = DOMAIN files
        /\ F = [p \in DOMAIN F |-> F[p]] /\ G = [p \in DOMAIN G |-> G[p]]
        /\ \A p \in DOMAIN files : G[p] = F[p]
    BY <1>4, <2>1, SeenIs, SeenThen DEF FilesSeen
  <2>3. F = G
    BY <2>2
  <2> QED
    BY <2>1, <2>3
<1> QED
  BY <1>2, <1>3, <1>4

LEMMA StoresMaps ==
  ASSUME ServiceInv, Records, NEW c \in Client, NEW s \in Server,
         NEW h \in 1 .. nextHandle - 1, NEW loc \in Places,
         NEW k \in 0 .. Replicas, AtChunk(c, h, loc, k), Follows(Todo(c), proc[c].cmd, h, loc, k),
         s = loc[k + 1],
         proc[c].state # "idle", UNCHANGED <<files, masterUp, nextHandle, commands>>,
         Stores(c, s, h)
  PROVE  \/ \E p \in Path : FS!MakeReady(p)
         \/ FS!FSWrite(c) \/ FS!FSAppend(c) \/ FS!Excuse(c)
         \/ UNCHANGED FS!fsVars
<1>1. /\ Moves(c)
      /\ proc'[c].state = proc[c].state /\ proc'[c].cmd = proc[c].cmd
      /\ proc'[c].got = proc[c].got
      /\ excused'[c] = excused[c] /\ worked'[c] /\ excused[c] \in BOOLEAN
  BY StoresKeeps DEF ServiceInv, ServiceTyped
<1>2. ServiceTyped /\ proc[c].cmd \in Command /\ Todo(c) # <<>> /\ k + 1 \in 1 .. Replicas
  <2>1. ServiceTyped /\ proc[c].cmd \in Command /\ Todo(c) # <<>>
    BY DEF ServiceInv, ServiceTyped, AtChunk
  <2> QED
    BY <2>1, RestFollows
<1>3. /\ \A p \in DOMAIN files : HandleOf(p) # h \/ k # 0 => FilesSeen'[p] = FilesSeen[p]
      /\ k = 0 => \A p \in DOMAIN files : HandleOf(p) = h =>
           /\ FilesSeen[p] = [ready |-> h \in DOMAIN disk[s],
                              data |-> IF h \in DOMAIN disk[s] THEN disk[s][h] ELSE <<>>]
           /\ FilesSeen'[p] = [ready |-> TRUE, data |-> NewContents(c, s, h)]
      /\ (\A p \in DOMAIN files : FilesSeen'[p] = FilesSeen[p]) => FilesSeen' = FilesSeen
  BY <1>2, StoreSeen
<1>4. excused' = excused
  BY <1>1, RecordedThen
<1>5. PathOf(c) \in Path /\ \A p \in DOMAIN files : HandleOf(p) = h => p = PathOf(c)
  <2>1. h \in Nat /\ Belongs(h, PathOf(c)) /\ DOMAIN files \subseteq Path
    <3>1. Belongs(h, PathOf(c))
      BY <1>2, CallerBelongs
    <3> QED
      BY <1>2, <3>1 DEF ServiceTyped
  <2>2. PathOf(c) \in Path
    BY <1>2, CommandIs DEF PathOf
  <2> QED
    BY <2>1, <2>2 DEF ServiceInv, OneFile, Belongs
<1>6. CASE worked[c] /\ FilesSeen' = FilesSeen
  BY <1>1, <1>6, StepStutters
<1>7. CASE k # 0
  <2>1. worked[c] /\ FilesSeen' = FilesSeen
    BY <1>3, <1>7 DEF AtChunk
  <2> QED
    BY <1>6, <2>1
<1>8. CASE k = 0 /\ ~\E p \in DOMAIN files : HandleOf(p) = h
  <2>1. FilesSeen' = FilesSeen
    BY <1>3, <1>8
  <2>2. CASE Op(c) = "create"
    <3>1. worked[c]
      BY <2>2 DEF AtChunk
    <3> QED
      BY <1>6, <2>1, <3>1
  <2>3. CASE Op(c) \in DataOps
    <3>1. excused[c]
      <4>1. ~excused[c] => PathOf(c) \in DOMAIN files /\ HandleOf(PathOf(c)) = h
        BY <2>3, NotExcused
      <4> QED
        BY <1>8, <4>1
    <3> QED
      BY <1>1, <2>1, <3>1, ExcusedStep
  <2> QED
    BY <2>2, <2>3 DEF Stores, DataOps
<1>9. CASE k = 0 /\ \E p \in DOMAIN files : HandleOf(p) = h
  <2>1. PICK p \in DOMAIN files : HandleOf(p) = h /\ p = PathOf(c)
    BY <1>5, <1>9
  <2>2. /\ FilesSeen[p] = [ready |-> h \in DOMAIN disk[s],
                           data |-> IF h \in DOMAIN disk[s] THEN disk[s][h] ELSE <<>>]
        /\ FilesSeen'[p] = [ready |-> TRUE, data |-> NewContents(c, s, h)]
        /\ \A q \in DOMAIN files : q # p => FilesSeen'[q] = FilesSeen[q]
    BY <1>3, <1>5, <1>9, <2>1
  <2>3. DOMAIN files' = DOMAIN files \cup {p} /\ FS!Path_(c) = p
    BY <2>1, RequestIs
  <2>4. FS!Become(p, [ready |-> TRUE, data |-> NewContents(c, s, h)])
    BY <2>2, <2>3, SeenBecomes
  <2>5. CASE Op(c) = "create"
    <3>1. worked[c]
      BY <2>5 DEF AtChunk
    <3>2. CASE h \in DOMAIN disk[s]
      <4>1. NewContents(c, s, h) = disk[s][h]
        BY <2>5, <3>2 DEF NewContents
      <4>2. FilesSeen'[p] = FilesSeen[p]
        <5>1. FilesSeen[p] = [ready |-> TRUE, data |-> disk[s][h]]
          BY <2>2, <3>2
        <5> QED
          BY <2>2, <4>1, <5>1
      <4>3. FilesSeen' = FilesSeen
        BY <1>3, <2>2, <4>2
      <4> QED
        BY <1>6, <3>1, <4>3
    <3>3. CASE h \notin DOMAIN disk[s]
      <4>1. FilesSeen[p] = [ready |-> FALSE, data |-> <<>>] /\ NewContents(c, s, h) = <<>>
        <5>1. (h \in DOMAIN disk[s]) = FALSE
          BY <3>3
        <5>2. FilesSeen[p] = [ready |-> FALSE, data |-> <<>>]
          BY <2>2, <3>3, <5>1
        <5> QED
          BY <3>3, <5>2 DEF NewContents
      <4>2. FilesSeen[p].data = NewContents(c, s, h)
        BY <4>1
      <4>3. worked' = worked /\ Requests' = Requests
        <5>1. worked'[c] = worked[c]
          BY <1>1, <3>1, RecordsOf DEF ServiceInv, ServiceTyped
        <5> QED
          BY <1>1, <5>1, RecordedThen, RequestThen
      <4>4. FS!MakeReady(p)
        <5>1. p \in DOMAIN FilesSeen /\ ~FilesSeen[p].ready
          BY <4>1, SeenIs
        <5>2. FS!Become(p, [ready |-> TRUE, data |-> FilesSeen[p].data])
          BY <2>4, <4>2
        <5> QED
          BY <1>4, <4>3, <5>1, <5>2 DEF FS!MakeReady
      <4> QED
        BY <1>5, <2>1, <4>4
    <3> QED
      BY <3>2, <3>3
  <2>6. CASE Op(c) \in {"write", "append"}
    <3>1. h \in DOMAIN disk[s] /\ ~worked[c]
      BY <1>9, <2>6 DEF Stores, AtChunk
    <3>2. FilesSeen[p] = [ready |-> TRUE, data |-> disk[s][h]]
      BY <2>2, <3>1
    <3>3. FS!Ready(p) /\ FilesSeen[p].data = disk[s][h]
      BY <3>2, SeenIs DEF FS!Ready
    <3>4. FS!Works(c)
      BY <1>1, WorksNow
    <3>5. CASE Op(c) = "write"
      <4>1. NewContents(c, s, h) = Requests[c].cmd.data
        BY <3>1, <3>5, RequestIs DEF NewContents
      <4>2. FS!FSWrite(c)
        BY <1>1, <1>4, <2>3, <2>4, <3>1, <3>3, <3>4, <3>5, <4>1, RequestIs DEF FS!FSWrite
      <4> QED
        BY <4>2
    <3>6. CASE Op(c) = "append"
      <4>1. NewContents(c, s, h) = FilesSeen[p].data \o Requests[c].cmd.data
        BY <3>1, <3>3, <3>6, RequestIs DEF NewContents
      <4>2. FS!FSAppend(c)
        BY <1>1, <1>4, <2>3, <2>4, <3>1, <3>3, <3>4, <3>6, <4>1, RequestIs DEF FS!FSAppend
      <4> QED
        BY <4>2
    <3> QED
      BY <2>6, <3>5, <3>6
  <2> QED
    BY <2>5, <2>6 DEF Stores
<1> QED
  BY <1>7, <1>8, <1>9

-----------------------------------------------------------------------------
(* Steps *)

LEMMA InitService ==
  ASSUME InitR
  PROVE  ServiceInv /\ FS!FSInit
<1>1. /\ files = EmptyMap /\ DOMAIN files = {} /\ masterUp = TRUE /\ nextHandle = 1
      /\ disk = [s \in Server |-> EmptyMap] /\ proc = [c \in Client |-> NoProcess]
      /\ commands = 0
      /\ worked = [c \in Client |-> FALSE] /\ excused = [c \in Client |-> FALSE]
  BY DEF InitR, Init, EmptyMap
<1>2. \A c \in Client : /\ proc[c] = NoProcess /\ proc[c].state = "idle" /\ Todo(c) = <<>>
                        /\ ~worked[c] /\ ~excused[c]
  BY <1>1 DEF NoProcess, Todo
<1>3. NoProcess \in Processes
  BY EmptySeq DEF NoProcess, Processes
<1>4. MaxCommands \in Nat
  BY ClientAssumption DEF ClientAssumption
<1>5. \A s \in Server : disk[s] = EmptyMap /\ DOMAIN disk[s] = {}
  BY <1>1 DEF EmptyMap
<1>6. EmptyMap \in [{} -> Seq(Byte)]
  BY DEF EmptyMap
<1>7. ServiceTyped
  <2>1. files = [p \in DOMAIN files |-> files[p]]
    BY <1>1 DEF EmptyMap
  <2>2. disk = [s \in Server |-> disk[s]]
    BY <1>1
  <2>3. \A s \in Server :
          disk[s] \in [DOMAIN disk[s] -> Seq(Byte)] /\ DOMAIN disk[s] \subseteq 1 .. nextHandle - 1
    BY <1>5, <1>6
  <2>4. /\ proc \in [Client -> Processes]
        /\ worked \in [Client -> BOOLEAN] /\ excused \in [Client -> BOOLEAN]
    BY <1>1, <1>3
  <2> QED
    BY <1>1, <1>2, <1>4, <2>1, <2>2, <2>3, <2>4 DEF ServiceTyped
<1>8. OneFile
  <2>1. \A h, p : ~Belongs(h, p)
    BY <1>1, <1>2 DEF Belongs, CallsFor
  <2> QED
    BY <2>1 DEF OneFile
<1>9. ChunksFit
  <2>1. Active = {}
    BY <1>2 DEF Active
  <2>2. IsFiniteSet(Active) /\ Cardinality(Active) = 0
    BY <2>1, FS_EmptySet
  <2>3. Cardinality(Active) <= commands
    BY <1>1, <2>2
  <2> QED
    BY <1>5, <2>2, <2>3 DEF ChunksFit
<1>10. ServiceInv
  BY <1>2, <1>7, <1>8, <1>9 DEF ServiceInv
<1>11. FilesSeen = [p \in {} |-> <<>>]
  BY <1>1 DEF FilesSeen
<1>12. FS!FSInit
  BY <1>1, <1>2, <1>11, RequestIs DEF FS!FSInit
<1> QED
  BY <1>10, <1>12

\* A handler of the master is an action of FileService, or changes nothing there.
LEMMA MasterStepMaps ==
  ASSUME ServiceInv, Records, NEW c \in Client, MasterStep(c)
  PROVE  ServiceInv' /\ [FS!FSNext]_(FS!fsVars)
<1>1. Asking(c) /\ proc[c].state # "idle" /\ proc[c].cmd \in Command /\ MasterAnswers(c)
  BY MasterStepAnswers
<1>2. CASE Declines(c)
  BY <1>1, <1>2, DeclinesKeeps, DeclinesMaps DEF FS!FSNext
<1>3. CASE \E loc \in Places : Creates(c, loc)
  BY <1>1, <1>3, CreatesKeeps, CreatesMaps DEF FS!FSNext
<1>4. CASE \E h \in 1 .. nextHandle - 1, loc \in Places, more \in Seq(Calls) :
             Directs(c, h, loc, more)
  BY <1>1, <1>4, DirectsKeeps, DirectsMaps
<1>5. CASE Removes(c)
  BY <1>1, <1>5, RemovesKeeps, RemovesMaps DEF FS!FSNext
<1> QED
  BY <1>1, <1>2, <1>3, <1>4, <1>5 DEF MasterAnswers

\* So is a handler of a chunk server.
LEMMA ChunkStepMaps ==
  ASSUME ServiceInv, Records, NEW c \in Client, NEW s \in Server, ChunkServerStep(c, s)
  PROVE  ServiceInv' /\ [FS!FSNext]_(FS!fsVars)
<1>1. proc[c].state # "idle"
  BY ChunkStepAnswers
<1>2. PICK h \in 1 .. nextHandle - 1, loc \in Places, k \in 0 .. Replicas :
             ChunkAnswers(c, s, h, loc, k)
  BY ChunkStepAnswers
<1>3. AtChunk(c, h, loc, k) /\ UNCHANGED <<files, masterUp, nextHandle, commands>>
  BY <1>2 DEF ChunkAnswers
<1>4. CASE /\ Follows(Todo(c), proc[c].cmd, h, loc, k) /\ s = loc[k + 1]
           /\ Stores(c, s, h)
  BY <1>1, <1>3, <1>4, StoresKeeps, StoresMaps DEF FS!FSNext
<1>5. CASE /\ Follows(Todo(c), proc[c].cmd, h, loc, k) /\ s = loc[k + 1]
           /\ Misses(c, s, h)
  BY <1>1, <1>3, <1>5, MissesKeeps, MissesMaps DEF FS!FSNext
<1>6. CASE /\ Follows(Todo(c), proc[c].cmd, h, loc, k) /\ s = loc[k + 1]
           /\ Reads(c, s, h)
  BY <1>1, <1>3, <1>6, ReadsKeeps, ReadsMaps DEF FS!FSNext
<1>7. CASE k = 0 /\ s = loc[1] /\ AsksSpace(c, h, loc) /\ Sizes(c, s, h)
  BY <1>1, <1>3, <1>7, SizesKeeps, SizesMaps
<1> QED
  BY <1>2, <1>4, <1>5, <1>6, <1>7 DEF ChunkAnswers

LEMMA StepMaps ==
  ASSUME ServiceInv, Records, NEW c \in Client, Step(c)
  PROVE  ServiceInv' /\ [FS!FSNext]_(FS!fsVars)
<1>1. CASE Return(c) \/ Leave(c)
  <2>1. /\ proc[c].state # "idle" /\ (proc[c].state = "gone" \/ Todo(c) = <<>>)
        /\ proc' = [proc EXCEPT ![c] = NoProcess]
        /\ UNCHANGED <<files, masterUp, nextHandle, disk, commands>>
    BY <1>1 DEF Return, Leave, Todo
  <2> QED
    BY <2>1, EndKeeps, EndEnds DEF FS!FSNext
<1>2. CASE GiveUp(c)
  BY <1>2, GiveUpKeeps, GiveUpFails DEF FS!FSNext
<1>3. CASE MasterStep(c)
  BY <1>3, MasterStepMaps
<1>4. CASE \E s \in Server : ChunkServerStep(c, s)
  BY <1>4, ChunkStepMaps
<1> QED
  BY <1>1, <1>2, <1>3, <1>4 DEF Step

LEMMA NextMaps ==
  ASSUME ServiceInv, [NextR]_varsR
  PROVE  ServiceInv' /\ [FS!FSNext]_(FS!fsVars)
<1>1. CASE NextR
  <2>1. Records /\ Next
    BY <1>1 DEF NextR, Records
  <2>2. ~RestartMaster
    BY DEF RestartMaster, ServiceInv, ServiceTyped
  <2>3. CASE \E c \in Client : Step(c)
    BY <2>1, <2>3, StepMaps
  <2>4. CASE \E c \in Client, cmd \in Command : Start(c, cmd)
    BY <2>1, <2>4, StartKeeps, StartBegins DEF FS!FSNext
  <2> QED
    BY <2>1, <2>2, <2>3, <2>4 DEF Next
<1>2. CASE UNCHANGED varsR
  <2>1. UNCHANGED <<files, masterUp, nextHandle, disk, proc, commands, worked, excused>>
    BY <1>2 DEF varsR, vars
  <2>2. ServiceTyped'
    BY <2>1 DEF ServiceInv, ServiceTyped
  <2>3. ASSUME NEW c \in Client, proc'[c].state # "idle"
        PROVE  Staged(c)' /\ Excusable(c)'
    <3>1. Staged(c) /\ Excusable(c)
      BY <2>1, <2>3 DEF ServiceInv
    <3>2. Excusable(c)'
      BY <2>1, <3>1 DEF Excusable, HasFirstChunk, Op, PathOf, Todo
    <3>3. Asking(c) => Asking(c)'
      BY <2>1 DEF Asking, Op, Todo
    <3>4. ASSUME NEW h, NEW loc, NEW k, AtChunk(c, h, loc, k)
          PROVE  AtChunk(c, h, loc, k)'
      <4>1. AsksSpace(c, h, loc) => AsksSpace(c, h, loc)'
        BY <2>1 DEF AsksSpace, Op, Todo, Follows
      <4>2. Follows(Todo(c), proc[c].cmd, h, loc, k) => Follows(Todo(c), proc[c].cmd, h, loc, k)'
        BY <2>1 DEF Todo, Follows
      <4> QED
        BY <2>1, <3>4, <4>1, <4>2 DEF AtChunk, HandleOf, Op, PathOf, Todo
    <3> QED
      BY <2>1, <3>1, <3>2, <3>3, <3>4 DEF Staged, Todo
  <2>4. OneFile'
    BY <2>1 DEF ServiceInv, OneFile, Belongs, CallsFor, HandleOf, PathOf, Todo
  <2>5. ChunksFit'
    <3>1. /\ Active' = Active /\ \A s \in Server : Pending(s)' = Pending(s)
          /\ \A h, p : Belongs(h, p)' <=> Belongs(h, p)
      BY <2>1 DEF Active, Pending, Belongs, CallsFor, HandleOf, PathOf, Op, Todo
    <3>2. ChunksFit
      BY DEF ServiceInv
    <3>3. ASSUME NEW h \in Nat, NEW p \in Path, NEW s \in Server,
                 Belongs(h, p)', h \in DOMAIN disk'[s]
          PROVE  Fits(p, disk[s][h], s)'
      <4>1. Fits(p, disk[s][h], s)
        BY <2>1, <3>1, <3>2, <3>3 DEF ChunksFit
      <4> QED
        BY <2>1, <3>1, <4>1 DEF Fits
    <3> QED
      BY <2>1, <3>1, <3>2, <3>3 DEF ChunksFit
  <2>6. UNCHANGED FS!fsVars
    BY <2>1, SeenSame DEF FS!fsVars, Requests
  <2> QED
    BY <2>2, <2>3, <2>4, <2>5, <2>6 DEF ServiceInv
<1> QED
  BY <1>1, <1>2

\* However clients start, stall, die and leave, each is where its command is in
\* its calls, a handle is that of one file, and what is still to be appended to
\* a chunk fits: the calls of client.go as the handlers of the servers leave
\* them.
THEOREM ServiceInvariant == SpecR => []ServiceInv
<1>1. InitR => ServiceInv
  BY InitService
<1>2. ServiceInv /\ [NextR]_varsR => ServiceInv'
  BY NextMaps
<1> QED
  BY <1>1, <1>2, PTL DEF SpecR

\* GeekGFS keeps its promise to its users (src/geekGFS/README.md:7) while files
\* are one chunk each that neither grows nor shrinks under a write: every
\* command works at most once, at one moment between its start and its end.
THEOREM ImplementsFiles == SpecR => ImplementsFileService
<1>1. InitR => FS!FSInit
  BY InitService
<1>2. ServiceInv /\ [NextR]_varsR => [FS!FSNext]_(FS!fsVars)
  BY NextMaps
<1> QED
  BY <1>1, <1>2, ServiceInvariant, PTL DEF SpecR, ImplementsFileService, FS!FSSpec

============================================================================
