---------------------------- MODULE OrderProofs ----------------------------
(***************************************************************************)
(* For any number of customers and any menus: a customer is only shown      *)
(* dishes of the server that was asked for, also by the one that stands in  *)
(* for it; and a client is only sent what it waits for.                     *)
(***************************************************************************)
EXTENDS OrderDishes, SequenceTheorems, TLAPS

(* Names *)

LEMMA Names ==
  ASSUME NEW p \in Name
  PROVE  /\ Other(p) \in Name /\ Other(p) # p /\ Other(Other(p)) = p /\ p # None
         /\ \A q \in Name : q = p \/ q = Other(p)
         /\ p # Backup /\ Backup \in Port /\ p \in Port
  BY OrderAssumption DEF OrderAssumption, Name, Other, Backup, Port

LEMMA BackupIsPort == Backup \in Port
  BY DEF Port

-----------------------------------------------------------------------------
(* Queues *)

LEMMA EmptyQueue ==
  ASSUME NEW S
  PROVE  <<>> \in Seq(S) /\ IsInjective(<<>>) /\ \A e : ~Contains(<<>>, e)
  <1>1. <<>> \in Seq(S) /\ Len(<<>>) = 0 /\ DOMAIN <<>> = {}
    BY EmptySeq
  <1> QED
    BY <1>1 DEF IsInjective, Contains

LEMMA JoinQueue ==
  ASSUME NEW S, NEW queue \in Seq(S), NEW e \in S, IsInjective(queue), ~Contains(queue, e)
  PROVE  /\ Append(queue, e) \in Seq(S) /\ IsInjective(Append(queue, e))
         /\ \A x : Contains(Append(queue, e), x) <=> Contains(queue, x) \/ x = e
  <1> DEFINE new == Append(queue, e)
  <1>1. /\ new \in Seq(S) /\ Len(new) = Len(queue) + 1 /\ Len(queue) \in Nat
        /\ DOMAIN queue = 1 .. Len(queue) /\ DOMAIN new = 1 .. Len(new)
        /\ \A i \in 1 .. Len(queue) : new[i] = queue[i]
        /\ new[Len(queue) + 1] = e
    BY AppendProperties, LenProperties
  <1> HIDE DEF new
  <1>2. IsInjective(new)
    <2> SUFFICES ASSUME NEW i \in 1 .. Len(new), NEW j \in 1 .. Len(new), new[i] = new[j] PROVE i = j
      BY <1>1 DEF IsInjective
    <2>1. CASE i \in 1 .. Len(queue) /\ j \in 1 .. Len(queue)
      BY <1>1, <2>1 DEF IsInjective
    <2>2. CASE i = Len(queue) + 1 \/ j = Len(queue) + 1
      BY <1>1, <2>2 DEF Contains
    <2> QED
      BY <1>1, <2>1, <2>2
  <1>3. ASSUME NEW x PROVE Contains(new, x) <=> Contains(queue, x) \/ x = e
    BY <1>1 DEF Contains
  <1> QED
    BY <1>1, <1>2, <1>3 DEF new

LEMMA NextInQueue ==
  ASSUME NEW S, NEW queue \in Seq(S), queue # <<>>, IsInjective(queue)
  PROVE  /\ Head(queue) \in S /\ Contains(queue, Head(queue))
         /\ Tail(queue) \in Seq(S) /\ IsInjective(Tail(queue))
         /\ ~Contains(Tail(queue), Head(queue))
         /\ \A x : Contains(Tail(queue), x) => Contains(queue, x)
  <1> DEFINE rest == Tail(queue)
  <1>1. /\ Head(queue) \in S /\ rest \in Seq(S) /\ Len(rest) = Len(queue) - 1
        /\ Len(queue) \in Nat \ {0}
        /\ DOMAIN queue = 1 .. Len(queue) /\ DOMAIN rest = 1 .. Len(rest)
        /\ \A i \in 1 .. Len(rest) : rest[i] = queue[i + 1]
        /\ Head(queue) = queue[1]
    BY HeadTailProperties, LenProperties, EmptySeq
  <1> HIDE DEF rest
  <1>2. IsInjective(rest)
    <2> SUFFICES ASSUME NEW i \in 1 .. Len(rest), NEW j \in 1 .. Len(rest), rest[i] = rest[j] PROVE i = j
      BY <1>1 DEF IsInjective
    <2>1. i + 1 \in DOMAIN queue /\ j + 1 \in DOMAIN queue /\ queue[i + 1] = queue[j + 1]
      BY <1>1
    <2>2. i + 1 = j + 1
      BY <2>1 DEF IsInjective
    <2> QED
      BY <2>2
  <1>3. ~Contains(rest, Head(queue)) /\ Contains(queue, Head(queue))
    <2>1. ASSUME NEW i \in 1 .. Len(rest), rest[i] = queue[1] PROVE FALSE
      <3>1. i + 1 = 1
        BY <1>1, <2>1 DEF IsInjective
      <3> QED
        BY <3>1
    <2> QED
      BY <1>1, <2>1 DEF Contains
  <1>4. \A x : Contains(rest, x) => Contains(queue, x)
    BY <1>1 DEF Contains
  <1> QED
    BY <1>1, <1>2, <1>3, <1>4 DEF rest

LEMMA LeaveQueue ==
  ASSUME NEW S, NEW queue \in Seq(S), NEW i \in DOMAIN queue, IsInjective(queue)
  PROVE  /\ RemoveAt(queue, i) \in Seq(S) /\ IsInjective(RemoveAt(queue, i))
         /\ ~Contains(RemoveAt(queue, i), queue[i])
         /\ \A x : Contains(RemoveAt(queue, i), x) => Contains(queue, x)
  <1> DEFINE front == SubSeq(queue, 1, i - 1)
             back == SubSeq(queue, i + 1, Len(queue))
             new == front \o back
  <1>1. Len(queue) \in Nat /\ DOMAIN queue = 1 .. Len(queue) /\ i \in 1 .. Len(queue)
    BY LenProperties
  <1>2. \A j \in 1 .. Len(queue) : queue[j] \in S
    BY ElementOfSeq
  <1>3. /\ front \in Seq(S) /\ Len(front) = i - 1
        /\ \A j \in 1 .. i - 1 : front[j] = queue[j]
    <2>1. /\ front \in Seq(S) /\ Len(front) = IF 1 <= i - 1 THEN i - 1 - 1 + 1 ELSE 0
          /\ \A j \in 1 .. i - 1 - 1 + 1 : front[j] = queue[1 + j - 1]
      <3>1. \A j \in 1 .. i - 1 : queue[j] \in S
        BY <1>1, <1>2
      <3>2. 1 \in Int /\ i - 1 \in Int
        BY <1>1
      <3> QED
        BY <3>1, <3>2, SubSeqProperties
    <2> HIDE DEF front
    <2> QED
      BY <1>1, <2>1
  <1>4. /\ back \in Seq(S) /\ Len(back) = Len(queue) - i
        /\ \A j \in 1 .. Len(queue) - i : back[j] = queue[i + j]
    <2>1. /\ back \in Seq(S)
          /\ Len(back) = IF i + 1 <= Len(queue) THEN Len(queue) - (i + 1) + 1 ELSE 0
          /\ \A j \in 1 .. Len(queue) - (i + 1) + 1 : back[j] = queue[i + 1 + j - 1]
      <3>1. \A j \in i + 1 .. Len(queue) : queue[j] \in S
        BY <1>1, <1>2
      <3>2. i + 1 \in Int /\ Len(queue) \in Int
        BY <1>1
      <3> QED
        BY <3>1, <3>2, SubSeqProperties
    <2> HIDE DEF back
    <2>2. \A j \in 1 .. Len(queue) - i : back[j] = queue[i + j]
      <3> SUFFICES ASSUME NEW j \in 1 .. Len(queue) - i PROVE back[j] = queue[i + j]
        OBVIOUS
      <3>1. j \in 1 .. Len(queue) - (i + 1) + 1 /\ i + 1 + j - 1 = i + j
        BY <1>1
      <3> QED
        BY <2>1, <3>1
    <2> QED
      BY <1>1, <2>1, <2>2
  <1> HIDE DEF front, back
  <1>5. /\ new \in Seq(S) /\ Len(new) = Len(front) + Len(back)
        /\ \A j \in 1 .. Len(front) + Len(back) :
            new[j] = IF j <= Len(front) THEN front[j] ELSE back[j - Len(front)]
    BY <1>3, <1>4, ConcatProperties
  <1> HIDE DEF new
  <1>6. /\ DOMAIN new = 1 .. Len(queue) - 1 /\ Len(new) = Len(queue) - 1
        /\ \A j \in 1 .. Len(queue) - 1 : new[j] = queue[IF j < i THEN j ELSE j + 1]
    <2>1. DOMAIN new = 1 .. Len(queue) - 1 /\ Len(new) = Len(queue) - 1
      BY <1>1, <1>3, <1>4, <1>5, LenProperties
    <2>2. ASSUME NEW j \in 1 .. Len(queue) - 1, j < i PROVE new[j] = queue[j]
      BY <1>1, <1>3, <1>4, <1>5, <2>2
    <2>3. ASSUME NEW j \in 1 .. Len(queue) - 1, ~(j < i) PROVE new[j] = queue[j + 1]
      <3>1. new[j] = back[j - (i - 1)] /\ j - (i - 1) \in 1 .. Len(queue) - i
        BY <1>1, <1>3, <1>4, <1>5, <2>3
      <3>2. back[j - (i - 1)] = queue[i + (j - (i - 1))] /\ i + (j - (i - 1)) = j + 1
        BY <1>1, <1>4, <3>1
      <3> QED
        BY <3>1, <3>2
    <2> QED
      BY <2>1, <2>2, <2>3
  <1>7. IsInjective(new)
    <2> SUFFICES ASSUME NEW j \in 1 .. Len(queue) - 1, NEW k \in 1 .. Len(queue) - 1, new[j] = new[k]
                 PROVE  j = k
      BY <1>6 DEF IsInjective
    <2> DEFINE old(n) == IF n < i THEN n ELSE n + 1
    <2>1. old(j) \in 1 .. Len(queue) /\ old(k) \in 1 .. Len(queue)
      BY <1>1
    <2>2. queue[old(j)] = queue[old(k)]
      BY <1>6
    <2>3. old(j) = old(k)
      <3> HIDE DEF old
      <3> QED
        BY <1>1, <2>1, <2>2 DEF IsInjective
    <2> QED
      BY <1>1, <2>3
  <1>8. ASSUME NEW j \in 1 .. Len(queue) - 1 PROVE new[j] # queue[i]
    <2>1. (IF j < i THEN j ELSE j + 1) \in 1 .. Len(queue) /\ (IF j < i THEN j ELSE j + 1) # i
      BY <1>1
    <2> QED
      BY <1>1, <1>6, <2>1 DEF IsInjective
  <1>9. \A x : Contains(new, x) => Contains(queue, x)
    BY <1>1, <1>6 DEF Contains
  <1>10. ~Contains(new, queue[i])
    BY <1>6, <1>8 DEF Contains
  <1>11. RemoveAt(queue, i) = new
    BY DEF RemoveAt, new, front, back
  <1> QED
    BY <1>5, <1>7, <1>9, <1>10, <1>11

(* What the processes know *)

\* A step of the threads of a server that leaves all shops and clients alone.
LEMMA ServerSide ==
  ASSUME DishesStay, DOMAIN server' = Name, DOMAIN wire' = Name, UNCHANGED <<shop, customer>>,
         \A p \in Name : server'[p].on = server[p].on /\ ServerKeepsDishes(p)'
  PROVE  DishesStay'
  <1>1. ASSUME NEW s \in Port PROVE ShopIsServed(s)'
    <2>1. ShopIsServed(s)
      BY DEF DishesStay
    <2>2. shop[s].host # None => On(shop[s].host)'
      BY <2>1 DEF ShopIsServed, On
    <2>3. NameOf(s)' = NameOf(s)
      BY DEF NameOf
    <2> QED
      BY <2>1, <2>2, <2>3 DEF ShopIsServed
  <1>2. ASSUME NEW c \in Customer PROVE ClientReads(c)' /\ \A s \in Port : Agree(s, c)'
    <2>1. ClientReads(c) /\ \A s \in Port : Agree(s, c)
      BY DEF DishesStay
    <2> QED
      BY <2>1 DEF ClientReads, Agree, Waits, NameOf
  <1> QED
    BY <1>1, <1>2 DEF DishesStay

LEMMA MenusAre ==
  ASSUME NEW p \in Name
  PROVE  /\ NoMenu \in Menus(p) /\ Seq(Foods(p)) \subseteq Menus(p)
         /\ <<>> \in Seq(Foods(p)) /\ <<>> \in Seq(Menus(Other(p)))
  BY EmptySeq DEF Menus

LEMMA ShopOfName ==
  ASSUME DishesStay, NEW p \in Name
  PROVE  p \in Port /\ NameOf(p) = p /\ shop[p].foods \in Seq(Foods(p))
  BY Names DEF DishesStay, ShopIsServed, NameOf

\* A step that only changes the server of p, and keeps the console.
LEMMA OneServer ==
  ASSUME DishesStay, NEW p \in Name, UNCHANGED <<wire, shop, customer>>,
         DOMAIN server' = Name, \A q \in Name : q # p => server'[q] = server[q],
         server'[p].on = server[p].on, ServerKeepsDishes(p)'
  PROVE  DishesStay'
  <1>1. ASSUME NEW q \in Name, q # p PROVE ServerKeepsDishes(q)'
    <2>1. ServerKeepsDishes(q)
      BY DEF DishesStay
    <2> QED
      BY <1>1, <2>1 DEF ServerKeepsDishes
  <1>2. \A q \in Name : server'[q].on = server[q].on /\ ServerKeepsDishes(q)'
    BY <1>1
  <1>3. DOMAIN wire' = Name
    BY DEF DishesStay
  <1> QED
    BY <1>2, <1>3, ServerSide

LEMMA ThreadsKeepDishes ==
  ASSUME DishesStay, NEW p \in Name
  PROVE  /\ Announce(p) \/ Assign(p) \/ Connect(p) \/ TakeFlag(p) \/ HangUp(p) => DishesStay'
         /\ ReceiveMenu(p) => DishesStay'
         /\ \A s \in Port : Choose(p, s) => DishesStay'
  <1>1. DOMAIN server = Name /\ DOMAIN wire = Name /\ ServerKeepsDishes(p)
    BY DEF DishesStay
  <1>2. /\ DOMAIN server[p] = {"on", "flag", "flag2", "text", "link", "sending", "copy", "file", "console"}
        /\ DOMAIN server[p].console = {"stage", "port", "root"}
    BY <1>1 DEF ServerKeepsDishes, Process, Idle
  <1>3. ASSUME Announce(p) PROVE DishesStay'
    <2> DEFINE s == server[p].console.port
    <2>1. server' = [server EXCEPT ![p].console.root = shop[s].foods,
                                   ![p].console.stage = "assign",
                                   ![p].flag = IF s = p THEN 1 ELSE @]
      BY <1>3 DEF Announce
    <2>2. /\ DOMAIN server' = Name /\ \A q \in Name : q # p => server'[q] = server[q]
          /\ server'[p].on = server[p].on /\ server'[p].text = server[p].text
          /\ server'[p].copy = server[p].copy /\ DOMAIN server'[p] = DOMAIN server[p]
      BY <1>1, <1>2, <2>1
    <2>3. /\ server'[p].console.port = s /\ server'[p].console.root = shop[s].foods
          /\ DOMAIN server'[p].console = DOMAIN server[p].console
      BY <1>1, <1>2, <2>1
    <2>4. ServerKeepsDishes(p)'
      BY <1>1, <1>3, <2>2, <2>3, ShopOfName DEF Announce, ServerKeepsDishes
    <2> QED
      BY <1>3, <2>2, <2>4, OneServer DEF Announce
  <1>4. ASSUME Assign(p) PROVE DishesStay'
    <2> DEFINE console == server[p].console
    <2>1. server' = [server EXCEPT ![p].text = IF console.port = p THEN console.root ELSE @,
                                   ![p].file = console.root,
                                   ![p].console = Idle]
      BY <1>4 DEF Assign
    <2>2. /\ DOMAIN server' = Name /\ \A q \in Name : q # p => server'[q] = server[q]
          /\ server'[p].on = server[p].on /\ server'[p].copy = server[p].copy
          /\ DOMAIN server'[p] = DOMAIN server[p] /\ server'[p].console = Idle
          /\ server'[p].text = IF console.port = p THEN console.root ELSE server[p].text
      BY <1>1, <1>2, <2>1
    <2>3. Idle.port = None /\ None # p
      BY OrderAssumption DEF OrderAssumption, Idle
    <2>4. ServerKeepsDishes(p)'
      BY <1>1, <1>4, <2>2, <2>3, MenusAre DEF Assign, ServerKeepsDishes
    <2> QED
      BY <1>4, <2>2, <2>4, OneServer DEF Assign
  <1>5. ASSUME Connect(p) \/ TakeFlag(p) \/ HangUp(p) PROVE DishesStay'
    <2>1. \/ server' = [server EXCEPT ![p].link = "open"]
          \/ server' = [server EXCEPT ![p].flag = 0, ![p].sending = TRUE]
          \/ server' = [server EXCEPT ![p].flag2 = 1]
      BY <1>5 DEF Connect, TakeFlag, HangUp
    <2>2. /\ DOMAIN server' = Name /\ \A q \in Name : q # p => server'[q] = server[q]
          /\ server'[p].on = server[p].on /\ server'[p].text = server[p].text
          /\ server'[p].copy = server[p].copy /\ server'[p].console = server[p].console
          /\ DOMAIN server'[p] = DOMAIN server[p]
      BY <1>1, <1>2, <2>1
    <2>3. UNCHANGED <<wire, shop, customer>>
      BY <1>5 DEF Connect, TakeFlag, HangUp
    <2>4. ServerKeepsDishes(p)'
      BY <1>1, <2>2, <2>3 DEF ServerKeepsDishes
    <2> QED
      BY <2>2, <2>3, <2>4, OneServer
  <1>6. ASSUME NEW s \in Port, Choose(p, s) PROVE DishesStay'
    <2>1. server' = [server EXCEPT ![p].console = [stage |-> "change", port |-> s, root |-> <<>>]]
      BY <1>6 DEF Choose
    <2>2. /\ DOMAIN server' = Name /\ \A q \in Name : q # p => server'[q] = server[q]
          /\ server'[p].on = server[p].on /\ server'[p].text = server[p].text
          /\ server'[p].copy = server[p].copy
          /\ server'[p].console = [stage |-> "change", port |-> s, root |-> <<>>]
          /\ DOMAIN server'[p] = DOMAIN server[p]
      BY <1>1, <1>2, <2>1
    <2>3. ServerKeepsDishes(p)'
      BY <1>1, <1>6, <2>2, MenusAre DEF Choose, ServerKeepsDishes, Idle
    <2> QED
      BY <1>6, <2>2, <2>3, OneServer DEF Choose
  <1>7. ASSUME ReceiveMenu(p) PROVE DishesStay'
    <2>1. PICK n \in 1 .. Len(wire[p]) :
            /\ wire' = [wire EXCEPT ![p] = SubSeq(@, n + 1, Len(@))]
            /\ server' = [server EXCEPT ![p].copy = Head(wire[p])]
      BY <1>7 DEF ReceiveMenu
    <2>2. /\ DOMAIN server' = Name /\ DOMAIN wire' = Name
          /\ \A q \in Name : q # p => server'[q] = server[q] /\ wire'[q] = wire[q]
          /\ server'[p].on = server[p].on /\ server'[p].text = server[p].text
          /\ server'[p].copy = Head(wire[p]) /\ server'[p].console = server[p].console
          /\ DOMAIN server'[p] = DOMAIN server[p]
          /\ wire'[p] = SubSeq(wire[p], n + 1, Len(wire[p]))
      BY <1>1, <1>2, <2>1
    <2>3. wire[p] \in Seq(Menus(Other(p)))
      BY <1>1 DEF ServerKeepsDishes
    <2>4. Head(wire[p]) \in Menus(Other(p))
      <3>1. wire[p] # <<>>
        BY <2>1, <2>3, EmptySeq
      <3> QED
        BY <2>3, <3>1, HeadTailProperties
    <2>5. wire'[p] \in Seq(Menus(Other(p)))
      <3>1. Len(wire[p]) \in Nat
        BY <2>3, LenProperties
      <3>2. \A i \in n + 1 .. Len(wire[p]) : wire[p][i] \in Menus(Other(p))
        BY <2>3, <3>1, ElementOfSeq
      <3>3. n + 1 \in Int /\ Len(wire[p]) \in Int
        BY <3>1
      <3>4. SubSeq(wire[p], n + 1, Len(wire[p])) \in Seq(Menus(Other(p)))
        BY <3>2, <3>3, SubSeqProperties
      <3> QED
        BY <2>2, <3>4
    <2>6. ServerKeepsDishes(p)'
      BY <1>1, <2>2, <2>4, <2>5 DEF ServerKeepsDishes
    <2>7. ASSUME NEW q \in Name, q # p PROVE ServerKeepsDishes(q)'
      <3>1. ServerKeepsDishes(q)
        BY DEF DishesStay
      <3> QED
        BY <2>2, <2>7, <3>1 DEF ServerKeepsDishes
    <2>8. \A q \in Name : server'[q].on = server[q].on /\ ServerKeepsDishes(q)'
      BY <2>2, <2>6, <2>7
    <2> QED
      BY <1>7, <2>2, <2>8, ServerSide DEF ReceiveMenu
  <1> QED
    BY <1>3, <1>4, <1>5, <1>6, <1>7

LEMMA RemoveAtIsSeq ==
  ASSUME NEW S, NEW seq \in Seq(S), NEW i \in DOMAIN seq
  PROVE  RemoveAt(seq, i) \in Seq(S)
  <1>1. Len(seq) \in Nat /\ i \in 1 .. Len(seq) /\ \A j \in 1 .. Len(seq) : seq[j] \in S
    BY LenProperties, ElementOfSeq
  <1>2. SubSeq(seq, 1, i - 1) \in Seq(S)
    <2>1. (\A j \in 1 .. i - 1 : seq[j] \in S) /\ 1 \in Int /\ i - 1 \in Int
      BY <1>1
    <2> QED
      BY <2>1, SubSeqProperties
  <1>3. SubSeq(seq, i + 1, Len(seq)) \in Seq(S)
    <2>1. (\A j \in i + 1 .. Len(seq) : seq[j] \in S) /\ i + 1 \in Int /\ Len(seq) \in Int
      BY <1>1
    <2> QED
      BY <2>1, SubSeqProperties
  <1> QED
    BY <1>2, <1>3, ConcatProperties DEF RemoveAt

LEMMA ChangeKeepsDishes ==
  ASSUME DishesStay, NEW p \in Name, Change(p)
  PROVE  DishesStay'
  <1> DEFINE s == server[p].console.port
             foods == shop[s].foods
  <1>1. /\ DOMAIN server = Name /\ DOMAIN wire = Name /\ DOMAIN shop = Port
        /\ \A q \in Name : ServerKeepsDishes(q)
    BY DEF DishesStay
  <1>2. /\ DOMAIN server[p] = {"on", "flag", "flag2", "text", "link", "sending", "copy", "file", "console"}
        /\ DOMAIN server[p].console = {"stage", "port", "root"}
    BY <1>1 DEF ServerKeepsDishes, Process, Idle
  <1>3. server' = [server EXCEPT ![p].console.stage = "save"]
    BY DEF Change, ConsoleGoes
  <1>4. /\ DOMAIN server' = Name /\ \A q \in Name : q # p => server'[q] = server[q]
        /\ server'[p].on = server[p].on /\ server'[p].text = server[p].text
        /\ server'[p].copy = server[p].copy /\ DOMAIN server'[p] = DOMAIN server[p]
        /\ server'[p].console.port = s /\ server'[p].console.root = server[p].console.root
        /\ DOMAIN server'[p].console = DOMAIN server[p].console
    BY <1>1, <1>2, <1>3
  <1>5. UNCHANGED <<wire, customer>>
    BY DEF Change
  <1>6. ServerKeepsDishes(p)'
    BY <1>1, <1>4, <1>5 DEF ServerKeepsDishes
  <1>7. \A q \in Name : server'[q].on = server[q].on /\ ServerKeepsDishes(q)'
    BY <1>1, <1>4, <1>5, <1>6 DEF ServerKeepsDishes
  <1>8. CASE UNCHANGED shop
    BY <1>1, <1>4, <1>5, <1>7, <1>8, ServerSide
  <1>9. ASSUME NEW new, SetFoods(s, new), s \in Port => new \in Seq(Foods(NameOf(s))) PROVE DishesStay'
    <2>1. shop' = [shop EXCEPT ![s].foods = new]
      BY <1>9 DEF SetFoods
    <2>2. DOMAIN shop' = Port /\ \A t \in Port : t # s => shop'[t] = shop[t]
      BY <1>1, <2>1
    <2>3. ASSUME s \in Port
          PROVE  /\ DOMAIN shop'[s] = DOMAIN Closed /\ shop'[s].foods = new
                 /\ shop'[s].host = shop[s].host /\ shop'[s].with = shop[s].with
                 /\ shop'[s].queue = shop[s].queue /\ shop'[s].stage = shop[s].stage
      <3>1. DOMAIN shop[s] = DOMAIN Closed /\ DOMAIN Closed = {"host", "foods", "queue", "with", "stage"}
        BY <2>3 DEF DishesStay, ShopIsServed, Closed, Open
      <3> QED
        BY <1>1, <2>1, <2>3, <3>1
    <2>4. \A t \in Port :
            /\ shop'[t].host = shop[t].host /\ shop'[t].with = shop[t].with
            /\ shop'[t].queue = shop[t].queue /\ shop'[t].stage = shop[t].stage
      BY <2>2, <2>3
    <2>5. \A t \in Port : NameOf(t)' = NameOf(t)
      BY <2>4, BackupIsPort DEF NameOf
    <2>6. ASSUME NEW t \in Port PROVE ShopIsServed(t)'
      <3>1. ShopIsServed(t)
        BY DEF DishesStay
      <3>2. shop'[t].foods \in Seq(Foods(NameOf(t))) /\ DOMAIN shop'[t] = DOMAIN Closed
        BY <1>9, <2>2, <2>3, <3>1 DEF ShopIsServed
      <3>3. shop[t].host # None => On(shop[t].host)'
        BY <1>7, <2>4, <3>1 DEF ShopIsServed, On
      <3> QED
        BY <2>4, <2>5, <3>1, <3>2, <3>3 DEF ShopIsServed
    <2>7. ASSUME NEW c \in Customer PROVE ClientReads(c)' /\ \A t \in Port : Agree(t, c)'
      <3>1. ClientReads(c) /\ \A t \in Port : Agree(t, c)
        BY DEF DishesStay
      <3> QED
        BY <1>5, <2>4, <2>5, <3>1 DEF ClientReads, Agree, Waits
    <2> QED
      BY <1>1, <1>4, <1>5, <1>7, <2>2, <2>6, <2>7 DEF DishesStay
  <1>10. ASSUME s \in Port PROVE foods \in Seq(Foods(NameOf(s)))
    BY <1>10 DEF DishesStay, ShopIsServed
  <1>11. \A q : Food(q) \subseteq Foods(q)
    <2> SUFFICES ASSUME NEW q, NEW f \in Food(q) PROVE f \in Foods(q)
      OBVIOUS
    <2>1. Stocks \subseteq Int
      BY OrderAssumption DEF OrderAssumption
    <2> QED
      BY <2>1 DEF Food, Foods
  <1>12. ASSUME NEW i \in DOMAIN foods, SetFoods(s, RemoveAt(foods, i)) PROVE DishesStay'
    <2>1. s \in Port => RemoveAt(foods, i) \in Seq(Foods(NameOf(s)))
      BY <1>10, RemoveAtIsSeq
    <2> QED
      BY <1>9, <1>12, <2>1
  <1>13. ASSUME NEW f \in Food(NameOf(s)), SetFoods(s, Append(foods, f)) PROVE DishesStay'
    <2>1. s \in Port => Append(foods, f) \in Seq(Foods(NameOf(s)))
      BY <1>10, <1>11, AppendProperties
    <2> QED
      BY <1>9, <1>13, <2>1
  <1>14. ASSUME NEW i \in DOMAIN foods, NEW f \in Food(NameOf(s)), SetFoods(s, [foods EXCEPT ![i] = f])
         PROVE  DishesStay'
    <2>1. ASSUME s \in Port PROVE [foods EXCEPT ![i] = f] \in Seq(Foods(NameOf(s)))
      <3>1. i \in 1 .. Len(foods) /\ f \in Foods(NameOf(s))
        BY <1>10, <1>11, <2>1, LenProperties
      <3> QED
        BY <1>10, <2>1, <3>1, ExceptSeq
    <2> QED
      BY <1>9, <1>14, <2>1
  <1> QED
    <2>1. \/ \E i \in DOMAIN foods : SetFoods(s, RemoveAt(foods, i))
          \/ \E f \in Food(NameOf(s)) : SetFoods(s, Append(foods, f))
          \/ \E i \in DOMAIN foods, f \in Food(NameOf(s)) : SetFoods(s, [foods EXCEPT ![i] = f])
          \/ UNCHANGED shop
      BY DEF Change
    <2> HIDE DEF foods, s
    <2> QED
      BY <1>8, <1>12, <1>13, <1>14, <2>1

\* Shops stay, or are new and have nobody in them.
LEMMA ShopsOpenOrClose ==
  ASSUME DishesStay, UNCHANGED customer,
         DOMAIN server' = Name, DOMAIN wire' = Name, DOMAIN shop' = Port,
         \A p \in Name : ServerKeepsDishes(p)',
         \A s \in Port :
            /\ shop'[s].host \in Name \cup {None} /\ (shop'[s].host # None => On(shop[s].host)')
            /\ \/ shop'[s] = shop[s]
               \/ \E foods \in Seq(Foods(NameOf(s)')) : shop'[s] = Open(shop'[s].host, foods)
  PROVE  DishesStay'
  <1>1. ASSUME NEW s \in Port PROVE ShopIsServed(s)' /\ \A c \in Customer : Agree(s, c)'
    <2>1. CASE shop'[s] = shop[s]
      <3>1. ShopIsServed(s) /\ \A c \in Customer : Agree(s, c)
        BY DEF DishesStay
      <3>2. NameOf(s)' = NameOf(s)
        BY <2>1 DEF NameOf
      <3> QED
        BY <2>1, <3>1, <3>2 DEF ShopIsServed, Agree, Waits
    <2>2. ASSUME NEW foods \in Seq(Foods(NameOf(s)')), shop'[s] = Open(shop'[s].host, foods)
          PROVE  ShopIsServed(s)' /\ \A c \in Customer : Agree(s, c)'
      <3>1. /\ shop'[s].foods = foods /\ shop'[s].queue = <<>> /\ shop'[s].with = None
            /\ shop'[s].stage = "accept" /\ DOMAIN shop'[s] = DOMAIN Closed
        BY <2>2 DEF Open, Closed
      <3>2. \A c \in Customer : c # None
        BY OrderAssumption DEF OrderAssumption
      <3>3. <<>> \in Seq(Customer) /\ IsInjective(<<>>) /\ \A e : ~Contains(<<>>, e)
        BY EmptyQueue
      <3> QED
        BY <2>2, <3>1, <3>2, <3>3 DEF ShopIsServed, Agree
    <2> QED
      BY <2>1, <2>2
  <1>2. ASSUME NEW c \in Customer PROVE ClientReads(c)'
    <2>1. ClientReads(c)
      BY DEF DishesStay
    <2> QED
      BY <2>1 DEF ClientReads
  <1> QED
    BY <1>1, <1>2 DEF DishesStay

LEMMA DieKeepsDishes ==
  ASSUME DishesStay, NEW p \in Name, Die(p)
  PROVE  DishesStay'
  <1>1. /\ DOMAIN server = Name /\ DOMAIN wire = Name /\ DOMAIN shop = Port
        /\ \A q \in Name : ServerKeepsDishes(q)
    BY DEF DishesStay
  <1>2. /\ DOMAIN server' = Name /\ DOMAIN wire' = Name /\ DOMAIN shop' = Port
        /\ \A q \in Name : q # p => server'[q] = server[q] /\ wire'[q] = wire[q]
        /\ wire'[p] = <<>> /\ server'[p].text = NoMenu /\ server'[p].copy = NoMenu
        /\ server'[p].console = Idle /\ DOMAIN server'[p] = DOMAIN Process(NoMenu, NoMenu)
    BY <1>1 DEF Die, Process
  <1>3. ServerKeepsDishes(p)'
    <2>1. Idle.port = None /\ None # p
      BY OrderAssumption DEF OrderAssumption, Idle
    <2> QED
      BY <1>2, <2>1, MenusAre, Names DEF ServerKeepsDishes
  <1>4. ASSUME NEW q \in Name, q # p PROVE ServerKeepsDishes(q)'
    BY <1>1, <1>2, <1>4 DEF ServerKeepsDishes
  <1>5. ASSUME NEW s \in Port
        PROVE  /\ shop'[s].host \in Name \cup {None} /\ (shop'[s].host # None => On(shop[s].host)')
               /\ \/ shop'[s] = shop[s]
                  \/ \E foods \in Seq(Foods(NameOf(s)')) : shop'[s] = Open(shop'[s].host, foods)
    <2>1. CASE shop[s].host = p
      <3>1. shop'[s] = Open(None, <<>>) /\ shop'[s].host = None
        BY <2>1 DEF Die, Closed, Open
      <3>2. <<>> \in Seq(Foods(NameOf(s)'))
        BY EmptySeq
      <3> QED
        BY <3>1, <3>2
    <2>2. CASE shop[s].host # p
      <3>1. shop'[s] = shop[s]
        BY <2>2 DEF Die
      <3>2. shop[s].host \in Name \cup {None} /\ (shop[s].host # None => On(shop[s].host))
        BY DEF DishesStay, ShopIsServed
      <3> QED
        BY <1>2, <2>2, <3>1, <3>2 DEF On
    <2> QED
      BY <2>1, <2>2
  <1>6. UNCHANGED customer
    BY DEF Die
  <1> QED
    BY <1>2, <1>3, <1>4, <1>5, <1>6, ShopsOpenOrClose

LEMMA OpenBackupKeepsDishes ==
  ASSUME DishesStay, NEW p \in Name, OpenBackup(p)
  PROVE  DishesStay'
  <1> DEFINE foods == IF server[p].copy = NoMenu THEN <<>> ELSE server[p].copy
  <1>1. UNCHANGED <<server, wire, customer>> /\ shop' = [shop EXCEPT ![Backup] = Open(p, foods)] /\ On(p)
    BY DEF OpenBackup
  <1>2. /\ DOMAIN server = Name /\ DOMAIN wire = Name /\ DOMAIN shop = Port
        /\ \A q \in Name : ServerKeepsDishes(q)
    BY DEF DishesStay
  <1>3. foods \in Seq(Foods(Other(p)))
    BY <1>2, MenusAre, Names DEF ServerKeepsDishes, Menus
  <1> HIDE DEF foods
  <1>4. /\ DOMAIN shop' = Port /\ shop'[Backup] = Open(p, foods) /\ shop'[Backup].host = p
        /\ \A s \in Port : s # Backup => shop'[s] = shop[s]
    BY <1>1, <1>2, BackupIsPort DEF Open
  <1>5. NameOf(Backup)' = Other(p)
    BY <1>4 DEF NameOf
  <1>6. ASSUME NEW s \in Port, s # Backup
        PROVE  /\ shop'[s].host \in Name \cup {None} /\ (shop'[s].host # None => On(shop[s].host)')
               /\ shop'[s] = shop[s]
    BY <1>1, <1>4, <1>6 DEF DishesStay, ShopIsServed, On
  <1>7. On(p)' /\ \A q \in Name : ServerKeepsDishes(q)'
    BY <1>1, <1>2 DEF ServerKeepsDishes, On
  <1> QED
    BY <1>1, <1>2, <1>3, <1>4, <1>5, <1>6, <1>7, ShopsOpenOrClose

LEMMA SendMenuKeepsDishes ==
  ASSUME DishesStay, NEW p \in Name, SendMenu(p)
  PROVE  DishesStay'
  <1>1. /\ DOMAIN server = Name /\ DOMAIN wire = Name
        /\ \A q \in Name : ServerKeepsDishes(q)
    BY DEF DishesStay
  <1>2. DOMAIN server[p] = {"on", "flag", "flag2", "text", "link", "sending", "copy", "file", "console"}
    BY <1>1 DEF ServerKeepsDishes, Process
  <1>3. ASSUME \/ server' = [server EXCEPT ![p].sending = FALSE]
               \/ server' = [server EXCEPT ![p].sending = FALSE, ![p].link = "broken"]
        PROVE  /\ DOMAIN server' = Name /\ \A q \in Name : q # p => server'[q] = server[q]
               /\ server'[p].on = server[p].on /\ server'[p].text = server[p].text
               /\ server'[p].copy = server[p].copy /\ server'[p].console = server[p].console
               /\ DOMAIN server'[p] = DOMAIN server[p]
    BY <1>1, <1>2, <1>3
  <1>4. ASSUME server' = [server EXCEPT ![p].sending = FALSE],
               NEW text \in Texts(p), wire' = [wire EXCEPT ![Other(p)] = Append(@, text)],
               UNCHANGED <<shop, customer>>
        PROVE  DishesStay'
    <2>1. DOMAIN wire' = Name /\ wire'[Other(p)] = Append(wire[Other(p)], text)
          /\ \A q \in Name : q # Other(p) => wire'[q] = wire[q]
      BY <1>1, <1>4, Names
    <2>2. text \in Menus(p) /\ Other(Other(p)) = p /\ Other(p) \in Name
      BY <1>1, <1>4, MenusAre, Names DEF Texts, ServerKeepsDishes
    <2>3. wire[Other(p)] \in Seq(Menus(Other(Other(p))))
      BY <1>1, <2>2 DEF ServerKeepsDishes
    <2>4. wire'[Other(p)] \in Seq(Menus(Other(Other(p))))
      BY <2>1, <2>2, <2>3, AppendProperties
    <2>5. ASSUME NEW q \in Name PROVE wire'[q] \in Seq(Menus(Other(q))) /\ server'[q].on = server[q].on
      BY <1>1, <1>3, <1>4, <2>1, <2>4 DEF ServerKeepsDishes
    <2>6. ASSUME NEW q \in Name PROVE ServerKeepsDishes(q)'
      <3>1. ServerKeepsDishes(q)
        BY <1>1
      <3> QED
        BY <1>3, <1>4, <2>5, <3>1 DEF ServerKeepsDishes
    <2> QED
      BY <1>3, <1>4, <2>1, <2>5, <2>6, ServerSide
  <1>5. ASSUME server' = [server EXCEPT ![p].sending = FALSE, ![p].link = "broken"],
               UNCHANGED <<wire, shop, customer>>
        PROVE  DishesStay'
    <2>1. ServerKeepsDishes(p)'
      BY <1>1, <1>3, <1>5 DEF ServerKeepsDishes
    <2> QED
      BY <1>3, <1>5, <2>1, OneServer
  <1> QED
    BY <1>4, <1>5, DieKeepsDishes DEF SendMenu

(* The visits *)

LEMMA Inboxes ==
  ASSUME NEW m, NEW n
  PROVE  /\ Len(<<m>>) = 1 /\ Head(<<m>>) = m /\ Append(<<>>, m) = <<m>> /\ <<m>> # <<>>
         /\ Len(<<m, n>>) = 2 /\ <<m, n>>[2] = n /\ Append(<<m>>, n) = <<m, n>>
         /\ <<m, n>> # <<>> /\ <<m, n>> # <<m>> /\ Len(<<>>) = 0
         /\ SubSeq(<<m>>, 2, 1) = <<>> /\ SubSeq(<<m, n>>, 2, 2) = <<n>>
         /\ SubSeq(<<m, n>>, 3, 2) = <<>>
  <1>1. /\ Len(<<m>>) = 1 /\ Head(<<m>>) = m /\ <<m>> # <<>>
        /\ Len(<<m, n>>) = 2 /\ <<m, n>>[2] = n
        /\ <<m, n>> # <<>> /\ <<m, n>> # <<m>> /\ Len(<<>>) = 0
    OBVIOUS
  <1>2. Append(<<>>, m) = <<m>>
    OBVIOUS
  <1>3. Append(<<m>>, n) = <<m, n>>
    <2>1. <<m>> \in Seq({m, n}) /\ <<m, n>> \in Seq({m, n}) /\ <<m>>[1] = m /\ <<m, n>>[1] = m
      OBVIOUS
    <2> DEFINE both == Append(<<m>>, n)
    <2>2. both \in Seq({m, n}) /\ Len(both) = 2 /\ both[1] = m /\ both[2] = n
      BY <1>1, <2>1, AppendProperties
    <2>3. \A i \in 1 .. Len(both) : both[i] = <<m, n>>[i]
      BY <1>1, <2>1, <2>2
    <2> HIDE DEF both
    <2>4. both = <<m, n>>
      BY <1>1, <2>1, <2>2, <2>3, SeqEqual
    <2> QED
      BY <2>4 DEF both
  <1>4. SubSeq(<<m>>, 2, 1) = <<>> /\ SubSeq(<<m, n>>, 3, 2) = <<>>
    BY SubSeqEmpty
  <1>5. SubSeq(<<m, n>>, 2, 2) = <<n>>
    <2> DEFINE second == SubSeq(<<m, n>>, 2, 2)
    <2>1. second \in Seq({n}) /\ Len(second) = 1 /\ second[1] = n
      <3>1. 2 \in Int /\ \A i \in 2 .. 2 : <<m, n>>[i] \in {n}
        BY <1>1
      <3>2. /\ second \in Seq({n}) /\ Len(second) = IF 2 <= 2 THEN 2 - 2 + 1 ELSE 0
            /\ \A i \in 1 .. 2 - 2 + 1 : second[i] = <<m, n>>[2 + i - 1]
        BY <3>1, SubSeqProperties
      <3> HIDE DEF second
      <3> QED
        BY <1>1, <3>2
    <2> HIDE DEF second
    <2>2. <<n>> \in Seq({n}) /\ Len(<<n>>) = 1 /\ <<n>>[1] = n
      OBVIOUS
    <2>3. second = <<n>>
      BY <2>1, <2>2, SeqEqual
    <2> QED
      BY <2>3 DEF second
  <1> QED
    BY <1>1, <1>2, <1>3, <1>4, <1>5

LEMMA NobodyInQueue ==
  ASSUME NEW queue \in Seq(Customer)
  PROVE  ~Contains(queue, None)
  BY OrderAssumption, ElementOfSeq DEF OrderAssumption, Contains

\* Who is away, or at another port, is not connected here.
LEMMA OnlyAtPort ==
  ASSUME DishesStay, NEW c \in Customer, NEW t \in Port,
         customer[c].stage = "away" \/ customer[c].port # t
  PROVE  ~Contains(shop[t].queue, c) /\ shop[t].with # c
  <1>1. Agree(t, c)
    BY DEF DishesStay
  <1> QED
    BY <1>1 DEF Agree, Waits

LEMMA ServersStay ==
  ASSUME DishesStay, UNCHANGED <<server, wire>>
  PROVE  /\ DOMAIN server' = Name /\ DOMAIN wire' = Name
         /\ \A p \in Name : ServerKeepsDishes(p)' /\ On(p)' = On(p)
  BY DEF DishesStay, ServerKeepsDishes, On

\* A step of one client on its own.
LEMMA ClientSide ==
  ASSUME DishesStay, UNCHANGED <<server, wire, shop>>, NEW c \in Customer,
         DOMAIN customer' = Customer, \A d \in Customer : d # c => customer'[d] = customer[d],
         ClientReads(c)', \A t \in Port : Agree(t, c)'
  PROVE  DishesStay'
  <1>1. ASSUME NEW t \in Port PROVE ShopIsServed(t)' /\ NameOf(t)' = NameOf(t)
    <2>1. ShopIsServed(t)
      BY DEF DishesStay
    <2>2. NameOf(t)' = NameOf(t) /\ On(shop[t].host)' = On(shop[t].host)
      BY DEF NameOf, On
    <2> QED
      BY <2>1, <2>2 DEF ShopIsServed
  <1>2. ASSUME NEW d \in Customer, d # c PROVE ClientReads(d)' /\ \A t \in Port : Agree(t, d)'
    <2>1. ClientReads(d) /\ \A t \in Port : Agree(t, d)
      BY DEF DishesStay
    <2>2. ClientReads(d)'
      BY <1>2, <2>1 DEF ClientReads
    <2>3. ASSUME NEW t \in Port PROVE Agree(t, d)'
      BY <1>1, <1>2, <2>1 DEF Agree, Waits
    <2> QED
      BY <2>2, <2>3
  <1>3. DOMAIN shop' = Port
    BY DEF DishesStay
  <1> QED
    BY <1>1, <1>2, <1>3, ServersStay DEF DishesStay

\* A step of one shop with one of its customers.
LEMMA OneVisit ==
  ASSUME DishesStay, UNCHANGED <<server, wire>>, NEW s \in Port, NEW c \in Customer,
         DOMAIN shop' = Port, DOMAIN customer' = Customer,
         \A t \in Port : t # s => shop'[t] = shop[t],
         \A d \in Customer : d # c => customer'[d] = customer[d],
         shop'[s].host = shop[s].host,
         NameOf(s)' = NameOf(s) => ShopIsServed(s)' /\ ClientReads(c)' /\ Agree(s, c)',
         \A t \in Port : t # s => ~Contains(shop[t].queue, c) /\ shop[t].with # c,
         \A d \in Customer : d # c =>
            /\ Contains(shop'[s].queue, d) => Contains(shop[s].queue, d)
            /\ shop'[s].with = d => shop[s].with = d /\ shop'[s].stage = shop[s].stage
  PROVE  DishesStay'
  <1>1. \A t \in Port : shop'[t].host = shop[t].host
    OBVIOUS
  <1>2. \A t \in Port : NameOf(t)' = NameOf(t)
    BY <1>1, BackupIsPort DEF NameOf
  <1>3. ASSUME NEW t \in Port, t # s PROVE ShopIsServed(t)' /\ Agree(t, c)'
    <2>1. ShopIsServed(t)
      BY DEF DishesStay
    <2>2. On(shop[t].host)' = On(shop[t].host)
      BY <1>1 DEF On
    <2> QED
      BY <1>2, <1>3, <2>1, <2>2 DEF ShopIsServed, Agree
  <1>4. ASSUME NEW d \in Customer, d # c PROVE ClientReads(d)' /\ \A t \in Port : Agree(t, d)'
    <2>1. ClientReads(d) /\ \A t \in Port : Agree(t, d)
      BY DEF DishesStay
    <2>2. ClientReads(d)'
      BY <1>4, <2>1 DEF ClientReads
    <2>3. ASSUME NEW t \in Port PROVE Agree(t, d)'
      <3>1. customer'[d] = customer[d] /\ NameOf(t)' = NameOf(t) /\ Agree(t, d)
        BY <1>2, <1>4, <2>1
      <3>2. CASE t = s
        BY <1>4, <3>1, <3>2 DEF Agree, Waits
      <3>3. CASE t # s
        BY <3>1, <3>3 DEF Agree, Waits
      <3> QED
        BY <3>2, <3>3
    <2> QED
      BY <2>2, <2>3
  <1>5. ShopIsServed(s)' /\ ClientReads(c)' /\ Agree(s, c)'
    BY <1>2
  <1>6. \A t \in Port : ShopIsServed(t)'
    BY <1>3, <1>5
  <1>7. ASSUME NEW d \in Customer PROVE ClientReads(d)' /\ \A t \in Port : Agree(t, d)'
    BY <1>3, <1>4, <1>5
  <1> QED
    BY <1>6, <1>7, ServersStay DEF DishesStay

\* What a shop is before a step, and who is served.
LEMMA Served ==
  ASSUME DishesStay, NEW s \in Port
  PROVE  /\ DOMAIN shop = Port /\ DOMAIN customer = Customer /\ ShopIsServed(s)
         /\ DOMAIN shop[s] = {"host", "foods", "queue", "with", "stage"}
         /\ \A c \in Customer : ClientReads(c) /\ Agree(s, c)
         /\ shop[s].with # None =>
              /\ shop[s].with \in Customer
              /\ \A t \in Port : t # s =>
                    ~Contains(shop[t].queue, shop[s].with) /\ shop[t].with # shop[s].with
  <1>1. /\ DOMAIN shop = Port /\ DOMAIN customer = Customer /\ ShopIsServed(s)
        /\ \A c \in Customer : ClientReads(c) /\ Agree(s, c)
    BY DEF DishesStay
  <1>2. DOMAIN shop[s] = {"host", "foods", "queue", "with", "stage"}
    BY <1>1 DEF ShopIsServed, Closed, Open
  <1>3. ASSUME shop[s].with # None
        PROVE  /\ shop[s].with \in Customer
               /\ \A t \in Port : t # s =>
                    ~Contains(shop[t].queue, shop[s].with) /\ shop[t].with # shop[s].with
    <2>1. shop[s].with \in Customer
      BY <1>1, <1>3 DEF ShopIsServed
    <2>2. customer[shop[s].with].port = s
      BY <1>1, <2>1 DEF Agree
    <2> QED
      BY <2>1, <2>2, OnlyAtPort
  <1> QED
    BY <1>1, <1>2, <1>3

LEMMA AcceptKeepsDishes ==
  ASSUME DishesStay, NEW s \in Port, Accept(s)
  PROVE  DishesStay'
  <1> PICK c : c = Head(shop[s].queue)
    OBVIOUS
  <1>1. /\ DOMAIN shop = Port /\ DOMAIN customer = Customer /\ ShopIsServed(s)
        /\ DOMAIN shop[s] = {"host", "foods", "queue", "with", "stage"}
    BY Served
  <1>2. /\ shop' = [shop EXCEPT ![s].with = Head(shop[s].queue), ![s].queue = Tail(@),
                                ![s].stage = "menu"]
        /\ UNCHANGED <<server, wire, customer>> /\ shop[s].queue # <<>>
    BY DEF Accept
  <1>3. /\ DOMAIN shop' = Port /\ \A t \in Port : t # s => shop'[t] = shop[t]
        /\ shop'[s].with = c /\ shop'[s].queue = Tail(shop[s].queue) /\ shop'[s].stage = "menu"
        /\ shop'[s].host = shop[s].host /\ shop'[s].foods = shop[s].foods
        /\ DOMAIN shop'[s] = DOMAIN shop[s]
    BY <1>1, <1>2
  <1>4. /\ c \in Customer /\ Contains(shop[s].queue, c) /\ Tail(shop[s].queue) \in Seq(Customer)
        /\ IsInjective(Tail(shop[s].queue)) /\ ~Contains(Tail(shop[s].queue), c)
        /\ \A x : Contains(Tail(shop[s].queue), x) => Contains(shop[s].queue, x)
    BY <1>1, <1>2, NextInQueue DEF ShopIsServed
  <1>5. ClientReads(c) /\ Waits(c, s)
    BY <1>4, Served DEF Agree
  <1>6. \A t \in Port : t # s => ~Contains(shop[t].queue, c) /\ shop[t].with # c
    BY <1>4, <1>5, OnlyAtPort DEF Waits
  <1>7. On(shop[s].host)' = On(shop[s].host)
    BY <1>2, <1>3 DEF On
  <1>8. c # None
    BY <1>4, OrderAssumption DEF OrderAssumption
  <1>9. ASSUME NameOf(s)' = NameOf(s) PROVE ShopIsServed(s)'
    BY <1>1, <1>3, <1>4, <1>7, <1>8, <1>9 DEF ShopIsServed
  <1>10. ClientReads(c)'
    BY <1>2, <1>5 DEF ClientReads
  <1>11. ASSUME NameOf(s)' = NameOf(s) PROVE Agree(s, c)'
    BY <1>2, <1>3, <1>4, <1>5, <1>11 DEF Agree, Waits
  <1>12. DOMAIN customer' = Customer
    BY <1>1, <1>2
  <1> QED
    BY <1>2, <1>3, <1>4, <1>6, <1>9, <1>10, <1>11, <1>12, OneVisit

LEMMA ShowMenuKeepsDishes ==
  ASSUME DishesStay, NEW s \in Port, ShowMenu(s)
  PROVE  DishesStay'
  <1> PICK c : c = shop[s].with
    OBVIOUS
  <1>1. /\ DOMAIN shop = Port /\ DOMAIN customer = Customer /\ ShopIsServed(s)
        /\ DOMAIN shop[s] = {"host", "foods", "queue", "with", "stage"}
    BY Served
  <1>2. shop[s].stage = "menu" /\ customer[c].stage # "gone" /\ UNCHANGED <<server, wire>>
    BY DEF ShowMenu, ThreadAt
  <1>3. /\ c \in Customer /\ c # None
        /\ \A t \in Port : t # s => ~Contains(shop[t].queue, c) /\ shop[t].with # c
    BY <1>1, <1>2, Served DEF ShopIsServed
  <1>4. /\ ClientReads(c) /\ Agree(s, c) /\ ~Contains(shop[s].queue, c)
    BY <1>1, <1>3, Served DEF ShopIsServed
  <1>5. CASE /\ shop' = [shop EXCEPT ![s].with = None, ![s].stage = "accept"]
             /\ UNCHANGED customer
    <2>1. /\ DOMAIN shop' = Port /\ \A t \in Port : t # s => shop'[t] = shop[t]
          /\ shop'[s].with = None /\ shop'[s].queue = shop[s].queue /\ shop'[s].stage = "accept"
          /\ shop'[s].host = shop[s].host /\ shop'[s].foods = shop[s].foods
          /\ DOMAIN shop'[s] = DOMAIN shop[s]
      BY <1>1, <1>5
    <2>2. On(shop[s].host)' = On(shop[s].host)
      BY <1>2, <2>1 DEF On
    <2>3. ASSUME NameOf(s)' = NameOf(s) PROVE ShopIsServed(s)'
      BY <1>1, <2>1, <2>2, <2>3, NobodyInQueue DEF ShopIsServed
    <2>4. ClientReads(c)' /\ Agree(s, c)'
      BY <1>3, <1>4, <1>5, <2>1 DEF ClientReads, Agree
    <2>5. DOMAIN customer' = Customer /\ \A d \in Customer : d # None
      BY <1>1, <1>5, OrderAssumption DEF OrderAssumption
    <2> QED
      BY <1>2, <1>3, <1>5, <2>1, <2>3, <2>4, <2>5, OneVisit
  <1>6. ASSUME NEW menu \in {shop[s].foods} \cup {NoMenu},
               shop' = [shop EXCEPT ![s].stage = "number"],
               ToCustomer(shop[s].with, [kind |-> "menu", menu |-> menu])
        PROVE  DishesStay'
    <2> DEFINE message == [kind |-> "menu", menu |-> menu]
    <2>1. /\ DOMAIN shop' = Port /\ \A t \in Port : t # s => shop'[t] = shop[t]
          /\ shop'[s].with = c /\ shop'[s].queue = shop[s].queue /\ shop'[s].stage = "number"
          /\ shop'[s].host = shop[s].host /\ shop'[s].foods = shop[s].foods
          /\ DOMAIN shop'[s] = DOMAIN shop[s]
      BY <1>1, <1>6
    <2>2. customer' = [customer EXCEPT ![c].inbox = Append(@, message)]
      BY <1>6 DEF ToCustomer
    <2>3. DOMAIN customer[c] = {"stage", "asked", "port", "shown", "inbox", "number"}
      BY <1>4 DEF ClientReads, NoCustomer
    <2> HIDE DEF message
    <2>4. /\ DOMAIN customer' = Customer /\ \A d \in Customer : d # c => customer'[d] = customer[d]
          /\ customer'[c].inbox = Append(customer[c].inbox, message)
          /\ customer'[c].stage = customer[c].stage /\ customer'[c].asked = customer[c].asked
          /\ customer'[c].port = customer[c].port /\ customer'[c].shown = customer[c].shown
          /\ customer'[c].number = customer[c].number /\ DOMAIN customer'[c] = DOMAIN customer[c]
      BY <1>1, <1>3, <2>2, <2>3
    <2>5. /\ customer[c].port = s /\ customer[c].asked = NameOf(s)
          /\ \/ customer[c].stage = "menu" /\ customer[c].inbox = <<>>
             \/ customer[c].stage = "price" /\ customer[c].inbox = <<Price>>
      BY <1>2, <1>4 DEF Agree, Waits
    <2>6. message \in MenuMessages(customer[c].asked)
      BY <1>1, <2>5 DEF message, MenuMessages, Menus, ShopIsServed
    <2>7. ASSUME customer[c].stage = "menu", customer[c].inbox = <<>> PROVE ClientReads(c)'
      <3>1. customer'[c].inbox = <<message>> /\ Len(<<message>>) = 1 /\ Head(<<message>>) = message
        BY <2>4, <2>7, Inboxes
      <3>2. IsMenu(customer[c].asked, customer'[c].inbox)
        BY <2>6, <3>1 DEF IsMenu
      <3>3. customer[c].number = 0 /\ customer[c].shown = <<>> /\ customer[c].port \in Port
        BY <1>4, <2>7 DEF ClientReads
      <3> QED
        BY <1>4, <2>4, <2>7, <3>2, <3>3 DEF ClientReads
    <2>8. ASSUME customer[c].stage = "price", customer[c].inbox = <<Price>> PROVE ClientReads(c)'
      <3>0. /\ Append(<<Price>>, message) = <<Price, message>> /\ Len(<<Price, message>>) = 2
            /\ <<Price, message>>[2] = message
        BY Inboxes
      <3>1. customer'[c].inbox = <<Price, message>> /\ Len(<<Price, message>>) = 2
            /\ <<Price, message>>[2] = message
        BY <2>4, <2>8, <3>0
      <3>2. IsPriceAndMenu(customer[c].asked, customer'[c].inbox)
        BY <2>6, <3>1 DEF IsPriceAndMenu
      <3>3. <<Price>> # <<>>
        BY Inboxes
      <3>4. customer[c].number = 0 /\ customer[c].shown = <<>> /\ customer[c].port \in Port
        BY <1>4, <2>8, <3>3 DEF ClientReads
      <3> QED
        BY <1>4, <2>4, <2>8, <3>2, <3>4 DEF ClientReads
    <2>9. On(shop[s].host)' = On(shop[s].host)
      BY <1>2, <2>1 DEF On
    <2>10. ASSUME NameOf(s)' = NameOf(s) PROVE ShopIsServed(s)' /\ Agree(s, c)'
      <3>1. ShopIsServed(s)'
        BY <1>1, <1>3, <2>1, <2>9, <2>10 DEF ShopIsServed
      <3>2. Agree(s, c)'
        BY <1>4, <2>1, <2>4, <2>5, <2>10 DEF Agree
      <3> QED
        BY <3>1, <3>2
    <2>11. ClientReads(c)'
      BY <2>5, <2>7, <2>8
    <2> QED
      BY <1>2, <1>3, <2>1, <2>4, <2>10, <2>11, OneVisit
  <1> QED
    <2>1. PICK menu \in {shop[s].foods} \cup IF InChange(s) THEN {NoMenu} ELSE {} :
            \/ /\ shop' = [shop EXCEPT ![s].with = None, ![s].stage = "accept"]
               /\ UNCHANGED customer
            \/ /\ shop' = [shop EXCEPT ![s].stage = "number"]
               /\ ToCustomer(shop[s].with, [kind |-> "menu", menu |-> menu])
      BY DEF ShowMenu
    <2>2. menu \in {shop[s].foods} \cup {NoMenu}
      OBVIOUS
    <2> QED
      BY <1>5, <1>6, <2>1, <2>2

LEMMA CloseConnectionKeepsDishes ==
  ASSUME DishesStay, NEW s \in Port, CloseConnection(s)
  PROVE  DishesStay'
  <1> PICK c : c = shop[s].with
    OBVIOUS
  <1>1. /\ DOMAIN shop = Port /\ DOMAIN customer = Customer /\ ShopIsServed(s)
        /\ DOMAIN shop[s] = {"host", "foods", "queue", "with", "stage"}
    BY Served
  <1>2. /\ c # None /\ UNCHANGED <<server, wire>>
        /\ shop' = [shop EXCEPT ![s].with = None, ![s].stage = "accept"]
        /\ customer' = [customer EXCEPT ![c] = NoCustomer]
    BY DEF CloseConnection
  <1>3. /\ c \in Customer /\ ~Contains(shop[s].queue, c)
        /\ \A t \in Port : t # s => ~Contains(shop[t].queue, c) /\ shop[t].with # c
    BY <1>1, <1>2, Served DEF ShopIsServed
  <1>4. /\ DOMAIN shop' = Port /\ \A t \in Port : t # s => shop'[t] = shop[t]
        /\ shop'[s].with = None /\ shop'[s].queue = shop[s].queue /\ shop'[s].stage = "accept"
        /\ shop'[s].host = shop[s].host /\ shop'[s].foods = shop[s].foods
        /\ DOMAIN shop'[s] = DOMAIN shop[s]
    BY <1>1, <1>2
  <1>5. /\ DOMAIN customer' = Customer /\ customer'[c] = NoCustomer
        /\ \A d \in Customer : d # c => customer'[d] = customer[d]
    BY <1>1, <1>2, <1>3
  <1>6. On(shop[s].host)' = On(shop[s].host)
    BY <1>2, <1>4 DEF On
  <1>7. ASSUME NameOf(s)' = NameOf(s) PROVE ShopIsServed(s)'
    BY <1>1, <1>4, <1>6, <1>7, NobodyInQueue DEF ShopIsServed
  <1>8. ClientReads(c)'
    BY <1>5 DEF ClientReads, NoCustomer
  <1>9. Agree(s, c)'
    BY <1>2, <1>3, <1>4 DEF Agree
  <1>10. \A d \in Customer : d # None
    BY OrderAssumption DEF OrderAssumption
  <1> QED
    BY <1>2, <1>3, <1>4, <1>5, <1>7, <1>8, <1>9, <1>10, OneVisit

LEMMA TakeOrderKeepsDishes ==
  ASSUME DishesStay, NEW s \in Port, TakeOrder(s)
  PROVE  DishesStay'
  <1> PICK c : c = shop[s].with
    OBVIOUS
  <1> DEFINE foods == shop[s].foods
             n == customer[c].number
  <1>1. /\ DOMAIN shop = Port /\ DOMAIN customer = Customer /\ ShopIsServed(s)
        /\ DOMAIN shop[s] = {"host", "foods", "queue", "with", "stage"}
    BY Served
  <1>2. /\ shop[s].stage = "number" /\ n # 0 /\ UNCHANGED <<server, wire>>
        /\ customer' = [customer EXCEPT ![c] = Receives(c, Price)]
    BY DEF TakeOrder, ThreadAt, Price
  <1>3. /\ c \in Customer /\ c # None
        /\ \A t \in Port : t # s => ~Contains(shop[t].queue, c) /\ shop[t].with # c
    BY <1>1, <1>2, Served DEF ShopIsServed
  <1>4. /\ ClientReads(c) /\ Agree(s, c) /\ ~Contains(shop[s].queue, c)
    BY <1>1, <1>3, Served DEF ShopIsServed
  <1>5. DOMAIN customer[c] = {"stage", "asked", "port", "shown", "inbox", "number"}
    BY <1>4 DEF ClientReads, NoCustomer
  <1>6. /\ customer[c].stage \in {"price", "gone"} /\ customer[c].inbox = <<>>
        /\ customer[c].shown = <<>> /\ customer[c].port \in Port
    BY <1>2, <1>4 DEF ClientReads
  <1>7. /\ DOMAIN customer' = Customer /\ \A d \in Customer : d # c => customer'[d] = customer[d]
        /\ customer'[c].stage = customer[c].stage /\ customer'[c].asked = customer[c].asked
        /\ customer'[c].port = customer[c].port /\ customer'[c].shown = customer[c].shown
        /\ customer'[c].number = 0 /\ DOMAIN customer'[c] = DOMAIN customer[c]
        /\ customer'[c].inbox = IF customer[c].stage = "gone" THEN customer[c].inbox
                                ELSE Append(customer[c].inbox, Price)
    <2>1. DOMAIN customer' = Customer /\ \A d \in Customer : d # c => customer'[d] = customer[d]
      BY <1>1, <1>2, <1>3
    <2>2. customer'[c] = Receives(c, Price)
      BY <1>1, <1>2, <1>3
    <2> QED
      BY <1>5, <2>1, <2>2 DEF Receives
  <1>8. \/ customer'[c].stage = "price" /\ customer'[c].inbox = <<Price>>
        \/ customer'[c].stage = "gone" /\ customer'[c].inbox = <<>>
    BY <1>6, <1>7, Inboxes
  <1>9. /\ DOMAIN shop' = Port /\ \A t \in Port : t # s => shop'[t] = shop[t]
        /\ shop'[s].with = c /\ shop'[s].queue = shop[s].queue /\ shop'[s].stage = "menu"
        /\ shop'[s].host = shop[s].host /\ DOMAIN shop'[s] = DOMAIN shop[s]
        /\ shop'[s].foods \in Seq(Foods(NameOf(s)))
    <2>1. foods \in Seq(Foods(NameOf(s)))
      BY <1>1 DEF ShopIsServed
    <2>2. CASE shop' = [shop EXCEPT ![s].stage = "menu"]
      BY <1>1, <2>1, <2>2
    <2>3. ASSUME n \in DOMAIN foods,
                 shop' = [shop EXCEPT ![s].foods[n].stock = @ - 1, ![s].stage = "menu"]
          PROVE  /\ DOMAIN shop' = Port /\ \A t \in Port : t # s => shop'[t] = shop[t]
                 /\ shop'[s].with = c /\ shop'[s].queue = shop[s].queue /\ shop'[s].stage = "menu"
                 /\ shop'[s].host = shop[s].host /\ DOMAIN shop'[s] = DOMAIN shop[s]
                 /\ shop'[s].foods \in Seq(Foods(NameOf(s)))
      <3>1. n \in 1 .. Len(foods) /\ foods[n] \in Foods(NameOf(s)) /\ DOMAIN foods = 1 .. Len(foods)
        BY <2>1, <2>3, LenProperties, ElementOfSeq
      <3> DEFINE food == [foods[n] EXCEPT !.stock = @ - 1]
      <3>2. food \in Foods(NameOf(s))
        <4>1. PICK g : g = foods[n]
          OBVIOUS
        <4>2. g \in [dish : DishesOf[NameOf(s)], stock : Int]
          BY <3>1, <4>1 DEF Foods
        <4>3. [g EXCEPT !.stock = @ - 1] \in [dish : DishesOf[NameOf(s)], stock : Int]
          BY <4>2
        <4> QED
          BY <4>1, <4>3 DEF Foods
      <3>3. shop'[s].foods = [foods EXCEPT ![n] = food]
        BY <1>1, <2>3
      <3>4. shop'[s].foods \in Seq(Foods(NameOf(s)))
        <4> HIDE DEF food, foods, n
        <4> QED
          BY <2>1, <3>1, <3>2, <3>3, ExceptSeq
      <3> QED
        BY <1>1, <2>3, <3>4
    <2> QED
      BY <2>2, <2>3 DEF TakeOrder
  <1>10. On(shop[s].host)' = On(shop[s].host)
    BY <1>2, <1>9 DEF On
  <1>11. ASSUME NameOf(s)' = NameOf(s) PROVE ShopIsServed(s)' /\ Agree(s, c)'
    <2>1. ShopIsServed(s)'
      BY <1>1, <1>3, <1>9, <1>10, <1>11 DEF ShopIsServed
    <2>2. Agree(s, c)'
      BY <1>4, <1>6, <1>7, <1>8, <1>9, <1>11 DEF Agree
    <2> QED
      BY <2>1, <2>2
  <1>12. ClientReads(c)'
    BY <1>4, <1>6, <1>7, <1>8 DEF ClientReads
  <1>13. UNCHANGED <<server, wire>>
    BY <1>2
  <1>14. \A d \in Customer : d # c =>
            /\ Contains(shop'[s].queue, d) => Contains(shop[s].queue, d)
            /\ shop'[s].with = d => shop[s].with = d /\ shop'[s].stage = shop[s].stage
    BY <1>9
  <1> HIDE DEF foods, n
  <1> QED
    BY <1>3, <1>7, <1>9, <1>11, <1>12, <1>13, <1>14, OneVisit

LEMMA ClientRecord ==
  ASSUME DishesStay, NEW c \in Customer
  PROVE  /\ DOMAIN customer = Customer /\ ClientReads(c) /\ \A t \in Port : Agree(t, c)
         /\ DOMAIN customer[c] = {"stage", "asked", "port", "shown", "inbox", "number"}
  <1>1. DOMAIN customer = Customer /\ ClientReads(c) /\ \A t \in Port : Agree(t, c)
    BY DEF DishesStay
  <1> QED
    BY <1>1 DEF ClientReads, NoCustomer

LEMMA VisitKeepsDishes ==
  ASSUME DishesStay, NEW c \in Customer, NEW p \in Name, Visit(c, p)
  PROVE  DishesStay'
  <1>1. PICK s \in IF On(p) THEN {p} ELSE IF IsOpen(Backup) THEN {Backup} ELSE {} :
            /\ customer' = [customer EXCEPT ![c].stage = "menu", ![c].asked = p, ![c].port = s]
            /\ shop' = [shop EXCEPT ![s].queue = Append(@, c)]
    BY DEF Visit
  <1>2. s \in Port /\ UNCHANGED <<server, wire>> /\ customer[c].stage = "away"
    BY <1>1, Names DEF Visit
  <1>3. p = NameOf(s)
    <2>1. CASE s = p
      BY <2>1, ShopOfName
    <2>2. CASE s = Backup /\ ~On(p) /\ IsOpen(Backup)
      <3>1. shop[Backup].host \in Name /\ On(shop[Backup].host)
        BY <2>2, BackupIsPort DEF DishesStay, ShopIsServed, IsOpen
      <3>2. shop[Backup].host = Other(p)
        BY <2>2, <3>1, Names
      <3> QED
        BY <2>2, <3>2, Names DEF NameOf
    <2> QED
      BY <1>1, <2>1, <2>2
  <1>4. /\ DOMAIN shop = Port /\ ShopIsServed(s)
        /\ DOMAIN shop[s] = {"host", "foods", "queue", "with", "stage"}
    BY <1>2, Served
  <1>5. /\ DOMAIN customer = Customer /\ ClientReads(c)
        /\ DOMAIN customer[c] = {"stage", "asked", "port", "shown", "inbox", "number"}
    BY ClientRecord
  <1>6. \A t \in Port : ~Contains(shop[t].queue, c) /\ shop[t].with # c
    BY <1>2, OnlyAtPort
  <1>7. /\ DOMAIN shop' = Port /\ \A t \in Port : t # s => shop'[t] = shop[t]
        /\ shop'[s].with = shop[s].with /\ shop'[s].queue = Append(shop[s].queue, c)
        /\ shop'[s].stage = shop[s].stage
        /\ shop'[s].host = shop[s].host /\ shop'[s].foods = shop[s].foods
        /\ DOMAIN shop'[s] = DOMAIN shop[s]
    BY <1>1, <1>2, <1>4
  <1>8. /\ DOMAIN customer' = Customer /\ \A d \in Customer : d # c => customer'[d] = customer[d]
        /\ customer'[c].stage = "menu" /\ customer'[c].asked = p /\ customer'[c].port = s
        /\ customer'[c].shown = customer[c].shown /\ customer'[c].inbox = customer[c].inbox
        /\ customer'[c].number = customer[c].number /\ DOMAIN customer'[c] = DOMAIN customer[c]
    BY <1>1, <1>5
  <1>9. /\ Append(shop[s].queue, c) \in Seq(Customer) /\ IsInjective(Append(shop[s].queue, c))
        /\ \A x : Contains(Append(shop[s].queue, c), x) <=> Contains(shop[s].queue, x) \/ x = c
    BY <1>2, <1>4, <1>6, JoinQueue DEF ShopIsServed
  <1>10. On(shop[s].host)' = On(shop[s].host)
    BY <1>2, <1>7 DEF On
  <1>11. ASSUME NameOf(s)' = NameOf(s) PROVE ShopIsServed(s)'
    BY <1>2, <1>4, <1>6, <1>7, <1>9, <1>10, <1>11 DEF ShopIsServed
  <1>12. customer[c].inbox = <<>> /\ customer[c].number = 0 /\ customer[c].shown = <<>>
    BY <1>2, <1>5 DEF ClientReads
  <1>13. ClientReads(c)'
    BY <1>2, <1>5, <1>8, <1>12 DEF ClientReads
  <1>14. ASSUME NameOf(s)' = NameOf(s) PROVE Agree(s, c)'
    <2>1. Waits(c, s)'
      BY <1>3, <1>8, <1>12, <1>14 DEF Waits
    <2> QED
      BY <1>2, <1>6, <1>7, <2>1 DEF Agree
  <1>15. \A d \in Customer : d # c =>
            /\ Contains(shop'[s].queue, d) => Contains(shop[s].queue, d)
            /\ shop'[s].with = d => shop[s].with = d /\ shop'[s].stage = shop[s].stage
    BY <1>7, <1>9
  <1>16. UNCHANGED <<server, wire>> /\ s \in Port
    BY <1>2
  <1>17. /\ DOMAIN shop' = Port /\ \A t \in Port : t # s => shop'[t] = shop[t]
         /\ shop'[s].host = shop[s].host
    BY <1>7
  <1>18. DOMAIN customer' = Customer /\ \A d \in Customer : d # c => customer'[d] = customer[d]
    BY <1>8
  <1> QED
    BY <1>6, <1>11, <1>13, <1>14, <1>15, <1>16, <1>17, <1>18, OneVisit

LEMMA LeaveKeepsDishes ==
  ASSUME DishesStay, NEW c \in Customer, Leave(c)
  PROVE  DishesStay'
  <1> PICK s : s = customer[c].port
    OBVIOUS
  <1>1. /\ DOMAIN customer = Customer /\ ClientReads(c)
        /\ DOMAIN customer[c] = {"stage", "asked", "port", "shown", "inbox", "number"}
    BY ClientRecord
  <1>2. /\ customer[c].stage \in {"menu", "choose", "price"} /\ UNCHANGED <<server, wire>>
        /\ customer' = [customer EXCEPT ![c] =
                            IF shop[s].with = c
                            THEN [NoCustomer EXCEPT !.stage = "gone", !.port = s,
                                                    !.number = customer[c].number]
                            ELSE NoCustomer]
        /\ \/ ~Contains(shop[s].queue, c) /\ UNCHANGED shop
           \/ \E i \in DOMAIN shop[s].queue :
                shop[s].queue[i] = c /\ shop' = [shop EXCEPT ![s].queue = RemoveAt(@, i)]
    BY DEF Leave
  <1>3. s \in Port
    BY <1>1, <1>2 DEF ClientReads
  <1>4. /\ DOMAIN shop = Port /\ ShopIsServed(s) /\ Agree(s, c)
        /\ DOMAIN shop[s] = {"host", "foods", "queue", "with", "stage"}
    BY <1>3, Served
  <1>5. \A t \in Port : t # s => ~Contains(shop[t].queue, c) /\ shop[t].with # c
    BY OnlyAtPort
  <1>6. /\ DOMAIN customer' = Customer /\ \A d \in Customer : d # c => customer'[d] = customer[d]
        /\ customer'[c] = IF shop[s].with = c
                          THEN [NoCustomer EXCEPT !.stage = "gone", !.port = s,
                                                  !.number = customer[c].number]
                          ELSE NoCustomer
    BY <1>1, <1>2
  <1>7. ClientReads(c)'
    BY <1>3, <1>6 DEF ClientReads, NoCustomer
  <1>8. /\ DOMAIN shop' = Port /\ \A t \in Port : t # s => shop'[t] = shop[t]
        /\ shop'[s].with = shop[s].with /\ shop'[s].stage = shop[s].stage
        /\ shop'[s].host = shop[s].host /\ shop'[s].foods = shop[s].foods
        /\ DOMAIN shop'[s] = DOMAIN shop[s]
    <2>1. CASE UNCHANGED shop
      BY <1>4, <2>1
    <2>2. ASSUME NEW i, shop' = [shop EXCEPT ![s].queue = RemoveAt(@, i)] 
          PROVE  /\ DOMAIN shop' = Port /\ \A t \in Port : t # s => shop'[t] = shop[t]
                 /\ shop'[s].with = shop[s].with /\ shop'[s].stage = shop[s].stage
                 /\ shop'[s].host = shop[s].host /\ shop'[s].foods = shop[s].foods
                 /\ DOMAIN shop'[s] = DOMAIN shop[s]
      BY <1>3, <1>4, <2>2
    <2> QED
      BY <1>2, <2>1, <2>2
  <1>9. /\ shop'[s].queue \in Seq(Customer) /\ IsInjective(shop'[s].queue)
        /\ ~Contains(shop'[s].queue, c)
        /\ \A x : Contains(shop'[s].queue, x) => Contains(shop[s].queue, x)
    <2>1. CASE ~Contains(shop[s].queue, c) /\ UNCHANGED shop
      BY <1>4, <2>1 DEF ShopIsServed
    <2>2. ASSUME NEW i \in DOMAIN shop[s].queue,
                 shop[s].queue[i] = c, shop' = [shop EXCEPT ![s].queue = RemoveAt(@, i)]
          PROVE  /\ shop'[s].queue \in Seq(Customer) /\ IsInjective(shop'[s].queue)
                 /\ ~Contains(shop'[s].queue, c)
                 /\ \A x : Contains(shop'[s].queue, x) => Contains(shop[s].queue, x)
      <3>1. /\ RemoveAt(shop[s].queue, i) \in Seq(Customer) /\ IsInjective(RemoveAt(shop[s].queue, i))
            /\ ~Contains(RemoveAt(shop[s].queue, i), c)
            /\ \A x : Contains(RemoveAt(shop[s].queue, i), x) => Contains(shop[s].queue, x)
        BY <1>4, <2>2, LeaveQueue DEF ShopIsServed
      <3>2. shop'[s].queue = RemoveAt(shop[s].queue, i)
        BY <1>3, <1>4, <2>2
      <3> QED
        BY <3>1, <3>2
    <2> QED
      BY <1>2, <2>1, <2>2
  <1>10. On(shop[s].host)' = On(shop[s].host)
    BY <1>2, <1>8 DEF On
  <1>11. ASSUME NameOf(s)' = NameOf(s) PROVE ShopIsServed(s)'
    BY <1>4, <1>8, <1>9, <1>10, <1>11 DEF ShopIsServed
  <1>12. Agree(s, c)'
    <2>1. CASE shop[s].with = c
      <3>1. customer'[c].port = s /\ customer'[c].stage = "gone"
        BY <1>6, <2>1 DEF NoCustomer
      <3> QED
        BY <1>8, <1>9, <3>1 DEF Agree
    <2>2. CASE shop[s].with # c
      BY <1>8, <1>9, <2>2 DEF Agree
    <2> QED
      BY <2>1, <2>2
  <1>13. \A d \in Customer : d # c =>
            /\ Contains(shop'[s].queue, d) => Contains(shop[s].queue, d)
            /\ shop'[s].with = d => shop[s].with = d /\ shop'[s].stage = shop[s].stage
    BY <1>8, <1>9
  <1>14. UNCHANGED <<server, wire>> /\ s \in Port
    BY <1>2, <1>3
  <1>15. /\ DOMAIN shop' = Port /\ \A t \in Port : t # s => shop'[t] = shop[t]
         /\ shop'[s].host = shop[s].host
    BY <1>8
  <1>16. DOMAIN customer' = Customer /\ \A d \in Customer : d # c => customer'[d] = customer[d]
    BY <1>6
  <1> QED
    BY <1>5, <1>7, <1>11, <1>12, <1>13, <1>14, <1>15, <1>16, OneVisit

LEMMA EndVisitKeepsDishes ==
  ASSUME DishesStay, NEW c \in Customer, EndVisit(c)
  PROVE  DishesStay'
  <1>1. DOMAIN customer = Customer /\ ClientReads(c)
    BY ClientRecord
  <1>2. /\ UNCHANGED <<server, wire, shop>> /\ customer' = [customer EXCEPT ![c] = NoCustomer]
        /\ shop[customer[c].port].with # c /\ ~Contains(shop[customer[c].port].queue, c)
    BY DEF EndVisit, AtEnd, Disconnected
  <1>3. \A t \in Port : shop[t].with # c /\ ~Contains(shop[t].queue, c)
    BY <1>2, OnlyAtPort
  <1>4. /\ DOMAIN customer' = Customer /\ customer'[c] = NoCustomer
        /\ \A d \in Customer : d # c => customer'[d] = customer[d]
    BY <1>1, <1>2
  <1>5. ClientReads(c)'
    BY <1>4 DEF ClientReads, NoCustomer
  <1>6. \A t \in Port : Agree(t, c)'
    BY <1>2, <1>3 DEF Agree
  <1> QED
    BY <1>2, <1>4, <1>5, <1>6, ClientSide

LEMMA GoOnKeepsDishes ==
  ASSUME DishesStay, NEW c \in Customer, GoOn(c)
  PROVE  DishesStay'
  <1>1. /\ DOMAIN customer = Customer /\ ClientReads(c)
        /\ DOMAIN customer[c] = {"stage", "asked", "port", "shown", "inbox", "number"}
    BY ClientRecord
  <1>2. /\ UNCHANGED <<server, wire, shop>> /\ customer[c].inbox = <<>>
        /\ shop[customer[c].port].with # c /\ ~Contains(shop[customer[c].port].queue, c)
        /\ \/ /\ customer[c].stage = "menu"
              /\ customer' = [customer EXCEPT ![c].stage = "choose", ![c].shown = NoMenu]
           \/ /\ customer[c].stage = "price"
              /\ customer' = [customer EXCEPT ![c].stage = "menu", ![c].number = 0]
    BY DEF GoOn, AtEnd, Disconnected
  <1>3. \A t \in Port : shop[t].with # c /\ ~Contains(shop[t].queue, c)
    BY <1>2, OnlyAtPort
  <1>4. /\ DOMAIN customer' = Customer /\ DOMAIN customer'[c] = DOMAIN customer[c]
        /\ customer'[c].port = customer[c].port /\ customer'[c].inbox = <<>>
        /\ \A d \in Customer : d # c => customer'[d] = customer[d]
        /\ \/ /\ customer[c].stage = "menu" /\ customer'[c].stage = "choose"
              /\ customer'[c].shown = NoMenu /\ customer'[c].number = customer[c].number
           \/ /\ customer[c].stage = "price" /\ customer'[c].stage = "menu"
              /\ customer'[c].shown = customer[c].shown /\ customer'[c].number = 0
    BY <1>1, <1>2
  <1>5. ClientReads(c)'
    BY <1>1, <1>4 DEF ClientReads, Menus
  <1>6. \A t \in Port : Agree(t, c)'
    BY <1>2, <1>3 DEF Agree
  <1> QED
    BY <1>2, <1>4, <1>5, <1>6, ClientSide

LEMMA ReadMenuKeepsDishes ==
  ASSUME DishesStay, NEW c \in Customer, ReadMenu(c)
  PROVE  DishesStay'
  <1>1. /\ DOMAIN customer = Customer /\ ClientReads(c) /\ \A t \in Port : Agree(t, c)
        /\ DOMAIN customer[c] = {"stage", "asked", "port", "shown", "inbox", "number"}
    BY ClientRecord
  <1>2. /\ customer[c].stage = "menu" /\ customer[c].inbox # <<>> /\ UNCHANGED <<server, wire, shop>>
        /\ customer' = [customer EXCEPT ![c].stage = "choose", ![c].inbox = <<>>,
                                        ![c].shown = Head(customer[c].inbox).menu]
    BY DEF ReadMenu
  <1>3. /\ DOMAIN customer' = Customer /\ \A d \in Customer : d # c => customer'[d] = customer[d]
        /\ customer'[c].stage = "choose" /\ customer'[c].inbox = <<>>
        /\ customer'[c].shown = Head(customer[c].inbox).menu
        /\ customer'[c].asked = customer[c].asked /\ customer'[c].port = customer[c].port
        /\ customer'[c].number = customer[c].number /\ DOMAIN customer'[c] = DOMAIN customer[c]
    BY <1>1, <1>2
  <1>4. /\ Head(customer[c].inbox) \in MenuMessages(customer[c].asked)
        /\ customer[c].number = 0 /\ customer[c].port \in Port
    BY <1>1, <1>2 DEF ClientReads, IsMenu
  <1>5. ClientReads(c)'
    <2>1. customer'[c].shown \in Menus(customer[c].asked)
      BY <1>3, <1>4 DEF MenuMessages
    <2> QED
      BY <1>1, <1>3, <1>4, <2>1 DEF ClientReads, Menus
  <1>6. ASSUME NEW t \in Port PROVE Agree(t, c)'
    <2>1. Agree(t, c) /\ NameOf(t)' = NameOf(t)
      BY <1>1, <1>2 DEF NameOf
    <2> QED
      BY <1>2, <1>3, <2>1 DEF Agree, Waits
  <1> QED
    BY <1>2, <1>3, <1>5, <1>6, ClientSide

LEMMA OrderKeepsDishes ==
  ASSUME DishesStay, NEW c \in Customer, Order(c)
  PROVE  DishesStay'
  <1>1. /\ DOMAIN customer = Customer /\ ClientReads(c) /\ \A t \in Port : Agree(t, c)
        /\ DOMAIN customer[c] = {"stage", "asked", "port", "shown", "inbox", "number"}
    BY ClientRecord
  <1>2. PICK n : /\ customer[c].stage = "choose" /\ UNCHANGED <<server, wire, shop>>
                 /\ customer' = [customer EXCEPT ![c].stage = "price", ![c].number = n,
                                                 ![c].shown = <<>>]
    BY DEF Order
  <1>3. /\ DOMAIN customer' = Customer /\ \A d \in Customer : d # c => customer'[d] = customer[d]
        /\ customer'[c].stage = "price" /\ customer'[c].inbox = customer[c].inbox
        /\ customer'[c].shown = <<>>
        /\ customer'[c].asked = customer[c].asked /\ customer'[c].port = customer[c].port
        /\ DOMAIN customer'[c] = DOMAIN customer[c]
    BY <1>1, <1>2
  <1>4. customer[c].inbox = <<>> /\ customer[c].port \in Port
    BY <1>1, <1>2 DEF ClientReads
  <1>5. ClientReads(c)'
    BY <1>1, <1>3, <1>4 DEF ClientReads
  <1>6. ASSUME NEW t \in Port PROVE Agree(t, c)'
    <2>1. Agree(t, c) /\ NameOf(t)' = NameOf(t)
      BY <1>1, <1>2 DEF NameOf
    <2> QED
      BY <1>2, <1>3, <2>1 DEF Agree, Waits
  <1> QED
    BY <1>2, <1>3, <1>5, <1>6, ClientSide

LEMMA ReadPriceKeepsDishes ==
  ASSUME DishesStay, NEW c \in Customer, ReadPrice(c)
  PROVE  DishesStay'
  <1>1. /\ DOMAIN customer = Customer /\ ClientReads(c) /\ \A t \in Port : Agree(t, c)
        /\ DOMAIN customer[c] = {"stage", "asked", "port", "shown", "inbox", "number"}
    BY ClientRecord
  <1>2. PICK n \in 1 .. Len(customer[c].inbox) :
          /\ customer[c].stage = "price" /\ UNCHANGED <<server, wire, shop>>
          /\ customer' = [customer EXCEPT ![c].stage = "menu",
                                          ![c].inbox = SubSeq(@, n + 1, Len(@))]
    BY DEF ReadPrice
  <1>3. /\ DOMAIN customer' = Customer /\ \A d \in Customer : d # c => customer'[d] = customer[d]
        /\ customer'[c].stage = "menu"
        /\ customer'[c].inbox = SubSeq(customer[c].inbox, n + 1, Len(customer[c].inbox))
        /\ customer'[c].shown = customer[c].shown /\ customer'[c].number = customer[c].number
        /\ customer'[c].asked = customer[c].asked /\ customer'[c].port = customer[c].port
        /\ DOMAIN customer'[c] = DOMAIN customer[c]
    BY <1>1, <1>2
  <1>4. customer[c].inbox # <<>>
    BY <1>2, EmptySeq
  <1>5. /\ customer[c].number = 0 /\ customer[c].shown = <<>> /\ customer[c].port \in Port
        /\ customer[c].inbox = <<Price>> \/ IsPriceAndMenu(customer[c].asked, customer[c].inbox)
    BY <1>1, <1>2, <1>4 DEF ClientReads
  <1>6. CASE customer[c].inbox = <<Price>>
    <2>1. n = 1 /\ Len(<<Price>>) = 1 /\ SubSeq(<<Price>>, 2, 1) = <<>>
      BY <1>2, <1>6, Inboxes
    <2>2. customer'[c].inbox = <<>>
      BY <1>3, <1>6, <2>1
    <2>3. ClientReads(c)'
      BY <1>1, <1>3, <1>5, <2>2 DEF ClientReads
    <2>4. ASSUME NEW t \in Port PROVE Agree(t, c)'
      <3>1. Agree(t, c) /\ NameOf(t)' = NameOf(t)
        BY <1>1, <1>2 DEF NameOf
      <3> QED
        BY <1>2, <1>3, <2>2, <3>1 DEF Agree, Waits
    <2> QED
      BY <1>2, <1>3, <2>3, <2>4, ClientSide
  <1>7. CASE IsPriceAndMenu(customer[c].asked, customer[c].inbox)
    <2>1. PICK m \in MenuMessages(customer[c].asked) : customer[c].inbox = <<Price, m>>
      BY <1>7 DEF IsPriceAndMenu
    <2>2. /\ Len(<<Price, m>>) = 2 /\ SubSeq(<<Price, m>>, 2, 2) = <<m>>
          /\ SubSeq(<<Price, m>>, 3, 2) = <<>> /\ <<Price, m>> # <<Price>>
          /\ Len(<<m>>) = 1 /\ Head(<<m>>) = m
      BY Inboxes
    <2>3. n = 1 \/ n = 2
      BY <1>2, <2>1, <2>2
    <2>4. customer'[c].inbox = <<m>> \/ customer'[c].inbox = <<>>
      BY <1>3, <2>1, <2>2, <2>3
    <2>5. customer'[c].inbox = <<>> \/ IsMenu(customer[c].asked, customer'[c].inbox)
      BY <2>2, <2>4 DEF IsMenu
    <2>6. ClientReads(c)'
      BY <1>1, <1>3, <1>5, <2>5 DEF ClientReads
    <2>7. ASSUME NEW t \in Port PROVE Agree(t, c)'
      <3>1. Agree(t, c) /\ NameOf(t)' = NameOf(t)
        BY <1>1, <1>2 DEF NameOf
      <3> QED
        BY <1>2, <1>3, <2>1, <2>2, <3>1 DEF Agree, Waits
    <2> QED
      BY <1>2, <1>3, <2>6, <2>7, ClientSide
  <1> QED
    BY <1>5, <1>6, <1>7

(* The theorem *)

LEMMA InitDishes == Init => DishesStay
  <1> SUFFICES ASSUME Init PROVE DishesStay
    OBVIOUS
  <1>1. PICK menu :
            /\ \A p \in Name : menu[p] \in {<<f>> : f \in Food(p)}
            /\ server = [p \in Name |-> Process(menu[p], menu[Other(p)])]
            /\ wire = [p \in Name |-> <<>>]
            /\ shop = [s \in Port |-> IF s = Backup THEN Closed ELSE Open(s, menu[s])]
            /\ customer = [c \in Customer |-> NoCustomer]
    BY DEF Init
  <1>2. ASSUME NEW p \in Name PROVE menu[p] \in Seq(Foods(p))
    <2>1. PICK f \in Food(p) : menu[p] = <<f>>
      BY <1>1, <1>2
    <2>2. f \in Foods(p)
      <3>1. Stocks \subseteq Int
        BY OrderAssumption DEF OrderAssumption
      <3> QED
        BY <3>1 DEF Food, Foods
    <2> QED
      BY <2>1, <2>2
  <1>3. ASSUME NEW p \in Name PROVE ServerKeepsDishes(p)
    <2>1. /\ server[p].text = NoMenu /\ server[p].copy = menu[Other(p)] /\ server[p].console = Idle
          /\ DOMAIN server[p] = DOMAIN Process(NoMenu, NoMenu) /\ wire[p] = <<>>
      BY <1>1 DEF Process
    <2>2. Idle.port = None /\ None # p
      BY OrderAssumption DEF OrderAssumption, Idle
    <2>3. menu[Other(p)] \in Menus(Other(p))
      BY <1>2, Names DEF Menus
    <2> QED
      BY <2>1, <2>2, <2>3, MenusAre DEF ServerKeepsDishes
  <1>4. ASSUME NEW s \in Port PROVE ShopIsServed(s) /\ shop[s].queue = <<>> /\ shop[s].with = None
    <2>1. CASE s = Backup
      <3>1. shop[s] = Open(None, <<>>)
        BY <1>1, <2>1 DEF Closed
      <3> QED
        BY <3>1, EmptyQueue, EmptySeq DEF ShopIsServed, Open, Closed
    <2>2. CASE s \in Name
      <3>1. shop[s] = Open(s, menu[s]) /\ On(s) /\ NameOf(s) = s /\ s # Backup
        BY <1>1, <2>2, Names DEF NameOf, On, Process
      <3> QED
        BY <1>2, <2>2, <3>1, EmptyQueue DEF ShopIsServed, Open, Closed
    <2> QED
      BY <2>1, <2>2 DEF Port
  <1>5. ASSUME NEW c \in Customer PROVE ClientReads(c) /\ \A s \in Port : Agree(s, c)
    <2>1. customer[c] = NoCustomer /\ c # None
      BY <1>1, OrderAssumption DEF OrderAssumption
    <2>2. ClientReads(c)
      BY <2>1 DEF ClientReads, NoCustomer
    <2>3. ASSUME NEW s \in Port PROVE Agree(s, c)
      BY <1>4, <2>1, EmptyQueue DEF Agree
    <2> QED
      BY <2>2, <2>3
  <1>6. DOMAIN server = Name /\ DOMAIN wire = Name /\ DOMAIN shop = Port /\ DOMAIN customer = Customer
    BY <1>1
  <1> QED
    BY <1>3, <1>4, <1>5, <1>6 DEF DishesStay

LEMMA NextKeepsDishes == DishesStay /\ [Next]_vars => DishesStay'
  <1> SUFFICES ASSUME DishesStay, [Next]_vars PROVE DishesStay'
    OBVIOUS
  <1>1. ASSUME NEW p \in Name, Crash(p) PROVE DishesStay'
    BY <1>1, DieKeepsDishes DEF Crash
  <1>2. ASSUME NEW p \in Name, Console(p) \/ Sender(p) \/ Receiver(p) PROVE DishesStay'
    BY <1>2, ChangeKeepsDishes, ThreadsKeepDishes, SendMenuKeepsDishes DEF Console, Sender, Receiver
  <1>3. ASSUME NEW p \in Name, OpenBackup(p) PROVE DishesStay'
    BY <1>3, OpenBackupKeepsDishes
  <1>4. ASSUME NEW p \in Name, NEW s \in Port, Choose(p, s) PROVE DishesStay'
    BY <1>4, ThreadsKeepDishes
  <1>5. ASSUME NEW p \in Name, NEW c \in Customer, Visit(c, p) PROVE DishesStay'
    BY <1>5, VisitKeepsDishes
  <1>6. ASSUME NEW s \in Port, OrderThread(s) PROVE DishesStay'
    BY <1>6, AcceptKeepsDishes, ShowMenuKeepsDishes, TakeOrderKeepsDishes, CloseConnectionKeepsDishes
       DEF OrderThread
  <1>7. ASSUME NEW c \in Customer, Client(c) \/ Order(c) \/ Leave(c) PROVE DishesStay'
    BY <1>7, ReadMenuKeepsDishes, ReadPriceKeepsDishes, EndVisitKeepsDishes, GoOnKeepsDishes,
       OrderKeepsDishes, LeaveKeepsDishes DEF Client
  <1>8. CASE UNCHANGED vars
    BY <1>8, ServerSide, ServersStay DEF vars, On, DishesStay
  <1> QED
    BY <1>1, <1>2, <1>3, <1>4, <1>5, <1>6, <1>7, <1>8 DEF Next

\* A customer is only ever shown dishes of the server that was asked for, also
\* by the server that stands in for it.
THEOREM DishesStayApart == Spec => []CustomersSeeTheirDishes
  <1>1. DishesStay => CustomersSeeTheirDishes
    <2> SUFFICES ASSUME DishesStay, NEW c \in Customer, customer[c].shown # NoMenu,
                        NEW i \in DOMAIN customer[c].shown
                 PROVE  customer[c].shown[i].dish \in DishesOf[customer[c].asked]
      BY DEF CustomersSeeTheirDishes
    <2>1. ClientReads(c)
      BY DEF DishesStay
    <2>2. customer[c].shown # <<>>
      BY EmptySeq
    <2>3. customer[c].shown \in Seq(Foods(customer[c].asked))
      BY <2>1, <2>2 DEF ClientReads, Menus
    <2>4. customer[c].shown[i] \in Foods(customer[c].asked)
      BY <2>3, LenProperties, ElementOfSeq
    <2> QED
      BY <2>4 DEF Foods
  <1> QED
    BY <1>1, InitDishes, NextKeepsDishes, PTL DEF Spec

\* A client that waits for a menu is never sent a price, nor one that waits for
\* the price a menu, whatever customers leave halfway and whoever dies.
THEOREM MessagesInTurn == Spec => []MessagesComeInTurn
  <1>1. DishesStay => MessagesComeInTurn
    <2> SUFFICES ASSUME DishesStay, NEW c \in Customer, customer[c].inbox # <<>>
                 PROVE  Head(customer[c].inbox).kind = customer[c].stage
      BY DEF MessagesComeInTurn
    <2>1. ClientReads(c)
      BY DEF DishesStay
    <2>2. CASE customer[c].stage = "menu"
      BY <2>1, <2>2 DEF ClientReads, IsMenu, MenuMessages
    <2>3. CASE customer[c].stage = "price"
      <3>1. Head(customer[c].inbox) = Price
        BY <2>1, <2>3, Inboxes DEF ClientReads, IsPriceAndMenu
      <3> QED
        BY <2>3, <3>1 DEF Price
    <2> QED
      BY <2>1, <2>2, <2>3 DEF ClientReads
  <1> QED
    BY <1>1, InitDishes, NextKeepsDishes, PTL DEF Spec
=============================================================================
