---------------------------- MODULE OrderServers ----------------------------
(***************************************************************************)
(* The two ordering servers and their customers                            *)
(* (src/linux-advanced-programing/final/src).  A server is a process with   *)
(* five threads: the console of its operator (main_server.cpp), the thread  *)
(* that takes orders, the two that send the menu to the other server and    *)
(* receive the other's (worker.h), and the one that opens a shop under the  *)
(* other's name when the other is gone.  A shop is an object of class       *)
(* Server as customers meet it: a port, a menu and an order thread.         *)
(* Messages are small, and not cut in two by the stream; but several of     *)
(* them may be read at once.  A process that dies is not started again.     *)
(***************************************************************************)
EXTENDS Integers, SequencesExt

CONSTANTS
    Customer,
    DishesOf,       \* the dishes that each server offers; a dish has a price
    Stocks,         \* what an operator enters for a stock
    NoMenu,         \* bytes that are no menu: none, or read while they change
    None,           \* no customer, no process
    MaxChanges,     \* bound: operations at the consoles
    MaxOrders       \* bound: numbers that customers enter

Name == {"A", "B"}
Backup == "backup"          \* the port that a second shop opens on
Port == Name \cup {Backup}
Other(p) == IF p = "A" THEN "B" ELSE "A"

ASSUME OrderAssumption ==
    /\ Stocks \subseteq Nat
    /\ \A p \in Name : NoMenu \notin Seq([dish : DishesOf[p], stock : Int])
    /\ None \notin Customer \cup Name
    /\ MaxChanges \in Nat /\ MaxOrders \in Nat

VARIABLES
    server,     \* name -> what the threads of the process share, its files
    wire,       \* name -> menus on their way to the thread recvData of it
    shop,       \* port -> the shop open there
    customer,   \* customer -> the client process
    changes, orders

vars == <<server, wire, shop, customer, changes, orders>>

Foods(p) == [dish : DishesOf[p], stock : Int]
Food(p) == [dish : DishesOf[p], stock : Stocks]

\* The order thread waits for a customer, sends the menu, or waits for a number.
Open(host, foods) ==
    [host |-> host, foods |-> foods, queue |-> <<>>, with |-> None, stage |-> "accept"]
Closed == Open(None, <<>>)

NoCustomer ==
    [stage |-> "away", asked |-> None, port |-> None, shown |-> <<>>, inbox |-> <<>>, number |-> 0]

Idle == [stage |-> "idle", port |-> None, root |-> <<>>]

\* A process that has just started, with data.json and another-server.json.
Process(file, copy) ==
    [on |-> TRUE, flag |-> 0, flag2 |-> 0, text |-> NoMenu, link |-> "none", sending |-> FALSE,
     copy |-> copy, file |-> file, console |-> Idle]

\* Both servers have read their data.json, and each has the other's.
Init ==
    \E menu \in [Name -> UNION {{<<f>> : f \in Food(p)} : p \in Name}] :
        /\ \A p \in Name : menu[p] \in {<<f>> : f \in Food(p)}
        /\ server = [p \in Name |-> Process(menu[p], menu[Other(p)])]
        /\ wire = [p \in Name |-> <<>>]
        /\ shop = [s \in Port |-> IF s = Backup THEN Closed ELSE Open(s, menu[s])]
        /\ customer = [c \in Customer |-> NoCustomer]
        /\ changes = 0
        /\ orders = 0

On(p) == server[p].on

\* The name a shop has: its own, or that of the server it stands in for.
NameOf(s) == IF s = Backup THEN Other(shop[s].host) ELSE s

----------------------------------------------------------------------------
(* The process. *)

\* The process of p ends, and with it all its threads and connections.
Die(p) ==
    /\ server' = [server EXCEPT ![p] = [Process(NoMenu, NoMenu) EXCEPT !.on = FALSE, !.link = server[p].link]]
    /\ wire' = [wire EXCEPT ![p] = <<>>]
    /\ shop' = [s \in Port |-> IF shop[s].host = p THEN Closed ELSE shop[s]]
    /\ UNCHANGED <<customer, changes, orders>>

\* It is stopped; or a thread uses the menu while the console changes it; or a
\* customer who leaves in the middle of an order breaks the connection: then
\* send raises SIGPIPE, or recv returns -1 as a size_t, and stoi finds no number.
Crash(p) == On(p) /\ Die(p)

----------------------------------------------------------------------------
(* The console: an operation on the menu of a shop, then saveData. *)

ConsoleAt(p, stage) == On(p) /\ server[p].console.stage = stage
ConsoleGoes(p, stage) == server' = [server EXCEPT ![p].console.stage = stage]

Choose(p, s) ==
    /\ ConsoleAt(p, "idle")
    /\ changes < MaxChanges
    /\ shop[s].host = p
    /\ server' = [server EXCEPT ![p].console = [stage |-> "change", port |-> s, root |-> <<>>]]
    /\ changes' = changes + 1
    /\ UNCHANGED <<wire, shop, customer, orders>>

SetFoods(s, foods) == shop' = [shop EXCEPT ![s].foods = foods]

\* deleteFood, addFood, updateFood and show: the operator enters what is right.
Change(p) ==
    LET s == server[p].console.port
        foods == shop[s].foods
    IN  /\ ConsoleAt(p, "change")
        /\ \/ \E i \in DOMAIN foods : SetFoods(s, RemoveAt(foods, i))
           \/ \E f \in Food(NameOf(s)) : SetFoods(s, Append(foods, f))
           \/ \E i \in DOMAIN foods, f \in Food(NameOf(s)) : SetFoods(s, [foods EXCEPT ![i] = f])
           \/ UNCHANGED shop
        /\ ConsoleGoes(p, "save")
        /\ UNCHANGED <<wire, customer, changes, orders>>

\* The flag is set before the text is there.  The flag of a second shop is
\* read by nobody.
Announce(p) ==
    LET s == server[p].console.port
    IN  /\ ConsoleAt(p, "save")
        /\ server' = [server EXCEPT ![p].console.root = shop[s].foods,
                                    ![p].console.stage = "assign",
                                    ![p].flag = IF s = p THEN 1 ELSE @]
        /\ UNCHANGED <<wire, shop, customer, changes, orders>>

\* The text, then data.json, which both shops of a process write.
Assign(p) ==
    LET console == server[p].console
    IN  /\ ConsoleAt(p, "assign")
        /\ server' = [server EXCEPT ![p].text = IF console.port = p THEN console.root ELSE @,
                                    ![p].file = console.root,
                                    ![p].console = Idle]
        /\ UNCHANGED <<wire, shop, customer, changes, orders>>

----------------------------------------------------------------------------
(* The threads that keep the other server's copy. *)

Connect(p) ==
    /\ On(p) /\ On(Other(p))
    /\ server[p].link = "none"
    /\ server' = [server EXCEPT ![p].link = "open"]
    /\ UNCHANGED <<wire, shop, customer, changes, orders>>

TakeFlag(p) ==
    /\ On(p)
    /\ server[p].link # "none"
    /\ server[p].flag = 1
    /\ ~server[p].sending
    /\ server' = [server EXCEPT ![p].flag = 0, ![p].sending = TRUE]
    /\ UNCHANGED <<wire, shop, customer, changes, orders>>

\* The text may be read while the console assigns it.
Texts(p) ==
    {server[p].text} \cup
        IF server[p].console.stage = "assign" /\ server[p].console.port = p THEN {NoMenu} ELSE {}

\* The first menu for a process that is gone breaks the connection, the second
\* raises SIGPIPE.
SendMenu(p) ==
    /\ On(p) /\ server[p].sending
    /\ \/ /\ On(Other(p))
          /\ \E text \in Texts(p) : wire' = [wire EXCEPT ![Other(p)] = Append(@, text)]
          /\ server' = [server EXCEPT ![p].sending = FALSE]
          /\ UNCHANGED <<shop, customer, changes, orders>>
       \/ /\ ~On(Other(p)) /\ server[p].link = "open"
          /\ server' = [server EXCEPT ![p].sending = FALSE, ![p].link = "broken"]
          /\ UNCHANGED <<wire, shop, customer, changes, orders>>
       \/ /\ server[p].link = "broken"
          /\ Die(p)

\* recv returns all that has come; the file gets what is before the first NUL.
ReceiveMenu(p) ==
    /\ On(p)
    /\ \E n \in 1 .. Len(wire[p]) :
        /\ wire' = [wire EXCEPT ![p] = SubSeq(@, n + 1, Len(@))]
        /\ server' = [server EXCEPT ![p].copy = Head(wire[p])]
    /\ UNCHANGED <<shop, customer, changes, orders>>

\* (mutant) tests for len < 0: the end of the stream is taken for a menu
ReadOn(p) ==
    /\ On(p) /\ ~On(Other(p))
    /\ server[Other(p)].link # "none"
    /\ wire[p] = <<>>
    /\ server' = [server EXCEPT ![p].copy = NoMenu]
    /\ UNCHANGED <<wire, shop, customer, changes, orders>>

\* After the last byte, recv returns 0.
HangUp(p) ==
    /\ On(p) /\ ~On(Other(p))
    /\ server[Other(p)].link # "none"
    /\ wire[p] = <<>>
    /\ server[p].flag2 = 0
    /\ server' = [server EXCEPT ![p].flag2 = 1]
    /\ UNCHANGED <<wire, shop, customer, changes, orders>>

\* (mutant) the new Server reads data.json
OpenOwn(p) ==
    /\ On(p)
    /\ server[p].flag2 = 1
    /\ shop[Backup].host # p
    /\ shop' = [shop EXCEPT ![Backup] = Open(p, server[p].file)]
    /\ UNCHANGED <<server, wire, customer, changes, orders>>

\* The thread start.  What is no menu is parsed to none.
OpenBackup(p) ==
    /\ On(p)
    /\ server[p].flag2 = 1
    /\ shop[Backup].host # p
    /\ shop' = [shop EXCEPT ![Backup] =
                    Open(p, IF server[p].copy = NoMenu THEN <<>> ELSE server[p].copy)]
    /\ UNCHANGED <<server, wire, customer, changes, orders>>

----------------------------------------------------------------------------
(* The order thread of a shop. *)

IsOpen(s) == shop[s].host # None
ThreadAt(s, stage) == IsOpen(s) /\ shop[s].stage = stage
ToCustomer(c, message) == customer' = [customer EXCEPT ![c].inbox = Append(@, message)]

\* The menu that the order thread changes or reads is being changed.
InChange(s) ==
    LET console == server[shop[s].host].console
    IN  console.stage = "change" /\ console.port = s

Accept(s) ==
    /\ ThreadAt(s, "accept")
    /\ shop[s].queue # <<>>
    /\ shop' = [shop EXCEPT ![s].with = Head(shop[s].queue), ![s].queue = Tail(@),
                            ![s].stage = "menu"]
    /\ UNCHANGED <<server, wire, customer, changes, orders>>

\* An empty menu is a send of no bytes, which ends the connection.
ShowMenu(s) ==
    /\ ThreadAt(s, "menu")
    /\ customer[shop[s].with].stage # "gone"
    /\ \E menu \in {shop[s].foods} \cup IF InChange(s) THEN {NoMenu} ELSE {} :
        \/ /\ menu = <<>>
           /\ shop' = [shop EXCEPT ![s].with = None, ![s].stage = "accept"]
           /\ UNCHANGED customer
        \/ /\ menu # <<>>
           /\ shop' = [shop EXCEPT ![s].stage = "number"]
           /\ ToCustomer(shop[s].with, [kind |-> "menu", menu |-> menu])
    /\ UNCHANGED <<server, wire, changes, orders>>

Receives(c, message) ==
    [customer[c] EXCEPT !.number = 0,
                        !.inbox = IF customer[c].stage = "gone" THEN @ ELSE Append(@, message)]

\* (mutant) an order from an older menu is dropped, and the menu sent again
TakeOrderOnMenu(s) ==
    LET c == shop[s].with
        n == customer[c].number
    IN  /\ ThreadAt(s, "number")
        /\ n # 0
        /\ \/ /\ n \in DOMAIN shop[s].foods
              /\ shop' = [shop EXCEPT ![s].foods[n].stock = @ - 1, ![s].stage = "menu"]
              /\ customer' = [customer EXCEPT ![c] = Receives(c, [kind |-> "price"])]
           \/ /\ n \notin DOMAIN shop[s].foods
              /\ shop' = [shop EXCEPT ![s].stage = "menu"]
              /\ customer' = [customer EXCEPT ![c].number = 0]
        /\ UNCHANGED <<server, wire, changes, orders>>

\* The stock is counted down without a look at it, and the price sent.  The
\* number comes from an older menu: behind the end of the menu, it counts down
\* in memory that is no longer a food, or the process ends (Crash).  A number
\* that has been sent is taken, though the customer may have left since.
TakeOrder(s) ==
    LET c == shop[s].with
        foods == shop[s].foods
        n == customer[c].number
    IN  /\ ThreadAt(s, "number")
        /\ n # 0
        /\ \/ /\ n \in DOMAIN foods
              /\ shop' = [shop EXCEPT ![s].foods[n].stock = @ - 1, ![s].stage = "menu"]
           \/ /\ n \notin DOMAIN foods \/ InChange(s)
              /\ shop' = [shop EXCEPT ![s].stage = "menu"]
        /\ customer' = [customer EXCEPT ![c] = Receives(c, [kind |-> "price"])]
        /\ UNCHANGED <<server, wire, changes, orders>>

\* The customer is gone, and no number of theirs is left to read; the thread
\* turns to the next.
CloseConnection(s) ==
    /\ IsOpen(s) /\ shop[s].with # None
    /\ customer[shop[s].with].stage = "gone" /\ customer[shop[s].with].number = 0
    /\ shop' = [shop EXCEPT ![s].with = None, ![s].stage = "accept"]
    /\ customer' = [customer EXCEPT ![shop[s].with] = NoCustomer]
    /\ UNCHANGED <<server, wire, changes, orders>>

----------------------------------------------------------------------------
(* The client of a customer. *)

\* The server asked for, and if there is no connection to it, the backup.
Visit(c, p) ==
    /\ customer[c].stage = "away"
    /\ \E s \in IF On(p) THEN {p} ELSE IF IsOpen(Backup) THEN {Backup} ELSE {} :
        /\ customer' = [customer EXCEPT ![c].stage = "menu", ![c].asked = p, ![c].port = s]
        /\ shop' = [shop EXCEPT ![s].queue = Append(@, c)]
    /\ UNCHANGED <<server, wire, changes, orders>>

ReadMenu(c) ==
    /\ customer[c].stage = "menu"
    /\ customer[c].inbox # <<>>
    /\ customer' = [customer EXCEPT ![c].stage = "choose", ![c].inbox = <<>>,
                                    ![c].shown = Head(customer[c].inbox).menu]
    /\ UNCHANGED <<server, wire, shop, changes, orders>>

\* A customer enters the number of a dish that was shown.
Order(c) ==
    /\ customer[c].stage = "choose"
    /\ customer[c].shown # NoMenu
    /\ orders < MaxOrders
    /\ \E n \in DOMAIN customer[c].shown :
        customer' = [customer EXCEPT ![c].stage = "price", ![c].number = n, ![c].shown = <<>>]
    /\ orders' = orders + 1
    /\ UNCHANGED <<server, wire, shop, changes>>

\* recv may return the next menu together with the price: then the client
\* waits for a menu and the server for a number.
ReadPrice(c) ==
    /\ customer[c].stage = "price"
    /\ \E n \in 1 .. Len(customer[c].inbox) :
        customer' = [customer EXCEPT ![c].stage = "menu",
                                     ![c].inbox = SubSeq(@, n + 1, Len(@))]
    /\ UNCHANGED <<server, wire, shop, changes, orders>>

Disconnected(c) ==
    LET s == customer[c].port
    IN  shop[s].with # c /\ ~Contains(shop[s].queue, c)

\* What is left for a client to find is the end of its connection.
AtEnd(c) == Disconnected(c) /\ customer[c].inbox = <<>>

\* recv returns 0; or the client is stopped, and the server as well.
EndVisit(c) ==
    /\ customer[c].stage \in {"menu", "price", "gone"}
    /\ AtEnd(c)
    /\ customer' = [customer EXCEPT ![c] = NoCustomer]
    /\ UNCHANGED <<server, wire, shop, changes, orders>>

\* The server's end is reset where it left something unread: recv returns -1,
\* which is no size_t below 1, and the client takes for the menu, or for the
\* price, what its buffer holds.
GoOn(c) ==
    /\ \/ /\ customer[c].stage = "menu" /\ AtEnd(c)
          /\ customer' = [customer EXCEPT ![c].stage = "choose", ![c].shown = NoMenu]
       \/ /\ customer[c].stage = "price" /\ AtEnd(c)
          /\ customer' = [customer EXCEPT ![c].stage = "menu", ![c].number = 0]
    /\ UNCHANGED <<server, wire, shop, changes, orders>>

\* A customer stops the client: there is no other way to leave.  (Or enters
\* something where GoOn showed no menu: send raises SIGPIPE.)
Leave(c) ==
    LET s == customer[c].port
        InShop == shop[s].with = c
    IN  /\ customer[c].stage \in {"menu", "choose", "price"}
        /\ customer' = [customer EXCEPT ![c] =
                            IF InShop
                            THEN [NoCustomer EXCEPT !.stage = "gone", !.port = s,
                                                    !.number = customer[c].number]
                            ELSE NoCustomer]
        /\ \/ /\ ~Contains(shop[s].queue, c)
              /\ UNCHANGED shop
           \/ \E i \in DOMAIN shop[s].queue :
                /\ shop[s].queue[i] = c
                /\ shop' = [shop EXCEPT ![s].queue = RemoveAt(@, i)]
        /\ UNCHANGED <<server, wire, changes, orders>>

----------------------------------------------------------------------------
Console(p) == Change(p) \/ Announce(p) \/ Assign(p)
Sender(p) == Connect(p) \/ TakeFlag(p) \/ SendMenu(p)
Receiver(p) == ReceiveMenu(p) \/ HangUp(p)
OrderThread(s) == Accept(s) \/ ShowMenu(s) \/ TakeOrder(s) \/ CloseConnection(s)
Client(c) == ReadMenu(c) \/ ReadPrice(c) \/ EndVisit(c) \/ GoOn(c)

Next ==
    \/ \E p \in Name :
        \/ Crash(p) \/ Console(p) \/ Sender(p) \/ Receiver(p) \/ OpenBackup(p)
        \/ \E s \in Port : Choose(p, s)
        \/ \E c \in Customer : Visit(c, p)
    \/ \E s \in Port : OrderThread(s)
    \/ \E c \in Customer : Client(c) \/ Order(c) \/ Leave(c)

\* The threads recvData and start run on, whatever all others do.
Spec ==
    /\ Init /\ [][Next]_vars
    /\ \A p \in Name : WF_vars(Receiver(p)) /\ WF_vars(OpenBackup(p))

=============================================================================
