---------------------------- MODULE OrderDishes ----------------------------
(***************************************************************************)
(* Why a customer is only shown dishes of the server that was asked for:    *)
(* what the threads, the stream and the clients know of each other.         *)
(***************************************************************************)
EXTENDS OrderProperties

Menus(p) == Seq(Foods(p)) \cup {NoMenu}
MenuMessages(p) == [kind : {"menu"}, menu : Menus(p)]
Price == [kind |-> "price"]
IsMenu(p, inbox) == Len(inbox) = 1 /\ inbox = <<Head(inbox)>> /\ Head(inbox) \in MenuMessages(p)
IsPriceAndMenu(p, inbox) ==
    Len(inbox) = 2 /\ inbox = <<Price, inbox[2]>> /\ inbox[2] \in MenuMessages(p)

\* Each menu in a process, on the wire or on sale is one of its own server.
ServerKeepsDishes(p) ==
    /\ DOMAIN server[p] = DOMAIN Process(NoMenu, NoMenu) /\ DOMAIN server[p].console = DOMAIN Idle
    /\ server[p].text \in Menus(p)
    /\ server[p].copy \in Menus(Other(p))
    /\ server[p].console.port = p => server[p].console.root \in Seq(Foods(p))
    /\ wire[p] \in Seq(Menus(Other(p)))

\* A shop is open in a process that runs; who is connected is there but once.
ShopIsServed(s) ==
    /\ DOMAIN shop[s] = DOMAIN Closed
    /\ shop[s].host \in Name \cup {None}
    /\ shop[s].host # None => On(shop[s].host)
    /\ shop[s].foods \in Seq(Foods(NameOf(s)))
    /\ shop[s].with \in Customer \cup {None}
    /\ shop[s].queue \in Seq(Customer)
    /\ IsInjective(shop[s].queue)
    /\ ~Contains(shop[s].queue, shop[s].with)
    /\ shop[s].stage # "accept" => shop[s].with # None

\* What has come for a client is what it waits for.
ClientReads(c) ==
    LET me == customer[c]
    IN  /\ DOMAIN me = DOMAIN NoCustomer
        /\ me.stage # "away" => me.port \in Port
        /\ \/ /\ me.stage = "choose" /\ me.inbox = <<>> /\ me.number = 0
              /\ me.shown \in Menus(me.asked)
           \/ me.stage = "away" /\ me.inbox = <<>> /\ me.number = 0 /\ me.shown = <<>>
           \/ me.stage = "gone" /\ me.inbox = <<>> /\ me.shown = <<>>
           \/ /\ me.stage = "menu" /\ me.number = 0 /\ me.shown = <<>>
              /\ me.inbox = <<>> \/ IsMenu(me.asked, me.inbox)
           \/ /\ me.stage = "price" /\ me.shown = <<>>
              /\ \/ me.inbox = <<>>
                 \/ me.number = 0 /\ me.inbox = <<Price>>
                 \/ me.number = 0 /\ IsPriceAndMenu(me.asked, me.inbox)

\* The client waits for the first menu, or for the next one.
Waits(c, s) ==
    customer[c].port = s /\ customer[c].asked = NameOf(s)
        /\ customer[c].stage = "menu" /\ customer[c].inbox = <<>>

\* A thread and the client it serves agree on whose turn it is.
Agree(s, c) ==
    /\ Contains(shop[s].queue, c) => Waits(c, s)
    /\ shop[s].with = c =>
        /\ customer[c].port = s
        /\ \/ customer[c].stage = "gone"
           \/ customer[c].stage \in {"menu", "choose", "price"} /\ customer[c].asked = NameOf(s)
        /\ shop[s].stage = "menu" =>
            \/ customer[c].stage = "gone"
            \/ Waits(c, s)
            \/ customer[c].stage = "price" /\ customer[c].inbox = <<Price>>

\* The inductive invariant.
DishesStay ==
    /\ DOMAIN server = Name /\ DOMAIN wire = Name
    /\ DOMAIN shop = Port /\ DOMAIN customer = Customer
    /\ \A p \in Name : ServerKeepsDishes(p)
    /\ \A s \in Port : ShopIsServed(s)
    /\ \A c \in Customer : ClientReads(c) /\ \A s \in Port : Agree(s, c)

=============================================================================
