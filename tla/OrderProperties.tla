-------------------------- MODULE OrderProperties --------------------------
(***************************************************************************)
(* What must hold of the ordering servers and their customers.             *)
(***************************************************************************)
EXTENDS OrderServers

\* The other server of one that is gone, and had reached it, opens a shop under
\* its name (worker.h, recvData; main_server.cpp, start), unless it goes too.
FailureLeadsToTakeover ==
    \A p \in Name :
        (~On(p) /\ server[p].link # "none" /\ On(Other(p)))
            ~> (shop[Backup].host = Other(p) \/ ~On(Other(p)))

\* A customer is only ever shown dishes of the server that was asked for: also
\* on the backup port, after menus went over the stream, were read while they
\* changed, or ran together.
CustomersSeeTheirDishes ==
    \A c \in Customer :
        customer[c].shown # NoMenu =>
            \A i \in DOMAIN customer[c].shown :
                customer[c].shown[i].dish \in DishesOf[customer[c].asked]

\* Menus and prices come in turn: whatever customers leave halfway, however recv
\* takes them together and whoever dies, a client that waits for a menu is never
\* sent a price, nor one that waits for the price a menu.
MessagesComeInTurn ==
    \A c \in Customer :
        customer[c].inbox # <<>> => Head(customer[c].inbox).kind = customer[c].stage

\* "To synchronise the data between the two servers" (server.cpp:130): when
\* nothing is under way, each has the menu that the other has saved.
CopiesAgree ==
    \A p \in Name :
        LET q == Other(p)
        IN  On(p) /\ On(q) /\ server[p].link # "none" /\ server[p].console = Idle
                /\ server[p].flag = 0 /\ ~server[p].sending /\ wire[q] = <<>> =>
            server[q].copy = server[p].file

=============================================================================
