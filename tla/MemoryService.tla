--------------------------- MODULE MemoryService ---------------------------
(***************************************************************************)
(* What malloc and free promise to the threads of a program, and so what   *)
(* MyMalloc and MyFree have to: "the prototypes are those of malloc and    *)
(* free" (heap-allocator/README.md:9).  Memory is a range of addresses.  A *)
(* block that is given out lies in it and overlaps no block that a caller  *)
(* still holds.                                                            *)
(***************************************************************************)
EXTENDS Integers

CONSTANTS Thread, Requests, MemorySize

VARIABLES
    live,      \* the blocks that callers hold
    calls      \* thread -> what it waits for

vars == <<live, calls>>

Nothing == [kind |-> "nothing", size |-> 0]

\* The addresses of a block; a block of no length has one of its own.
Extent(addr, size) == addr .. addr + (IF size > 1 THEN size ELSE 1) - 1

Overlap(b, c) == Extent(b.addr, b.size) \cap Extent(c.addr, c.size) # {}

Init == live = {} /\ calls = [t \in Thread |-> Nothing]

Malloc(t) ==
    /\ calls[t] = Nothing
    /\ \E r \in Requests :
         calls' = [calls EXCEPT ![t] = [kind |-> "malloc", size |-> r]]
    /\ UNCHANGED live

MallocReturns(t) ==
    /\ calls[t].kind = "malloc"
    /\ \E addr \in 0 .. MemorySize - 1 :
         LET b == [addr |-> addr, size |-> calls[t].size, by |-> t] IN
         /\ Extent(addr, b.size) \subseteq 0 .. MemorySize - 1
         /\ \A c \in live : ~Overlap(b, c)
         /\ live' = live \cup {b}
    /\ calls' = [calls EXCEPT ![t] = Nothing]

Free(t) ==
    /\ calls[t] = Nothing
    /\ \E b \in live : live' = live \ {b}
    /\ calls' = [calls EXCEPT ![t] = [kind |-> "free", size |-> 0]]

FreeReturns(t) ==
    /\ calls[t].kind = "free"
    /\ calls' = [calls EXCEPT ![t] = Nothing]
    /\ UNCHANGED live

Next == \E t \in Thread : Malloc(t) \/ MallocReturns(t) \/ Free(t) \/ FreeReturns(t)

Spec == Init /\ [][Next]_vars
=============================================================================
