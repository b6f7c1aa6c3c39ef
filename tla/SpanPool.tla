------------------------------ MODULE SpanPool ------------------------------
(***************************************************************************)
(* What the page cache of heap-allocator promises its callers, without     *)
(* lists, mutexes or a radix tree: a span it lends has the length that was *)
(* asked for and shares no page with another lent span, and it lends only  *)
(* to who asks and as long as the span is not given back.                  *)
(***************************************************************************)
EXTENDS Integers

CONSTANTS Thread, NPages, PageNums, MaxLength

VARIABLES
    out,      \* the first pages of the lent spans -> their lengths
    asked     \* thread -> the length it waits for, 0: it waits for none

vars == <<out, asked>>

Page == 0 .. NPages - 1

PagesFrom(s, n) == s .. s + n - 1

Free == Page \ UNION {PagesFrom(s, out[s]) : s \in DOMAIN out}

Init == out = [s \in {} |-> 0] /\ asked = [t \in Thread |-> 0]

\* A request for a span that is too long is refused and leaves no trace.
Ask(t) ==
    /\ asked[t] = 0
    /\ \E n \in PageNums :
         n <= MaxLength /\ asked' = [asked EXCEPT ![t] = n]
    /\ UNCHANGED out

Lend(t) ==
    /\ asked[t] # 0
    /\ \E s \in Page :
         /\ PagesFrom(s, asked[t]) \subseteq Free
         /\ out' = [u \in DOMAIN out \cup {s} |-> IF u = s THEN asked[t] ELSE out[u]]
    /\ asked' = [asked EXCEPT ![t] = 0]

GiveBack ==
    /\ \E s \in DOMAIN out : out' = [u \in DOMAIN out \ {s} |-> out[u]]
    /\ UNCHANGED asked

Next == GiveBack \/ \E t \in Thread : Ask(t) \/ Lend(t)

Spec == Init /\ [][Next]_vars
=============================================================================
