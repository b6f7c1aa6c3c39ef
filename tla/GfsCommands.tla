---------------------------- MODULE GfsCommands ----------------------------
(***************************************************************************)
(* Commands for the instances of GeekGFS.                                  *)
(***************************************************************************)
P == <<"p">>
Q == <<"q">>
TwoPaths == {P, Q}

Cmd(op, path, data) == [op |-> op, path |-> path, data |-> data]
On(path, ops) == {Cmd(op, path, <<>>) : op \in ops}

\* Two files; writes of nothing, of less than a chunk of two bytes and of more,
\* of which a '|' cuts off the end, appends that spill.
MixedCommands ==
    On(P, {"create", "read", "write", "delete"}) \cup On(Q, {"create", "list"})
    \cup {Cmd("append", P, <<"a", "b", "a">>), Cmd("write", P, <<"b">>),
          Cmd("write", Q, <<"d", "d", "d", "|", "c">>)}

\* Writes that replace one whole chunk of three bytes, appends of one byte.
FittingCommands ==
    On(P, {"create", "delete", "read"}) \cup On(Q, {"create", "read"})
    \cup {Cmd("write", P, <<"a", "b", "a">>), Cmd("write", P, <<"b", "a", "b">>),
          Cmd("append", Q, <<"c">>)}

GrowingWrites == On(P, {"create"}) \cup {Cmd("write", P, <<"a", "b", "a">>)}
AppendsThenWrites ==
    On(P, {"create", "read"})
    \cup {Cmd("append", P, <<"a", "b", "a">>), Cmd("write", P, <<"b">>)}

BarredWrites == On(P, {"create"}) \cup {Cmd("write", P, <<"a", "|", "b">>)}

Bytes == {"a", "b", "c", "d", "p", "q", "|"}
AlphabetOf == [path \in TwoPaths |-> IF path = P THEN {"a", "b", "|"} ELSE {"c", "d", "|"}]
============================================================================
