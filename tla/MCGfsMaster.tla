---------------------------- MODULE MCGfsMaster ----------------------------
(* GfsMasterRaces for TLC. *)
EXTENDS GfsMasterProperties, TLC

\* Two requests at a time work on p, one on q.
FileRequests == {"create", "read", "write", "append", "delete"}
OpsOf == [p |-> FileRequests, q |-> FileRequests \cup {"createChunk"}]
CreateAndWrite == [p |-> {"create", "write"}]

AnyHandler == Permutations(Handler)
============================================================================
