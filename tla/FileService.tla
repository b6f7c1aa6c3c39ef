---------------------------- MODULE FileService ----------------------------
(***************************************************************************)
(* What GeekGFS promises its users (src/geekGFS/README.md:7): a file is one *)
(* sequence of bytes, a command works on it at one moment between its start *)
(* and its end, once or, if it fails, perhaps.  A file comes into being in  *)
(* two steps, its name first.  A command on data whose file was not ready   *)
(* when it began, or was deleted since, may end without having worked: it   *)
(* is excused.                                                              *)
(***************************************************************************)
EXTENDS Sequences, Functions

CONSTANTS Client, Path, Command

VARIABLES
    file,       \* path -> its data, and whether it is ready for data
    req,        \* client -> the state of its command, the command, what it read
    worked,     \* client -> the command has worked
    excused     \* client -> the command may end without

fsVars == <<file, req, worked, excused>>

Data == {"write", "append", "read"}

FSInit ==
    /\ file = [p \in {} |-> <<>>]
    /\ \A c \in Client : req[c].state = "idle"
    /\ worked = [c \in Client |-> FALSE]
    /\ excused = [c \in Client |-> FALSE]

Ready(p) == p \in DOMAIN file /\ file[p].ready
Path_(c) == req[c].cmd.path
Under(c, op) == req[c].state # "idle" /\ req[c].cmd.op = op /\ ~worked[c]

Become(p, f) == file' = [q \in DOMAIN file \cup {p} |-> IF q = p THEN f ELSE file[q]]

\* The command of c works now.
Works(c) ==
    /\ worked' = [worked EXCEPT ![c] = TRUE]
    /\ \A d \in Client : d # c => req'[d] = req[d]
    /\ req'[c].state = req[c].state /\ req'[c].cmd = req[c].cmd

Begin(c) ==
    /\ req[c].state = "idle"
    /\ req'[c].state = "running" /\ req'[c].cmd \in Command
    /\ \A d \in Client : d # c => req'[d] = req[d]
    /\ excused' = [excused EXCEPT ![c] =
                        req'[c].cmd.op \in Data /\ ~Ready(req'[c].cmd.path)]
    /\ UNCHANGED <<file, worked>>

FSCreate(c) ==
    /\ Under(c, "create") /\ Works(c)
    /\ IF Path_(c) \in DOMAIN file THEN UNCHANGED file
       ELSE Become(Path_(c), [ready |-> FALSE, data |-> <<>>])
    /\ UNCHANGED excused

\* The first server of the first chunk has its file.
MakeReady(p) ==
    /\ p \in DOMAIN file /\ ~file[p].ready
    /\ Become(p, [ready |-> TRUE, data |-> file[p].data])
    /\ UNCHANGED <<worked, excused>>
    /\ \A c \in Client : req'[c] = req[c]

FSDelete(c) ==
    /\ Under(c, "delete") /\ Works(c)
    /\ file' = Restrict(file, DOMAIN file \ {Path_(c)})
    /\ excused' = [d \in Client |->
                    \/ excused[d]
                    \/ req[d].state # "idle" /\ req[d].cmd.op \in Data
                       /\ Path_(d) = Path_(c)]

FSWrite(c) ==
    /\ Under(c, "write") /\ Works(c) /\ Ready(Path_(c))
    /\ Become(Path_(c), [ready |-> TRUE, data |-> req[c].cmd.data])
    /\ UNCHANGED excused

FSAppend(c) ==
    /\ Under(c, "append") /\ Works(c) /\ Ready(Path_(c))
    /\ Become(Path_(c), [ready |-> TRUE, data |-> file[Path_(c)].data \o req[c].cmd.data])
    /\ UNCHANGED excused

FSRead(c) ==
    /\ Under(c, "read") /\ Works(c) /\ Ready(Path_(c))
    /\ req[c].state = "running" => req'[c].got = file[Path_(c)].data
    /\ UNCHANGED <<file, excused>>

FSList(c) == Under(c, "list") /\ Works(c) /\ UNCHANGED <<file, excused>>

\* An excused command leaves the files alone, whatever it may have read.
Excuse(c) == excused[c] /\ Works(c) /\ UNCHANGED <<file, excused>>

Fail(c) ==
    /\ req[c].state = "running"
    /\ req'[c].state = "gone" /\ req'[c].cmd = req[c].cmd
    /\ \A d \in Client : d # c => req'[d] = req[d]
    /\ UNCHANGED <<file, worked, excused>>

End(c) ==
    /\ req[c].state = "gone" \/ worked[c] \/ excused[c]
    /\ req'[c].state = "idle"
    /\ \A d \in Client : d # c => req'[d] = req[d]
    /\ worked' = [worked EXCEPT ![c] = FALSE]
    /\ excused' = [excused EXCEPT ![c] = FALSE]
    /\ UNCHANGED file

FSNext ==
    \/ \E c \in Client :
        \/ Begin(c) \/ FSCreate(c) \/ FSDelete(c) \/ FSWrite(c) \/ FSAppend(c)
        \/ FSRead(c) \/ FSList(c) \/ Excuse(c) \/ Fail(c) \/ End(c)
    \/ \E p \in Path : MakeReady(p)

FSSpec == FSInit /\ [][FSNext]_fsVars

============================================================================
