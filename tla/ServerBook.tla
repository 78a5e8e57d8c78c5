------------------------------ MODULE ServerBook ------------------------------
(***************************************************************************)
(* What the files of the dashboard's server promise of the server that can *)
(* be seen: there is at most one, it serves under the process id and on    *)
(* the port that are written down, and what is written down changes only   *)
(* while there is none.                                                    *)
(***************************************************************************)
CONSTANTS Pids, Ports

VARIABLES
    server, \* who serves and where, or none
    named,  \* the process id written down
    placed  \* the port written down

vars == <<server, named, placed>>

None == <<"none", "none">>

Init == server = None /\ named = "none" /\ placed = "none"

\* Changes of what is written down, which may be nothing.
Name(p)  == server = None /\ named' = p /\ UNCHANGED <<server, placed>>
Place(q) == server = None /\ placed' = q /\ UNCHANGED <<server, named>>

\* A server that is written down begins to serve; it may end at any time.
Serve ==
    /\ server = None /\ named \in Pids /\ placed \in Ports
    /\ server' = <<named, placed>>
    /\ UNCHANGED <<named, placed>>
End == server # None /\ server' = None /\ UNCHANGED <<named, placed>>

Next == \/ \E p \in Pids \cup {"none"} : Name(p)
        \/ \E q \in Ports \cup {"none"} : Place(q)
        \/ Serve \/ End

Spec == Init /\ [][Next]_vars

===============================================================================
