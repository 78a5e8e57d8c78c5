--------------------------- MODULE ServerProperties ---------------------------
(***************************************************************************)
(* What the files of the dashboard's server may be trusted for.            *)
(***************************************************************************)
EXTENDS DashboardServer

\* Every variable has its type; a port is a server's exactly while it serves
\* there, and only a server that serves is still to react to a signal
\* (dashboard.py: run_dashboard, stop_dashboard).
ServerTypeOK ==
    /\ proc \in [Pids -> Starting \cup {"none", "serving", "closing", "other"}]
    /\ want \in [Pids -> [port : AllPorts, on : SUBSET Interfaces]]
    /\ owner \in [Sockets -> Pids \cup {"free", "other"}]
    /\ \A p \in Pids, a \in Sockets : owner[a] = p <=> Serving(p) /\ a \in Addresses(p)
    /\ pidFile \in Pids \cup {"none", "empty"}
    /\ stateFile \in AllPorts \cup {"none"}
    /\ term \subseteq {p \in Pids : Serving(p)}
    /\ stop \in [Stops -> [at : {"idle", "stale", "kill", "wait"},
                           pid : Pids \cup {"none"}, port : AllPorts]]
    /\ \A c \in Stops : stop[c].at # "idle" => stop[c].pid \in Pids

\* A server whose host includes the loopback, where the commands look.
Reached(p) == Serving(p) /\ Loopback \in want[p].on

\* On one port, with one command at a time, the server that answers on the
\* loopback can be found: the files name it and its port, whatever hosts the
\* starts were given and whatever has crashed before, been refused or taken the
\* port between its check and its use (dashboard.py: run_dashboard writes the
\* files after the check, stop_dashboard removes one when the port is free).
ServedIsTracked ==
    \A p \in Pids :
        Reached(p) => pidFile = p /\ stateFile = want[p].port

\* Under the same conditions the program keeps the book of ServerBook: what is
\* written down only changes while nobody answers on the loopback, so that a
\* stop that says stopped leaves no such server behind (dashboard.py: the order
\* of the check, the two files and the binding; the port that
\* _wait_for_port_release watches).
Server ==
    IF \E p \in Pids : Reached(p)
    THEN LET p == CHOOSE o \in Pids : Reached(o) IN <<p, want[p].port>>
    ELSE <<"none", "none">>
Book == INSTANCE ServerBook
        WITH server <- Server, placed <- stateFile,
             named <- IF pidFile = "empty" THEN "none" ELSE pidFile
KeepsTheBook == Book!Spec

\* A process goes on: a started one gets to serve or ends, a signalled one
\* reacts, a stop command finishes.  Nothing is assumed of commands, crashes or
\* other programs.
FairSpec ==
    /\ Spec
    /\ \A p \in Pids : WF_vars(Starts(p)) /\ WF_vars(React(p)) /\ WF_vars(Closed(p))
    /\ \A c \in Stops : WF_vars(StopStep(c))

\* A stop that has found the server brings it to an end, even if the command
\* gives up waiting (dashboard.py: stop_dashboard; uvicorn).
StopTakesEffect ==
    \A c \in Stops, p \in Pids :
        (stop[c].at = "kill" /\ stop[c].pid = p /\ Serving(p)) ~> ~Serving(p)

\* Violated.  "Stop dashboard process started from this workspace." (cli.py:
\* dashboard_stop): what it signals is a dashboard.
StopsOnlyDashboards ==
    [][\A c \in Stops : Kill(c) => proc[stop[c].pid] # "other"]_vars

===============================================================================
