---------------------------- MODULE DashboardServer ----------------------------
(***************************************************************************)
(* The dashboard's server as a process: `dashboard start` becomes the      *)
(* server, and `dashboard stop` finds it by the process id in a file and   *)
(* by the port in another.  Neither file is removed when a server ends, a  *)
(* process id is used again, and the port is free to be taken.  A server   *)
(* listens where its host says, and both commands look at the loopback.    *)
(***************************************************************************)
EXTENDS Naturals, FiniteSets

CONSTANTS
    Pids,        \* process ids
    Ports,       \* ports that a start may be given
    DefaultPort, \* the one of the settings, which a stop falls back on
    Hosts,       \* hosts that a start may be given
    Interfaces,  \* the machine's network interfaces
    Loopback,    \* the one of 127.0.0.1
    Listens,     \* the interfaces that a server listens on for each host
    Stops,       \* stop commands under way at a time
    Overlap,     \* whether commands are given while others are under way
    Reuse        \* whether a process id may go to a process of another program

ASSUME PidsAssumption == Pids # {} /\ Pids \cap {"none", "empty"} = {}
AllPorts == Ports \cup {DefaultPort}
Sockets  == Interfaces \X AllPorts
ASSUME HostsAssumption == Loopback \in Interfaces /\ Listens \in [Hosts -> SUBSET Interfaces]
ASSUME PortsAssumption == "none" \notin AllPorts /\ Pids \cap {"free", "other"} = {}
ASSUME FlagsAssumption == Overlap \in BOOLEAN /\ Reuse \in BOOLEAN

VARIABLES
    proc,      \* what each process is
    want,      \* the port and the interfaces each was started with
    owner,     \* who listens on each port of each interface
    pidFile,   \* .saif/dashboard.pid
    stateFile, \* .saif/dashboard.json: its port
    term,      \* servers that were sent SIGTERM and have not yet reacted
    stop       \* each stop command: where it is, the process and port it read

files == <<pidFile, stateFile>>
procs == <<proc, want, owner, term>>
vars  == <<procs, files, stop>>

-------------------------------------------------------------------------------
Starting == {"checked", "opened", "named", "placing", "stated"}
Serving(p) == proc[p] = "serving"
Alive(p) == proc[p] # "none"

\* What a process is to listen on, and whether it can.
Idle == [port |-> DefaultPort, on |-> {}]
Addresses(p) == want[p].on \X {want[p].port}
CanBind(p) == \A a \in Addresses(p) : owner[a] = "free"

\* Somebody answers on the loopback, which is all that the commands ask.
Seen(q) == owner[<<Loopback, q>>] # "free"

\* No command is under way, or it does not matter.
Turn == Overlap \/ /\ \A p \in Pids : proc[p] \notin Starting
                   /\ \A c \in Stops : stop[c].at = "idle"

Left(p) == [a \in Sockets |-> IF owner[a] = p THEN "free" ELSE owner[a]]

\* Mutant: the port of a process that has ended stays taken.
EndsListening(p) ==
    /\ proc' = [proc EXCEPT ![p] = "none"]
    /\ want' = [want EXCEPT ![p] = Idle]
    /\ owner' = owner
    /\ term' = term \ {p}

Ends(p) ==
    /\ proc' = [proc EXCEPT ![p] = "none"]
    /\ want' = [want EXCEPT ![p] = Idle]
    /\ owner' = Left(p)
    /\ term' = term \ {p}

-------------------------------------------------------------------------------
(***************************************************************************)
(* dashboard start                                                         *)
(***************************************************************************)
\* Mutant: the port is not asked for.
StartUnchecked(p, h, q) ==
    /\ Turn
    /\ proc[p] = "none"
    /\ proc' = [proc EXCEPT ![p] = "checked"]
    /\ want' = [want EXCEPT ![p] = [port |-> q, on |-> Listens[h]]]
    /\ UNCHANGED <<owner, term, files, stop>>

\* An occupied port, or an address that is not allowed, ends the command with
\* nothing changed: whose port it is cannot be found out on this system, so a
\* dashboard that is already running is an error too.  The port is asked for on
\* the loopback whatever the host is.
Start(p, h, q) ==
    /\ Turn
    /\ proc[p] = "none"
    /\ ~Seen(q)
    /\ proc' = [proc EXCEPT ![p] = "checked"]
    /\ want' = [want EXCEPT ![p] = [port |-> q, on |-> Listens[h]]]
    /\ UNCHANGED <<owner, term, files, stop>>

\* The application is built, then the process is named: a file is emptied before
\* it is written.
OpenPid(p) ==
    /\ proc[p] = "checked"
    /\ proc' = [proc EXCEPT ![p] = "opened"]
    /\ pidFile' = "empty"
    /\ UNCHANGED <<want, owner, term, stateFile, stop>>

WritePid(p) ==
    /\ proc[p] = "opened"
    /\ proc' = [proc EXCEPT ![p] = "named"]
    /\ pidFile' = p
    /\ UNCHANGED <<want, owner, term, stateFile, stop>>

\* An empty state says as little as none.
OpenState(p) ==
    /\ proc[p] = "named"
    /\ proc' = [proc EXCEPT ![p] = "placing"]
    /\ stateFile' = "none"
    /\ UNCHANGED <<want, owner, term, pidFile, stop>>

\* Mutant: the port of the settings is written.
WriteSettings(p) ==
    /\ proc[p] = "placing"
    /\ proc' = [proc EXCEPT ![p] = "stated"]
    /\ stateFile' = DefaultPort
    /\ UNCHANGED <<want, owner, term, pidFile, stop>>

WriteState(p) ==
    /\ proc[p] = "placing"
    /\ proc' = [proc EXCEPT ![p] = "stated"]
    /\ stateFile' = want[p].port
    /\ UNCHANGED <<want, owner, term, pidFile, stop>>

\* uvicorn binds the port on the interfaces of its host ...
Bind(p) ==
    /\ proc[p] = "stated"
    /\ CanBind(p)
    /\ proc' = [proc EXCEPT ![p] = "serving"]
    /\ owner' = [a \in Sockets |-> IF a \in Addresses(p) THEN p ELSE owner[a]]
    /\ UNCHANGED <<want, term, files, stop>>

\* ... or exits, leaving the files as they are.
BindFails(p) ==
    /\ proc[p] = "stated"
    /\ ~CanBind(p)
    /\ Ends(p)
    /\ UNCHANGED <<files, stop>>

\* An exception, of building the application or of serving it: the error is
\* written into the state, which names the port.
Fails(p) ==
    /\ proc[p] \in Starting \cup {"serving"}
    /\ Ends(p)
    /\ stateFile' = want[p].port
    /\ UNCHANGED <<pidFile, stop>>

-------------------------------------------------------------------------------
(***************************************************************************)
(* The life of a server                                                    *)
(***************************************************************************)
\* A signalled server closes its port at once and ends when its last
\* connection does.
React(p) ==
    /\ p \in term
    /\ term' = term \ {p}
    /\ proc' = [proc EXCEPT ![p] = "closing"]
    /\ owner' = Left(p)
    /\ UNCHANGED <<want, files, stop>>

Closed(p) ==
    /\ proc[p] = "closing"
    /\ Ends(p)
    /\ UNCHANGED <<files, stop>>

\* Killed, interrupted, or gone with its machine.
Dies(p) ==
    /\ proc[p] \in Starting \cup {"serving", "closing"}
    /\ Ends(p)
    /\ UNCHANGED <<files, stop>>

\* Another program's process is given the process id; it ends some time.
ReuseId(p) ==
    /\ Reuse
    /\ proc[p] \in {"none", "other"}
    /\ proc' = [proc EXCEPT ![p] = IF @ = "none" THEN "other" ELSE "none"]
    /\ UNCHANGED <<want, owner, term, files, stop>>

\* Another program takes a port of an interface, or leaves it.
TakePort(a) ==
    /\ owner[a] \in {"free", "other"}
    /\ owner' = [owner EXCEPT ![a] = IF @ = "free" THEN "other" ELSE "free"]
    /\ UNCHANGED <<proc, want, term, files, stop>>

-------------------------------------------------------------------------------
(***************************************************************************)
(* dashboard stop                                                          *)
(***************************************************************************)
NoStop == [at |-> "idle", pid |-> "none", port |-> DefaultPort]

\* dashboard_status: no file says stopped, one without a process id unknown, a
\* process that is gone says stale, and a process that exists says running,
\* whichever it is.  Only the last two go on.
ReadStatus(c) ==
    /\ Turn
    /\ stop[c].at = "idle" /\ pidFile \in Pids
    /\ stop' = [stop EXCEPT ![c] =
           [at |-> IF Alive(pidFile) THEN "kill" ELSE "stale", pid |-> pidFile,
            port |-> IF stateFile = "none" THEN DefaultPort ELSE stateFile]]
    /\ UNCHANGED <<procs, files>>

\* Whatever the file names by now is forgotten.
RemoveStale(c) ==
    /\ stop[c].at = "stale"
    /\ pidFile' = "none"
    /\ stop' = [stop EXCEPT ![c] = NoStop]
    /\ UNCHANGED <<procs, stateFile>>

\* Mutant: the signal sent only asks whether the process is there.
KillAsks(c) ==
    /\ stop[c].at = "kill" /\ Alive(stop[c].pid)
    /\ stop' = [stop EXCEPT ![c].at = "wait"]
    /\ UNCHANGED <<procs, files>>

\* A server reacts to the signal in its own time, another process ends at
\* once; a server that is closing already goes on closing.
Kill(c) ==
    /\ stop[c].at = "kill" /\ Alive(stop[c].pid)
    /\ LET p == stop[c].pid
       IN CASE Serving(p) -> term' = term \cup {p} /\ UNCHANGED <<proc, want, owner>>
            [] proc[p] = "closing" -> UNCHANGED procs
            [] OTHER -> Ends(p)
    /\ stop' = [stop EXCEPT ![c].at = "wait"]
    /\ UNCHANGED files

\* The process has gone meanwhile: the exception ends the command.
KillFails(c) ==
    /\ stop[c].at = "kill" /\ ~Alive(stop[c].pid)
    /\ stop' = [stop EXCEPT ![c] = NoStop]
    /\ UNCHANGED <<procs, files>>

\* Nobody answers on the loopback: stopped.
Released(c) ==
    /\ stop[c].at = "wait" /\ ~Seen(stop[c].port)
    /\ pidFile' = "none"
    /\ stop' = [stop EXCEPT ![c] = NoStop]
    /\ UNCHANGED <<procs, stateFile>>

\* Ten seconds were not enough: still listening.
TimedOut(c) ==
    /\ stop[c].at = "wait" /\ Seen(stop[c].port)
    /\ stop' = [stop EXCEPT ![c] = NoStop]
    /\ UNCHANGED <<procs, files>>

-------------------------------------------------------------------------------
Init ==
    /\ proc = [p \in Pids |-> "none"]
    /\ want = [p \in Pids |-> Idle]
    /\ owner = [a \in Sockets |-> "free"]
    /\ pidFile = "none"
    /\ stateFile = "none"
    /\ term = {}
    /\ stop = [c \in Stops |-> NoStop]

Starts(p) ==
    OpenPid(p) \/ WritePid(p) \/ OpenState(p) \/ WriteState(p) \/ Bind(p) \/ BindFails(p)
StopStep(c) == RemoveStale(c) \/ Kill(c) \/ KillFails(c) \/ Released(c) \/ TimedOut(c)

Next ==
    \/ \E p \in Pids :
        \/ \E h \in Hosts, q \in Ports : Start(p, h, q)
        \/ Starts(p) \/ Fails(p) \/ React(p) \/ Closed(p) \/ Dies(p) \/ ReuseId(p)
    \/ \E a \in Sockets : TakePort(a)
    \/ \E c \in Stops : ReadStatus(c) \/ StopStep(c)

Spec == Init /\ [][Next]_vars

===============================================================================
