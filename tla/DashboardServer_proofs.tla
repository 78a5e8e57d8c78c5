------------------------- MODULE DashboardServer_proofs -------------------------
(***************************************************************************)
(* That a server on the loopback can be found, for any process ids, any    *)
(* port, any hosts and any number of stop commands, when commands are      *)
(* given one at a time.                                                    *)
(***************************************************************************)
EXTENDS ServerProperties, TLAPS

\* One command at a time, all of them about one port.
OneAtATime == Overlap = FALSE /\ \E q : Ports = {q}

\* At most one command is under way.
OneCommand ==
    /\ \A p, o \in Pids : proc[p] \in Starting /\ proc[o] \in Starting => p = o
    /\ \A c, d \in Stops : stop[c].at # "idle" /\ stop[d].at # "idle" => c = d
    /\ \A p \in Pids, c \in Stops : proc[p] \in Starting => stop[c].at = "idle"

\* The port of a process is one that was given.
GivenPorts == \A p \in Pids : proc[p] \in Starting \cup {"serving"} => want[p].port \in Ports

\* While one is started nobody answers on the loopback, and what is written down is its own as
\* soon as it is written.
AloneAtStart ==
    \A p \in Pids : proc[p] \in Starting =>
        /\ \A o \in Pids : ~Reached(o)
        /\ proc[p] \in {"named", "placing", "stated"} => pidFile = p
        /\ proc[p] = "stated" => stateFile = want[p].port

\* A stop that found a stale file has no server to fear, and one that waits
\* watches the port of the server that answers if there is one.
StopsKnow ==
    \A c \in Stops :
        /\ stop[c].at = "stale" => \A p \in Pids : ~Reached(p)
        /\ stop[c].at \in {"kill", "wait"} =>
            \A p \in Pids : Reached(p) => stop[c].port = want[p].port

-------------------------------------------------------------------------------
(***************************************************************************)
(* Types                                                                   *)
(***************************************************************************)

\* Where a process listens is among the sockets there are.
LEMMA IdleIsTyped == Idle \in [port : AllPorts, on : SUBSET Interfaces]
  BY DEF Idle, AllPorts

\* Initially every variable has its type.
LEMMA TypesInit == Init => ServerTypeOK
<1> SUFFICES ASSUME Init PROVE ServerTypeOK
  OBVIOUS
<1>1. want \in [Pids -> [port : AllPorts, on : SUBSET Interfaces]]
  BY IdleIsTyped DEF Init
<1>2. \A p \in Pids, a \in Sockets : owner[a] = p <=> Serving(p) /\ a \in Addresses(p)
  BY PortsAssumption DEF Init, Serving
<1>3. stop \in [Stops -> [at : {"idle", "stale", "kill", "wait"},
                         pid : Pids \cup {"none"}, port : AllPorts]]
      /\ \A c \in Stops : stop[c].at = "idle"
  BY DEF Init, NoStop, AllPorts
<1> QED
  BY <1>1, <1>2, <1>3 DEF Init, ServerTypeOK

\* A process that ends, whatever it was, leaves every variable with its type.
LEMMA EndsTypes ==
  ASSUME ServerTypeOK, NEW p \in Pids, Ends(p)
  PROVE  /\ proc' \in [Pids -> Starting \cup {"none", "serving", "closing", "other"}]
         /\ want' \in [Pids -> [port : AllPorts, on : SUBSET Interfaces]]
         /\ owner' \in [Sockets -> Pids \cup {"free", "other"}]
         /\ \A o \in Pids, a \in Sockets :
                owner'[a] = o <=> proc'[o] = "serving" /\ a \in Addresses(o)'
         /\ term' \subseteq {o \in Pids : proc'[o] = "serving"}
<1>1. proc' \in [Pids -> Starting \cup {"none", "serving", "closing", "other"}]
  BY DEF ServerTypeOK, Ends
<1>2. want' \in [Pids -> [port : AllPorts, on : SUBSET Interfaces]]
  BY IdleIsTyped DEF ServerTypeOK, Ends
<1>3. owner' \in [Sockets -> Pids \cup {"free", "other"}]
  BY DEF ServerTypeOK, Ends, Left
<1>4. ASSUME NEW o \in Pids, NEW a \in Sockets
      PROVE  owner'[a] = o <=> proc'[o] = "serving" /\ a \in Addresses(o)'
  <2>1. owner'[a] = IF owner[a] = p THEN "free" ELSE owner[a]
    BY DEF Ends, Left
  <2>2. proc'[o] = IF o = p THEN "none" ELSE proc[o]
    BY DEF Ends, ServerTypeOK
  <2>3. o # p => Addresses(o)' = Addresses(o)
    BY DEF Ends, ServerTypeOK, Addresses
  <2>4. owner[a] = o <=> proc[o] = "serving" /\ a \in Addresses(o)
    BY DEF ServerTypeOK, Serving
  <2>5. o # "free"
    BY PortsAssumption
  <2> QED
    BY <2>1, <2>2, <2>3, <2>4, <2>5
<1>5. term' \subseteq {o \in Pids : proc'[o] = "serving"}
  BY DEF ServerTypeOK, Ends, Serving
<1> QED
  BY <1>1, <1>2, <1>3, <1>4, <1>5

\* A step of a process that does not serve, before or after it, and of no other.
LEMMA AsideTypes ==
  ASSUME ServerTypeOK, NEW p \in Pids, ~Serving(p),
         NEW w \in Starting \cup {"none", "closing", "other"},
         proc' = [proc EXCEPT ![p] = w],
         want' \in [Pids -> [port : AllPorts, on : SUBSET Interfaces]],
         \A o \in Pids : o # p => want'[o] = want[o],
         UNCHANGED <<owner, term, stop>>,
         pidFile' \in Pids \cup {"none", "empty"}, stateFile' \in AllPorts \cup {"none"}
  PROVE  ServerTypeOK'
<1>1. proc' \in [Pids -> Starting \cup {"none", "serving", "closing", "other"}]
  BY DEF ServerTypeOK
<1>2. \A o \in Pids : Serving(o)' <=> Serving(o)
  BY DEF Serving, ServerTypeOK, Starting
<1>3. \A o \in Pids : Serving(o) => Addresses(o)' = Addresses(o)
  BY DEF Addresses
<1>4. \A o \in Pids, a \in Sockets : owner'[a] = o <=> Serving(o)' /\ a \in Addresses(o)'
  BY <1>2, <1>3 DEF ServerTypeOK
<1>5. term' \subseteq {o \in Pids : Serving(o)'}
  BY <1>2 DEF ServerTypeOK
<1> QED
  BY <1>1, <1>4, <1>5 DEF ServerTypeOK

\* Every step keeps the types.
LEMMA TypesNext == ServerTypeOK /\ [Next]_vars => ServerTypeOK'
<1> SUFFICES ASSUME ServerTypeOK, [Next]_vars PROVE ServerTypeOK'
  OBVIOUS
<1> USE DEF Starting
<1>1. ASSUME NEW p \in Pids, NEW h \in Hosts, NEW q \in Ports, Start(p, h, q)
      PROVE  ServerTypeOK'
  <2> DEFINE r == [port |-> q, on |-> Listens[h]]
  <2>1. r \in [port : AllPorts, on : SUBSET Interfaces]
    BY HostsAssumption DEF AllPorts
  <2>2. want' = [want EXCEPT ![p] = r]
    BY <1>1 DEF Start
  <2> HIDE DEF r
  <2>3. want' \in [Pids -> [port : AllPorts, on : SUBSET Interfaces]]
        /\ \A o \in Pids : o # p => want'[o] = want[o]
    BY <2>1, <2>2 DEF ServerTypeOK
  <2>4. ~Serving(p) /\ proc' = [proc EXCEPT ![p] = "checked"]
    BY <1>1 DEF Start, Serving
  <2>5. UNCHANGED <<owner, term, stop, pidFile, stateFile>>
    BY <1>1 DEF Start, files
  <2>6. pidFile' \in Pids \cup {"none", "empty"} /\ stateFile' \in AllPorts \cup {"none"}
    BY <2>5 DEF ServerTypeOK
  <2> QED
    BY <2>3, <2>4, <2>5, <2>6, AsideTypes
<1>2. ASSUME NEW p \in Pids, OpenPid(p) \/ WritePid(p) PROVE ServerTypeOK'
  <2>1. PICK w \in {"opened", "named"} : proc' = [proc EXCEPT ![p] = w]
    BY <1>2 DEF OpenPid, WritePid
  <2>2. ~Serving(p) /\ UNCHANGED <<want, owner, term, stop, stateFile>>
    BY <1>2 DEF OpenPid, WritePid, Serving
  <2>3. pidFile' \in Pids \cup {"none", "empty"}
    BY <1>2 DEF OpenPid, WritePid
  <2> QED
    BY <2>1, <2>2, <2>3, AsideTypes DEF ServerTypeOK
<1>3. ASSUME NEW p \in Pids, OpenState(p) \/ WriteState(p) PROVE ServerTypeOK'
  <2>1. PICK w \in {"placing", "stated"} : proc' = [proc EXCEPT ![p] = w]
    BY <1>3 DEF OpenState, WriteState
  <2>2. ~Serving(p) /\ UNCHANGED <<want, owner, term, stop, pidFile>>
    BY <1>3 DEF OpenState, WriteState, Serving
  <2>3. stateFile' \in AllPorts \cup {"none"}
    BY <1>3 DEF OpenState, WriteState, ServerTypeOK
  <2> QED
    BY <2>1, <2>2, <2>3, AsideTypes DEF ServerTypeOK
<1>4. ASSUME NEW p \in Pids, Bind(p) PROVE ServerTypeOK'
  <2>1. /\ \A o \in Pids : proc'[o] = IF o = p THEN "serving" ELSE proc[o]
        /\ proc' \in [Pids -> Starting \cup {"none", "serving", "closing", "other"}]
        /\ proc[p] = "stated" /\ UNCHANGED <<want, term, files, stop>>
    BY <1>4 DEF Bind, ServerTypeOK
  <2>2. owner' = [a \in Sockets |-> IF a \in Addresses(p) THEN p ELSE owner[a]]
    BY <1>4 DEF Bind
  <2>3. owner' \in [Sockets -> Pids \cup {"free", "other"}]
    BY <2>2 DEF ServerTypeOK
  <2>4. ASSUME NEW o \in Pids, NEW a \in Sockets
        PROVE  owner'[a] = o <=> Serving(o)' /\ a \in Addresses(o)'
    <3>1. Addresses(o)' = Addresses(o)
      BY <2>1 DEF Addresses
    <3>2. owner'[a] = IF a \in Addresses(p) THEN p ELSE owner[a]
      BY <2>2
    <3>3. a \in Addresses(p) => owner[a] # o
      BY <1>4, PortsAssumption DEF Bind, CanBind
    <3>4. owner[a] = o <=> Serving(o) /\ a \in Addresses(o)
      BY DEF ServerTypeOK
    <3>5. Serving(o)' <=> o = p \/ Serving(o)
      BY <2>1 DEF Serving
    <3>6. ~Serving(p)
      BY <2>1 DEF Serving
    <3> QED
      BY <3>1, <3>2, <3>3, <3>4, <3>5, <3>6
  <2>5. term' \subseteq {o \in Pids : Serving(o)'}
    BY <2>1 DEF ServerTypeOK, Serving
  <2> QED
    BY <2>1, <2>3, <2>4, <2>5 DEF ServerTypeOK, files
<1>5. ASSUME NEW p \in Pids, BindFails(p) \/ Dies(p) PROVE ServerTypeOK'
  BY <1>5, EndsTypes DEF BindFails, Dies, ServerTypeOK, Serving, files
<1>6. ASSUME NEW p \in Pids, Fails(p) PROVE ServerTypeOK'
  <2>1. want[p].port \in AllPorts
    BY DEF ServerTypeOK
  <2> QED
    BY <1>6, <2>1, EndsTypes DEF Fails, ServerTypeOK, Serving
<1>7. ASSUME NEW p \in Pids, React(p) PROVE ServerTypeOK'
  <2>1. /\ \A o \in Pids : proc'[o] = IF o = p THEN "closing" ELSE proc[o]
        /\ proc' \in [Pids -> Starting \cup {"none", "serving", "closing", "other"}]
        /\ UNCHANGED <<want, files, stop>> /\ owner' = Left(p) /\ term' = term \ {p}
    BY <1>7 DEF React, ServerTypeOK
  <2>2. owner' \in [Sockets -> Pids \cup {"free", "other"}]
    BY <2>1 DEF ServerTypeOK, Left
  <2>3. ASSUME NEW o \in Pids, NEW a \in Sockets
        PROVE  owner'[a] = o <=> Serving(o)' /\ a \in Addresses(o)'
    <3>1. Addresses(o)' = Addresses(o)
      BY <2>1 DEF Addresses
    <3>2. owner'[a] = IF owner[a] = p THEN "free" ELSE owner[a]
      BY <2>1 DEF Left
    <3>3. owner[a] = o <=> Serving(o) /\ a \in Addresses(o)
      BY DEF ServerTypeOK
    <3>4. Serving(o)' <=> o # p /\ Serving(o)
      BY <2>1 DEF Serving
    <3>5. o # "free"
      BY PortsAssumption
    <3> QED
      BY <3>1, <3>2, <3>3, <3>4, <3>5
  <2>4. term' \subseteq {o \in Pids : Serving(o)'}
    BY <2>1 DEF ServerTypeOK, Serving
  <2> QED
    BY <2>1, <2>2, <2>3, <2>4 DEF ServerTypeOK, files
<1>8. ASSUME NEW p \in Pids, Closed(p) PROVE ServerTypeOK'
  BY <1>8, EndsTypes DEF Closed, ServerTypeOK, Serving, files
<1>9. ASSUME NEW p \in Pids, ReuseId(p) PROVE ServerTypeOK'
  <2>1. PICK w \in {"other", "none"} : proc' = [proc EXCEPT ![p] = w]
    BY <1>9 DEF ReuseId
  <2>2. ~Serving(p) /\ UNCHANGED <<want, owner, term, stop, pidFile, stateFile>>
    BY <1>9 DEF ReuseId, Serving, files
  <2> QED
    BY <2>1, <2>2, AsideTypes DEF ServerTypeOK
<1>10. ASSUME NEW a \in Sockets, TakePort(a) PROVE ServerTypeOK'
  <2>1. /\ owner' \in [Sockets -> Pids \cup {"free", "other"}]
        /\ \A b \in Sockets, o \in Pids : owner'[b] = o <=> owner[b] = o
    BY <1>10, PortsAssumption DEF TakePort, ServerTypeOK
  <2> QED
    BY <1>10, <2>1 DEF TakePort, ServerTypeOK, Serving, Addresses, files
<1>11. ASSUME NEW c \in Stops, ReadStatus(c) PROVE ServerTypeOK'
  <2> DEFINE r == [at |-> IF Alive(pidFile) THEN "kill" ELSE "stale", pid |-> pidFile,
                   port |-> IF stateFile = "none" THEN DefaultPort ELSE stateFile]
  <2>1. r \in [at : {"idle", "stale", "kill", "wait"}, pid : Pids \cup {"none"}, port : AllPorts]
        /\ r.pid \in Pids
    BY <1>11 DEF ReadStatus, ServerTypeOK, AllPorts
  <2>2. stop' = [stop EXCEPT ![c] = r] /\ UNCHANGED <<procs, files>>
    BY <1>11 DEF ReadStatus
  <2> HIDE DEF r
  <2>3. /\ stop' \in [Stops -> [at : {"idle", "stale", "kill", "wait"},
                                 pid : Pids \cup {"none"}, port : AllPorts]]
        /\ \A d \in Stops : stop'[d].at # "idle" => stop'[d].pid \in Pids
    BY <2>1, <2>2 DEF ServerTypeOK
  <2> QED
    BY <2>2, <2>3 DEF ServerTypeOK, Serving, Addresses, procs, files
<1>12. ASSUME NEW c \in Stops, Kill(c) PROVE ServerTypeOK'
  <2> DEFINE p == stop[c].pid
  <2>1. p \in Pids
    BY <1>12, PidsAssumption DEF Kill, Alive, ServerTypeOK
  <2>2. /\ stop' \in [Stops -> [at : {"idle", "stale", "kill", "wait"},
                                 pid : Pids \cup {"none"}, port : AllPorts]]
        /\ \A d \in Stops : stop'[d].at # "idle" => stop'[d].pid \in Pids
        /\ UNCHANGED <<pidFile, stateFile>>
    BY <1>12 DEF Kill, ServerTypeOK, files
  <2>3. CASE Serving(p)
    BY <1>12, <2>1, <2>2, <2>3 DEF Kill, ServerTypeOK, Serving, Addresses, files
  <2>4. CASE proc[p] = "closing"
    BY <1>12, <2>2, <2>4 DEF Kill, ServerTypeOK, Serving, Addresses, procs, files
  <2>5. CASE ~Serving(p) /\ proc[p] # "closing"
    <3>1. Ends(p)
      BY <1>12, <2>5 DEF Kill
    <3> QED BY <2>1, <2>2, <3>1, EndsTypes DEF ServerTypeOK, Serving
  <2> QED BY <2>3, <2>4, <2>5
<1>13. ASSUME NEW c \in Stops, RemoveStale(c) \/ KillFails(c) \/ Released(c) \/ TimedOut(c)
       PROVE ServerTypeOK'
  <2>1. stop' = [stop EXCEPT ![c] = NoStop] /\ UNCHANGED <<procs, stateFile>>
        /\ pidFile' \in {pidFile, "none"}
    BY <1>13 DEF RemoveStale, KillFails, Released, TimedOut, files
  <2>2. /\ stop' \in [Stops -> [at : {"idle", "stale", "kill", "wait"},
                                 pid : Pids \cup {"none"}, port : AllPorts]]
        /\ \A d \in Stops : stop'[d].at # "idle" => stop'[d].pid \in Pids
    BY <2>1 DEF ServerTypeOK, NoStop, AllPorts
  <2> QED
    BY <2>1, <2>2 DEF ServerTypeOK, Serving, Addresses, procs
<1>14. CASE UNCHANGED vars
  BY <1>14 DEF vars, procs, files, ServerTypeOK, Serving, Addresses
<1> QED
  BY <1>1, <1>2, <1>3, <1>4, <1>5, <1>6, <1>7, <1>8, <1>9, <1>10, <1>11, <1>12, <1>13, <1>14
  DEF Next, Starts, StopStep

\* The variables have their types, and a port is a server's exactly while it
\* serves there (dashboard.py).
THEOREM Types == Spec => []ServerTypeOK
<1>1. Init => ServerTypeOK
  BY TypesInit
<1>2. ServerTypeOK /\ [Next]_vars => ServerTypeOK'
  BY TypesNext
<1> QED BY <1>1, <1>2, PTL DEF Spec

-------------------------------------------------------------------------------
(***************************************************************************)
(* The invariant                                                           *)
(***************************************************************************)
Inv == OneCommand /\ GivenPorts /\ AloneAtStart /\ ServedIsTracked /\ StopsKnow

\* What changes when a process ends: fewer are being started or serve, on the
\* ports they had.
LEMMA EndsLess ==
  ASSUME ServerTypeOK, NEW p \in Pids, Ends(p), NEW o \in Pids
  PROVE  /\ proc'[o] \in Starting \cup {"serving"} =>
              o # p /\ proc'[o] = proc[o] /\ want'[o] = want[o]
  BY DEF Ends, ServerTypeOK, Starting

\* A process that has been what it is answers where it has answered.
LEMMA StillReached ==
  ASSUME \A o \in Pids : proc'[o] \in Starting \cup {"serving"} =>
             proc'[o] = proc[o] /\ want'[o] = want[o]
  PROVE  \A o \in Pids : /\ proc'[o] \in Starting => proc[o] \in Starting /\ proc'[o] = proc[o]
                         /\ Reached(o)' => Reached(o) /\ want'[o] = want[o]
  BY DEF Reached, Serving, Starting

\* A step in which processes only end and stop commands only go back to idle,
\* the files unchanged, keeps the invariant.
LEMMA LessKeepsInv ==
  ASSUME ServerTypeOK, Inv,
         \A o \in Pids : proc'[o] \in Starting \cup {"serving"} =>
             proc'[o] = proc[o] /\ want'[o] = want[o],
         UNCHANGED <<pidFile, stateFile>>,
         \A c \in Stops : stop'[c].at # "idle" => stop'[c] = stop[c]
  PROVE  Inv'
<1>1. \A o \in Pids : (proc'[o] \in Starting => proc[o] \in Starting /\ proc'[o] = proc[o])
                    /\ (Reached(o)' => Reached(o) /\ want'[o] = want[o])
  BY StillReached
<1>2. OneCommand'
  BY <1>1 DEF Inv, OneCommand
<1>3. GivenPorts'
  BY DEF Inv, GivenPorts
<1>4. AloneAtStart'
  BY <1>1 DEF Inv, AloneAtStart, Starting
<1>5. ServedIsTracked'
  BY <1>1 DEF Inv, ServedIsTracked
<1>6. StopsKnow'
  BY <1>1 DEF Inv, StopsKnow
<1> QED BY <1>2, <1>3, <1>4, <1>5, <1>6 DEF Inv

\* Initially nothing is under way and nobody serves.
LEMMA InvInit == Init => Inv
  BY DEF Init, Inv, OneCommand, GivenPorts, AloneAtStart, ServedIsTracked, StopsKnow,
         NoStop, Serving, Reached, Starting

\* Where nobody is seen nobody answers.
LEMMA UnseenIsUnreached ==
  ASSUME ServerTypeOK, NEW p \in Pids, ~Seen(want[p].port)
  PROVE  ~Reached(p)
<1> SUFFICES ASSUME Reached(p) PROVE FALSE
  OBVIOUS
<1> DEFINE a == <<Loopback, want[p].port>>
<1>1. a \in Addresses(p)
  BY DEF Addresses, Reached
<1>2. want[p].port \in AllPorts
  BY DEF ServerTypeOK
<1>3. a \in Sockets
  BY <1>2, HostsAssumption DEF Sockets
<1>4. owner[a] = "free"
  BY DEF Seen
<1> HIDE DEF a
<1>5. owner[a] = p
  BY <1>1, <1>3 DEF ServerTypeOK, Reached
<1> QED BY <1>4, <1>5, PortsAssumption

\* When a stop removes the file, nobody answers.
LEMMA NobodyAtRelease ==
  ASSUME ServerTypeOK, Inv, NEW c \in Stops, RemoveStale(c) \/ Released(c), NEW p \in Pids
  PROVE  ~Reached(p)
<1>1. CASE RemoveStale(c)
  BY <1>1 DEF RemoveStale, Inv, StopsKnow
<1>2. CASE Released(c)
  <2> SUFFICES ASSUME Reached(p) PROVE FALSE
    OBVIOUS
  <2>1. stop[c].port = want[p].port
    BY <1>2 DEF Released, Inv, StopsKnow
  <2> QED BY <1>2, <2>1, UnseenIsUnreached DEF Released
<1> QED BY <1>1, <1>2

\* One of the steps in which a command of start goes on without being at its end
\* leaves everybody else alone.
LEMMA StartGoesOn ==
  ASSUME ServerTypeOK, Inv, NEW p \in Pids, proc[p] \in Starting, NEW w \in Starting,
         proc' = [proc EXCEPT ![p] = w], UNCHANGED <<want, stop>>,
         w \in {"named", "placing", "stated"} => pidFile' = p,
         w = "stated" => stateFile' = want[p].port
  PROVE  /\ Inv' /\ \A o \in Pids : ~Reached(o) /\ ~Reached(o)'
<1>1. \A o \in Pids : proc'[o] = IF o = p THEN w ELSE proc[o]
  BY DEF ServerTypeOK
<1>2. /\ \A o \in Pids : ~Reached(o) /\ ~Reached(o)'
      /\ \A o \in Pids : proc[o] \in Starting => o = p
  BY <1>1 DEF Inv, AloneAtStart, OneCommand, Starting, Reached, Serving
<1>3. \A o \in Pids : proc'[o] \in Starting => o = p
  BY <1>1, <1>2
<1>4. OneCommand'
  BY <1>2, <1>3 DEF Inv, OneCommand
<1>5. GivenPorts'
  BY <1>1 DEF Inv, GivenPorts
<1>6. AloneAtStart'
  BY <1>1, <1>2, <1>3 DEF AloneAtStart
<1>7. ServedIsTracked' /\ StopsKnow'
  BY <1>2 DEF Inv, ServedIsTracked, StopsKnow
<1> QED BY <1>2, <1>4, <1>5, <1>6, <1>7 DEF Inv

\* Every step keeps the invariant.
LEMMA InvNext ==
  ASSUME OneAtATime, ServerTypeOK, Inv, [Next]_vars
  PROVE  Inv'
<1>1. ASSUME NEW p \in Pids, NEW h \in Hosts, NEW q \in Ports, Start(p, h, q) PROVE Inv'
  <2>1. /\ \A o \in Pids : proc[o] \notin Starting
        /\ \A c \in Stops : stop[c].at = "idle"
    BY <1>1 DEF Start, Turn, OneAtATime
  <2>2. \A o \in Pids : ~Reached(o)
    <3> SUFFICES ASSUME NEW o \in Pids, Reached(o) PROVE FALSE
      OBVIOUS
    <3>1. want[o].port = q
      BY DEF Inv, GivenPorts, Reached, Serving, OneAtATime
    <3> QED BY <1>1, <3>1, UnseenIsUnreached DEF Start
  <2>3. /\ \A o \in Pids : proc'[o] = IF o = p THEN "checked" ELSE proc[o]
        /\ \A o \in Pids : o # p => want'[o] = want[o]
        /\ want'[p].port = q
    BY <1>1 DEF Start, ServerTypeOK
  <2>4. UNCHANGED <<pidFile, stateFile, stop>>
    BY <1>1 DEF Start, files
  <2>5. \A o \in Pids : ~Reached(o)'
    BY <2>2, <2>3 DEF Reached, Serving
  <2>6. \A o \in Pids : proc'[o] \in Starting => o = p
    BY <2>1, <2>3
  <2>7. OneCommand'
    BY <2>1, <2>4, <2>6 DEF OneCommand
  <2>8. GivenPorts'
    BY <2>3 DEF Inv, GivenPorts, Starting
  <2>9. StopsKnow' /\ ServedIsTracked'
    BY <2>5 DEF Inv, StopsKnow, ServedIsTracked
  <2>10. AloneAtStart'
    BY <2>3, <2>5, <2>6 DEF AloneAtStart
  <2> QED BY <2>7, <2>8, <2>9, <2>10 DEF Inv
<1>2. ASSUME NEW p \in Pids, OpenPid(p) PROVE Inv'
  BY <1>2, StartGoesOn DEF OpenPid, Starting
<1>3. ASSUME NEW p \in Pids, WritePid(p) PROVE Inv'
  BY <1>3, StartGoesOn DEF WritePid, Starting
<1>4. ASSUME NEW p \in Pids, OpenState(p) \/ WriteState(p) PROVE Inv'
  <2>1. pidFile' = p
    BY <1>4 DEF OpenState, WriteState, Inv, AloneAtStart, Starting
  <2> QED BY <1>4, <2>1, StartGoesOn DEF OpenState, WriteState, Starting
<1>5. ASSUME NEW p \in Pids, Bind(p) PROVE Inv'
  <2>1. /\ \A o \in Pids : proc'[o] = IF o = p THEN "serving" ELSE proc[o]
        /\ proc[p] = "stated"
        /\ UNCHANGED <<want, files, stop>>
    BY <1>5 DEF Bind, ServerTypeOK
  <2>2. /\ \A o \in Pids : Reached(o)' => o = p
        /\ \A o \in Pids : proc'[o] \notin Starting
        /\ pidFile = p /\ stateFile = want[p].port
        /\ \A c \in Stops : stop[c].at = "idle"
    BY <2>1 DEF Inv, AloneAtStart, OneCommand, Starting, Reached, Serving
  <2>3. OneCommand' /\ AloneAtStart'
    BY <2>1, <2>2 DEF OneCommand, AloneAtStart
  <2>4. GivenPorts'
    BY <2>1 DEF Inv, GivenPorts, Starting
  <2>5. ServedIsTracked' /\ StopsKnow'
    BY <2>1, <2>2 DEF ServedIsTracked, StopsKnow, files
  <2> QED BY <2>3, <2>4, <2>5 DEF Inv
<1>6. ASSUME NEW p \in Pids, BindFails(p) \/ Dies(p) \/ Closed(p) PROVE Inv'
  <2>1. Ends(p) /\ UNCHANGED <<pidFile, stateFile, stop>>
    BY <1>6 DEF BindFails, Dies, Closed, files
  <2> QED BY <2>1, EndsLess, LessKeepsInv
<1>7. ASSUME NEW p \in Pids, Fails(p) PROVE Inv'
  <2>1. Ends(p) /\ stateFile' = want[p].port /\ UNCHANGED <<pidFile, stop>>
        /\ proc[p] \in Starting \cup {"serving"}
    BY <1>7 DEF Fails
  <2>2. \A o \in Pids : proc'[o] \in Starting \cup {"serving"} =>
            proc'[o] = proc[o] /\ want'[o] = want[o]
    BY <2>1, EndsLess
  <2>3. \A o \in Pids : (proc'[o] \in Starting => proc[o] \in Starting /\ proc'[o] = proc[o])
                      /\ (Reached(o)' => Reached(o) /\ want'[o] = want[o])
    BY <2>2, StillReached
  <2>4. \A o \in Pids : proc[o] \in Starting \cup {"serving"} => stateFile' = want[o].port
    BY <2>1 DEF Inv, GivenPorts, OneAtATime
  <2>5. OneCommand' /\ StopsKnow'
    BY <2>1, <2>3 DEF Inv, OneCommand, StopsKnow
  <2>6. GivenPorts'
    BY <2>2 DEF Inv, GivenPorts
  <2>7. AloneAtStart'
    BY <2>1, <2>2, <2>3, <2>4 DEF Inv, AloneAtStart
  <2>8. ServedIsTracked'
    BY <2>1, <2>3, <2>4 DEF Inv, ServedIsTracked, Reached, Serving
  <2> QED BY <2>5, <2>6, <2>7, <2>8 DEF Inv
<1>8. ASSUME NEW p \in Pids, React(p) \/ ReuseId(p) PROVE Inv'
  <2>1. /\ \A o \in Pids : proc'[o] \in Starting \cup {"serving"} =>
             proc'[o] = proc[o] /\ want'[o] = want[o]
        /\ UNCHANGED <<pidFile, stateFile, stop>>
    BY <1>8 DEF React, ReuseId, files, ServerTypeOK, Starting
  <2> QED BY <2>1, LessKeepsInv
<1>9. ASSUME NEW a \in Sockets, TakePort(a) PROVE Inv'
  BY <1>9, LessKeepsInv DEF TakePort, files
<1>10. ASSUME NEW c \in Stops, ReadStatus(c) PROVE Inv'
  <2>1. /\ \A o \in Pids : proc[o] \notin Starting
        /\ \A d \in Stops : stop[d].at = "idle"
    BY <1>10 DEF ReadStatus, Turn, OneAtATime
  <2>2. /\ \A d \in Stops : d # c => stop'[d] = stop[d]
        /\ stop'[c] = [at |-> IF Alive(pidFile) THEN "kill" ELSE "stale", pid |-> pidFile,
                       port |-> IF stateFile = "none" THEN DefaultPort ELSE stateFile]
        /\ UNCHANGED <<proc, want, owner, term, pidFile, stateFile>>
    BY <1>10 DEF ReadStatus, ServerTypeOK, procs, files
  <2>3. \A p \in Pids : Reached(p)' <=> Reached(p)
    BY <2>2 DEF Reached, Serving
  <2>4. \A p \in Pids : Reached(p) => Alive(pidFile) /\ stateFile = want[p].port
    BY DEF Inv, ServedIsTracked, Reached, Serving, Alive
  <2>5. /\ stop'[c].at = "stale" => \A p \in Pids : ~Reached(p)
        /\ \A p \in Pids : Reached(p) => stop'[c].port = want[p].port
    <3>1. \A p \in Pids : want[p].port # "none"
      BY PortsAssumption DEF ServerTypeOK
    <3> QED BY <2>2, <2>4, <3>1
  <2>6. OneCommand'
    BY <2>1, <2>2 DEF OneCommand
  <2>7. GivenPorts' /\ AloneAtStart' /\ ServedIsTracked'
    BY <2>2, <2>3 DEF Inv, GivenPorts, AloneAtStart, ServedIsTracked
  <2>8. StopsKnow'
    BY <2>1, <2>2, <2>3, <2>5 DEF Inv, StopsKnow
  <2> QED BY <2>6, <2>7, <2>8 DEF Inv
<1>11. ASSUME NEW c \in Stops, Kill(c) PROVE Inv'
  <2> DEFINE p == stop[c].pid
  <2>1. p \in Pids
    BY <1>11 DEF Kill, ServerTypeOK
  <2>2. /\ \A d \in Stops : d # c => stop'[d] = stop[d]
        /\ stop[c].at = "kill" /\ stop'[c].at = "wait" /\ stop'[c].port = stop[c].port
        /\ UNCHANGED <<pidFile, stateFile>>
    BY <1>11 DEF Kill, ServerTypeOK, files
  <2>3. \A o \in Pids : proc'[o] \in Starting \cup {"serving"} =>
            proc'[o] = proc[o] /\ want'[o] = want[o]
    <3>1. CASE Serving(p) \/ proc[p] = "closing"
      BY <1>11, <3>1 DEF Kill, procs, Serving
    <3>2. CASE ~Serving(p) /\ proc[p] # "closing"
      BY <1>11, <2>1, <3>2, EndsLess DEF Kill
    <3> QED BY <3>1, <3>2
  <2>4. \A o \in Pids : (proc'[o] \in Starting => proc[o] \in Starting /\ proc'[o] = proc[o])
                      /\ (Reached(o)' => Reached(o) /\ want'[o] = want[o])
    BY <2>3, StillReached
  <2>5. OneCommand'
    BY <2>2, <2>4 DEF Inv, OneCommand
  <2>6. GivenPorts' /\ AloneAtStart' /\ ServedIsTracked'
    BY <2>2, <2>3, <2>4 DEF Inv, GivenPorts, AloneAtStart, ServedIsTracked, Starting
  <2>7. StopsKnow'
    BY <2>2, <2>4 DEF Inv, StopsKnow
  <2> QED BY <2>5, <2>6, <2>7 DEF Inv
<1>12. ASSUME NEW c \in Stops, KillFails(c) \/ TimedOut(c) PROVE Inv'
  BY <1>12, LessKeepsInv DEF KillFails, TimedOut, procs, files, NoStop, ServerTypeOK
<1>13. ASSUME NEW c \in Stops, RemoveStale(c) \/ Released(c) PROVE Inv'
  <2>1. /\ stop' = [stop EXCEPT ![c] = NoStop] /\ stop[c].at \in {"stale", "wait"}
        /\ UNCHANGED <<proc, want, stateFile>>
    BY <1>13 DEF RemoveStale, Released, procs
  <2>2. \A p \in Pids : ~Reached(p)
    BY <1>13, NobodyAtRelease
  <2>3. \A p \in Pids : proc[p] \notin Starting
    BY <2>1 DEF Inv, OneCommand
  <2>4. \A p \in Pids : ~Reached(p)'
    BY <2>1, <2>2 DEF Reached, Serving
  <2>5. \A d \in Stops : stop'[d].at # "idle" => d # c /\ stop'[d] = stop[d]
    BY <2>1 DEF NoStop, ServerTypeOK
  <2>6. OneCommand' /\ GivenPorts'
    BY <2>1, <2>3, <2>5 DEF Inv, OneCommand, GivenPorts
  <2>7. AloneAtStart' /\ ServedIsTracked' /\ StopsKnow'
    BY <2>1, <2>3, <2>4, <2>5 DEF Inv, AloneAtStart, ServedIsTracked, StopsKnow
  <2> QED BY <2>6, <2>7 DEF Inv
<1>14. CASE UNCHANGED vars
  BY <1>14, LessKeepsInv DEF vars, procs, files
<1> QED
  BY <1>1, <1>2, <1>3, <1>4, <1>5, <1>6, <1>7, <1>8, <1>9, <1>10, <1>11, <1>12, <1>13, <1>14
  DEF Next, Starts, StopStep

\* The server that answers on the loopback is named by the files with its port,
\* when commands are given one at a time, whatever their hosts (dashboard.py:
\* run_dashboard, stop_dashboard).
THEOREM Tracked == OneAtATime /\ Spec => []ServedIsTracked
<1> SUFFICES ASSUME OneAtATime PROVE Spec => []ServedIsTracked
  OBVIOUS
<1>1. Init => ServerTypeOK /\ Inv
  BY TypesInit, InvInit
<1>2. ServerTypeOK /\ Inv /\ [Next]_vars => ServerTypeOK' /\ Inv'
  BY TypesNext, InvNext
<1>3. Inv => ServedIsTracked
  BY DEF Inv
<1> QED BY <1>1, <1>2, <1>3, PTL DEF Spec

-------------------------------------------------------------------------------
(***************************************************************************)
(* The refinement                                                          *)
(***************************************************************************)
\* The server of the book is the process that answers, if there is one.
LEMMA ServerIs ==
  ASSUME ServerTypeOK, Inv
  PROVE  /\ \A p \in Pids : Reached(p) => Server = <<p, want[p].port>> /\ Server # Book!None
         /\ (\A p \in Pids : ~Reached(p)) => Server = Book!None
<1>1. ASSUME NEW p \in Pids, Reached(p) PROVE Server = <<p, want[p].port>>
  <2>1. \A o \in Pids : Reached(o) => o = p
    BY <1>1 DEF Inv, ServedIsTracked
  <2>2. (CHOOSE o \in Pids : Reached(o)) = p
    BY <1>1, <2>1
  <2> QED BY <1>1, <2>2 DEF Server
<1>2. \A p \in Pids : <<p, want[p].port>> # Book!None
  BY PidsAssumption DEF Book!None
<1> QED BY <1>1, <1>2 DEF Server, Book!None

\* The same after a step.
LEMMA ServerIsAfter ==
  ASSUME ServerTypeOK', Inv'
  PROVE  /\ \A p \in Pids : Reached(p)' => Server' = <<p, want'[p].port>> /\ Server' # Book!None
         /\ (\A p \in Pids : ~Reached(p)') => Server' = Book!None
<1>1. ASSUME NEW p \in Pids, Reached(p)' PROVE Server' = <<p, want'[p].port>>
  <2>1. \A o \in Pids : Reached(o)' => o = p
    BY <1>1 DEF Inv, ServedIsTracked
  <2>2. (CHOOSE o \in Pids : Reached(o)') = p
    BY <1>1, <2>1
  <2> QED BY <1>1, <2>2 DEF Server
<1>2. \A p \in Pids : <<p, want'[p].port>> # Book!None
  BY PidsAssumption DEF Book!None
<1> QED BY <1>1, <1>2 DEF Server, Book!None

\* A step that lets the servers be or ends them, the files unchanged, is a
\* stutter of the book or the end of its server.
LEMMA EndOrStutter ==
  ASSUME ServerTypeOK, Inv, ServerTypeOK', Inv',
         \A o \in Pids : Reached(o)' => Reached(o) /\ want'[o] = want[o],
         UNCHANGED <<pidFile, stateFile>>
  PROVE  [Book!Next]_(Book!vars)
<1>1. CASE \E o \in Pids : Reached(o)'
  <2> PICK o \in Pids : Reached(o)'
    BY <1>1
  <2>1. Server' = Server
    BY ServerIs, ServerIsAfter
  <2> QED BY <2>1 DEF Book!vars
<1>2. CASE \A o \in Pids : ~Reached(o)'
  <2>1. Server' = Book!None
    BY <1>2, ServerIsAfter
  <2>2. CASE Server = Book!None
    BY <2>1, <2>2 DEF Book!vars
  <2>3. CASE Server # Book!None
    <3>1. Book!End
      BY <2>1, <2>3 DEF Book!End
    <3> QED BY <3>1 DEF Book!Next
  <2> QED BY <2>2, <2>3
<1> QED BY <1>1, <1>2

\* A step that writes the files while nobody answers is one of the book.
LEMMA WriteInBook ==
  ASSUME ServerTypeOK, Inv, ServerTypeOK', Inv',
         \A o \in Pids : ~Reached(o) /\ ~Reached(o)',
         \/ /\ stateFile' = stateFile
            /\ pidFile' \in Pids \cup {"none", "empty"}
         \/ /\ pidFile' = pidFile
            /\ stateFile' \in Ports \cup {"none"}
  PROVE  [Book!Next]_(Book!vars)
<1>1. Server = Book!None /\ Server' = Book!None
  BY ServerIs, ServerIsAfter
<1>2. CASE stateFile' = stateFile /\ pidFile' \in Pids \cup {"none", "empty"}
  <2>1. PICK n \in Pids \cup {"none"} : (IF pidFile' = "empty" THEN "none" ELSE pidFile') = n
    BY <1>2
  <2>2. Book!Name(n)
    BY <1>1, <1>2, <2>1 DEF Book!Name
  <2> QED BY <2>2 DEF Book!Next
<1>3. CASE pidFile' = pidFile /\ stateFile' \in Ports \cup {"none"}
  <2>1. Book!Place(stateFile')
    BY <1>1, <1>3 DEF Book!Place
  <2> QED BY <1>3, <2>1 DEF Book!Next
<1> QED BY <1>2, <1>3

\* Every step of the program is a step of the book or a stutter.
LEMMA BookNext ==
  ASSUME OneAtATime, ServerTypeOK, Inv, ServerTypeOK', Inv', [Next]_vars
  PROVE  [Book!Next]_(Book!vars)
<1>1. ASSUME NEW p \in Pids, NEW h \in Hosts, NEW q \in Ports, Start(p, h, q)
      PROVE  [Book!Next]_(Book!vars)
  <2>1. \A o \in Pids : Reached(o)' => Reached(o) /\ want'[o] = want[o]
    BY <1>1 DEF Start, ServerTypeOK, Reached, Serving
  <2> QED BY <1>1, <2>1, EndOrStutter DEF Start, files
<1>2. ASSUME NEW p \in Pids, OpenPid(p) PROVE [Book!Next]_(Book!vars)
  <2>1. \A o \in Pids : ~Reached(o) /\ ~Reached(o)'
    BY <1>2, StartGoesOn DEF OpenPid, Starting
  <2> QED BY <1>2, <2>1, WriteInBook DEF OpenPid
<1>3. ASSUME NEW p \in Pids, WritePid(p) PROVE [Book!Next]_(Book!vars)
  <2>1. \A o \in Pids : ~Reached(o) /\ ~Reached(o)'
    BY <1>3, StartGoesOn DEF WritePid, Starting
  <2> QED BY <1>3, <2>1, WriteInBook DEF WritePid
<1>4. ASSUME NEW p \in Pids, OpenState(p) \/ WriteState(p) PROVE [Book!Next]_(Book!vars)
  <2>1. proc[p] \in Starting /\ pidFile' = pidFile /\ UNCHANGED <<want, stop>>
    BY <1>4 DEF OpenState, WriteState, Starting
  <2>2. pidFile' = p
    BY <1>4 DEF OpenState, WriteState, Inv, AloneAtStart, Starting
  <2>3. \A o \in Pids : ~Reached(o) /\ ~Reached(o)'
    BY <1>4, <2>1, <2>2, StartGoesOn DEF OpenState, WriteState, Starting
  <2>4. stateFile' \in Ports \cup {"none"}
    BY <1>4, <2>1 DEF OpenState, WriteState, Inv, GivenPorts
  <2> QED BY <2>1, <2>3, <2>4, WriteInBook
<1>5. ASSUME NEW p \in Pids, Bind(p) PROVE [Book!Next]_(Book!vars)
  <2>1. /\ proc[p] = "stated" /\ \A o \in Pids : Reached(o)' => o = p \/ Reached(o)
        /\ UNCHANGED <<want, pidFile, stateFile>>
    BY <1>5 DEF Bind, ServerTypeOK, Reached, Serving, files
  <2>2. /\ \A o \in Pids : ~Reached(o)
        /\ pidFile = p /\ stateFile = want[p].port /\ want[p].port \in Ports
    BY <2>1 DEF Inv, AloneAtStart, GivenPorts, Starting
  <2>3. CASE Reached(p)'
    <3>1. Server = Book!None /\ Server' = <<pidFile, stateFile>>
      BY <2>1, <2>2, <2>3, ServerIs, ServerIsAfter
    <3>2. pidFile # "empty"
      BY <2>2, PidsAssumption
    <3>3. Book!Serve
      BY <2>1, <2>2, <3>1, <3>2 DEF Book!Serve
    <3> QED BY <3>3 DEF Book!Next
  <2>4. CASE ~Reached(p)'
    <3>1. \A o \in Pids : ~Reached(o)'
      BY <2>1, <2>2, <2>4
    <3> QED BY <2>1, <3>1, EndOrStutter
  <2> QED BY <2>3, <2>4
<1>6. ASSUME NEW p \in Pids, BindFails(p) \/ Dies(p) \/ Closed(p) PROVE [Book!Next]_(Book!vars)
  <2>1. Ends(p) /\ UNCHANGED <<pidFile, stateFile>>
    BY <1>6 DEF BindFails, Dies, Closed, files
  <2>2. \A o \in Pids : Reached(o)' => Reached(o) /\ want'[o] = want[o]
    BY <2>1, EndsLess, StillReached
  <2> QED BY <2>1, <2>2, EndOrStutter
<1>7. ASSUME NEW p \in Pids, Fails(p) PROVE [Book!Next]_(Book!vars)
  <2>1. Ends(p) /\ stateFile' = want[p].port /\ pidFile' = pidFile
        /\ proc[p] \in Starting \cup {"serving"}
    BY <1>7 DEF Fails
  <2>2. \A o \in Pids : Reached(o)' => Reached(o) /\ want'[o] = want[o]
    BY <2>1, EndsLess, StillReached
  <2>3. want[p].port \in Ports
    BY <2>1 DEF Inv, GivenPorts
  <2>4. CASE \E o \in Pids : Reached(o)
    <3> PICK o \in Pids : Reached(o)
      BY <2>4
    <3>1. want[o].port \in Ports /\ stateFile = want[o].port
      BY DEF Inv, GivenPorts, ServedIsTracked, Reached, Serving
    <3>2. stateFile' = stateFile
      BY <2>1, <2>3, <3>1 DEF OneAtATime
    <3> QED BY <2>1, <2>2, <3>2, EndOrStutter
  <2>5. CASE \A o \in Pids : ~Reached(o)
    BY <2>1, <2>2, <2>3, <2>5, WriteInBook
  <2> QED BY <2>4, <2>5
<1>8. ASSUME NEW p \in Pids, React(p) \/ ReuseId(p) PROVE [Book!Next]_(Book!vars)
  <2>1. /\ \A o \in Pids : Reached(o)' => Reached(o) /\ want'[o] = want[o]
        /\ UNCHANGED <<pidFile, stateFile>>
    BY <1>8 DEF React, ReuseId, files, ServerTypeOK, Reached, Serving
  <2> QED BY <2>1, EndOrStutter
<1>9. ASSUME NEW a \in Sockets, TakePort(a) PROVE [Book!Next]_(Book!vars)
  BY <1>9, EndOrStutter DEF TakePort, files, Reached, Serving
<1>10. ASSUME NEW c \in Stops, ReadStatus(c) \/ KillFails(c) \/ TimedOut(c)
       PROVE [Book!Next]_(Book!vars)
  BY <1>10, EndOrStutter DEF ReadStatus, KillFails, TimedOut, procs, files, Reached, Serving
<1>11. ASSUME NEW c \in Stops, Kill(c) PROVE [Book!Next]_(Book!vars)
  <2> DEFINE p == stop[c].pid
  <2>1. p \in Pids /\ UNCHANGED <<pidFile, stateFile>>
    BY <1>11 DEF Kill, ServerTypeOK, files
  <2>2. \A o \in Pids : Reached(o)' => Reached(o) /\ want'[o] = want[o]
    <3>1. CASE Serving(p) \/ proc[p] = "closing"
      BY <1>11, <3>1 DEF Kill, procs, Reached, Serving
    <3>2. CASE ~Serving(p) /\ proc[p] # "closing"
      BY <1>11, <2>1, <3>2, EndsLess, StillReached DEF Kill
    <3> QED BY <3>1, <3>2
  <2> QED BY <2>1, <2>2, EndOrStutter
<1>12. ASSUME NEW c \in Stops, RemoveStale(c) \/ Released(c) PROVE [Book!Next]_(Book!vars)
  <2>1. pidFile' = "none" /\ UNCHANGED <<proc, want, stateFile>>
    BY <1>12 DEF RemoveStale, Released, procs
  <2>2. \A p \in Pids : ~Reached(p) /\ ~Reached(p)'
    BY <1>12, <2>1, NobodyAtRelease DEF Reached, Serving
  <2> QED BY <2>1, <2>2, WriteInBook
<1>13. CASE UNCHANGED vars
  BY <1>13, EndOrStutter DEF vars, procs, files, Reached, Serving
<1> QED
  BY <1>1, <1>2, <1>3, <1>4, <1>5, <1>6, <1>7, <1>8, <1>9, <1>10, <1>11, <1>12, <1>13
  DEF Next, Starts, StopStep

\* The program keeps the book: what is written down about the server on the
\* loopback only changes while there is none, when commands are given one at a
\* time (dashboard.py: run_dashboard, stop_dashboard).
THEOREM Refinement == OneAtATime /\ Spec => KeepsTheBook
<1> SUFFICES ASSUME OneAtATime PROVE Spec => Book!Spec
  BY DEF KeepsTheBook
<1>1. Init => ServerTypeOK /\ Inv /\ Book!Init
  <2>1. Init => Server = Book!None
    BY DEF Init, Server, Serving, Reached, Book!None
  <2> QED BY <2>1, TypesInit, InvInit DEF Init, Book!Init
<1>2. ServerTypeOK /\ Inv /\ [Next]_vars => ServerTypeOK' /\ Inv'
  BY TypesNext, InvNext
<1>3. ServerTypeOK /\ Inv /\ ServerTypeOK' /\ Inv' /\ [Next]_vars => [Book!Next]_(Book!vars)
  BY BookNext
<1> QED BY <1>1, <1>2, <1>3, PTL DEF Spec, Book!Spec

===============================================================================
