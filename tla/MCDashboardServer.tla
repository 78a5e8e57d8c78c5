-------------------------- MODULE MCDashboardServer --------------------------
(***************************************************************************)
(* Instances of DashboardServer for TLC.                                   *)
(***************************************************************************)
EXTENDS ServerProperties, TLC

\* Process ids are told apart by nothing but who uses them.
Symmetry == Permutations(Pids)

\* A host names the loopback, another interface or every one.
AllHosts      == {"127.0.0.1", "192.168.0.7", "0.0.0.0"}
AllInterfaces == {"loopback", "lan"}
HostListens   == [h \in AllHosts |-> CASE h = "127.0.0.1" -> {"loopback"}
                                     [] h = "192.168.0.7" -> {"lan"}
                                     [] OTHER -> AllInterfaces]

==============================================================================
