SPECIFICATION FairSpec
CONSTANTS
  Pids = {p1, p2, p3}
  Ports = {"9000"}
  DefaultPort = "8787"
  Hosts <- AllHosts
  Interfaces <- AllInterfaces
  Loopback = "loopback"
  Listens <- HostListens
  Stops = {s1}
  Overlap = FALSE
  Reuse = TRUE
INVARIANTS ServerTypeOK ServedIsTracked
PROPERTIES KeepsTheBook StopTakesEffect
CHECK_DEADLOCK FALSE
