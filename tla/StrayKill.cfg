SPECIFICATION Spec
CONSTANTS
  Pids = {p1, p2}
  Ports = {"8787"}
  DefaultPort = "8787"
  Hosts <- AllHosts
  Interfaces <- AllInterfaces
  Loopback = "loopback"
  Listens <- HostListens
  Stops = {s1}
  Overlap = FALSE
  Reuse = TRUE
PROPERTIES StopsOnlyDashboards
CHECK_DEADLOCK FALSE
