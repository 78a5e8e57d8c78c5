SPECIFICATION Spec
CONSTANTS
  Processes = {p1, p2}
  Deps = {"nmap", "katana", "go", "playwright"}
  Plans <- MixedPlans
  Jobs = {"scan", "status", "install_tools_browser", "refresh", "install_tool"}
INVARIANTS SupplyTypeOK InstalledOnce CountsAreAttempts DropsAreExplained ToolsHaveDependencies InstallToolsInstalls
SYMMETRY Symmetry
CHECK_DEADLOCK FALSE
