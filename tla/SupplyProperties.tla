--------------------------- MODULE SupplyProperties ---------------------------
(***************************************************************************)
(* What the preparation of tools promises a scan, and the registry.        *)
(***************************************************************************)
EXTENDS ToolSupply

Outcomes == {"completed", "tool_install_failed", "dynamic_install_pending", "missing_tool"}
Points   == {"off", "prepare", "command", "install", "register", "report", "loop",
             "plan", "planned", "done", "crashed"}

\* Every variable has its type, and only what is tried is being installed
\* (tool_manager.py: ToolInstallAttempt, ToolPreparation; models.py: ToolRegistry).
SupplyTypeOK ==
    /\ present \subseteq Deps
    /\ registry \in [Deps -> [status : {"absent", "installed", "missing", "install_failed"},
                              count : Nat]]
    /\ at \in [Processes -> Points]
    /\ ready \in [Processes -> SUBSET Deps] /\ tried \in [Processes -> SUBSET Deps]
    /\ \A p \in Processes :
        /\ \A a \in ToSet(attempts[p]) :
            a.dep \in Deps /\ a.attempted \in BOOLEAN /\ a.status \in Outcomes
        /\ rows[p] \subseteq Tools \X (Outcomes \cup {"missing_prerequisite"})
        /\ ToSet(plan[p]) \subseteq ToSet(chosen[p]) /\ skipped[p] \subseteq Tools
        /\ at[p] = "install" => todo[p] # <<>> /\ Wanted(p) \in tried[p]

Ran(p, d) == InOrder(attempts[p], {a \in ToSet(attempts[p]) : a.dep = d /\ a.attempted})

\* A process runs the installer of a dependency at most once, however many of
\* the selected tools need it and whatever else happens on the machine
\* (tool_manager.py: _SESSION_INSTALL_ATTEMPTS).
InstalledOnce == \A p \in Processes, d \in Deps : Len(Ran(p, d)) <= 1

\* install_attempt_count never exceeds the attempts made by all processes: one
\* that writes over the others may lose counts, none invents them
\* (tool_manager.py: upsert_tool_registry).
CountsAreAttempts ==
    \A d \in Deps : registry[d].count <= Cardinality({p \in Processes : d \in tried[p]})

\* A tool that the user selected and that does not reach the tool loop leaves
\* an entry of the tool its dependency is known by: a tool run, or a place in
\* the list of skipped tools (prompt_runner.py: _record_install_attempt).
DropsAreExplained ==
    \A p \in Processes : job[p] = "scan" /\ at[p] \in {"loop", "plan", "planned", "done"} =>
        \A t \in ToSet(chosen[p]) :
            \/ t \in ToSet(plan[p])
            \/ ToolFor(Dependency[t]) \in skipped[p]
            \/ \E r \in rows[p] : r[1] = ToolFor(Dependency[t])

\* Where installing is enabled no tool is started without its dependency, even
\* if a plan claims to have installed it (prompt_runner.py: run_prompt_scan).
ToolsHaveDependencies ==
    \A p \in Processes : \A r \in ran[p] : r[2] \/ dynamic[p] # "enabled"

\* install-tools is there to "Install missing supported external tools": if no
\* installer fails, only katana can be missing when it ends, whose own
\* prerequisite comes after it in the loop's order (cli.py: install_tools;
\* tool_manager.py: install_missing_supported_tools).
InstallToolsInstalls ==
    \A p \in Processes : job[p] = "install_tools_browser" /\ at[p] = "done" /\ ~refused[p] =>
        (Deps \cap Supported) \ present \subseteq {"katana"}

===============================================================================
