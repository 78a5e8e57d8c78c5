------------------------------ MODULE ToolSupply ------------------------------
(***************************************************************************)
(* How the programs that the test tools need get onto the machine: the     *)
(* preparation of a scan's selected tools with the built-in installers,    *)
(* the install plans tried in the tool loop, the commands install-tools,   *)
(* install-tool, tools status and tools refresh, and the tool registry.    *)
(*                                                                         *)
(* Several processes share the machine and the registry; the set of        *)
(* dependencies already tried (_SESSION_INSTALL_ATTEMPTS) is a process's   *)
(* own.  apt-get update and upgrade change nothing that is kept here.      *)
(***************************************************************************)
EXTENDS Naturals, FiniteSets, Sequences, SequencesExt, OrderedPicks

CONSTANTS
    Processes,    \* worker and command processes; each runs once
    Deps,         \* the dependencies that may be missing; the others are there
    Plans,        \* the tool sequences a scan may have selected
    Jobs          \* what processes may be started for

\* TOOL_DEPENDENCIES, in the order of the source, without the tools that
\* share both dependency and rank with a tool listed here.
ToolOrder == <<"http_client", "nmap_top_ports", "nmap_full_tcp",
               "nmap_service_detection", "katana", "gobuster_dir", "ffuf_dir",
               "gobuster_api_paths", "ffuf_api_paths", "whatweb",
               "technology_fingerprint", "browser_authenticated_capture">>
Dependency ==
    [http_client |-> "httpx", technology_fingerprint |-> "httpx",
     nmap_top_ports |-> "nmap", nmap_full_tcp |-> "nmap",
     nmap_service_detection |-> "nmap", katana |-> "katana",
     gobuster_dir |-> "gobuster", gobuster_api_paths |-> "gobuster",
     ffuf_dir |-> "ffuf", ffuf_api_paths |-> "ffuf", whatweb |-> "whatweb",
     browser_authenticated_capture |-> "playwright"]
Tools == DOMAIN Dependency

\* check_runtime_tools, in its order.
StatusOrder == <<"httpx", "playwright", "nmap", "gobuster", "ffuf", "katana",
                 "whatweb", "jq", "curl", "go", "seclists", "dirb">>
APT       == {"nmap", "gobuster", "ffuf", "seclists", "dirb", "go", "whatweb", "jq", "curl"}
Supported == APT \cup {"katana", "playwright"}
Commands  == {"status", "refresh", "refresh_browser", "install_tools", "install_tools_browser"}

ASSUME ProcessesAssumption == IsFiniteSet(Processes)
ASSUME DepsAssumption == Deps \subseteq ToSet(StatusOrder)
ASSUME PlansAssumption == \A s \in Plans : s \in Seq(Tools) /\ Len(s) > 0
ASSUME JobsAssumption ==
    Jobs \subseteq Commands \cup {"scan", "install_tool"}

VARIABLES
    present,    \* dependencies on the machine
    registry,   \* tool_registry rows: status and install_attempt_count
    job,        \* what the process was started for
    dynamic,    \* the dynamic install: switched off, not authorized, or enabled
    at,         \* how far it is
    chosen,     \* the tools selected for its scan
    todo,       \* tools, or dependencies, it has not come to yet
    ready,      \* its last check of the machine
    tried,      \* _SESSION_INSTALL_ATTEMPTS
    attempts,   \* attempts of the preparation or the command
    plan,       \* final_executable_tools
    copy,       \* the registry rows as it read them
    rows,       \* tool runs recorded: <<tool, status>>
    skipped,    \* skipped_unselected_tools
    ran,        \* history: tools run, with what was present of their dependency
    refused     \* history: an installer has failed for this process

machineVars == <<present, registry>>
setupVars   == <<job, dynamic, chosen>>
prepVars    == <<ready, tried, attempts, refused>>
scanVars    == <<plan, rows, skipped, ran>>
vars == <<machineVars, setupVars, at, todo, prepVars, copy, scanVars>>

-------------------------------------------------------------------------------
NoRow == [status |-> "absent", count |-> 0]

Ready(t, S) == Dependency[t] \notin Deps \/ Dependency[t] \in S
\* The attempt that upsert_tool_registry keeps of a dependency: the last one.
Of(d, as)     == InOrder(as, {a \in ToSet(as) : a.dep = d})
LastOf(d, as) == Of(d, as)[Len(Of(d, as))]

\* _tool_for_dependency: the first tool of the table that needs d.
ToolFor(d) ==
    LET needs == InOrder(ToolOrder, {t \in Tools : Dependency[t] = d})
    IN IF needs = <<>> THEN d ELSE Head(needs)

\* is_tool_selected, with its fallback for an empty list of executable tools.
Selected(p, t) == t \in ToSet(IF plan[p] = <<>> THEN chosen[p] ELSE plan[p])

-------------------------------------------------------------------------------
(***************************************************************************)
(* Processes begin                                                         *)
(***************************************************************************)
\* run_prompt_scan reaches prepare_selected_tools: one check of the machine.
StartScan(p) ==
    /\ at[p] = "off" /\ "scan" \in Jobs
    /\ job' = [job EXCEPT ![p] = "scan"]
    /\ \E d \in {"off", "unauthorized", "enabled"} : dynamic' = [dynamic EXCEPT ![p] = d]
    /\ \E s \in Plans :
        /\ chosen' = [chosen EXCEPT ![p] = s]
        /\ todo' = [todo EXCEPT ![p] = s]
    /\ ready' = [ready EXCEPT ![p] = present]
    /\ at' = [at EXCEPT ![p] = "prepare"]
    /\ UNCHANGED <<machineVars, tried, attempts, refused, copy, scanVars>>

\* tools status and tools refresh, and install-tools, which ends in a refresh
\* that does not know its attempts.
StartCommand(p) ==
    /\ at[p] = "off"
    /\ \E j \in Jobs \cap Commands : job' = [job EXCEPT ![p] = j]
    /\ ready' = [ready EXCEPT ![p] = present]
    /\ todo' = [todo EXCEPT ![p] =
                  IF job'[p] = "status" THEN <<>>
                  ELSE InOrder(StatusOrder, Deps \ present)]
    /\ at' = [at EXCEPT ![p] = "command"]
    /\ UNCHANGED <<machineVars, dynamic, chosen, tried, attempts, refused, copy, scanVars>>

-------------------------------------------------------------------------------
(***************************************************************************)
(* The built-in installers                                                 *)
(***************************************************************************)
Attempt(d, attempted, status) == [dep |-> d, attempted |-> attempted, status |-> status]
Note(p, a) == attempts' = [attempts EXCEPT ![p] = Append(@, a)]
Finish(p)  == todo' = [todo EXCEPT ![p] = Tail(@)]

\* Mutant: the set of tried dependencies is not consulted.
NeverTried(p, d) == TRUE
\* _install_dependency: not there, and not tried by this process before.
ToInstall(p, d) == d \notin tried[p]

\* What _install_dependency answers without running anything.
Answer(p, d) ==
    IF d \in present THEN Attempt(d, FALSE, "completed")
    ELSE Attempt(d, FALSE, "tool_install_failed")

\* prepare_selected_tools, when the tool needs nothing or was seen to be ready.
ToolIsReady(p) ==
    /\ at[p] = "prepare" /\ todo[p] # <<>>
    /\ Ready(Head(todo[p]), ready[p])
    /\ plan' = [plan EXCEPT ![p] = Append(@, Head(todo[p]))]
    /\ Finish(p)
    /\ UNCHANGED <<machineVars, setupVars, at, prepVars, copy, rows, skipped, ran>>

\* The machine is checked after every attempt; a tool that is ready then, or
\* waits for the dynamic install, stays executable.  The others are dropped.
AfterAttempt(p, t, status) ==
    /\ ready' = [ready EXCEPT ![p] = present']
    /\ plan' = IF Ready(t, present') \/ status = "dynamic_install_pending"
               THEN [plan EXCEPT ![p] = Append(@, t)] ELSE plan
    /\ Finish(p)

\* A dependency with an installer is looked for again, and tried once.
PrepareWithoutInstaller(p) ==
    /\ at[p] = "prepare" /\ todo[p] # <<>>
    /\ LET t == Head(todo[p])
           d == Dependency[t]
           s == IF dynamic[p] # "off" THEN "dynamic_install_pending" ELSE "missing_tool"
           a == IF d \in APT \cup {"katana"} THEN Answer(p, d) ELSE Attempt(d, FALSE, s)
       IN /\ ~Ready(t, ready[p])
          /\ d \in APT \cup {"katana"} => d \in present \/ ~ToInstall(p, d)
          /\ Note(p, a)
          /\ UNCHANGED present
          /\ AfterAttempt(p, t, a.status)
    /\ UNCHANGED <<registry, setupVars, at, tried, refused, copy, rows, skipped, ran>>

\* The dependency that the process is about to install: of the tool it has
\* come to, or the next missing one of the command.
Wanted(p) == IF job[p] = "scan" THEN Dependency[Head(todo[p])] ELSE Head(todo[p])

MayInstall(p, d) ==
    IF job[p] = "scan"
    THEN ~Ready(Head(todo[p]), ready[p]) /\ d \in APT \cup {"katana"}
    ELSE /\ d # "httpx"
         /\ d = "playwright" => job[p] \in {"refresh_browser", "install_tools_browser"}

\* Mutant: what is being installed is not noted.
InstallUnnoted(p) ==
    /\ at[p] \in {"prepare", "command"} /\ todo[p] # <<>>
    /\ LET d == Wanted(p) IN MayInstall(p, d) /\ d \notin present /\ ToInstall(p, d)
    /\ at' = [at EXCEPT ![p] = "install"]
    /\ UNCHANGED <<machineVars, setupVars, todo, ready, tried, attempts, refused, copy, scanVars>>

\* The dependency is noted as tried before its installer runs.
InstallBegins(p) ==
    /\ at[p] \in {"prepare", "command"} /\ todo[p] # <<>>
    /\ LET d == Wanted(p)
       IN /\ MayInstall(p, d) /\ d \notin present /\ ToInstall(p, d)
          /\ tried' = [tried EXCEPT ![p] = @ \cup {d}]
    /\ at' = [at EXCEPT ![p] = "install"]
    /\ UNCHANGED <<machineVars, setupVars, todo, ready, attempts, refused, copy, scanVars>>

\* The installer ends: with a code, of which 124 and 127 are a timeout and an
\* error of the system, and having put the program there or not.  It has
\* completed if the code is zero and the program is found.
InstallEnds(p) ==
    /\ at[p] = "install"
    /\ \E zero \in BOOLEAN, found \in SUBSET {Wanted(p)} :
        LET d == Wanted(p)
            done == zero /\ d \in present \cup found
            a == Attempt(d, TRUE, IF done THEN "completed" ELSE "tool_install_failed")
        IN /\ d = "katana" => "go" \in present \cup (ToSet(StatusOrder) \ Deps)
           /\ present' = present \cup found
           /\ Note(p, a)
           /\ refused' = [refused EXCEPT ![p] = @ \/ ~done]
           /\ IF job[p] = "scan" THEN AfterAttempt(p, Head(todo[p]), a.status)
              ELSE Finish(p) /\ UNCHANGED <<ready, plan>>
    /\ at' = [at EXCEPT ![p] = IF job[p] = "scan" THEN "prepare" ELSE "command"]
    /\ UNCHANGED <<registry, setupVars, tried, copy, rows, skipped, ran>>

\* Mutant: a command ends with the first program that it cannot install.
KatanaEndsCommand(p) ==
    /\ at[p] = "install" /\ Wanted(p) = "katana"
    /\ "go" \in Deps \ present
    /\ UNCHANGED present
    /\ Note(p, Attempt("katana", TRUE, "tool_install_failed"))
    /\ IF job[p] = "scan" THEN AfterAttempt(p, Head(todo[p]), "tool_install_failed")
       ELSE todo' = [todo EXCEPT ![p] = <<>>] /\ UNCHANGED <<ready, plan>>
    /\ at' = [at EXCEPT ![p] = IF job[p] = "scan" THEN "prepare" ELSE "command"]
    /\ UNCHANGED <<registry, setupVars, tried, refused, copy, rows, skipped, ran>>

\* Katana is built with go: without go nothing is run, and the attempt counts.
KatanaWithoutGo(p) ==
    /\ at[p] = "install" /\ Wanted(p) = "katana"
    /\ "go" \in Deps \ present
    /\ UNCHANGED present
    /\ Note(p, Attempt("katana", TRUE, "tool_install_failed"))
    /\ IF job[p] = "scan" THEN AfterAttempt(p, Head(todo[p]), "tool_install_failed")
       ELSE Finish(p) /\ UNCHANGED <<ready, plan>>
    /\ at' = [at EXCEPT ![p] = IF job[p] = "scan" THEN "prepare" ELSE "command"]
    /\ UNCHANGED <<registry, setupVars, tried, refused, copy, rows, skipped, ran>>

\* The next dependency of a command needs no installer, or gets none.
CommandGoesOn(p) ==
    /\ at[p] = "command" /\ todo[p] # <<>>
    /\ LET d == Head(todo[p])
       IN IF MayInstall(p, d)
          THEN (d \in present \/ ~ToInstall(p, d)) /\ Note(p, Answer(p, d))
          ELSE UNCHANGED attempts
    /\ Finish(p)
    /\ UNCHANGED <<machineVars, setupVars, at, ready, tried, refused, copy, scanVars>>

-------------------------------------------------------------------------------
(***************************************************************************)
(* The registry                                                            *)
(***************************************************************************)
\* upsert_tool_registry: the rows are read after a new check of the machine;
\* tools status uses the check it began with.
ReadRegistry(p) ==
    /\ at[p] \in {"prepare", "command"} /\ todo[p] = <<>>
    /\ ready' = IF job[p] = "status" THEN ready ELSE [ready EXCEPT ![p] = present]
    /\ copy' = [copy EXCEPT ![p] = registry]
    /\ at' = [at EXCEPT ![p] = "register"]
    /\ UNCHANGED <<machineVars, setupVars, todo, tried, attempts, refused, scanVars>>

\* install-tools refreshes the registry without its attempts.
Passed(p) == IF job[p] \in {"install_tools", "install_tools_browser"} THEN <<>> ELSE attempts[p]

Checked(p, d) == IF d \in ready[p] THEN "installed" ELSE "missing"

\* Mutant: every attempt is counted, also the one that only says "already tried".
RowOfEvery(p, d) ==
    LET as == Passed(p) IN
    IF Of(d, as) = <<>> THEN [status |-> Checked(p, d), count |-> copy[p][d].count]
    ELSE [status |-> IF LastOf(d, as).status = "completed" THEN "installed" ELSE "install_failed",
          count  |-> copy[p][d].count + Len(Of(d, as))]

\* The row of a dependency: what the check found, unless there is an attempt,
\* whose word then counts more than the check.
RowOf(p, d) ==
    LET as == Passed(p) IN
    IF Of(d, as) = <<>> THEN [status |-> Checked(p, d), count |-> copy[p][d].count]
    ELSE [status |-> IF LastOf(d, as).status = "completed" THEN "installed" ELSE "install_failed",
          count  |-> copy[p][d].count + (IF LastOf(d, as).attempted THEN 1 ELSE 0)]

\* An assignment that changes nothing is not written.
Assigned(new, read, now) == IF new = read THEN now ELSE new

\* What a process knew is gone when it ends; tried and refused are kept as history.
Forget(p) ==
    /\ ready' = [ready EXCEPT ![p] = {}]
    /\ attempts' = [attempts EXCEPT ![p] = <<>>]
    /\ copy' = [copy EXCEPT ![p] = [d \in Deps |-> NoRow]]

\* The rows are written: over what other processes have written since, but a
\* row of a dependency that another process has inserted violates tool_name's
\* uniqueness, and the exception ends the process.
Clashes(p) == \E d \in Deps : copy[p][d] = NoRow /\ registry[d] # NoRow

WriteRegistry(p) ==
    /\ at[p] = "register" /\ ~Clashes(p)
    /\ registry' = [d \in Deps |->
                      [status |-> Assigned(RowOf(p, d).status, copy[p][d].status, registry[d].status),
                       count  |-> Assigned(RowOf(p, d).count, copy[p][d].count, registry[d].count)]]
    /\ IF job[p] = "scan"
       THEN /\ at' = [at EXCEPT ![p] = "report"]
            /\ UNCHANGED <<ready, attempts, copy>>
       ELSE at' = [at EXCEPT ![p] = "done"] /\ Forget(p)
    /\ UNCHANGED <<present, setupVars, todo, tried, refused, scanVars>>

RegistryClash(p) ==
    /\ at[p] = "register" /\ Clashes(p)
    /\ at' = [at EXCEPT ![p] = "crashed"]
    /\ Forget(p)
    /\ UNCHANGED <<machineVars, setupVars, todo, tried, refused, scanVars>>

-------------------------------------------------------------------------------
(***************************************************************************)
(* The scan goes on                                                        *)
(***************************************************************************)
Undone(p) == {a \in ToSet(attempts[p]) : a.status # "completed"}

\* Mutant: only installers that ran are recorded.
RecordAttemptsRun(p) ==
    /\ at[p] = "report"
    /\ LET undone == {a \in Undone(p) : a.attempted}
       IN /\ rows' = [rows EXCEPT ![p] = {<<ToolFor(a.dep), a.status>> :
                         a \in {b \in undone : Selected(p, ToolFor(b.dep))}}]
          /\ skipped' = [skipped EXCEPT ![p] = {ToolFor(a.dep) :
                            a \in {b \in undone : ~Selected(p, ToolFor(b.dep))}}]
    /\ todo' = [todo EXCEPT ![p] = plan[p]]
    /\ at' = [at EXCEPT ![p] = "loop"]
    /\ Forget(p)
    /\ UNCHANGED <<machineVars, setupVars, tried, refused, plan, ran>>

\* _record_install_attempt, for every attempt that did not complete: a tool run
\* of the first tool with that dependency, which _record_tool turns into an
\* entry of the skipped tools if that tool is not executable.
RecordAttempts(p) ==
    /\ at[p] = "report"
    /\ LET undone == Undone(p)
       IN /\ rows' = [rows EXCEPT ![p] = {<<ToolFor(a.dep), a.status>> :
                         a \in {b \in undone : Selected(p, ToolFor(b.dep))}}]
          /\ skipped' = [skipped EXCEPT ![p] = {ToolFor(a.dep) :
                            a \in {b \in undone : ~Selected(p, ToolFor(b.dep))}}]
    /\ todo' = [todo EXCEPT ![p] = plan[p]]
    /\ at' = [at EXCEPT ![p] = "loop"]
    /\ Forget(p)
    /\ UNCHANGED <<machineVars, setupVars, tried, refused, plan, ran>>

\* _missing_runtime_dependency and _tool_install_enabled.
NeedsPlan(p, t) == ~Ready(t, present) /\ dynamic[p] = "enabled"

RunTool(p) ==
    /\ at[p] = "loop" /\ todo[p] # <<>>
    /\ ~NeedsPlan(p, Head(todo[p]))
    /\ ran' = [ran EXCEPT ![p] = @ \cup {<<Head(todo[p]), Ready(Head(todo[p]), present)>>}]
    /\ Finish(p)
    /\ UNCHANGED <<machineVars, setupVars, at, prepVars, copy, plan, rows, skipped>>

\* _attempt_missing_tool_install: the advisor's plan, approved or not, or the
\* deterministic one.  install-tool runs the deterministic plan.
PlanBegins(p) ==
    /\ at[p] = "loop" /\ todo[p] # <<>>
    /\ NeedsPlan(p, Head(todo[p]))
    /\ at' = [at EXCEPT ![p] = "plan"]
    /\ UNCHANGED <<machineVars, setupVars, todo, prepVars, copy, scanVars>>

StartInstallTool(p) ==
    /\ at[p] = "off" /\ "install_tool" \in Jobs
    /\ job' = [job EXCEPT ![p] = "install_tool"]
    /\ \E d \in Deps : todo' = [todo EXCEPT ![p] = <<d>>]
    /\ at' = [at EXCEPT ![p] = "plan"]
    /\ UNCHANGED <<machineVars, dynamic, chosen, prepVars, copy, scanVars>>

PlanFor(p) == IF job[p] = "scan" THEN Dependency[Head(todo[p])] ELSE Head(todo[p])

\* _execute_plan_once: one command after the other.  A command that is not safe
\* or fails ends the plan, and so does a verification that fails; there is no
\* second attempt, because nobody provides a corrected plan.  The plan has
\* completed when its own verification says so.
PlanCompletes(p) ==
    /\ at[p] = "plan"
    /\ \E found \in SUBSET {PlanFor(p)} : present' = present \cup found
    /\ at' = [at EXCEPT ![p] = IF job[p] = "scan" THEN "planned" ELSE "done"]
    /\ UNCHANGED <<registry, setupVars, todo, prepVars, copy, scanVars>>

\* _record_dependency_block for the tool whose plan failed, or which is not
\* there although the plan says it is.
Block(p) ==
    /\ rows' = [rows EXCEPT ![p] = @ \cup {<<Head(todo[p]), "missing_prerequisite">>}]
    /\ Finish(p)

PlanFails(p) ==
    /\ at[p] = "plan"
    /\ \E found \in SUBSET {PlanFor(p)} : present' = present \cup found
    /\ IF job[p] = "scan" THEN Block(p) /\ at' = [at EXCEPT ![p] = "loop"]
       ELSE at' = [at EXCEPT ![p] = "done"] /\ UNCHANGED <<todo, rows>>
    /\ UNCHANGED <<registry, setupVars, prepVars, copy, plan, skipped, ran>>

\* Mutant: the plan's word is taken for it.
BelievePlan(p) ==
    /\ at[p] = "planned"
    /\ Finish(p) /\ UNCHANGED rows
    /\ ran' = [ran EXCEPT ![p] = @ \cup {<<Head(todo[p]), Ready(Head(todo[p]), present)>>}]
    /\ at' = [at EXCEPT ![p] = "loop"]
    /\ UNCHANGED <<machineVars, setupVars, prepVars, copy, plan, skipped>>

\* After a completed plan the dependency is looked for once more.
AfterPlan(p) ==
    /\ at[p] = "planned"
    /\ IF Ready(Head(todo[p]), present)
       THEN /\ ran' = [ran EXCEPT ![p] = @ \cup {<<Head(todo[p]), TRUE>>}]
            /\ Finish(p) /\ UNCHANGED rows
       ELSE Block(p) /\ UNCHANGED ran
    /\ at' = [at EXCEPT ![p] = "loop"]
    /\ UNCHANGED <<machineVars, setupVars, prepVars, copy, plan, skipped>>

LoopEnds(p) ==
    /\ at[p] = "loop" /\ todo[p] = <<>>
    /\ at' = [at EXCEPT ![p] = "done"]
    /\ UNCHANGED <<machineVars, setupVars, todo, prepVars, copy, scanVars>>

-------------------------------------------------------------------------------
Init ==
    /\ present \in SUBSET Deps
    /\ registry = [d \in Deps |-> NoRow]
    /\ job = [p \in Processes |-> "none"]
    /\ dynamic = [p \in Processes |-> "off"]
    /\ at = [p \in Processes |-> "off"]
    /\ chosen = [p \in Processes |-> <<>>]
    /\ todo = [p \in Processes |-> <<>>]
    /\ ready = [p \in Processes |-> {}]
    /\ tried = [p \in Processes |-> {}]
    /\ attempts = [p \in Processes |-> <<>>]
    /\ plan = [p \in Processes |-> <<>>]
    /\ copy = [p \in Processes |-> [d \in Deps |-> NoRow]]
    /\ rows = [p \in Processes |-> {}]
    /\ skipped = [p \in Processes |-> {}]
    /\ ran = [p \in Processes |-> {}]
    /\ refused = [p \in Processes |-> FALSE]

Works(p) ==
    \/ ToolIsReady(p) \/ PrepareWithoutInstaller(p) \/ InstallBegins(p)
    \/ InstallEnds(p) \/ KatanaWithoutGo(p) \/ CommandGoesOn(p)
    \/ ReadRegistry(p) \/ WriteRegistry(p) \/ RegistryClash(p)
    \/ RecordAttempts(p) \/ RunTool(p) \/ PlanBegins(p)
    \/ PlanCompletes(p) \/ PlanFails(p) \/ AfterPlan(p) \/ LoopEnds(p)

Next == \E p \in Processes :
    StartScan(p) \/ StartCommand(p) \/ StartInstallTool(p) \/ Works(p)

Spec == Init /\ [][Next]_vars

===============================================================================
