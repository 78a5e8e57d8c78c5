----------------------------- MODULE PlanProperties -----------------------------
(***************************************************************************)
(* What holds of a scan's options and plans, however often it is run.      *)
(***************************************************************************)
EXTENDS ScanPlan

\* Every variable has its type; a plan never lists as executed what has no tool
\* run (models.py: Scan; prompt_runner.py: _selected_tool_plan_payload).
PlanTypeOK ==
    /\ born \in {"none", "dashboard", "terminal"}
    /\ row.on \subseteq Flags \ {"full"} /\ row.policy \in Policies /\ row.confirmed \in BOOLEAN
    /\ \A o \in {config, event} : o.profile \in Profiles /\ o.policy \in Policies /\ o.on \subseteq Flags
    /\ plan.final \cup plan.allowed \cup cases \cup runs \subseteq Tools
    /\ plan.executed \subseteq runs
    /\ flagged \in BOOLEAN
    /\ status \in {"none", "created", "planning", "failed_precheck", "ready", "running",
                   "stopped", "failed", "completed", "execution_error"}
    /\ work.at \in {"off", "loaded", "planned", "tools"} /\ work.todo \subseteq Tools

\* A scan that was accepted once is never refused later: what its columns, its
\* options and its creation event say of it together does not contradict itself,
\* in any run (scan_config.py: normalize_scan_config; cli.py: scan_run_existing).
RerunsAreAccepted == status # "failed_precheck"

\* Tests that change the target's data are only permitted in a scan of the
\* dashboard if somebody has confirmed it, whether the form, the policy or the
\* profile asked for them (app.py: api_start, _create_dashboard_scan).
ConsentIsGiven ==
    born = "dashboard" /\ ("destructive" \in row.on \/ row.policy = "lab_full_allowed") =>
        row.confirmed

\* Every run of a scan of the dashboard selects the same tools, although it puts
\* its options together from three places that earlier runs have written, and
\* the model answers each of them anew.  The exception are tools that only its
\* answer can bring, by another name for a tool that it is offered (cli.py:
\* scan_run_existing; prompt_runner.py: run_prompt_scan, _normalize_ai_tools).
OnlyNamed == PlanTools(TRUE) \ ParserTools(TRUE)
PlansRepeat ==
    [][born = "dashboard" /\ work.at = "loaded" /\ work'.at = "planned" =>
        work'.todo \cup OnlyNamed = cases' \cup OnlyNamed]_vars

\* Once a scan has a plan, no tool outside the categories that were chosen gets a
\* tool run, in a run or a continuation and when no tool could be prepared
\* (prompt_runner.py: is_tool_selected, _record_tool).
RecordedAreChosen ==
    [][plan.written /\ config.categories # {} =>
        runs' \ runs \subseteq AllowedBy(config.categories)]_vars

\* Violated.  A plan lists what was "attempted_but_should_not_have_executed", and
\* the scan ends as an error for it: then some tool ran that no run of the scan
\* had planned (prompt_runner.py: _write_selected_tool_plan).
FlagIsDeserved == flagged => runs \ cases # {}

===============================================================================
