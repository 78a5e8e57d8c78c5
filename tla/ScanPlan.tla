-------------------------------- MODULE ScanPlan --------------------------------
(***************************************************************************)
(* What a scan was asked to do and what it does of it: the request, the    *)
(* configuration it becomes, the permissions kept in the row, the plan of  *)
(* tools that every run makes anew, and the account of the tools that ran. *)
(*                                                                         *)
(* A scan is requested from the dashboard, and run by workers, or started  *)
(* from the terminal, which runs it at once; either can be run again.      *)
(***************************************************************************)
EXTENDS Naturals, FiniteSets

CONSTANTS
    Tools,       \* the tools that are followed
    Programs,    \* those whose program may be missing from the machine
    Requests     \* what may be asked for: a set of RequestRecords

\* execution_profile may be absent.
Profiles == {"none", "discovery_only", "full-authorized-scan", "authenticated-full-scan",
             "auth-authorization-debug", "destructive-full-scan"}
Policies == {"none", "detect_only", "authenticated_full", "test_owned_only", "lab_full_allowed"}
Flags    == {"full", "authenticated", "authorization", "payload", "rateLimit", "destructive"}
OptionRecords == [profile : Profiles, policy : Policies, on : SUBSET Flags, categories : SUBSET STRING]

\* A request also says who may be tested and that data may be changed.
RequestRecords == [options : OptionRecords, authorized : BOOLEAN, confirmed : BOOLEAN]
ASSUME RequestsAssumption == Requests \subseteq RequestRecords

VARIABLES
    born,        \* where the scan was started: "none", "dashboard" or "terminal"
    row,         \* the permissions kept in the columns of the scan
    config,      \* scans.scan_config: the options
    event,       \* the options that the event of the scan's creation repeats
    plan,        \* scan_config.selected_tool_plan
    flagged,     \* scan_config.scan_quality_status
    status,      \* scans.status
    cases,       \* the tools with a planned test case
    runs,        \* the tools with a row in tool_runs
    work         \* the worker: where it is, its prompt and its executable tools

asked == <<born, event>>
vars == <<asked, row, config, plan, flagged, status, cases, runs, work>>

-------------------------------------------------------------------------------
(***************************************************************************)
(* Options                                                                 *)
(***************************************************************************)
NoOptions == [profile |-> "none", policy |-> "none", on |-> {}, categories |-> {}]

TestsMore(o) == o.on # {} \/ o.policy = "lab_full_allowed"

Resolved(o) ==
    IF o.profile # "none" THEN o.profile
    ELSE IF o.policy = "lab_full_allowed" \/ "destructive" \in o.on THEN "destructive-full-scan"
    ELSE IF TestsMore(o) THEN "full-authorized-scan" ELSE "discovery_only"

\* normalize_scan_config: refuses what contradicts itself.
Contradicts(o) ==
    \/ Resolved(o) = "discovery_only" /\ TestsMore(o)
    \/ o.policy = "lab_full_allowed" /\ Resolved(o) # "destructive-full-scan"
Normalized(o) == [o EXCEPT !.profile = Resolved(o)]

\* _create_dashboard_scan: two profiles bring their own options.
Complete(o) ==
    CASE o.profile = "auth-authorization-debug" ->
            [o EXCEPT !.policy = "test_owned_only",
                      !.on = (@ \cap {"full"}) \cup {"authenticated", "authorization"}]
      [] o.profile = "destructive-full-scan" -> [o EXCEPT !.on = Flags]
      [] OTHER -> o

\* Mutant: only the form's own flag asks for the confirmation.
MayStartByFlag(r) ==
    LET o == Normalized(r.options)
    IN /\ r.authorized
       /\ "destructive" \in r.options.on => r.confirmed
       /\ ~Contradicts(r.options)

\* api_start and _create_dashboard_scan accept the request.
MayStart(r) ==
    LET o == Normalized(r.options)
    IN /\ r.authorized
       /\ "destructive" \in r.options.on => r.confirmed
       /\ ~Contradicts(r.options)
       /\ o.profile = "destructive-full-scan" => r.confirmed

\* The columns of the row: all flags but full, which only the options hold.
Columns(o, confirmed) == [on |-> o.on \ {"full"}, policy |-> o.policy, confirmed |-> confirmed]

\* scan run-existing: the options, overridden by those of the creation event,
\* overridden by the columns.
Merged ==
    LET base == IF event # NoOptions THEN event ELSE config
    IN [base EXCEPT !.on = (@ \cap {"full"}) \cup row.on,
                    !.policy = IF row.policy # "none" THEN row.policy ELSE @]

-------------------------------------------------------------------------------
(***************************************************************************)
(* Tools                                                                   *)
(***************************************************************************)
CategoryTools ==
    [recon |-> {"http_client", "technology_fingerprint", "root_link_inventory",
                "robots_txt", "sitemap_xml"},
     network_recon |-> {"nmap_top_ports"},
     api_discovery |-> {"openapi_discovery", "static_asset_inventory", "api_path_hints",
                        "api_profile_probe"},
     api_discovery_aggressive |-> {"crawler", "katana", "ffuf_dir", "gobuster_dir",
                                   "ffuf_api_paths", "gobuster_api_paths"},
     method_discovery |-> {"api_method_probe"},
     security_headers |-> {"security_headers_check", "csp_headers_check",
                           "cache_control_check", "cors_check"},
     error_handling |-> {"error_disclosure_check"},
     auth_testing |-> {"auth_session_mapping", "account_provisioning", "login_session"},
     session_management |-> {"token_analysis", "session_validation"},
     jwt_testing |-> {"jwt_adaptive"},
     rate_limiting |-> {"rate_limit_planner", "rate_limit_executor"},
     authorization_matrix |-> {"authenticated_crawling", "authorization_matrix"},
     bola_idor |-> {"idor_bola_bfla_planner"},
     mass_assignment |-> {"mass_assignment_testing"},
     input_validation |-> {"input_validation_planner", "xss_adaptive", "sqli_adaptive",
                           "ssrf_adaptive"},
     business_logic |-> {"business_logic_planner"}]

\* A category that the map does not know allows nothing.
AllowedBy(cs) ==
    Tools \cap UNION {CategoryTools[c] : c \in cs \cap DOMAIN CategoryTools}

Inventory ==
    {"http_client", "nmap_top_ports"} \cup UNION {CategoryTools[c] :
        c \in {"recon", "api_discovery", "method_discovery"}}
Payloads == {"xss_adaptive", "sqli_adaptive", "ssrf_adaptive", "jwt_adaptive",
             "input_validation_planner"}
Sessions == {"auth_session_mapping", "account_provisioning", "login_session",
             "token_analysis", "authenticated_crawling"}
Access   == {"authorization_matrix", "idor_bola_bfla_planner"}

\* parse_prompt and select_tools: every prompt asks for default enumeration, so
\* of the rest only the full scan tells.
ParserTools(full) ==
    Inventory \cup
    IF full THEN Sessions \cup Access \cup Payloads
                 \cup {"crawler", "gobuster_dir", "ffuf_dir", "ffuf_api_paths",
                       "gobuster_api_paths", "business_logic_planner"}
    ELSE {}

\* tools_for_execution_profile.
ProfileTools(o) ==
    LET destructive == \/ o.profile = "destructive-full-scan" \/ o.policy = "lab_full_allowed"
                       \/ "destructive" \in o.on
        Asked(f, ts) == IF f \in o.on THEN ts ELSE {}
        basis ==
            IF o.profile = "auth-authorization-debug" THEN
                (Inventory \ {"http_client", "nmap_top_ports"}) \cup Sessions \cup Access
                \cup {"crawler", "session_validation", "authenticated_resource_discovery",
                      "resource_ownership_map", "mass_assignment_testing",
                      "cross_account_access_testing"}
            ELSE IF destructive \/ "full" \in o.on THEN
                (Inventory \ {"nmap_top_ports"}) \cup Sessions \cup Access \cup Payloads
                \cup CategoryTools["security_headers"] \cup CategoryTools["error_handling"]
                \cup {"crawler", "session_validation", "business_logic_planner"}
                \cup (IF "api_discovery_aggressive" \in o.categories
                      THEN {"ffuf_api_paths", "gobuster_api_paths"} ELSE {})
                \cup (IF destructive \/ "rateLimit" \in o.on
                      THEN {"rate_limit_planner"} ELSE {})
            ELSE IF o.on \cap {"authenticated", "authorization"} # {} THEN
                Sessions \cup {"session_validation"} \cup Asked("authorization", Access)
            ELSE {}
    IN basis \cup (IF destructive THEN {} ELSE Asked("payload", Payloads))

\* _normalize_ai_tools: another name for a tool is replaced by the tool.  Of the
\* names that the model is offered only this one is not its tool's own.
Aliases    == [crawler |-> "katana"]
Aliased(t) == IF t \in DOMAIN Aliases THEN Aliases[t] ELSE t

\* What the model can bring into the selection.  It is offered what the parser
\* has selected and accepted with any part of it; without it, all of it counts.
PlanTools(full) == {Aliased(t) : t \in ParserTools(full)}

\* run_prompt_scan, with the tools that the plan of the model names.
Selected(full, o, named) ==
    LET all == Tools \cap
            (IF o.profile = "auth-authorization-debug" THEN ProfileTools(o)
             ELSE ParserTools(full) \cup ProfileTools(o) \cup named)
    IN IF o.categories = {} THEN all ELSE all \cap AllowedBy(o.categories)

NoPlan == [final |-> {}, allowed |-> {}, executed |-> {}, written |-> FALSE]

Bound(p) == IF p.final # {} THEN p.final ELSE p.allowed

\* Mutant: a plan that names no tool forbids none.
IsSelectedUnlessEmpty(t) == Bound(plan) = {} \/ t \in Bound(plan)

\* is_tool_selected.
IsSelected(t) == t \in Bound(plan)

\* _write_selected_tool_plan: every tool that has ever run is compared with the
\* plan of now, and the flag is never taken back.
WritePlan(final, allowed) ==
    /\ plan' = [final |-> final, allowed |-> allowed, written |-> TRUE,
                executed |-> IF runs # {} THEN runs ELSE plan.executed]
    /\ flagged' = (flagged \/ runs \ Bound(plan') # {})

-------------------------------------------------------------------------------
(***************************************************************************)
(* Requests                                                                *)
(***************************************************************************)
Off == [at |-> "off", full |-> FALSE, todo |-> {}]

StartFromDashboard(r) ==
    /\ born = "none" /\ MayStart(r)
    /\ LET o == Complete(Normalized(r.options))
       IN /\ config' = o
          /\ event' = o
          /\ row' = Columns(o, r.confirmed)
    /\ born' = "dashboard"
    /\ status' = "created"
    /\ UNCHANGED <<plan, flagged, cases, runs, work>>

\* Mutant: what the terminal asks for is kept as a profile.
StartFromTerminalNamed(r) ==
    /\ born = "none" /\ r.options.profile = "none"
    /\ row' = Columns(r.options, r.confirmed)
    /\ config' = [NoOptions EXCEPT !.categories = r.options.categories,
                    !.profile = IF "full" \in r.options.on THEN "destructive-full-scan"
                                                          ELSE "discovery_only"]
    /\ born' = "terminal"
    /\ status' = "planning"
    /\ work' = [Off EXCEPT !.at = "loaded", !.full = "full" \in r.options.on]
    /\ UNCHANGED <<event, plan, flagged, cases, runs>>

\* scan start has no profile to choose and keeps neither full nor a
\* configuration, and it asks for no confirmation.
StartFromTerminal(r) ==
    /\ born = "none" /\ r.options.profile = "none"
    /\ row' = Columns(r.options, r.confirmed)
    /\ config' = [NoOptions EXCEPT !.categories = r.options.categories]
    /\ born' = "terminal"
    /\ status' = "planning"
    /\ work' = [Off EXCEPT !.at = "loaded", !.full = "full" \in r.options.on]
    /\ UNCHANGED <<event, plan, flagged, cases, runs>>

-------------------------------------------------------------------------------
(***************************************************************************)
(* The worker                                                              *)
(***************************************************************************)
\* A worker refuses options that contradict each other.
RunExisting ==
    /\ born # "none" /\ work.at = "off"
    /\ IF Contradicts(Merged)
       THEN /\ status' = "failed_precheck"
            /\ UNCHANGED <<config, work>>
       ELSE /\ config' = Normalized(Merged)
            /\ work' = [Off EXCEPT !.at = "loaded", !.full = "full" \in Merged.on]
            /\ UNCHANGED status
    /\ UNCHANGED <<asked, row, plan, flagged, cases, runs>>

\* Mutant: run_prompt_scan is not given the permission and uses its default.
PassedWithoutPayload(r) == [r EXCEPT !.on = @ \ {"payload"}]

\* The columns are written again with what run_prompt_scan is given.
Passed(r) == r

\* The tools are selected, the plan written and the test cases planned.
PlanRun ==
    /\ work.at = "loaded"
    /\ \E named \in SUBSET (Tools \cap PlanTools(work.full)) :
        LET selected == Selected(work.full, config, named)
        IN /\ WritePlan(selected, IF config.categories = {} THEN selected
                                  ELSE AllowedBy(config.categories))
           /\ cases' = cases \cup selected
           /\ work' = [work EXCEPT !.at = "planned", !.todo = selected]
    /\ row' = Passed(row)
    /\ status' = "ready"
    /\ UNCHANGED <<asked, config, runs>>

\* Tools whose program is missing leave the plan.
Prepare ==
    /\ work.at = "planned"
    /\ \E missing \in SUBSET (Programs \cap work.todo) :
        /\ work' = [work EXCEPT !.at = "tools", !.todo = @ \ missing]
        /\ plan' = [plan EXCEPT !.final = work.todo \ missing]
    /\ UNCHANGED <<asked, row, config, flagged, status, cases, runs>>

\* Mutant: the plan notes the tool, but the marker is not written.
BeginToolUnmarked ==
    /\ work.at = "tools"
    /\ \E t \in work.todo :
        /\ IsSelected(t)
        /\ plan' = [plan EXCEPT !.executed = @ \cup {t}]
        /\ work' = [work EXCEPT !.todo = @ \ {t}]
    /\ flagged' = (flagged \/ plan'.executed \ Bound(plan) # {})
    /\ status' = "running"
    /\ UNCHANGED <<asked, row, config, cases, runs>>

\* The marker of the tool run and the account of the plan.
BeginTool ==
    /\ work.at = "tools"
    /\ \E t \in work.todo :
        /\ IsSelected(t)
        /\ runs' = runs \cup {t}
        /\ plan' = [plan EXCEPT !.executed = @ \cup {t}]
        /\ work' = [work EXCEPT !.todo = @ \ {t}]
    /\ flagged' = (flagged \/ plan'.executed \ Bound(plan) # {})
    /\ status' = "running"
    /\ UNCHANGED <<asked, row, config, cases>>

StopRun ==
    /\ work.at = "tools" /\ work.todo # {}
    /\ WritePlan(plan.final, plan.allowed)
    /\ status' = "stopped"
    /\ work' = Off
    /\ UNCHANGED <<asked, row, config, cases, runs>>

CrashRun ==
    /\ work.at # "off"
    /\ status' = "failed"
    /\ work' = Off
    /\ UNCHANGED <<asked, row, config, plan, flagged, cases, runs>>

EndRun ==
    /\ work.at = "tools" /\ work.todo = {}
    /\ WritePlan(plan.final, plan.allowed)
    /\ status' = IF flagged' THEN "execution_error" ELSE "completed"
    /\ work' = Off
    /\ UNCHANGED <<asked, row, config, cases, runs>>

\* scan continue runs the tools of a phase; _record_tool keeps the result unless
\* there is a plan and the tool is not in it.
ContinueTool ==
    /\ born # "none" /\ work.at = "off"
    /\ \E t \in Tools :
        /\ plan.written => IsSelected(t)
        /\ runs' = runs \cup {t}
    /\ status' = "ready"
    /\ UNCHANGED <<asked, row, config, plan, flagged, cases, work>>

-------------------------------------------------------------------------------
Init ==
    /\ born = "none"
    /\ row = [on |-> {}, policy |-> "none", confirmed |-> FALSE]
    /\ config = NoOptions
    /\ event = NoOptions
    /\ plan = NoPlan
    /\ flagged = FALSE
    /\ status = "none"
    /\ cases = {}
    /\ runs = {}
    /\ work = Off

Next ==
    \/ \E r \in Requests : StartFromDashboard(r) \/ StartFromTerminal(r)
    \/ RunExisting \/ PlanRun \/ Prepare \/ BeginTool \/ StopRun \/ CrashRun \/ EndRun
    \/ ContinueTool

Spec == Init /\ [][Next]_vars

===============================================================================
