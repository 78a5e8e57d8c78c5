------------------------------- MODULE PhaseBook -------------------------------
(***************************************************************************)
(* The books kept of a scan's progress: the phase rows, which are derived  *)
(* from its tool runs whenever somebody looks, the planned test cases, the *)
(* coverage cases, and the production readiness that is read off them.     *)
(*                                                                         *)
(* One worker at a time runs the scan or continues one of its phases;      *)
(* readers (dashboard requests, reports, `scan show`) derive the phases    *)
(* again and write them in a transaction of their own.                     *)
(***************************************************************************)
EXTENDS Naturals, FiniteSets, Sequences, SequencesExt, OrderedPicks

CONSTANTS
    Readers,     \* requests that read the scan's readiness
    Tools,       \* the tools that the plans choose from; required ones that are
                 \* not among them are taken to have run
    Categories,  \* the coverage categories that are followed
    Results,     \* the ends that a tool may come to
    Facts,       \* what else the readiness depends on: records of FactRecords
    MaxRows      \* bound: tool runs of the scan

FactRecords == [default : BOOLEAN, crapi : BOOLEAN, authApi : BOOLEAN, sessions : BOOLEAN]

PhaseTools ==
    [enumeration |-> {"http_client", "technology_fingerprint", "root_link_inventory",
        "robots_txt", "sitemap_xml", "static_asset_inventory", "api_path_hints", "crawler",
        "katana", "gobuster_dir", "ffuf_dir", "nmap_top_ports"},
     api_discovery |-> {"openapi_discovery", "api_profile_probe", "api_method_probe",
        "ffuf_api_paths", "gobuster_api_paths"},
     auth_mapping |-> {"auth_session_mapping"},
     account_provisioning |-> {"account_provisioning"},
     login_session |-> {"login_session"},
     token_analysis |-> {"token_analysis", "jwt_adaptive"},
     authenticated_crawling |-> {"authenticated_crawling"},
     authorization_testing |-> {"authorization_matrix", "idor_bola_bfla_planner"},
     input_validation_testing |-> {"input_validation_planner", "xss_adaptive",
        "sqli_adaptive", "ssrf_adaptive", "jwt_adaptive"},
     business_logic_testing |-> {"business_logic_planner"}]
OtherPhases == {"precheck", "ai_planning", "ai_evidence_review", "reporting", "retest", "closure"}
Phases      == {p \in DOMAIN PhaseTools : PhaseTools[p] \cap Tools # {}} \cup OtherPhases

\* The tools of an entry; the first one is the selected tool of its case.
CategoryTools ==
    [Authentication |-> <<"auth_session_mapping", "account_provisioning", "login_session">>,
     SessionManagement |-> <<"login_session", "token_analysis">>,
     TokenSecurity |-> <<"jwt_adaptive", "token_analysis">>,
     Authorization |-> <<"authorization_matrix">>,
     ObjectLevel |-> <<"authorization_matrix", "idor_bola_bfla_planner">>,
     FunctionLevel |-> <<"authorization_matrix", "idor_bola_bfla_planner">>,
     InputValidation |-> <<"input_validation_planner">>,
     CrossSiteScripting |-> <<"xss_adaptive">>,
     SqlInjection |-> <<"sqli_adaptive">>,
     RequestForgery |-> <<"ssrf_adaptive">>,
     BusinessLogic |-> <<"business_logic_planner">>,
     Misconfiguration |-> <<"technology_fingerprint", "openapi_discovery">>,
     HttpMethods |-> <<"api_method_probe">>,
     Exposure |-> <<"http_client", "static_asset_inventory">>,
     ErrorHandling |-> <<"api_method_probe", "input_validation_planner">>,
     ApiInventory |-> <<"openapi_discovery", "api_profile_probe", "api_method_probe">>]
CategoryOrder ==
    <<"Authentication", "SessionManagement", "TokenSecurity", "Authorization",
      "ObjectLevel", "FunctionLevel", "InputValidation", "CrossSiteScripting",
      "SqlInjection", "RequestForgery", "BusinessLogic", "Misconfiguration",
      "HttpMethods", "Exposure", "ErrorHandling", "ApiInventory">>

\* AUTH_GATE_BLOCKED_TOOLS, as far as phases have them.
Gated == {"authenticated_crawling", "authorization_matrix", "idor_bola_bfla_planner"}

\* `scan continue --full` runs these for the phase account_provisioning.
FullTools ==
    {"account_provisioning", "login_session", "token_analysis", "authenticated_crawling",
     "authorization_matrix", "idor_bola_bfla_planner", "jwt_adaptive", "input_validation_planner",
     "xss_adaptive", "sqli_adaptive", "ssrf_adaptive", "business_logic_planner"}

AllTools == UNION {PhaseTools[p] : p \in DOMAIN PhaseTools}
RequiredTools == {"authenticated_crawling", "authorization_matrix",
                  "input_validation_planner", "jwt_adaptive", "business_logic_planner"}

ASSUME ToolsAssumption == Tools \subseteq AllTools
ASSUME CategoriesAssumption == Categories \subseteq DOMAIN CategoryTools
ASSUME ResultsAssumption ==
    Results \subseteq {"completed", "finding_created", "execution_error",
                  "missing_prerequisite", "manual_confirmation_required"}
ASSUME FactsAssumption == Facts \subseteq FactRecords
ASSUME RowsAssumption == MaxRows \in Nat

VARIABLES
    facts,     \* fixed by what the scan has discovered
    status,    \* scans.status
    phase,     \* status of each scan_phases row, absent before it is inserted
    rows,      \* status of the tool_runs of each tool, in the order of insertion
    cases,     \* the test cases in the order of insertion: planned and coverage
    severe,    \* a critical or high finding is open
    work,      \* the worker: where it is, what for, its tool and what is left
    read       \* each reader: where it is, the phases it will write, its verdict

bookVars == <<phase, rows, cases>>
vars == <<facts, status, bookVars, severe, work, read>>

-------------------------------------------------------------------------------
Statuses  == {"completed", "finding_created", "execution_error", "missing_prerequisite",
              "manual_confirmation_required"}
Fine      == {"completed", "not_applicable"}
Justified == Fine \cup {"finding_created", "missing_prerequisite", "manual_confirmation_required"}

ToolsOf(p) == IF p \in DOMAIN PhaseTools THEN PhaseTools[p] \cap Tools ELSE {}

\* The tool runs of the scan, and their number for the bound.
Runs     == UNION {{t} \X DOMAIN rows[t] : t \in Tools}
RowCount == Cardinality(Runs)

\* by_tool and status_by_tool: one row of each tool that has any.  The rows are
\* read in no particular order, so it may be any of them.
HasRow  == {t \in Tools : rows[t] # <<>>}
Picks == {c \in [HasRow -> Statuses \cup {"running"}] : \A t \in HasRow : c[t] \in ToSet(rows[t])}

\* sync_scan_phases, for one phase: the first status that applies.
Derived(seen) ==
    IF "finding_created" \in seen THEN "finding_created"
    ELSE IF "execution_error" \in seen THEN "execution_error"
    ELSE IF "missing_prerequisite" \in seen THEN "missing_prerequisite"
    ELSE IF seen \subseteq Fine THEN "completed" ELSE "running"

\* Mutant: a phase that is marked as running is left to whoever marked it.
SyncedUnlessRunning(marked, c) ==
    [p \in Phases |->
        LET seen == {c[t] : t \in ToolsOf(p) \cap HasRow}
        IN IF seen = {} \/ marked[p] = "running" THEN marked[p] ELSE Derived(seen)]

\* The phases derived from the chosen rows; one without rows keeps its mark.
Synced(marked, c) ==
    [p \in Phases |->
        LET seen == {c[t] : t \in ToolsOf(p) \cap HasRow}
        IN IF seen = {} THEN marked[p] ELSE Derived(seen)]

\* ensure_scan_phases: what is missing is inserted, and a row that somebody
\* else has inserted meanwhile is left alone.
Ensured(ph) == [p \in Phases |-> IF ph[p] = "absent" THEN "planned" ELSE ph[p]]

\* _coverage_status_local, of the statuses of the tools in their order.
Covered(seen) ==
    LET bad == InOrder(seen, {"execution_error", "missing_prerequisite"})
    IN IF Contains(seen, "finding_created") THEN "finding_created"
       ELSE IF bad # <<>> THEN Head(bad)
       ELSE IF Contains(seen, "manual_confirmation_required") THEN "manual_confirmation_required"
       ELSE IF Contains(seen, "completed") THEN "completed" ELSE "running"

\* The chosen statuses of those tools of a category that have any.
Seen(k, c) ==
    LET run == InOrder(CategoryTools[k], HasRow)
    IN [i \in DOMAIN run |-> c[run[i]]]

\* Mutant: a category is covered by any tool's word, run or not.
CoveredAnyway(k, c) ==
    IF Seen(k, c) = <<>> THEN {"completed"} ELSE {Covered(Seen(k, c))}

\* An entry of the coverage matrix: a category none of whose tools has run is
\* not applicable, or misses something.
CoverageOf(k, c) ==
    IF Seen(k, c) = <<>> THEN {"missing_prerequisite", "not_applicable"}
    ELSE {Covered(Seen(k, c))}

-------------------------------------------------------------------------------
(***************************************************************************)
(* Test cases                                                              *)
(***************************************************************************)
Names    == {cases[i].name : i \in DOMAIN cases}
Case(n, t, s) == [name |-> n, tool |-> t, status |-> s]

\* _create_planned_test_cases: a case that exists keeps its status.
WithPlanned(chosen) ==
    cases \o [i \in 1..Cardinality(chosen \ Names) |->
                 LET t == SetToSeq(chosen \ Names)[i] IN Case(t, t, "planned")]

\* _record_tool gives its status to the newest case of the tool, which after a
\* first run is a coverage case that the tool heads.
Newest(cs, t) == {i \in DOMAIN cs : cs[i].tool = t /\ \A j \in DOMAIN cs : cs[j].tool = t => j <= i}
Recorded(cs, t, s) ==
    [i \in DOMAIN cs |-> IF i \in Newest(cs, t) THEN [cs[i] EXCEPT !.status = s] ELSE cs[i]]

\* The tool loop also gives it to the planned case.
Finished(cs, t, s) ==
    [i \in DOMAIN cs |-> IF cs[i].name = t THEN [cs[i] EXCEPT !.status = s] ELSE cs[i]]

\* The gate looks for the one case of a tool, and raises if there are several.
Single(t) == \A i, j \in DOMAIN cases : cases[i].tool = t /\ cases[j].tool = t => i = j
Marked(blocked) ==
    [i \in DOMAIN cases |->
        IF cases[i].tool \in blocked THEN [cases[i] EXCEPT !.status = "coverage_gap_auth_blocked"]
        ELSE cases[i]]

\* _finalize_test_case_lifecycle: a coverage case is inserted once and then only
\* replaced while it is planned; a planned case that is left misses something.
Finalized(got) ==
    LET new == InOrder(CategoryOrder, Categories \ Names)
        all == cases \o [i \in DOMAIN new |-> Case(new[i], Head(CategoryTools[new[i]]), got[new[i]])]
    IN [i \in DOMAIN all |->
           IF all[i].status = "planned" THEN [all[i] EXCEPT !.status = "missing_prerequisite"]
           ELSE all[i]]

-------------------------------------------------------------------------------
(***************************************************************************)
(* The worker: a run                                                       *)
(***************************************************************************)
Off == [at |-> "off", job |-> "none", todo |-> <<>>, seen |-> {}]

\* run_prompt_scan inserts the phases, marks the first two and plans the cases
\* of the tools that this run's plan has chosen.
StartRun ==
    /\ work.at = "off"
    /\ \E chosen \in SUBSET Tools \ {{}} :
        /\ RowCount + 2 * Cardinality(chosen) <= MaxRows
        /\ cases' = WithPlanned(chosen)
        /\ work' = [Off EXCEPT !.at = "tools", !.job = "run", !.todo = SetToSeq(chosen)]
    /\ status' = "running"
    /\ phase' = [Ensured(phase) EXCEPT !["precheck"] = "completed", !["ai_planning"] = "completed"]
    /\ UNCHANGED <<facts, rows, severe, read>>

\* The marker of a tool run is committed before the tool runs.
BeginTool ==
    /\ work.at = "tools" /\ work.job = "run" /\ work.todo # <<>>
    /\ rows' = [rows EXCEPT ![Head(work.todo)] = Append(@, "running")]
    /\ work' = [work EXCEPT !.at = "testing"]
    /\ UNCHANGED <<facts, status, phase, cases, severe, read>>

\* A new finding may be of any severity.
Found(s) == severe' \in {severe, severe \/ s = "finding_created"}

\* The tool's own row is recorded and its marker gets the same status.
EndTool ==
    /\ work.at = "testing"
    /\ \E s \in Results :
        LET t == Head(work.todo)
        IN /\ rows' = [rows EXCEPT ![t] = Append([@ EXCEPT ![Len(@)] = s], s)]
           /\ cases' = Finished(Recorded(cases, t, s), t, s)
           /\ Found(s)
    /\ work' = [work EXCEPT !.at = "tools", !.todo = Tail(@)]
    /\ UNCHANGED <<facts, status, phase, read>>

\* A dependency block records a run that never began.
BlockTool ==
    /\ work.at = "tools" /\ work.job = "run" /\ work.todo # <<>>
    /\ LET t == Head(work.todo)
           s == "missing_prerequisite"
       IN /\ rows' = [rows EXCEPT ![t] = Append(@, s)]
          /\ cases' = Finished(Recorded(cases, t, s), t, s)
    /\ work' = [work EXCEPT !.todo = Tail(@)]
    /\ UNCHANGED <<facts, status, phase, severe, read>>

\* A tool that is not selected is passed over without a row.
SkipTool ==
    /\ work.at = "tools" /\ work.job = "run" /\ work.todo # <<>>
    /\ work' = [work EXCEPT !.todo = Tail(@)]
    /\ UNCHANGED <<facts, status, bookVars, severe, read>>

\* So is one that the authentication gate blocks, but its case is marked; if it
\* has several, what the lookup raises ends the run.
GateTool ==
    /\ work.at = "tools" /\ work.job = "run" /\ work.todo # <<>>
    /\ Head(work.todo) \in Gated
    /\ \/ /\ Single(Head(work.todo))
          /\ cases' = Marked({Head(work.todo)})
          /\ work' = [work EXCEPT !.todo = Tail(@)]
          /\ UNCHANGED status
       \/ /\ ~Single(Head(work.todo))
          /\ status' = "failed"
          /\ work' = Off
          /\ UNCHANGED cases
    /\ UNCHANGED <<facts, phase, rows, severe, read>>

\* session_validation, which comes before the tools of the gate, has not proven
\* a login: they are marked in no particular order and the run ends.
GateStops ==
    /\ work.at = "tools" /\ work.job = "run"
    /\ LET gated == Gated \cap ToSet(work.todo)
       IN \/ /\ \A t \in gated : Single(t)
             /\ cases' = Marked(gated)
             /\ status' = "auth_blocked"
          \/ /\ \E t \in gated : ~Single(t)
             /\ \E before \in SUBSET {t \in gated : Single(t)} : cases' = Marked(before)
             /\ status' = "failed"
    /\ work' = Off
    /\ UNCHANGED <<facts, phase, rows, severe, read>>

\* Pause or stop: nothing more is written.
StopRun ==
    /\ work.at = "tools" /\ work.job = "run"
    /\ status' = "stopped"
    /\ work' = Off
    /\ UNCHANGED <<facts, bookVars, severe, read>>

\* Any exception but those of a tool: the marker stays as it is.
CrashRun ==
    /\ work.at \in {"tools", "testing"} /\ work.job = "run"
    /\ status' = "failed"
    /\ work' = Off
    /\ UNCHANGED <<facts, bookVars, severe, read>>

\* The mark of the review: one that has once been completed is found again, and
\* its phase stays so.
Reviewed(m) ==
    [Ensured(phase) EXCEPT !["ai_evidence_review"] = IF @ = "completed" THEN @ ELSE m]

\* Mutant: the run completes without closing its test cases.
CompleteUnfinalized ==
    /\ work.at = "tools" /\ work.job = "run" /\ work.todo = <<>>
    /\ \E c \in Picks, m \in {"completed", "execution_error"} : phase' = Synced(Reviewed(m), c)
    /\ status' = "completed"
    /\ work' = Off
    /\ UNCHANGED <<facts, rows, cases, severe, read>>

\* The review is marked, the phases are derived and the cases are closed.
Complete ==
    /\ work.at = "tools" /\ work.job = "run" /\ work.todo = <<>>
    /\ \E c \in Picks, m \in {"completed", "execution_error"} : phase' = Synced(Reviewed(m), c)
    /\ \E c \in Picks :
        \E got \in [Categories -> Statuses \cup {"not_applicable", "running"}] :
            /\ \A k \in Categories : got[k] \in CoverageOf(k, c)
            /\ cases' = Finalized(got)
    /\ status' = "completed"
    /\ work' = Off
    /\ UNCHANGED <<facts, rows, severe, read>>

-------------------------------------------------------------------------------
(***************************************************************************)
(* The worker: scan continue                                               *)
(***************************************************************************)
\* completed_tools: some run of the tool came to a good end.
Done == {t \in Tools : ToSet(rows[t]) \cap (Fine \cup {"finding_created"}) # {}}

\* The tools that are to be continued with.
ContinueTools(p, full) ==
    IF full /\ p = "account_provisioning" THEN FullTools \cap Tools ELSE ToolsOf(p)

\* The phase is marked as running before its tools are run, those excepted
\* that are done unless they are to be run again.
StartContinue ==
    /\ work.at = "off"
    /\ \E p \in Phases \cap DOMAIN PhaseTools, again, full \in BOOLEAN :
        LET left == ContinueTools(p, full) \ (IF again THEN {} ELSE Done)
        IN /\ RowCount + Cardinality(left) <= MaxRows
           /\ phase' = [Ensured(phase) EXCEPT ![p] = "running"]
           /\ work' = [at |-> "tools", job |-> p, todo |-> SetToSeq(left), seen |-> {}]
    /\ status' = "running"
    /\ UNCHANGED <<facts, rows, cases, severe, read>>

\* No marker and no planned case: only what _record_tool writes.
ContinueTool ==
    /\ work.at = "tools" /\ work.job # "run" /\ work.todo # <<>>
    /\ \E s \in Results :
        LET t == Head(work.todo)
        IN /\ rows' = [rows EXCEPT ![t] = Append(@, s)]
           /\ cases' = Recorded(cases, t, s)
           /\ work' = [work EXCEPT !.todo = Tail(@), !.seen = @ \cup {s}]
           /\ Found(s)
    /\ UNCHANGED <<facts, status, phase, read>>

\* Deriving the phases replaces the mark in the same transaction.
ContinueEnds ==
    /\ work.at = "tools" /\ work.job # "run" /\ work.todo = <<>>
    /\ LET mark == IF "finding_created" \in work.seen THEN "finding_created"
                   ELSE IF "execution_error" \in work.seen THEN "execution_error"
                   ELSE "completed"
       IN \E c \in Picks : phase' = Synced([phase EXCEPT ![work.job] = mark], c)
    /\ status' = "ready"
    /\ work' = Off
    /\ UNCHANGED <<facts, rows, cases, severe, read>>

\* An exception of its tool ends the process: the status stays running.
ContinueCrashes ==
    /\ work.at = "tools" /\ work.job # "run"
    /\ work' = Off
    /\ UNCHANGED <<facts, status, bookVars, severe, read>>

-------------------------------------------------------------------------------
(***************************************************************************)
(* Readers                                                                 *)
(***************************************************************************)
NotRun      == {t \in RequiredTools \cap Tools : rows[t] = <<>>}
Unjustified == {i \in DOMAIN cases : cases[i].name \in Categories /\ cases[i].status \notin Justified}
AuthPhases  == {"authenticated_crawling", "authorization_testing"} \cap Phases

\* Mutant: a failed phase of the authenticated part is not looked at.
ReadinessWithoutAuth(ph) ==
    IF facts.default /\ NotRun # {} THEN "manual_review_required"
    ELSE IF facts.crapi /\ (NotRun # {} \/ ~facts.sessions \/ Unjustified # {}) THEN "not_ready"
    ELSE IF facts.authApi /\ ~facts.sessions THEN "not_ready"
    ELSE IF status = "failed" THEN "manual_review_required"
    ELSE IF severe \/ ph["ai_evidence_review"] = "execution_error" THEN "not_ready"
    ELSE IF NotRun # {} \/ Unjustified # {} THEN "manual_review_required"
    ELSE IF \E p \in Phases : ph[p] = "missing_prerequisite" THEN "manual_review_required"
    ELSE "ready"

\* production_readiness_for_scan, with the phases that it has just derived.  It
\* also asks for findings to be confirmed by hand, but no finding ever is one:
\* only tool runs and cases have that status.
Readiness(ph) ==
    IF facts.default /\ NotRun # {} THEN "manual_review_required"
    ELSE IF facts.crapi /\ (NotRun # {} \/ ~facts.sessions \/ Unjustified # {}) THEN "not_ready"
    ELSE IF facts.authApi /\ ~facts.sessions THEN "not_ready"
    ELSE IF status = "failed" THEN "manual_review_required"
    ELSE IF \/ severe
            \/ \E p \in AuthPhases \cup {"ai_evidence_review"} : ph[p] = "execution_error"
         THEN "not_ready"
    ELSE IF NotRun # {} \/ Unjustified # {} THEN "manual_review_required"
    ELSE IF \E p \in Phases : ph[p] = "missing_prerequisite" THEN "manual_review_required"
    ELSE "ready"

NoRead == [at |-> "idle", dirty |-> <<>>, verdict |-> "none"]

AllThere == \A p \in Phases : phase[p] # "absent"

\* A reader finds phases missing and inserts them afterwards.
Look(r) ==
    /\ read[r].at = "idle" /\ ~AllThere
    /\ read' = [read EXCEPT ![r].at = "looked"]
    /\ UNCHANGED <<facts, status, bookVars, severe, work>>

Insert(r) ==
    /\ read[r].at = "looked"
    /\ phase' = Ensured(phase)
    /\ read' = [read EXCEPT ![r].at = "idle"]
    /\ UNCHANGED <<facts, status, rows, cases, severe, work>>

\* Mutant: every row is written, whether it has changed or not.
AllRows(new) == Phases

\* The session writes the rows that it has changed.
ChangedRows(new) == {p \in Phases : new[p] # phase[p]}

\* `scan continue --phase reporting` is a reader that also marks its own phase.
Reported(ph, report) == IF report THEN [ph EXCEPT !["reporting"] = "completed"] ELSE ph

\* Mutant: the phases are derived without seeing to it that there are all.
DeriveAtOnce(r) ==
    /\ read[r].at = "idle"
    /\ \E c \in Picks, report \in BOOLEAN :
        LET seen == Synced(phase, c)
            new  == Reported(seen, report)
        IN read' = [read EXCEPT ![r] = [at |-> "derived", verdict |-> Readiness(seen),
                                        dirty |-> Restrict(new, ChangedRows(new))]]
    /\ UNCHANGED <<facts, status, bookVars, severe, work>>

\* Phases and tool runs are read, the phases derived and the verdict found.
Derive(r) ==
    /\ read[r].at = "idle" /\ AllThere
    /\ \E c \in Picks, report \in BOOLEAN :
        LET seen == Synced(phase, c)
            new  == Reported(seen, report)
        IN read' = [read EXCEPT ![r] = [at |-> "derived", verdict |-> Readiness(seen),
                                        dirty |-> Restrict(new, ChangedRows(new))]]
    /\ UNCHANGED <<facts, status, bookVars, severe, work>>

\* The reader's transaction commits, whatever was written since it read.
Commit(r) ==
    /\ read[r].at = "derived"
    /\ phase' = [p \in Phases |-> IF p \in DOMAIN read[r].dirty THEN read[r].dirty[p] ELSE phase[p]]
    /\ read' = [read EXCEPT ![r] = NoRead]
    /\ UNCHANGED <<facts, status, rows, cases, severe, work>>

\* Somebody confirms or closes what is open.
CloseFindings ==
    /\ severe
    /\ severe' = FALSE
    /\ UNCHANGED <<facts, status, bookVars, work, read>>

-------------------------------------------------------------------------------
Init ==
    /\ facts \in Facts
    /\ status = "created"
    /\ phase = [p \in Phases |-> "absent"]
    /\ rows = [t \in Tools |-> <<>>]
    /\ cases = <<>>
    /\ severe = FALSE
    /\ work = Off
    /\ read = [r \in Readers |-> NoRead]

Works ==
    \/ StartRun \/ BeginTool \/ EndTool \/ BlockTool \/ SkipTool \/ GateTool \/ GateStops
    \/ StopRun \/ CrashRun \/ Complete
    \/ StartContinue \/ ContinueTool \/ ContinueEnds \/ ContinueCrashes
Reads(r) == Look(r) \/ Insert(r) \/ Derive(r) \/ Commit(r)

Next == Works \/ CloseFindings \/ \E r \in Readers : Reads(r)

Spec == Init /\ [][Next]_vars

===============================================================================
