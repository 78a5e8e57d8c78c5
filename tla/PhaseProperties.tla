---------------------------- MODULE PhaseProperties ----------------------------
(***************************************************************************)
(* What the books of a scan may be trusted for.                            *)
(***************************************************************************)
EXTENDS PhaseBook

PhaseStatuses == Statuses \cup {"absent", "planned", "running"}
CaseStatuses  == Statuses \cup {"planned", "running", "not_applicable", "coverage_gap_auth_blocked"}

\* Every variable has its type, and a reader that has found a verdict had all
\* of the phases to find it from (case_management.py:
\* ensure_scan_phases; models.py: ScanPhase, TestCase, ToolRun).
PhaseTypeOK ==
    /\ facts \in Facts
    /\ status \in {"created", "running", "stopped", "auth_blocked", "failed", "completed", "ready"}
    /\ phase \in [Phases -> PhaseStatuses]
    /\ RowCount <= MaxRows
    /\ \A t \in Tools : ToSet(rows[t]) \subseteq Statuses \cup {"running"}
    /\ \A i \in DOMAIN cases :
        /\ cases[i].name \in Tools \cup Categories
        /\ cases[i].status \in CaseStatuses
    /\ severe \in BOOLEAN
    /\ \A r \in Readers : read[r].at = "derived" => AllThere

\* A phase that has begun is never planned again, whatever a reader writes that
\* read the phases before it began (case_management.py: ensure_scan_phases,
\* mark_phase, and sessions that write what they have changed).
Begun(ph, p) == ph[p] \notin {"absent", "planned"}
PhasesGoForward == [][\A p \in Phases : Begun(phase, p) => Begun(phase', p)]_vars

\* A completed scan has no test case that is still planned, however many runs
\* and continuations were stopped or crashed before (prompt_runner.py:
\* _finalize_test_case_lifecycle).
CasesAreSettled ==
    status = "completed" => \A i \in DOMAIN cases : cases[i].status # "planned"

\* A coverage case claims a good end only for a category of which some tool has
\* come to that end (prompt_runner.py: _deterministic_coverage_matrix,
\* _record_tool).
CoverageHasEvidence ==
    \A i \in DOMAIN cases :
        cases[i].name \in Categories /\ cases[i].status \in {"completed", "finding_created"} =>
            \E t \in ToSet(CategoryTools[cases[i].name]) \cap Tools :
                cases[i].status \in ToSet(rows[t])

Failed(t) == rows[t] # <<>> /\ ToSet(rows[t]) = {"execution_error"}

\* Ready is only said of a scan without an open severe finding whose required
\* tools have been tried, and no phase of whose authenticated part has failed
\* without a finding (case_management.py: production_readiness_for_scan).
ReadyIsEarned ==
    [][\A r \in Readers : read'[r].verdict = "ready" /\ read[r].verdict # "ready" =>
        /\ ~severe /\ NotRun = {}
        /\ \A p \in AuthPhases :
            (\E t \in ToolsOf(p) : Failed(t)) =>
                \E t \in ToolsOf(p) : "finding_created" \in ToSet(rows[t])]_vars

\* Dashboards and reports read the scan again and again.
FairSpec == Spec /\ \A r \in Readers : WF_vars(Reads(r))

Quiet == work.at = "off" /\ status = "completed" /\ \A t \in Tools : "running" \notin ToSet(rows[t])

\* A reader that was overtaken by the end of a run may write running over a
\* phase that is decided, and a continuation that was cut short leaves it: the
\* next reader puts all such phases right.  Not if a tool asks for confirmation by
\* hand, of which the phase never learns, and not if no tool of the phase has a
\* row, which only a continuation cut short before its first tool leaves behind
\* (case_management.py: sync_scan_phases; cli.py: scan_continue).
AsksByHand(p) == \E t \in ToolsOf(p) : "manual_confirmation_required" \in ToSet(rows[t])
Stuck(p) ==
    Quiet /\ phase[p] = "running" /\ ToolsOf(p) \cap HasRow # {} /\ ~AsksByHand(p)
RunningHeals == (\E p \in Phases : Stuck(p)) ~> ~\E p \in Phases : Stuck(p)

===============================================================================
