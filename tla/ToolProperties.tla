---------------------------- MODULE ToolProperties ----------------------------
(***************************************************************************)
(* What the worker's tool loop promises.                                   *)
(***************************************************************************)
EXTENDS ToolLoop

ToolTypeOK ==
    /\ status \in {"created", "running", "paused", "stopped", "auth_blocked", "auth_failed",
                   "execution_error", "completed", "completed_with_coverage_gaps"}
    /\ profile \in Profiles /\ runs \in 0..MaxRuns
    /\ plan \in Seq(Tools) /\ focused \in BOOLEAN /\ next \in 1..(Len(plan) + 1)
    /\ pc \in {"idle", "decide", "open", "body", "resolve", "ended"}
    /\ cur \in Tools \cup {"none"} /\ host \in Tools \cup {"none"}
    /\ todo \in Seq(Tools) /\ users \subseteq Users /\ good \in BOOLEAN
    /\ results \in [Tools -> Outcomes \cup {"none", "skipped_unselected"}]
    /\ toolRun \in [Tools -> Outcomes \cup {"none", "running"}]
    /\ case \in [Tools -> {"none", "planned", "recorded", "coverage_gap_auth_blocked"}]
    /\ blamed \in BOOLEAN /\ covered \in BOOLEAN
    /\ endpoints \subseteq {"registration", "login", "templates"} /\ credentials \in BOOLEAN
    /\ session \in [Users -> Validations \cup {"none"}]
    /\ secret \in [Users -> {"none", "current", "changed"}]
    /\ token \in BOOLEAN /\ objects \in BOOLEAN /\ inventory \in Inventories
    /\ gate \in Blocking \cup {Ready, "none"}

\* Two sessions are replayed against each other only when two accounts are
\* logged in, the inventory last built has requests worth replaying and an
\* object to ask for was seen: however the tool was unblocked, and whatever an
\* earlier run, a crawl or a validation has since changed.
AuthorizationNeedsTwoUsers ==
    pc = "open" /\ cur \in Authorization =>
        Cardinality(LoggedIn) >= 2 /\ inventory.candidates /\ objects

\* A scan that ran to its end can answer for every tool it was asked to run:
\* there is a result, or the test case says that authentication stood in the way.
EveryToolIsAnsweredFor ==
    status \in {"completed", "completed_with_coverage_gaps"} =>
        \A t \in Selected : results[t] # "none" \/ case[t] = "coverage_gap_auth_blocked"

\* A scan's first run is never flagged for running a tool outside its selection:
\* what the resolver runs leaves no row.
FirstRunIsNotFlagged == blamed => runs >= 2

\* Every run comes to an end.
FairRun == Spec /\ WF_vars(Works)
RunEnds == pc # "idle" ~> pc = "ended"

===============================================================================
