------------------------------- MODULE ToolLoop -------------------------------
(***************************************************************************)
(* The worker's tool loop and the authorization pipeline it drives: which  *)
(* tools a run plans, what blocks a tool (the selection, the auth gate, a   *)
(* missing prerequisite), how a missing prerequisite is resolved by running *)
(* other tools, what each authentication tool leaves behind, and the status *)
(* the scan ends with.                                                      *)
(*                                                                         *)
(* Everything is kept in the database between two runs of the same scan, so *)
(* a resumed scan starts from what the interrupted run had found.           *)
(***************************************************************************)
EXTENDS Naturals, Sequences, FiniteSets

CONSTANTS
    Users,            \* the accounts a scan provisions (user1, user2)
    Selections,       \* what planning may choose for the first run, the second, ...
    Profiles,         \* execution profiles a scan may be configured with
    Configured,       \* configs/credentials.yaml names credentials
    PublicInputs      \* setting public_input_validation_allowed

Discovery == {"api_method_probe"}
Authorization == {"authorization_matrix", "idor_bola_bfla_planner"}
Tools == Discovery \cup Authorization \cup
         {"account_provisioning", "login_session", "session_validation",
          "authenticated_crawling", "xss_adaptive"}

AuthProfiles == {"destructive-full-scan", "authenticated-full-scan", "auth-authorization-debug"}

\* A selection is the ordered plan and whether the categories it was chosen
\* by include one that is about authorization.
Selection == [tools : Seq(Tools), focused : BOOLEAN]

ASSUME SelectionsAssumption ==
    Selections \in Seq(SUBSET Selection)
ASSUME UsersAssumption    == IsFiniteSet(Users)
ASSUME ProfilesAssumption == Profiles \subseteq AuthProfiles \cup {"safe-enumeration"}
ASSUME SettingsAssumption == Configured \in BOOLEAN /\ PublicInputs \in BOOLEAN

\* Bound: runs of one scan.
MaxRuns == Len(Selections)

VARIABLES
    \* the run
    status, profile, runs, plan, focused, next,
    pc,           \* idle, decide, open, body, resolve, ended
    cur,          \* the tool being executed
    host,         \* the blocked tool it is executed for, or "none"
    todo,         \* resolver actions left
    users,        \* accounts the tool's loop has still to visit
    good,         \* its loop has had a success
    results,      \* tool_results: the last result of each tool in this run
    \* what is recorded about tools, across runs
    toolRun,      \* status of the tool's latest tool_runs row
    case,         \* status of its test case
    blamed,       \* scan_quality_status is invalid_tool_selection_enforcement
    covered,      \* a finished run has written a test case per coverage category
    \* what the scan has found, across runs
    endpoints, credentials, session, secret, token, inventory, gate, objects

runVars    == <<status, profile, runs, plan, focused, next>>
bodyVars   == <<pc, cur, host, todo, users, good, results>>
recordVars == <<toolRun, case, blamed, covered>>
authVars   == <<session, secret, token, inventory, gate, objects>>
foundVars  == <<endpoints, credentials, authVars>>
vars == <<runVars, bodyVars, recordVars, foundVars>>

(***************************************************************************)
(* Values                                                                  *)
(***************************************************************************)
\* How a tool can end, by what the loop tells apart: completed or with a
\* finding; a missing prerequisite, missing credentials or an execution error;
\* anything else (planned, manual_confirmation_required).
Outcomes == {"succeeded", "failed", "other"}

\* Sessions: not logged in, or logged in with the outcome of the validation.
Validations == {"usable", "unproven", "token_storage_error"}

\* The workflow inventory by what the behaviour proof reads from it: has it
\* rows, session material, evidence of a change after login, and requests an
\* authorization test could replay.
Inventories == {i \in [built : BOOLEAN, rows : BOOLEAN, material : BOOLEAN,
                       evidence : BOOLEAN, candidates : BOOLEAN] :
                  /\ i.rows => i.built
                  /\ (i.material \/ i.evidence \/ i.candidates) => i.rows}
NotBuilt == [built |-> FALSE, rows |-> FALSE, material |-> FALSE, evidence |-> FALSE,
             candidates |-> FALSE]

Ready    == "ready_for_authorization"
Blocking == {"session_material_missing", "authenticated_behavior_not_proven",
             "one_user_behavior_proven", "no_authorization_testable_requests",
             "two_sessions_no_workflow_requests"}
GateBlocked == Authorization \cup {"authenticated_crawling"}

LoggedIn == {u \in Users : session[u] # "none"}
Usable   == {u \in Users : session[u] = "usable"}
Selected == {plan[i] : i \in DOMAIN plan}
Executed == {t \in Tools : toolRun[t] # "none"}

\* The gate's status, from the sessions, the captured material and the inventory.
GateOf(logged, held, tok, inv) ==
    LET two      == Cardinality(logged) >= 2
        material == tok \/ inv.material \/ held # {}
        proven   == material /\ (inv.evidence \/ inv.candidates)
    IN  IF two /\ proven /\ inv.candidates THEN Ready
        ELSE IF two /\ ~inv.rows THEN "two_sessions_no_workflow_requests"
        ELSE IF two /\ proven THEN "no_authorization_testable_requests"
        ELSE IF proven THEN "one_user_behavior_proven"
        ELSE IF material THEN "authenticated_behavior_not_proven"
        ELSE "session_material_missing"

Held == {u \in LoggedIn : secret[u] # "none"}

\* A destructive scan holds payload tools back until the authenticated
\* inventory is built; every profile needs a request template.
PayloadWaits ==
    LET destructive == profile = "destructive-full-scan"
        failed == toolRun["session_validation"] = "failed"
    IN  IF profile = "auth-authorization-debug" THEN "none"
        ELSE IF destructive /\ failed /\ ~PublicInputs THEN "confirmed_protected_session"
        ELSE IF destructive /\ Usable # {} /\ toolRun["authenticated_crawling"] # "succeeded"
        THEN "authenticated_endpoint_inventory"
        ELSE IF "templates" \notin endpoints THEN "request_templates" ELSE "none"

\* What keeps a tool from being run now, as the artifact it misses.
MissingFor(t) ==
    LET notReady == gate # Ready
        why      == IF gate = "none" THEN "authenticated_behavior_not_proven" ELSE gate
    IN  CASE profile = "auth-authorization-debug" /\ t = "xss_adaptive" -> "execution_profile_scope"
          [] t = "account_provisioning" /\ "registration" \notin endpoints
               -> "registration_request_template"
          [] t = "login_session" /\ ~credentials /\ ~Configured -> "login_credentials"
          [] t = "login_session" /\ (credentials \/ Configured) /\ "login" \notin endpoints
               -> "login_request_template"
          [] t = "session_validation" /\ ~token /\ LoggedIn = {} -> "token_or_session"
          [] t = "authenticated_crawling"
               /\ gate \in {"session_material_missing", "authenticated_behavior_not_proven"} -> gate
          [] t \in Authorization /\ notReady -> why
          [] t = "authorization_matrix" /\ ~notReady /\ ~objects -> "no_resource_candidates"
          [] t = "idor_bola_bfla_planner" /\ ~notReady /\ ~objects -> "object_ownership_map"
          [] t = "xss_adaptive" /\ PayloadWaits # "none" -> PayloadWaits
          [] OTHER -> "none"

\* The tools tried, in order, for a missing artifact (those of the mapping
\* this model has; the others discover what api_method_probe discovers).
ActionsFor(missing) ==
    CASE missing \in {"registration_request_template", "login_request_template",
                      "request_templates"} -> <<"api_method_probe">>
      [] missing = "login_credentials" -> <<"account_provisioning">>
      [] missing = "token_or_session" -> <<"login_session">>
      [] missing = "authenticated_behavior_not_proven" -> <<"session_validation">>
      [] missing \in {"authenticated_endpoint_inventory", "object_ownership_map"}
           -> <<"authenticated_crawling">>
      [] OTHER -> <<>>

\* A tool with a row that this run's selection does not name.
Misplaced == Executed \ Selected # {}

-------------------------------------------------------------------------------
(***************************************************************************)
(* Planning a run                                                          *)
(***************************************************************************)
Init ==
    /\ status = "created" /\ profile \in Profiles /\ runs = 0
    /\ plan = <<>> /\ focused = FALSE /\ next = 1
    /\ pc = "idle" /\ cur = "none" /\ host = "none" /\ todo = <<>>
    /\ users = {} /\ good = FALSE
    /\ results = [t \in Tools |-> "none"] /\ toolRun = [t \in Tools |-> "none"]
    /\ case = [t \in Tools |-> "none"] /\ blamed = FALSE /\ covered = FALSE
    /\ endpoints = {} /\ credentials = FALSE /\ token = FALSE
    /\ session = [u \in Users |-> "none"] /\ secret = [u \in Users |-> "none"]
    /\ inventory = NotBuilt /\ gate = "none" /\ objects = FALSE

\* The scan is run, or run again whatever it ended as.  What earlier runs
\* recorded is compared with the new selection at once.
Begin(s) ==
    /\ pc \in {"idle", "ended"} /\ runs < MaxRuns /\ s \in Selections[runs + 1]
    /\ status' = "running" /\ runs' = runs + 1
    /\ plan' = s.tools /\ focused' = s.focused /\ next' = 1
    /\ pc' = "decide" /\ cur' = "none" /\ host' = "none" /\ todo' = <<>>
    /\ users' = {} /\ good' = FALSE
    /\ results' = [t \in Tools |-> "none"]
    /\ case' = [t \in Tools |-> IF case[t] = "none" /\ \E i \in DOMAIN s.tools : s.tools[i] = t
                                THEN "planned" ELSE case[t]]
    /\ blamed' = (blamed \/ \E t \in Executed : \A i \in DOMAIN s.tools : s.tools[i] # t)
    /\ UNCHANGED <<profile, toolRun, covered, foundVars>>

-------------------------------------------------------------------------------
(***************************************************************************)
(* The loop's turn on one tool                                             *)
(***************************************************************************)
\* A tool's body is entered, by the loop itself (h = "none") or by the
\* resolver on behalf of h.  Only the loop writes a row before it.
Enter(t, h) ==
    /\ cur' = t /\ host' = h /\ pc' = "open"
    /\ users' = {} /\ good' = FALSE
    /\ toolRun' = IF h = "none" THEN [toolRun EXCEPT ![t] = "running"] ELSE toolRun

AtTurn(t) == pc = "decide" /\ next <= Len(plan) /\ t = plan[next]

\* Mutant: the status that answers a stop is the request's, not its outcome.
StopsAsStopping ==
    /\ pc = "decide" /\ next <= Len(plan)
    /\ status' \in {"stopping", "paused"} /\ pc' = "ended"
    /\ blamed' = (blamed \/ Misplaced)
    /\ UNCHANGED <<profile, runs, plan, focused, next, cur, host, todo, users, good, results,
                   toolRun, case, covered, foundVars>>

\* A pause or stop is obeyed between two tools.
Interrupted ==
    /\ pc = "decide" /\ next <= Len(plan)
    /\ status' \in {"stopped", "paused"} /\ pc' = "ended"
    /\ blamed' = (blamed \/ Misplaced)
    /\ UNCHANGED <<profile, runs, plan, focused, next, cur, host, todo, users, good, results,
                   toolRun, case, covered, foundVars>>

GateBlocks(t) == gate \in Blocking /\ t \in GateBlocked

\* Mutant: a gated tool is marked and its turn does not end.
KeepsTurn(t) ==
    /\ AtTurn(t) /\ GateBlocks(t)
    /\ case' = [case EXCEPT ![t] = "coverage_gap_auth_blocked"]
    /\ UNCHANGED <<runVars, bodyVars, toolRun, blamed, covered, foundVars>>

\* A finished run leaves coverage test cases that also name authorization_matrix;
\* the gate looks for the one test case of a tool and raises when it finds more.
Duplicated(t) == covered /\ t = "authorization_matrix"

\* The auth gate: the test case is marked, nothing else is recorded.
BlockedByGate(t) ==
    /\ AtTurn(t) /\ GateBlocks(t) /\ ~Duplicated(t)
    /\ next' = next + 1
    /\ case' = [case EXCEPT ![t] = "coverage_gap_auth_blocked"]
    /\ UNCHANGED <<status, profile, runs, plan, focused, bodyVars, toolRun, blamed, covered,
                   foundVars>>

Starts(t) ==
    /\ AtTurn(t) /\ ~GateBlocks(t) /\ MissingFor(t) = "none"
    /\ next' = next + 1
    /\ Enter(t, "none")
    /\ UNCHANGED <<status, profile, runs, plan, focused, todo, results, case, blamed, covered,
                   foundVars>>

Waits(t) ==
    /\ AtTurn(t) /\ ~GateBlocks(t) /\ MissingFor(t) # "none"
    /\ next' = next + 1
    /\ host' = t /\ pc' = "resolve"
    /\ todo' = ActionsFor(MissingFor(t))
    /\ UNCHANGED <<status, profile, runs, plan, focused, cur, users, good, results,
                   recordVars, foundVars>>

\* One resolver action: no selection, gate or dependency check of its own.
Resolves ==
    /\ pc = "resolve" /\ todo # <<>>
    /\ todo' = Tail(todo)
    /\ IF toolRun[Head(todo)] = "succeeded"
       THEN UNCHANGED <<pc, cur, host, users, good, toolRun>>
       ELSE Enter(Head(todo), host)
    /\ UNCHANGED <<runVars, results, case, blamed, covered, foundVars>>

\* Mutant: the tool is retried without looking at the prerequisite again.
RetriesUnchecked ==
    /\ pc = "resolve" /\ todo = <<>>
    /\ Enter(host, "none")
    /\ UNCHANGED <<runVars, todo, results, case, blamed, covered, foundVars>>

\* Mutant: a tool that is still blocked is dropped.
DropsBlocked ==
    /\ pc = "resolve" /\ todo = <<>>
    /\ IF MissingFor(host) = "none"
       THEN Enter(host, "none")
       ELSE /\ pc' = "decide" /\ cur' = "none" /\ host' = "none"
            /\ UNCHANGED <<users, good, toolRun>>
    /\ UNCHANGED <<runVars, todo, results, case, blamed, covered, foundVars>>

\* The prerequisite is looked at again; still missing, the block is recorded.
Resolved ==
    /\ pc = "resolve" /\ todo = <<>>
    /\ IF MissingFor(host) = "none"
       THEN Enter(host, "none") /\ UNCHANGED <<results, case>>
       ELSE /\ pc' = "decide" /\ cur' = "none" /\ host' = "none"
            /\ results' = [results EXCEPT ![host] = "failed"]
            /\ toolRun' = [toolRun EXCEPT ![host] = "failed"]
            /\ case' = [case EXCEPT ![host] = "recorded"]
            /\ UNCHANGED <<users, good>>
    /\ UNCHANGED <<runVars, todo, blamed, covered, foundVars>>

-------------------------------------------------------------------------------
(***************************************************************************)
(* A tool's result                                                         *)
(***************************************************************************)
\* After session_validation a scan that is about authorization stops unless
\* the gate is ready.
MustStop(g) ==
    /\ cur = "session_validation" /\ g # Ready
    /\ \/ profile = "auth-authorization-debug" \/ focused
       \/ profile = "destructive-full-scan" /\ ~PublicInputs

\* The loop's tool ends with st, the gate being g.
LoopReturns(st, g) ==
    /\ host = "none"
    /\ results' = [results EXCEPT ![cur] = st]
    /\ toolRun' = [toolRun EXCEPT ![cur] = st]
    /\ cur' = "none"
    /\ IF MustStop(g) /\ \E t \in GateBlocked \cap Selected : Duplicated(t)
       THEN /\ status' = "execution_error" /\ pc' = "ended"
            /\ case' = [case EXCEPT ![cur] = "recorded"] /\ UNCHANGED blamed
       ELSE IF MustStop(g)
       THEN /\ status' = "auth_blocked" /\ pc' = "ended"
            /\ case' = [t \in Tools |-> IF t \in GateBlocked \cap Selected
                                        THEN "coverage_gap_auth_blocked"
                                        ELSE IF t = cur THEN "recorded" ELSE case[t]]
            /\ blamed' = (blamed \/ Misplaced)
       ELSE /\ pc' = "decide" /\ case' = [case EXCEPT ![cur] = "recorded"]
            /\ UNCHANGED <<status, blamed>>

\* Mutant: a resolver action is recorded whatever was selected.
ActionRecorded(st) ==
    /\ host # "none"
    /\ results' = [results EXCEPT ![cur] = st]
    /\ toolRun' = [toolRun EXCEPT ![cur] = st]
    /\ case' = [case EXCEPT ![cur] = "recorded"]
    /\ cur' = "none" /\ pc' = "resolve"
    /\ UNCHANGED <<status, blamed>>

\* A resolver action ends: only a selected tool is recorded under its status.
ActionReturns(st) ==
    /\ host # "none"
    /\ results' = [results EXCEPT ![cur] = IF cur \in Selected THEN st ELSE "skipped_unselected"]
    /\ toolRun' = IF cur \in Selected THEN [toolRun EXCEPT ![cur] = st] ELSE toolRun
    /\ case' = IF cur \in Selected THEN [case EXCEPT ![cur] = "recorded"] ELSE case
    /\ cur' = "none" /\ pc' = "resolve"
    /\ UNCHANGED <<status, blamed>>

Returns(st, g) ==
    /\ LoopReturns(st, g) \/ ActionReturns(st)
    /\ users' = {} /\ good' = FALSE
    /\ UNCHANGED <<profile, runs, plan, focused, next, host, todo, covered>>

\* An exception leaves the tool: the loop records it, the resolver notes it.
Raises ==
    /\ pc \in {"open", "body"}
    /\ cur' = "none" /\ users' = {} /\ good' = FALSE
    /\ IF host = "none"
       THEN /\ pc' = "decide"
            /\ results' = [results EXCEPT ![cur] = "failed"]
            /\ toolRun' = [toolRun EXCEPT ![cur] = "failed"]
            /\ case' = [case EXCEPT ![cur] = "recorded"]
       ELSE pc' = "resolve" /\ UNCHANGED <<results, toolRun, case>>
    /\ UNCHANGED <<runVars, host, todo, blamed, covered, foundVars>>

-------------------------------------------------------------------------------
(***************************************************************************)
(* The tools                                                               *)
(***************************************************************************)
Runs(t) == pc = "open" /\ cur = t

\* The proof of authenticated behaviour is rebuilt from inventory inv, tok
\* saying whether a token was ever captured.
Proves(inv, tok) ==
    /\ inventory' = inv
    /\ gate' = GateOf(LoggedIn, Held, tok, inv)
    /\ objects' \in {objects, objects \/ inv.rows}

Proven(g) == g \in {Ready, "no_authorization_testable_requests", "one_user_behavior_proven"}

Probe ==
    /\ Runs("api_method_probe")
    /\ \E more \in SUBSET {"registration", "login", "templates"} : endpoints' = endpoints \cup more
    /\ Returns("succeeded", gate)
    /\ UNCHANGED <<credentials, authVars>>

Provision ==
    /\ Runs("account_provisioning")
    /\ IF "registration" \in endpoints
       THEN /\ credentials' = TRUE
            /\ \E st \in {"succeeded", "failed"} : Returns(st, gate)
       ELSE Returns("failed", gate) /\ UNCHANGED credentials
    /\ UNCHANGED <<endpoints, authVars>>

LoginOpens ==
    /\ Runs("login_session")
    /\ IF "login" \in endpoints /\ (credentials \/ Configured)
       THEN /\ pc' = "body" /\ users' = Users
            /\ UNCHANGED <<runVars, cur, host, todo, good, results, recordVars>>
       ELSE Returns("failed", gate)
    /\ UNCHANGED foundVars

\* The accounts are visited in a fixed order.
IsNext(u) == users # {} /\ u = CHOOSE x \in users : TRUE

\* A rebuilt inventory holds at least the login request itself.
Rebuilt == {i \in Inventories : i.rows}

\* One account logs in.  Captured tokens are stored first, then the behaviour
\* proof is rebuilt and the session validated, then the session is recorded.
\* The request may fail, be refused, or raise between storing and recording.
LoginUser(u) ==
    /\ pc = "body" /\ cur = "login_session" /\ IsNext(u)
    /\ users' = users \ {u}
    /\ UNCHANGED <<runVars, pc, cur, host, todo, results, recordVars,
                   endpoints, credentials>>
    /\ \/ UNCHANGED <<good, authVars>>
       \/ \E got \in BOOLEAN :
            /\ token' = (token \/ got)
            /\ \/ /\ secret' \in IF got /\ session[u] # "none"
                                 THEN {secret, [secret EXCEPT ![u] = "changed"]} ELSE {secret}
                  /\ UNCHANGED <<good, session>>
                  /\ \/ \E inv \in Rebuilt : Proves(inv, token')
                     \/ UNCHANGED <<inventory, gate, objects>>
               \/ \E inv \in Rebuilt :
                    /\ Proves(inv, token')
                    /\ secret' = [secret EXCEPT ![u] = IF got THEN "current" ELSE "none"]
                    /\ \E v \in {"usable", "unproven"} :
                         /\ Proven(gate') => v = "usable"
                         /\ v = "usable" => Proven(gate') \/ got
                         /\ session' = [session EXCEPT ![u] = v]
                    /\ good' = TRUE

\* The browser capture closes the tool: the proof is rebuilt with every session.
LoginEnds ==
    /\ pc = "body" /\ cur = "login_session" /\ users = {}
    /\ \E inv \in {i \in Inventories : i.built /\ (inventory.rows => i.rows)} : Proves(inv, token)
    /\ Returns(IF good THEN "succeeded" ELSE "failed", gate')
    /\ UNCHANGED <<endpoints, credentials, session, secret, token>>

\* The proof is built from the latest inventory before any session is tried.
ValidateOpens ==
    /\ Runs("session_validation")
    /\ \E inv \in IF inventory.built THEN {inventory} ELSE {i \in Inventories : i.built} :
           Proves(inv, token)
    /\ IF LoggedIn = {}
       THEN Returns(IF Proven(gate') THEN "succeeded" ELSE "failed", gate')
       ELSE /\ pc' = "body" /\ users' = LoggedIn
            /\ UNCHANGED <<runVars, cur, host, todo, good, results, recordVars>>
    /\ UNCHANGED <<endpoints, credentials, session, secret, token>>

ValidateUser(u) ==
    /\ pc = "body" /\ cur = "session_validation" /\ IsNext(u)
    /\ users' = users \ {u}
    /\ IF secret[u] = "changed"
       THEN /\ session' = [session EXCEPT ![u] = "token_storage_error"]
            /\ UNCHANGED <<good, inventory, gate, objects>>
       ELSE /\ \E inv \in Rebuilt : Proves(inv, token)
            /\ \E v \in {"usable", "unproven"} :
                 /\ Proven(gate') => v = "usable"
                 /\ v = "usable" => Proven(gate') \/ secret[u] = "current"
                 /\ session' = [session EXCEPT ![u] = v]
                 /\ good' = (good \/ v = "usable")
    /\ UNCHANGED <<runVars, pc, cur, host, todo, results, recordVars,
                   endpoints, credentials, secret, token>>

ValidateEnds ==
    /\ pc = "body" /\ cur = "session_validation" /\ users = {}
    /\ Returns(IF good THEN "succeeded" ELSE "failed", gate)
    /\ UNCHANGED foundVars

\* Sessions with a secret are sent to every path: some answer (ok), some are
\* rejected with 401 and lose their validation, some meet an error on the way.
\* Each may have shown identifiers before.
Asked == {u \in Usable : secret[u] = "current"}

Crawl ==
    /\ Runs("authenticated_crawling")
    /\ \/ Returns("failed", gate) /\ UNCHANGED foundVars
       \/ \E ok, rejected \in SUBSET Asked :
            /\ Usable # {} /\ ok \cap rejected = {}
            /\ session' = [u \in Users |-> IF u \in rejected THEN "unproven" ELSE session[u]]
            /\ objects' \in {objects, objects \/ Asked # {}}
            /\ Returns(IF ok # {} THEN "succeeded" ELSE "failed", gate)
            /\ UNCHANGED <<endpoints, credentials, secret, token, inventory, gate>>

\* Both authorization tools read the sessions again and infer resources.
Infers == objects' \in {objects, objects \/ inventory.rows}

Matrix ==
    /\ Runs("authorization_matrix")
    /\ Infers
    /\ Returns(IF IF Cardinality(Usable) >= 2 THEN inventory.candidates
                  ELSE Cardinality(LoggedIn) < 2 /\ Configured
               THEN "succeeded" ELSE "failed", gate)
    /\ UNCHANGED <<endpoints, credentials, session, secret, token, inventory, gate>>

Planner ==
    /\ Runs("idor_bola_bfla_planner")
    /\ Infers
    /\ Returns(IF Cardinality(Usable) >= 2
               THEN IF inventory.candidates THEN "succeeded" ELSE "failed"
               ELSE IF Configured THEN "other" ELSE "failed", gate)
    /\ UNCHANGED <<endpoints, credentials, session, secret, token, inventory, gate>>

Payloads ==
    /\ Runs("xss_adaptive")
    /\ \E st \in Outcomes : Returns(st, gate)
    /\ UNCHANGED foundVars

-------------------------------------------------------------------------------
(***************************************************************************)
(* The end of a run                                                        *)
(***************************************************************************)
Required == {"authenticated_crawling", "authorization_matrix", "idor_bola_bfla_planner",
             "xss_adaptive"}

FinalStatus ==
    IF profile \notin AuthProfiles THEN "completed"
    ELSE IF \E u \in Users : session[u] = "token_storage_error" THEN "auth_failed"
    ELSE IF \E t \in Required \cap Selected : results[t] = "failed"
    THEN "completed_with_coverage_gaps"
    ELSE "completed"

Finishes ==
    /\ pc = "decide" /\ next > Len(plan)
    /\ pc' = "ended"
    /\ blamed' = (blamed \/ Misplaced)
    /\ status' = IF blamed' THEN "execution_error" ELSE FinalStatus
    /\ case' = [t \in Tools |-> IF case[t] = "planned" THEN "recorded" ELSE case[t]]
    /\ covered' = TRUE
    /\ UNCHANGED <<profile, runs, plan, focused, next, cur, host, todo, users, good, results,
                   toolRun, foundVars>>

\* The run ends in an exception: its transaction is rolled back.
Aborts ==
    /\ pc' = "ended" /\ cur' = "none" /\ host' = "none"
    /\ todo' = <<>> /\ users' = {} /\ good' = FALSE
    /\ results' = [t \in Tools |-> "none"]
    /\ UNCHANGED <<profile, runs, plan, focused, next, recordVars, foundVars>>

\* The gate cannot mark the tool's test case, which is not handled.
MarkingFails(t) ==
    /\ AtTurn(t) /\ GateBlocks(t) /\ Duplicated(t)
    /\ status' = "execution_error"
    /\ Aborts

\* The worker is killed, or an exception the loop does not catch ends the run.
Crashes ==
    /\ pc \notin {"idle", "ended"}
    /\ status' \in {status, "execution_error"}
    /\ Aborts

Turn == \E t \in Tools : BlockedByGate(t) \/ MarkingFails(t) \/ Starts(t) \/ Waits(t)
Body ==
    \/ Probe \/ Provision \/ LoginOpens \/ LoginEnds \/ ValidateOpens \/ ValidateEnds
    \/ \E u \in Users : LoginUser(u) \/ ValidateUser(u)
    \/ Crawl \/ Matrix \/ Planner \/ Payloads \/ Raises
Works == Turn \/ Resolves \/ Resolved \/ Body \/ Finishes

Next ==
    \/ \E i \in DOMAIN Selections : \E s \in Selections[i] : Begin(s)
    \/ Works \/ Interrupted \/ Crashes

Spec == Init /\ [][Next]_vars

===============================================================================
