----------------------------- MODULE ScanPlan_proofs -----------------------------
(***************************************************************************)
(* What holds of a scan's options and plans, whatever may be asked for.    *)
(***************************************************************************)
EXTENDS PlanProperties, TLAPS

-------------------------------------------------------------------------------
(***************************************************************************)
(* Consent                                                                 *)
(***************************************************************************)
\* What a request of the dashboard writes into the columns was confirmed if it
\* changes data: the policy implies the profile, and the profile the question.
LEMMA StartIsConfirmed ==
  ASSUME NEW r \in RequestRecords, MayStart(r)
  PROVE  LET o == Complete(Normalized(r.options)) IN
         "destructive" \in o.on \/ o.policy = "lab_full_allowed" => r.confirmed
<1> DEFINE a == r.options
           n == Normalized(a)
           o == Complete(n)
<1>1. a \in OptionRecords
  BY DEF RequestRecords
<1>2. n \in OptionRecords /\ n.policy = a.policy /\ n.on = a.on /\ n.profile = Resolved(a)
  BY <1>1 DEF Normalized, OptionRecords, Resolved, Profiles
<1>3. n.profile = "destructive-full-scan" => r.confirmed
  BY DEF MayStart
<1>4. a.policy = "lab_full_allowed" => n.profile = "destructive-full-scan"
  BY <1>2 DEF MayStart, Contradicts
<1>5. CASE n.profile = "destructive-full-scan"
  BY <1>3, <1>5
<1>6. CASE n.profile = "auth-authorization-debug"
  <2>1. o.policy = "test_owned_only" /\ o.on = (n.on \cap {"full"}) \cup {"authenticated", "authorization"}
    BY <1>2, <1>6 DEF Complete, OptionRecords
  <2> QED
    BY <2>1
<1>7. CASE n.profile \notin {"destructive-full-scan", "auth-authorization-debug"}
  <2>1. o = n
    BY <1>7 DEF Complete
  <2> QED
    BY <2>1, <1>2, <1>4, <1>7 DEF MayStart
<1> QED
  BY <1>5, <1>6, <1>7

\* A scan of the dashboard that may change its target's data was confirmed, for
\* whatever is asked, and whatever its runs write (app.py: api_start,
\* _create_dashboard_scan).
THEOREM Consent == Spec => []ConsentIsGiven
<1>1. Init => ConsentIsGiven
  BY DEF Init, ConsentIsGiven
<1>2. ConsentIsGiven /\ [Next]_vars => ConsentIsGiven'
  <2> SUFFICES ASSUME ConsentIsGiven, [Next]_vars PROVE ConsentIsGiven'
    OBVIOUS
  <2>1. ASSUME NEW r \in Requests, StartFromDashboard(r) PROVE ConsentIsGiven'
    <3>1. r \in RequestRecords
      BY RequestsAssumption
    <3>2. row' = Columns(Complete(Normalized(r.options)), r.confirmed)
      BY <2>1 DEF StartFromDashboard
    <3> QED
      BY <2>1, <3>1, <3>2, StartIsConfirmed DEF StartFromDashboard, ConsentIsGiven, Columns
  <2>2. ASSUME NEW r \in Requests, StartFromTerminal(r) PROVE ConsentIsGiven'
    BY <2>2 DEF StartFromTerminal, ConsentIsGiven
  <2>3. CASE UNCHANGED <<born, row>>
    BY <2>3 DEF ConsentIsGiven
  <2> QED
    BY <2>1, <2>2, <2>3 DEF Next, vars, asked, RunExisting, PlanRun, Passed, Prepare,
       BeginTool, StopRun, CrashRun, EndRun, ContinueTool
<1> QED
  BY <1>1, <1>2, PTL DEF Spec

-------------------------------------------------------------------------------
(***************************************************************************)
(* Runs of one scan                                                        *)
(***************************************************************************)
\* A scan of the dashboard has its options in the event of its creation, and
\* neither the columns nor the configuration ever say anything else.
DashboardOptions ==
    /\ event \in OptionRecords
    /\ config = event /\ row = Columns(event, row.confirmed)
    /\ event.profile # "none" /\ ~Contradicts(event)
    /\ work.at # "off" => work.full = ("full" \in event.on)
    /\ cases # {} =>
          cases \cup OnlyNamed = Selected("full" \in event.on, event, {}) \cup OnlyNamed

\* A scan of the terminal has its options in the columns; its configuration
\* takes its policy from them and its profile follows from both.
TerminalOptions ==
    /\ event = NoOptions
    /\ config \in OptionRecords /\ "full" \notin config.on
    /\ row.on \in SUBSET (Flags \ {"full"}) /\ row.policy \in Policies
    /\ row.policy = "none" => config.policy = "none"
    /\ config.profile \in {"none", Resolved([NoOptions EXCEPT !.on = row.on, !.policy = row.policy])}

\* A run starts from options that do not contradict themselves: the inductive
\* invariant of the two origins together.
RunInv ==
    /\ born = "none" => work.at = "off" /\ cases = {} /\ event = NoOptions
    /\ born = "dashboard" => DashboardOptions
    /\ born \notin {"none", "dashboard"} => TerminalOptions
    /\ status # "failed_precheck"

\* What is accepted is complete and does not contradict itself.
LEMMA StartIsConsistent ==
  ASSUME NEW r \in RequestRecords, MayStart(r)
  PROVE  LET o == Complete(Normalized(r.options)) IN
         o \in OptionRecords /\ o.profile # "none" /\ ~Contradicts(o)
<1> DEFINE a == r.options
           n == Normalized(a)
           o == Complete(n)
<1>1. a \in OptionRecords
  BY DEF RequestRecords
<1>2. n \in OptionRecords /\ n.policy = a.policy /\ n.on = a.on /\ n.profile = Resolved(a)
      /\ n.profile # "none"
  BY <1>1 DEF Normalized, OptionRecords, Resolved, Profiles
<1>3. ~Contradicts(n)
  BY <1>2 DEF MayStart, Contradicts, Resolved, TestsMore
<1>4. CASE n.profile = "destructive-full-scan"
  <2>1. o = [n EXCEPT !.on = Flags]
    BY <1>4 DEF Complete
  <2>2. o \in OptionRecords /\ o.profile = "destructive-full-scan"
    BY <2>1, <1>2, <1>4 DEF OptionRecords
  <2> QED
    BY <2>2 DEF Contradicts, Resolved
<1>5. CASE n.profile = "auth-authorization-debug"
  <2>1. o = [n EXCEPT !.policy = "test_owned_only",
                      !.on = (@ \cap {"full"}) \cup {"authenticated", "authorization"}]
    BY <1>5 DEF Complete
  <2>2. o \in OptionRecords /\ o.profile = "auth-authorization-debug" /\ o.policy = "test_owned_only"
    BY <2>1, <1>2, <1>5 DEF OptionRecords, Policies, Flags
  <2> QED
    BY <2>2 DEF Contradicts, Resolved
<1>6. CASE n.profile \notin {"destructive-full-scan", "auth-authorization-debug"}
  BY <1>6, <1>2, <1>3 DEF Complete
<1> QED
  BY <1>4, <1>5, <1>6

\* A run of a dashboard's scan puts together what was asked for.
LEMMA MergedIsAsked ==
  ASSUME DashboardOptions
  PROVE  Merged = event /\ Normalized(Merged) = event
<1>1. event # NoOptions
  BY DEF DashboardOptions, NoOptions
<1>2. (event.on \cap {"full"}) \cup row.on = event.on
  BY DEF DashboardOptions, Columns, OptionRecords
<1>3. (IF row.policy # "none" THEN row.policy ELSE event.policy) = event.policy
  BY DEF DashboardOptions, Columns
<1>4. Merged = [event EXCEPT !.on = event.on, !.policy = event.policy]
  BY <1>1, <1>2, <1>3 DEF Merged
<1>5. Merged = event
  BY <1>4 DEF DashboardOptions, OptionRecords
<1>6. Normalized(event) = event
  BY DEF DashboardOptions, OptionRecords, Normalized, Resolved
<1> QED
  BY <1>5, <1>6

\* A run of a terminal's scan puts together its columns.
LEMMA MergedIsColumns ==
  ASSUME TerminalOptions
  PROVE  /\ ~Contradicts(Merged)
         /\ Normalized(Merged) \in OptionRecords
         /\ Normalized(Merged).on = row.on /\ Normalized(Merged).policy = row.policy
         /\ Normalized(Merged).profile =
                Resolved([NoOptions EXCEPT !.on = row.on, !.policy = row.policy])
<1> DEFINE m == Merged
           o == [NoOptions EXCEPT !.on = row.on, !.policy = row.policy]
<1>1. m = [config EXCEPT !.on = (@ \cap {"full"}) \cup row.on,
                         !.policy = IF row.policy # "none" THEN row.policy ELSE @]
  BY DEF TerminalOptions, Merged
<1>2. m \in OptionRecords /\ m.on = row.on /\ m.policy = row.policy /\ m.profile = config.profile
  BY <1>1 DEF TerminalOptions, OptionRecords
<1>3. o.on = row.on /\ o.policy = row.policy /\ o.profile = "none"
  BY DEF NoOptions
<1>4. Resolved(m) = Resolved(o) /\ TestsMore(m) = TestsMore(o)
  BY <1>2, <1>3 DEF TerminalOptions, Resolved, TestsMore
<1>5. ~Contradicts(m)
  BY <1>2, <1>3, <1>4 DEF Contradicts, Resolved, TestsMore
<1>6. Normalized(m) = [m EXCEPT !.profile = Resolved(o)] /\ Resolved(o) \in Profiles
  BY <1>3, <1>4 DEF Normalized, Resolved, Profiles
<1> QED
  BY <1>2, <1>5, <1>6 DEF OptionRecords

\* The model's plan adds nothing to what the parser has selected but by another
\* name.
LEMMA PlanAddsNames ==
  ASSUME NEW full, NEW o, NEW named \in SUBSET (Tools \cap PlanTools(full))
  PROVE  Selected(full, o, named) \cup OnlyNamed = Selected(full, o, {}) \cup OnlyNamed
<1>1. ASSUME NEW t \in PlanTools(full) PROVE t \in ParserTools(full) \/ t \in OnlyNamed
  <2>1. PICK u \in ParserTools(full) : t = Aliased(u)
    BY DEF PlanTools
  <2>2. CASE u = "crawler"
    <3>1. t = "katana"
      BY <2>1, <2>2 DEF Aliased, Aliases
    <3>2. t \in PlanTools(TRUE)
      <4>1. "crawler" \in ParserTools(TRUE)
        BY DEF ParserTools
      <4> QED
        BY <4>1, <2>1, <2>2 DEF PlanTools
    <3>3. "katana" \notin ParserTools(TRUE)
      BY DEF ParserTools, Inventory, CategoryTools, Sessions, Access, Payloads
    <3> QED
      BY <3>1, <3>2, <3>3 DEF OnlyNamed
  <2>3. CASE u # "crawler"
    BY <2>1, <2>3 DEF Aliased, Aliases
  <2> QED
    BY <2>2, <2>3
<1>2. named \subseteq ParserTools(full) \cup OnlyNamed
  BY <1>1
<1>3. CASE o.profile = "auth-authorization-debug"
  BY <1>3 DEF Selected
<1>4. CASE o.profile # "auth-authorization-debug"
  BY <1>2, <1>4 DEF Selected
<1> QED
  BY <1>3, <1>4

\* There is no scan yet.
LEMMA RunInvInit == Init => RunInv
  BY DEF Init, RunInv, Off

\* Every step keeps the options where they are.
LEMMA RunInvNext ==
  ASSUME RunInv, [Next]_vars
  PROVE  RunInv'
<1>1. ASSUME NEW r \in Requests, StartFromDashboard(r) PROVE RunInv'
  <2> DEFINE o == Complete(Normalized(r.options))
  <2>1. o \in OptionRecords /\ o.profile # "none" /\ ~Contradicts(o)
    BY <1>1, StartIsConsistent, RequestsAssumption DEF StartFromDashboard
  <2>2. /\ event' = o /\ config' = o /\ row' = Columns(o, r.confirmed)
        /\ born' = "dashboard" /\ status' = "created" /\ cases' = cases /\ work' = work
        /\ work.at = "off"
    BY <1>1 DEF StartFromDashboard, RunInv
  <2>3. row' = Columns(o, row'.confirmed)
    BY <2>2 DEF Columns
  <2>4. cases = {}
    BY <1>1 DEF StartFromDashboard, RunInv
  <2> HIDE DEF o
  <2>5. DashboardOptions'
    BY <2>1, <2>2, <2>3, <2>4 DEF DashboardOptions
  <2> QED
    BY <2>2, <2>5 DEF RunInv
<1>2. ASSUME NEW r \in Requests, StartFromTerminal(r) PROVE RunInv'
  <2>1. r.options \in OptionRecords /\ r.confirmed \in BOOLEAN
    BY RequestsAssumption DEF RequestRecords
  <2>2. /\ event' = event /\ row' = Columns(r.options, r.confirmed)
        /\ config' = [NoOptions EXCEPT !.categories = r.options.categories]
        /\ born' = "terminal" /\ status' = "planning"
    BY <1>2 DEF StartFromTerminal
  <2>3. event = NoOptions
    BY <1>2 DEF StartFromTerminal, RunInv
  <2>4. /\ config' \in OptionRecords /\ config'.on = {}
        /\ config'.policy = "none" /\ config'.profile = "none"
    BY <2>1, <2>2 DEF NoOptions, OptionRecords, Profiles, Policies
  <2>5. row'.on \in SUBSET (Flags \ {"full"}) /\ row'.policy \in Policies
    BY <2>1, <2>2 DEF Columns, OptionRecords
  <2>6. TerminalOptions'
    BY <2>2, <2>3, <2>4, <2>5 DEF TerminalOptions
  <2> QED
    BY <2>2, <2>6 DEF RunInv
<1>3. CASE RunExisting
  <2>1. CASE born = "dashboard"
    <3>1. Merged = event /\ Normalized(Merged) = event /\ ~Contradicts(Merged)
      BY <2>1, MergedIsAsked DEF RunInv, DashboardOptions
    <3>2. /\ config' = event /\ UNCHANGED <<born, event, row, cases, status>>
          /\ work'.full = ("full" \in event.on)
      BY <1>3, <3>1 DEF RunExisting, asked, Off
    <3> QED
      BY <2>1, <3>2 DEF RunInv, DashboardOptions
  <2>2. CASE born # "dashboard"
    <3>1. born # "none" /\ TerminalOptions
      BY <1>3, <2>2 DEF RunExisting, RunInv
    <3>2. config' = Normalized(Merged) /\ UNCHANGED <<born, event, row, status>>
      BY <1>3, <3>1, MergedIsColumns DEF RunExisting, asked
    <3>3. /\ config' \in OptionRecords /\ config'.on = row.on /\ config'.policy = row.policy
          /\ config'.profile = Resolved([NoOptions EXCEPT !.on = row.on, !.policy = row.policy])
      BY <3>1, <3>2, MergedIsColumns
    <3>4. TerminalOptions'
      BY <3>1, <3>2, <3>3 DEF TerminalOptions
    <3> QED
      BY <2>2, <3>1, <3>2, <3>4 DEF RunInv
  <2> QED
    BY <2>1, <2>2
<1>4. CASE PlanRun
  <2>1. PICK named \in SUBSET (Tools \cap PlanTools(work.full)) :
            /\ cases' = cases \cup Selected(work.full, config, named)
            /\ work'.at = "planned" /\ work'.full = work.full
    BY <1>4 DEF PlanRun
  <2>2. UNCHANGED <<born, event, row, config>> /\ status' = "ready" /\ work.at = "loaded"
    BY <1>4 DEF PlanRun, asked, Passed
  <2>3. CASE born = "dashboard"
    <3>1. Selected(work.full, config, named) \cup OnlyNamed
            = Selected("full" \in event.on, event, {}) \cup OnlyNamed
      BY <2>2, <2>3, PlanAddsNames DEF RunInv, DashboardOptions
    <3>2. cases' \cup OnlyNamed = Selected("full" \in event.on, event, {}) \cup OnlyNamed
      BY <2>1, <2>3, <3>1 DEF RunInv, DashboardOptions
    <3> QED
      BY <2>1, <2>2, <2>3, <3>2 DEF RunInv, DashboardOptions
  <2>4. CASE born # "dashboard"
    BY <2>1, <2>2, <2>4 DEF RunInv, TerminalOptions
  <2> QED
    BY <2>3, <2>4
<1>5. CASE Prepare
  <2>1. /\ UNCHANGED <<born, event, row, config, cases, status>>
        /\ work.at # "off" /\ work'.full = work.full
    BY <1>5 DEF Prepare, asked
  <2> QED
    BY <2>1 DEF RunInv, DashboardOptions, TerminalOptions
<1>6. CASE BeginTool
  <2>1. /\ UNCHANGED <<born, event, row, config, cases>> /\ status' = "running"
        /\ work.at # "off" /\ work'.full = work.full
    BY <1>6 DEF BeginTool, asked
  <2> QED
    BY <2>1 DEF RunInv, DashboardOptions, TerminalOptions
<1>7. CASE StopRun \/ CrashRun \/ EndRun
  <2>1. /\ UNCHANGED <<born, event, row, config, cases>> /\ work'.at = "off"
        /\ status' \in {"stopped", "failed", "completed", "execution_error"}
    BY <1>7 DEF StopRun, CrashRun, EndRun, asked, Off
  <2> QED
    BY <2>1 DEF RunInv, DashboardOptions, TerminalOptions
<1>8. CASE ContinueTool
  <2>1. UNCHANGED <<born, event, row, config, cases, work>> /\ status' = "ready"
    BY <1>8 DEF ContinueTool, asked
  <2> QED
    BY <2>1 DEF RunInv, DashboardOptions, TerminalOptions
<1>9. CASE UNCHANGED vars
  BY <1>9 DEF vars, asked, RunInv, DashboardOptions, TerminalOptions
<1> QED
  BY <1>1, <1>2, <1>3, <1>4, <1>5, <1>6, <1>7, <1>8, <1>9 DEF Next

\* A worker is at one of its places, with tools to run.
WorkRecords == [at : {"off", "loaded", "planned", "tools"}, full : BOOLEAN, todo : SUBSET Tools]
WorkInv     == work \in WorkRecords

\* A plan only holds tools that are followed.
LEMMA SelectedAreTools ==
  ASSUME NEW full, NEW o, NEW named PROVE Selected(full, o, named) \subseteq Tools
  BY DEF Selected

\* A worker that starts and one that has ended have the type.
LEMMA OffIsTyped ==
  ASSUME NEW full \in BOOLEAN
  PROVE  Off \in WorkRecords /\ [Off EXCEPT !.at = "loaded", !.full = full] \in WorkRecords
<1>1. Off \in WorkRecords
  BY DEF Off, WorkRecords
<1> HIDE DEF Off
<1>2. [Off EXCEPT !.at = "loaded", !.full = full] \in WorkRecords
  BY <1>1 DEF WorkRecords
<1> QED
  BY <1>1, <1>2

\* No step takes the worker anywhere else.
LEMMA WorkIsTyped == Spec => []WorkInv
<1>1. Init => WorkInv
  BY OffIsTyped DEF Init, WorkInv
<1>2. WorkInv /\ [Next]_vars => WorkInv'
  <2> SUFFICES ASSUME WorkInv, [Next]_vars PROVE WorkInv'
    OBVIOUS
  <2>1. ASSUME NEW r \in Requests, StartFromTerminal(r) PROVE WorkInv'
    <3> DEFINE f == "full" \in r.options.on
    <3>1. work' = [Off EXCEPT !.at = "loaded", !.full = f]
      BY <2>1 DEF StartFromTerminal
    <3>2. f \in BOOLEAN
      OBVIOUS
    <3> HIDE DEF f
    <3>3. [Off EXCEPT !.at = "loaded", !.full = f] \in WorkRecords
      BY <3>2, OffIsTyped
    <3> QED
      BY <3>1, <3>3 DEF WorkInv
  <2>2. CASE RunExisting
    <3> DEFINE f == "full" \in Merged.on
    <3>1. work' = work \/ work' = [Off EXCEPT !.at = "loaded", !.full = f]
      BY <2>2 DEF RunExisting
    <3>2. f \in BOOLEAN
      OBVIOUS
    <3> HIDE DEF f
    <3>3. [Off EXCEPT !.at = "loaded", !.full = f] \in WorkRecords
      BY <3>2, OffIsTyped
    <3> QED
      BY <3>1, <3>3 DEF WorkInv
  <2>3. CASE PlanRun
    <3>1. PICK named : work' = [work EXCEPT !.at = "planned",
                                            !.todo = Selected(work.full, config, named)]
      BY <2>3 DEF PlanRun
    <3> QED
      BY <3>1, SelectedAreTools DEF WorkInv, WorkRecords
  <2>4. CASE Prepare
    BY <2>4 DEF Prepare, WorkInv, WorkRecords
  <2>5. CASE BeginTool
    BY <2>5 DEF BeginTool, WorkInv, WorkRecords
  <2>6. CASE StopRun \/ CrashRun \/ EndRun
    <3>1. work' = Off
      BY <2>6 DEF StopRun, CrashRun, EndRun
    <3> QED
      BY <3>1, OffIsTyped DEF WorkInv
  <2>7. CASE UNCHANGED work
    BY <2>7 DEF WorkInv
  <2> QED
    BY <2>1, <2>2, <2>3, <2>4, <2>5, <2>6, <2>7
    DEF Next, vars, StartFromDashboard, ContinueTool
<1> QED
  BY <1>1, <1>2, PTL DEF Spec

\* The options stay where their origin puts them, in every behaviour.
LEMMA RunsKeepOptions == Spec => []RunInv
<1>1. Init => RunInv
  BY RunInvInit
<1>2. RunInv /\ [Next]_vars => RunInv'
  BY RunInvNext
<1> QED
  BY <1>1, <1>2, PTL DEF Spec

\* Whatever was asked for and accepted, no run refuses it (scan_config.py:
\* normalize_scan_config; cli.py: scan_run_existing).
THEOREM Accepted == Spec => []RerunsAreAccepted
<1>1. RunInv => RerunsAreAccepted
  BY DEF RunInv, RerunsAreAccepted
<1> QED
  BY <1>1, RunsKeepOptions, PTL

\* Whatever was asked for and whatever the model answers, each run of a
\* dashboard's scan selects the tools that the first one selected, but for those
\* that only an answer can bring (cli.py: scan_run_existing; prompt_runner.py:
\* run_prompt_scan, _normalize_ai_tools).
THEOREM Repeat == Spec => PlansRepeat
<1>1. ASSUME RunInv, WorkInv, [Next]_vars
      PROVE  [born = "dashboard" /\ work.at = "loaded" /\ work'.at = "planned" =>
                 work'.todo \cup OnlyNamed = cases' \cup OnlyNamed]_vars
  <2> SUFFICES ASSUME born = "dashboard", work.at = "loaded", work'.at = "planned"
               PROVE  work'.todo \cup OnlyNamed = cases' \cup OnlyNamed
    OBVIOUS
  <2>1. CASE PlanRun
    <3>1. PICK named \in SUBSET (Tools \cap PlanTools(work.full)) :
              /\ cases' = cases \cup Selected(work.full, config, named)
              /\ work' = [work EXCEPT !.at = "planned",
                                     !.todo = Selected(work.full, config, named)]
      BY <2>1 DEF PlanRun
    <3>2. work'.todo = Selected(work.full, config, named)
      BY <1>1, <3>1 DEF WorkInv, WorkRecords
    <3>3. work.full = ("full" \in event.on) /\ config = event
          /\ (cases # {} => cases \cup OnlyNamed
                 = Selected("full" \in event.on, event, {}) \cup OnlyNamed)
      BY <1>1 DEF RunInv, DashboardOptions
    <3>4. Selected(work.full, config, named) \cup OnlyNamed
            = Selected("full" \in event.on, event, {}) \cup OnlyNamed
      BY <3>3, PlanAddsNames
    <3> QED
      BY <3>1, <3>2, <3>3, <3>4
  <2>2. CASE ~PlanRun
    BY <1>1, <2>2 DEF Next, vars, StartFromDashboard, StartFromTerminal, RunExisting, Prepare,
       BeginTool, StopRun, CrashRun, EndRun, ContinueTool, Off
  <2> QED
    BY <2>1, <2>2
<1> QED
  BY <1>1, RunsKeepOptions, WorkIsTyped, PTL DEF Spec, PlansRepeat

-------------------------------------------------------------------------------
(***************************************************************************)
(* The chosen categories                                                   *)
(***************************************************************************)
\* What _selected_tool_plan_payload writes.
PlanRecords == [final : SUBSET Tools, allowed : SUBSET Tools, executed : SUBSET Tools,
                written : BOOLEAN]

\* Tools that the chosen categories allow; without categories, any.
Within(ts) == config.categories # {} => ts \subseteq AllowedBy(config.categories)

\* A plan that is written, and what a worker has left to run of it, stay within
\* the categories.  Both are needed: Prepare makes the plan of the worker's list.
ChosenInv ==
    /\ plan \in PlanRecords /\ runs \subseteq Tools
    /\ born = "none" => ~plan.written
    /\ plan.written => Within(Bound(plan)) /\ Within(plan.allowed)
    /\ work.at \in {"planned", "tools"} => plan.written /\ Within(work.todo)

\* No run of a scan changes its categories.
LEMMA RunKeepsCategories ==
  ASSUME RunInv, RunExisting
  PROVE  config'.categories = config.categories
<1>1. CASE born = "dashboard"
  BY <1>1, MergedIsAsked DEF RunInv, DashboardOptions, RunExisting
<1>2. CASE born # "dashboard"
  <2>1. TerminalOptions
    BY <1>2 DEF RunInv, RunExisting
  <2>2. config' = Normalized(Merged)
    BY <2>1, MergedIsColumns DEF RunExisting
  <2>3. Merged.categories = config.categories
    BY <2>1 DEF TerminalOptions, Merged, OptionRecords
  <2>4. Merged \in OptionRecords
    BY <2>1 DEF TerminalOptions, Merged, OptionRecords
  <2> QED
    BY <2>2, <2>3, <2>4 DEF Normalized, OptionRecords
<1> QED
  BY <1>1, <1>2

\* Every step keeps the plan and the worker within the categories.
LEMMA ChosenInvNext ==
  ASSUME RunInv, WorkInv, ChosenInv, [Next]_vars
  PROVE  ChosenInv'
<1>1. ASSUME NEW r \in Requests, StartFromDashboard(r) \/ StartFromTerminal(r)
      PROVE  ChosenInv'
  <2>1. /\ UNCHANGED <<plan, runs>> /\ ~plan.written /\ born' # "none"
        /\ work'.at \in {"off", "loaded"}
    BY <1>1 DEF StartFromDashboard, StartFromTerminal, ChosenInv, RunInv, Off
  <2> QED
    BY <2>1 DEF ChosenInv
<1>2. CASE RunExisting
  <2>1. config'.categories = config.categories
    BY <1>2, RunKeepsCategories
  <2>2. /\ UNCHANGED <<plan, runs, born>> /\ born # "none"
        /\ work'.at \in {"off", "loaded"}
    BY <1>2 DEF RunExisting, asked, Off
  <2> QED
    BY <2>1, <2>2 DEF ChosenInv, Within, Bound
<1>3. CASE PlanRun
  <2>0. PICK named \in SUBSET (Tools \cap PlanTools(work.full)) :
            LET selected == Selected(work.full, config, named)
            IN /\ WritePlan(selected, IF config.categories = {} THEN selected
                                      ELSE AllowedBy(config.categories))
               /\ work' = [work EXCEPT !.at = "planned", !.todo = selected]
    BY <1>3 DEF PlanRun
  <2> DEFINE selected == Selected(work.full, config, named)
             allowed  == IF config.categories = {} THEN selected
                         ELSE AllowedBy(config.categories)
             executed == IF runs # {} THEN runs ELSE plan.executed
  <2>1. /\ plan' = [final |-> selected, allowed |-> allowed, written |-> TRUE,
                    executed |-> executed]
        /\ work' = [work EXCEPT !.at = "planned", !.todo = selected]
        /\ UNCHANGED <<born, config, runs>>
    BY <1>3, <2>0 DEF PlanRun, WritePlan, asked
  <2>2. Within(selected) /\ Within(allowed)
    BY DEF Selected, Within
  <2>3. selected \subseteq Tools /\ allowed \subseteq Tools /\ executed \subseteq Tools
    BY SelectedAreTools DEF AllowedBy, ChosenInv, PlanRecords
  <2>4. work'.todo = selected
    BY <2>1 DEF WorkInv, WorkRecords
  <2>5. born # "none"
    BY <1>3 DEF PlanRun, RunInv
  <2> HIDE DEF selected, allowed, executed
  <2>6. plan' \in PlanRecords
    BY <2>1, <2>3 DEF PlanRecords
  <2>7. Bound(plan') \in {selected, allowed} /\ plan'.allowed = allowed
    BY <2>1 DEF Bound
  <2> QED
    BY <2>1, <2>2, <2>4, <2>5, <2>6, <2>7 DEF ChosenInv, Within
<1>4. CASE Prepare
  <2>1. PICK missing \in SUBSET (Programs \cap work.todo) :
            /\ work' = [work EXCEPT !.at = "tools", !.todo = @ \ missing]
            /\ plan' = [plan EXCEPT !.final = work.todo \ missing]
    BY <1>4 DEF Prepare
  <2>2. UNCHANGED <<born, config, runs>> /\ work.at = "planned" /\ born # "none"
    BY <1>4 DEF Prepare, asked, RunInv
  <2>3. work'.todo = work.todo \ missing /\ work.todo \subseteq Tools
    BY <2>1 DEF WorkInv, WorkRecords
  <2>4. /\ plan' \in PlanRecords /\ plan'.final = work.todo \ missing
        /\ plan'.allowed = plan.allowed /\ plan'.written = plan.written
    BY <2>1, <2>3 DEF ChosenInv, PlanRecords
  <2>5. Within(work.todo)
    BY <2>2 DEF ChosenInv
  <2> QED
    BY <2>2, <2>3, <2>4, <2>5 DEF ChosenInv, Within, Bound
<1>5. CASE BeginTool
  <2>1. PICK t \in work.todo :
            /\ runs' = runs \cup {t}
            /\ plan' = [plan EXCEPT !.executed = @ \cup {t}]
            /\ work' = [work EXCEPT !.todo = @ \ {t}]
    BY <1>5 DEF BeginTool
  <2>2. UNCHANGED <<born, config>> /\ work.at = "tools"
    BY <1>5 DEF BeginTool, asked
  <2>3. work'.todo = work.todo \ {t} /\ t \in Tools
    BY <2>1 DEF WorkInv, WorkRecords
  <2>4. /\ plan' \in PlanRecords /\ plan'.final = plan.final
        /\ plan'.allowed = plan.allowed /\ plan'.written = plan.written
    BY <2>1, <2>3 DEF ChosenInv, PlanRecords
  <2> QED
    BY <2>1, <2>2, <2>3, <2>4 DEF ChosenInv, Within, Bound
<1>6. CASE StopRun \/ EndRun
  <2> DEFINE executed == IF runs # {} THEN runs ELSE plan.executed
  <2>1. /\ plan' = [final |-> plan.final, allowed |-> plan.allowed, written |-> TRUE,
                    executed |-> executed]
        /\ UNCHANGED <<born, config, runs>> /\ work'.at = "off"
        /\ work.at = "tools"
    BY <1>6 DEF StopRun, EndRun, WritePlan, asked, Off
  <2>2. executed \subseteq Tools
    BY DEF ChosenInv, PlanRecords
  <2>3. plan.written /\ born # "none"
    BY <2>1 DEF ChosenInv, RunInv
  <2> HIDE DEF executed
  <2>4. plan' \in PlanRecords /\ plan'.final = plan.final /\ plan'.allowed = plan.allowed
    BY <2>1, <2>2 DEF ChosenInv, PlanRecords
  <2> QED
    BY <2>1, <2>3, <2>4 DEF ChosenInv, Within, Bound
<1>7. CASE CrashRun
  BY <1>7 DEF CrashRun, asked, Off, ChosenInv, Within, Bound
<1>8. CASE ContinueTool
  BY <1>8 DEF ContinueTool, asked, ChosenInv, Within, Bound
<1>9. CASE UNCHANGED vars
  BY <1>9 DEF vars, asked, ChosenInv, Within, Bound
<1> QED
  BY <1>1, <1>2, <1>3, <1>4, <1>5, <1>6, <1>7, <1>8, <1>9 DEF Next

\* The plan stays within the categories, in every behaviour.
LEMMA PlansStayWithin == Spec => []ChosenInv
<1>1. Init => ChosenInv
  BY DEF Init, ChosenInv, NoPlan, PlanRecords, Off
<1>2. RunInv /\ WorkInv /\ ChosenInv /\ [Next]_vars => ChosenInv'
  BY ChosenInvNext
<1> QED
  BY <1>1, <1>2, RunsKeepOptions, WorkIsTyped, PTL DEF Spec

\* Whatever was chosen, no tool outside of it is recorded once there is a plan
\* (prompt_runner.py: is_tool_selected, _record_tool).
THEOREM Chosen == Spec => RecordedAreChosen
<1>1. ASSUME ChosenInv, [Next]_vars
      PROVE  [plan.written /\ config.categories # {} =>
                 runs' \ runs \subseteq AllowedBy(config.categories)]_vars
  <2> SUFFICES ASSUME plan.written, config.categories # {}
               PROVE  runs' \ runs \subseteq AllowedBy(config.categories)
    OBVIOUS
  <2>1. Bound(plan) \subseteq AllowedBy(config.categories)
    BY <1>1 DEF ChosenInv, Within
  <2>2. CASE BeginTool
    BY <2>1, <2>2 DEF BeginTool, IsSelected
  <2>3. CASE ContinueTool
    BY <2>1, <2>3 DEF ContinueTool, IsSelected
  <2>4. CASE runs' = runs
    BY <2>4
  <2> QED
    BY <1>1, <2>2, <2>3, <2>4 DEF Next, vars, StartFromDashboard, StartFromTerminal,
       RunExisting, PlanRun, Prepare, StopRun, CrashRun, EndRun
<1> QED
  BY <1>1, PlansStayWithin, PTL DEF Spec, RecordedAreChosen

-------------------------------------------------------------------------------
(***************************************************************************)
(* Types                                                                   *)
(***************************************************************************)
\* What a run writes into the options and the columns are options and columns.
RowTyped    == row.on \subseteq Flags \ {"full"} /\ row.policy \in Policies /\ row.confirmed \in BOOLEAN
OptionTyped == config \in OptionRecords /\ event \in OptionRecords

\* The part of the type invariant that the steps of the worker write.
AccountTyped ==
    /\ born \in {"none", "dashboard", "terminal"}
    /\ cases \subseteq Tools /\ plan.executed \subseteq runs /\ flagged \in BOOLEAN
    /\ status \in {"none", "created", "planning", "failed_precheck", "ready", "running",
                   "stopped", "failed", "completed", "execution_error"}

\* Neither a request nor a run writes anything but options.
LEMMA OptionsAreTyped == Spec => [](RowTyped /\ OptionTyped)
<1>1. Init => RowTyped /\ OptionTyped
  BY DEF Init, RowTyped, OptionTyped, NoOptions, OptionRecords, Profiles, Policies, Flags
<1>2. RunInv /\ RowTyped /\ OptionTyped /\ [Next]_vars => (RowTyped /\ OptionTyped)'
  <2> SUFFICES ASSUME RunInv, RowTyped, OptionTyped, [Next]_vars
               PROVE  RowTyped' /\ OptionTyped'
    OBVIOUS
  <2>1. ASSUME NEW r \in Requests, StartFromDashboard(r) PROVE RowTyped' /\ OptionTyped'
    <3> DEFINE o == Complete(Normalized(r.options))
    <3>1. o \in OptionRecords /\ r.confirmed \in BOOLEAN
      BY <2>1, StartIsConsistent, RequestsAssumption DEF StartFromDashboard, RequestRecords
    <3>2. event' = o /\ config' = o /\ row' = Columns(o, r.confirmed)
      BY <2>1 DEF StartFromDashboard
    <3> HIDE DEF o
    <3> QED
      BY <3>1, <3>2 DEF RowTyped, OptionTyped, Columns, OptionRecords
  <2>2. ASSUME NEW r \in Requests, StartFromTerminal(r) PROVE RowTyped' /\ OptionTyped'
    <3>1. r.options \in OptionRecords /\ r.confirmed \in BOOLEAN
      BY RequestsAssumption DEF RequestRecords
    <3>2. /\ event' = event /\ row' = Columns(r.options, r.confirmed)
          /\ config' = [NoOptions EXCEPT !.categories = r.options.categories]
      BY <2>2 DEF StartFromTerminal
    <3>3. config' \in OptionRecords
      BY <3>1, <3>2 DEF NoOptions, OptionRecords, Profiles, Policies
    <3> QED
      BY <3>1, <3>2, <3>3 DEF RowTyped, OptionTyped, Columns, OptionRecords
  <2>3. CASE RunExisting
    <3>1. config' \in OptionRecords
      BY <2>3, MergedIsAsked, MergedIsColumns DEF RunExisting, RunInv, OptionTyped
    <3> QED
      BY <2>3, <3>1 DEF RunExisting, asked, RowTyped, OptionTyped
  <2>4. CASE PlanRun
    BY <2>4 DEF PlanRun, Passed, asked, RowTyped, OptionTyped
  <2>5. CASE UNCHANGED <<row, config, event>>
    BY <2>5 DEF RowTyped, OptionTyped
  <2> QED
    BY <2>1, <2>2, <2>3, <2>4, <2>5 DEF Next, vars, asked, Prepare, BeginTool, StopRun,
       CrashRun, EndRun, ContinueTool
<1> QED
  BY <1>1, <1>2, RunsKeepOptions, PTL DEF Spec

\* Whatever is asked for and whatever tools there are, the type invariant holds
\* (models.py: Scan; prompt_runner.py: _selected_tool_plan_payload).
THEOREM Types == Spec => []PlanTypeOK
<1>1. Init => AccountTyped
  <2> SUFFICES ASSUME Init PROVE AccountTyped
    OBVIOUS
  <2>1. plan.executed = {}
    BY DEF Init, NoPlan
  <2>2. flagged \in BOOLEAN
    BY DEF Init
  <2> QED
    BY <2>1, <2>2 DEF Init, AccountTyped
<1>2. WorkInv /\ ChosenInv /\ AccountTyped /\ [Next]_vars => AccountTyped'
  <2> SUFFICES ASSUME WorkInv, ChosenInv, AccountTyped, [Next]_vars PROVE AccountTyped'
    OBVIOUS
  <2>1. ASSUME NEW r \in Requests, StartFromDashboard(r) \/ StartFromTerminal(r)
        PROVE  AccountTyped'
    BY <2>1 DEF StartFromDashboard, StartFromTerminal, AccountTyped
  <2>2. CASE RunExisting
    BY <2>2 DEF RunExisting, asked, AccountTyped
  <2>3. CASE PlanRun
    <3>0. PICK named :
              LET selected == Selected(work.full, config, named)
              IN /\ WritePlan(selected, IF config.categories = {} THEN selected
                                        ELSE AllowedBy(config.categories))
                 /\ cases' = cases \cup selected
      BY <2>3 DEF PlanRun
    <3> DEFINE selected == Selected(work.full, config, named)
    <3>1. /\ plan'.executed = (IF runs # {} THEN runs ELSE plan.executed)
          /\ cases' = cases \cup selected /\ status' = "ready"
          /\ UNCHANGED <<born, runs>> /\ flagged' = (flagged \/ runs \ Bound(plan') # {})
      BY <2>3, <3>0 DEF PlanRun, WritePlan, asked
    <3>2. selected \subseteq Tools
      BY SelectedAreTools
    <3>3. flagged' \in BOOLEAN
      BY <3>1 DEF AccountTyped
    <3> HIDE DEF selected
    <3> QED
      BY <3>1, <3>2, <3>3 DEF AccountTyped
  <2>4. CASE Prepare
    BY <2>4 DEF Prepare, asked, AccountTyped, ChosenInv, PlanRecords
  <2>5. CASE BeginTool
    <3>1. PICK t \in work.todo :
              runs' = runs \cup {t} /\ plan' = [plan EXCEPT !.executed = @ \cup {t}]
      BY <2>5 DEF BeginTool
    <3>2. plan'.executed = plan.executed \cup {t}
      BY <3>1 DEF ChosenInv, PlanRecords
    <3>3. UNCHANGED <<born, cases>> /\ status' = "running" /\ flagged' \in BOOLEAN
      BY <2>5 DEF BeginTool, asked
    <3> QED
      BY <3>1, <3>2, <3>3 DEF AccountTyped
  <2>6. CASE StopRun \/ EndRun
    <3>1. /\ plan'.executed = (IF runs # {} THEN runs ELSE plan.executed)
          /\ UNCHANGED <<born, cases, runs>> /\ flagged' = (flagged \/ runs \ Bound(plan') # {})
          /\ status' \in {"stopped", "completed", "execution_error"}
      BY <2>6 DEF StopRun, EndRun, WritePlan, asked
    <3>2. flagged' \in BOOLEAN
      BY <3>1 DEF AccountTyped
    <3> QED
      BY <3>1, <3>2 DEF AccountTyped
  <2>7. CASE CrashRun
    BY <2>7 DEF CrashRun, asked, AccountTyped
  <2>8. CASE ContinueTool
    BY <2>8 DEF ContinueTool, asked, AccountTyped
  <2>9. CASE UNCHANGED vars
    BY <2>9 DEF vars, asked, AccountTyped
  <2> QED
    BY <2>1, <2>2, <2>3, <2>4, <2>5, <2>6, <2>7, <2>8, <2>9 DEF Next
<1>3. RowTyped /\ OptionTyped /\ AccountTyped /\ WorkInv /\ ChosenInv => PlanTypeOK
  <2> SUFFICES ASSUME RowTyped, OptionTyped, AccountTyped, WorkInv, ChosenInv
               PROVE  PlanTypeOK
    OBVIOUS
  <2>1. \A o \in {config, event} : o.profile \in Profiles /\ o.policy \in Policies /\ o.on \subseteq Flags
    BY DEF OptionTyped, OptionRecords
  <2>2. plan.final \cup plan.allowed \cup cases \cup runs \subseteq Tools
    BY DEF ChosenInv, PlanRecords, AccountTyped
  <2>3. work.at \in {"off", "loaded", "planned", "tools"} /\ work.todo \subseteq Tools
    BY DEF WorkInv, WorkRecords
  <2> QED
    BY <2>1, <2>2, <2>3 DEF PlanTypeOK, RowTyped, AccountTyped
<1> QED
  BY <1>1, <1>2, <1>3, OptionsAreTyped, WorkIsTyped, PlansStayWithin, PTL DEF Spec

===============================================================================
