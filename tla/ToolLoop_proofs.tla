--------------------------- MODULE ToolLoop_proofs ---------------------------
(***************************************************************************)
(* Theorems about ToolLoop for every set of accounts, every sequence of    *)
(* selections, every profile and every setting.                            *)
(***************************************************************************)
EXTENDS ToolProperties, FiniteSetTheorems, TLAPS

-------------------------------------------------------------------------------
(***************************************************************************)
(* The selection flag                                                      *)
(***************************************************************************)
\* The loop records a row before the body of a selected tool and after it; the
\* resolver runs any tool, and records a row only for a selected one.  So in
\* the first run every row is of a selected tool, whatever the resolver does.
FlagInv ==
    /\ runs \in Nat /\ next \in Nat \ {0}
    /\ DOMAIN toolRun = Tools
    /\ pc # "idle" => runs # 0
    /\ runs = 0 => Executed = {}
    /\ runs = 1 => Executed \subseteq Selected
    /\ blamed => runs >= 2
    /\ pc = "resolve" => host \in Selected \ {"none"}
    /\ pc \in {"open", "body"} =>
         \/ host \in Selected \ {"none"}
         \/ host = "none" /\ cur \in Selected

\* Writing one tool's row adds that tool at most to the tools with a row.
LEMMA RowWritten ==
    ASSUME NEW t, NEW v, DOMAIN toolRun = Tools,
           toolRun' = [toolRun EXCEPT ![t] = v]
    PROVE  DOMAIN toolRun' = Tools /\ Executed' \subseteq Executed \cup {t}
BY DEF Executed

\* A step that leaves the run and its plan alone, and writes rows of selected
\* tools only, keeps the part of the invariant that is about rows.
LEMMA RowsKept ==
    ASSUME FlagInv, pc # "idle", UNCHANGED <<runs, plan>>,
           DOMAIN toolRun' = Tools, Executed' \subseteq Executed \cup Selected,
           blamed' => blamed \/ Misplaced
    PROVE  /\ runs' \in Nat /\ runs' # 0
           /\ runs' = 1 => Executed' \subseteq Selected'
           /\ blamed' => runs' >= 2
<1>1. Selected' = Selected
  BY DEF Selected
<1>2. runs' \in Nat /\ runs' # 0
  BY DEF FlagInv
<1>3. runs = 1 => ~Misplaced
  BY DEF FlagInv, Misplaced
<1>4. blamed' => runs' >= 2
  BY <1>2, <1>3 DEF FlagInv
<1> QED
  BY <1>1, <1>2, <1>4 DEF FlagInv

\* A tool's result, of the loop or of the resolver, keeps the invariant.
LEMMA ReturnsKeeps ==
    ASSUME FlagInv, pc \in {"open", "body"}, NEW st, NEW g, Returns(st, g)
    PROVE  FlagInv'
<1>1. UNCHANGED <<runs, plan, next, host>>
  BY DEF Returns
<1>2. Selected' = Selected
  BY <1>1 DEF Selected
<1>3. CASE LoopReturns(st, g)
  <2>1. cur \in Selected
    BY <1>3 DEF FlagInv, LoopReturns
  <2>2. DOMAIN toolRun' = Tools /\ Executed' \subseteq Executed \cup Selected
    BY <1>3, <2>1, RowWritten DEF LoopReturns, FlagInv
  <2>3. (blamed' => blamed \/ Misplaced) /\ pc' \in {"ended", "decide"}
    BY <1>3 DEF LoopReturns
  <2> QED
    BY <1>1, <1>2, <2>2, <2>3, RowsKept DEF FlagInv
<1>4. CASE ActionReturns(st)
  <2>1. host \in Selected \ {"none"}
    BY <1>4 DEF FlagInv, ActionReturns
  <2>2. DOMAIN toolRun' = Tools /\ Executed' \subseteq Executed \cup Selected
    <3>1. CASE cur \in Selected
      BY <1>4, <3>1, RowWritten DEF ActionReturns, FlagInv
    <3>2. CASE cur \notin Selected
      BY <1>4, <3>2 DEF ActionReturns, FlagInv, Executed
    <3> QED
      BY <3>1, <3>2
  <2>3. (blamed' => blamed) /\ pc' = "resolve"
    BY <1>4 DEF ActionReturns
  <2> QED
    BY <1>1, <1>2, <2>1, <2>2, <2>3, RowsKept DEF FlagInv
<1> QED
  BY <1>3, <1>4 DEF Returns

\* A step inside a tool's body that records nothing keeps the invariant.
LEMMA BodyKeeps ==
    ASSUME FlagInv, pc \in {"open", "body"}, pc' \in {"open", "body"},
           UNCHANGED <<runVars, cur, host, recordVars>>
    PROVE  FlagInv'
<1>1. UNCHANGED <<runs, plan, next, cur, host, toolRun, blamed>>
  BY DEF runVars, recordVars
<1>2. Selected' = Selected /\ Executed' = Executed
  BY <1>1 DEF Selected, Executed
<1> QED
  BY <1>1, <1>2 DEF FlagInv

\* The tool whose turn it is was selected.
LEMMA TurnSelected == ASSUME FlagInv, NEW t, AtTurn(t) PROVE t \in Selected
BY DEF FlagInv, AtTurn, Selected

\* The initial states satisfy the invariant: no tool has a row.
LEMMA InitFlag == Init => FlagInv
BY DEF Init, FlagInv, Executed

\* A run that begins: the flag is raised for what earlier runs recorded, of
\* which there is none in the first run.
LEMMA BeginKeeps == ASSUME FlagInv, NEW s, Begin(s) PROVE FlagInv'
<1>1. /\ runs' = runs + 1 /\ runs' \in Nat /\ runs' # 0 /\ next' \in Nat \ {0}
      /\ pc' = "decide" /\ toolRun' = toolRun
  BY DEF FlagInv, Begin
<1>2. Executed' = Executed
  BY <1>1 DEF Executed
<1>3. runs' = 1 => Executed' = {}
  BY <1>1, <1>2 DEF FlagInv
<1>4. blamed' => blamed \/ Executed # {}
  BY DEF Begin
<1>5. blamed' => runs' >= 2
  BY <1>1, <1>4 DEF FlagInv
<1> QED
  BY <1>1, <1>3, <1>5 DEF FlagInv

\* The loop's turn on a tool keeps the invariant.
LEMMA TurnKeeps == ASSUME FlagInv, NEW t \in Tools,
                          BlockedByGate(t) \/ Starts(t) \/ Waits(t)
                   PROVE  FlagInv'
<1>1. t \in Selected \ {"none"}
  BY TurnSelected DEF BlockedByGate, Starts, Waits, Tools, Discovery, Authorization
<1>2. UNCHANGED <<runs, plan, blamed>> /\ next' \in Nat \ {0} /\ pc # "idle"
  <2>1. next' = next + 1 /\ pc = "decide"
    BY DEF BlockedByGate, Starts, Waits, AtTurn
  <2>2. UNCHANGED <<runs, plan, blamed>>
    BY DEF BlockedByGate, Starts, Waits, recordVars
  <2> QED
    BY <2>1, <2>2 DEF FlagInv
<1>3. Selected' = Selected
  BY <1>2 DEF Selected
<1>4. CASE BlockedByGate(t)
  <2>1. toolRun' = toolRun /\ pc' = "decide"
    BY <1>4 DEF BlockedByGate, AtTurn, bodyVars
  <2>2. Executed' = Executed
    BY <2>1 DEF Executed
  <2> QED
    BY <1>2, <1>3, <2>1, <2>2, RowsKept DEF FlagInv
<1>5. CASE Starts(t)
  <2>1. cur' = t /\ host' = "none" /\ pc' = "open"
    BY <1>5 DEF Starts, Enter
  <2>2. DOMAIN toolRun' = Tools /\ Executed' \subseteq Executed \cup Selected
    BY <1>1, <1>5, RowWritten DEF Starts, Enter, FlagInv
  <2> QED
    BY <1>1, <1>2, <1>3, <2>1, <2>2, RowsKept DEF FlagInv
<1>6. CASE Waits(t)
  <2>1. toolRun' = toolRun /\ pc' = "resolve" /\ host' = t
    BY <1>6 DEF Waits, recordVars
  <2>2. Executed' = Executed
    BY <2>1 DEF Executed
  <2> QED
    BY <1>1, <1>2, <1>3, <2>1, <2>2, RowsKept DEF FlagInv
<1> QED
  BY <1>4, <1>5, <1>6

\* The resolver's own steps keep the invariant.
LEMMA ResolverKeeps == ASSUME FlagInv, Resolves \/ Resolved PROVE FlagInv'
<1>1. /\ UNCHANGED <<runs, plan, next, blamed>> /\ pc = "resolve"
      /\ host \in Selected \ {"none"}
  BY DEF FlagInv, Resolves, Resolved, runVars
<1>2. Selected' = Selected
  BY <1>1 DEF Selected
<1>3. CASE Resolves
  <2>1. toolRun' = toolRun /\ host' = host
    BY <1>1, <1>3 DEF Resolves, Enter
  <2>2. Executed' = Executed
    BY <2>1 DEF Executed
  <2> QED
    BY <1>1, <1>2, <2>1, <2>2, RowsKept DEF FlagInv
<1>4. CASE Resolved
  <2>1. DOMAIN toolRun' = Tools /\ Executed' \subseteq Executed \cup Selected
    <3>1. \E v : toolRun' = [toolRun EXCEPT ![host] = v]
      BY <1>4 DEF Resolved, Enter
    <3> QED
      BY <1>1, <3>1, RowWritten DEF FlagInv
  <2>2. \/ pc' = "open" /\ host' = "none" /\ cur' = host
        \/ pc' = "decide"
    BY <1>4 DEF Resolved, Enter
  <2> QED
    BY <1>1, <1>2, <2>1, <2>2, RowsKept DEF FlagInv
<1> QED
  BY <1>3, <1>4

\* An exception that leaves a tool keeps the invariant.
LEMMA RaisesKeeps == ASSUME FlagInv, Raises PROVE FlagInv'
<1>1. UNCHANGED <<runs, plan, next, host, blamed>> /\ pc \in {"open", "body"}
  BY DEF Raises, runVars
<1>2. Selected' = Selected
  BY <1>1 DEF Selected
<1>3. CASE host = "none"
  <2>1. cur \in Selected /\ pc' = "decide"
    BY <1>1, <1>3 DEF FlagInv, Raises
  <2>2. DOMAIN toolRun' = Tools /\ Executed' \subseteq Executed \cup Selected
    BY <1>3, <2>1, RowWritten DEF Raises, FlagInv
  <2> QED
    BY <1>1, <1>2, <2>1, <2>2, RowsKept DEF FlagInv
<1>4. CASE host # "none"
  <2>1. toolRun' = toolRun /\ pc' = "resolve" /\ host \in Selected \ {"none"}
    BY <1>1, <1>4 DEF FlagInv, Raises
  <2>2. Executed' = Executed
    BY <2>1 DEF Executed
  <2> QED
    BY <1>1, <1>2, <2>1, <2>2, RowsKept DEF FlagInv
<1> QED
  BY <1>3, <1>4

\* A step of a tool's body keeps the invariant.
LEMMA ToolKeeps == ASSUME FlagInv, Body PROVE FlagInv'
<1> USE DEF Runs
<1>1. CASE Probe
  BY <1>1, ReturnsKeeps DEF Probe
<1>2. CASE Provision
  BY <1>2, ReturnsKeeps DEF Provision
<1>3. CASE LoginOpens
  <2>1. CASE "login" \in endpoints /\ (credentials \/ Configured)
    BY <1>3, <2>1, BodyKeeps DEF LoginOpens
  <2>2. CASE ~("login" \in endpoints /\ (credentials \/ Configured))
    BY <1>3, <2>2, ReturnsKeeps DEF LoginOpens
  <2> QED
    BY <2>1, <2>2
<1>4. CASE LoginEnds
  BY <1>4, ReturnsKeeps DEF LoginEnds
<1>5. CASE ValidateOpens
  <2>1. CASE LoggedIn = {}
    BY <1>5, <2>1, ReturnsKeeps DEF ValidateOpens
  <2>2. CASE LoggedIn # {}
    BY <1>5, <2>2, BodyKeeps DEF ValidateOpens
  <2> QED
    BY <2>1, <2>2
<1>6. CASE ValidateEnds
  BY <1>6, ReturnsKeeps DEF ValidateEnds
<1>7. ASSUME NEW u \in Users, LoginUser(u) PROVE FlagInv'
  BY <1>7, BodyKeeps DEF LoginUser
<1>8. ASSUME NEW u \in Users, ValidateUser(u) PROVE FlagInv'
  BY <1>8, BodyKeeps DEF ValidateUser
<1>9. CASE Crawl
  BY <1>9, ReturnsKeeps DEF Crawl
<1>10. CASE Matrix
  BY <1>10, ReturnsKeeps DEF Matrix
<1>11. CASE Planner
  BY <1>11, ReturnsKeeps DEF Planner
<1>12. CASE Payloads
  BY <1>12, ReturnsKeeps DEF Payloads
<1>13. CASE Raises
  BY <1>13, RaisesKeeps
<1> QED
  BY <1>1, <1>2, <1>3, <1>4, <1>5, <1>6, <1>7, <1>8, <1>9, <1>10, <1>11, <1>12, <1>13
  DEF Body

\* The end of a run, however it comes, keeps the invariant.
LEMMA EndKeeps ==
    ASSUME FlagInv, Interrupted \/ Finishes \/ (Aborts /\ pc # "idle")
    PROVE  FlagInv'
<1>1. /\ UNCHANGED <<runs, plan, next, toolRun>> /\ pc # "idle" /\ pc' = "ended"
      /\ blamed' => blamed \/ Misplaced
  <2>1. CASE Interrupted
    BY <2>1, Zenon DEF Interrupted
  <2>2. CASE Finishes
    BY <2>2 DEF Finishes
  <2>3. CASE Aborts /\ pc # "idle"
    BY <2>3, Zenon DEF Aborts, recordVars
  <2> QED
    BY <2>1, <2>2, <2>3
<1>2. Selected' = Selected /\ Executed' = Executed
  BY <1>1 DEF Selected, Executed
<1> QED
  BY <1>1, <1>2, RowsKept DEF FlagInv

\* Every step keeps the invariant.
LEMMA StepFlag == FlagInv /\ [Next]_vars => FlagInv'
<1> SUFFICES ASSUME FlagInv, [Next]_vars PROVE FlagInv'
  OBVIOUS
<1>1. ASSUME NEW s, Begin(s) PROVE FlagInv'
  BY <1>1, BeginKeeps
<1>2. ASSUME NEW t \in Tools, BlockedByGate(t) \/ Starts(t) \/ Waits(t) PROVE FlagInv'
  BY <1>2, TurnKeeps
<1>3. CASE Resolves \/ Resolved
  BY <1>3, ResolverKeeps
<1>4. CASE Body
  BY <1>4, ToolKeeps
<1>5. CASE Interrupted \/ Finishes \/ (Aborts /\ pc # "idle")
  BY <1>5, EndKeeps
<1>6. ASSUME NEW t \in Tools, MarkingFails(t) PROVE FlagInv'
  BY <1>5, <1>6, Zenon DEF MarkingFails, AtTurn
<1>7. CASE Crashes
  BY <1>5, <1>7, Zenon DEF Crashes
<1>8. CASE UNCHANGED vars
  <2>1. UNCHANGED <<runs, plan, next, toolRun, pc, cur, host, blamed>>
    BY <1>8 DEF vars, runVars, bodyVars, recordVars
  <2> QED
    BY <2>1 DEF FlagInv, Executed, Selected
<1> QED
  BY <1>1, <1>2, <1>3, <1>4, <1>5, <1>6, <1>7, <1>8 DEF Next, Works, Turn

\* A scan's first run is never flagged for running a tool outside its
\* selection, although the resolver runs such tools.
THEOREM FirstRunUnflagged == Spec => []FirstRunIsNotFlagged
<1>1. FlagInv => FirstRunIsNotFlagged
  BY DEF FlagInv, FirstRunIsNotFlagged
<1> QED
  BY <1>1, InitFlag, StepFlag, PTL DEF Spec

-------------------------------------------------------------------------------
(***************************************************************************)
(* The authorization gate                                                  *)
(***************************************************************************)
\* What a ready gate stands for.
GateHolds ==
    /\ DOMAIN session = Users
    /\ gate = Ready => Cardinality(LoggedIn) >= 2 /\ inventory.candidates

\* A ready gate is never out of date where an authorization tool is entered:
\* the resolver runs no authorization tool, so that each is entered on the
\* check of its prerequisites.
GateInv ==
    /\ GateHolds
    /\ todo \in Seq(Tools \ Authorization)
    /\ pc = "open" /\ cur \in Authorization => gate = Ready /\ objects

\* A gate that is ready has two logins and requests worth replaying.
LEMMA ReadyGate ==
    ASSUME NEW logged, NEW held, NEW tok, NEW inv, GateOf(logged, held, tok, inv) = Ready
    PROVE  Cardinality(logged) >= 2 /\ inv.candidates
BY DEF GateOf, Ready

\* Logins are never taken back, whatever becomes of the session.
LEMMA LoginsGrow ==
    ASSUME LoggedIn \subseteq LoggedIn', Cardinality(LoggedIn) >= 2
    PROVE  Cardinality(LoggedIn') >= 2
<1>1. LoggedIn' \subseteq Users
  BY DEF LoggedIn
<1>2. IsFiniteSet(LoggedIn')
  BY <1>1, UsersAssumption, FS_Subset DEF UsersAssumption
<1>3. Cardinality(LoggedIn) <= Cardinality(LoggedIn')
  BY <1>2, FS_Subset
<1>4. Cardinality(LoggedIn) \in Nat /\ Cardinality(LoggedIn') \in Nat
  BY <1>2, FS_Subset, FS_CardinalityType
<1> QED
  BY <1>3, <1>4

\* The gate is kept by a step that leaves what it was computed from alone.
LEMMA GateUntouched ==
    ASSUME GateHolds, UNCHANGED <<session, inventory, gate>>
    PROVE  GateHolds'
<1>1. LoggedIn' = LoggedIn
  BY DEF LoggedIn
<1> QED
  BY <1>1 DEF GateHolds

\* The gate is kept by a step that computes it again before sessions change.
LEMMA GateComputed ==
    ASSUME GateHolds, NEW inv, NEW tok, Proves(inv, tok),
           DOMAIN session' = Users, LoggedIn \subseteq LoggedIn'
    PROVE  GateHolds'
BY ReadyGate, LoginsGrow DEF GateHolds, Proves

\* The gate is kept by a step that changes sessions and computes nothing.
LEMMA GateLeft ==
    ASSUME GateHolds, UNCHANGED <<inventory, gate>>,
           DOMAIN session' = Users, LoggedIn \subseteq LoggedIn'
    PROVE  GateHolds'
BY LoginsGrow DEF GateHolds

\* A login, whatever its outcome, keeps the gate.
LEMMA LoginKeepsGate == ASSUME GateHolds, NEW u \in Users, LoginUser(u) PROVE GateHolds'
<1>1. CASE UNCHANGED authVars
  BY <1>1, GateUntouched DEF authVars
<1>2. CASE ~UNCHANGED authVars
  <2>1. PICK got \in BOOLEAN :
          \/ /\ session' = session
             /\ \/ \E inv \in Rebuilt : Proves(inv, token')
                \/ UNCHANGED <<inventory, gate, objects>>
          \/ \E inv \in Rebuilt :
               /\ Proves(inv, token')
               /\ \E v \in {"usable", "unproven"} : session' = [session EXCEPT ![u] = v]
    BY <1>2 DEF LoginUser
  <2>2. ASSUME NEW inv, Proves(inv, token'), session' = session PROVE GateHolds'
    BY <2>2, GateComputed DEF GateHolds, LoggedIn
  <2>3. ASSUME NEW inv, Proves(inv, token'), NEW v \in {"usable", "unproven"},
               session' = [session EXCEPT ![u] = v]
        PROVE  GateHolds'
    <3>1. DOMAIN session' = Users /\ LoggedIn \subseteq LoggedIn'
      BY <2>3 DEF GateHolds, LoggedIn
    <3> QED
      BY <2>3, <3>1, GateComputed
  <2>4. CASE session' = session /\ UNCHANGED <<inventory, gate, objects>>
    BY <2>4, GateUntouched
  <2> QED
    BY <2>1, <2>2, <2>3, <2>4
<1> QED
  BY <1>1, <1>2

\* The validation of one session keeps the gate.
LEMMA ValidationKeepsGate ==
    ASSUME GateHolds, NEW u \in Users, ValidateUser(u)
    PROVE  GateHolds'
<1>1. PICK v \in Validations : session' = [session EXCEPT ![u] = v]
  BY DEF ValidateUser, Validations
<1>2. DOMAIN session' = Users /\ LoggedIn \subseteq LoggedIn'
  BY <1>1 DEF GateHolds, LoggedIn, Validations
<1>3. CASE UNCHANGED <<inventory, gate>>
  BY <1>2, <1>3, GateLeft
<1>4. ASSUME NEW inv, Proves(inv, token) PROVE GateHolds'
  BY <1>2, <1>4, GateComputed
<1> QED
  BY <1>3, <1>4 DEF ValidateUser

\* A crawl may spoil a session, never the login it came from.
LEMMA CrawlKeepsGate == ASSUME GateHolds, Crawl PROVE GateHolds'
<1>1. CASE UNCHANGED foundVars
  BY <1>1, GateUntouched DEF foundVars, authVars
<1>2. CASE ~UNCHANGED foundVars
  <2>1. UNCHANGED <<inventory, gate>>
    BY <1>2 DEF Crawl
  <2>2. PICK rejected \in SUBSET Usable :
          session' = [u \in Users |-> IF u \in rejected THEN "unproven" ELSE session[u]]
    BY <1>2 DEF Crawl, Asked, Usable
  <2>3. DOMAIN session' = Users /\ LoggedIn \subseteq LoggedIn'
    BY <2>2 DEF LoggedIn
  <2> QED
    BY <2>1, <2>3, GateLeft
<1> QED
  BY <1>1, <1>2

\* No step of a tool's body enters a tool or touches the resolver's list.
LEMMA BodyEntersNothing == Body => pc' # "open" /\ todo' = todo
<1> SUFFICES ASSUME Body PROVE pc' # "open" /\ todo' = todo
  OBVIOUS
<1>1. ASSUME NEW st, NEW g, Returns(st, g) PROVE pc' # "open" /\ todo' = todo
  BY <1>1 DEF Returns, LoopReturns, ActionReturns
<1>2. CASE Probe \/ Provision \/ LoginEnds \/ ValidateEnds \/ Crawl \/ Matrix
           \/ Planner \/ Payloads
  BY <1>1, <1>2 DEF Probe, Provision, LoginEnds, ValidateEnds, Crawl, Matrix, Planner, Payloads
<1>3. CASE LoginOpens
  BY <1>1, <1>3 DEF LoginOpens
<1>4. CASE ValidateOpens
  BY <1>1, <1>4 DEF ValidateOpens
<1>5. ASSUME NEW u \in Users, LoginUser(u) \/ ValidateUser(u)
      PROVE  pc' # "open" /\ todo' = todo
  BY <1>5 DEF LoginUser, ValidateUser
<1>6. CASE Raises
  BY <1>6 DEF Raises
<1> QED
  BY <1>2, <1>3, <1>4, <1>5, <1>6 DEF Body

\* A step of a tool's body keeps the gate.
LEMMA BodyKeepsGate == GateHolds /\ Body => GateHolds'
<1> SUFFICES ASSUME GateHolds, Body PROVE GateHolds'
  OBVIOUS
<1>1. CASE Probe \/ Provision
  BY <1>1, GateUntouched DEF Probe, Provision, authVars
<1>2. CASE LoginOpens \/ ValidateEnds \/ Payloads \/ Raises
  <2>1. UNCHANGED foundVars
    BY <1>2 DEF LoginOpens, ValidateEnds, Payloads, Raises
  <2> QED
    BY <2>1, GateUntouched DEF foundVars, authVars
<1>3. CASE LoginEnds
  <2>1. session' = session /\ \E inv : Proves(inv, token)
    BY <1>3 DEF LoginEnds
  <2> QED
    BY <2>1, GateComputed DEF GateHolds, LoggedIn
<1>4. CASE ValidateOpens
  <2>1. session' = session /\ \E inv : Proves(inv, token)
    BY <1>4 DEF ValidateOpens
  <2> QED
    BY <2>1, GateComputed DEF GateHolds, LoggedIn
<1>5. ASSUME NEW u \in Users, LoginUser(u) \/ ValidateUser(u) PROVE GateHolds'
  BY <1>5, LoginKeepsGate, ValidationKeepsGate
<1>6. CASE Crawl
  BY <1>6, CrawlKeepsGate
<1>7. CASE Matrix \/ Planner
  BY <1>7, GateUntouched DEF Matrix, Planner
<1> QED
  BY <1>1, <1>2, <1>3, <1>4, <1>5, <1>6, <1>7 DEF Body

\* The resolver's list for any artifact names no authorization tool.
LEMMA ActionsHarmless == ASSUME NEW m PROVE ActionsFor(m) \in Seq(Tools \ Authorization)
<1> DEFINE Safe == {"api_method_probe", "account_provisioning", "login_session",
                    "session_validation", "authenticated_crawling"}
<1>1. \A t \in Safe : t \in Tools \ Authorization
  BY DEF Tools, Discovery, Authorization
<1>2. \A t \in Safe : <<t>> \in Seq(Tools \ Authorization)
  <2> HIDE DEF Safe
  <2> QED
    BY <1>1
<1>3. <<>> \in Seq(Tools \ Authorization)
  OBVIOUS
<1>4. ActionsFor(m) = <<>> \/ \E t \in Safe : ActionsFor(m) = <<t>>
  BY DEF ActionsFor
<1> QED
  BY <1>2, <1>3, <1>4

\* An authorization tool that misses nothing has a ready gate and an object.
LEMMA NothingMissing ==
    ASSUME NEW t \in Authorization, MissingFor(t) = "none"
    PROVE  gate = Ready /\ objects
<1>1. CASE gate # Ready
  <2>1. MissingFor(t) = IF gate = "none" THEN "authenticated_behavior_not_proven" ELSE gate
    BY <1>1 DEF MissingFor, Authorization
  <2> QED
    BY <2>1
<1>2. CASE gate = Ready /\ ~objects
  <2>1. MissingFor(t) \in {"no_resource_candidates", "object_ownership_map"}
    BY <1>2 DEF MissingFor, Authorization
  <2> QED
    BY <2>1
<1> QED
  BY <1>1, <1>2

\* The steps of the loop and the resolver, and the ends of a run, keep the
\* invariant: they leave what was found alone.
LEMMA LoopKeepsGate ==
    ASSUME GateInv, UNCHANGED foundVars,
           todo' \in Seq(Tools \ Authorization),
           pc' = "open" /\ cur' \in Authorization => MissingFor(cur') = "none"
    PROVE  GateInv'
<1>1. GateHolds'
  BY GateUntouched DEF GateInv, foundVars, authVars
<1>2. gate' = gate /\ objects' = objects
  BY DEF foundVars, authVars
<1> QED
  BY <1>1, <1>2, NothingMissing DEF GateInv

\* Every step keeps the invariant.
LEMMA StepGate == GateInv /\ [Next]_vars => GateInv'
<1> SUFFICES ASSUME GateInv, [Next]_vars PROVE GateInv'
  OBVIOUS
<1>1. ASSUME NEW s, Begin(s) PROVE GateInv'
  <2>1. UNCHANGED foundVars /\ todo' = <<>> /\ pc' = "decide"
    BY <1>1 DEF Begin
  <2> QED
    BY <2>1, LoopKeepsGate
<1>2. ASSUME NEW t \in Tools, BlockedByGate(t) PROVE GateInv'
  <2>1. UNCHANGED foundVars /\ todo' = todo /\ pc' = "decide"
    BY <1>2 DEF BlockedByGate, AtTurn, bodyVars
  <2> QED
    BY <2>1, LoopKeepsGate DEF GateInv
<1>3. ASSUME NEW t \in Tools, Starts(t) PROVE GateInv'
  <2>1. UNCHANGED foundVars /\ todo' = todo /\ cur' = t /\ MissingFor(t) = "none"
    BY <1>3 DEF Starts, Enter
  <2> QED
    BY <2>1, LoopKeepsGate DEF GateInv
<1>4. ASSUME NEW t \in Tools, Waits(t) PROVE GateInv'
  <2>1. UNCHANGED foundVars /\ todo' = ActionsFor(MissingFor(t)) /\ pc' = "resolve"
    BY <1>4 DEF Waits
  <2> QED
    BY <2>1, ActionsHarmless, LoopKeepsGate
<1>5. CASE Resolves
  <2>1. UNCHANGED foundVars /\ todo # <<>> /\ todo' = Tail(todo)
    BY <1>5 DEF Resolves
  <2>2. todo' \in Seq(Tools \ Authorization) /\ Head(todo) \notin Authorization
    BY <2>1 DEF GateInv
  <2>3. pc' = "open" => cur' = Head(todo)
    BY <1>5 DEF Resolves, Enter
  <2> QED
    BY <2>1, <2>2, <2>3, LoopKeepsGate
<1>6. CASE Resolved
  <2>1. UNCHANGED foundVars /\ todo' = todo
    BY <1>6 DEF Resolved
  <2>2. pc' = "open" => cur' = host /\ MissingFor(host) = "none"
    BY <1>6 DEF Resolved, Enter
  <2> QED
    BY <2>1, <2>2, LoopKeepsGate DEF GateInv
<1>7. CASE Body
  BY <1>7, BodyKeepsGate, BodyEntersNothing DEF GateInv
<1>8. CASE Interrupted \/ Finishes \/ Aborts
  <2>1. UNCHANGED foundVars /\ pc' = "ended" /\ (todo' = todo \/ todo' = <<>>)
    <3>1. CASE Interrupted
      BY <3>1 DEF Interrupted
    <3>2. CASE Finishes
      BY <3>2 DEF Finishes
    <3>3. CASE Aborts
      BY <3>3 DEF Aborts
    <3> QED
      BY <1>8, <3>1, <3>2, <3>3
  <2>2. <<>> \in Seq(Tools \ Authorization)
    OBVIOUS
  <2>3. todo' \in Seq(Tools \ Authorization)
    BY <2>1, <2>2 DEF GateInv
  <2>4. UNCHANGED foundVars /\ pc' # "open"
    BY <2>1
  <2> QED
    BY <2>3, <2>4, LoopKeepsGate
<1>9. CASE UNCHANGED vars
  BY <1>9, GateUntouched DEF vars, bodyVars, foundVars, authVars, GateInv
<1> QED
  BY <1>1, <1>2, <1>3, <1>4, <1>5, <1>6, <1>7, <1>8, <1>9 DEF Next, Works, Turn, MarkingFails, Crashes

\* Two sessions are replayed against each other only when two accounts are
\* logged in, requests worth replaying are known and an object was seen:
\* whatever unblocked the tool and whatever an earlier run left behind.
THEOREM AuthorizationIsGated == Spec => []AuthorizationNeedsTwoUsers
<1>1. Init => GateInv
  BY DEF Init, GateInv, GateHolds, Ready
<1>2. GateInv => AuthorizationNeedsTwoUsers
  BY DEF GateInv, GateHolds, AuthorizationNeedsTwoUsers
<1> QED
  BY <1>1, <1>2, StepGate, PTL DEF Spec

-------------------------------------------------------------------------------
(***************************************************************************)
(* Types                                                                   *)
(***************************************************************************)
\* The type invariant in four parts, of which this is the run.
RunTyped ==
    /\ status \in {"created", "running", "paused", "stopped", "auth_blocked", "auth_failed",
                   "execution_error", "completed", "completed_with_coverage_gaps"}
    /\ profile \in Profiles /\ runs \in 0..MaxRuns
    /\ plan \in Seq(Tools) /\ focused \in BOOLEAN /\ next \in 1..(Len(plan) + 1)

\* The place in the run.
PlaceTyped ==
    /\ pc \in {"idle", "decide", "open", "body", "resolve", "ended"}
    /\ cur \in Tools \cup {"none"} /\ host \in Tools \cup {"none"}
    /\ todo \in Seq(Tools) /\ users \subseteq Users /\ good \in BOOLEAN

\* What is recorded about tools.
RecordsTyped ==
    /\ results \in [Tools -> Outcomes \cup {"none", "skipped_unselected"}]
    /\ toolRun \in [Tools -> Outcomes \cup {"none", "running"}]
    /\ case \in [Tools -> {"none", "planned", "recorded", "coverage_gap_auth_blocked"}]
    /\ blamed \in BOOLEAN /\ covered \in BOOLEAN

\* What the scan has found.
FoundTyped ==
    /\ endpoints \subseteq {"registration", "login", "templates"} /\ credentials \in BOOLEAN
    /\ session \in [Users -> Validations \cup {"none"}]
    /\ secret \in [Users -> {"none", "current", "changed"}]
    /\ token \in BOOLEAN /\ objects \in BOOLEAN /\ inventory \in Inventories
    /\ gate \in Blocking \cup {Ready, "none"}

\* The four parts.
TypedInv == RunTyped /\ PlaceTyped /\ RecordsTyped /\ FoundTyped

\* The parts together are the type invariant.
LEMMA PartsAreTypes == TypedInv => ToolTypeOK
BY Zenon DEF TypedInv, RunTyped, PlaceTyped, RecordsTyped, FoundTyped, ToolTypeOK

\* One entry of a table written with a value of its type keeps the table's type.
LEMMA EntryTyped ==
    ASSUME NEW S, NEW T, NEW f \in [S -> T], NEW x, NEW v \in T
    PROVE  [f EXCEPT ![x] = v] \in [S -> T]
OBVIOUS

\* The number of runs a scan may have.
LEMMA RunsBounded == MaxRuns \in Nat /\ \A i \in 1..MaxRuns : Selections[i] \subseteq Selection
BY SelectionsAssumption DEF SelectionsAssumption, MaxRuns

\* A step that leaves a part alone keeps its type.
LEMMA RunStays == RunTyped /\ UNCHANGED runVars => RunTyped'
BY DEF RunTyped, runVars

\* So it is with what was found.
LEMMA FoundStays == FoundTyped /\ UNCHANGED foundVars => FoundTyped'
BY DEF FoundTyped, foundVars, authVars

\* So it is with what is recorded.
LEMMA RecordsStay == RecordsTyped /\ UNCHANGED <<results, recordVars>> => RecordsTyped'
BY DEF RecordsTyped, recordVars

\* Before the first run every part has its type.
LEMMA InitTyped == Init => TypedInv
<1> SUFFICES ASSUME Init PROVE TypedInv
  OBVIOUS
<1>0. <<>> \in Seq(Tools) /\ Len(<<>>) = 0
  OBVIOUS
<1>1. RunTyped
  <2>1. plan = <<>> /\ next = 1 /\ runs = 0 /\ status = "created" /\ profile \in Profiles
        /\ focused = FALSE
    BY DEF Init
  <2>2. plan \in Seq(Tools) /\ next \in 1..(Len(plan) + 1)
    BY <1>0, <2>1
  <2>3. runs \in 0..MaxRuns
    BY <2>1, RunsBounded
  <2> QED
    BY <2>1, <2>2, <2>3 DEF RunTyped
<1>2. PlaceTyped
  BY <1>0 DEF Init, PlaceTyped
<1>3. RecordsTyped
  BY DEF Init, RecordsTyped
<1>4. NotBuilt \in Inventories
  BY DEF NotBuilt, Inventories
<1>5. FoundTyped
  BY <1>4 DEF Init, FoundTyped
<1> QED
  BY <1>1, <1>2, <1>3, <1>5 DEF TypedInv

\* A run that begins.
LEMMA BeginTyped == ASSUME TypedInv, NEW s, Begin(s) PROVE TypedInv'
<1>1. runs \in Nat /\ runs + 1 \in 1..MaxRuns /\ s \in Selections[runs + 1]
  BY RunsBounded DEF Begin, TypedInv, RunTyped
<1>2. s.tools \in Seq(Tools) /\ s.focused \in BOOLEAN
  BY <1>1, RunsBounded DEF Selection
<1>3. RunTyped'
  <2>1. /\ status' = "running" /\ runs' = runs + 1 /\ plan' = s.tools
        /\ focused' = s.focused /\ next' = 1 /\ profile' = profile
    BY DEF Begin
  <2>2. profile \in Profiles
    BY DEF TypedInv, RunTyped
  <2>3. Len(plan') \in Nat
    BY <1>2, <2>1
  <2> QED
    BY <1>1, <1>2, <2>1, <2>2, <2>3 DEF RunTyped, MaxRuns
<1>4. PlaceTyped'
  <2>1. <<>> \in Seq(Tools)
    OBVIOUS
  <2> QED
    BY <2>1 DEF Begin, PlaceTyped
<1>5. RecordsTyped'
  BY DEF Begin, RecordsTyped, TypedInv
<1>6. FoundTyped'
  BY FoundStays DEF Begin, TypedInv
<1> QED
  BY <1>3, <1>4, <1>5, <1>6 DEF TypedInv

\* Entering a tool's body.
LEMMA EnterTyped ==
    ASSUME TypedInv, NEW t \in Tools \cup {"none"}, NEW h \in Tools \cup {"none"}, Enter(t, h)
    PROVE  /\ pc' \in {"idle", "decide", "open", "body", "resolve", "ended"}
           /\ cur' \in Tools \cup {"none"} /\ host' \in Tools \cup {"none"}
           /\ users' \subseteq Users /\ good' \in BOOLEAN
           /\ toolRun' \in [Tools -> Outcomes \cup {"none", "running"}]
<1>1. toolRun' \in [Tools -> Outcomes \cup {"none", "running"}]
  BY DEF Enter, TypedInv, RecordsTyped
<1> QED
  BY <1>1 DEF Enter

\* What is tried for an artifact is tools.
LEMMA ActionsTyped == ASSUME NEW m PROVE ActionsFor(m) \in Seq(Tools)
<1>1. ActionsFor(m) \in Seq(Tools \ Authorization)
  BY ActionsHarmless
<1> QED
  BY <1>1

\* The loop's turn on a tool, and the resolver.
LEMMA LoopTyped ==
    ASSUME TypedInv, (\E t \in Tools : BlockedByGate(t) \/ Starts(t) \/ Waits(t)) \/ Resolves \/ Resolved
    PROVE  TypedInv'
<1>1. FoundTyped'
  BY FoundStays DEF BlockedByGate, Starts, Waits, Resolves, Resolved, TypedInv
<1>2. RunTyped /\ PlaceTyped /\ RecordsTyped
  BY DEF TypedInv
<1>3. ASSUME NEW t \in Tools, BlockedByGate(t) \/ Starts(t) \/ Waits(t) PROVE RunTyped'
  <2>1. UNCHANGED <<status, profile, runs, plan, focused>> /\ next' = next + 1 /\ next <= Len(plan)
    BY <1>3 DEF BlockedByGate, Starts, Waits, AtTurn
  <2>2. Len(plan) \in Nat
    BY <1>2 DEF RunTyped
  <2> QED
    BY <1>2, <2>1, <2>2 DEF RunTyped, MaxRuns
<1>4. ASSUME NEW t \in Tools, BlockedByGate(t) PROVE TypedInv'
  <2>1. PlaceTyped'
    BY <1>2, <1>4 DEF BlockedByGate, bodyVars, PlaceTyped
  <2>2. RecordsTyped'
    BY <1>2, <1>4 DEF BlockedByGate, bodyVars, RecordsTyped
  <2> QED
    BY <1>1, <1>3, <1>4, <2>1, <2>2 DEF TypedInv
<1>5. ASSUME NEW t \in Tools, Starts(t) PROVE TypedInv'
  <2>1. Enter(t, "none") /\ UNCHANGED <<todo, results, case, blamed, covered>>
    BY <1>5 DEF Starts
  <2>2. PlaceTyped' /\ RecordsTyped'
    BY <1>2, <2>1, EnterTyped DEF PlaceTyped, RecordsTyped
  <2> QED
    BY <1>1, <1>3, <1>5, <2>2 DEF TypedInv
<1>6. ASSUME NEW t \in Tools, Waits(t) PROVE TypedInv'
  <2>1. todo' \in Seq(Tools)
    BY <1>6, ActionsTyped DEF Waits
  <2>2. PlaceTyped'
    BY <1>2, <1>6, <2>1 DEF Waits, PlaceTyped
  <2>3. RecordsTyped'
    BY <1>2, <1>6, RecordsStay DEF Waits
  <2> QED
    BY <1>1, <1>3, <1>6, <2>2, <2>3 DEF TypedInv
<1>7. CASE Resolves
  <2>1. RunTyped' /\ UNCHANGED <<results, case, blamed, covered>> /\ todo # <<>> /\ todo' = Tail(todo)
    BY <1>2, <1>7, RunStays DEF Resolves
  <2>2. Head(todo) \in Tools /\ todo' \in Seq(Tools) /\ host \in Tools \cup {"none"}
    BY <1>2, <2>1 DEF PlaceTyped
  <2>3. CASE Enter(Head(todo), host)
    BY <1>1, <1>2, <2>1, <2>2, <2>3, EnterTyped DEF TypedInv, PlaceTyped, RecordsTyped
  <2>4. CASE UNCHANGED <<pc, cur, host, users, good, toolRun>>
    BY <1>1, <1>2, <2>1, <2>2, <2>4 DEF TypedInv, PlaceTyped, RecordsTyped
  <2> QED
    BY <1>7, <2>3, <2>4 DEF Resolves
<1>8. CASE Resolved
  <2>1. RunTyped' /\ UNCHANGED <<todo, blamed, covered>> /\ host \in Tools \cup {"none"}
    BY <1>2, <1>8, RunStays DEF Resolved, PlaceTyped
  <2>2. CASE Enter(host, "none") /\ UNCHANGED <<results, case>>
    BY <1>1, <1>2, <2>1, <2>2, EnterTyped DEF TypedInv, PlaceTyped, RecordsTyped
  <2>3. CASE /\ pc' = "decide" /\ cur' = "none" /\ host' = "none"
             /\ results' = [results EXCEPT ![host] = "failed"]
             /\ toolRun' = [toolRun EXCEPT ![host] = "failed"]
             /\ case' = [case EXCEPT ![host] = "recorded"]
             /\ UNCHANGED <<users, good>>
    <3>1. PlaceTyped'
      BY <1>2, <2>1, <2>3 DEF PlaceTyped
    <3>2. RecordsTyped'
      BY <1>2, <2>1, <2>3 DEF RecordsTyped, Outcomes
    <3> QED
      BY <1>1, <2>1, <3>1, <3>2 DEF TypedInv
  <2> QED
    BY <1>8, <2>2, <2>3 DEF Resolved
<1> QED
  BY <1>4, <1>5, <1>6, <1>7, <1>8

\* A tool's result.
LEMMA ReturnsTyped ==
    ASSUME TypedInv, NEW st \in Outcomes, NEW g, Returns(st, g)
    PROVE  RunTyped' /\ PlaceTyped' /\ RecordsTyped'
<1>1. RunTyped /\ PlaceTyped /\ RecordsTyped
  BY DEF TypedInv
<1>2. /\ UNCHANGED <<profile, runs, plan, focused, next, host, todo, covered>>
      /\ users' = {} /\ good' = FALSE
  BY DEF Returns
<1>3. CASE LoopReturns(st, g)
  <2>1. /\ status' \in {status, "execution_error", "auth_blocked"}
        /\ cur' = "none" /\ pc' \in {"ended", "decide"}
    BY <1>3 DEF LoopReturns
  <2>2. RunTyped' /\ PlaceTyped'
    BY <1>1, <1>2, <2>1 DEF RunTyped, PlaceTyped, MaxRuns
  <2>3. /\ results' = [results EXCEPT ![cur] = st]
        /\ toolRun' = [toolRun EXCEPT ![cur] = st]
    BY <1>3 DEF LoopReturns
  <2>4. case' \in [Tools -> {"none", "planned", "recorded", "coverage_gap_auth_blocked"}]
    <3>1. \/ case' = [case EXCEPT ![cur] = "recorded"]
          \/ case' = [t \in Tools |-> IF t \in GateBlocked \cap Selected
                                      THEN "coverage_gap_auth_blocked"
                                      ELSE IF t = cur THEN "recorded" ELSE case[t]]
      BY <1>3 DEF LoopReturns
    <3> QED
      BY <1>1, <3>1 DEF RecordsTyped
  <2>5. blamed' \in BOOLEAN
    BY <1>1, <1>3 DEF LoopReturns, RecordsTyped
  <2>6. RecordsTyped'
    BY <1>1, <1>2, <2>3, <2>4, <2>5 DEF RecordsTyped
  <2> QED
    BY <2>2, <2>6
<1>4. CASE ActionReturns(st)
  <2>1. status' = status /\ cur' = "none" /\ pc' = "resolve" /\ blamed' = blamed
    BY <1>4 DEF ActionReturns
  <2>2. RunTyped' /\ PlaceTyped'
    BY <1>1, <1>2, <2>1 DEF RunTyped, PlaceTyped, MaxRuns
  <2>3. RecordsTyped'
    BY <1>1, <1>2, <1>4, <2>1 DEF ActionReturns, RecordsTyped
  <2> QED
    BY <2>2, <2>3
<1> QED
  BY <1>3, <1>4 DEF Returns

\* The gate's status.
LEMMA GateTyped ==
    ASSUME NEW logged, NEW held, NEW tok, NEW inv
    PROVE  GateOf(logged, held, tok, inv) \in Blocking \cup {Ready, "none"}
BY DEF GateOf, Blocking, Ready

\* The proof of authenticated behaviour, rebuilt from an inventory.
LEMMA ProvesTyped ==
    ASSUME TypedInv, NEW inv \in Inventories, NEW tok, Proves(inv, tok)
    PROVE  inventory' \in Inventories /\ gate' \in Blocking \cup {Ready, "none"} /\ objects' \in BOOLEAN
<1>1. objects \in BOOLEAN /\ inv.rows \in BOOLEAN
  BY DEF TypedInv, FoundTyped, Inventories
<1>2. (objects \/ inv.rows) \in BOOLEAN
  OBVIOUS
<1>3. objects' \in BOOLEAN
  BY <1>1, <1>2 DEF Proves
<1>4. gate' \in Blocking \cup {Ready, "none"}
  BY GateTyped DEF Proves
<1> QED
  BY <1>3, <1>4 DEF Proves

\* A step inside a tool's body that records nothing keeps the other types.
LEMMA BodyTyped ==
    ASSUME TypedInv, FoundTyped', pc' = "body", users' \subseteq Users, good' \in BOOLEAN,
           UNCHANGED <<runVars, cur, host, todo, results, recordVars>>
    PROVE  TypedInv'
<1>1. RunTyped' /\ RecordsTyped'
  BY RunStays, RecordsStay DEF TypedInv
<1>2. PlaceTyped'
  BY DEF TypedInv, PlaceTyped
<1> QED
  BY <1>1, <1>2 DEF TypedInv

\* One account logs in.
LEMMA LoginTyped == ASSUME TypedInv, NEW u \in Users, LoginUser(u) PROVE TypedInv'
<1>1. FoundTyped /\ PlaceTyped
  BY DEF TypedInv
<1>2. UNCHANGED <<endpoints, credentials>>
  BY DEF LoginUser
<1>3. FoundTyped' /\ good' \in BOOLEAN
  <2>1. CASE UNCHANGED <<good, authVars>>
    BY <1>1, <1>2, <2>1, FoundStays DEF foundVars, PlaceTyped
  <2>2. CASE ~UNCHANGED <<good, authVars>>
    <3>1. PICK got \in BOOLEAN :
            /\ token' = (token \/ got)
            /\ \/ /\ secret' \in IF got /\ session[u] # "none"
                                 THEN {secret, [secret EXCEPT ![u] = "changed"]} ELSE {secret}
                  /\ UNCHANGED <<good, session>>
                  /\ \/ \E inv \in Rebuilt : Proves(inv, token')
                     \/ UNCHANGED <<inventory, gate, objects>>
               \/ \E inv \in Rebuilt :
                    /\ Proves(inv, token')
                    /\ secret' = [secret EXCEPT ![u] = IF got THEN "current" ELSE "none"]
                    /\ \E v \in {"usable", "unproven"} : session' = [session EXCEPT ![u] = v]
                    /\ good' = TRUE
      BY <2>2 DEF LoginUser
    <3>2. token' \in BOOLEAN
      <4>1. (token \/ got) \in BOOLEAN
        OBVIOUS
      <4> QED
        BY <3>1, <4>1
    <3>3. secret' \in [Users -> {"none", "current", "changed"}] /\ good' \in BOOLEAN
      BY <1>1, <3>1 DEF FoundTyped, PlaceTyped
    <3>4. session' \in [Users -> Validations \cup {"none"}]
      BY <1>1, <3>1 DEF FoundTyped, Validations
    <3>5. inventory' \in Inventories /\ gate' \in Blocking \cup {Ready, "none"} /\ objects' \in BOOLEAN
      <4>1. CASE UNCHANGED <<inventory, gate, objects>>
        BY <1>1, <4>1 DEF FoundTyped
      <4>2. CASE \E inv \in Rebuilt : Proves(inv, token')
        BY <4>2, ProvesTyped DEF Rebuilt
      <4> QED
        BY <3>1, <4>1, <4>2
    <3> QED
      BY <1>1, <1>2, <3>2, <3>3, <3>4, <3>5 DEF FoundTyped
  <2> QED
    BY <2>1, <2>2
<1>4. /\ users' \subseteq Users /\ pc' = "body"
      /\ UNCHANGED <<runVars, cur, host, todo, results, recordVars>>
  BY <1>1 DEF LoginUser, PlaceTyped
<1> QED
  BY <1>3, <1>4, BodyTyped

\* One session is validated.
LEMMA ValidationTyped == ASSUME TypedInv, NEW u \in Users, ValidateUser(u) PROVE TypedInv'
<1>1. FoundTyped /\ PlaceTyped
  BY DEF TypedInv
<1>2. UNCHANGED <<endpoints, credentials, secret, token>>
  BY DEF ValidateUser
<1>3. PICK v \in Validations : session' = [session EXCEPT ![u] = v]
  BY DEF ValidateUser, Validations
<1>4. session' \in [Users -> Validations \cup {"none"}]
  BY <1>1, <1>3 DEF FoundTyped
<1>5. good' \in BOOLEAN
  <2>1. \A v2 \in STRING : (good \/ v2 = "usable") \in BOOLEAN
    OBVIOUS
  <2> QED
    BY <1>1, <2>1 DEF ValidateUser, PlaceTyped
<1>6. inventory' \in Inventories /\ gate' \in Blocking \cup {Ready, "none"} /\ objects' \in BOOLEAN
  <2>1. CASE UNCHANGED <<inventory, gate, objects>>
    BY <1>1, <2>1 DEF FoundTyped
  <2>2. CASE \E inv \in Rebuilt : Proves(inv, token)
    BY <2>2, ProvesTyped DEF Rebuilt
  <2> QED
    BY <2>1, <2>2 DEF ValidateUser
<1>7. FoundTyped'
  BY <1>1, <1>2, <1>4, <1>6 DEF FoundTyped
<1>8. /\ users' \subseteq Users /\ pc' = "body"
      /\ UNCHANGED <<runVars, cur, host, todo, results, recordVars>>
  BY <1>1 DEF ValidateUser, PlaceTyped
<1> QED
  BY <1>5, <1>7, <1>8, BodyTyped

\* A tool that returns after a step that keeps the types of what was found.
LEMMA ReturnedTyped ==
    ASSUME TypedInv, FoundTyped', NEW st \in Outcomes, NEW g, Returns(st, g)
    PROVE  TypedInv'
BY ReturnsTyped DEF TypedInv

\* The tools that probe, provision and crawl.
LEMMA FinderTyped == ASSUME TypedInv, Probe \/ Provision \/ Crawl PROVE TypedInv'
<1>1. FoundTyped
  BY DEF TypedInv
<1>2. CASE Probe
  <2>1. PICK more \in SUBSET {"registration", "login", "templates"} : endpoints' = endpoints \cup more
    BY <1>2 DEF Probe
  <2>2. FoundTyped'
    BY <1>1, <1>2, <2>1 DEF Probe, FoundTyped, authVars
  <2> QED
    BY <1>2, <2>2, ReturnedTyped DEF Probe, Outcomes
<1>3. CASE Provision
  <2>1. FoundTyped'
    BY <1>1, <1>3 DEF Provision, FoundTyped, authVars
  <2> QED
    BY <1>3, <2>1, ReturnedTyped DEF Provision, Outcomes
<1>4. CASE Crawl
  <2>1. CASE Returns("failed", gate) /\ UNCHANGED foundVars
    BY <1>1, <2>1, FoundStays, ReturnedTyped DEF Outcomes
  <2>2. CASE ~(Returns("failed", gate) /\ UNCHANGED foundVars)
    <3>1. PICK ok \in SUBSET Users, rejected \in SUBSET Users :
            /\ session' = [u \in Users |-> IF u \in rejected THEN "unproven" ELSE session[u]]
            /\ objects' \in {objects, objects \/ Asked # {}}
            /\ Returns(IF ok # {} THEN "succeeded" ELSE "failed", gate)
            /\ UNCHANGED <<endpoints, credentials, secret, token, inventory, gate>>
      BY <1>4, <2>2 DEF Crawl, Asked, Usable
    <3>2. session' \in [Users -> Validations \cup {"none"}]
      BY <1>1, <3>1 DEF FoundTyped, Validations
    <3>3. objects' \in BOOLEAN
      <4>1. (objects \/ ok \cup rejected # {}) \in BOOLEAN
        OBVIOUS
      <4> QED
        BY <1>1, <3>1, <4>1 DEF FoundTyped
    <3>4. FoundTyped'
      BY <1>1, <3>1, <3>2, <3>3 DEF FoundTyped
    <3> QED
      BY <3>1, <3>4, ReturnedTyped DEF Outcomes
  <2> QED
    BY <2>1, <2>2
<1> QED
  BY <1>2, <1>3, <1>4

\* The tools that log in and validate, before and after their accounts.
LEMMA SessionTyped ==
    ASSUME TypedInv, LoginOpens \/ LoginEnds \/ ValidateOpens \/ ValidateEnds
    PROVE  TypedInv'
<1>1. FoundTyped /\ PlaceTyped
  BY DEF TypedInv
<1>2. CASE LoginOpens
  <2>1. FoundTyped'
    BY <1>1, <1>2, FoundStays DEF LoginOpens
  <2>2. CASE Returns("failed", gate)
    BY <2>1, <2>2, ReturnedTyped DEF Outcomes
  <2>3. CASE /\ pc' = "body" /\ users' = Users
             /\ UNCHANGED <<runVars, cur, host, todo, good, results, recordVars>>
    <3>1. users' \subseteq Users /\ good' \in BOOLEAN
      BY <1>1, <2>3 DEF PlaceTyped
    <3> QED
      BY <2>1, <2>3, <3>1, BodyTyped
  <2> QED
    BY <1>2, <2>2, <2>3 DEF LoginOpens
<1>3. CASE LoginEnds
  <2>1. PICK inv \in Inventories : Proves(inv, token)
    BY <1>3 DEF LoginEnds
  <2>2. FoundTyped'
    BY <1>1, <1>3, <2>1, ProvesTyped DEF LoginEnds, FoundTyped
  <2> QED
    BY <1>3, <2>2, ReturnedTyped DEF LoginEnds, Outcomes
<1>4. CASE ValidateOpens
  <2>1. PICK inv \in Inventories : Proves(inv, token)
    BY <1>1, <1>4 DEF ValidateOpens, FoundTyped
  <2>2. FoundTyped'
    BY <1>1, <1>4, <2>1, ProvesTyped DEF ValidateOpens, FoundTyped
  <2>3. CASE LoggedIn = {}
    <3>1. Returns(IF Proven(gate') THEN "succeeded" ELSE "failed", gate')
      BY <1>4, <2>3 DEF ValidateOpens
    <3> QED
      BY <2>2, <3>1, ReturnedTyped DEF Outcomes
  <2>4. CASE LoggedIn # {}
    <3>1. /\ pc' = "body" /\ users' = LoggedIn
          /\ UNCHANGED <<runVars, cur, host, todo, good, results, recordVars>>
      BY <1>4, <2>4 DEF ValidateOpens
    <3>2. users' \subseteq Users /\ good' \in BOOLEAN
      BY <1>1, <3>1 DEF PlaceTyped, LoggedIn
    <3> QED
      BY <2>2, <3>1, <3>2, BodyTyped
  <2> QED
    BY <2>3, <2>4
<1>5. CASE ValidateEnds
  BY <1>1, <1>5, FoundStays, ReturnedTyped DEF ValidateEnds, Outcomes
<1> QED
  BY <1>2, <1>3, <1>4, <1>5

\* The tools that test, and an exception that leaves a tool.
LEMMA TesterTyped == ASSUME TypedInv, Matrix \/ Planner \/ Payloads \/ Raises PROVE TypedInv'
<1>1. FoundTyped
  BY DEF TypedInv
<1>2. ASSUME Infers PROVE objects' \in BOOLEAN
  <2>1. objects \in BOOLEAN /\ inventory.rows \in BOOLEAN
    BY <1>1 DEF FoundTyped, Inventories
  <2>2. (objects \/ inventory.rows) \in BOOLEAN
    OBVIOUS
  <2> QED
    BY <1>2, <2>1, <2>2 DEF Infers
<1>3. CASE Matrix
  <2>1. FoundTyped'
    BY <1>1, <1>2, <1>3 DEF Matrix, FoundTyped
  <2>2. \E st \in Outcomes : Returns(st, gate)
    BY <1>3 DEF Matrix, Outcomes
  <2> QED
    BY <2>1, <2>2, ReturnedTyped
<1>4. CASE Planner
  <2>1. FoundTyped'
    BY <1>1, <1>2, <1>4 DEF Planner, FoundTyped
  <2>2. \E st \in Outcomes : Returns(st, gate)
    BY <1>4 DEF Planner, Outcomes
  <2> QED
    BY <2>1, <2>2, ReturnedTyped
<1>5. CASE Payloads
  BY <1>1, <1>5, FoundStays, ReturnedTyped DEF Payloads
<1>6. CASE Raises
  <2>1. RunTyped' /\ FoundTyped'
    BY <1>1, <1>6, RunStays, FoundStays DEF Raises, TypedInv
  <2>2. PlaceTyped'
    BY <1>6 DEF Raises, TypedInv, PlaceTyped
  <2>3. RecordsTyped'
    <3>1. CASE host = "none"
      BY <1>6, <3>1 DEF Raises, TypedInv, RecordsTyped, Outcomes
    <3>2. CASE host # "none"
      BY <1>6, <3>2 DEF Raises, TypedInv, RecordsTyped
    <3> QED
      BY <3>1, <3>2
  <2> QED
    BY <2>1, <2>2, <2>3 DEF TypedInv
<1> QED
  BY <1>3, <1>4, <1>5, <1>6

\* The end of a run.
LEMMA EndTyped ==
    ASSUME TypedInv,
           \/ Interrupted \/ Finishes
           \/ Aborts /\ status' \in {status, "execution_error"}
    PROVE  TypedInv'
<1>1. RunTyped /\ PlaceTyped /\ RecordsTyped /\ FoundTyped
  BY DEF TypedInv
<1>2. CASE Interrupted
  <2>1. /\ status' \in {"stopped", "paused"} /\ pc' = "ended"
        /\ blamed' = (blamed \/ Misplaced)
        /\ UNCHANGED <<profile, runs, plan, focused, next, cur, host, todo, users, good, results,
                       toolRun, case, covered, foundVars>>
    BY <1>2, Zenon DEF Interrupted
  <2>2. RunTyped' /\ PlaceTyped'
    BY <1>1, <2>1 DEF RunTyped, PlaceTyped, MaxRuns
  <2>3. RecordsTyped'
    BY <1>1, <2>1 DEF RecordsTyped
  <2> QED
    BY <1>1, <2>1, <2>2, <2>3, FoundStays DEF TypedInv
<1>3. CASE Finishes
  <2>1. /\ pc' = "ended" /\ blamed' \in BOOLEAN /\ covered' = TRUE
        /\ case' = [t \in Tools |-> IF case[t] = "planned" THEN "recorded" ELSE case[t]]
        /\ UNCHANGED <<profile, runs, plan, focused, next, cur, host, todo, users, good, results,
                       toolRun, foundVars>>
    BY <1>3 DEF Finishes
  <2>2. status' \in {"execution_error", "completed", "auth_failed", "completed_with_coverage_gaps"}
    BY <1>3 DEF Finishes, FinalStatus
  <2>3. RunTyped' /\ PlaceTyped'
    BY <1>1, <2>1, <2>2 DEF RunTyped, PlaceTyped, MaxRuns
  <2>4. RecordsTyped'
    BY <1>1, <2>1 DEF RecordsTyped
  <2> QED
    BY <1>1, <2>1, <2>3, <2>4, FoundStays DEF TypedInv
<1>4. CASE Aborts /\ status' \in {status, "execution_error"}
  <2>1. /\ pc' = "ended" /\ cur' = "none" /\ host' = "none"
        /\ todo' = <<>> /\ users' = {} /\ good' = FALSE
        /\ results' = [t \in Tools |-> "none"]
        /\ UNCHANGED <<profile, runs, plan, focused, next, recordVars, foundVars>>
    BY <1>4 DEF Aborts
  <2>2. <<>> \in Seq(Tools)
    OBVIOUS
  <2>3. PlaceTyped'
    BY <2>1, <2>2 DEF PlaceTyped
  <2>4. RunTyped'
    BY <1>1, <1>4, <2>1 DEF RunTyped, MaxRuns
  <2>5. RecordsTyped'
    BY <1>1, <2>1 DEF RecordsTyped, recordVars
  <2> QED
    BY <1>1, <2>1, <2>3, <2>4, <2>5, FoundStays DEF TypedInv
<1> QED
  BY <1>2, <1>3, <1>4

\* Every step keeps the types.
LEMMA StepTyped == TypedInv /\ [Next]_vars => TypedInv'
<1> SUFFICES ASSUME TypedInv, [Next]_vars PROVE TypedInv'
  OBVIOUS
<1>1. ASSUME NEW s, Begin(s) PROVE TypedInv'
  BY <1>1, BeginTyped
<1>2. CASE (\E t \in Tools : BlockedByGate(t) \/ Starts(t) \/ Waits(t)) \/ Resolves \/ Resolved
  BY <1>2, LoopTyped
<1>3. CASE Body
  <2>1. ASSUME NEW u \in Users, LoginUser(u) \/ ValidateUser(u) PROVE TypedInv'
    BY <2>1, LoginTyped, ValidationTyped
  <2> QED
    BY <1>3, <2>1, FinderTyped, SessionTyped, TesterTyped DEF Body
<1>4. CASE Interrupted \/ Finishes
  BY <1>4, EndTyped
<1>5. ASSUME NEW t \in Tools, MarkingFails(t) PROVE TypedInv'
  BY <1>5, EndTyped DEF MarkingFails
<1>6. CASE Crashes
  BY <1>6, EndTyped DEF Crashes
<1>7. CASE UNCHANGED vars
  <2>1. RunTyped' /\ FoundTyped' /\ RecordsTyped'
    BY <1>7, RunStays, FoundStays, RecordsStay DEF vars, bodyVars, TypedInv
  <2>2. PlaceTyped'
    BY <1>7 DEF vars, bodyVars, TypedInv, PlaceTyped
  <2> QED
    BY <2>1, <2>2 DEF TypedInv
<1> QED
  BY <1>1, <1>2, <1>3, <1>4, <1>5, <1>6, <1>7 DEF Next, Works, Turn

\* The types hold in every state of every run.
LEMMA AlwaysTyped == Spec => []TypedInv
BY InitTyped, StepTyped, PTL DEF Spec

\* Whatever selections a scan is run with and whatever becomes of its tools,
\* the loop's state keeps its types: its place in the plan is inside the plan,
\* every status it writes is one that readers know, and the gate is one of the
\* values the behaviour proof gives.
THEOREM ToolsAreTyped == Spec => []ToolTypeOK
BY AlwaysTyped, PartsAreTypes, PTL

-------------------------------------------------------------------------------
(***************************************************************************)
(* Every tool is answered for                                              *)
(***************************************************************************)
\* There is an answer for a tool: a result, or the gate's mark on its test case.
Answered(t) == results[t] # "none" \/ case[t] = "coverage_gap_auth_blocked"

\* A tool whose turn has come and whose answer is still to come: the loop runs
\* it, or the resolver works on what it misses.
InHand(t) ==
    \/ pc \in {"open", "body"} /\ host = "none" /\ t = cur
    \/ pc \in {"open", "body", "resolve"} /\ host # "none" /\ t = host

\* A run that goes on has the status running, and has an answer for every tool
\* before its place in the plan but the one in hand.
AnswerInv ==
    /\ pc = "idle" => status = "created"
    /\ pc \notin {"idle", "ended"} =>
         /\ status = "running"
         /\ \A i \in 1..(next - 1) : Answered(plan[i]) \/ InHand(plan[i])
    /\ EveryToolIsAnsweredFor

\* The tools before the place in the plan are tools of the plan.
LEMMA PlanTyped ==
    ASSUME TypedInv
    PROVE  next \in Nat /\ \A i \in 1..(next - 1) : i \in DOMAIN plan /\ plan[i] \in Tools
BY DEF TypedInv, RunTyped

\* A step that keeps a run going, moves no place, and loses no answer but to
\* the tool in hand keeps the invariant.
LEMMA AnswersKept ==
    ASSUME TypedInv, AnswerInv, pc \notin {"idle", "ended"}, status' = status,
           UNCHANGED <<plan, next>>, pc' \notin {"idle", "ended"},
           \A t \in Tools : Answered(t) \/ InHand(t) => Answered(t)' \/ InHand(t)'
    PROVE  AnswerInv'
<1>1. status' = "running"
  BY DEF AnswerInv
<1>2. \A i \in 1..(next' - 1) : Answered(plan[i])' \/ InHand(plan[i])'
  BY PlanTyped DEF AnswerInv
<1> QED
  BY <1>1, <1>2 DEF AnswerInv, EveryToolIsAnsweredFor

\* A step that ends a run unfinished keeps the invariant.
LEMMA UnfinishedEnds ==
    ASSUME pc' = "ended", status' \notin {"completed", "completed_with_coverage_gaps"}
    PROVE  AnswerInv'
BY DEF AnswerInv, EveryToolIsAnsweredFor

\* The loop's turn moves the place past a tool that is answered for or in hand.
LEMMA TurnAnswers ==
    ASSUME TypedInv, AnswerInv, NEW t \in Tools, BlockedByGate(t) \/ Starts(t) \/ Waits(t)
    PROVE  AnswerInv'
<1>1. /\ pc = "decide" /\ t = plan[next] /\ next' = next + 1
      /\ UNCHANGED <<status, plan, results>> /\ pc' \in {"decide", "open", "resolve"}
  BY DEF BlockedByGate, Starts, Waits, Enter, AtTurn, bodyVars
<1>2. Answered(t)' \/ InHand(t)'
  <2>1. CASE BlockedByGate(t)
    BY <2>1 DEF BlockedByGate, Answered, TypedInv, RecordsTyped
  <2>2. CASE Starts(t)
    BY <2>2 DEF Starts, Enter, InHand
  <2>3. CASE Waits(t)
    <3>1. t # "none"
      BY DEF Tools, Discovery, Authorization
    <3> QED
      BY <2>3, <3>1 DEF Waits, InHand
  <2> QED
    BY <2>1, <2>2, <2>3
<1>3. \A x \in Tools : Answered(x) => Answered(x)'
  <2>1. case' = case \/ case' = [case EXCEPT ![t] = "coverage_gap_auth_blocked"]
    BY DEF BlockedByGate, Starts, Waits, recordVars
  <2> QED
    BY <1>1, <2>1 DEF Answered, TypedInv, RecordsTyped
<1>4. \A i \in 1..(next - 1) : Answered(plan[i])
  BY <1>1 DEF AnswerInv, InHand
<1>5. \A i \in 1..(next' - 1) : Answered(plan[i])' \/ InHand(plan[i])'
  <2> SUFFICES ASSUME NEW i \in 1..(next' - 1) PROVE Answered(plan[i])' \/ InHand(plan[i])'
    OBVIOUS
  <2>1. i \in 1..(next - 1) \/ i = next
    BY <1>1, PlanTyped
  <2>2. CASE i = next
    BY <1>1, <1>2, <2>2
  <2>3. CASE i \in 1..(next - 1)
    <3>1. Answered(plan[i]) /\ plan[i] \in Tools
      BY <1>4, <2>3, PlanTyped
    <3> QED
      BY <1>1, <1>3, <3>1 DEF Answered
  <2> QED
    BY <2>1, <2>2, <2>3
<1>6. status' = "running"
  BY <1>1 DEF AnswerInv
<1> QED
  BY <1>1, <1>5, <1>6 DEF AnswerInv, EveryToolIsAnsweredFor

\* The resolver keeps its tool in hand until the tool is run or answered for.
LEMMA ResolverAnswers ==
    ASSUME TypedInv, FlagInv, AnswerInv, Resolves \/ Resolved
    PROVE  AnswerInv'
<1>1. /\ pc = "resolve" /\ host # "none" /\ pc' \in {"resolve", "open", "decide"}
      /\ UNCHANGED <<status, plan, next>>
  BY DEF Resolves, Resolved, Enter, FlagInv, runVars
<1>2. CASE Resolves
  <2>1. UNCHANGED <<results, case, host>> /\ pc' \in {"resolve", "open"}
    BY <1>1, <1>2 DEF Resolves, Enter
  <2>2. \A t \in Tools : Answered(t) \/ InHand(t) => Answered(t)' \/ InHand(t)'
    BY <1>1, <2>1 DEF Answered, InHand
  <2> QED
    BY <1>1, <2>1, <2>2, AnswersKept
<1>3. CASE Resolved
  <2>1. CASE Enter(host, "none") /\ UNCHANGED <<results, case>>
    <3>1. \A t \in Tools : Answered(t) \/ InHand(t) => Answered(t)' \/ InHand(t)'
      BY <1>1, <2>1 DEF Answered, InHand, Enter
    <3> QED
      BY <1>1, <3>1, AnswersKept
  <2>2. CASE /\ results' = [results EXCEPT ![host] = "failed"]
             /\ case' = [case EXCEPT ![host] = "recorded"]
    <3>1. \A t \in Tools : Answered(t) \/ InHand(t) => Answered(t)'
      BY <1>1, <2>2 DEF Answered, InHand, TypedInv, RecordsTyped
    <3> QED
      BY <1>1, <3>1, AnswersKept
  <2> QED
    BY <1>3, <2>1, <2>2 DEF Resolved
<1> QED
  BY <1>2, <1>3

\* A tool's result answers for the tool of the loop, and the resolver keeps its
\* own in hand; a test case is never unmarked without a result.
LEMMA ReturnsAnswer ==
    ASSUME TypedInv, AnswerInv, pc \in {"open", "body"}, NEW st \in Outcomes, NEW g, Returns(st, g)
    PROVE  AnswerInv'
<1>1. UNCHANGED <<plan, next, host>>
  BY DEF Returns
<1>2. st # "none"
  BY DEF Outcomes
<1>3. CASE LoopReturns(st, g)
  <2>1. CASE pc' = "ended"
    BY <1>3, <2>1, UnfinishedEnds DEF LoopReturns
  <2>2. CASE pc' # "ended"
    <3>1. /\ pc' = "decide" /\ host = "none" /\ status' = status
          /\ results' = [results EXCEPT ![cur] = st]
          /\ case' = [case EXCEPT ![cur] = "recorded"]
      BY <1>3, <2>2 DEF LoopReturns
    <3>2. \A t \in Tools : Answered(t) \/ InHand(t) => Answered(t)'
      BY <1>2, <3>1 DEF Answered, InHand, TypedInv, RecordsTyped
    <3> QED
      BY <1>1, <3>1, <3>2, AnswersKept
  <2> QED
    BY <2>1, <2>2
<1>4. CASE ActionReturns(st)
  <2>1. PICK r \in {st, "skipped_unselected"} : results' = [results EXCEPT ![cur] = r]
    BY <1>4 DEF ActionReturns
  <2>2. /\ pc' = "resolve" /\ host # "none" /\ status' = status
        /\ case' = case \/ case' = [case EXCEPT ![cur] = "recorded"]
    BY <1>4 DEF ActionReturns
  <2>3. \A t \in Tools : Answered(t) => Answered(t)'
    BY <1>2, <2>1, <2>2 DEF Answered, TypedInv, RecordsTyped
  <2>4. \A t \in Tools : InHand(t) => InHand(t)'
    BY <1>1, <2>2 DEF InHand
  <2> QED
    BY <1>1, <2>2, <2>3, <2>4, AnswersKept
<1> QED
  BY <1>3, <1>4 DEF Returns

\* An exception that leaves a tool is a result like any other.
LEMMA RaisesAnswer == ASSUME TypedInv, AnswerInv, Raises PROVE AnswerInv'
<1>1. pc \in {"open", "body"} /\ UNCHANGED <<status, plan, next, host>> /\ pc' \in {"decide", "resolve"}
  BY DEF Raises, runVars
<1>2. \A t \in Tools : Answered(t) \/ InHand(t) => Answered(t)' \/ InHand(t)'
  <2>1. CASE host = "none"
    <3>1. /\ results' = [results EXCEPT ![cur] = "failed"]
          /\ case' = [case EXCEPT ![cur] = "recorded"]
      BY <2>1 DEF Raises
    <3> QED
      BY <2>1, <3>1 DEF Answered, InHand, TypedInv, RecordsTyped
  <2>2. CASE host # "none"
    BY <1>1, <2>2 DEF Raises, Answered, InHand
  <2> QED
    BY <2>1, <2>2
<1> QED
  BY <1>1, <1>2, AnswersKept

\* A step inside a tool's body that records nothing answers for nothing.
LEMMA BodyAnswers ==
    ASSUME TypedInv, AnswerInv, pc \in {"open", "body"}, pc' = "body",
           UNCHANGED <<runVars, cur, host, todo, results, recordVars>>
    PROVE  AnswerInv'
<1>1. UNCHANGED <<status, plan, next, cur, host, results, case>>
  BY DEF runVars, recordVars
<1>2. \A t \in Tools : Answered(t) \/ InHand(t) => Answered(t)' \/ InHand(t)'
  BY <1>1 DEF Answered, InHand
<1> QED
  BY <1>1, <1>2, AnswersKept

\* A step of a tool's body is a result, an exception, or records nothing.
LEMMA BodyIs ==
    ASSUME Body
    PROVE  /\ pc \in {"open", "body"}
           /\ \/ \E st \in Outcomes, g \in {gate, gate'} : Returns(st, g)
              \/ Raises
              \/ pc' = "body" /\ UNCHANGED <<runVars, cur, host, todo, results, recordVars>>
<1> USE DEF Runs, Outcomes
<1>1. CASE Probe \/ Provision \/ Payloads
  BY <1>1 DEF Probe, Provision, Payloads
<1>2. CASE Crawl
  BY <1>2 DEF Crawl
<1>3. CASE LoginOpens
  BY <1>3 DEF LoginOpens
<1>4. CASE ValidateOpens
  BY <1>4 DEF ValidateOpens
<1>5. CASE LoginEnds \/ ValidateEnds
  BY <1>5 DEF LoginEnds, ValidateEnds
<1>6. ASSUME NEW u \in Users, LoginUser(u) \/ ValidateUser(u)
      PROVE  /\ pc \in {"open", "body"} /\ pc' = "body"
             /\ UNCHANGED <<runVars, cur, host, todo, results, recordVars>>
  BY <1>6 DEF LoginUser, ValidateUser
<1>7. CASE Matrix
  BY <1>7 DEF Matrix
<1>8. CASE Planner
  BY <1>8 DEF Planner
<1>9. CASE Raises
  BY <1>9 DEF Raises
<1> QED
  BY <1>1, <1>2, <1>3, <1>4, <1>5, <1>6, <1>7, <1>8, <1>9 DEF Body

\* A run that reaches the end of its plan has nothing in hand.
LEMMA FinishAnswers == ASSUME TypedInv, AnswerInv, Finishes PROVE AnswerInv'
<1>1. /\ pc = "decide" /\ next > Len(plan) /\ pc' = "ended" /\ UNCHANGED <<plan, results>>
      /\ case' = [t \in Tools |-> IF case[t] = "planned" THEN "recorded" ELSE case[t]]
  BY DEF Finishes
<1>2. \A t \in Tools : Answered(t) => Answered(t)'
  BY <1>1 DEF Answered
<1>3. \A t \in Selected : Answered(t) /\ t \in Tools
  <2>1. plan \in Seq(Tools) /\ next \in 1..(Len(plan) + 1)
    BY DEF TypedInv, RunTyped
  <2>2. \A i \in DOMAIN plan : i \in 1..(next - 1) /\ plan[i] \in Tools
    BY <1>1, <2>1
  <2>3. \A i \in 1..(next - 1) : Answered(plan[i])
    BY <1>1 DEF AnswerInv, InHand
  <2> QED
    BY <2>2, <2>3 DEF Selected
<1>4. Selected' = Selected
  BY <1>1 DEF Selected
<1>5. \A t \in Selected' : Answered(t)'
  BY <1>2, <1>3, <1>4
<1> QED
  BY <1>1, <1>5 DEF AnswerInv, EveryToolIsAnsweredFor, Answered

\* Every step keeps the invariant.
LEMMA StepAnswers == TypedInv /\ FlagInv /\ AnswerInv /\ [Next]_vars => AnswerInv'
<1> SUFFICES ASSUME TypedInv, FlagInv, AnswerInv, [Next]_vars PROVE AnswerInv'
  OBVIOUS
<1>1. ASSUME NEW s, Begin(s) PROVE AnswerInv'
  <2>1. status' = "running" /\ next' = 1 /\ pc' = "decide"
    BY <1>1 DEF Begin
  <2>2. 1..(next' - 1) = {}
    BY <2>1
  <2> QED
    BY <2>1, <2>2 DEF AnswerInv, EveryToolIsAnsweredFor
<1>2. ASSUME NEW t \in Tools, BlockedByGate(t) \/ Starts(t) \/ Waits(t) PROVE AnswerInv'
  BY <1>2, TurnAnswers
<1>3. CASE Resolves \/ Resolved
  BY <1>3, ResolverAnswers
<1>4. CASE Body
  BY <1>4, BodyIs, ReturnsAnswer, RaisesAnswer, BodyAnswers
<1>5. CASE Finishes
  BY <1>5, FinishAnswers
<1>6. CASE Interrupted
  <2>1. pc' = "ended" /\ status' \in {"stopped", "paused"}
    BY <1>6, Zenon DEF Interrupted
  <2> QED
    BY <2>1, UnfinishedEnds
<1>7. ASSUME NEW t \in Tools, MarkingFails(t) PROVE AnswerInv'
  BY <1>7, UnfinishedEnds DEF MarkingFails, Aborts
<1>8. CASE Crashes
  BY <1>8, UnfinishedEnds DEF Crashes, Aborts, AnswerInv
<1>9. CASE UNCHANGED vars
  <2>1. UNCHANGED <<status, plan, next, pc, cur, host, results, case>>
    BY <1>9 DEF vars, runVars, bodyVars, recordVars
  <2> QED
    BY <2>1 DEF AnswerInv, EveryToolIsAnsweredFor, Answered, InHand, Selected
<1> QED
  BY <1>1, <1>2, <1>3, <1>4, <1>5, <1>6, <1>7, <1>8, <1>9 DEF Next, Works, Turn

\* A scan that is completed, with or without coverage gaps, answers for every
\* tool of its plan, however many resolver actions, exceptions, gates and
\* earlier runs came before: no tool is skipped in silence.
THEOREM CompletedScansAnswer == Spec => []EveryToolIsAnsweredFor
<1>1. Init => AnswerInv
  BY DEF Init, AnswerInv, EveryToolIsAnsweredFor
<1>2. AnswerInv => EveryToolIsAnsweredFor
  BY DEF AnswerInv
<1> QED
  BY <1>1, <1>2, InitFlag, StepFlag, StepAnswers, AlwaysTyped, PTL DEF Spec

===============================================================================
