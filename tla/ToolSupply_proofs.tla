--------------------------- MODULE ToolSupply_proofs ---------------------------
(***************************************************************************)
(* What the preparation of tools promises, for any processes, dependencies *)
(* and plans of tools.                                                     *)
(***************************************************************************)
EXTENDS SupplyProperties, DataLemmas

-------------------------------------------------------------------------------
(***************************************************************************)
(* Types and control                                                       *)
(***************************************************************************)
\* What a process may be doing, a row of the registry, and an attempt.
Kinds == Commands \cup {"none", "scan", "install_tool"}
Rows  == [status : {"absent", "installed", "missing", "install_failed"}, count : Nat]
Tries == [dep : Deps, attempted : BOOLEAN, status : Outcomes]

\* The types of the variables, more closely than SupplyTypeOK needs them.
Shapes ==
    /\ present \subseteq Deps /\ registry \in [Deps -> Rows]
    /\ job \in [Processes -> Kinds] /\ at \in [Processes -> Points]
    /\ dynamic \in [Processes -> {"off", "unauthorized", "enabled"}]
    /\ chosen \in [Processes -> Seq(Tools)] /\ plan \in [Processes -> Seq(Tools)]
    /\ todo \in [Processes -> Seq(Tools \cup Deps)]
    /\ ready \in [Processes -> SUBSET Deps] /\ tried \in [Processes -> SUBSET Deps]
    /\ attempts \in [Processes -> Seq(Tries)]
    /\ copy \in [Processes -> [Deps -> Rows]]
    /\ rows \in [Processes -> SUBSET (Tools \X (Outcomes \cup {"missing_prerequisite"}))]
    /\ skipped \in [Processes -> SUBSET Tools]
    /\ DOMAIN ran = Processes /\ DOMAIN refused = Processes

\* Where a process of each job can be, and what it has there.
Course(p) ==
    /\ at[p] \in {"prepare", "report", "loop", "planned"} => job[p] = "scan"
    /\ at[p] = "command" => job[p] \in Commands
    /\ at[p] \in {"install", "register"} => job[p] \in Commands \cup {"scan"}
    /\ at[p] = "plan" => job[p] \in {"scan", "install_tool"}
    /\ at[p] \in {"install", "plan", "planned"} => todo[p] # <<>>
    /\ at[p] \in {"register", "report"} => todo[p] = <<>>
    /\ todo[p] \in (IF job[p] = "scan" THEN Seq(Tools) ELSE Seq(Deps))
    /\ at[p] = "install" => Wanted(p) \in tried[p]
    /\ at[p] = "plan" => PlanFor(p) \in Deps
    /\ at[p] = "off" => /\ attempts[p] = <<>> /\ plan[p] = <<>> /\ tried[p] = {}
                        /\ ran[p] = {} /\ job[p] = "none"
    /\ ToSet(plan[p]) \subseteq ToSet(chosen[p])
    /\ job[p] = "scan" /\ at[p] \in {"prepare", "install"} => ToSet(todo[p]) \subseteq ToSet(chosen[p])
    /\ job[p] = "scan" => \A a \in ToSet(attempts[p]) : \E t \in Tools : a.dep = Dependency[t]

\* Both are needed for either to be kept.
Inv == Shapes /\ \A p \in Processes : Course(p)

\* A step of a process.
Step(p) == StartScan(p) \/ StartCommand(p) \/ StartInstallTool(p) \/ Works(p)

\* What a process has of its own.
Own(e) == <<job[e], dynamic[e], chosen[e], at[e], todo[e], ready[e], tried[e], attempts[e],
            refused[e], copy[e], plan[e], rows[e], skipped[e], ran[e]>>

\* A step leaves alone what the other processes have of their own, and takes
\* nothing off the machine.
LEMMA OthersStay ==
  ASSUME Shapes, NEW p \in Processes, Step(p)
  PROVE  /\ \A e \in Processes : e # p => Own(e)' = Own(e)
         /\ present \subseteq present'
<1>1. /\ DOMAIN job = Processes /\ DOMAIN dynamic = Processes /\ DOMAIN chosen = Processes
      /\ DOMAIN at = Processes /\ DOMAIN todo = Processes /\ DOMAIN ready = Processes
      /\ DOMAIN tried = Processes /\ DOMAIN attempts = Processes /\ DOMAIN refused = Processes
      /\ DOMAIN copy = Processes /\ DOMAIN plan = Processes /\ DOMAIN rows = Processes
      /\ DOMAIN skipped = Processes /\ DOMAIN ran = Processes
  BY DEF Shapes
<1> SUFFICES ASSUME NEW e \in Processes, e # p
             PROVE  Own(e)' = Own(e) /\ present \subseteq present'
  <2>1. present \subseteq present'
    BY DEF Step, Works, StartScan, StartCommand, StartInstallTool, ToolIsReady, PrepareWithoutInstaller,
       InstallBegins, InstallEnds, KatanaWithoutGo, CommandGoesOn, ReadRegistry, WriteRegistry,
       RegistryClash, RecordAttempts, RunTool, PlanBegins, PlanCompletes, PlanFails, AfterPlan,
       LoopEnds, machineVars
  <2> QED
    BY <2>1
<1> USE <1>1 DEF Own, machineVars, setupVars, prepVars, scanVars
<1>2. CASE StartScan(p)
  BY <1>2 DEF StartScan
<1>3. CASE StartCommand(p)
  BY <1>3 DEF StartCommand
<1>4. CASE StartInstallTool(p)
  BY <1>4 DEF StartInstallTool
<1>5. CASE ToolIsReady(p)
  BY <1>5 DEF ToolIsReady, Finish
<1>6. CASE PrepareWithoutInstaller(p)
  BY <1>6 DEF PrepareWithoutInstaller, AfterAttempt, Finish, Note
<1>7. CASE InstallBegins(p)
  BY <1>7 DEF InstallBegins
<1>8. CASE InstallEnds(p)
  BY <1>8 DEF InstallEnds, AfterAttempt, Finish, Note
<1>9. CASE KatanaWithoutGo(p)
  BY <1>9 DEF KatanaWithoutGo, AfterAttempt, Finish, Note
<1>10. CASE CommandGoesOn(p)
  BY <1>10 DEF CommandGoesOn, Finish, Note
<1>11. CASE ReadRegistry(p)
  BY <1>11 DEF ReadRegistry
<1>12. CASE WriteRegistry(p)
  BY <1>12 DEF WriteRegistry, Forget
<1>13. CASE RegistryClash(p)
  BY <1>13 DEF RegistryClash, Forget
<1>14. CASE RecordAttempts(p)
  BY <1>14 DEF RecordAttempts, Forget
<1>15. CASE RunTool(p) \/ PlanBegins(p) \/ LoopEnds(p)
  BY <1>15 DEF RunTool, Finish, PlanBegins, LoopEnds
<1>16. CASE PlanCompletes(p) \/ PlanFails(p)
  BY <1>16 DEF PlanCompletes, PlanFails, Block, Finish
<1>17. CASE AfterPlan(p)
  BY <1>17 DEF AfterPlan, Block, Finish
<1> QED
  BY <1>2, <1>3, <1>4, <1>5, <1>6, <1>7, <1>8, <1>9, <1>10, <1>11, <1>12, <1>13, <1>14, <1>15, <1>16,
     <1>17 DEF Step, Works

-------------------------------------------------------------------------------
(***************************************************************************)
(* The tables                                                              *)
(***************************************************************************)
\* ToolOrder lists the tools.
LEMMA ToolsAreListed ==
  /\ ToolOrder \in Seq(Tools)
  /\ \A t \in Tools : \E k \in 1..Len(ToolOrder) : ToolOrder[k] = t
<1>1. Len(ToolOrder) = 12
  BY DEF ToolOrder
<1>2. ToolOrder \in Seq(Tools)
  BY DEF ToolOrder, Tools, Dependency
<1>3. ASSUME NEW t \in Tools PROVE \E k \in 1..Len(ToolOrder) : ToolOrder[k] = t
  BY <1>1, <1>3 DEF ToolOrder, Tools, Dependency
<1> QED
  BY <1>2, <1>3

\* The tool that an attempt is recorded with is one of the table, if the
\* attempt is for a dependency of the table.
LEMMA ToolForIsTool ==
  ASSUME NEW t \in Tools
  PROVE  ToolFor(Dependency[t]) \in Tools
<1> DEFINE N == {u \in Tools : Dependency[u] = Dependency[t]}
           needs == InOrder(ToolOrder, N)
<1>1. ToolOrder \in Seq(Tools)
  BY ToolsAreListed
<1>2. PICK k \in 1..Len(ToolOrder) : ToolOrder[k] = t
  BY ToolsAreListed
<1>3. needs \in Seq(Tools) /\ \E i \in 1..Len(needs) : needs[i] = t
  <2>1. t \in N
    OBVIOUS
  <2> HIDE DEF N
  <2>2. needs \in Seq(Tools)
    BY <1>1, InOrderElements
  <2>3. ToolOrder[k] \in N => \E i \in 1..Len(needs) : needs[i] = ToolOrder[k]
    BY <1>1, InOrderElements
  <2> QED
    BY <1>2, <2>1, <2>2, <2>3
<1> HIDE DEF needs
<1>4. needs # <<>> /\ Head(needs) \in Tools
  BY <1>3
<1> QED
  BY <1>4 DEF ToolFor, needs

\* A command comes to the supported dependencies that it found to be missing.
LEMMA CommandList ==
  ASSUME NEW S \in SUBSET Deps
  PROVE  /\ InOrder(StatusOrder, S) \in Seq(Deps)
         /\ ToSet(InOrder(StatusOrder, S)) = S
<1> DEFINE T == {"httpx", "playwright", "nmap", "gobuster", "ffuf", "katana", "whatweb", "jq",
                  "curl", "go", "seclists", "dirb"}
           r == InOrder(StatusOrder, S)
<1>1. Len(StatusOrder) = 12 /\ DOMAIN StatusOrder = 1..12
  BY DEF StatusOrder
<1>3. StatusOrder \in Seq(T)
  BY DEF StatusOrder
<1>4. /\ r \in Seq(T)
      /\ \A i \in 1..Len(r) : r[i] \in S
      /\ \A k \in 1..Len(StatusOrder) : StatusOrder[k] \in S => \E i \in 1..Len(r) : r[i] = StatusOrder[k]
  BY <1>3, InOrderElements
<1>5. \A d \in S : \E k \in 1..Len(StatusOrder) : StatusOrder[k] = d
  BY <1>1, DepsAssumption DEF ToSet
<1> HIDE DEF T, r
<1>6. DOMAIN r = 1..Len(r)
  BY <1>4
<1>7. r \in Seq(Deps)
  BY <1>4
<1>8. ToSet(r) = S
  BY <1>4, <1>5, <1>6 DEF ToSet
<1> QED
  BY <1>7, <1>8 DEF r

\* The attempts for a dependency are among the attempts.
LEMMA OfAreAttempts ==
  ASSUME NEW log \in Seq(Tries), NEW d, Of(d, log) # <<>>
  PROVE  /\ LastOf(d, log) \in Tries
         /\ LastOf(d, log).dep = d
         /\ \E i \in 1..Len(log) : log[i] = LastOf(d, log)
<1> DEFINE S == {a \in ToSet(log) : a.dep = d}
<1>1. Of(d, log) = InOrder(log, S) /\ \A a \in S : a.dep = d
  BY DEF Of
<1> HIDE DEF S
<1>2. InOrder(log, S) \in Seq(Tries)
  BY InOrderElements
<1>3. \A i \in 1..Len(InOrder(log, S)) : InOrder(log, S)[i] \in S
  BY InOrderElements
<1>4. \A i \in 1..Len(InOrder(log, S)) : \E k \in 1..Len(log) : log[k] = InOrder(log, S)[i]
  BY InOrderElements
<1> DEFINE n == Len(InOrder(log, S))
<1>5. n \in 1..n
  BY <1>1, <1>2
<1>6. LastOf(d, log) = InOrder(log, S)[n]
  BY <1>1 DEF LastOf
<1>7. InOrder(log, S)[n] \in Tries /\ InOrder(log, S)[n] \in S
  BY <1>2, <1>3, <1>5
<1> QED
  BY <1>1, <1>4, <1>5, <1>6, <1>7

-------------------------------------------------------------------------------
(***************************************************************************)
(* What the steps that note an attempt do                                  *)
(***************************************************************************)
\* The head of what a process has not come to yet.
LEMMA HeadOfTodo ==
  ASSUME Inv, NEW p \in Processes, todo[p] # <<>>
  PROVE  /\ job[p] = "scan" => /\ Head(todo[p]) \in Tools /\ Tail(todo[p]) \in Seq(Tools)
                               /\ todo[p] \in Seq(Tools)
         /\ job[p] # "scan" => /\ Head(todo[p]) \in Deps /\ Tail(todo[p]) \in Seq(Deps)
                               /\ todo[p] \in Seq(Deps)
         /\ Tail(todo[p]) \in Seq(Tools \cup Deps)
         /\ ToSet(todo[p]) = {Head(todo[p])} \cup ToSet(Tail(todo[p]))
<1>1. /\ todo[p] \in Seq(Tools \cup Deps)
      /\ job[p] = "scan" => todo[p] \in Seq(Tools)
      /\ job[p] # "scan" => todo[p] \in Seq(Deps)
  BY DEF Inv, Shapes, Course
<1> QED
  BY <1>1, ElementsMove

\* An answer without an installer: a tool that leaves the plan is not said to be
\* complete.
LEMMA PrepareNotes ==
  ASSUME Inv, NEW p \in Processes, PrepareWithoutInstaller(p)
  PROVE  \E a \in Tries :
           /\ ~a.attempted /\ a.dep = Dependency[Head(todo[p])]
           /\ attempts' = [attempts EXCEPT ![p] = Append(@, a)]
           /\ \/ plan' = plan /\ a.status # "completed"
              \/ plan' = [plan EXCEPT ![p] = Append(@, Head(todo[p]))]
<1> DEFINE t == Head(todo[p])
           d == Dependency[t]
           s == IF dynamic[p] # "off" THEN "dynamic_install_pending" ELSE "missing_tool"
           a == IF d \in APT \cup {"katana"} THEN Answer(p, d) ELSE Attempt(d, FALSE, s)
<1>1. /\ ~Ready(t, ready[p]) /\ Note(p, a) /\ present' = present /\ AfterAttempt(p, t, a.status)
  BY DEF PrepareWithoutInstaller
<1>2. d \in Deps
  BY <1>1 DEF Ready
<1>3. a \in Tries /\ ~a.attempted /\ a.dep = d
  <2>1. \A u \in Outcomes : /\ Attempt(d, FALSE, u) \in Tries /\ ~Attempt(d, FALSE, u).attempted
                           /\ Attempt(d, FALSE, u).dep = d
    BY <1>2 DEF Attempt, Tries
  <2>2. \E u \in Outcomes : a = Attempt(d, FALSE, u)
    BY DEF Answer, Outcomes
  <2> QED
    BY <2>1, <2>2
<1>4. a.status = "completed" => Ready(t, present)
  BY DEF Answer, Attempt, Ready
<1> HIDE DEF a
<1> QED
  BY <1>1, <1>3, <1>4 DEF AfterAttempt, Note

\* The end of an installer: the program is there, or the process knows that an
\* installer has failed it, or it was katana's.
LEMMA InstallNotes ==
  ASSUME Inv, NEW p \in Processes, InstallEnds(p) \/ KatanaWithoutGo(p)
  PROVE  \E a \in Tries :
           /\ a.attempted /\ a.dep = Wanted(p)
           /\ attempts' = [attempts EXCEPT ![p] = Append(@, a)]
           /\ todo' = [todo EXCEPT ![p] = Tail(@)]
           /\ at[p] = "install"
           /\ at' = [at EXCEPT ![p] = IF job[p] = "scan" THEN "prepare" ELSE "command"]
           /\ present \subseteq present' /\ present' \subseteq Deps
           /\ \/ ready' = ready
              \/ ready' = [ready EXCEPT ![p] = present']
           /\ \/ plan' = plan /\ (job[p] = "scan" => a.status # "completed")
              \/ job[p] = "scan" /\ plan' = [plan EXCEPT ![p] = Append(@, Head(todo[p]))]
           /\ Wanted(p) \in present' \/ Wanted(p) = "katana" \/ refused'[p]
           /\ refused[p] => refused'[p]
           /\ DOMAIN refused' = Processes
           /\ UNCHANGED <<registry, setupVars, tried, copy, rows, skipped, ran>>
<1>1. /\ DOMAIN refused = Processes /\ present \subseteq Deps /\ tried[p] \in SUBSET Deps
      /\ at[p] = "install" /\ Wanted(p) \in Deps
  BY DEF Inv, Shapes, Course, InstallEnds, KatanaWithoutGo
<1>2. ASSUME NEW u \in Outcomes
      PROVE  LET a == Attempt(Wanted(p), TRUE, u) IN a \in Tries /\ a.attempted /\ a.dep = Wanted(p) /\ a.status = u
  BY <1>1 DEF Attempt, Tries
<1>3. job[p] = "scan" => Wanted(p) = Dependency[Head(todo[p])]
  BY DEF Wanted
<1>4. CASE InstallEnds(p)
  <2>1. PICK zero \in BOOLEAN, found \in SUBSET {Wanted(p)} :
          LET d == Wanted(p)
              done == zero /\ d \in present \cup found
              a == Attempt(d, TRUE, IF done THEN "completed" ELSE "tool_install_failed")
          IN /\ present' = present \cup found
             /\ Note(p, a)
             /\ refused' = [refused EXCEPT ![p] = @ \/ ~done]
             /\ IF job[p] = "scan" THEN AfterAttempt(p, Head(todo[p]), a.status)
                ELSE Finish(p) /\ UNCHANGED <<ready, plan>>
    BY <1>4 DEF InstallEnds
  <2> DEFINE done == zero /\ Wanted(p) \in present \cup found
             u == IF done THEN "completed" ELSE "tool_install_failed"
             a == Attempt(Wanted(p), TRUE, u)
  <2>2. a \in Tries /\ a.attempted /\ a.dep = Wanted(p) /\ a.status = u
    BY <1>2 DEF Outcomes
  <2>3. /\ u = "completed" => Wanted(p) \in present'
        /\ u # "completed" => refused'[p]
        /\ refused[p] => refused'[p]
        /\ DOMAIN refused' = Processes
    BY <1>1, <2>1
  <2>4. /\ present' = present \cup found /\ Note(p, a)
        /\ IF job[p] = "scan" THEN AfterAttempt(p, Head(todo[p]), u)
           ELSE Finish(p) /\ UNCHANGED <<ready, plan>>
    BY <2>1, <2>2
  <2>5. /\ at' = [at EXCEPT ![p] = IF job[p] = "scan" THEN "prepare" ELSE "command"]
        /\ UNCHANGED <<registry, setupVars, tried, copy, rows, skipped, ran>>
    BY <1>4 DEF InstallEnds
  <2>6. \/ plan' = plan /\ (job[p] = "scan" => u # "completed")
        \/ job[p] = "scan" /\ plan' = [plan EXCEPT ![p] = Append(@, Head(todo[p]))]
    BY <1>3, <2>3, <2>4 DEF AfterAttempt, Ready
  <2>7. todo' = [todo EXCEPT ![p] = Tail(@)] /\ (ready' = ready \/ ready' = [ready EXCEPT ![p] = present'])
    BY <2>4 DEF AfterAttempt, Finish
  <2>8. present \subseteq present' /\ present' \subseteq Deps
    BY <1>1, <2>4
  <2> HIDE DEF a, u, done
  <2>9. attempts' = [attempts EXCEPT ![p] = Append(@, a)]
    BY <2>4 DEF Note
  <2>10. Wanted(p) \in present' \/ Wanted(p) = "katana" \/ refused'[p]
    BY <2>3
  <2> QED
    BY <1>1, <2>2, <2>3, <2>5, <2>6, <2>7, <2>8, <2>9, <2>10
<1>5. CASE KatanaWithoutGo(p)
  <2> DEFINE a == Attempt(Wanted(p), TRUE, "tool_install_failed")
  <2>1. a \in Tries /\ a.attempted /\ a.dep = Wanted(p) /\ a.status = "tool_install_failed"
    BY <1>2 DEF Outcomes
  <2>2. /\ Wanted(p) = "katana" /\ present' = present /\ Note(p, a) /\ refused' = refused
        /\ IF job[p] = "scan" THEN AfterAttempt(p, Head(todo[p]), "tool_install_failed")
           ELSE Finish(p) /\ UNCHANGED <<ready, plan>>
        /\ at' = [at EXCEPT ![p] = IF job[p] = "scan" THEN "prepare" ELSE "command"]
        /\ UNCHANGED <<registry, setupVars, tried, copy, rows, skipped, ran>>
    BY <1>5 DEF KatanaWithoutGo
  <2> HIDE DEF a
  <2> QED
    BY <1>1, <2>1, <2>2 DEF AfterAttempt, Finish, Note
<1> QED
  BY <1>4, <1>5

-------------------------------------------------------------------------------
(***************************************************************************)
(* The types and the control are kept                                      *)
(***************************************************************************)
\* No process has begun.
LEMMA InvInit == Init => Inv
<1> SUFFICES ASSUME Init PROVE Inv
  OBVIOUS
<1>1. NoRow \in Rows
  BY DEF NoRow, Rows
<1>2. Shapes
  BY <1>1 DEF Init, Shapes, Kinds, Points
<1>3. ASSUME NEW p \in Processes PROVE Course(p)
  BY ElementsMove DEF Init, Course, Commands, ToSet
<1> QED
  BY <1>2, <1>3 DEF Inv

\* The rows that a process writes have their type.
LEMMA RowsAreRows ==
  ASSUME Inv, NEW p \in Processes, NEW d \in Deps
  PROVE  /\ Passed(p) \in Seq(Tries)
         /\ RowOf(p, d) \in Rows
         /\ RowOf(p, d).count \in {copy[p][d].count, copy[p][d].count + 1}
         /\ RowOf(p, d).count # copy[p][d].count =>
               \E i \in DOMAIN attempts[p] : attempts[p][i].attempted /\ attempts[p][i].dep = d
<1>1. /\ attempts[p] \in Seq(Tries) /\ copy[p][d] \in Rows
  BY DEF Inv, Shapes
<1>2. Passed(p) \in Seq(Tries) /\ Passed(p) \in {<<>>, attempts[p]}
  BY <1>1 DEF Passed
<1>3. copy[p][d].count \in Nat /\ copy[p][d].status \in {"absent", "installed", "missing", "install_failed"}
  BY <1>1 DEF Rows
<1>4. CASE Of(d, Passed(p)) = <<>>
  <2>1. RowOf(p, d) = [status |-> Checked(p, d), count |-> copy[p][d].count]
    BY <1>4 DEF RowOf
  <2> QED
    BY <1>2, <1>3, <2>1 DEF Checked, Rows
<1>5. CASE Of(d, Passed(p)) # <<>>
  <2> DEFINE l == LastOf(d, Passed(p))
  <2>1. /\ l \in Tries /\ l.dep = d /\ \E i \in 1..Len(Passed(p)) : Passed(p)[i] = l
    BY <1>2, <1>5, OfAreAttempts
  <2>2. RowOf(p, d) = [status |-> IF l.status = "completed" THEN "installed" ELSE "install_failed",
                       count  |-> copy[p][d].count + (IF l.attempted THEN 1 ELSE 0)]
    BY <1>5 DEF RowOf
  <2> HIDE DEF l
  <2>3. RowOf(p, d) \in Rows /\ RowOf(p, d).count \in {copy[p][d].count, copy[p][d].count + 1}
    BY <1>3, <2>2 DEF Rows
  <2>4. RowOf(p, d).count # copy[p][d].count => l.attempted
    BY <1>3, <2>2
  <2>5. \E i \in DOMAIN attempts[p] : attempts[p][i] = l
    BY <1>1, <1>2, <2>1
  <2> QED
    BY <1>2, <2>1, <2>3, <2>4, <2>5
<1> QED
  BY <1>4, <1>5

\* What a scan records of its attempts are rows and tools.
LEMMA RecordsAreTyped ==
  ASSUME Inv, NEW p \in Processes, at[p] = "report"
  PROVE  \A a \in Undone(p) : ToolFor(a.dep) \in Tools /\ a.status \in Outcomes
<1>1. attempts[p] \in Seq(Tries) /\ job[p] = "scan" /\ Course(p)
  BY DEF Inv, Shapes, Course
<1>2. \A a \in ToSet(attempts[p]) : a \in Tries /\ \E t \in Tools : a.dep = Dependency[t]
  BY <1>1 DEF Course, ToSet
<1> QED
  BY <1>2, ToolForIsTool DEF Undone, Tries

\* Every step keeps the types, and the process that takes it its course.
LEMMA InvNext == Inv /\ [Next]_vars => Inv'
<1> SUFFICES ASSUME Inv, [Next]_vars PROVE Inv'
  OBVIOUS
<1>1. CASE UNCHANGED vars
  BY <1>1 DEF Inv, Shapes, Course, Wanted, PlanFor, vars, machineVars, setupVars, prepVars, scanVars
<1>2. ASSUME NEW p \in Processes, Step(p) PROVE Shapes' /\ Course(p)'
  <2>1. /\ present \subseteq Deps /\ registry \in [Deps -> Rows]
        /\ job \in [Processes -> Kinds] /\ at \in [Processes -> Points]
        /\ dynamic \in [Processes -> {"off", "unauthorized", "enabled"}]
        /\ chosen \in [Processes -> Seq(Tools)] /\ plan \in [Processes -> Seq(Tools)]
        /\ todo \in [Processes -> Seq(Tools \cup Deps)]
        /\ ready \in [Processes -> SUBSET Deps] /\ tried \in [Processes -> SUBSET Deps]
        /\ attempts \in [Processes -> Seq(Tries)]
        /\ copy \in [Processes -> [Deps -> Rows]]
        /\ rows \in [Processes -> SUBSET (Tools \X (Outcomes \cup {"missing_prerequisite"}))]
        /\ skipped \in [Processes -> SUBSET Tools]
        /\ DOMAIN ran = Processes /\ DOMAIN refused = Processes
    BY DEF Inv, Shapes
  <2>2. Course(p)
    BY DEF Inv
  <2>3. [d \in Deps |-> NoRow] \in [Deps -> Rows] /\ <<>> \in Seq(Tries)
    BY DEF NoRow, Rows
  <2>4. CASE StartScan(p)
    <3>1. PICK s \in Plans : chosen' = [chosen EXCEPT ![p] = s] /\ todo' = [todo EXCEPT ![p] = s]
      BY <2>4 DEF StartScan
    <3>2. s \in Seq(Tools) /\ s \in Seq(Tools \cup Deps)
      BY PlansAssumption
    <3>3. PICK dyn \in {"off", "unauthorized", "enabled"} : dynamic' = [dynamic EXCEPT ![p] = dyn]
      BY <2>4 DEF StartScan
    <3>4. /\ at[p] = "off" /\ attempts[p] = <<>> /\ plan[p] = <<>> /\ at'[p] = "prepare" /\ job'[p] = "scan"
          /\ plan' = plan /\ attempts' = attempts /\ chosen'[p] = s /\ todo'[p] = s
      BY <2>1, <2>2, <2>4, <3>1 DEF StartScan, Course, scanVars
    <3>5. Shapes'
      BY <2>1, <2>4, <3>1, <3>2, <3>3 DEF StartScan, Shapes, machineVars, scanVars, Kinds, Points
    <3>6. Course(p)'
      BY <3>2, <3>4, ElementsMove DEF Course
    <3> QED
      BY <3>5, <3>6
  <2>5. CASE StartCommand(p)
    <3>1. PICK j \in Jobs \cap Commands : job' = [job EXCEPT ![p] = j]
      BY <2>5 DEF StartCommand
    <3>2. j \in Commands /\ j \in Kinds /\ j # "scan" /\ job'[p] = j
      BY <2>1, <3>1 DEF Commands, Kinds
    <3>3. todo'[p] \in Seq(Deps) /\ todo' \in [Processes -> Seq(Tools \cup Deps)]
      <4>1. InOrder(StatusOrder, Deps \ present) \in Seq(Deps)
        BY CommandList
      <4>2. \E q \in Seq(Deps) : todo' = [todo EXCEPT ![p] = q]
        <5> DEFINE q == IF job'[p] = "status" THEN <<>> ELSE InOrder(StatusOrder, Deps \ present)
        <5>1. q \in Seq(Deps)
          BY <4>1
        <5>2. todo' = [todo EXCEPT ![p] = q]
          BY <2>5 DEF StartCommand
        <5> HIDE DEF q
        <5> QED
          BY <5>1, <5>2
      <4> QED
        BY <2>1, <4>2
    <3>4. /\ at[p] = "off" /\ attempts[p] = <<>> /\ plan[p] = <<>> /\ at'[p] = "command"
          /\ plan' = plan /\ attempts' = attempts
      BY <2>1, <2>2, <2>5 DEF StartCommand, Course, scanVars
    <3>5. Shapes'
      BY <2>1, <2>5, <3>1, <3>2, <3>3 DEF StartCommand, Shapes, machineVars, scanVars, Points
    <3>6. Course(p)'
      BY <3>2, <3>3, <3>4, ElementsMove DEF Course
    <3> QED
      BY <3>5, <3>6
  <2>6. CASE StartInstallTool(p)
    <3>1. PICK d \in Deps : todo' = [todo EXCEPT ![p] = <<d>>]
      BY <2>6 DEF StartInstallTool
    <3>2. /\ <<d>> \in Seq(Deps) /\ <<d>> \in Seq(Tools \cup Deps) /\ <<d>> # <<>>
      OBVIOUS
    <3>3. /\ at[p] = "off" /\ attempts[p] = <<>> /\ plan[p] = <<>> /\ at'[p] = "plan"
          /\ plan' = plan /\ attempts' = attempts /\ job'[p] = "install_tool" /\ todo'[p] = <<d>>
      BY <2>1, <2>2, <2>6, <3>1 DEF StartInstallTool, Course, prepVars, scanVars
    <3>4. Shapes'
      BY <2>1, <2>6, <3>1, <3>2 DEF StartInstallTool, Shapes, machineVars, scanVars, prepVars, Points, Kinds
    <3>5. Course(p)'
      BY <3>2, <3>3, ElementsMove DEF Course, PlanFor
    <3> QED
      BY <3>4, <3>5
  <2>7. CASE ToolIsReady(p)
    <3>1. /\ at[p] = "prepare" /\ at' = at /\ job' = job /\ todo[p] # <<>> /\ job[p] = "scan"
          /\ chosen' = chosen /\ attempts' = attempts
          /\ plan' = [plan EXCEPT ![p] = Append(@, Head(todo[p]))] /\ todo' = [todo EXCEPT ![p] = Tail(@)]
      BY <2>2, <2>7 DEF ToolIsReady, Finish, setupVars, prepVars, Course
    <3>2. /\ Head(todo[p]) \in Tools /\ Tail(todo[p]) \in Seq(Tools) /\ Tail(todo[p]) \in Seq(Tools \cup Deps)
          /\ ToSet(todo[p]) = {Head(todo[p])} \cup ToSet(Tail(todo[p]))
      BY <3>1, HeadOfTodo
    <3>3. /\ Append(plan[p], Head(todo[p])) \in Seq(Tools)
          /\ ToSet(Append(plan[p], Head(todo[p]))) = ToSet(plan[p]) \cup {Head(todo[p])}
      BY <2>1, <3>2, ElementsMove
    <3>4. Shapes'
      BY <2>1, <2>7, <3>1, <3>2, <3>3 DEF ToolIsReady, Shapes, machineVars, prepVars, setupVars
    <3>5. Course(p)'
      BY <2>1, <2>2, <3>1, <3>2, <3>3 DEF Course
    <3> QED
      BY <3>4, <3>5
  <2>8. CASE PrepareWithoutInstaller(p)
    <3>1. /\ at[p] = "prepare" /\ at' = at /\ job' = job /\ todo[p] # <<>> /\ job[p] = "scan"
          /\ chosen' = chosen /\ todo' = [todo EXCEPT ![p] = Tail(@)] /\ ready' = [ready EXCEPT ![p] = present]
          /\ present' = present
      BY <2>2, <2>8 DEF PrepareWithoutInstaller, AfterAttempt, Finish, setupVars, Course
    <3>2. /\ Head(todo[p]) \in Tools /\ Tail(todo[p]) \in Seq(Tools) /\ Tail(todo[p]) \in Seq(Tools \cup Deps)
          /\ ToSet(todo[p]) = {Head(todo[p])} \cup ToSet(Tail(todo[p]))
      BY <3>1, HeadOfTodo
    <3>3. /\ Append(plan[p], Head(todo[p])) \in Seq(Tools)
          /\ ToSet(Append(plan[p], Head(todo[p]))) = ToSet(plan[p]) \cup {Head(todo[p])}
      BY <2>1, <3>2, ElementsMove
    <3>4. PICK a \in Tries : /\ a.dep = Dependency[Head(todo[p])]
                             /\ attempts' = [attempts EXCEPT ![p] = Append(@, a)]
                             /\ \/ plan' = plan
                                \/ plan' = [plan EXCEPT ![p] = Append(@, Head(todo[p]))]
      BY <2>8, PrepareNotes
    <3>5. /\ Append(attempts[p], a) \in Seq(Tries)
          /\ ToSet(Append(attempts[p], a)) = ToSet(attempts[p]) \cup {a}
      BY <2>1, ElementsMove
    <3>6. Shapes'
      BY <2>1, <2>8, <3>1, <3>2, <3>3, <3>4, <3>5 DEF PrepareWithoutInstaller, Shapes, setupVars
    <3>7. Course(p)'
      BY <2>1, <2>2, <3>1, <3>2, <3>3, <3>4, <3>5 DEF Course
    <3> QED
      BY <3>6, <3>7
  <2>9. CASE InstallBegins(p)
    <3>1. /\ at[p] \in {"prepare", "command"} /\ at' = [at EXCEPT ![p] = "install"]
          /\ todo[p] # <<>> /\ MayInstall(p, Wanted(p)) /\ tried' = [tried EXCEPT ![p] = @ \cup {Wanted(p)}]
          /\ UNCHANGED <<job, todo, chosen, attempts, plan>>
      BY <2>9 DEF InstallBegins, setupVars, scanVars
    <3>2. Wanted(p) \in Deps
      BY <2>1, <3>1, HeadOfTodo DEF Wanted, MayInstall, Ready
    <3>3. Shapes'
      BY <2>1, <2>9, <3>1, <3>2 DEF InstallBegins, Shapes, machineVars, setupVars, scanVars, Points
    <3>4. Wanted(p)' = Wanted(p)
      BY <3>1 DEF Wanted
    <3>5. at'[p] = "install" /\ Wanted(p)' \in tried'[p]
      BY <2>1, <3>1, <3>4
    <3>6. /\ job[p] \in Commands \cup {"scan"} /\ todo[p] \in (IF job[p] = "scan" THEN Seq(Tools) ELSE Seq(Deps))
          /\ ToSet(plan[p]) \subseteq ToSet(chosen[p])
          /\ job[p] = "scan" => /\ ToSet(todo[p]) \subseteq ToSet(chosen[p])
                               /\ \A a \in ToSet(attempts[p]) : \E t \in Tools : a.dep = Dependency[t]
      BY <2>2, <3>1 DEF Course, Commands
    <3>7. Course(p)'
      BY <3>1, <3>5, <3>6 DEF Course
    <3> QED
      BY <3>3, <3>7
  <2>10. CASE InstallEnds(p) \/ KatanaWithoutGo(p)
    <3>1. PICK a \in Tries :
           /\ a.dep = Wanted(p)
           /\ attempts' = [attempts EXCEPT ![p] = Append(@, a)]
           /\ todo' = [todo EXCEPT ![p] = Tail(@)]
           /\ at[p] = "install"
           /\ at' = [at EXCEPT ![p] = IF job[p] = "scan" THEN "prepare" ELSE "command"]
           /\ present' \subseteq Deps
           /\ \/ ready' = ready
              \/ ready' = [ready EXCEPT ![p] = present']
           /\ \/ plan' = plan
              \/ job[p] = "scan" /\ plan' = [plan EXCEPT ![p] = Append(@, Head(todo[p]))]
           /\ DOMAIN refused' = Processes
           /\ UNCHANGED <<registry, setupVars, tried, copy, rows, skipped, ran>>
      BY <2>10, InstallNotes
    <3>2. /\ todo[p] # <<>> /\ job[p] \in Commands \cup {"scan"} /\ UNCHANGED <<job, chosen, dynamic>>
      BY <2>2, <3>1 DEF Course, setupVars
    <3>3. /\ job[p] = "scan" => Head(todo[p]) \in Tools /\ Tail(todo[p]) \in Seq(Tools)
          /\ job[p] # "scan" => Tail(todo[p]) \in Seq(Deps)
          /\ Tail(todo[p]) \in Seq(Tools \cup Deps)
          /\ ToSet(todo[p]) = {Head(todo[p])} \cup ToSet(Tail(todo[p]))
      BY <3>2, HeadOfTodo
    <3>4. job[p] = "scan" =>
             /\ Append(plan[p], Head(todo[p])) \in Seq(Tools)
             /\ ToSet(Append(plan[p], Head(todo[p]))) = ToSet(plan[p]) \cup {Head(todo[p])}
             /\ Head(todo[p]) \in Tools /\ a.dep = Dependency[Head(todo[p])]
      BY <2>1, <3>1, <3>3, ElementsMove DEF Wanted
    <3>5. /\ Append(attempts[p], a) \in Seq(Tries)
          /\ ToSet(Append(attempts[p], a)) = ToSet(attempts[p]) \cup {a}
      BY <2>1, ElementsMove
    <3>6. Shapes'
      <4>1. plan' \in [Processes -> Seq(Tools)]
        BY <2>1, <3>1, <3>4
      <4>2. attempts' \in [Processes -> Seq(Tries)] /\ todo' \in [Processes -> Seq(Tools \cup Deps)]
        BY <2>1, <3>1, <3>3, <3>5
      <4>3. at' \in [Processes -> Points] /\ ready' \in [Processes -> SUBSET Deps]
        BY <2>1, <3>1 DEF Points
      <4> QED
        BY <2>1, <3>1, <3>2, <4>1, <4>2, <4>3 DEF Shapes
    <3>7. Course(p)'
      <4>1. at'[p] = IF job[p] = "scan" THEN "prepare" ELSE "command"
        BY <2>1, <3>1
      <4>2. CASE job[p] = "scan"
        BY <2>1, <2>2, <3>1, <3>2, <3>3, <3>4, <3>5, <4>1, <4>2 DEF Course
      <4>3. CASE job[p] # "scan"
        BY <2>1, <2>2, <3>1, <3>2, <3>3, <3>5, <4>1, <4>3 DEF Course
      <4> QED
        BY <4>2, <4>3
    <3> QED
      BY <3>6, <3>7
  <2>11. CASE CommandGoesOn(p)
    <3>1. /\ at[p] = "command" /\ at' = at /\ todo[p] # <<>> /\ todo' = [todo EXCEPT ![p] = Tail(@)]
          /\ job[p] # "scan" /\ UNCHANGED <<job, chosen, plan, tried>>
      BY <2>2, <2>11 DEF CommandGoesOn, Finish, setupVars, scanVars, Course, Commands
    <3>2. Head(todo[p]) \in Deps /\ Tail(todo[p]) \in Seq(Deps) /\ Tail(todo[p]) \in Seq(Tools \cup Deps)
      BY <3>1, HeadOfTodo
    <3>3. attempts' = attempts \/ \E a \in Tries : attempts' = [attempts EXCEPT ![p] = Append(@, a)]
      <4>1. \A u \in Outcomes : Attempt(Head(todo[p]), FALSE, u) \in Tries
        BY <3>2 DEF Attempt, Tries
      <4>2. \E u \in Outcomes : Answer(p, Head(todo[p])) = Attempt(Head(todo[p]), FALSE, u)
        BY DEF Answer, Outcomes
      <4> QED
        BY <2>11, <4>1, <4>2 DEF CommandGoesOn, Note
    <3>4. attempts' \in [Processes -> Seq(Tries)]
      <4>1. \A a \in Tries : Append(attempts[p], a) \in Seq(Tries)
        BY <2>1, ElementsMove
      <4>2. CASE attempts' = attempts
        BY <2>1, <4>2
      <4>3. CASE \E a \in Tries : attempts' = [attempts EXCEPT ![p] = Append(@, a)]
        <5>1. PICK a \in Tries : attempts' = [attempts EXCEPT ![p] = Append(attempts[p], a)]
          BY <4>3
        <5> QED
          BY <2>1, <4>1, <5>1
      <4> QED
        BY <3>3, <4>2, <4>3
    <3>5. Shapes'
      BY <2>1, <2>11, <3>1, <3>2, <3>4 DEF CommandGoesOn, Shapes, machineVars, setupVars, scanVars
    <3>6. Course(p)'
      BY <2>1, <2>2, <3>1, <3>2 DEF Course
    <3> QED
      BY <3>5, <3>6
  <2>12. CASE ReadRegistry(p)
    <3>1. /\ at[p] \in {"prepare", "command"} /\ at' = [at EXCEPT ![p] = "register"] /\ todo[p] = <<>>
          /\ UNCHANGED <<job, todo, chosen, plan, attempts>>
      BY <2>12 DEF ReadRegistry, setupVars, scanVars
    <3>2. Shapes'
      BY <2>1, <2>12 DEF ReadRegistry, Shapes, machineVars, setupVars, scanVars, Points
    <3>3. Course(p)'
      BY <2>1, <2>2, <3>1 DEF Course
    <3> QED
      BY <3>2, <3>3
  <2>13. CASE WriteRegistry(p)
    <3>1. registry' \in [Deps -> Rows]
      <4>1. \A d \in Deps : RowOf(p, d) \in Rows /\ copy[p][d] \in Rows /\ registry[d] \in Rows
        BY <2>1, RowsAreRows
      <4> QED
        BY <2>13, <4>1 DEF WriteRegistry, Assigned, Rows
    <3>2. /\ at[p] = "register" /\ UNCHANGED <<job, todo, chosen, plan>>
      BY <2>13 DEF WriteRegistry, setupVars, scanVars
    <3>3. CASE job[p] = "scan"
      <4>1. at' = [at EXCEPT ![p] = "report"] /\ UNCHANGED <<ready, attempts, copy>>
        BY <2>13, <3>3 DEF WriteRegistry
      <4>2. Shapes'
        BY <2>1, <2>13, <3>1, <4>1 DEF WriteRegistry, Shapes, setupVars, scanVars, Points
      <4>3. Course(p)'
        BY <2>1, <2>2, <3>2, <3>3, <4>1 DEF Course
      <4> QED
        BY <4>2, <4>3
    <3>4. CASE job[p] # "scan"
      <4>1. at' = [at EXCEPT ![p] = "done"] /\ Forget(p)
        BY <2>13, <3>4 DEF WriteRegistry
      <4>2. Shapes'
        BY <2>1, <2>3, <2>13, <3>1, <4>1 DEF WriteRegistry, Shapes, setupVars, scanVars, Points, Forget
      <4>3. Course(p)'
        BY <2>1, <2>2, <3>2, <3>4, <4>1 DEF Course
      <4> QED
        BY <4>2, <4>3
    <3> QED
      BY <3>3, <3>4
  <2>14. CASE RegistryClash(p)
    <3>1. at[p] = "register" /\ at' = [at EXCEPT ![p] = "crashed"] /\ UNCHANGED <<job, todo, chosen, plan>>
          /\ attempts' = [attempts EXCEPT ![p] = <<>>]
      BY <2>14 DEF RegistryClash, setupVars, scanVars, Forget
    <3>2. Shapes'
      BY <2>1, <2>3, <2>14 DEF RegistryClash, Shapes, machineVars, setupVars, scanVars, Points, Forget
    <3>3. Course(p)'
      BY <2>1, <2>2, <3>1, ElementsMove DEF Course
    <3> QED
      BY <3>2, <3>3
  <2>15. CASE RecordAttempts(p)
    <3>1. /\ at[p] = "report" /\ at' = [at EXCEPT ![p] = "loop"] /\ todo' = [todo EXCEPT ![p] = plan[p]]
          /\ attempts' = [attempts EXCEPT ![p] = <<>>] /\ UNCHANGED <<job, chosen, plan>> /\ job[p] = "scan"
      BY <2>2, <2>15 DEF RecordAttempts, setupVars, Forget, Course
    <3>2. rows' \in [Processes -> SUBSET (Tools \X (Outcomes \cup {"missing_prerequisite"}))]
          /\ skipped' \in [Processes -> SUBSET Tools]
      BY <2>1, <2>15, <3>1, RecordsAreTyped DEF RecordAttempts
    <3>3. Shapes'
      BY <2>1, <2>3, <2>15, <3>1, <3>2 DEF RecordAttempts, Shapes, machineVars, setupVars, Points, Forget
    <3>4. Course(p)'
      BY <2>1, <2>2, <3>1, ElementsMove DEF Course
    <3> QED
      BY <3>3, <3>4
  <2>16. CASE RunTool(p)
    <3>1. /\ at[p] = "loop" /\ at' = at /\ todo[p] # <<>> /\ todo' = [todo EXCEPT ![p] = Tail(@)]
          /\ UNCHANGED <<job, chosen, plan, attempts>> /\ job[p] = "scan"
      BY <2>2, <2>16 DEF RunTool, Finish, setupVars, prepVars, Course
    <3>2. Tail(todo[p]) \in Seq(Tools) /\ Tail(todo[p]) \in Seq(Tools \cup Deps)
      BY <3>1, HeadOfTodo
    <3>3. Shapes'
      BY <2>1, <2>16, <3>1, <3>2 DEF RunTool, Shapes, machineVars, setupVars, prepVars
    <3>4. Course(p)'
      BY <2>1, <2>2, <3>1, <3>2 DEF Course
    <3> QED
      BY <3>3, <3>4
  <2>17. CASE PlanBegins(p) \/ LoopEnds(p)
    <3>1. /\ at[p] = "loop" /\ at' \in {[at EXCEPT ![p] = "plan"], [at EXCEPT ![p] = "done"]}
          /\ PlanBegins(p) => todo[p] # <<>> /\ PlanFor(p) \in Deps
          /\ LoopEnds(p) => at' = [at EXCEPT ![p] = "done"]
          /\ UNCHANGED <<job, todo, chosen, plan, attempts>> /\ job[p] = "scan"
      BY <2>2, <2>17 DEF PlanBegins, LoopEnds, setupVars, prepVars, scanVars, Course, NeedsPlan,
         Ready, PlanFor
    <3>2. Shapes'
      BY <2>1, <2>17 DEF PlanBegins, LoopEnds, Shapes, machineVars, setupVars, prepVars, scanVars, Points
    <3>3. Course(p)'
      BY <2>1, <2>2, <2>17, <3>1 DEF Course, PlanFor
    <3> QED
      BY <3>2, <3>3
  <2>18. CASE PlanCompletes(p)
    <3>1. /\ at[p] = "plan" /\ todo[p] # <<>> /\ job[p] \in {"scan", "install_tool"}
          /\ at' = [at EXCEPT ![p] = IF job[p] = "scan" THEN "planned" ELSE "done"]
          /\ UNCHANGED <<job, todo, chosen, plan, attempts>>
      BY <2>2, <2>18 DEF PlanCompletes, setupVars, prepVars, scanVars, Course
    <3>2. present' \subseteq Deps
      BY <2>1, <2>2, <2>18, <3>1 DEF PlanCompletes, Course
    <3>3. Shapes'
      BY <2>1, <2>18, <3>2 DEF PlanCompletes, Shapes, setupVars, prepVars, scanVars, Points
    <3>4. Course(p)'
      BY <2>1, <2>2, <3>1 DEF Course
    <3> QED
      BY <3>3, <3>4
  <2>19. CASE PlanFails(p)
    <3>1. /\ at[p] = "plan" /\ todo[p] # <<>> /\ job[p] \in {"scan", "install_tool"}
          /\ UNCHANGED <<job, chosen, plan, attempts>>
      BY <2>2, <2>19 DEF PlanFails, setupVars, prepVars, Course
    <3>2. present' \subseteq Deps
      BY <2>1, <2>2, <2>19, <3>1 DEF PlanFails, Course
    <3>3. CASE job[p] = "scan"
      <4>1. /\ at' = [at EXCEPT ![p] = "loop"] /\ todo' = [todo EXCEPT ![p] = Tail(@)]
            /\ rows' = [rows EXCEPT ![p] = @ \cup {<<Head(todo[p]), "missing_prerequisite">>}]
        BY <2>19, <3>3 DEF PlanFails, Block, Finish
      <4>2. Head(todo[p]) \in Tools /\ Tail(todo[p]) \in Seq(Tools) /\ Tail(todo[p]) \in Seq(Tools \cup Deps)
        BY <3>1, <3>3, HeadOfTodo
      <4>3. Shapes'
        BY <2>1, <2>19, <3>2, <4>1, <4>2 DEF PlanFails, Shapes, setupVars, prepVars, Points
      <4>4. Course(p)'
        BY <2>1, <2>2, <3>1, <3>3, <4>1, <4>2 DEF Course
      <4> QED
        BY <4>3, <4>4
    <3>4. CASE job[p] # "scan"
      <4>1. at' = [at EXCEPT ![p] = "done"] /\ UNCHANGED <<todo, rows>>
        BY <2>19, <3>4 DEF PlanFails
      <4>2. Shapes'
        BY <2>1, <2>19, <3>2, <4>1 DEF PlanFails, Shapes, setupVars, prepVars, Points
      <4>3. Course(p)'
        BY <2>1, <2>2, <3>1, <3>4, <4>1 DEF Course
      <4> QED
        BY <4>2, <4>3
    <3> QED
      BY <3>3, <3>4
  <2>20. CASE AfterPlan(p)
    <3>1. /\ at[p] = "planned" /\ todo[p] # <<>> /\ job[p] = "scan" /\ at' = [at EXCEPT ![p] = "loop"]
          /\ todo' = [todo EXCEPT ![p] = Tail(@)]
          /\ UNCHANGED <<job, chosen, plan, attempts>>
      BY <2>2, <2>20 DEF AfterPlan, Block, Finish, setupVars, prepVars, Course
    <3>2. Head(todo[p]) \in Tools /\ Tail(todo[p]) \in Seq(Tools) /\ Tail(todo[p]) \in Seq(Tools \cup Deps)
      BY <3>1, HeadOfTodo
    <3>3. rows' = rows \/ rows' = [rows EXCEPT ![p] = @ \cup {<<Head(todo[p]), "missing_prerequisite">>}]
      BY <2>20 DEF AfterPlan, Block
    <3>4. DOMAIN ran' = Processes
      BY <2>1, <2>20 DEF AfterPlan
    <3>5. Shapes'
      <4>1. rows' \in [Processes -> SUBSET (Tools \X (Outcomes \cup {"missing_prerequisite"}))]
        <5> DEFINE R == Tools \X (Outcomes \cup {"missing_prerequisite"})
                   r == <<Head(todo[p]), "missing_prerequisite">>
        <5>1. r \in R
          BY <3>2
        <5>2. rows \in [Processes -> SUBSET R]
          BY <2>1
        <5>3. rows' = rows \/ rows' = [rows EXCEPT ![p] = @ \cup {r}]
          BY <3>3
        <5> HIDE DEF R, r
        <5>4. rows' \in [Processes -> SUBSET R]
          BY <5>1, <5>2, <5>3
        <5> QED
          BY <5>4 DEF R
      <4>2. at' \in [Processes -> Points] /\ todo' \in [Processes -> Seq(Tools \cup Deps)]
        BY <2>1, <3>1, <3>2 DEF Points
      <4> QED
        BY <2>1, <2>20, <3>4, <4>1, <4>2 DEF AfterPlan, Shapes, machineVars, setupVars, prepVars
    <3>6. Course(p)'
      BY <2>1, <2>2, <3>1, <3>2 DEF Course
    <3> QED
      BY <3>5, <3>6
  <2> QED
    BY <1>2, <2>4, <2>5, <2>6, <2>7, <2>8, <2>9, <2>10, <2>11, <2>12, <2>13, <2>14, <2>15, <2>16, <2>17,
       <2>18, <2>19, <2>20 DEF Step, Works
<1>3. ASSUME NEW p \in Processes, Step(p), NEW e \in Processes, e # p PROVE Course(e)'
  <2>1. Own(e)' = Own(e)
    BY <1>3, OthersStay DEF Inv
  <2>2. Course(e)
    BY DEF Inv
  <2> QED
    BY <2>1, <2>2 DEF Own, Course, Wanted, PlanFor
<1> QED
  BY <1>1, <1>2, <1>3 DEF Next, Step, Inv

\* The types and the control together.
LEMMA InvAlways == Spec => []Inv
<1> QED
  BY InvInit, InvNext, PTL DEF Spec

\* They are more than the run's type invariant asks for.
LEMMA Typed == Inv => SupplyTypeOK
<1> SUFFICES ASSUME Inv PROVE SupplyTypeOK
  OBVIOUS
<1>1. /\ present \subseteq Deps /\ registry \in [Deps -> Rows] /\ at \in [Processes -> Points]
      /\ ready \in [Processes -> SUBSET Deps] /\ tried \in [Processes -> SUBSET Deps]
  BY DEF Inv, Shapes
<1>2. ASSUME NEW p \in Processes
      PROVE  /\ \A a \in ToSet(attempts[p]) : a.dep \in Deps /\ a.attempted \in BOOLEAN /\ a.status \in Outcomes
             /\ rows[p] \subseteq Tools \X (Outcomes \cup {"missing_prerequisite"})
             /\ ToSet(plan[p]) \subseteq ToSet(chosen[p]) /\ skipped[p] \subseteq Tools
             /\ at[p] = "install" => todo[p] # <<>> /\ Wanted(p) \in tried[p]
  <2>1. attempts[p] \in Seq(Tries)
    BY DEF Inv, Shapes
  <2>2. ToSet(attempts[p]) \subseteq Tries
    BY <2>1 DEF ToSet
  <2>3. \A a \in ToSet(attempts[p]) : a.dep \in Deps /\ a.attempted \in BOOLEAN /\ a.status \in Outcomes
    BY <2>2 DEF Tries
  <2>4. rows[p] \subseteq Tools \X (Outcomes \cup {"missing_prerequisite"}) /\ skipped[p] \subseteq Tools
    BY DEF Inv, Shapes
  <2>5. /\ ToSet(plan[p]) \subseteq ToSet(chosen[p])
        /\ at[p] = "install" => todo[p] # <<>> /\ Wanted(p) \in tried[p]
    BY DEF Inv, Course
  <2> QED
    BY <2>3, <2>4, <2>5
<1> QED
  BY <1>1, <1>2 DEF SupplyTypeOK, Rows

\* Every variable has its type, and only what is tried is being installed
\* (tool_manager.py: ToolInstallAttempt, ToolPreparation; models.py: ToolRegistry).
THEOREM SuppliesAreTyped == Spec => []SupplyTypeOK
<1> QED
  BY InvAlways, Typed, PTL

-------------------------------------------------------------------------------
(***************************************************************************)
(* A dependency is tried once                                              *)
(***************************************************************************)
\* A step at which no installer begins or ends and nothing is answered; the
\* attempts may be forgotten.
Quiet(p) ==
    /\ attempts'[p] = attempts[p] \/ attempts'[p] = <<>>
    /\ tried'[p] = tried[p] /\ refused'[p] = refused[p]
    /\ at[p] # "install" /\ at'[p] # "install"

\* A step that answers without an installer.
Answers(p) ==
    /\ \E a \in Tries : ~a.attempted /\ attempts'[p] = Append(attempts[p], a)
    /\ tried'[p] = tried[p] /\ refused'[p] = refused[p]
    /\ at[p] # "install" /\ at'[p] # "install"

\* A step at which an installer begins.
Begins(p) ==
    /\ attempts'[p] = attempts[p] /\ refused'[p] = refused[p]
    /\ Wanted(p) \notin tried[p] /\ tried'[p] = tried[p] \cup {Wanted(p)}
    /\ Wanted(p)' = Wanted(p)
    /\ at[p] # "install" /\ at'[p] = "install"

\* A step at which one ends.
Ends(p) ==
    /\ \E a \in Tries : a.attempted /\ a.dep = Wanted(p) /\ attempts'[p] = Append(attempts[p], a)
    /\ tried'[p] = tried[p]
    /\ at[p] = "install" /\ at'[p] # "install"
    /\ refused[p] => refused'[p]
    /\ Wanted(p) \in present' \/ Wanted(p) = "katana" \/ refused'[p]

\* Every step of a process is one of these.
LEMMA AttemptsMove ==
  ASSUME Inv, NEW p \in Processes, Step(p)
  PROVE  Quiet(p) \/ Answers(p) \/ Begins(p) \/ Ends(p)
<1>1. /\ DOMAIN at = Processes /\ DOMAIN attempts = Processes /\ DOMAIN tried = Processes
      /\ DOMAIN job = Processes /\ DOMAIN refused = Processes
  BY DEF Inv, Shapes
<1>2. CASE PrepareWithoutInstaller(p)
  <2>1. PICK a \in Tries : ~a.attempted /\ attempts' = [attempts EXCEPT ![p] = Append(@, a)]
    BY <1>2, PrepareNotes
  <2> QED
    BY <1>1, <1>2, <2>1 DEF PrepareWithoutInstaller, Answers
<1>3. CASE InstallBegins(p)
  <2>1. /\ at[p] # "install" /\ at'[p] = "install" /\ Wanted(p) \notin tried[p]
        /\ tried'[p] = tried[p] \cup {Wanted(p)} /\ UNCHANGED <<job, todo, attempts, refused>>
    BY <1>1, <1>3 DEF InstallBegins, ToInstall, setupVars
  <2> QED
    BY <2>1 DEF Begins, Wanted
<1>4. CASE InstallEnds(p) \/ KatanaWithoutGo(p)
  <2>1. PICK a \in Tries :
          /\ a.attempted /\ a.dep = Wanted(p)
          /\ attempts' = [attempts EXCEPT ![p] = Append(@, a)]
          /\ at[p] = "install"
          /\ at' = [at EXCEPT ![p] = IF job[p] = "scan" THEN "prepare" ELSE "command"]
          /\ Wanted(p) \in present' \/ Wanted(p) = "katana" \/ refused'[p]
          /\ refused[p] => refused'[p]
          /\ tried' = tried
    BY <1>4, InstallNotes
  <2> QED
    BY <1>1, <2>1 DEF Ends
<1>5. CASE CommandGoesOn(p)
  <2>1. /\ at[p] = "command" /\ at' = at /\ todo[p] # <<>> /\ tried' = tried /\ refused' = refused
    BY <1>5 DEF CommandGoesOn
  <2>2. CASE attempts' = attempts
    BY <2>1, <2>2 DEF Quiet
  <2>3. CASE attempts' # attempts
    <3>1. Note(p, Answer(p, Head(todo[p])))
      BY <1>5, <2>3 DEF CommandGoesOn
    <3>2. Head(todo[p]) \in Deps
      BY <2>1, HeadOfTodo DEF Inv, Course, Commands
    <3> DEFINE a == Answer(p, Head(todo[p]))
    <3>3. a \in Tries /\ ~a.attempted
      <4>1. \A u \in Outcomes : /\ Attempt(Head(todo[p]), FALSE, u) \in Tries
                               /\ ~Attempt(Head(todo[p]), FALSE, u).attempted
        BY <3>2 DEF Attempt, Tries
      <4>2. \E u \in Outcomes : a = Attempt(Head(todo[p]), FALSE, u)
        BY DEF Answer, Outcomes
      <4> QED
        BY <4>1, <4>2
    <3>4. attempts' = [attempts EXCEPT ![p] = Append(@, a)]
      BY <3>1 DEF Note
    <3> HIDE DEF a
    <3> QED
      BY <1>1, <2>1, <3>3, <3>4 DEF Answers
  <2> QED
    BY <2>2, <2>3
<1>6. CASE StartScan(p) \/ StartCommand(p) \/ StartInstallTool(p)
  BY <1>1, <1>6 DEF StartScan, StartCommand, StartInstallTool, Quiet, prepVars
<1>7. CASE ToolIsReady(p) \/ ReadRegistry(p) \/ RunTool(p) \/ PlanBegins(p) \/ LoopEnds(p)
  BY <1>1, <1>7 DEF ToolIsReady, ReadRegistry, RunTool, PlanBegins, LoopEnds, Quiet, prepVars
<1>8. CASE WriteRegistry(p) \/ RegistryClash(p) \/ RecordAttempts(p)
  BY <1>1, <1>8 DEF WriteRegistry, RegistryClash, RecordAttempts, Forget, Quiet
<1>9. CASE PlanCompletes(p) \/ PlanFails(p) \/ AfterPlan(p)
  BY <1>1, <1>9 DEF PlanCompletes, PlanFails, AfterPlan, Quiet, prepVars
<1> QED
  BY <1>2, <1>3, <1>4, <1>5, <1>6, <1>7, <1>8, <1>9 DEF Step, Works

\* What a process has attempted it has tried, and no two of its attempts, nor
\* an attempt and the installer that is running, are for the same dependency.
Once(p) ==
    /\ \A i \in 1..Len(attempts[p]) : attempts[p][i].attempted =>
            /\ attempts[p][i].dep \in tried[p]
            /\ at[p] = "install" => attempts[p][i].dep # Wanted(p)
    /\ \A i, j \in 1..Len(attempts[p]) :
            attempts[p][i].attempted /\ attempts[p][j].attempted /\ attempts[p][i].dep = attempts[p][j].dep
            => i = j

\* A step keeps that of the process that takes it.
LEMMA OnceStep ==
  ASSUME Inv, NEW p \in Processes, Step(p), Once(p)
  PROVE  Once(p)'
<1> DEFINE log == attempts[p]
           last == Len(log) + 1
<1>1. log \in Seq(Tries) /\ Len(log) \in Nat /\ (at[p] = "install" => Wanted(p) \in tried[p])
  BY DEF Inv, Shapes, Course
<1>2. ASSUME NEW a \in Tries
      PROVE  /\ Len(Append(log, a)) = last /\ Append(log, a)[last] = a
             /\ \A i \in 1..Len(log) : Append(log, a)[i] = log[i]
             /\ \A i \in 1..last : i = last \/ i \in 1..Len(log)
  BY <1>1
<1>3. /\ \A i \in 1..Len(log) : log[i].attempted =>
            log[i].dep \in tried[p] /\ (at[p] = "install" => log[i].dep # Wanted(p))
      /\ \A i, j \in 1..Len(log) :
            log[i].attempted /\ log[j].attempted /\ log[i].dep = log[j].dep => i = j
  BY DEF Once
<1> HIDE DEF log
<1>4. CASE Quiet(p)
  <2>1. CASE attempts'[p] = log
    BY <1>3, <1>4, <2>1 DEF Quiet, Once
  <2>2. CASE attempts'[p] = <<>>
    BY <2>2 DEF Once
  <2> QED
    BY <1>4, <2>1, <2>2 DEF Quiet, log
<1>5. CASE Answers(p)
  <2>1. PICK a \in Tries : ~a.attempted /\ attempts'[p] = Append(log, a)
    BY <1>5 DEF Answers, log
  <2> QED
    BY <1>2, <1>3, <1>5, <2>1 DEF Answers, Once
<1>6. CASE Begins(p)
  BY <1>3, <1>6 DEF Begins, Once, log
<1>7. CASE Ends(p)
  <2>1. PICK a \in Tries : a.attempted /\ a.dep = Wanted(p) /\ attempts'[p] = Append(log, a)
    BY <1>7 DEF Ends, log
  <2> QED
    BY <1>1, <1>2, <1>3, <1>7, <2>1 DEF Ends, Once
<1> QED
  BY <1>4, <1>5, <1>6, <1>7, AttemptsMove

\* What every state of a process says for itself, a step of another process does
\* not disturb.
LEMMA OnceAlways == Spec => [](\A p \in Processes : Once(p))
<1> DEFINE I == \A p \in Processes : Once(p)
<1>1. Init => I
  BY DEF Init, Once
<1>2. Inv /\ I /\ [Next]_vars => I'
  <2> SUFFICES ASSUME Inv, I, [Next]_vars PROVE I'
    OBVIOUS
  <2>1. CASE UNCHANGED vars
    BY <2>1 DEF Once, Wanted, vars, machineVars, setupVars, prepVars, scanVars
  <2>2. ASSUME NEW p \in Processes, Step(p) PROVE I'
    <3> SUFFICES ASSUME NEW e \in Processes PROVE Once(e)'
      OBVIOUS
    <3>1. CASE e = p
      BY <2>2, <3>1, OnceStep
    <3>2. CASE e # p
      <4>1. Own(e)' = Own(e)
        BY <2>2, <3>2, OthersStay DEF Inv
      <4> QED
        BY <4>1 DEF Own, Once, Wanted
    <3> QED
      BY <3>1, <3>2
  <2> QED
    BY <2>1, <2>2 DEF Next, Step
<1> HIDE DEF I
<1> QED
  BY <1>1, <1>2, InvAlways, PTL DEF Spec, I

\* Two attempts at a dependency would be two positions in the list.
LEMMA OnceIsOnce == Inv /\ (\A p \in Processes : Once(p)) => InstalledOnce
<1> SUFFICES ASSUME Inv, NEW p \in Processes, Once(p), NEW d \in Deps
             PROVE  Len(Ran(p, d)) <= 1
  BY DEF InstalledOnce
<1> DEFINE S == {a \in ToSet(attempts[p]) : a.dep = d /\ a.attempted}
           r == InOrder(attempts[p], S)
<1>1. attempts[p] \in Seq(Tries) /\ Ran(p, d) = r /\ \A a \in S : a.dep = d /\ a.attempted
  BY DEF Inv, Shapes, Ran
<1> HIDE DEF S
<1>2. r \in Seq(Tries)
  BY <1>1, InOrderKeeps
<1>3. PICK m : PickedFrom(attempts[p], S, Len(attempts[p]), r, m)
  BY <1>1, InOrderKeeps
<1> HIDE DEF r
<1> SUFFICES ASSUME Len(r) > 1 PROVE FALSE
  BY <1>1, <1>2
<1>4. 1 \in 1..Len(r) /\ 2 \in 1..Len(r)
  BY <1>2
<1>5. m[1] \in 1..Len(attempts[p]) /\ m[2] \in 1..Len(attempts[p]) /\ m[1] < m[2]
  BY <1>3, <1>4 DEF PickedFrom
<1>6. /\ attempts[p][m[1]].dep = d /\ attempts[p][m[1]].attempted
      /\ attempts[p][m[2]].dep = d /\ attempts[p][m[2]].attempted
  BY <1>1, <1>3, <1>4 DEF PickedFrom
<1> QED
  BY <1>5, <1>6 DEF Once

\* A process runs the installer of a dependency at most once, however many of
\* the selected tools need it and whatever else happens on the machine
\* (tool_manager.py: _SESSION_INSTALL_ATTEMPTS).
THEOREM DependenciesAreInstalledOnce == Spec => []InstalledOnce
<1> QED
  BY InvAlways, OnceAlways, OnceIsOnce, PTL

-------------------------------------------------------------------------------
(***************************************************************************)
(* The registry counts attempts                                            *)
(***************************************************************************)
\* The points after a process has written the registry.
Settled == {"report", "loop", "plan", "planned", "done"}
\* The processes that have tried d and have written the registry.
Written(d) == {p \in Processes : d \in tried[p] /\ at[p] \in Settled}

\* The registry counts no more attempts for d than processes have tried d and
\* written it; neither does what a process has read and is about to write over
\* the rows of others.
CountInv ==
    \A d \in Deps :
        /\ registry[d].count <= Cardinality(Written(d))
        /\ \A p \in Processes : at[p] = "register" => copy[p][d].count <= Cardinality(Written(d))

\* There are finitely many of them.
LEMMA WrittenIsFinite ==
  ASSUME NEW d
  PROVE  /\ IsFiniteSet(Written(d)) /\ Cardinality(Written(d)) \in Nat
         /\ IsFiniteSet({p \in Processes : d \in tried[p]})
         /\ Cardinality(Written(d)) <= Cardinality({p \in Processes : d \in tried[p]})
<1>1. Written(d) \subseteq Processes
  BY DEF Written
<1>2. {p \in Processes : d \in tried[p]} \in SUBSET Processes
  OBVIOUS
<1>3. Written(d) \subseteq {p \in Processes : d \in tried[p]}
  BY DEF Written
<1> QED
  BY <1>1, <1>2, <1>3, ProcessesAssumption, FS_Subset, FS_CardinalityType

\* A process that has written the registry comes to no installer any more.
LEMMA SettledStay ==
  ASSUME Inv, NEW p \in Processes, Step(p)
  PROVE  /\ tried[p] \subseteq tried'[p]
         /\ at[p] \in Settled => at'[p] \in Settled
<1>1. DOMAIN at = Processes /\ DOMAIN tried = Processes
  BY DEF Inv, Shapes
<1>2. tried[p] \subseteq tried'[p]
  BY AttemptsMove DEF Quiet, Answers, Begins, Ends
<1>3. ASSUME at[p] \in Settled PROVE at'[p] \in Settled
  <2>1. \/ RecordAttempts(p) \/ RunTool(p) \/ PlanBegins(p) \/ LoopEnds(p)
        \/ PlanCompletes(p) \/ PlanFails(p) \/ AfterPlan(p)
    BY <1>3 DEF Step, Works, Settled, StartScan, StartCommand, StartInstallTool, ToolIsReady,
       PrepareWithoutInstaller, InstallBegins, InstallEnds, KatanaWithoutGo, CommandGoesOn, ReadRegistry,
       WriteRegistry, RegistryClash
  <2> QED
    BY <1>1, <2>1 DEF RecordAttempts, RunTool, PlanBegins, LoopEnds, PlanCompletes, PlanFails, AfterPlan,
       Settled
<1> QED
  BY <1>2, <1>3

\* So their set only grows.
LEMMA WrittenGrows ==
  ASSUME Inv, NEW p \in Processes, Step(p), NEW d
  PROVE  /\ Written(d) \subseteq Written(d)'
         /\ Cardinality(Written(d)) <= Cardinality(Written(d)')
         /\ Cardinality(Written(d)') \in Nat /\ IsFiniteSet(Written(d)')
<1>1. \A e \in Processes : e # p => tried'[e] = tried[e] /\ at'[e] = at[e]
  BY OthersStay DEF Inv, Own
<1>2. Written(d) \subseteq Written(d)'
  BY <1>1, SettledStay DEF Written
<1>3. Written(d)' \in SUBSET Processes
  BY DEF Written
<1> QED
  BY <1>2, <1>3, ProcessesAssumption, FS_Subset, FS_CardinalityType

\* What a step does with the registry and with what the process read of it.
LEMMA RegistryMoves ==
  ASSUME Inv, NEW p \in Processes, Step(p)
  PROVE  \/ registry' = registry /\ at'[p] # "register"
         \/ registry' = registry /\ copy'[p] = registry
         \/ WriteRegistry(p)
<1>1. DOMAIN at = Processes /\ DOMAIN copy = Processes /\ at \in [Processes -> Points]
  BY DEF Inv, Shapes
<1>2. CASE ReadRegistry(p)
  BY <1>1, <1>2 DEF ReadRegistry, machineVars
<1>3. CASE StartScan(p) \/ StartCommand(p) \/ StartInstallTool(p)
  BY <1>1, <1>3 DEF StartScan, StartCommand, StartInstallTool, machineVars
<1>4. CASE ToolIsReady(p) \/ RunTool(p) \/ PlanBegins(p) \/ LoopEnds(p) \/ AfterPlan(p)
  BY <1>1, <1>4 DEF ToolIsReady, RunTool, PlanBegins, LoopEnds, AfterPlan, machineVars
<1>5. CASE PrepareWithoutInstaller(p) \/ InstallBegins(p) \/ InstallEnds(p) \/ KatanaWithoutGo(p)
           \/ CommandGoesOn(p)
  BY <1>1, <1>5 DEF PrepareWithoutInstaller, InstallBegins, InstallEnds, KatanaWithoutGo, CommandGoesOn,
     machineVars
<1>6. CASE RegistryClash(p) \/ RecordAttempts(p) \/ PlanCompletes(p) \/ PlanFails(p)
  BY <1>1, <1>6 DEF RegistryClash, RecordAttempts, PlanCompletes, PlanFails, machineVars
<1> QED
  BY <1>2, <1>3, <1>4, <1>5, <1>6 DEF Step, Works

\* Writing counts the attempt of the process that writes, and makes it one of
\* those that have written.
LEMMA CountInvNext == Inv /\ (\A p \in Processes : Once(p)) /\ CountInv /\ [Next]_vars => CountInv'
<1> SUFFICES ASSUME Inv, \A p \in Processes : Once(p), CountInv, [Next]_vars PROVE CountInv'
  OBVIOUS
<1>1. CASE UNCHANGED vars
  BY <1>1 DEF CountInv, Written, vars, machineVars, prepVars
<1>2. ASSUME NEW p \in Processes, Step(p), NEW d \in Deps
      PROVE  /\ registry'[d].count <= Cardinality(Written(d)')
             /\ \A e \in Processes : at'[e] = "register" => copy'[e][d].count <= Cardinality(Written(d)')
  <2> DEFINE c == Cardinality(Written(d))
             n == Cardinality(Written(d)')
  <2>1. c \in Nat /\ n \in Nat /\ c <= n
    BY <1>2, WrittenIsFinite, WrittenGrows
  <2>2. /\ registry[d].count <= c /\ registry[d].count \in Nat
        /\ \A e \in Processes : /\ copy[e][d].count \in Nat
                                /\ at[e] = "register" => copy[e][d].count <= c
    BY DEF CountInv, Inv, Shapes, Rows
  <2>3. \A e \in Processes : e # p => copy'[e] = copy[e] /\ at'[e] = at[e]
    BY <1>2, OthersStay DEF Inv, Own
  <2>4. CASE registry' = registry /\ (at'[p] # "register" \/ copy'[p] = registry)
    <3> HIDE DEF c, n
    <3>1. ASSUME NEW e \in Processes, at'[e] = "register" PROVE copy'[e][d].count <= n
      <4>1. CASE e = p
        BY <2>1, <2>2, <2>4, <3>1, <4>1
      <4>2. CASE e # p
        BY <2>1, <2>2, <2>3, <3>1, <4>2
      <4> QED
        BY <4>1, <4>2
    <3> QED
      BY <2>1, <2>2, <2>4, <3>1 DEF n
  <2>5. CASE WriteRegistry(p)
    <3>1. /\ at[p] = "register" /\ at'[p] \in Settled /\ tried' = tried
          /\ registry'[d].count = Assigned(RowOf(p, d).count, copy[p][d].count, registry[d].count)
      BY <2>5 DEF WriteRegistry, Settled, Inv, Shapes
    <3>2. ASSUME RowOf(p, d).count # copy[p][d].count PROVE c + 1 <= n
      <4>1. PICK i \in DOMAIN attempts[p] : attempts[p][i].attempted /\ attempts[p][i].dep = d
        BY <3>2, RowsAreRows
      <4>2. d \in tried[p]
        BY <4>1 DEF Once, Inv, Shapes
      <4>3. p \in Written(d)' /\ p \notin Written(d)
        BY <3>1, <4>2 DEF Written, Settled
      <4>4. /\ Written(d) \cup {p} \subseteq Written(d)'
            /\ IsFiniteSet(Written(d)') /\ IsFiniteSet(Written(d))
        BY <1>2, <4>3, WrittenGrows, WrittenIsFinite
      <4>5. Cardinality(Written(d) \cup {p}) = c + 1
        BY <4>3, <4>4, FS_AddElement
      <4>6. Cardinality(Written(d) \cup {p}) <= n
        BY <4>4, FS_Subset
      <4> QED
        BY <4>5, <4>6
    <3>3. RowOf(p, d).count \in {copy[p][d].count, copy[p][d].count + 1}
      BY RowsAreRows
    <3> HIDE DEF c, n
    <3>4. registry'[d].count <= n
      BY <2>1, <2>2, <3>1, <3>2, <3>3 DEF Assigned
    <3>5. ASSUME NEW e \in Processes, at'[e] = "register" PROVE copy'[e][d].count <= n
      BY <2>1, <2>2, <2>3, <3>1, <3>5 DEF Settled
    <3> QED
      BY <3>4, <3>5 DEF n
  <2> QED
    BY <1>2, <2>4, <2>5, RegistryMoves
<1> QED
  BY <1>1, <1>2 DEF Next, Step, CountInv

\* install_attempt_count never exceeds the attempts made by all processes: one
\* that writes over the others may lose counts, none invents them
\* (tool_manager.py: upsert_tool_registry).
THEOREM CountsAreOfAttempts == Spec => []CountsAreAttempts
<1>1. Init => CountInv
  <2> SUFFICES ASSUME Init, NEW d \in Deps
               PROVE  /\ registry[d].count <= Cardinality(Written(d))
                      /\ \A p \in Processes : at[p] = "register" => copy[p][d].count <= Cardinality(Written(d))
    BY DEF CountInv
  <2>1. Cardinality(Written(d)) \in Nat
    BY WrittenIsFinite
  <2>2. registry[d].count = 0 /\ \A p \in Processes : at[p] # "register"
    BY DEF Init, NoRow
  <2> QED
    BY <2>1, <2>2
<1>2. Inv /\ CountInv => CountsAreAttempts
  <2> SUFFICES ASSUME Inv, CountInv, NEW d \in Deps
               PROVE  registry[d].count <= Cardinality({p \in Processes : d \in tried[p]})
    BY DEF CountsAreAttempts
  <2>1. registry[d].count \in Nat /\ registry[d].count <= Cardinality(Written(d))
    BY DEF Inv, Shapes, Rows, CountInv
  <2>2. Cardinality({p \in Processes : d \in tried[p]}) \in Nat
    BY WrittenIsFinite, FS_CardinalityType
  <2> QED
    BY <2>1, <2>2, WrittenIsFinite
<1> QED
  BY <1>1, <1>2, InvAlways, OnceAlways, CountInvNext, PTL DEF Spec

-------------------------------------------------------------------------------
(***************************************************************************)
(* No tool starts without its dependency                                   *)
(***************************************************************************)
\* What a process has run was there, or its scan does not install.
Has(p) == \A r \in ran[p] : r[2] \/ dynamic[p] # "enabled"

\* A scan runs a tool that is ready, or one that it would not install anyway;
\* before it begins it has run none.
LEMMA HasStep ==
  ASSUME Inv, NEW p \in Processes, Step(p), Has(p)
  PROVE  Has(p)'
<1>1. /\ DOMAIN ran = Processes /\ DOMAIN dynamic = Processes
      /\ at[p] = "off" => ran[p] = {}
  BY DEF Inv, Shapes, Course
<1>2. CASE RunTool(p)
  <2> DEFINE t == Head(todo[p])
  <2>1. /\ ran'[p] = ran[p] \cup {<<t, Ready(t, present)>>} /\ dynamic'[p] = dynamic[p]
        /\ Ready(t, present) \/ dynamic[p] # "enabled"
    BY <1>1, <1>2 DEF RunTool, NeedsPlan, setupVars
  <2> QED
    BY <2>1 DEF Has
<1>3. CASE AfterPlan(p)
  <2>1. /\ ran'[p] = ran[p] \/ ran'[p] = ran[p] \cup {<<Head(todo[p]), TRUE>>}
        /\ dynamic'[p] = dynamic[p]
    BY <1>1, <1>3 DEF AfterPlan, setupVars
  <2>2. \A x : <<x, TRUE>>[2] = TRUE
    OBVIOUS
  <2>3. \A r \in ran'[p] : r \in ran[p] \/ r[2] = TRUE
    BY <2>1, <2>2
  <2>4. ASSUME NEW r \in ran'[p] PROVE r[2] \/ dynamic'[p] # "enabled"
    <3>1. CASE r \in ran[p]
      BY <2>1, <3>1 DEF Has
    <3>2. CASE r[2] = TRUE
      BY <3>2, Zenon
    <3> QED
      BY <2>3, <3>1, <3>2
  <2> QED
    BY <2>4 DEF Has
<1>4. CASE ran' = ran /\ (dynamic' = dynamic \/ at[p] = "off")
  BY <1>1, <1>4 DEF Has
<1>5. RunTool(p) \/ AfterPlan(p) \/ (ran' = ran /\ (dynamic' = dynamic \/ at[p] = "off"))
  <2>1. CASE StartScan(p) \/ StartCommand(p) \/ StartInstallTool(p)
    BY <2>1 DEF StartScan, StartCommand, StartInstallTool, scanVars
  <2>2. CASE ToolIsReady(p) \/ PrepareWithoutInstaller(p) \/ InstallBegins(p) \/ CommandGoesOn(p)
    BY <2>2 DEF ToolIsReady, PrepareWithoutInstaller, InstallBegins, CommandGoesOn, setupVars, scanVars
  <2>3. CASE InstallEnds(p) \/ KatanaWithoutGo(p) \/ ReadRegistry(p) \/ WriteRegistry(p) \/ RegistryClash(p)
    BY <2>3 DEF InstallEnds, KatanaWithoutGo, ReadRegistry, WriteRegistry, RegistryClash, setupVars, scanVars
  <2>4. CASE RecordAttempts(p) \/ PlanBegins(p) \/ PlanCompletes(p) \/ PlanFails(p) \/ LoopEnds(p)
    BY <2>4 DEF RecordAttempts, PlanBegins, PlanCompletes, PlanFails, LoopEnds, setupVars, scanVars
  <2> QED
    BY <2>1, <2>2, <2>3, <2>4 DEF Step, Works
<1> QED
  BY <1>2, <1>3, <1>4, <1>5

\* Where installing is enabled no tool is started without its dependency, even
\* if a plan claims to have installed it (prompt_runner.py: run_prompt_scan).
THEOREM NoToolWithoutDependency == Spec => []ToolsHaveDependencies
<1> DEFINE I == \A p \in Processes : Has(p)
<1>1. Init => I
  BY DEF Init, Has
<1>2. Inv /\ I /\ [Next]_vars => I'
  <2> SUFFICES ASSUME Inv, I, [Next]_vars, NEW e \in Processes PROVE Has(e)'
    OBVIOUS
  <2>1. CASE UNCHANGED vars
    BY <2>1 DEF Has, vars, setupVars, scanVars
  <2>2. ASSUME NEW p \in Processes, Step(p) PROVE Has(e)'
    <3>1. CASE e = p
      BY <2>2, <3>1, HasStep
    <3>2. CASE e # p
      <4>1. Own(e)' = Own(e)
        BY <2>2, <3>2, OthersStay DEF Inv
      <4> QED
        BY <4>1 DEF Own, Has
    <3> QED
      BY <3>1, <3>2
  <2> QED
    BY <2>1, <2>2 DEF Next, Step
<1>3. I => ToolsHaveDependencies
  BY DEF ToolsHaveDependencies, Has
<1> HIDE DEF I
<1> QED
  BY <1>1, <1>2, <1>3, InvAlways, PTL DEF Spec

-------------------------------------------------------------------------------
(***************************************************************************)
(* What a scan drops it explains                                           *)
(***************************************************************************)
\* While a scan prepares its tools each of those chosen is in its plan, is
\* still to come, or has an attempt that did not complete.
Kept(p) ==
    \A t \in ToSet(chosen[p]) :
        \/ t \in ToSet(plan[p])
        \/ t \in ToSet(todo[p])
        \/ \E a \in ToSet(attempts[p]) : a.status # "completed" /\ a.dep = Dependency[t]

\* Afterwards it has an entry.
Explained(p) ==
    \A t \in ToSet(chosen[p]) :
        \/ t \in ToSet(plan[p])
        \/ ToolFor(Dependency[t]) \in skipped[p]
        \/ \E r \in rows[p] : r[1] = ToolFor(Dependency[t])

\* A scan is before or after the report that turns attempts into entries.
Drops(p) ==
    job[p] = "scan" => /\ at[p] \in {"prepare", "install", "register", "report"} => Kept(p)
                       /\ at[p] \in {"loop", "plan", "planned", "done"} => Explained(p)

\* A tool leaves what is still to come for the plan, or because of an attempt
\* that did not complete; the report turns those attempts into entries.
LEMMA DropsStep ==
  ASSUME Inv, NEW p \in Processes, Step(p), Drops(p)
  PROVE  Drops(p)'
<1>1. /\ DOMAIN at = Processes /\ DOMAIN job = Processes /\ DOMAIN chosen = Processes
      /\ DOMAIN plan = Processes /\ DOMAIN todo = Processes /\ DOMAIN attempts = Processes
      /\ DOMAIN rows = Processes /\ DOMAIN skipped = Processes
      /\ plan[p] \in Seq(Tools) /\ attempts[p] \in Seq(Tries) /\ Course(p)
  BY DEF Inv, Shapes
<1>2. \A a \in Tries : ToSet(Append(attempts[p], a)) = ToSet(attempts[p]) \cup {a}
  BY <1>1, ElementsMove
<1>3. job[p] = "scan" /\ todo[p] # <<>> =>
        /\ ToSet(todo[p]) = {Head(todo[p])} \cup ToSet(Tail(todo[p]))
        /\ ToSet(Append(plan[p], Head(todo[p]))) = ToSet(plan[p]) \cup {Head(todo[p])}
  BY <1>1, HeadOfTodo, ElementsMove
<1>4. CASE StartScan(p)
  <2>1. chosen'[p] = todo'[p] /\ at'[p] = "prepare"
    BY <1>1, <1>4 DEF StartScan
  <2> QED
    BY <2>1 DEF Drops, Kept
<1>5. CASE StartCommand(p) \/ StartInstallTool(p)
  <2>1. job'[p] # "scan"
    BY <1>1, <1>5 DEF StartCommand, StartInstallTool, Commands
  <2> QED
    BY <2>1 DEF Drops
<1>6. CASE ToolIsReady(p)
  <2>1. /\ at[p] = "prepare" /\ at' = at /\ job' = job /\ chosen' = chosen /\ attempts' = attempts
        /\ plan'[p] = Append(plan[p], Head(todo[p])) /\ todo'[p] = Tail(todo[p]) /\ todo[p] # <<>>
    BY <1>1, <1>6 DEF ToolIsReady, Finish, setupVars, prepVars
  <2> QED
    BY <1>3, <2>1 DEF Drops, Kept
<1>7. CASE PrepareWithoutInstaller(p)
  <2>1. PICK a \in Tries :
           /\ a.dep = Dependency[Head(todo[p])]
           /\ attempts' = [attempts EXCEPT ![p] = Append(@, a)]
           /\ \/ plan' = plan /\ a.status # "completed"
              \/ plan' = [plan EXCEPT ![p] = Append(@, Head(todo[p]))]
    BY <1>7, PrepareNotes
  <2>2. /\ at[p] = "prepare" /\ at' = at /\ job' = job /\ chosen' = chosen
        /\ todo'[p] = Tail(todo[p]) /\ todo[p] # <<>>
    BY <1>1, <1>7 DEF PrepareWithoutInstaller, AfterAttempt, Finish, setupVars
  <2>3. ASSUME job[p] = "scan", Kept(p) PROVE Kept(p)'
    <3>1. ToSet(attempts'[p]) = ToSet(attempts[p]) \cup {a}
      BY <1>1, <1>2, <2>1
    <3>2. \/ ToSet(plan'[p]) = ToSet(plan[p]) /\ a.status # "completed"
          \/ ToSet(plan'[p]) = ToSet(plan[p]) \cup {Head(todo[p])}
      BY <1>1, <1>3, <2>1, <2>2, <2>3
    <3> QED
      BY <1>3, <2>1, <2>2, <2>3, <3>1, <3>2 DEF Kept
  <2> QED
    BY <2>2, <2>3 DEF Drops
<1>8. CASE InstallEnds(p) \/ KatanaWithoutGo(p)
  <2>1. PICK a \in Tries :
           /\ a.dep = Wanted(p)
           /\ attempts' = [attempts EXCEPT ![p] = Append(@, a)]
           /\ todo' = [todo EXCEPT ![p] = Tail(@)]
           /\ at[p] = "install"
           /\ at' = [at EXCEPT ![p] = IF job[p] = "scan" THEN "prepare" ELSE "command"]
           /\ \/ plan' = plan /\ (job[p] = "scan" => a.status # "completed")
              \/ job[p] = "scan" /\ plan' = [plan EXCEPT ![p] = Append(@, Head(todo[p]))]
           /\ UNCHANGED setupVars
    BY <1>8, InstallNotes
  <2>2. todo[p] # <<>> /\ job' = job /\ chosen' = chosen /\ todo'[p] = Tail(todo[p])
    BY <1>1, <2>1 DEF Course, setupVars
  <2>3. ASSUME job[p] = "scan", Kept(p) PROVE Kept(p)' /\ at'[p] = "prepare"
    <3>1. ToSet(attempts'[p]) = ToSet(attempts[p]) \cup {a}
      BY <1>1, <1>2, <2>1
    <3>2. \/ ToSet(plan'[p]) = ToSet(plan[p]) /\ a.status # "completed"
          \/ ToSet(plan'[p]) = ToSet(plan[p]) \cup {Head(todo[p])}
      BY <1>1, <1>3, <2>1, <2>2, <2>3
    <3>3. a.dep = Dependency[Head(todo[p])] /\ at'[p] = "prepare"
      BY <1>1, <2>1, <2>3 DEF Wanted
    <3> QED
      BY <1>3, <2>1, <2>2, <2>3, <3>1, <3>2, <3>3 DEF Kept
  <2> QED
    BY <2>1, <2>2, <2>3 DEF Drops
<1>9. CASE InstallBegins(p) \/ ReadRegistry(p)
  <2>1. /\ at[p] = "command" => job[p] # "scan"
        /\ at[p] \in {"prepare", "command"} /\ at'[p] \in {"install", "register"}
        /\ UNCHANGED <<job, chosen, todo, plan, attempts>>
    BY <1>1, <1>9 DEF InstallBegins, ReadRegistry, Course, Commands, setupVars, scanVars
  <2> QED
    BY <2>1 DEF Drops, Kept
<1>10. CASE CommandGoesOn(p)
  <2>1. job'[p] # "scan"
    BY <1>1, <1>10 DEF CommandGoesOn, Course, Commands, setupVars
  <2> QED
    BY <2>1 DEF Drops
<1>11. CASE WriteRegistry(p)
  <2>1. CASE job[p] = "scan"
    <3>1. at[p] = "register" /\ at'[p] = "report" /\ UNCHANGED <<job, chosen, todo, plan, attempts>>
      BY <1>1, <1>11, <2>1 DEF WriteRegistry, setupVars, scanVars
    <3> QED
      BY <3>1 DEF Drops, Kept
  <2>2. CASE job[p] # "scan"
    <3>1. job' = job
      BY <1>11 DEF WriteRegistry, setupVars
    <3> QED
      BY <2>2, <3>1 DEF Drops
  <2> QED
    BY <2>1, <2>2
<1>12. CASE RegistryClash(p)
  <2>1. at'[p] = "crashed"
    BY <1>1, <1>12 DEF RegistryClash
  <2> QED
    BY <2>1 DEF Drops
<1>13. CASE RecordAttempts(p)
  <2>1. /\ at[p] = "report" /\ at'[p] = "loop" /\ todo[p] = <<>> /\ job[p] = "scan"
        /\ UNCHANGED <<job, chosen, plan>>
        /\ rows'[p] = {<<ToolFor(a.dep), a.status>> : a \in {b \in Undone(p) : Selected(p, ToolFor(b.dep))}}
        /\ skipped'[p] = {ToolFor(a.dep) : a \in {b \in Undone(p) : ~Selected(p, ToolFor(b.dep))}}
    BY <1>1, <1>13 DEF RecordAttempts, Course, setupVars
  <2>2. Kept(p) /\ ToSet(todo[p]) = {}
    BY <2>1, ElementsMove DEF Drops
  <2>3. ASSUME NEW t \in ToSet(chosen[p]), t \notin ToSet(plan[p])
        PROVE  \/ ToolFor(Dependency[t]) \in skipped'[p]
               \/ \E r \in rows'[p] : r[1] = ToolFor(Dependency[t])
    <3>1. PICK a \in Undone(p) : a.dep = Dependency[t]
      BY <2>2, <2>3 DEF Kept, Undone
    <3>2. CASE Selected(p, ToolFor(a.dep))
      <4>1. <<ToolFor(a.dep), a.status>> \in rows'[p]
        BY <2>1, <3>2
      <4> QED
        BY <3>1, <4>1
    <3>3. CASE ~Selected(p, ToolFor(a.dep))
      BY <2>1, <3>1, <3>3
    <3> QED
      BY <3>2, <3>3
  <2> QED
    BY <2>1, <2>3 DEF Drops, Explained
<1>14. CASE RunTool(p) \/ PlanBegins(p) \/ LoopEnds(p) \/ PlanCompletes(p) \/ PlanFails(p) \/ AfterPlan(p)
  <2>1. /\ at[p] \in {"loop", "plan", "planned"} /\ at'[p] \in {"loop", "plan", "planned", "done"}
        /\ UNCHANGED <<job, chosen, plan, skipped>> /\ rows[p] \subseteq rows'[p]
    <3>1. UNCHANGED <<job, chosen, plan, skipped>>
      BY <1>14 DEF RunTool, PlanBegins, LoopEnds, PlanCompletes, PlanFails, AfterPlan, setupVars, scanVars
    <3>2. rows[p] \subseteq rows'[p]
      BY <1>1, <1>14 DEF RunTool, PlanBegins, LoopEnds, PlanCompletes, PlanFails, AfterPlan, Block, scanVars
    <3>3. at[p] \in {"loop", "plan", "planned"} /\ at'[p] \in {"loop", "plan", "planned", "done"}
      BY <1>1, <1>14 DEF RunTool, PlanBegins, LoopEnds, PlanCompletes, PlanFails, AfterPlan
    <3> QED
      BY <3>1, <3>2, <3>3
  <2> QED
    BY <2>1 DEF Drops, Explained
<1> QED
  BY <1>4, <1>5, <1>6, <1>7, <1>8, <1>9, <1>10, <1>11, <1>12, <1>13, <1>14 DEF Step, Works

\* A tool that the user selected and that does not reach the tool loop leaves
\* an entry of the tool its dependency is known by: a tool run, or a place in
\* the list of skipped tools (prompt_runner.py: _record_install_attempt).
THEOREM DroppedToolsAreExplained == Spec => []DropsAreExplained
<1> DEFINE I == \A p \in Processes : Drops(p)
<1>1. Init => I
  BY DEF Init, Drops
<1>2. Inv /\ I /\ [Next]_vars => I'
  <2> SUFFICES ASSUME Inv, I, [Next]_vars, NEW e \in Processes PROVE Drops(e)'
    OBVIOUS
  <2>1. CASE UNCHANGED vars
    BY <2>1 DEF Drops, Kept, Explained, vars, setupVars, prepVars, scanVars
  <2>2. ASSUME NEW p \in Processes, Step(p) PROVE Drops(e)'
    <3>1. CASE e = p
      BY <2>2, <3>1, DropsStep
    <3>2. CASE e # p
      <4>1. Own(e)' = Own(e)
        BY <2>2, <3>2, OthersStay DEF Inv
      <4> QED
        BY <4>1 DEF Own, Drops, Kept, Explained
    <3> QED
      BY <3>1, <3>2
  <2> QED
    BY <2>1, <2>2 DEF Next, Step
<1>3. I => DropsAreExplained
  BY DEF DropsAreExplained, Drops, Explained
<1> HIDE DEF I
<1> QED
  BY <1>1, <1>2, <1>3, InvAlways, PTL DEF Spec

-------------------------------------------------------------------------------
(***************************************************************************)
(* install-tools installs                                                  *)
(***************************************************************************)
\* What has been tried is there, unless an installer has failed the process or
\* is running, or it was katana's, which may have found no go.
Tried(p) ==
    \A d \in tried[p] : \/ d \in present \/ d = "katana" \/ refused[p]
                        \/ at[p] = "install" /\ Wanted(p) = d

\* A supported dependency is there, or the command has not come to it yet.
Comes(p) ==
    job[p] = "install_tools_browser" =>
        \A d \in Deps \cap Supported :
            \/ d \in present \/ d = "katana" \/ refused[p]
            \/ at[p] \in {"command", "install"} /\ d \in ToSet(todo[p])

\* A step keeps both for the process that takes it.
LEMMA TriedStep ==
  ASSUME Inv, NEW p \in Processes, Step(p), Tried(p)
  PROVE  Tried(p)'
<1>1. present \subseteq present'
  BY OthersStay DEF Inv
<1>2. CASE Quiet(p) \/ Answers(p)
  BY <1>1, <1>2 DEF Quiet, Answers, Tried
<1>3. CASE Begins(p)
  BY <1>1, <1>3 DEF Begins, Tried
<1>4. CASE Ends(p)
  BY <1>1, <1>4 DEF Ends, Tried
<1> QED
  BY <1>2, <1>3, <1>4, AttemptsMove

\* The command passes over a dependency only when it is there, was tried, or is
\* not supported.
LEMMA ComesStep ==
  ASSUME Inv, NEW p \in Processes, Step(p), Tried(p), Comes(p)
  PROVE  Comes(p)'
<1>1. /\ DOMAIN at = Processes /\ DOMAIN job = Processes /\ DOMAIN todo = Processes
      /\ DOMAIN refused = Processes /\ Course(p) /\ todo[p] \in Seq(Tools \cup Deps)
  BY DEF Inv, Shapes
<1>2. present \subseteq present' /\ (refused[p] => refused'[p])
  BY OthersStay, AttemptsMove DEF Inv, Quiet, Answers, Begins, Ends
<1>3. todo[p] # <<>> => ToSet(todo[p]) = {Head(todo[p])} \cup ToSet(Tail(todo[p]))
  BY HeadOfTodo
<1>4. CASE StartCommand(p)
  <2>1. at'[p] = "command" /\ present' = present
    BY <1>1, <1>4 DEF StartCommand, machineVars
  <2>2. ASSUME job'[p] = "install_tools_browser" PROVE ToSet(todo'[p]) = Deps \ present
    <3>1. todo'[p] = InOrder(StatusOrder, Deps \ present)
      BY <1>1, <1>4, <2>2 DEF StartCommand
    <3> QED
      BY <3>1, CommandList
  <2> QED
    BY <2>1, <2>2 DEF Comes
<1>5. CASE StartScan(p) \/ StartInstallTool(p)
  <2>1. job'[p] # "install_tools_browser"
    BY <1>1, <1>5 DEF StartScan, StartInstallTool
  <2> QED
    BY <2>1 DEF Comes
<1>6. CASE InstallBegins(p)
  <2>1. at[p] \in {"prepare", "command"} /\ at'[p] = "install" /\ UNCHANGED <<job, todo>>
    BY <1>1, <1>6 DEF InstallBegins, setupVars
  <2>2. job[p] = "install_tools_browser" => at[p] = "command"
    BY <1>1, <2>1 DEF Course
  <2> QED
    BY <1>2, <2>1, <2>2 DEF Comes
<1>7. CASE InstallEnds(p) \/ KatanaWithoutGo(p)
  <2>1. /\ todo' = [todo EXCEPT ![p] = Tail(@)] /\ at[p] = "install"
        /\ at' = [at EXCEPT ![p] = IF job[p] = "scan" THEN "prepare" ELSE "command"]
        /\ Wanted(p) \in present' \/ Wanted(p) = "katana" \/ refused'[p]
        /\ job' = job
    BY <1>7, InstallNotes DEF setupVars
  <2> SUFFICES ASSUME job[p] = "install_tools_browser" PROVE Comes(p)'
    BY <2>1 DEF Comes
  <2>2. at'[p] = "command" /\ todo'[p] = Tail(todo[p]) /\ todo[p] # <<>> /\ Wanted(p) = Head(todo[p])
    BY <1>1, <2>1 DEF Course, Wanted
  <2> QED
    BY <1>2, <1>3, <2>1, <2>2 DEF Comes
<1>8. CASE CommandGoesOn(p)
  <2>1. /\ at[p] = "command" /\ at' = at /\ todo[p] # <<>> /\ todo'[p] = Tail(todo[p]) /\ job' = job
        /\ \/ Head(todo[p]) \in present \/ Head(todo[p]) \in tried[p]
           \/ ~MayInstall(p, Head(todo[p]))
    BY <1>1, <1>8 DEF CommandGoesOn, Finish, ToInstall, setupVars
  <2>2. job[p] = "install_tools_browser" /\ ~MayInstall(p, Head(todo[p])) => Head(todo[p]) \notin Supported
    BY DEF MayInstall, Supported, APT
  <2> QED
    BY <1>2, <1>3, <2>1, <2>2 DEF Comes, Tried
<1>9. CASE ReadRegistry(p)
  <2>1. todo[p] = <<>> /\ job' = job
    BY <1>9 DEF ReadRegistry, setupVars
  <2>2. ToSet(todo[p]) = {}
    BY <2>1, ElementsMove
  <2> QED
    BY <1>2, <2>1, <2>2 DEF Comes
<1>10. CASE WriteRegistry(p) \/ RegistryClash(p) \/ RecordAttempts(p) \/ ToolIsReady(p)
            \/ PrepareWithoutInstaller(p)
  <2>1. at[p] \in {"register", "report", "prepare"} /\ job' = job
    BY <1>10 DEF WriteRegistry, RegistryClash, RecordAttempts, ToolIsReady, PrepareWithoutInstaller, setupVars
  <2> QED
    BY <1>2, <2>1 DEF Comes
<1>11. CASE RunTool(p) \/ PlanBegins(p) \/ LoopEnds(p) \/ PlanCompletes(p) \/ PlanFails(p) \/ AfterPlan(p)
  <2>1. at[p] \in {"loop", "plan", "planned"} /\ job' = job
    BY <1>11 DEF RunTool, PlanBegins, LoopEnds, PlanCompletes, PlanFails, AfterPlan, setupVars
  <2> QED
    BY <1>2, <2>1 DEF Comes
<1> QED
  BY <1>4, <1>5, <1>6, <1>7, <1>8, <1>9, <1>10, <1>11 DEF Step, Works

\* install-tools is there to "Install missing supported external tools": if no
\* installer fails, only katana can be missing when it ends, whose own
\* prerequisite comes after it in the loop's order (cli.py: install_tools;
\* tool_manager.py: install_missing_supported_tools).
THEOREM InstallToolsDoesInstall == Spec => []InstallToolsInstalls
<1> DEFINE I == \A p \in Processes : Tried(p) /\ Comes(p)
<1>1. Init => I
  BY DEF Init, Tried, Comes
<1>2. Inv /\ I /\ [Next]_vars => I'
  <2> SUFFICES ASSUME Inv, I, [Next]_vars, NEW e \in Processes PROVE Tried(e)' /\ Comes(e)'
    OBVIOUS
  <2>1. CASE UNCHANGED vars
    BY <2>1 DEF Tried, Comes, Wanted, vars, machineVars, setupVars, prepVars
  <2>2. ASSUME NEW p \in Processes, Step(p) PROVE Tried(e)' /\ Comes(e)'
    <3>1. CASE e = p
      BY <2>2, <3>1, TriedStep, ComesStep
    <3>2. CASE e # p
      <4>1. Own(e)' = Own(e) /\ present \subseteq present'
        BY <2>2, <3>2, OthersStay DEF Inv
      <4>2. /\ job'[e] = job[e] /\ at'[e] = at[e] /\ todo'[e] = todo[e]
            /\ tried'[e] = tried[e] /\ refused'[e] = refused[e]
        BY <4>1 DEF Own
      <4>3. Tried(e)'
        BY <4>1, <4>2 DEF Tried, Wanted
      <4>4. Comes(e)'
        BY <4>1, <4>2 DEF Comes
      <4> QED
        BY <4>3, <4>4
    <3> QED
      BY <3>1, <3>2
  <2> QED
    BY <2>1, <2>2 DEF Next, Step
<1>3. I => InstallToolsInstalls
  BY DEF InstallToolsInstalls, Comes
<1> HIDE DEF I
<1> QED
  BY <1>1, <1>2, <1>3, InvAlways, PTL DEF Spec

===============================================================================
