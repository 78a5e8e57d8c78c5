-------------------------- MODULE ScanControl_proofs --------------------------
(***************************************************************************)
(* Theorems about ScanControl for every set of workers and handlers, every *)
(* bound and every set of hazards.                                         *)
(***************************************************************************)
EXTENDS ScanProperties, TLAPS

-------------------------------------------------------------------------------
(***************************************************************************)
(* Type correctness                                                        *)
(***************************************************************************)
\* A worker inside the tool loop's body has a tool left to go through, so that
\* the counter of tools never falls below zero.
TypeInv ==
    /\ TypeOK
    /\ \A w \in Workers :
         pc[w] \in {"gate", "resolve", "tool", "phasetool"} => left[w] > 0

\* An idle request thread is well typed, and so is one at any other point.
LEMMA RequestTyped ==
    ASSUME NEW a \in {"idle", "write", "lookup", "spawn", "record"}
    PROVE  Idle \in Requests /\ [Idle EXCEPT !.at = a] \in Requests
BY DEF Idle, Requests, Actions, Statuses

\* The initial states are well typed.
LEMMA InitTyped == Init => TypeInv
<1> SUFFICES ASSUME Init PROVE TypeInv
  OBVIOUS
<1>1. req \in [Handlers -> Requests]
  BY RequestTyped DEF Init
<1>2. \A h \in Handlers : req[h].at # "record"
  BY DEF Init, Idle
<1>3. /\ status \in Statuses
      /\ row \in [Workers -> RowStatuses]
      /\ pc \in [Workers -> WorkerStates]
      /\ kind \in [Workers -> Kinds]
      /\ cached \in [Workers -> Statuses]
  BY DEF Init, Statuses, RowStatuses, WorkerStates, Kinds
<1>4. left \in [Workers -> 0..MaxTools] /\ prereq \in [Workers -> 0..MaxPrereqs]
  BY BoundsAssumption DEF Init
<1>5. /\ rows \in Seq(Workers)
      /\ beat \in [Workers -> {"off", "awake", "write"}]
      /\ afterHold \in [Workers -> Nat]
  BY DEF Init
<1>6. /\ pauseReq \in BOOLEAN /\ stopReq \in BOOLEAN
      /\ recent \in BOOLEAN /\ toolShown \in BOOLEAN /\ blockedRuns \in BOOLEAN
      /\ markers \subseteq Workers \cup {"katana"} /\ detached \subseteq Workers
  BY DEF Init
<1>7. \A w \in Workers : pc[w] \notin {"gate", "resolve", "tool", "phasetool"}
  BY DEF Init
<1> QED
  BY <1>1, <1>2, <1>3, <1>4, <1>5, <1>6, <1>7 DEF TypeInv, TypeOK

\* The latest process row names a worker.
LEMMA LatestIsWorker == TypeOK /\ rows # <<>> => Latest \in Workers
BY DEF TypeOK, Latest

\* Marking the latest row stale keeps the column well typed.
LEMMA MarkTyped == TypeOK /\ MarkStaleRow => row' \in [Workers -> RowStatuses]
BY LatestIsWorker DEF TypeOK, MarkStaleRow, RowStatuses

\* The end of a process keeps its attributes well typed.
LEMMA EndsTyped ==
    ASSUME NEW w \in Workers, TypeInv, Ends(w)
    PROVE  /\ pc' \in [Workers -> WorkerStates]
           /\ beat' \in [Workers -> {"off", "awake", "write"}]
           /\ cached' \in [Workers -> Statuses]
           /\ left' \in [Workers -> 0..MaxTools]
           /\ prereq' \in [Workers -> 0..MaxPrereqs]
           /\ afterHold' \in [Workers -> Nat]
           /\ \A v \in Workers :
                pc'[v] \in {"gate", "resolve", "tool", "phasetool"} => left'[v] > 0
BY BoundsAssumption DEF Ends, AfterDeath, TypeInv, TypeOK, WorkerStates, Ended, Statuses

\* A process that ends and leaves the shared state alone keeps everything typed.
LEMMA QuietEndTyped ==
    ASSUME NEW w \in Workers, TypeInv, Ends(w),
           UNCHANGED <<scanVars, tableVars, req, kind, detached>>
    PROVE  TypeInv'
<1>1. UNCHANGED <<status, pauseReq, stopReq, recent, toolShown, markers, blockedRuns>>
  BY DEF scanVars
<1>2. UNCHANGED <<rows, row, req, kind, detached>>
  BY DEF tableVars
<1> QED BY <1>1, <1>2, EndsTyped DEF TypeInv, TypeOK

\* A status assigned through a worker's copy is a status.
LEMMA AssignTyped ==
    ASSUME NEW w \in Workers, NEW s \in Statuses, TypeOK, Assign(w, s)
    PROVE  status' \in Statuses /\ cached' \in [Workers -> Statuses]
BY DEF Assign, TypeOK

\* So is the one a starting event assigns.
LEMMA EmitTyped ==
    ASSUME NEW w \in Workers, TypeOK, EmitStarting(w)
    PROVE  status' \in Statuses /\ cached' \in [Workers -> Statuses]
<1>1. "running" \in Statuses /\ cached[w] \in Statuses
  BY DEF TypeOK, Statuses
<1> QED BY <1>1, AssignTyped DEF EmitStarting


\* Requests keep the state well typed.
LEMMA DashboardTyped == TypeInv /\ Dashboard => TypeInv'
<1> SUFFICES ASSUME TypeInv, Dashboard PROVE TypeInv'
  OBVIOUS
<1> USE DEF TypeInv, TypeOK
<1>1. ASSUME NEW h \in Handlers, NEW act \in Actions \ {"start"}, Receive(h, act) PROVE TypeInv'
  <2>1. req' \in [Handlers -> Requests] /\ \A g \in Handlers : req'[g].at = "record" => req'[g].worker \in Workers
    <3>1. [Idle EXCEPT !.at = "write", !.act = act, !.seen = status, !.seenPause = pauseReq]
             \in Requests
      BY DEF Idle, Requests
    <3>2. [Idle EXCEPT !.at = "lookup", !.act = act] \in Requests
      BY DEF Idle, Requests, Statuses
    <3> QED BY <1>1, <3>1, <3>2 DEF Receive, Idle
  <2>2. row' \in [Workers -> RowStatuses]
    BY <1>1, MarkTyped DEF Receive
  <2> QED BY <1>1, <2>1, <2>2 DEF Receive, workerVars
<1>2. ASSUME NEW h \in Handlers, Write(h) PROVE TypeInv'
  <2>1. req' \in [Handlers -> Requests] /\ \A g \in Handlers : req'[g].at = "record" => req'[g].worker \in Workers
    BY <1>2 DEF Write, Idle, Requests, Actions, Statuses
  <2>2. status' \in Statuses
    BY <1>2 DEF Write, Requested, Statuses
  <2>3. pauseReq' \in BOOLEAN
    BY <1>2 DEF Write
  <2> QED BY <1>2, <2>1, <2>2, <2>3 DEF Write, tableVars
<1>3. ASSUME NEW h \in Handlers, AlreadyRunning(h) PROVE TypeInv'
  <2>1. req' \in [Handlers -> Requests] /\ \A g \in Handlers : req'[g].at = "record" => req'[g].worker \in Workers
    BY <1>3, RequestTyped DEF AlreadyRunning, Idle
  <2> QED BY <1>3, <2>1 DEF AlreadyRunning, tableVars, workerVars
<1>4. ASSUME NEW h \in Handlers, NoneRunning(h) PROVE TypeInv'
  <2>1. req' \in [Handlers -> Requests] /\ \A g \in Handlers : req'[g].at = "record" => req'[g].worker \in Workers
    <3>1. req' = [req EXCEPT ![h].at = "spawn"]
      BY <1>4 DEF NoneRunning
    <3>2. req[h] \in Requests
      OBVIOUS
    <3>3. [req[h] EXCEPT !.at = "spawn"] \in Requests
      BY <3>2 DEF Requests
    <3> QED BY <3>1, <3>3
  <2>2. row' \in [Workers -> RowStatuses]
    BY <1>4, MarkTyped DEF NoneRunning
  <2> QED BY <1>4, <2>1, <2>2 DEF NoneRunning, scanVars, workerVars
<1>5. ASSUME NEW h \in Handlers, NEW w \in Workers, Spawn(h, w) PROVE TypeInv'
  <2>1. req' \in [Handlers -> Requests] /\ \A g \in Handlers : req'[g].at = "record" => req'[g].worker \in Workers
    <3>1. req[h].act \in Actions
      BY DEF Requests
    <3>2. [Idle EXCEPT !.at = "record", !.act = req[h].act, !.worker = w] \in Requests
      BY <3>1 DEF Idle, Requests, Statuses
    <3> QED BY <1>5, <3>2 DEF Spawn, Idle
  <2>2. /\ pc' \in [Workers -> WorkerStates]
        /\ \A v \in Workers : pc'[v] \in {"gate", "resolve", "tool", "phasetool"} => pc'[v] = pc[v]
    BY <1>5 DEF Spawn, WorkerStates, LiveStates, Ended
  <2>3. kind' \in [Workers -> Kinds]
    BY <1>5 DEF Spawn, KindOf, Kinds
  <2> QED BY <1>5, <2>1, <2>2, <2>3 DEF Spawn, scanVars, tableVars
<1>6. ASSUME NEW h \in Handlers, Record(h) PROVE TypeInv'
  <2>1. req' \in [Handlers -> Requests] /\ \A g \in Handlers : req'[g].at = "record" => req'[g].worker \in Workers
    BY <1>6, RequestTyped DEF Record, Idle
  <2>2. rows' \in Seq(Workers) /\ row' \in [Workers -> RowStatuses]
    BY <1>6 DEF Record, RowStatuses
  <2> QED BY <1>6, <2>1, <2>2 DEF Record, workerVars
<1>7. ASSUME NEW h \in Handlers, StartFails(h) PROVE TypeInv'
  <2>1. req' \in [Handlers -> Requests] /\ \A g \in Handlers : req'[g].at = "record" => req'[g].worker \in Workers
    BY <1>7, RequestTyped DEF StartFails, Idle
  <2>2. status' \in Statuses
    BY <1>7 DEF StartFails, Statuses
  <2>3. CASE req[h].at = "record" /\ Executing(req[h].worker)
    BY <1>7, <2>1, <2>2, <2>3, EndsTyped DEF StartFails, tableVars
  <2>4. CASE ~(req[h].at = "record" /\ Executing(req[h].worker))
    BY <1>7, <2>1, <2>2, <2>4 DEF StartFails, tableVars
  <2> QED BY <2>3, <2>4
<1>8. CASE Poll
  BY <1>8, MarkTyped DEF Poll, scanVars, workerVars
<1>9. CASE ServerRestarts
  <2>1. req' \in [Handlers -> Requests] /\ \A g \in Handlers : req'[g].at = "record" => req'[g].worker \in Workers
    BY <1>9, RequestTyped DEF ServerRestarts, Idle
  <2>2. /\ pc' \in [Workers -> WorkerStates]
        /\ \A v \in Workers : pc'[v] \in {"gate", "resolve", "tool", "phasetool"} => pc'[v] = pc[v]
    BY <1>9 DEF ServerRestarts, WorkerStates, Ended
  <2> QED BY <1>9, <2>1, <2>2 DEF ServerRestarts, scanVars, tableVars
<1>10. CASE Reap
  <2>1. /\ pc' \in [Workers -> WorkerStates]
        /\ \A v \in Workers : pc'[v] \in {"gate", "resolve", "tool", "phasetool"} => pc'[v] = pc[v]
    BY <1>10 DEF Reap, WorkerStates, Ended
  <2> QED BY <1>10, <2>1 DEF Reap, scanVars, tableVars
<1> QED BY <1>1, <1>2, <1>3, <1>4, <1>5, <1>6, <1>7, <1>8, <1>9, <1>10 DEF Dashboard

\* So do the operator's commands.
LEMMA OperatorTyped == TypeInv /\ Operator => TypeInv'
<1> SUFFICES ASSUME TypeInv, Operator PROVE TypeInv'
  OBVIOUS
<1> USE DEF TypeInv, TypeOK
<1>1. ASSUME NEW s \in Statuses, CliSets(s) PROVE TypeInv'
  BY <1>1 DEF CliSets, tableVars, workerVars
<1>2. ASSUME NEW w \in Workers, NEW k \in Kinds, TerminalStarts(w, k) PROVE TypeInv'
  <2>1. pc' \in [Workers -> WorkerStates] /\ kind' \in [Workers -> Kinds]
    BY <1>2 DEF TerminalStarts, WorkerStates, LiveStates
  <2> QED BY <1>2, <2>1 DEF TerminalStarts, scanVars, tableVars
<1>3. CASE ActivityAges
  BY <1>3 DEF ActivityAges, tableVars, workerVars
<1> QED BY <1>1, <1>2, <1>3 DEF Operator


\* A step of run-existing keeps the state well typed.
LEMMA RunTyped == ASSUME NEW w \in Workers, TypeInv, RunStep(w) PROVE TypeInv'
<1> USE BoundsAssumption DEF TypeInv, TypeOK, scanVars, tableVars, workerVars, Statuses,
        RowStatuses, WorkerStates, LiveStates, RunStates, ToolStates, ClosedStates, Goto
<1>1. CASE Boot(w)
  BY <1>1 DEF Boot
<1>2. CASE Precheck(w)
  BY <1>2, EmitTyped DEF Precheck
<1>3. CASE PrecheckFails(w)
  <2>1. PICK t \in {"failed_precheck", "failed_ai_timeout"} : Assign(w, t)
    BY <1>3 DEF PrecheckFails
  <2>2. status' \in Statuses /\ cached' \in [Workers -> Statuses]
    BY <2>1, AssignTyped
  <2>3. row' = row \/ row' = [row EXCEPT ![w] = "failed"]
    BY <1>3 DEF PrecheckFails
  <2>4. row' \in [Workers -> RowStatuses]
    BY <2>3
  <2>5. pc' = [pc EXCEPT ![w] = "failing"]
    BY <1>3 DEF PrecheckFails
  <2> QED BY <1>3, <2>2, <2>4, <2>5 DEF PrecheckFails
<1>4. CASE EnterPlanning(w)
  BY <1>4, AssignTyped DEF EnterPlanning
<1>5. CASE ScanStarted(w)
  BY <1>5, EmitTyped DEF ScanStarted
<1>6. CASE Prepare(w)
  BY <1>6 DEF Prepare
<1>7. CASE ControlCheck(w)
  BY <1>7 DEF ControlCheck
<1>8. CASE ResolveBegins(w)
  BY <1>8 DEF ResolveBegins
<1>9. CASE ResolveRuns(w)
  BY <1>9 DEF ResolveRuns, Counted
<1>10. CASE SkipTool(w)
  <2>1. left[w] > 0 /\ left[w] - 1 \in 0..MaxTools
    BY <1>10 DEF SkipTool, AtTool
  <2>2. blockedRuns' \in BOOLEAN /\ recent' \in BOOLEAN
    BY <1>10 DEF SkipTool
  <2> QED BY <1>10, <2>1, <2>2 DEF SkipTool
<1>11. CASE StartTool(w)
  <2>1. status' \in Statuses /\ cached' \in [Workers -> Statuses]
    BY <1>11, EmitTyped DEF StartTool
  <2>2. left[w] > 0 /\ left[w] - 1 \in 0..MaxTools
    BY <1>11 DEF StartTool, AtTool
  <2>3. pc' \in [Workers -> WorkerStates] /\ afterHold' \in [Workers -> Nat]
    BY <1>11 DEF StartTool, Counted
  <2> QED BY <1>11, <2>1, <2>2, <2>3 DEF StartTool
<1>12. CASE Deduplicate(w)
  <2>1. status' \in Statuses /\ cached' \in [Workers -> Statuses]
    BY <1>12, EmitTyped DEF Deduplicate
  <2>2. left[w] > 0 /\ left[w] - 1 \in 0..MaxTools
    BY <1>12 DEF Deduplicate, AtTool
  <2>3. pc' \in [Workers -> WorkerStates] /\ afterHold' \in [Workers -> Nat]
    BY <1>12 DEF Deduplicate, Counted
  <2> QED BY <1>12, <2>1, <2>2, <2>3 DEF Deduplicate
<1>13. CASE ToolEnds(w)
  BY <1>13 DEF ToolEnds
<1>14. CASE AuthBlocks(w)
  BY <1>14, AssignTyped DEF AuthBlocks
<1>15. CASE EarlyReturn(w)
  BY <1>15 DEF EarlyReturn
<1>16. CASE Review(w)
  BY <1>16, EmitTyped DEF Review
<1>17. CASE Complete(w)
  <2>1. PICK s \in FinalStatuses : Assign(w, s)
    BY <1>17 DEF Complete
  <2>2. s \in Statuses
    BY DEF FinalStatuses
  <2>3. status' \in Statuses /\ cached' \in [Workers -> Statuses]
    BY <2>1, <2>2, AssignTyped
  <2> QED BY <1>17, <2>3 DEF Complete
<1>18. CASE CloseRow(w)
  <2>1. row' \in [Workers -> RowStatuses]
    BY <1>18 DEF CloseRow
  <2>2. PICK c \in ClosedStates : pc' = [pc EXCEPT ![w] = c]
    BY <1>18 DEF CloseRow
  <2>3. \A v \in Workers : pc'[v] \in {"gate", "resolve", "tool", "phasetool"} => pc'[v] = pc[v]
    BY <1>18 DEF CloseRow
  <2> QED BY <1>18, <2>1, <2>2, <2>3 DEF CloseRow
<1>19. CASE Exit(w)
  BY <1>19, EndsTyped DEF Exit
<1>20. CASE Fail(w)
  BY <1>20, EndsTyped DEF Fail
<1> QED BY <1>1, <1>2, <1>3, <1>4, <1>5, <1>6, <1>7, <1>8, <1>9, <1>10, <1>11, <1>12, <1>13, <1>14, <1>15, <1>16, <1>17, <1>18, <1>19, <1>20 DEF RunStep

\* So does a step of scan continue or of scan stop.
LEMMA CommandTyped == ASSUME NEW w \in Workers, TypeInv, CommandStep(w) PROVE TypeInv'
<1> USE BoundsAssumption DEF TypeInv, TypeOK, scanVars, tableVars, workerVars, Statuses,
        RowStatuses, WorkerStates, LiveStates, RunStates, ToolStates, ClosedStates, Goto
<1>1. CASE ContinueBegins(w)
  BY <1>1 DEF ContinueBegins
<1>2. CASE ContinueRefused(w)
  BY <1>2, QuietEndTyped DEF ContinueRefused
<1>3. CASE PhaseToolStarts(w)
  <2>1. pc' = [pc EXCEPT ![w] = "phasetool"] /\ left[w] > 0
    BY <1>3 DEF PhaseToolStarts
  <2>2. pc' \in [Workers -> WorkerStates]
    BY <2>1
  <2>3. \A v \in Workers : pc'[v] \in {"gate", "resolve", "tool", "phasetool"} => left[v] > 0
    BY <2>1
  <2>4. afterHold' \in [Workers -> Nat]
    BY <1>3 DEF PhaseToolStarts, Counted
  <2>5. status' \in Statuses /\ cached' \in [Workers -> Statuses]
    <3>1. TypeOK /\ EmitStarting(w)
      BY <1>3 DEF PhaseToolStarts
    <3> HIDE DEF TypeOK, Statuses
    <3> QED BY <3>1, EmitTyped
  <2> HIDE DEF Statuses, WorkerStates
  <2> QED BY <1>3, <2>2, <2>3, <2>4, <2>5 DEF PhaseToolStarts
<1>4. CASE PhaseToolEnds(w)
  BY <1>4 DEF PhaseToolEnds
<1>5. CASE ContinueEnds(w)
  <2>1. Ends(w) /\ status' \in Statuses
    BY <1>5 DEF ContinueEnds
  <2> HIDE DEF Statuses, WorkerStates
  <2> QED BY <1>5, <2>1, EndsTyped DEF ContinueEnds
<1>6. CASE StopForced(w)
  <2>1. Ends(w) /\ status' \in Statuses
    BY <1>6 DEF StopForced
  <2> HIDE DEF Statuses, WorkerStates
  <2> QED BY <1>6, <2>1, EndsTyped DEF StopForced
<1> QED BY <1>1, <1>2, <1>3, <1>4, <1>5, <1>6 DEF CommandStep

\* So does a heartbeat, a crash or a rollback.
LEMMA AccidentTyped == ASSUME NEW w \in Workers, TypeInv, BeatStep(w) \/ Accident(w) PROVE TypeInv'
<1> USE BoundsAssumption DEF TypeInv, TypeOK, scanVars, tableVars, workerVars, Statuses,
        RowStatuses, WorkerStates, LiveStates, RunStates, ToolStates, ClosedStates, Goto
<1>1. CASE BeatReads(w)
  BY <1>1 DEF BeatReads
<1>2. CASE BeatWrites(w)
  BY <1>2 DEF BeatWrites
<1>3. CASE Raise(w)
  BY <1>3 DEF Raise
<1>4. CASE ArtifactRollback(w)
  BY <1>4 DEF ArtifactRollback
<1>5. CASE Kill(w)
  BY <1>5, QuietEndTyped DEF Kill
<1>6. CASE BeatWakes(w)
  BY <1>6 DEF BeatWakes
<1> QED BY <1>1, <1>2, <1>3, <1>4, <1>5, <1>6 DEF BeatStep, Accident

\* The strengthened type invariant is invariant.
LEMMA TypeInvariant == Spec => []TypeInv
<1>1. ASSUME TypeInv, [Next]_vars PROVE TypeInv'
  <2>1. CASE Dashboard
    BY <1>1, <2>1, DashboardTyped
  <2>2. CASE Operator
    BY <1>1, <2>2, OperatorTyped
  <2>3. CASE \E w \in Workers : WorkerStep(w) \/ Accident(w)
    BY <1>1, <2>3, RunTyped, CommandTyped, AccidentTyped DEF WorkerStep
  <2>4. CASE UNCHANGED vars
    BY <1>1, <2>4 DEF vars, scanVars, tableVars, workerVars, TypeInv, TypeOK
  <2> QED BY <1>1, <2>1, <2>2, <2>3, <2>4 DEF Next
<1> QED BY InitTyped, <1>1, PTL DEF Spec

\* Every variable keeps its type (TypeOK), for any number of workers, request
\* threads and tools, whatever hazards strike: no tool counter underflows, and
\* every status written is one of the enumeration.
THEOREM TypeCorrect == Spec => []TypeOK
<1>1. TypeInv => TypeOK
  BY DEF TypeInv
<1> QED BY TypeInvariant, <1>1, PTL

-------------------------------------------------------------------------------
(***************************************************************************)
(* How soon a hold is honoured                                             *)
(***************************************************************************)
\* Nothing counts while no hold is asked for; a worker that passed the control
\* check has begun nothing since; while it resolves prerequisites, what it has
\* begun and what it may still begin fit the bound.
HoldInv ==
    /\ ~Hold => \A w \in Workers : afterHold[w] = 0
    /\ \A w \in Workers :
         /\ pc[w] \in {"none", "gate"} => afterHold[w] = 0
         /\ pc[w] = "resolve" => afterHold[w] + prereq[w] <= MaxPrereqs
         /\ pc[w] \in {"phase", "phasetool"} => kind[w] = "continue"
         /\ kind[w] = "run" => afterHold[w] <= MaxPrereqs + 1

\* A process that ends while the flags stay as they are takes its count with it.
LEMMA EndsHold ==
    ASSUME NEW w \in Workers, TypeInv, HoldInv, Ends(w), UNCHANGED <<pauseReq, stopReq, kind>>
    PROVE  HoldInv'
<1>1. \A v \in Workers \ {w} : pc'[v] = pc[v] /\ prereq'[v] = prereq[v] /\ afterHold'[v] = afterHold[v]
  BY DEF Ends, TypeInv, TypeOK
<1>2. pc'[w] \in {"gone", "zombie"} /\ afterHold'[w] = 0
  BY DEF Ends, AfterDeath, TypeInv, TypeOK
<1>3. ~Hold' => \A v \in Workers : afterHold'[v] = 0
  BY <1>1, <1>2 DEF HoldInv, Hold
<1> QED BY <1>1, <1>2, <1>3, BoundsAssumption DEF HoldInv

\* Requests keep the invariant: only a resume that withdraws every flag resets
\* the counts, and a process starts without any.
LEMMA DashboardHold == TypeInv /\ HoldInv /\ Dashboard => HoldInv'
<1> SUFFICES ASSUME TypeInv, HoldInv, Dashboard PROVE HoldInv'
  OBVIOUS
<1> USE DEF HoldInv, Hold
<1>1. ASSUME NEW h \in Handlers, NEW act \in Actions \ {"start"}, Receive(h, act) PROVE HoldInv'
  BY <1>1 DEF Receive, workerVars
<1>2. ASSUME NEW h \in Handlers, Write(h) PROVE HoldInv'
  <2> DEFINE lifted == req[h].act = "resume" /\ req[h].seenPause /\ ~stopReq
  <2>1. CASE lifted
    BY <1>2, <2>1, BoundsAssumption DEF Write, TypeInv, TypeOK
  <2>2. CASE ~lifted
    <3>1. afterHold' = afterHold /\ UNCHANGED <<pc, prereq, kind>>
      BY <1>2, <2>2 DEF Write
    <3>2. Hold => Hold'
      BY <1>2, <2>2 DEF Write, TypeInv, TypeOK
    <3> QED BY <3>1, <3>2
  <2> QED BY <2>1, <2>2
<1>3. ASSUME NEW h \in Handlers, AlreadyRunning(h) PROVE HoldInv'
  BY <1>3 DEF AlreadyRunning, workerVars
<1>4. ASSUME NEW h \in Handlers, NoneRunning(h) PROVE HoldInv'
  BY <1>4 DEF NoneRunning, scanVars, workerVars
<1>5. ASSUME NEW h \in Handlers, NEW w \in Workers, Spawn(h, w) PROVE HoldInv'
  <2>1. \A v \in Workers : pc'[v] = pc[v] \/ pc'[v] \in {"boot", "gone"}
    BY <1>5 DEF Spawn, TypeInv, TypeOK
  <2>2. afterHold[w] = 0 /\ \A v \in Workers \ {w} : kind'[v] = kind[v]
    BY <1>5 DEF Spawn, TypeInv, TypeOK
  <2>3. UNCHANGED <<pauseReq, stopReq, prereq, afterHold>> /\ pc'[w] = "boot"
    BY <1>5 DEF Spawn, scanVars, TypeInv, TypeOK
  <2> QED BY <2>1, <2>2, <2>3, BoundsAssumption
<1>6. ASSUME NEW h \in Handlers, Record(h) PROVE HoldInv'
  BY <1>6 DEF Record, workerVars
<1>7. ASSUME NEW h \in Handlers, StartFails(h) PROVE HoldInv'
  <2>1. CASE req[h].at = "record" /\ Executing(req[h].worker)
    BY <1>7, <2>1, EndsHold DEF StartFails, TypeInv, TypeOK
  <2>2. CASE ~(req[h].at = "record" /\ Executing(req[h].worker))
    BY <1>7, <2>2 DEF StartFails
  <2> QED BY <2>1, <2>2
<1>8. CASE Poll
  BY <1>8 DEF Poll, scanVars, workerVars
<1>9. CASE ServerRestarts
  BY <1>9 DEF ServerRestarts, scanVars, TypeInv, TypeOK
<1>10. CASE Reap
  BY <1>10 DEF Reap, scanVars, TypeInv, TypeOK
<1> QED BY <1>1, <1>2, <1>3, <1>4, <1>5, <1>6, <1>7, <1>8, <1>9, <1>10 DEF Dashboard

\* The command line touches no flag.
LEMMA OperatorHold == TypeInv /\ HoldInv /\ Operator => HoldInv'
<1> SUFFICES ASSUME TypeInv, HoldInv, Operator PROVE HoldInv'
  OBVIOUS
<1> USE DEF HoldInv, Hold
<1>1. ASSUME NEW s \in Statuses, CliSets(s) PROVE HoldInv'
  BY <1>1 DEF CliSets, workerVars
<1>2. ASSUME NEW w \in Workers, NEW k \in Kinds, TerminalStarts(w, k) PROVE HoldInv'
  BY <1>2, BoundsAssumption DEF TerminalStarts, scanVars, TypeInv, TypeOK
<1>3. CASE ActivityAges
  BY <1>3 DEF ActivityAges, workerVars
<1> QED BY <1>1, <1>2, <1>3 DEF Operator

\* A run passes the control check only when no hold is asked for.
LEMMA RunHold == ASSUME NEW w \in Workers, TypeInv, HoldInv, RunStep(w) PROVE HoldInv'
<1> USE BoundsAssumption DEF TypeInv, TypeOK, HoldInv, Hold, scanVars, workerVars, Goto
<1>1. CASE Boot(w)
  BY <1>1 DEF Boot
<1>2. CASE Precheck(w)
  BY <1>2 DEF Precheck
<1>3. CASE PrecheckFails(w)
  BY <1>3 DEF PrecheckFails
<1>4. CASE EnterPlanning(w)
  BY <1>4 DEF EnterPlanning
<1>5. CASE ScanStarted(w)
  BY <1>5 DEF ScanStarted
<1>6. CASE Prepare(w)
  BY <1>6 DEF Prepare
<1>7. CASE ControlCheck(w)
  BY <1>7 DEF ControlCheck
<1>8. CASE ResolveBegins(w)
  BY <1>8 DEF ResolveBegins
<1>9. CASE ResolveRuns(w)
  BY <1>9 DEF ResolveRuns, Counted
<1>10. CASE SkipTool(w)
  BY <1>10 DEF SkipTool
<1>11. CASE StartTool(w)
  BY <1>11 DEF StartTool, Counted, AtTool
<1>12. CASE Deduplicate(w)
  BY <1>12 DEF Deduplicate
<1>13. CASE ToolEnds(w)
  BY <1>13 DEF ToolEnds
<1>14. CASE AuthBlocks(w)
  BY <1>14 DEF AuthBlocks
<1>15. CASE EarlyReturn(w)
  BY <1>15 DEF EarlyReturn
<1>16. CASE Review(w)
  BY <1>16 DEF Review
<1>17. CASE Complete(w)
  BY <1>17 DEF Complete
<1>18. CASE CloseRow(w)
  BY <1>18 DEF CloseRow, ClosedStates
<1>19. CASE Exit(w)
  BY <1>19, EndsHold DEF Exit
<1>20. CASE Fail(w)
  BY <1>20, EndsHold DEF Fail
<1> QED BY <1>1, <1>2, <1>3, <1>4, <1>5, <1>6, <1>7, <1>8, <1>9, <1>10, <1>11, <1>12, <1>13, <1>14, <1>15, <1>16, <1>17, <1>18, <1>19, <1>20 DEF RunStep

\* A continuation counts, but as another kind of worker.
LEMMA CommandHold == ASSUME NEW w \in Workers, TypeInv, HoldInv, CommandStep(w) PROVE HoldInv'
<1> USE BoundsAssumption DEF TypeInv, TypeOK, HoldInv, Hold, scanVars, workerVars, Goto
<1>1. CASE ContinueBegins(w)
  BY <1>1 DEF ContinueBegins
<1>2. CASE ContinueRefused(w)
  BY <1>2, EndsHold DEF ContinueRefused
<1>3. CASE PhaseToolStarts(w)
  BY <1>3 DEF PhaseToolStarts, Counted
<1>4. CASE PhaseToolEnds(w)
  BY <1>4 DEF PhaseToolEnds
<1>5. CASE ContinueEnds(w)
  BY <1>5, EndsHold DEF ContinueEnds
<1>6. CASE StopForced(w)
  BY <1>6, EndsHold DEF StopForced
<1> QED BY <1>1, <1>2, <1>3, <1>4, <1>5, <1>6 DEF CommandStep

\* Heartbeats and accidents begin no tool.
LEMMA AccidentHold == ASSUME NEW w \in Workers, TypeInv, HoldInv, BeatStep(w) \/ Accident(w) PROVE HoldInv'
<1> USE BoundsAssumption DEF TypeInv, TypeOK, HoldInv, Hold, scanVars, workerVars, Goto
<1>1. CASE BeatReads(w)
  BY <1>1 DEF BeatReads
<1>2. CASE BeatWrites(w)
  BY <1>2 DEF BeatWrites
<1>3. CASE Raise(w)
  BY <1>3 DEF Raise, RunStates, ToolStates, ClosedStates
<1>4. CASE ArtifactRollback(w)
  BY <1>4 DEF ArtifactRollback
<1>5. CASE Kill(w)
  BY <1>5, EndsHold DEF Kill
<1>6. CASE BeatWakes(w)
  BY <1>6 DEF BeatWakes
<1> QED BY <1>1, <1>2, <1>3, <1>4, <1>5, <1>6 DEF BeatStep, Accident

\* The invariant holds in every state of every run.
LEMMA AlwaysHolds == Spec => []HoldInv
<1>1. Init => HoldInv
  BY BoundsAssumption DEF Init, HoldInv
<1>2. ASSUME TypeInv, HoldInv, [Next]_vars PROVE HoldInv'
  <2>1. CASE Dashboard
    BY <1>2, <2>1, DashboardHold
  <2>2. CASE Operator
    BY <1>2, <2>2, OperatorHold
  <2>3. CASE \E w \in Workers : WorkerStep(w) \/ Accident(w)
    BY <1>2, <2>3, RunHold, CommandHold, AccidentHold DEF WorkerStep
  <2>4. CASE UNCHANGED vars
    BY <1>2, <2>4 DEF vars, scanVars, tableVars, workerVars, HoldInv, Hold
  <2> QED BY <1>2, <2>1, <2>2, <2>3, <2>4 DEF Next
<1> QED BY TypeInvariant, <1>1, <1>2, PTL DEF Spec

\* Whatever the operator, the command line, concurrent requests, heartbeats and
\* accidents do to the status column, a run-existing worker begins at most
\* MaxPrereqs + 1 tools after a dashboard pause or stop is committed
\* (HoldBound): the prerequisites of the tool it had been let through the
\* control check for, and that tool.
THEOREM HoldIsHonoured == Spec => []HoldBound
<1>1. HoldInv => HoldBound
  BY DEF HoldInv, HoldBound
<1> QED BY AlwaysHolds, <1>1, PTL

-------------------------------------------------------------------------------
(***************************************************************************)
(* Tools are begun with a permit                                           *)
(***************************************************************************)
\* What one worker may do to its permit and its count while the flags stay as
\* they are: nothing, give up permits, use one, get one while there is no hold,
\* or end.
PermitMove(w) ==
    \/ Permit(w)' = Permit(w) /\ Begun(w)' = Begun(w)
    \/ Permit(w)' < Permit(w) /\ Begun(w)' = Begun(w)
    \/ Permit(w)' < Permit(w) /\ Begun(w)' = IF Hold THEN Begun(w) + 1 ELSE 0
    \/ ~Hold /\ Permit(w)' = MaxPrereqs + 1 /\ Begun(w)' = Begun(w)
    \/ Permit(w)' = 0 /\ Begun(w)' = 0

\* The other workers, and what the requests write, stay as they are.
Apart(w) ==
    /\ UNCHANGED <<pauseReq, stopReq>>
    /\ \A v \in Workers \ {w} : /\ pc'[v] = pc[v] /\ kind'[v] = kind[v]
                                /\ prereq'[v] = prereq[v] /\ afterHold'[v] = afterHold[v]

\* A step that leaves the flags and every worker's permit and count is none of
\* the permits' business.
LEMMA PermitsRest ==
    ASSUME Hold' = Hold, \A v \in Workers : Permit(v)' = Permit(v) /\ Begun(v)' = Begun(v)
    PROVE  [Permits!Next]_(Permits!vars)
<1>1. /\ [v \in Workers |-> Permit(v)]' = [v \in Workers |-> Permit(v)]
      /\ [v \in Workers |-> Begun(v)]' = [v \in Workers |-> Begun(v)]
  OBVIOUS
<1> QED BY <1>1 DEF Permits!vars

\* A worker's move is a step of the permits, or none.
LEMMA PermitMoves ==
    ASSUME TypeInv, TypeInv', NEW w \in Workers, Apart(w), PermitMove(w)
    PROVE  [Permits!Next]_(Permits!vars)
<1> DEFINE p == [v \in Workers |-> Permit(v)]
           b == [v \in Workers |-> Begun(v)]
           n == Permit(w)'
           c == Begun(w)'
<1>1. \A v \in Workers \ {w} : Permit(v)' = Permit(v) /\ Begun(v)' = Begun(v)
  BY DEF Apart, Permit, Begun
<1>2. p' = [p EXCEPT ![w] = n] /\ b' = [b EXCEPT ![w] = c] /\ p[w] = Permit(w) /\ b[w] = Begun(w)
  BY <1>1
<1>3. n \in 0..(MaxPrereqs + 1)
  BY BoundsAssumption DEF TypeInv, TypeOK, Permit
<1>4. Hold' = Hold
  BY DEF Apart, Hold
<1>5. CASE n = Permit(w) /\ c = Begun(w)
  BY <1>1, <1>4, <1>5, PermitsRest
<1>6. CASE n < Permit(w) /\ c = Begun(w)
  <2>1. b' = b
    BY <1>2, <1>6
  <2>2. Permits!GiveUp(w, n)
    BY <1>2, <1>4, <1>6, <2>1 DEF Permits!GiveUp
  <2> QED BY <1>3, <2>2 DEF Permits!Next
<1>7. CASE n < Permit(w) /\ c = IF Hold THEN Begun(w) + 1 ELSE 0
  <2>1. Permits!Begin(w, n)
    BY <1>2, <1>4, <1>7 DEF Permits!Begin
  <2> QED BY <1>3, <2>1 DEF Permits!Next
<1>8. CASE ~Hold /\ n = MaxPrereqs + 1 /\ c = Begun(w)
  <2>1. b' = b
    BY <1>2, <1>8
  <2>2. Permits!Grant(w)
    BY <1>2, <1>4, <1>8, <2>1 DEF Permits!Grant
  <2> QED BY <2>2 DEF Permits!Next
<1>9. CASE n = 0 /\ c = 0
  <2>1. Permits!End(w)
    BY <1>2, <1>4, <1>9 DEF Permits!End
  <2> QED BY <2>1 DEF Permits!Next
<1> QED BY <1>5, <1>6, <1>7, <1>8, <1>9 DEF PermitMove

\* A process that ends takes its permit and its count with it.
LEMMA EndsPermit ==
    ASSUME NEW w \in Workers, TypeInv, Ends(w), UNCHANGED <<pauseReq, stopReq, kind>>
    PROVE  Apart(w) /\ PermitMove(w)
<1>1. \A v \in Workers \ {w} : pc'[v] = pc[v] /\ prereq'[v] = prereq[v] /\ afterHold'[v] = afterHold[v]
  BY DEF Ends, TypeInv, TypeOK
<1>2. pc'[w] \in {"gone", "zombie"} /\ afterHold'[w] = 0
  BY DEF Ends, AfterDeath, TypeInv, TypeOK
<1> QED BY <1>1, <1>2 DEF Apart, PermitMove, Permit, Begun

\* A run gets a permit at the control check, uses it up with the prerequisites
\* of its tool and the tool, and gives up what it does not use.
LEMMA RunPermits ==
    ASSUME NEW w \in Workers, TypeInv, RunStep(w)
    PROVE  Apart(w) /\ PermitMove(w)
<1> USE BoundsAssumption DEF TypeInv, TypeOK, Apart, PermitMove, Permit, Begun, Hold, Goto,
        scanVars, workerVars
<1>1. CASE Boot(w)
  BY <1>1 DEF Boot
<1>2. CASE Precheck(w)
  BY <1>2 DEF Precheck
<1>3. CASE PrecheckFails(w)
  BY <1>3 DEF PrecheckFails
<1>4. CASE EnterPlanning(w)
  BY <1>4 DEF EnterPlanning
<1>5. CASE ScanStarted(w)
  BY <1>5 DEF ScanStarted
<1>6. CASE Prepare(w)
  BY <1>6 DEF Prepare
<1>7. CASE ControlCheck(w)
  BY <1>7 DEF ControlCheck
<1>8. CASE ResolveBegins(w)
  BY <1>8 DEF ResolveBegins
<1>9. CASE ResolveRuns(w)
  BY <1>9 DEF ResolveRuns, Counted
<1>10. CASE SkipTool(w)
  BY <1>10 DEF SkipTool, AtTool
<1>11. CASE StartTool(w)
  BY <1>11 DEF StartTool, Counted, AtTool
<1>12. CASE Deduplicate(w)
  BY <1>12 DEF Deduplicate, AtTool
<1>13. CASE ToolEnds(w)
  BY <1>13 DEF ToolEnds
<1>14. CASE AuthBlocks(w)
  BY <1>14 DEF AuthBlocks
<1>15. CASE EarlyReturn(w)
  BY <1>15 DEF EarlyReturn
<1>16. CASE Review(w)
  BY <1>16 DEF Review
<1>17. CASE Complete(w)
  BY <1>17 DEF Complete
<1>18. CASE CloseRow(w)
  BY <1>18 DEF CloseRow, ClosedStates
<1>19. CASE Exit(w)
  BY <1>19, EndsPermit DEF Exit
<1>20. CASE Fail(w)
  BY <1>20, EndsPermit DEF Fail
<1> QED BY <1>1, <1>2, <1>3, <1>4, <1>5, <1>6, <1>7, <1>8, <1>9, <1>10, <1>11, <1>12, <1>13, <1>14, <1>15, <1>16, <1>17, <1>18, <1>19, <1>20 DEF RunStep

\* The other commands have no permits: a continuation's tools are not counted.
LEMMA CommandPermits ==
    ASSUME NEW w \in Workers, TypeInv, HoldInv, CommandStep(w)
    PROVE  Apart(w) /\ PermitMove(w)
<1> USE BoundsAssumption DEF TypeInv, TypeOK, Apart, PermitMove, Permit, Begun, Hold, Goto,
        scanVars, workerVars
<1>1. CASE ContinueBegins(w)
  BY <1>1 DEF ContinueBegins
<1>2. CASE ContinueRefused(w)
  BY <1>2, EndsPermit DEF ContinueRefused
<1>3. CASE PhaseToolStarts(w)
  BY <1>3 DEF PhaseToolStarts, Counted, HoldInv
<1>4. CASE PhaseToolEnds(w)
  BY <1>4 DEF PhaseToolEnds
<1>5. CASE ContinueEnds(w)
  BY <1>5, EndsPermit DEF ContinueEnds
<1>6. CASE StopForced(w)
  BY <1>6, EndsPermit DEF StopForced
<1> QED BY <1>1, <1>2, <1>3, <1>4, <1>5, <1>6 DEF CommandStep

\* Heartbeats and accidents begin nothing; an exception gives up what is left.
LEMMA AccidentPermits ==
    ASSUME NEW w \in Workers, TypeInv, BeatStep(w) \/ Accident(w)
    PROVE  Apart(w) /\ PermitMove(w)
<1> USE BoundsAssumption DEF TypeInv, TypeOK, Apart, PermitMove, Permit, Begun, Hold, Goto,
        scanVars, workerVars
<1>1. CASE BeatReads(w)
  BY <1>1 DEF BeatReads
<1>2. CASE BeatWrites(w)
  BY <1>2 DEF BeatWrites
<1>3. CASE Raise(w)
  BY <1>3 DEF Raise
<1>4. CASE ArtifactRollback(w)
  BY <1>4 DEF ArtifactRollback
<1>5. CASE Kill(w)
  BY <1>5, EndsPermit DEF Kill
<1>6. CASE BeatWakes(w)
  BY <1>6 DEF BeatWakes
<1> QED BY <1>1, <1>2, <1>3, <1>4, <1>5, <1>6 DEF BeatStep, Accident

\* A request that writes the row asks for a hold, or lifts it and starts the
\* count anew, or leaves it as it was.
LEMMA WritePermits ==
    ASSUME TypeInv, NEW h \in Handlers, Write(h)
    PROVE  [Permits!Next]_(Permits!vars)
<1> DEFINE r == req[h]
           clears == r.act = "resume" /\ r.seenPause
           p == [v \in Workers |-> Permit(v)]
           b == [v \in Workers |-> Begun(v)]
<1>1. UNCHANGED <<pc, kind, prereq>> /\ p' = p
  BY DEF Write, Permit
<1>2. afterHold' = IF clears /\ ~stopReq THEN [w \in Workers |-> 0] ELSE afterHold
  BY DEF Write
<1>3. CASE clears /\ ~stopReq
  <2>1. b' = [v \in Workers |-> 0]
    BY <1>1, <1>2, <1>3 DEF Begun
  <2>2. Hold' = FALSE
    BY <1>3 DEF Write, Hold
  <2>3. Permits!Lift
    BY <1>1, <2>1, <2>2 DEF Permits!Lift
  <2> QED BY <2>3 DEF Permits!Next
<1>4. CASE ~(clears /\ ~stopReq)
  <2>1. b' = b
    BY <1>1, <1>2, <1>4 DEF Begun
  <2>2. Hold' = Hold \/ Hold' = TRUE
    BY <1>4 DEF Write, Hold, TypeInv, TypeOK
  <2>3. CASE Hold' = Hold
    BY <1>1, <2>1, <2>3 DEF Permits!vars
  <2>4. CASE Hold' = TRUE
    <3>1. Permits!Ask
      BY <1>1, <2>1, <2>4 DEF Permits!Ask
    <3> QED BY <3>1 DEF Permits!Next
  <2> QED BY <2>2, <2>3, <2>4
<1> QED BY <1>3, <1>4

\* The other steps of the dashboard and the operator's concern processes that
\* hold no permit, or a child that is terminated.
LEMMA OutsidePermits ==
    ASSUME TypeInv, TypeInv', HoldInv, Dashboard \/ Operator
    PROVE  [Permits!Next]_(Permits!vars)
<1> USE DEF TypeInv, TypeOK, Permit, Begun, Hold, scanVars, workerVars
<1>1. ASSUME NEW h \in Handlers, NEW act \in Actions \ {"start"},
             Receive(h, act) \/ AlreadyRunning(h) \/ NoneRunning(h) \/ Record(h)
      PROVE  [Permits!Next]_(Permits!vars)
  BY <1>1, PermitsRest DEF Receive, AlreadyRunning, NoneRunning, Record
<1>2. ASSUME NEW h \in Handlers, NEW w \in Workers, Spawn(h, w) PROVE [Permits!Next]_(Permits!vars)
  <2>1. \A v \in Workers : pc'[v] = pc[v] \/ (pc[v] \in {"none", "zombie"} /\ pc'[v] \in {"boot", "gone"})
    BY <1>2 DEF Spawn
  <2>2. afterHold[w] = 0 /\ \A v \in Workers \ {w} : kind'[v] = kind[v]
    BY <1>2 DEF Spawn, HoldInv
  <2>3. UNCHANGED <<pauseReq, stopReq, prereq, afterHold>>
    BY <1>2 DEF Spawn
  <2> QED BY <2>1, <2>2, <2>3, PermitsRest
<1>3. ASSUME NEW h \in Handlers, StartFails(h) PROVE [Permits!Next]_(Permits!vars)
  <2>1. CASE req[h].at = "record" /\ Executing(req[h].worker)
    <3>1. req[h].worker \in Workers /\ Ends(req[h].worker) /\ UNCHANGED <<pauseReq, stopReq, kind>>
      BY <1>3, <2>1 DEF StartFails
    <3> QED BY <3>1, EndsPermit, PermitMoves
  <2>2. CASE ~(req[h].at = "record" /\ Executing(req[h].worker))
    BY <1>3, <2>2, PermitsRest DEF StartFails
  <2> QED BY <2>1, <2>2
<1>4. CASE Poll
  BY <1>4, PermitsRest DEF Poll
<1>5. CASE ServerRestarts \/ Reap
  <2>1. \A v \in Workers : pc'[v] = pc[v] \/ (pc[v] = "zombie" /\ pc'[v] = "gone")
    BY <1>5 DEF ServerRestarts, Reap
  <2>2. UNCHANGED <<pauseReq, stopReq, kind, prereq, afterHold>>
    BY <1>5 DEF ServerRestarts, Reap
  <2> QED BY <2>1, <2>2, PermitsRest
<1>6. ASSUME NEW s \in Statuses, CliSets(s) PROVE [Permits!Next]_(Permits!vars)
  BY <1>6, PermitsRest DEF CliSets
<1>7. ASSUME NEW w \in Workers, NEW k \in Kinds, TerminalStarts(w, k) PROVE [Permits!Next]_(Permits!vars)
  BY <1>7, PermitsRest DEF TerminalStarts, HoldInv
<1>8. CASE ActivityAges
  BY <1>8, PermitsRest DEF ActivityAges
<1>9. "stop" \in Actions \ {"start"}
  BY DEF Actions
<1> HIDE DEF TypeInv, TypeOK, Permit, Begun, Hold
<1>10. ASSUME NEW h \in Handlers, Write(h) PROVE [Permits!Next]_(Permits!vars)
  BY <1>10, WritePermits
<1> QED BY <1>1, <1>2, <1>3, <1>4, <1>5, <1>6, <1>7, <1>8, <1>9, <1>10 DEF Dashboard, Operator

\* For any number of workers and tools, and whatever hazards strike, runs begin
\* tools as HoldPermits has it (ToolsArePermitted): each step that begins one
\* uses the permit of a control check that saw no hold.
THEOREM ToolsHavePermits == Spec => ToolsArePermitted
<1>1. Init => Permits!Init
  BY DEF Init, Permits!Init, Hold, Permit, Begun
<1>2. ASSUME TypeInv, TypeInv', HoldInv, [Next]_vars PROVE [Permits!Next]_(Permits!vars)
  <2>1. CASE Dashboard \/ Operator
    BY <1>2, <2>1, OutsidePermits
  <2>2. CASE \E w \in Workers : WorkerStep(w) \/ Accident(w)
    BY <1>2, <2>2, RunPermits, CommandPermits, AccidentPermits, PermitMoves DEF WorkerStep
  <2>3. CASE UNCHANGED vars
    BY <2>3, PermitsRest DEF vars, scanVars, workerVars, Hold, Permit, Begun
  <2> QED BY <1>2, <2>1, <2>2, <2>3 DEF Next
<1> QED BY TypeInvariant, AlwaysHolds, <1>1, <1>2, PTL DEF Spec, ToolsArePermitted, Permits!Spec

\* What HoldPermits promises: under a hold a run begins no more tools than one
\* permit is good for.  Of this program that says HoldBound, which therefore
\* needs nothing of the program but that it begins tools with permits.
THEOREM OnePermitAtMost == ToolsArePermitted => [](Permits!WithinOnePermit /\ HoldBound)
<1> DEFINE p == [v \in Workers |-> Permit(v)]
           b == [v \in Workers |-> Begun(v)]
           T == p \in [Workers -> Nat] /\ b \in [Workers -> Nat]
           I == Permits!WithinOnePermit
<1>1. Permits!Init => T /\ I
  BY BoundsAssumption DEF Permits!Init, Permits!WithinOnePermit
<1>2. ASSUME T, I, [Permits!Next]_(Permits!vars) PROVE T' /\ I'
  <2> DEFINE Limit == MaxPrereqs + 1
  <2>1. Limit \in Nat /\ \A v \in Workers : b[v] + p[v] <= Limit /\ (~Hold => b[v] = 0)
    BY <1>2, BoundsAssumption DEF Permits!WithinOnePermit
  <2>2. CASE (Permits!Ask \/ Permits!Lift) \/ UNCHANGED Permits!vars
    <3>1. /\ p' = p
          /\ b' = b \/ b' = [v \in Workers |-> 0]
          /\ ~Hold' => (b' = b /\ ~Hold) \/ b' = [v \in Workers |-> 0]
      BY <2>2 DEF Permits!Ask, Permits!Lift, Permits!vars
    <3> HIDE DEF p, b
    <3>2. T' /\ \A v \in Workers : b'[v] + p'[v] <= Limit /\ (~Hold' => b'[v] = 0)
      BY <1>2, <2>1, <3>1
    <3> QED BY <3>2 DEF Permits!WithinOnePermit, p, b
  <2>3. ASSUME NEW r \in Workers, NEW n \in 0..Limit,
               Permits!Grant(r) \/ Permits!End(r) \/ Permits!GiveUp(r, n) \/ Permits!Begin(r, n)
        PROVE  T' /\ I'
    <3>1. /\ Hold' = Hold
          /\ \/ p' = [p EXCEPT ![r] = Limit] /\ b' = b /\ ~Hold
             \/ p' = [p EXCEPT ![r] = 0] /\ b' = [b EXCEPT ![r] = 0]
             \/ p' = [p EXCEPT ![r] = n] /\ n < p[r] /\ b' = b
             \/ p' = [p EXCEPT ![r] = n] /\ n < p[r] /\ b' = [b EXCEPT ![r] = IF Hold THEN @ + 1 ELSE 0]
      BY <2>3 DEF Permits!Grant, Permits!End, Permits!GiveUp, Permits!Begin
    <3> HIDE DEF p, b
    <3>2. T' /\ \A v \in Workers : b'[v] + p'[v] <= Limit /\ (~Hold' => b'[v] = 0)
      BY <1>2, <2>1, <3>1
    <3> QED BY <3>2 DEF Permits!WithinOnePermit, p, b
  <2>4. 0 \in 0..Limit
    BY <2>1
  <2> HIDE DEF T, I
  <2> QED BY <1>2, <2>2, <2>3, <2>4 DEF Permits!Next
<1>3. T /\ I => Permits!WithinOnePermit /\ HoldBound
  <2> SUFFICES ASSUME T, I, NEW w \in Workers, kind[w] = "run" PROVE afterHold[w] <= MaxPrereqs + 1
    BY DEF HoldBound
  <2>1. p[w] \in Nat /\ b[w] \in Nat /\ b[w] + p[w] <= MaxPrereqs + 1
    BY DEF Permits!WithinOnePermit
  <2>2. b[w] = afterHold[w]
    BY DEF Begun
  <2> HIDE DEF p, b
  <2> QED BY <2>1, <2>2, BoundsAssumption
<1> QED BY <1>1, <1>2, <1>3, PTL DEF ToolsArePermitted, Permits!Spec

-------------------------------------------------------------------------------
(***************************************************************************)
(* One worker at a time                                                    *)
(***************************************************************************)
\* The worker the process table shows as the latest and live one.
Tracked(w) == rows # <<>> /\ Latest = w /\ row[w] = "started"

\* A tester is the child of the request in flight or the latest tracked worker,
\* and a request past its lookup has found none.
TesterInv ==
    /\ \A w \in Workers : Testing(w) =>
         Tracked(w) \/ \E h \in Handlers : req[h].at = "record" /\ req[h].worker = w
    /\ \A h \in Handlers : req[h].at = "spawn" => \A w \in Workers : ~Testing(w)
    /\ \A h \in Handlers : req[h].at = "record" =>
         \A w \in Workers : Testing(w) => w = req[h].worker

\* What a step of worker w may do to what the invariant speaks of: it does not
\* make anybody a tester, and changes no row but its own, which it leaves alone
\* while it goes on testing.
LeavesOthers(w) ==
    /\ rows' = rows /\ req' = req
    /\ \A v \in Workers : pc'[v] \in LiveStates \ (ClosedStates \cup {"failing"}) => Testing(v)
    /\ \A v \in Workers :
         pc'[v] \in LiveStates \ (ClosedStates \cup {"failing"}) => row'[v] = row[v]

\* A run leaves the others alone.
LEMMA RunLeaves ==
    ASSUME NEW w \in Workers, TypeInv, RunStep(w)
    PROVE  LeavesOthers(w)
<1> USE DEF TypeInv, TypeOK, LeavesOthers, Testing, LiveStates, RunStates, ToolStates, ClosedStates, Goto,
        scanVars, tableVars, workerVars
<1>1. CASE Boot(w)
  BY <1>1 DEF Boot
<1>2. CASE Precheck(w)
  BY <1>2 DEF Precheck
<1>3. CASE PrecheckFails(w)
  BY <1>3 DEF PrecheckFails
<1>4. CASE EnterPlanning(w)
  BY <1>4 DEF EnterPlanning
<1>5. CASE ScanStarted(w)
  BY <1>5 DEF ScanStarted
<1>6. CASE Prepare(w)
  BY <1>6 DEF Prepare
<1>7. CASE ControlCheck(w)
  BY <1>7 DEF ControlCheck
<1>8. CASE ResolveBegins(w)
  BY <1>8 DEF ResolveBegins
<1>9. CASE ResolveRuns(w)
  BY <1>9 DEF ResolveRuns
<1>10. CASE SkipTool(w)
  BY <1>10 DEF SkipTool, AtTool
<1>11. CASE StartTool(w)
  BY <1>11 DEF StartTool, AtTool
<1>12. CASE Deduplicate(w)
  BY <1>12 DEF Deduplicate, AtTool
<1>13. CASE ToolEnds(w)
  BY <1>13 DEF ToolEnds
<1>14. CASE AuthBlocks(w)
  BY <1>14 DEF AuthBlocks
<1>15. CASE EarlyReturn(w)
  BY <1>15 DEF EarlyReturn
<1>16. CASE Review(w)
  BY <1>16 DEF Review
<1>17. CASE Complete(w)
  BY <1>17 DEF Complete
<1>18. CASE CloseRow(w)
  BY <1>18 DEF CloseRow
<1>19. CASE Exit(w)
  BY <1>19 DEF Exit, Ends, AfterDeath
<1>20. CASE Fail(w)
  BY <1>20 DEF Fail, Ends, AfterDeath
<1> QED BY <1>1, <1>2, <1>3, <1>4, <1>5, <1>6, <1>7, <1>8, <1>9, <1>10, <1>11, <1>12, <1>13, <1>14, <1>15, <1>16, <1>17, <1>18, <1>19, <1>20 DEF RunStep

\* So does a command.
LEMMA CommandLeaves ==
    ASSUME NEW w \in Workers, TypeInv, CommandStep(w)
    PROVE  LeavesOthers(w)
<1> USE DEF TypeInv, TypeOK, LeavesOthers, Testing, LiveStates, RunStates, ToolStates, ClosedStates, Goto,
        scanVars, tableVars, workerVars
<1>1. CASE ContinueBegins(w)
  BY <1>1 DEF ContinueBegins
<1>2. CASE ContinueRefused(w)
  BY <1>2 DEF ContinueRefused, Ends, AfterDeath
<1>3. CASE PhaseToolStarts(w)
  BY <1>3 DEF PhaseToolStarts
<1>4. CASE PhaseToolEnds(w)
  BY <1>4 DEF PhaseToolEnds
<1>5. CASE ContinueEnds(w)
  BY <1>5 DEF ContinueEnds, Ends, AfterDeath
<1>6. CASE StopForced(w)
  BY <1>6 DEF StopForced, Ends, AfterDeath
<1> QED BY <1>1, <1>2, <1>3, <1>4, <1>5, <1>6 DEF CommandStep

\* So do heartbeats and accidents.
LEMMA AccidentLeaves ==
    ASSUME NEW w \in Workers, TypeInv, BeatStep(w) \/ Accident(w)
    PROVE  LeavesOthers(w)
<1> USE DEF TypeInv, TypeOK, LeavesOthers, Testing, LiveStates, RunStates, ToolStates, ClosedStates, Goto,
        scanVars, tableVars, workerVars
<1>1. CASE BeatReads(w)
  BY <1>1 DEF BeatReads
<1>2. CASE BeatWrites(w)
  BY <1>2 DEF BeatWrites
<1>3. CASE Raise(w)
  BY <1>3 DEF Raise
<1>4. CASE ArtifactRollback(w)
  BY <1>4 DEF ArtifactRollback
<1>5. CASE Kill(w)
  BY <1>5 DEF Kill, Ends, AfterDeath
<1>6. CASE BeatWakes(w)
  BY <1>6 DEF BeatWakes
<1> QED BY <1>1, <1>2, <1>3, <1>4, <1>5, <1>6 DEF BeatStep, Accident

\* A worker's step keeps the invariant.
LEMMA LeavesTester ==
    ASSUME NEW w \in Workers, TypeInv, TesterInv, LeavesOthers(w)
    PROVE  TesterInv'
BY DEF TesterInv, LeavesOthers, Testing, Tracked, Latest

\* A tester's row is never the one a snapshot marks stale.
LEMMA MarkSpares ==
    ASSUME TypeInv, MarkStaleRow, NEW w \in Workers, Testing(w)
    PROVE  row'[w] = row[w]
BY DEF MarkStaleRow, Stale, ProcessActive, PidAlive, Testing, TypeInv, TypeOK

\* A lookup that finds none has seen the latest row.
LEMMA LookupSees ==
    ASSUME TypeInv, ~FoundActive, NEW w \in Workers, Tracked(w)
    PROVE  ~Testing(w)
<1>1. Len(rows) \in DOMAIN rows /\ Len(rows) + RecentRows > Len(rows)
  BY LookupAssumption DEF Tracked, TypeInv, TypeOK
<1>2. w \in Recent
  BY <1>1 DEF Recent, Tracked, Latest
<1> QED BY <1>2 DEF FoundActive, StartedAlive, Tracked, PidAlive, Testing

\* A dashboard that handles one request at a time keeps the invariant.
LEMMA DashboardTester ==
    ASSUME TypeInv, TesterInv, Dashboard, \A g, h \in Handlers : g = h, "restart" \notin Hazards
    PROVE  TesterInv'
<1> USE DEF TesterInv
<1>0. ASSUME rows' = rows, pc' = pc, MarkStaleRow \/ row' = row,
             \A h \in Handlers : req'[h].at \notin {"spawn", "record"} \/ req'[h] = req[h]
      PROVE  (\A h \in Handlers : req[h].at = "record" => req'[h] = req[h]) => TesterInv'
  <2>1. \A w \in Workers : Testing(w) => row'[w] = row[w]
    BY <1>0, MarkSpares
  <2>2. \A w \in Workers : Testing(w)' <=> Testing(w)
    BY <1>0 DEF Testing
  <2> QED BY <1>0, <2>1, <2>2 DEF Tracked, Latest
<1>1. ASSUME NEW h \in Handlers, NEW act \in Actions \ {"start"}, Receive(h, act) PROVE TesterInv'
  BY <1>1, <1>0 DEF Receive, workerVars, Idle, TypeInv, TypeOK
<1>2. ASSUME NEW h \in Handlers, Write(h) PROVE TesterInv'
  BY <1>2, <1>0 DEF Write, tableVars, Idle, TypeInv, TypeOK
<1>3. ASSUME NEW h \in Handlers, AlreadyRunning(h) PROVE TesterInv'
  BY <1>3, <1>0 DEF AlreadyRunning, tableVars, workerVars, Idle, TypeInv, TypeOK
<1>4. ASSUME NEW h \in Handlers, NoneRunning(h) PROVE TesterInv'
  <2>1. \A g \in Handlers : req[g].at = "lookup"
    BY <1>4 DEF NoneRunning
  <2>2. \A w \in Workers : ~Testing(w)
    BY <1>4, <2>1, LookupSees DEF NoneRunning
  <2>3. \A w \in Workers : ~Testing(w)'
    BY <1>4, <2>2 DEF NoneRunning, workerVars, Testing
  <2> QED BY <2>3
<1>5. ASSUME NEW h \in Handlers, NEW w \in Workers, Spawn(h, w) PROVE TesterInv'
  <2>1. \A v \in Workers : ~Testing(v)
    BY <1>5 DEF Spawn
  <2>2. \A v \in Workers : Testing(v)' => v = w
    BY <1>5, <2>1 DEF Spawn, Testing, LiveStates, RunStates, ToolStates, ClosedStates, TypeInv, TypeOK
  <2>3. req'[h].at = "record" /\ req'[h].worker = w /\ \A g \in Handlers : g = h
    BY <1>5 DEF Spawn, Idle, TypeInv, TypeOK
  <2> QED BY <2>2, <2>3
<1>6. ASSUME NEW h \in Handlers, Record(h) PROVE TesterInv'
  <2>1. \A v \in Workers : Testing(v)' => v = req[h].worker
    BY <1>6 DEF Record, workerVars, Testing
  <2>2. req[h].worker \in Workers
    BY <1>6 DEF Record, TypeInv, TypeOK
  <2>3. \A v \in Workers : Testing(v)' => Tracked(v)'
    <3>1. rows \in Seq(Workers) /\ row \in [Workers -> RowStatuses]
      BY DEF TypeInv, TypeOK
    <3>2. rows' = Append(rows, req[h].worker) /\ row' = [row EXCEPT ![req[h].worker] = "started"]
      BY <1>6 DEF Record
    <3>3. rows' # <<>> /\ rows'[Len(rows')] = req[h].worker
      <4> DEFINE wk == req[h].worker
      <4> HIDE DEF wk
      <4>1. wk \in Workers /\ rows' = Append(rows, wk)
        BY <2>2, <3>2 DEF wk
      <4>2. rows' # <<>> /\ rows'[Len(rows')] = wk
        BY <3>1, <4>1
      <4> QED BY <4>2 DEF wk
    <3>4. row'[req[h].worker] = "started"
      BY <2>2, <3>1, <3>2
    <3> QED BY <2>1, <3>3, <3>4 DEF Tracked, Latest
  <2>4. \A g \in Handlers : req'[g].at = "idle"
    BY <1>6 DEF Record, Idle, TypeInv, TypeOK
  <2>5. \A v, w \in Workers : Testing(v)' /\ Testing(w)' => v = w
    BY <2>1
  <2> QED BY <2>3, <2>4, <2>5
<1>7. ASSUME NEW h \in Handlers, StartFails(h) PROVE TesterInv'
  <2>1. \A v \in Workers : ~Testing(v)'
    <3>1. CASE req[h].at = "spawn"
      BY <1>7, <3>1 DEF StartFails, Testing
    <3>2. CASE req[h].at = "record" /\ Executing(req[h].worker)
      <4>1. req[h].worker \in Workers
        BY <3>2 DEF TypeInv, TypeOK
      <4>2. pc' = [pc EXCEPT ![req[h].worker] = AfterDeath(req[h].worker)]
        BY <1>7, <3>2 DEF StartFails, Ends
      <4>3. pc'[req[h].worker] \in {"gone", "zombie"}
        BY <4>1, <4>2 DEF AfterDeath, TypeInv, TypeOK
      <4>4. \A v \in Workers : v # req[h].worker => pc'[v] = pc[v]
        BY <4>2 DEF TypeInv, TypeOK
      <4>5. \A v \in Workers : Testing(v) => v = req[h].worker
        BY <3>2
      <4> QED BY <4>3, <4>4, <4>5 DEF Testing, LiveStates, RunStates, ToolStates, ClosedStates
    <3>3. CASE req[h].at = "record" /\ ~Executing(req[h].worker)
      BY <1>7, <3>3 DEF StartFails, Executing, Testing
    <3> QED BY <1>7, <3>1, <3>2, <3>3 DEF StartFails
  <2>2. \A g \in Handlers : req'[g].at = "idle"
    BY <1>7 DEF StartFails, Idle, TypeInv, TypeOK
  <2> QED BY <2>1, <2>2
<1>8. CASE Poll
  BY <1>8, <1>0 DEF Poll, workerVars
<1>9. CASE ServerRestarts
  BY <1>9 DEF ServerRestarts
<1>10. CASE Reap
  <2>1. \A v \in Workers : Testing(v)' <=> Testing(v)
    BY <1>10 DEF Reap, Testing, LiveStates, RunStates, ToolStates, ClosedStates, TypeInv, TypeOK
  <2> QED BY <1>10, <2>1 DEF Reap, tableVars, Tracked, Latest
<1> QED BY <1>1, <1>2, <1>3, <1>4, <1>5, <1>6, <1>7, <1>8, <1>9, <1>10 DEF Dashboard

\* The command line starts no worker of its own.
LEMMA OperatorTester ==
    ASSUME TypeInv, TesterInv, Operator, "terminal" \notin Hazards
    PROVE  TesterInv'
BY DEF Operator, CliSets, TerminalStarts, ActivityAges, tableVars, workerVars,
       TesterInv, Testing, Tracked, Latest

\* If the dashboard handles one request at a time, never dies, and is the only
\* one to start workers, at most one worker of the scan tests the target
\* (OneTester), however many were started before it, whatever the snapshots mark
\* stale and however few process rows a lookup reads.
THEOREM OneTesterAtATime ==
    ASSUME \A g, h \in Handlers : g = h, "restart" \notin Hazards, "terminal" \notin Hazards
    PROVE  Spec => []OneTester
<1>1. Init => TesterInv
  BY DEF Init, TesterInv, Testing, LiveStates, RunStates, ToolStates, ClosedStates, Idle
<1>2. ASSUME TypeInv, TesterInv, [Next]_vars PROVE TesterInv'
  <2>1. CASE Dashboard
    BY <1>2, <2>1, DashboardTester
  <2>2. CASE Operator
    BY <1>2, <2>2, OperatorTester
  <2>3. CASE \E w \in Workers : WorkerStep(w) \/ Accident(w)
    BY <1>2, <2>3, RunLeaves, CommandLeaves, AccidentLeaves, LeavesTester DEF WorkerStep
  <2>4. CASE UNCHANGED vars
    BY <1>2, <2>4 DEF vars, tableVars, workerVars, TesterInv, Testing, Tracked, Latest
  <2> QED BY <1>2, <2>1, <2>2, <2>3, <2>4 DEF Next
<1>3. TesterInv => OneTester
  BY DEF TesterInv, OneTester, Tracked
<1> QED BY TypeInvariant, <1>1, <1>2, <1>3, PTL DEF Spec

-------------------------------------------------------------------------------
(***************************************************************************)
(* Heartbeats                                                              *)
(***************************************************************************)
\* Where a worker's tool, its evidence review or its phase's tool may beat.
Beating == {"resolve", "tool", "review", "phasetool"}

\* A heartbeat is awake only while its worker is at what the heartbeat is for.
BeatInv == \A w \in Workers : beat[w] # "off" => pc[w] \in Beating

\* What a step of worker w may do to heartbeats: nothing to those of others,
\* and none of its own is awake outside the places for it.
BeatsAlone(w) ==
    /\ \A v \in Workers \ {w} : pc'[v] = pc[v] /\ beat'[v] = beat[v]
    /\ beat'[w] # "off" => pc'[w] \in Beating

\* A run leaves a place of heartbeats only after it joined the heartbeat.
LEMMA RunBeats ==
    ASSUME NEW w \in Workers, TypeInv, BeatInv, RunStep(w), "latebeat" \notin Hazards
    PROVE  BeatsAlone(w)
<1> USE DEF TypeInv, TypeOK, BeatInv, BeatsAlone, Beating, BeatJoined, Goto, scanVars, tableVars, workerVars
<1>1. CASE Boot(w)
  BY <1>1 DEF Boot
<1>2. CASE Precheck(w)
  BY <1>2 DEF Precheck, EmitStarting, Assign
<1>3. CASE PrecheckFails(w)
  <2>1. pc[w] \notin Beating /\ pc' = [pc EXCEPT ![w] = "failing"] /\ beat' = beat
    BY <1>3 DEF PrecheckFails
  <2> QED BY <2>1
<1>4. CASE EnterPlanning(w)
  BY <1>4 DEF EnterPlanning, Assign
<1>5. CASE ScanStarted(w)
  BY <1>5 DEF ScanStarted, EmitStarting, Assign
<1>6. CASE Prepare(w)
  BY <1>6 DEF Prepare
<1>7. CASE ControlCheck(w)
  BY <1>7 DEF ControlCheck
<1>8. CASE ResolveBegins(w)
  BY <1>8 DEF ResolveBegins
<1>9. CASE ResolveRuns(w)
  BY <1>9 DEF ResolveRuns
<1>10. CASE SkipTool(w)
  BY <1>10 DEF SkipTool, AtTool
<1>11. CASE StartTool(w)
  BY <1>11 DEF StartTool, AtTool, EmitStarting, Assign
<1>12. CASE Deduplicate(w)
  BY <1>12 DEF Deduplicate, AtTool, EmitStarting, Assign
<1>13. CASE ToolEnds(w)
  BY <1>13 DEF ToolEnds
<1>14. CASE AuthBlocks(w)
  BY <1>14 DEF AuthBlocks, Assign
<1>15. CASE EarlyReturn(w)
  BY <1>15 DEF EarlyReturn
<1>16. CASE Review(w)
  BY <1>16 DEF Review, EmitStarting, Assign
<1>17. CASE Complete(w)
  BY <1>17 DEF Complete, Assign
<1>18. CASE CloseRow(w)
  <2>1. pc[w] \notin Beating /\ (\E s : pc' = [pc EXCEPT ![w] = s]) /\ beat' = beat
    BY <1>18 DEF CloseRow
  <2> QED BY <2>1
<1>19. CASE Exit(w)
  BY <1>19 DEF Exit, Ends, AfterDeath
<1>20. CASE Fail(w)
  BY <1>20 DEF Fail, Ends, AfterDeath
<1> QED BY <1>1, <1>2, <1>3, <1>4, <1>5, <1>6, <1>7, <1>8, <1>9, <1>10, <1>11, <1>12, <1>13, <1>14, <1>15, <1>16, <1>17, <1>18, <1>19, <1>20 DEF RunStep

\* So does a command.
LEMMA CommandBeats ==
    ASSUME NEW w \in Workers, TypeInv, BeatInv, CommandStep(w), "latebeat" \notin Hazards
    PROVE  BeatsAlone(w)
<1> USE DEF TypeInv, TypeOK, BeatInv, BeatsAlone, Beating, BeatJoined, Goto, scanVars, tableVars, workerVars
<1>1. CASE ContinueBegins(w)
  BY <1>1 DEF ContinueBegins
<1>2. CASE ContinueRefused(w)
  BY <1>2 DEF ContinueRefused, Ends, AfterDeath
<1>3. CASE PhaseToolStarts(w)
  BY <1>3 DEF PhaseToolStarts
<1>4. CASE PhaseToolEnds(w)
  BY <1>4 DEF PhaseToolEnds
<1>5. CASE ContinueEnds(w)
  BY <1>5 DEF ContinueEnds, Ends, AfterDeath
<1>6. CASE StopForced(w)
  BY <1>6 DEF StopForced, Ends, AfterDeath
<1> QED BY <1>1, <1>2, <1>3, <1>4, <1>5, <1>6 DEF CommandStep

\* So do the heartbeats themselves and the accidents.
LEMMA AccidentBeats ==
    ASSUME NEW w \in Workers, TypeInv, BeatInv, BeatStep(w) \/ Accident(w), "latebeat" \notin Hazards
    PROVE  BeatsAlone(w)
<1> USE DEF TypeInv, TypeOK, BeatInv, BeatsAlone, Beating, BeatJoined, Goto, scanVars, tableVars, workerVars
<1>1. CASE BeatReads(w)
  BY <1>1 DEF BeatReads
<1>2. CASE BeatWrites(w)
  BY <1>2 DEF BeatWrites
<1>3. CASE Raise(w)
  BY <1>3 DEF Raise
<1>4. CASE ArtifactRollback(w)
  BY <1>4 DEF ArtifactRollback
<1>5. CASE Kill(w)
  BY <1>5 DEF Kill, Ends, AfterDeath
<1>6. CASE BeatWakes(w)
  BY <1>6 DEF BeatWakes
<1> QED BY <1>1, <1>2, <1>3, <1>4, <1>5, <1>6 DEF BeatStep, Accident

\* Nobody but a worker touches a heartbeat; a process that is spawned has none,
\* and one that ends takes its own with it.
LEMMA OthersBeat ==
    ASSUME TypeInv, BeatInv, Dashboard \/ Operator
    PROVE  BeatInv'
<1> USE DEF TypeInv, TypeOK, BeatInv, Beating, scanVars, tableVars, workerVars
<1>1. ASSUME NEW h \in Handlers, NEW act \in Actions \ {"start"},
             Receive(h, act) \/ Write(h) \/ AlreadyRunning(h) \/ NoneRunning(h) \/ Record(h)
      PROVE  BeatInv'
  BY <1>1 DEF Receive, Write, AlreadyRunning, NoneRunning, Record
<1>2. ASSUME NEW h \in Handlers, NEW w \in Workers, Spawn(h, w) PROVE BeatInv'
  BY <1>2 DEF Spawn
<1>3. ASSUME NEW h \in Handlers, StartFails(h) PROVE BeatInv'
  <2>1. CASE UNCHANGED <<pc, beat>>
    BY <2>1
  <2>2. CASE ~UNCHANGED <<pc, beat>>
    <3>1. /\ pc' = [pc EXCEPT ![req[h].worker] = AfterDeath(req[h].worker)]
          /\ beat' = [beat EXCEPT ![req[h].worker] = "off"]
      BY <1>3, <2>2 DEF StartFails, Ends
    <3> QED BY <3>1
  <2> QED BY <2>1, <2>2
<1>4. CASE Poll \/ ServerRestarts \/ Reap
  BY <1>4 DEF Poll, ServerRestarts, Reap
<1>5. CASE Operator
  BY <1>5 DEF Operator, CliSets, TerminalStarts, ActivityAges
<1>6. "stop" \in Actions \ {"start"}
  BY DEF Actions
<1> QED BY <1>1, <1>2, <1>3, <1>4, <1>5, <1>6 DEF Dashboard

\* Every step keeps heartbeats where they belong.
LEMMA StepBeats ==
    ASSUME TypeInv, BeatInv, [Next]_vars, "latebeat" \notin Hazards
    PROVE  BeatInv'
<1>1. ASSUME NEW w \in Workers, BeatsAlone(w) PROVE BeatInv'
  BY <1>1 DEF BeatInv, BeatsAlone
<1>2. CASE Dashboard \/ Operator
  BY <1>2, OthersBeat
<1>3. CASE \E w \in Workers : WorkerStep(w) \/ Accident(w)
  BY <1>1, <1>3, RunBeats, CommandBeats, AccidentBeats DEF WorkerStep
<1>4. CASE UNCHANGED vars
  BY <1>4 DEF vars, workerVars, BeatInv
<1> QED BY <1>2, <1>3, <1>4 DEF Next

\* What those who are not workers may do when no start fails: write a hold or a
\* resumption, spawn a process, and wait for one that ended.
OutsideStep ==
    /\ status' \in {status, "paused", "stopping", "stopped", "resuming"}
    /\ cached' = cached
    /\ \A v \in Workers :
         \/ pc'[v] = pc[v]
         \/ pc[v] \in {"none", "zombie"} /\ pc'[v] \in {"boot", "gone"}

\* The dashboard and the operator do no more.
LEMMA OutsideSteps ==
    ASSUME TypeInv, Dashboard \/ Operator, "record" \notin Hazards
    PROVE  OutsideStep
<1> USE DEF TypeInv, TypeOK, OutsideStep, scanVars, tableVars, workerVars
<1>1. ASSUME NEW h \in Handlers, NEW act \in Actions \ {"start"},
             Receive(h, act) \/ AlreadyRunning(h) \/ NoneRunning(h) \/ Record(h)
      PROVE  OutsideStep
  BY <1>1 DEF Receive, AlreadyRunning, NoneRunning, Record
<1>2. ASSUME NEW h \in Handlers, Write(h) PROVE OutsideStep
  BY <1>2 DEF Write, Requested
<1>3. ASSUME NEW h \in Handlers, NEW w \in Workers, Spawn(h, w) PROVE OutsideStep
  BY <1>3 DEF Spawn
<1>4. ASSUME NEW h \in Handlers PROVE ~StartFails(h)
  BY DEF StartFails
<1>5. CASE Poll \/ ServerRestarts \/ Reap
  BY <1>5 DEF Poll, ServerRestarts, Reap
<1>6. CASE Operator
  BY <1>6 DEF Operator, CliSets, TerminalStarts, ActivityAges
<1>7. "stop" \in Actions \ {"start"}
  BY DEF Actions
<1> QED BY <1>1, <1>2, <1>3, <1>4, <1>5, <1>6, <1>7 DEF Dashboard

-------------------------------------------------------------------------------
(***************************************************************************)
(* A verdict outlives the heartbeats                                       *)
(***************************************************************************)
\* Inside the tool loop, or inside a phase.
Inside == Beating \cup {"loop", "gate", "phase"}

\* A worker inside its loop has not decided yet how the scan ends, and there is
\* no other worker that could have.
VerdictInv == \A w \in Workers : pc[w] \in Inside => status \notin Decided

\* A run decides as it leaves its loop, and enters the loop as running.
LEMMA RunVerdict ==
    ASSUME NEW w \in Workers, TypeInv, VerdictInv, RunStep(w)
    PROVE  pc'[w] \in Inside => status' \notin Decided
<1> USE DEF TypeInv, TypeOK, VerdictInv, Inside, Beating, Decided, FinalStatuses, Failed, Goto,
        scanVars, tableVars, workerVars
<1>1. CASE Boot(w)
  BY <1>1 DEF Boot
<1>2. CASE Precheck(w)
  BY <1>2 DEF Precheck, EmitStarting, Assign
<1>3. CASE PrecheckFails(w)
  BY <1>3 DEF PrecheckFails, Assign
<1>4. CASE EnterPlanning(w)
  BY <1>4 DEF EnterPlanning, Assign
<1>5. CASE ScanStarted(w)
  BY <1>5 DEF ScanStarted, EmitStarting, Assign
<1>6. CASE Prepare(w)
  BY <1>6 DEF Prepare
<1>7. CASE ControlCheck(w)
  BY <1>7 DEF ControlCheck
<1>8. CASE ResolveBegins(w)
  BY <1>8 DEF ResolveBegins
<1>9. CASE ResolveRuns(w)
  BY <1>9 DEF ResolveRuns
<1>10. CASE SkipTool(w)
  BY <1>10 DEF SkipTool, AtTool
<1>11. CASE StartTool(w)
  BY <1>11 DEF StartTool, AtTool, EmitStarting, Assign
<1>12. CASE Deduplicate(w)
  BY <1>12 DEF Deduplicate, AtTool, EmitStarting, Assign
<1>13. CASE ToolEnds(w)
  BY <1>13 DEF ToolEnds
<1>14. CASE AuthBlocks(w)
  BY <1>14 DEF AuthBlocks, Assign
<1>15. CASE EarlyReturn(w)
  BY <1>15 DEF EarlyReturn
<1>16. CASE Review(w)
  BY <1>16 DEF Review, EmitStarting, Assign
<1>17. CASE Complete(w)
  BY <1>17 DEF Complete, Assign
<1>18. CASE CloseRow(w)
  BY <1>18 DEF CloseRow
<1>19. CASE Exit(w)
  BY <1>19 DEF Exit, Ends, AfterDeath
<1>20. CASE Fail(w)
  BY <1>20 DEF Fail, Ends, AfterDeath
<1> QED BY <1>1, <1>2, <1>3, <1>4, <1>5, <1>6, <1>7, <1>8, <1>9, <1>10, <1>11, <1>12, <1>13, <1>14, <1>15, <1>16, <1>17, <1>18, <1>19, <1>20 DEF RunStep

\* A phase enters its loop as running, and ends as ready.
LEMMA CommandVerdict ==
    ASSUME NEW w \in Workers, TypeInv, VerdictInv, CommandStep(w)
    PROVE  pc'[w] \in Inside => status' \notin Decided
<1> USE DEF TypeInv, TypeOK, VerdictInv, Inside, Beating, Decided, FinalStatuses, Failed, Goto,
        scanVars, tableVars, workerVars
<1>1. CASE ContinueBegins(w)
  BY <1>1 DEF ContinueBegins
<1>2. CASE ContinueRefused(w)
  BY <1>2 DEF ContinueRefused, Ends, AfterDeath
<1>3. CASE PhaseToolStarts(w)
  BY <1>3 DEF PhaseToolStarts, EmitStarting, Assign
<1>4. CASE PhaseToolEnds(w)
  BY <1>4 DEF PhaseToolEnds
<1>5. CASE ContinueEnds(w)
  BY <1>5 DEF ContinueEnds, Ends, AfterDeath
<1>6. CASE StopForced(w)
  BY <1>6 DEF StopForced, Ends, AfterDeath
<1> QED BY <1>1, <1>2, <1>3, <1>4, <1>5, <1>6 DEF CommandStep

\* A heartbeat or an accident decides nothing.
LEMMA AccidentVerdict ==
    ASSUME NEW w \in Workers, TypeInv, VerdictInv, BeatStep(w) \/ Accident(w)
    PROVE  pc'[w] \in Inside => status' \notin Decided
<1> USE DEF TypeInv, TypeOK, VerdictInv, Inside, Beating, Decided, FinalStatuses, Failed, Goto,
        scanVars, tableVars, workerVars
<1>1. CASE BeatReads(w)
  BY <1>1 DEF BeatReads
<1>2. CASE BeatWrites(w)
  BY <1>2 DEF BeatWrites
<1>3. CASE Raise(w)
  BY <1>3 DEF Raise
<1>4. CASE ArtifactRollback(w)
  BY <1>4 DEF ArtifactRollback
<1>5. CASE Kill(w)
  BY <1>5 DEF Kill, Ends, AfterDeath
<1>6. CASE BeatWakes(w)
  BY <1>6 DEF BeatWakes
<1> QED BY <1>1, <1>2, <1>3, <1>4, <1>5, <1>6 DEF BeatStep, Accident

\* If a scan has one worker, whose heartbeats are joined in time, and no start
\* of it fails, then no heartbeat writes running over what the worker decided
\* about the scan, although it read the row before: whatever requests and
\* commands write in between, and wherever the worker is killed.
THEOREM VerdictsOutliveHeartbeats ==
    ASSUME \A v, w \in Workers : v = w, "latebeat" \notin Hazards, "record" \notin Hazards
    PROVE  Spec => VerdictOutlivesHeartbeat
<1>1. Init => BeatInv /\ VerdictInv
  BY DEF Init, BeatInv, VerdictInv, Inside, Beating
<1>2. ASSUME TypeInv, BeatInv, VerdictInv, [Next]_vars PROVE BeatInv' /\ VerdictInv'
  <2>1. BeatInv'
    BY <1>2, StepBeats
  <2>2. CASE Dashboard \/ Operator
    BY <1>2, <2>1, <2>2, OutsideSteps DEF OutsideStep, VerdictInv, Inside, Beating, Decided,
       FinalStatuses, Failed
  <2>3. CASE \E w \in Workers : WorkerStep(w) \/ Accident(w)
    <3>1. PICK w \in Workers : WorkerStep(w) \/ Accident(w)
      BY <2>3
    <3>2. pc'[w] \in Inside => status' \notin Decided
      BY <1>2, <3>1, RunVerdict, CommandVerdict, AccidentVerdict DEF WorkerStep
    <3> QED BY <2>1, <3>2 DEF VerdictInv
  <2>4. CASE UNCHANGED vars
    BY <1>2, <2>1, <2>4 DEF vars, scanVars, workerVars, VerdictInv
  <2> QED BY <1>2, <2>2, <2>3, <2>4 DEF Next
<1>3. BeatInv /\ VerdictInv => \A w \in Workers : BeatWrites(w) => status \notin Decided
  BY DEF BeatInv, VerdictInv, BeatWrites, Inside
<1>4. BeatInv /\ VerdictInv => [\A w \in Workers : BeatWrites(w) => status \notin Decided]_vars
  BY <1>3
<1> QED BY TypeInvariant, <1>1, <1>2, <1>4, PTL DEF Spec, VerdictOutlivesHeartbeat

-------------------------------------------------------------------------------
(***************************************************************************)
(* A quiet scan is not running                                             *)
(***************************************************************************)
\* The statuses that claim that somebody works on the scan.
Going == {"planning", "running"}

\* Inside the tool loop and the review after it.
Looping == {"loop", "gate", "resolve", "tool", "review"}

\* What only another worker could have written while a run is in its loop.
Verdicts == {"completed", "failed_precheck", "failed_system", "auth_failed", "auth_blocked"}

\* A worker that will write another status before its process ends: it is on
\* its way to a verdict or to its failure handler, or it broke off at a hold
\* that its copy of the row does not show.
Answers(v) ==
    \/ pc[v] \in Looping \cup {"precheck", "planning", "preparing", "starting", "failing",
                               "phase", "phasetool"}
    \/ pc[v] \in {"haltstop", "haltpause", "closedstop", "closedpause"} /\ cached[v] \in Going

\* In its loop a run's copy of the row is no verdict and no hold, so that it
\* differs from the verdict the run ends with, and the verdict is written.
Sound(v) ==
    /\ pc[v] \in Looping => status \notin Verdicts /\ cached[v] \notin Protected \cup Settled
    /\ pc[v] \in {"review", "phase", "phasetool"} => cached[v] = "running"
    /\ pc[v] \in {"haltstop", "haltpause"} => (status \in Going => cached[v] \in Going)

\* Whenever the scan claims to be worked on, somebody will say that it is not.
QuietInv ==
    /\ status \in Going => \E v \in Workers : Answers(v)
    /\ \A v \in Workers : Sound(v)

\* What a step of worker w may do to what the invariant speaks of.
QuietMove(w) ==
    /\ \A v \in Workers \ {w} : pc'[v] = pc[v] /\ cached'[v] = cached[v]
    /\ status' \in Going => Answers(w)' \/ (status \in Going /\ ~Answers(w))
    /\ status' \in Verdicts \cup Going /\ status' # status => Testing(w)
    /\ Sound(w)'

\* Such a step keeps the invariant, if two workers never test at once.
LEMMA MovesQuiet ==
    ASSUME NEW w \in Workers, OneTester, QuietInv, QuietMove(w)
    PROVE  QuietInv'
<1>1. ASSUME status' \in Going PROVE \E v \in Workers : Answers(v)'
  <2>1. CASE Answers(w)'
    BY <2>1
  <2>2. CASE status \in Going /\ ~Answers(w)
    <3>1. PICK v \in Workers : Answers(v)
      BY <2>2 DEF QuietInv
    <3>2. v # w /\ pc'[v] = pc[v] /\ cached'[v] = cached[v]
      BY <2>2, <3>1 DEF QuietMove
    <3> QED BY <3>1, <3>2 DEF Answers
  <2> QED BY <1>1, <2>1, <2>2 DEF QuietMove
<1>2. ASSUME NEW v \in Workers PROVE Sound(v)'
  <2>1. CASE v = w
    BY <2>1 DEF QuietMove
  <2>2. CASE v # w
    <3>1. pc'[v] = pc[v] /\ cached'[v] = cached[v] /\ Sound(v)
      BY <2>2 DEF QuietMove, QuietInv
    <3>2. CASE pc[v] \in Looping \cup {"haltstop", "haltpause"}
      <4>1. ~Testing(w)
        BY <2>2, <3>2 DEF OneTester, Testing, Looping, LiveStates, RunStates, ToolStates, ClosedStates
      <4>2. status' = status \/ status' \notin Verdicts \cup Going
        BY <4>1 DEF QuietMove
      <4> QED BY <3>1, <4>2 DEF Sound
    <3>3. CASE pc[v] \notin Looping \cup {"haltstop", "haltpause"}
      BY <3>1, <3>3 DEF Sound
    <3> QED BY <3>2, <3>3
  <2> QED BY <2>1, <2>2
<1> QED BY <1>1, <1>2 DEF QuietInv

\* A run writes a verdict that differs from its copy as it leaves its loop, and
\* its failure handler writes one in any case.
LEMMA RunQuiet ==
    ASSUME NEW w \in Workers, TypeInv, BeatInv, Sound(w), RunStep(w), "latebeat" \notin Hazards
    PROVE  QuietMove(w)
<1> USE DEF TypeInv, TypeOK, BeatInv, Beating, BeatJoined, QuietMove, Sound, Answers, Looping, Going, Verdicts,
        Testing, LiveStates, RunStates, ToolStates, ClosedStates, Goto, scanVars, tableVars, workerVars,
        Protected, Settled
<1>1. CASE Boot(w)
  BY <1>1 DEF Boot
<1>2. CASE Precheck(w)
  BY <1>2 DEF Precheck, EmitStarting, Assign
<1>3. CASE PrecheckFails(w)
  BY <1>3 DEF PrecheckFails, Assign
<1>4. CASE EnterPlanning(w)
  BY <1>4 DEF EnterPlanning, Assign
<1>5. CASE ScanStarted(w)
  BY <1>5 DEF ScanStarted, EmitStarting, Assign
<1>6. CASE Prepare(w)
  BY <1>6 DEF Prepare
<1>7. CASE ControlCheck(w)
  BY <1>7 DEF ControlCheck
<1>8. CASE ResolveBegins(w)
  BY <1>8 DEF ResolveBegins
<1>9. CASE ResolveRuns(w)
  BY <1>9 DEF ResolveRuns
<1>10. CASE SkipTool(w)
  BY <1>10 DEF SkipTool, AtTool
<1>11. CASE StartTool(w)
  BY <1>11 DEF StartTool, AtTool, EmitStarting, Assign
<1>12. CASE Deduplicate(w)
  BY <1>12 DEF Deduplicate, AtTool, EmitStarting, Assign
<1>13. CASE ToolEnds(w)
  BY <1>13 DEF ToolEnds
<1>14. CASE AuthBlocks(w)
  BY <1>14 DEF AuthBlocks, Assign
<1>15. CASE EarlyReturn(w)
  BY <1>15 DEF EarlyReturn
<1>16. CASE Review(w)
  BY <1>16 DEF Review, EmitStarting, Assign
<1>17. CASE Complete(w)
  BY <1>17 DEF Complete, Assign, FinalStatuses
<1>18. CASE CloseRow(w)
  BY <1>18 DEF CloseRow
<1>19. CASE Exit(w)
  BY <1>19 DEF Exit, Ends, AfterDeath
<1>20. CASE Fail(w)
  BY <1>20 DEF Fail, Ends, AfterDeath
<1> QED BY <1>1, <1>2, <1>3, <1>4, <1>5, <1>6, <1>7, <1>8, <1>9, <1>10, <1>11, <1>12, <1>13, <1>14, <1>15, <1>16, <1>17, <1>18, <1>19, <1>20 DEF RunStep

\* A phase ends as ready, which its copy is not.
LEMMA CommandQuiet ==
    ASSUME NEW w \in Workers, TypeInv, BeatInv, Sound(w), CommandStep(w), "latebeat" \notin Hazards
    PROVE  QuietMove(w)
<1> USE DEF TypeInv, TypeOK, BeatInv, Beating, BeatJoined, QuietMove, Sound, Answers, Looping, Going, Verdicts,
        Testing, LiveStates, RunStates, ToolStates, ClosedStates, Goto, scanVars, tableVars, workerVars,
        Protected, Settled
<1>1. CASE ContinueBegins(w)
  BY <1>1 DEF ContinueBegins
<1>2. CASE ContinueRefused(w)
  BY <1>2 DEF ContinueRefused, Ends, AfterDeath
<1>3. CASE PhaseToolStarts(w)
  BY <1>3 DEF PhaseToolStarts, EmitStarting, Assign
<1>4. CASE PhaseToolEnds(w)
  BY <1>4 DEF PhaseToolEnds
<1>5. CASE ContinueEnds(w)
  BY <1>5 DEF ContinueEnds, Ends, AfterDeath
<1>6. CASE StopForced(w)
  BY <1>6 DEF StopForced, Ends, AfterDeath
<1> QED BY <1>1, <1>2, <1>3, <1>4, <1>5, <1>6 DEF CommandStep

\* A heartbeat writes running for a worker that is still to decide.
LEMMA AccidentQuiet ==
    ASSUME NEW w \in Workers, TypeInv, BeatInv, Sound(w), BeatStep(w) \/ Accident(w),
           Hazards \subseteq {"cli"}
    PROVE  QuietMove(w)
<1> USE DEF TypeInv, TypeOK, BeatInv, Beating, BeatJoined, QuietMove, Sound, Answers, Looping, Going, Verdicts,
        Testing, LiveStates, RunStates, ToolStates, ClosedStates, Goto, scanVars, tableVars, workerVars,
        Protected, Settled
<1>1. CASE BeatReads(w)
  BY <1>1 DEF BeatReads
<1>2. CASE BeatWrites(w)
  BY <1>2 DEF BeatWrites
<1>3. CASE Raise(w)
  BY <1>3 DEF Raise
<1>4. CASE ArtifactRollback(w)
  BY <1>4 DEF ArtifactRollback
<1>5. CASE Kill(w)
  BY <1>5 DEF Kill, Ends, AfterDeath
<1>6. CASE BeatWakes(w)
  BY <1>6 DEF BeatWakes
<1> QED BY <1>1, <1>2, <1>3, <1>4, <1>5, <1>6 DEF BeatStep, Accident

\* The dashboard and the operator only take the claim back.
LEMMA OutsideQuiet == ASSUME QuietInv, OutsideStep PROVE QuietInv'
<1>1. \A v \in Workers : Answers(v) => Answers(v)'
  BY DEF OutsideStep, Answers, Looping
<1>2. status' \in Going => status \in Going
  BY DEF OutsideStep, Going
<1>3. \A v \in Workers : Sound(v)'
  BY DEF QuietInv, Sound, OutsideStep, Looping, Verdicts, Going
<1> QED BY <1>1, <1>2, <1>3 DEF QuietInv

\* If the dashboard handles one request at a time and no process is killed,
\* started or failed to start behind its back, a scan on which nobody works any
\* more never says planning or running: whatever the operator writes to its row,
\* wherever an exception or a hold breaks a run off, and whatever the workers'
\* copies and heartbeats make of the row.
THEOREM QuietScansStop ==
    ASSUME \A g, h \in Handlers : g = h, Hazards \subseteq {"cli"}
    PROVE  Spec => []QuietScanIsNotRunning
<1>1. Init => BeatInv /\ QuietInv
  BY DEF Init, BeatInv, QuietInv, Going, Sound, Looping
<1>2. ASSUME TypeInv, BeatInv, OneTester, QuietInv, [Next]_vars PROVE BeatInv' /\ QuietInv'
  <2>1. BeatInv'
    BY <1>2, StepBeats
  <2>2. CASE Dashboard \/ Operator
    BY <1>2, <2>1, <2>2, OutsideSteps, OutsideQuiet
  <2>3. CASE \E w \in Workers : WorkerStep(w) \/ Accident(w)
    <3>1. PICK w \in Workers : WorkerStep(w) \/ Accident(w)
      BY <2>3
    <3>2. Sound(w)
      BY <1>2 DEF QuietInv
    <3>3. QuietMove(w)
      BY <1>2, <3>1, <3>2, RunQuiet, CommandQuiet, AccidentQuiet DEF WorkerStep
    <3> QED BY <1>2, <2>1, <3>3, MovesQuiet
  <2>4. CASE UNCHANGED vars
    <3>1. UNCHANGED <<status, pc, cached>>
      BY <2>4 DEF vars, scanVars, workerVars
    <3> QED BY <1>2, <2>1, <3>1 DEF QuietInv, Sound, Answers
  <2> QED BY <1>2, <2>2, <2>3, <2>4 DEF Next
<1>3. QuietInv => QuietScanIsNotRunning
  BY DEF QuietInv, QuietScanIsNotRunning, Going, Answers, Looping, Executing, LiveStates,
     RunStates, ToolStates, ClosedStates
<1>4. Spec => []OneTester
  BY OneTesterAtATime
<1> QED BY TypeInvariant, <1>1, <1>2, <1>3, <1>4, PTL DEF Spec

===============================================================================
