------------------------------ MODULE ScanControl ------------------------------
(***************************************************************************)
(* One scan of SAIF, seen by everybody who writes its row: the dashboard's *)
(* request threads, the operator's CLI commands, the worker processes the  *)
(* dashboard spawns, and the heartbeat thread of each running tool.        *)
(*                                                                         *)
(* The row is shared through PostgreSQL.  A worker keeps one ORM object    *)
(* for the whole run (expire_on_commit=False): `cached' is its copy of the *)
(* status, and an assignment reaches the database only when it differs     *)
(* from that copy.  Control flags travel the other way: only the control   *)
(* check between two tools re-reads the row.                               *)
(***************************************************************************)
EXTENDS Naturals, Sequences, FiniteSets

CONSTANTS
    Workers,      \* operating-system processes that may ever be spawned
    Handlers,     \* request threads of the dashboard server
    MaxTools,     \* bound: tools a worker's plan may hold
    MaxPrereqs,   \* bound: tools one prerequisite resolution may run
    RecentRows,   \* how many process rows the active-worker lookups read
    Hazards       \* what the environment may do, a subset of HazardKinds

HazardKinds == {"kill", "record", "restart", "terminal", "cli", "latebeat", "rollback"}

ASSUME WorkersAssumption  == "none" \notin Workers
ASSUME BoundsAssumption   == MaxTools \in Nat /\ MaxPrereqs \in Nat
ASSUME LookupAssumption   == RecentRows \in Nat \ {0}
ASSUME HazardsAssumption  == Hazards \subseteq HazardKinds

VARIABLES
    \* the scans row, and what tool_runs says about it
    status, pauseReq, stopReq,
    recent,       \* last_activity_at is younger than scan_stale_after_seconds
    toolShown,    \* current_tool is set (no code clears it; whoever writes one of the
                  \* phases that also count as active writes a tool with it)
    markers,      \* committed tool runs still "running", by worker ("katana":
                  \* the deduplicated run nobody finishes)
    blockedRuns,  \* some tool run is recorded as missing_prerequisite
    \* the scan_processes table
    rows,         \* the processes in the order their rows were inserted
    row,          \* status column of each process's row, "none" before it
    \* dashboard request threads
    req,
    \* worker processes
    pc, kind, cached, left, prereq, detached,
    beat,         \* heartbeat thread of the worker's current tool
    afterHold     \* history: tools begun since a hold flag was committed

scanVars   == <<status, pauseReq, stopReq, recent, toolShown, markers, blockedRuns>>
tableVars  == <<rows, row>>
workerVars == <<pc, kind, cached, left, prereq, detached, beat, afterHold>>
vars == <<scanVars, tableVars, req, workerVars>>

(***************************************************************************)
(* Values                                                                  *)
(***************************************************************************)
Statuses == {"created", "planning", "ready", "running", "resuming", "paused",
             "stopping", "stopped", "completed", "completed_with_coverage_gaps",
             "auth_blocked", "auth_failed", "failed_precheck",
             "failed_ai_timeout", "failed_system", "execution_error"}

\* Statuses a progress event of a starting kind does not turn into running.
Protected == {"paused", "stopping", "stopped", "completed", "failed_system",
              "failed_precheck"}

Failed      == {"failed_system", "failed_precheck", "failed_ai_timeout"}
Startable   == {"created", "planning", "ready", "running", "resuming"}
Resumable   == {"paused", "stopped", "worker_stale", "failed_system", "failed_precheck"}
Continuable == {"stopped", "paused", "ready", "completed", "worker_stale",
                "failed_system", "failed_precheck"}
Stoppable   == {"running", "created", "planning", "resuming"}
Settled     == {"paused", "stopped", "auth_failed", "auth_blocked"}

Actions == {"start", "pause", "resume", "stop", "stop-force", "restart-worker",
            "continue", "resolve-prerequisites", "auth"}

ToolStates   == {"resolve", "tool"}
ClosedStates == {"closed", "closedstop", "closedpause"}
RunStates    == {"precheck", "planning", "preparing", "starting", "loop", "gate",
                 "review", "haltstop", "haltpause", "finish", "failing"}
                \cup ToolStates \cup ClosedStates
LiveStates   == {"boot", "phase", "phasetool"} \cup RunStates
Ended      == {"zombie", "gone"}

Kinds == {"run", "continue", "stop"}
Idle  == [at |-> "idle", act |-> "start", seen |-> "created",
          seenPause |-> FALSE, worker |-> "none"]

Executing(w) == pc[w] \in LiveStates
\* os.kill(pid, 0) also succeeds on a child nobody has waited for.
PidAlive(w)  == pc[w] \in LiveStates \cup {"zombie"}
Hold         == pauseReq \/ stopReq

-------------------------------------------------------------------------------
(***************************************************************************)
(* status_snapshot and the buttons computed from it                        *)
(***************************************************************************)
Latest == rows[Len(rows)]
Recent == {rows[i] : i \in {j \in DOMAIN rows : j + RecentRows > Len(rows)}}

ProcessActive == rows # <<>> /\ row[Latest] = "started" /\ PidAlive(Latest)

Stale == /\ status \in Startable
         /\ ~ProcessActive
         /\ ~recent
         /\ markers = {}
         /\ ~toolShown

Shown == IF Stale THEN "worker_stale" ELSE status

WorkerStatus ==
    IF status = "completed" THEN "completed"
    ELSE IF status \in Failed THEN "failed"
    ELSE IF Stale THEN "stale"
    ELSE IF \/ rows # <<>> /\ PidAlive(Latest)
            \/ markers # {}
            \/ status \in {"planning", "running", "resuming"}
         THEN "active"
    ELSE "idle"

Enabled(act) ==
    \/ act = "pause"      /\ WorkerStatus = "active"
    \/ act = "resume"     /\ WorkerStatus # "active"
                          /\ (WorkerStatus \in {"stale", "failed"} \/ Shown \in Resumable)
    \/ act = "stop"       /\ Shown \in Stoppable
    \/ act = "stop-force" /\ WorkerStatus = "active" /\ rows # <<>>
    \/ act = "continue"   /\ Shown \in Continuable
    \/ act = "resolve-prerequisites" /\ blockedRuns /\ Shown \notin Stoppable
    \/ /\ act = "restart-worker"
       /\ Shown \in {"worker_stale", "execution_error", "stopped", "failed_system"}
       /\ ~(WorkerStatus = "active" /\ rows # <<>>)
    \/ act = "auth"       \* the auth routes validate nothing

\* A snapshot of a stale scan marks its latest process row, even on a GET.
MarkStaleRow ==
    row' = IF Stale /\ rows # <<>> /\ row[Latest] = "started"
           THEN [row EXCEPT ![Latest] = "stale"] ELSE row

StartedAlive(w) == row[w] = "started" /\ PidAlive(w)

\* Mutant: the lookup trusts the snapshot alone.
FoundActiveBySnapshot == WorkerStatus = "active" /\ rows # <<>>

\* _active_worker_for_scan: a live tracked process, or else the newest row
\* whenever the snapshot calls the worker active.
FoundActive == \/ \E w \in Recent : StartedAlive(w)
               \/ WorkerStatus = "active" /\ rows # <<>>

-------------------------------------------------------------------------------
(***************************************************************************)
(* Dashboard request threads                                               *)
(***************************************************************************)
\* The thread reads the scan, validates the button, and remembers what it read.
Receive(h, act) ==
    /\ req[h].at = "idle"
    /\ Enabled(act)
    /\ req' = [req EXCEPT ![h] =
                 IF act \in {"pause", "resume", "stop", "restart-worker"}
                 THEN [Idle EXCEPT !.at = "write", !.act = act,
                                   !.seen = status, !.seenPause = pauseReq]
                 ELSE [Idle EXCEPT !.at = "lookup", !.act = act]]
    /\ IF act = "auth" THEN row' = row ELSE MarkStaleRow
    /\ recent' = (recent \/ act = "resolve-prerequisites")
    /\ UNCHANGED <<status, pauseReq, stopReq, toolShown, markers, blockedRuns, rows, workerVars>>

\* Any page or live-state poll takes a snapshot.
Poll ==
    /\ Stale /\ rows # <<>> /\ row[Latest] = "started"
    /\ MarkStaleRow
    /\ UNCHANGED <<scanVars, rows, req, workerVars>>

Requested(act) == CASE act = "pause" -> "paused"
                    [] act = "stop"  -> "stopping"
                    [] OTHER         -> "resuming"

\* Pause, resume, stop and restart-worker write the row and commit: a column is
\* part of the UPDATE only if it differs from the value the thread had read.
Write(h) ==
    LET r == req[h]
        clears == r.act = "resume" /\ r.seenPause
    IN  /\ r.at = "write"
        /\ status' = IF Requested(r.act) = r.seen THEN status ELSE Requested(r.act)
        /\ pauseReq' = IF r.act = "pause" /\ ~r.seenPause THEN TRUE
                       ELSE IF clears THEN FALSE ELSE pauseReq
        /\ stopReq' = (stopReq \/ r.act = "stop")
        /\ recent' = TRUE
        /\ req' = [req EXCEPT ![h] = IF r.act \in {"pause", "stop"} THEN Idle
                                     ELSE [Idle EXCEPT !.at = "lookup", !.act = r.act]]
        /\ afterHold' = IF clears /\ ~stopReq THEN [w \in Workers |-> 0] ELSE afterHold
        /\ UNCHANGED <<toolShown, markers, blockedRuns, tableVars,
                       pc, kind, cached, left, prereq, detached, beat>>

\* First session of _start_background_command, the lookup finds a worker.
AlreadyRunning(h) ==
    /\ req[h].at = "lookup"
    /\ FoundActive
    /\ req' = [req EXCEPT ![h] = Idle]
    /\ recent' = TRUE
    /\ UNCHANGED <<status, pauseReq, stopReq, toolShown, markers, blockedRuns, tableVars, workerVars>>

\* The lookup finds none: the thread goes on to Popen.
NoneRunning(h) ==
    /\ req[h].at = "lookup"
    /\ ~FoundActive
    /\ req' = [req EXCEPT ![h].at = "spawn"]
    /\ MarkStaleRow
    /\ UNCHANGED <<scanVars, rows, workerVars>>

KindOf(act) == CASE act \in {"start", "resume", "restart-worker"} -> "run"
                 [] act = "stop-force" -> "stop"
                 [] OTHER -> "continue"

\* subprocess.Popen: the child runs from now on, and finished children whose
\* Popen object was dropped are waited for.
Spawn(h, w) ==
    /\ req[h].at = "spawn"
    /\ pc[w] = "none"
    /\ pc' = [v \in Workers |-> IF v = w THEN "boot"
                                ELSE IF pc[v] = "zombie" THEN "gone" ELSE pc[v]]
    /\ kind' = [kind EXCEPT ![w] = KindOf(req[h].act)]
    /\ req' = [req EXCEPT ![h] = [Idle EXCEPT !.at = "record", !.act = req[h].act,
                                            !.worker = w]]
    /\ UNCHANGED <<scanVars, tableVars, cached, left, prereq, detached, beat, afterHold>>

\* Second session: insert the process row.
Record(h) ==
    /\ req[h].at = "record"
    /\ rows' = Append(rows, req[h].worker)
    /\ row' = [row EXCEPT ![req[h].worker] = "started"]
    /\ recent' = TRUE
    /\ req' = [req EXCEPT ![h] = Idle]
    /\ UNCHANGED <<status, pauseReq, stopReq, toolShown, markers, blockedRuns, workerVars>>

AfterDeath(w) == IF w \in detached THEN "gone" ELSE "zombie"

\* A process ends with its threads, and what it had in memory is gone.
Ends(w) ==
    /\ pc' = [pc EXCEPT ![w] = AfterDeath(w)]
    /\ beat' = [beat EXCEPT ![w] = "off"]
    /\ cached' = [cached EXCEPT ![w] = "created"]
    /\ left' = [left EXCEPT ![w] = 0]
    /\ prereq' = [prereq EXCEPT ![w] = 0]
    /\ afterHold' = [afterHold EXCEPT ![w] = 0]

\* Popen or the tracking fails: a child that exists is terminated, and a start
\* request reports the scan as failed.
StartFails(h) ==
    LET w == req[h].worker
    IN  /\ "record" \in Hazards
        /\ req[h].at \in {"spawn", "record"}
        /\ IF req[h].at = "record" /\ Executing(w) THEN Ends(w)
           ELSE UNCHANGED <<pc, beat, cached, left, prereq, afterHold>>
        /\ status' = IF req[h].act = "start" THEN "failed_system" ELSE status
        /\ recent' = (recent \/ req[h].act = "start")
        /\ req' = [req EXCEPT ![h] = Idle]
        /\ UNCHANGED <<pauseReq, stopReq, toolShown, markers, blockedRuns, tableVars, kind, detached>>

\* The server process dies: requests are lost, its children are reparented.
ServerRestarts ==
    /\ "restart" \in Hazards
    /\ req' = [h \in Handlers |-> Idle]
    /\ pc' = [w \in Workers |-> IF pc[w] = "zombie" THEN "gone" ELSE pc[w]]
    /\ detached' = detached \cup {w \in Workers : Executing(w)}
    /\ UNCHANGED <<scanVars, tableVars, kind, cached, left, prereq, beat, afterHold>>

\* Another scan's Popen waits for this scan's finished children.
Reap ==
    /\ \E w \in Workers : pc[w] = "zombie"
    /\ pc' = [w \in Workers |-> IF pc[w] = "zombie" THEN "gone" ELSE pc[w]]
    /\ UNCHANGED <<scanVars, tableVars, req, kind, cached, left, prereq, detached, beat, afterHold>>

Dashboard ==
    \/ \E h \in Handlers :
         \/ \E act \in Actions \ {"start"} : Receive(h, act)
         \/ Write(h) \/ AlreadyRunning(h) \/ NoneRunning(h)
         \/ \E w \in Workers : Spawn(h, w)
         \/ Record(h) \/ StartFails(h)
    \/ Poll \/ ServerRestarts \/ Reap

-------------------------------------------------------------------------------
(***************************************************************************)
(* The operator's terminal                                                 *)
(***************************************************************************)
\* scan pause, resume, stop and stop --force set the status and no flag.
CliSets(s) ==
    /\ "cli" \in Hazards
    /\ s \in {"paused", "resuming", "stopping", "stopped"}
    /\ status # s \/ ~recent
    /\ status' = s
    /\ recent' = TRUE
    /\ UNCHANGED <<pauseReq, stopReq, toolShown, markers, blockedRuns, tableVars, req, workerVars>>

\* scan run-existing or scan continue in a terminal: no process row is written.
TerminalStarts(w, k) ==
    /\ "terminal" \in Hazards
    /\ pc[w] = "none"
    /\ k \in {"run", "continue"}
    /\ pc' = [pc EXCEPT ![w] = "boot"]
    /\ kind' = [kind EXCEPT ![w] = k]
    /\ detached' = detached \cup {w}
    /\ UNCHANGED <<scanVars, tableVars, req, cached, left, prereq, beat, afterHold>>

\* Nothing has been recorded for longer than the staleness threshold.
ActivityAges ==
    /\ recent
    /\ recent' = FALSE
    /\ UNCHANGED <<status, pauseReq, stopReq, toolShown, markers, blockedRuns,
                   tableVars, req, workerVars>>

Operator ==
    \/ \E s \in Statuses : CliSets(s)
    \/ \E w \in Workers, k \in Kinds : TerminalStarts(w, k)
    \/ ActivityAges

-------------------------------------------------------------------------------
(***************************************************************************)
(* Worker processes                                                        *)
(***************************************************************************)
\* scan.status := s followed by the commit of the next progress event.
Assign(w, s) ==
    /\ status' = IF s = cached[w] THEN status ELSE s
    /\ cached' = [cached EXCEPT ![w] = s]

\* A progress event of a starting kind: the scan is running, unless the
\* worker's copy says it is held or finished.
EmitStarting(w) == Assign(w, IF cached[w] \in Protected THEN cached[w] ELSE "running")

Goto(w, from, to) == pc[w] = from /\ pc' = [pc EXCEPT ![w] = to]

\* Mutant: the heartbeat is told to stop and not waited for.
BeatNotJoined(w) == TRUE

\* When a tool ends its heartbeat thread is joined, but for one second only.
BeatJoined(w) == beat[w] = "off" \/ "latebeat" \in Hazards

Counted(w, n) == [afterHold EXCEPT ![w] = IF Hold THEN @ + n ELSE 0]

OtherActive(w) == \E v \in Recent \ {w} : StartedAlive(v)

\* run-existing loads the scan and looks for another live worker; if there is
\* one it raises typer.Exit(0), which its own except Exception clause catches.
Boot(w) ==
    /\ pc[w] = "boot" /\ kind[w] = "run"
    /\ pc' = [pc EXCEPT ![w] = IF OtherActive(w) THEN "failing" ELSE "precheck"]
    /\ cached' = [cached EXCEPT ![w] = status]
    /\ recent' = TRUE
    /\ UNCHANGED <<status, pauseReq, stopReq, toolShown, markers, blockedRuns, tableVars,
                   req, kind, left, prereq, detached, beat, afterHold>>

\* Configuration and doctor pass, the first phase is announced if the profile
\* has any, and the AI is asked for a plan ("ollama" is the current tool).
Precheck(w) ==
    /\ Goto(w, "precheck", "planning")
    /\ EmitStarting(w) \/ UNCHANGED <<status, cached>>
    /\ recent' = TRUE /\ toolShown' = TRUE
    /\ UNCHANGED <<pauseReq, stopReq, markers, blockedRuns, tableVars, req,
                   kind, left, prereq, detached, beat, afterHold>>

\* An invalid scan configuration closes the process row and exits through the
\* exception handler; so does an AI plan that cannot be had.
PrecheckFails(w) ==
    /\ \/ /\ Goto(w, "precheck", "failing")
          /\ Assign(w, "failed_precheck")
          /\ row' = IF row[w] = "none" THEN row ELSE [row EXCEPT ![w] = "failed"]
       \/ /\ Goto(w, "planning", "failing")
          /\ \E s \in {"failed_precheck", "failed_ai_timeout"} : Assign(w, s)
          /\ row' = row
    /\ recent' = TRUE
    /\ UNCHANGED <<pauseReq, stopReq, toolShown, markers, blockedRuns, rows, req,
                   kind, left, prereq, detached, beat, afterHold>>

\* run_prompt_scan begins: status planning, then scan_started.
EnterPlanning(w) ==
    /\ Goto(w, "planning", "preparing")
    /\ Assign(w, "planning")
    /\ recent' = TRUE
    /\ UNCHANGED <<pauseReq, stopReq, toolShown, markers, blockedRuns, tableVars, req,
                   kind, left, prereq, detached, beat, afterHold>>

ScanStarted(w) ==
    /\ Goto(w, "preparing", "starting")
    /\ EmitStarting(w)
    /\ recent' = TRUE
    /\ UNCHANGED <<pauseReq, stopReq, toolShown, markers, blockedRuns, tableVars, req,
                   kind, left, prereq, detached, beat, afterHold>>

\* READY is flushed, the tools are prepared under the row lock, and RUNNING is
\* what the commit makes visible.  `left' counts the tools this run will go
\* through, those an escalation adds included.
Prepare(w) ==
    /\ Goto(w, "starting", "loop")
    /\ status' = "running"
    /\ cached' = [cached EXCEPT ![w] = "running"]
    /\ \E n \in 0..MaxTools : left' = [left EXCEPT ![w] = n]
    /\ recent' = TRUE
    /\ UNCHANGED <<pauseReq, stopReq, toolShown, markers, blockedRuns, tableVars, req,
                   kind, prereq, detached, beat, afterHold>>

\* Mutant: the control check trusts the worker's copy of the row.
ControlCheckUnrefreshed(w) ==
    /\ pc[w] = "loop" /\ left[w] > 0
    /\ pc' = [pc EXCEPT ![w] = IF cached[w] \in {"stopping", "stopped"} THEN "haltstop"
                               ELSE IF cached[w] = "paused" THEN "haltpause" ELSE "gate"]
    /\ UNCHANGED <<scanVars, tableVars, req, kind, cached, left, prereq, detached, beat, afterHold>>

\* Mutant: the control check reads the status and neither flag.
ControlCheckStatusOnly(w) ==
    /\ pc[w] = "loop" /\ left[w] > 0
    /\ cached' = [cached EXCEPT ![w] = status]
    /\ pc' = [pc EXCEPT ![w] = IF status \in {"stopping", "stopped"} THEN "haltstop"
                               ELSE IF status = "paused" THEN "haltpause" ELSE "gate"]
    /\ UNCHANGED <<scanVars, tableVars, req, kind, left, prereq, detached, beat, afterHold>>

\* _scan_control_status at the head of the tool loop.
ControlCheck(w) ==
    LET seen == IF stopReq THEN "stopping" ELSE IF pauseReq THEN "paused" ELSE status
    IN  /\ pc[w] = "loop" /\ left[w] > 0
        /\ cached' = [cached EXCEPT ![w] = status]
        /\ pc' = [pc EXCEPT ![w] = IF seen \in {"stopping", "stopped"} THEN "haltstop"
                                   ELSE IF seen = "paused" THEN "haltpause" ELSE "gate"]
        /\ UNCHANGED <<scanVars, tableVars, req, kind, left, prereq, detached, beat, afterHold>>

\* A dependency is missing: the resolver runs up to MaxPrereqs other tools,
\* with a heartbeat each and no control check between them.
ResolveBegins(w) ==
    /\ Goto(w, "gate", "resolve")
    /\ \E n \in 0..MaxPrereqs : prereq' = [prereq EXCEPT ![w] = n]
    /\ recent' = TRUE
    /\ UNCHANGED <<status, pauseReq, stopReq, toolShown, markers, blockedRuns, tableVars, req,
                   kind, cached, left, detached, beat, afterHold>>

\* Mutant: the resolver runs once more when its list is used up.
ResolveRunsOnceMore(w) ==
    /\ pc[w] = "resolve" /\ BeatJoined(w)
    /\ prereq' = [prereq EXCEPT ![w] = @ - 1]
    /\ afterHold' = Counted(w, 1)
    /\ recent' = TRUE
    /\ UNCHANGED <<status, pauseReq, stopReq, toolShown, markers, blockedRuns, tableVars, req,
                   pc, kind, cached, left, detached, beat>>

ResolveRuns(w) ==
    /\ pc[w] = "resolve" /\ prereq[w] > 0 /\ BeatJoined(w)
    /\ prereq' = [prereq EXCEPT ![w] = @ - 1]
    /\ afterHold' = Counted(w, 1)
    /\ recent' = TRUE
    /\ UNCHANGED <<status, pauseReq, stopReq, toolShown, markers, blockedRuns, tableVars, req,
                   pc, kind, cached, left, detached, beat>>

AtTool(w) == pc[w] = "gate" \/ (pc[w] = "resolve" /\ prereq[w] = 0 /\ BeatJoined(w))

\* The tool stays blocked (recorded as missing_prerequisite), or the auth gate
\* excludes it (recorded in the plan only).
SkipTool(w) ==
    /\ AtTool(w)
    /\ pc' = [pc EXCEPT ![w] = "loop"]
    /\ left' = [left EXCEPT ![w] = @ - 1]
    /\ \/ blockedRuns' = TRUE /\ recent' = TRUE
       \/ pc[w] = "gate" /\ UNCHANGED <<blockedRuns, recent>>
    /\ UNCHANGED <<status, pauseReq, stopReq, toolShown, markers, tableVars, req,
                   kind, cached, prereq, detached, beat, afterHold>>

\* agent_started and tool_started, then the tool run's "running" marker, which
\* other sessions see once the tool emits anything.
StartTool(w) ==
    /\ AtTool(w)
    /\ pc' = [pc EXCEPT ![w] = "tool"]
    /\ EmitStarting(w)
    /\ markers' \in {markers, markers \cup {w}}
    /\ afterHold' = Counted(w, 1)
    /\ recent' = TRUE /\ toolShown' = TRUE
    /\ UNCHANGED <<pauseReq, stopReq, blockedRuns, tableVars, req,
                   kind, left, prereq, detached, beat>>

\* A failed artifact insert rolls the session back, which reloads the row; the
\* tool may be one of the loop, of the resolver or of a continuation.
ArtifactRollback(w) ==
    /\ "rollback" \in Hazards
    /\ pc[w] \in ToolStates \cup {"phasetool"} /\ cached[w] # status
    /\ cached' = [cached EXCEPT ![w] = status]
    /\ UNCHANGED <<scanVars, tableVars, req, pc, kind, left, prereq, detached, beat, afterHold>>

\* katana already ran as the crawler: the loop continues and leaves the marker
\* of this run at "running".
Deduplicate(w) ==
    /\ AtTool(w)
    /\ pc' = [pc EXCEPT ![w] = "loop"]
    /\ left' = [left EXCEPT ![w] = @ - 1]
    /\ EmitStarting(w)
    /\ markers' = markers \cup {"katana"}
    /\ recent' = TRUE /\ toolShown' = TRUE
    /\ UNCHANGED <<pauseReq, stopReq, blockedRuns, tableVars, req,
                   kind, prereq, detached, beat, afterHold>>

\* The tool returns, or raises one of the errors the loop records.
ToolEnds(w) ==
    /\ Goto(w, "tool", "loop") /\ BeatJoined(w)
    /\ left' = [left EXCEPT ![w] = @ - 1]
    /\ markers' = markers \ {w}
    /\ recent' = TRUE
    /\ UNCHANGED <<status, pauseReq, stopReq, toolShown, blockedRuns, tableVars, req,
                   kind, cached, prereq, detached, beat, afterHold>>

\* session_validation proves no authenticated behaviour: the workflow stops.
AuthBlocks(w) ==
    /\ Goto(w, "tool", "finish") /\ BeatJoined(w)
    /\ Assign(w, "auth_blocked")
    /\ markers' = markers \ {w}
    /\ recent' = TRUE
    /\ UNCHANGED <<pauseReq, stopReq, toolShown, blockedRuns, tableVars, req,
                   kind, left, prereq, detached, beat, afterHold>>

\* After the loop a held or auth-blocked copy returns without a review.
EarlyReturn(w) ==
    /\ left[w] = 0 /\ cached[w] \in Settled /\ Goto(w, "loop", "finish")
    /\ UNCHANGED <<scanVars, tableVars, req, kind, cached, left, prereq, detached, beat, afterHold>>

\* The evidence review opens with ai_call_started and runs under a heartbeat.
Review(w) ==
    /\ left[w] = 0 /\ cached[w] \notin Settled /\ Goto(w, "loop", "review")
    /\ EmitStarting(w)
    /\ recent' = TRUE /\ toolShown' = TRUE
    /\ UNCHANGED <<pauseReq, stopReq, markers, blockedRuns, tableVars, req,
                   kind, left, prereq, detached, beat, afterHold>>

FinalStatuses == {"completed", "completed_with_coverage_gaps", "auth_failed", "execution_error"}

Complete(w) ==
    /\ Goto(w, "review", "finish") /\ BeatJoined(w)
    /\ \E s \in FinalStatuses : Assign(w, s)
    /\ recent' = TRUE
    /\ UNCHANGED <<pauseReq, stopReq, toolShown, markers, blockedRuns, tableVars, req,
                   kind, left, prereq, detached, beat, afterHold>>

\* Reports are written and the worker closes its own process row, if there is
\* one yet.  A worker that broke off at a hold has not committed its verdict.
CloseRow(w) ==
    /\ \/ Goto(w, "finish", "closed")
       \/ Goto(w, "haltstop", "closedstop")
       \/ Goto(w, "haltpause", "closedpause")
    /\ row' = IF row[w] = "none" THEN row ELSE [row EXCEPT ![w] = "completed"]
    /\ UNCHANGED <<scanVars, rows, req, kind, cached, left, prereq, detached, beat, afterHold>>

\* Mutant: the process exits without committing the verdict.
ExitUncommitted(w) ==
    /\ pc[w] \in ClosedStates
    /\ Ends(w)
    /\ UNCHANGED <<scanVars, tableVars, req, kind, detached>>

\* The run's session commits, with it the stopped or paused of a hold, and the
\* process exits.
Exit(w) ==
    /\ pc[w] \in ClosedStates
    /\ Ends(w)
    /\ LET verdict == CASE pc[w] = "closedstop"  -> "stopped"
                        [] pc[w] = "closedpause" -> "paused"
                        [] OTHER                 -> cached[w]
       IN  status' = IF verdict = cached[w] THEN status ELSE verdict
    /\ UNCHANGED <<pauseReq, stopReq, recent, toolShown, markers, blockedRuns, tableVars,
                   req, kind, detached>>

\* Any other exception leaves the heartbeat of the tool it came from, rolls the
\* worker's session back and reaches the command's handler.
Raise(w) ==
    /\ pc[w] \in RunStates \ {"failing"}
    /\ BeatJoined(w)
    /\ pc' = [pc EXCEPT ![w] = "failing"]
    /\ UNCHANGED <<scanVars, tableVars, req, kind, cached, left, prereq, detached, beat, afterHold>>

\* Mutant: the handler closes the process row and forgets the scan.
FailRowOnly(w) ==
    /\ pc[w] = "failing"
    /\ Ends(w)
    /\ row' = IF row[w] = "none" THEN row ELSE [row EXCEPT ![w] = "crashed"]
    /\ UNCHANGED <<scanVars, rows, req, kind, detached>>

\* _mark_scan_worker_failed, in a session of its own.
Fail(w) ==
    /\ pc[w] = "failing"
    /\ Ends(w)
    /\ status' = "execution_error"
    /\ recent' = TRUE
    /\ row' = IF row[w] = "none" THEN row ELSE [row EXCEPT ![w] = "crashed"]
    /\ UNCHANGED <<pauseReq, stopReq, toolShown, markers, blockedRuns, rows, req,
                   kind, detached>>

\* SIGKILL, OOM, power, or a database that refuses the last writes too:
\* nothing is written.
Kill(w) ==
    /\ "kill" \in Hazards
    /\ Executing(w)
    /\ Ends(w)
    /\ UNCHANGED <<scanVars, tableVars, req, kind, detached>>

-------------------------------------------------------------------------------
(***************************************************************************)
(* scan continue and scan stop --force, run as worker commands             *)
(***************************************************************************)
\* scan continue sets running and takes the phase's tools that are not done.
ContinueBegins(w) ==
    /\ kind[w] = "continue" /\ Goto(w, "boot", "phase")
    /\ status' = "running"
    /\ cached' = [cached EXCEPT ![w] = "running"]
    /\ \E n \in 0..MaxTools : left' = [left EXCEPT ![w] = n]
    /\ recent' = TRUE /\ toolShown' = TRUE
    /\ UNCHANGED <<pauseReq, stopReq, markers, blockedRuns, tableVars, req,
                   kind, prereq, detached, beat, afterHold>>

\* A phase without tools is refused, or is the reporting phase.
ContinueRefused(w) ==
    /\ pc[w] = "boot" /\ kind[w] = "continue"
    /\ Ends(w)
    /\ UNCHANGED <<scanVars, tableVars, req, kind, detached>>

PhaseToolStarts(w) ==
    /\ left[w] > 0 /\ Goto(w, "phase", "phasetool")
    /\ EmitStarting(w)
    /\ afterHold' = Counted(w, 1)
    /\ recent' = TRUE
    /\ UNCHANGED <<pauseReq, stopReq, toolShown, markers, blockedRuns, tableVars, req,
                   kind, left, prereq, detached, beat>>

PhaseToolEnds(w) ==
    /\ Goto(w, "phasetool", "phase") /\ BeatJoined(w)
    /\ left' = [left EXCEPT ![w] = @ - 1]
    /\ recent' = TRUE
    /\ UNCHANGED <<status, pauseReq, stopReq, toolShown, markers, blockedRuns, tableVars, req,
                   kind, cached, prereq, detached, beat, afterHold>>

\* The phase is done: status ready.  The process row is never closed.
ContinueEnds(w) ==
    /\ pc[w] = "phase" /\ left[w] = 0
    /\ Ends(w)
    /\ status' = IF cached[w] = "ready" THEN status ELSE "ready"
    /\ recent' = TRUE
    /\ UNCHANGED <<pauseReq, stopReq, toolShown, markers, blockedRuns, tableVars, req,
                   kind, detached>>

StopForced(w) ==
    /\ pc[w] = "boot" /\ kind[w] = "stop"
    /\ Ends(w)
    /\ status' = "stopped"
    /\ recent' = TRUE
    /\ UNCHANGED <<pauseReq, stopReq, toolShown, markers, blockedRuns, tableVars, req,
                   kind, detached>>

-------------------------------------------------------------------------------
(***************************************************************************)
(* The heartbeat thread: a session of its own, a fresh read, and a write   *)
(* of running if what it read was neither running nor protected.           *)
(***************************************************************************)
BeatWakes(w) ==
    /\ pc[w] \in {"resolve", "tool", "review", "phasetool"}
    /\ pc[w] = "resolve" => prereq[w] > 0
    /\ beat[w] = "off"
    /\ beat' = [beat EXCEPT ![w] = "awake"]
    /\ UNCHANGED <<scanVars, tableVars, req, pc, kind, cached, left, prereq, detached, afterHold>>

BeatReads(w) ==
    /\ beat[w] = "awake"
    /\ beat' = [beat EXCEPT ![w] = IF status \in Protected \cup {"running"} THEN "off" ELSE "write"]
    /\ recent' = (recent \/ status \in Protected \cup {"running"})
    /\ toolShown' = (toolShown \/ status \in Protected \cup {"running"})
    /\ UNCHANGED <<status, pauseReq, stopReq, markers, blockedRuns, tableVars, req,
                   pc, kind, cached, left, prereq, detached, afterHold>>

BeatWrites(w) ==
    /\ beat[w] = "write"
    /\ beat' = [beat EXCEPT ![w] = "off"]
    /\ status' = "running"
    /\ recent' = TRUE /\ toolShown' = TRUE
    /\ UNCHANGED <<pauseReq, stopReq, markers, blockedRuns, tableVars, req,
                   pc, kind, cached, left, prereq, detached, afterHold>>

-------------------------------------------------------------------------------
RunStep(w) ==
    \/ Boot(w) \/ Precheck(w) \/ PrecheckFails(w) \/ EnterPlanning(w) \/ ScanStarted(w)
    \/ Prepare(w) \/ ControlCheck(w) \/ ResolveBegins(w) \/ ResolveRuns(w)
    \/ SkipTool(w) \/ StartTool(w) \/ Deduplicate(w) \/ ToolEnds(w) \/ AuthBlocks(w)
    \/ EarlyReturn(w) \/ Review(w) \/ Complete(w) \/ CloseRow(w)
    \/ Exit(w) \/ Fail(w)

CommandStep(w) ==
    \/ ContinueBegins(w) \/ ContinueRefused(w) \/ PhaseToolStarts(w) \/ PhaseToolEnds(w)
    \/ ContinueEnds(w) \/ StopForced(w)

BeatStep(w) == BeatReads(w) \/ BeatWrites(w)

WorkerStep(w) == RunStep(w) \/ CommandStep(w) \/ BeatStep(w)

Accident(w) == Raise(w) \/ ArtifactRollback(w) \/ Kill(w) \/ BeatWakes(w)

\* A scan is created and committed by the start request, whose thread is about
\* to look for a worker.
Init ==
    /\ status = "created" /\ pauseReq = FALSE /\ stopReq = FALSE
    /\ recent = TRUE /\ toolShown = FALSE /\ markers = {} /\ blockedRuns = FALSE
    /\ rows = <<>> /\ row = [w \in Workers |-> "none"]
    /\ \E h \in Handlers :
         req = [g \in Handlers |-> IF g = h THEN [Idle EXCEPT !.at = "lookup"] ELSE Idle]
    /\ pc = [w \in Workers |-> "none"]
    /\ kind = [w \in Workers |-> "run"]
    /\ cached = [w \in Workers |-> "created"]
    /\ left = [w \in Workers |-> 0]
    /\ prereq = [w \in Workers |-> 0]
    /\ detached = {}
    /\ beat = [w \in Workers |-> "off"]
    /\ afterHold = [w \in Workers |-> 0]

Next == Dashboard \/ Operator \/ \E w \in Workers : WorkerStep(w) \/ Accident(w)

Spec == Init /\ [][Next]_vars

===============================================================================
