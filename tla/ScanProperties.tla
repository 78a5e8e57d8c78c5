---------------------------- MODULE ScanProperties ----------------------------
(***************************************************************************)
(* What the shared scan row, the process table and the workers promise     *)
(* each other, and under which fairness.                                   *)
(***************************************************************************)
EXTENDS ScanControl

-------------------------------------------------------------------------------
(***************************************************************************)
(* Types                                                                   *)
(***************************************************************************)
WorkerStates == {"none"} \cup LiveStates \cup Ended
RowStatuses  == {"none", "started", "stale", "failed", "completed", "crashed"}

Requests == [at : {"idle", "write", "lookup", "spawn", "record"}, act : Actions,
             seen : Statuses, seenPause : BOOLEAN, worker : Workers \cup {"none"}]

\* Every variable has its type; only a request that is about to record a
\* process names a worker (app.py: _start_background_command).
TypeOK ==
    /\ status \in Statuses
    /\ pauseReq \in BOOLEAN /\ stopReq \in BOOLEAN
    /\ recent \in BOOLEAN /\ toolShown \in BOOLEAN /\ blockedRuns \in BOOLEAN
    /\ markers \subseteq Workers \cup {"katana"}
    /\ rows \in Seq(Workers)
    /\ row \in [Workers -> RowStatuses]
    /\ req \in [Handlers -> Requests]
    /\ \A h \in Handlers : req[h].at = "record" => req[h].worker \in Workers
    /\ pc \in [Workers -> WorkerStates]
    /\ kind \in [Workers -> Kinds]
    /\ cached \in [Workers -> Statuses]
    /\ left \in [Workers -> 0..MaxTools]
    /\ prereq \in [Workers -> 0..MaxPrereqs]
    /\ detached \subseteq Workers
    /\ beat \in [Workers -> {"off", "awake", "write"}]
    /\ afterHold \in [Workers -> Nat]

-------------------------------------------------------------------------------
(***************************************************************************)
(* Safety                                                                  *)
(***************************************************************************)
\* A pause or stop of the dashboard is honoured soon: once its flag is
\* committed, a run-existing worker begins at most the tool it had already been
\* let through the control check for, after that tool's prerequisites.  It does
\* not matter what the worker's copy of the row, another request, a command or
\* a heartbeat makes of the status column (prompt_runner.py: the loop of
\* run_prompt_scan and _resolve_missing_prerequisite).
HoldBound ==
    \A w \in Workers : kind[w] = "run" => afterHold[w] <= MaxPrereqs + 1

\* Tools are begun as HoldPermits has it: the control check permits a run one
\* tool and its prerequisites, and only what has been permitted is begun; no
\* exception, skipped tool, rollback or restart leaves a permit behind or adds
\* to one, and only a resume that withdraws every flag ends the hold
\* (prompt_runner.py: the loop of run_prompt_scan, _scan_control_status and
\* _resolve_missing_prerequisite; services.py: scan_action).
Permit(w) == CASE pc[w] = "gate"    -> MaxPrereqs + 1
               [] pc[w] = "resolve" -> prereq[w] + 1
               [] OTHER             -> 0
Begun(w)  == IF kind[w] = "run" THEN afterHold[w] ELSE 0
Permits   == INSTANCE HoldPermits WITH Runs <- Workers, Limit <- MaxPrereqs + 1, hold <- Hold,
                 permit <- [w \in Workers |-> Permit(w)], begun <- [w \in Workers |-> Begun(w)]
ToolsArePermitted == Permits!Spec

\* A worker at work on the scan: it runs tools or writes their reports.
Testing(w) == pc[w] \in LiveStates \ (ClosedStates \cup {"failing"})

\* A dashboard that handles one request at a time never has two workers of the
\* scan testing the target: every way to start one passes the lookup of
\* _start_background_command, whatever the buttons, the command line and the
\* tables say.
OneTester == \A v, w \in Workers : Testing(v) /\ Testing(w) => v = w

\* A scan nobody works on does not claim to run: whoever wrote planning or
\* running last has replaced it before leaving (run_prompt_scan,
\* _mark_scan_worker_failed, scan_continue, the heartbeat).
QuietScanIsNotRunning ==
    (\A w \in Workers : ~Executing(w)) => status \notin {"planning", "running"}

\* What a worker writes when it has decided how the scan ended.
Decided == FinalStatuses \cup {"auth_blocked"} \cup Failed

\* With one worker, a heartbeat that read the row before the verdict does not
\* write running over it: the worker decides only after the heartbeat of its
\* last tool is joined (progress.py: heartbeat and emit_progress).
VerdictOutlivesHeartbeat ==
    [][\A w \in Workers : BeatWrites(w) => status \notin Decided]_vars

-------------------------------------------------------------------------------
(***************************************************************************)
(* Fairness.  A request thread runs to the end of its handler.  A worker   *)
(* goes on: a tool returns (each has a timeout) whatever its heartbeat     *)
(* does, hence strong fairness; a heartbeat thread that woke up finishes   *)
(* its beat.  Nothing is assumed of operators, crashes, or the clock.      *)
(***************************************************************************)
HandlerStep(h) ==
    \/ Write(h) \/ AlreadyRunning(h) \/ NoneRunning(h) \/ Record(h)
    \/ \E w \in Workers : Spawn(h, w)

Fairness ==
    /\ \A h \in Handlers : WF_vars(HandlerStep(h))
    /\ \A w \in Workers : /\ SF_vars(RunStep(w) \/ CommandStep(w))
                          /\ WF_vars(BeatStep(w))

FairSpec == Spec /\ Fairness

\* The worker has not yet decided how the run ends.
Undecided(w) ==
    /\ kind[w] = "run"
    /\ pc[w] \in {"boot", "precheck", "planning", "preparing", "starting", "loop",
                  "gate", "review"} \cup ToolStates

-------------------------------------------------------------------------------
(***************************************************************************)
(* Liveness                                                                *)
(***************************************************************************)
\* A stop that reaches an undecided run is carried out or overtaken: the scan
\* does not stay in stopping (services.py: scan_action; prompt_runner.py: the
\* control check, the early return, the final status).
StoppingSettles ==
    \A w \in Workers :
        (status = "stopping" /\ Undecided(w)) ~> (status # "stopping")

-------------------------------------------------------------------------------
(***************************************************************************)
(* What the program says of itself and does not keep                       *)
(***************************************************************************)
\* A worker that finds another one at work only leaves: the scan is not marked
\* as crashed under the one at work (cli.py: scan_run_existing).
ErrorMeansNobodyTests == status = "execution_error" => ~\E w \in Workers : Testing(w)

===============================================================================
