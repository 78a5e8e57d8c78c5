# SAIF in TLA+

SAIF runs authorized web and API security scans: a FastAPI dashboard and a Typer
command line start worker processes, each worker plans a scan, runs tools one
after the other, and reports. This directory models the parts of it that are
concurrent, that survive crashes, or that decide what a scan may do and what it
may claim. The modules are translated from the Python source under `src/saif`;
PROJECT.json maps every definition to its lines.

    tlc -config Hazards.cfg MCScanControl      # any run: see "The runs"
    tlapm ScanControl_proofs.tla               # the proofs, one call per module:
    tlapm ToolLoop_proofs.tla
    tlapm AiCalls_proofs.tla
    tlapm ToolSupply_proofs.tla
    tlapm PhaseBook_proofs.tla
    tlapm ScanPlan_proofs.tla
    tlapm DashboardServer_proofs.tla
    tlapm DataLemmas.tla

## Inventory

**Scan control** (`dashboard/app.py`, `dashboard/services.py`,
`dashboard/actions.py`, `services/progress.py`, `cli.py`, the loop of
`services/prompt_runner.py`). One row of the table `scans`, one row of
`scan_processes` per tracked worker, `tool_runs` and `scan_events`. Request
threads validate a button against a snapshot, write the row, look for a live
worker and spawn one, each in a transaction of its own. A worker keeps one ORM
object for hours and re-reads the row at one place only; a heartbeat thread per
tool and the command line write the same row. Hard: every pair of these writers
interleaves, processes die, children become zombies, a transaction can fail
between two steps. Correct when: a pause or stop is obeyed soon, at most one
worker tests the target, the row never claims more activity than there is, and a
verdict is not overwritten.

**Scan configuration and plans** (`services/scan_config.py`,
`services/profiles.py`, `dashboard/app.py`, `cli.py`, planning in
`prompt_runner.py`). The options of a scan live in its columns, in
`scan_config` and in its creation event; each run merges them again, rewrites
them, selects tools and writes a plan against which recorded tools are compared.
Hard: three copies, reruns, continuations, tools that could not be prepared.
Correct when: an accepted scan is never refused later, what changes data was
confirmed, and a rerun plans the same, whatever the model answers.

**Tool supply** (`services/tool_manager.py`, `agents/install_agent.py`,
`_attempt_missing_tool_install`). What is installed on the machine, the registry
of tools, and each process's attempts. Hard: partial failures, retries, two
processes on one registry. Correct when: a program is installed at most once per
process, no tool runs without its program, and a tool that drops out leaves an
explanation.

**Tool loop and authentication pipeline** (`services/prompt_runner.py`). The plan,
the auth gate and the profile live in `scan.scan_config`; tool runs, test cases,
sessions, credentials, tokens, endpoints and objects in tables; the captured
secrets in a file. Each planned tool gets one turn; a missing prerequisite is
resolved by running other tools from inside it. Hard: the gate is a stored value
and gets stale, a tool can fail between two of its writes, a rerun meets the rows
of another selection. Correct when: two users' sessions are compared only if
there are two, every selected tool is accounted for, every run ends, and a run is
not blamed for what it did not do.

**AI calls** (`ai/gate.py`, `ai/advisor.py`, `ai/ollama.py`, `ai/runtime.py`,
`ai/tracing.py`, two agents). A question is retried with a growing pause inside a
budget; each call is remembered by a counter, a trace file, an index and a row.
Hard: a death between any two of these writes. Correct when: the four agree, the
cap holds over restarts, a call ends within its budget and is recorded.

**Phases, test cases, readiness** (`services/case_management.py`, their writers in
`prompt_runner.py` and `cli.py`). Phase rows are derived from tool runs whenever
somebody looks, and written back by whoever looked. Hard: readers overtaken by the
worker, runs stopped and crashed in between, tools that leave no row. Correct when: a
phase never goes back, coverage has evidence, a completed scan has no open case, and
nothing is called ready that is not.

**Dashboard process** (`services/dashboard.py`). A process id file, a state file
and the port; start, stop, status. Hard: neither file is removed when a server
ends, ids are used again, the check of the port and its use are apart, and the check
asks the loopback whatever interface the server listens on. Correct
when: a server that serves can be found, and a stop ends it and nothing else.

**Findings** (`dashboard/actions.py`, `dashboard/services.py`, `cli.py`). Buttons
and commands that each assign one status; see "Not modelled".

**The rest.** Pages and polling, reports and debug export, importers, passive
analysis, browser capture, the HTTP side of some forty tools, static registries,
the environment doctor, migrations, packaging, and an earlier agent orchestrator
no command starts. They keep no state that other parts race for; PROJECT.json
lists each of them with its reason.

## The modules

| component | module | properties | instances | proofs |
|---|---|---|---|---|
| scan control | `ScanControl` | `ScanProperties`, refines `HoldPermits` | `MCScanControl` | `ScanControl_proofs` |
| tool loop, authentication | `ToolLoop` | `ToolProperties` | `MCToolLoop` | `ToolLoop_proofs` |
| AI calls | `AiCalls` | `AiProperties` | `MCAiCalls` | `AiCalls_proofs` |
| tool supply | `ToolSupply` | `SupplyProperties` | `MCToolSupply` | `ToolSupply_proofs` |
| phases, readiness | `PhaseBook` | `PhaseProperties` | `MCPhaseBook` | `PhaseBook_proofs` |
| options, plans | `ScanPlan` | `PlanProperties` | `MCScanPlan` | `ScanPlan_proofs` |
| dashboard process | `DashboardServer` | `ServerProperties`, refines `ServerBook` | `MCDashboardServer` | `DashboardServer_proofs` |

The modules meet at the scan row. `ScanControl` has everybody who writes its
status and takes from a tool only that it ends, raises or blocks; `ToolLoop`,
`AiCalls`, `ToolSupply`, `PhaseBook` and `ScanPlan` each open one thing that
happens inside a worker's run, and may be stopped or crash wherever `ScanControl`
lets a worker be stopped or crash. `ScanPlan` says which tools reach the loop,
`ToolSupply` which of them have their program, `ToolLoop` what becomes of them,
and `PhaseBook` what is said of that. Two modules model nothing. `OrderedPicks` has
`InOrder`, the elements of a list that are in a set, which the supply and the phases
both need, as a recursive function that the prover can unfold. `DataLemmas` has the
facts about powers of two, finite sets and lists that the proofs share; where one needs
induction, it is said of the set of numbers for which the fact holds (`NaturalsAreIn`).

### ScanControl

State: the row's columns (`status`, `pauseReq`, `stopReq`; `recent`,
`toolShown` and `markers` for what staleness is computed from), the process
table (`rows`, `row`), one pending request per dashboard thread (`req`), and per
worker its program counter, the kind of command it runs, its ORM copy of the
status (`cached`), tools left, its heartbeat (`beat`) and the history variable
`afterHold`: tools begun since a hold flag was committed.

The central device is `Assign`: with `expire_on_commit=False` an object keeps what
was loaded, an assignment equal to the copy is no UPDATE, and one that differs
overwrites whatever others have written since. Only `ControlCheck` refreshes.
A dashboard request is `Receive` (validate), `Write`, a lookup
(`AlreadyRunning`, `NoneRunning`), `Spawn` and `Record`: the transactions of
`api_scan_action` and `_start_background_command`. A worker goes
`Boot`, `Precheck`, `EnterPlanning`, `ScanStarted`, `Prepare`, then per tool
`ControlCheck`, `AtTool`, possibly `ResolveBegins` and `ResolveRuns`,
`StartTool`, `ToolEnds`, and leaves through `Review`, `Complete`, `CloseRow` and
`Exit`, or through `EarlyReturn`, or through `Raise` and `Fail`. `Beat...` is the
heartbeat thread: it reads, and writes what it read later. `Continue...` is the
phase continuation, `StopForced` is `scan stop --force`.

The environment is a set of hazards, each enabled by name: `kill` (SIGKILL of a
worker), `record` (Popen or the insert fails), `restart` (the server dies and comes
back), `terminal` (workers started from a shell), `cli` (pause, resume and stop
commands), `latebeat` (a heartbeat outlives the join), `rollback` (a failed
artifact insert rolls the worker's session back).

Abstracted: what a tool does (it ends, raises or blocks); timestamps (`recent` is set
by writes and may expire at any moment); messages, logs and events. A status held
only between two flushes of one transaction (READY under the row lock of the
worker's uncommitted UPDATE) is never visible and is left out; a write that waits
for such a lock is linearised where it proceeds. Escalation tools are counted in the
plan from the start. `terminate()` is instantaneous; pids are not reused. An
exception in a continuation, or in the crash handler itself, ends the process as a
kill does. The FAILED status of a scan without project or target and the
`scan start` command, which creates its own scan in the foreground, are left out.
That a stale row needs a current_phase among the control phases beside a missing
current_tool (`progress.py:175`) is one flag here, `toolShown`: whoever writes another
phase writes a tool with it. Whether a starting event is emitted at the precheck depends
on `workflow_phases` (`cli.py:644`), which are open.

`HoldPermits` is the abstract specification of holds: a run gets a permit while nobody
asks for a hold, begins tools with it, may give up what is left, and loses it when it
ends. In the code the permit is a place in the program: a run at the gate (`Permit`) may
begin `MaxPrereqs` prerequisites and a tool, one in the resolver what it still has to
resolve and the tool, and one anywhere else nothing.

### ToolLoop

State: the run (`status`, `profile`, `plan`, `next`), the body being executed
(`pc`, `cur`, `host` for the tool a resolver action serves, `todo`, `users`,
`good`), in-memory `results`, the recorded `toolRun`, `case`, `blamed` and
`covered`, and what was found: `endpoints`, `credentials`, `session`, `secret`,
`token`, `inventory`, `gate`, `objects`. A turn is `BlockedByGate`,
`MarkingFails`, `Starts` or `Waits`; `Resolves` and `Resolved` are the resolver;
the tools follow, login and validation with one step per account; `Raises` is an
exception the loop handles, `Crashes` one it does not, or a kill. `Begin` starts
the next run on what the last one left.

Eight tools stand for the catalogue: one discovery tool, provisioning, login,
validation, crawling, both authorization tools, one payload tool. What other
discovery tools find, `api_method_probe` finds here. A tool's status is kept as
succeeded, failed or other, which is what the loop tells apart. The workflow
inventory is five booleans the proof of behaviour reads from it; rebuilding it may
give any of them, which over-approximates (rows are never lost in the code).
Inventory and proof are rebuilt in one step, and a crash falls between steps, not
between two commits of one. A destructive profile is taken to have destructive
tests and authenticated testing allowed; `focused` says that authorization
categories were chosen. `_maybe_escalate_after_profile_probe` is left out: it can
add no tool, since its candidates are taken from those already planned.

### AiCalls

State: per process where it is in its run (`place`), how far its call is (`at`),
what it knows of it (`call`), its copy of the count and of the index (`copy`,
`seen`); in the database and the files the count (`advised`), the trace files
(`trace`), the index (`index`) and the rows (`row`). A call is begun at its place
(precheck, planning, tools, review, wording), announced (the count is committed),
chatted (`Answered`, `Refused`, `ServerErrs`, `AttemptFails`, `GivesUp`), settled in
its trace, indexed in three steps (`ReadIndex`, `TruncateIndex`, `WriteIndex`: the
file is truncated before it is written) and recorded. `Kill` ends the process
anywhere; the scan is started again.

External: Ollama answers in one piece, so an attempt lasts at most its connect, write
and read timeouts (each call has a connection pool of its own, on which it never waits);
time is counted in units. The chat of `ensure_ai_ready` has a timeout of its own
(`Ready`). A process is single threaded, so the lock of `queued_ai_call` never waits,
and it excludes no other process. Left out: the contents of prompts and decisions (an
answer is accepted or rejected) and the agent reactions file. With `rival`, two
processes of one scan call at once; then the index loses entries and the cap is counted
twice, so that the properties are stated of one process at a time, which `OneTester`
gives under its own conditions.

### ToolSupply

State: what is on the machine (`present`) and the registry's rows, shared; per
process its job, selection, the dependencies tried, the attempts, the plan, its
copy of the registry, what it recorded, skipped and ran. A scan prepares its tools
one by one (`InstallBegins`, `InstallEnds`, `KatanaWithoutGo`), writes the registry
after reading it (two steps), records the failures (`RecordAttempts`), and tries an
install plan for a tool that is missing in the loop. The commands `tools status`,
`tools refresh`, `install-tools` and `install-tool` share the steps.
An installer may end with any code and have put its program there or not.
Left out: `apt-get update` and `upgrade`, the safety check of a command's text, plan
events, the installation browser capture asks for. The advisor's plan is used whether
its guardrails approved it or not, as in the code.

### PhaseBook

State: the phase rows, the tool runs of each tool in order (`rows`), the test and
coverage cases, whether a severe finding is open, the scan's status, the worker and,
per reader, the phases it read and the verdict it found. `Derive` is
`sync_scan_phases`: where a tool has several rows, any of them may be the one that
counts, as the query has no order. A reader ensures the rows, derives, computes the
readiness and commits only the rows it has changed in its session. A tool leaves the
loop with a row (`EndTool`, `BlockTool`) or without one (`SkipTool` if it is not selected,
`GateTool` if the authentication gate holds it back, which marks its case); `GateStops` is
the run that ends there. `StartContinue` is a continuation of a phase, or of the tools of
several phases with `--full` (`FullTools`); the continuation of the phase reporting runs
no tool and is a reader that marks its own phase as well (`Reported`).
Left out: agents, applications, evidence counts, finding ids. The gate's verdict is open
here (it is `ToolLoop`'s), its mark counts as committed with the step, and a run takes
its tools in one order of each choice, since nothing in the books depends on it.

### ScanPlan

State: the options in `config`, the columns `row`, the creation event `event`, the plan,
`flagged`, `status`, planned `cases`, recorded `runs`, and the worker. `MayStart`,
`Normalized`, `Complete`, `Merged` are the way of the options from the form to a run;
`Selected` is what `select_tools`, `tools_for_execution_profile`, the model's plan and
the category map make of them. The model is offered `PlanTools`, may name any of them
(the fallback names all), and what it names goes through `Aliases`, by which `crawler`
becomes katana, that no other source selects. `WritePlan` compares what has ever run
with the plan of now. Left out: the guard of `destructive_method_policy` in `api_start`,
account options, bare addresses as targets, the policy `disabled`.

### DashboardServer and ServerBook

State: what each process id is (`proc`: nothing, a start at one of its steps, a server,
a closing server, another program), the port and the interfaces it was given (`want`),
who listens on each port of each interface (`owner`), the two files, pending SIGTERMs
and the stop commands. A host is what `Listens` makes of it: the loopback, another
interface, or all of them. A start asks for the port on the loopback (`Seen`), empties
and writes each file, and binds the interfaces of its host; a stop reads both files,
kills, waits until nobody answers on the loopback, removes the file. External: uvicorn
closes its port at once on SIGTERM, ends when its connections do, and exits when it
cannot bind; other programs take ports and reused ids. On POSIX `_port_owner` never
finds the process, so that a second start always fails and never answers "already
running" (`dashboard.py:41`).

`ServerBook` is the abstract specification: a server, a written id and a written port;
what is written changes only while nobody serves, and only a server that is written
down begins to serve. The server of the refinement is the one that answers on the
loopback (`Reached`): one that listens on another interface only is not seen by either
command, and the findings say what becomes of it.

## The runs

| run | expects | asks |
|---|---|---|
| Hazards | pass | Is a hold honoured under kills, failing tracking, restarts, terminal use, rolled back sessions and late heartbeats? |
| StopSettles | pass | With an operator at the command line: does a stop come to an end, is a verdict left alone, is the hold honoured? |
| QuietRow | pass | Can two workers test at once, can the row claim to run when nobody works? |
| Duplicate | violation | See Findings |
| Rerun | pass | Are authorization, accounting, blame and termination right over a run and a rerun? |
| AiRecords | pass | Do the four records of a call agree over deaths and restarts, do cap and budget hold? |
| Supply | pass | Two processes install from one machine and write one registry: are attempts, counts, drops and dependencies right? |
| Phases | pass | A worker of two phases gated, stopped and crashed anywhere, an overtaken reader: what may the books be trusted for? |
| Plans | pass | Every combination of profile, policy and flags from dashboard or terminal, any answer of the model, run, continued and run again: is it accepted, confirmed, repeated? |
| RerunFlagged | violation | See Findings |
| Server | pass | Is a server found, stopped and written down, whatever dies and whoever takes its port or id? |
| StrayKill | violation | See Findings |

Properties of scan control:

- `HoldBound`: after a pause or stop flag is committed, a run begins at most the
  one tool it was already let through for, after that tool's prerequisites.
- `ToolsArePermitted`: the scan implements `HoldPermits`, which says why: no skipped
  tool, exception, rollback or restart adds to a permit, and only a resume that
  withdraws every flag ends a hold.
- `OneTester`: with one request at a time, two workers never test together.
- `QuietScanIsNotRunning`: when no worker is left the status is neither planning
  nor running. It relates the row, the ORM copies, the handlers of failures and the
  heartbeats; it fails with kills (nobody replaces the status), with `latebeat`,
  with `terminal` or `restart` (a worker nobody tracks outlives another) and with
  `rollback`, so its run has none of these.
- `VerdictOutlivesHeartbeat`: with one worker, a heartbeat never writes over a
  verdict. With `latebeat`, or beside a second worker, it does.
- `StoppingSettles`: a stop that reaches an undecided run is carried out or overtaken.

Of the tool loop:

- `AuthorizationNeedsTwoUsers`: an authorization tool is entered only with two
  logged-in accounts, replayable requests and an object, although the resolver's
  retry does not ask the gate and the gate may be older than the sessions.
- `EveryToolIsAnsweredFor`: a completed run has for each selected tool a result or
  a test case that says authentication stood in the way.
- `FirstRunIsNotFlagged`: a first run is never flagged for unselected tools.
- `RunEnds`: every run ends.

Of AI calls: `RowsHaveTraces` (a row's trace is final, and the row says what became
of the call), `CapHolds`, `IndexListsCalls`, `BudgetHeld` (a chat overruns its budget by
no more than the connect and the write of one attempt, or by what its last pause
exceeded its check) and
`CallsAreRecorded` (a call of a living process comes to its row).

Of tool supply: `InstalledOnce`, `CountsAreAttempts`, `DropsAreExplained`,
`ToolsHaveDependencies` and `InstallToolsInstalls` (when no installer fails,
`install-tools` loses at most katana, which comes before the go it needs).

Of the books: `PhasesGoForward` (a begun phase is never planned again),
`CasesAreSettled`, `CoverageHasEvidence`, `ReadyIsEarned` (no open severe finding,
every required tool tried, no failed authenticated phase) and `RunningHeals` (the phases of
a completed scan that say running, because an overtaken reader or a continuation wrote
it, are put right by the next reader, if some tool of the phase has a row and none asks
for confirmation by hand).

Of plans: `RerunsAreAccepted`, `ConsentIsGiven`, `PlansRepeat` (every run of a
dashboard's scan selects the same tools, but for those that only an alias in the model's
answer can bring: `OnlyNamed`, in the code katana) and `RecordedAreChosen` (nothing
outside the chosen categories is recorded).

Of the server: `ServedIsTracked` (the files name who answers on the loopback),
`KeepsTheBook` (the refinement) and `StopTakesEffect`.

Every property has in PROJECT.json a mutant, a plausible bug in one
mapped definition; the mutant operators stand beside what they alter, marked as such.

### Bounds

*Scan control.* Two workers are the least that can meet, and a third would repeat what
the second does: the code compares a worker with "another active pid" only. Two request
threads are the least that race a lookup. `MaxTools = 2` gives a tool before and after
the control check, `MaxPrereqs = 1` a resolver that runs something; `RecentRows = 5` is
the code's own limit and is larger than the number of workers. One worker is used where
the property speaks of one. `cli` is in another run than the other hazards only to keep
the instances small. *Tool loop.* Two accounts are what authorization needs; two runs
are the least with a past; the selections make the resolver run every tool on somebody's
behalf, let a rerun meet rows outside its selection, and start an authorization scan on
old findings. *AI calls.* Three attempts give a pause that doubles and exceeds what
opening an attempt takes; two recorded calls are the least of which one can lose the
other; a cap of one can be exceeded by a second call or a second life. *Supply.* Two
processes, five of the jobs, and four dependencies: one two tools share, two of which
one needs the other, one only plans install. *Phases.* A tool of a phase that readiness
looks at, held back by the gate, and one of another phase: what one of them leaves, a
run of the other completes. `MaxRows = 2` is a run of one tool (marker and result), or
two continuations, of which the second may run the same tool again; three results are
those that readiness and coverage treat differently. *Plans.* Five tools: always there,
one offered to the model and the program its name stands for, payload, rate limit; every
profile, two policies, every subset of five flags, three choices of categories.
*Server.* Three ids (a server, a stop's victim, a stranger), three hosts (loopback,
another interface, all), a port that is not the configured one, one stop. The proofs
lift what they cover to all values.

Deadlock is not checked: a scan that was run, with all processes used up or all bounds
met, rightly stops.

### Fairness

`FairSpec` of scan control: each request thread runs its handler to the end (weak). A
worker's next step is strongly fair, because its heartbeat may hold the row again and
again, while each tool and each AI call has a timeout. A heartbeat that woke finishes
its beat (weak). `FairRun` of the tool loop: the worker is one sequential process whose
subprocesses and HTTP requests have timeouts, so `Works` is weakly fair; neither a further
run nor a pause has to come. AI calls: a process goes on with its call (weak), since a
chat has timeouts; it need not be started again, and may be killed. Phases: a
reader goes on and comes again (weak), since the dashboard polls; nothing is assumed of
the worker. Server: a started process gets to serve or ends, a signalled one reacts, a
stop goes on (weak). Nothing is assumed of operators, kills, other programs or the clock.

## What is proved

Every safety property of a passing run is also a theorem, for all values of the
constants that meet the named assumptions: any number of workers, requests, tools,
attempts, processes and rows. Where a theorem has hypotheses of its own they cover the
instance of the run, and TLC finds the property violated when one of them is dropped,
but for the exception named at *QuietScansStop*.

| module | theorems | properties |
|---|---|---|
| `ScanControl_proofs` | `TypeCorrect`, `HoldIsHonoured`, `OneTesterAtATime`, `VerdictsOutliveHeartbeats`, `QuietScansStop` | `TypeOK`, `HoldBound`, `OneTester`, `VerdictOutlivesHeartbeat`, `QuietScanIsNotRunning` |
| | `ToolsHavePermits`, `OnePermitAtMost` | `ToolsArePermitted` and, from it, `HoldBound` |
| `ToolLoop_proofs` | `ToolsAreTyped`, `AuthorizationIsGated`, `FirstRunUnflagged`, `CompletedScansAnswer` | `ToolTypeOK`, `AuthorizationNeedsTwoUsers`, `FirstRunIsNotFlagged`, `EveryToolIsAnsweredFor` |
| `AiCalls_proofs` | `CallsAreTyped`, `ChatsKeepTheirBudget`, `RowsAreTraced`, `AdvisorIsCapped`, `RecordedAreIndexed` | `AiTypeOK`, `BudgetHeld`, `RowsHaveTraces`, `CapHolds`, `IndexListsCalls` |
| `ToolSupply_proofs` | `SuppliesAreTyped`, `DependenciesAreInstalledOnce`, `CountsAreOfAttempts`, `NoToolWithoutDependency`, `DroppedToolsAreExplained`, `InstallToolsDoesInstall` | `SupplyTypeOK`, `InstalledOnce`, `CountsAreAttempts`, `ToolsHaveDependencies`, `DropsAreExplained`, `InstallToolsInstalls` |
| `PhaseBook_proofs` | `BooksAreTyped`, `PhasesOnlyGoForward`, `ReadinessIsEarned`, `CasesAreClosed`, `CoverageIsEarned` | `PhaseTypeOK`, `PhasesGoForward`, `ReadyIsEarned`, `CasesAreSettled`, `CoverageHasEvidence` |
| `ScanPlan_proofs` | `Types`, `Consent`, `Accepted`, `Repeat`, `Chosen` | `PlanTypeOK`, `ConsentIsGiven`, `RerunsAreAccepted`, `PlansRepeat`, `RecordedAreChosen` |
| `DashboardServer_proofs` | `Types`, `Tracked`, `Refinement` | `ServerTypeOK`, `ServedIsTracked`, `KeepsTheBook` |

*Scan control.*

- *TypeCorrect* needs one conjunct beyond `TypeOK`: a worker between the head of its
  loop and the end of a tool has tools left, so that the counter does not underflow.
- *HoldIsHonoured* needs no hypothesis on hazards. `HoldBound` alone is not inductive:
  `HoldInv` ties the count to the program counter. While no hold flag is set every
  `afterHold` is 0; a worker that has not passed its first control check has begun
  nothing; while prerequisites are resolved `afterHold + prereq <= MaxPrereqs`, so
  that entering the tool itself reaches `MaxPrereqs + 1` at most; and only
  continuations are in the phases, which have no control check.
- *ToolsHavePermits* shows that each step is a step of `HoldPermits` or a stutter. Every
  worker's move is one of five (`PermitMove`), and a request that writes the row asks for
  a hold, lifts it, or neither. *OnePermitAtMost* then needs nothing of the code: what was
  begun under a hold plus what may still be begun is at most one permit
  (`WithinOnePermit`, which is inductive as it stands), and that is `HoldBound`.
- *OneTesterAtATime* assumes one request thread and none of the hazards `restart` and
  `terminal`. `TesterInv`: every testing worker either has a row the lookup finds, or is
  the one the request at `record` is about to insert; while a request is at `spawn`
  nobody tests; while it is at `record` only its own worker may. A lookup that answers
  "none running" therefore means that nobody tests.
- *VerdictsOutliveHeartbeats* assumes one worker and neither late heartbeats nor failing
  starts (one that fails beside a worker from the terminal, when a second request has
  resumed it, is written over). `BeatInv`: a heartbeat is awake only while its worker resolves prerequisites,
  runs a tool, reviews it or tests a phase, since each is joined before the next step.
  `VerdictInv`: while the worker is in its loop the row has no verdict. So whenever a
  heartbeat writes from a row read earlier, there is nothing to write over.
- *QuietScansStop* assumes one request thread and no hazard but the command line's
  writes. `QuietInv`: when the row says planning or running, some worker `Answers` for
  it, that is, has a write of another status still before it; and each worker is
  `Sound`. The second part is what the ORM makes necessary: an attribute assigned the
  value the session already has is not written, so that the last write could get lost.
  It is not, because in the loop the copy is neither a hold nor a verdict, and at a
  review or a phase it is "running". That no other worker's answer is lost with it is
  *OneTesterAtATime*, for which there has to be one request thread. With two, TLC found
  no violation in the states it reached.

*Tool loop.*

- *ToolsAreTyped* is inductive in four parts: the run, its place in the plan and in the
  resolver, the records, and what was found.
- *AuthorizationIsGated*: the gate value alone is not enough, because sessions change
  after it was computed. The invariant `GateInv` says: the gate being ready implies two
  logged-in users and candidates in the last inventory (logging in never removes a
  login, and each rebuild of the inventory recomputes the gate); resolver actions are
  never authorization tools; an entered authorization tool has a ready gate and an object.
- *FirstRunUnflagged*: `FlagInv` says that in the first run every tool with a row is
  selected, that the resolver works for a selected tool, and that what is being executed
  is selected or serves one that is. The resolver calls tools outside the selection, and
  the guard in `_record_tool` is what keeps them from leaving a row.
- *CompletedScansAnswer*: `AnswerInv` says that a run that goes on is "running" and that
  each tool before its place in the plan has a result or the gate's mark, but for the one
  in hand (`InHand`): the tool that runs, or the one on whose behalf the resolver runs
  another. Who that is the proof has from `FlagInv`.

*AI calls.*

- *CallsAreTyped* and *ChatsKeepTheirBudget* come from one invariant: that no time
  counter leaves the naturals depends on what is left of the budget when a pause is
  chosen. Powers of two are the pauses (`DataLemmas`).
- *RowsAreTraced*: `TraceInv` adds that numbers of calls not yet made have no row and
  no two processes have the same call (`Numbered`), that a call under way has no row
  (`UnderWay`), and that what a process is about to write into the row agrees with the
  trace it has already written (`Agrees`). Any number of processes, killed anywhere.
- *AdvisorIsCapped* assumes processes that run one after another (no fault "rival").
  `CapInv`: the number of times the advisor was asked is the committed count, which is
  within the cap; the running process's copy equals it, but between count and commit,
  where it is one ahead and still within the cap.
- *RecordedAreIndexed* assumes the same. `IndexInv`: unless some process died
  between truncating and writing, every recorded call is in the file, but while it
  is being written, when it is in what the writer has read; and a call about to be
  recorded is in the file already.

*Tool supply.*

- *SuppliesAreTyped*: `Shapes` has the types more closely, `Course` what a process of
  each job can have at each point; each needs the other.
- *DependenciesAreInstalledOnce*: `Once` says that what has been attempted is in the
  process's memory of attempts, and that no two attempts, nor an attempt and the
  installer running, are for the same dependency.
- *CountsAreOfAttempts*: a process writes back counts it read before others wrote
  theirs. `CountInv` bounds both the registry's count and each process's copy by the
  number of processes that tried the dependency and have written it (`Written`). This is
  where the processes have to be finitely many.
- *NoToolWithoutDependency* is an invariant about what has been run, given `Course`.
- *DroppedToolsAreExplained*: before the report each chosen tool is planned, still to
  come, or has an attempt that did not complete (`Kept`); after it, it has an entry
  (`Explained`). Attempts become entries in the order of the registry, so that the proof
  needs that `InOrder` loses none.
- *InstallToolsDoesInstall*: `Comes` says that a supported dependency is there or
  still before the loop, `Tried` that what was tried is there, but for an installer
  that failed or is running, and katana, whose go comes after it.

*Phases and readiness.*

- *BooksAreTyped* has two invariants. `Shape` and `Course` are the shape of the book
  and of the worker's way through it. That `MaxRows` bounds the tool runs is `BoundInv`:
  those recorded and those the worker may still record (`Left`, a marker and a result
  for each tool to come) stay within it.
- A tool that the gate holds back or that is not selected leaves only fewer rows to come,
  and the gate's mark is an end of a case like others (`MarkedKeeps`).
- *PhasesOnlyGoForward* and *ReadinessIsEarned* speak of steps. The first depends on a
  session writing only what it changed: what a reader is about to write is never "planned".
- *CasesAreClosed* and *CoverageIsEarned* (`EvidenceInv`: the case of a category names
  the tool that heads it, and has a good end only if some tool of the category came to
  it) go over every step that records a result, adds cases or closes them.

*Plans.*

- *Consent* is a fact about what `MayStart` accepts (the policy implies the profile, and
  the profile asks the question), and that nothing writes the columns afterwards.
- *Accepted* and *Repeat* need to know where the options are: `RunInv` says that a
  dashboard's scan has them in its creation event, with the columns and the
  configuration in agreement (`DashboardOptions`), and a terminal's scan in its columns,
  with a configuration that holds no more than a run derived from them
  (`TerminalOptions`). What a run puts together is then what was accepted
  (`MergedIsAsked`, `MergedIsColumns`). What the model names adds nothing to the tools of
  the parser but `OnlyNamed` (`PlanAddsNames`), which is why *Repeat* is said up to them.
- *Chosen* adds `ChosenInv`: a written plan and what a worker has left to run of it lie
  within the categories, and no run changes these. `Types` of the plans follows from
  `RunInv`, `ChosenInv` and the type of the worker.

*Server.*

- *Types* holds for any number of overlapping commands and ports. *Tracked*
  assumes `OneAtATime`: one command at a time, one port; the hosts are any. Its
  invariant adds to `ServedIsTracked` that at most one command is under way
  (`OneCommand`), that nobody answers on the loopback while one is started and that what
  is written by then is its own
  (`AloneAtStart`), that processes were given the port (`GivenPorts`), and what a stop
  knows (`StopsKnow`): one with a stale file has no server to fear, one that waits
  watches the server's port. *Refinement* maps each step to a step of `ServerBook` or
  a stutter, with the server being whoever answers on the loopback, by the same
  invariant: a file is only written or removed while nobody does.

The named assumptions are weak: no worker or process is called "none", the bounds and
times are natural numbers, a lookup reads at least one row, the hazards and faults are
among those named above; the accounts and the processes of the supply are finitely many,
each run's selections are plans of known tools, the profiles are those the loop
distinguishes; requests consist of a profile, a policy, flags and categories; the tools,
categories, results and facts of the phases are among those the code has. TLC evaluates
them in every run. The leaves are proved by Z3 and Zenon, the temporal steps by LS4.

Model-checked only: liveness (`StoppingSettles`, `RunEnds`, `CallsAreRecorded`,
`RunningHeals`, `StopTakesEffect`), since fairness and ENABLED are out of the prover's
reach.


## Findings

Each is a violation run whose counterexample is the evidence.

1. *The superfluous worker reports a crash* (Duplicate): `typer.Exit(code=0)` of a
   worker that found another is caught by `except Exception`, and the scan is set to
   execution_error while the other worker tests.
2. *A rerun is blamed for the first run's tools* (RerunFlagged): the option `full` of the
   terminal is not kept with the scan, so a rerun plans less, finds the rows of the first
   run, and ends as execution_error for good.
3. *A stop may end another program* (StrayKill): the process id file outlives the server,
   and any process of that id is believed to be it.

The models show more, each a matter of one or two steps that the module named
in brackets makes visible. Scan control:

- Force Stop is refused exactly when there is something to stop: it goes through the
  lookup that answers already_running for an active worker (`app.py:789`);
- resume leaves stop_requested set, so a scan stopped once stops again at its first
  control check (`services.py:607`);
- a killed worker leaves current_tool, which keeps the scan from ever being stale
  (`progress.py:175`); an uncaught exception of a continuation's tool (`cli.py:1472`)
  leaves the status running in the same way, and the deduplicated katana run leaves its
  marker running and has no result (`prompt_runner.py:987`);
- `already_running` is also answered for a zombie and for the status resuming
  (`app.py:137`), and a paused scan whose worker is a zombie cannot be resumed until the
  next Popen reaps it (`progress.py:205,226`);
- `scan pause` sets no flag, so planning and every starting event overwrite it
  (`cli.py:1126`); a continuation has no control check (`cli.py:1451`);
- a stop written after the verdict leaves stopping for good (`services.py:612`).

Tool loop:

- the resolver runs tools outside the selection, only their rows are suppressed
  (`prompt_runner.py:1868`);
- an authorization tool held back by the gate gets no result, and the scan is completed
  without coverage gaps (`prompt_runner.py:941`);
- a rerun of a finished scan fails in the auth gate: the coverage test cases of the
  finished run also name `authorization_matrix`, and `one_or_none`
  (`prompt_runner.py:1732`) raises (`MarkingFails`);
- the valid_count branch of `_auth_failed_stop_reason` is never taken, since a result
  carries no "output".

AI calls: the row of a plan that timed out or was rejected says accepted
(`gate.py:527`, `LogPlan`).

Tool supply: a selected tool whose installer fails is listed as not selected, because the
plan is rewritten before the failure is recorded (`prompt_runner.py:871,897`);
`install-tools` tries katana before its go (`tool_manager.py:121`).

Phases: ready can be said of a scan whose JWT or payload stage has only failed, since
readiness looks at two phases (`case_management.py:187`), with the reason "no ... failed
required stages recorded"; no finding ever gets the status
manual_confirmation_required, so the branch for it is dead (`case_management.py:190`);
a phase with a tool that asks for confirmation by hand stays running for ever
(`case_management.py:143`), and so does one that a continuation marked and was cut short
before any tool of it had a row (`cli.py:1444`, `case_management.py:130`), even if a later
run of other tools completes the scan; a failed AI review is hidden by an earlier one
(`case_management.py:156`); several rows of one tool leave the phase to the order of the
query (`case_management.py:127`).

Plans: a rerun of a dashboard's full scan is blamed in the same way for what the model
named before: an answer that names `crawler` plans katana
(`prompt_runner.py:193,721,2423`), and if the next answer does not, katana's row was not
to be executed (with `crawler` and `katana` among the tools of RerunFlagged, and
requests of that profile, TLC finds it); the terminal's `--profile` is lost before the
run (`prompt_runner.py:400`); it asks for no confirmation; `scan continue` before the
first plan may record any tool.

Server: a dashboard on another interface is lost. Start and stop look for the port on
127.0.0.1 (`dashboard.py:152`) whatever `--host` or `SAIF_DASHBOARD_HOST` is: a second
start sees it free, overwrites both files and fails to bind, and no command finds the
first server any more; a stop says port_released at once while such a server still
serves. Two overlapping starts both see the port free, and the loser's id stays in the
file, so that the winner cannot be stopped; with a second port the second start
overwrites the files of the first server; a stop unlinks whatever the file names by then
(`dashboard.py:117,130`); a process gone before the signal is an uncaught
ProcessLookupError (`dashboard.py:125`).

## Not modelled

*Findings.* Each button, dashboard action and command assigns one status to one finding
without looking at the last one, so there is no order of steps to check. Reading them
shows: the dashboard's reopen is offered and `finding_action` has no branch for it
(`services.py:574`, `actions.py:102`); update-status is never enabled; `scan retest`
reopens closed findings and nothing performs a retest; a closed finding that is found
again is not reopened (`prompt_runner.py:2716`); reports count severe findings in
two statuses (`reporting.py:81`), the dashboard in all but two, so that they disagree
after a retest.

*Test tools, request map, reports, importers, analysis, registries, doctor.* Functions of
their inputs, or HTTP traffic and files nobody else writes; of the tools only that they
succeed, fail, find or raise matters to the modules above. *Pages.* Reads, except the
stale marking, which is in `ScanControl`. *Migrations, packaging, the legacy
orchestrator.* Static, or never started.

## Plan

1. An abstract specification of a run, a plan of which each tool is answered for before
   the run may say completed, with the proof that the tool loop, with its resolver, gates
   and crashes, implements it.
2. The same for the record of an AI call (asked, traced, indexed, written down).
3. Findings, once the code has an order of steps to check.
