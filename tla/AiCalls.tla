-------------------------------- MODULE AiCalls --------------------------------
(***************************************************************************)
(* The calls a scan's worker processes make to Ollama, and the four places *)
(* that remember them: the count in the scan's configuration (the cap of   *)
(* the response advisor), the trace file of a call, the trace index of the *)
(* scan, and the AiCallRun row.                                            *)
(*                                                                         *)
(* A process is single threaded, so the lock of queued_ai_call never waits *)
(* and excludes no other process.  Time is counted in units; an attempt    *)
(* takes at most its connect time and its read timeout (the server sends   *)
(* its answer in one piece: the requests ask for no stream).               *)
(***************************************************************************)
EXTENDS Naturals, FiniteSets

CONSTANTS
    Callers,      \* worker processes of the scan
    MaxAttempts,  \* runtime.max_attempts
    PerAttempt,   \* per_attempt_timeout_seconds
    Ready,        \* the timeout of the readiness chat (gate.py: ensure_ai_ready)
    Slack,        \* what the total budget adds to the attempts' timeouts
    Connect,      \* ollama_connect_timeout_seconds
    Backoff,      \* ollama_retry_backoff_seconds
    Cap,          \* ai_advisor_max_calls_per_scan
    MaxCalls,     \* bound: recorded calls of the scan
    Faults        \* a subset of FaultKinds

FaultKinds == {"kill", "rival"}

ASSUME TimesAssumption  == {MaxAttempts, PerAttempt, Ready} \subseteq Nat \ {0}
                           /\ {Slack, Connect, Backoff} \subseteq Nat
ASSUME CapAssumption    == Cap \in Nat /\ MaxCalls \in Nat
ASSUME FaultsAssumption == Faults \subseteq FaultKinds

VARIABLES
    place,     \* where the process is in its run
    at,        \* how far its current call is
    call,      \* what it knows of that call
    copy,      \* response_advisor_calls in its copy of the scan's configuration
    seen,      \* the index entries it has read
    advised,   \* response_advisor_calls in the database
    trace,     \* status in the trace file of each call
    index,     \* calls in ai_trace_index.json (none while it is truncated)
    row,       \* response_status of each call's AiCallRun
    verdict,   \* history: what became of each recorded call
    made,      \* recorded calls begun so far
    asked,     \* history: response advisor chats begun
    cutShort   \* history: a process died while the index was truncated

processVars == <<place, at, call, copy, seen>>
fileVars    == <<trace, index>>
rowVars     == <<row, verdict, advised>>
countVars   == <<made, asked, cutShort>>
vars == <<processVars, fileVars, rowVars, countVars>>

-------------------------------------------------------------------------------
Ids     == 1..MaxCalls
Places  == {"off", "precheck", "planning", "tools", "review", "wording"}
Points  == {"idle", "announce", "chat", "judged", "index", "truncate", "write", "record"}
Verdicts == {"accepted", "rejected", "timeout", "failed"}
\* "logged": a trace written once, after the call, by persist_ai_trace_from_validation.
Final   == {"completed", "rejected", "timeout", "failed", "logged"}

\* The call that a place of the run makes.
PlaceOf == [response_advisor |-> "tools", payload_strategy |-> "tools",
            evidence_review |-> "review", report_wording |-> "wording"]
Stages  == DOMAIN PlaceOf \cup {"precheck", "initial_planning"}

NoCall == [id |-> 0, stage |-> "precheck", tries |-> 0, spent |-> 0,
           timedOut |-> FALSE, verdict |-> "failed"]

Budget       == PerAttempt * MaxAttempts + Slack
Remaining(c) == IF call[c].spent < Budget THEN Budget - call[c].spent ELSE 0
Least(a, b)  == IF a < b THEN a ELSE b
\* ensure_ai_ready asks for its "OK" with a timeout of its own.
Patience(c)  == IF call[c].stage = "precheck" THEN Ready ELSE PerAttempt
\* attempt_timeout: cut to what is left of the budget, but never below one.
Limit(c)     == IF Remaining(c) = 0 THEN 1 ELSE Least(Patience(c), Remaining(c))
\* _httpx_timeout: the connection, then the request, then the answer.
Lasts(c)     == 0..(2 * Least(Connect, Limit(c)) + Limit(c))

Running(c) == place[c] # "off"

-------------------------------------------------------------------------------
(***************************************************************************)
(* A run of the worker                                                     *)
(***************************************************************************)
\* The command loads the scan, its configuration included.
Start(c) ==
    /\ ~Running(c)
    /\ "rival" \in Faults \/ \A d \in Callers : ~Running(d)
    /\ made < MaxCalls
    /\ place' = [place EXCEPT ![c] = "precheck"]
    /\ copy' = [copy EXCEPT ![c] = advised]
    /\ UNCHANGED <<at, call, seen, fileVars, rowVars, countVars>>

\* ensure_ai_ready: tags and model are checked, then "OK" is asked for.
CheckReady(c) ==
    /\ place[c] = "precheck" /\ at[c] = "idle"
    /\ at' = [at EXCEPT ![c] = "chat"]
    /\ call' = [call EXCEPT ![c] = NoCall]
    /\ UNCHANGED <<place, copy, seen, fileVars, rowVars, countVars>>

\* Ollama is not there, the model is missing or the answer is not OK: the scan
\* fails its precheck, or goes on with an advisory context if its workflow is
\* deterministic.  Nothing is recorded of the call.
NotReady(c) ==
    /\ place[c] = "precheck"
    /\ \/ at[c] = "idle"
       \/ at[c] = "judged"
    /\ \E p \in {"off", "tools"} : place' = [place EXCEPT ![c] = p]
    /\ at' = [at EXCEPT ![c] = "idle"]
    /\ call' = [call EXCEPT ![c] = NoCall]
    /\ UNCHANGED <<copy, seen, fileVars, rowVars, countVars>>

\* The plan is asked for without a scan: no trace file and no event.
AskForPlan(c) ==
    /\ place[c] = "precheck" /\ at[c] = "judged" /\ call[c].verdict = "accepted"
    /\ place' = [place EXCEPT ![c] = "planning"]
    /\ at' = [at EXCEPT ![c] = "chat"]
    /\ call' = [call EXCEPT ![c] = [NoCall EXCEPT !.stage = "initial_planning"]]
    /\ UNCHANGED <<copy, seen, fileVars, rowVars, countVars>>

\* _maybe_review_response_with_ai: the count in the process's copy is checked.
MayAdvise(c) == copy[c] < Cap

\* Mutant: the advisor forgets to count the call.
AskUncounted(c, s) ==
    /\ at[c] = "idle" /\ place[c] = PlaceOf[s]
    /\ made < MaxCalls
    /\ s = "response_advisor" => MayAdvise(c)
    /\ made' = made + 1
    /\ trace' = [trace EXCEPT ![made + 1] = "started"]
    /\ call' = [call EXCEPT ![c] = [NoCall EXCEPT !.id = made + 1, !.stage = s]]
    /\ at' = [at EXCEPT ![c] = "announce"]
    /\ UNCHANGED <<place, copy, seen, index, rowVars, asked, cutShort>>

\* Any other question begins with its trace file; the response advisor first
\* raises the count in the process's copy of the configuration.
Ask(c, s) ==
    /\ at[c] = "idle" /\ place[c] = PlaceOf[s]
    /\ made < MaxCalls
    /\ s = "response_advisor" => MayAdvise(c)
    /\ copy' = IF s = "response_advisor" THEN [copy EXCEPT ![c] = @ + 1] ELSE copy
    /\ made' = made + 1
    /\ trace' = [trace EXCEPT ![made + 1] = "started"]
    /\ call' = [call EXCEPT ![c] = [NoCall EXCEPT !.id = made + 1, !.stage = s]]
    /\ at' = [at EXCEPT ![c] = "announce"]
    /\ UNCHANGED <<place, seen, index, rowVars, asked, cutShort>>

\* Mutant: the event is added to the session and not committed.
AnnounceUncommitted(c) ==
    /\ at[c] = "announce"
    /\ at' = [at EXCEPT ![c] = "chat"]
    /\ asked' = IF call[c].stage = "response_advisor" THEN asked + 1 ELSE asked
    /\ UNCHANGED <<place, call, copy, seen, fileVars, rowVars, made, cutShort>>

\* ai_advisor_called: emit_progress commits, the count with it, before the chat.
Announce(c) ==
    /\ at[c] = "announce"
    /\ at' = [at EXCEPT ![c] = "chat"]
    /\ IF call[c].stage = "response_advisor"
       THEN advised' = copy[c] /\ asked' = asked + 1
       ELSE UNCHANGED <<advised, asked>>
    /\ UNCHANGED <<place, call, copy, seen, fileVars, row, verdict, made, cutShort>>

-------------------------------------------------------------------------------
(***************************************************************************)
(* OllamaClient.chat                                                       *)
(***************************************************************************)
Attempting(c) == at[c] = "chat" /\ call[c].tries < MaxAttempts /\ Remaining(c) > 0
\* Mutant: the pause is taken whatever is left of the budget.
PausesAnyway(c, d) == call[c].tries + 1 < MaxAttempts
Another(c, d) == /\ call[c].tries + 1 < MaxAttempts
                 /\ call[c].spent + d + Backoff < Budget
Sleep(c)      == Backoff * 2^call[c].tries

Judged(c, d, v) ==
    /\ at' = [at EXCEPT ![c] = "judged"]
    /\ call' = [call EXCEPT ![c].tries = @ + 1, ![c].spent = @ + d, ![c].verdict = v]
    /\ UNCHANGED <<place, copy, seen, fileVars, rowVars, countVars>>

Missed(c) == IF call[c].timedOut THEN "timeout" ELSE "failed"

\* An answer: a decision the guardrails accept or reject, or no JSON object.
Answered(c) ==
    /\ Attempting(c)
    /\ \E d \in Lasts(c), v \in {"accepted", "rejected", Missed(c)} : Judged(c, d, v)

\* A 4xx answer, or an error of the transport chat does not handle.
Refused(c) ==
    /\ Attempting(c)
    /\ \E d \in Lasts(c) : Judged(c, d, Missed(c))

\* A 5xx answer or an unreadable body: tried again after a pause, if there is
\* an attempt and enough of the budget left, and raised otherwise.
ServerErrs(c) ==
    /\ Attempting(c)
    /\ \E d \in Lasts(c) :
         IF Another(c, d)
         THEN /\ call' = [call EXCEPT ![c].tries = @ + 1, ![c].spent = @ + d + Sleep(c)]
              /\ UNCHANGED <<place, at, copy, seen, fileVars, rowVars, countVars>>
         ELSE Judged(c, d, Missed(c))

\* Mutant: a failed attempt is counted twice.
CountedTwice(c) ==
    /\ Attempting(c)
    /\ \E d \in Lasts(c), late \in BOOLEAN :
         /\ call' = [call EXCEPT ![c].tries = @ + 2,
                                 ![c].spent = @ + d,
                                 ![c].timedOut = @ \/ late]
         /\ UNCHANGED <<place, at, copy, seen, fileVars, rowVars, countVars>>

\* A timeout or a broken connection: the next attempt follows, with no pause if
\* too little of the budget is left for one.
AttemptFails(c) ==
    /\ Attempting(c)
    /\ \E d \in Lasts(c), late \in BOOLEAN :
         /\ call' = [call EXCEPT ![c].tries = @ + 1,
                                 ![c].spent = @ + d + (IF Another(c, d) THEN Sleep(c) ELSE 0),
                                 ![c].timedOut = @ \/ late]
         /\ UNCHANGED <<place, at, copy, seen, fileVars, rowVars, countVars>>

\* No attempt or no budget is left: the last error is raised; an exceeded budget
\* is a timeout.
GivesUp(c) ==
    /\ at[c] = "chat"
    /\ call[c].tries = MaxAttempts \/ Remaining(c) = 0
    /\ at' = [at EXCEPT ![c] = "judged"]
    /\ call' = [call EXCEPT ![c].verdict =
                  IF call[c].tries < MaxAttempts THEN "timeout" ELSE Missed(c)]
    /\ UNCHANGED <<place, copy, seen, fileVars, rowVars, countVars>>

-------------------------------------------------------------------------------
(***************************************************************************)
(* The record of a call                                                    *)
(***************************************************************************)
\* What the trace file says in the end.
FinalOf(v) == IF v = "accepted" THEN "completed" ELSE v
Noted(c)   == [call EXCEPT ![c].tries = 0, ![c].spent = 0, ![c].timedOut = FALSE]

\* Mutant: the trace of a call that brought no answer is left as it was.
SettleAnswered(c) ==
    /\ at[c] = "judged" /\ call[c].id # 0
    /\ trace' = IF call[c].verdict = "accepted"
                THEN [trace EXCEPT ![call[c].id] = "completed"] ELSE trace
    /\ verdict' = [verdict EXCEPT ![call[c].id] = call[c].verdict]
    /\ call' = Noted(c)
    /\ at' = [at EXCEPT ![c] = "index"]
    /\ UNCHANGED <<place, copy, seen, index, row, advised, countVars>>

\* complete_ai_trace rewrites the trace file.
Settle(c) ==
    /\ at[c] = "judged" /\ call[c].id # 0
    /\ trace' = [trace EXCEPT ![call[c].id] = FinalOf(call[c].verdict)]
    /\ verdict' = [verdict EXCEPT ![call[c].id] = call[c].verdict]
    /\ call' = Noted(c)
    /\ at' = [at EXCEPT ![c] = "index"]
    /\ UNCHANGED <<place, copy, seen, index, row, advised, countVars>>

\* A trace written after the fact, under a new id.  s is the status it is
\* recorded with, v what became of the call.
LogTrace(c, stage, v, s) ==
    /\ made < MaxCalls
    /\ made' = made + 1
    /\ trace' = [trace EXCEPT ![made + 1] = "logged"]
    /\ verdict' = [verdict EXCEPT ![made + 1] = v]
    /\ call' = [call EXCEPT ![c] = [NoCall EXCEPT !.id = made + 1, !.stage = stage,
                                                  !.verdict = s]]
    /\ at' = [at EXCEPT ![c] = "index"]
    /\ UNCHANGED <<place, copy, seen, index, row, advised, asked, cutShort>>

\* log_ai_context, in run_prompt_scan: whatever became of the plan's call, it is
\* recorded with the status "accepted".
LogPlan(c) ==
    /\ place[c] = "planning" /\ at[c] = "judged"
    /\ LogTrace(c, "initial_planning", call[c].verdict, "accepted")

\* The health check before the evidence review fails: nothing is asked.
LogFailedReview(c) ==
    /\ place[c] = "review" /\ at[c] = "idle"
    /\ LogTrace(c, "evidence_review", "failed", "failed")

\* Mutant: the index is begun anew for every call.
ReadNothing(c) ==
    /\ at[c] = "index"
    /\ seen' = [seen EXCEPT ![c] = {}]
    /\ at' = [at EXCEPT ![c] = "truncate"]
    /\ UNCHANGED <<place, call, copy, fileVars, rowVars, countVars>>

\* append_ai_trace_index: the file is read (an unreadable one counts as empty),
\* then truncated, then written.
ReadIndex(c) ==
    /\ at[c] = "index"
    /\ seen' = [seen EXCEPT ![c] = index]
    /\ at' = [at EXCEPT ![c] = "truncate"]
    /\ UNCHANGED <<place, call, copy, fileVars, rowVars, countVars>>

TruncateIndex(c) ==
    /\ at[c] = "truncate"
    /\ index' = {}
    /\ at' = [at EXCEPT ![c] = "write"]
    /\ UNCHANGED <<place, call, copy, seen, trace, rowVars, countVars>>

WriteIndex(c) ==
    /\ at[c] = "write"
    /\ index' = seen[c] \cup {call[c].id}
    /\ seen' = [seen EXCEPT ![c] = {}]
    /\ at' = [at EXCEPT ![c] = "record"]
    /\ UNCHANGED <<place, call, copy, trace, rowVars, countVars>>

NextPlace == [precheck |-> "planning", initial_planning |-> "tools",
              response_advisor |-> "tools", payload_strategy |-> "tools",
              evidence_review |-> "wording", report_wording |-> "off"]

\* Mutant: only an accepted answer is recorded.
RecordAccepted(c) ==
    /\ at[c] = "record" /\ call[c].verdict = "accepted"
    /\ row' = [row EXCEPT ![call[c].id] = call[c].verdict]
    /\ place' = [place EXCEPT ![c] = NextPlace[call[c].stage]]
    /\ call' = [call EXCEPT ![c] = NoCall]
    /\ at' = [at EXCEPT ![c] = "idle"]
    /\ UNCHANGED <<copy, seen, fileVars, verdict, advised, countVars>>

\* _record_ai_decision adds evidence, decision and AiCallRun; the next event
\* commits them.  The process goes on with its run.
Record(c) ==
    /\ at[c] = "record"
    /\ row' = [row EXCEPT ![call[c].id] = call[c].verdict]
    /\ place' = [place EXCEPT ![c] = NextPlace[call[c].stage]]
    /\ call' = [call EXCEPT ![c] = NoCall]
    /\ at' = [at EXCEPT ![c] = "idle"]
    /\ UNCHANGED <<copy, seen, fileVars, verdict, advised, countVars>>

\* The tools are done: the evidence is reviewed, unless the run was held or
\* blocked and returns.
ToolsDone(c) ==
    /\ place[c] = "tools" /\ at[c] = "idle"
    /\ \E p \in {"review", "off"} : place' = [place EXCEPT ![c] = p]
    /\ UNCHANGED <<at, call, copy, seen, fileVars, rowVars, countVars>>

\* The process dies; what it had in memory is gone.
Kill(c) ==
    /\ "kill" \in Faults
    /\ Running(c)
    /\ cutShort' = (cutShort \/ at[c] = "write")
    /\ place' = [place EXCEPT ![c] = "off"]
    /\ at' = [at EXCEPT ![c] = "idle"]
    /\ call' = [call EXCEPT ![c] = NoCall]
    /\ seen' = [seen EXCEPT ![c] = {}]
    /\ UNCHANGED <<copy, fileVars, rowVars, made, asked>>

-------------------------------------------------------------------------------
Init ==
    /\ place = [c \in Callers |-> "off"] /\ at = [c \in Callers |-> "idle"]
    /\ call = [c \in Callers |-> NoCall] /\ copy = [c \in Callers |-> 0]
    /\ seen = [c \in Callers |-> {}]
    /\ trace = [i \in Ids |-> "none"] /\ index = {}
    /\ row = [i \in Ids |-> "none"] /\ verdict = [i \in Ids |-> "none"]
    /\ advised = 0 /\ made = 0 /\ asked = 0 /\ cutShort = FALSE

ChatStep(c) == Answered(c) \/ Refused(c) \/ ServerErrs(c) \/ AttemptFails(c) \/ GivesUp(c)

FileStep(c) == ReadIndex(c) \/ TruncateIndex(c) \/ WriteIndex(c) \/ Record(c)

CallStep(c) ==
    \/ CheckReady(c) \/ NotReady(c) \/ AskForPlan(c)
    \/ \E s \in DOMAIN PlaceOf : Ask(c, s)
    \/ Announce(c) \/ ChatStep(c) \/ Settle(c) \/ LogPlan(c) \/ LogFailedReview(c)
    \/ FileStep(c) \/ ToolsDone(c)

Next == \E c \in Callers : Start(c) \/ CallStep(c) \/ Kill(c)

Spec == Init /\ [][Next]_vars

===============================================================================
