----------------------------- MODULE AiProperties -----------------------------
(***************************************************************************)
(* What the four records of a scan's AI calls promise each other.          *)
(***************************************************************************)
EXTENDS AiCalls

Calls == [id : 0..MaxCalls, stage : Stages, tries : 0..MaxAttempts, spent : Nat,
          timedOut : BOOLEAN, verdict : Verdicts]

\* Every variable has its type, and a process that records a call has one
\* (advisor.py: _ask_guarded_ai; tracing.py).
AiTypeOK ==
    /\ place \in [Callers -> Places]
    /\ at \in [Callers -> Points]
    /\ call \in [Callers -> Calls]
    /\ \A c \in Callers : call[c].id <= made
    /\ copy \in [Callers -> Nat]
    /\ seen \in [Callers -> SUBSET Ids]
    /\ trace \in [Ids -> Final \cup {"none", "started"}]
    /\ index \subseteq Ids
    /\ row \in [Ids -> Verdicts \cup {"none"}]
    /\ verdict \in [Ids -> Verdicts \cup {"none"}]
    /\ advised \in Nat /\ asked \in Nat /\ made \in 0..MaxCalls
    /\ cutShort \in BOOLEAN

\* A row of a call points at a trace file that tells how the call ended, not
\* that it has started, even if processes die at any point: the file is
\* rewritten before the row is committed.  And the row says what became of the
\* call; only one that is traced after the fact, the plan's, may be said to be
\* accepted when it was not (advisor.py: _ask_guarded_ai, _record_ai_decision;
\* gate.py: log_ai_context).
RowsHaveTraces ==
    \A i \in Ids : row[i] # "none" =>
        /\ trace[i] \in Final
        /\ row[i] = verdict[i] \/ (trace[i] = "logged" /\ row[i] = "accepted")

\* The response advisor is asked at most Cap times for a scan, over all its runs
\* and restarts and whenever a process is killed: the raised count is committed
\* before the question is sent (prompt_runner.py: _maybe_review_response_with_ai;
\* advisor.py: the event ai_advisor_called).
CapHolds == asked <= Cap

\* The index lists every recorded call, but for the moment in which it is being
\* rewritten and unless a process died in that moment (tracing.py:
\* append_ai_trace_index reads, truncates and writes the file).
IndexListsCalls ==
    \/ cutShort
    \/ \E c \in Callers : at[c] = "write"
    \/ \A i \in Ids : row[i] # "none" => i \in index

Greater(a, b) == IF a < b THEN b ELSE a
Opening       == 2 * Connect
LastPause     == IF MaxAttempts = 1 THEN 0 ELSE Backoff * (2^(MaxAttempts - 2) - 1)

\* A chat overruns its total budget by no more than opening one attempt takes
\* (the connection and the request sent), or by what its last pause was longer
\* than the check before it assumed, whatever mixture of timeouts, broken
\* connections and server errors it meets (ollama.py: chat, _httpx_timeout).
BudgetHeld ==
    \A c \in Callers : call[c].spent <= Budget + Greater(Opening, LastPause)

\* Ollama answers or the read times out, and a process goes on with its run.
FairSpec == Spec /\ \A c \in Callers : WF_vars(CallStep(c))

\* A call whose trace says "started" is not left so by a process that lives: it
\* comes to its row whatever Ollama does (advisor.py: every exception of the
\* chat and of the guardrails ends in the fallback, which is recorded too).
CallsAreRecorded ==
    \A i \in Ids : trace[i] = "started"
                   ~> (row[i] # "none" \/ \A c \in Callers : call[c].id # i)

===============================================================================
