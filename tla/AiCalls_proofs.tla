----------------------------- MODULE AiCalls_proofs -----------------------------
(***************************************************************************)
(* What holds of the records of a scan's AI calls, for any processes, caps *)
(* and times.                                                              *)
(***************************************************************************)
EXTENDS AiProperties, DataLemmas

-------------------------------------------------------------------------------
(***************************************************************************)
(* Types                                                                   *)
(***************************************************************************)
\* Between its first trace and its row a recorded call has a number.
Recording == {"announce", "index", "truncate", "write", "record"}

\* The type invariant needs two conjuncts more: what is recorded has a number,
\* and what a chat has spent, which is a number only if no pause is cut off
\* below zero, is bounded.
TypeInv ==
    /\ AiTypeOK
    /\ BudgetHeld
    /\ \A c \in Callers : at[c] \in Recording => call[c].id # 0

\* The times of a chat are natural numbers, and an attempt takes no longer than
\* what is left of the budget and opening it.
LEMMA TimesAreNaturals ==
  ASSUME TypeInv, NEW c \in Callers
  PROVE  /\ Budget \in Nat /\ Remaining(c) \in Nat /\ Limit(c) \in Nat
         /\ Lasts(c) \subseteq Nat /\ Sleep(c) \in Nat
         /\ Remaining(c) > 0 => /\ Remaining(c) = Budget - call[c].spent
                                /\ \A d \in Lasts(c) : d <= Opening + Remaining(c)
<1>1. call[c].spent \in Nat /\ call[c].tries \in Nat
  BY TimesAssumption DEF TypeInv, AiTypeOK, Calls
<1>2. PerAttempt \in Nat /\ MaxAttempts \in Nat /\ Slack \in Nat /\ Connect \in Nat /\ Backoff \in Nat
      /\ Ready \in Nat \ {0}
  BY TimesAssumption
<1>3. PerAttempt * MaxAttempts \in Nat
  BY <1>2
<1>4. Budget \in Nat
  BY <1>2, <1>3 DEF Budget
<1>5. Remaining(c) \in Nat /\ (Remaining(c) > 0 => Remaining(c) = Budget - call[c].spent)
  BY <1>1, <1>4 DEF Remaining
<1>6. Limit(c) \in Nat /\ (Remaining(c) > 0 => Limit(c) <= Remaining(c))
  <2>1. Patience(c) \in Nat \ {0}
    BY <1>2, TimesAssumption DEF Patience
  <2> QED
    BY <1>2, <1>5, <2>1 DEF Limit, Least
<1>7. Lasts(c) \subseteq Nat /\ \A d \in Lasts(c) : d <= Opening + Limit(c)
  <2>1. Least(Connect, Limit(c)) \in Nat /\ Least(Connect, Limit(c)) <= Connect
    BY <1>2, <1>6 DEF Least
  <2> QED
    BY <1>2, <1>6, <2>1 DEF Lasts, Opening
<1>8. 2^call[c].tries \in Nat
  BY <1>1, PowersGrow
<1>9. Sleep(c) \in Nat
  BY <1>2, <1>8 DEF Sleep
<1>10. Opening \in Nat
  BY <1>2 DEF Opening
<1>11. Remaining(c) > 0 => \A d \in Lasts(c) : d <= Opening + Remaining(c)
  <2> SUFFICES ASSUME Remaining(c) > 0, NEW d \in Lasts(c) PROVE d <= Opening + Remaining(c)
    OBVIOUS
  <2>1. d \in Nat /\ d <= Opening + Limit(c) /\ Limit(c) <= Remaining(c)
    BY <1>6, <1>7
  <2> QED
    BY <1>5, <1>6, <1>10, <2>1
<1> QED
  BY <1>4, <1>5, <1>6, <1>7, <1>9, <1>11

\* No call is a call.
LEMMA NoCallIsTyped == NoCall \in Calls
  BY TimesAssumption, CapAssumption DEF NoCall, Calls, Stages, Verdicts

\* The last pause is the longest, and it is a number.
LEMMA PauseIsNatural ==
  /\ LastPause \in Nat /\ Greater(Opening, LastPause) \in Nat
  /\ Greater(Opening, LastPause) >= Opening /\ Greater(Opening, LastPause) >= LastPause
  /\ \A k \in Nat : k + 1 < MaxAttempts =>
        2^k \in Nat /\ Backoff * 2^k \in Nat /\ Backoff * 2^k - Backoff <= LastPause
<1>1. MaxAttempts \in Nat \ {0} /\ Backoff \in Nat /\ Connect \in Nat
  BY TimesAssumption
<1>2. ASSUME NEW m \in Nat PROVE 2^m \in Nat /\ Backoff * 2^m \in Nat
  BY <1>1, PowersGrow
<1>3. ASSUME MaxAttempts # 1
      PROVE  /\ MaxAttempts - 2 \in Nat /\ 2^(MaxAttempts - 2) \in Nat /\ 2^(MaxAttempts - 2) >= 1
             /\ LastPause = Backoff * (2^(MaxAttempts - 2) - 1)
  <2>1. MaxAttempts - 2 \in Nat
    BY <1>1, <1>3
  <2>2. 2^(MaxAttempts - 2) >= 1
    BY <2>1, PowersPositive
  <2> QED
    BY <1>2, <1>3, <2>1, <2>2 DEF LastPause
<1>4. LastPause \in Nat
  <2>1. CASE MaxAttempts = 1
    BY <2>1 DEF LastPause
  <2>2. CASE MaxAttempts # 1
    <3>1. \A x \in Nat : x >= 1 => Backoff * (x - 1) \in Nat
      BY <1>1
    <3> QED
      BY <1>3, <2>2, <3>1
  <2> QED
    BY <2>1, <2>2
<1>5. ASSUME NEW k \in Nat, k + 1 < MaxAttempts
      PROVE  2^k \in Nat /\ Backoff * 2^k \in Nat /\ Backoff * 2^k - Backoff <= LastPause
  <2>1. MaxAttempts # 1 /\ k <= MaxAttempts - 2 /\ MaxAttempts - 2 \in Nat
    BY <1>1, <1>5
  <2>2. 2^k \in Nat /\ 2^(MaxAttempts - 2) \in Nat /\ 2^k <= 2^(MaxAttempts - 2)
    BY <2>1, PowersGrow
  <2>3. \A x, y \in Nat : x <= y => Backoff * x - Backoff <= Backoff * (y - 1)
    BY <1>1
  <2> QED
    BY <1>2, <1>3, <2>1, <2>2, <2>3
<1>6. Opening \in Nat
  BY <1>1 DEF Opening
<1> QED
  BY <1>1, <1>4, <1>5, <1>6 DEF Greater

\* So is the most a chat may spend.
LEMMA MostIsNatural == Budget \in Nat /\ Budget + Greater(Opening, LastPause) \in Nat
<1>1. PerAttempt \in Nat /\ MaxAttempts \in Nat /\ Slack \in Nat
  BY TimesAssumption
<1>2. PerAttempt * MaxAttempts \in Nat
  BY <1>1
<1>3. Budget \in Nat
  BY <1>1, <1>2 DEF Budget
<1> QED
  BY <1>3, PauseIsNatural

\* The invariant holds when no process has run.
LEMMA TypeInvInit == Init => TypeInv
<1> SUFFICES ASSUME Init PROVE TypeInv
  OBVIOUS
<1>1. call \in [Callers -> Calls] /\ \A c \in Callers : call[c].id = 0
  BY NoCallIsTyped DEF Init, NoCall
<1>2. place \in [Callers -> Places] /\ at \in [Callers -> Points]
  BY DEF Init, Places, Points
<1>3. copy \in [Callers -> Nat] /\ seen \in [Callers -> SUBSET Ids]
  BY DEF Init
<1>4. /\ trace \in [Ids -> Final \cup {"none", "started"}] /\ index \subseteq Ids
      /\ row \in [Ids -> Verdicts \cup {"none"}] /\ verdict \in [Ids -> Verdicts \cup {"none"}]
  BY DEF Init
<1>5. advised \in Nat /\ asked \in Nat /\ made \in 0..MaxCalls /\ made = 0
  <2>1. advised = 0 /\ asked = 0 /\ made = 0
    BY DEF Init
  <2> QED
    BY <2>1, CapAssumption
<1>6. \A c \in Callers : at[c] \notin Recording
  BY DEF Init, Recording
<1>7. cutShort \in BOOLEAN
  BY Zenon DEF Init
<1>8. BudgetHeld
  BY <1>1, MostIsNatural DEF BudgetHeld, Init, NoCall
<1> QED
  BY <1>1, <1>2, <1>3, <1>4, <1>5, <1>6, <1>7, <1>8 DEF TypeInv, AiTypeOK

\* What a chat makes of its call: what it is about stays, and what it has spent
\* is at most what BudgetHeld allows.
After(c, r) ==
    /\ r \in Calls
    /\ r.id = call[c].id /\ r.stage = call[c].stage
    /\ r.spent <= Budget + Greater(Opening, LastPause)

\* A step of a chat leaves the process with such a record, in the chat or judged.
LEMMA ChatChanges ==
  ASSUME TypeInv, NEW c \in Callers, ChatStep(c)
  PROVE  /\ \E r \in Calls : After(c, r) /\ call' = [call EXCEPT ![c] = r]
         /\ at[c] = "chat" /\ at' \in {at, [at EXCEPT ![c] = "judged"]}
         /\ UNCHANGED <<place, copy, seen, fileVars, rowVars, countVars>>
<1> DEFINE Most == Budget + Greater(Opening, LastPause)
<1>1. /\ call \in [Callers -> Calls] /\ call[c] \in Calls /\ at \in [Callers -> Points]
      /\ Missed(c) \in Verdicts
  BY DEF Missed, Verdicts, TypeInv, AiTypeOK
<1>2. /\ call[c].tries \in 0..MaxAttempts /\ call[c].spent \in Nat
      /\ call[c].timedOut \in BOOLEAN /\ call[c].verdict \in Verdicts /\ MaxAttempts \in Nat
  BY <1>1, TimesAssumption DEF Calls
<1> call[c].spent <= Most
  BY DEF TypeInv, BudgetHeld
<1>3. ASSUME NEW t \in 0..MaxAttempts, NEW s \in Nat, s <= Most, NEW o \in BOOLEAN,
             NEW v \in Verdicts
      PROVE  After(c, [call[c] EXCEPT !.tries = t, !.spent = s, !.timedOut = o, !.verdict = v])
  BY <1>1, <1>3 DEF After, Calls
<1>4. ASSUME NEW d \in Lasts(c), Attempting(c)
      PROVE  /\ call[c].tries + 1 \in 0..MaxAttempts
             /\ call[c].spent + d \in Nat /\ call[c].spent + d <= Most
             /\ Another(c, d) => /\ call[c].spent + d + Sleep(c) \in Nat
                                 /\ call[c].spent + d + Sleep(c) <= Most
  <2> DEFINE G == Greater(Opening, LastPause)
  <2>1. /\ Budget \in Nat /\ Sleep(c) \in Nat /\ d \in Nat /\ G \in Nat
        /\ G >= Opening /\ G >= LastPause /\ Opening \in Nat /\ LastPause \in Nat /\ Backoff \in Nat
    BY TimesAreNaturals, PauseIsNatural, TimesAssumption DEF Opening
  <2>2. /\ Remaining(c) > 0 /\ call[c].tries < MaxAttempts
        /\ Remaining(c) = Budget - call[c].spent /\ d <= Opening + Remaining(c)
    BY <1>4, TimesAreNaturals DEF Attempting
  <2> HIDE DEF G
  <2>3. call[c].spent + d \in Nat /\ call[c].spent + d <= Budget + G
    BY <1>2, <2>1, <2>2
  <2>4. ASSUME Another(c, d)
        PROVE  call[c].spent + d + Sleep(c) \in Nat /\ call[c].spent + d + Sleep(c) <= Budget + G
    <3>1. call[c].tries \in Nat /\ call[c].tries + 1 < MaxAttempts /\ call[c].spent + d + Backoff < Budget
      BY <1>2, <2>4 DEF Another
    <3>2. Sleep(c) - Backoff <= LastPause
      BY <3>1, PauseIsNatural DEF Sleep
    <3> QED
      BY <1>2, <2>1, <3>1, <3>2
  <2> QED
    BY <1>2, <2>2, <2>3, <2>4 DEF G
<1> HIDE DEF Most
<1>5. ASSUME NEW d \in Lasts(c), NEW v \in Verdicts, Attempting(c), Judged(c, d, v)
      PROVE  /\ \E r \in Calls : After(c, r) /\ call' = [call EXCEPT ![c] = r]
             /\ at' = [at EXCEPT ![c] = "judged"]
             /\ UNCHANGED <<place, copy, seen, fileVars, rowVars, countVars>>
  <2> DEFINE r == [call[c] EXCEPT !.tries = call[c].tries + 1, !.spent = call[c].spent + d,
                                  !.timedOut = call[c].timedOut, !.verdict = v]
  <2>1. After(c, r)
    BY <1>2, <1>3, <1>4, <1>5
  <2>2. call' = [call EXCEPT ![c] = r]
    BY <1>1, <1>5 DEF Judged, Calls
  <2> QED
    BY <1>5, <2>1, <2>2 DEF Judged, After
<1>6. CASE Answered(c) \/ Refused(c)
  <2>1. PICK d \in Lasts(c), v \in Verdicts : Judged(c, d, v)
    BY <1>1, <1>6 DEF Answered, Refused, Verdicts
  <2>2. Attempting(c) /\ at[c] = "chat"
    BY <1>6 DEF Answered, Refused, Attempting
  <2> QED
    BY <1>5, <2>1, <2>2
<1>7. ASSUME NEW d \in Lasts(c), NEW late \in BOOLEAN, Attempting(c), NEW pause,
             pause = 0 \/ (Another(c, d) /\ pause = Sleep(c)),
             call' = [call EXCEPT ![c].tries = @ + 1, ![c].spent = @ + d + pause,
                                  ![c].timedOut = @ \/ late]
      PROVE  \E r \in Calls : After(c, r) /\ call' = [call EXCEPT ![c] = r]
  <2> DEFINE o == call[c].timedOut \/ late
             s == call[c].spent + d + pause
             r == [call[c] EXCEPT !.tries = call[c].tries + 1, !.spent = s,
                                  !.timedOut = o, !.verdict = call[c].verdict]
  <2>1. s \in Nat /\ s <= Most
    BY <1>2, <1>4, <1>7
  <2>2. o \in BOOLEAN
    OBVIOUS
  <2> HIDE DEF o, s
  <2>3. After(c, r)
    BY <1>2, <1>3, <1>4, <1>7, <2>1, <2>2
  <2>4. call' = [call EXCEPT ![c] = r]
    BY <1>1, <1>7 DEF Calls, o, s
  <2> QED
    BY <2>3, <2>4 DEF After
<1>8. CASE ServerErrs(c)
  <2>1. Attempting(c) /\ at[c] = "chat"
    BY <1>8 DEF ServerErrs, Attempting
  <2>2. PICK d \in Lasts(c) :
           IF Another(c, d)
           THEN /\ call' = [call EXCEPT ![c].tries = @ + 1, ![c].spent = @ + d + Sleep(c)]
                /\ UNCHANGED <<place, at, copy, seen, fileVars, rowVars, countVars>>
           ELSE Judged(c, d, Missed(c))
    BY <1>8 DEF ServerErrs
  <2>3. CASE Another(c, d)
    <3> DEFINE r == [call[c] EXCEPT !.tries = call[c].tries + 1,
                                    !.spent = call[c].spent + d + Sleep(c),
                                    !.timedOut = call[c].timedOut, !.verdict = call[c].verdict]
    <3>1. After(c, r)
      BY <1>2, <1>3, <1>4, <2>1, <2>3
    <3>2. call' = [call EXCEPT ![c] = r]
      BY <1>1, <2>2, <2>3 DEF Calls
    <3> QED
      BY <2>1, <2>2, <2>3, <3>1, <3>2 DEF After
  <2>4. CASE ~Another(c, d)
    BY <1>1, <1>5, <2>1, <2>2, <2>4
  <2> QED
    BY <2>3, <2>4
<1>9. CASE AttemptFails(c)
  <2>1. Attempting(c) /\ at[c] = "chat"
    BY <1>9 DEF AttemptFails, Attempting
  <2>2. PICK d \in Lasts(c), late \in BOOLEAN :
           /\ call' = [call EXCEPT ![c].tries = @ + 1,
                                   ![c].spent = @ + d + (IF Another(c, d) THEN Sleep(c) ELSE 0),
                                   ![c].timedOut = @ \/ late]
           /\ UNCHANGED <<place, at, copy, seen, fileVars, rowVars, countVars>>
    BY <1>9 DEF AttemptFails
  <2> DEFINE pause == IF Another(c, d) THEN Sleep(c) ELSE 0
  <2>3. pause = 0 \/ (Another(c, d) /\ pause = Sleep(c))
    OBVIOUS
  <2>4. call' = [call EXCEPT ![c].tries = @ + 1, ![c].spent = @ + d + pause,
                             ![c].timedOut = @ \/ late]
    BY <2>2
  <2> HIDE DEF pause
  <2> QED
    BY <1>7, <2>1, <2>2, <2>3, <2>4
<1>10. CASE GivesUp(c)
  <2> DEFINE v == IF call[c].tries < MaxAttempts THEN "timeout" ELSE Missed(c)
             r == [call[c] EXCEPT !.tries = call[c].tries, !.spent = call[c].spent,
                                  !.timedOut = call[c].timedOut, !.verdict = v]
  <2>1. v \in Verdicts
    BY <1>1 DEF Verdicts
  <2>2. call' = [call EXCEPT ![c] = r]
    BY <1>1, <1>10 DEF GivesUp, Calls
  <2> HIDE DEF v
  <2>3. After(c, r)
    BY <1>2, <1>3, <2>1 DEF Most
  <2> QED
    BY <1>10, <2>2, <2>3 DEF GivesUp, After
<1> QED
  BY <1>6, <1>8, <1>9, <1>10 DEF ChatStep

\* A process that takes up another call, or lays its call down, keeps the types.
LEMMA CallReplaced ==
  ASSUME TypeInv, NEW c \in Callers, NEW r \in Calls, NEW q \in Points,
         r.id <= made', r.spent <= Budget + Greater(Opening, LastPause),
         q \in Recording => r.id # 0,
         made \in Nat, made' \in Nat, made <= made',
         call' = [call EXCEPT ![c] = r], at' = [at EXCEPT ![c] = q]
  PROVE  /\ call' \in [Callers -> Calls] /\ at' \in [Callers -> Points]
         /\ \A e \in Callers : call'[e].id <= made'
         /\ BudgetHeld'
         /\ \A e \in Callers : at'[e] \in Recording => call'[e].id # 0
<1>1. call \in [Callers -> Calls] /\ at \in [Callers -> Points]
  BY DEF TypeInv, AiTypeOK
<1>2. \A e \in Callers : call[e].id \in Nat /\ call[e].id <= made'
  <2>1. \A e \in Callers : call[e].id \in Nat /\ call[e].id <= made
    BY <1>1, CapAssumption DEF Calls, TypeInv, AiTypeOK
  <2> QED
    BY <2>1
<1>3. \A e \in Callers : call'[e] = IF e = c THEN r ELSE call[e]
  BY <1>1
<1>4. \A e \in Callers : at'[e] = IF e = c THEN q ELSE at[e]
  BY <1>1
<1>5. call' \in [Callers -> Calls] /\ at' \in [Callers -> Points]
  BY <1>1
<1>6. BudgetHeld'
  <2>1. \A e \in Callers : call'[e].spent <= Budget + Greater(Opening, LastPause)
    BY <1>3 DEF TypeInv, BudgetHeld
  <2> QED
    BY <2>1 DEF BudgetHeld
<1> QED
  BY <1>2, <1>3, <1>4, <1>5, <1>6 DEF TypeInv

\* Every step keeps the types.
LEMMA TypeInvNext == TypeInv /\ [Next]_vars => TypeInv'
<1> SUFFICES ASSUME TypeInv, [Next]_vars PROVE TypeInv'
  OBVIOUS
<1> USE CapAssumption
<1> DEFINE Files == /\ trace' \in [Ids -> Final \cup {"none", "started"}] /\ index' \subseteq Ids
                    /\ row' \in [Ids -> Verdicts \cup {"none"}]
                    /\ verdict' \in [Ids -> Verdicts \cup {"none"}]
           Counts == advised' \in Nat /\ asked' \in Nat /\ made' \in 0..MaxCalls
           Mine == /\ place' \in [Callers -> Places] /\ copy' \in [Callers -> Nat]
                   /\ seen' \in [Callers -> SUBSET Ids]
           Chat == /\ call' \in [Callers -> Calls] /\ at' \in [Callers -> Points]
                   /\ \A e \in Callers : call'[e].id <= made'
                   /\ BudgetHeld'
                   /\ \A e \in Callers : at'[e] \in Recording => call'[e].id # 0
<1>1. /\ place \in [Callers -> Places] /\ at \in [Callers -> Points]
      /\ call \in [Callers -> Calls] /\ \A c \in Callers : call[c].id <= made
      /\ copy \in [Callers -> Nat] /\ seen \in [Callers -> SUBSET Ids]
  BY DEF TypeInv, AiTypeOK
<1>2. /\ trace \in [Ids -> Final \cup {"none", "started"}] /\ index \subseteq Ids
      /\ row \in [Ids -> Verdicts \cup {"none"}] /\ verdict \in [Ids -> Verdicts \cup {"none"}]
      /\ advised \in Nat /\ asked \in Nat /\ made \in 0..MaxCalls /\ made \in Nat
  BY DEF TypeInv, AiTypeOK
<1>3. UNCHANGED <<fileVars, row, verdict>> => Files
  BY <1>2 DEF fileVars
<1>4. UNCHANGED <<advised, made, asked>> => Counts
  BY <1>2
<1>5. UNCHANGED <<place, copy, seen>> => Mine
  BY <1>1
<1>6. UNCHANGED <<call, at, made>> => Chat
  BY <1>1 DEF TypeInv, BudgetHeld
<1>7. cutShort' \in BOOLEAN
  <2>1. CASE UNCHANGED cutShort
    BY <2>1, Zenon DEF TypeInv, AiTypeOK
  <2>2. CASE cutShort' # cutShort
    <3>1. PICK c \in Callers : Start(c) \/ CallStep(c) \/ Kill(c)
      BY <2>2 DEF Next, vars, countVars
    <3>2. UNCHANGED cutShort \/ Kill(c)
      BY <3>1 DEF Start, CallStep, CheckReady, NotReady, AskForPlan, Ask, Announce, ChatStep,
           Answered, Refused, ServerErrs, AttemptFails, GivesUp, Judged, Settle, LogPlan,
           LogFailedReview, LogTrace, FileStep, ReadIndex, TruncateIndex, WriteIndex, Record,
           ToolsDone, countVars
    <3> QED
      BY <2>2, <3>2, Zenon DEF Kill
  <2> QED
    BY <2>1, <2>2
<1>8. Files /\ Counts /\ Mine /\ Chat => TypeInv'
  BY <1>7 DEF TypeInv, AiTypeOK
<1>9. CASE UNCHANGED vars
  BY <1>3, <1>4, <1>5, <1>6, <1>8, <1>9 DEF vars, processVars, rowVars, countVars
<1> SUFFICES ASSUME NEW c \in Callers, Start(c) \/ CallStep(c) \/ Kill(c)
             PROVE  Files /\ Counts /\ Mine /\ Chat
  BY <1>8, <1>9 DEF Next
<1> HIDE DEF Files, Counts, Mine
<1>10. ASSUME NEW r \in Calls, NEW q \in Points, r.id <= made', r.spent = 0,
              q \in Recording => r.id # 0, made' \in Nat, made <= made',
              call' = [call EXCEPT ![c] = r], at' = [at EXCEPT ![c] = q]
       PROVE  Chat
  <2>1. r.spent <= Budget + Greater(Opening, LastPause)
    BY <1>10, MostIsNatural
  <2> QED
    BY <1>2, <1>10, <2>1, CallReplaced
<1> HIDE DEF Chat
<1>11. /\ NoCall \in Calls /\ NoCall.id = 0 /\ NoCall.spent = 0
  BY NoCallIsTyped DEF NoCall
<1>12. CASE Start(c)
  <2>1. place' \in [Callers -> Places] /\ copy' \in [Callers -> Nat]
    BY <1>1, <1>2, <1>12 DEF Start, Places
  <2> QED
    BY <1>1, <1>3, <1>4, <1>6, <1>12, <2>1 DEF Start, rowVars, countVars, Mine
<1>13. CASE CheckReady(c)
  <2>1. Chat
    <3>1. call' = [call EXCEPT ![c] = NoCall] /\ at' = [at EXCEPT ![c] = "chat"] /\ made' = made
      BY <1>13 DEF CheckReady, countVars
    <3>2. /\ "chat" \in Points /\ "chat" \notin Recording
          /\ made' \in Nat /\ made <= made' /\ NoCall.id <= made'
      BY <1>2, <1>11, <3>1 DEF Points, Recording
    <3> QED
      BY <1>10, <1>11, <3>1, <3>2
  <2> QED
    BY <1>3, <1>4, <1>5, <1>13, <2>1 DEF CheckReady, rowVars, countVars
<1>14. CASE NotReady(c)
  <2>1. Chat
    <3>1. call' = [call EXCEPT ![c] = NoCall] /\ at' = [at EXCEPT ![c] = "idle"] /\ made' = made
      BY <1>14 DEF NotReady, countVars
    <3>2. /\ "idle" \in Points /\ "idle" \notin Recording
          /\ made' \in Nat /\ made <= made' /\ NoCall.id <= made'
      BY <1>2, <1>11, <3>1 DEF Points, Recording
    <3> QED
      BY <1>10, <1>11, <3>1, <3>2
  <2>2. Mine
    BY <1>1, <1>14 DEF NotReady, Places, Mine
  <2> QED
    BY <1>3, <1>4, <1>14, <2>1, <2>2 DEF NotReady, rowVars, countVars
<1>15. CASE AskForPlan(c)
  <2> DEFINE r == [NoCall EXCEPT !.stage = "initial_planning"]
  <2>1. r \in Calls /\ r.id = 0 /\ r.spent = 0
    BY <1>11 DEF NoCall, Calls, Stages
  <2> HIDE DEF r
  <2>2. Chat
    <3>1. call' = [call EXCEPT ![c] = r] /\ at' = [at EXCEPT ![c] = "chat"] /\ made' = made
      BY <1>15 DEF AskForPlan, countVars, r
    <3>2. /\ "chat" \in Points /\ "chat" \notin Recording
          /\ made' \in Nat /\ made <= made' /\ r.id <= made'
      BY <1>2, <2>1, <3>1 DEF Points, Recording
    <3> QED
      BY <1>10, <2>1, <3>1, <3>2
  <2>3. Mine
    BY <1>1, <1>15 DEF AskForPlan, Places, Mine
  <2> QED
    BY <1>3, <1>4, <1>15, <2>2, <2>3 DEF AskForPlan, rowVars, countVars
<1>16. ASSUME NEW s \in DOMAIN PlaceOf, Ask(c, s) PROVE Files /\ Counts /\ Mine /\ Chat
  <2> DEFINE r == [NoCall EXCEPT !.id = made + 1, !.stage = s]
  <2>1. made + 1 \in Ids /\ made + 1 \in 0..MaxCalls
    BY <1>2, <1>16 DEF Ask, Ids
  <2>2. r \in Calls /\ r.id = made + 1 /\ r.spent = 0
    BY <1>11, <1>16, <2>1 DEF NoCall, Calls, Stages
  <2> HIDE DEF r
  <2>3. Chat
    <3>1. call' = [call EXCEPT ![c] = r] /\ at' = [at EXCEPT ![c] = "announce"] /\ made' = made + 1
      BY <1>16 DEF Ask, r
    <3>2. /\ "announce" \in Points /\ r.id # 0
          /\ made' \in Nat /\ made <= made' /\ r.id <= made'
      BY <1>2, <2>2, <3>1 DEF Points
    <3> QED
      BY <1>10, <2>2, <3>1, <3>2
  <2>4. Mine
    BY <1>1, <1>16 DEF Ask, Mine
  <2>5. Files
    BY <1>2, <1>16, <2>1 DEF Ask, Files, rowVars
  <2> QED
    BY <1>2, <1>16, <2>1, <2>3, <2>4, <2>5 DEF Ask, Counts, rowVars
<1>17. CASE Announce(c)
  <2>1. Chat
    <3>1. BudgetHeld'
      BY <1>17 DEF TypeInv, BudgetHeld, Announce
    <3> QED
      BY <1>1, <1>17, <3>1 DEF Announce, Points, Recording, Chat, TypeInv
  <2>2. Counts
    BY <1>1, <1>2, <1>17 DEF Announce, Counts
  <2> QED
    BY <1>3, <1>5, <1>17, <2>1, <2>2 DEF Announce
<1>18. CASE ChatStep(c)
  <2>1. PICK r \in Calls : After(c, r) /\ call' = [call EXCEPT ![c] = r]
    BY <1>18, ChatChanges
  <2>2. /\ at[c] = "chat" /\ at' \in {at, [at EXCEPT ![c] = "judged"]}
        /\ UNCHANGED <<place, copy, seen, fileVars, rowVars, countVars>>
    BY <1>18, ChatChanges
  <2>3. PICK q \in {"chat", "judged"} : at' = [at EXCEPT ![c] = q]
    BY <1>1, <2>2
  <2>4. Chat
    <3>1. r.id <= made' /\ made' = made
      BY <1>1, <2>1, <2>2 DEF After, countVars
    <3>2. q \in Points /\ q \notin Recording
      BY DEF Points, Recording
    <3> QED
      <4>1. r \in Calls /\ r.spent <= Budget + Greater(Opening, LastPause) /\ made <= made' /\ made' \in Nat
        BY <1>2, <2>1, <3>1 DEF After
      <4> QED
        BY <1>2, <2>1, <2>3, <3>1, <3>2, <4>1, CallReplaced DEF Chat
  <2> QED
    BY <1>3, <1>4, <1>5, <2>2, <2>4 DEF rowVars, countVars
<1>19. CASE Settle(c)
  <2>1. call[c].id \in Ids
    BY <1>1, <1>19 DEF Settle, Calls, Ids
  <2>2. call[c].verdict \in Verdicts
    BY <1>1 DEF Calls
  <2>3. Chat
    <3> DEFINE r == [call[c] EXCEPT !.tries = 0, !.spent = 0, !.timedOut = FALSE]
    <3>1. r \in Calls /\ r.id = call[c].id /\ r.spent = 0
      <4>1. 0 \in 0..MaxAttempts /\ 0 \in Nat /\ FALSE \in BOOLEAN
        BY TimesAssumption
      <4>2. call[c] \in Calls
        BY <1>1
      <4> QED
        BY <4>1, <4>2 DEF Calls
    <3>2. call' = [call EXCEPT ![c] = r]
      BY <1>1, <1>19 DEF Settle, Noted, Calls
    <3> HIDE DEF r
    <3> QED
      <4>1. at' = [at EXCEPT ![c] = "index"] /\ made' = made
        BY <1>19 DEF Settle, countVars
      <4>2. "index" \in Points /\ r.id # 0 /\ made' \in Nat /\ made <= made' /\ r.id <= made'
        BY <1>1, <1>2, <1>19, <3>1, <4>1 DEF Points, Settle
      <4> QED
        BY <1>10, <3>1, <3>2, <4>1, <4>2
  <2>4. Files
    BY <1>2, <1>19, <2>1, <2>2 DEF Settle, Files, FinalOf, Final, Verdicts
  <2> QED
    BY <1>4, <1>5, <1>19, <2>3, <2>4 DEF Settle, countVars
<1>20. ASSUME NEW st \in Stages, NEW v \in Verdicts, NEW u \in Verdicts, LogTrace(c, st, v, u),
              UNCHANGED place
       PROVE  Files /\ Counts /\ Mine /\ Chat
  <2> DEFINE r == [NoCall EXCEPT !.id = made + 1, !.stage = st, !.verdict = u]
  <2>1. made + 1 \in Ids /\ made + 1 \in 0..MaxCalls
    BY <1>2, <1>20 DEF LogTrace, Ids
  <2>2. r \in Calls /\ r.id = made + 1 /\ r.spent = 0
    BY <1>11, <2>1 DEF NoCall, Calls
  <2> HIDE DEF r
  <2>3. Chat
    <3>1. call' = [call EXCEPT ![c] = r] /\ at' = [at EXCEPT ![c] = "index"] /\ made' = made + 1
      BY <1>20 DEF LogTrace, r
    <3>2. /\ "index" \in Points /\ r.id # 0
          /\ made' \in Nat /\ made <= made' /\ r.id <= made'
      BY <1>2, <2>2, <3>1 DEF Points
    <3> QED
      BY <1>10, <2>2, <3>1, <3>2
  <2>4. Files
    BY <1>2, <1>20, <2>1 DEF LogTrace, Files, Final
  <2>5. Counts
    BY <1>2, <1>20, <2>1 DEF LogTrace, Counts
  <2> QED
    BY <1>5, <1>20, <2>3, <2>4, <2>5 DEF LogTrace
<1>21. CASE LogPlan(c)
  <2>1. LogTrace(c, "initial_planning", call[c].verdict, "accepted")
    BY <1>21 DEF LogPlan
  <2>2. call[c].verdict \in Verdicts
    BY <1>1 DEF Calls
  <2> QED
    BY <1>20, <2>1, <2>2 DEF Stages, Verdicts, LogTrace
<1>22. CASE LogFailedReview(c)
  <2>1. LogTrace(c, "evidence_review", "failed", "failed")
    BY <1>22 DEF LogFailedReview
  <2> QED
    BY <1>20, <2>1 DEF Stages, PlaceOf, Verdicts, LogTrace
<1>23. ASSUME at[c] \in Recording, UNCHANGED <<call, made>>,
              NEW q \in Points, at' = [at EXCEPT ![c] = q]
       PROVE  Chat
  <2>1. BudgetHeld'
    BY <1>23 DEF TypeInv, BudgetHeld
  <2> QED
    BY <1>1, <1>23, <2>1 DEF Chat, TypeInv
<1>24. CASE ReadIndex(c)
  <2>1. Chat
    BY <1>23, <1>24 DEF ReadIndex, Points, Recording, countVars
  <2>2. Mine
    BY <1>1, <1>2, <1>24 DEF ReadIndex, Mine
  <2> QED
    BY <1>3, <1>4, <1>24, <2>1, <2>2 DEF ReadIndex, rowVars, countVars
<1>25. CASE TruncateIndex(c)
  <2>1. Chat
    BY <1>23, <1>25 DEF TruncateIndex, Points, Recording, countVars
  <2>2. Files
    BY <1>2, <1>25 DEF TruncateIndex, Files, rowVars
  <2> QED
    BY <1>4, <1>5, <1>25, <2>1, <2>2 DEF TruncateIndex, rowVars, countVars
<1>26. CASE WriteIndex(c)
  <2>1. Chat
    BY <1>23, <1>26 DEF WriteIndex, Points, Recording, countVars
  <2>2. call[c].id \in Ids
    BY <1>1, <1>26 DEF WriteIndex, Calls, Ids, TypeInv, Recording
  <2>3. Files
    BY <1>1, <1>2, <1>26, <2>2 DEF WriteIndex, Files, rowVars
  <2>4. Mine
    BY <1>1, <1>26 DEF WriteIndex, Mine
  <2> QED
    BY <1>4, <1>26, <2>1, <2>3, <2>4 DEF WriteIndex, rowVars, countVars
<1>27. CASE Record(c)
  <2>1. Chat
    <3>1. call' = [call EXCEPT ![c] = NoCall] /\ at' = [at EXCEPT ![c] = "idle"] /\ made' = made
      BY <1>27 DEF Record, countVars
    <3>2. /\ "idle" \in Points /\ "idle" \notin Recording
          /\ made' \in Nat /\ made <= made' /\ NoCall.id <= made'
      BY <1>2, <1>11, <3>1 DEF Points, Recording
    <3> QED
      BY <1>10, <1>11, <3>1, <3>2
  <2>2. call[c].verdict \in Verdicts /\ NextPlace[call[c].stage] \in Places
    BY <1>1 DEF Calls, Stages, PlaceOf, NextPlace, Places
  <2>3. Mine
    BY <1>1, <1>27, <2>2 DEF Record, Mine
  <2>4. Files
    BY <1>2, <1>27, <2>2 DEF Record, Files, fileVars
  <2> QED
    BY <1>4, <1>27, <2>1, <2>3, <2>4 DEF Record, countVars
<1>28. CASE ToolsDone(c)
  <2>1. Mine
    BY <1>1, <1>28 DEF ToolsDone, Mine, Places
  <2> QED
    BY <1>3, <1>4, <1>6, <1>28, <2>1 DEF ToolsDone, rowVars, countVars
<1>29. CASE Kill(c)
  <2>1. Chat
    <3>1. call' = [call EXCEPT ![c] = NoCall] /\ at' = [at EXCEPT ![c] = "idle"] /\ made' = made
      BY <1>29 DEF Kill
    <3>2. "idle" \in Points /\ "idle" \notin Recording /\ made' \in Nat /\ made <= made' /\ NoCall.id <= made'
      BY <1>2, <1>11, <3>1 DEF Points, Recording
    <3> QED
      BY <1>10, <1>11, <3>1, <3>2
  <2>2. Mine
    BY <1>1, <1>29 DEF Kill, Mine, Places
  <2> QED
    BY <1>3, <1>4, <1>29, <2>1, <2>2 DEF Kill, rowVars
<1> QED
  BY <1>12, <1>13, <1>14, <1>15, <1>16, <1>17, <1>18, <1>19, <1>21, <1>22, <1>24, <1>25, <1>26,
     <1>27, <1>28, <1>29 DEF CallStep, FileStep

\* The inductive invariant holds in every state of every run.
LEMMA Typed == Spec => []TypeInv
  BY TypeInvInit, TypeInvNext, PTL DEF Spec

\* Every variable of the calls keeps its type, and a process never knows of a
\* call that has not begun (advisor.py: _ask_guarded_ai; tracing.py).
THEOREM CallsAreTyped == Spec => []AiTypeOK
<1>1. TypeInv => AiTypeOK
  BY DEF TypeInv
<1> QED
  BY <1>1, Typed, PTL

\* However many attempts there are and however long they may take, a chat
\* overruns its budget by no more than one connect or its last pause (ollama.py:
\* chat checks what is left of the budget before it pauses).
THEOREM ChatsKeepTheirBudget == Spec => []BudgetHeld
<1>1. TypeInv => BudgetHeld
  BY DEF TypeInv
<1> QED
  BY <1>1, Typed, PTL

-------------------------------------------------------------------------------
(***************************************************************************)
(* Rows and traces                                                         *)
(***************************************************************************)
\* The call is over and is being recorded.
Filing == {"index", "truncate", "write", "record"}

\* Numbers are given out once, in order.
Numbered == /\ \A i \in Ids : i > made => row[i] = "none"
            /\ \A c, e \in Callers : call[c].id # 0 /\ call[c].id = call[e].id => c = e

\* A call that is under way has no row yet.
UnderWay == \A c \in Callers : call[c].id # 0 => row[call[c].id] = "none"

\* What a process is about to write into its row agrees with the trace.
Agrees(c) == /\ trace[call[c].id] \in Final
             /\ \/ call[c].verdict = verdict[call[c].id]
                \/ trace[call[c].id] = "logged" /\ call[c].verdict = "accepted"

\* Together, with the property itself, they are inductive.
TraceInv == /\ TypeInv /\ Numbered /\ UnderWay
            /\ \A c \in Callers : at[c] \in Filing => Agrees(c)
            /\ RowsHaveTraces

\* No call has been made in the beginning, so that there is no row to trace.
LEMMA TraceInvInit == Init => TraceInv
<1> SUFFICES ASSUME Init PROVE TraceInv
  OBVIOUS
<1>1. \A c \in Callers : call[c].id = 0 /\ at[c] \notin Filing
  BY DEF Init, NoCall, Filing
<1>2. \A i \in Ids : row[i] = "none"
  BY DEF Init
<1> QED
  BY <1>1, <1>2, TypeInvInit DEF TraceInv, Numbered, UnderWay, RowsHaveTraces

\* A step that writes no trace and no row, and at most ends the process's call.
LEMMA QuietStep ==
  ASSUME TraceInv, NEW c \in Callers, NEW r, NEW q,
         UNCHANGED <<trace, row, verdict, made>>,
         call' = [call EXCEPT ![c] = r], at' = [at EXCEPT ![c] = q],
         r.id \in {0, call[c].id},
         q \in Filing => at[c] \in Filing /\ r = call[c]
  PROVE  Numbered' /\ UnderWay' /\ (\A e \in Callers : at[e]' \in Filing => Agrees(e)') /\ RowsHaveTraces'
<1>1. call \in [Callers -> Calls] /\ at \in [Callers -> Points]
  BY DEF TraceInv, TypeInv, AiTypeOK
<1>2. \A e \in Callers : call'[e] = IF e = c THEN r ELSE call[e]
  BY <1>1
<1>3. \A e \in Callers : at'[e] = IF e = c THEN q ELSE at[e]
  BY <1>1
<1>4. Numbered' /\ UnderWay'
  BY <1>2 DEF TraceInv, Numbered, UnderWay
<1>5. \A e \in Callers : at'[e] \in Filing => at[e] \in Filing /\ call'[e] = call[e]
  BY <1>2, <1>3
<1> QED
  BY <1>4, <1>5 DEF TraceInv, Agrees, RowsHaveTraces

\* What a process that begins a call with the number i leaves of the invariant:
\* nobody has that number, and i has no row.
LEMMA Fresh ==
  ASSUME TraceInv, made < MaxCalls
  PROVE  /\ made + 1 \in Ids /\ made \in Nat /\ row[made + 1] = "none"
         /\ \A e \in Callers : call[e].id \in Nat /\ call[e].id < made + 1
<1>1. made \in 0..MaxCalls /\ MaxCalls \in Nat /\ \A e \in Callers : call[e] \in Calls /\ call[e].id <= made
  BY CapAssumption DEF TraceInv, TypeInv, AiTypeOK
<1>2. \A e \in Callers : call[e].id \in Nat
  BY <1>1 DEF Calls
<1> QED
  BY <1>1, <1>2 DEF Ids, TraceInv, Numbered

\* A new call: its trace is the only one that changes, and it has no row.
LEMMA BegunStep ==
  ASSUME TraceInv, made < MaxCalls, made' = made + 1, NEW c \in Callers, NEW r, NEW q, NEW t,
         call' = [call EXCEPT ![c] = r], at' = [at EXCEPT ![c] = q],
         r.id = made + 1, trace' = [trace EXCEPT ![made + 1] = t], row' = row,
         \A i \in Ids : i # made + 1 => verdict'[i] = verdict[i],
         q \in Filing => /\ t = "logged"
                         /\ r.verdict = verdict'[made + 1] \/ r.verdict = "accepted"
  PROVE  Numbered' /\ UnderWay' /\ (\A e \in Callers : at[e]' \in Filing => Agrees(e)') /\ RowsHaveTraces'
<1>1. /\ call \in [Callers -> Calls] /\ at \in [Callers -> Points]
      /\ trace \in [Ids -> Final \cup {"none", "started"}] /\ MaxCalls \in Nat
  BY CapAssumption DEF TraceInv, TypeInv, AiTypeOK
<1>2. \A e \in Callers : call'[e] = IF e = c THEN r ELSE call[e]
  BY <1>1
<1>3. \A e \in Callers : at'[e] = IF e = c THEN q ELSE at[e]
  BY <1>1
<1>4. \A i \in Ids : trace'[i] = IF i = made + 1 THEN t ELSE trace[i]
  BY <1>1
<1>5. /\ made + 1 \in Ids /\ made \in Nat /\ row[made + 1] = "none"
      /\ \A e \in Callers : call[e].id \in Nat /\ call[e].id < made + 1
  BY Fresh
<1>6. Numbered'
  <2>1. \A i \in Ids : i > made' => i > made
    BY <1>1, <1>5 DEF Ids
  <2>2. \A e \in Callers : e # c => call'[e].id # r.id
    BY <1>2, <1>5
  <2> QED
    BY <1>2, <2>1, <2>2 DEF TraceInv, Numbered
<1>7. UnderWay'
  BY <1>2, <1>5 DEF TraceInv, UnderWay
<1>8. ASSUME NEW e \in Callers, at'[e] \in Filing PROVE Agrees(e)'
  <2>1. CASE e = c
    BY <1>2, <1>3, <1>4, <1>5, <1>8, <2>1 DEF Agrees, Final
  <2>2. CASE e # c
    <3>1. call'[e] = call[e] /\ at[e] \in Filing /\ Agrees(e)
      BY <1>2, <1>3, <1>8, <2>2 DEF TraceInv
    <3>2. call[e].id \in Ids /\ call[e].id # made + 1
      BY <1>1, <1>5, <3>1 DEF Ids, Calls, TraceInv, TypeInv, Filing, Recording
    <3> QED
      BY <1>4, <3>1, <3>2 DEF Agrees
  <2> QED
    BY <2>1, <2>2
<1>9. RowsHaveTraces'
  <2> SUFFICES ASSUME NEW i \in Ids, row[i] # "none"
               PROVE  trace'[i] \in Final /\ (row[i] = verdict'[i] \/ (trace'[i] = "logged" /\ row[i] = "accepted"))
    BY DEF RowsHaveTraces
  <2> QED
    BY <1>4, <1>5 DEF TraceInv, RowsHaveTraces
<1> QED
  BY <1>6, <1>7, <1>8, <1>9

\* Every step keeps the records of the calls in agreement.
LEMMA TraceInvNext == TraceInv /\ [Next]_vars => TraceInv'
<1> SUFFICES ASSUME TraceInv, [Next]_vars PROVE TraceInv'
  OBVIOUS
<1> DEFINE Rest == Numbered' /\ UnderWay' /\ (\A e \in Callers : at[e]' \in Filing => Agrees(e)') /\ RowsHaveTraces'
<1>1. /\ at \in [Callers -> Points] /\ call \in [Callers -> Calls]
      /\ trace \in [Ids -> Final \cup {"none", "started"}]
      /\ row \in [Ids -> Verdicts \cup {"none"}] /\ verdict \in [Ids -> Verdicts \cup {"none"}]
  BY DEF TraceInv, TypeInv, AiTypeOK
<1>2. Rest => TraceInv'
  BY TypeInvNext DEF TraceInv
<1>3. CASE UNCHANGED vars
  BY <1>2, <1>3 DEF vars, processVars, fileVars, rowVars, countVars, TraceInv, Numbered, UnderWay,
     Agrees, RowsHaveTraces
<1> SUFFICES ASSUME NEW c \in Callers, Start(c) \/ CallStep(c) \/ Kill(c) PROVE Rest
  BY <1>2, <1>3 DEF Next
<1> DEFINE Still == UNCHANGED <<trace, row, verdict, made>>
<1>4. ASSUME NEW q \in Points, call' = [call EXCEPT ![c] = NoCall], at' = [at EXCEPT ![c] = q],
             q \notin Filing, Still
      PROVE  Rest
  <2>1. NoCall.id = 0
    BY DEF NoCall
  <2> QED
    BY <1>4, <2>1, QuietStep
<1>5. ASSUME NEW q \in Points, UNCHANGED call, at' = [at EXCEPT ![c] = q],
             q \in Filing => at[c] \in Filing, Still
      PROVE  Rest
  <2>1. call' = [call EXCEPT ![c] = call[c]]
    BY <1>1, <1>5
  <2> QED
    BY <1>5, <2>1, QuietStep
<1> HIDE DEF Rest
<1>6. CASE Start(c) \/ ToolsDone(c)
  <2>1. at' = [at EXCEPT ![c] = at[c]] /\ at[c] \in Points
    BY <1>1, <1>6 DEF Start, ToolsDone
  <2> QED
    BY <1>5, <1>6, <2>1 DEF Start, ToolsDone, fileVars, rowVars, countVars
<1>7. CASE CheckReady(c)
  <2>1. "chat" \in Points /\ "chat" \notin Filing
    BY DEF Points, Filing
  <2> QED
    BY <1>4, <1>7, <2>1 DEF CheckReady, fileVars, rowVars, countVars
<1>8. CASE NotReady(c) \/ Kill(c)
  <2>1. "idle" \in Points /\ "idle" \notin Filing
    BY DEF Points, Filing
  <2> QED
    BY <1>4, <1>8, <2>1 DEF NotReady, Kill, fileVars, rowVars, countVars
<1>9. CASE AskForPlan(c)
  <2> DEFINE r == [NoCall EXCEPT !.stage = "initial_planning"]
  <2>1. r.id = 0 /\ "chat" \notin Filing
    BY DEF NoCall, Filing
  <2>2. call' = [call EXCEPT ![c] = r] /\ at' = [at EXCEPT ![c] = "chat"] /\ Still
    BY <1>9 DEF AskForPlan, fileVars, rowVars, countVars
  <2> HIDE DEF r
  <2> QED
    BY <2>1, <2>2, QuietStep DEF Rest
<1>10. ASSUME NEW s \in DOMAIN PlaceOf, Ask(c, s) PROVE Rest
  <2> DEFINE r == [NoCall EXCEPT !.id = made + 1, !.stage = s]
  <2>1. r.id = made + 1 /\ "announce" \notin Filing
    BY DEF NoCall, Filing
  <2>2. /\ made < MaxCalls /\ made' = made + 1
        /\ call' = [call EXCEPT ![c] = r] /\ at' = [at EXCEPT ![c] = "announce"]
        /\ trace' = [trace EXCEPT ![made + 1] = "started"] /\ row' = row /\ verdict' = verdict
    BY <1>10 DEF Ask, rowVars
  <2> HIDE DEF r
  <2> QED
    BY <2>1, <2>2, BegunStep DEF Rest
<1>11. CASE Announce(c)
  <2>1. "chat" \in Points /\ "chat" \notin Filing
    BY DEF Points, Filing
  <2> QED
    BY <1>5, <1>11, <2>1 DEF Announce, fileVars
<1>12. CASE ChatStep(c)
  <2>1. PICK r \in Calls : After(c, r) /\ call' = [call EXCEPT ![c] = r]
    BY <1>12, ChatChanges DEF TraceInv
  <2>2. at[c] = "chat" /\ at' \in {at, [at EXCEPT ![c] = "judged"]} /\ Still
    BY <1>12, ChatChanges DEF TraceInv, fileVars, rowVars, countVars
  <2>3. PICK q \in {"chat", "judged"} : at' = [at EXCEPT ![c] = q]
    BY <1>1, <2>2
  <2>4. q \notin Filing /\ r.id = call[c].id
    BY <2>1 DEF Filing, After
  <2> QED
    BY <2>1, <2>2, <2>3, <2>4, QuietStep DEF Rest
<1>13. CASE Settle(c)
  <2> DEFINE i == call[c].id
             r == [call[c] EXCEPT !.tries = 0, !.spent = 0, !.timedOut = FALSE]
  <2>1. i \in Ids /\ call[c].verdict \in Verdicts /\ row[i] = "none"
    BY <1>1, <1>13 DEF Settle, Calls, Ids, TraceInv, UnderWay
  <2>2. r.id = i /\ r.verdict = call[c].verdict /\ call' = [call EXCEPT ![c] = r]
    BY <1>1, <1>13 DEF Settle, Noted, Calls
  <2> HIDE DEF r
  <2>3. /\ at' = [at EXCEPT ![c] = "index"] /\ row' = row /\ made' = made
        /\ trace' = [trace EXCEPT ![i] = FinalOf(call[c].verdict)]
        /\ verdict' = [verdict EXCEPT ![i] = call[c].verdict]
    BY <1>13 DEF Settle, countVars
  <2>4. \A j \in Ids : /\ j # i => trace'[j] = trace[j] /\ verdict'[j] = verdict[j]
                       /\ trace'[i] \in Final /\ verdict'[i] = call[c].verdict
    BY <1>1, <2>1, <2>3 DEF FinalOf, Final, Verdicts
  <2>5. \A e \in Callers : call'[e] = IF e = c THEN r ELSE call[e]
    BY <1>1, <2>2
  <2>6. Numbered' /\ UnderWay'
    BY <2>2, <2>3, <2>5 DEF TraceInv, Numbered, UnderWay
  <2>7. RowsHaveTraces'
    BY <2>1, <2>3, <2>4 DEF TraceInv, RowsHaveTraces
  <2>8. ASSUME NEW e \in Callers, at'[e] \in Filing PROVE Agrees(e)'
    <3>1. CASE e = c
      BY <2>1, <2>2, <2>4, <2>5, <3>1 DEF Agrees
    <3>2. CASE e # c
      <4>1. at[e] \in Filing /\ Agrees(e) /\ call'[e] = call[e]
        BY <1>1, <2>3, <2>5, <2>8, <3>2 DEF TraceInv
      <4>2. call[e].id \in Ids
        BY <1>1, <4>1 DEF Ids, Calls, TraceInv, TypeInv, Filing, Recording
      <4>3. call[e].id # i
        BY <1>13, <3>2 DEF Settle, TraceInv, Numbered
      <4> QED
        BY <2>4, <4>1, <4>2, <4>3 DEF Agrees
    <3> QED
      BY <3>1, <3>2
  <2> QED
    BY <2>6, <2>7, <2>8 DEF Rest
<1>14. ASSUME NEW st, NEW v, NEW u, LogTrace(c, st, v, u), u \in {v, "accepted"} PROVE Rest
  <2> DEFINE r == [NoCall EXCEPT !.id = made + 1, !.stage = st, !.verdict = u]
  <2>1. r.id = made + 1 /\ r.verdict = u
    BY DEF NoCall
  <2>2. /\ made < MaxCalls /\ made' = made + 1
        /\ call' = [call EXCEPT ![c] = r] /\ at' = [at EXCEPT ![c] = "index"]
        /\ trace' = [trace EXCEPT ![made + 1] = "logged"] /\ row' = row
        /\ verdict' = [verdict EXCEPT ![made + 1] = v]
    BY <1>14 DEF LogTrace
  <2>3. /\ \A i \in Ids : i # made + 1 => verdict'[i] = verdict[i]
        /\ verdict'[made + 1] = v
    BY <1>1, <2>2, Fresh
  <2> HIDE DEF r
  <2> QED
    BY <1>14, <2>1, <2>2, <2>3, BegunStep DEF Rest
<1>15. CASE LogPlan(c) \/ LogFailedReview(c)
  BY <1>14, <1>15 DEF LogPlan, LogFailedReview
<1>16. ASSUME NEW q \in Filing, at[c] \in Filing, UNCHANGED call,
              at' = [at EXCEPT ![c] = q], Still
       PROVE  Rest
  <2>1. q \in Points
    BY DEF Filing, Points
  <2> QED
    BY <1>5, <1>16, <2>1
<1>17. CASE ReadIndex(c) \/ TruncateIndex(c) \/ WriteIndex(c)
  BY <1>16, <1>17 DEF ReadIndex, TruncateIndex, WriteIndex, Filing, fileVars, rowVars, countVars
<1>18. CASE Record(c)
  <2> DEFINE i == call[c].id
  <2>1. /\ at[c] \in Filing /\ Agrees(c) /\ i \in Ids
        /\ call' = [call EXCEPT ![c] = NoCall] /\ at' = [at EXCEPT ![c] = "idle"]
        /\ row' = [row EXCEPT ![i] = call[c].verdict] /\ UNCHANGED <<trace, verdict, made>>
    BY <1>1, <1>18 DEF Record, Filing, Recording, TraceInv, TypeInv, Calls, Ids, fileVars, countVars
  <2>2. \A e \in Callers : call'[e] = IF e = c THEN NoCall ELSE call[e]
    BY <1>1, <2>1
  <2>3. \A j \in Ids : row'[j] = IF j = i THEN call[c].verdict ELSE row[j]
    BY <1>1, <2>1
  <2>4. NoCall.id = 0 /\ i # 0 /\ ~(i > made)
    BY <1>1, <2>1, CapAssumption DEF NoCall, Ids, TraceInv, TypeInv, AiTypeOK, Calls
  <2>5. Numbered' /\ UnderWay'
    <3>1. \A e \in Callers : e # c => call[e].id # i
      BY <2>4 DEF TraceInv, Numbered
    <3>2. \A e \in Callers : call[e].id # 0 => call[e].id \in Ids
      BY <1>1 DEF Calls, Ids
    <3> QED
      BY <2>1, <2>2, <2>3, <2>4, <3>1, <3>2 DEF TraceInv, Numbered, UnderWay
  <2>6. RowsHaveTraces'
    BY <2>1, <2>3 DEF TraceInv, RowsHaveTraces, Agrees
  <2>7. \A e \in Callers : at'[e] \in Filing => Agrees(e)'
    BY <1>1, <2>1, <2>2 DEF TraceInv, Agrees, Filing
  <2> QED
    BY <2>5, <2>6, <2>7 DEF Rest
<1> QED
  BY <1>6, <1>7, <1>8, <1>9, <1>10, <1>11, <1>12, <1>13, <1>15, <1>17, <1>18 DEF CallStep, FileStep

\* A row never points at a trace that only says the call has started, whatever
\* processes run and die, and but for the plan's it says what became of the call
\* (advisor.py: _ask_guarded_ai, _record_ai_decision; gate.py: log_ai_context).
THEOREM RowsAreTraced == Spec => []RowsHaveTraces
<1>1. TraceInv => RowsHaveTraces
  BY DEF TraceInv
<1> QED
  BY <1>1, TraceInvInit, TraceInvNext, PTL DEF Spec

-------------------------------------------------------------------------------
(***************************************************************************)
(* Processes that run one after another                                    *)
(*                                                                         *)
(* The cap and the index are files and counts that a process reads, keeps  *)
(* and writes back.  They are right as long as no second process of the    *)
(* scan runs beside the first: the lock of queued_ai_call does not exclude *)
(* another process, and the dashboard's own guard is not part of this      *)
(* module.  Processes may die at any point.                                *)
(***************************************************************************)
\* At most one process runs, and only a process that runs has a call.
Alone == /\ \A c, e \in Callers : Running(c) /\ Running(e) => c = e
         /\ \A c \in Callers : at[c] # "idle" => Running(c)

\* What a step does to the places of the processes.
LEMMA PlacesMove ==
  ASSUME TypeInv, Alone, "rival" \notin Faults, NEW c \in Callers,
         Start(c) \/ CallStep(c) \/ Kill(c)
  PROVE  /\ \A e \in Callers : e # c => /\ place'[e] = place[e] /\ place[e] = "off"
                                       /\ at'[e] = at[e] /\ at[e] = "idle"
         /\ at'[c] # "idle" => place'[c] # "off"
         /\ Start(c) => at[c] = "idle" /\ at'[c] = "idle"
         /\ ~Start(c) => Running(c)
<1>1. /\ at \in [Callers -> Points] /\ place \in [Callers -> Places] /\ call \in [Callers -> Calls]
  BY DEF TypeInv, AiTypeOK
<1>2. CASE Start(c)
  <2>1. \A e \in Callers : place[e] = "off" /\ at[e] = "idle"
    BY <1>2 DEF Start, Alone, Running
  <2>2. at' = at /\ place' = [place EXCEPT ![c] = "precheck"]
    BY <1>2 DEF Start
  <2>3. \A e \in Callers : e # c => /\ place'[e] = place[e] /\ place[e] = "off"
                                   /\ at'[e] = at[e] /\ at[e] = "idle"
    BY <1>1, <2>1, <2>2
  <2>4. at[c] = "idle" /\ at'[c] = "idle"
    BY <2>1, <2>2
  <2> QED
    BY <1>2, <2>3, <2>4, Zenon
<1>3. CASE CallStep(c) \/ Kill(c)
  <2>1. Running(c)
    <3>1. CASE at[c] # "idle" \/ Kill(c)
      BY <3>1 DEF Alone, Kill
    <3>2. CASE at[c] = "idle" /\ CallStep(c)
      <4>1. \/ CheckReady(c) \/ NotReady(c) \/ LogFailedReview(c) \/ ToolsDone(c)
            \/ \E s \in DOMAIN PlaceOf : Ask(c, s)
        BY <3>2 DEF CallStep, FileStep, ChatStep, AskForPlan, Announce, Answered, Refused, ServerErrs,
           AttemptFails, GivesUp, Attempting, Settle, LogPlan, ReadIndex, TruncateIndex, WriteIndex, Record
      <4>2. CASE \E s \in DOMAIN PlaceOf : Ask(c, s)
        BY <4>2 DEF Ask, PlaceOf, Running
      <4> QED
        BY <4>1, <4>2 DEF CheckReady, NotReady, LogFailedReview, ToolsDone, Running
    <3> QED
      BY <1>3, <3>1, <3>2
  <2>2. \A e \in Callers : e # c => place[e] = "off" /\ at[e] = "idle"
    BY <2>1 DEF Alone, Running
  <2>3. \A e \in Callers : e # c => place'[e] = place[e] /\ at'[e] = at[e]
    BY <1>1, <1>3 DEF CallStep, FileStep, ChatStep, CheckReady, NotReady, AskForPlan, Ask, Announce, Answered,
       Refused, ServerErrs, AttemptFails, GivesUp, Judged, Settle, LogPlan, LogFailedReview, LogTrace,
       ReadIndex, TruncateIndex, WriteIndex, Record, ToolsDone, Kill
  <2>4. at'[c] # "idle" => place'[c] # "off"
    <3>1. CASE place' = place
      BY <2>1, <3>1 DEF Running
    <3>2. CASE place' # place
      <4>1. NotReady(c) \/ AskForPlan(c) \/ Record(c) \/ ToolsDone(c) \/ Kill(c)
        BY <1>3, <3>2 DEF CallStep, FileStep, ChatStep, CheckReady, Ask, Announce, Answered, Refused,
           ServerErrs, AttemptFails, GivesUp, Judged, Settle, LogPlan, LogFailedReview, LogTrace,
           ReadIndex, TruncateIndex, WriteIndex
      <4> QED
        BY <1>1, <4>1 DEF NotReady, AskForPlan, Record, ToolsDone, Kill
    <3> QED
      BY <3>1, <3>2
  <2> QED
    BY <2>1, <2>2, <2>3, <2>4 DEF Start
<1> QED
  BY <1>2, <1>3

\* No process runs in the beginning.
LEMMA AloneInit == Init => Alone
  BY DEF Init, Alone, Running

\* Without a rival, a process starts only when none runs.
LEMMA AloneNext ==
  ASSUME TypeInv, Alone, "rival" \notin Faults, NEW c \in Callers,
         Start(c) \/ CallStep(c) \/ Kill(c)
  PROVE  Alone'
  BY PlacesMove DEF Alone, Running

-------------------------------------------------------------------------------
(***************************************************************************)
(* The cap of the response advisor                                         *)
(***************************************************************************)
\* The response advisor has counted its call in the process's copy only.
Counted(c) == at[c] = "announce" /\ call[c].stage = "response_advisor"

\* The database has counted every chat that began; a process's copy is one
\* ahead of it between the count and the event that commits it.
CapInv == /\ TypeInv /\ Alone
          /\ asked = advised /\ advised <= Cap
          /\ \A c \in Callers : Running(c) =>
                IF Counted(c) THEN copy[c] = advised + 1 /\ copy[c] <= Cap
                              ELSE copy[c] = advised

LEMMA CapInvNext ==
  ASSUME "rival" \notin Faults, CapInv, [Next]_vars
  PROVE  CapInv'
<1>1. /\ at \in [Callers -> Points] /\ place \in [Callers -> Places] /\ call \in [Callers -> Calls]
      /\ copy \in [Callers -> Nat] /\ advised \in Nat /\ asked \in Nat /\ Cap \in Nat
  BY CapAssumption DEF CapInv, TypeInv, AiTypeOK
<1>2. TypeInv'
  BY TypeInvNext DEF CapInv
<1>3. CASE UNCHANGED vars
  BY <1>2, <1>3 DEF vars, processVars, rowVars, countVars, CapInv, Alone, Running, Counted
<1> DEFINE Held(c) == IF Counted(c) THEN copy[c] = advised + 1 /\ copy[c] <= Cap
                                    ELSE copy[c] = advised
<1> SUFFICES ASSUME NEW c \in Callers, Start(c) \/ CallStep(c) \/ Kill(c)
             PROVE  asked' = advised' /\ advised' <= Cap /\ (place'[c] # "off" => Held(c)')
  <2>1. ASSUME NEW c \in Callers, Start(c) \/ CallStep(c) \/ Kill(c) PROVE Alone'
    BY <2>1, AloneNext DEF CapInv
  <2>2. ASSUME NEW c \in Callers, Start(c) \/ CallStep(c) \/ Kill(c), NEW e \in Callers, e # c
        PROVE  ~Running(e)'
    BY <2>2, PlacesMove DEF CapInv, Running
  <2> QED
    BY <1>2, <1>3, <2>1, <2>2 DEF Next, CapInv, Running
<1>4. asked = advised /\ advised <= Cap
  BY DEF CapInv
<1>5. ASSUME place[c] # "off", ~Counted(c), ~Counted(c)', UNCHANGED <<copy, advised, asked>>
      PROVE  asked' = advised' /\ advised' <= Cap /\ Held(c)'
  BY <1>4, <1>5 DEF CapInv, Running
<1>6. ~Start(c) => place[c] # "off"
  BY PlacesMove DEF CapInv, Running
<1>7. CASE Start(c)
  <2>1. at'[c] = "idle" /\ copy'[c] = advised /\ UNCHANGED <<advised, asked>>
    BY <1>1, <1>7, PlacesMove DEF CapInv, Start, rowVars, countVars
  <2> QED
    BY <1>4, <2>1 DEF Counted
<1>8. CASE Announce(c)
  <2>1. CASE Counted(c)
    <3>1. copy[c] = advised + 1 /\ copy[c] <= Cap
      BY <2>1 DEF CapInv, Counted, Alone
    <3>2. advised' = copy[c] /\ asked' = asked + 1 /\ copy' = copy /\ at'[c] = "chat"
      BY <1>1, <1>8, <2>1 DEF Announce, Counted
    <3> QED
      BY <1>4, <3>1, <3>2 DEF Counted
  <2>2. CASE ~Counted(c)
    <3>1. at'[c] = "chat" /\ UNCHANGED <<copy, advised, asked>> /\ place[c] # "off"
      BY <1>1, <1>8, <2>2 DEF Announce, Counted, CapInv, Alone, Running
    <3> QED
      BY <1>5, <2>2, <3>1 DEF Counted
  <2> QED
    BY <2>1, <2>2
<1>9. ASSUME NEW s \in DOMAIN PlaceOf, Ask(c, s)
      PROVE  asked' = advised' /\ advised' <= Cap /\ Held(c)'
  <2>1. /\ at[c] = "idle" /\ place[c] # "off" /\ UNCHANGED <<advised, asked>>
        /\ at'[c] = "announce" /\ call'[c].stage = s
    BY <1>1, <1>9 DEF Ask, rowVars, PlaceOf, NoCall
  <2>2. copy[c] = advised
    BY <2>1 DEF CapInv, Running, Counted
  <2>3. CASE s = "response_advisor"
    <3>1. copy'[c] = advised + 1 /\ copy[c] < Cap
      BY <1>1, <1>9, <2>2, <2>3 DEF Ask, MayAdvise
    <3> QED
      BY <1>1, <1>4, <2>1, <2>2, <2>3, <3>1 DEF Counted
  <2>4. CASE s # "response_advisor"
    BY <1>4, <1>9, <2>1, <2>2, <2>4 DEF Counted, Ask
  <2> QED
    BY <2>3, <2>4
<1>10. CASE ChatStep(c)
  <2>1. at[c] = "chat" /\ at' \in {at, [at EXCEPT ![c] = "judged"]} /\ UNCHANGED <<copy, advised, asked>>
    BY <1>10, ChatChanges DEF CapInv, rowVars, countVars
  <2>2. at'[c] # "announce"
    BY <1>1, <2>1
  <2>3. place[c] # "off"
    BY <2>1 DEF CapInv, Alone, Running
  <2> QED
    BY <1>5, <2>1, <2>2, <2>3 DEF Counted
<1>11. CASE Kill(c)
  <2>1. place'[c] = "off" /\ UNCHANGED <<advised, asked>>
    BY <1>1, <1>11 DEF Kill, rowVars
  <2> QED
    BY <1>4, <2>1
<1>12. CASE \/ CheckReady(c) \/ NotReady(c) \/ AskForPlan(c) \/ Settle(c) \/ LogPlan(c)
            \/ LogFailedReview(c) \/ FileStep(c) \/ ToolsDone(c)
  <2>1. at[c] # "announce" /\ at'[c] # "announce" /\ UNCHANGED <<copy, advised, asked>>
    BY <1>1, <1>12 DEF CheckReady, NotReady, AskForPlan, Settle, LogPlan, LogFailedReview, LogTrace,
       FileStep, ReadIndex, TruncateIndex, WriteIndex, Record, ToolsDone, rowVars, countVars
  <2>2. place[c] # "off"
    BY <1>6, <1>12 DEF Start, Alone, CapInv, Running, CheckReady, NotReady, AskForPlan, Settle, LogPlan,
       LogFailedReview, FileStep, ReadIndex, TruncateIndex, WriteIndex, Record, ToolsDone
  <2> QED
    BY <1>5, <2>1, <2>2 DEF Counted
<1> QED
  BY <1>7, <1>8, <1>9, <1>10, <1>11, <1>12 DEF CallStep

\* The response advisor is asked at most Cap times over all the processes of a
\* scan that run one after another, wherever they are killed: what a dead one
\* had counted but not committed it had not asked either (prompt_runner.py:
\* _maybe_review_response_with_ai; advisor.py: ai_advisor_called).
THEOREM AdvisorIsCapped ==
  ASSUME "rival" \notin Faults
  PROVE  Spec => []CapHolds
<1>1. Init => CapInv
  BY AloneInit, TypeInvInit, CapAssumption DEF Init, CapInv, Running
<1>2. CapInv /\ [Next]_vars => CapInv'
  BY CapInvNext
<1>3. CapInv => CapHolds
  BY DEF CapInv, CapHolds
<1> QED
  BY <1>1, <1>2, <1>3, PTL DEF Spec

-------------------------------------------------------------------------------
(***************************************************************************)
(* The trace index                                                         *)
(***************************************************************************)
Recorded == {i \in Ids : row[i] # "none"}

\* While nobody rewrites the index it has every recorded call; while somebody
\* does, what he has read has them, and what he has written has his own too.
IndexInv == /\ TypeInv /\ Alone
            /\ \/ cutShort
               \/ /\ (\A c \in Callers : at[c] # "write") => Recorded \subseteq index
                  /\ \A c \in Callers : at[c] \in {"truncate", "write"} => Recorded \subseteq seen[c]
                  /\ \A c \in Callers : at[c] = "record" => call[c].id \in index

\* Every step keeps what the index, its readers and its writers have.
LEMMA IndexInvNext ==
  ASSUME "rival" \notin Faults, IndexInv, [Next]_vars
  PROVE  IndexInv'
<1>1. /\ at \in [Callers -> Points] /\ seen \in [Callers -> SUBSET Ids]
      /\ call \in [Callers -> Calls] /\ row \in [Ids -> Verdicts \cup {"none"}]
  BY DEF IndexInv, TypeInv, AiTypeOK
<1>2. TypeInv'
  BY TypeInvNext DEF IndexInv
<1>3. CASE UNCHANGED vars
  BY <1>2, <1>3 DEF vars, processVars, fileVars, rowVars, countVars, IndexInv, Alone, Running, Recorded
<1> DEFINE Listed == /\ (\A e \in Callers : at[e] # "write") => Recorded \subseteq index
                     /\ \A e \in Callers : at[e] \in {"truncate", "write"} => Recorded \subseteq seen[e]
                     /\ \A e \in Callers : at[e] = "record" => call[e].id \in index
<1> SUFFICES ASSUME NEW c \in Callers, Start(c) \/ CallStep(c) \/ Kill(c) PROVE cutShort' \/ Listed'
  <2>1. ASSUME NEW c \in Callers, Start(c) \/ CallStep(c) \/ Kill(c) PROVE Alone'
    BY <2>1, AloneNext DEF IndexInv
  <2> QED
    BY <1>2, <1>3, <2>1 DEF Next, IndexInv
<1>4. /\ \A e \in Callers : e # c => at'[e] = "idle" /\ at[e] = "idle"
      /\ Start(c) => at[c] = "idle" /\ at'[c] = "idle"
  BY PlacesMove DEF IndexInv
<1>5. CASE cutShort /\ ~Kill(c)
  <2>1. cutShort' = cutShort
    BY <1>5 DEF Start, CallStep, CheckReady, NotReady, AskForPlan, Ask, Announce, ChatStep,
       Answered, Refused, ServerErrs, AttemptFails, GivesUp, Judged, Settle, LogPlan,
       LogFailedReview, LogTrace, FileStep, ReadIndex, TruncateIndex, WriteIndex, Record,
       ToolsDone, countVars
  <2> QED
    BY <1>5, <2>1
<1>6. CASE Kill(c) /\ (cutShort \/ at[c] = "write")
  BY <1>6 DEF Kill
<1>7. ASSUME ~cutShort, at[c] # "write" \/ ~Kill(c) PROVE Listed'
  <2>1. Listed
    BY <1>7 DEF IndexInv
  <2>2. at[c] # "write" => Recorded \subseteq index
    BY <1>4, <2>1
  <2>3. ASSUME at[c] # "write", at'[c] \notin {"truncate", "write", "record"}, UNCHANGED <<index, row>>
        PROVE  Listed'
    BY <1>4, <2>2, <2>3 DEF Recorded
  <2>4. CASE Kill(c)
    BY <1>1, <1>7, <2>3, <2>4 DEF Kill, fileVars, rowVars
  <2>5. CASE Start(c)
    BY <1>1, <1>4, <2>3, <2>5 DEF Start, fileVars, rowVars
  <2>6. CASE ChatStep(c)
    <3>1. at[c] = "chat" /\ at' \in {at, [at EXCEPT ![c] = "judged"]} /\ UNCHANGED <<index, row>>
      BY <2>6, ChatChanges DEF IndexInv, fileVars, rowVars
    <3> QED
      BY <1>1, <2>3, <3>1
  <2>7. CASE \/ CheckReady(c) \/ NotReady(c) \/ AskForPlan(c) \/ Announce(c)
             \/ Settle(c) \/ LogPlan(c) \/ LogFailedReview(c) \/ ToolsDone(c)
             \/ \E s \in DOMAIN PlaceOf : Ask(c, s)
    BY <1>1, <2>3, <2>7 DEF CheckReady, NotReady, AskForPlan, Ask, Announce, Settle, LogPlan,
       LogFailedReview, LogTrace, ToolsDone, fileVars, rowVars, countVars
  <2>8. CASE ReadIndex(c)
    <3>1. /\ at[c] # "write" /\ at'[c] = "truncate" /\ seen'[c] = index /\ UNCHANGED <<index, row>>
      BY <1>1, <2>8 DEF ReadIndex, fileVars, rowVars
    <3> QED
      BY <1>4, <2>2, <3>1 DEF Recorded
  <2>9. CASE TruncateIndex(c)
    <3>1. /\ at[c] = "truncate" /\ at'[c] = "write" /\ seen' = seen /\ row' = row
      BY <1>1, <2>9 DEF TruncateIndex, rowVars
    <3> QED
      BY <1>4, <2>1, <3>1 DEF Recorded
  <2>10. CASE WriteIndex(c)
    <3>1. /\ at[c] = "write" /\ at'[c] = "record" /\ index' = seen[c] \cup {call[c].id}
          /\ call' = call /\ row' = row
      BY <1>1, <2>10 DEF WriteIndex, rowVars
    <3>2. Recorded \subseteq seen[c]
      BY <2>1, <3>1
    <3> QED
      BY <1>4, <3>1, <3>2 DEF Recorded
  <2>11. CASE Record(c)
    <3>1. /\ at[c] = "record" /\ at'[c] = "idle" /\ index' = index
          /\ row' = [row EXCEPT ![call[c].id] = call[c].verdict]
      BY <1>1, <2>11 DEF Record, fileVars
    <3>2. Recorded' \subseteq Recorded \cup {call[c].id}
      BY <1>1, <3>1 DEF Recorded
    <3>3. Recorded \subseteq index /\ call[c].id \in index
      BY <2>1, <2>2, <3>1
    <3> QED
      BY <1>4, <3>1, <3>2, <3>3
  <2> QED
    BY <2>4, <2>5, <2>6, <2>7, <2>8, <2>9, <2>10, <2>11 DEF CallStep, FileStep
<1> QED
  BY <1>5, <1>6, <1>7

\* The index lists every recorded call over all the processes of a scan that run
\* one after another, unless one is killed between truncating the file and
\* writing it (tracing.py: append_ai_trace_index).
THEOREM RecordedAreIndexed ==
  ASSUME "rival" \notin Faults
  PROVE  Spec => []IndexListsCalls
<1>1. Init => IndexInv
  <2> SUFFICES ASSUME Init PROVE IndexInv
    OBVIOUS
  <2>1. \A c \in Callers : at[c] = "idle"
    BY DEF Init
  <2>2. Recorded = {}
    BY DEF Init, Recorded
  <2> QED
    BY <2>1, <2>2, AloneInit, TypeInvInit DEF IndexInv
<1>2. IndexInv /\ [Next]_vars => IndexInv'
  BY IndexInvNext
<1>3. IndexInv => IndexListsCalls
  BY DEF IndexInv, IndexListsCalls, Recorded
<1> QED
  BY <1>1, <1>2, <1>3, PTL DEF Spec

===============================================================================
