------------------------------ MODULE HoldPermits ------------------------------
(***************************************************************************)
(* How a hold is honoured: a run needs a permit for every tool it begins.  *)
(* A permit is given only while nobody asks for a hold, is good for so     *)
(* many tools and no more, and ends with the process.  Whoever lifts the   *)
(* hold starts the count of what was begun under it anew.                  *)
(***************************************************************************)
EXTENDS Naturals

CONSTANTS Runs, Limit

VARIABLES
    hold,   \* somebody asks the runs to hold
    permit, \* the tools that each run may still begin
    begun   \* those that it began while the hold was asked for

vars == <<hold, permit, begun>>

Init == /\ hold = FALSE
        /\ permit = [r \in Runs |-> 0]
        /\ begun = [r \in Runs |-> 0]

Ask  == hold' = TRUE /\ UNCHANGED <<permit, begun>>
Lift == hold' = FALSE /\ begun' = [r \in Runs |-> 0] /\ UNCHANGED permit

Grant(r) ==
    /\ ~hold
    /\ permit' = [permit EXCEPT ![r] = Limit]
    /\ UNCHANGED <<hold, begun>>

\* What is left of a permit may be given up.
GiveUp(r, n) ==
    /\ n < permit[r]
    /\ permit' = [permit EXCEPT ![r] = n]
    /\ UNCHANGED <<hold, begun>>

Begin(r, n) ==
    /\ n < permit[r]
    /\ permit' = [permit EXCEPT ![r] = n]
    /\ begun' = [begun EXCEPT ![r] = IF hold THEN @ + 1 ELSE 0]
    /\ UNCHANGED hold

End(r) ==
    /\ permit' = [permit EXCEPT ![r] = 0]
    /\ begun' = [begun EXCEPT ![r] = 0]
    /\ UNCHANGED hold

Next == \/ Ask \/ Lift
        \/ \E r \in Runs : \/ Grant(r) \/ End(r)
                           \/ \E n \in 0..Limit : GiveUp(r, n) \/ Begin(r, n)

Spec == Init /\ [][Next]_vars

\* What was begun under a hold, and what may still be begun, are never more than
\* one permit; nothing counts while there is no hold.
WithinOnePermit ==
    \A r \in Runs : begun[r] + permit[r] <= Limit /\ (~hold => begun[r] = 0)

===============================================================================
