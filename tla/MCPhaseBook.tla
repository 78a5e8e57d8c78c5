------------------------------ MODULE MCPhaseBook ------------------------------
(***************************************************************************)
(* Instances of PhaseBook for TLC.                                         *)
(***************************************************************************)
EXTENDS PhaseProperties, TLC

\* A scan of an ordinary application.
PlainFacts == {[default |-> FALSE, crapi |-> FALSE, authApi |-> FALSE, sessions |-> FALSE]}

===============================================================================
