---------------------------- MODULE MCScanControl ----------------------------
(***************************************************************************)
(* Instances of ScanControl for TLC.                                       *)
(***************************************************************************)
EXTENDS ScanProperties, TLC

\* Workers are told apart by nothing but their process table entry, request
\* threads by nothing at all.
Symmetry == Permutations(Workers) \cup Permutations(Handlers)

==============================================================================
