----------------------------- MODULE OrderedPicks -----------------------------
(***************************************************************************)
(* The operator by which the models filter a sequence: a list              *)
(* comprehension with a condition, in the Python code.  It is the          *)
(* SelectSeq of a set, written as the recursive function that the provers  *)
(* can speak of; DataLemmas says what it returns.                          *)
(***************************************************************************)
EXTENDS Naturals, Sequences

\* The elements of s that are in S, in the order of s.
InOrder(s, S) ==
    LET kept[i \in 0..Len(s)] ==
            IF i = 0 THEN <<>>
            ELSE IF s[i] \in S THEN Append(kept[i - 1], s[i]) ELSE kept[i - 1]
    IN kept[Len(s)]

===============================================================================
