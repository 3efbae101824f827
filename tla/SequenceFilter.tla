--------------------------- MODULE SequenceFilter ---------------------------
(***************************************************************************)
(* The elements of a sequence that are in a set, in their order: what      *)
(* erase(remove_if) leaves of a vector.  It is a recursive function, where *)
(* SelectSeq of the standard module would do for TLC, because the provers  *)
(* see no definition of SelectSeq.                                         *)
(***************************************************************************)
EXTENDS Integers, Sequences

Filtered(s, S) ==
    LET kept[i \in 0 .. Len(s)] ==
            IF i = 0 THEN <<>>
            ELSE IF s[i] \in S THEN Append(kept[i - 1], s[i]) ELSE kept[i - 1]
    IN kept[Len(s)]
=============================================================================
