----------------------------- MODULE Selection ------------------------------
(***************************************************************************)
(* The filter of JavaScript arrays and maps, as the conversation, the      *)
(* index of knowledge and the reader of records use it: what is kept, in   *)
(* its order. It is a recursive function, so that lemmas can be proved     *)
(* about it.                                                               *)
(***************************************************************************)
EXTENDS Naturals, Sequences

\* The elements of s that are in T, in the order of s.
Within(s, T) ==
    LET kept[n \in 0 .. Len(s)] ==
            IF n = 0 THEN <<>>
            ELSE IF s[n] \in T THEN Append(kept[n - 1], s[n]) ELSE kept[n - 1]
    IN  kept[Len(s)]

=============================================================================
