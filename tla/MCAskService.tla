--------------------------- MODULE MCAskService ---------------------------
(* Instances of AskService for TLC. *)
EXTENDS AskService, TLC

CONSTANTS r1, r2, q1

\* A request that does not name the session meets no other request.
UnscopedAlone ==
    (\E r \in Request : asked[r] # NoQuestion /\ ~scoped[r])
        => \A r, s \in Request : asked[r] # NoQuestion /\ asked[s] # NoQuestion => r = s

AloneSpec == Init /\ [][Next /\ UnscopedAlone']_vars /\ Fairness

=============================================================================
