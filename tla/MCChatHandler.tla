--------------------------- MODULE MCChatHandler ---------------------------
(* Instances of ChatHandler for TLC. *)
EXTENDS ChatHandler, TLC

CONSTANTS r1, r2, t1, t2

Symmetry == Permutations(Request) \union Permutations(Turn)

=============================================================================
