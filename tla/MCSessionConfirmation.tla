----------------------- MODULE MCSessionConfirmation -----------------------
(* SessionConfirmation for TLC: clients and calls are model values. *)
EXTENDS SessionConfirmation, TLC

CONSTANTS c1, c2, k1, k2

Symmetry == Permutations(Client) \union Permutations(Call)
=============================================================================
