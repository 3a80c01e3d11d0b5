--------------------------- MODULE ActionDecision ---------------------------
(***************************************************************************)
(* What a durable action decision promises, whatever serves it: one        *)
(* proposal is decided once, its tool runs at most once and only after an  *)
(* approval, its result is recorded once, and whoever is told about the    *)
(* decision later is told the one that was taken                           *)
(* (docs/protocol/v1.md, "Action decisions"; ADR-0037).                    *)
(***************************************************************************)
EXTENDS Naturals

VARIABLES
    status,    \* of the decision: none, pending, claimed, or how it ended
    decision,  \* the decision that was taken
    runs,      \* how often the tool has run
    told       \* decisions that later requests were told had been taken

vars == <<status, decision, runs, told>>

Init ==
    /\ status \in {"none", "pending"} /\ decision = "none"
    /\ runs = 0 /\ told = {}

Propose ==
    /\ status = "none"
    /\ status' = "pending"
    /\ UNCHANGED <<decision, runs, told>>

Decide(d) ==
    /\ status = "pending"
    /\ status' = "claimed" /\ decision' = d
    /\ UNCHANGED <<runs, told>>

Run ==
    /\ status = "claimed" /\ decision = "approve" /\ runs = 0
    /\ runs' = 1
    /\ UNCHANGED <<status, decision, told>>

Settle ==
    /\ status = "claimed"
    /\ \/ decision = "deny" /\ status' = "denied"
       \/ decision = "approve" /\ runs = 1 /\ status' \in {"complete", "failed"}
    /\ UNCHANGED <<decision, runs, told>>

Tell ==
    /\ status \in {"complete", "failed", "denied"}
    /\ told' = told \union {decision}
    /\ UNCHANGED <<status, decision, runs>>

Next == Propose \/ (\E d \in {"approve", "deny"} : Decide(d)) \/ Run \/ Settle \/ Tell

Spec == Init /\ [][Next]_vars

=============================================================================
