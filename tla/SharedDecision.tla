--------------------------- MODULE SharedDecision ---------------------------
(***************************************************************************)
(* What the clients of one stored session promise together about its tool  *)
(* calls, whatever each keeps to itself: one client puts one decision to   *)
(* its upstream controller, once the stored confirmation speaks of it or   *)
(* is missing, and from then on it speaks of no other.                     *)
(***************************************************************************)
EXTENDS Naturals, Sequences

CONSTANTS
    Client,      \* who may decide
    Call,        \* what is decided about
    Processing,  \* the decisions, as statuses that are being carried out
    TerminalOf   \* TerminalOf[s]: the status when s has been carried out

VARIABLES
    storedTable,  \* storedTable[k]: the stored status of call k
    asked         \* asked[c][k]: what client c's upstream controller was asked to do

vars == <<storedTable, asked>>

Init ==
    /\ storedTable = [k \in Call |-> "none"]
    /\ asked = [c \in Client |-> [k \in Call |-> <<>>]]

Open(k) == \A c \in Client : asked[c][k] = <<>>

\* The first decision is the last one.
Ask(c, k, s) ==
    /\ Open(k)
    /\ storedTable[k] \in {"none", s}
    /\ asked' = [asked EXCEPT ![c][k] = <<s>>]
    /\ UNCHANGED storedTable

\* What may be stored of a call: anything but a success while it is open, and
\* the decision or its end thereafter. An unsaved proposal may lack its entry.
Told(k, v) ==
    \/ v = "none"
    \/ Open(k) /\ v \in {"pending", "rejected"} \union Processing
    \/ \E c \in Client, s \in Processing : asked[c][k] = <<s>> /\ v \in {s, TerminalOf[s]}

Save ==
    /\ \A k \in Call : Told(k, storedTable'[k])
    /\ UNCHANGED asked

Next == Save \/ \E c \in Client, k \in Call, s \in Processing : Ask(c, k, s)

Spec == Init /\ [][Next]_vars

=============================================================================
