------------------------------ MODULE AskSession ------------------------------
(***************************************************************************)
(* What one Ask session promises to whoever asks it, whatever is cut       *)
(* short, lost or crashes on the way: the turn of a request, its question  *)
(* and the answer to it, is kept in one step and at most once, at the end  *)
(* of the transcript it is kept in; an answer that is complete for the     *)
(* client has been kept by then; a request that is refused leaves no       *)
(* trace. One that fails half way or that the client leaves may be kept,   *)
(* before or after the client knows.                                       *)
(***************************************************************************)
EXTENDS Integers, Sequences

CONSTANTS
    Request,    \* requests that may be sent
    Question,   \* what they may ask
    Window,     \* messages a session keeps
    NoQuestion  \* not a question

VARIABLES
    transcript,  \* the messages of the session
    kept,        \* the requests whose turn has been kept
    asked,       \* asked[r]: the question
    named,       \* named[r]: the request names the session
    outcome      \* outcome[r]: what the client knows of it

vars == <<transcript, kept, asked, named, outcome>>

Turn(r) == <<[role |-> "user", content |-> asked[r]], [role |-> "assistant", content |-> r]>>

LastOf(s, n) == IF Len(s) > n THEN SubSeq(s, Len(s) - n + 1, Len(s)) ELSE s

Init ==
    /\ transcript = <<>> /\ kept = {}
    /\ asked = [r \in Request |-> NoQuestion]
    /\ named = [r \in Request |-> FALSE]
    /\ outcome = [r \in Request |-> "none"]

Ask(r) ==
    /\ outcome[r] = "none"
    /\ outcome' = [outcome EXCEPT ![r] = "open"]
    /\ \E q \in Question : asked' = [asked EXCEPT ![r] = q]
    /\ \E b \in BOOLEAN : named' = [named EXCEPT ![r] = b]
    /\ UNCHANGED <<transcript, kept>>

Keep(r) ==
    /\ named[r] /\ r \notin kept
    /\ outcome[r] \notin {"none", "refused"}
    /\ kept' = kept \union {r}
    /\ transcript' = LastOf(transcript \o Turn(r), Window)
    /\ UNCHANGED <<asked, named, outcome>>

End(r, o) ==
    /\ outcome[r] = "open"
    /\ o = "done" /\ named[r] => r \in kept
    /\ o = "refused" => r \notin kept
    /\ outcome' = [outcome EXCEPT ![r] = o]
    /\ UNCHANGED <<transcript, kept, asked, named>>

Next ==
    \E r \in Request :
        \/ Ask(r) \/ Keep(r)
        \/ \E o \in {"done", "failed", "refused", "left"} : End(r, o)

Spec == Init /\ [][Next]_vars

=============================================================================
