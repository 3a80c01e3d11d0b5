---------------------------- MODULE TenantErasure ----------------------------
(***************************************************************************)
(* eraseTenantChatData (packages/server/src/erasure.ts): the erasers of    *)
(* all categories of a tenant's chat data run at once, each with a         *)
(* deadline, next to turns of the same tenant that still write.  The       *)
(* erasers, the stores and the refusal of turns belong to the host.        *)
(***************************************************************************)
EXTENDS Naturals

CONSTANTS
    Category,  \* TENANT_CHAT_DATA_CATEGORIES
    MaxCalls   \* bound on the calls, the first and its retries

ASSUME CallAssumption == MaxCalls \in Nat \ {0}

VARIABLES
    kept,      \* the categories that have records of the tenant
    eraser,    \* eraser[c]: idle, running, or late once its deadline is over
    result,    \* result[c]: how the wait for eraser c ended
    call,      \* idle, running, receipt or error
    failed,    \* the categories that the error names
    turning,   \* a turn of the tenant is in flight
    disturbed, \* a turn was in flight since the call began
    calls      \* calls so far

erasureVars == <<kept, eraser, result, call, failed, turning, disturbed, calls>>

-----------------------------------------------------------------------------
ErasureInit ==
    /\ kept \in SUBSET Category
    /\ eraser = [c \in Category |-> "idle"] /\ result = [c \in Category |-> "none"]
    /\ call = "idle" /\ failed = {}
    /\ turning = FALSE /\ disturbed = FALSE /\ calls = 0

\* A turn of the tenant; the host may or may not refuse it.
TurnBegins ==
    /\ ~turning
    /\ turning' = TRUE /\ disturbed' = TRUE
    /\ UNCHANGED <<kept, eraser, result, call, failed, calls>>

TurnWrites ==
    /\ turning
    /\ \E c \in Category : kept' = kept \union {c}
    /\ UNCHANGED <<eraser, result, call, failed, turning, disturbed, calls>>

TurnEnds ==
    /\ turning /\ turning' = FALSE
    /\ UNCHANGED <<kept, eraser, result, call, failed, disturbed, calls>>

-----------------------------------------------------------------------------
\* Every category has its eraser called; one that is late from an earlier call goes on.
Erase ==
    /\ call # "running" /\ calls < MaxCalls
    /\ call' = "running" /\ calls' = calls + 1
    /\ eraser' = [c \in Category |-> "running"] /\ result' = [c \in Category |-> "none"]
    /\ failed' = {} /\ disturbed' = turning
    /\ UNCHANGED <<kept, turning>>

\* An eraser removes the records, and answers with their number.
EraserRemoves(c) ==
    /\ eraser[c] # "idle" /\ c \in kept
    /\ kept' = kept \ {c}
    /\ UNCHANGED <<eraser, result, call, failed, turning, disturbed, calls>>

EraserAnswers(c) ==
    /\ eraser[c] # "idle" /\ c \notin kept
    /\ eraser' = [eraser EXCEPT ![c] = "idle"]
    /\ result' = [result EXCEPT ![c] = IF eraser[c] = "running" THEN "erased" ELSE @]
    /\ UNCHANGED <<kept, call, failed, turning, disturbed, calls>>

\* It throws, or answers with no count, having removed them or not.
EraserFails(c) ==
    /\ eraser[c] # "idle"
    /\ eraser' = [eraser EXCEPT ![c] = "idle"]
    /\ result' = [result EXCEPT ![c] = IF eraser[c] = "running" THEN "failed" ELSE @]
    /\ UNCHANGED <<kept, call, failed, turning, disturbed, calls>>

\* Its deadline or the signal of the caller ends the wait; the eraser may still work.
WaitEnds(c) ==
    /\ eraser[c] = "running"
    /\ eraser' = [eraser EXCEPT ![c] = "late"]
    /\ result' = [result EXCEPT ![c] = "failed"]
    /\ UNCHANGED <<kept, call, failed, turning, disturbed, calls>>

\* allSettled.  (The wrong variant goes on after the first failure.)
OneFailed == \E c \in Category : result[c] = "failed"
EachSettled == \A c \in Category : result[c] # "none"

EraseReturns ==
    /\ call = "running" /\ EachSettled
    /\ failed' = {c \in Category : result[c] = "failed"}
    /\ call' = IF failed' = {} THEN "receipt" ELSE "error"
    /\ UNCHANGED <<kept, eraser, result, turning, disturbed, calls>>

-----------------------------------------------------------------------------
ErasureNext ==
    \/ TurnBegins \/ TurnWrites \/ TurnEnds \/ Erase \/ EraseReturns
    \/ \E c \in Category : EraserRemoves(c) \/ EraserAnswers(c) \/ EraserFails(c) \/ WaitEnds(c)

ErasureSpec == ErasureInit /\ [][ErasureNext]_erasureVars

-----------------------------------------------------------------------------
(* Properties *)

ErasureTypeOK ==
    /\ kept \subseteq Category /\ failed \subseteq Category
    /\ eraser \in [Category -> {"idle", "running", "late"}]
    /\ result \in [Category -> {"none", "erased", "failed"}]
    /\ call \in {"idle", "running", "receipt", "error"}
    /\ turning \in BOOLEAN /\ disturbed \in BOOLEAN /\ calls \in 0..MaxCalls

\* What a receipt claims, and an error of the categories it does not name: nothing of
\* the tenant is left, provided no turn was in flight since the call; whatever an
\* earlier call left running, and in whatever order the erasers end.
ErasedMeansGone ==
    call \in {"receipt", "error"} /\ ~disturbed => kept \subseteq failed

=============================================================================
