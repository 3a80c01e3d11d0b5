------------------------- MODULE SessionConfirmation -------------------------
(***************************************************************************)
(* Action confirmations of one chat session that several clients have      *)
(* resumed from the same SessionStorage (packages/chat/src/index.ts).      *)
(*                                                                         *)
(* A client is one process lifetime of one resumed session: the            *)
(* coordinator of createActionConfirmation, the session variables and the  *)
(* save queue of createChatSession, and an upstream controller of its own. *)
(* A restart after a crash is another client that resumes.  The storage is *)
(* the compare-and-set port SessionStorage.save.  A record's token and its *)
(* tool-call id are one identity here, a member of Call; the input, the    *)
(* action name and the formatting of ids are left out.                     *)
(***************************************************************************)
EXTENDS Naturals, Sequences

CONSTANTS
    Client,      \* clients (incarnations) that may resume the session
    Call,        \* tool calls that may be proposed, one token each
    Overlap,     \* TRUE: a client may start an operation while another of its
                 \* operations is in flight; FALSE: the host serialises them
    TouchLimit,  \* bound on the cursor below which a plain persist() may start
    MaxLosses    \* bound on saves or answers that are lost

ASSUME OverlapAssumption == Overlap \in BOOLEAN
ASSUME BoundAssumption == TouchLimit \in Nat /\ MaxLosses \in Nat

Processing == {"approving", "rejecting", "expiring"}
Terminal == {"approved", "rejected", "expired"}

\* The status an operation ends in.  (The wrong variant names the call made for an
\* expired confirmation.)
TerminalOfDenied == [s \in Processing |->
                       IF s = "approving" THEN "approved"
                       ELSE IF s = "rejecting" THEN "rejected" ELSE "denied"]
TerminalOf == [s \in Processing |->
                 IF s = "approving" THEN "approved"
                 ELSE IF s = "rejecting" THEN "rejected" ELSE "expired"]

\* "none": no entry for the token.
Entry == {"none", "pending"} \union Processing \union Terminal
Table == [Call -> Entry]
Empty == [k \in Call |-> "none"]

\* In the coordinator's map a record registered before the upstream answered is
\* told from the one written afterwards by object identity: "provisional".
Record == Entry \union {"provisional"}

VARIABLES
    storedCursor,  \* cursor of the stored snapshot, 0 when there is no row
    storedTable,   \* its confirmations
    phase,         \* phase[c]: "absent", "up" or "down" (crashed)
    cursor,        \* cursor[c]: the session's cursor, 0 when it loaded no row
    table,         \* table[c]: the session's `confirmations`
    records,       \* records[c]: the coordinator's `records`
    opPc,          \* opPc[c][k]: where the one operation of runOnce stands
    opTo,          \* opTo[c][k]: the processing status it claims, or "none"
    propPc,        \* propPc[c][k]: where propose() stands
    queue,         \* queue[c]: the chain of persists, each with its waiter
    wireState,     \* wireState[c]: the save at the head of the chain
    wireTable,     \* wireTable[c]: the confirmations in that save's snapshot
    asked,         \* asked[c][k]: what c's upstream controller was asked to do
    issued,        \* calls proposed so far (ids are unique)
    lapsed,        \* calls whose expiresAt has passed
    losses         \* saves or answers lost so far

store == <<storedCursor, storedTable>>
session == <<cursor, table, queue, wireState, wireTable>>
coordinator == <<records, opPc, opTo, propPc>>
world == <<asked, issued, lapsed, losses>>
vars == <<store, session, coordinator, world, phase>>

-----------------------------------------------------------------------------
\* One link of persistQueue: who awaits it, and the table its waiter restores
\* when the save fails.
Ticket == [for: {"claim", "propose"}, call: Call, prev: Table]
            \union [for: {"touch"}]

Init ==
    /\ storedCursor = 0
    /\ storedTable = Empty
    /\ phase = [c \in Client |-> "absent"]
    /\ cursor = [c \in Client |-> 0]
    /\ table = [c \in Client |-> Empty]
    /\ records = [c \in Client |-> Empty]
    /\ opPc = [c \in Client |-> [k \in Call |-> "idle"]]
    /\ opTo = [c \in Client |-> Empty]
    /\ propPc = [c \in Client |-> [k \in Call |-> "idle"]]
    /\ queue = [c \in Client |-> <<>>]
    /\ wireState = [c \in Client |-> "none"]
    /\ wireTable = [c \in Client |-> Empty]
    /\ asked = [c \in Client |-> [k \in Call |-> <<>>]]
    /\ issued = {}
    /\ lapsed = {}
    /\ losses = 0

\* onChange builds the session's table from the coordinator's records; the
\* status of a provisional record reads 'pending'.
Published(recs) ==
    [k \in Call |-> IF recs[k] = "provisional" THEN "pending" ELSE recs[k]]

\* claimStatus maps over the session's table: no effect on a token it lacks.
\* (The wrong variants save nothing, or the terminal status at once.)
WithStatusDropped(tab, k, s) == tab
WithStatusEager(tab, k, s) ==
    IF tab[k] = "none" THEN tab
    ELSE [tab EXCEPT ![k] = IF s \in Processing THEN TerminalOf[s] ELSE s]
WithStatus(tab, k, s) ==
    IF tab[k] = "none" THEN tab ELSE [tab EXCEPT ![k] = s]

\* persist(): append a link to the chain; the waiter keeps the table it replaced.
Enqueue(c, for, k) ==
    queue' = [queue EXCEPT ![c] =
                Append(@, [for |-> for, call |-> k, prev |-> table[c]])]

\* No propose, approve or reject of this client is in flight.
Quiet(c) == \A k \in Call : opPc[c][k] = "idle" /\ propPc[c][k] \in {"idle", "done"}

MayStart(c) == phase[c] = "up" /\ (Overlap \/ Quiet(c))

-----------------------------------------------------------------------------
(* Process lifetime *)

\* resumeChatSession and createConfirmation: session and coordinator start from
\* the loaded snapshot, or empty when there is none.
Resume(c) ==
    /\ phase[c] = "absent"
    /\ phase' = [phase EXCEPT ![c] = "up"]
    /\ cursor' = [cursor EXCEPT ![c] = storedCursor]
    /\ table' = [table EXCEPT ![c] = storedTable]
    /\ records' = [records EXCEPT ![c] = storedTable]
    /\ UNCHANGED <<store, queue, wireState, wireTable, opPc, opTo, propPc, world>>

\* The process dies and its memory is gone; a save it already sent may still
\* reach the storage (cursor and wireTable are the request's from here on).
Crash(c) ==
    /\ phase[c] = "up"
    /\ phase' = [phase EXCEPT ![c] = "down"]
    /\ table' = [table EXCEPT ![c] = Empty]
    /\ records' = [records EXCEPT ![c] = Empty]
    /\ opPc' = [opPc EXCEPT ![c] = [k \in Call |-> "idle"]]
    /\ opTo' = [opTo EXCEPT ![c] = Empty]
    /\ propPc' = [propPc EXCEPT ![c] = [k \in Call |-> "idle"]]
    /\ queue' = [queue EXCEPT ![c] = <<>>]
    /\ wireState' = [wireState EXCEPT ![c] = IF @ = "sent" THEN "sent" ELSE "none"]
    /\ UNCHANGED <<store, cursor, wireTable, world>>

Lapse(k) ==
    /\ k \in issued \ lapsed
    /\ lapsed' = lapsed \union {k}
    /\ UNCHANGED <<store, session, coordinator, phase, asked, issued, losses>>

-----------------------------------------------------------------------------
(* The coordinator: createActionConfirmation *)

\* propose(): register the record, then call chat.proposeToolCall.
Propose(c, k) ==
    /\ MayStart(c)
    /\ k \notin issued
    /\ issued' = issued \union {k}
    /\ records' = [records EXCEPT ![c][k] = "provisional"]
    /\ propPc' = [propPc EXCEPT ![c][k] = "upstream"]
    /\ UNCHANGED <<store, session, opPc, opTo, phase, asked, lapsed, losses>>

\* proposeToolCall rejects: the record goes unless a claim has replaced it.
ProposeThrows(c, k) ==
    /\ phase[c] = "up"
    /\ propPc[c][k] = "upstream"
    /\ propPc' = [propPc EXCEPT ![c][k] = "done"]
    /\ records' = [records EXCEPT ![c][k] = IF @ = "provisional" THEN "none" ELSE @]
    /\ UNCHANGED <<store, session, opPc, opTo, phase, world>>

\* proposeToolCall resolves while the record is still the provisional one: the
\* record is replaced, and changed() publishes every record and persists.
ProposeReturns(c, k, status) ==
    /\ phase[c] = "up"
    /\ propPc[c][k] = "upstream"
    /\ records[c][k] = "provisional"
    /\ propPc' = [propPc EXCEPT ![c][k] = "saving"]
    /\ records' = [records EXCEPT ![c][k] = status]
    /\ table' = [table EXCEPT ![c] = Published(records'[c])]
    /\ Enqueue(c, "propose", k)
    /\ UNCHANGED <<store, cursor, wireState, wireTable, opPc, opTo, phase, world>>

\* proposeToolCall resolves after a decision replaced the record: propose()
\* answers the decided record and changes nothing.
ProposeAlreadyDecided(c, k) ==
    /\ phase[c] = "up"
    /\ propPc[c][k] = "upstream"
    /\ records[c][k] # "provisional"
    /\ propPc' = [propPc EXCEPT ![c][k] = "done"]
    /\ UNCHANGED <<store, session, records, opPc, opTo, phase, world>>

\* claim(record, status) up to the await of claimStatus.
Claim(c, k, status, pc) ==
    /\ opPc' = [opPc EXCEPT ![c][k] = pc]
    /\ opTo' = [opTo EXCEPT ![c][k] = status]
    /\ table' = [table EXCEPT ![c] =
                   WithStatus(@, k, IF pc = "settling" THEN TerminalOf[status] ELSE status)]
    /\ Enqueue(c, "claim", k)
    /\ UNCHANGED <<store, cursor, wireState, wireTable, records, propPc, phase, world>>

\* approve and reject act on a pending record only; runOnce joins the operation
\* already in flight for the token.
\* (The wrong variant forgets the test of the status.)
UndecidedIfFree(c, k) == opPc[c][k] = "idle" /\ records[c][k] # "none"
Undecided(c, k) ==
    /\ opPc[c][k] = "idle"
    /\ records[c][k] \in {"pending", "provisional"}

\* approve(): a record past its expiry is denied as expired instead.
Approve(c, k) ==
    /\ MayStart(c)
    /\ Undecided(c, k)
    /\ Claim(c, k, IF k \in lapsed THEN "expiring" ELSE "approving", "claiming")

\* reject(): no expiry check.
Reject(c, k) ==
    /\ MayStart(c)
    /\ Undecided(c, k)
    /\ Claim(c, k, "rejecting", "claiming")

\* chat.approve or chat.deny resolved: claim the terminal status.
UpstreamResolves(c, k) ==
    /\ phase[c] = "up"
    /\ opPc[c][k] = "delegating"
    /\ Claim(c, k, opTo[c][k], "settling")

\* chat.approve or chat.deny rejected: with a storage the record stays at its
\* processing status and the error reaches the caller.
UpstreamThrows(c, k) ==
    /\ phase[c] = "up"
    /\ opPc[c][k] = "delegating"
    /\ opPc' = [opPc EXCEPT ![c][k] = "idle"]
    /\ opTo' = [opTo EXCEPT ![c][k] = "none"]
    /\ UNCHANGED <<store, session, records, propPc, phase, world>>

-----------------------------------------------------------------------------
(* The save queue: persist() of createChatSession *)

\* A bare persist(), as createSource schedules after every turn it routes.
Touch(c) ==
    /\ phase[c] = "up"
    /\ cursor[c] + Len(queue[c]) < TouchLimit
    /\ queue' = [queue EXCEPT ![c] = Append(@, [for |-> "touch"])]
    /\ UNCHANGED <<store, cursor, table, wireState, wireTable, coordinator, phase, world>>

\* A link starts when the one before it has settled, resolved or rejected.
\* (The wrong variant chains on success only.)
HeadReadyIfResolved(c) == wireState[c] = "none" /\ queue[c] # <<>> /\ losses = 0
HeadReady(c) == wireState[c] = "none" /\ queue[c] # <<>>

\* The link at the head runs: buildSnapshot reads the table now, not when
\* persist() was called, and storage.save is called with it.
StartSave(c) ==
    /\ phase[c] = "up"
    /\ HeadReady(c)
    /\ wireState' = [wireState EXCEPT ![c] = "sent"]
    /\ wireTable' = [wireTable EXCEPT ![c] = table[c]]
    /\ UNCHANGED <<store, cursor, table, queue, coordinator, phase, world>>

\* The storage's test: expectedCursor is the stored cursor, or is undefined (0)
\* and there is no row.
\* (The wrong variant: last write wins.)
LastWriteWins(c) == TRUE
CursorMatches(c) == cursor[c] = storedCursor

\* Nobody waits for the answer of a save whose client crashed.
Answer(c, answer) == IF phase[c] = "up" THEN answer ELSE "none"

\* storage.save: the test and the write are atomic, and it answers whether it
\* stored the snapshot.
StoreSave(c) ==
    /\ wireState[c] = "sent"
    /\ \/ /\ CursorMatches(c)
          /\ storedCursor' = cursor[c] + 1
          /\ storedTable' = wireTable[c]
          /\ wireState' = [wireState EXCEPT ![c] = Answer(c, "stored")]
       \/ /\ ~CursorMatches(c)
          /\ UNCHANGED store
          /\ wireState' = [wireState EXCEPT ![c] = Answer(c, "failed")]
    /\ UNCHANGED <<cursor, table, queue, wireTable, coordinator, phase, world>>

\* save() throws: the request was lost, or the answer of a save that was stored.
LoseSave(c) ==
    /\ phase[c] = "up"
    /\ wireState[c] \in {"sent", "stored"}
    /\ losses < MaxLosses
    /\ losses' = losses + 1
    /\ wireState' = [wireState EXCEPT ![c] = "failed"]
    /\ UNCHANGED <<store, cursor, table, queue, wireTable, coordinator, phase>>
    /\ UNCHANGED <<asked, issued, lapsed>>

\* The head link resolved: the cursor advances, and its waiter runs before the
\* next link starts.
Saved(c, for) ==
    /\ phase[c] = "up"
    /\ wireState[c] = "stored"
    /\ queue[c] # <<>>
    /\ Head(queue[c]).for = for
    /\ cursor' = [cursor EXCEPT ![c] = @ + 1]
    /\ queue' = [queue EXCEPT ![c] = Tail(@)]
    /\ wireState' = [wireState EXCEPT ![c] = "none"]
    /\ wireTable' = [wireTable EXCEPT ![c] = Empty]
    /\ UNCHANGED <<store, table, phase, issued, lapsed, losses>>

\* claim() of a processing status resolved: the record takes it and the
\* upstream controller is called.
ClaimSaved(c) ==
    /\ Saved(c, "claim")
    /\ LET k == Head(queue[c]).call IN
       /\ opPc[c][k] = "claiming"
       /\ records' = [records EXCEPT ![c][k] = opTo[c][k]]
       /\ opPc' = [opPc EXCEPT ![c][k] = "delegating"]
       /\ asked' = [asked EXCEPT ![c][k] = Append(@, opTo[c][k])]
    /\ UNCHANGED <<opTo, propPc>>

\* claim() of a terminal status resolved: the operation is over.
SettleSaved(c) ==
    /\ Saved(c, "claim")
    /\ LET k == Head(queue[c]).call IN
       /\ opPc[c][k] = "settling"
       /\ records' = [records EXCEPT ![c][k] = TerminalOf[opTo[c][k]]]
       /\ opPc' = [opPc EXCEPT ![c][k] = "idle"]
       /\ opTo' = [opTo EXCEPT ![c][k] = "none"]
    /\ UNCHANGED <<propPc, asked>>

ProposeSaved(c) ==
    /\ Saved(c, "propose")
    /\ propPc' = [propPc EXCEPT ![c][Head(queue[c]).call] = "done"]
    /\ UNCHANGED <<records, opPc, opTo, asked>>

TouchSaved(c) ==
    /\ Saved(c, "touch")
    /\ UNCHANGED <<coordinator, asked>>

\* The head link rejected (SessionConflictError or the storage's own error):
\* onChange and claimStatus restore the table they replaced, and the operation
\* fails; the record in the coordinator stays as it is.
SaveFailed(c) ==
    /\ phase[c] = "up"
    /\ wireState[c] = "failed"
    /\ queue[c] # <<>>
    /\ wireState' = [wireState EXCEPT ![c] = "none"]
    /\ wireTable' = [wireTable EXCEPT ![c] = Empty]
    /\ queue' = [queue EXCEPT ![c] = Tail(@)]
    /\ LET head == Head(queue[c]) IN
       \/ /\ head.for = "claim"
          /\ table' = [table EXCEPT ![c] = head.prev]
          /\ opPc' = [opPc EXCEPT ![c][head.call] = "idle"]
          /\ opTo' = [opTo EXCEPT ![c][head.call] = "none"]
          /\ UNCHANGED propPc
       \/ /\ head.for = "propose"
          /\ table' = [table EXCEPT ![c] = head.prev]
          /\ propPc' = [propPc EXCEPT ![c][head.call] = "done"]
          /\ UNCHANGED <<opPc, opTo>>
       \/ head.for = "touch" /\ UNCHANGED <<table, opPc, opTo, propPc>>
    /\ UNCHANGED <<store, cursor, records, phase, world>>

-----------------------------------------------------------------------------
Coordinate(c, k) ==
    \/ Propose(c, k) \/ ProposeThrows(c, k) \/ ProposeAlreadyDecided(c, k)
    \/ \E status \in {"pending", "rejected"} : ProposeReturns(c, k, status)
    \/ Approve(c, k) \/ Reject(c, k)
    \/ UpstreamResolves(c, k) \/ UpstreamThrows(c, k)

Persist(c) ==
    \/ Touch(c) \/ StartSave(c) \/ StoreSave(c) \/ LoseSave(c)
    \/ ClaimSaved(c) \/ SettleSaved(c) \/ ProposeSaved(c) \/ TouchSaved(c)
    \/ SaveFailed(c)

Next ==
    \/ \E c \in Client : Resume(c) \/ Crash(c) \/ Persist(c)
    \/ \E c \in Client, k \in Call : Coordinate(c, k)
    \/ \E k \in Call : Lapse(k)

Spec == Init /\ [][Next]_vars

\* The storage answers, the upstream controller answers and the event loop of a
\* client that stays up runs what is queued; users owe nothing.
Fairness ==
    \A c \in Client :
        /\ WF_vars(StartSave(c))
        /\ WF_vars(StoreSave(c))
        /\ WF_vars(ClaimSaved(c) \/ SettleSaved(c) \/ ProposeSaved(c) \/ TouchSaved(c))
        /\ WF_vars(SaveFailed(c))
        /\ \A k \in Call : WF_vars(UpstreamResolves(c, k) \/ UpstreamThrows(c, k))

FairSpec == Spec /\ Fairness

-----------------------------------------------------------------------------
(* Properties *)

\* Every variable keeps its type.
TypeOK ==
    /\ storedCursor \in Nat
    /\ storedTable \in Table
    /\ phase \in [Client -> {"absent", "up", "down"}]
    /\ cursor \in [Client -> Nat]
    /\ table \in [Client -> Table]
    /\ records \in [Client -> [Call -> Record]]
    /\ opPc \in [Client -> [Call -> {"idle", "claiming", "delegating", "settling"}]]
    /\ opTo \in [Client -> [Call -> Processing \union {"none"}]]
    /\ propPc \in [Client -> [Call -> {"idle", "upstream", "saving", "done"}]]
    /\ queue \in [Client -> Seq(Ticket)]
    /\ wireState \in [Client -> {"none", "sent", "stored", "failed"}]
    /\ wireTable \in [Client -> Table]
    /\ asked \in [Client -> [Call -> Seq(Processing)]]
    /\ issued \in SUBSET Call
    /\ lapsed \in SUBSET Call
    /\ losses \in Nat

\* One client asks its upstream controller about a call at most once, however
\* approve, reject, retries after a failed save and the return of propose()
\* interleave (runOnce, and the record statuses approve and reject test).
AskedOncePerClient == \A c \in Client, k \in Call : Len(asked[c][k]) <= 1

\* A status that claims success ('approved', 'expired') is stored only when some
\* client did ask its upstream controller for exactly that.
TerminalOnlyAfterAsk ==
    \A k \in Call :
        /\ storedTable[k] = "approved" => \E c \in Client : asked[c][k] = <<"approving">>
        /\ storedTable[k] = "expired" => \E c \in Client : asked[c][k] = <<"expiring">>

Asked(k) == \E c \in Client : asked[c][k] # <<>>

\* All the clients of the session together ask about a call at most once: the
\* claim stored by compare-and-set lets one client delegate.
AskedOnce ==
    \A k \in Call : \A c, d \in Client :
        asked[c][k] # <<>> /\ asked[d][k] # <<>> => c = d /\ Len(asked[c][k]) = 1

\* What a later client resumes from never offers a decided call again: a call
\* stored as pending has been put to no upstream controller.
PendingIsUndecided ==
    \A k \in Call : storedTable[k] = "pending" => ~Asked(k)

\* Together the clients implement SharedDecision: one of them decides a call, once,
\* and the stored session speaks of that decision alone from then on, whatever is
\* rolled back, resumed or stored late.
Shared == INSTANCE SharedDecision
DecidedTogether == Shared!Spec

\* A call is delegated only when the stored snapshot says so: the processing
\* status is durable before the upstream controller is called.
DurableBeforeAsk ==
    \A k \in Call : Asked(k) => storedTable[k] \in Processing \union Terminal

\* An approve or reject of a client that stays up comes to an end, whatever the
\* saves queued before it do: one failed save does not stop the queue.
OperationsEnd ==
    \A c \in Client, k \in Call :
        opPc[c][k] # "idle" ~> (opPc[c][k] = "idle" \/ phase[c] = "down")

=============================================================================
