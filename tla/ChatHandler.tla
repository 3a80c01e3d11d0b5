----------------------------- MODULE ChatHandler -----------------------------
(***************************************************************************)
(* Turn submissions to one session, served by createChatHandler            *)
(* (packages/server/src/index.ts) on the turn lease of createChatSession   *)
(* (packages/chat/src/index.ts).                                           *)
(*                                                                         *)
(* Every request resumes a session object of its own, claims the turn by   *)
(* compare-and-set, reserves cost, loads memory, streams, and cleans up:   *)
(* settle, cost, memory, release.  A wait of the request ends at the       *)
(* request's deadline, a wait of the cleanup after cleanupTimeoutMs; what  *)
(* it waited for goes on and may still land.  Timers are never early and   *)
(* fire before the clock moves on.  Authentication, decoding, uploads and  *)
(* the definition are one wait before the session is read; the decision    *)
(* path (client.action.decide) and the outcome of a turn are left out, and *)
(* the definition has no conversation of its own.                          *)
(***************************************************************************)
EXTENDS Integers, Sequences, SequencesExt

CONSTANTS
    Request,         \* HTTP requests that may arrive
    Turn,            \* turn ids a client may submit, and submit again
    Timeout,         \* timeoutMs
    CleanupTimeout,  \* cleanupTimeoutMs
    Window,          \* terminal turns a session keeps (64 in the code)
    Metered,         \* TRUE: the host resolves a cost policy
    LastArrival,     \* bound on the time at which a request may arrive
    CursorLimit,     \* bound on the cursor below which a snapshot is persisted
    MaxFaults,       \* bound on lost saves, lost answers and crashes
    NoTurn           \* not a turn

ASSUME TimeAssumption ==
    /\ Timeout \in Nat \ {0} /\ CleanupTimeout \in Nat \ {0} /\ LastArrival \in Nat
ASSUME HandlerBoundAssumption ==
    /\ Window \in Nat \ {0} /\ CursorLimit \in Nat /\ MaxFaults \in Nat
ASSUME MeteredAssumption == Metered \in BOOLEAN
ASSUME NoTurnAssumption == NoTurn \notin Turn

VARIABLES
    now,             \* the clock
    storedCursor,    \* the stored snapshot: its cursor, 0 when there is no row,
    storedActive,    \*   its activeTurn
    storedTerminal,  \*   and its terminalTurns
    pc,              \* pc[r]: where the handler of request r stands
    turn,            \* turn[r]: the turn it submits
    born,            \* born[r]: when it arrived
    timer,           \* timer[r]: when the current wait of its cleanup gives up
    cursor,          \* cursor[r], active[r], terminal[r]: its session object
    active,
    terminal,
    links,           \* links[r]: the session's chain of persists
    wire,            \* wire[r]: the save at the head of the chain
    wireActive,      \* wireActive[r], wireTerminal[r]: the snapshot of that save
    wireTerminal,
    started,         \* started[r]: modelStarted
    send,            \* send[r]: whether controller.send runs; once the cleanup has given
                     \*   it up, nobody learns of its end any more
    response,        \* response[r]: its stream, "ending" while pull() waits for its cleanup
    hold,            \* hold[r]: its reservation in the cost store
    costWire,        \* costWire[r]: the call to the cost store
    faults           \* lost saves, lost answers and crashes so far

store == <<storedCursor, storedActive, storedTerminal>>
session == <<cursor, active, terminal>>
queue == <<links, wire, wireActive, wireTerminal>>
model == <<started, send, response>>
cost == <<hold, costWire>>
request == <<pc, turn, born, timer>>
vars == <<now, store, session, queue, model, cost, request, faults>>

-----------------------------------------------------------------------------
NoLease == [turn |-> NoTurn, expires |-> 0]
Lease == [turn : Turn, expires : Nat] \union {NoLease}

\* The waits that end at the request's deadline, and those of its cleanup.
Before == {"resuming", "resumed", "claiming", "reserving", "loading", "streaming"}
Cleaning == {"settling", "costing", "saving", "releasing"}
Over == {"done", "dead"}

\* Which wait a link of the chain answers; a link nobody waits for any more was
\* persisted with a signal that is aborted by now.
WaitOf == [claim |-> "claiming", snapshot |-> "streaming", release |-> "releasing"]
Waited(r, link) == pc[r] = WaitOf[link]

LeaseMs == Timeout + 3 * CleanupTimeout

Init ==
    /\ now = 0
    /\ storedCursor = 0 /\ storedActive = NoLease /\ storedTerminal = <<>>
    /\ pc = [r \in Request |-> "idle"]
    /\ turn = [r \in Request |-> NoTurn]
    /\ born = [r \in Request |-> 0]
    /\ timer = [r \in Request |-> 0]
    /\ cursor = [r \in Request |-> 0]
    /\ active = [r \in Request |-> NoLease]
    /\ terminal = [r \in Request |-> <<>>]
    /\ links = [r \in Request |-> <<>>]
    /\ wire = [r \in Request |-> "none"]
    /\ wireActive = [r \in Request |-> NoLease]
    /\ wireTerminal = [r \in Request |-> <<>>]
    /\ started = [r \in Request |-> FALSE]
    /\ send = [r \in Request |-> "none"]
    /\ response = [r \in Request |-> "none"]
    /\ hold = [r \in Request |-> "none"]
    /\ costWire = [r \in Request |-> "none"]
    /\ faults = 0

-----------------------------------------------------------------------------
(* The clock *)

\* The request phase ends at the deadline, a cleanup phase at its timer.
Due(r) ==
    \/ pc[r] \in Before /\ now >= born[r] + Timeout
    \/ pc[r] \in Cleaning /\ now >= timer[r]

Tick ==
    /\ now < LastArrival \/ \E r \in Request : pc[r] \in Before \union Cleaning
    /\ \A r \in Request : ~Due(r)
    /\ now' = now + 1
    /\ UNCHANGED <<store, session, queue, model, cost, request, faults>>

-----------------------------------------------------------------------------
(* Moves of the handler that several steps share *)

Goto(r, place) == pc' = [pc EXCEPT ![r] = place]

\* A phase of the cleanup starts with a deadline of its own.
Phase(r, place) ==
    /\ Goto(r, place)
    /\ timer' = [timer EXCEPT ![r] = now + CleanupTimeout]

\* terminalTurns with the turn of the request at its end, once, in the window.
\* (The wrong variant reads the lease after it has been cleared.)
RecordedFromLease(r) == Append(terminal[r], NoLease.turn)
Recorded(r) ==
    LET others == IF turn[r] \in ToSet(terminal[r]) THEN Remove(terminal[r], turn[r])
                  ELSE terminal[r]
        kept == Append(others, turn[r])
    IN  IF Len(kept) > Window THEN Tail(kept) ELSE kept

\* releaseTurn, waited for with a deadline: the turn becomes a terminal one.
BeginRelease(r) ==
    /\ Phase(r, "releasing")
    /\ active' = [active EXCEPT ![r] = NoLease]
    /\ terminal' = [terminal EXCEPT ![r] = Recorded(r)]
    /\ links' = [links EXCEPT ![r] = Append(@, "release")]
    /\ UNCHANGED <<cursor, wire, wireActive, wireTerminal>>

\* cleanupAfterClaim before the controller exists: settleCost, with no deadline,
\* then releaseClaim.
Undo(r) ==
    \/ /\ Metered
       /\ Goto(r, "undoing")
       /\ costWire' = [costWire EXCEPT ![r] = "release"]
       /\ UNCHANGED <<timer, session, queue, hold>>
    \/ /\ ~Metered
       /\ BeginRelease(r)
       /\ UNCHANGED cost

\* closed: cleanup() runs once, whoever enters it.  (The wrong variant runs it for
\* whoever does.)
NeverClosed(r) == FALSE
Closed(r) == pc[r] # "streaming"

\* cleanup(), from the abort listener, pull(), cancel() or a persist that failed: first
\* the send settles.
EnterCleanup(r) ==
    \/ ~Closed(r) /\ Phase(r, "settling")
    \/ Closed(r) /\ UNCHANGED <<pc, timer>>

-----------------------------------------------------------------------------
(* From the request to the lease *)

\* A request arrives.
Receive(r) ==
    /\ pc[r] = "idle"
    /\ now <= LastArrival
    /\ Goto(r, "resuming")
    /\ \E t \in Turn : turn' = [turn EXCEPT ![r] = t]
    /\ born' = [born EXCEPT ![r] = now]
    /\ UNCHANGED <<now, store, session, queue, model, cost, timer, faults>>

\* resumeChatSession: the storage reads the snapshot.
ReadSession(r) ==
    /\ pc[r] = "resuming"
    /\ Goto(r, "resumed")
    /\ cursor' = [cursor EXCEPT ![r] = storedCursor]
    /\ active' = [active EXCEPT ![r] = storedActive]
    /\ terminal' = [terminal EXCEPT ![r] = storedTerminal]
    /\ UNCHANGED <<now, store, queue, model, cost, turn, born, timer, faults>>

\* claimTurn refuses a terminal turn, and any turn while a lease is live.
\* (The wrong variants drop one of the two tests.)
BusyUnlessLeased(r) == turn[r] \in ToSet(terminal[r])
BusyUnlessTerminal(r) == active[r].expires > now
Busy(r) == turn[r] \in ToSet(terminal[r]) \/ active[r].expires > now

Refuse(r) ==
    /\ pc[r] = "resumed"
    /\ Busy(r)
    /\ Goto(r, "done")
    /\ UNCHANGED <<now, store, session, queue, model, cost, turn, born, timer, faults>>

ClaimTurn(r) ==
    /\ pc[r] = "resumed"
    /\ ~Busy(r)
    /\ Goto(r, "claiming")
    /\ active' = [active EXCEPT ![r] = [turn |-> turn[r], expires |-> now + LeaseMs]]
    /\ links' = [links EXCEPT ![r] = Append(@, "claim")]
    /\ UNCHANGED <<now, store, cursor, terminal, wire, wireActive, wireTerminal>>
    /\ UNCHANGED <<model, cost, turn, born, timer, faults>>

-----------------------------------------------------------------------------
(* The session's chain of persists *)

\* The head link runs: buildSnapshot, then storage.save.
StartSave(r) ==
    /\ wire[r] = "none" /\ links[r] # <<>>
    /\ Waited(r, Head(links[r]))
    /\ wire' = [wire EXCEPT ![r] = "sent"]
    /\ wireActive' = [wireActive EXCEPT ![r] = active[r]]
    /\ wireTerminal' = [wireTerminal EXCEPT ![r] = terminal[r]]
    /\ UNCHANGED <<now, store, session, links, model, cost, request, faults>>

\* The head link runs after its wait is over: save throws on the aborted signal.
SkipSave(r) ==
    /\ wire[r] = "none" /\ links[r] # <<>>
    /\ ~Waited(r, Head(links[r]))
    /\ links' = [links EXCEPT ![r] = Tail(@)]
    /\ UNCHANGED <<now, store, session, wire, wireActive, wireTerminal>>
    /\ UNCHANGED <<model, cost, request, faults>>

\* The cursor a session expects is the stored one.  (The wrong variant: last write
\* wins.)
LastWriteWins(r) == TRUE
CursorMatches(r) == cursor[r] = storedCursor

\* storage.save: the test and the write are atomic.
StoreSave(r) ==
    /\ wire[r] = "sent"
    /\ \/ /\ CursorMatches(r)
          /\ storedCursor' = cursor[r] + 1
          /\ storedActive' = wireActive[r]
          /\ storedTerminal' = wireTerminal[r]
          /\ wire' = [wire EXCEPT ![r] = IF pc[r] = "dead" THEN "none" ELSE "stored"]
       \/ /\ ~CursorMatches(r)
          /\ wire' = [wire EXCEPT ![r] = IF pc[r] = "dead" THEN "none" ELSE "failed"]
          /\ UNCHANGED store
    /\ UNCHANGED <<now, session, links, wireActive, wireTerminal>>
    /\ UNCHANGED <<model, cost, request, faults>>

\* save throws: the request was lost, or the answer to one that was stored.
LoseSave(r) ==
    /\ wire[r] \in {"sent", "stored"} /\ pc[r] # "dead"
    /\ faults < MaxFaults
    /\ faults' = faults + 1
    /\ wire' = [wire EXCEPT ![r] = "failed"]
    /\ UNCHANGED <<now, store, session, links, wireActive, wireTerminal>>
    /\ UNCHANGED <<model, cost, request>>

\* The head link ends; a stored snapshot advances the session's cursor.
Unlink(r, answer) ==
    /\ wire[r] = answer
    /\ wire' = [wire EXCEPT ![r] = "none"]
    /\ links' = [links EXCEPT ![r] = Tail(@)]
    /\ cursor' = [cursor EXCEPT ![r] = IF answer = "stored" THEN @ + 1 ELSE @]
    /\ wireActive' = [wireActive EXCEPT ![r] = NoLease]
    /\ wireTerminal' = [wireTerminal EXCEPT ![r] = <<>>]
    /\ UNCHANGED <<now, store, active, terminal, started, send, hold, turn, born, faults>>

HeadIs(r, link) == links[r] # <<>> /\ Head(links[r]) = link /\ Waited(r, link)

\* The claim is stored: the cost is reserved, or memory is loaded at once.
ClaimSaved(r) ==
    /\ HeadIs(r, "claim")
    /\ Unlink(r, "stored")
    /\ \/ Metered /\ Goto(r, "reserving") /\ costWire' = [costWire EXCEPT ![r] = "reserve"]
       \/ ~Metered /\ Goto(r, "loading") /\ UNCHANGED costWire
    /\ UNCHANGED <<timer, response>>

\* The claim conflicts or fails: the request ends, and releases nothing.
ClaimFailed(r) ==
    /\ HeadIs(r, "claim")
    /\ Unlink(r, "failed")
    /\ Goto(r, "done")
    /\ UNCHANGED <<timer, costWire, response>>

SnapshotSaved(r) ==
    /\ HeadIs(r, "snapshot")
    /\ Unlink(r, "stored")
    /\ UNCHANGED <<pc, timer, costWire, response>>

\* A conflict in the stream: pull() waits for cleanup(true).
SnapshotFailed(r) ==
    /\ HeadIs(r, "snapshot")
    /\ Unlink(r, "failed")
    /\ EnterCleanup(r)
    /\ response' = [response EXCEPT ![r] = "ending"]
    /\ UNCHANGED costWire

\* The cleanup is over, and a response that waits for it ends.  (An aborted one may end
\* later, when entering the cleanup changes nothing any more.)
Ended(r) ==
    /\ Goto(r, "done")
    /\ response' = [response EXCEPT ![r] = "closed"]
    /\ timer' = [timer EXCEPT ![r] = 0]

Released(r) ==
    /\ HeadIs(r, "release")
    /\ \E answer \in {"stored", "failed"} : Unlink(r, answer)
    /\ Ended(r)
    /\ UNCHANGED costWire

\* The answer comes after the wait is over.
LateAnswer(r) ==
    /\ links[r] # <<>> /\ ~Waited(r, Head(links[r]))
    /\ \E answer \in {"stored", "failed"} : Unlink(r, answer)
    /\ UNCHANGED <<pc, timer, costWire, response>>

-----------------------------------------------------------------------------
(* The cost store *)

\* A call reaches the cost store, which admits or denies a reservation.
CostLands(r) ==
    /\ \/ /\ costWire[r] = "reserve"
          /\ \/ /\ hold' = [hold EXCEPT ![r] = "held"]
                /\ costWire' = [costWire EXCEPT ![r] = "granted"]
             \/ /\ costWire' = [costWire EXCEPT ![r] = "refused"]
                /\ UNCHANGED hold
       \/ /\ costWire[r] = "release"
          /\ hold' = [hold EXCEPT ![r] = IF @ = "held" THEN "released" ELSE @]
          /\ costWire' = [costWire EXCEPT ![r] = "settled"]
       \/ /\ costWire[r] = "commit"
          /\ hold' = [hold EXCEPT ![r] = IF @ = "held" THEN "committed" ELSE @]
          /\ costWire' = [costWire EXCEPT ![r] = "settled"]
    /\ UNCHANGED <<now, store, session, queue, model, request, faults>>

\* The answer to reserve: go on, or answer 402 and release the lease.
ReserveAnswered(r) ==
    /\ pc[r] = "reserving"
    /\ \/ costWire[r] = "granted" /\ Goto(r, "loading") /\ UNCHANGED <<timer, session, queue>>
       \/ costWire[r] = "refused" /\ BeginRelease(r)
    /\ costWire' = [costWire EXCEPT ![r] = "none"]
    /\ UNCHANGED <<now, store, model, hold, turn, born, faults>>

\* settleCost of cleanupAfterClaim resolved.
UndoAnswered(r) ==
    /\ pc[r] = "undoing"
    /\ costWire[r] = "settled"
    /\ costWire' = [costWire EXCEPT ![r] = "none"]
    /\ BeginRelease(r)
    /\ UNCHANGED <<now, store, model, hold, turn, born, faults>>

\* Nobody waits for the answer any more.
LateCost(r) ==
    /\ pc[r] \notin {"reserving", "undoing", "costing"}
    /\ costWire[r] \in {"granted", "refused", "settled"}
    /\ costWire' = [costWire EXCEPT ![r] = "none"]
    /\ UNCHANGED <<now, store, session, queue, model, hold, request, faults>>

-----------------------------------------------------------------------------
(* The stream *)

\* memory.load resolved: the controller is created and sends the input, and the
\* response is a stream.
MemoryLoaded(r) ==
    /\ pc[r] = "loading"
    /\ Goto(r, "streaming")
    /\ send' = [send EXCEPT ![r] = "running"]
    /\ response' = [response EXCEPT ![r] = "open"]
    /\ UNCHANGED <<now, store, session, queue, started, cost, turn, born, timer, faults>>

MemoryFails(r) ==
    /\ pc[r] = "loading"
    /\ Undo(r)
    /\ UNCHANGED <<now, store, model, turn, born, faults>>

\* The controller calls the adapter: from here on the turn is billable.  It may do so as
\* long as its send runs, also when it is stopped or given up.
Dispatch(r) ==
    /\ send[r] = "running" /\ pc[r] # "dead"
    /\ ~started[r]
    /\ started' = [started EXCEPT ![r] = TRUE]
    /\ UNCHANGED <<now, store, session, queue, cost, request, send, response, faults>>

\* send settles: the model is done, a route answered, it failed, or it stopped.
SendEnds(r) ==
    /\ pc[r] \in {"streaming", "settling"}
    /\ send[r] = "running"
    /\ send' = [send EXCEPT ![r] = "over"]
    /\ UNCHANGED <<now, store, session, queue, cost, request, started, response, faults>>

\* pull() persists before it emits a snapshot event.
PersistSnapshot(r) ==
    /\ pc[r] = "streaming"
    /\ links[r] = <<>>
    /\ cursor[r] < CursorLimit
    /\ links' = [links EXCEPT ![r] = Append(@, "snapshot")]
    /\ UNCHANGED <<now, store, session, wire, wireActive, wireTerminal>>
    /\ UNCHANGED <<model, cost, request, faults>>

\* pull() has emitted the last snapshot, and waits for cleanup(false).
Finish(r) ==
    /\ pc[r] = "streaming"
    /\ send[r] = "over"
    /\ links[r] = <<>>
    /\ EnterCleanup(r)
    /\ response' = [response EXCEPT ![r] = "ending"]
    /\ UNCHANGED <<now, store, session, queue, started, send, cost, turn, born, faults>>

\* cancel() of the stream: the client goes away, whatever pull() waits for.
Cancel(r) ==
    /\ response[r] \in {"open", "ending"}
    /\ EnterCleanup(r)
    /\ response' = [response EXCEPT ![r] = "closed"]
    /\ UNCHANGED <<now, store, session, queue, started, send, cost, turn, born, faults>>

\* pull() finds the signal aborted, or its persist rejected by it: the listener has
\* begun the cleanup, and pull() closes the stream without waiting for it.
PullAborted(r) ==
    /\ response[r] = "open" /\ pc[r] # "streaming"
    /\ EnterCleanup(r)
    /\ response' = [response EXCEPT ![r] = "closed"]
    /\ UNCHANGED <<now, store, session, queue, started, send, cost, turn, born, faults>>

-----------------------------------------------------------------------------
(* The end of a request *)

\* The waits the request's signal cuts short: each one before the cleanup.  (The
\* wrong variant leaves it out of the call to memory.load.)
AbortableButMemory == Before \ {"loading"}
Abortable == Before

\* The deadline or the client aborts the request, or a callback of it throws.
Abort(r) ==
    /\ pc[r] \in Abortable
    /\ \/ /\ pc[r] \in {"resuming", "resumed", "claiming"}
          /\ Goto(r, "done")
          /\ UNCHANGED <<timer, session, queue, cost>>
       \/ pc[r] = "reserving" /\ BeginRelease(r) /\ UNCHANGED cost
       \/ pc[r] = "loading" /\ Undo(r)
       \/ pc[r] = "streaming" /\ EnterCleanup(r) /\ UNCHANGED <<session, queue, cost>>
    /\ UNCHANGED <<now, store, model, turn, born, faults>>

\* cleanup() past its first phase: commit a turn that reached the model, release
\* the reservation of one that did not; or save memory at once.  (The wrong variant
\* commits whether or not the model was called.)
SettlementAlwaysCommit(r) == "commit"
Settlement(r) == IF started[r] THEN "commit" ELSE "release"

Settled(r) ==
    /\ pc[r] = "settling"
    /\ send[r] = "over" \/ Due(r)
    /\ \/ /\ Metered
          /\ Phase(r, "costing")
          /\ costWire' = [costWire EXCEPT ![r] = Settlement(r)]
       \/ /\ ~Metered
          /\ Phase(r, "saving")
          /\ UNCHANGED costWire
    /\ UNCHANGED <<now, store, session, queue, model, hold, turn, born, faults>>

CostSettled(r) ==
    /\ pc[r] = "costing"
    /\ \/ costWire[r] = "settled" /\ costWire' = [costWire EXCEPT ![r] = "none"]
       \/ Due(r) /\ UNCHANGED costWire
    /\ Phase(r, "saving")
    /\ UNCHANGED <<now, store, session, queue, model, hold, turn, born, faults>>

\* memory.save resolved, failed or timed out: the lease is released either way.
MemorySaved(r) ==
    /\ pc[r] = "saving"
    /\ BeginRelease(r)
    /\ UNCHANGED <<now, store, model, cost, turn, born, faults>>

ReleaseTimesOut(r) ==
    /\ pc[r] = "releasing"
    /\ Due(r)
    /\ Ended(r)
    /\ UNCHANGED <<now, store, session, queue, started, send, cost, turn, born, faults>>

\* The server process dies; calls it has sent may still land.
Crash(r) ==
    /\ pc[r] \notin {"idle"} \union Over
    /\ faults < MaxFaults
    /\ faults' = faults + 1
    /\ Goto(r, "dead")
    /\ links' = [links EXCEPT ![r] = <<>>]
    /\ wire' = [wire EXCEPT ![r] = IF @ = "sent" THEN "sent" ELSE "none"]
    /\ response' = [response EXCEPT ![r] = "closed"]
    /\ UNCHANGED <<now, store, session, wireActive, wireTerminal>>
    /\ UNCHANGED <<started, send, cost, turn, born, timer>>

-----------------------------------------------------------------------------
Admit(r) == Receive(r) \/ ReadSession(r) \/ Refuse(r) \/ ClaimTurn(r)

Persist(r) ==
    \/ StartSave(r) \/ SkipSave(r) \/ StoreSave(r) \/ LoseSave(r)
    \/ ClaimSaved(r) \/ ClaimFailed(r) \/ SnapshotSaved(r) \/ SnapshotFailed(r)
    \/ Released(r) \/ LateAnswer(r)

Meter(r) == CostLands(r) \/ ReserveAnswered(r) \/ UndoAnswered(r) \/ LateCost(r)

Stream(r) ==
    \/ MemoryLoaded(r) \/ MemoryFails(r) \/ Dispatch(r) \/ SendEnds(r)
    \/ PersistSnapshot(r) \/ Finish(r) \/ Cancel(r) \/ PullAborted(r)

End(r) ==
    \/ Abort(r) \/ Settled(r) \/ CostSettled(r) \/ MemorySaved(r)
    \/ ReleaseTimesOut(r) \/ Crash(r)

Next ==
    \/ Tick
    \/ \E r \in Request : Admit(r) \/ Persist(r) \/ Meter(r) \/ Stream(r) \/ End(r)

Spec == Init /\ [][Next]_vars

\* The clock advances, a timer that is due fires and an answer is taken: all that
\* the handler has when the storage, memory, the model or the cost store is mute.
TimerFairness ==
    /\ WF_vars(Tick)
    /\ \A r \in Request :
          WF_vars(Due(r) /\ (Abort(r) \/ Settled(r) \/ CostSettled(r) \/ MemorySaved(r)
                               \/ ReleaseTimesOut(r)))
          /\ WF_vars(UndoAnswered(r))

\* The cost store answers.
CostFairness == \A r \in Request : WF_vars(CostLands(r))

TimedSpec == Spec /\ TimerFairness
FairSpec == TimedSpec /\ CostFairness

-----------------------------------------------------------------------------
(* Properties *)

\* Every variable keeps its type.
TypeOK ==
    /\ now \in Nat /\ faults \in Nat
    /\ storedCursor \in Nat /\ storedActive \in Lease /\ storedTerminal \in Seq(Turn)
    /\ Len(storedTerminal) <= Window
    /\ pc \in [Request -> Before \union Cleaning \union Over \union {"idle", "undoing"}]
    /\ turn \in [Request -> Turn \union {NoTurn}]
    /\ born \in [Request -> Nat] /\ timer \in [Request -> Nat]
    /\ cursor \in [Request -> Nat]
    /\ active \in [Request -> Lease] /\ terminal \in [Request -> Seq(Turn)]
    /\ links \in [Request -> Seq(DOMAIN WaitOf)]
    /\ wire \in [Request -> {"none", "sent", "stored", "failed"}]
    /\ wireActive \in [Request -> Lease] /\ wireTerminal \in [Request -> Seq(Turn)]
    /\ started \in [Request -> BOOLEAN]
    /\ send \in [Request -> {"none", "running", "over"}]
    /\ response \in [Request -> {"none", "open", "ending", "closed"}]
    /\ hold \in [Request -> {"none", "held", "released", "committed"}]
    /\ costWire \in [Request -> {"none", "reserve", "granted", "refused",
                                 "release", "commit", "settled"}]

\* A turn the session has recorded as terminal never reaches the model again, unless
\* by a controller that was stopped and given up.
TerminalNotReplayed ==
    [][\A r \in Request :
          started'[r] /\ ~started[r] /\ pc[r] \in {"streaming", "settling"} =>
             turn[r] \notin ToSet(storedTerminal)]_vars

\* No save rolls the terminal turns back: only the oldest goes, when the window is full.
TerminalKept ==
    [][\A t \in ToSet(storedTerminal) :
          \/ t \in ToSet(storedTerminal')
          \/ Len(storedTerminal) = Window /\ t = Head(storedTerminal)]_vars

\* While a lease is live only a request of its turn replaces or removes it: a late
\* save of another request does not.
LeaseTakenByItsTurn ==
    [][storedActive.expires > now /\ storedActive' # storedActive =>
          \E r \in Request :
             turn[r] = storedActive.turn /\ wire[r] = "sent" /\ wire'[r] # "sent"]_vars

\* Once its calls have landed, a metered request that is over has paid for a turn
\* only if it reached the model, and has paid then, unless the cleanup gave up waiting
\* for the controller.
ChargedIffDispatched ==
    \A r \in Request :
        Metered /\ pc[r] = "done" /\ costWire[r] = "none" =>
            /\ hold[r] = "committed" => started[r]
            /\ started[r] => hold[r] = "committed" \/ send[r] = "running"

\* A reservation is settled by one call, however often the cleanup is entered: each is
\* sent for one that is held and not being settled.
SettledOnce ==
    [][\A r \in Request :
          costWire'[r] # costWire[r] /\ costWire'[r] \in {"release", "commit"} =>
             hold[r] = "held" /\ costWire[r] = "none"]_vars

\* A request that is over holds no reservation, once its calls have landed.
EndedHoldsNothing ==
    \A r \in Request : pc[r] = "done" /\ costWire[r] = "none" => hold[r] # "held"

\* Two requests never have the transcript in hand, from memory.load to the end of
\* memory.save: none overwrites what another one saved.
TranscriptExclusive ==
    \A r, s \in Request :
        /\ pc[r] \in {"loading", "streaming", "settling", "costing", "saving"}
        /\ pc[s] \in {"loading", "streaming", "settling", "costing", "saving"}
        => r = s

\* Every request comes to an end: each of its waits has a deadline.
RequestEnds == \A r \in Request : pc[r] \in Before ~> pc[r] \in Over

=============================================================================
