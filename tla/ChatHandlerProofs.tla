-------------------------- MODULE ChatHandlerProofs --------------------------
(***************************************************************************)
(* Proofs about ChatHandler, for every set of requests and turns and every *)
(* timeout: the type invariant, what happens to the terminal turns of a    *)
(* session, that the lease admits one request at a time, and that a turn   *)
(* is charged exactly when the model was called.                           *)
(***************************************************************************)
EXTENDS ChatHandler, SequenceTheorems, TLAPS

-----------------------------------------------------------------------------
(* Sequences and the window of terminal turns *)

LEMMA AppendFacts ==
    ASSUME NEW S, NEW s \in Seq(S), NEW x \in S
    PROVE  /\ Append(s, x) \in Seq(S)
           /\ Len(Append(s, x)) = Len(s) + 1
           /\ ToSet(Append(s, x)) = ToSet(s) \union {x}
           /\ Append(s, x) # <<>>
           /\ s # <<>> => Head(Append(s, x)) = Head(s)
           /\ s = <<>> => Head(Append(s, x)) = x
  BY DEF ToSet

LEMMA TailFacts ==
    ASSUME NEW S, NEW s \in Seq(S), s # <<>>
    PROVE  /\ Tail(s) \in Seq(S)
           /\ Head(s) \in S
           /\ Len(Tail(s)) = Len(s) - 1
           /\ \A x \in ToSet(s) : x = Head(s) \/ x \in ToSet(Tail(s))
<1> DEFINE t == Tail(s)
<1>1. /\ t \in Seq(S) /\ Head(s) \in S /\ Len(t) = Len(s) - 1
      /\ \A i \in 1 .. Len(t) : t[i] = s[i + 1]
      /\ Len(s) \in Nat \ {0} /\ Head(s) = s[1]
  OBVIOUS
<1> HIDE DEF t
<1>2. DOMAIN s = 1 .. Len(s) /\ DOMAIN t = 1 .. Len(t)
  BY <1>1
<1>3. ASSUME NEW i \in 1 .. Len(s), i # 1 PROVE s[i] \in ToSet(t)
  <2>1. i - 1 \in DOMAIN t /\ t[i - 1] = s[i]
    BY <1>1, <1>2, <1>3
  <2> QED
    BY <2>1 DEF ToSet
<1>4. \A x \in ToSet(s) : x = Head(s) \/ x \in ToSet(t)
  BY <1>1, <1>2, <1>3 DEF ToSet
<1> QED
  BY <1>1, <1>4 DEF t

\* A save keeps the terminal turns, except that a full window lets its oldest go.
Keeps(old, new) ==
    \A t \in ToSet(old) : t \in ToSet(new) \/ (Len(old) = Window /\ t = Head(old))

LEMMA RecordedFacts ==
    ASSUME NEW r, terminal[r] \in Seq(Turn), Len(terminal[r]) <= Window,
           turn[r] \in Turn, turn[r] \notin ToSet(terminal[r])
    PROVE  /\ Recorded(r) \in Seq(Turn)
           /\ Len(Recorded(r)) <= Window
           /\ Keeps(terminal[r], Recorded(r))
<1> DEFINE kept == Append(terminal[r], turn[r])
<1>1. Recorded(r) = IF Len(kept) > Window THEN Tail(kept) ELSE kept
  BY DEF Recorded
<1>2. /\ kept \in Seq(Turn) /\ kept # <<>> /\ Len(kept) = Len(terminal[r]) + 1
      /\ ToSet(kept) = ToSet(terminal[r]) \union {turn[r]}
      /\ terminal[r] # <<>> => Head(kept) = Head(terminal[r])
  BY AppendFacts
<1>3. /\ Tail(kept) \in Seq(Turn) /\ Len(Tail(kept)) = Len(kept) - 1
      /\ \A t \in ToSet(kept) : t = Head(kept) \/ t \in ToSet(Tail(kept))
  BY <1>2, TailFacts
<1>4. Len(terminal[r]) \in Nat /\ Window \in Nat \ {0}
  BY HandlerBoundAssumption
<1> HIDE DEF kept
<1>5. Len(kept) > Window => Len(terminal[r]) = Window /\ Head(kept) = Head(terminal[r])
  BY <1>2, <1>4
<1>6. Recorded(r) \in Seq(Turn) /\ Len(Recorded(r)) <= Window
  BY <1>1, <1>2, <1>3, <1>4
<1> QED
  BY <1>1, <1>2, <1>3, <1>5, <1>6 DEF Keeps

-----------------------------------------------------------------------------
(* Types, and what a request knows by itself *)

LEMMA LinkNames == DOMAIN WaitOf = {"claim", "snapshot", "release"}
  BY DEF WaitOf

\* The phases between the claim and the release of the turn.
Claimed == {"claiming", "reserving", "loading", "streaming", "undoing",
            "settling", "costing", "saving"}

\* A request past the claim submits a turn its session does not know as terminal.
LocalInv ==
    \A r \in Request :
        /\ pc[r] # "idle" => turn[r] \in Turn
        /\ Len(terminal[r]) <= Window /\ Len(wireTerminal[r]) <= Window
        /\ pc[r] \in Claimed => turn[r] \notin ToSet(terminal[r])

TypeInv == TypeOK /\ LocalInv

\* TypeInv in two parts: the chain of persists with the cursor, and the rest.
QueueTyped ==
    /\ cursor \in [Request -> Nat]
    /\ links \in [Request -> Seq(DOMAIN WaitOf)]
    /\ wire \in [Request -> {"none", "sent", "stored", "failed"}]
    /\ wireActive \in [Request -> Lease] /\ wireTerminal \in [Request -> Seq(Turn)]
    /\ \A r \in Request : Len(wireTerminal[r]) <= Window

StoreTyped ==
    /\ storedCursor \in Nat /\ storedActive \in Lease /\ storedTerminal \in Seq(Turn)
    /\ Len(storedTerminal) <= Window

HandlerTyped ==
    /\ now \in Nat /\ faults \in Nat
    /\ pc \in [Request -> Before \union Cleaning \union Over \union {"idle", "undoing"}]
    /\ turn \in [Request -> Turn \union {NoTurn}]
    /\ born \in [Request -> Nat] /\ timer \in [Request -> Nat]
    /\ active \in [Request -> Lease] /\ terminal \in [Request -> Seq(Turn)]
    /\ started \in [Request -> BOOLEAN]
    /\ send \in [Request -> {"none", "running", "over"}]
    /\ response \in [Request -> {"none", "open", "ending", "closed"}]
    /\ hold \in [Request -> {"none", "held", "released", "committed"}]
    /\ costWire \in [Request -> {"none", "reserve", "granted", "refused",
                                 "release", "commit", "settled"}]
    /\ \A r \in Request :
        /\ pc[r] # "idle" => turn[r] \in Turn
        /\ Len(terminal[r]) <= Window
        /\ pc[r] \in Claimed => turn[r] \notin ToSet(terminal[r])

LEMMA TypeParts == TypeInv <=> QueueTyped /\ StoreTyped /\ HandlerTyped
  BY DEF TypeInv, TypeOK, LocalInv, QueueTyped, StoreTyped, HandlerTyped

LEMMA TypePartsNext == TypeInv' <=> QueueTyped' /\ StoreTyped' /\ HandlerTyped'
  BY DEF TypeInv, TypeOK, LocalInv, QueueTyped, StoreTyped, HandlerTyped

LEMMA InitTypes == Init => TypeInv
<1> SUFFICES ASSUME Init PROVE TypeInv
  OBVIOUS
<1>1. <<>> \in Seq(Turn) /\ <<>> \in Seq(DOMAIN WaitOf) /\ Len(<<>>) = 0 /\ Window \in Nat
  BY HandlerBoundAssumption
<1> QED
  BY <1>1 DEF Init, TypeInv, TypeOK, LocalInv, Lease, Claimed

LEMMA UnlinkTypes ==
    ASSUME TypeInv, NEW r \in Request, NEW answer, links[r] # <<>>, Unlink(r, answer)
    PROVE  QueueTyped'
<1>1. Tail(links[r]) \in Seq(DOMAIN WaitOf)
  BY TailFacts, TypeParts DEF QueueTyped
<1>2. <<>> \in Seq(Turn) /\ Len(<<>>) = 0 /\ Window \in Nat
  BY HandlerBoundAssumption
<1> QED
  BY <1>1, <1>2, TypeParts DEF QueueTyped, Unlink, Lease

\* A phase with a deadline.
LEMMA PhaseTypes ==
    ASSUME TypeInv, NEW r \in Request, NEW place \in Cleaning, Phase(r, place)
    PROVE  /\ pc' = [pc EXCEPT ![r] = place]
           /\ timer' = [timer EXCEPT ![r] = now + CleanupTimeout]
           /\ timer' \in [Request -> Nat]
  BY TimeAssumption, TypeParts DEF Phase, Goto, HandlerTyped

\* releaseTurn from a claimed phase.
LEMMA ReleaseTypes ==
    ASSUME TypeInv, NEW r \in Request, pc[r] \in Claimed, BeginRelease(r),
           UNCHANGED <<now, store, model, turn, born, faults, hold>>,
           costWire' \in [Request -> {"none", "reserve", "granted", "refused",
                                      "release", "commit", "settled"}]
    PROVE  TypeInv'
<1>1. terminal[r] \in Seq(Turn) /\ Len(terminal[r]) <= Window /\ turn[r] \in Turn
      /\ turn[r] \notin ToSet(terminal[r])
  BY TypeParts DEF HandlerTyped, Claimed
<1>2. Recorded(r) \in Seq(Turn) /\ Len(Recorded(r)) <= Window
  BY <1>1, RecordedFacts
<1>3. QueueTyped'
  <2>1. "release" \in DOMAIN WaitOf
    BY LinkNames
  <2>2. Append(links[r], "release") \in Seq(DOMAIN WaitOf)
    BY <2>1, TypeParts DEF QueueTyped
  <2> QED
    BY <2>2, TypeParts DEF BeginRelease, QueueTyped
<1>4. StoreTyped'
  BY TypeParts DEF StoreTyped, store
<1>5. /\ pc' = [pc EXCEPT ![r] = "releasing"]
      /\ timer' \in [Request -> Nat]
  BY PhaseTypes DEF BeginRelease, Cleaning
<1>6. HandlerTyped'
  BY <1>2, <1>5, TypeParts DEF BeginRelease, HandlerTyped, Cleaning, Lease, Claimed, model
<1> QED
  BY <1>3, <1>4, <1>6, TypePartsNext

LEMMA UndoTypes ==
    ASSUME TypeInv, NEW r \in Request, pc[r] \in Claimed, Undo(r),
           UNCHANGED <<now, store, model, turn, born, faults>>
    PROVE  TypeInv'
<1>1. CASE /\ Goto(r, "undoing")
           /\ costWire' = [costWire EXCEPT ![r] = "release"]
           /\ UNCHANGED <<timer, session, queue, hold>>
  <2>1. QueueTyped' /\ StoreTyped'
    BY <1>1, TypeParts DEF QueueTyped, StoreTyped, session, queue, store
  <2>2. HandlerTyped'
    BY <1>1, TypeParts DEF HandlerTyped, Goto, session, model, Claimed
  <2> QED
    BY <2>1, <2>2, TypePartsNext
<1>2. CASE BeginRelease(r) /\ UNCHANGED cost
  BY <1>2, ReleaseTypes, TypeParts DEF cost, HandlerTyped
<1> QED
  BY <1>1, <1>2 DEF Undo

\* The steps that enter the cleanup, and change nothing else but the response.
Enters(r) == Finish(r) \/ Cancel(r) \/ PullAborted(r)

LEMMA EnterEffect ==
    ASSUME NEW r \in Request, Enters(r)
    PROVE  /\ EnterCleanup(r)
           /\ UNCHANGED <<now, store, session, queue, started, send, cost, turn, born, faults>>
           /\ \E end \in {"ending", "closed"} : response' = [response EXCEPT ![r] = end]
  BY DEF Enters, Finish, Cancel, PullAborted

\* The first to enter the cleanup starts it; for the others nothing happens.
LEMMA CleanupEffect ==
    ASSUME TypeInv, NEW r \in Request, EnterCleanup(r)
    PROVE  \/ /\ pc[r] = "streaming"
              /\ pc' = [pc EXCEPT ![r] = "settling"]
              /\ timer' = [timer EXCEPT ![r] = now + CleanupTimeout]
              /\ timer' \in [Request -> Nat]
           \/ pc[r] # "streaming" /\ UNCHANGED <<pc, timer>>
  BY PhaseTypes DEF EnterCleanup, Closed, Cleaning, Phase

LEMMA SnapshotEffect ==
    ASSUME TypeInv, NEW r \in Request, SnapshotFailed(r)
    PROVE  /\ pc[r] = "streaming"
           /\ pc' = [pc EXCEPT ![r] = "settling"]
           /\ timer' = [timer EXCEPT ![r] = now + CleanupTimeout]
  BY CleanupEffect DEF SnapshotFailed, HeadIs, Waited, WaitOf

LEMMA EnterTypes ==
    ASSUME TypeInv, NEW r \in Request, EnterCleanup(r),
           UNCHANGED <<now, store, session, queue, started, send, cost, turn, born, faults>>,
           response' \in [Request -> {"none", "open", "ending", "closed"}]
    PROVE  TypeInv'
<1>1. QueueTyped' /\ StoreTyped'
  BY TypeParts DEF QueueTyped, StoreTyped, session, queue, store
<1>2. HandlerTyped'
  <2>1. CASE UNCHANGED <<pc, timer>>
    BY <2>1, TypeParts DEF HandlerTyped, session, cost
  <2>2. CASE /\ pc[r] = "streaming" /\ pc' = [pc EXCEPT ![r] = "settling"]
             /\ timer' \in [Request -> Nat]
    BY <2>2, TypeParts DEF HandlerTyped, session, cost, Cleaning, Claimed
  <2> QED
    BY <2>1, <2>2, CleanupEffect
<1> QED
  BY <1>1, <1>2, TypePartsNext

LEMMA TypeStep == TypeInv /\ [Next]_vars => TypeInv'
<1> SUFFICES ASSUME TypeInv, [Next]_vars PROVE TypeInv'
  OBVIOUS
<1>0. CASE UNCHANGED vars
  BY <1>0, LinkNames DEF vars, store, session, queue, model, cost, request, TypeInv, TypeOK,
     LocalInv
<1>1. ASSUME Tick PROVE TypeInv'
  BY <1>1, LinkNames DEF Tick, store, session, queue, model, cost, request, TypeInv, TypeOK,
     LocalInv
<1>2. ASSUME NEW r \in Request, Receive(r) PROVE TypeInv'
  BY <1>2, LinkNames DEF Receive, Goto, store, session, queue, model, cost, TypeInv, TypeOK,
     LocalInv, Before, Claimed
<1>3. ASSUME NEW r \in Request, ReadSession(r) PROVE TypeInv'
  BY <1>3, LinkNames DEF ReadSession, Goto, store, queue, model, cost, TypeInv, TypeOK,
     LocalInv, Before, Claimed
<1>4. ASSUME NEW r \in Request, Refuse(r) PROVE TypeInv'
  BY <1>4, LinkNames DEF Refuse, Goto, store, session, queue, model, cost, TypeInv, TypeOK,
     LocalInv, Over, Claimed
<1>5. ASSUME NEW r \in Request, ClaimTurn(r) PROVE TypeInv'
  <2>1. [turn |-> turn[r], expires |-> now + LeaseMs] \in Lease
    BY <1>5, TimeAssumption, TypeParts DEF ClaimTurn, HandlerTyped, Lease, LeaseMs
  <2>2. Append(links[r], "claim") \in Seq(DOMAIN WaitOf)
    BY LinkNames, TypeParts DEF QueueTyped
  <2>3. QueueTyped' /\ StoreTyped'
    BY <1>5, <2>2, TypeParts DEF ClaimTurn, QueueTyped, StoreTyped, store
  <2>4. turn[r] \notin ToSet(terminal[r])
    BY <1>5 DEF ClaimTurn, Busy
  <2>5. HandlerTyped'
    BY <1>5, <2>1, <2>4, TypeParts DEF ClaimTurn, Goto, HandlerTyped, model, cost, Before
  <2> QED
    BY <2>3, <2>5, TypePartsNext
<1>6. ASSUME NEW r \in Request, StartSave(r) PROVE TypeInv'
  BY <1>6, LinkNames DEF StartSave, store, session, model, cost, request, TypeInv, TypeOK,
     LocalInv
<1>7. ASSUME NEW r \in Request, SkipSave(r) PROVE TypeInv'
  <2>1. Tail(links[r]) \in Seq(DOMAIN WaitOf)
    BY <1>7, TailFacts, TypeParts DEF SkipSave, QueueTyped
  <2>2. QueueTyped'
    BY <1>7, <2>1, TypeParts DEF SkipSave, QueueTyped, session
  <2>3. StoreTyped' /\ HandlerTyped'
    BY <1>7, TypeParts DEF SkipSave, StoreTyped, HandlerTyped, store, session, model, cost,
       request
  <2> QED
    BY <2>2, <2>3, TypePartsNext
<1>8. ASSUME NEW r \in Request, StoreSave(r) PROVE TypeInv'
  <2>1. StoreTyped'
    BY <1>8, TypeParts DEF StoreSave, StoreTyped, QueueTyped, store
  <2>2. QueueTyped' /\ HandlerTyped'
    BY <1>8, TypeParts DEF StoreSave, QueueTyped, HandlerTyped, session, model, cost, request
  <2> QED
    BY <2>1, <2>2, TypePartsNext
<1>9. ASSUME NEW r \in Request, LoseSave(r) PROVE TypeInv'
  BY <1>9, LinkNames DEF LoseSave, store, session, model, cost, request, TypeInv, TypeOK,
     LocalInv
<1>10. ASSUME NEW r \in Request, ClaimSaved(r) PROVE TypeInv'
  <2>1. links[r] # <<>> /\ \E answer \in {"stored", "failed"} : Unlink(r, answer)
    BY <1>10 DEF ClaimSaved, HeadIs
  <2>2. QueueTyped' /\ StoreTyped'
    BY <2>1, UnlinkTypes, TypeParts DEF Unlink, StoreTyped, store
  <2>3. HandlerTyped'
    BY <1>10, TypeParts DEF ClaimSaved, HeadIs, Unlink, Goto, store, model, HandlerTyped,
       Before, Cleaning, Over, Claimed, WaitOf, Waited
  <2> QED
    BY <2>2, <2>3, TypePartsNext
<1>11. ASSUME NEW r \in Request, ClaimFailed(r) PROVE TypeInv'
  <2>1. links[r] # <<>> /\ \E answer \in {"stored", "failed"} : Unlink(r, answer)
    BY <1>11 DEF ClaimFailed, HeadIs
  <2>2. QueueTyped' /\ StoreTyped'
    BY <2>1, UnlinkTypes, TypeParts DEF Unlink, StoreTyped, store
  <2>3. HandlerTyped'
    BY <1>11, TypeParts DEF ClaimFailed, HeadIs, Unlink, Goto, store, model, HandlerTyped, Over,
       Claimed, WaitOf, Waited
  <2> QED
    BY <2>2, <2>3, TypePartsNext
<1>12. ASSUME NEW r \in Request, SnapshotSaved(r) PROVE TypeInv'
  <2>1. links[r] # <<>> /\ \E answer \in {"stored", "failed"} : Unlink(r, answer)
    BY <1>12 DEF SnapshotSaved, HeadIs
  <2>2. QueueTyped' /\ StoreTyped'
    BY <2>1, UnlinkTypes, TypeParts DEF Unlink, StoreTyped, store
  <2>3. HandlerTyped'
    BY <1>12, TypeParts DEF SnapshotSaved, Unlink, model, HandlerTyped
  <2> QED
    BY <2>2, <2>3, TypePartsNext
<1>13. ASSUME NEW r \in Request, SnapshotFailed(r) PROVE TypeInv'
  <2>1. links[r] # <<>> /\ \E answer \in {"stored", "failed"} : Unlink(r, answer)
    BY <1>13 DEF SnapshotFailed, EnterCleanup, Closed, HeadIs
  <2>4. pc' = [pc EXCEPT ![r] = "settling"] /\ timer' \in [Request -> Nat]
    BY <1>13, CleanupEffect DEF SnapshotFailed, EnterCleanup, Closed, HeadIs, Waited, WaitOf
  <2>2. QueueTyped' /\ StoreTyped'
    BY <2>1, UnlinkTypes, TypeParts DEF Unlink, StoreTyped, store
  <2>3. HandlerTyped'
    BY <1>13, <2>4, TypeParts DEF SnapshotFailed, EnterCleanup, Closed, HeadIs, Unlink, store,
       model, HandlerTyped,
       Cleaning, Claimed, WaitOf, Waited
  <2> QED
    BY <2>2, <2>3, TypePartsNext
<1>14. ASSUME NEW r \in Request, Released(r) PROVE TypeInv'
  <2>1. links[r] # <<>> /\ \E answer \in {"stored", "failed"} : Unlink(r, answer)
    BY <1>14 DEF Released, Ended, HeadIs
  <2>2. QueueTyped' /\ StoreTyped'
    BY <2>1, UnlinkTypes, TypeParts DEF Unlink, StoreTyped, store
  <2>3. HandlerTyped'
    BY <1>14, TypeParts DEF Released, Ended, HeadIs, Unlink, Goto, store, model, HandlerTyped,
       Over,
       Claimed, WaitOf, Waited
  <2> QED
    BY <2>2, <2>3, TypePartsNext
<1>15. ASSUME NEW r \in Request, LateAnswer(r) PROVE TypeInv'
  <2>1. links[r] # <<>> /\ \E answer \in {"stored", "failed"} : Unlink(r, answer)
    BY <1>15 DEF LateAnswer, HeadIs
  <2>2. QueueTyped' /\ StoreTyped'
    BY <2>1, UnlinkTypes, TypeParts DEF Unlink, StoreTyped, store
  <2>3. HandlerTyped'
    BY <1>15, TypeParts DEF LateAnswer, Unlink, model, HandlerTyped
  <2> QED
    BY <2>2, <2>3, TypePartsNext
<1>16. ASSUME NEW r \in Request, CostLands(r) PROVE TypeInv'
  <2>1. UNCHANGED <<now, store, session, queue, model, request, faults>>
    BY <1>16 DEF CostLands
  <2>2. /\ hold' \in [Request -> {"none", "held", "released", "committed"}]
        /\ costWire' \in [Request -> {"none", "reserve", "granted", "refused",
                                      "release", "commit", "settled"}]
    BY <1>16, TypeParts DEF CostLands, HandlerTyped
  <2>3. QueueTyped' /\ StoreTyped'
    BY <2>1, TypeParts DEF QueueTyped, StoreTyped, store, session, queue
  <2>4. HandlerTyped'
    BY <2>1, <2>2, TypeParts DEF HandlerTyped, session, model, request
  <2> QED
    BY <2>3, <2>4, TypePartsNext
<1>17. ASSUME NEW r \in Request, ReserveAnswered(r) PROVE TypeInv'
  <2>1. costWire' \in [Request -> {"none", "reserve", "granted", "refused",
                                    "release", "commit", "settled"}]
    BY <1>17, TypeParts DEF ReserveAnswered, HandlerTyped
  <2>2. CASE BeginRelease(r)
    BY <1>17, <2>1, <2>2, ReleaseTypes DEF ReserveAnswered, Claimed
  <2>3. CASE Goto(r, "loading") /\ UNCHANGED <<timer, session, queue>>
    <3>1. QueueTyped' /\ StoreTyped'
      BY <1>17, <2>3, TypeParts DEF ReserveAnswered, QueueTyped, StoreTyped, session, queue,
         store
    <3>2. HandlerTyped'
      BY <1>17, <2>1, <2>3, TypeParts DEF ReserveAnswered, Goto, HandlerTyped, session, model,
         Before, Claimed
    <3> QED
      BY <3>1, <3>2, TypePartsNext
  <2> QED
    BY <1>17, <2>2, <2>3 DEF ReserveAnswered
<1>18. ASSUME NEW r \in Request, UndoAnswered(r) PROVE TypeInv'
  <2>1. costWire' \in [Request -> {"none", "reserve", "granted", "refused",
                                    "release", "commit", "settled"}]
    BY <1>18, TypeParts DEF UndoAnswered, HandlerTyped
  <2> QED
    BY <1>18, <2>1, ReleaseTypes DEF UndoAnswered, Claimed
<1>19. ASSUME NEW r \in Request, LateCost(r) PROVE TypeInv'
  BY <1>19, LinkNames DEF LateCost, store, session, queue, model, request, TypeInv, TypeOK,
     LocalInv
<1>20. ASSUME NEW r \in Request, MemoryLoaded(r) PROVE TypeInv'
  BY <1>20, LinkNames DEF MemoryLoaded, Goto, store, session, queue, model, cost, TypeInv,
     TypeOK, LocalInv, Before, Claimed
<1>21. ASSUME NEW r \in Request, MemoryFails(r) PROVE TypeInv'
  BY <1>21, UndoTypes DEF MemoryFails, Claimed
<1>22. ASSUME NEW r \in Request, Dispatch(r) PROVE TypeInv'
  BY <1>22, LinkNames DEF Dispatch, store, session, queue, cost, request, TypeInv, TypeOK,
     LocalInv
<1>23. ASSUME NEW r \in Request, SendEnds(r) PROVE TypeInv'
  BY <1>23, LinkNames DEF SendEnds, store, session, queue, cost, request, TypeInv, TypeOK,
     LocalInv
<1>24. ASSUME NEW r \in Request, PersistSnapshot(r) PROVE TypeInv'
  <2>1. Append(links[r], "snapshot") \in Seq(DOMAIN WaitOf)
    BY LinkNames, TypeParts DEF QueueTyped
  <2>2. QueueTyped'
    BY <1>24, <2>1, TypeParts DEF PersistSnapshot, QueueTyped, session
  <2>3. StoreTyped' /\ HandlerTyped'
    BY <1>24, TypeParts DEF PersistSnapshot, StoreTyped, HandlerTyped, store, session, model,
       cost, request
  <2> QED
    BY <2>2, <2>3, TypePartsNext
<1>25. ASSUME NEW r \in Request, Enters(r) PROVE TypeInv'
  <2>1. response' \in [Request -> {"none", "open", "ending", "closed"}]
    BY <1>25, EnterEffect, TypeParts DEF HandlerTyped
  <2> QED
    BY <1>25, <2>1, EnterEffect, EnterTypes
<1>26. ASSUME NEW r \in Request, Abort(r) PROVE TypeInv'
  <2>1. CASE Goto(r, "done") /\ UNCHANGED <<timer, session, queue, cost>>
    <3>1. QueueTyped' /\ StoreTyped'
      BY <1>26, <2>1, TypeParts DEF Abort, QueueTyped, StoreTyped, session, queue, store
    <3>2. HandlerTyped'
      BY <1>26, <2>1, TypeParts DEF Abort, Goto, HandlerTyped, session, cost, model, Over,
         Claimed
    <3> QED
      BY <3>1, <3>2, TypePartsNext
  <2>2. CASE pc[r] = "reserving" /\ BeginRelease(r) /\ UNCHANGED cost
    <3>1. costWire' \in [Request -> {"none", "reserve", "granted", "refused",
                                    "release", "commit", "settled"}]
      BY <2>2, TypeParts DEF HandlerTyped, cost
    <3> QED
      BY <1>26, <2>2, <3>1, ReleaseTypes DEF Abort, Claimed, cost
  <2>3. CASE pc[r] = "loading" /\ Undo(r)
    BY <1>26, <2>3, UndoTypes DEF Abort, Claimed
  <2>4. CASE EnterCleanup(r) /\ UNCHANGED <<session, queue, cost>>
    BY <1>26, <2>4, EnterTypes, TypeParts DEF Abort, model, HandlerTyped
  <2> QED
    BY <1>26, <2>1, <2>2, <2>3, <2>4 DEF Abort
<1>27. ASSUME NEW r \in Request, Settled(r) PROVE TypeInv'
  <2>1. \E place \in {"costing", "saving"} : pc' = [pc EXCEPT ![r] = place] /\ timer' \in [Request -> Nat]
    BY <1>27, PhaseTypes DEF Settled, Cleaning
  <2>2. QueueTyped' /\ StoreTyped'
    BY <1>27, TypeParts DEF Settled, QueueTyped, StoreTyped, session, queue, store
  <2>3. costWire' \in [Request -> {"none", "reserve", "granted", "refused",
                                    "release", "commit", "settled"}]
    BY <1>27, TypeParts DEF Settled, Settlement, HandlerTyped
  <2>4. UNCHANGED <<now, faults, turn, born, active, terminal, model, hold>> /\ pc[r] = "settling"
    BY <1>27 DEF Settled, session
  <2>5. HandlerTyped'
    BY <2>1, <2>3, <2>4, TypeParts DEF HandlerTyped, model, Cleaning, Claimed
  <2> QED
    BY <2>2, <2>5, TypePartsNext
<1>28. ASSUME NEW r \in Request, CostSettled(r) PROVE TypeInv'
  <2>1. \E place \in {"saving"} : pc' = [pc EXCEPT ![r] = place] /\ timer' \in [Request -> Nat]
    BY <1>28, PhaseTypes DEF CostSettled, Cleaning
  <2>2. QueueTyped' /\ StoreTyped'
    BY <1>28, TypeParts DEF CostSettled, QueueTyped, StoreTyped, session, queue, store
  <2>3. HandlerTyped'
    BY <1>28, <2>1, TypeParts DEF CostSettled, Settlement, HandlerTyped, session, model,
       Cleaning, Claimed
  <2> QED
    BY <2>2, <2>3, TypePartsNext
<1>29. ASSUME NEW r \in Request, MemorySaved(r) PROVE TypeInv'
  <2>1. costWire' \in [Request -> {"none", "reserve", "granted", "refused",
                                    "release", "commit", "settled"}]
    BY <1>29, TypeParts DEF MemorySaved, HandlerTyped, cost
  <2> QED
    BY <1>29, <2>1, ReleaseTypes DEF MemorySaved, Claimed, cost
<1>30. ASSUME NEW r \in Request, ReleaseTimesOut(r) PROVE TypeInv'
  BY <1>30, LinkNames DEF ReleaseTimesOut, Ended, Goto, store, session, queue, model, cost,
     TypeInv,
     TypeOK, LocalInv, Over, Claimed
<1>31. ASSUME NEW r \in Request, Crash(r) PROVE TypeInv'
  BY <1>31, LinkNames DEF Crash, Goto, store, session, model, cost, TypeInv, TypeOK, LocalInv,
     Over, Claimed
<1>32. ASSUME NEW r \in Request, Admit(r) PROVE TypeInv'
  BY <1>32, <1>2, <1>3, <1>4, <1>5 DEF Admit
<1>33. ASSUME NEW r \in Request, Persist(r) PROVE TypeInv'
  BY <1>33, <1>6, <1>7, <1>8, <1>9, <1>10, <1>11, <1>12, <1>13, <1>14, <1>15 DEF Persist
<1>34. ASSUME NEW r \in Request, Meter(r) PROVE TypeInv'
  BY <1>34, <1>16, <1>17, <1>18, <1>19 DEF Meter
<1>35. ASSUME NEW r \in Request, Stream(r) PROVE TypeInv'
  BY <1>35, <1>20, <1>21, <1>22, <1>23, <1>24, <1>25 DEF Stream, Enters
<1>36. ASSUME NEW r \in Request, End(r) PROVE TypeInv'
  BY <1>36, <1>26, <1>27, <1>28, <1>29, <1>30, <1>31 DEF End
<1> QED
  BY <1>0, <1>1, <1>32, <1>33, <1>34, <1>35, <1>36 DEF Next

\* Every variable keeps its type.
THEOREM TypeCorrect == Spec => []TypeOK
<1>1. TypeInv /\ [Next]_vars => TypeInv'
  BY TypeStep
<1>2. TypeInv => TypeOK
  BY DEF TypeInv
<1> QED
  BY InitTypes, <1>1, <1>2, PTL DEF Spec

-----------------------------------------------------------------------------
(* What the session objects know of the storage *)

\* A session object writes until it is over.
Writing == Claimed \union {"releasing"}

\* The snapshot a session read or wrote last is the stored one.
Current(r) == cursor[r] = storedCursor

\* The lease in the storage is over, or it is one of the turn of this request.
Yields(r) == storedActive.expires <= now \/ storedActive.turn = turn[r]

\* No session is ahead of the storage; one whose save was stored is behind it, and
\* one that has not claimed saves nothing.
CursorInv ==
    \A r \in Request :
        /\ cursor[r] <= storedCursor
        /\ wire[r] = "stored" => cursor[r] < storedCursor
        /\ pc[r] \in {"idle", "resuming", "resumed"} => wire[r] = "none"

\* What a session that is up to date knows of the storage.
KnownInv ==
    \A r \in Request :
        /\ pc[r] = "resumed" /\ Current(r) => active[r] = storedActive
        /\ pc[r] \in Claimed \union {"resumed"} /\ Current(r) => terminal[r] = storedTerminal
        /\ pc[r] \in Writing /\ Current(r) =>
              Keeps(storedTerminal, terminal[r]) /\ Yields(r)

\* The lease a session holds is one of its request's turn.
LeaseInv ==
    \A r \in Request :
        /\ pc[r] \in Claimed => active[r].turn = turn[r]
        /\ pc[r] = "releasing" => active[r] = NoLease

\* What a save carries, and what its session has become meanwhile.
WireInv ==
    \A r \in Request :
        /\ wire[r] \in {"sent", "stored"} =>
              wireActive[r] = NoLease \/ wireActive[r].turn = turn[r]
        /\ wire[r] = "sent" /\ Current(r) =>
              Keeps(storedTerminal, wireTerminal[r]) /\ Yields(r)
        /\ wire[r] = "stored" /\ cursor[r] + 1 = storedCursor =>
              storedTerminal = wireTerminal[r] /\ storedActive = wireActive[r]
        /\ wire[r] \in {"sent", "stored"} /\ pc[r] \in Claimed =>
              wireTerminal[r] = terminal[r] /\ wireActive[r] = active[r]
        /\ wire[r] \in {"sent", "stored"} /\ pc[r] \in Writing =>
              Keeps(wireTerminal[r], terminal[r])

SnapInv == TypeInv /\ CursorInv /\ KnownInv /\ LeaseInv /\ WireInv

LEMMA LeaseFacts ==
    /\ NoLease \in Lease /\ NoLease.expires = 0 /\ NoLease.turn = NoTurn
    /\ \A l \in Lease : l.expires \in Nat
  BY DEF Lease, NoLease

LEMMA KeepsItself == \A s : Keeps(s, s)
  BY DEF Keeps

\* What the moves do that several steps share, request by request.
LEMMA UnlinkEffect ==
    ASSUME TypeInv, NEW r \in Request, NEW answer, Unlink(r, answer)
    PROVE  /\ wire[r] = answer /\ wire'[r] = "none" /\ links'[r] = Tail(links[r])
           /\ cursor'[r] = IF answer = "stored" THEN cursor[r] + 1 ELSE cursor[r]
           /\ \A q \in Request \ {r} : wire'[q] = wire[q] /\ cursor'[q] = cursor[q]
           /\ \A q \in Request \ {r} : links'[q] = links[q]
           /\ UNCHANGED <<now, storedCursor, storedActive, storedTerminal, active, turn, born>>
           /\ UNCHANGED <<started, send, hold>>
  BY DEF Unlink, store, model, TypeInv, TypeOK

LEMMA GotoEffect ==
    ASSUME TypeInv, NEW r \in Request, NEW place, Goto(r, place)
    PROVE  pc'[r] = place /\ \A q \in Request \ {r} : pc'[q] = pc[q]
  BY DEF Goto, TypeInv, TypeOK

LEMMA PhaseEffect ==
    ASSUME TypeInv, NEW r \in Request, NEW place, Phase(r, place)
    PROVE  /\ pc'[r] = place /\ timer'[r] = now + CleanupTimeout
           /\ \A q \in Request \ {r} : pc'[q] = pc[q] /\ timer'[q] = timer[q]
  BY DEF Phase, Goto, TypeInv, TypeOK

\* A step that moves a request before its cleanup, to one of these places with its
\* lease or to the release without it.
Moves(r, places) ==
    /\ pc'[r] = "releasing" \/ (pc'[r] \in places /\ active'[r] = active[r])
    /\ \A q \in Request \ {r} : pc'[q] = pc[q] /\ timer'[q] = timer[q] /\ active'[q] = active[q]
    /\ \A q \in Request \ {r} : links'[q] = links[q]
    /\ UNCHANGED <<now, storedCursor, storedActive, storedTerminal, cursor, wire, turn, born>>

LEMMA ReleaseMoves ==
    ASSUME TypeInv, NEW r \in Request, BeginRelease(r), UNCHANGED <<now, store, turn, born>>
    PROVE  Moves(r, {})
  BY PhaseEffect DEF BeginRelease, Moves, store, TypeInv, TypeOK

LEMMA UndoMoves ==
    ASSUME TypeInv, NEW r \in Request, Undo(r), UNCHANGED <<now, store, turn, born>>
    PROVE  Moves(r, {"undoing"}) /\ (pc'[r] = "undoing" => Metered)
<1>1. CASE BeginRelease(r)
  BY <1>1, ReleaseMoves, PhaseEffect DEF Moves, BeginRelease
<1>2. CASE Metered /\ Goto(r, "undoing") /\ UNCHANGED <<timer, session, queue>>
  BY <1>2, GotoEffect DEF Moves, session, queue, store
<1> QED
  BY <1>1, <1>2 DEF Undo

LEMMA EarlyMoves ==
    ASSUME TypeInv, NEW r \in Request
    PROVE  /\ ReserveAnswered(r) => pc[r] = "reserving" /\ Moves(r, {"loading"})
           /\ MemoryFails(r) => /\ pc[r] = "loading" /\ Moves(r, {"undoing"})
                                /\ pc'[r] = "undoing" => Metered
           /\ Abort(r) => pc[r] \in Before /\ Moves(r, {"done", "undoing", "settling"})
<1>1. ASSUME ReserveAnswered(r) PROVE pc[r] = "reserving" /\ Moves(r, {"loading"})
  <2>1. CASE Goto(r, "loading") /\ UNCHANGED <<timer, session, queue>>
    BY <1>1, <2>1, GotoEffect DEF ReserveAnswered, Moves, session, queue, store
  <2>2. CASE BeginRelease(r)
    BY <1>1, <2>2, ReleaseMoves DEF ReserveAnswered, Moves
  <2> QED
    BY <1>1, <2>1, <2>2 DEF ReserveAnswered
<1>2. ASSUME MemoryFails(r)
      PROVE  pc[r] = "loading" /\ Moves(r, {"undoing"}) /\ (pc'[r] = "undoing" => Metered)
  BY <1>2, UndoMoves DEF MemoryFails
<1>3. ASSUME Abort(r) PROVE pc[r] \in Before /\ Moves(r, {"done", "undoing", "settling"})
  <2>1. CASE Goto(r, "done") /\ UNCHANGED <<timer, session, queue>>
    BY <1>3, <2>1, GotoEffect DEF Abort, Abortable, Moves, session, queue, store
  <2>2. CASE BeginRelease(r)
    BY <1>3, <2>2, ReleaseMoves DEF Abort, Abortable, Moves
  <2>3. CASE Undo(r)
    BY <1>3, <2>3, UndoMoves DEF Abort, Abortable, Moves
  <2>4. CASE pc[r] = "streaming" /\ EnterCleanup(r) /\ UNCHANGED <<session, queue>>
    BY <1>3, <2>4, PhaseEffect DEF Abort, Abortable, EnterCleanup, Closed, Moves, session,
       queue,
       store
  <2> QED
    BY <1>3, <2>1, <2>2, <2>3, <2>4 DEF Abort
<1> QED
  BY <1>1, <1>2, <1>3

LEMMA CursorStep == TypeInv /\ CursorInv /\ [Next]_vars => CursorInv'
<1> SUFFICES ASSUME TypeInv /\ CursorInv, [Next]_vars PROVE CursorInv'
  OBVIOUS
<1>0. CASE UNCHANGED vars
  BY <1>0 DEF vars, store, session, queue, request, CursorInv
<1>1. ASSUME Tick PROVE CursorInv'
  BY <1>1 DEF Tick, store, session, queue, request, CursorInv
<1>2. ASSUME NEW r \in Request, Receive(r) PROVE CursorInv'
  BY <1>2 DEF Receive, Goto, store, session, queue, CursorInv
<1>3. ASSUME NEW r \in Request, ReadSession(r) PROVE CursorInv'
  BY <1>3 DEF ReadSession, Goto, store, queue, TypeInv, TypeOK, CursorInv
<1>4. ASSUME NEW r \in Request, Refuse(r) PROVE CursorInv'
  BY <1>4 DEF Refuse, Goto, store, session, queue, CursorInv
<1>5. ASSUME NEW r \in Request, ClaimTurn(r) PROVE CursorInv'
  BY <1>5 DEF ClaimTurn, Busy, Goto, store, CursorInv
<1>6. ASSUME NEW r \in Request, StartSave(r) PROVE CursorInv'
  BY <1>6, LinkNames DEF StartSave, store, session, request, Waited, WaitOf, TypeInv, TypeOK,
     CursorInv
<1>7. ASSUME NEW r \in Request, SkipSave(r) PROVE CursorInv'
  BY <1>7 DEF SkipSave, store, session, request, CursorInv
<1>8. ASSUME NEW r \in Request, StoreSave(r) PROVE CursorInv'
  BY <1>8 DEF StoreSave, CursorMatches, session, store, request, TypeInv, TypeOK, CursorInv
<1>9. ASSUME NEW r \in Request, LoseSave(r) PROVE CursorInv'
  BY <1>9 DEF LoseSave, store, session, request, CursorInv
<1>10. ASSUME NEW r \in Request, ClaimSaved(r) PROVE CursorInv'
  <2>1. Unlink(r, "stored") /\ pc'[r] \in {"reserving", "loading"}
        /\ \A q \in Request \ {r} : pc'[q] = pc[q]
    BY <1>10, GotoEffect DEF ClaimSaved
  <2>2. storedCursor \in Nat /\ \A q \in Request : cursor[q] \in Nat
    BY DEF TypeInv, TypeOK
  <2> QED
    BY <2>1, <2>2, UnlinkEffect DEF CursorInv
<1>11. ASSUME NEW r \in Request, ClaimFailed(r) PROVE CursorInv'
  BY <1>11 DEF ClaimFailed, HeadIs, Unlink, Goto, store, CursorInv
<1>12. ASSUME NEW r \in Request, SnapshotSaved(r) PROVE CursorInv'
  BY <1>12 DEF SnapshotSaved, Unlink, store, TypeInv, TypeOK, CursorInv
<1>13. ASSUME NEW r \in Request, SnapshotFailed(r) PROVE CursorInv'
  <2>1. /\ pc[r] = "streaming" /\ pc' = [pc EXCEPT ![r] = "settling"]
        /\ timer' = [timer EXCEPT ![r] = now + CleanupTimeout]
    BY <1>13, SnapshotEffect
  <2> QED
    BY <1>13, <2>1 DEF SnapshotFailed, Unlink, store, CursorInv
<1>14. ASSUME NEW r \in Request, Released(r) PROVE CursorInv'
  BY <1>14 DEF Released, Ended, HeadIs, Unlink, Goto, store, TypeInv, TypeOK, CursorInv
<1>15. ASSUME NEW r \in Request, LateAnswer(r) PROVE CursorInv'
  BY <1>15 DEF LateAnswer, Unlink, store, TypeInv, TypeOK, CursorInv
<1>16. ASSUME NEW r \in Request, CostLands(r) PROVE CursorInv'
  BY <1>16 DEF CostLands, store, session, queue, request, CursorInv
<1>17. ASSUME NEW r \in Request, ReserveAnswered(r) PROVE CursorInv'
  BY <1>17 DEF ReserveAnswered, BeginRelease, Phase, Goto, store, session, queue, TypeInv,
     TypeOK, CursorInv
<1>18. ASSUME NEW r \in Request, UndoAnswered(r) PROVE CursorInv'
  BY <1>18 DEF UndoAnswered, BeginRelease, Phase, Goto, store, CursorInv
<1>19. ASSUME NEW r \in Request, LateCost(r) PROVE CursorInv'
  BY <1>19 DEF LateCost, store, session, queue, request, CursorInv
<1>20. ASSUME NEW r \in Request, MemoryLoaded(r) PROVE CursorInv'
  BY <1>20 DEF MemoryLoaded, Goto, store, session, queue, CursorInv
<1>21. ASSUME NEW r \in Request, MemoryFails(r) PROVE CursorInv'
  BY <1>21 DEF MemoryFails, Undo, BeginRelease, Phase, Goto, store, session, queue, TypeInv,
     TypeOK, CursorInv
<1>22. ASSUME NEW r \in Request, Dispatch(r) PROVE CursorInv'
  BY <1>22 DEF Dispatch, store, session, queue, request, CursorInv
<1>23. ASSUME NEW r \in Request, SendEnds(r) PROVE CursorInv'
  BY <1>23 DEF SendEnds, store, session, queue, request, CursorInv
<1>24. ASSUME NEW r \in Request, PersistSnapshot(r) PROVE CursorInv'
  BY <1>24 DEF PersistSnapshot, store, session, request, CursorInv
<1>25. ASSUME NEW r \in Request, Enters(r) PROVE CursorInv'
  <2>1. CASE UNCHANGED <<pc, timer>>
    BY <1>25, <2>1, EnterEffect DEF store, session, queue, request, CursorInv
  <2>2. CASE /\ pc[r] = "streaming" /\ pc' = [pc EXCEPT ![r] = "settling"]
             /\ timer' = [timer EXCEPT ![r] = now + CleanupTimeout]
    BY <1>25, <2>2, EnterEffect DEF store, session, queue, CursorInv
  <2> QED
    BY <1>25, <2>1, <2>2, EnterEffect, CleanupEffect
<1>26. ASSUME NEW r \in Request, Abort(r) PROVE CursorInv'
  BY <1>26 DEF Abort, Abortable, BeginRelease, Undo, EnterCleanup, Closed, Phase, Goto, store,
     session,
     queue, TypeInv, TypeOK, CursorInv
<1>27. ASSUME NEW r \in Request, Settled(r) PROVE CursorInv'
  BY <1>27 DEF Settled, Phase, Goto, store, session, queue, TypeInv, TypeOK, CursorInv
<1>28. ASSUME NEW r \in Request, CostSettled(r) PROVE CursorInv'
  BY <1>28 DEF CostSettled, Phase, Goto, store, session, queue, CursorInv
<1>29. ASSUME NEW r \in Request, MemorySaved(r) PROVE CursorInv'
  BY <1>29 DEF MemorySaved, BeginRelease, Phase, Goto, store, CursorInv
<1>30. ASSUME NEW r \in Request, ReleaseTimesOut(r) PROVE CursorInv'
  BY <1>30 DEF ReleaseTimesOut, Ended, Goto, store, session, queue, CursorInv
<1>31. ASSUME NEW r \in Request, Crash(r) PROVE CursorInv'
  BY <1>31 DEF Crash, Goto, store, session, CursorInv
<1>32. ASSUME NEW r \in Request, Admit(r) PROVE CursorInv'
  BY <1>32, <1>2, <1>3, <1>4, <1>5 DEF Admit
<1>33. ASSUME NEW r \in Request, Persist(r) PROVE CursorInv'
  BY <1>33, <1>6, <1>7, <1>8, <1>9, <1>10, <1>11, <1>12, <1>13, <1>14, <1>15 DEF Persist
<1>34. ASSUME NEW r \in Request, Meter(r) PROVE CursorInv'
  BY <1>34, <1>16, <1>17, <1>18, <1>19 DEF Meter
<1>35. ASSUME NEW r \in Request, Stream(r) PROVE CursorInv'
  BY <1>35, <1>20, <1>21, <1>22, <1>23, <1>24, <1>25 DEF Stream, Enters
<1>36. ASSUME NEW r \in Request, End(r) PROVE CursorInv'
  BY <1>36, <1>26, <1>27, <1>28, <1>29, <1>30, <1>31 DEF End
<1> QED
  BY <1>0, <1>1, <1>32, <1>33, <1>34, <1>35, <1>36 DEF Next

LEMMA LeaseStep == TypeInv /\ LeaseInv /\ [Next]_vars => LeaseInv'
<1> SUFFICES ASSUME TypeInv /\ LeaseInv, [Next]_vars PROVE LeaseInv'
  OBVIOUS
<1>0. CASE UNCHANGED vars
  BY <1>0 DEF vars, session, request, LeaseInv
<1>1. ASSUME Tick PROVE LeaseInv'
  BY <1>1 DEF Tick, session, request, LeaseInv
<1>2. ASSUME NEW r \in Request, Receive(r) PROVE LeaseInv'
  BY <1>2 DEF Receive, Goto, session, LeaseInv, Claimed
<1>3. ASSUME NEW r \in Request, ReadSession(r) PROVE LeaseInv'
  BY <1>3 DEF ReadSession, Goto, LeaseInv, Claimed
<1>4. ASSUME NEW r \in Request, Refuse(r) PROVE LeaseInv'
  BY <1>4 DEF Refuse, Goto, session, LeaseInv, Claimed
<1>5. ASSUME NEW r \in Request, ClaimTurn(r) PROVE LeaseInv'
  BY <1>5 DEF ClaimTurn, Goto, TypeInv, TypeOK, LeaseInv
<1>6. ASSUME NEW r \in Request, StartSave(r) PROVE LeaseInv'
  BY <1>6 DEF StartSave, session, request, LeaseInv
<1>7. ASSUME NEW r \in Request, SkipSave(r) PROVE LeaseInv'
  BY <1>7 DEF SkipSave, session, request, LeaseInv
<1>8. ASSUME NEW r \in Request, StoreSave(r) PROVE LeaseInv'
  BY <1>8 DEF StoreSave, session, request, LeaseInv
<1>9. ASSUME NEW r \in Request, LoseSave(r) PROVE LeaseInv'
  BY <1>9 DEF LoseSave, session, request, LeaseInv
<1>10. ASSUME NEW r \in Request, ClaimSaved(r) PROVE LeaseInv'
  BY <1>10 DEF ClaimSaved, HeadIs, Unlink, Goto, store, TypeInv, TypeOK, LeaseInv, Claimed,
     Waited, WaitOf
<1>11. ASSUME NEW r \in Request, ClaimFailed(r) PROVE LeaseInv'
  BY <1>11 DEF ClaimFailed, Unlink, Goto, LeaseInv, Claimed
<1>12. ASSUME NEW r \in Request, SnapshotSaved(r) PROVE LeaseInv'
  BY <1>12 DEF SnapshotSaved, Unlink, LeaseInv
<1>13. ASSUME NEW r \in Request, SnapshotFailed(r) PROVE LeaseInv'
  <2>1. /\ pc[r] = "streaming" /\ pc' = [pc EXCEPT ![r] = "settling"]
        /\ timer' = [timer EXCEPT ![r] = now + CleanupTimeout]
    BY <1>13, SnapshotEffect
  <2> QED
    BY <1>13, <2>1 DEF SnapshotFailed, Unlink, store, model, LeaseInv, Claimed
<1>14. ASSUME NEW r \in Request, Released(r) PROVE LeaseInv'
  BY <1>14 DEF Released, Ended, Unlink, Goto, LeaseInv, Claimed
<1>15. ASSUME NEW r \in Request, LateAnswer(r) PROVE LeaseInv'
  BY <1>15 DEF LateAnswer, Unlink, LeaseInv
<1>16. ASSUME NEW r \in Request, CostLands(r) PROVE LeaseInv'
  BY <1>16 DEF CostLands, session, request, LeaseInv
<1>17. ASSUME NEW r \in Request, ReserveAnswered(r) PROVE LeaseInv'
  BY <1>17 DEF ReserveAnswered, BeginRelease, Phase, Goto, store, session, queue, TypeInv,
     TypeOK, LeaseInv, Claimed
<1>18. ASSUME NEW r \in Request, UndoAnswered(r) PROVE LeaseInv'
  BY <1>18 DEF UndoAnswered, BeginRelease, Phase, Goto, TypeInv, TypeOK, LeaseInv, Claimed
<1>19. ASSUME NEW r \in Request, LateCost(r) PROVE LeaseInv'
  BY <1>19 DEF LateCost, session, request, LeaseInv
<1>20. ASSUME NEW r \in Request, MemoryLoaded(r) PROVE LeaseInv'
  BY <1>20 DEF MemoryLoaded, Goto, session, LeaseInv, Claimed
<1>21. ASSUME NEW r \in Request, MemoryFails(r) PROVE LeaseInv'
  BY <1>21 DEF MemoryFails, Undo, BeginRelease, Phase, Goto, store, session, TypeInv, TypeOK,
     LeaseInv, Claimed
<1>22. ASSUME NEW r \in Request, Dispatch(r) PROVE LeaseInv'
  BY <1>22 DEF Dispatch, session, request, LeaseInv
<1>23. ASSUME NEW r \in Request, SendEnds(r) PROVE LeaseInv'
  BY <1>23 DEF SendEnds, session, request, LeaseInv
<1>24. ASSUME NEW r \in Request, PersistSnapshot(r) PROVE LeaseInv'
  BY <1>24 DEF PersistSnapshot, session, request, LeaseInv
<1>25. ASSUME NEW r \in Request, Enters(r) PROVE LeaseInv'
  <2>1. CASE UNCHANGED <<pc, timer>>
    BY <1>25, <2>1, EnterEffect DEF session, request, LeaseInv
  <2>2. CASE /\ pc[r] = "streaming" /\ pc' = [pc EXCEPT ![r] = "settling"]
             /\ timer' = [timer EXCEPT ![r] = now + CleanupTimeout]
    BY <1>25, <2>2, EnterEffect DEF store, session, LeaseInv, Claimed
  <2> QED
    BY <1>25, <2>1, <2>2, EnterEffect, CleanupEffect
<1>26. ASSUME NEW r \in Request, Abort(r) PROVE LeaseInv'
  BY <1>26, SMTT(20) DEF Abort, Abortable, BeginRelease, Undo, EnterCleanup, Closed, Phase,
     Goto, store,
     session,
     queue, model, cost, TypeInv, TypeOK, LeaseInv, Claimed, Before, Cleaning, Over
<1>27. ASSUME NEW r \in Request, Settled(r) PROVE LeaseInv'
  BY <1>27 DEF Settled, Phase, Goto, store, session, queue, TypeInv, TypeOK, LeaseInv, Claimed
<1>28. ASSUME NEW r \in Request, CostSettled(r) PROVE LeaseInv'
  BY <1>28 DEF CostSettled, Phase, Goto, store, session, LeaseInv, Claimed
<1>29. ASSUME NEW r \in Request, MemorySaved(r) PROVE LeaseInv'
  BY <1>29 DEF MemorySaved, BeginRelease, Phase, Goto, TypeInv, TypeOK, LeaseInv, Claimed
<1>30. ASSUME NEW r \in Request, ReleaseTimesOut(r) PROVE LeaseInv'
  BY <1>30 DEF ReleaseTimesOut, Ended, Goto, session, LeaseInv, Claimed
<1>31. ASSUME NEW r \in Request, Crash(r) PROVE LeaseInv'
  BY <1>31 DEF Crash, Goto, session, LeaseInv, Claimed
<1>32. ASSUME NEW r \in Request, Admit(r) PROVE LeaseInv'
  BY <1>32, <1>2, <1>3, <1>4, <1>5 DEF Admit
<1>33. ASSUME NEW r \in Request, Persist(r) PROVE LeaseInv'
  BY <1>33, <1>6, <1>7, <1>8, <1>9, <1>10, <1>11, <1>12, <1>13, <1>14, <1>15 DEF Persist
<1>34. ASSUME NEW r \in Request, Meter(r) PROVE LeaseInv'
  BY <1>34, <1>16, <1>17, <1>18, <1>19 DEF Meter
<1>35. ASSUME NEW r \in Request, Stream(r) PROVE LeaseInv'
  BY <1>35, <1>20, <1>21, <1>22, <1>23, <1>24, <1>25 DEF Stream, Enters
<1>36. ASSUME NEW r \in Request, End(r) PROVE LeaseInv'
  BY <1>36, <1>26, <1>27, <1>28, <1>29, <1>30, <1>31 DEF End
<1> QED
  BY <1>0, <1>1, <1>32, <1>33, <1>34, <1>35, <1>36 DEF Next

\* A save that was stored, and that no other has followed, left what the session holds.
LEMMA UnlinkKnown ==
    ASSUME SnapInv, NEW r \in Request, NEW answer \in {"stored", "failed"}, Unlink(r, answer),
           NEW place, pc' = [pc EXCEPT ![r] = place],
           place = pc[r] \/ place \in Over \/ (pc[r] \in Claimed /\ place \in Claimed)
    PROVE  KnownInv'
<1>1. ASSUME wire[r] = "stored", cursor[r] + 1 = storedCursor
      PROVE  /\ pc[r] \in Writing => Keeps(storedTerminal, terminal[r]) /\ Yields(r)
             /\ pc[r] \in Claimed => terminal[r] = storedTerminal
  <2>1. storedTerminal = wireTerminal[r] /\ storedActive = wireActive[r]
    BY <1>1 DEF SnapInv, WireInv
  <2>2. now \in Nat /\ (wireActive[r] = NoLease \/ wireActive[r].turn = turn[r])
    BY <1>1 DEF SnapInv, TypeInv, TypeOK, WireInv
  <2>3. Yields(r)
    BY <2>1, <2>2, LeaseFacts DEF Yields
  <2> QED
    BY <1>1, <2>1, <2>3 DEF SnapInv, WireInv
<1>2. /\ wire[r] = answer
      /\ cursor' = [cursor EXCEPT ![r] = IF answer = "stored" THEN @ + 1 ELSE @]
      /\ UNCHANGED <<now, storedCursor, storedActive, storedTerminal, active, terminal, turn>>
  BY DEF Unlink, store
<1>3. pc[r] \notin {"idle", "resuming", "resumed"}
  BY <1>2 DEF SnapInv, CursorInv
<1>4. cursor \in [Request -> Nat] /\ DOMAIN pc = Request
  BY DEF SnapInv, TypeInv, TypeOK
<1>5. KnownInv
  BY DEF SnapInv
<1>6. ASSUME NEW s \in Request, s # r
      PROVE  /\ pc'[s] = "resumed" /\ Current(s)' => active'[s] = storedActive'
             /\ pc'[s] \in Claimed \union {"resumed"} /\ Current(s)' => terminal'[s] = storedTerminal'
             /\ pc'[s] \in Writing /\ Current(s)' => Keeps(storedTerminal, terminal[s]) /\ Yields(s)'
  BY <1>2, <1>4, <1>5, <1>6 DEF KnownInv, Current, Yields
<1>7. /\ pc'[r] \notin {"idle", "resuming", "resumed"}
      /\ pc'[r] \in Writing => pc[r] \in Writing
      /\ pc'[r] \in Claimed => pc[r] \in Claimed
  BY <1>3, <1>4 DEF Writing, Claimed, Over
<1>8. CASE answer = "stored"
  <2>1. Current(r)' => cursor[r] + 1 = storedCursor
    BY <1>2, <1>4, <1>8 DEF Current
  <2> QED
    BY <1>1, <1>2, <1>6, <1>7, <1>8, <2>1 DEF KnownInv, Yields
<1>9. CASE answer = "failed"
  <2>1. Current(r)' => Current(r)
    BY <1>2, <1>4, <1>9 DEF Current
  <2> QED
    BY <1>2, <1>5, <1>6, <1>7, <1>9, <2>1 DEF KnownInv, Yields
<1> QED
  BY <1>8, <1>9

\* releaseTurn: the session is ahead of the storage by the turn it has recorded.
LEMMA ReleaseKnown ==
    ASSUME SnapInv, NEW r \in Request, pc[r] \in Claimed \ {"claiming"}, BeginRelease(r),
           UNCHANGED <<now, store, turn>>
    PROVE  KnownInv' /\ WireInv'
<1>1. Keeps(terminal[r], Recorded(r))
  BY RecordedFacts DEF SnapInv, TypeInv, TypeOK, LocalInv, Claimed
<1>2. /\ terminal' = [terminal EXCEPT ![r] = Recorded(r)]
      /\ pc' = [pc EXCEPT ![r] = "releasing"]
      /\ active' = [active EXCEPT ![r] = NoLease]
      /\ UNCHANGED <<now, storedCursor, storedActive, storedTerminal, turn,
                     cursor, wire, wireActive, wireTerminal>>
  BY DEF BeginRelease, Phase, Goto, store
<1> HIDE DEF Recorded
<1>3. DOMAIN pc = Request /\ terminal \in [Request -> Seq(Turn)] /\ active \in [Request -> Lease]
  BY DEF SnapInv, TypeInv, TypeOK, Before, Cleaning, Over
<1>4. KnownInv'
  BY <1>1, <1>2, <1>3 DEF SnapInv, KnownInv, Current, Yields, Writing, Claimed
<1>5. WireInv'
  BY <1>1, <1>2, <1>3 DEF SnapInv, WireInv, Current, Yields, Claimed
<1> QED
  BY <1>4, <1>5

LEMMA KnownStep == SnapInv /\ [Next]_vars => KnownInv'
<1> SUFFICES ASSUME SnapInv, [Next]_vars PROVE KnownInv'
  OBVIOUS
<1>0. CASE UNCHANGED vars
  BY <1>0 DEF vars, store, session, queue, model, cost, request, SnapInv, CursorInv, KnownInv,
     Current, Yields
<1>1. ASSUME Tick PROVE KnownInv'
  BY <1>1, LeaseFacts DEF Tick, store, session, queue, model, cost, request, SnapInv, CursorInv,
     TypeInv, TypeOK, KnownInv, Current, Yields
<1>2. ASSUME NEW r \in Request, Receive(r) PROVE KnownInv'
  BY <1>2 DEF Receive, Goto, store, session, queue, model, cost, SnapInv, CursorInv, KnownInv,
     Writing, Claimed, Current, Yields
<1>3. ASSUME NEW r \in Request, ReadSession(r) PROVE KnownInv'
  BY <1>3 DEF ReadSession, Goto, store, queue, model, cost, SnapInv, CursorInv, TypeInv, TypeOK,
     KnownInv, Writing, Claimed, Current, Yields
<1>4. ASSUME NEW r \in Request, Refuse(r) PROVE KnownInv'
  BY <1>4 DEF Refuse, Goto, store, session, queue, model, cost, SnapInv, CursorInv, KnownInv,
     Writing, Claimed, Current, Yields
<1>5. ASSUME NEW r \in Request, ClaimTurn(r) PROVE KnownInv'
  BY <1>5, LeaseFacts, KeepsItself, SMTT(20) DEF ClaimTurn, Busy, Goto, store, model, cost, SnapInv,
     CursorInv, TypeInv, TypeOK, KnownInv, Writing, Claimed, Current, Yields, Before
<1>6. ASSUME NEW r \in Request, StartSave(r) PROVE KnownInv'
  BY <1>6 DEF StartSave, store, session, model, cost, request, SnapInv, CursorInv, KnownInv,
     Current, Yields
<1>7. ASSUME NEW r \in Request, SkipSave(r) PROVE KnownInv'
  BY <1>7 DEF SkipSave, store, session, model, cost, request, SnapInv, CursorInv, KnownInv,
     Current, Yields
<1>8. ASSUME NEW r \in Request, StoreSave(r) PROVE KnownInv'
  BY <1>8 DEF StoreSave, CursorMatches, session, store, model, cost, request, SnapInv,
     CursorInv, TypeInv, TypeOK, KnownInv, Current, Yields
<1>9. ASSUME NEW r \in Request, LoseSave(r) PROVE KnownInv'
  BY <1>9 DEF LoseSave, store, session, model, cost, request, SnapInv, CursorInv, KnownInv,
     Current, Yields
<1>10. ASSUME NEW r \in Request, ClaimSaved(r) PROVE KnownInv'
  <2>1. \E answer \in {"stored", "failed"} : Unlink(r, answer)
    BY <1>10 DEF ClaimSaved
  <2>2. \E place \in {"reserving", "loading"} : pc' = [pc EXCEPT ![r] = place]
    BY <1>10 DEF ClaimSaved, Goto
  <2>3. {"reserving", "loading"} \subseteq Claimed /\ pc[r] \in Claimed
    BY <1>10 DEF ClaimSaved, HeadIs, Waited, WaitOf, Claimed
  <2> QED
    BY <2>1, <2>2, <2>3, UnlinkKnown
<1>11. ASSUME NEW r \in Request, ClaimFailed(r) PROVE KnownInv'
  BY <1>11 DEF ClaimFailed, HeadIs, Unlink, Goto, store, model, SnapInv, CursorInv, KnownInv,
     Writing, Claimed, Current, Yields
<1>12. ASSUME NEW r \in Request, SnapshotSaved(r) PROVE KnownInv'
  <2>1. \E answer \in {"stored", "failed"} : Unlink(r, answer)
    BY <1>12 DEF SnapshotSaved
  <2>2. pc' = [pc EXCEPT ![r] = pc[r]]
    BY <1>12 DEF SnapshotSaved, SnapInv, TypeInv, TypeOK
  <2> QED
    BY <2>1, <2>2, UnlinkKnown
<1>13. ASSUME NEW r \in Request, SnapshotFailed(r) PROVE KnownInv'
  BY <1>13 DEF SnapshotFailed, EnterCleanup, Closed, HeadIs, Unlink, Phase, Goto, store,
     model, SnapInv, CursorInv,
     TypeInv, TypeOK, KnownInv, Writing, Claimed, Current, Yields, Cleaning, Over, Waited,
     WaitOf
<1>14. ASSUME NEW r \in Request, Released(r) PROVE KnownInv'
  BY <1>14 DEF Released, Ended, HeadIs, Unlink, Goto, store, model, SnapInv, CursorInv, TypeInv,
     TypeOK, KnownInv, Writing, Claimed, Current, Yields
<1>15. ASSUME NEW r \in Request, LateAnswer(r) PROVE KnownInv'
  <2>1. \E answer \in {"stored", "failed"} : Unlink(r, answer)
    BY <1>15 DEF LateAnswer
  <2>2. pc' = [pc EXCEPT ![r] = pc[r]]
    BY <1>15 DEF LateAnswer, SnapInv, TypeInv, TypeOK
  <2> QED
    BY <2>1, <2>2, UnlinkKnown
<1>16. ASSUME NEW r \in Request, CostLands(r) PROVE KnownInv'
  BY <1>16 DEF CostLands, store, session, queue, model, request, SnapInv, CursorInv, KnownInv,
     Current, Yields
<1>17. ASSUME NEW r \in Request, ReserveAnswered(r) PROVE KnownInv'
  <2>1. CASE BeginRelease(r)
    BY <1>17, <2>1, ReleaseKnown DEF ReserveAnswered, Claimed, store
  <2>2. CASE Goto(r, "loading") /\ UNCHANGED <<timer, session, queue>>
    BY <1>17, <2>2 DEF ReserveAnswered, Goto, store, session, queue, SnapInv, CursorInv,
       KnownInv, Writing, Claimed, Current, Yields
  <2> QED
    BY <1>17, <2>1, <2>2 DEF ReserveAnswered
<1>18. ASSUME NEW r \in Request, UndoAnswered(r) PROVE KnownInv'
  BY <1>18, ReleaseKnown DEF UndoAnswered, Claimed, store
<1>19. ASSUME NEW r \in Request, LateCost(r) PROVE KnownInv'
  BY <1>19 DEF LateCost, store, session, queue, model, request, SnapInv, CursorInv, KnownInv,
     Current, Yields
<1>20. ASSUME NEW r \in Request, MemoryLoaded(r) PROVE KnownInv'
  BY <1>20 DEF MemoryLoaded, Goto, store, session, queue, model, cost, SnapInv, CursorInv,
     KnownInv, Writing, Claimed, Current, Yields
<1>21. ASSUME NEW r \in Request, MemoryFails(r) PROVE KnownInv'
  <2>1. CASE BeginRelease(r)
    BY <1>21, <2>1, ReleaseKnown DEF MemoryFails, Claimed, store
  <2>2. CASE Goto(r, "undoing") /\ UNCHANGED <<timer, session, queue, hold>>
    BY <1>21, <2>2 DEF MemoryFails, Goto, store, session, queue, SnapInv, CursorInv, KnownInv,
       Writing, Claimed, Current, Yields
  <2> QED
    BY <1>21, <2>1, <2>2 DEF MemoryFails, Undo
<1>22. ASSUME NEW r \in Request, Dispatch(r) PROVE KnownInv'
  BY <1>22 DEF Dispatch, store, session, queue, cost, request, SnapInv, CursorInv, KnownInv,
     Current, Yields
<1>23. ASSUME NEW r \in Request, SendEnds(r) PROVE KnownInv'
  BY <1>23 DEF SendEnds, store, session, queue, cost, request, SnapInv, CursorInv, KnownInv,
     Current, Yields
<1>24. ASSUME NEW r \in Request, PersistSnapshot(r) PROVE KnownInv'
  BY <1>24 DEF PersistSnapshot, store, session, model, cost, request, SnapInv, CursorInv,
     KnownInv, Current, Yields
<1>25. ASSUME NEW r \in Request, Enters(r) PROVE KnownInv'
  <2>1. CASE UNCHANGED <<pc, timer>>
    BY <1>25, <2>1, EnterEffect DEF store, session, queue, model, cost, request, SnapInv,
       CursorInv, KnownInv, Current, Yields
  <2>2. CASE /\ pc[r] = "streaming" /\ pc' = [pc EXCEPT ![r] = "settling"]
             /\ timer' = [timer EXCEPT ![r] = now + CleanupTimeout]
    BY <1>25, <2>2, EnterEffect DEF store, session, queue, model, cost, SnapInv, CursorInv,
       KnownInv, Writing, Claimed, Current, Yields
  <2> QED
    BY <1>25, <2>1, <2>2, EnterEffect, CleanupEffect DEF SnapInv
<1>26. ASSUME NEW r \in Request, Abort(r) PROVE KnownInv'
  <2>1. CASE pc[r] \in Claimed \ {"claiming"} /\ BeginRelease(r)
    BY <1>26, <2>1, ReleaseKnown DEF Abort, store
  <2>2. CASE /\ UNCHANGED <<session, queue>>
             /\ \/ pc[r] \in {"resuming", "resumed", "claiming"} /\ Goto(r, "done")
                \/ pc[r] = "loading" /\ Goto(r, "undoing")
                \/ pc[r] = "streaming" /\ Goto(r, "settling")
    BY <1>26, <2>2 DEF Abort, Goto, store, session, queue, SnapInv, CursorInv, TypeInv, TypeOK,
       KnownInv, Writing, Claimed, Current, Yields
  <2> QED
    BY <1>26, <2>1, <2>2 DEF Abort, Undo, EnterCleanup, Closed, Phase, Claimed
<1>27. ASSUME NEW r \in Request, Settled(r) PROVE KnownInv'
  BY <1>27 DEF Settled, Phase, Goto, store, session, queue, model, SnapInv, CursorInv, TypeInv,
     TypeOK, KnownInv, Writing, Claimed, Current, Yields
<1>28. ASSUME NEW r \in Request, CostSettled(r) PROVE KnownInv'
  BY <1>28 DEF CostSettled, Phase, Goto, store, session, queue, model, SnapInv, CursorInv,
     KnownInv, Writing, Claimed, Current, Yields
<1>29. ASSUME NEW r \in Request, MemorySaved(r) PROVE KnownInv'
  BY <1>29, ReleaseKnown DEF MemorySaved, Claimed, store
<1>30. ASSUME NEW r \in Request, ReleaseTimesOut(r) PROVE KnownInv'
  BY <1>30 DEF ReleaseTimesOut, Ended, Goto, store, session, queue, model, cost, SnapInv,
     CursorInv,
     KnownInv, Writing, Claimed, Current, Yields
<1>31. ASSUME NEW r \in Request, Crash(r) PROVE KnownInv'
  BY <1>31 DEF Crash, Goto, store, session, model, cost, SnapInv, CursorInv, KnownInv, Writing,
     Claimed, Current, Yields
<1>32. ASSUME NEW r \in Request, Admit(r) PROVE KnownInv'
  BY <1>32, <1>2, <1>3, <1>4, <1>5 DEF Admit
<1>33. ASSUME NEW r \in Request, Persist(r) PROVE KnownInv'
  BY <1>33, <1>6, <1>7, <1>8, <1>9, <1>10, <1>11, <1>12, <1>13, <1>14, <1>15 DEF Persist
<1>34. ASSUME NEW r \in Request, Meter(r) PROVE KnownInv'
  BY <1>34, <1>16, <1>17, <1>18, <1>19 DEF Meter
<1>35. ASSUME NEW r \in Request, Stream(r) PROVE KnownInv'
  BY <1>35, <1>20, <1>21, <1>22, <1>23, <1>24, <1>25 DEF Stream, Enters
<1>36. ASSUME NEW r \in Request, End(r) PROVE KnownInv'
  BY <1>36, <1>26, <1>27, <1>28, <1>29, <1>30, <1>31 DEF End
<1> QED
  BY <1>0, <1>1, <1>32, <1>33, <1>34, <1>35, <1>36 DEF Next

LEMMA WireStep == SnapInv /\ [Next]_vars => WireInv'
<1> SUFFICES ASSUME SnapInv, [Next]_vars PROVE WireInv'
  OBVIOUS
<1>0. CASE UNCHANGED vars
  BY <1>0, KeepsItself, LeaseFacts DEF vars, store, session, queue, model, cost, request,
     SnapInv, CursorInv, TypeInv, WireInv, Current, Yields
<1>1. ASSUME Tick PROVE WireInv'
  BY <1>1, KeepsItself, LeaseFacts DEF Tick, store, session, queue, model, cost, request,
     SnapInv, CursorInv, TypeInv, TypeOK, WireInv, Current, Yields
<1>2. ASSUME NEW r \in Request, Receive(r) PROVE WireInv'
  BY <1>2, KeepsItself, LeaseFacts DEF Receive, Goto, store, session, queue, model, cost,
     SnapInv, CursorInv, TypeInv, TypeOK, KnownInv, WireInv, Writing, Current, Yields
<1>3. ASSUME NEW r \in Request, ReadSession(r) PROVE WireInv'
  BY <1>3, KeepsItself, LeaseFacts DEF ReadSession, Goto, store, queue, model, cost, SnapInv,
     CursorInv, TypeInv, TypeOK, WireInv, Current, Yields
<1>4. ASSUME NEW r \in Request, Refuse(r) PROVE WireInv'
  BY <1>4, KeepsItself, LeaseFacts DEF Refuse, Goto, store, session, queue, model, cost,
     SnapInv, CursorInv, TypeInv, WireInv, Current, Yields
<1>5. ASSUME NEW r \in Request, ClaimTurn(r) PROVE WireInv'
  BY <1>5, KeepsItself, LeaseFacts, SMTT(20) DEF ClaimTurn, Busy, Goto, store, model, cost, SnapInv,
     CursorInv, TypeInv, TypeOK, KnownInv, LeaseInv, WireInv, Writing, Claimed, Current, Yields,
     Before, Waited, WaitOf
<1>6. ASSUME NEW r \in Request, StartSave(r) PROVE WireInv'
  BY <1>6, KeepsItself, LeaseFacts DEF StartSave, store, session, model, cost, request, SnapInv,
     CursorInv, TypeInv, TypeOK, KnownInv, LeaseInv, WireInv, Writing, Claimed, Current, Yields,
     Before, Waited, WaitOf
<1>7. ASSUME NEW r \in Request, SkipSave(r) PROVE WireInv'
  BY <1>7, KeepsItself, LeaseFacts DEF SkipSave, store, session, model, cost, request, SnapInv,
     CursorInv, TypeInv, TypeOK, WireInv, Current, Yields
<1>8. ASSUME NEW r \in Request, StoreSave(r) PROVE WireInv'
  <2>1. /\ UNCHANGED <<now, cursor, active, terminal, turn, pc, wireActive, wireTerminal>>
        /\ wire[r] = "sent" /\ \A q \in Request \ {r} : wire'[q] = wire[q]
    BY <1>8 DEF StoreSave, session, request, SnapInv, TypeInv, TypeOK
  <2>2. CASE ~CursorMatches(r)
    <3>1. /\ UNCHANGED <<storedCursor, storedActive, storedTerminal>>
          /\ wire'[r] \in {"none", "failed"}
      BY <1>8, <2>2 DEF StoreSave, store, SnapInv, TypeInv, TypeOK
    <3> QED
      BY <2>1, <3>1 DEF SnapInv, WireInv, Current, Yields
  <2>3. CASE CursorMatches(r)
    <3>1. /\ storedCursor' = storedCursor + 1 /\ wire'[r] \in {"none", "stored"}
          /\ storedActive' = wireActive[r] /\ storedTerminal' = wireTerminal[r]
      BY <1>8, <2>3 DEF StoreSave, CursorMatches, SnapInv, TypeInv, TypeOK
    <3>2. /\ storedCursor \in Nat /\ \A q \in Request : cursor[q] \in Nat
      BY DEF SnapInv, TypeInv, TypeOK
    <3>3. \A q \in Request : wire'[q] = "sent" => ~Current(q)'
      BY <2>1, <3>1, <3>2 DEF SnapInv, CursorInv, Current
    <3>4. \A q \in Request : wire'[q] = "stored" /\ cursor[q] + 1 = storedCursor' => q = r
      BY <2>1, <3>1, <3>2 DEF SnapInv, CursorInv
    <3> QED
      BY <2>1, <3>1, <3>3, <3>4 DEF SnapInv, WireInv
  <2> QED
    BY <2>2, <2>3
<1>9. ASSUME NEW r \in Request, LoseSave(r) PROVE WireInv'
  BY <1>9, KeepsItself, LeaseFacts DEF LoseSave, store, session, model, cost, request, SnapInv,
     CursorInv, TypeInv, TypeOK, WireInv, Current, Yields
<1>10. ASSUME NEW r \in Request, ClaimSaved(r) PROVE WireInv'
  BY <1>10, KeepsItself, LeaseFacts DEF ClaimSaved, HeadIs, Unlink, Goto, store, model, SnapInv,
     CursorInv, TypeInv, TypeOK, KnownInv, LeaseInv, WireInv, Writing, Claimed, Current, Yields,
     Before, Waited, WaitOf
<1>11. ASSUME NEW r \in Request, ClaimFailed(r) PROVE WireInv'
  BY <1>11, KeepsItself, LeaseFacts DEF ClaimFailed, HeadIs, Unlink, Goto, store, model,
     SnapInv, CursorInv, TypeInv, TypeOK, WireInv, Current, Yields
<1>12. ASSUME NEW r \in Request, SnapshotSaved(r) PROVE WireInv'
  BY <1>12, KeepsItself, LeaseFacts DEF SnapshotSaved, HeadIs, Unlink, store, model, SnapInv,
     CursorInv, TypeInv, TypeOK, KnownInv, LeaseInv, WireInv, Writing, Claimed, Current, Yields,
     Before, Waited, WaitOf
<1>13. ASSUME NEW r \in Request, SnapshotFailed(r) PROVE WireInv'
  <2>1. /\ pc[r] = "streaming" /\ pc' = [pc EXCEPT ![r] = "settling"]
        /\ timer' = [timer EXCEPT ![r] = now + CleanupTimeout]
    BY <1>13, SnapshotEffect DEF SnapInv
  <2> QED
    BY <1>13, <2>1, KeepsItself, LeaseFacts DEF SnapshotFailed, Unlink, store, model, SnapInv,
       CursorInv, TypeInv, WireInv, Current, Yields
<1>14. ASSUME NEW r \in Request, Released(r) PROVE WireInv'
  BY <1>14, KeepsItself, LeaseFacts DEF Released, Ended, HeadIs, Unlink, Goto, store, model,
     SnapInv,
     CursorInv, TypeInv, TypeOK, WireInv, Current, Yields
<1>15. ASSUME NEW r \in Request, LateAnswer(r) PROVE WireInv'
  BY <1>15, KeepsItself, LeaseFacts, SMTT(20) DEF LateAnswer, Unlink, store, model, SnapInv,
     CursorInv,
     TypeInv, TypeOK, KnownInv, LeaseInv, WireInv, Writing, Current, Yields, Before, Cleaning,
     Over, Waited
<1>16. ASSUME NEW r \in Request, CostLands(r) PROVE WireInv'
  BY <1>16, KeepsItself, LeaseFacts DEF CostLands, store, session, queue, model, request,
     SnapInv, CursorInv, TypeInv, TypeOK, WireInv, Current, Yields
<1>17. ASSUME NEW r \in Request, ReserveAnswered(r) PROVE WireInv'
  <2>1. CASE BeginRelease(r)
    BY <1>17, <2>1, ReleaseKnown DEF ReserveAnswered, Claimed, store
  <2>2. CASE Goto(r, "loading") /\ UNCHANGED <<timer, session, queue>>
    BY <1>17, <2>2 DEF ReserveAnswered, Goto, store, session, queue, SnapInv, CursorInv,
       WireInv, Writing, Claimed, Current, Yields
  <2> QED
    BY <1>17, <2>1, <2>2 DEF ReserveAnswered
<1>18. ASSUME NEW r \in Request, UndoAnswered(r) PROVE WireInv'
  BY <1>18, ReleaseKnown DEF UndoAnswered, Claimed, store
<1>19. ASSUME NEW r \in Request, LateCost(r) PROVE WireInv'
  BY <1>19, KeepsItself, LeaseFacts DEF LateCost, store, session, queue, model, request,
     SnapInv, CursorInv, TypeInv, TypeOK, WireInv, Current, Yields
<1>20. ASSUME NEW r \in Request, MemoryLoaded(r) PROVE WireInv'
  BY <1>20, KeepsItself, LeaseFacts DEF MemoryLoaded, Goto, store, session, queue, model, cost,
     SnapInv, CursorInv, TypeInv, TypeOK, KnownInv, WireInv, Claimed, Current, Yields
<1>21. ASSUME NEW r \in Request, MemoryFails(r) PROVE WireInv'
  <2>1. CASE BeginRelease(r)
    BY <1>21, <2>1, ReleaseKnown DEF MemoryFails, Claimed, store
  <2>2. CASE Goto(r, "undoing") /\ UNCHANGED <<timer, session, queue, hold>>
    BY <1>21, <2>2 DEF MemoryFails, Goto, store, session, queue, SnapInv, CursorInv, WireInv,
       Writing, Claimed, Current, Yields
  <2> QED
    BY <1>21, <2>1, <2>2 DEF MemoryFails, Undo
<1>22. ASSUME NEW r \in Request, Dispatch(r) PROVE WireInv'
  BY <1>22, KeepsItself, LeaseFacts DEF Dispatch, store, session, queue, cost, request, SnapInv,
     CursorInv, TypeInv, TypeOK, WireInv, Current, Yields
<1>23. ASSUME NEW r \in Request, SendEnds(r) PROVE WireInv'
  BY <1>23, KeepsItself, LeaseFacts DEF SendEnds, store, session, queue, cost, request, SnapInv,
     CursorInv, TypeInv, TypeOK, WireInv, Current, Yields
<1>24. ASSUME NEW r \in Request, PersistSnapshot(r) PROVE WireInv'
  BY <1>24, KeepsItself, LeaseFacts DEF PersistSnapshot, store, session, model, cost, request,
     SnapInv, CursorInv, TypeInv, TypeOK, WireInv, Current, Yields
<1>25. ASSUME NEW r \in Request, Enters(r) PROVE WireInv'
  <2>1. CASE UNCHANGED <<pc, timer>>
    BY <1>25, <2>1, EnterEffect, KeepsItself, LeaseFacts DEF store, session, queue, model,
       cost, request, SnapInv, CursorInv, TypeInv, WireInv, Current, Yields
  <2>2. CASE /\ pc[r] = "streaming" /\ pc' = [pc EXCEPT ![r] = "settling"]
             /\ timer' = [timer EXCEPT ![r] = now + CleanupTimeout]
    <3>1. /\ pc \in [Request -> Before \union Cleaning \union Over \union {"idle", "undoing"}]
          /\ UNCHANGED <<now, storedCursor, storedActive, storedTerminal, cursor, active,
                         terminal, wire, wireActive, wireTerminal, turn>>
      BY <1>25, EnterEffect DEF SnapInv, TypeInv, TypeOK, store, session, queue
    <3>2. ASSUME NEW s \in Request
          PROVE  /\ pc'[s] \in Claimed => pc[s] \in Claimed
                 /\ pc'[s] \in Writing => pc[s] \in Writing
      BY <2>2, <3>1 DEF Claimed, Writing
    <3>3. WireInv
      BY DEF SnapInv
    <3> QED
      BY <3>1, <3>2, <3>3 DEF WireInv, Current, Yields
  <2> QED
    BY <1>25, <2>1, <2>2, EnterEffect, CleanupEffect DEF SnapInv
<1>26. ASSUME NEW r \in Request, Abort(r) PROVE WireInv'
  <2>1. CASE pc[r] \in Claimed \ {"claiming"} /\ BeginRelease(r)
    BY <1>26, <2>1, ReleaseKnown DEF Abort, store
  <2>2. CASE /\ UNCHANGED <<session, queue>>
             /\ \/ pc[r] \in {"resuming", "resumed", "claiming"} /\ Goto(r, "done")
                \/ pc[r] = "loading" /\ Goto(r, "undoing")
                \/ pc[r] = "streaming" /\ Goto(r, "settling")
    BY <1>26, <2>2 DEF Abort, Goto, store, session, queue, SnapInv, CursorInv, TypeInv, TypeOK,
       WireInv, Writing, Claimed, Current, Yields
  <2> QED
    BY <1>26, <2>1, <2>2 DEF Abort, Undo, EnterCleanup, Closed, Phase, Claimed
<1>27. ASSUME NEW r \in Request, Settled(r) PROVE WireInv'
  BY <1>27, KeepsItself, LeaseFacts DEF Settled, Phase, Goto, store, session, queue, model,
     SnapInv, CursorInv, TypeInv, TypeOK, KnownInv, WireInv, Writing, Claimed, Current, Yields
<1>28. ASSUME NEW r \in Request, CostSettled(r) PROVE WireInv'
  BY <1>28, KeepsItself, LeaseFacts DEF CostSettled, Phase, Goto, store, session, queue, model,
     SnapInv, CursorInv, TypeInv, TypeOK, KnownInv, WireInv, Claimed, Current, Yields
<1>29. ASSUME NEW r \in Request, MemorySaved(r) PROVE WireInv'
  BY <1>29, ReleaseKnown DEF MemorySaved, Claimed, store
<1>30. ASSUME NEW r \in Request, ReleaseTimesOut(r) PROVE WireInv'
  BY <1>30, KeepsItself, LeaseFacts DEF ReleaseTimesOut, Ended, Goto, store, session, queue,
     model,
     cost, SnapInv, CursorInv, TypeInv, TypeOK, KnownInv, WireInv, Writing, Claimed, Current,
     Yields
<1>31. ASSUME NEW r \in Request, Crash(r) PROVE WireInv'
  BY <1>31, KeepsItself, LeaseFacts DEF Crash, Goto, store, session, model, cost, SnapInv,
     CursorInv, TypeInv, TypeOK, WireInv, Writing, Claimed, Current, Yields
<1>32. ASSUME NEW r \in Request, Admit(r) PROVE WireInv'
  BY <1>32, <1>2, <1>3, <1>4, <1>5 DEF Admit
<1>33. ASSUME NEW r \in Request, Persist(r) PROVE WireInv'
  BY <1>33, <1>6, <1>7, <1>8, <1>9, <1>10, <1>11, <1>12, <1>13, <1>14, <1>15 DEF Persist
<1>34. ASSUME NEW r \in Request, Meter(r) PROVE WireInv'
  BY <1>34, <1>16, <1>17, <1>18, <1>19 DEF Meter
<1>35. ASSUME NEW r \in Request, Stream(r) PROVE WireInv'
  BY <1>35, <1>20, <1>21, <1>22, <1>23, <1>24, <1>25 DEF Stream, Enters
<1>36. ASSUME NEW r \in Request, End(r) PROVE WireInv'
  BY <1>36, <1>26, <1>27, <1>28, <1>29, <1>30, <1>31 DEF End
<1> QED
  BY <1>0, <1>1, <1>32, <1>33, <1>34, <1>35, <1>36 DEF Next

LEMMA SnapStep == SnapInv /\ [Next]_vars => SnapInv'
  BY TypeStep, CursorStep, KnownStep, LeaseStep, WireStep DEF SnapInv

LEMMA InitSnap == Init => SnapInv
<1> SUFFICES ASSUME Init PROVE SnapInv
  OBVIOUS
<1>1. TypeInv
  BY InitTypes
<1> QED
  BY <1>1 DEF Init, SnapInv, CursorInv, KnownInv, LeaseInv, WireInv, Writing, Claimed

\* Only a save that the storage accepts changes the snapshot it keeps.
LEMMA OnlySavesWrite ==
    ASSUME [Next]_vars, store' # store
    PROVE  \E r \in Request : StoreSave(r) /\ CursorMatches(r)
  BY DEF Next, vars, Tick, Admit, Persist, Meter, Stream, End, Receive, ReadSession, Refuse,
         ClaimTurn, StartSave, SkipSave, StoreSave, LoseSave, ClaimSaved, ClaimFailed,
         SnapshotSaved, SnapshotFailed, Released, LateAnswer, Unlink, CostLands,
         ReserveAnswered, UndoAnswered, LateCost, MemoryLoaded, MemoryFails, Dispatch,
         SendEnds, PersistSnapshot, Finish, Cancel, PullAborted, Abort, Settled, CostSettled,
         MemorySaved, ReleaseTimesOut, Crash

\* No save rolls the terminal turns back: only the window lets the oldest go.
THEOREM TerminalNotRolledBack == Spec => TerminalKept
<1>1. ASSUME SnapInv, [Next]_vars
      PROVE  [\A t \in ToSet(storedTerminal) :
                \/ t \in ToSet(storedTerminal')
                \/ Len(storedTerminal) = Window /\ t = Head(storedTerminal)]_vars
  <2>1. CASE store' = store
    BY <2>1 DEF store
  <2>2. CASE store' # store
    <3>1. PICK r \in Request : StoreSave(r) /\ CursorMatches(r)
      BY <1>1, <2>2, OnlySavesWrite
    <3>2. storedTerminal' = wireTerminal[r] /\ wire[r] = "sent" /\ Current(r)
      BY <3>1 DEF StoreSave, CursorMatches, Current
    <3> QED
      BY <1>1, <3>2 DEF SnapInv, WireInv, Keeps
  <2> QED
    BY <2>1, <2>2
<1> QED
  BY InitSnap, SnapStep, <1>1, PTL DEF Spec, TerminalKept

\* A live lease is replaced or removed only by a save for its turn.
THEOREM LiveLeaseKept == Spec => LeaseTakenByItsTurn
<1> DEFINE Taken == storedActive.expires > now /\ storedActive' # storedActive =>
                      \E r \in Request :
                         turn[r] = storedActive.turn /\ wire[r] = "sent" /\ wire'[r] # "sent"
<1>1. ASSUME SnapInv, [Next]_vars PROVE [Taken]_vars
  <2>1. CASE store' = store
    BY <2>1 DEF store
  <2>2. CASE store' # store
    <3>1. PICK r \in Request : StoreSave(r) /\ CursorMatches(r)
      BY <1>1, <2>2, OnlySavesWrite
    <3>2. wire[r] = "sent" /\ Current(r) /\ wire'[r] # "sent"
      BY <1>1, <3>1 DEF StoreSave, CursorMatches, Current, SnapInv, TypeInv, TypeOK
    <3>3. Yields(r)
      BY <1>1, <3>2 DEF SnapInv, WireInv
    <3>4. storedActive.expires \in Nat /\ now \in Nat
      BY <1>1, LeaseFacts DEF SnapInv, TypeInv, TypeOK
    <3> QED
      BY <3>2, <3>3, <3>4 DEF Yields
  <2> QED
    BY <2>1, <2>2
<1> QED
  BY InitSnap, SnapStep, <1>1, PTL DEF Spec, LeaseTakenByItsTurn

-----------------------------------------------------------------------------
(* Time: the lease outlasts the request, and a cleanup without a cost policy *)

TimeInv ==
    \A r \in Request :
        /\ born[r] <= now
        /\ pc[r] \in Before => now <= born[r] + Timeout
        /\ pc[r] = "settling" =>
              now <= timer[r] /\ timer[r] <= born[r] + Timeout + CleanupTimeout
        /\ pc[r] = "saving" /\ ~Metered =>
              now <= timer[r] /\ timer[r] <= born[r] + Timeout + 2 * CleanupTimeout
        /\ pc[r] \in {"reserving", "undoing", "costing"} => Metered
        /\ pc[r] \in Claimed => active[r].expires >= born[r] + LeaseMs

\* A session that waits for its claim has nothing else in its chain.
LinksInv ==
    \A r \in Request :
        /\ pc[r] \in {"idle", "resuming", "resumed"} => links[r] = <<>>
        /\ pc[r] = "claiming" => links[r] # <<>> /\ Head(links[r]) = "claim"

LEMMA TimeStep == TypeInv /\ TimeInv /\ [Next]_vars => TimeInv'
<1> SUFFICES ASSUME TypeInv /\ TimeInv, [Next]_vars PROVE TimeInv'
  OBVIOUS
<1>0. CASE UNCHANGED vars
  BY <1>0, TimeAssumption DEF vars, store, session, request, TimeInv
<1>1. ASSUME Tick PROVE TimeInv'
  BY <1>1, TimeAssumption DEF Tick, store, session, queue, model, cost, request, TypeInv,
     TypeOK, TimeInv, Cleaning, Due
<1>2. ASSUME NEW r \in Request, Receive(r) PROVE TimeInv'
  BY <1>2, TimeAssumption DEF Receive, Goto, store, session, queue, model, cost, TypeInv,
     TypeOK, TimeInv, Claimed
<1>3. ASSUME NEW r \in Request, ReadSession(r) PROVE TimeInv'
  BY <1>3, TimeAssumption DEF ReadSession, Goto, TimeInv, Before, Cleaning, Claimed
<1>4. ASSUME NEW r \in Request, Refuse(r) PROVE TimeInv'
  BY <1>4, TimeAssumption DEF Refuse, Goto, store, session, TimeInv, Before, Claimed
<1>5. ASSUME NEW r \in Request, ClaimTurn(r) PROVE TimeInv'
  BY <1>5, TimeAssumption DEF ClaimTurn, Busy, Goto, store, model, cost, TypeInv, TypeOK,
     TimeInv, Before, Cleaning, Over, Claimed, LeaseMs, Due, Waited, WaitOf
<1>6. ASSUME NEW r \in Request, StartSave(r) PROVE TimeInv'
  BY <1>6, TimeAssumption DEF StartSave, store, session, model, request, TimeInv
<1>7. ASSUME NEW r \in Request, SkipSave(r) PROVE TimeInv'
  BY <1>7, TimeAssumption DEF SkipSave, store, session, model, request, TimeInv
<1>8. ASSUME NEW r \in Request, StoreSave(r) PROVE TimeInv'
  BY <1>8, TimeAssumption DEF StoreSave, CursorMatches, session, request, TimeInv
<1>9. ASSUME NEW r \in Request, LoseSave(r) PROVE TimeInv'
  BY <1>9, TimeAssumption DEF LoseSave, store, session, model, request, TimeInv
<1>10. ASSUME NEW r \in Request, ClaimSaved(r) PROVE TimeInv'
  <2>1. /\ pc[r] = "claiming" /\ UNCHANGED <<now, born, timer, active>>
        /\ \/ pc' = [pc EXCEPT ![r] = "reserving"] /\ Metered
           \/ pc' = [pc EXCEPT ![r] = "loading"]
    BY <1>10 DEF ClaimSaved, HeadIs, Unlink, Goto, Waited, WaitOf
  <2> QED
    BY <2>1 DEF TypeInv, TypeOK, TimeInv, Before, Claimed
<1>11. ASSUME NEW r \in Request, ClaimFailed(r) PROVE TimeInv'
  BY <1>11, TimeAssumption DEF ClaimFailed, HeadIs, Unlink, Goto, store, TimeInv, Before,
     Claimed
<1>12. ASSUME NEW r \in Request, SnapshotSaved(r) PROVE TimeInv'
  BY <1>12, TimeAssumption DEF SnapshotSaved, Unlink, TimeInv
<1>13. ASSUME NEW r \in Request, SnapshotFailed(r) PROVE TimeInv'
  <2>1. Unlink(r, "failed") /\ Phase(r, "settling") /\ pc[r] = "streaming"
    BY <1>13 DEF SnapshotFailed, EnterCleanup, Closed, HeadIs, Waited, WaitOf
  <2>2. now \in Nat /\ \A q \in Request : born[q] \in Nat
    BY DEF TypeInv, TypeOK
  <2>3. /\ UNCHANGED <<now, born, active>> /\ pc'[r] = "settling"
        /\ timer'[r] = now + CleanupTimeout
        /\ \A q \in Request \ {r} : pc'[q] = pc[q] /\ timer'[q] = timer[q]
    BY <2>1, UnlinkEffect, PhaseEffect
  <2>4. now <= timer'[r] /\ timer'[r] <= born[r] + Timeout + CleanupTimeout
    BY <2>1, <2>2, <2>3, TimeAssumption DEF TimeInv, Before
  <2> QED
    BY <2>1, <2>3, <2>4 DEF TimeInv, Before, Claimed
<1>14. ASSUME NEW r \in Request, Released(r) PROVE TimeInv'
  BY <1>14 DEF Released, Ended, Unlink, Goto, TypeInv, TypeOK, TimeInv, Before, Claimed
<1>15. ASSUME NEW r \in Request, LateAnswer(r) PROVE TimeInv'
  BY <1>15 DEF LateAnswer, Unlink, TimeInv
<1>16. ASSUME NEW r \in Request, CostLands(r) PROVE TimeInv'
  BY <1>16, TimeAssumption DEF CostLands, store, session, queue, request, TimeInv
<1>17. ASSUME NEW r \in Request, ReserveAnswered(r) PROVE TimeInv'
  BY <1>17, EarlyMoves DEF Moves, TimeInv, Before, Claimed
<1>18. ASSUME NEW r \in Request, UndoAnswered(r) PROVE TimeInv'
  BY <1>18, TimeAssumption DEF UndoAnswered, BeginRelease, Phase, Goto, store, model, TypeInv,
     TypeOK, TimeInv, Before, Claimed
<1>19. ASSUME NEW r \in Request, LateCost(r) PROVE TimeInv'
  BY <1>19, TimeAssumption DEF LateCost, store, session, queue, request, TimeInv
<1>20. ASSUME NEW r \in Request, MemoryLoaded(r) PROVE TimeInv'
  BY <1>20, TimeAssumption DEF MemoryLoaded, Goto, store, session, queue, model, cost, TypeInv,
     TypeOK, TimeInv, Before, Cleaning, Over, Claimed, LeaseMs, WaitOf
<1>21. ASSUME NEW r \in Request, MemoryFails(r) PROVE TimeInv'
  BY <1>21, EarlyMoves DEF Moves, TimeInv, Before, Claimed
<1>22. ASSUME NEW r \in Request, Dispatch(r) PROVE TimeInv'
  BY <1>22, TimeAssumption DEF Dispatch, store, session, queue, request, TimeInv
<1>23. ASSUME NEW r \in Request, SendEnds(r) PROVE TimeInv'
  BY <1>23, TimeAssumption DEF SendEnds, store, session, queue, request, TimeInv
<1>24. ASSUME NEW r \in Request, PersistSnapshot(r) PROVE TimeInv'
  BY <1>24, TimeAssumption DEF PersistSnapshot, store, session, model, request, TimeInv
<1>25. ASSUME NEW r \in Request, Enters(r) PROVE TimeInv'
  <2>1. CASE UNCHANGED <<pc, timer>>
    BY <1>25, <2>1, EnterEffect, TimeAssumption DEF store, session, request, TimeInv
  <2>2. CASE /\ pc[r] = "streaming" /\ pc' = [pc EXCEPT ![r] = "settling"]
             /\ timer' = [timer EXCEPT ![r] = now + CleanupTimeout]
    BY <1>25, <2>2, EnterEffect, TimeAssumption, SMTT(20) DEF store, session, queue, model, cost,
       TypeInv, TypeOK, TimeInv, Before, Cleaning, Claimed, WaitOf
  <2> QED
    BY <1>25, <2>1, <2>2, EnterEffect, CleanupEffect
<1>26. ASSUME NEW r \in Request, Abort(r) PROVE TimeInv'
  <2>1. CASE pc[r] = "streaming" /\ EnterCleanup(r) /\ UNCHANGED session
    <3>1. timer' = [timer EXCEPT ![r] = now + CleanupTimeout] /\ pc' = [pc EXCEPT ![r] = "settling"]
          /\ UNCHANGED <<now, born, active>>
      BY <1>26, <2>1, CleanupEffect DEF Abort, session
    <3> QED
      BY <2>1, <3>1, TimeAssumption DEF TypeInv, TypeOK, TimeInv, Before, Cleaning, Claimed
  <2>2. CASE /\ UNCHANGED <<now, born, timer, active>>
             /\ \/ pc' = [pc EXCEPT ![r] = "done"]
                \/ pc' = [pc EXCEPT ![r] = "undoing"] /\ pc[r] = "loading" /\ Metered
    BY <1>26, <2>2 DEF TypeInv, TypeOK, TimeInv, Before, Cleaning, Claimed
  <2>3. CASE pc' = [pc EXCEPT ![r] = "releasing"] /\ BeginRelease(r)
    BY <1>26, <2>3, TimeAssumption DEF Abort, BeginRelease, Phase, TypeInv, TypeOK, TimeInv,
       Before, Claimed
  <2> QED
    BY <1>26, <2>1, <2>2, <2>3 DEF Abort, Undo, BeginRelease, Phase, Goto, session
<1>27. ASSUME NEW r \in Request, Settled(r) PROVE TimeInv'
  <2>1. UNCHANGED <<now, born, active>> /\ timer' = [timer EXCEPT ![r] = now + CleanupTimeout]
        /\ pc[r] = "settling"
        /\ \/ Metered /\ pc' = [pc EXCEPT ![r] = "costing"]
           \/ ~Metered /\ pc' = [pc EXCEPT ![r] = "saving"]
    BY <1>27 DEF Settled, Phase, Goto, session
  <2>2. now <= born[r] + Timeout + CleanupTimeout /\ now \in Nat /\ born[r] \in Nat
    BY <2>1, TimeAssumption DEF TypeInv, TypeOK, TimeInv
  <2>3. CASE Metered
    BY <2>1, <2>3, TimeAssumption, SMTT(20) DEF TypeInv, TypeOK, TimeInv, Before, Cleaning,
       Over, Claimed,
       LeaseMs, Due, Waited, WaitOf
  <2>4. CASE ~Metered
    <3>1. /\ pc'[r] = "saving" /\ timer'[r] = now + CleanupTimeout /\ pc[r] = "settling"
          /\ \A s \in Request : s # r => pc'[s] = pc[s] /\ timer'[s] = timer[s]
      BY <2>1, <2>4 DEF TypeInv, TypeOK
    <3>2. now <= timer'[r] /\ timer'[r] <= born[r] + Timeout + 2 * CleanupTimeout
      BY <2>2, <3>1, TimeAssumption
    <3>3. ASSUME NEW s \in Request
          PROVE  pc'[s] = "saving" => now <= timer'[s] /\ timer'[s] <= born[s] + Timeout + 2 * CleanupTimeout
      BY <2>4, <3>1, <3>2 DEF TimeInv
    <3> QED
      BY <2>1, <2>4, <3>1, <3>3 DEF TimeInv, Before, Claimed
  <2> QED
    BY <2>3, <2>4
<1>28. ASSUME NEW r \in Request, CostSettled(r) PROVE TimeInv'
  BY <1>28, TimeAssumption DEF CostSettled, Phase, Goto, store, session, queue, TimeInv, Before,
     Claimed
<1>29. ASSUME NEW r \in Request, MemorySaved(r) PROVE TimeInv'
  BY <1>29, TimeAssumption DEF MemorySaved, BeginRelease, Phase, Goto, store, model, cost,
     TypeInv, TypeOK, TimeInv, Before, Claimed
<1>30. ASSUME NEW r \in Request, ReleaseTimesOut(r) PROVE TimeInv'
  BY <1>30, TimeAssumption DEF ReleaseTimesOut, Ended, Goto, store, session, TimeInv, Before,
     Claimed
<1>31. ASSUME NEW r \in Request, Crash(r) PROVE TimeInv'
  BY <1>31, TimeAssumption DEF Crash, Goto, store, session, model, TimeInv, Before, Claimed
<1>32. ASSUME NEW r \in Request, Admit(r) PROVE TimeInv'
  BY <1>32, <1>2, <1>3, <1>4, <1>5 DEF Admit
<1>33. ASSUME NEW r \in Request, Persist(r) PROVE TimeInv'
  BY <1>33, <1>6, <1>7, <1>8, <1>9, <1>10, <1>11, <1>12, <1>13, <1>14, <1>15 DEF Persist
<1>34. ASSUME NEW r \in Request, Meter(r) PROVE TimeInv'
  BY <1>34, <1>16, <1>17, <1>18, <1>19 DEF Meter
<1>35. ASSUME NEW r \in Request, Stream(r) PROVE TimeInv'
  BY <1>35, <1>20, <1>21, <1>22, <1>23, <1>24, <1>25 DEF Stream, Enters
<1>36. ASSUME NEW r \in Request, End(r) PROVE TimeInv'
  BY <1>36, <1>26, <1>27, <1>28, <1>29, <1>30, <1>31 DEF End
<1> QED
  BY <1>0, <1>1, <1>32, <1>33, <1>34, <1>35, <1>36 DEF Next

LEMMA LinksStep == TypeInv /\ LinksInv /\ [Next]_vars => LinksInv'
<1> SUFFICES ASSUME TypeInv /\ LinksInv, [Next]_vars PROVE LinksInv'
  OBVIOUS
<1>0. CASE UNCHANGED vars
  BY <1>0 DEF vars, store, queue, request, LinksInv
<1>1. ASSUME Tick PROVE LinksInv'
  BY <1>1 DEF Tick, store, queue, request, LinksInv
<1>2. ASSUME NEW r \in Request, Receive(r) PROVE LinksInv'
  BY <1>2 DEF Receive, Goto, queue, LinksInv
<1>3. ASSUME NEW r \in Request, ReadSession(r) PROVE LinksInv'
  BY <1>3 DEF ReadSession, Goto, queue, LinksInv
<1>4. ASSUME NEW r \in Request, Refuse(r) PROVE LinksInv'
  BY <1>4 DEF Refuse, Goto, queue, LinksInv
<1>5. ASSUME NEW r \in Request, ClaimTurn(r) PROVE LinksInv'
  BY <1>5, AppendFacts DEF ClaimTurn, Goto, TypeInv, TypeOK, LinksInv
<1>6. ASSUME NEW r \in Request, StartSave(r) PROVE LinksInv'
  BY <1>6 DEF StartSave, request, LinksInv
<1>7. ASSUME NEW r \in Request, SkipSave(r) PROVE LinksInv'
  BY <1>7 DEF SkipSave, store, request, LinksInv, Waited, WaitOf
<1>8. ASSUME NEW r \in Request, StoreSave(r) PROVE LinksInv'
  BY <1>8 DEF StoreSave, request, LinksInv
<1>9. ASSUME NEW r \in Request, LoseSave(r) PROVE LinksInv'
  BY <1>9 DEF LoseSave, request, LinksInv
<1>10. ASSUME NEW r \in Request, ClaimSaved(r) PROVE LinksInv'
  BY <1>10 DEF ClaimSaved, HeadIs, Unlink, Goto, TypeInv, TypeOK, LinksInv, Before, Cleaning,
     Over
<1>11. ASSUME NEW r \in Request, ClaimFailed(r) PROVE LinksInv'
  BY <1>11 DEF ClaimFailed, Unlink, Goto, TypeInv, TypeOK, LinksInv
<1>12. ASSUME NEW r \in Request, SnapshotSaved(r) PROVE LinksInv'
  BY <1>12 DEF SnapshotSaved, HeadIs, Unlink, LinksInv
<1>13. ASSUME NEW r \in Request, SnapshotFailed(r) PROVE LinksInv'
  <2>1. /\ pc[r] = "streaming" /\ pc' = [pc EXCEPT ![r] = "settling"]
        /\ timer' = [timer EXCEPT ![r] = now + CleanupTimeout]
    BY <1>13, SnapshotEffect
  <2> QED
    BY <1>13, <2>1 DEF SnapshotFailed, Unlink, LinksInv
<1>14. ASSUME NEW r \in Request, Released(r) PROVE LinksInv'
  BY <1>14 DEF Released, Ended, HeadIs, Unlink, Goto, LinksInv
<1>15. ASSUME NEW r \in Request, LateAnswer(r) PROVE LinksInv'
  BY <1>15 DEF LateAnswer, Unlink, LinksInv, Waited, WaitOf
<1>16. ASSUME NEW r \in Request, CostLands(r) PROVE LinksInv'
  BY <1>16 DEF CostLands, queue, request, LinksInv
<1>17. ASSUME NEW r \in Request, ReserveAnswered(r) PROVE LinksInv'
  BY <1>17 DEF ReserveAnswered, BeginRelease, Phase, Goto, queue, TypeInv, TypeOK, LinksInv
<1>18. ASSUME NEW r \in Request, UndoAnswered(r) PROVE LinksInv'
  BY <1>18 DEF UndoAnswered, BeginRelease, Phase, Goto, LinksInv
<1>19. ASSUME NEW r \in Request, LateCost(r) PROVE LinksInv'
  BY <1>19 DEF LateCost, queue, request, LinksInv
<1>20. ASSUME NEW r \in Request, MemoryLoaded(r) PROVE LinksInv'
  BY <1>20 DEF MemoryLoaded, Goto, queue, LinksInv
<1>21. ASSUME NEW r \in Request, MemoryFails(r) PROVE LinksInv'
  BY <1>21 DEF MemoryFails, Undo, BeginRelease, Phase, Goto, store, session, queue, TypeInv,
     TypeOK, LinksInv
<1>22. ASSUME NEW r \in Request, Dispatch(r) PROVE LinksInv'
  BY <1>22 DEF Dispatch, queue, request, LinksInv
<1>23. ASSUME NEW r \in Request, SendEnds(r) PROVE LinksInv'
  BY <1>23 DEF SendEnds, queue, request, LinksInv
<1>24. ASSUME NEW r \in Request, PersistSnapshot(r) PROVE LinksInv'
  BY <1>24 DEF PersistSnapshot, request, LinksInv
<1>25. ASSUME NEW r \in Request, Enters(r) PROVE LinksInv'
  <2>1. CASE UNCHANGED <<pc, timer>>
    BY <1>25, <2>1, EnterEffect DEF store, queue, request, LinksInv
  <2>2. CASE /\ pc[r] = "streaming" /\ pc' = [pc EXCEPT ![r] = "settling"]
             /\ timer' = [timer EXCEPT ![r] = now + CleanupTimeout]
    BY <1>25, <2>2, EnterEffect DEF store, queue, LinksInv
  <2> QED
    BY <1>25, <2>1, <2>2, EnterEffect, CleanupEffect
<1>26. ASSUME NEW r \in Request, Abort(r) PROVE LinksInv'
  BY <1>26, EarlyMoves DEF Moves, LinksInv
<1>27. ASSUME NEW r \in Request, Settled(r) PROVE LinksInv'
  BY <1>27 DEF Settled, Phase, Goto, queue, TypeInv, TypeOK, LinksInv
<1>28. ASSUME NEW r \in Request, CostSettled(r) PROVE LinksInv'
  BY <1>28 DEF CostSettled, Phase, Goto, queue, LinksInv
<1>29. ASSUME NEW r \in Request, MemorySaved(r) PROVE LinksInv'
  BY <1>29 DEF MemorySaved, BeginRelease, Phase, Goto, LinksInv
<1>30. ASSUME NEW r \in Request, ReleaseTimesOut(r) PROVE LinksInv'
  BY <1>30 DEF ReleaseTimesOut, Ended, Goto, queue, LinksInv
<1>31. ASSUME NEW r \in Request, Crash(r) PROVE LinksInv'
  BY <1>31 DEF Crash, Goto, TypeInv, TypeOK, LinksInv
<1>32. ASSUME NEW r \in Request, Admit(r) PROVE LinksInv'
  BY <1>32, <1>2, <1>3, <1>4, <1>5 DEF Admit
<1>33. ASSUME NEW r \in Request, Persist(r) PROVE LinksInv'
  BY <1>33, <1>6, <1>7, <1>8, <1>9, <1>10, <1>11, <1>12, <1>13, <1>14, <1>15 DEF Persist
<1>34. ASSUME NEW r \in Request, Meter(r) PROVE LinksInv'
  BY <1>34, <1>16, <1>17, <1>18, <1>19 DEF Meter
<1>35. ASSUME NEW r \in Request, Stream(r) PROVE LinksInv'
  BY <1>35, <1>20, <1>21, <1>22, <1>23, <1>24, <1>25 DEF Stream, Enters
<1>36. ASSUME NEW r \in Request, End(r) PROVE LinksInv'
  BY <1>36, <1>26, <1>27, <1>28, <1>29, <1>30, <1>31 DEF End
<1> QED
  BY <1>0, <1>1, <1>32, <1>33, <1>34, <1>35, <1>36 DEF Next

-----------------------------------------------------------------------------
(* The holder of the lease *)

Held == Claimed \ {"claiming"}

\* The claim of this request is stored, and its lease has time left.
Holding(r) ==
    /\ pc[r] \in Held \/ (pc[r] = "claiming" /\ wire[r] = "stored")
    /\ now < active[r].expires

\* A request whose session has written the snapshot in the storage, or still could.
Rival(r) ==
    \/ wire[r] = "sent" /\ Current(r)
    \/ wire[r] = "stored" /\ cursor[r] + 1 = storedCursor
    \/ pc[r] \in Held \union {"releasing"} /\ Current(r)
    \/ Holding(r)

\* A claim that the storage would still accept found no live lease.
ClaimInv ==
    \A r \in Request :
        pc[r] = "claiming" /\ wire[r] \in {"none", "sent"} /\ Current(r) =>
            storedActive.expires <= now

\* The storage shows the lease of its holder, whose turn is not a terminal one.
HolderInv ==
    \A r \in Request :
        Holding(r) => storedActive = active[r] /\ turn[r] \notin ToSet(storedTerminal)

\* One who holds the lease has no rival.
AloneInv == \A r, s \in Request : Holding(r) /\ Rival(s) => r = s

HoldInv == SnapInv /\ TimeInv /\ LinksInv /\ ClaimInv /\ HolderInv /\ AloneInv

LEMMA ClaimStep == HoldInv /\ [Next]_vars => ClaimInv'
<1> SUFFICES ASSUME HoldInv, [Next]_vars PROVE ClaimInv'
  OBVIOUS
<1>0. CASE UNCHANGED vars
  BY <1>0, LeaseFacts DEF vars, store, session, queue, model, cost, request, HoldInv, ClaimInv,
     Current
<1>1. ASSUME Tick PROVE ClaimInv'
  BY <1>1, LeaseFacts DEF Tick, store, session, queue, model, cost, request, HoldInv, SnapInv,
     TypeInv, TypeOK, ClaimInv, Current
<1>2. ASSUME NEW r \in Request, Receive(r) PROVE ClaimInv'
  BY <1>2, LeaseFacts DEF Receive, Goto, store, session, queue, model, HoldInv, ClaimInv,
     Current
<1>3. ASSUME NEW r \in Request, ReadSession(r) PROVE ClaimInv'
  BY <1>3, LeaseFacts DEF ReadSession, Goto, store, queue, model, HoldInv, ClaimInv, Current
<1>4. ASSUME NEW r \in Request, Refuse(r) PROVE ClaimInv'
  BY <1>4, LeaseFacts DEF Refuse, Goto, store, session, queue, model, HoldInv, ClaimInv, Current
<1>5. ASSUME NEW r \in Request, ClaimTurn(r) PROVE ClaimInv'
  BY <1>5, LeaseFacts DEF ClaimTurn, Busy, Goto, store, model, cost, HoldInv, SnapInv, TypeInv,
     TypeOK, KnownInv, ClaimInv, Current
<1>6. ASSUME NEW r \in Request, StartSave(r) PROVE ClaimInv'
  BY <1>6, LeaseFacts DEF StartSave, store, session, model, cost, request, HoldInv, ClaimInv,
     Current
<1>7. ASSUME NEW r \in Request, SkipSave(r) PROVE ClaimInv'
  BY <1>7, LeaseFacts DEF SkipSave, store, session, model, cost, request, HoldInv, ClaimInv,
     Current
<1>8. ASSUME NEW r \in Request, StoreSave(r) PROVE ClaimInv'
  BY <1>8, LeaseFacts DEF StoreSave, CursorMatches, session, store, model, cost, request,
     HoldInv, SnapInv, TypeInv, TypeOK, CursorInv, KnownInv, ClaimInv, Current
<1>9. ASSUME NEW r \in Request, LoseSave(r) PROVE ClaimInv'
  BY <1>9, LeaseFacts DEF LoseSave, store, session, model, cost, request, HoldInv, ClaimInv,
     Current
<1>10. ASSUME NEW r \in Request, ClaimSaved(r) PROVE ClaimInv'
  BY <1>10, LeaseFacts DEF ClaimSaved, HeadIs, Unlink, Goto, store, model, HoldInv, SnapInv,
     TypeInv, TypeOK, ClaimInv, Current
<1>11. ASSUME NEW r \in Request, ClaimFailed(r) PROVE ClaimInv'
  BY <1>11, LeaseFacts DEF ClaimFailed, HeadIs, Unlink, Goto, store, model, HoldInv, SnapInv,
     TypeInv, TypeOK, ClaimInv, Current
<1>12. ASSUME NEW r \in Request, SnapshotSaved(r) PROVE ClaimInv'
  BY <1>12, LeaseFacts DEF SnapshotSaved, HeadIs, Unlink, store, model, HoldInv, SnapInv,
     TypeInv, TypeOK, CursorInv, KnownInv, LinksInv, ClaimInv, Current, Claimed, Over, Waited
<1>13. ASSUME NEW r \in Request, SnapshotFailed(r) PROVE ClaimInv'
  <2>1. /\ pc[r] = "streaming" /\ pc' = [pc EXCEPT ![r] = "settling"]
        /\ timer' = [timer EXCEPT ![r] = now + CleanupTimeout]
    BY <1>13, SnapshotEffect DEF HoldInv, SnapInv
  <2> QED
    BY <1>13, <2>1, LeaseFacts DEF SnapshotFailed, Unlink, store, model, HoldInv, SnapInv,
       TypeInv, TypeOK, ClaimInv, Current
<1>14. ASSUME NEW r \in Request, Released(r) PROVE ClaimInv'
  BY <1>14, LeaseFacts DEF Released, Ended, HeadIs, Unlink, Goto, store, model, HoldInv,
     SnapInv,
     TypeInv, TypeOK, ClaimInv, Current
<1>15. ASSUME NEW r \in Request, LateAnswer(r) PROVE ClaimInv'
  BY <1>15, LeaseFacts DEF LateAnswer, Unlink, store, model, HoldInv, SnapInv, TypeInv, TypeOK,
     CursorInv, KnownInv, LinksInv, ClaimInv, Current, Waited, WaitOf
<1>16. ASSUME NEW r \in Request, CostLands(r) PROVE ClaimInv'
  BY <1>16, LeaseFacts DEF CostLands, store, session, queue, model, request, HoldInv, ClaimInv,
     Current
<1>17. ASSUME NEW r \in Request, ReserveAnswered(r) PROVE ClaimInv'
  BY <1>17, LeaseFacts DEF ReserveAnswered, BeginRelease, Phase, Goto, store, session, queue,
     model, HoldInv, SnapInv, TypeInv, TypeOK, KnownInv, ClaimInv, Current
<1>18. ASSUME NEW r \in Request, UndoAnswered(r) PROVE ClaimInv'
  BY <1>18, LeaseFacts DEF UndoAnswered, BeginRelease, Phase, Goto, store, HoldInv, ClaimInv,
     Current
<1>19. ASSUME NEW r \in Request, LateCost(r) PROVE ClaimInv'
  BY <1>19, LeaseFacts DEF LateCost, store, session, queue, model, request, HoldInv, ClaimInv,
     Current
<1>20. ASSUME NEW r \in Request, MemoryLoaded(r) PROVE ClaimInv'
  BY <1>20, LeaseFacts DEF MemoryLoaded, Goto, store, session, queue, model, HoldInv, ClaimInv,
     Current
<1>21. ASSUME NEW r \in Request, MemoryFails(r) PROVE ClaimInv'
  BY <1>21, LeaseFacts DEF MemoryFails, Undo, BeginRelease, Phase, Goto, store, session, queue,
     model, cost, HoldInv, SnapInv, TypeInv, TypeOK, LinksInv, ClaimInv, Current
<1>22. ASSUME NEW r \in Request, Dispatch(r) PROVE ClaimInv'
  BY <1>22, LeaseFacts DEF Dispatch, store, session, queue, cost, request, HoldInv, ClaimInv,
     Current
<1>23. ASSUME NEW r \in Request, SendEnds(r) PROVE ClaimInv'
  BY <1>23, LeaseFacts DEF SendEnds, store, session, queue, cost, request, HoldInv, ClaimInv,
     Current
<1>24. ASSUME NEW r \in Request, PersistSnapshot(r) PROVE ClaimInv'
  BY <1>24, LeaseFacts DEF PersistSnapshot, store, session, model, cost, request, HoldInv,
     ClaimInv, Current
<1>25. ASSUME NEW r \in Request, Enters(r) PROVE ClaimInv'
  <2>1. CASE UNCHANGED <<pc, timer>>
    BY <1>25, <2>1, EnterEffect, LeaseFacts DEF store, session, queue, model, cost, request,
       HoldInv, ClaimInv, Current
  <2>2. CASE /\ pc[r] = "streaming" /\ pc' = [pc EXCEPT ![r] = "settling"]
             /\ timer' = [timer EXCEPT ![r] = now + CleanupTimeout]
    BY <1>25, <2>2, EnterEffect, LeaseFacts DEF store, session, queue, model, cost, HoldInv,
       ClaimInv, Current
  <2> QED
    BY <1>25, <2>1, <2>2, EnterEffect, CleanupEffect DEF HoldInv, SnapInv
<1>26. ASSUME NEW r \in Request, Abort(r) PROVE ClaimInv'
  BY <1>26, LeaseFacts DEF Abort, Abortable, BeginRelease, Undo, EnterCleanup, Closed, Phase,
     Goto,
     store, session, queue, model, cost, HoldInv, SnapInv, TypeInv, TypeOK, CursorInv, KnownInv,
     LinksInv, ClaimInv, Current, Claimed, Before, Cleaning, Over, Waited, WaitOf
<1>27. ASSUME NEW r \in Request, Settled(r) PROVE ClaimInv'
  BY <1>27, LeaseFacts DEF Settled, Phase, Goto, store, session, queue, model, HoldInv, SnapInv,
     TypeInv, TypeOK, ClaimInv, Current
<1>28. ASSUME NEW r \in Request, CostSettled(r) PROVE ClaimInv'
  BY <1>28, LeaseFacts DEF CostSettled, Phase, Goto, store, session, queue, HoldInv, ClaimInv,
     Current
<1>29. ASSUME NEW r \in Request, MemorySaved(r) PROVE ClaimInv'
  BY <1>29, LeaseFacts DEF MemorySaved, BeginRelease, Phase, Goto, store, model, HoldInv,
     ClaimInv, Current
<1>30. ASSUME NEW r \in Request, ReleaseTimesOut(r) PROVE ClaimInv'
  BY <1>30, LeaseFacts DEF ReleaseTimesOut, Ended, Goto, store, session, queue, model, HoldInv,
     ClaimInv, Current
<1>31. ASSUME NEW r \in Request, Crash(r) PROVE ClaimInv'
  BY <1>31, LeaseFacts DEF Crash, Goto, store, session, model, cost, HoldInv, SnapInv, TypeInv,
     TypeOK, ClaimInv, Current
<1>32. ASSUME NEW r \in Request, Admit(r) PROVE ClaimInv'
  BY <1>32, <1>2, <1>3, <1>4, <1>5 DEF Admit
<1>33. ASSUME NEW r \in Request, Persist(r) PROVE ClaimInv'
  BY <1>33, <1>6, <1>7, <1>8, <1>9, <1>10, <1>11, <1>12, <1>13, <1>14, <1>15 DEF Persist
<1>34. ASSUME NEW r \in Request, Meter(r) PROVE ClaimInv'
  BY <1>34, <1>16, <1>17, <1>18, <1>19 DEF Meter
<1>35. ASSUME NEW r \in Request, Stream(r) PROVE ClaimInv'
  BY <1>35, <1>20, <1>21, <1>22, <1>23, <1>24, <1>25 DEF Stream, Enters
<1>36. ASSUME NEW r \in Request, End(r) PROVE ClaimInv'
  BY <1>36, <1>26, <1>27, <1>28, <1>29, <1>30, <1>31 DEF End
<1> QED
  BY <1>0, <1>1, <1>32, <1>33, <1>34, <1>35, <1>36 DEF Next

\* A step that leaves the storage alone, and makes no request a holder.
LEMMA FewerHold ==
    ASSUME HoldInv, UNCHANGED store,
           \A q \in Request : Holding(q)' => /\ Holding(q)
                                             /\ active'[q] = active[q] /\ turn'[q] = turn[q]
    PROVE  HolderInv'
  BY DEF HoldInv, HolderInv, store

\* A step that makes no request a holder or a rival.
LEMMA FewerRivals ==
    ASSUME HoldInv,
           \A q \in Request : (Holding(q)' => Holding(q)) /\ (Rival(q)' => Rival(q))
    PROVE  AloneInv'
  BY DEF HoldInv, AloneInv

LEMMA HolderStep == HoldInv /\ [Next]_vars => HolderInv'
<1> SUFFICES ASSUME HoldInv, [Next]_vars PROVE HolderInv'
  OBVIOUS
<1>0. CASE UNCHANGED vars
  BY <1>0, LeaseFacts DEF vars, store, session, queue, model, cost, request, HoldInv, HolderInv,
     Holding
<1>1. ASSUME Tick PROVE HolderInv'
  <2>1. \A q \in Request : Holding(q)' => Holding(q)
    BY <1>1, LeaseFacts DEF Tick, store, session, queue, model, cost, request, HoldInv, SnapInv,
       TypeInv, TypeOK, Holding
  <2> QED
    BY <1>1, <2>1, FewerHold DEF Tick, session, request
<1>2. ASSUME NEW r \in Request, Receive(r) PROVE HolderInv'
  BY <1>2, LeaseFacts DEF Receive, Goto, store, session, queue, model, cost, HoldInv, SnapInv,
     TypeInv, TypeOK, CursorInv, WireInv, LocalInv, HolderInv, Holding, Held, Claimed, Before
<1>3. ASSUME NEW r \in Request, ReadSession(r) PROVE HolderInv'
  BY <1>3, LeaseFacts DEF ReadSession, Goto, store, queue, model, cost, HoldInv, SnapInv,
     TypeInv, TypeOK, CursorInv, WireInv, LocalInv, HolderInv, Holding, Held, Claimed
<1>4. ASSUME NEW r \in Request, Refuse(r) PROVE HolderInv'
  BY <1>4, LeaseFacts DEF Refuse, Goto, store, session, queue, model, cost, HoldInv, SnapInv,
     TypeInv, TypeOK, CursorInv, WireInv, LocalInv, HolderInv, Holding, Held, Claimed, Before
<1>5. ASSUME NEW r \in Request, ClaimTurn(r) PROVE HolderInv'
  BY <1>5, LeaseFacts DEF ClaimTurn, Busy, Goto, store, model, cost, HoldInv, SnapInv, TypeInv,
     TypeOK, CursorInv, WireInv, HolderInv, Holding, Held
<1>6. ASSUME NEW r \in Request, StartSave(r) PROVE HolderInv'
  BY <1>6, LeaseFacts DEF StartSave, store, session, model, cost, request, HoldInv, HolderInv,
     Holding
<1>7. ASSUME NEW r \in Request, SkipSave(r) PROVE HolderInv'
  BY <1>7, LeaseFacts DEF SkipSave, store, session, model, cost, request, HoldInv, SnapInv,
     TypeInv, TypeOK, CursorInv, WireInv, LocalInv, HolderInv, Holding, Current, Cleaning
<1>8. ASSUME NEW r \in Request, StoreSave(r) PROVE HolderInv'
  <2>1. /\ UNCHANGED <<now, cursor, active, terminal, turn, pc>> /\ wire[r] = "sent"
        /\ \A q \in Request \ {r} : wire'[q] = wire[q]
    BY <1>8 DEF StoreSave, session, request, HoldInv, SnapInv, TypeInv, TypeOK
  <2>2. CASE ~CursorMatches(r)
    <3>1. UNCHANGED store /\ wire'[r] \in {"none", "failed"}
      BY <1>8, <2>2 DEF StoreSave, HoldInv, SnapInv, TypeInv, TypeOK
    <3> QED
      BY <2>1, <3>1, FewerHold DEF Holding
  <2>3. CASE CursorMatches(r)
    <3>1. /\ storedActive' = wireActive[r] /\ storedTerminal' = wireTerminal[r]
          /\ Rival(r)
      BY <1>8, <2>3 DEF StoreSave, CursorMatches, Rival, Current
    <3>2. \A q \in Request \ {r} : ~Holding(q)'
      BY <2>1, <3>1 DEF HoldInv, AloneInv, Holding
    <3>3. pc[r] \in Claimed =>
             /\ wireTerminal[r] = terminal[r] /\ wireActive[r] = active[r]
             /\ turn[r] \notin ToSet(terminal[r])
      BY <2>1 DEF HoldInv, SnapInv, TypeInv, LocalInv, WireInv
    <3> QED
      BY <2>1, <3>1, <3>2, <3>3 DEF HolderInv, Holding, Held, Claimed
  <2> QED
    BY <2>2, <2>3
<1>9. ASSUME NEW r \in Request, LoseSave(r) PROVE HolderInv'
  BY <1>9, LeaseFacts DEF LoseSave, store, session, model, cost, request, HoldInv, SnapInv,
     TypeInv, TypeOK, CursorInv, WireInv, LocalInv, HolderInv, Holding, Current, Cleaning
<1>10. ASSUME NEW r \in Request, ClaimSaved(r) PROVE HolderInv'
  <2>1. Unlink(r, "stored") /\ pc[r] = "claiming" /\ pc'[r] \in {"reserving", "loading"}
        /\ \A q \in Request \ {r} : pc'[q] = pc[q]
    BY <1>10, GotoEffect DEF ClaimSaved, HeadIs, Waited, WaitOf, HoldInv, SnapInv
  <2>2. \A q \in Request : Holding(q)' => Holding(q)
    BY <2>1, UnlinkEffect DEF HoldInv, SnapInv, Holding, Held, Claimed
  <2> QED
    BY <2>1, <2>2, UnlinkEffect, FewerHold DEF HoldInv, SnapInv, store
<1>11. ASSUME NEW r \in Request, ClaimFailed(r) PROVE HolderInv'
  BY <1>11, LeaseFacts DEF ClaimFailed, HeadIs, Unlink, Goto, store, model, HoldInv, SnapInv,
     TypeInv, TypeOK, CursorInv, WireInv, LocalInv, HolderInv, Holding, Held, Claimed
<1>12. ASSUME NEW r \in Request, SnapshotSaved(r) PROVE HolderInv'
  BY <1>12, LeaseFacts DEF SnapshotSaved, HeadIs, Unlink, store, model, HoldInv, SnapInv,
     TypeInv, TypeOK, CursorInv, WireInv, LocalInv, HolderInv, AloneInv, Rival, Holding,
     Claimed, Before, Cleaning, Over, Waited, WaitOf
<1>13. ASSUME NEW r \in Request, SnapshotFailed(r) PROVE HolderInv'
  <2>1. Unlink(r, "failed") /\ pc[r] = "streaming" /\ pc'[r] = "settling"
        /\ \A q \in Request \ {r} : pc'[q] = pc[q]
    BY <1>13, PhaseEffect DEF SnapshotFailed, EnterCleanup, Closed, HeadIs, Waited, WaitOf,
       HoldInv, SnapInv
  <2>2. \A q \in Request : Holding(q)' => Holding(q)
    BY <2>1, UnlinkEffect DEF HoldInv, SnapInv, Holding, Held, Claimed
  <2> QED
    BY <2>1, <2>2, UnlinkEffect, FewerHold DEF HoldInv, SnapInv, store
<1>14. ASSUME NEW r \in Request, Released(r) PROVE HolderInv'
  BY <1>14, LeaseFacts DEF Released, Ended, HeadIs, Unlink, Goto, store, model, HoldInv,
     SnapInv,
     TypeInv, TypeOK, CursorInv, WireInv, LocalInv, HolderInv, Holding, Held, Claimed
<1>15. ASSUME NEW r \in Request, LateAnswer(r) PROVE HolderInv'
  BY <1>15, LeaseFacts DEF LateAnswer, Unlink, store, HoldInv, HolderInv, AloneInv, Holding
<1>16. ASSUME NEW r \in Request, CostLands(r) PROVE HolderInv'
  BY <1>16, LeaseFacts DEF CostLands, store, session, queue, model, request, HoldInv, HolderInv,
     Holding
<1>17. ASSUME NEW r \in Request, ReserveAnswered(r) PROVE HolderInv'
  <2>1. \A q \in Request : Holding(q)' => /\ Holding(q)
                                         /\ active'[q] = active[q] /\ turn'[q] = turn[q]
    BY <1>17, EarlyMoves DEF HoldInv, SnapInv, Moves, Holding, Held, Claimed, Before
  <2> QED
    BY <1>17, <2>1, FewerHold DEF ReserveAnswered
<1>18. ASSUME NEW r \in Request, UndoAnswered(r) PROVE HolderInv'
  BY <1>18, LeaseFacts DEF UndoAnswered, BeginRelease, Phase, Goto, store, model, HoldInv,
     SnapInv, TypeInv, TypeOK, CursorInv, WireInv, HolderInv, Holding
<1>19. ASSUME NEW r \in Request, LateCost(r) PROVE HolderInv'
  BY <1>19, LeaseFacts DEF LateCost, store, session, queue, model, request, HoldInv, HolderInv,
     Holding
<1>20. ASSUME NEW r \in Request, MemoryLoaded(r) PROVE HolderInv'
  BY <1>20, LeaseFacts DEF MemoryLoaded, Goto, store, session, queue, model, cost, HoldInv,
     SnapInv, TypeInv, TypeOK, CursorInv, WireInv, LocalInv, HolderInv, Holding, Held, Claimed
<1>21. ASSUME NEW r \in Request, MemoryFails(r) PROVE HolderInv'
  <2>1. \A q \in Request : Holding(q)' => /\ Holding(q)
                                         /\ active'[q] = active[q] /\ turn'[q] = turn[q]
    BY <1>21, EarlyMoves DEF HoldInv, SnapInv, Moves, Holding, Held, Claimed, Before
  <2> QED
    BY <1>21, <2>1, FewerHold DEF MemoryFails
<1>22. ASSUME NEW r \in Request, Dispatch(r) PROVE HolderInv'
  BY <1>22, LeaseFacts DEF Dispatch, store, session, queue, cost, request, HoldInv, HolderInv,
     Holding
<1>23. ASSUME NEW r \in Request, SendEnds(r) PROVE HolderInv'
  BY <1>23, LeaseFacts DEF SendEnds, store, session, queue, cost, request, HoldInv, HolderInv,
     Holding
<1>24. ASSUME NEW r \in Request, PersistSnapshot(r) PROVE HolderInv'
  BY <1>24, LeaseFacts DEF PersistSnapshot, store, session, model, cost, request, HoldInv,
     HolderInv, Holding
<1>25. ASSUME NEW r \in Request, Enters(r) PROVE HolderInv'
  <2>1. CASE UNCHANGED <<pc, timer>>
    BY <1>25, <2>1, EnterEffect, LeaseFacts DEF store, session, queue, model, cost, request,
       HoldInv, HolderInv, Holding
  <2>2. CASE /\ pc[r] = "streaming" /\ pc' = [pc EXCEPT ![r] = "settling"]
             /\ timer' = [timer EXCEPT ![r] = now + CleanupTimeout]
    BY <1>25, <2>2, EnterEffect, LeaseFacts DEF store, session, queue, model, cost, HoldInv,
       SnapInv, TypeInv, TypeOK, CursorInv, WireInv, LocalInv, HolderInv, Holding, Held, Claimed
  <2> QED
    BY <1>25, <2>1, <2>2, EnterEffect, CleanupEffect DEF HoldInv, SnapInv
<1>26. ASSUME NEW r \in Request, Abort(r) PROVE HolderInv'
  <2>1. \A q \in Request : Holding(q)' => /\ Holding(q)
                                         /\ active'[q] = active[q] /\ turn'[q] = turn[q]
    <3>1. pc[r] \in Before /\ Moves(r, {"done", "undoing", "settling"})
      BY <1>26, EarlyMoves DEF HoldInv, SnapInv
    <3>2. Holding(r)' => Holding(r) /\ active'[r] = active[r]
      BY <1>26, <3>1, GotoEffect DEF Abort, Abortable, Moves, Holding, Held, Claimed, Before,
         HoldInv, SnapInv
    <3> QED
      BY <3>1, <3>2 DEF Moves, Holding
  <2> QED
    BY <1>26, <2>1, FewerHold DEF Abort
<1>27. ASSUME NEW r \in Request, Settled(r) PROVE HolderInv'
  <2>1. \A q \in Request : Holding(q)' => /\ Holding(q)
                                         /\ active'[q] = active[q] /\ turn'[q] = turn[q]
    BY <1>27, LeaseFacts DEF Settled, Phase, Goto, store, session, queue, model, HoldInv,
       SnapInv, TypeInv, TypeOK, Holding, Held, Claimed
  <2> QED
    BY <1>27, <2>1, FewerHold DEF Settled
<1>28. ASSUME NEW r \in Request, CostSettled(r) PROVE HolderInv'
  BY <1>28, LeaseFacts DEF CostSettled, Phase, Goto, store, session, queue, model, HoldInv,
     SnapInv, TypeInv, TypeOK, CursorInv, WireInv, LocalInv, HolderInv, Holding, Held, Current,
     Claimed
<1>29. ASSUME NEW r \in Request, MemorySaved(r) PROVE HolderInv'
  BY <1>29, LeaseFacts DEF MemorySaved, BeginRelease, Phase, Goto, store, model, cost, HoldInv,
     SnapInv, TypeInv, TypeOK, CursorInv, WireInv, HolderInv, Holding
<1>30. ASSUME NEW r \in Request, ReleaseTimesOut(r) PROVE HolderInv'
  BY <1>30, LeaseFacts DEF ReleaseTimesOut, Ended, Goto, store, session, queue, model, cost,
     HoldInv,
     SnapInv, TypeInv, TypeOK, CursorInv, WireInv, LocalInv, HolderInv, Holding, Held, Claimed
<1>31. ASSUME NEW r \in Request, Crash(r) PROVE HolderInv'
  BY <1>31, LeaseFacts DEF Crash, Goto, store, session, model, cost, HoldInv, SnapInv, TypeInv,
     TypeOK, CursorInv, WireInv, LocalInv, HolderInv, Holding, Held, Claimed
<1>32. ASSUME NEW r \in Request, Admit(r) PROVE HolderInv'
  BY <1>32, <1>2, <1>3, <1>4, <1>5 DEF Admit
<1>33. ASSUME NEW r \in Request, Persist(r) PROVE HolderInv'
  BY <1>33, <1>6, <1>7, <1>8, <1>9, <1>10, <1>11, <1>12, <1>13, <1>14, <1>15 DEF Persist
<1>34. ASSUME NEW r \in Request, Meter(r) PROVE HolderInv'
  BY <1>34, <1>16, <1>17, <1>18, <1>19 DEF Meter
<1>35. ASSUME NEW r \in Request, Stream(r) PROVE HolderInv'
  BY <1>35, <1>20, <1>21, <1>22, <1>23, <1>24, <1>25 DEF Stream, Enters
<1>36. ASSUME NEW r \in Request, End(r) PROVE HolderInv'
  BY <1>36, <1>26, <1>27, <1>28, <1>29, <1>30, <1>31 DEF End
<1> QED
  BY <1>0, <1>1, <1>32, <1>33, <1>34, <1>35, <1>36 DEF Next

LEMMA AloneStep == HoldInv /\ [Next]_vars => AloneInv'
<1> SUFFICES ASSUME HoldInv, [Next]_vars PROVE AloneInv'
  OBVIOUS
<1>0. CASE UNCHANGED vars
  BY <1>0 DEF vars, store, session, queue, request, HoldInv, AloneInv, Rival, Holding, Current
<1>1. ASSUME Tick PROVE AloneInv'
  <2>1. \A q \in Request : (Holding(q)' => Holding(q)) /\ (Rival(q)' => Rival(q))
    BY <1>1, LeaseFacts DEF Tick, store, session, queue, model, cost, request, HoldInv, SnapInv,
       TypeInv, TypeOK, Rival, Holding, Current
  <2> QED
    BY <2>1, FewerRivals
<1>2. ASSUME NEW r \in Request, Receive(r) PROVE AloneInv'
  <2>1. \A q \in Request : (Holding(q)' => Holding(q)) /\ (Rival(q)' => Rival(q))
    BY <1>2, LeaseFacts DEF Receive, Goto, store, session, queue, model, cost, Rival, Holding,
       Held, Current, Claimed
  <2> QED
    BY <2>1, FewerRivals
<1>3. ASSUME NEW r \in Request, ReadSession(r) PROVE AloneInv'
  <2>1. \A q \in Request : (Holding(q)' => Holding(q)) /\ (Rival(q)' => Rival(q))
    BY <1>3, LeaseFacts DEF ReadSession, Goto, store, queue, model, cost, HoldInv, SnapInv,
       TypeInv, TypeOK, CursorInv, Rival, Holding, Held, Current, Claimed
  <2> QED
    BY <2>1, FewerRivals
<1>4. ASSUME NEW r \in Request, Refuse(r) PROVE AloneInv'
  <2>1. \A q \in Request : (Holding(q)' => Holding(q)) /\ (Rival(q)' => Rival(q))
    BY <1>4, LeaseFacts DEF Refuse, Goto, store, session, queue, model, cost, Rival, Holding,
       Held, Current, Claimed
  <2> QED
    BY <2>1, FewerRivals
<1>5. ASSUME NEW r \in Request, ClaimTurn(r) PROVE AloneInv'
  <2>1. \A q \in Request : (Holding(q)' => Holding(q)) /\ (Rival(q)' => Rival(q))
    BY <1>5, LeaseFacts DEF ClaimTurn, Busy, Goto, store, model, cost, HoldInv, SnapInv,
       TypeInv, TypeOK, CursorInv, LinksInv, Rival, Holding, Held, Current
  <2> QED
    BY <2>1, FewerRivals
<1>6. ASSUME NEW r \in Request, StartSave(r) PROVE AloneInv'
  <2>1. Holding(r)' => Holding(r)
    BY <1>6 DEF StartSave, session, request, Holding
  <2>2. \A q \in Request : Holding(q)' => Holding(q)
    BY <1>6 DEF StartSave, session, request, Holding
  <2>3. \A q \in Request \ {r} : Rival(q)' => Rival(q)
    BY <1>6, <2>2 DEF StartSave, store, session, request, Rival, Current
  <2>4. CASE pc[r] = "claiming" /\ Current(r)
    <3>1. storedActive.expires <= now
      BY <1>6, <2>4 DEF StartSave, HoldInv, ClaimInv
    <3>2. \A q \in Request : ~Holding(q)
      BY <3>1, LeaseFacts, SMTT(20) DEF HoldInv, HolderInv, Holding, SnapInv, TypeInv, TypeOK
    <3> QED
      BY <2>2, <3>2 DEF AloneInv
  <2>5. CASE ~(pc[r] = "claiming" /\ Current(r))
    <3>1. pc[r] \in {"claiming", "streaming", "releasing"}
      BY <1>6 DEF StartSave, Waited, WaitOf, HoldInv, SnapInv, TypeInv, TypeOK
    <3>2. Rival(r)' => Rival(r)
      BY <1>6, <2>1, <2>5, <3>1 DEF StartSave, store, session, Rival, Current, Held, Claimed
    <3> QED
      BY <2>2, <2>3, <3>2, FewerRivals
  <2> QED
    BY <2>4, <2>5
<1>7. ASSUME NEW r \in Request, SkipSave(r) PROVE AloneInv'
  <2>1. \A q \in Request : (Holding(q)' => Holding(q)) /\ (Rival(q)' => Rival(q))
    BY <1>7, LeaseFacts DEF SkipSave, store, session, model, cost, request, Rival, Holding,
       Current
  <2> QED
    BY <2>1, FewerRivals
<1>8. ASSUME NEW r \in Request, StoreSave(r) PROVE AloneInv'
  <2>1. CASE ~CursorMatches(r)
    <3>1. \A q \in Request : (Holding(q)' => Holding(q)) /\ (Rival(q)' => Rival(q))
      BY <1>8, <2>1, LeaseFacts DEF StoreSave, CursorMatches, session, store, request, HoldInv,
         SnapInv, TypeInv, TypeOK, Rival, Holding, Current
    <3> QED
      BY <3>1, FewerRivals
  <2>2. CASE CursorMatches(r)
    <3>1. Rival(r)
      BY <1>8, <2>2 DEF StoreSave, CursorMatches, Current, Rival
    <3>2. \A q \in Request \ {r} : Holding(q)' => Holding(q)
      BY <1>8, <2>2 DEF StoreSave, session, request, HoldInv, SnapInv, TypeInv, TypeOK, Holding
    <3>3. \A q \in Request \ {r} : ~Holding(q)'
      BY <3>1, <3>2 DEF HoldInv, AloneInv
    <3>4. /\ storedCursor' = storedCursor + 1 /\ UNCHANGED <<cursor, pc>>
          /\ \A q \in Request \ {r} : wire'[q] = wire[q]
      BY <1>8, <2>2 DEF StoreSave, CursorMatches, session, request, HoldInv, SnapInv, TypeInv,
         TypeOK
    <3>5. \A q \in Request \ {r} : ~Rival(q)'
      BY <3>3, <3>4 DEF Rival, Current, HoldInv, SnapInv, TypeInv, TypeOK, CursorInv
    <3> QED
      BY <3>3, <3>5 DEF AloneInv
  <2> QED
    BY <2>1, <2>2
<1>9. ASSUME NEW r \in Request, LoseSave(r) PROVE AloneInv'
  <2>1. \A q \in Request : (Holding(q)' => Holding(q)) /\ (Rival(q)' => Rival(q))
    BY <1>9, LeaseFacts DEF LoseSave, store, session, model, cost, request, Rival, Holding,
       Current
  <2> QED
    BY <2>1, FewerRivals
<1>10. ASSUME NEW r \in Request, ClaimSaved(r) PROVE AloneInv'
  <2>1. \A q \in Request : (Holding(q)' => Holding(q)) /\ (Rival(q)' => Rival(q))
    <3>1. Unlink(r, "stored") /\ pc[r] = "claiming" /\ pc'[r] \in {"reserving", "loading"}
          /\ \A q \in Request \ {r} : pc'[q] = pc[q]
      BY <1>10, GotoEffect DEF ClaimSaved, HeadIs, Waited, WaitOf, HoldInv, SnapInv
    <3> QED
      BY <3>1, UnlinkEffect DEF HoldInv, SnapInv, Rival, Holding, Held, Current, Claimed
  <2> QED
    BY <2>1, FewerRivals
<1>11. ASSUME NEW r \in Request, ClaimFailed(r) PROVE AloneInv'
  <2>1. \A q \in Request : (Holding(q)' => Holding(q)) /\ (Rival(q)' => Rival(q))
    BY <1>11, LeaseFacts DEF ClaimFailed, HeadIs, Unlink, Goto, store, model, Rival, Holding,
       Held, Current, Claimed
  <2> QED
    BY <2>1, FewerRivals
<1>12. ASSUME NEW r \in Request, SnapshotSaved(r) PROVE AloneInv'
  <2>1. \A q \in Request : (Holding(q)' => Holding(q)) /\ (Rival(q)' => Rival(q))
    BY <1>12, LeaseFacts DEF SnapshotSaved, HeadIs, Unlink, store, model, HoldInv, SnapInv,
       TypeInv, TypeOK, CursorInv, LinksInv, Rival, Holding, Held, Current, Claimed, Before,
       Cleaning, Over, Waited, WaitOf
  <2> QED
    BY <2>1, FewerRivals
<1>13. ASSUME NEW r \in Request, SnapshotFailed(r) PROVE AloneInv'
  <2>1. \A q \in Request : (Holding(q)' => Holding(q)) /\ (Rival(q)' => Rival(q))
    BY <1>13, LeaseFacts, SMTT(20) DEF SnapshotFailed, EnterCleanup, Closed, HeadIs, Unlink, Phase,
       Goto, store, model, HoldInv,
       SnapInv, TypeInv, TypeOK, CursorInv, LinksInv, Rival, Holding, Held, Current, Claimed,
       Before, Waited, WaitOf
  <2> QED
    BY <2>1, FewerRivals
<1>14. ASSUME NEW r \in Request, Released(r) PROVE AloneInv'
  <2>1. \A q \in Request : (Holding(q)' => Holding(q)) /\ (Rival(q)' => Rival(q))
    BY <1>14, LeaseFacts DEF Released, Ended, HeadIs, Unlink, Goto, store, model, HoldInv,
       SnapInv,
       TypeInv, TypeOK, Rival, Holding, Held, Current, Claimed
  <2> QED
    BY <2>1, FewerRivals
<1>15. ASSUME NEW r \in Request, LateAnswer(r) PROVE AloneInv'
  <2>1. \A q \in Request : (Holding(q)' => Holding(q)) /\ (Rival(q)' => Rival(q))
    <3>1. UNCHANGED pc /\ \E answer \in {"stored", "failed"} : Unlink(r, answer)
      BY <1>15 DEF LateAnswer
    <3> QED
      BY <3>1, UnlinkEffect DEF HoldInv, SnapInv, Rival, Holding, Held, Current, Claimed
  <2> QED
    BY <2>1, FewerRivals
<1>16. ASSUME NEW r \in Request, CostLands(r) PROVE AloneInv'
  <2>1. \A q \in Request : (Holding(q)' => Holding(q)) /\ (Rival(q)' => Rival(q))
    BY <1>16, LeaseFacts DEF CostLands, store, session, queue, model, request, Rival, Holding,
       Current
  <2> QED
    BY <2>1, FewerRivals
<1>17. ASSUME NEW r \in Request, ReserveAnswered(r) PROVE AloneInv'
  <2>1. \A q \in Request : (Holding(q)' => Holding(q)) /\ (Rival(q)' => Rival(q))
    BY <1>17, EarlyMoves DEF HoldInv, SnapInv, Moves, Rival, Holding, Held, Claimed, Current,
       Before
  <2> QED
    BY <2>1, FewerRivals
<1>18. ASSUME NEW r \in Request, UndoAnswered(r) PROVE AloneInv'
  <2>1. \A q \in Request : (Holding(q)' => Holding(q)) /\ (Rival(q)' => Rival(q))
    BY <1>18, LeaseFacts DEF UndoAnswered, BeginRelease, Phase, Goto, store, model, HoldInv,
       SnapInv, TypeInv, TypeOK, Rival, Holding, Held, Current, Claimed
  <2> QED
    BY <2>1, FewerRivals
<1>19. ASSUME NEW r \in Request, LateCost(r) PROVE AloneInv'
  <2>1. \A q \in Request : (Holding(q)' => Holding(q)) /\ (Rival(q)' => Rival(q))
    BY <1>19, LeaseFacts DEF LateCost, store, session, queue, model, request, Rival, Holding,
       Current
  <2> QED
    BY <2>1, FewerRivals
<1>20. ASSUME NEW r \in Request, MemoryLoaded(r) PROVE AloneInv'
  <2>1. \A q \in Request : (Holding(q)' => Holding(q)) /\ (Rival(q)' => Rival(q))
    BY <1>20, LeaseFacts DEF MemoryLoaded, Goto, store, session, queue, model, cost, Rival,
       Holding, Held, Current, Claimed
  <2> QED
    BY <2>1, FewerRivals
<1>21. ASSUME NEW r \in Request, MemoryFails(r) PROVE AloneInv'
  <2>1. \A q \in Request : (Holding(q)' => Holding(q)) /\ (Rival(q)' => Rival(q))
    BY <1>21, EarlyMoves DEF HoldInv, SnapInv, Moves, Rival, Holding, Held, Claimed, Current,
       Before
  <2> QED
    BY <2>1, FewerRivals
<1>22. ASSUME NEW r \in Request, Dispatch(r) PROVE AloneInv'
  <2>1. \A q \in Request : (Holding(q)' => Holding(q)) /\ (Rival(q)' => Rival(q))
    BY <1>22, LeaseFacts DEF Dispatch, store, session, queue, cost, request, Rival, Holding,
       Current
  <2> QED
    BY <2>1, FewerRivals
<1>23. ASSUME NEW r \in Request, SendEnds(r) PROVE AloneInv'
  <2>1. \A q \in Request : (Holding(q)' => Holding(q)) /\ (Rival(q)' => Rival(q))
    BY <1>23, LeaseFacts DEF SendEnds, store, session, queue, cost, request, Rival, Holding,
       Current
  <2> QED
    BY <2>1, FewerRivals
<1>24. ASSUME NEW r \in Request, PersistSnapshot(r) PROVE AloneInv'
  <2>1. \A q \in Request : (Holding(q)' => Holding(q)) /\ (Rival(q)' => Rival(q))
    BY <1>24, LeaseFacts DEF PersistSnapshot, store, session, model, cost, request, Rival,
       Holding, Current
  <2> QED
    BY <2>1, FewerRivals
<1>25. ASSUME NEW r \in Request, Enters(r) PROVE AloneInv'
  <2>1. \A q \in Request : pc'[q] # pc[q] => pc[q] = "streaming" /\ pc'[q] = "settling"
    <3>1. pc \in [Request -> Before \union Cleaning \union Over \union {"idle", "undoing"}]
      BY DEF HoldInv, SnapInv, TypeInv, TypeOK
    <3>2. TypeInv /\ EnterCleanup(r)
      BY <1>25, EnterEffect DEF HoldInv, SnapInv
    <3>3. CASE UNCHANGED <<pc, timer>>
      BY <3>3
    <3>4. CASE pc[r] = "streaming" /\ pc' = [pc EXCEPT ![r] = "settling"]
      BY <3>1, <3>4
    <3> QED
      BY <3>2, <3>3, <3>4, CleanupEffect
  <2>2. \A q \in Request : (Holding(q)' => Holding(q)) /\ (Rival(q)' => Rival(q))
    BY <1>25, <2>1, EnterEffect DEF store, session, queue, HoldInv, SnapInv, CursorInv, Rival,
       Holding, Held, Current, Claimed
  <2> QED
    BY <2>2, FewerRivals
<1>26. ASSUME NEW r \in Request, Abort(r) PROVE AloneInv'
  <2>1. CASE pc[r] \in Claimed \ {"claiming"} /\ BeginRelease(r)
    <3>1. \A q \in Request : (Holding(q)' => Holding(q)) /\ (Rival(q)' => Rival(q))
      BY <1>26, <2>1, LeaseFacts DEF Abort, BeginRelease, Phase, Goto, store, session, queue,
         HoldInv, SnapInv, TypeInv, TypeOK, Rival, Holding, Held, Current
    <3> QED
      BY <3>1, FewerRivals
  <2>2. CASE /\ UNCHANGED <<session, queue>>
             /\ \/ pc[r] \in {"resuming", "resumed", "claiming"} /\ Goto(r, "done")
                \/ pc[r] = "loading" /\ Goto(r, "undoing")
                \/ pc[r] = "streaming" /\ Goto(r, "settling")
    <3>1. \A q \in Request : (Holding(q)' => Holding(q)) /\ (Rival(q)' => Rival(q))
      BY <1>26, <2>2, LeaseFacts DEF Abort, Goto, store, session, queue, HoldInv, SnapInv,
         TypeInv, TypeOK, Rival, Holding, Held, Current, Claimed
    <3> QED
      BY <3>1, FewerRivals
  <2> QED
    BY <1>26, <2>1, <2>2 DEF Abort, Undo, EnterCleanup, Closed, Phase, Claimed
<1>27. ASSUME NEW r \in Request, Settled(r) PROVE AloneInv'
  <2>1. \A q \in Request : (Holding(q)' => Holding(q)) /\ (Rival(q)' => Rival(q))
    BY <1>27, LeaseFacts DEF Settled, Phase, Goto, store, session, queue, model, HoldInv,
       SnapInv, TypeInv, TypeOK, Rival, Holding, Held, Current, Claimed
  <2> QED
    BY <2>1, FewerRivals
<1>28. ASSUME NEW r \in Request, CostSettled(r) PROVE AloneInv'
  <2>1. \A q \in Request : (Holding(q)' => Holding(q)) /\ (Rival(q)' => Rival(q))
    BY <1>28, LeaseFacts DEF CostSettled, Phase, Goto, store, session, queue, model, Rival,
       Holding, Held, Current, Claimed
  <2> QED
    BY <2>1, FewerRivals
<1>29. ASSUME NEW r \in Request, MemorySaved(r) PROVE AloneInv'
  <2>1. \A q \in Request : (Holding(q)' => Holding(q)) /\ (Rival(q)' => Rival(q))
    BY <1>29, LeaseFacts DEF MemorySaved, BeginRelease, Phase, Goto, store, model, cost,
       HoldInv, SnapInv, TypeInv, TypeOK, Rival, Holding, Held, Current, Claimed
  <2> QED
    BY <2>1, FewerRivals
<1>30. ASSUME NEW r \in Request, ReleaseTimesOut(r) PROVE AloneInv'
  <2>1. \A q \in Request : (Holding(q)' => Holding(q)) /\ (Rival(q)' => Rival(q))
    BY <1>30, LeaseFacts DEF ReleaseTimesOut, Ended, Goto, store, session, queue, model, cost,
       Rival,
       Holding, Held, Current, Claimed
  <2> QED
    BY <2>1, FewerRivals
<1>31. ASSUME NEW r \in Request, Crash(r) PROVE AloneInv'
  <2>1. \A q \in Request : (Holding(q)' => Holding(q)) /\ (Rival(q)' => Rival(q))
    BY <1>31, LeaseFacts DEF Crash, Goto, store, session, model, cost, Rival, Holding, Held,
       Current, Claimed
  <2> QED
    BY <2>1, FewerRivals
<1>32. ASSUME NEW r \in Request, Admit(r) PROVE AloneInv'
  BY <1>32, <1>2, <1>3, <1>4, <1>5 DEF Admit
<1>33. ASSUME NEW r \in Request, Persist(r) PROVE AloneInv'
  BY <1>33, <1>6, <1>7, <1>8, <1>9, <1>10, <1>11, <1>12, <1>13, <1>14, <1>15 DEF Persist
<1>34. ASSUME NEW r \in Request, Meter(r) PROVE AloneInv'
  BY <1>34, <1>16, <1>17, <1>18, <1>19 DEF Meter
<1>35. ASSUME NEW r \in Request, Stream(r) PROVE AloneInv'
  BY <1>35, <1>20, <1>21, <1>22, <1>23, <1>24, <1>25 DEF Stream, Enters
<1>36. ASSUME NEW r \in Request, End(r) PROVE AloneInv'
  BY <1>36, <1>26, <1>27, <1>28, <1>29, <1>30, <1>31 DEF End
<1> QED
  BY <1>0, <1>1, <1>32, <1>33, <1>34, <1>35, <1>36 DEF Next

LEMMA HoldStep == HoldInv /\ [Next]_vars => HoldInv'
  BY SnapStep, TimeStep, LinksStep, ClaimStep, HolderStep, AloneStep DEF HoldInv, SnapInv

LEMMA InitHold == Init => HoldInv
<1> SUFFICES ASSUME Init PROVE HoldInv
  OBVIOUS
<1>1. SnapInv
  BY InitSnap
<1>2. \A r \in Request : pc[r] = "idle" /\ born[r] = 0 /\ now = 0 /\ links[r] = <<>>
  BY DEF Init
<1>3. TimeInv /\ LinksInv
  BY <1>2, TimeAssumption DEF TimeInv, LinksInv, Claimed
<1>4. \A r \in Request : ~Holding(r)
  BY <1>2 DEF Holding, Held, Claimed
<1>5. ClaimInv /\ HolderInv /\ AloneInv
  BY <1>2, <1>4 DEF ClaimInv, HolderInv, AloneInv
<1> QED
  BY <1>1, <1>3, <1>5 DEF HoldInv

\* A controller that is not given up calls the adapter only while its request holds the
\* lease, and then the storage does not know its turn as a terminal one.
THEOREM NoTerminalTurnReplayed == Spec => TerminalNotReplayed
<1> DEFINE Fresh == \A r \in Request :
                      started'[r] /\ ~started[r] /\ pc[r] \in {"streaming", "settling"} =>
                         turn[r] \notin ToSet(storedTerminal)
<1>1. ASSUME HoldInv, [Next]_vars PROVE [Fresh]_vars
  <2> SUFFICES ASSUME NEW r \in Request, pc[r] \in {"streaming", "settling"}
               PROVE  turn[r] \notin ToSet(storedTerminal)
    OBVIOUS
  <2>1. /\ now \in Nat /\ born[r] \in Nat /\ active[r].expires \in Nat /\ timer[r] \in Nat
        /\ Timeout \in Nat \ {0} /\ CleanupTimeout \in Nat \ {0}
    BY <1>1, LeaseFacts, TimeAssumption DEF HoldInv, SnapInv, TypeInv, TypeOK
  <2>2. active[r].expires >= born[r] + LeaseMs
    BY <1>1 DEF HoldInv, TimeInv, Claimed
  <2>3. pc[r] = "streaming" => now <= born[r] + Timeout
    BY <1>1 DEF HoldInv, TimeInv, Before
  <2>4. pc[r] = "settling" => now <= born[r] + Timeout + CleanupTimeout
    BY <1>1, <2>1 DEF HoldInv, TimeInv
  <2>5. Holding(r)
    BY <2>1, <2>2, <2>3, <2>4 DEF Holding, Held, Claimed, LeaseMs
  <2> QED
    BY <1>1, <2>5 DEF HoldInv, HolderInv
<1> QED
  BY InitHold, HoldStep, <1>1, PTL DEF Spec, TerminalNotReplayed

\* Without a cost policy the lease outlasts the use of the transcript, so that two
\* requests never have it in hand at once.
THEOREM OneTranscriptHolder == ASSUME ~Metered PROVE Spec => []TranscriptExclusive
<1>1. ASSUME HoldInv PROVE TranscriptExclusive
  <2> DEFINE Using(r) == pc[r] \in {"loading", "streaming", "settling", "costing", "saving"}
  <2>1. ASSUME NEW r \in Request, Using(r) PROVE Holding(r)
    <3>1. now \in Nat /\ born[r] \in Nat /\ timer[r] \in Nat /\ active[r].expires \in Nat
      BY <1>1, LeaseFacts DEF HoldInv, SnapInv, TypeInv, TypeOK
    <3>2. pc[r] \in Held
      BY <2>1 DEF Held, Claimed
    <3>3. active[r].expires >= born[r] + LeaseMs
      BY <1>1, <3>2 DEF HoldInv, TimeInv, Held
    <3>4. now <= born[r] + Timeout + 2 * CleanupTimeout
      <4>1. CASE pc[r] \in {"loading", "streaming"}
        BY <1>1, <3>1, <4>1, TimeAssumption DEF HoldInv, TimeInv, Before
      <4>2. CASE pc[r] = "settling"
        BY <1>1, <3>1, <4>2, TimeAssumption DEF HoldInv, TimeInv
      <4>3. CASE pc[r] = "saving"
        BY <1>1, <3>1, <4>3, TimeAssumption DEF HoldInv, TimeInv
      <4>4. pc[r] # "costing"
        BY <1>1 DEF HoldInv, TimeInv
      <4> QED
        BY <2>1, <4>1, <4>2, <4>3, <4>4
    <3> QED
      BY <3>1, <3>2, <3>3, <3>4, TimeAssumption DEF Holding, LeaseMs
  <2> QED
    BY <1>1, <2>1 DEF HoldInv, AloneInv, Rival, TranscriptExclusive
<1> QED
  BY InitHold, HoldStep, <1>1, PTL DEF Spec

-----------------------------------------------------------------------------
(* Cost: what a metered request has reserved, and what it will be charged *)

CostInv ==
    \A r \in Request :
        /\ send[r] # "none" => pc[r] \in {"streaming"} \union Cleaning \union Over
        /\ started[r] => send[r] # "none"
        /\ ~started[r] => hold[r] # "committed" /\ costWire[r] # "commit"
        /\ Metered /\ costWire[r] = "granted" /\ pc[r] = "reserving" => hold[r] = "held"
        /\ Metered /\ pc[r] \in {"loading", "streaming", "settling"} =>
              hold[r] = "held" /\ costWire[r] = "none"
        /\ Metered /\ started[r] /\ send[r] = "over"
              /\ pc[r] \in {"costing", "saving", "releasing", "done"} =>
              \/ costWire[r] = "commit" /\ hold[r] = "held"
              \/ costWire[r] \in {"settled", "none"} /\ hold[r] = "committed"

LEMMA CostStep == TypeInv /\ CostInv /\ [Next]_vars => CostInv'
<1> SUFFICES ASSUME TypeInv /\ CostInv, [Next]_vars PROVE CostInv'
  OBVIOUS
<1>0. CASE UNCHANGED vars
  BY <1>0 DEF vars, model, cost, request, CostInv
<1>1. ASSUME Tick PROVE CostInv'
  BY <1>1 DEF Tick, model, cost, request, CostInv
<1>2. ASSUME NEW r \in Request, Receive(r) PROVE CostInv'
  BY <1>2 DEF Receive, Goto, store, session, model, cost, CostInv, Cleaning, Over
<1>3. ASSUME NEW r \in Request, ReadSession(r) PROVE CostInv'
  BY <1>3 DEF ReadSession, Goto, store, queue, model, cost, CostInv, Cleaning, Over
<1>4. ASSUME NEW r \in Request, Refuse(r) PROVE CostInv'
  BY <1>4 DEF Refuse, Goto, store, session, model, cost, CostInv, Cleaning, Over
<1>5. ASSUME NEW r \in Request, ClaimTurn(r) PROVE CostInv'
  BY <1>5 DEF ClaimTurn, Busy, Goto, store, model, cost, CostInv, Cleaning, Over
<1>6. ASSUME NEW r \in Request, StartSave(r) PROVE CostInv'
  BY <1>6 DEF StartSave, store, model, cost, request, CostInv
<1>7. ASSUME NEW r \in Request, SkipSave(r) PROVE CostInv'
  BY <1>7 DEF SkipSave, store, model, cost, request, CostInv
<1>8. ASSUME NEW r \in Request, StoreSave(r) PROVE CostInv'
  BY <1>8 DEF StoreSave, model, cost, request, CostInv
<1>9. ASSUME NEW r \in Request, LoseSave(r) PROVE CostInv'
  BY <1>9 DEF LoseSave, store, model, cost, request, CostInv
<1>10. ASSUME NEW r \in Request, ClaimSaved(r) PROVE CostInv'
  <2>1. Unlink(r, "stored") /\ pc[r] = "claiming" /\ \A q \in Request \ {r} : pc'[q] = pc[q]
    BY <1>10, GotoEffect DEF ClaimSaved, HeadIs, Waited, WaitOf
  <2>2. /\ \A q \in Request \ {r} : costWire'[q] = costWire[q]
        /\ \/ Metered /\ pc'[r] = "reserving" /\ costWire'[r] = "reserve"
           \/ ~Metered /\ pc'[r] = "loading" /\ costWire'[r] = costWire[r]
    BY <1>10, GotoEffect DEF ClaimSaved, TypeInv, TypeOK
  <2> QED
    BY <2>1, <2>2, UnlinkEffect DEF CostInv, Before, Cleaning, Over, Claimed
<1>11. ASSUME NEW r \in Request, ClaimFailed(r) PROVE CostInv'
  BY <1>11 DEF ClaimFailed, HeadIs, Unlink, Goto, store, model, TypeInv, CostInv, Cleaning,
     Over, Waited, WaitOf
<1>12. ASSUME NEW r \in Request, SnapshotSaved(r) PROVE CostInv'
  BY <1>12 DEF SnapshotSaved, Unlink, model, CostInv
<1>13. ASSUME NEW r \in Request, SnapshotFailed(r) PROVE CostInv'
  <2>1. /\ pc[r] = "streaming" /\ pc' = [pc EXCEPT ![r] = "settling"]
        /\ timer' = [timer EXCEPT ![r] = now + CleanupTimeout]
    BY <1>13, SnapshotEffect
  <2> QED
    BY <1>13, <2>1 DEF SnapshotFailed, Unlink, store, model, CostInv, Cleaning
<1>14. ASSUME NEW r \in Request, Released(r) PROVE CostInv'
  BY <1>14 DEF Released, Ended, HeadIs, Unlink, Goto, store, model, TypeInv, CostInv, Over,
     Waited,
     WaitOf
<1>15. ASSUME NEW r \in Request, LateAnswer(r) PROVE CostInv'
  BY <1>15 DEF LateAnswer, Unlink, model, CostInv
<1>16. ASSUME NEW r \in Request, CostLands(r) PROVE CostInv'
  BY <1>16 DEF CostLands, store, model, request, TypeInv, TypeOK, CostInv
<1>17. ASSUME NEW r \in Request, ReserveAnswered(r) PROVE CostInv'
  BY <1>17, SMTT(20) DEF ReserveAnswered, BeginRelease, Phase, Goto, store, model, TypeInv, TypeOK,
     CostInv, Cleaning, Over
<1>18. ASSUME NEW r \in Request, UndoAnswered(r) PROVE CostInv'
  BY <1>18 DEF UndoAnswered, BeginRelease, Phase, Goto, store, model, CostInv, Cleaning, Over
<1>19. ASSUME NEW r \in Request, LateCost(r) PROVE CostInv'
  BY <1>19 DEF LateCost, store, model, request, CostInv
<1>20. ASSUME NEW r \in Request, MemoryLoaded(r) PROVE CostInv'
  BY <1>20 DEF MemoryLoaded, Goto, cost, TypeInv, TypeOK, CostInv
<1>21. ASSUME NEW r \in Request, MemoryFails(r) PROVE CostInv'
  <2>1. CASE BeginRelease(r) /\ UNCHANGED cost
    BY <1>21, <2>1 DEF MemoryFails, BeginRelease, Phase, Goto, model, cost, CostInv, Cleaning,
       Over
  <2>2. CASE Goto(r, "undoing") /\ costWire' = [costWire EXCEPT ![r] = "release"] /\ UNCHANGED hold
    BY <1>21, <2>2 DEF MemoryFails, Goto, model, TypeInv, TypeOK, CostInv, Cleaning, Over
  <2> QED
    BY <1>21, <2>1, <2>2 DEF MemoryFails, Undo
<1>22. ASSUME NEW r \in Request, Dispatch(r) PROVE CostInv'
  BY <1>22 DEF Dispatch, store, cost, request, CostInv
<1>23. ASSUME NEW r \in Request, SendEnds(r) PROVE CostInv'
  BY <1>23 DEF SendEnds, store, cost, request, CostInv
<1>24. ASSUME NEW r \in Request, PersistSnapshot(r) PROVE CostInv'
  BY <1>24 DEF PersistSnapshot, store, model, cost, request, CostInv
<1>25. ASSUME NEW r \in Request, Enters(r) PROVE CostInv'
  <2>1. CASE UNCHANGED <<pc, timer>>
    BY <1>25, <2>1, EnterEffect DEF model, cost, request, CostInv
  <2>2. CASE /\ pc[r] = "streaming" /\ pc' = [pc EXCEPT ![r] = "settling"]
             /\ timer' = [timer EXCEPT ![r] = now + CleanupTimeout]
    BY <1>25, <2>2, EnterEffect DEF store, session, model, cost, CostInv, Cleaning
  <2> QED
    BY <1>25, <2>1, <2>2, EnterEffect, CleanupEffect
<1>26. ASSUME NEW r \in Request, Abort(r) PROVE CostInv'
  <2>1. CASE /\ pc[r] = "loading" /\ Goto(r, "undoing") /\ UNCHANGED hold
             /\ costWire' = [costWire EXCEPT ![r] = "release"]
    BY <1>26, <2>1 DEF Abort, Goto, model, TypeInv, TypeOK, CostInv, Cleaning, Over
  <2>2. CASE pc[r] \in {"reserving", "loading"} /\ Goto(r, "releasing") /\ UNCHANGED cost
    BY <1>26, <2>2 DEF Abort, Goto, model, cost, CostInv, Cleaning, Over
  <2>3. CASE pc[r] = "streaming" /\ Goto(r, "settling") /\ UNCHANGED cost
    BY <1>26, <2>3 DEF Abort, Goto, model, cost, CostInv, Cleaning
  <2>4. CASE pc[r] \in {"resuming", "resumed", "claiming"} /\ Goto(r, "done") /\ UNCHANGED cost
    BY <1>26, <2>4 DEF Abort, Goto, model, cost, CostInv, Cleaning, Over
  <2> QED
    BY <1>26, <2>1, <2>2, <2>3, <2>4 DEF Abort, Undo, BeginRelease, EnterCleanup, Closed, Phase
<1>27. ASSUME NEW r \in Request, Settled(r) PROVE CostInv'
  <2>1. /\ pc[r] = "settling" /\ UNCHANGED <<started, send, hold>>
        /\ \/ pc' = [pc EXCEPT ![r] = "costing"] /\ costWire' = [costWire EXCEPT ![r] = Settlement(r)]
           \/ ~Metered /\ pc' = [pc EXCEPT ![r] = "saving"] /\ costWire' = costWire
    BY <1>27 DEF Settled, Phase, Goto, model
  <2>2. CASE /\ pc' = [pc EXCEPT ![r] = "costing"] /\ started[r]
             /\ costWire' = [costWire EXCEPT ![r] = "commit"]
    BY <2>1, <2>2 DEF TypeInv, TypeOK, CostInv, Cleaning
  <2>3. CASE /\ pc' = [pc EXCEPT ![r] = "costing"] /\ ~started[r]
             /\ costWire' = [costWire EXCEPT ![r] = "release"]
    BY <2>1, <2>3 DEF TypeInv, TypeOK, CostInv, Cleaning
  <2>4. CASE ~Metered /\ pc' = [pc EXCEPT ![r] = "saving"] /\ costWire' = costWire
    BY <2>1, <2>4 DEF CostInv, Cleaning
  <2> QED
    BY <2>1, <2>2, <2>3, <2>4 DEF Settlement
<1>28. ASSUME NEW r \in Request, CostSettled(r) PROVE CostInv'
  BY <1>28 DEF CostSettled, Phase, Goto, store, model, TypeInv, TypeOK, CostInv, Cleaning
<1>29. ASSUME NEW r \in Request, MemorySaved(r) PROVE CostInv'
  BY <1>29 DEF MemorySaved, BeginRelease, Phase, Goto, model, cost, CostInv, Before, Cleaning
<1>30. ASSUME NEW r \in Request, ReleaseTimesOut(r) PROVE CostInv'
  BY <1>30 DEF ReleaseTimesOut, Ended, Goto, model, cost, CostInv, Over
<1>31. ASSUME NEW r \in Request, Crash(r) PROVE CostInv'
  BY <1>31 DEF Crash, Goto, store, session, model, cost, CostInv, Over
<1>32. ASSUME NEW r \in Request, Admit(r) PROVE CostInv'
  BY <1>32, <1>2, <1>3, <1>4, <1>5 DEF Admit
<1>33. ASSUME NEW r \in Request, Persist(r) PROVE CostInv'
  BY <1>33, <1>6, <1>7, <1>8, <1>9, <1>10, <1>11, <1>12, <1>13, <1>14, <1>15 DEF Persist
<1>34. ASSUME NEW r \in Request, Meter(r) PROVE CostInv'
  BY <1>34, <1>16, <1>17, <1>18, <1>19 DEF Meter
<1>35. ASSUME NEW r \in Request, Stream(r) PROVE CostInv'
  BY <1>35, <1>20, <1>21, <1>22, <1>23, <1>24, <1>25 DEF Stream, Enters
<1>36. ASSUME NEW r \in Request, End(r) PROVE CostInv'
  BY <1>36, <1>26, <1>27, <1>28, <1>29, <1>30, <1>31 DEF End
<1> QED
  BY <1>0, <1>1, <1>32, <1>33, <1>34, <1>35, <1>36 DEF Next

\* A metered request is charged only when its turn reached the model, and then always,
\* unless its cleanup gave up waiting for the controller.
THEOREM ChargedExactly == Spec => []ChargedIffDispatched
<1>1. Init => TypeInv /\ CostInv
  BY InitTypes DEF Init, CostInv
<1>2. TypeInv /\ CostInv /\ [Next]_vars => (TypeInv /\ CostInv)'
  BY TypeStep, CostStep
<1>3. TypeInv /\ CostInv => ChargedIffDispatched
  BY DEF TypeInv, TypeOK, CostInv, ChargedIffDispatched
<1> QED
  BY <1>1, <1>2, <1>3, PTL DEF Spec

\* However often the cleanup of a request is entered, it settles the reservation once:
\* each call that settles one finds it held and no other call on its way.
THEOREM OneSettlement == Spec => SettledOnce
<1> DEFINE Once == \A r \in Request :
                      costWire'[r] # costWire[r] /\ costWire'[r] \in {"release", "commit"} =>
                         hold[r] = "held" /\ costWire[r] = "none"
<1>1. ASSUME TypeInv /\ CostInv, [Next]_vars PROVE [Once]_vars
  <2> SUFFICES ASSUME NEW r \in Request, costWire'[r] # costWire[r],
                      costWire'[r] \in {"release", "commit"}
               PROVE  hold[r] = "held" /\ costWire[r] = "none"
    OBVIOUS
  <2>1. (Undo(r) /\ pc[r] = "loading") \/ Settled(r)
    <3>1. ASSUME NEW q \in Request, Admit(q) PROVE FALSE
      BY <3>1 DEF Admit, Receive, ReadSession, Refuse, ClaimTurn, cost
    <3>2. ASSUME NEW q \in Request, Persist(q) PROVE FALSE
      BY <1>1, <3>2 DEF Persist, StartSave, SkipSave, StoreSave, LoseSave, ClaimSaved,
         ClaimFailed, SnapshotSaved, SnapshotFailed, Released, LateAnswer, cost, TypeInv, TypeOK
    <3>3. ASSUME NEW q \in Request, Meter(q) PROVE FALSE
      BY <1>1, <3>3 DEF Meter, CostLands, ReserveAnswered, UndoAnswered, LateCost, TypeInv,
         TypeOK
    <3>4. ASSUME NEW q \in Request, Stream(q) PROVE q = r /\ MemoryFails(r)
      BY <1>1, <3>4 DEF Stream, MemoryLoaded, MemoryFails, Undo, Dispatch, SendEnds,
         PersistSnapshot, Finish, Cancel, PullAborted, cost, TypeInv, TypeOK
    <3>5. ASSUME NEW q \in Request, End(q)
          PROVE  q = r /\ ((pc[r] = "loading" /\ Undo(r)) \/ Settled(r))
      BY <1>1, <3>5 DEF End, Abort, Undo, Settled, CostSettled, MemorySaved, ReleaseTimesOut,
         Crash, cost, TypeInv, TypeOK
    <3> QED
      BY <1>1, <3>1, <3>2, <3>3, <3>4, <3>5 DEF Next, vars, cost, Tick, MemoryFails
  <2>2. Metered /\ pc[r] \in {"loading", "settling"}
    BY <2>1 DEF Undo, Settled, cost
  <2> QED
    BY <1>1, <2>2 DEF CostInv
<1>2. Init => TypeInv /\ CostInv
  BY InitTypes DEF Init, CostInv
<1>3. TypeInv /\ CostInv /\ [Next]_vars => (TypeInv /\ CostInv)'
  BY TypeStep, CostStep
<1> QED
  BY <1>1, <1>2, <1>3, PTL DEF Spec, SettledOnce

=============================================================================
