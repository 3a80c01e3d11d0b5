---------------------- MODULE SessionConfirmationProofs ----------------------
(***************************************************************************)
(* Proofs about SessionConfirmation, for every set of clients and calls:   *)
(* the type invariant, that a client asks its upstream controller about a  *)
(* call at most once, that a stored success was asked for, and that a      *)
(* session whose clients run one operation at a time asks at most once     *)
(* across all of them; its clients then implement SharedDecision.          *)
(***************************************************************************)
EXTENDS SessionConfirmation, SequenceTheorems, TLAPS

-----------------------------------------------------------------------------
(* Sequences *)

LEMMA AppendFacts ==
    ASSUME NEW S, NEW s \in Seq(S), NEW x \in S
    PROVE  /\ Append(s, x) \in Seq(S)
           /\ Len(Append(s, x)) = Len(s) + 1
           /\ \A i \in 1 .. Len(s) : Append(s, x)[i] = s[i]
           /\ Append(s, x)[Len(s) + 1] = x
           /\ Append(s, x) # <<>>
  OBVIOUS

LEMMA TailFacts ==
    ASSUME NEW S, NEW s \in Seq(S), s # <<>>
    PROVE  /\ Tail(s) \in Seq(S)
           /\ Head(s) \in S
           /\ Head(s) = s[1]
           /\ Len(s) \in Nat \ {0}
           /\ Len(Tail(s)) = Len(s) - 1
           /\ \A i \in 1 .. Len(Tail(s)) : Tail(s)[i] = s[i + 1]
  OBVIOUS

-----------------------------------------------------------------------------
(* Types *)

USE DEF Entry, Record, Processing, Terminal, Table

LEMMA TerminalOfType == \A s \in Processing : TerminalOf[s] \in Terminal
  BY DEF TerminalOf

\* An operation in flight knows the status it claims.
ClaimNamed == \A c \in Client, k \in Call : opPc[c][k] # "idle" => opTo[c][k] \in Processing

TypeInv == TypeOK /\ ClaimNamed

LEMMA InitTypes == Init => TypeInv
  BY DEF Init, TypeInv, TypeOK, ClaimNamed, Empty

\* What a link of the queue is made of.
LEMMA TicketTypes ==
    ASSUME TypeOK, NEW c \in Client
    PROVE  /\ [for |-> "touch"] \in Ticket
           /\ \A k \in Call, f \in {"claim", "propose"} :
                 [for |-> f, call |-> k, prev |-> table[c]] \in Ticket
           /\ queue[c] # <<>> =>
                 /\ Head(queue[c]) \in Ticket
                 /\ Tail(queue[c]) \in Seq(Ticket)
           /\ \A t \in Ticket : t.for # "touch" =>
                 t.for \in {"claim", "propose"} /\ t.call \in Call /\ t.prev \in Table
  BY DEF TypeOK, Ticket

LEMMA EnqueueType ==
    ASSUME TypeOK, NEW c \in Client, NEW k \in Call, NEW f \in {"claim", "propose"},
           Enqueue(c, f, k)
    PROVE  queue' \in [Client -> Seq(Ticket)]
<1> DEFINE t == [for |-> f, call |-> k, prev |-> table[c]]
<1>1. t \in Ticket
  BY TicketTypes
<1> HIDE DEF t
<1>2. Append(queue[c], t) \in Seq(Ticket)
  BY <1>1, AppendFacts DEF TypeOK
<1>3. queue' = [queue EXCEPT ![c] = Append(queue[c], t)]
  BY DEF Enqueue, t
<1> QED
  BY <1>2, <1>3 DEF TypeOK

LEMMA TypeStep == TypeInv /\ [Next]_vars => TypeInv'
<1> SUFFICES ASSUME TypeInv, [Next]_vars PROVE TypeInv'
  OBVIOUS
<1> USE DEF TypeInv, TypeOK, ClaimNamed, Empty
<1>0. CASE UNCHANGED vars
  BY <1>0 DEF vars, store, session, coordinator, world
<1>1. ASSUME NEW c \in Client, Resume(c) PROVE TypeInv'
  BY <1>1 DEF Resume, store, world
<1>2. ASSUME NEW c \in Client, Crash(c) PROVE TypeInv'
  BY <1>2 DEF Crash, store, world
<1>3. ASSUME NEW c \in Client, Touch(c) PROVE TypeInv'
  BY <1>3, TicketTypes DEF Touch, store, coordinator, world
<1>4. ASSUME NEW c \in Client, StartSave(c) PROVE TypeInv'
  BY <1>4 DEF StartSave, store, coordinator, world
<1>5. ASSUME NEW c \in Client, StoreSave(c) PROVE TypeInv'
  <2>1. /\ Answer(c, "stored") \in {"none", "sent", "stored", "failed"}
        /\ Answer(c, "failed") \in {"none", "sent", "stored", "failed"}
    BY DEF Answer
  <2>2. wireState' \in [Client -> {"none", "sent", "stored", "failed"}]
    BY <1>5, <2>1 DEF StoreSave
  <2>3. storedCursor' \in Nat /\ storedTable' \in Table
    BY <1>5 DEF StoreSave, store
  <2> QED
    BY <1>5, <2>2, <2>3 DEF StoreSave, coordinator, world
<1>6. ASSUME NEW c \in Client, LoseSave(c) PROVE TypeInv'
  BY <1>6 DEF LoseSave, store, coordinator
<1>7. ASSUME NEW c \in Client, ClaimSaved(c) PROVE TypeInv'
  <2> DEFINE k == Head(queue[c]).call
  <2>1. k \in Call /\ Tail(queue[c]) \in Seq(Ticket)
    BY <1>7, TicketTypes DEF ClaimSaved, Saved
  <2>2. opTo[c][k] \in Processing
    BY <1>7, <2>1 DEF ClaimSaved
  <2>3. asked' \in [Client -> [Call -> Seq(Processing)]]
    BY <1>7, <2>1, <2>2 DEF ClaimSaved
  <2> QED
    BY <1>7, <2>1, <2>2, <2>3 DEF ClaimSaved, Saved, store
<1>8. ASSUME NEW c \in Client, SettleSaved(c) PROVE TypeInv'
  <2> DEFINE k == Head(queue[c]).call
  <2>1. k \in Call /\ Tail(queue[c]) \in Seq(Ticket)
    BY <1>8, TicketTypes DEF SettleSaved, Saved
  <2>2. TerminalOf[opTo[c][k]] \in Terminal
    BY <1>8, <2>1, TerminalOfType DEF SettleSaved
  <2> QED
    BY <1>8, <2>1, <2>2 DEF SettleSaved, Saved, store
<1>9. ASSUME NEW c \in Client, ProposeSaved(c) PROVE TypeInv'
  BY <1>9, TicketTypes DEF ProposeSaved, Saved, store
<1>10. ASSUME NEW c \in Client, TouchSaved(c) PROVE TypeInv'
  BY <1>10, TicketTypes DEF TouchSaved, Saved, store, coordinator
<1>11. ASSUME NEW c \in Client, SaveFailed(c) PROVE TypeInv'
  <2> DEFINE head == Head(queue[c])
  <2>1. /\ head \in Ticket
        /\ Tail(queue[c]) \in Seq(Ticket)
        /\ head.for # "touch" => head.call \in Call /\ head.prev \in Table
    BY <1>11, TicketTypes DEF SaveFailed
  <2> HIDE DEF head
  <2>2. /\ queue' \in [Client -> Seq(Ticket)]
        /\ wireState' \in [Client -> {"none", "sent", "stored", "failed"}]
        /\ wireTable' \in [Client -> Table]
    BY <1>11, <2>1 DEF SaveFailed
  <2>3. CASE head.for = "claim" /\ UNCHANGED propPc
             /\ table' = [table EXCEPT ![c] = head.prev]
             /\ opPc' = [opPc EXCEPT ![c][head.call] = "idle"]
             /\ opTo' = [opTo EXCEPT ![c][head.call] = "none"]
    BY <1>11, <2>1, <2>2, <2>3 DEF SaveFailed, store, world
  <2>4. CASE head.for = "propose" /\ UNCHANGED <<opPc, opTo>>
             /\ table' = [table EXCEPT ![c] = head.prev]
             /\ propPc' = [propPc EXCEPT ![c][head.call] = "done"]
    BY <1>11, <2>1, <2>2, <2>4 DEF SaveFailed, store, world
  <2>5. CASE head.for = "touch" /\ UNCHANGED <<table, opPc, opTo, propPc>>
    BY <1>11, <2>1, <2>2, <2>5 DEF SaveFailed, store, world
  <2> QED
    BY <1>11, <2>3, <2>4, <2>5 DEF SaveFailed, head
<1>12. ASSUME NEW c \in Client, NEW k \in Call, Propose(c, k) PROVE TypeInv'
  BY <1>12 DEF Propose, store, session
<1>13. ASSUME NEW c \in Client, NEW k \in Call, ProposeThrows(c, k) PROVE TypeInv'
  BY <1>13 DEF ProposeThrows, store, session, world
<1>14. ASSUME NEW c \in Client, NEW k \in Call, ProposeAlreadyDecided(c, k) PROVE TypeInv'
  BY <1>14 DEF ProposeAlreadyDecided, store, session, world
<1>15. ASSUME NEW c \in Client, NEW k \in Call, NEW status \in {"pending", "rejected"},
              ProposeReturns(c, k, status)
       PROVE TypeInv'
  <2>1. queue' \in [Client -> Seq(Ticket)]
    BY <1>15, EnqueueType DEF ProposeReturns
  <2>2. records' \in [Client -> [Call -> Record]]
    BY <1>15 DEF ProposeReturns
  <2>3. Published(records'[c]) \in Table
    BY <2>2 DEF Published
  <2>4. table' \in [Client -> Table]
    BY <1>15, <2>3 DEF ProposeReturns
  <2> QED
    BY <1>15, <2>1, <2>2, <2>4 DEF ProposeReturns, store, world
<1>16. ASSUME NEW c \in Client, NEW k \in Call, NEW status \in Processing,
              NEW pc \in {"claiming", "settling"}, Claim(c, k, status, pc)
       PROVE TypeInv'
  <2>1. queue' \in [Client -> Seq(Ticket)]
    BY <1>16, EnqueueType DEF Claim
  <2>2. ASSUME NEW s \in Processing \union Terminal PROVE WithStatus(table[c], k, s) \in Table
    BY DEF WithStatus
  <2>3. table' \in [Client -> Table]
    BY <1>16, <2>2, TerminalOfType DEF Claim
  <2> QED
    BY <1>16, <2>1, <2>3 DEF Claim, store, world
<1>17. ASSUME NEW c \in Client, NEW k \in Call, UpstreamThrows(c, k) PROVE TypeInv'
  BY <1>17 DEF UpstreamThrows, store, session, world
<1>18. ASSUME NEW k \in Call, Lapse(k) PROVE TypeInv'
  BY <1>18 DEF Lapse, store, session, coordinator
<1>19. ASSUME NEW c \in Client, NEW k \in Call, Approve(c, k) PROVE TypeInv'
  BY <1>16, <1>19 DEF Approve
<1>20. ASSUME NEW c \in Client, NEW k \in Call, Reject(c, k) PROVE TypeInv'
  BY <1>16, <1>20 DEF Reject
<1>21. ASSUME NEW c \in Client, NEW k \in Call, UpstreamResolves(c, k) PROVE TypeInv'
  <2>1. opTo[c][k] \in Processing
    BY <1>21 DEF UpstreamResolves
  <2>2. Claim(c, k, opTo[c][k], "settling")
    BY <1>21 DEF UpstreamResolves
  <2> HIDE DEF TypeInv
  <2> QED
    BY <1>16, <2>1, <2>2
<1> HIDE DEF TypeInv, TypeOK
<1>22. ASSUME NEW c \in Client, Persist(c) PROVE TypeInv'
  BY <1>22, <1>3, <1>4, <1>5, <1>6, <1>7, <1>8, <1>9, <1>10, <1>11 DEF Persist
<1>23. ASSUME NEW c \in Client, NEW k \in Call, Coordinate(c, k) PROVE TypeInv'
  BY <1>23, <1>12, <1>13, <1>14, <1>15, <1>17, <1>19, <1>20, <1>21 DEF Coordinate
<1> QED
  BY <1>0, <1>1, <1>2, <1>18, <1>22, <1>23 DEF Next

\* Type correctness: every variable keeps its type in every behaviour.
THEOREM TypeCorrect == Spec => []TypeOK
<1>1. Spec => []TypeInv
  BY InitTypes, TypeStep, PTL DEF Spec
<1> QED
  BY <1>1, PTL DEF TypeInv
-----------------------------------------------------------------------------
(* The inductive invariant behind AskedOnce, when Overlap is FALSE *)

\* The links of the queue an operation waits for.
Waiters(q) == {i \in 1 .. Len(q) : q[i].for # "touch"}

\* Ids are fresh: nothing mentions a call before it is proposed.
IssuedHeld ==
    \A k \in Call \ issued :
        /\ storedTable[k] = "none"
        /\ \A c \in Client :
              /\ records[c][k] = "none" /\ table[c][k] = "none" /\ wireTable[c][k] = "none"
              /\ opPc[c][k] = "idle" /\ asked[c][k] = <<>>

IssuedQueued ==
    \A k \in Call \ issued, c \in Client : \A i \in Waiters(queue[c]) : queue[c][i].prev[k] = "none"

IssuedInv == IssuedHeld /\ IssuedQueued

\* A client is never ahead of the storage; an absent one holds nothing; a save
\* in flight belongs to the head of the queue.
CursorInv ==
    \A c \in Client :
        /\ cursor[c] <= storedCursor
        /\ wireState[c] = "stored" => cursor[c] < storedCursor
        /\ phase[c] = "absent" => wireState[c] = "none" /\ \A k \in Call : asked[c][k] = <<>>
        /\ phase[c] # "up" => queue[c] = <<>> /\ \A k \in Call : opPc[c][k] = "idle"
        /\ phase[c] = "up" /\ wireState[c] # "none" => queue[c] # <<>>

ProposeActive(c, k) == propPc[c][k] \in {"upstream", "saving"}

\* At most one operation of a client is in flight.
OneOperation(c) ==
    /\ \A k, l \in Call : opPc[c][k] # "idle" /\ opPc[c][l] # "idle" => k = l
    /\ \A k, l \in Call : ProposeActive(c, k) /\ ProposeActive(c, l) => k = l
    /\ \A k, l \in Call : ~(opPc[c][k] # "idle" /\ ProposeActive(c, l))

\* It waits for at most one link of the queue, which is its own.
OneWaiter(c) ==
    /\ \A i, j \in Waiters(queue[c]) : i = j
    /\ \A i \in Waiters(queue[c]) :
          \/ /\ queue[c][i].for = "claim"
             /\ opPc[c][queue[c][i].call] \in {"claiming", "settling"}
          \/ /\ queue[c][i].for = "propose"
             /\ propPc[c][queue[c][i].call] = "saving"

\* What a client is claiming is in its table, and in the save sent for the claim, as it
\* will ask for it, or missing.
Claimed(s) == {"none", s}

ClaimShown(c) ==
    \A k \in Call : opPc[c][k] = "claiming" =>
        /\ table[c][k] \in Claimed(opTo[c][k])
        /\ wireState[c] = "sent" /\ Head(queue[c]).for = "claim" =>
              wireTable[c][k] \in Claimed(opTo[c][k])

OperationInv == \A c \in Client : OneOperation(c)
WaiterInv == \A c \in Client : OneWaiter(c)
ShownInv == \A c \in Client : ClaimShown(c)

\* The claim of c is stored and c has yet to hear of it.
Won(c, k) ==
    /\ phase[c] = "up"
    /\ wireState[c] = "stored"
    /\ Head(queue[c]).for = "claim"
    /\ Head(queue[c]).call = k
    /\ opPc[c][k] = "claiming"

Committed(c, k) == asked[c][k] # <<>> \/ Won(c, k)

\* A save of c, sent or still to be sent, can be stored as things stand.
Current(c) ==
    \/ phase[c] = "up" /\ wireState[c] = "stored" /\ cursor[c] + 1 = storedCursor
    \/ phase[c] = "up" /\ wireState[c] # "stored" /\ cursor[c] = storedCursor
    \/ wireState[c] = "sent" /\ cursor[c] = storedCursor

\* Nothing client c does can decide call k, or store it as pending.
Inert(c, k) ==
    /\ records[c][k] \notin {"pending", "provisional"}
    /\ opPc[c][k] # "claiming"
    /\ table[c][k] # "pending"
    /\ wireState[c] = "sent" => wireTable[c][k] # "pending"
    /\ \A i \in Waiters(queue[c]) : queue[c][i].prev[k] # "pending"

AskedInv ==
    \A c \in Client, k \in Call :
        asked[c][k] # <<>> => Inert(c, k) /\ Len(asked[c][k]) = 1

CommitInv ==
    \A c \in Client, k \in Call : Committed(c, k) =>
        /\ storedTable[k] # "pending"
        /\ \A d \in Client \ {c} : ~Committed(d, k) /\ (Current(d) => Inert(d, k))


-----------------------------------------------------------------------------
(* The queue *)

LEMMA WaiterTypes ==
    ASSUME TypeOK, NEW c \in Client, NEW i \in Waiters(queue[c])
    PROVE  /\ queue[c][i].for \in {"claim", "propose"}
           /\ queue[c][i].call \in Call
           /\ queue[c][i].prev \in Table
<1>1. queue[c][i] \in Ticket /\ queue[c][i].for # "touch"
  BY DEF TypeOK, Waiters
<1> QED
  BY <1>1, TicketTypes

LEMMA EnqueueFacts ==
    ASSUME TypeOK, NEW c \in Client, NEW k \in Call, NEW f \in {"claim", "propose"},
           Enqueue(c, f, k)
    PROVE  /\ queue'[c] # <<>>
           /\ queue[c] # <<>> => Head(queue'[c]) = Head(queue[c])
           /\ queue[c] = <<>> => Head(queue'[c]).for = f /\ Head(queue'[c]).call = k
           /\ Waiters(queue'[c]) = Waiters(queue[c]) \union {Len(queue[c]) + 1}
           /\ \A i \in Waiters(queue[c]) : queue'[c][i] = queue[c][i]
           /\ Len(queue[c]) \in Nat
           /\ queue'[c][Len(queue[c]) + 1].for = f
           /\ queue'[c][Len(queue[c]) + 1].call = k
           /\ queue'[c][Len(queue[c]) + 1].prev = table[c]
           /\ \A d \in Client \ {c} : queue'[d] = queue[d] /\ Waiters(queue'[d]) = Waiters(queue[d])
<1> DEFINE t == [for |-> f, call |-> k, prev |-> table[c]]
<1>1. t \in Ticket /\ t.for # "touch" /\ t.for = f /\ t.call = k /\ t.prev = table[c]
  BY TicketTypes
<1> HIDE DEF t
<1>2. queue[c] \in Seq(Ticket)
  BY DEF TypeOK
<1>3. queue'[c] = Append(queue[c], t) /\ \A d \in Client \ {c} : queue'[d] = queue[d]
  BY DEF Enqueue, t, TypeOK
<1>4. /\ Len(queue'[c]) = Len(queue[c]) + 1
      /\ \A i \in 1 .. Len(queue[c]) : queue'[c][i] = queue[c][i]
      /\ queue'[c][Len(queue[c]) + 1] = t
      /\ queue'[c] # <<>> /\ Len(queue[c]) \in Nat
  BY <1>1, <1>2, <1>3, AppendFacts
<1>5. Waiters(queue'[c]) = Waiters(queue[c]) \union {Len(queue[c]) + 1}
  BY <1>1, <1>4 DEF Waiters
<1>6. \A i \in Waiters(queue[c]) : queue'[c][i] = queue[c][i]
  BY <1>4 DEF Waiters
<1>7. queue[c] # <<>> => Head(queue'[c]) = Head(queue[c])
  BY <1>1, <1>2, <1>3, <1>4, TailFacts
<1>8. queue[c] = <<>> => Head(queue'[c]) = t
  BY <1>1, <1>2, <1>3
<1>9. \A d \in Client \ {c} : Waiters(queue'[d]) = Waiters(queue[d])
  BY <1>3 DEF Waiters
<1> QED
  BY <1>1, <1>3, <1>4, <1>5, <1>6, <1>7, <1>8, <1>9

LEMMA EnqueueWaiters ==
    ASSUME TypeOK, NEW c \in Client, NEW k \in Call, NEW f \in {"claim", "propose"},
           Enqueue(c, f, k), NEW d \in Client, NEW i \in Waiters(queue'[d])
    PROVE  \/ i \in Waiters(queue[d]) /\ queue'[d][i] = queue[d][i]
           \/ /\ d = c
              /\ queue'[d][i].for = f /\ queue'[d][i].call = k /\ queue'[d][i].prev = table[c]
<1>1. CASE d = c
  <2>1. Waiters(queue'[c]) = Waiters(queue[c]) \union {Len(queue[c]) + 1}
    BY EnqueueFacts
  <2>2. \A j \in Waiters(queue[c]) : queue'[c][j] = queue[c][j]
    BY EnqueueFacts
  <2>3. /\ queue'[c][Len(queue[c]) + 1].for = f
        /\ queue'[c][Len(queue[c]) + 1].call = k
        /\ queue'[c][Len(queue[c]) + 1].prev = table[c]
    BY EnqueueFacts
  <2> QED
    BY <1>1, <2>1, <2>2, <2>3
<1>2. CASE d # c
  BY <1>2, EnqueueFacts
<1> QED
  BY <1>1, <1>2

LEMMA TouchFacts ==
    ASSUME TypeOK, NEW c \in Client,
           queue' = [queue EXCEPT ![c] = Append(@, [for |-> "touch"])]
    PROVE  /\ queue'[c] # <<>>
           /\ queue[c] # <<>> => Head(queue'[c]) = Head(queue[c])
           /\ queue[c] = <<>> => Head(queue'[c]).for = "touch"
           /\ \A d \in Client : Waiters(queue'[d]) = Waiters(queue[d])
           /\ \A d \in Client : \A i \in Waiters(queue[d]) : queue'[d][i] = queue[d][i]
           /\ \A d \in Client \ {c} : queue'[d] = queue[d]
<1> DEFINE t == [for |-> "touch"]
<1>1. t \in Ticket /\ t.for = "touch"
  BY TicketTypes
<1> HIDE DEF t
<1>2. queue[c] \in Seq(Ticket)
  BY DEF TypeOK
<1>3. queue'[c] = Append(queue[c], t) /\ \A d \in Client \ {c} : queue'[d] = queue[d]
  BY DEF t, TypeOK
<1>4. /\ Len(queue'[c]) = Len(queue[c]) + 1
      /\ \A i \in 1 .. Len(queue[c]) : queue'[c][i] = queue[c][i]
      /\ queue'[c][Len(queue[c]) + 1] = t
      /\ queue'[c] # <<>> /\ Len(queue[c]) \in Nat
  BY <1>1, <1>2, <1>3, AppendFacts
<1>5. Waiters(queue'[c]) = Waiters(queue[c]) /\ \A i \in Waiters(queue[c]) : queue'[c][i] = queue[c][i]
  BY <1>1, <1>4 DEF Waiters
<1>6. queue[c] # <<>> => Head(queue'[c]) = Head(queue[c])
  BY <1>1, <1>2, <1>3, <1>4, TailFacts
<1>7. queue[c] = <<>> => Head(queue'[c]) = t
  BY <1>1, <1>2, <1>3
<1>8. \A d \in Client \ {c} : Waiters(queue'[d]) = Waiters(queue[d])
  BY <1>3 DEF Waiters
<1> QED
  BY <1>1, <1>3, <1>4, <1>5, <1>6, <1>7, <1>8

LEMMA DequeueFacts ==
    ASSUME TypeOK, NEW c \in Client, queue[c] # <<>>,
           queue' = [queue EXCEPT ![c] = Tail(@)]
    PROVE  /\ \A i \in Waiters(queue'[c]) : i \in Nat /\ i + 1 \in Waiters(queue[c]) /\ i + 1 # 1
                                     /\ queue'[c][i] = queue[c][i + 1]
           /\ Head(queue[c]) = queue[c][1]
           /\ Head(queue[c]).for # "touch" => 1 \in Waiters(queue[c])
           /\ \A d \in Client \ {c} : queue'[d] = queue[d] /\ Waiters(queue'[d]) = Waiters(queue[d])
           /\ \A d \in Client : \A i \in Waiters(queue'[d]) :
                 \E j \in Waiters(queue[d]) : queue'[d][i] = queue[d][j]
<1>1. queue[c] \in Seq(Ticket)
  BY DEF TypeOK
<1>2. queue'[c] = Tail(queue[c]) /\ \A d \in Client \ {c} : queue'[d] = queue[d]
  BY DEF TypeOK
<1>3. /\ Head(queue[c]) = queue[c][1]
      /\ Len(queue[c]) \in Nat \ {0}
      /\ Len(queue'[c]) = Len(queue[c]) - 1
      /\ \A i \in 1 .. Len(queue'[c]) : queue'[c][i] = queue[c][i + 1]
  <2>1. /\ Head(queue[c]) = queue[c][1]
        /\ Len(queue[c]) \in Nat \ {0}
        /\ Len(Tail(queue[c])) = Len(queue[c]) - 1
        /\ \A i \in 1 .. Len(Tail(queue[c])) : Tail(queue[c])[i] = queue[c][i + 1]
    BY <1>1, TailFacts
  <2> QED
    BY <1>2, <2>1
<1>4. ASSUME NEW i \in Waiters(queue'[c])
      PROVE  i \in Nat /\ i + 1 \in Waiters(queue[c]) /\ i + 1 # 1 /\ queue'[c][i] = queue[c][i + 1]
  BY <1>3, <1>4 DEF Waiters
<1>5. Head(queue[c]).for # "touch" => 1 \in Waiters(queue[c])
  BY <1>3 DEF Waiters
<1>6. \A d \in Client \ {c} : Waiters(queue'[d]) = Waiters(queue[d])
  BY <1>2 DEF Waiters
<1>7. ASSUME NEW d \in Client, NEW i \in Waiters(queue'[d])
      PROVE  \E j \in Waiters(queue[d]) : queue'[d][i] = queue[d][j]
  <2>1. CASE d = c
    BY <1>4, <1>7, <2>1
  <2>2. CASE d # c
    BY <1>2, <1>6, <1>7, <2>2
  <2> QED
    BY <2>1, <2>2
<1> QED
  BY <1>2, <1>3, <1>4, <1>5, <1>6, <1>7

LEMMA HeadWaiter ==
    ASSUME TypeOK, NEW c \in Client, queue[c] # <<>>, Head(queue[c]).for # "touch"
    PROVE  1 \in Waiters(queue[c]) /\ queue[c][1] = Head(queue[c])
<1>1. queue[c] \in Seq(Ticket)
  BY DEF TypeOK
<1>2. Head(queue[c]) = queue[c][1] /\ Len(queue[c]) \in Nat \ {0}
  BY <1>1, TailFacts
<1> QED
  BY <1>2 DEF Waiters

-----------------------------------------------------------------------------
(* Saves *)

LEMMA InitCursor == Init => CursorInv
<1> SUFFICES ASSUME Init, NEW c \in Client
             PROVE  /\ cursor[c] <= storedCursor
                    /\ wireState[c] # "stored"
                    /\ wireState[c] = "none"
                    /\ queue[c] = <<>> /\ \A k \in Call : opPc[c][k] = "idle" /\ asked[c][k] = <<>>
  BY DEF CursorInv
<1>1. cursor[c] = 0 /\ storedCursor = 0
  BY DEF Init
<1> QED
  BY <1>1 DEF Init

LEMMA CursorStep == TypeInv /\ CursorInv /\ [Next]_vars => CursorInv'
<1> SUFFICES ASSUME TypeInv /\ CursorInv, [Next]_vars PROVE CursorInv'
  OBVIOUS
<1> USE DEF TypeInv, TypeOK, CursorInv
<1>0. CASE UNCHANGED vars
  BY <1>0 DEF vars, store, session, coordinator, world
<1>1. ASSUME NEW c \in Client, Resume(c) PROVE CursorInv'
  BY <1>1 DEF Resume, store, world
<1>2. ASSUME NEW c \in Client, Crash(c) PROVE CursorInv'
  BY <1>2 DEF Crash, store, world
<1>3. ASSUME NEW c \in Client, Touch(c) PROVE CursorInv'
  BY <1>3, TouchFacts DEF Touch, store, coordinator, world
<1>4. ASSUME NEW c \in Client, StartSave(c) PROVE CursorInv'
  BY <1>4 DEF StartSave, HeadReady, store, coordinator, world
<1>5. ASSUME NEW c \in Client, StoreSave(c) PROVE CursorInv'
  BY <1>5 DEF StoreSave, Answer, CursorMatches, store, coordinator, world
<1>6. ASSUME NEW c \in Client, LoseSave(c) PROVE CursorInv'
  BY <1>6 DEF LoseSave, store, coordinator
<1>7. ASSUME NEW c \in Client, ClaimSaved(c) PROVE CursorInv'
  BY <1>7 DEF ClaimSaved, Saved, store
<1>8. ASSUME NEW c \in Client, SettleSaved(c) PROVE CursorInv'
  BY <1>8 DEF SettleSaved, Saved, store
<1>9. ASSUME NEW c \in Client, ProposeSaved(c) PROVE CursorInv'
  BY <1>9 DEF ProposeSaved, Saved, store
<1>10. ASSUME NEW c \in Client, TouchSaved(c) PROVE CursorInv'
  BY <1>10 DEF TouchSaved, Saved, store, coordinator
<1>11. ASSUME NEW c \in Client, SaveFailed(c) PROVE CursorInv'
  BY <1>11 DEF SaveFailed, store, world
<1>12. ASSUME NEW c \in Client, NEW k \in Call, Propose(c, k) PROVE CursorInv'
  BY <1>12 DEF Propose, MayStart, Quiet, store, session
<1>13. ASSUME NEW c \in Client, NEW k \in Call, ProposeThrows(c, k) PROVE CursorInv'
  BY <1>13 DEF ProposeThrows, store, session, world
<1>14. ASSUME NEW c \in Client, NEW k \in Call, ProposeAlreadyDecided(c, k) PROVE CursorInv'
  BY <1>14 DEF ProposeAlreadyDecided, store, session, world
<1>15. ASSUME NEW c \in Client, NEW k \in Call, NEW status \in {"pending", "rejected"},
              ProposeReturns(c, k, status)
       PROVE CursorInv'
  <2>0. Enqueue(c, "propose", k)
    BY <1>15 DEF ProposeReturns
  <2>1. queue'[c] # <<>> /\ \A d \in Client \ {c} : queue'[d] = queue[d]
    BY <2>0, EnqueueFacts
  <2> QED
    BY <1>15, <2>1 DEF ProposeReturns, store, world
<1>16. ASSUME NEW c \in Client, NEW k \in Call, Approve(c, k) PROVE CursorInv'
  <2>0. Enqueue(c, "claim", k)
    BY <1>16 DEF Approve, Claim
  <2>1. queue'[c] # <<>> /\ \A d \in Client \ {c} : queue'[d] = queue[d]
    BY <2>0, EnqueueFacts
  <2> QED
    BY <1>16, <2>1 DEF Approve, MayStart, Claim, store, world
<1>17. ASSUME NEW c \in Client, NEW k \in Call, Reject(c, k) PROVE CursorInv'
  <2>0. Enqueue(c, "claim", k)
    BY <1>17 DEF Reject, Claim
  <2>1. queue'[c] # <<>> /\ \A d \in Client \ {c} : queue'[d] = queue[d]
    BY <2>0, EnqueueFacts
  <2> QED
    BY <1>17, <2>1 DEF Reject, MayStart, Claim, store, world
<1>18. ASSUME NEW c \in Client, NEW k \in Call, UpstreamResolves(c, k) PROVE CursorInv'
  <2>0. Enqueue(c, "claim", k)
    BY <1>18 DEF UpstreamResolves, Claim
  <2>1. queue'[c] # <<>> /\ \A d \in Client \ {c} : queue'[d] = queue[d]
    BY <2>0, EnqueueFacts
  <2> QED
    BY <1>18, <2>1 DEF UpstreamResolves, Claim, store, world
<1>19. ASSUME NEW c \in Client, NEW k \in Call, UpstreamThrows(c, k) PROVE CursorInv'
  BY <1>19 DEF UpstreamThrows, store, session, world
<1>20. ASSUME NEW k \in Call, Lapse(k) PROVE CursorInv'
  BY <1>20 DEF Lapse, store, session, coordinator
<1> HIDE DEF TypeInv, TypeOK, CursorInv
<1>21. ASSUME NEW c \in Client, Persist(c) PROVE CursorInv'
  BY <1>21, <1>3, <1>4, <1>5, <1>6, <1>7, <1>8, <1>9, <1>10, <1>11 DEF Persist
<1>22. ASSUME NEW c \in Client, NEW k \in Call, Coordinate(c, k) PROVE CursorInv'
  BY <1>22, <1>12, <1>13, <1>14, <1>15, <1>16, <1>17, <1>18, <1>19 DEF Coordinate
<1> QED
  BY <1>0, <1>1, <1>2, <1>20, <1>21, <1>22 DEF Next

LEMMA InitIssued == Init => IssuedInv
  BY DEF Init, IssuedInv, IssuedHeld, IssuedQueued, Waiters, Empty

LEMMA IssuedStep == TypeInv /\ IssuedInv /\ [Next]_vars => IssuedInv'
<1> SUFFICES ASSUME TypeInv /\ IssuedInv, [Next]_vars PROVE IssuedInv'
  OBVIOUS
<1>0. CASE UNCHANGED vars
  BY <1>0 DEF TypeInv, TypeOK, IssuedInv, vars, store, session, coordinator, world,
     IssuedHeld, IssuedQueued, Waiters
<1>1. ASSUME NEW c \in Client, Resume(c) PROVE IssuedInv'
  BY <1>1 DEF Resume, store, world, TypeInv, TypeOK, IssuedInv, Empty, IssuedHeld,
     IssuedQueued, Waiters
<1>2. ASSUME NEW c \in Client, Crash(c) PROVE IssuedInv'
  BY <1>2 DEF Crash, store, world, TypeInv, TypeOK, IssuedInv, Empty, IssuedHeld,
     IssuedQueued, Waiters
<1>3. ASSUME NEW c \in Client, Touch(c) PROVE IssuedInv'
  <2>1. \A d \in Client : \A i \in Waiters(queue'[d]) :
          i \in Waiters(queue[d]) /\ queue'[d][i] = queue[d][i]
    BY <1>3, TouchFacts DEF Touch, TypeInv
  <2>8. IssuedHeld'
    BY <1>3 DEF Touch, store, coordinator, world, TypeInv, TypeOK, IssuedInv, Empty,
       WithStatus, IssuedHeld
  <2>9. issued' = issued
    BY <1>3 DEF Touch, store, coordinator, world
  <2>10. IssuedQueued'
    BY <2>9, <2>1 DEF IssuedQueued, IssuedInv, IssuedHeld
  <2> QED
    BY <2>8, <2>10 DEF IssuedInv
<1>4. ASSUME NEW c \in Client, StartSave(c) PROVE IssuedInv'
  BY <1>4 DEF StartSave, HeadReady, store, coordinator, world, TypeInv, TypeOK,
     IssuedInv, Empty, IssuedHeld, IssuedQueued, Waiters
<1>5. ASSUME NEW c \in Client, StoreSave(c) PROVE IssuedInv'
  BY <1>5 DEF StoreSave, Answer, CursorMatches, store, coordinator, world, TypeInv,
     TypeOK, IssuedInv, Empty, IssuedHeld, IssuedQueued, Waiters
<1>6. ASSUME NEW c \in Client, LoseSave(c) PROVE IssuedInv'
  BY <1>6 DEF LoseSave, store, coordinator, TypeInv, TypeOK, IssuedInv, Empty,
     IssuedHeld, IssuedQueued, Waiters
<1>7. ASSUME NEW c \in Client, ClaimSaved(c) PROVE IssuedInv'
  <2>1. \A d \in Client : \A i \in Waiters(queue'[d]) :
          \E j \in Waiters(queue[d]) : queue'[d][i] = queue[d][j]
    BY <1>7, DequeueFacts DEF ClaimSaved, Saved, TypeInv
  <2>8. IssuedHeld'
    BY <1>7 DEF ClaimSaved, Saved, store, TypeInv, TypeOK, IssuedInv, Empty, WithStatus,
       IssuedHeld
  <2>9. issued' = issued
    BY <1>7 DEF ClaimSaved, Saved, store
  <2>10. IssuedQueued'
    BY <2>9, <2>1 DEF IssuedQueued, IssuedInv, IssuedHeld
  <2> QED
    BY <2>8, <2>10 DEF IssuedInv
<1>8. ASSUME NEW c \in Client, SettleSaved(c) PROVE IssuedInv'
  <2>1. \A d \in Client : \A i \in Waiters(queue'[d]) :
          \E j \in Waiters(queue[d]) : queue'[d][i] = queue[d][j]
    BY <1>8, DequeueFacts DEF SettleSaved, Saved, TypeInv
  <2>8. IssuedHeld'
    BY <1>8 DEF SettleSaved, Saved, store, TypeInv, TypeOK, IssuedInv, Empty,
       WithStatus, IssuedHeld
  <2>9. issued' = issued
    BY <1>8 DEF SettleSaved, Saved, store
  <2>10. IssuedQueued'
    BY <2>9, <2>1 DEF IssuedQueued, IssuedInv, IssuedHeld
  <2> QED
    BY <2>8, <2>10 DEF IssuedInv
<1>9. ASSUME NEW c \in Client, ProposeSaved(c) PROVE IssuedInv'
  <2>1. \A d \in Client : \A i \in Waiters(queue'[d]) :
          \E j \in Waiters(queue[d]) : queue'[d][i] = queue[d][j]
    BY <1>9, DequeueFacts DEF ProposeSaved, Saved, TypeInv
  <2>8. IssuedHeld'
    BY <1>9 DEF ProposeSaved, Saved, store, TypeInv, TypeOK, IssuedInv, Empty,
       WithStatus, IssuedHeld
  <2>9. issued' = issued
    BY <1>9 DEF ProposeSaved, Saved, store
  <2>10. IssuedQueued'
    BY <2>9, <2>1 DEF IssuedQueued, IssuedInv, IssuedHeld
  <2> QED
    BY <2>8, <2>10 DEF IssuedInv
<1>10. ASSUME NEW c \in Client, TouchSaved(c) PROVE IssuedInv'
  <2>1. \A d \in Client : \A i \in Waiters(queue'[d]) :
          \E j \in Waiters(queue[d]) : queue'[d][i] = queue[d][j]
    BY <1>10, DequeueFacts DEF TouchSaved, Saved, TypeInv
  <2>8. IssuedHeld'
    BY <1>10 DEF TouchSaved, Saved, store, coordinator, TypeInv, TypeOK, IssuedInv,
       Empty, WithStatus, IssuedHeld
  <2>9. issued' = issued
    BY <1>10 DEF TouchSaved, Saved, store, coordinator
  <2>10. IssuedQueued'
    BY <2>9, <2>1 DEF IssuedQueued, IssuedInv, IssuedHeld
  <2> QED
    BY <2>8, <2>10 DEF IssuedInv
<1>11. ASSUME NEW c \in Client, SaveFailed(c) PROVE IssuedInv'
  <2>1. \A d \in Client : \A i \in Waiters(queue'[d]) :
          \E j \in Waiters(queue[d]) : queue'[d][i] = queue[d][j]
    BY <1>11, DequeueFacts DEF SaveFailed, TypeInv
  <2>2. Head(queue[c]).for # "touch" =>
          /\ Head(queue[c]).call \in Call
          /\ \A k \in Call \ issued : Head(queue[c]).prev[k] = "none"
    <3>1. queue[c] # <<>> /\ queue' = [queue EXCEPT ![c] = Tail(queue[c])]
      BY <1>11 DEF SaveFailed
    <3>2. Head(queue[c]).for # "touch" => \E j \in Waiters(queue[c]) : Head(queue[c]) = queue[c][j]
      BY <3>1, DequeueFacts DEF TypeInv
    <3>3. Head(queue[c]).for # "touch" => Head(queue[c]).call \in Call
      BY <3>1, TicketTypes DEF TypeInv
    <3> QED
      BY <3>2, <3>3 DEF IssuedInv, IssuedQueued
  <2>8. IssuedHeld'
    BY <1>11, <2>2 DEF SaveFailed, store, world, TypeInv, TypeOK, IssuedInv, Empty,
       WithStatus, IssuedHeld
  <2>9. issued' = issued
    BY <1>11 DEF SaveFailed, store, world
  <2>10. IssuedQueued'
    BY <2>9, <2>1 DEF IssuedQueued, IssuedInv, IssuedHeld
  <2> QED
    BY <2>8, <2>10 DEF IssuedInv
<1>12. ASSUME NEW c \in Client, NEW k \in Call, Propose(c, k) PROVE IssuedInv'
  BY <1>12 DEF Propose, MayStart, Quiet, store, session, TypeInv, TypeOK, IssuedInv,
     Empty, IssuedHeld, IssuedQueued, Waiters
<1>13. ASSUME NEW c \in Client, NEW k \in Call, ProposeThrows(c, k) PROVE IssuedInv'
  BY <1>13 DEF ProposeThrows, store, session, world, TypeInv, TypeOK, IssuedInv, Empty,
     IssuedHeld, IssuedQueued, Waiters
<1>14. ASSUME NEW c \in Client, NEW k \in Call, ProposeAlreadyDecided(c, k) PROVE IssuedInv'
  BY <1>14 DEF ProposeAlreadyDecided, store, session, world, TypeInv, TypeOK, IssuedInv,
     Empty, IssuedHeld, IssuedQueued, Waiters
<1>15. ASSUME NEW c \in Client, NEW k \in Call, NEW status \in {"pending", "rejected"},
              ProposeReturns(c, k, status)
       PROVE IssuedInv'
  <2>1. Enqueue(c, "propose", k)
    BY <1>15 DEF ProposeReturns
  <2>2. \A d \in Client : \A i \in Waiters(queue'[d]) :
          \/ i \in Waiters(queue[d]) /\ queue'[d][i] = queue[d][i]
          \/ d = c /\ queue'[d][i].prev = table[c]
    BY <2>1, EnqueueWaiters DEF TypeInv
  <2>8. IssuedHeld'
    BY <1>15 DEF ProposeReturns, Published, store, world, TypeInv, TypeOK, IssuedInv,
       Empty, WithStatus, IssuedHeld
  <2>9. issued' = issued
    BY <1>15 DEF ProposeReturns, Published, store, world
  <2>10. IssuedQueued'
    BY <2>9, <2>2 DEF IssuedQueued, IssuedInv, IssuedHeld
  <2> QED
    BY <2>8, <2>10 DEF IssuedInv
<1>16. ASSUME NEW c \in Client, NEW k \in Call, Approve(c, k) PROVE IssuedInv'
  <2>1. Enqueue(c, "claim", k)
    BY <1>16 DEF Approve, Claim
  <2>2. \A d \in Client : \A i \in Waiters(queue'[d]) :
          \/ i \in Waiters(queue[d]) /\ queue'[d][i] = queue[d][i]
          \/ d = c /\ queue'[d][i].prev = table[c]
    BY <2>1, EnqueueWaiters DEF TypeInv
  <2>8. IssuedHeld'
    BY <1>16 DEF Approve, MayStart, Quiet, Undecided, Claim, store, world, TypeInv,
       TypeOK, IssuedInv, Empty, WithStatus, IssuedHeld
  <2>9. issued' = issued
    BY <1>16 DEF Approve, MayStart, Quiet, Undecided, Claim, store, world
  <2>10. IssuedQueued'
    BY <2>9, <2>2 DEF IssuedQueued, IssuedInv, IssuedHeld
  <2> QED
    BY <2>8, <2>10 DEF IssuedInv
<1>17. ASSUME NEW c \in Client, NEW k \in Call, Reject(c, k) PROVE IssuedInv'
  <2>1. Enqueue(c, "claim", k)
    BY <1>17 DEF Reject, Claim
  <2>2. \A d \in Client : \A i \in Waiters(queue'[d]) :
          \/ i \in Waiters(queue[d]) /\ queue'[d][i] = queue[d][i]
          \/ d = c /\ queue'[d][i].prev = table[c]
    BY <2>1, EnqueueWaiters DEF TypeInv
  <2>8. IssuedHeld'
    BY <1>17 DEF Reject, MayStart, Quiet, Undecided, Claim, store, world, TypeInv,
       TypeOK, IssuedInv, Empty, WithStatus, IssuedHeld
  <2>9. issued' = issued
    BY <1>17 DEF Reject, MayStart, Quiet, Undecided, Claim, store, world
  <2>10. IssuedQueued'
    BY <2>9, <2>2 DEF IssuedQueued, IssuedInv, IssuedHeld
  <2> QED
    BY <2>8, <2>10 DEF IssuedInv
<1>18. ASSUME NEW c \in Client, NEW k \in Call, UpstreamResolves(c, k) PROVE IssuedInv'
  <2>1. Enqueue(c, "claim", k)
    BY <1>18 DEF UpstreamResolves, Claim
  <2>2. \A d \in Client : \A i \in Waiters(queue'[d]) :
          \/ i \in Waiters(queue[d]) /\ queue'[d][i] = queue[d][i]
          \/ d = c /\ queue'[d][i].prev = table[c]
    BY <2>1, EnqueueWaiters DEF TypeInv
  <2>8. IssuedHeld'
    BY <1>18 DEF UpstreamResolves, Claim, store, world, TypeInv, TypeOK, IssuedInv,
       Empty, WithStatus, IssuedHeld
  <2>9. issued' = issued
    BY <1>18 DEF UpstreamResolves, Claim, store, world
  <2>10. IssuedQueued'
    BY <2>9, <2>2 DEF IssuedQueued, IssuedInv, IssuedHeld
  <2> QED
    BY <2>8, <2>10 DEF IssuedInv
<1>19. ASSUME NEW c \in Client, NEW k \in Call, UpstreamThrows(c, k) PROVE IssuedInv'
  BY <1>19 DEF UpstreamThrows, store, session, world, TypeInv, TypeOK, IssuedInv, Empty,
     IssuedHeld, IssuedQueued, Waiters
<1>20. ASSUME NEW k \in Call, Lapse(k) PROVE IssuedInv'
  BY <1>20 DEF Lapse, store, session, coordinator, TypeInv, TypeOK, IssuedInv, Empty,
     IssuedHeld, IssuedQueued, Waiters
<1>21. ASSUME NEW c \in Client, Persist(c) PROVE IssuedInv'
  BY <1>21, <1>3, <1>4, <1>5, <1>6, <1>7, <1>8, <1>9, <1>10, <1>11 DEF Persist
<1>22. ASSUME NEW c \in Client, NEW k \in Call, Coordinate(c, k) PROVE IssuedInv'
  BY <1>22, <1>12, <1>13, <1>14, <1>15, <1>16, <1>17, <1>18, <1>19 DEF Coordinate
<1> QED
  BY <1>0, <1>1, <1>2, <1>20, <1>21, <1>22 DEF Next

-----------------------------------------------------------------------------
(* One operation at a time *)

LEMMA InitOperation == Init => OperationInv
<1> SUFFICES ASSUME Init, NEW c \in Client
             PROVE  \A k \in Call : opPc[c][k] = "idle" /\ ~ProposeActive(c, k)
  BY DEF OperationInv, OneOperation
<1> QED
  BY DEF Init, ProposeActive

LEMMA OperationStep == Overlap = FALSE /\ TypeInv /\ OperationInv /\ [Next]_vars => OperationInv'
<1> SUFFICES ASSUME Overlap = FALSE /\ TypeInv /\ OperationInv, [Next]_vars PROVE OperationInv'
  OBVIOUS
<1>0. CASE UNCHANGED vars
  BY <1>0 DEF TypeInv, TypeOK, OperationInv, OneOperation, ProposeActive, vars, store,
     session, coordinator, world
<1>1. ASSUME NEW c \in Client, Resume(c) PROVE OperationInv'
  BY <1>1 DEF Resume, store, world, TypeInv, TypeOK, OperationInv, OneOperation,
     ProposeActive
<1>2. ASSUME NEW c \in Client, Crash(c) PROVE OperationInv'
  BY <1>2 DEF Crash, store, world, TypeInv, TypeOK, OperationInv, OneOperation,
     ProposeActive
<1>3. ASSUME NEW c \in Client, Touch(c) PROVE OperationInv'
  BY <1>3 DEF Touch, store, coordinator, world, TypeInv, TypeOK, OperationInv,
     OneOperation, ProposeActive
<1>4. ASSUME NEW c \in Client, StartSave(c) PROVE OperationInv'
  BY <1>4 DEF StartSave, HeadReady, store, coordinator, world, TypeInv, TypeOK,
     OperationInv, OneOperation, ProposeActive
<1>5. ASSUME NEW c \in Client, StoreSave(c) PROVE OperationInv'
  BY <1>5 DEF StoreSave, Answer, CursorMatches, store, coordinator, world, TypeInv,
     TypeOK, OperationInv, OneOperation, ProposeActive
<1>6. ASSUME NEW c \in Client, LoseSave(c) PROVE OperationInv'
  BY <1>6 DEF LoseSave, store, coordinator, TypeInv, TypeOK, OperationInv, OneOperation,
     ProposeActive
<1>7. ASSUME NEW c \in Client, ClaimSaved(c) PROVE OperationInv'
  <2>1. Head(queue[c]).for # "touch" => Head(queue[c]).call \in Call
    BY <1>7, TicketTypes DEF ClaimSaved, Saved, TypeInv
  <2> QED
    BY <1>7, <2>1 DEF ClaimSaved, Saved, store, TypeInv, TypeOK, OperationInv,
       OneOperation, ProposeActive
<1>8. ASSUME NEW c \in Client, SettleSaved(c) PROVE OperationInv'
  <2>1. Head(queue[c]).for # "touch" => Head(queue[c]).call \in Call
    BY <1>8, TicketTypes DEF SettleSaved, Saved, TypeInv
  <2> QED
    BY <1>8, <2>1 DEF SettleSaved, Saved, store, TypeInv, TypeOK, OperationInv,
       OneOperation, ProposeActive
<1>9. ASSUME NEW c \in Client, ProposeSaved(c) PROVE OperationInv'
  <2>1. Head(queue[c]).for # "touch" => Head(queue[c]).call \in Call
    BY <1>9, TicketTypes DEF ProposeSaved, Saved, TypeInv
  <2> QED
    BY <1>9, <2>1 DEF ProposeSaved, Saved, store, TypeInv, TypeOK, OperationInv,
       OneOperation, ProposeActive
<1>10. ASSUME NEW c \in Client, TouchSaved(c) PROVE OperationInv'
  BY <1>10 DEF TouchSaved, Saved, store, coordinator, TypeInv, TypeOK, OperationInv,
     OneOperation, ProposeActive
<1>11. ASSUME NEW c \in Client, SaveFailed(c) PROVE OperationInv'
  <2> DEFINE head == Head(queue[c])
  <2>1. head.for # "touch" => head.call \in Call
    BY <1>11, TicketTypes DEF SaveFailed, TypeInv
  <2> HIDE DEF head
  <2>3. CASE /\ head.for = "claim" /\ UNCHANGED propPc
             /\ table' = [table EXCEPT ![c] = head.prev]
             /\ opPc' = [opPc EXCEPT ![c][head.call] = "idle"]
             /\ opTo' = [opTo EXCEPT ![c][head.call] = "none"]
    BY <2>1, <2>3 DEF TypeInv, TypeOK, OperationInv, OneOperation, ProposeActive
  <2>4. CASE /\ head.for = "propose" /\ UNCHANGED <<opPc, opTo>>
             /\ table' = [table EXCEPT ![c] = head.prev]
             /\ propPc' = [propPc EXCEPT ![c][head.call] = "done"]
    BY <2>1, <2>4 DEF TypeInv, TypeOK, OperationInv, OneOperation, ProposeActive
  <2>5. CASE head.for = "touch" /\ UNCHANGED <<table, opPc, opTo, propPc>>
    BY <2>5 DEF TypeInv, TypeOK, OperationInv, OneOperation, ProposeActive
  <2> QED
    BY <1>11, <2>3, <2>4, <2>5 DEF SaveFailed, head
<1>12. ASSUME NEW c \in Client, NEW k \in Call, Propose(c, k) PROVE OperationInv'
  BY <1>12, OverlapAssumption DEF Propose, MayStart, Quiet, store, session, TypeInv,
     TypeOK, OperationInv, OneOperation, ProposeActive
<1>13. ASSUME NEW c \in Client, NEW k \in Call, ProposeThrows(c, k) PROVE OperationInv'
  BY <1>13 DEF ProposeThrows, store, session, world, TypeInv, TypeOK, OperationInv,
     OneOperation, ProposeActive
<1>14. ASSUME NEW c \in Client, NEW k \in Call, ProposeAlreadyDecided(c, k) PROVE OperationInv'
  BY <1>14 DEF ProposeAlreadyDecided, store, session, world, TypeInv, TypeOK,
     OperationInv, OneOperation, ProposeActive
<1>15. ASSUME NEW c \in Client, NEW k \in Call, NEW status \in {"pending", "rejected"},
              ProposeReturns(c, k, status)
       PROVE OperationInv'
  BY <1>15 DEF ProposeReturns, Published, store, world, TypeInv, TypeOK, OperationInv,
     OneOperation, ProposeActive
<1>16. ASSUME NEW c \in Client, NEW k \in Call, Approve(c, k) PROVE OperationInv'
  <2>1. \A l \in Call : opPc[c][l] = "idle" /\ ~ProposeActive(c, l)
    BY <1>16 DEF Approve, MayStart, Quiet, ProposeActive
  <2>2. /\ opPc' = [opPc EXCEPT ![c][k] = "claiming"]
        /\ propPc' = propPc
    BY <1>16 DEF Approve, Claim
  <2>3. /\ opPc \in [Client -> [Call -> {"idle", "claiming", "delegating", "settling"}]]
        /\ propPc \in [Client -> [Call -> {"idle", "upstream", "saving", "done"}]]
    BY DEF TypeInv, TypeOK
  <2> QED
    BY <2>1, <2>2, <2>3 DEF OperationInv, OneOperation, ProposeActive
<1>17. ASSUME NEW c \in Client, NEW k \in Call, Reject(c, k) PROVE OperationInv'
  <2>1. \A l \in Call : opPc[c][l] = "idle" /\ ~ProposeActive(c, l)
    BY <1>17 DEF Reject, MayStart, Quiet, ProposeActive
  <2>2. /\ opPc' = [opPc EXCEPT ![c][k] = "claiming"]
        /\ propPc' = propPc
    BY <1>17 DEF Reject, Claim
  <2>3. /\ opPc \in [Client -> [Call -> {"idle", "claiming", "delegating", "settling"}]]
        /\ propPc \in [Client -> [Call -> {"idle", "upstream", "saving", "done"}]]
    BY DEF TypeInv, TypeOK
  <2> QED
    BY <2>1, <2>2, <2>3 DEF OperationInv, OneOperation, ProposeActive
<1>18. ASSUME NEW c \in Client, NEW k \in Call, UpstreamResolves(c, k) PROVE OperationInv'
  BY <1>18 DEF UpstreamResolves, Claim, store, world, TypeInv, TypeOK, OperationInv,
     OneOperation, ProposeActive
<1>19. ASSUME NEW c \in Client, NEW k \in Call, UpstreamThrows(c, k) PROVE OperationInv'
  BY <1>19 DEF UpstreamThrows, store, session, world, TypeInv, TypeOK, OperationInv,
     OneOperation, ProposeActive
<1>20. ASSUME NEW k \in Call, Lapse(k) PROVE OperationInv'
  BY <1>20 DEF Lapse, store, session, coordinator, TypeInv, TypeOK, OperationInv,
     OneOperation, ProposeActive
<1>21. ASSUME NEW c \in Client, Persist(c) PROVE OperationInv'
  BY <1>21, <1>3, <1>4, <1>5, <1>6, <1>7, <1>8, <1>9, <1>10, <1>11 DEF Persist
<1>22. ASSUME NEW c \in Client, NEW k \in Call, Coordinate(c, k) PROVE OperationInv'
  BY <1>22, <1>12, <1>13, <1>14, <1>15, <1>16, <1>17, <1>18, <1>19 DEF Coordinate
<1> QED
  BY <1>0, <1>1, <1>2, <1>20, <1>21, <1>22 DEF Next

LEMMA InitWaiter == Init => WaiterInv
<1> SUFFICES ASSUME Init, NEW c \in Client PROVE Waiters(queue[c]) = {}
  BY DEF WaiterInv, OneWaiter
<1>1. queue[c] = <<>>
  BY DEF Init
<1> QED
  BY <1>1 DEF Waiters

LEMMA WaiterStep == Overlap = FALSE /\ TypeInv /\ CursorInv /\ OperationInv /\ WaiterInv /\ [Next]_vars => WaiterInv'
<1> SUFFICES ASSUME Overlap = FALSE /\ TypeInv /\ CursorInv /\ OperationInv /\ WaiterInv, [Next]_vars PROVE WaiterInv'
  OBVIOUS
<1>0. CASE UNCHANGED vars
  BY <1>0 DEF TypeInv, TypeOK, WaiterInv, OneWaiter, vars, store, session, coordinator,
     world
<1>1. ASSUME NEW c \in Client, Resume(c) PROVE WaiterInv'
  BY <1>1 DEF Resume, store, world, TypeInv, TypeOK, WaiterInv, OneWaiter, Waiters
<1>2. ASSUME NEW c \in Client, Crash(c) PROVE WaiterInv'
  BY <1>2 DEF Crash, store, world, TypeInv, TypeOK, WaiterInv, OneWaiter, Waiters
<1>3. ASSUME NEW c \in Client, Touch(c) PROVE WaiterInv'
  <2>1. /\ \A d \in Client : Waiters(queue'[d]) = Waiters(queue[d])
        /\ \A d \in Client : \A i \in Waiters(queue[d]) : queue'[d][i] = queue[d][i]
    BY <1>3, TouchFacts DEF Touch, TypeInv
  <2>2. UNCHANGED <<opPc, propPc>>
    BY <1>3 DEF Touch, store, coordinator, world
  <2> QED
    BY <2>1, <2>2 DEF WaiterInv, OneWaiter
<1>4. ASSUME NEW c \in Client, StartSave(c) PROVE WaiterInv'
  <2>1. UNCHANGED <<queue, opPc, propPc>>
    BY <1>4 DEF StartSave, coordinator
  <2> QED
    BY <2>1 DEF WaiterInv, OneWaiter, Waiters
<1>5. ASSUME NEW c \in Client, StoreSave(c) PROVE WaiterInv'
  BY <1>5 DEF StoreSave, Answer, CursorMatches, store, coordinator, world, TypeInv,
     TypeOK, WaiterInv, OneWaiter, Waiters
<1>6. ASSUME NEW c \in Client, LoseSave(c) PROVE WaiterInv'
  BY <1>6 DEF LoseSave, store, coordinator, TypeInv, TypeOK, WaiterInv, OneWaiter, Waiters
<1>7. ASSUME NEW c \in Client, ClaimSaved(c) PROVE WaiterInv'
  <2>1. /\ queue[c] # <<>> /\ queue' = [queue EXCEPT ![c] = Tail(queue[c])]
        /\ TypeOK
    BY <1>7 DEF ClaimSaved, Saved, TypeInv
  <2>2. /\ \A i \in Waiters(queue'[c]) : i \in Nat /\ i + 1 \in Waiters(queue[c]) /\ i + 1 # 1
                                         /\ queue'[c][i] = queue[c][i + 1]
        /\ Head(queue[c]) = queue[c][1]
        /\ Head(queue[c]).for # "touch" => 1 \in Waiters(queue[c])
        /\ \A d \in Client \ {c} : queue'[d] = queue[d]
    BY <2>1, DequeueFacts
  <2>3. Head(queue[c]).for # "touch"
    BY <1>7 DEF ClaimSaved, Saved
  <2>4. Waiters(queue'[c]) = {}
    BY <2>2, <2>3 DEF WaiterInv, OneWaiter
  <2>5. \A d \in Client \ {c} : opPc'[d] = opPc[d] /\ propPc'[d] = propPc[d]
    BY <1>7 DEF ClaimSaved, Saved, store, TypeInv, TypeOK
  <2> QED
    BY <2>2, <2>4, <2>5 DEF WaiterInv, OneWaiter
<1>8. ASSUME NEW c \in Client, SettleSaved(c) PROVE WaiterInv'
  <2>1. /\ queue[c] # <<>> /\ queue' = [queue EXCEPT ![c] = Tail(queue[c])]
        /\ TypeOK
    BY <1>8 DEF SettleSaved, Saved, TypeInv
  <2>2. /\ \A i \in Waiters(queue'[c]) : i \in Nat /\ i + 1 \in Waiters(queue[c]) /\ i + 1 # 1
                                         /\ queue'[c][i] = queue[c][i + 1]
        /\ Head(queue[c]) = queue[c][1]
        /\ Head(queue[c]).for # "touch" => 1 \in Waiters(queue[c])
        /\ \A d \in Client \ {c} : queue'[d] = queue[d]
    BY <2>1, DequeueFacts
  <2>3. Head(queue[c]).for # "touch"
    BY <1>8 DEF SettleSaved, Saved
  <2>4. Waiters(queue'[c]) = {}
    BY <2>2, <2>3 DEF WaiterInv, OneWaiter
  <2>5. \A d \in Client \ {c} : opPc'[d] = opPc[d] /\ propPc'[d] = propPc[d]
    BY <1>8 DEF SettleSaved, Saved, store, TypeInv, TypeOK
  <2> QED
    BY <2>2, <2>4, <2>5 DEF WaiterInv, OneWaiter
<1>9. ASSUME NEW c \in Client, ProposeSaved(c) PROVE WaiterInv'
  <2>1. /\ queue[c] # <<>> /\ queue' = [queue EXCEPT ![c] = Tail(queue[c])]
        /\ TypeOK
    BY <1>9 DEF ProposeSaved, Saved, TypeInv
  <2>2. /\ \A i \in Waiters(queue'[c]) : i \in Nat /\ i + 1 \in Waiters(queue[c]) /\ i + 1 # 1
                                         /\ queue'[c][i] = queue[c][i + 1]
        /\ Head(queue[c]) = queue[c][1]
        /\ Head(queue[c]).for # "touch" => 1 \in Waiters(queue[c])
        /\ \A d \in Client \ {c} : queue'[d] = queue[d]
    BY <2>1, DequeueFacts
  <2>3. Head(queue[c]).for # "touch"
    BY <1>9 DEF ProposeSaved, Saved
  <2>4. Waiters(queue'[c]) = {}
    BY <2>2, <2>3 DEF WaiterInv, OneWaiter
  <2>5. \A d \in Client \ {c} : opPc'[d] = opPc[d] /\ propPc'[d] = propPc[d]
    BY <1>9 DEF ProposeSaved, Saved, store, TypeInv, TypeOK
  <2> QED
    BY <2>2, <2>4, <2>5 DEF WaiterInv, OneWaiter
<1>10. ASSUME NEW c \in Client, TouchSaved(c) PROVE WaiterInv'
  <2>1. /\ queue[c] # <<>> /\ queue' = [queue EXCEPT ![c] = Tail(queue[c])]
        /\ TypeOK
    BY <1>10 DEF TouchSaved, Saved, TypeInv
  <2>2. /\ \A i \in Waiters(queue'[c]) : i \in Nat /\ i + 1 \in Waiters(queue[c]) /\ i + 1 # 1
                                         /\ queue'[c][i] = queue[c][i + 1]
        /\ Head(queue[c]) = queue[c][1]
        /\ Head(queue[c]).for # "touch" => 1 \in Waiters(queue[c])
        /\ \A d \in Client \ {c} : queue'[d] = queue[d]
    BY <2>1, DequeueFacts
  <2>3. UNCHANGED <<opPc, propPc>>
    BY <1>10 DEF TouchSaved, Saved, store, coordinator
  <2>4. \A i, j \in Waiters(queue'[c]) : i = j
    BY <2>2 DEF WaiterInv, OneWaiter
  <2> QED
    BY <2>2, <2>3, <2>4 DEF WaiterInv, OneWaiter
<1>11. ASSUME NEW c \in Client, SaveFailed(c) PROVE WaiterInv'
  <2>1. /\ queue[c] # <<>> /\ queue' = [queue EXCEPT ![c] = Tail(queue[c])]
        /\ TypeOK
    BY <1>11 DEF SaveFailed, TypeInv
  <2>2. /\ \A i \in Waiters(queue'[c]) : i \in Nat /\ i + 1 \in Waiters(queue[c]) /\ i + 1 # 1
                                         /\ queue'[c][i] = queue[c][i + 1]
        /\ Head(queue[c]) = queue[c][1]
        /\ Head(queue[c]).for # "touch" => 1 \in Waiters(queue[c])
        /\ \A d \in Client \ {c} : queue'[d] = queue[d]
    BY <2>1, DequeueFacts
  <2>3. \A d \in Client \ {c} : opPc'[d] = opPc[d] /\ propPc'[d] = propPc[d]
    BY <1>11 DEF SaveFailed, store, world, TypeInv, TypeOK
  <2>4. CASE Head(queue[c]).for # "touch"
    <3>1. Waiters(queue'[c]) = {}
      BY <2>2, <2>4 DEF WaiterInv, OneWaiter
    <3> QED
      BY <2>2, <2>3, <3>1 DEF WaiterInv, OneWaiter
  <2>5. CASE Head(queue[c]).for = "touch"
    <3>1. UNCHANGED <<opPc, propPc>>
      BY <1>11, <2>5 DEF SaveFailed
    <3>2. \A i, j \in Waiters(queue'[c]) : i = j
      BY <2>2 DEF WaiterInv, OneWaiter
    <3> QED
      BY <2>2, <3>1, <3>2 DEF WaiterInv, OneWaiter
  <2> QED
    BY <2>4, <2>5
<1>12. ASSUME NEW c \in Client, NEW k \in Call, Propose(c, k) PROVE WaiterInv'
  <2>1. Waiters(queue[c]) = {}
    <3> SUFFICES ASSUME NEW i \in Waiters(queue[c]) PROVE FALSE
      OBVIOUS
    <3>1. queue[c][i].call \in Call
      BY WaiterTypes DEF TypeInv
    <3> QED
      BY <1>12, <3>1 DEF Propose, MayStart, Quiet, WaiterInv, OneWaiter
  <2>2. UNCHANGED <<queue, opPc>> /\ \A d \in Client \ {c} : propPc'[d] = propPc[d]
    BY <1>12 DEF Propose, MayStart, Quiet, store, session, TypeInv, TypeOK
  <2> QED
    BY <2>1, <2>2 DEF WaiterInv, OneWaiter
<1>13. ASSUME NEW c \in Client, NEW k \in Call, ProposeThrows(c, k) PROVE WaiterInv'
  BY <1>13 DEF ProposeThrows, store, session, world, TypeInv, TypeOK, WaiterInv,
     OneWaiter, Waiters
<1>14. ASSUME NEW c \in Client, NEW k \in Call, ProposeAlreadyDecided(c, k) PROVE WaiterInv'
  BY <1>14 DEF ProposeAlreadyDecided, store, session, world, TypeInv, TypeOK, WaiterInv,
     OneWaiter, Waiters
<1>15. ASSUME NEW c \in Client, NEW k \in Call, NEW status \in {"pending", "rejected"},
              ProposeReturns(c, k, status)
       PROVE WaiterInv'
  <2>1. Enqueue(c, "propose", k) /\ TypeOK
    BY <1>15 DEF ProposeReturns, TypeInv
  <2>2. Waiters(queue[c]) = {}
    <3> SUFFICES ASSUME NEW i \in Waiters(queue[c]) PROVE FALSE
      OBVIOUS
    <3>1. queue[c][i].call \in Call
      BY WaiterTypes DEF TypeInv
    <3> QED
      BY <1>15, <3>1 DEF ProposeReturns, WaiterInv, OneWaiter, OperationInv,
         OneOperation, ProposeActive
  <2>3. Waiters(queue'[c]) = {Len(queue[c]) + 1}
    BY <2>1, <2>2, EnqueueFacts
  <2>4. queue'[c][Len(queue[c]) + 1].for = "propose" /\ queue'[c][Len(queue[c]) + 1].call = k
    BY <2>1, EnqueueFacts
  <2>5. \A d \in Client \ {c} : queue'[d] = queue[d]
    BY <2>1, EnqueueFacts
  <2>6. /\ propPc'[c][k] = "saving"
        /\ \A d \in Client \ {c} : opPc'[d] = opPc[d] /\ propPc'[d] = propPc[d]
    BY <1>15 DEF ProposeReturns, Published, store, world, TypeInv, TypeOK
  <2>7. OneWaiter(c)'
    BY <2>3, <2>4, <2>6 DEF OneWaiter
  <2> QED
    BY <2>5, <2>6, <2>7 DEF WaiterInv, OneWaiter
<1>16. ASSUME NEW c \in Client, NEW k \in Call, Approve(c, k) PROVE WaiterInv'
  <2>1. Enqueue(c, "claim", k) /\ TypeOK
    BY <1>16 DEF Approve, Claim, TypeInv
  <2>2. Waiters(queue[c]) = {}
    <3> SUFFICES ASSUME NEW i \in Waiters(queue[c]) PROVE FALSE
      OBVIOUS
    <3>1. queue[c][i].call \in Call
      BY WaiterTypes DEF TypeInv
    <3> QED
      BY <1>16, <3>1 DEF Approve, MayStart, Quiet, WaiterInv, OneWaiter, OperationInv,
         OneOperation, ProposeActive
  <2>3. Waiters(queue'[c]) = {Len(queue[c]) + 1}
    BY <2>1, <2>2, EnqueueFacts
  <2>4. queue'[c][Len(queue[c]) + 1].for = "claim" /\ queue'[c][Len(queue[c]) + 1].call = k
    BY <2>1, EnqueueFacts
  <2>5. \A d \in Client \ {c} : queue'[d] = queue[d]
    BY <2>1, EnqueueFacts
  <2>6. /\ opPc'[c][k] = "claiming"
        /\ \A d \in Client \ {c} : opPc'[d] = opPc[d] /\ propPc'[d] = propPc[d]
    BY <1>16 DEF Approve, MayStart, Quiet, Undecided, Claim, store, world, TypeInv, TypeOK
  <2>7. OneWaiter(c)'
    BY <2>3, <2>4, <2>6 DEF OneWaiter
  <2> QED
    BY <2>5, <2>6, <2>7 DEF WaiterInv, OneWaiter
<1>17. ASSUME NEW c \in Client, NEW k \in Call, Reject(c, k) PROVE WaiterInv'
  <2>1. Enqueue(c, "claim", k) /\ TypeOK
    BY <1>17 DEF Reject, Claim, TypeInv
  <2>2. Waiters(queue[c]) = {}
    <3> SUFFICES ASSUME NEW i \in Waiters(queue[c]) PROVE FALSE
      OBVIOUS
    <3>1. queue[c][i].call \in Call
      BY WaiterTypes DEF TypeInv
    <3> QED
      BY <1>17, <3>1 DEF Reject, MayStart, Quiet, WaiterInv, OneWaiter, OperationInv,
         OneOperation, ProposeActive
  <2>3. Waiters(queue'[c]) = {Len(queue[c]) + 1}
    BY <2>1, <2>2, EnqueueFacts
  <2>4. queue'[c][Len(queue[c]) + 1].for = "claim" /\ queue'[c][Len(queue[c]) + 1].call = k
    BY <2>1, EnqueueFacts
  <2>5. \A d \in Client \ {c} : queue'[d] = queue[d]
    BY <2>1, EnqueueFacts
  <2>6. /\ opPc'[c][k] = "claiming"
        /\ \A d \in Client \ {c} : opPc'[d] = opPc[d] /\ propPc'[d] = propPc[d]
    BY <1>17 DEF Reject, MayStart, Quiet, Undecided, Claim, store, world, TypeInv, TypeOK
  <2>7. OneWaiter(c)'
    BY <2>3, <2>4, <2>6 DEF OneWaiter
  <2> QED
    BY <2>5, <2>6, <2>7 DEF WaiterInv, OneWaiter
<1>18. ASSUME NEW c \in Client, NEW k \in Call, UpstreamResolves(c, k) PROVE WaiterInv'
  <2>1. Enqueue(c, "claim", k) /\ TypeOK
    BY <1>18 DEF UpstreamResolves, Claim, TypeInv
  <2>2. Waiters(queue[c]) = {}
    <3> SUFFICES ASSUME NEW i \in Waiters(queue[c]) PROVE FALSE
      OBVIOUS
    <3>1. queue[c][i].call \in Call
      BY WaiterTypes DEF TypeInv
    <3> QED
      BY <1>18, <3>1 DEF UpstreamResolves, WaiterInv, OneWaiter, OperationInv,
         OneOperation, ProposeActive
  <2>3. Waiters(queue'[c]) = {Len(queue[c]) + 1}
    BY <2>1, <2>2, EnqueueFacts
  <2>4. queue'[c][Len(queue[c]) + 1].for = "claim" /\ queue'[c][Len(queue[c]) + 1].call = k
    BY <2>1, EnqueueFacts
  <2>5. \A d \in Client \ {c} : queue'[d] = queue[d]
    BY <2>1, EnqueueFacts
  <2>6. /\ opPc'[c][k] = "settling"
        /\ \A d \in Client \ {c} : opPc'[d] = opPc[d] /\ propPc'[d] = propPc[d]
    BY <1>18 DEF UpstreamResolves, Claim, store, world, TypeInv, TypeOK
  <2>7. OneWaiter(c)'
    BY <2>3, <2>4, <2>6 DEF OneWaiter
  <2> QED
    BY <2>5, <2>6, <2>7 DEF WaiterInv, OneWaiter
<1>19. ASSUME NEW c \in Client, NEW k \in Call, UpstreamThrows(c, k) PROVE WaiterInv'
  BY <1>19 DEF UpstreamThrows, store, session, world, TypeInv, TypeOK, WaiterInv,
     OneWaiter, Waiters
<1>20. ASSUME NEW k \in Call, Lapse(k) PROVE WaiterInv'
  BY <1>20 DEF Lapse, store, session, coordinator, TypeInv, TypeOK, WaiterInv,
     OneWaiter, Waiters
<1>21. ASSUME NEW c \in Client, Persist(c) PROVE WaiterInv'
  BY <1>21, <1>3, <1>4, <1>5, <1>6, <1>7, <1>8, <1>9, <1>10, <1>11 DEF Persist
<1>22. ASSUME NEW c \in Client, NEW k \in Call, Coordinate(c, k) PROVE WaiterInv'
  BY <1>22, <1>12, <1>13, <1>14, <1>15, <1>16, <1>17, <1>18, <1>19 DEF Coordinate
<1> QED
  BY <1>0, <1>1, <1>2, <1>20, <1>21, <1>22 DEF Next

LEMMA InitShown == Init => ShownInv
  BY DEF Init, ShownInv, ClaimShown

LEMMA ShownStep == Overlap = FALSE /\ TypeInv /\ CursorInv /\ OperationInv /\ WaiterInv /\ ShownInv /\ [Next]_vars => ShownInv'
<1> SUFFICES ASSUME Overlap = FALSE /\ TypeInv /\ CursorInv /\ OperationInv /\ WaiterInv /\ ShownInv, [Next]_vars PROVE ShownInv'
  OBVIOUS
<1>0. CASE UNCHANGED vars
  BY <1>0 DEF TypeInv, TypeOK, ShownInv, ClaimShown, vars, store, session, coordinator,
     world
<1>1. ASSUME NEW c \in Client, Resume(c) PROVE ShownInv'
  <2>1. \A k \in Call : opPc'[c][k] # "claiming"
    BY <1>1 DEF Resume, CursorInv
  <2> QED
    BY <1>1, <2>1 DEF Resume, store, world, TypeInv, TypeOK, ShownInv, ClaimShown
<1>2. ASSUME NEW c \in Client, Crash(c) PROVE ShownInv'
  BY <1>2 DEF Crash, store, world, TypeInv, TypeOK, ShownInv, ClaimShown
<1>3. ASSUME NEW c \in Client, Touch(c) PROVE ShownInv'
  <2>1. /\ queue[c] # <<>> => Head(queue'[c]) = Head(queue[c])
        /\ queue[c] = <<>> => Head(queue'[c]).for = "touch"
        /\ \A d \in Client \ {c} : queue'[d] = queue[d]
    BY <1>3, TouchFacts DEF Touch, TypeInv
  <2> QED
    BY <1>3, <2>1 DEF Touch, store, coordinator, world, TypeInv, TypeOK, ShownInv,
       ClaimShown
<1>4. ASSUME NEW c \in Client, StartSave(c) PROVE ShownInv'
  BY <1>4 DEF StartSave, HeadReady, store, coordinator, world, TypeInv, TypeOK,
     ShownInv, ClaimShown
<1>5. ASSUME NEW c \in Client, StoreSave(c) PROVE ShownInv'
  BY <1>5 DEF StoreSave, Answer, CursorMatches, store, coordinator, world, TypeInv,
     TypeOK, ShownInv, ClaimShown
<1>6. ASSUME NEW c \in Client, LoseSave(c) PROVE ShownInv'
  BY <1>6 DEF LoseSave, store, coordinator, TypeInv, TypeOK, ShownInv, ClaimShown
<1>7. ASSUME NEW c \in Client, ClaimSaved(c) PROVE ShownInv'
  <2>1. Head(queue[c]).call \in Call
    BY <1>7, TicketTypes DEF ClaimSaved, Saved, TypeInv
  <2> QED
    BY <1>7, <2>1 DEF ClaimSaved, Saved, store, TypeInv, TypeOK, ShownInv, ClaimShown
<1>8. ASSUME NEW c \in Client, SettleSaved(c) PROVE ShownInv'
  <2>1. Head(queue[c]).call \in Call
    BY <1>8, TicketTypes DEF SettleSaved, Saved, TypeInv
  <2> QED
    BY <1>8, <2>1 DEF SettleSaved, Saved, store, TypeInv, TypeOK, ShownInv, ClaimShown
<1>9. ASSUME NEW c \in Client, ProposeSaved(c) PROVE ShownInv'
  <2>1. Head(queue[c]).call \in Call
    BY <1>9, TicketTypes DEF ProposeSaved, Saved, TypeInv
  <2> QED
    BY <1>9, <2>1 DEF ProposeSaved, Saved, store, TypeInv, TypeOK, ShownInv, ClaimShown
<1>10. ASSUME NEW c \in Client, TouchSaved(c) PROVE ShownInv'
  BY <1>10 DEF TouchSaved, Saved, store, coordinator, TypeInv, TypeOK, ShownInv, ClaimShown
<1>11. ASSUME NEW c \in Client, SaveFailed(c) PROVE ShownInv'
  <2> DEFINE head == Head(queue[c])
  <2>1. head.for # "touch" =>
          /\ head.call \in Call
          /\ 1 \in Waiters(queue[c]) /\ queue[c][1] = head
    BY <1>11, TicketTypes, HeadWaiter DEF SaveFailed, TypeInv
  <2>2. wireState'[c] = "none" /\ \A d \in Client \ {c} :
            /\ queue'[d] = queue[d] /\ wireState'[d] = wireState[d] /\ wireTable'[d] = wireTable[d]
            /\ opPc'[d] = opPc[d] /\ opTo'[d] = opTo[d] /\ table'[d] = table[d]
    BY <1>11 DEF SaveFailed, TypeInv, TypeOK
  <2> HIDE DEF head
  <2>3. CASE /\ head.for = "claim" /\ UNCHANGED propPc
             /\ table' = [table EXCEPT ![c] = head.prev]
             /\ opPc' = [opPc EXCEPT ![c][head.call] = "idle"]
             /\ opTo' = [opTo EXCEPT ![c][head.call] = "none"]
    <3>1. \A l \in Call : opPc'[c][l] # "claiming"
      <4>1. opPc[c][head.call] \in {"claiming", "settling"} /\ head.call \in Call
        BY <2>1, <2>3 DEF WaiterInv, OneWaiter
      <4>2. \A l \in Call : opPc[c][l] # "idle" => l = head.call
        BY <4>1 DEF OperationInv, OneOperation
      <4> QED
        BY <2>3, <4>1, <4>2 DEF TypeInv, TypeOK
    <3> QED
      BY <2>2, <3>1 DEF ShownInv, ClaimShown
  <2>4. CASE /\ head.for = "propose" /\ UNCHANGED <<opPc, opTo>>
             /\ table' = [table EXCEPT ![c] = head.prev]
             /\ propPc' = [propPc EXCEPT ![c][head.call] = "done"]
    <3>1. \A l \in Call : opPc'[c][l] # "claiming"
      BY <2>1, <2>4 DEF WaiterInv, OneWaiter, OperationInv, OneOperation, ProposeActive
    <3> QED
      BY <2>2, <3>1 DEF ShownInv, ClaimShown
  <2>5. CASE head.for = "touch" /\ UNCHANGED <<table, opPc, opTo, propPc>>
    BY <2>2, <2>5 DEF ShownInv, ClaimShown
  <2> QED
    BY <1>11, <2>3, <2>4, <2>5 DEF SaveFailed, head
<1>12. ASSUME NEW c \in Client, NEW k \in Call, Propose(c, k) PROVE ShownInv'
  BY <1>12 DEF Propose, MayStart, Quiet, store, session, TypeInv, TypeOK, ShownInv,
     ClaimShown
<1>13. ASSUME NEW c \in Client, NEW k \in Call, ProposeThrows(c, k) PROVE ShownInv'
  BY <1>13 DEF ProposeThrows, store, session, world, TypeInv, TypeOK, ShownInv, ClaimShown
<1>14. ASSUME NEW c \in Client, NEW k \in Call, ProposeAlreadyDecided(c, k) PROVE ShownInv'
  BY <1>14 DEF ProposeAlreadyDecided, store, session, world, TypeInv, TypeOK, ShownInv,
     ClaimShown
<1>15. ASSUME NEW c \in Client, NEW k \in Call, NEW status \in {"pending", "rejected"},
              ProposeReturns(c, k, status)
       PROVE ShownInv'
  <2>1. Enqueue(c, "propose", k) /\ TypeOK
    BY <1>15 DEF ProposeReturns, Claim, TypeInv
  <2>3. \A d \in Client \ {c} : queue'[d] = queue[d]
    BY <2>1, EnqueueFacts
  <2>4. \A l \in Call : opPc'[c][l] # "claiming"
    BY <1>15 DEF ProposeReturns, Claim, OperationInv, OneOperation, ProposeActive,
       TypeInv, TypeOK
  <2> QED
    BY <1>15, <2>3, <2>4 DEF ProposeReturns, Published, store, world, TypeInv, TypeOK,
       ShownInv, ClaimShown, store, world
<1>16. ASSUME NEW c \in Client, NEW k \in Call, Approve(c, k) PROVE ShownInv'
  <2>1. Enqueue(c, "claim", k) /\ TypeOK
    BY <1>16 DEF Approve, Claim, TypeInv
  <2>2. queue[c] # <<>> => Head(queue'[c]) = Head(queue[c])
    BY <2>1, EnqueueFacts
  <2>3. \A d \in Client \ {c} : queue'[d] = queue[d]
    BY <2>1, EnqueueFacts
  <2>4. wireState[c] = "sent" => queue[c] # <<>> /\ Head(queue[c]).for # "claim"
    <3> SUFFICES ASSUME queue[c] # <<>>, Head(queue[c]).for = "claim" PROVE FALSE
      BY <1>16 DEF Approve, MayStart, CursorInv
    <3>1. 1 \in Waiters(queue[c]) /\ queue[c][1] = Head(queue[c])
      BY <2>1, HeadWaiter
    <3>2. queue[c][1].call \in Call
      BY <2>1, <3>1, WaiterTypes
    <3> QED
      BY <1>16, <3>1, <3>2 DEF Approve, MayStart, Quiet, WaiterInv, OneWaiter
  <2>5. \A l \in Call \ {k} : opPc'[c][l] # "claiming"
    BY <1>16 DEF Approve, MayStart, Quiet, Claim, TypeInv, TypeOK
  <2>6. table'[c][k] \in Claimed(opTo'[c][k])
    BY <1>16 DEF Approve, Claim, WithStatus, Claimed, TypeInv, TypeOK
  <2> QED
    BY <1>16, <2>2, <2>3, <2>4, <2>5, <2>6 DEF Approve, Claim, store, world, TypeInv,
       TypeOK, ShownInv, ClaimShown
<1>17. ASSUME NEW c \in Client, NEW k \in Call, Reject(c, k) PROVE ShownInv'
  <2>1. Enqueue(c, "claim", k) /\ TypeOK
    BY <1>17 DEF Reject, Claim, TypeInv
  <2>2. queue[c] # <<>> => Head(queue'[c]) = Head(queue[c])
    BY <2>1, EnqueueFacts
  <2>3. \A d \in Client \ {c} : queue'[d] = queue[d]
    BY <2>1, EnqueueFacts
  <2>4. wireState[c] = "sent" => queue[c] # <<>> /\ Head(queue[c]).for # "claim"
    <3> SUFFICES ASSUME queue[c] # <<>>, Head(queue[c]).for = "claim" PROVE FALSE
      BY <1>17 DEF Reject, MayStart, CursorInv
    <3>1. 1 \in Waiters(queue[c]) /\ queue[c][1] = Head(queue[c])
      BY <2>1, HeadWaiter
    <3>2. queue[c][1].call \in Call
      BY <2>1, <3>1, WaiterTypes
    <3> QED
      BY <1>17, <3>1, <3>2 DEF Reject, MayStart, Quiet, WaiterInv, OneWaiter
  <2>5. \A l \in Call \ {k} : opPc'[c][l] # "claiming"
    BY <1>17 DEF Reject, MayStart, Quiet, Claim, TypeInv, TypeOK
  <2>6. table'[c][k] \in Claimed(opTo'[c][k])
    BY <1>17 DEF Reject, Claim, WithStatus, Claimed, TypeInv, TypeOK
  <2> QED
    BY <1>17, <2>2, <2>3, <2>4, <2>5, <2>6 DEF Reject, Claim, store, world, TypeInv,
       TypeOK, ShownInv, ClaimShown
<1>18. ASSUME NEW c \in Client, NEW k \in Call, UpstreamResolves(c, k) PROVE ShownInv'
  <2>1. Enqueue(c, "claim", k) /\ TypeOK
    BY <1>18 DEF UpstreamResolves, Claim, TypeInv
  <2>3. \A d \in Client \ {c} : queue'[d] = queue[d]
    BY <2>1, EnqueueFacts
  <2>4. \A l \in Call : opPc'[c][l] # "claiming"
    BY <1>18 DEF UpstreamResolves, Claim, OperationInv, OneOperation, ProposeActive,
       TypeInv, TypeOK
  <2> QED
    BY <1>18, <2>3, <2>4 DEF UpstreamResolves, Claim, store, world, TypeInv, TypeOK,
       ShownInv, ClaimShown, store, world
<1>19. ASSUME NEW c \in Client, NEW k \in Call, UpstreamThrows(c, k) PROVE ShownInv'
  BY <1>19 DEF UpstreamThrows, store, session, world, TypeInv, TypeOK, ShownInv, ClaimShown
<1>20. ASSUME NEW k \in Call, Lapse(k) PROVE ShownInv'
  BY <1>20 DEF Lapse, store, session, coordinator, TypeInv, TypeOK, ShownInv, ClaimShown
<1>21. ASSUME NEW c \in Client, Persist(c) PROVE ShownInv'
  BY <1>21, <1>3, <1>4, <1>5, <1>6, <1>7, <1>8, <1>9, <1>10, <1>11 DEF Persist
<1>22. ASSUME NEW c \in Client, NEW k \in Call, Coordinate(c, k) PROVE ShownInv'
  BY <1>22, <1>12, <1>13, <1>14, <1>15, <1>16, <1>17, <1>18, <1>19 DEF Coordinate
<1> QED
  BY <1>0, <1>1, <1>2, <1>20, <1>21, <1>22 DEF Next

-----------------------------------------------------------------------------
(* Who can still decide a call *)

\* No step makes an inert client able to decide the call.
LEMMA InertStep ==
    ASSUME TypeInv, [Next]_vars, NEW d \in Client, NEW m \in Call,
           m \in issued, phase[d] # "absent", Inert(d, m)
    PROVE  Inert(d, m)'
<1>0. CASE UNCHANGED vars
  BY <1>0 DEF TypeInv, TypeOK, Inert, vars, store, session, coordinator, world
<1>1. ASSUME NEW c \in Client, Resume(c) PROVE Inert(d, m)'
  BY <1>1 DEF Resume, store, world, TypeInv, TypeOK, Inert
<1>2. ASSUME NEW c \in Client, Crash(c) PROVE Inert(d, m)'
  <2>1. d = c => Waiters(queue'[d]) = {}
    BY <1>2 DEF Crash, Waiters, TypeInv, TypeOK
  <2>2. d # c => queue'[d] = queue[d]
    BY <1>2 DEF Crash, TypeInv, TypeOK
  <2> QED
    BY <1>2, <2>1, <2>2 DEF Crash, store, world, TypeInv, TypeOK, Inert, Empty
<1>3. ASSUME NEW c \in Client, Touch(c) PROVE Inert(d, m)'
  <2>1. \A i \in Waiters(queue'[d]) : i \in Waiters(queue[d]) /\ queue'[d][i] = queue[d][i]
    BY <1>3, TouchFacts DEF Touch, TypeInv
  <2> QED
    BY <1>3, <2>1 DEF Touch, store, coordinator, world, Inert
<1>4. ASSUME NEW c \in Client, StartSave(c) PROVE Inert(d, m)'
  BY <1>4 DEF StartSave, HeadReady, store, coordinator, world, TypeInv, TypeOK, Inert
<1>5. ASSUME NEW c \in Client, StoreSave(c) PROVE Inert(d, m)'
  BY <1>5 DEF StoreSave, Answer, CursorMatches, store, coordinator, world, TypeInv,
     TypeOK, Inert
<1>6. ASSUME NEW c \in Client, LoseSave(c) PROVE Inert(d, m)'
  BY <1>6 DEF LoseSave, store, coordinator, TypeInv, TypeOK, Inert
<1>7. ASSUME NEW c \in Client, ClaimSaved(c) PROVE Inert(d, m)'
  <2>1. queue[c] # <<>> /\ queue' = [queue EXCEPT ![c] = Tail(queue[c])]
    BY <1>7 DEF ClaimSaved, Saved
  <2>2. \A i \in Waiters(queue'[d]) : \E j \in Waiters(queue[d]) : queue'[d][i] = queue[d][j]
    BY <2>1, DequeueFacts DEF TypeInv
  <2>3. \A i \in Waiters(queue'[d]) : queue'[d][i].prev[m] # "pending"
    BY <2>2 DEF Inert
  <2>4. Head(queue[c]).for # "touch" => Head(queue[c]).call \in Call
    BY <2>1, TicketTypes DEF TypeInv
  <2>5. d = c => Head(queue[c]).call # m
    BY <1>7 DEF ClaimSaved, Inert
  <2> QED
    BY <1>7, <2>3, <2>4, <2>5 DEF ClaimSaved, Saved, store, TypeInv, TypeOK, Inert
<1>8. ASSUME NEW c \in Client, SettleSaved(c) PROVE Inert(d, m)'
  <2>1. queue[c] # <<>> /\ queue' = [queue EXCEPT ![c] = Tail(queue[c])]
    BY <1>8 DEF SettleSaved, Saved
  <2>2. \A i \in Waiters(queue'[d]) : \E j \in Waiters(queue[d]) : queue'[d][i] = queue[d][j]
    BY <2>1, DequeueFacts DEF TypeInv
  <2>3. \A i \in Waiters(queue'[d]) : queue'[d][i].prev[m] # "pending"
    BY <2>2 DEF Inert
  <2>4. Head(queue[c]).for # "touch" => Head(queue[c]).call \in Call
    BY <2>1, TicketTypes DEF TypeInv
  <2>5. opTo[c][Head(queue[c]).call] \in Processing
    BY <1>8, <2>4 DEF SettleSaved, Saved, TypeInv, ClaimNamed
  <2>6. TerminalOf[opTo[c][Head(queue[c]).call]] \in Terminal
    BY <2>5, TerminalOfType
  <2> QED
    BY <1>8, <2>3, <2>4, <2>6 DEF SettleSaved, Saved, store, TypeInv, TypeOK, Inert
<1>9. ASSUME NEW c \in Client, ProposeSaved(c) PROVE Inert(d, m)'
  <2>1. queue[c] # <<>> /\ queue' = [queue EXCEPT ![c] = Tail(queue[c])]
    BY <1>9 DEF ProposeSaved, Saved
  <2>2. \A i \in Waiters(queue'[d]) : \E j \in Waiters(queue[d]) : queue'[d][i] = queue[d][j]
    BY <2>1, DequeueFacts DEF TypeInv
  <2>3. \A i \in Waiters(queue'[d]) : queue'[d][i].prev[m] # "pending"
    BY <2>2 DEF Inert
  <2>4. Head(queue[c]).for # "touch" => Head(queue[c]).call \in Call
    BY <2>1, TicketTypes DEF TypeInv
  <2> QED
    BY <1>9, <2>3, <2>4 DEF ProposeSaved, Saved, store, TypeInv, TypeOK, Inert
<1>10. ASSUME NEW c \in Client, TouchSaved(c) PROVE Inert(d, m)'
  <2>1. queue[c] # <<>> /\ queue' = [queue EXCEPT ![c] = Tail(queue[c])]
    BY <1>10 DEF TouchSaved, Saved
  <2>2. \A i \in Waiters(queue'[d]) : \E j \in Waiters(queue[d]) : queue'[d][i] = queue[d][j]
    BY <2>1, DequeueFacts DEF TypeInv
  <2>3. \A i \in Waiters(queue'[d]) : queue'[d][i].prev[m] # "pending"
    BY <2>2 DEF Inert
  <2>4. Head(queue[c]).for # "touch" => Head(queue[c]).call \in Call
    BY <2>1, TicketTypes DEF TypeInv
  <2> QED
    BY <1>10, <2>3, <2>4 DEF TouchSaved, Saved, store, coordinator, TypeInv, TypeOK, Inert
<1>11. ASSUME NEW c \in Client, SaveFailed(c) PROVE Inert(d, m)'
  <2>1. queue[c] # <<>> /\ queue' = [queue EXCEPT ![c] = Tail(queue[c])]
    BY <1>11 DEF SaveFailed
  <2>2. \A i \in Waiters(queue'[d]) : \E j \in Waiters(queue[d]) : queue'[d][i] = queue[d][j]
    BY <2>1, DequeueFacts DEF TypeInv
  <2>3. \A i \in Waiters(queue'[d]) : queue'[d][i].prev[m] # "pending"
    BY <2>2 DEF Inert
  <2>4. Head(queue[c]).for # "touch" => Head(queue[c]).call \in Call
    BY <2>1, TicketTypes DEF TypeInv
  <2>5. Head(queue[c]).for # "touch" /\ d = c => Head(queue[c]).prev[m] # "pending"
    BY <2>1, HeadWaiter DEF TypeInv, Inert
  <2>6. table'[d][m] # "pending"
    BY <1>11, <2>5 DEF SaveFailed, TypeInv, TypeOK, Inert
  <2>7. \/ opPc' = opPc
        \/ opPc' = [opPc EXCEPT ![c][Head(queue[c]).call] = "idle"]
    BY <1>11 DEF SaveFailed
  <2>8. opPc'[d][m] # "claiming"
    <3> DEFINE h == Head(queue[c]).call
    <3>1. opPc' = opPc \/ opPc' = [opPc EXCEPT ![c][h] = "idle"]
      BY <2>7
    <3> HIDE DEF h
    <3>2. opPc[d][m] # "claiming" /\ DOMAIN opPc = Client /\ DOMAIN opPc[d] = Call
      BY DEF TypeInv, TypeOK, Inert
    <3>3. CASE opPc' = [opPc EXCEPT ![c][h] = "idle"]
      BY <3>2, <3>3
    <3> QED
      BY <3>1, <3>2, <3>3
  <2> QED
    BY <1>11, <2>3, <2>6, <2>8 DEF SaveFailed, store, world, TypeInv, TypeOK, Inert
<1>12. ASSUME NEW c \in Client, NEW k \in Call, Propose(c, k) PROVE Inert(d, m)'
  BY <1>12 DEF Propose, MayStart, Quiet, store, session, TypeInv, TypeOK, Inert
<1>13. ASSUME NEW c \in Client, NEW k \in Call, ProposeThrows(c, k) PROVE Inert(d, m)'
  BY <1>13 DEF ProposeThrows, store, session, world, TypeInv, TypeOK, Inert
<1>14. ASSUME NEW c \in Client, NEW k \in Call, ProposeAlreadyDecided(c, k) PROVE Inert(d, m)'
  BY <1>14 DEF ProposeAlreadyDecided, store, session, world, TypeInv, TypeOK, Inert
<1>15. ASSUME NEW c \in Client, NEW k \in Call, NEW status \in {"pending", "rejected"},
              ProposeReturns(c, k, status)
       PROVE Inert(d, m)'
  <2>1. Enqueue(c, "propose", k) /\ TypeOK
    BY <1>15 DEF ProposeReturns, Claim, TypeInv
  <2>2. \A i \in Waiters(queue'[d]) :
          \/ i \in Waiters(queue[d]) /\ queue'[d][i] = queue[d][i]
          \/ d = c /\ queue'[d][i].prev = table[c]
    BY <2>1, EnqueueWaiters
  <2>3. \A i \in Waiters(queue'[d]) : queue'[d][i].prev[m] # "pending"
    BY <2>2 DEF Inert
  <2>4. records'[d][m] \notin {"pending", "provisional"} /\ table'[d][m] # "pending"
    BY <1>15 DEF ProposeReturns, Published, TypeInv, TypeOK, Inert
  <2> QED
    BY <1>15, <2>3, <2>4 DEF ProposeReturns, Published, store, world, Inert
<1>16. ASSUME NEW c \in Client, NEW k \in Call, Approve(c, k) PROVE Inert(d, m)'
  <2>1. Enqueue(c, "claim", k) /\ TypeOK
    BY <1>16 DEF Approve, Claim, TypeInv
  <2>2. \A i \in Waiters(queue'[d]) :
          \/ i \in Waiters(queue[d]) /\ queue'[d][i] = queue[d][i]
          \/ d = c /\ queue'[d][i].prev = table[c]
    BY <2>1, EnqueueWaiters
  <2>3. \A i \in Waiters(queue'[d]) : queue'[d][i].prev[m] # "pending"
    BY <2>2 DEF Inert
  <2>4. d = c => k # m
    BY <1>16 DEF Approve, Undecided, Inert
  <2>5. table'[d][m] # "pending" /\ opPc'[d][m] # "claiming"
    BY <1>16, <2>4 DEF Approve, Claim, WithStatus, TypeInv, TypeOK, Inert
  <2> QED
    BY <1>16, <2>3, <2>5 DEF Approve, MayStart, Quiet, Undecided, Claim, store, world, Inert
<1>17. ASSUME NEW c \in Client, NEW k \in Call, Reject(c, k) PROVE Inert(d, m)'
  <2>1. Enqueue(c, "claim", k) /\ TypeOK
    BY <1>17 DEF Reject, Claim, TypeInv
  <2>2. \A i \in Waiters(queue'[d]) :
          \/ i \in Waiters(queue[d]) /\ queue'[d][i] = queue[d][i]
          \/ d = c /\ queue'[d][i].prev = table[c]
    BY <2>1, EnqueueWaiters
  <2>3. \A i \in Waiters(queue'[d]) : queue'[d][i].prev[m] # "pending"
    BY <2>2 DEF Inert
  <2>4. d = c => k # m
    BY <1>17 DEF Reject, Undecided, Inert
  <2>5. table'[d][m] # "pending" /\ opPc'[d][m] # "claiming"
    BY <1>17, <2>4 DEF Reject, Claim, WithStatus, TypeInv, TypeOK, Inert
  <2> QED
    BY <1>17, <2>3, <2>5 DEF Reject, MayStart, Quiet, Undecided, Claim, store, world, Inert
<1>18. ASSUME NEW c \in Client, NEW k \in Call, UpstreamResolves(c, k) PROVE Inert(d, m)'
  <2>1. Enqueue(c, "claim", k) /\ TypeOK
    BY <1>18 DEF UpstreamResolves, Claim, TypeInv
  <2>2. \A i \in Waiters(queue'[d]) :
          \/ i \in Waiters(queue[d]) /\ queue'[d][i] = queue[d][i]
          \/ d = c /\ queue'[d][i].prev = table[c]
    BY <2>1, EnqueueWaiters
  <2>3. \A i \in Waiters(queue'[d]) : queue'[d][i].prev[m] # "pending"
    BY <2>2 DEF Inert
  <2>4. TerminalOf[opTo[c][k]] \in Terminal
    BY <1>18, TerminalOfType DEF UpstreamResolves, TypeInv, ClaimNamed
  <2>5. table'[d][m] # "pending" /\ opPc'[d][m] # "claiming"
    BY <1>18, <2>4 DEF UpstreamResolves, Claim, WithStatus, TypeInv, TypeOK, Inert
  <2> QED
    BY <1>18, <2>3, <2>5 DEF UpstreamResolves, Claim, store, world, Inert
<1>19. ASSUME NEW c \in Client, NEW k \in Call, UpstreamThrows(c, k) PROVE Inert(d, m)'
  BY <1>19 DEF UpstreamThrows, store, session, world, TypeInv, TypeOK, Inert
<1>20. ASSUME NEW k \in Call, Lapse(k) PROVE Inert(d, m)'
  BY <1>20 DEF Lapse, store, session, coordinator, TypeInv, TypeOK, Inert
<1>21. ASSUME NEW c \in Client, Persist(c) PROVE Inert(d, m)'
  BY <1>21, <1>3, <1>4, <1>5, <1>6, <1>7, <1>8, <1>9, <1>10, <1>11 DEF Persist
<1>22. ASSUME NEW c \in Client, NEW k \in Call, Coordinate(c, k) PROVE Inert(d, m)'
  BY <1>22, <1>12, <1>13, <1>14, <1>15, <1>16, <1>17, <1>18, <1>19 DEF Coordinate
<1> QED
  BY <1>0, <1>1, <1>2, <1>20, <1>21, <1>22 DEF Next

\* Only the save of a claim makes a client ask.
LEMMA AskedChange ==
    ASSUME TypeInv, [Next]_vars, NEW c \in Client, NEW k \in Call
    PROVE  asked'[c][k] = asked[c][k] \/ (ClaimSaved(c) /\ Head(queue[c]).call = k)
<1>0. CASE UNCHANGED vars
  BY <1>0 DEF TypeInv, TypeOK, vars, store, session, coordinator, world
<1>1. ASSUME NEW e \in Client, Resume(e)
       PROVE  asked'[c][k] = asked[c][k] \/ (ClaimSaved(c) /\ Head(queue[c]).call = k)
  BY <1>1 DEF Resume, store, world, TypeInv, TypeOK
<1>2. ASSUME NEW e \in Client, Crash(e)
       PROVE  asked'[c][k] = asked[c][k] \/ (ClaimSaved(c) /\ Head(queue[c]).call = k)
  BY <1>2 DEF Crash, store, world, TypeInv, TypeOK
<1>3. ASSUME NEW e \in Client, Touch(e)
       PROVE  asked'[c][k] = asked[c][k] \/ (ClaimSaved(c) /\ Head(queue[c]).call = k)
  BY <1>3 DEF Touch, store, coordinator, world, TypeInv, TypeOK
<1>4. ASSUME NEW e \in Client, StartSave(e)
       PROVE  asked'[c][k] = asked[c][k] \/ (ClaimSaved(c) /\ Head(queue[c]).call = k)
  BY <1>4 DEF StartSave, HeadReady, store, coordinator, world, TypeInv, TypeOK
<1>5. ASSUME NEW e \in Client, StoreSave(e)
       PROVE  asked'[c][k] = asked[c][k] \/ (ClaimSaved(c) /\ Head(queue[c]).call = k)
  BY <1>5 DEF StoreSave, Answer, CursorMatches, store, coordinator, world, TypeInv, TypeOK
<1>6. ASSUME NEW e \in Client, LoseSave(e)
       PROVE  asked'[c][k] = asked[c][k] \/ (ClaimSaved(c) /\ Head(queue[c]).call = k)
  BY <1>6 DEF LoseSave, store, coordinator, TypeInv, TypeOK
<1>7. ASSUME NEW e \in Client, ClaimSaved(e)
       PROVE  asked'[c][k] = asked[c][k] \/ (ClaimSaved(c) /\ Head(queue[c]).call = k)
  <2> DEFINE h == Head(queue[e]).call
  <2>1. asked' = [asked EXCEPT ![e][h] = Append(asked[e][h], opTo[e][h])]
    BY <1>7 DEF ClaimSaved
  <2>2. ClaimSaved(e)
    BY <1>7
  <2>3. asked \in [Client -> [Call -> Seq(Processing)]]
    BY DEF TypeInv, TypeOK
  <2> HIDE DEF h
  <2>4. asked'[c][k] = asked[c][k] \/ (c = e /\ h = k)
    BY <2>1, <2>3
  <2> QED
    BY <2>2, <2>4 DEF h
<1>8. ASSUME NEW e \in Client, SettleSaved(e)
       PROVE  asked'[c][k] = asked[c][k] \/ (ClaimSaved(c) /\ Head(queue[c]).call = k)
  BY <1>8 DEF SettleSaved, Saved, store, TypeInv, TypeOK
<1>9. ASSUME NEW e \in Client, ProposeSaved(e)
       PROVE  asked'[c][k] = asked[c][k] \/ (ClaimSaved(c) /\ Head(queue[c]).call = k)
  BY <1>9 DEF ProposeSaved, Saved, store, TypeInv, TypeOK
<1>10. ASSUME NEW e \in Client, TouchSaved(e)
       PROVE  asked'[c][k] = asked[c][k] \/ (ClaimSaved(c) /\ Head(queue[c]).call = k)
  BY <1>10 DEF TouchSaved, Saved, store, coordinator, TypeInv, TypeOK
<1>11. ASSUME NEW e \in Client, SaveFailed(e)
       PROVE  asked'[c][k] = asked[c][k] \/ (ClaimSaved(c) /\ Head(queue[c]).call = k)
  BY <1>11 DEF SaveFailed, store, world, TypeInv, TypeOK
<1>12. ASSUME NEW e \in Client, NEW l \in Call, Propose(e, l)
       PROVE  asked'[c][k] = asked[c][k] \/ (ClaimSaved(c) /\ Head(queue[c]).call = k)
  BY <1>12 DEF Propose, MayStart, Quiet, store, session, TypeInv, TypeOK
<1>13. ASSUME NEW e \in Client, NEW l \in Call, ProposeThrows(e, l)
       PROVE  asked'[c][k] = asked[c][k] \/ (ClaimSaved(c) /\ Head(queue[c]).call = k)
  BY <1>13 DEF ProposeThrows, store, session, world, TypeInv, TypeOK
<1>14. ASSUME NEW e \in Client, NEW l \in Call, ProposeAlreadyDecided(e, l)
       PROVE  asked'[c][k] = asked[c][k] \/ (ClaimSaved(c) /\ Head(queue[c]).call = k)
  BY <1>14 DEF ProposeAlreadyDecided, store, session, world, TypeInv, TypeOK
<1>15. ASSUME NEW e \in Client, NEW l \in Call, NEW status \in {"pending", "rejected"},
              ProposeReturns(e, l, status)
       PROVE  asked'[c][k] = asked[c][k] \/ (ClaimSaved(c) /\ Head(queue[c]).call = k)
  BY <1>15 DEF ProposeReturns, Published, store, world, TypeInv, TypeOK
<1>16. ASSUME NEW e \in Client, NEW l \in Call, Approve(e, l)
       PROVE  asked'[c][k] = asked[c][k] \/ (ClaimSaved(c) /\ Head(queue[c]).call = k)
  BY <1>16 DEF Approve, MayStart, Quiet, Undecided, Claim, store, world, TypeInv, TypeOK
<1>17. ASSUME NEW e \in Client, NEW l \in Call, Reject(e, l)
       PROVE  asked'[c][k] = asked[c][k] \/ (ClaimSaved(c) /\ Head(queue[c]).call = k)
  BY <1>17 DEF Reject, MayStart, Quiet, Undecided, Claim, store, world, TypeInv, TypeOK
<1>18. ASSUME NEW e \in Client, NEW l \in Call, UpstreamResolves(e, l)
       PROVE  asked'[c][k] = asked[c][k] \/ (ClaimSaved(c) /\ Head(queue[c]).call = k)
  BY <1>18 DEF UpstreamResolves, Claim, store, world, TypeInv, TypeOK
<1>19. ASSUME NEW e \in Client, NEW l \in Call, UpstreamThrows(e, l)
       PROVE  asked'[c][k] = asked[c][k] \/ (ClaimSaved(c) /\ Head(queue[c]).call = k)
  BY <1>19 DEF UpstreamThrows, store, session, world, TypeInv, TypeOK
<1>20. ASSUME NEW l \in Call, Lapse(l)
       PROVE  asked'[c][k] = asked[c][k] \/ (ClaimSaved(c) /\ Head(queue[c]).call = k)
  BY <1>20 DEF Lapse, store, session, coordinator, TypeInv, TypeOK
<1>21. ASSUME NEW e \in Client, Persist(e) PROVE asked'[c][k] = asked[c][k] \/ (ClaimSaved(c) /\ Head(queue[c]).call = k)
  BY <1>21, <1>3, <1>4, <1>5, <1>6, <1>7, <1>8, <1>9, <1>10, <1>11 DEF Persist
<1>22. ASSUME NEW e \in Client, NEW l \in Call, Coordinate(e, l) PROVE asked'[c][k] = asked[c][k] \/ (ClaimSaved(c) /\ Head(queue[c]).call = k)
  BY <1>22, <1>12, <1>13, <1>14, <1>15, <1>16, <1>17, <1>18, <1>19 DEF Coordinate
<1> QED
  BY <1>0, <1>1, <1>2, <1>20, <1>21, <1>22 DEF Next

\* A client that asks is inert at once: its claim has left the records, and no
\* other link of its queue has a waiter.
LEMMA ClaimInert ==
    ASSUME TypeInv, WaiterInv, ShownInv, NEW c \in Client, NEW k \in Call,
           ClaimSaved(c), Head(queue[c]).call = k
    PROVE  Inert(c, k)'
<1>1. /\ queue[c] # <<>> /\ Head(queue[c]).for = "claim"
      /\ queue' = [queue EXCEPT ![c] = Tail(queue[c])]
      /\ opPc[c][k] = "claiming"
      /\ records' = [records EXCEPT ![c][k] = opTo[c][k]]
      /\ opPc' = [opPc EXCEPT ![c][k] = "delegating"]
      /\ wireState' = [wireState EXCEPT ![c] = "none"]
      /\ UNCHANGED table
  BY DEF ClaimSaved, Saved
<1>2. records'[c][k] \notin {"pending", "provisional"}
  <2>1. opTo[c][k] \in Processing
    BY <1>1 DEF TypeInv, ClaimNamed
  <2> QED
    BY <1>1, <2>1 DEF TypeInv, TypeOK
<1>3. opPc'[c][k] # "claiming" /\ wireState'[c] # "sent"
  BY <1>1 DEF TypeInv, TypeOK
<1>4. table'[c][k] # "pending"
  BY <1>1 DEF ShownInv, ClaimShown, Claimed, TypeInv, ClaimNamed, Processing
<1>5. 1 \in Waiters(queue[c])
  BY <1>1, HeadWaiter DEF TypeInv
<1>6. \A i \in Waiters(queue'[c]) : FALSE
  <2>1. \A i \in Waiters(queue'[c]) : i + 1 \in Waiters(queue[c]) /\ i + 1 # 1
    BY <1>1, DequeueFacts DEF TypeInv
  <2> QED
    BY <1>5, <2>1 DEF WaiterInv, OneWaiter
<1> QED
  BY <1>2, <1>3, <1>4, <1>6 DEF Inert

LEMMA InitAsked == Init => AskedInv
  BY DEF Init, AskedInv

LEMMA AskedStep ==
    ASSUME TypeInv, CursorInv, IssuedInv, WaiterInv, ShownInv, AskedInv, [Next]_vars
    PROVE  AskedInv'
<1> SUFFICES ASSUME NEW c \in Client, NEW k \in Call, asked'[c][k] # <<>>
             PROVE  Inert(c, k)' /\ Len(asked'[c][k]) = 1
  BY DEF AskedInv
<1>1. CASE asked[c][k] # <<>>
  <2>1. Inert(c, k) /\ Len(asked[c][k]) = 1
    BY <1>1 DEF AskedInv
  <2>2. k \in issued
    BY <1>1 DEF IssuedInv, IssuedHeld
  <2>3. phase[c] # "absent"
    BY <1>1 DEF CursorInv
  <2>4. asked'[c][k] = asked[c][k]
    <3>1. ~(ClaimSaved(c) /\ Head(queue[c]).call = k)
      BY <2>1 DEF ClaimSaved, Inert
    <3> QED
      BY <3>1, AskedChange
  <2> QED
    BY <2>1, <2>2, <2>3, <2>4, InertStep
<1>2. CASE asked[c][k] = <<>>
  <2>1. ClaimSaved(c) /\ Head(queue[c]).call = k
    BY <1>2, AskedChange
  <2>2. asked' = [asked EXCEPT ![c][k] = Append(asked[c][k], opTo[c][k])] /\ opPc[c][k] # "idle"
    BY <2>1 DEF ClaimSaved
  <2>3. opTo[c][k] \in Processing
    BY <2>2 DEF TypeInv, ClaimNamed
  <2>4. asked'[c][k] = Append(asked[c][k], opTo[c][k])
    BY <2>2 DEF TypeInv, TypeOK
  <2>5. asked[c][k] \in Seq(Processing) /\ Len(asked[c][k]) = 0
    BY <1>2 DEF TypeInv, TypeOK
  <2>6. Len(asked'[c][k]) = 1
    BY <2>3, <2>4, <2>5, AppendFacts
  <2> QED
    BY <2>1, <2>6, ClaimInert
<1> QED
  BY <1>1, <1>2

-----------------------------------------------------------------------------
(* One client of a session asks *)

\* Only a compare-and-set changes the stored confirmations.
LEMMA StoredChange ==
    ASSUME [Next]_vars
    PROVE  storedTable' = storedTable \/ \E c \in Client : StoreSave(c) /\ CursorMatches(c) /\ storedTable' = wireTable[c]
<1>0. CASE UNCHANGED vars
  BY <1>0 DEF vars, store, session, coordinator, world
<1>1. ASSUME NEW e \in Client, Resume(e)
       PROVE  storedTable' = storedTable
              \/ \E c \in Client : StoreSave(c) /\ CursorMatches(c) /\ storedTable' = wireTable[c]
  BY <1>1 DEF Resume, store, world
<1>2. ASSUME NEW e \in Client, Crash(e)
       PROVE  storedTable' = storedTable
              \/ \E c \in Client : StoreSave(c) /\ CursorMatches(c) /\ storedTable' = wireTable[c]
  BY <1>2 DEF Crash, store, world
<1>3. ASSUME NEW e \in Client, Touch(e)
       PROVE  storedTable' = storedTable
              \/ \E c \in Client : StoreSave(c) /\ CursorMatches(c) /\ storedTable' = wireTable[c]
  BY <1>3 DEF Touch, store, coordinator, world
<1>4. ASSUME NEW e \in Client, StartSave(e)
       PROVE  storedTable' = storedTable
              \/ \E c \in Client : StoreSave(c) /\ CursorMatches(c) /\ storedTable' = wireTable[c]
  BY <1>4 DEF StartSave, HeadReady, store, coordinator, world
<1>5. ASSUME NEW e \in Client, StoreSave(e)
       PROVE  storedTable' = storedTable
              \/ \E c \in Client : StoreSave(c) /\ CursorMatches(c) /\ storedTable' = wireTable[c]
  BY <1>5 DEF StoreSave, store
<1>6. ASSUME NEW e \in Client, LoseSave(e)
       PROVE  storedTable' = storedTable
              \/ \E c \in Client : StoreSave(c) /\ CursorMatches(c) /\ storedTable' = wireTable[c]
  BY <1>6 DEF LoseSave, store, coordinator
<1>7. ASSUME NEW e \in Client, ClaimSaved(e)
       PROVE  storedTable' = storedTable
              \/ \E c \in Client : StoreSave(c) /\ CursorMatches(c) /\ storedTable' = wireTable[c]
  BY <1>7 DEF ClaimSaved, Saved, store
<1>8. ASSUME NEW e \in Client, SettleSaved(e)
       PROVE  storedTable' = storedTable
              \/ \E c \in Client : StoreSave(c) /\ CursorMatches(c) /\ storedTable' = wireTable[c]
  BY <1>8 DEF SettleSaved, Saved, store
<1>9. ASSUME NEW e \in Client, ProposeSaved(e)
       PROVE  storedTable' = storedTable
              \/ \E c \in Client : StoreSave(c) /\ CursorMatches(c) /\ storedTable' = wireTable[c]
  BY <1>9 DEF ProposeSaved, Saved, store
<1>10. ASSUME NEW e \in Client, TouchSaved(e)
       PROVE  storedTable' = storedTable
              \/ \E c \in Client : StoreSave(c) /\ CursorMatches(c) /\ storedTable' = wireTable[c]
  BY <1>10 DEF TouchSaved, Saved, store, coordinator
<1>11. ASSUME NEW e \in Client, SaveFailed(e)
       PROVE  storedTable' = storedTable
              \/ \E c \in Client : StoreSave(c) /\ CursorMatches(c) /\ storedTable' = wireTable[c]
  BY <1>11 DEF SaveFailed, store, world
<1>12. ASSUME NEW e \in Client, NEW l \in Call, Propose(e, l)
       PROVE  storedTable' = storedTable
              \/ \E c \in Client : StoreSave(c) /\ CursorMatches(c) /\ storedTable' = wireTable[c]
  BY <1>12 DEF Propose, MayStart, Quiet, store, session
<1>13. ASSUME NEW e \in Client, NEW l \in Call, ProposeThrows(e, l)
       PROVE  storedTable' = storedTable
              \/ \E c \in Client : StoreSave(c) /\ CursorMatches(c) /\ storedTable' = wireTable[c]
  BY <1>13 DEF ProposeThrows, store, session, world
<1>14. ASSUME NEW e \in Client, NEW l \in Call, ProposeAlreadyDecided(e, l)
       PROVE  storedTable' = storedTable
              \/ \E c \in Client : StoreSave(c) /\ CursorMatches(c) /\ storedTable' = wireTable[c]
  BY <1>14 DEF ProposeAlreadyDecided, store, session, world
<1>15. ASSUME NEW e \in Client, NEW l \in Call, NEW status \in {"pending", "rejected"},
              ProposeReturns(e, l, status)
       PROVE  storedTable' = storedTable
              \/ \E c \in Client : StoreSave(c) /\ CursorMatches(c) /\ storedTable' = wireTable[c]
  BY <1>15 DEF ProposeReturns, Published, store, world
<1>16. ASSUME NEW e \in Client, NEW l \in Call, Approve(e, l)
       PROVE  storedTable' = storedTable
              \/ \E c \in Client : StoreSave(c) /\ CursorMatches(c) /\ storedTable' = wireTable[c]
  BY <1>16 DEF Approve, MayStart, Quiet, Undecided, Claim, store, world
<1>17. ASSUME NEW e \in Client, NEW l \in Call, Reject(e, l)
       PROVE  storedTable' = storedTable
              \/ \E c \in Client : StoreSave(c) /\ CursorMatches(c) /\ storedTable' = wireTable[c]
  BY <1>17 DEF Reject, MayStart, Quiet, Undecided, Claim, store, world
<1>18. ASSUME NEW e \in Client, NEW l \in Call, UpstreamResolves(e, l)
       PROVE  storedTable' = storedTable
              \/ \E c \in Client : StoreSave(c) /\ CursorMatches(c) /\ storedTable' = wireTable[c]
  BY <1>18 DEF UpstreamResolves, Claim, store, world
<1>19. ASSUME NEW e \in Client, NEW l \in Call, UpstreamThrows(e, l)
       PROVE  storedTable' = storedTable
              \/ \E c \in Client : StoreSave(c) /\ CursorMatches(c) /\ storedTable' = wireTable[c]
  BY <1>19 DEF UpstreamThrows, store, session, world
<1>20. ASSUME NEW l \in Call, Lapse(l)
       PROVE  storedTable' = storedTable
              \/ \E c \in Client : StoreSave(c) /\ CursorMatches(c) /\ storedTable' = wireTable[c]
  BY <1>20 DEF Lapse, store, session, coordinator
<1>21. ASSUME NEW e \in Client, Persist(e) PROVE storedTable' = storedTable
              \/ \E c \in Client : StoreSave(c) /\ CursorMatches(c) /\ storedTable' = wireTable[c]
  BY <1>21, <1>3, <1>4, <1>5, <1>6, <1>7, <1>8, <1>9, <1>10, <1>11 DEF Persist
<1>22. ASSUME NEW e \in Client, NEW l \in Call, Coordinate(e, l) PROVE storedTable' = storedTable
              \/ \E c \in Client : StoreSave(c) /\ CursorMatches(c) /\ storedTable' = wireTable[c]
  BY <1>22, <1>12, <1>13, <1>14, <1>15, <1>16, <1>17, <1>18, <1>19 DEF Coordinate
<1> QED
  BY <1>0, <1>1, <1>2, <1>20, <1>21, <1>22 DEF Next

\* The compare-and-set that wins the claim of call k.
Wins(c, k) ==
    /\ StoreSave(c) /\ CursorMatches(c)
    /\ phase[c] = "up" /\ wireState[c] = "sent"
    /\ Head(queue[c]).for = "claim" /\ Head(queue[c]).call = k
    /\ opPc[c][k] = "claiming"

LEMMA WonChange ==
    ASSUME TypeInv, CursorInv, WaiterInv, [Next]_vars,
           NEW c \in Client, NEW k \in Call, Won(c, k)'
    PROVE  Won(c, k) \/ Wins(c, k)
<1>0. CASE UNCHANGED vars
  BY <1>0 DEF TypeInv, TypeOK, Won, vars, store, session, coordinator, world
<1>1. ASSUME NEW e \in Client, Resume(e)
       PROVE  Won(c, k) \/ Wins(c, k)
  BY <1>1 DEF Resume, TypeInv, TypeOK, CursorInv, Won
<1>2. ASSUME NEW e \in Client, Crash(e)
       PROVE  Won(c, k) \/ Wins(c, k)
  BY <1>2 DEF Crash, store, world, TypeInv, TypeOK, Won
<1>3. ASSUME NEW e \in Client, Touch(e)
       PROVE  Won(c, k) \/ Wins(c, k)
  <2>1. UNCHANGED <<wireState, phase, opPc>>
    BY <1>3 DEF Touch, coordinator
  <2>2. queue[c] # <<>>
    BY <2>1 DEF Won, CursorInv
  <2>3. Head(queue'[c]) = Head(queue[c])
    <3>1. queue[e] # <<>> => Head(queue'[e]) = Head(queue[e])
      BY <1>3, TouchFacts DEF Touch, TypeInv
    <3>2. \A d \in Client \ {e} : queue'[d] = queue[d]
      BY <1>3, TouchFacts DEF Touch, TypeInv
    <3> QED
      BY <2>2, <3>1, <3>2
  <2> QED
    BY <2>1, <2>3 DEF Won
<1>4. ASSUME NEW e \in Client, StartSave(e)
       PROVE  Won(c, k) \/ Wins(c, k)
  BY <1>4 DEF StartSave, HeadReady, store, coordinator, world, TypeInv, TypeOK, Won
<1>5. ASSUME NEW e \in Client, StoreSave(e)
       PROVE  Won(c, k) \/ Wins(c, k)
  BY <1>5 DEF StoreSave, Answer, Wins, coordinator, TypeInv, TypeOK, Won
<1>6. ASSUME NEW e \in Client, LoseSave(e)
       PROVE  Won(c, k) \/ Wins(c, k)
  BY <1>6 DEF LoseSave, store, coordinator, TypeInv, TypeOK, Won
<1>7. ASSUME NEW e \in Client, ClaimSaved(e)
       PROVE  Won(c, k) \/ Wins(c, k)
  <2>1. wireState'[e] # "stored" /\ \A d \in Client \ {e} : wireState'[d] = wireState[d] /\ queue'[d] = queue[d]
    BY <1>7 DEF ClaimSaved, Saved, store, TypeInv, TypeOK
  <2>2. c # e
    BY <2>1 DEF Won
  <2>3. opPc'[c] = opPc[c] /\ phase' = phase
    BY <1>7, <2>2 DEF ClaimSaved, Saved, store, TypeInv, TypeOK
  <2> QED
    BY <2>1, <2>2, <2>3 DEF Won
<1>8. ASSUME NEW e \in Client, SettleSaved(e)
       PROVE  Won(c, k) \/ Wins(c, k)
  <2>1. wireState'[e] # "stored" /\ \A d \in Client \ {e} : wireState'[d] = wireState[d] /\ queue'[d] = queue[d]
    BY <1>8 DEF SettleSaved, Saved, store, TypeInv, TypeOK
  <2>2. c # e
    BY <2>1 DEF Won
  <2>3. opPc'[c] = opPc[c] /\ phase' = phase
    BY <1>8, <2>2 DEF SettleSaved, Saved, store, TypeInv, TypeOK
  <2> QED
    BY <2>1, <2>2, <2>3 DEF Won
<1>9. ASSUME NEW e \in Client, ProposeSaved(e)
       PROVE  Won(c, k) \/ Wins(c, k)
  <2>1. wireState'[e] # "stored" /\ \A d \in Client \ {e} : wireState'[d] = wireState[d] /\ queue'[d] = queue[d]
    BY <1>9 DEF ProposeSaved, Saved, store, TypeInv, TypeOK
  <2>2. c # e
    BY <2>1 DEF Won
  <2>3. opPc'[c] = opPc[c] /\ phase' = phase
    BY <1>9, <2>2 DEF ProposeSaved, Saved, store, TypeInv, TypeOK
  <2> QED
    BY <2>1, <2>2, <2>3 DEF Won
<1>10. ASSUME NEW e \in Client, TouchSaved(e)
       PROVE  Won(c, k) \/ Wins(c, k)
  <2>1. wireState'[e] # "stored" /\ \A d \in Client \ {e} : wireState'[d] = wireState[d] /\ queue'[d] = queue[d]
    BY <1>10 DEF TouchSaved, Saved, store, coordinator, TypeInv, TypeOK
  <2>2. c # e
    BY <2>1 DEF Won
  <2>3. opPc'[c] = opPc[c] /\ phase' = phase
    BY <1>10, <2>2 DEF TouchSaved, Saved, store, coordinator, TypeInv, TypeOK
  <2> QED
    BY <2>1, <2>2, <2>3 DEF Won
<1>11. ASSUME NEW e \in Client, SaveFailed(e)
       PROVE  Won(c, k) \/ Wins(c, k)
  <2>1. wireState'[e] # "stored" /\ \A d \in Client \ {e} : wireState'[d] = wireState[d] /\ queue'[d] = queue[d]
    BY <1>11 DEF SaveFailed, store, world, TypeInv, TypeOK
  <2>2. c # e
    BY <2>1 DEF Won
  <2>3. opPc'[c] = opPc[c] /\ phase' = phase
    BY <1>11, <2>2 DEF SaveFailed, store, world, TypeInv, TypeOK
  <2> QED
    BY <2>1, <2>2, <2>3 DEF Won
<1>12. ASSUME NEW e \in Client, NEW l \in Call, Propose(e, l)
       PROVE  Won(c, k) \/ Wins(c, k)
  BY <1>12 DEF Propose, MayStart, Quiet, store, session, TypeInv, TypeOK, Won
<1>13. ASSUME NEW e \in Client, NEW l \in Call, ProposeThrows(e, l)
       PROVE  Won(c, k) \/ Wins(c, k)
  BY <1>13 DEF ProposeThrows, store, session, world, TypeInv, TypeOK, Won
<1>14. ASSUME NEW e \in Client, NEW l \in Call, ProposeAlreadyDecided(e, l)
       PROVE  Won(c, k) \/ Wins(c, k)
  BY <1>14 DEF ProposeAlreadyDecided, store, session, world, TypeInv, TypeOK, Won
<1>15. ASSUME NEW e \in Client, NEW l \in Call, NEW status \in {"pending", "rejected"},
              ProposeReturns(e, l, status)
       PROVE  Won(c, k) \/ Wins(c, k)
  <2>1. Enqueue(e, "propose", l) /\ TypeOK /\ UNCHANGED <<wireState, phase>>
    BY <1>15 DEF ProposeReturns, Claim, TypeInv
  <2>2. queue[c] # <<>> /\ wireState[c] = "stored" /\ phase[c] = "up"
    BY <2>1 DEF Won, CursorInv
  <2>3. Head(queue'[c]) = Head(queue[c])
    BY <2>1, <2>2, EnqueueFacts
  <2>4. UNCHANGED opPc
    BY <1>15 DEF ProposeReturns
  <2> QED
    BY <2>2, <2>3, <2>4 DEF Won
<1>16. ASSUME NEW e \in Client, NEW l \in Call, Approve(e, l)
       PROVE  Won(c, k) \/ Wins(c, k)
  <2>1. Enqueue(e, "claim", l) /\ TypeOK /\ UNCHANGED <<wireState, phase>>
    BY <1>16 DEF Approve, Claim, TypeInv
  <2>2. queue[c] # <<>> /\ wireState[c] = "stored" /\ phase[c] = "up"
    BY <2>1 DEF Won, CursorInv
  <2>3. Head(queue'[c]) = Head(queue[c])
    BY <2>1, <2>2, EnqueueFacts
  <2>4. Head(queue[c]).for = "claim" /\ Head(queue[c]).call = k
    BY <2>3 DEF Won
  <2>5. opPc[c][k] # "idle"
    <3>1. 1 \in Waiters(queue[c]) /\ queue[c][1] = Head(queue[c])
      BY <2>2, <2>4, HeadWaiter DEF TypeInv
    <3> QED
      BY <2>4, <3>1 DEF WaiterInv, OneWaiter
  <2>6. c = e => l # k
    BY <1>16, <2>5 DEF Approve, Undecided
  <2>7. opPc'[c][k] = opPc[c][k]
    BY <1>16, <2>6 DEF Approve, Claim, TypeInv, TypeOK
  <2> QED
    BY <2>2, <2>4, <2>7 DEF Won
<1>17. ASSUME NEW e \in Client, NEW l \in Call, Reject(e, l)
       PROVE  Won(c, k) \/ Wins(c, k)
  <2>1. Enqueue(e, "claim", l) /\ TypeOK /\ UNCHANGED <<wireState, phase>>
    BY <1>17 DEF Reject, Claim, TypeInv
  <2>2. queue[c] # <<>> /\ wireState[c] = "stored" /\ phase[c] = "up"
    BY <2>1 DEF Won, CursorInv
  <2>3. Head(queue'[c]) = Head(queue[c])
    BY <2>1, <2>2, EnqueueFacts
  <2>4. Head(queue[c]).for = "claim" /\ Head(queue[c]).call = k
    BY <2>3 DEF Won
  <2>5. opPc[c][k] # "idle"
    <3>1. 1 \in Waiters(queue[c]) /\ queue[c][1] = Head(queue[c])
      BY <2>2, <2>4, HeadWaiter DEF TypeInv
    <3> QED
      BY <2>4, <3>1 DEF WaiterInv, OneWaiter
  <2>6. c = e => l # k
    BY <1>17, <2>5 DEF Reject, Undecided
  <2>7. opPc'[c][k] = opPc[c][k]
    BY <1>17, <2>6 DEF Reject, Claim, TypeInv, TypeOK
  <2> QED
    BY <2>2, <2>4, <2>7 DEF Won
<1>18. ASSUME NEW e \in Client, NEW l \in Call, UpstreamResolves(e, l)
       PROVE  Won(c, k) \/ Wins(c, k)
  <2>1. Enqueue(e, "claim", l) /\ TypeOK /\ UNCHANGED <<wireState, phase>>
    BY <1>18 DEF UpstreamResolves, Claim, TypeInv
  <2>2. queue[c] # <<>> /\ wireState[c] = "stored" /\ phase[c] = "up"
    BY <2>1 DEF Won, CursorInv
  <2>3. Head(queue'[c]) = Head(queue[c])
    BY <2>1, <2>2, EnqueueFacts
  <2>4. opPc'[c][k] = "claiming" => opPc'[c][k] = opPc[c][k]
    BY <1>18 DEF UpstreamResolves, Claim, TypeInv, TypeOK
  <2> QED
    BY <2>2, <2>3, <2>4 DEF Won
<1>19. ASSUME NEW e \in Client, NEW l \in Call, UpstreamThrows(e, l)
       PROVE  Won(c, k) \/ Wins(c, k)
  BY <1>19 DEF UpstreamThrows, store, session, world, TypeInv, TypeOK, Won
<1>20. ASSUME NEW l \in Call, Lapse(l)
       PROVE  Won(c, k) \/ Wins(c, k)
  BY <1>20 DEF Lapse, store, session, coordinator, TypeInv, TypeOK, Won
<1>21. ASSUME NEW e \in Client, Persist(e) PROVE Won(c, k) \/ Wins(c, k)
  BY <1>21, <1>3, <1>4, <1>5, <1>6, <1>7, <1>8, <1>9, <1>10, <1>11 DEF Persist
<1>22. ASSUME NEW e \in Client, NEW l \in Call, Coordinate(e, l) PROVE Won(c, k) \/ Wins(c, k)
  BY <1>22, <1>12, <1>13, <1>14, <1>15, <1>16, <1>17, <1>18, <1>19 DEF Coordinate
<1> QED
  BY <1>0, <1>1, <1>2, <1>20, <1>21, <1>22 DEF Next

\* A client that committed to call k already had, or has just won its claim.
LEMMA CommittedChange ==
    ASSUME TypeInv, CursorInv, WaiterInv, [Next]_vars,
           NEW c \in Client, NEW k \in Call, Committed(c, k)'
    PROVE  Committed(c, k) \/ Wins(c, k)
<1>1. CASE Won(c, k)'
  BY <1>1, WonChange DEF Committed
<1>2. CASE asked'[c][k] # <<>>
  <2>1. CASE asked'[c][k] = asked[c][k]
    BY <1>2, <2>1 DEF Committed
  <2>2. CASE ClaimSaved(c) /\ Head(queue[c]).call = k
    BY <2>2 DEF ClaimSaved, Saved, Won, Committed
  <2> QED
    BY <2>1, <2>2, AskedChange
<1> QED
  BY <1>1, <1>2 DEF Committed

LEMMA CommittedHeld ==
    ASSUME CursorInv, IssuedInv, NEW c \in Client, NEW k \in Call, Committed(c, k)
    PROVE  k \in issued
  BY DEF Committed, Won, IssuedInv, IssuedHeld

\* A client whose saves are out of date stays so until it dies; only a resume
\* makes a client current.
LEMMA CurrentChange ==
    ASSUME TypeInv, CursorInv, [Next]_vars, NEW d \in Client, Current(d)'
    PROVE  Current(d) \/ Resume(d)
<1>0. CASE UNCHANGED vars
  BY <1>0 DEF TypeInv, TypeOK, CursorInv, Current, vars, store, session, coordinator, world
<1>1. ASSUME NEW e \in Client, Resume(e)
       PROVE  Current(d) \/ Resume(d)
  BY <1>1 DEF Resume, store, TypeInv, TypeOK, Current
<1>2. ASSUME NEW e \in Client, Crash(e)
       PROVE  Current(d) \/ Resume(d)
  BY <1>2 DEF Crash, store, world, TypeInv, TypeOK, CursorInv, Current
<1>3. ASSUME NEW e \in Client, Touch(e)
       PROVE  Current(d) \/ Resume(d)
  BY <1>3 DEF Touch, store, coordinator, world, TypeInv, TypeOK, CursorInv, Current
<1>4. ASSUME NEW e \in Client, StartSave(e)
       PROVE  Current(d) \/ Resume(d)
  BY <1>4 DEF StartSave, HeadReady, store, coordinator, world, TypeInv, TypeOK,
     CursorInv, Current
<1>5. ASSUME NEW e \in Client, StoreSave(e)
       PROVE  Current(d) \/ Resume(d)
  <2>1. CASE CursorMatches(e) /\ storedCursor' = cursor[e] + 1
    <3>1. storedCursor' = storedCursor + 1 /\ UNCHANGED <<cursor, phase>>
      BY <1>5, <2>1 DEF StoreSave, CursorMatches
    <3>2. /\ cursor[d] <= storedCursor /\ cursor[d] \in Nat /\ storedCursor \in Nat
          /\ wireState[d] = "stored" => cursor[d] < storedCursor
      BY DEF CursorInv, TypeInv, TypeOK
    <3>3. wireState'[d] = "stored" => d = e \/ wireState[d] = "stored"
      BY <1>5 DEF StoreSave, TypeInv, TypeOK
    <3>4. cursor'[d] # storedCursor' /\ (cursor'[d] + 1 = storedCursor' => cursor[d] = storedCursor)
      BY <3>1, <3>2
    <3>5. d = e
      BY <3>1, <3>2, <3>3, <3>4 DEF Current
    <3> QED
      BY <1>5, <2>1, <3>5 DEF StoreSave, CursorMatches, Current
  <2>2. CASE ~CursorMatches(e) /\ UNCHANGED store
    BY <1>5, <2>2 DEF StoreSave, Answer, CursorMatches, store, TypeInv, TypeOK, Current
  <2> QED
    BY <1>5, <2>1, <2>2 DEF StoreSave
<1>6. ASSUME NEW e \in Client, LoseSave(e)
       PROVE  Current(d) \/ Resume(d)
  BY <1>6 DEF LoseSave, store, coordinator, TypeInv, TypeOK, CursorInv, Current
<1>7. ASSUME NEW e \in Client, ClaimSaved(e)
       PROVE  Current(d) \/ Resume(d)
  BY <1>7 DEF ClaimSaved, Saved, store, TypeInv, TypeOK, CursorInv, Current
<1>8. ASSUME NEW e \in Client, SettleSaved(e)
       PROVE  Current(d) \/ Resume(d)
  BY <1>8 DEF SettleSaved, Saved, store, TypeInv, TypeOK, CursorInv, Current
<1>9. ASSUME NEW e \in Client, ProposeSaved(e)
       PROVE  Current(d) \/ Resume(d)
  BY <1>9 DEF ProposeSaved, Saved, store, TypeInv, TypeOK, CursorInv, Current
<1>10. ASSUME NEW e \in Client, TouchSaved(e)
       PROVE  Current(d) \/ Resume(d)
  BY <1>10 DEF TouchSaved, Saved, store, coordinator, TypeInv, TypeOK, CursorInv, Current
<1>11. ASSUME NEW e \in Client, SaveFailed(e)
       PROVE  Current(d) \/ Resume(d)
  BY <1>11 DEF SaveFailed, store, world, TypeInv, TypeOK, CursorInv, Current
<1>12. ASSUME NEW e \in Client, NEW l \in Call, Propose(e, l)
       PROVE  Current(d) \/ Resume(d)
  BY <1>12 DEF Propose, MayStart, Quiet, store, session, TypeInv, TypeOK, CursorInv, Current
<1>13. ASSUME NEW e \in Client, NEW l \in Call, ProposeThrows(e, l)
       PROVE  Current(d) \/ Resume(d)
  BY <1>13 DEF ProposeThrows, store, session, world, TypeInv, TypeOK, CursorInv, Current
<1>14. ASSUME NEW e \in Client, NEW l \in Call, ProposeAlreadyDecided(e, l)
       PROVE  Current(d) \/ Resume(d)
  BY <1>14 DEF ProposeAlreadyDecided, store, session, world, TypeInv, TypeOK, CursorInv,
     Current
<1>15. ASSUME NEW e \in Client, NEW l \in Call, NEW status \in {"pending", "rejected"},
              ProposeReturns(e, l, status)
       PROVE  Current(d) \/ Resume(d)
  BY <1>15 DEF ProposeReturns, Published, store, world, TypeInv, TypeOK, CursorInv, Current
<1>16. ASSUME NEW e \in Client, NEW l \in Call, Approve(e, l)
       PROVE  Current(d) \/ Resume(d)
  BY <1>16 DEF Approve, MayStart, Quiet, Undecided, Claim, store, world, TypeInv,
     TypeOK, CursorInv, Current
<1>17. ASSUME NEW e \in Client, NEW l \in Call, Reject(e, l)
       PROVE  Current(d) \/ Resume(d)
  BY <1>17 DEF Reject, MayStart, Quiet, Undecided, Claim, store, world, TypeInv, TypeOK,
     CursorInv, Current
<1>18. ASSUME NEW e \in Client, NEW l \in Call, UpstreamResolves(e, l)
       PROVE  Current(d) \/ Resume(d)
  BY <1>18 DEF UpstreamResolves, Claim, store, world, TypeInv, TypeOK, CursorInv, Current
<1>19. ASSUME NEW e \in Client, NEW l \in Call, UpstreamThrows(e, l)
       PROVE  Current(d) \/ Resume(d)
  BY <1>19 DEF UpstreamThrows, store, session, world, TypeInv, TypeOK, CursorInv, Current
<1>20. ASSUME NEW l \in Call, Lapse(l)
       PROVE  Current(d) \/ Resume(d)
  BY <1>20 DEF Lapse, store, session, coordinator, TypeInv, TypeOK, CursorInv, Current
<1>21. ASSUME NEW e \in Client, Persist(e) PROVE Current(d) \/ Resume(d)
  BY <1>21, <1>3, <1>4, <1>5, <1>6, <1>7, <1>8, <1>9, <1>10, <1>11 DEF Persist
<1>22. ASSUME NEW e \in Client, NEW l \in Call, Coordinate(e, l) PROVE Current(d) \/ Resume(d)
  BY <1>22, <1>12, <1>13, <1>14, <1>15, <1>16, <1>17, <1>18, <1>19 DEF Coordinate
<1> QED
  BY <1>0, <1>1, <1>2, <1>20, <1>21, <1>22 DEF Next

\* Winning a claim leaves every other client with a stale cursor.
LEMMA WinsAlone ==
    ASSUME TypeInv, CursorInv, NEW c \in Client, NEW k \in Call, Wins(c, k),
           NEW d \in Client \ {c}
    PROVE  ~Current(d)'
<1>1. /\ storedCursor' = storedCursor + 1
      /\ cursor' = cursor
      /\ wireState'[d] = wireState[d]
  BY DEF Wins, StoreSave, CursorMatches, TypeInv, TypeOK
<1>2. /\ cursor[d] <= storedCursor
      /\ wireState[d] = "stored" => cursor[d] < storedCursor
      /\ cursor[d] \in Nat /\ storedCursor \in Nat
  BY DEF CursorInv, TypeInv, TypeOK
<1> QED
  BY <1>1, <1>2 DEF Current

\* A client that resumes from a decided call is inert for it.
LEMMA ResumeInert ==
    ASSUME TypeInv, CursorInv, NEW d \in Client, NEW k \in Call,
           Resume(d), storedTable[k] # "pending"
    PROVE  Inert(d, k)'
<1>1. storedTable[k] # "provisional"
  BY DEF TypeInv, TypeOK
<1>2. records'[d][k] = storedTable[k] /\ table'[d][k] = storedTable[k]
  BY DEF Resume, TypeInv, TypeOK
<1>3. opPc'[d][k] = "idle" /\ wireState'[d] = "none" /\ queue'[d] = <<>>
  BY DEF Resume, CursorInv
<1>4. Waiters(queue'[d]) = {}
  BY <1>3 DEF Waiters
<1> QED
  BY <1>1, <1>2, <1>3, <1>4 DEF Inert

LEMMA InitCommit == Init => CommitInv
  BY DEF Init, CommitInv, Committed, Won

LEMMA CommitStep ==
    ASSUME TypeInv, CursorInv, IssuedInv, WaiterInv, ShownInv, AskedInv, CommitInv, [Next]_vars
    PROVE  CommitInv'
<1> SUFFICES ASSUME NEW c \in Client, NEW k \in Call, Committed(c, k)'
             PROVE  /\ storedTable'[k] # "pending"
                    /\ \A d \in Client \ {c} : ~Committed(d, k)' /\ (Current(d)' => Inert(d, k)')
  BY DEF CommitInv
<1>1. CASE Committed(c, k)
  <2>1. /\ storedTable[k] # "pending"
        /\ \A d \in Client \ {c} : ~Committed(d, k) /\ (Current(d) => Inert(d, k))
    BY <1>1 DEF CommitInv
  <2>2. k \in issued
    BY <1>1, CommittedHeld
  <2>3. storedTable'[k] # "pending"
    <3>1. CASE storedTable' = storedTable
      BY <2>1, <3>1
    <3>2. ASSUME NEW e \in Client, StoreSave(e), CursorMatches(e), storedTable' = wireTable[e]
          PROVE  storedTable'[k] # "pending"
      <4>1. wireState[e] = "sent" /\ Current(e)
        BY <3>2 DEF StoreSave, CursorMatches, Current
      <4>2. Inert(e, k)
        <5>1. CASE e # c
          BY <2>1, <4>1, <5>1
        <5>2. CASE e = c
          <6>1. ~Won(c, k)
            BY <4>1, <5>2 DEF Won
          <6> QED
            BY <1>1, <5>2, <6>1 DEF Committed, AskedInv
        <5> QED
          BY <5>1, <5>2
      <4> QED
        BY <3>2, <4>1, <4>2 DEF Inert
    <3> QED
      BY <3>1, <3>2, StoredChange
  <2>4. ASSUME NEW d \in Client \ {c}, Current(d)' PROVE Inert(d, k)'
    <3>1. CASE Current(d)
      <4>1. Inert(d, k)
        BY <2>1, <3>1
      <4>2. phase[d] # "absent"
        BY <3>1 DEF Current, CursorInv
      <4> QED
        BY <2>2, <4>1, <4>2, InertStep
    <3>2. CASE Resume(d)
      BY <2>1, <3>2, ResumeInert
    <3> QED
      BY <2>4, <3>1, <3>2, CurrentChange
  <2>5. ASSUME NEW d \in Client \ {c}, Committed(d, k)' PROVE FALSE
    <3>1. Wins(d, k)
      BY <2>1, <2>5, CommittedChange
    <3>2. Inert(d, k)
      BY <2>1, <3>1 DEF Wins, CursorMatches, Current
    <3> QED
      BY <3>1, <3>2 DEF Wins, Inert
  <2> QED
    BY <2>3, <2>4, <2>5
<1>2. CASE ~Committed(c, k)
  <2>1. Wins(c, k)
    BY <1>2, CommittedChange
  <2>2. storedTable'[k] # "pending"
    <3>1. wireTable[c][k] # "pending"
      BY <2>1 DEF Wins, ShownInv, ClaimShown, Claimed, TypeInv, ClaimNamed, Processing
    <3>2. storedTable' = wireTable[c]
      BY <2>1 DEF Wins, StoreSave
    <3> QED
      BY <3>1, <3>2
  <2>3. \A d \in Client \ {c} : ~Current(d)'
    BY <2>1, WinsAlone
  <2>4. ASSUME NEW d \in Client \ {c}, Committed(d, k)' PROVE FALSE
    <3>1. CASE Committed(d, k)
      <4>1. Current(c)
        BY <2>1 DEF Wins, CursorMatches, Current
      <4>2. Inert(c, k)
        BY <3>1, <4>1 DEF CommitInv
      <4> QED
        BY <2>1, <4>2 DEF Wins, Inert
    <3>2. CASE Wins(d, k)
      <4>1. wireState'[c] = "stored"
        BY <2>1 DEF Wins, StoreSave, Answer, CursorMatches, TypeInv, TypeOK
      <4>2. wireState'[c] = "sent"
        BY <2>1, <3>2 DEF Wins, StoreSave, TypeInv, TypeOK
      <4> QED
        BY <4>1, <4>2
    <3> QED
      BY <2>4, <3>1, <3>2, CommittedChange
  <2> QED
    BY <2>2, <2>3, <2>4
<1> QED
  BY <1>1, <1>2

-----------------------------------------------------------------------------
(* The theorems *)

\* The invariant that carries AskedOnce and PendingIsUndecided.
SerialInv ==
    /\ TypeInv
    /\ CursorInv
    /\ IssuedInv
    /\ OperationInv
    /\ WaiterInv
    /\ ShownInv
    /\ AskedInv
    /\ CommitInv

LEMMA SerialInvHolds == ASSUME Overlap = FALSE PROVE Spec => []SerialInv
<1>1. Init => SerialInv
  BY InitTypes, InitCursor, InitIssued, InitOperation, InitWaiter, InitShown, InitAsked,
     InitCommit DEF SerialInv
<1>2. SerialInv /\ [Next]_vars => SerialInv'
  <2> SUFFICES ASSUME SerialInv, [Next]_vars PROVE SerialInv'
    OBVIOUS
  <2> USE DEF SerialInv
  <2>1. TypeInv' /\ CursorInv' /\ IssuedInv'
    BY TypeStep, CursorStep, IssuedStep
  <2>2. OperationInv' /\ WaiterInv' /\ ShownInv'
    BY OperationStep, WaiterStep, ShownStep
  <2>3. AskedInv' /\ CommitInv'
    BY AskedStep, CommitStep
  <2> QED
    BY <2>1, <2>2, <2>3
<1> QED
  BY <1>1, <1>2, PTL DEF Spec

\* When the host serialises each client's operations, all the clients of a
\* session together ask their upstream controllers about a call at most once,
\* whatever crashes, resumes, lost saves and conflicts happen.
THEOREM SerialAskedOnce == ASSUME Overlap = FALSE PROVE Spec => []AskedOnce
<1>1. SerialInv => AskedOnce
  BY DEF SerialInv, AskedOnce, AskedInv, CommitInv, Committed
<1> QED
  BY <1>1, SerialInvHolds, PTL

\* Under the same assumption the stored snapshot never offers as pending a call
\* that was put to an upstream controller.
THEOREM SerialPendingIsUndecided == ASSUME Overlap = FALSE PROVE Spec => []PendingIsUndecided
<1>1. SerialInv => PendingIsUndecided
  BY DEF SerialInv, PendingIsUndecided, Asked, CommitInv, Committed
<1> QED
  BY <1>1, SerialInvHolds, PTL

-----------------------------------------------------------------------------
(* One client asks once, whether its operations overlap or not *)

\* A client that asked about a call no longer takes decisions on it.
Decided(c, k) ==
    asked[c][k] # <<>> =>
        /\ Len(asked[c][k]) = 1
        /\ records[c][k] \notin {"pending", "provisional"}
        /\ opPc[c][k] # "claiming"

DecidedInv == \A c \in Client, k \in Call : Decided(c, k)

LEMMA DecidedStep ==
    ASSUME TypeInv, CursorInv, IssuedInv, DecidedInv, [Next]_vars,
           NEW c \in Client, NEW k \in Call
    PROVE  Decided(c, k)'
<1>0. CASE UNCHANGED vars
  BY <1>0 DEF TypeInv, TypeOK, DecidedInv, Decided, vars, store, session, coordinator, world
<1>1. ASSUME NEW e \in Client, Resume(e)
       PROVE  Decided(c, k)'
  BY <1>1 DEF Resume, store, world, TypeInv, TypeOK, DecidedInv, Decided, CursorInv
<1>2. ASSUME NEW e \in Client, Crash(e)
       PROVE  Decided(c, k)'
  BY <1>2 DEF Crash, store, world, TypeInv, TypeOK, DecidedInv, Decided, Empty
<1>3. ASSUME NEW e \in Client, Touch(e)
       PROVE  Decided(c, k)'
  BY <1>3 DEF Touch, store, coordinator, world, TypeInv, TypeOK, DecidedInv, Decided
<1>4. ASSUME NEW e \in Client, StartSave(e)
       PROVE  Decided(c, k)'
  BY <1>4 DEF StartSave, HeadReady, store, coordinator, world, TypeInv, TypeOK,
     DecidedInv, Decided
<1>5. ASSUME NEW e \in Client, StoreSave(e)
       PROVE  Decided(c, k)'
  BY <1>5 DEF StoreSave, Answer, CursorMatches, store, coordinator, world, TypeInv,
     TypeOK, DecidedInv, Decided
<1>6. ASSUME NEW e \in Client, LoseSave(e)
       PROVE  Decided(c, k)'
  BY <1>6 DEF LoseSave, store, coordinator, TypeInv, TypeOK, DecidedInv, Decided
<1>7. ASSUME NEW e \in Client, ClaimSaved(e)
       PROVE  Decided(c, k)'
  <2> DEFINE h == Head(queue[e]).call
  <2>1. /\ h \in Call
        /\ opPc[e][h] = "claiming"
        /\ records' = [records EXCEPT ![e][h] = opTo[e][h]]
        /\ opPc' = [opPc EXCEPT ![e][h] = "delegating"]
        /\ asked' = [asked EXCEPT ![e][h] = Append(asked[e][h], opTo[e][h])]
    BY <1>7, TicketTypes DEF ClaimSaved, Saved, TypeInv, TypeOK
  <2> HIDE DEF h
  <2>2. opTo[e][h] \in Processing
    BY <2>1 DEF TypeInv, ClaimNamed
  <2>3. asked[e][h] \in Seq(Processing)
    BY <2>1 DEF TypeInv, TypeOK
  <2>4. CASE c = e /\ k = h
    <3>1. asked[e][h] = <<>>
      BY <2>1, <2>4 DEF DecidedInv, Decided
    <3>2. asked'[c][k] = Append(asked[e][h], opTo[e][h])
      BY <2>1, <2>4 DEF TypeInv, TypeOK
    <3>3. Len(asked'[c][k]) = 1
      BY <2>2, <2>3, <3>1, <3>2, AppendFacts
    <3> QED
      BY <2>1, <2>2, <2>4, <3>3 DEF TypeInv, TypeOK, Decided
  <2>5. CASE ~(c = e /\ k = h)
    <3>1. /\ asked'[c][k] = asked[c][k]
          /\ records'[c][k] = records[c][k]
          /\ opPc'[c][k] = opPc[c][k]
      BY <2>1, <2>5 DEF TypeInv, TypeOK
    <3> QED
      BY <3>1 DEF DecidedInv, Decided
  <2> QED
    BY <2>4, <2>5
<1>8. ASSUME NEW e \in Client, SettleSaved(e)
       PROVE  Decided(c, k)'
  <2>1. Head(queue[e]).call \in Call /\ opTo[e][Head(queue[e]).call] \in Processing
    BY <1>8, TicketTypes DEF SettleSaved, Saved, TypeInv, TypeOK, ClaimNamed
  <2>2. TerminalOf[opTo[e][Head(queue[e]).call]] \in Terminal
    BY <2>1, TerminalOfType
  <2> QED
    BY <1>8, <2>1, <2>2 DEF SettleSaved, Saved, store, TypeInv, TypeOK, DecidedInv, Decided
<1>9. ASSUME NEW e \in Client, ProposeSaved(e)
       PROVE  Decided(c, k)'
  BY <1>9 DEF ProposeSaved, Saved, store, TypeInv, TypeOK, DecidedInv, Decided
<1>10. ASSUME NEW e \in Client, TouchSaved(e)
       PROVE  Decided(c, k)'
  BY <1>10 DEF TouchSaved, Saved, store, coordinator, TypeInv, TypeOK, DecidedInv, Decided
<1>11. ASSUME NEW e \in Client, SaveFailed(e)
       PROVE  Decided(c, k)'
  <2> DEFINE h == Head(queue[e]).call
  <2>1. opPc' = opPc \/ opPc' = [opPc EXCEPT ![e][h] = "idle"]
    BY <1>11 DEF SaveFailed
  <2> HIDE DEF h
  <2>2. DOMAIN opPc = Client /\ DOMAIN opPc[c] = Call
    BY DEF TypeInv, TypeOK
  <2>3. opPc'[c][k] = opPc[c][k] \/ opPc'[c][k] = "idle"
    BY <2>1, <2>2
  <2> QED
    BY <1>11, <2>3 DEF SaveFailed, world, DecidedInv, Decided
<1>12. ASSUME NEW e \in Client, NEW l \in Call, Propose(e, l)
       PROVE  Decided(c, k)'
  BY <1>12 DEF Propose, MayStart, Quiet, store, session, TypeInv, TypeOK, DecidedInv,
     Decided, IssuedInv, IssuedHeld
<1>13. ASSUME NEW e \in Client, NEW l \in Call, ProposeThrows(e, l)
       PROVE  Decided(c, k)'
  BY <1>13 DEF ProposeThrows, store, session, world, TypeInv, TypeOK, DecidedInv, Decided
<1>14. ASSUME NEW e \in Client, NEW l \in Call, ProposeAlreadyDecided(e, l)
       PROVE  Decided(c, k)'
  BY <1>14 DEF ProposeAlreadyDecided, store, session, world, TypeInv, TypeOK,
     DecidedInv, Decided
<1>15. ASSUME NEW e \in Client, NEW l \in Call, NEW status \in {"pending", "rejected"},
              ProposeReturns(e, l, status)
       PROVE  Decided(c, k)'
  BY <1>15 DEF ProposeReturns, Published, store, world, TypeInv, TypeOK, DecidedInv, Decided
<1>16. ASSUME NEW e \in Client, NEW l \in Call, Approve(e, l)
       PROVE  Decided(c, k)'
  BY <1>16 DEF Approve, MayStart, Quiet, Undecided, Claim, store, world, TypeInv,
     TypeOK, DecidedInv, Decided
<1>17. ASSUME NEW e \in Client, NEW l \in Call, Reject(e, l)
       PROVE  Decided(c, k)'
  BY <1>17 DEF Reject, MayStart, Quiet, Undecided, Claim, store, world, TypeInv, TypeOK,
     DecidedInv, Decided
<1>18. ASSUME NEW e \in Client, NEW l \in Call, UpstreamResolves(e, l)
       PROVE  Decided(c, k)'
  BY <1>18 DEF UpstreamResolves, Claim, store, world, TypeInv, TypeOK, DecidedInv, Decided
<1>19. ASSUME NEW e \in Client, NEW l \in Call, UpstreamThrows(e, l)
       PROVE  Decided(c, k)'
  BY <1>19 DEF UpstreamThrows, store, session, world, TypeInv, TypeOK, DecidedInv, Decided
<1>20. ASSUME NEW l \in Call, Lapse(l)
       PROVE  Decided(c, k)'
  BY <1>20 DEF Lapse, store, session, coordinator, TypeInv, TypeOK, DecidedInv, Decided
<1>21. ASSUME NEW e \in Client, Persist(e) PROVE Decided(c, k)'
  BY <1>21, <1>3, <1>4, <1>5, <1>6, <1>7, <1>8, <1>9, <1>10, <1>11 DEF Persist
<1>22. ASSUME NEW e \in Client, NEW l \in Call, Coordinate(e, l) PROVE Decided(c, k)'
  BY <1>22, <1>12, <1>13, <1>14, <1>15, <1>16, <1>17, <1>18, <1>19 DEF Coordinate
<1> QED
  BY <1>0, <1>1, <1>2, <1>20, <1>21, <1>22 DEF Next

\* However its operations overlap, one client asks its upstream controller about
\* a call at most once.
THEOREM OncePerClient == Spec => []AskedOncePerClient
<1> DEFINE I == TypeInv /\ CursorInv /\ IssuedInv /\ DecidedInv
<1>1. Init => I
  <2>1. Init => DecidedInv
    BY DEF Init, DecidedInv, Decided
  <2> QED
    BY <2>1, InitTypes, InitCursor, InitIssued
<1>2. I /\ [Next]_vars => I'
  <2> SUFFICES ASSUME I, [Next]_vars PROVE I'
    OBVIOUS
  <2>1. DecidedInv'
    BY DecidedStep DEF DecidedInv
  <2> QED
    BY <2>1, TypeStep, CursorStep, IssuedStep
<1>3. I => AskedOncePerClient
  <2> SUFFICES ASSUME I, NEW c \in Client, NEW k \in Call PROVE Len(asked[c][k]) <= 1
    BY DEF AskedOncePerClient
  <2>1. CASE asked[c][k] = <<>>
    BY <2>1
  <2>2. CASE asked[c][k] # <<>>
    <3>1. Len(asked[c][k]) = 1
      BY <2>2 DEF DecidedInv, Decided
    <3> QED
      BY <3>1
  <2> QED
    BY <2>1, <2>2
<1> QED
  BY <1>1, <1>2, <1>3, PTL DEF Spec

-----------------------------------------------------------------------------
(* A stored status that claims success is true *)

\* Some client has asked for what status s of call k says was done.
Backed(a, k, s) ==
    /\ s = "approved" => \E c \in Client : a[c][k] = <<"approving">>
    /\ s = "expired" => \E c \in Client : a[c][k] = <<"expiring">>

\* Every place from which a status can reach the storage has only such statuses.
BackedInv ==
    /\ \A k \in Call : Backed(asked, k, storedTable[k])
    /\ \A c \in Client, k \in Call : /\ Backed(asked, k, table[c][k])
                                     /\ Backed(asked, k, records[c][k])
                                     /\ Backed(asked, k, wireTable[c][k])
    /\ \A c \in Client : \A i \in Waiters(queue[c]) : \A k \in Call :
          Backed(asked, k, queue[c][i].prev[k])

\* An operation that has asked, asked for the status it is at.
AskedStatusInv ==
    \A c \in Client, k \in Call :
        opPc[c][k] \in {"delegating", "settling"} => asked[c][k] = <<opTo[c][k]>>

LEMMA InnocentBacked ==
    ASSUME NEW a, NEW k, NEW s, s \notin {"approved", "expired"}
    PROVE  Backed(a, k, s)
  BY DEF Backed

\* What has been asked for stays asked for.
LEMMA AskedStays ==
    ASSUME TypeInv, DecidedInv, [Next]_vars
    PROVE  \A c \in Client, k \in Call : asked[c][k] # <<>> => asked'[c][k] = asked[c][k]
<1>1. ASSUME NEW e \in Client, ClaimSaved(e), NEW c \in Client, NEW k \in Call, asked[c][k] # <<>>
      PROVE  asked'[c][k] = asked[c][k]
  <2> DEFINE h == Head(queue[e]).call
  <2>1. h \in Call /\ opPc[e][h] = "claiming"
    BY <1>1, TicketTypes DEF ClaimSaved, Saved, TypeInv, TypeOK
  <2>2. asked' = [asked EXCEPT ![e][h] = Append(@, opTo[e][h])]
    BY <1>1 DEF ClaimSaved
  <2> HIDE DEF h
  <2>3. ~(c = e /\ k = h)
    BY <1>1, <2>1 DEF DecidedInv, Decided
  <2> QED
    BY <2>1, <2>2, <2>3 DEF TypeInv, TypeOK
<1>2. ASSUME NEW e \in Client, Persist(e), ~ClaimSaved(e) PROVE asked' = asked
  BY <1>2 DEF Persist, Touch, StartSave, StoreSave, LoseSave, SettleSaved, ProposeSaved,
     TouchSaved, SaveFailed, world
<1>3. ASSUME NEW e \in Client, NEW l \in Call, Coordinate(e, l) PROVE asked' = asked
  BY <1>3 DEF Coordinate, Propose, ProposeThrows, ProposeAlreadyDecided, ProposeReturns,
     Approve, Reject, Claim, UpstreamResolves, UpstreamThrows, world
<1>4. ASSUME NEW e \in Client, Resume(e) \/ Crash(e) PROVE asked' = asked
  BY <1>4 DEF Resume, Crash, world
<1>5. ASSUME NEW l \in Call, Lapse(l) PROVE asked' = asked
  BY <1>5 DEF Lapse
<1>6. ASSUME UNCHANGED vars PROVE asked' = asked
  BY <1>6 DEF vars, world
<1> QED
  BY <1>1, <1>2, <1>3, <1>4, <1>5, <1>6 DEF Next

LEMMA BackedStays ==
    ASSUME TypeInv, DecidedInv, [Next]_vars, NEW k \in Call, NEW s, Backed(asked, k, s)
    PROVE  Backed(asked', k, s)
<1>1. \A c \in Client : asked[c][k] # <<>> => asked'[c][k] = asked[c][k]
  BY AskedStays
<1>2. <<"approving">> # <<>> /\ <<"expiring">> # <<>>
  OBVIOUS
<1> QED
  BY <1>1, <1>2 DEF Backed

\* The status that an operation ends in is what it asked for.
LEMMA TerminalBacked ==
    ASSUME NEW a, NEW c \in Client, NEW k \in Call, NEW s \in Processing, a[c][k] = <<s>>
    PROVE  Backed(a, k, TerminalOf[s])
  BY DEF Backed, TerminalOf

LEMMA AskedStatusStep ==
    ASSUME TypeInv, DecidedInv, AskedStatusInv, [Next]_vars,
           NEW c \in Client, NEW k \in Call, opPc'[c][k] \in {"delegating", "settling"}
    PROVE  asked'[c][k] = <<opTo'[c][k]>>
<1> USE DEF TypeInv, TypeOK
<1>1. \/ /\ asked[c][k] = <<opTo[c][k]>> /\ opTo'[c][k] = opTo[c][k]
      \/ asked'[c][k] = <<opTo'[c][k]>>
  <2> DEFINE G == (\/ asked[c][k] = <<opTo[c][k]>> /\ opTo'[c][k] = opTo[c][k]
                  \/ asked'[c][k] = <<opTo'[c][k]>>)
  <2> SUFFICES G
    OBVIOUS
  <2>1. CASE UNCHANGED vars
    BY <2>1 DEF vars, coordinator, world, AskedStatusInv
  <2>2. CASE \E e \in Client : Resume(e)
    BY <2>2 DEF Resume, store, world, AskedStatusInv
  <2>3. CASE \E e \in Client : Crash(e)
    BY <2>3 DEF Crash, store, world, Empty, AskedStatusInv
  <2>4. CASE \E e \in Client : Touch(e)
    BY <2>4 DEF Touch, store, coordinator, world, AskedStatusInv
  <2>5. CASE \E e \in Client : StartSave(e)
    BY <2>5 DEF StartSave, store, coordinator, world, AskedStatusInv
  <2>6. CASE \E e \in Client : StoreSave(e)
    BY <2>6 DEF StoreSave, store, coordinator, world, AskedStatusInv
  <2>7. CASE \E e \in Client : LoseSave(e)
    BY <2>7 DEF LoseSave, store, coordinator, AskedStatusInv
  <2>8. CASE \E e \in Client : ProposeSaved(e)
    BY <2>8 DEF ProposeSaved, Saved, store, AskedStatusInv
  <2>9. CASE \E e \in Client : TouchSaved(e)
    BY <2>9 DEF TouchSaved, Saved, store, coordinator, AskedStatusInv
  <2>10. ASSUME NEW e \in Client, ClaimSaved(e) PROVE G
    <3> DEFINE h == Head(queue[e]).call
    <3>1. h \in Call /\ opPc[e][h] = "claiming" /\ opTo' = opTo
      BY <2>10, TicketTypes DEF ClaimSaved, Saved
    <3>2. /\ opPc' = [opPc EXCEPT ![e][h] = "delegating"]
          /\ asked' = [asked EXCEPT ![e][h] = Append(@, opTo[e][h])]
      BY <2>10 DEF ClaimSaved
    <3> HIDE DEF h
    <3>3. CASE c = e /\ k = h
      <4>1. asked[e][h] = <<>>
        BY <3>1 DEF DecidedInv, Decided
      <4>2. asked'[c][k] = Append(asked[e][h], opTo[e][h])
        BY <3>1, <3>2, <3>3
      <4> QED
        BY <3>1, <3>3, <4>1, <4>2
    <3>4. CASE ~(c = e /\ k = h)
      BY <3>1, <3>2, <3>4 DEF AskedStatusInv
    <3> QED
      BY <3>3, <3>4
  <2>11. ASSUME NEW e \in Client, SettleSaved(e) PROVE G
    <3> DEFINE h == Head(queue[e]).call
    <3>1. h \in Call
      BY <2>11, TicketTypes DEF SettleSaved, Saved
    <3>2. /\ opPc' = [opPc EXCEPT ![e][h] = "idle"] /\ opTo' = [opTo EXCEPT ![e][h] = "none"]
      BY <2>11 DEF SettleSaved
    <3> HIDE DEF h
    <3> QED
      BY <3>1, <3>2 DEF AskedStatusInv
  <2>12. ASSUME NEW e \in Client, SaveFailed(e) PROVE G
    <3> DEFINE h == Head(queue[e]).call
    <3>1. \/ opPc' = opPc /\ opTo' = opTo
          \/ /\ opPc' = [opPc EXCEPT ![e][h] = "idle"]
             /\ opTo' = [opTo EXCEPT ![e][h] = "none"]
      BY <2>12 DEF SaveFailed
    <3> HIDE DEF h
    <3>2. /\ DOMAIN opPc = Client /\ DOMAIN opPc[c] = Call
          /\ DOMAIN opTo = Client /\ DOMAIN opTo[c] = Call
      OBVIOUS
    <3>3. CASE opPc' = opPc /\ opTo' = opTo
      BY <3>3 DEF AskedStatusInv
    <3>4. CASE ~(c = e /\ k = h)
      <4>1. opPc'[c][k] = opPc[c][k] /\ opTo'[c][k] = opTo[c][k]
        BY <3>1, <3>2, <3>4
      <4> QED
        BY <4>1 DEF AskedStatusInv
    <3>5. CASE c = e /\ k = h /\ opPc' = [opPc EXCEPT ![e][h] = "idle"]
      <4>1. opPc'[c][k] = "idle"
        BY <3>2, <3>5
      <4> QED
        BY <4>1
    <3> QED
      BY <3>1, <3>3, <3>4, <3>5
  <2>13. CASE \E e \in Client, l \in Call : Propose(e, l)
    BY <2>13 DEF Propose, store, session, AskedStatusInv
  <2>14. CASE \E e \in Client, l \in Call : ProposeThrows(e, l)
    BY <2>14 DEF ProposeThrows, store, session, world, AskedStatusInv
  <2>15. CASE \E e \in Client, l \in Call : ProposeAlreadyDecided(e, l)
    BY <2>15 DEF ProposeAlreadyDecided, store, session, world, AskedStatusInv
  <2>16. CASE \E e \in Client, l \in Call : UpstreamThrows(e, l)
    BY <2>16 DEF UpstreamThrows, store, session, world, AskedStatusInv
  <2>17. CASE \E e \in Client, l \in Call, status \in {"pending", "rejected"} :
                 ProposeReturns(e, l, status)
    BY <2>17 DEF ProposeReturns, AskedStatusInv
  <2>18. CASE \E e \in Client, l \in Call : Approve(e, l)
    BY <2>18 DEF Approve, Claim, AskedStatusInv
  <2>19. CASE \E e \in Client, l \in Call : Reject(e, l)
    BY <2>19 DEF Reject, Claim, AskedStatusInv
  <2>20. CASE \E e \in Client, l \in Call : UpstreamResolves(e, l)
    BY <2>20 DEF UpstreamResolves, Claim, AskedStatusInv
  <2>21. CASE \E l \in Call : Lapse(l)
    BY <2>21 DEF Lapse, coordinator, AskedStatusInv
  <2> HIDE DEF G
  <2>22. ASSUME NEW e \in Client, Persist(e) PROVE G
    BY <2>22, <2>4, <2>5, <2>6, <2>7, <2>8, <2>9, <2>10, <2>11, <2>12 DEF Persist
  <2>23. ASSUME NEW e \in Client, NEW l \in Call, Coordinate(e, l) PROVE G
    BY <2>23, <2>13, <2>14, <2>15, <2>16, <2>17, <2>18, <2>19, <2>20 DEF Coordinate
  <2> QED
    BY <2>1, <2>2, <2>3, <2>21, <2>22, <2>23 DEF Next
<1>2. CASE asked'[c][k] = <<opTo'[c][k]>>
  BY <1>2
<1>3. CASE ~(asked'[c][k] = <<opTo'[c][k]>>)
  <2>1. asked[c][k] = <<opTo[c][k]>> /\ opTo'[c][k] = opTo[c][k]
    BY <1>1, <1>3
  <2>2. <<opTo[c][k]>> # <<>>
    OBVIOUS
  <2>3. asked'[c][k] = asked[c][k]
    BY <2>1, <2>2, AskedStays
  <2> QED
    BY <2>1, <2>3
<1> QED
  BY <1>2, <1>3

\* Where a status may come from in one step.
Source(c, k, s) ==
    \/ s \notin {"approved", "expired"}
    \/ s \in {storedTable[k], table[c][k], records[c][k], wireTable[c][k]}
    \/ \E i \in Waiters(queue[c]) : s = queue[c][i].prev[k]
    \/ opPc[c][k] \in {"delegating", "settling"} /\ s = TerminalOf[opTo[c][k]]

LEMMA SourceBacked ==
    ASSUME TypeInv, DecidedInv, AskedStatusInv, BackedInv, [Next]_vars,
           NEW c \in Client, NEW k \in Call, NEW s, Source(c, k, s)
    PROVE  Backed(asked', k, s)
<1>1. CASE opPc[c][k] \in {"delegating", "settling"} /\ s = TerminalOf[opTo[c][k]]
  <2>1. opTo[c][k] \in Processing /\ asked[c][k] = <<opTo[c][k]>>
    BY <1>1 DEF TypeInv, ClaimNamed, AskedStatusInv
  <2>2. Backed(asked, k, s)
    BY <1>1, <2>1, TerminalBacked
  <2> QED
    BY <2>2, BackedStays
<1>2. CASE s \notin {"approved", "expired"}
  BY <1>2, InnocentBacked
<1>3. CASE \/ s \in {storedTable[k], table[c][k], records[c][k], wireTable[c][k]}
           \/ \E i \in Waiters(queue[c]) : s = queue[c][i].prev[k]
  <2>1. Backed(asked, k, s)
    BY <1>3 DEF BackedInv
  <2> QED
    BY <2>1, BackedStays
<1> QED
  BY <1>1, <1>2, <1>3 DEF Source

\* The statuses of a client come from its own, those of the storage from a save.
TableSources == \A c \in Client, k \in Call :
    Source(c, k, table'[c][k]) /\ Source(c, k, records'[c][k]) /\ Source(c, k, wireTable'[c][k])
StoreSources == storedTable' = storedTable \/ \E c \in Client : storedTable' = wireTable[c]
QueueSources == \A c \in Client : \A i \in Waiters(queue'[c]) :
    \/ \E j \in Waiters(queue[c]) : queue'[c][i].prev = queue[c][j].prev
    \/ queue'[c][i].prev = table[c]

Sources == TableSources /\ StoreSources /\ QueueSources

LEMMA EnqueueSources ==
    ASSUME TypeOK, NEW e \in Client, NEW l \in Call, NEW for \in {"claim", "propose"},
           Enqueue(e, for, l)
    PROVE  QueueSources
<1> SUFFICES ASSUME NEW d \in Client, NEW i \in Waiters(queue'[d])
             PROVE  \/ \E j \in Waiters(queue[d]) : queue'[d][i].prev = queue[d][j].prev
                    \/ queue'[d][i].prev = table[d]
  BY DEF QueueSources
<1> QED
  BY EnqueueWaiters

LEMMA EnqueueProposeSources ==
    ASSUME TypeOK, NEW e \in Client, NEW l \in Call, Enqueue(e, "propose", l)
    PROVE  QueueSources
BY EnqueueSources, "propose" \in {"claim", "propose"}

LEMMA EnqueueClaimSources ==
    ASSUME TypeOK, NEW e \in Client, NEW l \in Call, Enqueue(e, "claim", l)
    PROVE  QueueSources
BY EnqueueSources, "claim" \in {"claim", "propose"}

LEMMA SourcesStep == ASSUME TypeInv, [Next]_vars PROVE Sources
<1>0. TypeOK
  BY DEF TypeInv

<1>1. CASE UNCHANGED vars
  BY <1>1 DEF vars, store, session, coordinator, Sources, TableSources, StoreSources,
     QueueSources, Source

<1>2. ASSUME NEW e \in Client, Resume(e) PROVE Sources
  <2>1. TableSources
    BY <1>2, <1>0 DEF Resume, TypeOK, TableSources, Source
  <2>2. StoreSources /\ QueueSources
    BY <1>2 DEF Resume, store, StoreSources, QueueSources
  <2> QED
    BY <2>1, <2>2 DEF Sources

<1>3. ASSUME NEW e \in Client, Crash(e) PROVE Sources
  <2>1. TableSources
    BY <1>3, <1>0 DEF Crash, TypeOK, TableSources, Source, Empty
  <2>2. StoreSources
    BY <1>3 DEF Crash, store, StoreSources
  <2>3. QueueSources
    BY <1>3 DEF Crash, QueueSources, Waiters
  <2> QED
    BY <2>1, <2>2, <2>3 DEF Sources

<1>4. ASSUME NEW e \in Client, Touch(e) PROVE Sources
  <2>1. TableSources
    BY <1>4, <1>0 DEF Touch, coordinator, TypeOK, TableSources, Source
  <2>2. StoreSources
    BY <1>4 DEF Touch, store, StoreSources
  <2>3. QueueSources
    BY <1>4, <1>0, TouchFacts DEF Touch, QueueSources
  <2> QED
    BY <2>1, <2>2, <2>3 DEF Sources

<1>5. ASSUME NEW e \in Client, StartSave(e) PROVE Sources
  <2>1. TableSources
    BY <1>5, <1>0 DEF StartSave, coordinator, TypeOK, TableSources, Source
  <2>2. StoreSources /\ QueueSources
    BY <1>5 DEF StartSave, store, StoreSources, QueueSources
  <2> QED
    BY <2>1, <2>2 DEF Sources

<1>6. ASSUME NEW e \in Client, StoreSave(e) PROVE Sources
  <2>1. TableSources
    BY <1>6, <1>0 DEF StoreSave, coordinator, TypeOK, TableSources, Source
  <2>2. StoreSources /\ QueueSources
    BY <1>6 DEF StoreSave, store, StoreSources, QueueSources
  <2> QED
    BY <2>1, <2>2 DEF Sources

<1>7. ASSUME NEW e \in Client, LoseSave(e) PROVE Sources
  <2>1. TableSources
    BY <1>7, <1>0 DEF LoseSave, coordinator, TypeOK, TableSources, Source
  <2>2. StoreSources /\ QueueSources
    BY <1>7 DEF LoseSave, store, StoreSources, QueueSources
  <2> QED
    BY <2>1, <2>2 DEF Sources

<1>8. ASSUME NEW e \in Client, ClaimSaved(e) PROVE Sources
  <2>0. /\ queue[e] # <<>> /\ queue' = [queue EXCEPT ![e] = Tail(queue[e])]
        /\ table' = table /\ storedTable' = storedTable
        /\ wireTable' = [wireTable EXCEPT ![e] = Empty]
    BY <1>8 DEF ClaimSaved, Saved, store
  <2>1. \A c \in Client, k \in Call :
           records'[c][k] = records[c][k] \/ records'[c][k] \in Processing
    <3> DEFINE h == Head(queue[e]).call
    <3>1. h \in Call /\ opPc[e][h] = "claiming"
      BY <1>8, <1>0, TicketTypes DEF ClaimSaved, Saved
    <3>2. opTo[e][h] \in Processing
      BY <3>1 DEF TypeInv, ClaimNamed
    <3>3. records' = [records EXCEPT ![e][h] = opTo[e][h]]
      BY <1>8 DEF ClaimSaved
    <3> HIDE DEF h
    <3> QED
      BY <1>0, <3>1, <3>2, <3>3 DEF TypeOK
  <2>2. TableSources
    BY <2>0, <2>1, <1>0 DEF TypeOK, TableSources, Source, Empty
  <2>3. QueueSources
    <3>1. \A d \in Client : \A i \in Waiters(queue'[d]) :
             \E j \in Waiters(queue[d]) : queue'[d][i] = queue[d][j]
      BY <2>0, <1>0, DequeueFacts
    <3> QED
      BY <3>1 DEF QueueSources
  <2> QED
    BY <2>0, <2>2, <2>3 DEF Sources, StoreSources

<1>9. ASSUME NEW e \in Client, SettleSaved(e) PROVE Sources
  <2>0. /\ queue[e] # <<>> /\ queue' = [queue EXCEPT ![e] = Tail(queue[e])]
        /\ table' = table /\ storedTable' = storedTable
        /\ wireTable' = [wireTable EXCEPT ![e] = Empty]
    BY <1>9 DEF SettleSaved, Saved, store
  <2>1. \A c \in Client, k \in Call :
           \/ records'[c][k] = records[c][k]
           \/ opPc[c][k] = "settling" /\ records'[c][k] = TerminalOf[opTo[c][k]]
    <3> DEFINE h == Head(queue[e]).call
    <3>1. h \in Call /\ opPc[e][h] = "settling"
      BY <1>9, <1>0, TicketTypes DEF SettleSaved, Saved
    <3>2. records' = [records EXCEPT ![e][h] = TerminalOf[opTo[e][h]]]
      BY <1>9 DEF SettleSaved
    <3> HIDE DEF h
    <3> QED
      BY <1>0, <3>1, <3>2 DEF TypeOK
  <2>2. TableSources
    BY <2>0, <2>1, <1>0 DEF TypeOK, TableSources, Source, Empty
  <2>3. QueueSources
    <3>1. \A d \in Client : \A i \in Waiters(queue'[d]) :
             \E j \in Waiters(queue[d]) : queue'[d][i] = queue[d][j]
      BY <2>0, <1>0, DequeueFacts
    <3> QED
      BY <3>1 DEF QueueSources
  <2> QED
    BY <2>0, <2>2, <2>3 DEF Sources, StoreSources

<1>10. ASSUME NEW e \in Client, ProposeSaved(e) PROVE Sources
  <2>0. /\ queue[e] # <<>> /\ queue' = [queue EXCEPT ![e] = Tail(queue[e])]
        /\ table' = table /\ storedTable' = storedTable
        /\ wireTable' = [wireTable EXCEPT ![e] = Empty]
    BY <1>10 DEF ProposeSaved, Saved, store
  <2>1. records' = records
    BY <1>10 DEF ProposeSaved
  <2>2. TableSources
    BY <2>0, <2>1, <1>0 DEF TypeOK, TableSources, Source, Empty
  <2>3. QueueSources
    <3>1. \A d \in Client : \A i \in Waiters(queue'[d]) :
             \E j \in Waiters(queue[d]) : queue'[d][i] = queue[d][j]
      BY <2>0, <1>0, DequeueFacts
    <3> QED
      BY <3>1 DEF QueueSources
  <2> QED
    BY <2>0, <2>2, <2>3 DEF Sources, StoreSources

<1>11. ASSUME NEW e \in Client, TouchSaved(e) PROVE Sources
  <2>0. /\ queue[e] # <<>> /\ queue' = [queue EXCEPT ![e] = Tail(queue[e])]
        /\ table' = table /\ storedTable' = storedTable
        /\ wireTable' = [wireTable EXCEPT ![e] = Empty]
    BY <1>11 DEF TouchSaved, Saved, store
  <2>1. records' = records
    BY <1>11 DEF TouchSaved, coordinator
  <2>2. TableSources
    BY <2>0, <2>1, <1>0 DEF TypeOK, TableSources, Source, Empty
  <2>3. QueueSources
    <3>1. \A d \in Client : \A i \in Waiters(queue'[d]) :
             \E j \in Waiters(queue[d]) : queue'[d][i] = queue[d][j]
      BY <2>0, <1>0, DequeueFacts
    <3> QED
      BY <3>1 DEF QueueSources
  <2> QED
    BY <2>0, <2>2, <2>3 DEF Sources, StoreSources

<1>12. ASSUME NEW e \in Client, SaveFailed(e) PROVE Sources
  <2>0. /\ queue[e] # <<>> /\ queue' = [queue EXCEPT ![e] = Tail(queue[e])]
        /\ records' = records /\ storedTable' = storedTable
        /\ wireTable' = [wireTable EXCEPT ![e] = Empty]
    BY <1>12 DEF SaveFailed, store
  <2>1. \/ table' = table
        \/ /\ Head(queue[e]).for # "touch"
           /\ table' = [table EXCEPT ![e] = Head(queue[e]).prev]
    BY <1>12 DEF SaveFailed
  <2>2. Head(queue[e]).for # "touch" => \E i \in Waiters(queue[e]) : Head(queue[e]) = queue[e][i]
    BY <2>0, <1>0, HeadWaiter
  <2>3. TableSources
    <3>1. \A c \in Client, k \in Call :
             Source(c, k, records'[c][k]) /\ Source(c, k, wireTable'[c][k])
      BY <2>0, <1>0 DEF TypeOK, Source, Empty
    <3>2. ASSUME NEW c \in Client, NEW k \in Call PROVE Source(c, k, table'[c][k])
      <4>1. CASE table'[c] = table[c]
        BY <4>1 DEF Source
      <4>2. CASE table'[c] # table[c]
        <5>1. c = e /\ Head(queue[e]).for # "touch" /\ table'[c] = Head(queue[e]).prev
          BY <2>1, <4>2, <1>0 DEF TypeOK
        <5>2. PICK i \in Waiters(queue[c]) : Head(queue[c]) = queue[c][i]
          BY <5>1, <2>2
        <5>3. table'[c][k] = queue[c][i].prev[k]
          BY <5>1, <5>2
        <5> QED
          BY <5>3 DEF Source
      <4> QED
        BY <4>1, <4>2
    <3> QED
      BY <3>1, <3>2 DEF TableSources
  <2>4. QueueSources
    <3>1. \A d \in Client : \A i \in Waiters(queue'[d]) :
             \E j \in Waiters(queue[d]) : queue'[d][i] = queue[d][j]
      BY <2>0, <1>0, DequeueFacts
    <3> QED
      BY <3>1 DEF QueueSources
  <2> QED
    BY <2>0, <2>3, <2>4 DEF Sources, StoreSources

<1>13. ASSUME NEW e \in Client, NEW l \in Call, Propose(e, l) PROVE Sources
  <2>1. TableSources
    BY <1>13, <1>0 DEF Propose, store, session, TypeOK, TableSources, Source
  <2>2. StoreSources /\ QueueSources
    BY <1>13 DEF Propose, store, session, StoreSources, QueueSources
  <2> QED
    BY <2>1, <2>2 DEF Sources

<1>14. ASSUME NEW e \in Client, NEW l \in Call, ProposeThrows(e, l) PROVE Sources
  <2>1. TableSources
    BY <1>14, <1>0 DEF ProposeThrows, store, session, TypeOK, TableSources, Source
  <2>2. StoreSources /\ QueueSources
    BY <1>14 DEF ProposeThrows, store, session, StoreSources, QueueSources
  <2> QED
    BY <2>1, <2>2 DEF Sources

<1>15. ASSUME NEW e \in Client, NEW l \in Call, ProposeAlreadyDecided(e, l) PROVE Sources
  <2>1. TableSources
    BY <1>15, <1>0 DEF ProposeAlreadyDecided, store, session, TypeOK, TableSources, Source
  <2>2. StoreSources /\ QueueSources
    BY <1>15 DEF ProposeAlreadyDecided, store, session, StoreSources, QueueSources
  <2> QED
    BY <2>1, <2>2 DEF Sources

<1>16. ASSUME NEW e \in Client, NEW l \in Call, UpstreamThrows(e, l) PROVE Sources
  <2>1. TableSources
    BY <1>16, <1>0 DEF UpstreamThrows, store, session, TypeOK, TableSources, Source
  <2>2. StoreSources /\ QueueSources
    BY <1>16 DEF UpstreamThrows, store, session, StoreSources, QueueSources
  <2> QED
    BY <2>1, <2>2 DEF Sources

<1>17. ASSUME NEW e \in Client, NEW l \in Call, NEW status \in {"pending", "rejected"},
            ProposeReturns(e, l, status)
     PROVE  Sources
  <2>1. TableSources
    BY <1>17, <1>0 DEF ProposeReturns, Published, TypeOK, TableSources, Source
  <2>2. StoreSources
    BY <1>17 DEF ProposeReturns, store, StoreSources
  <2>3. Enqueue(e, "propose", l)
    BY <1>17 DEF ProposeReturns
  <2>4. QueueSources
    BY <2>3, <1>0, EnqueueProposeSources
  <2> QED
    BY <2>1, <2>2, <2>4 DEF Sources

<1>18. ASSUME NEW e \in Client, NEW l \in Call, Approve(e, l) PROVE Sources
  <2>1. TableSources
    BY <1>18, <1>0 DEF Approve, Claim, WithStatus, TypeInv, ClaimNamed, TypeOK,
       TableSources, Source
  <2>2. StoreSources
    BY <1>18 DEF Approve, Claim, store, StoreSources
  <2>3. Enqueue(e, "claim", l)
    BY <1>18 DEF Approve, Claim
  <2>4. QueueSources
    BY <2>3, <1>0, EnqueueClaimSources
  <2> QED
    BY <2>1, <2>2, <2>4 DEF Sources

<1>19. ASSUME NEW e \in Client, NEW l \in Call, Reject(e, l) PROVE Sources
  <2>1. TableSources
    BY <1>19, <1>0 DEF Reject, Claim, WithStatus, TypeInv, ClaimNamed, TypeOK,
       TableSources, Source
  <2>2. StoreSources
    BY <1>19 DEF Reject, Claim, store, StoreSources
  <2>3. Enqueue(e, "claim", l)
    BY <1>19 DEF Reject, Claim
  <2>4. QueueSources
    BY <2>3, <1>0, EnqueueClaimSources
  <2> QED
    BY <2>1, <2>2, <2>4 DEF Sources

<1>20. ASSUME NEW e \in Client, NEW l \in Call, UpstreamResolves(e, l) PROVE Sources
  <2>1. TableSources
    BY <1>20, <1>0 DEF UpstreamResolves, Claim, WithStatus, TypeInv, ClaimNamed, TypeOK,
       TableSources, Source
  <2>2. StoreSources
    BY <1>20 DEF UpstreamResolves, Claim, store, StoreSources
  <2>3. Enqueue(e, "claim", l)
    BY <1>20 DEF UpstreamResolves, Claim
  <2>4. QueueSources
    BY <2>3, <1>0, EnqueueClaimSources
  <2> QED
    BY <2>1, <2>2, <2>4 DEF Sources

<1>21. ASSUME NEW l \in Call, Lapse(l) PROVE Sources
  BY <1>21 DEF Lapse, store, session, coordinator, Sources, TableSources, StoreSources,
     QueueSources, Source

<1>22. ASSUME NEW e \in Client, Persist(e) PROVE Sources
  BY <1>22, <1>4, <1>5, <1>6, <1>7, <1>8, <1>9, <1>10, <1>11, <1>12 DEF Persist

<1>23. ASSUME NEW e \in Client, NEW l \in Call, Coordinate(e, l) PROVE Sources
  BY <1>23, <1>13, <1>14, <1>15, <1>17, <1>18, <1>19, <1>20, <1>16 DEF Coordinate

<1> QED
  BY <1>1, <1>2, <1>3, <1>21, <1>22, <1>23 DEF Next


LEMMA BackedStep ==
    ASSUME TypeInv, DecidedInv, AskedStatusInv, BackedInv, [Next]_vars PROVE BackedInv'
<1>1. Sources
  BY SourcesStep
<1>2. \A c \in Client, k \in Call : /\ Backed(asked', k, table'[c][k])
                                    /\ Backed(asked', k, records'[c][k])
                                    /\ Backed(asked', k, wireTable'[c][k])
  BY <1>1, SourceBacked DEF Sources, TableSources
<1>3. \A k \in Call : Backed(asked', k, storedTable'[k])
  <2>1. CASE storedTable' = storedTable
    BY <2>1, BackedStays DEF BackedInv
  <2>2. CASE \E c \in Client : storedTable' = wireTable[c]
    BY <2>2, BackedStays DEF BackedInv
  <2> QED
    BY <1>1, <2>1, <2>2 DEF Sources, StoreSources
<1>4. ASSUME NEW c \in Client, NEW i \in Waiters(queue'[c]), NEW k \in Call
      PROVE  Backed(asked', k, queue'[c][i].prev[k])
  <2>1. Backed(asked, k, queue'[c][i].prev[k])
    BY <1>1, <1>4 DEF Sources, QueueSources, BackedInv
  <2> QED
    BY <2>1, BackedStays
<1> QED
  BY <1>2, <1>3, <1>4 DEF BackedInv

LEMMA InitBacked == Init => BackedInv
<1> SUFFICES ASSUME Init PROVE BackedInv
  OBVIOUS
<1>1. \A k \in Call : Backed(asked, k, "none")
  BY InnocentBacked
<1>2. /\ \A k \in Call : storedTable[k] = "none"
      /\ \A c \in Client, k \in Call : /\ table[c][k] = "none" /\ records[c][k] = "none"
                                       /\ wireTable[c][k] = "none"
      /\ \A c \in Client : Waiters(queue[c]) = {}
  BY DEF Init, Empty, Waiters
<1> QED
  BY <1>1, <1>2 DEF BackedInv

\* A status that claims success is stored only when some client asked for just that,
\* whatever is rolled back, lost, resumed or overlaps.
THEOREM TerminalIsTrue == Spec => []TerminalOnlyAfterAsk
<1> DEFINE I == /\ TypeInv /\ CursorInv /\ IssuedInv /\ DecidedInv
                /\ AskedStatusInv /\ BackedInv
<1>1. Init => I
  <2> SUFFICES ASSUME Init PROVE I
    OBVIOUS
  <2>1. DecidedInv /\ AskedStatusInv
    BY DEF Init, DecidedInv, Decided, AskedStatusInv
  <2>2. BackedInv
    BY InitBacked
  <2> QED
    BY <2>1, <2>2, InitTypes, InitCursor, InitIssued
<1>2. I /\ [Next]_vars => I'
  <2> SUFFICES ASSUME I, [Next]_vars PROVE I'
    OBVIOUS
  <2>1. DecidedInv'
    BY DecidedStep DEF DecidedInv
  <2>2. AskedStatusInv'
    BY AskedStatusStep DEF AskedStatusInv
  <2>3. BackedInv'
    BY BackedStep
  <2> QED
    BY <2>1, <2>2, <2>3, TypeStep, CursorStep, IssuedStep
<1>3. I => TerminalOnlyAfterAsk
  BY DEF BackedInv, Backed, TerminalOnlyAfterAsk
<1> QED
  BY <1>1, <1>2, <1>3, PTL DEF Spec

-----------------------------------------------------------------------------
(* The clients decide together *)

\* What the stored status of a call may be once its decision s is taken.
Meaning(s) == {"none", s, TerminalOf[s]}

\* Whatever client c holds, publishes or restores of call k is in M.
Tells(c, k, M) ==
    /\ records[c][k] \in M /\ table[c][k] \in M
    /\ wireState[c] = "sent" => wireTable[c][k] \in M
    /\ \A i \in Waiters(queue[c]) : queue[c][i].prev[k] \in M

\* What has been asked is all that the asker, and whoever can still store, tells of the
\* call.
FollowInv ==
    \A c \in Client, k \in Call, s \in Processing : asked[c][k] = <<s>> =>
        /\ storedTable[k] \in Meaning(s)
        /\ \A d \in Client : d = c \/ Current(d) => Tells(d, k, Meaning(s))

\* Before a client hears that its claim is stored, nobody else can store another.
WonInv ==
    \A c \in Client, k \in Call, s \in Processing : Won(c, k) /\ opTo[c][k] = s =>
        /\ storedTable[k] \in Claimed(s)
        /\ \A d \in Client \ {c} : Current(d) => Tells(d, k, Claimed(s))

\* A client that cannot decide a call goes on telling the same of it.
LEMMA TellsStep ==
    ASSUME TypeInv, [Next]_vars, NEW d \in Client, NEW m \in Call,
           m \in issued, phase[d] # "absent", Inert(d, m), NEW M, "none" \in M,
           opPc[d][m] \in {"delegating", "settling"} => TerminalOf[opTo[d][m]] \in M,
           Tells(d, m, M)
    PROVE  Tells(d, m, M)'
<1>0. CASE UNCHANGED vars
  BY <1>0 DEF TypeInv, TypeOK, Inert, Tells, vars, store, session, coordinator, world
<1>1. ASSUME NEW c \in Client, Resume(c) PROVE Tells(d, m, M)'
  BY <1>1 DEF Resume, store, world, TypeInv, TypeOK, Inert, Tells
<1>2. ASSUME NEW c \in Client, Crash(c) PROVE Tells(d, m, M)'
  <2>1. d = c => Waiters(queue'[d]) = {}
    BY <1>2 DEF Crash, Waiters, TypeInv, TypeOK
  <2>2. d # c => queue'[d] = queue[d]
    BY <1>2 DEF Crash, TypeInv, TypeOK
  <2> QED
    BY <1>2, <2>1, <2>2 DEF Crash, store, world, TypeInv, TypeOK, Inert, Tells, Empty
<1>3. ASSUME NEW c \in Client, Touch(c) PROVE Tells(d, m, M)'
  <2>1. \A i \in Waiters(queue'[d]) : i \in Waiters(queue[d]) /\ queue'[d][i] = queue[d][i]
    BY <1>3, TouchFacts DEF Touch, TypeInv
  <2> QED
    BY <1>3, <2>1 DEF Touch, store, coordinator, world, Inert, Tells
<1>4. ASSUME NEW c \in Client, StartSave(c) PROVE Tells(d, m, M)'
  BY <1>4 DEF StartSave, HeadReady, store, coordinator, world, TypeInv, TypeOK, Inert, Tells
<1>5. ASSUME NEW c \in Client, StoreSave(c) PROVE Tells(d, m, M)'
  BY <1>5 DEF StoreSave, Answer, CursorMatches, store, coordinator, world, TypeInv,
     TypeOK, Inert, Tells
<1>6. ASSUME NEW c \in Client, LoseSave(c) PROVE Tells(d, m, M)'
  BY <1>6 DEF LoseSave, store, coordinator, TypeInv, TypeOK, Inert, Tells
<1>7. ASSUME NEW c \in Client, ClaimSaved(c) PROVE Tells(d, m, M)'
  <2>1. queue[c] # <<>> /\ queue' = [queue EXCEPT ![c] = Tail(queue[c])]
    BY <1>7 DEF ClaimSaved, Saved
  <2>2. \A i \in Waiters(queue'[d]) : \E j \in Waiters(queue[d]) : queue'[d][i] = queue[d][j]
    BY <2>1, DequeueFacts DEF TypeInv
  <2>3. \A i \in Waiters(queue'[d]) : queue'[d][i].prev[m] \in M
    BY <2>2 DEF Inert, Tells
  <2>4. Head(queue[c]).for # "touch" => Head(queue[c]).call \in Call
    BY <2>1, TicketTypes DEF TypeInv
  <2>5. d = c => Head(queue[c]).call # m
    BY <1>7 DEF ClaimSaved, Inert, Tells
  <2> QED
    BY <1>7, <2>3, <2>4, <2>5 DEF ClaimSaved, Saved, store, TypeInv, TypeOK, Inert, Tells
<1>8. ASSUME NEW c \in Client, SettleSaved(c) PROVE Tells(d, m, M)'
  <2>1. queue[c] # <<>> /\ queue' = [queue EXCEPT ![c] = Tail(queue[c])]
    BY <1>8 DEF SettleSaved, Saved
  <2>2. \A i \in Waiters(queue'[d]) : \E j \in Waiters(queue[d]) : queue'[d][i] = queue[d][j]
    BY <2>1, DequeueFacts DEF TypeInv
  <2>3. \A i \in Waiters(queue'[d]) : queue'[d][i].prev[m] \in M
    BY <2>2 DEF Inert, Tells
  <2>4. Head(queue[c]).for # "touch" => Head(queue[c]).call \in Call
    BY <2>1, TicketTypes DEF TypeInv
  <2>5. opTo[c][Head(queue[c]).call] \in Processing
    BY <1>8, <2>4 DEF SettleSaved, Saved, TypeInv, ClaimNamed
  <2>6. TerminalOf[opTo[c][Head(queue[c]).call]] \in Terminal
    BY <2>5, TerminalOfType
  <2> QED
    BY <1>8, <2>3, <2>4, <2>6 DEF SettleSaved, Saved, store, TypeInv, TypeOK, Inert, Tells
<1>9. ASSUME NEW c \in Client, ProposeSaved(c) PROVE Tells(d, m, M)'
  <2>1. queue[c] # <<>> /\ queue' = [queue EXCEPT ![c] = Tail(queue[c])]
    BY <1>9 DEF ProposeSaved, Saved
  <2>2. \A i \in Waiters(queue'[d]) : \E j \in Waiters(queue[d]) : queue'[d][i] = queue[d][j]
    BY <2>1, DequeueFacts DEF TypeInv
  <2>3. \A i \in Waiters(queue'[d]) : queue'[d][i].prev[m] \in M
    BY <2>2 DEF Inert, Tells
  <2>4. Head(queue[c]).for # "touch" => Head(queue[c]).call \in Call
    BY <2>1, TicketTypes DEF TypeInv
  <2> QED
    BY <1>9, <2>3, <2>4 DEF ProposeSaved, Saved, store, TypeInv, TypeOK, Inert, Tells
<1>10. ASSUME NEW c \in Client, TouchSaved(c) PROVE Tells(d, m, M)'
  <2>1. queue[c] # <<>> /\ queue' = [queue EXCEPT ![c] = Tail(queue[c])]
    BY <1>10 DEF TouchSaved, Saved
  <2>2. \A i \in Waiters(queue'[d]) : \E j \in Waiters(queue[d]) : queue'[d][i] = queue[d][j]
    BY <2>1, DequeueFacts DEF TypeInv
  <2>3. \A i \in Waiters(queue'[d]) : queue'[d][i].prev[m] \in M
    BY <2>2 DEF Inert, Tells
  <2>4. Head(queue[c]).for # "touch" => Head(queue[c]).call \in Call
    BY <2>1, TicketTypes DEF TypeInv
  <2> QED
    BY <1>10, <2>3, <2>4 DEF TouchSaved, Saved, store, coordinator, TypeInv, TypeOK, Inert, Tells
<1>11. ASSUME NEW c \in Client, SaveFailed(c) PROVE Tells(d, m, M)'
  <2>1. queue[c] # <<>> /\ queue' = [queue EXCEPT ![c] = Tail(queue[c])]
    BY <1>11 DEF SaveFailed
  <2>2. \A i \in Waiters(queue'[d]) : \E j \in Waiters(queue[d]) : queue'[d][i] = queue[d][j]
    BY <2>1, DequeueFacts DEF TypeInv
  <2>3. \A i \in Waiters(queue'[d]) : queue'[d][i].prev[m] \in M
    BY <2>2 DEF Inert, Tells
  <2>4. Head(queue[c]).for # "touch" => Head(queue[c]).call \in Call
    BY <2>1, TicketTypes DEF TypeInv
  <2>5. Head(queue[c]).for # "touch" /\ d = c => Head(queue[c]).prev[m] \in M
    BY <2>1, HeadWaiter DEF TypeInv, Inert, Tells
  <2>6. table'[d][m] \in M
    BY <1>11, <2>5 DEF SaveFailed, TypeInv, TypeOK, Inert, Tells
  <2>7. \/ opPc' = opPc
        \/ opPc' = [opPc EXCEPT ![c][Head(queue[c]).call] = "idle"]
    BY <1>11 DEF SaveFailed
  <2>8. opPc'[d][m] # "claiming"
    <3> DEFINE h == Head(queue[c]).call
    <3>1. opPc' = opPc \/ opPc' = [opPc EXCEPT ![c][h] = "idle"]
      BY <2>7
    <3> HIDE DEF h
    <3>2. opPc[d][m] # "claiming" /\ DOMAIN opPc = Client /\ DOMAIN opPc[d] = Call
      BY DEF TypeInv, TypeOK, Inert, Tells
    <3>3. CASE opPc' = [opPc EXCEPT ![c][h] = "idle"]
      BY <3>2, <3>3
    <3> QED
      BY <3>1, <3>2, <3>3
  <2> QED
    BY <1>11, <2>3, <2>6, <2>8 DEF SaveFailed, store, world, TypeInv, TypeOK, Inert, Tells
<1>12. ASSUME NEW c \in Client, NEW k \in Call, Propose(c, k) PROVE Tells(d, m, M)'
  BY <1>12 DEF Propose, MayStart, Quiet, store, session, TypeInv, TypeOK, Inert, Tells
<1>13. ASSUME NEW c \in Client, NEW k \in Call, ProposeThrows(c, k) PROVE Tells(d, m, M)'
  BY <1>13 DEF ProposeThrows, store, session, world, TypeInv, TypeOK, Inert, Tells
<1>14. ASSUME NEW c \in Client, NEW k \in Call, ProposeAlreadyDecided(c, k) PROVE Tells(d, m, M)'
  BY <1>14 DEF ProposeAlreadyDecided, store, session, world, TypeInv, TypeOK, Inert, Tells
<1>15. ASSUME NEW c \in Client, NEW k \in Call, NEW status \in {"pending", "rejected"},
              ProposeReturns(c, k, status)
       PROVE Tells(d, m, M)'
  <2>1. Enqueue(c, "propose", k) /\ TypeOK
    BY <1>15 DEF ProposeReturns, Claim, TypeInv
  <2>2. \A i \in Waiters(queue'[d]) :
          \/ i \in Waiters(queue[d]) /\ queue'[d][i] = queue[d][i]
          \/ d = c /\ queue'[d][i].prev = table[c]
    BY <2>1, EnqueueWaiters
  <2>3. \A i \in Waiters(queue'[d]) : queue'[d][i].prev[m] \in M
    BY <2>2 DEF Inert, Tells
  <2>4. records'[d][m] \in M /\ table'[d][m] \in M
    BY <1>15 DEF ProposeReturns, Published, TypeInv, TypeOK, Inert, Tells
  <2> QED
    BY <1>15, <2>3, <2>4 DEF ProposeReturns, Published, store, world, Inert, Tells
<1>16. ASSUME NEW c \in Client, NEW k \in Call, Approve(c, k) PROVE Tells(d, m, M)'
  <2>1. Enqueue(c, "claim", k) /\ TypeOK
    BY <1>16 DEF Approve, Claim, TypeInv
  <2>2. \A i \in Waiters(queue'[d]) :
          \/ i \in Waiters(queue[d]) /\ queue'[d][i] = queue[d][i]
          \/ d = c /\ queue'[d][i].prev = table[c]
    BY <2>1, EnqueueWaiters
  <2>3. \A i \in Waiters(queue'[d]) : queue'[d][i].prev[m] \in M
    BY <2>2 DEF Inert, Tells
  <2>4. d = c => k # m
    BY <1>16 DEF Approve, Undecided, Inert, Tells
  <2>5. table'[d][m] \in M /\ opPc'[d][m] # "claiming"
    BY <1>16, <2>4 DEF Approve, Claim, WithStatus, TypeInv, TypeOK, Inert, Tells
  <2> QED
    BY <1>16, <2>3, <2>5 DEF Approve, MayStart, Quiet, Undecided, Claim, store, world, Inert, Tells
<1>17. ASSUME NEW c \in Client, NEW k \in Call, Reject(c, k) PROVE Tells(d, m, M)'
  <2>1. Enqueue(c, "claim", k) /\ TypeOK
    BY <1>17 DEF Reject, Claim, TypeInv
  <2>2. \A i \in Waiters(queue'[d]) :
          \/ i \in Waiters(queue[d]) /\ queue'[d][i] = queue[d][i]
          \/ d = c /\ queue'[d][i].prev = table[c]
    BY <2>1, EnqueueWaiters
  <2>3. \A i \in Waiters(queue'[d]) : queue'[d][i].prev[m] \in M
    BY <2>2 DEF Inert, Tells
  <2>4. d = c => k # m
    BY <1>17 DEF Reject, Undecided, Inert, Tells
  <2>5. table'[d][m] \in M /\ opPc'[d][m] # "claiming"
    BY <1>17, <2>4 DEF Reject, Claim, WithStatus, TypeInv, TypeOK, Inert, Tells
  <2> QED
    BY <1>17, <2>3, <2>5 DEF Reject, MayStart, Quiet, Undecided, Claim, store, world, Inert, Tells
<1>18. ASSUME NEW c \in Client, NEW k \in Call, UpstreamResolves(c, k) PROVE Tells(d, m, M)'
  <2>1. Enqueue(c, "claim", k) /\ TypeOK
    BY <1>18 DEF UpstreamResolves, Claim, TypeInv
  <2>2. \A i \in Waiters(queue'[d]) :
          \/ i \in Waiters(queue[d]) /\ queue'[d][i] = queue[d][i]
          \/ d = c /\ queue'[d][i].prev = table[c]
    BY <2>1, EnqueueWaiters
  <2>3. \A i \in Waiters(queue'[d]) : queue'[d][i].prev[m] \in M
    BY <2>2 DEF Inert, Tells
  <2>4. TerminalOf[opTo[c][k]] \in Terminal
    BY <1>18, TerminalOfType DEF UpstreamResolves, TypeInv, ClaimNamed
  <2>5. table'[d][m] \in M /\ opPc'[d][m] # "claiming"
    BY <1>18, <2>4 DEF UpstreamResolves, Claim, WithStatus, TypeInv, TypeOK, Inert, Tells
  <2> QED
    BY <1>18, <2>3, <2>5 DEF UpstreamResolves, Claim, store, world, Inert, Tells
<1>19. ASSUME NEW c \in Client, NEW k \in Call, UpstreamThrows(c, k) PROVE Tells(d, m, M)'
  BY <1>19 DEF UpstreamThrows, store, session, world, TypeInv, TypeOK, Inert, Tells
<1>20. ASSUME NEW k \in Call, Lapse(k) PROVE Tells(d, m, M)'
  BY <1>20 DEF Lapse, store, session, coordinator, TypeInv, TypeOK, Inert, Tells
<1>21. ASSUME NEW c \in Client, Persist(c) PROVE Tells(d, m, M)'
  BY <1>21, <1>3, <1>4, <1>5, <1>6, <1>7, <1>8, <1>9, <1>10, <1>11 DEF Persist
<1>22. ASSUME NEW c \in Client, NEW k \in Call, Coordinate(c, k) PROVE Tells(d, m, M)'
  BY <1>22, <1>12, <1>13, <1>14, <1>15, <1>16, <1>17, <1>18, <1>19 DEF Coordinate
<1> QED
  BY <1>0, <1>1, <1>2, <1>20, <1>21, <1>22 DEF Next

\* A client that has just asked tells of what it asked: its claim
\* has left the queue, which had no other waiter.
LEMMA ClaimTells ==
    ASSUME TypeInv, WaiterInv, ShownInv, NEW c \in Client, NEW k \in Call, NEW s,
           ClaimSaved(c), Head(queue[c]).call = k, opTo[c][k] = s
    PROVE  Tells(c, k, Claimed(s))'
<1>1. /\ queue[c] # <<>> /\ Head(queue[c]).for = "claim"
      /\ queue' = [queue EXCEPT ![c] = Tail(queue[c])]
      /\ opPc[c][k] = "claiming"
      /\ records' = [records EXCEPT ![c][k] = opTo[c][k]]
      /\ wireState' = [wireState EXCEPT ![c] = "none"]
      /\ UNCHANGED table
  BY DEF ClaimSaved, Saved
<1>2. records'[c][k] = s /\ wireState'[c] = "none"
  BY <1>1 DEF TypeInv, TypeOK
<1>3. table'[c][k] \in Claimed(s)
  BY <1>1 DEF ShownInv, ClaimShown
<1>4. \A i \in Waiters(queue'[c]) : FALSE
  <2>1. 1 \in Waiters(queue[c])
    BY <1>1, HeadWaiter DEF TypeInv
  <2>2. \A i \in Waiters(queue'[c]) : i + 1 \in Waiters(queue[c]) /\ i + 1 # 1
    BY <1>1, DequeueFacts DEF TypeInv
  <2> QED
    BY <2>1, <2>2 DEF WaiterInv, OneWaiter
<1> QED
  BY <1>2, <1>3, <1>4 DEF Tells, Claimed

\* A client that resumes tells of what is stored.
LEMMA ResumeTells ==
    ASSUME TypeInv, CursorInv, NEW d \in Client, NEW k \in Call, NEW M,
           Resume(d), storedTable[k] \in M
    PROVE  Tells(d, k, M)'
<1>1. records'[d][k] = storedTable[k] /\ table'[d][k] = storedTable[k]
  BY DEF Resume, TypeInv, TypeOK
<1>2. wireState'[d] = "none" /\ queue'[d] = <<>>
  BY DEF Resume, CursorInv
<1>3. Waiters(queue'[d]) = {}
  BY <1>2 DEF Waiters
<1> QED
  BY <1>1, <1>2, <1>3 DEF Tells

\* Whoever else can store after a commitment goes on telling the same of the call.
LEMMA OthersTell ==
    ASSUME SerialInv, AskedStatusInv, [Next]_vars,
           NEW c \in Client, NEW k \in Call, NEW M, "none" \in M,
           Committed(c, k), storedTable[k] \in M,
           NEW d \in Client \ {c}, Current(d) => Tells(d, k, M), Current(d)'
    PROVE  Tells(d, k, M)'
<1> USE DEF SerialInv
<1>1. CASE Current(d)
  <2>1. Inert(d, k) /\ asked[d][k] = <<>>
    BY <1>1 DEF CommitInv, Committed
  <2>2. phase[d] # "absent" /\ k \in issued
    BY <1>1, CommittedHeld DEF Current, CursorInv
  <2>3. opPc[d][k] \notin {"delegating", "settling"}
    BY <2>1 DEF AskedStatusInv
  <2> QED
    BY <1>1, <2>1, <2>2, <2>3, TellsStep
<1>2. CASE Resume(d)
  BY <1>2, ResumeTells
<1> QED
  BY <1>1, <1>2, CurrentChange

\* What is stored after a commitment comes from who tells the same of the call.
LEMMA StoredTells ==
    ASSUME SerialInv, [Next]_vars,
           NEW c \in Client, NEW k \in Call, NEW M,
           Committed(c, k), storedTable[k] \in M,
           \A d \in Client \ {c} : Current(d) => Tells(d, k, M),
           asked[c][k] # <<>> => Tells(c, k, M)
    PROVE  storedTable'[k] \in M
<1>1. CASE storedTable' = storedTable
  BY <1>1
<1>2. ASSUME NEW e \in Client, StoreSave(e), CursorMatches(e), storedTable' = wireTable[e]
      PROVE  storedTable'[k] \in M
  <2>1. wireState[e] = "sent" /\ Current(e)
    BY <1>2 DEF StoreSave, CursorMatches, Current
  <2>2. e = c => asked[c][k] # <<>>
    BY <2>1 DEF Committed, Won
  <2>3. Tells(e, k, M)
    BY <2>1, <2>2
  <2> QED
    BY <1>2, <2>1, <2>3 DEF Tells
<1> QED
  BY <1>1, <1>2, StoredChange

\* An operation that goes on claiming claims the same.
LEMMA ClaimKept ==
    ASSUME TypeInv, [Next]_vars, NEW c \in Client, NEW k \in Call,
           opPc[c][k] = "claiming", Won(c, k), Won(c, k)'
    PROVE  opTo'[c][k] = opTo[c][k]
<1>1. CASE UNCHANGED vars
  BY <1>1 DEF vars, coordinator
<1>2. ASSUME NEW e \in Client, Resume(e) \/ Crash(e) PROVE opTo'[c][k] = opTo[c][k]
  <2>1. CASE Resume(e)
    BY <2>1 DEF Resume
  <2>2. CASE Crash(e)
    BY <2>2 DEF Crash, Won, TypeInv, TypeOK
  <2> QED
    BY <1>2, <2>1, <2>2
<1>3. ASSUME NEW e \in Client, Persist(e) PROVE opTo'[c][k] = opTo[c][k]
  <2>1. CASE Touch(e) \/ StartSave(e) \/ StoreSave(e) \/ LoseSave(e) \/ ClaimSaved(e)
             \/ ProposeSaved(e) \/ TouchSaved(e)
    BY <2>1 DEF Touch, StartSave, StoreSave, LoseSave, ClaimSaved, ProposeSaved, TouchSaved,
       coordinator
  <2>2. CASE SettleSaved(e)
    <3> DEFINE h == Head(queue[e]).call
    <3>1. opPc[e][h] = "settling" /\ opTo' = [opTo EXCEPT ![e][h] = "none"]
      BY <2>2 DEF SettleSaved
    <3> HIDE DEF h
    <3> QED
      BY <3>1 DEF TypeInv, TypeOK
  <2>3. CASE SaveFailed(e)
    <3> DEFINE h == Head(queue[e]).call
    <3>1. e # c
      BY <2>3 DEF SaveFailed, Won
    <3>2. opTo' = opTo \/ opTo' = [opTo EXCEPT ![e][h] = "none"]
      BY <2>3 DEF SaveFailed
    <3> HIDE DEF h
    <3> QED
      BY <3>1, <3>2 DEF TypeInv, TypeOK
  <2> QED
    BY <1>3, <2>1, <2>2, <2>3 DEF Persist
<1>4. ASSUME NEW e \in Client, NEW l \in Call, Coordinate(e, l)
      PROVE  opTo'[c][k] = opTo[c][k]
  <2>1. CASE Propose(e, l) \/ ProposeThrows(e, l) \/ ProposeAlreadyDecided(e, l)
             \/ \E status \in {"pending", "rejected"} : ProposeReturns(e, l, status)
    BY <2>1 DEF Propose, ProposeThrows, ProposeAlreadyDecided, ProposeReturns
  <2>2. CASE Approve(e, l) \/ Reject(e, l)
    <3>1. PICK t : opTo' = [opTo EXCEPT ![e][l] = t]
      BY <2>2 DEF Approve, Reject, Claim
    <3>2. opPc[e][l] = "idle"
      BY <2>2 DEF Approve, Reject, Undecided
    <3>3. ~(e = c /\ l = k)
      BY <3>2
    <3> QED
      BY <3>1, <3>3 DEF TypeInv, TypeOK
  <2>3. CASE UpstreamResolves(e, l)
    BY <2>3 DEF UpstreamResolves, Claim, TypeInv, TypeOK
  <2>4. CASE UpstreamThrows(e, l)
    BY <2>4 DEF UpstreamThrows, TypeInv, TypeOK
  <2> QED
    BY <1>4, <2>1, <2>2, <2>3, <2>4 DEF Coordinate
<1>5. ASSUME NEW l \in Call, Lapse(l) PROVE opTo'[c][k] = opTo[c][k]
  BY <1>5 DEF Lapse, coordinator
<1> QED
  BY <1>1, <1>2, <1>3, <1>4, <1>5 DEF Next

LEMMA WonStep ==
    ASSUME SerialInv, AskedStatusInv, WonInv, [Next]_vars PROVE WonInv'
<1> USE DEF SerialInv
<1> SUFFICES ASSUME NEW c \in Client, NEW k \in Call, NEW s \in Processing,
                    Won(c, k)', opTo'[c][k] = s
             PROVE  /\ storedTable'[k] \in Claimed(s)
                    /\ \A d \in Client \ {c} : Current(d)' => Tells(d, k, Claimed(s))'
  BY DEF WonInv
<1>1. CASE Won(c, k)
  <2>1. opTo[c][k] = s
    BY <1>1, ClaimKept DEF Won
  <2>2. Committed(c, k) /\ "none" \in Claimed(s) /\ asked[c][k] = <<>>
    BY <1>1 DEF Committed, Claimed, Won, AskedInv, Inert
  <2>3. /\ storedTable[k] \in Claimed(s)
        /\ \A d \in Client \ {c} : Current(d) => Tells(d, k, Claimed(s))
    BY <1>1, <2>1 DEF WonInv
  <2>4. storedTable'[k] \in Claimed(s)
    BY <2>2, <2>3, StoredTells
  <2>5. ASSUME NEW d \in Client \ {c}, Current(d)' PROVE Tells(d, k, Claimed(s))'
    BY <2>2, <2>3, <2>5, OthersTell
  <2> QED
    BY <2>4, <2>5
<1>2. CASE Wins(c, k)
  <2>1. opTo[c][k] = s /\ storedTable' = wireTable[c]
    BY <1>2 DEF Wins, StoreSave, CursorMatches, coordinator
  <2>2. wireTable[c][k] \in Claimed(s)
    BY <1>2, <2>1 DEF Wins, ShownInv, ClaimShown
  <2> QED
    BY <1>2, <2>1, <2>2, WinsAlone
<1> QED
  BY <1>1, <1>2, WonChange

LEMMA ClaimedMeans == \A s : Claimed(s) \subseteq Meaning(s)
  BY DEF Claimed, Meaning

LEMMA FollowStep ==
    ASSUME SerialInv, AskedStatusInv, WonInv, FollowInv, [Next]_vars PROVE FollowInv'
<1> USE DEF SerialInv
<1> SUFFICES ASSUME NEW c \in Client, NEW k \in Call, NEW s \in Processing,
                    asked'[c][k] = <<s>>
             PROVE  /\ storedTable'[k] \in Meaning(s)
                    /\ \A d \in Client :
                          d = c \/ Current(d)' => Tells(d, k, Meaning(s))'
  BY DEF FollowInv
<1>1. CASE asked[c][k] # <<>>
  <2>1. Inert(c, k) /\ k \in issued /\ phase[c] # "absent"
    BY <1>1 DEF AskedInv, IssuedInv, IssuedHeld, CursorInv
  <2>2. asked[c][k] = <<s>>
    BY <2>1, AskedChange DEF ClaimSaved, Inert
  <2>3. /\ storedTable[k] \in Meaning(s) /\ Tells(c, k, Meaning(s))
        /\ \A d \in Client : Current(d) => Tells(d, k, Meaning(s))
    BY <2>2 DEF FollowInv
  <2>4. Committed(c, k) /\ "none" \in Meaning(s)
    BY <1>1 DEF Committed, Meaning
  <2>5. storedTable'[k] \in Meaning(s)
    BY <2>3, <2>4, StoredTells
  <2>6. Tells(c, k, Meaning(s))'
    <3>1. opPc[c][k] \in {"delegating", "settling"} => opTo[c][k] = s
      BY <2>2 DEF AskedStatusInv
    <3>2. opPc[c][k] \in {"delegating", "settling"} =>
              TerminalOf[opTo[c][k]] \in Meaning(s)
      BY <3>1 DEF Meaning
    <3> QED
      BY <2>1, <2>3, <2>4, <3>2, TellsStep
  <2>7. ASSUME NEW d \in Client \ {c}, Current(d)' PROVE Tells(d, k, Meaning(s))'
    BY <2>3, <2>4, <2>7, OthersTell
  <2> QED
    BY <2>5, <2>6, <2>7
<1>2. CASE asked[c][k] = <<>>
  <2>1. ClaimSaved(c) /\ Head(queue[c]).call = k
    BY <1>2, AskedChange
  <2>2. /\ asked' = [asked EXCEPT ![c][k] = Append(asked[c][k], opTo[c][k])]
        /\ Won(c, k) /\ storedTable' = storedTable
    BY <2>1 DEF ClaimSaved, Saved, Won, store
  <2>3. opTo[c][k] = s
    <3>1. asked'[c][k] = Append(<<>>, opTo[c][k])
      BY <1>2, <2>2 DEF TypeInv, TypeOK
    <3> QED
      BY <3>1
  <2>4. /\ storedTable[k] \in Claimed(s)
        /\ \A d \in Client \ {c} : Current(d) => Tells(d, k, Claimed(s))
    BY <2>2, <2>3 DEF WonInv
  <2>5. Committed(c, k) /\ "none" \in Claimed(s)
    BY <2>2 DEF Committed, Claimed
  <2>6. Tells(c, k, Claimed(s))'
    BY <2>1, <2>3, ClaimTells
  <2>7. ASSUME NEW d \in Client \ {c}, Current(d)' PROVE Tells(d, k, Claimed(s))'
    BY <2>4, <2>5, <2>7, OthersTell
  <2>8. \A d \in Client : Tells(d, k, Claimed(s))' => Tells(d, k, Meaning(s))'
    BY ClaimedMeans DEF Tells
  <2> QED
    BY <2>2, <2>4, <2>6, <2>7, <2>8, ClaimedMeans
<1> QED
  BY <1>1, <1>2

\* A client that asks takes the decision of the call.
LEMMA AskIsShared ==
    ASSUME SerialInv, WonInv, NEW c \in Client, ClaimSaved(c)
    PROVE  Shared!Next
<1> USE DEF SerialInv
<1> DEFINE k == Head(queue[c]).call
           s == opTo[c][k]
<1>1. k \in Call /\ opPc[c][k] = "claiming" /\ s \in Processing /\ Won(c, k)
  BY TicketTypes DEF ClaimSaved, Saved, Won, TypeInv, ClaimNamed
<1>2. asked' = [asked EXCEPT ![c][k] = Append(asked[c][k], s)] /\ storedTable' = storedTable
  BY DEF ClaimSaved, Saved, store
<1> HIDE DEF k, s
<1>3. asked[c][k] = <<>>
  BY <1>1 DEF AskedInv, Inert
<1>4. \A d \in Client : asked[d][k] = <<>>
  BY <1>1, <1>3 DEF CommitInv, Committed
<1>5. storedTable[k] \in {"none", s}
  BY <1>1 DEF WonInv, Claimed, s
<1>6. asked' = [asked EXCEPT ![c][k] = <<s>>]
  <2>1. Append(asked[c][k], s) = <<s>>
    BY <1>3
  <2> QED
    BY <1>2, <2>1
<1>7. Shared!Ask(c, k, s)
  BY <1>2, <1>4, <1>5, <1>6 DEF Shared!Ask, Shared!Open
<1> QED
  BY <1>1, <1>7 DEF Shared!Next

\* A snapshot that is stored tells no more than the decision.
LEMMA SaveIsShared ==
    ASSUME SerialInv, BackedInv, FollowInv, NEW c \in Client,
           wireState[c] = "sent", Current(c), storedTable' = wireTable[c], asked' = asked
    PROVE  Shared!Next
<1> USE DEF SerialInv
<1>1. ASSUME NEW k \in Call PROVE Shared!Told(k, wireTable[c][k])
  <2>1. CASE Shared!Open(k)
    <3>1. wireTable[c][k] \in Entry /\ Backed(asked, k, wireTable[c][k])
      BY DEF TypeInv, TypeOK, Table, BackedInv
    <3>2. wireTable[c][k] \notin {"approved", "expired"}
      <4>1. <<"approving">> # <<>> /\ <<"expiring">> # <<>>
        OBVIOUS
      <4> QED
        BY <2>1, <3>1, <4>1 DEF Backed, Shared!Open
    <3> QED
      BY <2>1, <3>1, <3>2 DEF Shared!Told, Entry, Processing, Terminal
  <2>2. ASSUME NEW d \in Client, asked[d][k] # <<>> PROVE Shared!Told(k, wireTable[c][k])
    <3>1. asked[d][k] \in Seq(Processing) /\ Len(asked[d][k]) = 1
      BY <2>2 DEF AskedInv, TypeInv, TypeOK
    <3>2. PICK s \in Processing : asked[d][k] = <<s>>
      <4>1. asked[d][k][1] \in Processing /\ asked[d][k] = <<asked[d][k][1]>>
        BY <3>1
      <4> QED
        BY <4>1
    <3>3. wireTable[c][k] \in Meaning(s)
      BY <3>2 DEF FollowInv, Tells
    <3> QED
      BY <3>2, <3>3 DEF Shared!Told, Meaning
  <2> QED
    BY <2>1, <2>2 DEF Shared!Open
<1> QED
  BY <1>1 DEF Shared!Next, Shared!Save

LEMMA SharedStep ==
    ASSUME SerialInv, BackedInv, WonInv, FollowInv, [Next]_vars
    PROVE  [Shared!Next]_(Shared!vars)
<1>1. CASE \E c \in Client : ClaimSaved(c)
  BY <1>1, AskIsShared
<1>2. CASE \A c \in Client : ~ClaimSaved(c)
  <2>1. asked' = asked
    <3>1. \A c \in Client, k \in Call : asked'[c][k] = asked[c][k]
      BY <1>2, AskedChange DEF SerialInv
    <3>2. /\ asked \in [Client -> [Call -> Seq(Processing)]]
          /\ asked' \in [Client -> [Call -> Seq(Processing)]]
      BY TypeStep DEF SerialInv, TypeInv, TypeOK
    <3>3. \A c \in Client : asked'[c] = asked[c]
      BY <3>1, <3>2
    <3> QED
      BY <3>2, <3>3
  <2>2. CASE storedTable' = storedTable
    BY <2>1, <2>2 DEF Shared!vars
  <2>3. ASSUME NEW c \in Client, StoreSave(c), CursorMatches(c), storedTable' = wireTable[c]
        PROVE  Shared!Next
    <3>1. wireState[c] = "sent" /\ Current(c)
      BY <2>3 DEF StoreSave, CursorMatches, Current
    <3> QED
      BY <2>1, <2>3, <3>1, SaveIsShared
  <2> QED
    BY <2>2, <2>3, StoredChange
<1> QED
  BY <1>1, <1>2

\* When the host serialises each client's operations, all the clients of a session
\* together implement SharedDecision: one decision per call is put to one upstream
\* controller, and the stored session speaks of it, or of none, from then on.
THEOREM SessionDecidesOnce == ASSUME Overlap = FALSE PROVE Spec => DecidedTogether
<1> DEFINE I == DecidedInv /\ AskedStatusInv /\ BackedInv /\ WonInv /\ FollowInv
<1>1. Init => I /\ Shared!Init
  <2> SUFFICES ASSUME Init PROVE I /\ Shared!Init
    OBVIOUS
  <2>1. DecidedInv /\ AskedStatusInv
    BY DEF Init, DecidedInv, Decided, AskedStatusInv
  <2>2. BackedInv
    BY InitBacked
  <2>3. WonInv /\ FollowInv
    <3>1. \A c \in Client, k \in Call : asked[c][k] = <<>> /\ wireState[c] = "none"
      BY DEF Init
    <3> QED
      BY <3>1 DEF WonInv, Won, FollowInv
  <2>4. Shared!Init
    BY DEF Init, Empty, Shared!Init
  <2> QED
    BY <2>1, <2>2, <2>3, <2>4
<1>2. SerialInv /\ I /\ [Next]_vars => I' /\ [Shared!Next]_(Shared!vars)
  <2> SUFFICES ASSUME SerialInv, I, [Next]_vars PROVE I' /\ [Shared!Next]_(Shared!vars)
    OBVIOUS
  <2>1. DecidedInv' /\ AskedStatusInv' /\ BackedInv'
    <3>1. DecidedInv'
      BY DecidedStep DEF DecidedInv, SerialInv
    <3>2. AskedStatusInv'
      BY AskedStatusStep DEF AskedStatusInv, SerialInv
    <3> QED
      BY <3>1, <3>2, BackedStep DEF SerialInv
  <2>2. WonInv' /\ FollowInv'
    BY WonStep, FollowStep
  <2> QED
    BY <2>1, <2>2, SharedStep
<1>3. Spec => []SerialInv
  BY SerialInvHolds
<1> HIDE DEF I
<1> QED
  BY <1>1, <1>2, <1>3, PTL DEF Spec, DecidedTogether, Shared!Spec

=============================================================================
