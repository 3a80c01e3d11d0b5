-------------------------- MODULE AskServiceProofs --------------------------
(***************************************************************************)
(* Theorems about AskService, for any requests, questions and window.      *)
(* RequestInv follows one request: what it has reported and sent, and what *)
(* its client may have read of it.  SessionInv: a request that the store   *)
(* would take answers the transcript that is stored. KeptInv: a request    *)
(* saves once, after its response has started; with it the service         *)
(* implements AskSession.                                                  *)
(***************************************************************************)
EXTENDS AskService, SequenceTheorems, TLAPS

\* What a request may have reported.
Reports == {<<>>, <<"ok">>, <<"cancelled">>, <<"rejected">>, <<"error">>, <<"ok", "cancelled">>}

\* A request is silent up to its response, and reports its end, or a response that its
\* client has left.
EndInv(r) ==
    /\ phase[r] \in Early \union {"idle"} =>
          response[r] = "none" /\ events[r] = <<>> /\ reports[r] = <<>>
    /\ phase[r] \in Streaming =>
          /\ response[r] = "stream" /\ reports[r] \in {<<>>, <<"cancelled">>}
          /\ ~cancelled[r] => reports[r] = <<>>
    /\ phase[r] = "closed" /\ response[r] = "stream" => reports[r] # <<>>
    /\ reports[r] \in Reports
    /\ reports[r] = <<"ok", "cancelled">> \/ aborted[r] \/ cancelled[r] => client[r] = "left"

\* A client that reads has the last event still before it, when there is one, and is
\* told that its answer is complete when the store has taken it.
ClientInv(r) ==
    /\ phase[r] = "idle" => client[r] = "idle"
    /\ client[r] = "reading" => response[r] = "stream"
    /\ client[r] \in Reading /\ response[r] = "stream" /\ phase[r] = "closed" =>
          events[r] # <<>> /\ events[r][Len(events[r])] \in {"done", "error"}
    /\ client[r] = "done" \/ (\E k \in DOMAIN events[r] : events[r][k] = "done") =>
          phase[r] = "closed" /\ reports[r] = <<"ok">> /\ (scoped[r] => r \in taken)
    /\ wire[r] = "stored" => r \in taken

RequestInv == \A r \in Request : EndInv(r) /\ ClientInv(r)

\* A request that has loaded the session the store still has answers its transcript.
Answering(r) == scoped[r] /\ (phase[r] \in {"retrieving", "generating", "saving"} \/ wire[r] = "sent")

SessionInv ==
    /\ storedMessages # <<>> => storedMessages[Len(storedMessages)].role = "assistant"
    /\ \A r \in Request :
          /\ phase[r] # "idle" => asked[r] \in Question
          /\ phase[r] \in {"idle", "bootstrapping", "limiting", "loading"} => wire[r] = "none"
          /\ wire[r] = "sent" => scoped[r]
          /\ loaded[r] <= storedRevision
          /\ Answering(r) /\ loaded[r] = storedRevision =>
                messages[r] = Merged(storedMessages, asked[r])

AskInv == TypeOK /\ RequestInv /\ SessionInv

-----------------------------------------------------------------------------
(* The window, and what is recorded *)

\* The window keeps the end of a sequence.
LEMMA BoundedIsEnd ==
  ASSUME NEW S, NEW s \in Seq(S)
  PROVE  /\ Bounded(s) \in Seq(S)
         /\ Len(Bounded(s)) = IF Len(s) > Window THEN Window ELSE Len(s)
         /\ \A i \in 1 .. Len(Bounded(s)) : Bounded(s)[i] = s[i + Len(s) - Len(Bounded(s))]
<1>0. Window \in Nat /\ Window > 0 /\ Len(s) \in Nat
  BY AskBoundAssumption
<1>1. CASE Len(s) > Window
  <2>1. Bounded(s) = SubSeq(s, Len(s) - Window + 1, Len(s))
    BY <1>1 DEF Bounded, LastOf
  <2>2. Len(s) - Window + 1 \in 1 .. Len(s)
    BY <1>0, <1>1
  <2>3. /\ Len(SubSeq(s, Len(s) - Window + 1, Len(s))) = Window
        /\ SubSeq(s, Len(s) - Window + 1, Len(s)) \in Seq(S)
        /\ \A i \in 1 .. Window : SubSeq(s, Len(s) - Window + 1, Len(s))[i] = s[Len(s) - Window + i]
    BY <1>0, <1>1, <2>2
  <2> QED
    BY <1>0, <1>1, <2>1, <2>3
<1>2. CASE ~(Len(s) > Window)
  BY <1>0, <1>2 DEF Bounded, LastOf
<1> QED
  BY <1>1, <1>2

LEMMA BoundedLength ==
  ASSUME NEW S, NEW s \in Seq(S)
  PROVE  Bounded(s) \in Seq(S) /\ Len(Bounded(s)) <= Window
<1>1. Window \in Nat /\ Len(s) \in Nat
  BY AskBoundAssumption
<1>2. Bounded(s) \in Seq(S) /\ Len(Bounded(s)) = IF Len(s) > Window THEN Window ELSE Len(s)
  BY BoundedIsEnd
<1> QED
  BY <1>1, <1>2

\* An answer after a question in the window is both of them after the transcript.
LEMMA BoundedTwice ==
  ASSUME NEW S, NEW s \in Seq(S), NEW u \in S, NEW a \in S
  PROVE  Bounded(Append(Bounded(Append(s, u)), a)) = Bounded(s \o <<u, a>>)
<1> DEFINE once == Append(s, u)
<1> DEFINE twice == Append(Bounded(once), a)
<1> DEFINE both == s \o <<u, a>>
<1>0. Window \in Nat /\ Window > 0 /\ Len(s) \in Nat
  BY AskBoundAssumption
<1>1. /\ once \in Seq(S) /\ Len(once) = Len(s) + 1
      /\ \A i \in 1 .. Len(s) : once[i] = s[i]
      /\ once[Len(s) + 1] = u
  OBVIOUS
<1>2. /\ both \in Seq(S) /\ Len(both) = Len(s) + 2
      /\ \A i \in 1 .. Len(s) : both[i] = s[i]
      /\ both[Len(s) + 1] = u /\ both[Len(s) + 2] = a
  OBVIOUS
<1>3. /\ Bounded(once) \in Seq(S)
      /\ Len(Bounded(once)) = IF Len(once) > Window THEN Window ELSE Len(once)
      /\ \A i \in 1 .. Len(Bounded(once)) :
            Bounded(once)[i] = once[i + Len(once) - Len(Bounded(once))]
  <2> HIDE DEF once
  <2> QED
    BY <1>1, BoundedIsEnd
<1>4. /\ twice \in Seq(S) /\ Len(twice) = Len(Bounded(once)) + 1
      /\ \A i \in 1 .. Len(Bounded(once)) : twice[i] = Bounded(once)[i]
      /\ twice[Len(Bounded(once)) + 1] = a
  <2> HIDE DEF once
  <2> QED
    BY <1>3
<1>5. /\ Bounded(twice) \in Seq(S)
      /\ Len(Bounded(twice)) = IF Len(twice) > Window THEN Window ELSE Len(twice)
      /\ \A i \in 1 .. Len(Bounded(twice)) :
            Bounded(twice)[i] = twice[i + Len(twice) - Len(Bounded(twice))]
  <2> HIDE DEF twice
  <2> QED
    BY <1>4, BoundedIsEnd
<1>6. /\ Bounded(both) \in Seq(S)
      /\ Len(Bounded(both)) = IF Len(both) > Window THEN Window ELSE Len(both)
      /\ \A i \in 1 .. Len(Bounded(both)) :
            Bounded(both)[i] = both[i + Len(both) - Len(Bounded(both))]
  <2> HIDE DEF both
  <2> QED
    BY <1>2, BoundedIsEnd
<1> HIDE DEF once, twice, both
<1>7. Len(Bounded(twice)) = Len(Bounded(both))
  BY <1>0, <1>1, <1>2, <1>3, <1>4, <1>5, <1>6
<1>8. \A j \in 1 .. Len(twice) : twice[j] = both[j + Len(both) - Len(twice)]
  <2>1. Len(both) - Len(twice) = Len(once) - Len(Bounded(once)) /\ Len(Bounded(once)) \in Nat
    BY <1>1, <1>2, <1>3, <1>4
  <2>2. \A i \in 1 .. Len(once) : once[i] = both[i]
    BY <1>0, <1>1, <1>2
  <2> SUFFICES ASSUME NEW j \in 1 .. Len(twice) PROVE twice[j] = both[j + Len(both) - Len(twice)]
    OBVIOUS
  <2>3. CASE j = Len(twice)
    <3>1. Len(twice) \in Nat /\ j + Len(both) - Len(twice) = Len(both) /\ Len(both) = Len(s) + 2
      BY <1>0, <1>2, <1>4, <2>1, <2>3
    <3>2. twice[j] = a
      BY <1>4, <2>3
    <3>3. both[Len(both)] = a
      BY <1>2, <3>1
    <3> QED
      BY <3>1, <3>2, <3>3
  <2>4. CASE j # Len(twice)
    <3>1. j \in 1 .. Len(Bounded(once)) /\ Len(once) \in Nat
      BY <1>0, <1>1, <1>4, <2>1, <2>4
    <3>2. j + Len(once) - Len(Bounded(once)) \in 1 .. Len(once)
      BY <1>0, <1>3, <3>1
    <3>3. twice[j] = both[j + Len(once) - Len(Bounded(once))]
      BY <1>3, <1>4, <2>2, <3>1, <3>2
    <3>4. j + Len(both) - Len(twice) = j + Len(once) - Len(Bounded(once))
      BY <1>0, <1>1, <1>2, <1>4, <2>1, <3>1
    <3> QED
      BY <3>3, <3>4
  <2> QED
    BY <2>3, <2>4
<1>9. ASSUME NEW i \in 1 .. Len(Bounded(both)) PROVE Bounded(twice)[i] = Bounded(both)[i]
  <2>0. Len(Bounded(both)) \in Nat /\ Len(both) \in Nat /\ Len(twice) \in Nat
    BY <1>2, <1>4, <1>6
  <2>1. i + Len(twice) - Len(Bounded(twice)) \in 1 .. Len(twice)
    BY <1>0, <1>5, <1>7, <2>0
  <2>2. Bounded(twice)[i] = both[i + Len(twice) - Len(Bounded(twice)) + Len(both) - Len(twice)]
    BY <1>5, <1>7, <1>8, <2>1
  <2>3. i + Len(twice) - Len(Bounded(twice)) + Len(both) - Len(twice)
           = i + Len(both) - Len(Bounded(both))
    BY <1>7, <2>0
  <2> QED
    BY <1>6, <2>2, <2>3
<1> QED
  <2>1. Bounded(twice) = Bounded(both)
    BY <1>5, <1>6, <1>7, <1>9, SeqEqual
  <2> QED
    BY <2>1 DEF once, twice, both

\* An error is recorded once.
LEMMA RecordedError ==
  ASSUME NEW r \in Request, NEW outcome \in {"cancelled", "rejected", "error"},
         reports[r] \in Reports
  PROVE  RecordError(r, outcome) = CASE reports[r] = <<>> -> <<outcome>>
                                     [] reports[r] = <<"ok">> -> <<"ok", outcome>>
                                     [] OTHER -> reports[r]
<1>1. CASE reports[r] = <<>>
  BY <1>1 DEF RecordError, ToSet
<1>2. CASE reports[r] = <<"ok">>
  <2>1. ToSet(<<"ok">>) \subseteq {"ok"} /\ <<"ok">> # <<>>
    <3>1. \A k \in DOMAIN <<"ok">> : <<"ok">>[k] = "ok"
      OBVIOUS
    <3> QED
      BY <3>1 DEF ToSet
  <2> QED
    <3>1. Append(<<"ok">>, outcome) = <<"ok", outcome>>
      <4> DEFINE S == {"ok", "cancelled", "rejected", "error"}
      <4>1. <<"ok">> \in Seq(S) /\ outcome \in S /\ Len(<<"ok">>) = 1 /\ <<"ok">>[1] = "ok"
        OBVIOUS
      <4>3. /\ <<"ok", outcome>> \in Seq(S) /\ Len(<<"ok", outcome>>) = 2
            /\ <<"ok", outcome>>[1] = "ok" /\ <<"ok", outcome>>[2] = outcome
        BY <4>1
      <4>2. /\ Append(<<"ok">>, outcome) \in Seq(S)
            /\ Len(Append(<<"ok">>, outcome)) = 2
            /\ Append(<<"ok">>, outcome)[1] = "ok" /\ Append(<<"ok">>, outcome)[2] = outcome
        BY <4>1
      <4> HIDE DEF S
      <4>4. \A i \in 1 .. 2 : Append(<<"ok">>, outcome)[i] = <<"ok", outcome>>[i]
        BY <4>2, <4>3
      <4> QED
        BY <4>2, <4>3, <4>4, SeqEqual
    <3> QED
      BY <1>2, <2>1, <3>1 DEF RecordError
<1>3. ASSUME NEW x \in {"cancelled", "rejected", "error"}, reports[r] = <<x>>
      PROVE  RecordError(r, outcome) = reports[r] /\ reports[r] \notin {<<>>, <<"ok">>}
  <2>1. x \in ToSet(<<x>>) /\ <<x>> # <<>> /\ <<x>> # <<"ok">>
    <3>1. 1 \in DOMAIN <<x>> /\ <<x>>[1] = x
      OBVIOUS
    <3> QED
      BY <3>1 DEF ToSet
  <2> QED
    BY <1>3, <2>1 DEF RecordError
<1>4. CASE reports[r] = <<"ok", "cancelled">>
  <2>1. "cancelled" \in ToSet(<<"ok", "cancelled">>)
    <3>1. 2 \in DOMAIN <<"ok", "cancelled">> /\ <<"ok", "cancelled">>[2] = "cancelled"
      OBVIOUS
    <3> QED
      BY <3>1 DEF ToSet
  <2>2. <<"ok", "cancelled">> # <<>> /\ <<"ok", "cancelled">> # <<"ok">>
    OBVIOUS
  <2> QED
    BY <1>4, <2>1, <2>2 DEF RecordError
<1> QED
  BY <1>1, <1>2, <1>3, <1>4 DEF Reports

-----------------------------------------------------------------------------
(* The type invariant *)

Outcome == {"ok", "cancelled", "rejected", "error"}
Kind == {"text", "cite", "done", "error"}

SignalTypes ==
    /\ phase \in [Request -> Early \union Streaming \union {"idle", "closed", "crashed"}]
    /\ bootOver \in [Request -> BOOLEAN] /\ deadline \in [Request -> BOOLEAN]
    /\ timer \in [Request -> BOOLEAN]
    /\ aborted \in [Request -> BOOLEAN] /\ cancelled \in [Request -> BOOLEAN]

AnswerTypes ==
    /\ response \in [Request -> {"none", "stream", "timeout", "cancelled", "rejected"}]
    /\ events \in [Request -> Seq(Kind)]
    /\ reports \in [Request -> Seq(Outcome)]

TurnTypes ==
    /\ storedRevision \in Nat /\ storedMessages \in Seq(Message) /\ taken \subseteq Request
    /\ Len(storedMessages) <= Window
    /\ asked \in [Request -> Question \union {NoQuestion}]
    /\ scoped \in [Request -> BOOLEAN]
    /\ loaded \in [Request -> Nat]
    /\ messages \in [Request -> Seq(Message)]
    /\ \A r \in Request : Len(messages[r]) <= Window
    /\ drafted \in [Request -> BOOLEAN]

OtherTypes ==
    /\ wire \in [Request -> {"none", "sent", "stored", "conflict"}]
    /\ client \in [Request -> Reading \union {"idle", "done", "error", "left"}]
    /\ faults \in Nat

\* The type invariant is its parts, in a state and in the next one.
LEMMA TypeParts ==
  /\ TypeOK <=> SignalTypes /\ AnswerTypes /\ TurnTypes /\ OtherTypes
  /\ TypeOK' <=> SignalTypes' /\ AnswerTypes' /\ TurnTypes' /\ OtherTypes'
BY DEF TypeOK, SignalTypes, AnswerTypes, TurnTypes, OtherTypes, Outcome, Kind

\* A request that is over.
LEMMA CloseTypes ==
  ASSUME TypeOK, NEW r \in Request, Close(r)
  PROVE  /\ SignalTypes' /\ phase'[r] = "closed" /\ ~aborted'[r] /\ ~cancelled'[r]
         /\ \A q \in Request : q # r => /\ phase'[q] = phase[q]
                                        /\ aborted'[q] = aborted[q]
                                        /\ cancelled'[q] = cancelled[q]
<1>1. SignalTypes
  BY TypeParts
<1> QED
  BY <1>1 DEF SignalTypes, Close, Early, Streaming

\* A sequence that gets one item more.
LEMMA RecordTypes ==
  ASSUME TypeOK, NEW r \in Request, NEW o \in Outcome
  PROVE  RecordError(r, o) \in Seq(Outcome) /\ Append(reports[r], o) \in Seq(Outcome)
<1>1. reports[r] \in Seq(Outcome)
  BY TypeParts DEF AnswerTypes
<1>2. Append(reports[r], o) \in Seq(Outcome)
  BY <1>1
<1> QED
  BY <1>1, <1>2 DEF RecordError

LEMMA EmitTypes ==
  ASSUME TypeOK, NEW r \in Request
  PROVE  /\ events[r] \in Seq(Kind)
         /\ \A kinds \in Seq(Kind) : events[r] \o kinds \in Seq(Kind)
<1>1. events[r] \in Seq(Kind)
  BY TypeParts DEF AnswerTypes
<1> QED
  BY <1>1

\* A failure in the stream: it is reported once, and told to a client that is there.
LEMMA Failing ==
  ASSUME TypeOK, NEW r \in Request, StreamFails(r)
  PROVE  /\ SignalTypes' /\ AnswerTypes'
         /\ UNCHANGED <<store, input, turn, response, client>>
         /\ \E o \in {"cancelled", "error"} : reports' = [reports EXCEPT ![r] = RecordError(r, o)]
         /\ \/ events' = [events EXCEPT ![r] = @ \o <<"error">>]
            \/ events' = events /\ (aborted[r] \/ cancelled[r])
<1>1. SignalTypes'
  BY CloseTypes DEF StreamFails
<1>2. /\ UNCHANGED <<store, input, turn, response, client>>
      /\ \E o \in {"cancelled", "error"} : reports' = [reports EXCEPT ![r] = RecordError(r, o)]
  BY DEF StreamFails
<1>3. \/ events' = [events EXCEPT ![r] = @ \o <<"error">>]
      \/ events' = events /\ (aborted[r] \/ cancelled[r])
  BY DEF StreamFails, TimedOut, Aborted, Emit
<1>4. AnswerTypes'
  <2>1. AnswerTypes
    BY TypeParts
  <2>2. reports' \in [Request -> Seq(Outcome)]
    BY <1>2, <2>1, RecordTypes DEF AnswerTypes, Outcome
  <2>3. <<"error">> \in Seq(Kind)
    BY DEF Kind
  <2>4. events[r] \o <<"error">> \in Seq(Kind)
    BY <2>3, EmitTypes
  <2>5. events' \in [Request -> Seq(Kind)]
    BY <1>3, <2>1, <2>4 DEF AnswerTypes
  <2> QED
    BY <1>2, <2>1, <2>2, <2>5 DEF AnswerTypes
<1> QED
  BY <1>1, <1>2, <1>3, <1>4

\* A request that fails before its response.
LEMMA Refusing ==
  ASSUME TypeOK, NEW r \in Request, NEW outcome \in Outcome \ {"ok"},
         Refuse(r, "rejected", outcome) \/ Refuse(r, "timeout", outcome)
  PROVE  /\ SignalTypes' /\ AnswerTypes'
         /\ UNCHANGED <<store, input, turn, wire, events, client>>
         /\ response'[r] \in {"timeout", "cancelled", "rejected"}
         /\ \A q \in Request : q # r => response'[q] = response[q]
         /\ \/ reports' = reports
            \/ \E o \in Outcome \ {"ok"} : reports' = [reports EXCEPT ![r] = RecordError(r, o)]
<1>0. AnswerTypes
  BY TypeParts
<1>1. SignalTypes' /\ UNCHANGED <<store, input, turn, wire, events, client>>
  BY CloseTypes DEF Refuse
<1>2. /\ response' \in [Request -> {"none", "stream", "timeout", "cancelled", "rejected"}]
      /\ response'[r] \in {"timeout", "cancelled", "rejected"}
      /\ \A q \in Request : q # r => response'[q] = response[q]
  BY <1>0 DEF Refuse, AnswerTypes
<1>3. \/ reports' = reports
      \/ \E o \in Outcome \ {"ok"} : reports' = [reports EXCEPT ![r] = RecordError(r, o)]
  BY DEF Refuse, Outcome
<1>4. reports' \in [Request -> Seq(Outcome)]
  BY <1>0, <1>3, RecordTypes DEF AnswerTypes
<1> QED
  BY <1>0, <1>1, <1>2, <1>3, <1>4 DEF AnswerTypes

\* An answer that is complete.
LEMMA Completing ==
  ASSUME TypeOK, NEW r \in Request, NEW before \in {<<>>, <<"cite">>}, Complete(r, before)
  PROVE  /\ SignalTypes' /\ AnswerTypes'
         /\ UNCHANGED <<store, input, turn, response, client>>
         /\ reports' = [reports EXCEPT ![r] = Append(@, "ok")]
         /\ events' = [events EXCEPT ![r] = @ \o Append(before, "done")]
         /\ events[r] \o Append(before, "done") \in Seq(Kind)
<1>0. AnswerTypes
  BY TypeParts
<1>1. SignalTypes'
  BY CloseTypes DEF Complete
<1>2. /\ UNCHANGED <<store, input, turn, response, client>>
      /\ reports' = [reports EXCEPT ![r] = Append(@, "ok")]
      /\ events' = [events EXCEPT ![r] = @ \o Append(before, "done")]
  BY DEF Complete, Emit
<1>3. Append(before, "done") \in Seq(Kind)
  <2>1. <<>> \in Seq(Kind) /\ <<"cite">> \in Seq(Kind) /\ "done" \in Kind
    BY DEF Kind
  <2>2. before \in Seq(Kind)
    BY <2>1
  <2> QED
    BY <2>1, <2>2
<1>4. events[r] \o Append(before, "done") \in Seq(Kind)
  BY <1>3, EmitTypes
<1>5. Append(reports[r], "ok") \in Seq(Outcome)
  BY RecordTypes DEF Outcome
<1>6. AnswerTypes'
  BY <1>0, <1>2, <1>4, <1>5 DEF AnswerTypes
<1> QED
  BY <1>1, <1>2, <1>4, <1>6

\* The transcript a request answers keeps to the window.
LEMMA MergedTypes ==
  ASSUME NEW s \in Seq(Message), Len(s) <= Window, NEW q \in Question
  PROVE  Merged(s, q) \in Seq(Message) /\ Len(Merged(s, q)) <= Window
<1>1. User(q) \in Message
  BY DEF User, Message
<1>2. Append(s, User(q)) \in Seq(Message)
  BY <1>1
<1>3. /\ Bounded(Append(s, User(q))) \in Seq(Message)
      /\ Len(Bounded(Append(s, User(q)))) <= Window
  BY <1>2, BoundedLength
<1> QED
  BY <1>3 DEF Merged

\* Types are kept.
LEMMA TypeStep ==
  ASSUME TypeOK, SessionInv, [Next]_vars
  PROVE  TypeOK'
<1>0. SignalTypes /\ AnswerTypes /\ TurnTypes /\ OtherTypes
  BY TypeParts
<1>1. ASSUME NEW r \in Request, BootstrapExpires(r) PROVE TypeOK'
  <2>1. SignalTypes' /\ AnswerTypes' /\ TurnTypes' /\ OtherTypes'
    BY <1>0, <1>1, ScopeAssumption
    DEF SignalTypes, AnswerTypes, TurnTypes, OtherTypes, BootstrapExpires, Early,
       Streaming, Reading,
        store, input, turn, signals, answer
  <2> QED
    BY <2>1, TypeParts
<1>2. ASSUME NEW r \in Request, RequestExpires(r) PROVE TypeOK'
  <2>1. SignalTypes' /\ AnswerTypes' /\ TurnTypes' /\ OtherTypes'
    BY <1>0, <1>2, ScopeAssumption
    DEF SignalTypes, AnswerTypes, TurnTypes, OtherTypes, RequestExpires, Early,
       Streaming, Reading,
        store, input, turn, signals, answer
  <2> QED
    BY <2>1, TypeParts
<1>3. ASSUME NEW r \in Request, WaitExpires(r) PROVE TypeOK'
  <2>1. SignalTypes' /\ AnswerTypes' /\ TurnTypes' /\ OtherTypes'
    BY <1>0, <1>3, ScopeAssumption
    DEF SignalTypes, AnswerTypes, TurnTypes, OtherTypes, WaitExpires, Early, Streaming,
       Reading,
        store, input, turn, signals, answer
  <2> QED
    BY <2>1, TypeParts
<1>4. ASSUME NEW r \in Request, Ask(r) PROVE TypeOK'
  <2>1. SignalTypes' /\ AnswerTypes' /\ TurnTypes' /\ OtherTypes'
    BY <1>0, <1>4, ScopeAssumption
    DEF SignalTypes, AnswerTypes, TurnTypes, OtherTypes, Ask, Early, Streaming, Reading,
        store, input, turn, signals, answer
  <2> QED
    BY <2>1, TypeParts
<1>5. ASSUME NEW r \in Request, Reject(r) PROVE TypeOK'
  <2>1. /\ SignalTypes' /\ AnswerTypes'
        /\ UNCHANGED <<store, input, turn, wire, client>>
    BY <1>5, Refusing DEF Reject, Outcome
  <2>2. TurnTypes' /\ OtherTypes'
    BY <1>0, <2>1, <1>5 DEF TurnTypes, OtherTypes, Reject, Refuse, store, input, turn
  <2> QED
    BY <2>1, <2>2, TypeParts
<1>6. ASSUME NEW r \in Request, CutShort(r) PROVE TypeOK'
  <2>1. /\ SignalTypes' /\ AnswerTypes'
        /\ UNCHANGED <<store, input, turn, wire, client>>
    BY <1>6, Refusing DEF CutShort, Outcome
  <2>2. TurnTypes' /\ OtherTypes'
    BY <1>0, <2>1, <1>6 DEF TurnTypes, OtherTypes, CutShort, Refuse, store, input, turn
  <2> QED
    BY <2>1, <2>2, TypeParts
<1>7. ASSUME NEW r \in Request, SiteResolved(r) PROVE TypeOK'
  <2>1. SignalTypes' /\ AnswerTypes' /\ TurnTypes' /\ OtherTypes'
    BY <1>0, <1>7, ScopeAssumption
    DEF SignalTypes, AnswerTypes, TurnTypes, OtherTypes, SiteResolved, Goto, Early,
       Streaming, Reading,
        store, input, turn, signals, answer
  <2> QED
    BY <2>1, TypeParts
<1>8. ASSUME NEW r \in Request, Admitted(r) PROVE TypeOK'
  <2>1. SignalTypes' /\ AnswerTypes' /\ OtherTypes'
    BY <1>0, <1>8 DEF SignalTypes, AnswerTypes, OtherTypes, Admitted, Goto, Early, answer
  <2>2. TurnTypes'
    <3>1. asked[r] \in Question
      BY <1>8 DEF SessionInv, Admitted
    <3>2. User(asked[r]) \in Message
      BY <3>1 DEF User, Message
    <3>3. <<User(asked[r])>> \in Seq(Message) /\ Len(<<User(asked[r])>>) = 1
      BY <3>2
    <3>4. messages' \in [Request -> Seq(Message)] /\ \A q \in Request : Len(messages'[q]) <= Window
      <4>1. 1 <= Window
        BY AskBoundAssumption
      <4>2. \/ messages' = messages
            \/ messages' = [messages EXCEPT ![r] = <<User(asked[r])>>]
        BY <1>8 DEF Admitted
      <4> QED
        BY <1>0, <3>3, <4>1, <4>2 DEF TurnTypes
    <3> QED
      BY <1>0, <3>4, <1>8 DEF TurnTypes, Admitted, store, input
  <2> QED
    BY <2>1, <2>2, TypeParts
<1>9. ASSUME NEW r \in Request, SessionLoaded(r) PROVE TypeOK'
  <2>1. SignalTypes' /\ AnswerTypes' /\ OtherTypes'
    BY <1>0, <1>9 DEF SignalTypes, AnswerTypes, OtherTypes, SessionLoaded, Goto, Early,
       answer
  <2>2. TurnTypes'
    <3>1. asked[r] \in Question
      BY <1>9 DEF SessionInv, SessionLoaded
    <3>2. Merged(storedMessages, asked[r]) \in Seq(Message) /\ Len(Merged(storedMessages, asked[r])) <= Window
      BY <1>0, <3>1, MergedTypes DEF TurnTypes
    <3>3. messages' \in [Request -> Seq(Message)] /\ \A q \in Request : Len(messages'[q]) <= Window
      BY <1>0, <3>2, <1>9 DEF TurnTypes, SessionLoaded
    <3>4. loaded' \in [Request -> Nat]
      BY <1>0, <1>9 DEF TurnTypes, SessionLoaded
    <3> QED
      BY <1>0, <3>3, <3>4, <1>9 DEF TurnTypes, SessionLoaded, store, input
  <2> QED
    BY <2>1, <2>2, TypeParts
<1>10. ASSUME NEW r \in Request, Retrieved(r) PROVE TypeOK'
  <2>1. SignalTypes' /\ AnswerTypes' /\ TurnTypes' /\ OtherTypes'
    BY <1>0, <1>10, ScopeAssumption
    DEF SignalTypes, AnswerTypes, TurnTypes, OtherTypes, Retrieved, Goto, Early,
       Streaming, Reading,
        store, input, turn, signals, answer
  <2> QED
    BY <2>1, TypeParts
<1>11. ASSUME NEW r \in Request, TextArrives(r) PROVE TypeOK'
  <2>1. SignalTypes' /\ TurnTypes' /\ OtherTypes'
    BY <1>0, <1>11 DEF SignalTypes, TurnTypes, OtherTypes, TextArrives, store, input,
       turn, signals
  <2>2. AnswerTypes'
    <3>1. <<"text">> \in Seq(Kind)
      BY DEF Kind
    <3>2. events[r] \o <<"text">> \in Seq(Kind)
      BY <3>1, EmitTypes
    <3> QED
      BY <1>0, <3>2, <1>11 DEF AnswerTypes, TextArrives, Emit
  <2> QED
    BY <2>1, <2>2, TypeParts
<1>12. ASSUME NEW r \in Request, Generated(r) PROVE TypeOK'
  <2>1. CASE scoped[r]
    <3>1. <<"cite">> \in Seq(Kind)
      BY DEF Kind
    <3>2. events[r] \o <<"cite">> \in Seq(Kind)
      BY <3>1, EmitTypes
    <3>3. SignalTypes' /\ AnswerTypes'
      <4>1. /\ events' = [events EXCEPT ![r] = @ \o <<"cite">>]
            /\ UNCHANGED <<response, reports>>
        BY <2>1, <1>12 DEF Generated, Emit, Cite
      <4>2. SignalTypes'
        BY <1>0, <2>1, <1>12 DEF SignalTypes, Generated, Goto, Early, Streaming
      <4> QED
        BY <1>0, <3>2, <4>1, <4>2 DEF AnswerTypes
    <3>4. TurnTypes' /\ OtherTypes'
      BY <1>0, <2>1, <1>12 DEF TurnTypes, OtherTypes, Generated, store, input, turn
    <3> QED
      BY <3>3, <3>4, TypeParts
  <2>2. CASE ~scoped[r]
    <3>1. /\ SignalTypes' /\ AnswerTypes'
          /\ UNCHANGED <<store, input, turn, client>>
      BY <1>12, <2>2, Completing DEF Generated, Cite
    <3>2. TurnTypes' /\ OtherTypes'
      BY <1>0, <2>2, <3>1, <1>12 DEF TurnTypes, OtherTypes, Generated, store, input, turn
    <3> QED
      BY <3>1, <3>2, TypeParts
  <2> QED
    BY <2>1, <2>2
<1>13. ASSUME NEW r \in Request, GenerationFails(r) PROVE TypeOK'
  <2>1. /\ SignalTypes' /\ AnswerTypes'
        /\ UNCHANGED <<store, input, turn, client>>
    BY <1>13, Failing DEF GenerationFails
  <2>2. TurnTypes' /\ OtherTypes'
    BY <1>0, <2>1, <1>13 DEF TurnTypes, OtherTypes, GenerationFails, store, input, turn
  <2> QED
    BY <2>1, <2>2, TypeParts
<1>14. ASSUME NEW r \in Request, SaveLands(r) PROVE TypeOK'
  <2>1. SignalTypes' /\ AnswerTypes' /\ OtherTypes'
    BY <1>0, <1>14 DEF SignalTypes, AnswerTypes, OtherTypes, SaveLands, signals, answer
  <2>2. TurnTypes'
    <3>1. Assistant(r) \in Message /\ messages[r] \in Seq(Message)
      BY <1>0 DEF Assistant, Message, TurnTypes
    <3>2. Append(messages[r], Assistant(r)) \in Seq(Message)
      BY <3>1
    <3>3. /\ Bounded(Append(messages[r], Assistant(r))) \in Seq(Message)
          /\ Len(Bounded(Append(messages[r], Assistant(r)))) <= Window
      BY <3>2, BoundedLength
    <3> QED
      BY <1>0, <3>3, <1>14 DEF TurnTypes, SaveLands, RevisionMatches, store, input, turn
  <2> QED
    BY <2>1, <2>2, TypeParts
<1>15. ASSUME NEW r \in Request, SaveAnswered(r) PROVE TypeOK'
  <2>1. /\ SignalTypes' /\ AnswerTypes'
        /\ UNCHANGED <<store, input, turn, client>>
    BY <1>15, Completing, Failing DEF SaveAnswered
  <2>2. TurnTypes' /\ OtherTypes'
    BY <1>0, <2>1, <1>15 DEF TurnTypes, OtherTypes, SaveAnswered, store, input, turn
  <2> QED
    BY <2>1, <2>2, TypeParts
<1>16. ASSUME NEW r \in Request, SaveThrows(r) PROVE TypeOK'
  <2>1. /\ SignalTypes' /\ AnswerTypes'
        /\ UNCHANGED <<store, input, turn, client>>
    BY <1>16, Failing DEF SaveThrows
  <2>2. TurnTypes' /\ OtherTypes'
    BY <1>0, <2>1, <1>16 DEF TurnTypes, OtherTypes, SaveThrows, store, input, turn
  <2> QED
    BY <2>1, <2>2, TypeParts
<1>17. ASSUME NEW r \in Request, StreamCut(r) PROVE TypeOK'
  <2>1. /\ SignalTypes' /\ AnswerTypes'
        /\ UNCHANGED <<store, input, turn, client>>
    BY <1>17, Failing DEF StreamCut
  <2>2. TurnTypes' /\ OtherTypes'
    BY <1>0, <2>1, <1>17 DEF TurnTypes, OtherTypes, StreamCut, store, input, turn
  <2> QED
    BY <2>1, <2>2, TypeParts
<1>18. ASSUME NEW r \in Request, HeadersArrive(r) PROVE TypeOK'
  <2>1. SignalTypes' /\ AnswerTypes' /\ TurnTypes' /\ OtherTypes'
    BY <1>0, <1>18, ScopeAssumption
    DEF SignalTypes, AnswerTypes, TurnTypes, OtherTypes, HeadersArrive, Early,
       Streaming, Reading,
        store, input, turn, signals, answer
  <2> QED
    BY <2>1, TypeParts
<1>19. ASSUME NEW r \in Request, EventArrives(r) PROVE TypeOK'
  <2>1. SignalTypes' /\ TurnTypes'
    BY <1>0, <1>19 DEF SignalTypes, TurnTypes, EventArrives, store, input, turn, signals
  <2>2. AnswerTypes'
    <3>1. Tail(events[r]) \in Seq(Kind)
      BY <1>0, <1>19 DEF AnswerTypes, EventArrives
    <3> QED
      BY <1>0, <3>1, <1>19 DEF AnswerTypes, EventArrives
  <2>3. OtherTypes'
    BY <1>0, <1>19 DEF OtherTypes, EventArrives
  <2> QED
    BY <2>1, <2>2, <2>3, TypeParts
<1>20. ASSUME NEW r \in Request, StreamEnds(r) PROVE TypeOK'
  <2>1. SignalTypes' /\ AnswerTypes' /\ TurnTypes' /\ OtherTypes'
    BY <1>0, <1>20, ScopeAssumption
    DEF SignalTypes, AnswerTypes, TurnTypes, OtherTypes, StreamEnds, Early, Streaming,
       Reading,
        store, input, turn, signals, answer
  <2> QED
    BY <2>1, TypeParts
<1>21. ASSUME NEW r \in Request, Leave(r) PROVE TypeOK'
  <2>1. SignalTypes' /\ AnswerTypes' /\ TurnTypes' /\ OtherTypes'
    BY <1>0, <1>21, ScopeAssumption
    DEF SignalTypes, AnswerTypes, TurnTypes, OtherTypes, Leave, Early, Streaming, Reading,
        store, input, turn, signals, answer
  <2> QED
    BY <2>1, TypeParts
<1>22. ASSUME NEW r \in Request, RequestAborted(r) PROVE TypeOK'
  <2>1. SignalTypes' /\ AnswerTypes' /\ TurnTypes' /\ OtherTypes'
    BY <1>0, <1>22, ScopeAssumption
    DEF SignalTypes, AnswerTypes, TurnTypes, OtherTypes, RequestAborted, Early,
       Streaming, Reading,
        store, input, turn, signals, answer
  <2> QED
    BY <2>1, TypeParts
<1>23. ASSUME NEW r \in Request, ResponseCancelled(r) PROVE TypeOK'
  <2>1. SignalTypes' /\ TurnTypes' /\ OtherTypes'
    BY <1>0, <1>23 DEF SignalTypes, TurnTypes, OtherTypes, ResponseCancelled, store,
       input, turn
  <2>2. AnswerTypes'
    <3>1. RecordError(r, "cancelled") \in Seq(Outcome) /\ <<>> \in Seq(Kind)
      BY RecordTypes DEF Outcome
    <3> QED
      BY <1>0, <3>1, <1>23 DEF AnswerTypes, ResponseCancelled
  <2> QED
    BY <2>1, <2>2, TypeParts
<1>24. ASSUME NEW r \in Request, Crash(r) PROVE TypeOK'
  <2>1. SignalTypes' /\ AnswerTypes' /\ TurnTypes' /\ OtherTypes'
    BY <1>0, <1>24, ScopeAssumption
    DEF SignalTypes, AnswerTypes, TurnTypes, OtherTypes, Crash, Early, Streaming, Reading,
        store, input, turn, signals, answer
  <2> QED
    BY <2>1, TypeParts
<1>25. ASSUME NEW r \in Request, ConnectionBreaks(r) PROVE TypeOK'
  <2>1. SignalTypes' /\ AnswerTypes' /\ TurnTypes' /\ OtherTypes'
    BY <1>0, <1>25, ScopeAssumption
    DEF SignalTypes, AnswerTypes, TurnTypes, OtherTypes, ConnectionBreaks, Early,
       Streaming, Reading,
        store, input, turn, signals, answer
  <2> QED
    BY <2>1, TypeParts
<1>26. CASE UNCHANGED vars
  <2>1. SignalTypes' /\ AnswerTypes' /\ TurnTypes' /\ OtherTypes'
    BY <1>0, <1>26
    DEF vars, SignalTypes, AnswerTypes, TurnTypes, OtherTypes, store, input, turn,
       signals, answer
  <2> QED
    BY <2>1, TypeParts
<1> QED
  BY <1>1, <1>2, <1>3, <1>4, <1>5, <1>6, <1>7, <1>8, <1>9, <1>10, <1>11, <1>12,
     <1>13, <1>14, <1>15, <1>16, <1>17, <1>18, <1>19, <1>20, <1>21, <1>22, <1>23,
     <1>24, <1>25, <1>26
  DEF Next, Expire, Prepare, Answer, Read

-----------------------------------------------------------------------------
(* One request and its client *)

\* A step leaves request q alone.
Same(q) ==
    /\ phase'[q] = phase[q] /\ scoped'[q] = scoped[q] /\ wire'[q] = wire[q]
    /\ aborted'[q] = aborted[q] /\ cancelled'[q] = cancelled[q]
    /\ response'[q] = response[q] /\ events'[q] = events[q] /\ reports'[q] = reports[q]
    /\ client'[q] = client[q]

LEMMA Untouched ==
  ASSUME NEW q \in Request, Same(q), taken \subseteq taken', EndInv(q), ClientInv(q)
  PROVE  EndInv(q)' /\ ClientInv(q)'
BY DEF Same, EndInv, ClientInv

\* A step of one request.
LEMMA Alone ==
  ASSUME NEW r \in Request, RequestInv, taken \subseteq taken',
         \A q \in Request : q # r => Same(q),
         EndInv(r)', ClientInv(r)'
  PROVE  RequestInv'
<1> SUFFICES ASSUME NEW q \in Request PROVE EndInv(q)' /\ ClientInv(q)'
  BY DEF RequestInv
<1>1. CASE q = r
  BY <1>1
<1>2. CASE q # r
  BY <1>2, Untouched DEF RequestInv
<1> QED
  BY <1>1, <1>2

LEMMA Appended ==
  ASSUME NEW S, NEW s \in Seq(S), NEW e \in S
  PROVE  /\ Append(s, e) \in Seq(S) /\ Append(s, e) # <<>>
         /\ Len(Append(s, e)) = Len(s) + 1
         /\ Append(s, e)[Len(s) + 1] = e
BY AppendProperties

\* What follows the events that are already there.
LEMMA Emitted ==
  ASSUME NEW ev \in Seq(Kind), NEW kinds \in Seq(Kind), kinds # <<>>
  PROVE  /\ ev \o kinds # <<>>
         /\ (ev \o kinds)[Len(ev \o kinds)] = kinds[Len(kinds)]
         /\ \A k \in DOMAIN (ev \o kinds) :
               \/ k \in DOMAIN ev /\ (ev \o kinds)[k] = ev[k]
               \/ \E j \in DOMAIN kinds : (ev \o kinds)[k] = kinds[j]
<1>1. Len(ev) \in Nat /\ Len(kinds) \in Nat \ {0} /\ Len(ev \o kinds) = Len(ev) + Len(kinds)
  OBVIOUS
<1>2. /\ \A k \in 1 .. Len(ev) : (ev \o kinds)[k] = ev[k]
      /\ \A j \in 1 .. Len(kinds) : (ev \o kinds)[Len(ev) + j] = kinds[j]
  OBVIOUS
<1>3. /\ DOMAIN (ev \o kinds) = 1 .. Len(ev) + Len(kinds)
      /\ DOMAIN ev = 1 .. Len(ev) /\ DOMAIN kinds = 1 .. Len(kinds)
  BY <1>1
<1>4. ev \o kinds # <<>>
  BY <1>1
<1>5. (ev \o kinds)[Len(ev \o kinds)] = kinds[Len(kinds)]
  BY <1>1, <1>2
<1>6. ASSUME NEW k \in DOMAIN (ev \o kinds)
      PROVE  \/ k \in DOMAIN ev /\ (ev \o kinds)[k] = ev[k]
             \/ \E j \in DOMAIN kinds : (ev \o kinds)[k] = kinds[j]
  <2>1. CASE k <= Len(ev)
    BY <1>1, <1>2, <1>3, <2>1
  <2>2. CASE k > Len(ev)
    <3>1. k - Len(ev) \in 1 .. Len(kinds) /\ Len(ev) + (k - Len(ev)) = k
      BY <1>1, <1>3, <2>2
    <3> QED
      BY <1>2, <1>3, <3>1
  <2> QED
    BY <1>1, <1>3, <2>1, <2>2
<1> QED
  BY <1>4, <1>5, <1>6

\* A failure in the stream ends what the client reads, unless the client has left.
LEMMA FailEnds ==
  ASSUME TypeOK, NEW r \in Request, EndInv(r), ClientInv(r), StreamFails(r),
         phase[r] \in Streaming, wire'[r] \in {wire[r], "none"}
  PROVE  EndInv(r)' /\ ClientInv(r)'
<1>1. phase'[r] = "closed" /\ ~aborted'[r] /\ ~cancelled'[r]
  BY CloseTypes DEF StreamFails
<1>2. /\ response'[r] = response[r] /\ client'[r] = client[r] /\ scoped'[r] = scoped[r]
      /\ taken' = taken
  BY Failing DEF store, input
<1>3. PICK o \in {"cancelled", "error"} : reports' = [reports EXCEPT ![r] = RecordError(r, o)]
  BY Failing
<1>4. reports[r] \in {<<>>, <<"cancelled">>} /\ response[r] = "stream"
  BY DEF EndInv
<1>5. reports'[r] \in {<<"cancelled">>, <<"error">>}
  <2>1. AnswerTypes
    BY TypeParts
  <2>2. reports'[r] = RecordError(r, o)
    BY <1>3, <2>1 DEF AnswerTypes
  <2>3. CASE reports[r] = <<>>
    <3>1. RecordError(r, o) = <<o>>
      BY <2>3, RecordedError DEF Reports
    <3> QED
      BY <2>2, <3>1
  <2>4. CASE reports[r] = <<"cancelled">>
    <3>1. <<"cancelled">> # <<>> /\ <<"cancelled">> # <<"ok">>
      OBVIOUS
    <3>2. RecordError(r, o) = <<"cancelled">>
      BY <2>4, <3>1, RecordedError DEF Reports
    <3> QED
      BY <2>2, <3>2
  <2> QED
    BY <1>4, <2>3, <2>4
<1>6. EndInv(r)'
  <2>1. /\ <<"cancelled">> # <<>> /\ <<"error">> # <<>>
        /\ <<"cancelled">> # <<"ok", "cancelled">> /\ <<"error">> # <<"ok", "cancelled">>
    OBVIOUS
  <2> QED
    BY <1>1, <1>2, <1>5, <2>1 DEF EndInv, Early, Streaming, Reports
<1>7. ~(client[r] = "done" \/ \E k \in DOMAIN events[r] : events[r][k] = "done")
  BY DEF ClientInv, Streaming
<1>8. /\ \A k \in DOMAIN events'[r] : events'[r][k] # "done"
      /\ client[r] # "left" => events'[r] # <<>> /\ events'[r][Len(events'[r])] = "error"
  <2>1. AnswerTypes /\ events[r] \in Seq(Kind)
    BY TypeParts, EmitTypes
  <2>2. CASE events' = [events EXCEPT ![r] = @ \o <<"error">>]
    <3>1. <<"error">> \in Seq(Kind) /\ <<"error">> # <<>> /\ Len(<<"error">>) = 1
      BY DEF Kind
    <3>2. events'[r] = events[r] \o <<"error">>
      BY <2>1, <2>2 DEF AnswerTypes
    <3>3. DOMAIN <<"error">> = {1} /\ <<"error">>[1] = "error"
      OBVIOUS
    <3> QED
      BY <1>7, <2>1, <3>1, <3>2, <3>3, Emitted
  <2>3. CASE events' = events /\ (aborted[r] \/ cancelled[r])
    BY <1>7, <2>3 DEF EndInv
  <2> QED
    BY <2>2, <2>3, Failing
<1>9. ClientInv(r)'
  BY <1>1, <1>2, <1>4, <1>7, <1>8 DEF ClientInv, Reading
<1> QED
  BY <1>6, <1>9

\* It leaves the other requests alone.
LEMMA FailsAlone ==
  ASSUME TypeOK, NEW r \in Request, StreamFails(r),
         NEW q \in Request, q # r, wire'[q] = wire[q]
  PROVE  Same(q) /\ taken' = taken
<1>1. AnswerTypes
  BY TypeParts
<1>2. events'[q] = events[q] /\ reports'[q] = reports[q]
  BY <1>1, Failing DEF AnswerTypes
<1>3. /\ phase'[q] = phase[q] /\ aborted'[q] = aborted[q] /\ cancelled'[q] = cancelled[q]
  BY CloseTypes DEF StreamFails
<1> QED
  BY <1>2, <1>3 DEF Same, StreamFails, store, input

\* A complete answer has been taken by the store, when its request names the session.
LEMMA CompleteEnds ==
  ASSUME TypeOK, NEW r \in Request, EndInv(r), ClientInv(r),
         NEW before \in {<<>>, <<"cite">>}, Complete(r, before),
         phase[r] \in Streaming, ~cancelled[r], scoped[r] => r \in taken, wire'[r] = wire[r]
  PROVE  EndInv(r)' /\ ClientInv(r)'
<1>1. phase'[r] = "closed" /\ ~aborted'[r] /\ ~cancelled'[r]
  BY CloseTypes DEF Complete
<1>2. /\ response'[r] = response[r] /\ client'[r] = client[r] /\ scoped'[r] = scoped[r]
      /\ taken' = taken
  BY Completing DEF store, input
<1>3. reports'[r] = <<"ok">>
  <2>1. AnswerTypes
    BY TypeParts
  <2>2. reports[r] = <<>>
    BY DEF EndInv
  <2>3. reports'[r] = Append(reports[r], "ok")
    BY <2>1, Completing DEF AnswerTypes
  <2> QED
    BY <2>2, <2>3
<1>4. EndInv(r)'
  <2>1. <<"ok">> # <<>> /\ <<"ok">> # <<"ok", "cancelled">>
    OBVIOUS
  <2> QED
    BY <1>1, <1>2, <1>3, <2>1 DEF EndInv, Early, Streaming, Reports
<1>5. events'[r] # <<>> /\ events'[r][Len(events'[r])] = "done"
  <2>1. AnswerTypes /\ events[r] \in Seq(Kind)
    BY TypeParts, EmitTypes
  <2>2. events'[r] = events[r] \o Append(before, "done")
    <3>1. events' = [events EXCEPT ![r] = @ \o Append(before, "done")]
      BY Completing
    <3> QED
      BY <2>1, <3>1 DEF AnswerTypes
  <2>3. CASE before = <<>>
    <3>1. /\ Append(before, "done") \in Seq(Kind) /\ Append(before, "done") # <<>>
          /\ Len(Append(before, "done")) = 1 /\ Append(before, "done")[1] = "done"
      BY <2>3 DEF Kind
    <3> QED
      BY <2>1, <2>2, <3>1, Emitted
  <2>4. CASE before = <<"cite">>
    <3>1. before \in Seq(Kind) /\ Len(before) = 1 /\ "done" \in Kind
      BY <2>4 DEF Kind
    <3>2. /\ Append(before, "done") \in Seq(Kind) /\ Append(before, "done") # <<>>
          /\ Len(Append(before, "done")) = Len(before) + 1
          /\ Append(before, "done")[Len(before) + 1] = "done"
      BY <3>1, Appended
    <3> QED
      BY <2>1, <2>2, <3>2, Emitted
  <2> QED
    BY <2>3, <2>4
<1>6. ClientInv(r)'
  BY <1>1, <1>2, <1>3, <1>5 DEF ClientInv, EndInv
<1> QED
  BY <1>4, <1>6

\* What requests report and clients read stays in step.
LEMMA RequestStep ==
  ASSUME TypeOK, RequestInv, [Next]_vars
  PROVE  RequestInv'
<1>0. TypeOK /\ SignalTypes /\ AnswerTypes /\ TurnTypes /\ OtherTypes
  BY TypeParts
<1>1. ASSUME NEW r \in Request, BootstrapExpires(r) PROVE RequestInv'
  <2>1. taken \subseteq taken' /\ \A q \in Request : q # r => Same(q)
    BY <1>0, <1>1 DEF SignalTypes, AnswerTypes, TurnTypes, OtherTypes, Same,
       BootstrapExpires, store, input, turn, signals, answer
  <2>2. EndInv(r)'
    BY <1>0, <1>1 DEF RequestInv, SignalTypes, AnswerTypes, TurnTypes, OtherTypes,
       EndInv, BootstrapExpires, store, input, turn, signals, answer, Early, Streaming,
       Reading, Reports
  <2>3. ClientInv(r)'
    BY <1>0, <1>1 DEF RequestInv, SignalTypes, AnswerTypes, TurnTypes, OtherTypes,
       EndInv, ClientInv, BootstrapExpires, store, input, turn, signals, answer, Early,
       Streaming, Reading
  <2> QED
    BY <2>1, <2>2, <2>3, Alone
<1>2. ASSUME NEW r \in Request, RequestExpires(r) PROVE RequestInv'
  <2>1. taken \subseteq taken' /\ \A q \in Request : q # r => Same(q)
    BY <1>0, <1>2 DEF SignalTypes, AnswerTypes, TurnTypes, OtherTypes, Same,
       RequestExpires, store, input, turn, signals, answer
  <2>2. EndInv(r)'
    BY <1>0, <1>2 DEF RequestInv, SignalTypes, AnswerTypes, TurnTypes, OtherTypes,
       EndInv, RequestExpires, store, input, turn, signals, answer, Early, Streaming,
       Reading, Reports
  <2>3. ClientInv(r)'
    BY <1>0, <1>2 DEF RequestInv, SignalTypes, AnswerTypes, TurnTypes, OtherTypes,
       EndInv, ClientInv, RequestExpires, store, input, turn, signals, answer, Early,
       Streaming, Reading
  <2> QED
    BY <2>1, <2>2, <2>3, Alone
<1>3. ASSUME NEW r \in Request, WaitExpires(r) PROVE RequestInv'
  <2>1. taken \subseteq taken' /\ \A q \in Request : q # r => Same(q)
    BY <1>0, <1>3 DEF SignalTypes, AnswerTypes, TurnTypes, OtherTypes, Same,
       WaitExpires, store, input, turn, signals, answer
  <2>2. EndInv(r)'
    BY <1>0, <1>3 DEF RequestInv, SignalTypes, AnswerTypes, TurnTypes, OtherTypes,
       EndInv, WaitExpires, store, input, turn, signals, answer, Early, Streaming,
       Reading, Reports
  <2>3. ClientInv(r)'
    BY <1>0, <1>3 DEF RequestInv, SignalTypes, AnswerTypes, TurnTypes, OtherTypes,
       EndInv, ClientInv, WaitExpires, store, input, turn, signals, answer, Early,
       Streaming, Reading
  <2> QED
    BY <2>1, <2>2, <2>3, Alone
<1>4. ASSUME NEW r \in Request, Ask(r) PROVE RequestInv'
  <2>1. taken \subseteq taken' /\ \A q \in Request : q # r => Same(q)
    BY <1>0, <1>4 DEF SignalTypes, AnswerTypes, TurnTypes, OtherTypes, Same, Ask, store,
       input, turn, signals, answer
  <2>2. EndInv(r)'
    <3>1. /\ phase[r] = "idle" /\ phase'[r] = "bootstrapping"
          /\ UNCHANGED <<aborted, cancelled, response, events, reports>>
      BY <1>0, <1>4 DEF Ask, SignalTypes, signals, answer
    <3>2. /\ response[r] = "none" /\ events[r] = <<>> /\ reports[r] = <<>>
          /\ ~aborted[r] /\ ~cancelled[r]
      BY <3>1 DEF RequestInv, EndInv, ClientInv
    <3>3. <<>> # <<"ok", "cancelled">>
      OBVIOUS
    <3> QED
      BY <3>1, <3>2, <3>3 DEF EndInv, Reports, Streaming
  <2>3. ClientInv(r)'
    BY <1>0, <1>4 DEF RequestInv, SignalTypes, AnswerTypes, TurnTypes, OtherTypes,
       EndInv, ClientInv, Ask, store, input, turn, signals, answer, Early, Streaming,
       Reading
  <2> QED
    BY <2>1, <2>2, <2>3, Alone
<1>5. ASSUME NEW r \in Request, Reject(r) PROVE RequestInv'
  <2>1. \E o \in Outcome \ {"ok"} : Refuse(r, "rejected", o) \/ Refuse(r, "timeout", o)
    BY <1>5 DEF Reject, Outcome
  <2>2. phase'[r] = "closed" /\ ~aborted'[r] /\ ~cancelled'[r]
    BY <2>1, CloseTypes DEF Refuse
  <2>3. /\ UNCHANGED <<store, input, turn, wire, events, client>>
        /\ response'[r] \in {"timeout", "cancelled", "rejected"}
        /\ \A q \in Request : q # r => response'[q] = response[q]
        /\ \/ reports' = reports
           \/ \E o \in Outcome \ {"ok"} : reports' = [reports EXCEPT ![r] = RecordError(r, o)]
    BY <2>1, Refusing
  <2>4. taken \subseteq taken' /\ \A q \in Request : q # r => Same(q)
    BY <1>0, <2>1, <2>3, CloseTypes DEF AnswerTypes, Same, Refuse, store, input
  <2>5. response[r] = "none" /\ events[r] = <<>> /\ reports[r] = <<>>
    BY <1>5 DEF Reject, RequestInv, EndInv
  <2>6. reports'[r] \in Reports /\ reports'[r] # <<"ok", "cancelled">>
    <3>1. CASE reports' = reports
      BY <2>5, <3>1 DEF Reports
    <3>2. ASSUME NEW o \in Outcome \ {"ok"}, reports' = [reports EXCEPT ![r] = RecordError(r, o)]
          PROVE  reports'[r] \in Reports /\ reports'[r] # <<"ok", "cancelled">>
      <4>1. reports'[r] = RecordError(r, o)
        BY <1>0, <3>2 DEF AnswerTypes
      <4>2. RecordError(r, o) = <<o>>
        BY <2>5, RecordedError DEF Reports, Outcome
      <4> QED
        BY <4>1, <4>2 DEF Reports, Outcome
    <3> QED
      BY <2>3, <3>1, <3>2
  <2>7. EndInv(r)'
    BY <2>2, <2>3, <2>6 DEF EndInv, Early, Streaming
  <2>8. ClientInv(r)'
    <3>1. client[r] # "reading" /\ client[r] # "done"
      BY <2>5, <1>5 DEF Reject, RequestInv, ClientInv, Early
    <3> QED
      BY <2>2, <2>3, <2>5, <3>1 DEF RequestInv, ClientInv, store, input
  <2> QED
    BY <2>4, <2>7, <2>8, Alone
<1>6. ASSUME NEW r \in Request, CutShort(r) PROVE RequestInv'
  <2>1. \E o \in Outcome \ {"ok"} : Refuse(r, "rejected", o) \/ Refuse(r, "timeout", o)
    BY <1>6 DEF CutShort, Outcome
  <2>2. phase'[r] = "closed" /\ ~aborted'[r] /\ ~cancelled'[r]
    BY <2>1, CloseTypes DEF Refuse
  <2>3. /\ UNCHANGED <<store, input, turn, wire, events, client>>
        /\ response'[r] \in {"timeout", "cancelled", "rejected"}
        /\ \A q \in Request : q # r => response'[q] = response[q]
        /\ \/ reports' = reports
           \/ \E o \in Outcome \ {"ok"} : reports' = [reports EXCEPT ![r] = RecordError(r, o)]
    BY <2>1, Refusing
  <2>4. taken \subseteq taken' /\ \A q \in Request : q # r => Same(q)
    BY <1>0, <2>1, <2>3, CloseTypes DEF AnswerTypes, Same, Refuse, store, input
  <2>5. response[r] = "none" /\ events[r] = <<>> /\ reports[r] = <<>>
    BY <1>6 DEF CutShort, RequestInv, EndInv
  <2>6. reports'[r] \in Reports /\ reports'[r] # <<"ok", "cancelled">>
    <3>1. CASE reports' = reports
      BY <2>5, <3>1 DEF Reports
    <3>2. ASSUME NEW o \in Outcome \ {"ok"}, reports' = [reports EXCEPT ![r] = RecordError(r, o)]
          PROVE  reports'[r] \in Reports /\ reports'[r] # <<"ok", "cancelled">>
      <4>1. reports'[r] = RecordError(r, o)
        BY <1>0, <3>2 DEF AnswerTypes
      <4>2. RecordError(r, o) = <<o>>
        BY <2>5, RecordedError DEF Reports, Outcome
      <4> QED
        BY <4>1, <4>2 DEF Reports, Outcome
    <3> QED
      BY <2>3, <3>1, <3>2
  <2>7. EndInv(r)'
    BY <2>2, <2>3, <2>6 DEF EndInv, Early, Streaming
  <2>8. ClientInv(r)'
    <3>1. client[r] # "reading" /\ client[r] # "done"
      BY <2>5, <1>6 DEF CutShort, RequestInv, ClientInv, Early
    <3> QED
      BY <2>2, <2>3, <2>5, <3>1 DEF RequestInv, ClientInv, store, input
  <2> QED
    BY <2>4, <2>7, <2>8, Alone
<1>7. ASSUME NEW r \in Request, SiteResolved(r) PROVE RequestInv'
  <2>1. taken \subseteq taken' /\ \A q \in Request : q # r => Same(q)
    BY <1>0, <1>7 DEF SignalTypes, AnswerTypes, TurnTypes, OtherTypes, Same,
       SiteResolved, Goto, store, input, turn, signals, answer
  <2>2. EndInv(r)'
    BY <1>0, <1>7 DEF RequestInv, SignalTypes, AnswerTypes, TurnTypes, OtherTypes,
       EndInv, SiteResolved, Goto, store, input, turn, signals, answer, Early,
       Streaming, Reading, Reports
  <2>3. ClientInv(r)'
    BY <1>0, <1>7 DEF RequestInv, SignalTypes, AnswerTypes, TurnTypes, OtherTypes,
       EndInv, ClientInv, SiteResolved, Goto, store, input, turn, signals, answer,
       Early, Streaming, Reading
  <2> QED
    BY <2>1, <2>2, <2>3, Alone
<1>8. ASSUME NEW r \in Request, Admitted(r) PROVE RequestInv'
  <2>1. taken \subseteq taken' /\ \A q \in Request : q # r => Same(q)
    BY <1>0, <1>8 DEF SignalTypes, AnswerTypes, TurnTypes, OtherTypes, Same, Admitted,
       Goto, store, input, turn, signals, answer
  <2>2. EndInv(r)'
    BY <1>0, <1>8 DEF RequestInv, SignalTypes, AnswerTypes, TurnTypes, OtherTypes,
       EndInv, Admitted, Goto, store, input, turn, signals, answer, Early, Streaming,
       Reading, Reports
  <2>3. ClientInv(r)'
    BY <1>0, <1>8 DEF RequestInv, SignalTypes, AnswerTypes, TurnTypes, OtherTypes,
       EndInv, ClientInv, Admitted, Goto, store, input, turn, signals, answer, Early,
       Streaming, Reading
  <2> QED
    BY <2>1, <2>2, <2>3, Alone
<1>9. ASSUME NEW r \in Request, SessionLoaded(r) PROVE RequestInv'
  <2>1. taken \subseteq taken' /\ \A q \in Request : q # r => Same(q)
    BY <1>0, <1>9 DEF SignalTypes, AnswerTypes, TurnTypes, OtherTypes, Same,
       SessionLoaded, Goto, store, input, turn, signals, answer
  <2>2. EndInv(r)'
    BY <1>0, <1>9 DEF RequestInv, SignalTypes, AnswerTypes, TurnTypes, OtherTypes,
       EndInv, SessionLoaded, Goto, store, input, turn, signals, answer, Early,
       Streaming, Reading, Reports
  <2>3. ClientInv(r)'
    BY <1>0, <1>9 DEF RequestInv, SignalTypes, AnswerTypes, TurnTypes, OtherTypes,
       EndInv, ClientInv, SessionLoaded, Goto, store, input, turn, signals, answer,
       Early, Streaming, Reading
  <2> QED
    BY <2>1, <2>2, <2>3, Alone
<1>10. ASSUME NEW r \in Request, Retrieved(r) PROVE RequestInv'
  <2>1. taken \subseteq taken' /\ \A q \in Request : q # r => Same(q)
    BY <1>0, <1>10 DEF SignalTypes, AnswerTypes, TurnTypes, OtherTypes, Same, Retrieved,
       Goto, store, input, turn, signals, answer
  <2>2. EndInv(r)'
    BY <1>0, <1>10 DEF RequestInv, SignalTypes, AnswerTypes, TurnTypes, OtherTypes,
       EndInv, Retrieved, Goto, store, input, turn, signals, answer, Early, Streaming,
       Reading, Reports
  <2>3. ClientInv(r)'
    BY <1>0, <1>10 DEF RequestInv, SignalTypes, AnswerTypes, TurnTypes, OtherTypes,
       EndInv, ClientInv, Retrieved, Goto, store, input, turn, signals, answer, Early,
       Streaming, Reading
  <2> QED
    BY <2>1, <2>2, <2>3, Alone
<1>11. ASSUME NEW r \in Request, TextArrives(r) PROVE RequestInv'
  <2>1. taken \subseteq taken' /\ \A q \in Request : q # r => Same(q)
    BY <1>0, <1>11 DEF SignalTypes, AnswerTypes, TurnTypes, OtherTypes, Same,
       TextArrives, Emit, store, input, turn, signals, answer
  <2>2. EndInv(r)'
    BY <1>0, <1>11 DEF RequestInv, SignalTypes, AnswerTypes, TurnTypes, OtherTypes,
       EndInv, TextArrives, Emit, store, input, turn, signals, answer, Early, Streaming,
       Reading, Reports
  <2>3. ClientInv(r)'
    BY <1>0, <1>11 DEF RequestInv, SignalTypes, AnswerTypes, TurnTypes, OtherTypes,
       EndInv, ClientInv, TextArrives, Emit, store, input, turn, signals, answer, Early,
       Streaming, Reading
  <2> QED
    BY <2>1, <2>2, <2>3, Alone
<1>12. ASSUME NEW r \in Request, Generated(r) PROVE RequestInv'
  <2>1. CASE scoped[r]
    <3>1. taken \subseteq taken' /\ \A q \in Request : q # r => Same(q)
      BY <1>0, <2>1, <1>12 DEF SignalTypes, AnswerTypes, TurnTypes, OtherTypes, Same,
         Generated, Goto, Emit, store, input, turn, signals, answer
    <3>2. EndInv(r)'
      BY <1>0, <2>1, <1>12 DEF RequestInv, SignalTypes, AnswerTypes, TurnTypes,
         OtherTypes, EndInv, Generated, Goto, Early, Streaming, Reading
    <3>3. \A k \in DOMAIN events'[r] : events'[r][k] # "done"
      <4>1. <<"cite">> \in Seq(Kind) /\ <<"cite">> # <<>> /\ DOMAIN <<"cite">> = {1} /\ <<"cite">>[1] = "cite"
        BY DEF Kind
      <4>2. events'[r] = events[r] \o <<"cite">> /\ events[r] \in Seq(Kind)
        BY <1>0, <2>1, <1>12 DEF AnswerTypes, Generated, Emit, Cite
      <4>3. \A k \in DOMAIN events[r] : events[r][k] # "done"
        BY <1>12 DEF Generated, RequestInv, ClientInv
      <4> QED
        BY <4>1, <4>2, <4>3, Emitted
    <3>4. ClientInv(r)'
      <4>1. /\ phase'[r] = "saving" /\ client'[r] = client[r] /\ response'[r] = response[r]
            /\ wire'[r] = "sent"
        BY <1>0, <2>1, <1>12 DEF SignalTypes, AnswerTypes, TurnTypes, OtherTypes,
           Generated, Goto
      <4>2. client[r] # "done"
        BY <1>12 DEF Generated, RequestInv, ClientInv
      <4> QED
        BY <3>3, <4>1, <4>2 DEF RequestInv, ClientInv
    <3> QED
      BY <3>1, <3>2, <3>4, Alone
  <2>2. CASE ~scoped[r]
    <3>1. Complete(r, <<"cite">>) /\ wire' = wire /\ ~cancelled[r] /\ phase[r] = "generating"
      BY <2>2, <1>12 DEF Generated, Cite, Cut, Aborted
    <3>2. taken \subseteq taken' /\ \A q \in Request : q # r => Same(q)
      BY <1>0, <3>1, CloseTypes, Completing DEF AnswerTypes, Same, Complete, store, input
    <3>3. EndInv(r)' /\ ClientInv(r)'
      BY <1>0, <2>2, <3>1, CompleteEnds DEF RequestInv, Streaming
    <3> QED
      BY <3>2, <3>3, Alone
  <2> QED
    BY <2>1, <2>2
<1>13. ASSUME NEW r \in Request, GenerationFails(r) PROVE RequestInv'
  <2>0. StreamFails(r) /\ \A q \in Request : q # r => wire'[q] = wire[q]
    BY <1>0, <1>13 DEF GenerationFails, OtherTypes
  <2>1. taken \subseteq taken' /\ \A q \in Request : q # r => Same(q)
    BY <1>0, <2>0, FailsAlone DEF StreamFails, store
  <2>2. EndInv(r)' /\ ClientInv(r)'
    BY <1>0, <1>13, FailEnds DEF RequestInv, OtherTypes, GenerationFails, Streaming
  <2> QED
    BY <2>1, <2>2, Alone
<1>14. ASSUME NEW r \in Request, SaveLands(r) PROVE RequestInv'
  <2>1. taken \subseteq taken' /\ \A q \in Request : q # r => Same(q)
    BY <1>0, <1>14 DEF SignalTypes, AnswerTypes, TurnTypes, OtherTypes, Same, SaveLands,
       RevisionMatches, store, input, turn, signals, answer
  <2>2. EndInv(r)'
    BY <1>0, <1>14 DEF RequestInv, SignalTypes, AnswerTypes, TurnTypes, OtherTypes,
       EndInv, SaveLands, RevisionMatches, store, input, turn, signals, answer, Early,
       Streaming, Reading, Reports
  <2>3. ClientInv(r)'
    BY <1>0, <1>14 DEF RequestInv, SignalTypes, AnswerTypes, TurnTypes, OtherTypes,
       EndInv, ClientInv, SaveLands, RevisionMatches, store, input, turn, signals,
       answer, Early, Streaming, Reading
  <2> QED
    BY <2>1, <2>2, <2>3, Alone
<1>15. ASSUME NEW r \in Request, SaveAnswered(r) PROVE RequestInv'
  <2>1. CASE Complete(r, <<>>) /\ wire[r] = "stored"
    <3>1. wire' = wire /\ ~cancelled[r] /\ phase[r] = "saving"
      BY <1>15 DEF SaveAnswered, Cut, Aborted
    <3>2. taken \subseteq taken' /\ \A q \in Request : q # r => Same(q)
      BY <1>0, <2>1, <3>1, CloseTypes, Completing DEF AnswerTypes, Same, Complete,
         store, input
    <3>3. EndInv(r)' /\ ClientInv(r)'
      BY <1>0, <2>1, <3>1, CompleteEnds DEF RequestInv, ClientInv, Streaming
    <3> QED
      BY <3>2, <3>3, Alone
  <2>2. CASE StreamFails(r)
    <3>1. wire' = wire /\ phase[r] = "saving"
      BY <1>15 DEF SaveAnswered
    <3>2. taken \subseteq taken' /\ \A q \in Request : q # r => Same(q)
      BY <1>0, <2>2, <3>1, FailsAlone DEF StreamFails, store
    <3>3. EndInv(r)' /\ ClientInv(r)'
      BY <1>0, <2>2, <3>1, FailEnds DEF RequestInv, Streaming
    <3> QED
      BY <3>2, <3>3, Alone
  <2> QED
    BY <1>15, <2>1, <2>2 DEF SaveAnswered
<1>16. ASSUME NEW r \in Request, SaveThrows(r) PROVE RequestInv'
  <2>0. StreamFails(r) /\ \A q \in Request : q # r => wire'[q] = wire[q]
    BY <1>0, <1>16 DEF SaveThrows, OtherTypes
  <2>1. taken \subseteq taken' /\ \A q \in Request : q # r => Same(q)
    BY <1>0, <2>0, FailsAlone DEF StreamFails, store
  <2>2. EndInv(r)' /\ ClientInv(r)'
    BY <1>0, <1>16, FailEnds DEF RequestInv, OtherTypes, SaveThrows, Streaming
  <2> QED
    BY <2>1, <2>2, Alone
<1>17. ASSUME NEW r \in Request, StreamCut(r) PROVE RequestInv'
  <2>0. StreamFails(r) /\ \A q \in Request : q # r => wire'[q] = wire[q]
    BY <1>0, <1>17 DEF StreamCut, OtherTypes
  <2>1. taken \subseteq taken' /\ \A q \in Request : q # r => Same(q)
    BY <1>0, <2>0, FailsAlone DEF StreamFails, store
  <2>2. EndInv(r)' /\ ClientInv(r)'
    BY <1>0, <1>17, FailEnds DEF RequestInv, OtherTypes, StreamCut, Streaming
  <2> QED
    BY <2>1, <2>2, Alone
<1>18. ASSUME NEW r \in Request, HeadersArrive(r) PROVE RequestInv'
  <2>1. taken \subseteq taken' /\ \A q \in Request : q # r => Same(q)
    BY <1>0, <1>18 DEF SignalTypes, AnswerTypes, TurnTypes, OtherTypes, Same,
       HeadersArrive, store, input, turn, signals, answer
  <2>2. EndInv(r)'
    BY <1>0, <1>18 DEF RequestInv, SignalTypes, AnswerTypes, TurnTypes, OtherTypes,
       EndInv, HeadersArrive, store, input, turn, signals, answer, Early, Streaming,
       Reading, Reports
  <2>3. ClientInv(r)'
    BY <1>0, <1>18 DEF RequestInv, SignalTypes, AnswerTypes, TurnTypes, OtherTypes,
       EndInv, ClientInv, HeadersArrive, store, input, turn, signals, answer, Early,
       Streaming, Reading
  <2> QED
    BY <2>1, <2>2, <2>3, Alone
<1>19. ASSUME NEW r \in Request, EventArrives(r) PROVE RequestInv'
  <2>1. taken \subseteq taken' /\ \A q \in Request : q # r => Same(q)
    BY <1>0, <1>19 DEF SignalTypes, AnswerTypes, TurnTypes, OtherTypes, Same,
       EventArrives, store, input, turn, signals, answer
  <2>2. EndInv(r)'
    BY <1>0, <1>19 DEF RequestInv, SignalTypes, AnswerTypes, TurnTypes, OtherTypes,
       EndInv, EventArrives, store, input, turn, signals, answer, Early, Streaming,
       Reading, Reports
  <2>3. ClientInv(r)'
    <3>1. /\ client[r] = "reading" /\ events[r] # <<>> /\ events[r] \in Seq(Kind)
          /\ events'[r] = Tail(events[r])
          /\ client'[r] = IF Head(events[r]) \in {"done", "error"} THEN Head(events[r]) ELSE client[r]
          /\ UNCHANGED <<phase, taken, wire, scoped, response, reports>>
      BY <1>0, <1>19 DEF EventArrives, AnswerTypes, OtherTypes, store, input, signals
    <3>2. /\ Head(events[r]) = events[r][1] /\ 1 \in DOMAIN events[r]
          /\ Len(events'[r]) = Len(events[r]) - 1 /\ DOMAIN events'[r] = 1 .. Len(events'[r])
          /\ Len(events[r]) \in Nat \ {0}
          /\ \A k \in DOMAIN events'[r] : k + 1 \in DOMAIN events[r]
                                      /\ events'[r][k] = events[r][k + 1]
      BY <3>1
    <3>3. \A k \in DOMAIN events[r] : events[r][k] = "done" =>
             phase[r] = "closed" /\ reports[r] = <<"ok">> /\ (scoped[r] => r \in taken)
      BY DEF RequestInv, ClientInv
    <3>4. client'[r] = "done" \/ (\E k \in DOMAIN events'[r] : events'[r][k] = "done") =>
             phase[r] = "closed" /\ reports[r] = <<"ok">> /\ (scoped[r] => r \in taken)
      BY <3>1, <3>2, <3>3
    <3>5. ASSUME client'[r] \in Reading, phase[r] = "closed", response[r] = "stream"
          PROVE  events'[r] # <<>> /\ events'[r][Len(events'[r])] \in {"done", "error"}
      <4>1. Head(events[r]) \notin {"done", "error"}
        BY <3>1, <3>5 DEF Reading
      <4>2. events[r][Len(events[r])] \in {"done", "error"}
        BY <3>1, <3>5 DEF RequestInv, ClientInv, Reading
      <4>3. Len(events[r]) # 1
        BY <3>2, <4>1, <4>2
      <4>4. Len(events[r]) - 1 \in Nat \ {0} /\ (Len(events[r]) - 1) + 1 = Len(events[r])
        BY <3>2, <4>3
      <4>5. Len(events'[r]) \in DOMAIN events'[r] /\ Len(events'[r]) + 1 = Len(events[r])
        <5>1. Len(events'[r]) = Len(events[r]) - 1 /\ DOMAIN events'[r] = 1 .. Len(events'[r])
          BY <3>2
        <5>2. Len(events'[r]) \in Nat \ {0} /\ Len(events'[r]) + 1 = Len(events[r])
          BY <4>4, <5>1
        <5>3. Len(events'[r]) \in 1 .. Len(events'[r])
          BY <5>2
        <5> QED
          BY <5>1, <5>2, <5>3, Zenon
      <4>6. events'[r] # <<>>
        BY <4>5
      <4> QED
        BY <3>2, <4>2, <4>5, <4>6
    <3>6. client'[r] = "reading" => client[r] = "reading"
      BY <3>1
    <3>7. phase[r] # "idle"
      BY <3>1 DEF RequestInv, ClientInv
    <3> QED
      BY <3>1, <3>4, <3>5, <3>6, <3>7 DEF RequestInv, ClientInv
  <2> QED
    BY <2>1, <2>2, <2>3, Alone
<1>20. ASSUME NEW r \in Request, StreamEnds(r) PROVE RequestInv'
  <2>1. taken \subseteq taken' /\ \A q \in Request : q # r => Same(q)
    BY <1>0, <1>20 DEF SignalTypes, AnswerTypes, TurnTypes, OtherTypes, Same,
       StreamEnds, store, input, turn, signals, answer
  <2>2. EndInv(r)'
    BY <1>0, <1>20 DEF RequestInv, SignalTypes, AnswerTypes, TurnTypes, OtherTypes,
       EndInv, StreamEnds, store, input, turn, signals, answer, Early, Streaming,
       Reading, Reports
  <2>3. ClientInv(r)'
    BY <1>0, <1>20 DEF RequestInv, SignalTypes, AnswerTypes, TurnTypes, OtherTypes,
       EndInv, ClientInv, StreamEnds, store, input, turn, signals, answer, Early,
       Streaming, Reading
  <2> QED
    BY <2>1, <2>2, <2>3, Alone
<1>21. ASSUME NEW r \in Request, Leave(r) PROVE RequestInv'
  <2>1. taken \subseteq taken' /\ \A q \in Request : q # r => Same(q)
    BY <1>0, <1>21 DEF SignalTypes, AnswerTypes, TurnTypes, OtherTypes, Same, Leave,
       store, input, turn, signals, answer
  <2>2. EndInv(r)'
    BY <1>0, <1>21 DEF RequestInv, SignalTypes, AnswerTypes, TurnTypes, OtherTypes,
       EndInv, Leave, store, input, turn, signals, answer, Early, Streaming, Reading,
       Reports
  <2>3. ClientInv(r)'
    BY <1>0, <1>21 DEF RequestInv, SignalTypes, AnswerTypes, TurnTypes, OtherTypes,
       EndInv, ClientInv, Leave, store, input, turn, signals, answer, Early, Streaming,
       Reading
  <2> QED
    BY <2>1, <2>2, <2>3, Alone
<1>22. ASSUME NEW r \in Request, RequestAborted(r) PROVE RequestInv'
  <2>1. taken \subseteq taken' /\ \A q \in Request : q # r => Same(q)
    BY <1>0, <1>22 DEF SignalTypes, AnswerTypes, TurnTypes, OtherTypes, Same,
       RequestAborted, store, input, turn, signals, answer
  <2>2. EndInv(r)'
    BY <1>0, <1>22 DEF RequestInv, SignalTypes, AnswerTypes, TurnTypes, OtherTypes,
       EndInv, RequestAborted, store, input, turn, signals, answer, Early, Streaming,
       Reading, Reports
  <2>3. ClientInv(r)'
    BY <1>0, <1>22 DEF RequestInv, SignalTypes, AnswerTypes, TurnTypes, OtherTypes,
       EndInv, ClientInv, RequestAborted, store, input, turn, signals, answer, Early,
       Streaming, Reading
  <2> QED
    BY <2>1, <2>2, <2>3, Alone
<1>23. ASSUME NEW r \in Request, ResponseCancelled(r) PROVE RequestInv'
  <2>1. taken \subseteq taken' /\ \A q \in Request : q # r => Same(q)
    BY <1>0, <1>23 DEF SignalTypes, AnswerTypes, TurnTypes, OtherTypes, Same,
       ResponseCancelled, store, input, turn, signals, answer
  <2>2. EndInv(r)'
    <3>1. reports'[r] = RecordError(r, "cancelled") /\ reports[r] \in Reports /\ client'[r] = "left"
      BY <1>0, <1>23 DEF AnswerTypes, ResponseCancelled, RequestInv, EndInv
    <3>2. /\ reports[r] = <<>> => reports'[r] = <<"cancelled">>
          /\ reports[r] = <<"ok">> => reports'[r] = <<"ok", "cancelled">>
          /\ reports[r] \notin {<<>>, <<"ok">>} => reports'[r] = reports[r]
      <4>1. RecordError(r, "cancelled") = CASE reports[r] = <<>> -> <<"cancelled">>
                                            [] reports[r] = <<"ok">> -> <<"ok", "cancelled">>
                                            [] OTHER -> reports[r]
        BY <3>1, RecordedError
      <4>2. <<>> # <<"ok">>
        OBVIOUS
      <4> QED
        BY <3>1, <4>1, <4>2
    <3>3. reports'[r] \in Reports /\ reports'[r] # <<>>
      BY <3>1, <3>2 DEF Reports
    <3>4. phase[r] \in Streaming => reports'[r] = <<"cancelled">> /\ cancelled'[r]
      <4>1. ASSUME phase[r] \in Streaming PROVE reports[r] \in {<<>>, <<"cancelled">>} /\ cancelled'[r]
        BY <1>0, <4>1, <1>23 DEF RequestInv, EndInv, ResponseCancelled, SignalTypes,
           Streaming
      <4>2. <<"cancelled">> # <<>> /\ <<"cancelled">> # <<"ok">>
        OBVIOUS
      <4> QED
        BY <3>2, <4>1, <4>2
    <3>5. phase'[r] = phase[r] /\ phase[r] \in Streaming \union {"closed"} /\ response'[r] = response[r]
      BY <1>23 DEF ResponseCancelled
    <3>6. phase[r] \notin Early \union {"idle"}
      BY <3>5 DEF Early, Streaming
    <3> QED
      BY <3>1, <3>3, <3>4, <3>5, <3>6 DEF EndInv, RequestInv
  <2>3. ClientInv(r)'
    BY <1>0, <1>23 DEF RequestInv, SignalTypes, AnswerTypes, TurnTypes, OtherTypes,
       EndInv, ClientInv, ResponseCancelled, store, input, turn, signals, answer, Early,
       Streaming, Reading
  <2> QED
    BY <2>1, <2>2, <2>3, Alone
<1>24. ASSUME NEW r \in Request, Crash(r) PROVE RequestInv'
  <2>1. taken \subseteq taken' /\ \A q \in Request : q # r => Same(q)
    BY <1>0, <1>24 DEF SignalTypes, AnswerTypes, TurnTypes, OtherTypes, Same, Crash,
       store, input, turn, signals, answer
  <2>2. EndInv(r)'
    BY <1>0, <1>24 DEF RequestInv, SignalTypes, AnswerTypes, TurnTypes, OtherTypes,
       EndInv, Crash, store, input, turn, signals, answer, Early, Streaming, Reading,
       Reports
  <2>3. ClientInv(r)'
    BY <1>0, <1>24 DEF RequestInv, SignalTypes, AnswerTypes, TurnTypes, OtherTypes,
       EndInv, ClientInv, Crash, store, input, turn, signals, answer, Early, Streaming,
       Reading
  <2> QED
    BY <2>1, <2>2, <2>3, Alone
<1>25. ASSUME NEW r \in Request, ConnectionBreaks(r) PROVE RequestInv'
  <2>1. taken \subseteq taken' /\ \A q \in Request : q # r => Same(q)
    BY <1>0, <1>25 DEF SignalTypes, AnswerTypes, TurnTypes, OtherTypes, Same,
       ConnectionBreaks, store, input, turn, signals, answer
  <2>2. EndInv(r)'
    BY <1>0, <1>25 DEF RequestInv, SignalTypes, AnswerTypes, TurnTypes, OtherTypes,
       EndInv, ConnectionBreaks, store, input, turn, signals, answer, Early, Streaming,
       Reading, Reports
  <2>3. ClientInv(r)'
    <3>1. /\ client'[r] = "error" /\ phase[r] = "crashed"
          /\ UNCHANGED <<phase, taken, wire, scoped, response, reports, events>>
      BY <1>0, <1>25 DEF ConnectionBreaks, OtherTypes, store, input, answer
    <3> QED
      BY <3>1 DEF RequestInv, ClientInv, Reading
  <2> QED
    BY <2>1, <2>2, <2>3, Alone
<1>26. CASE UNCHANGED vars
  <2>1. taken \subseteq taken' /\ \A q \in Request : Same(q)
    BY <1>26 DEF vars, Same, store, input, turn, signals, answer
  <2> QED
    BY <2>1, Untouched DEF RequestInv
<1> QED
  BY <1>1, <1>2, <1>3, <1>4, <1>5, <1>6, <1>7, <1>8, <1>9, <1>10, <1>11, <1>12,
     <1>13, <1>14, <1>15, <1>16, <1>17, <1>18, <1>19, <1>20, <1>21, <1>22, <1>23,
     <1>24, <1>25, <1>26
  DEF Next, Expire, Prepare, Answer, Read

-----------------------------------------------------------------------------
(* The transcript *)

\* Merging a question into a transcript that ends with an answer puts it after it.
LEMMA MergedAfterAnswer ==
  ASSUME NEW s \in Seq(Message), NEW q \in Question,
         s # <<>> => s[Len(s)].role = "assistant"
  PROVE  Merged(s, q) = Bounded(Append(s, User(q)))
<1>1. s # <<>> => Last(s) # User(q)
  BY DEF Last, User
<1> QED
  BY <1>1 DEF Merged

\* A save of the answer to what is stored extends it by the question and the answer.
LEMMA SaveExtends ==
  ASSUME TypeOK, SessionInv, NEW r \in Request, SaveLands(r), RevisionMatches(r)
  PROVE  storedMessages' = Bounded(storedMessages \o <<User(asked[r]), Assistant(r)>>)
<1>0. TurnTypes
  BY TypeParts
<1>1. asked[r] \in Question /\ wire[r] = "sent"
  BY DEF SaveLands, SessionInv
<1>2. messages[r] = Merged(storedMessages, asked[r])
  BY <1>1 DEF SessionInv, Answering, RevisionMatches
<1>3. messages[r] = Bounded(Append(storedMessages, User(asked[r])))
  BY <1>0, <1>1, <1>2, MergedAfterAnswer DEF SessionInv, TurnTypes
<1>4. storedMessages' = Bounded(Append(messages[r], Assistant(r)))
  BY DEF SaveLands
<1>5. User(asked[r]) \in Message /\ Assistant(r) \in Message /\ storedMessages \in Seq(Message)
  BY <1>0, <1>1 DEF User, Assistant, Message, TurnTypes
<1> QED
  BY <1>3, <1>4, <1>5, BoundedTwice

\* An answer in the window is its last message.
LEMMA AnswerIsLast ==
  ASSUME NEW s \in Seq(Message), NEW r \in Request
  PROVE  /\ Bounded(Append(s, Assistant(r))) # <<>>
         /\ Bounded(Append(s, Assistant(r)))[Len(Bounded(Append(s, Assistant(r))))] = Assistant(r)
<1> DEFINE all == Append(s, Assistant(r))
<1>1. /\ all \in Seq(Message) /\ Len(all) = Len(s) + 1 /\ Len(s) \in Nat
      /\ all[Len(s) + 1] = Assistant(r)
  <2>1. Assistant(r) \in Message
    BY DEF Assistant, Message
  <2> QED
    BY <2>1, Appended
<1> HIDE DEF all
<1>2. /\ Bounded(all) \in Seq(Message)
      /\ Len(Bounded(all)) = IF Len(all) > Window THEN Window ELSE Len(all)
      /\ \A i \in 1 .. Len(Bounded(all)) : Bounded(all)[i] = all[i + Len(all) - Len(Bounded(all))]
  BY <1>1, BoundedIsEnd
<1>3. Len(Bounded(all)) \in Nat \ {0} /\ Len(all) \in Nat
  BY <1>1, <1>2, AskBoundAssumption
<1>4. Bounded(all)[Len(Bounded(all))] = all[Len(all)]
  <2>1. /\ Len(Bounded(all)) \in 1 .. Len(Bounded(all))
        /\ Len(Bounded(all)) + Len(all) - Len(Bounded(all)) = Len(all)
    BY <1>3
  <2> QED
    BY <1>2, <2>1
<1>5. Bounded(all) # <<>>
  BY <1>3
<1> QED
  BY <1>1, <1>4, <1>5 DEF all

\* What requests answer stays the stored transcript, as long as the store would take it.
LEMMA SessionStep ==
  ASSUME TypeOK, SessionInv, [Next]_vars
  PROVE  SessionInv'
<1>0. TypeOK /\ SignalTypes /\ AnswerTypes /\ TurnTypes /\ OtherTypes
  BY TypeParts
<1>1. ASSUME NEW r \in Request, BootstrapExpires(r) PROVE SessionInv'
  BY <1>0, <1>1 DEF SessionInv, Answering, SignalTypes, AnswerTypes, TurnTypes,
     OtherTypes, BootstrapExpires, store, input, turn, signals, answer, Early,
     Streaming, Reading
<1>2. ASSUME NEW r \in Request, RequestExpires(r) PROVE SessionInv'
  BY <1>0, <1>2 DEF SessionInv, Answering, SignalTypes, AnswerTypes, TurnTypes,
     OtherTypes, RequestExpires, store, input, turn, signals, answer, Early, Streaming,
     Reading
<1>3. ASSUME NEW r \in Request, WaitExpires(r) PROVE SessionInv'
  BY <1>0, <1>3 DEF SessionInv, Answering, SignalTypes, AnswerTypes, TurnTypes,
     OtherTypes, WaitExpires, store, input, turn, signals, answer, Early, Streaming,
     Reading
<1>4. ASSUME NEW r \in Request, Ask(r) PROVE SessionInv'
  BY <1>0, <1>4 DEF SessionInv, Answering, SignalTypes, AnswerTypes, TurnTypes,
     OtherTypes, Ask, store, input, turn, signals, answer, Early, Streaming, Reading
<1>5. ASSUME NEW r \in Request, Reject(r) PROVE SessionInv'
  <2>1. /\ phase'[r] = "closed" /\ \A q \in Request : q # r => phase'[q] = phase[q]
        /\ UNCHANGED <<storedRevision, storedMessages, asked, scoped, loaded, messages, wire>>
    BY <1>5, CloseTypes DEF Reject, Refuse, store, input, turn
  <2>2. phase[r] \in Early
    BY <1>5 DEF Reject
  <2> QED
    BY <2>1, <2>2 DEF SessionInv, Answering, Early
<1>6. ASSUME NEW r \in Request, CutShort(r) PROVE SessionInv'
  <2>1. /\ phase'[r] = "closed" /\ \A q \in Request : q # r => phase'[q] = phase[q]
        /\ UNCHANGED <<storedRevision, storedMessages, asked, scoped, loaded, messages, wire>>
    BY <1>6, CloseTypes DEF CutShort, Refuse, store, input, turn
  <2>2. phase[r] \in Early
    BY <1>6 DEF CutShort
  <2> QED
    BY <2>1, <2>2 DEF SessionInv, Answering, Early
<1>7. ASSUME NEW r \in Request, SiteResolved(r) PROVE SessionInv'
  BY <1>0, <1>7 DEF SessionInv, Answering, SignalTypes, AnswerTypes, TurnTypes,
     OtherTypes, SiteResolved, Goto, store, input, turn, signals, answer, Early,
     Streaming, Reading
<1>8. ASSUME NEW r \in Request, Admitted(r) PROVE SessionInv'
  <2>1. /\ phase[r] = "limiting"
        /\ phase'[r] = "loading" \/ (phase'[r] = "retrieving" /\ ~scoped[r])
        /\ \A q \in Request : q # r => phase'[q] = phase[q] /\ messages'[q] = messages[q]
        /\ UNCHANGED <<storedRevision, storedMessages, asked, scoped, loaded, wire>>
    <3>1. CASE scoped[r] /\ Goto(r, "loading") /\ UNCHANGED messages
      BY <1>0, <3>1, <1>8 DEF Admitted, Goto, SignalTypes, store, input
    <3>2. CASE /\ ~scoped[r] /\ Goto(r, "retrieving")
               /\ messages' = [messages EXCEPT ![r] = <<User(asked[r])>>]
      <4>1. \A q \in Request : q # r => messages'[q] = messages[q]
        BY <1>0, <3>2 DEF TurnTypes
      <4>2. phase'[r] = "retrieving" /\ \A q \in Request : q # r => phase'[q] = phase[q]
        BY <1>0, <3>2 DEF Goto, SignalTypes
      <4> QED
        BY <3>2, <4>1, <4>2, <1>8 DEF Admitted, store, input
    <3> QED
      BY <3>1, <3>2, <1>8 DEF Admitted
  <2> QED
    BY <2>1 DEF SessionInv, Answering
<1>9. ASSUME NEW r \in Request, SessionLoaded(r) PROVE SessionInv'
  <2>1. /\ phase[r] = "loading" /\ phase'[r] = "retrieving" /\ loaded'[r] = storedRevision
        /\ messages'[r] = Merged(storedMessages, asked[r])
        /\ \A q \in Request : q # r => /\ phase'[q] = phase[q] /\ loaded'[q] = loaded[q]
                                       /\ messages'[q] = messages[q]
        /\ UNCHANGED <<storedRevision, storedMessages, asked, scoped, wire>>
    BY <1>0, <1>9 DEF SessionLoaded, Goto, SignalTypes, TurnTypes, store, input
  <2>2. storedRevision \in Nat
    BY <1>0 DEF TurnTypes
  <2> QED
    BY <2>1, <2>2 DEF SessionInv, Answering
<1>10. ASSUME NEW r \in Request, Retrieved(r) PROVE SessionInv'
  BY <1>0, <1>10 DEF SessionInv, Answering, SignalTypes, AnswerTypes, TurnTypes,
     OtherTypes, Retrieved, Goto, store, input, turn, signals, answer, Early, Streaming,
     Reading
<1>11. ASSUME NEW r \in Request, TextArrives(r) PROVE SessionInv'
  BY <1>0, <1>11 DEF SessionInv, Answering, SignalTypes, AnswerTypes, TurnTypes,
     OtherTypes, TextArrives, Emit, store, input, turn, signals, answer, Early,
     Streaming, Reading
<1>12. ASSUME NEW r \in Request, Generated(r) PROVE SessionInv'
  <2>1. /\ phase'[r] \in {"saving", "closed"} /\ \A q \in Request : q # r => phase'[q] = phase[q]
        /\ UNCHANGED <<storedRevision, storedMessages, asked, scoped, loaded, messages>>
        /\ phase[r] = "generating"
        /\ \A q \in Request : wire'[q] = wire[q] \/ (q = r /\ wire'[q] = "sent" /\ scoped[r])
        /\ phase'[r] = "saving" => scoped[r]
    <3>1. CASE scoped[r]
      BY <1>0, <3>1, <1>12 DEF Generated, Goto, SignalTypes, OtherTypes, store, input, turn
    <3>2. CASE ~scoped[r]
      <4>1. Complete(r, Cite) /\ UNCHANGED wire /\ phase[r] = "generating"
        BY <3>2, <1>12 DEF Generated
      <4> QED
        BY <1>0, <4>1, CloseTypes DEF Complete, store, input, turn
    <3> QED
      BY <3>1, <3>2
  <2> QED
    BY <2>1 DEF SessionInv, Answering
<1>13. ASSUME NEW r \in Request, GenerationFails(r) PROVE SessionInv'
  <2>1. StreamFails(r) /\ phase'[r] = "closed" /\ \A q \in Request : q # r => phase'[q] = phase[q]
    BY <1>13, CloseTypes DEF GenerationFails, StreamFails
  <2>2. UNCHANGED <<storedRevision, storedMessages, asked, scoped, loaded, messages>>
    BY <2>1, Failing DEF store, input, turn
  <2>3. phase[r] \in Streaming /\ \A q \in Request : wire'[q] \in {wire[q], "none"}
    BY <1>0, <1>13 DEF GenerationFails, OtherTypes, Streaming
  <2> QED
    BY <2>1, <2>2, <2>3 DEF SessionInv, Answering, Streaming
<1>14. ASSUME NEW r \in Request, SaveLands(r) PROVE SessionInv'
  <2>1. CASE RevisionMatches(r)
    <3>1. /\ storedRevision' = storedRevision + 1 /\ storedRevision \in Nat
          /\ \A q \in Request : loaded[q] \in Nat
          /\ UNCHANGED <<phase, asked, scoped, loaded, messages>>
          /\ \A q \in Request : wire'[q] = wire[q] \/ (q = r /\ wire'[q] = "stored")
          /\ wire[r] = "sent" /\ messages[r] \in Seq(Message)
          /\ storedMessages' = Bounded(Append(messages[r], Assistant(r)))
      <4>1. /\ storedRevision' = storedRevision + 1 /\ UNCHANGED <<phase, input, turn>>
            /\ wire[r] = "sent" /\ wire' = [wire EXCEPT ![r] = "stored"]
            /\ storedMessages' = Bounded(Append(messages[r], Assistant(r)))
        BY <1>14, <2>1 DEF SaveLands, RevisionMatches
      <4>2. /\ storedRevision \in Nat /\ messages[r] \in Seq(Message)
            /\ \A q \in Request : loaded[q] \in Nat
        BY <1>0 DEF TurnTypes
      <4> QED
        BY <1>0, <4>1, <4>2 DEF OtherTypes, input, turn
    <3>2. storedMessages' # <<>> => storedMessages'[Len(storedMessages')].role = "assistant"
      <4>1. Assistant(r).role = "assistant"
        BY DEF Assistant
      <4> QED
        BY <3>1, <4>1, AnswerIsLast
    <3>3. \A q \in Request : loaded'[q] <= storedRevision' /\ loaded'[q] # storedRevision'
      BY <3>1 DEF SessionInv
    <3> QED
      BY <3>1, <3>2, <3>3 DEF SessionInv
  <2>2. CASE ~RevisionMatches(r)
    BY <1>0, <1>14, <2>2 DEF SaveLands, SessionInv, Answering, OtherTypes, store, input,
       turn
  <2> QED
    BY <2>1, <2>2
<1>15. ASSUME NEW r \in Request, SaveAnswered(r) PROVE SessionInv'
  <2>1. /\ phase'[r] = "closed" /\ \A q \in Request : q # r => phase'[q] = phase[q]
        /\ UNCHANGED <<storedRevision, storedMessages, asked, scoped, loaded, messages, wire>>
        /\ phase[r] = "saving"
    BY <1>15, CloseTypes DEF SaveAnswered, Complete, StreamFails, store, input, turn
  <2> QED
    BY <2>1 DEF SessionInv, Answering
<1>16. ASSUME NEW r \in Request, SaveThrows(r) PROVE SessionInv'
  <2>1. StreamFails(r) /\ phase'[r] = "closed" /\ \A q \in Request : q # r => phase'[q] = phase[q]
    BY <1>16, CloseTypes DEF SaveThrows, StreamFails
  <2>2. UNCHANGED <<storedRevision, storedMessages, asked, scoped, loaded, messages>>
    BY <2>1, Failing DEF store, input, turn
  <2>3. phase[r] \in Streaming /\ \A q \in Request : wire'[q] \in {wire[q], "none"}
    BY <1>0, <1>16 DEF SaveThrows, OtherTypes, Streaming
  <2> QED
    BY <2>1, <2>2, <2>3 DEF SessionInv, Answering, Streaming
<1>17. ASSUME NEW r \in Request, StreamCut(r) PROVE SessionInv'
  <2>1. StreamFails(r) /\ phase'[r] = "closed" /\ \A q \in Request : q # r => phase'[q] = phase[q]
    BY <1>17, CloseTypes DEF StreamCut, StreamFails
  <2>2. UNCHANGED <<storedRevision, storedMessages, asked, scoped, loaded, messages>>
    BY <2>1, Failing DEF store, input, turn
  <2>3. phase[r] \in Streaming /\ \A q \in Request : wire'[q] \in {wire[q], "none"}
    BY <1>0, <1>17 DEF StreamCut, OtherTypes, Streaming
  <2> QED
    BY <2>1, <2>2, <2>3 DEF SessionInv, Answering, Streaming
<1>18. ASSUME NEW r \in Request, HeadersArrive(r) PROVE SessionInv'
  BY <1>0, <1>18 DEF SessionInv, Answering, SignalTypes, AnswerTypes, TurnTypes,
     OtherTypes, HeadersArrive, store, input, turn, signals, answer, Early, Streaming,
     Reading
<1>19. ASSUME NEW r \in Request, EventArrives(r) PROVE SessionInv'
  BY <1>0, <1>19 DEF SessionInv, Answering, SignalTypes, AnswerTypes, TurnTypes,
     OtherTypes, EventArrives, store, input, turn, signals, answer, Early, Streaming,
     Reading
<1>20. ASSUME NEW r \in Request, StreamEnds(r) PROVE SessionInv'
  BY <1>0, <1>20 DEF SessionInv, Answering, SignalTypes, AnswerTypes, TurnTypes,
     OtherTypes, StreamEnds, store, input, turn, signals, answer, Early, Streaming,
     Reading
<1>21. ASSUME NEW r \in Request, Leave(r) PROVE SessionInv'
  BY <1>0, <1>21 DEF SessionInv, Answering, SignalTypes, AnswerTypes, TurnTypes,
     OtherTypes, Leave, store, input, turn, signals, answer, Early, Streaming, Reading
<1>22. ASSUME NEW r \in Request, RequestAborted(r) PROVE SessionInv'
  BY <1>0, <1>22 DEF SessionInv, Answering, SignalTypes, AnswerTypes, TurnTypes,
     OtherTypes, RequestAborted, store, input, turn, signals, answer, Early, Streaming,
     Reading
<1>23. ASSUME NEW r \in Request, ResponseCancelled(r) PROVE SessionInv'
  BY <1>0, <1>23 DEF SessionInv, Answering, SignalTypes, AnswerTypes, TurnTypes,
     OtherTypes, ResponseCancelled, store, input, turn, signals, answer, Early,
     Streaming, Reading
<1>24. ASSUME NEW r \in Request, Crash(r) PROVE SessionInv'
  BY <1>0, <1>24 DEF SessionInv, Answering, SignalTypes, AnswerTypes, TurnTypes,
     OtherTypes, Crash, store, input, turn, signals, answer, Early, Streaming, Reading
<1>25. ASSUME NEW r \in Request, ConnectionBreaks(r) PROVE SessionInv'
  BY <1>0, <1>25 DEF SessionInv, Answering, SignalTypes, AnswerTypes, TurnTypes,
     OtherTypes, ConnectionBreaks, store, input, turn, signals, answer, Early,
     Streaming, Reading
<1>26. CASE UNCHANGED vars
  BY <1>26 DEF vars, SessionInv, Answering, store, input, turn, signals, answer
<1> QED
  BY <1>1, <1>2, <1>3, <1>4, <1>5, <1>6, <1>7, <1>8, <1>9, <1>10, <1>11, <1>12,
     <1>13, <1>14, <1>15, <1>16, <1>17, <1>18, <1>19, <1>20, <1>21, <1>22, <1>23,
     <1>24, <1>25, <1>26
  DEF Next, Expire, Prepare, Answer, Read

-----------------------------------------------------------------------------
(* The promise of a session *)

\* A request is open or left until it is answered, saves once, and only after its
\* response has started.
KeptInv ==
    \A r \in Request :
        /\ phase[r] \in Early => client[r] \in {"waiting", "left"}
        /\ client[r] = "idle" => phase[r] = "idle"
        /\ r \in taken => wire[r] # "sent"
        /\ r \in taken \/ wire[r] # "none" =>
              response[r] = "stream" /\ phase[r] \in {"saving", "closed", "crashed"}

\* A request is over that was refused or failed.
LEMMA FailureCloses ==
  ASSUME TypeOK, NEW r \in Request,
         \/ Reject(r) \/ CutShort(r) \/ GenerationFails(r) \/ SaveAnswered(r)
         \/ SaveThrows(r) \/ StreamCut(r)
  PROVE  /\ phase'[r] = "closed" /\ \A q \in Request : q # r => phase'[q] = phase[q]
         /\ UNCHANGED <<store, input, client>>
         /\ \A q \in Request : wire'[q] \in {wire[q], "none"}
         /\ \A q \in Request : response'[q] # response[q] => q = r /\ phase[r] \in Early
<1>1. CASE Reject(r) \/ CutShort(r)
  <2>1. PICK o \in Outcome \ {"ok"} : Refuse(r, "rejected", o) \/ Refuse(r, "timeout", o)
    BY <1>1 DEF Reject, CutShort, Outcome
  <2>2. phase'[r] = "closed" /\ \A q \in Request : q # r => phase'[q] = phase[q]
    BY <2>1, CloseTypes DEF Refuse
  <2>3. /\ UNCHANGED <<store, input, wire, client>> /\ phase[r] \in Early
        /\ \A q \in Request : q # r => response'[q] = response[q]
    BY <1>1, <2>1, Refusing DEF Reject, CutShort
  <2> QED
    BY <2>2, <2>3
<1>2. CASE GenerationFails(r) \/ SaveAnswered(r) \/ SaveThrows(r) \/ StreamCut(r)
  <2>1. StreamFails(r) \/ Complete(r, <<>>)
    BY <1>2 DEF GenerationFails, SaveAnswered, SaveThrows, StreamCut
  <2>2. phase'[r] = "closed" /\ \A q \in Request : q # r => phase'[q] = phase[q]
    BY <2>1, CloseTypes DEF StreamFails, Complete
  <2>3. UNCHANGED <<store, input, response, client>>
    BY <2>1 DEF StreamFails, Complete
  <2>4. \A q \in Request : wire'[q] \in {wire[q], "none"}
    BY <1>2, TypeParts DEF OtherTypes, GenerationFails, SaveAnswered, SaveThrows, StreamCut
  <2> QED
    BY <2>2, <2>3, <2>4
<1> QED
  BY <1>1, <1>2

\* A request saves once.
LEMMA KeptStep ==
  ASSUME TypeOK, RequestInv, KeptInv, [Next]_vars
  PROVE  KeptInv'
<1>0. SignalTypes /\ AnswerTypes /\ TurnTypes /\ OtherTypes
  BY TypeParts
<1>1. ASSUME NEW r \in Request, BootstrapExpires(r) PROVE KeptInv'
  BY <1>0, <1>1 DEF KeptInv, RequestInv, EndInv, ClientInv, SignalTypes, AnswerTypes,
     TurnTypes, OtherTypes, BootstrapExpires, store, input, signals, answer, Early,
     Streaming, Reading
<1>2. ASSUME NEW r \in Request, RequestExpires(r) PROVE KeptInv'
  BY <1>0, <1>2 DEF KeptInv, RequestInv, EndInv, ClientInv, SignalTypes, AnswerTypes,
     TurnTypes, OtherTypes, RequestExpires, store, input, signals, answer, Early,
     Streaming, Reading
<1>3. ASSUME NEW r \in Request, WaitExpires(r) PROVE KeptInv'
  BY <1>0, <1>3 DEF KeptInv, RequestInv, EndInv, ClientInv, SignalTypes, AnswerTypes,
     TurnTypes, OtherTypes, WaitExpires, store, input, signals, answer, Early,
     Streaming, Reading
<1>4. ASSUME NEW r \in Request, Ask(r) PROVE KeptInv'
  BY <1>0, <1>4 DEF KeptInv, RequestInv, EndInv, ClientInv, SignalTypes, AnswerTypes,
     TurnTypes, OtherTypes, Ask, store, input, signals, answer, Early, Streaming,
     Reading
<1>5. ASSUME NEW r \in Request, Reject(r) PROVE KeptInv'
  <2>1. phase[r] \in Early \union Streaming
    BY <1>5 DEF Reject
  <2>2. /\ phase'[r] = "closed" /\ \A q \in Request : q # r => phase'[q] = phase[q]
        /\ UNCHANGED <<taken, client>>
        /\ \A q \in Request : wire'[q] \in {wire[q], "none"}
        /\ \A q \in Request : response'[q] # response[q] => q = r /\ phase[r] \in Early
    BY <1>5, FailureCloses DEF store
  <2> QED
    BY <2>1, <2>2 DEF KeptInv, RequestInv, ClientInv, Early, Streaming
<1>6. ASSUME NEW r \in Request, CutShort(r) PROVE KeptInv'
  <2>1. phase[r] \in Early \union Streaming
    BY <1>6 DEF CutShort
  <2>2. /\ phase'[r] = "closed" /\ \A q \in Request : q # r => phase'[q] = phase[q]
        /\ UNCHANGED <<taken, client>>
        /\ \A q \in Request : wire'[q] \in {wire[q], "none"}
        /\ \A q \in Request : response'[q] # response[q] => q = r /\ phase[r] \in Early
    BY <1>6, FailureCloses DEF store
  <2> QED
    BY <2>1, <2>2 DEF KeptInv, RequestInv, ClientInv, Early, Streaming
<1>7. ASSUME NEW r \in Request, SiteResolved(r) PROVE KeptInv'
  BY <1>0, <1>7 DEF KeptInv, RequestInv, EndInv, ClientInv, SignalTypes, AnswerTypes,
     TurnTypes, OtherTypes, SiteResolved, Goto, store, input, signals, answer, Early,
     Streaming, Reading
<1>8. ASSUME NEW r \in Request, Admitted(r) PROVE KeptInv'
  BY <1>0, <1>8 DEF KeptInv, RequestInv, EndInv, ClientInv, SignalTypes, AnswerTypes,
     TurnTypes, OtherTypes, Admitted, Goto, store, input, signals, answer, Early,
     Streaming, Reading
<1>9. ASSUME NEW r \in Request, SessionLoaded(r) PROVE KeptInv'
  BY <1>0, <1>9 DEF KeptInv, RequestInv, EndInv, ClientInv, SignalTypes, AnswerTypes,
     TurnTypes, OtherTypes, SessionLoaded, Goto, store, input, signals, answer, Early,
     Streaming, Reading
<1>10. ASSUME NEW r \in Request, Retrieved(r) PROVE KeptInv'
  BY <1>0, <1>10 DEF KeptInv, RequestInv, EndInv, ClientInv, SignalTypes, AnswerTypes,
     TurnTypes, OtherTypes, Retrieved, Goto, store, input, signals, answer, Early,
     Streaming, Reading
<1>11. ASSUME NEW r \in Request, TextArrives(r) PROVE KeptInv'
  BY <1>0, <1>11 DEF KeptInv, RequestInv, EndInv, ClientInv, SignalTypes, AnswerTypes,
     TurnTypes, OtherTypes, TextArrives, Emit, store, input, signals, answer, Early,
     Streaming, Reading
<1>12. ASSUME NEW r \in Request, Generated(r) PROVE KeptInv'
  <2>1. CASE scoped[r]
    BY <1>0, <2>1, <1>12 DEF KeptInv, RequestInv, EndInv, Generated, Goto, SignalTypes,
       OtherTypes, store, Early, Streaming
  <2>2. CASE ~scoped[r]
    <3>1. /\ phase'[r] = "closed" /\ \A q \in Request : q # r => phase'[q] = phase[q]
          /\ UNCHANGED <<taken, client, wire, response>> /\ phase[r] = "generating"
      BY <2>2, <1>12, CloseTypes DEF Generated, Complete, store
    <3> QED
      BY <3>1 DEF KeptInv, Early
  <2> QED
    BY <2>1, <2>2
<1>13. ASSUME NEW r \in Request, GenerationFails(r) PROVE KeptInv'
  <2>1. phase[r] \in Early \union Streaming
    BY <1>13 DEF GenerationFails, Streaming
  <2>2. /\ phase'[r] = "closed" /\ \A q \in Request : q # r => phase'[q] = phase[q]
        /\ UNCHANGED <<taken, client>>
        /\ \A q \in Request : wire'[q] \in {wire[q], "none"}
        /\ \A q \in Request : response'[q] # response[q] => q = r /\ phase[r] \in Early
    BY <1>13, FailureCloses DEF store
  <2> QED
    BY <2>1, <2>2 DEF KeptInv, RequestInv, ClientInv, Early, Streaming
<1>14. ASSUME NEW r \in Request, SaveLands(r) PROVE KeptInv'
  BY <1>0, <1>14 DEF KeptInv, RequestInv, EndInv, ClientInv, SignalTypes, AnswerTypes,
     TurnTypes, OtherTypes, SaveLands, RevisionMatches, store, input, signals, answer,
     Early, Streaming, Reading
<1>15. ASSUME NEW r \in Request, SaveAnswered(r) PROVE KeptInv'
  <2>1. phase[r] \in Early \union Streaming
    BY <1>15 DEF SaveAnswered, Streaming
  <2>2. /\ phase'[r] = "closed" /\ \A q \in Request : q # r => phase'[q] = phase[q]
        /\ UNCHANGED <<taken, client>>
        /\ \A q \in Request : wire'[q] \in {wire[q], "none"}
        /\ \A q \in Request : response'[q] # response[q] => q = r /\ phase[r] \in Early
    BY <1>15, FailureCloses DEF store
  <2> QED
    BY <2>1, <2>2 DEF KeptInv, RequestInv, ClientInv, Early, Streaming
<1>16. ASSUME NEW r \in Request, SaveThrows(r) PROVE KeptInv'
  <2>1. phase[r] \in Early \union Streaming
    BY <1>16 DEF SaveThrows, Streaming
  <2>2. /\ phase'[r] = "closed" /\ \A q \in Request : q # r => phase'[q] = phase[q]
        /\ UNCHANGED <<taken, client>>
        /\ \A q \in Request : wire'[q] \in {wire[q], "none"}
        /\ \A q \in Request : response'[q] # response[q] => q = r /\ phase[r] \in Early
    BY <1>16, FailureCloses DEF store
  <2> QED
    BY <2>1, <2>2 DEF KeptInv, RequestInv, ClientInv, Early, Streaming
<1>17. ASSUME NEW r \in Request, StreamCut(r) PROVE KeptInv'
  <2>1. phase[r] \in Early \union Streaming
    BY <1>17 DEF StreamCut, Streaming
  <2>2. /\ phase'[r] = "closed" /\ \A q \in Request : q # r => phase'[q] = phase[q]
        /\ UNCHANGED <<taken, client>>
        /\ \A q \in Request : wire'[q] \in {wire[q], "none"}
        /\ \A q \in Request : response'[q] # response[q] => q = r /\ phase[r] \in Early
    BY <1>17, FailureCloses DEF store
  <2> QED
    BY <2>1, <2>2 DEF KeptInv, RequestInv, ClientInv, Early, Streaming
<1>18. ASSUME NEW r \in Request, HeadersArrive(r) PROVE KeptInv'
  BY <1>0, <1>18 DEF KeptInv, RequestInv, EndInv, ClientInv, SignalTypes, AnswerTypes,
     TurnTypes, OtherTypes, HeadersArrive, store, input, signals, answer, Early,
     Streaming, Reading
<1>19. ASSUME NEW r \in Request, EventArrives(r) PROVE KeptInv'
  BY <1>0, <1>19 DEF KeptInv, RequestInv, EndInv, ClientInv, SignalTypes, AnswerTypes,
     TurnTypes, OtherTypes, EventArrives, store, input, signals, answer, Early,
     Streaming, Reading
<1>20. ASSUME NEW r \in Request, StreamEnds(r) PROVE KeptInv'
  BY <1>0, <1>20 DEF KeptInv, RequestInv, EndInv, ClientInv, SignalTypes, AnswerTypes,
     TurnTypes, OtherTypes, StreamEnds, store, input, signals, answer, Early, Streaming,
     Reading
<1>21. ASSUME NEW r \in Request, Leave(r) PROVE KeptInv'
  BY <1>0, <1>21 DEF KeptInv, RequestInv, EndInv, ClientInv, SignalTypes, AnswerTypes,
     TurnTypes, OtherTypes, Leave, store, input, signals, answer, Early, Streaming,
     Reading
<1>22. ASSUME NEW r \in Request, RequestAborted(r) PROVE KeptInv'
  BY <1>0, <1>22 DEF KeptInv, RequestInv, EndInv, ClientInv, SignalTypes, AnswerTypes,
     TurnTypes, OtherTypes, RequestAborted, store, input, signals, answer, Early,
     Streaming, Reading
<1>23. ASSUME NEW r \in Request, ResponseCancelled(r) PROVE KeptInv'
  BY <1>0, <1>23 DEF KeptInv, RequestInv, EndInv, ClientInv, SignalTypes, AnswerTypes,
     TurnTypes, OtherTypes, ResponseCancelled, store, input, signals, answer, Early,
     Streaming, Reading
<1>24. ASSUME NEW r \in Request, Crash(r) PROVE KeptInv'
  BY <1>0, <1>24 DEF KeptInv, RequestInv, EndInv, ClientInv, SignalTypes, AnswerTypes,
     TurnTypes, OtherTypes, Crash, store, input, signals, answer, Early, Streaming,
     Reading
<1>25. ASSUME NEW r \in Request, ConnectionBreaks(r) PROVE KeptInv'
  BY <1>0, <1>25 DEF KeptInv, RequestInv, EndInv, ClientInv, SignalTypes, AnswerTypes,
     TurnTypes, OtherTypes, ConnectionBreaks, store, input, signals, answer, Early,
     Streaming, Reading
<1>26. CASE UNCHANGED vars
  BY <1>26 DEF vars, KeptInv, store, answer
<1> QED
  BY <1>1, <1>2, <1>3, <1>4, <1>5, <1>6, <1>7, <1>8, <1>9, <1>10, <1>11, <1>12,
     <1>13, <1>14, <1>15, <1>16, <1>17, <1>18, <1>19, <1>20, <1>21, <1>22, <1>23,
     <1>24, <1>25, <1>26
  DEF Next, Expire, Prepare, Answer, Read


\* A step that neither saves nor tells a client anything is none of the session's.
LEMMA Silent ==
  ASSUME UNCHANGED <<store, input, client>>, KeptInv,
         \A q \in Request : response'[q] # response[q] => phase[q] \in Early
  PROVE  UNCHANGED Session!vars
<1>1. ASSUME NEW q \in Request PROVE Known(q)' = Known(q)
  BY DEF Known, KeptInv
<1>2. [q \in Request |-> Known(q)]' = [q \in Request |-> Known(q)]
  BY <1>1
<1> QED
  BY <1>2 DEF Session!vars, store, input

\* A step that tells the client of an open request how it ends.
LEMMA Telling ==
  ASSUME TypeOK, UNCHANGED <<store, input, response>>, NEW r \in Request,
         client[r] \in Reading,
         \A q \in Request : q # r => client'[q] = client[q],
         Known(r)' \in {"done", "failed", "refused", "left"},
         Known(r)' = "done" => (scoped[r] => r \in taken),
         Known(r)' = "refused" => r \notin taken
  PROVE  Session!Next
<1> DEFINE known == [q \in Request |-> Known(q)]
<1>1. known[r] = "open"
  BY DEF Known, Reading
<1>2. \A q \in Request : q # r => Known(q)' = Known(q)
  BY DEF Known
<1>3. known' = [known EXCEPT ![r] = Known(r)']
  BY <1>2
<1>4. Session!End(r, Known(r)')
  BY <1>1, <1>3 DEF Session!End, store, input
<1> QED
  BY <1>4 DEF Session!Next

\* The client of a request does not move.
LEMMA Waiting ==
  ASSUME UNCHANGED <<store, input, response>>,
         \A q \in Request : \/ client'[q] = client[q]
                            \/ client[q] \in Reading /\ client'[q] \in Reading
  PROVE  UNCHANGED Session!vars
<1>1. ASSUME NEW q \in Request PROVE Known(q)' = Known(q)
  BY DEF Known, Reading
<1>2. [q \in Request |-> Known(q)]' = [q \in Request |-> Known(q)]
  BY <1>1
<1> QED
  BY <1>2 DEF Session!vars, store, input

\* Every step of the service is a step of the session, or none.
LEMMA TurnsKeptStep ==
  ASSUME AskInv, KeptInv, [Next]_vars
  PROVE  [Session!Next]_Session!vars
<1>0. TypeOK /\ RequestInv /\ SessionInv /\ SignalTypes /\ AnswerTypes /\ TurnTypes /\ OtherTypes
  BY TypeParts DEF AskInv
<1>1. ASSUME NEW r \in Request, BootstrapExpires(r) PROVE [Session!Next]_Session!vars
  BY <1>1, Silent DEF BootstrapExpires, answer
<1>2. ASSUME NEW r \in Request, RequestExpires(r) PROVE [Session!Next]_Session!vars
  BY <1>2, Silent DEF RequestExpires, answer
<1>3. ASSUME NEW r \in Request, WaitExpires(r) PROVE [Session!Next]_Session!vars
  BY <1>3, Silent DEF WaitExpires, answer
<1>4. ASSUME NEW r \in Request, Ask(r) PROVE [Session!Next]_Session!vars
  <2> DEFINE known == [q \in Request |-> Known(q)]
  <2>1. client[r] = "idle" /\ client'[r] = "waiting"
        /\ \A q \in Request : q # r => client'[q] = client[q]
    BY <1>0, <1>4 DEF Ask, RequestInv, ClientInv, OtherTypes
  <2>2. UNCHANGED <<store, response>>
    BY <1>4 DEF Ask, answer
  <2>3. known[r] = "none" /\ Known(r)' = "open" /\ \A q \in Request : q # r => Known(q)' = Known(q)
    BY <2>1, <2>2 DEF Known, Reading
  <2>4. known' = [known EXCEPT ![r] = "open"]
    BY <2>3
  <2>5. /\ \E q \in Question : asked' = [asked EXCEPT ![r] = q]
        /\ \E b \in BOOLEAN : scoped' = [scoped EXCEPT ![r] = b]
    BY <1>4, ScopeAssumption DEF Ask
  <2>6. Session!Ask(r)
    BY <2>2, <2>3, <2>4, <2>5 DEF Session!Ask, store
  <2> QED
    BY <2>6 DEF Session!Next
<1>5. ASSUME NEW r \in Request, Reject(r) PROVE [Session!Next]_Session!vars
  BY <1>0, <1>5, FailureCloses, Silent
<1>6. ASSUME NEW r \in Request, CutShort(r) PROVE [Session!Next]_Session!vars
  BY <1>0, <1>6, FailureCloses, Silent
<1>7. ASSUME NEW r \in Request, SiteResolved(r) PROVE [Session!Next]_Session!vars
  BY <1>7, Silent DEF SiteResolved, answer
<1>8. ASSUME NEW r \in Request, Admitted(r) PROVE [Session!Next]_Session!vars
  BY <1>8, Silent DEF Admitted, answer
<1>9. ASSUME NEW r \in Request, SessionLoaded(r) PROVE [Session!Next]_Session!vars
  BY <1>9, Silent DEF SessionLoaded, answer
<1>10. ASSUME NEW r \in Request, Retrieved(r) PROVE [Session!Next]_Session!vars
  <2>1. /\ UNCHANGED <<store, input, client>> /\ phase[r] \in Early
        /\ \A q \in Request : q # r => response'[q] = response[q]
    BY <1>0, <1>10 DEF Retrieved, AnswerTypes, Early
  <2> QED
    BY <2>1, Silent
<1>11. ASSUME NEW r \in Request, TextArrives(r) PROVE [Session!Next]_Session!vars
  BY <1>11, Silent DEF TextArrives
<1>12. ASSUME NEW r \in Request, Generated(r) PROVE [Session!Next]_Session!vars
  <2>1. UNCHANGED <<store, input, client, response>>
    BY <1>12 DEF Generated, Complete, answer
  <2> QED
    BY <2>1, Silent
<1>13. ASSUME NEW r \in Request, GenerationFails(r) PROVE [Session!Next]_Session!vars
  BY <1>0, <1>13, FailureCloses, Silent
<1>14. ASSUME NEW r \in Request, SaveLands(r) PROVE [Session!Next]_Session!vars
  <2>1. CASE RevisionMatches(r)
    <3>1. /\ wire[r] = "sent" /\ taken' = taken \union {r}
          /\ UNCHANGED <<input, response, client>>
      BY <1>0, <1>14, <2>1 DEF SaveLands, RevisionMatches, answer
    <3>2. scoped[r] /\ r \notin taken /\ response[r] = "stream"
      BY <1>0, <3>1 DEF SessionInv, KeptInv
    <3>3. client[r] # "idle"
      BY <1>0, <3>1 DEF SessionInv, KeptInv
    <3>4. Known(r) \notin {"none", "refused"}
      BY <1>0, <3>2, <3>3 DEF Known, OtherTypes, Reading
    <3>5. [q \in Request |-> Known(q)]' = [q \in Request |-> Known(q)]
      BY <3>1 DEF Known
    <3>6. storedMessages' = Session!LastOf(storedMessages \o Session!Turn(r), Window)
      BY <1>0, <1>14, <2>1, SaveExtends
      DEF Bounded, LastOf, Session!LastOf, Session!Turn, User, Assistant
    <3>7. Session!Keep(r)
      BY <3>1, <3>2, <3>4, <3>5, <3>6 DEF Session!Keep, input
    <3> QED
      BY <3>7 DEF Session!Next
  <2>2. CASE ~RevisionMatches(r)
    BY <1>14, <2>2, Silent DEF SaveLands, answer
  <2> QED
    BY <2>1, <2>2
<1>15. ASSUME NEW r \in Request, SaveAnswered(r) PROVE [Session!Next]_Session!vars
  BY <1>0, <1>15, FailureCloses, Silent
<1>16. ASSUME NEW r \in Request, SaveThrows(r) PROVE [Session!Next]_Session!vars
  BY <1>0, <1>16, FailureCloses, Silent
<1>17. ASSUME NEW r \in Request, StreamCut(r) PROVE [Session!Next]_Session!vars
  BY <1>0, <1>17, FailureCloses, Silent
<1>18. ASSUME NEW r \in Request, HeadersArrive(r) PROVE [Session!Next]_Session!vars
  <2>1. /\ UNCHANGED <<store, input, response>>
        /\ client[r] = "waiting" /\ response[r] # "none"
        /\ client'[r] = IF response[r] = "stream" THEN "reading" ELSE "error"
        /\ \A q \in Request : q # r => client'[q] = client[q]
    BY <1>0, <1>18 DEF HeadersArrive, OtherTypes, answer
  <2>2. CASE response[r] = "stream"
    BY <2>1, <2>2, Waiting DEF Reading
  <2>3. CASE response[r] # "stream"
    <3>1. Known(r)' = "refused" /\ r \notin taken
      BY <2>1, <2>3 DEF Known, KeptInv, Reading
    <3> QED
      BY <1>0, <2>1, <3>1, Telling DEF Reading
  <2> QED
    BY <2>2, <2>3
<1>19. ASSUME NEW r \in Request, EventArrives(r) PROVE [Session!Next]_Session!vars
  <2>1. /\ UNCHANGED <<store, input, response>>
        /\ client[r] = "reading" /\ response[r] = "stream"
        /\ client'[r] \in {"done", "error"} \union {client[r]}
        /\ \A q \in Request : q # r => client'[q] = client[q]
    BY <1>0, <1>19 DEF EventArrives, OtherTypes, RequestInv, ClientInv
  <2>2. CASE client'[r] = client[r]
    BY <2>1, <2>2, Waiting
  <2>3. CASE client'[r] = "error"
    <3>1. Known(r)' = "failed"
      BY <2>1, <2>3 DEF Known, Reading
    <3> QED
      BY <1>0, <2>1, <3>1, Telling DEF Reading
  <2>4. CASE client'[r] = "done"
    <3>1. Known(r)' = "done"
      BY <2>1, <2>4 DEF Known, Reading
    <3>2. scoped[r] => r \in taken
      <4>1. RequestInv'
        BY <1>0, <1>19, RequestStep DEF Next, Read
      <4> QED
        BY <2>1, <2>4, <4>1 DEF RequestInv, ClientInv, store, input
    <3> QED
      BY <1>0, <2>1, <3>1, <3>2, Telling DEF Reading
  <2> QED
    BY <2>1, <2>2, <2>3, <2>4
<1>20. ASSUME NEW r \in Request, StreamEnds(r) PROVE [Session!Next]_Session!vars
  <2>1. /\ UNCHANGED <<store, input, response>>
        /\ client[r] = "reading" /\ response[r] = "stream"
        /\ client'[r] \in {"done", "error"}
        /\ \A q \in Request : q # r => client'[q] = client[q]
    BY <1>0, <1>20 DEF StreamEnds, OtherTypes, RequestInv, ClientInv, answer
  <2>2. Known(r)' \in {"done", "failed"} /\ (Known(r)' = "done" => client'[r] = "done")
    BY <2>1 DEF Known, Reading
  <2>3. client'[r] = "done" => (scoped[r] => r \in taken)
    <3>1. RequestInv'
      BY <1>0, <1>20, RequestStep DEF Next, Read
    <3> QED
      BY <2>1, <3>1 DEF RequestInv, ClientInv, store, input
  <2> QED
    BY <1>0, <2>1, <2>2, <2>3, Telling DEF Reading
<1>21. ASSUME NEW r \in Request, Leave(r) PROVE [Session!Next]_Session!vars
  <2>1. /\ UNCHANGED <<store, input, response>> /\ client[r] \in Reading
        /\ client'[r] = "left" /\ \A q \in Request : q # r => client'[q] = client[q]
    BY <1>0, <1>21 DEF Leave, OtherTypes, answer
  <2>2. Known(r)' = "left"
    BY <2>1 DEF Known, Reading
  <2> QED
    BY <1>0, <2>1, <2>2, Telling
<1>22. ASSUME NEW r \in Request, RequestAborted(r) PROVE [Session!Next]_Session!vars
  BY <1>22, Silent DEF RequestAborted, answer
<1>23. ASSUME NEW r \in Request, ResponseCancelled(r) PROVE [Session!Next]_Session!vars
  BY <1>23, Silent DEF ResponseCancelled
<1>24. ASSUME NEW r \in Request, Crash(r) PROVE [Session!Next]_Session!vars
  BY <1>24, Silent DEF Crash, answer
<1>25. ASSUME NEW r \in Request, ConnectionBreaks(r) PROVE [Session!Next]_Session!vars
  <2>1. /\ UNCHANGED <<store, input, response>> /\ client[r] = "waiting"
        /\ response[r] = "none" /\ client'[r] = "error"
        /\ \A q \in Request : q # r => client'[q] = client[q]
    BY <1>0, <1>25 DEF ConnectionBreaks, OtherTypes, answer
  <2>2. Known(r)' = "refused" /\ r \notin taken
    BY <2>1 DEF Known, KeptInv, Reading
  <2> QED
    BY <1>0, <2>1, <2>2, Telling DEF Reading
<1>26. CASE UNCHANGED vars
  BY <1>26, Silent DEF vars, answer
<1> QED
  BY <1>1, <1>2, <1>3, <1>4, <1>5, <1>6, <1>7, <1>8, <1>9, <1>10, <1>11, <1>12,
     <1>13, <1>14, <1>15, <1>16, <1>17, <1>18, <1>19, <1>20, <1>21, <1>22, <1>23,
     <1>24, <1>25, <1>26
  DEF Next, Expire, Prepare, Answer, Read

-----------------------------------------------------------------------------
(* The theorems *)

LEMMA InitInv == Init => AskInv
<1> SUFFICES ASSUME Init PROVE AskInv
  OBVIOUS
<1>1. TypeOK
  <2>1. /\ storedMessages = <<>> /\ <<>> \in Seq(Message) /\ Len(<<>>) = 0 /\ 0 <= Window
        /\ messages = [r \in Request |-> <<>>] /\ <<>> \in Seq(Kind) /\ <<>> \in Seq(Outcome)
    BY AskBoundAssumption DEF Init
  <2> QED
    BY <2>1 DEF Init, TypeOK, Kind, Outcome
<1>2. RequestInv
  <2>1. <<>> # <<"ok", "cancelled">> /\ DOMAIN <<>> = {}
    OBVIOUS
  <2> QED
    BY <2>1 DEF Init, RequestInv, EndInv, ClientInv, Reports, Early, Streaming, Reading
<1>3. SessionInv
  BY DEF Init, SessionInv, Answering
<1> QED
  BY <1>1, <1>2, <1>3 DEF AskInv

\* The invariant of the service holds in every state.
THEOREM AskInvariant == Spec => []AskInv
<1>1. AskInv /\ [Next]_vars => AskInv'
  BY TypeStep, RequestStep, SessionStep DEF AskInv
<1> QED
  BY <1>1, InitInv, PTL DEF Spec

\* Every variable keeps its type, and transcripts keep to the window.
THEOREM TypeCorrect == Spec => []TypeOK
<1>1. AskInv => TypeOK
  BY DEF AskInv
<1> QED
  BY <1>1, AskInvariant, PTL

\* What a client takes for a complete answer of the session is stored, whatever was cut
\* short, crashed or lost on the way.
THEOREM CompleteIsStored == Spec => []DoneIsStored
<1>1. AskInv => DoneIsStored
  BY DEF AskInv, RequestInv, ClientInv, DoneIsStored
<1> QED
  BY <1>1, AskInvariant, PTL

\* The outcome of every request is reported, and a failure is reported once.
THEOREM EveryEndReported == Spec => []Reported
<1>1. ASSUME AskInv, NEW r \in Request
      PROVE  /\ phase[r] = "closed" /\ response[r] = "stream" => reports[r] # <<>>
             /\ \A j, k \in DOMAIN reports[r] : "ok" \in {reports[r][j], reports[r][k]} \/ j = k
             /\ Len(reports[r]) = 2 => reports[r] = <<"ok", "cancelled">> /\ client[r] = "left"
             /\ client[r] = "done" => reports[r] = <<"ok">>
  <2>1. reports[r] \in Reports
    BY <1>1 DEF AskInv, RequestInv, EndInv
  <2>2. \A j, k \in DOMAIN reports[r] : "ok" \in {reports[r][j], reports[r][k]} \/ j = k
    <3>1. CASE reports[r] = <<"ok", "cancelled">>
      <4>1. DOMAIN reports[r] = {1, 2} /\ reports[r][1] = "ok"
        BY <3>1
      <4> QED
        BY <4>1
    <3>2. CASE reports[r] # <<"ok", "cancelled">>
      <4>1. Len(reports[r]) \in {0, 1} /\ DOMAIN reports[r] = 1 .. Len(reports[r])
        BY <2>1, <3>2 DEF Reports
      <4> QED
        BY <4>1
    <3> QED
      BY <3>1, <3>2
  <2>3. Len(reports[r]) = 2 => reports[r] = <<"ok", "cancelled">>
    BY <2>1 DEF Reports
  <2> QED
    BY <1>1, <2>2, <2>3 DEF AskInv, RequestInv, EndInv, ClientInv
<1>2. AskInv => Reported
  BY <1>1 DEF Reported
<1> QED
  BY <1>2, AskInvariant, PTL

\* Whoever saves extends the stored transcript by its question and its answer.
THEOREM NoTurnLost == Spec => TranscriptExtends
<1>1. ASSUME AskInv, [Next]_vars
      PROVE  storedMessages' # storedMessages =>
                \E r \in Request :
                   storedMessages' = Bounded(storedMessages \o <<User(asked[r]), Assistant(r)>>)
  <2>1. ASSUME NEW r \in Request, BootstrapExpires(r) PROVE UNCHANGED storedMessages
    BY <2>1 DEF BootstrapExpires, store
  <2>2. ASSUME NEW r \in Request, RequestExpires(r) PROVE UNCHANGED storedMessages
    BY <2>2 DEF RequestExpires, store
  <2>3. ASSUME NEW r \in Request, WaitExpires(r) PROVE UNCHANGED storedMessages
    BY <2>3 DEF WaitExpires, store
  <2>4. ASSUME NEW r \in Request, Ask(r) PROVE UNCHANGED storedMessages
    BY <2>4 DEF Ask, store
  <2>5. ASSUME NEW r \in Request, Reject(r) PROVE UNCHANGED storedMessages
    BY <2>5 DEF Reject, Refuse, Close, store
  <2>6. ASSUME NEW r \in Request, CutShort(r) PROVE UNCHANGED storedMessages
    BY <2>6 DEF CutShort, Refuse, Close, store
  <2>7. ASSUME NEW r \in Request, SiteResolved(r) PROVE UNCHANGED storedMessages
    BY <2>7 DEF SiteResolved, Goto, store
  <2>8. ASSUME NEW r \in Request, Admitted(r) PROVE UNCHANGED storedMessages
    BY <2>8 DEF Admitted, Goto, store
  <2>9. ASSUME NEW r \in Request, SessionLoaded(r) PROVE UNCHANGED storedMessages
    BY <2>9 DEF SessionLoaded, Goto, store
  <2>10. ASSUME NEW r \in Request, Retrieved(r) PROVE UNCHANGED storedMessages
    BY <2>10 DEF Retrieved, Goto, store
  <2>11. ASSUME NEW r \in Request, TextArrives(r) PROVE UNCHANGED storedMessages
    BY <2>11 DEF TextArrives, Emit, store
  <2>12. ASSUME NEW r \in Request, Generated(r) PROVE UNCHANGED storedMessages
    BY <2>12 DEF Generated, Goto, Complete, Close, Emit, Cite, store
  <2>13. ASSUME NEW r \in Request, GenerationFails(r) PROVE UNCHANGED storedMessages
    BY <2>13 DEF GenerationFails, StreamFails, Close, Emit, store
  <2>14. ASSUME NEW r \in Request, SaveAnswered(r) PROVE UNCHANGED storedMessages
    BY <2>14 DEF SaveAnswered, Complete, StreamFails, Close, Emit, store
  <2>15. ASSUME NEW r \in Request, SaveThrows(r) PROVE UNCHANGED storedMessages
    BY <2>15 DEF SaveThrows, StreamFails, Close, Emit, store
  <2>16. ASSUME NEW r \in Request, StreamCut(r) PROVE UNCHANGED storedMessages
    BY <2>16 DEF StreamCut, StreamFails, Close, Emit, store
  <2>17. ASSUME NEW r \in Request, HeadersArrive(r) PROVE UNCHANGED storedMessages
    BY <2>17 DEF HeadersArrive, store
  <2>18. ASSUME NEW r \in Request, EventArrives(r) PROVE UNCHANGED storedMessages
    BY <2>18 DEF EventArrives, store
  <2>19. ASSUME NEW r \in Request, StreamEnds(r) PROVE UNCHANGED storedMessages
    BY <2>19 DEF StreamEnds, store
  <2>20. ASSUME NEW r \in Request, Leave(r) PROVE UNCHANGED storedMessages
    BY <2>20 DEF Leave, store
  <2>21. ASSUME NEW r \in Request, RequestAborted(r) PROVE UNCHANGED storedMessages
    BY <2>21 DEF RequestAborted, store
  <2>22. ASSUME NEW r \in Request, ResponseCancelled(r) PROVE UNCHANGED storedMessages
    BY <2>22 DEF ResponseCancelled, store
  <2>23. ASSUME NEW r \in Request, Crash(r) PROVE UNCHANGED storedMessages
    BY <2>23 DEF Crash, store
  <2>24. ASSUME NEW r \in Request, ConnectionBreaks(r) PROVE UNCHANGED storedMessages
    BY <2>24 DEF ConnectionBreaks, store
  <2>25. CASE UNCHANGED vars
    BY <2>25 DEF vars, store
  <2>26. ASSUME NEW r \in Request, SaveLands(r)
        PROVE  \/ UNCHANGED storedMessages
               \/ storedMessages' = Bounded(storedMessages \o <<User(asked[r]), Assistant(r)>>)
    BY <1>1, <2>26, SaveExtends DEF AskInv, SaveLands, store
  <2>27. ASSUME NEW r \in Request, Expire(r) \/ Prepare(r) \/ Answer(r) \/ Read(r)
        PROVE  \/ UNCHANGED storedMessages
               \/ storedMessages' = Bounded(storedMessages \o <<User(asked[r]), Assistant(r)>>)
    BY <2>1, <2>2, <2>3, <2>4, <2>5, <2>6, <2>7, <2>8, <2>9, <2>10, <2>11, <2>12,
       <2>13, <2>14, <2>15, <2>16, <2>17, <2>18, <2>19, <2>20, <2>21, <2>22, <2>23,
       <2>24, <2>26, <2>27
    DEF Expire, Prepare, Answer, Read
  <2> QED
    BY <1>1, <2>25, <2>27 DEF Next
<1> QED
  BY <1>1, AskInvariant, PTL DEF Spec, TranscriptExtends

\* The service, its store and its clients implement a session that keeps every turn
\* whole and at most once: for any requests, questions and window.
THEOREM SessionIsKept == Spec => TurnsKeptOnce
<1>1. Init => KeptInv
  BY DEF Init, KeptInv, Early
<1>2. Init => Session!Init
  <2> SUFFICES ASSUME Init PROVE Session!Init
    OBVIOUS
  <2>1. \A r \in Request : client[r] = "idle"
    BY DEF Init
  <2>2. [r \in Request |-> Known(r)] = [r \in Request |-> "none"]
    BY <2>1 DEF Known, Reading
  <2> QED
    BY <2>2 DEF Init, Session!Init
<1>3. AskInv /\ KeptInv /\ [Next]_vars => KeptInv'
  BY KeptStep DEF AskInv
<1>4. AskInv /\ KeptInv /\ [Next]_vars => [Session!Next]_Session!vars
  BY TurnsKeptStep
<1> QED
  BY <1>1, <1>2, <1>3, <1>4, AskInvariant, PTL DEF Spec, TurnsKeptOnce, Session!Spec

=============================================================================
