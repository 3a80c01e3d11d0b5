------------------------------ MODULE AskService ------------------------------
(***************************************************************************)
(* Questions to one Ask session: createAskServiceHandler                   *)
(* (packages/server/src/ask-service.ts), its session store and the client  *)
(* of createAskAdapter (packages/chat/src/ask.ts) that reads the answer.   *)
(*                                                                         *)
(* A request resolves its site, is limited, loads the session, retrieves   *)
(* sources, and streams an answer, which it saves against the revision it  *)
(* loaded before it says that it is done.  A deadline of the request, one  *)
(* of the current wait, an abort of the request and a cancelled response   *)
(* cut a wait short; a save that was cut short may still land.  A client   *)
(* that keeps its history on the server sends its question only.           *)
(***************************************************************************)
EXTENDS Integers, Sequences, SequencesExt

CONSTANTS
    Request,    \* requests that may be sent
    Question,   \* what they may ask
    Scope,      \* whether requests may name the session, and may not
    Window,     \* messages a session keeps (64 in the code)
    MaxFaults,  \* bound on failed calls to the store and crashes
    NoQuestion  \* not a question

ASSUME AskBoundAssumption == Window \in Nat \ {0} /\ MaxFaults \in Nat
ASSUME ScopeAssumption == Scope \subseteq BOOLEAN
ASSUME NoQuestionAssumption == NoQuestion \notin Question

VARIABLES
    storedRevision,  \* the stored session: its revision, 0 when there is none,
    storedMessages,  \*   and its messages
    taken,           \* the requests whose answer the store has taken
    phase,           \* phase[r]: what the handler waits for
    asked,           \* asked[r]: the question
    scoped,          \* scoped[r]: the request names a session
    loaded,          \* loaded[r]: the revision it has loaded
    messages,        \* messages[r]: the messages it answers
    drafted,         \* drafted[r]: the answer is not empty
    wire,            \* wire[r]: its save
    bootOver,        \* bootOver[r]: the bootstrap deadline has expired
    deadline,        \* deadline[r]: the request deadline has expired
    timer,           \* timer[r]: the deadline of the current wait has expired
    aborted,         \* aborted[r]: the request is aborted
    cancelled,       \* cancelled[r]: the response is cancelled
    response,        \* response[r]: the response the client gets
    events,          \* events[r]: the events it has not read yet
    reports,         \* reports[r]: the outcomes reported with request.total_ms
    client,          \* client[r]: where the client of the request stands
    faults           \* failed calls and crashes so far

store == <<storedRevision, storedMessages, taken>>
input == <<asked, scoped>>
turn == <<loaded, messages, drafted>>
signals == <<bootOver, deadline, timer, aborted, cancelled>>
answer == <<response, events, reports>>
vars == <<store, phase, input, turn, wire, signals, answer, client, faults>>

-----------------------------------------------------------------------------
Early == {"bootstrapping", "limiting", "loading", "retrieving"}
Streaming == {"generating", "saving"}
Reading == {"waiting", "reading"}

User(q) == [role |-> "user", content |-> q]
Assistant(r) == [role |-> "assistant", content |-> r]
Message == [role : {"user"}, content : Question] \union [role : {"assistant"}, content : Request]

Init ==
    /\ storedRevision = 0 /\ storedMessages = <<>> /\ taken = {}
    /\ phase = [r \in Request |-> "idle"]
    /\ asked = [r \in Request |-> NoQuestion]
    /\ scoped = [r \in Request |-> FALSE]
    /\ loaded = [r \in Request |-> 0]
    /\ messages = [r \in Request |-> <<>>]
    /\ drafted = [r \in Request |-> FALSE]
    /\ wire = [r \in Request |-> "none"]
    /\ bootOver = [r \in Request |-> FALSE]
    /\ deadline = [r \in Request |-> FALSE]
    /\ timer = [r \in Request |-> FALSE]
    /\ aborted = [r \in Request |-> FALSE]
    /\ cancelled = [r \in Request |-> FALSE]
    /\ response = [r \in Request |-> "none"]
    /\ events = [r \in Request |-> <<>>]
    /\ reports = [r \in Request |-> <<>>]
    /\ client = [r \in Request |-> "idle"]
    /\ faults = 0

-----------------------------------------------------------------------------
(* Deadlines *)

\* The signal of a request past its bootstrap.
Aborted(r) == aborted[r] \/ deadline[r] \/ cancelled[r]

\* The current wait is over before its answer.  (The wrong variant forgets the
\* deadline of the request.)
CutButDeadline(r) == IF phase[r] = "bootstrapping" THEN aborted[r] \/ bootOver[r]
                     ELSE aborted[r] \/ cancelled[r] \/ timer[r]
Cut(r) == IF phase[r] = "bootstrapping" THEN aborted[r] \/ bootOver[r]
          ELSE Aborted(r) \/ timer[r]

\* The bootstrap deadline runs on after the bootstrap.
BootstrapExpires(r) ==
    /\ phase[r] \in Early /\ ~bootOver[r]
    /\ bootOver' = [bootOver EXCEPT ![r] = TRUE]
    /\ UNCHANGED <<store, phase, input, turn, wire, deadline, timer, aborted, cancelled>>
    /\ UNCHANGED <<answer, client, faults>>

RequestExpires(r) ==
    /\ phase[r] \in (Early \ {"bootstrapping"}) \union Streaming /\ ~deadline[r]
    /\ deadline' = [deadline EXCEPT ![r] = TRUE]
    /\ UNCHANGED <<store, phase, input, turn, wire, bootOver, timer, aborted, cancelled>>
    /\ UNCHANGED <<answer, client, faults>>

\* retrievalTimeoutMs or generationTimeoutMs.
WaitExpires(r) ==
    /\ phase[r] \in {"retrieving", "generating"} /\ ~timer[r]
    /\ timer' = [timer EXCEPT ![r] = TRUE]
    /\ UNCHANGED <<store, phase, input, turn, wire, bootOver, deadline, aborted, cancelled>>
    /\ UNCHANGED <<answer, client, faults>>

-----------------------------------------------------------------------------
(* Up to the response *)

\* The next wait has a timer of its own.
Goto(r, place) ==
    /\ phase' = [phase EXCEPT ![r] = place]
    /\ timer' = [timer EXCEPT ![r] = FALSE]
    /\ UNCHANGED <<bootOver, deadline, aborted, cancelled>>

\* Nobody looks at the signals of a request that is over.
Close(r) ==
    /\ phase' = [phase EXCEPT ![r] = "closed"]
    /\ bootOver' = [bootOver EXCEPT ![r] = FALSE]
    /\ deadline' = [deadline EXCEPT ![r] = FALSE]
    /\ timer' = [timer EXCEPT ![r] = FALSE]
    /\ aborted' = [aborted EXCEPT ![r] = FALSE]
    /\ cancelled' = [cancelled EXCEPT ![r] = FALSE]

\* recordError: the first one counts.  (The wrong variant counts them all.)
RecordAll(r, outcome) == Append(reports[r], outcome)
RecordError(r, outcome) ==
    IF ToSet(reports[r]) \subseteq {"ok"} THEN Append(reports[r], outcome) ELSE reports[r]

\* A request that fails before its response: what has expired or aborted meanwhile
\* hides the error it failed with, and it reports nothing before its site is known.
Refuse(r, status, outcome) ==
    LET late == bootOver[r] \/ deadline[r]
        over == late \/ aborted[r]
    IN  /\ Close(r)
        /\ response' = [response EXCEPT ![r] =
              CASE late -> "timeout" [] over /\ ~late -> "cancelled" [] OTHER -> status]
        /\ reports' = IF phase[r] = "bootstrapping" THEN reports
                      ELSE [reports EXCEPT ![r] =
                              RecordError(r, IF over THEN "cancelled" ELSE outcome)]
        /\ UNCHANGED <<store, input, turn, wire, events, client, faults>>

Ask(r) ==
    /\ phase[r] = "idle"
    /\ phase' = [phase EXCEPT ![r] = "bootstrapping"]
    /\ \E q \in Question : asked' = [asked EXCEPT ![r] = q]
    /\ \E b \in Scope : scoped' = [scoped EXCEPT ![r] = b]
    /\ client' = [client EXCEPT ![r] = "waiting"]
    /\ UNCHANGED <<store, turn, wire, signals, answer, faults>>

\* A check fails, a callback throws, or no source is grounded.
Reject(r) ==
    /\ phase[r] \in Early /\ ~Cut(r)
    /\ \E outcome \in {"rejected", "error"} : Refuse(r, "rejected", outcome)

\* A wait before the response is cut short.
CutShort(r) == phase[r] \in Early /\ Cut(r) /\ Refuse(r, "timeout", "rejected")

SiteResolved(r) ==
    /\ phase[r] = "bootstrapping" /\ ~Cut(r)
    /\ Goto(r, "limiting")
    /\ UNCHANGED <<store, input, turn, wire, answer, client, faults>>

\* mergeSessionMessages: the question after the stored messages, unless it is the
\* last of them.  (The wrong variant keeps the oldest messages.)
LastOf(s, n) == IF Len(s) > n THEN SubSeq(s, Len(s) - n + 1, Len(s)) ELSE s
BoundedFirst(s) == IF Len(s) > Window THEN SubSeq(s, 1, Window) ELSE s
Bounded(s) == LastOf(s, Window)
Merged(stored, q) ==
    IF stored # <<>> /\ Last(stored) = User(q) THEN stored
    ELSE Bounded(Append(stored, User(q)))

\* The rate limit and the body pass; without a session the question stands alone.
Admitted(r) ==
    /\ phase[r] = "limiting" /\ ~Cut(r)
    /\ \/ scoped[r] /\ Goto(r, "loading") /\ UNCHANGED messages
       \/ /\ ~scoped[r]
          /\ Goto(r, "retrieving")
          /\ messages' = [messages EXCEPT ![r] = <<User(asked[r])>>]
    /\ UNCHANGED <<store, input, loaded, drafted, wire, answer, client, faults>>

SessionLoaded(r) ==
    /\ phase[r] = "loading" /\ ~Cut(r)
    /\ Goto(r, "retrieving")
    /\ loaded' = [loaded EXCEPT ![r] = storedRevision]
    /\ messages' = [messages EXCEPT ![r] = Merged(storedMessages, asked[r])]
    /\ UNCHANGED <<store, input, drafted, wire, answer, client, faults>>

\* Sources are found: the response starts.
Retrieved(r) ==
    /\ phase[r] = "retrieving" /\ ~Cut(r)
    /\ Goto(r, "generating")
    /\ response' = [response EXCEPT ![r] = "stream"]
    /\ UNCHANGED <<store, input, turn, wire, events, reports, client, faults>>

-----------------------------------------------------------------------------
(* The stream *)

Emit(r, kinds) == events' = [events EXCEPT ![r] = @ \o kinds]

\* A failure in the stream is a timeout unless the request was aborted.  (The wrong
\* variant takes an expired request deadline for a cancellation.)
TimedOutInWait(r) == ~aborted[r] /\ timer[r] /\ ~Aborted(r)
TimedOut(r) == ~aborted[r] /\ (deadline[r] \/ (timer[r] /\ ~Aborted(r)))

\* The error is an event, unless the client has gone: the stream ends either way.
StreamFails(r) ==
    LET interrupted == Aborted(r) \/ timer[r]
        told == (~interrupted \/ TimedOut(r)) /\ ~cancelled[r]
    IN  /\ Close(r)
        /\ IF told THEN Emit(r, <<"error">>) ELSE UNCHANGED events
        /\ reports' = [reports EXCEPT ![r] =
              RecordError(r, IF interrupted /\ ~TimedOut(r) THEN "cancelled" ELSE "error")]
        /\ UNCHANGED <<store, input, turn, response, client>>

\* The last event.
Complete(r, before) ==
    /\ Close(r)
    /\ Emit(r, Append(before, "done"))
    /\ reports' = [reports EXCEPT ![r] = Append(@, "ok")]
    /\ UNCHANGED <<store, input, turn, response, client>>

TextArrives(r) ==
    /\ phase[r] = "generating" /\ ~Cut(r) /\ ~drafted[r]
    /\ drafted' = [drafted EXCEPT ![r] = TRUE]
    /\ Emit(r, <<"text">>)
    /\ UNCHANGED <<store, phase, input, loaded, messages, wire, signals>>
    /\ UNCHANGED <<response, reports, client, faults>>

\* The generator is done: the sources are cited, and the answer saved.  (The wrong
\* variant says that it is done before it has saved.)
CiteAndDone == <<"cite", "done">>
Cite == <<"cite">>
Generated(r) ==
    /\ phase[r] = "generating" /\ ~Cut(r) /\ drafted[r]
    /\ \/ /\ scoped[r]
          /\ Goto(r, "saving")
          /\ Emit(r, Cite)
          /\ wire' = [wire EXCEPT ![r] = "sent"]
          /\ UNCHANGED <<store, input, turn, response, reports, client>>
       \/ ~scoped[r] /\ Complete(r, Cite) /\ UNCHANGED wire
    /\ UNCHANGED faults

\* The generator throws, or its answer is empty or too long.
GenerationFails(r) ==
    /\ phase[r] = "generating" /\ ~Cut(r)
    /\ StreamFails(r)
    /\ UNCHANGED <<wire, faults>>

\* The revision a save expects is the stored one.  (The wrong variant: the last
\* save wins.)
LastSaveWins(r) == TRUE
RevisionMatches(r) == loaded[r] = storedRevision

\* sessionStore.save: the test and the write are atomic, whoever still waits.
SaveLands(r) ==
    /\ wire[r] = "sent"
    /\ \/ /\ RevisionMatches(r)
          /\ storedRevision' = loaded[r] + 1
          /\ storedMessages' = Bounded(Append(messages[r], Assistant(r)))
          /\ taken' = taken \union {r}
          /\ wire' = [wire EXCEPT ![r] = "stored"]
       \/ /\ ~RevisionMatches(r)
          /\ wire' = [wire EXCEPT ![r] = "conflict"]
          /\ UNCHANGED store
    /\ UNCHANGED <<phase, input, turn, signals, answer, client, faults>>

SaveAnswered(r) ==
    /\ phase[r] = "saving" /\ ~Cut(r)
    /\ \/ wire[r] = "stored" /\ Complete(r, <<>>)
       \/ wire[r] = "conflict" /\ StreamFails(r)
    /\ UNCHANGED <<wire, faults>>

\* The store throws, before or after it has stored.
SaveThrows(r) ==
    /\ phase[r] = "saving" /\ ~Cut(r)
    /\ wire[r] \in {"sent", "stored"}
    /\ faults < MaxFaults
    /\ faults' = faults + 1
    /\ wire' = [wire EXCEPT ![r] = "none"]
    /\ StreamFails(r)

StreamCut(r) ==
    /\ phase[r] \in Streaming /\ Cut(r)
    /\ StreamFails(r)
    /\ UNCHANGED <<wire, faults>>

-----------------------------------------------------------------------------
(* The client, and the server process *)

HeadersArrive(r) ==
    /\ client[r] = "waiting" /\ response[r] # "none"
    /\ client' = [client EXCEPT ![r] = IF response[r] = "stream" THEN "reading" ELSE "error"]
    /\ UNCHANGED <<store, phase, input, turn, wire, signals, answer, faults>>

EventArrives(r) ==
    /\ client[r] = "reading" /\ events[r] # <<>>
    /\ events' = [events EXCEPT ![r] = Tail(@)]
    /\ client' = [client EXCEPT ![r] = IF Head(events[r]) \in {"done", "error"}
                                       THEN Head(events[r]) ELSE @]
    /\ UNCHANGED <<store, phase, input, turn, wire, signals, response, reports, faults>>

\* A stream that ends is taken for done; one that breaks is an error.
StreamEnds(r) ==
    /\ client[r] = "reading" /\ events[r] = <<>>
    /\ \/ phase[r] = "closed" /\ client' = [client EXCEPT ![r] = "done"]
       \/ phase[r] = "crashed" /\ client' = [client EXCEPT ![r] = "error"]
    /\ UNCHANGED <<store, phase, input, turn, wire, signals, answer, faults>>

\* The user stops the answer, the connection is lost, or connecting takes too long.
Leave(r) ==
    /\ client[r] \in Reading
    /\ client' = [client EXCEPT ![r] = "left"]
    /\ UNCHANGED <<store, phase, input, turn, wire, signals, answer, faults>>

\* The server notices that the client has gone: the request is aborted ...
RequestAborted(r) ==
    /\ client[r] = "left" /\ phase[r] \in Early \union Streaming /\ ~aborted[r]
    /\ aborted' = [aborted EXCEPT ![r] = TRUE]
    /\ UNCHANGED <<store, phase, input, turn, wire, bootOver, deadline, timer, cancelled>>
    /\ UNCHANGED <<answer, client, faults>>

\* ... or its response is cancelled, which an answer that is complete but not yet
\* read still reports.
ResponseCancelled(r) ==
    /\ client[r] = "left"
    /\ \/ phase[r] \in Streaming /\ ~cancelled[r] /\ cancelled' = [cancelled EXCEPT ![r] = TRUE]
       \/ phase[r] = "closed" /\ events[r] # <<>> /\ UNCHANGED cancelled
    /\ events' = [events EXCEPT ![r] = <<>>]
    /\ reports' = [reports EXCEPT ![r] = RecordError(r, "cancelled")]
    /\ UNCHANGED <<store, phase, input, turn, wire, bootOver, deadline, timer, aborted>>
    /\ UNCHANGED <<response, client, faults>>

Crash(r) ==
    /\ phase[r] \in Early \union Streaming
    /\ faults < MaxFaults
    /\ faults' = faults + 1
    /\ phase' = [phase EXCEPT ![r] = "crashed"]
    /\ UNCHANGED <<store, input, turn, wire, signals, answer, client>>

\* A client that waits for the headers of a crashed server gets an error.
ConnectionBreaks(r) ==
    /\ client[r] = "waiting" /\ phase[r] = "crashed" /\ response[r] = "none"
    /\ client' = [client EXCEPT ![r] = "error"]
    /\ UNCHANGED <<store, phase, input, turn, wire, signals, answer, faults>>

-----------------------------------------------------------------------------
Expire(r) == BootstrapExpires(r) \/ RequestExpires(r) \/ WaitExpires(r)

Prepare(r) ==
    \/ Ask(r) \/ Reject(r) \/ CutShort(r) \/ SiteResolved(r) \/ Admitted(r)
    \/ SessionLoaded(r) \/ Retrieved(r)

Answer(r) ==
    \/ TextArrives(r) \/ Generated(r) \/ GenerationFails(r)
    \/ SaveLands(r) \/ SaveAnswered(r) \/ SaveThrows(r) \/ StreamCut(r)

Read(r) ==
    \/ HeadersArrive(r) \/ EventArrives(r) \/ StreamEnds(r) \/ Leave(r)
    \/ RequestAborted(r) \/ ResponseCancelled(r) \/ Crash(r) \/ ConnectionBreaks(r)

Next == \E r \in Request : Expire(r) \/ Prepare(r) \/ Answer(r) \/ Read(r)

Spec == Init /\ [][Next]_vars

\* Deadlines expire and cut waits short, and what has been sent arrives.  Nothing is
\* asked of the store, the retriever or the generator.
Fairness ==
    \A r \in Request :
        /\ WF_vars(BootstrapExpires(r)) /\ WF_vars(RequestExpires(r))
        /\ WF_vars(CutShort(r)) /\ WF_vars(StreamCut(r))
        /\ WF_vars(HeadersArrive(r)) /\ WF_vars(EventArrives(r))
        /\ WF_vars(StreamEnds(r)) /\ WF_vars(ConnectionBreaks(r))

FairSpec == Spec /\ Fairness

-----------------------------------------------------------------------------
(* Properties *)

\* Every variable keeps its type, and messages keep to the window.
TypeOK ==
    /\ storedRevision \in Nat /\ storedMessages \in Seq(Message) /\ taken \subseteq Request
    /\ Len(storedMessages) <= Window
    /\ phase \in [Request -> Early \union Streaming \union {"idle", "closed", "crashed"}]
    /\ asked \in [Request -> Question \union {NoQuestion}]
    /\ scoped \in [Request -> BOOLEAN]
    /\ loaded \in [Request -> Nat]
    /\ messages \in [Request -> Seq(Message)]
    /\ \A r \in Request : Len(messages[r]) <= Window
    /\ drafted \in [Request -> BOOLEAN]
    /\ wire \in [Request -> {"none", "sent", "stored", "conflict"}]
    /\ bootOver \in [Request -> BOOLEAN] /\ deadline \in [Request -> BOOLEAN]
    /\ timer \in [Request -> BOOLEAN]
    /\ aborted \in [Request -> BOOLEAN] /\ cancelled \in [Request -> BOOLEAN]
    /\ response \in [Request -> {"none", "stream", "timeout", "cancelled", "rejected"}]
    /\ events \in [Request -> Seq({"text", "cite", "done", "error"})]
    /\ reports \in [Request -> Seq({"ok", "cancelled", "rejected", "error"})]
    /\ client \in [Request -> Reading \union {"idle", "done", "error", "left"}]
    /\ faults \in Nat

\* An answer that the client takes for complete is in the session, although the
\* client also takes a stream without a last event for complete.
DoneIsStored == \A r \in Request : client[r] = "done" /\ scoped[r] => r \in taken

\* A save adds one question and its answer to the transcript it finds, in the window:
\* no turn that another request has stored meanwhile is lost.
TranscriptExtends ==
    [][storedMessages' # storedMessages =>
          \E r \in Request :
             storedMessages' =
                Bounded(storedMessages \o <<User(asked[r]), Assistant(r)>>)]_vars

\* A request reports its end, and reports one failure at most, however often it is
\* aborted, cancelled and cut short; what the client takes for complete is counted as
\* ok, and nothing but an answer left unread as ok and cancelled.
Reported ==
    \A r \in Request :
        /\ phase[r] = "closed" /\ response[r] = "stream" => reports[r] # <<>>
        /\ \A j, k \in DOMAIN reports[r] : "ok" \in {reports[r][j], reports[r][k]} \/ j = k
        /\ Len(reports[r]) = 2 => reports[r] = <<"ok", "cancelled">> /\ client[r] = "left"
        /\ client[r] = "done" => reports[r] = <<"ok">>

\* What the client of a request knows of it.
Known(r) ==
    CASE client[r] = "idle" -> "none"
      [] client[r] \in Reading -> "open"
      [] client[r] = "error" -> IF response[r] = "stream" THEN "failed" ELSE "refused"
      [] OTHER -> client[r]

Session == INSTANCE AskSession WITH
    transcript <- storedMessages,
    kept <- taken,
    named <- scoped,
    outcome <- [r \in Request |-> Known(r)]

\* The service, its store and its clients together keep the promise of a session: a
\* turn is kept whole and at most once, though its save be cut short, answered late or
\* not at all; a complete answer has been kept, and a refused request leaves no trace.
TurnsKeptOnce == Session!Spec

\* Every question comes to an end for its client, however mute the backend is.
QuestionEnds == \A r \in Request : client[r] \in Reading ~> client[r] \notin Reading

=============================================================================
