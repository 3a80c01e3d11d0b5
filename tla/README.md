# TLA+ models of AgentsKit Chat

These modules model the parts of this repository whose correctness depends on
the order in which things happen: sessions that several clients resume from one
storage, confirmations of tool calls, turn submissions and decisions that compete
for a session while deadlines, lost answers and crashes cut them short, the
streams that answer them, conversations that are edited and resumed, and
questions to an Ask session. TLC checks them on small instances; TLAPS proves the
safety properties of most of them for every value of the constants.

## Inventory

| Part | Code (under `packages/`) | State | Operations |
|---|---|---|---|
| Action confirmations | `chat/src/index.ts` 214-368 | `records`, `tokensByCall`, `operations` of one coordinator | propose, approve, reject, lookups |
| Chat session | `chat/src/index.ts` 691-960 | confirmations, cursor, active turn, terminal turns, persist chain, decisions, statechart instance | persist, claimTurn, releaseTurn, createConfirmation, createSource, updateChat |
| Session storage | `chat/src/drizzle-pg.ts` 46-76 | one row per tenant and session | load, save (compare-and-set), delete |
| Tool decisions | `chat/src/drizzle-pg.ts` 78-142 | pending, claimed and settled rows | putPending, get, claim, settle |
| Capability policy | `chat/src/index.ts` 130-207 | none | authorize, compose |
| Chat handler | `server/src/index.ts` | per request: lease, reservation, controller, stream | POST of a turn or a decision |
| Ask service | `server/src/ask-service.ts` | per request; revisions in a session store | POST of a question |
| Ask and turn clients | `chat/src/ask.ts`, `turn-client.ts` | buffer, mode, discard flag | send, stream, abort |
| Turn protocol | `protocol/src/index.ts` | the snapshot cursor | encode, decode, apply |
| Deterministic answers | `chat/src/deterministic.ts` | index, choice table | resolve, resolveChoice, submit, commit, release |
| Uploads | `server/src/uploads.ts` | budget of one delivery | presign, resolve, deliver |
| Tenant erasure | `server/src/erasure.ts` | none | erase all categories |
| Framework bindings, CLI, devtools, docs site, scripts | rest | subscriptions | rendering, files |

How they interact. A server request resumes a session object from the storage,
and writes it back by compare-and-set on the cursor; session objects of
different processes meet only there. A confirmation coordinator keeps records of
its own, writes them into its session's table, and delegates to the upstream
controller (`@agentskit/core`, not in this repository), which shows a proposed
call to the user before the proposal returns. The chat handler claims the turn
lease of the session, reserves cost, loads the transcript, drives a controller
and cleans up; the route table of the session may answer instead of the model.

What makes each part correct, and hard:

- *Action confirmations*: no call is delegated twice, by one client or by
  several; a claim is durable before delegation; a terminal status means that
  the controller was asked. Hard because decisions arrive while proposals are in
  flight, saves fail or lose their answers, and roll-backs restore whole tables.
- *Chat session*: the persist chain never gets stuck, and no save writes over a
  snapshot it has not seen. The statechart must restore to what was stored.
- *Chat handler*: one turn of a session at a time, no replay of a terminal turn,
  each reservation is committed or released, each request ends. Hard because a
  wait that times out leaves behind a call that may still land.
- *Tool decisions*: one execution per decision, also over a crash; whoever asks
  again is told the decision and its outcome; the transcript of one turn does not
  overwrite that of another.
- *Conversation*: a retry is answered as before, whatever is edited the state
  follows from the history, and the session can be resumed.
- *Ask service*: a stored transcript is never built on a superseded revision;
  one terminal event per stream.
- *Local answers and choice authorizations*: a choice leads to its answer, is
  submitted once, is never evicted while its submission is open, and is open again
  when that fails.
- *Response stream, clients and cursor*: a response ends, and without a diagnostic
  only after its last state; records come out the same from any chunking; no
  roll-back of a rendered snapshot.
- *Erasure*: every category runs, and a receipt means that nothing is left.
- *Uploads*: a model call carries the whole transcript with its references exchanged,
  within the budget, also when an object was replaced since it was verified.

`PROJECT.json` lists the hazards, each at its line, with the properties that
cover it.

## Modules

**`SessionConfirmation`** - confirmations of one session held by several clients.
A client is one process lifetime of one resumed session, so a restart is another
client.

| Code | Model |
|---|---|
| stored row: cursor, confirmations | `storedCursor`, `storedTable` |
| session `cursor`, `confirmations` | `cursor`, `table` |
| coordinator `records` | `records`; `"provisional"` is the record `propose()` registers first, told from a later one by object identity in the code |
| `runOnce` and where its operation awaits | `opPc`, `opTo` |
| where `propose()` awaits | `propPc` |
| `persistQueue` | `queue`, each link with the waiter and the table it would restore |
| the `storage.save` under way | `wireState`, `wireTable` |
| calls of `chat.approve` and `chat.deny` | `asked` |

Actions: `Propose`, `ProposeReturns`, `ProposeThrows`, `ProposeAlreadyDecided`,
`Approve` (with the expiry test), `Reject`, `UpstreamResolves`, `UpstreamThrows`;
`Touch`, `StartSave`, `StoreSave`, `LoseSave`, `ClaimSaved`, `SettleSaved`,
`ProposeSaved`, `TouchSaved`, `SaveFailed`; `Resume`, `Crash`, `Lapse`. A save
builds its snapshot when it starts, not when it was queued. The constant
`Overlap` says whether the host lets operations of one client overlap; the code
permits it, and the runs differ in it.

**`SharedDecision`** - what the clients of one session promise together, with the storage
and the requests to their controllers as the only state: the first decision put to a
controller is the last, and from then on the storage tells of no other.
`SessionConfirmation` implements it (`Shared == INSTANCE SharedDecision`) when each client
runs one operation at a time; `ConfirmationDoubleAsk` is why the other case is left out.

**`ChatHandler`** - turn submissions to one session, each in a request of its own
with a session object of its own.

| Code | Model |
|---|---|
| stored row: cursor, activeTurn, terminalTurns | `storedCursor`, `storedActive`, `storedTerminal` |
| where the handler awaits | `pc`, with the deadline in `born` and a cleanup phase's in `timer` |
| the request's session object | `cursor`, `active`, `terminal`, `links`, `wire`, `wireActive`, `wireTerminal` |
| `modelStarted`; whether `send` runs | `started`, `send` |
| `closed` of the cleanup; the response stream | `pc` past `streaming` (`Closed`), `response` |
| the reservation; the call to the cost store | `hold`, `costWire` |

`Receive`, `ReadSession`, `Refuse` and `ClaimTurn` lead to the claim; `StartSave`
to `LateAnswer` are the persist chain and what its answer does to the handler;
`CostLands` to `LateCost` the cost store; `MemoryLoaded` to `PullAborted` the stream;
`Abort`, `Settled`, `CostSettled`, `MemorySaved`, `ReleaseTimesOut` the way out,
through the four cleanup phases; `Crash` the end of the process. A wait that is
over leaves its call in flight: it may still land, and a queued save that has not
started is skipped, because its signal is aborted. Timers fire on time and before
the clock moves on (`Tick`): the lease arithmetic is checked under exact clocks.

The cleanup is entered by the abort listener, by `pull`, by `cancel` of the stream and by a
persist that failed, in any order and more than once (`EnterCleanup`): only the first entry
changes anything. The controller may call the adapter as long as its `send` runs
(`Dispatch`), also when it is stopped or the cleanup has given up waiting for it. A call
before the settlement is paid, a later one is not: `ChargedIffDispatched` lets a turn that
reached the model go unpaid only when its `send` has never settled before the cleanup gave
it up. Whether the upstream controller ever makes a late call cannot be told from this
repository.

**`AskService`** - questions to one Ask session, from the client that sends them to
the end of the stream it reads.

| Code | Model |
|---|---|
| session record: revision, messages | `storedRevision`, `storedMessages` |
| where the handler awaits | `phase`; the record it has loaded, `loaded`, `messages` |
| `bootstrap`, `requestDeadline`, the timer of `withTimeout` | `bootOver`, `deadline`, `timer` |
| `request.signal`, `responseAbort` | `aborted`, `cancelled` |
| the `sessionStore.save` under way | `wire` |
| status, body, `request.total_ms` | `response`, `events` (not yet read), `reports` |
| the client's `stream()` | `client` |

`SiteResolved`, `Admitted`, `SessionLoaded` and `Retrieved` lead to the stream,
`Reject` and `CutShort` to an error response; `TextArrives`, `Generated`,
`GenerationFails`, `SaveLands`, `SaveAnswered`, `SaveThrows` and `StreamCut` are the
stream; `HeadersArrive` to `ConnectionBreaks` the client and its connection. A save
that is cut short stays in flight and may land. The client is one that keeps its
history on the server, so it sends the question only; text is a single event, and
sources are found or not.

**`AskSession`** - what a session promises to those who ask it: the turn of a request is
kept whole, in one step and at most once; a complete answer has been kept, a refused
request never is, and of one that fails half way the client cannot tell. `AskService`
implements it (`Session == INSTANCE AskSession WITH ...`), with `Known` as what the client
knows.

**`ToolDecisions`** - one confirmation-required call of a session, and the submit and
decide requests that meet over it.

| Code | Model |
|---|---|
| the row of `agentskit_chat_decisions` | `row` |
| the stored transcript; `activeTurn`, and whether it has expired | `memory`; `lease`, `lapsed` |
| where the handler awaits; submit or the decision | `pc`, `kind` |
| `settled`; the resumed session object | `seen`; `held`, `current` |
| the controller: its transcript, what `send`/`decide` is doing | `said`, `task` |
| `memory.save` under way | `wire` |
| the response; the transcript of a replay | `answer`, `told` |

`LookUp` to `Recheck` are lines 150-176 of the handler, `Load` to `Finish` the turn with
the store's `putPending` (`Generate`), `claim` (`ClaimRow`) and `settle` (`SettleRow`),
`SendSettled` to `ReleaseTurn` the cleanup. A transcript is the set of what it tells: the
call, its outcome, the turns. A cursor is a flag, `current`: a save by one session
object takes it from every other. The lease of a request runs out only when it is over,
which is `OneTranscriptHolder` of `ChatHandlerProofs`.

**`ActionDecision`** - what a decision promises: one proposal is decided once, runs at
most once and only when approved, is settled once, and is told as it was taken.
`ToolDecisions` implements it (`Once == INSTANCE ActionDecision WITH ...`).

**`Conversation`** - the deterministic routes of a session. `CreateSource` is the whole
of `createSource` for a history that ends with the message to answer; `Send`,
`Regenerate` and `Edit` are the histories a controller asks with; `Persist` stores
what the session holds, and `ResumeConversation` is another client that resumes with
the messages of the memory, which may lack the latest. `Rebuilt` skips decisions that
do not apply (`rebuildState`), `Replayed` refuses them (the restore in
`createChatSession`); that they agree is what the properties are about.

**`ChoiceAuthorizations`** - `choices` is the table of tables, `recent` the order of its
keys (least recently used first), `reservations` what `resolveChoiceSubmission` has handed
out, `resolved` the locks of the renderers. `ProjectFirst` and `ProjectAgain` are
`rememberChoices`, `Select` the click, `SendSucceeds` and `SendFails` its two ends with
`commit` and `release`, `ReleaseSession` the unmount, which may come before either.

**`DeterministicAnswers`** - the resolver as operators (`Resolve`, `ResolveChoice`) over
artifacts that pass `Verified`, and the dialogue of a user who asks, is offered choices
and takes one.

**`TurnStream`** - the response of one turn after another: `pending`, `done` (`sendOver`),
the waiters (`stage = "asleep"`), `closed` (`cleanup`), the stream's own queue (`unread`)
and how it ended (`ending`), with the session cursor and the client's snapshot cursor
(`shown`). Controller states are numbered, so that "the last state" means something.
`Deliver` takes any line ever sent, late or again.

**`EventStream`** - the read loop of the Ask client in its three modes over
`decodeAskEvents`, and that of the turn client, which is the ndjson mode. Text is a
sequence of pieces, cut into chunks anywhere; a record may be cut in two. The reader may
stop between two chunks (`ReadThrows`), or in the middle of one or of the last line, when
the encoder meets its limit or the consumer takes no more (`ChunkStops`, `EndStops`): what
it has shown by then (`Shown`) is the beginning of what it would have shown. An event that
the encoder splits into several is one event here.

**`Uploads`** - the uploaded parts of a session: `input` are the parts of the submitted turn
while `resolveUploadParts` checks them, `sources` those of the transcript, `delivered` what
`deliverUploadParts` has ready for the model, `remaining` its budget; `body` and `length`
are the object that `readStored` reads, in chunks of any size. `PutObject` is the browser,
which may replace what was verified.

**`TenantErasure`** - `eraseTenantChatData` over erasers of the host that remove, answer,
fail and hang independently, with retries, and turns that write meanwhile.

**`Selection`** - the filter of JavaScript arrays, which `Conversation`,
`DeterministicAnswers` and `EventStream` share, and **`SequenceLemmas`** - facts about it
and about sequences.

**`MCSessionConfirmation`**, **`MCChatHandler`**, **`MCAskService`**, **`MCConversation`** -
model values, symmetry and small definitions for TLC.

**`MCComponents`** - the eight components from `ToolDecisions` on side by side for one
run: the variable `part` says which of them moves. A behaviour is one of that component,
with the others at rest.

**`SessionConfirmationProofs`**, **`ChatHandlerProofs`**, **`ToolDecisionsProofs`**,
**`AskServiceProofs`**, **`ConversationProofs`**, **`ServerProofs`**,
**`ComponentsProofs`** - the theorems.

Definitions marked as wrong variants (`LastWriteWins`, `BusyUnlessTerminal`, ...)
are plausible mistakes; each property is shown to notice one of them.

## Runs

| Run | Instance | Shows |
|---|---|---|
| `ConfirmationRaces` | 2 clients, 1 call, overlapping operations, losses, a touch, fairness | `AskedOncePerClient`, `TerminalOnlyAfterAsk`, `OperationsEnd` hold |
| `ConfirmationSerial` | 2 clients, 2 calls, one operation at a time in a client, 1 loss | `AskedOnce`, `PendingIsUndecided` hold, and `DecidedTogether` (the refinement of `SharedDecision`) |
| `ConfirmationDoubleAsk` | 2 clients, 1 call, overlapping | `AskedOnce` fails |
| `ConfirmationUndurable` | 2 clients, 1 call, 1 loss | `DurableBeforeAsk` fails |
| `TurnLease` | 2 requests, 2 turns, no cost policy, 1 fault | `TranscriptExclusive`, `TerminalNotReplayed`, `TerminalKept`, `LeaseTakenByItsTurn` hold |
| `TurnCost` | 1 request, cost policy, 2 faults, fairness | `ChargedIffDispatched`, `SettledOnce`, `RequestEnds` hold |
| `TurnLeak` | 1 request, cost policy | `EndedHoldsNothing` fails |
| `TurnHang` | 1 request, cost policy, mute cost store | `RequestEnds` fails |
| `TurnOverrun` | 2 requests, cost policy | `TranscriptExclusive` fails |
| `AskTurns` | 2 requests that name one session, or 1 that names none, 1 fault, fairness | `DoneIsStored`, `Reported`, `TranscriptExtends`, `QuestionEnds` hold, and `TurnsKeptOnce` (the refinement of `AskSession`) |
| `ConversationUnresumable` | 3 messages, 3 states, 2 routes | `SnapshotResumes` fails |
| `Components` | each component on an instance of its own | see below |

What `Components` checks, and on which instance:

| Part | Instance | Holds |
|---|---|---|
| `ToolDecisions` | 2 requests, 1 crash, failed save or wait given up | `DecidedOnce` (the refinement), `ReplayTellsOutcome`, `HolderCurrent`, `TranscriptKept` |
| `Conversation` | as in `ConversationUnresumable` | `SavedSessionResumes`, `RetryRepeats` |
| `ChoiceAuthorizations` | 2 sessions (1 kept), 2 views, 3 instances (2 kept), one of two props | `ReservationsMatch`, `FailedChoiceIsOpen` |
| `DeterministicAnswers` | 216 artifacts of 3 entries, and the empty one | `ChosenIsAnswered` |
| `TurnStream` | 2 turns, 3 states of the controller, fairness | `CompleteShowsLast`, `SnapshotsInOrder`, `ResponseEnds` |
| `EventStream` | 6 pieces of text in chunks of up to 3, lines of up to 2, 2 lines in a call | `ChunksMakeNoDifference`, `TextIsShown` |
| `TenantErasure` | 4 categories, 2 calls | `ErasedMeansGone` |
| `Uploads` | 2 references and a foreign source, 3 parts, contents of 1 to 3 bytes, limits 2 and 3 | `CallWithinBudget` |

The disagreements the six failing runs show:

1. *Double ask.* `approve` during `propose()` saves its claim; `propose()` then
   returns, finds its provisional record still in place (the claim's continuation
   has not run) and publishes `pending` over the claim. A client that resumes
   from that snapshot delegates the call again.
2. *Undurable ask.* A `propose()` that failed to save leaves its record; a later
   claim maps over a table without the row, and saves nothing about it.
3. *Leaked reservation.* A deadline inside `store.reserve` releases the turn
   only.
4. *Hang.* `settleCost(undefined)` before the controller exists has no deadline.
5. *Overrun.* The lease counts three cleanup phases, a metered cleanup has four.
6. *Unresumable session.* An edit makes a stored decision stale; when the persist of the
   next dispatch does not land, a client that resumes keeps the stale decision, skips it
   to rebuild the state, and stores both: the strict replay refuses the session from
   then on. `SavedSessionResumes` says that nothing else leads there.

**Bounds.** Two clients give every race between a claim and a competing writer,
and a client that resumes after the crash of another; the second call of
`ConfirmationSerial` lets the roll-back of one operation meet the table of another.
A loss at any point gives each failure branch, and its retry; `TouchLimit` lets a
plain persist come between two operations. Two requests give the owner of a lease
and a competitor; with both timeouts at 1 the lease lasts 4 units and
`LastArrival` = 4 lets the second request arrive at any point of it and at its
expiry. `Window` = 2 keeps both turns, so no turn is pushed out of it: that only the oldest
goes when it overflows is shown by the theorem `TerminalNotRolledBack` alone, three turns
being too many for TLC. `CursorLimit` permits a snapshot in the
stream after the claim. Two requests of an Ask session give the stale save and its
conflict, and `Window` = 3 makes the second turn push the first out; `MaxFaults`
bounds crashes and failing saves, every other failure is unbounded.

In `Components`: two requests are a decision and whatever it races with, another
decision, the same one again or a submit; a third only waits for the lease. Three
messages let the one in the middle be edited, cut off or sent again. One session kept of
two, and two authorizations of three, make both evictions happen, also with everything
claimed. Artifacts of three entries are the smallest with an alias that is shared, one
of its own, and one shared with a third. Two turns let a line of the first arrive during
the second; three states, a state that is replaced before it is sent. Six pieces give
three records, an oversized line between two others, and a cut anywhere. Two large
uploads exceed the budget of a call together, a small one and a large one do not, and a
huge one is too large by itself. Requests, calls, messages and turns are finite, so the
system may stop: the runs do not check deadlock, `OperationsEnd`, `RequestEnds`,
`QuestionEnds` and `ResponseEnds` take its place.

**Fairness.** `SessionConfirmation!Fairness`: the storage and the upstream
controller answer, and the event loop of a client that stays up runs what is
queued; users owe nothing. `ChatHandler!TimerFairness`: the clock advances and due
timers fire, which is all the handler controls; `CostFairness` adds that the cost
store answers, which the cleanup before the controller exists depends on.
`AskService!Fairness`: the two deadlines of a request expire and end its waits, and
bytes, ends and failures of a connection reach the client; the store, the retriever
and the generator owe nothing. `TurnStreamFairness`: the request's deadline aborts it,
`send` settles once the controller is stopped, deadlines end the cleanup and the persist
of `pull`, and the client keeps reading; that `stop()` notifies is not assumed, the end
of `send` does. The other parts of `Components` state safety only.

## Proofs

`SessionConfirmationProofs`, from the two assumptions on the constants and
nothing else:

- `TypeCorrect`: `Spec => []TypeOK`.
- `OncePerClient`: `Spec => []AskedOncePerClient`, operations overlapping or not.
- `TerminalIsTrue`: `Spec => []TerminalOnlyAfterAsk`.
- `SerialAskedOnce`, `SerialPendingIsUndecided`: for `Overlap = FALSE`, the
  session's clients together ask at most once, and a stored `pending` is undecided.

`AskedOncePerClient` is not inductive: that an operation may ask only once rests on
its record having left `pending` before, and on the queued claim still being the
one of this operation; `DecidedInv` says so. `TerminalOnlyAfterAsk` is about the storage
alone, and a status gets there from a record by way of a table, a save on the wire or
the table that a failed save puts back: `BackedInv` says of every one of them what the
property says of the storage, and `AskedStatusInv` that an operation which delegates or
settles has asked for the status it names. The serial results need in addition
what compare-and-set gives across clients. `SerialInv` is the conjunction of types
(`TypeInv`), cursors that never exceed the stored one, with a save that can win only
at equality (`CursorInv`), the calls a client can know of (`IssuedInv`), where the one
operation in flight stands and what is queued for it (`OperationInv`, `WaiterInv`),
what a client that is up to date with the storage shows (`ShownInv`), how `asked` relates to
the stored status (`AskedInv`), and that a claim in the storage was put there by
the client about to delegate (`CommitInv`). Each action lemma preserves each conjunct.

`SessionDecidesOnce` is the refinement of `SharedDecision`, again for `Overlap = FALSE`:
`Spec => DecidedTogether`. Only delegations and saves that win map to abstract steps; all
else, proposals, queues, roll-backs, crashes and resumptions, maps to none. Beyond
`SerialInv` it needs to know what every copy of the table says of a decided call, because
any of them may be the next to be stored: `FollowInv`, that the asker, and every client
that is up to date with the storage, keeps in its records, its table, its save on the wire
and the tables it would restore only the decision, its end, or nothing of the call; and
`WonInv`, the same of a claim that is stored and whose client has not heard of it yet.
A client that is behind may hold anything: its saves lose.

`ChatHandlerProofs`, from the assumptions of `ChatHandler` on its constants:

- `TypeCorrect`: `Spec => []TypeOK`.
- `TerminalNotRolledBack`, `LiveLeaseKept`, `NoTerminalTurnReplayed`: the action
  properties `TerminalKept` (only the oldest of a full window goes, for any window and
  number of turns), `LeaseTakenByItsTurn` and `TerminalNotReplayed`.
- `OneTranscriptHolder`: `Spec => []TranscriptExclusive` for `~Metered`, the case the
  lease arithmetic covers (`TurnOverrun` shows the other one).
- `ChargedExactly`: `Spec => []ChargedIffDispatched`, and `OneSettlement`:
  `Spec => SettledOnce`, however often and by whom the cleanup is entered.

Three layers of invariants carry them. `SnapInv` says what a request knows of the
storage: no cursor runs ahead of the stored one and a save can win only at equality
(`CursorInv`), a request that is up to date knows the stored terminal turns and lease
(`KnownInv`, `LeaseInv`), and what its save on the wire would write (`WireInv`).
`HoldInv` adds time and who has the lease: where a request stands bounds its age and
that of its lease (`TimeInv`), a claim is the first thing in its chain (`LinksInv`), a
claim that the storage would still accept found no live lease (`ClaimInv`), one that
holds the lease finds it stored, for a turn that is not terminal (`HolderInv`), and
beside it no other request holds it or could take it from there (`AloneInv`).
`TranscriptExclusive` is not inductive without all of them: that a second request may
claim only once the lease has expired has to meet that the first has left by then.
`CostInv` follows one reservation through the calls that may still land. Each conjunct
was checked by TLC, with and without cost policy, before it was proved.

`ToolDecisionsProofs`, for any requests and any number of faults:

- `DecisionTakenOnce`: `DecisionsSpec => DecidedOnce`, the refinement of
  `ActionDecision`. Every action of the handler and of the store maps to one step of
  the abstract decision or to none.
- `HolderKeepsCursor`, `ReplayHasOutcome`, `TranscriptNeverShrinks`: `HolderCurrent`,
  `ReplayTellsOutcome` and `TranscriptKept`; `DecisionsTypeCorrect` for the types.

The refinement needs that one controller at a time runs or settles what it has claimed,
with the decision in the row (`ClaimInv`), and that who replays has seen that decision
settled (`ReplayInv`): claims are exclusive because of the row, not because of the lease.
The lease is what the transcript rests on: the session object of a request at work is the
only current one (`LeaseInv`), so its controller tells all that the memory has
(`WireInv`), and the outcome of a settled row is in the memory or on its way there
(`OutcomeInv`). The last two hold until a request gives up its work half way
(`gaveUp`); a wait that is given up leaves a save that may land late.

`AskServiceProofs`, for any requests, questions, window and faults: `CompleteIsStored`
(`DoneIsStored`), `EveryEndReported` (`Reported`), `NoTurnLost` (`TranscriptExtends`),
`TypeCorrect` (`TypeOK`, which no run repeats). `EndInv` says for each phase of a
request what has been reported and sent, `ClientInv` what the client can have read of
it, `SessionInv` that a request whose loaded revision is still the stored one answers
exactly the stored transcript. That the window keeps the end of the transcript, and that
cutting twice is cutting once, are lemmas about sequences (`BoundedIsEnd`,
`BoundedTwice`).

`SessionIsKept` is the refinement of `AskSession` (`Spec => TurnsKeptOnce`): the store, the
requests at work and the clients together map each step to one of the abstract session or
to none. It rests on the invariants above: a save that the store accepts answers the
transcript it finds there, so that what it stores is that transcript and one turn more,
within the window; a complete answer has been stored when the client reads it; and a
request that is refused has no save under way and will have none (`KeptInv`: a request
saves once, and only after its response has started).

`ConversationProofs`, for any messages, routes, sessions, views, limits and knowledge:

- `SavedSessionsResume` (`SavedSessionResumes`), `RetriesRepeat` (`RetryRepeats`) and
  `ConversationTypeCorrect`. Two readers of one list must agree: `rebuildState` skips a
  decision that does not apply, the restore refuses it. They do because the cached
  decisions stay a chain from the initial state to the stored one, in the order of the
  history they were taken in (`SavedInv`, as long as no client went on from an outdated
  snapshot), while an edit or a retry cuts history and chain at the same place. A retry
  repeats because the decision that answered is still the one cached for its message, and
  the state rebuilt before it is the one it was taken in (`RetryInv`). Both rest on
  decisions applying where they were taken, whatever happened (`BaseInv`).
- `ClaimsAreKept` (`ReservationsMatch`) and `FailedChoiceReopens` (`FailedChoiceIsOpen`):
  evictions by view, by limit and by session pass over what is claimed, which needs that a
  session has one authorization for an instance and one place in the list (`KeysInv`).
- `ChoiceLeadsToAnswer` (`ChosenIsAnswered`) and `AnswersTypeCorrect`: an entry with
  an alias of its own answers to it alone, and a choice sends such an alias (`AnswersInv`).

`ServerProofs`:

- `CompleteIsWhole` (`CompleteShowsLast`), `NeverBackwards` (`SnapshotsInOrder`) and
  `StreamTypeCorrect`, for any number of turns and states. `OrderInv` orders the lines,
  the state being saved and the one that waits; `EndInv` follows the end of a response:
  until the cleanup begins the last state is waiting, being saved or sent, and a stream
  that finishes without being aborted began its cleanup after `send` had ended and
  everything was sent.
- `ReceiptIsTrue` (`ErasedMeansGone`) and `ErasureTypeCorrect`, for any categories and
  retries. `ResultInv` ties the result of a wait to what is kept, `ReturnInv` the receipt or
  error to the results.
- `CallsStayWithinBudget` (`CallWithinBudget`) and `UploadsTypeCorrect`, for any objects,
  sizes and limits: while a call is assembled, what remains of its budget is what the parts
  delivered so far have left of it, each stands for its source (`ExchangeInv`), and the
  object being read fits in both limits so far (`ReadingInv`).
- `CutsMakeNoDifference` (`ChunksMakeNoDifference`), `OtherTextIsShown` (`TextIsShown`) and
  `EventStreamTypeCorrect`, for any text, chunks, records and limits. The lines of all
  that was read are those that have been read, whose events were yielded, followed by
  those of the buffer, or by one oversized line that is being dropped (`ReadInv`): reading
  another chunk moves the border between them. `TextInv` says what the first line of
  an answer shown as text can be, `ClosedInv` what an answer that the reader ended has
  yielded; both say that one that stopped has yielded the first of it. Two assumptions of `EventStream` carry this: a record begins with a brace,
  and the end that the reader makes up is told apart from every event.

`ComponentsProofs` carries these over to the composition that TLC runs. A step of
`ComponentsNext` moves one part and leaves the variables of the others alone, so a
behaviour of `ComponentsSpec` is one of each part (`EachImplemented`), and what was proved
of the parts holds side by side: `ComponentsTypeCorrect` (`ComponentsTypeOK`),
`ComponentsSafe` (the nine invariants of the run) and `ComponentsKeepOrder` (its
refinement and action properties).

`SequenceLemmas` holds what several of these need to know of sequences, and the
induction they use: over naturals and over sequences, stated with a set in place of a
predicate and drawn from the well-foundedness of `<` on `Nat`. With it the recursive
functions of the models (`Within`, `SumOf`, `LinesOf`, the rebuild and the replay) are
reasoned about for every input.

TLC checked each of these invariants before its proof.

Only model-checked: liveness (`OperationsEnd`, `RequestEnds`, `QuestionEnds`,
`ResponseEnds`), which needs `ENABLED` and fairness. The two violated properties of the
confirmation protocol show why `Overlap = FALSE` is an assumption of the serial
theorems.

## Not modelled

Within the modelled parts: formats of ids, inputs and messages; the observer
callbacks; coordinators without a storage; the outcome recorded with a terminal turn;
amounts of money; the wait of a decision before its stream exists, which is the first
wait of `pull`; traces and responses of routes; hashes of artifacts. Clock skew between
servers is not modelled: leases compare one clock.

The models leave the following behaviours of the code as they are, and no property is
about them. An Ask answer that is not declared as ndjson and starts with a line that is too
long is shown as text when the line ends within one read, and dropped otherwise; one
whose first line is blank is shown as text. More than 4096 complete lines in one read
lose the rest (`capped`). After an abort the response of a turn is closed before its
cleanup is over (`PullAborted`).

Other parts are listed with reasons in `PROJECT.json`: pure projections and validation
(catalogue, presentation, schemas, capability policy), rendering glue, build tooling,
and the upstream controller, of which only what the code relies on appears.

## What could follow

1. A refinement for the turn lease: `ChatHandler` as an implementation of a lease register
   with one holder, for the case `~Metered`.
2. The observation of a backend's stream by the deterministic adapter
   (`observeBackendSource`).
3. `delete` of the session storage, once a running part of the system calls it.

