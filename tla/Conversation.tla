---------------------------- MODULE Conversation ----------------------------
(***************************************************************************)
(* The deterministic conversation of a chat session: createChatSession     *)
(* with a conversation definition (packages/chat/src/index.ts) routes the  *)
(* latest user message, caches the decision by message and input, and      *)
(* rebuilds the state of its statechart from the history it is given; the  *)
(* session snapshot carries state and decisions, and resumeChatSession     *)
(* replays them.                                                           *)
(*                                                                         *)
(* The controller that owns the history is external: it sends, retries,    *)
(* regenerates and edits, always up to the message it wants answered, and  *)
(* an edited message keeps its id.  The definition does not change, so the *)
(* statechart accepts what a route declares.                               *)
(***************************************************************************)
EXTENDS Integers, Sequences, SequencesExt, Selection

CONSTANTS
    Message,       \* ids of user messages
    Input,         \* what users write
    State,         \* states of the conversation
    Initial,       \* its initial state
    On,            \* On[s]: the target of every event declared in state s
    Routes,        \* routes in order: id, event, states and the inputs they match
    Refused,       \* not a state
    NoSnapshot,    \* not a snapshot
    HistoryLimit   \* bound on the length of a history

ASSUME InitialAssumption == Initial \in State /\ Refused \notin State
ASSUME OnAssumption ==
    /\ DOMAIN On = State
    /\ \A s \in State : \A e \in DOMAIN On[s] : On[s][e] \in State
ASSUME RouteAssumption ==
    /\ Len(Routes) \in Nat /\ DOMAIN Routes = 1..Len(Routes)
    /\ \A i \in DOMAIN Routes : Routes[i].states \subseteq State /\ Routes[i].inputs \subseteq Input
    /\ \A i, j \in DOMAIN Routes : Routes[i].id = Routes[j].id => i = j
ASSUME HistoryLimitAssumption == HistoryLimit \in Nat

VARIABLES
    history,     \* the user messages of the controller, with their inputs
    decisions,   \* the cached decisions, in the order of the map
    state,       \* the state of the statechart instance
    dispatched,  \* how the last request was answered
    unsaved,     \* a scheduled persist has not been answered
    snapshot,    \* the conversation of the stored session snapshot
    resumable,   \* FALSE once the session could not be resumed
    behind       \* a client went on from a snapshot older than its history

conversationVars ==
    <<history, decisions, state, dispatched, unsaved, snapshot, resumable, behind>>

-----------------------------------------------------------------------------
Entry == [id : Message, input : Input]
RouteDecision ==
    [id : Message, input : Input, route : {Routes[i].id : i \in DOMAIN Routes},
     from : State, to : State]
Ids(h) == {h[i].id : i \in DOMAIN h}

ASSUME NoSnapshotAssumption == NoSnapshot \notin [state : State, decisions : Seq(RouteDecision)]

\* The decision cached for a message, 0 if there is none.
Cached(ds, m) == SelectInSeq(ds, LAMBDA d : d.id = m)

\* transitionDecision: the route still leads from the state to where it led.
Transition(s, d) ==
    IF \E i \in DOMAIN Routes :
          /\ Routes[i].id = d.route /\ s \in Routes[i].states /\ d.from = s
          /\ Routes[i].event \in DOMAIN On[s] /\ On[s][Routes[i].event] = d.to
    THEN d.to
    ELSE Refused

\* rebuildState: the decisions of the history, those that do not apply left out.
Follow(ds, s, m) ==
    LET k == Cached(ds, m.id)
    IN  IF k # 0 /\ ds[k].input = m.input /\ Transition(s, ds[k]) # Refused
        THEN Transition(s, ds[k])
        ELSE s
Rebuilt(ds, h) ==
    LET after[n \in 0..Len(h)] == IF n = 0 THEN Initial ELSE Follow(ds, after[n - 1], h[n])
    IN  after[Len(h)]

\* The replay of a snapshot: every decision, in order, has to apply.
Replayed(ds) ==
    LET after[n \in 0 .. Len(ds)] == IF n = 0 THEN Initial ELSE Transition(after[n - 1], ds[n])
    IN  after[Len(ds)]

\* The first route that is eligible in the state, declared there, and matches.
Eligible(s, route) == s \in route.states /\ route.event \in DOMAIN On[s]
RouteOf(s, input) ==
    SelectInSeq(Routes, LAMBDA route : Eligible(s, route) /\ input \in route.inputs)

\* The state is rebuilt from the messages before the one to answer.  (The wrong variant
\* takes them all.)
Everything(h) == h
Preceding(h) == Front(h)

\* Decisions of messages that have left the history are dropped.  (The wrong variant
\* keeps them.)
KeptAll(ds, h) == ds
Kept(ds, h) == Within(ds, {d \in ToSet(ds) : d.id \in Ids(h)})

ConversationInit ==
    /\ history = <<>> /\ decisions = <<>> /\ state = Initial
    /\ dispatched = "none" /\ unsaved = FALSE
    /\ snapshot = NoSnapshot /\ resumable = TRUE /\ behind = FALSE

-----------------------------------------------------------------------------
(* createSource, for the history that ends with the message to answer *)

\* A matcher or a response that throws ends in an error stream.
Route(kept, before, last) ==
    LET i == RouteOf(before, last.input)
        others == RemoveAt(kept, Cached(kept, last.id))
    IN  \/ i = 0 /\ state' = before /\ decisions' = others /\ dispatched' = "agentic"
        \/ /\ \E k \in DOMAIN Routes : Eligible(before, Routes[k])
          /\ state' = before /\ decisions' = others /\ dispatched' = "error"
        \/ /\ i # 0
           /\ state' = On[before][Routes[i].event]
           /\ decisions' = Append(others, [id |-> last.id, input |-> last.input,
                                           route |-> Routes[i].id, from |-> before, to |-> state'])
           /\ dispatched' = "route"

\* A cached decision answers its message again, unless the input or the state changed.
Answers(kept, before, last) ==
    LET k == Cached(kept, last.id)
    IN  k # 0 /\ kept[k].input = last.input /\ kept[k].from = before

CreateSource(h) ==
    LET kept == Kept(decisions, h)
        before == Rebuilt(kept, Preceding(h))
    IN  /\ resumable
        /\ history' = h
        /\ \/ /\ Answers(kept, before, Last(h))
              /\ state' = Transition(before, kept[Cached(kept, Last(h).id)])
              /\ decisions' = kept /\ dispatched' = "replay"
           \/ ~Answers(kept, before, Last(h)) /\ Route(kept, before, Last(h))
        /\ unsaved' = TRUE
        /\ UNCHANGED <<snapshot, resumable, behind>>

Send ==
    /\ Len(history) < HistoryLimit
    /\ \E m \in Message \ Ids(history), i \in Input :
          CreateSource(Append(history, [id |-> m, input |-> i]))

\* retry, and regenerate of the last or of an earlier answer.
Regenerate == \E k \in 1..Len(history) : CreateSource(SubSeq(history, 1, k))

Edit ==
    \E k \in 1..Len(history), i \in Input :
        CreateSource([SubSeq(history, 1, k) EXCEPT ![k].input = i])

-----------------------------------------------------------------------------
(* The snapshot *)

\* A persist stores what the session holds when the queue reaches it.
Persist ==
    /\ resumable
    /\ snapshot' = [state |-> state, decisions |-> decisions]
    /\ unsaved' = FALSE
    /\ UNCHANGED <<history, decisions, state, dispatched, resumable, behind>>

\* Another request, or the client after a reload, resumes the session with the
\* messages of the memory, which may lack the latest of them.
ResumeConversation ==
    /\ resumable
    /\ \E n \in 0..Len(history) : history' = SubSeq(history, 1, n)
    /\ \/ /\ snapshot = NoSnapshot
          /\ decisions' = <<>> /\ state' = Initial /\ UNCHANGED resumable
       \/ /\ snapshot # NoSnapshot
          /\ IF Replayed(snapshot.decisions) = snapshot.state
             THEN /\ decisions' = snapshot.decisions /\ state' = snapshot.state
                  /\ UNCHANGED resumable
             ELSE resumable' = FALSE /\ UNCHANGED <<decisions, state>>
    /\ dispatched' = "none"
    /\ behind' = (behind \/ unsaved)
    /\ unsaved' = FALSE
    /\ UNCHANGED snapshot

ConversationNext == Send \/ Regenerate \/ Edit \/ Persist \/ ResumeConversation

ConversationSpec == ConversationInit /\ [][ConversationNext]_conversationVars

-----------------------------------------------------------------------------
(* Properties *)

ConversationTypeOK ==
    /\ history \in Seq(Entry) /\ Len(history) <= HistoryLimit
    /\ \A i, j \in DOMAIN history : history[i].id = history[j].id => i = j
    /\ state \in State /\ decisions \in Seq(RouteDecision)
    /\ \A i, j \in DOMAIN decisions : decisions[i].id = decisions[j].id => i = j
    /\ snapshot \in {NoSnapshot} \union [state : State, decisions : Seq(RouteDecision)]
    /\ dispatched \in {"none", "replay", "route", "agentic", "error"}
    /\ unsaved \in BOOLEAN /\ resumable \in BOOLEAN /\ behind \in BOOLEAN

\* Every session resumes from its stored snapshot.
SnapshotResumes == resumable

\* A session whose clients never went on from an outdated snapshot always resumes:
\* however the history was edited and cut, the stored decisions lead to the stored state.
SavedSessionResumes ==
    ~behind =>
        /\ resumable
        /\ snapshot # NoSnapshot => Replayed(snapshot.decisions) = snapshot.state

\* A retry of a message that a route has answered is answered by the same decision,
\* and leaves the conversation where it was.
RetryRepeats ==
    [][/\ dispatched \in {"route", "replay"} /\ history' = history
       /\ dispatched' # "none" /\ unsaved'
       => dispatched' = "replay" /\ state' = state /\ decisions' = decisions]_conversationVars

=============================================================================
