------------------------------ MODULE TurnStream ------------------------------
(***************************************************************************)
(* The response stream of a turn and the client's snapshot cursor: push,   *)
(* pull, abort and cancel of createChatHandler                             *)
(* (packages/server/src/index.ts) between the upstream controller and the  *)
(* reader of the response, and createTurnSnapshotCursor                    *)
(* (packages/protocol/src/index.ts), which takes the snapshots of all the  *)
(* turns of a session in whatever order they come.                         *)
(*                                                                         *)
(* The controller is external: its states are numbered through the turns   *)
(* of the session, and stop() may or may not change the state at once.     *)
(* Turns follow one another (ChatHandler has the lease); the cleanup is    *)
(* one wait here, with the saved transcript and the release as its result. *)
(***************************************************************************)
EXTENDS Naturals, Sequences

CONSTANTS
    MaxTurns,   \* bound on the turns of the session
    MaxStates   \* bound on the states of the controller

ASSUME TurnStreamBoundAssumption == MaxTurns \in Nat \ {0} /\ MaxStates \in Nat

VARIABLES
    turns,      \* turns so far
    storeCursor,  \* the cursor of the stored session snapshot
    ownCursor,  \* the cursor of the session object of the turn
    version,    \* the latest state of the controller
    pending,    \* the state to be sent next, 0 when there is none
    sendOver,   \* done: the controller's send has settled
    aborted,    \* the signal of the request is aborted
    cleanup,    \* none, running or over
    leased,     \* the stored session holds the lease of the turn
    transcript, \* the state whose messages the memory has, 0 before the first save
    stage,      \* where pull stands
    taken,      \* the state pull is persisting for
    unread,     \* a line waits in the stream, which asks for no other
    ending,     \* how the response ended
    lines,      \* the snapshot lines of the session: sequence and state
    shown       \* the snapshot of the client's cursor

cursorVars == <<storeCursor, ownCursor, leased>>
controllerVars == <<version, pending, sendOver>>
cleanupVars == <<aborted, cleanup, transcript>>
streamVars == <<stage, taken, unread, ending>>
clientVars == <<lines, shown>>
turnStreamVars == <<turns, cursorVars, controllerVars, cleanupVars, streamVars, clientVars>>

-----------------------------------------------------------------------------
Line == [sequence : Nat, version : Nat]

\* No turn is being served: its cleanup is over, and so is its response.
Between == stage = "closed" /\ cleanup # "running"

TurnStreamInit ==
    /\ turns = 0 /\ storeCursor = 0 /\ ownCursor = 0
    /\ version = 0 /\ pending = 0 /\ sendOver = TRUE /\ aborted = FALSE
    /\ cleanup = "over" /\ leased = FALSE /\ transcript = 0
    /\ stage = "closed" /\ taken = 0 /\ unread = FALSE /\ ending = "none"
    /\ lines = <<>> /\ shown = [sequence |-> 0, version |-> 0]

\* A turn: its claim is a save of the session, and its stream asks for a first line.
BeginTurn ==
    /\ Between /\ turns < MaxTurns
    /\ turns' = turns + 1
    /\ storeCursor' = storeCursor + 1 /\ ownCursor' = storeCursor + 1
    /\ pending' = 0 /\ sendOver' = FALSE /\ aborted' = FALSE
    /\ cleanup' = "none" /\ leased' = TRUE
    /\ stage' = "checking" /\ taken' = 0 /\ unread' = FALSE /\ ending' = "none"
    /\ UNCHANGED <<version, transcript, clientVars>>

-----------------------------------------------------------------------------
(* The controller *)

\* A notification wakes a pull that waits.  (The wrong variant wakes none.)
Asleep(place) == place
Notified(place) == IF place = "asleep" THEN "checking" ELSE place

\* push: the subscriber keeps the newest state only.
Push == version' = version + 1 /\ pending' = version + 1

ControllerChanges ==
    /\ ~sendOver /\ cleanup = "none" /\ version < MaxStates
    /\ Push
    /\ stage' = Notified(stage)
    /\ UNCHANGED <<turns, cursorVars, sendOver, cleanupVars, taken, unread, ending,
                   clientVars>>

\* The cleanup has unsubscribed: the state changes unseen.
ControllerChangesUnseen ==
    /\ ~sendOver /\ cleanup # "none" /\ version < MaxStates
    /\ version' = version + 1
    /\ UNCHANGED <<turns, cursorVars, pending, sendOver, cleanupVars, streamVars,
                   clientVars>>

\* The finally of send: done, and a notification.
WakeAtEnd(place) == Notified(place)
SendSettles ==
    /\ ~sendOver
    /\ sendOver' = TRUE
    /\ stage' = WakeAtEnd(stage)
    /\ UNCHANGED <<turns, cursorVars, version, pending, cleanupVars, taken, unread, ending,
                   clientVars>>

-----------------------------------------------------------------------------
(* The signal, the cleanup and a crash *)

\* The listener stops the controller, whose subscriber is still there, and cleans up.
Abort ==
    /\ ~aborted /\ cleanup = "none"
    /\ aborted' = TRUE /\ cleanup' = "running"
    /\ \/ UNCHANGED <<version, pending, stage>>
       \/ /\ ~sendOver /\ version < MaxStates
          /\ Push /\ stage' = Notified(stage)
    /\ UNCHANGED <<turns, cursorVars, sendOver, transcript, taken, unread, ending,
                   clientVars>>

\* cleanup(): once.
BeginCleanup == cleanup' = IF cleanup = "none" THEN "running" ELSE cleanup

\* The client goes away: cancel() of the stream, whatever pull is doing.
Cancel ==
    /\ ending = "none"
    /\ ending' = "cancelled" /\ BeginCleanup
    /\ stage' = IF stage \in {"idle", "closed"} THEN "closed" ELSE stage
    /\ unread' = FALSE
    /\ UNCHANGED <<turns, cursorVars, controllerVars, aborted, transcript, taken,
                   clientVars>>

\* It waits for send, saves the messages and releases the turn.
CleanupEnds ==
    /\ cleanup = "running"
    /\ cleanup' = "over"
    /\ transcript' = version
    /\ storeCursor = ownCursor /\ storeCursor' = storeCursor + 1 /\ ownCursor' = storeCursor'
    /\ leased' = FALSE
    /\ UNCHANGED <<turns, controllerVars, aborted, streamVars, clientVars>>

\* A save or a release that fails, is given up, or is refused because the session object
\* has lost the cursor: pull, when it waits for the cleanup, adds a diagnostic.
CleanupFails ==
    /\ cleanup = "running"
    /\ cleanup' = "over"
    /\ transcript' \in {transcript, version}
    /\ \/ storeCursor = ownCursor /\ storeCursor' = storeCursor + 1 /\ leased' = FALSE
       \/ UNCHANGED <<storeCursor, leased>>
    /\ ending' = IF stage = "finishing" /\ ending = "none" THEN "diagnosed" ELSE ending
    /\ UNCHANGED <<turns, ownCursor, controllerVars, aborted, stage, taken, unread,
                   clientVars>>

\* The process dies: no more lines, and a session object that is lost.
ServerCrash ==
    /\ ~Between
    /\ stage' = "closed" /\ cleanup' = "over" /\ sendOver' = TRUE
    /\ ending' = "broken" /\ unread' = FALSE
    /\ UNCHANGED <<turns, cursorVars, version, pending, aborted, transcript, taken,
                   clientVars>>

-----------------------------------------------------------------------------
(* pull *)

\* The stream asks for a line when it has none and no pull is under way.
Pull ==
    /\ stage = "idle" /\ ~unread /\ ending = "none"
    /\ stage' = "checking"
    /\ UNCHANGED <<turns, cursorVars, controllerVars, cleanupVars, taken, unread, ending,
                   clientVars>>

\* Nothing to say: wait for a notification.
Wait ==
    /\ stage = "checking" /\ pending = 0 /\ ~sendOver /\ ~aborted
    /\ stage' = "asleep"
    /\ UNCHANGED <<turns, cursorVars, controllerVars, cleanupVars, taken, unread, ending,
                   clientVars>>

\* A pending state is taken, and the session persisted before it is sent.
Take ==
    /\ stage = "checking" /\ pending # 0 /\ ~aborted
    /\ taken' = pending /\ pending' = 0
    /\ stage' = "persisting"
    /\ UNCHANGED <<turns, cursorVars, version, sendOver, cleanupVars, unread, ending,
                   clientVars>>

\* close() comes after cleanup(), which another call of it does not wait for.
Closing == IF cleanup = "none" THEN "finishing" ELSE "closing"

\* Everything has been sent: the cleanup, and then the end of the stream.  (The wrong
\* variant looks at the end of send only.)
SendIsOver == sendOver
NothingLeft == sendOver /\ pending = 0
CloseNormally ==
    /\ stage = "checking" /\ ~aborted /\ NothingLeft
    /\ stage' = Closing /\ BeginCleanup
    /\ UNCHANGED <<turns, cursorVars, controllerVars, aborted, transcript, taken, unread,
                   ending, clientVars>>

\* A diagnostic, the cleanup, and the end.
Diagnose ==
    /\ unread' = (ending = "none")
    /\ ending' = IF ending = "none" THEN "diagnosed" ELSE ending
    /\ stage' = Closing /\ BeginCleanup

DiagnoseAbort ==
    /\ stage = "checking" /\ aborted
    /\ Diagnose
    /\ UNCHANGED <<turns, cursorVars, controllerVars, aborted, transcript, taken,
                   clientVars>>

\* The controller has refused the decision of the turn after it had changed its state.
DiagnoseRefusal ==
    /\ stage = "checking" /\ ~aborted /\ NothingLeft
    /\ Diagnose
    /\ UNCHANGED <<turns, cursorVars, controllerVars, aborted, transcript, taken,
                   clientVars>>

\* persist(), answered: the line has the cursor of the save.  (The wrong variant sends a
\* snapshot without one.)
SameCursor == ownCursor
NextCursor == ownCursor + 1
Enqueue ==
    /\ stage = "persisting" /\ storeCursor = ownCursor
    /\ storeCursor' = NextCursor /\ ownCursor' = NextCursor
    /\ IF ending = "none"
       THEN /\ lines' = Append(lines, [sequence |-> NextCursor, version |-> taken])
            /\ unread' = TRUE /\ stage' = "idle"
       ELSE stage' = "closed" /\ UNCHANGED <<lines, unread>>
    /\ UNCHANGED <<turns, leased, controllerVars, cleanupVars, taken, ending, shown>>

\* persist(), refused, failed or given up: it may have been stored nevertheless.
PersistFails ==
    /\ stage = "persisting"
    /\ Diagnose
    /\ \/ storeCursor = ownCursor /\ storeCursor' = storeCursor + 1
       \/ UNCHANGED storeCursor
    /\ UNCHANGED <<turns, ownCursor, leased, controllerVars, aborted, transcript, taken,
                   clientVars>>

CloseStream ==
    /\ \/ stage = "finishing" /\ cleanup = "over"
       \/ stage = "closing"
    /\ stage' = "closed"
    /\ ending' = IF ending = "none" THEN "complete" ELSE ending
    /\ UNCHANGED <<turns, cursorVars, controllerVars, cleanupVars, taken, unread,
                   clientVars>>

-----------------------------------------------------------------------------
(* The client *)

Read ==
    /\ unread
    /\ unread' = FALSE
    /\ UNCHANGED <<turns, cursorVars, controllerVars, cleanupVars, stage, taken, ending,
                   clientVars>>

\* A snapshot reaches the cursor, late or again.  (The wrong variant shows what comes.)
AppliesAny(line) == line # shown
Applies(line) == line.sequence > shown.sequence
Deliver ==
    /\ \E k \in DOMAIN lines : Applies(lines[k]) /\ shown' = lines[k]
    /\ UNCHANGED <<turns, cursorVars, controllerVars, cleanupVars, streamVars, lines>>

-----------------------------------------------------------------------------
PullStep ==
    \/ Pull \/ Wait \/ Take \/ CloseNormally \/ DiagnoseAbort \/ DiagnoseRefusal
    \/ Enqueue \/ PersistFails \/ CloseStream

TurnStreamNext ==
    \/ BeginTurn \/ ControllerChanges \/ ControllerChangesUnseen \/ SendSettles
    \/ Abort \/ Cancel \/ CleanupEnds \/ CleanupFails \/ ServerCrash
    \/ PullStep \/ Read \/ Deliver

\* A deadline aborts every request, send settles once the controller is stopped, the
\* deadlines end the cleanup and every wait of pull, and the client reads on.
TurnStreamFairness ==
    /\ WF_turnStreamVars(Abort)
    /\ WF_turnStreamVars(SendSettles /\ cleanup # "none")
    /\ WF_turnStreamVars(CleanupEnds \/ CleanupFails)
    /\ WF_turnStreamVars(PullStep)
    /\ WF_turnStreamVars(Read)

TurnStreamSpec == TurnStreamInit /\ [][TurnStreamNext]_turnStreamVars /\ TurnStreamFairness

-----------------------------------------------------------------------------
(* Properties *)

TurnStreamTypeOK ==
    /\ turns \in 0..MaxTurns /\ storeCursor \in Nat /\ ownCursor \in 0..storeCursor
    /\ version \in 0..MaxStates /\ pending \in 0..version /\ transcript \in 0..version
    /\ sendOver \in BOOLEAN /\ aborted \in BOOLEAN
    /\ cleanup \in {"none", "running", "over"} /\ leased \in BOOLEAN
    /\ stage \in {"idle", "checking", "asleep", "persisting", "finishing", "closing", "closed"}
    /\ taken \in 0..version /\ unread \in BOOLEAN
    /\ ending \in {"none", "complete", "diagnosed", "cancelled", "broken"}
    /\ lines \in Seq(Line) /\ shown \in Line

\* A response that ends without a diagnostic has sent the last state of the controller,
\* which is the one whose messages were saved, and has returned the turn: nothing is
\* lost between the notifications, the persists and the end of send.
CompleteShowsLast ==
    ending = "complete" =>
        /\ transcript = version /\ ~leased
        /\ taken # 0 => lines[Len(lines)].version = version

\* The snapshots of a session come in the order of its states, over failed persists,
\* crashes and turns: a client never goes back to an older state, however late or often
\* lines reach it, and never refuses a line that is newer than what it shows.
SnapshotsInOrder ==
    [][/\ shown.version <= shown'.version
       /\ \A k \in DOMAIN lines' \ DOMAIN lines :
             /\ shown.sequence < lines'[k].sequence
             /\ \A j \in DOMAIN lines : /\ lines[j].sequence < lines'[k].sequence
                                        /\ lines[j].version < lines'[k].version]_clientVars

\* Every response ends, for a client that keeps reading.
ResponseEnds == (stage # "closed") ~> (stage = "closed")

=============================================================================
