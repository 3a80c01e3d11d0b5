---------------------------- MODULE ToolDecisions ----------------------------
(***************************************************************************)
(* One confirmation-required tool call of a session, from its proposal to  *)
(* its decision: the submit and decide requests of createChatHandler       *)
(* (packages/server/src/index.ts) over the session snapshot, the chat      *)
(* memory and the row of createDrizzleDecisionStore                        *)
(* (packages/chat/src/drizzle-pg.ts).                                      *)
(*                                                                         *)
(* The upstream controller (decide, send) is external: it claims the row,  *)
(* runs the tool, settles and lets the model continue, and goes on when    *)
(* its request has stopped waiting for it.  Turns have ids of their own,   *)
(* requests carry no cost policy, and a lease runs out only when the       *)
(* request that took it is over (OneTranscriptHolder of ChatHandlerProofs).*)
(***************************************************************************)
EXTENDS FiniteSets, Naturals

CONSTANTS
    Request,    \* HTTP requests that may arrive
    NoRequest,  \* not a request
    MaxFaults   \* bound on crashes, failed saves and waits of a cleanup given up

ASSUME NoRequestAssumption == NoRequest \notin Request
ASSUME FaultAssumption == MaxFaults \in Nat

VARIABLES
    row,      \* the row of the call: status and decision
    memory,   \* the stored transcript, as what it tells
    lease,    \* the stored activeTurn: the request that took it
    lapsed,   \* requests whose lease has run out
    pc,       \* pc[r]: the wait request r is in
    kind,     \* kind[r]: submit, or the decision it brings
    seen,     \* seen[r]: the status of the row it has read
    held,     \* held[r]: the activeTurn of its session object
    current,  \* current[r]: its session object has the stored cursor
    said,     \* said[r]: the transcript of its controller
    task,     \* task[r]: what its controller is doing
    wire,     \* wire[r]: the transcript of its memory.save under way, if there is one
    answer,   \* answer[r]: its response
    told,     \* told[r]: the transcript of a replay
    runs,     \* how often the tool has run
    gaveUp,   \* requests that died, or ended before their work was saved
    faults    \* faults so far

stored == <<row, memory, lease, lapsed>>
session == <<held, current>>
controller == <<said, task>>
response == <<answer, told>>
past == <<runs, gaveUp, faults>>
decisionVars == <<stored, pc, kind, seen, session, controller, wire, response, past>>

-----------------------------------------------------------------------------
Decision == {"approve", "deny"}
Settled == {"complete", "failed", "denied"}

\* What a transcript tells: the call, its outcome, the turns of submit requests.
Transcript == SUBSET ({"call", "outcome"} \union Request)
Before == {"looking", "resuming", "checking", "recalling", "answering", "claiming", "rechecking"}
Working == {"loading", "streaming"}
Cleaning == {"settling", "saving", "releasing"}
Over == {"over", "claimOut", "releaseOut", "dead"}

Live(s) == s # NoRequest /\ s \notin lapsed

DecisionsInit ==
    /\ \/ row = [status |-> "none", decision |-> "none"] /\ memory = {}
       \/ row = [status |-> "pending", decision |-> "none"] /\ memory = {"call"}
    /\ lease = NoRequest /\ lapsed = {}
    /\ pc = [r \in Request |-> "idle"]
    /\ kind = [r \in Request |-> "submit"]
    /\ seen = [r \in Request |-> "none"]
    /\ held = [r \in Request |-> NoRequest]
    /\ current = [r \in Request |-> FALSE]
    /\ said = [r \in Request |-> {}]
    /\ task = [r \in Request |-> "none"]
    /\ wire = [r \in Request |-> {}]
    /\ answer = [r \in Request |-> "none"]
    /\ told = [r \in Request |-> {}]
    /\ runs = 0 /\ gaveUp = {} /\ faults = 0

-----------------------------------------------------------------------------
(* Moves that several steps share *)

Goto(r, place) == pc' = [pc EXCEPT ![r] = place]
Answer(r, what) == answer' = [answer EXCEPT ![r] = what]
End(r, what) == Goto(r, "over") /\ Answer(r, what)

\* A save of the session snapshot leaves one session object with its cursor.
Saved(r) == current' = [s \in Request |-> s = r]

GiveUp(r) ==
    /\ faults < MaxFaults
    /\ faults' = faults + 1
    /\ gaveUp' = gaveUp \union {r}

-----------------------------------------------------------------------------
(* The request before it has a lease *)

Arrive(r) ==
    /\ pc[r] = "idle"
    /\ \E k \in {"submit"} \union Decision :
          /\ kind' = [kind EXCEPT ![r] = k]
          /\ Goto(r, IF k = "submit" THEN "resuming" ELSE "looking")
    /\ UNCHANGED <<stored, seen, session, controller, wire, response, past>>

\* decisions.get: no row is 404, a row with the other decision 409.
LookUp(r) ==
    /\ pc[r] = "looking"
    /\ seen' = [seen EXCEPT ![r] = row.status]
    /\ \/ row.status = "none" /\ End(r, "notFound")
       \/ /\ row.status \notin {"none", "pending"} /\ row.decision # kind[r]
          /\ End(r, "already")
       \/ /\ row.status = "pending" \/ row.decision = kind[r]
          /\ Goto(r, "resuming") /\ UNCHANGED answer
    /\ UNCHANGED <<stored, kind, session, controller, wire, told, past>>

\* resumeChatSession: the session object of this request.
Resume(r) ==
    /\ pc[r] = "resuming"
    /\ held' = [held EXCEPT ![r] = lease]
    /\ current' = [current EXCEPT ![r] = TRUE]
    /\ Goto(r, IF seen[r] \in Settled THEN "checking" ELSE "claiming")
    /\ UNCHANGED <<stored, kind, seen, controller, wire, response, past>>

\* A settled decision: not while a turn is active.  (The wrong variant trusts that
\* the turn of the decision is over once the row is settled.)
SettledIsOver(r) == TRUE
NoActiveTurn(r) == ~Live(lease)
CheckActive(r) ==
    /\ pc[r] = "checking"
    /\ \/ NoActiveTurn(r) /\ Goto(r, "recalling") /\ UNCHANGED answer
       \/ ~NoActiveTurn(r) /\ End(r, "already")
    /\ UNCHANGED <<stored, kind, seen, session, controller, wire, told, past>>

\* The stored transcript; the messages of the proposal's row when there is none.
Recall(r) ==
    /\ pc[r] = "recalling"
    /\ told' = [told EXCEPT ![r] = IF memory = {} THEN {"call"} ELSE memory]
    /\ Goto(r, "answering")
    /\ UNCHANGED <<stored, kind, seen, session, controller, wire, answer, past>>

\* The replay takes a cursor of its own and answers with what it has loaded.
Replay(r) ==
    /\ pc[r] = "answering"
    /\ \/ current[r] /\ Saved(r) /\ End(r, "replay")
       \/ ~current[r] /\ UNCHANGED current /\ End(r, "conflict")
    /\ UNCHANGED <<stored, kind, seen, held, controller, wire, told, past>>

\* claimTurn: refused when the session object shows a live lease, else a save.  (The
\* wrong variant does not look.)
FreeAlways(r) == TRUE
ClaimFree(r) == ~Live(held[r])
ClaimTurn(r) ==
    /\ pc[r] \in {"claiming", "claimOut"}
    /\ \/ /\ pc[r] = "claiming" /\ ~ClaimFree(r)
          /\ IF kind[r] = "submit" THEN End(r, "busy")
             ELSE Goto(r, "rechecking") /\ UNCHANGED answer
          /\ UNCHANGED <<lease, session>>
       \/ /\ ClaimFree(r) /\ current[r]
          /\ lease' = r /\ held' = [held EXCEPT ![r] = r] /\ Saved(r)
          /\ Goto(r, IF pc[r] = "claiming" THEN "loading" ELSE "over")
          /\ UNCHANGED answer
       \/ /\ pc[r] = "claiming" /\ ClaimFree(r) /\ ~current[r]
          /\ End(r, "conflict")
          /\ UNCHANGED <<lease, session>>
    /\ UNCHANGED <<row, memory, lapsed, kind, seen, controller, wire, told, past>>

\* A decision that lost the lease to the one that was taken is decided, not busy.
Recheck(r) ==
    /\ pc[r] = "rechecking"
    /\ End(r, IF row.status = "pending" THEN "busy" ELSE "already")
    /\ UNCHANGED <<stored, kind, seen, session, controller, wire, told, past>>

-----------------------------------------------------------------------------
(* The turn *)

\* memory.load, then the controller, which is asked to decide or to send.
Load(r) ==
    /\ pc[r] = "loading"
    /\ Goto(r, "streaming")
    /\ said' = [said EXCEPT ![r] = memory \union (IF kind[r] = "submit" THEN {r} ELSE {})]
    /\ task' = [task EXCEPT ![r] = IF kind[r] = "submit" THEN "generating" ELSE "claiming"]
    /\ UNCHANGED <<stored, kind, seen, session, wire, response, past>>

\* The model answers, or calls the tool: putPending inserts the row if it is absent,
\* and is refused for a call that is not pending any more.
Generate(r) ==
    /\ task[r] = "generating"
    /\ \/ UNCHANGED <<row, said>>
       \/ /\ row.status = "none"
          /\ row' = [row EXCEPT !.status = "pending"]
          /\ said' = [said EXCEPT ![r] = @ \union {"call"}]
    /\ task' = [task EXCEPT ![r] = "ended"]
    /\ UNCHANGED <<memory, lease, lapsed, pc, kind, seen, session, wire, response, past>>

\* The conditional UPDATE that admits one execution.  (The wrong variant admits a
\* claimed row again.)
ClaimableWhileOpen == row.status \in {"pending", "claimed"}
Claimable == row.status = "pending"
ClaimRow(r) ==
    /\ task[r] = "claiming"
    /\ \/ /\ Claimable
          /\ row' = [status |-> "claimed", decision |-> kind[r]]
          /\ task' = [task EXCEPT ![r] = IF kind[r] = "approve" THEN "running" ELSE "settling"]
          /\ Answer(r, "stream")
          /\ UNCHANGED said
       \/ /\ ~Claimable
          /\ UNCHANGED row
          /\ task' = [task EXCEPT ![r] = "ended"]
          /\ \/ row.status # "none" /\ Answer(r, "already") /\ UNCHANGED said
             \/ row.status = "none" /\ Answer(r, "notFound") /\ UNCHANGED said
             \/ /\ row.status \in Settled /\ row.decision = kind[r]
                /\ Answer(r, "stream")
                /\ said' = [said EXCEPT ![r] = @ \union {"outcome"}]
    /\ UNCHANGED <<memory, lease, lapsed, pc, kind, seen, session, wire, told, past>>

RunTool(r) ==
    /\ task[r] = "running"
    /\ runs' = runs + 1
    /\ task' = [task EXCEPT ![r] = "settling"]
    /\ UNCHANGED <<stored, pc, kind, seen, session, said, wire, response, gaveUp, faults>>

\* The UPDATE of settle needs the matching claim, else it throws.
SettleRow(r) ==
    /\ task[r] = "settling"
    /\ \/ /\ row.status = "claimed" /\ row.decision = kind[r]
          /\ \E s \in IF kind[r] = "approve" THEN {"complete", "failed"} ELSE {"denied"} :
                row' = [row EXCEPT !.status = s]
          /\ said' = [said EXCEPT ![r] = @ \union {"outcome"}]
          /\ task' = [task EXCEPT ![r] = "continuing"]
       \/ /\ ~(row.status = "claimed" /\ row.decision = kind[r])
          /\ task' = [task EXCEPT ![r] = "ended"]
          /\ UNCHANGED <<row, said>>
    /\ UNCHANGED <<memory, lease, lapsed, pc, kind, seen, session, wire, response, past>>

\* The model resumes with the outcome, in the same response.
Continue(r) ==
    /\ task[r] = "continuing"
    /\ task' = [task EXCEPT ![r] = "ended"]
    /\ UNCHANGED <<stored, pc, kind, seen, session, said, wire, response, past>>

\* Every snapshot of the stream is persisted first; a conflict ends the stream.
Snapshot(r) ==
    /\ pc[r] = "streaming"
    /\ \/ current[r] /\ Saved(r) /\ UNCHANGED pc
       \/ ~current[r] /\ Goto(r, "settling") /\ UNCHANGED current
    /\ UNCHANGED <<stored, kind, seen, held, controller, wire, response, past>>

\* The end of send, a deadline or the client ends the stream: cleanup.
Finish(r) ==
    /\ pc[r] = "streaming"
    /\ Goto(r, "settling")
    /\ UNCHANGED <<stored, kind, seen, session, controller, wire, response, past>>

-----------------------------------------------------------------------------
(* The cleanup *)

Save(r) == wire' = [wire EXCEPT ![r] = {said[r]}] /\ Goto(r, "saving")

SendSettled(r) ==
    /\ pc[r] = "settling" /\ task[r] = "ended"
    /\ Save(r)
    /\ UNCHANGED <<stored, kind, seen, session, controller, response, past>>

SendGivenUp(r) ==
    /\ pc[r] = "settling" /\ task[r] # "ended"
    /\ Save(r) /\ GiveUp(r)
    /\ UNCHANGED <<stored, kind, seen, session, controller, response, runs>>

\* memory.save: it may land after the request has stopped waiting for it.
SaveLands(r) ==
    /\ wire[r] # {} /\ memory' \in wire[r]
    /\ wire' = [wire EXCEPT ![r] = {}]
    /\ IF pc[r] = "saving" THEN Goto(r, "releasing") ELSE UNCHANGED pc
    /\ UNCHANGED <<row, lease, lapsed, kind, seen, session, controller, response, past>>

SaveFails(r) ==
    /\ pc[r] = "saving"
    /\ Goto(r, "releasing") /\ GiveUp(r)
    /\ \/ UNCHANGED wire
       \/ wire' = [wire EXCEPT ![r] = {}]
    /\ UNCHANGED <<stored, kind, seen, session, controller, response, runs>>

\* releaseTurn: a save without the lease, if the session object is still current.
ReleaseTurn(r) ==
    /\ pc[r] \in {"releasing", "releaseOut"}
    /\ Goto(r, "over")
    /\ \/ /\ current[r] /\ Saved(r)
          /\ lease' = NoRequest /\ held' = [held EXCEPT ![r] = NoRequest]
       \/ ~current[r] /\ UNCHANGED <<lease, session>>
    /\ UNCHANGED <<row, memory, lapsed, kind, seen, controller, wire, response, past>>

-----------------------------------------------------------------------------
(* Deadlines, disconnects, crashes and time *)

\* A wait ends early: before the lease with an error, with it in the release.
CutShort(r) ==
    /\ \/ pc[r] \in Before \ {"claiming"} /\ End(r, "aborted")
       \/ pc[r] = "claiming" /\ Goto(r, "claimOut") /\ Answer(r, "aborted")
       \/ pc[r] = "loading" /\ Goto(r, "releasing") /\ Answer(r, "aborted")
       \/ pc[r] = "releasing" /\ Goto(r, "releaseOut") /\ UNCHANGED answer
    /\ UNCHANGED <<stored, kind, seen, session, controller, wire, told, past>>

\* The process of the request dies, with its controller; a save sent may still land.
Crash(r) ==
    /\ pc[r] \in Before \union Working \union Cleaning \union {"over", "claimOut", "releaseOut"}
    /\ pc[r] \in Before \union Working \union Cleaning \/ task[r] \notin {"none", "ended"}
    /\ Goto(r, "dead") /\ GiveUp(r)
    /\ task' = [task EXCEPT ![r] = "none"]
    /\ UNCHANGED <<stored, kind, seen, session, said, wire, response, runs>>

\* The lease of a request that is over runs out.
Lapse(r) ==
    /\ lease = r /\ pc[r] \in Over /\ r \notin lapsed
    /\ lapsed' = lapsed \union {r}
    /\ UNCHANGED <<row, memory, lease, pc, kind, seen, session, controller, wire, response, past>>

-----------------------------------------------------------------------------
Enter(r) ==
    \/ Arrive(r) \/ LookUp(r) \/ Resume(r) \/ CheckActive(r) \/ Recall(r) \/ Replay(r)
    \/ ClaimTurn(r) \/ Recheck(r)

Work(r) ==
    \/ Load(r) \/ Generate(r) \/ ClaimRow(r) \/ RunTool(r) \/ SettleRow(r) \/ Continue(r)
    \/ Snapshot(r) \/ Finish(r)

CleanUp(r) ==
    \/ SendSettled(r) \/ SendGivenUp(r) \/ SaveLands(r) \/ SaveFails(r) \/ ReleaseTurn(r)

DecisionsNext == \E r \in Request : Enter(r) \/ Work(r) \/ CleanUp(r) \/ CutShort(r) \/ Crash(r) \/ Lapse(r)

DecisionsSpec == DecisionsInit /\ [][DecisionsNext]_decisionVars

-----------------------------------------------------------------------------
(* Properties *)

DecisionsTypeOK ==
    /\ row \in [status : {"none", "pending", "claimed"} \union Settled,
                decision : Decision \union {"none"}]
    /\ memory \in Transcript
    /\ lease \in Request \union {NoRequest} /\ lapsed \subseteq Request
    /\ pc \in [Request -> {"idle"} \union Before \union Working \union Cleaning \union Over]
    /\ kind \in [Request -> {"submit"} \union Decision]
    /\ seen \in [Request -> {"none", "pending", "claimed"} \union Settled]
    /\ held \in [Request -> Request \union {NoRequest}]
    /\ current \in [Request -> BOOLEAN]
    /\ said \in [Request -> Transcript]
    /\ task \in [Request -> {"none", "generating", "claiming", "running", "settling",
                             "continuing", "ended"}]
    /\ wire \in [Request -> SUBSET Transcript]
    /\ told \in [Request -> Transcript]
    /\ answer \in [Request -> {"none", "notFound", "already", "busy", "conflict", "aborted",
                               "stream", "replay"}]
    /\ runs \in Nat /\ gaveUp \subseteq Request /\ faults \in Nat

Once == INSTANCE ActionDecision WITH
    status <- row.status,
    decision <- row.decision,
    runs <- runs,
    told <- {kind[r] : r \in {q \in Request : answer[q] = "replay"}}

\* The handler, the store and the lease together keep the promise of an action
\* decision, crashes included: requests that race for one call claim it once, run its
\* tool once, settle it once, and a replay names the decision that was taken.
DecidedOnce == Once!Spec

\* A replay tells the outcome: the handler does not answer from a memory that the
\* deciding turn has yet to save, unless some request gave its work up half way.
ReplayTellsOutcome ==
    \A r \in Request : answer[r] = "replay" /\ gaveUp = {} => "outcome" \in told[r]

\* The request that holds the live lease can save: no claim, replay or release of
\* another request takes the cursor from under it.
HolderCurrent ==
    \A r \in Request :
        lease = r /\ Live(r) /\ pc[r] \in Working \union Cleaning => current[r]

\* As long as no request gave its work up half way, the transcript only grows: turns
\* that read it, work and save it never overwrite each other.
TranscriptKept == [][gaveUp = {} => memory \subseteq memory']_memory

=============================================================================
