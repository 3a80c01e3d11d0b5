------------------------ MODULE ToolDecisionsProofs ------------------------
(***************************************************************************)
(* Theorems about ToolDecisions, for any requests and any bound on the     *)
(* faults.  LeaseInv: whoever works has the lease, is alone with it and    *)
(* can save.  RowInv: the row follows the claim of the one request that    *)
(* runs or settles.  MemoryInv: as long as nobody gave up, the memory      *)
(* grows and has the outcome before a replay reads it.                     *)
(***************************************************************************)
EXTENDS ToolDecisions, TLAPS

Busy == Working \union Cleaning

\* Who works holds the lease, which no save of another request has taken; who is about
\* to replay either sees no live lease or has lost its cursor.
LeaseInv ==
    /\ \A r \in Request : current[r] => held[r] = lease
    /\ \A r \in lapsed : pc[r] \in Over
    /\ \A r \in Request : pc[r] \in Busy => lease = r /\ current[r]
    /\ \A r \in Request : pc[r] \in Busy \union {"releaseOut"} => held[r] = r
    /\ \A r \in Request : pc[r] \in {"recalling", "answering"} /\ current[r] => ~Live(lease)

\* A controller exists once its request has loaded the transcript, and decides for a
\* request that brought a decision.
TaskInv ==
    /\ \A r \in Request : pc[r] \in {"idle", "loading"} \union Before => task[r] = "none"
    /\ \A r \in Request : task[r] \in {"claiming", "running", "settling", "continuing"} =>
          kind[r] \in Decision

\* One controller at a time runs or settles what it has claimed.
ClaimInv ==
    /\ row.status \in {"none", "pending"} => runs = 0
    /\ \A r \in Request : task[r] \in {"running", "settling"} =>
          /\ row.status = "claimed" /\ row.decision = kind[r]
          /\ task[r] = "running" => kind[r] = "approve" /\ runs = 0
          /\ task[r] = "settling" /\ kind[r] = "approve" => runs = 1
    /\ \A r, s \in Request :
          task[r] \in {"running", "settling"} /\ task[s] \in {"running", "settling"} => r = s

\* Who replays has seen the row settled with the decision it brings.
ReplayInv ==
    /\ \A r \in Request : pc[r] = "idle" => seen[r] = "none"
    /\ \A r \in Request :
          \/ pc[r] = "resuming" /\ seen[r] \in Settled
          \/ pc[r] \in {"checking", "recalling", "answering"}
          => row.status \in Settled /\ row.decision = kind[r]
    /\ \A r \in Request : answer[r] = "replay" =>
          /\ pc[r] \in {"over", "dead"} /\ task[r] = "none"
          /\ row.status \in Settled /\ row.decision = kind[r]

RowInv == TaskInv /\ ClaimInv /\ ReplayInv

Saving == {"streaming", "settling", "saving"}

\* What is on the wire is what its controller tells, which has all that the memory has.
WireInv ==
    /\ \A r \in Request : wire[r] # {} => pc[r] = "saving" /\ wire[r] = {said[r]}
    /\ \A r \in Request : task[r] \notin {"none", "ended"} => pc[r] \in {"streaming", "settling"}
    /\ \A r \in Request : pc[r] \in Saving => memory \subseteq said[r]

\* The outcome of a settled row is in the memory, or on its way there.
OutcomeInv ==
    /\ row.status \in Settled =>
          \/ "outcome" \in memory
          \/ \E r \in Request : pc[r] \in Saving /\ "outcome" \in said[r]
    /\ \A r \in Request : pc[r] = "recalling" => "outcome" \in memory
    /\ \A r \in Request : pc[r] = "answering" \/ answer[r] = "replay" => "outcome" \in told[r]

MemoryInv == gaveUp = {} => WireInv /\ OutcomeInv

DecisionsInv == DecisionsTypeOK /\ LeaseInv /\ RowInv /\ MemoryInv

\* A save of one request leaves it the only one with the stored cursor.
LEMMA SavedCursor ==
  ASSUME NEW r \in Request, Saved(r)
  PROVE  /\ current' \in [Request -> BOOLEAN]
         /\ \A s \in Request : current'[s] <=> s = r
<1>1. current' = [s \in Request |-> s = r]
  BY DEF Saved
<1> QED
  BY <1>1, Zenon


\* Types are kept.
LEMMA TypeStep ==
  ASSUME DecisionsTypeOK, TaskInv, [DecisionsNext]_decisionVars
  PROVE  DecisionsTypeOK'
<1> USE NoRequestAssumption, FaultAssumption
        DEF DecisionsTypeOK, TaskInv, Transcript, Before, Working, Cleaning, Over,
           Decision, Settled, stored, session, controller, response, past
<1>1. ASSUME NEW r \in Request, Arrive(r) PROVE DecisionsTypeOK'
  BY <1>1 DEF Arrive, Goto
<1>2. ASSUME NEW r \in Request, LookUp(r) PROVE DecisionsTypeOK'
  BY <1>2 DEF LookUp, Goto, End, Answer
<1>3. ASSUME NEW r \in Request, Resume(r) PROVE DecisionsTypeOK'
  BY <1>3 DEF Resume, Goto
<1>4. ASSUME NEW r \in Request, CheckActive(r) PROVE DecisionsTypeOK'
  BY <1>4 DEF CheckActive, Goto, End, Answer, NoActiveTurn
<1>5. ASSUME NEW r \in Request, Recall(r) PROVE DecisionsTypeOK'
  BY <1>5 DEF Recall, Goto
<1>6. ASSUME NEW r \in Request, Replay(r) PROVE DecisionsTypeOK'
  <2>1. current' \in [Request -> BOOLEAN]
    BY <1>6, SavedCursor DEF Replay
  <2> QED
    BY <1>6, <2>1 DEF Replay, Goto, End, Answer
<1>7. ASSUME NEW r \in Request, ClaimTurn(r) PROVE DecisionsTypeOK'
  <2>1. current' \in [Request -> BOOLEAN]
    BY <1>7, SavedCursor DEF ClaimTurn
  <2> QED
    BY <1>7, <2>1 DEF ClaimTurn, Goto, End, Answer, ClaimFree
<1>8. ASSUME NEW r \in Request, Recheck(r) PROVE DecisionsTypeOK'
  BY <1>8 DEF Recheck, Goto, End, Answer
<1>9. ASSUME NEW r \in Request, Load(r) PROVE DecisionsTypeOK'
  BY <1>9 DEF Load, Goto
<1>10. ASSUME NEW r \in Request, Generate(r) PROVE DecisionsTypeOK'
  BY <1>10 DEF Generate
<1>11. ASSUME NEW r \in Request, ClaimRow(r) PROVE DecisionsTypeOK'
  BY <1>11 DEF ClaimRow, Answer, Claimable
<1>12. ASSUME NEW r \in Request, RunTool(r) PROVE DecisionsTypeOK'
  BY <1>12 DEF RunTool
<1>13. ASSUME NEW r \in Request, SettleRow(r) PROVE DecisionsTypeOK'
  BY <1>13 DEF SettleRow
<1>14. ASSUME NEW r \in Request, Continue(r) PROVE DecisionsTypeOK'
  BY <1>14 DEF Continue
<1>15. ASSUME NEW r \in Request, Snapshot(r) PROVE DecisionsTypeOK'
  <2>1. current' \in [Request -> BOOLEAN]
    BY <1>15, SavedCursor DEF Snapshot
  <2> QED
    BY <1>15, <2>1 DEF Snapshot, Goto
<1>16. ASSUME NEW r \in Request, Finish(r) PROVE DecisionsTypeOK'
  BY <1>16 DEF Finish, Goto
<1>17. ASSUME NEW r \in Request, SendSettled(r) PROVE DecisionsTypeOK'
  BY <1>17 DEF SendSettled, Goto, Save
<1>18. ASSUME NEW r \in Request, SendGivenUp(r) PROVE DecisionsTypeOK'
  BY <1>18 DEF SendGivenUp, Goto, Save, GiveUp
<1>19. ASSUME NEW r \in Request, SaveLands(r) PROVE DecisionsTypeOK'
  BY <1>19 DEF SaveLands, Goto
<1>20. ASSUME NEW r \in Request, SaveFails(r) PROVE DecisionsTypeOK'
  BY <1>20 DEF SaveFails, Goto, GiveUp
<1>21. ASSUME NEW r \in Request, ReleaseTurn(r) PROVE DecisionsTypeOK'
  <2>1. current' \in [Request -> BOOLEAN]
    BY <1>21, SavedCursor DEF ReleaseTurn
  <2> QED
    BY <1>21, <2>1 DEF ReleaseTurn, Goto
<1>22. ASSUME NEW r \in Request, CutShort(r) PROVE DecisionsTypeOK'
  BY <1>22 DEF CutShort, Goto, End, Answer
<1>23. ASSUME NEW r \in Request, Crash(r) PROVE DecisionsTypeOK'
  BY <1>23 DEF Crash, Goto, GiveUp
<1>24. ASSUME NEW r \in Request, Lapse(r) PROVE DecisionsTypeOK'
  BY <1>24 DEF Lapse
<1>25. CASE UNCHANGED decisionVars
  BY <1>25 DEF decisionVars, stored, session, controller, response, past
<1> QED
  BY <1>1, <1>2, <1>3, <1>4, <1>5, <1>6, <1>7, <1>8, <1>9, <1>10, <1>11, <1>12,
     <1>13, <1>14, <1>15, <1>16, <1>17, <1>18, <1>19, <1>20, <1>21, <1>22, <1>23,
     <1>24, <1>25
  DEF DecisionsNext, Enter, Work, CleanUp

\* The lease: every save goes by the cursor, and a claim finds no live lease.
LEMMA LeaseStep ==
  ASSUME DecisionsTypeOK, LeaseInv, [DecisionsNext]_decisionVars
  PROVE  LeaseInv'
<1> USE NoRequestAssumption, FaultAssumption
        DEF DecisionsTypeOK, LeaseInv, Busy, Live, Before, Working, Cleaning, Over,
           Decision, Settled, stored, session, controller, response, past
<1>1. ASSUME NEW r \in Request, Arrive(r) PROVE LeaseInv'
  BY <1>1 DEF Arrive, Goto
<1>2. ASSUME NEW r \in Request, LookUp(r) PROVE LeaseInv'
  BY <1>2 DEF LookUp, Goto, End, Answer
<1>3. ASSUME NEW r \in Request, Resume(r) PROVE LeaseInv'
  BY <1>3 DEF Resume, Goto
<1>4. ASSUME NEW r \in Request, CheckActive(r) PROVE LeaseInv'
  BY <1>4 DEF CheckActive, Goto, End, Answer, NoActiveTurn
<1>5. ASSUME NEW r \in Request, Recall(r) PROVE LeaseInv'
  BY <1>5 DEF Recall, Goto
<1>6. ASSUME NEW r \in Request, Replay(r) PROVE LeaseInv'
  BY <1>6 DEF Replay, Goto, End, Answer, Saved
<1>7. ASSUME NEW r \in Request, ClaimTurn(r) PROVE LeaseInv'
  <2>1. Saved(r) \/ UNCHANGED <<lease, held, current>>
    BY <1>7 DEF ClaimTurn
  <2>2. CASE UNCHANGED <<lease, held, current>>
    BY <1>7, <2>2 DEF ClaimTurn, Goto, End, Answer, ClaimFree
  <2>3. CASE Saved(r)
    <3>1. \A s \in Request : current'[s] <=> s = r
      BY <2>3, SavedCursor
    <3> QED
      BY <1>7, <3>1 DEF ClaimTurn, Goto, End, Answer, ClaimFree
  <2> QED
    BY <2>1, <2>2, <2>3
<1>8. ASSUME NEW r \in Request, Recheck(r) PROVE LeaseInv'
  BY <1>8 DEF Recheck, Goto, End, Answer
<1>9. ASSUME NEW r \in Request, Load(r) PROVE LeaseInv'
  BY <1>9 DEF Load, Goto
<1>10. ASSUME NEW r \in Request, Generate(r) PROVE LeaseInv'
  BY <1>10 DEF Generate
<1>11. ASSUME NEW r \in Request, ClaimRow(r) PROVE LeaseInv'
  BY <1>11 DEF ClaimRow, Answer, Claimable
<1>12. ASSUME NEW r \in Request, RunTool(r) PROVE LeaseInv'
  BY <1>12 DEF RunTool
<1>13. ASSUME NEW r \in Request, SettleRow(r) PROVE LeaseInv'
  BY <1>13 DEF SettleRow
<1>14. ASSUME NEW r \in Request, Continue(r) PROVE LeaseInv'
  BY <1>14 DEF Continue
<1>15. ASSUME NEW r \in Request, Snapshot(r) PROVE LeaseInv'
  BY <1>15 DEF Snapshot, Goto, Saved
<1>16. ASSUME NEW r \in Request, Finish(r) PROVE LeaseInv'
  BY <1>16 DEF Finish, Goto
<1>17. ASSUME NEW r \in Request, SendSettled(r) PROVE LeaseInv'
  BY <1>17 DEF SendSettled, Goto, Save
<1>18. ASSUME NEW r \in Request, SendGivenUp(r) PROVE LeaseInv'
  BY <1>18 DEF SendGivenUp, Goto, Save, GiveUp
<1>19. ASSUME NEW r \in Request, SaveLands(r) PROVE LeaseInv'
  BY <1>19 DEF SaveLands, Goto
<1>20. ASSUME NEW r \in Request, SaveFails(r) PROVE LeaseInv'
  BY <1>20 DEF SaveFails, Goto, GiveUp
<1>21. ASSUME NEW r \in Request, ReleaseTurn(r) PROVE LeaseInv'
  <2>1. Saved(r) \/ UNCHANGED <<lease, held, current>>
    BY <1>21 DEF ReleaseTurn
  <2>2. CASE UNCHANGED <<lease, held, current>>
    BY <1>21, <2>2 DEF ReleaseTurn, Goto
  <2>3. CASE Saved(r)
    <3>1. \A s \in Request : current'[s] <=> s = r
      BY <2>3, SavedCursor
    <3> QED
      BY <1>21, <3>1 DEF ReleaseTurn, Goto
  <2> QED
    BY <2>1, <2>2, <2>3
<1>22. ASSUME NEW r \in Request, CutShort(r) PROVE LeaseInv'
  BY <1>22 DEF CutShort, Goto, End, Answer
<1>23. ASSUME NEW r \in Request, Crash(r) PROVE LeaseInv'
  BY <1>23 DEF Crash, Goto, GiveUp
<1>24. ASSUME NEW r \in Request, Lapse(r) PROVE LeaseInv'
  BY <1>24 DEF Lapse
<1>25. CASE UNCHANGED decisionVars
  BY <1>25 DEF decisionVars, stored, session, controller, response, past
<1> QED
  BY <1>1, <1>2, <1>3, <1>4, <1>5, <1>6, <1>7, <1>8, <1>9, <1>10, <1>11, <1>12,
     <1>13, <1>14, <1>15, <1>16, <1>17, <1>18, <1>19, <1>20, <1>21, <1>22, <1>23,
     <1>24, <1>25
  DEF DecisionsNext, Enter, Work, CleanUp

\* The controller of a request.
LEMMA TaskStep ==
  ASSUME DecisionsTypeOK, TaskInv, [DecisionsNext]_decisionVars
  PROVE  TaskInv'
<1> USE NoRequestAssumption, FaultAssumption
        DEF DecisionsTypeOK, TaskInv, Before, Working, Cleaning, Over, Decision,
           Settled, stored, session, controller, response, past
<1>1. ASSUME NEW r \in Request, Arrive(r) PROVE TaskInv'
  BY <1>1 DEF Arrive, Goto
<1>2. ASSUME NEW r \in Request, LookUp(r) PROVE TaskInv'
  BY <1>2 DEF LookUp, Goto, End, Answer
<1>3. ASSUME NEW r \in Request, Resume(r) PROVE TaskInv'
  BY <1>3 DEF Resume, Goto
<1>4. ASSUME NEW r \in Request, CheckActive(r) PROVE TaskInv'
  BY <1>4 DEF CheckActive, Goto, End, Answer, NoActiveTurn
<1>5. ASSUME NEW r \in Request, Recall(r) PROVE TaskInv'
  BY <1>5 DEF Recall, Goto
<1>6. ASSUME NEW r \in Request, Replay(r) PROVE TaskInv'
  BY <1>6 DEF Replay, Goto, End, Answer, Saved
<1>7. ASSUME NEW r \in Request, ClaimTurn(r) PROVE TaskInv'
  BY <1>7 DEF ClaimTurn, Goto, End, Answer, Saved, ClaimFree
<1>8. ASSUME NEW r \in Request, Recheck(r) PROVE TaskInv'
  BY <1>8 DEF Recheck, Goto, End, Answer
<1>9. ASSUME NEW r \in Request, Load(r) PROVE TaskInv'
  BY <1>9 DEF Load, Goto
<1>10. ASSUME NEW r \in Request, Generate(r) PROVE TaskInv'
  BY <1>10 DEF Generate
<1>11. ASSUME NEW r \in Request, ClaimRow(r) PROVE TaskInv'
  BY <1>11 DEF ClaimRow, Answer, Claimable
<1>12. ASSUME NEW r \in Request, RunTool(r) PROVE TaskInv'
  BY <1>12 DEF RunTool
<1>13. ASSUME NEW r \in Request, SettleRow(r) PROVE TaskInv'
  BY <1>13 DEF SettleRow
<1>14. ASSUME NEW r \in Request, Continue(r) PROVE TaskInv'
  BY <1>14 DEF Continue
<1>15. ASSUME NEW r \in Request, Snapshot(r) PROVE TaskInv'
  BY <1>15 DEF Snapshot, Goto, Saved
<1>16. ASSUME NEW r \in Request, Finish(r) PROVE TaskInv'
  BY <1>16 DEF Finish, Goto
<1>17. ASSUME NEW r \in Request, SendSettled(r) PROVE TaskInv'
  BY <1>17 DEF SendSettled, Goto, Save
<1>18. ASSUME NEW r \in Request, SendGivenUp(r) PROVE TaskInv'
  BY <1>18 DEF SendGivenUp, Goto, Save, GiveUp
<1>19. ASSUME NEW r \in Request, SaveLands(r) PROVE TaskInv'
  BY <1>19 DEF SaveLands, Goto
<1>20. ASSUME NEW r \in Request, SaveFails(r) PROVE TaskInv'
  BY <1>20 DEF SaveFails, Goto, GiveUp
<1>21. ASSUME NEW r \in Request, ReleaseTurn(r) PROVE TaskInv'
  BY <1>21 DEF ReleaseTurn, Goto, Saved
<1>22. ASSUME NEW r \in Request, CutShort(r) PROVE TaskInv'
  BY <1>22 DEF CutShort, Goto, End, Answer
<1>23. ASSUME NEW r \in Request, Crash(r) PROVE TaskInv'
  BY <1>23 DEF Crash, Goto, GiveUp
<1>24. ASSUME NEW r \in Request, Lapse(r) PROVE TaskInv'
  BY <1>24 DEF Lapse
<1>25. CASE UNCHANGED decisionVars
  BY <1>25 DEF decisionVars, stored, session, controller, response, past
<1> QED
  BY <1>1, <1>2, <1>3, <1>4, <1>5, <1>6, <1>7, <1>8, <1>9, <1>10, <1>11, <1>12,
     <1>13, <1>14, <1>15, <1>16, <1>17, <1>18, <1>19, <1>20, <1>21, <1>22, <1>23,
     <1>24, <1>25
  DEF DecisionsNext, Enter, Work, CleanUp

\* The claim of a row admits one controller.
LEMMA ClaimStep ==
  ASSUME DecisionsTypeOK, TaskInv, ClaimInv, [DecisionsNext]_decisionVars
  PROVE  ClaimInv'
<1> USE NoRequestAssumption, FaultAssumption
        DEF DecisionsTypeOK, TaskInv, ClaimInv, Before, Working, Cleaning, Over,
           Decision, Settled, stored, session, controller, response, past
<1>1. ASSUME NEW r \in Request, Arrive(r) PROVE ClaimInv'
  BY <1>1 DEF Arrive, Goto
<1>2. ASSUME NEW r \in Request, LookUp(r) PROVE ClaimInv'
  BY <1>2 DEF LookUp, Goto, End, Answer
<1>3. ASSUME NEW r \in Request, Resume(r) PROVE ClaimInv'
  BY <1>3 DEF Resume, Goto
<1>4. ASSUME NEW r \in Request, CheckActive(r) PROVE ClaimInv'
  BY <1>4 DEF CheckActive, Goto, End, Answer, NoActiveTurn
<1>5. ASSUME NEW r \in Request, Recall(r) PROVE ClaimInv'
  BY <1>5 DEF Recall, Goto
<1>6. ASSUME NEW r \in Request, Replay(r) PROVE ClaimInv'
  BY <1>6 DEF Replay, Goto, End, Answer, Saved
<1>7. ASSUME NEW r \in Request, ClaimTurn(r) PROVE ClaimInv'
  BY <1>7 DEF ClaimTurn, Goto, End, Answer, Saved, ClaimFree
<1>8. ASSUME NEW r \in Request, Recheck(r) PROVE ClaimInv'
  BY <1>8 DEF Recheck, Goto, End, Answer
<1>9. ASSUME NEW r \in Request, Load(r) PROVE ClaimInv'
  BY <1>9 DEF Load, Goto
<1>10. ASSUME NEW r \in Request, Generate(r) PROVE ClaimInv'
  BY <1>10 DEF Generate
<1>11. ASSUME NEW r \in Request, ClaimRow(r) PROVE ClaimInv'
  BY <1>11 DEF ClaimRow, Answer, Claimable
<1>12. ASSUME NEW r \in Request, RunTool(r) PROVE ClaimInv'
  BY <1>12 DEF RunTool
<1>13. ASSUME NEW r \in Request, SettleRow(r) PROVE ClaimInv'
  BY <1>13 DEF SettleRow
<1>14. ASSUME NEW r \in Request, Continue(r) PROVE ClaimInv'
  BY <1>14 DEF Continue
<1>15. ASSUME NEW r \in Request, Snapshot(r) PROVE ClaimInv'
  BY <1>15 DEF Snapshot, Goto, Saved
<1>16. ASSUME NEW r \in Request, Finish(r) PROVE ClaimInv'
  BY <1>16 DEF Finish, Goto
<1>17. ASSUME NEW r \in Request, SendSettled(r) PROVE ClaimInv'
  BY <1>17 DEF SendSettled, Goto, Save
<1>18. ASSUME NEW r \in Request, SendGivenUp(r) PROVE ClaimInv'
  BY <1>18 DEF SendGivenUp, Goto, Save, GiveUp
<1>19. ASSUME NEW r \in Request, SaveLands(r) PROVE ClaimInv'
  BY <1>19 DEF SaveLands, Goto
<1>20. ASSUME NEW r \in Request, SaveFails(r) PROVE ClaimInv'
  BY <1>20 DEF SaveFails, Goto, GiveUp
<1>21. ASSUME NEW r \in Request, ReleaseTurn(r) PROVE ClaimInv'
  BY <1>21 DEF ReleaseTurn, Goto, Saved
<1>22. ASSUME NEW r \in Request, CutShort(r) PROVE ClaimInv'
  BY <1>22 DEF CutShort, Goto, End, Answer
<1>23. ASSUME NEW r \in Request, Crash(r) PROVE ClaimInv'
  BY <1>23 DEF Crash, Goto, GiveUp
<1>24. ASSUME NEW r \in Request, Lapse(r) PROVE ClaimInv'
  BY <1>24 DEF Lapse
<1>25. CASE UNCHANGED decisionVars
  BY <1>25 DEF decisionVars, stored, session, controller, response, past
<1> QED
  BY <1>1, <1>2, <1>3, <1>4, <1>5, <1>6, <1>7, <1>8, <1>9, <1>10, <1>11, <1>12,
     <1>13, <1>14, <1>15, <1>16, <1>17, <1>18, <1>19, <1>20, <1>21, <1>22, <1>23,
     <1>24, <1>25
  DEF DecisionsNext, Enter, Work, CleanUp

\* A row that is settled stays as it is.
LEMMA ReplayStep ==
  ASSUME DecisionsTypeOK, RowInv, [DecisionsNext]_decisionVars
  PROVE  ReplayInv'
<1> USE NoRequestAssumption, FaultAssumption
        DEF DecisionsTypeOK, RowInv, TaskInv, ClaimInv, ReplayInv, Before, Working,
           Cleaning, Over, Decision, Settled, stored, session, controller, response,
           past
<1>1. ASSUME NEW r \in Request, Arrive(r) PROVE ReplayInv'
  BY <1>1 DEF Arrive, Goto
<1>2. ASSUME NEW r \in Request, LookUp(r) PROVE ReplayInv'
  BY <1>2 DEF LookUp, Goto, End, Answer
<1>3. ASSUME NEW r \in Request, Resume(r) PROVE ReplayInv'
  BY <1>3 DEF Resume, Goto
<1>4. ASSUME NEW r \in Request, CheckActive(r) PROVE ReplayInv'
  BY <1>4 DEF CheckActive, Goto, End, Answer, NoActiveTurn
<1>5. ASSUME NEW r \in Request, Recall(r) PROVE ReplayInv'
  BY <1>5 DEF Recall, Goto
<1>6. ASSUME NEW r \in Request, Replay(r) PROVE ReplayInv'
  BY <1>6 DEF Replay, Goto, End, Answer, Saved
<1>7. ASSUME NEW r \in Request, ClaimTurn(r) PROVE ReplayInv'
  BY <1>7 DEF ClaimTurn, Goto, End, Answer, Saved, ClaimFree
<1>8. ASSUME NEW r \in Request, Recheck(r) PROVE ReplayInv'
  BY <1>8 DEF Recheck, Goto, End, Answer
<1>9. ASSUME NEW r \in Request, Load(r) PROVE ReplayInv'
  BY <1>9 DEF Load, Goto
<1>10. ASSUME NEW r \in Request, Generate(r) PROVE ReplayInv'
  BY <1>10 DEF Generate
<1>11. ASSUME NEW r \in Request, ClaimRow(r) PROVE ReplayInv'
  BY <1>11 DEF ClaimRow, Answer, Claimable
<1>12. ASSUME NEW r \in Request, RunTool(r) PROVE ReplayInv'
  BY <1>12 DEF RunTool
<1>13. ASSUME NEW r \in Request, SettleRow(r) PROVE ReplayInv'
  BY <1>13 DEF SettleRow
<1>14. ASSUME NEW r \in Request, Continue(r) PROVE ReplayInv'
  BY <1>14 DEF Continue
<1>15. ASSUME NEW r \in Request, Snapshot(r) PROVE ReplayInv'
  BY <1>15 DEF Snapshot, Goto, Saved
<1>16. ASSUME NEW r \in Request, Finish(r) PROVE ReplayInv'
  BY <1>16 DEF Finish, Goto
<1>17. ASSUME NEW r \in Request, SendSettled(r) PROVE ReplayInv'
  BY <1>17 DEF SendSettled, Goto, Save
<1>18. ASSUME NEW r \in Request, SendGivenUp(r) PROVE ReplayInv'
  BY <1>18 DEF SendGivenUp, Goto, Save, GiveUp
<1>19. ASSUME NEW r \in Request, SaveLands(r) PROVE ReplayInv'
  BY <1>19 DEF SaveLands, Goto
<1>20. ASSUME NEW r \in Request, SaveFails(r) PROVE ReplayInv'
  BY <1>20 DEF SaveFails, Goto, GiveUp
<1>21. ASSUME NEW r \in Request, ReleaseTurn(r) PROVE ReplayInv'
  BY <1>21 DEF ReleaseTurn, Goto, Saved
<1>22. ASSUME NEW r \in Request, CutShort(r) PROVE ReplayInv'
  BY <1>22 DEF CutShort, Goto, End, Answer
<1>23. ASSUME NEW r \in Request, Crash(r) PROVE ReplayInv'
  BY <1>23 DEF Crash, Goto, GiveUp
<1>24. ASSUME NEW r \in Request, Lapse(r) PROVE ReplayInv'
  BY <1>24 DEF Lapse
<1>25. CASE UNCHANGED decisionVars
  BY <1>25 DEF decisionVars, stored, session, controller, response, past
<1> QED
  BY <1>1, <1>2, <1>3, <1>4, <1>5, <1>6, <1>7, <1>8, <1>9, <1>10, <1>11, <1>12,
     <1>13, <1>14, <1>15, <1>16, <1>17, <1>18, <1>19, <1>20, <1>21, <1>22, <1>23,
     <1>24, <1>25
  DEF DecisionsNext, Enter, Work, CleanUp

-----------------------------------------------------------------------------
(* The memory, as long as nobody gives up *)

\* Who saves has loaded the memory, and it has not changed since.
LEMMA WireStep ==
  ASSUME DecisionsTypeOK, LeaseInv, TaskInv, WireInv, gaveUp' = {}, [DecisionsNext]_decisionVars
  PROVE  WireInv'
<1> USE NoRequestAssumption, FaultAssumption
        DEF DecisionsTypeOK, LeaseInv, TaskInv, WireInv, Busy, Saving, Before, Working,
           Cleaning, Over, Decision, Settled, stored, session, controller, response,
           past
<1>1. ASSUME NEW r \in Request, Arrive(r) PROVE WireInv'
  BY <1>1 DEF Arrive, Goto
<1>2. ASSUME NEW r \in Request, LookUp(r) PROVE WireInv'
  BY <1>2 DEF LookUp, Goto, End, Answer
<1>3. ASSUME NEW r \in Request, Resume(r) PROVE WireInv'
  BY <1>3 DEF Resume, Goto
<1>4. ASSUME NEW r \in Request, CheckActive(r) PROVE WireInv'
  BY <1>4 DEF CheckActive, Goto, End, Answer, NoActiveTurn
<1>5. ASSUME NEW r \in Request, Recall(r) PROVE WireInv'
  BY <1>5 DEF Recall, Goto
<1>6. ASSUME NEW r \in Request, Replay(r) PROVE WireInv'
  BY <1>6 DEF Replay, Goto, End, Answer, Saved
<1>7. ASSUME NEW r \in Request, ClaimTurn(r) PROVE WireInv'
  BY <1>7 DEF ClaimTurn, Goto, End, Answer, Saved, ClaimFree
<1>8. ASSUME NEW r \in Request, Recheck(r) PROVE WireInv'
  BY <1>8 DEF Recheck, Goto, End, Answer
<1>9. ASSUME NEW r \in Request, Load(r) PROVE WireInv'
  BY <1>9 DEF Load, Goto
<1>10. ASSUME NEW r \in Request, Generate(r) PROVE WireInv'
  BY <1>10 DEF Generate
<1>11. ASSUME NEW r \in Request, ClaimRow(r) PROVE WireInv'
  BY <1>11 DEF ClaimRow, Answer, Claimable
<1>12. ASSUME NEW r \in Request, RunTool(r) PROVE WireInv'
  BY <1>12 DEF RunTool
<1>13. ASSUME NEW r \in Request, SettleRow(r) PROVE WireInv'
  BY <1>13 DEF SettleRow
<1>14. ASSUME NEW r \in Request, Continue(r) PROVE WireInv'
  BY <1>14 DEF Continue
<1>15. ASSUME NEW r \in Request, Snapshot(r) PROVE WireInv'
  BY <1>15 DEF Snapshot, Goto, Saved
<1>16. ASSUME NEW r \in Request, Finish(r) PROVE WireInv'
  BY <1>16 DEF Finish, Goto
<1>17. ASSUME NEW r \in Request, SendSettled(r) PROVE WireInv'
  BY <1>17 DEF SendSettled, Goto, Save
<1>18. ASSUME NEW r \in Request, SendGivenUp(r) PROVE WireInv'
  BY <1>18 DEF SendGivenUp, Goto, Save, GiveUp
<1>19. ASSUME NEW r \in Request, SaveLands(r) PROVE WireInv'
  BY <1>19 DEF SaveLands, Goto
<1>20. ASSUME NEW r \in Request, SaveFails(r) PROVE WireInv'
  BY <1>20 DEF SaveFails, Goto, GiveUp
<1>21. ASSUME NEW r \in Request, ReleaseTurn(r) PROVE WireInv'
  BY <1>21 DEF ReleaseTurn, Goto, Saved
<1>22. ASSUME NEW r \in Request, CutShort(r) PROVE WireInv'
  BY <1>22 DEF CutShort, Goto, End, Answer
<1>23. ASSUME NEW r \in Request, Crash(r) PROVE WireInv'
  BY <1>23 DEF Crash, Goto, GiveUp
<1>24. ASSUME NEW r \in Request, Lapse(r) PROVE WireInv'
  BY <1>24 DEF Lapse
<1>25. CASE UNCHANGED decisionVars
  BY <1>25 DEF decisionVars, stored, session, controller, response, past
<1> QED
  BY <1>1, <1>2, <1>3, <1>4, <1>5, <1>6, <1>7, <1>8, <1>9, <1>10, <1>11, <1>12,
     <1>13, <1>14, <1>15, <1>16, <1>17, <1>18, <1>19, <1>20, <1>21, <1>22, <1>23,
     <1>24, <1>25
  DEF DecisionsNext, Enter, Work, CleanUp

\* The outcome gets to the memory before the lease is given back.
LEMMA OutcomeStep ==
  ASSUME DecisionsTypeOK, LeaseInv, RowInv, WireInv, OutcomeInv, gaveUp' = {}, [DecisionsNext]_decisionVars
  PROVE  OutcomeInv'
<1> USE NoRequestAssumption, FaultAssumption
        DEF DecisionsTypeOK, LeaseInv, RowInv, TaskInv, ClaimInv, ReplayInv, WireInv,
           OutcomeInv, Busy, Live, Saving, Before, Working, Cleaning, Over, Decision,
           Settled, stored, session, controller, response, past
<1>1. ASSUME NEW r \in Request, Arrive(r) PROVE OutcomeInv'
  BY <1>1 DEF Arrive, Goto
<1>2. ASSUME NEW r \in Request, LookUp(r) PROVE OutcomeInv'
  BY <1>2 DEF LookUp, Goto, End, Answer
<1>3. ASSUME NEW r \in Request, Resume(r) PROVE OutcomeInv'
  BY <1>3 DEF Resume, Goto
<1>4. ASSUME NEW r \in Request, CheckActive(r) PROVE OutcomeInv'
  BY <1>4 DEF CheckActive, Goto, End, Answer, NoActiveTurn
<1>5. ASSUME NEW r \in Request, Recall(r) PROVE OutcomeInv'
  BY <1>5 DEF Recall, Goto
<1>6. ASSUME NEW r \in Request, Replay(r) PROVE OutcomeInv'
  BY <1>6 DEF Replay, Goto, End, Answer, Saved
<1>7. ASSUME NEW r \in Request, ClaimTurn(r) PROVE OutcomeInv'
  BY <1>7 DEF ClaimTurn, Goto, End, Answer, Saved, ClaimFree
<1>8. ASSUME NEW r \in Request, Recheck(r) PROVE OutcomeInv'
  BY <1>8 DEF Recheck, Goto, End, Answer
<1>9. ASSUME NEW r \in Request, Load(r) PROVE OutcomeInv'
  BY <1>9 DEF Load, Goto
<1>10. ASSUME NEW r \in Request, Generate(r) PROVE OutcomeInv'
  BY <1>10 DEF Generate
<1>11. ASSUME NEW r \in Request, ClaimRow(r) PROVE OutcomeInv'
  BY <1>11 DEF ClaimRow, Answer, Claimable
<1>12. ASSUME NEW r \in Request, RunTool(r) PROVE OutcomeInv'
  BY <1>12 DEF RunTool
<1>13. ASSUME NEW r \in Request, SettleRow(r) PROVE OutcomeInv'
  BY <1>13 DEF SettleRow
<1>14. ASSUME NEW r \in Request, Continue(r) PROVE OutcomeInv'
  BY <1>14 DEF Continue
<1>15. ASSUME NEW r \in Request, Snapshot(r) PROVE OutcomeInv'
  BY <1>15 DEF Snapshot, Goto, Saved
<1>16. ASSUME NEW r \in Request, Finish(r) PROVE OutcomeInv'
  BY <1>16 DEF Finish, Goto
<1>17. ASSUME NEW r \in Request, SendSettled(r) PROVE OutcomeInv'
  BY <1>17 DEF SendSettled, Goto, Save
<1>18. ASSUME NEW r \in Request, SendGivenUp(r) PROVE OutcomeInv'
  BY <1>18 DEF SendGivenUp, Goto, Save, GiveUp
<1>19. ASSUME NEW r \in Request, SaveLands(r) PROVE OutcomeInv'
  BY <1>19 DEF SaveLands, Goto
<1>20. ASSUME NEW r \in Request, SaveFails(r) PROVE OutcomeInv'
  BY <1>20 DEF SaveFails, Goto, GiveUp
<1>21. ASSUME NEW r \in Request, ReleaseTurn(r) PROVE OutcomeInv'
  BY <1>21 DEF ReleaseTurn, Goto, Saved
<1>22. ASSUME NEW r \in Request, CutShort(r) PROVE OutcomeInv'
  BY <1>22 DEF CutShort, Goto, End, Answer
<1>23. ASSUME NEW r \in Request, Crash(r) PROVE OutcomeInv'
  BY <1>23 DEF Crash, Goto, GiveUp
<1>24. ASSUME NEW r \in Request, Lapse(r) PROVE OutcomeInv'
  BY <1>24 DEF Lapse
<1>25. CASE UNCHANGED decisionVars
  BY <1>25 DEF decisionVars, stored, session, controller, response, past
<1> QED
  BY <1>1, <1>2, <1>3, <1>4, <1>5, <1>6, <1>7, <1>8, <1>9, <1>10, <1>11, <1>12,
     <1>13, <1>14, <1>15, <1>16, <1>17, <1>18, <1>19, <1>20, <1>21, <1>22, <1>23,
     <1>24, <1>25
  DEF DecisionsNext, Enter, Work, CleanUp

-----------------------------------------------------------------------------
(* The invariant *)

LEMMA DecisionsInitInv == DecisionsInit => DecisionsInv
<1> SUFFICES ASSUME DecisionsInit PROVE DecisionsInv
  OBVIOUS
<1> USE FaultAssumption, NoRequestAssumption
        DEF DecisionsInit, Before, Working, Cleaning, Over, Decision, Settled
<1>1. DecisionsTypeOK
  <2>1. current \in [Request -> BOOLEAN]
    BY Zenon
  <2> QED
    BY <2>1 DEF DecisionsTypeOK, Transcript
<1>2. LeaseInv
  BY DEF LeaseInv, Live, Busy
<1>3. RowInv
  BY DEF RowInv, TaskInv, ClaimInv, ReplayInv
<1>4. MemoryInv
  BY DEF MemoryInv, WireInv, OutcomeInv, Saving
<1> QED
  BY <1>1, <1>2, <1>3, <1>4 DEF DecisionsInv

\* Nobody takes back that he gave up.
LEMMA GaveUpGrows ==
  ASSUME DecisionsTypeOK, [DecisionsNext]_decisionVars
  PROVE  gaveUp \subseteq gaveUp'
<1> USE DEF DecisionsTypeOK
<1>1. ASSUME NEW r \in Request, Arrive(r) PROVE gaveUp \subseteq gaveUp'
  BY <1>1 DEF Arrive, stored, session, controller, response, past
<1>2. ASSUME NEW r \in Request, LookUp(r) PROVE gaveUp \subseteq gaveUp'
  BY <1>2 DEF LookUp, stored, session, controller, response, past
<1>3. ASSUME NEW r \in Request, Resume(r) PROVE gaveUp \subseteq gaveUp'
  BY <1>3 DEF Resume, stored, session, controller, response, past
<1>4. ASSUME NEW r \in Request, CheckActive(r) PROVE gaveUp \subseteq gaveUp'
  BY <1>4 DEF CheckActive, stored, session, controller, response, past
<1>5. ASSUME NEW r \in Request, Recall(r) PROVE gaveUp \subseteq gaveUp'
  BY <1>5 DEF Recall, stored, session, controller, response, past
<1>6. ASSUME NEW r \in Request, Replay(r) PROVE gaveUp \subseteq gaveUp'
  BY <1>6 DEF Replay, stored, session, controller, response, past
<1>7. ASSUME NEW r \in Request, ClaimTurn(r) PROVE gaveUp \subseteq gaveUp'
  BY <1>7 DEF ClaimTurn, stored, session, controller, response, past
<1>8. ASSUME NEW r \in Request, Recheck(r) PROVE gaveUp \subseteq gaveUp'
  BY <1>8 DEF Recheck, stored, session, controller, response, past
<1>9. ASSUME NEW r \in Request, Load(r) PROVE gaveUp \subseteq gaveUp'
  BY <1>9 DEF Load, stored, session, controller, response, past
<1>10. ASSUME NEW r \in Request, Generate(r) PROVE gaveUp \subseteq gaveUp'
  BY <1>10 DEF Generate, stored, session, controller, response, past
<1>11. ASSUME NEW r \in Request, ClaimRow(r) PROVE gaveUp \subseteq gaveUp'
  BY <1>11 DEF ClaimRow, stored, session, controller, response, past
<1>12. ASSUME NEW r \in Request, RunTool(r) PROVE gaveUp \subseteq gaveUp'
  BY <1>12 DEF RunTool, stored, session, controller, response, past
<1>13. ASSUME NEW r \in Request, SettleRow(r) PROVE gaveUp \subseteq gaveUp'
  BY <1>13 DEF SettleRow, stored, session, controller, response, past
<1>14. ASSUME NEW r \in Request, Continue(r) PROVE gaveUp \subseteq gaveUp'
  BY <1>14 DEF Continue, stored, session, controller, response, past
<1>15. ASSUME NEW r \in Request, Snapshot(r) PROVE gaveUp \subseteq gaveUp'
  BY <1>15 DEF Snapshot, stored, session, controller, response, past
<1>16. ASSUME NEW r \in Request, Finish(r) PROVE gaveUp \subseteq gaveUp'
  BY <1>16 DEF Finish, stored, session, controller, response, past
<1>17. ASSUME NEW r \in Request, SendSettled(r) PROVE gaveUp \subseteq gaveUp'
  BY <1>17 DEF SendSettled, stored, session, controller, response, past
<1>18. ASSUME NEW r \in Request, SendGivenUp(r) PROVE gaveUp \subseteq gaveUp'
  BY <1>18 DEF SendGivenUp, stored, session, controller, response, past, GiveUp
<1>19. ASSUME NEW r \in Request, SaveLands(r) PROVE gaveUp \subseteq gaveUp'
  BY <1>19 DEF SaveLands, stored, session, controller, response, past
<1>20. ASSUME NEW r \in Request, SaveFails(r) PROVE gaveUp \subseteq gaveUp'
  BY <1>20 DEF SaveFails, stored, session, controller, response, past, GiveUp
<1>21. ASSUME NEW r \in Request, ReleaseTurn(r) PROVE gaveUp \subseteq gaveUp'
  BY <1>21 DEF ReleaseTurn, stored, session, controller, response, past
<1>22. ASSUME NEW r \in Request, CutShort(r) PROVE gaveUp \subseteq gaveUp'
  BY <1>22 DEF CutShort, stored, session, controller, response, past
<1>23. ASSUME NEW r \in Request, Crash(r) PROVE gaveUp \subseteq gaveUp'
  BY <1>23 DEF Crash, stored, session, controller, response, past, GiveUp
<1>24. ASSUME NEW r \in Request, Lapse(r) PROVE gaveUp \subseteq gaveUp'
  BY <1>24 DEF Lapse, stored, session, controller, response, past
<1>25. CASE UNCHANGED decisionVars
  BY <1>25 DEF decisionVars, past
<1> QED
  BY <1>1, <1>2, <1>3, <1>4, <1>5, <1>6, <1>7, <1>8, <1>9, <1>10, <1>11, <1>12,
     <1>13, <1>14, <1>15, <1>16, <1>17, <1>18, <1>19, <1>20, <1>21, <1>22, <1>23,
     <1>24, <1>25
  DEF DecisionsNext, Enter, Work, CleanUp

LEMMA DecisionsInvariant == DecisionsSpec => []DecisionsInv
<1>1. DecisionsInit => DecisionsInv
  BY DecisionsInitInv
<1>2. DecisionsInv /\ [DecisionsNext]_decisionVars => DecisionsInv'
  <2> SUFFICES ASSUME DecisionsInv, [DecisionsNext]_decisionVars PROVE DecisionsInv'
    OBVIOUS
  <2> USE DEF DecisionsInv, RowInv, MemoryInv
  <2>1. DecisionsTypeOK'
    BY TypeStep
  <2>2. LeaseInv'
    BY LeaseStep
  <2>3. RowInv'
    BY TaskStep, ClaimStep, ReplayStep
  <2>4. MemoryInv'
    <3> SUFFICES ASSUME gaveUp' = {} PROVE WireInv' /\ OutcomeInv'
      OBVIOUS
    <3>1. WireInv /\ OutcomeInv
      BY GaveUpGrows
    <3> QED
      BY <3>1, WireStep, OutcomeStep
  <2> QED
    BY <2>1, <2>2, <2>3, <2>4
<1> QED
  BY <1>1, <1>2, PTL DEF DecisionsSpec

-----------------------------------------------------------------------------
(* Theorems *)

\* Every variable of the decision path keeps its type.
THEOREM DecisionsTypeCorrect == DecisionsSpec => []DecisionsTypeOK
<1>1. DecisionsInv => DecisionsTypeOK
  BY DEF DecisionsInv
<1> QED
  BY <1>1, DecisionsInvariant, PTL

\* No other request takes the cursor from the one that holds the live lease
\* (index.ts 157-176 of the server), whatever crashes or is given up.
THEOREM HolderKeepsCursor == DecisionsSpec => []HolderCurrent
<1>1. DecisionsInv => HolderCurrent
  BY DEF DecisionsInv, LeaseInv, Busy, HolderCurrent
<1> QED
  BY <1>1, DecisionsInvariant, PTL

\* A replay of a settled decision has the outcome of the call, unless some request gave
\* its work up half way (index.ts 157-171 and 247-263 of the server).
THEOREM ReplayHasOutcome == DecisionsSpec => []ReplayTellsOutcome
<1>1. DecisionsInv => ReplayTellsOutcome
  BY DEF DecisionsInv, MemoryInv, OutcomeInv, ReplayTellsOutcome
<1> QED
  BY <1>1, DecisionsInvariant, PTL

\* A turn that saves its transcript has all that was saved before, unless some request
\* gave its work up half way.
THEOREM TranscriptNeverShrinks == DecisionsSpec => TranscriptKept
<1>1. DecisionsInv /\ [DecisionsNext]_decisionVars => [gaveUp = {} => memory \subseteq memory']_memory
  <2> SUFFICES ASSUME DecisionsInv, [DecisionsNext]_decisionVars, gaveUp = {}, memory' # memory
               PROVE  memory \subseteq memory'
    OBVIOUS
  <2>1. PICK r \in Request : SaveLands(r)
    <3>1. ASSUME NEW r \in Request, Arrive(r) PROVE FALSE
      BY <3>1 DEF Arrive, stored, session, controller, response, past
    <3>2. ASSUME NEW r \in Request, LookUp(r) PROVE FALSE
      BY <3>2 DEF LookUp, stored, session, controller, response, past
    <3>3. ASSUME NEW r \in Request, Resume(r) PROVE FALSE
      BY <3>3 DEF Resume, stored, session, controller, response, past
    <3>4. ASSUME NEW r \in Request, CheckActive(r) PROVE FALSE
      BY <3>4 DEF CheckActive, stored, session, controller, response, past
    <3>5. ASSUME NEW r \in Request, Recall(r) PROVE FALSE
      BY <3>5 DEF Recall, stored, session, controller, response, past
    <3>6. ASSUME NEW r \in Request, Replay(r) PROVE FALSE
      BY <3>6 DEF Replay, stored, session, controller, response, past
    <3>7. ASSUME NEW r \in Request, ClaimTurn(r) PROVE FALSE
      BY <3>7 DEF ClaimTurn, stored, session, controller, response, past
    <3>8. ASSUME NEW r \in Request, Recheck(r) PROVE FALSE
      BY <3>8 DEF Recheck, stored, session, controller, response, past
    <3>9. ASSUME NEW r \in Request, Load(r) PROVE FALSE
      BY <3>9 DEF Load, stored, session, controller, response, past
    <3>10. ASSUME NEW r \in Request, Generate(r) PROVE FALSE
      BY <3>10 DEF Generate, stored, session, controller, response, past
    <3>11. ASSUME NEW r \in Request, ClaimRow(r) PROVE FALSE
      BY <3>11 DEF ClaimRow, stored, session, controller, response, past
    <3>12. ASSUME NEW r \in Request, RunTool(r) PROVE FALSE
      BY <3>12 DEF RunTool, stored, session, controller, response, past
    <3>13. ASSUME NEW r \in Request, SettleRow(r) PROVE FALSE
      BY <3>13 DEF SettleRow, stored, session, controller, response, past
    <3>14. ASSUME NEW r \in Request, Continue(r) PROVE FALSE
      BY <3>14 DEF Continue, stored, session, controller, response, past
    <3>15. ASSUME NEW r \in Request, Snapshot(r) PROVE FALSE
      BY <3>15 DEF Snapshot, stored, session, controller, response, past
    <3>16. ASSUME NEW r \in Request, Finish(r) PROVE FALSE
      BY <3>16 DEF Finish, stored, session, controller, response, past
    <3>17. ASSUME NEW r \in Request, SendSettled(r) PROVE FALSE
      BY <3>17 DEF SendSettled, stored, session, controller, response, past
    <3>18. ASSUME NEW r \in Request, SendGivenUp(r) PROVE FALSE
      BY <3>18 DEF SendGivenUp, stored, session, controller, response, past
    <3>19. ASSUME NEW r \in Request, SaveFails(r) PROVE FALSE
      BY <3>19 DEF SaveFails, stored, session, controller, response, past
    <3>20. ASSUME NEW r \in Request, ReleaseTurn(r) PROVE FALSE
      BY <3>20 DEF ReleaseTurn, stored, session, controller, response, past
    <3>21. ASSUME NEW r \in Request, CutShort(r) PROVE FALSE
      BY <3>21 DEF CutShort, stored, session, controller, response, past
    <3>22. ASSUME NEW r \in Request, Crash(r) PROVE FALSE
      BY <3>22 DEF Crash, stored, session, controller, response, past
    <3>23. ASSUME NEW r \in Request, Lapse(r) PROVE FALSE
      BY <3>23 DEF Lapse, stored, session, controller, response, past
    <3>24. CASE UNCHANGED decisionVars
      BY <3>24 DEF decisionVars, stored
    <3> QED
      BY <3>1, <3>2, <3>3, <3>4, <3>5, <3>6, <3>7, <3>8, <3>9, <3>10, <3>11, <3>12,
         <3>13, <3>14, <3>15, <3>16, <3>17, <3>18, <3>19, <3>20, <3>21, <3>22, <3>23,
         <3>24
      DEF DecisionsNext, Enter, Work, CleanUp
  <2>2. wire[r] = {said[r]} /\ pc[r] = "saving"
    BY <2>1 DEF SaveLands, DecisionsInv, MemoryInv, WireInv
  <2> QED
    BY <2>1, <2>2 DEF SaveLands, DecisionsInv, MemoryInv, WireInv, Saving
<1> QED
  BY <1>1, DecisionsInvariant, PTL DEF DecisionsSpec, TranscriptKept

\* The initial states of the decision path are initial states of a decision.
LEMMA OnceInit == DecisionsInit => Once!Init
<1> SUFFICES ASSUME DecisionsInit PROVE Once!Init
  OBVIOUS
<1>1. {kind[r] : r \in {q \in Request : answer[q] = "replay"}} = {}
  BY DEF DecisionsInit
<1> QED
  BY <1>1 DEF DecisionsInit, Once!Init

\* Every step of a request is a step of the decision, or none.
LEMMA OnceStep ==
  DecisionsInv /\ [DecisionsNext]_decisionVars => [Once!Next]_Once!vars
<1> SUFFICES ASSUME DecisionsInv, [DecisionsNext]_decisionVars PROVE [Once!Next]_Once!vars
  OBVIOUS
<1> DEFINE Told == {kind[r] : r \in {q \in Request : answer[q] = "replay"}}
<1> USE DEF DecisionsInv, DecisionsTypeOK
<1>0. ASSUME UNCHANGED <<row, runs>>,
             \A q \in Request : answer'[q] = "replay" <=> answer[q] = "replay",
             \A q \in Request : answer[q] = "replay" => kind'[q] = kind[q]
      PROVE  UNCHANGED Once!vars
  <2>1. Told' = Told
    BY <1>0
  <2> QED
    BY <1>0, <2>1 DEF Once!vars
<1>1. ASSUME NEW r \in Request, Arrive(r) PROVE [Once!Next]_Once!vars
  BY <1>0, <1>1 DEF Arrive, Goto, stored, response, past, RowInv, ReplayInv, Before,
     Working, Cleaning
<1>2. ASSUME NEW r \in Request, LookUp(r) PROVE [Once!Next]_Once!vars
  BY <1>0, <1>2 DEF LookUp, Goto, End, Answer, stored, response, past, RowInv,
     ReplayInv, Before, Working, Cleaning
<1>3. ASSUME NEW r \in Request, Resume(r) PROVE [Once!Next]_Once!vars
  BY <1>0, <1>3 DEF Resume, Goto, stored, response, past, RowInv, ReplayInv, Before,
     Working, Cleaning
<1>4. ASSUME NEW r \in Request, CheckActive(r) PROVE [Once!Next]_Once!vars
  BY <1>0, <1>4 DEF CheckActive, Goto, End, Answer, NoActiveTurn, stored, response,
     past, RowInv, ReplayInv, Before, Working, Cleaning
<1>5. ASSUME NEW r \in Request, Recall(r) PROVE [Once!Next]_Once!vars
  BY <1>0, <1>5 DEF Recall, Goto, stored, response, past, RowInv, ReplayInv, Before,
     Working, Cleaning
<1>6. ASSUME NEW r \in Request, Replay(r) PROVE [Once!Next]_Once!vars
  <2>1. CASE current[r]
    <3>1. row.status \in Settled /\ row.decision = kind[r]
      BY <1>6 DEF Replay, RowInv, ReplayInv
    <3>2. Told' = Told \union {row.decision}
      BY <1>6, <2>1, <3>1 DEF Replay, End, Answer, Goto, response
    <3>3. UNCHANGED <<row, runs>>
      BY <1>6 DEF Replay, stored, past
    <3> QED
      BY <3>1, <3>2, <3>3 DEF Once!Next, Once!Tell, Settled
  <2>2. CASE ~current[r]
    BY <1>0, <1>6, <2>2 DEF Replay, End, Answer, Goto, stored, past, RowInv, ReplayInv
  <2> QED
    BY <2>1, <2>2
<1>7. ASSUME NEW r \in Request, ClaimTurn(r) PROVE [Once!Next]_Once!vars
  BY <1>0, <1>7 DEF ClaimTurn, Goto, End, Answer, Saved, ClaimFree, stored, response,
     past, RowInv, ReplayInv, Before, Working, Cleaning
<1>8. ASSUME NEW r \in Request, Recheck(r) PROVE [Once!Next]_Once!vars
  BY <1>0, <1>8 DEF Recheck, Goto, End, Answer, stored, response, past, RowInv,
     ReplayInv, Before, Working, Cleaning
<1>9. ASSUME NEW r \in Request, Load(r) PROVE [Once!Next]_Once!vars
  BY <1>0, <1>9 DEF Load, Goto, stored, response, past, RowInv, ReplayInv, Before,
     Working, Cleaning
<1>10. ASSUME NEW r \in Request, Generate(r) PROVE [Once!Next]_Once!vars
  <2>1. Told' = Told
    BY <1>10 DEF Generate, Answer, response, RowInv, ReplayInv
  <2>2. [Once!Propose]_<<row.status, row.decision, runs, Told>>
    BY <1>10, <2>1 DEF Generate, Claimable, RowInv, TaskInv, ClaimInv, stored, past,
       Once!Propose, Settled, Decision
  <2> QED
    BY <2>1, <2>2 DEF Once!Next, Once!vars
<1>11. ASSUME NEW r \in Request, ClaimRow(r) PROVE [Once!Next]_Once!vars
  <2>1. Told' = Told /\ UNCHANGED runs
    BY <1>11 DEF ClaimRow, Answer, response, RowInv, ReplayInv, past
  <2>2. CASE Claimable
    <3>1. /\ row.status = "pending" /\ kind[r] \in Decision
          /\ row' = [status |-> "claimed", decision |-> kind[r]]
      BY <1>11, <2>2 DEF ClaimRow, Claimable, RowInv, TaskInv
    <3>2. row'.status = "claimed" /\ row'.decision = kind[r]
      BY <3>1
    <3>3. Once!Decide(kind[r])
      BY <2>1, <3>1, <3>2, Zenon DEF Once!Decide
    <3> QED
      BY <3>1, <3>3 DEF Once!Next, Decision
  <2>3. CASE ~Claimable
    <3>1. row' = row
      BY <1>11, <2>3 DEF ClaimRow
    <3> QED
      BY <2>1, <3>1 DEF Once!vars
  <2> QED
    BY <2>2, <2>3
<1>12. ASSUME NEW r \in Request, RunTool(r) PROVE [Once!Next]_Once!vars
  <2>1. Told' = Told /\ UNCHANGED row
    BY <1>12 DEF RunTool, response, stored
  <2>2. row.status = "claimed" /\ row.decision = "approve" /\ runs = 0 /\ runs' = 1
    BY <1>12 DEF RunTool, RowInv, ClaimInv
  <2>3. Once!Run
    BY <2>1, <2>2, Zenon DEF Once!Run
  <2> QED
    BY <2>3 DEF Once!Next
<1>13. ASSUME NEW r \in Request, SettleRow(r) PROVE [Once!Next]_Once!vars
  <2>1. Told' = Told /\ UNCHANGED runs
    BY <1>13 DEF SettleRow, response, past
  <2>2. /\ row.status = "claimed" /\ row.decision = kind[r] /\ kind[r] \in Decision
        /\ kind[r] = "approve" => runs = 1
    BY <1>13 DEF RowInv, TaskInv, ClaimInv, SettleRow
  <2>3. PICK s \in IF kind[r] = "approve" THEN {"complete", "failed"} ELSE {"denied"} :
           row' = [row EXCEPT !.status = s]
    BY <1>13, <2>2 DEF SettleRow
  <2>4. row'.status = s /\ row'.decision = row.decision
    BY <2>3
  <2>5. CASE kind[r] = "approve"
    <3>1. Once!Settle
      <4>1. row'.status \in {"complete", "failed"}
        BY <2>3, <2>4, <2>5
      <4> QED
        BY <2>1, <2>2, <2>4, <2>5, <4>1, Zenon DEF Once!Settle
    <3> QED
      BY <3>1 DEF Once!Next
  <2>6. CASE kind[r] = "deny"
    <3>1. Once!Settle
      <4>1. row'.status = "denied"
        BY <2>3, <2>4, <2>6
      <4> QED
        BY <2>1, <2>2, <2>4, <2>6, <4>1, Zenon DEF Once!Settle
    <3> QED
      BY <3>1 DEF Once!Next
  <2> QED
    BY <2>2, <2>5, <2>6 DEF Decision
<1>14. ASSUME NEW r \in Request, Continue(r) PROVE [Once!Next]_Once!vars
  BY <1>0, <1>14 DEF Continue, stored, response, past, RowInv, ReplayInv, Before,
     Working, Cleaning
<1>15. ASSUME NEW r \in Request, Snapshot(r) PROVE [Once!Next]_Once!vars
  BY <1>0, <1>15 DEF Snapshot, Goto, Saved, stored, response, past, RowInv, ReplayInv,
     Before, Working, Cleaning
<1>16. ASSUME NEW r \in Request, Finish(r) PROVE [Once!Next]_Once!vars
  BY <1>0, <1>16 DEF Finish, Goto, stored, response, past, RowInv, ReplayInv, Before,
     Working, Cleaning
<1>17. ASSUME NEW r \in Request, SendSettled(r) PROVE [Once!Next]_Once!vars
  BY <1>0, <1>17 DEF SendSettled, Goto, Save, stored, response, past, RowInv, ReplayInv,
     Before, Working, Cleaning
<1>18. ASSUME NEW r \in Request, SendGivenUp(r) PROVE [Once!Next]_Once!vars
  BY <1>0, <1>18 DEF SendGivenUp, Goto, Save, GiveUp, stored, response, past, RowInv,
     ReplayInv, Before, Working, Cleaning
<1>19. ASSUME NEW r \in Request, SaveLands(r) PROVE [Once!Next]_Once!vars
  BY <1>0, <1>19 DEF SaveLands, Goto, stored, response, past, RowInv, ReplayInv, Before,
     Working, Cleaning
<1>20. ASSUME NEW r \in Request, SaveFails(r) PROVE [Once!Next]_Once!vars
  BY <1>0, <1>20 DEF SaveFails, Goto, GiveUp, stored, response, past, RowInv, ReplayInv,
     Before, Working, Cleaning
<1>21. ASSUME NEW r \in Request, ReleaseTurn(r) PROVE [Once!Next]_Once!vars
  BY <1>0, <1>21 DEF ReleaseTurn, Goto, Saved, stored, response, past, RowInv,
     ReplayInv, Before, Working, Cleaning
<1>22. ASSUME NEW r \in Request, CutShort(r) PROVE [Once!Next]_Once!vars
  BY <1>0, <1>22 DEF CutShort, Goto, End, Answer, stored, response, past, RowInv,
     ReplayInv, Before, Working, Cleaning
<1>23. ASSUME NEW r \in Request, Crash(r) PROVE [Once!Next]_Once!vars
  BY <1>0, <1>23 DEF Crash, Goto, GiveUp, stored, response, past, RowInv, ReplayInv,
     Before, Working, Cleaning
<1>24. ASSUME NEW r \in Request, Lapse(r) PROVE [Once!Next]_Once!vars
  BY <1>0, <1>24 DEF Lapse, stored, response, past, RowInv, ReplayInv, Before, Working,
     Cleaning
<1>25. CASE UNCHANGED decisionVars
  BY <1>0, <1>25 DEF decisionVars, stored, response, past
<1> QED
  BY <1>1, <1>2, <1>3, <1>4, <1>5, <1>6, <1>7, <1>8, <1>9, <1>10, <1>11, <1>12,
     <1>13, <1>14, <1>15, <1>16, <1>17, <1>18, <1>19, <1>20, <1>21, <1>22, <1>23,
     <1>24, <1>25
  DEF DecisionsNext, Enter, Work, CleanUp

\* The handler, the store and the lease together implement an action decision, for any
\* requests that race, crash, are cut short or come again.
THEOREM DecisionTakenOnce == DecisionsSpec => DecidedOnce
<1>1. DecisionsInit => Once!Init
  BY OnceInit
<1>2. DecisionsInv /\ [DecisionsNext]_decisionVars => [Once!Next]_Once!vars
  BY OnceStep
<1> QED
  BY <1>1, <1>2, DecisionsInvariant, PTL DEF DecisionsSpec, DecidedOnce, Once!Spec

=============================================================================
