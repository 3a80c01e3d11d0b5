-------------------------- MODULE ComponentsProofs --------------------------
(***************************************************************************)
(* What holds of each of the smaller components holds of all of them side  *)
(* by side: a step of one leaves the variables of the others alone, so a   *)
(* behaviour of the composition is one of every part, and the theorems     *)
(* about the parts carry over.                                             *)
(***************************************************************************)
EXTENDS MCComponents, ToolDecisionsProofs, ConversationProofs, ServerProofs

\* What the composition promises of the parts: each one's own specification.
SideBySide ==
    /\ DecisionsSpec /\ ConversationSpec /\ ChoicesSpec /\ TurnStreamSpec
    /\ EventStreamSpec /\ AnswersSpec /\ ErasureSpec /\ UploadsSpec

LEMMA EachInit ==
    ComponentsInit =>
        /\ DecisionsInit /\ ConversationInit /\ ChoicesInit /\ TurnStreamInit
        /\ EventStreamInit /\ AnswersInit /\ ErasureInit /\ UploadsInit
BY DEF ComponentsInit

\* One disjunct of ComponentsNext moves one part.
LEMMA EachStep ==
    [ComponentsNext]_componentVars =>
        /\ [DecisionsNext]_decisionVars
        /\ [ConversationNext]_conversationVars
        /\ [ChoicesNext]_choiceVars
        /\ [TurnStreamNext]_turnStreamVars
        /\ [EventStreamNext]_eventStreamVars
        /\ [AnswersNext]_answerVars
        /\ [ErasureNext]_erasureVars
        /\ [UploadsNext]_uploadVars
BY DEF ComponentsNext, componentVars

\* The smaller components do not disturb one another: their composition implements every
\* one of them, the fairness of the stream included.
THEOREM EachImplemented == ComponentsSpec => SideBySide
BY EachInit, EachStep, PTL
   DEF ComponentsSpec, SideBySide, DecisionsSpec, ConversationSpec, ChoicesSpec,
       TurnStreamSpec, EventStreamSpec, AnswersSpec, ErasureSpec, UploadsSpec

\* Every variable of the smaller components keeps its type, and every table, buffer and
\* count its bound, whichever of them moves.
THEOREM ComponentsTypeCorrect == ComponentsSpec => []ComponentsTypeOK
<1>1. ComponentsSpec => SideBySide
  BY EachImplemented
<1>2. ComponentsTypeOK <=>
        /\ DecisionsTypeOK /\ ConversationTypeOK /\ ChoicesTypeOK /\ TurnStreamTypeOK
        /\ EventStreamTypeOK /\ AnswersTypeOK /\ ErasureTypeOK /\ UploadsTypeOK
  BY DEF ComponentsTypeOK
<1> QED
  BY <1>1, <1>2, DecisionsTypeCorrect, ConversationTypeCorrect, ClaimsAreKept,
     StreamTypeCorrect, EventStreamTypeCorrect, AnswersTypeCorrect, ErasureTypeCorrect,
     UploadsTypeCorrect, PTL DEF SideBySide

\* What is always true of one of the smaller components is true of it beside the others.
THEOREM ComponentsSafe ==
    ComponentsSpec => [](/\ ReplayTellsOutcome /\ HolderCurrent /\ SavedSessionResumes
                         /\ ReservationsMatch /\ CompleteShowsLast
                         /\ ChunksMakeNoDifference /\ TextIsShown
                         /\ ErasedMeansGone /\ CallWithinBudget)
BY EachImplemented, ReplayHasOutcome, HolderKeepsCursor, SavedSessionsResume, ClaimsAreKept,
   CompleteIsWhole, CutsMakeNoDifference, OtherTextIsShown, ReceiptIsTrue,
   CallsStayWithinBudget, PTL DEF SideBySide

\* What no step of one of them may do, no step of the composition does.
THEOREM ComponentsKeepOrder ==
    ComponentsSpec => /\ DecidedOnce /\ TranscriptKept /\ RetryRepeats
                      /\ FailedChoiceIsOpen /\ SnapshotsInOrder /\ ChosenIsAnswered
BY EachImplemented, DecisionTakenOnce, TranscriptNeverShrinks, RetriesRepeat,
   FailedChoiceReopens, NeverBackwards, ChoiceLeadsToAnswer, PTL DEF SideBySide

=============================================================================
