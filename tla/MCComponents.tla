----------------------------- MODULE MCComponents -----------------------------
(* Instances of the smaller components for TLC, side by side: a behaviour is one *)
(* of one component, and the others stay as they are initialized.               *)
EXTENDS MCConversation, ToolDecisions, ChoiceAuthorizations, TurnStream, EventStream,
        DeterministicAnswers, TenantErasure, Uploads

CONSTANTS r1, r2, s1, s2, v1, v2, i1, i2, i3, p1, p2, u1, u2, small, large, huge

VARIABLE part  \* the component that moves

componentVars ==
    <<part, decisionVars, conversationVars, choiceVars, turnStreamVars, eventStreamVars,
      answerVars, erasureVars, uploadVars>>

\* Two views show the first session; the first message may be edited.
MCSessionOf == (v1 :> s1) @@ (v2 :> s1)
MCOffers == (i1 :> {p1, p2}) @@ (i2 :> {p1}) @@ (i3 :> {p1})

\* Two records, one of two pieces, and one that is too long.
MCEventOf ==
    (<<"{", "}">> :> "text") @@ (<<"{}">> :> "done") @@ (<<"{", "{", "}">> :> "text")

\* Artifacts of three entries, whose values may clash.
MCKey ==
    ("cli" :> "cli") @@ ("CLI" :> "cli") @@ ("run" :> "run") @@ ("build" :> "build")
        @@ ("test" :> "test") @@ ("essay" :> "essay")
MCValues ==
    {<<"cli">>, <<"run">>, <<"CLI", "run">>, <<"cli", "build">>, <<"build", "cli">>,
     <<"test", "CLI">>}
MCArtifacts ==
    {<<>>} \union {<<[id |-> "e1", values |-> a], [id |-> "e2", values |-> b],
                    [id |-> "e3", values |-> c]>> : a, b, c \in MCValues}

\* A large upload fits once into a call of 3 bytes, a huge one is too large for the policy.
MCSize == (small :> 1) @@ (large :> 2) @@ (huge :> 3)

ComponentsInit ==
    /\ part \in {"decisions", "conversation", "choices", "stream", "events", "answers", "erasure",
                "uploads"}
    /\ DecisionsInit /\ (part # "decisions" => row.status = "none")
    /\ ConversationInit /\ ChoicesInit /\ TurnStreamInit
    /\ EventStreamInit /\ (part # "events" => mode = "ndjson")
    /\ AnswersInit /\ (part # "answers" => artifact = <<>> /\ question = "cli")
    /\ ErasureInit /\ (part # "erasure" => kept = {})
    /\ UploadsInit /\ (part # "uploads" => sources = <<>> /\ delivery = "url")

ComponentsNext ==
    \/ /\ part = "decisions" /\ DecisionsNext
       /\ UNCHANGED <<part, conversationVars, choiceVars, turnStreamVars, eventStreamVars,
                      answerVars, erasureVars, uploadVars>>
    \/ /\ part = "conversation" /\ ConversationNext
       /\ UNCHANGED <<part, decisionVars, choiceVars, turnStreamVars, eventStreamVars,
                      answerVars, erasureVars, uploadVars>>
    \/ /\ part = "choices" /\ ChoicesNext
       /\ UNCHANGED <<part, decisionVars, conversationVars, turnStreamVars, eventStreamVars,
                      answerVars, erasureVars, uploadVars>>
    \/ /\ part = "stream" /\ TurnStreamNext
       /\ UNCHANGED <<part, decisionVars, conversationVars, choiceVars, eventStreamVars,
                      answerVars, erasureVars, uploadVars>>
    \/ /\ part = "events" /\ EventStreamNext
       /\ UNCHANGED <<part, decisionVars, conversationVars, choiceVars, turnStreamVars,
                      answerVars, erasureVars, uploadVars>>
    \/ /\ part = "answers" /\ AnswersNext
       /\ UNCHANGED <<part, decisionVars, conversationVars, choiceVars, turnStreamVars,
                      eventStreamVars, erasureVars, uploadVars>>
    \/ /\ part = "erasure" /\ ErasureNext
       /\ UNCHANGED <<part, decisionVars, conversationVars, choiceVars, turnStreamVars,
                      eventStreamVars, answerVars, uploadVars>>
    \/ /\ part = "uploads" /\ UploadsNext
       /\ UNCHANGED <<part, decisionVars, conversationVars, choiceVars, turnStreamVars,
                      eventStreamVars, answerVars, erasureVars>>

ComponentsSpec ==
    ComponentsInit /\ [][ComponentsNext]_componentVars /\ TurnStreamFairness

ComponentsTypeOK ==
    /\ DecisionsTypeOK /\ ConversationTypeOK /\ ChoicesTypeOK /\ TurnStreamTypeOK
    /\ EventStreamTypeOK /\ AnswersTypeOK /\ ErasureTypeOK /\ UploadsTypeOK

=============================================================================
