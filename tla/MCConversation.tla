---------------------------- MODULE MCConversation ----------------------------
(* An instance of Conversation for TLC: "start" leads on from two states,  *)
(* "finish" is eligible in one of them, and both match "/start" there.     *)
EXTENDS Conversation, TLC

CONSTANTS m1, m2, m3, idle, active, ready

MCOn ==
    (idle :> [start |-> active])
        @@ (active :> [start |-> ready, finish |-> ready])
        @@ (ready :> [finish |-> idle])

MCRoutes ==
    <<[id |-> "start", event |-> "start", states |-> State, inputs |-> {"/start"}],
      [id |-> "finish", event |-> "finish", states |-> {active},
       inputs |-> {"/start", "/finish"}]>>

=============================================================================
