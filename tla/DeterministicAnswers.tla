------------------------ MODULE DeterministicAnswers ------------------------
(***************************************************************************)
(* The local answers of createDeterministicAnswerResolver                  *)
(* (packages/chat/src/deterministic.ts) from a knowledge artifact that     *)
(* verifyLocalKnowledgeArtifactSync (packages/protocol/src/deterministic.ts) *)
(* accepts: a question is answered, met with choices or escalated, and a   *)
(* choice is answered by sending its visible value as the next question,   *)
(* or by resolveChoice.                                                    *)
(*                                                                         *)
(* Normalization is a function from texts to keys, the hash of an artifact *)
(* is right, and only the bounds that decide an outcome are modelled.      *)
(***************************************************************************)
EXTENDS Naturals, Sequences, SequencesExt, Selection

CONSTANTS
    Text,            \* questions and match values
    Key,             \* Key[t]: normalizeKnowledgeKey of text t
    TooLong,         \* texts beyond the query limit
    EntryId,         \* ids of knowledge entries
    Values,          \* the match values an entry may list
    Artifacts,       \* artifacts that may be loaded: sequences of entries
    MaxSuggestions,  \* the choices of one answer (8 in the code)
    HasFallback      \* a backend answers what is escalated

ASSUME TextAssumption == DOMAIN Key = Text /\ TooLong \subseteq Text
ASSUME ValuesAssumption == Values \subseteq Seq(Text \ TooLong) /\ <<>> \notin Values
ASSUME ArtifactsAssumption == Artifacts \subseteq Seq([id : EntryId, values : Values])
ASSUME SuggestionAssumption == MaxSuggestions \in Nat \ {0} /\ HasFallback \in BOOLEAN

VARIABLES
    artifact,  \* the artifact of the site
    expired,   \* it has expired
    question,  \* the last question
    reply      \* what it was answered with

answerVars == <<artifact, expired, question, reply>>

-----------------------------------------------------------------------------
(* LocalKnowledgeArtifactSchema *)

Keys(entry) == {Key[entry.values[k]] : k \in DOMAIN entry.values}

\* The index: the entries of a key, in the order of the artifact.
Index(entries, key) == Within(entries, {entry \in ToSet(entries) : key \in Keys(entry)})
Unique(entries, key) == Len(Index(entries, key)) = 1

\* Match values differ after normalization, ids are unique, and every entry has a key of
\* its own.  (The wrong variant leaves out the last one.)
ValuesDiffer(entry) ==
    \A j, k \in DOMAIN entry.values : Key[entry.values[j]] = Key[entry.values[k]] => j = k
SameAlias(entries, entry) == Keys(entry) # {}
OwnAlias(entries, entry) == \E key \in Keys(entry) : Unique(entries, key)

Verified(entries) ==
    /\ \A j, k \in DOMAIN entries : entries[j].id = entries[k].id => j = k
    /\ \A k \in DOMAIN entries : ValuesDiffer(entries[k]) /\ OwnAlias(entries, entries[k])

-----------------------------------------------------------------------------
(* The resolver *)

Escalation(reason) == [outcome |-> "escalation", reason |-> reason]
AnswerOf(entry) == [outcome |-> "answer", entry |-> entry.id]

\* The value that a suggestion shows and sends.
UniqueValue(entries, entry) ==
    LET k == SelectInSeq(entry.values, LAMBDA value : Unique(entries, Key[value]))
    IN  entry.values[IF k = 0 THEN 1 ELSE k]

Suggested(entries) == IF Len(entries) <= MaxSuggestions THEN entries
                      ELSE SubSeq(entries, 1, MaxSuggestions)

ChoicesOf(entries, matching) ==
    [outcome |-> "choices",
     suggestions |-> [k \in DOMAIN Suggested(matching) |->
                         [id |-> matching[k].id, value |-> UniqueValue(entries, matching[k])]]]

Matching(t) == IF t \in TooLong THEN <<>> ELSE Index(artifact, Key[t])

Resolve(t) ==
    IF ~Verified(artifact) THEN Escalation("corrupt")
    ELSE IF expired THEN Escalation("stale")
    ELSE IF Matching(t) = <<>> THEN Escalation("miss")
    ELSE IF Len(Matching(t)) > 1 THEN ChoicesOf(artifact, Matching(t))
    ELSE AnswerOf(Head(Matching(t)))

\* resolveChoice: only for an id that the question offers.
ResolveChoice(id, t) ==
    LET k == SelectInSeq(Suggested(Matching(t)), LAMBDA entry : entry.id = id)
    IN  IF ~Verified(artifact) THEN Escalation("corrupt")
        ELSE IF expired THEN Escalation("stale")
        ELSE IF k = 0 THEN Escalation("miss") ELSE AnswerOf(Matching(t)[k])

-----------------------------------------------------------------------------
(* A dialogue with the adapter *)

AnswersInit ==
    /\ artifact \in Artifacts
    /\ expired = FALSE
    /\ question \in Text
    /\ reply = [outcome |-> "none"]

\* createSourceForSession: a local answer, the backend's, or that there is none.
Reply(t) ==
    LET decision == Resolve(t)
    IN  IF decision.outcome # "escalation" THEN decision
        ELSE IF HasFallback THEN [outcome |-> "backend", reason |-> decision.reason]
        ELSE IF decision.reason = "miss" THEN Escalation("offline") ELSE decision

AskText(t) ==
    /\ question' = t /\ reply' = Reply(t)
    /\ UNCHANGED <<artifact, expired>>

\* A renderer sends the value of a choice; a headless client resolves its id.
SendChoice(k) ==
    /\ reply.outcome = "choices" /\ k \in DOMAIN reply.suggestions
    /\ AskText(reply.suggestions[k].value)

Choose(k) ==
    /\ reply.outcome = "choices" /\ k \in DOMAIN reply.suggestions
    /\ reply' = ResolveChoice(reply.suggestions[k].id, question)
    /\ UNCHANGED <<artifact, expired, question>>

Expire ==
    /\ ~expired /\ expired' = TRUE
    /\ UNCHANGED <<artifact, question, reply>>

AnswersNext ==
    \/ \E t \in Text : AskText(t)
    \/ \E k \in 1..MaxSuggestions : SendChoice(k) \/ Choose(k)
    \/ Expire

AnswersSpec == AnswersInit /\ [][AnswersNext]_answerVars

-----------------------------------------------------------------------------
(* Properties *)

AnswersTypeOK ==
    /\ artifact \in Artifacts /\ expired \in BOOLEAN /\ question \in Text
    /\ reply.outcome \in {"none", "answer", "choices", "escalation", "backend"}
    /\ reply.outcome = "choices" => Len(reply.suggestions) \in 1..MaxSuggestions

\* Whoever selects a choice gets its entry, whether its value is sent like a question or
\* its id is resolved, and is not asked to choose again, unless the artifact has expired
\* since.
ChosenIsAnswered ==
    [][\A k \in 1..MaxSuggestions :
          SendChoice(k) \/ Choose(k) =>
              \/ reply' = [outcome |-> "answer", entry |-> reply.suggestions[k].id]
              \/ expired /\ reply'.outcome \in {"escalation", "backend"}]_answerVars

=============================================================================
