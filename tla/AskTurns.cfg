\* Two requests that name one session, or one that names none.
SPECIFICATION AloneSpec
CONSTANTS
    r1 = r1
    r2 = r2
    q1 = q1
    Request = {r1, r2}
    Question = {q1}
    NoQuestion = none
    Scope = {TRUE, FALSE}
    Window = 3
    MaxFaults = 1
INVARIANTS DoneIsStored Reported
PROPERTIES TranscriptExtends TurnsKeptOnce QuestionEnds
CHECK_DEADLOCK FALSE
