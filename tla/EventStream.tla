----------------------------- MODULE EventStream -----------------------------
(***************************************************************************)
(* Reading an answer of the Ask service in the chunks the network makes of *)
(* it: decodeAskEvents (packages/protocol/src/ask.ts) and the read loop of *)
(* createAskAdapter (packages/chat/src/ask.ts); the loop of createTurnClient *)
(* (packages/chat/src/turn-client.ts) is the one for ndjson, without the   *)
(* final done.                                                             *)
(*                                                                         *)
(* Text is a sequence of pieces; a record is a line that a piece or two    *)
(* make up, and sizes count pieces.                                        *)
(***************************************************************************)
EXTENDS Naturals, Sequences, SequencesExt, Selection

CONSTANTS
    Piece,       \* pieces of text other than the end of a line
    LineEnd,     \* the end of a line
    Opening,     \* the pieces that start with a brace
    EventOf,     \* EventOf[l]: the event of line l, for the lines that are records
    Final,       \* the events that end an answer
    Failure,     \* the event of an error that the reader makes up
    Done,        \* the end that the reader makes up
    MaxBytes,    \* the longest line (1048576 bytes in the code)
    MaxRecords,  \* the lines that one call decodes (4096 in the code)
    TextLimit,   \* bound on the text
    ChunkLimit   \* bound on a chunk

ASSUME PieceAssumption == LineEnd \notin Piece /\ Opening \subseteq Piece
ASSUME EventLimitAssumption ==
    /\ MaxBytes \in Nat \ {0} /\ MaxRecords \in Nat \ {0}
    /\ TextLimit \in Nat /\ ChunkLimit \in Nat
ASSUME RecordAssumption == \A l \in DOMAIN EventOf : l # <<>> /\ l[1] \in Opening
ASSUME DoneAssumption == Done # Failure /\ \A l \in DOMAIN EventOf : EventOf[l] # Done

VARIABLES
    text,        \* what the server has sent and the reader has read
    mode,        \* unknown, ndjson or text
    buffer,      \* text that is not decoded yet
    discarding,  \* the rest of an oversized line is skipped
    out,         \* what the reader has yielded
    open,        \* the reader reads
    capped       \* a call has left out lines over its limit

eventStreamVars == <<text, mode, buffer, discarding, out, open, capped>>

-----------------------------------------------------------------------------
(* decodeAskEvents *)

\* The lines of a text; the last one is not complete.
Lengthened(ls, p) ==
    IF p = LineEnd THEN Append(ls, <<>>) ELSE [ls EXCEPT ![Len(ls)] = Append(@, p)]
LinesOf(t) ==
    LET ls[n \in 0..Len(t)] == IF n = 0 THEN << <<>> >> ELSE Lengthened(ls[n - 1], t[n])
    IN  ls[Len(t)]

Record == {l \in DOMAIN EventOf : Len(l) <= MaxBytes}
EventsOf(ls) ==
    LET records == Within(ls, Record) IN [k \in DOMAIN records |-> EventOf[records[k]]]

Complete(t) == Front(LinesOf(t))
Partial(t) == Last(LinesOf(t))

Decoded(t) ==
    LET ls == Complete(t)
    IN  EventsOf(IF Len(ls) <= MaxRecords THEN ls ELSE SubSeq(ls, 1, MaxRecords))
Oversized(l) == Len(l) > MaxBytes

\* What is left for the next call.  (The wrong variant keeps an oversized line.)
KeepPartial(t) == Partial(t)
Rest(t) == IF Oversized(Partial(t)) THEN <<>> ELSE Partial(t)

-----------------------------------------------------------------------------
(* The read loop *)

EventStreamInit ==
    /\ mode \in {"unknown", "ndjson"}
    /\ text = <<>> /\ buffer = <<>> /\ discarding = FALSE
    /\ out = <<>> /\ open = TRUE /\ capped = FALSE

\* Events are yielded up to the one that ends the answer.
UpToFinal(es) ==
    LET k == SelectInSeq(es, LAMBDA e : e \in Final) IN IF k = 0 THEN es ELSE SubSeq(es, 1, k)
HasFinal(es) == \E k \in DOMAIN es : es[k] \in Final

\* Leading line ends are whitespace.
FirstPiece(t) == SelectInSeq(t, LAMBDA p : p # LineEnd)

\* The first line is not complete.  (The wrong variant decides without the rest of it.)
NeverUndecided(t) == FALSE
Undecided(t) == Complete(t) = <<>>

\* What the mode becomes with more text: what does not start with a brace is text, and a
\* first line is a record or text.
ModeFor(t) ==
    IF mode # "unknown" \/ FirstPiece(t) = 0 THEN mode
    ELSE IF t[FirstPiece(t)] \notin Opening THEN "text"
    ELSE IF Undecided(t) THEN "unknown"
    ELSE IF Head(LinesOf(t)) \in Record THEN "ndjson" ELSE "text"

\* A chunk, without the rest of an oversized line.
Incoming(chunk) ==
    LET k == SelectInSeq(chunk, LAMBDA p : p = LineEnd)
    IN  IF ~discarding THEN chunk
        ELSE IF k = 0 THEN <<>> ELSE SubSeq(chunk, k + 1, Len(chunk))
StillDiscarding(chunk) == discarding /\ LineEnd \notin ToSet(chunk)

\* The buffer is decoded, or passed on as it is.
Decode(t) ==
    /\ out' = out \o UpToFinal(Decoded(t))
    /\ open' = ~HasFinal(Decoded(t))
    /\ buffer' = Rest(t) /\ discarding' = Oversized(Partial(t))
    /\ capped' = (capped \/ Len(Complete(t)) > MaxRecords)

PassOn(t) ==
    /\ out' = out \o t
    /\ buffer' = <<>> /\ discarding' = FALSE
    /\ UNCHANGED <<open, capped>>

\* Not enough to tell: a line that grows too long is dropped.
Hold(t) ==
    /\ buffer' = IF FirstPiece(t) # 0 /\ Oversized(t) THEN <<>> ELSE t
    /\ discarding' = (FirstPiece(t) # 0 /\ Oversized(t))
    /\ UNCHANGED <<out, open, capped>>

ReadChunk(chunk) ==
    /\ open
    /\ text' = text \o chunk
    /\ IF StillDiscarding(chunk) THEN UNCHANGED <<mode, buffer, discarding, out, open, capped>>
       ELSE LET t == buffer \o Incoming(chunk)
            IN  /\ mode' = ModeFor(t)
                /\ \/ mode' = "unknown" /\ Hold(t)
                   \/ mode' = "text" /\ PassOn(t)
                   \/ mode' = "ndjson" /\ Decode(t)

\* The end of the response ends its last line, and the answer.
LastGiven(kind) ==
    IF kind = "text" THEN buffer ELSE UpToFinal(Decoded(Append(buffer, LineEnd)))

EndRead ==
    /\ open /\ open' = FALSE
    /\ LET ended == ModeFor(Append(buffer, LineEnd))
           rest == LastGiven(ended)
       IN  /\ mode' = IF discarding \/ FirstPiece(buffer) = 0 THEN mode ELSE ended
           /\ out' = IF discarding THEN Append(out, Done)
                     ELSE IF ended # "text" /\ HasFinal(rest) THEN out \o rest
                     ELSE Append(out \o rest, Done)
    /\ buffer' = <<>> /\ discarding' = FALSE
    /\ UNCHANGED <<text, capped>>

\* A read that throws ends the answer with an error, unless the reader was aborted.
ReadThrows ==
    /\ open /\ open' = FALSE
    /\ out' \in {out, Append(out, Failure)}
    /\ UNCHANGED <<text, mode, buffer, discarding, capped>>

\* The reader stops in the middle of what it was given: a limit of the encoder throws, or
\* the consumer takes no more.
StopsIn(given) ==
    /\ open /\ open' = FALSE
    /\ \E k \in DOMAIN given :
          LET part == SubSeq(given, 1, k - 1)
          IN  \/ out' = out \o part
              \/ given[k] \notin Final /\ out' = Append(out \o part, Failure)
    /\ buffer' = <<>> /\ discarding' = FALSE

ChunkStops(chunk) ==
    /\ ~StillDiscarding(chunk)
    /\ text' = text \o chunk
    /\ LET t == buffer \o Incoming(chunk)
       IN  /\ mode' = ModeFor(t)
           /\ \/ mode' = "text" /\ StopsIn(t) /\ UNCHANGED capped
              \/ /\ mode' = "ndjson" /\ StopsIn(UpToFinal(Decoded(t)))
                 /\ capped' = (capped \/ Len(Complete(t)) > MaxRecords)

EndStops ==
    /\ ~discarding /\ FirstPiece(buffer) # 0
    /\ mode' = ModeFor(Append(buffer, LineEnd))
    /\ StopsIn(LastGiven(mode'))
    /\ UNCHANGED <<text, capped>>

EventStreamNext ==
    \/ \E chunk \in SeqOf(Piece \union {LineEnd}, ChunkLimit) :
          /\ chunk # <<>> /\ Len(text) + Len(chunk) <= TextLimit
          /\ ReadChunk(chunk) \/ ChunkStops(chunk)
    \/ EndRead \/ EndStops \/ ReadThrows

EventStreamSpec == EventStreamInit /\ [][EventStreamNext]_eventStreamVars

-----------------------------------------------------------------------------
(* Properties *)

EventStreamTypeOK ==
    /\ text \in Seq(Piece \union {LineEnd}) /\ Len(text) <= TextLimit
    /\ mode \in {"unknown", "ndjson", "text"} /\ Len(buffer) <= Len(text)
    /\ discarding \in BOOLEAN /\ open \in BOOLEAN /\ capped \in BOOLEAN
    /\ mode = "ndjson" /\ open => Len(buffer) <= MaxBytes /\ LineEnd \notin ToSet(buffer)

\* What the reader has yielded of the answer, without an end that it made up.
Shown ==
    IF out # <<>> /\ Last(out) \in {Done, Failure} THEN Front(out) ELSE out

\* The cuts between chunks make no difference to a reader of records, whenever it took
\* them for records: it has yielded the events of the complete lines, those too long left
\* out, up to the first final one; one that stops, wherever it does, has yielded the first
\* of them; and an answer that it ends itself had no final event.  (One call must not be
\* given more lines than it decodes.)
ChunksMakeNoDifference ==
    mode = "ndjson" /\ ~capped =>
        /\ open => out = EventsOf(Complete(text)) /\ ~HasFinal(out)
        /\ ~open => IsPrefix(Shown, EventsOf(LinesOf(text)))
        /\ out # <<>> /\ Last(out) = Done =>
              Front(out) = EventsOf(LinesOf(text)) /\ ~HasFinal(Front(out))

\* An answer whose first line is a record that is not too long is never shown as it came,
\* and other text is shown piece by piece, whatever the chunks, until the reader stops.
TextIsShown ==
    LET first == Head(LinesOf(text))
    IN  /\ mode = "text" => ~(first \in Record /\ Complete(text) # <<>>)
        /\ mode = "text" /\ ~Oversized(first) =>
              IF open THEN out = text ELSE IsPrefix(Shown, text)

=============================================================================
