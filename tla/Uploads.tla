------------------------------- MODULE Uploads -------------------------------
(***************************************************************************)
(* Uploaded parts of the messages of a session                             *)
(* (packages/server/src/uploads.ts): resolveUploadParts verifies the parts *)
(* of a submitted turn, and deliverUploadParts exchanges every reference   *)
(* of the transcript for a signed URL, or for the bytes of its object,     *)
(* before each model call.                                                 *)
(*                                                                         *)
(* An object may be put again between the two, or be gone.  A source of    *)
(* the transcript that is not a reference of the session is left as it is. *)
(* Sizes stand for bytes; a content has its media type and its digest.     *)
(***************************************************************************)
EXTENDS Integers, Sequences, SequencesExt, FiniteSetsExt

CONSTANTS
    Ref,            \* references of the session
    Foreign,        \* sources outside its scope
    Content,        \* what an object can hold
    Size,           \* Size[c]: the bytes of content c
    NoContent,      \* no object is stored, or none is being read
    MaxUploadBytes, \* limit of one upload
    MaxTotalBytes,  \* limit of one model call
    MaxInput,       \* bound on the parts of one turn
    MaxParts        \* bound on the parts of a transcript

ASSUME SourceAssumption == Ref \intersect Foreign = {} /\ NoContent \notin Content
ASSUME SizeAssumption == Size \in [Content -> Nat]
ASSUME ByteAssumption == {MaxUploadBytes, MaxTotalBytes, MaxInput, MaxParts} \subseteq Nat \ {0}

VARIABLES
    delivery,    \* url or bytes
    object,      \* object[u]: what is stored under reference u
    sources,     \* the sources of the messages, oldest first
    input,       \* the parts of the submitted turn
    uploadStep,  \* idle, verifying, exchanging or answering
    position,    \* the part at hand
    body,        \* the object that is being read
    length,      \* the bytes read of it
    remaining,   \* what is left of the budget of the model call
    delivered,   \* the parts for the model: their source, what replaces it, its bytes
    stopped      \* the source of the model call has been aborted

uploadVars ==
    <<delivery, object, sources, input, uploadStep, position, body, length, remaining, delivered,
      stopped>>

-----------------------------------------------------------------------------
PartSource == Ref \union Foreign
InputPart == [ref : PartSource, declared : Content]
Delivered == [source : PartSource, as : {"source", "url", "bytes"}, bytes : Nat]

UploadsInit ==
    /\ delivery \in {"url", "bytes"}
    /\ object = [u \in Ref |-> NoContent]
    /\ sources \in {<<>>} \union {<<f>> : f \in Foreign}
    /\ input = <<>> /\ uploadStep = "idle" /\ position = 1
    /\ body = NoContent /\ length = 0
    /\ remaining = MaxTotalBytes /\ delivered = <<>> /\ stopped = FALSE

\* The browser puts an object with its signed URL, once or again.
PutObject(u, c) ==
    /\ object[u] # c
    /\ object' = [object EXCEPT ![u] = c]
    /\ UNCHANGED <<delivery, sources, input, uploadStep, position, body, length, remaining,
                   delivered, stopped>>

\* The turn ends with a diagnostic, or is over.  The messages stay in the transcript.
EndTurn ==
    /\ uploadStep' = "idle" /\ input' = <<>> /\ position' = 1
    /\ body' = NoContent /\ length' = 0
    /\ remaining' = MaxTotalBytes /\ delivered' = <<>> /\ stopped' = FALSE
    /\ UNCHANGED <<delivery, object, sources>>

-----------------------------------------------------------------------------
(* readStored *)

\* What may be read: the declared size of a submitted part, or what is left for the call.
ReadLimit ==
    Min({MaxUploadBytes,
         IF uploadStep = "verifying" THEN Size[input[position].declared] ELSE remaining})

OpenObject(u) ==
    /\ object[u] # NoContent
    /\ body' = object[u] /\ length' = 0
    /\ UNCHANGED <<delivery, object, sources, input, uploadStep, position, remaining, delivered,
                   stopped>>

Unavailable(u) == object[u] = NoContent /\ EndTurn

ReadBytes ==
    /\ body # NoContent
    /\ \E n \in 1 .. Size[body] - length :
          /\ length + n <= ReadLimit
          /\ length' = length + n
    /\ UNCHANGED <<delivery, object, sources, input, uploadStep, position, body, remaining,
                   delivered, stopped>>

TooLarge ==
    /\ body # NoContent
    /\ \E n \in 1 .. Size[body] - length : length + n > ReadLimit
    /\ EndTurn

WholeBody == body # NoContent /\ length = Size[body]

-----------------------------------------------------------------------------
(* resolveUploadParts *)

SubmitParts(parts) ==
    /\ uploadStep = "idle" /\ Len(sources) + Len(parts) <= MaxParts
    /\ uploadStep' = "verifying" /\ input' = parts /\ position' = 1
    /\ UNCHANGED <<delivery, object, sources, body, length, remaining, delivered, stopped>>

Checking == uploadStep = "verifying" /\ position \in DOMAIN input /\ body = NoContent

\* Scope and declared size, before anything is read.
Acceptable(part) == part.ref \in Ref /\ Size[part.declared] \in 1..MaxUploadBytes

CheckPart ==
    /\ Checking /\ Acceptable(input[position])
    /\ OpenObject(input[position].ref) \/ Unavailable(input[position].ref)

RefusePart == Checking /\ ~Acceptable(input[position]) /\ EndTurn

\* Size, media type and digest of the object are those declared.
PartVerified ==
    /\ uploadStep = "verifying" /\ WholeBody /\ body = input[position].declared
    /\ position' = position + 1 /\ body' = NoContent /\ length' = 0
    /\ UNCHANGED <<delivery, object, sources, input, uploadStep, remaining, delivered, stopped>>

PartMismatch ==
    uploadStep = "verifying" /\ WholeBody /\ body # input[position].declared /\ EndTurn

BeginCall ==
    /\ uploadStep' = "exchanging" /\ position' = 1
    /\ remaining' = MaxTotalBytes /\ delivered' = <<>> /\ stopped' = FALSE
    /\ UNCHANGED <<delivery, object, body, length>>

\* The message joins the transcript, and the controller calls the model with all of it.
AcceptParts ==
    /\ uploadStep = "verifying" /\ position > Len(input)
    /\ sources' = sources \o [k \in DOMAIN input |-> input[k].ref]
    /\ input' = <<>>
    /\ BeginCall

-----------------------------------------------------------------------------
(* deliverUploadParts *)

Exchanging == uploadStep = "exchanging" /\ position \in DOMAIN sources /\ body = NoContent

PushPart(as, bytes) ==
    /\ delivered' = Append(delivered, [source |-> sources[position], as |-> as, bytes |-> bytes])
    /\ position' = position + 1 /\ body' = NoContent /\ length' = 0
    /\ UNCHANGED <<delivery, object, sources, input, uploadStep, stopped>>

PassThrough ==
    /\ Exchanging /\ sources[position] \in Foreign
    /\ PushPart("source", 0) /\ UNCHANGED remaining

SignGet ==
    /\ Exchanging /\ sources[position] \in Ref /\ delivery = "url"
    /\ \/ PushPart("url", 0) /\ UNCHANGED remaining
       \/ EndTurn

ReadPart ==
    /\ Exchanging /\ sources[position] \in Ref /\ delivery = "bytes"
    /\ OpenObject(sources[position]) \/ Unavailable(sources[position])

\* What an object took is gone from the budget.  (The wrong variant forgets it.)
Unspent(bytes) == remaining
Spent(bytes) == remaining - bytes

PartRead ==
    /\ uploadStep = "exchanging" /\ WholeBody
    /\ PushPart("bytes", length) /\ remaining' = Spent(length)

\* abort() while parts are exchanged: only its flag is set.
AbortSource ==
    /\ uploadStep = "exchanging" /\ ~stopped /\ stopped' = TRUE
    /\ UNCHANGED <<delivery, object, sources, input, uploadStep, position, body, length, remaining,
                   delivered>>

\* The request is aborted, runs out of time, or is over.
CancelTurn == uploadStep # "idle" /\ EndTurn

Exchanged == uploadStep = "exchanging" /\ position > Len(sources)

CallModel ==
    /\ Exchanged /\ ~stopped /\ uploadStep' = "answering"
    /\ UNCHANGED <<delivery, object, sources, input, position, body, length, remaining,
                   delivered, stopped>>

CallDropped == Exchanged /\ stopped /\ EndTurn

\* The answer asks for a tool, whose result is sent in another call.
CallAgain == uploadStep = "answering" /\ BeginCall /\ UNCHANGED <<sources, input>>

-----------------------------------------------------------------------------
ReadStored == ReadBytes \/ TooLarge
ResolveParts == CheckPart \/ RefusePart \/ PartVerified \/ PartMismatch \/ AcceptParts
DeliverParts ==
    \/ PassThrough \/ SignGet \/ ReadPart \/ PartRead
    \/ AbortSource \/ CallModel \/ CallDropped \/ CallAgain

UploadsNext ==
    \/ \E u \in Ref, c \in Content \union {NoContent} : PutObject(u, c)
    \/ \E parts \in BoundedSeq(InputPart, MaxInput) : SubmitParts(parts)
    \/ ReadStored \/ ResolveParts \/ DeliverParts
    \/ CancelTurn

UploadsSpec == UploadsInit /\ [][UploadsNext]_uploadVars

-----------------------------------------------------------------------------
(* Properties *)

UploadsTypeOK ==
    /\ delivery \in {"url", "bytes"}
    /\ object \in [Ref -> Content \union {NoContent}]
    /\ sources \in Seq(PartSource) /\ Len(sources) <= MaxParts
    /\ input \in Seq(InputPart)
    /\ uploadStep \in {"idle", "verifying", "exchanging", "answering"}
    /\ position \in Nat /\ length \in Nat /\ remaining \in 0..MaxTotalBytes
    /\ body \in Content \union {NoContent}
    /\ delivered \in Seq(Delivered) /\ stopped \in BOOLEAN

\* The bytes of the parts of a call.
Carried(parts) ==
    LET sum[n \in 0 .. Len(parts)] == IF n = 0 THEN 0 ELSE sum[n - 1] + parts[n].bytes
    IN  sum[Len(parts)]

\* A model call has the parts of the whole transcript in their order, every reference of
\* the session exchanged and nothing else touched, and carries no more bytes in all than
\* the policy allows, whatever its objects were replaced by since they were verified.
CallWithinBudget ==
    uploadStep = "answering" =>
        /\ Len(delivered) = Len(sources)
        /\ \A k \in DOMAIN delivered :
              /\ delivered[k].source = sources[k]
              /\ delivered[k].as = (IF sources[k] \in Ref THEN delivery ELSE "source")
              /\ delivered[k].bytes <= MaxUploadBytes
        /\ Carried(delivered) <= MaxTotalBytes

=============================================================================
