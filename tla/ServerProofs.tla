---------------------------- MODULE ServerProofs ----------------------------
(***************************************************************************)
(* Theorems about TenantErasure, Uploads, EventStream and TurnStream, for  *)
(* any categories, objects, sizes, texts, records, turns and bounds.       *)
(*                                                                         *)
(* ErasedMeansGone rests on an eraser that answers within its deadline     *)
(* having nothing left to remove, and on nobody but a turn writing what it *)
(* has removed. CallWithinBudget rests on what remains of the budget being *)
(* what the parts delivered so far have left of it. ChunksMakeNoDifference *)
(* and TextIsShown rest on the lines of what was read being those whose    *)
(* events were yielded followed by those of the buffer, or by one          *)
(* oversized line (ReadInv). Of the stream of a turn, OrderInv: the lines  *)
(* increase, and what pull has still to send is newer than all of them;    *)
(* EndInv: while the subscriber is there, the latest state is pending,     *)
(* taken or sent, and a stream that closes without a diagnostic has waited *)
(* for a cleanup that saved it.                                            *)
(***************************************************************************)
EXTENDS TenantErasure, Uploads, EventStream, TurnStream, SequenceLemmas

-----------------------------------------------------------------------------
(* Erasure *)

\* A turn in flight disturbs the call.
TurnInv == turning => disturbed

\* A wait that has not ended has no result, and the category of one that ended with an
\* answer stays empty.
ResultInv ==
    /\ \A c \in Category : eraser[c] = "running" => result[c] = "none"
    /\ \A c \in Category : ~disturbed /\ result[c] = "erased" => c \notin kept

\* What has been returned is how the waits ended.
ReturnInv ==
    call \in {"receipt", "error"} =>
        \A c \in Category : result[c] = "erased" \/ (result[c] = "failed" /\ c \in failed)

\* The inductive invariant of the erasure.
ErasureInv == ErasureTypeOK /\ TurnInv /\ ResultInv /\ ReturnInv

\* The first call finds nobody at work.
LEMMA ErasureInitInv == ErasureInit => ErasureInv
<1> SUFFICES ASSUME ErasureInit PROVE ErasureInv
  OBVIOUS
<1> USE DEF ErasureInit
<1>1. ErasureTypeOK
  <2>1. kept \subseteq Category /\ failed \subseteq Category
    OBVIOUS
  <2>2. calls \in 0..MaxCalls
    BY CallAssumption
  <2>3. /\ eraser \in [Category -> {"idle", "running", "late"}]
        /\ result \in [Category -> {"none", "erased", "failed"}]
    OBVIOUS
  <2> QED
    BY <2>1, <2>2, <2>3 DEF ErasureTypeOK
<1>2. TurnInv /\ ReturnInv
  BY DEF TurnInv, ReturnInv
<1>3. ResultInv
  BY DEF ResultInv
<1> QED
  BY <1>1, <1>2, <1>3 DEF ErasureInv

\* Every step of a turn, an eraser or the call keeps the invariant.
LEMMA ErasureNextInv == ErasureInv /\ [ErasureNext]_erasureVars => ErasureInv'
<1> SUFFICES ASSUME ErasureInv, [ErasureNext]_erasureVars PROVE ErasureInv'
  OBVIOUS
<1> USE CallAssumption DEF ErasureInv, ErasureTypeOK, TurnInv, ResultInv, ReturnInv
<1>1. CASE TurnBegins
  BY <1>1 DEF TurnBegins
<1>2. CASE TurnWrites
  BY <1>2 DEF TurnWrites
<1>3. CASE TurnEnds
  BY <1>3 DEF TurnEnds
<1>4. CASE Erase
  BY <1>4 DEF Erase
<1>5. CASE EraseReturns
  BY <1>5 DEF EraseReturns, EachSettled
<1>6. ASSUME NEW c \in Category, EraserRemoves(c) PROVE ErasureInv'
  BY <1>6 DEF EraserRemoves
<1>7. ASSUME NEW c \in Category, EraserAnswers(c) PROVE ErasureInv'
  BY <1>7 DEF EraserAnswers
<1>8. ASSUME NEW c \in Category, EraserFails(c) PROVE ErasureInv'
  BY <1>8 DEF EraserFails
<1>9. ASSUME NEW c \in Category, WaitEnds(c) PROVE ErasureInv'
  BY <1>9 DEF WaitEnds
<1>10. CASE UNCHANGED erasureVars
  BY <1>10 DEF erasureVars
<1> QED
  BY <1>1, <1>2, <1>3, <1>4, <1>5, <1>6, <1>7, <1>8, <1>9, <1>10 DEF ErasureNext

\* The invariant holds throughout.
LEMMA ErasureInvariant == ErasureSpec => []ErasureInv
<1>1. ErasureInit => ErasureInv
  BY ErasureInitInv
<1>2. ErasureInv /\ [ErasureNext]_erasureVars => ErasureInv'
  BY ErasureNextInv
<1> QED
  BY <1>1, <1>2, PTL DEF ErasureSpec

\* A receipt, and an error of the categories it does not name, is true of the stores,
\* for any number of categories, retries and late erasers (erasure.ts 59-73).
THEOREM ReceiptIsTrue == ErasureSpec => []ErasedMeansGone
<1>1. ErasureInv => ErasedMeansGone
  BY DEF ErasureInv, ErasureTypeOK, ResultInv, ReturnInv, ErasedMeansGone
<1> QED
  BY <1>1, ErasureInvariant, PTL

\* Every variable of the erasure keeps its type.
THEOREM ErasureTypeCorrect == ErasureSpec => []ErasureTypeOK
<1>1. ErasureInv => ErasureTypeOK
  BY DEF ErasureInv
<1> QED
  BY <1>1, ErasureInvariant, PTL

-----------------------------------------------------------------------------
(* Uploaded parts *)

\* What the first n parts carry together.
SumOf(parts) ==
    CHOOSE sum : sum = [n \in 0 .. Len(parts) |->
        IF n = 0 THEN 0 ELSE sum[n - 1] + parts[n].bytes]

\* The sum so far, part by part.
LEMMA SumFacts ==
    ASSUME NEW parts \in Seq(Delivered)
    PROVE  /\ SumOf(parts) \in [0 .. Len(parts) -> Nat]
           /\ SumOf(parts)[0] = 0
           /\ \A n \in 1 .. Len(parts) :
                 SumOf(parts)[n] = SumOf(parts)[n - 1] + parts[n].bytes
<1> DEFINE Body(k) == [n \in 0 .. Len(parts) |->
               IF n = 0 THEN 0 ELSE k[n - 1] + parts[n].bytes]
           g == [n \in 1 .. Len(parts) |-> [x \in Nat |-> x + parts[n].bytes]]
           K == SumOf(parts)
<1>0. \A n \in 1 .. Len(parts) : parts[n].bytes \in Nat
  <2>1. \A n \in 1 .. Len(parts) : parts[n] \in Delivered
    OBVIOUS
  <2> QED
    BY <2>1 DEF Delivered
<1>1. g \in [1 .. Len(parts) -> [Nat -> Nat]]
  BY <1>0
<1>2. PICK f \in [0 .. Len(parts) -> Nat] :
          f[0] = 0 /\ \A i \in 1 .. Len(parts) : f[i] = g[i][f[i - 1]]
  <2> DEFINE A == Nat
             N == Len(parts)
             base == 0
  <2>1. N \in Nat /\ base \in A /\ g \in [1 .. N -> [A -> A]]
    BY <1>1
  <2> HIDE DEF g, A, N, base
  <2>2. \E f \in [0 .. N -> A] : f[0] = base /\ \A i \in 1 .. N : f[i] = g[i][f[i - 1]]
    BY <2>1, IterationExists
  <2> QED
    BY <2>2 DEF A, N, base
<1>3. \A i \in 1 .. Len(parts) : f[i] = f[i - 1] + parts[i].bytes
  <2> SUFFICES ASSUME NEW i \in 1 .. Len(parts) PROVE f[i] = f[i - 1] + parts[i].bytes
    OBVIOUS
  <2>1. i - 1 \in 0 .. Len(parts)
    OBVIOUS
  <2>2. f[i - 1] \in Nat
    BY <2>1
  <2>3. g[i] = [x \in Nat |-> x + parts[i].bytes] /\ f[i] = g[i][f[i - 1]]
    BY <1>2
  <2> HIDE DEF g
  <2> QED
    BY <2>2, <2>3
<1>4. f = Body(f)
  <2> DEFINE B == Body(f)
  <2>1. ASSUME NEW n \in 0 .. Len(parts) PROVE f[n] = B[n]
    <3>1. CASE n = 0
      BY <1>2, <3>1
    <3>2. CASE n \in 1 .. Len(parts)
      BY <1>3, <3>2
    <3> QED
      BY <3>1, <3>2
  <2>2. B = [n \in 0 .. Len(parts) |-> B[n]] /\ f = [n \in 0 .. Len(parts) |-> f[n]]
    OBVIOUS
  <2> HIDE DEF B
  <2>3. f = B
    BY <2>1, <2>2
  <2> QED
    BY <2>3 DEF B
<1>5. K = Body(K)
  <2>1. K = CHOOSE k : k = Body(k)
    BY DEF SumOf
  <2> HIDE DEF Body, K
  <2> QED
    BY <1>4, <2>1
<1>6. K[0] = 0 /\ \A i \in 1 .. Len(parts) : K[i] = K[i - 1] + parts[i].bytes
  <2> HIDE DEF K
  <2>1. \A n \in 0 .. Len(parts) : K[n] = Body(K)[n]
    BY <1>5
  <2> QED
    BY <2>1
<1>7. \A i \in 0 .. Len(parts) : K[i] = f[i]
  <2> HIDE DEF K
  <2>1. Len(parts) \in Nat /\ K[0] = f[0]
    BY <1>2, <1>6
  <2>2. \A i \in 1 .. Len(parts) : K[i - 1] = f[i - 1] => K[i] = f[i]
    BY <1>3, <1>6
  <2> QED
    BY <2>1, <2>2, IterationUnique
<1>8. K \in [0 .. Len(parts) -> Nat]
  <2> HIDE DEF K
  <2> QED
    BY <1>5, <1>7
<1> QED
  BY <1>6, <1>8

\* Nothing carries no bytes, and a part adds its own.
LEMMA CarriedFacts ==
    /\ Carried(<<>>) = 0
    /\ \A parts \in Seq(Delivered) :
          /\ Carried(parts) \in Nat
          /\ \A e \in Delivered : Carried(Append(parts, e)) = Carried(parts) + e.bytes
<1>0. \A parts : Carried(parts) = SumOf(parts)[Len(parts)]
  BY DEF Carried, SumOf
<1>1. Carried(<<>>) = 0
  <2> DEFINE s == <<>>
  <2>1. s \in Seq(Delivered) /\ Len(s) = 0
    OBVIOUS
  <2> HIDE DEF s
  <2>2. SumOf(s)[0] = 0
    BY <2>1, SumFacts
  <2>3. Carried(s) = 0
    BY <1>0, <2>1, <2>2
  <2> QED
    BY <2>3 DEF s
<1>2. ASSUME NEW s \in Seq(Delivered) PROVE Carried(s) \in Nat
  <2>1. Len(s) \in 0 .. Len(s) /\ SumOf(s) \in [0 .. Len(s) -> Nat]
    BY SumFacts
  <2> QED
    BY <1>0, <2>1
<1>3. ASSUME NEW s \in Seq(Delivered), NEW e \in Delivered
      PROVE  Carried(Append(s, e)) = Carried(s) + e.bytes
  <2> DEFINE t == Append(s, e)
             K == SumOf(s)
             L == SumOf(t)
             N == Len(s)
  <2>1. /\ t \in Seq(Delivered) /\ Len(t) = N + 1 /\ t[N + 1] = e
        /\ \A i \in 1 .. N : t[i] = s[i]
    OBVIOUS
  <2>2. K[0] = 0 /\ \A n \in 1 .. N : K[n] = K[n - 1] + s[n].bytes
    BY SumFacts
  <2>3. L[0] = 0 /\ \A n \in 1 .. Len(t) : L[n] = L[n - 1] + t[n].bytes
    <3> HIDE DEF t
    <3> QED
      BY <2>1, SumFacts
  <2>4. N \in Nat
    OBVIOUS
  <2> HIDE DEF t, K, L, N
  <2>5. \A i \in 1 .. N : K[i - 1] = L[i - 1] => K[i] = L[i]
    <3>1. \A i \in 1 .. N : i \in 1 .. Len(t) /\ t[i] = s[i]
      BY <2>1, <2>4
    <3> QED
      BY <2>2, <2>3, <3>1
  <2>6. \A i \in 0 .. N : K[i] = L[i]
    <3>1. K[0] = L[0]
      BY <2>2, <2>3
    <3> QED
      BY <2>4, <2>5, <3>1, IterationUnique
  <2>7. L[N + 1] = L[N] + e.bytes /\ K[N] = L[N]
    BY <2>1, <2>3, <2>4, <2>6
  <2> QED
    BY <1>0, <2>1, <2>7 DEF K, L, N, t
<1> QED
  BY <1>1, <1>2, <1>3

-----------------------------------------------------------------------------
\* What stands for a source of the transcript.
StandsFor(k) ==
    /\ delivered[k].source = sources[k]
    /\ delivered[k].as = (IF sources[k] \in Ref THEN delivery ELSE "source")
    /\ delivered[k].bytes <= MaxUploadBytes

\* The object that is read belongs to the part at hand, and fits so far.
ReadingInv ==
    body # NoContent =>
        \/ uploadStep = "verifying" /\ position \in DOMAIN input
        \/ /\ uploadStep = "exchanging" /\ position \in DOMAIN sources
           /\ sources[position] \in Ref /\ delivery = "bytes"
           /\ length <= MaxUploadBytes /\ length <= remaining

\* What has been exchanged are the parts before the one at hand, and has used the budget.
ExchangeInv ==
    uploadStep \in {"exchanging", "answering"} =>
        /\ Len(delivered) = position - 1 /\ Len(delivered) <= Len(sources)
        /\ \A k \in DOMAIN delivered : StandsFor(k)
        /\ remaining = MaxTotalBytes - Carried(delivered)

\* The inductive invariant of the uploads.
UploadsInv ==
    /\ UploadsTypeOK /\ Len(sources) + Len(input) <= MaxParts /\ position >= 1
    /\ ReadingInv /\ ExchangeInv
    /\ uploadStep = "answering" => Len(delivered) = Len(sources)

\* The limits are positive.
LEMMA Limits ==
    MaxUploadBytes \in Nat \ {0} /\ MaxTotalBytes \in Nat \ {0} /\ MaxParts \in Nat \ {0}
  BY ByteAssumption

\* The invariant keeps what a call carries within the budget.
LEMMA InvMeansWithinBudget == UploadsInv => CallWithinBudget
<1> SUFFICES ASSUME UploadsInv, uploadStep = "answering"
             PROVE  /\ Len(delivered) = Len(sources)
                    /\ \A k \in DOMAIN delivered : StandsFor(k)
                    /\ Carried(delivered) <= MaxTotalBytes
  BY DEF CallWithinBudget, StandsFor
<1>1. remaining = MaxTotalBytes - Carried(delivered) /\ remaining \in 0 .. MaxTotalBytes
  BY DEF UploadsInv, ExchangeInv, UploadsTypeOK
<1>2. MaxTotalBytes \in Nat /\ Carried(delivered) \in Nat
  BY Limits, CarriedFacts DEF UploadsInv, UploadsTypeOK
<1> QED
  BY <1>1, <1>2 DEF UploadsInv, ExchangeInv

\* A turn begins with nothing read.
LEMMA UploadsInitInv == UploadsInit => UploadsInv
<1> SUFFICES ASSUME UploadsInit PROVE UploadsInv
  OBVIOUS
<1>1. sources \in Seq(PartSource) /\ Len(sources) <= 1 /\ Len(sources) \in Nat
  <2>1. CASE sources = <<>>
    <3>1. Len(<<>>) = 0 /\ <<>> \in Seq(PartSource)
      OBVIOUS
    <3> QED
      BY <2>1, <3>1
  <2>2. ASSUME NEW f \in Foreign, sources = <<f>> 
        PROVE  sources \in Seq(PartSource) /\ Len(sources) = 1
    BY <2>2 DEF PartSource
  <2>3. sources = <<>> \/ \E f \in Foreign : sources = <<f>>
    BY DEF UploadsInit
  <2> QED
    BY <2>1, <2>2, <2>3
<1>2. UploadsTypeOK
  <2>1. object \in [Ref -> Content \union {NoContent}]
    BY DEF UploadsInit
  <2>2. Len(sources) <= MaxParts /\ remaining \in 0 .. MaxTotalBytes
    BY <1>1, Limits DEF UploadsInit
  <2> QED
    <3>1. /\ <<>> \in Seq(InputPart) /\ <<>> \in Seq(Delivered)
          /\ delivery \in {"url", "bytes"} /\ input = <<>> /\ delivered = <<>>
      BY DEF UploadsInit
    <3>2. /\ uploadStep = "idle" /\ position = 1 /\ body = NoContent /\ length = 0
          /\ stopped = FALSE
      BY DEF UploadsInit
    <3> QED
      BY <1>1, <2>1, <2>2, <3>1, <3>2 DEF UploadsTypeOK
<1>3. Len(sources) + Len(input) <= MaxParts
  <2>1. Len(input) = 0
    BY DEF UploadsInit
  <2> QED
    BY <1>1, <2>1, Limits
<1> QED
  BY <1>2, <1>3 DEF UploadsInit, UploadsInv, ReadingInv, ExchangeInv

\* An ended turn leaves nothing behind.
LEMMA EndTurnStep == ASSUME UploadsInv, EndTurn PROVE UploadsInv'
<1>1. input' = <<>> /\ sources' = sources /\ Len(<<>>) = 0
  BY DEF EndTurn
<1>2. UploadsTypeOK'
  <2>1. /\ <<>> \in Seq(InputPart) /\ <<>> \in Seq(Delivered)
        /\ MaxTotalBytes \in 0 .. MaxTotalBytes
    BY Limits
  <2> QED
    BY <2>1 DEF EndTurn, UploadsInv, UploadsTypeOK
<1>3. Len(sources') + Len(input') <= MaxParts
  BY <1>1, LenProperties DEF UploadsInv, UploadsTypeOK
<1> QED
  BY <1>2, <1>3 DEF EndTurn, UploadsInv, ReadingInv, ExchangeInv

\* An object that changes changes nothing that was read.
LEMMA PutObjectStep ==
    ASSUME UploadsInv, NEW u \in Ref, NEW c \in Content \union {NoContent}, PutObject(u, c)
    PROVE  UploadsInv'
<1>1. UploadsTypeOK'
  BY DEF PutObject, UploadsInv, UploadsTypeOK
<1>2. ReadingInv' /\ ExchangeInv'
  BY DEF PutObject, UploadsInv, ReadingInv, ExchangeInv, StandsFor
<1> QED
  BY <1>1, <1>2 DEF PutObject, UploadsInv

\* A read begins with nothing read.
LEMMA OpenObjectStep ==
    ASSUME UploadsInv, NEW u \in Ref, OpenObject(u),
           \/ Checking
           \/ Exchanging /\ sources[position] \in Ref /\ delivery = "bytes"
    PROVE  UploadsInv'
<1>1. UploadsTypeOK'
  BY DEF OpenObject, UploadsInv, UploadsTypeOK
<1>2. ReadingInv'
  BY Limits DEF OpenObject, UploadsInv, ReadingInv, UploadsTypeOK, Checking, Exchanging
<1>3. ExchangeInv'
  BY DEF OpenObject, UploadsInv, ExchangeInv, StandsFor
<1> QED
  BY <1>1, <1>2, <1>3 DEF OpenObject, UploadsInv

\* A read goes on up to its limit.
LEMMA ReadBytesStep == ASSUME UploadsInv, ReadBytes PROVE UploadsInv'
<1>1. PICK n \in 1 .. Size[body] - length : length + n <= ReadLimit /\ length' = length + n
  BY DEF ReadBytes
<1>2. UploadsTypeOK /\ body # NoContent
  BY DEF UploadsInv, ReadBytes
<1>3. Size[body] \in Nat /\ length \in Nat /\ length + n \in Nat
  BY <1>2, SizeAssumption DEF UploadsTypeOK
<1>4. UploadsTypeOK'
  BY <1>1, <1>2, <1>3 DEF ReadBytes, UploadsTypeOK
<1>5. ASSUME uploadStep = "exchanging" PROVE length' <= MaxUploadBytes /\ length' <= remaining
  <2> DEFINE T == {MaxUploadBytes, remaining}
  <2>1. ReadLimit = Min(T)
    BY <1>5 DEF ReadLimit
  <2>2. T \subseteq Nat /\ T # {}
    BY <1>2, Limits DEF UploadsTypeOK
  <2>3. MaxUploadBytes \in T /\ remaining \in T
    OBVIOUS
  <2> HIDE DEF T
  <2>4. ReadLimit \in Nat /\ ReadLimit <= MaxUploadBytes /\ ReadLimit <= remaining
    BY <2>1, <2>2, <2>3, MinFacts
  <2>5. MaxUploadBytes \in Nat /\ remaining \in Nat
    BY <2>2, <2>3
  <2> QED
    BY <1>1, <1>3, <2>4, <2>5
<1>6. ReadingInv'
  BY <1>5 DEF ReadBytes, UploadsInv, ReadingInv
<1>7. ExchangeInv'
  BY DEF ReadBytes, UploadsInv, ExchangeInv, StandsFor
<1> QED
  BY <1>4, <1>6, <1>7 DEF ReadBytes, UploadsInv

\* A turn begins with the parts that it submits.
LEMMA SubmitPartsStep ==
    ASSUME UploadsInv, NEW parts \in BoundedSeq(InputPart, MaxInput), SubmitParts(parts)
    PROVE  UploadsInv'
<1>1. parts \in Seq(InputPart)
  BY DEF BoundedSeq, SeqOf
<1>2. body = NoContent
  BY DEF UploadsInv, ReadingInv, SubmitParts
<1>3. UploadsTypeOK'
  BY <1>1 DEF SubmitParts, UploadsInv, UploadsTypeOK
<1> QED
  BY <1>2, <1>3 DEF SubmitParts, UploadsInv, ReadingInv, ExchangeInv

\* The next part is checked.
LEMMA PartVerifiedStep == ASSUME UploadsInv, PartVerified PROVE UploadsInv'
<1>1. UploadsTypeOK' /\ position' >= 1
  BY DEF PartVerified, UploadsInv, UploadsTypeOK
<1> QED
  BY <1>1 DEF PartVerified, UploadsInv, ReadingInv, ExchangeInv

\* A model call begins with nothing exchanged and the whole budget.
LEMMA BeginCallStep ==
    ASSUME UploadsInv, BeginCall, body = NoContent,
           sources' \in Seq(PartSource), input' \in Seq(InputPart),
           Len(sources') + Len(input') <= MaxParts
    PROVE  UploadsInv'
<1>1. Len(sources') \in Nat /\ Len(input') \in Nat /\ MaxParts \in Nat /\ MaxTotalBytes \in Nat
  BY Limits, LenProperties
<1>2. UploadsTypeOK'
  <2>1. delivered' = <<>> /\ delivered' \in Seq(Delivered)
    BY DEF BeginCall
  <2>2. Len(sources') <= MaxParts
    BY <1>1
  <2> QED
    <3>1. MaxTotalBytes \in 0 .. MaxTotalBytes
      BY <1>1
    <3> QED
      BY <1>1, <2>1, <2>2, <3>1 DEF BeginCall, UploadsInv, UploadsTypeOK
<1>3. Len(delivered') = 0 /\ DOMAIN delivered' = {} /\ Carried(delivered') = 0
  BY CarriedFacts DEF BeginCall
<1>4. ExchangeInv'
  BY <1>1, <1>3 DEF BeginCall, ExchangeInv
<1>5. ReadingInv' /\ uploadStep' # "answering" /\ position' >= 1
  BY DEF BeginCall, ReadingInv
<1> QED
  BY <1>2, <1>4, <1>5 DEF UploadsInv

\* The parts of a turn are accepted for the next calls.
LEMMA AcceptPartsStep == ASSUME UploadsInv, AcceptParts PROVE UploadsInv'
<1> DEFINE refs == [k \in DOMAIN input |-> input[k].ref]
<1>1. sources \in Seq(PartSource) /\ input \in Seq(InputPart)
  BY DEF UploadsInv, UploadsTypeOK
<1>2. refs \in Seq(PartSource) /\ Len(refs) = Len(input)
  <2>1. DOMAIN input = 1 .. Len(input) /\ Len(input) \in Nat
    BY <1>1
  <2>2. \A k \in 1 .. Len(input) : input[k].ref \in PartSource
    <3>1. \A k \in 1 .. Len(input) : input[k] \in InputPart
      BY <1>1
    <3> QED
      BY <3>1 DEF InputPart
  <2> QED
    BY <2>1, <2>2
<1>3. body = NoContent
  BY DEF UploadsInv, ReadingInv, AcceptParts, UploadsTypeOK
<1>4. sources' = sources \o refs /\ input' = <<>> /\ BeginCall
  BY DEF AcceptParts
<1> HIDE DEF refs
<1>5. sources' \in Seq(PartSource) /\ Len(sources') = Len(sources) + Len(input)
  <2>1. ASSUME NEW U, NEW a \in Seq(U), NEW b \in Seq(U)
        PROVE  a \o b \in Seq(U) /\ Len(a \o b) = Len(a) + Len(b)
    BY ConcatProperties
  <2>2. sources \o refs \in Seq(PartSource) /\ Len(sources \o refs) = Len(sources) + Len(refs)
    BY <1>1, <1>2, <2>1
  <2> QED
    BY <1>2, <1>4, <2>2
<1>6. input' \in Seq(InputPart) /\ Len(input') = 0
  BY <1>4
<1>7. Len(sources') + Len(input') <= MaxParts
  BY <1>1, <1>5, <1>6, LenProperties DEF UploadsInv
<1> QED
  BY <1>3, <1>4, <1>5, <1>6, <1>7, BeginCallStep

\* A part is exchanged: what it carries is within the limits, and leaves the budget.
LEMMA PushPartStep ==
    ASSUME UploadsInv, uploadStep = "exchanging", position \in DOMAIN sources,
           NEW as \in {"source", "url", "bytes"}, NEW bytes \in Nat, PushPart(as, bytes),
           as = (IF sources[position] \in Ref THEN delivery ELSE "source"),
           bytes <= MaxUploadBytes, bytes <= remaining, remaining' = remaining - bytes
    PROVE  UploadsInv'
<1> DEFINE e == [source |-> sources[position], as |-> as, bytes |-> bytes]
<1>0. /\ UploadsTypeOK /\ ExchangeInv /\ delivered \in Seq(Delivered) /\ Len(delivered) \in Nat
      /\ sources \in Seq(PartSource) /\ Len(sources) \in Nat /\ position \in 1 .. Len(sources)
  BY LenProperties DEF UploadsInv, UploadsTypeOK
<1>1. e \in Delivered
  BY <1>0 DEF Delivered
<1>2. delivered' = Append(delivered, e) /\ position' = position + 1 /\ body' = NoContent
        /\ length' = 0
  BY DEF PushPart
<1>3. UNCHANGED <<delivery, object, sources, input, uploadStep, stopped>>
  BY DEF PushPart
<1>4. e.source = sources[position] /\ e.as = as /\ e.bytes = bytes
  OBVIOUS
<1> HIDE DEF e
<1>5. /\ delivered' \in Seq(Delivered) /\ Len(delivered') = Len(delivered) + 1
      /\ DOMAIN delivered' = 1 .. Len(delivered) + 1
      /\ delivered'[Len(delivered) + 1] = e
      /\ \A k \in 1 .. Len(delivered) : delivered'[k] = delivered[k]
  BY <1>0, <1>1, <1>2
<1>6. Carried(delivered') = Carried(delivered) + bytes /\ Carried(delivered) \in Nat
  BY <1>0, <1>1, <1>2, <1>4, CarriedFacts
<1>7. /\ Len(delivered) = position - 1 /\ Len(delivered) <= Len(sources)
      /\ \A k \in DOMAIN delivered : StandsFor(k)
      /\ remaining = MaxTotalBytes - Carried(delivered)
  BY <1>0 DEF ExchangeInv
<1>8. MaxTotalBytes \in Nat /\ remaining \in 0 .. MaxTotalBytes
  BY <1>0, Limits DEF UploadsTypeOK
<1>9. UploadsTypeOK'
  BY <1>0, <1>2, <1>3, <1>5, <1>8 DEF UploadsTypeOK
<1>10. ASSUME NEW k \in DOMAIN delivered' PROVE StandsFor(k)'
  <2>1. CASE k = Len(delivered) + 1
    <3>1. delivered'[k] = e /\ sources'[k] = sources[position] /\ delivery' = delivery
      BY <1>0, <1>3, <1>5, <1>7, <2>1
    <3> QED
      BY <1>4, <3>1 DEF StandsFor
  <2>2. CASE k \in 1 .. Len(delivered)
    <3>1. delivered'[k] = delivered[k] /\ sources' = sources /\ delivery' = delivery
            /\ k \in DOMAIN delivered
      BY <1>0, <1>3, <1>5, <2>2
    <3> QED
      BY <1>7, <3>1 DEF StandsFor
  <2> QED
    BY <1>0, <1>5, <2>1, <2>2
<1>13. ExchangeInv'
  <2>1. Len(delivered') = position' - 1 /\ Len(delivered') <= Len(sources')
    BY <1>0, <1>2, <1>3, <1>5, <1>7
  <2>2. remaining' = MaxTotalBytes - Carried(delivered')
    BY <1>6, <1>7, <1>8
  <2> QED
    BY <1>10, <2>1, <2>2 DEF ExchangeInv
<1>14. ReadingInv' /\ uploadStep' # "answering" /\ position' >= 1
  BY <1>0, <1>2, <1>3 DEF ReadingInv
<1> QED
  BY <1>3, <1>9, <1>13, <1>14 DEF UploadsInv

\* Every part of a call has been exchanged within the budget.
LEMMA DeliverPartsStep == ASSUME UploadsInv, DeliverParts PROVE UploadsInv'
<1>0. UploadsTypeOK /\ remaining \in Nat /\ MaxUploadBytes \in Nat
        /\ delivery \in {"url", "bytes"}
  BY Limits DEF UploadsInv, UploadsTypeOK
<1>1. ASSUME PassThrough PROVE UploadsInv'
  <2>1. sources[position] \notin Ref /\ remaining' = remaining - 0
    BY <1>0, <1>1, SourceAssumption DEF PassThrough
  <2> QED
    BY <1>0, <1>1, <2>1, PushPartStep DEF PassThrough, Exchanging
<1>2. ASSUME SignGet PROVE UploadsInv'
  <2>1. CASE PushPart("url", 0) /\ UNCHANGED remaining
    <3>1. remaining' = remaining - 0
      BY <1>0, <2>1
    <3> QED
      BY <1>0, <1>2, <2>1, <3>1, PushPartStep DEF SignGet, Exchanging
  <2> QED
    BY <1>2, <2>1, EndTurnStep DEF SignGet
<1>3. ASSUME ReadPart PROVE UploadsInv'
  BY <1>3, OpenObjectStep, EndTurnStep DEF ReadPart, Unavailable
<1>4. ASSUME PartRead PROVE UploadsInv'
  <2>1. /\ position \in DOMAIN sources /\ sources[position] \in Ref /\ delivery = "bytes"
        /\ length <= MaxUploadBytes /\ length <= remaining /\ length \in Nat
    BY <1>0, <1>4 DEF PartRead, WholeBody, UploadsInv, ReadingInv, UploadsTypeOK
  <2> QED
    BY <1>4, <2>1, PushPartStep DEF PartRead, Spent
<1>5. ASSUME AbortSource PROVE UploadsInv'
  BY <1>5 DEF AbortSource, UploadsInv, UploadsTypeOK, ReadingInv, ExchangeInv, StandsFor
<1>6. ASSUME CallModel PROVE UploadsInv'
  <2>1. Len(delivered) = Len(sources) /\ body = NoContent
    <3>1. position > Len(sources) /\ position \in Nat /\ Len(sources) \in Nat
            /\ Len(delivered) \in Nat
          /\ Len(delivered) = position - 1 /\ Len(delivered) <= Len(sources)
      BY <1>0, <1>6, LenProperties DEF CallModel, Exchanged, UploadsInv, ExchangeInv,
         UploadsTypeOK
    <3>2. position \notin DOMAIN sources
      BY <1>0, <3>1 DEF UploadsTypeOK
    <3>3. uploadStep = "exchanging"
      BY <1>6 DEF CallModel, Exchanged
    <3> QED
      BY <3>1, <3>2, <3>3 DEF UploadsInv, ReadingInv
  <2>2. uploadStep = "exchanging"
    BY <1>6 DEF CallModel, Exchanged
  <2> QED
    BY <1>6, <2>1, <2>2 DEF CallModel, UploadsInv, UploadsTypeOK, ReadingInv,
       ExchangeInv, StandsFor
<1>7. ASSUME CallDropped PROVE UploadsInv'
  BY <1>7, EndTurnStep DEF CallDropped
<1>8. ASSUME CallAgain PROVE UploadsInv'
  BY <1>8, BeginCallStep DEF CallAgain, UploadsInv, UploadsTypeOK, ReadingInv
<1> QED
  BY <1>1, <1>2, <1>3, <1>4, <1>5, <1>6, <1>7, <1>8 DEF DeliverParts

\* Every step of a browser, a store and a call keeps the invariant.
LEMMA UploadsNextInv == UploadsInv /\ [UploadsNext]_uploadVars => UploadsInv'
<1> SUFFICES ASSUME UploadsInv, [UploadsNext]_uploadVars PROVE UploadsInv'
  OBVIOUS
<1>1. CASE UNCHANGED uploadVars
  BY <1>1 DEF uploadVars, UploadsInv, UploadsTypeOK, ReadingInv, ExchangeInv, StandsFor
<1>2. ASSUME NEW u \in Ref, NEW c \in Content \union {NoContent}, PutObject(u, c)
      PROVE  UploadsInv'
  BY <1>2, PutObjectStep
<1>3. ASSUME NEW parts \in BoundedSeq(InputPart, MaxInput), SubmitParts(parts)
      PROVE  UploadsInv'
  BY <1>3, SubmitPartsStep
<1>4. CASE ReadStored
  BY <1>4, ReadBytesStep, EndTurnStep DEF ReadStored, TooLarge
<1>5. CASE ResolveParts
  <2>1. ASSUME CheckPart PROVE UploadsInv'
    BY <2>1, OpenObjectStep, EndTurnStep DEF CheckPart, Unavailable, Acceptable
  <2>2. ASSUME RefusePart \/ PartMismatch PROVE UploadsInv'
    BY <2>2, EndTurnStep DEF RefusePart, PartMismatch
  <2> QED
    BY <1>5, <2>1, <2>2, PartVerifiedStep, AcceptPartsStep DEF ResolveParts
<1>6. CASE DeliverParts
  BY <1>6, DeliverPartsStep
<1>7. CASE CancelTurn
  BY <1>7, EndTurnStep DEF CancelTurn
<1> QED
  BY <1>1, <1>2, <1>3, <1>4, <1>5, <1>6, <1>7 DEF UploadsNext

\* The types of the uploads.
THEOREM UploadsTypeCorrect == UploadsSpec => []UploadsTypeOK
<1>1. UploadsInv => UploadsTypeOK
  BY DEF UploadsInv
<1> QED
  BY <1>1, UploadsInitInv, UploadsNextInv, PTL DEF UploadsSpec

\* Every model call has the whole transcript exchanged, within the budget of the policy.
THEOREM CallsStayWithinBudget == UploadsSpec => []CallWithinBudget
  BY InvMeansWithinBudget, UploadsInitInv, UploadsNextInv, PTL DEF UploadsSpec

-----------------------------------------------------------------------------
(* The lines of a text *)

\* What a text is made of.
Symbol == Piece \union {LineEnd}

\* The lines of a text: one at least.
Lines == Seq(Seq(Piece)) \ {<<>>}

\* A piece lengthens the last line, an end of line begins the next one.
LEMMA LengthenedFacts ==
    ASSUME NEW ls \in Lines, NEW p \in Symbol
    PROVE  /\ Lengthened(ls, p) \in Lines
           /\ p = LineEnd => Lengthened(ls, p) = Append(ls, <<>>)
           /\ p # LineEnd => /\ Len(Lengthened(ls, p)) = Len(ls)
                             /\ Lengthened(ls, p)[Len(ls)] = Append(ls[Len(ls)], p)
                             /\ \A i \in 1 .. Len(ls) - 1 : Lengthened(ls, p)[i] = ls[i]
<1>1. ls \in Seq(Seq(Piece)) /\ Len(ls) \in Nat \ {0} /\ Len(ls) \in 1 .. Len(ls)
  BY EmptySeq DEF Lines
<1>2. CASE p = LineEnd
  <2>1. Lengthened(ls, p) = Append(ls, <<>>)
    BY <1>2 DEF Lengthened
  <2>2. <<>> \in Seq(Piece)
    OBVIOUS
  <2>3. Append(ls, <<>>) \in Seq(Seq(Piece)) /\ Len(Append(ls, <<>>)) = Len(ls) + 1
    BY <1>1, <2>2, AppendProperties
  <2> QED
    BY <1>1, <1>2, <2>1, <2>3 DEF Lines
<1>3. CASE p # LineEnd
  <2> DEFINE e == Append(ls[Len(ls)], p)
             m == [ls EXCEPT ![Len(ls)] = e]
  <2>1. Lengthened(ls, p) = m
    BY <1>3 DEF Lengthened
  <2>2. e \in Seq(Piece)
    BY <1>1, <1>3 DEF Symbol
  <2> HIDE DEF e
  <2>3. m \in Seq(Seq(Piece)) /\ Len(m) = Len(ls)
    BY <1>1, <2>2
  <2>4. m[Len(ls)] = e /\ \A i \in 1 .. Len(ls) - 1 : m[i] = ls[i]
    BY <1>1
  <2>5. m # <<>>
    BY <1>1, <2>3
  <2> HIDE DEF m
  <2>6. m \in Lines
    BY <2>3, <2>5 DEF Lines
  <2> QED
    BY <1>3, <2>1, <2>3, <2>4, <2>6 DEF e
<1> QED
  BY <1>2, <1>3

\* The lines of the first n symbols.
LinesTo(t) ==
    CHOOSE ls : ls = [n \in 0 .. Len(t) |->
        IF n = 0 THEN << <<>> >> ELSE Lengthened(ls[n - 1], t[n])]

\* The lines of the first n symbols, symbol by symbol.
LEMMA LinesToFacts ==
    ASSUME NEW t \in Seq(Symbol)
    PROVE  /\ LinesTo(t) \in [0 .. Len(t) -> Lines]
           /\ LinesTo(t)[0] = << <<>> >>
           /\ \A n \in 1 .. Len(t) : LinesTo(t)[n] = Lengthened(LinesTo(t)[n - 1], t[n])
<1> DEFINE Body(k) == [n \in 0 .. Len(t) |->
               IF n = 0 THEN << <<>> >> ELSE Lengthened(k[n - 1], t[n])]
           g == [n \in 1 .. Len(t) |-> [ls \in Lines |-> Lengthened(ls, t[n])]]
           K == LinesTo(t)
<1>0. \A n \in 1 .. Len(t) : t[n] \in Symbol
  OBVIOUS
<1>1. g \in [1 .. Len(t) -> [Lines -> Lines]]
  BY <1>0, LengthenedFacts
<1>2. PICK f \in [0 .. Len(t) -> Lines] :
          f[0] = << <<>> >> /\ \A i \in 1 .. Len(t) : f[i] = g[i][f[i - 1]]
  <2> DEFINE N == Len(t)
             A == Lines
             base == << <<>> >>
  <2>1. N \in Nat /\ base \in A /\ g \in [1 .. N -> [A -> A]]
    BY <1>1 DEF Lines
  <2> HIDE DEF g, A, N, base
  <2>2. \E f \in [0 .. N -> A] : f[0] = base /\ \A i \in 1 .. N : f[i] = g[i][f[i - 1]]
    BY <2>1, IterationExists
  <2> QED
    BY <2>2 DEF A, N, base
<1>3. \A i \in 1 .. Len(t) : f[i] = Lengthened(f[i - 1], t[i])
  <2> SUFFICES ASSUME NEW i \in 1 .. Len(t) PROVE f[i] = Lengthened(f[i - 1], t[i])
    OBVIOUS
  <2>1. i - 1 \in 0 .. Len(t)
    OBVIOUS
  <2>2. f[i - 1] \in Lines
    BY <2>1
  <2>3. g[i] = [ls \in Lines |-> Lengthened(ls, t[i])]
    OBVIOUS
  <2>4. f[i] = g[i][f[i - 1]]
    BY <1>2
  <2> HIDE DEF g
  <2> QED
    BY <2>2, <2>3, <2>4
<1>4. f = Body(f)
  <2> DEFINE B == Body(f)
  <2>1. ASSUME NEW n \in 0 .. Len(t) PROVE f[n] = B[n]
    <3>1. CASE n = 0
      BY <1>2, <3>1
    <3>2. CASE n \in 1 .. Len(t)
      BY <1>3, <3>2
    <3> QED
      BY <3>1, <3>2
  <2>2. B = [n \in 0 .. Len(t) |-> B[n]] /\ f = [n \in 0 .. Len(t) |-> f[n]]
    OBVIOUS
  <2> HIDE DEF B
  <2>3. f = B
    BY <2>1, <2>2
  <2> QED
    BY <2>3 DEF B
<1>5. K = Body(K)
  <2>1. K = CHOOSE k : k = Body(k)
    BY DEF LinesTo
  <2> HIDE DEF Body, K
  <2> QED
    BY <1>4, <2>1
<1>6. K[0] = << <<>> >> /\ \A i \in 1 .. Len(t) : K[i] = Lengthened(K[i - 1], t[i])
  <2> HIDE DEF K
  <2>1. \A n \in 0 .. Len(t) : K[n] = Body(K)[n]
    BY <1>5
  <2> QED
    BY <2>1
<1>7. \A i \in 0 .. Len(t) : K[i] = f[i]
  <2> HIDE DEF K
  <2>1. Len(t) \in Nat
    OBVIOUS
  <2>2. \A i \in 1 .. Len(t) : K[i - 1] = f[i - 1] => K[i] = f[i]
    BY <1>3, <1>6
  <2>3. K[0] = f[0]
    BY <1>2, <1>6
  <2> QED
    BY <2>1, <2>2, <2>3, IterationUnique
<1>8. K \in [0 .. Len(t) -> Lines]
  <2> HIDE DEF K
  <2> QED
    BY <1>5, <1>7
<1> QED
  BY <1>6, <1>8

\* The lines of a text are those of all its symbols.
LEMMA LinesOfIsLast == ASSUME NEW t PROVE LinesOf(t) = LinesTo(t)[Len(t)]
  BY DEF LinesOf, LinesTo

\* An empty text is an empty line.
LEMMA LinesEmpty == LinesOf(<<>>) = << <<>> >>
<1> DEFINE t == <<>>
<1>1. t \in Seq(Symbol) /\ Len(t) = 0
  OBVIOUS
<1> HIDE DEF t
<1>2. LinesOf(t) = << <<>> >>
  BY <1>1, LinesToFacts, LinesOfIsLast
<1> QED
  BY <1>2 DEF t

\* One more symbol lengthens the lines.
LEMMA LinesAppend ==
    ASSUME NEW s \in Seq(Symbol), NEW e \in Symbol
    PROVE  LinesOf(s) \in Lines /\ LinesOf(Append(s, e)) = Lengthened(LinesOf(s), e)
<1> DEFINE t == Append(s, e)
           K == LinesTo(s)
           L == LinesTo(t)
<1>1. /\ t \in Seq(Symbol) /\ Len(t) = Len(s) + 1 /\ t[Len(s) + 1] = e
      /\ \A i \in 1 .. Len(s) : t[i] = s[i]
  OBVIOUS
<1>2. /\ K[0] = << <<>> >> /\ K \in [0 .. Len(s) -> Lines]
      /\ \A n \in 1 .. Len(s) : K[n] = Lengthened(K[n - 1], s[n])
  BY LinesToFacts
<1>3. L[0] = << <<>> >> /\ \A n \in 1 .. Len(t) : L[n] = Lengthened(L[n - 1], t[n])
  <2> HIDE DEF t
  <2> QED
    BY <1>1, LinesToFacts
<1> HIDE DEF t, K, L
<1>4. \A i \in 0 .. Len(s) : K[i] = L[i]
  <2>1. \A i \in 1 .. Len(s) : K[i - 1] = L[i - 1] => K[i] = L[i]
    BY <1>1, <1>2, <1>3
  <2> DEFINE N == Len(s)
  <2>2. N \in Nat /\ K[0] = L[0]
    BY <1>2, <1>3
  <2> HIDE DEF N
  <2>3. \A i \in 1 .. N : K[i - 1] = L[i - 1] => K[i] = L[i]
    BY <2>1 DEF N
  <2>4. \A i \in 0 .. N : K[i] = L[i]
    BY <2>2, <2>3, IterationUnique
  <2> QED
    BY <2>4 DEF N
<1>5. L[Len(t)] = Lengthened(L[Len(s)], e)
  <2>1. Len(t) \in 1 .. Len(t) /\ Len(t) - 1 = Len(s)
    BY <1>1
  <2> QED
    BY <1>1, <1>3, <2>1
<1>6. K[Len(s)] = L[Len(s)] /\ K[Len(s)] \in Lines
  BY <1>2, <1>4, LenProperties
<1> QED
  BY <1>5, <1>6, LinesOfIsLast DEF t, K, L

\* A text has lines.
LEMMA LinesType == ASSUME NEW t \in Seq(Symbol) PROVE LinesOf(t) \in Lines
<1>1. LinesTo(t)[Len(t)] \in Lines
  BY LinesToFacts, LenProperties
<1> QED
  BY <1>1, LinesOfIsLast

\* The complete lines, and the one that is not.
LEMMA CompletePartial ==
    ASSUME NEW t \in Seq(Symbol)
    PROVE  /\ LinesOf(t) = Append(Complete(t), Partial(t))
           /\ Complete(t) \in Seq(Seq(Piece)) /\ Partial(t) \in Seq(Piece)
<1> DEFINE ls == LinesOf(t)
           S == Seq(Piece)
<1>1. ls \in Seq(S) /\ ls # <<>>
  BY LinesType DEF Lines
<1> HIDE DEF ls, S
<1>2. PICK u \in Seq(S), e \in S : ls = Append(u, e)
  BY <1>1, SequenceEmptyOrAppend
<1>3. Front(ls) = u /\ Last(ls) = e
  BY <1>2, FrontLast
<1> QED
  BY <1>2, <1>3 DEF Complete, Partial, ls, S

\* Lines that come before are not lengthened.
LEMMA LengthenedConcat ==
    ASSUME NEW D \in Seq(Seq(Piece)), NEW M \in Lines, NEW e \in Symbol
    PROVE  Lengthened(D \o M, e) = D \o Lengthened(M, e)
<1> DEFINE A == D \o M
           d == Len(D)
           m == Len(M)
           S == Seq(Piece)
<1>1. /\ M \in Seq(S) /\ D \in Seq(S) /\ m \in Nat /\ m >= 1 /\ d \in Nat
  BY EmptySeq DEF Lines
<1> HIDE DEF S
<1>2. /\ A \in Seq(S) /\ Len(A) = d + m
      /\ \A i \in 1 .. d + m : A[i] = IF i <= d THEN D[i] ELSE M[i - d]
  BY <1>1, ConcatProperties
<1>3. A \in Lines
  <2> HIDE DEF A
  <2>1. A # <<>>
    BY <1>1, <1>2
  <2> QED
    BY <1>2, <2>1 DEF Lines, S
<1> HIDE DEF A
<1> DEFINE B == Lengthened(A, e)
           N == Lengthened(M, e)
           C == D \o N
<1>4. B \in Seq(S) /\ N \in Seq(S)
  BY <1>3, LengthenedFacts DEF Lines, S
<1>5. CASE e = LineEnd
  <2>1. B = Append(A, <<>>) /\ N = Append(M, <<>>)
    BY <1>3, <1>5, LengthenedFacts
  <2>2. <<>> \in S
    BY DEF S
  <2> HIDE DEF B, N
  <2> DEFINE w == <<>>
  <2>3. D \o Append(M, w) = Append(D \o M, w)
    <3>1. w \in S
      BY <2>2
    <3> HIDE DEF w
    <3> QED
      BY <1>1, <3>1
  <2> QED
    BY <2>1, <2>3 DEF A, B, N
<1>6. CASE e # LineEnd
  <2>1. /\ Len(B) = Len(A) /\ B[Len(A)] = Append(A[Len(A)], e)
        /\ \A i \in 1 .. Len(A) - 1 : B[i] = A[i]
    BY <1>3, <1>6, LengthenedFacts
  <2>2. /\ Len(N) = m /\ N[m] = Append(M[m], e) /\ \A i \in 1 .. m - 1 : N[i] = M[i]
    BY <1>6, LengthenedFacts
  <2> HIDE DEF B, N
  <2>3. /\ C \in Seq(S) /\ Len(C) = d + m
        /\ \A i \in 1 .. d + m : C[i] = IF i <= d THEN D[i] ELSE N[i - d]
    <3>1. /\ C \in Seq(S) /\ Len(C) = Len(D) + Len(N)
          /\ \A i \in 1 .. Len(D) + Len(N) : C[i] = IF i <= Len(D) THEN D[i] ELSE N[i - Len(D)]
      BY <1>1, <1>4, ConcatProperties
    <3> QED
      BY <2>2, <3>1
  <2> HIDE DEF C, d, m
  <2>4. ASSUME NEW i \in 1 .. d + m PROVE B[i] = C[i]
    <3>1. CASE i <= d
      <4>1. i \in 1 .. Len(A) - 1
        BY <1>1, <1>2, <3>1
      <4>2. B[i] = D[i]
        BY <1>2, <2>1, <3>1, <4>1
      <4> QED
        BY <2>3, <3>1, <4>2
    <3>2. CASE d < i /\ i < d + m
      <4>1. i \in 1 .. Len(A) - 1 /\ i - d \in 1 .. m - 1 /\ ~(i <= d)
        BY <1>1, <1>2, <3>2
      <4>2. B[i] = M[i - d] /\ N[i - d] = M[i - d]
        BY <1>2, <2>1, <2>2, <4>1
      <4> QED
        BY <2>3, <4>1, <4>2
    <3>3. CASE i = d + m
      <4>1. ~(i <= d) /\ i - d = m
        BY <1>1, <3>3
      <4>2. A[i] = M[m]
        BY <1>2, <4>1
      <4>3. B[i] = Append(M[m], e) /\ C[i] = N[m]
        BY <1>2, <2>1, <2>3, <3>3, <4>1, <4>2
      <4> QED
        BY <2>2, <4>3
    <3> QED
      BY <1>1, <3>1, <3>2, <3>3
  <2>5. Len(B) = d + m /\ Len(C) = d + m
    BY <1>2, <2>1, <2>3
  <2>6. B = C
    BY <1>4, <2>3, <2>4, <2>5, SeqEqual
  <2> QED
    BY <2>6 DEF A, B, C, N
<1> QED
  BY <1>5, <1>6

\* After a text whose last lines are those of q, more text lengthens q.
LEMMA LinesConcat ==
    ASSUME NEW a \in Seq(Symbol), NEW q \in Seq(Symbol), NEW D \in Seq(Seq(Piece)),
           LinesOf(a) = D \o LinesOf(q)
    PROVE  \A b \in Seq(Symbol) : LinesOf(a \o b) = D \o LinesOf(q \o b)
<1> DEFINE G == {b \in Seq(Symbol) : LinesOf(a \o b) = D \o LinesOf(q \o b)}
<1>1. <<>> \in G
  <2>1. a \o <<>> = a /\ q \o <<>> = q /\ <<>> \in Seq(Symbol)
    OBVIOUS
  <2> QED
    BY <2>1
<1>2. ASSUME NEW b \in Seq(Symbol), NEW e \in Symbol, b \in G PROVE Append(b, e) \in G
  <2> DEFINE x == a \o b
             y == q \o b
             M == LinesOf(y)
  <2>1. x \in Seq(Symbol) /\ y \in Seq(Symbol)
    OBVIOUS
  <2>2. a \o Append(b, e) = Append(x, e) /\ q \o Append(b, e) = Append(y, e)
    OBVIOUS
  <2>3. LinesOf(x) = D \o M
    BY <1>2
  <2> HIDE DEF x, y
  <2>4. /\ M \in Lines /\ LinesOf(x) \in Lines
        /\ LinesOf(Append(x, e)) = Lengthened(LinesOf(x), e)
        /\ LinesOf(Append(y, e)) = Lengthened(M, e)
    BY <2>1, LinesAppend
  <2> HIDE DEF M
  <2>5. Lengthened(D \o M, e) = D \o Lengthened(M, e)
    BY <2>3, <2>4, LengthenedConcat
  <2> QED
    <3>1. Append(b, e) \in Seq(Symbol)
      BY <1>2
    <3> QED
      BY <2>2, <2>3, <2>4, <2>5, <3>1 DEF M
<1>3. Seq(Symbol) \subseteq G
  <2> HIDE DEF G
  <2> QED
    BY <1>1, <1>2, SeqInductive
<1> QED
  BY <1>3

\* Pieces are one line.
LEMMA LineAlone == \A x \in Seq(Piece) : LinesOf(x) = << x >>
<1> DEFINE G == {x \in Seq(Piece) : LinesOf(x) = << x >>}
<1>1. <<>> \in G
  BY LinesEmpty
<1>2. ASSUME NEW x \in Seq(Piece), NEW e \in Piece, x \in G PROVE Append(x, e) \in G
  <2>1. x \in Seq(Symbol) /\ e \in Symbol /\ e # LineEnd
    BY PieceAssumption DEF Symbol
  <2>2. LinesOf(Append(x, e)) = Lengthened(<< x >>, e)
    BY <1>2, <2>1, LinesAppend
  <2>3. Lengthened(<< x >>, e) = << Append(x, e) >>
    BY <2>1 DEF Lengthened
  <2>4. Append(x, e) \in Seq(Piece)
    OBVIOUS
  <2> QED
    BY <2>2, <2>3, <2>4
<1>3. Seq(Piece) \subseteq G
  <2> HIDE DEF G
  <2> QED
    BY <1>1, <1>2, SeqInductive
<1> QED
  BY <1>3

\* A text without a complete line is pieces.
LEMMA NothingComplete ==
    \A t \in Seq(Symbol) : Complete(t) = <<>> => t \in Seq(Piece) /\ Partial(t) = t
<1> DEFINE G == {t \in Seq(Symbol) : Len(LinesOf(t)) = 1 => t \in Seq(Piece)}
<1>1. <<>> \in G
  OBVIOUS
<1>2. ASSUME NEW t \in Seq(Symbol), NEW e \in Symbol, t \in G PROVE Append(t, e) \in G
  <2> DEFINE u == Append(t, e)
             ls == LinesOf(t)
  <2>1. u \in Seq(Symbol) /\ ls \in Lines /\ LinesOf(u) = Lengthened(ls, e)
    BY LinesAppend
  <2>2. Len(ls) \in Nat /\ Len(ls) # 0
    BY <2>1, EmptySeq, LenProperties DEF Lines
  <2>3. CASE e = LineEnd
    <3>1. LinesOf(u) = Append(ls, <<>>)
      BY <2>1, <2>3, LengthenedFacts
    <3>2. <<>> \in Seq(Piece) /\ ls \in Seq(Seq(Piece))
      BY <2>1 DEF Lines
    <3>3. Len(LinesOf(u)) = Len(ls) + 1
      BY <3>1, <3>2, AppendProperties
    <3> HIDE DEF u, ls
    <3>4. Len(LinesOf(u)) # 1
      BY <2>2, <3>3
    <3> QED
      BY <2>1, <3>4 DEF u
  <2>4. CASE e # LineEnd
    <3>1. Len(LinesOf(u)) = Len(ls)
      BY <2>1, <2>4, LengthenedFacts
    <3>2. e \in Piece
      BY <2>4 DEF Symbol
    <3>3. t \in Seq(Piece) => u \in Seq(Piece)
      BY <3>2
    <3> QED
      BY <1>2, <2>1, <3>1, <3>3
  <2> QED
    BY <2>3, <2>4
<1>3. Seq(Symbol) \subseteq G
  <2> HIDE DEF G
  <2> QED
    BY <1>1, <1>2, SeqInductive
<1> SUFFICES ASSUME NEW t \in Seq(Symbol), Complete(t) = <<>>
             PROVE  t \in Seq(Piece) /\ Partial(t) = t
  OBVIOUS
<1>4. LinesOf(t) = << Partial(t) >>
  <2>1. LinesOf(t) = Append(<<>>, Partial(t))
    BY CompletePartial
  <2> QED
    BY <2>1
<1>5. t \in Seq(Piece)
  BY <1>3, <1>4
<1>6. LinesOf(t) = << t >>
  BY <1>5, LineAlone
<1> QED
  BY <1>4, <1>5, <1>6

\* The first line of a text only grows, until it is complete.
LEMMA LengthenedFirst ==
    ASSUME NEW ls \in Lines, NEW e \in Symbol
    PROVE  LET ms == Lengthened(ls, e)
           IN  /\ Len(ls) <= Len(ms) /\ Len(ls[1]) <= Len(ms[1])
               /\ \A i \in 1 .. Len(ls[1]) : ms[1][i] = ls[1][i]
               /\ Len(ls) >= 2 => ms[1] = ls[1]
<1> DEFINE ms == Lengthened(ls, e)
           S == Seq(Piece)
<1>1. ls \in Seq(S) /\ Len(ls) \in Nat /\ Len(ls) >= 1
  BY EmptySeq DEF Lines
<1>2. 1 \in 1 .. Len(ls) /\ ls[1] \in S
  BY <1>1
<1>3. CASE e = LineEnd
  <2>1. ms = Append(ls, <<>>) /\ <<>> \in S
    BY <1>3, LengthenedFacts
  <2> HIDE DEF ms, S
  <2>2. Len(ms) = Len(ls) + 1 /\ ms[1] = ls[1]
    BY <1>1, <1>2, <2>1, AppendProperties
  <2>3. Len(ls[1]) \in Nat
    BY <1>2 DEF S
  <2> QED
    BY <1>1, <2>2, <2>3 DEF ms
<1>4. CASE e # LineEnd
  <2>1. /\ Len(ms) = Len(ls) /\ ms[Len(ls)] = Append(ls[Len(ls)], e)
        /\ \A i \in 1 .. Len(ls) - 1 : ms[i] = ls[i]
    BY <1>4, LengthenedFacts
  <2>2. e \in Piece
    BY <1>4 DEF Symbol
  <2> HIDE DEF ms
  <2>3. CASE Len(ls) = 1
    <3>1. ms[1] = Append(ls[1], e)
      BY <2>1, <2>3
    <3> DEFINE l == ls[1]
    <3>2. l \in Seq(Piece)
      BY <1>2
    <3> HIDE DEF l
    <3>3. Len(l) <= Len(Append(l, e)) /\ \A i \in 1 .. Len(l) : Append(l, e)[i] = l[i]
      BY <2>2, <3>2
    <3>4. Len(ls) <= Len(ms) /\ ~(Len(ls) >= 2)
      BY <2>1, <2>3
    <3> QED
      BY <3>1, <3>3, <3>4 DEF l, ms
  <2>4. CASE Len(ls) # 1
    <3>1. ms[1] = ls[1]
      BY <1>1, <2>1, <2>4
    <3>2. Len(ls[1]) \in Nat
      BY <1>2
    <3> QED
      BY <1>1, <2>1, <3>1, <3>2 DEF ms
  <2> QED
    BY <2>3, <2>4
<1> QED
  BY <1>3, <1>4

\* The same for any more text.
LEMMA FirstGrows ==
    ASSUME NEW x \in Seq(Symbol)
    PROVE  \A b \in Seq(Symbol) :
               /\ Len(LinesOf(x)[1]) <= Len(LinesOf(x \o b)[1])
               /\ \A i \in 1 .. Len(LinesOf(x)[1]) : LinesOf(x \o b)[1][i] = LinesOf(x)[1][i]
               /\ Len(LinesOf(x)) >= 2 =>
                     Len(LinesOf(x \o b)) >= 2 /\ LinesOf(x \o b)[1] = LinesOf(x)[1]
<1> DEFINE Grown(l, m) == Len(l) <= Len(m) /\ \A i \in 1 .. Len(l) : m[i] = l[i]
           L == LinesOf(x)
           G == {b \in Seq(Symbol) :
                    LET M == LinesOf(x \o b)
                    IN  /\ Grown(L[1], M[1])
                        /\ Len(L) >= 2 => Len(M) >= 2 /\ M[1] = L[1]}
<1>0. ASSUME NEW ls \in Lines
      PROVE  /\ ls \in Seq(Seq(Piece)) /\ Len(ls) \in Nat /\ ls[1] \in Seq(Piece)
             /\ Len(ls[1]) \in Nat
  <2>1. ls \in Seq(Seq(Piece)) /\ Len(ls) \in Nat /\ 1 \in 1 .. Len(ls)
    BY EmptySeq DEF Lines
  <2> QED
    BY <2>1, LenProperties
<1>1. <<>> \in G
  <2>1. x \o <<>> = x /\ <<>> \in Seq(Symbol)
    OBVIOUS
  <2>2. L \in Lines
    BY LinesType
  <2> HIDE DEF L
  <2>3. Grown(L[1], L[1])
    BY <1>0, <2>2
  <2> QED
    BY <2>1, <2>3 DEF L
<1>2. ASSUME NEW b \in Seq(Symbol), NEW e \in Symbol, b \in G PROVE Append(b, e) \in G
  <2> DEFINE y == x \o b
             M == LinesOf(y)
             N == LinesOf(x \o Append(b, e))
  <2>1. y \in Seq(Symbol) /\ x \o Append(b, e) = Append(y, e) /\ Append(b, e) \in Seq(Symbol)
    OBVIOUS
  <2>2. M \in Lines /\ L \in Lines /\ N = Lengthened(M, e)
    <3> HIDE DEF y
    <3> QED
      BY <2>1, LinesAppend, LinesType
  <2>3. Grown(L[1], M[1]) /\ (Len(L) >= 2 => Len(M) >= 2 /\ M[1] = L[1])
    BY <1>2
  <2> HIDE DEF y, M, N, L
  <2>4. Grown(M[1], N[1]) /\ Len(M) <= Len(N) /\ (Len(M) >= 2 => N[1] = M[1])
    BY <2>2, LengthenedFirst
  <2>5. N \in Lines
    BY <2>2, LengthenedFacts
  <2>6. Grown(L[1], N[1])
    <3> DEFINE l == L[1]
               m == M[1]
               n == N[1]
    <3>1. Len(l) \in Nat /\ Len(m) \in Nat /\ Len(n) \in Nat
      BY <1>0, <2>2, <2>5
    <3>2. Grown(l, m) /\ Grown(m, n)
      BY <2>3, <2>4
    <3> HIDE DEF l, m, n
    <3>3. Grown(l, n)
      BY <3>1, <3>2
    <3> QED
      BY <3>3 DEF l, n
  <2>7. Len(L) >= 2 => Len(N) >= 2 /\ N[1] = L[1]
    BY <1>0, <2>2, <2>3, <2>4, <2>5
  <2> QED
    BY <2>1, <2>6, <2>7 DEF N
<1>3. Seq(Symbol) \subseteq G
  <2> HIDE DEF G
  <2> QED
    BY <1>1, <1>2, SeqInductive
<1> QED
  BY <1>3

\* The first line of a text begins with the first piece of the text, if it is one.
LEMMA FirstBegins ==
    ASSUME NEW t \in Seq(Symbol), t # <<>>
    PROVE  /\ t[1] = LineEnd => LinesOf(t)[1] = <<>>
           /\ t[1] # LineEnd => LinesOf(t)[1] # <<>> /\ LinesOf(t)[1][1] = t[1]
<1> DEFINE p == t[1]
           x == << p >>
           b == Tail(t)
<1>1. p \in Symbol /\ x \in Seq(Symbol) /\ b \in Seq(Symbol) /\ t = x \o b
  <2>1. Len(t) \in Nat /\ Len(t) >= 1
    BY EmptySeq
  <2>2. p \in Symbol /\ b \in Seq(Symbol) /\ x \in Seq(Symbol)
    BY <2>1
  <2>3. t = x \o b
    BY <2>1, <2>2
  <2> QED
    BY <2>2, <2>3
<1>2. LinesOf(x) = Lengthened(<< <<>> >>, p)
  <2>1. x = Append(<<>>, p) /\ <<>> \in Seq(Symbol)
    OBVIOUS
  <2> HIDE DEF x, p
  <2> QED
    BY <1>1, <2>1, LinesAppend, LinesEmpty
<1> HIDE DEF b
<1>3. /\ Len(LinesOf(x)[1]) <= Len(LinesOf(t)[1])
      /\ \A i \in 1 .. Len(LinesOf(x)[1]) : LinesOf(t)[1][i] = LinesOf(x)[1][i]
      /\ Len(LinesOf(x)) >= 2 => LinesOf(t)[1] = LinesOf(x)[1]
  <2> HIDE DEF x
  <2> QED
    BY <1>1, FirstGrows
<1>4. CASE p = LineEnd
  <2>1. LinesOf(x) = << <<>>, <<>> >>
    BY <1>2, <1>4 DEF Lengthened
  <2>2. Len(LinesOf(x)) = 2 /\ LinesOf(x)[1] = <<>>
    BY <2>1
  <2>3. Len(LinesOf(x)) >= 2
    BY <2>2
  <2>4. LinesOf(t)[1] = <<>>
    BY <1>3, <2>2, <2>3
  <2> QED
    BY <1>4, <2>4
<1>5. CASE p # LineEnd
  <2>1. LinesOf(x) = << << p >> >>
    BY <1>2, <1>5 DEF Lengthened
  <2>2. Len(LinesOf(x)[1]) = 1 /\ LinesOf(x)[1][1] = p
    BY <2>1
  <2>3. LinesOf(t)[1] \in Seq(Piece)
    <3>1. LinesOf(t) \in Seq(Seq(Piece)) /\ LinesOf(t) # <<>>
      BY LinesType DEF Lines
    <3> QED
      BY <3>1, EmptySeq
  <2>4. Len(LinesOf(t)[1]) >= 1 /\ LinesOf(t)[1][1] = p
    BY <1>3, <2>2, <2>3
  <2> QED
    BY <1>5, <2>3, <2>4, EmptySeq
<1> QED
  BY <1>4, <1>5

\* Where the lines of a text end in those of q, its last line is that of q.
LEMMA SplitLines ==
    ASSUME NEW a \in Seq(Symbol), NEW q \in Seq(Symbol), NEW D \in Seq(Seq(Piece)),
           LinesOf(a) = D \o LinesOf(q)
    PROVE  Complete(a) = D \o Complete(q) /\ Partial(a) = Partial(q)
<1> DEFINE S == Seq(Piece)
           C == Complete(q)
           l == Partial(q)
<1>1. LinesOf(q) = Append(C, l) /\ C \in Seq(S) /\ l \in S /\ D \in Seq(S)
  BY CompletePartial
<1> HIDE DEF S, C, l
<1>2. LinesOf(a) = Append(D \o C, l)
  <2>1. D \o Append(C, l) = Append(D \o C, l)
    BY <1>1
  <2> QED
    BY <1>1, <2>1
<1> DEFINE x == D \o C
<1>3. x \in Seq(S)
  BY <1>1
<1> HIDE DEF x
<1>4. Front(Append(x, l)) = x /\ Last(Append(x, l)) = l
  BY <1>1, <1>3, FrontLast
<1>5. Front(LinesOf(a)) = x /\ Last(LinesOf(a)) = l
  BY <1>2, <1>4 DEF x
<1> QED
  BY <1>5 DEF Complete, Partial, C, l, x

-----------------------------------------------------------------------------
(* The events of lines *)

\* What records stand for.
Event == {EventOf[l] : l \in Record}

\* The events of one more line.
LEMMA EventsFacts ==
    ASSUME NEW S, NEW ls \in Seq(S)
    PROVE  /\ EventsOf(ls) \in Seq(Event)
           /\ \A l \in S : EventsOf(Append(ls, l)) = IF l \in Record
                                                     THEN Append(EventsOf(ls), EventOf[l])
                                                     ELSE EventsOf(ls)
<1> DEFINE w == Within(ls, Record)
<1>1. w \in Seq(S) /\ \E f : Positions(ls, Record, f)
  BY WithinPositions
<1>2. \A i \in 1 .. Len(w) : w[i] \in Record
  BY <1>1 DEF Positions
<1>3. EventsOf(ls) = [k \in DOMAIN w |-> EventOf[w[k]]]
  BY DEF EventsOf
<1>4. ASSUME NEW l \in S
      PROVE  EventsOf(Append(ls, l)) = [k \in DOMAIN (IF l \in Record THEN Append(w, l) ELSE w) |->
                 EventOf[(IF l \in Record THEN Append(w, l) ELSE w)[k]]]
  <2>1. Within(Append(ls, l), Record) = IF l \in Record THEN Append(w, l) ELSE w
    BY WithinAppend
  <2> HIDE DEF w
  <2> QED
    BY <2>1 DEF EventsOf
<1> HIDE DEF w
<1>5. DOMAIN w = 1 .. Len(w) /\ Len(w) \in Nat
  BY <1>1
<1>6. \A i \in 1 .. Len(w) : EventOf[w[i]] \in Event
  BY <1>2 DEF Event
<1>7. EventsOf(ls) \in Seq(Event) /\ Len(EventsOf(ls)) = Len(w)
  BY <1>3, <1>5, <1>6
<1>8. ASSUME NEW l \in S
      PROVE  EventsOf(Append(ls, l)) = IF l \in Record THEN Append(EventsOf(ls), EventOf[l])
                                       ELSE EventsOf(ls)
  <2>1. CASE l \notin Record
    BY <1>3, <1>4, <2>1
  <2>2. CASE l \in Record
    <3> DEFINE v == Append(w, l)
               e == EventsOf(ls)
    <3>1. /\ DOMAIN v = 1 .. Len(w) + 1 /\ v[Len(w) + 1] = l
          /\ \A i \in 1 .. Len(w) : v[i] = w[i]
      BY <1>1
    <3>2. EventsOf(Append(ls, l)) = [k \in DOMAIN v |-> EventOf[v[k]]]
      BY <1>4, <2>2
    <3>3. /\ Append(e, EventOf[l]) \in Seq(Event)
               /\ DOMAIN Append(e, EventOf[l]) = 1 .. Len(w) + 1
          /\ Append(e, EventOf[l])[Len(w) + 1] = EventOf[l]
          /\ \A i \in 1 .. Len(w) : Append(e, EventOf[l])[i] = EventOf[w[i]]
      <4>1. EventOf[l] \in Event
        BY <2>2 DEF Event
      <4>2. \A i \in 1 .. Len(w) : e[i] = EventOf[w[i]]
        BY <1>3, <1>5
      <4> HIDE DEF e
      <4>3. e \in Seq(Event) /\ Len(e) = Len(w)
        BY <1>7 DEF e
      <4> DEFINE f == EventOf[l]
      <4> HIDE DEF f
      <4>4. /\ Append(e, f) \in Seq(Event) /\ Len(Append(e, f)) = Len(w) + 1
            /\ Append(e, f)[Len(w) + 1] = f /\ \A i \in 1 .. Len(w) : Append(e, f)[i] = e[i]
        BY <4>1, <4>3, AppendProperties DEF f
      <4> QED
        BY <4>2, <4>4 DEF f
    <3>4. [k \in DOMAIN v |-> EventOf[v[k]]] = Append(e, EventOf[l])
      <4> DEFINE g == [k \in DOMAIN v |-> EventOf[v[k]]]
                 h == Append(e, EventOf[l])
      <4>1. DOMAIN g = 1 .. Len(w) + 1 /\ \A k \in 1 .. Len(w) + 1 : g[k] = EventOf[v[k]]
        BY <3>1
      <4> HIDE DEF g, h, v
      <4>2. ASSUME NEW k \in 1 .. Len(w) + 1 PROVE g[k] = h[k]
        <5>1. CASE k = Len(w) + 1
          BY <3>1, <3>3, <4>1, <5>1 DEF h
        <5>2. CASE k \in 1 .. Len(w)
          BY <3>1, <3>3, <4>1, <5>2 DEF h
        <5> QED
          BY <1>5, <5>1, <5>2
      <4>3. g \in Seq(Event) /\ h \in Seq(Event) /\ Len(g) = Len(h)
        <5>1. g = [k \in 1 .. Len(w) + 1 |-> h[k]]
          BY <3>1, <4>2 DEF g
        <5>2. \A k \in 1 .. Len(w) + 1 : h[k] \in Event
          BY <3>3 DEF h
        <5>3. g \in Seq(Event) /\ Len(g) = Len(w) + 1
          BY <1>5, <5>1, <5>2
        <5>4. h \in Seq(Event) /\ Len(h) = Len(w) + 1
          BY <1>5, <3>3 DEF h
        <5> QED
          BY <5>3, <5>4
      <4>4. g = h
        BY <4>1, <4>2, <4>3, SeqEqual
      <4> QED
        BY <4>4 DEF g, h
    <3> QED
      BY <2>2, <3>2, <3>4
  <2> QED
    BY <2>1, <2>2
<1> QED
  BY <1>7, <1>8

\* No lines have no events.
LEMMA EventsEmpty == EventsOf(<<>>) = <<>>
<1> DEFINE w == Within(<<>>, Record)
<1>1. w = <<>>
  BY WithinEmpty
<1>2. EventsOf(<<>>) = [k \in DOMAIN w |-> EventOf[w[k]]]
  BY DEF EventsOf
<1>3. DOMAIN w = {}
  BY <1>1
<1>4. [k \in DOMAIN w |-> EventOf[w[k]]] = <<>>
  BY <1>3
<1> QED
  BY <1>2, <1>4

\* The same as ConcatAppend, for events.
LEMMA EventsAppended ==
    ASSUME NEW A \in Seq(Event), NEW B \in Seq(Event), NEW e \in Event
    PROVE  A \o Append(B, e) = Append(A \o B, e)
  BY ConcatAppend

\* The events of more lines come after those of the first ones.
LEMMA EventsConcat ==
    ASSUME NEW S, NEW a \in Seq(S)
    PROVE  \A b \in Seq(S) : EventsOf(a \o b) = EventsOf(a) \o EventsOf(b)
<1> DEFINE G == {b \in Seq(S) : EventsOf(a \o b) = EventsOf(a) \o EventsOf(b)}
<1>1. <<>> \in G
  <2>1. a \o <<>> = a /\ <<>> \in Seq(S)
    OBVIOUS
  <2>2. EventsOf(a) \in Seq(Event)
    BY EventsFacts
  <2>3. EventsOf(a) \o <<>> = EventsOf(a)
    BY <2>2
  <2> QED
    BY <2>1, <2>3, EventsEmpty
<1>2. ASSUME NEW b \in Seq(S), NEW l \in S, b \in G PROVE Append(b, l) \in G
  <2> DEFINE x == a \o b
             A == EventsOf(a)
             B == EventsOf(b)
  <2>1. x \in Seq(S) /\ a \o Append(b, l) = Append(x, l) /\ Append(b, l) \in Seq(S)
    OBVIOUS
  <2>2. EventsOf(x) = A \o B
    BY <1>2
  <2>3. A \in Seq(Event) /\ B \in Seq(Event)
    BY EventsFacts
  <2>4. EventsOf(Append(b, l)) = IF l \in Record THEN Append(B, EventOf[l]) ELSE B
    BY EventsFacts
  <2> HIDE DEF x
  <2>5. EventsOf(Append(x, l)) =
            IF l \in Record THEN Append(EventsOf(x), EventOf[l]) ELSE EventsOf(x)
    BY <2>1, EventsFacts
  <2> HIDE DEF A, B, G
  <2>6. ASSUME NEW e \in Event PROVE A \o Append(B, e) = Append(A \o B, e)
    BY <2>3, EventsAppended
  <2>a. l \in Record => EventOf[l] \in Event
    BY DEF Event
  <2>7. EventsOf(Append(x, l)) = A \o EventsOf(Append(b, l))
    BY <2>2, <2>4, <2>5, <2>6, <2>a
  <2> QED
    BY <2>1, <2>7 DEF A, G
<1>3. Seq(S) \subseteq G
  <2> HIDE DEF G
  <2> QED
    BY <1>1, <1>2, SeqInductive
<1> QED
  BY <1>3

\* No event is the end that the reader makes up.
LEMMA EventsAreNotDone == Done \notin Event /\ Failure # Done
  BY DoneAssumption DEF Event, Record

\* What is yielded of the events up to a final one.
LEMMA FinalFacts ==
    ASSUME NEW es \in Seq(Event)
    PROVE  /\ ~HasFinal(es) => UpToFinal(es) = es
           /\ UpToFinal(es) \in Seq(Event)
           /\ HasFinal(es) => /\ UpToFinal(es) # <<>> /\ Last(UpToFinal(es)) \in Event
                             /\ HasFinal(UpToFinal(es))
<1> DEFINE I == {n \in 1 .. Len(es) : es[n] \in Final}
           k == SelectInSeq(es, LAMBDA e : e \in Final)
<1>1. k = IF I # {} THEN Min(I) ELSE 0
  BY DEF SelectInSeq
<1>2. UpToFinal(es) = IF k = 0 THEN es ELSE SubSeq(es, 1, k)
  BY DEF UpToFinal
<1>3. I # {} => Min(I) \in I
  <2>1. I \subseteq Nat
    OBVIOUS
  <2> HIDE DEF I
  <2> QED
    BY <2>1, MinFacts
<1>4. HasFinal(es) <=> I # {}
  BY DEF HasFinal
<1> HIDE DEF k
<1>5. k # 0 => k \in 1 .. Len(es)
  BY <1>1, <1>3
<1>6. CASE I = {}
  BY <1>1, <1>2, <1>4, <1>6
<1>7. CASE I # {}
  <2>1. k \in 1 .. Len(es)
    BY <1>1, <1>3, <1>7
  <2> DEFINE u == SubSeq(es, 1, k)
  <2>2. u \in Seq(Event) /\ Len(u) = k /\ u[k] = es[k] /\ es[k] \in Event
    BY <2>1
  <2> HIDE DEF u
  <2>3. u # <<>> /\ Last(u) = es[k]
    BY <2>1, <2>2, EmptySeq DEF Last
  <2>4. UpToFinal(es) = u
    BY <1>2, <2>1 DEF u
  <2>5. HasFinal(u)
    <3>1. k \in DOMAIN u /\ es[k] \in Final
      BY <1>1, <1>3, <1>7, <2>1, <2>2
    <3> QED
      BY <2>2, <3>1 DEF HasFinal
  <2> QED
    BY <1>4, <1>7, <2>2, <2>3, <2>4, <2>5
<1> QED
  BY <1>6, <1>7

\* Without a final event in either, there is none in both.
LEMMA NeitherFinal ==
    ASSUME NEW S, NEW a \in Seq(S), NEW b \in Seq(S), ~HasFinal(a), ~HasFinal(b)
    PROVE  ~HasFinal(a \o b)
<1> DEFINE z == a \o b
<1>1. Len(b) \in Nat /\ Len(a) \in Nat /\ DOMAIN a = 1 .. Len(a) /\ DOMAIN b = 1 .. Len(b)
  BY LenProperties
<1>2. /\ z \in Seq(S) /\ Len(z) = Len(a) + Len(b)
      /\ \A i \in 1 .. Len(a) + Len(b) : z[i] = IF i <= Len(a) THEN a[i] ELSE b[i - Len(a)]
  BY ConcatProperties
<1> HIDE DEF z
<1>3. ASSUME NEW i \in 1 .. Len(a) + Len(b) PROVE z[i] \notin Final
  <2>1. CASE i <= Len(a)
    <3>1. i \in 1 .. Len(a)
      BY <1>1, <2>1
    <3> QED
      BY <1>1, <1>2, <2>1, <3>1 DEF HasFinal
  <2>2. CASE ~(i <= Len(a))
    <3>1. i - Len(a) \in 1 .. Len(b)
      BY <1>1, <2>2
    <3> QED
      BY <1>1, <1>2, <2>2, <3>1 DEF HasFinal
  <2> QED
    BY <2>1, <2>2
<1>4. DOMAIN z = 1 .. Len(a) + Len(b)
  BY <1>2, LenProperties
<1> QED
  BY <1>3, <1>4 DEF HasFinal, z

-----------------------------------------------------------------------------
(* The reader *)

\* D are the lines before the buffer, or before an oversized line.
ReadSoFar(D) ==
    \/ discarding /\ buffer = <<>> /\ Oversized(Partial(text)) /\ D = Complete(text)
    \/ ~discarding /\ LinesOf(text) = D \o LinesOf(buffer)

\* Lines that a reader that knows no mode has skipped.
Skipped(D) == EventsOf(D) = <<>> /\ (D # <<>> => Oversized(D[1]))

\* What an open reader has yielded: the events of the lines that it has read.
Yielded(D, rest) ==
    /\ mode = "unknown" => out = <<>> /\ Skipped(D) /\ (D = <<>> => rest)
    /\ mode = "ndjson" /\ ~capped => out = EventsOf(D) /\ ~HasFinal(out)

\* The lines read so far, and those of the buffer, are those of the text.
ReadInv ==
    open /\ mode # "text" =>
        \E D \in Seq(Seq(Piece)) :
            ReadSoFar(D) /\ Yielded(D, discarding \/ text = buffer)

\* s is a part of all and an end that the reader makes up.
Stops == {<<>>, <<Failure>>}
Ends == Stops \union {<<Done>>}
Begins(s, all, S, E) == \E z, w \in Seq(S), e \in E : s = z \o e /\ all = z \o w

\* What a reader keeps for later is a part of one line, and fits.
BufferInv ==
    /\ buffer \in Seq(Symbol) /\ (discarding => buffer = <<>>)
    /\ open /\ mode = "ndjson" => buffer \in Seq(Piece) /\ Len(buffer) <= MaxBytes
    /\ open /\ mode = "unknown" /\ FirstPiece(buffer) # 0 =>
          buffer \in Seq(Piece) /\ Len(buffer) <= MaxBytes
    /\ open /\ mode = "text" => buffer = <<>> /\ ~discarding

\* A text whose first line is complete does not begin with a record, and one whose first
\* line is not complete does not begin with a brace.
TextInv ==
    mode = "text" =>
        /\ Complete(text) # <<>> => LinesOf(text)[1] \notin Record
        /\ open => Complete(text) # <<>> \/ (text # <<>> /\ text[1] \notin Opening)
        /\ open /\ ~Oversized(LinesOf(text)[1]) => out = text
        /\ ~open /\ ~Oversized(LinesOf(text)[1]) => Begins(out, text, Symbol, Ends)

\* A reader that has stopped has yielded the first of the events, and an answer that it has
\* ended itself has no final event.
ClosedInv ==
    ~open /\ mode = "ndjson" /\ ~capped =>
        /\ Begins(out, EventsOf(LinesOf(text)), Event, Ends)
        /\ out # <<>> /\ Last(out) = Done =>
              Front(out) = EventsOf(LinesOf(text)) /\ ~HasFinal(Front(out))

\* The inductive invariant.
StreamInv == EventStreamTypeOK /\ BufferInv /\ ReadInv /\ TextInv /\ ClosedInv

\* A sequence and any number of its first elements.
LEMMA SplitSeq ==
    ASSUME NEW S, NEW es \in Seq(S), NEW n \in 0 .. Len(es)
    PROVE  /\ SubSeq(es, 1, n) \in Seq(S)
           /\ \E w \in Seq(S) : es = SubSeq(es, 1, n) \o w
<1> DEFINE a == SubSeq(es, 1, n)
           w == SubSeq(es, n + 1, Len(es))
           z == a \o w
<1>1. Len(es) \in Nat /\ n \in Nat /\ n <= Len(es)
  BY LenProperties
<1>2. a \in Seq(S) /\ Len(a) = n /\ \A i \in 1 .. n : a[i] = es[i]
  BY <1>1
<1>3. w \in Seq(S) /\ Len(w) = Len(es) - n /\ \A i \in 1 .. Len(es) - n : w[i] = es[n + i]
  BY <1>1
<1> HIDE DEF a, w
<1>4. /\ z \in Seq(S) /\ Len(z) = Len(es)
      /\ \A i \in 1 .. Len(es) : z[i] = IF i <= n THEN a[i] ELSE w[i - n]
  <2>1. /\ z \in Seq(S) /\ Len(z) = Len(a) + Len(w)
        /\ \A i \in 1 .. Len(a) + Len(w) : z[i] = IF i <= Len(a) THEN a[i] ELSE w[i - Len(a)]
    BY <1>2, <1>3, ConcatProperties
  <2> QED
    BY <1>1, <1>2, <1>3, <2>1
<1> HIDE DEF z
<1>5. ASSUME NEW i \in 1 .. Len(es) PROVE z[i] = es[i]
  <2>1. CASE i <= n
    <3>1. i \in 1 .. n
      BY <1>1, <2>1
    <3> QED
      BY <1>2, <1>4, <2>1, <3>1
  <2>2. CASE ~(i <= n)
    <3>1. i - n \in 1 .. Len(es) - n /\ n + (i - n) = i
      BY <1>1, <2>2
    <3> QED
      BY <1>3, <1>4, <2>2, <3>1
  <2> QED
    BY <2>1, <2>2
<1>6. z = es
  BY <1>4, <1>5, SeqEqual
<1> QED
  BY <1>2, <1>3, <1>6 DEF z, a

\* What is yielded of the events is the first of them.
LEMMA UpToFinalBegins ==
    ASSUME NEW es \in Seq(Event)
    PROVE  \E v \in Seq(Event) : es = UpToFinal(es) \o v
<1> DEFINE I == {n \in 1 .. Len(es) : es[n] \in Final}
           k == SelectInSeq(es, LAMBDA e : e \in Final)
<1>1. k = IF I # {} THEN Min(I) ELSE 0
  BY DEF SelectInSeq
<1>2. UpToFinal(es) = IF k = 0 THEN es ELSE SubSeq(es, 1, k)
  BY DEF UpToFinal
<1>3. I # {} => Min(I) \in I
  <2>1. I \subseteq Nat
    OBVIOUS
  <2> HIDE DEF I
  <2> QED
    BY <2>1, MinFacts
<1> HIDE DEF k
<1>4. CASE k = 0
  <2>1. <<>> \in Seq(Event) /\ es = es \o <<>>
    OBVIOUS
  <2> QED
    BY <1>2, <1>4, <2>1
<1>5. CASE k # 0
  <2>1. k \in 0 .. Len(es)
    BY <1>1, <1>3, <1>5
  <2> QED
    <3>1. \E w \in Seq(Event) : es = SubSeq(es, 1, k) \o w
      BY <2>1, SplitSeq
    <3>2. UpToFinal(es) = SubSeq(es, 1, k)
      BY <1>2, <1>5
    <3> QED
      BY <3>1, <3>2
<1> QED
  BY <1>4, <1>5

\* Concatenation is associative.
LEMMA ConcatThree ==
    ASSUME NEW S
    PROVE  \A a, b, c \in Seq(S) :
              /\ (a \o b) \o c = a \o (b \o c)
              /\ a \o b \in Seq(S) /\ b \o c \in Seq(S)
<1> SUFFICES ASSUME NEW a \in Seq(S), NEW b \in Seq(S), NEW c \in Seq(S)
             PROVE  /\ (a \o b) \o c = a \o (b \o c)
                    /\ a \o b \in Seq(S) /\ b \o c \in Seq(S)
  OBVIOUS
<1> QED
  BY SMTT(60)

\* A reader that stops in the middle of what it was given has yielded the first of all.
LEMMA StopsBegins ==
    ASSUME NEW S, out \in Seq(S), NEW given \in Seq(S), NEW w \in Seq(S), StopsIn(given)
    PROVE  Begins(out', (out \o given) \o w, S, Stops)
<1> DEFINE part(k) == SubSeq(given, 1, k - 1)
<1>1. PICK k \in DOMAIN given : \/ out' = out \o part(k)
                                \/ out' = Append(out \o part(k), Failure)
  BY DEF StopsIn
<1> DEFINE x == part(k)
<1>2. k - 1 \in 0 .. Len(given)
  BY LenProperties
<1>3. x \in Seq(S) /\ \E v \in Seq(S) : given = x \o v
  BY <1>2, SplitSeq
<1> HIDE DEF part, x
<1>4. PICK v \in Seq(S) : given = x \o v
  BY <1>3
<1> DEFINE z == out \o x
           r == v \o w
<1>5. z \in Seq(S) /\ r \in Seq(S)
  BY <1>3
<1>6. (out \o given) \o w = z \o r
  <2>a. x \in Seq(S) /\ v \in Seq(S)
    BY <1>3, <1>4
  <2>1. (out \o x) \o v = out \o (x \o v)
    BY <2>a, ConcatThree
  <2>b. z \in Seq(S)
    BY <1>5
  <2>2. (z \o v) \o w = z \o (v \o w)
    <3> HIDE DEF z
    <3> QED
      BY <2>a, <2>b, ConcatThree, SMTT(20)
  <2> QED
    BY <1>4, <2>1, <2>2
<1> HIDE DEF z, r
<1>7. \E e \in Stops : out' = z \o e
  <2>1. CASE out' = out \o x
    <3>1. z = z \o <<>>
      BY <1>5
    <3> QED
      BY <2>1, <3>1 DEF Stops, z
  <2>2. CASE out' = Append(out \o x, Failure)
    <3> DEFINE U == S \union {Failure}
    <3>1. z \in Seq(U) /\ Failure \in U
      BY <1>5
    <3> HIDE DEF U
    <3>2. Append(z, Failure) = z \o <<Failure>>
      BY <3>1
    <3> QED
      BY <2>2, <3>2 DEF Stops, z
  <2> QED
    BY <1>1, <2>1, <2>2 DEF x
<1> QED
  BY <1>5, <1>6, <1>7 DEF Begins

\* What is yielded with an end, or without one, is a part of all.
LEMMA EndBegins ==
    ASSUME NEW S, NEW z \in Seq(S), NEW w \in Seq(S)
    PROVE  /\ Begins(z, z \o w, S, Stops) /\ Begins(z, z \o w, S, Ends)
           /\ Begins(Append(z, Failure), z \o w, S, Stops)
           /\ Begins(Append(z, Done), z \o w, S, Ends)
<1>1. z = z \o <<>>
  OBVIOUS
<1>2. ASSUME NEW e PROVE Append(z, e) = z \o <<e>>
  <2> DEFINE U == S \union {e}
  <2>1. z \in Seq(U) /\ e \in U
    OBVIOUS
  <2> HIDE DEF U
  <2> QED
    BY <2>1
<1>3. <<>> \in Stops /\ <<>> \in Ends /\ <<Failure>> \in Stops /\ <<Done>> \in Ends
  BY DEF Stops, Ends
<1>4. Append(z, Failure) = z \o <<Failure>> /\ Append(z, Done) = z \o <<Done>>
  BY <1>2
<1> QED
  BY <1>1, <1>3, <1>4, Zenon DEF Begins

\* A part of a text is shown as a part of it.
LEMMA BeginsIsShown ==
    ASSUME NEW S, NEW all, Begins(out, all, S, Ends) PROVE IsPrefix(Shown, all)
<1>1. PICK z \in Seq(S), w \in Seq(S), e \in Ends : out = z \o e /\ all = z \o w
  BY DEF Begins
<1> DEFINE U == S \union {Done, Failure}
<1>2. z \in Seq(U) /\ w \in Seq(U) /\ Done \in U /\ Failure \in U
  BY <1>1
<1> HIDE DEF U
<1>3. ASSUME NEW s \in Seq(U), NEW v \in Seq(U) PROVE IsPrefix(s, s \o v)
  <2>1. Len(s) \in Nat /\ Len(v) \in Nat
    BY LenProperties
  <2> DEFINE t == s \o v
  <2>2. /\ t \in Seq(U) /\ Len(t) = Len(s) + Len(v)
        /\ \A i \in 1 .. Len(s) + Len(v) : t[i] = IF i <= Len(s) THEN s[i] ELSE v[i - Len(s)]
    BY ConcatProperties
  <2> HIDE DEF t
  <2>3. ASSUME NEW i \in 1 .. Len(s) PROVE t[i] = s[i]
    BY <2>1, <2>2
  <2>4. Len(s) <= Len(t)
    BY <2>1, <2>2
  <2>5. SubSeq(s, 1, Len(s)) = SubSeq(t, 1, Len(s))
    <3> DEFINE a == SubSeq(s, 1, Len(s))
               b == SubSeq(t, 1, Len(s))
    <3>1. a \in Seq(U) /\ Len(a) = Len(s) /\ \A i \in 1 .. Len(s) : a[i] = s[i]
      BY <2>1
    <3>2. b \in Seq(U) /\ Len(b) = Len(s) /\ \A i \in 1 .. Len(s) : b[i] = t[i]
      BY <2>1, <2>2, <2>4
    <3> HIDE DEF a, b
    <3>3. a = b
      BY <2>3, <3>1, <3>2, SeqEqual
    <3> QED
      BY <3>3 DEF a, b
  <2> QED
    BY <2>4, <2>5 DEF IsPrefix, t
<1>4. CASE Shown = z
  BY <1>1, <1>2, <1>3, <1>4
<1>5. CASE Shown = Front(z) /\ z # <<>>
  <2>1. Len(z) \in Nat \ {0}
    BY <1>2, <1>5, EmptySeq
  <2> DEFINE n == Len(z) - 1
             f == SubSeq(z, 1, n)
  <2>2. n \in 0 .. Len(z)
    BY <2>1
  <2>3. f \in Seq(U) /\ \E v \in Seq(U) : z = f \o v
    <3> HIDE DEF n
    <3> QED
      BY <1>2, <2>2, SplitSeq
  <2>4. PICK v \in Seq(U) : z = f \o v
    BY <2>3
  <2>5. Shown = f
    BY <1>5 DEF Front
  <2> HIDE DEF f
  <2>6. all = f \o (v \o w) /\ v \o w \in Seq(U)
    <3>1. f \in Seq(U) /\ v \in Seq(U)
      BY <2>3, <2>4
    <3>2. (f \o v) \o w = f \o (v \o w) /\ v \o w \in Seq(U)
      BY <1>2, <3>1, ConcatThree
    <3> QED
      BY <1>1, <2>4, <3>2
  <2> QED
    BY <1>3, <2>3, <2>5, <2>6
<1>6. Shown = z \/ (Shown = Front(z) /\ z # <<>>)
  <2>1. CASE e = <<>>
    <3>1. out = z
      BY <1>1, <1>2, <2>1
    <3> QED
      BY <3>1 DEF Shown
  <2>2. CASE e = <<Done>> \/ e = <<Failure>>
    <3>1. PICK d \in {Done, Failure} : e = <<d>>
      BY <2>2
    <3>2. d \in U
      BY <1>2
    <3>3. out = Append(z, d)
      BY <1>1, <1>2, <3>1, <3>2
    <3>4. Front(out) = z /\ Last(out) = d
      BY <1>2, <3>2, <3>3, FrontLast
    <3>5. out # <<>>
      BY <1>2, <3>2, <3>3
    <3> QED
      BY <3>4, <3>5 DEF Shown
  <2> QED
    BY <2>1, <2>2 DEF Ends, Stops
<1> QED
  BY <1>4, <1>5, <1>6

\* A reader that stops without an end of its own leaves what is asked of a stopped one.
LEMMA StoppedCloses ==
    ASSUME NEW s, NEW all, Begins(s, all, Event, Stops)
    PROVE  Begins(s, all, Event, Ends) /\ ~(s # <<>> /\ Last(s) = Done)
<1>1. PICK z \in Seq(Event), w \in Seq(Event), e \in Stops : s = z \o e /\ all = z \o w
  BY DEF Begins
<1>2. Begins(s, all, Event, Ends)
  <2>1. e \in Ends
    BY <1>1 DEF Ends
  <2> QED
    BY <1>1, <2>1 DEF Begins
<1>3. ASSUME s # <<>> PROVE Last(s) # Done
  <2>1. CASE e = <<>>
    <3>1. s = z
      BY <1>1, <2>1
    <3>2. Len(s) \in Nat \ {0}
      BY <1>3, <3>1, EmptySeq
    <3>3. Last(s) \in Event
      BY <3>1, <3>2 DEF Last
    <3> QED
      BY <3>3, EventsAreNotDone
  <2>2. CASE e = <<Failure>>
    <3> DEFINE A == Event \union {Failure}
    <3>1. z \in Seq(A) /\ Failure \in A
      BY <1>1
    <3> HIDE DEF A
    <3>2. s = Append(z, Failure)
      BY <1>1, <2>2, <3>1
    <3>3. Last(s) = Failure
      BY <3>1, <3>2, FrontLast
    <3> QED
      BY <3>3, EventsAreNotDone
  <2> QED
    BY <2>1, <2>2 DEF Stops
<1> QED
  BY <1>2, <1>3

\* The events of a text are those of its complete lines, and of what follows them.
LEMMA LinesBegin ==
    ASSUME NEW t \in Seq(Symbol)
    PROVE  /\ EventsOf(Complete(t)) \in Seq(Event)
           /\ \E v \in Seq(Event) : EventsOf(LinesOf(t)) = EventsOf(Complete(t)) \o v
<1> DEFINE S == Seq(Piece)
           C == Complete(t)
           l == Partial(t)
<1>1. LinesOf(t) = Append(C, l) /\ C \in Seq(S) /\ l \in S
  BY CompletePartial
<1> HIDE DEF S, C, l
<1>2. Append(C, l) = C \o << l >> /\ << l >> \in Seq(S)
  BY <1>1
<1>3. EventsOf(C \o << l >>) = EventsOf(C) \o EventsOf(<< l >>)
  BY <1>1, <1>2, EventsConcat
<1>4. EventsOf(<< l >>) \in Seq(Event) /\ EventsOf(C) \in Seq(Event)
  BY <1>1, <1>2, EventsFacts
<1> QED
  BY <1>1, <1>2, <1>3, <1>4 DEF C

\* The first piece of a text comes after its leading line ends.
LEMMA FirstPieceFacts ==
    ASSUME NEW t \in Seq(Symbol)
    PROVE  /\ FirstPiece(t) # 0 => FirstPiece(t) \in 1 .. Len(t) /\ t[FirstPiece(t)] # LineEnd
           /\ FirstPiece(t) # 0 /\ FirstPiece(t) # 1 => t[1] = LineEnd
           /\ t \in Seq(Piece) /\ t # <<>> => FirstPiece(t) = 1
           /\ t = <<>> => FirstPiece(t) = 0
<1> DEFINE I == {n \in 1 .. Len(t) : t[n] # LineEnd}
           k == FirstPiece(t)
<1>1. k = IF I # {} THEN Min(I) ELSE 0
  BY DEF FirstPiece, SelectInSeq
<1>2. I # {} => Min(I) \in I /\ \A n \in I : Min(I) <= n
  <2>1. I \subseteq Nat
    OBVIOUS
  <2> HIDE DEF I
  <2> QED
    BY <2>1, MinFacts
<1> HIDE DEF k
<1>3. k # 0 => k \in 1 .. Len(t) /\ t[k] # LineEnd
  BY <1>1, <1>2
<1>a. ASSUME k # 0, k # 1 PROVE t[1] = LineEnd
  <2>1. k \in 1 .. Len(t) /\ \A n \in I : k <= n
    BY <1>1, <1>2, <1>3, <1>a
  <2>2. 1 \in 1 .. Len(t) /\ ~(k <= 1)
    BY <1>a, <2>1
  <2>3. 1 \notin I
    BY <2>1, <2>2
  <2> QED
    BY <2>2, <2>3
<1>4. ASSUME t \in Seq(Piece), t # <<>> PROVE k = 1
  <2>1. Len(t) \in Nat /\ Len(t) >= 1
    BY <1>4, EmptySeq
  <2>2. t[1] \in Piece /\ t[1] # LineEnd
    BY <1>4, <2>1, PieceAssumption
  <2>3. 1 \in I
    BY <2>1, <2>2
  <2> QED
    BY <1>1, <1>2, <2>3
<1>5. ASSUME t = <<>> PROVE k = 0
  <2>1. I = {}
    BY <1>5
  <2> QED
    BY <1>1, <2>1
<1> QED
  BY <1>3, <1>a, <1>4, <1>5 DEF k

\* A chunk with the end of the oversized line that is discarded.
LEMMA IncomingFacts ==
    ASSUME NEW chunk \in Seq(Symbol), discarding, ~StillDiscarding(chunk)
    PROVE  \E x \in Seq(Piece) : /\ Incoming(chunk) \in Seq(Symbol)
                                 /\ chunk = Append(x, LineEnd) \o Incoming(chunk)
                                 /\ Len(Incoming(chunk)) <= Len(chunk)
<1> DEFINE I == {n \in 1 .. Len(chunk) : chunk[n] = LineEnd}
           k == SelectInSeq(chunk, LAMBDA p : p = LineEnd)
           x == SubSeq(chunk, 1, k - 1)
           y == Append(x, LineEnd)
           r == SubSeq(chunk, k + 1, Len(chunk))
<1>1. k = IF I # {} THEN Min(I) ELSE 0
  BY DEF SelectInSeq
<1>2. I # {} => Min(I) \in I /\ \A n \in I : Min(I) <= n
  <2>1. I \subseteq Nat
    OBVIOUS
  <2> HIDE DEF I
  <2> QED
    BY <2>1, MinFacts
<1>3. I # {}
  BY DEF StillDiscarding, ToSet
<1>4. Incoming(chunk) = IF k = 0 THEN <<>> ELSE r
  BY DEF Incoming
<1> HIDE DEF k
<1>5. /\ k \in 1 .. Len(chunk) /\ chunk[k] = LineEnd
      /\ \A n \in 1 .. k - 1 : chunk[n] # LineEnd
  <2>1. k \in I /\ \A n \in I : k <= n
    BY <1>1, <1>2, <1>3
  <2>2. k \in 1 .. Len(chunk) /\ chunk[k] = LineEnd
    BY <2>1
  <2>3. ASSUME NEW n \in 1 .. k - 1 PROVE chunk[n] # LineEnd
    <3>1. n \in 1 .. Len(chunk) /\ ~(k <= n)
      BY <2>2
    <3>2. n \notin I
      BY <2>1, <3>1
    <3> QED
      BY <3>1, <3>2
  <2> QED
    BY <2>2, <2>3
<1>6. x \in Seq(Symbol) /\ Len(x) = k - 1 /\ \A n \in 1 .. k - 1 : x[n] = chunk[n]
  BY <1>5
<1>7. /\ r \in Seq(Symbol) /\ Len(r) = Len(chunk) - k
      /\ \A n \in 1 .. Len(chunk) - k : r[n] = chunk[k + n]
  BY <1>5
<1>8. x \in Seq(Piece)
  <2> HIDE DEF x
  <2>1. \A n \in 1 .. Len(x) : x[n] \in Piece
    BY <1>5, <1>6 DEF Symbol
  <2> QED
    BY <1>6, <2>1
<1> HIDE DEF x, r
<1>9. y \in Seq(Symbol) /\ Len(y) = k /\ \A n \in 1 .. k : y[n] = chunk[n]
  <2>1. LineEnd \in Symbol
    BY DEF Symbol
  <2> QED
    BY <1>5, <1>6, <2>1
<1> HIDE DEF y
<1> DEFINE z == y \o r
<1>10. /\ z \in Seq(Symbol) /\ Len(z) = Len(chunk)
       /\ \A n \in 1 .. Len(chunk) : z[n] = IF n <= k THEN y[n] ELSE r[n - k]
  <2>1. /\ z \in Seq(Symbol) /\ Len(z) = Len(y) + Len(r)
        /\ \A n \in 1 .. Len(y) + Len(r) : z[n] = IF n <= Len(y) THEN y[n] ELSE r[n - Len(y)]
    BY <1>7, <1>9, ConcatProperties
  <2> QED
    BY <1>5, <1>7, <1>9, <2>1
<1> HIDE DEF z
<1>11. \A n \in 1 .. Len(chunk) : z[n] = chunk[n]
  <2> SUFFICES ASSUME NEW n \in 1 .. Len(chunk) PROVE z[n] = chunk[n]
    OBVIOUS
  <2>1. CASE n <= k
    <3>1. n \in 1 .. k
      BY <1>5, <2>1
    <3> QED
      BY <1>9, <1>10, <2>1, <3>1
  <2>2. CASE ~(n <= k)
    <3>1. n - k \in 1 .. Len(chunk) - k /\ k + (n - k) = n
      BY <1>5, <2>2
    <3> QED
      BY <1>7, <1>10, <2>2, <3>1
  <2> QED
    BY <2>1, <2>2
<1>12. z = chunk
  BY <1>10, <1>11, SeqEqual
<1>13. Incoming(chunk) = r /\ Len(r) <= Len(chunk)
  BY <1>4, <1>5, <1>7
<1> QED
  BY <1>7, <1>8, <1>12, <1>13 DEF z, y


\* No partial line is longer than its text.
LEMMA PartialLength == \A t \in Seq(Symbol) : Len(Partial(t)) <= Len(t)
<1> DEFINE G == {t \in Seq(Symbol) : Len(Partial(t)) <= Len(t)}
<1>1. <<>> \in G
  <2>1. LinesOf(<<>>) = << <<>> >>
    BY LinesEmpty
  <2>2. Partial(<<>>) = <<>>
    BY <2>1 DEF Partial, Last
  <2> QED
    BY <2>2
<1>2. ASSUME NEW t \in Seq(Symbol), NEW e \in Symbol, t \in G PROVE Append(t, e) \in G
  <2> DEFINE u == Append(t, e)
             ls == LinesOf(t)
             ms == LinesOf(u)
             S == Seq(Piece)
  <2>1. /\ u \in Seq(Symbol) /\ ls \in Lines /\ ms \in Lines /\ ms = Lengthened(ls, e)
        /\ Len(u) = Len(t) + 1 /\ Len(t) \in Nat
    <3>1. u \in Seq(Symbol) /\ Len(u) = Len(t) + 1 /\ Len(t) \in Nat
      BY AppendProperties, LenProperties
    <3> QED
      BY <3>1, LinesAppend, LengthenedFacts
  <2>2. ls \in Seq(S) /\ Len(ls) \in Nat /\ Len(ls) \in 1 .. Len(ls)
    BY <2>1, EmptySeq DEF Lines
  <2>3. Partial(t) = ls[Len(ls)] /\ Partial(u) = ms[Len(ms)]
    BY DEF Partial, Last
  <2>4. Len(Partial(t)) <= Len(t)
    BY <1>2
  <2> HIDE DEF u, ls, ms
  <2>5. CASE e = LineEnd
    <3>1. ms = Append(ls, <<>>)
      BY <2>1, <2>5, LengthenedFacts
    <3> DEFINE w == <<>>
    <3>2. w \in S /\ Len(w) = 0
      OBVIOUS
    <3> HIDE DEF w, S
    <3>3. Append(ls, w)[Len(Append(ls, w))] = w
      BY <2>2, <3>2, AppendProperties
    <3>4. Partial(u) = w
      BY <2>3, <3>1, <3>3 DEF w
    <3> QED
      BY <2>1, <3>2, <3>4 DEF u
  <2>6. CASE e # LineEnd
    <3>1. Len(ms) = Len(ls) /\ ms[Len(ls)] = Append(ls[Len(ls)], e)
      BY <2>1, <2>6, LengthenedFacts
    <3> DEFINE l == ls[Len(ls)]
    <3>2. l \in Seq(Piece) /\ e \in Piece
      BY <2>2, <2>6 DEF Symbol
    <3> HIDE DEF l
    <3>3. Len(Append(l, e)) = Len(l) + 1 /\ Len(l) \in Nat
      BY <3>2, AppendProperties, LenProperties
    <3>4. Len(Partial(u)) = Len(l) + 1 /\ Len(l) <= Len(t)
      BY <2>3, <2>4, <3>1, <3>3 DEF l
    <3> QED
      BY <2>1, <3>3, <3>4 DEF u
  <2> QED
    BY <2>5, <2>6
<1>3. Seq(Symbol) \subseteq G
  <2> HIDE DEF G
  <2> QED
    BY <1>1, <1>2, SeqInductive
<1> QED
  BY <1>3

\* A line of pieces that an end of line completes.
LEMMA LineEnded ==
    ASSUME NEW w \in Seq(Piece)
    PROVE  /\ Append(w, LineEnd) \in Seq(Symbol)
           /\ LinesOf(Append(w, LineEnd)) = << w, <<>> >>
           /\ Complete(Append(w, LineEnd)) = << w >>
<1>1. w \in Seq(Symbol) /\ LineEnd \in Symbol
  BY DEF Symbol
<1>2. LinesOf(w) = << w >>
  BY LineAlone
<1>3. LinesOf(Append(w, LineEnd)) = Lengthened(<< w >>, LineEnd)
  BY <1>1, <1>2, LinesAppend
<1>4. Lengthened(<< w >>, LineEnd) = Append(<< w >>, <<>>)
  BY DEF Lengthened
<1>5. << w >> \in Seq(Seq(Piece)) /\ <<>> \in Seq(Piece)
  OBVIOUS
<1>6. Front(Append(<< w >>, <<>>)) = << w >>
  BY <1>5, FrontLast
<1>7. Append(<< w >>, <<>>) = << w, <<>> >>
  <2> DEFINE z == <<>>
             S == Seq(Piece)
  <2>1. w \in S /\ z \in S
    OBVIOUS
  <2> HIDE DEF z, S
  <2>2. Append(<< w >>, z) = << w, z >>
    BY <2>1, PairAppend
  <2> QED
    BY <2>2 DEF z
<1>8. Append(w, LineEnd) \in Seq(Symbol)
  BY <1>1, AppendProperties
<1>9. Complete(Append(w, LineEnd)) = Front(Append(<< w >>, <<>>))
  BY <1>3, <1>4 DEF Complete
<1>10. LinesOf(Append(w, LineEnd)) = << w, <<>> >>
  BY <1>3, <1>4, <1>7
<1> QED
  BY <1>6, <1>8, <1>9, <1>10

\* A text that does not begin with a brace does not begin with a record.
LEMMA NoRecordFirst ==
    ASSUME NEW t \in Seq(Symbol), t # <<>>, t[1] \notin Opening
    PROVE  LinesOf(t)[1] \notin Record
<1>1. CASE t[1] = LineEnd
  <2>1. LinesOf(t)[1] = <<>>
    BY <1>1, FirstBegins
  <2> QED
    BY <2>1, RecordAssumption DEF Record
<1>2. CASE t[1] # LineEnd
  <2>1. LinesOf(t)[1][1] = t[1]
    BY <1>2, FirstBegins
  <2> QED
    BY <2>1, RecordAssumption DEF Record
<1> QED
  BY <1>1, <1>2

\* An oversized line is no record.
LEMMA OversizedIsNoRecord == \A l : Oversized(l) /\ Len(l) \in Nat => l \notin Record
  BY EventLimitAssumption DEF Oversized, Record

\* Where no line is left, the lines read so far are the complete ones.
LEMMA OneMoreLine ==
    ASSUME NEW D \in Seq(Seq(Piece)), NEW l \in Seq(Piece), l \notin Record
    PROVE  EventsOf(Append(D, l)) = EventsOf(D)
  BY EventsFacts

\* An oversized line that an end of line completes is one more line without an event.
LEMMA DiscardedLines ==
    ASSUME NEW a \in Seq(Symbol), NEW x \in Seq(Piece), NEW r \in Seq(Symbol),
           Oversized(Partial(a))
    PROVE  LET w == Partial(a) \o x
           IN  /\ LinesOf(a \o (Append(x, LineEnd) \o r)) = Append(Complete(a), w) \o LinesOf(r)
               /\ w \in Seq(Piece) /\ Oversized(w)
<1> DEFINE D == Complete(a)
           q == Partial(a)
           w == q \o x
           y == Append(x, LineEnd)
           S == Seq(Piece)
<1>1. LinesOf(a) = Append(D, q) /\ D \in Seq(S) /\ q \in S
  BY CompletePartial
<1> HIDE DEF D, q
<1>2. w \in S /\ Len(w) = Len(q) + Len(x) /\ Len(x) \in Nat /\ Len(q) \in Nat
  BY <1>1
<1>3. Oversized(w)
  BY <1>2, EventLimitAssumption DEF Oversized, q
<1>4. q \in Seq(Symbol) /\ y \in Seq(Symbol) /\ a \o y \in Seq(Symbol)
  BY <1>1 DEF Symbol
<1>5. LinesOf(a) = D \o LinesOf(q)
  <2>1. LinesOf(q) = << q >>
    BY <1>1, LineAlone
  <2> HIDE DEF S
  <2>2. Append(D, q) = D \o << q >>
    BY <1>1
  <2> QED
    BY <1>1, <2>1, <2>2
<1>6. LinesOf(a \o y) = D \o LinesOf(q \o y)
  <2>1. D \in Seq(Seq(Piece)) /\ q \in Seq(Symbol) /\ y \in Seq(Symbol)
    BY <1>1, <1>4
  <2> HIDE DEF y, S
  <2>2. \A b \in Seq(Symbol) : LinesOf(a \o b) = D \o LinesOf(q \o b)
    BY <2>1, <1>5, LinesConcat
  <2> QED
    BY <2>1, <2>2
<1>7. q \o y = Append(w, LineEnd)
  <2> DEFINE e == LineEnd
  <2>1. q \in Seq(Symbol) /\ x \in Seq(Symbol) /\ e \in Symbol
    BY <1>1 DEF Symbol
  <2> HIDE DEF e
  <2>2. q \o Append(x, e) = Append(q \o x, e)
    BY <2>1
  <2> QED
    BY <2>2 DEF e
<1> HIDE DEF w, S
<1>8. LinesOf(q \o y) = << w, <<>> >>
  BY <1>2, <1>7, LineEnded DEF S
<1> DEFINE z == <<>>
<1>9. z \in S /\ LinesOf(z) = << z >>
  BY LinesEmpty DEF S
<1>10. LinesOf(a \o y) = Append(D, w) \o LinesOf(z)
  <2>1. LinesOf(a \o y) = D \o << w, z >>
    BY <1>6, <1>8
  <2> HIDE DEF z
  <2>2. D \o << w, z >> = Append(D, w) \o << z >>
    BY <1>1, <1>2, <1>9, SMTT(20)
  <2> QED
    BY <1>9, <2>1, <2>2
<1> DEFINE E == Append(D, w)
           b == a \o y
<1>11. E \in Seq(S) /\ z \in Seq(Symbol) /\ z \o r = r
  BY <1>1, <1>2
<1>12. a \o (y \o r) = b \o r
  <2>1. y \in Seq(Symbol)
    BY <1>4
  <2> HIDE DEF y
  <2>2. a \o (y \o r) = (a \o y) \o r
    BY <2>1
  <2> QED
    BY <2>2
<1> HIDE DEF E, b, z
<1>13. LinesOf(b \o r) = E \o LinesOf(z \o r)
  <2>1. b \in Seq(Symbol) /\ LinesOf(b) = E \o LinesOf(z)
    BY <1>4, <1>10 DEF b, E
  <2> QED
    BY <1>11, <2>1, LinesConcat DEF S
<1>14. LinesOf(a \o (y \o r)) = E \o LinesOf(r)
  BY <1>11, <1>12, <1>13
<1> QED
  BY <1>2, <1>3, <1>14 DEF E, D, w, q, S

\* What a chunk adds to the lines that are read.
LEMMA ChunkLines ==
    ASSUME NEW chunk \in Seq(Symbol), StreamInv, open, mode # "text", ~StillDiscarding(chunk)
    PROVE  LET t == buffer \o Incoming(chunk)
           IN  /\ t \in Seq(Symbol) /\ Len(t) <= Len(text \o chunk)
               /\ \E D \in Seq(Seq(Piece)) :
                     LinesOf(text \o chunk) = D \o LinesOf(t) /\ Yielded(D, text \o chunk = t)
<1> DEFINE t == buffer \o Incoming(chunk)
           T == text \o chunk
<1>1. /\ text \in Seq(Symbol) /\ buffer \in Seq(Symbol) /\ Len(buffer) <= Len(text)
      /\ discarding \in BOOLEAN /\ (discarding => buffer = <<>>)
  BY DEF StreamInv, EventStreamTypeOK, BufferInv, Symbol
<1>2. PICK D \in Seq(Seq(Piece)) : ReadSoFar(D) /\ Yielded(D, discarding \/ text = buffer)
  BY DEF StreamInv, ReadInv
<1>3. T \in Seq(Symbol) /\ Len(T) = Len(text) + Len(chunk) /\ Len(chunk) \in Nat
        /\ Len(text) \in Nat
  BY <1>1
<1>4. CASE ~discarding
  <2>1. t = buffer \o chunk
    BY <1>4 DEF Incoming
  <2>2. t \in Seq(Symbol) /\ Len(t) = Len(buffer) + Len(chunk) /\ Len(buffer) \in Nat
    <3> HIDE DEF t
    <3> QED
      BY <1>1, <2>1, ConcatProperties, LenProperties
  <2>3. LinesOf(T) = D \o LinesOf(t)
    <3>1. LinesOf(text) = D \o LinesOf(buffer)
      BY <1>2, <1>4 DEF ReadSoFar
    <3>2. LinesOf(text \o chunk) = D \o LinesOf(buffer \o chunk)
      BY <1>1, <3>1, LinesConcat
    <3> QED
      BY <2>1, <3>2
  <2>4. Yielded(D, T = t)
    <3>1. text = buffer => T = t
      BY <2>1
    <3> QED
      BY <1>2, <1>4, <3>1 DEF Yielded
  <2>5. Len(t) <= Len(T)
    <3> HIDE DEF t, T
    <3> QED
      BY <1>1, <1>3, <2>2
  <2> HIDE DEF t, T
  <2>6. \E E \in Seq(Seq(Piece)) : LinesOf(T) = E \o LinesOf(t) /\ Yielded(E, T = t)
    BY <2>3, <2>4
  <2> QED
    BY <2>2, <2>5, <2>6 DEF t, T
<1>5. CASE discarding
  <2> DEFINE r == Incoming(chunk)
  <2>1. PICK x \in Seq(Piece) : /\ r \in Seq(Symbol) /\ chunk = Append(x, LineEnd) \o r
                                /\ Len(r) <= Len(chunk)
    BY <1>5, IncomingFacts
  <2> HIDE DEF r
  <2>2. t = r
    BY <1>1, <1>5, <2>1 DEF r
  <2> DEFINE w == Partial(text) \o x
  <2>3. D = Complete(text) /\ Oversized(Partial(text))
    BY <1>2, <1>5 DEF ReadSoFar
  <2>4. LinesOf(T) = Append(D, w) \o LinesOf(r) /\ w \in Seq(Piece) /\ Oversized(w)
    BY <1>1, <2>1, <2>3, DiscardedLines
  <2> HIDE DEF w
  <2>5. w \notin Record /\ EventsOf(Append(D, w)) = EventsOf(D)
    BY <2>4, OversizedIsNoRecord, OneMoreLine, LenProperties
  <2> DEFINE S == Seq(Piece)
             E == Append(D, w)
  <2>6. E \in Seq(S) /\ E # <<>> /\ E[1] = IF D = <<>> THEN w ELSE D[1]
    <3>1. D \in Seq(S) /\ w \in S
      BY <2>4
    <3> HIDE DEF S
    <3>2. /\ E \in Seq(S) /\ Len(E) = Len(D) + 1 /\ E[Len(D) + 1] = w
          /\ \A i \in 1 .. Len(D) : E[i] = D[i]
      BY <3>1, AppendProperties
    <3>3. Len(D) \in Nat /\ (Len(D) = 0 <=> D = <<>>)
      BY <3>1, EmptySeq, LenProperties
    <3> HIDE DEF E
    <3> QED
      BY <3>2, <3>3, EmptySeq
  <2>7. Yielded(E, T = t)
    <3> HIDE DEF E
    <3>1. Skipped(D) => Skipped(E)
      BY <2>4, <2>5, <2>6 DEF Skipped, E
    <3> QED
      BY <1>2, <2>5, <2>6, <3>1 DEF Yielded, E
  <2>8. Len(t) <= Len(T) /\ t \in Seq(Symbol)
    <3>1. Len(r) \in Nat
      BY <2>1, LenProperties
    <3> HIDE DEF t, T
    <3> QED
      BY <1>3, <2>1, <2>2, <3>1
  <2> HIDE DEF t, T, E
  <2>9. LinesOf(T) = E \o LinesOf(t)
    BY <2>2, <2>4 DEF E
  <2>10. \E F \in Seq(Seq(Piece)) : LinesOf(T) = F \o LinesOf(t) /\ Yielded(F, T = t)
    BY <2>6, <2>7, <2>9
  <2> QED
    BY <2>8, <2>10 DEF t, T
<1> QED
  BY <1>1, <1>4, <1>5


\* The types that the invariant gives.
LEMMA StreamTypes ==
    StreamInv => /\ text \in Seq(Symbol) /\ buffer \in Seq(Symbol) /\ Len(buffer) <= Len(text)
                 /\ mode \in {"unknown", "ndjson", "text"}
                 /\ discarding \in BOOLEAN /\ open \in BOOLEAN /\ capped \in BOOLEAN
  BY DEF StreamInv, EventStreamTypeOK, BufferInv, Symbol

\* Pieces have no line end among them.
LEMMA PiecesHaveNoEnd ==
    \A t \in Seq(Piece) : LineEnd \notin ToSet(t)
  BY PieceAssumption DEF ToSet

\* Modes that more text may lead to.
LEMMA ModeFacts ==
    ASSUME NEW t \in Seq(Symbol), mode \in {"unknown", "ndjson", "text"}
    PROVE  /\ ModeFor(t) \in {"unknown", "ndjson", "text"}
           /\ ModeFor(t) = "unknown" => mode = "unknown"
           /\ ModeFor(t) = "unknown" /\ FirstPiece(t) # 0 => Complete(t) = <<>>
           /\ ModeFor(t) = "text" /\ mode # "text" =>
                 /\ mode = "unknown" /\ FirstPiece(t) # 0
                 /\ t[FirstPiece(t)] \in Opening =>
                       Complete(t) # <<>> /\ LinesOf(t)[1] \notin Record
           /\ mode # "unknown" => ModeFor(t) = mode
<1> DEFINE f == FirstPiece(t)
           C == Complete(t)
           h == LinesOf(t)[1]
<1>1. Head(LinesOf(t)) = h
  <2> DEFINE ls == LinesOf(t)
             S == Seq(Piece)
  <2>1. ls \in Seq(S) /\ ls # <<>>
    BY LinesType DEF Lines
  <2> HIDE DEF ls, S
  <2>2. Head(ls) = ls[1]
    BY <2>1
  <2> QED
    BY <2>2 DEF ls
<1>2. ModeFor(t) = IF mode # "unknown" \/ f = 0 THEN mode
                   ELSE IF t[f] \notin Opening THEN "text"
                   ELSE IF C = <<>> THEN "unknown"
                   ELSE IF h \in Record THEN "ndjson" ELSE "text"
  BY <1>1 DEF ModeFor, Undecided
<1> HIDE DEF f, C, h
<1>3. CASE mode # "unknown" \/ f = 0
  BY <1>2, <1>3 DEF f, C, h
<1>4. CASE mode = "unknown" /\ f # 0 /\ t[f] \notin Opening
  BY <1>2, <1>4 DEF f, C, h
<1>5. CASE mode = "unknown" /\ f # 0 /\ t[f] \in Opening
  BY <1>2, <1>5 DEF f, C, h
<1> QED
  BY <1>3, <1>4, <1>5

\* The lines of a longer text begin with those that are known of it.
LEMMA FirstOf ==
    ASSUME NEW a \in Seq(Symbol), NEW q \in Seq(Symbol), NEW D \in Seq(Seq(Piece)),
           LinesOf(a) = D \o LinesOf(q), D # <<>>
    PROVE  LinesOf(a)[1] = D[1] /\ Complete(a) # <<>> /\ D[1] \in Seq(Piece)
<1> DEFINE S == Seq(Piece)
           M == LinesOf(q)
           C == Complete(q)
<1>1. M \in Seq(S) /\ D \in Seq(S)
  BY LinesType DEF Lines
<1>2. Complete(a) = D \o C /\ C \in Seq(S)
  BY SplitLines, CompletePartial
<1> HIDE DEF S, M, C
<1>3. Len(D) \in Nat /\ Len(D) >= 1
  BY <1>1, EmptySeq, LenProperties
<1>4. (D \o M)[1] = D[1] /\ D[1] \in S
  BY <1>1, <1>3
<1>5. D \o C # <<>>
  <2>1. Len(D \o C) = Len(D) + Len(C) /\ Len(C) \in Nat
    BY <1>1, <1>2
  <2> DEFINE E == D \o C
  <2>2. Len(E) # 0
    BY <1>3, <2>1
  <2> HIDE DEF E
  <2>3. E # <<>>
    BY <2>2
  <2> QED
    BY <2>3 DEF E
<1> QED
  BY <1>2, <1>4, <1>5 DEF M, S

\* A chunk that does not tell what the answer is.
LEMMA HoldKeeps ==
    ASSUME NEW chunk \in Seq(Symbol), StreamInv, open, mode # "text", ~StillDiscarding(chunk),
           text' = text \o chunk, mode' = ModeFor(buffer \o Incoming(chunk)),
           mode' = "unknown", Hold(buffer \o Incoming(chunk))
    PROVE  BufferInv' /\ ReadInv' /\ Len(buffer') <= Len(text') /\ text' \in Seq(Symbol)
<1> DEFINE t == buffer \o Incoming(chunk)
           T == text \o chunk
<1>1. t \in Seq(Symbol) /\ Len(t) <= Len(T)
  BY ChunkLines
<1>2. PICK D \in Seq(Seq(Piece)) : LinesOf(T) = D \o LinesOf(t) /\ Yielded(D, T = t)
  BY ChunkLines
<1>3. T \in Seq(Symbol) /\ Len(T) \in Nat
  <2>1. T \in Seq(Symbol)
    BY StreamTypes
  <2> QED
    BY <2>1, LenProperties
<1> HIDE DEF t, T
<1>4. text' = T /\ mode' = ModeFor(t) /\ Hold(t)
  BY DEF t, T
<1>5. mode = "unknown" /\ (FirstPiece(t) # 0 => Complete(t) = <<>>)
  BY <1>1, <1>4, ModeFacts, StreamTypes
<1>6. out' = out /\ open' = open /\ out = <<>> /\ Skipped(D) /\ (D = <<>> => T = t)
  BY <1>2, <1>4, <1>5 DEF Hold, Yielded
<1>7. Len(t) \in Nat
  BY <1>1, LenProperties
<1>8. CASE FirstPiece(t) # 0 /\ Oversized(t)
  <2>1. buffer' = <<>> /\ discarding' = TRUE
    BY <1>4, <1>8 DEF Hold
  <2>2. Complete(t) = <<>> /\ Partial(t) = t
    BY <1>1, <1>5, <1>8, NothingComplete
  <2>3. Complete(T) = D /\ Partial(T) = t
    <3>1. Complete(T) = D \o Complete(t) /\ Partial(T) = Partial(t)
      BY <1>1, <1>2, <1>3, SplitLines
    <3>2. D \o <<>> = D
      OBVIOUS
    <3> QED
      BY <2>2, <3>1, <3>2
  <2>4. ReadSoFar(D)'
    BY <1>4, <1>8, <2>1, <2>3 DEF ReadSoFar
  <2>5. Yielded(D, discarding \/ text = buffer)'
    BY <1>6, <2>1 DEF Yielded, Skipped
  <2>6. ReadInv'
    BY <2>4, <2>5 DEF ReadInv
  <2>7. buffer' \in Seq(Symbol) /\ Len(buffer') = 0
    BY <2>1
  <2>8. FirstPiece(buffer') = 0
    BY <2>1, <2>7, FirstPieceFacts
  <2>9. BufferInv'
    <3>1. FirstPiece(buffer)' = 0
      BY <2>8 DEF FirstPiece, SelectInSeq
    <3> QED
      BY <2>1, <2>7, <3>1 DEF BufferInv
  <2> QED
    BY <1>3, <1>4, <2>6, <2>7, <2>9
<1>9. CASE ~(FirstPiece(t) # 0 /\ Oversized(t))
  <2>1. buffer' = t /\ discarding' = FALSE
    BY <1>4, <1>9 DEF Hold
  <2>2. ReadSoFar(D)'
    BY <1>2, <1>4, <2>1 DEF ReadSoFar
  <2>3. Yielded(D, discarding \/ text = buffer)'
    BY <1>4, <1>6, <2>1 DEF Yielded, Skipped
  <2>4. ReadInv'
    BY <2>2, <2>3 DEF ReadInv
  <2>5. FirstPiece(t) # 0 => t \in Seq(Piece) /\ Len(t) <= MaxBytes
    <3>1. ASSUME FirstPiece(t) # 0 PROVE t \in Seq(Piece) /\ ~Oversized(t)
      BY <1>1, <1>5, <1>9, <3>1, NothingComplete
    <3> QED
      BY <1>7, <3>1, EventLimitAssumption DEF Oversized
  <2>6. FirstPiece(buffer)' = FirstPiece(t)
    BY <2>1 DEF FirstPiece, SelectInSeq
  <2>7. BufferInv'
    BY <1>1, <2>1, <2>5, <2>6 DEF BufferInv
  <2> QED
    BY <1>1, <1>3, <1>4, <2>1, <2>4, <2>7
<1> QED
  BY <1>8, <1>9


\* A text T that is shown, of which t is the part that is not yielded yet.
ShowsText(T, t) ==
    /\ t \in Seq(Symbol) /\ T \in Seq(Symbol)
    /\ Complete(T) # <<>> => LinesOf(T)[1] \notin Record
    /\ Complete(T) # <<>> \/ (T # <<>> /\ T[1] \notin Opening)
    /\ ~Oversized(LinesOf(T)[1]) => out \o t = T /\ out \in Seq(Symbol)

\* A chunk that tells that the answer is text.
LEMMA TextBegins ==
    ASSUME NEW chunk \in Seq(Symbol), StreamInv, open, mode # "text", ~StillDiscarding(chunk),
           ModeFor(buffer \o Incoming(chunk)) = "text"
    PROVE  ShowsText(text \o chunk, buffer \o Incoming(chunk))
<1> DEFINE t == buffer \o Incoming(chunk)
           T == text \o chunk
<1>1. t \in Seq(Symbol) /\ Len(t) <= Len(T)
  BY ChunkLines
<1>2. PICK D \in Seq(Seq(Piece)) : LinesOf(T) = D \o LinesOf(t) /\ Yielded(D, T = t)
  BY ChunkLines
<1>3. T \in Seq(Symbol) /\ Len(T) \in Nat
  <2>1. T \in Seq(Symbol)
    BY StreamTypes
  <2> QED
    BY <2>1, LenProperties
<1> HIDE DEF t, T
<1>4. ModeFor(t) = "text"
  BY DEF t
<1> DEFINE f == FirstPiece(t)
<1>5. /\ mode = "unknown" /\ f # 0
      /\ t[f] \in Opening => Complete(t) # <<>> /\ LinesOf(t)[1] \notin Record
  BY <1>1, <1>4, ModeFacts, StreamTypes
<1>6. f \in 1 .. Len(t) /\ (f # 1 => t[1] = LineEnd)
  BY <1>1, <1>5, FirstPieceFacts
<1> HIDE DEF f
<1>7. t # <<>>
  BY <1>1, <1>6, EmptySeq
<1>8. out = <<>> /\ Skipped(D) /\ (D = <<>> => T = t)
  BY <1>2, <1>5 DEF Yielded
<1>9. out \o t = t /\ out \in Seq(Symbol)
  BY <1>1, <1>8
<1>11. /\ Complete(T) # <<>> => LinesOf(T)[1] \notin Record
       /\ Complete(T) # <<>> \/ (T # <<>> /\ T[1] \notin Opening)
       /\ ~Oversized(LinesOf(T)[1]) => out \o t = T
  <2>1. CASE D # <<>>
    <3>1. LinesOf(T)[1] = D[1] /\ Complete(T) # <<>> /\ D[1] \in Seq(Piece)
      BY <1>1, <1>2, <1>3, <2>1, FirstOf
    <3>2. Oversized(D[1])
      BY <1>8, <2>1 DEF Skipped
    <3>3. D[1] \notin Record
      BY <3>1, <3>2, OversizedIsNoRecord, LenProperties
    <3> QED
      BY <3>1, <3>2, <3>3
  <2>2. CASE D = <<>>
    <3>1. T = t
      BY <1>8, <2>2
    <3>2. CASE f = 1 /\ t[f] \in Opening
      BY <1>5, <1>9, <3>1, <3>2
    <3>3. CASE ~(f = 1 /\ t[f] \in Opening)
      <4>1. t[1] \notin Opening
        BY <1>6, <3>3, PieceAssumption
      <4>2. LinesOf(t)[1] \notin Record
        BY <1>1, <1>7, <4>1, NoRecordFirst
      <4> QED
        BY <1>7, <1>9, <3>1, <4>1, <4>2
    <3> QED
      BY <3>2, <3>3
  <2> QED
    BY <2>1, <2>2
<1> QED
  BY <1>1, <1>3, <1>9, <1>11 DEF ShowsText, t, T

\* More of an answer that is text.
LEMMA TextGoesOn ==
    ASSUME NEW chunk \in Seq(Symbol), StreamInv, open, mode = "text"
    PROVE  ShowsText(text \o chunk, buffer \o Incoming(chunk))
<1> DEFINE T == text \o chunk
<1>1. text \in Seq(Symbol) /\ T \in Seq(Symbol) /\ Len(T) \in Nat
  <2>1. text \in Seq(Symbol) /\ T \in Seq(Symbol)
    BY StreamTypes
  <2> QED
    BY <2>1, LenProperties
<1>2. buffer = <<>> /\ ~discarding
  BY DEF StreamInv, BufferInv
<1>3. buffer \o Incoming(chunk) = chunk
  BY <1>2 DEF Incoming
<1>5. /\ Complete(text) # <<>> => LinesOf(text)[1] \notin Record
      /\ Complete(text) # <<>> \/ (text # <<>> /\ text[1] \notin Opening)
      /\ ~Oversized(LinesOf(text)[1]) => out = text
  BY DEF StreamInv, TextInv
<1> DEFINE L == LinesOf(text)
           M == LinesOf(T)
<1>6. /\ Len(L[1]) <= Len(M[1])
      /\ Len(L) >= 2 => Len(M) >= 2 /\ M[1] = L[1]
  BY <1>1, FirstGrows
<1>7. Len(L[1]) \in Nat /\ Len(M[1]) \in Nat
  <2>1. ASSUME NEW ls \in Lines PROVE Len(ls[1]) \in Nat
    <3>1. ls \in Seq(Seq(Piece)) /\ 1 \in 1 .. Len(ls)
      BY EmptySeq DEF Lines
    <3> QED
      BY <3>1, LenProperties
  <2>2. L \in Lines /\ M \in Lines
    BY <1>1, LinesType
  <2> QED
    BY <2>1, <2>2
<1>8. ASSUME NEW s \in Seq(Symbol) PROVE Complete(s) # <<>> <=> Len(LinesOf(s)) >= 2
  <2> DEFINE C == Complete(s)
             l == Partial(s)
             S == Seq(Piece)
  <2>1. LinesOf(s) = Append(C, l) /\ C \in Seq(S) /\ l \in S
    BY CompletePartial
  <2> HIDE DEF C, l, S
  <2>2. Len(LinesOf(s)) = Len(C) + 1
    BY <2>1, AppendProperties
  <2>3. Len(C) \in Nat /\ (Len(C) = 0 <=> C = <<>>)
    BY <2>1, EmptySeq, LenProperties
  <2> QED
    BY <2>2, <2>3 DEF C
<1> HIDE DEF T
<1>9. Complete(T) # <<>> => LinesOf(T)[1] \notin Record
  <2>1. CASE Complete(text) # <<>>
    BY <1>1, <1>5, <1>6, <1>8, <2>1
  <2>2. CASE text # <<>> /\ text[1] \notin Opening
    <3>1. T # <<>> /\ T[1] = text[1]
      <4>1. Len(text) \in Nat /\ Len(text) >= 1
        BY <1>1, <2>2, EmptySeq
      <4>2. T[1] = text[1] /\ Len(T) = Len(text) + Len(chunk) /\ Len(chunk) \in Nat
        BY <1>1, <4>1 DEF T
      <4> QED
        BY <1>1, <4>1, <4>2, EmptySeq
    <3> QED
      BY <1>1, <2>2, <3>1, NoRecordFirst
  <2> QED
    BY <1>5, <2>1, <2>2
<1>10. Complete(T) # <<>> \/ (T # <<>> /\ T[1] \notin Opening)
  <2>1. CASE Complete(text) # <<>>
    BY <1>1, <1>6, <1>8, <2>1
  <2>2. CASE text # <<>> /\ text[1] \notin Opening
    <3>1. Len(text) \in Nat /\ Len(text) >= 1
      BY <1>1, <2>2, EmptySeq
    <3>2. T[1] = text[1] /\ Len(T) = Len(text) + Len(chunk) /\ Len(chunk) \in Nat
      BY <1>1, <3>1 DEF T
    <3> QED
      BY <1>1, <2>2, <3>1, <3>2, EmptySeq
  <2> QED
    BY <1>5, <2>1, <2>2
<1>11. ~Oversized(LinesOf(T)[1]) => out \o chunk = T /\ out \in Seq(Symbol)
  <2>1. ~Oversized(M[1]) => ~Oversized(L[1])
    <3> HIDE DEF L, M
    <3> QED
      BY <1>6, <1>7, EventLimitAssumption DEF Oversized
  <2> QED
    BY <1>1, <1>5, <2>1 DEF T
<1> QED
  BY <1>1, <1>3, <1>9, <1>10, <1>11 DEF ShowsText, T

\* A text that begins, or goes on.
LEMMA TextGrows ==
    ASSUME NEW chunk \in Seq(Symbol), StreamInv, open, ~StillDiscarding(chunk),
           ModeFor(buffer \o Incoming(chunk)) = "text"
    PROVE  ShowsText(text \o chunk, buffer \o Incoming(chunk))
  BY TextBegins, TextGoesOn

\* What is passed on of a text.
LEMMA PassOnKeeps ==
    ASSUME NEW chunk \in Seq(Symbol), StreamInv, open, ~StillDiscarding(chunk),
           text' = text \o chunk, mode' = ModeFor(buffer \o Incoming(chunk)),
           mode' = "text", PassOn(buffer \o Incoming(chunk))
    PROVE  BufferInv' /\ TextInv' /\ Len(buffer') <= Len(text') /\ text' \in Seq(Symbol)
<1> DEFINE t == buffer \o Incoming(chunk)
           T == text \o chunk
<1>1. ShowsText(T, t)
  BY TextGrows
<1> HIDE DEF t, T
<1>2. text' = T /\ PassOn(t)
  BY DEF t, T
<1>3. buffer' = <<>> /\ discarding' = FALSE /\ out' = out \o t /\ open' = open
  BY <1>2 DEF PassOn
<1>4. TextInv'
  BY <1>1, <1>2, <1>3 DEF TextInv, ShowsText
<1>5. T \in Seq(Symbol) /\ Len(T) \in Nat
  BY <1>1, LenProperties DEF ShowsText
<1>6. <<>> \in Seq(Symbol) /\ Len(<<>>) = 0
  OBVIOUS
<1> QED
  BY <1>2, <1>3, <1>4, <1>5, <1>6 DEF BufferInv

\* What a buffer that is decoded gives.
LEMMA DecodeGiven ==
    ASSUME NEW chunk \in Seq(Symbol), StreamInv, open, mode # "text", ~StillDiscarding(chunk),
           ~capped, ~(Len(Complete(buffer \o Incoming(chunk))) > MaxRecords)
    PROVE  /\ out \in Seq(Event) /\ Decoded(buffer \o Incoming(chunk)) \in Seq(Event)
           /\ \E v \in Seq(Event) :
                 EventsOf(LinesOf(text \o chunk)) =
                     (out \o Decoded(buffer \o Incoming(chunk))) \o v
<1> DEFINE t == buffer \o Incoming(chunk)
           T == text \o chunk
           S == Seq(Piece)
<1>1. t \in Seq(Symbol)
  BY ChunkLines
<1>2. PICK D \in Seq(S) : LinesOf(T) = D \o LinesOf(t) /\ Yielded(D, T = t)
  BY ChunkLines
<1>3. T \in Seq(Symbol)
  BY StreamTypes
<1> DEFINE C == Complete(t)
<1>4. ~(Len(C) > MaxRecords)
  OBVIOUS
<1> HIDE DEF t, T
<1>5. C \in Seq(S) /\ Complete(T) = D \o C
  BY <1>1, <1>2, <1>3, CompletePartial, SplitLines
<1>6. Decoded(t) = EventsOf(C)
  <2> HIDE DEF C, S
  <2>1. Len(C) \in Nat
    BY <1>5, LenProperties
  <2>2. Len(C) <= MaxRecords
    BY <1>4, <2>1, EventLimitAssumption
  <2> QED
    BY <2>2 DEF Decoded, C
<1>7. /\ EventsOf(C) \in Seq(Event) /\ EventsOf(D) \in Seq(Event)
      /\ EventsOf(Complete(T)) = EventsOf(D) \o EventsOf(C)
  <2> HIDE DEF C, S
  <2>1. EventsOf(C) \in Seq(Event) /\ EventsOf(D) \in Seq(Event)
    BY <1>2, <1>5, EventsFacts
  <2>2. EventsOf(D \o C) = EventsOf(D) \o EventsOf(C)
    BY <1>2, <1>5, EventsConcat
  <2> QED
    BY <1>5, <2>1, <2>2
<1>8. out = EventsOf(D)
  <2>1. mode = "ndjson" => out = EventsOf(D)
    BY <1>2 DEF Yielded
  <2>2. mode = "unknown" => out = EventsOf(D)
    BY <1>2 DEF Yielded, Skipped
  <2> QED
    BY <2>1, <2>2, StreamTypes
<1>9. PICK v \in Seq(Event) : EventsOf(LinesOf(T)) = EventsOf(Complete(T)) \o v
  BY <1>3, LinesBegin
<1>10. EventsOf(LinesOf(T)) = (out \o Decoded(t)) \o v
  BY <1>6, <1>7, <1>8, <1>9
<1> QED
  BY <1>6, <1>7, <1>8, <1>10 DEF t, T

\* A buffer that is decoded.
LEMMA DecodeKeeps ==
    ASSUME NEW chunk \in Seq(Symbol), StreamInv, open, mode # "text", ~StillDiscarding(chunk),
           text' = text \o chunk, mode' = ModeFor(buffer \o Incoming(chunk)),
           mode' = "ndjson", Decode(buffer \o Incoming(chunk))
    PROVE  /\ BufferInv' /\ ReadInv' /\ ClosedInv'
           /\ Len(buffer') <= Len(text') /\ text' \in Seq(Symbol)
           /\ open' \in BOOLEAN /\ capped' \in BOOLEAN /\ discarding' \in BOOLEAN
<1> DEFINE t == buffer \o Incoming(chunk)
           T == text \o chunk
           S == Seq(Piece)
<1>1. t \in Seq(Symbol) /\ Len(t) <= Len(T)
  BY ChunkLines
<1>2. PICK D \in Seq(S) : LinesOf(T) = D \o LinesOf(t) /\ Yielded(D, T = t)
  BY ChunkLines
<1>3. T \in Seq(Symbol) /\ Len(T) \in Nat /\ Len(t) \in Nat
  <2>1. T \in Seq(Symbol)
    BY StreamTypes
  <2> QED
    BY <1>1, <2>1, LenProperties
<1> HIDE DEF t, T
<1>4. text' = T /\ Decode(t)
  BY DEF t, T
<1> DEFINE C == Complete(t)
           l == Partial(t)
           E == EventsOf(C)
<1>5. /\ C \in Seq(S) /\ l \in S /\ Len(l) <= Len(t) /\ Len(l) \in Nat
      /\ Complete(T) = D \o C /\ Partial(T) = l
  <2>1. C \in Seq(S) /\ l \in S /\ Len(l) <= Len(t) /\ Len(l) \in Nat
    BY <1>1, CompletePartial, PartialLength, LenProperties
  <2>2. Complete(T) = D \o C /\ Partial(T) = l
    BY <1>1, <1>2, <1>3, SplitLines
  <2> QED
    BY <2>1, <2>2
<1>6. /\ out' = out \o UpToFinal(Decoded(t)) /\ open' = ~HasFinal(Decoded(t))
      /\ buffer' = (IF Oversized(l) THEN <<>> ELSE l) /\ discarding' = Oversized(l)
      /\ capped' = (capped \/ Len(C) > MaxRecords)
  BY <1>4 DEF Decode, Rest
<1>7. Len(C) \in Nat
  <2> HIDE DEF C, S
  <2> QED
    BY <1>5, LenProperties
<1>8. ~capped' => Decoded(t) = E /\ ~capped
  <2>1. ~capped' => Len(C) <= MaxRecords
    <3> HIDE DEF C
    <3>1. ~capped' => ~(Len(C) > MaxRecords)
      BY <1>6, Zenon
    <3> QED
      BY <1>7, <3>1, EventLimitAssumption
  <2> QED
    BY <1>6, <2>1 DEF Decoded
<1>9. E \in Seq(Event) /\ EventsOf(D) \in Seq(Event) /\ EventsOf(Complete(T)) = EventsOf(D) \o E
  <2> HIDE DEF C, S
  <2>1. C \in Seq(S) /\ D \in Seq(S)
    BY <1>2, <1>5
  <2>2. E \in Seq(Event) /\ EventsOf(D) \in Seq(Event)
    BY <2>1, EventsFacts
  <2>3. EventsOf(D \o C) = EventsOf(D) \o EventsOf(C)
    BY <2>1, EventsConcat
  <2> QED
    BY <1>5, <2>2, <2>3
<1> HIDE DEF C, E
<1>10. ~capped => out = EventsOf(D) /\ ~HasFinal(out)
  <2>1. CASE mode = "ndjson"
    BY <1>2, <2>1 DEF Yielded
  <2>2. CASE mode = "unknown"
    <3>1. out = <<>> /\ EventsOf(D) = <<>>
      BY <1>2, <2>2 DEF Yielded, Skipped
    <3>2. ~HasFinal(out)
      BY <3>1 DEF HasFinal
    <3> QED
      BY <3>1, <3>2
  <2> QED
    BY <2>1, <2>2, StreamTypes
<1>11. buffer' \in S /\ Len(buffer') <= Len(l) /\ Len(buffer') <= MaxBytes
  <2>1. <<>> \in S /\ Len(<<>>) = 0
    OBVIOUS
  <2>2. CASE Oversized(l)
    BY <1>5, <1>6, <2>1, <2>2, EventLimitAssumption
  <2>3. CASE ~Oversized(l)
    <3>1. buffer' = l
      BY <1>6, <2>3
    <3> QED
      BY <1>5, <2>3, <3>1, EventLimitAssumption DEF Oversized
  <2> QED
    BY <2>2, <2>3
<1>12. BufferInv'
  <2>1. discarding' => buffer' = <<>>
    BY <1>6
  <2>2. buffer' \in Seq(Symbol)
    BY <1>11 DEF Symbol
  <2> QED
    BY <1>11, <2>1, <2>2 DEF BufferInv
<1>13. Len(buffer') <= Len(text')
  <2>1. Len(buffer') \in Nat
    BY <1>11
  <2> QED
    BY <1>1, <1>3, <1>4, <1>5, <1>11, <2>1
<1>a. PICK F \in Seq(S) : F = Complete(T)
  <2>1. D \o C \in Seq(S)
    <3> HIDE DEF S
    <3> QED
      BY <1>2, <1>5
  <2> QED
    BY <1>5, <2>1
<1>14. ReadInv'
  <2>1. ReadSoFar(F)'
    <3>1. CASE Oversized(l)
      <4>1. buffer' = <<>> /\ discarding'
        BY <1>6, <3>1
      <4>2. F = Complete(T) /\ Oversized(Partial(T))
        BY <1>a, <1>5, <3>1
      <4> QED
        BY <1>4, <4>1, <4>2 DEF ReadSoFar
    <3>2. CASE ~Oversized(l)
      <4>1. buffer' = l /\ ~discarding'
        BY <1>6, <3>2
      <4>2. LinesOf(l) = << l >> /\ LinesOf(T) = Append(Complete(T), l)
        BY <1>3, <1>5, LineAlone, CompletePartial
      <4> HIDE DEF S
      <4>3. Append(F, l) = F \o << l >>
        BY <1>5, <1>a
      <4>4. LinesOf(T) = F \o LinesOf(l)
        BY <1>a, <4>2, <4>3
      <4> QED
        BY <1>4, <4>1, <4>4 DEF ReadSoFar
    <3> QED
      BY <3>1, <3>2
  <2>2. ASSUME open', ~capped'
        PROVE  out' = EventsOf(F) /\ ~HasFinal(out)'
    <3>1. Decoded(t) = E /\ ~HasFinal(E) /\ UpToFinal(E) = E
      BY <1>6, <1>8, <1>9, <2>2, FinalFacts
    <3>2. out = EventsOf(D) /\ ~HasFinal(out)
      BY <1>8, <1>10, <2>2
    <3>3. out' = EventsOf(D) \o E
      BY <1>6, <3>1, <3>2
    <3> DEFINE A == EventsOf(D)
    <3> HIDE DEF A
    <3>4. ~HasFinal(A \o E)
      <4>1. A \in Seq(Event) /\ E \in Seq(Event) /\ ~HasFinal(A) /\ ~HasFinal(E)
        BY <1>9, <3>1, <3>2 DEF A
      <4> QED
        BY <4>1, NeitherFinal
    <3>5. HasFinal(out)' = HasFinal(A \o E)
      BY <3>3 DEF HasFinal, A
    <3> QED
      BY <1>9, <1>a, <3>3, <3>4, <3>5
  <2>3. open' => Yielded(F, discarding \/ text = buffer)'
    BY <2>2 DEF Yielded
  <2> QED
    BY <2>1, <2>3 DEF ReadInv
<1>15. ClosedInv'
  <2> SUFFICES ASSUME ~open', ~capped'
               PROVE  Begins(out', EventsOf(LinesOf(T)), Event, Stops)
    <3>1. ClosedInv' \/ (~open' /\ ~capped')
      BY DEF ClosedInv
    <3>2. ASSUME Begins(out', EventsOf(LinesOf(T)), Event, Stops) PROVE ClosedInv'
      <4>1. /\ Begins(out', EventsOf(LinesOf(T)), Event, Ends)
            /\ ~(out' # <<>> /\ Last(out') = Done)
        BY <3>2, StoppedCloses
      <4> QED
        BY <1>4, <4>1 DEF ClosedInv, Begins, Last
    <3> QED
      BY <3>1, <3>2
  <2>1. ~capped /\ ~(Len(Complete(t)) > MaxRecords)
    BY <1>6, Zenon DEF C
  <2>2. /\ out \in Seq(Event) /\ Decoded(t) \in Seq(Event)
        /\ \E v \in Seq(Event) : EventsOf(LinesOf(T)) = (out \o Decoded(t)) \o v
    BY <2>1, DecodeGiven DEF t, T
  <2>3. PICK v \in Seq(Event) : EventsOf(LinesOf(T)) = (out \o Decoded(t)) \o v
    BY <2>2
  <2> DEFINE u == UpToFinal(Decoded(t))
  <2>4. u \in Seq(Event) /\ \E x \in Seq(Event) : Decoded(t) = u \o x
    BY <2>2, FinalFacts, UpToFinalBegins
  <2> HIDE DEF u
  <2>5. PICK x \in Seq(Event) : Decoded(t) = u \o x
    BY <2>4
  <2> DEFINE z == out \o u
             r == x \o v
  <2>6. z \in Seq(Event) /\ r \in Seq(Event)
    BY <2>2, <2>4
  <2>7. EventsOf(LinesOf(T)) = z \o r
    <3>a. /\ out \in Seq(Event) /\ u \in Seq(Event) /\ z \in Seq(Event)
          /\ x \in Seq(Event) /\ v \in Seq(Event)
      BY <2>2, <2>3, <2>4, <2>5, <2>6
    <3>1. (out \o u) \o x = out \o (u \o x)
      BY <3>a, ConcatThree
    <3>2. (z \o x) \o v = z \o r
      <4> HIDE DEF z
      <4> QED
        BY <3>a, ConcatThree, SMTT(20)
    <3> QED
      BY <2>3, <2>5, <3>1, <3>2
  <2>8. out' = z
    BY <1>6 DEF u
  <2> HIDE DEF z, r
  <2> QED
    BY <2>6, <2>7, <2>8, EndBegins
<1>16. open' \in BOOLEAN /\ capped' \in BOOLEAN /\ discarding' \in BOOLEAN
  <2>1. open' \in BOOLEAN
    BY <1>6 DEF HasFinal
  <2>2. capped' \in BOOLEAN
    BY <1>6, StreamTypes
  <2>3. discarding' \in BOOLEAN
    BY <1>6 DEF Oversized
  <2> QED
    BY <2>1, <2>2, <2>3
<1> QED
  BY <1>3, <1>4, <1>12, <1>13, <1>14, <1>15, <1>16


\* A buffer that ends a response is its last line.
LEMMA LastLine ==
    ASSUME NEW w \in Seq(Piece), mode \in {"unknown", "ndjson", "text"}
    PROVE  /\ Decoded(Append(w, LineEnd)) = EventsOf(LinesOf(w))
           /\ w # <<>> => FirstPiece(Append(w, LineEnd)) # 0
           /\ w # <<>> /\ mode = "unknown" => ModeFor(Append(w, LineEnd)) # "unknown"
<1> DEFINE b == Append(w, LineEnd)
<1>1. /\ b \in Seq(Symbol) /\ LinesOf(b) = << w, <<>> >> /\ Complete(b) = << w >>
  BY LineEnded
<1>2. LinesOf(w) = << w >>
  BY LineAlone
<1>3. Len(<< w >>) <= MaxRecords
  <2>1. Len(<< w >>) = 1
    OBVIOUS
  <2> QED
    BY <2>1, EventLimitAssumption
<1>4. Decoded(b) = EventsOf(LinesOf(w))
  BY <1>1, <1>2, <1>3 DEF Decoded
<1>5. ASSUME w # <<>> PROVE FirstPiece(b) # 0
  <2>1. Len(w) \in Nat /\ Len(w) >= 1
    BY <1>5, EmptySeq, LenProperties
  <2>2. 1 \in 1 .. Len(w) /\ w \in Seq(Symbol) /\ LineEnd \in Symbol
    BY <2>1 DEF Symbol
  <2>3. b[1] = w[1] /\ Len(b) = Len(w) + 1
    BY <2>2, AppendProperties
  <2>4. w[1] \in Piece
    BY <2>2
  <2>5. b[1] # LineEnd
    BY <2>3, <2>4, PieceAssumption
  <2> DEFINE I == {n \in 1 .. Len(b) : b[n] # LineEnd}
  <2>6. 1 \in I
    BY <2>1, <2>3, <2>5
  <2>7. Min(I) \in I
    <3>1. I \subseteq Nat
      OBVIOUS
    <3> HIDE DEF I
    <3> QED
      BY <2>6, <3>1, MinFacts
  <2>8. FirstPiece(b) = IF I # {} THEN Min(I) ELSE 0
    BY DEF FirstPiece, SelectInSeq
  <2>9. Min(I) # 0
    <3> DEFINE k == Min(I)
    <3>1. k \in 1 .. Len(b)
      BY <2>7
    <3> HIDE DEF k, b
    <3> QED
      BY <2>1, <2>3, <3>1 DEF k
  <2> HIDE DEF I
  <2> QED
    BY <2>6, <2>8, <2>9
<1>6. ASSUME w # <<>>, mode = "unknown" PROVE ModeFor(b) # "unknown"
  <2>1. Complete(b) # <<>>
    BY <1>1
  <2> HIDE DEF b
  <2> QED
    BY <1>1, <1>5, <1>6, <2>1, ModeFacts
<1> QED
  BY <1>4, <1>5, <1>6

\* The lines that an open reader of records has read are the complete ones.
LEMMA OpenReads ==
    ASSUME StreamInv, open, mode = "ndjson", ~capped
    PROVE  out = EventsOf(Complete(text)) /\ ~HasFinal(out) /\ out \in Seq(Event)
<1>1. PICK D \in Seq(Seq(Piece)) : ReadSoFar(D) /\ Yielded(D, discarding \/ text = buffer)
  BY DEF StreamInv, ReadInv
<1>2. out = EventsOf(D) /\ ~HasFinal(out) /\ out \in Seq(Event)
  BY <1>1, EventsFacts DEF Yielded
<1>3. D = Complete(text)
  <2>1. CASE discarding
    BY <1>1, <2>1 DEF ReadSoFar
  <2>2. CASE ~discarding
    <3>1. LinesOf(text) = D \o LinesOf(buffer) /\ buffer \in Seq(Piece)
      BY <1>1, <2>2 DEF ReadSoFar, StreamInv, BufferInv
    <3>2. Complete(buffer) = <<>>
      <4>1. LinesOf(buffer) = << buffer >>
        BY <3>1, LineAlone
      <4>2. Front(<< buffer >>) = <<>>
        BY DEF Front
      <4> QED
        BY <4>1, <4>2 DEF Complete
    <3>3. Complete(text) = D \o Complete(buffer)
      BY <3>1, SplitLines, StreamTypes
    <3>4. D \o <<>> = D
      OBVIOUS
    <3> QED
      BY <3>2, <3>3, <3>4
  <2> QED
    BY <2>1, <2>2
<1> QED
  BY <1>2, <1>3

\* What an open reader of records has yielded is a part of all.
LEMMA OpenBegins ==
    ASSUME StreamInv, open, mode = "ndjson", ~capped
    PROVE  \E v \in Seq(Event) : EventsOf(LinesOf(text)) = out \o v
  BY OpenReads, LinesBegin, StreamTypes

\* What is left at the end of a response is its last line.
LEMMA EndGiven ==
    ASSUME StreamInv, open, mode # "text", ~capped, ~discarding,
           FirstPiece(buffer) # 0 \/ mode = "ndjson",
           ModeFor(Append(buffer, LineEnd)) = "ndjson"
    PROVE  LET E == EventsOf(LinesOf(buffer))
           IN  /\ out \in Seq(Event) /\ E \in Seq(Event) /\ ~HasFinal(out)
               /\ LastGiven("ndjson") = UpToFinal(E) /\ EventsOf(LinesOf(text)) = out \o E
<1> DEFINE S == Seq(Piece)
           E == EventsOf(LinesOf(buffer))
<1>1. mode \in {"unknown", "ndjson"}
  BY StreamTypes
<1>2. PICK D \in Seq(S) : ReadSoFar(D) /\ Yielded(D, discarding \/ text = buffer)
  BY DEF StreamInv, ReadInv
<1>3. out = EventsOf(D) /\ ~HasFinal(out) /\ out \in Seq(Event)
  <2>1. CASE mode = "ndjson"
    BY <1>2, <2>1, EventsFacts DEF Yielded
  <2>2. CASE mode = "unknown"
    <3>1. out = <<>> /\ EventsOf(D) = <<>>
      BY <1>2, <2>2 DEF Yielded, Skipped
    <3>2. ~HasFinal(out)
      BY <3>1 DEF HasFinal
    <3>3. <<>> \in Seq(Event)
      OBVIOUS
    <3> QED
      BY <3>1, <3>2, <3>3
  <2> QED
    BY <1>1, <2>1, <2>2
<1>4. LinesOf(text) = D \o LinesOf(buffer)
  BY <1>2 DEF ReadSoFar
<1>5. buffer \in Seq(Piece)
  BY <1>1 DEF StreamInv, BufferInv
<1>6. LastGiven("ndjson") = UpToFinal(E)
  BY <1>1, <1>5, LastLine DEF LastGiven
<1>7. E \in Seq(Event) /\ EventsOf(LinesOf(text)) = out \o E
  <2>1. LinesOf(buffer) \in Seq(S)
    <3>1. LinesOf(buffer) = << buffer >> /\ buffer \in S
      BY <1>5, LineAlone
    <3> HIDE DEF S
    <3> QED
      BY <3>1
  <2> DEFINE M == LinesOf(buffer)
  <2> HIDE DEF S, M
  <2>2. EventsOf(D \o M) = EventsOf(D) \o EventsOf(M) /\ EventsOf(M) \in Seq(Event)
    <3>1. M \in Seq(S)
      BY <2>1 DEF M
    <3> QED
      BY <1>2, <3>1, EventsConcat, EventsFacts
  <2> QED
    BY <1>3, <1>4, <2>2 DEF M
<1> HIDE DEF E
<1> QED
  BY <1>3, <1>6, <1>7 DEF E

\* An answer that the end of the response ends.
LEMMA EndCloses ==
    ASSUME StreamInv, EndRead, mode # "text", mode' = "ndjson", ~capped'
    PROVE  /\ Begins(out', EventsOf(LinesOf(text)), Event, Ends)
           /\ out' # <<>> /\ Last(out') = Done =>
                 Front(out') = EventsOf(LinesOf(text)) /\ ~HasFinal(Front(out'))
<1> DEFINE ended == ModeFor(Append(buffer, LineEnd))
           rest == LastGiven(ended)
           all == EventsOf(LinesOf(text))
           A == Event \union {Done}
<1>1. /\ open /\ ~capped /\ text \in Seq(Symbol) /\ mode \in {"unknown", "ndjson"}
      /\ discarding \in BOOLEAN /\ buffer \in Seq(Symbol)
  BY StreamTypes DEF EndRead
<1>2. /\ mode' = IF discarding \/ FirstPiece(buffer) = 0 THEN mode ELSE ended
      /\ out' = IF discarding THEN Append(out, Done)
                ELSE IF ended # "text" /\ HasFinal(rest) THEN out \o rest
                ELSE Append(out \o rest, Done)
  BY DEF EndRead
<1> HIDE DEF rest
<1>3. ASSUME NEW x \in Seq(Event) PROVE Front(Append(x, Done)) = x
  <2>1. x \in Seq(A) /\ Done \in A
    OBVIOUS
  <2> HIDE DEF A
  <2> QED
    BY <2>1, FrontLast
<1>4. CASE discarding
  <2>1. mode = "ndjson"
    BY <1>2, <1>4
  <2>2. out = EventsOf(Complete(text)) /\ ~HasFinal(out) /\ out \in Seq(Event)
    BY <1>1, <2>1, OpenReads
  <2>3. PICK v \in Seq(Event) : all = out \o v
    BY <1>1, <2>1, OpenBegins
  <2>4. Begins(out', all, Event, Ends)
    <3>1. Begins(Append(out, Done), out \o v, Event, Ends)
      BY <2>2, EndBegins
    <3> QED
      BY <1>2, <1>4, <2>3, <3>1
  <2>5. Oversized(Partial(text))
    <3>1. PICK D \in Seq(Seq(Piece)) : ReadSoFar(D)
      BY <1>1 DEF StreamInv, ReadInv
    <3> QED
      BY <1>4, <3>1 DEF ReadSoFar
  <2> DEFINE S == Seq(Piece)
             C == Complete(text)
             l == Partial(text)
  <2>6. LinesOf(text) = Append(C, l) /\ C \in Seq(S) /\ l \in S
    BY <1>1, CompletePartial
  <2>7. l \notin Record
    BY <2>5, <2>6, OversizedIsNoRecord, LenProperties
  <2>8. all = out
    BY <2>2, <2>6, <2>7, OneMoreLine
  <2> HIDE DEF all
  <2> QED
    BY <1>2, <1>3, <1>4, <2>2, <2>4, <2>8 DEF all
<1>5. CASE ~discarding
  <2>1. ended = "ndjson" /\ (FirstPiece(buffer) # 0 \/ mode = "ndjson")
    <3>1. CASE mode = "ndjson"
      <4>1. ended = "ndjson"
        BY <3>1 DEF ModeFor
      <4> QED
        BY <3>1, <4>1
    <3>2. CASE mode = "unknown"
      BY <1>2, <1>5, <3>2
    <3> QED
      BY <1>1, <3>1, <3>2
  <2> DEFINE E == EventsOf(LinesOf(buffer))
  <2>2. /\ out \in Seq(Event) /\ E \in Seq(Event) /\ ~HasFinal(out)
        /\ rest = UpToFinal(E) /\ all = out \o E
    BY <1>1, <1>5, <2>1, EndGiven DEF rest
  <2> HIDE DEF E, all, ended
  <2>3. PICK v \in Seq(Event) : E = rest \o v
    BY <2>2, UpToFinalBegins
  <2>4. rest \in Seq(Event)
    BY <2>2, FinalFacts
  <2> DEFINE x == out \o rest
  <2>a. out \in Seq(Event) /\ v \in Seq(Event)
    BY <2>2, <2>3
  <2>b. out \o (rest \o v) = x \o v /\ x \in Seq(Event)
    BY <2>4, <2>a, ConcatThree
  <2>5. x \in Seq(Event) /\ all = x \o v
    BY <2>2, <2>3, <2>b
  <2> HIDE DEF x
  <2>6. CASE HasFinal(rest)
    <3>1. out' = x
      BY <1>2, <1>5, <2>1, <2>6 DEF x
    <3>2. Begins(x, x \o v, Event, Stops)
      BY <2>5, EndBegins
    <3> QED
      BY <2>5, <3>1, <3>2, StoppedCloses DEF all
  <2>7. CASE ~HasFinal(rest)
    <3>1. out' = Append(x, Done)
      BY <1>2, <1>5, <2>7 DEF x
    <3>2. Begins(Append(x, Done), x \o v, Event, Ends)
      BY <2>5, EndBegins
    <3>3. ~HasFinal(E) /\ rest = E
      BY <2>2, <2>7, FinalFacts
    <3>4. x = all /\ ~HasFinal(x)
      BY <2>2, <3>3, NeitherFinal DEF x
    <3> QED
      BY <1>3, <2>5, <3>1, <3>2, <3>4 DEF all
  <2> QED
    BY <2>6, <2>7
<1> QED
  BY <1>1, <1>4, <1>5

\* A text that the end of the response shows.
LEMMA EndText ==
    ASSUME StreamInv, open, ~discarding, mode = "unknown", FirstPiece(buffer) # 0
    PROVE  /\ Complete(text) # <<>> => LinesOf(text)[1] \notin Record
           /\ out = <<>> /\ (~Oversized(LinesOf(text)[1]) => text = buffer)
<1>1. text \in Seq(Symbol) /\ buffer \in Seq(Symbol)
  BY StreamTypes
<1>2. PICK D \in Seq(Seq(Piece)) : ReadSoFar(D) /\ Yielded(D, discarding \/ text = buffer)
  BY DEF StreamInv, ReadInv
<1>3. /\ LinesOf(text) = D \o LinesOf(buffer) /\ Skipped(D) /\ out = <<>>
      /\ D = <<>> => text = buffer
  BY <1>2 DEF ReadSoFar, Yielded
<1>4. buffer \in Seq(Piece)
  BY DEF StreamInv, BufferInv
<1>5. CASE D # <<>>
  <2>1. LinesOf(text)[1] = D[1] /\ D[1] \in Seq(Piece)
    BY <1>1, <1>3, <1>5, FirstOf
  <2> QED
    BY <1>3, <1>5, <2>1, OversizedIsNoRecord, LenProperties DEF Skipped
<1>6. CASE D = <<>>
  <2>1. Complete(buffer) = <<>>
    <3>1. LinesOf(buffer) = << buffer >>
      BY <1>4, LineAlone
    <3>2. Front(<< buffer >>) = <<>>
      BY DEF Front
    <3> QED
      BY <3>1, <3>2 DEF Complete
  <2> QED
    BY <1>3, <1>6, <2>1
<1> QED
  BY <1>5, <1>6


-----------------------------------------------------------------------------
(* The steps *)

\* Nothing is read at first.
LEMMA StreamInitially == EventStreamInit => StreamInv
<1> SUFFICES ASSUME EventStreamInit PROVE StreamInv
  OBVIOUS
<1> DEFINE z == <<>>
<1>1. /\ mode \in {"unknown", "ndjson"} /\ text = z /\ buffer = z /\ discarding = FALSE
      /\ out = z /\ open = TRUE /\ capped = FALSE
  BY DEF EventStreamInit
<1>2. z \in Seq(Symbol) /\ z \in Seq(Piece) /\ z \in Seq(Seq(Piece)) /\ Len(z) = 0
  OBVIOUS
<1>3. EventsOf(z) = <<>> /\ LinesOf(z) = << z >> /\ FirstPiece(z) = 0 /\ LineEnd \notin ToSet(z)
  BY <1>2, EventsEmpty, LinesEmpty, FirstPieceFacts, PiecesHaveNoEnd
<1>4. LinesOf(z) = z \o LinesOf(z)
  BY <1>3
<1>5. ~HasFinal(z)
  BY DEF HasFinal
<1> HIDE DEF z
<1>a. Len(text) <= TextLimit /\ Len(buffer) <= Len(text) /\ Len(buffer) <= MaxBytes
  BY <1>1, <1>2, EventLimitAssumption
<1>b. LineEnd \notin ToSet(buffer) /\ FirstPiece(buffer) = 0
  BY <1>1, <1>3
<1>6. EventStreamTypeOK
  BY <1>1, <1>2, <1>a, <1>b DEF EventStreamTypeOK, Symbol
<1>7. BufferInv
  BY <1>1, <1>2, <1>a, <1>b DEF BufferInv
<1>8. ReadInv
  <2>1. ReadSoFar(z)
    BY <1>1, <1>4 DEF ReadSoFar
  <2>2. Yielded(z, discarding \/ text = buffer)
    <3>1. EventsOf(z) = z /\ text = buffer /\ out = z /\ mode # "text"
      BY <1>1, <1>3 DEF z
    <3>2. HasFinal(out) = HasFinal(z)
      BY <1>1
    <3> QED
      BY <1>5, <3>1, <3>2 DEF Yielded, Skipped, z
  <2> QED
    BY <1>2, <2>1, <2>2 DEF ReadInv
<1>9. TextInv /\ ClosedInv
  BY <1>1 DEF TextInv, ClosedInv
<1> QED
  BY <1>6, <1>7, <1>8, <1>9 DEF StreamInv

\* A chunk that is a part of a line that is discarded.
LEMMA DiscardKeeps ==
    ASSUME NEW chunk \in Seq(Symbol), StreamInv, open, StillDiscarding(chunk),
           text' = text \o chunk, UNCHANGED <<mode, buffer, discarding, out, open, capped>>
    PROVE  /\ BufferInv' /\ ReadInv' /\ TextInv' /\ ClosedInv'
           /\ Len(buffer') <= Len(text') /\ text' \in Seq(Symbol)
<1> DEFINE T == text \o chunk
           S == Seq(Piece)
<1>1. discarding /\ LineEnd \notin ToSet(chunk)
  BY DEF StillDiscarding
<1>2. buffer = <<>> /\ mode # "text" /\ BufferInv
  BY <1>1 DEF StreamInv, BufferInv
<1>3. text \in Seq(Symbol) /\ T \in Seq(Symbol) /\ chunk \in S
  <2>1. \A i \in 1 .. Len(chunk) : chunk[i] \in Piece
    BY <1>1 DEF Symbol, ToSet
  <2>2. text \in Seq(Symbol)
    BY StreamTypes
  <2> QED
    BY <2>1, <2>2
<1>4. PICK D \in Seq(S) : ReadSoFar(D) /\ Yielded(D, discarding \/ text = buffer)
  BY <1>2 DEF StreamInv, ReadInv
<1> DEFINE q == Partial(text)
<1>5. D = Complete(text) /\ Oversized(q)
  BY <1>1, <1>4 DEF ReadSoFar
<1>6. LinesOf(text) = Append(D, q) /\ q \in S
  BY <1>3, <1>5, CompletePartial
<1> DEFINE w == q \o chunk
<1>7. w \in S /\ Oversized(w)
  <2> HIDE DEF q
  <2>1. w \in S /\ Len(w) = Len(q) + Len(chunk) /\ Len(chunk) \in Nat /\ Len(q) \in Nat
    BY <1>3, <1>6
  <2> QED
    BY <1>5, <2>1, EventLimitAssumption DEF Oversized
<1>8. LinesOf(T) = D \o << w >>
  <2> HIDE DEF q
  <2>1. LinesOf(q) = << q >> /\ q \in Seq(Symbol)
    BY <1>6, LineAlone DEF Symbol
  <2> DEFINE U == S
  <2>2. D \in Seq(U) /\ q \in U
    BY <1>6
  <2> HIDE DEF U
  <2>3. Append(D, q) = D \o << q >>
    BY <2>2
  <2>4. LinesOf(T) = D \o LinesOf(w)
    <3>1. LinesOf(text) = D \o LinesOf(q)
      BY <1>6, <2>1, <2>3
    <3>2. \A e \in Seq(Symbol) : LinesOf(text \o e) = D \o LinesOf(q \o e)
      BY <1>3, <2>1, <3>1, LinesConcat
    <3> QED
      BY <3>2
  <2> HIDE DEF w
  <2> QED
    BY <1>7, <2>4, LineAlone
<1> HIDE DEF T, w, S, q
<1>9. Complete(T) = D /\ Partial(T) = w
  <2>1. D \o << w >> = Append(D, w)
    BY <1>7
  <2>2. Front(Append(D, w)) = D /\ Last(Append(D, w)) = w
    BY <1>7, FrontLast
  <2> QED
    BY <1>8, <2>1, <2>2 DEF Complete, Partial
<1>10. text' = T
  BY DEF T
<1>11. ReadInv'
  <2>1. ReadSoFar(D)'
    BY <1>1, <1>2, <1>7, <1>9, <1>10 DEF ReadSoFar
  <2>2. Yielded(D, discarding \/ text = buffer)'
    BY <1>1, <1>4 DEF Yielded, Skipped
  <2> QED
    BY <2>1, <2>2 DEF ReadInv, S
<1>12. BufferInv'
  <2>1. FirstPiece(buffer)' = FirstPiece(buffer)
    BY DEF FirstPiece, SelectInSeq
  <2> QED
    BY <1>2, <2>1 DEF BufferInv
<1>13. Len(buffer') <= Len(text')
  <2>1. Len(T) \in Nat /\ Len(buffer') = 0
    BY <1>2, <1>3, LenProperties
  <2> QED
    BY <1>10, <2>1
<1>14. TextInv' /\ ClosedInv'
  BY <1>2 DEF TextInv, ClosedInv
<1> QED
  BY <1>3, <1>10, <1>11, <1>12, <1>13, <1>14

\* The type invariant after a step, from what the step shows of the buffer.
LEMMA TypeFrom ==
    ASSUME text' \in Seq(Symbol), Len(text') <= TextLimit, Len(buffer') <= Len(text'),
           mode' \in {"unknown", "ndjson", "text"}, BufferInv',
           discarding' \in BOOLEAN, open' \in BOOLEAN, capped' \in BOOLEAN
    PROVE  EventStreamTypeOK'
<1>1. mode' = "ndjson" /\ open' => Len(buffer') <= MaxBytes /\ LineEnd \notin ToSet(buffer')
  <2>1. mode' = "ndjson" /\ open' => buffer' \in Seq(Piece) /\ Len(buffer') <= MaxBytes
    BY DEF BufferInv
  <2> QED
    BY <2>1, PiecesHaveNoEnd
<1>2. (LineEnd \notin ToSet(buffer))' <=> LineEnd \notin ToSet(buffer')
  BY DEF ToSet
<1> QED
  BY <1>1, <1>2 DEF EventStreamTypeOK, Symbol

\* Every chunk keeps the invariant.
LEMMA ReadChunkKeeps ==
    ASSUME NEW chunk \in Seq(Symbol), StreamInv, Len(text) + Len(chunk) <= TextLimit,
           ReadChunk(chunk)
    PROVE  StreamInv'
<1> DEFINE t == buffer \o Incoming(chunk)
<1>1. open /\ text' = text \o chunk
  BY DEF ReadChunk
<1>2. /\ text \in Seq(Symbol) /\ mode \in {"unknown", "ndjson", "text"}
      /\ discarding \in BOOLEAN /\ open \in BOOLEAN /\ capped \in BOOLEAN
  BY StreamTypes
<1>3. Len(text') <= TextLimit
  <2>1. Len(text \o chunk) = Len(text) + Len(chunk)
    BY <1>2
  <2> QED
    BY <1>1, <2>1
<1>4. CASE StillDiscarding(chunk)
  <2>1. UNCHANGED <<mode, buffer, discarding, out, open, capped>>
    BY <1>4 DEF ReadChunk
  <2>2. /\ BufferInv' /\ ReadInv' /\ TextInv' /\ ClosedInv'
        /\ Len(buffer') <= Len(text') /\ text' \in Seq(Symbol)
    BY <1>1, <1>4, <2>1, DiscardKeeps
  <2>3. EventStreamTypeOK'
    BY <1>2, <1>3, <2>1, <2>2, TypeFrom
  <2> QED
    BY <2>2, <2>3 DEF StreamInv
<1>5. CASE ~StillDiscarding(chunk)
  <2>1. /\ mode' = ModeFor(t)
        /\ \/ mode' = "unknown" /\ Hold(t)
           \/ mode' = "text" /\ PassOn(t)
           \/ mode' = "ndjson" /\ Decode(t)
    BY <1>5 DEF ReadChunk
  <2>2. CASE mode' = "text" /\ PassOn(t)
    <3>1. BufferInv' /\ TextInv' /\ Len(buffer') <= Len(text') /\ text' \in Seq(Symbol)
      BY <1>1, <1>5, <2>1, <2>2, PassOnKeeps
    <3>2. discarding' = FALSE /\ open' = open /\ capped' = capped
      BY <2>2 DEF PassOn
    <3>3. EventStreamTypeOK'
      BY <1>2, <1>3, <2>2, <3>1, <3>2, TypeFrom
    <3>4. ReadInv' /\ ClosedInv'
      BY <2>2 DEF ReadInv, ClosedInv
    <3> QED
      BY <3>1, <3>3, <3>4 DEF StreamInv
  <2>a. mode' # "text" => mode # "text"
    <3> SUFFICES ASSUME mode = "text" PROVE mode' = "text"
      OBVIOUS
    <3>1. ModeFor(t) = mode
      BY DEF ModeFor
    <3> QED
      BY <2>1, <3>1
  <2>4. CASE mode' = "unknown" /\ Hold(t)
    <3>1. BufferInv' /\ ReadInv' /\ Len(buffer') <= Len(text') /\ text' \in Seq(Symbol)
      BY <1>1, <1>5, <2>1, <2>4, <2>a, HoldKeeps
    <3>2. discarding' \in BOOLEAN /\ open' = open /\ capped' = capped
      BY <2>4 DEF Hold
    <3>3. EventStreamTypeOK'
      BY <1>2, <1>3, <2>4, <3>1, <3>2, TypeFrom
    <3>4. TextInv' /\ ClosedInv'
      BY <2>4 DEF TextInv, ClosedInv
    <3> QED
      BY <3>1, <3>3, <3>4 DEF StreamInv
  <2>5. CASE mode' = "ndjson" /\ Decode(t)
    <3>1. /\ BufferInv' /\ ReadInv' /\ ClosedInv'
          /\ Len(buffer') <= Len(text') /\ text' \in Seq(Symbol)
          /\ open' \in BOOLEAN /\ capped' \in BOOLEAN /\ discarding' \in BOOLEAN
      BY <1>1, <1>5, <2>1, <2>5, <2>a, DecodeKeeps
    <3>2. EventStreamTypeOK'
      BY <1>3, <2>5, <3>1, TypeFrom
    <3>3. TextInv'
      BY <2>5 DEF TextInv
    <3> QED
      BY <3>1, <3>2, <3>3 DEF StreamInv
  <2> QED
    BY <2>1, <2>2, <2>4, <2>5
<1> QED
  BY <1>4, <1>5

\* What a reader that has stopped leaves.
LEMMA StoppedKeeps ==
    ASSUME text' \in Seq(Symbol), Len(text') <= TextLimit, ~open', open' \in BOOLEAN,
           buffer' = <<>>, discarding' = FALSE, capped' \in BOOLEAN,
           mode' \in {"unknown", "ndjson", "text"}, TextInv', ClosedInv'
    PROVE  StreamInv'
<1>1. <<>> \in Seq(Symbol) /\ Len(<<>>) = 0 /\ Len(text') \in Nat
  BY LenProperties
<1>2. BufferInv'
  BY <1>1 DEF BufferInv
<1>a. Len(buffer') <= Len(text')
  BY <1>1
<1>3. EventStreamTypeOK'
  BY <1>2, <1>a, TypeFrom
<1>4. ReadInv'
  BY DEF ReadInv
<1> QED
  BY <1>2, <1>3, <1>4 DEF StreamInv

\* The end of the response keeps the invariant.
LEMMA EndReadKeeps == ASSUME StreamInv, EndRead PROVE StreamInv'
<1> DEFINE b == Append(buffer, LineEnd)
           ended == ModeFor(b)
<1>1. /\ open /\ ~open' /\ open' \in BOOLEAN /\ buffer' = <<>> /\ discarding' = FALSE
      /\ text' = text /\ capped' = capped
      /\ mode' = IF discarding \/ FirstPiece(buffer) = 0 THEN mode ELSE ended
      /\ out' = IF discarding THEN Append(out, Done)
                ELSE IF ended # "text" /\ HasFinal(LastGiven(ended)) THEN out \o LastGiven(ended)
                ELSE Append(out \o LastGiven(ended), Done)
  BY DEF EndRead
<1>2. /\ text \in Seq(Symbol) /\ buffer \in Seq(Symbol)
      /\ mode \in {"unknown", "ndjson", "text"}
      /\ discarding \in BOOLEAN /\ capped \in BOOLEAN /\ Len(text) <= TextLimit
  BY StreamTypes DEF StreamInv, EventStreamTypeOK
<1>3. b \in Seq(Symbol)
  <2>1. LineEnd \in Symbol
    BY DEF Symbol
  <2> QED
    BY <1>2, <2>1, AppendProperties
<1>4. /\ ended \in {"unknown", "ndjson", "text"} /\ (mode # "unknown" => ended = mode)
      /\ ended = "text" /\ mode # "text" => mode = "unknown"
  BY <1>2, <1>3, ModeFacts
<1> HIDE DEF ended, b
<1>5. mode' \in {"unknown", "ndjson", "text"} /\ (mode = "text" => mode' = "text")
  BY <1>1, <1>2, <1>4
<1>6. ClosedInv'
  <2>1. ASSUME mode' = "ndjson", ~capped'
        PROVE  /\ Begins(out', EventsOf(LinesOf(text)), Event, Ends)
               /\ out' # <<>> /\ Last(out') = Done =>
                     Front(out') = EventsOf(LinesOf(text)) /\ ~HasFinal(Front(out'))
    BY <1>5, <2>1, EndCloses
  <2> QED
    BY <1>1, <2>1 DEF ClosedInv, Begins, Front, Last, HasFinal
<1>7. TextInv'
  <2>1. ASSUME mode' = "text"
        PROVE  /\ Complete(text) # <<>> => LinesOf(text)[1] \notin Record
               /\ ~Oversized(LinesOf(text)[1]) => out' = Append(text, Done)
    <3>1. CASE mode = "text"
      <4>1. buffer = <<>> /\ ~discarding /\ ended = "text"
        BY <1>1, <1>4, <3>1 DEF StreamInv, BufferInv
      <4>2. out' = Append(out \o <<>>, Done)
        BY <1>1, <4>1 DEF LastGiven
      <4>3. ~Oversized(LinesOf(text)[1]) => out = text
        BY <1>1, <3>1 DEF StreamInv, TextInv
      <4>4. text \o <<>> = text
        BY <1>2
      <4>5. Complete(text) # <<>> => LinesOf(text)[1] \notin Record
        BY <3>1 DEF StreamInv, TextInv
      <4> QED
        BY <4>2, <4>3, <4>4, <4>5
    <3>2. CASE mode # "text"
      <4>1. mode = "unknown" /\ ~discarding /\ FirstPiece(buffer) # 0 /\ ended = "text"
        BY <1>1, <1>4, <2>1, <3>2
      <4>2. out' = Append(out \o buffer, Done)
        BY <1>1, <4>1 DEF LastGiven
      <4>3. /\ Complete(text) # <<>> => LinesOf(text)[1] \notin Record
            /\ out = <<>> /\ (~Oversized(LinesOf(text)[1]) => text = buffer)
        BY <1>1, <4>1, EndText
      <4>4. <<>> \o buffer = buffer
        BY <1>2
      <4> QED
        BY <4>2, <4>3, <4>4
    <3> QED
      BY <3>1, <3>2
  <2>2. Begins(Append(text, Done), text, Symbol, Ends)
    <3>1. <<>> \in Seq(Symbol) /\ text \o <<>> = text
      BY <1>2
    <3>2. Begins(Append(text, Done), text \o <<>>, Symbol, Ends)
      BY <1>2, <3>1, EndBegins
    <3> QED
      BY <3>1, <3>2
  <2> QED
    BY <1>1, <2>1, <2>2 DEF TextInv, Begins
<1> QED
  BY <1>1, <1>2, <1>5, <1>6, <1>7, StoppedKeeps

\* A read that throws keeps the invariant.
LEMMA ReadThrowsKeeps == ASSUME StreamInv, ReadThrows PROVE StreamInv'
<1>1. /\ open /\ open' = FALSE /\ out' \in {out, Append(out, Failure)}
      /\ text' = text /\ mode' = mode /\ buffer' = buffer /\ discarding' = discarding
      /\ capped' = capped
  BY DEF ReadThrows
<1>2. EventStreamTypeOK'
  BY <1>1 DEF StreamInv, EventStreamTypeOK
<1>3. BufferInv' /\ ReadInv'
  BY <1>1 DEF StreamInv, BufferInv, ReadInv
<1>4. ASSUME NEW S, NEW v \in Seq(S), out \in Seq(S)
      PROVE  Begins(out', out \o v, S, Stops)
  BY <1>1, <1>4, EndBegins
<1>5. ClosedInv'
  <2>1. ASSUME mode = "ndjson", ~capped
        PROVE  Begins(out', EventsOf(LinesOf(text)), Event, Stops)
    <3>1. out \in Seq(Event)
      BY <1>1, <2>1, OpenReads
    <3>2. PICK v \in Seq(Event) : EventsOf(LinesOf(text)) = out \o v
      BY <1>1, <2>1, OpenBegins
    <3>3. Begins(out', out \o v, Event, Stops)
      BY <1>4, <3>1, <3>2
    <3> QED
      BY <3>2, <3>3
  <2>2. ASSUME mode' = "ndjson", ~capped'
        PROVE  /\ Begins(out', EventsOf(LinesOf(text)), Event, Ends)
               /\ ~(out' # <<>> /\ Last(out') = Done)
    BY <1>1, <2>1, <2>2, StoppedCloses
  <2> QED
    BY <1>1, <2>2 DEF ClosedInv, Begins, Last
<1>6. TextInv'
  <2>1. ASSUME mode = "text", ~Oversized(LinesOf(text)[1])
        PROVE  Begins(out', text, Symbol, Ends)
    <3>1. out = text /\ text \in Seq(Symbol) /\ <<>> \in Seq(Symbol)
      BY <1>1, <2>1, StreamTypes DEF StreamInv, TextInv
    <3>2. text \o <<>> = text
      BY <3>1
    <3>3. Begins(out', text \o <<>>, Symbol, Stops)
      BY <1>4, <3>1
    <3> QED
      BY <3>2, <3>3 DEF Begins, Ends
  <2> QED
    BY <1>1, <2>1 DEF StreamInv, TextInv, Begins
<1> QED
  BY <1>2, <1>3, <1>5, <1>6 DEF StreamInv

\* A reader that stops in the middle of a chunk keeps the invariant.
LEMMA ChunkStopsKeeps ==
    ASSUME NEW chunk \in Seq(Symbol), StreamInv, Len(text) + Len(chunk) <= TextLimit,
           ChunkStops(chunk)
    PROVE  StreamInv'
<1> DEFINE t == buffer \o Incoming(chunk)
           T == text \o chunk
<1>1. /\ ~StillDiscarding(chunk) /\ text' = T /\ mode' = ModeFor(t)
      /\ \/ mode' = "text" /\ StopsIn(t) /\ UNCHANGED capped
         \/ /\ mode' = "ndjson" /\ StopsIn(UpToFinal(Decoded(t)))
            /\ capped' = (capped \/ Len(Complete(t)) > MaxRecords)
  BY DEF ChunkStops
<1>2. /\ open /\ ~open' /\ open' \in BOOLEAN /\ buffer' = <<>> /\ discarding' = FALSE
      /\ mode' \in {"unknown", "ndjson", "text"}
  BY <1>1 DEF StopsIn
<1>3. /\ text \in Seq(Symbol) /\ mode \in {"unknown", "ndjson", "text"} /\ capped \in BOOLEAN
      /\ T \in Seq(Symbol) /\ Len(T) <= TextLimit
  BY StreamTypes
<1>4. capped' \in BOOLEAN
  BY <1>1, <1>3
<1>5. CASE mode' = "text" /\ StopsIn(t) /\ UNCHANGED capped
  <2>1. ShowsText(T, t)
    BY <1>1, <1>2, <1>5, TextGrows
  <2> HIDE DEF t, T
  <2>2. ASSUME ~Oversized(LinesOf(T)[1]) PROVE Begins(out', T, Symbol, Ends)
    <3>1. out \o t = T /\ out \in Seq(Symbol) /\ t \in Seq(Symbol) /\ <<>> \in Seq(Symbol)
      BY <2>1, <2>2 DEF ShowsText
    <3>2. Begins(out', (out \o t) \o <<>>, Symbol, Stops)
      BY <1>5, <3>1, StopsBegins
    <3>3. T \o <<>> = T
      BY <1>3
    <3> QED
      BY <3>1, <3>2, <3>3 DEF Begins, Ends
  <2>3. TextInv'
    BY <1>1, <1>2, <2>1, <2>2 DEF TextInv, ShowsText, Begins
  <2>4. ClosedInv'
    BY <1>5 DEF ClosedInv
  <2> QED
    BY <1>1, <1>2, <1>3, <1>4, <2>3, <2>4, StoppedKeeps
<1>6. CASE /\ mode' = "ndjson" /\ StopsIn(UpToFinal(Decoded(t)))
           /\ capped' = (capped \/ Len(Complete(t)) > MaxRecords)
  <2>1. mode # "text"
    <3>1. mode = "text" => ModeFor(t) = "text"
      BY DEF ModeFor
    <3> QED
      BY <1>1, <1>6, <3>1
  <2>2. ASSUME ~capped' PROVE Begins(out', EventsOf(LinesOf(T)), Event, Stops)
    <3>1. ~capped /\ ~(Len(Complete(t)) > MaxRecords)
      BY <1>6, <2>2, Zenon
    <3>2. /\ out \in Seq(Event) /\ Decoded(t) \in Seq(Event)
          /\ \E v \in Seq(Event) : EventsOf(LinesOf(T)) = (out \o Decoded(t)) \o v
      BY <1>1, <1>2, <2>1, <3>1, DecodeGiven
    <3> HIDE DEF t, T
    <3>3. PICK v \in Seq(Event) : EventsOf(LinesOf(T)) = (out \o Decoded(t)) \o v
      BY <3>2
    <3> DEFINE u == UpToFinal(Decoded(t))
    <3>4. u \in Seq(Event) /\ \E x \in Seq(Event) : Decoded(t) = u \o x
      BY <3>2, FinalFacts, UpToFinalBegins
    <3>5. PICK x \in Seq(Event) : Decoded(t) = u \o x
      BY <3>4
    <3>6. StopsIn(u)
      BY <1>6
    <3> HIDE DEF u
    <3> DEFINE r == x \o v
    <3>7. r \in Seq(Event) /\ EventsOf(LinesOf(T)) = (out \o u) \o r
      <4>a. out \in Seq(Event) /\ u \in Seq(Event) /\ x \in Seq(Event) /\ v \in Seq(Event)
        BY <3>2, <3>3, <3>4, <3>5
      <4>1. out \o (u \o x) = (out \o u) \o x /\ out \o u \in Seq(Event)
        BY <4>a, ConcatThree, SMTT(20)
      <4> DEFINE z == out \o u
      <4>b. z \in Seq(Event)
        BY <4>1
      <4> HIDE DEF z
      <4>2. (z \o x) \o v = z \o (x \o v)
        BY <4>a, <4>b, SMTT(30)
      <4> QED
        BY <3>3, <3>5, <4>1, <4>2 DEF z
    <3> HIDE DEF r
    <3>8. Begins(out', (out \o u) \o r, Event, Stops)
      BY <3>2, <3>4, <3>6, <3>7, StopsBegins
    <3> QED
      BY <3>7, <3>8
  <2> HIDE DEF T
  <2>3. ClosedInv'
    <3>1. ASSUME ~capped'
          PROVE  /\ Begins(out', EventsOf(LinesOf(T)), Event, Ends)
                 /\ ~(out' # <<>> /\ Last(out') = Done)
      BY <2>2, <3>1, StoppedCloses
    <3> QED
      BY <1>1, <3>1 DEF ClosedInv, Begins, Last
  <2>4. TextInv'
    BY <1>6 DEF TextInv
  <2> QED
    BY <1>1, <1>2, <1>3, <1>4, <2>3, <2>4, StoppedKeeps
<1> QED
  BY <1>1, <1>5, <1>6

\* A reader that stops in the middle of the last line keeps the invariant.
LEMMA EndStopsKeeps == ASSUME StreamInv, EndStops PROVE StreamInv'
<1> DEFINE b == Append(buffer, LineEnd)
<1>1. /\ ~discarding /\ FirstPiece(buffer) # 0 /\ mode' = ModeFor(b)
      /\ StopsIn(LastGiven(mode')) /\ text' = text /\ capped' = capped
  BY DEF EndStops
<1>2. /\ open /\ ~open' /\ open' \in BOOLEAN /\ buffer' = <<>> /\ discarding' = FALSE
  BY <1>1 DEF StopsIn
<1>3. /\ text \in Seq(Symbol) /\ buffer \in Seq(Symbol)
      /\ mode \in {"unknown", "ndjson", "text"}
      /\ capped \in BOOLEAN /\ Len(text) <= TextLimit
  BY StreamTypes DEF StreamInv, EventStreamTypeOK
<1>4. b \in Seq(Symbol)
  <2>1. LineEnd \in Symbol
    BY DEF Symbol
  <2> QED
    BY <1>3, <2>1, AppendProperties
<1>5. /\ mode' \in {"unknown", "ndjson", "text"} /\ (mode # "unknown" => mode' = mode)
      /\ mode' = "text" /\ mode # "text" => mode = "unknown"
  BY <1>1, <1>3, <1>4, ModeFacts
<1>a. mode # "text"
  <2> SUFFICES ASSUME mode = "text" PROVE FALSE
    OBVIOUS
  <2>1. buffer = <<>>
    BY <1>2 DEF StreamInv, BufferInv
  <2> QED
    BY <1>1, <1>3, <2>1, FirstPieceFacts
<1>6. ClosedInv'
  <2>1. ASSUME mode' = "ndjson", ~capped'
        PROVE  Begins(out', EventsOf(LinesOf(text)), Event, Stops)
    <3> DEFINE E == EventsOf(LinesOf(buffer))
               u == UpToFinal(E)
    <3>1. /\ out \in Seq(Event) /\ E \in Seq(Event)
          /\ LastGiven("ndjson") = u /\ EventsOf(LinesOf(text)) = out \o E
      BY <1>1, <1>2, <1>a, <2>1, EndGiven
    <3> HIDE DEF E
    <3>2. u \in Seq(Event) /\ \E v \in Seq(Event) : E = u \o v
      BY <3>1, FinalFacts, UpToFinalBegins
    <3>3. PICK v \in Seq(Event) : E = u \o v
      BY <3>2
    <3>4. StopsIn(u)
      BY <1>1, <2>1, <3>1
    <3> HIDE DEF u
    <3>5. Begins(out', (out \o u) \o v, Event, Stops)
      BY <3>1, <3>2, <3>4, StopsBegins
    <3>a. out \in Seq(Event) /\ u \in Seq(Event) /\ v \in Seq(Event)
      BY <3>1, <3>2, <3>3
    <3>6. out \o (u \o v) = (out \o u) \o v
      BY <3>a, ConcatThree
    <3> QED
      BY <3>1, <3>3, <3>5, <3>6
  <2>2. ASSUME mode' = "ndjson", ~capped'
        PROVE  /\ Begins(out', EventsOf(LinesOf(text)), Event, Ends)
               /\ ~(out' # <<>> /\ Last(out') = Done)
    BY <1>1, <2>1, <2>2, StoppedCloses
  <2> QED
    BY <1>1, <2>2 DEF ClosedInv, Begins, Last
<1>7. TextInv'
  <2>1. ASSUME mode' = "text"
        PROVE  /\ Complete(text) # <<>> => LinesOf(text)[1] \notin Record
               /\ ~Oversized(LinesOf(text)[1]) => Begins(out', text, Symbol, Ends)
    <3>1. /\ Complete(text) # <<>> => LinesOf(text)[1] \notin Record
          /\ out = <<>> /\ (~Oversized(LinesOf(text)[1]) => text = buffer)
      BY <1>1, <1>2, <1>5, <1>a, <2>1, EndText
    <3>2. StopsIn(buffer)
      BY <1>1, <2>1 DEF LastGiven
    <3>3. <<>> \in Seq(Symbol) /\ (out \o buffer) \o <<>> = buffer /\ out \in Seq(Symbol)
      BY <1>3, <3>1
    <3>4. Begins(out', (out \o buffer) \o <<>>, Symbol, Stops)
      BY <1>3, <3>2, <3>3, StopsBegins
    <3>5. Begins(out', buffer, Symbol, Ends)
      BY <3>3, <3>4 DEF Begins, Ends
    <3> QED
      BY <3>1, <3>5
  <2> QED
    BY <1>1, <1>2, <2>1 DEF TextInv, Begins
<1> QED
  BY <1>1, <1>2, <1>3, <1>5, <1>6, <1>7, StoppedKeeps

\* Every step keeps the invariant.
LEMMA StreamStep == StreamInv /\ [EventStreamNext]_eventStreamVars => StreamInv'
<1> SUFFICES ASSUME StreamInv, [EventStreamNext]_eventStreamVars PROVE StreamInv'
  OBVIOUS
<1>1. CASE \E chunk \in SeqOf(Piece \union {LineEnd}, ChunkLimit) :
              /\ chunk # <<>> /\ Len(text) + Len(chunk) <= TextLimit
              /\ ReadChunk(chunk) \/ ChunkStops(chunk)
  <2>1. PICK chunk \in SeqOf(Piece \union {LineEnd}, ChunkLimit) :
            /\ Len(text) + Len(chunk) <= TextLimit
            /\ ReadChunk(chunk) \/ ChunkStops(chunk)
    BY <1>1
  <2>2. chunk \in Seq(Symbol)
    BY <2>1, EventLimitAssumption DEF SeqOf, Symbol
  <2> QED
    BY <2>1, <2>2, ReadChunkKeeps, ChunkStopsKeeps
<1>2. CASE EndRead
  BY <1>2, EndReadKeeps
<1>3. CASE ReadThrows
  BY <1>3, ReadThrowsKeeps
<1>a. CASE EndStops
  BY <1>a, EndStopsKeeps
<1>4. CASE UNCHANGED eventStreamVars
  <2>1. /\ text' = text /\ mode' = mode /\ buffer' = buffer /\ discarding' = discarding
        /\ out' = out /\ open' = open /\ capped' = capped
    BY <1>4 DEF eventStreamVars
  <2>2. EventStreamTypeOK'
    BY <2>1 DEF StreamInv, EventStreamTypeOK
  <2>3. BufferInv'
    BY <2>1 DEF StreamInv, BufferInv, FirstPiece, SelectInSeq
  <2>4. ReadInv'
    BY <2>1 DEF StreamInv, ReadInv, ReadSoFar, Yielded, HasFinal
  <2>5. TextInv' /\ ClosedInv'
    BY <2>1 DEF StreamInv, TextInv, ClosedInv, Begins, Front, Last, HasFinal
  <2> QED
    BY <2>2, <2>3, <2>4, <2>5 DEF StreamInv
<1> QED
  BY <1>1, <1>2, <1>3, <1>a, <1>4 DEF EventStreamNext

\* The invariant always holds.
LEMMA StreamAlways == EventStreamSpec => []StreamInv
  BY StreamInitially, StreamStep, PTL DEF EventStreamSpec

\* Every variable of the reader keeps its type, for any chunks and limits.
THEOREM EventStreamTypeCorrect == EventStreamSpec => []EventStreamTypeOK
<1>1. StreamInv => EventStreamTypeOK
  BY DEF StreamInv
<1> QED
  BY <1>1, StreamAlways, PTL

\* A reader of records yields the events of the complete lines, those too long left out, up
\* to the first final one, however the network cuts the text; one that stops, wherever it
\* does, has yielded the first of them; and an answer that it ends itself had no final
\* event (decodeAskEvents, ask.ts 32-66, and the loop of createAskAdapter).
THEOREM CutsMakeNoDifference == EventStreamSpec => []ChunksMakeNoDifference
<1>1. ASSUME StreamInv PROVE ChunksMakeNoDifference
  <2> SUFFICES ASSUME mode = "ndjson", ~capped
               PROVE  /\ open => out = EventsOf(Complete(text)) /\ ~HasFinal(out)
                      /\ ~open => IsPrefix(Shown, EventsOf(LinesOf(text)))
                      /\ out # <<>> /\ Last(out) = Done =>
                            Front(out) = EventsOf(LinesOf(text)) /\ ~HasFinal(Front(out))
    BY DEF ChunksMakeNoDifference
  <2>1. CASE ~open
    BY <1>1, <2>1, BeginsIsShown DEF StreamInv, ClosedInv
  <2>2. CASE open
    <3>1. out = EventsOf(Complete(text)) /\ ~HasFinal(out) /\ out \in Seq(Event)
      BY <1>1, <2>2, OpenReads
    <3>2. ~(out # <<>> /\ Last(out) = Done)
      <4> SUFFICES ASSUME out # <<>>, Last(out) = Done PROVE FALSE
        OBVIOUS
      <4>1. Len(out) \in Nat /\ Len(out) >= 1
        BY <3>1, EmptySeq, LenProperties
      <4>2. Last(out) \in Event
        BY <3>1, <4>1 DEF Last
      <4> QED
        BY <4>2, EventsAreNotDone
    <3> QED
      BY <2>2, <3>1, <3>2
  <2> QED
    BY <2>1, <2>2
<1> QED
  BY <1>1, StreamAlways, PTL

\* However the text is cut, an answer that begins with a record is not shown as it came,
\* and other text is shown piece by piece until the reader stops, unless its first line is
\* too long (createAskAdapter).
THEOREM OtherTextIsShown == EventStreamSpec => []TextIsShown
<1>1. ASSUME StreamInv PROVE TextIsShown
  <2>1. Head(LinesOf(text)) = LinesOf(text)[1]
    <3> DEFINE ls == LinesOf(text)
               S == Seq(Piece)
    <3>1. ls \in Seq(S) /\ ls # <<>>
      BY <1>1, StreamTypes, LinesType DEF Lines
    <3> HIDE DEF ls, S
    <3>2. Head(ls) = ls[1]
      BY <3>1
    <3> QED
      BY <3>2 DEF ls
  <2>2. mode = "text" /\ ~open /\ ~Oversized(LinesOf(text)[1]) => IsPrefix(Shown, text)
    BY <1>1, BeginsIsShown DEF StreamInv, TextInv
  <2> QED
    BY <1>1, <2>1, <2>2 DEF StreamInv, TextInv, TextIsShown
<1> QED
  BY <1>1, StreamAlways, PTL

-----------------------------------------------------------------------------
(* The stream of a turn *)

\* The lines of the session increase, the client shows one of them, and neither what
\* waits to be sent nor what is being persisted has been overtaken.
OrderInv ==
    /\ \A j, k \in DOMAIN lines : j < k => /\ lines[j].sequence < lines[k].sequence
                                           /\ lines[j].version < lines[k].version
    /\ \A k \in DOMAIN lines : /\ lines[k].sequence <= storeCursor
                               /\ lines[k].version <= version
                               /\ pending # 0 => lines[k].version < pending
                               /\ stage = "persisting" => lines[k].version < taken
    /\ stage = "persisting" /\ pending # 0 => taken < pending
    /\ \/ shown = [sequence |-> 0, version |-> 0]
       \/ \E k \in DOMAIN lines : shown = lines[k]

\* What was taken last has been sent.
LastSent == taken # 0 => lines # <<>> /\ lines[Len(lines)].version = taken

\* The cleanup begins once: by the end of send when everything is sent, or with a
\* response that is aborted, cancelled or diagnosed.
EndInv ==
    /\ aborted => cleanup # "none"
    /\ cleanup = "none" =>
          /\ pending \in {0, version}
          /\ pending = 0 /\ taken # 0 => taken = version
          /\ stage # "persisting" /\ ending = "none" => LastSent
    /\ cleanup # "none" /\ ending = "none" => aborted \/ stage \in {"finishing", "closed"}
    /\ stage = "closing" => ending # "none"
    /\ stage = "finishing" /\ ending = "none" =>
          /\ cleanup # "none" /\ sendOver /\ LastSent
          /\ taken # 0 => taken = version
          /\ cleanup = "over" => transcript = version /\ ~leased
    /\ ending = "complete" =>
          /\ stage = "closed" /\ cleanup = "over" /\ sendOver
          /\ transcript = version /\ ~leased /\ LastSent
          /\ taken # 0 => taken = version

TurnStreamInv == TurnStreamTypeOK /\ OrderInv /\ EndInv

\* The numbers of a state.
Counts ==
    /\ storeCursor \in Nat /\ ownCursor \in Nat /\ ownCursor <= storeCursor
    /\ version \in Nat /\ version <= MaxStates
    /\ pending \in Nat /\ pending <= version /\ transcript \in Nat /\ transcript <= version
    /\ taken \in Nat /\ taken <= version

\* The variables with a few values.
Modes ==
    /\ sendOver \in BOOLEAN /\ aborted \in BOOLEAN /\ leased \in BOOLEAN
    /\ unread \in BOOLEAN /\ cleanup \in {"none", "running", "over"}
    /\ stage \in {"idle", "checking", "asleep", "persisting", "finishing", "closing", "closed"}
    /\ ending \in {"none", "complete", "diagnosed", "cancelled", "broken"}

\* The lines and the client's cursor, in a form for arithmetic.
LineFacts ==
    /\ Len(lines) \in Nat /\ DOMAIN lines = 1 .. Len(lines)
    /\ \A k \in DOMAIN lines : k \in Nat /\ lines[k].sequence \in Nat /\ lines[k].version \in Nat
    /\ shown.sequence \in Nat /\ shown.version \in Nat

\* The type invariant is its parts, in a state and in the next one.
LEMMA TypeByParts ==
    Counts /\ Modes /\ turns \in 0 .. MaxTurns /\ lines \in Seq(Line) /\ shown \in Line
    => TurnStreamTypeOK
  BY TurnStreamBoundAssumption DEF Counts, Modes, TurnStreamTypeOK

LEMMA NextTypeByParts ==
    Counts' /\ Modes' /\ turns' \in 0 .. MaxTurns /\ lines' \in Seq(Line) /\ shown' \in Line
    => TurnStreamTypeOK'
  BY TurnStreamBoundAssumption DEF Counts, Modes, TurnStreamTypeOK

\* What the type invariant says of numbers.
LEMMA Numbers == ASSUME TurnStreamTypeOK PROVE Counts /\ LineFacts
<1>1. Counts
  BY TurnStreamBoundAssumption DEF TurnStreamTypeOK, Counts
<1>2. lines \in Seq(Line) /\ shown \in Line
  BY DEF TurnStreamTypeOK
<1>3. Len(lines) \in Nat /\ DOMAIN lines = 1 .. Len(lines)
  BY <1>2
<1>4. \A k \in DOMAIN lines : k \in Nat /\ lines[k] \in Line
  BY <1>2
<1> QED
  BY <1>1, <1>2, <1>3, <1>4 DEF LineFacts, Line

\* Types are kept.
LEMMA TurnStreamTypeStep ==
  ASSUME TurnStreamTypeOK, [TurnStreamNext]_turnStreamVars
  PROVE  TurnStreamTypeOK'
<1> USE TurnStreamBoundAssumption DEF Counts, cursorVars, controllerVars, cleanupVars,
       streamVars, clientVars
<1>0. Counts /\ lines \in Seq(Line) /\ shown \in Line
  BY Numbers DEF TurnStreamTypeOK
<1>1. ASSUME BeginTurn PROVE TurnStreamTypeOK'
  <2>1. Counts' /\ turns' \in 0 .. MaxTurns
    BY <1>0, <1>1 DEF TurnStreamTypeOK, BeginTurn
  <2>2. lines' \in Seq(Line) /\ shown' \in Line
    BY <1>0, <1>1 DEF BeginTurn, clientVars
  <2>3. Modes'
    BY <1>1 DEF TurnStreamTypeOK, Modes, BeginTurn
  <2> QED
    BY <2>1, <2>2, <2>3, NextTypeByParts
<1>2. ASSUME ControllerChanges PROVE TurnStreamTypeOK'
  <2>1. Counts' /\ turns' \in 0 .. MaxTurns
    BY <1>0, <1>2 DEF TurnStreamTypeOK, ControllerChanges, Push, Notified
  <2>2. lines' \in Seq(Line) /\ shown' \in Line
    BY <1>0, <1>2 DEF ControllerChanges, clientVars
  <2>3. Modes'
    BY <1>2 DEF TurnStreamTypeOK, Modes, ControllerChanges, Push, Notified
  <2> QED
    BY <2>1, <2>2, <2>3, NextTypeByParts
<1>3. ASSUME ControllerChangesUnseen PROVE TurnStreamTypeOK'
  <2>1. Counts' /\ turns' \in 0 .. MaxTurns
    BY <1>0, <1>3 DEF TurnStreamTypeOK, ControllerChangesUnseen
  <2>2. lines' \in Seq(Line) /\ shown' \in Line
    BY <1>0, <1>3 DEF ControllerChangesUnseen, clientVars
  <2>3. Modes'
    BY <1>3 DEF TurnStreamTypeOK, Modes, ControllerChangesUnseen
  <2> QED
    BY <2>1, <2>2, <2>3, NextTypeByParts
<1>4. ASSUME SendSettles PROVE TurnStreamTypeOK'
  <2>1. Counts' /\ turns' \in 0 .. MaxTurns
    BY <1>0, <1>4 DEF TurnStreamTypeOK, SendSettles, WakeAtEnd, Notified
  <2>2. lines' \in Seq(Line) /\ shown' \in Line
    BY <1>0, <1>4 DEF SendSettles, clientVars
  <2>3. Modes'
    BY <1>4 DEF TurnStreamTypeOK, Modes, SendSettles, WakeAtEnd, Notified
  <2> QED
    BY <2>1, <2>2, <2>3, NextTypeByParts
<1>5. ASSUME Abort PROVE TurnStreamTypeOK'
  <2>1. Counts' /\ turns' \in 0 .. MaxTurns
    BY <1>0, <1>5 DEF TurnStreamTypeOK, Abort, Push, Notified
  <2>2. lines' \in Seq(Line) /\ shown' \in Line
    BY <1>0, <1>5 DEF Abort, clientVars
  <2>3. Modes'
    BY <1>5 DEF TurnStreamTypeOK, Modes, Abort, Push, Notified
  <2> QED
    BY <2>1, <2>2, <2>3, NextTypeByParts
<1>6. ASSUME Cancel PROVE TurnStreamTypeOK'
  <2>1. Counts' /\ turns' \in 0 .. MaxTurns
    BY <1>0, <1>6 DEF TurnStreamTypeOK, Cancel, BeginCleanup
  <2>2. lines' \in Seq(Line) /\ shown' \in Line
    BY <1>0, <1>6 DEF Cancel, clientVars
  <2>3. Modes'
    BY <1>6 DEF TurnStreamTypeOK, Modes, Cancel, BeginCleanup
  <2> QED
    BY <2>1, <2>2, <2>3, NextTypeByParts
<1>7. ASSUME CleanupEnds PROVE TurnStreamTypeOK'
  <2>1. Counts' /\ turns' \in 0 .. MaxTurns
    BY <1>0, <1>7 DEF TurnStreamTypeOK, CleanupEnds
  <2>2. lines' \in Seq(Line) /\ shown' \in Line
    BY <1>0, <1>7 DEF CleanupEnds, clientVars
  <2>3. Modes'
    BY <1>7 DEF TurnStreamTypeOK, Modes, CleanupEnds
  <2> QED
    BY <2>1, <2>2, <2>3, NextTypeByParts
<1>8. ASSUME CleanupFails PROVE TurnStreamTypeOK'
  <2>1. Counts' /\ turns' \in 0 .. MaxTurns
    BY <1>0, <1>8 DEF TurnStreamTypeOK, CleanupFails
  <2>2. lines' \in Seq(Line) /\ shown' \in Line
    BY <1>0, <1>8 DEF CleanupFails, clientVars
  <2>3. Modes'
    BY <1>8 DEF TurnStreamTypeOK, Modes, CleanupFails
  <2> QED
    BY <2>1, <2>2, <2>3, NextTypeByParts
<1>9. ASSUME ServerCrash PROVE TurnStreamTypeOK'
  <2>1. Counts' /\ turns' \in 0 .. MaxTurns
    BY <1>0, <1>9 DEF TurnStreamTypeOK, ServerCrash
  <2>2. lines' \in Seq(Line) /\ shown' \in Line
    BY <1>0, <1>9 DEF ServerCrash, clientVars
  <2>3. Modes'
    BY <1>9 DEF TurnStreamTypeOK, Modes, ServerCrash
  <2> QED
    BY <2>1, <2>2, <2>3, NextTypeByParts
<1>10. ASSUME Pull PROVE TurnStreamTypeOK'
  <2>1. Counts' /\ turns' \in 0 .. MaxTurns
    BY <1>0, <1>10 DEF TurnStreamTypeOK, Pull
  <2>2. lines' \in Seq(Line) /\ shown' \in Line
    BY <1>0, <1>10 DEF Pull, clientVars
  <2>3. Modes'
    BY <1>10 DEF TurnStreamTypeOK, Modes, Pull
  <2> QED
    BY <2>1, <2>2, <2>3, NextTypeByParts
<1>11. ASSUME Wait PROVE TurnStreamTypeOK'
  <2>1. Counts' /\ turns' \in 0 .. MaxTurns
    BY <1>0, <1>11 DEF TurnStreamTypeOK, Wait
  <2>2. lines' \in Seq(Line) /\ shown' \in Line
    BY <1>0, <1>11 DEF Wait, clientVars
  <2>3. Modes'
    BY <1>11 DEF TurnStreamTypeOK, Modes, Wait
  <2> QED
    BY <2>1, <2>2, <2>3, NextTypeByParts
<1>12. ASSUME Take PROVE TurnStreamTypeOK'
  <2>1. Counts' /\ turns' \in 0 .. MaxTurns
    BY <1>0, <1>12 DEF TurnStreamTypeOK, Take
  <2>2. lines' \in Seq(Line) /\ shown' \in Line
    BY <1>0, <1>12 DEF Take, clientVars
  <2>3. Modes'
    BY <1>12 DEF TurnStreamTypeOK, Modes, Take
  <2> QED
    BY <2>1, <2>2, <2>3, NextTypeByParts
<1>13. ASSUME CloseNormally PROVE TurnStreamTypeOK'
  <2>1. Counts' /\ turns' \in 0 .. MaxTurns
    BY <1>0, <1>13 DEF TurnStreamTypeOK, CloseNormally, Closing, NothingLeft, BeginCleanup
  <2>2. lines' \in Seq(Line) /\ shown' \in Line
    BY <1>0, <1>13 DEF CloseNormally, clientVars
  <2>3. Modes'
    BY <1>13 DEF TurnStreamTypeOK, Modes, CloseNormally, Closing, NothingLeft, BeginCleanup
  <2> QED
    BY <2>1, <2>2, <2>3, NextTypeByParts
<1>14. ASSUME DiagnoseAbort PROVE TurnStreamTypeOK'
  <2>1. Counts' /\ turns' \in 0 .. MaxTurns
    BY <1>0, <1>14 DEF TurnStreamTypeOK, DiagnoseAbort, Diagnose, Closing, BeginCleanup
  <2>2. lines' \in Seq(Line) /\ shown' \in Line
    BY <1>0, <1>14 DEF DiagnoseAbort, clientVars
  <2>3. Modes'
    BY <1>14 DEF TurnStreamTypeOK, Modes, DiagnoseAbort, Diagnose, Closing, BeginCleanup
  <2> QED
    BY <2>1, <2>2, <2>3, NextTypeByParts
<1>15. ASSUME DiagnoseRefusal PROVE TurnStreamTypeOK'
  <2>1. Counts' /\ turns' \in 0 .. MaxTurns
    BY <1>0, <1>15 DEF TurnStreamTypeOK, DiagnoseRefusal, Diagnose, Closing,
       BeginCleanup, NothingLeft
  <2>2. lines' \in Seq(Line) /\ shown' \in Line
    BY <1>0, <1>15 DEF DiagnoseRefusal, clientVars
  <2>3. Modes'
    BY <1>15 DEF TurnStreamTypeOK, Modes, DiagnoseRefusal, Diagnose, Closing,
       BeginCleanup, NothingLeft
  <2> QED
    BY <2>1, <2>2, <2>3, NextTypeByParts
<1>16. ASSUME Enqueue PROVE TurnStreamTypeOK'
  <2>1. Counts' /\ turns' \in 0 .. MaxTurns
    BY <1>0, <1>16 DEF TurnStreamTypeOK, Enqueue, NextCursor
  <2>2. lines' \in Seq(Line) /\ shown' \in Line
    <3>1. CASE ending = "none"
      <4>1. [sequence |-> ownCursor + 1, version |-> taken] \in Line
        BY <1>0 DEF Line
      <4> QED
        BY <1>0, <1>16, <3>1, <4>1 DEF Enqueue, NextCursor
    <3> QED
      BY <1>0, <1>16, <3>1 DEF Enqueue
  <2>3. Modes'
    BY <1>16 DEF TurnStreamTypeOK, Modes, Enqueue, NextCursor
  <2> QED
    BY <2>1, <2>2, <2>3, NextTypeByParts
<1>17. ASSUME PersistFails PROVE TurnStreamTypeOK'
  <2>1. Counts' /\ turns' \in 0 .. MaxTurns
    BY <1>0, <1>17 DEF TurnStreamTypeOK, PersistFails, Diagnose, Closing, BeginCleanup
  <2>2. lines' \in Seq(Line) /\ shown' \in Line
    BY <1>0, <1>17 DEF PersistFails, clientVars
  <2>3. Modes'
    BY <1>17 DEF TurnStreamTypeOK, Modes, PersistFails, Diagnose, Closing, BeginCleanup
  <2> QED
    BY <2>1, <2>2, <2>3, NextTypeByParts
<1>18. ASSUME CloseStream PROVE TurnStreamTypeOK'
  <2>1. Counts' /\ turns' \in 0 .. MaxTurns
    BY <1>0, <1>18 DEF TurnStreamTypeOK, CloseStream
  <2>2. lines' \in Seq(Line) /\ shown' \in Line
    BY <1>0, <1>18 DEF CloseStream, clientVars
  <2>3. Modes'
    BY <1>18 DEF TurnStreamTypeOK, Modes, CloseStream
  <2> QED
    BY <2>1, <2>2, <2>3, NextTypeByParts
<1>19. ASSUME Read PROVE TurnStreamTypeOK'
  <2>1. Counts' /\ turns' \in 0 .. MaxTurns
    BY <1>0, <1>19 DEF TurnStreamTypeOK, Read
  <2>2. lines' \in Seq(Line) /\ shown' \in Line
    BY <1>0, <1>19 DEF Read, clientVars
  <2>3. Modes'
    BY <1>19 DEF TurnStreamTypeOK, Modes, Read
  <2> QED
    BY <2>1, <2>2, <2>3, NextTypeByParts
<1>20. ASSUME Deliver PROVE TurnStreamTypeOK'
  <2>1. Counts' /\ turns' \in 0 .. MaxTurns
    BY <1>0, <1>20 DEF TurnStreamTypeOK, Deliver, Applies
  <2>2. lines' \in Seq(Line) /\ shown' \in Line
    <3>1. \A k \in DOMAIN lines : lines[k] \in Line
      BY <1>0
    <3> QED
      BY <1>0, <3>1, <1>20 DEF Deliver
  <2>3. Modes'
    BY <1>20 DEF TurnStreamTypeOK, Modes, Deliver, Applies
  <2> QED
    BY <2>1, <2>2, <2>3, NextTypeByParts
<1>21. CASE UNCHANGED turnStreamVars
  <2>1. Counts' /\ Modes' /\ turns' \in 0 .. MaxTurns
    BY <1>0, <1>21 DEF TurnStreamTypeOK, Modes, turnStreamVars
  <2>2. lines' \in Seq(Line) /\ shown' \in Line
    BY <1>0, <1>21 DEF turnStreamVars, clientVars
  <2> QED
    BY <2>1, <2>2, NextTypeByParts
<1> QED
  BY <1>1, <1>2, <1>3, <1>4, <1>5, <1>6, <1>7, <1>8, <1>9, <1>10, <1>11, <1>12,
     <1>13, <1>14, <1>15, <1>16, <1>17, <1>18, <1>19, <1>20, <1>21
  DEF TurnStreamNext, PullStep

\* The order of the lines is kept: a line takes the cursor after all the others and a
\* state that was pushed after theirs.
LEMMA OrderStep ==
  ASSUME TurnStreamTypeOK, OrderInv, [TurnStreamNext]_turnStreamVars
  PROVE  OrderInv'
<1> USE DEF Counts, LineFacts, OrderInv, cursorVars, controllerVars, cleanupVars,
       streamVars, clientVars
<1>0. Counts /\ LineFacts
  BY Numbers
<1>1. ASSUME BeginTurn PROVE OrderInv'
  BY <1>0, <1>1 DEF BeginTurn
<1>2. ASSUME ControllerChanges PROVE OrderInv'
  BY <1>0, <1>2 DEF ControllerChanges, Push, Notified
<1>3. ASSUME ControllerChangesUnseen PROVE OrderInv'
  BY <1>0, <1>3 DEF ControllerChangesUnseen
<1>4. ASSUME SendSettles PROVE OrderInv'
  BY <1>0, <1>4 DEF SendSettles, WakeAtEnd, Notified
<1>5. ASSUME Abort PROVE OrderInv'
  BY <1>0, <1>5 DEF Abort, Push, Notified
<1>6. ASSUME Cancel PROVE OrderInv'
  BY <1>0, <1>6 DEF Cancel, BeginCleanup
<1>7. ASSUME CleanupEnds PROVE OrderInv'
  BY <1>0, <1>7 DEF CleanupEnds
<1>8. ASSUME CleanupFails PROVE OrderInv'
  BY <1>0, <1>8 DEF CleanupFails
<1>9. ASSUME ServerCrash PROVE OrderInv'
  BY <1>0, <1>9 DEF ServerCrash
<1>10. ASSUME Pull PROVE OrderInv'
  BY <1>0, <1>10 DEF Pull
<1>11. ASSUME Wait PROVE OrderInv'
  BY <1>0, <1>11 DEF Wait
<1>12. ASSUME Take PROVE OrderInv'
  BY <1>0, <1>12 DEF Take
<1>13. ASSUME CloseNormally PROVE OrderInv'
  BY <1>0, <1>13 DEF CloseNormally, Closing, NothingLeft, BeginCleanup
<1>14. ASSUME DiagnoseAbort PROVE OrderInv'
  BY <1>0, <1>14 DEF DiagnoseAbort, Diagnose, Closing, BeginCleanup
<1>15. ASSUME DiagnoseRefusal PROVE OrderInv'
  BY <1>0, <1>15 DEF DiagnoseRefusal, Diagnose, Closing, BeginCleanup, NothingLeft
<1>16. ASSUME Enqueue PROVE OrderInv'
  <2>1. CASE ending = "none"
    <3>1. lines' = Append(lines, [sequence |-> ownCursor + 1, version |-> taken])
      BY <1>16, <2>1 DEF Enqueue, NextCursor
    <3>0. lines \in Seq(Line)
      BY DEF TurnStreamTypeOK
    <3>2. /\ DOMAIN lines' = 1 .. Len(lines) + 1 /\ DOMAIN lines = 1 .. Len(lines)
          /\ \A k \in DOMAIN lines : lines'[k] = lines[k]
          /\ lines'[Len(lines) + 1] = [sequence |-> ownCursor + 1, version |-> taken]
          /\ Len(lines) \in Nat
      BY <1>0, <3>1, <3>0
    <3>3. /\ storeCursor' = ownCursor + 1 /\ storeCursor = ownCursor /\ stage' = "idle"
          /\ UNCHANGED <<version, pending, taken, shown>>
          /\ stage = "persisting"
      BY <1>16, <2>1 DEF Enqueue, NextCursor, controllerVars
    <3>5. \A k \in DOMAIN lines' : /\ lines'[k].sequence <= storeCursor'
                                   /\ lines'[k].version <= version'
                                   /\ pending' # 0 => lines'[k].version < pending'
      BY <1>0, <3>2, <3>3
    <3>6. \A j, k \in DOMAIN lines' : j < k => /\ lines'[j].sequence < lines'[k].sequence
                                               /\ lines'[j].version < lines'[k].version
      BY <1>0, <3>2, <3>3
    <3>7. \/ shown' = [sequence |-> 0, version |-> 0]
          \/ \E k \in DOMAIN lines' : shown' = lines'[k]
      BY <3>2, <3>3
    <3> QED
      BY <3>3, <3>5, <3>6, <3>7
  <2>2. CASE ending # "none"
    BY <1>0, <1>16, <2>2 DEF Enqueue, NextCursor, controllerVars
  <2> QED
    BY <2>1, <2>2
<1>17. ASSUME PersistFails PROVE OrderInv'
  BY <1>0, <1>17 DEF PersistFails, Diagnose, Closing, BeginCleanup
<1>18. ASSUME CloseStream PROVE OrderInv'
  BY <1>0, <1>18 DEF CloseStream
<1>19. ASSUME Read PROVE OrderInv'
  BY <1>0, <1>19 DEF Read
<1>20. ASSUME Deliver PROVE OrderInv'
  BY <1>0, <1>20 DEF Deliver, Applies
<1>21. CASE UNCHANGED turnStreamVars
  BY <1>0, <1>21 DEF turnStreamVars
<1> QED
  BY <1>1, <1>2, <1>3, <1>4, <1>5, <1>6, <1>7, <1>8, <1>9, <1>10, <1>11, <1>12,
     <1>13, <1>14, <1>15, <1>16, <1>17, <1>18, <1>19, <1>20, <1>21
  DEF TurnStreamNext, PullStep

\* The latest state is neither lost nor sent without being saved.
LEMMA EndStep ==
  ASSUME TurnStreamTypeOK, EndInv, [TurnStreamNext]_turnStreamVars
  PROVE  EndInv'
<1> USE DEF TurnStreamTypeOK, Line, EndInv, LastSent, cursorVars, controllerVars,
       cleanupVars, streamVars, clientVars
<1>1. ASSUME BeginTurn PROVE EndInv'
  BY <1>1 DEF BeginTurn
<1>2. ASSUME ControllerChanges PROVE EndInv'
  BY <1>2 DEF ControllerChanges, Push, Notified
<1>3. ASSUME ControllerChangesUnseen PROVE EndInv'
  BY <1>3 DEF ControllerChangesUnseen
<1>4. ASSUME SendSettles PROVE EndInv'
  BY <1>4 DEF SendSettles, WakeAtEnd, Notified
<1>5. ASSUME Abort PROVE EndInv'
  BY <1>5 DEF Abort, Push, Notified
<1>6. ASSUME Cancel PROVE EndInv'
  BY <1>6 DEF Cancel, BeginCleanup
<1>7. ASSUME CleanupEnds PROVE EndInv'
  BY <1>7 DEF CleanupEnds
<1>8. ASSUME CleanupFails PROVE EndInv'
  BY <1>8 DEF CleanupFails
<1>9. ASSUME ServerCrash PROVE EndInv'
  BY <1>9 DEF ServerCrash
<1>10. ASSUME Pull PROVE EndInv'
  BY <1>10 DEF Pull
<1>11. ASSUME Wait PROVE EndInv'
  BY <1>11 DEF Wait
<1>12. ASSUME Take PROVE EndInv'
  BY <1>12 DEF Take
<1>13. ASSUME CloseNormally PROVE EndInv'
  BY <1>13 DEF CloseNormally, Closing, NothingLeft, BeginCleanup
<1>14. ASSUME DiagnoseAbort PROVE EndInv'
  BY <1>14 DEF DiagnoseAbort, Diagnose, Closing, BeginCleanup
<1>15. ASSUME DiagnoseRefusal PROVE EndInv'
  BY <1>15 DEF DiagnoseRefusal, Diagnose, Closing, BeginCleanup, NothingLeft
<1>16. ASSUME Enqueue PROVE EndInv'
  BY <1>16 DEF Enqueue, NextCursor
<1>17. ASSUME PersistFails PROVE EndInv'
  BY <1>17 DEF PersistFails, Diagnose, Closing, BeginCleanup
<1>18. ASSUME CloseStream PROVE EndInv'
  BY <1>18 DEF CloseStream
<1>19. ASSUME Read PROVE EndInv'
  BY <1>19 DEF Read
<1>20. ASSUME Deliver PROVE EndInv'
  BY <1>20 DEF Deliver, Applies
<1>21. CASE UNCHANGED turnStreamVars
  BY <1>21 DEF turnStreamVars
<1> QED
  BY <1>1, <1>2, <1>3, <1>4, <1>5, <1>6, <1>7, <1>8, <1>9, <1>10, <1>11, <1>12,
     <1>13, <1>14, <1>15, <1>16, <1>17, <1>18, <1>19, <1>20, <1>21
  DEF TurnStreamNext, PullStep

\* The stream invariant holds in every state.
THEOREM StreamInvariant == TurnStreamSpec => []TurnStreamInv
<1>1. TurnStreamInit => TurnStreamInv
  <2> SUFFICES ASSUME TurnStreamInit PROVE TurnStreamInv
    OBVIOUS
  <2>1. Counts /\ Modes /\ turns \in 0 .. MaxTurns
    <3>1. MaxTurns \in Nat /\ MaxStates \in Nat
      BY TurnStreamBoundAssumption
    <3>2. Counts /\ turns \in 0 .. MaxTurns
      BY <3>1 DEF TurnStreamInit, Counts
    <3>3. Modes
      BY DEF TurnStreamInit, Modes
    <3> QED
      BY <3>2, <3>3
  <2>2. lines \in Seq(Line) /\ shown \in Line /\ DOMAIN lines = {}
    <3>1. lines = <<>> /\ shown = [sequence |-> 0, version |-> 0]
      BY DEF TurnStreamInit
    <3>2. <<>> \in Seq(Line) /\ DOMAIN <<>> = {}
      OBVIOUS
    <3> QED
      BY <3>1, <3>2 DEF Line
  <2>3. OrderInv
    BY <2>2 DEF TurnStreamInit, OrderInv
  <2>4. EndInv
    BY DEF TurnStreamInit, EndInv, LastSent
  <2> QED
    BY <2>1, <2>2, <2>3, <2>4, TypeByParts DEF TurnStreamInv
<1>2. TurnStreamInv /\ [TurnStreamNext]_turnStreamVars => TurnStreamInv'
  BY TurnStreamTypeStep, OrderStep, EndStep DEF TurnStreamInv
<1> QED
  BY <1>1, <1>2, PTL DEF TurnStreamSpec

\* Every variable of the stream and of the client keeps its type.
THEOREM StreamTypeCorrect == TurnStreamSpec => []TurnStreamTypeOK
<1>1. TurnStreamInv => TurnStreamTypeOK
  BY DEF TurnStreamInv
<1> QED
  BY <1>1, StreamInvariant, PTL

\* A response that completes has sent and saved the last state of its controller and
\* has returned the lease: push, pull, the end of send and the cleanup lose nothing
\* between them.
THEOREM CompleteIsWhole == TurnStreamSpec => []CompleteShowsLast
<1>1. TurnStreamInv => CompleteShowsLast
  BY DEF TurnStreamInv, EndInv, LastSent, CompleteShowsLast
<1> QED
  BY <1>1, StreamInvariant, PTL

\* The lines of a session are in the order of its states, and the cursor of the client
\* never goes back to an older one.
THEOREM NeverBackwards == TurnStreamSpec => SnapshotsInOrder
<1> DEFINE Forward == /\ shown.version <= shown'.version
                      /\ \A k \in DOMAIN lines' \ DOMAIN lines :
                            /\ shown.sequence < lines'[k].sequence
                            /\ \A j \in DOMAIN lines :
                                  /\ lines[j].sequence < lines'[k].sequence
                                  /\ lines[j].version < lines'[k].version
<1>1. ASSUME TurnStreamInv, [TurnStreamNext]_turnStreamVars PROVE [Forward]_clientVars
  <2> USE <1>1
  <2>0. Counts /\ LineFacts /\ lines \in Seq(Line) /\ OrderInv
    BY Numbers DEF TurnStreamInv, TurnStreamTypeOK
  <2>1. CASE UNCHANGED clientVars
    BY <2>1 DEF clientVars
  <2>2. CASE Enqueue /\ ending = "none"
    <3>1. /\ lines' = Append(lines, [sequence |-> ownCursor + 1, version |-> taken])
          /\ storeCursor = ownCursor /\ stage = "persisting" /\ shown' = shown
      BY <2>2 DEF Enqueue, NextCursor
    <3>2. /\ DOMAIN lines' \ DOMAIN lines = {Len(lines) + 1}
          /\ lines'[Len(lines) + 1] = [sequence |-> ownCursor + 1, version |-> taken]
      BY <2>0, <3>1 DEF LineFacts
    <3>3. \A j \in DOMAIN lines : /\ lines[j].sequence <= storeCursor
                                  /\ lines[j].version < taken
      BY <2>0, <3>1 DEF OrderInv
    <3>4. shown.sequence <= storeCursor
      BY <2>0, <3>1 DEF OrderInv, Counts
    <3> QED
      BY <2>0, <3>1, <3>2, <3>3, <3>4 DEF Counts, LineFacts
  <2>3. CASE Deliver
    <3>1. PICK k \in DOMAIN lines : shown.sequence < lines[k].sequence /\ shown' = lines[k]
      BY <2>3 DEF Deliver, Applies
    <3>2. lines' = lines
      BY <2>3 DEF Deliver
    <3>3. shown.version <= lines[k].version
      <4>1. CASE shown = [sequence |-> 0, version |-> 0]
        BY <2>0, <4>1 DEF LineFacts
      <4>2. ASSUME NEW j \in DOMAIN lines, shown = lines[j] PROVE shown.version <= lines[k].version
        <5>1. ~(k < j) /\ j # k
          BY <2>0, <3>1, <4>2 DEF OrderInv, LineFacts
        <5> QED
          BY <2>0, <4>2, <5>1 DEF OrderInv, LineFacts
      <4> QED
        BY <2>0, <4>1, <4>2 DEF OrderInv
    <3> QED
      BY <2>0, <3>1, <3>2, <3>3
  <2> QED
    BY <2>1, <2>2, <2>3 DEF TurnStreamNext, PullStep, turnStreamVars, clientVars,
       BeginTurn, ControllerChanges, ControllerChangesUnseen, SendSettles, Abort,
       Cancel, CleanupEnds, CleanupFails, ServerCrash, Pull, Wait, Take, CloseNormally,
       DiagnoseAbort, DiagnoseRefusal, Enqueue, PersistFails, CloseStream, Read
<1> QED
  BY <1>1, StreamInvariant, PTL DEF TurnStreamSpec, SnapshotsInOrder

=============================================================================
