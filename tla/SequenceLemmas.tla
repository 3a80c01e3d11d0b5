--------------------------- MODULE SequenceLemmas ---------------------------
(***************************************************************************)
(* Facts about sequences that the proofs of several components use:        *)
(* induction over the natural numbers and over sequences (from the well-   *)
(* foundedness of < on Nat, with sets in place of predicates), recursive   *)
(* functions along a sequence, and what Within, RemoveAt and Min return.   *)
(***************************************************************************)
EXTENDS Selection, Integers, SequencesExt, SequenceTheorems, WellFoundedInduction, TLAPS

\* Naturals have a least element.
LEMMA LeastNat ==
    ASSUME NEW T, T \subseteq Nat, T # {}
    PROVE  \E n \in T : \A m \in T : n <= m
<1>1. IsWellFoundedOn(OpToRel(<, Nat), Nat)
  BY NatLessThanWellFounded
<1>2. PICK n \in T : \A m \in T : ~ (<<m, n>> \in OpToRel(<, Nat))
  BY <1>1, WFMin
<1>3. \A m \in T : ~ (m < n)
  BY <1>2 DEF OpToRel
<1> QED
  BY <1>3

\* Induction over the natural numbers.
LEMMA NatInductive ==
    ASSUME NEW T, 0 \in T, \A n \in Nat : n \in T => n + 1 \in T
    PROVE  Nat \subseteq T
<1> SUFFICES ASSUME Nat \ T # {} PROVE FALSE
  OBVIOUS
<1>1. PICK n \in Nat \ T : \A m \in Nat \ T : n <= m
  BY LeastNat
<1>2. n - 1 \in Nat /\ n - 1 \in T
  BY <1>1
<1> QED
  BY <1>1, <1>2

\* Induction over sequences, by their last element.
LEMMA SeqInductive ==
    ASSUME NEW S, NEW G, <<>> \in G, \A s \in Seq(S), e \in S : s \in G => Append(s, e) \in G
    PROVE  Seq(S) \subseteq G
<1> DEFINE T == {n \in Nat : \A s \in Seq(S) : Len(s) = n => s \in G}
<1>1. 0 \in T
  <2> SUFFICES ASSUME NEW s \in Seq(S), Len(s) = 0 PROVE s \in G
    OBVIOUS
  <2>1. s = <<>>
    BY EmptySeq
  <2> QED
    BY <2>1
<1>2. ASSUME NEW n \in Nat, n \in T PROVE n + 1 \in T
  <2> SUFFICES ASSUME NEW s \in Seq(S), Len(s) = n + 1 PROVE s \in G
    OBVIOUS
  <2>1. s # <<>>
    OBVIOUS
  <2>2. PICK t \in Seq(S), e \in S : s = Append(t, e)
    BY <2>1, SequenceEmptyOrAppend
  <2>3. Len(t) = n
    BY <2>2, AppendProperties
  <2> QED
    BY <1>2, <2>2, <2>3
<1>3. Nat \subseteq T
  <2> HIDE DEF T
  <2> QED
    BY <1>1, <1>2, NatInductive
<1> QED
  BY <1>3, LenProperties

\* A recursive function along 1 .. N exists.
LEMMA IterationExists ==
    ASSUME NEW A, NEW base \in A, NEW N \in Nat, NEW g \in [1 .. N -> [A -> A]]
    PROVE  \E f \in [0 .. N -> A] : /\ f[0] = base
                                    /\ \A i \in 1 .. N : f[i] = g[i][f[i - 1]]
<1> DEFINE Iter(f, n) == f[0] = base /\ \A i \in 1 .. n : f[i] = g[i][f[i - 1]]
           T == {n \in Nat : n <= N => \E f \in [0 .. n -> A] : Iter(f, n)}
<1>1. 0 \in T
  <2> DEFINE f == [i \in 0 .. 0 |-> base]
  <2>1. f \in [0 .. 0 -> A] /\ Iter(f, 0)
    OBVIOUS
  <2> QED
    BY <2>1
<1>2. ASSUME NEW n \in Nat, n \in T PROVE n + 1 \in T
  <2> SUFFICES ASSUME n + 1 <= N PROVE \E f \in [0 .. n + 1 -> A] : Iter(f, n + 1)
    OBVIOUS
  <2>1. PICK f \in [0 .. n -> A] : Iter(f, n)
    BY <1>2
  <2> DEFINE h == [i \in 0 .. n + 1 |-> IF i = n + 1 THEN g[n + 1][f[n]] ELSE f[i]]
  <2>2. n + 1 \in 1 .. N /\ f[n] \in A /\ g[n + 1] \in [A -> A]
    OBVIOUS
  <2>3. h \in [0 .. n + 1 -> A]
    BY <2>2
  <2>4. h[0] = base
    BY <2>1
  <2>5. ASSUME NEW i \in 1 .. n + 1 PROVE h[i] = g[i][h[i - 1]]
    <3>1. CASE i = n + 1
      <4>1. h[i - 1] = f[n] /\ h[i] = g[n + 1][f[n]]
        BY <3>1
      <4> QED
        BY <3>1, <4>1
    <3>2. CASE i \in 1 .. n
      <4>1. h[i - 1] = f[i - 1] /\ h[i] = f[i]
        BY <3>2
      <4> QED
        BY <2>1, <3>2, <4>1
    <3> QED
      BY <3>1, <3>2
  <2> HIDE DEF h
  <2> QED
    BY <2>3, <2>4, <2>5
<1>3. Nat \subseteq T
  <2> HIDE DEF T
  <2> QED
    BY <1>1, <1>2, NatInductive
<1>4. N \in T
  BY <1>3
<1> QED
  BY <1>4

\* A recursive function along 1 .. N is the only one.
LEMMA IterationUnique ==
    ASSUME NEW N \in Nat, NEW f, NEW h, f[0] = h[0],
           \A i \in 1 .. N : f[i - 1] = h[i - 1] => f[i] = h[i]
    PROVE  \A i \in 0 .. N : f[i] = h[i]
<1> DEFINE T == {n \in Nat : n <= N => f[n] = h[n]}
<1>1. 0 \in T
  OBVIOUS
<1>2. ASSUME NEW n \in Nat, n \in T PROVE n + 1 \in T
  <2> SUFFICES ASSUME n + 1 <= N PROVE f[n + 1] = h[n + 1]
    OBVIOUS
  <2>1. f[n] = h[n] /\ n + 1 \in 1 .. N /\ (n + 1) - 1 = n
    BY <1>2
  <2> QED
    BY <2>1
<1>3. Nat \subseteq T
  <2> HIDE DEF T
  <2> QED
    BY <1>1, <1>2, NatInductive
<1> QED
  BY <1>3

-----------------------------------------------------------------------------
\* What is kept of the first n elements.
KeptIn(s, T) ==
    CHOOSE kept : kept = [n \in 0 .. Len(s) |->
        IF n = 0 THEN <<>>
        ELSE IF s[n] \in T THEN Append(kept[n - 1], s[n]) ELSE kept[n - 1]]

\* What is kept of the elements so far, element by element.
LEMMA KeptFacts ==
    ASSUME NEW S, NEW s \in Seq(S), NEW T
    PROVE  /\ KeptIn(s, T) \in [0 .. Len(s) -> Seq(S)]
           /\ KeptIn(s, T)[0] = <<>>
           /\ \A n \in 1 .. Len(s) :
                 KeptIn(s, T)[n] = IF s[n] \in T THEN Append(KeptIn(s, T)[n - 1], s[n])
                                   ELSE KeptIn(s, T)[n - 1]
<1> DEFINE Body(k) == [n \in 0 .. Len(s) |->
               IF n = 0 THEN <<>>
               ELSE IF s[n] \in T THEN Append(k[n - 1], s[n]) ELSE k[n - 1]]
           g == [n \in 1 .. Len(s) |->
                    [t \in Seq(S) |-> IF s[n] \in T THEN Append(t, s[n]) ELSE t]]
           K == KeptIn(s, T)
<1>1. g \in [1 .. Len(s) -> [Seq(S) -> Seq(S)]]
  OBVIOUS
<1>2. PICK f \in [0 .. Len(s) -> Seq(S)] :
          f[0] = <<>> /\ \A i \in 1 .. Len(s) : f[i] = g[i][f[i - 1]]
  <2> DEFINE A == Seq(S)
             N == Len(s)
             base == <<>>
  <2>1. N \in Nat /\ base \in A /\ g \in [1 .. N -> [A -> A]]
    BY <1>1
  <2> HIDE DEF g, A, N, base
  <2>2. \E f \in [0 .. N -> A] : f[0] = base /\ \A i \in 1 .. N : f[i] = g[i][f[i - 1]]
    BY <2>1, IterationExists
  <2> QED
    BY <2>2 DEF A, N, base
<1>3. \A i \in 1 .. Len(s) : f[i] = IF s[i] \in T THEN Append(f[i - 1], s[i]) ELSE f[i - 1]
  <2> SUFFICES ASSUME NEW i \in 1 .. Len(s)
               PROVE  f[i] = IF s[i] \in T THEN Append(f[i - 1], s[i]) ELSE f[i - 1]
    OBVIOUS
  <2>1. i - 1 \in 0 .. Len(s)
    OBVIOUS
  <2>2. f[i - 1] \in Seq(S)
    BY <2>1
  <2>3. g[i] = [t \in Seq(S) |-> IF s[i] \in T THEN Append(t, s[i]) ELSE t]
    OBVIOUS
  <2>4. f[i] = g[i][f[i - 1]]
    BY <1>2
  <2> HIDE DEF g
  <2> QED
    BY <2>2, <2>3, <2>4
<1>4. f = Body(f)
  <2> DEFINE B == Body(f)
  <2>1. ASSUME NEW n \in 0 .. Len(s) PROVE f[n] = B[n]
    <3>1. CASE n = 0
      BY <1>2, <3>1
    <3>2. CASE n \in 1 .. Len(s)
      <4>1. f[n] = IF s[n] \in T THEN Append(f[n - 1], s[n]) ELSE f[n - 1]
        BY <1>3, <3>2
      <4> QED
        BY <3>2, <4>1
    <3> QED
      BY <3>1, <3>2
  <2>2. B = [n \in 0 .. Len(s) |-> B[n]] /\ f = [n \in 0 .. Len(s) |-> f[n]]
    OBVIOUS
  <2> HIDE DEF B
  <2>3. f = B
    BY <2>1, <2>2
  <2> QED
    BY <2>3 DEF B
<1>5. K = Body(K)
  <2>1. K = CHOOSE k : k = Body(k)
    BY DEF KeptIn
  <2> HIDE DEF Body, K
  <2> QED
    BY <1>4, <2>1
<1>6. /\ K[0] = <<>>
      /\ \A i \in 1 .. Len(s) : K[i] = IF s[i] \in T THEN Append(K[i - 1], s[i]) ELSE K[i - 1]
  <2> HIDE DEF K
  <2>1. \A n \in 0 .. Len(s) : K[n] = Body(K)[n]
    BY <1>5
  <2> QED
    BY <2>1
<1>7. \A i \in 0 .. Len(s) : K[i] = f[i]
  <2> HIDE DEF K
  <2>1. Len(s) \in Nat
    OBVIOUS
  <2>2. \A i \in 1 .. Len(s) : K[i - 1] = f[i - 1] => K[i] = f[i]
    BY <1>3, <1>6
  <2>3. K[0] = f[0]
    BY <1>2, <1>6
  <2> QED
    BY <2>1, <2>2, <2>3, IterationUnique
<1>8. K \in [0 .. Len(s) -> Seq(S)]
  <2> HIDE DEF K
  <2> QED
    BY <1>5, <1>7
<1> QED
  BY <1>6, <1>8

\* Within is what is kept of all elements.
LEMMA WithinIsKept == ASSUME NEW s, NEW T PROVE Within(s, T) = KeptIn(s, T)[Len(s)]
  BY DEF Within, KeptIn

\* Nothing is kept of nothing.
LEMMA WithinEmpty == ASSUME NEW T PROVE Within(<<>>, T) = <<>>
<1> DEFINE s == <<>>
           S == {}
<1>1. s \in Seq(S) /\ Len(s) = 0
  OBVIOUS
<1> HIDE DEF s, S
<1>2. KeptIn(s, T)[0] = <<>>
  <2>1. ASSUME NEW U, NEW t \in Seq(U) PROVE KeptIn(t, T)[0] = <<>>
    BY KeptFacts
  <2> QED
    BY <1>1, <2>1
<1>3. Within(s, T) = <<>>
  BY <1>1, <1>2, WithinIsKept
<1> QED
  BY <1>3 DEF s

\* One more element is kept, or not.
LEMMA WithinAppend ==
    ASSUME NEW S, NEW s \in Seq(S), NEW e \in S, NEW T
    PROVE  Within(Append(s, e), T) = IF e \in T THEN Append(Within(s, T), e) ELSE Within(s, T)
<1> DEFINE t == Append(s, e)
           K == KeptIn(s, T)
           L == KeptIn(t, T)
<1>1. /\ t \in Seq(S) /\ Len(t) = Len(s) + 1 /\ t[Len(s) + 1] = e
      /\ \A i \in 1 .. Len(s) : t[i] = s[i]
  OBVIOUS
<1>2. /\ K[0] = <<>>
      /\ \A n \in 1 .. Len(s) : K[n] = IF s[n] \in T THEN Append(K[n - 1], s[n]) ELSE K[n - 1]
  BY KeptFacts
<1>3. /\ L[0] = <<>>
      /\ \A n \in 1 .. Len(t) : L[n] = IF t[n] \in T THEN Append(L[n - 1], t[n]) ELSE L[n - 1]
  <2> HIDE DEF t
  <2> QED
    BY <1>1, KeptFacts
<1> HIDE DEF t, K, L
<1>4. \A i \in 0 .. Len(s) : K[i] = L[i]
  <2>1. \A i \in 1 .. Len(s) : K[i - 1] = L[i - 1] => K[i] = L[i]
    BY <1>1, <1>2, <1>3
  <2> QED
    <3> DEFINE N == Len(s)
    <3>1. N \in Nat /\ K[0] = L[0]
      BY <1>2, <1>3
    <3> HIDE DEF N
    <3>2. \A i \in 1 .. N : K[i - 1] = L[i - 1] => K[i] = L[i]
      BY <2>1 DEF N
    <3>3. \A i \in 0 .. N : K[i] = L[i]
      BY <3>1, <3>2, IterationUnique
    <3> QED
      BY <3>3 DEF N
<1>5. L[Len(t)] = IF e \in T THEN Append(L[Len(s)], e) ELSE L[Len(s)]
  <2>1. Len(t) \in 1 .. Len(t) /\ Len(t) - 1 = Len(s)
    BY <1>1
  <2> QED
    BY <1>1, <1>3, <2>1
<1>6. K[Len(s)] = L[Len(s)]
  BY <1>4, LenProperties
<1> QED
  BY <1>5, <1>6, WithinIsKept DEF t, K, L

\* Positions(s, T, f): f gives the position in s of every element of Within(s, T).
Positions(s, T, f) ==
    LET w == Within(s, T)
    IN  /\ f \in [1 .. Len(w) -> 1 .. Len(s)]
        /\ \A i \in 1 .. Len(w) : w[i] = s[f[i]] /\ w[i] \in T
        /\ \A i, j \in 1 .. Len(w) : i < j => f[i] < f[j]
        /\ \A j \in 1 .. Len(s) : s[j] \in T => \E i \in 1 .. Len(w) : f[i] = j

\* Within keeps the elements of T, all of them, in the order of s.
LEMMA WithinPositions ==
    ASSUME NEW S, NEW T
    PROVE  \A s \in Seq(S) : Within(s, T) \in Seq(S) /\ \E f : Positions(s, T, f)
<1> DEFINE G == {s \in Seq(S) : Within(s, T) \in Seq(S) /\ \E f : Positions(s, T, f)}
<1>1. <<>> \in G
  <2>1. Within(<<>>, T) = <<>>
    BY WithinEmpty
  <2>2. Positions(<<>>, T, [i \in 1 .. 0 |-> 1])
    BY <2>1 DEF Positions
  <2>3. <<>> \in Seq(S)
    OBVIOUS
  <2>4. \E f : Positions(<<>>, T, f)
    BY <2>2
  <2> QED
    BY <2>1, <2>3, <2>4
<1>2. ASSUME NEW s \in Seq(S), NEW e \in S, s \in G PROVE Append(s, e) \in G
  <2> DEFINE t == Append(s, e)
             w == Within(s, T)
             v == Within(t, T)
  <2>0. /\ t \in Seq(S) /\ Len(t) = Len(s) + 1 /\ t[Len(s) + 1] = e
        /\ \A i \in 1 .. Len(s) : t[i] = s[i]
    OBVIOUS
  <2>1. v = IF e \in T THEN Append(w, e) ELSE w
    BY WithinAppend
  <2>2. w \in Seq(S) /\ Len(w) \in Nat
    BY <1>2
  <2>3. PICK f : Positions(s, T, f)
    BY <1>2
  <2>4. /\ f \in [1 .. Len(w) -> 1 .. Len(s)]
        /\ \A i \in 1 .. Len(w) : w[i] = s[f[i]] /\ w[i] \in T
        /\ \A i, j \in 1 .. Len(w) : i < j => f[i] < f[j]
        /\ \A j \in 1 .. Len(s) : s[j] \in T => \E i \in 1 .. Len(w) : f[i] = j
    BY <2>3 DEF Positions
  <2>5. CASE e \notin T
    <3>1. v = w
      BY <2>1, <2>5
    <3> HIDE DEF w, v, t
    <3>a. 1 .. Len(s) \subseteq 1 .. Len(t)
      BY <2>0, LenProperties
    <3>b. f \in [1 .. Len(v) -> 1 .. Len(t)]
      BY <2>4, <3>1, <3>a
    <3>c. \A i \in 1 .. Len(v) : v[i] = t[f[i]] /\ v[i] \in T
      BY <2>0, <2>4, <3>1
    <3>2. /\ f \in [1 .. Len(v) -> 1 .. Len(t)]
          /\ \A i \in 1 .. Len(v) : v[i] = t[f[i]] /\ v[i] \in T
          /\ \A i, j \in 1 .. Len(v) : i < j => f[i] < f[j]
      BY <2>4, <3>1, <3>b, <3>c
    <3>3. \A j \in 1 .. Len(t) : t[j] \in T => \E i \in 1 .. Len(v) : f[i] = j
      BY <2>0, <2>2, <2>4, <2>5, <3>1, LenProperties
    <3>4. Positions(t, T, f)
      BY <3>2, <3>3 DEF Positions, v
    <3> QED
      BY <2>0, <2>2, <3>1, <3>4 DEF v, t
  <2>6. CASE e \in T
    <3>1. v = Append(w, e)
      BY <2>1, <2>6
    <3> HIDE DEF w, v, t
    <3>2. /\ v \in Seq(S) /\ Len(v) = Len(w) + 1 /\ v[Len(w) + 1] = e
          /\ \A i \in 1 .. Len(w) : v[i] = w[i]
      BY <2>2, <3>1
    <3> DEFINE h == [i \in 1 .. Len(v) |-> IF i = Len(v) THEN Len(t) ELSE f[i]]
    <3>3. Len(t) \in 1 .. Len(t) /\ Len(s) \in Nat
      BY <2>0
    <3>4. ASSUME NEW i \in 1 .. Len(v)
          PROVE  /\ h[i] \in 1 .. Len(t) /\ v[i] = t[h[i]] /\ v[i] \in T
                 /\ i = Len(v) => h[i] = Len(t)
                 /\ i # Len(v) => i \in 1 .. Len(w) /\ h[i] = f[i] /\ h[i] \in 1 .. Len(s)
      <4>1. CASE i = Len(v)
        BY <2>0, <2>2, <2>6, <3>2, <3>3, <4>1
      <4>2. CASE i # Len(v)
        <5>1. i \in 1 .. Len(w)
          BY <2>2, <3>2, <4>2
        <5>2. h[i] = f[i] /\ f[i] \in 1 .. Len(s)
          BY <2>4, <4>2, <5>1
        <5> QED
          BY <2>0, <2>4, <3>2, <3>3, <4>2, <5>1, <5>2
      <4> QED
        BY <4>1, <4>2
    <3>5. h \in [1 .. Len(v) -> 1 .. Len(t)]
      BY <3>4
    <3> HIDE DEF h
    <3>6. ASSUME NEW i \in 1 .. Len(v), NEW j \in 1 .. Len(v), i < j PROVE h[i] < h[j]
      <4>1. i # Len(v)
        BY <3>6, <3>2, <2>2
      <4>2. i \in 1 .. Len(w) /\ h[i] = f[i] /\ h[i] \in 1 .. Len(s)
        BY <3>4, <4>1
      <4>3. CASE j = Len(v)
        BY <2>0, <3>3, <3>4, <4>2, <4>3
      <4>4. CASE j # Len(v)
        BY <2>4, <3>4, <3>6, <4>2, <4>4
      <4> QED
        BY <4>3, <4>4
    <3>7. ASSUME NEW j \in 1 .. Len(t), t[j] \in T PROVE \E i \in 1 .. Len(v) : h[i] = j
      <4>1. CASE j = Len(t)
        BY <2>2, <3>2, <3>4, <4>1
      <4>2. CASE j # Len(t)
        <5>1. j \in 1 .. Len(s) /\ s[j] \in T
          BY <2>0, <3>3, <3>7, <4>2
        <5>2. PICK i \in 1 .. Len(w) : f[i] = j
          BY <2>4, <5>1
        <5>3. i \in 1 .. Len(v) /\ i # Len(v)
          BY <2>2, <3>2
        <5> QED
          BY <3>4, <5>2, <5>3
      <4> QED
        BY <4>1, <4>2
    <3>8. Positions(t, T, h)
      BY <3>4, <3>5, <3>6, <3>7 DEF Positions, v
    <3> QED
      BY <2>0, <3>2, <3>8 DEF v, t
  <2> QED
    BY <2>5, <2>6
<1>3. Seq(S) \subseteq G
  <2> HIDE DEF G
  <2> QED
    BY <1>1, <1>2, SeqInductive
<1> QED
  BY <1>3

-----------------------------------------------------------------------------
(* Positions, and sequences with one element less or more *)

\* The least element of a set of naturals.
LEMMA MinFacts ==
    ASSUME NEW T, T \subseteq Nat, T # {}
    PROVE  Min(T) \in T /\ \A n \in T : Min(T) <= n
<1>1. PICK n \in T : \A m \in T : n <= m
  BY LeastNat
<1> QED
  BY <1>1 DEF Min

\* A sequence without its element at k.
LEMMA RemoveAtFacts ==
    ASSUME NEW S, NEW s \in Seq(S), NEW k \in 1 .. Len(s)
    PROVE  /\ RemoveAt(s, k) \in Seq(S)
           /\ Len(RemoveAt(s, k)) = Len(s) - 1
           /\ \A i \in 1 .. Len(s) - 1 : RemoveAt(s, k)[i] = IF i < k THEN s[i] ELSE s[i + 1]
<1> DEFINE a == SubSeq(s, 1, k - 1)
           b == SubSeq(s, k + 1, Len(s))
<1>1. /\ a \in Seq(S) /\ Len(a) = k - 1
      /\ \A i \in 1 .. k - 1 : a[i] = s[i]
  OBVIOUS
<1>2. /\ b \in Seq(S) /\ Len(b) = Len(s) - k
      /\ \A i \in 1 .. Len(s) - k : b[i] = s[k + i]
  OBVIOUS
<1> HIDE DEF a, b
<1>3. /\ a \o b \in Seq(S) /\ Len(a \o b) = Len(s) - 1
      /\ \A i \in 1 .. Len(s) - 1 : (a \o b)[i] = IF i <= k - 1 THEN a[i] ELSE b[i - (k - 1)]
  BY <1>1, <1>2, ConcatProperties
<1>4. RemoveAt(s, k) = a \o b
  BY DEF RemoveAt, a, b
<1>5. ASSUME NEW i \in 1 .. Len(s) - 1
      PROVE  (a \o b)[i] = IF i < k THEN s[i] ELSE s[i + 1]
  <2>1. CASE i < k
    BY <1>1, <1>3, <2>1
  <2>2. CASE ~(i < k)
    <3>1. i - (k - 1) \in 1 .. Len(s) - k /\ k + (i - (k - 1)) = i + 1
      BY <2>2
    <3> QED
      BY <1>2, <1>3, <2>2, <3>1
  <2> QED
    BY <2>1, <2>2
<1> QED
  BY <1>3, <1>4, <1>5

\* In a sequence, and elsewhere than at one place.
Has(s, e) == \E k \in DOMAIN s : s[k] = e
\* e is in s, at another place than n.
HasBut(s, n, e) == \E k \in DOMAIN s \ {n} : s[k] = e

\* A sequence without one element has the elements at the other places.
LEMMA RemoveAtHas ==
    ASSUME NEW S, NEW s \in Seq(S), NEW n \in 1 .. Len(s), NEW e
    PROVE  Has(RemoveAt(s, n), e) <=> HasBut(s, n, e)
<1> DEFINE t == RemoveAt(s, n)
<1>1. /\ DOMAIN t = 1 .. Len(s) - 1 /\ DOMAIN s = 1 .. Len(s)
      /\ \A i \in 1 .. Len(s) - 1 : t[i] = IF i < n THEN s[i] ELSE s[i + 1]
  BY RemoveAtFacts
<1> HIDE DEF t
<1>2. ASSUME NEW k \in DOMAIN t PROVE \E j \in DOMAIN s \ {n} : s[j] = t[k]
  <2>1. CASE k < n
    BY <1>1, <2>1
  <2>2. CASE ~(k < n)
    <3>1. k + 1 \in DOMAIN s \ {n} /\ s[k + 1] = t[k]
      BY <1>1, <2>2
    <3> QED
      BY <3>1
  <2> QED
    BY <2>1, <2>2
<1>3. ASSUME NEW j \in DOMAIN s \ {n} PROVE \E k \in DOMAIN t : t[k] = s[j]
  <2>1. CASE j < n
    BY <1>1, <2>1
  <2>2. CASE ~(j < n)
    <3>1. j - 1 \in DOMAIN t /\ t[j - 1] = s[j]
      BY <1>1, <2>2
    <3> QED
      BY <3>1
  <2> QED
    BY <2>1, <2>2
<1> QED
  BY <1>2, <1>3 DEF Has, HasBut, t

\* The places of a shortened sequence, in the sequence it was.
Place(n, i) == IF i < n THEN i ELSE i + 1

\* Every place of the shortened sequence has a place of its own in the sequence it was.
LEMMA RemoveAtPlaces ==
    ASSUME NEW S, NEW s \in Seq(S), NEW n \in 1 .. Len(s)
    PROVE  /\ \A i \in DOMAIN RemoveAt(s, n) :
                 Place(n, i) \in DOMAIN s \ {n} /\ RemoveAt(s, n)[i] = s[Place(n, i)]
           /\ \A i, j \in DOMAIN RemoveAt(s, n) : Place(n, i) = Place(n, j) => i = j
<1> DEFINE t == RemoveAt(s, n)
<1>1. /\ DOMAIN t = 1 .. Len(s) - 1 /\ DOMAIN s = 1 .. Len(s)
      /\ \A i \in 1 .. Len(s) - 1 : t[i] = IF i < n THEN s[i] ELSE s[i + 1]
  BY RemoveAtFacts
<1> HIDE DEF t
<1>2. ASSUME NEW i \in DOMAIN t PROVE Place(n, i) \in DOMAIN s \ {n} /\ t[i] = s[Place(n, i)]
  BY <1>1 DEF Place
<1>3. ASSUME NEW i \in DOMAIN t, NEW j \in DOMAIN t, Place(n, i) = Place(n, j) PROVE i = j
  BY <1>1, <1>3 DEF Place
<1> QED
  BY <1>2, <1>3 DEF t

\* An appended element is one more.
LEMMA AppendHas ==
    ASSUME NEW S, NEW s \in Seq(S), NEW x \in S, NEW e
    PROVE  Has(Append(s, x), e) <=> Has(s, e) \/ e = x
<1> DEFINE t == Append(s, x)
<1>1. /\ DOMAIN t = 1 .. Len(s) + 1 /\ DOMAIN s = 1 .. Len(s) /\ Len(s) \in Nat
      /\ t[Len(s) + 1] = x /\ \A i \in 1 .. Len(s) : t[i] = s[i]
  OBVIOUS
<1> HIDE DEF t
<1> QED
  BY <1>1 DEF Has, t

\* A replaced element is there instead of the one at its place.
LEMMA ExceptHas ==
    ASSUME NEW S, NEW s \in Seq(S), NEW n \in 1 .. Len(s), NEW x \in S, NEW e
    PROVE  Has([s EXCEPT ![n] = x], e) <=> HasBut(s, n, e) \/ e = x
<1> DEFINE t == [s EXCEPT ![n] = x]
<1>1. DOMAIN t = DOMAIN s /\ n \in DOMAIN s
  OBVIOUS
<1>2. t[n] = x /\ \A i \in DOMAIN s \ {n} : t[i] = s[i]
  OBVIOUS
<1> HIDE DEF t
<1> QED
  BY <1>1, <1>2 DEF Has, HasBut, t

\* There is no place 0: nothing is removed.
LEMMA RemoveAtZero == ASSUME NEW S, NEW s \in Seq(S) PROVE RemoveAt(s, 0) = s
<1> DEFINE a == SubSeq(s, 1, 0 - 1)
           b == SubSeq(s, 0 + 1, Len(s))
<1>1. a = <<>>
  OBVIOUS
<1>2. b = s
  OBVIOUS
<1>3. RemoveAt(s, 0) = a \o b
  BY DEF RemoveAt
<1> HIDE DEF a, b
<1> QED
  BY <1>1, <1>2, <1>3

\* A prefix of s within T stays where it is, and the rest comes from the rest of s.
LEMMA WithinPrefix ==
    ASSUME NEW S, NEW s \in Seq(S), NEW T, NEW p \in 0 .. Len(s), \A i \in 1 .. p : s[i] \in T
    PROVE  LET w == Within(s, T)
           IN  /\ w \in Seq(S) /\ p <= Len(w) /\ \A i \in 1 .. p : w[i] = s[i]
               /\ \A i \in p + 1 .. Len(w) : \E j \in p + 1 .. Len(s) : w[i] = s[j]
                    /\ w[i] \in T
               /\ \A i, j \in DOMAIN w : w[i] \in T /\
                     (i # j => \E k, l \in DOMAIN s : k # l /\ w[i] = s[k] /\ w[j] = s[l])
               /\ \A j \in DOMAIN s : s[j] \in T => \E i \in DOMAIN w : w[i] = s[j]
<1> DEFINE w == Within(s, T)
<1>1. w \in Seq(S) /\ \E f : Positions(s, T, f)
  BY WithinPositions
<1>2. PICK f : Positions(s, T, f)
  BY <1>1
<1>3. /\ f \in [1 .. Len(w) -> 1 .. Len(s)]
      /\ \A i \in 1 .. Len(w) : w[i] = s[f[i]] /\ w[i] \in T
      /\ \A i, j \in 1 .. Len(w) : i < j => f[i] < f[j]
      /\ \A j \in 1 .. Len(s) : s[j] \in T => \E i \in 1 .. Len(w) : f[i] = j
  BY <1>2 DEF Positions
<1> HIDE DEF w
<1>4. Len(w) \in Nat /\ Len(s) \in Nat /\ p \in Nat /\ DOMAIN w = 1 .. Len(w)
        /\ DOMAIN s = 1 .. Len(s)
  BY <1>1, LenProperties
<1> DEFINE G == {n \in Nat : n <= p => n <= Len(w) /\ \A i \in 1 .. n : f[i] = i}
<1>5. 0 \in G
  BY <1>4
<1>6. ASSUME NEW n \in Nat, n \in G PROVE n + 1 \in G
  <2> SUFFICES ASSUME n + 1 <= p PROVE n + 1 <= Len(w) /\ \A i \in 1 .. n + 1 : f[i] = i
    OBVIOUS
  <2>1. n <= Len(w) /\ \A i \in 1 .. n : f[i] = i
    BY <1>4, <1>6
  <2>2. PICK l \in 1 .. Len(w) : f[l] = n + 1
    BY <1>3, <1>4
  <2>3. l >= n + 1
    BY <2>1, <2>2
  <2>4. n + 1 \in 1 .. Len(w)
    BY <1>4, <2>3
  <2>5. f[n + 1] <= n + 1
    BY <1>3, <1>4, <2>2, <2>3, <2>4
  <2>6. f[n + 1] >= n + 1
    <3>1. CASE n = 0
      BY <1>3, <2>4, <3>1
    <3>2. CASE n # 0
      <4>1. n \in 1 .. Len(w) /\ f[n] = n /\ f[n] < f[n + 1]
        BY <1>3, <2>1, <2>4, <3>2
      <4> QED
        <5>1. f[n + 1] \in 1 .. Len(s)
          BY <1>3, <2>4
        <5> QED
          BY <1>4, <4>1, <5>1
    <3> QED
      BY <3>1, <3>2
  <2>7. f[n + 1] = n + 1
    BY <1>3, <2>4, <2>5, <2>6
  <2> QED
    BY <2>1, <2>4, <2>7
<1>7. Nat \subseteq G
  <2> HIDE DEF G
  <2> QED
    BY <1>5, <1>6, NatInductive
<1>8. p <= Len(w) /\ \A i \in 1 .. p : f[i] = i
  BY <1>4, <1>7
<1>9. \A i \in 1 .. p : w[i] = s[i]
  BY <1>3, <1>4, <1>8
<1>10. ASSUME NEW i \in p + 1 .. Len(w)
       PROVE  \E j \in p + 1 .. Len(s) : w[i] = s[j] /\ w[i] \in T
  <2>1. i \in 1 .. Len(w) /\ f[i] \in 1 .. Len(s)
    BY <1>3, <1>4
  <2>2. f[i] >= p + 1
    <3>1. CASE p = 0
      BY <2>1, <3>1
    <3>2. CASE p # 0
      <4>1. p \in 1 .. Len(w) /\ f[p] = p /\ f[p] < f[i]
        BY <1>3, <1>4, <1>8, <2>1, <3>2
      <4> QED
        BY <1>4, <2>1, <4>1
    <3> QED
      BY <3>1, <3>2
  <2> QED
    BY <1>3, <1>4, <2>1, <2>2
<1>11. ASSUME NEW i \in DOMAIN w, NEW j \in DOMAIN w, i # j
       PROVE  \E k, l \in DOMAIN s : k # l /\ w[i] = s[k] /\ w[j] = s[l]
  <2>1. f[i] # f[j] /\ f[i] \in DOMAIN s /\ f[j] \in DOMAIN s
    <3>1. i < j \/ j < i
      BY <1>4, <1>11
    <3>2. f[i] \in 1 .. Len(s) /\ f[j] \in 1 .. Len(s)
      BY <1>3, <1>4
    <3>3. f[i] < f[j] \/ f[j] < f[i]
      BY <1>3, <1>4, <3>1
    <3> QED
      BY <1>4, <3>2, <3>3
  <2> QED
    BY <1>3, <1>4, <2>1
<1>12. \A j \in DOMAIN s : s[j] \in T => \E i \in DOMAIN w : w[i] = s[j]
  BY <1>3, <1>4
<1>13. \A i \in DOMAIN w : w[i] \in T
  BY <1>3, <1>4
<1> QED
  BY <1>1, <1>8, <1>9, <1>10, <1>11, <1>12, <1>13 DEF w

\* All of a sequence is within a set that has all its elements.
LEMMA WithinAll ==
    ASSUME NEW S, NEW s \in Seq(S), NEW T, \A i \in DOMAIN s : s[i] \in T
    PROVE  Within(s, T) = s
<1> DEFINE w == Within(s, T)
           p == Len(s)
<1>1. p \in 0 .. Len(s) /\ DOMAIN s = 1 .. p /\ p \in Nat
  OBVIOUS
<1>2. /\ w \in Seq(S) /\ p <= Len(w) /\ \A i \in 1 .. p : w[i] = s[i]
      /\ \A i \in p + 1 .. Len(w) : \E j \in p + 1 .. Len(s) : w[i] = s[j]
  <2>1. \A i \in 1 .. p : s[i] \in T
    BY <1>1
  <2> HIDE DEF p
  <2> QED
    BY <1>1, <2>1, WithinPrefix
<1> HIDE DEF w
<1>3. p + 1 .. Len(s) = {}
  BY <1>1
<1>4. Len(w) = p
  <2>1. p + 1 .. Len(w) = {}
    <3> HIDE DEF p
    <3> QED
      BY <1>2, <1>3
  <2> QED
    BY <1>1, <1>2, <2>1, LenProperties
<1>5. w = s
  BY <1>1, <1>2, <1>4, SeqEqual
<1> QED
  BY <1>5 DEF w

\* An appended element is the last one.
LEMMA FrontLast ==
    ASSUME NEW S, NEW s \in Seq(S), NEW e \in S
    PROVE  Front(Append(s, e)) = s /\ Last(Append(s, e)) = e
<1> DEFINE t == Append(s, e)
<1>1. t \in Seq(S) /\ Len(t) = Len(s) + 1 /\ t[Len(s) + 1] = e
        /\ \A i \in 1 .. Len(s) : t[i] = s[i]
  OBVIOUS
<1> HIDE DEF t
<1>2. Last(t) = e /\ Front(t) = SubSeq(t, 1, Len(s))
  BY <1>1, LenProperties DEF Last, Front
<1>3. SubSeq(t, 1, Len(s)) = s
  BY <1>1, LenProperties
<1> QED
  BY <1>2, <1>3 DEF t

\* The last element of two sequences is that of the second one.
LEMMA LastOfConcat ==
    ASSUME NEW S, NEW a \in Seq(S), NEW b \in Seq(S), b # <<>>
    PROVE  Last(a \o b) = Last(b) /\ a \o b # <<>>
<1> DEFINE z == a \o b
<1>1. Len(b) \in Nat /\ Len(b) >= 1 /\ Len(a) \in Nat
  BY EmptySeq, LenProperties
<1>2. /\ z \in Seq(S) /\ Len(z) = Len(a) + Len(b)
      /\ \A i \in 1 .. Len(a) + Len(b) : z[i] = IF i <= Len(a) THEN a[i] ELSE b[i - Len(a)]
  BY ConcatProperties
<1> HIDE DEF z
<1>3. z[Len(z)] = b[Len(b)]
  <2>1. Len(z) \in 1 .. Len(a) + Len(b) /\ ~(Len(z) <= Len(a)) /\ Len(z) - Len(a) = Len(b)
    BY <1>1, <1>2
  <2> QED
    BY <1>2, <2>1
<1>4. z # <<>>
  BY <1>1, <1>2, EmptySeq
<1> QED
  BY <1>3, <1>4 DEF Last, z

\* Two sequences with an element appended to the second one.
LEMMA ConcatAppend ==
    ASSUME NEW S, NEW s \in Seq(S), NEW t \in Seq(S), NEW e \in S
    PROVE  s \o Append(t, e) = Append(s \o t, e)
  OBVIOUS

\* An element appended to one element.
LEMMA PairAppend ==
    ASSUME NEW U, NEW a \in U, NEW b \in U PROVE Append(<< a >>, b) = << a, b >>
<1> DEFINE s == << a >>
           u == Append(s, b)
           v == << a, b >>
<1>1. s \in Seq(U) /\ Len(s) = 1 /\ s[1] = a
  OBVIOUS
<1> HIDE DEF s
<1>2. u \in Seq(U) /\ Len(u) = 2 /\ u[1] = a /\ u[2] = b
  <2>1. /\ u \in Seq(U) /\ Len(u) = Len(s) + 1 /\ u[Len(s) + 1] = b
        /\ \A i \in 1 .. Len(s) : u[i] = s[i]
    BY <1>1, AppendProperties
  <2>2. Len(s) + 1 = 2 /\ 1 \in 1 .. Len(s)
    BY <1>1
  <2> QED
    BY <1>1, <2>1, <2>2
<1>3. v \in Seq(U) /\ Len(v) = 2 /\ v[1] = a /\ v[2] = b
  OBVIOUS
<1> HIDE DEF u, v
<1>4. \A i \in 1 .. 2 : u[i] = v[i]
  BY <1>2, <1>3
<1>5. u = v
  BY <1>2, <1>3, <1>4, SeqEqual
<1> QED
  BY <1>5 DEF u, v, s

=============================================================================
