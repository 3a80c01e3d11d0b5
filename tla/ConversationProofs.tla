------------------------- MODULE ConversationProofs -------------------------
(***************************************************************************)
(* Theorems about the deterministic layer of a chat session: the           *)
(* conversation, the authorizations of choices and the deterministic       *)
(* answers, for any messages, routes, sessions, views and knowledge.       *)
(*                                                                         *)
(* A session resumes because the cached decisions stay a chain from the    *)
(* initial state to the stored one, in the order of the history            *)
(* (SavedInv). A retry repeats its answer because the decision that        *)
(* answered is still the one cached for its message, and the state before  *)
(* it is rebuilt to be the same (RetryInv).                                *)
(***************************************************************************)
EXTENDS Conversation, ChoiceAuthorizations, DeterministicAnswers, SequenceLemmas

-----------------------------------------------------------------------------
(* Decisions and the states they lead to *)

\* A decision leads where it says or is refused.
LEMMA TransitionFacts ==
    ASSUME NEW s, NEW d
    PROVE  /\ Transition(s, d) \in State \union {Refused}
           /\ Transition(s, d) # Refused => Transition(s, d) = d.to /\ d.from = s /\ s \in State
<1>1. Refused \notin State
  BY InitialAssumption
<1>2. CASE \E i \in DOMAIN Routes :
              /\ Routes[i].id = d.route /\ s \in Routes[i].states /\ d.from = s
              /\ Routes[i].event \in DOMAIN On[s] /\ On[s][Routes[i].event] = d.to
  <2>1. PICK i \in DOMAIN Routes :
              /\ Routes[i].id = d.route /\ s \in Routes[i].states /\ d.from = s
              /\ Routes[i].event \in DOMAIN On[s] /\ On[s][Routes[i].event] = d.to
    BY <1>2
  <2>2. s \in State /\ d.to \in State
    BY <2>1, RouteAssumption, OnAssumption
  <2>3. Transition(s, d) = d.to
    BY <1>2 DEF Transition
  <2> QED
    BY <2>1, <2>2, <2>3
<1>3. CASE ~\E i \in DOMAIN Routes :
              /\ Routes[i].id = d.route /\ s \in Routes[i].states /\ d.from = s
              /\ Routes[i].event \in DOMAIN On[s] /\ On[s][Routes[i].event] = d.to
  BY <1>3 DEF Transition
<1> QED
  BY <1>2, <1>3

\* A message has one decision at most.
OneDecisionEach(ds) == \A i, j \in DOMAIN ds : ds[i].id = ds[j].id => i = j

\* The decision cached for a message is its decision.
LEMMA CachedFacts ==
    ASSUME NEW ds \in Seq(RouteDecision), NEW m
    PROVE  /\ Cached(ds, m) = 0 => \A i \in DOMAIN ds : ds[i].id # m
           /\ Cached(ds, m) # 0 => Cached(ds, m) \in DOMAIN ds /\ ds[Cached(ds, m)].id = m
           /\ \A i \in DOMAIN ds : OneDecisionEach(ds) /\ ds[i].id = m => Cached(ds, m) = i
<1> DEFINE I == {n \in 1 .. Len(ds) : ds[n].id = m}
           k == Cached(ds, m)
<1>1. k = IF I # {} THEN Min(I) ELSE 0
  BY DEF Cached, SelectInSeq
<1>2. I # {} => Min(I) \in I
  <2>1. I \subseteq Nat
    OBVIOUS
  <2> HIDE DEF I
  <2> QED
    BY <2>1, MinFacts
<1>3. DOMAIN ds = 1 .. Len(ds)
  OBVIOUS
<1> HIDE DEF k
<1>4. k # 0 => k \in DOMAIN ds /\ ds[k].id = m
  BY <1>1, <1>2, <1>3
<1>5. k = 0 => \A i \in DOMAIN ds : ds[i].id # m
  BY <1>1, <1>2, <1>3
<1>6. ASSUME NEW i \in DOMAIN ds, OneDecisionEach(ds), ds[i].id = m PROVE k = i
  BY <1>4, <1>5, <1>6 DEF OneDecisionEach
<1> QED
  BY <1>4, <1>5, <1>6 DEF k

\* A message leads from a state to a state.
LEMMA FollowState ==
    ASSUME NEW ds, NEW s \in State, NEW m
    PROVE  Follow(ds, s, m) \in State
  BY TransitionFacts DEF Follow

\* The states on the way of rebuildState.
After(ds, h) ==
    CHOOSE after : after = [n \in 0..Len(h) |->
        IF n = 0 THEN Initial ELSE Follow(ds, after[n - 1], h[n])]

\* The rebuild goes from state to state, one message at a time.
LEMMA AfterFacts ==
    ASSUME NEW ds, NEW h \in Seq(Entry)
    PROVE  /\ After(ds, h) \in [0 .. Len(h) -> State]
           /\ After(ds, h)[0] = Initial
           /\ \A n \in 1 .. Len(h) : After(ds, h)[n] = Follow(ds, After(ds, h)[n - 1], h[n])
<1> DEFINE Body(k) == [n \in 0 .. Len(h) |->
               IF n = 0 THEN Initial ELSE Follow(ds, k[n - 1], h[n])]
           g == [n \in 1 .. Len(h) |-> [s \in State |-> Follow(ds, s, h[n])]]
           K == After(ds, h)
<1>1. g \in [1 .. Len(h) -> [State -> State]]
  BY FollowState
<1>2. PICK f \in [0 .. Len(h) -> State] :
          f[0] = Initial /\ \A i \in 1 .. Len(h) : f[i] = g[i][f[i - 1]]
  <2> DEFINE N == Len(h)
  <2>1. N \in Nat /\ Initial \in State /\ g \in [1 .. N -> [State -> State]]
    BY <1>1, InitialAssumption
  <2> HIDE DEF g, N
  <2>2. \E f \in [0 .. N -> State] : f[0] = Initial /\ \A i \in 1 .. N : f[i] = g[i][f[i - 1]]
    BY <2>1, IterationExists
  <2> QED
    BY <2>2 DEF N
<1>3. \A i \in 1 .. Len(h) : f[i] = Follow(ds, f[i - 1], h[i])
  <2> SUFFICES ASSUME NEW i \in 1 .. Len(h) PROVE f[i] = Follow(ds, f[i - 1], h[i])
    OBVIOUS
  <2>1. i - 1 \in 0 .. Len(h)
    OBVIOUS
  <2>2. f[i - 1] \in State
    BY <2>1
  <2>3. g[i] = [s \in State |-> Follow(ds, s, h[i])] /\ f[i] = g[i][f[i - 1]]
    BY <1>2
  <2> HIDE DEF g
  <2> QED
    BY <2>2, <2>3
<1>4. f = Body(f)
  <2> DEFINE B == Body(f)
  <2>1. ASSUME NEW n \in 0 .. Len(h) PROVE f[n] = B[n]
    <3>1. CASE n = 0
      BY <1>2, <3>1
    <3>2. CASE n \in 1 .. Len(h)
      BY <1>3, <3>2
    <3> QED
      BY <3>1, <3>2
  <2>2. B = [n \in 0 .. Len(h) |-> B[n]] /\ f = [n \in 0 .. Len(h) |-> f[n]]
    OBVIOUS
  <2> HIDE DEF B
  <2>3. f = B
    BY <2>1, <2>2
  <2> QED
    BY <2>3 DEF B
<1>5. K = Body(K)
  <2>1. K = CHOOSE k : k = Body(k)
    BY DEF After
  <2> HIDE DEF Body, K
  <2> QED
    BY <1>4, <2>1
<1>6. K[0] = Initial /\ \A i \in 1 .. Len(h) : K[i] = Follow(ds, K[i - 1], h[i])
  <2> HIDE DEF K
  <2>1. \A n \in 0 .. Len(h) : K[n] = Body(K)[n]
    BY <1>5
  <2> QED
    BY <2>1
<1>7. \A i \in 0 .. Len(h) : K[i] = f[i]
  <2> HIDE DEF K
  <2>1. Len(h) \in Nat /\ K[0] = f[0]
    BY <1>2, <1>6
  <2>2. \A i \in 1 .. Len(h) : K[i - 1] = f[i - 1] => K[i] = f[i]
    BY <1>3, <1>6
  <2> QED
    BY <2>1, <2>2, IterationUnique
<1>8. K \in [0 .. Len(h) -> State]
  <2> HIDE DEF K
  <2> QED
    BY <1>5, <1>7
<1> QED
  BY <1>6, <1>8

\* The state rebuilt from a history is the last one on the way.
LEMMA RebuiltIsAfter == ASSUME NEW ds, NEW h PROVE Rebuilt(ds, h) = After(ds, h)[Len(h)]
  BY DEF Rebuilt, After

\* What is rebuilt is a state.
LEMMA RebuiltState == ASSUME NEW ds, NEW h \in Seq(Entry) PROVE Rebuilt(ds, h) \in State
<1>1. Len(h) \in 0 .. Len(h) /\ After(ds, h) \in [0 .. Len(h) -> State]
  BY AfterFacts
<1> QED
  BY <1>1, RebuiltIsAfter

\* What is rebuilt depends on the decisions of the messages it follows only.
LEMMA RebuiltSame ==
    ASSUME NEW ds \in Seq(RouteDecision), OneDecisionEach(ds),
           NEW es \in Seq(RouteDecision), OneDecisionEach(es),
           NEW h \in Seq(Entry), \A d : d.id \in Ids(h) => (Has(ds, d) <=> Has(es, d))
    PROVE  Rebuilt(ds, h) = Rebuilt(es, h)
<1> DEFINE K == After(ds, h)
           L == After(es, h)
           N == Len(h)
<1>1. K[0] = Initial /\ \A n \in 1 .. N : K[n] = Follow(ds, K[n - 1], h[n])
  BY AfterFacts
<1>2. L[0] = Initial /\ \A n \in 1 .. N : L[n] = Follow(es, L[n - 1], h[n])
  BY AfterFacts
<1>3. ASSUME NEW n \in 1 .. N, NEW s PROVE Follow(ds, s, h[n]) = Follow(es, s, h[n])
  <2> DEFINE m == h[n]
             j == Cached(ds, m.id)
             k == Cached(es, m.id)
  <2>1. m.id \in Ids(h)
    BY DEF Ids
  <2>2. j = 0 <=> k = 0
    <3>1. /\ j = 0 => \A i \in DOMAIN ds : ds[i].id # m.id
          /\ j # 0 => j \in DOMAIN ds /\ ds[j].id = m.id
      BY CachedFacts
    <3>2. /\ k = 0 => \A i \in DOMAIN es : es[i].id # m.id
          /\ k # 0 => k \in DOMAIN es /\ es[k].id = m.id
      BY CachedFacts
    <3> HIDE DEF j, k, m
    <3>3. ASSUME j # 0 PROVE k # 0
      <4>1. Has(ds, ds[j]) /\ ds[j].id \in Ids(h)
        BY <2>1, <3>1, <3>3 DEF Has
      <4>2. Has(es, ds[j])
        BY <4>1
      <4> QED
        BY <3>1, <3>2, <3>3, <4>2 DEF Has
    <3>4. ASSUME k # 0 PROVE j # 0
      <4>1. Has(es, es[k]) /\ es[k].id \in Ids(h)
        BY <2>1, <3>2, <3>4 DEF Has
      <4>2. Has(ds, es[k])
        BY <4>1
      <4> QED
        BY <3>1, <3>2, <3>4, <4>2 DEF Has
    <3> QED
      BY <3>3, <3>4
  <2>3. j # 0 => ds[j] = es[k]
    <3> SUFFICES ASSUME j # 0 PROVE ds[j] = es[k]
      OBVIOUS
    <3>1. j \in DOMAIN ds /\ ds[j].id = m.id
      BY CachedFacts
    <3>2. PICK i \in DOMAIN es : es[i] = ds[j]
      BY <2>1, <3>1 DEF Has
    <3>3. k = i
      BY <3>1, <3>2, CachedFacts
    <3> QED
      BY <3>2, <3>3
  <2> QED
    BY <2>2, <2>3 DEF Follow
<1>4. N \in Nat
  OBVIOUS
<1> HIDE DEF K, L, N
<1>5. \A i \in 1 .. N : K[i - 1] = L[i - 1] => K[i] = L[i]
  BY <1>1, <1>2, <1>3
<1>6. \A i \in 0 .. N : K[i] = L[i]
  <2>1. K[0] = L[0]
    BY <1>1, <1>2
  <2> QED
    BY <1>4, <1>5, <2>1, IterationUnique
<1>7. K[N] = L[N]
  BY <1>4, <1>6
<1> QED
  BY <1>7, RebuiltIsAfter DEF K, L, N

-----------------------------------------------------------------------------
(* Chains of decisions *)

\* The route of a decision still leads from its state to where it led.
Applicable(d) == Transition(d.from, d) = d.to /\ d.to \in State

\* Where the first p decisions lead.
EndAt(ds, p) == IF p = 0 THEN Initial ELSE ds[p].to

\* Every decision applies where the one before it led.
Chain(ds) == \A i \in DOMAIN ds : Applicable(ds[i]) /\ ds[i].from = EndAt(ds, i - 1)

\* The decisions of the messages of a history come first, in its order, with its inputs.
Aligned(ds, h) ==
    \A j \in DOMAIN ds, l \in DOMAIN h : ds[j].id = h[l].id =>
        /\ ds[j].input = h[l].input
        /\ \A i \in 1 .. j - 1 : \E k \in 1 .. l - 1 : ds[i].id = h[k].id

\* The states on the way of the replay of a snapshot.
ReplayAfter(ds) ==
    CHOOSE after : after = [n \in 0..Len(ds) |->
        IF n = 0 THEN Initial ELSE Transition(after[n - 1], ds[n])]

\* The replay of a chain ends where its last decision leads.
LEMMA ReplayedChain ==
    ASSUME NEW ds \in Seq(RouteDecision), Chain(ds)
    PROVE  Replayed(ds) = EndAt(ds, Len(ds))
<1> DEFINE Body(k) == [n \in 0 .. Len(ds) |->
               IF n = 0 THEN Initial ELSE Transition(k[n - 1], ds[n])]
           f == [n \in 0 .. Len(ds) |-> EndAt(ds, n)]
           K == ReplayAfter(ds)
<1>1. \A n \in 1 .. Len(ds) : Transition(EndAt(ds, n - 1), ds[n]) = EndAt(ds, n)
  <2>1. \A n \in 1 .. Len(ds) : n \in DOMAIN ds /\ n # 0
    OBVIOUS
  <2>2. ASSUME NEW n \in 1 .. Len(ds) PROVE Transition(EndAt(ds, n - 1), ds[n]) = ds[n].to
    BY <2>1 DEF Chain, Applicable
  <2> QED
    BY <2>1, <2>2 DEF EndAt
<1>2. f = Body(f)
  <2> DEFINE B == Body(f)
  <2>1. ASSUME NEW n \in 0 .. Len(ds) PROVE f[n] = B[n]
    <3>1. CASE n = 0
      BY <3>1 DEF EndAt
    <3>2. CASE n \in 1 .. Len(ds)
      <4>1. n - 1 \in 0 .. Len(ds) /\ n # 0
        BY <3>2
      <4>2. f[n - 1] = EndAt(ds, n - 1) /\ f[n] = EndAt(ds, n)
        BY <4>1
      <4>3. B[n] = Transition(f[n - 1], ds[n])
        BY <4>1
      <4> QED
        BY <1>1, <3>2, <4>2, <4>3
    <3> QED
      BY <3>1, <3>2
  <2>2. B = [n \in 0 .. Len(ds) |-> B[n]] /\ f = [n \in 0 .. Len(ds) |-> f[n]]
    OBVIOUS
  <2> HIDE DEF B, f
  <2>3. f = B
    BY <2>1, <2>2
  <2> QED
    BY <2>3 DEF B
<1>3. K = Body(K)
  <2>1. K = CHOOSE k : k = Body(k)
    BY DEF ReplayAfter
  <2> HIDE DEF Body, K, f
  <2> QED
    BY <1>2, <2>1
<1>4. K[0] = Initial /\ \A n \in 1 .. Len(ds) : K[n] = Transition(K[n - 1], ds[n])
  <2> HIDE DEF K
  <2>1. \A n \in 0 .. Len(ds) : K[n] = Body(K)[n]
    BY <1>3
  <2> QED
    BY <2>1
<1>5. f[0] = Initial /\ \A n \in 1 .. Len(ds) : f[n] = Transition(f[n - 1], ds[n])
  <2> HIDE DEF f
  <2>1. \A n \in 0 .. Len(ds) : f[n] = Body(f)[n]
    BY <1>2
  <2> QED
    BY <2>1
<1>6. Replayed(ds) = K[Len(ds)]
  BY DEF Replayed, ReplayAfter
<1> DEFINE N == Len(ds)
<1>7. N \in Nat /\ f[N] = EndAt(ds, N)
  OBVIOUS
<1> HIDE DEF K, f
<1>8. \A i \in 1 .. N : K[i - 1] = f[i - 1] => K[i] = f[i]
  BY <1>4, <1>5
<1> HIDE DEF N
<1>9. \A i \in 0 .. N : K[i] = f[i]
  <2>1. K[0] = f[0]
    BY <1>4, <1>5
  <2> QED
    BY <1>7, <1>8, <2>1, IterationUnique
<1>10. K[N] = f[N]
  BY <1>7, <1>9
<1> QED
  BY <1>6, <1>7, <1>10 DEF N

\* The decisions of the messages of h are the first p ones.
Leads(ds, h, p) ==
    /\ p \in 0 .. Len(ds)
    /\ \A i \in DOMAIN ds : i <= p <=> ds[i].id \in Ids(h)

\* A chain that is aligned with a history rebuilds to the end of its part of the history.
LEMMA RebuiltChain ==
    ASSUME NEW ds \in Seq(RouteDecision), OneDecisionEach(ds), Chain(ds),
           NEW h \in Seq(Entry), Aligned(ds, h),
           \A i, j \in DOMAIN h : h[i].id = h[j].id => i = j
    PROVE  \E p : Leads(ds, h, p) /\ Rebuilt(ds, h) = EndAt(ds, p)
<1> DEFINE K == After(ds, h)
           Led(n, p) ==
               /\ p \in 0 .. Len(ds) /\ K[n] = EndAt(ds, p)
               /\ \A i \in DOMAIN ds : i <= p <=> \E k \in 1 .. n : h[k].id = ds[i].id
           G == {n \in Nat : n <= Len(h) => \E p : Led(n, p)}
<1>1. K[0] = Initial /\ \A n \in 1 .. Len(h) : K[n] = Follow(ds, K[n - 1], h[n])
  BY AfterFacts
<1>2. DOMAIN ds = 1 .. Len(ds) /\ DOMAIN h = 1 .. Len(h) /\ Len(ds) \in Nat /\ Len(h) \in Nat
  OBVIOUS
<1> HIDE DEF K
<1>3. 0 \in G
  <2>1. Led(0, 0)
    BY <1>1, <1>2 DEF EndAt
  <2> HIDE DEF Led
  <2> QED
    BY <2>1
<1>4. ASSUME NEW n \in Nat, n \in G PROVE n + 1 \in G
  <2> SUFFICES ASSUME n + 1 <= Len(h) PROVE \E p : Led(n + 1, p)
    OBVIOUS
  <2>1. PICK p : Led(n, p)
    BY <1>2, <1>4
  <2> DEFINE m == h[n + 1]
             c == Cached(ds, m.id)
  <2>2. n + 1 \in DOMAIN h /\ (n + 1) - 1 = n /\ K[n + 1] = Follow(ds, K[n], m)
    BY <1>1, <1>2
  <2>3. p \in Nat /\ p <= Len(ds)
    BY <1>2, <2>1
  <2>4. CASE c = 0
    <3>1. \A i \in DOMAIN ds : ds[i].id # m.id
      BY <2>4, CachedFacts
    <3>2. K[n + 1] = K[n]
      BY <2>2, <2>4 DEF Follow
    <3>3. Led(n + 1, p)
      BY <2>1, <3>1, <3>2
    <3> QED
      BY <3>3
  <2>5. CASE c # 0
    <3>1. c \in DOMAIN ds /\ ds[c].id = m.id
      BY <2>5, CachedFacts
    <3>2. /\ ds[c].input = m.input
          /\ \A i \in 1 .. c - 1 : \E k \in 1 .. n : ds[i].id = h[k].id
      BY <2>2, <3>1 DEF Aligned
    <3>3. c > p
      <4> SUFFICES ASSUME c <= p PROVE FALSE
        BY <1>2, <2>3, <3>1
      <4>1. PICK k \in 1 .. n : h[k].id = ds[c].id
        BY <2>1, <3>1
      <4>2. k \in DOMAIN h /\ k # n + 1
        BY <1>2
      <4> QED
        BY <2>2, <3>1, <4>1, <4>2
    <3>4. c <= p + 1
      <4> SUFFICES ASSUME p + 1 <= c - 1 PROVE FALSE
        BY <1>2, <2>3, <3>1
      <4>1. p + 1 \in 1 .. c - 1 /\ p + 1 \in DOMAIN ds
        BY <1>2, <2>3, <3>1
      <4>2. \E k \in 1 .. n : ds[p + 1].id = h[k].id
        BY <3>2, <4>1
      <4> QED
        BY <2>1, <2>3, <4>1, <4>2
    <3>5. c = p + 1
      BY <1>2, <2>3, <3>1, <3>3, <3>4
    <3>6. ds[c].from = EndAt(ds, p) /\ Transition(ds[c].from, ds[c]) = ds[c].to
            /\ ds[c].to \in State
      <4>1. c - 1 = p
        BY <2>3, <3>5
      <4> QED
        BY <3>1, <4>1 DEF Chain, Applicable
    <3>7. Transition(K[n], ds[c]) = ds[c].to /\ ds[c].to # Refused
      BY <2>1, <3>6, InitialAssumption
    <3>8. K[n + 1] = ds[c].to
      BY <2>2, <2>5, <3>2, <3>7 DEF Follow
    <3>9. K[n + 1] = EndAt(ds, p + 1)
      BY <2>3, <3>5, <3>8 DEF EndAt
    <3>10. ASSUME NEW i \in DOMAIN ds
           PROVE  i <= p + 1 <=> \E k \in 1 .. n + 1 : h[k].id = ds[i].id
      <4>1. CASE i = c
        BY <2>3, <3>1, <3>5, <4>1
      <4>2. CASE i # c
        <5>1. ds[i].id # m.id
          BY <3>1, <4>2 DEF OneDecisionEach
        <5>2. (\E k \in 1 .. n + 1 : h[k].id = ds[i].id) <=> (\E k \in 1 .. n : h[k].id = ds[i].id)
          BY <5>1
        <5>3. i <= p + 1 <=> i <= p
          BY <1>2, <2>3, <3>5, <4>2
        <5> QED
          BY <2>1, <5>2, <5>3
      <4> QED
        BY <4>1, <4>2
    <3>11. p + 1 \in 0 .. Len(ds)
      BY <1>2, <2>3, <3>1, <3>5
    <3>12. Led(n + 1, p + 1)
      BY <3>9, <3>10, <3>11
    <3> HIDE DEF Led
    <3> QED
      BY <3>12
  <2> QED
    BY <2>4, <2>5
<1>5. Nat \subseteq G
  <2> HIDE DEF G
  <2> QED
    BY <1>3, <1>4, NatInductive
<1>6. PICK p : Led(Len(h), p)
  BY <1>2, <1>5
<1>7. Leads(ds, h, p)
  <2>1. \A i \in DOMAIN ds : i <= p <=> \E k \in DOMAIN h : h[k].id = ds[i].id
    BY <1>2, <1>6
  <2>2. p \in 0 .. Len(ds)
    BY <1>6
  <2> HIDE DEF Led
  <2> QED
    BY <2>1, <2>2 DEF Leads, Ids
<1>8. Rebuilt(ds, h) = EndAt(ds, p)
  BY <1>6, RebuiltIsAfter DEF K
<1> QED
  BY <1>7, <1>8

-----------------------------------------------------------------------------
(* The decisions that an answer keeps *)

\* What is kept are decisions, one for a message, of messages of the history.
LEMMA KeptDecisions ==
    ASSUME NEW ds \in Seq(RouteDecision), OneDecisionEach(ds), NEW h
    PROVE  /\ Kept(ds, h) \in Seq(RouteDecision) /\ OneDecisionEach(Kept(ds, h))
           /\ \A d : Has(Kept(ds, h), d) <=> Has(ds, d) /\ d.id \in Ids(h)
<1> DEFINE T == {d \in ToSet(ds) : d.id \in Ids(h)}
           w == Within(ds, T)
<1>1. Kept(ds, h) = w
  BY DEF Kept
<1>2. \A d : d \in T <=> Has(ds, d) /\ d.id \in Ids(h)
  BY DEF ToSet, Has
<1> HIDE DEF T
<1>3. /\ w \in Seq(RouteDecision)
      /\ \A i, j \in DOMAIN w : w[i] \in T /\
            (i # j => \E k, l \in DOMAIN ds : k # l /\ w[i] = ds[k] /\ w[j] = ds[l])
      /\ \A j \in DOMAIN ds : ds[j] \in T => \E i \in DOMAIN w : w[i] = ds[j]
  <2> DEFINE p == 0
  <2>1. p \in 0 .. Len(ds) /\ \A i \in 1 .. p : ds[i] \in T
    OBVIOUS
  <2> HIDE DEF p
  <2> QED
    BY <2>1, WithinPrefix
<1> HIDE DEF w
<1>4. OneDecisionEach(w)
  BY <1>3 DEF OneDecisionEach
<1>5. ASSUME NEW d PROVE Has(w, d) <=> Has(ds, d) /\ d.id \in Ids(h)
  BY <1>2, <1>3 DEF Has
<1> QED
  BY <1>1, <1>3, <1>4, <1>5

\* Without the decision of a message, the others are left, and none of that message.
LEMMA OtherDecisions ==
    ASSUME NEW ds \in Seq(RouteDecision), OneDecisionEach(ds), NEW m
    PROVE  LET os == RemoveAt(ds, Cached(ds, m))
           IN  /\ os \in Seq(RouteDecision) /\ OneDecisionEach(os)
               /\ \A d : Has(os, d) <=> Has(ds, d) /\ d.id # m
<1> DEFINE c == Cached(ds, m)
           os == RemoveAt(ds, c)
<1>1. /\ c = 0 => \A i \in DOMAIN ds : ds[i].id # m
      /\ c # 0 => c \in DOMAIN ds /\ ds[c].id = m
  BY CachedFacts
<1> HIDE DEF c
<1>2. CASE c = 0
  <2>1. os = ds
    BY <1>2, RemoveAtZero
  <2> QED
    BY <1>1, <1>2, <2>1 DEF c, Has
<1>3. CASE c # 0
  <2>1. c \in 1 .. Len(ds) /\ ds[c].id = m /\ c \in DOMAIN ds
    BY <1>1, <1>3
  <2>2. os \in Seq(RouteDecision)
    BY <2>1, RemoveAtFacts
  <2>3. OneDecisionEach(os)
    <3>1. /\ \A i \in DOMAIN os : Place(c, i) \in DOMAIN ds \ {c} /\ os[i] = ds[Place(c, i)]
          /\ \A i, j \in DOMAIN os : Place(c, i) = Place(c, j) => i = j
      BY <2>1, RemoveAtPlaces
    <3> HIDE DEF os
    <3> QED
      BY <3>1 DEF OneDecisionEach
  <2>4. ASSUME NEW d PROVE Has(os, d) <=> Has(ds, d) /\ d.id # m
    <3>1. Has(os, d) <=> HasBut(ds, c, d)
      BY <2>1, RemoveAtHas
    <3>2. HasBut(ds, c, d) <=> Has(ds, d) /\ d.id # m
      BY <2>1 DEF Has, HasBut, OneDecisionEach
    <3> QED
      BY <3>1, <3>2
  <2> QED
    BY <2>2, <2>3, <2>4 DEF c
<1> QED
  BY <1>2, <1>3

-----------------------------------------------------------------------------
(* One answer *)

\* Whatever the clients do, the decisions that are kept or stored apply where they were made.
BaseInv ==
    /\ ConversationTypeOK
    /\ \A i \in DOMAIN decisions : Applicable(decisions[i])
    /\ snapshot # NoSnapshot =>
          /\ OneDecisionEach(snapshot.decisions)
          /\ \A i \in DOMAIN snapshot.decisions : Applicable(snapshot.decisions[i])

\* The messages of the memory, up to one that is new, or submitted again.
Asks(h) ==
    /\ h \in Seq(Entry) /\ Len(h) \in 1 .. HistoryLimit /\ Len(h) - 1 <= Len(history)
    /\ \A i, j \in DOMAIN h : h[i].id = h[j].id => i = j
    /\ \A i \in 1 .. Len(h) - 1 : h[i] = history[i]

\* What a request asks with, and the messages before the last one.
LEMMA AsksFacts ==
    ASSUME NEW h, Asks(h)
    PROVE  /\ Front(h) \in Seq(Entry) /\ Len(Front(h)) = Len(h) - 1
           /\ \A i \in 1 .. Len(h) - 1 : Front(h)[i] = h[i]
           /\ Last(h) = h[Len(h)] /\ Last(h) \in Entry /\ h # <<>>
           /\ Last(h).id \notin Ids(Front(h))
           /\ Ids(h) = Ids(Front(h)) \union {Last(h).id}
           /\ \A i, j \in DOMAIN Front(h) : Front(h)[i].id = Front(h)[j].id => i = j
<1> DEFINE g == Front(h)
           N == Len(h)
<1>1. h \in Seq(Entry) /\ N \in Nat /\ N >= 1 /\ DOMAIN h = 1 .. N
  BY DEF Asks
<1>2. g \in Seq(Entry) /\ Len(g) = N - 1 /\ \A i \in 1 .. N - 1 : g[i] = h[i]
  <2>1. g = SubSeq(h, 1, N - 1)
    BY DEF Front
  <2> HIDE DEF g
  <2> QED
    BY <1>1, <2>1
<1>3. Last(h) = h[N] /\ h[N] \in Entry /\ h # <<>>
  BY <1>1 DEF Last
<1> HIDE DEF g
<1>4. DOMAIN g = 1 .. N - 1
  BY <1>1, <1>2
<1>5. h[N].id \notin Ids(g)
  BY <1>1, <1>2, <1>4 DEF Ids, Asks
<1>6. Ids(h) = Ids(g) \union {h[N].id}
  <2>1. ASSUME NEW i \in DOMAIN h PROVE h[i].id \in Ids(g) \union {h[N].id}
    <3>1. i # N => i \in DOMAIN g /\ g[i] = h[i]
      BY <1>1, <1>2, <1>4
    <3> QED
      BY <3>1 DEF Ids
  <2>2. ASSUME NEW i \in DOMAIN g PROVE g[i].id \in Ids(h)
    BY <1>1, <1>2, <1>4 DEF Ids
  <2>3. h[N].id \in Ids(h)
    BY <1>1 DEF Ids
  <2> QED
    BY <2>1, <2>2, <2>3 DEF Ids
<1>7. \A i, j \in DOMAIN g : g[i].id = g[j].id => i = j
  BY <1>1, <1>2, <1>4 DEF Asks
<1> HIDE DEF N
<1> QED
  BY <1>2, <1>3, <1>5, <1>6, <1>7 DEF g, N

\* The route for an input is eligible and declared.
LEMMA RouteFacts ==
    ASSUME NEW s \in State, NEW input
    PROVE  RouteOf(s, input) # 0 =>
               RouteOf(s, input) \in DOMAIN Routes /\ Eligible(s, Routes[RouteOf(s, input)])
<1> DEFINE I == {n \in 1 .. Len(Routes) : Eligible(s, Routes[n]) /\ input \in Routes[n].inputs}
           k == RouteOf(s, input)
<1>1. k = IF I # {} THEN Min(I) ELSE 0
  BY DEF RouteOf, SelectInSeq
<1>2. I # {} => Min(I) \in I
  <2>1. I \subseteq Nat
    BY RouteAssumption
  <2> HIDE DEF I
  <2> QED
    BY <2>1, MinFacts
<1> HIDE DEF k
<1>3. k # 0 => k \in I
  BY <1>1, <1>2
<1> QED
  BY <1>3, RouteAssumption DEF k

\* What becomes of the state and the decisions by an answer.
Replays(kept, before, last) ==
    LET c == Cached(kept, last.id)
    IN  /\ c \in DOMAIN kept /\ kept[c].id = last.id /\ kept[c].input = last.input
        /\ kept[c].from = before /\ Applicable(kept[c])
        /\ state' = kept[c].to /\ decisions' = kept /\ dispatched' = "replay"

\* An answer without a decision.
Passes(others, before) ==
    state' = before /\ decisions' = others /\ dispatched' \in {"agentic", "error"}

\* An answer by a new decision.
Decides(others, before, last) ==
    \E d \in RouteDecision :
        /\ d.id = last.id /\ d.input = last.input /\ d.from = before /\ d.to = state'
        /\ Applicable(d) /\ decisions' = Append(others, d) /\ dispatched' = "route"

\* A request is answered in one of the three ways.
LEMMA SourceFacts ==
    ASSUME BaseInv, NEW h, Asks(h), CreateSource(h)
    PROVE  LET kept == Kept(decisions, h)
               before == Rebuilt(kept, Front(h))
               last == Last(h)
               others == RemoveAt(kept, Cached(kept, last.id))
           IN  /\ before \in State
               /\ kept \in Seq(RouteDecision) /\ OneDecisionEach(kept)
               /\ \A d : Has(kept, d) <=> Has(decisions, d) /\ d.id \in Ids(h)
               /\ others \in Seq(RouteDecision) /\ OneDecisionEach(others)
               /\ \A d : Has(others, d) <=> Has(kept, d) /\ d.id # last.id
               /\ history' = h /\ unsaved' = TRUE
               /\ snapshot' = snapshot /\ resumable' = resumable /\ behind' = behind
               /\ \/ Replays(kept, before, last)
                  \/ Passes(others, before)
                  \/ Decides(others, before, last)
<1> DEFINE kept == Kept(decisions, h)
           before == Rebuilt(kept, Front(h))
           last == Last(h)
           others == RemoveAt(kept, Cached(kept, last.id))
<1>1. decisions \in Seq(RouteDecision) /\ OneDecisionEach(decisions)
  BY DEF BaseInv, ConversationTypeOK, OneDecisionEach
<1>2. /\ kept \in Seq(RouteDecision) /\ OneDecisionEach(kept)
      /\ \A d : Has(kept, d) <=> Has(decisions, d) /\ d.id \in Ids(h)
  BY <1>1, KeptDecisions
<1>3. Front(h) \in Seq(Entry) /\ last \in Entry
  BY AsksFacts
<1> HIDE DEF kept, last
<1>4. before \in State
  BY <1>3, RebuiltState
<1>5. /\ others \in Seq(RouteDecision) /\ OneDecisionEach(others)
      /\ \A d : Has(others, d) <=> Has(kept, d) /\ d.id # last.id
  BY <1>2, OtherDecisions
<1>6. /\ history' = h /\ unsaved' = TRUE
      /\ snapshot' = snapshot /\ resumable' = resumable /\ behind' = behind
      /\ \/ /\ Answers(kept, before, last)
            /\ state' = Transition(before, kept[Cached(kept, last.id)])
            /\ decisions' = kept /\ dispatched' = "replay"
         \/ Route(kept, before, last)
  BY DEF CreateSource, Preceding, kept, last
<1> DEFINE c == Cached(kept, last.id)
<1>7. ASSUME /\ Answers(kept, before, last) /\ state' = Transition(before, kept[c])
             /\ decisions' = kept /\ dispatched' = "replay"
      PROVE  Replays(kept, before, last)
  <2>1. c # 0 /\ kept[c].input = last.input /\ kept[c].from = before
    BY <1>7 DEF Answers
  <2>2. c \in DOMAIN kept /\ kept[c].id = last.id
    BY <1>2, <2>1, CachedFacts
  <2>3. Has(decisions, kept[c])
    BY <1>2, <2>2 DEF Has
  <2>4. Applicable(kept[c])
    BY <2>3 DEF Has, BaseInv
  <2> QED
    BY <1>7, <2>1, <2>2, <2>4 DEF Replays, Applicable
<1> DEFINE i == RouteOf(before, last.input)
<1>8. ASSUME Route(kept, before, last)
      PROVE  Passes(others, before) \/ Decides(others, before, last)
  <2>1. \/ state' = before /\ decisions' = others /\ dispatched' \in {"agentic", "error"}
        \/ /\ i # 0 /\ state' = On[before][Routes[i].event]
           /\ decisions' = Append(others, [id |-> last.id, input |-> last.input,
                                           route |-> Routes[i].id, from |-> before, to |-> state'])
           /\ dispatched' = "route"
    BY <1>8 DEF Route
  <2>2. ASSUME i # 0, state' = On[before][Routes[i].event]
        PROVE  LET d == [id |-> last.id, input |-> last.input,
                         route |-> Routes[i].id, from |-> before, to |-> state']
               IN  d \in RouteDecision /\ Applicable(d)
    <3> DEFINE d == [id |-> last.id, input |-> last.input,
                     route |-> Routes[i].id, from |-> before, to |-> state']
    <3>1. i \in DOMAIN Routes /\ Eligible(before, Routes[i])
      BY <1>4, <2>2, RouteFacts
    <3>2. before \in Routes[i].states /\ Routes[i].event \in DOMAIN On[before]
      BY <3>1 DEF Eligible
    <3>3. state' \in State
      BY <1>4, <2>2, <3>2, OnAssumption
    <3>4. d \in RouteDecision
      BY <1>3, <1>4, <3>1, <3>3 DEF RouteDecision, Entry
    <3>5. d.route = Routes[i].id /\ d.from = before /\ d.to = state'
      OBVIOUS
    <3> HIDE DEF d
    <3>6. Transition(d.from, d) = d.to
      BY <2>2, <3>1, <3>2, <3>5 DEF Transition
    <3> QED
      BY <3>3, <3>4, <3>5, <3>6 DEF Applicable, d
  <2> HIDE DEF others, i, before
  <2> QED
    BY <2>1, <2>2 DEF Passes, Decides
<1>9. \/ Replays(kept, before, last)
      \/ Passes(others, before)
      \/ Decides(others, before, last)
  BY <1>6, <1>7, <1>8
<1> QED
  BY <1>2, <1>4, <1>5, <1>6, <1>9 DEF kept, last

\* A sequence without decisions of a message, and one of it at the end.
LEMMA AppendDecision ==
    ASSUME NEW os \in Seq(RouteDecision), OneDecisionEach(os), NEW d \in RouteDecision,
           \A e : Has(os, e) => e.id # d.id
    PROVE  LET ds == Append(os, d)
           IN  /\ ds \in Seq(RouteDecision) /\ OneDecisionEach(ds)
               /\ Cached(ds, d.id) = Len(ds) /\ Len(ds) \in DOMAIN ds /\ ds[Len(ds)] = d
               /\ \A e : Has(ds, e) <=> Has(os, e) \/ e = d
<1> DEFINE ds == Append(os, d)
<1>1. /\ ds \in Seq(RouteDecision) /\ Len(ds) = Len(os) + 1 /\ ds[Len(os) + 1] = d
      /\ DOMAIN ds = 1 .. Len(os) + 1 /\ DOMAIN os = 1 .. Len(os) /\ Len(os) \in Nat
      /\ \A i \in 1 .. Len(os) : ds[i] = os[i]
  OBVIOUS
<1>2. \A e : Has(ds, e) <=> Has(os, e) \/ e = d
  BY AppendHas
<1> HIDE DEF ds
<1>3. OneDecisionEach(ds)
  BY <1>1 DEF OneDecisionEach, Has
<1>4. Len(ds) \in DOMAIN ds /\ ds[Len(ds)] = d
  BY <1>1
<1>5. Cached(ds, d.id) = Len(ds)
  BY <1>1, <1>3, <1>4, CachedFacts
<1> QED
  BY <1>1, <1>2, <1>3, <1>4, <1>5 DEF ds

\* A request keeps the types, and every decision applies.
LEMMA SourceBase ==
    ASSUME BaseInv, NEW h, Asks(h), CreateSource(h)
    PROVE  BaseInv'
<1> DEFINE kept == Kept(decisions, h)
           before == Rebuilt(kept, Front(h))
           last == Last(h)
           others == RemoveAt(kept, Cached(kept, last.id))
<1>1. /\ before \in State
      /\ kept \in Seq(RouteDecision) /\ OneDecisionEach(kept)
      /\ \A d : Has(kept, d) <=> Has(decisions, d) /\ d.id \in Ids(h)
      /\ others \in Seq(RouteDecision) /\ OneDecisionEach(others)
      /\ \A d : Has(others, d) <=> Has(kept, d) /\ d.id # last.id
      /\ history' = h /\ unsaved' = TRUE
      /\ snapshot' = snapshot /\ resumable' = resumable /\ behind' = behind
      /\ \/ Replays(kept, before, last)
         \/ Passes(others, before)
         \/ Decides(others, before, last)
  BY SourceFacts
<1>2. \A d : Has(decisions, d) => Applicable(d)
  BY DEF BaseInv, Has
<1> HIDE DEF kept, before, last, others
<1>3. /\ decisions' \in Seq(RouteDecision) /\ OneDecisionEach(decisions') /\ state' \in State
      /\ \A d : Has(decisions', d) => Applicable(d)
      /\ dispatched' \in {"replay", "route", "agentic", "error"}
  <2>1. CASE Replays(kept, before, last)
    BY <1>1, <1>2, <2>1 DEF Replays, Applicable
  <2>2. CASE Passes(others, before)
    BY <1>1, <1>2, <2>2 DEF Passes
  <2>3. CASE Decides(others, before, last)
    <3>1. PICK d \in RouteDecision :
              /\ d.id = last.id /\ d.to = state' /\ Applicable(d)
              /\ decisions' = Append(others, d) /\ dispatched' = "route"
      BY <2>3 DEF Decides
    <3>2. /\ decisions' \in Seq(RouteDecision) /\ OneDecisionEach(decisions')
          /\ \A e : Has(decisions', e) <=> Has(others, e) \/ e = d
      BY <1>1, <3>1, AppendDecision
    <3> QED
      BY <1>1, <1>2, <3>1, <3>2 DEF Applicable
  <2> QED
    BY <1>1, <2>1, <2>2, <2>3
<1>4. /\ history' \in Seq(Entry) /\ Len(history') <= HistoryLimit
      /\ \A i, j \in DOMAIN history' : history'[i].id = history'[j].id => i = j
  BY <1>1, HistoryLimitAssumption DEF Asks
<1>5. ConversationTypeOK'
  BY <1>1, <1>3, <1>4 DEF BaseInv, ConversationTypeOK, OneDecisionEach
<1>6. \A i \in DOMAIN decisions' : Applicable(decisions'[i])
  BY <1>3 DEF Has
<1> QED
  BY <1>1, <1>5, <1>6 DEF BaseInv

\* After an answer by a route, the memory and the decisions are such that the same
\* question is answered by the same decision.
RetryInv ==
    dispatched \in {"route", "replay"} =>
        LET c == Cached(decisions, Last(history).id)
        IN  /\ history # <<>> /\ \A i \in DOMAIN decisions : decisions[i].id \in Ids(history)
            /\ c # 0 /\ decisions[c].input = Last(history).input
            /\ decisions[c].from = Rebuilt(decisions, Front(history))
            /\ decisions[c].to = state /\ Applicable(decisions[c])

\* A request leaves its own decision in the cache, in the state rebuilt for it.
LEMMA SourceRetry ==
    ASSUME BaseInv, NEW h, Asks(h), CreateSource(h)
    PROVE  RetryInv'
<1> DEFINE kept == Kept(decisions, h)
           before == Rebuilt(kept, Front(h))
           last == Last(h)
           others == RemoveAt(kept, Cached(kept, last.id))
<1>1. /\ kept \in Seq(RouteDecision) /\ OneDecisionEach(kept)
      /\ \A d : Has(kept, d) <=> Has(decisions, d) /\ d.id \in Ids(h)
      /\ others \in Seq(RouteDecision) /\ OneDecisionEach(others)
      /\ \A d : Has(others, d) <=> Has(kept, d) /\ d.id # last.id
      /\ history' = h
      /\ \/ Replays(kept, before, last)
         \/ Passes(others, before)
         \/ Decides(others, before, last)
  BY SourceFacts
<1>2. /\ Front(h) \in Seq(Entry) /\ h # <<>>
      /\ last.id \notin Ids(Front(h)) /\ Ids(h) = Ids(Front(h)) \union {last.id}
  BY AsksFacts
<1>3. before = Rebuilt(kept, Front(h)) /\ last = Last(h)
  OBVIOUS
<1> HIDE DEF kept, before, last, others
<1> SUFFICES ASSUME dispatched' \in {"route", "replay"}
             PROVE  LET c == Cached(decisions', last.id)
                    IN  /\ h # <<>> /\ \A i \in DOMAIN decisions' : decisions'[i].id \in Ids(h)
                        /\ c # 0 /\ decisions'[c].input = last.input
                        /\ decisions'[c].from = Rebuilt(decisions', Front(h))
                        /\ decisions'[c].to = state' /\ Applicable(decisions'[c])
  BY <1>1, <1>3 DEF RetryInv
<1>4. CASE Replays(kept, before, last)
  <2>1. \A i \in DOMAIN kept : kept[i].id \in Ids(h)
    BY <1>1 DEF Has
  <2>2. 0 \notin DOMAIN kept
    BY <1>1
  <2> QED
    BY <1>2, <1>3, <1>4, <2>1, <2>2 DEF Replays
<1>5. CASE Passes(others, before)
  BY <1>5 DEF Passes
<1>6. CASE Decides(others, before, last)
  <2>1. PICK d \in RouteDecision :
            /\ d.id = last.id /\ d.input = last.input /\ d.from = before /\ d.to = state'
            /\ Applicable(d) /\ decisions' = Append(others, d)
    BY <1>6 DEF Decides
  <2>2. /\ decisions' \in Seq(RouteDecision) /\ OneDecisionEach(decisions')
        /\ Cached(decisions', d.id) = Len(decisions') /\ Len(decisions') \in DOMAIN decisions'
        /\ decisions'[Len(decisions')] = d
        /\ \A e : Has(decisions', e) <=> Has(others, e) \/ e = d
    BY <1>1, <2>1, AppendDecision
  <2>3. Rebuilt(decisions', Front(h)) = before
    <3>1. \A e : e.id \in Ids(Front(h)) => (Has(decisions', e) <=> Has(kept, e))
      BY <1>1, <1>2, <2>1, <2>2
    <3> QED
      BY <1>1, <1>2, <1>3, <2>2, <3>1, RebuiltSame
  <2>4. \A i \in DOMAIN decisions' : decisions'[i].id \in Ids(h)
    BY <1>1, <1>2, <2>1, <2>2 DEF Has
  <2>5. Len(decisions') # 0
    BY <2>2
  <2> QED
    BY <1>2, <2>1, <2>2, <2>3, <2>4, <2>5
<1> QED
  BY <1>1, <1>4, <1>5, <1>6

-----------------------------------------------------------------------------
(* Sessions whose clients have not gone on from an outdated snapshot *)

\* The first decisions of a chain, aligned with a longer history.
LEMMA ChainPrefix ==
    ASSUME NEW ds \in Seq(RouteDecision), Chain(ds), NEW p \in 0 .. Len(ds),
           NEW es \in Seq(RouteDecision), Len(es) = p, \A i \in 1 .. p : es[i] = ds[i]
    PROVE  Chain(es) /\ EndAt(es, p) = EndAt(ds, p)
<1>1. /\ DOMAIN es = 1 .. p /\ DOMAIN ds = 1 .. Len(ds) /\ p \in Nat /\ Len(ds) \in Nat
      /\ p <= Len(ds)
  OBVIOUS
<1>2. \A i \in 0 .. p : EndAt(es, i) = EndAt(ds, i)
  BY <1>1 DEF EndAt
<1>3. ASSUME NEW i \in DOMAIN es PROVE Applicable(es[i]) /\ es[i].from = EndAt(es, i - 1)
  <2>1. i \in DOMAIN ds /\ i - 1 \in 0 .. p /\ es[i] = ds[i]
    BY <1>1
  <2> QED
    BY <1>2, <2>1 DEF Chain
<1> QED
  BY <1>1, <1>2, <1>3 DEF Chain

\* A chain goes on with a decision taken where it ends.
LEMMA ChainAppend ==
    ASSUME NEW es \in Seq(RouteDecision), Chain(es), NEW d \in RouteDecision,
           d.from = EndAt(es, Len(es)), Applicable(d)
    PROVE  Chain(Append(es, d)) /\ EndAt(Append(es, d), Len(Append(es, d))) = d.to
<1> DEFINE ds == Append(es, d)
           p == Len(es)
<1>1. /\ DOMAIN ds = 1 .. p + 1 /\ DOMAIN es = 1 .. p /\ p \in Nat /\ Len(ds) = p + 1
      /\ ds[p + 1] = d /\ \A i \in 1 .. p : ds[i] = es[i]
  OBVIOUS
<1>2. d.from = EndAt(es, p)
  OBVIOUS
<1> HIDE DEF ds, p
<1>3. \A i \in 0 .. p : EndAt(ds, i) = EndAt(es, i)
  BY <1>1 DEF EndAt
<1>4. ASSUME NEW i \in DOMAIN ds PROVE Applicable(ds[i]) /\ ds[i].from = EndAt(ds, i - 1)
  <2>1. i - 1 \in 0 .. p
    BY <1>1
  <2>2. CASE i = p + 1
    <3>1. i - 1 = p /\ ds[i] = d
      BY <1>1, <2>2
    <3> QED
      BY <1>2, <1>3, <2>1, <3>1
  <2>3. CASE i # p + 1
    <3>1. i \in DOMAIN es /\ ds[i] = es[i]
      BY <1>1, <2>3
    <3> QED
      BY <1>3, <2>1, <3>1 DEF Chain
  <2> QED
    BY <2>2, <2>3
<1>5. EndAt(ds, Len(ds)) = d.to
  BY <1>1 DEF EndAt
<1> QED
  BY <1>4, <1>5 DEF Chain, ds

\* A stored conversation is a chain that ends in its state; so is that of the session.
SavedInv ==
    ~behind =>
        /\ resumable /\ Chain(decisions) /\ state = EndAt(decisions, Len(decisions))
        /\ Aligned(decisions, history)
        /\ snapshot # NoSnapshot =>
              /\ Chain(snapshot.decisions)
              /\ snapshot.state = EndAt(snapshot.decisions, Len(snapshot.decisions))
        /\ ~unsaved =>
              \/ snapshot = NoSnapshot /\ decisions = <<>>
              \/ snapshot # NoSnapshot /\ snapshot.decisions = decisions

\* What is kept for a question begins with the decisions of the messages before it; at
\* most one follows, that of the question itself.
LEMMA KeptShape ==
    ASSUME BaseInv, ~behind, SavedInv, NEW h, Asks(h)
    PROVE  \E p :
               LET g == Front(h)
                   kept == Kept(decisions, h)
                   last == Last(h)
                   others == RemoveAt(kept, Cached(kept, last.id))
               IN  /\ Leads(decisions, g, p) /\ Rebuilt(kept, g) = EndAt(decisions, p)
                   /\ others \in Seq(RouteDecision) /\ Len(others) = p
                   /\ \A i \in 1 .. p : others[i] = decisions[i]
                   /\ Cached(kept, last.id) # 0
                        => kept = Append(others, kept[Cached(kept, last.id)])
<1> DEFINE g == Front(h)
           kept == Kept(decisions, h)
           last == Last(h)
           ds == decisions
           c == Cached(kept, last.id)
           others == RemoveAt(kept, c)
<1>1. /\ ds \in Seq(RouteDecision) /\ OneDecisionEach(ds) /\ Chain(ds) /\ Aligned(ds, history)
      /\ history \in Seq(Entry)
  BY DEF BaseInv, ConversationTypeOK, OneDecisionEach, SavedInv
<1>2. /\ g \in Seq(Entry) /\ Len(g) = Len(h) - 1 /\ \A i \in 1 .. Len(h) - 1 : g[i] = h[i]
      /\ last.id \notin Ids(g) /\ Ids(h) = Ids(g) \union {last.id}
      /\ \A i, j \in DOMAIN g : g[i].id = g[j].id => i = j
  BY AsksFacts
<1>3. /\ Len(h) - 1 <= Len(history) /\ \A i \in 1 .. Len(h) - 1 : h[i] = history[i]
      /\ Len(h) \in Nat /\ Len(history) \in Nat
  BY <1>1, LenProperties DEF Asks
<1> HIDE DEF g, last, ds
<1>4. Aligned(ds, g)
  <2>1. \A l \in DOMAIN g : l \in DOMAIN history /\ \A k \in 1 .. l : g[k] = history[k]
    <3>1. DOMAIN g = 1 .. Len(h) - 1 /\ DOMAIN history = 1 .. Len(history)
      BY <1>1, <1>2
    <3> QED
      BY <1>2, <1>3, <3>1
  <2> SUFFICES ASSUME NEW j \in DOMAIN ds, NEW l \in DOMAIN g, ds[j].id = g[l].id
               PROVE  /\ ds[j].input = g[l].input
                      /\ \A i \in 1 .. j - 1 : \E k \in 1 .. l - 1 : ds[i].id = g[k].id
    BY DEF Aligned
  <2>2. DOMAIN g = 1 .. Len(g) /\ Len(g) \in Nat
    BY <1>2
  <2>3. l \in DOMAIN history /\ g[l] = history[l] /\ \A k \in 1 .. l - 1 : g[k] = history[k]
    BY <2>1, <2>2
  <2> QED
    BY <1>1, <2>3 DEF Aligned
<1>5. PICK p : Leads(ds, g, p) /\ Rebuilt(ds, g) = EndAt(ds, p)
  BY <1>1, <1>2, <1>4, RebuiltChain
<1>6. /\ kept \in Seq(RouteDecision) /\ OneDecisionEach(kept)
      /\ \A d : Has(kept, d) <=> Has(ds, d) /\ d.id \in Ids(h)
  BY <1>1, KeptDecisions DEF ds
<1>7. Rebuilt(kept, g) = Rebuilt(ds, g)
  <2> HIDE DEF kept
  <2> QED
    BY <1>1, <1>2, <1>6, RebuiltSame
<1> DEFINE T == {d \in ToSet(ds) : d.id \in Ids(h)}
<1>8. kept = Within(ds, T)
  BY DEF Kept, ds
<1>9. DOMAIN ds = 1 .. Len(ds) /\ p \in 0 .. Len(ds)
        /\ \A i \in DOMAIN ds : i <= p <=> ds[i].id \in Ids(g)
  BY <1>1, <1>5 DEF Leads
<1>10. \A i \in 1 .. p : ds[i] \in T
  <2>1. \A i \in 1 .. p : i \in DOMAIN ds
    BY <1>9
  <2> QED
    BY <1>2, <1>9, <2>1 DEF ToSet
<1>11. \A d \in T : d.id \in Ids(h)
  OBVIOUS
<1> HIDE DEF T, kept
<1>12. /\ p <= Len(kept) /\ \A i \in 1 .. p : kept[i] = ds[i]
       /\ \A i \in p + 1 .. Len(kept) : \E j \in p + 1 .. Len(ds) : kept[i] = ds[j]
            /\ kept[i] \in T
  <2> DEFINE w == Within(ds, T)
  <2>1. /\ p <= Len(w) /\ \A i \in 1 .. p : w[i] = ds[i]
        /\ \A i \in p + 1 .. Len(w) : \E j \in p + 1 .. Len(ds) : w[i] = ds[j] /\ w[i] \in T
    BY <1>1, <1>9, <1>10, WithinPrefix
  <2> HIDE DEF w
  <2> QED
    BY <1>8, <2>1 DEF w
<1>13. DOMAIN kept = 1 .. Len(kept) /\ Len(kept) \in Nat /\ p \in Nat /\ Len(ds) \in Nat
  BY <1>1, <1>6, <1>9
<1>14. \A i \in 1 .. p : kept[i].id \in Ids(g)
  <2>1. \A i \in 1 .. p : i \in DOMAIN ds /\ i <= p
    BY <1>9
  <2> QED
    BY <1>9, <1>12, <2>1
<1>15. ASSUME NEW i \in p + 1 .. Len(kept) PROVE kept[i].id = last.id
  <2>1. PICK j \in p + 1 .. Len(ds) : kept[i] = ds[j] /\ kept[i] \in T
    BY <1>12
  <2>2. j \in DOMAIN ds /\ ~(j <= p)
    BY <1>9, <1>13
  <2> QED
    BY <1>2, <1>9, <1>11, <2>1, <2>2
<1>16. CASE Len(kept) = p
  <2>1. c = 0
    <3>1. \A i \in DOMAIN kept : kept[i].id # last.id
      BY <1>2, <1>13, <1>14, <1>16
    <3> QED
      BY <1>6, <3>1, CachedFacts
  <2>2. others = kept
    BY <1>6, <2>1, RemoveAtZero
  <2> QED
    BY <1>5, <1>6, <1>7, <1>12, <1>16, <2>1, <2>2 DEF g, last, ds, kept
<1>17. CASE Len(kept) # p
  <2> DEFINE n == Len(kept)
  <2>0. n \in Nat /\ p \in Nat /\ p <= n /\ n # p /\ n = Len(kept) /\ DOMAIN kept = 1 .. n
    BY <1>12, <1>13, <1>17
  <2> HIDE DEF n
  <2>1. p + 1 \in DOMAIN kept /\ kept[p + 1].id = last.id
    <3>1. p + 1 \in p + 1 .. n /\ p + 1 \in 1 .. n
      BY <2>0
    <3> QED
      BY <1>15, <2>0, <3>1
  <2>2. c = p + 1
    BY <1>6, <2>1, CachedFacts
  <2>3. Len(kept) = p + 1
    <3> SUFFICES ASSUME n >= p + 2 PROVE FALSE
      BY <2>0
    <3>0. p + 2 \in p + 1 .. n /\ p + 2 \in 1 .. n
      BY <2>0
    <3>1. p + 2 \in DOMAIN kept /\ kept[p + 2].id = last.id
      BY <1>15, <2>0, <3>0
    <3> QED
      BY <1>6, <1>13, <2>1, <3>1 DEF OneDecisionEach
  <2> HIDE DEF c
  <2>4. /\ others \in Seq(RouteDecision) /\ Len(others) = p
        /\ \A i \in 1 .. p : others[i] = kept[i]
    <3>1. c \in 1 .. Len(kept)
      BY <1>13, <2>2, <2>3
    <3>2. /\ others \in Seq(RouteDecision) /\ Len(others) = Len(kept) - 1
          /\ \A i \in 1 .. Len(kept) - 1 : others[i] = IF i < c THEN kept[i] ELSE kept[i + 1]
      BY <1>6, <3>1, RemoveAtFacts
    <3> HIDE DEF others
    <3> QED
      BY <1>13, <2>2, <2>3, <3>2
  <2> HIDE DEF others
  <2>5. kept = Append(others, kept[c])
    <3> DEFINE t == Append(others, kept[c])
    <3>1. kept[c] \in RouteDecision
      BY <1>6, <2>1, <2>2
    <3>2. /\ t \in Seq(RouteDecision) /\ Len(t) = p + 1 /\ t[p + 1] = kept[c]
          /\ \A i \in 1 .. p : t[i] = others[i]
      BY <1>13, <2>4, <3>1
    <3> HIDE DEF t
    <3>3. ASSUME NEW i \in 1 .. Len(kept) PROVE kept[i] = t[i]
      <4>1. CASE i = p + 1
        BY <2>2, <3>2, <4>1
      <4>2. CASE i # p + 1
        <5>1. i \in 1 .. p
          BY <1>13, <2>3, <4>2
        <5> QED
          BY <2>4, <3>2, <5>1
      <4> QED
        BY <4>1, <4>2
    <3>4. kept = t
      BY <1>6, <2>3, <3>2, <3>3, SeqEqual
    <3> QED
      BY <3>4 DEF t
  <2>6. \A i \in 1 .. p : others[i] = ds[i]
    BY <1>12, <2>4
  <2> QED
    BY <1>5, <1>7, <2>4, <2>5, <2>6 DEF g, last, ds, kept, c, others
<1> QED
  BY <1>16, <1>17

\* A part of a history, and a last message with its new input, are in order with what comes
\* first of the decisions.
LEMMA PrefixAligned ==
    ASSUME NEW ds \in Seq(RouteDecision), Aligned(ds, history), history \in Seq(Entry),
           NEW h, Asks(h), NEW p, Leads(ds, Front(h), p),
           NEW es \in Seq(RouteDecision), Len(es) = p, \A i \in 1 .. p : es[i] = ds[i]
    PROVE  Aligned(es, h) /\ \A i \in DOMAIN es : es[i].id \in Ids(Front(h))
<1> DEFINE g == Front(h)
<1>1. /\ Len(h) \in Nat /\ Len(h) - 1 <= Len(history) /\ Len(history) \in Nat
      /\ \A i \in 1 .. Len(h) - 1 : h[i] = history[i]
      /\ DOMAIN h = 1 .. Len(h) /\ DOMAIN history = 1 .. Len(history)
  BY LenProperties DEF Asks
<1>2. Last(h) = h[Len(h)] /\ Last(h).id \notin Ids(g)
  BY AsksFacts
<1> HIDE DEF g
<1>3. /\ DOMAIN es = 1 .. p /\ DOMAIN ds = 1 .. Len(ds) /\ p \in 0 .. Len(ds)
      /\ \A i \in DOMAIN ds : i <= p <=> ds[i].id \in Ids(g)
  BY DEF Leads, g
<1>4. \A i \in DOMAIN es : i \in DOMAIN ds /\ es[i] = ds[i] /\ es[i].id \in Ids(g)
  BY <1>3
<1>5. ASSUME NEW j \in DOMAIN es, NEW l \in DOMAIN h, es[j].id = h[l].id
      PROVE  /\ es[j].input = h[l].input
             /\ \A i \in 1 .. j - 1 : \E k \in 1 .. l - 1 : es[i].id = h[k].id
  <2>1. l # Len(h)
    BY <1>2, <1>4, <1>5
  <2>2. l \in DOMAIN history /\ h[l] = history[l] /\ \A k \in 1 .. l - 1 : h[k] = history[k]
    <3>1. l \in 1 .. Len(h) - 1
      BY <1>1, <2>1
    <3>2. 1 .. l - 1 \subseteq 1 .. Len(h) - 1
      BY <1>1, <3>1
    <3> QED
      BY <1>1, <3>1, <3>2
  <2>3. /\ ds[j].input = history[l].input
        /\ \A i \in 1 .. j - 1 : \E k \in 1 .. l - 1 : ds[i].id = history[k].id
    BY <1>4, <1>5, <2>2 DEF Aligned
  <2>4. \A i \in 1 .. j - 1 : i \in DOMAIN es /\ es[i] = ds[i]
    BY <1>3, <1>4
  <2> QED
    BY <1>4, <2>2, <2>3, <2>4
<1>6. Aligned(es, h)
  BY <1>5 DEF Aligned
<1> QED
  BY <1>4, <1>6 DEF g

\* A decision for the last message of a history keeps the decisions in order with it.
LEMMA AppendAligned ==
    ASSUME NEW h, Asks(h), NEW es \in Seq(RouteDecision), Aligned(es, h),
           \A i \in DOMAIN es : es[i].id \in Ids(Front(h)),
           NEW d \in RouteDecision, d.id = Last(h).id, d.input = Last(h).input
    PROVE  Aligned(Append(es, d), h)
<1> DEFINE ds == Append(es, d)
           p == Len(es)
<1>1. /\ DOMAIN ds = 1 .. p + 1 /\ DOMAIN es = 1 .. p /\ p \in Nat
      /\ ds[p + 1] = d /\ \A i \in 1 .. p : ds[i] = es[i]
  OBVIOUS
<1>2. /\ Front(h) \in Seq(Entry) /\ Len(Front(h)) = Len(h) - 1
      /\ \A i \in 1 .. Len(h) - 1 : Front(h)[i] = h[i]
      /\ Last(h) = h[Len(h)] /\ Last(h).id \notin Ids(Front(h))
  BY AsksFacts
<1>3. DOMAIN Front(h) = 1 .. Len(h) - 1
  BY <1>2
<1>4. DOMAIN h = 1 .. Len(h) /\ \A i, j \in DOMAIN h : h[i].id = h[j].id => i = j
  BY DEF Asks
<1> HIDE DEF ds, p
<1>5. ASSUME NEW j \in DOMAIN ds, NEW l \in DOMAIN h, ds[j].id = h[l].id
      PROVE  /\ ds[j].input = h[l].input
             /\ \A i \in 1 .. j - 1 : \E k \in 1 .. l - 1 : ds[i].id = h[k].id
  <2>1. CASE j = p + 1
    <3>1. l = Len(h)
      <4>1. Len(h) \in DOMAIN h
        BY <1>4
      <4> QED
        BY <1>1, <1>2, <1>4, <1>5, <2>1, <4>1
    <3>2. ASSUME NEW i \in 1 .. p PROVE ds[i] = es[i]
                   /\ \E k \in 1 .. Len(h) - 1 : es[i].id = h[k].id
      <4>1. ds[i] = es[i] /\ es[i].id \in Ids(Front(h))
        BY <1>1
      <4>2. PICK k \in DOMAIN Front(h) : Front(h)[k].id = es[i].id
        BY <4>1 DEF Ids
      <4> QED
        BY <1>2, <1>3, <4>1, <4>2
    <3>3. (p + 1) - 1 = p /\ ds[j] = d /\ h[l] = Last(h)
      BY <1>1, <1>2, <2>1, <3>1
    <3>4. \A i \in 1 .. j - 1 : \E k \in 1 .. l - 1 : ds[i].id = h[k].id
      BY <2>1, <3>1, <3>2, <3>3
    <3> QED
      BY <3>3, <3>4
  <2>2. CASE j # p + 1
    <3>1. j \in DOMAIN es /\ ds[j] = es[j] /\ \A i \in 1 .. j - 1 : ds[i] = es[i]
      BY <1>1, <2>2
    <3> QED
      BY <1>5, <3>1 DEF Aligned
  <2> QED
    BY <2>1, <2>2
<1> QED
  BY <1>5 DEF Aligned, ds

\* A request of a client that was not behind keeps the chain.
LEMMA SourceSaved ==
    ASSUME BaseInv, SavedInv, NEW h, Asks(h), CreateSource(h)
    PROVE  SavedInv'
<1> DEFINE kept == Kept(decisions, h)
           g == Front(h)
           before == Rebuilt(kept, g)
           last == Last(h)
           c == Cached(kept, last.id)
           others == RemoveAt(kept, c)
<1>1. /\ kept \in Seq(RouteDecision)
      /\ history' = h /\ unsaved' = TRUE
      /\ snapshot' = snapshot /\ resumable' = resumable /\ behind' = behind
      /\ \/ Replays(kept, before, last)
         \/ Passes(others, before)
         \/ Decides(others, before, last)
  BY SourceFacts
<1> SUFFICES ASSUME ~behind
             PROVE  Chain(decisions') /\ state' = EndAt(decisions', Len(decisions'))
                      /\ Aligned(decisions', h)
  BY <1>1 DEF SavedInv
<1>2. /\ decisions \in Seq(RouteDecision) /\ Chain(decisions) /\ Aligned(decisions, history)
      /\ history \in Seq(Entry)
  BY DEF BaseInv, ConversationTypeOK, SavedInv
<1>3. PICK p : /\ Leads(decisions, g, p) /\ before = EndAt(decisions, p)
               /\ others \in Seq(RouteDecision) /\ Len(others) = p
               /\ \A i \in 1 .. p : others[i] = decisions[i]
               /\ c # 0 => kept = Append(others, kept[c])
  BY KeptShape
<1> HIDE DEF kept, before, c, others
<1>4. Chain(others) /\ EndAt(others, p) = before
  <2>1. p \in 0 .. Len(decisions)
    BY <1>3 DEF Leads
  <2> QED
    BY <1>2, <1>3, <2>1, ChainPrefix
<1>5. Aligned(others, h) /\ \A i \in DOMAIN others : others[i].id \in Ids(g)
  BY <1>2, <1>3, PrefixAligned
<1>6. ASSUME NEW d \in RouteDecision, d.id = last.id, d.input = last.input, d.from = before,
             d.to = state', Applicable(d), decisions' = Append(others, d)
      PROVE  Chain(decisions') /\ state' = EndAt(decisions', Len(decisions'))
               /\ Aligned(decisions', h)
  <2>1. d.from = EndAt(others, Len(others))
    BY <1>3, <1>4, <1>6
  <2>2. Chain(decisions') /\ EndAt(decisions', Len(decisions')) = d.to
    BY <1>3, <1>4, <1>6, <2>1, ChainAppend
  <2>3. Aligned(decisions', h)
    BY <1>3, <1>5, <1>6, AppendAligned
  <2> QED
    BY <1>6, <2>2, <2>3
<1>7. CASE Replays(kept, before, last)
  <2>1. /\ c \in DOMAIN kept /\ kept[c].id = last.id /\ kept[c].input = last.input
        /\ kept[c].from = before /\ Applicable(kept[c]) /\ kept[c].to = state' /\ decisions' = kept
    BY <1>7 DEF Replays, c
  <2>2. c # 0 /\ kept[c] \in RouteDecision
    BY <1>1, <2>1
  <2> QED
    BY <1>3, <1>6, <2>1, <2>2
<1>8. CASE Passes(others, before)
  BY <1>3, <1>4, <1>5, <1>8 DEF Passes
<1>9. CASE Decides(others, before, last)
  BY <1>6, <1>9 DEF Decides
<1> QED
  BY <1>1, <1>7, <1>8, <1>9

-----------------------------------------------------------------------------
(* The conversation *)

\* The inductive invariant.
ConversationInv == BaseInv /\ RetryInv /\ SavedInv

\* A new message asks.
LEMMA SendAsks ==
    ASSUME ConversationTypeOK, Len(history) < HistoryLimit,
           NEW m \in Message \ Ids(history), NEW i \in Input
    PROVE  Asks(Append(history, [id |-> m, input |-> i]))
<1> DEFINE e == [id |-> m, input |-> i]
           h == Append(history, e)
<1>1. history \in Seq(Entry) /\ e \in Entry /\ e.id = m /\ Len(history) \in Nat
      /\ HistoryLimit \in Nat
  BY HistoryLimitAssumption DEF ConversationTypeOK, Entry
<1> HIDE DEF e
<1>2. /\ h \in Seq(Entry) /\ Len(h) = Len(history) + 1 /\ DOMAIN h = 1 .. Len(history) + 1
      /\ DOMAIN history = 1 .. Len(history)
      /\ h[Len(history) + 1] = e /\ \A k \in 1 .. Len(history) : h[k] = history[k]
  BY <1>1
<1> HIDE DEF h
<1>3. \A j, k \in DOMAIN h : h[j].id = h[k].id => j = k
  BY <1>1, <1>2 DEF Ids, ConversationTypeOK
<1>4. Len(h) \in 1 .. HistoryLimit /\ Len(h) - 1 <= Len(history)
  BY <1>1, <1>2
<1>5. \A k \in 1 .. Len(h) - 1 : h[k] = history[k]
  BY <1>1, <1>2
<1> QED
  BY <1>2, <1>3, <1>4, <1>5 DEF Asks, h, e

\* An earlier history asks again.
LEMMA SubmittedAgainAsks ==
    ASSUME ConversationTypeOK, NEW k \in 1 .. Len(history), NEW h \in Seq(Entry), Len(h) = k,
           \A n \in 1 .. k - 1 : h[n] = history[n], h[k].id = history[k].id
    PROVE  Asks(h)
<1>1. /\ history \in Seq(Entry) /\ Len(history) \in Nat /\ k \in Nat /\ k >= 1
           /\ k <= Len(history)
      /\ DOMAIN h = 1 .. k /\ DOMAIN history = 1 .. Len(history)
      /\ Len(history) <= HistoryLimit /\ HistoryLimit \in Nat
  BY HistoryLimitAssumption DEF ConversationTypeOK
<1>2. \A n \in 1 .. k : n \in DOMAIN history /\ h[n].id = history[n].id
  BY <1>1
<1>3. \A i, j \in DOMAIN h : h[i].id = h[j].id => i = j
  BY <1>1, <1>2 DEF ConversationTypeOK
<1> QED
  BY <1>1, <1>3 DEF Asks

\* The first messages of a history.
LEMMA SubmittedFacts ==
    ASSUME ConversationTypeOK, NEW k \in 0 .. Len(history)
    PROVE  /\ SubSeq(history, 1, k) \in Seq(Entry) /\ Len(SubSeq(history, 1, k)) = k
           /\ \A n \in 1 .. k : SubSeq(history, 1, k)[n] = history[n]
<1>1. history \in Seq(Entry)
  BY DEF ConversationTypeOK
<1> QED
  BY <1>1

\* A retry, or the regenerating of an earlier answer, asks.
LEMMA RegenerateAsks ==
    ASSUME ConversationTypeOK, NEW k \in 1 .. Len(history)
    PROVE  Asks(SubSeq(history, 1, k))
<1> DEFINE h == SubSeq(history, 1, k)
<1>0. history \in Seq(Entry)
  BY DEF ConversationTypeOK
<1>1. h \in Seq(Entry) /\ Len(h) = k /\ \A n \in 1 .. k : h[n] = history[n]
  <2>1. k \in 0 .. Len(history)
    BY <1>0
  <2> QED
    BY <2>1, SubmittedFacts
<1> HIDE DEF h
<1>2. k \in 1 .. k /\ \A n \in 1 .. k - 1 : n \in 1 .. k
  BY <1>0
<1>3. Asks(h)
  BY <1>1, <1>2, SubmittedAgainAsks
<1> QED
  BY <1>3 DEF h

\* An edited message asks.
LEMMA EditAsks ==
    ASSUME ConversationTypeOK, NEW k \in 1 .. Len(history), NEW i \in Input
    PROVE  Asks([SubSeq(history, 1, k) EXCEPT ![k].input = i])
<1> DEFINE t == SubSeq(history, 1, k)
           h == [t EXCEPT ![k].input = i]
<1>0. history \in Seq(Entry)
  BY DEF ConversationTypeOK
<1>1. t \in Seq(Entry) /\ Len(t) = k /\ \A n \in 1 .. k : t[n] = history[n]
  <2>1. k \in 0 .. Len(history)
    BY <1>0
  <2> QED
    BY <2>1, SubmittedFacts
<1> HIDE DEF t
<1>2. k \in DOMAIN t /\ \A n \in 1 .. k - 1 : n \in DOMAIN t /\ n # k /\ n \in 1 .. k
  BY <1>0, <1>1
<1> DEFINE e == [t[k] EXCEPT !.input = i]
<1>3. e \in Entry /\ e.id = t[k].id
  <2>1. t[k] \in Entry
    BY <1>1, <1>2
  <2> QED
    BY <2>1 DEF Entry
<1>4. h = [t EXCEPT ![k] = e]
  OBVIOUS
<1> HIDE DEF h, e
<1>5. h \in Seq(Entry) /\ Len(h) = k /\ h[k] = e /\ \A n \in DOMAIN t \ {k} : h[n] = t[n]
  BY <1>1, <1>2, <1>3, <1>4
<1>6. Asks(h)
  <2>1. \A n \in 1 .. k - 1 : h[n] = history[n]
    BY <1>1, <1>2, <1>5
  <2>2. h[k].id = history[k].id
    BY <1>1, <1>2, <1>3, <1>5
  <2> QED
    BY <1>5, <2>1, <2>2, SubmittedAgainAsks
<1> QED
  BY <1>6 DEF h, t

\* Whatever is sent, retried, regenerated or edited, is such a question.
LEMMA QuestionsAreAsked ==
    ASSUME ConversationTypeOK, Send \/ Regenerate \/ Edit
    PROVE  \E h : Asks(h) /\ CreateSource(h)
<1>1. CASE Send
  BY <1>1, SendAsks DEF Send
<1>2. CASE Regenerate
  BY <1>2, RegenerateAsks DEF Regenerate
<1>3. CASE Edit
  BY <1>3, EditAsks DEF Edit
<1> QED
  BY <1>1, <1>2, <1>3

\* No decisions are a chain, in order with every history.
LEMMA EmptyConversation ==
    /\ <<>> \in Seq(RouteDecision) /\ OneDecisionEach(<<>>) /\ Chain(<<>>)
    /\ EndAt(<<>>, Len(<<>>)) = Initial /\ \A h : Aligned(<<>>, h)
    /\ \A i \in DOMAIN <<>> : Applicable(<<>>[i])
  BY DEF OneDecisionEach, Chain, EndAt, Aligned

\* A session begins without decisions.
LEMMA ConversationInitInv == ConversationInit => ConversationInv
<1> SUFFICES ASSUME ConversationInit PROVE ConversationInv
  OBVIOUS
<1>1. /\ history = <<>> /\ decisions = <<>> /\ state = Initial /\ dispatched = "none"
      /\ unsaved = FALSE /\ snapshot = NoSnapshot /\ resumable = TRUE /\ behind = FALSE
  BY DEF ConversationInit
<1>2. BaseInv
  <2>1. history \in Seq(Entry) /\ Len(history) <= HistoryLimit /\ DOMAIN history = {}
    BY <1>1, HistoryLimitAssumption
  <2>2. ConversationTypeOK
    BY <1>1, <2>1, EmptyConversation, InitialAssumption DEF ConversationTypeOK,
       OneDecisionEach
  <2> QED
    BY <1>1, <2>2, EmptyConversation DEF BaseInv
<1>3. RetryInv
  BY <1>1 DEF RetryInv
<1>4. SavedInv
  BY <1>1, EmptyConversation DEF SavedInv
<1> QED
  BY <1>2, <1>3, <1>4 DEF ConversationInv

\* A persist stores the chain.
LEMMA PersistStep == ASSUME ConversationInv, Persist PROVE ConversationInv'
<1>0. BaseInv /\ RetryInv /\ SavedInv
  BY DEF ConversationInv
<1> DEFINE new == [state |-> state, decisions |-> decisions]
<1>1. /\ snapshot' = new /\ unsaved' = FALSE
      /\ UNCHANGED <<history, decisions, state, dispatched, resumable, behind>>
  BY DEF Persist
<1>2. new \in [state : State, decisions : Seq(RouteDecision)] /\ new # NoSnapshot
      /\ new.state = state /\ new.decisions = decisions
  BY <1>0, NoSnapshotAssumption DEF BaseInv, ConversationTypeOK
<1> HIDE DEF new
<1>3. BaseInv'
  <2>1. ConversationTypeOK'
    BY <1>0, <1>1, <1>2 DEF BaseInv, ConversationTypeOK
  <2>2. OneDecisionEach(decisions)
    BY <1>0 DEF BaseInv, ConversationTypeOK, OneDecisionEach
  <2> QED
    BY <1>0, <1>1, <1>2, <2>1, <2>2 DEF BaseInv
<1>4. RetryInv'
  BY <1>0, <1>1 DEF RetryInv
<1>5. SavedInv'
  BY <1>0, <1>1, <1>2 DEF SavedInv
<1> QED
  BY <1>3, <1>4, <1>5 DEF ConversationInv

\* A shorter history is in order with the same decisions.
LEMMA ShorterAligned ==
    ASSUME NEW ds, NEW h, NEW g, Aligned(ds, h),
           \A l \in DOMAIN g : l \in DOMAIN h /\ g[l] = h[l]
                                 /\ \A k \in 1 .. l - 1 : g[k] = h[k]
    PROVE  Aligned(ds, g)
  BY DEF Aligned

\* A session resumes with the stored chain and with what the memory has of the history.
LEMMA ResumeStep == ASSUME ConversationInv, ResumeConversation PROVE ConversationInv'
<1>0. BaseInv /\ SavedInv /\ ConversationTypeOK
  BY DEF ConversationInv, BaseInv
<1>1. PICK n \in 0 .. Len(history) : history' = SubSeq(history, 1, n)
  BY DEF ResumeConversation
<1>2. /\ dispatched' = "none" /\ behind' = (behind \/ unsaved) /\ unsaved' = FALSE
      /\ snapshot' = snapshot
      /\ \/ /\ snapshot = NoSnapshot
            /\ decisions' = <<>> /\ state' = Initial /\ resumable' = resumable
         \/ /\ snapshot # NoSnapshot
            /\ Replayed(snapshot.decisions) = snapshot.state
            /\ decisions' = snapshot.decisions /\ state' = snapshot.state
            /\ resumable' = resumable
         \/ /\ snapshot # NoSnapshot
            /\ Replayed(snapshot.decisions) # snapshot.state
            /\ resumable' = FALSE /\ decisions' = decisions /\ state' = state
  BY DEF ResumeConversation
<1>3. /\ history' \in Seq(Entry) /\ Len(history') = n
      /\ \A k \in 1 .. n : history'[k] = history[k]
  BY <1>0, <1>1, SubmittedFacts
<1>4. /\ history \in Seq(Entry) /\ Len(history) \in Nat /\ n \in Nat /\ n <= Len(history)
      /\ DOMAIN history' = 1 .. n /\ DOMAIN history = 1 .. Len(history)
      /\ Len(history) <= HistoryLimit /\ HistoryLimit \in Nat
  <2>1. history \in Seq(Entry) /\ Len(history) <= HistoryLimit
    BY <1>0 DEF ConversationTypeOK
  <2> QED
    BY <1>3, <2>1, HistoryLimitAssumption
<1>5. /\ Len(history') <= HistoryLimit
      /\ \A i, j \in DOMAIN history' : history'[i].id = history'[j].id => i = j
  BY <1>0, <1>3, <1>4 DEF ConversationTypeOK
<1>6. snapshot # NoSnapshot =>
          /\ snapshot.state \in State /\ snapshot.decisions \in Seq(RouteDecision)
          /\ OneDecisionEach(snapshot.decisions)
          /\ \A i \in DOMAIN snapshot.decisions : Applicable(snapshot.decisions[i])
  BY <1>0 DEF BaseInv, ConversationTypeOK
<1>7. /\ decisions' \in Seq(RouteDecision) /\ OneDecisionEach(decisions') /\ state' \in State
      /\ \A i \in DOMAIN decisions' : Applicable(decisions'[i])
      /\ resumable' \in BOOLEAN
  <2>1. /\ decisions \in Seq(RouteDecision) /\ OneDecisionEach(decisions) /\ state \in State
        /\ resumable \in BOOLEAN
        /\ \A i \in DOMAIN decisions : Applicable(decisions[i])
    BY <1>0 DEF BaseInv, ConversationTypeOK, OneDecisionEach
  <2>2. CASE decisions' = <<>> /\ state' = Initial /\ resumable' = resumable
    BY <2>1, <2>2, EmptyConversation, InitialAssumption
  <2>3. CASE /\ snapshot # NoSnapshot /\ decisions' = snapshot.decisions
             /\ state' = snapshot.state /\ resumable' = resumable
    BY <1>6, <2>1, <2>3
  <2>4. CASE resumable' = FALSE /\ decisions' = decisions /\ state' = state
    BY <2>1, <2>4
  <2> QED
    BY <1>2, <2>2, <2>3, <2>4
<1>8. BaseInv'
  <2>1. ConversationTypeOK'
    BY <1>0, <1>2, <1>3, <1>5, <1>7 DEF ConversationTypeOK, OneDecisionEach
  <2> QED
    BY <1>0, <1>2, <1>6, <1>7, <2>1 DEF BaseInv
<1>9. RetryInv'
  BY <1>2 DEF RetryInv
<1>10. SavedInv'
  <2> SUFFICES ASSUME ~behind' PROVE SavedInv'
    BY DEF SavedInv
  <2>1. ~behind /\ ~unsaved
    BY <1>0, <1>2 DEF ConversationTypeOK
  <2>2. CASE snapshot = NoSnapshot
    BY <1>0, <1>2, <2>1, <2>2, EmptyConversation DEF SavedInv
  <2>3. CASE snapshot # NoSnapshot
    <3>1. /\ snapshot.decisions = decisions /\ Chain(decisions) /\ resumable
          /\ snapshot.state = EndAt(decisions, Len(decisions)) /\ Aligned(decisions, history)
      BY <1>0, <2>1, <2>3 DEF SavedInv
    <3>2. Replayed(snapshot.decisions) = snapshot.state
      BY <1>6, <2>3, <3>1, ReplayedChain
    <3>3. decisions' = decisions /\ state' = snapshot.state /\ resumable' = resumable
      BY <1>2, <2>3, <3>1, <3>2
    <3>4. Aligned(decisions, history')
      <4>1. \A l \in DOMAIN history' : /\ l \in DOMAIN history /\ history'[l] = history[l]
                                       /\ \A k \in 1 .. l - 1 : history'[k] = history[k]
        BY <1>3, <1>4
      <4> QED
        BY <3>1, <4>1, ShorterAligned
    <3> QED
      BY <1>2, <2>3, <3>1, <3>3, <3>4 DEF SavedInv
  <2> QED
    BY <2>2, <2>3
<1> QED
  BY <1>8, <1>9, <1>10 DEF ConversationInv

\* Every request, persist and resume keeps the invariant.
LEMMA ConversationNextInv ==
    ConversationInv /\ [ConversationNext]_conversationVars => ConversationInv'
<1> SUFFICES ASSUME ConversationInv, [ConversationNext]_conversationVars PROVE ConversationInv'
  OBVIOUS
<1>1. CASE UNCHANGED conversationVars
  BY <1>1 DEF conversationVars, ConversationInv, BaseInv, ConversationTypeOK, RetryInv,
     SavedInv
<1>2. CASE Send \/ Regenerate \/ Edit
  <2>1. PICK h : Asks(h) /\ CreateSource(h)
    BY <1>2, QuestionsAreAsked DEF ConversationInv, BaseInv
  <2> QED
    BY <2>1, SourceBase, SourceRetry, SourceSaved DEF ConversationInv
<1> QED
  BY <1>1, <1>2, PersistStep, ResumeStep DEF ConversationNext

\* Every variable of the conversation keeps its type, and a message has one decision at
\* most, for any routes and histories.
THEOREM ConversationTypeCorrect == ConversationSpec => []ConversationTypeOK
<1>1. ConversationInv => ConversationTypeOK
  BY DEF ConversationInv, BaseInv
<1> QED
  BY <1>1, ConversationInitInv, ConversationNextInv, PTL DEF ConversationSpec

\* Whatever is sent, retried, regenerated and edited, a session whose clients never went on
\* from an outdated snapshot resumes: the stored decisions lead to the stored state
\* (createChatSession 720-742, resumeChatSession 962-972).
THEOREM SavedSessionsResume == ConversationSpec => []SavedSessionResumes
<1>1. ConversationInv => SavedSessionResumes
  <2> SUFFICES ASSUME ConversationInv, ~behind
               PROVE  /\ resumable
                      /\ snapshot # NoSnapshot => Replayed(snapshot.decisions) = snapshot.state
    BY DEF SavedSessionResumes
  <2>1. snapshot # NoSnapshot => snapshot.decisions \in Seq(RouteDecision)
    BY DEF ConversationInv, BaseInv, ConversationTypeOK
  <2> QED
    BY <2>1, ReplayedChain DEF ConversationInv, SavedInv
<1> QED
  BY <1>1, ConversationInitInv, ConversationNextInv, PTL DEF ConversationSpec

\* A request with the history of the last one is answered from the cache.
LEMMA RetryStep ==
    ASSUME ConversationInv, dispatched \in {"route", "replay"}, CreateSource(history)
    PROVE  dispatched' = "replay" /\ state' = state /\ decisions' = decisions
<1> DEFINE last == Last(history)
           c == Cached(decisions, last.id)
           before == Rebuilt(decisions, Front(history))
<1>1. /\ \A i \in DOMAIN decisions : decisions[i].id \in Ids(history)
      /\ c # 0 /\ decisions[c].input = last.input /\ decisions[c].from = before
      /\ decisions[c].to = state /\ Applicable(decisions[c])
  BY DEF ConversationInv, RetryInv
<1>2. Kept(decisions, history) = decisions
  <2> DEFINE T == {d \in ToSet(decisions) : d.id \in Ids(history)}
  <2>1. decisions \in Seq(RouteDecision)
    BY DEF ConversationInv, BaseInv, ConversationTypeOK
  <2>2. \A i \in DOMAIN decisions : decisions[i] \in T
    BY <1>1 DEF ToSet
  <2> HIDE DEF T
  <2>3. Within(decisions, T) = decisions
    BY <2>1, <2>2, WithinAll
  <2> QED
    BY <2>3 DEF Kept, T
<1>3. Answers(decisions, before, last)
  BY <1>1 DEF Answers
<1>4. Transition(before, decisions[c]) = state
  BY <1>1 DEF Applicable
<1> QED
  BY <1>2, <1>3, <1>4 DEF CreateSource, Preceding

\* The retry of a request that a route has answered repeats its answer, from the same state
\* and without a new decision (createSource 863-934).
THEOREM RetriesRepeat == ConversationSpec => RetryRepeats
<1>1. ConversationInv /\ [ConversationNext]_conversationVars =>
          [ (/\ dispatched \in {"route", "replay"} /\ history' = history
             /\ dispatched' # "none" /\ unsaved')
            => dispatched' = "replay" /\ state' = state
              /\ decisions' = decisions ]_conversationVars
  <2> SUFFICES ASSUME ConversationInv, ConversationNext,
                      dispatched \in {"route", "replay"}, history' = history,
                      dispatched' # "none", unsaved'
               PROVE  dispatched' = "replay" /\ state' = state /\ decisions' = decisions
    OBVIOUS
  <2>1. ~Persist /\ ~ResumeConversation
    BY DEF Persist, ResumeConversation
  <2>2. PICK h : Asks(h) /\ CreateSource(h)
    BY <2>1, QuestionsAreAsked DEF ConversationNext, ConversationInv, BaseInv
  <2>3. h = history
    BY <2>2 DEF CreateSource
  <2> QED
    BY <2>2, <2>3, RetryStep
<1> QED
  BY <1>1, ConversationInitInv, ConversationNextInv, PTL DEF ConversationSpec, RetryRepeats

-----------------------------------------------------------------------------
(* Authorizations of choices *)

\* A table and a list of sessions hold nothing twice.
OneEach(t) == \A j, k \in DOMAIN t : t[j].instance = t[k].instance => j = k
\* No element is there twice.
Different(t) == \A j, k \in DOMAIN t : t[j] = t[k] => j = k

\* A session has one place in the list, and one authorization for an instance.
KeysInv == Different(recent) /\ \A s \in Session : OneEach(choices[s])

\* The inductive invariant of the choices.
ChoicesInv == ChoicesTypeOK /\ KeysInv /\ ReservationsMatch

\* The index of an instance is the place of its authorization.
LEMMA IndexOfFacts ==
    ASSUME ChoicesTypeOK, NEW s \in Session, NEW i
    PROVE  /\ IndexOf(s, i) = 0 => \A k \in DOMAIN choices[s] : choices[s][k].instance # i
           /\ IndexOf(s, i) # 0 => /\ IndexOf(s, i) \in 1 .. Len(choices[s])
                                   /\ choices[s][IndexOf(s, i)].instance = i
<1> DEFINE I == {n \in 1 .. Len(choices[s]) : choices[s][n].instance = i}
<1>1. IndexOf(s, i) = IF I # {} THEN Min(I) ELSE 0
  BY DEF IndexOf, SelectInSeq
<1>2. choices[s] \in Seq(Authorization)
  BY DEF ChoicesTypeOK
<1>3. I # {} => Min(I) \in I
  <2>1. I \subseteq Nat
    OBVIOUS
  <2> HIDE DEF I
  <2> QED
    BY <2>1, MinFacts
<1>4. DOMAIN choices[s] = 1 .. Len(choices[s])
  BY <1>2
<1> QED
  BY <1>1, <1>3, <1>4

\* Removing an element leaves the others different.
LEMMA RemoveAtDifferent ==
    ASSUME NEW S, NEW t \in Seq(S), Different(t), NEW n \in 1 .. Len(t)
    PROVE  Different(RemoveAt(t, n))
<1> DEFINE u == RemoveAt(t, n)
<1>1. /\ \A i \in DOMAIN u : Place(n, i) \in DOMAIN t \ {n} /\ u[i] = t[Place(n, i)]
      /\ \A i, j \in DOMAIN u : Place(n, i) = Place(n, j) => i = j
  BY RemoveAtPlaces
<1> HIDE DEF u
<1> QED
  BY <1>1 DEF Different, u

\* An element that is not there yet is different.
LEMMA AppendDifferent ==
    ASSUME NEW S, NEW t \in Seq(S), Different(t), NEW x \in S, ~Has(t, x)
    PROVE  Different(Append(t, x))
  BY DEF Different, Has

\* Removing an authorization leaves one for an instance.
LEMMA RemoveAtOneEach ==
    ASSUME NEW S, NEW t \in Seq(S), OneEach(t), NEW n \in 1 .. Len(t)
    PROVE  OneEach(RemoveAt(t, n))
<1> DEFINE u == RemoveAt(t, n)
<1>1. /\ \A i \in DOMAIN u : Place(n, i) \in DOMAIN t \ {n} /\ u[i] = t[Place(n, i)]
      /\ \A i, j \in DOMAIN u : Place(n, i) = Place(n, j) => i = j
  BY RemoveAtPlaces
<1> HIDE DEF u
<1> QED
  BY <1>1 DEF OneEach, u

\* Removing a session from the list leaves the others.
LEMMA RemoveFirstFacts ==
    ASSUME ChoicesTypeOK, Different(recent), NEW s \in Session, s \in ToSet(recent)
    PROVE  /\ RemoveFirst(recent, s) \in Seq(Session)
           /\ Len(RemoveFirst(recent, s)) = Len(recent) - 1
           /\ Different(RemoveFirst(recent, s))
           /\ \A e : Has(RemoveFirst(recent, s), e) <=> Has(recent, e) /\ e # s
<1> DEFINE I == {n \in 1 .. Len(recent) : recent[n] = s}
           n == Min(I)
<1>1. recent \in Seq(Session) /\ DOMAIN recent = 1 .. Len(recent)
  BY DEF ChoicesTypeOK
<1>2. I # {}
  BY <1>1 DEF ToSet
<1>3. n \in 1 .. Len(recent) /\ recent[n] = s
  BY <1>2, MinFacts
<1>4. RemoveFirst(recent, s) = RemoveAt(recent, n)
  BY <1>1, <1>2 DEF RemoveFirst, SelectInSeq
<1> HIDE DEF n, I
<1>5. /\ RemoveAt(recent, n) \in Seq(Session)
      /\ Len(RemoveAt(recent, n)) = Len(recent) - 1
      /\ \A i \in 1 .. Len(recent) - 1 :
            RemoveAt(recent, n)[i] = IF i < n THEN recent[i] ELSE recent[i + 1]
  BY <1>1, <1>3, RemoveAtFacts
<1>6. ASSUME NEW e PROVE Has(RemoveAt(recent, n), e) <=> HasBut(recent, n, e)
  BY <1>1, <1>3, RemoveAtHas
<1>7. \A e : HasBut(recent, n, e) <=> Has(recent, e) /\ e # s
  BY <1>1, <1>3 DEF Has, HasBut, Different
<1>8. Different(RemoveAt(recent, n))
  BY <1>1, <1>3, RemoveAtDifferent
<1> QED
  BY <1>4, <1>5, <1>6, <1>7, <1>8

\* The session that is used becomes the last one.
LEMMA UsedFacts ==
    ASSUME ChoicesTypeOK, Different(recent), NEW s \in Session, s \in ToSet(recent)
    PROVE  LET t == Append(RemoveFirst(recent, s), s)
           IN  /\ t \in Seq(Session) /\ Len(t) = Len(recent) /\ Different(t)
               /\ \A e : Has(t, e) <=> Has(recent, e)
<1> DEFINE u == RemoveFirst(recent, s)
           t == Append(u, s)
<1>1. /\ u \in Seq(Session) /\ Len(u) = Len(recent) - 1 /\ Different(u)
      /\ \A e : Has(u, e) <=> Has(recent, e) /\ e # s
  BY RemoveFirstFacts
<1>2. Has(recent, s) /\ recent \in Seq(Session)
  BY DEF Has, ToSet, ChoicesTypeOK
<1> HIDE DEF u
<1>3. ASSUME NEW e PROVE Has(t, e) <=> Has(u, e) \/ e = s
  BY <1>1, AppendHas
<1>4. Different(t)
  BY <1>1 DEF Different, Has
<1> QED
  BY <1>1, <1>2, <1>3, <1>4 DEF u

\* What the table of a session becomes by a projection: it stays within its limit, and
\* has the claims that it had.
LEMMA RememberedFacts ==
    ASSUME ChoicesTypeOK, KeysInv, NEW s \in Session, NEW i \in Instance, NEW p \in Offers[i]
    PROVE  LET t == Remembered(s, i, p)
           IN  /\ t \in Seq(Authorization) /\ Len(t) <= MaxSessionChoices /\ t # <<>>
               /\ OneEach(t)
               /\ \A a : Claimed(a) => (Has(t, a) <=> Has(choices[s], a))
<1> DEFINE mine == choices[s]
           fresh == [instance |-> i, props |-> p, claimer |-> NoView]
           E == {n \in 1 .. Len(mine) : ~Claimed(mine[n])}
           ev == IF E # {} THEN Min(E) ELSE 0
           k == IndexOf(s, i)
           t == Remembered(s, i, p)
<1>1. mine \in Seq(Authorization) /\ Len(mine) <= MaxSessionChoices /\ OneEach(mine)
  BY DEF ChoicesTypeOK, KeysInv
<1>2. fresh \in Authorization /\ ~Claimed(fresh) /\ fresh.instance = i
  BY OffersAssumption DEF Authorization, Claimed, Props
<1>3. t = IF k # 0 THEN (IF Claimed(mine[k]) THEN mine ELSE [mine EXCEPT ![k] = fresh])
          ELSE IF ~Full(s) THEN Append(mine, fresh)
          ELSE IF ev = 0 THEN mine
          ELSE Append(RemoveAt(mine, ev), fresh)
  BY DEF Remembered, SelectInSeq
<1>4. /\ k = 0 => \A n \in DOMAIN mine : mine[n].instance # i
      /\ k # 0 => k \in 1 .. Len(mine) /\ mine[k].instance = i
  BY IndexOfFacts
<1>5. ev # 0 => ev \in 1 .. Len(mine) /\ ~Claimed(mine[ev])
  <2>1. E # {} => Min(E) \in E
    <3>1. E \subseteq Nat
      OBVIOUS
    <3> HIDE DEF E
    <3> QED
      BY <3>1, MinFacts
  <2> QED
    BY <2>1
<1>6. Full(s) <=> Len(mine) >= MaxSessionChoices
  BY DEF Full
<1>7. MaxSessionChoices \in Nat \ {0} /\ DOMAIN mine = 1 .. Len(mine) /\ Len(mine) \in Nat
  BY <1>1, ChoiceLimitAssumption
<1> HIDE DEF mine, fresh, ev, k, t, E
<1>8. CASE k # 0 /\ Claimed(mine[k])
  BY <1>1, <1>3, <1>4, <1>7, <1>8 DEF t, mine
<1>9. CASE k # 0 /\ ~Claimed(mine[k])
  <2>1. t = [mine EXCEPT ![k] = fresh] /\ k \in 1 .. Len(mine)
    BY <1>3, <1>4, <1>9
  <2>2. t \in Seq(Authorization) /\ Len(t) = Len(mine) /\ DOMAIN t = DOMAIN mine
    BY <1>1, <1>2, <1>7, <2>1
  <2>3. t[k] = fresh /\ \A n \in DOMAIN mine \ {k} : t[n] = mine[n]
    BY <1>7, <2>1
  <2>4. OneEach(t)
    BY <1>1, <1>2, <1>4, <1>7, <1>9, <2>2, <2>3 DEF OneEach
  <2>5. ASSUME NEW a, Claimed(a) PROVE Has(t, a) <=> Has(mine, a)
    BY <1>2, <1>7, <1>9, <2>1, <2>2, <2>3, <2>5 DEF Has
  <2>6. t # <<>>
    BY <1>4, <1>9, <2>2
  <2> QED
    BY <1>1, <2>2, <2>4, <2>5, <2>6 DEF t, mine
<1>10. CASE k = 0 /\ ~Full(s)
  <2>1. t = Append(mine, fresh)
    BY <1>3, <1>10
  <2>2. /\ t \in Seq(Authorization) /\ Len(t) = Len(mine) + 1 /\ DOMAIN t = 1 .. Len(mine) + 1
        /\ t[Len(mine) + 1] = fresh /\ \A n \in 1 .. Len(mine) : t[n] = mine[n]
    BY <1>1, <1>2, <2>1
  <2>3. OneEach(t)
    BY <1>1, <1>2, <1>4, <1>7, <1>10, <2>2 DEF OneEach
  <2>4. ASSUME NEW a, Claimed(a) PROVE Has(t, a) <=> Has(mine, a)
    BY <1>1, <1>2, <2>1, <2>4, AppendHas
  <2>5. t # <<>> /\ Len(t) <= MaxSessionChoices
    BY <1>6, <1>7, <1>10, <2>2
  <2> QED
    BY <2>2, <2>3, <2>4, <2>5 DEF t, mine
<1>11. CASE k = 0 /\ Full(s) /\ ev = 0
  BY <1>1, <1>3, <1>6, <1>7, <1>11 DEF t, mine
<1>12. CASE k = 0 /\ Full(s) /\ ev # 0
  <2> DEFINE u == RemoveAt(mine, ev)
  <2>1. t = Append(u, fresh) /\ ev \in 1 .. Len(mine)
    BY <1>3, <1>5, <1>12
  <2>2. /\ u \in Seq(Authorization) /\ Len(u) = Len(mine) - 1
        /\ \A n \in 1 .. Len(mine) - 1 : u[n] = IF n < ev THEN mine[n] ELSE mine[n + 1]
    BY <1>1, <2>1, RemoveAtFacts
  <2>3. \A a : Has(u, a) <=> HasBut(mine, ev, a)
    BY <1>1, <2>1, RemoveAtHas
  <2> HIDE DEF u
  <2>4. /\ t \in Seq(Authorization) /\ Len(t) = Len(mine) /\ DOMAIN t = 1 .. Len(mine)
        /\ t[Len(mine)] = fresh /\ \A n \in 1 .. Len(mine) - 1 : t[n] = u[n]
    <3>1. u \in Seq(Authorization) /\ fresh \in Authorization /\ t = Append(u, fresh)
      BY <1>2, <2>1, <2>2
    <3>2. Len(mine) - 1 + 1 = Len(mine) /\ Len(mine) >= 1
      BY <1>7, <2>1
    <3>3. /\ t \in Seq(Authorization) /\ Len(t) = Len(u) + 1
          /\ t[Len(u) + 1] = fresh /\ \A n \in 1 .. Len(u) : t[n] = u[n]
      BY <3>1, AppendProperties
    <3>4. DOMAIN t = 1 .. Len(t)
      BY <3>3, LenProperties
    <3> QED
      BY <2>2, <3>2, <3>3, <3>4
  <2>5. OneEach(t)
    <3>1. OneEach(u)
      BY <1>1, <2>1, RemoveAtOneEach DEF u
    <3>2. DOMAIN u = 1 .. Len(mine) - 1
      BY <2>2
    <3>3. \A n \in DOMAIN u : u[n].instance # i
      <4>1. ASSUME NEW n \in DOMAIN u
            PROVE  \E m \in DOMAIN mine : u[n] = mine[m]
        BY <1>1, <2>1, RemoveAtPlaces DEF u
      <4> QED
        BY <1>4, <1>12, <4>1
    <3> QED
      BY <1>2, <1>7, <2>4, <3>1, <3>2, <3>3 DEF OneEach
  <2>6. ASSUME NEW a, Claimed(a) PROVE Has(t, a) <=> Has(mine, a)
    <3>1. Has(t, a) <=> Has(u, a) \/ a = fresh
      BY <1>2, <2>1, <2>2, AppendHas
    <3>2. HasBut(mine, ev, a) <=> Has(mine, a)
      BY <1>5, <1>12, <2>6 DEF Has, HasBut
    <3> QED
      BY <1>2, <2>3, <2>6, <3>1, <3>2
  <2>7. t # <<>>
    <3>0. ev \in 1 .. Len(mine)
      BY <2>1
    <3>1. Len(mine) # 0 /\ Len(t) = Len(mine)
      BY <1>7, <2>4, <3>0
    <3> QED
      BY <3>1
  <2> QED
    BY <1>1, <2>4, <2>5, <2>6, <2>7 DEF t, mine
<1> QED
  BY <1>8, <1>9, <1>10, <1>11, <1>12

\* No choice is offered or reserved at first.
LEMMA InitChoices == ChoicesInit => ChoicesInv
<1> SUFFICES ASSUME ChoicesInit PROVE ChoicesInv
  OBVIOUS
<1>1. ChoicesTypeOK
  <2>1. recent \in Seq(Session) /\ Len(recent) <= MaxChoiceSessions /\ DOMAIN recent = {}
    BY ChoiceLimitAssumption DEF ChoicesInit
  <2>2. \A s \in Session : choices[s] = <<>> /\ Len(choices[s]) <= MaxSessionChoices
    BY ChoiceLimitAssumption DEF ChoicesInit
  <2>3. choices \in [Session -> Seq(Authorization)] /\ resolved \in [View -> SUBSET Instance]
    BY DEF ChoicesInit
  <2>4. ToSet(recent) = {}
    BY <2>1 DEF ToSet
  <2> QED
    BY <2>1, <2>2, <2>3, <2>4 DEF ChoicesInit, ChoicesTypeOK
<1>2. KeysInv
  BY DEF ChoicesInit, KeysInv, Different, OneEach
<1>3. ReservationsMatch
  BY DEF ChoicesInit, ReservationsMatch
<1> QED
  BY <1>1, <1>2, <1>3 DEF ChoicesInv

\* What a claim and its reservation know of each other.
ClaimOf(r) == [instance |-> r.instance, props |-> r.props, claimer |-> r.view]
\* The reservation of an authorization.
ReservationOf(a) ==
    [view |-> a.claimer, instance |-> a.instance, props |-> a.props, live |-> TRUE]

\* Reservations and claims match: what it means for one of them.
LEMMA MatchMeans ==
    ReservationsMatch <=>
        /\ \A r \in reservations : r.live => Has(choices[SessionOf[r.view]], ClaimOf(r))
        /\ \A s \in Session : \A a : Has(choices[s], a) /\ Claimed(a) =>
              SessionOf[a.claimer] = s /\ ReservationOf(a) \in reservations
  BY DEF ReservationsMatch, Has, ClaimOf, ReservationOf

\* The same for the next state.
LEMMA MatchMeansPrimed ==
    ReservationsMatch' <=>
        /\ \A r \in reservations' : r.live => Has(choices'[SessionOf[r.view]], ClaimOf(r))
        /\ \A s \in Session : \A a : Has(choices'[s], a) /\ Claimed(a) =>
              SessionOf[a.claimer] = s /\ ReservationOf(a) \in reservations'
  BY DEF ReservationsMatch, Has, ClaimOf, ReservationOf

\* A session is in the list.
LEMMA InRecent == \A s : s \in ToSet(recent) <=> Has(recent, s)
  BY DEF ToSet, Has

\* The same for the next state.
LEMMA InRecentPrimed == \A s : s \in ToSet(recent') <=> Has(recent', s)
  BY DEF ToSet, Has

\* A projection replaces the table of one session, and may drop one without claims.
LEMMA ProjectAgainStep ==
    ASSUME ChoicesInv, NEW s \in Session, NEW i \in Instance, NEW p \in Offers[i],
           ProjectAgain(s, i, p)
    PROVE  ChoicesInv'
<1>0. ChoicesTypeOK /\ KeysInv /\ ReservationsMatch
  BY DEF ChoicesInv
<1> DEFINE t == Remembered(s, i, p)
           u == Append(RemoveFirst(recent, s), s)
<1>1. /\ t \in Seq(Authorization) /\ Len(t) <= MaxSessionChoices /\ t # <<>>
      /\ OneEach(t)
      /\ \A a : Claimed(a) => (Has(t, a) <=> Has(choices[s], a))
  BY <1>0, RememberedFacts
<1>2. s \in ToSet(recent) /\ recent' = u /\ choices' = [choices EXCEPT ![s] = t]
      /\ reservations' = reservations /\ resolved' = resolved
  BY DEF ProjectAgain
<1>3. u \in Seq(Session) /\ Len(u) = Len(recent) /\ Different(u)
        /\ \A e : Has(u, e) <=> Has(recent, e)
  BY <1>0, <1>2, UsedFacts DEF KeysInv
<1> HIDE DEF t, u
<1>4. choices'[s] = t /\ \A q \in Session \ {s} : choices'[q] = choices[q]
  BY <1>0, <1>2 DEF ChoicesTypeOK
<1>5. ChoicesTypeOK'
  <2>1. choices' \in [Session -> Seq(Authorization)]
    BY <1>0, <1>1, <1>2 DEF ChoicesTypeOK
  <2>2. \A q \in Session : Len(choices'[q]) <= MaxSessionChoices
    BY <1>0, <1>1, <1>4 DEF ChoicesTypeOK
  <2>3. ASSUME NEW q \in Session PROVE (q \in ToSet(recent')) = (choices'[q] # <<>>)
    <3>1. q \in ToSet(recent') <=> q \in ToSet(recent)
      BY <1>2, <1>3, InRecent, InRecentPrimed
    <3>2. q \in ToSet(recent) <=> choices[q] # <<>>
      BY <1>0 DEF ChoicesTypeOK
    <3>3. CASE q = s
      BY <1>1, <1>2, <1>4, <3>1, <3>3
    <3>4. CASE q # s
      BY <1>4, <3>1, <3>2, <3>4
    <3> QED
      BY <3>3, <3>4
  <2> QED
    BY <1>0, <1>2, <1>3, <2>1, <2>2, <2>3 DEF ChoicesTypeOK
<1>6. KeysInv'
  BY <1>0, <1>1, <1>2, <1>3, <1>4 DEF KeysInv
<1>7. ReservationsMatch'
  <2>1. \A q \in Session : \A a : Claimed(a) => (Has(choices'[q], a) <=> Has(choices[q], a))
    BY <1>1, <1>4
  <2>2. \A r \in reservations : Claimed(ClaimOf(r)) /\ SessionOf[r.view] \in Session
    BY <1>0, SessionOfAssumption, NoViewAssumption DEF ChoicesTypeOK, Reservation,
       Claimed, ClaimOf
  <2> QED
    BY <1>0, <1>2, <2>1, <2>2, MatchMeans, MatchMeansPrimed
<1> QED
  BY <1>5, <1>6, <1>7 DEF ChoicesInv

\* A view projected for the first time may evict an unclaimed authorization, or a session
\* without claims.
LEMMA ProjectFirstStep ==
    ASSUME ChoicesInv, NEW s \in Session, NEW i \in Instance, NEW p \in Offers[i],
           ProjectFirst(s, i, p)
    PROVE  ChoicesInv'
<1>0. ChoicesTypeOK /\ KeysInv /\ ReservationsMatch
  BY DEF ChoicesInv
<1> DEFINE t == Remembered(s, i, p)
<1>1. /\ t \in Seq(Authorization) /\ Len(t) <= MaxSessionChoices /\ t # <<>>
      /\ OneEach(t)
      /\ \A a : Claimed(a) => (Has(t, a) <=> Has(choices[s], a))
  BY <1>0, RememberedFacts
<1>2. s \notin ToSet(recent) /\ reservations' = reservations /\ resolved' = resolved
  BY DEF ProjectFirst
<1>3. ~Has(recent, s) /\ recent \in Seq(Session) /\ Different(recent)
  BY <1>0, <1>2, InRecent DEF ChoicesTypeOK, KeysInv
<1> HIDE DEF t
\* Either way the sessions of the table change as the tables do.
<1>4. ASSUME recent' \in Seq(Session), Len(recent') <= MaxChoiceSessions, Different(recent'),
             choices' \in [Session -> Seq(Authorization)], choices'[s] = t,
             \A q \in Session \ {s} :
                \/ choices'[q] = choices[q] /\ (Has(recent', q) <=> Has(recent, q))
                \/ /\ choices'[q] = <<>> /\ ~Has(recent', q)
                   /\ \A a : Claimed(a) => ~Has(choices[q], a),
             Has(recent', s)
      PROVE  ChoicesInv'
  <2>1. ASSUME NEW q \in Session
        PROVE  /\ Len(choices'[q]) <= MaxSessionChoices /\ OneEach(choices'[q])
               /\ (q \in ToSet(recent')) = (choices'[q] # <<>>)
               /\ \A a : Claimed(a) => (Has(choices'[q], a) <=> Has(choices[q], a))
    <3>1. /\ q \in ToSet(recent') <=> Has(recent', q)
          /\ Has(recent, q) <=> choices[q] # <<>>
      BY <1>0, InRecent, InRecentPrimed DEF ChoicesTypeOK
    <3>2. CASE q = s
      BY <1>1, <1>4, <3>1, <3>2
    <3>3. CASE q # s /\ choices'[q] = choices[q] /\ (Has(recent', q) <=> Has(recent, q))
      BY <1>0, <3>1, <3>3 DEF ChoicesTypeOK, KeysInv
    <3>4. CASE /\ choices'[q] = <<>> /\ ~Has(recent', q)
               /\ \A a : Claimed(a) => ~Has(choices[q], a)
      <4>1. \A a : ~Has(<<>>, a)
        BY DEF Has
      <4>2. OneEach(<<>>) /\ Len(<<>>) <= MaxSessionChoices
        BY ChoiceLimitAssumption DEF OneEach
      <4> QED
        BY <3>1, <3>4, <4>1, <4>2
    <3> QED
      BY <1>4, <3>2, <3>3, <3>4
  <2>2. ChoicesTypeOK'
    BY <1>0, <1>2, <1>4, <2>1 DEF ChoicesTypeOK
  <2>3. KeysInv'
    BY <1>4, <2>1 DEF KeysInv
  <2>4. ReservationsMatch'
    <3>1. \A r \in reservations : Claimed(ClaimOf(r)) /\ SessionOf[r.view] \in Session
      BY <1>0, SessionOfAssumption, NoViewAssumption DEF ChoicesTypeOK, Reservation,
         Claimed, ClaimOf
    <3> QED
      BY <1>0, <1>2, <2>1, <3>1, MatchMeans, MatchMeansPrimed
  <2> QED
    BY <2>2, <2>3, <2>4 DEF ChoicesInv
<1>5. CASE /\ Len(recent) < MaxChoiceSessions
           /\ recent' = Append(recent, s)
           /\ choices' = [choices EXCEPT ![s] = t]
  <2>1. /\ recent' \in Seq(Session) /\ Len(recent') <= MaxChoiceSessions
        /\ \A e : Has(recent', e) <=> Has(recent, e) \/ e = s
    BY <1>3, <1>5, ChoiceLimitAssumption, AppendHas
  <2>2. Different(recent')
    BY <1>3, <1>5, AppendDifferent
  <2>3. /\ choices' \in [Session -> Seq(Authorization)] /\ choices'[s] = t
        /\ \A q \in Session \ {s} : choices'[q] = choices[q]
    BY <1>0, <1>1, <1>5 DEF ChoicesTypeOK
  <2> QED
    BY <1>4, <2>1, <2>2, <2>3
<1>6. CASE /\ Len(recent) >= MaxChoiceSessions /\ EvictableSession # 0
           /\ recent' = Append(RemoveAt(recent, EvictableSession), s)
           /\ choices' = [choices EXCEPT ![recent[EvictableSession]] = <<>>, ![s] = t]
  <2> DEFINE n == EvictableSession
             e == recent[n]
             u == RemoveAt(recent, n)
  <2>1. n \in 1 .. Len(recent) /\ NoneClaimed(e)
    <3> DEFINE E == {k \in 1 .. Len(recent) : NoneClaimed(recent[k])}
    <3>1. n = IF E # {} THEN Min(E) ELSE 0
      BY DEF EvictableSession, SelectInSeq
    <3>2. E # {} => Min(E) \in E
      <4>1. E \subseteq Nat
        OBVIOUS
      <4> HIDE DEF E
      <4> QED
        BY <4>1, MinFacts
    <3> HIDE DEF n
    <3>3. n \in E
      BY <1>6, <3>1, <3>2 DEF n
    <3> QED
      BY <3>3
  <2>2. /\ u \in Seq(Session) /\ Len(u) = Len(recent) - 1 /\ Different(u)
    BY <1>3, <2>1, RemoveAtFacts, RemoveAtDifferent
  <2>3. \A q : Has(u, q) <=> Has(recent, q) /\ q # e
    <3>1. \A q : Has(u, q) <=> HasBut(recent, n, q)
      BY <1>3, <2>1, RemoveAtHas
    <3> HIDE DEF n, u
    <3>2. n \in DOMAIN recent
      BY <1>3, <2>1
    <3> QED
      BY <1>3, <3>1, <3>2 DEF Has, HasBut, Different
  <2>4. e \in Session /\ e # s
    BY <1>3, <2>1 DEF Has
  <2>5. \A a : Claimed(a) => ~Has(choices[e], a)
    BY <2>1 DEF NoneClaimed, Has
  <2>6. recent' = Append(u, s) /\ choices' = [choices EXCEPT ![e] = <<>>, ![s] = t]
    BY <1>6
  <2> HIDE DEF n, e, u
  <2>7. /\ recent' \in Seq(Session) /\ Len(recent') = Len(recent)
        /\ \A q : Has(recent', q) <=> Has(u, q) \/ q = s
    BY <1>3, <2>2, <2>6, AppendHas
  <2>8. Different(recent')
    BY <1>3, <2>2, <2>3, <2>6, AppendDifferent
  <2>9. /\ choices' \in [Session -> Seq(Authorization)] /\ choices'[s] = t /\ choices'[e] = <<>>
        /\ \A q \in Session \ {s, e} : choices'[q] = choices[q]
    <3> DEFINE c == [choices EXCEPT ![e] = <<>>]
    <3>1. choices \in [Session -> Seq(Authorization)] /\ <<>> \in Seq(Authorization)
      BY <1>0 DEF ChoicesTypeOK
    <3>2. /\ c \in [Session -> Seq(Authorization)] /\ c[e] = <<>>
          /\ \A q \in Session \ {e} : c[q] = choices[q]
      BY <2>4, <3>1
    <3>3. choices' = [c EXCEPT ![s] = t]
      BY <2>6
    <3> HIDE DEF c
    <3> QED
      BY <1>1, <2>4, <3>2, <3>3
  <2>10. Len(recent') <= MaxChoiceSessions
    BY <1>0, <2>7 DEF ChoicesTypeOK
  <2> QED
    BY <1>4, <2>3, <2>4, <2>5, <2>7, <2>8, <2>9, <2>10
<1> QED
  BY <1>5, <1>6 DEF ProjectFirst, t

\* What a live reservation has claimed is where its instance is looked for.
LEMMA LiveReservation ==
    ASSUME ChoicesInv, NEW r \in reservations, r.live
    PROVE  LET s == SessionOf[r.view]
               k == IndexOf(s, r.instance)
           IN  /\ s \in Session /\ r \in Reservation
               /\ k \in 1 .. Len(choices[s]) /\ choices[s][k] = ClaimOf(r)
<1> DEFINE s == SessionOf[r.view]
           k == IndexOf(s, r.instance)
<1>1. s \in Session /\ r \in Reservation /\ choices[s] \in Seq(Authorization)
  BY SessionOfAssumption DEF ChoicesInv, ChoicesTypeOK, Reservation
<1>2. PICK j \in DOMAIN choices[s] : choices[s][j] = ClaimOf(r)
  BY MatchMeans DEF ChoicesInv, Has
<1>3. choices[s][j].instance = r.instance
  BY <1>2 DEF ClaimOf
<1>4. /\ k = 0 => \A m \in DOMAIN choices[s] : choices[s][m].instance # r.instance
      /\ k # 0 => k \in 1 .. Len(choices[s]) /\ choices[s][k].instance = r.instance
  <2> HIDE DEF s
  <2> QED
    BY <1>1, IndexOfFacts DEF ChoicesInv
<1> HIDE DEF s, k
<1>5. k # 0
  BY <1>2, <1>3, <1>4
<1>6. j = k
  BY <1>1, <1>2, <1>3, <1>4, <1>5 DEF ChoicesInv, KeysInv, OneEach
<1> QED
  BY <1>1, <1>2, <1>4, <1>5, <1>6 DEF s, k

\* An authorization has one claim at most.
LEMMA OneClaimEach ==
    ASSUME NEW r \in Reservation, NEW x \in Reservation, r.live, x.live, ClaimOf(r) = ClaimOf(x)
    PROVE  r = x
  BY DEF Reservation, ClaimOf

\* A selection claims the authorization that it reserves.
LEMMA SelectStep ==
    ASSUME ChoicesInv, NEW v \in View, NEW i \in Instance, NEW p \in Offers[i],
           Select(v, i, p)
    PROVE  ChoicesInv'
<1>0. ChoicesTypeOK /\ KeysInv /\ ReservationsMatch
  BY DEF ChoicesInv
<1> DEFINE s == SessionOf[v]
           k == IndexOf(s, i)
           mine == choices[s]
           x == [instance |-> i, props |-> p, claimer |-> v]
           new == [view |-> v, instance |-> i, props |-> p, live |-> TRUE]
           u == Append(RemoveFirst(recent, s), s)
<1>1. /\ s \in Session /\ p \in Props /\ v # NoView
  BY SessionOfAssumption, OffersAssumption, NoViewAssumption DEF Props
<1>2. mine \in Seq(Authorization) /\ OneEach(mine)
  BY <1>0, <1>1 DEF ChoicesTypeOK, KeysInv
<1>3. k \in 1 .. Len(mine) /\ mine[k].instance = i
  <2>1. k # 0
    BY DEF Select
  <2> HIDE DEF s
  <2> QED
    BY <1>0, <1>1, <2>1, IndexOfFacts
<1>4. mine[k].props = p /\ ~Claimed(mine[k]) /\ mine[k] \in Authorization
  BY <1>2, <1>3 DEF Select, Admits
<1>5. /\ recent' = u /\ reservations' = reservations \union {new}
      /\ resolved' = [resolved EXCEPT ![v] = @ \union {i}]
      /\ choices' = [choices EXCEPT ![s][k].claimer = v]
  BY DEF Select
<1>6. x = [mine[k] EXCEPT !.claimer = v]
  BY <1>3, <1>4 DEF Authorization
<1>7. choices' = [choices EXCEPT ![s] = [mine EXCEPT ![k] = x]]
  BY <1>5, <1>6
<1>8. x \in Authorization /\ Claimed(x) /\ x.instance = i /\ new \in Reservation
  BY <1>1 DEF Authorization, Claimed, Reservation
<1>9. s \in ToSet(recent)
  BY <1>0, <1>1, <1>3 DEF ChoicesTypeOK
<1>10. u \in Seq(Session) /\ Len(u) = Len(recent) /\ Different(u)
         /\ \A e : Has(u, e) <=> Has(recent, e)
  <2> HIDE DEF s
  <2> QED
    BY <1>0, <1>1, <1>9, UsedFacts DEF KeysInv
<1>11. ClaimOf(new) = x /\ ReservationOf(x) = new /\ SessionOf[new.view] = s
         /\ SessionOf[x.claimer] = s
  BY DEF ClaimOf, ReservationOf
<1> DEFINE t == [mine EXCEPT ![k] = x]
<1>12. /\ t \in Seq(Authorization) /\ Len(t) = Len(mine) /\ DOMAIN t = DOMAIN mine
       /\ t[k] = x /\ \A n \in DOMAIN mine \ {k} : t[n] = mine[n]
  BY <1>2, <1>3, <1>8
<1>13. \A a : Has(t, a) <=> HasBut(mine, k, a) \/ a = x
  BY <1>2, <1>3, <1>8, ExceptHas
<1> HIDE DEF s, k, mine, x, new, u, t
<1>14. /\ choices' \in [Session -> Seq(Authorization)] /\ choices'[s] = t
       /\ \A q \in Session \ {s} : choices'[q] = choices[q]
  BY <1>0, <1>1, <1>7, <1>12 DEF t, ChoicesTypeOK
<1>15. OneEach(t)
  BY <1>2, <1>3, <1>8, <1>12 DEF OneEach
<1>16. ChoicesTypeOK'
  <2>1. ASSUME NEW q \in Session
        PROVE  Len(choices'[q]) <= MaxSessionChoices
                 /\ (q \in ToSet(recent')) = (choices'[q] # <<>>)
    <3>1. q \in ToSet(recent') <=> q \in ToSet(recent)
      BY <1>5, <1>10, InRecent, InRecentPrimed
    <3>2. Len(choices[q]) <= MaxSessionChoices /\ (q \in ToSet(recent)) = (choices[q] # <<>>)
      BY <1>0 DEF ChoicesTypeOK
    <3>3. t # <<>>
      BY <1>2, <1>3, <1>12
    <3> QED
      BY <1>9, <1>12, <1>14, <3>1, <3>2, <3>3 DEF mine
  <2>2. resolved' \in [View -> SUBSET Instance]
    BY <1>0, <1>5 DEF ChoicesTypeOK
  <2> QED
    BY <1>0, <1>5, <1>8, <1>10, <1>14, <2>1, <2>2 DEF ChoicesTypeOK
<1>17. KeysInv'
  BY <1>0, <1>5, <1>10, <1>14, <1>15 DEF KeysInv
<1>18. ReservationsMatch'
  <2>1. ASSUME NEW r \in reservations', r.live PROVE Has(choices'[SessionOf[r.view]], ClaimOf(r))
    <3>1. CASE r = new
      BY <1>11, <1>13, <1>14, <3>1
    <3>2. CASE r \in reservations
      <4>1. Has(choices[SessionOf[r.view]], ClaimOf(r))
        BY <1>0, <2>1, <3>2, MatchMeans
      <4>2. Claimed(ClaimOf(r)) /\ SessionOf[r.view] \in Session
        BY <1>0, <3>2, SessionOfAssumption, NoViewAssumption
           DEF ChoicesTypeOK, Reservation, Claimed, ClaimOf
      <4>3. SessionOf[r.view] = s => HasBut(mine, k, ClaimOf(r))
        BY <1>4, <4>1, <4>2 DEF Has, HasBut, mine
      <4> QED
        BY <1>13, <1>14, <4>1, <4>2, <4>3
    <3> QED
      BY <1>5, <3>1, <3>2
  <2>2. ASSUME NEW q \in Session, NEW a, Has(choices'[q], a), Claimed(a)
        PROVE  SessionOf[a.claimer] = q /\ ReservationOf(a) \in reservations'
    <3>1. CASE q = s /\ a = x
      BY <1>5, <1>11, <3>1
    <3>2. CASE Has(choices[q], a)
      BY <1>0, <1>5, <2>2, <3>2, MatchMeans
    <3>3. HasBut(mine, k, a) => Has(mine, a)
      BY DEF Has, HasBut
    <3> QED
      BY <1>13, <1>14, <2>2, <3>1, <3>2, <3>3 DEF mine
  <2> QED
    BY <2>1, <2>2, MatchMeansPrimed
<1> QED
  BY <1>16, <1>17, <1>18 DEF ChoicesInv

\* A settlement removes one reservation, and the claim that goes with it.
LEMMA SettledMatch ==
    ASSUME ChoicesInv, NEW r \in reservations, reservations' = reservations \ {r},
           \A q \in Session : \A a : Claimed(a) =>
              (Has(choices'[q], a) <=>
                 Has(choices[q], a) /\ ~(r.live /\ q = SessionOf[r.view] /\ a = ClaimOf(r)))
    PROVE  ReservationsMatch'
<1>0. ChoicesTypeOK /\ ReservationsMatch /\ r \in Reservation
  BY DEF ChoicesInv, ChoicesTypeOK
<1>1. ASSUME NEW x \in reservations', x.live PROVE Has(choices'[SessionOf[x.view]], ClaimOf(x))
  <2>1. x \in reservations /\ x # r /\ x \in Reservation
    BY <1>0, <1>1 DEF ChoicesTypeOK
  <2>2. Claimed(ClaimOf(x)) /\ SessionOf[x.view] \in Session
    BY <2>1, SessionOfAssumption, NoViewAssumption DEF Reservation, Claimed, ClaimOf
  <2>3. r.live => ClaimOf(x) # ClaimOf(r)
    BY <1>0, <1>1, <2>1, OneClaimEach
  <2>4. Has(choices[SessionOf[x.view]], ClaimOf(x))
    BY <1>0, <1>1, <2>1, MatchMeans
  <2> QED
    BY <2>2, <2>3, <2>4
<1>2. ASSUME NEW q \in Session, NEW a, Has(choices'[q], a), Claimed(a)
      PROVE  SessionOf[a.claimer] = q /\ ReservationOf(a) \in reservations'
  <2>1. Has(choices[q], a) /\ ~(r.live /\ q = SessionOf[r.view] /\ a = ClaimOf(r))
    BY <1>2
  <2>2. SessionOf[a.claimer] = q /\ ReservationOf(a) \in reservations
    BY <1>0, <1>2, <2>1, MatchMeans
  <2>3. a \in Authorization
    BY <1>0, <2>1 DEF ChoicesTypeOK, Has
  <2>4. ASSUME ReservationOf(a) = r PROVE FALSE
    <3>1. r.live /\ r.view = a.claimer /\ r.instance = a.instance /\ r.props = a.props
      BY <2>4 DEF ReservationOf
    <3>2. a = ClaimOf(r)
      BY <2>3, <3>1 DEF Authorization, ClaimOf
    <3> QED
      BY <2>1, <2>2, <3>1, <3>2
  <2> QED
    BY <2>2, <2>4
<1> QED
  BY <1>1, <1>2, MatchMeansPrimed

\* A selection that is sent uses up its authorization and its claim.
LEMMA SendSucceedsStep ==
    ASSUME ChoicesInv, NEW r \in reservations, SendSucceeds(r)
    PROVE  ChoicesInv'
<1>0. ChoicesTypeOK /\ KeysInv /\ ReservationsMatch
  BY DEF ChoicesInv
<1> DEFINE s == SessionOf[r.view]
           k == IndexOf(s, r.instance)
           mine == choices[s]
           rest == RemoveAt(mine, k)
<1>1. reservations' = reservations \ {r} /\ resolved' = resolved
  BY DEF SendSucceeds
<1>2. CASE ~r.live /\ UNCHANGED <<recent, choices>>
  <2>1. ReservationsMatch'
    BY <1>1, <1>2, SettledMatch
  <2>2. ChoicesTypeOK'
    BY <1>0, <1>1, <1>2 DEF ChoicesTypeOK
  <2>3. KeysInv'
    BY <1>0, <1>2 DEF KeysInv
  <2> QED
    BY <2>1, <2>2, <2>3 DEF ChoicesInv
<1>3. CASE /\ r.live
           /\ choices' = [choices EXCEPT ![s] = rest]
           /\ recent' = IF rest = <<>> THEN RemoveFirst(recent, s) ELSE recent
  <2>1. s \in Session /\ k \in 1 .. Len(mine) /\ mine[k] = ClaimOf(r)
    BY <1>3, LiveReservation
  <2>2. mine \in Seq(Authorization) /\ OneEach(mine) /\ Len(mine) <= MaxSessionChoices
    BY <1>0, <2>1 DEF ChoicesTypeOK, KeysInv
  <2>3. s \in ToSet(recent)
    BY <1>0, <2>1 DEF ChoicesTypeOK
  <2>4. rest \in Seq(Authorization) /\ Len(rest) = Len(mine) - 1 /\ OneEach(rest)
    BY <2>1, <2>2, RemoveAtFacts, RemoveAtOneEach
  <2>5. \A a : Has(rest, a) <=> HasBut(mine, k, a)
    BY <2>1, <2>2, RemoveAtHas
  <2>6. \A a : HasBut(mine, k, a) <=> Has(mine, a) /\ a # ClaimOf(r)
    <3>1. k \in DOMAIN mine
      BY <2>1, <2>2
    <3> HIDE DEF k, mine
    <3> QED
      BY <2>1, <2>2, <3>1 DEF Has, HasBut, OneEach
  <2>7. /\ RemoveFirst(recent, s) \in Seq(Session)
        /\ Len(RemoveFirst(recent, s)) = Len(recent) - 1
        /\ Different(RemoveFirst(recent, s))
        /\ \A e : Has(RemoveFirst(recent, s), e) <=> Has(recent, e) /\ e # s
    <3> HIDE DEF s
    <3> QED
      BY <1>0, <2>1, <2>3, RemoveFirstFacts DEF KeysInv
  <2>8. recent \in Seq(Session) /\ Len(recent) <= MaxChoiceSessions /\ Different(recent)
    BY <1>0 DEF ChoicesTypeOK, KeysInv
  <2> DEFINE u == RemoveFirst(recent, s)
  <2> HIDE DEF s, k, mine, rest, u
  <2>9. /\ choices' \in [Session -> Seq(Authorization)] /\ choices'[s] = rest
        /\ \A q \in Session \ {s} : choices'[q] = choices[q]
    BY <1>0, <1>3, <2>1, <2>4 DEF ChoicesTypeOK
  <2>10. /\ recent' \in Seq(Session) /\ Len(recent') <= MaxChoiceSessions /\ Different(recent')
         /\ \A e : Has(recent', e) <=> Has(recent, e) /\ (e # s \/ rest # <<>>)
    <3>1. recent' = IF rest = <<>> THEN u ELSE recent
      BY <1>3 DEF u
    <3>2. Len(recent) - 1 <= MaxChoiceSessions
      BY <2>8, ChoiceLimitAssumption, LenProperties
    <3> QED
      BY <2>7, <2>8, <3>1, <3>2 DEF u
  <2>11. ASSUME NEW q \in Session
         PROVE  Len(choices'[q]) <= MaxSessionChoices
                  /\ (q \in ToSet(recent')) = (choices'[q] # <<>>)
    <3>1. q \in ToSet(recent') <=> Has(recent', q)
      BY InRecentPrimed
    <3>2. Len(choices[q]) <= MaxSessionChoices /\ (Has(recent, q) <=> choices[q] # <<>>)
      BY <1>0, InRecent DEF ChoicesTypeOK
    <3>3. Len(rest) <= MaxSessionChoices /\ Has(recent, s)
      BY <2>2, <2>3, <2>4, InRecent, ChoiceLimitAssumption, LenProperties
    <3> QED
      BY <2>9, <2>10, <3>1, <3>2, <3>3
  <2>12. ChoicesTypeOK'
    BY <1>0, <1>1, <2>9, <2>10, <2>11 DEF ChoicesTypeOK
  <2>13. KeysInv'
    BY <1>0, <2>4, <2>9, <2>10 DEF KeysInv
  <2>14. ReservationsMatch'
    BY <1>1, <1>3, <2>5, <2>6, <2>9, SettledMatch DEF mine, s
  <2> QED
    BY <2>12, <2>13, <2>14 DEF ChoicesInv
<1> QED
  BY <1>2, <1>3 DEF SendSucceeds

\* A released claim is no claim.
LEMMA UnclaimedFacts ==
    ASSUME ChoicesInv, NEW r \in reservations, r.live, SendFails(r)
    PROVE  LET s == SessionOf[r.view]
               t == choices'[s]
               k == IndexOf(s, r.instance)
           IN  /\ choices' \in [Session -> Seq(Authorization)]
               /\ Len(t) = Len(choices[s]) /\ DOMAIN t = DOMAIN choices[s]
               /\ k \in DOMAIN t
               /\ t[k] = [instance |-> r.instance, props |-> r.props, claimer |-> NoView]
               /\ \A n \in DOMAIN t \ {k} : t[n] = choices[s][n]
               /\ \A q \in Session \ {s} : choices'[q] = choices[q]
<1> DEFINE s == SessionOf[r.view]
           k == IndexOf(s, r.instance)
           mine == choices[s]
           t == [n \in DOMAIN mine |-> Unclaimed(mine[n], r)]
<1>1. s \in Session /\ k \in 1 .. Len(mine) /\ mine[k] = ClaimOf(r) /\ r \in Reservation
  BY LiveReservation
<1>2. mine \in Seq(Authorization) /\ OneEach(mine)
        /\ choices \in [Session -> Seq(Authorization)]
  BY <1>1 DEF ChoicesInv, ChoicesTypeOK, KeysInv
<1>3. choices' = [choices EXCEPT ![s] = t]
  BY DEF SendFails
<1>4. mine[k].instance = r.instance /\ mine[k].claimer = r.view /\ mine[k] \in Authorization
  BY <1>1, <1>2 DEF ClaimOf
<1>5. k \in DOMAIN mine /\ DOMAIN mine = 1 .. Len(mine)
  BY <1>1, <1>2
<1> HIDE DEF s, k, mine
<1>6. t[k] = [instance |-> r.instance, props |-> r.props, claimer |-> NoView]
  BY <1>1, <1>4, <1>5 DEF Unclaimed, ClaimOf
<1>7. ASSUME NEW n \in DOMAIN mine \ {k} PROVE t[n] = mine[n]
  BY <1>2, <1>4, <1>5 DEF Unclaimed, OneEach
<1>8. ASSUME NEW n \in 1 .. Len(mine) PROVE t[n] \in Authorization
  <2>1. mine[n] \in Authorization /\ n \in DOMAIN mine
    BY <1>2, <1>5
  <2>2. n = k => t[n] \in Authorization
    BY <1>4, <1>5 DEF Authorization, Unclaimed
  <2> QED
    BY <1>7, <2>1, <2>2
<1>9. t \in Seq(Authorization) /\ Len(t) = Len(mine) /\ DOMAIN t = DOMAIN mine
  <2>1. t = [n \in 1 .. Len(mine) |-> t[n]] /\ Len(mine) \in Nat
    BY <1>2, <1>5
  <2> HIDE DEF t
  <2> QED
    BY <1>5, <1>8, <2>1
<1> HIDE DEF t
<1>10. choices' \in [Session -> Seq(Authorization)] /\ choices'[s] = t
  BY <1>1, <1>2, <1>3, <1>9
<1>11. \A q \in Session \ {s} : choices'[q] = choices[q]
  BY <1>2, <1>3
<1> QED
  BY <1>5, <1>6, <1>7, <1>9, <1>10, <1>11 DEF s, k, mine

\* A selection that could not be sent gives up its claim.
LEMMA SendFailsStep ==
    ASSUME ChoicesInv, NEW r \in reservations, SendFails(r)
    PROVE  ChoicesInv'
<1>0. ChoicesTypeOK /\ KeysInv /\ ReservationsMatch
  BY DEF ChoicesInv
<1> DEFINE s == SessionOf[r.view]
           k == IndexOf(s, r.instance)
           mine == choices[s]
           t == choices'[s]
<1>1. reservations' = reservations \ {r} /\ recent' = recent
  BY DEF SendFails
<1>2. resolved' \in [View -> SUBSET Instance]
  BY <1>0 DEF SendFails, Enabled, ChoicesTypeOK
<1>3. CASE ~r.live /\ UNCHANGED choices
  <2>1. ReservationsMatch'
    BY <1>1, <1>3, SettledMatch
  <2>2. ChoicesTypeOK'
    BY <1>0, <1>1, <1>2, <1>3 DEF ChoicesTypeOK
  <2>3. KeysInv'
    BY <1>0, <1>1, <1>3 DEF KeysInv
  <2> QED
    BY <2>1, <2>2, <2>3 DEF ChoicesInv
<1>4. CASE r.live
  <2>1. s \in Session /\ k \in 1 .. Len(mine) /\ mine[k] = ClaimOf(r)
    BY <1>4, LiveReservation
  <2>2. mine \in Seq(Authorization) /\ OneEach(mine) /\ Len(mine) <= MaxSessionChoices
    BY <1>0, <2>1 DEF ChoicesTypeOK, KeysInv
  <2>3. /\ choices' \in [Session -> Seq(Authorization)]
        /\ Len(t) = Len(mine) /\ DOMAIN t = DOMAIN mine /\ k \in DOMAIN t
        /\ t[k] = [instance |-> r.instance, props |-> r.props, claimer |-> NoView]
        /\ \A n \in DOMAIN t \ {k} : t[n] = mine[n]
        /\ \A q \in Session \ {s} : choices'[q] = choices[q]
    BY <1>4, UnclaimedFacts
  <2> HIDE DEF s, k, mine, t
  <2>4. mine[k].instance = r.instance /\ t[k].instance = r.instance /\ ~Claimed(t[k])
    BY <2>1, <2>3 DEF ClaimOf, Claimed
  <2>5. OneEach(t)
    BY <2>2, <2>3, <2>4 DEF OneEach
  <2>6. ASSUME NEW a, Claimed(a) PROVE Has(t, a) <=> Has(mine, a) /\ a # ClaimOf(r)
    BY <2>1, <2>2, <2>3, <2>4, <2>6 DEF Has, OneEach
  <2>7. t # <<>> /\ mine # <<>> /\ t \in Seq(Authorization)
    BY <2>1, <2>2, <2>3 DEF t
  <2>8. ChoicesTypeOK'
    <3>1. ASSUME NEW q \in Session
          PROVE  Len(choices'[q]) <= MaxSessionChoices
                   /\ (q \in ToSet(recent')) = (choices'[q] # <<>>)
      <4>1. Len(choices[q]) <= MaxSessionChoices /\ (q \in ToSet(recent)) = (choices[q] # <<>>)
        BY <1>0 DEF ChoicesTypeOK
      <4> QED
        BY <1>1, <2>2, <2>3, <2>7, <4>1 DEF t, mine
    <3> QED
      BY <1>0, <1>1, <1>2, <2>3, <3>1 DEF ChoicesTypeOK
  <2>9. KeysInv'
    BY <1>0, <1>1, <2>3, <2>5 DEF KeysInv, t
  <2>10. ReservationsMatch'
    BY <1>1, <1>4, <2>3, <2>6, SettledMatch DEF mine, s, t
  <2> QED
    BY <2>8, <2>9, <2>10 DEF ChoicesInv
<1> QED
  BY <1>3, <1>4 DEF SendFails

\* A released session has neither authorizations nor claims.
LEMMA ReleaseSessionStep ==
    ASSUME ChoicesInv, NEW s \in Session, ReleaseSession(s)
    PROVE  ChoicesInv'
<1>0. ChoicesTypeOK /\ KeysInv /\ ReservationsMatch
  BY DEF ChoicesInv
<1> DEFINE u == RemoveFirst(recent, s)
           Left(r) == IF SessionOf[r.view] = s THEN [r EXCEPT !.live = FALSE] ELSE r
<1>1. /\ s \in ToSet(recent) /\ recent' = u /\ choices' = [choices EXCEPT ![s] = <<>>]
      /\ reservations' = {Left(r) : r \in reservations} /\ resolved' = resolved
  BY DEF ReleaseSession
<1>2. /\ u \in Seq(Session) /\ Len(u) = Len(recent) - 1 /\ Different(u)
      /\ \A e : Has(u, e) <=> Has(recent, e) /\ e # s
  BY <1>0, <1>1, RemoveFirstFacts DEF KeysInv
<1> HIDE DEF u
<1>3. /\ choices' \in [Session -> Seq(Authorization)] /\ choices'[s] = <<>>
      /\ \A q \in Session \ {s} : choices'[q] = choices[q]
  BY <1>0, <1>1 DEF ChoicesTypeOK
<1>4. ASSUME NEW r \in reservations
      PROVE  /\ Left(r) \in Reservation /\ Left(r).view = r.view
             /\ Left(r).live => SessionOf[r.view] # s /\ Left(r) = r
             /\ SessionOf[r.view] # s => Left(r) = r
  BY <1>0 DEF ChoicesTypeOK, Reservation
<1> HIDE DEF Left
<1>5. ChoicesTypeOK'
  <2>1. ASSUME NEW q \in Session
        PROVE  Len(choices'[q]) <= MaxSessionChoices
                 /\ (q \in ToSet(recent')) = (choices'[q] # <<>>)
    <3>1. q \in ToSet(recent') <=> Has(recent, q) /\ q # s
      BY <1>1, <1>2, InRecentPrimed
    <3>2. Len(choices[q]) <= MaxSessionChoices /\ (Has(recent, q) <=> choices[q] # <<>>)
      BY <1>0, InRecent DEF ChoicesTypeOK
    <3>3. Len(<<>>) <= MaxSessionChoices
      BY ChoiceLimitAssumption
    <3> QED
      BY <1>3, <3>1, <3>2, <3>3
  <2>2. Len(recent') <= MaxChoiceSessions
    BY <1>0, <1>1, <1>2, ChoiceLimitAssumption, LenProperties DEF ChoicesTypeOK
  <2>3. reservations' \subseteq Reservation
    BY <1>1, <1>4
  <2> QED
    BY <1>0, <1>1, <1>2, <1>3, <2>1, <2>2, <2>3 DEF ChoicesTypeOK
<1>6. KeysInv'
  <2>1. OneEach(<<>>)
    BY DEF OneEach
  <2> QED
    BY <1>0, <1>1, <1>2, <1>3, <2>1 DEF KeysInv
<1>7. ReservationsMatch'
  <2>1. ASSUME NEW x \in reservations', x.live PROVE Has(choices'[SessionOf[x.view]], ClaimOf(x))
    <3>1. PICK r \in reservations : x = Left(r)
      BY <1>1, <2>1
    <3>2. x = r /\ SessionOf[x.view] # s
      BY <1>4, <2>1, <3>1
    <3>3. Has(choices[SessionOf[x.view]], ClaimOf(x)) /\ SessionOf[x.view] \in Session
      BY <1>0, <2>1, <3>2, MatchMeans, SessionOfAssumption DEF ChoicesTypeOK, Reservation
    <3> QED
      BY <1>3, <3>2, <3>3
  <2>2. ASSUME NEW q \in Session, NEW a, Has(choices'[q], a), Claimed(a)
        PROVE  SessionOf[a.claimer] = q /\ ReservationOf(a) \in reservations'
    <3>1. q # s
      BY <1>3, <2>2 DEF Has
    <3>2. SessionOf[a.claimer] = q /\ ReservationOf(a) \in reservations
      BY <1>0, <1>3, <2>2, <3>1, MatchMeans
    <3>3. Left(ReservationOf(a)) = ReservationOf(a)
      <4>1. ReservationOf(a).view = a.claimer
        BY DEF ReservationOf
      <4> QED
        BY <1>4, <3>1, <3>2, <4>1
    <3> QED
      BY <1>1, <3>2, <3>3
  <2> QED
    BY <2>1, <2>2, MatchMeansPrimed
<1> QED
  BY <1>5, <1>6, <1>7 DEF ChoicesInv

\* Every projection, selection, result and release keeps the invariant.
LEMMA NextChoices == ChoicesInv /\ [ChoicesNext]_choiceVars => ChoicesInv'
<1> SUFFICES ASSUME ChoicesInv, [ChoicesNext]_choiceVars PROVE ChoicesInv'
  OBVIOUS
<1>1. CASE UNCHANGED choiceVars
  BY <1>1 DEF ChoicesInv, ChoicesTypeOK, KeysInv, ReservationsMatch, choiceVars
<1>2. CASE ChoicesNext
  <2>1. ASSUME NEW s \in Session, NEW i \in Instance, NEW p \in Offers[i],
               ProjectAgain(s, i, p) \/ ProjectFirst(s, i, p)
        PROVE  ChoicesInv'
    BY <2>1, ProjectAgainStep, ProjectFirstStep
  <2>2. ASSUME NEW v \in View, NEW i \in Instance, NEW p \in Offers[i], Select(v, i, p)
        PROVE  ChoicesInv'
    BY <2>2, SelectStep
  <2>3. ASSUME NEW r \in reservations, SendSucceeds(r) \/ SendFails(r) PROVE ChoicesInv'
    BY <2>3, SendSucceedsStep, SendFailsStep
  <2>4. ASSUME NEW s \in Session, ReleaseSession(s) PROVE ChoicesInv'
    BY <2>4, ReleaseSessionStep
  <2> QED
    BY <1>2, <2>1, <2>2, <2>3, <2>4 DEF ChoicesNext
<1> QED
  BY <1>1, <1>2

\* The table keeps its types and limits, and its claims match the reservations of the
\* views.
THEOREM ClaimsAreKept == ChoicesSpec => [](ChoicesTypeOK /\ ReservationsMatch)
<1>1. ChoicesInv => ChoicesTypeOK /\ ReservationsMatch
  BY DEF ChoicesInv
<1> QED
  BY <1>1, InitChoices, NextChoices, PTL DEF ChoicesSpec

\* A selection whose send fails, in a session that still has its authorization, can be made
\* again (release, deterministic.ts 394-398).
THEOREM FailedChoiceReopens == ChoicesSpec => FailedChoiceIsOpen
<1>1. ASSUME ChoicesInv, NEW r \in reservations, SendFails(r), r.live
      PROVE  /\ r.instance \notin resolved'[r.view]
             /\ \E k \in DOMAIN choices'[SessionOf[r.view]] :
                   choices'[SessionOf[r.view]][k] =
                       [instance |-> r.instance, props |-> r.props, claimer |-> NoView]
  <2>1. r.instance \notin resolved'[r.view]
    BY <1>1 DEF SendFails, Enabled, ChoicesInv, ChoicesTypeOK, Reservation
  <2> QED
    BY <1>1, <2>1, UnclaimedFacts
<1>2. ChoicesInv => \A r \in reservations : SendFails(r) /\ r.live =>
          /\ r.instance \notin resolved'[r.view]
          /\ \E k \in DOMAIN choices'[SessionOf[r.view]] :
                choices'[SessionOf[r.view]][k] =
                    [instance |-> r.instance, props |-> r.props, claimer |-> NoView]
  BY <1>1
<1> QED
  BY <1>2, InitChoices, NextChoices, PTL DEF ChoicesSpec, FailedChoiceIsOpen

-----------------------------------------------------------------------------
(* Deterministic answers *)

\* An entry of an artifact.
KnowledgeEntry == [id : EntryId, values : Values]

\* The entries of a key are those of the artifact that have it.
LEMMA IndexFacts ==
    ASSUME NEW entries \in Seq(KnowledgeEntry), NEW key
    PROVE  LET w == Index(entries, key)
           IN  /\ w \in Seq(KnowledgeEntry)
               /\ \A i \in DOMAIN w : w[i] \in ToSet(entries) /\ key \in Keys(w[i])
               /\ \A e \in ToSet(entries) : key \in Keys(e) => \E i \in DOMAIN w : w[i] = e
<1> DEFINE T == {e \in ToSet(entries) : key \in Keys(e)}
           w == Within(entries, T)
<1>1. Index(entries, key) = w
  BY DEF Index
<1> HIDE DEF T
<1>2. w \in Seq(KnowledgeEntry) /\ \E f : Positions(entries, T, f)
  BY WithinPositions
<1>3. PICK f : Positions(entries, T, f)
  BY <1>2
<1>4. /\ \A i \in 1 .. Len(w) : w[i] = entries[f[i]] /\ w[i] \in T
      /\ \A j \in 1 .. Len(entries) : entries[j] \in T => \E i \in 1 .. Len(w) : f[i] = j
  BY <1>3 DEF Positions
<1> HIDE DEF w
<1>5. DOMAIN w = 1 .. Len(w) /\ DOMAIN entries = 1 .. Len(entries)
  BY <1>2
<1>6. ASSUME NEW e \in ToSet(entries), key \in Keys(e) PROVE \E i \in DOMAIN w : w[i] = e
  <2>1. PICK j \in 1 .. Len(entries) : entries[j] = e
    BY <1>5 DEF ToSet
  <2>2. e \in T
    BY <1>6 DEF T
  <2>3. PICK i \in 1 .. Len(w) : f[i] = j
    BY <1>4, <2>1, <2>2
  <2> QED
    BY <1>4, <1>5, <2>1, <2>3
<1>7. \A i \in DOMAIN w : w[i] \in ToSet(entries) /\ key \in Keys(w[i])
  BY <1>4, <1>5 DEF T
<1> QED
  BY <1>1, <1>2, <1>6, <1>7

\* The entries of an artifact.
LEMMA ArtifactFacts ==
    ASSUME artifact \in Artifacts
    PROVE  /\ artifact \in Seq(KnowledgeEntry)
           /\ \A e \in ToSet(artifact) : e \in KnowledgeEntry
<1>1. artifact \in Seq(KnowledgeEntry)
  BY ArtifactsAssumption DEF KnowledgeEntry
<1> QED
  BY <1>1 DEF ToSet

\* The entries that a question matches are entries of the artifact.
LEMMA MatchingFacts ==
    ASSUME artifact \in Artifacts, NEW t
    PROVE  /\ Matching(t) \in Seq(KnowledgeEntry)
           /\ \A i \in DOMAIN Matching(t) : Matching(t)[i] \in ToSet(artifact)
<1>1. CASE t \in TooLong
  <2>1. Matching(t) = <<>>
    BY <1>1 DEF Matching
  <2>2. <<>> \in Seq(KnowledgeEntry) /\ DOMAIN <<>> = {}
    OBVIOUS
  <2> QED
    BY <2>1, <2>2
<1>2. CASE t \notin TooLong
  BY <1>2, ArtifactFacts, IndexFacts DEF Matching
<1> QED
  BY <1>1, <1>2

\* The suggestions are entries that match.
LEMMA SuggestedFacts ==
    ASSUME NEW s \in Seq(KnowledgeEntry), s # <<>>
    PROVE  /\ DOMAIN Suggested(s) = 1 .. Len(Suggested(s))
           /\ Len(Suggested(s)) \in 1 .. MaxSuggestions /\ Len(Suggested(s)) <= Len(s)
           /\ \A i \in DOMAIN Suggested(s) : Suggested(s)[i] = s[i]
<1>1. Len(s) \in Nat \ {0} /\ MaxSuggestions \in Nat \ {0}
  BY SuggestionAssumption, EmptySeq, LenProperties
<1>2. CASE Len(s) <= MaxSuggestions
  BY <1>1, <1>2 DEF Suggested
<1>3. CASE Len(s) > MaxSuggestions
  <2> DEFINE t == SubSeq(s, 1, MaxSuggestions)
  <2>1. Len(t) = MaxSuggestions /\ \A i \in 1 .. MaxSuggestions : t[i] = s[i]
    BY <1>1, <1>3
  <2>2. t \in Seq(KnowledgeEntry)
    BY <1>1, <1>3
  <2>3. Suggested(s) = t
    BY <1>1, <1>3 DEF Suggested
  <2> HIDE DEF t
  <2>4. DOMAIN t = 1 .. Len(t)
    BY <2>2
  <2> QED
    BY <1>1, <1>3, <2>1, <2>3, <2>4
<1> QED
  BY <1>1, <1>2, <1>3

\* The value of a choice is one of its entry, and in a verified artifact no other
\* entry has its key.
LEMMA UniqueValueFacts ==
    ASSUME artifact \in Artifacts, NEW e \in ToSet(artifact)
    PROVE  /\ UniqueValue(artifact, e) \in Text \ TooLong
           /\ OwnAlias(artifact, e) =>
                 Index(artifact, Key[UniqueValue(artifact, e)]) = <<e>>
<1> DEFINE I == {n \in 1 .. Len(e.values) : Unique(artifact, Key[e.values[n]])}
           k == IF I # {} THEN Min(I) ELSE 0
           value == UniqueValue(artifact, e)
<1>1. e \in KnowledgeEntry /\ artifact \in Seq(KnowledgeEntry)
  BY ArtifactFacts
<1>2. e.values \in Seq(Text \ TooLong) /\ e.values # <<>>
  BY <1>1, ValuesAssumption DEF KnowledgeEntry
<1>3. value = e.values[IF k = 0 THEN 1 ELSE k]
  BY DEF UniqueValue, SelectInSeq
<1>4. I # {} => Min(I) \in I
  <2>1. I \subseteq Nat
    OBVIOUS
  <2> HIDE DEF I
  <2> QED
    BY <2>1, MinFacts
<1>5. (IF k = 0 THEN 1 ELSE k) \in 1 .. Len(e.values)
  <2>1. Len(e.values) \in Nat \ {0}
    BY <1>2, EmptySeq, LenProperties
  <2>2. k \in {0} \union 1 .. Len(e.values)
    BY <1>4
  <2> HIDE DEF k
  <2> QED
    BY <2>1, <2>2
<1>6. value \in Text \ TooLong
  <2> HIDE DEF k
  <2> QED
    BY <1>2, <1>3, <1>5
<1>7. ASSUME OwnAlias(artifact, e) PROVE Index(artifact, Key[value]) = <<e>>
  <2>1. PICK n \in DOMAIN e.values : Unique(artifact, Key[e.values[n]])
    BY <1>7 DEF OwnAlias, Keys
  <2>2. n \in I
    BY <1>2, <2>1
  <2>3. k \in I /\ k # 0
    BY <1>4, <2>2
  <2>4. value = e.values[k] /\ Unique(artifact, Key[e.values[k]]) /\ k \in DOMAIN e.values
    BY <1>2, <1>3, <2>3
  <2>5. Key[value] \in Keys(e)
    BY <2>4 DEF Keys
  <2> DEFINE w == Index(artifact, Key[value])
  <2>6. w \in Seq(KnowledgeEntry) /\ Len(w) = 1 /\ \E i \in DOMAIN w : w[i] = e
    <3>1. Len(w) = 1
      BY <2>4 DEF Unique
    <3>2. w \in Seq(KnowledgeEntry) /\ \E i \in DOMAIN w : w[i] = e
      <4> DEFINE key == Key[value]
      <4> HIDE DEF key, value
      <4>1. /\ Index(artifact, key) \in Seq(KnowledgeEntry)
            /\ \A x \in ToSet(artifact) :
                  key \in Keys(x)
                    => \E i \in DOMAIN Index(artifact, key) : Index(artifact, key)[i] = x
        BY <1>1, IndexFacts
      <4> QED
        BY <2>5, <4>1 DEF key
    <3> QED
      BY <3>1, <3>2
  <2> HIDE DEF w, value
  <2>7. w[1] = e
    BY <2>6
  <2>8. w = <<w[1]>>
    BY <2>6
  <2> QED
    BY <2>7, <2>8 DEF w
<1> QED
  BY <1>6, <1>7

-----------------------------------------------------------------------------
\* Choices come from a verified artifact, and are those of the last question.
AnswersInv ==
    /\ AnswersTypeOK
    /\ reply.outcome = "choices" =>
          /\ Verified(artifact) /\ Len(Matching(question)) > 1
          /\ reply = ChoicesOf(artifact, Matching(question))

\* The choices of a question.
LEMMA ChoicesFacts ==
    ASSUME artifact \in Artifacts, NEW t, Len(Matching(t)) > 1
    PROVE  LET c == ChoicesOf(artifact, Matching(t))
               s == Suggested(Matching(t))
           IN  /\ c.outcome = "choices"
               /\ Len(c.suggestions) = Len(s) /\ Len(s) \in 1 .. MaxSuggestions
               /\ DOMAIN c.suggestions = DOMAIN s /\ DOMAIN s = 1 .. Len(s)
               /\ \A k \in DOMAIN s :
                     /\ k \in DOMAIN Matching(t) /\ s[k] = Matching(t)[k]
                     /\ c.suggestions[k].id = Matching(t)[k].id
                     /\ c.suggestions[k].value = UniqueValue(artifact, Matching(t)[k])
<1> DEFINE m == Matching(t)
           s == Suggested(m)
           g == [k \in DOMAIN s |-> [id |-> m[k].id, value |-> UniqueValue(artifact, m[k])]]
           c == ChoicesOf(artifact, m)
<1>1. m \in Seq(KnowledgeEntry) /\ m # <<>> /\ Len(m) \in Nat
  BY MatchingFacts
<1>2. /\ DOMAIN s = 1 .. Len(s) /\ Len(s) \in 1 .. MaxSuggestions /\ Len(s) <= Len(m)
      /\ \A i \in DOMAIN s : s[i] = m[i]
  BY <1>1, SuggestedFacts
<1>3. c.outcome = "choices" /\ c.suggestions = g
  BY DEF ChoicesOf
<1> HIDE DEF m, s, c
<1>4. Len(s) \in Nat
  BY <1>2, SuggestionAssumption
<1>5. Len(g) = Len(s) /\ DOMAIN g = DOMAIN s
  BY <1>2, <1>4
<1>6. \A k \in DOMAIN s : k \in DOMAIN m
  BY <1>1, <1>2, <1>4
<1> QED
  BY <1>2, <1>3, <1>5, <1>6 DEF m, s, c

\* What a question is answered with.
LEMMA ResolveFacts ==
    ASSUME artifact \in Artifacts, NEW t
    PROVE  /\ Resolve(t).outcome \in {"answer", "choices", "escalation"}
           /\ Resolve(t).outcome = "choices" =>
                 /\ Verified(artifact) /\ Len(Matching(t)) > 1
                 /\ Resolve(t) = ChoicesOf(artifact, Matching(t))
           /\ Reply(t).outcome \in {"answer", "choices", "escalation", "backend"}
           /\ Reply(t).outcome = "choices" => Resolve(t) = Reply(t)
<1>1. (ChoicesOf(artifact, Matching(t))).outcome = "choices"
  BY DEF ChoicesOf
<1>2. \A e : AnswerOf(e).outcome = "answer"
  BY DEF AnswerOf
<1>3. \A r : Escalation(r).outcome = "escalation"
  BY DEF Escalation
<1>4. /\ Resolve(t).outcome \in {"answer", "choices", "escalation"}
      /\ Resolve(t).outcome = "choices" =>
            /\ Verified(artifact) /\ Len(Matching(t)) > 1
            /\ Resolve(t) = ChoicesOf(artifact, Matching(t))
  BY <1>1, <1>2, <1>3 DEF Resolve
<1> DEFINE r == Resolve(t)
<1>5. r.outcome \in {"answer", "choices", "escalation"}
  BY <1>4
<1>6. Reply(t) = IF r.outcome # "escalation" THEN r
                 ELSE IF HasFallback THEN [outcome |-> "backend", reason |-> r.reason]
                 ELSE IF r.reason = "miss" THEN Escalation("offline") ELSE r
  BY DEF Reply
<1> HIDE DEF r
<1>7. /\ Reply(t).outcome \in {"answer", "choices", "escalation", "backend"}
      /\ Reply(t).outcome = "choices" => r = Reply(t)
  BY <1>3, <1>5, <1>6
<1> QED
  BY <1>4, <1>7 DEF r

\* A choice resolves to an answer or an escalation.
LEMMA ResolveChoiceFacts ==
    ASSUME NEW id, NEW t
    PROVE  ResolveChoice(id, t).outcome \in {"answer", "escalation"}
<1>1. \A e : AnswerOf(e).outcome = "answer"
  BY DEF AnswerOf
<1>2. \A r : Escalation(r).outcome = "escalation"
  BY DEF Escalation
<1> QED
  BY <1>1, <1>2 DEF ResolveChoice

\* Nothing is offered at first.
LEMMA AnswersInitInv == AnswersInit => AnswersInv
<1> SUFFICES ASSUME AnswersInit PROVE AnswersInv
  OBVIOUS
<1>1. reply.outcome = "none"
  BY DEF AnswersInit
<1> QED
  BY <1>1 DEF AnswersInit, AnswersInv, AnswersTypeOK

\* A question offers what matches it.
LEMMA AskTextStep == ASSUME AnswersInv, NEW t \in Text, AskText(t) PROVE AnswersInv'
<1>0. artifact \in Artifacts /\ expired \in BOOLEAN
  BY DEF AnswersInv, AnswersTypeOK
<1>1. question' = t /\ reply' = Reply(t) /\ artifact' = artifact /\ expired' = expired
  BY DEF AskText
<1>2. /\ reply'.outcome \in {"answer", "choices", "escalation", "backend"}
      /\ reply'.outcome = "choices" =>
            /\ Verified(artifact) /\ Len(Matching(t)) > 1
            /\ reply' = ChoicesOf(artifact, Matching(t))
  BY <1>0, <1>1, ResolveFacts
<1>3. reply'.outcome = "choices" => Len(reply'.suggestions) \in 1 .. MaxSuggestions
  BY <1>0, <1>2, ChoicesFacts
<1>4. AnswersTypeOK'
  BY <1>0, <1>1, <1>2, <1>3 DEF AnswersTypeOK
<1>5. Matching(question)' = Matching(t)
  BY <1>1 DEF Matching
<1>6. Verified(artifact)' = Verified(artifact)
  BY <1>1
<1> QED
  BY <1>1, <1>2, <1>4, <1>5, <1>6 DEF AnswersInv

\* The choice that is taken, and its entry.
LEMMA OfferedFacts ==
    ASSUME AnswersInv, reply.outcome = "choices", NEW k \in DOMAIN reply.suggestions
    PROVE  LET e == Matching(question)[k]
           IN  /\ e \in ToSet(artifact) /\ OwnAlias(artifact, e) /\ Verified(artifact)
               /\ reply.suggestions[k].id = e.id
               /\ reply.suggestions[k].value = UniqueValue(artifact, e)
               /\ k \in DOMAIN Suggested(Matching(question))
               /\ Suggested(Matching(question))[k] = e
<1>0. /\ artifact \in Artifacts /\ Verified(artifact) /\ Len(Matching(question)) > 1
      /\ reply = ChoicesOf(artifact, Matching(question))
  BY DEF AnswersInv, AnswersTypeOK
<1> DEFINE m == Matching(question)
           e == m[k]
<1>1. /\ k \in DOMAIN m /\ Suggested(m)[k] = e /\ k \in DOMAIN Suggested(m)
      /\ reply.suggestions[k].id = e.id
      /\ reply.suggestions[k].value = UniqueValue(artifact, e)
  BY <1>0, ChoicesFacts
<1>2. e \in ToSet(artifact)
  BY <1>0, <1>1, MatchingFacts
<1>3. OwnAlias(artifact, e)
  BY <1>0, <1>2 DEF Verified, ToSet
<1> QED
  BY <1>0, <1>1, <1>2, <1>3

\* A choice of a verified artifact is sent as text that is answered.
LEMMA SendChoiceAnswers ==
    ASSUME AnswersInv, NEW k, SendChoice(k)
    PROVE  /\ AnswersInv'
           /\ \/ reply' = [outcome |-> "answer", entry |-> reply.suggestions[k].id]
              \/ expired /\ reply'.outcome \in {"escalation", "backend"}
<1>0. /\ artifact \in Artifacts /\ expired \in BOOLEAN
      /\ reply.outcome = "choices" /\ k \in DOMAIN reply.suggestions
      /\ AskText(reply.suggestions[k].value)
  BY DEF AnswersInv, AnswersTypeOK, SendChoice
<1> DEFINE e == Matching(question)[k]
           value == reply.suggestions[k].value
<1>1. /\ e \in ToSet(artifact) /\ OwnAlias(artifact, e) /\ Verified(artifact)
      /\ reply.suggestions[k].id = e.id /\ value = UniqueValue(artifact, e)
  BY <1>0, OfferedFacts
<1>2. value \in Text \ TooLong /\ Index(artifact, Key[value]) = <<e>>
  BY <1>0, <1>1, UniqueValueFacts
<1> HIDE DEF e, value
<1>3. AnswersInv'
  BY <1>0, <1>2, AskTextStep DEF value
<1>4. Matching(value) = <<e>>
  BY <1>2 DEF Matching
<1>5. CASE expired
  <2>1. Resolve(value) = Escalation("stale")
    BY <1>1, <1>5 DEF Resolve
  <2>2. Resolve(value).outcome = "escalation" /\ Resolve(value).reason = "stale"
    BY <2>1 DEF Escalation
  <2>3. Reply(value).outcome \in {"escalation", "backend"}
    BY <2>2 DEF Reply
  <2> QED
    BY <1>0, <1>3, <1>5, <2>3 DEF AskText, value
<1>6. CASE ~expired
  <2>1. Matching(value) # <<>> /\ Len(Matching(value)) = 1 /\ Head(Matching(value)) = e
    BY <1>4
  <2>2. Resolve(value) = AnswerOf(e)
    BY <1>1, <1>6, <2>1 DEF Resolve
  <2>3. Reply(value) = [outcome |-> "answer", entry |-> e.id]
    BY <2>2 DEF Reply, AnswerOf
  <2> QED
    BY <1>0, <1>1, <1>3, <2>3 DEF AskText, value
<1> QED
  BY <1>0, <1>5, <1>6

\* A choice of a verified artifact is answered.
LEMMA ChooseAnswers ==
    ASSUME AnswersInv, NEW k, Choose(k)
    PROVE  /\ AnswersInv'
           /\ \/ reply' = [outcome |-> "answer", entry |-> reply.suggestions[k].id]
              \/ expired /\ reply'.outcome \in {"escalation", "backend"}
<1>0. /\ artifact \in Artifacts /\ expired \in BOOLEAN /\ question \in Text
      /\ reply.outcome = "choices" /\ k \in DOMAIN reply.suggestions
      /\ reply' = ResolveChoice(reply.suggestions[k].id, question)
      /\ artifact' = artifact /\ expired' = expired /\ question' = question
  BY DEF AnswersInv, AnswersTypeOK, Choose
<1> DEFINE m == Matching(question)
           s == Suggested(m)
           e == m[k]
           id == reply.suggestions[k].id
           I == {n \in 1 .. Len(s) : s[n].id = id}
           j == IF I # {} THEN Min(I) ELSE 0
<1>1. Verified(artifact) /\ id = e.id /\ k \in DOMAIN s /\ s[k] = e
  BY <1>0, OfferedFacts
<1>2. /\ DOMAIN s = 1 .. Len(s)
      /\ \A n \in DOMAIN s : s[n] = m[n]
  <2>1. artifact \in Artifacts /\ Len(m) > 1
    BY <1>0 DEF AnswersInv
  <2> QED
    BY <2>1, ChoicesFacts
<1>3. ResolveChoice(id, question) =
          IF ~Verified(artifact) THEN Escalation("corrupt")
          ELSE IF expired THEN Escalation("stale")
          ELSE IF j = 0 THEN Escalation("miss") ELSE AnswerOf(m[j])
  BY DEF ResolveChoice, SelectInSeq
<1>4. k \in I
  BY <1>1, <1>2
<1>5. j \in I
  <2>1. I \subseteq Nat
    OBVIOUS
  <2> HIDE DEF I
  <2> QED
    BY <1>4, <2>1, MinFacts
<1>6. j # 0 /\ m[j].id = id
  <2>1. j \in 1 .. Len(s) /\ s[j].id = id
    BY <1>5
  <2> HIDE DEF j, s
  <2> QED
    BY <1>2, <2>1
<1>7. AnswersInv'
  <2>1. reply'.outcome \in {"answer", "escalation"}
    BY <1>0, ResolveChoiceFacts
  <2> QED
    BY <1>0, <2>1 DEF AnswersInv, AnswersTypeOK
<1> HIDE DEF j, I, m, s, e, id
<1>8. CASE expired
  BY <1>0, <1>1, <1>3, <1>7, <1>8 DEF Escalation, id
<1>9. CASE ~expired
  BY <1>0, <1>1, <1>3, <1>6, <1>7, <1>9 DEF AnswerOf, id
<1> QED
  BY <1>0, <1>8, <1>9

\* Every question and choice keeps the invariant.
LEMMA AnswersNextInv == AnswersInv /\ [AnswersNext]_answerVars => AnswersInv'
<1> SUFFICES ASSUME AnswersInv, [AnswersNext]_answerVars PROVE AnswersInv'
  OBVIOUS
<1>1. CASE UNCHANGED answerVars
  <2>1. Matching(question)' = Matching(question)
    BY <1>1 DEF answerVars, Matching
  <2> QED
    BY <1>1, <2>1 DEF answerVars, AnswersInv, AnswersTypeOK
<1>2. ASSUME NEW t \in Text, AskText(t) PROVE AnswersInv'
  BY <1>2, AskTextStep
<1>3. ASSUME NEW k, SendChoice(k) \/ Choose(k) PROVE AnswersInv'
  BY <1>3, SendChoiceAnswers, ChooseAnswers
<1>4. CASE Expire
  <2>1. Matching(question)' = Matching(question)
    BY <1>4 DEF Expire, Matching
  <2> QED
    BY <1>4, <2>1 DEF Expire, AnswersInv, AnswersTypeOK
<1> QED
  BY <1>1, <1>2, <1>3, <1>4 DEF AnswersNext

\* Every variable of the answers keeps its type, for any knowledge.
THEOREM AnswersTypeCorrect == AnswersSpec => []AnswersTypeOK
<1>1. AnswersInv => AnswersTypeOK
  BY DEF AnswersInv
<1> QED
  BY <1>1, AnswersInitInv, AnswersNextInv, PTL DEF AnswersSpec

\* A choice is answered with its entry.
THEOREM ChoiceLeadsToAnswer == AnswersSpec => ChosenIsAnswered
<1>1. AnswersInv => \A k \in 1 .. MaxSuggestions :
          SendChoice(k) \/ Choose(k) =>
              \/ reply' = [outcome |-> "answer", entry |-> reply.suggestions[k].id]
              \/ expired /\ reply'.outcome \in {"escalation", "backend"}
  BY SendChoiceAnswers, ChooseAnswers
<1> QED
  BY <1>1, AnswersInitInv, AnswersNextInv, PTL DEF AnswersSpec, ChosenIsAnswered

=============================================================================
