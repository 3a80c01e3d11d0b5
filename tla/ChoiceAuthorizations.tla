------------------------- MODULE ChoiceAuthorizations -------------------------
(***************************************************************************)
(* The choice lists of the deterministic answer adapter: the table of      *)
(* authorizations of createDeterministicAnswerAdapter                      *)
(* (packages/chat/src/deterministic.ts) and the renderers that claim one,  *)
(* send its value and settle the reservation (packages/react/src/index.tsx *)
(* and its siblings).                                                      *)
(*                                                                         *)
(* One adapter serves many sessions, and a session may be shown by several *)
(* views.  The answer to an ambiguous question projects a frame whose      *)
(* instance is named for the message, so a retry or an edit projects the   *)
(* same instance again, with the same props or others.                     *)
(***************************************************************************)
EXTENDS Naturals, Sequences, SequencesExt

CONSTANTS
    Session,            \* chat sessions
    View,               \* mounted renderers
    SessionOf,          \* SessionOf[v]: the session that view v shows
    Instance,           \* instance ids of projected frames
    Offers,             \* Offers[i]: the props that frames of instance i may have
    NoView,             \* not a view
    MaxChoiceSessions,  \* sessions the table keeps (256 in the code)
    MaxSessionChoices   \* authorizations a session keeps (256 in the code)

ASSUME SessionOfAssumption == SessionOf \in [View -> Session]
ASSUME OffersAssumption == DOMAIN Offers = Instance
ASSUME NoViewAssumption == NoView \notin View
ASSUME ChoiceLimitAssumption ==
    MaxChoiceSessions \in Nat \ {0} /\ MaxSessionChoices \in Nat \ {0}

VARIABLES
    recent,        \* the sessions of the table, least recently used first
    choices,       \* choices[s]: the authorizations of session s, oldest first
    reservations,  \* what views have claimed and are sending
    resolved       \* resolved[v]: the instances that view v shows as answered

choiceVars == <<recent, choices, reservations, resolved>>

-----------------------------------------------------------------------------
Props == UNION {Offers[i] : i \in Instance}
Authorization == [instance : Instance, props : Props, claimer : View \union {NoView}]
Claimed(a) == a.claimer # NoView

\* live: the table the reservation was made in has not been dropped since.
Reservation == [view : View, instance : Instance, props : Props, live : BOOLEAN]

IndexOf(s, i) == SelectInSeq(choices[s], LAMBDA a : a.instance = i)

ChoicesInit ==
    /\ recent = <<>>
    /\ choices = [s \in Session |-> <<>>]
    /\ reservations = {}
    /\ resolved = [v \in View |-> {}]

-----------------------------------------------------------------------------
(* rememberChoices *)

\* The least recently used session without a claim makes room for a new one.  (The
\* wrong variant looks at its first authorization only.)
OldestUnclaimed(s) == ~Claimed(Head(choices[s]))
NoneClaimed(s) == \A k \in DOMAIN choices[s] : ~Claimed(choices[s][k])
EvictableSession == SelectInSeq(recent, NoneClaimed)

\* A session has as many authorizations as it may.  (The wrong variant lets one more in.)
MoreThanFull(s) == Len(choices[s]) > MaxSessionChoices
Full(s) == Len(choices[s]) >= MaxSessionChoices

\* The authorizations of a session once an instance has been projected: a claimed one
\* stays, an unclaimed one is replaced in place, a new one may evict the oldest
\* unclaimed one, and is left out when all are claimed.
Remembered(s, i, p) ==
    LET mine == choices[s]
        fresh == [instance |-> i, props |-> p, claimer |-> NoView]
        evictable == SelectInSeq(mine, LAMBDA a : ~Claimed(a))
        k == IndexOf(s, i)
    IN  IF k # 0 THEN (IF Claimed(mine[k]) THEN mine ELSE [mine EXCEPT ![k] = fresh])
        ELSE IF ~Full(s) THEN Append(mine, fresh)
        ELSE IF evictable = 0 THEN mine
        ELSE Append(RemoveAt(mine, evictable), fresh)

\* A known session becomes the most recently used one.
ProjectAgain(s, i, p) ==
    /\ s \in ToSet(recent)
    /\ recent' = Append(RemoveFirst(recent, s), s)
    /\ choices' = [choices EXCEPT ![s] = Remembered(s, i, p)]
    /\ UNCHANGED <<reservations, resolved>>

ProjectFirst(s, i, p) ==
    /\ s \notin ToSet(recent)
    /\ \/ /\ Len(recent) < MaxChoiceSessions
          /\ recent' = Append(recent, s)
          /\ choices' = [choices EXCEPT ![s] = Remembered(s, i, p)]
       \/ /\ Len(recent) >= MaxChoiceSessions /\ EvictableSession # 0
          /\ recent' = Append(RemoveAt(recent, EvictableSession), s)
          /\ choices' = [choices EXCEPT ![recent[EvictableSession]] = <<>>,
                                        ![s] = Remembered(s, i, p)]
    /\ UNCHANGED <<reservations, resolved>>

-----------------------------------------------------------------------------
(* A selection, from the click to the settlement *)

\* resolveChoiceSubmission admits a frame that was projected as it is and is not
\* claimed.  (The wrong variant does not look at the claim.)
AdmitsAlways(a, p) == a.props = p
Admits(a, p) == ~Claimed(a) /\ a.props = p

\* The click marks the instance, claims its authorization and sends the value.
Select(v, i, p) ==
    LET s == SessionOf[v]
        k == IndexOf(s, i)
    IN  /\ i \notin resolved[v]
        /\ k # 0 /\ Admits(choices[s][k], p)
        /\ recent' = Append(RemoveFirst(recent, s), s)
        /\ choices' = [choices EXCEPT ![s][k].claimer = v]
        /\ reservations' = reservations \union
              {[view |-> v, instance |-> i, props |-> p, live |-> TRUE]}
        /\ resolved' = [resolved EXCEPT ![v] = @ \union {i}]

\* commit: the authorization is spent, and the table of a session without any goes.
SendSucceeds(r) ==
    LET s == SessionOf[r.view]
        rest == RemoveAt(choices[s], IndexOf(s, r.instance))
    IN  /\ \/ /\ r.live
              /\ choices' = [choices EXCEPT ![s] = rest]
              /\ recent' = IF rest = <<>> THEN RemoveFirst(recent, s) ELSE recent
           \/ ~r.live /\ UNCHANGED <<recent, choices>>
        /\ reservations' = reservations \ {r}
        /\ UNCHANGED resolved

\* release: the authorization can be claimed again.
Unclaimed(a, r) ==
    IF a.instance = r.instance /\ a.claimer = r.view THEN [a EXCEPT !.claimer = NoView] ELSE a

\* The view enables the choice again.  (The wrong variant only reports the failure.)
StillMarked(r) == resolved
Enabled(r) == [resolved EXCEPT ![r.view] = @ \ {r.instance}]

SendFails(r) ==
    LET s == SessionOf[r.view]
    IN  /\ \/ /\ r.live
              /\ choices' = [choices EXCEPT ![s] =
                                [k \in DOMAIN choices[s] |-> Unclaimed(choices[s][k], r)]]
           \/ ~r.live /\ UNCHANGED choices
        /\ reservations' = reservations \ {r}
        /\ resolved' = Enabled(r)
        /\ UNCHANGED recent

\* releaseChoiceSession: an open reservation keeps the table that was dropped.
ReleaseSession(s) ==
    /\ s \in ToSet(recent)
    /\ recent' = RemoveFirst(recent, s)
    /\ choices' = [choices EXCEPT ![s] = <<>>]
    /\ reservations' = {IF SessionOf[r.view] = s THEN [r EXCEPT !.live = FALSE] ELSE r :
                           r \in reservations}
    /\ UNCHANGED resolved

-----------------------------------------------------------------------------
ChoicesNext ==
    \/ \E s \in Session, i \in Instance : \E p \in Offers[i] :
          ProjectAgain(s, i, p) \/ ProjectFirst(s, i, p)
    \/ \E v \in View, i \in Instance : \E p \in Offers[i] : Select(v, i, p)
    \/ \E r \in reservations : SendSucceeds(r) \/ SendFails(r)
    \/ \E s \in Session : ReleaseSession(s)

ChoicesSpec == ChoicesInit /\ [][ChoicesNext]_choiceVars

-----------------------------------------------------------------------------
(* Properties *)

\* Types and limits of the table; a session is in it as long as it has authorizations.
ChoicesTypeOK ==
    /\ recent \in Seq(Session) /\ Len(recent) <= MaxChoiceSessions
    /\ choices \in [Session -> Seq(Authorization)]
    /\ \A s \in Session :
          /\ Len(choices[s]) <= MaxSessionChoices
          /\ (s \in ToSet(recent)) = (choices[s] # <<>>)
    /\ reservations \subseteq Reservation
    /\ resolved \in [View -> SUBSET Instance]

\* Claims and reservations match: eviction, projections of the same message and other
\* views leave a claimed authorization in the table as it was claimed, until its view
\* settles it or its session is released; and no claim outlives its reservation.
ReservationsMatch ==
    /\ \A r \in reservations : r.live =>
          \E k \in DOMAIN choices[SessionOf[r.view]] :
              choices[SessionOf[r.view]][k] =
                  [instance |-> r.instance, props |-> r.props, claimer |-> r.view]
    /\ \A s \in Session : \A k \in DOMAIN choices[s] :
          LET a == choices[s][k]
          IN  Claimed(a) =>
                  /\ SessionOf[a.claimer] = s
                  /\ [view |-> a.claimer, instance |-> a.instance, props |-> a.props, live |-> TRUE]
                        \in reservations

\* A choice whose send failed can be selected again, in the view that tried it, unless
\* its session was released in the meantime.
FailedChoiceIsOpen ==
    [][\A r \in reservations : SendFails(r) /\ r.live =>
          /\ r.instance \notin resolved'[r.view]
          /\ \E k \in DOMAIN choices'[SessionOf[r.view]] :
                choices'[SessionOf[r.view]][k] =
                    [instance |-> r.instance, props |-> r.props, claimer |-> NoView]]_choiceVars

=============================================================================
