--------------------------- MODULE MatchupProofs ---------------------------
(***************************************************************************)
(* Theorems about the fixed point of module Matchup, for all lineups that  *)
(* satisfy its assumptions.  One lemma, CopiesAgree, shows that the three  *)
(* copies of a round make the same round; another, RoundIs, says what it   *)
(* makes of every planned event.  The invariants are then read off the     *)
(* last round and compared with the properties.  The slowed attack clock   *)
(* is reasoned about millisecond by millisecond, from the moments its rate *)
(* changes.                                                                *)
(***************************************************************************)
EXTENDS MatchupProperties, NaturalsInduction, WellFoundedInduction, SumsOverSets, TLAPS

-----------------------------------------------------------------------------
(* The three copies of a round.                                            *)

LEMMA EntityIsSomebody ==
  ASSUME lineup \in Lineups, NEW e \in Entities
  PROVE  /\ Participant(e) \in Participants
         /\ e[1] \in Sides /\ e[2] \in DOMAIN lineup[e[1]] /\ e[2] \in Nat
         /\ e = <<e[1], e[2]>>
<1>1. PICK n \in Sides : \E i \in DOMAIN lineup[n] : e = <<n, i>>
  BY DEF Entities, Side, Sides
<1>2. PICK i \in DOMAIN lineup[n] : e = <<n, i>>
  BY <1>1
<1>3. lineup[n][i] \in Participants
  BY DEF Participants
<1> QED
  BY <1>2, <1>3, LineupsAssumption DEF Participant

LEMMA LeastNatural ==
  ASSUME NEW S, S \subseteq Nat, S # {}
  PROVE  \E n \in S : \A m \in S : n <= m
<1>1. \E n \in S : \A m \in S : ~(<<m, n>> \in OpToRel(<, Nat))
  BY NatLessThanWellFounded, WFMin
<1>2. PICK n \in S : \A m \in S : ~(<<m, n>> \in OpToRel(<, Nat))
  BY <1>1
<1>3. \A m \in S : ~(m < n)
  BY <1>2 DEF OpToRel
<1> QED
  BY <1>3

Opposite(n) == IF n = "actors" THEN "opponents" ELSE "actors"

\* Of two targets, the one with the smaller priority comes first, then the one in front.
Precedes(c, d) == \/ Participant(c).priority < Participant(d).priority
                  \/ /\ Participant(c).priority = Participant(d).priority
                     /\ c[2] <= d[2]

Chosen(T, c) == c \in T /\ \A d \in T : Precedes(c, d)

LEMMA FirstTargetExists ==
  ASSUME lineup \in Lineups, NEW T, T \subseteq Entities, T # {}
  PROVE  \E c : Chosen(T, c)
<1>1. \A c \in T : Participant(c).priority \in Nat /\ c[2] \in Nat
  BY EntityIsSomebody, LineupsAssumption
<1> DEFINE P == {Participant(c).priority : c \in T}
<1>2. P \subseteq Nat /\ P # {}
  BY <1>1
<1>3. PICK p \in P : \A q \in P : p <= q
  <2> HIDE DEF P
  <2> QED BY <1>2, LeastNatural
<1> DEFINE U == {c \in T : Participant(c).priority = p}
           I == {c[2] : c \in U}
<1>4. I \subseteq Nat /\ I # {}
  BY <1>1, <1>3
<1>5. PICK i \in I : \A j \in I : i <= j
  <2> HIDE DEF I
  <2> QED BY <1>4, LeastNatural
<1>6. PICK c \in U : c[2] = i
  BY <1>5
<1>7. \A d \in T : Precedes(c, d)
  <2> TAKE d \in T
  <2>1. p <= Participant(d).priority /\ Participant(c).priority = p /\ p \in Nat
    BY <1>2, <1>3, <1>6
  <2>2. CASE Participant(d).priority = p
    BY <2>1, <2>2, <1>5, <1>6 DEF Precedes
  <2>3. CASE Participant(d).priority # p
    BY <2>1, <2>3, <1>1 DEF Precedes
  <2> QED
    BY <2>2, <2>3
<1> QED
  BY <1>6, <1>7 DEF Chosen

LEMMA FirstTargetIsOne ==
  ASSUME lineup \in Lineups, NEW n, NEW T, T \subseteq Side(n), T \subseteq Entities,
         NEW c, NEW d, Chosen(T, c), Chosen(T, d)
  PROVE  c = d
<1>1. c \in T /\ d \in T /\ Precedes(c, d) /\ Precedes(d, c)
  BY DEF Chosen
<1>2. /\ Participant(c).priority \in Nat /\ Participant(d).priority \in Nat
      /\ c[2] \in Nat /\ d[2] \in Nat
  BY <1>1, EntityIsSomebody, LineupsAssumption
<1>3. c[2] = d[2]
  BY <1>1, <1>2 DEF Precedes
<1>4. c = <<n, c[2]>> /\ d = <<n, d[2]>>
  BY <1>1 DEF Side
<1> QED
  BY <1>3, <1>4

LEMMA TargetIs ==
  ASSUME lineup \in Lineups, NEW e \in Entities, NEW n \in Sides
  PROVE  /\ ReachableTargets(e, Side(n)) \subseteq Side(n)
         /\ Chosen(ReachableTargets(e, Side(n)), ChooseTarget(e, Side(n)))
<1> DEFINE T == ReachableTargets(e, Side(n))
<1>1. Side(n) \subseteq Entities /\ Side(n) # {}
  BY LineupsAssumption DEF Side, Sides, Entities
<1>2. T \subseteq Side(n) /\ T # {}
  BY <1>1 DEF ReachableTargets
<1>3. \E c : Chosen(T, c)
  BY <1>1, <1>2, FirstTargetExists
<1>4. \E c \in T : \A d \in T : Precedes(c, d)
  BY <1>3 DEF Chosen
<1>5. ChooseTarget(e, Side(n)) = CHOOSE c \in T : \A d \in T : Precedes(c, d)
  BY DEF ChooseTarget, Precedes
<1> QED
  <2> HIDE DEF T
  <2>1. Chosen(T, ChooseTarget(e, Side(n)))
    BY <1>4, <1>5 DEF Chosen
  <2> QED BY <1>2, <2>1 DEF T

LEMMA AimIs ==
  ASSUME lineup \in Lineups
  PROVE  /\ Actor \in Side("actors") /\ Primary \in Side("opponents") /\ Actor # Primary
         /\ Actor \in Entities /\ Primary \in Entities
         /\ Aim(Actor) = Primary /\ Aim(Primary) = Actor
         /\ \A d \in Entities \ {Actor, Primary} : Aim(d) = ChooseTarget(d, Side(Opposite(d[1])))
<1>1. Actor \in Side("actors") /\ Primary \in Side("opponents") /\ Actor # Primary
  BY LineupsAssumption DEF Actor, Primary, Side, Sides
<1>2. Aim(Actor) = Primary /\ Aim(Primary) = Actor
  BY <1>1 DEF Aim, Actor, Primary, Side
<1>3. ASSUME NEW d \in Side("actors"), d # Actor, d # Primary
      PROVE  Aim(d) = ChooseTarget(d, Side(Opposite(d[1])))
  <2>1. d[1] = "actors" /\ d \notin Side("opponents")
    BY DEF Side
  <2> QED
    BY <1>3, <2>1 DEF Aim, Opposite
<1>4. ASSUME NEW d \in Side("opponents"), d # Actor, d # Primary
      PROVE  Aim(d) = ChooseTarget(d, Side(Opposite(d[1])))
  <2>1. d[1] = "opponents" /\ d \notin Side("actors")
    BY DEF Side
  <2> QED
    BY <1>4, <2>1 DEF Aim, Opposite
<1> QED
  BY <1>1, <1>2, <1>3, <1>4 DEF Entities

\* Everybody fights somebody of the other side.
LEMMA AimOpposes ==
  ASSUME lineup \in Lineups, NEW n \in Sides, NEW d \in Side(n)
  PROVE  Aim(d) \in Side(Opposite(n))
<1>1. d[1] = n /\ d \in Entities /\ Opposite(n) \in Sides
  BY DEF Side, Sides, Entities, Opposite
<1>2. CASE d = Actor \/ d = Primary
  BY <1>1, <1>2, AimIs DEF Actor, Primary, Opposite
<1>3. CASE d # Actor /\ d # Primary
  <2>1. Aim(d) = ChooseTarget(d, Side(Opposite(n)))
    BY <1>1, <1>3, AimIs
  <2>2. ChooseTarget(d, Side(Opposite(n))) \in Side(Opposite(n))
    BY <1>1, TargetIs DEF Chosen
  <2> QED
    BY <2>1, <2>2
<1> QED
  BY <1>2, <1>3

\* Each copy finds those who fight e in a way of its own.
LEMMA AimersAre ==
  ASSUME lineup \in Lineups, NEW e \in Entities
  PROVE  /\ e \in Side("actors") => {o \in Side("opponents") : Aim(o) = e} = Aimers(e)
         /\ e \in Side("opponents") => {o \in {Actor} \cup Allies : Aim(o) = e} = Aimers(e)
<1>1. \A n \in Sides : \A o \in Side(n) : Aim(o) \in Side(Opposite(n))
  BY AimOpposes
<1>2. \A o \in Side("actors") : Aim(o) \in Side("opponents")
  BY <1>1 DEF Sides, Opposite
<1>3. \A o \in Side("opponents") : Aim(o) \in Side("actors")
  BY <1>1 DEF Sides, Opposite
<1>4. Side("actors") \cap Side("opponents") = {}
  BY DEF Side
<1>5. {Actor} \cup Allies = Side("actors")
  BY AimIs DEF Allies
<1> QED
  BY <1>2, <1>3, <1>4, <1>5 DEF Aimers, Entities

\* What is done to the clock and to the casts of r, whoever r is.
CadenceWindows(s, r) == UNION {ActiveCadenceWindows(o, s[o]) : o \in Aimers(r)}

CastWindows(s, r) ==
  UNION {ActiveCastWindows(o, s[o], Participant(r).tenacity, ActiveImmunities(r, s[r]))
           : o \in Aimers(r)}

Round(s, e) == ApplyCastBlocks(ApplyAttackCadence(Arriving(e), CadenceWindows(s, e)),
                               CastWindows(s, e))

\* The actor is in contact from the start.
LEMMA ActorArrives ==
  ASSUME lineup \in Lineups
  PROVE  Arriving(Actor) = Plan(Actor)
<1>1. Participant(Actor).contact = 0
  BY LineupsAssumption DEF Participant, Actor, Sides
<1>2. \A y \in Plan(Actor) : y.at \in Nat
  <2>1. Participant(Actor) \in Participants
    BY AimIs, EntityIsSomebody
  <2> QED
    BY <2>1, EventsAssumption DEF Plan
<1>3. \A y \in Plan(Actor) : ~(y.at < 0)
  BY <1>2
<1> QED
  BY <1>1, <1>3 DEF Arriving, DelayUntilContact

\* The actor's copy: what it plans, against the opponents who fight it.
LEMMA ActorCopy ==
  ASSUME lineup \in Lineups, NEW s
  PROVE  ResolveActor(s) = Round(s, Actor)
<1>1. {o \in Side("opponents") : Aim(o) = Actor} = Aimers(Actor)
  BY AimIs, AimersAre
<1>2. Arriving(Actor) = Plan(Actor)
  BY ActorArrives
<1> QED
  BY ONLY <1>1, <1>2, Zenon DEF ResolveActor, Round, CadenceWindows, CastWindows

\* The allies' copy: what is left on arrival, against the opponents who fight them.
LEMMA AllyCopy ==
  ASSUME lineup \in Lineups, NEW s, NEW e \in Allies
  PROVE  ResolveAlly(s, e) = Round(s, e)
<1>1. {o \in Side("opponents") : Aim(o) = e} = Aimers(e)
  BY AimersAre DEF Allies, Entities
<1> QED
  BY ONLY <1>1, Zenon DEF ResolveAlly, Round, CadenceWindows, CastWindows

\* The opponents' copy: by target, what those of the other side do.
LEMMA OpponentCopy ==
  ASSUME lineup \in Lineups, NEW s, NEW e \in Side("opponents")
  PROVE  ResolveOpponent(s, e) = Round(s, e)
<1> DEFINE view == OutgoingByTarget(s, e)
           Stopping(o, events) ==
             ActiveCastWindows(o, events, Participant(e).tenacity, ActiveImmunities(e, s[e]))
<1>1. {o \in {Actor} \cup Allies : Aim(o) = e} = Aimers(e)
  BY AimersAre DEF Entities
<1>2. view = {<<o, s[o]>> : o \in Aimers(e)}
  BY ONLY <1>1, Zenon DEF OutgoingByTarget
<1>3. \A o \in Aimers(e) : <<o, s[o]>> \in view
  BY <1>2
<1>4. \A a \in view : a[1] \in Aimers(e) /\ a[2] = s[a[1]]
  BY <1>2
<1>5. UNION {ActiveCadenceWindows(a[1], a[2]) : a \in view} = CadenceWindows(s, e)
  <2> HIDE DEF view
  <2>1. ASSUME NEW o \in Aimers(e), NEW w \in ActiveCadenceWindows(o, s[o])
        PROVE  \E a \in view : w \in ActiveCadenceWindows(a[1], a[2])
    BY <1>3
  <2>2. ASSUME NEW a \in view, NEW w \in ActiveCadenceWindows(a[1], a[2])
        PROVE  \E o \in Aimers(e) : w \in ActiveCadenceWindows(o, s[o])
    BY <1>4
  <2> QED
    BY <2>1, <2>2 DEF CadenceWindows
<1>6. UNION {Stopping(a[1], a[2]) : a \in view} = CastWindows(s, e)
  <2>1. \A o, q : Stopping(o, q)
                   = ActiveCastWindows(o, q, Participant(e).tenacity, ActiveImmunities(e, s[e]))
    OBVIOUS
  <2> HIDE DEF view, Stopping
  <2>2. ASSUME NEW o \in Aimers(e), NEW w \in Stopping(o, s[o])
        PROVE  \E a \in view : w \in Stopping(a[1], a[2])
    BY <1>3
  <2>3. ASSUME NEW a \in view, NEW w \in Stopping(a[1], a[2])
        PROVE  \E o \in Aimers(e) : w \in Stopping(o, s[o])
    BY <1>4
  <2>4. UNION {Stopping(a[1], a[2]) : a \in view} = UNION {Stopping(o, s[o]) : o \in Aimers(e)}
    BY <2>2, <2>3
  <2> QED
    BY ONLY <2>4, Zenon DEF CastWindows, Stopping
<1>7. ResolveOpponent(s, e)
        = ApplyCastBlocks(ApplyAttackCadence(Arriving(e),
                                             UNION {ActiveCadenceWindows(a[1], a[2]) : a \in view}),
                          UNION {Stopping(a[1], a[2]) : a \in view})
  BY DEF ResolveOpponent
<1> HIDE DEF view, Stopping
<1> QED
  BY ONLY <1>5, <1>6, <1>7, Zenon DEF Round

\* So the three copies make the same round, each from the schedules of the round before.
LEMMA CopiesAgree ==
  ASSUME lineup \in Lineups, NEW s, NEW e \in Entities
  PROVE  Resolve(s)[e] = Round(s, e)
<1>1. Side("actors") \cap Side("opponents") = {} /\ Actor \in Side("actors")
  BY AimIs DEF Side
<1>2. CASE e = Actor
  <2>1. Resolve(s)[e] = ResolveActor(s)
    BY <1>1, <1>2 DEF Resolve, Allies
  <2> QED
    BY <1>2, <2>1, ActorCopy
<1>3. CASE e \in Allies
  <2>1. Resolve(s)[e] = ResolveAlly(s, e)
    BY <1>1, <1>3 DEF Resolve, Allies
  <2> QED
    BY <1>3, <2>1, AllyCopy
<1>4. CASE e \in Side("opponents")
  <2>1. Resolve(s)[e] = ResolveOpponent(s, e)
    BY <1>1, <1>4 DEF Resolve, Allies
  <2> QED
    BY <1>4, <2>1, OpponentCopy
<1> QED
  BY <1>2, <1>3, <1>4 DEF Entities, Allies

-----------------------------------------------------------------------------
(* A round, event by event.                                                *)

Planned(e) == Participant(e).kit.events

\* The planned event x in a schedule: when it comes, and why it does not happen.
Event(x, at, why) ==
  [id |-> x.id, at |-> at, channel |-> x.channel, controls |-> x.controls,
   origin |-> x.origin, cancelled |-> why]

OnArrival(e, x) == IF x.at < Participant(e).contact THEN NotInContact ELSE NotCancelled

When(s, e, x) ==
  IF x.channel = "BASIC_ATTACK" THEN CadenceAdjusted(x.at, CadenceWindows(s, e)) ELSE x.at

Kept(s, e) == {x \in Planned(e) : When(s, e, x) <= Duration}

Blockers(s, e, x) ==
  {w \in CastWindows(s, e) : Covers(w, When(s, e, x)) /\ x.channel \in w.channels}

\* The verdict on x before continuations fall with their origins.
OnCast(s, e, x) ==
  IF x.origin = NoEvent /\ OnArrival(e, x) = NotCancelled /\ Blockers(s, e, x) # {}
  THEN CastBlocked(FirstOf(Blockers(s, e, x)))
  ELSE OnArrival(e, x)

Lost(s, e) == {x.id : x \in {y \in Kept(s, e) : OnCast(s, e, y) # NotCancelled}}

Verdict(s, e, x) ==
  IF x.origin \in Lost(s, e) /\ OnCast(s, e, x) = NotCancelled
  THEN OriginCancelled(x.origin)
  ELSE OnCast(s, e, x)

\* An event is told by its fields.
LEMMA EventFields ==
  ASSUME NEW x, NEW at, NEW why
  PROVE  /\ Event(x, at, why).id = x.id
         /\ Event(x, at, why).at = at
         /\ Event(x, at, why).channel = x.channel
         /\ Event(x, at, why).controls = x.controls
         /\ Event(x, at, why).origin = x.origin
         /\ Event(x, at, why).cancelled = why
         /\ IsCancelled(Event(x, at, why)) <=> why # NotCancelled
BY DEF Event, IsCancelled

\* The two ways a round changes an event.
LEMMA EventChanges ==
  ASSUME NEW x, NEW at, NEW why, NEW new
  PROVE  /\ [Event(x, at, why) EXCEPT !.at = new] = Event(x, new, why)
         /\ [Event(x, at, why) EXCEPT !.cancelled = new] = Event(x, at, new)
BY DEF Event

\* The reasons can be told apart.
LEMMA Reasons ==
  ASSUME NEW w, NEW id
  PROVE  /\ NotInContact # NotCancelled
         /\ CastBlocked(w) # NotCancelled
         /\ OriginCancelled(id) # NotCancelled
         /\ CastBlocked(w)[1] = "OPPONENT_CAST_BLOCK"
         /\ CastBlocked(w)[2] = w.owner
         /\ CastBlocked(w)[3] = w.id
         /\ NotInContact[1] # "OPPONENT_CAST_BLOCK"
         /\ OriginCancelled(id)[1] # "OPPONENT_CAST_BLOCK"
BY DEF NotInContact, NotCancelled, CastBlocked, OriginCancelled

\* On arrival everything before the contact is cancelled.
LEMMA ArrivingIs ==
  ASSUME NEW e
  PROVE  Arriving(e) = {Event(x, x.at, OnArrival(e, x)) : x \in Planned(e)}
<1> DEFINE Delayed(y) == IF ~IsCancelled(y) /\ y.at < Participant(e).contact
                         THEN [y EXCEPT !.cancelled = NotInContact] ELSE y
<1>1. Plan(e) = {Event(x, x.at, NotCancelled) : x \in Planned(e)}
  BY DEF Plan, Planned, Event
<1>2. \A x : Delayed(Event(x, x.at, NotCancelled)) = Event(x, x.at, OnArrival(e, x))
  BY EventFields, EventChanges DEF OnArrival
<1>3. Arriving(e) = {Delayed(y) : y \in Plan(e)}
  BY DEF Arriving, DelayUntilContact
<1> QED
  <2> HIDE DEF Delayed
  <2> QED BY <1>1, <1>2, <1>3

\* The events that are left when the slowed clock of e has moved its attacks.
LEMMA CadenceIs ==
  ASSUME NEW s, NEW e
  PROVE  ApplyAttackCadence(Arriving(e), CadenceWindows(s, e))
           = {Event(x, When(s, e, x), OnArrival(e, x)) : x \in Kept(s, e)}
<1> DEFINE Moved(y) == IF y.channel = "BASIC_ATTACK"
                       THEN [y EXCEPT !.at = CadenceAdjusted(@, CadenceWindows(s, e))] ELSE y
           Lasting == {y \in {Moved(z) : z \in Arriving(e)} : y.at <= Duration}
<1>1. \A x : Moved(Event(x, x.at, OnArrival(e, x))) = Event(x, When(s, e, x), OnArrival(e, x))
  BY EventFields, EventChanges DEF When
<1>2. {Moved(z) : z \in Arriving(e)}
        = {Event(x, When(s, e, x), OnArrival(e, x)) : x \in Planned(e)}
  <2> HIDE DEF Moved
  <2> QED BY <1>1, ArrivingIs
<1>3. ApplyAttackCadence(Arriving(e), CadenceWindows(s, e)) = Lasting
  BY DEF ApplyAttackCadence
<1>4. Lasting = {Event(x, When(s, e, x), OnArrival(e, x)) : x \in Kept(s, e)}
  <2> HIDE DEF Moved
  <2> QED BY <1>2, EventFields DEF Kept
<1> QED
  BY <1>3, <1>4

\* What a round makes of the schedule of e.
LEMMA RoundIs ==
  ASSUME lineup \in Lineups, NEW s, NEW e \in Entities
  PROVE  Resolve(s)[e] = {Event(x, When(s, e, x), Verdict(s, e, x)) : x \in Kept(s, e)}
<1> DEFINE W == CastWindows(s, e)
           E == {Event(x, When(s, e, x), OnArrival(e, x)) : x \in Kept(s, e)}
           Blocking(y) == {w \in W : Covers(w, y.at) /\ y.channel \in w.channels}
           Cast(y) == IF y.origin = NoEvent /\ ~IsCancelled(y) /\ Blocking(y) # {}
                      THEN [y EXCEPT !.cancelled = CastBlocked(FirstOf(Blocking(y)))]
                      ELSE y
           C == {Cast(y) : y \in E}
           Falls(y) == IF y.origin \in Cancelled(C) /\ ~IsCancelled(y)
                       THEN [y EXCEPT !.cancelled = OriginCancelled(y.origin)]
                       ELSE y
<1>1. Resolve(s)[e] = ApplyCastBlocks(E, W)
  <2>1. Resolve(s)[e] = Round(s, e)
    BY CopiesAgree
  <2>2. ApplyAttackCadence(Arriving(e), CadenceWindows(s, e)) = E
    BY CadenceIs
  <2> HIDE DEF E
  <2> QED
    BY ONLY <2>1, <2>2, Zenon DEF Round, W
<1>2. ApplyCastBlocks(E, W) = {Falls(y) : y \in C}
  BY DEF ApplyCastBlocks
<1>3. \A x : Cast(Event(x, When(s, e, x), OnArrival(e, x))) = Event(x, When(s, e, x), OnCast(s, e, x))
  <2> TAKE x
  <2>1. Blocking(Event(x, When(s, e, x), OnArrival(e, x))) = Blockers(s, e, x)
    BY EventFields DEF Blockers
  <2> HIDE DEF Blocking
  <2> QED
    BY <2>1, EventFields, EventChanges DEF OnCast
<1>4. C = {Event(x, When(s, e, x), OnCast(s, e, x)) : x \in Kept(s, e)}
  <2> HIDE DEF Cast
  <2> QED BY <1>3
<1>5. Cancelled(C) = Lost(s, e)
  <2> DEFINE Placed(x) == Event(x, When(s, e, x), OnCast(s, e, x))
  <2>1. \A x : /\ Placed(x).id = x.id
               /\ IsCancelled(Placed(x)) <=> OnCast(s, e, x) # NotCancelled
    BY EventFields
  <2>2. C = {Placed(x) : x \in Kept(s, e)}
    BY <1>4
  <2> HIDE DEF C, Placed
  <2> QED
    BY <2>1, <2>2 DEF Cancelled, Lost
<1>6. \A x : Falls(Event(x, When(s, e, x), OnCast(s, e, x))) = Event(x, When(s, e, x), Verdict(s, e, x))
  <2> HIDE DEF C
  <2> QED BY <1>5, EventFields, EventChanges DEF Verdict
<1>7. {Falls(y) : y \in C} = {Event(x, When(s, e, x), Verdict(s, e, x)) : x \in Kept(s, e)}
  <2> HIDE DEF Falls, C
  <2> QED BY <1>4, <1>6
<1> QED
  BY <1>1, <1>2, <1>7

-----------------------------------------------------------------------------
(* Who fights, and what can stop them.                                     *)

\* What is planned, as the assumptions have it.
LEMMA PlansAre ==
  ASSUME lineup \in Lineups, NEW e \in Entities
  PROVE  /\ \A x \in Planned(e) :
              /\ x.at \in Nat /\ x.id # NoEvent
              /\ \A y \in Planned(e) :
                   /\ x.id = y.id => x = y
                   /\ x.origin = y.id => y.at <= x.at /\ y.origin = NoEvent
         /\ Participant(e).contact \in 0 .. Never
BY EntityIsSomebody, EventsAssumption, LineupsAssumption DEF Planned

LEMMA PlannedTime ==
  ASSUME lineup \in Lineups, NEW e \in Entities, NEW x \in Planned(e), NEW z, z.id = x.id
  PROVE  PlannedAt(e, z) = x.at
<1>1. \A y \in Planned(e) : y.id = z.id <=> y = x
  BY PlansAre
<1>2. (CHOOSE y \in Planned(e) : y.id = z.id) = x
  BY <1>1
<1> QED
  BY <1>2 DEF PlannedAt, Planned

\* The windows that may stop r are those of its aimers whose source stands.
LEMMA CastWindowsAre ==
  ASSUME NEW s, NEW r, NEW v
  PROVE  v \in CastWindows(s, r) <=>
           \E o \in Aimers(r) : \E w \in Participant(o).kit.blocks :
             /\ w.source \notin Cancelled(s[o])
             /\ ~IsImmune(s, r, w.type, w.start)
             /\ v = AsMet(o, w, r)
BY DEF CastWindows, ActiveCastWindows, Active, AsMet, IsImmune

LEMMA IncomingFields ==
  ASSUME NEW o, NEW w, NEW r
  PROVE  /\ AsMet(o, w, r).owner = o
         /\ AsMet(o, w, r).id = w.id
         /\ AsMet(o, w, r).rank = w.rank
         /\ AsMet(o, w, r).channels = w.channels
         /\ AsMet(o, w, r).start = w.start
BY DEF AsMet, Incoming

\* Of several windows, the first is one of them.
LEMMA FirstIsOne ==
  ASSUME lineup \in Lineups, NEW s, NEW r,
         NEW B, B \subseteq CastWindows(s, r), B # {}
  PROVE  FirstOf(B) \in B
<1> DEFINE Rank(w) == 10000000 * w.owner[2] + w.rank
           Ranks == {Rank(w) : w \in B}
<1>1. \A w \in B : Rank(w) \in Nat
  <2> TAKE w \in B
  <2>1. PICK o \in Aimers(r) : \E v \in Participant(o).kit.blocks : w = AsMet(o, v, r)
    BY CastWindowsAre
  <2>2. PICK v \in Participant(o).kit.blocks : w = AsMet(o, v, r)
    BY <2>1
  <2>3. o \in Entities
    BY DEF Aimers
  <2>4. v.rank \in Nat /\ o[2] \in Nat
    BY <2>3, EntityIsSomebody, WindowsAssumption
  <2> QED
    BY <2>2, <2>4, IncomingFields
<1>2. Ranks \subseteq Nat /\ Ranks # {}
  BY <1>1
<1>3. PICK n \in Ranks : \A m \in Ranks : n <= m
  <2> HIDE DEF Ranks
  <2> QED BY <1>2, LeastNatural
<1>4. PICK w \in B : n = Rank(w)
  BY <1>3
<1>5. \A v \in B : Rank(w) <= Rank(v)
  <2> HIDE DEF Rank
  <2> QED BY <1>3, <1>4
<1>6. (CHOOSE u \in B : \A v \in B : Rank(u) <= Rank(v)) \in B
  <2> HIDE DEF Rank
  <2> QED BY <1>5
<1> QED
  BY <1>6 DEF FirstOf

\* What a blocked verdict names: a window of an aimer that covers the event.
LEMMA BlockersAre ==
  ASSUME lineup \in Lineups, NEW s, NEW e, NEW x, Blockers(s, e, x) # {}
  PROVE  \E o \in Aimers(e) : \E w \in Participant(o).kit.blocks :
           /\ w.source \notin Cancelled(s[o])
           /\ ~IsImmune(s, e, w.type, w.start)
           /\ FirstOf(Blockers(s, e, x)) = AsMet(o, w, e)
           /\ Covers(AsMet(o, w, e), When(s, e, x))
           /\ x.channel \in w.channels
<1>1. FirstOf(Blockers(s, e, x)) \in Blockers(s, e, x)
  BY FirstIsOne DEF Blockers
<1> DEFINE v == FirstOf(Blockers(s, e, x))
<1>2. v \in CastWindows(s, e) /\ Covers(v, When(s, e, x)) /\ x.channel \in v.channels
  BY <1>1 DEF Blockers
<1> HIDE DEF v
<1>3. PICK o \in Aimers(e) : \E w \in Participant(o).kit.blocks :
             /\ w.source \notin Cancelled(s[o])
             /\ ~IsImmune(s, e, w.type, w.start)
             /\ v = AsMet(o, w, e)
  BY <1>2, CastWindowsAre
<1>4. PICK w \in Participant(o).kit.blocks :
             /\ w.source \notin Cancelled(s[o])
             /\ ~IsImmune(s, e, w.type, w.start)
             /\ v = AsMet(o, w, e)
  BY <1>3
<1> QED
  BY <1>2, <1>4, IncomingFields DEF v

-----------------------------------------------------------------------------
(* The schedules are made of what is planned.                              *)

\* The verdicts of a round are those of TypeOK.
LEMMA VerdictIs ==
  ASSUME lineup \in Lineups, NEW s, NEW e \in Entities, NEW x
  PROVE  \/ Verdict(s, e, x) \in {NotCancelled, NotInContact, OriginCancelled(x.origin)}
         \/ /\ Verdict(s, e, x)[1] = "OPPONENT_CAST_BLOCK"
            /\ Verdict(s, e, x)[2] \in Aimers(e)
            /\ Verdict(s, e, x) = OnCast(s, e, x)
            /\ Blockers(s, e, x) # {} /\ x.origin = NoEvent
            /\ Verdict(s, e, x) = CastBlocked(FirstOf(Blockers(s, e, x)))
<1>1. CASE Blockers(s, e, x) # {}
  <2>1. PICK o \in Aimers(e) : \E w \in Participant(o).kit.blocks :
               FirstOf(Blockers(s, e, x)) = AsMet(o, w, e)
    BY <1>1, BlockersAre
  <2>2. FirstOf(Blockers(s, e, x)).owner \in Aimers(e)
    BY <2>1, IncomingFields
  <2> QED
    BY <1>1, <2>2, Reasons DEF Verdict, OnCast, OnArrival
<1>2. CASE Blockers(s, e, x) = {}
  BY <1>2 DEF Verdict, OnCast, OnArrival
<1> QED
  BY <1>1, <1>2

\* TypeOK, of the schedule of e when the lineup is given.
Typed(e, z, r) ==
  /\ z.id \in {y.id : y \in Planned(e)}
  /\ r > 0 => z.at <= Duration
  /\ \/ z.cancelled \in {NotCancelled, NotInContact, OriginCancelled(z.origin)}
     \/ z.cancelled[1] = "OPPONENT_CAST_BLOCK" /\ z.cancelled[2] \in Aimers(e)

LEMMA ArrivingTyped ==
  ASSUME lineup \in Lineups, NEW e \in Entities, NEW z \in Arriving(e)
  PROVE  Typed(e, z, 0)
<1>1. PICK x \in Planned(e) : z = Event(x, x.at, OnArrival(e, x))
  BY ArrivingIs
<1>2. z.id = x.id /\ z.cancelled = OnArrival(e, x)
  BY <1>1, EventFields
<1> QED
  BY <1>2 DEF Typed, OnArrival

LEMMA RoundTyped ==
  ASSUME lineup \in Lineups, NEW s, NEW e \in Entities, NEW z \in Resolve(s)[e], NEW r
  PROVE  Typed(e, z, r)
<1>1. PICK x \in Kept(s, e) : z = Event(x, When(s, e, x), Verdict(s, e, x))
  BY RoundIs
<1>2. /\ z.id = x.id /\ z.at = When(s, e, x) /\ z.cancelled = Verdict(s, e, x)
      /\ z.origin = x.origin
  BY <1>1, EventFields
<1>3. x \in Planned(e) /\ When(s, e, x) <= Duration
  BY DEF Kept
<1> QED
  BY <1>2, <1>3, VerdictIs DEF Typed

LEMMA LineupStays ==
  ASSUME lineup' = lineup, NEW e
  PROVE  /\ Entities' = Entities
         /\ Participant(e)' = Participant(e)
         /\ Aim(e)' = Aim(e)
         /\ Aimers(e)' = Aimers(e)
<1>1. Entities' = Entities
  BY DEF Entities, Side
<1>2. \A d : Participant(d)' = Participant(d)
  BY DEF Participant
<1>3. \A d : Aim(d)' = Aim(d)
  BY DEF Participant, Aim, ChooseTarget, ReachableTargets, Side, Actor, Primary
<1>4. Aimers(e)' = Aimers(e)
  BY <1>1, <1>3 DEF Aimers
<1> QED
  BY <1>1, <1>2, <1>3, <1>4

\* Nor does what a round makes of given schedules depend on anything else.
LEMMA RoundStays ==
  ASSUME lineup \in Lineups, lineup' = lineup
  PROVE  /\ \A s, r, t, n : IsImmune(s, r, t, n)' <=> IsImmune(s, r, t, n)
         /\ \A r : Arriving(r)' = Arriving(r)
         /\ schedule' = schedule => (Resolve(schedule))' = Resolve(schedule)
<1>1. \A o, q : ActiveImmunities(o, q)' = ActiveImmunities(o, q)
  BY LineupStays DEF ActiveImmunities
<1>2. \A s, r, t, n : IsImmune(s, r, t, n)' <=> IsImmune(s, r, t, n)
  BY <1>1 DEF IsImmune
<1>3. \A o, q, n, m : ActiveCastWindows(o, q, n, m)' = ActiveCastWindows(o, q, n, m)
  BY LineupStays DEF ActiveCastWindows, Incoming
<1>4. \A o, q : ActiveCadenceWindows(o, q)' = ActiveCadenceWindows(o, q)
  BY LineupStays DEF ActiveCadenceWindows, Slowing
<1>5. \A r : Arriving(r)' = Arriving(r) /\ Plan(r)' = Plan(r)
  BY LineupStays DEF Arriving, Plan
<1>6. \A e : Participant(e)' = Participant(e) /\ Aim(e)' = Aim(e)
  BY LineupStays
<1>7. /\ Side("actors")' = Side("actors") /\ Side("opponents")' = Side("opponents")
      /\ Actor' = Actor /\ Allies' = Allies
  BY DEF Side, Actor, Allies
<1>8. schedule' = schedule => ResolveActor(schedule)' = ResolveActor(schedule)
  BY <1>1, <1>3, <1>4, <1>5, <1>6, <1>7 DEF ResolveActor
<1>9. schedule' = schedule => \A e : ResolveAlly(schedule, e)' = ResolveAlly(schedule, e)
  BY <1>1, <1>3, <1>4, <1>5, <1>6, <1>7 DEF ResolveAlly
<1>10. ASSUME schedule' = schedule, NEW e
       PROVE  ResolveOpponent(schedule, e)' = ResolveOpponent(schedule, e)
  <2> DEFINE view == OutgoingByTarget(schedule, e)
             immunities == ActiveImmunities(e, schedule[e])
             cadence == UNION {ActiveCadenceWindows(a[1], a[2]) : a \in view}
             blocks == UNION {ActiveCastWindows(a[1], a[2], Participant(e).tenacity, immunities)
                                : a \in view}
  <2>1. \A a : a \in view' <=> a \in view
    BY <1>6, <1>7, <1>10 DEF OutgoingByTarget
  <2>2. immunities' = immunities
    BY <1>1, <1>10
  <2>3. cadence' = cadence
    <3> HIDE DEF view
    <3> QED BY <1>4, <2>1
  <2>4. blocks' = blocks
    <3>1. \A o, q : ActiveCastWindows(o, q, Participant(e).tenacity, immunities)'
                    = ActiveCastWindows(o, q, Participant(e).tenacity, immunities)
      BY ONLY <1>3, <1>6, <2>2, Zenon
    <3> HIDE DEF view, immunities
    <3> QED BY <2>1, <3>1
  <2>5. ResolveOpponent(schedule, e)
          = ApplyCastBlocks(ApplyAttackCadence(Arriving(e), cadence), blocks)
    BY DEF ResolveOpponent
  <2>6. ResolveOpponent(schedule, e)'
          = ApplyCastBlocks(ApplyAttackCadence(Arriving(e)', cadence'), blocks')
    BY DEF ResolveOpponent, ApplyCastBlocks, ApplyAttackCadence
  <2> HIDE DEF view, immunities, cadence, blocks
  <2> QED
    BY ONLY <1>5, <2>3, <2>4, <2>5, <2>6, Zenon
<1>11. schedule' = schedule => (Resolve(schedule))' = Resolve(schedule)
  <2> SUFFICES ASSUME schedule' = schedule PROVE (Resolve(schedule))' = Resolve(schedule)
    OBVIOUS
  <2>1. Side("actors") \cap Side("opponents") = {} /\ Actor \in Side("actors")
    BY AimIs DEF Side
  <2>2. ASSUME NEW e \in Entities PROVE Resolve(schedule)'[e] = Resolve(schedule)[e]
    <3>1. CASE e = Actor
      BY <1>6, <1>7, <1>8, <2>1, <3>1, LineupStays DEF Resolve, Allies
    <3>2. CASE e \in Allies
      BY <1>7, <1>9, <2>1, <3>2, LineupStays DEF Resolve, Allies
    <3>3. CASE e \in Side("opponents")
      BY <1>7, <1>10, <2>1, <3>3, LineupStays DEF Resolve, Allies
    <3> QED
      BY <3>1, <3>2, <3>3 DEF Entities, Allies
  <2> QED
    BY <2>2, LineupStays DEF Resolve
<1> QED
  BY <1>2, <1>5, <1>11

\* Before the first round everybody's schedule is what is left on arrival.
LEMMA FirstSchedules ==
  ASSUME Init
  PROVE  schedule = [e \in Entities |-> Arriving(e)]
<1>1. lineup \in Lineups /\ schedule = [e \in Entities |-> IF e = Actor THEN Plan(e) ELSE Arriving(e)]
  BY DEF Init
<1>2. Arriving(Actor) = Plan(Actor)
  BY <1>1, ActorArrives
<1> QED
  BY <1>1, <1>2

\* While the search goes on there are rounds left; when it has converged, a
\* round would change nothing.
Settled ==
  /\ phase = "iterating" => round < MaxRounds
  /\ phase = "converged" => schedule = Resolve(schedule)

IInv == TypeOK /\ Settled

LEMMA InitIInv == Init => IInv
<1> SUFFICES ASSUME Init PROVE IInv
  OBVIOUS
<1> USE DEF Init
<1>1. \A e \in Entities : \A z \in schedule[e] : Typed(e, z, 0)
  BY ArrivingTyped, FirstSchedules
<1>2. TypeOK
  BY <1>1, FirstSchedules DEF TypeOK, Typed, Planned, MaxRounds
<1>3. Settled
  BY DEF Settled, MaxRounds
<1> QED
  BY <1>2, <1>3 DEF IInv

LEMMA ConvergeIInv == IInv /\ Converge => IInv'
<1> SUFFICES ASSUME IInv, Converge PROVE IInv'
  OBVIOUS
<1>1. lineup' = lineup /\ schedule' = schedule /\ round' = round + 1 /\ phase' = "converged"
  BY DEF Converge
<1>2. round \in 0 .. MaxRounds /\ round < MaxRounds
  BY DEF IInv, TypeOK, Settled, Converge
<1>3. round' \in 0 .. MaxRounds
  BY <1>1, <1>2 DEF MaxRounds
<1>4. ASSUME NEW e \in Entities, NEW z \in schedule[e] PROVE Typed(e, z, 1)
  BY <1>4, RoundTyped DEF Converge, IInv, TypeOK
<1>5. TypeOK'
  BY <1>1, <1>3, <1>4, LineupStays DEF IInv, TypeOK, Typed, Planned
<1>6. Settled'
  BY <1>1, RoundStays DEF Settled, Converge, IInv, TypeOK
<1> QED
  BY <1>5, <1>6 DEF IInv

LEMMA IterateIInv == IInv /\ Iterate => IInv'
<1> SUFFICES ASSUME IInv, Iterate PROVE IInv'
  OBVIOUS
<1>1. /\ lineup' = lineup /\ schedule' = Resolve(schedule) /\ round' = round + 1
      /\ phase' = IF round' = MaxRounds THEN "gave_up" ELSE "iterating"
  BY DEF Iterate
<1>2. round \in 0 .. MaxRounds /\ round < MaxRounds
  BY DEF IInv, TypeOK, Settled, Iterate
<1>3. round' \in 0 .. MaxRounds /\ (round' = MaxRounds \/ round' < MaxRounds)
  BY <1>1, <1>2 DEF MaxRounds
<1>4. ASSUME NEW e \in Entities, NEW z \in schedule'[e] PROVE Typed(e, z, 1)
  BY <1>1, <1>4, RoundTyped DEF IInv, TypeOK
<1>5. DOMAIN schedule' = Entities
  BY <1>1 DEF Resolve
<1>6. TypeOK'
  BY <1>1, <1>3, <1>4, <1>5, LineupStays DEF IInv, TypeOK, Typed, Planned
<1>7. Settled'
  BY <1>1, <1>3 DEF Settled
<1> QED
  BY <1>6, <1>7 DEF IInv

LEMMA Invariant == Spec => []IInv
<1>1. IInv /\ UNCHANGED vars => IInv'
  <2> SUFFICES ASSUME IInv, UNCHANGED vars PROVE IInv'
    OBVIOUS
  <2>1. TypeOK'
    BY LineupStays DEF IInv, TypeOK, vars
  <2>2. Settled'
    BY RoundStays DEF IInv, TypeOK, Settled, vars
  <2> QED
    BY <2>1, <2>2 DEF IInv
<1>2. IInv /\ [Next]_vars => IInv'
  BY <1>1, ConvergeIInv, IterateIInv DEF Next
<1> QED
  BY InitIInv, <1>2, PTL DEF Spec

\* The schedules always hold what is planned, under verdicts the engine can give
\* (MatchupEngine.evaluate).
THEOREM TypeCorrect == Spec => []TypeOK
BY Invariant, PTL DEF IInv

-----------------------------------------------------------------------------
(* What is cancelled when the engine has converged.                        *)

\* A continuation falls exactly when its origin is cancelled in the end: origins
\* are casts, and a cast has its verdict before the continuations are looked at.
LEMMA LostAreCancelled ==
  ASSUME lineup \in Lineups, NEW s, NEW e \in Entities, NEW x \in Planned(e)
  PROVE  x.origin \in Lost(s, e) <=> x.origin \in Cancelled(Resolve(s)[e])
<1>1. Cancelled(Resolve(s)[e]) = {y.id : y \in {z \in Kept(s, e) : Verdict(s, e, z) # NotCancelled}}
  <2> DEFINE Final(y) == Event(y, When(s, e, y), Verdict(s, e, y))
  <2>1. \A y : /\ Final(y).id = y.id
               /\ IsCancelled(Final(y)) <=> Verdict(s, e, y) # NotCancelled
    BY EventFields
  <2>2. Resolve(s)[e] = {Final(y) : y \in Kept(s, e)}
    BY RoundIs
  <2> HIDE DEF Final
  <2> QED
    BY <2>1, <2>2 DEF Cancelled
<1>2. ASSUME x.origin \in Lost(s, e)
      PROVE  x.origin \in Cancelled(Resolve(s)[e])
  <2>1. PICK y \in Kept(s, e) : x.origin = y.id /\ OnCast(s, e, y) # NotCancelled
    BY <1>2 DEF Lost
  <2>2. Verdict(s, e, y) # NotCancelled
    BY <2>1 DEF Verdict
  <2> QED
    BY <1>1, <2>1, <2>2
<1>3. ASSUME x.origin \in Cancelled(Resolve(s)[e])
      PROVE  x.origin \in Lost(s, e)
  <2>1. PICK y \in Kept(s, e) : x.origin = y.id /\ Verdict(s, e, y) # NotCancelled
    BY <1>1, <1>3
  <2>2. y \in Planned(e)
    BY DEF Kept
  <2>3. y.origin = NoEvent
    BY <2>1, <2>2, PlansAre
  <2>4. NoEvent \notin Lost(s, e)
    BY PlansAre DEF Lost, Kept
  <2>5. OnCast(s, e, y) # NotCancelled
    BY <2>1, <2>3, <2>4 DEF Verdict
  <2> QED
    BY <2>1, <2>5 DEF Lost
<1> QED
  BY <1>2, <1>3

LEMMA CauseIsRight == IInv => CancelledForACause
<1> SUFFICES ASSUME IInv, phase = "converged", NEW e \in Entities, NEW z \in schedule[e]
             PROVE  IsCancelled(z) <=> \/ PlannedAt(e, z) < Participant(e).contact
                                       \/ z.origin = NoEvent /\ IsControlled(e, z)
                                       \/ z.origin \in Fallen(e)
  BY DEF CancelledForACause
<1> DEFINE s == schedule
<1>1. lineup \in Lineups /\ Resolve(s)[e] = s[e]
  BY DEF IInv, TypeOK, Settled
<1>2. PICK x \in Kept(s, e) : z = Event(x, When(s, e, x), Verdict(s, e, x))
  BY <1>1, RoundIs
<1>3. /\ z.id = x.id /\ z.at = When(s, e, x) /\ z.channel = x.channel /\ z.origin = x.origin
      /\ IsCancelled(z) <=> Verdict(s, e, x) # NotCancelled
  BY <1>2, EventFields
<1>4. x \in Planned(e)
  BY DEF Kept
<1>5. PlannedAt(e, z) = x.at
  BY <1>1, <1>3, <1>4, PlannedTime
<1>6. x.origin \in Lost(s, e) <=> z.origin \in Fallen(e)
  BY <1>1, <1>3, <1>4, LostAreCancelled DEF Fallen
<1>7. Blockers(s, e, x) # {} <=> IsControlled(e, z)
  BY <1>3, CastWindowsAre, IncomingFields DEF Blockers, IsControlled, Fallen
<1>8. OnCast(s, e, x) # NotCancelled <=> \/ x.at < Participant(e).contact
                                         \/ x.origin = NoEvent /\ Blockers(s, e, x) # {}
  BY Reasons DEF OnCast, OnArrival
<1>9. Verdict(s, e, x) # NotCancelled <=> \/ x.origin \in Lost(s, e)
                                          \/ OnCast(s, e, x) # NotCancelled
  BY Reasons DEF Verdict
<1> QED
  BY <1>3, <1>5, <1>6, <1>7, <1>8, <1>9

\* When the engine says it has converged, an action is cancelled exactly when it
\* precedes contact, is a cast under a control that takes effect, or continues a
\* cancelled cast (_apply_cast_blocks, _active_cast_windows).
THEOREM CancellationsHaveCauses == Spec => []CancelledForACause
BY Invariant, CauseIsRight, PTL

-----------------------------------------------------------------------------
(* Rounds work forward in time.                                            *)

\* With nobody's clock slowed, every event of the schedules s comes when planned.
OnTime(s) ==
  \A e \in Entities : \A z \in s[e] : \E x \in Planned(e) : z.id = x.id /\ z.at = x.at

LEMMA ClockKept ==
  ASSUME ClocksAreTheirOwn, NEW s, NEW e \in Entities, NEW x
  PROVE  When(s, e, x) = x.at
<1>1. \A o \in Aimers(e) : Participant(o).kit.cadence = {}
  BY DEF ClocksAreTheirOwn, Aimers
<1>2. CadenceWindows(s, e) = {}
  BY <1>1 DEF CadenceWindows, ActiveCadenceWindows, Active
<1>3. CadenceAdjusted(x.at, {}) = x.at
  BY DEF CadenceAdjusted
<1> QED
  BY <1>2, <1>3 DEF When

LEMMA ArrivingOnTime ==
  ASSUME NEW e \in Entities, NEW z \in Arriving(e)
  PROVE  \E x \in Planned(e) : z.id = x.id /\ z.at = x.at
<1>1. PICK x \in Planned(e) : z = Event(x, x.at, OnArrival(e, x))
  BY ArrivingIs
<1> QED
  BY <1>1, EventFields

LEMMA RoundOnTime ==
  ASSUME lineup \in Lineups, ClocksAreTheirOwn, NEW s
  PROVE  OnTime(Resolve(s))
<1> SUFFICES ASSUME NEW e \in Entities, NEW z \in Resolve(s)[e]
             PROVE  \E x \in Planned(e) : z.id = x.id /\ z.at = x.at
  BY DEF OnTime
<1>1. PICK x \in Kept(s, e) : z = Event(x, When(s, e, x), Verdict(s, e, x))
  BY RoundIs
<1>2. x \in Planned(e) /\ When(s, e, x) = x.at
  BY ClockKept DEF Kept
<1> QED
  BY <1>1, <1>2, EventFields

\* Two schedules that disagree on whether c is cancelled differ at its time.
Differs(s, t, o, id) == ~(id \in Cancelled(s[o]) <=> id \in Cancelled(t[o]))

Changes(s, t) == {z.at : z \in UNION {(s[e] \ t[e]) \cup (t[e] \ s[e]) : e \in Entities}}

LEMMA DifferenceIsAChange ==
  ASSUME lineup \in Lineups, NEW s, NEW t, OnTime(s), OnTime(t),
         NEW o \in Entities, NEW id, Differs(s, t, o, id)
  PROVE  \E x \in Planned(o) : x.id = id /\ x.at \in Changes(s, t)
<1>1. \E z \in (s[o] \ t[o]) \cup (t[o] \ s[o]) : z.id = id
  BY DEF Differs, Cancelled
<1>2. PICK z \in (s[o] \ t[o]) \cup (t[o] \ s[o]) : z.id = id
  BY <1>1
<1>3. PICK x \in Planned(o) : z.id = x.id /\ z.at = x.at
  BY <1>2 DEF OnTime
<1>4. z.at \in Changes(s, t)
  BY <1>2 DEF Changes
<1> QED
  BY <1>2, <1>3, <1>4

\* If a window stands in one of two schedules only, they differ before it opens.
LEMMA WindowNeedsAChange ==
  ASSUME lineup \in Lineups, NEW s, NEW t, OnTime(s), OnTime(t),
         NEW o \in Entities,
         NEW w \in Participant(o).kit.blocks \cup Participant(o).kit.immunities,
         Differs(s, t, o, w.source)
  PROVE  \E u \in Changes(s, t) : u <= w.start
<1>1. PICK x \in Planned(o) : x.id = w.source /\ x.at \in Changes(s, t)
  BY DifferenceIsAChange
<1>2. x.at <= w.start
  BY <1>1, EntityIsSomebody, WindowsAssumption DEF Planned
<1> QED
  BY <1>1, <1>2

\* The same of an immunity that holds in one of the two only.
LEMMA ImmunityNeedsAChange ==
  ASSUME lineup \in Lineups, NEW s, NEW t, OnTime(s), OnTime(t),
         NEW r \in Entities, NEW type, NEW at \in Nat,
         IsImmune(s, r, type, at), ~IsImmune(t, r, type, at)
  PROVE  \E u \in Changes(s, t) : u <= at
<1>1. PICK i \in Participant(r).kit.immunities :
        i.source \notin Cancelled(s[r]) /\ Covers(i, at) /\ Resists(i, type)
  BY DEF IsImmune, Immune, ActiveImmunities, Active
<1>2. i.source \in Cancelled(t[r])
  BY <1>1 DEF IsImmune, Immune, ActiveImmunities, Active
<1>3. PICK u \in Changes(s, t) : u <= i.start
  BY <1>1, <1>2, WindowNeedsAChange DEF Differs
<1>4. i.start <= at
  BY <1>1 DEF Covers
<1>5. PICK x \in Planned(r) : x.id = i.source /\ x.at \in Changes(s, t)
  BY <1>1, <1>2, DifferenceIsAChange DEF Differs
<1>6. x.at \in Nat /\ x.at <= i.start /\ i.start \in Nat
  BY <1>5, EntityIsSomebody, WindowsAssumption, EventsAssumption DEF Planned
<1> QED
  BY <1>4, <1>5, <1>6

LEMMA ChangesAreTimes ==
  ASSUME lineup \in Lineups, NEW s, NEW t, OnTime(s), OnTime(t)
  PROVE  Changes(s, t) \subseteq Nat
<1>1. ASSUME NEW e \in Entities, NEW z \in (s[e] \ t[e]) \cup (t[e] \ s[e])
      PROVE  z.at \in Nat
  <2>1. PICK x \in Planned(e) : z.at = x.at
    BY <1>1 DEF OnTime
  <2> QED
    BY <2>1, PlansAre
<1> QED
  BY <1>1 DEF Changes

\* What stops an event in only one of two schedules has a cause in what they differ in.
LEMMA StopNeedsAChange ==
  ASSUME lineup \in Lineups, ClocksAreTheirOwn, NEW s, NEW t, OnTime(s), OnTime(t),
         NEW e \in Entities, NEW x \in Planned(e),
         NEW v \in Blockers(s, e, x), v \notin Blockers(t, e, x)
  PROVE  \E u \in Changes(s, t) : u <= x.at
<1>1. When(s, e, x) = x.at /\ When(t, e, x) = x.at
  BY ClockKept
<1>2. v \in CastWindows(s, e) /\ v \notin CastWindows(t, e) /\ Covers(v, x.at)
  BY <1>1 DEF Blockers
<1>3. PICK o \in Aimers(e) : \E w \in Participant(o).kit.blocks :
        w.source \notin Cancelled(s[o]) /\ ~IsImmune(s, e, w.type, w.start) /\ v = AsMet(o, w, e)
  BY <1>2, CastWindowsAre
<1>4. PICK w \in Participant(o).kit.blocks :
        w.source \notin Cancelled(s[o]) /\ ~IsImmune(s, e, w.type, w.start) /\ v = AsMet(o, w, e)
  BY <1>3
<1>5. o \in Entities
  BY DEF Aimers
<1>6. w.start \in Nat /\ w.start <= x.at /\ x.at \in Nat
  BY <1>2, <1>4, <1>5, IncomingFields, EntityIsSomebody, WindowsAssumption, PlansAre DEF Covers
<1>7. w.source \in Cancelled(t[o]) \/ IsImmune(t, e, w.type, w.start)
  BY <1>2, <1>4, CastWindowsAre
<1>8. \E u \in Changes(s, t) : u <= w.start
  <2>1. CASE w.source \in Cancelled(t[o])
    BY <2>1, <1>4, <1>5, WindowNeedsAChange DEF Differs
  <2>2. CASE IsImmune(t, e, w.type, w.start)
    <3>1. \E u \in Changes(t, s) : u <= w.start
      BY <2>2, <1>4, <1>6, ImmunityNeedsAChange
    <3> QED
      BY <3>1 DEF Changes
  <2> QED
    BY <1>7, <2>1, <2>2
<1> QED
  BY <1>6, <1>8, ChangesAreTimes

LEMMA CastNeedsAChange ==
  ASSUME lineup \in Lineups, ClocksAreTheirOwn, NEW s, NEW t, OnTime(s), OnTime(t),
         NEW e \in Entities, NEW x \in Planned(e),
         OnCast(s, e, x) # OnCast(t, e, x)
  PROVE  \E u \in Changes(s, t) : u <= x.at
<1>1. Changes(s, t) = Changes(t, s)
  BY DEF Changes
<1>2. Blockers(s, e, x) # Blockers(t, e, x)
  BY DEF OnCast
<1>3. CASE \E v \in Blockers(s, e, x) : v \notin Blockers(t, e, x)
  BY <1>3, StopNeedsAChange
<1>4. CASE \E v \in Blockers(t, e, x) : v \notin Blockers(s, e, x)
  <2>1. \E u \in Changes(t, s) : u <= x.at
    BY <1>4, StopNeedsAChange
  <2> QED
    BY <1>1, <2>1
<1> QED
  BY <1>2, <1>3, <1>4

LEMMA VerdictNeedsAChange ==
  ASSUME lineup \in Lineups, ClocksAreTheirOwn, NEW s, NEW t, OnTime(s), OnTime(t),
         NEW e \in Entities, NEW x \in Planned(e),
         Verdict(s, e, x) # Verdict(t, e, x)
  PROVE  \E u \in Changes(s, t) : u <= x.at
<1>1. CASE OnCast(s, e, x) # OnCast(t, e, x)
  BY <1>1, CastNeedsAChange
<1>2. CASE OnCast(s, e, x) = OnCast(t, e, x)
  <2>1. ~(x.origin \in Lost(s, e) <=> x.origin \in Lost(t, e))
    BY <1>2 DEF Verdict
  <2>2. Kept(s, e) = Kept(t, e)
    BY ClockKept DEF Kept
  <2>3. PICK y \in Kept(s, e) : y.id = x.origin /\ OnCast(s, e, y) # OnCast(t, e, y)
    <3>1. ASSUME \A y \in Kept(s, e) : y.id = x.origin => OnCast(s, e, y) = OnCast(t, e, y)
          PROVE  FALSE
      BY <2>1, <2>2, <3>1 DEF Lost
    <3> QED
      BY <3>1
  <2>4. y \in Planned(e) /\ y.at \in Nat /\ x.at \in Nat /\ y.at <= x.at
    BY <2>3, PlansAre DEF Kept
  <2>5. PICK u \in Changes(s, t) : u <= y.at
    BY <2>3, <2>4, CastNeedsAChange
  <2>6. u \in Nat
    BY ChangesAreTimes
  <2> QED
    BY <2>4, <2>5, <2>6
<1> QED
  BY <1>1, <1>2

\* A round changes nothing before what its argument and another's differ in.
LEMMA RoundsSettleForward ==
  ASSUME lineup \in Lineups, ClocksAreTheirOwn, NEW s, NEW t, OnTime(s), OnTime(t),
         NEW at \in Changes(Resolve(s), Resolve(t))
  PROVE  \E u \in Changes(s, t) : u <= at
<1>1. Changes(s, t) = Changes(t, s)
  BY DEF Changes
<1>2. ASSUME NEW f, NEW g, OnTime(f), OnTime(g), NEW e \in Entities,
             NEW z \in Resolve(f)[e], z \notin Resolve(g)[e]
      PROVE  \E u \in Changes(f, g) : u <= z.at
  <2>1. PICK x \in Kept(f, e) : z = Event(x, When(f, e, x), Verdict(f, e, x))
    BY RoundIs
  <2>2. x \in Planned(e) /\ When(f, e, x) = x.at /\ When(g, e, x) = x.at
    BY ClockKept DEF Kept
  <2>3. x \in Kept(g, e)
    BY <2>2 DEF Kept
  <2>4. Event(x, When(g, e, x), Verdict(g, e, x)) \in Resolve(g)[e]
    BY <2>3, RoundIs
  <2>5. Verdict(f, e, x) # Verdict(g, e, x)
    BY <1>2, <2>1, <2>2, <2>4
  <2>6. z.at = x.at
    BY <2>1, <2>2, EventFields
  <2> QED
    BY <1>2, <2>2, <2>5, <2>6, VerdictNeedsAChange
<1>3. PICK e \in Entities : \E z \in (Resolve(s)[e] \ Resolve(t)[e])
                                       \cup (Resolve(t)[e] \ Resolve(s)[e]) : at = z.at
  BY DEF Changes
<1>4. PICK z \in (Resolve(s)[e] \ Resolve(t)[e]) \cup (Resolve(t)[e] \ Resolve(s)[e]) : at = z.at
  BY <1>3
<1>5. CASE z \in Resolve(s)[e] \ Resolve(t)[e]
  BY <1>2, <1>4, <1>5
<1>6. CASE z \in Resolve(t)[e] \ Resolve(s)[e]
  <2>1. \E u \in Changes(t, s) : u <= z.at
    BY <1>2, <1>6
  <2> QED
    BY <1>1, <1>4, <2>1
<1> QED
  BY <1>4, <1>5, <1>6

Punctual == ClocksAreTheirOwn => OnTime(schedule)

LEMMA PunctualInvariant == Spec => []Punctual
<1>1. Init => Punctual
  BY ArrivingOnTime, FirstSchedules DEF Punctual, OnTime
<1>2. ASSUME lineup' = lineup
      PROVE  /\ ClocksAreTheirOwn' <=> ClocksAreTheirOwn
             /\ Entities' = Entities
             /\ \A e : Planned(e)' = Planned(e)
  BY <1>2, LineupStays DEF ClocksAreTheirOwn, Planned
<1>3. IInv /\ Punctual /\ [Next]_vars => Punctual'
  <2> SUFFICES ASSUME IInv, Punctual, [Next]_vars, ClocksAreTheirOwn' PROVE OnTime(schedule)'
    BY DEF Punctual
  <2>1. lineup' = lineup
    BY DEF Next, Converge, Iterate, vars
  <2>2. ClocksAreTheirOwn /\ OnTime(schedule)
    BY <1>2, <2>1 DEF Punctual
  <2>3. CASE Iterate
    <3>1. OnTime(Resolve(schedule))
      BY <2>2, RoundOnTime DEF IInv, TypeOK
    <3> QED
      BY <1>2, <2>1, <2>3, <3>1 DEF OnTime, Iterate
  <2>4. CASE UNCHANGED schedule
    BY <1>2, <2>1, <2>2, <2>4 DEF OnTime
  <2> QED
    BY <2>3, <2>4 DEF Next, Converge, vars
<1> QED
  BY <1>1, <1>3, Invariant, PTL DEF Spec

LEMMA SettlesIsRight == IInv /\ Punctual => SettlesForward
<1> SUFFICES ASSUME IInv, Punctual, ClocksAreTheirOwn, NEW at \in Unsettled(Resolve(schedule))
             PROVE  \E u \in Unsettled(schedule) : u <= at
  BY DEF SettlesForward
<1> DEFINE t == Resolve(schedule)
<1>1. \A s : Unsettled(s) = Changes(s, Resolve(s))
  BY DEF Unsettled, Changes
<1>2. OnTime(schedule) /\ OnTime(t) /\ lineup \in Lineups
  BY RoundOnTime DEF Punctual, IInv, TypeOK
<1>3. at \in Changes(t, Resolve(t))
  BY <1>1
<1>4. \E u \in Changes(schedule, t) : u <= at
  <2> HIDE DEF t
  <2> SUFFICES ASSUME t = Resolve(schedule) PROVE \E u \in Changes(schedule, t) : u <= at
    BY DEF t
  <2> QED BY <1>2, <1>3, RoundsSettleForward
<1> QED
  BY <1>1, <1>4

\* Without slowed clocks a round changes nothing before what the last one changed:
\* the search settles the schedules from the front to the back
\* (MatchupEngine.evaluate, the loop of at most six rounds).
THEOREM SettlesForwardTheorem == Spec => []SettlesForward
BY Invariant, PunctualInvariant, SettlesIsRight, PTL

-----------------------------------------------------------------------------
(* The two roles are treated alike.                                        *)

Twins == lineup.actors = lineup.opponents

Mirror(e) == <<Opposite(e[1]), e[2]>>

LEMMA MirrorIs ==
  ASSUME lineup \in Lineups, Twins, NEW e \in Entities
  PROVE  /\ Mirror(e) \in Entities
         /\ Mirror(Mirror(e)) = e
         /\ Mirror(e)[1] = Opposite(e[1]) /\ Mirror(e)[2] = e[2]
         /\ Participant(Mirror(e)) = Participant(e)
         /\ Planned(Mirror(e)) = Planned(e)
<1>1. e[1] \in Sides /\ e[2] \in DOMAIN lineup[e[1]] /\ e = <<e[1], e[2]>>
  BY EntityIsSomebody
<1>2. lineup["actors"] = lineup["opponents"]
  BY DEF Twins
<1>3. Opposite(e[1]) \in Sides /\ lineup[Opposite(e[1])] = lineup[e[1]] /\ Opposite(Opposite(e[1])) = e[1]
  BY <1>1, <1>2 DEF Opposite, Sides
<1>4. Mirror(e)[1] = Opposite(e[1]) /\ Mirror(e)[2] = e[2]
  BY DEF Mirror
<1>5. Mirror(e) \in Entities
  BY <1>1, <1>3 DEF Mirror, Entities, Side, Opposite, Sides
<1>6. Mirror(Mirror(e)) = e
  BY <1>1, <1>3, <1>4 DEF Mirror
<1>7. Participant(Mirror(e)) = Participant(e)
  BY <1>3, <1>4 DEF Participant
<1> QED
  BY <1>4, <1>5, <1>6, <1>7 DEF Planned

LEMMA AimMirrors ==
  ASSUME lineup \in Lineups, Twins, NEW e \in Entities
  PROVE  Aim(Mirror(e)) = Mirror(Aim(e)) /\ Aim(e) \in Entities
<1>1. /\ e[1] \in Sides /\ e = <<e[1], e[2]>>
      /\ Mirror(e) = <<Opposite(e[1]), e[2]>>
  BY EntityIsSomebody DEF Mirror
<1>2. Mirror(Actor) = Primary /\ Mirror(Primary) = Actor
  BY DEF Mirror, Actor, Primary, Opposite
<1>4. CASE e = Actor
  BY <1>2, <1>4, AimIs
<1>5. CASE e = Primary
  BY <1>2, <1>5, AimIs
<1>6. CASE e # Actor /\ e # Primary
  <2> DEFINE n == Opposite(e[1])
             m == e[1]
             f == Mirror(e)
             c == ChooseTarget(e, Side(n))
             d == ChooseTarget(f, Side(m))
             T == ReachableTargets(e, Side(n))
             U == ReachableTargets(f, Side(m))
  <2>1. f \in Entities /\ f # Actor /\ f # Primary /\ f[1] = n /\ n \in Sides /\ m \in Sides
    BY <1>1, <1>2, <1>6, MirrorIs DEF Opposite, Sides
  <2>2. Aim(e) = c /\ Aim(f) = d
    BY <1>1, <1>6, AimIs, <2>1 DEF Sides, Opposite
  <2>3. T \subseteq Side(n) /\ Chosen(T, c) /\ U \subseteq Side(m) /\ Chosen(U, d)
    BY <2>1, TargetIs
  <2>4. Side(n) \subseteq Entities /\ Side(m) \subseteq Entities
    BY <2>1 DEF Sides, Entities
  <2>5. \A x \in Side(n) : Mirror(x) \in Side(m)
    BY <2>1, <2>4, MirrorIs DEF Side, Opposite, Sides, Entities, Twins, Mirror
  <2>6. \A x \in Side(m) : Mirror(x) \in Side(n)
    BY <2>1, <2>4, MirrorIs DEF Side, Opposite, Sides, Entities, Twins, Mirror
  <2>7. \A x \in Side(n) : x \in T <=> Mirror(x) \in U
    <3>1. Participant(f) = Participant(e)
      BY MirrorIs
    <3>2. \A x \in Side(n) : /\ Participant(Mirror(x)) = Participant(x) /\ Mirror(x) \in Side(m)
                             /\ Mirror(Mirror(x)) = x
      BY <2>4, <2>5, MirrorIs
    <3>3. \A x \in Side(m) : /\ Participant(Mirror(x)) = Participant(x) /\ Mirror(x) \in Side(n)
      BY <2>4, <2>6, MirrorIs
    <3> QED
      BY <3>1, <3>2, <3>3 DEF ReachableTargets
  <2>8. Chosen(U, Mirror(c))
    <3>1. c \in T /\ c \in Side(n)
      BY <2>3 DEF Chosen
    <3>2. Mirror(c) \in U
      BY <2>7, <3>1
    <3>3. ASSUME NEW y \in U PROVE Precedes(Mirror(c), y)
      <4>1. y \in Side(m) /\ y \in Entities
        BY <2>3, <2>4
      <4>2. Mirror(y) \in Side(n) /\ Mirror(Mirror(y)) = y
        BY <4>1, <2>6, MirrorIs
      <4>3. Mirror(y) \in T
        BY <4>2, <2>7
      <4>4. Precedes(c, Mirror(y))
        BY <2>3, <4>3 DEF Chosen
      <4>5. /\ Participant(Mirror(c)) = Participant(c) /\ Mirror(c)[2] = c[2]
            /\ Participant(Mirror(y)) = Participant(y) /\ Mirror(y)[2] = y[2]
        BY <2>4, <3>1, <4>1, MirrorIs
      <4> QED
        BY <4>4, <4>5 DEF Precedes
    <3> QED
      BY <3>2, <3>3 DEF Chosen
  <2>9. Mirror(c) = d
    BY <2>1, <2>3, <2>4, <2>8, FirstTargetIsOne
  <2>10. c \in Entities
    BY <2>3, <2>4 DEF Chosen
  <2> QED
    BY <2>2, <2>9, <2>10
<1> QED
  BY <1>4, <1>5, <1>6

LEMMA AimersMirror ==
  ASSUME lineup \in Lineups, Twins, NEW r \in Entities, NEW o \in Aimers(r)
  PROVE  Mirror(o) \in Aimers(Mirror(r)) /\ o \in Entities
<1>1. o \in Entities /\ Aim(o) = r
  BY DEF Aimers
<1>2. Mirror(o) \in Entities /\ Aim(Mirror(o)) = Mirror(r)
  BY <1>1, AimMirrors, MirrorIs
<1> QED
  BY <1>1, <1>2 DEF Aimers

\* What is compared of two schedules: which events there are, when, and whether they happen.
Outcome(events) == {<<x.id, x.at, IsCancelled(x)>> : x \in events}

Mirrored(s) == \A e \in Entities : Outcome(s[Mirror(e)]) = Outcome(s[e])

LEMMA OutcomeCancels ==
  ASSUME NEW S, NEW T, Outcome(S) = Outcome(T)
  PROVE  Cancelled(S) \subseteq Cancelled(T)
<1> SUFFICES ASSUME NEW x \in S, IsCancelled(x) PROVE x.id \in Cancelled(T)
  BY DEF Cancelled
<1>1. <<x.id, x.at, TRUE>> \in Outcome(S)
  BY DEF Outcome
<1>2. PICK y \in T : <<x.id, x.at, TRUE>> = <<y.id, y.at, IsCancelled(y)>>
  BY <1>1 DEF Outcome
<1> QED
  BY <1>2 DEF Cancelled

LEMMA CancelledMirrors ==
  ASSUME NEW s, Mirrored(s), NEW e \in Entities
  PROVE  Cancelled(s[Mirror(e)]) = Cancelled(s[e])
<1>1. Outcome(s[Mirror(e)]) = Outcome(s[e])
  BY DEF Mirrored
<1>2. Cancelled(s[Mirror(e)]) \subseteq Cancelled(s[e])
  BY <1>1, OutcomeCancels
<1>3. Cancelled(s[e]) \subseteq Cancelled(s[Mirror(e)])
  BY <1>1, OutcomeCancels
<1> QED
  BY <1>2, <1>3

LEMMA ImmunityMirrors ==
  ASSUME lineup \in Lineups, Twins, NEW s, Mirrored(s), NEW e \in Entities, NEW type, NEW at
  PROVE  IsImmune(s, Mirror(e), type, at) <=> IsImmune(s, e, type, at)
BY CancelledMirrors, MirrorIs DEF IsImmune, Immune, ActiveImmunities, Active

\* The clock of e is slowed as its counterpart's is.
LEMMA CadenceMirrors ==
  ASSUME lineup \in Lineups, Twins, NEW s, Mirrored(s), NEW e \in Entities
  PROVE  CadenceWindows(s, Mirror(e)) = CadenceWindows(s, e)
<1>1. ASSUME NEW r \in Entities, NEW v \in CadenceWindows(s, r)
      PROVE  v \in CadenceWindows(s, Mirror(r))
  <2>1. PICK o \in Aimers(r) : \E w \in Active(Participant(o).kit.cadence, s[o]) : v = Slowing(o, w)
    BY <1>1 DEF CadenceWindows, ActiveCadenceWindows
  <2>2. PICK w \in Active(Participant(o).kit.cadence, s[o]) : v = Slowing(o, w)
    BY <2>1
  <2>3. Mirror(o) \in Aimers(Mirror(r)) /\ o \in Entities
    BY AimersMirror
  <2>4. Participant(Mirror(o)) = Participant(o) /\ Mirror(o)[2] = o[2]
    BY <2>3, MirrorIs
  <2>5. w \in Active(Participant(Mirror(o)).kit.cadence, s[Mirror(o)])
    BY <2>3, <2>4, CancelledMirrors DEF Active
  <2>6. v = Slowing(Mirror(o), w)
    BY <2>2, <2>4 DEF Slowing
  <2> QED
    BY <2>3, <2>5, <2>6 DEF CadenceWindows, ActiveCadenceWindows
<1>2. Mirror(e) \in Entities /\ Mirror(Mirror(e)) = e
  BY MirrorIs
<1>3. CadenceWindows(s, e) \subseteq CadenceWindows(s, Mirror(e))
  BY <1>1
<1>4. CadenceWindows(s, Mirror(e)) \subseteq CadenceWindows(s, e)
  BY <1>1, <1>2
<1> QED
  BY <1>3, <1>4

\* An event is stopped when its counterpart is.
LEMMA StopMirrors ==
  ASSUME lineup \in Lineups, Twins, NEW s, Mirrored(s), NEW e \in Entities, NEW x,
         Blockers(s, e, x) # {}
  PROVE  Blockers(s, Mirror(e), x) # {}
<1> DEFINE f == Mirror(e)
<1>1. PICK o \in Aimers(e) : \E w \in Participant(o).kit.blocks :
           /\ w.source \notin Cancelled(s[o])
           /\ ~IsImmune(s, e, w.type, w.start)
           /\ Covers(AsMet(o, w, e), When(s, e, x))
           /\ x.channel \in w.channels
  BY BlockersAre
<1>2. PICK w \in Participant(o).kit.blocks :
           /\ w.source \notin Cancelled(s[o])
           /\ ~IsImmune(s, e, w.type, w.start)
           /\ Covers(AsMet(o, w, e), When(s, e, x))
           /\ x.channel \in w.channels
  BY <1>1
<1> DEFINE v == AsMet(Mirror(o), w, f)
<1>3. Mirror(o) \in Aimers(f) /\ o \in Entities
  BY AimersMirror
<1>4. w \in Participant(Mirror(o)).kit.blocks /\ w.source \notin Cancelled(s[Mirror(o)])
  BY <1>2, <1>3, MirrorIs, CancelledMirrors
<1>5. ~IsImmune(s, f, w.type, w.start)
  BY <1>2, ImmunityMirrors
<1>6. v \in CastWindows(s, f)
  BY <1>3, <1>4, <1>5, CastWindowsAre
<1>7. When(s, f, x) = When(s, e, x)
  BY CadenceMirrors DEF When
<1>8. v.start = AsMet(o, w, e).start /\ v.end = AsMet(o, w, e).end /\ v.channels = w.channels
  BY MirrorIs DEF AsMet, Incoming, ShortenedEnd
<1>9. Covers(v, When(s, f, x)) /\ x.channel \in v.channels
  BY <1>2, <1>7, <1>8 DEF Covers
<1>10. v \in Blockers(s, f, x)
  BY <1>6, <1>9 DEF Blockers
<1> QED
  BY <1>10

\* A round keeps the two sides alike.
LEMMA RoundMirrors ==
  ASSUME lineup \in Lineups, Twins, NEW s, Mirrored(s), NEW e \in Entities
  PROVE  Outcome(Resolve(s)[Mirror(e)]) = Outcome(Resolve(s)[e])
<1> DEFINE f == Mirror(e)
           Stands(d, x) == <<x.id, When(s, d, x), Verdict(s, d, x) # NotCancelled>>
<1>1. f \in Entities /\ Mirror(f) = e /\ Participant(f) = Participant(e) /\ Planned(f) = Planned(e)
  BY MirrorIs
<1>2. \A x : When(s, f, x) = When(s, e, x)
  BY CadenceMirrors DEF When
<1>3. Kept(s, f) = Kept(s, e)
  BY <1>1, <1>2 DEF Kept
<1>4. \A x : Blockers(s, f, x) # {} <=> Blockers(s, e, x) # {}
  BY <1>1, StopMirrors
<1>5. \A x : OnCast(s, f, x) # NotCancelled <=> OnCast(s, e, x) # NotCancelled
  BY <1>1, <1>4, Reasons DEF OnCast, OnArrival
<1>6. Lost(s, f) = Lost(s, e)
  BY <1>3, <1>5 DEF Lost
<1>7. \A x : Verdict(s, f, x) # NotCancelled <=> Verdict(s, e, x) # NotCancelled
  BY <1>5, <1>6, Reasons DEF Verdict
<1>8. ASSUME NEW d \in Entities
      PROVE  Outcome(Resolve(s)[d]) = {Stands(d, x) : x \in Kept(s, d)}
  <2> DEFINE Final(x) == Event(x, When(s, d, x), Verdict(s, d, x))
             Told(y) == <<y.id, y.at, IsCancelled(y)>>
  <2>1. \A x : Told(Final(x)) = Stands(d, x)
    <3> TAKE x
    <3>1. /\ Final(x).id = x.id /\ Final(x).at = When(s, d, x)
          /\ Final(x).cancelled = Verdict(s, d, x)
      BY EventFields
    <3> HIDE DEF Final
    <3> QED
      BY <3>1 DEF IsCancelled
  <2>2. Resolve(s)[d] = {Final(x) : x \in Kept(s, d)}
    BY RoundIs
  <2>3. Outcome(Resolve(s)[d]) = {Told(y) : y \in Resolve(s)[d]}
    BY DEF Outcome
  <2> HIDE DEF Final, Told, Stands
  <2> QED
    BY <2>1, <2>2, <2>3
<1>9. \A x : Stands(f, x) = Stands(e, x)
  BY <1>2, <1>7
<1> HIDE DEF Stands
<1> QED
  BY <1>1, <1>3, <1>8, <1>9

Symmetric == Twins => Mirrored(schedule)

LEMMA SymmetricInvariant == Spec => []Symmetric
<1>1. Init => Symmetric
  <2> SUFFICES ASSUME Init, Twins, NEW e \in Entities
               PROVE  Outcome(schedule[Mirror(e)]) = Outcome(schedule[e])
    BY DEF Symmetric, Mirrored
  <2>1. lineup \in Lineups
    BY DEF Init
  <2>2. Mirror(e) \in Entities /\ Participant(Mirror(e)) = Participant(e)
    BY <2>1, MirrorIs
  <2>3. Arriving(Mirror(e)) = Arriving(e)
    BY <2>2 DEF Arriving, Plan
  <2> QED
    BY <2>2, <2>3, FirstSchedules
<1>2. IInv /\ Symmetric /\ [Next]_vars => Symmetric'
  <2> SUFFICES ASSUME IInv, Symmetric, [Next]_vars, Twins' PROVE Mirrored(schedule)'
    BY DEF Symmetric
  <2>1. lineup' = lineup
    BY DEF Next, Converge, Iterate, vars
  <2>2. Twins /\ Mirrored(schedule) /\ lineup \in Lineups
    BY <2>1 DEF Symmetric, Twins, IInv, TypeOK
  <2>3. Mirrored(schedule')
    <3>1. CASE Iterate
      BY <2>2, <3>1, RoundMirrors DEF Mirrored, Iterate
    <3>2. CASE UNCHANGED schedule
      BY <2>2, <3>2
    <3> QED
      BY <3>1, <3>2 DEF Next, Converge, vars
  <2> QED
    BY <2>1, <2>3, LineupStays DEF Mirrored
<1> QED
  BY <1>1, <1>2, Invariant, PTL DEF Spec

LEMMA SymmetryIsRight == IInv /\ Symmetric => RoleNeutral
<1> SUFFICES ASSUME IInv, Symmetric, Twins, NEW i \in DOMAIN lineup.actors
             PROVE  Outcome(schedule[<<"actors", i>>]) = Outcome(schedule[<<"opponents", i>>])
  BY DEF RoleNeutral, Twins, Outcome
<1>1. <<"actors", i>> \in Entities
  BY DEF Entities, Side
<1>2. Mirror(<<"actors", i>>) = <<"opponents", i>>
  BY DEF Mirror, Opposite
<1> QED
  BY <1>1, <1>2 DEF Symmetric, Mirrored

\* When the same participants stand on both sides, the same actions happen on both,
\* whatever the round: the three places in which MatchupEngine.evaluate computes the
\* actor, its allies and the opponents make the same of the schedules of the round
\* before (CopiesAgree), and the choice of targets does not favour a side.
THEOREM RolesAreAlike == Spec => []RoleNeutral
BY Invariant, SymmetricInvariant, SymmetryIsRight, PTL

-----------------------------------------------------------------------------
(* Controls before contact, and controls that are not taken.               *)

\* The window that a blocked event names, in the schedules of a round.
LEMMA BlockingWindow ==
  ASSUME lineup \in Lineups, NEW s, NEW e \in Entities, NEW z \in Resolve(s)[e], IsBlocked(z)
  PROVE  /\ BlockedBy(z) \in Aimers(e) /\ BlockedBy(z) \in Entities /\ Aim(BlockedBy(z)) = e
         /\ Window(z) \in Participant(BlockedBy(z)).kit.blocks
         /\ Window(z).source \notin Cancelled(s[BlockedBy(z)])
         /\ ~IsImmune(s, e, Window(z).type, Window(z).start)
<1>1. PICK x \in Kept(s, e) : z = Event(x, When(s, e, x), Verdict(s, e, x))
  BY RoundIs
<1>2. z.cancelled = Verdict(s, e, x) /\ IsCancelled(z)
  BY <1>1, EventFields DEF IsBlocked
<1>3. z.cancelled # NotCancelled
  BY <1>2 DEF IsCancelled
<1>4. Blockers(s, e, x) # {} /\ z.cancelled = CastBlocked(FirstOf(Blockers(s, e, x)))
  BY <1>2, <1>3, VerdictIs, Reasons DEF IsBlocked
<1>5. PICK o \in Aimers(e) : \E w \in Participant(o).kit.blocks :
           /\ w.source \notin Cancelled(s[o])
           /\ ~IsImmune(s, e, w.type, w.start)
           /\ FirstOf(Blockers(s, e, x)) = AsMet(o, w, e)
  BY <1>4, BlockersAre
<1>6. PICK w \in Participant(o).kit.blocks :
           /\ w.source \notin Cancelled(s[o])
           /\ ~IsImmune(s, e, w.type, w.start)
           /\ FirstOf(Blockers(s, e, x)) = AsMet(o, w, e)
  BY <1>5
<1>7. BlockedBy(z) = o /\ z.cancelled[3] = w.id
  BY <1>4, <1>6, Reasons, IncomingFields DEF BlockedBy
<1>8. o \in Entities /\ Aim(o) = e
  BY DEF Aimers
<1>9. \A v \in Participant(o).kit.blocks : v.id = w.id <=> v = w
  BY <1>8, EntityIsSomebody, WindowsAssumption
<1>10. (CHOOSE v \in Participant(o).kit.blocks : v.id = w.id) = w
  BY <1>9
<1>11. Window(z) = w
  BY <1>7, <1>10 DEF Window
<1> QED
  BY <1>5, <1>6, <1>7, <1>8, <1>11

Unslowed(o) == \A q \in Aimers(o) : Participant(q).kit.cadence = {}

LEMMA UnslowedIsOnTime ==
  ASSUME NEW s, NEW o, NEW x, x.channel # "BASIC_ATTACK" \/ Unslowed(o)
  PROVE  When(s, o, x) = x.at
<1>1. CASE Unslowed(o)
  <2>1. CadenceWindows(s, o) = {}
    BY <1>1 DEF Unslowed, CadenceWindows, ActiveCadenceWindows, Active
  <2>2. CadenceAdjusted(x.at, {}) = x.at
    BY DEF CadenceAdjusted
  <2> QED
    BY <2>1, <2>2 DEF When
<1> QED
  BY <1>1 DEF When

\* What is planned before the contact stays in the schedule, cancelled, unless it
\* is an attack whose clock is slowed.
EarlyStays(s) ==
  \A o \in Entities : \A x \in Planned(o) :
    /\ x.at < Participant(o).contact /\ x.at <= Duration
    /\ x.channel # "BASIC_ATTACK" \/ Unslowed(o)
    => x.id \in Cancelled(s[o])

LEMMA ArrivingEarlyStays == EarlyStays([o \in Entities |-> Arriving(o)])
<1> SUFFICES ASSUME NEW o \in Entities, NEW x \in Planned(o), x.at < Participant(o).contact
             PROVE  x.id \in Cancelled(Arriving(o))
  BY DEF EarlyStays
<1>1. Event(x, x.at, NotInContact) \in Arriving(o)
  BY ArrivingIs DEF OnArrival
<1> QED
  BY <1>1, EventFields, Reasons DEF Cancelled

LEMMA RoundEarlyStays ==
  ASSUME lineup \in Lineups, NEW s
  PROVE  EarlyStays(Resolve(s))
<1> SUFFICES ASSUME NEW o \in Entities, NEW x \in Planned(o),
                    x.at < Participant(o).contact, x.at <= Duration,
                    x.channel # "BASIC_ATTACK" \/ Unslowed(o)
             PROVE  x.id \in Cancelled(Resolve(s)[o])
  BY DEF EarlyStays
<1>1. x \in Kept(s, o)
  BY UnslowedIsOnTime DEF Kept
<1>2. Event(x, When(s, o, x), Verdict(s, o, x)) \in Resolve(s)[o]
  BY <1>1, RoundIs
<1>3. Verdict(s, o, x) # NotCancelled
  BY Reasons DEF Verdict, OnCast, OnArrival
<1> QED
  BY <1>2, <1>3, EventFields DEF Cancelled

\* Controls of the time before contact come from casts, or from attacks that
\* nobody slows.
EarlyControlsAreOnTime ==
  \A o \in Entities : \A w \in Participant(o).kit.blocks :
    \/ w.start >= Participant(o).contact
    \/ \E x \in Participant(o).kit.events :
         x.id = w.source /\ (x.channel # "BASIC_ATTACK" \/ Unslowed(o))

LEMMA WindowInContact ==
  ASSUME lineup \in Lineups, EarlyControlsAreOnTime, NEW s, EarlyStays(s), NEW o \in Entities,
         NEW w \in Participant(o).kit.blocks, w.source \notin Cancelled(s[o])
  PROVE  w.start >= Participant(o).contact
<1>1. SUFFICES ASSUME ~(w.start >= Participant(o).contact) PROVE FALSE
  OBVIOUS
<1>2. PICK x \in Planned(o) : x.id = w.source /\ (x.channel # "BASIC_ATTACK" \/ Unslowed(o))
  BY <1>1 DEF EarlyControlsAreOnTime, Planned
<1>3. /\ x.at \in Nat /\ w.start \in Nat /\ x.at <= w.start
      /\ Participant(o).contact \in 0 .. Never
  BY <1>2, PlansAre, EntityIsSomebody, WindowsAssumption DEF Planned
<1>4. x.at < Participant(o).contact /\ x.at <= Duration
  BY <1>1, <1>3, LineupsAssumption DEF Never
<1> QED
  BY <1>2, <1>4 DEF EarlyStays

InContact ==
  /\ EarlyStays(schedule)
  /\ EarlyControlsAreOnTime => ControlNeedsContact

LEMMA RoundInContact ==
  ASSUME IInv, EarlyStays(schedule), EarlyControlsAreOnTime,
         NEW e \in Entities, NEW z \in Resolve(schedule)[e], IsBlocked(z)
  PROVE  Window(z).start >= Participant(BlockedBy(z)).contact
BY BlockingWindow, WindowInContact DEF IInv, TypeOK

LEMMA InContactInvariant == Spec => []InContact
<1>1. Init => InContact
  <2> SUFFICES ASSUME Init PROVE InContact
    OBVIOUS
  <2>1. EarlyStays(schedule)
    BY ArrivingEarlyStays, FirstSchedules DEF Init
  <2>2. ASSUME NEW e \in Entities, NEW z \in schedule[e] PROVE ~IsBlocked(z)
    <3>1. PICK x \in Planned(e) : z = Event(x, x.at, OnArrival(e, x))
      BY <2>2, ArrivingIs, FirstSchedules DEF Init
    <3>2. z.cancelled = NotInContact \/ z.cancelled = NotCancelled
      BY <3>1, EventFields DEF OnArrival
    <3> QED
      BY <3>2, Reasons DEF IsBlocked, IsCancelled
  <2>3. ControlNeedsContact
    BY <2>2 DEF ControlNeedsContact
  <2> QED
    BY <2>1, <2>3 DEF InContact
<1>2. ASSUME lineup' = lineup
      PROVE  /\ Entities' = Entities
             /\ \A o : Unslowed(o)' <=> Unslowed(o)
             /\ \A o : Participant(o)' = Participant(o) /\ Planned(o)' = Planned(o)
             /\ \A z : Window(z)' = Window(z)
             /\ EarlyControlsAreOnTime' <=> EarlyControlsAreOnTime
  <2>1. Entities' = Entities /\ \A o : Participant(o)' = Participant(o)
    BY <1>2, LineupStays
  <2>2. \A o : (Unslowed(o)' <=> Unslowed(o)) /\ Planned(o)' = Planned(o)
    BY <1>2, LineupStays DEF Unslowed, Planned
  <2>3. \A z : Window(z)' = Window(z)
    BY <2>1 DEF Window
  <2>4. EarlyControlsAreOnTime' <=> EarlyControlsAreOnTime
    BY <2>1, <2>2 DEF EarlyControlsAreOnTime
  <2> QED
    BY <2>1, <2>2, <2>3, <2>4
<1>3. IInv /\ InContact /\ [Next]_vars => InContact'
  <2> SUFFICES ASSUME IInv, InContact, [Next]_vars PROVE InContact'
    OBVIOUS
  <2>1. lineup' = lineup
    BY DEF Next, Converge, Iterate, vars
  <2>2. CASE Iterate
    <3>1. schedule' = Resolve(schedule) /\ EarlyStays(schedule')
      BY <2>2, RoundEarlyStays DEF Iterate, IInv, TypeOK
    <3>2. EarlyStays(schedule)'
      BY <1>2, <2>1, <3>1 DEF EarlyStays
    <3>3. ASSUME EarlyControlsAreOnTime, NEW e \in Entities, NEW z \in schedule'[e], IsBlocked(z)
          PROVE  Window(z).start >= Participant(BlockedBy(z)).contact
      BY <3>1, <3>3, RoundInContact DEF InContact
    <3>4. EarlyControlsAreOnTime' => ControlNeedsContact'
      BY <1>2, <2>1, <3>3 DEF ControlNeedsContact
    <3> QED
      BY <3>2, <3>4 DEF InContact
  <2>3. CASE UNCHANGED schedule
    BY <1>2, <2>1, <2>3 DEF InContact, EarlyStays, ControlNeedsContact
  <2> QED
    BY <2>2, <2>3 DEF Next, Converge, vars
<1> QED
  BY <1>1, <1>3, Invariant, PTL DEF Spec

\* A participant controls nobody before it is in contact (_delay_until_contact), in
\* every encounter where its early controls are no slowed attacks: such an attack, cancelled,
\* may leave the schedule at its end and take the verdict with it.
THEOREM ContactComesFirst == Spec => [](EarlyControlsAreOnTime => ControlNeedsContact)
BY InContactInvariant, PTL DEF InContact

\* The controls of those who aim at somebody with immunities open when their
\* event acts, and no slowed clock moves it.
ControlsOpenAtOnce ==
  \A o \in Entities :
    \/ Participant(Aim(o)).kit.immunities = {}
    \/ \A w \in Participant(o).kit.blocks : \A x \in Participant(o).kit.events :
         x.id = w.source /\ w.type \in {c.type : c \in x.controls}
           => w.start = x.at /\ (x.channel # "BASIC_ATTACK" \/ Unslowed(o))

LEMMA BlocksAreLanded == IInv /\ ControlsOpenAtOnce => BlockedByLandedControl
<1> DEFINE s == schedule
           Carried(z) == {c.type : c \in UNION {y.controls : y \in {u \in s[BlockedBy(z)] :
                                                                   u.id = Window(z).source}}}
<1> SUFFICES ASSUME IInv, ControlsOpenAtOnce, phase = "converged",
                    NEW e \in Entities, NEW z \in s[e], IsBlocked(z),
                    Window(z).type \in Carried(z)
             PROVE  \E c \in LandedControls :
                      /\ c.owner = BlockedBy(z) /\ c.on = e
                      /\ c.by = Window(z).source /\ c.type = Window(z).type
  BY DEF BlockedByLandedControl
<1> DEFINE o == BlockedBy(z)
           w == Window(z)
<1>1. lineup \in Lineups /\ \A d \in Entities : Resolve(s)[d] = s[d]
  BY DEF IInv, TypeOK, Settled
<1>2. /\ o \in Entities /\ Aim(o) = e /\ w \in Participant(o).kit.blocks
      /\ w.source \notin Cancelled(s[o]) /\ ~IsImmune(s, e, w.type, w.start)
  BY <1>1, BlockingWindow
<1>3. PICK y \in s[o] : y.id = w.source /\ \E c \in y.controls : c.type = w.type
  OBVIOUS
<1>4. PICK c \in y.controls : c.type = w.type
  BY <1>3
<1>5. y \in Happens(o)
  BY <1>2, <1>3 DEF Happens, Cancelled
<1>6. PICK x \in Kept(s, o) : y = Event(x, When(s, o, x), Verdict(s, o, x))
  BY <1>1, <1>2, RoundIs
<1>7. /\ y.at = When(s, o, x) /\ y.controls = x.controls /\ y.id = x.id
      /\ x \in Participant(o).kit.events
  BY <1>6, EventFields DEF Kept, Planned
<1>8. ~IsImmune(s, e, c.type, y.at)
  <2>1. CASE Participant(e).kit.immunities = {}
    BY <2>1 DEF IsImmune, Immune, ActiveImmunities, Active
  <2>2. CASE Participant(e).kit.immunities # {}
    <3>1. w.start = x.at /\ (x.channel # "BASIC_ATTACK" \/ Unslowed(o))
      BY <1>2, <1>3, <1>4, <1>7, <2>2 DEF ControlsOpenAtOnce
    <3>2. y.at = w.start
      BY <1>7, <3>1, UnslowedIsOnTime
    <3> QED
      BY <1>2, <1>4, <3>2
  <2> QED
    BY <2>1, <2>2
<1> DEFINE landed == [owner |-> o, on |-> Aim(o), by |-> y.id, at |-> y.at, type |-> c.type]
<1>9. landed \in LandedControls
  <2> DEFINE Acting(d, k) == {f \in Happens(d) : k \in f.controls /\ ~IsImmune(s, Aim(d), k.type, f.at)}
             Of(d, k) == {[owner |-> d, on |-> Aim(d), by |-> f.id, at |-> f.at, type |-> k.type]
                            : f \in Acting(d, k)}
             All(d) == UNION {Of(d, k) : k \in UNION {f.controls : f \in Happens(d)}}
  <2>1. LandedControls = UNION {All(d) : d \in Entities}
    BY DEF LandedControls
  <2>2. y \in Acting(o, c)
    BY <1>2, <1>4, <1>5, <1>8
  <2>3. landed \in Of(o, c)
    BY <2>2
  <2>4. c \in UNION {f.controls : f \in Happens(o)}
    BY <1>4, <1>5
  <2> HIDE DEF landed, Of, Acting, o
  <2>5. landed \in All(o)
    BY <2>3, <2>4
  <2> HIDE DEF All
  <2> QED
    BY <1>2, <2>1, <2>5
<1> QED
  BY <1>2, <1>3, <1>4, <1>9

\* When the engine has converged, an action is blocked only by a control that the
\* replay is given (_active_cast_windows and _strip_immune_control_outputs apply
\* immunity in two places), in every encounter where the controls that meet
\* immunities open when their event acts: the one tests the window's start, the other
\* the event's time.
THEOREM BlocksAreLandedTheorem == Spec => [](ControlsOpenAtOnce => BlockedByLandedControl)
BY Invariant, BlocksAreLanded, PTL
-----------------------------------------------------------------------------
(* The attack clock.                                                       *)

\* A set of numbers below a bound has a greatest one.
LEMMA GreatestNatural ==
  ASSUME NEW S, S \subseteq Nat, S # {}, NEW b \in Nat, \A n \in S : n <= b
  PROVE  \E n \in S : \A m \in S : m <= n
<1> DEFINE D == {b - n : n \in S}
<1>1. D \subseteq Nat /\ D # {}
  <2>1. \A n \in S : b - n \in Nat
    OBVIOUS
  <2>2. D # {}
    OBVIOUS
  <2> QED
    BY <2>1, <2>2
<1>2. PICK d \in D : \A c \in D : d <= c
  <2> HIDE DEF D
  <2> QED BY <1>1, LeastNatural
<1>3. PICK n \in S : d = b - n
  BY <1>2
<1>4. ASSUME NEW m \in S PROVE m <= n
  <2>1. b - m \in D
    OBVIOUS
  <2>2. b - n <= b - m
    BY <1>2, <1>3, <2>1
  <2>3. m \in Nat /\ n \in Nat
    OBVIOUS
  <2> HIDE DEF D
  <2> QED
    BY <2>2, <2>3
<1> HIDE DEF D
<1> QED
  BY <1>3, <1>4, Zenon

\* Induction: a set with zero and all successors has all natural numbers.
LEMMA AllNaturals ==
  ASSUME NEW G, 0 \in G, \A n \in Nat : n \in G => n + 1 \in G
  PROVE  Nat \subseteq G
<1> DEFINE B == {n \in Nat : n \notin G}
<1>1. SUFFICES ASSUME B # {} PROVE FALSE
  OBVIOUS
<1>2. PICK n \in B : \A m \in B : n <= m
  <2>1. B \subseteq Nat
    OBVIOUS
  <2> HIDE DEF B
  <2> QED BY <1>1, <2>1, LeastNatural
<1>3. n # 0 /\ n - 1 \in Nat /\ n - 1 \notin B
  BY <1>2
<1>4. n - 1 \in G
  BY <1>3
<1>5. (n - 1) + 1 \in G
  BY <1>3, <1>4
<1>6. (n - 1) + 1 = n
  OBVIOUS
<1> QED
  BY <1>5, <1>6

\* The library's Min and Max are what their names say.
LEMMA MinIs ==
  ASSUME NEW S, S \subseteq Nat, NEW x \in S, \A y \in S : x <= y
  PROVE  Min(S) = x
<1>1. \A z \in S : (\A y \in S : z <= y) => z = x
  OBVIOUS
<1> QED
  BY <1>1 DEF Min

LEMMA MaxIs ==
  ASSUME NEW S, S \subseteq Nat, NEW x \in S, \A y \in S : y <= x
  PROVE  Max(S) = x
<1>1. \A z \in S : (\A y \in S : z >= y) => z = x
  OBVIOUS
<1> QED
  BY <1>1 DEF Max

\* Windows that slow a clock, as the assumptions have them.
IsClock(W) ==
  /\ IsFiniteSet(W)
  /\ \A w \in W : w.start \in Nat /\ w.end \in Nat /\ w.start < w.end /\ w.rate \in 1 .. FullRate

Covering(W, t) == {w \in W : Covers(w, t)}

\* What each window takes from a full rate.
Loss(W) == [w \in W |-> FullRate - w.rate]

\* g is the recursive function that the rate is defined by.
IsRate(g, S) ==
  g = [s \in SUBSET S |-> IF s = {} THEN FullRate ELSE Slower(Some(s), g[s \ {Some(s)}])]

LEMMA RatesAgree ==
  ASSUME NEW S, IsFiniteSet(S), NEW T, S \subseteq T, NEW g, NEW h, IsRate(g, S), IsRate(h, T)
  PROVE  g[S] = h[S]
<1> DEFINE G == {s \in SUBSET S : g[s] = h[s]}
<1>1. ASSUME NEW s \in SUBSET S, \A u \in SUBSET s : u # s => u \in G
      PROVE  s \in G
  <2>1. CASE s = {}
    BY <2>1 DEF IsRate
  <2>2. CASE s # {}
    <3>1. Some(s) \in s
      BY <2>2 DEF Some
    <3>2. s \ {Some(s)} \in G
      BY <1>1, <3>1
    <3>3. g[s] = Slower(Some(s), g[s \ {Some(s)}])
      BY <2>2 DEF IsRate
    <3>4. h[s] = Slower(Some(s), h[s \ {Some(s)}])
      BY <2>2 DEF IsRate
    <3> QED
      BY <3>2, <3>3, <3>4
  <2> QED
    BY <2>1, <2>2
<1>2. S \in G
  <2> HIDE DEF G
  <2> QED BY <1>1, SubsetInduction
<1> QED
  BY <1>2

LEMMA RateExists ==
  ASSUME NEW S, IsFiniteSet(S)
  PROVE  \E g : IsRate(g, S)
<1> DEFINE G == {T \in SUBSET S : \E g : IsRate(g, T)}
           Of(T) == CHOOSE g : IsRate(g, T)
<1>1. ASSUME NEW T \in SUBSET S, \A U \in SUBSET T : U # T => U \in G
      PROVE  T \in G
  <2> DEFINE r(s) == s \ {Some(s)}
             g == [s \in SUBSET T |-> IF s = {} THEN FullRate
                                      ELSE Slower(Some(s), Of(r(s))[r(s)])]
  <2>1. \A U \in SUBSET T : U # T => IsRate(Of(U), U)
    BY <1>1
  <2>2. ASSUME NEW s \in SUBSET T, s # {} PROVE r(s) \in SUBSET T /\ r(s) # T /\ r(s) \subseteq s
    BY <2>2 DEF Some
  <2>3. ASSUME NEW s \in SUBSET T, s # T PROVE g[s] = Of(s)[s]
    <3>1. IsRate(Of(s), s)
      BY <2>1, <2>3
    <3>2. CASE s = {}
      BY <3>1, <3>2 DEF IsRate
    <3>3. CASE s # {}
      <4>1. r(s) \in SUBSET T /\ r(s) # T /\ r(s) \subseteq s
        BY <2>2, <3>3
      <4>2. IsRate(Of(r(s)), r(s)) /\ IsFiniteSet(r(s))
        BY <2>1, <4>1, FS_Subset
      <4>3. Of(r(s))[r(s)] = Of(s)[r(s)]
        <5> HIDE DEF Of, r
        <5> QED BY <3>1, <4>1, <4>2, RatesAgree
      <4>4. Of(s)[s] = Slower(Some(s), Of(s)[r(s)])
        <5> HIDE DEF Of
        <5> QED BY <3>1, <3>3 DEF IsRate
      <4>5. g[s] = Slower(Some(s), Of(r(s))[r(s)])
        <5> HIDE DEF Of, r
        <5> QED BY <3>3
      <4> QED
        <5> HIDE DEF Of, r, g
        <5> QED BY <4>3, <4>4, <4>5
    <3> QED
      BY <3>2, <3>3
  <2>4. ASSUME NEW s \in SUBSET T
        PROVE  g[s] = IF s = {} THEN FullRate ELSE Slower(Some(s), g[r(s)])
    <3>1. CASE s = {}
      BY <3>1
    <3>2. CASE s # {}
      <4>1. g[s] = Slower(Some(s), Of(r(s))[r(s)])
        <5> HIDE DEF Of, r
        <5> QED BY <3>2
      <4>2. g[r(s)] = Of(r(s))[r(s)]
        <5> HIDE DEF g, Of, r
        <5> QED BY <2>2, <2>3, <3>2
      <4> HIDE DEF g, Of, r
      <4> QED BY <3>2, <4>1, <4>2
    <3> QED
      BY <3>1, <3>2
  <2>5. g = [s \in SUBSET T |-> g[s]]
    <3> HIDE DEF Of, r
    <3> QED OBVIOUS
  <2> HIDE DEF g
  <2>6. g = [s \in SUBSET T |-> IF s = {} THEN FullRate ELSE Slower(Some(s), g[s \ {Some(s)}])]
    BY <2>4, <2>5
  <2>7. IsRate(g, T)
    BY <2>6 DEF IsRate
  <2> QED
    BY <2>7
<1>2. S \in G
  <2> HIDE DEF G
  <2> QED BY <1>1, SubsetInduction
<1> QED
  BY <1>2

LEMMA RateIsFold ==
  ASSUME NEW W, IsFiniteSet(W), NEW t
  PROVE  \E g : IsRate(g, Covering(W, t)) /\ Rate(W, t) = g[Covering(W, t)]
<1>1. Rate(W, t) = (CHOOSE g : IsRate(g, Covering(W, t)))[Covering(W, t)]
  BY DEF Rate, Covering, FoldSet, MapThenFoldSet, IsRate, Some
<1>2. IsFiniteSet(Covering(W, t))
  BY FS_Subset DEF Covering
<1> QED
  BY <1>1, <1>2, RateExists

\* One window more takes no more than its share, and stops no clock.
LEMMA SlowerIs ==
  ASSUME NEW w, w.rate \in 1 .. FullRate, NEW r \in 1 .. FullRate
  PROVE  /\ Slower(w, r) \in 1 .. FullRate
         /\ FullRate - Slower(w, r) <= (FullRate - w.rate) + (FullRate - r)
<1> DEFINE q == w.rate
           p == r * q
           c == (p + 799) \div 800
<1>1. r \in 1 .. 800 /\ q \in 1 .. 800
  BY DEF FullRate
<1> HIDE DEF q
<1>2. p \in Int /\ p >= 1 /\ p <= 640000 /\ p >= 800 * r + 800 * q - 640000
  <2>1. (800 - r) * (800 - q) = 640000 - 800 * r - 800 * q + r * q
    BY <1>1
  <2>2. (800 - r) * (800 - q) >= 0
    BY <1>1
  <2>3. r * q >= 1 * 1 /\ r * q <= 800 * 800
    BY <1>1
  <2> QED
    BY <1>1, <2>1, <2>2, <2>3
<1> HIDE DEF p
<1>3. c \in Int /\ 800 * c >= p /\ 800 * c <= p + 799
  BY <1>2
<1>4. Slower(w, r) = c
  BY DEF Slower, FullRate, p, q
<1> HIDE DEF c
<1>5. c \in 1 .. 800 /\ 800 - c <= (800 - q) + (800 - r)
  BY <1>1, <1>2, <1>3
<1> QED
  BY <1>4, <1>5 DEF FullRate, q

LEMMA Chained ==
  ASSUME NEW c \in Int, NEW d \in Int, NEW a \in Int, NEW n \in Int, c <= d + a, a <= n
  PROVE  c <= d + n
OBVIOUS

\* The clock never stops and never runs faster than planned, and its windows take
\* no more than their shares.
LEMMA RateBounds ==
  ASSUME NEW W, IsClock(W), NEW t
  PROVE  /\ Rate(W, t) \in 1 .. FullRate
         /\ FullRate - Rate(W, t) <= SumFunctionOnSet(Loss(W), Covering(W, t))
<1> DEFINE C == Covering(W, t)
           f == Loss(W)
<1>1. C \subseteq W /\ IsFiniteSet(C)
  BY FS_Subset DEF Covering, IsClock
<1>2. PICK g : IsRate(g, C) /\ Rate(W, t) = g[C]
  BY RateIsFold DEF IsClock
<1> DEFINE G == {s \in SUBSET C : g[s] \in 1 .. FullRate /\ FullRate - g[s] <= SumFunctionOnSet(f, s)}
<1>3. \A w \in W : f[w] = FullRate - w.rate /\ f[w] \in Nat /\ w.rate \in 1 .. FullRate
  BY DEF Loss, IsClock, FullRate
<1> HIDE DEF C, f
<1>4. ASSUME NEW s \in SUBSET C, \A u \in SUBSET s : u # s => u \in G
      PROVE  s \in G
  <2>1. CASE s = {}
    BY <1>2, <2>1, SumEmpty DEF IsRate, FullRate
  <2>2. CASE s # {}
    <3> DEFINE w == Some(s)
               u == s \ {w}
    <3>1. w \in s /\ w \in W
      BY <1>1, <2>2 DEF Some
    <3>2. g[u] \in 1 .. FullRate /\ FullRate - g[u] <= SumFunctionOnSet(f, u)
      BY <1>4, <3>1
    <3>3. g[s] = Slower(w, g[u])
      BY <1>2, <2>2 DEF IsRate
    <3>4. IsFiniteSet(s) /\ IsFiniteSet(u)
      BY <1>1, FS_Subset
    <3>5. SumFunctionOnSet(f, s) = f[w] + SumFunctionOnSet(f, u)
      BY <2>2, <3>4, SumOfSome
    <3>6. SumFunctionOnSet(f, u) \in Nat
      BY <1>1, <1>3, <3>4, SumNat
    <3> HIDE DEF w, u
    <3>7. /\ Slower(w, g[u]) \in 1 .. FullRate
          /\ FullRate - Slower(w, g[u]) <= (FullRate - w.rate) + (FullRate - g[u])
      BY <1>3, <3>1, <3>2, SlowerIs
    <3>8. FullRate - g[s] <= SumFunctionOnSet(f, s)
      <4>1. FullRate - g[u] \in Int /\ FullRate - g[s] \in Int /\ FullRate - w.rate \in Int
        <5>1. g[u] \in Int /\ g[s] \in Int /\ w.rate \in Int
          BY <1>3, <3>1, <3>2, <3>3, <3>7
        <5> QED
          BY <5>1 DEF FullRate
      <4>2. f[w] = FullRate - w.rate
        BY <1>3, <3>1
      <4>3. SumFunctionOnSet(f, s) = (FullRate - w.rate) + SumFunctionOnSet(f, u)
        BY ONLY <3>5, <4>2
      <4>4. SumFunctionOnSet(f, s) \in Int
        BY <3>6, <4>1, <4>3
      <4> QED
        BY ONLY <3>2, <3>3, <3>6, <3>7, <4>1, <4>3, <4>4, Chained
    <3> QED
      BY <3>3, <3>7, <3>8
  <2> QED
    BY <2>1, <2>2
<1>5. C \in G
  <2> HIDE DEF G
  <2> QED BY <1>1, <1>4, SubsetInduction
<1> QED
  BY <1>2, <1>5 DEF C, f

-----------------------------------------------------------------------------
(* The progress of a clock.                                                *)

\* The moments at which a rate can change.
LEMMA MomentsAre ==
  ASSUME NEW W, IsClock(W)
  PROVE  Moments(W) \subseteq Nat /\ 0 \in Moments(W) /\ IsFiniteSet(Moments(W))
<1> DEFINE S == {w.start : w \in W}
           E == {w.end : w \in W}
<1>1. [w \in W |-> w.start] \in Surjection(W, S) /\ [w \in W |-> w.end] \in Surjection(W, E)
  BY DEF Surjection
<1>2. IsFiniteSet(S) /\ IsFiniteSet(E)
  <2> HIDE DEF S, E
  <2> QED BY <1>1, FS_Surjection DEF IsClock
<1>3. IsFiniteSet({0} \cup S \cup E)
  <2> HIDE DEF S, E
  <2> QED BY <1>2, FS_Union, FS_Singleton
<1> QED
  BY <1>3 DEF Moments, IsClock

\* The moments before t, and how long the rate at each lasts until t.
Past(W, t) == {m \in Moments(W) : m < t}
Lasted(W, t, m) == Min({t} \cup {n \in Past(W, t) : m < n}) - m
Gains(W, t) == [m \in Past(W, t) |-> Lasted(W, t, m) * Rate(W, m)]

LEMMA ProgressIs ==
  ASSUME NEW W, NEW t
  PROVE  Progress(W, t) = SumFunctionOnSet(Gains(W, t), Past(W, t))
BY DEF Progress, Gains, Past, Lasted

LEMMA LastedIs ==
  ASSUME NEW W, IsClock(W), NEW t \in Nat, NEW m \in Past(W, t)
  PROVE  \E x \in {t} \cup {n \in Past(W, t) : m < n} :
           /\ \A y \in {t} \cup {n \in Past(W, t) : m < n} : x <= y
           /\ Lasted(W, t, m) = x - m
           /\ x \in Nat /\ m < x
<1> DEFINE S == {t} \cup {n \in Past(W, t) : m < n}
<1>1. S \subseteq Nat /\ S # {} /\ \A x \in S : m < x
  BY MomentsAre DEF Past
<1> HIDE DEF S
<1>2. PICK x \in S : \A y \in S : x <= y
  BY <1>1, LeastNatural
<1>3. Min(S) = x
  BY <1>1, <1>2, MinIs
<1>4. Lasted(W, t, m) = x - m
  BY <1>3 DEF Lasted, S
<1> QED
  BY <1>1, <1>2, <1>4 DEF S

LEMMA GainsAre ==
  ASSUME NEW W, IsClock(W), NEW t \in Nat
  PROVE  /\ IsFiniteSet(Past(W, t))
         /\ \A m \in Past(W, t) : Gains(W, t)[m] \in Nat
<1>1. IsFiniteSet(Past(W, t))
  BY MomentsAre, FS_Subset DEF Past
<1>2. ASSUME NEW m \in Past(W, t) PROVE Gains(W, t)[m] \in Nat
  <2>1. m \in Nat
    BY MomentsAre DEF Past
  <2>2. Lasted(W, t, m) \in Nat
    BY <2>1, LastedIs
  <2>3. Rate(W, m) \in Nat
    BY RateBounds DEF FullRate
  <2>4. ASSUME NEW a \in Nat, NEW b \in Nat PROVE a * b \in Nat
    OBVIOUS
  <2>5. Gains(W, t)[m] = Lasted(W, t, m) * Rate(W, m)
    BY DEF Gains
  <2> QED
    BY ONLY <2>2, <2>3, <2>4, <2>5
<1> QED
  BY <1>1, <1>2

LEMMA ProgressNat ==
  ASSUME NEW W, IsClock(W), NEW t \in Nat
  PROVE  Progress(W, t) \in Nat
BY ProgressIs, GainsAre, SumNat

\* Between two moments the clock runs at one rate.
LEMMA Segment ==
  ASSUME NEW W, IsClock(W), NEW m \in Moments(W), NEW t \in Nat, m < t,
         \A n \in Moments(W) : ~(m < n /\ n < t)
  PROVE  Progress(W, t) = Progress(W, m) + (t - m) * Rate(W, m)
<1>1. m \in Nat /\ Moments(W) \subseteq Nat
  BY MomentsAre
<1>2. Past(W, t) = Past(W, m) \cup {m} /\ m \notin Past(W, m)
  BY <1>1 DEF Past
<1>3. Lasted(W, t, m) = t - m
  <2>1. {n \in Past(W, t) : m < n} = {}
    BY <1>1, <1>2 DEF Past
  <2>2. {t} \cup {n \in Past(W, t) : m < n} = {t}
    BY <2>1
  <2>3. Min({t}) = t
    BY MinIs
  <2> QED
    BY <2>2, <2>3 DEF Lasted
<1>4. ASSUME NEW n \in Past(W, m) PROVE Lasted(W, t, n) = Lasted(W, m, n)
  <2> DEFINE S == {m} \cup {k \in Past(W, m) : n < k}
             T == {t} \cup {k \in Past(W, t) : n < k}
  <2>1. PICK x \in S : (\A y \in S : x <= y) /\ Lasted(W, m, n) = x - n
    BY <1>1, LastedIs
  <2>2. T = S \cup {t} /\ T \subseteq Nat /\ n \in Nat
    BY <1>1, <1>2 DEF Past
  <2>3. x \in T /\ x <= m
    BY <2>1, <2>2
  <2>4. \A y \in T : x <= y
    <3> HIDE DEF S, T
    <3>1. x \in Nat
      BY <2>2, <2>3
    <3>2. x <= t
      BY <1>1, <2>3, <3>1
    <3> QED BY <2>1, <2>2, <3>2
  <2>5. Min(T) = x
    <3> HIDE DEF S, T
    <3> QED BY <2>2, <2>3, <2>4, MinIs
  <2> QED
    BY <2>1, <2>5 DEF Lasted
<1>5. \A n \in Past(W, m) : Gains(W, t)[n] = Gains(W, m)[n]
  BY <1>2, <1>4 DEF Gains
<1>6. SumFunctionOnSet(Gains(W, t), Past(W, m)) = Progress(W, m)
  BY <1>1, <1>5, GainsAre, ProgressIs, SumSame
<1>7. SumFunctionOnSet(Gains(W, t), Past(W, m) \cup {m})
        = SumFunctionOnSet(Gains(W, t), Past(W, m)) + Gains(W, t)[m]
  <2>1. IsFiniteSet(Past(W, m))
    BY <1>1, GainsAre
  <2>2. \A y \in Past(W, m) \cup {m} : Gains(W, t)[y] \in Int
    BY <1>2, GainsAre
  <2> QED
    BY <1>2, <2>1, <2>2, SumAdd
<1>8. Gains(W, t)[m] = (t - m) * Rate(W, m)
  BY <1>2, <1>3 DEF Gains
<1> QED
  BY <1>2, <1>6, <1>7, <1>8, ProgressIs

\* The clock starts at zero and makes, in every millisecond, the progress of its rate.
LEMMA ProgressStep ==
  ASSUME NEW W, IsClock(W), NEW t \in Nat
  PROVE  /\ Progress(W, 0) = 0
         /\ Progress(W, t + 1) = Progress(W, t) + Rate(W, t)
<1>1. Moments(W) \subseteq Nat /\ 0 \in Moments(W)
  BY MomentsAre
<1>2. Progress(W, 0) = 0
  <2>1. Past(W, 0) = {}
    BY <1>1 DEF Past
  <2> QED
    BY <2>1, ProgressIs, SumEmpty
<1> DEFINE S == {m \in Moments(W) : m <= t}
<1>3. S \subseteq Nat /\ S # {} /\ \A m \in S : m <= t
  BY <1>1
<1>4. PICK m \in S : \A n \in S : n <= m
  <2> HIDE DEF S
  <2> QED BY <1>3, GreatestNatural
<1>5. m \in Nat /\ m \in Moments(W) /\ m <= t /\ \A n \in Moments(W) : ~(m < n /\ n < t + 1)
  BY <1>1, <1>4
<1>6. Rate(W, t) = Rate(W, m)
  <2>1. ASSUME NEW w \in W PROVE Covers(w, t) <=> Covers(w, m)
    <3>1. w.start \in Moments(W) /\ w.end \in Moments(W) /\ w.start \in Nat /\ w.end \in Nat
      BY DEF Moments, IsClock
    <3>2. ~(m < w.start /\ w.start < t + 1) /\ ~(m < w.end /\ w.end < t + 1)
      BY <1>5, <3>1
    <3> QED
      BY <1>5, <3>1, <3>2 DEF Covers
  <2>2. {w \in W : Covers(w, t)} = {w \in W : Covers(w, m)}
    BY <2>1
  <2> QED
    BY <2>2 DEF Rate
<1>7. Progress(W, t + 1) = Progress(W, m) + (t + 1 - m) * Rate(W, m)
  BY <1>5, Segment
<1>8. Progress(W, t) = Progress(W, m) + (t - m) * Rate(W, m)
  <2>1. CASE m = t
    BY <1>5, <2>1, ProgressNat, RateBounds DEF FullRate
  <2>2. CASE m < t
    <3>1. \A n \in Moments(W) : ~(m < n /\ n < t)
      BY <1>1, <1>5
    <3> QED
      BY <1>5, <2>2, <3>1, Segment
  <2> QED
    BY <1>5, <2>1, <2>2
<1>9. ASSUME NEW p \in Nat, NEW r \in Nat, NEW k \in Nat
      PROVE  p + (k + 1) * r = (p + k * r) + r
  OBVIOUS
<1>10. Progress(W, m) \in Nat /\ Rate(W, m) \in Nat /\ t - m \in Nat /\ t + 1 - m = (t - m) + 1
  BY <1>5, ProgressNat, RateBounds DEF FullRate
<1>11. Progress(W, t + 1) = Progress(W, m) + ((t - m) + 1) * Rate(W, m)
  BY ONLY <1>7, <1>10
<1> QED
  BY ONLY <1>2, <1>6, <1>8, <1>9, <1>10, <1>11

-----------------------------------------------------------------------------
(* What slowed clocks lose.                                               *)

\* How long before t window w has been open, and what the windows W have taken by then
\* and take in all.
Held(w, t) == IF t <= w.start THEN 0 ELSE IF t <= w.end THEN t - w.start ELSE w.end - w.start
Spent(W, t) == [w \in W |-> Held(w, t) * (FullRate - w.rate)]
Whole(W) == [w \in W |-> (w.end - w.start) * (FullRate - w.rate)]

LEMMA HeldIs ==
  ASSUME NEW W, IsClock(W), NEW w \in W, NEW t \in Nat
  PROVE  /\ Held(w, t) \in Nat /\ Held(w, t) <= w.end - w.start /\ w.end - w.start \in Nat
         /\ Held(w, 0) = 0
         /\ Held(w, t + 1) = IF Covers(w, t) THEN Held(w, t) + 1 ELSE Held(w, t)
         /\ FullRate - w.rate \in Nat
<1>1. w.start \in Nat /\ w.end \in Nat /\ w.start < w.end /\ w.rate \in 1 .. FullRate
  BY DEF IsClock
<1>2. FullRate - w.rate \in Nat
  BY <1>1 DEF FullRate
<1> QED
  BY <1>1, <1>2 DEF Held, Covers

LEMMA SpentIs ==
  ASSUME NEW W, IsClock(W), NEW w \in W, NEW t \in Nat
  PROVE  /\ Spent(W, t)[w] \in Nat /\ Whole(W)[w] \in Nat
         /\ Spent(W, t)[w] <= Whole(W)[w]
         /\ Spent(W, 0)[w] = 0
         /\ Covers(w, t) => Spent(W, t + 1)[w] = Spent(W, t)[w] + Loss(W)[w]
         /\ ~Covers(w, t) => Spent(W, t + 1)[w] = Spent(W, t)[w]
         /\ Loss(W)[w] \in Nat
<1>1. ASSUME NEW h \in Nat, NEW d \in Nat, NEW k \in Nat, h <= d
      PROVE  h * k \in Nat /\ d * k \in Nat /\ h * k <= d * k /\ 0 * k = 0 /\ (h + 1) * k = h * k + k
  <2>1. (d - h) * k >= 0 /\ d * k = (d - h) * k + h * k
    BY <1>1
  <2> QED
    BY <2>1
<1>2. Covers(w, t) => Held(w, t + 1) = Held(w, t) + 1
  BY HeldIs
<1>3. ~Covers(w, t) => Held(w, t + 1) = Held(w, t)
  BY HeldIs
<1>4. /\ Held(w, t) \in Nat /\ Held(w, t) <= w.end - w.start /\ w.end - w.start \in Nat
      /\ Held(w, 0) = 0 /\ FullRate - w.rate \in Nat
  BY HeldIs
<1>5. /\ \A n : Spent(W, n)[w] = Held(w, n) * (FullRate - w.rate)
      /\ Whole(W)[w] = (w.end - w.start) * (FullRate - w.rate)
      /\ Loss(W)[w] = FullRate - w.rate
  BY DEF Spent, Whole, Loss
<1> QED
  BY ONLY <1>1, <1>2, <1>3, <1>4, <1>5

\* The clock is never further behind than its windows have taken.
LEMMA BehindBySpent ==
  ASSUME NEW W, IsClock(W), NEW t \in Nat
  PROVE  t * FullRate - Progress(W, t) <= SumFunctionOnSet(Spent(W, t), W)
<1> DEFINE S(n) == SumFunctionOnSet(Spent(W, n), W)
           G == {n \in Nat : n * FullRate - Progress(W, n) <= S(n)}
<1>1. IsFiniteSet(W)
  BY DEF IsClock
<1>2. \A n \in Nat : S(n) \in Nat
  BY <1>1, SpentIs, SumNat
<1>3. 0 \in G
  <2>1. Progress(W, 0) = 0
    BY ProgressStep
  <2> HIDE DEF S
  <2> QED
    BY <1>2, <2>1 DEF FullRate
<1>4. ASSUME NEW n \in Nat, n \in G PROVE n + 1 \in G
  <2> DEFINE C == Covering(W, n)
  <2>1. C \subseteq W /\ IsFiniteSet(C)
    BY <1>1, FS_Subset DEF Covering
  <2>2. S(n + 1) = S(n) + SumFunctionOnSet(Loss(W), C)
    <3>1. \A w \in C : Covers(w, n)
      BY DEF Covering
    <3>2. \A w \in W \ C : ~Covers(w, n)
      BY DEF Covering
    <3>3. \A w \in W : Spent(W, n)[w] \in Int
      BY SpentIs
    <3>4. \A w \in C : Loss(W)[w] \in Int /\ Spent(W, n + 1)[w] = Spent(W, n)[w] + Loss(W)[w]
      BY <2>1, <3>1, SpentIs
    <3>5. \A w \in W \ C : Spent(W, n + 1)[w] = Spent(W, n)[w]
      BY <3>2, SpentIs
    <3> HIDE DEF C
    <3> QED
      BY <1>1, <2>1, <3>3, <3>4, <3>5, SumGrows
  <2>3. FullRate - Rate(W, n) <= SumFunctionOnSet(Loss(W), C)
    BY RateBounds
  <2>4. Progress(W, n + 1) = Progress(W, n) + Rate(W, n)
    BY ProgressStep
  <2>5. Rate(W, n) \in Int /\ Progress(W, n) \in Int /\ S(n) \in Int /\ n + 1 \in Nat
    BY <1>2, RateBounds, ProgressNat
  <2>6. SumFunctionOnSet(Loss(W), C) \in Int
    BY <2>1, SpentIs, SumInt
  <2>7. n * FullRate - Progress(W, n) <= S(n)
    BY <1>4
  <2> HIDE DEF S, C
  <2>8. (n + 1) * FullRate - Progress(W, n + 1) <= S(n + 1)
    BY <2>2, <2>3, <2>4, <2>5, <2>6, <2>7 DEF FullRate
  <2> QED
    BY <2>8
<1>5. Nat \subseteq G
  <2> HIDE DEF G
  <2> QED BY <1>3, <1>4, AllNaturals
<1> QED
  BY <1>5

LEMMA BehindByWhole ==
  ASSUME NEW W, IsClock(W), NEW V, IsClock(V), W \subseteq V, NEW t \in Nat
  PROVE  /\ SumFunctionOnSet(Whole(V), V) \in Nat
         /\ t * FullRate - Progress(W, t) <= SumFunctionOnSet(Whole(V), V)
<1>1. IsFiniteSet(V) /\ IsFiniteSet(W)
  BY DEF IsClock
<1>2. \A w \in V : Whole(V)[w] \in Nat
  BY SpentIs
<1>3. \A w \in W : Spent(W, t)[w] \in Nat /\ Spent(W, t)[w] <= Whole(W)[w] /\ Whole(W)[w] = Whole(V)[w]
  BY SpentIs DEF Whole
<1>4. SumFunctionOnSet(Spent(W, t), W) <= SumFunctionOnSet(Whole(V), V)
  BY <1>1, <1>2, <1>3, SumBelow
<1>5. SumFunctionOnSet(Whole(V), V) \in Nat
  BY <1>1, <1>2, SumNat
<1>6. SumFunctionOnSet(Spent(W, t), W) \in Int
  BY <1>1, <1>3, SumInt
<1>7. t * FullRate - Progress(W, t) \in Int
  BY ProgressNat DEF FullRate
<1> QED
  BY <1>4, <1>5, <1>6, <1>7, BehindBySpent

\* The clock always advances, and never faster than planned.
LEMMA ProgressSpan ==
  ASSUME NEW W, IsClock(W), NEW a \in Nat, NEW b \in Nat, a <= b
  PROVE  /\ Progress(W, a) + (b - a) <= Progress(W, b)
         /\ Progress(W, b) <= Progress(W, a) + (b - a) * FullRate
<1> DEFINE G == {n \in Nat : /\ Progress(W, a) + n <= Progress(W, a + n)
                              /\ Progress(W, a + n) <= Progress(W, a) + n * FullRate}
<1>1. 0 \in G
  BY ProgressNat DEF FullRate
<1>2. ASSUME NEW n \in Nat, n \in G PROVE n + 1 \in G
  <2>1. Progress(W, (a + n) + 1) = Progress(W, a + n) + Rate(W, a + n)
    BY ProgressStep
  <2>2. Rate(W, a + n) \in 1 .. FullRate
    BY RateBounds
  <2>3. Progress(W, a) \in Nat /\ Progress(W, a + n) \in Nat
    BY ProgressNat
  <2>4. a + (n + 1) = (a + n) + 1
    OBVIOUS
  <2> QED
    BY <1>2, <2>1, <2>2, <2>3, <2>4 DEF FullRate
<1>3. Nat \subseteq G
  <2> HIDE DEF G
  <2> QED BY <1>1, <1>2, AllNaturals
<1>4. b - a \in G /\ a + (b - a) = b
  BY <1>3
<1> QED
  BY <1>4

-----------------------------------------------------------------------------
(* When an attack comes.                                                   *)

LEMMA DivisionIs ==
  ASSUME NEW a \in Nat, NEW r \in Nat \ {0}
  PROVE  /\ a \div r \in Nat
         /\ (a \div r) * r <= a /\ a < (a \div r) * r + r
OBVIOUS

\* An attack comes at the first millisecond by which the clock has made its progress.
LEMMA AdjustedIs ==
  ASSUME NEW W, IsClock(W), W # {}, NEW at \in Nat, at # 0
  PROVE  /\ CadenceAdjusted(at, W) \in Nat /\ CadenceAdjusted(at, W) # 0
         /\ at * FullRate <= Progress(W, CadenceAdjusted(at, W))
         /\ Progress(W, CadenceAdjusted(at, W) - 1) < at * FullRate
<1> DEFINE need == at * FullRate
           S == {m \in Moments(W) : Progress(W, m) < need}
<1>1. need \in Nat /\ need > 0
  BY DEF FullRate
<1>2. Moments(W) \subseteq Nat /\ 0 \in Moments(W)
  BY MomentsAre
<1>3. \A m \in S : m \in Nat /\ m <= need
  <2> TAKE m \in S
  <2>1. m \in Nat /\ Progress(W, m) < need /\ Progress(W, m) \in Nat
    BY <1>2, ProgressNat
  <2>2. Progress(W, 0) + (m - 0) <= Progress(W, m) /\ Progress(W, 0) = 0
    BY <2>1, ProgressSpan, ProgressStep
  <2> HIDE DEF need, S
  <2> QED
    BY <1>1, <2>1, <2>2
<1>4. S \subseteq Nat /\ S # {}
  <2>1. 0 \in S
    BY <1>1, <1>2, ProgressStep
  <2> QED
    BY <1>3, <2>1
<1> HIDE DEF need
<1>5. PICK last \in S : \A m \in S : m <= last
  <2> HIDE DEF S
  <2> QED BY <1>1, <1>3, <1>4, GreatestNatural
<1>6. Max(S) = last
  <2> HIDE DEF S
  <2> QED BY <1>4, <1>5, MaxIs
<1> DEFINE r == Rate(W, last)
           left == need - Progress(W, last)
           k == (left + r - 1) \div r
           C == last + k
<1>7. CadenceAdjusted(at, W) = C
  BY <1>6 DEF CadenceAdjusted, need
<1>8. /\ last \in Nat /\ last \in Moments(W) /\ r \in Nat \ {0}
      /\ Progress(W, last) \in Nat /\ left \in Nat /\ left # 0
  <2>1. last \in Nat /\ last \in Moments(W) /\ Progress(W, last) < need
    BY <1>4
  <2>2. Progress(W, last) \in Nat
    BY <2>1, ProgressNat
  <2>3. r \in 1 .. FullRate
    BY RateBounds
  <2> HIDE DEF r
  <2> QED
    BY <1>1, <2>1, <2>2, <2>3 DEF FullRate
<1>9. left + r - 1 \in Nat
  <2> HIDE DEF left, r
  <2> QED BY <1>8
<1>10. k \in Nat /\ k * r <= left + r - 1 /\ left + r - 1 < k * r + r
  <2> HIDE DEF left, r
  <2> QED BY <1>8, <1>9, DivisionIs
<1> HIDE DEF k, left, r
<1>11. k # 0 /\ left <= k * r /\ (k - 1) * r < left
  <2>1. (k - 1) * r = k * r - r /\ 0 * r = 0
    BY <1>8, <1>10
  <2>2. k * r \in Int
    BY <1>8, <1>10
  <2>3. left <= k * r /\ (k - 1) * r < left
    BY <1>8, <1>10, <2>1, <2>2
  <2>4. k # 0
    BY <1>8, <2>1, <2>3
  <2> QED
    BY <2>3, <2>4
<1>12. ASSUME NEW n \in Moments(W), last < n PROVE C <= n
  <2> DEFINE L == {m \in Moments(W) : last < m}
  <2>1. L \subseteq Nat /\ L # {}
    BY <1>2, <1>12
  <2>2. PICK l \in L : \A m \in L : l <= m
    <3> HIDE DEF L
    <3> QED BY <2>1, LeastNatural
  <2>3. l \in Nat /\ l \in Moments(W) /\ last < l /\ l <= n
    BY <1>2, <1>12, <2>2
  <2>4. Progress(W, l) >= need
    <3>1. l \notin S
      <4> HIDE DEF S
      <4> QED BY <1>5, <1>8, <2>3
    <3> QED
      BY <1>1, <2>3, <3>1, ProgressNat
  <2>5. Progress(W, l) = Progress(W, last) + (l - last) * r
    <3>1. \A m \in Moments(W) : ~(last < m /\ m < l)
      BY <1>2, <2>2, <2>3
    <3> QED
      BY <1>8, <2>3, <3>1, Segment DEF r
  <2>6. (l - last) * r >= left
    <3>1. (l - last) * r \in Int
      BY <1>8, <2>3
    <3> QED
      BY <1>1, <1>8, <2>4, <2>5, <3>1 DEF left
  <2>7. (l - last) * r > (k - 1) * r
    <3>1. (l - last) * r \in Int /\ (k - 1) * r \in Int
      BY <1>8, <1>10, <2>3
    <3> QED
      BY <1>8, <1>11, <2>6, <3>1
  <2>8. ASSUME NEW a \in Int, NEW b \in Int, NEW q \in Nat, a * q > b * q PROVE a > b
    <3>1. SUFFICES ASSUME b - a >= 0 PROVE FALSE
      BY <2>8
    <3>2. (b - a) * q >= 0 /\ (b - a) * q = b * q - a * q
      BY <2>8, <3>1
    <3> QED
      BY <2>8, <3>2
  <2>9. l - last > k - 1
    BY <1>8, <1>10, <2>3, <2>7, <2>8
  <2> QED
    BY <1>2, <1>8, <1>10, <2>3, <2>9
<1>13. C \in Nat /\ last < C /\ C - last = k
  BY <1>8, <1>10, <1>11
<1>14. need <= Progress(W, C)
  <2>1. \A n \in Moments(W) : ~(last < n /\ n < C)
    BY <1>2, <1>12, <1>13
  <2>2. Progress(W, C) = Progress(W, last) + k * r
    <3> HIDE DEF C
    <3>1. Progress(W, C) = Progress(W, last) + (C - last) * r
      BY <1>8, <1>13, <2>1, Segment DEF r
    <3> QED
      BY <1>13, <3>1
  <2>3. k * r \in Int
    BY <1>8, <1>10
  <2> HIDE DEF C
  <2> QED
    BY <1>1, <1>8, <1>11, <2>2, <2>3 DEF left
<1>15. Progress(W, C - 1) < need
  <2>1. CASE k = 1
    <3>1. C - 1 = last
      BY <1>8, <2>1
    <3> HIDE DEF C
    <3> QED
      BY <3>1
  <2>2. CASE k # 1
    <3>1. C - 1 \in Nat /\ last < C - 1 /\ (C - 1) - last = k - 1
      BY <1>8, <1>10, <1>11, <2>2
    <3>2. \A n \in Moments(W) : ~(last < n /\ n < C - 1)
      BY <1>2, <1>12, <1>13
    <3> HIDE DEF C
    <3>3. Progress(W, C - 1) = Progress(W, last) + ((C - 1) - last) * r
      BY <1>8, <3>1, <3>2, Segment DEF r
    <3>4. Progress(W, C - 1) = Progress(W, last) + (k - 1) * r
      BY <3>1, <3>3
    <3>5. (k - 1) * r \in Int
      BY <1>8, <1>10
    <3> QED
      BY <1>1, <1>8, <1>11, <3>4, <3>5 DEF left
  <2> QED
    BY <2>1, <2>2
<1> HIDE DEF C
<1> QED
  BY <1>7, <1>8, <1>13, <1>14, <1>15 DEF need

\* How far an attack may be delayed, and that a later one is delayed no less.
LEMMA DelayIs ==
  ASSUME NEW W, IsClock(W), NEW V, IsClock(V), W \subseteq V, NEW at \in Nat
  PROVE  /\ CadenceAdjusted(at, W) \in Nat
         /\ CadenceAdjusted(at, W) - at >= 0
         /\ (CadenceAdjusted(at, W) - at - 1) * FullRate < SumFunctionOnSet(Whole(V), V)
<1> DEFINE c == CadenceAdjusted(at, W)
           taken == SumFunctionOnSet(Whole(V), V)
<1>1. taken \in Nat
  BY BehindByWhole
<1>2. CASE W = {} \/ at = 0
  <2>1. c = at
    BY <1>2 DEF CadenceAdjusted
  <2> HIDE DEF taken, c
  <2>2. c \in Nat /\ c - at >= 0 /\ (c - at - 1) * FullRate < taken
    BY <1>1, <2>1 DEF FullRate
  <2> QED
    BY <2>2 DEF c, taken
<1>3. CASE W # {} /\ at # 0
  <2>1. c \in Nat /\ c # 0 /\ at * FullRate <= Progress(W, c) /\ Progress(W, c - 1) < at * FullRate
    BY <1>3, AdjustedIs
  <2> HIDE DEF c
  <2>2. c - 1 \in Nat
    BY <2>1
  <2>3. Progress(W, c) <= c * FullRate
    <3>1. Progress(W, c) <= Progress(W, 0) + (c - 0) * FullRate /\ Progress(W, 0) = 0
      BY <2>1, ProgressSpan, ProgressStep
    <3> QED
      BY <2>1, <3>1 DEF FullRate
  <2>4. (c - 1) * FullRate - Progress(W, c - 1) <= taken
    BY <2>2, BehindByWhole
  <2>5. Progress(W, c) \in Nat /\ Progress(W, c - 1) \in Nat
    BY <2>1, <2>2, ProgressNat
  <2> HIDE DEF taken
  <2>6. c - at >= 0
    BY <2>1, <2>3, <2>5 DEF FullRate
  <2>7. (c - at - 1) * FullRate < taken
    BY <1>1, <2>1, <2>4, <2>5 DEF FullRate
  <2> QED
    BY <2>1, <2>6, <2>7 DEF c, taken
<1> QED
  BY <1>2, <1>3

LEMMA DelaysGrow ==
  ASSUME NEW W, IsClock(W), NEW a \in Nat, NEW b \in Nat, a <= b
  PROVE  CadenceAdjusted(a, W) - a <= CadenceAdjusted(b, W) - b
<1> DEFINE c == CadenceAdjusted(a, W)
           d == CadenceAdjusted(b, W)
<1>1. c \in Nat /\ d \in Nat /\ d - b >= 0
  BY DelayIs
<1>2. CASE W = {} \/ a = 0
  <2>1. c = a
    BY <1>2 DEF CadenceAdjusted
  <2> HIDE DEF c, d
  <2>2. c - a <= d - b
    BY <1>1, <2>1
  <2> QED
    BY <2>2 DEF c, d
<1>3. CASE W # {} /\ a # 0
  <2>1. c # 0 /\ Progress(W, c - 1) < a * FullRate
    BY <1>3, AdjustedIs
  <2>2. b * FullRate <= Progress(W, d)
    BY <1>3, AdjustedIs
  <2> HIDE DEF c, d
  <2>3. c - 1 \in Nat
    BY <1>1, <2>1
  <2>4. Progress(W, c - 1) \in Nat /\ Progress(W, d) \in Nat
    BY <1>1, <2>3, ProgressNat
  <2>5. c - 1 <= d
    <3>1. SUFFICES ASSUME d <= c - 1 PROVE FALSE
      BY <1>1, <2>3
    <3>2. Progress(W, d) + ((c - 1) - d) <= Progress(W, c - 1)
      BY <1>1, <2>3, <3>1, ProgressSpan
    <3> QED
      BY <1>1, <2>1, <2>2, <2>3, <2>4, <3>1, <3>2 DEF FullRate
  <2>6. Progress(W, d) <= Progress(W, c - 1) + (d - (c - 1)) * FullRate
    BY <1>1, <2>3, <2>5, ProgressSpan
  <2>7. c - a <= d - b
    BY <1>1, <2>1, <2>2, <2>3, <2>4, <2>6 DEF FullRate
  <2> QED
    BY <2>7 DEF c, d
<1> QED
  BY <1>2, <1>3

-----------------------------------------------------------------------------
(* The schedules keep to one slowed clock for each participant.            *)

\* All windows that may slow the clock of e.
SlowedBy(e) == UNION {{Slowing(o, w) : w \in Participant(o).kit.cadence} : o \in Aimers(e)}

\* The windows of those who aim at e make a clock.
LEMMA SlowedByIsClock ==
  ASSUME lineup \in Lineups, NEW e \in Entities
  PROVE  IsClock(SlowedBy(e))
<1> DEFINE Of(o) == {Slowing(o, w) : w \in Participant(o).kit.cadence}
           A == Aimers(e)
           U == {Of(o) : o \in A}
<1>1. \A n \in Sides : IsFiniteSet(Side(n))
  <2> TAKE n \in Sides
  <2>1. IsFiniteSet(DOMAIN lineup[n])
    BY LineupsAssumption
  <2>2. [i \in DOMAIN lineup[n] |-> <<n, i>>] \in Surjection(DOMAIN lineup[n], Side(n))
    BY DEF Surjection, Side
  <2> QED
    BY <2>1, <2>2, FS_Surjection
<1>2. IsFiniteSet(A)
  <2>1. IsFiniteSet(Entities)
    BY <1>1, FS_Union DEF Entities, Sides
  <2> QED
    BY <2>1, FS_Subset DEF Aimers
<1>3. ASSUME NEW o \in A
      PROVE  /\ IsFiniteSet(Of(o))
             /\ \A w \in Of(o) : /\ w.start \in Nat /\ w.end \in Nat /\ w.start < w.end
                                 /\ w.rate \in 1 .. FullRate
  <2>1. o \in Entities
    BY DEF Aimers
  <2>2. Participant(o) \in Participants
    BY <2>1, EntityIsSomebody
  <2> DEFINE K == Participant(o).kit.cadence
  <2>3. IsFiniteSet(K)
    BY <2>2, WindowsAssumption
  <2>4. \A w \in K : /\ w.start \in Nat /\ w.end \in Nat /\ w.start < w.end
                     /\ w.rate \in 1 .. FullRate
    BY <2>2, WindowsAssumption
  <2>5. [w \in K |-> Slowing(o, w)] \in Surjection(K, Of(o))
    BY DEF Surjection
  <2>6. IsFiniteSet(Of(o))
    <3> HIDE DEF K, Of
    <3> QED BY <2>3, <2>5, FS_Surjection
  <2>7. \A w : /\ Slowing(o, w).start = w.start /\ Slowing(o, w).end = w.end
               /\ Slowing(o, w).rate = w.rate
    BY DEF Slowing
  <2> HIDE DEF K
  <2>8. \A v \in Of(o) : \E w \in K : v = Slowing(o, w)
    BY DEF K
  <2> QED
    BY <2>4, <2>6, <2>7, <2>8
<1>4. IsFiniteSet(U)
  <2> HIDE DEF A, Of
  <2>1. [o \in A |-> Of(o)] \in Surjection(A, U)
    BY DEF Surjection
  <2> HIDE DEF U
  <2> QED BY <1>2, <2>1, FS_Surjection
<1>5. IsFiniteSet(UNION U)
  <2>1. \A T \in U : IsFiniteSet(T)
    BY <1>3
  <2> HIDE DEF U
  <2> QED BY <1>4, <2>1, FS_UNION
<1>6. SlowedBy(e) = UNION U
  BY DEF SlowedBy
<1>7. \A w \in UNION U : /\ w.start \in Nat /\ w.end \in Nat /\ w.start < w.end
                         /\ w.rate \in 1 .. FullRate
  <2> TAKE w \in UNION U
  <2>1. PICK o \in A : w \in Of(o)
    OBVIOUS
  <2> HIDE DEF A, U, Of
  <2> QED BY <1>3, <2>1
<1> QED
  <2> HIDE DEF U
  <2> QED BY <1>5, <1>6, <1>7 DEF IsClock

LEMMA FewerWindows ==
  ASSUME NEW V, IsClock(V), NEW W, W \subseteq V
  PROVE  IsClock(W)
BY FS_Subset DEF IsClock

\* The events z of e come when its clock, slowed by the windows W, has them come.
Clocked(e, W, z) ==
  \E x \in Planned(e) :
    /\ z.id = x.id /\ z.channel = x.channel
    /\ z.at = IF x.channel = "BASIC_ATTACK" THEN CadenceAdjusted(x.at, W) ELSE x.at

OneClockEach ==
  \A e \in Entities : \E W \in SUBSET SlowedBy(e) : \A z \in schedule[e] : Clocked(e, W, z)

LEMMA ArrivingClocked ==
  ASSUME NEW e, NEW z \in Arriving(e)
  PROVE  Clocked(e, {}, z)
<1>1. PICK x \in Planned(e) : z = Event(x, x.at, OnArrival(e, x))
  BY ArrivingIs
<1>2. CadenceAdjusted(x.at, {}) = x.at
  BY DEF CadenceAdjusted
<1> QED
  BY <1>1, <1>2, EventFields DEF Clocked

LEMMA RoundClocked ==
  ASSUME lineup \in Lineups, NEW s, NEW e \in Entities, NEW z \in Resolve(s)[e]
  PROVE  Clocked(e, CadenceWindows(s, e), z)
<1>1. PICK x \in Kept(s, e) : z = Event(x, When(s, e, x), Verdict(s, e, x))
  BY RoundIs
<1>2. x \in Planned(e)
  BY DEF Kept
<1> QED
  BY <1>1, <1>2, EventFields DEF Clocked, When

LEMMA StandingWindows ==
  ASSUME NEW s, NEW e
  PROVE  CadenceWindows(s, e) \subseteq SlowedBy(e)
BY DEF CadenceWindows, ActiveCadenceWindows, SlowedBy, Active

LEMMA ClocksInvariant == Spec => []OneClockEach
<1>1. Init => OneClockEach
  <2> SUFFICES ASSUME Init, NEW e \in Entities
               PROVE  \E W \in SUBSET SlowedBy(e) : \A z \in schedule[e] : Clocked(e, W, z)
    BY DEF OneClockEach
  <2>1. \A z \in schedule[e] : Clocked(e, {}, z)
    BY ArrivingClocked, FirstSchedules DEF Init
  <2> QED
    BY <2>1
<1>2. ASSUME lineup' = lineup
      PROVE  /\ Entities' = Entities
             /\ \A e : SlowedBy(e)' = SlowedBy(e) /\ Planned(e)' = Planned(e)
  BY <1>2, LineupStays DEF SlowedBy, Planned
<1>3. IInv /\ OneClockEach /\ [Next]_vars => OneClockEach'
  <2> SUFFICES ASSUME IInv, OneClockEach, [Next]_vars, NEW e \in Entities'
               PROVE  \E W \in SUBSET SlowedBy(e)' : \A z \in schedule'[e] : Clocked(e, W, z)'
    BY DEF OneClockEach
  <2>1. lineup' = lineup
    BY DEF Next, Converge, Iterate, vars
  <2>2. e \in Entities /\ SlowedBy(e)' = SlowedBy(e) /\ \A W, z : Clocked(e, W, z)' <=> Clocked(e, W, z)
    BY <1>2, <2>1 DEF Clocked
  <2>3. CASE Iterate
    <3>1. \A z \in schedule'[e] : Clocked(e, CadenceWindows(schedule, e), z)
      BY <2>2, <2>3, RoundClocked DEF Iterate, IInv, TypeOK
    <3>2. CadenceWindows(schedule, e) \subseteq SlowedBy(e)
      BY StandingWindows
    <3> QED
      BY <2>2, <3>1, <3>2
  <2>4. CASE UNCHANGED schedule
    <3>1. PICK W \in SUBSET SlowedBy(e) : \A z \in schedule[e] : Clocked(e, W, z)
      BY <2>2 DEF OneClockEach
    <3> QED
      BY <2>2, <2>4, <3>1
  <2> QED
    BY <2>3, <2>4 DEF Next, Converge, vars
<1> QED
  BY <1>1, <1>3, Invariant, PTL DEF Spec

LEMMA ClocksAreRight == IInv /\ OneClockEach => AttackClock
<1> DEFINE Delay(e, z) == z.at - PlannedAt(e, z)
<1> SUFFICES ASSUME IInv, OneClockEach, NEW e \in Entities, NEW z \in schedule[e]
             PROVE  /\ Delay(e, z) >= 0
                    /\ (Delay(e, z) - 1) * FullRate < SumFunctionOnSet(Whole(SlowedBy(e)), SlowedBy(e))
                    /\ z.channel # "BASIC_ATTACK" => Delay(e, z) = 0
                    /\ \A y \in schedule[e] :
                         (z.channel = y.channel /\ z.at <= y.at) => Delay(e, z) <= Delay(e, y)
  <2> HIDE DEF IInv
  <2> QED BY DEF AttackClock, SlowedBy, Whole
<1> DEFINE V == SlowedBy(e)
           taken == SumFunctionOnSet(Whole(V), V)
<1>1. PICK W \in SUBSET V : \A y \in schedule[e] : Clocked(e, W, y)
  BY DEF OneClockEach
<1>2. lineup \in Lineups
  BY DEF IInv, TypeOK
<1>3. IsClock(V) /\ IsClock(W)
  BY <1>1, <1>2, SlowedByIsClock, FewerWindows
<1> HIDE DEF V
<1>4. taken \in Nat
  BY <1>3, BehindByWhole
<1>5. ASSUME NEW y \in schedule[e]
      PROVE  \E at \in Nat :
               /\ PlannedAt(e, y) = at
               /\ y.at = IF y.channel = "BASIC_ATTACK" THEN CadenceAdjusted(at, W) ELSE at
  <2>1. PICK x \in Planned(e) :
          /\ y.id = x.id /\ y.channel = x.channel
          /\ y.at = IF x.channel = "BASIC_ATTACK" THEN CadenceAdjusted(x.at, W) ELSE x.at
    BY <1>1 DEF Clocked
  <2>2. PlannedAt(e, y) = x.at /\ x.at \in Nat
    BY <1>2, <2>1, PlannedTime, PlansAre
  <2> QED
    BY <2>1, <2>2
<1>6. PICK a \in Nat :
        /\ PlannedAt(e, z) = a
        /\ z.at = IF z.channel = "BASIC_ATTACK" THEN CadenceAdjusted(a, W) ELSE a
  BY <1>5
<1>7. /\ CadenceAdjusted(a, W) \in Nat
      /\ CadenceAdjusted(a, W) - a >= 0
      /\ (CadenceAdjusted(a, W) - a - 1) * FullRate < taken
  BY <1>1, <1>3, DelayIs
<1> HIDE DEF taken
<1>8. CASE z.channel # "BASIC_ATTACK"
  <2>1. z.at = a /\ Delay(e, z) = 0
    BY <1>6, <1>8
  <2>2. (0 - 1) * FullRate < taken
    BY <1>4 DEF FullRate
  <2>3. ASSUME NEW y \in schedule[e], z.channel = y.channel PROVE Delay(e, y) = 0
    BY <1>5, <1>8, <2>3
  <2> HIDE DEF Delay
  <2> QED
    BY <1>8, <2>1, <2>2, <2>3 DEF taken, V
<1>9. CASE z.channel = "BASIC_ATTACK"
  <2>1. Delay(e, z) = CadenceAdjusted(a, W) - a /\ z.at = CadenceAdjusted(a, W)
    BY <1>6, <1>9
  <2>2. ASSUME NEW y \in schedule[e], z.channel = y.channel, z.at <= y.at
        PROVE  Delay(e, z) <= Delay(e, y)
    <3>1. PICK b \in Nat : PlannedAt(e, y) = b /\ y.at = CadenceAdjusted(b, W)
      BY <1>5, <1>9, <2>2
    <3>2. Delay(e, y) = CadenceAdjusted(b, W) - b /\ CadenceAdjusted(b, W) \in Nat
      BY <1>1, <1>3, <3>1, DelayIs
    <3>3. CASE a <= b
      BY <1>3, <2>1, <3>2, <3>3, DelaysGrow
    <3>4. CASE b < a
      <4>1. CadenceAdjusted(b, W) - b <= CadenceAdjusted(a, W) - a
        BY <1>3, <3>4, DelaysGrow
      <4>2. CadenceAdjusted(a, W) <= CadenceAdjusted(b, W)
        BY <2>1, <2>2, <3>1
      <4> QED
        BY <1>7, <3>2, <3>4, <4>1, <4>2
    <3> QED
      BY <3>3, <3>4
  <2> HIDE DEF Delay
  <2> QED
    BY <1>7, <1>9, <2>1, <2>2 DEF taken, V
<1> QED
  BY <1>8, <1>9

\* A slowed attack clock only delays, later attacks no less than earlier ones, and none
\* by more than its windows took away (_cadence_adjusted_timestamp).
THEOREM AttacksAreDelayed == Spec => []AttackClock
BY Invariant, ClocksInvariant, ClocksAreRight, PTL


=============================================================================
