----------------------------- MODULE Matchup -----------------------------
(***************************************************************************)
(* How the matchup engine decides which actions happen (application/       *)
(* matchup.py, MatchupEngine.evaluate).  Every participant brings a plan   *)
(* (module Kit).  A control of one cancels actions of another, among them  *)
(* the actions that would have controlled the first one in return: the     *)
(* engine looks for a fixed point by recomputing all schedules from the    *)
(* previous ones, at most MaxRounds times.                                 *)
(***************************************************************************)
EXTENDS Kit

CONSTANTS
  Lineups,   \* the encounters, each a sequence of participants for either side
  Duration   \* their length

(***************************************************************************)
(* A participant: its plan, its permanent tenacity in percent, whether it  *)
(* fights from the front line, its role's priority as a target, and the    *)
(* time it reaches the fight (Never when it does not).  An entity is a     *)
(* place in a side; the first of each side are the actor and the primary   *)
(* opponent.                                                               *)
(***************************************************************************)
MaxRounds == 6
Never == Duration + 1

Sides == {"actors", "opponents"}
Participants == UNION {UNION {{l[n][i] : i \in DOMAIN l[n]} : n \in Sides} : l \in Lineups}

(* Both sides have somebody, and the first of each are in contact.         *)
ASSUME LineupsAssumption ==
  /\ Duration \in Nat
  /\ \A l \in Lineups : \A n \in Sides :
       /\ 1 \in DOMAIN l[n] /\ DOMAIN l[n] \subseteq Nat /\ IsFiniteSet(DOMAIN l[n])
       /\ l[n][1].contact = 0
  /\ \A p \in Participants : p.priority \in Nat /\ p.contact \in 0 .. Never

(* Events are told apart by their identifiers.  What continues a cast      *)
(* comes after it, and a cast continues nothing.                           *)
ASSUME EventsAssumption ==
  \A p \in Participants : \A x \in p.kit.events :
    /\ x.at \in Nat /\ x.id # NoEvent
    /\ \A y \in p.kit.events :
         /\ x.id = y.id => x = y
         /\ x.origin = y.id => y.at <= x.at /\ y.origin = NoEvent

(* A window does not open before its source acts.  Slowed clocks slow only *)
(* and never stop (_active_attack_cadence_windows refuses other windows).  *)
ASSUME WindowsAssumption ==
  \A p \in Participants :
    /\ \A w \in p.kit.blocks \cup p.kit.immunities \cup p.kit.cadence :
         /\ w.start \in Nat /\ w.end \in Nat
         /\ \A x \in p.kit.events : x.id = w.source => x.at <= w.start
    /\ \A w \in p.kit.blocks :
         /\ w.rank \in Nat
         /\ \A v \in p.kit.blocks : w.id = v.id => w = v
    /\ IsFiniteSet(p.kit.cadence)
    /\ \A w \in p.kit.cadence :
         /\ w.start < w.end /\ w.rate \in 1 .. FullRate
         /\ \A v \in p.kit.cadence : w.id = v.id => w = v

Actor   == <<"actors", 1>>
Primary == <<"opponents", 1>>

VARIABLES
  lineup,    \* the participants of the two sides
  schedule,  \* what each entity does, as of the last round
  round,     \* rounds made
  phase      \* "iterating", "converged" or "gave_up"

vars == <<lineup, schedule, round, phase>>

Side(name) == {<<name, i>> : i \in DOMAIN lineup[name]}
Entities == Side("actors") \cup Side("opponents")
Participant(e) == lineup[e[1]][e[2]]

(***************************************************************************)
(* Whom a participant fights (application/threat.py).  The actor and the   *)
(* primary opponent fight each other whatever the policy says.             *)
(***************************************************************************)
ReachableTargets(e, defenders) ==
  LET front == {d \in defenders : Participant(d).melee}
  IN  IF Participant(e).melee /\ front # {} THEN front ELSE defenders

ChooseTarget(e, defenders) ==
  LET Before(c, d) == \/ Participant(c).priority < Participant(d).priority
                      \/ /\ Participant(c).priority = Participant(d).priority
                         /\ c[2] <= d[2]
      candidates == ReachableTargets(e, defenders)
  IN  CHOOSE c \in candidates : \A d \in candidates : Before(c, d)

Aim(e) ==
  CASE e = Actor                           -> Primary
    [] e = Primary                         -> Actor
    [] e \in Side("actors") \ {Actor}      -> ChooseTarget(e, Side("opponents"))
    [] e \in Side("opponents") \ {Primary} -> ChooseTarget(e, Side("actors"))

(***************************************************************************)
(* Why an action does not happen.                                          *)
(***************************************************************************)
NotCancelled        == <<>>
NotInContact        == <<"NOT_YET_IN_CONTACT">>
CastBlocked(w)      == <<"OPPONENT_CAST_BLOCK", w.owner, w.id>>
OriginCancelled(id) == <<"ORIGIN_CAST_CANCELLED", id>>

IsCancelled(event) == event.cancelled # NotCancelled

DelayUntilContact_OnlyAttacks(events, contact) ==
  {IF e.channel = "BASIC_ATTACK" /\ ~IsCancelled(e) /\ e.at < contact
   THEN [e EXCEPT !.cancelled = NotInContact] ELSE e : e \in events}

DelayUntilContact(events, contact) ==
  {IF ~IsCancelled(e) /\ e.at < contact THEN [e EXCEPT !.cancelled = NotInContact] ELSE e
     : e \in events}

Plan(e) == {[id |-> x.id, at |-> x.at, channel |-> x.channel, controls |-> x.controls,
             origin |-> x.origin, cancelled |-> NotCancelled] : x \in Participant(e).kit.events}

Arriving(e) == DelayUntilContact(Plan(e), Participant(e).contact)

(***************************************************************************)
(* The windows whose source is not cancelled among events, the schedule of *)
(* their owner.                                                            *)
(***************************************************************************)
Cancelled(events) == {e.id : e \in {f \in events : IsCancelled(f)}}

Active_Uncaused(windows, events) == windows

Active(windows, events) == {w \in windows : w.source \notin Cancelled(events)}

Covers_Unopened(w, t) == t < w.end

Covers(w, t) == w.start <= t /\ t < w.end

Resists(i, type) == "ALL" \in i.types \/ type \in i.types

ActiveImmunities(o, events) == Active(Participant(o).kit.immunities, events)

Immune(immunities, type, t) == \E i \in immunities : Covers(i, t) /\ Resists(i, type)

(* When a control ends: the tenacity of its recipient shortens it. *)
ShortenedEnd(w, tenacity) ==
  LET left == 100 - Max({0, Min({99, tenacity})})
  IN  IF w.reducible THEN w.start + Max({1, ((w.end - w.start) * left) \div 100}) ELSE w.end

(* A control window of o, as a recipient of this tenacity meets it. *)
Incoming(o, w, tenacity) ==
  [owner |-> o, id |-> w.id, rank |-> w.rank, channels |-> w.channels,
   start |-> w.start, end |-> ShortenedEnd(w, tenacity)]

ActiveCastWindows_NoImmunity(o, events, tenacity, immunities) ==
  {Incoming(o, w, tenacity) : w \in Active(Participant(o).kit.blocks, events)}

(* What o, whose schedule is events, blocks of a recipient. *)
ActiveCastWindows(o, events, tenacity, immunities) ==
  {Incoming(o, w, tenacity)
     : w \in {v \in Active(Participant(o).kit.blocks, events) :
              ~Immune(immunities, v.type, v.start)}}

(* A cadence window of o.  Those who aim at one participant are on one     *)
(* side, where a place tells them apart.                                   *)
Slowing(o, w) ==
  [place |-> o[2], id |-> w.id, start |-> w.start, end |-> w.end, rate |-> w.rate]

ActiveCadenceWindows(o, events) ==
  {Slowing(o, w) : w \in Active(Participant(o).kit.cadence, events)}

(***************************************************************************)
(* The attack clock: it makes FullRate units of progress a millisecond,    *)
(* fewer inside cadence windows, and the attack planned for at comes when  *)
(* the progress of at full milliseconds is made.  The rate changes only    *)
(* where a window opens or closes.                                         *)
(***************************************************************************)
CadenceAdjusted_WindowAtHand(at, windows) ==
  LET hit == {w \in windows : Covers(w, at)}
  IN  IF hit = {} THEN at
      ELSE at + Max({((at - w.start) * (FullRate - w.rate)) \div w.rate : w \in hit})

Moments(windows) == {0} \cup {w.start : w \in windows} \cup {w.end : w \in windows}

(* The rates of the windows multiply, here in whole units, rounded up. *)
Slower(w, rate) == (rate * w.rate + FullRate - 1) \div FullRate

Rate(windows, t) == FoldSet(Slower, FullRate, {w \in windows : Covers(w, t)})

Progress(windows, t) ==
  LET past == {m \in Moments(windows) : m < t}
      Lasted(m) == Min({t} \cup {n \in past : m < n}) - m
  IN  SumFunctionOnSet([m \in past |-> Lasted(m) * Rate(windows, m)], past)

CadenceAdjusted(at, windows) ==
  LET last == Max({m \in Moments(windows) : Progress(windows, m) < at * FullRate})
      left == at * FullRate - Progress(windows, last)
      rate == Rate(windows, last)
  IN  IF windows = {} \/ at = 0 THEN at ELSE last + (left + rate - 1) \div rate

ApplyAttackCadence_PastTheEnd(events, windows) ==
  {IF e.channel = "BASIC_ATTACK" THEN [e EXCEPT !.at = CadenceAdjusted(@, windows)] ELSE e
     : e \in events}

ApplyAttackCadence(events, windows) ==
  {e \in {IF f.channel = "BASIC_ATTACK" THEN [f EXCEPT !.at = CadenceAdjusted(@, windows)]
          ELSE f : f \in events} : e.at <= Duration}

(***************************************************************************)
(* A control stops new casts.  A continuation falls with its origin.       *)
(***************************************************************************)
FirstOf(windows) ==
  LET Rank(w) == 10000000 * w.owner[2] + w.rank
  IN  CHOOSE w \in windows : \A v \in windows : Rank(w) <= Rank(v)

ApplyCastBlocks(events, windows) ==
  LET Blocking(e) == {w \in windows : Covers(w, e.at) /\ e.channel \in w.channels}
      Cast(e) == IF e.origin = NoEvent /\ ~IsCancelled(e) /\ Blocking(e) # {}
                 THEN [e EXCEPT !.cancelled = CastBlocked(FirstOf(Blocking(e)))]
                 ELSE e
      casts == {Cast(e) : e \in events}
      fallen == Cancelled(casts)
  IN  {IF e.origin \in fallen /\ ~IsCancelled(e)
       THEN [e EXCEPT !.cancelled = OriginCancelled(e.origin)]
       ELSE e : e \in casts}

(***************************************************************************)
(* One round, from the schedules s of the round before.  The code writes   *)
(* it out three times: for the actor, for its allies, who arrive, and for  *)
(* the opponents, whom it looks up by the targets of the other side.       *)
(***************************************************************************)
ResolveActor(s) ==
  LET immunities == ActiveImmunities(Actor, s[Actor])
      against == {o \in Side("opponents") : Aim(o) = Actor}
      incomingCadence == UNION {ActiveCadenceWindows(o, s[o]) : o \in against}
      incomingBlocks ==
        UNION {ActiveCastWindows(o, s[o], Participant(Actor).tenacity, immunities) : o \in against}
  IN  ApplyCastBlocks(ApplyAttackCadence(Plan(Actor), incomingCadence), incomingBlocks)

Allies == Side("actors") \ {Actor}

ResolveAlly(s, e) ==
  LET immunities == ActiveImmunities(e, s[e])
      enemies == {o \in Side("opponents") : Aim(o) = e}
      allyCadence == UNION {ActiveCadenceWindows(o, s[o]) : o \in enemies}
      allyBlocks ==
        UNION {ActiveCastWindows(o, s[o], Participant(e).tenacity, immunities) : o \in enemies}
  IN  ApplyCastBlocks(ApplyAttackCadence(Arriving(e), allyCadence), allyBlocks)

OutgoingByTarget_NextActor(s, e) ==
  {<<a, IF a = Actor THEN ResolveActor(s) ELSE s[a]>>
     : a \in {d \in {Actor} \cup Allies : Aim(d) = e}}

(* Those who aim at the opponent e, with what they do. *)
OutgoingByTarget(s, e) == {<<a, s[a]>> : a \in {d \in {Actor} \cup Allies : Aim(d) = e}}

ResolveOpponent(s, e) ==
  LET immunities == ActiveImmunities(e, s[e])
      aimedAtView == OutgoingByTarget(s, e)
      cadence == UNION {ActiveCadenceWindows(a[1], a[2]) : a \in aimedAtView}
      blocks ==
        UNION {ActiveCastWindows(a[1], a[2], Participant(e).tenacity, immunities)
                 : a \in aimedAtView}
  IN  ApplyCastBlocks(ApplyAttackCadence(Arriving(e), cadence), blocks)

Resolve(s) ==
  [e \in Entities |->
     CASE e = Actor               -> ResolveActor(s)
       [] e \in Allies            -> ResolveAlly(s, e)
       [] e \in Side("opponents") -> ResolveOpponent(s, e)]

(***************************************************************************)
(* The first round compares lists as the plans wrote them with lists in    *)
(* the order of time: a plan out of order differs from itself once.        *)
(***************************************************************************)
InOrder == round = 0 => \A e \in Entities : Participant(e).kit.ordered

Init ==
  /\ lineup \in Lineups
  /\ schedule = [e \in Entities |-> IF e = Actor THEN Plan(e) ELSE Arriving(e)]
  /\ round = 0
  /\ phase = "iterating"

Converge ==
  /\ phase = "iterating"
  /\ schedule = Resolve(schedule)
  /\ InOrder
  /\ round' = round + 1
  /\ phase' = "converged"
  /\ UNCHANGED <<lineup, schedule>>

Iterate ==
  /\ phase = "iterating"
  /\ schedule' = Resolve(schedule)
  /\ schedule' # schedule \/ ~InOrder
  /\ round' = round + 1
  /\ phase' = IF round' = MaxRounds THEN "gave_up" ELSE "iterating"
  /\ UNCHANGED lineup

Next == Converge \/ Iterate

Spec == Init /\ [][Next]_vars

(***************************************************************************)
(* The controls the replay is given: those of the actions that happen,     *)
(* without the ones their recipient is immune to at that time.             *)
(***************************************************************************)
IsImmune(s, r, type, t) == Immune(ActiveImmunities(r, s[r]), type, t)

Happens(o) == {e \in schedule[o] : ~IsCancelled(e)}

LandedControls ==
  UNION {UNION {{[owner |-> o, on |-> Aim(o), by |-> e.id, at |-> e.at, type |-> c.type]
              : e \in {f \in Happens(o) : c \in f.controls /\ ~IsImmune(schedule, Aim(o), c.type, f.at)}}
          : c \in UNION {f.controls : f \in Happens(o)}} : o \in Entities}
=============================================================================
