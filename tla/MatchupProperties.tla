------------------------- MODULE MatchupProperties -------------------------
(***************************************************************************)
(* What the fixed point of module Matchup must satisfy.                    *)
(***************************************************************************)
EXTENDS Matchup

(* Those who fight r. *)
Aimers(r) == {e \in Entities : Aim(e) = r}

(* A control window of o, as r meets it. *)
AsMet(o, w, r) == Incoming(o, w, Participant(r).tenacity)

(* Every schedule holds events of its participant's plan, after the first  *)
(* round none of them after the end, and a verdict is one of those the     *)
(* engine can give.  (What times can be is said by AttackClock.)           *)
TypeOK ==
  /\ lineup \in Lineups
  /\ round \in 0 .. MaxRounds
  /\ phase \in {"iterating", "converged", "gave_up"}
  /\ DOMAIN schedule = Entities
  /\ \A e \in Entities : \A x \in schedule[e] :
       /\ x.id \in {y.id : y \in Participant(e).kit.events}
       /\ round > 0 => x.at <= Duration
       /\ \/ x.cancelled \in {NotCancelled, NotInContact, OriginCancelled(x.origin)}
          \/ x.cancelled[1] = "OPPONENT_CAST_BLOCK" /\ x.cancelled[2] \in Aimers(e)

IsBlocked(x) == IsCancelled(x) /\ x.cancelled[1] = "OPPONENT_CAST_BLOCK"
BlockedBy(x) == x.cancelled[2]
Window(x) == CHOOSE w \in Participant(BlockedBy(x)).kit.blocks : w.id = x.cancelled[3]
PlannedAt(e, x) == (CHOOSE y \in Participant(e).kit.events : y.id = x.id).at

Fallen(o) == Cancelled(schedule[o])

IsControlled(e, x) ==
  \E o \in Aimers(e) : \E w \in Participant(o).kit.blocks :
    /\ w.source \notin Fallen(o)
    /\ x.channel \in w.channels
    /\ Covers(AsMet(o, w, e), x.at)
    /\ ~IsImmune(schedule, e, w.type, w.start)

(* When the engine says it has converged, an action is cancelled exactly   *)
(* when it precedes the contact of its participant, or is a cast under a   *)
(* control whose source stands and that its participant is not immune to,  *)
(* or continues a cancelled cast.  docs/architecture/champion-cog-         *)
(* runtime.md:13-14: "A cancelled CC source cannot keep cancelling the     *)
(* other participant's actions".                                           *)
CancelledForACause ==
  phase = "converged" =>
    \A e \in Entities : \A x \in schedule[e] :
      IsCancelled(x) <=> \/ PlannedAt(e, x) < Participant(e).contact
                         \/ x.origin = NoEvent /\ IsControlled(e, x)
                         \/ x.origin \in Fallen(e)

(* An action is cancelled by a control that takes effect: when the event   *)
(* behind the window carries that control, it reaches the replay with it.  *)
(* The window comes from the reaction plan and the control from the action *)
(* plan; immunity is applied to either in a place of its own.              *)
BlockedByLandedControl ==
  phase = "converged" =>
    \A e \in Entities : \A x \in {y \in schedule[e] : IsBlocked(y)} :
      LET w == Window(x)
          Carried == {c.type : c \in UNION {y.controls : y \in {z \in schedule[BlockedBy(x)] :
                                                                 z.id = w.source}}}
      IN  w.type \in Carried =>
            \E c \in LandedControls : /\ c.owner = BlockedBy(x) /\ c.on = e
                                      /\ c.by = w.source /\ c.type = w.type

(* The engine treats the two roles alike (docs/architecture/               *)
(* champion-cog-runtime.md: "A Cog is role-neutral"), although it computes *)
(* the actor, its allies and the opponents in three places: when the same  *)
(* participants stand on both sides, the same actions happen on both, in   *)
(* every round.                                                            *)
RoleNeutral ==
  lineup.actors = lineup.opponents =>
    \A i \in DOMAIN lineup.actors :
      LET Outcome(e) == {<<x.id, x.at, IsCancelled(x)>> : x \in schedule[e]}
      IN  Outcome(<<"actors", i>>) = Outcome(<<"opponents", i>>)

(* A slowed attack clock only delays: no attack comes before its planned   *)
(* time, the delay of a later attack is no smaller than that of an earlier *)
(* one, and none is delayed by more than the windows took away.            *)
AttackClock ==
  \A e \in Entities :
    LET Delay(x) == x.at - PlannedAt(e, x)
        windows == UNION {{Slowing(o, w) : w \in Participant(o).kit.cadence} : o \in Aimers(e)}
        taken == SumFunctionOnSet([w \in windows |-> (w.end - w.start) * (FullRate - w.rate)],
                                  windows)
    IN  \A x \in schedule[e] :
          /\ Delay(x) >= 0
          /\ (Delay(x) - 1) * FullRate < taken
          /\ x.channel # "BASIC_ATTACK" => Delay(x) = 0
          /\ \A y \in schedule[e] :
               (x.channel = y.channel /\ x.at <= y.at) => Delay(x) <= Delay(y)

(* A participant controls nobody before it is in contact                   *)
(* (_delay_until_contact: "Cancel actions taken before a participant has   *)
(* closed to contact").                                                    *)
ControlNeedsContact ==
  \A e \in Entities : \A x \in {y \in schedule[e] : IsBlocked(y)} :
    Window(x).start >= Participant(BlockedBy(x)).contact

ClocksAreTheirOwn == \A e \in Entities : Participant(e).kit.cadence = {}

(* The times of what a round would change in the schedules s. *)
Unsettled(s) ==
  LET t == Resolve(s)
  IN  {x.at : x \in UNION {(s[e] \ t[e]) \cup (t[e] \ s[e]) : e \in Entities}}

(* Without slowed clocks, rounds work forward in time: what a round would  *)
(* change has a cause, at the same time or before, in what the round       *)
(* before it changes.  The search therefore settles the schedules from the *)
(* front to the back.                                                      *)
SettlesForward ==
  (ClocksAreTheirOwn /\ phase = "iterating") =>
    \A t \in Unsettled(Resolve(schedule)) : \E u \in Unsettled(schedule) : u <= t

(***************************************************************************)
(* What the documentation says and the engine does not do.                 *)
(***************************************************************************)

(* An event of a, at the moment of an event of b, that blocks it. *)
Blocks(a, x, y) ==
  \E w \in Participant(a).kit.blocks :
    w.source = x.id /\ Covers(w, y.at) /\ y.channel \in w.channels /\ y.origin = NoEvent

Standoff ==
  \E x \in Plan(Actor), y \in Plan(Primary) : Blocks(Actor, x, y) /\ Blocks(Primary, y, x)

(* "The engine finds a fixed point for causal cast-block windows"          *)
(* (docs/architecture/champion-cog-runtime.md:13), at least in a duel in   *)
(* which no two controls of the sides block each other at the same moment. *)
FixedPointFound == phase = "gave_up" => Standoff

(* _active_cast_windows filters "causally absent CC": an action is         *)
(* cancelled only by a control whose source is in the schedule and comes   *)
(* no later than the action.                                               *)
ControlFollowsItsSource ==
  phase = "converged" =>
    \A e \in Entities : \A x \in {y \in schedule[e] : IsBlocked(y)} :
      Window(x).source # NoEvent =>
        \E z \in schedule[BlockedBy(x)] : z.id = Window(x).source /\ z.at <= x.at
=============================================================================
