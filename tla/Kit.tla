------------------------------- MODULE Kit -------------------------------
(***************************************************************************)
(* What a champion Cog hands to the matchup engine (cogs/base.py): an      *)
(* action plan, which is a set of events, and a reaction plan, which is a  *)
(* sequence of control windows, and the vocabulary in which the modules    *)
(* Kits... write the plans of the champions.                               *)
(*                                                                         *)
(* A pace p is what a plan depends on: the length of the encounter, the    *)
(* ability haste, and the interval between basic attacks.  Times are       *)
(* milliseconds.  Amounts (damage, healing, shields) are left out: none of *)
(* them decides which action happens.                                      *)
(***************************************************************************)
EXTENDS Integers, Sequences, FiniteSets, SequencesExt

RoundHalfEven(n, d) ==
  LET q == n \div d
      r == n % d
  IN  IF 2 * r > d \/ (2 * r = d /\ q % 2 = 1) THEN q + 1 ELSE q

(* Milliseconds between two attacks at s thousandths of an attack a second. *)
AttackInterval(s) == Max({1, RoundHalfEven(1000000, s)})

(* The cooldown left of base milliseconds. *)
Hasted(p, base) == RoundHalfEven(base * 100, 100 + p.haste)

(* The same in the Cogs that round upward. *)
HastedUp(p, base) == (base * 100 + 99 + p.haste) \div (100 + p.haste)

(***************************************************************************)
(* The times of the events of one name.                                    *)
(***************************************************************************)
Within(p, times) == {t \in times : t <= p.duration}

Ticks(first, step, n) == {first + k * step : k \in 0 .. n - 1}

Every(p, first, step) ==
  {first + k * step : k \in 0 .. (p.duration - first) \div step}

Attacks(p, first) == Every(p, first, p.interval)

Casts(p, first, cooldown) == Every(p, first, Hasted(p, cooldown))

(* n casts, gap apart, at every readiness of a spell with charges. *)
Volleys(p, first, cooldown, n, gap) ==
  Within(p, {t + k * gap : t \in Casts(p, first, cooldown), k \in 0 .. n - 1})

(***************************************************************************)
(* Events.  The n-th event of a name has the identifier <<name, n>>.  A    *)
(* continuation names the event whose cast it completes as its origin.     *)
(***************************************************************************)
NoEvent == <<"", 0>>

Control(type, ms) == [type |-> type, ms |-> ms]
Slow(ms)          == Control("SLOW", ms)
Stun(ms)          == Control("STUN", ms)
Root(ms)          == Control("ROOT", ms)
Airborne(ms)      == Control("AIRBORNE", ms)
None              == {}

Action(channel, name, times, controls) ==
  {[id |-> <<name, Cardinality({u \in times : u <= t})>>, at |-> t,
    channel |-> channel, controls |-> controls, origin |-> NoEvent] : t \in times}

Ability(name, times, controls) == Action("ABILITY", name, times, controls)
Attack(name, times, controls)  == Action("BASIC_ATTACK", name, times, controls)
Dash(name, times, controls)    == Action("MOVEMENT", name, times, controls)
Passive(name, times, controls) == Action("PASSIVE", name, times, controls)

Continues(name, events) ==
  {[e EXCEPT !.origin = <<name, e.id[2]>>] : e \in events}

(***************************************************************************)
(* Windows, as a kit declares them: relative to the events of a name.      *)
(***************************************************************************)
Steps         == {"MOVEMENT"}
Spells        == {"ABILITY"}
Swings        == {"BASIC_ATTACK"}
SpellsAndSteps == {"ABILITY", "MOVEMENT"}
Acts          == {"ABILITY", "BASIC_ATTACK"}
Moves         == Acts \cup Steps
Everything    == Moves \cup {"ITEM_ACTIVE"}

Holds(type, name, ms, channels) ==
  [type |-> type, name |-> name, after |-> 0, ms |-> ms, channels |-> channels,
   reducible |-> TRUE, uncut |-> FALSE, first |-> FALSE]

Irreducible(w) == [w EXCEPT !.reducible = FALSE]
After(ms, w)   == [w EXCEPT !.after = ms]
Uncut(w)       == [w EXCEPT !.uncut = TRUE]
OfFirst(w)     == [w EXCEPT !.first = TRUE]

Slows(name, ms) == Holds("SLOW", name, ms, Steps)
Roots(name, ms) == Holds("ROOT", name, ms, Steps)
Stuns(name, ms) == Holds("STUN", name, ms, Moves)
Knocks(name, ms) == Irreducible(Holds("AIRBORNE", name, ms, Moves))

(* A window of a fixed time, tied to no event. *)
Unsourced(start, type, ms, channels) ==
  Irreducible(After(start, Holds(type, "", ms, channels)))

(* An immunity to the given types of control. *)
Shields(name, ms, types) ==
  Uncut(Holds("", name, ms, {})) @@ [types |-> types]

(* A slower attack clock: rate is its speed in units of 1/FullRate. *)
FullRate == 800

SlowsAttacks(name, ms, rate) == Holds("", name, ms, {}) @@ [rate |-> rate]

(***************************************************************************)
(* The windows of a plan: each declared window once for each event of its  *)
(* name.  Their rank is their place in the plan's list of windows.         *)
(***************************************************************************)
Windows(p, events, declared) ==
  LET End(w, start) == IF w.uncut THEN start + w.ms
                       ELSE Max({start, Min({start + w.ms, p.duration})})
      At(i, id, start) ==
        declared[i] @@ [id |-> <<i, id>>, source |-> id, start |-> start,
                        end |-> End(declared[i], start),
                        rank |-> 100000 * i + start]
      Sources(w) == {e \in events : /\ e.id[1] = w.name
                                    /\ w.first => e.id[2] = 1
                                    /\ e.at + w.after < p.duration}
  IN  UNION {IF declared[i].name = ""
             THEN {At(i, NoEvent, declared[i].after)}
             ELSE {At(i, e.id, e.at + declared[i].after) : e \in Sources(declared[i])}
               : i \in DOMAIN declared}

Kit(p, actions, reactions) ==
  [events |-> actions, blocks |-> Windows(p, actions, reactions),
   immunities |-> {}, cadence |-> {}, ordered |-> TRUE]

WithImmunities(p, kit, declared) ==
  [kit EXCEPT !.immunities = Windows(p, kit.events, declared)]

WithCadence(p, kit, declared) ==
  [kit EXCEPT !.cadence = Windows(p, kit.events, declared)]

(* A plan that does not list its events in the order of their times. *)
Unordered(kit) == [kit EXCEPT !.ordered = FALSE]

(* A plan that lists its windows event by event, not kind by kind. *)
ByEvent(kit) ==
  [kit EXCEPT !.blocks = {[w EXCEPT !.rank = 10 * w.start + w.id[1]] : w \in @}]
=============================================================================
