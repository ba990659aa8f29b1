----------------------------- MODULE MCTimeline -----------------------------
(* Small encounters: who takes part and what their schedules are made of. *)
EXTENDS TimelineProperties

CONSTANTS a1, a2, t1, t2

Plain ==
  [ max_hp |-> 4, current_hp |-> 4, shield |-> 0, armor |-> 0, magic_resistance |-> 0,
    percent_armor_penetration |-> 0, flat_armor_penetration |-> 0,
    percent_magic_penetration |-> 0, flat_magic_penetration |-> 0,
    tenacity |-> 0, life_steal |-> 0, omnivamp |-> 0,
    health_regen |-> 0, heal_shield_power |-> 0 ]

-----------------------------------------------------------------------------
(* Outputs and events *)

Damage(r, n, type) ==
  [ kind |-> "DAMAGE", recipient |-> r, amount |-> n, type |-> type,
    percent_penetration |-> 0, flat_penetration |-> 0, heal_ratio |-> 0 ]
Healing(r, n) == [kind |-> "HEAL", recipient |-> r, amount |-> n, ratio |-> 0]
Status(r, s, duration, n) ==
  [kind |-> "STATUS", recipient |-> r, status |-> s, duration |-> duration, magnitude |-> n]
Shield(r, n, duration, types, delay) ==
  [ kind |-> "SHIELD", recipient |-> r, amount |-> n, duration |-> duration,
    types |-> types, decay_delay |-> delay ]
Prevention(r, floor, duration, key, stasis, heal) ==
  [ kind |-> "DEATH_PREVENTION", recipient |-> r, floor |-> floor, duration |-> duration,
    key |-> key, stasis |-> stasis, heal |-> heal ]
Modifier_(r, stat, n, duration) ==
  [kind |-> "STAT_MODIFIER", recipient |-> r, stat |-> stat, amount |-> n, duration |-> duration]

Ev(source, channel, outputs) ==
  [ source |-> source, channel |-> channel, outputs |-> outputs,
    requires_living_opponent |-> TRUE, requires_source_alive |-> TRUE,
    cancelled |-> FALSE ]
Alone(e) == [e EXCEPT !.requires_living_opponent = FALSE]

-----------------------------------------------------------------------------
(* A duel about staying alive: floors, a triggered window, executes, health     *)
(* costs, temporary maximum health, revival.                                    *)

DuelRoster == [e \in {a1, t1} |-> [Plain EXCEPT !.health_regen = IF e = t1 THEN 1 ELSE 0]]

SurvivalActions ==
  { Ev(a1, "BASIC_ATTACK", <<Damage(t1, 3, "TRUE")>>),
    Ev(a1, "PASSIVE", <<[kind |-> "EXECUTE", recipient |-> t1, threshold |-> 50]>>),
    Alone(Ev(t1, "ABILITY", <<Prevention(t1, 1, 2, 1, 1, 2)>>)),
    Alone(Ev(t1, "ABILITY", <<Prevention(t1, 1, 2, 2, 0, 0),
                              [kind |-> "MAX_HEALTH", recipient |-> t1, amount |-> 2,
                               duration |-> 1]>>)),
    [Alone(Ev(t1, "ITEM_ACTIVE", <<[kind |-> "REVIVE", recipient |-> t1, amount |-> 6]>>))
       EXCEPT !.requires_source_alive = FALSE],
    Ev(t1, "ABILITY", <<[kind |-> "HEALTH_COST", recipient |-> t1, amount |-> 1,
                         ratio |-> 50, floor |-> 1],
                        Damage(a1, 2, "TRUE")>>) }

-----------------------------------------------------------------------------
(* Two against two: allies wound, by single hits and areas, an opponent who     *)
(* heals by every path there is, who strikes itself and who can be in stasis.   *)

TeamRoster == [e \in {a1, a2, t1, t2} |->
  IF e = t1 THEN [Plain EXCEPT !.current_hp = 1, !.max_hp = 8, !.health_regen = 1,
                               !.life_steal = 100, !.heal_shield_power = 50]
  ELSE Plain]

TeamActions ==
  { Ev(a1, "PASSIVE", <<Damage(t1, 1, "TRUE"), Damage(t2, 3, "TRUE"),
                        Status(t1, "HEALING_REDUCTION", 2, 75)>>),
    Ev(a2, "PASSIVE", <<Status(t1, "HEALING_REDUCTION", 1, 50)>>),
    Ev(t1, "ABILITY", <<Healing(t1, 4), Damage(t1, 1, "TRUE")>>),
    Ev(t1, "ABILITY", <<[kind |-> "HEAL", recipient |-> t1, amount |-> 0, ratio |-> 50],
                        [kind |-> "REMOVE_STATUS", recipient |-> t1,
                         group |-> {"HEALING_REDUCTION"}]>>),
    Ev(t1, "BASIC_ATTACK", <<Damage(a1, 2, "PHYSICAL")>>),
    Ev(t1, "ITEM_ACTIVE",
       <<Modifier_(t1, "HEALING_RECEIVED_INCREASE_PERCENT", 100, 1),
         Status(t1, "STASIS", 1, 1)>>),
    [Ev(a2, "ABILITY", <<Damage(t2, 3, "MAGIC")>>) EXCEPT !.cancelled = TRUE] }

-----------------------------------------------------------------------------
(* Shields of every sort, resistances and their reductions, spell shields.      *)

ShieldRoster == [e \in {a1, t1} |->
  IF e = t1 THEN [Plain EXCEPT !.shield = 1, !.armor = 100, !.max_hp = 8, !.tenacity = 50]
  ELSE [Plain EXCEPT !.flat_armor_penetration = 20]]

ShieldActions ==
  { Ev(a1, "ABILITY", <<Damage(t1, 4, "MAGIC"), Status(t1, "CC_STUN", 2, 1)>>),
    Ev(a1, "BASIC_ATTACK",
       <<Damage(t1, 4, "PHYSICAL"),
         [ kind |-> "RESISTANCE_REDUCTION", recipient |-> t1, stat |-> "ARMOR",
           fraction |-> 50, max_stacks |-> 2, duration |-> 2 ]>>),
    Ev(a1, "PASSIVE", <<[ kind |-> "CURRENT_HEALTH_DAMAGE", recipient |-> t1, ratio |-> 50,
                          type |-> "TRUE", cap |-> 3 ],
                        [ kind |-> "MISSING_HEALTH_DAMAGE", recipient |-> t1, amount |-> 1,
                          ratio |-> 50, type |-> "MAGIC" ]>>),
    Alone(Ev(t1, "ABILITY", <<Shield(t1, 2, 2, {"MAGIC"}, Forever),
                              Shield(t1, 4, 2, {}, 0)>>)),
    Alone(Ev(t1, "ITEM_ACTIVE", <<Shield(t1, 1, Forever, {}, Forever),
                                  Modifier_(t1, "MAGIC_RESISTANCE", -50, 1),
                                  Modifier_(t1, "ARMOR", 20, Forever)>>)),
    Alone(Ev(t1, "ABILITY", <<Status(t1, "SPELL_SHIELD", 2, 1),
                              Status(t1, "SPELL_SHIELD_HEAL", 2, 1)>>)) }

ShieldWindows ==
  {[recipient |-> t1, start |-> 1, end |-> 2, types |-> {"MAGIC"}, multiplier |-> 50]}

-----------------------------------------------------------------------------
(* Schedules that part the code from what is written about it.                  *)

FragileRoster == [e \in {a1, t1, t2} |->
  [Plain EXCEPT !.max_hp = 3, !.current_hp = 3]]

\* Sivir's spell shield with its heal, on a participant who may be dead when an
\* area ability that also reaches a living opponent blocks on it.
SpellShieldHealActions ==
  { Alone(Ev(t1, "ABILITY", <<Status(t1, "SPELL_SHIELD", 2, 1),
                              Status(t1, "SPELL_SHIELD_HEAL", 2, 2)>>)),
    Ev(a1, "BASIC_ATTACK", <<Damage(t1, 3, "TRUE")>>),
    Ev(a1, "ABILITY", <<Damage(t1, 1, "TRUE"), Damage(t2, 1, "TRUE")>>) }

\* One point of health is half of what the floor holds: a floor of 1 health in a
\* program whose amounts have fractions.
ChronoshiftActions ==
  { Alone(Ev(t1, "ABILITY", <<Prevention(t1, 2, 3, 1, 1, 4)>>)),
    Ev(a1, "BASIC_ATTACK", <<Damage(t1, 3, "TRUE")>>),
    Ev(a1, "BASIC_ATTACK", <<Damage(t1, 4, "TRUE")>>),
    Ev(a1, "PASSIVE", <<[kind |-> "EXECUTE", recipient |-> t1, threshold |-> 50]>>) }

=============================================================================
