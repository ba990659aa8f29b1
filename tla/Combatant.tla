----------------------------- MODULE Combatant -----------------------------
(***************************************************************************)
(* One participant of an encounter while its timeline is replayed: the     *)
(* classes _MutableCombatant and _TimedShield of core/timeline.py.  Every  *)
(* method is an operator from a combatant record to what it returns or to  *)
(* the record it leaves behind.                                            *)
(*                                                                         *)
(* A dictionary is a total function with a value that stands for "no       *)
(* entry"; a list is a set whose members carry the serial number of the    *)
(* output that appended them, so that equal entries stay apart and the     *)
(* list order is the order of serials.                                     *)
(*                                                                         *)
(* An operator whose name ends in _Something is the named mistake in the   *)
(* operator that follows it; no definition uses it.  Each shows that a     *)
(* property depends on the operator it spoils.                             *)
(***************************************************************************)
EXTENDS Combat

CONSTANTS
  Entities,    \* participants of the encounter (EntityId)
  NoEntity,    \* the None of status_sources
  DeathKeys,   \* state keys of death-prevention windows, in sorted order
  Forever      \* end of what never expires: a time after the encounter

ASSUME EntitiesAssumption == NoEntity \notin Entities

ASSUME TimeAssumption == Forever \in Nat \ {0} /\ DeathKeys \subseteq Nat

\* The end of an entry that a dictionary does not hold.
Absent == 0

CrowdControls == {"CC_STUN", "CC_AIRBORNE"}

Statuses == CrowdControls \cup
  {"STASIS", "SPELL_SHIELD", "SPELL_SHIELD_HEAL", "HEALING_REDUCTION"}

ResistanceStats == {"ARMOR", "MAGIC_RESISTANCE"}

Stats == ResistanceStats \cup
  { "HEALING_RECEIVED_INCREASE_PERCENT", "SHIELD_RECEIVED_INCREASE_PERCENT",
    "CHAMPION_DAMAGE_MULTIPLIER", "BASIC_ATTACK_DAMAGE_MULTIPLIER",
    "DAMAGE_TAKEN_INCREASE_PERCENT", "MAGIC_DAMAGE_TAKEN_INCREASE_PERCENT",
    "DAMAGE_DEALT_INCREASE_PERCENT",
    "ABILITY_AND_PASSIVE_DAMAGE_INCREASE_PERCENT",
    "OMNIVAMP", "LIFESTEAL", "ABILITY_VAMP", "TENACITY_PERCENT" }

\* A modifier is keyed by the group that granted it and the event's id.  One
\* id per group: a later grant of the group replaces it, the groups stack.
Groups == {"ITEM", "ABILITY"}

Modifier == [amount : Int, end : Nat]

NoModifier == [amount |-> 0, end |-> Absent]

NoReduction == [fraction |-> 0, stacks |-> 0, end |-> Absent]

NoPrevention == [floor |-> 0, end |-> Absent, stasis |-> 0, heal |-> 0]

TimedShield ==
  [ serial : Nat, initial : Nat, current : Nat, end : Nat,
    decay_start : Nat, types : SUBSET DamageTypes ]

\* Only a resistance modifier may be negative.
CombatantState ==
  [ max_hp : Int, current_hp : Int, shield : Nat,
    resistance_reductions :
      [ResistanceStats -> [fraction : Nat, stacks : Nat, end : Nat]],
    statuses : [Statuses -> Nat],
    status_magnitudes : [Statuses -> Nat],
    status_sources : [Statuses -> Entities \cup {NoEntity}],
    timed_shields : SUBSET TimedShield,
    stat_modifiers : [Stats -> [Groups -> Modifier]],
    death_preventions :
      [DeathKeys -> [floor : Nat, end : Nat, stasis : Nat, heal : Nat]],
    pending_heals : SUBSET [serial : Nat, due : Nat, amount : Nat],
    timed_max_health : SUBSET [serial : Nat, amount : Nat, end : Nat],
    regen_accrued_ms : Nat ]

-----------------------------------------------------------------------------
(* Observations *)

Dead(c) == c.current_hp <= 0

HasStatus(c, status) == c.statuses[status] # Absent

Missing(c) == Larger(0, c.max_hp - c.current_hp)

StatModifierTotal(c, stat) ==
  c.stat_modifiers[stat]["ITEM"].amount + c.stat_modifiers[stat]["ABILITY"].amount

StatModifierProduct(c, stat) ==
  LET Factor(g) == IF c.stat_modifiers[stat][g].end = Absent
                     THEN Percent ELSE c.stat_modifiers[stat][g].amount
  IN  Share(Factor("ITEM"), Factor("ABILITY"))

\* base is the combatant's initial armor or magic resistance.
EffectiveResistance(c, stat, base) ==
  LET reduction == c.resistance_reductions[stat]
  IN  Share(base + StatModifierTotal(c, stat),
            Larger(0, Percent - reduction.fraction * reduction.stacks))

\* What is left of each group's durations multiplies within the group; the
\* groups' shares of tenacity add up, to at most 99 hundredths.
EffectiveTenacity(c, base) ==
  LET granted == c.stat_modifiers["TENACITY_PERCENT"]
      item    == Percent - Share(Percent - base, Percent - granted["ITEM"].amount)
  IN  Smaller(99, Larger(0, item + granted["ABILITY"].amount))

Snapshot(c) ==
  [ current_hp |-> c.current_hp, dead |-> Dead(c),
    statuses |-> {s \in Statuses : HasStatus(c, s)} ]

-----------------------------------------------------------------------------
(* Healing *)

Amplified(c, amount) ==
  Share(amount, Percent + StatModifierTotal(c, "HEALING_RECEIVED_INCREASE_PERCENT"))

HealingReduction(c) == Smaller(Percent, c.status_magnitudes["HEALING_REDUCTION"])

Restored(c, amount) ==
  Smaller(Share(Amplified(c, amount), Percent - HealingReduction(c)), Missing(c))

\* Only healing that the cap would have allowed counts as prevented.
Prevented(c, amount) ==
  Larger(0, Smaller(Amplified(c, amount), Missing(c)) - Restored(c, amount))

Reducer(c) == c.status_sources["HEALING_REDUCTION"]

ReceiveHealing_Unreduced(c, amount) ==
  [c EXCEPT !.current_hp = @ + Smaller(Amplified(c, amount), Missing(c))]

ReceiveHealing(c, amount) ==
  [c EXCEPT !.current_hp = @ + Restored(c, amount)]

Regeneration_Unconditional(c, regen, to) == regen * Larger(0, to - c.regen_accrued_ms)

\* What accrue_regeneration asks receive_healing for; regen is per unit of time.
Regeneration(c, regen, to) ==
  IF to > c.regen_accrued_ms /\ ~Dead(c) THEN regen * (to - c.regen_accrued_ms) ELSE 0

DueHeals_Before(c, to) == {h \in c.pending_heals : h.due < to}

DueHeals(c, to) == {h \in c.pending_heals : h.due <= to}

\* Schedule order: by due time, then amount.
FirstDue(heals) ==
  CHOOSE h \in heals : \A o \in heals :
    \/ h.due < o.due
    \/ h.due = o.due /\ h.amount < o.amount
    \/ h.due = o.due /\ h.amount = o.amount /\ h.serial <= o.serial

-----------------------------------------------------------------------------
(* Expiry: an entry is active while now < end *)

DecayTo(s, now) ==
  IF now <= s.decay_start THEN s
  ELSE IF now >= s.end THEN [s EXCEPT !.current = 0]
  ELSE [s EXCEPT !.current =
          Smaller(@, (s.initial * (s.end - now)) \div (s.end - s.decay_start))]

ActiveShields_EndIncluded(c, now) ==
  {s \in {DecayTo(t, now) : t \in c.timed_shields} : s.current > 0 /\ now <= s.end}

ActiveShields(c, now) ==
  {s \in {DecayTo(t, now) : t \in c.timed_shields} : s.current > 0 /\ now < s.end}

StillHas(c, status, now) == now < c.statuses[status]

ExpireEffects(c, now) ==
  [c EXCEPT
    !.resistance_reductions = [s \in ResistanceStats |->
       IF now < @[s].end THEN @[s] ELSE NoReduction],
    !.statuses = [s \in Statuses |-> IF StillHas(c, s, now) THEN @[s] ELSE Absent],
    !.status_magnitudes = [s \in Statuses |-> IF StillHas(c, s, now) THEN @[s] ELSE 0],
    !.timed_shields = ActiveShields(c, now),
    !.stat_modifiers = [s \in Stats |-> [g \in Groups |->
       IF now < @[s][g].end THEN @[s][g] ELSE NoModifier]],
    !.death_preventions = [k \in DeathKeys |->
       IF now < @[k].end THEN @[k] ELSE NoPrevention]]

ExpiredGrants(c, now) == {g \in c.timed_max_health : g.end <= now}

ExpireGrant_KeepsMaximum(c, g) ==
  [c EXCEPT !.current_hp = Smaller(@, c.max_hp - g.amount),
            !.timed_max_health = @ \ {g}]

\* One turn of the loop of expire_max_health.
ExpireGrant(c, g) ==
  [c EXCEPT !.max_hp = @ - g.amount,
            !.current_hp = Smaller(@, c.max_hp - g.amount),
            !.timed_max_health = @ \ {g}]

-----------------------------------------------------------------------------
(* Damage *)

Floors(c) == {0} \cup {c.death_preventions[k].floor : k \in DeathKeys}

MaximumLoss_WeakestFloor(c) ==
  LET losses == {Larger(0, c.current_hp - Smaller(c.max_hp, f)) : f \in Floors(c)}
  IN  CHOOSE l \in losses : \A m \in losses : l >= m

\* Health that damage may still take: down to the strongest floor, which is
\* the least of what the floors leave one by one.
MaximumLoss(c) ==
  LET losses == {Larger(0, c.current_hp - Smaller(c.max_hp, f)) : f \in Floors(c)}
  IN  CHOOSE l \in losses : \A m \in losses : l <= m

HpLoss_Unclamped(c, damage) == damage

HpLoss(c, damage) == Smaller(MaximumLoss(c), damage)

TriggerKeys(c) ==
  {k \in DeathKeys : c.death_preventions[k].end # Absent
                     /\ (c.death_preventions[k].stasis > 0 \/ c.death_preventions[k].heal > 0)}

\* The first window with a trigger is consumed: stasis now, the heal after it.
TriggerDeathPrevention(c, now, serial) ==
  IF TriggerKeys(c) = {} THEN c
  ELSE LET key == CHOOSE k \in TriggerKeys(c) : \A o \in TriggerKeys(c) : k <= o
           w   == c.death_preventions[key]
       IN  [c EXCEPT
             !.death_preventions[key] = NoPrevention,
             !.statuses["STASIS"] =
                IF w.stasis > 0 THEN Larger(@, now + w.stasis) ELSE @,
             !.status_magnitudes["STASIS"] = IF w.stasis > 0 THEN 1 ELSE @,
             !.pending_heals =
                IF w.heal > 0
                  THEN @ \cup {[serial |-> serial, due |-> now + w.stasis, amount |-> w.heal]}
                  ELSE @]

=============================================================================
