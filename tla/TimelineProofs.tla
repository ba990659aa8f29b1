--------------------------- MODULE TimelineProofs ---------------------------
EXTENDS TimelineProperties, WellFoundedInduction, TLAPS

-----------------------------------------------------------------------------
(* Arithmetic *)

\* A product of naturals is a natural number.
LEMMA ProductNat == \A a, b \in Nat : a * b \in Nat
  OBVIOUS

\* Dividing by a positive number rounds towards minus infinity.
LEMMA Quotient ==
  ASSUME NEW a \in Int, NEW d \in Nat \ {0}
  PROVE  /\ a \div d \in Int
         /\ a >= 0 => a \div d \in Nat
         /\ a >= 0 => a \div d <= a
  OBVIOUS

\* A share of an amount, computed by every percentage of the timeline, is an integer.
LEMMA ShareInt ==
  ASSUME NEW amount \in Int, NEW fraction \in Int
  PROVE  Share(amount, fraction) \in Int
  BY Quotient DEF Share, Percent

\* A share of a natural amount is natural, and no more than all of it when the
\* fraction is at most one.
LEMMA ShareNat ==
  ASSUME NEW amount \in Nat, NEW fraction \in Nat
  PROVE  /\ Share(amount, fraction) \in Nat
         /\ fraction <= Percent => Share(amount, fraction) <= amount
<1>1. amount * fraction \in Nat
  BY ProductNat
<1>2. fraction <= 100 => amount * fraction <= amount * 100
  OBVIOUS
<1> QED
  BY <1>1, <1>2 DEF Share, Percent

\* No resistance, positive or negative, turns damage into healing.
LEMMA ResistedNat ==
  ASSUME NEW raw \in Nat, NEW resistance \in Int
  PROVE  Resisted(raw, resistance) \in Nat
<1>1. CASE resistance >= 0
  BY <1>1, Quotient DEF Resisted
<1>2. CASE resistance < 0
  <2> DEFINE d == 100 - resistance
  <2>1. d \in Nat /\ d > 100
    BY <1>2
  <2>2. raw * 100 <= raw * d
    BY <2>1
  <2>3. (raw * 100) \div d <= raw
    BY <2>1, <2>2
  <2> QED
    BY <1>2, <2>1, <2>3 DEF Resisted
<1> QED
  BY <1>1, <1>2

\* Penetration and reductions leave an integer resistance.
LEMMA PenetratedInt ==
  ASSUME NEW r \in Int, NEW p \in Int, NEW f \in Int
  PROVE  Penetrated(r, p, f) \in Int
  BY ShareInt DEF Penetrated, Larger, Percent

\* Combining two percentages of penetration gives an integer.
LEMMA CombinedInt ==
  ASSUME NEW p \in Int, NEW q \in Int
  PROVE  Combined(p, q) \in Int
  BY ShareInt DEF Combined, Percent

\* Every set of natural numbers has a least one.
LEMMA LeastNatural ==
  ASSUME NEW T, T \subseteq Nat, T # {}
  PROVE  \E x \in T : \A y \in T : x <= y
<1> DEFINE R == {p \in Nat \X Nat : p[1] < p[2]}
<1>1. IsWellFoundedOn(R, Nat)
  BY NatLessThanWellFounded DEF OpToRel
<1> HIDE DEF R
<1>2. PICK x \in T : \A y \in T : <<y, x>> \notin R
  BY <1>1, WFMin
<1>3. \A y \in T : ~(y < x)
  BY <1>2 DEF R
<1> QED
  BY <1>3

-----------------------------------------------------------------------------
(* One participant *)

\* What every operator of Combatant keeps of a participant.
GoodState(c) ==
  /\ c \in CombatantState
  /\ \A s \in Stats \ ResistanceStats : \A g \in Groups :
       c.stat_modifiers[s][g].amount \in Nat
  /\ 0 < c.max_hp
  /\ 0 <= c.current_hp
  /\ c.current_hp <= c.max_hp

\* The states of pc are told apart by their names.
LEMMA NamesDistinct ==
  /\ Groups = {"ITEM", "ABILITY"}
  /\ ResistanceStats \subseteq Stats
  /\ "HEALING_RECEIVED_INCREASE_PERCENT" \in Stats \ ResistanceStats
  /\ "SHIELD_RECEIVED_INCREASE_PERCENT" \in Stats \ ResistanceStats
  /\ "CHAMPION_DAMAGE_MULTIPLIER" \in Stats \ ResistanceStats
  /\ "BASIC_ATTACK_DAMAGE_MULTIPLIER" \in Stats \ ResistanceStats
  /\ "DAMAGE_TAKEN_INCREASE_PERCENT" \in Stats \ ResistanceStats
  /\ "MAGIC_DAMAGE_TAKEN_INCREASE_PERCENT" \in Stats \ ResistanceStats
  /\ "DAMAGE_DEALT_INCREASE_PERCENT" \in Stats \ ResistanceStats
  /\ "ABILITY_AND_PASSIVE_DAMAGE_INCREASE_PERCENT" \in Stats \ ResistanceStats
  /\ "OMNIVAMP" \in Stats \ ResistanceStats
  /\ "LIFESTEAL" \in Stats \ ResistanceStats
  /\ "ABILITY_VAMP" \in Stats \ ResistanceStats
  /\ "TENACITY_PERCENT" \in Stats \ ResistanceStats
  BY DEF Groups, ResistanceStats, Stats

\* Modifiers of a stat that is not a resistance only add.
LEMMA ModifierTotalNat ==
  ASSUME NEW c, GoodState(c), NEW stat \in Stats \ ResistanceStats
  PROVE  StatModifierTotal(c, stat) \in Nat
  BY NamesDistinct DEF GoodState, StatModifierTotal, Groups

\* The modifiers of any stat add up to an integer.
LEMMA ModifierTotalInt ==
  ASSUME NEW c, c \in CombatantState, NEW stat \in Stats
  PROVE  StatModifierTotal(c, stat) \in Int
  BY DEF CombatantState, StatModifierTotal, Groups, Modifier

\* The factors of a damage multiplier have a natural product.
LEMMA ModifierProductNat ==
  ASSUME NEW c, GoodState(c), NEW stat \in Stats \ ResistanceStats
  PROVE  StatModifierProduct(c, stat) \in Nat
<1> DEFINE Factor(g) == IF c.stat_modifiers[stat][g].end = Absent
                          THEN Percent ELSE c.stat_modifiers[stat][g].amount
<1>1. \A g \in Groups : Factor(g) \in Nat
  BY DEF GoodState, Percent
<1>2. Factor("ITEM") \in Nat /\ Factor("ABILITY") \in Nat
  BY <1>1 DEF Groups
<1> QED
  BY <1>2, ShareNat DEF StatModifierProduct

\* effective_resistance is an integer for every state a participant can be in.
LEMMA ResistanceInt ==
  ASSUME NEW c, c \in CombatantState, NEW stat \in ResistanceStats, NEW base \in Int
  PROVE  EffectiveResistance(c, stat, base) \in Int
<1> DEFINE reduction == c.resistance_reductions[stat]
<1>1. reduction.fraction \in Nat /\ reduction.stacks \in Nat
  BY DEF CombatantState
<1>2. reduction.fraction * reduction.stacks \in Nat
  BY <1>1, ProductNat
<1>3. Larger(0, Percent - reduction.fraction * reduction.stacks) \in Int
  BY <1>2 DEF Larger, Percent
<1>4. base + StatModifierTotal(c, stat) \in Int
  BY ModifierTotalInt, NamesDistinct
<1>5. Share(base + StatModifierTotal(c, stat),
            Larger(0, Percent - reduction.fraction * reduction.stacks)) \in Int
  BY <1>3, <1>4, ShareInt
<1> QED
  BY <1>5 DEF EffectiveResistance

\* Setting a participant's health to a value within its bounds.
LEMMA HealthSet ==
  ASSUME NEW c, GoodState(c), NEW h \in 0..c.max_hp
  PROVE  /\ GoodState([c EXCEPT !.current_hp = h])
         /\ [c EXCEPT !.current_hp = h].current_hp = h
         /\ [c EXCEPT !.current_hp = h].max_hp = c.max_hp
         /\ [c EXCEPT !.current_hp = h].timed_max_health = c.timed_max_health
<1> DEFINE d == [c EXCEPT !.current_hp = h]
<1>1. c \in CombatantState /\ h \in Int
  BY DEF GoodState, CombatantState
<1>2. d \in CombatantState
  BY <1>1 DEF CombatantState
<1>3. d.current_hp = h /\ d.max_hp = c.max_hp /\ d.stat_modifiers = c.stat_modifiers
      /\ d.timed_max_health = c.timed_max_health
  BY <1>1 DEF CombatantState
<1> HIDE DEF d
<1>4. GoodState(d)
  BY <1>1, <1>2, <1>3 DEF GoodState, CombatantState
<1> QED
  BY <1>3, <1>4 DEF d

\* receive_healing restores and prevents natural amounts and never overfills.
LEMMA HealingGood ==
  ASSUME NEW c, GoodState(c), NEW amount \in Nat
  PROVE  /\ Restored(c, amount) \in Nat
         /\ Prevented(c, amount) \in Nat
         /\ Reducer(c) \in Entities \cup {NoEntity}
         /\ GoodState(ReceiveHealing(c, amount))
         /\ ReceiveHealing(c, amount).current_hp = c.current_hp + Restored(c, amount)
         /\ ReceiveHealing(c, amount).max_hp = c.max_hp
         /\ ReceiveHealing(c, amount).timed_max_health = c.timed_max_health
<1>1. c \in CombatantState /\ c.max_hp \in Int /\ c.current_hp \in Int
      /\ c.current_hp <= c.max_hp /\ 0 <= c.current_hp
  BY DEF GoodState, CombatantState
<1>2. Missing(c) \in Nat /\ Missing(c) = c.max_hp - c.current_hp
  BY <1>1 DEF Missing, Larger
<1>3. Amplified(c, amount) \in Nat
  <2> DEFINE increase == StatModifierTotal(c, "HEALING_RECEIVED_INCREASE_PERCENT")
  <2>1. increase \in Nat
    BY ModifierTotalNat, NamesDistinct
  <2>2. Percent + increase \in Nat
    BY <2>1 DEF Percent
  <2> QED
    BY <2>2, ShareNat DEF Amplified
<1>4. Percent - HealingReduction(c) \in Nat
  BY <1>1 DEF HealingReduction, Smaller, Percent, CombatantState, Statuses
<1>5. Share(Amplified(c, amount), Percent - HealingReduction(c)) \in Nat
  BY <1>3, <1>4, ShareNat
<1>6. Restored(c, amount) \in Nat /\ Restored(c, amount) <= c.max_hp - c.current_hp
  BY <1>2, <1>5 DEF Restored, Smaller
<1>7. Prevented(c, amount) \in Nat
  BY <1>2, <1>3, <1>6 DEF Prevented, Smaller, Larger
<1>8. Reducer(c) \in Entities \cup {NoEntity}
  BY <1>1 DEF Reducer, CombatantState, Statuses
<1>9. c.current_hp + Restored(c, amount) \in 0..c.max_hp
  BY <1>1, <1>6
<1>10. ReceiveHealing(c, amount) = [c EXCEPT !.current_hp = c.current_hp + Restored(c, amount)]
  BY DEF ReceiveHealing
<1> QED
  BY <1>6, <1>7, <1>8, <1>9, <1>10, HealthSet


-----------------------------------------------------------------------------
(* Temporary maximum health *)

\* The ways to give every set of running grants the sum of their amounts.
Sums(grants) ==
  {total \in [SUBSET grants -> Nat] :
     /\ \A g \in grants : g.amount \in Nat
     /\ total[{}] = 0
     /\ \A s \in SUBSET grants : \A g \in s : total[s] = total[s \ {g}] + g.amount}

\* No grants of maximum health add up to nothing.
LEMMA NothingGranted == \E total \in Sums({}) : total[{}] = 0
<1> DEFINE total == [s \in SUBSET {} |-> 0]
<1>1. total \in Sums({}) /\ total[{}] = 0
  BY DEF Sums
<1> QED
  BY <1>1

\* One more grant adds its amount to the sum of the grants that run.
LEMMA GrantAdded ==
  ASSUME NEW grants, NEW total \in Sums(grants), NEW g, g \notin grants, g.amount \in Nat
  PROVE  \E t \in Sums(grants \cup {g}) : t[grants \cup {g}] = total[grants] + g.amount
<1> DEFINE more == grants \cup {g}
           t == [s \in SUBSET more |->
                   IF g \in s THEN total[s \ {g}] + g.amount ELSE total[s]]
<1>1. total \in [SUBSET grants -> Nat] /\ total[{}] = 0
      /\ \A s \in SUBSET grants : \A h \in s : total[s] = total[s \ {h}] + h.amount
  BY DEF Sums
<1>2. t \in [SUBSET more -> Nat]
  <2> SUFFICES ASSUME NEW s \in SUBSET more
               PROVE  (IF g \in s THEN total[s \ {g}] + g.amount ELSE total[s]) \in Nat
    OBVIOUS
  <2>1. s \ {g} \in SUBSET grants
    OBVIOUS
  <2>2. g \notin s => s \in SUBSET grants
    OBVIOUS
  <2> QED
    BY <1>1, <2>1, <2>2
<1>3. t[{}] = 0
  BY <1>1
<1>4. ASSUME NEW s \in SUBSET more, NEW h \in s
      PROVE  t[s] = t[s \ {h}] + h.amount
  <2>1. CASE h = g
    <3>1. t[s \ {g}] = total[s \ {g}]
      OBVIOUS
    <3>2. t[s] = total[s \ {g}] + g.amount
      BY <2>1
    <3> QED
      BY <2>1, <3>1, <3>2
  <2>2. CASE h # g /\ g \in s
    <3>1. s \ {g} \in SUBSET grants /\ h \in s \ {g} /\ (s \ {g}) \ {h} = (s \ {h}) \ {g}
      BY <2>2
    <3>2. total[s \ {g}] = total[(s \ {h}) \ {g}] + h.amount
      BY <1>1, <3>1
    <3>3. t[s] = total[s \ {g}] + g.amount
      BY <2>2
    <3>4. t[s \ {h}] = total[(s \ {h}) \ {g}] + g.amount
      BY <2>2
    <3>5. total[s \ {g}] \in Nat /\ total[(s \ {h}) \ {g}] \in Nat
      BY <1>1, <3>1
    <3>6. h.amount \in Nat
      BY <2>2 DEF Sums
    <3> QED
      BY <3>2, <3>3, <3>4, <3>5, <3>6
  <2>3. CASE g \notin s
    <3>1. s \in SUBSET grants /\ s \ {h} \in SUBSET grants
      BY <2>3
    <3>2. t[s] = total[s] /\ t[s \ {h}] = total[s \ {h}]
      BY <2>3
    <3> QED
      BY <1>1, <3>1, <3>2
  <2> QED
    BY <2>1, <2>2, <2>3
<1>5. t \in Sums(more)
  BY <1>2, <1>3, <1>4 DEF Sums
<1>6. t[more] = total[grants] + g.amount
  <2>1. more \ {g} = grants
    OBVIOUS
  <2> QED
    BY <2>1
<1> QED
  BY <1>5, <1>6

\* A grant that ends takes its amount from the sum of the grants that run.
LEMMA GrantRemoved ==
  ASSUME NEW grants, NEW total \in Sums(grants), NEW g \in grants, g.amount \in Nat
  PROVE  \E t \in Sums(grants \ {g}) : t[grants \ {g}] = total[grants] - g.amount
<1> DEFINE fewer == grants \ {g}
           t == [s \in SUBSET fewer |-> total[s]]
<1>1. total \in [SUBSET grants -> Nat] /\ total[{}] = 0
      /\ \A s \in SUBSET grants : \A h \in s : total[s] = total[s \ {h}] + h.amount
  BY DEF Sums
<1>2. \A s \in SUBSET fewer : s \in SUBSET grants /\ \A h \in s : s \ {h} \in SUBSET fewer
  OBVIOUS
<1>3. t \in Sums(fewer)
  BY <1>1, <1>2 DEF Sums
<1>4. total[grants] = total[fewer] + g.amount /\ total[fewer] \in Nat
  BY <1>1, <1>2
<1>5. t[fewer] = total[fewer]
  OBVIOUS
<1> QED
  BY <1>3, <1>4, <1>5

-----------------------------------------------------------------------------
(* Expiry *)

\* Decay never makes a shield negative.
LEMMA DecayShield ==
  ASSUME NEW s \in TimedShield, NEW now \in Nat
  PROVE  DecayTo(s, now) \in TimedShield
<1>1. s.initial \in Nat /\ s.current \in Nat /\ s.end \in Nat /\ s.decay_start \in Nat
  BY DEF TimedShield
<1>2. ASSUME NEW n \in Nat PROVE [s EXCEPT !.current = n] \in TimedShield
  BY DEF TimedShield
<1>3. CASE now <= s.decay_start
  BY <1>3 DEF DecayTo
<1>4. CASE now > s.decay_start /\ now >= s.end
  BY <1>1, <1>2, <1>4 DEF DecayTo
<1>5. CASE now > s.decay_start /\ now < s.end
  <2>1. s.initial * (s.end - now) \in Nat
    BY <1>1, <1>5, ProductNat
  <2>2. (s.initial * (s.end - now)) \div (s.end - s.decay_start) \in Nat
    BY <1>1, <1>5, <2>1, Quotient
  <2>3. Smaller(s.current, (s.initial * (s.end - now)) \div (s.end - s.decay_start)) \in Nat
    BY <1>1, <2>2 DEF Smaller
  <2> QED
    BY <1>1, <1>2, <1>5, <2>3 DEF DecayTo
<1> QED
  BY <1>1, <1>3, <1>4, <1>5

\* update_shields leaves shields that are still typed.
LEMMA ShieldsLeft ==
  ASSUME NEW c \in CombatantState, NEW now \in Nat
  PROVE  ActiveShields(c, now) \in SUBSET TimedShield
  BY DecayShield DEF ActiveShields, CombatantState

\* What runs out takes no health and no maximum with it.
LEMMA ExpireEffectsGood ==
  ASSUME NEW c, GoodState(c), NEW now \in Nat
  PROVE  /\ GoodState(ExpireEffects(c, now))
         /\ ExpireEffects(c, now).current_hp = c.current_hp
         /\ ExpireEffects(c, now).max_hp = c.max_hp
         /\ ExpireEffects(c, now).timed_max_health = c.timed_max_health
<1> DEFINE d == ExpireEffects(c, now)
<1>1. c \in CombatantState
  BY DEF GoodState
<1>2. /\ d.current_hp = c.current_hp /\ d.max_hp = c.max_hp
      /\ d.timed_max_health = c.timed_max_health
      /\ d.stat_modifiers = [s \in Stats |-> [g \in Groups |->
           IF now < c.stat_modifiers[s][g].end THEN c.stat_modifiers[s][g] ELSE NoModifier]]
  BY <1>1 DEF ExpireEffects, CombatantState
<1>3. d \in CombatantState
  <2>1. ActiveShields(c, now) \in SUBSET TimedShield
    BY <1>1, ShieldsLeft
  <2>2. [s \in ResistanceStats |-> IF now < c.resistance_reductions[s].end
                                    THEN c.resistance_reductions[s] ELSE NoReduction]
          \in [ResistanceStats -> [fraction : Nat, stacks : Nat, end : Nat]]
    BY <1>1 DEF CombatantState, NoReduction, Absent
  <2>3. [s \in Statuses |-> IF StillHas(c, s, now) THEN c.statuses[s] ELSE Absent]
          \in [Statuses -> Nat]
    BY <1>1 DEF CombatantState, Absent
  <2>4. [s \in Statuses |-> IF StillHas(c, s, now) THEN c.status_magnitudes[s] ELSE 0]
          \in [Statuses -> Nat]
    BY <1>1 DEF CombatantState
  <2>5. [s \in Stats |-> [g \in Groups |-> IF now < c.stat_modifiers[s][g].end
                                              THEN c.stat_modifiers[s][g] ELSE NoModifier]]
          \in [Stats -> [Groups -> Modifier]]
    BY <1>1 DEF CombatantState, NoModifier, Modifier, Absent
  <2>6. [k \in DeathKeys |-> IF now < c.death_preventions[k].end
                             THEN c.death_preventions[k] ELSE NoPrevention]
          \in [DeathKeys -> [floor : Nat, end : Nat, stasis : Nat, heal : Nat]]
    BY <1>1 DEF CombatantState, NoPrevention, Absent
  <2> QED
    BY <1>1, <2>1, <2>2, <2>3, <2>4, <2>5, <2>6 DEF ExpireEffects, CombatantState
<1>4. \A s \in Stats \ ResistanceStats : \A g \in Groups : d.stat_modifiers[s][g].amount \in Nat
  BY <1>2 DEF GoodState, NoModifier
<1> HIDE DEF d
<1>5. GoodState(d)
  BY <1>2, <1>3, <1>4 DEF GoodState
<1> QED
  BY <1>2, <1>5 DEF d

-----------------------------------------------------------------------------
(* Damage *)

\* Health above the strongest floor is the most that damage takes: the loss leaves
\* the participant at or above each floor it was above.
LEMMA LossBounded ==
  ASSUME NEW c, GoodState(c), NEW damage \in Nat
  PROVE  /\ HpLoss(c, damage) \in 0..c.current_hp
         /\ HpLoss(c, damage) <= damage
         /\ \A k \in DeathKeys :
              HpLoss(c, damage) <=
                Larger(0, c.current_hp - Smaller(c.max_hp, c.death_preventions[k].floor))
<1> DEFINE loss(f) == Larger(0, c.current_hp - Smaller(c.max_hp, f))
           losses == {loss(f) : f \in Floors(c)}
<1>1. c.max_hp \in Nat /\ c.max_hp > 0 /\ c.current_hp \in Nat
  BY DEF GoodState, CombatantState
<1>2. Floors(c) \subseteq Nat /\ 0 \in Floors(c)
      /\ \A k \in DeathKeys : c.death_preventions[k].floor \in Floors(c)
  BY DEF GoodState, CombatantState, Floors
<1>3. losses \in SUBSET Nat
  BY <1>1, <1>2 DEF Larger, Smaller
<1>4. loss(0) = c.current_hp /\ loss(0) \in losses
  BY <1>1, <1>2 DEF Larger, Smaller
<1>5. \E l \in losses : \A m \in losses : l <= m
  <2>1. losses # {}
    BY <1>4
  <2> QED
    BY <1>3, <2>1, LeastNatural
<1>6. MaximumLoss(c) \in losses /\ \A m \in losses : MaximumLoss(c) <= m
  <2>1. MaximumLoss(c) = CHOOSE l \in losses : \A m \in losses : l <= m
    BY DEF MaximumLoss
  <2> HIDE DEF losses
  <2> QED
    BY <1>5, <2>1
<1>7. \A k \in DeathKeys : loss(c.death_preventions[k].floor) \in losses
  BY <1>2
<1> HIDE DEF losses
<1>8. MaximumLoss(c) \in 0..c.current_hp
  <2>1. MaximumLoss(c) \in Nat /\ MaximumLoss(c) <= loss(0)
    BY <1>3, <1>4, <1>6
  <2> QED
    BY <1>1, <1>4, <2>1
<1>9. \A k \in DeathKeys : MaximumLoss(c) <= loss(c.death_preventions[k].floor)
  BY <1>6, <1>7
<1>10. \A k \in DeathKeys : loss(c.death_preventions[k].floor) \in Nat
  BY <1>3, <1>7
<1>11. HpLoss(c, damage) \in 0..c.current_hp /\ HpLoss(c, damage) <= damage
       /\ HpLoss(c, damage) <= MaximumLoss(c)
  BY <1>1, <1>8 DEF HpLoss, Smaller
<1> QED
  BY <1>8, <1>9, <1>10, <1>11

\* Consuming a window leaves health and maximum alone.
LEMMA TriggerGood ==
  ASSUME NEW c, GoodState(c), NEW now \in Nat, NEW n \in Nat
  PROVE  /\ GoodState(TriggerDeathPrevention(c, now, n))
         /\ TriggerDeathPrevention(c, now, n).current_hp = c.current_hp
         /\ TriggerDeathPrevention(c, now, n).max_hp = c.max_hp
         /\ TriggerDeathPrevention(c, now, n).timed_max_health = c.timed_max_health
<1>1. CASE TriggerKeys(c) = {}
  BY <1>1 DEF TriggerDeathPrevention
<1>2. CASE TriggerKeys(c) # {}
  <2> DEFINE key == CHOOSE k \in TriggerKeys(c) : \A o \in TriggerKeys(c) : k <= o
             w == c.death_preventions[key]
             d == [c EXCEPT
               !.death_preventions[key] = NoPrevention,
               !.statuses["STASIS"] =
                  IF w.stasis > 0 THEN Larger(@, now + w.stasis) ELSE @,
               !.status_magnitudes["STASIS"] = IF w.stasis > 0 THEN 1 ELSE @,
               !.pending_heals =
                  IF w.heal > 0
                    THEN @ \cup {[serial |-> n, due |-> now + w.stasis, amount |-> w.heal]}
                    ELSE @]
  <2>1. c \in CombatantState
    BY DEF GoodState
  <2>2. key \in DeathKeys
    <3>1. TriggerKeys(c) \subseteq Nat /\ TriggerKeys(c) \subseteq DeathKeys
      BY TimeAssumption DEF TriggerKeys
    <3>2. \E k \in TriggerKeys(c) : \A o \in TriggerKeys(c) : k <= o
      BY <1>2, <3>1, LeastNatural
    <3> QED
      BY <3>1, <3>2
  <2> HIDE DEF key
  <2>3. w.stasis \in Nat /\ w.heal \in Nat
    BY <2>1, <2>2 DEF CombatantState
  <2>4. Larger(c.statuses["STASIS"], now + w.stasis) \in Nat
    BY <2>1, <2>3 DEF CombatantState, Statuses, Larger
  <2>5. d \in CombatantState
    <3>1. [c.death_preventions EXCEPT ![key] = NoPrevention]
            \in [DeathKeys -> [floor : Nat, end : Nat, stasis : Nat, heal : Nat]]
      BY <2>1, <2>2 DEF CombatantState, NoPrevention, Absent
    <3>2. [c.statuses EXCEPT !["STASIS"] = IF w.stasis > 0 THEN Larger(@, now + w.stasis) ELSE @]
            \in [Statuses -> Nat]
      BY <2>1, <2>4 DEF CombatantState
    <3>3. [c.status_magnitudes EXCEPT !["STASIS"] = IF w.stasis > 0 THEN 1 ELSE @]
            \in [Statuses -> Nat]
      BY <2>1 DEF CombatantState
    <3>4. (IF w.heal > 0
             THEN c.pending_heals \cup
                    {[serial |-> n, due |-> now + w.stasis, amount |-> w.heal]}
             ELSE c.pending_heals) \in SUBSET [serial : Nat, due : Nat, amount : Nat]
      BY <2>1, <2>3 DEF CombatantState
    <3> HIDE DEF w
    <3> QED
      BY <2>1, <3>1, <3>2, <3>3, <3>4 DEF CombatantState
  <2>6. /\ d.current_hp = c.current_hp /\ d.max_hp = c.max_hp
        /\ d.timed_max_health = c.timed_max_health /\ d.stat_modifiers = c.stat_modifiers
    BY <2>1 DEF CombatantState
  <2>7. TriggerDeathPrevention(c, now, n) = d
    BY <1>2 DEF TriggerDeathPrevention, key
  <2> HIDE DEF d
  <2>8. GoodState(d)
    BY <2>5, <2>6 DEF GoodState
  <2> QED
    BY <2>6, <2>7, <2>8
<1> QED
  BY <1>1, <1>2

\* Removing statuses keeps a participant good.
LEMMA WithoutGood ==
  ASSUME NEW c, GoodState(c), NEW gone
  PROVE  /\ GoodState(Without(c, gone))
         /\ Without(c, gone).current_hp = c.current_hp
         /\ Without(c, gone).max_hp = c.max_hp
         /\ Without(c, gone).timed_max_health = c.timed_max_health
<1> DEFINE d == Without(c, gone)
<1>1. c \in CombatantState
  BY DEF GoodState
<1>2. d \in CombatantState
  BY <1>1 DEF Without, CombatantState, Absent
<1>3. /\ d.current_hp = c.current_hp /\ d.max_hp = c.max_hp
      /\ d.timed_max_health = c.timed_max_health /\ d.stat_modifiers = c.stat_modifiers
  BY <1>1 DEF Without, CombatantState
<1> HIDE DEF d
<1>4. GoodState(d)
  BY <1>2, <1>3 DEF GoodState
<1> QED
  BY <1>3, <1>4 DEF d

-----------------------------------------------------------------------------
(* The inductive invariant *)

Healthy ==
  /\ states \in [Entities -> CombatantState]
  /\ \A e \in Entities : GoodState(states[e])

\* A participant's maximum is its initial one plus the grants still running, and the
\* next serial number is new among them.
GrantsOf(e) ==
  /\ \A g \in states[e].timed_max_health : g.serial < serial
  /\ \E total \in Sums(states[e].timed_max_health) :
       states[e].max_hp = Roster[e].max_hp + total[states[e].timed_max_health]

GrantsRunning == \A e \in Entities : GrantsOf(e)

ReplayTyped ==
  /\ clock \in 0..Duration
  /\ pc \in Phases
  /\ event \in Events \cup {EndOfSchedule}
  /\ waiting \subseteq Entities
  /\ blocked \subseteq Entities
  /\ todo \in Seq(Outputs)
  /\ hit \in [damage : Nat, remaining : Nat, visited : Nat]
  /\ fired \in 0..MaxEvents
  /\ serial \in Nat

\* While its outputs are processed there is an event, and while a hit is absorbed
\* the output that deals it is still the first one.
Striking ==
  /\ pc \in {"block", "outputs", "absorb"} => event \in Events
  /\ pc = "absorb" =>
       todo # <<>> /\ Head(todo).kind \in DamageKinds /\ hit.remaining <= hit.damage

DamageTyped ==
  /\ damage_by_target \in [Opponents -> Nat]
  /\ horizon_damage_by_target \in [Opponents -> Nat]
  /\ damage_by_source \in [Entities -> Nat]
  /\ horizon_damage_by_source \in [Entities -> Nat]

HealingTyped ==
  /\ healing_by_entity \in [Entities -> Int]
  /\ healing_prevented_by_entity \in [Entities -> Nat]
  /\ healing_prevented_by_source \in [Entities -> Nat]

DeathsTyped == death_ms_by_entity \in [Entities -> 0..NotDead]

AuditTyped == audit \in [Entities -> AuditEntry]

IInv ==
  /\ Healthy /\ GrantsRunning
  /\ ReplayTyped /\ Striking
  /\ DamageTyped /\ HealingTyped /\ DeathsTyped /\ AuditTyped
  /\ HealthAccounted /\ DamageSplit /\ HorizonWithinTotal

\* The invariant gives every participant a positive maximum and the type invariant.
LEMMA IInvImplies == IInv => TypeOK /\ HealthBounded
  BY DEF IInv, Healthy, GoodState, ReplayTyped, DamageTyped, HealingTyped, DeathsTyped,
         AuditTyped, TypeOK, HealthBounded

-----------------------------------------------------------------------------
(* The initial states *)

\* A participant of the roster starts in a good state.
LEMMA FreshGood ==
  ASSUME NEW e \in Entities
  PROVE  /\ GoodState(Fresh(e))
         /\ Fresh(e).max_hp = Roster[e].max_hp
         /\ Fresh(e).current_hp = Roster[e].current_hp
         /\ Fresh(e).timed_max_health = {}
<1>1. /\ Roster[e].max_hp \in Nat \ {0} /\ Roster[e].current_hp \in Nat
      /\ Roster[e].shield \in Nat /\ Roster[e].current_hp <= Roster[e].max_hp
  BY RosterAssumption DEF Combatants
<1>2. Fresh(e) \in CombatantState
  BY <1>1 DEF Fresh, CombatantState, NoReduction, NoModifier, NoPrevention, Modifier, Absent
<1>3. \A s \in Stats \ ResistanceStats : \A g \in Groups :
        Fresh(e).stat_modifiers[s][g].amount \in Nat
  BY DEF Fresh, NoModifier
<1>4. /\ Fresh(e).max_hp = Roster[e].max_hp /\ Fresh(e).current_hp = Roster[e].current_hp
      /\ Fresh(e).timed_max_health = {}
  BY DEF Fresh
<1> QED
  BY <1>1, <1>2, <1>3, <1>4 DEF GoodState

\* The invariant holds when the replay starts.
LEMMA InitEstablishes == Init => IInv
<1> SUFFICES ASSUME Init PROVE IInv
  OBVIOUS
<1>1. \A e \in Entities : states[e] = Fresh(e)
  BY DEF Init
<1>2. Healthy
  BY <1>1, FreshGood DEF Init, Healthy, GoodState
<1>3. GrantsRunning
  <2> SUFFICES ASSUME NEW e \in Entities PROVE GrantsOf(e)
    BY DEF GrantsRunning
  <2>1. states[e].timed_max_health = {} /\ states[e].max_hp = Roster[e].max_hp
    BY <1>1, FreshGood
  <2>2. Roster[e].max_hp \in Nat
    BY RosterAssumption DEF Combatants
  <2>3. PICK total \in Sums({}) : total[{}] = 0
    BY NothingGranted
  <2> QED
    BY <2>1, <2>2, <2>3 DEF GrantsOf
<1>4. ReplayTyped
  BY BoundsAssumption DEF Init, ReplayTyped, Phases, NoHit
<1>5. Striking
  BY DEF Init, Striking
<1>6. DamageTyped /\ HealingTyped
  BY DEF Init, DamageTyped, HealingTyped
<1>7. DeathsTyped
  BY BoundsAssumption DEF Init, DeathsTyped, NotDead
<1>8. AuditTyped
  BY DEF Init, AuditTyped, AuditEntry
<1>9. HealthAccounted
  <2> SUFFICES ASSUME NEW e \in Entities
               PROVE  states[e].current_hp =
                        Roster[e].current_hp + healing_by_entity[e] + audit[e].granted
                        - audit[e].lost - audit[e].spent - audit[e].clamped
    BY DEF HealthAccounted
  <2>1. states[e].current_hp = Roster[e].current_hp /\ Roster[e].current_hp \in Nat
    BY <1>1, FreshGood, RosterAssumption DEF Combatants
  <2> QED
    BY <2>1 DEF Init
<1>10. DamageSplit
  BY SidesAssumption DEF Init, DamageSplit, InFlight
<1>11. HorizonWithinTotal
  BY DEF Init, HorizonWithinTotal
<1> QED
  BY <1>2, <1>3, <1>4, <1>5, <1>6, <1>7, <1>8, <1>9, <1>10, <1>11 DEF IInv

-----------------------------------------------------------------------------
(* What the steps have in common *)

\* Grants are untouched by a step that changes neither them nor the maxima.
LEMMA GrantsKept ==
  ASSUME GrantsRunning, serial \in Nat, serial' \in Nat, serial <= serial',
         \A e \in Entities : \A g \in states[e].timed_max_health : g.serial \in Nat,
         \A e \in Entities : /\ states'[e].max_hp = states[e].max_hp
                             /\ states'[e].timed_max_health = states[e].timed_max_health
  PROVE  GrantsRunning'
<1> SUFFICES ASSUME NEW e \in Entities PROVE GrantsOf(e)'
  BY DEF GrantsRunning
<1>1. GrantsOf(e)
  BY DEF GrantsRunning
<1> QED
  BY <1>1 DEF GrantsOf

\* The grants that run were appended before the next one will be.
LEMMA GrantSerials ==
  ASSUME Healthy
  PROVE  \A e \in Entities : \A g \in states[e].timed_max_health :
           g.serial \in Nat /\ g.amount \in Nat
  BY DEF Healthy, CombatantState

\* One participant changes into a good state with the same maximum and grants.
LEMMA OneBecomes ==
  ASSUME Healthy, GrantsRunning, serial \in Nat, serial' \in Nat, serial <= serial',
         NEW r \in Entities, NEW c, GoodState(c),
         c.max_hp = states[r].max_hp, c.timed_max_health = states[r].timed_max_health,
         states' = [states EXCEPT ![r] = c]
  PROVE  Healthy' /\ GrantsRunning'
<1>1. c \in CombatantState
  BY DEF GoodState
<1>2. \A e \in Entities : states'[e] = IF e = r THEN c ELSE states[e]
  BY DEF Healthy
<1>3. Healthy'
  BY <1>1, <1>2 DEF Healthy
<1>4. GrantsRunning'
  BY <1>2, GrantSerials, GrantsKept
<1> QED
  BY <1>3, <1>4

\* Both sides are made of participants.
LEMMA SidesType == Opponents \subseteq Entities /\ Allies \subseteq Entities
  BY SidesAssumption

\* record_healing keeps the books typed.
LEMMA HealingRecorded ==
  ASSUME HealingTyped, NEW e \in Entities, NEW c, GoodState(c), NEW amount \in Nat,
         RecordHealing(e, c, amount)
  PROVE  /\ HealingTyped'
         /\ healing_by_entity' = [healing_by_entity EXCEPT ![e] = @ + Restored(c, amount)]
<1>1. Restored(c, amount) \in Nat /\ Prevented(c, amount) \in Nat
      /\ Reducer(c) \in Entities \cup {NoEntity}
  BY HealingGood
<1>2. /\ healing_by_entity' = [healing_by_entity EXCEPT ![e] = @ + Restored(c, amount)]
      /\ healing_prevented_by_entity' =
           [healing_prevented_by_entity EXCEPT ![e] = @ + Prevented(c, amount)]
      /\ healing_prevented_by_source' =
           IF Reducer(c) # NoEntity
             THEN [healing_prevented_by_source EXCEPT ![Reducer(c)] = @ + Prevented(c, amount)]
             ELSE healing_prevented_by_source
  BY DEF RecordHealing
<1> QED
  BY <1>1, <1>2 DEF HealingTyped

\* Everything but the participants, the replay and the healing books is as before.
LEMMA BooksKept ==
  ASSUME DamageTyped, DeathsTyped, UNCHANGED <<damageBooks, results>>
  PROVE  DamageTyped' /\ DeathsTyped'
  BY DEF DamageTyped, DeathsTyped, damageBooks, results

\* The books of healing stay typed when nobody is healed.
LEMMA HealingKept ==
  ASSUME HealingTyped, UnchangedHealing
  PROVE  HealingTyped'
  BY DEF HealingTyped, UnchangedHealing, healingBooks

\* The working states stay good when none of them changes.
LEMMA StatesKept ==
  ASSUME Healthy, GrantsRunning, serial \in Nat, UNCHANGED <<states, serial>>
  PROVE  Healthy' /\ GrantsRunning'
  BY DEF Healthy, GrantsRunning, GrantsOf

\* The accounts of health balance after a step that changes neither side of them.
LEMMA AccountKept ==
  ASSUME HealthAccounted, UNCHANGED <<audit, healing_by_entity>>,
         \A e \in Entities : states'[e].current_hp = states[e].current_hp
  PROVE  HealthAccounted'
  BY DEF HealthAccounted

\* One participant's health changes by what the step adds to its accounts.
LEMMA AccountMoved ==
  ASSUME Healthy, HealingTyped, AuditTyped, HealthAccounted,
         Healthy', HealingTyped', AuditTyped',
         NEW r \in Entities,
         \A e \in Entities \ {r} :
           /\ states'[e].current_hp = states[e].current_hp
           /\ healing_by_entity'[e] = healing_by_entity[e]
           /\ audit'[e] = audit[e],
         states'[r].current_hp - states[r].current_hp =
           (healing_by_entity'[r] - healing_by_entity[r])
           + (audit'[r].granted - audit[r].granted) - (audit'[r].lost - audit[r].lost)
           - (audit'[r].spent - audit[r].spent) - (audit'[r].clamped - audit[r].clamped)
  PROVE  HealthAccounted'
<1> SUFFICES ASSUME NEW e \in Entities
             PROVE  states'[e].current_hp =
                      Roster[e].current_hp + healing_by_entity'[e] + audit'[e].granted
                      - audit'[e].lost - audit'[e].spent - audit'[e].clamped
  BY DEF HealthAccounted
<1>1. states[e].current_hp =
        Roster[e].current_hp + healing_by_entity[e] + audit[e].granted
        - audit[e].lost - audit[e].spent - audit[e].clamped
  BY DEF HealthAccounted
<1>2. CASE e # r
  BY <1>1, <1>2
<1>3. CASE e = r
  <2>1. /\ Roster[e].current_hp \in Int
        /\ states[e].current_hp \in Int /\ states'[e].current_hp \in Int
        /\ healing_by_entity[e] \in Int /\ healing_by_entity'[e] \in Int
    BY RosterAssumption DEF Combatants, Healthy, CombatantState, HealingTyped
  <2>2. /\ audit[e].granted \in Int /\ audit[e].lost \in Int
        /\ audit[e].spent \in Int /\ audit[e].clamped \in Int
        /\ audit'[e].granted \in Int /\ audit'[e].lost \in Int
        /\ audit'[e].spent \in Int /\ audit'[e].clamped \in Int
    BY DEF AuditTyped, AuditEntry
  <2>3. states'[e].current_hp - states[e].current_hp =
          (healing_by_entity'[e] - healing_by_entity[e])
          + (audit'[e].granted - audit[e].granted) - (audit'[e].lost - audit[e].lost)
          - (audit'[e].spent - audit[e].spent) - (audit'[e].clamped - audit[e].clamped)
    BY <1>3
  <2> DEFINE h == states[e].current_hp         hn == states'[e].current_hp
             b == Roster[e].current_hp
             i == healing_by_entity[e]         in == healing_by_entity'[e]
             g == audit[e].granted             gn == audit'[e].granted
             l == audit[e].lost                ln == audit'[e].lost
             s == audit[e].spent               sn == audit'[e].spent
             c == audit[e].clamped             cn == audit'[e].clamped
  <2>4. /\ h \in Int /\ hn \in Int /\ b \in Int /\ i \in Int /\ in \in Int
        /\ g \in Int /\ gn \in Int /\ l \in Int /\ ln \in Int
        /\ s \in Int /\ sn \in Int /\ c \in Int /\ cn \in Int
    BY <2>1, <2>2
  <2>5. /\ h = b + i + g - l - s - c
        /\ hn - h = (in - i) + (gn - g) - (ln - l) - (sn - s) - (cn - c)
    BY <1>1, <2>3
  <2> HIDE DEF h, hn, b, i, in, g, gn, l, ln, s, sn, c, cn
  <2> DEFINE u == b + i + g      un == b + in + gn      v == l + s + c      vn == ln + sn + cn
  <2>6. /\ u \in Int /\ un \in Int /\ v \in Int /\ vn \in Int
    BY <2>4
  <2>7. un - u = (in - i) + (gn - g)
    BY <2>4
  <2>8. vn - v = (ln - l) + (sn - s) + (cn - c)
    BY <2>4
  <2>9. h = u - v
    BY <2>4, <2>5
  <2>10. hn - h = (un - u) - (vn - v)
    <3> DEFINE up == (in - i) + (gn - g)
    <3>1. up \in Int /\ ln - l \in Int /\ sn - s \in Int /\ cn - c \in Int
      BY <2>4
    <3>2. hn - h = up - (ln - l) - (sn - s) - (cn - c)
      BY <2>4, <2>5
    <3>3. un - u = up
      BY <2>7
    <3> HIDE DEF up
    <3> QED
      BY <2>8, <3>1, <3>2, <3>3
  <2>11. hn = un - vn
    <3> HIDE DEF u, un, v, vn
    <3> QED
      BY <2>4, <2>6, <2>9, <2>10
  <2>12. un - vn = b + in + gn - ln - sn - cn
    BY <2>4
  <2> QED
    BY <2>11, <2>12 DEF hn, b, in, gn, ln, sn, cn
<1> QED
  BY <1>2, <1>3

\* One participant is healed by receive_healing(amount) and the books say so.
LEMMA AccountHealed ==
  ASSUME Healthy, HealingTyped, AuditTyped, HealthAccounted, UNCHANGED audit,
         Healthy', HealingTyped',
         NEW r \in Entities, NEW c, GoodState(c), NEW amount \in Nat,
         c.current_hp = states[r].current_hp,
         \A e \in Entities \ {r} : states'[e].current_hp = states[e].current_hp,
         states'[r].current_hp = c.current_hp + Restored(c, amount),
         RecordHealing(r, c, amount)
  PROVE  HealthAccounted'
<1>1. Restored(c, amount) \in Int /\ states[r].current_hp \in Int
  BY HealingGood DEF Healthy, CombatantState
<1>2. healing_by_entity' = [healing_by_entity EXCEPT ![r] = @ + Restored(c, amount)]
  BY DEF RecordHealing
<1>3. /\ healing_by_entity'[r] = healing_by_entity[r] + Restored(c, amount)
      /\ \A e \in Entities \ {r} : healing_by_entity'[e] = healing_by_entity[e]
      /\ healing_by_entity[r] \in Int
  BY <1>2 DEF HealingTyped
<1>4. /\ audit[r].granted \in Int /\ audit[r].lost \in Int
      /\ audit[r].spent \in Int /\ audit[r].clamped \in Int
  BY DEF AuditTyped, AuditEntry
<1>5. AuditTyped'
  BY DEF AuditTyped
<1>6. states'[r].current_hp - states[r].current_hp =
        (healing_by_entity'[r] - healing_by_entity[r])
        + (audit'[r].granted - audit[r].granted) - (audit'[r].lost - audit[r].lost)
        - (audit'[r].spent - audit[r].spent) - (audit'[r].clamped - audit[r].clamped)
  BY <1>1, <1>3, <1>4
<1> QED
  BY <1>3, <1>5, <1>6, AccountMoved

\* Damage books and log agree after a step outside absorb_shield that changes neither.
LEMMA SplitKept ==
  ASSUME DamageSplit, pc # "absorb", pc' # "absorb", UNCHANGED damage_by_target,
         \A e \in Opponents : /\ audit'[e].lost = audit[e].lost
                              /\ audit'[e].absorbed = audit[e].absorbed
                              /\ audit'[e].stopped = audit[e].stopped
  PROVE  DamageSplit'
  BY DEF DamageSplit, InFlight

\* The books of the horizon stay within the totals when no damage is recorded.
LEMMA HorizonKept ==
  ASSUME HorizonWithinTotal, UNCHANGED damageBooks, clock \in Int, clock' \in Int,
         clock <= clock'
  PROVE  HorizonWithinTotal'
  BY BoundsAssumption DEF HorizonWithinTotal, damageBooks

-----------------------------------------------------------------------------
(* Bringing the participants up to date *)

\* Taking the next event keeps the invariant.
LEMMA NextEventStep ==
  ASSUME IInv, NEW a \in Actions, NEW at \in 0..Duration, NextEvent(a, at)
  PROVE  IInv'
<1> USE DEF IInv
<1>1. Healthy' /\ GrantsRunning'
  BY StatesKept DEF NextEvent, ReplayTyped
<1>2. ReplayTyped' /\ Striking'
  BY ActionsAssumption, BoundsAssumption DEF NextEvent, ReplayTyped, Striking, Phases
<1>3. DamageTyped' /\ HealingTyped' /\ DeathsTyped' /\ AuditTyped'
  BY BooksKept, HealingKept DEF NextEvent, UnchangedHealing, AuditTyped
<1>4. HealthAccounted'
  BY AccountKept DEF NextEvent, healingBooks
<1>5. DamageSplit'
  BY SplitKept DEF NextEvent, damageBooks
<1>6. HorizonWithinTotal'
  BY HorizonKept, BoundsAssumption DEF NextEvent, ReplayTyped
<1> QED
  BY <1>1, <1>2, <1>3, <1>4, <1>5, <1>6

\* Reaching the end of the schedule keeps the invariant.
LEMMA FinishStep ==
  ASSUME IInv, Finish
  PROVE  IInv'
<1> USE DEF IInv
<1>1. Healthy' /\ GrantsRunning'
  BY StatesKept DEF Finish, ReplayTyped
<1>2. ReplayTyped' /\ Striking'
  BY BoundsAssumption DEF Finish, ReplayTyped, Striking, Phases
<1>3. DamageTyped' /\ HealingTyped' /\ DeathsTyped' /\ AuditTyped'
  BY BooksKept, HealingKept DEF Finish, UnchangedHealing, AuditTyped
<1>4. HealthAccounted'
  BY AccountKept DEF Finish, healingBooks
<1>5. DamageSplit'
  BY SplitKept DEF Finish, damageBooks
<1>6. HorizonWithinTotal'
  BY HorizonKept, BoundsAssumption DEF Finish, ReplayTyped
<1> QED
  BY <1>1, <1>2, <1>3, <1>4, <1>5, <1>6

\* One turn of the regeneration loop.
LEMMA AccrueRegenerationStep ==
  ASSUME IInv, AccrueRegeneration
  PROVE  IInv'
<1> USE DEF IInv
<1> DEFINE e == CHOOSE x \in waiting : TRUE
           c == states[e]
           amount == Regeneration(c, Roster[e].health_regen, clock)
           d == [ReceiveHealing(c, amount) EXCEPT !.regen_accrued_ms = Larger(@, clock)]
<1>1. e \in Entities
  BY DEF AccrueRegeneration, ReplayTyped
<1> HIDE DEF e
<1>2. GoodState(c) /\ clock \in Nat /\ c.regen_accrued_ms \in Nat
  BY <1>1, BoundsAssumption DEF Healthy, ReplayTyped, CombatantState
<1>3. amount \in Nat
  <2>1. Roster[e].health_regen \in Nat
    BY <1>1, RosterAssumption DEF Combatants
  <2> QED
    BY <1>2, <2>1, ProductNat DEF Regeneration
<1> HIDE DEF c, amount
<1>4. /\ GoodState(ReceiveHealing(c, amount))
      /\ ReceiveHealing(c, amount).current_hp = c.current_hp + Restored(c, amount)
      /\ ReceiveHealing(c, amount).max_hp = c.max_hp
      /\ ReceiveHealing(c, amount).timed_max_health = c.timed_max_health
  BY <1>2, <1>3, HealingGood
<1>5. /\ GoodState(d)
      /\ d.current_hp = c.current_hp + Restored(c, amount)
      /\ d.max_hp = c.max_hp
      /\ d.timed_max_health = c.timed_max_health
  <2> DEFINE b == ReceiveHealing(c, amount)
  <2> HIDE DEF b
  <2>1. GoodState(b) /\ b \in CombatantState
    BY <1>4 DEF b, GoodState
  <2>2. Larger(b.regen_accrued_ms, clock) \in Nat
    BY <1>2, <2>1 DEF Larger, CombatantState
  <2> DEFINE f == [b EXCEPT !.regen_accrued_ms = Larger(@, clock)]
  <2>3. f \in CombatantState
    BY <2>1, <2>2 DEF CombatantState
  <2>4. /\ f.current_hp = b.current_hp /\ f.max_hp = b.max_hp
        /\ f.timed_max_health = b.timed_max_health /\ f.stat_modifiers = b.stat_modifiers
    BY <2>1 DEF CombatantState
  <2> HIDE DEF f
  <2>5. GoodState(f)
    BY <2>1, <2>3, <2>4 DEF GoodState
  <2>6. f = d
    BY DEF b, f
  <2> QED
    BY <1>4, <2>4, <2>5, <2>6 DEF b
<1>6. /\ states' = [states EXCEPT ![e] = d] /\ RecordHealing(e, c, amount)
      /\ waiting' = waiting \ {e} /\ pc' \in {"accrue", "release"} /\ pc = "accrue"
      /\ UNCHANGED <<clock, event, todo, blocked, hit, fired, serial, damageBooks,
                     results, audit>>
  BY DEF AccrueRegeneration, e, c, amount
<1> HIDE DEF d
<1>7. Healthy' /\ GrantsRunning'
  <2>1. serial \in Nat /\ serial' \in Nat /\ serial <= serial'
    BY <1>6 DEF ReplayTyped
  <2>2. d.max_hp = states[e].max_hp /\ d.timed_max_health = states[e].timed_max_health
    BY <1>5 DEF c
  <2> QED
    BY <1>1, <1>5, <1>6, <2>1, <2>2, OneBecomes
<1>8. HealingTyped'
  BY <1>1, <1>2, <1>3, <1>6, HealingRecorded
<1>9. ReplayTyped' /\ Striking'
  BY <1>6 DEF ReplayTyped, Striking, Phases
<1>10. DamageTyped' /\ DeathsTyped' /\ AuditTyped'
  BY <1>6, BooksKept DEF AuditTyped
<1>11. HealthAccounted'
  <2>1. \A x \in Entities \ {e} : states'[x].current_hp = states[x].current_hp
    BY <1>6 DEF Healthy
  <2>2. states'[e].current_hp = c.current_hp + Restored(c, amount)
    BY <1>1, <1>5, <1>6 DEF Healthy
  <2> QED
    BY <1>1, <1>2, <1>3, <1>6, <1>7, <1>8, <2>1, <2>2, AccountHealed DEF c
<1>12. DamageSplit'
  BY <1>6, SplitKept DEF damageBooks
<1>13. HorizonWithinTotal'
  BY <1>6, HorizonKept, BoundsAssumption DEF ReplayTyped
<1> QED
  BY <1>7, <1>8, <1>9, <1>10, <1>11, <1>12, <1>13

\* The heals that are due have a first one.
LEMMA FirstDueIn ==
  ASSUME NEW heals, heals # {}, heals \subseteq [serial : Nat, due : Nat, amount : Nat]
  PROVE  FirstDue(heals) \in heals
<1>1. PICK d \in {h.due : h \in heals} : \A x \in {h.due : h \in heals} : d <= x
  <2>1. {h.due : h \in heals} \subseteq Nat /\ {h.due : h \in heals} # {}
    OBVIOUS
  <2> QED
    BY <2>1, LeastNatural
<1> DEFINE H == {h \in heals : h.due = d}
<1>2. {h.amount : h \in H} \subseteq Nat /\ {h.amount : h \in H} # {}
  OBVIOUS
<1>3. PICK a \in {h.amount : h \in H} : \A x \in {h.amount : h \in H} : a <= x
  BY <1>2, LeastNatural
<1> DEFINE A == {h \in H : h.amount = a}
<1>4. {h.serial : h \in A} \subseteq Nat /\ {h.serial : h \in A} # {}
  OBVIOUS
<1>5. PICK n \in {h.serial : h \in A} : \A x \in {h.serial : h \in A} : n <= x
  BY <1>4, LeastNatural
<1>6. PICK h \in heals : h.due = d /\ h.amount = a /\ h.serial = n
  BY <1>5
<1>7. ASSUME NEW o \in heals
      PROVE  \/ h.due < o.due
             \/ h.due = o.due /\ h.amount < o.amount
             \/ h.due = o.due /\ h.amount = o.amount /\ h.serial <= o.serial
  <2>1. d <= o.due
    BY <1>1
  <2>2. o.due = d => a <= o.amount
    BY <1>3
  <2>3. o.due = d /\ o.amount = a => n <= o.serial
    BY <1>5
  <2>4. d \in Nat /\ a \in Nat /\ n \in Nat /\ o.due \in Nat /\ o.amount \in Nat
        /\ o.serial \in Nat
    BY <1>6
  <2> QED
    BY <1>6, <2>1, <2>2, <2>3, <2>4
<1> QED
  BY <1>6, <1>7 DEF FirstDue

\* A trigger heal is given or lost.
LEMMA ReleasePendingHealStep ==
  ASSUME IInv, NEW e \in Entities, ReleasePendingHeal(e)
  PROVE  IInv'
<1> USE DEF IInv
<1> DEFINE c == states[e]
           h == FirstDue(DueHeals(c, clock))
           amount == IF Dead(c) THEN 0 ELSE h.amount
           b == ReceiveHealing(c, amount)
           d == [b EXCEPT !.pending_heals = @ \ {h}]
<1>1. GoodState(c)
  BY DEF Healthy
<1>2. amount \in Nat
  <2>1. c.pending_heals \subseteq [serial : Nat, due : Nat, amount : Nat]
    BY <1>1 DEF GoodState, CombatantState
  <2>2. h \in c.pending_heals
    BY <2>1, FirstDueIn DEF ReleasePendingHeal, DueHeals
  <2> HIDE DEF h
  <2> QED
    BY <2>1, <2>2
<1>3. /\ states' = [states EXCEPT ![e] = d] /\ RecordHealing(e, c, amount)
      /\ pc = "release"
      /\ UNCHANGED <<replay, damageBooks, results, audit>>
  BY DEF ReleasePendingHeal
<1> HIDE DEF c, h, amount
<1>4. /\ GoodState(b)
      /\ b.current_hp = c.current_hp + Restored(c, amount)
      /\ b.max_hp = c.max_hp
      /\ b.timed_max_health = c.timed_max_health
  BY <1>1, <1>2, HealingGood
<1> HIDE DEF b
<1>5. /\ GoodState(d)
      /\ d.current_hp = c.current_hp + Restored(c, amount)
      /\ d.max_hp = c.max_hp
      /\ d.timed_max_health = c.timed_max_health
  <2>1. b \in CombatantState /\ c \in CombatantState
    BY <1>1, <1>4 DEF GoodState
  <2>2. d \in CombatantState
    BY <2>1 DEF CombatantState
  <2>3. /\ d.current_hp = b.current_hp /\ d.max_hp = b.max_hp
        /\ d.timed_max_health = b.timed_max_health /\ d.stat_modifiers = b.stat_modifiers
    BY <2>1 DEF CombatantState
  <2> HIDE DEF d
  <2> QED
    BY <1>4, <2>2, <2>3 DEF GoodState
<1> HIDE DEF d
<1>6. Healthy' /\ GrantsRunning'
  <2>1. serial \in Nat /\ serial' \in Nat /\ serial <= serial'
    BY <1>3 DEF ReplayTyped, replay
  <2>2. d.max_hp = states[e].max_hp /\ d.timed_max_health = states[e].timed_max_health
    BY <1>5 DEF c
  <2> QED
    BY <1>5, <1>3, <2>1, <2>2, OneBecomes
<1>7. HealingTyped'
  BY <1>1, <1>2, <1>3, HealingRecorded
<1>8. ReplayTyped' /\ Striking'
  BY <1>3 DEF ReplayTyped, Striking, replay
<1>9. DamageTyped' /\ DeathsTyped' /\ AuditTyped'
  BY <1>3, BooksKept DEF AuditTyped
<1>10. HealthAccounted'
  <2>1. \A x \in Entities \ {e} : states'[x].current_hp = states[x].current_hp
    BY <1>3 DEF Healthy
  <2>2. states'[e].current_hp = c.current_hp + Restored(c, amount)
    BY <1>3, <1>5 DEF Healthy
  <2> QED
    BY <1>1, <1>2, <1>3, <1>6, <1>7, <2>1, <2>2, AccountHealed DEF c
<1>11. DamageSplit'
  BY <1>3, SplitKept DEF damageBooks, replay
<1>12. HorizonWithinTotal'
  BY <1>3, HorizonKept, BoundsAssumption DEF ReplayTyped, replay
<1> QED
  BY <1>6, <1>7, <1>8, <1>9, <1>10, <1>11, <1>12

\* The end of reductions, statuses, shields, modifiers and floors keeps the invariant.
LEMMA ExpireStep ==
  ASSUME IInv, Expire
  PROVE  IInv'
<1> USE DEF IInv
<1>1. clock \in Nat
  BY BoundsAssumption DEF ReplayTyped
<1>2. \A e \in Entities : states'[e] = ExpireEffects(states[e], clock)
  BY DEF Expire
<1>3. \A e \in Entities : /\ GoodState(states'[e])
                          /\ states'[e].current_hp = states[e].current_hp
                          /\ states'[e].max_hp = states[e].max_hp
                          /\ states'[e].timed_max_health = states[e].timed_max_health
  BY <1>1, <1>2, ExpireEffectsGood DEF Healthy
<1>4. Healthy'
  BY <1>3 DEF Expire, Healthy, GoodState
<1>5. GrantsRunning'
  <2>1. serial \in Nat /\ serial' = serial
    BY DEF Expire, ReplayTyped
  <2> QED
    BY <1>3, <2>1, GrantSerials, GrantsKept
<1>6. ReplayTyped' /\ Striking'
  BY DEF Expire, ReplayTyped, Striking, Phases
<1>7. DamageTyped' /\ HealingTyped' /\ DeathsTyped' /\ AuditTyped'
  BY BooksKept, HealingKept DEF Expire, AuditTyped
<1>8. HealthAccounted'
  BY <1>3, AccountKept DEF Expire, UnchangedHealing, healingBooks
<1>9. DamageSplit'
  BY SplitKept DEF Expire, damageBooks
<1>10. HorizonWithinTotal'
  BY HorizonKept, <1>1 DEF Expire
<1> QED
  BY <1>4, <1>5, <1>6, <1>7, <1>8, <1>9, <1>10

\* An expired grant takes its amount off the maximum, which the other grants and the
\* initial maximum keep positive, and clamps health to what is left.
LEMMA ExpireMaxHealthStep ==
  ASSUME IInv, NEW e \in Entities, ExpireMaxHealth(e)
  PROVE  IInv'
<1> USE DEF IInv
<1> DEFINE c == states[e]
           g == CHOOSE x \in ExpiredGrants(c, clock) : TRUE
           d == ExpireGrant(c, g)
<1>1. GoodState(c) /\ c \in CombatantState
  BY DEF Healthy
<1>2. g \in c.timed_max_health
  BY DEF ExpireMaxHealth, ExpiredGrants
<1>3. /\ states' = [states EXCEPT ![e] = d]
      /\ audit' = [audit EXCEPT ![e].clamped = @ + (c.current_hp - d.current_hp)]
      /\ pc = "expire" /\ UnchangedHealing
      /\ UNCHANGED <<replay, damageBooks, results>>
  BY DEF ExpireMaxHealth
<1> HIDE DEF g
<1>4. g.amount \in Nat /\ c.max_hp \in Int /\ c.current_hp \in Int
  BY <1>1, <1>2 DEF CombatantState
<1>5. PICK total \in Sums(c.timed_max_health) :
        c.max_hp = Roster[e].max_hp + total[c.timed_max_health]
  BY DEF GrantsRunning, GrantsOf
<1>6. PICK t \in Sums(c.timed_max_health \ {g}) :
        t[c.timed_max_health \ {g}] = total[c.timed_max_health] - g.amount
  BY <1>2, <1>4, GrantRemoved
<1>7. total[c.timed_max_health] \in Nat /\ t[c.timed_max_health \ {g}] \in Nat
  BY DEF Sums
<1>8. Roster[e].max_hp \in Nat \ {0}
  BY RosterAssumption DEF Combatants
<1>9. d.max_hp = c.max_hp - g.amount
      /\ d.max_hp = Roster[e].max_hp + t[c.timed_max_health \ {g}]
      /\ d.max_hp > 0
  <2>1. d.max_hp = c.max_hp - g.amount
    BY <1>1 DEF ExpireGrant, CombatantState
  <2> QED
    BY <1>4, <1>5, <1>6, <1>7, <1>8, <2>1
<1>10. d.current_hp = Smaller(c.current_hp, d.max_hp)
       /\ d.timed_max_health = c.timed_max_health \ {g}
       /\ d.stat_modifiers = c.stat_modifiers
  BY <1>1, <1>4 DEF ExpireGrant, CombatantState
<1>11. d.current_hp \in Int /\ 0 <= d.current_hp /\ d.current_hp <= d.max_hp
       /\ d.max_hp \in Int
  BY <1>1, <1>4, <1>9, <1>10 DEF Smaller, GoodState
<1>12. d \in CombatantState
  <2>1. c.max_hp - g.amount \in Int /\ Smaller(c.current_hp, c.max_hp - g.amount) \in Int
    BY <1>4 DEF Smaller
  <2> QED
    BY <1>1, <2>1 DEF ExpireGrant, CombatantState
<1>13. GoodState(d)
  <2> HIDE DEF d
  <2> QED
    BY <1>1, <1>9, <1>10, <1>11, <1>12 DEF GoodState
<1>14. \A x \in Entities : states'[x] = IF x = e THEN d ELSE states[x]
  BY <1>3 DEF Healthy
<1> HIDE DEF d
<1>15. Healthy'
  BY <1>3, <1>12, <1>13, <1>14 DEF Healthy
<1>16. GrantsRunning'
  <2> SUFFICES ASSUME NEW x \in Entities PROVE GrantsOf(x)'
    BY DEF GrantsRunning
  <2>1. GrantsOf(x) /\ serial' = serial
    BY <1>3 DEF GrantsRunning, replay
  <2>2. CASE x # e
    BY <1>14, <2>1, <2>2 DEF GrantsOf
  <2>3. CASE x = e
    <3>1. states'[x].timed_max_health = c.timed_max_health \ {g}
          /\ states'[x].max_hp = Roster[x].max_hp + t[c.timed_max_health \ {g}]
      BY <1>9, <1>10, <1>14, <2>3
    <3> QED
      BY <1>6, <2>1, <2>3, <3>1 DEF GrantsOf
  <2> QED
    BY <2>2, <2>3
<1>17. ReplayTyped' /\ Striking'
  BY <1>3 DEF ReplayTyped, Striking, replay
<1>18. DamageTyped' /\ HealingTyped' /\ DeathsTyped'
  BY <1>3, BooksKept, HealingKept
<1>19. AuditTyped'
  BY <1>3, <1>4, <1>11 DEF AuditTyped, AuditEntry
<1>20. HealthAccounted'
  <2>1. /\ audit'[e].granted = audit[e].granted /\ audit'[e].lost = audit[e].lost
        /\ audit'[e].spent = audit[e].spent
        /\ audit'[e].clamped = audit[e].clamped + (c.current_hp - d.current_hp)
        /\ \A x \in Entities \ {e} : audit'[x] = audit[x]
    BY <1>3 DEF AuditTyped, AuditEntry
  <2>2. \A x \in Entities : healing_by_entity'[x] = healing_by_entity[x]
    BY <1>3 DEF UnchangedHealing, healingBooks
  <2>3. healing_by_entity[e] \in Int /\ audit[e].granted \in Int /\ audit[e].lost \in Int
        /\ audit[e].spent \in Int /\ audit[e].clamped \in Int
    BY DEF HealingTyped, AuditTyped, AuditEntry
  <2>4. states'[e].current_hp - states[e].current_hp =
          (healing_by_entity'[e] - healing_by_entity[e])
          + (audit'[e].granted - audit[e].granted) - (audit'[e].lost - audit[e].lost)
          - (audit'[e].spent - audit[e].spent) - (audit'[e].clamped - audit[e].clamped)
    <3>1. states'[e].current_hp = d.current_hp /\ states[e].current_hp = c.current_hp
      BY <1>14 DEF c
    <3> HIDE DEF c
    <3> QED
      BY <1>4, <1>11, <2>1, <2>2, <2>3, <3>1, Z3T(60)
  <2> QED
    BY <1>14, <1>15, <1>18, <1>19, <2>1, <2>2, <2>4, AccountMoved
<1>21. DamageSplit'
  <2>1. \A x \in Opponents : /\ audit'[x].lost = audit[x].lost
                              /\ audit'[x].absorbed = audit[x].absorbed
                              /\ audit'[x].stopped = audit[x].stopped
    BY <1>3, SidesType DEF AuditTyped, AuditEntry
  <2> QED
    BY <1>3, <2>1, SplitKept DEF damageBooks, replay
<1>22. HorizonWithinTotal'
  BY <1>3, HorizonKept, BoundsAssumption DEF ReplayTyped, replay
<1> QED
  BY <1>15, <1>16, <1>17, <1>18, <1>19, <1>20, <1>21, <1>22

\* Steps that change nothing but where the replay is.
LEMMA ReplayMoves ==
  ASSUME IInv, UNCHANGED <<states, clock, serial, damageBooks, healingBooks, results, audit>>,
         ReplayTyped', Striking', pc # "absorb", pc' # "absorb"
  PROVE  IInv'
<1> USE DEF IInv
<1>1. Healthy' /\ GrantsRunning'
  BY StatesKept DEF ReplayTyped
<1>2. DamageTyped' /\ HealingTyped' /\ DeathsTyped' /\ AuditTyped'
  BY BooksKept, HealingKept DEF UnchangedHealing, AuditTyped
<1>3. HealthAccounted'
  BY AccountKept DEF healingBooks
<1>4. DamageSplit'
  BY SplitKept DEF damageBooks
<1>5. HorizonWithinTotal'
  BY HorizonKept, BoundsAssumption DEF ReplayTyped
<1> QED
  BY <1>1, <1>2, <1>3, <1>4, <1>5

\* The continue statements, the loop headers and the end of an event keep the invariant.
LEMMA ControlSteps ==
  ASSUME IInv, Conclude \/ SkipEvent \/ StartEvent \/ SkipOutput
  PROVE  IInv'
<1> USE DEF IInv
<1>1. CASE Conclude
  BY <1>1, ReplayMoves DEF Conclude, UpToDate, UnchangedHealing, ReplayTyped, Striking, Phases
<1>2. CASE SkipEvent
  BY <1>2, ReplayMoves DEF SkipEvent, UpToDate, UnchangedHealing, ReplayTyped, Striking, Phases
<1>3. CASE StartEvent
  <2>1. event \in Events /\ event.outputs \in Seq(Outputs)
    BY <1>3 DEF StartEvent, ReplayTyped, Events
  <2>2. SpellShielded \subseteq Entities
    <3>1. \A i \in DOMAIN event.outputs : event.outputs[i] \in Outputs
      BY <2>1
    <3>2. \A o \in Outputs : o.recipient \in Entities
      BY DEF Outputs
    <3> QED
      BY <3>1, <3>2 DEF SpellShielded, Recipients
  <2>3. /\ blocked' = SpellShielded /\ waiting' = SpellShielded /\ todo' = event.outputs
        /\ pc' \in {"outputs", "block"} /\ pc = "expire"
        /\ UNCHANGED <<states, clock, event, hit, fired, serial, damageBooks, healingBooks,
                       results, audit>>
    BY <1>3 DEF StartEvent, UpToDate, UnchangedHealing
  <2>4. ReplayTyped' /\ Striking'
    BY <2>1, <2>2, <2>3 DEF ReplayTyped, Striking, Phases
  <2> QED
    BY <2>3, <2>4, ReplayMoves
<1>4. CASE SkipOutput
  <2>1. Tail(todo) \in Seq(Outputs)
    BY <1>4 DEF SkipOutput, ReplayTyped
  <2> QED
    BY <1>4, <2>1, ReplayMoves DEF SkipOutput, UnchangedHealing, ReplayTyped, Striking
<1> QED
  BY <1>1, <1>2, <1>3, <1>4

\* A blocked ability uses the spell shield up and gives the heal that travels with it.
LEMMA ConsumeSpellShieldStep ==
  ASSUME IInv, ConsumeSpellShield
  PROVE  IInv'
<1> USE DEF IInv
<1> DEFINE e == CHOOSE x \in waiting : TRUE
           c == Without(states[e], {"SPELL_SHIELD", "SPELL_SHIELD_HEAL"})
           amount == IF HasStatus(states[e], "SPELL_SHIELD_HEAL")
                       THEN states[e].status_magnitudes["SPELL_SHIELD_HEAL"] ELSE 0
           d == ReceiveHealing(c, amount)
<1>1. e \in Entities
  BY DEF ConsumeSpellShield, ReplayTyped
<1>2. /\ states' = [states EXCEPT ![e] = d] /\ RecordHealing(e, c, amount)
      /\ waiting' = waiting \ {e} /\ pc' \in {"block", "outputs"} /\ pc = "block"
      /\ UNCHANGED <<clock, event, todo, blocked, hit, fired, serial, damageBooks,
                     results, audit>>
  BY DEF ConsumeSpellShield
<1> HIDE DEF e
<1>3. GoodState(states[e])
  BY <1>1 DEF Healthy
<1>4. amount \in Nat
  BY <1>3 DEF GoodState, CombatantState, Statuses
<1>5. /\ GoodState(c) /\ c.current_hp = states[e].current_hp /\ c.max_hp = states[e].max_hp
      /\ c.timed_max_health = states[e].timed_max_health
  BY <1>3, WithoutGood
<1> HIDE DEF c, amount
<1>6. /\ GoodState(d) /\ d.current_hp = c.current_hp + Restored(c, amount)
      /\ d.max_hp = c.max_hp /\ d.timed_max_health = c.timed_max_health
  BY <1>4, <1>5, HealingGood
<1> HIDE DEF d
<1>7. Healthy' /\ GrantsRunning'
  <2>1. serial \in Nat /\ serial' \in Nat /\ serial <= serial'
    BY <1>2 DEF ReplayTyped
  <2>2. d.max_hp = states[e].max_hp /\ d.timed_max_health = states[e].timed_max_health
    BY <1>5, <1>6
  <2> QED
    BY <1>1, <1>2, <1>6, <2>1, <2>2, OneBecomes
<1>8. HealingTyped'
  BY <1>1, <1>2, <1>4, <1>5, HealingRecorded
<1>9. ReplayTyped' /\ Striking'
  BY <1>2 DEF ReplayTyped, Striking, Phases
<1>10. DamageTyped' /\ DeathsTyped' /\ AuditTyped'
  BY <1>2, BooksKept DEF AuditTyped
<1>11. HealthAccounted'
  <2>1. \A x \in Entities \ {e} : states'[x].current_hp = states[x].current_hp
    BY <1>2 DEF Healthy
  <2>2. states'[e].current_hp = c.current_hp + Restored(c, amount)
    BY <1>1, <1>2, <1>6 DEF Healthy
  <2> QED
    BY <1>1, <1>2, <1>4, <1>5, <1>7, <1>8, <2>1, <2>2, AccountHealed
<1>12. DamageSplit'
  BY <1>2, SplitKept DEF damageBooks
<1>13. HorizonWithinTotal'
  BY <1>2, HorizonKept, BoundsAssumption DEF ReplayTyped
<1> QED
  BY <1>7, <1>8, <1>9, <1>10, <1>11, <1>12, <1>13

-----------------------------------------------------------------------------
(* Outputs other than damage *)

\* Every output has a participant for its recipient.
LEMMA RecipientsExist == \A o \in Outputs : o.recipient \in Entities
  BY DEF Outputs

\* What every output that is processed starts from and leaves.
LEMMA ProcessingTyped ==
  ASSUME IInv, NEW out, NEW kind, Processing(out, kind), serial' \in Nat
  PROVE  /\ out \in Outputs /\ out.kind = kind /\ out.recipient \in Entities
         /\ event \in Events /\ clock \in Nat /\ serial \in Nat
         /\ pc = "outputs" /\ pc' = "outputs"
         /\ ReplayTyped' /\ Striking' /\ DamageTyped' /\ DeathsTyped'
         /\ HorizonWithinTotal'
<1> USE DEF IInv
<1>1. out \in Outputs /\ Tail(todo) \in Seq(Outputs)
  BY DEF Processing, ReplayTyped
<1>2. out.recipient \in Entities
  BY <1>1, RecipientsExist
<1>3. event \in Events /\ clock \in Nat /\ serial \in Nat
      /\ pc = "outputs" /\ pc' = "outputs" /\ out.kind = kind
  BY BoundsAssumption DEF Processing, ReplayTyped, Striking
<1>4. ReplayTyped' /\ Striking'
  BY <1>1 DEF Processing, ReplayTyped, Striking
<1>5. DamageTyped' /\ DeathsTyped'
  BY BooksKept DEF Processing
<1>6. HorizonWithinTotal'
  BY <1>3, HorizonKept DEF Processing
<1> QED
  BY <1>1, <1>2, <1>3, <1>4, <1>5, <1>6

\* An output that touches neither its recipient's health nor its maximum.
LEMMA QuietOutput ==
  ASSUME IInv, NEW out, NEW kind, NEW c, Processing(out, kind), Becomes(out, c),
         GoodState(c), UNCHANGED audit, serial' \in {serial, serial + 1},
         c.current_hp = states[out.recipient].current_hp,
         c.max_hp = states[out.recipient].max_hp,
         c.timed_max_health = states[out.recipient].timed_max_health
  PROVE  IInv'
<1> USE DEF IInv
<1>1. serial \in Nat /\ serial' \in Nat /\ serial <= serial'
  BY DEF ReplayTyped
<1>2. /\ out.recipient \in Entities /\ pc = "outputs" /\ pc' = "outputs"
      /\ ReplayTyped' /\ Striking' /\ DamageTyped' /\ DeathsTyped' /\ HorizonWithinTotal'
  BY <1>1, ProcessingTyped
<1>3. states' = [states EXCEPT ![out.recipient] = c] /\ UnchangedHealing
  BY DEF Becomes
<1>4. Healthy' /\ GrantsRunning'
  BY <1>1, <1>2, <1>3, OneBecomes
<1>5. HealingTyped' /\ AuditTyped'
  BY <1>3, HealingKept DEF AuditTyped
<1>6. \A e \in Entities : states'[e].current_hp = states[e].current_hp
  BY <1>3 DEF Healthy
<1>7. HealthAccounted'
  BY <1>3, <1>6, AccountKept DEF UnchangedHealing, healingBooks
<1>8. DamageSplit'
  BY <1>2, SplitKept DEF Processing, damageBooks
<1> QED
  BY <1>2, <1>4, <1>5, <1>7, <1>8

\* The audit of r, and no other, has grants minus costs grown by n.
Charged(r, n) ==
  /\ AuditTyped'
  /\ \A x \in Entities \ {r} : audit'[x] = audit[x]
  /\ \A x \in Entities : /\ audit'[x].lost = audit[x].lost
                          /\ audit'[x].absorbed = audit[x].absorbed
                          /\ audit'[x].stopped = audit[x].stopped
                          /\ audit'[x].clamped = audit[x].clamped
  /\ n = (audit'[r].granted - audit[r].granted) - (audit'[r].spent - audit[r].spent)

\* Health that an output gives is charged as granted.
LEMMA GrantCharged ==
  ASSUME AuditTyped, NEW r \in Entities, NEW n \in Int,
         audit' = [audit EXCEPT ![r].granted = @ + n]
  PROVE  Charged(r, n)
<1>1. audit[r].granted \in Int /\ audit[r].spent \in Int
  BY DEF AuditTyped, AuditEntry
<1>2. audit'[r].granted = audit[r].granted + n /\ audit'[r].spent = audit[r].spent
  BY DEF AuditTyped, AuditEntry
<1>3. n = (audit'[r].granted - audit[r].granted) - (audit'[r].spent - audit[r].spent)
  BY <1>1, <1>2
<1>4. AuditTyped'
  BY <1>1 DEF AuditTyped, AuditEntry
<1>5. /\ \A x \in Entities \ {r} : audit'[x] = audit[x]
      /\ \A x \in Entities : /\ audit'[x].lost = audit[x].lost
                              /\ audit'[x].absorbed = audit[x].absorbed
                              /\ audit'[x].stopped = audit[x].stopped
                              /\ audit'[x].clamped = audit[x].clamped
  BY DEF AuditTyped, AuditEntry
<1> QED
  BY <1>3, <1>4, <1>5 DEF Charged

\* Health that an output takes is charged as spent.
LEMMA CostCharged ==
  ASSUME AuditTyped, NEW r \in Entities, NEW n \in Int,
         audit' = [audit EXCEPT ![r].spent = @ + n]
  PROVE  Charged(r, -n)
<1>1. audit[r].granted \in Int /\ audit[r].spent \in Int
  BY DEF AuditTyped, AuditEntry
<1>2. audit'[r].granted = audit[r].granted /\ audit'[r].spent = audit[r].spent + n
  BY DEF AuditTyped, AuditEntry
<1>3. -n = (audit'[r].granted - audit[r].granted) - (audit'[r].spent - audit[r].spent)
  BY <1>1, <1>2
<1>4. AuditTyped'
  BY <1>1 DEF AuditTyped, AuditEntry
<1>5. /\ \A x \in Entities \ {r} : audit'[x] = audit[x]
      /\ \A x \in Entities : /\ audit'[x].lost = audit[x].lost
                              /\ audit'[x].absorbed = audit[x].absorbed
                              /\ audit'[x].stopped = audit[x].stopped
                              /\ audit'[x].clamped = audit[x].clamped
  BY DEF AuditTyped, AuditEntry
<1> QED
  BY <1>3, <1>4, <1>5 DEF Charged

\* An output that changes its recipient's health by what it adds to the accounts of
\* grants and of costs.
LEMMA HealthOutput ==
  ASSUME IInv, NEW out, NEW kind, NEW c, Processing(out, kind), Becomes(out, c),
         GoodState(c), GrantsRunning', serial' \in Nat,
         Charged(out.recipient, c.current_hp - states[out.recipient].current_hp)
  PROVE  IInv'
<1> USE DEF IInv, Charged
<1> DEFINE r == out.recipient
<1>1. /\ r \in Entities /\ pc = "outputs" /\ pc' = "outputs"
      /\ ReplayTyped' /\ Striking' /\ DamageTyped' /\ DeathsTyped' /\ HorizonWithinTotal'
  BY ProcessingTyped
<1>2. states' = [states EXCEPT ![r] = c] /\ UnchangedHealing
  BY DEF Becomes
<1>3. c \in CombatantState
  BY DEF GoodState
<1>4. Healthy'
  BY <1>1, <1>2, <1>3 DEF Healthy
<1>5. HealingTyped'
  BY <1>2, HealingKept
<1>6. HealthAccounted'
  <2>1. \A x \in Entities \ {r} : states'[x].current_hp = states[x].current_hp
    BY <1>2 DEF Healthy
  <2>2. states'[r] = c /\ c.current_hp \in Int
    BY <1>1, <1>2, <1>3 DEF Healthy, CombatantState
  <2>3. healing_by_entity' = healing_by_entity
    BY <1>2 DEF UnchangedHealing, healingBooks
  <2>4. /\ healing_by_entity[r] \in Int
        /\ audit[r].granted \in Int /\ audit[r].spent \in Int
        /\ audit'[r].granted \in Int /\ audit'[r].spent \in Int
        /\ audit[r].lost \in Int /\ audit[r].clamped \in Int
    BY <1>1 DEF HealingTyped, AuditTyped, AuditEntry
  <2> DEFINE i == healing_by_entity[r]
             g == audit[r].granted            gn == audit'[r].granted
             s == audit[r].spent              sn == audit'[r].spent
             l == audit[r].lost               m == audit[r].clamped
             change == c.current_hp - states[r].current_hp
  <2>5. change = (gn - g) - (sn - s)
    OBVIOUS
  <2>6. /\ i \in Int /\ g \in Int /\ s \in Int /\ gn \in Int /\ sn \in Int
        /\ l \in Int /\ m \in Int
    BY <2>4
  <2> HIDE DEF i, g, gn, s, sn, l, m, change
  <2>7. change = (i - i) + (gn - g) - (l - l) - (sn - s) - (m - m)
    BY <2>5, <2>6, Z3T(60)
  <2>8. states'[r].current_hp - states[r].current_hp =
          (healing_by_entity'[r] - healing_by_entity[r])
          + (audit'[r].granted - audit[r].granted) - (audit'[r].lost - audit[r].lost)
          - (audit'[r].spent - audit[r].spent) - (audit'[r].clamped - audit[r].clamped)
    BY <1>1, <2>2, <2>3, <2>7 DEF i, g, gn, s, sn, l, m, change
  <2> HIDE DEF r
  <2> QED
    BY <1>1, <1>4, <1>5, <2>1, <2>3, <2>8, AccountMoved DEF r
<1>7. DamageSplit'
  BY <1>1, SidesType, SplitKept DEF Processing, damageBooks
<1> QED
  BY <1>1, <1>4, <1>5, <1>6, <1>7

\* Grants run on when an output leaves its recipient's maximum alone.
LEMMA GrantsRunOn ==
  ASSUME IInv, NEW out, NEW c, Becomes(out, c), out.recipient \in Entities,
         serial' \in Nat, serial <= serial', GoodState(c),
         c.max_hp = states[out.recipient].max_hp,
         c.timed_max_health = states[out.recipient].timed_max_health
  PROVE  GrantsRunning'
<1>1. Healthy /\ GrantsRunning /\ serial \in Nat
  BY DEF IInv, ReplayTyped
<1>2. states' = [states EXCEPT ![out.recipient] = c]
  BY DEF Becomes
<1> QED
  BY <1>1, <1>2, OneBecomes

\* A revive keeps the invariant: it never exceeds the maximum.
LEMMA ReviveStep ==
  ASSUME IInv, NEW out, Revive(out)
  PROVE  IInv'
<1> DEFINE c == states[out.recipient]
           health == Smaller(c.max_hp, out.amount)
           d == [c EXCEPT !.current_hp = health, !.shield = 0, !.timed_shields = {}]
<1>1. /\ Processing(out, "REVIVE") /\ Becomes(out, d) /\ serial' = serial
      /\ audit' = [audit EXCEPT ![out.recipient].granted = @ + (health - c.current_hp)]
  BY DEF Revive
<1>2. serial \in Nat
  BY DEF IInv, ReplayTyped
<1>3. out \in Outputs /\ out.kind = "REVIVE" /\ out.recipient \in Entities
  BY <1>1, <1>2, ProcessingTyped
<1>4. out.amount \in Nat \ {0}
  BY <1>3 DEF Outputs
<1>5. GoodState(c) /\ c \in CombatantState
  BY <1>3 DEF IInv, Healthy
<1>6. health \in 0..c.max_hp /\ health \in Int
  BY <1>4, <1>5 DEF GoodState, CombatantState, Smaller
<1> HIDE DEF c
<1>7. d \in CombatantState
  BY <1>5, <1>6 DEF CombatantState
<1>8. /\ d.current_hp = health /\ d.max_hp = c.max_hp
      /\ d.timed_max_health = c.timed_max_health /\ d.stat_modifiers = c.stat_modifiers
  BY <1>5 DEF CombatantState
<1> HIDE DEF d, health
<1>9. GoodState(d)
  BY <1>5, <1>6, <1>7, <1>8 DEF GoodState
<1>10. d.max_hp = states[out.recipient].max_hp
       /\ d.timed_max_health = states[out.recipient].timed_max_health
  BY <1>8 DEF c
<1>11. GrantsRunning'
  BY <1>1, <1>2, <1>3, <1>9, <1>10, GrantsRunOn
<1>12. health - c.current_hp \in Int
  BY <1>5, <1>6 DEF CombatantState
<1>13. Charged(out.recipient, health - c.current_hp)
  BY <1>1, <1>3, <1>12, GrantCharged DEF IInv
<1>14. health - c.current_hp = d.current_hp - states[out.recipient].current_hp
  BY <1>8 DEF c
<1> QED
  BY <1>1, <1>2, <1>9, <1>11, <1>13, <1>14, HealthOutput

\* A health cost keeps the invariant: it never takes more than there is.
LEMMA PayHealthStep ==
  ASSUME IInv, NEW out, PayHealth(out)
  PROVE  IInv'
<1> DEFINE c == states[out.recipient]
           paid == Smaller(out.amount + Share(c.current_hp, out.ratio),
                           Larger(0, c.current_hp - out.floor))
           d == [c EXCEPT !.current_hp = @ - paid]
<1>1. /\ Processing(out, "HEALTH_COST") /\ Becomes(out, d) /\ serial' = serial
      /\ audit' = [audit EXCEPT ![out.recipient].spent = @ + paid]
  BY DEF PayHealth
<1>2. serial \in Nat
  BY DEF IInv, ReplayTyped
<1>3. out \in Outputs /\ out.kind = "HEALTH_COST" /\ out.recipient \in Entities
  BY <1>1, <1>2, ProcessingTyped
<1>4. out.amount \in Nat /\ out.ratio \in Nat /\ out.floor \in Nat
  BY <1>3 DEF Outputs, Percent
<1>5. GoodState(c) /\ c.current_hp \in Nat /\ c.max_hp \in Int /\ c.current_hp <= c.max_hp
  BY <1>3 DEF IInv, Healthy, GoodState, CombatantState
<1>6. Share(c.current_hp, out.ratio) \in Nat
  BY <1>4, <1>5, ShareNat
<1>7. paid \in 0..c.current_hp
  BY <1>4, <1>5, <1>6 DEF Smaller, Larger
<1> HIDE DEF c, paid
<1>8. c.current_hp - paid \in 0..c.max_hp
  BY <1>5, <1>7
<1>9. /\ GoodState(d) /\ d.current_hp = c.current_hp - paid /\ d.max_hp = c.max_hp
      /\ d.timed_max_health = c.timed_max_health
  BY <1>5, <1>8, HealthSet
<1> HIDE DEF d
<1>10. d.max_hp = states[out.recipient].max_hp
       /\ d.timed_max_health = states[out.recipient].timed_max_health
  BY <1>9 DEF c
<1>11. GrantsRunning'
  BY <1>1, <1>2, <1>3, <1>9, <1>10, GrantsRunOn
<1>12. paid \in Int
  BY <1>7
<1>13. Charged(out.recipient, -paid)
  BY <1>1, <1>3, <1>12, CostCharged DEF IInv
<1>14. -paid = d.current_hp - states[out.recipient].current_hp
  BY <1>5, <1>9, <1>12 DEF c
<1> QED
  BY <1>1, <1>2, <1>9, <1>11, <1>13, <1>14, HealthOutput

\* A grant of maximum health raises health and maximum alike and keeps the invariant.
LEMMA GrantMaxHealthStep ==
  ASSUME IInv, NEW out, GrantMaxHealth(out)
  PROVE  IInv'
<1> DEFINE c == states[out.recipient]
           g == [serial |-> serial, amount |-> out.amount, end |-> clock + out.duration]
           d == [c EXCEPT !.max_hp = @ + out.amount, !.current_hp = @ + out.amount,
                          !.timed_max_health = @ \cup {g}]
<1>1. /\ Processing(out, "MAX_HEALTH") /\ Becomes(out, d) /\ serial' = serial + 1
      /\ audit' = [audit EXCEPT ![out.recipient].granted = @ + out.amount]
  BY DEF GrantMaxHealth
<1>2. serial \in Nat /\ serial' \in Nat
  BY <1>1 DEF IInv, ReplayTyped
<1>3. out \in Outputs /\ out.kind = "MAX_HEALTH" /\ out.recipient \in Entities
      /\ clock \in Nat
  BY <1>1, <1>2, ProcessingTyped
<1>4. out.amount \in Nat \ {0} /\ out.duration \in Nat \ {0}
  BY <1>3 DEF Outputs
<1>5. GoodState(c) /\ c \in CombatantState /\ c.current_hp \in Int /\ c.max_hp \in Int
      /\ 0 <= c.current_hp /\ c.current_hp <= c.max_hp
  BY <1>3 DEF IInv, Healthy, GoodState, CombatantState
<1>6. g \in [serial : Nat, amount : Nat, end : Nat] /\ g.amount = out.amount
      /\ g.serial = serial
  BY <1>2, <1>3, <1>4
<1> HIDE DEF g
<1>7. d \in CombatantState
  <2>1. c.max_hp + out.amount \in Int /\ c.current_hp + out.amount \in Int
    BY <1>4, <1>5
  <2>2. c.timed_max_health \cup {g} \in SUBSET [serial : Nat, amount : Nat, end : Nat]
    BY <1>5, <1>6 DEF CombatantState
  <2> HIDE DEF c
  <2> QED
    BY <1>5, <2>1, <2>2 DEF CombatantState
<1>8. /\ d.current_hp = c.current_hp + out.amount /\ d.max_hp = c.max_hp + out.amount
      /\ d.timed_max_health = c.timed_max_health \cup {g}
      /\ d.stat_modifiers = c.stat_modifiers
  BY <1>5 DEF CombatantState
<1> HIDE DEF c, d
<1>9. GoodState(d)
  BY <1>4, <1>5, <1>7, <1>8 DEF GoodState
<1>10. \A x \in Entities : states'[x] = IF x = out.recipient THEN d ELSE states[x]
  BY <1>1, <1>3 DEF Becomes, IInv, Healthy
<1>11. GrantsRunning'
  <2> SUFFICES ASSUME NEW x \in Entities PROVE GrantsOf(x)'
    BY DEF GrantsRunning
  <2>1. GrantsOf(x) /\ \A h \in states[x].timed_max_health : h.serial \in Nat
    BY GrantSerials DEF IInv, GrantsRunning
  <2>2. CASE x # out.recipient
    BY <1>1, <1>2, <1>10, <2>1, <2>2 DEF GrantsOf
  <2>3. CASE x = out.recipient
    <3>1. PICK total \in Sums(c.timed_max_health) :
            c.max_hp = Roster[x].max_hp + total[c.timed_max_health]
      BY <2>1, <2>3 DEF GrantsOf, c
    <3>2. g \notin c.timed_max_health
      BY <1>2, <1>6, <2>1, <2>3 DEF GrantsOf, c
    <3>3. g.amount \in Nat
      BY <1>4, <1>6
    <3>4. PICK t \in Sums(c.timed_max_health \cup {g}) :
            t[c.timed_max_health \cup {g}] = total[c.timed_max_health] + g.amount
      BY <3>2, <3>3, GrantAdded
    <3>5. Roster[x].max_hp \in Nat /\ total[c.timed_max_health] \in Nat
      BY RosterAssumption DEF Combatants, Sums
    <3>6. states'[x].max_hp = Roster[x].max_hp + t[c.timed_max_health \cup {g}]
          /\ states'[x].timed_max_health = c.timed_max_health \cup {g}
      <4>1. states'[x] = d
        BY <1>10, <2>3
      <4> QED
        BY <4>1, <1>6, <1>8, <3>1, <3>3, <3>4, <3>5
    <3>7. \A h \in states'[x].timed_max_health : h.serial < serial'
      <4>1. \A h \in c.timed_max_health : h.serial < serial /\ h.serial \in Nat
        BY <2>1, <2>3 DEF GrantsOf, c
      <4> QED
        BY <1>1, <1>2, <1>6, <3>6, <4>1
    <3> QED
      BY <3>4, <3>6, <3>7 DEF GrantsOf
  <2> QED
    BY <2>2, <2>3
<1>12. Charged(out.recipient, out.amount)
  <2>1. out.amount \in Int
    BY <1>4
  <2> QED
    BY <1>1, <1>3, <2>1, GrantCharged DEF IInv
<1>13. out.amount = d.current_hp - states[out.recipient].current_hp
  BY <1>4, <1>5, <1>8 DEF c
<1> QED
  BY <1>1, <1>2, <1>9, <1>11, <1>12, <1>13, HealthOutput

\* What QuietOutput needs to know of the recipient's next state.
Quiet(c, d) ==
  /\ d \in CombatantState
  /\ d.current_hp = c.current_hp /\ d.max_hp = c.max_hp
  /\ d.timed_max_health = c.timed_max_health
  /\ \A s \in Stats \ ResistanceStats : \A g \in Groups :
       d.stat_modifiers[s][g].amount \in Nat

\* A change of anything but health, maximum and grants keeps what is said of them.
LEMMA QuietGood ==
  ASSUME NEW c, GoodState(c), NEW d, Quiet(c, d)
  PROVE  GoodState(d)
  BY DEF Quiet, GoodState

\* A resistance reduction keeps the invariant.
LEMMA ReduceResistanceStep ==
  ASSUME IInv, NEW out, ReduceResistance(out)
  PROVE  IInv'
<1> DEFINE c == states[out.recipient]
           stacks == Smaller(out.max_stacks, c.resistance_reductions[out.stat].stacks + 1)
           d == [c EXCEPT !.resistance_reductions[out.stat] =
                  [fraction |-> out.fraction, stacks |-> stacks, end |-> clock + out.duration]]
<1>1. /\ Processing(out, "RESISTANCE_REDUCTION") /\ Becomes(out, d)
      /\ serial' = serial /\ UNCHANGED audit
  BY DEF ReduceResistance
<1>2. out \in Outputs /\ out.kind = "RESISTANCE_REDUCTION" /\ out.recipient \in Entities
      /\ clock \in Nat /\ serial \in Nat
  BY <1>1, ProcessingTyped DEF IInv, ReplayTyped
<1>3. /\ out.stat \in ResistanceStats /\ out.fraction \in Nat
      /\ out.max_stacks \in Nat /\ out.duration \in Nat
  BY <1>2 DEF Outputs, Percent
<1>4. GoodState(c) /\ c \in CombatantState
  BY <1>2 DEF IInv, Healthy
<1>5. stacks \in Nat
  BY <1>3, <1>4 DEF CombatantState, Smaller
<1> DEFINE entry == [fraction |-> out.fraction, stacks |-> stacks,
                      end |-> clock + out.duration]
<1>6. entry \in [fraction : Nat, stacks : Nat, end : Nat]
  BY <1>2, <1>3, <1>5
<1> DEFINE reductions == [c.resistance_reductions EXCEPT ![out.stat] = entry]
<1>7. d = [c EXCEPT !.resistance_reductions = reductions]
  BY <1>4 DEF CombatantState
<1> HIDE DEF c, entry
<1>8. reductions \in [ResistanceStats -> [fraction : Nat, stacks : Nat, end : Nat]]
  BY <1>3, <1>4, <1>6 DEF CombatantState
<1> HIDE DEF reductions, d
<1>9. Quiet(c, d)
  BY <1>4, <1>7, <1>8 DEF CombatantState, Quiet, GoodState
<1> QED
  BY <1>1, <1>2, <1>4, <1>9, QuietGood, QuietOutput DEF Quiet, c

\* A status keeps the invariant.
LEMMA ApplyStatusStep ==
  ASSUME IInv, NEW out, ApplyStatus(out)
  PROVE  IInv'
<1> DEFINE c == states[out.recipient]
           end == clock + AdjustedDuration(c, out)
           kept == KeepsStronger(c, out)
           until == IF out.status = "HEALING_REDUCTION"
                      THEN Larger(end, c.statuses[out.status]) ELSE end
           strength == IF kept THEN c.status_magnitudes[out.status] ELSE out.magnitude
           by == IF kept THEN c.status_sources[out.status] ELSE event.source
           d == [c EXCEPT !.statuses[out.status] = until,
                          !.status_magnitudes[out.status] = strength,
                          !.status_sources[out.status] = by]
<1>1. /\ Processing(out, "STATUS") /\ Becomes(out, d)
      /\ serial' = serial /\ UNCHANGED audit
  BY DEF ApplyStatus
<1>2. out \in Outputs /\ out.kind = "STATUS" /\ out.recipient \in Entities
      /\ clock \in Nat /\ serial \in Nat /\ event \in Events
  BY <1>1, ProcessingTyped DEF IInv, ReplayTyped
<1>3. out.status \in Statuses /\ out.duration \in Nat /\ out.magnitude \in Nat
      /\ event.source \in Entities
  BY <1>2 DEF Outputs, Events
<1>4. GoodState(c) /\ c \in CombatantState
  BY <1>2 DEF IInv, Healthy
<1>5. AdjustedDuration(c, out) \in Nat
  <2>1. Percent - EffectiveTenacity(c, Roster[out.recipient].tenacity) \in Nat
    <3> DEFINE base == Roster[out.recipient].tenacity
               granted == c.stat_modifiers["TENACITY_PERCENT"]
               item == Percent - Share(Percent - base, Percent - granted["ITEM"].amount)
               total == item + granted["ABILITY"].amount
    <3>1. base \in Int
      BY <1>2, RosterAssumption DEF Combatants
    <3>2. granted["ITEM"].amount \in Nat /\ granted["ABILITY"].amount \in Nat
      BY <1>4, NamesDistinct DEF GoodState
    <3>3. Share(Percent - base, Percent - granted["ITEM"].amount) \in Int
      <4>1. Percent - base \in Int /\ Percent - granted["ITEM"].amount \in Int
        BY <3>1, <3>2 DEF Percent
      <4> QED
        BY <4>1, ShareInt
    <3>4. total \in Int
      BY <3>2, <3>3 DEF Percent
    <3>5. EffectiveTenacity(c, base) = Smaller(99, Larger(0, total))
      BY DEF EffectiveTenacity
    <3> HIDE DEF total
    <3> QED
      BY <3>4, <3>5 DEF Smaller, Larger, Percent
  <2>2. Share(out.duration, Percent - EffectiveTenacity(c, Roster[out.recipient].tenacity))
          \in Nat
    BY <1>3, <2>1, ShareNat
  <2> QED
    BY <1>3, <2>2 DEF AdjustedDuration, Larger
<1>6. until \in Nat /\ strength \in Nat /\ by \in Entities \cup {NoEntity}
  BY <1>2, <1>3, <1>4, <1>5 DEF CombatantState, Larger
<1> HIDE DEF c, until, strength, by
<1>7. Quiet(c, d)
  BY <1>3, <1>4, <1>6 DEF CombatantState, Quiet, GoodState
<1> QED
  BY <1>1, <1>2, <1>4, <1>7, QuietGood, QuietOutput DEF Quiet, c

\* The removal of statuses keeps the invariant.
LEMMA RemoveStatusStep ==
  ASSUME IInv, NEW out, RemoveStatus(out)
  PROVE  IInv'
<1> DEFINE c == states[out.recipient]
           d == Without(c, out.group)
<1>1. /\ Processing(out, "REMOVE_STATUS") /\ Becomes(out, d)
      /\ serial' = serial /\ UNCHANGED audit
  BY DEF RemoveStatus
<1>2. out.recipient \in Entities /\ serial \in Nat
  BY <1>1, ProcessingTyped DEF IInv, ReplayTyped
<1>3. GoodState(c)
  BY <1>2 DEF IInv, Healthy
<1>4. /\ GoodState(d) /\ d.current_hp = c.current_hp /\ d.max_hp = c.max_hp
      /\ d.timed_max_health = c.timed_max_health
  BY <1>3, WithoutGood
<1> QED
  BY <1>1, <1>2, <1>4, QuietOutput

\* A heal keeps the invariant.
LEMMA HealStep ==
  ASSUME IInv, NEW out, Heal(out)
  PROVE  IInv'
<1> DEFINE r == out.recipient
           c == states[r]
           base == out.amount + Share(Missing(c), out.ratio)
           power == Percent + Roster[event.source].heal_shield_power
           amount == Share(base, power)
           d == ReceiveHealing(c, amount)
<1>1. /\ Processing(out, "HEAL") /\ states' = [states EXCEPT ![r] = d]
      /\ RecordHealing(r, c, amount) /\ serial' = serial /\ UNCHANGED audit
  BY DEF Heal
<1>2. /\ out \in Outputs /\ out.kind = "HEAL" /\ r \in Entities /\ event \in Events
      /\ serial \in Nat /\ pc = "outputs" /\ pc' = "outputs"
      /\ ReplayTyped' /\ Striking' /\ DamageTyped' /\ DeathsTyped' /\ HorizonWithinTotal'
  BY <1>1, ProcessingTyped DEF IInv, ReplayTyped
<1>3. GoodState(c)
  BY <1>2 DEF IInv, Healthy
<1>4. amount \in Nat
  <2>1. out.amount \in Nat /\ out.ratio \in Nat
    BY <1>2 DEF Outputs, Percent
  <2>2. Missing(c) \in Nat
    BY <1>3 DEF Missing, Larger, GoodState, CombatantState
  <2>3. base \in Nat
    <3>1. Share(Missing(c), out.ratio) \in Nat
      BY <2>1, <2>2, ShareNat
    <3> QED
      BY <2>1, <3>1
  <2>4. event.source \in Entities
    BY <1>2 DEF Events
  <2>5. power \in Nat
    BY <2>4, RosterAssumption DEF Combatants, Percent
  <2> HIDE DEF base, power
  <2> QED
    BY <2>3, <2>5, ShareNat
<1> HIDE DEF amount
<1>5. /\ GoodState(d) /\ d.current_hp = c.current_hp + Restored(c, amount)
      /\ d.max_hp = c.max_hp /\ d.timed_max_health = c.timed_max_health
  BY <1>3, <1>4, HealingGood
<1> HIDE DEF d
<1>6. Healthy' /\ GrantsRunning'
  <2>1. serial' \in Nat /\ serial <= serial'
    BY <1>1, <1>2
  <2> QED
    BY <1>1, <1>2, <1>5, <2>1, OneBecomes DEF IInv
<1>7. HealingTyped' /\ AuditTyped'
  BY <1>1, <1>2, <1>3, <1>4, HealingRecorded DEF IInv, AuditTyped
<1>8. HealthAccounted'
  <2>1. \A x \in Entities \ {r} : states'[x].current_hp = states[x].current_hp
    BY <1>1 DEF IInv, Healthy
  <2>2. states'[r].current_hp = c.current_hp + Restored(c, amount)
    BY <1>1, <1>2, <1>5 DEF IInv, Healthy
  <2> HIDE DEF r
  <2> QED
    BY <1>1, <1>2, <1>3, <1>4, <1>6, <1>7, <2>1, <2>2, AccountHealed DEF IInv
<1>9. DamageSplit'
  BY <1>1, <1>2, SplitKept DEF IInv, Processing, damageBooks
<1> QED
  BY <1>2, <1>6, <1>7, <1>8, <1>9 DEF IInv

\* A shield, timed or not, keeps the invariant.
LEMMA GrantShieldStep ==
  ASSUME IInv, NEW out, GrantShield(out)
  PROVE  IInv'
<1> DEFINE c == states[out.recipient]
           increase == Percent + StatModifierTotal(c, "SHIELD_RECEIVED_INCREASE_PERCENT")
           power == Percent + Roster[event.source].heal_shield_power
           amount == Share(Share(out.amount, increase), power)
           granted == [ serial |-> serial, initial |-> amount, current |-> amount,
                        end |-> clock + out.duration, types |-> out.types,
                        decay_start |-> IF out.decay_delay = Forever THEN Forever
                                        ELSE clock + out.decay_delay ]
           d == [c EXCEPT !.shield = @ + amount]
           t == [c EXCEPT !.timed_shields = @ \cup {granted}]
<1>1. /\ Processing(out, "SHIELD")
      /\ IF out.duration = Forever THEN Becomes(out, d) ELSE Becomes(out, t)
      /\ serial' = serial + 1 /\ UNCHANGED audit
  BY DEF GrantShield
<1>2. serial \in Nat /\ serial' \in Nat
  BY <1>1 DEF IInv, ReplayTyped
<1>3. out \in Outputs /\ out.kind = "SHIELD" /\ out.recipient \in Entities
      /\ clock \in Nat /\ event \in Events
  BY <1>1, <1>2, ProcessingTyped
<1>4. /\ out.amount \in Nat /\ out.duration \in Nat /\ out.decay_delay \in Nat
      /\ out.types \in SUBSET DamageTypes /\ event.source \in Entities
  BY <1>3 DEF Outputs, Events
<1>5. GoodState(c) /\ c \in CombatantState
  BY <1>3 DEF IInv, Healthy
<1>6. amount \in Nat
  <2>1. StatModifierTotal(c, "SHIELD_RECEIVED_INCREASE_PERCENT") \in Nat
    BY <1>5, ModifierTotalNat, NamesDistinct
  <2>2. increase \in Nat
    BY <2>1 DEF Percent
  <2>3. power \in Nat
    BY <1>4, RosterAssumption DEF Combatants, Percent
  <2> HIDE DEF increase, power
  <2> QED
    BY <1>4, <2>2, <2>3, ShareNat
<1> HIDE DEF c, amount
<1>7. granted \in TimedShield
  BY <1>2, <1>3, <1>4, <1>6, TimeAssumption DEF TimedShield
<1> HIDE DEF granted
<1>8. Quiet(c, d)
  <2>1. c.shield + amount \in Nat
    BY <1>5, <1>6 DEF CombatantState
  <2> QED
    BY <1>5, <2>1 DEF CombatantState, Quiet, GoodState
<1>9. Quiet(c, t)
  <2>1. c.timed_shields \cup {granted} \in SUBSET TimedShield
    BY <1>5, <1>7 DEF CombatantState
  <2> QED
    BY <1>5, <2>1 DEF CombatantState, Quiet, GoodState
<1> HIDE DEF d, t
<1>10. PICK n \in {d, t} : Becomes(out, n)
  BY <1>1
<1>11. Quiet(c, n)
  BY <1>8, <1>9
<1> QED
  BY <1>1, <1>2, <1>5, <1>10, <1>11, QuietGood, QuietOutput DEF Quiet, c

\* A stat modifier keeps the invariant.
LEMMA ModifyStatStep ==
  ASSUME IInv, NEW out, ModifyStat(out)
  PROVE  IInv'
<1> DEFINE c == states[out.recipient]
           group == IF event.channel = "ITEM_ACTIVE" THEN "ITEM" ELSE "ABILITY"
           end == IF out.duration = Forever THEN Forever ELSE clock + out.duration
           granted == [amount |-> out.amount, end |-> end]
           d == [c EXCEPT !.stat_modifiers[out.stat][group] = granted]
<1>1. /\ Processing(out, "STAT_MODIFIER") /\ Becomes(out, d)
      /\ serial' = serial /\ UNCHANGED audit
  BY DEF ModifyStat
<1>2. out \in Outputs /\ out.kind = "STAT_MODIFIER" /\ out.recipient \in Entities
      /\ clock \in Nat /\ serial \in Nat
  BY <1>1, ProcessingTyped DEF IInv, ReplayTyped
<1>3. /\ out.stat \in Stats /\ out.amount \in Int /\ out.duration \in Nat
      /\ out.stat \notin ResistanceStats => out.amount \in Nat
  BY <1>2 DEF Outputs, Stats
<1>4. GoodState(c) /\ c \in CombatantState
  BY <1>2 DEF IInv, Healthy
<1>5. group \in Groups /\ end \in Nat
  BY <1>2, <1>3, TimeAssumption DEF Groups
<1> HIDE DEF c, group, end
<1>6. granted \in Modifier /\ granted.amount = out.amount
  BY <1>3, <1>5 DEF Modifier
<1> HIDE DEF granted
<1> DEFINE m == [c.stat_modifiers EXCEPT ![out.stat][group] = granted]
<1>7. m \in [Stats -> [Groups -> Modifier]]
  BY <1>3, <1>4, <1>5, <1>6 DEF CombatantState
<1>8. \A s \in Stats \ ResistanceStats : \A g \in Groups : m[s][g].amount \in Nat
  <2> SUFFICES ASSUME NEW s \in Stats \ ResistanceStats, NEW g \in Groups
               PROVE  m[s][g].amount \in Nat
    OBVIOUS
  <2>1. c.stat_modifiers \in [Stats -> [Groups -> Modifier]]
        /\ c.stat_modifiers[s][g].amount \in Nat
    BY <1>4 DEF GoodState, CombatantState
  <2>2. CASE s = out.stat /\ g = group
    BY <1>3, <1>6, <2>1, <2>2
  <2>3. CASE ~(s = out.stat /\ g = group)
    BY <2>1, <2>3
  <2> QED
    BY <2>2, <2>3
<1>9. d = [c EXCEPT !.stat_modifiers = m]
  BY <1>4 DEF CombatantState
<1> HIDE DEF m, d
<1>10. Quiet(c, d)
  BY <1>4, <1>7, <1>8, <1>9 DEF CombatantState, Quiet
<1> QED
  BY <1>1, <1>2, <1>4, <1>10, QuietGood, QuietOutput DEF Quiet, c

\* A new floor under health keeps the invariant.
LEMMA PreventDeathStep ==
  ASSUME IInv, NEW out, PreventDeath(out)
  PROVE  IInv'
<1> DEFINE c == states[out.recipient]
           w == [ floor |-> out.floor, end |-> clock + out.duration,
                  stasis |-> out.stasis, heal |-> out.heal ]
           d == [c EXCEPT !.death_preventions[out.key] = w]
<1>1. /\ Processing(out, "DEATH_PREVENTION") /\ Becomes(out, d)
      /\ serial' = serial /\ UNCHANGED audit
  BY DEF PreventDeath
<1>2. out \in Outputs /\ out.kind = "DEATH_PREVENTION" /\ out.recipient \in Entities
      /\ clock \in Nat /\ serial \in Nat
  BY <1>1, ProcessingTyped DEF IInv, ReplayTyped
<1>3. /\ out.key \in DeathKeys /\ out.floor \in Nat /\ out.duration \in Nat
      /\ out.stasis \in Nat /\ out.heal \in Nat
  BY <1>2 DEF Outputs
<1>4. GoodState(c) /\ c \in CombatantState
  BY <1>2 DEF IInv, Healthy
<1>5. w \in [floor : Nat, end : Nat, stasis : Nat, heal : Nat]
  BY <1>2, <1>3
<1> HIDE DEF c, w
<1> DEFINE windows == [c.death_preventions EXCEPT ![out.key] = w]
<1>6. windows \in [DeathKeys -> [floor : Nat, end : Nat, stasis : Nat, heal : Nat]]
  BY <1>3, <1>4, <1>5 DEF CombatantState
<1>7. d = [c EXCEPT !.death_preventions = windows]
  BY <1>4 DEF CombatantState
<1> HIDE DEF windows, d
<1>8. Quiet(c, d)
  BY <1>4, <1>6, <1>7 DEF CombatantState, Quiet, GoodState
<1> QED
  BY <1>1, <1>2, <1>4, <1>8, QuietGood, QuietOutput DEF Quiet, c

\* Losing health that is there, and consuming a window with a trigger when a floor
\* stopped the rest, leaves a good state.
LEMMA WoundedGood ==
  ASSUME NEW c, GoodState(c), NEW loss \in 0..c.current_hp, NEW stopped,
         clock \in Nat, serial \in Nat
  PROVE  /\ GoodState(Wounded(c, loss, stopped))
         /\ Wounded(c, loss, stopped).current_hp = c.current_hp - loss
         /\ Wounded(c, loss, stopped).max_hp = c.max_hp
         /\ Wounded(c, loss, stopped).timed_max_health = c.timed_max_health
<1> DEFINE h == c.current_hp - loss
           left == [c EXCEPT !.current_hp = h]
<1>1. h \in 0..c.max_hp
  BY DEF GoodState, CombatantState
<1>2. /\ GoodState(left) /\ left.current_hp = h /\ left.max_hp = c.max_hp
      /\ left.timed_max_health = c.timed_max_health
  BY <1>1, HealthSet
<1>3. Wounded(c, loss, stopped) =
        IF stopped > 0 THEN TriggerDeathPrevention(left, clock, serial) ELSE left
  BY DEF Wounded
<1> HIDE DEF left
<1> QED
  BY <1>2, <1>3, TriggerGood

\* An execute keeps the invariant, whether or not a floor stops it.
LEMMA ExecuteStep ==
  ASSUME IInv, NEW out, Execute(out)
  PROVE  IInv'
<1> DEFINE c == states[out.recipient]
           met == c.current_hp * Percent <= out.threshold * c.max_hp
           loss == IF met THEN HpLoss(c, c.current_hp) ELSE 0
           stopped == IF met THEN c.current_hp - loss ELSE 0
           d == Wounded(c, loss, stopped)
<1>1. /\ Processing(out, "EXECUTE") /\ Becomes(out, d) /\ serial' = serial + 1
      /\ audit' = [audit EXCEPT ![out.recipient].spent = @ + loss]
  BY DEF Execute
<1>2. serial \in Nat /\ serial' \in Nat /\ serial <= serial'
  BY <1>1 DEF IInv, ReplayTyped
<1>3. out.recipient \in Entities /\ clock \in Nat
  BY <1>1, <1>2, ProcessingTyped
<1>4. GoodState(c) /\ c.current_hp \in Nat
  BY <1>3 DEF IInv, Healthy, GoodState, CombatantState
<1>5. loss \in 0..c.current_hp
  BY <1>4, LossBounded
<1> HIDE DEF c, loss, stopped
<1>6. /\ GoodState(d) /\ d.current_hp = c.current_hp - loss /\ d.max_hp = c.max_hp
      /\ d.timed_max_health = c.timed_max_health
  BY <1>2, <1>3, <1>4, <1>5, WoundedGood
<1> HIDE DEF d
<1>7. d.max_hp = states[out.recipient].max_hp
      /\ d.timed_max_health = states[out.recipient].timed_max_health
  BY <1>6 DEF c
<1>8. GrantsRunning'
  BY <1>1, <1>2, <1>3, <1>6, <1>7, GrantsRunOn
<1>9. loss \in Int
  BY <1>5
<1>10. Charged(out.recipient, -loss)
  BY <1>1, <1>3, <1>9, CostCharged DEF IInv
<1>11. -loss = d.current_hp - states[out.recipient].current_hp
  BY <1>4, <1>6, <1>9 DEF c
<1> QED
  BY <1>1, <1>2, <1>6, <1>8, <1>10, <1>11, HealthOutput

-----------------------------------------------------------------------------
(* Damage *)

\* The raw amount of damage is natural, whichever of its three kinds it is.
LEMMA RawAmountNat ==
  ASSUME NEW out \in Outputs, out.kind \in DamageKinds, NEW c, GoodState(c)
  PROVE  RawAmount(out, c) \in Nat /\ out.type \in DamageTypes
<1>1. c.current_hp \in Nat /\ c.max_hp - c.current_hp \in Nat
  BY DEF GoodState, CombatantState
<1>2. CASE out.kind = "DAMAGE"
  <2>1. out.amount \in Nat /\ out.type \in DamageTypes
    BY <1>2 DEF Outputs
  <2> QED
    BY <1>2, <2>1 DEF RawAmount
<1>3. CASE out.kind = "CURRENT_HEALTH_DAMAGE"
  <2>1. out.ratio \in Nat /\ out.cap \in Nat /\ out.type \in DamageTypes
    BY <1>3 DEF Outputs, Percent
  <2>2. Share(c.current_hp, out.ratio) \in Nat
    BY <1>1, <2>1, ShareNat
  <2> QED
    BY <1>3, <2>1, <2>2 DEF RawAmount, Smaller
<1>4. CASE out.kind = "MISSING_HEALTH_DAMAGE"
  <2>1. out.amount \in Nat /\ out.ratio \in Nat /\ out.type \in DamageTypes
    BY <1>4 DEF Outputs, Percent
  <2>2. Share(c.max_hp - c.current_hp, out.ratio) \in Nat
    BY <1>1, <2>1, ShareNat
  <2> QED
    BY <1>4, <2>1, <2>2 DEF RawAmount
<1> QED
  BY <1>2, <1>3, <1>4 DEF DamageKinds

\* An increase that is not of a resistance keeps damage natural.
LEMMA IncreasedNat ==
  ASSUME NEW amount \in Nat, NEW c, GoodState(c), NEW stat \in Stats \ ResistanceStats
  PROVE  Increased(amount, c, stat) \in Nat
<1>1. StatModifierTotal(c, stat) \in Nat
  BY ModifierTotalNat
<1>2. Percent + StatModifierTotal(c, stat) \in Nat
  BY <1>1 DEF Percent
<1> QED
  BY <1>2, ShareNat DEF Increased

\* Factors and increases of both sides keep damage natural.
LEMMA ModifiedNat ==
  ASSUME NEW raw \in Nat, NEW out, NEW r, GoodState(r), NEW s, GoodState(s)
  PROVE  Modified(raw, out, r, s) \in Nat
<1> DEFINE struck == IF event.channel = "BASIC_ATTACK"
                       THEN Share(raw, StatModifierProduct(r, "BASIC_ATTACK_DAMAGE_MULTIPLIER"))
                       ELSE raw
           bare   == Share(struck, StatModifierProduct(r, "CHAMPION_DAMAGE_MULTIPLIER"))
           taken  == Increased(bare, r, "DAMAGE_TAKEN_INCREASE_PERCENT")
           magic  == IF out.type = "MAGIC"
                       THEN Increased(taken, r, "MAGIC_DAMAGE_TAKEN_INCREASE_PERCENT")
                       ELSE taken
           dealt  == Increased(magic, s, "DAMAGE_DEALT_INCREASE_PERCENT")
           full   == Increased(dealt, s, "ABILITY_AND_PASSIVE_DAMAGE_INCREASE_PERCENT")
<1>1. Modified(raw, out, r, s) = IF event.channel = "ABILITY" THEN full ELSE dealt
  BY DEF Modified
<1>2. /\ StatModifierProduct(r, "BASIC_ATTACK_DAMAGE_MULTIPLIER") \in Nat
      /\ StatModifierProduct(r, "CHAMPION_DAMAGE_MULTIPLIER") \in Nat
  BY NamesDistinct, ModifierProductNat
<1>3. struck \in Nat
  BY <1>2, ShareNat
<1> HIDE DEF struck
<1>4. bare \in Nat
  BY <1>2, <1>3, ShareNat
<1> HIDE DEF bare
<1>5. taken \in Nat
  BY <1>4, NamesDistinct, IncreasedNat
<1> HIDE DEF taken
<1>6. magic \in Nat
  BY <1>5, NamesDistinct, IncreasedNat
<1> HIDE DEF magic
<1>7. dealt \in Nat
  BY <1>6, NamesDistinct, IncreasedNat
<1> HIDE DEF dealt
<1>8. full \in Nat
  BY <1>7, NamesDistinct, IncreasedNat
<1> HIDE DEF full
<1> QED
  BY <1>1, <1>7, <1>8

\* A modifier window keeps damage natural.
LEMMA WindowedNat ==
  ASSUME NEW amount \in Nat, NEW out
  PROVE  Windowed(amount, out) \in Nat
<1>1. CASE Covering(out) = {}
  BY <1>1 DEF Windowed
<1>2. CASE Covering(out) # {}
  <2> DEFINE w == CHOOSE w \in Covering(out) : TRUE
  <2>1. w \in Windows
    BY <1>2 DEF Covering
  <2>2. w.multiplier \in Nat
    BY <2>1, WindowsAssumption DEF Percent
  <2>3. Windowed(amount, out) = Share(amount, w.multiplier)
    BY <1>2 DEF Windowed
  <2> HIDE DEF w
  <2> QED
    BY <2>2, <2>3, ShareNat
<1> QED
  BY <1>1, <1>2

\* Armor, magic resistance and penetration never turn damage negative.
LEMMA MitigatedNat ==
  ASSUME NEW amount \in Nat, NEW out \in Outputs, out.kind \in DamageKinds,
         out.type \in DamageTypes, Healthy, event \in Events
  PROVE  Mitigated(amount, out) \in Nat
<1> DEFINE r == out.recipient
           s == Roster[event.source]
           percent == IF out.kind = "DAMAGE" THEN out.percent_penetration ELSE 0
           flat == IF out.kind = "DAMAGE" THEN out.flat_penetration ELSE 0
<1>1. r \in Entities /\ event.source \in Entities
  BY RecipientsExist DEF Events
<1>2. /\ s.percent_armor_penetration \in Int /\ s.flat_armor_penetration \in Int
      /\ s.percent_magic_penetration \in Int /\ s.flat_magic_penetration \in Int
      /\ Roster[r].armor \in Int /\ Roster[r].magic_resistance \in Int
  BY <1>1, RosterAssumption DEF Combatants
<1>3. percent \in Int /\ flat \in Int
  BY DEF Outputs
<1>4. states[r] \in CombatantState
  BY <1>1 DEF Healthy
<1>5. CASE out.type = "TRUE"
  BY <1>5 DEF Mitigated
<1>6. CASE out.type = "PHYSICAL"
  <2> DEFINE e == EffectiveResistance(states[r], "ARMOR", Roster[r].armor)
             c == Combined(s.percent_armor_penetration, percent)
             f == s.flat_armor_penetration + flat
             p == Penetrated(e, c, f)
  <2>1. Mitigated(amount, out) = Resisted(amount, p)
    BY <1>6 DEF Mitigated
  <2>2. e \in Int
    BY <1>2, <1>4, ResistanceInt DEF ResistanceStats
  <2>3. c \in Int /\ f \in Int
    <3>1. s.percent_armor_penetration \in Int /\ s.flat_armor_penetration \in Int
      BY <1>2
    <3> HIDE DEF s, percent, flat
    <3>2. c \in Int
      BY <1>3, <3>1, CombinedInt
    <3>3. f \in Int
      BY <1>3, <3>1
    <3> QED
      BY <3>2, <3>3
  <2> HIDE DEF e, c, f
  <2>4. p \in Int
    BY <2>2, <2>3, PenetratedInt
  <2> HIDE DEF p
  <2> QED
    BY <2>1, <2>4, ResistedNat
<1>7. CASE out.type = "MAGIC"
  <2> DEFINE e == EffectiveResistance(states[r], "MAGIC_RESISTANCE", Roster[r].magic_resistance)
             c == Combined(s.percent_magic_penetration, percent)
             f == s.flat_magic_penetration + flat
             p == Penetrated(e, c, f)
  <2>1. Mitigated(amount, out) = Resisted(amount, p)
    BY <1>7 DEF Mitigated
  <2>2. e \in Int
    BY <1>2, <1>4, ResistanceInt DEF ResistanceStats
  <2>3. c \in Int /\ f \in Int
    <3>1. s.percent_magic_penetration \in Int /\ s.flat_magic_penetration \in Int
      BY <1>2
    <3> HIDE DEF s, percent, flat
    <3>2. c \in Int
      BY <1>3, <3>1, CombinedInt
    <3>3. f \in Int
      BY <1>3, <3>1
    <3> QED
      BY <3>2, <3>3
  <2> HIDE DEF e, c, f
  <2>4. p \in Int
    BY <2>2, <2>3, PenetratedInt
  <2> HIDE DEF p
  <2> QED
    BY <2>1, <2>4, ResistedNat
<1> QED
  BY <1>5, <1>6, <1>7 DEF DamageTypes

\* The damage after mitigation is natural.
LEMMA PostMitigationNat ==
  ASSUME NEW out \in Outputs, out.kind \in DamageKinds, Healthy, event \in Events
  PROVE  PostMitigation(out) \in Nat
<1> DEFINE r == states[out.recipient]
           s == states[event.source]
           raw == RawAmount(out, r)
           modified == Modified(raw, out, r, s)
           windowed == Windowed(modified, out)
<1>1. GoodState(r) /\ GoodState(s)
  BY RecipientsExist DEF Healthy, Events
<1>2. PostMitigation(out) = Mitigated(windowed, out)
  BY DEF PostMitigation
<1> HIDE DEF r, s
<1>3. raw \in Nat /\ out.type \in DamageTypes
  BY <1>1, RawAmountNat
<1> HIDE DEF raw
<1>4. modified \in Nat
  BY <1>1, <1>3, ModifiedNat
<1> HIDE DEF modified
<1>5. windowed \in Nat
  BY <1>4, WindowedNat
<1> HIDE DEF windowed
<1> QED
  BY <1>2, <1>3, <1>5, MitigatedNat

\* Health and the accounts of it are as before when only absorption and what floors
\* stopped are added to the audit.
LEMMA AccountUntouched ==
  ASSUME HealthAccounted, UNCHANGED healing_by_entity,
         \A e \in Entities : /\ states'[e].current_hp = states[e].current_hp
                             /\ audit'[e].granted = audit[e].granted
                             /\ audit'[e].lost = audit[e].lost
                             /\ audit'[e].spent = audit[e].spent
                             /\ audit'[e].clamped = audit[e].clamped
  PROVE  HealthAccounted'
  BY DEF HealthAccounted

\* Shields take from a hit what the audit says, and nothing else happens.
LEMMA AbsorptionStep ==
  ASSUME IInv, pc' = "absorb", todo # <<>>, UNCHANGED todo, hit'.remaining <= hit'.damage,
         Head(todo).kind \in DamageKinds, event \in Events,
         hit' \in [damage : Nat, remaining : Nat, visited : Nat],
         NEW out, out = Head(todo), NEW c, Becomes(out, c), NEW n \in Nat,
         Quiet(states[out.recipient], c),
         audit' = [audit EXCEPT ![out.recipient].absorbed = @ + n],
         hit'.damage - hit'.remaining =
           n + (IF pc = "absorb" THEN hit.damage - hit.remaining ELSE 0),
         UNCHANGED <<clock, event, waiting, blocked, fired, serial, damageBooks, results>>
  PROVE  IInv'
<1> USE DEF IInv
<1> DEFINE r == out.recipient
<1>1. out \in Outputs /\ r \in Entities
  BY RecipientsExist DEF ReplayTyped
<1>2. serial \in Nat /\ serial' \in Nat /\ serial <= serial' /\ clock \in Int
  BY BoundsAssumption DEF ReplayTyped
<1>3. states' = [states EXCEPT ![r] = c] /\ UnchangedHealing
  BY DEF Becomes
<1>4. GoodState(states[r])
  BY <1>1 DEF Healthy
<1>5. /\ GoodState(c) /\ c.max_hp = states[r].max_hp
      /\ c.timed_max_health = states[r].timed_max_health
      /\ c.current_hp = states[r].current_hp
  BY <1>4, QuietGood DEF Quiet
<1>6. Healthy' /\ GrantsRunning'
  BY <1>1, <1>2, <1>3, <1>5, OneBecomes
<1>7. ReplayTyped' /\ Striking'
  BY DEF ReplayTyped, Striking, Phases
<1>8. DamageTyped' /\ DeathsTyped' /\ HealingTyped' /\ HorizonWithinTotal'
  BY <1>2, <1>3, BooksKept, HealingKept, HorizonKept
<1>9. audit[r].absorbed \in Int
  BY <1>1 DEF AuditTyped, AuditEntry
<1>10. AuditTyped'
  <2>1. audit[r].absorbed + n \in Int
    BY <1>9
  <2> QED
    BY <2>1 DEF AuditTyped, AuditEntry
<1>11. \A e \in Entities : /\ audit'[e].granted = audit[e].granted
                           /\ audit'[e].lost = audit[e].lost
                           /\ audit'[e].spent = audit[e].spent
                           /\ audit'[e].clamped = audit[e].clamped
                           /\ audit'[e].stopped = audit[e].stopped
                           /\ audit'[e].absorbed =
                                IF e = r THEN audit[e].absorbed + n ELSE audit[e].absorbed
  BY DEF AuditTyped, AuditEntry
<1>12. HealthAccounted'
  <2>1. \A e \in Entities : states'[e].current_hp = states[e].current_hp
    BY <1>3, <1>5 DEF Healthy
  <2> QED
    BY <1>3, <1>11, <2>1, AccountUntouched DEF UnchangedHealing, healingBooks
<1>13. DamageSplit'
  <2> SUFFICES ASSUME NEW e \in Opponents
               PROVE  damage_by_target'[e] + InFlight(e)' =
                        audit'[e].lost + audit'[e].absorbed + audit'[e].stopped
    BY DEF DamageSplit
  <2>1. e \in Entities /\ damage_by_target'[e] = damage_by_target[e]
    BY SidesType DEF damageBooks
  <2>2. damage_by_target[e] + InFlight(e)
          = audit[e].lost + audit[e].absorbed + audit[e].stopped
    BY DEF DamageSplit
  <2>3. CASE e # r
    <3>1. InFlight(e) = 0 /\ InFlight(e)' = 0
      BY <2>3 DEF InFlight
    <3>2. /\ audit'[e].lost = audit[e].lost /\ audit'[e].stopped = audit[e].stopped
          /\ audit'[e].absorbed = audit[e].absorbed
      BY <1>11, <2>1, <2>3
    <3> QED
      BY <2>1, <2>2, <3>1, <3>2
  <2>4. CASE e = r
    <3> DEFINE a == audit[e].absorbed       an == audit'[e].absorbed
               l == audit[e].lost           s == audit[e].stopped
               b == damage_by_target[e]
               f == InFlight(e)             fn == InFlight(e)'
    <3>1. InFlight(e)' = n + InFlight(e)
      BY <2>4 DEF InFlight
    <3>2. InFlight(e) \in Int
      BY DEF InFlight, ReplayTyped
    <3>3. /\ a \in Int /\ l \in Int /\ s \in Int /\ b \in Int /\ f \in Int
      BY <2>1, <3>2 DEF AuditTyped, AuditEntry, DamageTyped
    <3>4. an = a + n /\ fn = n + f /\ b + f = l + a + s
      BY <1>11, <2>1, <2>2, <2>4, <3>1
    <3> HIDE DEF a, an, l, s, b, f, fn
    <3>5. b + fn = l + an + s
      BY <3>3, <3>4, Z3T(60)
    <3> QED
      BY <1>11, <2>1, <3>5 DEF a, an, l, s, b, f, fn
  <2> QED
    BY <2>3, <2>4
<1> QED
  BY <1>6, <1>7, <1>8, <1>10, <1>12, <1>13

\* The untimed shield takes its part of a new hit.
LEMMA StrikeShieldStep ==
  ASSUME IInv, NEW out, StrikeShield(out)
  PROVE  IInv'
<1> DEFINE c == states[out.recipient]
           damage == PostMitigation(out)
           absorbed == Smaller(c.shield, damage)
           d == [c EXCEPT !.shield = @ - absorbed, !.timed_shields = ActiveShields(c, clock)]
<1>1. /\ pc = "outputs" /\ todo # <<>> /\ out = Head(todo) /\ out.kind \in DamageKinds
      /\ Becomes(out, d) /\ pc' = "absorb"
      /\ hit' = [damage |-> damage, remaining |-> damage - absorbed, visited |-> 0]
      /\ audit' = [audit EXCEPT ![out.recipient].absorbed = @ + absorbed]
      /\ UNCHANGED <<clock, event, waiting, todo, blocked, fired, serial, damageBooks,
                     results>>
  BY DEF StrikeShield
<1>2. out \in Outputs /\ out.recipient \in Entities /\ event \in Events /\ clock \in Nat
  BY <1>1, RecipientsExist, BoundsAssumption DEF IInv, ReplayTyped, Striking
<1>3. GoodState(c) /\ c \in CombatantState /\ c.shield \in Nat
  BY <1>2 DEF IInv, Healthy, CombatantState
<1>4. damage \in Nat
  BY <1>1, <1>2, PostMitigationNat DEF IInv
<1> HIDE DEF c, damage
<1>5. absorbed \in Nat /\ absorbed <= damage /\ c.shield - absorbed \in Nat
  BY <1>3, <1>4 DEF Smaller
<1> HIDE DEF absorbed
<1>6. ActiveShields(c, clock) \in SUBSET TimedShield
  BY <1>2, <1>3, ShieldsLeft
<1>7. Quiet(c, d)
  BY <1>3, <1>5, <1>6 DEF CombatantState, Quiet, GoodState
<1> HIDE DEF d
<1>8. /\ hit' \in [damage : Nat, remaining : Nat, visited : Nat]
      /\ hit'.remaining <= hit'.damage
      /\ hit'.damage - hit'.remaining =
           absorbed + (IF pc = "absorb" THEN hit.damage - hit.remaining ELSE 0)
  BY <1>1, <1>4, <1>5
<1> QED
  BY <1>1, <1>2, <1>5, <1>7, <1>8, AbsorptionStep DEF c

\* The next shield that takes this damage takes its part.
LEMMA StrikeTimedShieldStep ==
  ASSUME IInv, StrikeTimedShield
  PROVE  IInv'
<1> DEFINE out == Head(todo)
           c == states[out.recipient]
           t == CHOOSE x \in Absorbing(out) : \A y \in Absorbing(out) : x.serial <= y.serial
           consumed == Taken(t)
           left == [t EXCEPT !.current = @ - consumed]
           d == [c EXCEPT !.timed_shields = (@ \ {t}) \cup {left}]
<1>1. /\ pc = "absorb" /\ pc' = pc /\ Absorbing(out) # {} /\ Becomes(out, d)
      /\ hit' = [hit EXCEPT !.remaining = @ - consumed, !.visited = t.serial]
      /\ audit' = [audit EXCEPT ![out.recipient].absorbed = @ + consumed]
      /\ UNCHANGED <<clock, event, waiting, todo, blocked, fired, serial, damageBooks,
                     results>>
  BY DEF StrikeTimedShield
<1>2. /\ todo # <<>> /\ out \in Outputs /\ out.kind \in DamageKinds
      /\ out.recipient \in Entities /\ event \in Events
  BY <1>1, RecipientsExist DEF IInv, ReplayTyped, Striking
<1>3. GoodState(c) /\ c \in CombatantState
  BY <1>2 DEF IInv, Healthy
<1>4. Absorbing(out) \subseteq TimedShield /\ Absorbing(out) \subseteq c.timed_shields
  BY <1>3 DEF Absorbing, CombatantState
<1>5. t \in Absorbing(out)
  <2> DEFINE S == {x.serial : x \in Absorbing(out)}
  <2>1. S \subseteq Nat /\ S # {}
    BY <1>1, <1>4 DEF TimedShield
  <2>2. PICK n \in S : \A m \in S : n <= m
    BY <2>1, LeastNatural
  <2>3. \E x \in Absorbing(out) : \A y \in Absorbing(out) : x.serial <= y.serial
    BY <2>2
  <2> QED
    BY <2>3
<1> HIDE DEF t
<1>6. t \in TimedShield /\ t.current \in Nat /\ t.serial \in Nat
  BY <1>4, <1>5 DEF TimedShield
<1>7. /\ hit \in [damage : Nat, remaining : Nat, visited : Nat]
      /\ hit.damage \in Nat /\ hit.remaining \in Nat /\ hit.remaining <= hit.damage
  BY <1>1 DEF IInv, ReplayTyped, Striking
<1>8. /\ consumed \in Nat /\ t.current - consumed \in Nat /\ hit.remaining - consumed \in Nat
      /\ consumed <= hit.remaining
  BY <1>6, <1>7 DEF Taken, Smaller
<1> HIDE DEF consumed
<1>9. left \in TimedShield
  BY <1>6, <1>8 DEF TimedShield
<1> HIDE DEF left
<1>10. Quiet(c, d)
  <2>1. (c.timed_shields \ {t}) \cup {left} \in SUBSET TimedShield
    BY <1>3, <1>9 DEF CombatantState
  <2> HIDE DEF c
  <2> QED
    BY <1>3, <2>1 DEF CombatantState, Quiet, GoodState
<1>11. /\ hit' \in [damage : Nat, remaining : Nat, visited : Nat]
       /\ hit'.damage = hit.damage /\ hit'.remaining = hit.remaining - consumed
  BY <1>1, <1>6, <1>7, <1>8
<1>12. /\ hit'.remaining <= hit'.damage
       /\ hit'.damage - hit'.remaining =
            consumed + (IF pc = "absorb" THEN hit.damage - hit.remaining ELSE 0)
  BY <1>1, <1>7, <1>8, <1>11
<1> HIDE DEF d
<1> QED
  BY <1>1, <1>2, <1>8, <1>10, <1>11, <1>12, AbsorptionStep DEF c

\* Healing by nothing restores nothing.
LEMMA NothingRestored ==
  ASSUME NEW c, GoodState(c)
  PROVE  Restored(c, 0) = 0
<1>1. Missing(c) \in Nat
  BY DEF Missing, Larger, GoodState, CombatantState
<1>2. \A f \in Int : Share(0, f) = 0
  BY DEF Share, Percent
<1>3. StatModifierTotal(c, "HEALING_RECEIVED_INCREASE_PERCENT") \in Nat
  BY ModifierTotalNat, NamesDistinct
<1>4. Amplified(c, 0) = 0
  <2>1. Percent + StatModifierTotal(c, "HEALING_RECEIVED_INCREASE_PERCENT") \in Int
    BY <1>3 DEF Percent
  <2> QED
    BY <1>2, <2>1 DEF Amplified
<1>5. Percent - HealingReduction(c) \in Int
  BY DEF HealingReduction, Smaller, Percent, GoodState, CombatantState, Statuses
<1>6. Share(Amplified(c, 0), Percent - HealingReduction(c)) = 0
  BY <1>2, <1>4, <1>5
<1> QED
  BY <1>1, <1>6 DEF Restored, Smaller

\* The share of damage that heals its source is natural.
LEMMA VampRatioNat ==
  ASSUME NEW out \in Outputs, out.kind \in DamageKinds, NEW s, GoodState(s),
         event \in Events
  PROVE  VampRatio(out, s) \in Nat
<1>1. Roster[event.source].omnivamp \in Nat /\ Roster[event.source].life_steal \in Nat
  BY RosterAssumption DEF Events, Combatants
<1>2. /\ StatModifierTotal(s, "OMNIVAMP") \in Nat
      /\ StatModifierTotal(s, "LIFESTEAL") \in Nat
      /\ StatModifierTotal(s, "ABILITY_VAMP") \in Nat
  BY NamesDistinct, ModifierTotalNat
<1>3. out.kind = "DAMAGE" => out.heal_ratio \in Nat
  BY DEF Outputs
<1> QED
  BY <1>1, <1>2, <1>3 DEF VampRatio

\* Recording damage keeps early damage a part of all damage.
LEMMA DamageRecorded ==
  ASSUME DamageTyped, HorizonWithinTotal, NEW r \in Entities, NEW s \in Entities,
         NEW damage \in Nat, RecordDamage(r, s, damage), clock' = clock, clock \in Nat
  PROVE  /\ DamageTyped' /\ HorizonWithinTotal'
         /\ \A e \in Opponents :
              damage_by_target'[e] =
                IF e = r THEN damage_by_target[e] + damage ELSE damage_by_target[e]
<1>1. CASE r \in Allies
  <2>1. UNCHANGED damageBooks
    BY <1>1 DEF RecordDamage
  <2>2. \A e \in Opponents : e # r
    BY <1>1, SidesAssumption
  <2> QED
    BY <2>1, <2>2, HorizonKept DEF DamageTyped, damageBooks
<1>2. CASE r \notin Allies
  <2> DEFINE early == InHorizon(damage)
  <2>1. r \in Opponents
    BY <1>2, SidesAssumption
  <2>2. early \in Nat /\ early <= damage /\ (clock <= Horizon => early = damage)
    BY BoundsAssumption DEF InHorizon
  <2>3. /\ damage_by_target' = [damage_by_target EXCEPT ![r] = @ + damage]
        /\ damage_by_source' = [damage_by_source EXCEPT ![s] = @ + damage]
        /\ horizon_damage_by_target' = [horizon_damage_by_target EXCEPT ![r] = @ + early]
        /\ horizon_damage_by_source' = [horizon_damage_by_source EXCEPT ![s] = @ + early]
    BY <1>2 DEF RecordDamage
  <2> HIDE DEF early
  <2>4. DamageTyped'
    BY <2>1, <2>2, <2>3 DEF DamageTyped
  <2>5. \A e \in Opponents : horizon_damage_by_target'[e] <= damage_by_target'[e]
    BY <2>1, <2>2, <2>3 DEF DamageTyped, HorizonWithinTotal
  <2>6. \A e \in Entities : horizon_damage_by_source'[e] <= damage_by_source'[e]
    BY <2>2, <2>3 DEF DamageTyped, HorizonWithinTotal
  <2>7. clock' <= Horizon => /\ horizon_damage_by_target' = damage_by_target'
                             /\ horizon_damage_by_source' = damage_by_source'
    BY <2>2, <2>3 DEF HorizonWithinTotal
  <2>8. HorizonWithinTotal'
    BY <2>5, <2>6, <2>7 DEF HorizonWithinTotal
  <2> QED
    BY <2>1, <2>3, <2>4, <2>8 DEF DamageTyped
<1> QED
  BY <1>1, <1>2

\* What the shields left takes health down to the floors, and the source heals.
LEMMA LoseHealthStep ==
  ASSUME IInv, LoseHealth
  PROVE  IInv'
<1> DEFINE out == Head(todo)
           r == out.recipient
           q == event.source
           c == states[r]
           s == states[q]
           loss == HpLoss(c, hit.remaining)
           stopped == hit.remaining - loss
           vamp == IF r = q \/ Dead(s) THEN 0 ELSE Share(hit.damage, VampRatio(out, s))
           w == Wounded(c, loss, stopped)
           n == IF r = q THEN w ELSE s
           d == ReceiveHealing(n, vamp)
<1>1. /\ pc = "absorb" /\ pc' = "outputs" /\ todo' = Tail(todo) /\ hit' = NoHit
      /\ serial' = serial + 1
      /\ states' = [[states EXCEPT ![r] = w] EXCEPT ![q] = ReceiveHealing(@, vamp)]
      /\ RecordHealing(q, s, vamp) /\ RecordDamage(r, q, hit.damage)
      /\ audit' = [audit EXCEPT ![r].lost = @ + loss, ![r].stopped = @ + stopped]
      /\ UNCHANGED <<clock, event, waiting, blocked, fired, results>>
  BY DEF LoseHealth
<1>2. /\ todo # <<>> /\ out \in Outputs /\ out.kind \in DamageKinds /\ event \in Events
      /\ todo \in Seq(Outputs)
  BY <1>1 DEF IInv, ReplayTyped, Striking
<1>3. r \in Entities /\ q \in Entities
  BY <1>2, RecipientsExist DEF Events
<1>4. /\ clock \in Nat /\ serial \in Nat /\ serial' \in Nat /\ serial <= serial'
      /\ hit.damage \in Nat /\ hit.remaining \in Nat /\ hit.remaining <= hit.damage
  BY <1>1, BoundsAssumption DEF IInv, ReplayTyped, Striking
<1>5. GoodState(c) /\ GoodState(s) /\ c.current_hp \in Nat /\ s.current_hp \in Nat
  BY <1>3 DEF IInv, Healthy, GoodState, CombatantState
<1>6. vamp \in Nat /\ (r = q => vamp = 0)
  <2>1. VampRatio(out, s) \in Nat
    BY <1>2, <1>5, VampRatioNat
  <2>2. Share(hit.damage, VampRatio(out, s)) \in Nat
    BY <1>4, <2>1, ShareNat
  <2> QED
    BY <2>2
<1>7. loss \in 0..c.current_hp /\ loss \in Nat /\ stopped \in Nat
      /\ loss + stopped = hit.remaining
  BY <1>4, <1>5, LossBounded
<1>8. states' = [[states EXCEPT ![r] = w] EXCEPT ![q] = d]
  BY <1>1, <1>3 DEF IInv, Healthy
<1> HIDE DEF out, vamp, loss, stopped
<1>9. /\ GoodState(w) /\ w.current_hp = c.current_hp - loss /\ w.max_hp = c.max_hp
      /\ w.timed_max_health = c.timed_max_health
  BY <1>4, <1>5, <1>7, WoundedGood
<1> HIDE DEF w
<1>10. GoodState(n)
  BY <1>5, <1>9
<1>11. /\ GoodState(d) /\ d.current_hp = n.current_hp + Restored(n, vamp)
       /\ d.max_hp = n.max_hp /\ d.timed_max_health = n.timed_max_health
  BY <1>6, <1>10, HealingGood
<1> HIDE DEF d
<1> DEFINE restored == Restored(s, vamp)
<1>12. restored \in Nat /\ (r = q => restored = 0) /\ d.current_hp = n.current_hp + restored
  <2>1. CASE r = q
    BY <1>5, <1>6, <1>10, <1>11, <2>1, NothingRestored
  <2>2. CASE r # q
    BY <1>5, <1>6, <1>11, <2>2, HealingGood
  <2> QED
    BY <2>1, <2>2
<1>13. /\ d.max_hp = s.max_hp /\ d.timed_max_health = s.timed_max_health
       /\ d.current_hp = s.current_hp - (IF r = q THEN loss ELSE 0) + restored
  <2>1. CASE r = q
    BY <1>5, <1>7, <1>9, <1>11, <1>12, <2>1
  <2>2. CASE r # q
    BY <1>5, <1>11, <1>12, <2>2
  <2> QED
    BY <2>1, <2>2
<1>14. \A x \in Entities :
         states'[x] = IF x = q THEN d ELSE IF x = r THEN w ELSE states[x]
  BY <1>8 DEF IInv, Healthy
<1> HIDE DEF n, restored
<1>15. Healthy'
  <2>1. d \in CombatantState /\ w \in CombatantState
    BY <1>9, <1>11 DEF GoodState
  <2>2. states' \in [Entities -> CombatantState]
    BY <1>8, <2>1 DEF IInv, Healthy
  <2> QED
    BY <1>9, <1>11, <1>14, <2>2 DEF IInv, Healthy
<1>16. GrantsRunning'
  <2>1. \A x \in Entities : /\ states'[x].max_hp = states[x].max_hp
                            /\ states'[x].timed_max_health = states[x].timed_max_health
    BY <1>9, <1>13, <1>14
  <2> QED
    BY <1>4, <2>1, GrantSerials, GrantsKept DEF IInv
<1>17. HealingTyped'
       /\ healing_by_entity' = [healing_by_entity EXCEPT ![q] = @ + restored]
  BY <1>1, <1>3, <1>5, <1>6, HealingRecorded DEF IInv, restored
<1>18. /\ DamageTyped' /\ HorizonWithinTotal'
       /\ \A e \in Opponents :
            damage_by_target'[e] =
              IF e = r THEN damage_by_target[e] + hit.damage ELSE damage_by_target[e]
  BY <1>1, <1>3, <1>4, DamageRecorded DEF IInv
<1>19. ReplayTyped' /\ Striking' /\ DeathsTyped'
  <2>1. Tail(todo) \in Seq(Outputs)
    BY <1>2
  <2>2. NoHit \in [damage : Nat, remaining : Nat, visited : Nat]
    BY DEF NoHit
  <2> QED
    BY <1>1, <1>2, <1>4, <2>1, <2>2
    DEF IInv, ReplayTyped, Striking, DeathsTyped, results, Phases
<1>20. AuditTyped'
       /\ \A e \in Entities :
            /\ audit'[e].granted = audit[e].granted /\ audit'[e].spent = audit[e].spent
            /\ audit'[e].clamped = audit[e].clamped
            /\ audit'[e].absorbed = audit[e].absorbed
            /\ audit'[e].lost = audit[e].lost + IF e = r THEN loss ELSE 0
            /\ audit'[e].stopped = audit[e].stopped + IF e = r THEN stopped ELSE 0
  <2>1. \A e \in Entities : audit[e] \in AuditEntry
    BY DEF IInv, AuditTyped
  <2>2. audit[r].lost + loss \in Int /\ audit[r].stopped + stopped \in Int
    BY <1>3, <1>7, <2>1 DEF AuditEntry
  <2> DEFINE entry == [audit[r] EXCEPT !.lost = @ + loss, !.stopped = @ + stopped]
  <2>3. audit' = [audit EXCEPT ![r] = entry]
    BY <1>1, <1>3, <2>1 DEF IInv, AuditTyped, AuditEntry
  <2>4. /\ entry \in AuditEntry
        /\ entry.granted = audit[r].granted /\ entry.spent = audit[r].spent
        /\ entry.clamped = audit[r].clamped /\ entry.absorbed = audit[r].absorbed
        /\ entry.lost = audit[r].lost + loss /\ entry.stopped = audit[r].stopped + stopped
    BY <1>3, <2>1, <2>2 DEF AuditEntry
  <2> HIDE DEF entry
  <2>5. AuditTyped'
    BY <2>3, <2>4 DEF IInv, AuditTyped
  <2>6. \A e \in Entities : audit'[e] = IF e = r THEN entry ELSE audit[e]
    BY <2>3 DEF IInv, AuditTyped
  <2>7. \A e \in Entities : audit[e].lost + 0 = audit[e].lost
                            /\ audit[e].stopped + 0 = audit[e].stopped
    BY <2>1 DEF AuditEntry
  <2> QED
    BY <2>4, <2>5, <2>6, <2>7
<1>21. HealthAccounted'
  <2> SUFFICES ASSUME NEW e \in Entities
               PROVE  states'[e].current_hp =
                        Roster[e].current_hp + healing_by_entity'[e] + audit'[e].granted
                        - audit'[e].lost - audit'[e].spent - audit'[e].clamped
    BY DEF HealthAccounted
  <2> DEFINE h == states[e].current_hp       hn == states'[e].current_hp
             b == Roster[e].current_hp
             i == healing_by_entity[e]       in == healing_by_entity'[e]
             g == audit[e].granted           l == audit[e].lost
             ln == audit'[e].lost            k == audit[e].spent
             m == audit[e].clamped
             less == IF e = r THEN loss ELSE 0
             more == IF e = q THEN restored ELSE 0
  <2>1. h = b + i + g - l - k - m
    BY DEF IInv, HealthAccounted
  <2>2. /\ h \in Int /\ b \in Int /\ i \in Int /\ g \in Int /\ l \in Int
        /\ k \in Int /\ m \in Int /\ less \in Int /\ more \in Int
    BY <1>7, <1>12, RosterAssumption
    DEF IInv, Combatants, Healthy, CombatantState, HealingTyped, AuditTyped, AuditEntry
  <2>3. in = i + more
    BY <1>17, <2>2 DEF IInv, HealingTyped
  <2>4. ln = l + less
    BY <1>20
  <2>5. hn = h - less + more
    <3>1. CASE e = q
      BY <1>13, <1>14, <3>1
    <3>2. CASE e # q /\ e = r
      <4>1. hn = h - loss
        BY <1>9, <1>14, <3>2
      <4> QED
        BY <2>2, <3>2, <4>1
    <3>3. CASE e # q /\ e # r
      <4>1. hn = h
        BY <1>14, <3>3
      <4> QED
        BY <2>2, <3>3, <4>1
    <3> QED
      BY <3>1, <3>2, <3>3
  <2>6. audit'[e].granted = g /\ audit'[e].spent = k /\ audit'[e].clamped = m
    BY <1>20
  <2> HIDE DEF h, hn, b, i, in, g, l, ln, k, m, less, more
  <2>7. hn = b + in + g - ln - k - m
    BY <2>1, <2>2, <2>3, <2>4, <2>5, Z3T(60)
  <2> QED
    BY <2>6, <2>7 DEF hn, b, in, ln
<1>22. DamageSplit'
  <2> SUFFICES ASSUME NEW e \in Opponents
               PROVE  damage_by_target'[e] + InFlight(e)' =
                        audit'[e].lost + audit'[e].absorbed + audit'[e].stopped
    BY DEF DamageSplit
  <2>1. e \in Entities
    BY SidesType
  <2> DEFINE b == damage_by_target[e]        bn == damage_by_target'[e]
             l == audit[e].lost              ln == audit'[e].lost
             p == audit[e].stopped           pn == audit'[e].stopped
             a == audit[e].absorbed
             damage == hit.damage            remaining == hit.remaining
  <2>2. /\ b \in Int /\ l \in Int /\ p \in Int /\ a \in Int
        /\ damage \in Int /\ remaining \in Int /\ bn \in Int
    BY <1>4, <1>18, <2>1 DEF IInv, DamageTyped, AuditTyped, AuditEntry
  <2>3. InFlight(e)' = 0
    BY <1>1 DEF InFlight
  <2>4. b + InFlight(e) = l + a + p
    BY DEF IInv, DamageSplit
  <2>5. audit'[e].absorbed = a
    BY <1>20, <2>1
  <2>6. CASE e = r
    <3>1. InFlight(e) = damage - remaining
      BY <1>1, <2>6 DEF InFlight, out
    <3>2. bn = b + damage /\ ln = l + loss /\ pn = p + stopped
      BY <1>18, <1>20, <2>1, <2>6
    <3>3. b + (damage - remaining) = l + a + p /\ loss + stopped = remaining
      BY <1>7, <2>4, <3>1
    <3> HIDE DEF b, bn, l, ln, p, pn, a, damage, remaining
    <3>4. bn + 0 = ln + a + pn
      BY <1>7, <2>2, <3>2, <3>3, Z3T(60)
    <3> QED
      BY <2>3, <2>5, <3>4 DEF bn, ln, pn
  <2>7. CASE e # r
    <3>1. InFlight(e) = 0
      BY <2>7 DEF InFlight, out
    <3>2. bn = b /\ ln = l /\ pn = p
      BY <1>18, <1>20, <2>1, <2>2, <2>7
    <3> QED
      BY <2>2, <2>3, <2>4, <2>5, <3>1, <3>2
  <2> QED
    BY <2>6, <2>7
<1> QED
  BY <1>15, <1>16, <1>17, <1>18, <1>19, <1>20, <1>21, <1>22 DEF IInv

-----------------------------------------------------------------------------
(* The end of an event, and the theorems *)

\* Recording deaths and the horizon snapshot keeps the invariant.
LEMMA EndEventStep ==
  ASSUME IInv, EndEvent
  PROVE  IInv'
<1> USE DEF IInv
<1>1. /\ pc = "outputs" /\ pc' = "ready" /\ blocked' = {}
      /\ death_ms_by_entity' = [e \in Entities |-> DeathTime(e)]
      /\ UNCHANGED <<states, clock, event, waiting, todo, hit, fired, serial, damageBooks,
                     healingBooks, audit>>
  BY DEF EndEvent, UnchangedHealing
<1>2. clock \in 0..Duration /\ clock \in Int /\ serial \in Nat
  BY BoundsAssumption DEF ReplayTyped
<1>3. ReplayTyped' /\ Striking'
  BY <1>1 DEF ReplayTyped, Striking, Phases
<1>4. DeathsTyped'
  <2>1. \A e \in Entities : DeathTime(e) \in 0..NotDead
    BY <1>2, BoundsAssumption DEF DeathTime, DeathsTyped, NotDead
  <2> QED
    BY <1>1, <2>1 DEF DeathsTyped, NotDead
<1>5. Healthy' /\ GrantsRunning'
  BY <1>1, <1>2, StatesKept
<1>6. DamageTyped' /\ HealingTyped' /\ AuditTyped'
  BY <1>1, HealingKept DEF UnchangedHealing, AuditTyped, DamageTyped, damageBooks
<1>7. HealthAccounted'
  BY <1>1, AccountKept DEF healingBooks
<1>8. DamageSplit'
  BY <1>1, SplitKept, SidesType DEF damageBooks
<1>9. HorizonWithinTotal'
  BY <1>1, <1>2, HorizonKept
<1> QED
  BY <1>3, <1>4, <1>5, <1>6, <1>7, <1>8, <1>9

\* The invariant says nothing of anything but the variables.
LEMMA StutterStep ==
  ASSUME IInv, UNCHANGED vars
  PROVE  IInv'
<1> USE DEF IInv, vars, replay, damageBooks, healingBooks, results
<1>1. Healthy' /\ GrantsRunning'
  BY StatesKept DEF ReplayTyped
<1>2. ReplayTyped' /\ Striking'
  BY DEF ReplayTyped, Striking
<1>3. DamageTyped' /\ HealingTyped' /\ DeathsTyped' /\ AuditTyped'
  BY DEF DamageTyped, HealingTyped, DeathsTyped, AuditTyped
<1>4. HealthAccounted' /\ DamageSplit' /\ HorizonWithinTotal'
  BY DEF HealthAccounted, DamageSplit, InFlight, HorizonWithinTotal
<1> QED
  BY <1>1, <1>2, <1>3, <1>4

\* Every step of the replay keeps the invariant.
LEMMA NextPreserves ==
  ASSUME IInv, [Next]_vars
  PROVE  IInv'
<1>1. CASE UNCHANGED vars
  BY <1>1, StutterStep
<1>2. CASE \E a \in Actions, at \in 0..Duration : NextEvent(a, at)
  BY <1>2, NextEventStep
<1>3. CASE BringUpToDate
  BY <1>3, AccrueRegenerationStep, ReleasePendingHealStep, ExpireStep, ExpireMaxHealthStep
  DEF BringUpToDate
<1>4. CASE SkipEvent \/ StartEvent \/ Conclude
  BY <1>4, ControlSteps
<1>5. CASE ConsumeSpellShield
  BY <1>5, ConsumeSpellShieldStep
<1>6. CASE ProcessOutputs
  <2> DEFINE out == Head(todo)
  <2>1. CASE SkipOutput
    BY <2>1, ControlSteps
  <2>2. CASE Revive(out) \/ PayHealth(out) \/ GrantMaxHealth(out)
    BY <2>2, ReviveStep, PayHealthStep, GrantMaxHealthStep
  <2>3. CASE ReduceResistance(out) \/ ApplyStatus(out) \/ RemoveStatus(out)
    BY <2>3, ReduceResistanceStep, ApplyStatusStep, RemoveStatusStep
  <2>4. CASE Heal(out) \/ GrantShield(out) \/ ModifyStat(out)
    BY <2>4, HealStep, GrantShieldStep, ModifyStatStep
  <2>5. CASE PreventDeath(out) \/ Execute(out) \/ StrikeShield(out)
    BY <2>5, PreventDeathStep, ExecuteStep, StrikeShieldStep
  <2>6. CASE StrikeTimedShield
    BY <2>6, StrikeTimedShieldStep
  <2>7. CASE LoseHealth
    BY <2>7, LoseHealthStep
  <2> QED
    BY <1>6, <2>1, <2>2, <2>3, <2>4, <2>5, <2>6, <2>7 DEF ProcessOutputs
<1>7. CASE EndEvent
  BY <1>7, EndEventStep
<1>8. CASE Finish
  BY <1>8, FinishStep
<1>9. CASE Returned
  BY <1>9, StutterStep DEF Returned
<1> QED
  BY <1>1, <1>2, <1>3, <1>4, <1>5, <1>6, <1>7, <1>8, <1>9 DEF Next

\* The invariant holds in every reachable state of every encounter.
THEOREM Invariant == Spec => []IInv
  BY InitEstablishes, NextPreserves, PTL DEF Spec

\* Every variable keeps its type: no sequence of outputs leaves a negative shield,
\* absorbs more than a hit deals, or replays past the end of the encounter.
THEOREM TypeCorrect == Spec => []TypeOK
<1>1. IInv => TypeOK
  BY IInvImplies
<1> QED
  BY <1>1, Invariant, PTL

\* Health stays between zero and a positive maximum, for every roster and schedule.
THEOREM HealthIsBounded == Spec => []HealthBounded
<1>1. IInv => HealthBounded
  BY IInvImplies
<1> QED
  BY <1>1, Invariant, PTL

\* No change of health goes unreported.
THEOREM HealthIsAccounted == Spec => []HealthAccounted
<1>1. IInv => HealthAccounted
  BY DEF IInv
<1> QED
  BY <1>1, Invariant, PTL

\* Damage credited on an opponent was lost, absorbed or stopped, exactly once.
THEOREM DamageIsSplit == Spec => []DamageSplit
<1>1. IInv => DamageSplit
  BY DEF IInv
<1> QED
  BY <1>1, Invariant, PTL

\* Early damage is part of all damage.
THEOREM HorizonIsWithinTotal == Spec => []HorizonWithinTotal
<1>1. IInv => HorizonWithinTotal
  BY DEF IInv
<1> QED
  BY <1>1, Invariant, PTL

=============================================================================
