------------------------ MODULE TimelineResultProofs ------------------------
(***************************************************************************)
(* What a replay does to each participant from one step to the next, and   *)
(* what follows for the result: the ledgers, the times of death, who dies  *)
(* and who lives again, and what is still in force when an event acts.     *)
(***************************************************************************)
EXTENDS TimelineProofs, SumsOverSets

-----------------------------------------------------------------------------
(* The fate of a participant in one step: c before, d after *)

\* Healing is reduced only by a status that someone applied.
Credited(c) == Reducer(c) = NoEntity => c.status_magnitudes["HEALING_REDUCTION"] = 0

\* Nothing that the expire methods remove has run out.
EffectsCurrent(c, now) ==
  /\ \A s \in Statuses : HasStatus(c, s) => now < c.statuses[s]
  /\ \A t \in c.timed_shields : now < t.end
  /\ \A s \in ResistanceStats : c.resistance_reductions[s].stacks > 0
       => now < c.resistance_reductions[s].end
  /\ \A s \in Stats, g \in Groups : c.stat_modifiers[s][g].amount # 0
       => now < c.stat_modifiers[s][g].end
  /\ \A k \in DeathKeys : c.death_preventions[k].floor > 0
       => now < c.death_preventions[k].end

GrantsCurrent(c, now) == \A g \in c.timed_max_health : now < g.end

\* A healing reduction that lasts is replaced only by one as strong and as long.
Strengthens(c, d) ==
  LET w == "HEALING_REDUCTION"
  IN  HasStatus(c, w) /\ HasStatus(d, w) =>
        /\ d.status_magnitudes[w] >= c.status_magnitudes[w]
        /\ d.statuses[w] >= c.statuses[w]
        /\ d.status_sources[w] # c.status_sources[w] =>
             /\ Head(todo).magnitude = d.status_magnitudes[w]
             /\ d.status_sources[w] = event.source

\* A REVIVE output, or the heal that travels with a spell shield, gives life.
Revives(c) ==
  \/ pc = "outputs" /\ todo # <<>> /\ Head(todo).kind = "REVIVE"
  \/ pc = "block" /\ HasStatus(c, "SPELL_SHIELD_HEAL")

\* Damage and executes kill one whom no floor holds, and so does a health cost
\* without a floor of its own.
Kills(c) ==
  /\ pc \in {"outputs", "absorb"} /\ todo # <<>>
  /\ \/ \A k \in DeathKeys : c.death_preventions[k].floor = 0
     \/ Head(todo).kind = "HEALTH_COST" /\ Head(todo).floor = 0

\* The heal of a spell shield is granted by a STATUS output.
GrantsShieldHeal ==
  /\ pc = "outputs" /\ todo # <<>>
  /\ Head(todo).kind = "STATUS" /\ Head(todo).status = "SPELL_SHIELD_HEAL"

Fate(c, d) ==
  /\ Credited(c) => Credited(d)
  /\ IsFiniteSet(c.timed_max_health) => IsFiniteSet(d.timed_max_health)
  /\ EffectsCurrent(c, clock) => EffectsCurrent(d, clock)
  /\ GrantsCurrent(c, clock) => GrantsCurrent(d, clock)
  /\ pc # "accrue" => d.regen_accrued_ms = c.regen_accrued_ms
  /\ Strengthens(c, d)
  /\ Dead(c) /\ ~Dead(d) => Revives(c)
  /\ ~Dead(c) /\ Dead(d) => Kills(c)
  /\ HasStatus(d, "SPELL_SHIELD_HEAL") =>
       HasStatus(c, "SPELL_SHIELD_HEAL") \/ GrantsShieldHeal

\* What a participant lives and dies by.
Life(c, d) ==
  /\ Dead(c) /\ ~Dead(d) => Revives(c)
  /\ ~Dead(c) /\ Dead(d) => Kills(c)

SameStatuses(c, d) ==
  /\ d.statuses = c.statuses
  /\ d.status_magnitudes = c.status_magnitudes
  /\ d.status_sources = c.status_sources

SameEffects(c, d) ==
  /\ d.resistance_reductions = c.resistance_reductions
  /\ d.stat_modifiers = c.stat_modifiers
  /\ d.death_preventions = c.death_preventions

\* Statuses that stay reduce healing as before.
LEMMA StatusesStay ==
  ASSUME NEW c, c \in CombatantState, NEW d, SameStatuses(c, d)
  PROVE  /\ Credited(c) => Credited(d)
         /\ Strengthens(c, d)
         /\ HasStatus(d, "SPELL_SHIELD_HEAL") => HasStatus(c, "SPELL_SHIELD_HEAL")
  BY DEF SameStatuses, Credited, Reducer, Strengthens, HasStatus, CombatantState, Statuses

\* A change of health, shields, heals awaited and regeneration only.
LEMMA HealthFate ==
  ASSUME NEW c, c \in CombatantState, NEW d, SameStatuses(c, d), SameEffects(c, d),
         d.timed_max_health = c.timed_max_health,
         pc # "accrue" => d.regen_accrued_ms = c.regen_accrued_ms,
         EffectsCurrent(c, clock) => \A t \in d.timed_shields : clock < t.end,
         Life(c, d)
  PROVE  Fate(c, d)
<1>1. EffectsCurrent(c, clock) => EffectsCurrent(d, clock)
  BY DEF EffectsCurrent, SameStatuses, SameEffects, HasStatus
<1>2. GrantsCurrent(c, clock) => GrantsCurrent(d, clock)
  BY DEF GrantsCurrent
<1> QED
  BY <1>1, <1>2, StatusesStay DEF Fate, Life

\* Nothing happens to a participant that a step leaves alone.
LEMMA NoFate ==
  ASSUME NEW c, c \in CombatantState
  PROVE  Fate(c, c)
<1>1. SameStatuses(c, c) /\ SameEffects(c, c) /\ Life(c, c)
  BY DEF SameStatuses, SameEffects, Life
<1>2. EffectsCurrent(c, clock) => \A t \in c.timed_shields : clock < t.end
  BY DEF EffectsCurrent
<1> QED
  BY <1>1, <1>2, HealthFate

\* receive_healing changes nothing but health.
LEMMA HealingKeeps ==
  ASSUME NEW c, GoodState(c), NEW amount \in Nat
  PROVE  LET d == ReceiveHealing(c, amount)
         IN  /\ SameStatuses(c, d) /\ SameEffects(c, d)
             /\ d.timed_max_health = c.timed_max_health
             /\ d.regen_accrued_ms = c.regen_accrued_ms
             /\ d.timed_shields = c.timed_shields
             /\ d.pending_heals = c.pending_heals
             /\ ~Dead(c) => ~Dead(d)
             /\ amount = 0 => d.current_hp = c.current_hp
<1> DEFINE d == ReceiveHealing(c, amount)
<1>1. c \in CombatantState /\ c.current_hp \in Int
  BY DEF GoodState, CombatantState
<1>2. d = [c EXCEPT !.current_hp = @ + Restored(c, amount)]
  BY DEF ReceiveHealing
<1>3. /\ SameStatuses(c, d) /\ SameEffects(c, d)
      /\ d.timed_max_health = c.timed_max_health
      /\ d.regen_accrued_ms = c.regen_accrued_ms
      /\ d.timed_shields = c.timed_shields
      /\ d.pending_heals = c.pending_heals
  <2> HIDE DEF d
  <2> QED BY <1>1, <1>2 DEF SameStatuses, SameEffects, CombatantState
<1>4. Restored(c, amount) \in Nat /\ d.current_hp = c.current_hp + Restored(c, amount)
  BY HealingGood
<1>5. amount = 0 => Restored(c, amount) = 0
  BY NothingRestored
<1> QED
  BY <1>1, <1>3, <1>4, <1>5 DEF Dead

\* A heal restores no dead participant unless it is given to one.
LEMMA HealedFate ==
  ASSUME NEW c, GoodState(c), NEW amount \in Nat,
         Dead(c) => amount = 0 \/ Revives(c)
  PROVE  Fate(c, ReceiveHealing(c, amount))
<1> DEFINE d == ReceiveHealing(c, amount)
<1>1. c \in CombatantState
  BY DEF GoodState
<1>2. /\ SameStatuses(c, d) /\ SameEffects(c, d)
      /\ d.timed_max_health = c.timed_max_health
      /\ d.regen_accrued_ms = c.regen_accrued_ms
      /\ d.timed_shields = c.timed_shields
      /\ ~Dead(c) => ~Dead(d)
      /\ amount = 0 => d.current_hp = c.current_hp
  BY HealingKeeps
<1> HIDE DEF d
<1>3. Life(c, d)
  BY <1>2 DEF Life, Dead
<1>4. EffectsCurrent(c, clock) => \A t \in d.timed_shields : clock < t.end
  BY <1>2 DEF EffectsCurrent
<1>5. Fate(c, d)
  BY <1>1, <1>2, <1>3, <1>4, HealthFate
<1> QED
  BY <1>5 DEF d

\* A step that changes one participant is the fate of all.
LEMMA FateOfOne ==
  ASSUME Healthy, NEW r \in Entities, NEW d, states' = [states EXCEPT ![r] = d],
         Fate(states[r], d)
  PROVE  \A e \in Entities : Fate(states[e], states'[e])
<1>1. \A e \in Entities : states[e] \in CombatantState
  BY DEF Healthy
<1>2. \A e \in Entities : states'[e] = IF e = r THEN d ELSE states[e]
  BY DEF Healthy
<1> QED
  BY <1>1, <1>2, NoFate

\* A step that changes no participant.
LEMMA FateOfNone ==
  ASSUME Healthy, states' = states
  PROVE  \A e \in Entities : Fate(states[e], states'[e])
  BY NoFate DEF Healthy

-----------------------------------------------------------------------------
(* Bringing the participants up to date *)

\* Regeneration brings nobody back.
LEMMA AccrueFate ==
  ASSUME IInv, AccrueRegeneration
  PROVE  \A e \in Entities : Fate(states[e], states'[e])
<1> DEFINE e == CHOOSE x \in waiting : TRUE
           c == states[e]
           amount == Regeneration(c, Roster[e].health_regen, clock)
           b == ReceiveHealing(c, amount)
           d == [b EXCEPT !.regen_accrued_ms = Larger(@, clock)]
<1>1. e \in Entities /\ pc = "accrue" /\ states' = [states EXCEPT ![e] = d]
  <2>1. e \in Entities
    BY DEF AccrueRegeneration, IInv, ReplayTyped
  <2>2. pc = "accrue" /\ states' = [states EXCEPT ![e] = d]
    BY DEF AccrueRegeneration
  <2> QED BY <2>1, <2>2
<1> HIDE DEF e
<1>2. GoodState(c) /\ c \in CombatantState /\ clock \in Nat /\ c.regen_accrued_ms \in Nat
  <2>1. GoodState(c) /\ c \in CombatantState
    BY <1>1 DEF IInv, Healthy
  <2>2. clock \in Nat
    BY BoundsAssumption DEF IInv, ReplayTyped
  <2> HIDE DEF c
  <2> QED
    BY <2>1, <2>2 DEF CombatantState
<1>3. amount \in Nat /\ (Dead(c) => amount = 0)
  <2>1. Roster[e].health_regen \in Nat
    BY <1>1, RosterAssumption DEF Combatants
  <2> QED
    BY <1>2, <2>1, ProductNat DEF Regeneration
<1>4. GoodState(b) /\ Fate(c, b) /\ SameStatuses(c, b) /\ SameEffects(c, b)
      /\ b.timed_max_health = c.timed_max_health /\ b.timed_shields = c.timed_shields
  BY <1>2, <1>3, HealingGood, HealingKeeps, HealedFate
<1> HIDE DEF c, amount, b
<1>5. /\ d.statuses = b.statuses /\ d.status_magnitudes = b.status_magnitudes
      /\ d.status_sources = b.status_sources
      /\ d.resistance_reductions = b.resistance_reductions
      /\ d.stat_modifiers = b.stat_modifiers /\ d.death_preventions = b.death_preventions
      /\ d.timed_max_health = b.timed_max_health /\ d.timed_shields = b.timed_shields
      /\ d.current_hp = b.current_hp
  BY <1>4 DEF GoodState, CombatantState
<1>6. Fate(c, d)
  <2> HIDE DEF d
  <2>1. SameStatuses(c, d) /\ SameEffects(c, d)
        /\ d.timed_max_health = c.timed_max_health
    BY <1>4, <1>5 DEF SameStatuses, SameEffects
  <2>2. Life(c, d)
    BY <1>4, <1>5 DEF Fate, Life, Dead
  <2>3. EffectsCurrent(c, clock) => \A t \in d.timed_shields : clock < t.end
    BY <1>4, <1>5 DEF EffectsCurrent
  <2> QED
    BY <1>1, <1>2, <2>1, <2>2, <2>3, HealthFate
<1> HIDE DEF d
<1> QED
  BY <1>1, <1>6, FateOfOne DEF IInv, c

\* The heal of a consumed window brings nobody back.
LEMMA ReleaseFate ==
  ASSUME IInv, NEW e \in Entities, ReleasePendingHeal(e)
  PROVE  \A x \in Entities : Fate(states[x], states'[x])
<1> DEFINE c == states[e]
           h == FirstDue(DueHeals(c, clock))
           amount == IF Dead(c) THEN 0 ELSE h.amount
           b == ReceiveHealing(c, amount)
           d == [b EXCEPT !.pending_heals = @ \ {h}]
<1>1. states' = [states EXCEPT ![e] = d] /\ DueHeals(c, clock) # {}
  BY DEF ReleasePendingHeal
<1>2. GoodState(c) /\ c \in CombatantState
  BY DEF IInv, Healthy
<1>3. amount \in Nat /\ (Dead(c) => amount = 0)
  <2>1. DueHeals(c, clock) \subseteq [serial : Nat, due : Nat, amount : Nat]
    BY <1>2 DEF DueHeals, CombatantState
  <2>2. h \in DueHeals(c, clock)
    BY <1>1, <2>1, FirstDueIn
  <2> HIDE DEF h
  <2> QED
    BY <2>1, <2>2
<1>4. GoodState(b) /\ Fate(c, b) /\ SameStatuses(c, b) /\ SameEffects(c, b)
      /\ b.timed_max_health = c.timed_max_health /\ b.timed_shields = c.timed_shields
      /\ b.regen_accrued_ms = c.regen_accrued_ms
  BY <1>2, <1>3, HealingGood, HealingKeeps, HealedFate
<1> HIDE DEF c, h, amount, b
<1>5. /\ d.statuses = b.statuses /\ d.status_magnitudes = b.status_magnitudes
      /\ d.status_sources = b.status_sources
      /\ d.resistance_reductions = b.resistance_reductions
      /\ d.stat_modifiers = b.stat_modifiers /\ d.death_preventions = b.death_preventions
      /\ d.timed_max_health = b.timed_max_health /\ d.timed_shields = b.timed_shields
      /\ d.current_hp = b.current_hp /\ d.regen_accrued_ms = b.regen_accrued_ms
  BY <1>4 DEF GoodState, CombatantState
<1>6. Fate(c, d)
  <2> HIDE DEF d
  <2>1. SameStatuses(c, d) /\ SameEffects(c, d)
        /\ d.timed_max_health = c.timed_max_health
    BY <1>4, <1>5 DEF SameStatuses, SameEffects
  <2>2. Life(c, d)
    BY <1>4, <1>5 DEF Fate, Life, Dead
  <2>3. EffectsCurrent(c, clock) => \A t \in d.timed_shields : clock < t.end
    BY <1>4, <1>5 DEF EffectsCurrent
  <2> QED
    BY <1>2, <1>4, <1>5, <2>1, <2>2, <2>3, HealthFate
<1> HIDE DEF d
<1> QED
  BY <1>1, <1>6, FateOfOne DEF IInv, c

\* What is left by the expire methods has not run out.
LEMMA ExpiredCurrent ==
  ASSUME NEW c, c \in CombatantState, NEW now \in Nat
  PROVE  EffectsCurrent(ExpireEffects(c, now), now)
<1> DEFINE d == ExpireEffects(c, now)
<1>1. /\ d.statuses = [s \in Statuses |-> IF StillHas(c, s, now) THEN c.statuses[s] ELSE Absent]
      /\ d.timed_shields = ActiveShields(c, now)
      /\ d.resistance_reductions = [s \in ResistanceStats |->
           IF now < c.resistance_reductions[s].end
             THEN c.resistance_reductions[s] ELSE NoReduction]
      /\ d.stat_modifiers = [s \in Stats |-> [g \in Groups |->
           IF now < c.stat_modifiers[s][g].end THEN c.stat_modifiers[s][g] ELSE NoModifier]]
      /\ d.death_preventions = [k \in DeathKeys |->
           IF now < c.death_preventions[k].end THEN c.death_preventions[k] ELSE NoPrevention]
  BY DEF ExpireEffects, CombatantState
<1> HIDE DEF d
<1>2. \A s \in Statuses : HasStatus(d, s) => now < d.statuses[s]
  BY <1>1 DEF HasStatus, StillHas
<1>3. \A t \in d.timed_shields : now < t.end
  BY <1>1 DEF ActiveShields
<1>4. \A s \in ResistanceStats : d.resistance_reductions[s].stacks > 0
        => now < d.resistance_reductions[s].end
  BY <1>1 DEF NoReduction
<1>5. \A s \in Stats, g \in Groups : d.stat_modifiers[s][g].amount # 0
        => now < d.stat_modifiers[s][g].end
  BY <1>1 DEF NoModifier
<1>6. \A k \in DeathKeys : d.death_preventions[k].floor > 0
        => now < d.death_preventions[k].end
  BY <1>1 DEF NoPrevention
<1>7. EffectsCurrent(d, now)
  BY <1>2, <1>3, <1>4, <1>5, <1>6 DEF EffectsCurrent
<1> QED
  BY <1>7 DEF d

\* What runs out takes no life, and a healing reduction that stays is as it was.
LEMMA ExpireFate ==
  ASSUME IInv, Expire
  PROVE  \A e \in Entities : Fate(states[e], states'[e])
<1> SUFFICES ASSUME NEW e \in Entities PROVE Fate(states[e], states'[e])
  OBVIOUS
<1> DEFINE c == states[e]
           d == ExpireEffects(c, clock)
<1>1. states'[e] = d /\ pc = "release"
  BY DEF Expire
<1>2. GoodState(c) /\ c \in CombatantState /\ clock \in Nat
  BY BoundsAssumption DEF IInv, Healthy, ReplayTyped
<1> HIDE DEF c
<1>3. /\ d.statuses =
           [s \in Statuses |-> IF StillHas(c, s, clock) THEN c.statuses[s] ELSE Absent]
      /\ d.status_magnitudes =
           [s \in Statuses |-> IF StillHas(c, s, clock) THEN c.status_magnitudes[s] ELSE 0]
      /\ d.status_sources = c.status_sources
      /\ d.timed_max_health = c.timed_max_health
      /\ d.regen_accrued_ms = c.regen_accrued_ms
      /\ d.current_hp = c.current_hp
  BY <1>2 DEF ExpireEffects, CombatantState
<1>4. EffectsCurrent(d, clock)
  BY <1>2, ExpiredCurrent
<1> HIDE DEF d
<1>5. /\ Credited(c) => Credited(d)
      /\ Strengthens(c, d)
      /\ HasStatus(d, "SPELL_SHIELD_HEAL") => HasStatus(c, "SPELL_SHIELD_HEAL")
  BY <1>2, <1>3
  DEF Credited, Reducer, Strengthens, HasStatus, CombatantState, Statuses, Absent
<1>6. Fate(c, d)
  BY <1>3, <1>4, <1>5 DEF Fate, GrantsCurrent, Dead
<1> QED
  BY <1>1, <1>6 DEF c

\* The end of a grant of maximum health leaves its recipient alive.
LEMMA ExpireMaxHealthFate ==
  ASSUME IInv, NEW e \in Entities, ExpireMaxHealth(e)
  PROVE  \A x \in Entities : Fate(states[x], states'[x])
<1> DEFINE c == states[e]
           g == CHOOSE x \in ExpiredGrants(c, clock) : TRUE
           d == ExpireGrant(c, g)
<1>1. states' = [states EXCEPT ![e] = d]
  BY DEF ExpireMaxHealth
<1>2. Healthy /\ Healthy' /\ GoodState(c) /\ c \in CombatantState
  BY ExpireMaxHealthStep DEF IInv, Healthy
<1>3. states'[e] = d
  BY <1>1, <1>2 DEF Healthy
<1>4. GoodState(d)
  BY <1>2, <1>3 DEF Healthy
<1>5. g \in c.timed_max_health
  BY DEF ExpireMaxHealth, ExpiredGrants
<1> HIDE DEF c, g
<1>6. /\ SameStatuses(c, d) /\ SameEffects(c, d)
      /\ d.timed_max_health = c.timed_max_health \ {g}
      /\ d.regen_accrued_ms = c.regen_accrued_ms
      /\ d.timed_shields = c.timed_shields
      /\ d.max_hp = c.max_hp - g.amount
      /\ d.current_hp = Smaller(c.current_hp, c.max_hp - g.amount)
  BY <1>2 DEF ExpireGrant, CombatantState, SameStatuses, SameEffects
<1> HIDE DEF d
<1>7. Dead(c) <=> Dead(d)
  <2>1. c.current_hp \in Int /\ d.max_hp \in Int /\ 0 < d.max_hp
    BY <1>2, <1>4 DEF GoodState, CombatantState
  <2> QED
    BY <1>6, <2>1 DEF Dead, Smaller
<1>8. EffectsCurrent(c, clock) => EffectsCurrent(d, clock)
  BY <1>6 DEF EffectsCurrent, SameStatuses, SameEffects, HasStatus
<1>9. GrantsCurrent(c, clock) => GrantsCurrent(d, clock)
  BY <1>6 DEF GrantsCurrent
<1>10. IsFiniteSet(c.timed_max_health) => IsFiniteSet(d.timed_max_health)
  BY <1>6, FS_Subset
<1>11. Fate(c, d)
  BY <1>2, <1>6, <1>7, <1>8, <1>9, <1>10, StatusesStay DEF Fate
<1> QED
  BY <1>1, <1>2, <1>11, FateOfOne DEF c

-----------------------------------------------------------------------------
(* Spell shields *)

\* Statuses that are removed were not granted, and reduce no healing.
LEMMA WithoutFate ==
  ASSUME NEW c, GoodState(c), NEW gone
  PROVE  /\ Fate(c, Without(c, gone))
         /\ Without(c, gone).current_hp = c.current_hp
<1> DEFINE d == Without(c, gone)
<1>1. c \in CombatantState
  BY DEF GoodState
<1>2. /\ d.statuses = [s \in Statuses |-> IF s \in gone THEN Absent ELSE c.statuses[s]]
      /\ d.status_magnitudes =
           [s \in Statuses |-> IF s \in gone THEN 0 ELSE c.status_magnitudes[s]]
      /\ d.status_sources = c.status_sources
      /\ SameEffects(c, d)
      /\ d.timed_max_health = c.timed_max_health
      /\ d.timed_shields = c.timed_shields
      /\ d.regen_accrued_ms = c.regen_accrued_ms
      /\ d.current_hp = c.current_hp
  BY <1>1 DEF Without, CombatantState, SameEffects
<1> HIDE DEF d
<1>3. /\ Credited(c) => Credited(d)
      /\ Strengthens(c, d)
      /\ HasStatus(d, "SPELL_SHIELD_HEAL") => HasStatus(c, "SPELL_SHIELD_HEAL")
  BY <1>1, <1>2
  DEF Credited, Reducer, Strengthens, HasStatus, CombatantState, Statuses, Absent
<1>4. EffectsCurrent(c, clock) => EffectsCurrent(d, clock)
  BY <1>2 DEF EffectsCurrent, SameEffects, HasStatus
<1>5. Fate(c, d)
  BY <1>2, <1>3, <1>4 DEF Fate, GrantsCurrent, Dead
<1> QED
  BY <1>2, <1>5 DEF d

\* A blocked recipient uses its shield up; only the heal of the shield may revive it.
LEMMA ConsumeSpellShieldFate ==
  ASSUME IInv, ConsumeSpellShield
  PROVE  \A e \in Entities : Fate(states[e], states'[e])
<1> DEFINE e == CHOOSE x \in waiting : TRUE
           c == states[e]
           b == Without(c, {"SPELL_SHIELD", "SPELL_SHIELD_HEAL"})
           amount == IF HasStatus(c, "SPELL_SHIELD_HEAL")
                       THEN c.status_magnitudes["SPELL_SHIELD_HEAL"] ELSE 0
           d == ReceiveHealing(b, amount)
<1>1. e \in Entities /\ pc = "block" /\ states' = [states EXCEPT ![e] = d]
  BY DEF ConsumeSpellShield, IInv, ReplayTyped
<1> HIDE DEF e
<1>2. GoodState(c) /\ c \in CombatantState
  BY <1>1 DEF IInv, Healthy
<1>3. amount \in Nat /\ (amount # 0 => Revives(c))
  BY <1>1, <1>2 DEF CombatantState, Statuses, Revives
<1>4. GoodState(b) /\ Fate(c, b) /\ b.current_hp = c.current_hp
  BY <1>2, WithoutGood, WithoutFate
<1> HIDE DEF c, b, amount
<1>5. /\ SameStatuses(b, d) /\ SameEffects(b, d)
      /\ d.timed_max_health = b.timed_max_health
      /\ d.timed_shields = b.timed_shields
      /\ d.regen_accrued_ms = b.regen_accrued_ms
      /\ ~Dead(b) => ~Dead(d)
      /\ amount = 0 => d.current_hp = b.current_hp
  BY <1>3, <1>4, HealingKeeps
<1> HIDE DEF d
<1>6. /\ Credited(c) => Credited(d)
      /\ Strengthens(c, d)
      /\ HasStatus(d, "SPELL_SHIELD_HEAL") =>
           HasStatus(c, "SPELL_SHIELD_HEAL") \/ GrantsShieldHeal
  BY <1>4, <1>5 DEF Fate, SameStatuses, Credited, Reducer, Strengthens, HasStatus
<1>7. EffectsCurrent(c, clock) => EffectsCurrent(d, clock)
  BY <1>4, <1>5 DEF Fate, EffectsCurrent, SameStatuses, SameEffects, HasStatus
<1>8. GrantsCurrent(c, clock) => GrantsCurrent(d, clock)
  BY <1>4, <1>5 DEF Fate, GrantsCurrent
<1>9. /\ IsFiniteSet(c.timed_max_health) => IsFiniteSet(d.timed_max_health)
      /\ pc # "accrue" => d.regen_accrued_ms = c.regen_accrued_ms
  BY <1>4, <1>5 DEF Fate
<1>10. Dead(c) /\ ~Dead(d) => Revives(c)
  BY <1>3, <1>4, <1>5 DEF Dead
<1>11. ~Dead(c) => ~Dead(d)
  BY <1>4, <1>5 DEF Dead
<1>12. Fate(c, d)
  BY <1>6, <1>7, <1>8, <1>9, <1>10, <1>11 DEF Fate
<1> QED
  BY <1>1, <1>12, FateOfOne DEF IInv, c

-----------------------------------------------------------------------------
(* Outputs other than damage *)

\* What an output that acts starts from: its recipient is alive unless it revives.
LEMMA ActingOutput ==
  ASSUME IInv, NEW out, NEW kind, Processing(out, kind)
  PROVE  /\ out \in Outputs /\ out.kind = kind /\ out.recipient \in Entities
         /\ todo # <<>> /\ out = Head(todo) /\ pc = "outputs"
         /\ event \in Events /\ clock \in Nat /\ serial \in Nat
         /\ GoodState(states[out.recipient]) /\ states[out.recipient] \in CombatantState
         /\ kind # "REVIVE" => ~Dead(states[out.recipient])
<1>1. /\ pc = "outputs" /\ todo # <<>> /\ out = Head(todo) /\ out.kind = kind
      /\ ~Unaffected(out)
  BY DEF Processing
<1>2. out \in Outputs
  BY <1>1 DEF IInv, ReplayTyped
<1>3. out.recipient \in Entities
  BY <1>2, RecipientsExist
<1>4. event \in Events /\ clock \in Nat /\ serial \in Nat
  BY <1>1, BoundsAssumption DEF IInv, ReplayTyped, Striking
<1>5. GoodState(states[out.recipient]) /\ states[out.recipient] \in CombatantState
  BY <1>3 DEF IInv, Healthy
<1>6. kind # "REVIVE" => ~Dead(states[out.recipient])
  BY <1>1 DEF Unaffected
<1> QED
  BY <1>1, <1>2, <1>3, <1>4, <1>5, <1>6

\* One recipient becomes d.
LEMMA OutputFate ==
  ASSUME IInv, NEW out, NEW d, out.recipient \in Entities,
         states' = [states EXCEPT ![out.recipient] = d], Fate(states[out.recipient], d)
  PROVE  \A e \in Entities : Fate(states[e], states'[e])
  BY FateOfOne DEF IInv

\* REVIVE outputs give life.
LEMMA ReviveFate ==
  ASSUME IInv, NEW out, Revive(out)
  PROVE  \A e \in Entities : Fate(states[e], states'[e])
<1> DEFINE c == states[out.recipient]
           health == Smaller(c.max_hp, out.amount)
           d == [c EXCEPT !.current_hp = health, !.shield = 0, !.timed_shields = {}]
<1>1. Processing(out, "REVIVE") /\ Becomes(out, d)
  BY DEF Revive
<1>2. /\ out \in Outputs /\ out.kind = "REVIVE" /\ out.recipient \in Entities
      /\ todo # <<>> /\ out = Head(todo) /\ pc = "outputs"
      /\ GoodState(c) /\ c \in CombatantState
  BY <1>1, ActingOutput
<1>3. health \in Int /\ 0 < health
  BY <1>2 DEF Outputs, Smaller, GoodState, CombatantState
<1> HIDE DEF c, health
<1>4. /\ SameStatuses(c, d) /\ SameEffects(c, d)
      /\ d.timed_max_health = c.timed_max_health
      /\ d.regen_accrued_ms = c.regen_accrued_ms
      /\ d.timed_shields = {} /\ d.current_hp = health
  BY <1>2 DEF CombatantState, SameStatuses, SameEffects
<1> HIDE DEF d
<1>5. Life(c, d)
  BY <1>2, <1>3, <1>4 DEF Life, Dead, Revives
<1>6. Fate(c, d)
  BY <1>2, <1>4, <1>5, HealthFate
<1> QED
  BY <1>1, <1>2, <1>6, OutputFate DEF Becomes, c

\* A health cost stops at its floor: paying it kills only when the floor is zero.
LEMMA PayHealthFate ==
  ASSUME IInv, NEW out, PayHealth(out)
  PROVE  \A e \in Entities : Fate(states[e], states'[e])
<1> DEFINE c == states[out.recipient]
           cost == out.amount + Share(c.current_hp, out.ratio)
           paid == Smaller(cost, Larger(0, c.current_hp - out.floor))
           d == [c EXCEPT !.current_hp = @ - paid]
<1>1. Processing(out, "HEALTH_COST") /\ Becomes(out, d)
  BY DEF PayHealth
<1>2. /\ out \in Outputs /\ out.kind = "HEALTH_COST" /\ out.recipient \in Entities
      /\ todo # <<>> /\ out = Head(todo) /\ pc = "outputs"
      /\ GoodState(c) /\ c \in CombatantState /\ ~Dead(c)
  BY <1>1, ActingOutput
<1>3. out.amount \in Nat /\ out.ratio \in Nat /\ out.floor \in Nat /\ c.current_hp \in Nat
  <2>1. out.amount \in Nat /\ out.ratio \in Nat /\ out.floor \in Nat
    <3>1. out \in Outputs /\ out.kind = "HEALTH_COST"
      BY <1>2
    <3> QED
      BY <3>1 DEF Outputs, Percent
  <2> HIDE DEF c
  <2> QED
    BY <1>2, <2>1 DEF GoodState, CombatantState
<1>4. cost \in Nat
  <2>1. Share(c.current_hp, out.ratio) \in Nat
    BY <1>3, ShareNat
  <2> QED
    BY <1>3, <2>1
<1> HIDE DEF c, cost
<1>5. paid \in Int /\ (out.floor # 0 => paid < c.current_hp)
  BY <1>2, <1>3, <1>4 DEF Smaller, Larger, Dead
<1> HIDE DEF paid
<1>6. /\ SameStatuses(c, d) /\ SameEffects(c, d)
      /\ d.timed_max_health = c.timed_max_health
      /\ d.regen_accrued_ms = c.regen_accrued_ms
      /\ d.timed_shields = c.timed_shields
      /\ d.current_hp = c.current_hp - paid
  BY <1>2 DEF CombatantState, SameStatuses, SameEffects
<1> HIDE DEF d
<1>7. Life(c, d)
  BY <1>2, <1>3, <1>5, <1>6 DEF Life, Dead, Kills
<1>8. EffectsCurrent(c, clock) => \A t \in d.timed_shields : clock < t.end
  BY <1>6 DEF EffectsCurrent
<1>9. Fate(c, d)
  BY <1>2, <1>6, <1>7, <1>8, HealthFate
<1> QED
  BY <1>1, <1>2, <1>9, OutputFate DEF Becomes, c

\* A grant of maximum health runs on past the clock.
LEMMA GrantMaxHealthFate ==
  ASSUME IInv, NEW out, GrantMaxHealth(out)
  PROVE  \A e \in Entities : Fate(states[e], states'[e])
<1> DEFINE c == states[out.recipient]
           g == [serial |-> serial, amount |-> out.amount, end |-> clock + out.duration]
           d == [c EXCEPT !.max_hp = @ + out.amount, !.current_hp = @ + out.amount,
                          !.timed_max_health = @ \cup {g}]
<1>1. Processing(out, "MAX_HEALTH") /\ Becomes(out, d)
  BY DEF GrantMaxHealth
<1>2. /\ out \in Outputs /\ out.kind = "MAX_HEALTH" /\ out.recipient \in Entities
      /\ GoodState(c) /\ c \in CombatantState /\ ~Dead(c) /\ clock \in Nat
  BY <1>1, ActingOutput
<1>3. out.amount \in Nat /\ c.current_hp \in Nat /\ clock < g.end
  BY <1>2 DEF Outputs, GoodState, CombatantState
<1> HIDE DEF c, g
<1>4. /\ SameStatuses(c, d) /\ SameEffects(c, d)
      /\ d.timed_max_health = c.timed_max_health \cup {g}
      /\ d.regen_accrued_ms = c.regen_accrued_ms
      /\ d.timed_shields = c.timed_shields
      /\ d.current_hp = c.current_hp + out.amount
  BY <1>2 DEF CombatantState, SameStatuses, SameEffects
<1> HIDE DEF d
<1>5. ~Dead(d)
  BY <1>2, <1>3, <1>4 DEF Dead
<1>6. EffectsCurrent(c, clock) => EffectsCurrent(d, clock)
  BY <1>4 DEF EffectsCurrent, SameStatuses, SameEffects, HasStatus
<1>7. GrantsCurrent(c, clock) => GrantsCurrent(d, clock)
  BY <1>3, <1>4 DEF GrantsCurrent
<1>8. IsFiniteSet(c.timed_max_health) => IsFiniteSet(d.timed_max_health)
  BY <1>4, FS_AddElement
<1>9. Fate(c, d)
  BY <1>2, <1>4, <1>5, <1>6, <1>7, <1>8, StatusesStay DEF Fate
<1> QED
  BY <1>1, <1>2, <1>9, OutputFate DEF Becomes, c

\* A reduction of resistance runs on past the clock.
LEMMA ReduceResistanceFate ==
  ASSUME IInv, NEW out, ReduceResistance(out)
  PROVE  \A e \in Entities : Fate(states[e], states'[e])
<1> DEFINE c == states[out.recipient]
           stacks == Smaller(out.max_stacks, c.resistance_reductions[out.stat].stacks + 1)
           n == [fraction |-> out.fraction, stacks |-> stacks, end |-> clock + out.duration]
           d == [c EXCEPT !.resistance_reductions[out.stat] = n]
<1>1. Processing(out, "RESISTANCE_REDUCTION") /\ Becomes(out, d)
  BY DEF ReduceResistance
<1>2. /\ out \in Outputs /\ out.kind = "RESISTANCE_REDUCTION" /\ out.recipient \in Entities
      /\ GoodState(c) /\ c \in CombatantState /\ ~Dead(c) /\ clock \in Nat
  BY <1>1, ActingOutput
<1>3. clock < n.end /\ out.stat \in ResistanceStats
  BY <1>2 DEF Outputs
<1> HIDE DEF c, n
<1>4. /\ SameStatuses(c, d)
      /\ d.resistance_reductions = [c.resistance_reductions EXCEPT ![out.stat] = n]
      /\ d.stat_modifiers = c.stat_modifiers /\ d.death_preventions = c.death_preventions
      /\ d.timed_max_health = c.timed_max_health
      /\ d.regen_accrued_ms = c.regen_accrued_ms
      /\ d.timed_shields = c.timed_shields
      /\ d.current_hp = c.current_hp
  BY <1>2 DEF CombatantState, SameStatuses
<1>5. \A s \in ResistanceStats :
        d.resistance_reductions[s] = IF s = out.stat THEN n ELSE c.resistance_reductions[s]
  BY <1>2, <1>4 DEF CombatantState
<1> HIDE DEF d
<1>6. EffectsCurrent(c, clock) => EffectsCurrent(d, clock)
  BY <1>3, <1>4, <1>5 DEF EffectsCurrent, SameStatuses, HasStatus
<1>7. Fate(c, d)
  BY <1>2, <1>4, <1>6, StatusesStay DEF Fate, GrantsCurrent, Dead
<1> QED
  BY <1>1, <1>2, <1>7, OutputFate DEF Becomes, c

\* Tenacity leaves something of every status.
LEMMA DurationLeft ==
  ASSUME NEW c, GoodState(c), NEW out \in Outputs, out.kind = "STATUS"
  PROVE  AdjustedDuration(c, out) \in Nat \ {0}
<1>1. out.duration \in Nat \ {0} /\ out.recipient \in Entities
  BY DEF Outputs
<1>2. Roster[out.recipient].tenacity \in Int
  BY <1>1, RosterAssumption DEF Combatants, Percent
<1>3. EffectiveTenacity(c, Roster[out.recipient].tenacity) \in Int
  <2>1. "TENACITY_PERCENT" \in Stats /\ Groups = {"ITEM", "ABILITY"}
    BY DEF Stats, Groups
  <2>2. /\ c.stat_modifiers["TENACITY_PERCENT"]["ITEM"].amount \in Int
        /\ c.stat_modifiers["TENACITY_PERCENT"]["ABILITY"].amount \in Int
    BY <2>1 DEF GoodState, CombatantState, Modifier
  <2> DEFINE base == Roster[out.recipient].tenacity
             granted == c.stat_modifiers["TENACITY_PERCENT"]
             part == Share(Percent - base, Percent - granted["ITEM"].amount)
  <2>3. part \in Int
    <3>1. Percent - base \in Int /\ Percent - granted["ITEM"].amount \in Int
      BY <1>2, <2>2 DEF Percent
    <3> QED
      BY <3>1, ShareInt
  <2> HIDE DEF part
  <2>4. EffectiveTenacity(c, base) =
          Smaller(99, Larger(0, Percent - part + granted["ABILITY"].amount))
    BY DEF EffectiveTenacity, part
  <2> QED
    BY <2>2, <2>3, <2>4 DEF Smaller, Larger, Percent
<1>4. Share(out.duration, Percent - EffectiveTenacity(c, Roster[out.recipient].tenacity)) \in Int
  <2> DEFINE left == Percent - EffectiveTenacity(c, Roster[out.recipient].tenacity)
  <2>1. left \in Int /\ out.duration \in Int
    BY <1>1, <1>3 DEF Percent
  <2> HIDE DEF left
  <2>2. Share(out.duration, left) \in Int
    BY <2>1, ShareInt
  <2> QED
    BY <2>2 DEF left
<1> QED
  BY <1>1, <1>4 DEF AdjustedDuration, Larger

\* A status runs on past the clock; a healing reduction never weakens the one there is.
LEMMA ApplyStatusFate ==
  ASSUME IInv, NEW out, ApplyStatus(out)
  PROVE  \A e \in Entities : Fate(states[e], states'[e])
<1> DEFINE c == states[out.recipient]
           end == clock + AdjustedDuration(c, out)
           until == IF out.status = "HEALING_REDUCTION"
                      THEN Larger(end, c.statuses[out.status]) ELSE end
           kept == KeepsStronger(c, out)
           d == [c EXCEPT
                  !.statuses[out.status] = until,
                  !.status_magnitudes[out.status] = IF kept THEN @ ELSE out.magnitude,
                  !.status_sources[out.status] = IF kept THEN @ ELSE event.source]
<1>1. Processing(out, "STATUS") /\ Becomes(out, d)
  BY DEF ApplyStatus
<1>2. /\ out \in Outputs /\ out.kind = "STATUS" /\ out.recipient \in Entities
      /\ todo # <<>> /\ out = Head(todo) /\ pc = "outputs" /\ event \in Events
      /\ GoodState(c) /\ c \in CombatantState /\ ~Dead(c) /\ clock \in Nat
  BY <1>1, ActingOutput
<1>3. /\ out.status \in Statuses /\ out.magnitude \in Nat
      /\ event.source \in Entities /\ event.source # NoEntity
  BY <1>2, EntitiesAssumption DEF Outputs, Events
<1>4. end \in Nat /\ clock < end
  BY <1>2, DurationLeft
<1>5. until \in Nat /\ clock < until
      /\ (out.status = "HEALING_REDUCTION" => until >= c.statuses[out.status])
  <2>1. c.statuses[out.status] \in Nat
    BY <1>2, <1>3 DEF CombatantState
  <2> HIDE DEF c, end
  <2> QED
    BY <1>2, <1>4, <2>1 DEF Larger
<1>6. kept => /\ out.status = "HEALING_REDUCTION" /\ HasStatus(c, out.status)
  BY DEF KeepsStronger
<1>7. ~kept /\ out.status = "HEALING_REDUCTION" /\ HasStatus(c, out.status)
        => out.magnitude >= c.status_magnitudes[out.status]
  BY <1>2, <1>3 DEF KeepsStronger, CombatantState
<1> HIDE DEF c, end, until, kept
<1>8. /\ d.statuses = [c.statuses EXCEPT ![out.status] = until]
      /\ d.status_magnitudes =
           [c.status_magnitudes EXCEPT ![out.status] = IF kept THEN @ ELSE out.magnitude]
      /\ d.status_sources =
           [c.status_sources EXCEPT ![out.status] = IF kept THEN @ ELSE event.source]
      /\ SameEffects(c, d)
      /\ d.timed_max_health = c.timed_max_health
      /\ d.timed_shields = c.timed_shields
      /\ d.regen_accrued_ms = c.regen_accrued_ms
      /\ d.current_hp = c.current_hp
  BY <1>2 DEF CombatantState, SameEffects
<1> HIDE DEF d
<1>9. \A s \in Statuses :
        /\ d.statuses[s] = IF s = out.status THEN until ELSE c.statuses[s]
        /\ d.status_magnitudes[s] = IF s = out.status /\ ~kept THEN out.magnitude
                                    ELSE c.status_magnitudes[s]
        /\ d.status_sources[s] = IF s = out.status /\ ~kept THEN event.source
                                 ELSE c.status_sources[s]
  BY <1>2, <1>3, <1>8 DEF CombatantState
<1>10. "HEALING_REDUCTION" \in Statuses /\ "SPELL_SHIELD_HEAL" \in Statuses
  BY DEF Statuses
<1>11. Credited(c) => Credited(d)
  BY <1>3, <1>9, <1>10 DEF Credited, Reducer
<1>12. Strengthens(c, d)
  <2>1. /\ c.statuses["HEALING_REDUCTION"] \in Nat
        /\ c.status_magnitudes["HEALING_REDUCTION"] \in Nat
    BY <1>2, <1>10 DEF CombatantState
  <2> QED
    BY <1>2, <1>5, <1>7, <1>9, <1>10, <2>1 DEF Strengthens
<1>13. HasStatus(d, "SPELL_SHIELD_HEAL") =>
         HasStatus(c, "SPELL_SHIELD_HEAL") \/ GrantsShieldHeal
  BY <1>2, <1>9, <1>10 DEF HasStatus, GrantsShieldHeal
<1>14. EffectsCurrent(c, clock) => EffectsCurrent(d, clock)
  BY <1>5, <1>8, <1>9 DEF EffectsCurrent, SameEffects, HasStatus
<1>15. Fate(c, d)
  BY <1>8, <1>11, <1>12, <1>13, <1>14 DEF Fate, GrantsCurrent, Dead
<1> QED
  BY <1>1, <1>2, <1>15, OutputFate DEF Becomes, c

\* A status that is removed takes nothing else with it.
LEMMA RemoveStatusFate ==
  ASSUME IInv, NEW out, RemoveStatus(out)
  PROVE  \A e \in Entities : Fate(states[e], states'[e])
<1>1. /\ Processing(out, "REMOVE_STATUS")
      /\ Becomes(out, Without(states[out.recipient], out.group))
  BY DEF RemoveStatus
<1>2. out.recipient \in Entities /\ GoodState(states[out.recipient])
  BY <1>1, ActingOutput
<1> QED
  BY <1>1, <1>2, WithoutFate, OutputFate DEF Becomes

\* A HEAL output reaches the living only.
LEMMA HealFate ==
  ASSUME IInv, NEW out, Heal(out)
  PROVE  \A e \in Entities : Fate(states[e], states'[e])
<1> DEFINE c == states[out.recipient]
           amount == Share(out.amount + Share(Missing(c), out.ratio),
                           Percent + Roster[event.source].heal_shield_power)
<1>1. /\ Processing(out, "HEAL")
      /\ states' = [states EXCEPT ![out.recipient] = ReceiveHealing(c, amount)]
  BY DEF Heal
<1>2. /\ out \in Outputs /\ out.kind = "HEAL" /\ out.recipient \in Entities
      /\ GoodState(c) /\ c \in CombatantState /\ ~Dead(c) /\ event \in Events
  BY <1>1, ActingOutput
<1>3. amount \in Nat
  <2>1. out.amount \in Nat /\ out.ratio \in Nat
    BY <1>2 DEF Outputs, Percent
  <2>2. Missing(c) \in Nat
    <3>1. c.max_hp \in Int /\ c.current_hp \in Int
      BY <1>2 DEF CombatantState
    <3> HIDE DEF c
    <3> QED
      BY <3>1 DEF Missing, Larger
  <2>3. Percent + Roster[event.source].heal_shield_power \in Nat
    <3>1. event.source \in Entities
      BY <1>2 DEF Events
    <3>2. Roster[event.source].heal_shield_power \in Nat
      BY <3>1, RosterAssumption DEF Combatants
    <3> QED
      BY <3>2 DEF Percent
  <2>4. out.amount + Share(Missing(c), out.ratio) \in Nat
    <3>1. Share(Missing(c), out.ratio) \in Nat
      BY <2>1, <2>2, ShareNat
    <3> QED
      BY <2>1, <3>1
  <2> QED
    BY <2>3, <2>4, ShareNat
<1> HIDE DEF c, amount
<1>4. Fate(c, ReceiveHealing(c, amount))
  BY <1>2, <1>3, HealedFate
<1> QED
  BY <1>1, <1>2, <1>4, OutputFate DEF c

\* A shield runs on past the clock.
LEMMA GrantShieldFate ==
  ASSUME IInv, NEW out, GrantShield(out)
  PROVE  \A e \in Entities : Fate(states[e], states'[e])
<1> DEFINE c == states[out.recipient]
           amount == Share(Share(out.amount, Percent +
                       StatModifierTotal(c, "SHIELD_RECEIVED_INCREASE_PERCENT")),
                     Percent + Roster[event.source].heal_shield_power)
           t == [ serial |-> serial, initial |-> amount, current |-> amount,
                  end |-> clock + out.duration, types |-> out.types,
                  decay_start |-> IF out.decay_delay = Forever THEN Forever
                                  ELSE clock + out.decay_delay ]
           d == IF out.duration = Forever THEN [c EXCEPT !.shield = @ + amount]
                ELSE [c EXCEPT !.timed_shields = @ \cup {t}]
<1>1. Processing(out, "SHIELD") /\ Becomes(out, d)
  BY DEF GrantShield
<1>2. /\ out \in Outputs /\ out.kind = "SHIELD" /\ out.recipient \in Entities
      /\ GoodState(c) /\ c \in CombatantState /\ ~Dead(c) /\ clock \in Nat
  BY <1>1, ActingOutput
<1>3. clock < t.end
  BY <1>2 DEF Outputs
<1> HIDE DEF c, amount, t
<1>4. /\ SameStatuses(c, d) /\ SameEffects(c, d)
      /\ d.timed_max_health = c.timed_max_health
      /\ d.regen_accrued_ms = c.regen_accrued_ms
      /\ d.timed_shields \subseteq c.timed_shields \cup {t}
      /\ d.current_hp = c.current_hp
  BY <1>2 DEF CombatantState, SameStatuses, SameEffects
<1> HIDE DEF d
<1>5. Life(c, d)
  BY <1>4 DEF Life, Dead
<1>6. EffectsCurrent(c, clock) => \A s \in d.timed_shields : clock < s.end
  BY <1>3, <1>4 DEF EffectsCurrent
<1>7. Fate(c, d)
  BY <1>2, <1>4, <1>5, <1>6, HealthFate
<1> QED
  BY <1>1, <1>2, <1>7, OutputFate DEF Becomes, c

\* A modifier runs on past the clock, or past the encounter.
LEMMA ModifyStatFate ==
  ASSUME IInv, NEW out, ModifyStat(out)
  PROVE  \A e \in Entities : Fate(states[e], states'[e])
<1> DEFINE c == states[out.recipient]
           group == IF event.channel = "ITEM_ACTIVE" THEN "ITEM" ELSE "ABILITY"
           end == IF out.duration = Forever THEN Forever ELSE clock + out.duration
           m == [amount |-> out.amount, end |-> end]
           d == [c EXCEPT !.stat_modifiers[out.stat][group] = m]
<1>1. Processing(out, "STAT_MODIFIER") /\ Becomes(out, d)
  BY DEF ModifyStat
<1>2. /\ out \in Outputs /\ out.kind = "STAT_MODIFIER" /\ out.recipient \in Entities
      /\ GoodState(c) /\ c \in CombatantState /\ ~Dead(c)
  BY <1>1, ActingOutput
<1>3. clock \in Nat /\ clock < Forever
  BY BoundsAssumption, TimeAssumption DEF IInv, ReplayTyped
<1>4. clock < m.end
  BY <1>2, <1>3 DEF Outputs
<1> HIDE DEF c, group, m
<1>5. /\ SameStatuses(c, d)
      /\ d.resistance_reductions = c.resistance_reductions
      /\ d.stat_modifiers = [c.stat_modifiers EXCEPT ![out.stat][group] = m]
      /\ d.death_preventions = c.death_preventions
      /\ d.timed_max_health = c.timed_max_health
      /\ d.regen_accrued_ms = c.regen_accrued_ms
      /\ d.timed_shields = c.timed_shields
      /\ d.current_hp = c.current_hp
  BY <1>2 DEF CombatantState, SameStatuses
<1>6. \A s \in Stats, g \in Groups :
        d.stat_modifiers[s][g] = IF s = out.stat /\ g = group THEN m
                                 ELSE c.stat_modifiers[s][g]
  BY <1>2, <1>5 DEF CombatantState
<1> HIDE DEF d
<1>7. EffectsCurrent(c, clock) => EffectsCurrent(d, clock)
  BY <1>4, <1>5, <1>6 DEF EffectsCurrent, SameStatuses, HasStatus
<1>8. Fate(c, d)
  BY <1>2, <1>5, <1>7, StatusesStay DEF Fate, GrantsCurrent, Dead
<1> QED
  BY <1>1, <1>2, <1>8, OutputFate DEF Becomes, c

\* A floor holds past the clock.
LEMMA PreventDeathFate ==
  ASSUME IInv, NEW out, PreventDeath(out)
  PROVE  \A e \in Entities : Fate(states[e], states'[e])
<1> DEFINE c == states[out.recipient]
           w == [ floor |-> out.floor, end |-> clock + out.duration,
                  stasis |-> out.stasis, heal |-> out.heal ]
           d == [c EXCEPT !.death_preventions[out.key] = w]
<1>1. Processing(out, "DEATH_PREVENTION") /\ Becomes(out, d)
  BY DEF PreventDeath
<1>2. /\ out \in Outputs /\ out.kind = "DEATH_PREVENTION" /\ out.recipient \in Entities
      /\ GoodState(c) /\ c \in CombatantState /\ ~Dead(c) /\ clock \in Nat
  BY <1>1, ActingOutput
<1>3. clock < w.end
  BY <1>2 DEF Outputs
<1> HIDE DEF c, w
<1>4. /\ SameStatuses(c, d)
      /\ d.resistance_reductions = c.resistance_reductions
      /\ d.stat_modifiers = c.stat_modifiers
      /\ d.death_preventions = [c.death_preventions EXCEPT ![out.key] = w]
      /\ d.timed_max_health = c.timed_max_health
      /\ d.regen_accrued_ms = c.regen_accrued_ms
      /\ d.timed_shields = c.timed_shields
      /\ d.current_hp = c.current_hp
  BY <1>2 DEF CombatantState, SameStatuses
<1>5. \A k \in DeathKeys :
        d.death_preventions[k] = IF k = out.key THEN w ELSE c.death_preventions[k]
  BY <1>2, <1>4 DEF CombatantState
<1> HIDE DEF d
<1>6. EffectsCurrent(c, clock) => EffectsCurrent(d, clock)
  BY <1>3, <1>4, <1>5 DEF EffectsCurrent, SameStatuses, HasStatus
<1>7. Fate(c, d)
  BY <1>2, <1>4, <1>6, StatusesStay DEF Fate, GrantsCurrent, Dead
<1> QED
  BY <1>1, <1>2, <1>7, OutputFate DEF Becomes, c

-----------------------------------------------------------------------------
(* Damage *)

\* A consumed window leaves no floor, and stasis that runs on past the clock.
LEMMA TriggerFate ==
  ASSUME NEW c, GoodState(c), clock \in Nat, serial \in Nat
  PROVE  LET d == TriggerDeathPrevention(c, clock, serial)
         IN  Fate(c, d) /\ d.current_hp = c.current_hp
<1> DEFINE t == TriggerDeathPrevention(c, clock, serial)
<1>1. c \in CombatantState
  BY DEF GoodState
<1>2. CASE TriggerKeys(c) = {}
  <2>1. t = c
    BY <1>2 DEF TriggerDeathPrevention
  <2> QED
    BY <1>1, <2>1, NoFate
<1>3. CASE TriggerKeys(c) # {}
  <2> DEFINE key == CHOOSE k \in TriggerKeys(c) : \A o \in TriggerKeys(c) : k <= o
             w == c.death_preventions[key]
             until == IF w.stasis > 0 THEN Larger(c.statuses["STASIS"], clock + w.stasis)
                      ELSE c.statuses["STASIS"]
             strength == IF w.stasis > 0 THEN 1 ELSE c.status_magnitudes["STASIS"]
             heals == IF w.heal > 0
                        THEN c.pending_heals \cup
                               {[serial |-> serial, due |-> clock + w.stasis, amount |-> w.heal]}
                        ELSE c.pending_heals
             d == [c EXCEPT !.death_preventions[key] = NoPrevention,
                            !.statuses["STASIS"] = until,
                            !.status_magnitudes["STASIS"] = strength,
                            !.pending_heals = heals]
  <2>1. t = d
    BY <1>1, <1>3 DEF TriggerDeathPrevention, CombatantState
  <2>2. key \in DeathKeys
    <3>1. TriggerKeys(c) \subseteq Nat /\ TriggerKeys(c) \subseteq DeathKeys
      BY TimeAssumption DEF TriggerKeys
    <3>2. \E k \in TriggerKeys(c) : \A o \in TriggerKeys(c) : k <= o
      BY <1>3, <3>1, LeastNatural
    <3> QED
      BY <3>1, <3>2
  <2> HIDE DEF key
  <2>3. w.stasis \in Nat /\ "STASIS" \in Statuses /\ c.statuses["STASIS"] \in Nat
    BY <1>1, <2>2 DEF CombatantState, Statuses
  <2>4. until \in Nat
        /\ (EffectsCurrent(c, clock) => until = Absent \/ clock < until)
    BY <2>3 DEF Larger, EffectsCurrent, HasStatus
  <2> HIDE DEF w, until, strength, heals
  <2>5. /\ d.statuses = [c.statuses EXCEPT !["STASIS"] = until]
        /\ d.status_magnitudes = [c.status_magnitudes EXCEPT !["STASIS"] = strength]
        /\ d.status_sources = c.status_sources
        /\ d.death_preventions = [c.death_preventions EXCEPT ![key] = NoPrevention]
        /\ d.resistance_reductions = c.resistance_reductions
        /\ d.stat_modifiers = c.stat_modifiers
        /\ d.timed_max_health = c.timed_max_health
        /\ d.timed_shields = c.timed_shields
        /\ d.regen_accrued_ms = c.regen_accrued_ms
        /\ d.current_hp = c.current_hp
    BY <1>1 DEF CombatantState
  <2> HIDE DEF d
  <2>6. /\ \A s \in Statuses :
             d.statuses[s] = IF s = "STASIS" THEN until ELSE c.statuses[s]
        /\ \A s \in Statuses \ {"STASIS"} : d.status_magnitudes[s] = c.status_magnitudes[s]
        /\ \A k \in DeathKeys :
             d.death_preventions[k] = IF k = key THEN NoPrevention ELSE c.death_preventions[k]
    BY <1>1, <2>5 DEF CombatantState
  <2>7. EffectsCurrent(c, clock) => EffectsCurrent(d, clock)
    BY <2>4, <2>5, <2>6 DEF EffectsCurrent, HasStatus, NoPrevention
  <2>8. /\ Credited(c) => Credited(d)
        /\ Strengthens(c, d)
        /\ HasStatus(d, "SPELL_SHIELD_HEAL") => HasStatus(c, "SPELL_SHIELD_HEAL")
    BY <1>1, <2>5, <2>6
    DEF Credited, Reducer, Strengthens, HasStatus, Statuses, CombatantState
  <2>9. Fate(c, d)
    BY <2>5, <2>7, <2>8 DEF Fate, GrantsCurrent, Dead
  <2> QED
    BY <2>1, <2>5, <2>9
<1> QED
  BY <1>2, <1>3

\* Damage that a floor holds off does not kill.
LEMMA FloorsHold ==
  ASSUME NEW c, GoodState(c), NEW damage \in Nat
  PROVE  ~Dead(c) /\ HpLoss(c, damage) >= c.current_hp
           => \A k \in DeathKeys : c.death_preventions[k].floor = 0
<1> SUFFICES ASSUME ~Dead(c), HpLoss(c, damage) >= c.current_hp, NEW k \in DeathKeys,
                    c.death_preventions[k].floor # 0
             PROVE  FALSE
  OBVIOUS
<1>1. c.current_hp \in Nat /\ c.current_hp > 0 /\ c.max_hp \in Nat /\ c.max_hp > 0
      /\ c.death_preventions[k].floor \in Nat
  BY DEF GoodState, CombatantState, Dead
<1>2. HpLoss(c, damage) \in Nat
      /\ HpLoss(c, damage) <=
           Larger(0, c.current_hp - Smaller(c.max_hp, c.death_preventions[k].floor))
  BY LossBounded
<1> QED
  BY <1>1, <1>2 DEF Larger, Smaller

\* A wound kills only where no floor holds.
LEMMA WoundFate ==
  ASSUME NEW c, GoodState(c), NEW loss \in 0..c.current_hp, NEW stopped,
         clock \in Nat, serial \in Nat, pc \in {"outputs", "absorb"}, todo # <<>>,
         ~Dead(c) /\ loss >= c.current_hp =>
           \A k \in DeathKeys : c.death_preventions[k].floor = 0
  PROVE  Fate(c, Wounded(c, loss, stopped))
<1> DEFINE h == c.current_hp - loss
           left == [c EXCEPT !.current_hp = h]
           d == Wounded(c, loss, stopped)
<1>1. c \in CombatantState /\ c.current_hp \in Nat /\ h \in 0..c.max_hp
  BY DEF GoodState, CombatantState
<1>2. /\ GoodState(left) /\ left.current_hp = h
  BY <1>1, HealthSet
<1>3. d = IF stopped > 0 THEN TriggerDeathPrevention(left, clock, serial) ELSE left
  BY DEF Wounded
<1>4. /\ SameStatuses(c, left) /\ SameEffects(c, left)
      /\ left.timed_max_health = c.timed_max_health
      /\ left.regen_accrued_ms = c.regen_accrued_ms
      /\ left.timed_shields = c.timed_shields
  BY <1>1 DEF SameStatuses, SameEffects, CombatantState
<1> HIDE DEF left, d
<1>5. Life(c, left)
  <2>1. left.current_hp = c.current_hp - loss
    BY <1>2
  <2> QED
    BY <1>1, <2>1 DEF Life, Dead, Kills
<1>6. EffectsCurrent(c, clock) => \A t \in left.timed_shields : clock < t.end
  BY <1>4 DEF EffectsCurrent
<1>7. Fate(c, left)
  BY <1>1, <1>4, <1>5, <1>6, HealthFate
<1>8. Fate(left, d) /\ d.current_hp = left.current_hp
  <2>1. left \in CombatantState
    BY <1>2 DEF GoodState
  <2> QED
    BY <1>2, <1>3, <2>1, NoFate, TriggerFate
<1>9. /\ Credited(c) => Credited(d)
      /\ Strengthens(c, d)
      /\ HasStatus(d, "SPELL_SHIELD_HEAL") =>
           HasStatus(c, "SPELL_SHIELD_HEAL") \/ GrantsShieldHeal
  BY <1>4, <1>7, <1>8 DEF Fate, SameStatuses, Strengthens, HasStatus
<1>10. Life(c, d)
  BY <1>5, <1>8 DEF Life, Dead
<1> QED
  BY <1>7, <1>8, <1>9, <1>10 DEF Fate, Life, d

\* An execute kills only one whom no floor holds.
LEMMA ExecuteFate ==
  ASSUME IInv, NEW out, Execute(out)
  PROVE  \A e \in Entities : Fate(states[e], states'[e])
<1> DEFINE c == states[out.recipient]
           met == c.current_hp * Percent <= out.threshold * c.max_hp
           loss == IF met THEN HpLoss(c, c.current_hp) ELSE 0
           stopped == IF met THEN c.current_hp - loss ELSE 0
           d == Wounded(c, loss, stopped)
<1>1. Processing(out, "EXECUTE") /\ Becomes(out, d)
  BY DEF Execute
<1>2. /\ out.recipient \in Entities /\ pc = "outputs" /\ todo # <<>>
      /\ GoodState(c) /\ ~Dead(c) /\ clock \in Nat /\ serial \in Nat
  BY <1>1, ActingOutput
<1> HIDE DEF c, met
<1>3. c.current_hp \in Nat /\ c.current_hp > 0
  BY <1>2 DEF GoodState, CombatantState, Dead
<1>4. loss \in 0..c.current_hp
  BY <1>2, <1>3, LossBounded
<1>5. loss >= c.current_hp => \A k \in DeathKeys : c.death_preventions[k].floor = 0
  BY <1>2, <1>3, FloorsHold
<1> HIDE DEF loss, stopped
<1>6. Fate(c, d)
  BY <1>2, <1>4, <1>5, WoundFate
<1> HIDE DEF d
<1> QED
  BY <1>1, <1>2, <1>6, OutputFate DEF Becomes, c

\* Timed shields that are struck have not run out.
LEMMA StrikeShieldFate ==
  ASSUME IInv, NEW out, StrikeShield(out)
  PROVE  \A e \in Entities : Fate(states[e], states'[e])
<1> DEFINE c == states[out.recipient]
           absorbed == Smaller(c.shield, PostMitigation(out))
           d == [c EXCEPT !.shield = @ - absorbed, !.timed_shields = ActiveShields(c, clock)]
<1>1. Becomes(out, d) /\ pc = "outputs" /\ todo # <<>> /\ out = Head(todo)
  BY DEF StrikeShield
<1>2. out \in Outputs
  BY <1>1 DEF IInv, ReplayTyped
<1>3. out.recipient \in Entities
  BY <1>2, RecipientsExist
<1>4. c \in CombatantState
  BY <1>3 DEF IInv, Healthy
<1> HIDE DEF c, absorbed
<1>5. /\ SameStatuses(c, d) /\ SameEffects(c, d)
      /\ d.timed_max_health = c.timed_max_health
      /\ d.regen_accrued_ms = c.regen_accrued_ms
      /\ d.timed_shields = ActiveShields(c, clock)
      /\ d.current_hp = c.current_hp
  BY <1>4 DEF CombatantState, SameStatuses, SameEffects
<1> HIDE DEF d
<1>6. Life(c, d)
  BY <1>5 DEF Life, Dead
<1>7. \A t \in d.timed_shields : clock < t.end
  BY <1>5 DEF ActiveShields
<1>8. Fate(c, d)
  BY <1>4, <1>5, <1>6, <1>7, HealthFate
<1> QED
  BY <1>1, <1>3, <1>8, OutputFate DEF Becomes, c

\* The first shield that absorbs a hit is one of the recipient's.
LEMMA FirstAbsorbing ==
  ASSUME IInv, NEW out, out.recipient \in Entities, Absorbing(out) # {}
  PROVE  (CHOOSE x \in Absorbing(out) : \A y \in Absorbing(out) : x.serial <= y.serial)
           \in states[out.recipient].timed_shields
<1>1. /\ Absorbing(out) \subseteq states[out.recipient].timed_shields
      /\ \A t \in states[out.recipient].timed_shields : t.serial \in Nat
  BY DEF Absorbing, IInv, Healthy, CombatantState, TimedShield
<1>2. {t.serial : t \in Absorbing(out)} \subseteq Nat /\ {t.serial : t \in Absorbing(out)} # {}
  BY <1>1
<1>3. PICK n \in {t.serial : t \in Absorbing(out)} :
        \A m \in {t.serial : t \in Absorbing(out)} : n <= m
  BY <1>2, LeastNatural
<1>4. \E x \in Absorbing(out) : \A y \in Absorbing(out) : x.serial <= y.serial
  BY <1>3
<1> QED
  BY <1>1, <1>4

\* A timed shield that absorbs keeps its end.
LEMMA StrikeTimedShieldFate ==
  ASSUME IInv, StrikeTimedShield
  PROVE  \A e \in Entities : Fate(states[e], states'[e])
<1> DEFINE out == Head(todo)
           c == states[out.recipient]
           t == CHOOSE x \in Absorbing(out) : \A y \in Absorbing(out) : x.serial <= y.serial
           u == [t EXCEPT !.current = @ - Taken(t)]
           d == [c EXCEPT !.timed_shields = (@ \ {t}) \cup {u}]
<1>1. Becomes(out, d) /\ pc = "absorb" /\ Absorbing(out) # {}
  BY DEF StrikeTimedShield
<1>2. out \in Outputs
  BY <1>1 DEF IInv, ReplayTyped, Striking
<1>3. out.recipient \in Entities
  BY <1>2, RecipientsExist
<1>4. c \in CombatantState
  BY <1>3 DEF IInv, Healthy
<1>5. t \in c.timed_shields
  BY <1>1, <1>3, FirstAbsorbing
<1> HIDE DEF c, t, out
<1>6. u.end = t.end
  BY <1>4, <1>5 DEF CombatantState, TimedShield
<1> HIDE DEF u
<1>7. /\ SameStatuses(c, d) /\ SameEffects(c, d)
      /\ d.timed_max_health = c.timed_max_health
      /\ d.regen_accrued_ms = c.regen_accrued_ms
      /\ d.timed_shields = (c.timed_shields \ {t}) \cup {u}
      /\ d.current_hp = c.current_hp
  BY <1>4 DEF CombatantState, SameStatuses, SameEffects
<1> HIDE DEF d
<1>8. Life(c, d)
  BY <1>7 DEF Life, Dead
<1>9. EffectsCurrent(c, clock) => \A s \in d.timed_shields : clock < s.end
  BY <1>5, <1>6, <1>7 DEF EffectsCurrent
<1>10. Fate(c, d)
  BY <1>1, <1>4, <1>7, <1>8, <1>9, HealthFate
<1> QED
  BY <1>1, <1>3, <1>10, OutputFate DEF Becomes, c

\* The hit kills its recipient only where no floor holds, and its source, when it
\* heals from the hit, was alive.
LEMMA LoseHealthFate ==
  ASSUME IInv, LoseHealth
  PROVE  \A e \in Entities : Fate(states[e], states'[e])
<1> DEFINE out == Head(todo)
           r == out.recipient
           q == event.source
           c == states[r]
           s == states[q]
           loss == HpLoss(c, hit.remaining)
           stopped == hit.remaining - loss
           vamp == IF r = q \/ Dead(s) THEN 0 ELSE Share(hit.damage, VampRatio(out, s))
           w == Wounded(c, loss, stopped)
<1>1. /\ pc = "absorb"
      /\ states' = [[states EXCEPT ![r] = w] EXCEPT ![q] = ReceiveHealing(@, vamp)]
  BY DEF LoseHealth
<1>2. /\ todo # <<>> /\ out \in Outputs /\ out.kind \in DamageKinds /\ event \in Events
  BY <1>1 DEF IInv, ReplayTyped, Striking
<1>3. r \in Entities /\ q \in Entities
  BY <1>2, RecipientsExist DEF Events
<1>4. clock \in Nat /\ serial \in Nat /\ hit.damage \in Nat /\ hit.remaining \in Nat
  BY BoundsAssumption DEF IInv, ReplayTyped
<1>5. GoodState(c) /\ GoodState(s)
  BY <1>3 DEF IInv, Healthy
<1>6. vamp \in Nat /\ (r = q \/ Dead(s) => vamp = 0)
  <2>1. VampRatio(out, s) \in Nat
    BY <1>2, <1>5, VampRatioNat
  <2>2. Share(hit.damage, VampRatio(out, s)) \in Nat
    BY <1>4, <2>1, ShareNat
  <2> QED
    BY <2>2
<1>7. /\ loss \in 0..c.current_hp
      /\ ~Dead(c) /\ loss >= c.current_hp =>
           \A k \in DeathKeys : c.death_preventions[k].floor = 0
  BY <1>4, <1>5, LossBounded, FloorsHold
<1> HIDE DEF out, c, s, vamp, loss, stopped
<1>8. Fate(c, w)
  BY <1>1, <1>2, <1>4, <1>5, <1>7, WoundFate
<1>9. GoodState(w) /\ w \in CombatantState
  BY <1>4, <1>5, <1>7, WoundedGood DEF GoodState
<1> HIDE DEF w
<1>10. r # q => Fate(s, ReceiveHealing(s, vamp))
  BY <1>5, <1>6, HealedFate
<1>11. r = q => ReceiveHealing(w, vamp) = w
  <2> SUFFICES ASSUME r = q PROVE ReceiveHealing(w, 0) = w
    BY <1>6
  <2>1. Restored(w, 0) = 0
    BY <1>9, NothingRestored
  <2> QED
    BY <1>9, <2>1 DEF ReceiveHealing, CombatantState
<1>12. \A x \in Entities :
         states'[x] = IF x = q THEN ReceiveHealing(IF r = q THEN w ELSE s, vamp)
                      ELSE IF x = r THEN w ELSE states[x]
  BY <1>1, <1>3 DEF IInv, Healthy, s
<1>13. \A x \in Entities : Fate(states[x], states[x])
  BY NoFate DEF IInv, Healthy
<1> QED
  BY <1>8, <1>10, <1>11, <1>12, <1>13 DEF c, s

-----------------------------------------------------------------------------
(* All steps *)

\* Whatever step the replay takes, it treats every participant like this.
LEMMA StepFate ==
  ASSUME IInv, [Next]_vars
  PROVE  \A e \in Entities : Fate(states[e], states'[e])
<1>1. CASE states' = states
  BY <1>1, FateOfNone DEF IInv
<1>2. CASE BringUpToDate
  BY <1>2, AccrueFate, ReleaseFate, ExpireFate, ExpireMaxHealthFate DEF BringUpToDate
<1>3. CASE ConsumeSpellShield
  BY <1>3, ConsumeSpellShieldFate
<1>4. CASE ProcessOutputs
  <2> DEFINE out == Head(todo)
  <2>1. CASE SkipOutput
    BY <1>1, <2>1 DEF SkipOutput
  <2>2. CASE Revive(out) \/ PayHealth(out) \/ GrantMaxHealth(out)
    BY <2>2, ReviveFate, PayHealthFate, GrantMaxHealthFate
  <2>3. CASE ReduceResistance(out) \/ ApplyStatus(out) \/ RemoveStatus(out)
    BY <2>3, ReduceResistanceFate, ApplyStatusFate, RemoveStatusFate
  <2>4. CASE Heal(out) \/ GrantShield(out) \/ ModifyStat(out)
    BY <2>4, HealFate, GrantShieldFate, ModifyStatFate
  <2>5. CASE PreventDeath(out) \/ Execute(out) \/ StrikeShield(out)
    BY <2>5, PreventDeathFate, ExecuteFate, StrikeShieldFate
  <2>6. CASE StrikeTimedShield \/ LoseHealth
    BY <2>6, StrikeTimedShieldFate, LoseHealthFate
  <2> QED
    BY <1>4, <2>1, <2>2, <2>3, <2>4, <2>5, <2>6 DEF ProcessOutputs
<1>5. CASE \/ \E a \in Actions, at \in 0..Duration : NextEvent(a, at)
           \/ SkipEvent \/ StartEvent \/ EndEvent \/ Finish \/ Conclude \/ Returned
           \/ UNCHANGED vars
  BY <1>1, <1>5 DEF NextEvent, SkipEvent, StartEvent, EndEvent, Finish, Conclude,
                    Returned, vars
<1> QED
  BY <1>2, <1>3, <1>4, <1>5 DEF Next

-----------------------------------------------------------------------------
(* The course of a replay *)

\* Time passes only when the next event, or the end, is taken up; deaths are
\* recorded only when an event ends, and every event ends; what a loop has still to
\* process only shrinks.
LEMMA StepTimes ==
  ASSUME IInv, [Next]_vars
  PROVE  /\ clock <= clock'
         /\ clock' # clock =>
              pc = "ready" /\ pc' = "accrue" /\ waiting' = Entities /\ states' = states
         /\ EndEvent \/ UNCHANGED results
         /\ pc \in {"outputs", "absorb"} => pc' \in {"outputs", "absorb"} \/ EndEvent
         /\ event' = event \/ event' \in Actions \cup {EndOfSchedule}
         /\ \/ todo' = todo
            \/ todo # <<>> /\ todo' = Tail(todo)
            \/ event # EndOfSchedule /\ todo' = event.outputs
<1>1. clock \in 0..Duration /\ clock \in Int /\ Duration \in Int
      /\ (pc = "absorb" => todo # <<>>)
  BY BoundsAssumption DEF IInv, ReplayTyped, Striking
<1>2. CASE \/ \E a \in Actions, at \in 0..Duration : NextEvent(a, at)
           \/ Finish
  BY <1>1, <1>2 DEF NextEvent, Finish
<1>3. CASE BringUpToDate
  BY <1>1, <1>3 DEF BringUpToDate, AccrueRegeneration, ReleasePendingHeal, Expire,
                    ExpireMaxHealth, replay
<1>4. CASE SkipEvent \/ StartEvent \/ Conclude \/ ConsumeSpellShield
  BY <1>1, <1>4 DEF SkipEvent, StartEvent, Conclude, ConsumeSpellShield, UpToDate
<1>5. CASE ProcessOutputs
  <2> DEFINE out == Head(todo)
  <2>1. CASE SkipOutput
    BY <1>1, <2>1 DEF SkipOutput
  <2> DEFINE Processed == /\ todo # <<>> /\ todo' = Tail(todo)
                          /\ UNCHANGED <<clock, pc, event, results>>
  <2>2. \A kind : Processing(out, kind) => Processed
    BY DEF Processing
  <2>3. CASE Processed
    BY <1>1, <2>3
  <2>4. CASE StrikeShield(out) \/ StrikeTimedShield \/ LoseHealth
    <3>1. CASE StrikeShield(out)
      BY <1>1, <3>1 DEF StrikeShield
    <3>2. CASE StrikeTimedShield
      BY <1>1, <3>2 DEF StrikeTimedShield
    <3>3. CASE LoseHealth
      BY <1>1, <3>3 DEF LoseHealth
    <3> QED
      BY <2>4, <3>1, <3>2, <3>3
  <2>5. ProcessOutputs => \/ SkipOutput \/ Processed
                          \/ StrikeShield(out) \/ StrikeTimedShield \/ LoseHealth
    BY <2>2 DEF ProcessOutputs, Revive, PayHealth, GrantMaxHealth, ReduceResistance,
                ApplyStatus, RemoveStatus, Heal, GrantShield, ModifyStat, PreventDeath,
                Execute
  <2> QED
    BY <1>5, <2>1, <2>3, <2>4, <2>5
<1>6. CASE EndEvent
  BY <1>1, <1>6 DEF EndEvent
<1>7. CASE Returned \/ UNCHANGED vars
  BY <1>1, <1>7 DEF Returned, vars, replay
<1> QED
  BY <1>2, <1>3, <1>4, <1>5, <1>6, <1>7 DEF Next

-----------------------------------------------------------------------------
(* Maximum health and the credit of reductions *)

\* The grants that run are finitely many, and healing is reduced only by a status
\* that someone applied.
Sound ==
  \A e \in Entities : Credited(states[e]) /\ IsFiniteSet(states[e].timed_max_health)

LEMMA SoundInit == Init => Sound
<1>1. \A e \in Entities : Fresh(e).status_magnitudes["HEALING_REDUCTION"] = 0
                          /\ Fresh(e).timed_max_health = {}
  BY DEF Fresh, Statuses
<1>2. Init => \A e \in Entities : states[e] = Fresh(e)
  BY DEF Init
<1> QED
  BY <1>1, <1>2, FS_EmptySet DEF Sound, Credited

LEMMA SoundStep ==
  ASSUME IInv, [Next]_vars, Sound
  PROVE  Sound'
  BY StepFate DEF Sound, Fate

\* What the totals of a set of grants add up to is the sum over the set.
LEMMA SumOfGrants ==
  ASSUME NEW grants, IsFiniteSet(grants), NEW total \in Sums(grants)
  PROVE  SumFunctionOnSet([g \in grants |-> g.amount], grants) = total[grants]
<1> DEFINE f == [g \in grants |-> g.amount]
           G == {T \in SUBSET grants : SumFunctionOnSet(f, T) = total[T]}
<1>1. ASSUME NEW T \in SUBSET grants, \A U \in SUBSET T : U # T => U \in G
      PROVE  T \in G
  <2>1. CASE T = {}
    BY <2>1, SumEmpty DEF Sums
  <2>2. CASE T # {}
    <3>1. Some(T) \in T /\ T \ {Some(T)} \in SUBSET T /\ T \ {Some(T)} # T
      BY <2>2 DEF Some
    <3>2. SumFunctionOnSet(f, T \ {Some(T)}) = total[T \ {Some(T)}]
      BY <1>1, <3>1
    <3>3. IsFiniteSet(T)
      BY FS_Subset
    <3>4. SumFunctionOnSet(f, T) = f[Some(T)] + SumFunctionOnSet(f, T \ {Some(T)})
      BY <2>2, <3>3, SumOfSome
    <3>5. total[T] = total[T \ {Some(T)}] + Some(T).amount
          /\ total[T \ {Some(T)}] \in Nat /\ Some(T).amount \in Nat
      BY <3>1 DEF Sums
    <3>6. f[Some(T)] = Some(T).amount
      BY <3>1
    <3> QED
      BY <3>2, <3>4, <3>5, <3>6
  <2> QED
    BY <2>1, <2>2
<1> HIDE DEF G
<1>2. grants \in G
  BY <1>1, SubsetInduction
<1> QED
  BY <1>2 DEF G

\* Temporary maximum health comes back off, whatever grants overlap.
THEOREM MaxHealthIsAccounted == Spec => []MaxHealthAccounted
<1>1. IInv /\ Sound => MaxHealthAccounted
  <2> SUFFICES ASSUME IInv, Sound, NEW e \in Entities
               PROVE  LET grants == states[e].timed_max_health
                      IN  states[e].max_hp = Roster[e].max_hp +
                            SumFunctionOnSet([g \in grants |-> g.amount], grants)
    BY DEF MaxHealthAccounted
  <2>1. IsFiniteSet(states[e].timed_max_health)
    BY DEF Sound
  <2>2. PICK total \in Sums(states[e].timed_max_health) :
          states[e].max_hp = Roster[e].max_hp + total[states[e].timed_max_health]
    BY DEF IInv, GrantsRunning, GrantsOf
  <2> QED
    BY <2>1, <2>2, SumOfGrants
<1>2. Spec => []Sound
  <2>1. IInv /\ [Next]_vars /\ Sound => Sound'
    BY SoundStep
  <2> QED
    BY <2>1, SoundInit, Invariant, PTL DEF Spec
<1> QED
  BY <1>1, <1>2, Invariant, PTL

-----------------------------------------------------------------------------
(* The damage books *)

\* Damage enters the books when a hit takes health, and only then.
LEMMA DamageBooked ==
  ASSUME IInv, [Next]_vars
  PROVE  UNCHANGED damageBooks \/ LoseHealth
<1>1. CASE \/ \E a \in Actions, at \in 0..Duration : NextEvent(a, at)
           \/ Finish \/ BringUpToDate
  BY <1>1 DEF NextEvent, Finish, BringUpToDate, AccrueRegeneration, ReleasePendingHeal,
              Expire, ExpireMaxHealth
<1>2. CASE SkipEvent \/ StartEvent \/ Conclude \/ ConsumeSpellShield \/ EndEvent
  BY <1>2 DEF SkipEvent, StartEvent, Conclude, ConsumeSpellShield, EndEvent
<1>3. CASE ProcessOutputs
  <2>1. \A out, kind : Processing(out, kind) => UNCHANGED damageBooks
    BY DEF Processing
  <2> QED
    BY <1>3, <2>1 DEF ProcessOutputs, SkipOutput, Revive, PayHealth, GrantMaxHealth,
                      ReduceResistance, ApplyStatus, RemoveStatus, Heal, GrantShield,
                      ModifyStat, PreventDeath, Execute, StrikeShield, StrikeTimedShield
<1>4. CASE Returned \/ UNCHANGED vars
  BY <1>4 DEF Returned, vars
<1> QED
  BY <1>1, <1>2, <1>3, <1>4 DEF Next

\* A hit is booked on its recipient and on its source.
LEMMA DamageBalanced ==
  ASSUME IInv, DamageAttributed, NEW r \in Entities, NEW s \in Entities,
         NEW damage \in Nat, RecordDamage(r, s, damage)
  PROVE  DamageAttributed'
<1>1. IsFiniteSet(Entities) /\ IsFiniteSet(Opponents) /\ Opponents \subseteq Entities
  BY ParticipantsAssumption, SidesAssumption, FS_Subset
<1>2. CASE r \in Allies
  BY <1>2 DEF RecordDamage, damageBooks, DamageAttributed
<1>3. CASE r \notin Allies
  <2> DEFINE early == InHorizon(damage)
  <2>1. r \in Opponents
    BY <1>3, SidesAssumption
  <2>2. early \in Int /\ damage \in Int
    BY DEF InHorizon
  <2>3. /\ damage_by_target' = [damage_by_target EXCEPT ![r] = @ + damage]
        /\ damage_by_source' = [damage_by_source EXCEPT ![s] = @ + damage]
        /\ horizon_damage_by_target' = [horizon_damage_by_target EXCEPT ![r] = @ + early]
        /\ horizon_damage_by_source' = [horizon_damage_by_source EXCEPT ![s] = @ + early]
    BY <1>3 DEF RecordDamage
  <2>4. /\ damage_by_target \in [Opponents -> Int]
        /\ horizon_damage_by_target \in [Opponents -> Int]
        /\ damage_by_source \in [Entities -> Int]
        /\ horizon_damage_by_source \in [Entities -> Int]
    BY DEF IInv, DamageTyped
  <2> HIDE DEF early
  <2>5. /\ SumFunctionOnSet(damage_by_target', Opponents)
             = SumFunctionOnSet(damage_by_target, Opponents) + damage
        /\ SumFunctionOnSet(horizon_damage_by_target', Opponents)
             = SumFunctionOnSet(horizon_damage_by_target, Opponents) + early
    <3>1. SumFunctionOnSet(damage_by_target', Opponents)
            = SumFunctionOnSet(damage_by_target, Opponents) + damage
      BY ZenonT(30), <1>1, <2>1, <2>2, <2>3, <2>4, SumBooked
    <3>2. SumFunctionOnSet(horizon_damage_by_target', Opponents)
            = SumFunctionOnSet(horizon_damage_by_target, Opponents) + early
      BY ZenonT(30), <1>1, <2>1, <2>2, <2>3, <2>4, SumBooked
    <3> QED
      BY <3>1, <3>2
  <2>6. /\ SumFunctionOnSet(damage_by_source', Entities)
             = SumFunctionOnSet(damage_by_source, Entities) + damage
        /\ SumFunctionOnSet(horizon_damage_by_source', Entities)
             = SumFunctionOnSet(horizon_damage_by_source, Entities) + early
    <3>1. SumFunctionOnSet(damage_by_source', Entities)
            = SumFunctionOnSet(damage_by_source, Entities) + damage
      BY ZenonT(30), <1>1, <2>2, <2>3, <2>4, SumBooked
    <3>2. SumFunctionOnSet(horizon_damage_by_source', Entities)
            = SumFunctionOnSet(horizon_damage_by_source, Entities) + early
      BY ZenonT(30), <1>1, <2>2, <2>3, <2>4, SumBooked
    <3> QED
      BY <3>1, <3>2
  <2> QED
    BY <2>5, <2>6 DEF DamageAttributed
<1> QED
  BY <1>2, <1>3

LEMMA AttributionStep ==
  ASSUME IInv, [Next]_vars, DamageAttributed
  PROVE  DamageAttributed'
<1>1. CASE UNCHANGED damageBooks
  BY <1>1 DEF damageBooks, DamageAttributed
<1>2. CASE LoseHealth
  <2>1. RecordDamage(Head(todo).recipient, event.source, hit.damage) /\ pc = "absorb"
    BY <1>2 DEF LoseHealth
  <2>2. Head(todo) \in Outputs /\ event \in Events /\ hit.damage \in Nat
    BY <2>1 DEF IInv, ReplayTyped, Striking
  <2>3. Head(todo).recipient \in Entities /\ event.source \in Entities
    BY <2>2, RecipientsExist DEF Events
  <2> QED
    BY <2>1, <2>2, <2>3, DamageBalanced
<1> QED
  BY <1>1, <1>2, DamageBooked

\* Nothing booked anywhere adds up to the same on both sides.
LEMMA BooksBalancedAtFirst == Init => DamageAttributed /\ PreventionCredited
<1> SUFFICES ASSUME Init PROVE DamageAttributed /\ PreventionCredited
  OBVIOUS
<1>1. IsFiniteSet(Entities) /\ IsFiniteSet(Opponents)
  BY ParticipantsAssumption, SidesAssumption, FS_Subset
<1>2. \A e \in Entities :
        /\ damage_by_source[e] = 0 /\ horizon_damage_by_source[e] = 0
        /\ healing_prevented_by_entity[e] = 0 /\ healing_prevented_by_source[e] = 0
  BY DEF Init
<1>3. \A e \in Opponents : damage_by_target[e] = 0 /\ horizon_damage_by_target[e] = 0
  BY DEF Init
<1>4. /\ SumFunctionOnSet(damage_by_target, Opponents) = 0
      /\ SumFunctionOnSet(horizon_damage_by_target, Opponents) = 0
  BY <1>1, <1>3, SumZero
<1>5. /\ SumFunctionOnSet(damage_by_source, Entities) = 0
      /\ SumFunctionOnSet(horizon_damage_by_source, Entities) = 0
  BY <1>1, <1>2, SumZero
<1>6. /\ SumFunctionOnSet(healing_prevented_by_entity, Entities) = 0
      /\ SumFunctionOnSet(healing_prevented_by_source, Entities) = 0
  BY <1>1, <1>2, SumZero
<1> QED
  BY <1>4, <1>5, <1>6 DEF DamageAttributed, PreventionCredited

\* What was dealt to the opponents is what sources are credited with, over the
\* encounter and inside the horizon.
THEOREM DamageIsAttributed == Spec => []DamageAttributed
<1>1. IInv /\ [Next]_vars /\ DamageAttributed => DamageAttributed'
  BY AttributionStep
<1> QED
  BY <1>1, BooksBalancedAtFirst, Invariant, PTL DEF Spec

-----------------------------------------------------------------------------
(* The healing books *)

\* An unreduced heal is prevented by nothing but the cap, which does not count.
LEMMA NothingPrevented ==
  ASSUME NEW c, GoodState(c), NEW amount \in Nat,
         c.status_magnitudes["HEALING_REDUCTION"] = 0
  PROVE  Prevented(c, amount) = 0
<1>1. Missing(c) \in Nat
  BY DEF Missing, Larger, GoodState, CombatantState
<1>2. Amplified(c, amount) \in Nat
  <2>1. Percent + StatModifierTotal(c, "HEALING_RECEIVED_INCREASE_PERCENT") \in Nat
    BY ModifierTotalNat, NamesDistinct DEF Percent
  <2> QED
    BY <2>1, ShareNat DEF Amplified
<1>3. HealingReduction(c) = 0
  BY DEF HealingReduction, Smaller, Percent
<1>4. Share(Amplified(c, amount), Percent - HealingReduction(c)) = Amplified(c, amount)
  <2>1. \A n \in Nat : Share(n, Percent - 0) = n
    BY DEF Share, Percent
  <2> QED
    BY <1>2, <1>3, <2>1
<1>5. Restored(c, amount) = Smaller(Amplified(c, amount), Missing(c))
  BY <1>4 DEF Restored
<1>6. Smaller(Amplified(c, amount), Missing(c)) \in Nat
  BY <1>1, <1>2 DEF Smaller
<1> QED
  BY <1>5, <1>6 DEF Prevented, Larger

\* Participant e is healed in a state whose reduction, if any, has a source.
Heals(e, c, amount) ==
  GoodState(c) /\ Credited(c) /\ amount \in Nat /\ RecordHealing(e, c, amount)

LEMMA HealingBalanced ==
  ASSUME IInv, PreventionCredited, NEW e \in Entities, NEW c, NEW amount,
         Heals(e, c, amount)
  PROVE  PreventionCredited'
<1> DEFINE n == Prevented(c, amount)
           r == Reducer(c)
<1>1. GoodState(c) /\ Credited(c) /\ amount \in Nat
  BY DEF Heals
<1>2. n \in Int /\ (r \in Entities \/ r = NoEntity)
  BY <1>1, HealingGood
<1>3. /\ healing_prevented_by_entity' = [healing_prevented_by_entity EXCEPT ![e] = @ + n]
      /\ healing_prevented_by_source' =
           IF r # NoEntity THEN [healing_prevented_by_source EXCEPT ![r] = @ + n]
           ELSE healing_prevented_by_source
  BY DEF Heals, RecordHealing
<1>4. r = NoEntity => n = 0
  BY <1>1, NothingPrevented DEF Credited
<1>5. /\ healing_prevented_by_entity \in [Entities -> Int]
      /\ healing_prevented_by_source \in [Entities -> Int]
  BY DEF IInv, HealingTyped
<1> HIDE DEF n, r
<1>6. SumFunctionOnSet(healing_prevented_by_entity', Entities)
        = SumFunctionOnSet(healing_prevented_by_entity, Entities) + n
  BY <1>2, <1>3, <1>5, ParticipantsAssumption, SumBooked
<1>7. CASE r = NoEntity
  <2>1. SumFunctionOnSet(healing_prevented_by_entity, Entities) \in Int
    BY <1>5, ParticipantsAssumption, SumInt
  <2> QED
    BY <1>3, <1>4, <1>6, <1>7, <2>1 DEF PreventionCredited
<1>8. CASE r # NoEntity
  <2>1. SumFunctionOnSet(healing_prevented_by_source', Entities)
          = SumFunctionOnSet(healing_prevented_by_source, Entities) + n
    BY <1>2, <1>3, <1>5, <1>8, ParticipantsAssumption, SumBooked
  <2> QED
    BY <1>6, <2>1 DEF PreventionCredited
<1> QED
  BY <1>7, <1>8

\* Every path that heals records what it heals, in the state it heals.
LEMMA HealingBooked ==
  ASSUME IInv, [Next]_vars, Sound
  PROVE  UNCHANGED healingBooks
         \/ \E e \in Entities : \E c, amount : Heals(e, c, amount)
<1>1. CASE AccrueRegeneration
  <2> DEFINE e == CHOOSE x \in waiting : TRUE
             amount == Regeneration(states[e], Roster[e].health_regen, clock)
  <2>1. e \in Entities
    BY <1>1 DEF AccrueRegeneration, IInv, ReplayTyped
  <2> HIDE DEF e
  <2>2. GoodState(states[e]) /\ Credited(states[e]) /\ clock \in Nat
        /\ states[e].regen_accrued_ms \in Nat /\ Roster[e].health_regen \in Nat
    BY <2>1, BoundsAssumption, RosterAssumption
    DEF IInv, Healthy, ReplayTyped, Sound, CombatantState, Combatants
  <2>3. amount \in Nat
    BY <2>2, ProductNat DEF Regeneration
  <2>4. RecordHealing(e, states[e], amount)
    BY <1>1 DEF AccrueRegeneration, e
  <2> QED
    BY <2>1, <2>2, <2>3, <2>4 DEF Heals
<1>2. ASSUME NEW e \in Entities, ReleasePendingHeal(e)
      PROVE  \E c, amount : Heals(e, c, amount)
  <2> DEFINE c == states[e]
             h == FirstDue(DueHeals(c, clock))
             amount == IF Dead(c) THEN 0 ELSE h.amount
  <2>1. GoodState(c) /\ Credited(c)
    BY DEF IInv, Healthy, Sound
  <2>2. DueHeals(c, clock) \subseteq [serial : Nat, due : Nat, amount : Nat]
    BY <2>1 DEF DueHeals, GoodState, CombatantState
  <2>3. RecordHealing(e, c, amount) /\ DueHeals(c, clock) # {}
    BY <1>2 DEF ReleasePendingHeal
  <2>4. h \in [serial : Nat, due : Nat, amount : Nat]
    BY <2>2, <2>3, FirstDueIn
  <2> HIDE DEF h
  <2>5. amount \in Nat
    BY <2>4
  <2> QED
    BY <2>1, <2>3, <2>5 DEF Heals
<1>3. CASE ConsumeSpellShield
  <2> DEFINE e == CHOOSE x \in waiting : TRUE
             b == Without(states[e], {"SPELL_SHIELD", "SPELL_SHIELD_HEAL"})
             amount == IF HasStatus(states[e], "SPELL_SHIELD_HEAL")
                         THEN states[e].status_magnitudes["SPELL_SHIELD_HEAL"] ELSE 0
  <2>1. e \in Entities
    BY <1>3 DEF ConsumeSpellShield, IInv, ReplayTyped
  <2>2. RecordHealing(e, b, amount)
    BY <1>3 DEF ConsumeSpellShield
  <2> HIDE DEF e
  <2>3. GoodState(states[e]) /\ Credited(states[e])
    BY <2>1 DEF IInv, Healthy, Sound
  <2>4. GoodState(b) /\ Credited(b)
    BY <2>3, WithoutGood, WithoutFate DEF Fate
  <2>5. amount \in Nat
    BY <2>3 DEF GoodState, CombatantState, Statuses
  <2> QED
    BY <2>1, <2>2, <2>4, <2>5 DEF Heals
<1>4. CASE Heal(Head(todo))
  <2> DEFINE out == Head(todo)
             c == states[out.recipient]
             amount == Share(out.amount + Share(Missing(c), out.ratio),
                             Percent + Roster[event.source].heal_shield_power)
  <2>1. Processing(out, "HEAL") /\ RecordHealing(out.recipient, c, amount)
    BY <1>4 DEF Heal
  <2>2. /\ out \in Outputs /\ out.kind = "HEAL" /\ out.recipient \in Entities
        /\ GoodState(c) /\ event \in Events
    BY <2>1, ActingOutput
  <2>3. Credited(c)
    BY <2>2 DEF Sound
  <2>4. out.amount \in Nat /\ out.ratio \in Nat
    BY <2>2 DEF Outputs, Percent
  <2>5. Missing(c) \in Nat
    BY <2>2 DEF Missing, Larger, GoodState, CombatantState
  <2>6. Percent + Roster[event.source].heal_shield_power \in Nat
    BY <2>2, RosterAssumption DEF Events, Combatants, Percent
  <2>7. out.amount + Share(Missing(c), out.ratio) \in Nat
    <3>1. Share(Missing(c), out.ratio) \in Nat
      BY <2>4, <2>5, ShareNat
    <3> QED
      BY <2>4, <3>1
  <2>8. amount \in Nat
    BY <2>6, <2>7, ShareNat
  <2> QED
    BY <2>1, <2>2, <2>3, <2>8 DEF Heals
<1>5. CASE LoseHealth
  <2> DEFINE out == Head(todo)
             q == event.source
             s == states[q]
             vamp == IF out.recipient = q \/ Dead(s) THEN 0
                     ELSE Share(hit.damage, VampRatio(out, s))
  <2>1. pc = "absorb" /\ RecordHealing(q, s, vamp)
    BY <1>5 DEF LoseHealth
  <2>2. /\ out \in Outputs /\ out.kind \in DamageKinds /\ event \in Events
        /\ hit.damage \in Nat
    BY <2>1 DEF IInv, ReplayTyped, Striking
  <2>3. q \in Entities
    BY <2>2 DEF Events
  <2>4. GoodState(s) /\ Credited(s)
    BY <2>3 DEF IInv, Healthy, Sound
  <2>5. VampRatio(out, s) \in Nat
    BY <2>2, <2>4, VampRatioNat
  <2>6. Share(hit.damage, VampRatio(out, s)) \in Nat
    BY <2>2, <2>5, ShareNat
  <2>7. vamp \in Nat
    BY <2>6
  <2> QED
    BY <2>1, <2>3, <2>4, <2>7 DEF Heals
<1>6. CASE Expire \/ \E e \in Entities : ExpireMaxHealth(e)
  BY <1>6 DEF Expire, ExpireMaxHealth, UnchangedHealing
<1>7. CASE \/ \E a \in Actions, at \in 0..Duration : NextEvent(a, at)
           \/ SkipEvent \/ StartEvent \/ EndEvent \/ Finish \/ Conclude \/ Returned
           \/ UNCHANGED vars
  BY <1>7 DEF NextEvent, SkipEvent, StartEvent, EndEvent, Finish, Conclude, Returned,
              vars, UnchangedHealing
<1>8. CASE ProcessOutputs
  <2> DEFINE out == Head(todo)
  <2>1. \/ UNCHANGED healingBooks \/ Heal(out) \/ LoseHealth
    BY <1>8 DEF ProcessOutputs, SkipOutput, Revive, PayHealth, GrantMaxHealth,
                ReduceResistance, ApplyStatus, RemoveStatus, GrantShield, ModifyStat,
                PreventDeath, Execute, StrikeShield, StrikeTimedShield, Becomes,
                UnchangedHealing
  <2> QED
    BY <1>4, <1>5, <2>1
<1> QED
  BY <1>1, <1>2, <1>3, <1>6, <1>7, <1>8 DEF Next, BringUpToDate

\* All healing that reductions prevented is credited, none of it twice.
THEOREM PreventionIsCredited == Spec => []PreventionCredited
<1>1. IInv /\ [Next]_vars /\ Sound /\ PreventionCredited => PreventionCredited'
  <2> SUFFICES ASSUME IInv, [Next]_vars, Sound, PreventionCredited
               PROVE  PreventionCredited'
    OBVIOUS
  <2>1. CASE UNCHANGED healingBooks
    BY <2>1 DEF healingBooks, PreventionCredited
  <2>2. CASE \E e \in Entities : \E c, amount : Heals(e, c, amount)
    BY <2>2, HealingBalanced
  <2> QED
    BY <2>1, <2>2, HealingBooked
<1>2. IInv /\ [Next]_vars /\ Sound => Sound'
  BY SoundStep
<1> QED
  BY <1>1, <1>2, SoundInit, BooksBalancedAtFirst, Invariant, PTL DEF Spec

-----------------------------------------------------------------------------
(* Times of death *)

\* Who is dead between events is recorded as dead, and no later than now.
Recorded ==
  \A e \in Entities :
    /\ death_ms_by_entity[e] # NotDead => death_ms_by_entity[e] <= clock
    /\ pc \notin {"outputs", "absorb"} /\ Dead(states[e]) /\ Roster[e].current_hp > 0
         => death_ms_by_entity[e] # NotDead

\* Only the end of an event records a death, and it records every one.
LEMMA DeathsKept ==
  ASSUME IInv, [Next]_vars, NEW e \in Entities
  PROVE  /\ EndEvent => death_ms_by_entity'[e] = DeathTime(e) /\ UNCHANGED <<states, clock>>
         /\ ~EndEvent => death_ms_by_entity'[e] = death_ms_by_entity[e]
  BY StepTimes DEF EndEvent, results

LEMMA RecordedStep ==
  ASSUME IInv, [Next]_vars, Recorded
  PROVE  Recorded'
<1> SUFFICES ASSUME NEW e \in Entities
             PROVE  /\ death_ms_by_entity'[e] # NotDead => death_ms_by_entity'[e] <= clock'
                    /\ pc' \notin {"outputs", "absorb"} /\ Dead(states'[e])
                       /\ Roster[e].current_hp > 0 => death_ms_by_entity'[e] # NotDead
  BY DEF Recorded
<1>1. /\ clock \in Int /\ clock' \in Int /\ clock <= clock' /\ clock # NotDead
      /\ death_ms_by_entity[e] \in Int
  <2>1. clock \in Int /\ clock # NotDead
    BY BoundsAssumption DEF IInv, ReplayTyped, NotDead
  <2>2. clock' \in Int
    BY NextPreserves, BoundsAssumption DEF IInv, ReplayTyped
  <2>3. death_ms_by_entity[e] \in Int
    BY BoundsAssumption DEF IInv, DeathsTyped, NotDead
  <2> QED
    BY <2>1, <2>2, <2>3, StepTimes
<1>2. CASE EndEvent
  <2>1. death_ms_by_entity'[e] = DeathTime(e) /\ UNCHANGED <<states, clock>>
    BY <1>2, DeathsKept
  <2> QED
    BY <1>1, <2>1 DEF DeathTime, Recorded
<1>3. CASE ~EndEvent
  <2>1. death_ms_by_entity'[e] = death_ms_by_entity[e]
    BY <1>3, DeathsKept
  <2>2. pc \in {"outputs", "absorb"} => pc' \in {"outputs", "absorb"}
    BY <1>3, StepTimes
  <2>3. Dead(states'[e]) => Dead(states[e]) \/ pc \in {"outputs", "absorb"}
    BY StepFate DEF Fate, Kills
  <2> QED
    BY <1>1, <2>1, <2>2, <2>3 DEF Recorded
<1> QED
  BY <1>2, <1>3

LEMMA RecordedInit == Init => Recorded
<1> SUFFICES ASSUME Init, NEW e \in Entities
             PROVE  /\ death_ms_by_entity[e] = NotDead
                    /\ states[e].current_hp = Roster[e].current_hp
                    /\ Roster[e].current_hp \in Nat
  BY DEF Recorded, Dead
<1>1. death_ms_by_entity[e] = NotDead /\ states[e] = Fresh(e)
  BY DEF Init
<1> QED
  BY <1>1, FreshGood, RosterAssumption DEF Combatants

\* Whoever lies dead between events has a time of death, not after the clock.
THEOREM DeathsAreRecorded == Spec => []DeathsRecorded
<1>1. Recorded => DeathsRecorded
  BY DEF Recorded, DeathsRecorded
<1>2. IInv /\ [Next]_vars /\ Recorded => Recorded'
  BY RecordedStep
<1> QED
  BY <1>1, <1>2, RecordedInit, Invariant, PTL DEF Spec

-----------------------------------------------------------------------------
(* What is in force *)

Acting == {"block", "outputs", "absorb"}

\* The participants are brought up to date turn by turn: regeneration, then what
\* expires by its time, then maximum health; an event acts when all of it is done.
UpToNow(e) ==
  LET c == states[e]
  IN  /\ c.regen_accrued_ms <= clock
      /\ pc = "accrue" /\ e \notin waiting => c.regen_accrued_ms = clock
      /\ pc \in {"release", "expire", "done"} \cup Acting => c.regen_accrued_ms = clock
      /\ pc \in {"expire", "done"} \cup Acting => EffectsCurrent(c, clock)
      /\ pc \in {"done"} \cup Acting => GrantsCurrent(c, clock)
      /\ pc \in {"expire", "block", "done"} => \A h \in c.pending_heals : clock < h.due

Timely == \A e \in Entities : UpToNow(e)

\* The phases of a replay follow one another in one order.
LEMMA PhaseStep ==
  ASSUME IInv, [Next]_vars
  PROVE  \/ pc' = "accrue" /\ waiting' = Entities /\ states' = states
         \/ AccrueRegeneration
         \/ Expire
         \/ UpToDate /\ pc' \in {"ready", "done"} \cup Acting /\ UNCHANGED <<states, clock>>
         \/ /\ pc # "accrue" /\ clock' = clock
            /\ pc' = pc \/ pc' = "ready" \/ (pc \in Acting /\ pc' \in Acting)
         \/ UNCHANGED <<states, clock, pc, waiting>>
<1>1. CASE \/ \E a \in Actions, at \in 0..Duration : NextEvent(a, at)
           \/ Finish
  BY <1>1 DEF NextEvent, Finish
<1>2. CASE BringUpToDate
  BY <1>2 DEF BringUpToDate, ReleasePendingHeal, ExpireMaxHealth, replay
<1>3. CASE SkipEvent \/ StartEvent \/ Conclude
  BY <1>3 DEF SkipEvent, StartEvent, Conclude, Acting
<1>4. CASE ConsumeSpellShield \/ EndEvent
  BY <1>4 DEF ConsumeSpellShield, EndEvent, Acting
<1>5. CASE ProcessOutputs
  <2> DEFINE out == Head(todo)
  <2>1. \A kind : Processing(out, kind) => pc = "outputs" /\ UNCHANGED <<clock, pc>>
    BY DEF Processing
  <2>2. CASE \E kind : Processing(out, kind)
    BY <2>1, <2>2
  <2>3. CASE SkipOutput \/ StrikeShield(out) \/ StrikeTimedShield \/ LoseHealth
    BY <2>3 DEF SkipOutput, StrikeShield, StrikeTimedShield, LoseHealth, Acting
  <2>4. ProcessOutputs => \/ \E kind : Processing(out, kind)
                          \/ SkipOutput \/ StrikeShield(out) \/ StrikeTimedShield \/ LoseHealth
    BY DEF ProcessOutputs, Revive, PayHealth, GrantMaxHealth, ReduceResistance,
           ApplyStatus, RemoveStatus, Heal, GrantShield, ModifyStat, PreventDeath, Execute
  <2> QED
    BY <1>5, <2>2, <2>3, <2>4
<1>6. CASE Returned \/ UNCHANGED vars
  BY <1>6 DEF Returned, vars, replay
<1> QED
  BY <1>1, <1>2, <1>3, <1>4, <1>5, <1>6 DEF Next

\* Once the due heals are released, none comes or goes before outputs are processed.
LEMMA HealsStay ==
  ASSUME IInv, [Next]_vars, pc' \in {"expire", "block", "done"}, ~Expire
  PROVE  /\ pc \in {"expire", "block", "done"}
         /\ \A e \in Entities : states'[e].pending_heals = states[e].pending_heals
<1>1. CASE \/ \E a \in Actions, at \in 0..Duration : NextEvent(a, at)
           \/ Finish
  BY <1>1 DEF NextEvent, Finish
<1>2. CASE AccrueRegeneration \/ \E e \in Entities : ReleasePendingHeal(e)
  BY <1>2 DEF AccrueRegeneration, ReleasePendingHeal, replay
<1>3. ASSUME NEW e \in Entities, ExpireMaxHealth(e)
      PROVE  /\ pc = "expire"
             /\ \A x \in Entities : states'[x].pending_heals = states[x].pending_heals
  <2> DEFINE g == CHOOSE x \in ExpiredGrants(states[e], clock) : TRUE
             d == ExpireGrant(states[e], g)
  <2>1. pc = "expire" /\ states' = [states EXCEPT ![e] = d]
    BY <1>3 DEF ExpireMaxHealth
  <2> HIDE DEF g
  <2>2. d.pending_heals = states[e].pending_heals
    BY DEF ExpireGrant, IInv, Healthy, CombatantState
  <2> HIDE DEF d
  <2>3. \A x \in Entities : states'[x] = IF x = e THEN d ELSE states[x]
    BY <2>1 DEF IInv, Healthy
  <2> QED
    BY <2>1, <2>2, <2>3
<1>4. CASE SkipEvent \/ StartEvent \/ Conclude
  BY <1>4 DEF SkipEvent, StartEvent, Conclude, UpToDate
<1>5. CASE ConsumeSpellShield
  <2> DEFINE e == CHOOSE x \in waiting : TRUE
             b == Without(states[e], {"SPELL_SHIELD", "SPELL_SHIELD_HEAL"})
             amount == IF HasStatus(states[e], "SPELL_SHIELD_HEAL")
                         THEN states[e].status_magnitudes["SPELL_SHIELD_HEAL"] ELSE 0
             d == ReceiveHealing(b, amount)
  <2>1. e \in Entities
    BY <1>5 DEF ConsumeSpellShield, IInv, ReplayTyped
  <2>2. pc = "block" /\ states' = [states EXCEPT ![e] = d]
    BY <1>5 DEF ConsumeSpellShield
  <2> HIDE DEF e, amount
  <2>3. d.pending_heals = states[e].pending_heals
    BY <2>1 DEF ReceiveHealing, Without, IInv, Healthy, CombatantState
  <2> HIDE DEF d
  <2>4. \A x \in Entities : states'[x] = IF x = e THEN d ELSE states[x]
    BY <2>2 DEF IInv, Healthy
  <2> QED
    BY <2>2, <2>3, <2>4
<1>6. CASE EndEvent
  BY <1>6 DEF EndEvent
<1>7. CASE ProcessOutputs
  <2> DEFINE out == Head(todo)
  <2>1. \A kind : Processing(out, kind) => pc' = "outputs"
    BY DEF Processing
  <2>2. SkipOutput \/ LoseHealth => pc' = "outputs"
    BY DEF SkipOutput, LoseHealth
  <2>3. StrikeShield(out) \/ StrikeTimedShield => pc' = "absorb"
    BY DEF StrikeShield, StrikeTimedShield
  <2> QED
    BY <1>7, <2>1, <2>2, <2>3
    DEF ProcessOutputs, Revive, PayHealth, GrantMaxHealth, ReduceResistance,
        ApplyStatus, RemoveStatus, Heal, GrantShield, ModifyStat, PreventDeath, Execute
<1>8. CASE Returned \/ UNCHANGED vars
  BY <1>8 DEF Returned, vars, replay
<1> QED
  BY <1>1, <1>2, <1>3, <1>4, <1>5, <1>6, <1>7, <1>8 DEF Next, BringUpToDate

\* A turn of accrue_all_regeneration brings its participant up to the clock.
LEMMA AccrueTimely ==
  ASSUME IInv, Timely, AccrueRegeneration
  PROVE  Timely'
<1> DEFINE e == CHOOSE x \in waiting : TRUE
           b == ReceiveHealing(states[e], Regeneration(states[e], Roster[e].health_regen, clock))
           d == [b EXCEPT !.regen_accrued_ms = Larger(@, clock)]
<1>1. /\ e \in waiting /\ e \in Entities /\ pc = "accrue" /\ clock' = clock
      /\ waiting' = waiting \ {e}
      /\ pc' = IF waiting = {e} THEN "release" ELSE "accrue"
      /\ states' = [states EXCEPT ![e] = d]
  BY DEF AccrueRegeneration, IInv, ReplayTyped
<1> HIDE DEF e
<1>2. /\ states[e] \in CombatantState /\ states[e].regen_accrued_ms \in Nat
      /\ states[e].regen_accrued_ms <= clock /\ clock \in Nat
  <2>1. states[e] \in CombatantState /\ clock \in Nat
    BY <1>1, BoundsAssumption DEF IInv, Healthy, ReplayTyped
  <2>2. states[e].regen_accrued_ms \in Nat
    BY <2>1 DEF CombatantState
  <2>3. states[e].regen_accrued_ms <= clock
    BY <1>1 DEF Timely, UpToNow
  <2> QED
    BY <2>1, <2>2, <2>3
<1>3. d.regen_accrued_ms = clock
  <2>1. b.regen_accrued_ms = states[e].regen_accrued_ms
    BY <1>2 DEF ReceiveHealing, CombatantState
  <2>2. d.regen_accrued_ms = Larger(b.regen_accrued_ms, clock)
    BY <1>2 DEF ReceiveHealing, CombatantState
  <2> QED
    BY <1>2, <2>1, <2>2 DEF Larger
<1> HIDE DEF d
<1>4. \A x \in Entities : states'[x] = IF x = e THEN d ELSE states[x]
  BY <1>1 DEF IInv, Healthy
<1> SUFFICES ASSUME NEW x \in Entities PROVE UpToNow(x)'
  BY DEF Timely
<1>5. states'[x].regen_accrued_ms <= clock'
      /\ (x \notin waiting' => states'[x].regen_accrued_ms = clock')
  BY <1>1, <1>2, <1>3, <1>4 DEF Timely, UpToNow
<1>6. pc' = "release" => x \notin waiting'
  BY <1>1, <1>4 DEF Timely, UpToNow, IInv, ReplayTyped
<1> QED
  BY <1>1, <1>5, <1>6 DEF UpToNow, Acting

\* Every step keeps the participants as far up to date as its phase asks.
LEMMA TimelyStep ==
  ASSUME IInv, [Next]_vars, Timely
  PROVE  Timely'
<1>1. clock \in Int /\ clock' \in Int /\ clock <= clock'
  BY NextPreserves, StepTimes, BoundsAssumption DEF IInv, ReplayTyped
<1>2. \A e \in Entities :
        states[e] \in CombatantState /\ states[e].regen_accrued_ms \in Int
        /\ Fate(states[e], states'[e])
  BY StepFate DEF IInv, Healthy, CombatantState
<1>3. CASE pc' = "accrue" /\ waiting' = Entities /\ states' = states
  BY <1>1, <1>2, <1>3 DEF Timely, UpToNow, Acting
<1>4. CASE AccrueRegeneration
  BY <1>4, AccrueTimely
<1>5. CASE Expire
  <2> SUFFICES ASSUME NEW e \in Entities PROVE UpToNow(e)'
    BY DEF Timely
  <2>1. /\ pc = "release" /\ pc' = "expire" /\ clock' = clock
        /\ states'[e] = ExpireEffects(states[e], clock)
    BY <1>5 DEF Expire
  <2>2. clock \in Nat
    BY BoundsAssumption DEF IInv, ReplayTyped
  <2>3. EffectsCurrent(states'[e], clock')
    BY <1>2, <2>1, <2>2, ExpiredCurrent
  <2>4. states'[e].regen_accrued_ms = clock'
    BY <1>2, <2>1 DEF Timely, UpToNow, Fate
  <2>5. \A h \in states'[e].pending_heals : clock' < h.due
    <3>1. DueHeals(states[e], clock) = {}
      BY <1>5 DEF Expire
    <3>2. states'[e].pending_heals = states[e].pending_heals
      BY <1>2, <2>1 DEF ExpireEffects, CombatantState
    <3>3. \A h \in states[e].pending_heals : h.due \in Int
      BY <1>2 DEF CombatantState
    <3> QED
      BY <2>1, <2>2, <3>1, <3>2, <3>3 DEF DueHeals
  <2> QED
    BY <1>1, <2>1, <2>3, <2>4, <2>5 DEF UpToNow, Acting
<1>6. CASE UpToDate /\ pc' \in {"ready", "done"} \cup Acting /\ UNCHANGED <<states, clock>>
  <2> SUFFICES ASSUME NEW e \in Entities PROVE UpToNow(e)'
    BY DEF Timely
  <2>1. pc = "expire" /\ ExpiredGrants(states[e], clock) = {}
    BY <1>6 DEF UpToDate
  <2>2. \A g \in states[e].timed_max_health : g.end \in Int
    BY <1>2 DEF CombatantState
  <2>3. GrantsCurrent(states[e], clock)
    BY <1>1, <2>1, <2>2 DEF ExpiredGrants, GrantsCurrent
  <2>4. /\ states[e].regen_accrued_ms = clock /\ EffectsCurrent(states[e], clock)
        /\ \A h \in states[e].pending_heals : clock < h.due
    BY <2>1 DEF Timely, UpToNow
  <2> QED
    BY <1>1, <1>6, <2>3, <2>4 DEF UpToNow, EffectsCurrent, GrantsCurrent, Acting
<1>7. CASE /\ pc # "accrue" /\ clock' = clock
           /\ pc' = pc \/ pc' = "ready" \/ (pc \in Acting /\ pc' \in Acting)
  <2> SUFFICES ASSUME NEW e \in Entities PROVE UpToNow(e)'
    BY DEF Timely
  <2>1. UpToNow(e) /\ Fate(states[e], states'[e])
    BY <1>2 DEF Timely
  <2>2. states'[e].regen_accrued_ms = states[e].regen_accrued_ms
        /\ (EffectsCurrent(states[e], clock) => EffectsCurrent(states'[e], clock'))
        /\ (GrantsCurrent(states[e], clock) => GrantsCurrent(states'[e], clock'))
    BY <1>7, <2>1 DEF Fate
  <2>3. pc' = "accrue" => FALSE
    BY <1>7 DEF Acting
  <2>4. pc' \in {"expire", "block", "done"} =>
          \A h \in states'[e].pending_heals : clock' < h.due
    BY <1>5, <1>7, <2>1, HealsStay DEF UpToNow, Timely
  <2> QED
    BY <1>7, <2>1, <2>2, <2>3, <2>4 DEF UpToNow, Acting
<1>8. CASE UNCHANGED <<states, clock, pc, waiting>>
  BY <1>8 DEF Timely, UpToNow, EffectsCurrent, GrantsCurrent
<1> QED
  BY <1>3, <1>4, <1>5, <1>6, <1>7, <1>8, PhaseStep

LEMMA TimelyInit == Init => Timely
  BY DEF Init, Fresh, Timely, UpToNow, Acting

\* Whenever an event acts, and in the final snapshot, nothing that has run out is
\* still in force; and no heal of a consumed window is due when an event begins.
THEOREM NothingIsOverdue == Spec => []NothingOverdue
<1>1. Timely => NothingOverdue
  BY DEF Timely, UpToNow, Acting, NothingOverdue, EffectsCurrent, GrantsCurrent
<1>2. IInv /\ [Next]_vars /\ Timely => Timely'
  BY TimelyStep
<1> QED
  BY <1>1, <1>2, TimelyInit, Invariant, PTL DEF Spec

-----------------------------------------------------------------------------
(* Who dies, who lives again, and what a healing reduction becomes *)

\* While a healing reduction lasts, a further one never weakens or shortens it.
THEOREM GrievousStrengthens == Spec => GrievousOnlyStrengthens
<1>1. IInv /\ [Next]_vars =>
        [\A e \in Entities :
           LET before == states[e]  after == states'[e]  w == "HEALING_REDUCTION"
           IN  HasStatus(before, w) /\ HasStatus(after, w) =>
                 /\ after.status_magnitudes[w] >= before.status_magnitudes[w]
                 /\ after.statuses[w] >= before.statuses[w]
                 /\ after.status_sources[w] # before.status_sources[w] =>
                      /\ Head(todo).magnitude = after.status_magnitudes[w]
                      /\ after.status_sources[w] = event.source]_vars
  BY StepFate DEF Fate, Strengthens
<1> QED
  BY <1>1, Invariant, PTL DEF Spec, GrievousOnlyStrengthens

\* Every death and every revival, on whatever schedule, has its cause in the step:
\* a hit, an execute or a cost that no floor of the participant holds, a REVIVE
\* output, or the heal of a spell shield.
THEOREM LivesHaveCauses ==
  Spec => [][\A e \in Entities :
               /\ ~Dead(states[e]) /\ Dead(states'[e]) => Kills(states[e])
               /\ Dead(states[e]) /\ ~Dead(states'[e]) => Revives(states[e])]_vars
<1>1. IInv /\ [Next]_vars =>
        [\A e \in Entities :
           /\ ~Dead(states[e]) /\ Dead(states'[e]) => Kills(states[e])
           /\ Dead(states[e]) /\ ~Dead(states'[e]) => Revives(states[e])]_vars
  BY StepFate DEF Fate
<1> QED
  BY <1>1, Invariant, PTL DEF Spec

\* The outputs that the events of the schedule declare.
Declared == UNION {{a.outputs[i] : i \in DOMAIN a.outputs} : a \in Actions}

\* What is replayed is what was scheduled.
Scheduled ==
  /\ event \in Actions \cup {EndOfSchedule}
  /\ \A i \in 1..Len(todo) : todo[i] \in Declared

LEMMA ScheduledStep ==
  ASSUME IInv, [Next]_vars, Scheduled
  PROVE  Scheduled'
<1>1. todo \in Seq(Outputs)
  BY DEF IInv, ReplayTyped
<1>2. CASE todo' = todo
  BY <1>2, StepTimes DEF Scheduled
<1>3. CASE todo # <<>> /\ todo' = Tail(todo)
  <2>1. Len(todo') = Len(todo) - 1 /\ \A i \in 1..Len(todo') : todo'[i] = todo[i + 1]
    BY <1>1, <1>3
  <2>2. \A i \in 1..Len(todo') : i + 1 \in 1..Len(todo)
    BY <1>1, <2>1
  <2> QED
    BY <2>1, <2>2, StepTimes DEF Scheduled
<1>4. CASE event # EndOfSchedule /\ todo' = event.outputs
  <2>1. event \in Actions /\ event.outputs \in Seq(Outputs)
    BY <1>4, ActionsAssumption DEF Scheduled, Events
  <2>2. \A i \in 1..Len(todo') : i \in DOMAIN event.outputs /\ todo'[i] = event.outputs[i]
    BY <1>4, <2>1
  <2> QED
    BY <2>1, <2>2, StepTimes DEF Scheduled, Declared
<1> QED
  BY <1>2, <1>3, <1>4, StepTimes

LEMMA ScheduledInit == Init => Scheduled
<1>1. Init => event = EndOfSchedule /\ Len(todo) = 0
  BY DEF Init
<1>2. Len(todo) = 0 => 1..Len(todo) = {}
  OBVIOUS
<1> QED
  BY <1>1, <1>2 DEF Scheduled

\* The output being processed was declared.
LEMMA HeadDeclared ==
  ASSUME IInv, Scheduled, todo # <<>>
  PROVE  Head(todo) \in Declared
<1>1. todo \in Seq(Outputs)
  BY DEF IInv, ReplayTyped
<1>2. 1 \in 1..Len(todo) /\ Head(todo) = todo[1]
  BY <1>1
<1> QED
  BY <1>2 DEF Scheduled

\* No health cost of the schedule may take the last health, which is how
\* HealthCostOutput is built everywhere (its health_floor is 1 unless told otherwise).
CostsLeaveHealth == \A out \in Declared : out.kind = "HEALTH_COST" => out.floor > 0

\* Where costs leave health, nobody dies under a floor that is still active.
THEOREM NobodyDiesUnderFloor ==
  ASSUME CostsLeaveHealth
  PROVE  Spec => NoDeathUnderFloor
<1>1. IInv /\ Scheduled /\ [Next]_vars =>
        [\A e \in Entities :
           ~Dead(states[e]) /\ Dead(states'[e]) =>
             \A k \in DeathKeys : states[e].death_preventions[k].floor = 0]_vars
  <2> SUFFICES ASSUME IInv, Scheduled, [Next]_vars, NEW e \in Entities,
                      ~Dead(states[e]), Dead(states'[e])
               PROVE  \A k \in DeathKeys : states[e].death_preventions[k].floor = 0
    OBVIOUS
  <2>1. Kills(states[e])
    BY StepFate DEF Fate
  <2>2. Head(todo) \in Declared
    BY <2>1, HeadDeclared DEF Kills
  <2>3. ~(Head(todo).kind = "HEALTH_COST" /\ Head(todo).floor = 0)
    BY <2>2 DEF CostsLeaveHealth
  <2> QED
    BY <2>1, <2>3 DEF Kills
<1>2. IInv /\ [Next]_vars /\ Scheduled => Scheduled'
  BY ScheduledStep
<1> QED
  BY <1>1, <1>2, ScheduledInit, Invariant, PTL DEF Spec, NoDeathUnderFloor

\* No output of the schedule gives a spell shield a heal, which Sivir's E does.
GrantsNoShieldHeal ==
  \A out \in Declared : ~(out.kind = "STATUS" /\ out.status = "SPELL_SHIELD_HEAL")

NoShieldHeals == \A e \in Entities : ~HasStatus(states[e], "SPELL_SHIELD_HEAL")

LEMMA NoShieldHealsInit == Init => NoShieldHeals
  BY DEF Init, Fresh, NoShieldHeals, HasStatus, Statuses

LEMMA NoShieldHealsStep ==
  ASSUME GrantsNoShieldHeal, IInv, Scheduled, NoShieldHeals, [Next]_vars
  PROVE  NoShieldHeals'
<1> SUFFICES ASSUME NEW e \in Entities, HasStatus(states'[e], "SPELL_SHIELD_HEAL")
             PROVE  FALSE
  BY DEF NoShieldHeals, HasStatus
<1>1. GrantsShieldHeal
  BY StepFate DEF Fate, NoShieldHeals
<1>2. Head(todo) \in Declared
  BY <1>1, HeadDeclared DEF GrantsShieldHeal
<1> QED
  BY <1>1, <1>2 DEF GrantsShieldHeal, GrantsNoShieldHeal

\* Without such a heal only a REVIVE output brings a participant back.
THEOREM OnlyRevivalRestores ==
  ASSUME GrantsNoShieldHeal
  PROVE  Spec => OnlyReviveRestores
<1>1. IInv /\ NoShieldHeals /\ [Next]_vars =>
        [\A e \in Entities :
           Dead(states[e]) /\ ~Dead(states'[e]) =>
             pc = "outputs" /\ Head(todo).kind = "REVIVE"]_vars
  BY StepFate DEF Fate, Revives, NoShieldHeals
<1>2. IInv /\ [Next]_vars /\ Scheduled => Scheduled'
  BY ScheduledStep
<1>3. IInv /\ Scheduled /\ NoShieldHeals /\ [Next]_vars => NoShieldHeals'
  BY NoShieldHealsStep
<1> QED
  BY <1>1, <1>2, <1>3, ScheduledInit, NoShieldHealsInit, Invariant, PTL
  DEF Spec, OnlyReviveRestores

-----------------------------------------------------------------------------
(* The horizon *)

\* Everyone takes part alive and nothing in the schedule revives, as in every
\* encounter without a resurrection.
NoSecondLife ==
  /\ \A e \in Entities : Roster[e].current_hp > 0
  /\ GrantsNoShieldHeal
  /\ \A out \in Declared : out.kind # "REVIVE"

\* The dead stay dead, and the checkpoint at the horizon and the times of death
\* agree on who they are.
HorizonAgrees ==
  \A e \in Entities :
    /\ death_ms_by_entity[e] # NotDead => Dead(states[e])
    /\ horizon_snapshots[e].dead <=> death_ms_by_entity[e] <= Horizon

LEMMA HorizonAgreesInit ==
  ASSUME NoSecondLife, Init
  PROVE  HorizonAgrees
<1> SUFFICES ASSUME NEW e \in Entities
             PROVE  death_ms_by_entity[e] = NotDead /\ ~horizon_snapshots[e].dead
  BY BoundsAssumption DEF HorizonAgrees, NotDead
<1>1. horizon_snapshots[e] = Snapshot(Fresh(e)) /\ death_ms_by_entity[e] = NotDead
  BY DEF Init
<1>2. ~Dead(Fresh(e))
  BY FreshGood, RosterAssumption DEF NoSecondLife, Dead, Combatants
<1> QED
  BY <1>1, <1>2 DEF Snapshot

LEMMA HorizonAgreesStep ==
  ASSUME NoSecondLife, IInv, Scheduled, NoShieldHeals, Recorded, HorizonAgrees, [Next]_vars
  PROVE  HorizonAgrees'
<1> SUFFICES ASSUME NEW e \in Entities
             PROVE  /\ death_ms_by_entity'[e] # NotDead => Dead(states'[e])
                    /\ horizon_snapshots'[e].dead <=> death_ms_by_entity'[e] <= Horizon
  BY DEF HorizonAgrees
<1>1. /\ death_ms_by_entity[e] # NotDead => Dead(states[e])
      /\ horizon_snapshots[e].dead <=> death_ms_by_entity[e] <= Horizon
      /\ death_ms_by_entity[e] # NotDead => death_ms_by_entity[e] <= clock
  BY DEF HorizonAgrees, Recorded
<1>2. /\ clock \in Int /\ Horizon \in Int /\ Horizon < NotDead /\ clock # NotDead
      /\ death_ms_by_entity[e] \in Int
  BY BoundsAssumption DEF IInv, ReplayTyped, DeathsTyped, NotDead
<1>3. Dead(states[e]) => Dead(states'[e])
  <2>1. ~Revives(states[e])
    BY HeadDeclared DEF Revives, NoSecondLife, NoShieldHeals
  <2> QED
    BY <2>1, StepFate DEF Fate
<1>4. CASE EndEvent
  <2>1. death_ms_by_entity'[e] = DeathTime(e) /\ states'[e] = states[e]
    BY <1>4, DeathsKept
  <2>2. horizon_snapshots'[e] = Checkpoint(e)
    BY <1>4 DEF EndEvent
  <2>3. Snapshot(states[e]).dead = Dead(states[e])
    BY DEF Snapshot
  <2> QED
    BY <1>1, <1>2, <2>1, <2>2, <2>3 DEF DeathTime, Checkpoint
<1>5. CASE ~EndEvent
  <2>1. death_ms_by_entity'[e] = death_ms_by_entity[e] /\ horizon_snapshots' = horizon_snapshots
    BY <1>5, DeathsKept, StepTimes DEF results
  <2> QED
    BY <1>1, <1>3, <2>1
<1> QED
  BY <1>4, <1>5

\* Who is dead in the horizon snapshot is who died at or before the horizon.
THEOREM HorizonDeathsAgreement ==
  ASSUME NoSecondLife
  PROVE  Spec => []HorizonDeathsAgree
<1>1. HorizonAgrees => HorizonDeathsAgree
  BY DEF HorizonAgrees, HorizonDeathsAgree
<1>2. Spec => []Scheduled
  <2>1. IInv /\ [Next]_vars /\ Scheduled => Scheduled'
    BY ScheduledStep
  <2> QED
    BY <2>1, ScheduledInit, Invariant, PTL DEF Spec
<1>3. Spec => []NoShieldHeals
  <2>1. IInv /\ Scheduled /\ NoShieldHeals /\ [Next]_vars => NoShieldHeals'
    BY NoShieldHealsStep DEF NoSecondLife
  <2> QED
    BY <1>2, <2>1, NoShieldHealsInit, Invariant, PTL DEF Spec
<1>4. Spec => []Recorded
  <2>1. IInv /\ [Next]_vars /\ Recorded => Recorded'
    BY RecordedStep
  <2> QED
    BY <2>1, RecordedInit, Invariant, PTL DEF Spec
<1>5. Spec => []HorizonAgrees
  <2>1. Init => HorizonAgrees
    BY HorizonAgreesInit
  <2>2. IInv /\ Scheduled /\ NoShieldHeals /\ Recorded /\ HorizonAgrees /\ [Next]_vars
          => HorizonAgrees'
    BY HorizonAgreesStep
  <2> QED
    BY <1>2, <1>3, <1>4, <2>1, <2>2, Invariant, PTL DEF Spec
<1> QED
  BY <1>1, <1>5, PTL

=============================================================================
