------------------------------ MODULE Timeline ------------------------------
(***************************************************************************)
(* simulate_timeline of core/timeline.py: the replay of one encounter.     *)
(*                                                                         *)
(* The schedule is chosen as it is replayed: NextEvent takes any action of *)
(* Actions at any time not before the last one, which is every list of     *)
(* events sorted by (at_ms, sequence).  A loop of the function is one      *)
(* action per turn; the order in which the turns follow one another is     *)
(* kept by pc.                                                             *)
(***************************************************************************)
EXTENDS Combatant, Sequences, FiniteSets

CONSTANTS
  Allies,      \* ALLY_ENTITIES of this encounter
  Opponents,   \* OPPONENT_ENTITIES of this encounter
  Roster,      \* Roster[e]: the immutable Combatant of participant e
  Actions,     \* the ActionEvents a schedule may hold, without their time
  Windows,     \* damage_modifier_windows
  Duration,    \* duration_ms
  Horizon,     \* horizon_ms
  MaxEvents,   \* bound: events in one schedule
  EndOfSchedule \* what stands for an event after the last one

Combatants ==
  [ max_hp : Nat \ {0}, current_hp : Nat, shield : Nat,
    armor : Int, magic_resistance : Int,
    percent_armor_penetration : 0..Percent, flat_armor_penetration : Nat,
    percent_magic_penetration : 0..Percent, flat_magic_penetration : Nat,
    tenacity : 0..Percent, life_steal : Nat, omnivamp : Nat,
    health_regen : Nat, heal_shield_power : Nat ]

DamageKinds == {"DAMAGE", "CURRENT_HEALTH_DAMAGE", "MISSING_HEALTH_DAMAGE"}

Outputs ==
       [ kind : {"DAMAGE"}, recipient : Entities, amount : Nat, type : DamageTypes,
         percent_penetration : 0..Percent, flat_penetration : Nat, heal_ratio : Nat ]
  \cup [ kind : {"CURRENT_HEALTH_DAMAGE"}, recipient : Entities, ratio : 0..Percent,
         type : DamageTypes, cap : Nat ]
  \cup [ kind : {"MISSING_HEALTH_DAMAGE"}, recipient : Entities, amount : Nat,
         ratio : 0..Percent, type : DamageTypes ]
  \cup [ kind : {"HEAL"}, recipient : Entities, amount : Nat, ratio : 0..Percent ]
  \cup [ kind : {"HEALTH_COST"}, recipient : Entities, amount : Nat,
         ratio : 0..Percent, floor : Nat ]
  \cup [ kind : {"MAX_HEALTH"}, recipient : Entities, amount : Nat \ {0},
         duration : Nat \ {0} ]
  \cup [ kind : {"SHIELD"}, recipient : Entities, amount : Nat, duration : Nat \ {0},
         types : SUBSET DamageTypes, decay_delay : Nat ]
  \cup [ kind : {"RESISTANCE_REDUCTION"}, recipient : Entities, stat : ResistanceStats,
         fraction : 0..Percent, max_stacks : Nat \ {0}, duration : Nat \ {0} ]
  \cup [ kind : {"STATUS"}, recipient : Entities, status : Statuses,
         duration : Nat \ {0}, magnitude : Nat ]
  \cup [ kind : {"REMOVE_STATUS"}, recipient : Entities, group : SUBSET Statuses ]
  \cup [ kind : {"REVIVE"}, recipient : Entities, amount : Nat \ {0} ]
  \cup [ kind : {"STAT_MODIFIER"}, recipient : Entities, stat : ResistanceStats,
         amount : Int, duration : Nat \ {0} ]
  \cup [ kind : {"STAT_MODIFIER"}, recipient : Entities, stat : Stats,
         amount : Nat, duration : Nat \ {0} ]
  \cup [ kind : {"EXECUTE"}, recipient : Entities, threshold : 0..Percent ]
  \cup [ kind : {"DEATH_PREVENTION"}, recipient : Entities, floor : Nat,
         duration : Nat \ {0}, key : DeathKeys, stasis : Nat, heal : Nat ]

Channels == {"BASIC_ATTACK", "ABILITY", "MOVEMENT", "ITEM_ACTIVE", "PASSIVE"}

Events ==
  [ source : Entities, channel : Channels, outputs : Seq(Outputs),
    requires_living_opponent : BOOLEAN, requires_source_alive : BOOLEAN,
    cancelled : BOOLEAN ]

ASSUME SidesAssumption ==
  Entities = Allies \cup Opponents /\ Allies \cap Opponents = {}

\* simulate_timeline takes one to five participants on each side.
ASSUME ParticipantsAssumption == IsFiniteSet(Entities)

ASSUME RosterAssumption ==
  /\ \A e \in Entities : Roster[e] \in Combatants
  /\ \A e \in Entities : Roster[e].current_hp <= Roster[e].max_hp

ASSUME ActionsAssumption == Actions \subseteq Events /\ EndOfSchedule \notin Events

ASSUME BoundsAssumption ==
  /\ Duration \in Nat \ {0} /\ Horizon \in 0..Duration /\ MaxEvents \in Nat
  /\ Duration < Forever

\* One modifier window at most covers a hit.
ASSUME WindowsAssumption ==
  /\ Windows \subseteq [ recipient : Entities, start : Nat, end : Nat,
                         types : SUBSET DamageTypes, multiplier : 0..Percent ]
  /\ \A v, w \in Windows :
       v.recipient = w.recipient /\ v.types \cap w.types # {}
         => v = w \/ v.end <= w.start \/ w.end <= v.start

VARIABLES
  states,     \* states[e]: the working state of participant e
  clock,      \* at_ms of the event being replayed
  pc,         \* where the replay is
  event,      \* the event being replayed, or EndOfSchedule
  waiting,    \* participants the current loop has still to visit
  todo,       \* outputs of the event not yet processed
  blocked,    \* spell_shield_blocked
  hit,        \* the damage that absorb_shield is working on
  fired,      \* number of events replayed, which the bound counts
  serial      \* number of list entries appended
VARIABLES
  damage_by_target, horizon_damage_by_target,
  damage_by_source, horizon_damage_by_source,
  healing_by_entity, healing_prevented_by_entity, healing_prevented_by_source,
  death_ms_by_entity,
  horizon_snapshots,
  audit       \* what the log says, added up by participant (see AuditEntry)

replay == <<clock, pc, event, waiting, todo, blocked, hit, fired, serial>>
damageBooks == <<damage_by_target, horizon_damage_by_target,
                 damage_by_source, horizon_damage_by_source>>
healingBooks == <<healing_by_entity, healing_prevented_by_entity,
                  healing_prevented_by_source>>
results == <<death_ms_by_entity, horizon_snapshots>>
vars == <<states, replay, damageBooks, healingBooks, results, audit>>

NotDead == Duration + 1        \* no entry in death_ms_by_entity
NoHit == [damage |-> 0, remaining |-> 0, visited |-> 0]

Phases == {"ready", "accrue", "release", "expire", "block", "outputs", "absorb", "done"}

\* The log's hp_delta of damage (lost), shield_absorbed, and what a floor
\* stopped; of the other entries except heals (granted, spent); and the
\* health that expire_max_health takes, which the log does not show.
AuditEntry == [lost : Int, absorbed : Int, stopped : Int,
               granted : Int, spent : Int, clamped : Int]

TypeOK ==
  /\ states \in [Entities -> CombatantState]
  /\ \A e \in Entities : \A s \in Stats \ ResistanceStats : \A g \in Groups :
       states[e].stat_modifiers[s][g].amount \in Nat
  /\ clock \in 0..Duration
  /\ pc \in Phases
  /\ event \in Events \cup {EndOfSchedule}
  /\ waiting \subseteq Entities
  /\ blocked \subseteq Entities
  /\ todo \in Seq(Outputs)
  /\ hit \in [damage : Nat, remaining : Nat, visited : Nat]
  /\ fired \in 0..MaxEvents
  /\ serial \in Nat
  /\ damage_by_target \in [Opponents -> Nat]
  /\ horizon_damage_by_target \in [Opponents -> Nat]
  /\ damage_by_source \in [Entities -> Nat]
  /\ horizon_damage_by_source \in [Entities -> Nat]
  /\ healing_by_entity \in [Entities -> Int]
  /\ healing_prevented_by_entity \in [Entities -> Nat]
  /\ healing_prevented_by_source \in [Entities -> Nat]
  /\ death_ms_by_entity \in [Entities -> 0..NotDead]
  /\ audit \in [Entities -> AuditEntry]

-----------------------------------------------------------------------------
Fresh(e) ==
  [ max_hp |-> Roster[e].max_hp, current_hp |-> Roster[e].current_hp,
    shield |-> Roster[e].shield,
    resistance_reductions |-> [s \in ResistanceStats |-> NoReduction],
    statuses |-> [s \in Statuses |-> Absent],
    status_magnitudes |-> [s \in Statuses |-> 0],
    status_sources |-> [s \in Statuses |-> NoEntity],
    timed_shields |-> {},
    stat_modifiers |-> [s \in Stats |-> [g \in Groups |-> NoModifier]],
    death_preventions |-> [k \in DeathKeys |-> NoPrevention],
    pending_heals |-> {}, timed_max_health |-> {}, regen_accrued_ms |-> 0 ]

Init ==
  /\ states = [e \in Entities |-> Fresh(e)]
  /\ clock = 0 /\ pc = "ready" /\ event = EndOfSchedule
  /\ waiting = {} /\ todo = <<>> /\ blocked = {} /\ hit = NoHit
  /\ fired = 0 /\ serial = 1
  /\ damage_by_target = [e \in Opponents |-> 0]
  /\ horizon_damage_by_target = [e \in Opponents |-> 0]
  /\ damage_by_source = [e \in Entities |-> 0]
  /\ horizon_damage_by_source = [e \in Entities |-> 0]
  /\ healing_by_entity = [e \in Entities |-> 0]
  /\ healing_prevented_by_entity = [e \in Entities |-> 0]
  /\ healing_prevented_by_source = [e \in Entities |-> 0]
  /\ death_ms_by_entity = [e \in Entities |-> NotDead]
  /\ horizon_snapshots = [e \in Entities |-> Snapshot(Fresh(e))]
  /\ audit = [e \in Entities |-> [lost |-> 0, absorbed |-> 0, stopped |-> 0,
                                  granted |-> 0, spent |-> 0, clamped |-> 0]]

RecordHealing_WhenRestored(e, c, amount) ==
  LET prevented == Prevented(c, amount)
  IN  /\ healing_by_entity' = [healing_by_entity EXCEPT ![e] = @ + Restored(c, amount)]
      /\ healing_prevented_by_entity' =
           [healing_prevented_by_entity EXCEPT ![e] = @ + prevented]
      /\ healing_prevented_by_source' =
           IF Reducer(c) # NoEntity /\ Restored(c, amount) > 0
             THEN [healing_prevented_by_source EXCEPT ![Reducer(c)] = @ + prevented]
             ELSE healing_prevented_by_source

\* record_healing of what receive_healing(amount) does to participant e in state c.
RecordHealing(e, c, amount) ==
  LET prevented == Prevented(c, amount)
  IN  /\ healing_by_entity' = [healing_by_entity EXCEPT ![e] = @ + Restored(c, amount)]
      /\ healing_prevented_by_entity' =
           [healing_prevented_by_entity EXCEPT ![e] = @ + prevented]
      /\ healing_prevented_by_source' =
           IF Reducer(c) # NoEntity
             THEN [healing_prevented_by_source EXCEPT ![Reducer(c)] = @ + prevented]
             ELSE healing_prevented_by_source

UnchangedHealing == UNCHANGED healingBooks

-----------------------------------------------------------------------------
(* Bringing every participant up to the time of an event *)

NextEvent(a, at) ==
  /\ pc = "ready" /\ fired < MaxEvents
  /\ at >= clock
  /\ clock' = at /\ event' = a /\ waiting' = Entities /\ pc' = "accrue"
  /\ fired' = fired + 1
  /\ UNCHANGED <<states, todo, blocked, hit, serial, damageBooks, healingBooks,
                 results, audit>>

\* The schedule is exhausted: everything is brought up to the end of the encounter.
Finish ==
  /\ pc = "ready"
  /\ clock' = Duration /\ event' = EndOfSchedule /\ waiting' = Entities
  /\ pc' = "accrue"
  /\ UNCHANGED <<states, todo, blocked, hit, fired, serial, damageBooks,
                 healingBooks, results, audit>>

\* One turn of accrue_all_regeneration; the order of the turns changes nothing.
AccrueRegeneration ==
  LET e == CHOOSE x \in waiting : TRUE
      c == states[e]
      amount == Regeneration(c, Roster[e].health_regen, clock)
  IN  /\ pc = "accrue" /\ waiting # {}
      /\ states' = [states EXCEPT ![e] =
           [ReceiveHealing(c, amount) EXCEPT
              !.regen_accrued_ms = Larger(@, clock)]]
      /\ RecordHealing(e, c, amount)
      /\ waiting' = waiting \ {e}
      /\ pc' = IF waiting = {e} THEN "release" ELSE "accrue"
      /\ UNCHANGED <<clock, event, todo, blocked, hit, fired, serial, damageBooks,
                     results, audit>>

\* One turn of the loop over the trigger heals that have come due; a heal is lost
\* when its recipient is dead.
ReleasePendingHeal(e) ==
  LET c == states[e]
      h == FirstDue(DueHeals(c, clock))
      amount == IF Dead(c) THEN 0 ELSE h.amount
  IN  /\ pc = "release" /\ DueHeals(c, clock) # {}
      /\ states' = [states EXCEPT ![e] =
           [ReceiveHealing(c, amount) EXCEPT !.pending_heals = @ \ {h}]]
      /\ RecordHealing(e, c, amount)
      /\ UNCHANGED <<replay, damageBooks, results, audit>>

\* expire_reductions, _statuses, update_shields, _stat_modifiers and
\* _death_preventions of every participant.
Expire ==
  /\ pc = "release" /\ \A e \in Entities : DueHeals(states[e], clock) = {}
  /\ states' = [e \in Entities |-> ExpireEffects(states[e], clock)]
  /\ pc' = "expire"
  /\ UnchangedHealing
  /\ UNCHANGED <<clock, event, waiting, todo, blocked, hit, fired, serial,
                 damageBooks, results, audit>>

ExpireMaxHealth(e) ==
  LET c == states[e]
      g == CHOOSE x \in ExpiredGrants(c, clock) : TRUE
      n == ExpireGrant(c, g)
  IN  /\ pc = "expire" /\ ExpiredGrants(c, clock) # {}
      /\ states' = [states EXCEPT ![e] = n]
      /\ audit' = [audit EXCEPT ![e].clamped = @ + (c.current_hp - n.current_hp)]
      /\ UnchangedHealing
      /\ UNCHANGED <<replay, damageBooks, results>>

UpToDate == pc = "expire" /\ \A e \in Entities : ExpiredGrants(states[e], clock) = {}

Conclude ==
  /\ UpToDate /\ event = EndOfSchedule
  /\ pc' = "done"
  /\ UnchangedHealing
  /\ UNCHANGED <<states, clock, event, waiting, todo, blocked, hit, fired, serial,
                 damageBooks, results, audit>>

-----------------------------------------------------------------------------
(* Whether the event happens *)

Opposing(e) == IF e \in Allies THEN Opponents ELSE Allies

Skipped ==
  \/ event.cancelled
  \/ Dead(states[event.source]) /\ event.requires_source_alive
  \/ HasStatus(states[event.source], "STASIS")
  \/ /\ event.requires_living_opponent
     /\ \A e \in Opposing(event.source) : Dead(states[e])

\* The continue statements: neither deaths nor the horizon snapshot are recorded.
SkipEvent ==
  /\ UpToDate /\ event # EndOfSchedule /\ Skipped
  /\ pc' = "ready"
  /\ UnchangedHealing
  /\ UNCHANGED <<states, clock, event, waiting, todo, blocked, hit, fired, serial,
                 damageBooks, results, audit>>

Recipients == {event.outputs[i].recipient : i \in DOMAIN event.outputs}

SpellShielded ==
  {e \in Recipients \ {event.source} :
     event.channel = "ABILITY" /\ HasStatus(states[e], "SPELL_SHIELD")}

StartEvent ==
  /\ UpToDate /\ event # EndOfSchedule /\ ~Skipped
  /\ blocked' = SpellShielded /\ waiting' = SpellShielded
  /\ todo' = event.outputs
  /\ pc' = IF SpellShielded = {} THEN "outputs" ELSE "block"
  /\ UnchangedHealing
  /\ UNCHANGED <<states, clock, event, hit, fired, serial, damageBooks, results, audit>>

Without(c, gone) ==
  [c EXCEPT !.statuses = [s \in Statuses |-> IF s \in gone THEN Absent ELSE @[s]],
            !.status_magnitudes = [s \in Statuses |-> IF s \in gone THEN 0 ELSE @[s]]]

\* The shield is used up, and the heal that travels with it is given.
ConsumeSpellShield ==
  LET e == CHOOSE x \in waiting : TRUE
      c == Without(states[e], {"SPELL_SHIELD", "SPELL_SHIELD_HEAL"})
      amount == IF HasStatus(states[e], "SPELL_SHIELD_HEAL")
                  THEN states[e].status_magnitudes["SPELL_SHIELD_HEAL"] ELSE 0
  IN  /\ pc = "block" /\ waiting # {}
      /\ states' = [states EXCEPT ![e] = ReceiveHealing(c, amount)]
      /\ RecordHealing(e, c, amount)
      /\ waiting' = waiting \ {e}
      /\ pc' = IF waiting = {e} THEN "outputs" ELSE "block"
      /\ UNCHANGED <<clock, event, todo, blocked, hit, fired, serial, damageBooks,
                     results, audit>>

-----------------------------------------------------------------------------
(* The outputs of the event, in declared order *)

Unaffected(out) ==
  \/ out.recipient \in blocked
  \/ Dead(states[out.recipient]) /\ out.kind # "REVIVE"

ImmuneInStasis(out) ==
  out.kind \in DamageKinds /\ HasStatus(states[out.recipient], "STASIS")

SkipOutput ==
  /\ pc = "outputs" /\ todo # <<>>
  /\ Unaffected(Head(todo)) \/ ImmuneInStasis(Head(todo))
  /\ todo' = Tail(todo)
  /\ UnchangedHealing
  /\ UNCHANGED <<states, clock, pc, event, waiting, blocked, hit, fired, serial,
                 damageBooks, results, audit>>

\* out is the output to process and it affects its recipient.
Processing(out, kind) ==
  /\ pc = "outputs" /\ todo # <<>> /\ out = Head(todo) /\ out.kind = kind
  /\ ~Unaffected(out)
  /\ todo' = Tail(todo)
  /\ UNCHANGED <<clock, pc, event, waiting, blocked, hit, fired, damageBooks, results>>

\* Only the recipient changes, and its health is not healed.
Becomes(out, c) ==
  /\ states' = [states EXCEPT ![out.recipient] = c]
  /\ UnchangedHealing

Revive(out) ==
  LET c == states[out.recipient]
      health == Smaller(c.max_hp, out.amount)
  IN  /\ Processing(out, "REVIVE")
      /\ Becomes(out, [c EXCEPT !.current_hp = health, !.shield = 0, !.timed_shields = {}])
      /\ audit' = [audit EXCEPT ![out.recipient].granted = @ + (health - c.current_hp)]
      /\ UNCHANGED serial

PayHealth(out) ==
  LET c == states[out.recipient]
      paid == Smaller(out.amount + Share(c.current_hp, out.ratio),
                      Larger(0, c.current_hp - out.floor))
  IN  /\ Processing(out, "HEALTH_COST")
      /\ Becomes(out, [c EXCEPT !.current_hp = @ - paid])
      /\ audit' = [audit EXCEPT ![out.recipient].spent = @ + paid]
      /\ UNCHANGED serial

GrantMaxHealth(out) ==
  LET c == states[out.recipient]
  IN  /\ Processing(out, "MAX_HEALTH")
      /\ Becomes(out, [c EXCEPT
           !.max_hp = @ + out.amount, !.current_hp = @ + out.amount,
           !.timed_max_health = @ \cup
             {[serial |-> serial, amount |-> out.amount, end |-> clock + out.duration]}])
      /\ audit' = [audit EXCEPT ![out.recipient].granted = @ + out.amount]
      /\ serial' = serial + 1

ReduceResistance(out) ==
  LET c == states[out.recipient]
      stacks == Smaller(out.max_stacks, c.resistance_reductions[out.stat].stacks + 1)
  IN  /\ Processing(out, "RESISTANCE_REDUCTION")
      /\ Becomes(out, [c EXCEPT !.resistance_reductions[out.stat] =
           [fraction |-> out.fraction, stacks |-> stacks, end |-> clock + out.duration]])
      /\ UNCHANGED <<serial, audit>>

\* Tenacity shortens crowd control other than airborne, to no less than one.
AdjustedDuration(c, out) ==
  IF out.status = "CC_STUN"
    THEN Larger(1, Share(out.duration,
                         Percent - EffectiveTenacity(c, Roster[out.recipient].tenacity)))
    ELSE out.duration

KeepsStronger_Never(c, out) == FALSE

\* A weaker healing reduction keeps the stronger magnitude and its source.
KeepsStronger(c, out) ==
  /\ out.status = "HEALING_REDUCTION" /\ HasStatus(c, out.status)
  /\ c.status_magnitudes[out.status] > out.magnitude

ApplyStatus(out) ==
  LET c == states[out.recipient]
      end == clock + AdjustedDuration(c, out)
      kept == KeepsStronger(c, out)
  IN  /\ Processing(out, "STATUS")
      /\ Becomes(out, [c EXCEPT
           !.statuses[out.status] =
             IF out.status = "HEALING_REDUCTION" THEN Larger(end, @) ELSE end,
           !.status_magnitudes[out.status] = IF kept THEN @ ELSE out.magnitude,
           !.status_sources[out.status] = IF kept THEN @ ELSE event.source])
      /\ UNCHANGED <<serial, audit>>

RemoveStatus(out) ==
  /\ Processing(out, "REMOVE_STATUS")
  /\ Becomes(out, Without(states[out.recipient], out.group))
  /\ UNCHANGED <<serial, audit>>

\* A champion's own heals grow with the heal and shield power of their source.
Heal(out) ==
  LET c == states[out.recipient]
      amount == Share(out.amount + Share(Missing(c), out.ratio),
                      Percent + Roster[event.source].heal_shield_power)
  IN  /\ Processing(out, "HEAL")
      /\ states' = [states EXCEPT ![out.recipient] = ReceiveHealing(c, amount)]
      /\ RecordHealing(out.recipient, c, amount)
      /\ UNCHANGED <<serial, audit>>

GrantShield(out) ==
  LET c == states[out.recipient]
      amount == Share(Share(out.amount, Percent +
                        StatModifierTotal(c, "SHIELD_RECEIVED_INCREASE_PERCENT")),
                      Percent + Roster[event.source].heal_shield_power)
  IN  /\ Processing(out, "SHIELD")
      /\ IF out.duration = Forever
           THEN Becomes(out, [c EXCEPT !.shield = @ + amount])
           ELSE Becomes(out, [c EXCEPT !.timed_shields = @ \cup
                  {[ serial |-> serial, initial |-> amount, current |-> amount,
                     end |-> clock + out.duration, types |-> out.types,
                     decay_start |-> IF out.decay_delay = Forever THEN Forever
                                     ELSE clock + out.decay_delay ]}])
      /\ serial' = serial + 1
      /\ UNCHANGED audit

ModifyStat(out) ==
  LET group == IF event.channel = "ITEM_ACTIVE" THEN "ITEM" ELSE "ABILITY"
      end == IF out.duration = Forever THEN Forever ELSE clock + out.duration
  IN  /\ Processing(out, "STAT_MODIFIER")
      /\ Becomes(out, [states[out.recipient] EXCEPT
           !.stat_modifiers[out.stat][group] = [amount |-> out.amount, end |-> end]])
      /\ UNCHANGED <<serial, audit>>

PreventDeath(out) ==
  /\ Processing(out, "DEATH_PREVENTION")
  /\ Becomes(out, [states[out.recipient] EXCEPT !.death_preventions[out.key] =
       [ floor |-> out.floor, end |-> clock + out.duration,
         stasis |-> out.stasis, heal |-> out.heal ]])
  /\ UNCHANGED <<serial, audit>>

\* c after losing health to damage of which stopped was held off by a floor.
Wounded(c, loss, stopped) ==
  LET left == [c EXCEPT !.current_hp = @ - loss]
  IN  IF stopped > 0 THEN TriggerDeathPrevention(left, clock, serial) ELSE left

Execute(out) ==
  LET c == states[out.recipient]
      met == c.current_hp * Percent <= out.threshold * c.max_hp
      loss == IF met THEN HpLoss(c, c.current_hp) ELSE 0
      stopped == IF met THEN c.current_hp - loss ELSE 0
  IN  /\ Processing(out, "EXECUTE")
      /\ Becomes(out, Wounded(c, loss, stopped))
      /\ audit' = [audit EXCEPT ![out.recipient].spent = @ + loss]
      /\ serial' = serial + 1

-----------------------------------------------------------------------------
(* Damage *)

RawAmount(out, c) ==
  CASE out.kind = "DAMAGE" -> out.amount
    [] out.kind = "CURRENT_HEALTH_DAMAGE" ->
         Smaller(Share(c.current_hp, out.ratio), out.cap)
    [] out.kind = "MISSING_HEALTH_DAMAGE" ->
         out.amount + Share(c.max_hp - c.current_hp, out.ratio)

Increased(amount, c, stat) == Share(amount, Percent + StatModifierTotal(c, stat))

\* The recipient's factors and increases, then the source's.
Modified(raw, out, r, s) ==
  LET struck == IF event.channel = "BASIC_ATTACK"
                  THEN Share(raw, StatModifierProduct(r, "BASIC_ATTACK_DAMAGE_MULTIPLIER"))
                  ELSE raw
      taken  == Increased(Share(struck, StatModifierProduct(r, "CHAMPION_DAMAGE_MULTIPLIER")),
                          r, "DAMAGE_TAKEN_INCREASE_PERCENT")
      magic  == IF out.type = "MAGIC"
                  THEN Increased(taken, r, "MAGIC_DAMAGE_TAKEN_INCREASE_PERCENT") ELSE taken
      dealt  == Increased(magic, s, "DAMAGE_DEALT_INCREASE_PERCENT")
  IN  IF event.channel = "ABILITY"
        THEN Increased(dealt, s, "ABILITY_AND_PASSIVE_DAMAGE_INCREASE_PERCENT") ELSE dealt

Covering(out) ==
  {w \in Windows : w.recipient = out.recipient /\ w.start <= clock /\ clock < w.end
                   /\ out.type \in w.types}

Windowed(amount, out) ==
  IF Covering(out) = {} THEN amount
  ELSE Share(amount, (CHOOSE w \in Covering(out) : TRUE).multiplier)

\* An output's own penetration adds to that of the source for this hit alone.
Mitigated(amount, out) ==
  LET r == out.recipient
      s == Roster[event.source]
      percent == IF out.kind = "DAMAGE" THEN out.percent_penetration ELSE 0
      flat == IF out.kind = "DAMAGE" THEN out.flat_penetration ELSE 0
  IN  CASE out.type = "TRUE" -> amount
        [] out.type = "PHYSICAL" -> Resisted(amount,
             Penetrated(EffectiveResistance(states[r], "ARMOR", Roster[r].armor),
                        Combined(s.percent_armor_penetration, percent),
                        s.flat_armor_penetration + flat))
        [] out.type = "MAGIC" -> Resisted(amount,
             Penetrated(EffectiveResistance(states[r], "MAGIC_RESISTANCE",
                                            Roster[r].magic_resistance),
                        Combined(s.percent_magic_penetration, percent),
                        s.flat_magic_penetration + flat))

PostMitigation(out) ==
  LET r == states[out.recipient]
  IN  Mitigated(Windowed(Modified(RawAmount(out, r), out, r, states[event.source]), out),
                out)

\* The damage is known; absorb_shield takes it from the untimed shield first.
StrikeShield(out) ==
  LET c == states[out.recipient]
      damage == PostMitigation(out)
      absorbed == Smaller(c.shield, damage)
  IN  /\ pc = "outputs" /\ todo # <<>> /\ out = Head(todo) /\ out.kind \in DamageKinds
      /\ ~Unaffected(out) /\ ~ImmuneInStasis(out)
      /\ Becomes(out, [c EXCEPT !.shield = @ - absorbed,
                                !.timed_shields = ActiveShields(c, clock)])
      /\ hit' = [damage |-> damage, remaining |-> damage - absorbed, visited |-> 0]
      /\ audit' = [audit EXCEPT ![out.recipient].absorbed = @ + absorbed]
      /\ pc' = "absorb"
      /\ UNCHANGED <<clock, event, waiting, todo, blocked, fired, serial, damageBooks,
                     results>>

\* Timed shields that absorb_shield has still to reach and that take this damage.
Absorbing(out) ==
  {t \in states[out.recipient].timed_shields :
     t.serial > hit.visited /\ (t.types = {} \/ out.type \in t.types)}

Taken_WholeShield(t) == t.current

Taken(t) == Smaller(t.current, hit.remaining)

StrikeTimedShield ==
  LET out == Head(todo)
      c == states[out.recipient]
      t == CHOOSE x \in Absorbing(out) : \A y \in Absorbing(out) : x.serial <= y.serial
      consumed == Taken(t)
  IN  /\ pc = "absorb" /\ hit.remaining > 0 /\ Absorbing(out) # {}
      /\ Becomes(out, [c EXCEPT !.timed_shields =
           (@ \ {t}) \cup {[t EXCEPT !.current = @ - consumed]}])
      /\ hit' = [hit EXCEPT !.remaining = @ - consumed, !.visited = t.serial]
      /\ audit' = [audit EXCEPT ![out.recipient].absorbed = @ + consumed]
      /\ UNCHANGED <<clock, pc, event, waiting, todo, blocked, fired, serial, damageBooks,
                     results>>

InHorizon_Before(amount) == IF clock < Horizon THEN amount ELSE 0

InHorizon(amount) == IF clock <= Horizon THEN amount ELSE 0

RecordDamage_PastShields(r, s, damage) ==
  IF r \in Allies THEN UNCHANGED damageBooks
  ELSE /\ damage_by_target' = [damage_by_target EXCEPT ![r] = @ + hit.remaining]
       /\ damage_by_source' = [damage_by_source EXCEPT ![s] = @ + hit.remaining]
       /\ UNCHANGED <<horizon_damage_by_target, horizon_damage_by_source>>

RecordDamage_ByAlliesOnly(r, s, damage) ==
  IF r \in Allies THEN UNCHANGED damageBooks
  ELSE /\ damage_by_target' = [damage_by_target EXCEPT ![r] = @ + damage]
       /\ damage_by_source' =
            [damage_by_source EXCEPT ![s] = @ + IF s \in Allies THEN damage ELSE 0]
       /\ UNCHANGED <<horizon_damage_by_target, horizon_damage_by_source>>

\* Damage to the opposing side is counted, whoever dealt it.
RecordDamage(r, s, damage) ==
  IF r \in Allies THEN UNCHANGED damageBooks
  ELSE /\ damage_by_target' = [damage_by_target EXCEPT ![r] = @ + damage]
       /\ damage_by_source' = [damage_by_source EXCEPT ![s] = @ + damage]
       /\ horizon_damage_by_target' =
            [horizon_damage_by_target EXCEPT ![r] = @ + InHorizon(damage)]
       /\ horizon_damage_by_source' =
            [horizon_damage_by_source EXCEPT ![s] = @ + InHorizon(damage)]

VampRatio(out, s) ==
  Roster[event.source].omnivamp + StatModifierTotal(s, "OMNIVAMP")
  + (IF event.channel = "BASIC_ATTACK"
       THEN Roster[event.source].life_steal + StatModifierTotal(s, "LIFESTEAL") ELSE 0)
  + (IF event.channel \in {"ABILITY", "PASSIVE"}
       THEN StatModifierTotal(s, "ABILITY_VAMP") ELSE 0)
  + (IF out.kind = "DAMAGE" THEN out.heal_ratio ELSE 0)

\* What the shields left takes health, down to the strongest floor; the source
\* then heals from the damage before shields, unless it struck itself or is dead.
LoseHealth ==
  LET out == Head(todo)
      c == states[out.recipient]
      s == states[event.source]
      loss == HpLoss(c, hit.remaining)
      stopped == hit.remaining - loss
      vamp == IF out.recipient = event.source \/ Dead(s) THEN 0
              ELSE Share(hit.damage, VampRatio(out, s))
      struck == [states EXCEPT ![out.recipient] = Wounded(c, loss, stopped)]
  IN  /\ pc = "absorb" /\ (hit.remaining = 0 \/ Absorbing(out) = {})
      /\ states' = [struck EXCEPT ![event.source] = ReceiveHealing(@, vamp)]
      /\ RecordHealing(event.source, s, vamp)
      /\ RecordDamage(out.recipient, event.source, hit.damage)
      /\ audit' = [audit EXCEPT ![out.recipient].lost = @ + loss,
                                ![out.recipient].stopped = @ + stopped]
      /\ todo' = Tail(todo) /\ pc' = "outputs" /\ hit' = NoHit /\ serial' = serial + 1
      /\ UNCHANGED <<clock, event, waiting, blocked, fired, results>>

DeathTime_InHorizon(e) ==
  IF Dead(states[e]) /\ death_ms_by_entity[e] = NotDead /\ clock <= Horizon
    THEN clock ELSE death_ms_by_entity[e]

\* Only the first death of a participant is recorded.
DeathTime(e) ==
  IF Dead(states[e]) /\ death_ms_by_entity[e] = NotDead
    THEN clock ELSE death_ms_by_entity[e]

Checkpoint_Before(e) ==
  IF clock < Horizon THEN Snapshot(states[e]) ELSE horizon_snapshots[e]

Checkpoint(e) ==
  IF clock <= Horizon THEN Snapshot(states[e]) ELSE horizon_snapshots[e]

EndEvent ==
  /\ pc = "outputs" /\ todo = <<>>
  /\ death_ms_by_entity' = [e \in Entities |-> DeathTime(e)]
  /\ horizon_snapshots' = [e \in Entities |-> Checkpoint(e)]
  /\ pc' = "ready" /\ blocked' = {}
  /\ UnchangedHealing
  /\ UNCHANGED <<states, clock, event, waiting, todo, hit, fired, serial, damageBooks,
                 audit>>

\* simulate_timeline has returned.
Returned == pc = "done" /\ UNCHANGED vars

BringUpToDate ==
  \/ AccrueRegeneration
  \/ \E e \in Entities : ReleasePendingHeal(e)
  \/ Expire
  \/ \E e \in Entities : ExpireMaxHealth(e)

ProcessOutputs ==
  \/ SkipOutput
  \/ LET out == Head(todo) IN
       \/ Revive(out) \/ PayHealth(out) \/ GrantMaxHealth(out)
       \/ ReduceResistance(out) \/ ApplyStatus(out) \/ RemoveStatus(out)
       \/ Heal(out) \/ GrantShield(out) \/ ModifyStat(out) \/ PreventDeath(out)
       \/ Execute(out) \/ StrikeShield(out)
  \/ StrikeTimedShield
  \/ LoseHealth

Next ==
  \/ \E a \in Actions, at \in 0..Duration : NextEvent(a, at)
  \/ BringUpToDate
  \/ SkipEvent \/ StartEvent \/ ConsumeSpellShield
  \/ ProcessOutputs
  \/ EndEvent
  \/ Finish \/ Conclude \/ Returned

Spec == Init /\ [][Next]_vars

=============================================================================
