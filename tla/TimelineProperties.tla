------------------------- MODULE TimelineProperties -------------------------
(***************************************************************************)
(* What a consumer of a TimelineResult relies on.                          *)
(***************************************************************************)
EXTENDS Timeline, FiniteSetsExt

-----------------------------------------------------------------------------
(* Health *)

\* Health stays between zero and a positive maximum, whatever grants of maximum
\* health, floors, costs and heals overlap (expire_max_health, damage_hp_loss,
\* receive_healing, HealthCostOutput).
HealthBounded ==
  \A e \in Entities :
    /\ 0 < states[e].max_hp
    /\ 0 <= states[e].current_hp /\ states[e].current_hp <= states[e].max_hp

\* Every change of health has a cause the result reports: initial health, plus
\* healing_by_entity and what was granted, minus what damage, costs, executes and
\* expired grants took, is the health left.  A restoration path that forgets
\* record_healing breaks it.
HealthAccounted ==
  \A e \in Entities :
    states[e].current_hp =
      Roster[e].current_hp + healing_by_entity[e] + audit[e].granted
      - audit[e].lost - audit[e].spent - audit[e].clamped

\* Temporary maximum health comes back off: the maximum is the initial one plus
\* the grants still running (MaxHealthModifierOutput, expire_max_health).
MaxHealthAccounted ==
  \A e \in Entities :
    LET grants == states[e].timed_max_health
    IN  states[e].max_hp =
          Roster[e].max_hp + SumFunctionOnSet([g \in grants |-> g.amount], grants)

-----------------------------------------------------------------------------
(* Damage books *)

\* What absorb_shield has taken from a hit whose damage is not yet recorded.
InFlight(e) ==
  IF pc = "absorb" /\ Head(todo).recipient = e THEN hit.damage - hit.remaining ELSE 0

\* The damage credited on an opponent is what the log shows: health lost, plus
\* what shields absorbed, plus what a health floor stopped.  Overkill is neither
\* lost nor stopped twice (damage_by_target against the log's DAMAGE entries).
DamageSplit ==
  \A e \in Opponents :
    damage_by_target[e] + InFlight(e) = audit[e].lost + audit[e].absorbed + audit[e].stopped

\* The two views of the same damage agree: what was dealt to the opponents is what
\* sources are credited with, over the encounter and inside the horizon.
DamageAttributed ==
  /\ SumFunctionOnSet(damage_by_target, Opponents)
       = SumFunctionOnSet(damage_by_source, Entities)
  /\ SumFunctionOnSet(horizon_damage_by_target, Opponents)
       = SumFunctionOnSet(horizon_damage_by_source, Entities)

\* Early damage is part of all damage, and all of it until the horizon has passed.
HorizonWithinTotal ==
  /\ \A e \in Opponents : horizon_damage_by_target[e] <= damage_by_target[e]
  /\ \A e \in Entities : horizon_damage_by_source[e] <= damage_by_source[e]
  /\ clock <= Horizon => /\ horizon_damage_by_target = damage_by_target
                         /\ horizon_damage_by_source = damage_by_source

-----------------------------------------------------------------------------
(* Death *)

\* Between events every participant that is dead has a time of death not after
\* the clock: survival_ms never reports the full duration for one who died.
DeathsRecorded ==
  \A e \in Entities :
    pc \notin {"outputs", "absorb"} /\ Dead(states[e]) /\ Roster[e].current_hp > 0
      => death_ms_by_entity[e] <= clock

\* Only a REVIVE output brings a participant back.
OnlyReviveRestores ==
  [][\A e \in Entities :
       Dead(states[e]) /\ ~Dead(states'[e]) => pc = "outputs" /\ Head(todo).kind = "REVIVE"
    ]_vars

\* Without revival the checkpoint and the times of death tell the same story: who
\* is dead in the horizon snapshot is who died at or before the horizon
\* (target_dead_at_horizon against death_ms_by_entity).
HorizonDeathsAgree ==
  pc = "done" =>
    \A e \in Entities : horizon_snapshots[e].dead <=> death_ms_by_entity[e] <= Horizon

\* The horizon snapshot is the state after every event at or before the horizon
\* (docs/timeline-semantics.md), also after an event that was skipped.
HorizonSnapshotCurrent ==
  pc = "ready" /\ clock <= Horizon /\ fired > 0 =>
    \A e \in Entities : horizon_snapshots[e] = Snapshot(states[e])

\* Nobody dies under a health floor that is still active: no hit, execute, cost or
\* expiring grant ends a life that a death-prevention window protects.
NoDeathUnderFloor ==
  [][\A e \in Entities :
       ~Dead(states[e]) /\ Dead(states'[e]) =>
         \A k \in DeathKeys : states[e].death_preventions[k].floor = 0]_vars

\* A window with a trigger is consumed only by damage that would have killed.
TriggerOnlyOnLethal ==
  [][\A e \in Entities, k \in DeathKeys :
       /\ pc = "absorb"
       /\ k \in TriggerKeys(states[e]) /\ k \notin TriggerKeys(states'[e])
       => hit.remaining >= states[e].current_hp]_vars

\* Who waits for the heal of a consumed window is alive to receive it.
TriggeredHealAwaited ==
  \A e \in Entities : states[e].pending_heals # {} => ~Dead(states[e])

-----------------------------------------------------------------------------
(* Healing reduction *)

\* Grievous Wounds does not stack: while it lasts on a participant, a further
\* application never weakens or shortens it, and takes over its credit only with
\* a magnitude as strong.
GrievousOnlyStrengthens ==
  [][\A e \in Entities :
       LET before == states[e]  after == states'[e]  w == "HEALING_REDUCTION"
       IN  HasStatus(before, w) /\ HasStatus(after, w) =>
             /\ after.status_magnitudes[w] >= before.status_magnitudes[w]
             /\ after.statuses[w] >= before.statuses[w]
             /\ after.status_sources[w] # before.status_sources[w] =>
                  /\ Head(todo).magnitude = after.status_magnitudes[w]
                  /\ after.status_sources[w] = event.source]_vars

\* All healing that a reduction prevented is credited to a participant, none of it
\* twice, even when the reduction has been replaced, removed or has run out.
PreventionCredited ==
  SumFunctionOnSet(healing_prevented_by_entity, Entities)
    = SumFunctionOnSet(healing_prevented_by_source, Entities)

-----------------------------------------------------------------------------
(* Time *)

\* Whenever an event acts, and in the final snapshot, nothing that has run out is
\* still in force: statuses, shields, reductions, modifiers, floors and grants.
\* When an event begins, and in the result, no heal of a consumed window is left
\* that has come due (the expire methods, release_pending_heals).
NothingOverdue ==
  \A e \in Entities :
    LET c == states[e]
    IN  /\ pc \in {"block", "outputs", "absorb", "done"} =>
             /\ \A s \in Statuses : HasStatus(c, s) => clock < c.statuses[s]
             /\ \A t \in c.timed_shields : clock < t.end
             /\ \A s \in ResistanceStats : c.resistance_reductions[s].stacks > 0
                  => clock < c.resistance_reductions[s].end
             /\ \A s \in Stats, g \in Groups : c.stat_modifiers[s][g].amount # 0
                  => clock < c.stat_modifiers[s][g].end
             /\ \A k \in DeathKeys : c.death_preventions[k].floor > 0
                  => clock < c.death_preventions[k].end
             /\ \A g \in c.timed_max_health : clock < g.end
             /\ c.regen_accrued_ms = clock
        /\ pc \in {"expire", "block", "done"} =>
             \A h \in c.pending_heals : clock < h.due

=============================================================================
