--------------------------- MODULE KitsLtoM ---------------------------
(***************************************************************************)
(* The plans of the champions L to M that have a regular schedule, at      *)
(* champion level 13, in the vocabulary of module Kit: one definition for  *)
(* a champion's build_action_plan, one for each helper that schedules      *)
(* events for it, and one for the control windows of its                   *)
(* build_reaction_plan.  Damage, healing and shield amounts are left out.  *)
(***************************************************************************)
EXTENDS Kit

(* LeBlanc's level-13 Q5/W5/E1/R2 single-target burst. *)
LeblancActions(p) ==
  UNION {
    Ability("Q_SIGIL", {100}, None),
    Ability("W_DISTORTION", {350}, None),
    Ability("R_MIMIC_W", {700}, None)}

(* Lee Sin's level-13 Q5/E5/R2/W1 confirmed-hit combo. *)
LeeSinActions(p) ==
  UNION {
    Ability("W_SAFEGUARD_SELF", {0}, None),
    Ability("W_IRON_WILL", {50}, None),
    Ability("Q_SONIC_WAVE", {100}, None),
    Ability("Q_RESONATING_STRIKE", {400}, None),
    Ability("R_DRAGONS_RAGE", {800}, None)}

(* Leona's Q1/W5/E5/R2 level-13 center-hit engage. *)
LeonaWActionEvents(p) ==
  UNION {
    Ability("W_ECLIPSE_CAST", Casts(p, 0, 10000), None),
    Ability("W_ECLIPSE_DETONATION", Casts(p, 3000, 10000), None)}

LeonaEEvents(p) ==
  Ability("E_ZENITH_BLADE", Casts(p, 350, 6000), {Root(500)})

LeonaQEvents(p) ==
  Attack("Q_SHIELD_OF_DAYBREAK_ATTACK", Casts(p, 700, 5000), {Stun(1000)})

LeonaOrdinaryAttacks(p) ==
  Attack("BASIC_ATTACK", Attacks(p, 1400), None)

LeonaActions(p) ==
  UNION {
    Ability("R_SOLAR_FLARE_CENTER", {100}, {Stun(1750)}),
    LeonaWActionEvents(p),
    LeonaEEvents(p),
    LeonaQEvents(p),
    LeonaOrdinaryAttacks(p)}

LeonaReactions ==
  << Stuns("R_SOLAR_FLARE_CENTER", 1750),
     Roots("E_ZENITH_BLADE", 500),
     Stuns("Q_SHIELD_OF_DAYBREAK_ATTACK", 1000) >>

(* Lux's E5/Q5/W1/R2 level-13 single-target spell rotation. *)
LuxAttackEvents(p) ==
  UNION {
    Attack("PASSIVE_ILLUMINATION_Q_ATTACK", {500}, None),
    Attack("PASSIVE_ILLUMINATION_R_ATTACK", {2400}, None),
    Attack("BASIC_ATTACK", Attacks(p, 2400 + p.interval), None)}

LuxActions(p) ==
  UNION {
    Ability("Q_LIGHT_BINDING", {100}, {Root(2000)}),
    Ability("E_LUCENT_SINGULARITY_ZONE", {700}, {Slow(1400)}),
    Ability("E_LUCENT_SINGULARITY_DETONATE", {1100}, None),
    Ability("R_FINAL_SPARK", {1800}, None),
    Ability("W_PRISMATIC_BARRIER_OUTBOUND_SELF", {2700}, None),
    Continues("W_PRISMATIC_BARRIER_OUTBOUND_SELF",
              Ability("W_PRISMATIC_BARRIER_RETURN_SELF", {3700}, None)),
    LuxAttackEvents(p)}

LuxReactions ==
  << Roots("Q_LIGHT_BINDING", 2000),
     Slows("E_LUCENT_SINGULARITY_ZONE", 1400) >>

(* Malphite's Q5/W1/E5/R2 spell-led benchmark rotation. *)
MalphiteActions(p) ==
  UNION {
    Ability("R_UNSTOPPABLE_FORCE", {400}, {Control("UNSPECIFIED", 1500)}),
    Ability("Q_SEISMIC_SHARD", {2000}, {Slow(3000)}),
    Ability("E_GROUND_SLAM", {2200}, None),
    Attack("W_THUNDERCLAP_ATTACK", {2400}, None),
    Attack("BASIC_ATTACK", Attacks(p, 3200), None)}

MalphiteReactions ==
  << Irreducible(Holds("UNSPECIFIED", "R_UNSTOPPABLE_FORCE", 1500, Acts)) >>

MalphiteCadence ==
  << SlowsAttacks("E_GROUND_SLAM", 3000, 400) >>

(* Maokai's E5/Q5/W1/R2 non-brush engage fixture. *)
MaokaiAttackEvents(p) ==
  UNION {
    Attack("PASSIVE_SAP_MAGIC_ATTACK", {1300}, None),
    Attack("BASIC_ATTACK", Attacks(p, 1300 + p.interval), None)}

MaokaiActions(p) ==
  UNION {
    Ability("R_NATURES_GRASP_MAX_ROOT", {0}, {Root(2250)}),
    Ability("E_SAPLING_NORMAL_EXPLOSION", {500}, {Slow(2000)}),
    Ability("W_TWISTED_ADVANCE", {900}, {Root(1000)}),
    Ability("Q_BRAMBLE_SMASH", {1100}, {Airborne(421), Slow(250)}),
    MaokaiAttackEvents(p)}

MaokaiReactions ==
  << Roots("R_NATURES_GRASP_MAX_ROOT", 2250),
     Slows("E_SAPLING_NORMAL_EXPLOSION", 2000),
     Roots("W_TWISTED_ADVANCE", 1000),
     Knocks("Q_BRAMBLE_SMASH", 421),
     Slows("Q_BRAMBLE_SMASH", 250) >>

(* Milio's E5/W5/Q1/R2 self-support duel fixture. *)
MilioAttackEvents(p) ==
  Attack("BASIC_ATTACK", Attacks(p, 1500), None)

MilioCampfireEvents(p) ==
  Passive("W_COZY_CAMPFIRE_HEAL", Within(p, Ticks(2250, 1000, 6)), None)

MilioActions(p) ==
  UNION {
    Ability("E_WARM_HUGS_CHARGE", {0, 1000}, None),
    Ability("Q_ULTRA_MEGA_FIRE_KICK", {800}, {Airborne(800), Slow(1500)}),
    Ability("R_BREATH_OF_LIFE_SELF_HEAL", {4000}, None),
    MilioAttackEvents(p),
    MilioCampfireEvents(p)}

MilioReactions ==
  << Knocks("Q_ULTRA_MEGA_FIRE_KICK", 800),
     After(800, Slows("Q_ULTRA_MEGA_FIRE_KICK", 1500)) >>

(* Mordekaiser's Q5/W1/E5/R2 level-13 duel sequence. *)
MordekaiserBasicAttacks(p) ==
  Attack("BASIC_ATTACK", Attacks(p, 1500), None)

MordekaiserPassiveAuraEvents(p) ==
  Passive("PASSIVE_AURA_TICK", Every(p, 2500, 1000), None)

MordekaiserActions(p) ==
  UNION {
    Ability("R_REALM_OF_DEATH", {600}, None),
    Ability("E_DEATHS_GRASP", {850}, {Airborne(250)}),
    Ability("Q_OBLITERATE", {1100, 5100}, None),
    Ability("W_INDESTRUCTIBLE_SHIELD", {2000}, None),
    Ability("W_INDESTRUCTIBLE_HEAL", {2800}, None),
    MordekaiserBasicAttacks(p),
    MordekaiserPassiveAuraEvents(p)}

MordekaiserReactions ==
  << Irreducible(Holds("AIRBORNE", "E_DEATHS_GRASP", 250, Acts)) >>

(* Morgana's Q5/E5/W1/R2 locked-target duel fixture. *)
MorganaShadowEvents(p) ==
  Passive("W_TORMENTED_SHADOW", Within(p, Ticks(550, 500, 10)), None)

MorganaAttackEvents(p) ==
  Attack("BASIC_ATTACK", Attacks(p, 700), None)

MorganaActions(p) ==
  UNION {
    Ability("Q_DARK_BINDING", {0}, {Root(3000)}),
    Passive("PASSIVE_SOUL_SIPHON", {0}, None),
    Ability("E_BLACK_SHIELD_SELF", {100}, None),
    Ability("R_SOUL_SHACKLES_INITIAL", {300}, {Slow(3000)}),
    Continues("R_SOUL_SHACKLES_INITIAL",
              Passive("R_SOUL_SHACKLES_FINISH", {3300}, {Stun(1750)})),
    MorganaShadowEvents(p),
    MorganaAttackEvents(p)}

MorganaReactions ==
  << Roots("Q_DARK_BINDING", 3000),
     Slows("R_SOUL_SHACKLES_INITIAL", 3000),
     Stuns("R_SOUL_SHACKLES_FINISH", 1750) >>

(* The plans of these champions at the pace p. *)
ChampionsLtoM == {
  "Leblanc", "LeeSin", "Leona", "Lux", "Malphite", "Maokai", "Milio",
  "Mordekaiser", "Morgana"}

KitsLtoMPlan(c, p) ==
  CASE c = "Leblanc" -> Kit(p, LeblancActions(p), <<>>)
    [] c = "LeeSin" -> Kit(p, LeeSinActions(p), <<>>)
    [] c = "Leona" -> ByEvent(Kit(p, LeonaActions(p), LeonaReactions))
    [] c = "Lux" -> Kit(p, LuxActions(p), LuxReactions)
    [] c = "Malphite" ->
         WithCadence(p, Kit(p, MalphiteActions(p), MalphiteReactions), MalphiteCadence)
    [] c = "Maokai" -> Kit(p, MaokaiActions(p), MaokaiReactions)
    [] c = "Milio" -> Kit(p, MilioActions(p), MilioReactions)
    [] c = "Mordekaiser" -> Kit(p, MordekaiserActions(p), MordekaiserReactions)
    [] c = "Morgana" -> Kit(p, MorganaActions(p), MorganaReactions)
==============================================================================
