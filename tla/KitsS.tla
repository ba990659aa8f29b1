--------------------------- MODULE KitsS ---------------------------
(***************************************************************************)
(* The plans of the champions S to S that have a regular schedule, at      *)
(* champion level 13, in the vocabulary of module Kit: one definition for  *)
(* a champion's build_action_plan, one for each helper that schedules      *)
(* events for it, and one for the control windows of its                   *)
(* build_reaction_plan.  Damage, healing and shield amounts are left out.  *)
(***************************************************************************)
EXTENDS Kit

(* Samira's Q5/E5/W1 level-13 ranged duel fixture. *)
SamiraActions(p) ==
  UNION {
    Attack("BASIC_ATTACK", Attacks(p, 0), None),
    Ability("Q_FLAIR", Within(p, {300, 2500, 4700}), None),
    Ability("E_WILD_RUSH", {1200}, None),
    Ability("W_BLADE_WHIRL", {1700, 2450}, None)}

(* Sejuani's Q5/W5/E1/R2 level-13 duel fixture. *)
SejuaniBasicAttackEvents(p) ==
  Attack("BASIC_ATTACK", Attacks(p, 200), None)

SejuaniActions(p) ==
  UNION {
    Ability("W_WINTERS_WRATH", {0, 250}, None),
    Ability("Q_ARCTIC_ASSAULT", {900}, {Airborne(500)}),
    Ability("R_GLACIAL_PRISON", {1900}, {Stun(1000)}),
    SejuaniBasicAttackEvents(p)}

SejuaniReactions ==
  << Knocks("Q_ARCTIC_ASSAULT", 500),
     Stuns("R_GLACIAL_PRISON", 1000) >>

(* Senna's Q5/W5/E1/R2 level-13 duel fixture. *)
SennaActions(p) ==
  UNION {
    Attack("BASIC_ATTACK", Attacks(p, 500), None),
    Ability("W_LAST_EMBRACE", {1000}, {Root(2250)}),
    Ability("Q_PIERCING_DARKNESS", {1300}, {Slow(2000)}),
    Ability("R_DAWNING_SHADOW", {2400}, None)}

SennaReactions ==
  << Roots("W_LAST_EMBRACE", 2250) >>

(* Seraphine's Q5/E5/W1/R2 level-13 duel fixture. *)
SeraphineActions(p) ==
  UNION {
    Ability("E_BEAT_DROP", {0}, {Slow(1500)}),
    Ability("Q_HIGH_NOTE", {600}, None),
    Ability("W_SURROUND_SOUND", {1100}, None),
    Ability("R_ENCORE", {1700}, None),
    Attack("BASIC_ATTACK", Attacks(p, 2300), None)}

(* AD Shaco's E5/Q5/W1/R2 level-13 ambush fixture. *)
ShacoActions(p) ==
  UNION {
    Attack("BASIC_ATTACK", Attacks(p, 200), {Slow(2000)}),
    Ability("E_TWO_SHIV_POISON", {900}, {Slow(3000)})}

(* Shen's Q5/E5/W1/R2 level-13 duel fixture. *)
ShenQEvents(p) ==
  Attack("Q_TWILIGHT_ASSAULT", Ticks(200, p.interval, 3), None)

ShenBasicAttackEvents(p) ==
  Attack("BASIC_ATTACK", Attacks(p, 200 + 3 * p.interval), None)

ShenActions(p) ==
  UNION {
    Ability("E_SHADOW_DASH", {1400}, {Control("TAUNT", 1500)}),
    ShenQEvents(p),
    ShenBasicAttackEvents(p)}

ShenReactions ==
  << Holds("TAUNT", "E_SHADOW_DASH", 1500, Moves) >>

(* Shyvana's human-form W5/Q5/E1 level-13 duel fixture. *)
ShyvanaActions(p) ==
  UNION {
    Ability("W_INFERNO_AEGIS", {0}, None),
    Ability("W_INFERNO_AEGIS_DETONATION", {500}, None),
    Ability("E_MOLTEN_BURST", {700}, {Slow(2000)}),
    Attack("Q_EMBERSTRIKE", {1200}, None),
    Attack("BASIC_ATTACK", Attacks(p, 1700), None)}

(* Singed's Q5/E5/W1/R2 level-13 duel fixture. *)
SingedBasicAttackEvents(p) ==
  Attack("BASIC_ATTACK", Attacks(p, 200), None)

SingedQEvents(p) ==
  Ability("Q_POISON_TRAIL_TICK", Every(p, 250, 250), None)

SingedActions(p) ==
  UNION {
    Ability("R_INSANITY_POTION", {0}, None),
    Ability("E_FLING", {900}, {Root(2000)}),
    SingedBasicAttackEvents(p),
    SingedQEvents(p)}

SingedReactions ==
  << Roots("E_FLING", 2000) >>

(* Sion's Q5/E5/W1/R2 level-13 duel fixture. *)
SionBasicAttackEvents(p) ==
  Attack("BASIC_ATTACK", Attacks(p, 200), None)

SionActions(p) ==
  UNION {
    Ability("W_SOUL_FURNACE_SHIELD", {0}, None),
    Ability("E_ROAR_OF_THE_SLAYER", {900}, None),
    Ability("W_SOUL_FURNACE_DETONATE", {1000}, None),
    Ability("Q_DECIMATING_SMASH", {1700}, {Stun(1250)}),
    Ability("R_UNSTOPPABLE_ONSLAUGHT", {3400}, {Stun(750)}),
    SionBasicAttackEvents(p)}

SionReactions ==
  << Stuns("Q_DECIMATING_SMASH", 1250),
     Stuns("R_UNSTOPPABLE_ONSLAUGHT", 750) >>

(* Sivir's Q5/W5/E1/R2 level-13 duel fixture. *)
SivirActions(p) ==
  UNION {
    Ability("E_SPELL_SHIELD", {0}, None),
    Attack("BASIC_ATTACK", Attacks(p, 200), None),
    Ability("Q_BOOMERANG_BLADE_OUT", {400}, None),
    Continues("Q_BOOMERANG_BLADE_OUT", Ability("Q_BOOMERANG_BLADE_RETURN", {1200}, None))}

(* Smolder's Q5/W5/E1/R2 level-13 duel fixture. *)
SmolderActions(p) ==
  UNION {
    Ability("Q_SUPER_SCORCHER_BREATH", Within(p, {0, 4000}), None),
    Ability("W_ACHOOO", {700}, {Slow(1500)}),
    Ability("E_FLAP_BOMBARD", Ticks(1400, 250, 5), None),
    Attack("BASIC_ATTACK", Attacks(p, 2800), None),
    Ability("R_MMOOOMMMM", Within(p, {4000}), {Slow(2000)})}

(* Sona's Q5/R2/W3/E3 level-13 duel fixture. *)
SonaBasicAttackEvents(p) ==
  Attack("BASIC_ATTACK", Attacks(p, 200), None)

SonaActions(p) ==
  UNION {
    Ability("Q_HYMN_OF_VALOR", {0}, None),
    Ability("R_CRESCENDO", {900}, {Stun(1500)}),
    Ability("W_ARIA_OF_PERSEVERANCE", {1800}, None),
    SonaBasicAttackEvents(p)}

SonaReactions ==
  << Stuns("R_CRESCENDO", 1500) >>

(* Soraka's Q5/W5/E1/R2 level-13 duel fixture. *)
SorakaStarcallEvents(p) ==
  UNION {
    Ability("Q_STARCALL", {100, 4100}, {Slow(1500)}),
    Passive("Q_REJUVENATION_HEAL", {2600, 6600}, None)}

SorakaBasicAttacks(p) ==
  Attack("BASIC_ATTACK", Attacks(p, 900), None)

SorakaActions(p) ==
  UNION {
    Ability("E_EQUINOX_INITIAL", {500}, {Control("SILENCE", 1500)}),
    Continues("E_EQUINOX_INITIAL", Passive("E_EQUINOX_EXPIRE", {2000}, {Root(1000)})),
    Ability("R_WISH_SELF", {2300}, None),
    SorakaStarcallEvents(p),
    SorakaBasicAttacks(p)}

SorakaReactions ==
  << Holds("SILENCE", "E_EQUINOX_INITIAL", 1500, Spells),
     Roots("E_EQUINOX_EXPIRE", 1000),
     Slows("Q_STARCALL", 1500) >>

(* Swain's Q5/E5/W1/R2 level-13 duel fixture. *)
SwainBasicAttackEvents(p) ==
  Attack("BASIC_ATTACK", Attacks(p, 200), None)

SwainREvents(p) ==
  Ability("R_DEMONIC_ASCENSION_TICK", Within(p, Ticks(2900, 500, 10)), None)

SwainActions(p) ==
  UNION {
    Ability("E_NEVERMOVE", {0}, {Root(1500)}),
    Ability("Q_DEATHS_HAND", {900}, None),
    Ability("W_VISION_OF_EMPIRE", {2600}, None),
    SwainBasicAttackEvents(p),
    SwainREvents(p)}

SwainReactions ==
  << Roots("E_NEVERMOVE", 1500) >>

(* Sylas's R2/Q5/W5/E1 level-13 duel fixture. *)
SylasPetriciteAttack(p) ==
  Attack("PASSIVE_PETRICITE_BURST", {550, 1150, 2050}, None)

SylasBasicAttackEvents(p) ==
  Attack("BASIC_ATTACK", Attacks(p, 2400), None)

SylasActions(p) ==
  UNION {
    Ability("E2_ABDUCT", {300}, {Airborne(500)}),
    Ability("Q_CHAIN_LASH", {900}, {Slow(1500)}),
    Continues("Q_CHAIN_LASH", Ability("Q_CHAIN_LASH_EXPLOSION", {1500}, None)),
    Ability("W_KINGSLAYER", {1800}, None),
    SylasPetriciteAttack(p),
    SylasBasicAttackEvents(p)}

SylasReactions ==
  << Knocks("E2_ABDUCT", 500) >>

(* Syndra's Q5/E5/W1/R2 level-13 single-target rotation. *)
SyndraBasicAttacks(p) ==
  Attack("BASIC_ATTACK", Attacks(p, 400), None)

SyndraActions(p) ==
  UNION {
    Ability("Q_DARK_SPHERE", {100, 1250}, None),
    Ability("E_SCATTER_THE_WEAK_SPHERE_STUN", {450}, {Stun(1250)}),
    Ability("W_FORCE_OF_WILL_THROW", {900}, {Slow(1500)}),
    Ability("R_UNLEASHED_POWER_FIVE_SPHERES", {1800}, None),
    Ability("Q_DARK_SPHERE_RECHARGE", {6000}, None),
    SyndraBasicAttacks(p)}

SyndraReactions ==
  << Holds("STUN", "E_SCATTER_THE_WEAK_SPHERE_STUN", 1250, Acts),
     Slows("W_FORCE_OF_WILL_THROW", 1500) >>

(* The plans of these champions at the pace p. *)
ChampionsS == {
  "Samira", "Sejuani", "Senna", "Seraphine", "Shaco", "Shen", "Shyvana",
  "Singed", "Sion", "Sivir", "Smolder", "Sona", "Soraka", "Swain", "Sylas",
  "Syndra"}

KitsSPlan(c, p) ==
  CASE c = "Samira" -> Kit(p, SamiraActions(p), <<>>)
    [] c = "Sejuani" -> Kit(p, SejuaniActions(p), SejuaniReactions)
    [] c = "Senna" -> Kit(p, SennaActions(p), SennaReactions)
    [] c = "Seraphine" -> Kit(p, SeraphineActions(p), <<>>)
    [] c = "Shaco" -> Kit(p, ShacoActions(p), <<>>)
    [] c = "Shen" -> Kit(p, ShenActions(p), ShenReactions)
    [] c = "Shyvana" -> Kit(p, ShyvanaActions(p), <<>>)
    [] c = "Singed" -> Kit(p, SingedActions(p), SingedReactions)
    [] c = "Sion" -> Kit(p, SionActions(p), SionReactions)
    [] c = "Sivir" -> Kit(p, SivirActions(p), <<>>)
    [] c = "Smolder" -> Kit(p, SmolderActions(p), <<>>)
    [] c = "Sona" -> Kit(p, SonaActions(p), SonaReactions)
    [] c = "Soraka" -> Kit(p, SorakaActions(p), SorakaReactions)
    [] c = "Swain" -> Kit(p, SwainActions(p), SwainReactions)
    [] c = "Sylas" -> Kit(p, SylasActions(p), SylasReactions)
    [] c = "Syndra" -> Kit(p, SyndraActions(p), SyndraReactions)
==============================================================================
