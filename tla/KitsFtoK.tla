--------------------------- MODULE KitsFtoK ---------------------------
(***************************************************************************)
(* The plans of the champions F to K that have a regular schedule, at      *)
(* champion level 13, in the vocabulary of module Kit: one definition for  *)
(* a champion's build_action_plan, one for each helper that schedules      *)
(* events for it, and one for the control windows of its                   *)
(* build_reaction_plan.  Damage, healing and shield amounts are left out.  *)
(***************************************************************************)
EXTENDS Kit

(* Galio's Q5/W5/E1/R2 level-13 fixed ally-anchor fixture. *)
GalioQEvents(p) ==
  UNION {
    Ability("Q_WINDS_OF_WAR", Casts(p, 3350, 7000), None),
    Passive("Q_TORNADO_TICK", Volleys(p, 3850, 7000, 4, 500), None)}

GalioActions(p) ==
  UNION {
    Ability("R_HEROS_ENTRANCE_LANDING", {2750}, {Airborne(750)}),
    Ability("E_JUSTICE_PUNCH", {3200}, {Airborne(750)}),
    Ability("W_SHIELD_OF_DURAND_START", {4500}, None),
    Ability("W_SHIELD_OF_DURAND_FULL_RELEASE", {6500}, {Control("TAUNT", 1500)}),
    Attack("PASSIVE_COLOSSAL_SMASH", {6800}, None),
    Attack("BASIC_ATTACK", Attacks(p, 7000), None),
    GalioQEvents(p)}

GalioReactions ==
  << Knocks("R_HEROS_ENTRANCE_LANDING", 750),
     Knocks("E_JUSTICE_PUNCH", 750),
     Holds("TAUNT", "W_SHIELD_OF_DURAND_FULL_RELEASE", 1500, Moves) >>

(* Gragas's Q5/E5/W1/R2 level-13 charged-barrel fixture. *)
GragasQEvents(p) ==
  UNION {
    Ability("Q_BARREL_ROLL_CAST", Every(p, 0, HastedUp(p, 6000)), None),
    Ability("Q_BARREL_ROLL_MAX_CHARGE", Every(p, 2000, HastedUp(p, 6000)), {Slow(2000)})}

GragasBasicAttacks(p) ==
  UNION {
    Attack("W_DRUNKEN_RAGE_EMPOWERED_ATTACK", {2100}, None),
    Attack("BASIC_ATTACK", Attacks(p, 2100 + p.interval), None)}

GragasActions(p) ==
  UNION {
    Ability("W_DRUNKEN_RAGE_CAST", {100}, None),
    Continues("W_DRUNKEN_RAGE_CAST", Passive("W_DRUNKEN_RAGE_READY", {850}, None)),
    Dash("E_BODY_SLAM", {1500}, {Stun(1000)}),
    Ability("R_EXPLOSIVE_CASK", {2400}, {Airborne(500)}),
    GragasQEvents(p),
    GragasBasicAttacks(p)}

GragasReactions ==
  << Slows("Q_BARREL_ROLL_MAX_CHARGE", 2000),
     Holds("STUN", "E_BODY_SLAM", 1000, Everything),
     Irreducible(Holds("AIRBORNE", "R_EXPLOSIVE_CASK", 500, Everything)) >>

(* Illaoi's Q5/W1/E5/R2 level-13 duel sequence. *)
IllaoiOrdinaryAttacks(p) ==
  Attack("BASIC_ATTACK", Attacks(p, 600), None)

IllaoiHarshLessonEvents(p) ==
  Attack("W_HARSH_LESSON", Every(p, 2200, 2000), None)

IllaoiActions(p) ==
  UNION {
    Ability("R_LEAP_OF_FAITH", {100}, None),
    Ability("Q_TENTACLE_SMASH", {1500}, None),
    IllaoiOrdinaryAttacks(p),
    IllaoiHarshLessonEvents(p)}

(* Ivern's Q5/W1/E5/R2 level-13 two-participant fixture. *)
IvernBasicAttacks(p) ==
  Attack("BASIC_ATTACK_BRUSHMAKER", Attacks(p, 1000), None)

IvernActions(p) ==
  UNION {
    Ability("W_BRUSHMAKER_CREATE", {100}, None),
    Ability("Q_ROOTCALLER", {300}, {Root(2000)}),
    Ability("E_TRIGGERSEED_SELF", {600}, None),
    Continues("E_TRIGGERSEED_SELF", Passive("E_TRIGGERSEED_DETONATE", {2600}, {Slow(2000)})),
    IvernBasicAttacks(p)}

IvernReactions ==
  << Roots("Q_ROOTCALLER", 2000),
     Slows("E_TRIGGERSEED_DETONATE", 2000) >>

(* Janna's Q1/W5/E5/R2 level-13 single-target fixture. *)
JannaBasicAttacks(p) ==
  Attack("BASIC_ATTACK", Attacks(p, 900), None)

JannaActions(p) ==
  UNION {
    Ability("W_ZEPHYR", {100}, {Slow(2000)}),
    Ability("Q_HOWLING_GALE_MAX_CHARGE", {3300}, {Airborne(1250)}),
    Ability("R_MONSOON_KNOCKBACK", {4300}, {Airborne(500)}),
    JannaBasicAttacks(p)}

JannaReactions ==
  << Slows("W_ZEPHYR", 2000),
     Knocks("Q_HOWLING_GALE_MAX_CHARGE", 1250),
     Knocks("R_MONSOON_KNOCKBACK", 500) >>

(* Jax's sustained attacks, Empower, Counter Strike, and R passive. *)
JaxAttackEvents(p) ==
  UNION {
    Attack("GENERIC_ATTACK", Attacks(p, 200), None),
    Attack("GENERIC_ATTACK_W_EMPOWER", Every(p, 450, 3000), None)}

JaxActions(p) ==
  UNION {
    Ability("E_DEFENSIVE_STANCE", {100}, None),
    Ability("E_COUNTER_STRIKE_DAMAGE", {2100}, {Stun(1000)}),
    JaxAttackEvents(p)}

JaxReactions ==
  << Irreducible(Holds("UNSPECIFIED", "E_DEFENSIVE_STANCE", 2000, Swings)),
     Holds("UNSPECIFIED", "E_COUNTER_STRIKE_DAMAGE", 1000, Acts) >>

(* deterministic Cannon-to-Hammer level-13 Jayce rotation. *)
JayceCannonEvents(p) ==
  UNION {
    Passive("START_CANNON_STANCE_PRIMED", {0}, None),
    Ability("CANNON_E_ACCELERATION_GATE", {200}, None),
    Ability("CANNON_Q_EMPOWERED_SHOCK_BLAST", {300}, None),
    Ability("CANNON_W_HYPER_CHARGE", {600}, None),
    Attack("HYPER_CHARGE_ATTACK", {700, 850, 1000}, None)}

JayceHammerEvents(p) ==
  UNION {
    Ability("R_TRANSFORM_TO_HAMMER", {1200}, None),
    Ability("HAMMER_Q_TO_THE_SKIES", {1350}, {Slow(2000)}),
    Attack("HAMMER_R_EMPOWERED_ATTACK", {1600}, None),
    Ability("HAMMER_W_LIGHTNING_FIELD", {1800}, None),
    Ability("HAMMER_E_THUNDERING_BLOW", {2200}, {Airborne(350)})}

JayceActions(p) ==
  UNION {
    JayceCannonEvents(p),
    JayceHammerEvents(p)}

JayceReactions ==
  << Irreducible(Holds("AIRBORNE", "HAMMER_E_THUNDERING_BLOW", 350, Acts)) >>

(* Jhin's Q5/W1/E5/R2 level-13 single-target four-shot fixture. *)
JhinAttacks(p) ==
  Attack("BASIC_ATTACK_SHOT", Within(p, Ticks(500, 800, 4)), None)

JhinActions(p) ==
  UNION {
    Ability("Q_DANCING_GRENADE_SINGLE_TARGET", {100}, None),
    Ability("E_CAPTIVE_AUDIENCE_ASSUMED_TRIGGER", Within(p, {900}), {Slow(2000)}),
    Ability("W_DEADLY_FLOURISH_MARKED_HIT", Within(p, {1700}), {Root(1250)}),
    Ability("R_CURTAIN_CALL_SHOT", Within(p, {4300}), None),
    JhinAttacks(p)}

JhinReactions ==
  << Slows("E_CAPTIVE_AUDIENCE_ASSUMED_TRIGGER", 2000),
     Holds("ROOT", "W_DEADLY_FLOURISH_MARKED_HIT", 1250, Everything) >>

(* K'Sante's level-13 Q5/W5/E1 baseline without All Out state. *)
KSanteActions(p) ==
  UNION {
    Ability("Q_NTOFO_STRIKES", {100}, None),
    Ability("W_PATH_MAKER", {500}, None),
    Attack("BASIC_ATTACK", Attacks(p, 800), None)}

(* Kalista's Q5/W1/E5/R2 level-13 isolated spear-stack fixture. *)
KalistaAttacks(p) ==
  Attack("BASIC_ATTACK_SPEAR", Attacks(p, 700), None)

KalistaActions(p) ==
  UNION {
    Ability("Q_PIERCE_ASSUMED_HIT", {100}, None),
    Ability("E_REND_THREE_STACK_RELEASE", Within(p, {3100}), None),
    KalistaAttacks(p)}

(* Karma's Q5/W1/E5/R2 level-13 Soulflare fixture. *)
KarmaBasicAttacks(p) ==
  Attack("BASIC_ATTACK", Attacks(p, 650), None)

KarmaActions(p) ==
  UNION {
    Ability("RQ_SOULFLARE_IMPACT", {100}, {Slow(1500)}),
    Passive("RQ_SOULFLARE_FIELD_DETONATION", {1600}, {Slow(1500)}),
    Ability("W_FOCUSED_RESOLVE_INITIAL", {2200}, None),
    Continues("W_FOCUSED_RESOLVE_INITIAL",
              Passive("W_FOCUSED_RESOLVE_COMPLETE", {4200}, {Root(1600)})),
    Ability("E_INSPIRE_SELF", {4500}, None),
    Ability("Q_INNER_FLAME_SECOND", {5300}, {Slow(1500)}),
    KarmaBasicAttacks(p)}

KarmaReactions ==
  << Slows("RQ_SOULFLARE_IMPACT", 1500),
     Slows("RQ_SOULFLARE_FIELD_DETONATION", 1500),
     Roots("W_FOCUSED_RESOLVE_COMPLETE", 1600),
     Slows("Q_INNER_FLAME_SECOND", 1500) >>

(* Kayle's Q5/W1/E5/R2 level-13 ranged, exalted single-target fixture. *)
KayleAttacks(p) ==
  Attack("EXALTED_BASIC_ATTACK", Attacks(p, 700), None)

KayleActions(p) ==
  UNION {
    Ability("Q_RADIANT_BLAST", {100}, None),
    Ability("W_CELESTIAL_BLESSING_SELF", Within(p, {700}), None),
    Ability("E_STARFIRE_SPELLBLADE", Within(p, {1100}), None),
    Ability("R_DIVINE_JUDGMENT_SELF", Within(p, {3000}), None),
    KayleAttacks(p)}

(* Kayn's level-13 Q5/W5/R2 baseline rotation. *)
KaynActions(p) ==
  UNION {
    Ability("Q_REAPING_SLASH", {100}, None),
    Ability("W_BLADES_REACH", {500}, {Slow(1500)}),
    Attack("BASIC_ATTACK", Attacks(p, 900), None),
    Ability("R_UMBRAL_TRESPASS", {1400}, None)}

KaynReactions ==
  << Slows("W_BLADES_REACH", 1500) >>

(* Kennen's level-13 Q5/W5/R2 lightning rotation. *)
KennenActions(p) ==
  UNION {
    Ability("Q_THUNDERING_SHURIKEN", {100}, None),
    Ability("W_ELECTRICAL_SURGE", {500}, None),
    Attack("BASIC_ATTACK", Attacks(p, 700), None),
    Ability("R_SLICING_MAELSTROM", {900}, {Stun(1250)})}

KennenReactions ==
  << Stuns("R_SLICING_MAELSTROM", 1250) >>

(* Kha'Zix's non-evolved level-13 Q5/W5/R2 burst. *)
KhazixActions(p) ==
  UNION {
    Ability("E_LEAP", {100}, None),
    Ability("W_VOID_SPIKE", {400}, None),
    Ability("Q_TASTE_THEIR_FEAR", {700}, None),
    Attack("BASIC_ATTACK", Attacks(p, 900), None)}

(* Kindred's level-13 Q5/W5/E1 marks-independent rotation. *)
KindredActions(p) ==
  UNION {
    Ability("Q_DANCE_OF_ARROWS", {100}, None),
    Attack("BASIC_ATTACK", Attacks(p, 350), None),
    Ability("W_WOLFS_FRENZY", {500}, None)}

(* mounted Kled's level-13 Q5/W5/E1 engage baseline. *)
KledActions(p) ==
  UNION {
    Ability("E_JOUSTING", {100}, None),
    Ability("Q_BEAR_TRAP", {450}, None),
    Attack("BASIC_ATTACK", Attacks(p, 700), None)}

(* Kog'Maw's level-13 W5 artillery and attack rotation. *)
KogMawActions(p) ==
  UNION {
    Ability("W_BIO_ARCANE_BARRAGE", {100}, None),
    Attack("W_ATTACK", Attacks(p, 250), None),
    Ability("R_LIVING_ARTILLERY", {700}, None)}

(* The plans of these champions at the pace p. *)
ChampionsFtoK == {
  "Galio", "Gragas", "Illaoi", "Ivern", "Janna", "Jax", "Jayce", "Jhin",
  "KSante", "Kalista", "Karma", "Kayle", "Kayn", "Kennen", "Khazix",
  "Kindred", "Kled", "KogMaw"}

KitsFtoKPlan(c, p) ==
  CASE c = "Galio" -> Kit(p, GalioActions(p), GalioReactions)
    [] c = "Gragas" -> Kit(p, GragasActions(p), GragasReactions)
    [] c = "Illaoi" -> Kit(p, IllaoiActions(p), <<>>)
    [] c = "Ivern" -> Kit(p, IvernActions(p), IvernReactions)
    [] c = "Janna" -> Kit(p, JannaActions(p), JannaReactions)
    [] c = "Jax" -> Kit(p, JaxActions(p), JaxReactions)
    [] c = "Jayce" -> Kit(p, JayceActions(p), JayceReactions)
    [] c = "Jhin" -> Kit(p, JhinActions(p), JhinReactions)
    [] c = "KSante" -> Kit(p, KSanteActions(p), <<>>)
    [] c = "Kalista" -> Kit(p, KalistaActions(p), <<>>)
    [] c = "Karma" -> Kit(p, KarmaActions(p), KarmaReactions)
    [] c = "Kayle" -> Kit(p, KayleActions(p), <<>>)
    [] c = "Kayn" -> Kit(p, KaynActions(p), KaynReactions)
    [] c = "Kennen" -> Kit(p, KennenActions(p), KennenReactions)
    [] c = "Khazix" -> Kit(p, KhazixActions(p), <<>>)
    [] c = "Kindred" -> Kit(p, KindredActions(p), <<>>)
    [] c = "Kled" -> Kit(p, KledActions(p), <<>>)
    [] c = "KogMaw" -> Kit(p, KogMawActions(p), <<>>)
==============================================================================
