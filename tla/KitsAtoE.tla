--------------------------- MODULE KitsAtoE ---------------------------
(***************************************************************************)
(* The plans of the champions A to E that have a regular schedule, at      *)
(* champion level 13, in the vocabulary of module Kit: one definition for  *)
(* a champion's build_action_plan, one for each helper that schedules      *)
(* events for it, and one for the control windows of its                   *)
(* build_reaction_plan.  Damage, healing and shield amounts are left out.  *)
(***************************************************************************)
EXTENDS Kit

(* Aatrox's deterministic passive, Q, W, and healing sequence. *)
AatroxActions(p) ==
  UNION {
    Passive("E_UMBRAL_DASH_VAMP", {0}, None),
    Attack("PASSIVE_ATTACK", {200}, None),
    Ability("Q1_SWEETSPOT", {500}, {Airborne(250)}),
    Ability("Q2_SWEETSPOT", {1400}, {Airborne(250)}),
    Ability("Q3_SWEETSPOT", {2400}, {Airborne(250)}),
    Ability("W_INFERNAL_CHAINS", {800}, {Slow(1500)})}

AatroxReactions ==
  << Irreducible(Holds("UNSPECIFIED", "Q1_SWEETSPOT", 250, Acts)),
     Irreducible(Holds("UNSPECIFIED", "Q2_SWEETSPOT", 250, Acts)),
     Irreducible(Holds("UNSPECIFIED", "Q3_SWEETSPOT", 250, Acts)) >>

(* Ahri's deterministic E, W, Q, and R hit sequence. *)
AhriActions(p) ==
  UNION {
    Ability("E_CHARM", {100}, {Control("CHARM", 1200)}),
    Ability("W_FOX_FIRE", {250}, None),
    Ability("Q_OUTBOUND", {500}, None),
    Ability("Q_RETURN", {1000}, None),
    Ability("R1_SPIRIT_RUSH", {1300}, None),
    Ability("R2_SPIRIT_RUSH", {2600}, None),
    Ability("R3_SPIRIT_RUSH", {3900}, None)}

AhriReactions ==
  << Holds("UNSPECIFIED", "E_CHARM", 1200, Acts) >>

(* Akali's Q5/E5/W1/R2 level-13 confirmed-mark fixture. *)
AkaliAttackEvents(p) ==
  Attack("BASIC_ATTACK", Attacks(p, 1800), None)

AkaliActions(p) ==
  UNION {
    Dash("R1_PERFECT_EXECUTION", {100}, None),
    Ability("E1_SHURIKEN_FLIP", {650}, None),
    Dash("E2_SHURIKEN_FLIP_RECAST", {1050}, None),
    Ability("Q_FIVE_POINT_STRIKE", Within(p, {1250, 2750, 4250}), {Slow(500)}),
    Ability("W_TWILIGHT_SHROUD", {1400}, None),
    Dash("R2_PERFECT_EXECUTION_MINIMUM", {3000}, None),
    AkaliAttackEvents(p)}

AkaliReactions ==
  << Slows("Q_FIVE_POINT_STRIKE", 500) >>

(* Amumu's E5/Q5/W1/R2 level-13 single-target sequence. *)
AmumuBasicAttacks(p) ==
  Attack("BASIC_ATTACK_CURSED_TOUCH", Attacks(p, 1150), None)

AmumuDespairTicks(p) ==
  Ability("W_DESPAIR_TICK", Every(p, 1700, 500), None)

AmumuTantrumEvents(p) ==
  Ability("E_TANTRUM", Every(p, 1700, HastedUp(p, 5000)), None)

AmumuActions(p) ==
  UNION {
    Ability("Q_BANDAGE_TOSS", {300, 3300}, {Stun(1000)}),
    Ability("W_DESPAIR_ENABLE", {1200}, None),
    Ability("R_CURSE_OF_THE_SAD_MUMMY", {1350}, {Stun(1500)}),
    AmumuBasicAttacks(p),
    AmumuDespairTicks(p),
    AmumuTantrumEvents(p)}

AmumuReactions ==
  << Holds("STUN", "Q_BANDAGE_TOSS", 1000, Everything),
     Holds("STUN", "R_CURSE_OF_THE_SAD_MUMMY", 1500, Everything) >>

(* Annie's Q5/W5/E1/R2 level-13 single-target sequence. *)
AnnieBasicAttacks(p) ==
  Attack("BASIC_ATTACK", Attacks(p, 1200), None)

AnnieActions(p) ==
  UNION {
    Ability("R_SUMMON_TIBBERS", {200}, {Stun(1750)}),
    Ability("Q_DISINTEGRATE", {400, 4400}, None),
    Ability("W_INCINERATE", {650}, None),
    Ability("E_MOLTEN_SHIELD", {900}, None),
    Ability("W_INCINERATE_PYROMANIA", {7650}, {Stun(1750)}),
    AnnieBasicAttacks(p)}

AnnieReactions ==
  << Holds("STUN", "R_SUMMON_TIBBERS", 1750, Acts),
     Holds("STUN", "W_INCINERATE_PYROMANIA", 1750, Acts) >>

(* Azir's Q5/W5/E1/R2 level-13 single-soldier fixture. *)
AzirQEvents(p) ==
  Ability("Q_CONQUERING_SANDS", Casts(p, 200, 6000), {Slow(1000)})

AzirSoldierAttacks(p) ==
  Attack("W_SOLDIER_ATTACK", Attacks(p, 550), None)

AzirActions(p) ==
  UNION {
    Ability("W_ARISE_SINGLE_SOLDIER_FIXTURE", {0}, None),
    Ability("E_SHIFTING_SANDS_COLLISION_FIXTURE", {800}, None),
    Ability("R_EMPERORS_DIVIDE", {1200}, {Airborne(500)}),
    AzirQEvents(p),
    AzirSoldierAttacks(p)}

AzirReactions ==
  << Slows("Q_CONQUERING_SANDS", 1000),
     Knocks("R_EMPERORS_DIVIDE", 500) >>

(* Brand's W5/Q5/E1/R2 level-13 single-target rotation. *)
BrandBasicAttacks(p) ==
  Attack("BASIC_ATTACK", Attacks(p, 1400), None)

BrandActions(p) ==
  UNION {
    Ability("E_CONFLAGRATION_APPLY_BLAZE", {100}, None),
    Ability("Q_SEAR_ABLAZE_STUN_APPLY_BLAZE", {400}, {Stun(1750)}),
    Ability("W_PILLAR_EMPOWERED_APPLY_BLAZE", {700}, None),
    Ability("R_PYROCLASM_INITIAL_ABLAZE_HIT", {1000}, {Slow(250)}),
    Passive("PASSIVE_BLAZE_THREE_STACK_TICK", {1100, 2100}, None),
    Passive("PASSIVE_BLAZE_THREE_STACK_EXPLOSION", {2700}, None),
    BrandBasicAttacks(p)}

BrandReactions ==
  << Holds("STUN", "Q_SEAR_ABLAZE_STUN_APPLY_BLAZE", 1750, Acts),
     Slows("R_PYROCLASM_INITIAL_ABLAZE_HIT", 250) >>

(* Cho'Gath's Q5/W1/E5/R2 level-13 duel fixture. *)
ChogathRuptureEvents(p) ==
  Ability("Q_RUPTURE", Casts(p, 800, 6000), {Airborne(1000), Slow(1500)})

ChogathScreamEvents(p) ==
  Ability("W_FERAL_SCREAM", Casts(p, 1900, 11000), {Control("SILENCE", 1600)})

ChogathAttackEvents(p) ==
  UNION {
    Attack("E_VORPAL_SPIKES_ATTACK", Within(p, Ticks(2350, p.interval, 3)), {Slow(1500)}),
    Attack("BASIC_ATTACK", Attacks(p, 2350 + 3 * p.interval), None)}

ChogathActions(p) ==
  UNION {
    Ability("E_VORPAL_SPIKES_ACTIVATE", {2250}, None),
    Ability("R_FEAST", {5000}, None),
    ChogathRuptureEvents(p),
    ChogathScreamEvents(p),
    ChogathAttackEvents(p)}

ChogathReactions ==
  << Knocks("Q_RUPTURE", 1000),
     Slows("Q_RUPTURE", 1500),
     Holds("SILENCE", "W_FERAL_SCREAM", 1600, Spells),
     Slows("E_VORPAL_SPIKES_ATTACK", 1500) >>

(* Corki's Q5/W1/E5/R2 level-13 single-target fixture. *)
CorkiMissileEvents(p) ==
  UNION {
    Ability("R_MISSILE", Within(p, {300, 2300}), None),
    Ability("R_THE_BIG_ONE", Within(p, {4300}), None)}

CorkiGatlingEvents(p) ==
  Passive("E_GATLING_GUN_TICK", Within(p, Ticks(500, 250, 16)), None)

CorkiQEvents(p) ==
  Ability("Q_PHOSPHORUS_BOMB", Casts(p, 900, 7000), None)

CorkiAttackEvents(p) ==
  Attack("RAPID_RELOAD_ATTACK", Attacks(p, 1200), None)

CorkiActions(p) ==
  UNION {
    Dash("W_VALKYRIE_FULL_TRAIL", {100}, None),
    CorkiMissileEvents(p),
    CorkiGatlingEvents(p),
    CorkiQEvents(p),
    CorkiAttackEvents(p)}

(* Darius's generic Cog timeline for arbitrary opponents. *)
DariusActions(p) ==
  UNION {
    Attack("ATTACK", Attacks(p, 200), None),
    Attack("W", {450}, None),
    Ability("Q", {1700}, None),
    Ability("R", {3000}, None)}

DariusReactions ==
  << Unsourced(100, "UNSPECIFIED", 250, Acts) >>

(* Dr. Mundo's Q5/W1/E5/R2 level-13 duel fixture. *)
DrMundoWEvents(p) ==
  UNION {
    Ability("W_HEART_ZAPPER_START", {300}, None),
    Passive("W_HEART_ZAPPER_TICK", Ticks(550, 250, 12), None),
    Ability("W_HEART_ZAPPER_RECAST", {3300}, None)}

DrMundoUltimateEvents(p) ==
  UNION {
    Ability("R_MAXIMUM_DOSAGE_START", {500}, None),
    Passive("R_MAXIMUM_DOSAGE_HEAL", Ticks(1500, 1000, 7), None)}

DrMundoOrdinaryAttackEvents(p) ==
  Attack("BASIC_ATTACK", Attacks(p, 1300), None)

DrMundoActions(p) ==
  UNION {
    Ability("Q_INFECTED_BONESAW", {100, 4100}, {Slow(2000)}),
    Attack("E_BLUNT_FORCE_TRAUMA", {2201}, None),
    DrMundoWEvents(p),
    DrMundoUltimateEvents(p),
    DrMundoOrdinaryAttackEvents(p)}

(* Ekko's Q5/E5/W1/R2 level-13 single-target fixture. *)
EkkoQEvents(p) ==
  UNION {
    Ability("Q_TIMEWINDER_OUT", Casts(p, 100, 7000), {Slow(1750)}),
    Ability("Q_TIMEWINDER_RETURN", Casts(p, 1500, 7000), None)}

EkkoEEvents(p) ==
  UNION {
    Dash("E_PHASE_DIVE", Casts(p, 500, 7000), None),
    Attack("E_PHASE_DIVE_ATTACK", Casts(p, 800, 7000), None)}

EkkoOrdinaryAttacks(p) ==
  Attack("BASIC_ATTACK", Attacks(p, 1900), None)

EkkoActions(p) ==
  UNION {
    Ability("W_PARALLEL_CONVERGENCE_ARM", {0}, None),
    Continues("W_PARALLEL_CONVERGENCE_ARM",
              Ability("W_PARALLEL_CONVERGENCE_DETONATE", {3000}, {Stun(2250)})),
    Ability("R_CHRONOBREAK_RETURN", {4300}, None),
    EkkoQEvents(p),
    EkkoEEvents(p),
    EkkoOrdinaryAttacks(p)}

EkkoReactions ==
  << Slows("Q_TIMEWINDER_OUT", 1750),
     Holds("STUN", "W_PARALLEL_CONVERGENCE_DETONATE", 2250, Everything) >>

(* Evelynn's Q5/W5/E1/R2 level-13 assassination fixture. *)
EvelynnAllureEvents(p) ==
  UNION {
    Ability("W_ALLURE_MARK", {0}, None),
    Continues("W_ALLURE_MARK",
              Passive("W_ALLURE_FULL_TRIGGER", {2500}, {Control("CHARM", 2250)}))}

EvelynnHateSpikeEvents(p) ==
  UNION {
    Ability("Q_HATE_SPIKE", Casts(p, 2501, 4000), None),
    Ability("Q_RECAST", Volleys(p, 3001, 4000, 3, 500), None)}

EvelynnOrdinaryAttacks(p) ==
  Attack("BASIC_ATTACK", Attacks(p, 2700), None)

EvelynnActions(p) ==
  UNION {
    Ability("E_EMPOWERED_WHIPLASH", {4400}, None),
    Ability("R_LAST_CARESS_EXECUTE_AMPLIFIED", {5200}, None),
    EvelynnAllureEvents(p),
    EvelynnHateSpikeEvents(p),
    EvelynnOrdinaryAttacks(p)}

EvelynnReactions ==
  << Holds("CHARM", "W_ALLURE_FULL_TRIGGER", 2250, Everything) >>

(* The plans of these champions at the pace p. *)
ChampionsAtoE == {
  "Aatrox", "Ahri", "Akali", "Amumu", "Annie", "Azir", "Brand", "Chogath",
  "Corki", "Darius", "DrMundo", "Ekko", "Evelynn"}

KitsAtoEPlan(c, p) ==
  CASE c = "Aatrox" -> Unordered(Kit(p, AatroxActions(p), AatroxReactions))
    [] c = "Ahri" -> Kit(p, AhriActions(p), AhriReactions)
    [] c = "Akali" -> Kit(p, AkaliActions(p), AkaliReactions)
    [] c = "Amumu" -> ByEvent(Kit(p, AmumuActions(p), AmumuReactions))
    [] c = "Annie" -> Unordered(Kit(p, AnnieActions(p), AnnieReactions))
    [] c = "Azir" -> Kit(p, AzirActions(p), AzirReactions)
    [] c = "Brand" -> Kit(p, BrandActions(p), BrandReactions)
    [] c = "Chogath" -> ByEvent(Kit(p, ChogathActions(p), ChogathReactions))
    [] c = "Corki" -> Kit(p, CorkiActions(p), <<>>)
    [] c = "Darius" -> Kit(p, DariusActions(p), DariusReactions)
    [] c = "DrMundo" -> Kit(p, DrMundoActions(p), <<>>)
    [] c = "Ekko" -> Kit(p, EkkoActions(p), EkkoReactions)
    [] c = "Evelynn" -> Kit(p, EvelynnActions(p), EvelynnReactions)
==============================================================================
