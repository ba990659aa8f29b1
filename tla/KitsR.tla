--------------------------- MODULE KitsR ---------------------------
(***************************************************************************)
(* The plans of the champions R to R that have a regular schedule, at      *)
(* champion level 13, in the vocabulary of module Kit: one definition for  *)
(* a champion's build_action_plan, one for each helper that schedules      *)
(* events for it, and one for the control windows of its                   *)
(* build_reaction_plan.  Damage, healing and shield amounts are left out.  *)
(***************************************************************************)
EXTENDS Kit

(* Rakan's W5/Q5/R2/E1 level-13 engage fixture. *)
RakanActions(p) ==
  UNION {
    Passive("PASSIVE_FEY_FEATHERS", {0}, None),
    Ability("W_GRAND_ENTRANCE", {300}, {Airborne(1000)}),
    Ability("R_THE_QUICKNESS", {1300}, {Control("CHARM", 1250)}),
    Attack("BASIC_ATTACK", Attacks(p, 1900), None),
    Ability("Q_GLEAMING_QUILL", {2600}, None),
    Ability("Q_GLEAMING_QUILL_HEAL", Within(p, {5600}), None)}

RakanReactions ==
  << Knocks("W_GRAND_ENTRANCE", 1000),
     Holds("CHARM", "R_THE_QUICKNESS", 1250, Acts) >>

(* Rammus's Q5/E5/W1/R2 level-13 duel fixture. *)
RammusBasicAttackEvents(p) ==
  Attack("BASIC_ATTACK", Attacks(p, 200), None)

RammusActions(p) ==
  UNION {
    Ability("W_DEFENSIVE_BALL_CURL", {0}, None),
    Ability("Q_POWERBALL", {400}, None),
    Ability("E_PUNCTURING_TAUNT", {1200}, {Control("TAUNT", 1800)}),
    Ability("R_SOARING_SLAM", {2200}, None),
    RammusBasicAttackEvents(p)}

RammusReactions ==
  << Holds("TAUNT", "E_PUNCTURING_TAUNT", 1800, Moves) >>

(* Rell's Q5/W5/E1/R2 level-13 engage fixture. *)
RellActions(p) ==
  UNION {
    Ability("W_CRASH_DOWN", {0}, {Airborne(400)}),
    Ability("W_CRASH_DOWN_STUN", {400}, {Stun(800)}),
    Ability("Q_SHATTERING_STRIKE", {1400}, {Stun(650)}),
    Attack("E_FULL_TILT_EXPLOSION", {2300}, None),
    Attack("BASIC_ATTACK", Attacks(p, 3000), None),
    Ability("R_MAGNET_STORM_TICK", Within(p, Ticks(3300, 500, 4)), None)}

RellReactions ==
  << Knocks("W_CRASH_DOWN", 400),
     Stuns("W_CRASH_DOWN_STUN", 800),
     Stuns("Q_SHATTERING_STRIKE", 650) >>

(* Renata Glasc's Q5/E5/W1/R2 level-13 duel fixture. *)
RenataActions(p) ==
  UNION {
    Ability("Q_HANDSHAKE", {0}, {Root(1000)}),
    Ability("E_LOYALTY_PROGRAM", {600}, {Slow(2000)}),
    Attack("BASIC_ATTACK", Attacks(p, 1100), None),
    Ability("R_HOSTILE_TAKEOVER", {1500}, {Control("UNSPECIFIED", 1750)})}

RenataReactions ==
  << Roots("Q_HANDSHAKE", 1000),
     Holds("UNSPECIFIED", "R_HOSTILE_TAKEOVER", 1750, SpellsAndSteps) >>

(* Rengar's R2/Q5/E5/W1 level-13 duel fixture. *)
RengarBasicAttackEvents(p) ==
  Attack("BASIC_ATTACK", Attacks(p, 1600), None)

RengarActions(p) ==
  UNION {
    Attack("R_LEAP_ATTACK", {0}, None),
    Attack("Q_SAVAGERY", {400}, None),
    Ability("E_BOLA_STRIKE", {800}, {Slow(1750)}),
    Ability("W_BATTLE_ROAR", {1200}, None),
    RengarBasicAttackEvents(p)}

(* Rumble's Q5/E5/W1/R2 level-13 duel fixture. *)
RumbleBasicAttackEvents(p) ==
  Attack("BASIC_ATTACK", Attacks(p, 200), None)

RumbleActions(p) ==
  UNION {
    Ability("E_ELECTRO_HARPOON", {0}, None),
    Ability("Q_FLAMESPITTER", {3700}, None),
    Ability("R_THE_EQUALIZER", {9200}, None),
    RumbleBasicAttackEvents(p)}

(* The plans of these champions at the pace p. *)
ChampionsR == {
  "Rakan", "Rammus", "Rell", "Renata", "Rengar", "Rumble"}

KitsRPlan(c, p) ==
  CASE c = "Rakan" -> Kit(p, RakanActions(p), RakanReactions)
    [] c = "Rammus" -> Kit(p, RammusActions(p), RammusReactions)
    [] c = "Rell" -> Kit(p, RellActions(p), RellReactions)
    [] c = "Renata" -> Kit(p, RenataActions(p), RenataReactions)
    [] c = "Rengar" -> Kit(p, RengarActions(p), <<>>)
    [] c = "Rumble" -> Kit(p, RumbleActions(p), <<>>)
==============================================================================
