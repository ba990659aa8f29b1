--------------------------- MODULE KitsNtoQ ---------------------------
(***************************************************************************)
(* The plans of the champions N to Q that have a regular schedule, at      *)
(* champion level 13, in the vocabulary of module Kit: one definition for  *)
(* a champion's build_action_plan, one for each helper that schedules      *)
(* events for it, and one for the control windows of its                   *)
(* build_reaction_plan.  Damage, healing and shield amounts are left out.  *)
(***************************************************************************)
EXTENDS Kit

(* Naafiri's current W1/R2/Q5/E5 pack-assisted fixture. *)
NaafiriPackmateEvents(p) ==
  Passive("PASSIVE_SIX_PACKMATES_ATTACK", Within(p, {1450, 2900}), None)

NaafiriAttackEvents(p) ==
  Attack("BASIC_ATTACK", Attacks(p, 2600), None)

NaafiriActions(p) ==
  UNION {
    Ability("W_CALL_OF_THE_PACK", {0}, None),
    Ability("R_HOUNDS_PURSUIT_SIX_PACKMATES", {1000}, {Slow(250)}),
    Ability("Q_DARKIN_DAGGERS_FIRST", {1200}, None),
    Continues("Q_DARKIN_DAGGERS_FIRST", Passive("Q_BLEED_TICK_BEFORE_RECAST", {1700}, None)),
    Ability("Q_DARKIN_DAGGERS_RECAST", {1950}, None),
    Ability("E_EVISCERATE_BOTH_SLASHES", {2200}, None),
    NaafiriPackmateEvents(p),
    NaafiriAttackEvents(p)}

NaafiriReactions ==
  << Slows("R_HOUNDS_PURSUIT_SIX_PACKMATES", 250) >>

(* Nami's W5/E5/Q1/R2 self-buff duel fixture. *)
NamiAttackEvents(p) ==
  Attack("BASIC_ATTACK", Attacks(p, 1200), None)

NamiActions(p) ==
  UNION {
    Ability("E_TIDECALLERS_BLESSING_SELF", {0}, None),
    Ability("Q_AQUA_PRISON_E_PROC", {100}, {Stun(1500)}),
    Ability("W_EBB_AND_FLOW_SELF_HEAL", {300}, None),
    Passive("W_EBB_AND_FLOW_ENEMY_BOUNCE_E_PROC", {500}, None),
    Ability("R_TIDAL_WAVE_E_PROC", {700}, {Airborne(500), Slow(4000)}),
    NamiAttackEvents(p)}

NamiReactions ==
  << Stuns("Q_AQUA_PRISON_E_PROC", 1500),
     Knocks("R_TIDAL_WAVE_E_PROC", 500),
     After(500, Slows("R_TIDAL_WAVE_E_PROC", 4000)) >>

(* Nasus's Q5/W1/E5/R2 level-13 duel sequence. *)
NasusFuryEvents(p) ==
  UNION {
    Ability("R_FURY_OF_THE_SANDS", {0}, None),
    Passive("R_SANDSTORM_TICK", Every(p, 500, 500), None)}

NasusSpiritFireEvents(p) ==
  UNION {
    Ability("E_SPIRIT_FIRE_INITIAL", {100}, None),
    Passive("E_SPIRIT_FIRE_TICK", Within(p, Ticks(1100, 1000, 5)), None)}

NasusOrdinaryAttackEvents(p) ==
  Attack("BASIC_ATTACK", Attacks(p, 400), None)

NasusQEvents(p) ==
  Attack("Q_SIPHONING_STRIKE", Every(p, 450, 1750), None)

NasusActions(p) ==
  UNION {
    Passive("PASSIVE_SOUL_EATER", {0}, None),
    Ability("W_WITHER", {150}, {Slow(5000)}),
    NasusFuryEvents(p),
    NasusSpiritFireEvents(p),
    NasusOrdinaryAttackEvents(p),
    NasusQEvents(p)}

NasusCadence ==
  << SlowsAttacks("W_WITHER", 1000, 590),
     After(1000, SlowsAttacks("W_WITHER", 1000, 572)),
     After(2000, SlowsAttacks("W_WITHER", 1000, 554)),
     After(3000, SlowsAttacks("W_WITHER", 1000, 536)),
     After(4000, SlowsAttacks("W_WITHER", 1000, 518)) >>

(* Nautilus's Q5/W5/E1/R2 lock-down fixture. *)
NautilusAttackEvents(p) ==
  UNION {
    Attack("PASSIVE_STAGGERING_BLOW", Within(p, {300}), {Root(1250)}),
    Attack("BASIC_ATTACK", Attacks(p, 300 + p.interval), None)}

NautilusWDotEvents(p) ==
  Passive("W_TITANS_WRATH_DOT", Within(p, Ticks(800, 500, 4)), None)

NautilusActions(p) ==
  UNION {
    Ability("Q_DREDGE_LINE", {0}, None),
    Ability("W_TITANS_WRATH_SHIELD", {100}, None),
    Ability("E_RIPTIDE_WAVE", {500, 1000, 1500}, {Slow(1250)}),
    Ability("R_DEPTH_CHARGE_PRIMARY", {2000}, {Airborne(500), Stun(1000)}),
    NautilusAttackEvents(p),
    NautilusWDotEvents(p)}

NautilusReactions ==
  << Knocks("Q_DREDGE_LINE", 500),
     Roots("PASSIVE_STAGGERING_BLOW", 1250),
     OfFirst(Slows("E_RIPTIDE_WAVE", 2250)),
     Knocks("R_DEPTH_CHARGE_PRIMARY", 500),
     After(500, Stuns("R_DEPTH_CHARGE_PRIMARY", 1000)) >>

(* Orianna's Q5/W5/E1/R2 level-13 single-target sequence. *)
OriannaBasicAttacks(p) ==
  Attack("BASIC_ATTACK", Attacks(p, 1750), None)

OriannaActions(p) ==
  UNION {
    Ability("Q_COMMAND_ATTACK_TARGET_FIXTURE", {100}, None),
    Ability("W_COMMAND_DISSONANCE_TARGET", {450}, {Slow(2000)}),
    Ability("R_COMMAND_SHOCKWAVE", {800}, {Airborne(750)}),
    Ability("E_COMMAND_PROTECT_RETURN_SELF", {1400}, None),
    Ability("W_COMMAND_DISSONANCE_SELF_HASTE", {7450}, None),
    OriannaBasicAttacks(p)}

OriannaReactions ==
  << Slows("W_COMMAND_DISSONANCE_TARGET", 2000),
     Knocks("R_COMMAND_SHOCKWAVE", 750) >>

(* Ornn's W5/Q5/E1/R2 level-13 brittle combination. *)
OrnnWEvents(p) ==
  Ability("W_BELLOWS_BREATH_TICK", Ticks(2500, 150, 5), None)

OrnnActions(p) ==
  UNION {
    Ability("Q_VOLCANIC_RUPTURE", {0}, None),
    Dash("E_SEARING_CHARGE_PILLAR_COLLISION", {1000}, None),
    Attack("BRITTLE_BASIC_ATTACK", {3400}, None),
    Ability("R_CALL_FIRST_PASS", {4200}, None),
    Ability("R_CALL_REDIRECTED_PASS", {5200}, None),
    OrnnWEvents(p)}

OrnnReactions ==
  << Uncut(Slows("Q_VOLCANIC_RUPTURE", 2000)),
     Uncut(Knocks("E_SEARING_CHARGE_PILLAR_COLLISION", 1250)),
     Uncut(Knocks("BRITTLE_BASIC_ATTACK", 500)),
     Uncut(Slows("R_CALL_FIRST_PASS", 2000)),
     Uncut(Knocks("R_CALL_REDIRECTED_PASS", 1300)) >>

OrnnImmunities ==
  << OfFirst(Shields("W_BELLOWS_BREATH_TICK", 750, {"ALL"})) >>

(* terrain-less Qiyana's Q5/E5/W1/R2 level-13 duel fixture. *)
QiyanaActions(p) ==
  UNION {
    Ability("E_AUDACITY", {0}, None),
    Ability("Q_EDGE_OF_IXTAL", {400}, None),
    Attack("BASIC_ATTACK", Attacks(p, 700), None)}

(* Quinn's Q5/E5/W1/R2 level-13 ranged duel fixture. *)
QuinnActions(p) ==
  UNION {
    Attack("BASIC_ATTACK", Attacks(p, 200), None),
    Ability("Q_BLINDING_ASSAULT", {900}, None),
    Ability("E_VAULT", {2600}, {Slow(1500)})}

(* The plans of these champions at the pace p. *)
ChampionsNtoQ == {
  "Naafiri", "Nami", "Nasus", "Nautilus", "Orianna", "Ornn", "Qiyana",
  "Quinn"}

KitsNtoQPlan(c, p) ==
  CASE c = "Naafiri" -> Kit(p, NaafiriActions(p), NaafiriReactions)
    [] c = "Nami" -> Kit(p, NamiActions(p), NamiReactions)
    [] c = "Nasus" -> WithCadence(p, Kit(p, NasusActions(p), <<>>), NasusCadence)
    [] c = "Nautilus" -> Kit(p, NautilusActions(p), NautilusReactions)
    [] c = "Orianna" -> Kit(p, OriannaActions(p), OriannaReactions)
    [] c = "Ornn" -> WithImmunities(p, Kit(p, OrnnActions(p), OrnnReactions), OrnnImmunities)
    [] c = "Qiyana" -> Kit(p, QiyanaActions(p), <<>>)
    [] c = "Quinn" -> Kit(p, QuinnActions(p), <<>>)
==============================================================================
