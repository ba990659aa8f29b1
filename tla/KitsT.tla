--------------------------- MODULE KitsT ---------------------------
(***************************************************************************)
(* The plans of the champions T to T that have a regular schedule, at      *)
(* champion level 13, in the vocabulary of module Kit: one definition for  *)
(* a champion's build_action_plan, one for each helper that schedules      *)
(* events for it, and one for the control windows of its                   *)
(* build_reaction_plan.  Damage, healing and shield amounts are left out.  *)
(***************************************************************************)
EXTENDS Kit

(* Tahm Kench's Q5/W5/E1/R2 level-13 duel fixture. *)
TahmKenchActions(p) ==
  UNION {
    Ability("W_ABYSSAL_DIVE", {1500}, {Airborne(1000)}),
    Attack("BASIC_ATTACK", Attacks(p, 1700), None),
    Ability("Q_TONGUE_LASH", Within(p, {1800 + p.interval}), {Slow(2000), Stun(1500)})}

TahmKenchReactions ==
  << Knocks("W_ABYSSAL_DIVE", 1000),
     OfFirst(Stuns("Q_TONGUE_LASH", 1500)) >>

(* Taliyah's Q5/E5/W1/R2 level-13 minefield combo. *)
TaliyahActions(p) ==
  UNION {
    Ability("E_UNRAVELED_EARTH", {0}, {Slow(4000)}),
    Ability("W_SEISMIC_SHOVE_MINE_DETONATION", {900}, {Stun(750)}),
    Ability("Q_THREADED_VOLLEY", {1700}, None),
    Attack("BASIC_ATTACK", Attacks(p, 2400), None)}

TaliyahReactions ==
  << Stuns("W_SEISMIC_SHOVE_MINE_DETONATION", 750) >>

(* Talon's Q5/W5/R2 level-13 duel fixture, E excluded. *)
TalonBasicAttackEvents(p) ==
  Attack("BASIC_ATTACK", Attacks(p, 200), None)

TalonActions(p) ==
  UNION {
    Ability("Q_NOXIAN_DIPLOMACY", {0}, None),
    Ability("W_RAKE_INITIAL", {900}, None),
    Continues("W_RAKE_INITIAL", Ability("W_RAKE_RETURN", {1600}, None)),
    Ability("R_SHADOW_ASSAULT_CAST", {1800}, None),
    Continues("R_SHADOW_ASSAULT_CAST",
              Ability("R_SHADOW_ASSAULT_RETURN", Within(p, {4300}), None)),
    TalonBasicAttackEvents(p)}

(* Taric's E5/W5/Q1/R2 level-13 duel fixture. *)
TaricBasicAttackEvents(p) ==
  Attack("BASIC_ATTACK", Attacks(p, 200), None)

TaricActions(p) ==
  UNION {
    Ability("W_BASTION", {0}, None),
    Ability("Q_STARLIGHTS_TOUCH", {600}, None),
    Ability("E_DAZZLE", {2200}, {Stun(1500)}),
    TaricBasicAttackEvents(p)}

TaricReactions ==
  << Stuns("E_DAZZLE", 1500) >>

(* Teemo's rank-five Q and E for the level-13 duel benchmark. *)
TeemoActions(p) ==
  UNION {
    Ability("Q_BLINDING_DART", {100}, {Control("BLIND", 3000)}),
    Attack("E_ATTACK", Attacks(p, 400), None),
    Passive("E_POISON_TICK", Every(p, 1400, 1000), None)}

TeemoReactions ==
  << Holds("UNSPECIFIED", "Q_BLINDING_DART", 3000, Swings) >>

(* Thresh's Q5/E5/W1/R2 level-13 duel fixture. *)
ThreshActions(p) ==
  UNION {
    Ability("Q_DEATH_SENTENCE", {0}, {Stun(1500)}),
    Attack("BASIC_ATTACK", Attacks(p, 1500), None),
    Ability("E_FLAY", {1700}, {Slow(1000)}),
    Ability("R_THE_BOX_WALL_BROKEN", Within(p, {2900}), {Slow(2000)})}

ThreshReactions ==
  << Stuns("Q_DEATH_SENTENCE", 1500) >>

(* Tristana's W5/E5/Q1/R2 level-13 duel fixture. *)
TristanaBasicAttackEvents(p) ==
  Attack("BASIC_ATTACK", Attacks(p, 200), None)

TristanaActions(p) ==
  UNION {
    Ability("W_ROCKET_JUMP", {0}, None),
    Ability("E_EXPLOSIVE_CHARGE", {900}, None),
    Ability("R_BUSTER_SHOT", {1800}, {Stun(400)}),
    TristanaBasicAttackEvents(p)}

TristanaReactions ==
  << Stuns("R_BUSTER_SHOT", 400) >>

(* Tryndamere's attack-centric Q5/E5/R2 benchmark behavior. *)
TryndamereActions(p) ==
  UNION {
    Ability("R_UNDYING_RAGE", {0}, None),
    Ability("E_SPINNING_SLASH", {100}, None),
    Attack("BASIC_ATTACK", Attacks(p, 300), None)}

(* Twisted Fate's Q5/W5/E1/R2 level-13 duel fixture. *)
TwistedFateActions(p) ==
  UNION {
    Attack("BASIC_ATTACK", Attacks(p, 200), None),
    Ability("Q_WILD_CARDS", {300}, None)}

(* Twitch's Q1/W5/E5/R2 level-13 duel fixture. *)
TwitchBasicAttackEvents(p) ==
  Attack("BASIC_ATTACK", Attacks(p, 200), None)

TwitchActions(p) ==
  UNION {
    Ability("Q_AMBUSH", {0}, None),
    Ability("W_VENOM_CASK", {600}, None),
    Ability("R_SPRAY_AND_PRAY", {1400}, None),
    Ability("E_EXPUNGE", {2200}, None),
    TwitchBasicAttackEvents(p)}

(* The plans of these champions at the pace p. *)
ChampionsT == {
  "TahmKench", "Taliyah", "Talon", "Taric", "Teemo", "Thresh", "Tristana",
  "Tryndamere", "TwistedFate", "Twitch"}

KitsTPlan(c, p) ==
  CASE c = "TahmKench" -> Kit(p, TahmKenchActions(p), TahmKenchReactions)
    [] c = "Taliyah" -> Kit(p, TaliyahActions(p), TaliyahReactions)
    [] c = "Talon" -> Kit(p, TalonActions(p), <<>>)
    [] c = "Taric" -> Kit(p, TaricActions(p), TaricReactions)
    [] c = "Teemo" -> Unordered(Kit(p, TeemoActions(p), TeemoReactions))
    [] c = "Thresh" -> Kit(p, ThreshActions(p), ThreshReactions)
    [] c = "Tristana" -> Kit(p, TristanaActions(p), TristanaReactions)
    [] c = "Tryndamere" -> Kit(p, TryndamereActions(p), <<>>)
    [] c = "TwistedFate" -> Kit(p, TwistedFateActions(p), <<>>)
    [] c = "Twitch" -> Kit(p, TwitchActions(p), <<>>)
==============================================================================
