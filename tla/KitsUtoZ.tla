--------------------------- MODULE KitsUtoZ ---------------------------
(***************************************************************************)
(* The plans of the champions U to Z that have a regular schedule, at      *)
(* champion level 13, in the vocabulary of module Kit: one definition for  *)
(* a champion's build_action_plan, one for each helper that schedules      *)
(* events for it, and one for the control windows of its                   *)
(* build_reaction_plan.  Damage, healing and shield amounts are left out.  *)
(***************************************************************************)
EXTENDS Kit

(* Urgot's Q5/E5/W1/R2 level-13 duel fixture. *)
UrgotBasicAttackEvents(p) ==
  Attack("BASIC_ATTACK", Attacks(p, 200), None)

UrgotActions(p) ==
  UNION {
    Ability("Q_CORROSIVE_CHARGE", {400}, None),
    Ability("W_PURGE", {900}, None),
    Ability("E_DISDAIN", {1600}, {Stun(1500)}),
    Ability("R_FEAR_BEYOND_DEATH", {2600}, {Control("FEAR", 1500)}),
    UrgotBasicAttackEvents(p)}

UrgotReactions ==
  << Stuns("E_DISDAIN", 1500),
     Holds("FEAR", "R_FEAR_BEYOND_DEATH", 1500, Moves) >>

(* Varus's Q5/E5/W1/R2 level-13 duel fixture. *)
VarusBasicAttackEvents(p) ==
  Attack("BASIC_ATTACK", Attacks(p, 200), None)

VarusActions(p) ==
  UNION {
    Ability("E_HAIL_OF_ARROWS", {0}, None),
    Ability("Q_PIERCING_ARROW", {900}, None),
    Ability("R_CHAIN_OF_CORRUPTION", {1800}, {Root(2000)}),
    VarusBasicAttackEvents(p)}

VarusReactions ==
  << Roots("R_CHAIN_OF_CORRUPTION", 2000) >>

(* Veigar's Q5/W5/E1/R2 level-13 duel fixture. *)
VeigarBasicAttackEvents(p) ==
  Attack("BASIC_ATTACK", Attacks(p, 200), None)

VeigarActions(p) ==
  UNION {
    Ability("E_EVENT_HORIZON", {500}, {Stun(2250)}),
    Ability("Q_BALEFUL_STRIKE", {600}, None),
    Ability("W_DARK_MATTER", {2400}, None),
    Ability("R_PRIMORDIAL_BURST", {2600}, None),
    VeigarBasicAttackEvents(p)}

VeigarReactions ==
  << Stuns("E_EVENT_HORIZON", 2250) >>

(* Vel'Koz's Q5/E5/W1/R2 level-13 duel fixture. *)
VelkozBasicAttackEvents(p) ==
  Attack("BASIC_ATTACK", Attacks(p, 200), None)

VelkozActions(p) ==
  UNION {
    Ability("W_VOID_RIFT_INITIAL", {0}, None),
    Ability("W_VOID_RIFT_SECONDARY", {400}, None),
    Ability("E_TECTONIC_DISRUPTION", {800}, {Airborne(750)}),
    Ability("Q_PLASMA_FISSION", {1600}, None),
    Ability("R_LIFE_FORM_DISINTEGRATION_RAY", {4900}, None),
    VelkozBasicAttackEvents(p)}

VelkozReactions ==
  << Knocks("E_TECTONIC_DISRUPTION", 750) >>

(* Vex's Q5/E5/W1/R2 level-13 duel fixture. *)
VexBasicAttackEvents(p) ==
  Attack("BASIC_ATTACK", Attacks(p, 200), None)

VexActions(p) ==
  UNION {
    Ability("W_PERSONAL_SPACE", {0}, None),
    Ability("E_LOOMING_DARKNESS", {800}, None),
    Ability("Q_MISTRAL_BOLT", {1600}, None),
    Ability("R_SHADOW_SURGE", {2400}, None),
    Ability("R_SHADOW_SURGE_RECAST", {3200}, None),
    VexBasicAttackEvents(p)}

(* Vi's Q5/E5/W1/R2 level-13 duel fixture. *)
ViBasicAttackEvents(p) ==
  Attack("BASIC_ATTACK", Attacks(p, 200), None)

ViActions(p) ==
  UNION {
    Ability("Q_VAULT_BREAKER", {700}, None),
    Ability("R_CEASE_AND_DESIST", {2300}, {Airborne(1300)}),
    ViBasicAttackEvents(p)}

ViReactions ==
  << Knocks("R_CEASE_AND_DESIST", 1300) >>

(* Viego's Q5/E5/W1/R2 level-13 duel fixture. *)
ViegoActions(p) ==
  UNION {
    Ability("W_SPECTRAL_MAW", {0}, {Stun(250)}),
    Attack("BASIC_ATTACK", Attacks(p, 300), None),
    Ability("Q_BLADE_OF_THE_RUINED_KING", {400}, None),
    Ability("R_HEARTBREAKER", {3000}, None)}

ViegoReactions ==
  << Stuns("W_SPECTRAL_MAW", 250) >>

(* Vladimir's Q5/E5/W1/R2 level-13 duel fixture. *)
VladimirBasicAttackEvents(p) ==
  Attack("BASIC_ATTACK", Attacks(p, 200), None)

VladimirActions(p) ==
  UNION {
    Ability("W_SANGUINE_POOL", {0}, None),
    Ability("E_TIDES_OF_BLOOD", {2300}, None),
    Ability("Q_TRANSFUSION", {2600}, None),
    Ability("R_HEMOPLAGUE", {3200}, None),
    Continues("R_HEMOPLAGUE", Ability("R_HEMOPLAGUE_DETONATION", Within(p, {7200}), None)),
    VladimirBasicAttackEvents(p)}

(* Xerath's Q5/E5/W1/R2 level-13 duel fixture. *)
XerathBasicAttackEvents(p) ==
  Attack("BASIC_ATTACK", Attacks(p, 200), None)

XerathREvents(p) ==
  Ability("R_RITE_OF_THE_ARCANE", Within(p, Ticks(2600, 700, 4)), None)

XerathActions(p) ==
  UNION {
    Ability("W_EYE_OF_DESTRUCTION", {500}, None),
    Ability("E_SHOCKING_ORB", {1000}, {Stun(750)}),
    Ability("Q_ARCANOPULSE", {1800}, None),
    XerathBasicAttackEvents(p),
    XerathREvents(p)}

XerathReactions ==
  << Stuns("E_SHOCKING_ORB", 750) >>

(* Xin Zhao's Q5/E5/W1/R2 level-13 duel fixture. *)
XinZhaoQEvents(p) ==
  UNION {
    Attack("Q_THREE_TALON_STRIKE_1", {200}, None),
    Attack("Q_THREE_TALON_STRIKE_2", {200 + p.interval}, None),
    Attack("Q_THREE_TALON_STRIKE_3", {200 + 2 * p.interval}, {Airborne(750)})}

XinZhaoBasicAttackEvents(p) ==
  Attack("BASIC_ATTACK", Attacks(p, 200 + 3 * p.interval), None)

XinZhaoActions(p) ==
  UNION {
    Ability("W_SLASH", {1200}, None),
    Ability("W_THRUST", {1400}, None),
    Ability("E_AUDACIOUS_CHARGE", {2000}, None),
    Ability("R_CRESCENT_GUARD", {2800}, None),
    XinZhaoQEvents(p),
    XinZhaoBasicAttackEvents(p)}

XinZhaoReactions ==
  << OfFirst(Knocks("Q_THREE_TALON_STRIKE_3", 750)) >>

(* Yasuo's Q5/E5/W1/R2 level-13 duel fixture. *)
YasuoQEvents(p) ==
  UNION {
    Ability("Q_STEEL_TEMPEST_1", {0}, None),
    Ability("Q_STEEL_TEMPEST_2", {450}, None),
    Ability("Q_STEEL_TEMPEST_3", {900}, {Airborne(1000)})}

YasuoBasicAttackEvents(p) ==
  Attack("BASIC_ATTACK", Attacks(p, 200 + 2 * p.interval), None)

YasuoActions(p) ==
  UNION {
    Ability("R_LAST_BREATH", {1000}, {Airborne(1000)}),
    Ability("E_SWEEPING_BLADE", {2400}, None),
    YasuoQEvents(p),
    YasuoBasicAttackEvents(p)}

YasuoReactions ==
  << Knocks("Q_STEEL_TEMPEST_3", 1000),
     Knocks("R_LAST_BREATH", 1000) >>

(* Yorick's Q5/E5/W1/R2 level-13 duel fixture. *)
YorickBasicAttackEvents(p) ==
  Attack("BASIC_ATTACK", Attacks(p, 1500), None)

YorickActions(p) ==
  UNION {
    Ability("E_MOURNING_MIST", {300}, {Slow(1500)}),
    Attack("Q_LAST_RITES", {700}, None),
    YorickBasicAttackEvents(p)}

(* Yunara's Q5/W5/E1/R2 level-13 transcendent fixture. *)
YunaraActions(p) ==
  UNION {
    Attack("BASIC_ATTACK", Attacks(p, 200), None),
    Ability("RW_ARC_OF_RUIN", Every(p, 300, 2000), {Slow(1000)})}

(* unattached Yuumi's E5/Q5/W1/R2 level-13 duel fixture. *)
YuumiActions(p) ==
  UNION {
    Ability("E_ZOOMIES", {0}, None),
    Attack("BASIC_ATTACK", Attacks(p, 200), None),
    Ability("R_FINAL_CHAPTER_WAVE_1", {600}, None),
    Ability("R_FINAL_CHAPTER_WAVE_2", {1350}, None),
    Ability("R_FINAL_CHAPTER_WAVE_3", {2100}, {Root(1250)}),
    Ability("R_FINAL_CHAPTER_WAVE_4", {2850}, None),
    Ability("R_FINAL_CHAPTER_WAVE_5", {3600}, None)}

YuumiReactions ==
  << Roots("R_FINAL_CHAPTER_WAVE_3", 1250) >>

(* Zaahen's Q5/E5/W1/R2 level-13 duel fixture. *)
ZaahenActions(p) ==
  UNION {
    Ability("E_AUREATE_RUSH", {0}, None),
    Ability("W_DREADED_RETURN", {500}, None),
    Continues("W_DREADED_RETURN", Ability("W_DREADED_RETURN_PULL", {750}, None)),
    Attack("Q_DARKIN_GLAIVE", {1000}, None),
    Attack("BASIC_ATTACK", Attacks(p, 1600), None),
    Ability("R_GRIM_DELIVERANCE", Within(p, {2950}), None)}

(* Zac's E5/W5/Q1/R2 level-13 engage fixture. *)
ZacBasicAttackEvents(p) ==
  Attack("BASIC_ATTACK", Attacks(p, 1700), None)

ZacActions(p) ==
  UNION {
    Ability("E_ELASTIC_SLINGSHOT", Within(p, {1300}), {Airborne(1000)}),
    Ability("W_UNSTABLE_MATTER", Within(p, {1500, 6500}), None),
    Ability("Q_STRETCHING_STRIKES", Within(p, {2000, 2600}), {Slow(500)}),
    Passive("PASSIVE_CHUNK_REABSORBED", Within(p,
        {2100, 2300, 2800, 3400, 4000, 5000, 6000, 7000, 7300}), None),
    Ability("R_LETS_BOUNCE_1", Within(p, {3200}), {Airborne(1000)}),
    Ability("R_LETS_BOUNCE_2", Within(p, {4200}), {Slow(1000)}),
    Ability("R_LETS_BOUNCE_3", Within(p, {5200}), {Slow(1000)}),
    Ability("R_LETS_BOUNCE_4", Within(p, {6200}), {Slow(1000)}),
    ZacBasicAttackEvents(p)}

ZacReactions ==
  << Knocks("E_ELASTIC_SLINGSHOT", 1000),
     Knocks("R_LETS_BOUNCE_1", 1000) >>

(* Zed's Q5/E5/W1/R2 level-13 duel fixture. *)
ZedBasicAttackEvents(p) ==
  Attack("BASIC_ATTACK", Attacks(p, 200), None)

ZedActions(p) ==
  UNION {
    Ability("E_SHADOW_SLASH", {0}, None),
    Ability("Q_RAZOR_SHURIKEN", {800}, None),
    Ability("R_DEATH_MARK", {1600}, None),
    ZedBasicAttackEvents(p)}

(* Zeri's Q5/E5/W1/R2 level-13 burst-fire fixture. *)
ZeriActions(p) ==
  UNION {
    Attack("Q_BURST_FIRE", Attacks(p, 100), None),
    Ability("W_ULTRASHOCK_LASER", {300}, {Slow(2000)}),
    Ability("R_LIGHTNING_CRASH", {1500}, None)}

(* Ziggs's Q5/E5/W1/R2 level-13 duel fixture. *)
ZiggsBasicAttackEvents(p) ==
  Attack("BASIC_ATTACK", Attacks(p, 200), None)

ZiggsActions(p) ==
  UNION {
    Ability("Q_BOUNCING_BOMB", {0}, None),
    Ability("E_HEXPLOSIVE_MINEFIELD", {1500}, None),
    Ability("W_SATCHEL_CHARGE", {2400}, None),
    Ability("R_MEGA_INFERNO_BOMB", {3900}, None),
    ZiggsBasicAttackEvents(p)}

(* Zilean's Q5/E5/W1/R2 level-13 duel fixture. *)
ZileanBasicAttackEvents(p) ==
  Attack("BASIC_ATTACK", Attacks(p, 200), None)

ZileanActions(p) ==
  UNION {
    Ability("R_CHRONOSHIFT", {0}, None),
    Ability("Q_TIME_BOMB", {3600}, {Stun(1500)}),
    ZileanBasicAttackEvents(p)}

ZileanReactions ==
  << Stuns("Q_TIME_BOMB", 1500) >>

(* Zoe's Q5/E5/W1/R2 level-13 duel fixture. *)
ZoeBasicAttackEvents(p) ==
  Attack("BASIC_ATTACK", Attacks(p, 200), None)

ZoeActions(p) ==
  UNION {
    Ability("E_SLEEPY_TROUBLE_BUBBLE", {0}, None),
    Ability("Q_PADDLE_STAR", {900}, None),
    Ability("E_SLEEPY_TROUBLE_BUBBLE_SLEEP", {1400}, {Control("SLEEP", 2250)}),
    ZoeBasicAttackEvents(p)}

ZoeReactions ==
  << Holds("SLEEP", "E_SLEEPY_TROUBLE_BUBBLE_SLEEP", 2250, Moves) >>

(* Zyra's Q5/E5/W1/R2 level-13 duel fixture without plants. *)
ZyraActions(p) ==
  UNION {
    Ability("E_GRASPING_ROOTS", {0}, {Root(2000)}),
    Ability("Q_DEADLY_SPINES", {700}, None),
    Attack("BASIC_ATTACK", Attacks(p, 1000), None),
    Ability("R_STRANGLETHORNS", {1400}, None),
    Ability("R_STRANGLETHORNS_CONTRACTION", Within(p, {3400}), {Airborne(1000)})}

ZyraReactions ==
  << Roots("E_GRASPING_ROOTS", 2000),
     Knocks("R_STRANGLETHORNS_CONTRACTION", 1000) >>

(* The plans of these champions at the pace p. *)
ChampionsUtoZ == {
  "Urgot", "Varus", "Veigar", "Velkoz", "Vex", "Vi", "Viego", "Vladimir",
  "Xerath", "XinZhao", "Yasuo", "Yorick", "Yunara", "Yuumi", "Zaahen", "Zac",
  "Zed", "Zeri", "Ziggs", "Zilean", "Zoe", "Zyra"}

KitsUtoZPlan(c, p) ==
  CASE c = "Urgot" -> Kit(p, UrgotActions(p), UrgotReactions)
    [] c = "Varus" -> Kit(p, VarusActions(p), VarusReactions)
    [] c = "Veigar" -> Kit(p, VeigarActions(p), VeigarReactions)
    [] c = "Velkoz" -> Kit(p, VelkozActions(p), VelkozReactions)
    [] c = "Vex" -> Kit(p, VexActions(p), <<>>)
    [] c = "Vi" -> Kit(p, ViActions(p), ViReactions)
    [] c = "Viego" -> Kit(p, ViegoActions(p), ViegoReactions)
    [] c = "Vladimir" -> Kit(p, VladimirActions(p), <<>>)
    [] c = "Xerath" -> Kit(p, XerathActions(p), XerathReactions)
    [] c = "XinZhao" -> Kit(p, XinZhaoActions(p), XinZhaoReactions)
    [] c = "Yasuo" -> Kit(p, YasuoActions(p), YasuoReactions)
    [] c = "Yorick" -> Kit(p, YorickActions(p), <<>>)
    [] c = "Yunara" -> Kit(p, YunaraActions(p), <<>>)
    [] c = "Yuumi" -> Kit(p, YuumiActions(p), YuumiReactions)
    [] c = "Zaahen" -> Kit(p, ZaahenActions(p), <<>>)
    [] c = "Zac" -> Kit(p, ZacActions(p), ZacReactions)
    [] c = "Zed" -> Kit(p, ZedActions(p), <<>>)
    [] c = "Zeri" -> Kit(p, ZeriActions(p), <<>>)
    [] c = "Ziggs" -> Kit(p, ZiggsActions(p), <<>>)
    [] c = "Zilean" -> Kit(p, ZileanActions(p), ZileanReactions)
    [] c = "Zoe" -> Kit(p, ZoeActions(p), ZoeReactions)
    [] c = "Zyra" -> Kit(p, ZyraActions(p), ZyraReactions)
==============================================================================
