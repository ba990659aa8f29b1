---------------------------- MODULE MCItemCombat ----------------------------
(* A portfolio with one program of every kind that the curated items have. *)
EXTENDS ItemCombatProperties

Once ==
  [ emits |-> TRUE, incomplete |-> FALSE, on_self |-> FALSE, revives |-> FALSE,
    delay |-> 0, duration |-> Never, repeat |-> 0 ]

Plainly ==
  [ cooldown |-> 0, proc_every |-> 1, counting_window |-> Never,
    max_stacks |-> 0, stacks_per_trigger |-> 1, stack_duration |-> 1 ]

On(id, trigger, counters, operations) ==
  [ id |-> id, trigger |-> trigger, required_context_flag |-> NoFlag,
    counters |-> counters, evaluable |-> TRUE, reads_current |-> FALSE,
    operations |-> operations ]

CountedCooldown ==   \* Blade of the Ruined King, Eclipse
  On("clawing_shadows", "BASIC_ATTACK_HIT",
     [Plainly EXCEPT !.proc_every = 3, !.counting_window = 2, !.cooldown = 1],
     <<Once, [Once EXCEPT !.on_self = TRUE]>>)

Burn ==              \* Liandry's Torment
  On("torment_burn", "ABILITY_DAMAGE_TO_CHAMPION", Plainly,
     <<[Once EXCEPT !.repeat = 1, !.duration = 2]>>)

Stacking ==          \* Bloodletter's Curse
  On("vile_decay", "DAMAGE_DEALT",
     [Plainly EXCEPT !.max_stacks = 3, !.stack_duration = 2, !.cooldown = 1],
     <<Once>>)

Spellblade ==
  [On("spellblade", "BASIC_ATTACK_HIT", [Plainly EXCEPT !.cooldown = 2], <<Once>>)
     EXCEPT !.required_context_flag = "SPELLBLADE_READY", !.reads_current = TRUE]

Intervention ==      \* Redemption: two operations after a delay
  On("intervention", "ITEM_ACTIVE_USED", [Plainly EXCEPT !.cooldown = 9],
     <<[Once EXCEPT !.delay = 3, !.on_self = TRUE], [Once EXCEPT !.delay = 3]>>)

Galvanize ==         \* a status without a duration
  On("galvanize", "BASIC_ATTACK_RECEIVED", [Plainly EXCEPT !.cooldown = 1],
     <<Once, [Once EXCEPT !.incomplete = TRUE]>>)

Unknown ==
  [On("unknown", "DAMAGE_TAKEN_OR_DEALT", Plainly, <<Once>>) EXCEPT !.evaluable = FALSE]

Unconnected == On("protoplasm_lifeline", "DAMAGE_WOULD_CROSS_HP_THRESHOLD", Plainly, <<Once>>)

MCPortfolio ==
  << CountedCooldown, Burn, Stacking, Spellblade, Intervention, Galvanize, Unknown,
     Unconnected >>

Strike(channel, slot, types) ==
  [channel |-> channel, slot |-> slot, types |-> types, cancelled |-> FALSE]

MCOwnActions ==
  { Strike("BASIC_ATTACK", "AUTO", {"PHYSICAL"}),
    Strike("ABILITY", "Q", {"MAGIC"}) }

MCOpponentActions == {Strike("BASIC_ATTACK", "AUTO", {"PHYSICAL"})}

=============================================================================
