---------------------------- MODULE MCBuildSearch ----------------------------
(* Four items: a Heartsteel, two that share a passive, and boots.  The search   *)
(* has two cores.                                                               *)
EXTENDS BuildSearchProperties

Item(cost) ==
  [ cost |-> cost, boots |-> FALSE, same_passive |-> NoGroup, purchase_exclusive |-> {},
    heartsteel |-> FALSE, blocked |-> FALSE ]

MCCatalog ==
  << [Item(2) EXCEPT !.heartsteel = TRUE, !.purchase_exclusive = {"GIANT"}],
     [Item(1) EXCEPT !.same_passive = "SPELLBLADE"],
     [Item(3) EXCEPT !.same_passive = "SPELLBLADE", !.purchase_exclusive = {"GIANT"}],
     [Item(1) EXCEPT !.boots = TRUE],
     [Item(1) EXCEPT !.blocked = TRUE] >>

\* The third item can be bought second only; with the other budgets, nothing can be
\* bought second.
MCBudgets == {<<2, 4>>, <<2, 1>>}

MCStageWeights == <<2, 1>>

MCOutcomes ==
  << { [damage |-> 4, durability |-> 1, ready |-> TRUE],
       [damage |-> 1, durability |-> 3, ready |-> TRUE] },
     { [damage |-> 4, durability |-> 1, ready |-> FALSE],
       [damage |-> 2, durability |-> 3, ready |-> TRUE] } >>

=============================================================================
