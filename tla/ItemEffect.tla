----------------------------- MODULE ItemEffect -----------------------------
(***************************************************************************)
(* resolve_item_effect of items/effects.py: one trigger of one item        *)
(* program, from the program's runtime state to what it resolves to and to *)
(* the state it leaves.  The dictionaries of EffectRuntimeState are keyed  *)
(* by program id; an EffectState is one id's share of all five.            *)
(***************************************************************************)
EXTENDS Integers

CONSTANT Never   \* a time after every encounter: what None and a missing expiry mean

ASSUME NeverAssumption == Never \in Nat \ {0}

\* Every proc_every = 1 is None; every max_stacks = 0 is a program without stacking.
Counters ==
  [ cooldown : Nat, proc_every : Nat \ {0}, counting_window : Nat \ {0},
    max_stacks : Nat, stacks_per_trigger : Nat \ {0}, stack_duration : Nat \ {0} ]

EffectState ==
  [ ready_at : Nat, stacks : Nat, stacks_end : Nat, count : Nat, count_end : Nat ]

NoEffectState ==
  [ready_at |-> 0, stacks |-> 0, stacks_end |-> Never, count |-> 0, count_end |-> Never]

OnCooldown(s, now) == now < s.ready_at

\* Stacks whose time is over are dropped by the next trigger, not before.
LiveStacks(s, now) == IF now >= s.stacks_end THEN 0 ELSE s.stacks

StacksEnd(s, now) == IF now >= s.stacks_end THEN Never ELSE s.stacks_end

Counted_Forever(s, now) == s.count + 1

Counted(s, now) == (IF now >= s.count_end THEN 0 ELSE s.count) + 1

Accumulates(p, s, now) == Counted(s, now) < p.proc_every

\* The counting window starts anew with every trigger it counts.
CountEnd(p, s, now) ==
  IF p.counting_window # Never THEN now + p.counting_window
  ELSE IF now >= s.count_end THEN Never ELSE s.count_end

AfterAccumulating(p, s, now) ==
  [s EXCEPT !.stacks = LiveStacks(s, now), !.stacks_end = StacksEnd(s, now),
            !.count = Counted(s, now), !.count_end = CountEnd(p, s, now)]

StacksAfter_Kept(p, s, now) ==
  IF s.stacks + p.stacks_per_trigger <= p.max_stacks
    THEN s.stacks + p.stacks_per_trigger ELSE p.max_stacks

StacksAfter(p, s, now) ==
  IF p.max_stacks = 0 THEN LiveStacks(s, now)
  ELSE IF LiveStacks(s, now) + p.stacks_per_trigger <= p.max_stacks
    THEN LiveStacks(s, now) + p.stacks_per_trigger ELSE p.max_stacks

AfterApplying_CoolingFromReady(p, s, now) ==
  [ ready_at |-> s.ready_at + p.cooldown,
    stacks |-> StacksAfter(p, s, now),
    stacks_end |-> IF p.max_stacks = 0 THEN StacksEnd(s, now) ELSE now + p.stack_duration,
    count |-> 0, count_end |-> Never ]

\* The count starts over, the stacks are renewed, the cooldown begins.
AfterApplying(p, s, now) ==
  [ ready_at |-> now + p.cooldown,
    stacks |-> StacksAfter(p, s, now),
    stacks_end |-> IF p.max_stacks = 0 THEN StacksEnd(s, now) ELSE now + p.stack_duration,
    count |-> 0, count_end |-> Never ]

=============================================================================
