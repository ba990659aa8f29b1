----------------------------- MODULE ItemCombat -----------------------------
(***************************************************************************)
(* compile_item_combat_events of application/item_combat.py: the programs  *)
(* of a participant's items are run over the triggers of an encounter, and *)
(* what they resolve to becomes events of the timeline.                    *)
(*                                                                         *)
(* _build_trigger_schedule lists the triggers, sorted by time and, at one  *)
(* time, the fixed ones before the owner's actions and those before the    *)
(* opponent's; here each entry is chosen as it is reached.                 *)
(***************************************************************************)
EXTENDS ItemEffect, Sequences, FiniteSets

CONSTANTS
  Portfolio,      \* programs of the items, in order
  OwnActions,     \* champion_events the owner may schedule, without their time
  OpponentActions,
  ActiveTime,     \* when item actives are used: 1000 ms
  Duration,       \* duration_ms
  FirstSequence,  \* sequence of the first event compiled
  MaxActions      \* bound: champion events in one schedule

NoFlag == "NONE"

SupportedTriggers ==
  { "ITEM_ACTIVE_USED", "BASIC_ATTACK_HIT", "ABILITY_HIT", "ABILITY_DAMAGE_TO_CHAMPION",
    "ABILITY_DAMAGE_TO_UNIT", "ATTACK_OR_ABILITY_HIT", "DAMAGE_TO_CHAMPION",
    "DAMAGE_DEALT", "PHYSICAL_DAMAGE_TO_CHAMPION", "MAGIC_DAMAGE_TO_CHAMPION",
    "MAGIC_OR_TRUE_DAMAGE_TO_CHAMPION", "ULTIMATE_CAST", "CHAMPION_DAMAGE_RECEIVED",
    "PHYSICAL_DAMAGE_RECEIVED", "MAGIC_DAMAGE_RECEIVED", "BASIC_ATTACK_RECEIVED",
    "DAMAGE_TAKEN_OR_DEALT", "ALWAYS", "OUT_OF_COMBAT", "MOVEMENT_UPDATED" }

ExternallyModeledIds == {"warmogs_heart"}

ContextFlags ==
  { "TARGET_IS_ENEMY_CHAMPION", "FIRST_ATTACK_AGAINST_THIS_CHAMPION", "SPELLBLADE_READY",
    "OUT_OF_COMBAT", "NO_MAGIC_DAMAGE_FOR_15_SECONDS" }

\* One operation, its amount left out: when it acts, on whom, and whether its output
\* needs metadata it does not have.
Operations ==
  [ emits : BOOLEAN, incomplete : BOOLEAN, on_self : BOOLEAN, revives : BOOLEAN,
    delay : Nat, duration : Nat \ {0}, repeat : Nat ]

Programs ==
  [ id : STRING, trigger : STRING, required_context_flag : STRING,
    counters : Counters, evaluable : BOOLEAN, reads_current : BOOLEAN,
    operations : Seq(Operations) ]

DamageTypes == {"PHYSICAL", "MAGIC", "TRUE"}

\* types: of the damage dealt to the other side; slot: the second part of the id.
ChampionActions ==
  [ channel : {"BASIC_ATTACK", "ABILITY", "PASSIVE"}, slot : {"AUTO", "Q", "W", "E", "R"},
    types : SUBSET DamageTypes, cancelled : BOOLEAN ]

Indices == 1..Len(Portfolio)

Ids == {Portfolio[i].id : i \in Indices}

ASSUME PortfolioAssumption ==
  /\ Portfolio \in Seq(Programs)
  /\ \A i, j \in Indices : Portfolio[i].id = Portfolio[j].id => Portfolio[i] = Portfolio[j]

ASSUME ScheduleAssumption ==
  /\ OwnActions \subseteq ChampionActions /\ OpponentActions \subseteq ChampionActions
  /\ ActiveTime \in Nat /\ Duration \in Nat \ {0} /\ FirstSequence \in Nat
  /\ MaxActions \in Nat

ASSUME EncounterAssumption == Duration + ActiveTime < Never

VARIABLES
  states,            \* states[id]: runtime state of the programs with this id
  events,            \* the events compiled
  sequence,          \* sequence of the next one
  blockers,
  clock,             \* at_ms of the entry being run
  fixed,             \* entries of FixedEntries already run
  opponents_turn,    \* an entry of the opponent's at this time has been run
  first_attack, spellblade_ready,
  triggers, flags,   \* of the entry being run
  next,              \* index of the next program to visit; past the last: none
  actions,           \* champion actions scheduled, which the bound counts
  history            \* history[id]: what has happened to it (see History)

schedule == <<clock, fixed, opponents_turn, first_attack, spellblade_ready, triggers,
              flags, actions>>
compiled == <<states, events, sequence, blockers, history>>
vars == <<schedule, next, compiled>>

FixedEntries ==
  << [at |-> 0, triggers |-> {"ALWAYS"}, flags |-> {}],
     [at |-> 0, triggers |-> {"OUT_OF_COMBAT", "MOVEMENT_UPDATED"},
      flags |-> {"OUT_OF_COMBAT", "NO_MAGIC_DAMAGE_FOR_15_SECONDS"}],
     [at |-> ActiveTime, triggers |-> {"ITEM_ACTIVE_USED"},
      flags |-> {"TARGET_IS_ENEMY_CHAMPION"}] >>

\* The times of the triggers counted since the last application, and of the
\* applications.
History == [counted : Seq(Nat), applied : Seq(Nat)]

Init ==
  /\ states = [id \in Ids |-> NoEffectState]
  /\ events = {} /\ sequence = FirstSequence
  /\ blockers = {<<"TRIGGER_NOT_CONNECTED", Portfolio[i].id>> :
                   i \in {j \in Indices : /\ Portfolio[j].trigger \notin SupportedTriggers
                                       /\ Portfolio[j].id \notin ExternallyModeledIds}}
  /\ clock = 0 /\ fixed = 0 /\ opponents_turn = FALSE
  /\ first_attack = TRUE /\ spellblade_ready = FALSE
  /\ triggers = {} /\ flags = {} /\ actions = 0
  /\ next = Len(Portfolio) + 1
  /\ history = [id \in Ids |-> [counted |-> <<>>, applied |-> <<>>]]

TypeOK ==
  /\ states \in [Ids -> EffectState]
  /\ events \subseteq [ id : Ids, at : 0..Duration, fired : 0..Duration + ActiveTime,
                        sequence : Nat, stacks : Nat, operations : SUBSET Nat,
                        requires_living_opponent : BOOLEAN,
                        requires_source_alive : BOOLEAN ]
  /\ sequence \in Nat
  /\ blockers \subseteq
       {"TRIGGER_NOT_CONNECTED", "CONTEXT_UNAVAILABLE", "CONTEXT_UNRESOLVED",
        "CURRENT_STATE_SNAPSHOT"} \X Ids
  /\ clock \in 0..Duration + ActiveTime
  /\ fixed \in 0..Len(FixedEntries)
  /\ opponents_turn \in BOOLEAN
  /\ first_attack \in BOOLEAN /\ spellblade_ready \in BOOLEAN
  /\ triggers \subseteq SupportedTriggers /\ flags \subseteq ContextFlags
  /\ next \in 1..Len(Portfolio) + 1
  /\ actions \in 0..MaxActions
  /\ history \in [Ids -> History]

-----------------------------------------------------------------------------
(* The trigger schedule *)

BetweenEntries == next > Len(Portfolio)

\* No fixed entry is due before, or at, time at.
FixedDone(at) == \A i \in fixed+1..Len(FixedEntries) : FixedEntries[i].at > at

Begin(at, ts, fs) ==
  /\ clock' = at /\ triggers' = ts /\ flags' = fs /\ next' = 1
  /\ opponents_turn' = FALSE
  /\ UNCHANGED compiled

FixedEntry ==
  LET entry == FixedEntries[fixed + 1]
  IN  /\ BetweenEntries /\ fixed < Len(FixedEntries)
      /\ Begin(entry.at, entry.triggers, entry.flags)
      /\ fixed' = fixed + 1
      /\ UNCHANGED <<first_attack, spellblade_ready, actions>>

\* _triggers: what an action that damages the other side sets off.
Triggers(a) ==
  IF a.cancelled \/ a.types = {} THEN {}
  ELSE {"DAMAGE_TO_CHAMPION", "DAMAGE_DEALT", "ATTACK_OR_ABILITY_HIT"}
    \cup (IF a.channel = "BASIC_ATTACK" THEN {"BASIC_ATTACK_HIT"} ELSE {})
    \cup (IF a.channel = "ABILITY"
            THEN {"ABILITY_HIT", "ABILITY_DAMAGE_TO_CHAMPION", "ABILITY_DAMAGE_TO_UNIT"}
            ELSE {})
    \cup (IF "PHYSICAL" \in a.types THEN {"PHYSICAL_DAMAGE_TO_CHAMPION"} ELSE {})
    \cup (IF "MAGIC" \in a.types
            THEN {"MAGIC_DAMAGE_TO_CHAMPION", "MAGIC_OR_TRUE_DAMAGE_TO_CHAMPION"} ELSE {})
    \cup (IF "TRUE" \in a.types THEN {"MAGIC_OR_TRUE_DAMAGE_TO_CHAMPION"} ELSE {})
    \cup (IF a.slot = "R" THEN {"ULTIMATE_CAST"} ELSE {})

Arms(a) ==
  \/ a.channel = "ABILITY"
  \/ a.slot \in {"Q", "W"} /\ a.channel = "BASIC_ATTACK"

\* An attack that an ability hit has armed carries SPELLBLADE_READY, and disarms.
OwnAction(a, at) ==
  LET ready  == spellblade_ready \/ Arms(a)
      attack == a.channel = "BASIC_ATTACK"
  IN  /\ BetweenEntries /\ actions < MaxActions /\ Triggers(a) # {}
      /\ at >= clock /\ (opponents_turn => at > clock)
      /\ FixedDone(at)
      /\ Begin(at, Triggers(a),
               {"TARGET_IS_ENEMY_CHAMPION"}
               \cup (IF attack /\ first_attack
                       THEN {"FIRST_ATTACK_AGAINST_THIS_CHAMPION"} ELSE {})
               \cup (IF attack /\ ready THEN {"SPELLBLADE_READY"} ELSE {}))
      /\ first_attack' = (first_attack /\ ~attack)
      /\ spellblade_ready' = (ready /\ ~attack)
      /\ actions' = actions + 1
      /\ UNCHANGED fixed

Received(a) ==
  {"CHAMPION_DAMAGE_RECEIVED", "DAMAGE_TAKEN_OR_DEALT"}
    \cup (IF a.channel = "BASIC_ATTACK" THEN {"BASIC_ATTACK_RECEIVED"} ELSE {})
    \cup (IF "PHYSICAL" \in a.types THEN {"PHYSICAL_DAMAGE_RECEIVED"} ELSE {})
    \cup (IF "MAGIC" \in a.types THEN {"MAGIC_DAMAGE_RECEIVED"} ELSE {})

OpponentAction(a, at) ==
  /\ BetweenEntries /\ actions < MaxActions /\ ~a.cancelled /\ a.types # {}
  /\ at >= clock /\ FixedDone(at)
  /\ clock' = at /\ triggers' = Received(a) /\ flags' = {} /\ next' = 1
  /\ opponents_turn' = TRUE
  /\ actions' = actions + 1
  /\ UNCHANGED <<fixed, first_attack, spellblade_ready, compiled>>

-----------------------------------------------------------------------------
(* One program, when the entry being run reaches it *)

Program == Portfolio[next]

State == states[Program.id]

NextProgram ==
  /\ ~BetweenEntries
  /\ next' = next + 1
  /\ UNCHANGED schedule

Triggered == Program.trigger \in triggers

InContext ==
  Program.required_context_flag = NoFlag \/ Program.required_context_flag \in flags

NotTriggered ==
  /\ NextProgram /\ ~Triggered
  /\ UNCHANGED compiled

ContextUnavailable ==
  /\ NextProgram /\ Triggered /\ ~InContext
  /\ blockers' = blockers \cup {<<"CONTEXT_UNAVAILABLE", Program.id>>}
  /\ UNCHANGED <<states, events, sequence, history>>

\* resolve_item_effect is called.
Resolving == NextProgram /\ Triggered /\ InContext

Cooling ==
  /\ Resolving /\ OnCooldown(State, clock)
  /\ UNCHANGED compiled

Accumulate ==
  /\ Resolving /\ ~OnCooldown(State, clock)
  /\ Accumulates(Program.counters, State, clock)
  /\ states' = [states EXCEPT ![Program.id] = AfterAccumulating(Program.counters, @, clock)]
  /\ history' = [history EXCEPT ![Program.id].counted = Append(@, clock)]
  /\ UNCHANGED <<events, sequence, blockers>>

Applying ==
  /\ Resolving /\ ~OnCooldown(State, clock)
  /\ ~Accumulates(Program.counters, State, clock)

\* An expression that cannot be evaluated leaves the state as it was.
Unevaluable ==
  /\ Applying /\ ~Program.evaluable
  /\ blockers' = blockers \cup {<<"CONTEXT_UNRESOLVED", Program.id>>}
  /\ UNCHANGED <<states, events, sequence, history>>

Emitting == {i \in DOMAIN Program.operations : Program.operations[i].emits}

Incomplete == \E i \in Emitting : Program.operations[i].incomplete

Times_EndExcluded(o) ==
  LET start == clock + o.delay
  IN  IF o.repeat = 0 THEN {start}
      ELSE {t \in start..(start + o.duration - 1) : t > start /\ (t - start) % o.repeat = 0}

\* When an operation acts that is triggered now: once, or at every repetition after
\* the first up to its end.
Times(o) ==
  LET start == clock + o.delay
  IN  IF o.repeat = 0 THEN {start}
      ELSE {t \in start..(start + o.duration) : t > start /\ (t - start) % o.repeat = 0}

EventTimes == UNION {Times(Program.operations[i]) : i \in Emitting}

Acting(t) == {i \in Emitting : t \in Times(Program.operations[i])}

\* resolution_to_action_events: one event per time, numbered in order of time.
EventAt(t) ==
  [ id |-> Program.id, at |-> t, fired |-> clock,
    sequence |-> sequence + Cardinality({u \in EventTimes : u < t}),
    stacks |-> StacksAfter(Program.counters, State, clock),
    operations |-> Acting(t),
    requires_living_opponent |-> \E i \in Acting(t) : ~Program.operations[i].on_self,
    requires_source_alive |-> \A i \in Acting(t) : ~Program.operations[i].revives ]

Bounded_None == EventTimes

\* Events after the encounter are dropped.
Bounded == {t \in EventTimes : t <= Duration}

Numbered_One(n) == sequence + 1

Numbered(n) == sequence + n

AppliedHistory ==
  [history EXCEPT ![Program.id] = [counted |-> <<>>, applied |-> Append(@.applied, clock)]]

\* The state is kept although no event can be compiled from the resolution.
ApplyIncomplete ==
  /\ Applying /\ Program.evaluable /\ Incomplete
  /\ states' = [states EXCEPT ![Program.id] = AfterApplying(Program.counters, @, clock)]
  /\ history' = AppliedHistory
  /\ blockers' = blockers \cup {<<"CONTEXT_UNRESOLVED", Program.id>>}
  /\ UNCHANGED <<events, sequence>>

Apply ==
  /\ Applying /\ Program.evaluable /\ ~Incomplete
  /\ states' = [states EXCEPT ![Program.id] = AfterApplying(Program.counters, @, clock)]
  /\ history' = AppliedHistory
  /\ events' = events \cup {EventAt(t) : t \in Bounded}
  /\ sequence' = Numbered(Cardinality(Bounded))
  /\ blockers' = IF Program.reads_current
                   THEN blockers \cup {<<"CURRENT_STATE_SNAPSHOT", Program.id>>}
                   ELSE blockers

\* compile_item_combat_events has returned.
Returned ==
  /\ BetweenEntries /\ fixed = Len(FixedEntries)
  /\ UNCHANGED vars

Next ==
  \/ FixedEntry
  \/ \E at \in 0..Duration :
       \/ \E a \in OwnActions : OwnAction(a, at)
       \/ \E a \in OpponentActions : OpponentAction(a, at)
  \/ NotTriggered \/ ContextUnavailable \/ Cooling \/ Accumulate
  \/ Unevaluable \/ ApplyIncomplete \/ Apply
  \/ Returned

Spec == Init /\ [][Next]_vars

=============================================================================
