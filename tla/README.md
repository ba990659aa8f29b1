# Rift Foundry in TLA+

Rift Foundry recommends item builds for a duel or a team encounter. It compiles champions and
items into timed events, replays the events, and searches all builds for the ones whose replays
come out best. This directory holds TLA+ models of the parts of that program with state, the
TLC runs that check them, and TLAPS proofs of their main invariants.

Source paths below are relative to `src/lol_build/` of the repository.

## The system

| component | source | state | operations |
|---|---|---|---|
| timeline replay | `core/timeline.py` | health, shields, statuses, windows and grants of each participant; ledgers of damage and healing; times of death; horizon snapshot | one event: expire, skip or process outputs one by one; conclude |
| combat math | `core/combat.py` | none | resistance after reductions and penetration; share of damage left |
| item effect runtime | `items/effects.py` | per program: cooldown, trigger count, stacks, with their ends | resolve one trigger; turn a resolution into events |
| item event compiler | `application/item_combat.py` | one runtime state per program, next sequence number, events, blockers | build the trigger schedule; go through it |
| build search | `application/cog_preview.py`, `recommendation/feasibility.py` | paths kept, cache of stage outcomes, pool of worker processes, chosen branches | expand a core, prefill, evaluate, choose, ablate slots |
| matchup engine | `application/matchup.py`, `application/threat.py` | events of all sides during a bounded fixed-point iteration | allocate targets, block casts, compile items, replay |
| crowd control | `core/cc.py` | intervals of control | adjust a schedule |
| champion Cogs, registry | `cogs/` | registry under aliases; small caches in a Cog | register, replace, remove; compile a kit |
| web server and page | `application/web/` | admission slots; the page's selection and mode | recommend, evaluate; render |
| selection over candidates | `recommendation/selection.py` | none | tolerant Pareto frontier, three branches |
| patch data | `buildtime/` | snapshot files, `patch.lock.json` | collect, install atomically, rewrite the lock; restore what the lock names |
| documents | the rest of `recommendation/`, `scenarios/`, `items/`, `core/` | none | validate, look up, format |

How they meet: the search calls the matchup engine once for every distinct prefix of a build,
in worker processes when there are several; the engine compiles Cogs and items into events and
calls the replay; the replay's result becomes the outcome of a stage; the web server runs one
search per admitted request. Everything inside one evaluation is sequential. Concurrency is in
the worker pool, the request threads and the page's callbacks; crashes matter to worker
processes and to the patch data.

What is hard, component by component (`PROJECT.json` lists each at its line):

- the replay: seven kinds of timed state end at the same comparison, five ways of healing share
  one ledger, and events, stasis, floors and executes meet in orders nobody wrote a test for;
- the compiler: lazily expired counts, stacks and cooldowns, over a schedule that merges three
  sources;
- the search: workers that finish in any order or die, a cache under unordered prefixes, and an
  ablation that restates the search's legality, scoring and gates in functions of its own;
- the engine: a fixed point with a bound on its rounds, over events that three copies of one
  computation cancel, move and shield;
- the Cogs: a cache that outlives the encounter it was filled in;
- the web: state read again after an await; slots held across failures; threads, clients and
  the server that go away at any step;
- the patch data: a crash between installing files and writing the lock.

## Modules

| module | what it is |
|---|---|
| `Combat` | resistance and damage arithmetic |
| `Combatant` | `_MutableCombatant`: one participant and the operations on it |
| `Timeline` | `simulate_timeline`: the replay as a state machine |
| `TimelineProperties`, `MCTimeline` | properties; rosters and schedules for TLC |
| `TimelineProofs` | theorems about the replay: types, health, damage of a hit |
| `TimelineResultProofs` | theorems about its results: ledgers, deaths, what is in force, the horizon |
| `SumsOverSets` | lemmas on sums over finite sets, for ledgers and clocks |
| `ItemEffect` | `resolve_item_effect`: what one trigger does to a program's state |
| `ItemCombat` | `compile_item_combat_events`: the schedule and the programs it reaches |
| `ItemCombatProperties`, `MCItemCombat` | properties; a portfolio for TLC |
| `ItemCombatProofs` | theorems about the compiler |
| `BuildSearch` | `generic_cog_build_preview`: the search |
| `BuildSearchProperties`, `MCBuildSearch` | properties; a catalog for TLC |
| `BuildSearchProofs` | theorems about the search |
| `Kit` | the vocabulary of action and reaction plans (`cogs/base.py`) |
| `KitsAtoE`, `KitsFtoK`, `KitsLtoM`, `KitsNtoQ`, `KitsR`, `KitsS`, `KitsT`, `KitsUtoZ` | the plans of 102 champions |
| `Matchup` | `MatchupEngine.evaluate`: the fixed point over everybody's plans |
| `MatchupProperties`, `MCMatchup` | properties; duels and teams of those champions for TLC |
| `MatchupProofs` | theorems about the fixed point |
| `Admission` | what the server promises of its searches: an abstract specification |
| `Web` | the server's threads and the page, which implement `Admission` |
| `WebProperties`, `MCWeb` | properties and the refinement mapping; values for TLC |
| `WebProofs` | theorems about the server, the refinement among them |
| `PatchData` | `sync_champion_snapshots` and `sync_snapshot` over files and lock |
| `PatchDataProperties`, `MCPatchData` | properties; a small roster for TLC |
| `PatchDataProofs` | theorems about the patch data |

### Timeline

`states[e]` is a `_MutableCombatant`; the ledgers keep their names from the code
(`damage_by_target`, `healing_by_entity`, `death_ms_by_entity`, ...). `NextEvent` picks any event
of `Actions` at a time not before the clock, so that one run covers every schedule of up to
`MaxEvents` events; the code gets one schedule, sorted by time and sequence. Before an event acts,
`AccrueRegeneration`, `ReleasePendingHeal`, `Expire` and `ExpireMaxHealth` bring every
participant up to its time. `SkipEvent` holds the four early `continue`s, `ConsumeSpellShield` the
blocked recipients, and then there is one action for every kind of output (`Heal`, `Execute`,
`PreventDeath`, ...). A hit takes three: `StrikeShield` reduces it and strikes the plain
shield, `StrikeTimedShield` each timed shield in turn, `LoseHealth` the rest, with credit and vamp. `EndEvent` notes deaths and the
horizon snapshot. `audit` is a history variable: what took and gave health, for `HealthAccounted` and
`DamageSplit`; no action reads it.

Amounts are integers and ratios hundredths, where the code has `Decimal`. Lists whose order the code
does not use (grants, timed shields, pending heals) are sets whose members carry a serial
number. Due heals are released one in a step, earliest first; the code takes the due ones as a list and goes
through it once, which comes to the same. At most one damage window covers a hit. Log entries are left out, and so is the slow that
`SLOW_RESISTANCE_PERCENT` takes off `CC_SLOW`, which the replay stores and never reads. Events
the code would reject at construction are not enumerated. Participants start without statuses, a resistance has
one reduction and a group of modifiers one modifier at a time, and of the kinds of control there are two:
one that tenacity shortens and one that it does not. Modifiers of a stat are natural numbers: the negative ones in the Cogs are of
`MOVE_SPEED_PERCENT`, which the replay stores and never reads.

### ItemCombat

The three fixed entries of the schedule come at their times; own and opponent's actions come in any order
that the sort by time allows, opponent's after own at one time, as the stable sort has them. For every entry the
programs are visited in order, and exactly one of `NotTriggered`, `ContextUnavailable`,
`Unevaluable`, `Cooling`, `Accumulate`, `ApplyIncomplete` and `Apply` happens to each. `ItemEffect` has the three parts of
`resolve_item_effect` that touch its state. What an amount evaluates to is left out: an event is when it acts, what it was fired by, its
sequence number, which operations it holds and the stacks that multiply it. `CONDITION_NOT_MET` is never
returned here, since the compiler tests the same flag first. `history` records applications and counted triggers for the
properties.

### BuildSearch

An item is a position in the catalog. The engine is a function of the ordered path that is not known beforehand: the
first evaluation of a path picks its outcome and `outcome` remembers it, so that a run covers every such
function and the two orders of a pair may differ. `evaluations` is a history variable that counts, for every cache key, how often the
engine was asked about it, by a worker, the sequential pass or the ablation. `OpenPool` to `NextCore` are the
`with _stage_pool(...)` block; `WorkerFinishes`, `WorkerDies`, `StoreResult` and `PoolBreaks` run beside
each other, and `pool.map` hands results over in the order of the tasks. `ReviewSlot` is one call of
`_slot_runner_up_beam_candidate`. A build has one metric of damage and one of
durability where the code has up to four priorities, and one readiness flag where it has three; a chunk
of `pool.map` is one task; `shared_cooldown` filters as `same_passive` does and is merged with it. The ablation's own prefill is left out because there is never
anything for it to do, which `AblationAddsNothing` checks. The anti-heal review, the explanations and the blockers are not in the model.

### Kit and Kits...

A Cog is a function: from an encounter's length, the champion's ability haste and attack interval (a
*pace*) it makes an action plan and a reaction plan. `Kit` gives the two the shape the engine sees: a set of events
`[id, at, channel, controls, origin]` and three sets of windows, for cast blocks, immunities and slower
attack clocks. Every champion then is a definition of its events, one for each helper method that schedules some,
and one for its windows, written as the Cog writes them: names, times, cooldowns under haste, the interval of the attacks, what a
control blocks and for how long, whether tenacity shortens it, which cast a later event continues. `Windows` hangs a declared window on
every event of its name and cuts it at the end where the Cog does. Amounts of damage, healing and shields are
left out, since no action depends on them; identifiers are `<<name, n>>` for the n-th event of a name.
Cooldowns under haste are rounded half to even in most Cogs (`Hasted`) and up in two (`HastedUp`). Champions are at level 13,
the level of their models.

### Matchup

A participant is its plan, tenacity, line, priority and time of contact. When it arrives is an input:
`_arrival_ms` is arithmetic on speeds and ranges, and `MCMatchup` has its results for a distance of 650. `schedule[e]` is
`actor_events`, an entry of `ally_event_lists` or of `opponent_event_lists`; `Resolve` is the body of the loop at
`matchup.py:1081`. The code writes a round three times, and so does the model: `ResolveActor`, whose events are those of the plan;
`ResolveAlly`, which goes through the opponents who aim at an ally; and `ResolveOpponent`, which looks up the actor and the allies
in `OutgoingByTarget`. All three read the schedules of the round before. `Converge` is the `break`, `Iterate` the
other end of the body, and after `MaxRounds` of them the phase is `gave_up`, where the code adds
`CAST_BLOCK_DEPENDENCY_DID_NOT_CONVERGE` and goes on. The code compares tuples, so in the first round a plan that is not
written in the order of time differs from its sorted self: `InOrder`. Windows are visited in the order of the plan; `FirstOf` picks by that
rank, because the identifier of the window is part of the reason and so of the comparison. `Incoming` is a control as its recipient meets
it, shortened by tenacity; `LandedControls` are the controls left after `_strip_immune_control_outputs`. `CadenceAdjusted` does
not loop over the boundaries: `Progress` is what a clock has made of its time when its rate changes, the last of the `Moments` at which
that is not yet enough is where the loop of `_cadence_adjusted_timestamp` stops, and the rest is made at the rate from there.
Multipliers of attack clocks are fractions of `FullRate`; the products that occur are whole, so that the arithmetic
is exact, as `Decimal` is for them.

The lineups satisfy three assumptions, which the runs evaluate on the plans of all champions: there is somebody on both sides; events
have identifiers of their own and continuations come after their casts; a window does not open before its source acts, and a
cadence window is open for some time and slows without stopping, for which `_active_attack_cadence_windows` raises.

Left out: criticals, ignite and other events of items and summoner spells, events of reaction plans and
damage windows (they cancel nothing and are not cancelled by the loop), outputs on several targets.

### Web and Admission

`thread[r]` is where the handler of request `r` is in `do_POST`; `request[r]` what it was asked and the page that still
listens; `slots` the semaphore; `page[p]` the page's mode and selection, the request its `run()` awaits and
what it shows, under which renderer (`as`) and title. A request fails at every place where the code can raise: while its body is read,
with the semaphore taken, at any stage of the search, and when the answer is written. A living page may meet the first (a late or
malformed body) and the last (an answer that cannot be made or sent) as well as one that is gone. `Restart` loses all threads;
an answer already written is still read. The engine's `_kit_slow_cache` is `kitSlow`, and its value is the
duration it was computed for, the one thing about a slow that a property tells apart; a stage is evaluated in the server's process or, with
more than one worker, in one that has an engine of its own. All stages of a search ask for the same champion.

`Admission` has one variable: a search is new, running, refused or over. `Promise` in `WebProperties` maps a thread that holds a
slot to a running search, one that was told `SERVER_BUSY` to a refused one, and evaluations
to searches that stay new. Selecting, reading, stages and writing are stuttering steps.

### PatchData

A digest is the content it is of. `files` and `lock` are the disk, the rest is the command that runs: one at a time, since
they are started by hand. `StartCollect`, `Reuse`, `Fetch`, `Install` and `WriteLock` are `sync_champion_snapshots`, `StartRestore`, `Skip`,
`Restore` and `EndRestore` are `sync_snapshot`. `Stop` may come between any two: an error that is raised, or a crash; both leave what is on the
disk. `_write_atomic` is one step because `os.replace` is; power loss is not modelled, and the code
calls no `fsync`. `Trusted` compares what the roster's entry says of content and digest; that the code also compares its source, role, url
and locale is left out, since a difference there only leads to a fetch that other differences lead to as well. `Damage` changes or deletes a file between commands, the roster too. `before` is a
history variable.

## Runs

| run | asks | bounds |
|---|---|---|
| `Timeline_survival` | does health stay bounded and accounted, does death stay noted and final, is a floor respected, does anything outlast its time (floors, grants, heals of a consumed window) | 2 participants, 6 kinds of event, 4 events, times 0..3 |
| `Timeline_team` | do damage, healing and prevented healing add up for a team | 4 participants, 7 kinds of event, 4 events |
| `Timeline_shields` | is a hit split exactly, is nothing in force past its end | 2 participants, 6 kinds of event, 4 events, one damage window |
| `ItemCombat` | cooldowns, counted triggers, stacks, repetitions, sequence numbers | 8 programs, times 0..4, 5 actions |
| `BuildSearch` | does the result depend on the workers, is any key evaluated twice, are the ablation's answers the search's own | 5 items, 2 cores, 2 workers, 2 budgets, 2 outcomes per stage |
| `Matchup` | are the schedules on which the engine settles caused, symmetric, and delayed only by what delays them; does a round ever undo what is settled | all 102 x 102 duels, 400 encounters of two against two with late partners, 118 of two or three against themselves, 28 with an absent or a guarded partner, 8 seconds |
| `Web` | do the threads implement `Admission`; is every click answered or given up | 2 pages, 2 requests, 1 slot, 1 restart |
| `PatchData` | is what ends verified; does what fails early install nothing | the roster and 2 documents, 2 contents accepted for each document, one of them for both; a roster of both, of one, or none; any damage |
| `Timeline_spell_shield_heal`, `BuildSearch_pool`, `Matchup_rounds`, `Web_engine` | the four disagreements below | 3 participants, 3 events; as `BuildSearch`; 81 duels; as `Web` with one core and two durations |

Why these are enough: four events let one event set a window up, a second and third change what it
covers, and the fourth come after its end, with times that make every duration end before, at and
after a later event. Effects last at most two ticks, the encounter three. In
`ItemCombat`, five actions over five times complete a count of three, break it off and complete it again. In
`BuildSearch`, the catalog has a Heartsteel, a shared passive, an exclusive group, boots, a blocked item, an item that is too dear to be bought
first and budgets that leave nothing to buy second; the first core has fewer missing outcomes
than the pool is used for, the second has enough. Two cores instead of three leave the loop with a
first, a last and a step between them, but no core between; the three branches and both kinds of
fallback occur.

In `Matchup`, the duels are the whole set of pairs of the modelled champions, so that every plan meets every other one
and itself; late partners, absent ones and tenacity occur in the teams. The encounters of a side with itself are what `RoleNeutral`
is about: among them are sides of three, where allies and later opponents fight one another. Of the modelled champions only Ornn
has an immunity; that a round forgets those of an ally is found by `CancelledForACause`, in the encounters of Annie and Ornn against
Nautilus, Tahm Kench and Zac. Two pages and two requests over one slot let a search be
refused, fail and finish while another one waits, holds the slot or has lost its client; a third would repeat
one of these. Two documents are the least that can be half installed, and two contents the least that can differ
from the lock.

**Fairness.** Only `ButtonReturns` needs any. It assumes weak fairness for the handler of each request, which is a thread of its own,
never waits for another (the semaphore is not awaited) and whose reads and writes time out (`SOCKET_TIMEOUT_SECONDS`); a search ends because it is
a loop over finitely many builds; and weak fairness for a page taking an answer that has come, which the browser's event loop
does. Nothing is assumed of clicks, selections, reloads or restarts.

Deadlock is checked wherever the system goes on for ever; a finished replay, compilation or search stutters in `Returned`
or `Ended`. Only `Matchup` and `Matchup_rounds` do not check it: the iteration ends.

`NoDeathUnderFloor` is about floors above zero. Health costs have floors of their own of at least 1 in
the schedules, the default in the code; the code would accept 0.

### Where the code and its documentation part

1. `Timeline_spell_shield_heal`: the heal of a consumed spell shield is paid to a dead holder, who lives again.
2. `BuildSearch_pool`: when the pool breaks, the fallback of `_stage_pool` raises in place of going on in one process.
3. `Matchup_rounds`: six rounds are too few for some duels that have a fixed point. Each round settles the schedules up to the next
   control of the other side (`SettlesForward`), so a chain of seven is cut off.
4. `Web_engine`: with one worker, a search is computed with the slow that an earlier one left in the engine's cache.

Four more are stated in the properties' modules and not asked by a run. The code does what they
deny; replace the property of a run with the same module to see it:

- `TriggerOnlyOnLethal` (`TimelineProperties`, with `ChronoshiftActions`): a death-prevention trigger is consumed by any damage its floor
  stops, not only by lethal damage, as `docs/timeline-semantics.md:51` has it.
- `TriggeredHealAwaited` (same): an execute ignores the stasis of a consumed trigger, and the promised heal is lost.
- `HorizonSnapshotCurrent` (`TimelineProperties`, with `SurvivalActions`): the horizon snapshot is not renewed by an event inside
  the horizon that is skipped, although regeneration and expiry have passed.
- `ControlFollowsItsSource` (`MatchupProperties`, with `MCSlowedLineups`): an attack that is slowed comes later, but the control
  window that belongs to it opens when the attack was planned: actions are cancelled before their cause, and also when the
  attack is delayed past the end.

The page also shows a result under the mode and the champions selected when it arrives, not those it was asked for: `shown` in
`Web` differs from `request` after a `Select` during the await. No document says otherwise. When the renderer that
is chosen this way throws, the page reports an error and the button returns (`ButtonReturns`).

Since 1 holds only of `SPELL_SHIELD_HEAL`, `OnlyReviveRestores` is also a property of the passing run
`Timeline_survival`, whose schedules have no spell shield.

## Proofs

TLAPS checks the following for every value of the constants that satisfies the named assumptions
(`RosterAssumption` and the others in `Timeline`, `PortfolioAssumption` and the others in
`ItemCombat`, `CatalogAssumption` and `SearchAssumption` in `BuildSearch`, `LineupsAssumption`, `EventsAssumption` and `WindowsAssumption` in `Matchup`,
`LimitAssumption` and the others in `Web`, `PlanAssumption` and the others in `PatchData`):
any number of participants, programs, items, workers, requests and files, any amounts, schedules, plans and times.

| theorem | module |
|---|---|
| `TypeCorrect`: `Spec => []TypeOK` | all six |
| `HealthIsBounded`, `HealthIsAccounted`, `DamageIsSplit`, `HorizonIsWithinTotal` | `TimelineProofs` |
| `MaxHealthIsAccounted`, `DamageIsAttributed`, `PreventionIsCredited`, `DeathsAreRecorded`, `NothingIsOverdue`, `GrievousStrengthens`, `LivesHaveCauses` | `TimelineResultProofs` |
| `NobodyDiesUnderFloor`, `OnlyRevivalRestores`, `HorizonDeathsAgreement`, under conditions on the schedule | `TimelineResultProofs` |
| `CooldownIsKept`, `SequencesAreOrdered`, `NthTriggerActs`, `StacksAreEarned`, `RepetitionsAreComplete` | `ItemCombatProofs` |
| `SearchIsExhaustive`, `OutcomesAreEvaluatedOnce`, `RunnersUpCompete`, `ExclusionsAreExplained`, `AblationEvaluatesNothing` | `BuildSearchProofs` |
| `OneWorkerFailsOnlyWithoutBuild`, with one worker | `BuildSearchProofs` |
| `CancellationsHaveCauses`, `SettlesForwardTheorem`, `RolesAreAlike`, `AttacksAreDelayed` | `MatchupProofs` |
| `ContactComesFirst`, `BlocksAreLandedTheorem`, under conditions on the encounter | `MatchupProofs` |
| `ImplementsAdmissionTheorem`: `Spec => ImplementsAdmission` | `WebProofs` |
| `RunsEndVerifiedTheorem`, `FailureInstallsNothingTheorem` | `PatchDataProofs` |

Every invariant and every action property of the passing runs is proved, with these conditions:

| theorem | condition | who satisfies it |
|---|---|---|
| `NobodyDiesUnderFloor` | `CostsLeaveHealth`: costs have a floor above zero | every cost in the code: `health_floor` is 1 unless told otherwise (`core/timeline.py:150`), and nobody tells |
| `OnlyRevivalRestores` | `GrantsNoShieldHeal` | every schedule without Sivir's E (`cogs/champions/wip/sivir.py:73`), with which it is wrong: `Timeline_spell_shield_heal` |
| `HorizonDeathsAgreement` | `NoSecondLife`: everyone starts alive and nothing revives | encounters without a resurrection; with one, a death and a life after it are both true |
| `OneWorkerFailsOnlyWithoutBuild` | `Workers = 1` | `LOL_BUILD_WORKERS=1`, or a server with fewer than two cores for each search it admits; with more workers one that dies is enough: `BuildSearch_pool` |
| `ContactComesFirst` | `EarlyControlsAreOnTime`: what controls before contact is a cast, or an attack nobody slows | all 10950 encounters of the run; otherwise the attack, cancelled, may be slowed past the end, leave the schedule and take its verdict with it |
| `BlocksAreLandedTheorem` | `ControlsOpenAtOnce`: controls of those who face immunities open when their event acts | 10932 of the 10950; the engine tests immunity at the window's start in one place and at the event's time in the other, and some controls of Milio, Nami and Nautilus open later |

**The replay.** `HealthBounded` is not inductive: when a grant of maximum health ends, the maximum
stays positive only because it still contains all grants that run. The invariant therefore says, by
`GrantsRunning`, that some function gives every set of running grants its sum, and that the maximum is
that sum above a positive base; this takes one grant off at a time and needs no recursion.
`HealthAccounted` and `DamageSplit` hold together with the types of the ledgers, the audit and the hit in
flight: during a hit, what shields have taken is in the audit but not yet in `damage_by_target`, which
`InFlight` accounts for. `HorizonWithinTotal` follows from the two ledgers being written in one action
under a test of the same clock. `IInv` is their conjunction; there is one lemma for each action, and
`Next` is split over them.

**Its results.** The ledgers are sums over finite sets. What a sum does when one entry grows (`SumBooked`) or one grant ends
(`SumRemove`) is an induction, which the library's theorems state with an operator no prover here can instantiate; `SubsetInduction`
states it instead over the set of the subsets already dealt with. `StepFate` says once, of every step and every participant,
what may happen to it: how its grants change with its maximum, what may kill it and what may bring it back. From it follow `Sound`
(maximum health, and credit of reductions), `Recorded` (a time of death is noted for the dead, not later than now), and
`LivesHaveCauses`, of which the three theorems about death and life are readings. `Timely` says that between an event's beginning and
its end nothing is due any more (for heals of consumed windows: until it acts, when it may promise new ones, `HealsStay`), `Scheduled` that what is to be done is declared in the schedule; the conditions on schedules need the latter.

**The compiler.** `IInv` adds to `TypeOK` and the two properties that a program is not ready before the
cooldown of its last application is over (`NotReadyBefore`), and that applications and events lie in the
past (`Chronological`). New events get distinct numbers because the rank of a time among the kept ones
grows with the time, which the lemmas on cardinalities (`RankBelow`, `RankGrows`) establish.
Chains of triggers and of applications are built one at a time: the invariants `Runs` and `Repeated` say of the trigger count, the stacks and the
events in the state that they are what the run so far gives, so that no chain has to be taken apart. That a repetition leaves out no interval is a
bijection between its events and its rounds.

**The search.** `IInv` has one part for each phase: `Framed` (where the search stands), `Memoized` (the cache holds the outcome of the
first path of each key), `Kept` (the paths kept are those that can be bought to this depth, sorted, each key once), `Expanding`, `Collecting`
(what workers have in hand and what waits), `Choosing` and `Reviewing`. The key lemmas are that sorting by a total order gives the one sorted
sequence (`LexLeast`, `Sorted`), that paths of one key are bought alike (`SameKey`, `StandsForOthers`, `StandsOnce`), that a score only depends on entries
that no longer change (`ScoreStable`), and that every alternative of the ablation was scored before (`AlternativesScored`), whence it evaluates nothing.
Workers come in only through `Collecting`: which finishes first, or dies, changes who computes an outcome and not which. `Counting` says that
the engine has been asked once about the key of every outcome there is, and that outcomes the cache lacks are those of workers not yet collected.

**The engine.** `RoundIs` says what one round makes of each planned event: when it comes, and why it does not happen. With `Settled` (a converged
schedule is one that a round leaves alone) it gives `CancelledForACause`. `Punctual` (events come when planned if nobody's clock is slowed) lets
two rounds be compared event by event: `WindowNeedsAChange` to `VerdictNeedsAChange` follow a change back to its cause. `ActorCopy`, `AllyCopy` and `OpponentCopy` say that the three
computations of a round give what one formula over whoever aims at a participant gives (`CopiesAgree`); the other lemmas use that formula. `Symmetric` says that a lineup
against itself is cancelled alike on both sides, carried through targets, windows and rounds by `Mirror`. `EarlyStays` keeps early events in
the schedule, cancelled. `OneClockEach` says that one set of windows made all times of a participant's events. For a clock, `Segment` gives its progress between two
moments, from which each millisecond adds its rate (`ProgressStep`); rates are positive and lose at most what their windows take (`RateBounds`); `AdjustedIs` says that
an attack comes at the first millisecond that has made its progress, and the three claims of `AttackClock` compare progress at two such times.
Targets are chosen by cases that exclude each other: the actor and the primary opponent come before the policy, as in the code.

**The server.** `TypeOK` contains that the slots left and the threads that hold one are `Limit` together, which is inductive given the
lemmas on adding and removing one holder (`OneMoreHolder`, `OneHolderLess`). `Stages` adds what a thread has said and was asked
by where it is: without it a thread that was told `SERVER_BUSY` could be taken for one that holds a slot. The refinement then has one lemma for
each step that moves a search (`AcquireAdmits`, `TurnAwayRefuses`, `ReleaseFinishes`, `RestartStops`), and two for
those that stutter; that `TurnAway` finds exactly `Limit` searches running is the conservation of slots again.

**The patch data.** The invariant adds to the types what a command knows of the documents it has dealt with: before the
first installation the files are those it started with; a document that is neither to be looked at nor pending is on the disk as its entry
has it, and was accepted; a document a restoration has looked at is as locked. The action properties follow from it at `WriteLock`, `EndRestore` and `Stop`.

**Only model-checked**: liveness (`ButtonReturns`), which needs fairness and ENABLED; and what the replay of the code makes of
real amounts, since the theorems are about integers. The four disagreements are counterexamples, found by the runs.

## Plan

In this order, each with the questions it is for:

1. Proofs: that the search with workers implements one without, as a refinement; that without slowed clocks a search of the engine whose
   controls all open after their events settles in as many rounds as there are controls.
2. `Encounter`: what the replay promises (who may lose, gain and hold health, when), refined by
   `Timeline`; the heal that falls due under a reduction that has since ended.
3. `Matchup`, `ItemCombat` and `Timeline` composed: items triggered by hits that the replay skips.
4. The champions whose rotations depend on their opponents, as `Kits` with a second pace.
5. `Selection`: the tolerant frontier, where dominance in a circle leaves nothing to rank; `CrowdControl`: the
   adjustment against a reference; both as operators over bounded inputs.
6. `CogRegistry`: registration that fails half-way.

## Not modelled

- Champions whose Cogs compute rotations from amounts or from the opponent's statistics (71 of 173), and
  all amounts of the others: they are numbers taken from the locked data, which unit tests compare with it.
- `core/cc.py`, `recommendation/selection.py`, `cogs/registry.py`, the Heartsteel progression and the on-hit benchmark: sequential
  functions over immutable inputs, in the plan above where an order or a boundary can go wrong in them.
- Documents, explanations, manifests, schema validators, canonical formatting, drift reports, the catalog and the page's layout: they
  keep no state that a step could get wrong.
