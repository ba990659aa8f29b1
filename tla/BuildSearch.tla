----------------------------- MODULE BuildSearch -----------------------------
(***************************************************************************)
(* generic_cog_build_preview of application/cog_preview.py: the exhaustive *)
(* search over ordered builds, with its cache of stage outcomes and the    *)
(* pool of worker processes that fills the cache ahead.                    *)
(*                                                                         *)
(* What MatchupEngine.evaluate says of a build is not known here: the      *)
(* first evaluation of a path picks any of Outcomes, and outcome keeps it, *)
(* so that the engine is some function of the ordered path.                *)
(***************************************************************************)
EXTENDS Integers, Sequences, FiniteSets, FiniteSetsExt, Functions

CONSTANTS
  Catalog,      \* complete_items, in order of id; an item is its position
  Cores,        \* cores in a build: 3
  Budgets,      \* the budgets a caller may give: gold ceilings, cumulative, by core
  StageWeights, \* stage_weights, by core
  MaxLoss,      \* defense_max_primary_loss_fraction, in hundredths
  Workers,      \* worker processes
  Outcomes,     \* what a stage may come out as, by core
  NoGroup       \* the None of an item's group

StageRecord == [damage : Nat, durability : Nat, ready : BOOLEAN]

ItemDocument ==
  [ cost : Nat, boots : BOOLEAN,
    same_passive : {NoGroup} \cup STRING,  \* and shared_cooldown, which filters alike
    purchase_exclusive : SUBSET STRING, heartsteel : BOOLEAN,
    blocked : BOOLEAN ]                    \* item_candidate_blocker names a reason

ASSUME CatalogAssumption == Catalog \in Seq(ItemDocument)

ASSUME SearchAssumption ==
  /\ Cores \in Nat \ {0} /\ Workers \in Nat \ {0} /\ MaxLoss \in 0..100
  /\ Budgets \subseteq [1..Cores -> Nat] /\ StageWeights \in [1..Cores -> Nat \ {0}]
  /\ Outcomes \in [1..Cores -> (SUBSET StageRecord) \ {{}}]

VARIABLES
  pc,          \* where the search is
  budgets,     \* budgets of this search
  core,        \* the core being expanded
  states,      \* states[path]: the _BeamState of every path kept
  legal,       \* legal expansions at this core
  expanded,    \* expanded[path]: _BeamStates made of them so far
  cache,       \* prefix_cache
  outcome,     \* outcome[path]: what the engine was found to say of a path
  pool,        \* the process pool of the search: none, live or broken
  evaluations, \* evaluations[key]: how often the engine has evaluated a path of that key
  tasks,       \* paths sent to the pool, in order
  finished,    \* the tasks that a worker has done
  stored,      \* how many of their results are in the cache
  chosen,      \* the path of each branch
  reviewed,    \* slots of the chosen paths that have been reviewed
  runnersUp    \* what the reviews found

stage == <<budgets, core, states, legal, expanded>>
parallel == <<pool, tasks, finished, stored>>
memo == <<cache, outcome, evaluations>>
result == <<chosen, reviewed, runnersUp>>
vars == <<pc, stage, memo, parallel, result>>

Items == 1..Len(Catalog)

Branches == <<"DEFAULT", "OFFENSE", "DEFENSE">>

Paths == UNION {[1..n -> Items] : n \in 0..Cores}

\* Both loops go through the catalog in order, so paths of one length come in
\* lexicographic order.
Before(p, q) ==
  \E k \in DOMAIN p : p[k] < q[k] /\ \A j \in 1..k-1 : p[j] = q[j]

First(paths) == CHOOSE p \in paths : \A q \in paths : p = q \/ Before(p, q)

Owned(path) == {path[c] : c \in DOMAIN path}

\* f with what g says put over it, and with v at x.
Over(f, g) == [x \in DOMAIN f \cup DOMAIN g |-> IF x \in DOMAIN g THEN g[x] ELSE f[x]]

Put(f, x, v) == Over(f, [y \in {x} |-> v])

-----------------------------------------------------------------------------
(* Legality *)

Gold(path) == SumFunctionOnSet([c \in DOMAIN path |-> Catalog[path[c]].cost], DOMAIN path)

\* The filters on what may be owned together: one pair of boots, no group of
\* same_passive or shared_cooldown twice, no group of purchase_exclusive twice.
Compatible(path) ==
  \A c, d \in DOMAIN path : c # d =>
    LET x == Catalog[path[c]]  y == Catalog[path[d]]
    IN  /\ ~(x.boots /\ y.boots)
        /\ x.same_passive = NoGroup \/ x.same_passive # y.same_passive
        /\ x.purchase_exclusive \cap y.purchase_exclusive = {}

\* Extensions of the paths kept so far that survive every filter.
Expansions ==
  {q \in {Append(p, i) : p \in DOMAIN states, i \in Items} :
     /\ ~Catalog[q[core]].blocked
     /\ \A c \in 1..core-1 : q[c] # q[core]
     /\ Gold(q) <= budgets[core]
     /\ Compatible(q)}

PathIsLegal_FinalBudget(path) == Gold(path) <= budgets[Len(path)] /\ Compatible(path)

\* _path_is_legal_beam, of a whole path.
PathIsLegal(path) ==
  /\ \A c \in DOMAIN path : Gold(SubSeq(path, 1, c)) <= budgets[c]
  /\ Compatible(path)

-----------------------------------------------------------------------------
(* Stage outcomes *)

\* _prefix_cache_key: the order of a prefix matters only to Heartsteel.
Key(path) ==
  IF \E c \in DOMAIN path : Catalog[path[c]].heartsteel
    THEN [order |-> path, items |-> {}]
    ELSE [order |-> <<>>, items |-> Owned(path)]

\* Times that the engine has been asked about the key.
Asked(key) == IF key \in DOMAIN evaluations THEN evaluations[key] ELSE 0

\* The engine evaluates path, with r as the outcome.
Evaluate(path, r) ==
  /\ r \in Outcomes[Len(path)] /\ (path \in DOMAIN outcome => r = outcome[path])
  /\ outcome' = Put(outcome, path, r)
  /\ evaluations' = Put(evaluations, Key(path), Asked(Key(path)) + 1)

RecordOf_Uncached(path, r) == Evaluate(path, r) /\ cache' = Put(cache, Key(path), r)

\* _stage_record returns r for path.
RecordOf(path, r) ==
  IF Key(path) \in DOMAIN cache
    THEN r = cache[Key(path)] /\ UNCHANGED memo
    ELSE Evaluate(path, r) /\ cache' = Put(cache, Key(path), r)

NoMetrics == [damage |-> 0, durability |-> 0, gold |-> 0, total |-> 0, ready |-> TRUE]

\* A _BeamState one core further: everything weighted, readiness for all cores.
Accumulated(s, r, c, total) ==
  [ damage |-> s.damage + r.damage * StageWeights[c],
    durability |-> s.durability + r.durability * StageWeights[c],
    gold |-> s.gold + total * StageWeights[c],
    total |-> total,
    ready |-> s.ready /\ r.ready ]

Init ==
  /\ pc = "open" /\ budgets \in Budgets /\ core = 1
  /\ states = [p \in {<<>>} |-> NoMetrics] /\ legal = {} /\ expanded = <<>>
  /\ cache = <<>> /\ outcome = <<>> /\ evaluations = <<>>
  /\ pool = "none" /\ tasks = <<>> /\ finished = {} /\ stored = 0
  /\ chosen = <<>> /\ reviewed = 0 /\ runnersUp = {}

-----------------------------------------------------------------------------
(* One core *)

\* _stage_pool: one worker needs no pool, and a pool that cannot be made is done
\* without.
OpenPool ==
  /\ pc = "open"
  /\ pool' \in IF Workers > 1 THEN {"live", "none"} ELSE {"none"}
  /\ pc' = "expand"
  /\ UNCHANGED <<stage, memo, tasks, finished, stored, result>>

Expand ==
  /\ pc = "expand"
  /\ legal' = Expansions /\ expanded' = <<>>
  /\ pc' = "prefill"
  /\ UNCHANGED <<budgets, core, states, memo, parallel, result>>

FirstOfKeys_Last(paths) ==
  LET missing == {p \in paths : Key(p) \notin DOMAIN cache}
  IN  {p \in missing : \A q \in missing : Key(q) = Key(p) => p = q \/ Before(q, p)}

\* Of paths: the first one of every outcome that the cache does not have.
FirstOfKeys(paths) ==
  LET missing == {p \in paths : Key(p) \notin DOMAIN cache}
  IN  {p \in missing : \A q \in missing : Key(q) = Key(p) => p = q \/ Before(p, q)}

Pending == FirstOfKeys(legal)

InOrder(paths) ==
  CHOOSE s \in [1..Cardinality(paths) -> paths] :
    \A i, j \in DOMAIN s : i < j => Before(s[i], s[j])

\* Few missing outcomes are not worth sending.
Prefill ==
  /\ pc = "prefill"
  /\ IF pool = "none" \/ Cardinality(Pending) < 2 * Workers
       THEN pc' = "sequential" /\ UNCHANGED <<tasks, finished, stored>>
       ELSE pc' = "collect" /\ tasks' = InOrder(Pending) /\ finished' = {} /\ stored' = 0
  /\ UNCHANGED <<stage, memo, pool, result>>

\* Tasks are handed out in order, one to a worker at a time.
WorkerFinishes(i) ==
  /\ pc = "collect" /\ pool = "live"
  /\ i \notin finished
  /\ Cardinality((1..i-1) \ finished) < Workers
  /\ \E r \in Outcomes[core] : Evaluate(tasks[i], r)
  /\ finished' = finished \cup {i}
  /\ UNCHANGED <<pc, stage, cache, pool, tasks, stored, result>>

\* A worker process ends, or its initializer fails: what is unfinished will fail.
WorkerDies ==
  /\ pc = "collect" /\ pool = "live"
  /\ pool' = "broken"
  /\ UNCHANGED <<pc, stage, memo, tasks, finished, stored, result>>

\* pool.map yields results in the order of the tasks.
StoreResult ==
  /\ pc = "collect" /\ stored + 1 \in finished
  /\ cache' = Put(cache, Key(tasks[stored + 1]), outcome[tasks[stored + 1]])
  /\ stored' = stored + 1
  /\ pc' = IF stored' = Len(tasks) THEN "sequential" ELSE "collect"
  /\ UNCHANGED <<stage, outcome, evaluations, pool, tasks, finished, result>>

\* BrokenProcessPool is thrown into _stage_pool at its yield; the handler yields
\* once more, which a context manager may not, so the search raises.
PoolBreaks ==
  /\ pc = "collect" /\ pool = "broken" /\ stored + 1 \notin finished
  /\ pc' = "raised"
  /\ UNCHANGED <<stage, memo, parallel, result>>

\* One turn of the sequential pass over the legal expansions.
Sequential ==
  /\ pc = "sequential" /\ DOMAIN expanded # legal
  /\ LET p == First(legal \ DOMAIN expanded)
     IN  \E r \in Outcomes[core] :
           /\ RecordOf(p, r)
           /\ expanded' = Put(expanded, p,
                Accumulated(states[SubSeq(p, 1, core - 1)], r, core, Gold(p)))
  /\ UNCHANGED <<pc, budgets, core, states, legal, parallel, result>>

NoCandidates ==
  /\ pc = "sequential" /\ legal = {}
  /\ pc' = "raised"
  /\ UNCHANGED <<stage, memo, parallel, result>>

MoreCores_Inclusive == core <= Cores

\* range(1, 4)
MoreCores == core < Cores

NextCore ==
  /\ pc = "sequential" /\ legal # {} /\ DOMAIN expanded = legal
  /\ states' = expanded
  /\ IF MoreCores THEN core' = core + 1 /\ pc' = "expand" /\ UNCHANGED pool
                  ELSE UNCHANGED core /\ pc' = "branch" /\ pool' = "none"
  /\ UNCHANGED <<budgets, legal, expanded, memo, tasks, finished, stored, result>>

-----------------------------------------------------------------------------
(* Branches *)

BestDamage == LET ds == {states[p].damage : p \in DOMAIN states}
              IN  CHOOSE d \in ds : \A e \in ds : d >= e

\* defense_candidate_is_feasible
Feasible(s) == s.ready /\ s.damage * 100 >= BestDamage * (100 - MaxLoss)

ChassisStates == {p \in DOMAIN states : states[p].ready}

\* No candidate that is ready for all cores: every candidate may be chosen.
ChassisPool == IF ChassisStates # {} THEN ChassisStates ELSE DOMAIN states

DamageGated == {p \in ChassisPool : Feasible(states[p])}

PoolOf(b) ==
  CASE b = "DEFAULT" -> ChassisPool
    [] b = "OFFENSE" -> DOMAIN states
    [] b = "DEFENSE" -> IF DamageGated # {} THEN DamageGated ELSE ChassisPool

\* What _choose_state and _slot_sort_key order by: the branch's metrics, the gold
\* by core, the gold in all, the ids.
Rank(b, p, s) ==
  (CASE b = "DEFAULT" -> <<-s.damage, -s.durability>>
     [] b = "OFFENSE" -> <<-s.damage>>
     [] b = "DEFENSE" -> <<-s.durability>>)
  \o <<s.gold, s.total>> \o p

Choice(b, paths, score) ==
  CHOOSE p \in paths :
    \A q \in paths : p = q \/ Before(Rank(b, p, score[p]), Rank(b, q, score[q]))

SelectBranches ==
  /\ pc = "branch"
  /\ chosen' = [i \in 1..3 |-> Choice(Branches[i], PoolOf(Branches[i]), states)]
  /\ pc' = "ablate"
  /\ UNCHANGED <<stage, memo, parallel, reviewed, runnersUp>>

-----------------------------------------------------------------------------
(* Ablation: what else could have filled each slot of each branch's build.  The   *)
(* prefill of this part finds nothing missing (AblationAddsNothing), so it does   *)
(* not reach its pool.                                                            *)

Branch == Branches[(reviewed \div Cores) + 1]

Chosen == chosen[(reviewed \div Cores) + 1]

Slot == (reviewed % Cores) + 1

Alternatives ==
  {q \in {[Chosen EXCEPT ![Slot] = i] : i \in Items \ Owned(Chosen)} :
     ~Catalog[q[Slot]].blocked /\ PathIsLegal(q)}

Prefixes(path) == {SubSeq(path, 1, c) : c \in DOMAIN path}

Unscored == FirstOfKeys(UNION {Prefixes(q) : q \in Alternatives})

\* _evaluate_ordered_path_state: what the search makes of path, from the cache.
ScoreOf(path, memoized) ==
  LET At(c) == memoized[Key(SubSeq(path, 1, c))]
      Sum(f) == SumFunctionOnSet(f, DOMAIN path)
  IN  [ damage |-> Sum([c \in DOMAIN path |-> At(c).damage * StageWeights[c]]),
        durability |-> Sum([c \in DOMAIN path |-> At(c).durability * StageWeights[c]]),
        gold |-> Sum([c \in DOMAIN path |-> Gold(SubSeq(path, 1, c)) * StageWeights[c]]),
        total |-> Gold(path),
        ready |-> \A c \in DOMAIN path : At(c).ready ]

DefenseGate_FloorOnly(s) == DamageGated # {} => s.damage * 100 >= BestDamage * (100 - MaxLoss)

DefenseGate(s) ==
  /\ ChassisStates # {} => s.ready
  /\ DamageGated # {} => Feasible(s)

\* branch_ablation_gate
Passes(b, s) ==
  CASE b = "DEFAULT" -> (ChassisStates # {} => s.ready)
    [] b = "OFFENSE" -> TRUE
    [] b = "DEFENSE" -> DefenseGate(s)

Reasons_DefenseOnly(b, s) ==
  IF b = "DEFENSE" /\ ChassisStates # {} /\ ~s.ready THEN {"NOT_READY"}
  ELSE IF b = "DEFENSE" /\ DamageGated # {} /\ ~Feasible(s) THEN {"DAMAGE_FLOOR_NOT_MET"}
  ELSE {}

\* _slot_exclusion_reasons
Reasons(b, s) ==
  IF b = "OFFENSE" THEN {}
  ELSE IF ChassisStates # {} /\ ~s.ready THEN {"NOT_READY"}
  ELSE IF b = "DEFENSE" /\ DamageGated # {} /\ ~Feasible(s) THEN {"DAMAGE_FLOOR_NOT_MET"}
  ELSE {}

\* _slot_runner_up_beam_candidate: the best alternative that passes the branch's
\* gate, or the best one that does not, with why.
ReviewSlot ==
  /\ pc = "ablate" /\ reviewed < 3 * Cores
  /\ \E found \in [Unscored -> UNION Range(Outcomes)] :
       /\ \A p \in Unscored : found[p] \in Outcomes[Len(p)]
       /\ outcome' = Over(outcome, found)
       /\ cache' = Over(cache, [k \in {Key(p) : p \in Unscored} |->
                                 found[CHOOSE p \in Unscored : Key(p) = k]])
       /\ evaluations' = Over(evaluations, [k \in {Key(p) : p \in Unscored} |->
                                 Asked(k) + Cardinality({p \in Unscored : Key(p) = k})])
  /\ LET score == [q \in Alternatives |-> ScoreOf(q, cache')]
         passing == {q \in Alternatives : Passes(Branch, score[q])}
         Found(kind, q, why) ==
           {[ branch |-> Branch, slot |-> Slot, kind |-> kind, path |-> q,
              score |-> score[q], reasons |-> why ]}
     IN  runnersUp' = runnersUp \cup
           (IF Alternatives = {} THEN {}
            ELSE IF passing # {}
              THEN Found("RUNNER_UP", Choice(Branch, passing, score), {})
              ELSE LET q == Choice(Branch, Alternatives, score)
                   IN  Found("EXCLUDED", q, Reasons(Branch, score[q])))
  /\ reviewed' = reviewed + 1
  /\ UNCHANGED <<pc, stage, parallel, chosen>>

Conclude ==
  /\ pc = "ablate" /\ reviewed = 3 * Cores
  /\ pc' = "returned"
  /\ UNCHANGED <<stage, memo, parallel, result>>

\* generic_cog_build_preview has returned or raised.
Ended == pc \in {"returned", "raised"} /\ UNCHANGED vars

Next ==
  \/ OpenPool \/ Expand \/ Prefill
  \/ \E i \in DOMAIN tasks : WorkerFinishes(i)
  \/ WorkerDies \/ StoreResult \/ PoolBreaks
  \/ Sequential \/ NoCandidates \/ NextCore
  \/ SelectBranches
  \/ ReviewSlot \/ Conclude
  \/ Ended

Spec == Init /\ [][Next]_vars

=============================================================================
