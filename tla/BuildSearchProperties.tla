------------------------ MODULE BuildSearchProperties ------------------------
(***************************************************************************)
(* What a reader of a CogBuildPreview relies on.                           *)
(***************************************************************************)
EXTENDS BuildSearch

Phases == { "open", "expand", "prefill", "collect", "sequential", "branch", "ablate",
            "returned", "raised" }

Metrics == [damage : Nat, durability : Nat, gold : Nat, total : Nat, ready : BOOLEAN]

TypeOK ==
  /\ pc \in Phases /\ core \in 1..Cores /\ budgets \in Budgets
  /\ DOMAIN states \subseteq Paths /\ \A p \in DOMAIN states : states[p] \in Metrics
  /\ legal \subseteq Paths
  /\ DOMAIN expanded \subseteq Paths /\ \A p \in DOMAIN expanded : expanded[p] \in Metrics
  /\ \A k \in DOMAIN cache : cache[k] \in UNION Range(Outcomes)
  /\ DOMAIN outcome \subseteq Paths /\ \A p \in DOMAIN outcome : outcome[p] \in Outcomes[Len(p)]
  /\ pool \in {"none", "live", "broken"}
  /\ DOMAIN evaluations = {Key(p) : p \in DOMAIN outcome}
  /\ tasks \in Seq(Paths) /\ stored \in 0..Len(tasks) /\ finished \subseteq DOMAIN tasks
  /\ chosen \in {<<>>} \cup [1..3 -> Paths]
  /\ reviewed \in 0..3 * Cores
  /\ \A f \in runnersUp :
       /\ f.branch \in {Branches[i] : i \in 1..3} /\ f.slot \in 1..Cores
       /\ f.kind \in {"RUNNER_UP", "EXCLUDED"}
       /\ f.path \in Paths /\ f.score \in Metrics

-----------------------------------------------------------------------------
(* The result, defined without cores, pools or a cache *)

\* Whole builds that can be bought one item after the other.
LegalBuilds ==
  {p \in [1..Cores -> Items] :
     /\ Cardinality(Owned(p)) = Cores
     /\ \A c \in 1..Cores : ~Catalog[p[c]].blocked
     /\ PathIsLegal(p)}

\* The path that stands for a prefix: the first prefix of the same key that can be
\* bought, whether or not a build goes on from it.
Representative(prefix) ==
  First({q \in [1..Len(prefix) -> Items] :
           /\ Key(q) = Key(prefix)
           /\ \A c \in DOMAIN q : ~Catalog[q[c]].blocked
           /\ PathIsLegal(q)})

ReferenceScore(path) ==
  LET At(c) == outcome[Representative(SubSeq(path, 1, c))]
      Sum(f) == SumFunctionOnSet(f, 1..Cores)
  IN  [ damage |-> Sum([c \in 1..Cores |-> At(c).damage * StageWeights[c]]),
        durability |-> Sum([c \in 1..Cores |-> At(c).durability * StageWeights[c]]),
        gold |-> Sum([c \in 1..Cores |-> Gold(SubSeq(path, 1, c)) * StageWeights[c]]),
        total |-> Gold(path),
        ready |-> \A c \in 1..Cores : At(c).ready ]

\* The search keeps every build that can be bought and scores it from outcomes that
\* are the same for any number of workers, in whatever order they finish: results do
\* not depend on workers, and no prefix is dropped before its continuations are tried.
Exhaustive ==
  pc = "branch" =>
    /\ DOMAIN states = LegalBuilds
    /\ \A p \in LegalBuilds :
         /\ \A c \in 1..Cores : Representative(SubSeq(p, 1, c)) \in DOMAIN outcome
         /\ states[p] = ReferenceScore(p)

\* The engine is asked about every key once, whoever asks: neither two workers nor a
\* worker and the sequential pass nor the ablation evaluate what has the same key, be
\* it the same path or another (prefix_cache, pending).
EvaluatedOnce == \A k \in DOMAIN evaluations : evaluations[k] = 1

\* What is reported as the second choice for a slot is a build that the branch could
\* have chosen, scored as the search scored it, and it ranks after the choice.
RunnerUpCompetes ==
  \A f \in runnersUp :
    LET i == CHOOSE n \in 1..3 : Branches[n] = f.branch
    IN  /\ f.path \in DOMAIN states /\ f.score = states[f.path]
        /\ f.kind = "RUNNER_UP" =>
             /\ f.path \in PoolOf(f.branch)
             /\ Before(Rank(f.branch, chosen[i], states[chosen[i]]),
                       Rank(f.branch, f.path, f.score))

\* An alternative that is reported as excluded is one the branch could not choose, and
\* the report says which condition it fails.
ExclusionExplained ==
  \A f \in runnersUp :
    f.kind = "EXCLUDED" => f.path \notin PoolOf(f.branch) /\ f.reasons # {}

\* The ablation reviews only what the search has evaluated: it adds no outcome.
AblationAddsNothing == [][pc = "ablate" => UNCHANGED memo]_vars

\* A search fails only when there is no build to recommend (":raises ValueError: If no
\* legal core exists"); a pool that cannot start "is reported instead of raised".
FailsOnlyWithoutBuild == pc = "raised" => legal = {}

=============================================================================
