-------------------------- MODULE ItemCombatProofs --------------------------
(***************************************************************************)
(* Cooldowns, counted triggers, stacks, repetitions and the order of item  *)
(* events, for every portfolio, schedule and encounter.                    *)
(***************************************************************************)
EXTENDS ItemCombatProperties, FiniteSetTheorems, TLAPS

\* Whoever holds an id is the program that the id names.
LEMMA ProgramUnique ==
  ASSUME NEW i \in Indices
  PROVE  Portfolio[i].id \in Ids /\ ProgramOf(Portfolio[i].id) = Portfolio[i]
BY PortfolioAssumption DEF ProgramOf, Ids

\* One resolution of a program leaves a state, and keeps or renews its cooldown.
LEMMA EffectStates ==
  ASSUME NEW p \in Counters, NEW s \in EffectState, NEW now \in Nat
  PROVE  /\ AfterAccumulating(p, s, now) \in EffectState
         /\ AfterAccumulating(p, s, now).ready_at = s.ready_at
         /\ AfterApplying(p, s, now) \in EffectState
         /\ AfterApplying(p, s, now).ready_at = now + p.cooldown
<1>1. /\ p.cooldown \in Nat /\ p.counting_window \in Nat /\ p.max_stacks \in Nat
      /\ p.stacks_per_trigger \in Nat /\ p.stack_duration \in Nat
  BY DEF Counters
<1>2. /\ s.ready_at \in Nat /\ s.stacks \in Nat /\ s.stacks_end \in Nat
      /\ s.count \in Nat /\ s.count_end \in Nat
  BY DEF EffectState
<1>3. LiveStacks(s, now) \in Nat /\ StacksEnd(s, now) \in Nat
      /\ Counted(s, now) \in Nat
  BY <1>2, NeverAssumption DEF LiveStacks, StacksEnd, Counted
<1>4. CountEnd(p, s, now) \in Nat
  BY <1>1, <1>2, NeverAssumption DEF CountEnd
<1>5. StacksAfter(p, s, now) \in Nat
  BY <1>1, <1>3 DEF StacksAfter
<1>6. now + p.stack_duration \in Nat /\ now + p.cooldown \in Nat /\ 0 \in Nat
      /\ Never \in Nat
  BY <1>1, NeverAssumption
<1> QED
  BY <1>2, <1>3, <1>4, <1>5, <1>6 DEF AfterAccumulating, AfterApplying, EffectState

\* A time has fewer earlier times than there are up to n, when it is one of those.
LEMMA RankBelow ==
  ASSUME NEW S \in SUBSET Nat, NEW n \in Nat, NEW t \in S, t <= n
  PROVE  /\ Cardinality({u \in S : u < t}) \in Nat
         /\ Cardinality({u \in S : u <= n}) \in Nat
         /\ Cardinality({u \in S : u < t}) < Cardinality({u \in S : u <= n})
<1> DEFINE Earlier == {u \in S : u < t}
           Upto == {u \in S : u <= n}
<1>1. IsFiniteSet(Upto)
  <2>1. IsFiniteSet(0..n)
    BY FS_Interval
  <2>2. Upto \subseteq 0..n
    <3> SUFFICES ASSUME NEW u \in S, u <= n PROVE u \in 0..n
      OBVIOUS
    <3>1. u \in Nat
      OBVIOUS
    <3> QED
      BY <3>1
  <2> QED
    BY <2>1, <2>2, FS_Subset
<1>2. Earlier \subseteq Upto /\ t \in Upto /\ t \notin Earlier
  <2>1. t \in Nat /\ \A u \in S : u \in Nat
    OBVIOUS
  <2>2. \A u \in S : u < t => u <= n
    BY <2>1
  <2>3. ~(t < t)
    BY <2>1
  <2> QED
    BY <2>2, <2>3
<1>3. IsFiniteSet(Earlier) /\ Cardinality(Earlier) <= Cardinality(Upto)
      /\ (Cardinality(Earlier) = Cardinality(Upto) => Earlier = Upto)
  BY <1>1, <1>2, FS_Subset
<1>4. Cardinality(Earlier) \in Nat /\ Cardinality(Upto) \in Nat
  BY <1>1, <1>3, FS_CardinalityType
<1> QED
  BY <1>2, <1>3, <1>4

\* A later time has more earlier times.
LEMMA RankGrows ==
  ASSUME NEW S \in SUBSET Nat, NEW t \in S, NEW v \in S, t < v
  PROVE  Cardinality({u \in S : u < t}) < Cardinality({u \in S : u < v})
<1> DEFINE R == {u \in S : u < v}
<1>0. t \in Nat /\ v \in Nat /\ \A u \in S : u \in Nat
  OBVIOUS
<1>1. R \in SUBSET Nat /\ t \in R /\ v - 1 \in Nat /\ t <= v - 1
  <2>1. R \in SUBSET Nat /\ t \in R
    BY <1>0
  <2>2. v - 1 \in Nat /\ t <= v - 1
    BY <1>0
  <2> QED
    BY <2>1, <2>2
<1>2. {u \in R : u < t} = {u \in S : u < t} /\ {u \in R : u <= v - 1} = R
  <2>1. \A u \in S : (u < t => u < v) /\ (u < v <=> u <= v - 1)
    BY <1>0
  <2> QED
    BY <2>1
<1>3. Cardinality({u \in R : u < t}) < Cardinality({u \in R : u <= v - 1})
  BY <1>1, RankBelow
<1> QED
  BY <1>2, <1>3

-----------------------------------------------------------------------------
(* The inductive invariant *)

\* A program is not ready before its cooldown since any application is over.
NotReadyBefore ==
  \A id \in Ids : \A i \in DOMAIN history[id].applied :
    history[id].applied[i] + ProgramOf(id).counters.cooldown <= states[id].ready_at

\* Time does not run backwards, neither for events nor for the fixed entries, and
\* the numbering of events goes up.
Chronological ==
  /\ FirstSequence <= sequence
  /\ \A e \in events : e.fired <= clock
  /\ \A i \in fixed+1..Len(FixedEntries) : clock <= FixedEntries[i].at

IInv == TypeOK /\ NotReadyBefore /\ CooldownKept /\ Chronological /\ SequencesOrdered

\* The fixed entries, one by one.
LEMMA FixedAre ==
  /\ Len(FixedEntries) = 3
  /\ FixedEntries[1].at = 0 /\ FixedEntries[2].at = 0 /\ FixedEntries[3].at = ActiveTime
  /\ \A i \in 1..3 : FixedEntries[i].triggers \subseteq SupportedTriggers
                     /\ FixedEntries[i].flags \subseteq ContextFlags
BY DEF FixedEntries, SupportedTriggers, ContextFlags

\* The invariant holds before the first trigger.
LEMMA InitEstablishes == Init => IInv
<1> SUFFICES ASSUME Init PROVE IInv
  OBVIOUS
<1>1. TypeOK
  <2>1. states \in [Ids -> EffectState]
    BY NeverAssumption DEF Init, EffectState, NoEffectState
  <2>2. history \in [Ids -> History]
    BY DEF Init, History
  <2>3. blockers \subseteq {"TRIGGER_NOT_CONNECTED", "CONTEXT_UNAVAILABLE",
          "CONTEXT_UNRESOLVED", "CURRENT_STATE_SNAPSHOT"} \X Ids
    BY DEF Init, Ids
  <2>4. next \in 1..Len(Portfolio) + 1
    BY PortfolioAssumption DEF Init
  <2>5. clock \in 0..Duration + ActiveTime /\ actions \in 0..MaxActions
        /\ sequence \in Nat /\ fixed \in 0..Len(FixedEntries)
    BY FixedAre, ScheduleAssumption DEF Init
  <2>6. /\ triggers \subseteq SupportedTriggers /\ flags \subseteq ContextFlags
        /\ opponents_turn \in BOOLEAN /\ first_attack \in BOOLEAN
        /\ spellblade_ready \in BOOLEAN /\ events = {}
    BY DEF Init
  <2> QED
    BY <2>1, <2>2, <2>3, <2>4, <2>5, <2>6 DEF TypeOK
<1>2. NotReadyBefore /\ CooldownKept
  BY DEF Init, NotReadyBefore, CooldownKept
<1>3. Chronological
  BY FixedAre, ScheduleAssumption DEF Init, Chronological
<1>4. SequencesOrdered
  BY DEF Init, SequencesOrdered
<1> QED
  BY <1>1, <1>2, <1>3, <1>4 DEF IInv

\* What a new entry of the schedule begins with.
LEMMA EntryStep ==
  ASSUME IInv, UNCHANGED compiled, next' = 1,
         clock' \in 0..Duration + ActiveTime, clock <= clock',
         fixed' \in 0..3, fixed <= fixed',
         \A i \in fixed'+1..3 : clock' <= FixedEntries[i].at,
         opponents_turn' \in BOOLEAN, first_attack' \in BOOLEAN,
         spellblade_ready' \in BOOLEAN, actions' \in 0..MaxActions,
         triggers' \subseteq SupportedTriggers, flags' \subseteq ContextFlags
  PROVE  IInv'
<1>1. TypeOK'
  <2>1. 1 \in 1..Len(Portfolio) + 1
    BY PortfolioAssumption
  <2> QED
    BY <2>1, FixedAre DEF IInv, TypeOK, compiled
<1>2. NotReadyBefore' /\ CooldownKept' /\ SequencesOrdered'
  BY DEF IInv, NotReadyBefore, CooldownKept, SequencesOrdered, compiled
<1>3. Chronological'
  <2>1. \A e \in events : e.fired \in Nat /\ e.fired <= clock
    BY ScheduleAssumption DEF IInv, TypeOK, Chronological
  <2>2. clock \in Nat /\ clock' \in Nat
    BY ScheduleAssumption DEF IInv, TypeOK
  <2>3. Len(FixedEntries) = 3 /\ Len(FixedEntries') = 3
        /\ \A i \in 1..3 : FixedEntries'[i] = FixedEntries[i]
    BY FixedAre DEF FixedEntries
  <2>4. events' = events
    BY DEF compiled
  <2>5. \A e \in events' : e.fired <= clock'
    BY <2>1, <2>2, <2>4
  <2>6. \A i \in fixed'+1..Len(FixedEntries') : clock' <= FixedEntries'[i].at
    <3>1. \A n \in 0..3 : \A i \in n+1..3 : i \in 1..3
      OBVIOUS
    <3>2. \A i \in fixed'+1..3 : i \in 1..3
      BY <3>1
    <3> QED
      BY <2>3, <3>2
  <2>7. FirstSequence <= sequence'
    BY DEF compiled, IInv, Chronological
  <2> QED
    BY <2>5, <2>6, <2>7 DEF Chronological
<1> QED
  BY <1>1, <1>2, <1>3 DEF IInv

\* The three kinds of entries keep the invariant.
LEMMA FixedEntryStep == IInv /\ FixedEntry => IInv'
<1> SUFFICES ASSUME IInv, FixedEntry PROVE IInv'
  OBVIOUS
<1>1. fixed \in 0..2 /\ fixed' = fixed + 1
  BY FixedAre DEF IInv, TypeOK, FixedEntry
<1>2. clock' = FixedEntries[fixed + 1].at /\ clock <= clock'
  BY <1>1, FixedAre DEF IInv, Chronological, FixedEntry, Begin
<1>3. clock' \in 0..Duration + ActiveTime
      /\ \A i \in fixed'+1..3 : clock' <= FixedEntries[i].at
  BY <1>1, <1>2, FixedAre, ScheduleAssumption
<1>4. triggers' \subseteq SupportedTriggers /\ flags' \subseteq ContextFlags
  BY <1>1, FixedAre DEF FixedEntry, Begin
<1>5. /\ opponents_turn' \in BOOLEAN /\ first_attack' \in BOOLEAN
      /\ spellblade_ready' \in BOOLEAN /\ actions' \in 0..MaxActions
      /\ next' = 1 /\ UNCHANGED compiled
  BY DEF IInv, TypeOK, FixedEntry, Begin
<1>6. fixed' \in 0..3 /\ fixed <= fixed' /\ clock <= clock'
  BY <1>1, <1>2
<1> QED
  BY <1>3, <1>4, <1>5, <1>6, EntryStep

\* An own action schedules its triggers without running back in time.
LEMMA OwnActionStep ==
  ASSUME IInv, NEW a \in OwnActions, NEW at \in 0..Duration, OwnAction(a, at)
  PROVE  IInv'
<1>1. triggers' \subseteq SupportedTriggers /\ flags' \subseteq ContextFlags
  BY DEF OwnAction, Begin, Triggers, SupportedTriggers, ContextFlags
<1>2. clock' = at /\ clock <= at /\ fixed' = fixed /\ fixed \in 0..3
  BY FixedAre DEF OwnAction, Begin, IInv, TypeOK
<1>3. \A i \in fixed'+1..3 : clock' <= FixedEntries[i].at
  BY <1>2, FixedAre, ScheduleAssumption DEF OwnAction, FixedDone
<1>4. actions' \in 0..MaxActions /\ clock' \in 0..Duration + ActiveTime
  BY <1>2, ScheduleAssumption DEF OwnAction, IInv, TypeOK
<1>5. first_attack' \in BOOLEAN /\ spellblade_ready' \in BOOLEAN
      /\ opponents_turn' \in BOOLEAN /\ next' = 1 /\ UNCHANGED compiled
  BY DEF OwnAction, Begin
<1> QED
  BY <1>1, <1>2, <1>3, <1>4, <1>5, EntryStep

\* An action of the opponent's schedules the triggers of its owner.
LEMMA OpponentActionStep ==
  ASSUME IInv, NEW a \in OpponentActions, NEW at \in 0..Duration, OpponentAction(a, at)
  PROVE  IInv'
<1>1. triggers' \subseteq SupportedTriggers /\ flags' \subseteq ContextFlags
  BY DEF OpponentAction, Received, SupportedTriggers, ContextFlags
<1>2. clock' = at /\ clock <= at /\ fixed' = fixed /\ fixed \in 0..3
  BY FixedAre, ScheduleAssumption DEF OpponentAction, IInv, TypeOK
<1>3. \A i \in fixed'+1..3 : clock' <= FixedEntries[i].at
  BY <1>2, FixedAre, ScheduleAssumption DEF OpponentAction, FixedDone
<1>4. actions' \in 0..MaxActions /\ clock' \in 0..Duration + ActiveTime
  BY <1>2, ScheduleAssumption DEF OpponentAction, IInv, TypeOK
<1>5. first_attack' \in BOOLEAN /\ spellblade_ready' \in BOOLEAN
      /\ opponents_turn' \in BOOLEAN /\ next' = 1 /\ UNCHANGED compiled
  BY DEF OpponentAction, IInv, TypeOK
<1> QED
  BY <1>1, <1>2, <1>3, <1>4, <1>5, EntryStep

-----------------------------------------------------------------------------
(* The programs an entry reaches *)

\* The program being visited, and what visiting it leaves alone.
LEMMA Visited ==
  ASSUME IInv, NextProgram
  PROVE  /\ next \in Indices /\ next' \in 1..Len(Portfolio) + 1
         /\ Program \in Programs /\ Program.id \in Ids
         /\ ProgramOf(Program.id) = Program
         /\ clock \in Nat /\ states[Program.id] \in EffectState
         /\ history[Program.id] \in History
<1>1. Len(Portfolio) \in Nat
  BY PortfolioAssumption
<1>2. next \in Indices /\ next' \in 1..Len(Portfolio) + 1
  BY <1>1 DEF IInv, TypeOK, NextProgram, BetweenEntries, Indices
<1>3. Program \in Programs
  BY <1>2, PortfolioAssumption DEF Program, Indices
<1>4. Program.id \in Ids /\ ProgramOf(Program.id) = Program
  BY <1>2, ProgramUnique DEF Program
<1>5. clock \in Nat
  BY ScheduleAssumption DEF IInv, TypeOK
<1> QED
  BY <1>2, <1>3, <1>4, <1>5 DEF IInv, TypeOK

\* The schedule's share of the invariant does not depend on the programs.
LEMMA ScheduleKept ==
  ASSUME IInv, NextProgram
  PROVE  /\ clock' \in 0..Duration + ActiveTime /\ fixed' \in 0..Len(FixedEntries)
         /\ opponents_turn' \in BOOLEAN /\ first_attack' \in BOOLEAN
         /\ spellblade_ready' \in BOOLEAN
         /\ triggers' \subseteq SupportedTriggers /\ flags' \subseteq ContextFlags
         /\ actions' \in 0..MaxActions
         /\ next' \in 1..Len(Portfolio) + 1
         /\ clock' = clock /\ fixed' = fixed
BY Visited DEF IInv, TypeOK, NextProgram, schedule

\* A program that does not act keeps the invariant.
LEMMA BlockedStep ==
  ASSUME IInv, NextProgram, UNCHANGED <<states, events, sequence, history>>,
         NEW reason \in {"TRIGGER_NOT_CONNECTED", "CONTEXT_UNAVAILABLE",
                         "CONTEXT_UNRESOLVED", "CURRENT_STATE_SNAPSHOT"},
         blockers' \in {blockers, blockers \cup {<<reason, Program.id>>}}
  PROVE  IInv'
<1>1. blockers' \subseteq {"TRIGGER_NOT_CONNECTED", "CONTEXT_UNAVAILABLE",
        "CONTEXT_UNRESOLVED", "CURRENT_STATE_SNAPSHOT"} \X Ids
  BY Visited DEF IInv, TypeOK
<1>2. TypeOK'
  BY <1>1, ScheduleKept DEF IInv, TypeOK
<1>3. NotReadyBefore' /\ CooldownKept' /\ SequencesOrdered'
  BY DEF IInv, NotReadyBefore, CooldownKept, SequencesOrdered
<1>4. Chronological'
  BY ScheduleKept DEF IInv, Chronological
<1> QED
  BY <1>2, <1>3, <1>4 DEF IInv

\* Counting a trigger changes neither cooldowns nor applications.
LEMMA AccumulateStep == IInv /\ Accumulate => IInv'
<1> SUFFICES ASSUME IInv, Accumulate PROVE IInv'
  OBVIOUS
<1> USE Visited, ScheduleKept DEF Accumulate, Resolving
<1> DEFINE after == AfterAccumulating(Program.counters, states[Program.id], clock)
<1>1. Program.counters \in Counters
  BY DEF Programs
<1>2. after \in EffectState /\ after.ready_at = states[Program.id].ready_at
  BY <1>1, EffectStates
<1>3. states' = [states EXCEPT ![Program.id] = after]
      /\ states' \in [Ids -> EffectState]
  BY <1>2 DEF IInv, TypeOK
<1>4. history' \in [Ids -> History]
      /\ \A id \in Ids : history'[id].applied = history[id].applied
  <2>1. Append(history[Program.id].counted, clock) \in Seq(Nat)
    BY DEF History
  <2>2. [history[Program.id] EXCEPT !.counted = Append(history[Program.id].counted, clock)]
          \in History
    BY <2>1 DEF History
  <2> QED
    BY <2>2 DEF IInv, TypeOK, History
<1>5. \A id \in Ids : states'[id].ready_at = states[id].ready_at
  BY <1>2, <1>3 DEF IInv, TypeOK
<1>6. TypeOK'
  BY <1>3, <1>4 DEF IInv, TypeOK
<1>7. NotReadyBefore' /\ CooldownKept'
  BY <1>4, <1>5 DEF IInv, NotReadyBefore, CooldownKept
<1>8. Chronological' /\ SequencesOrdered'
  BY DEF IInv, Chronological, SequencesOrdered
<1> QED
  BY <1>6, <1>7, <1>8 DEF IInv

\* An application begins the program's cooldown, which was over.
LEMMA AppliedStep ==
  ASSUME IInv, Applying, history' = AppliedHistory,
         states' = [states EXCEPT ![Program.id] =
                      AfterApplying(Program.counters, @, clock)]
  PROVE  /\ states' \in [Ids -> EffectState] /\ history' \in [Ids -> History]
         /\ NotReadyBefore' /\ CooldownKept'
<1> USE Visited DEF Applying, Resolving
<1> DEFINE me == Program.id
           after == AfterApplying(Program.counters, states[me], clock)
<1>1. Program.counters \in Counters
  BY DEF Programs
<1>2. after \in EffectState /\ after.ready_at = clock + Program.counters.cooldown
  BY <1>1, EffectStates
<1>3. /\ states' \in [Ids -> EffectState] /\ states'[me] = after
      /\ \A id \in Ids \ {me} : states'[id] = states[id]
  BY <1>2 DEF IInv, TypeOK
<1>4. /\ history' \in [Ids -> History]
      /\ history'[me].applied = Append(history[me].applied, clock)
      /\ \A id \in Ids \ {me} : history'[id] = history[id]
  BY DEF IInv, TypeOK, History, AppliedHistory
<1>5. clock >= states[me].ready_at /\ states[me].ready_at \in Nat
  <2>1. states[me].ready_at \in Nat
    BY DEF EffectState
  <2>2. ~(clock < states[me].ready_at)
    BY DEF OnCooldown, State
  <2> QED
    BY <2>1, <2>2
<1>6. /\ Program.counters.cooldown \in Nat
      /\ history[me].applied \in Seq(Nat)
  BY <1>1 DEF Counters, History
<1>7. \A i \in DOMAIN history[me].applied :
        history[me].applied[i] + Program.counters.cooldown <= states[me].ready_at
  BY DEF IInv, NotReadyBefore
<1>8. \A i \in DOMAIN history'[me].applied :
        \/ i \in DOMAIN history[me].applied
              /\ history'[me].applied[i] = history[me].applied[i]
        \/ i = Len(history[me].applied) + 1 /\ history'[me].applied[i] = clock
  BY <1>4, <1>6
<1>9. \A i \in DOMAIN history[me].applied : history[me].applied[i] \in Nat
  BY <1>6
<1>10. NotReadyBefore'
  <2> SUFFICES ASSUME NEW id \in Ids, NEW i \in DOMAIN history'[id].applied
               PROVE  history'[id].applied[i] + ProgramOf(id).counters.cooldown
                        <= states'[id].ready_at
    BY DEF NotReadyBefore, ProgramOf, Ids
  <2>1. CASE id # me
    BY <2>1, <1>3, <1>4 DEF IInv, NotReadyBefore
  <2>2. CASE id = me /\ i \in DOMAIN history[me].applied
                     /\ history'[me].applied[i] = history[me].applied[i]
    <3>1. history[me].applied[i] + Program.counters.cooldown <= states[me].ready_at
      BY <2>2, <1>7
    <3>2. states'[me].ready_at = clock + Program.counters.cooldown
      BY <1>2, <1>3
    <3>3. ProgramOf(id).counters.cooldown = Program.counters.cooldown
      BY <2>2
    <3>4. history[me].applied[i] \in Nat
      BY <2>2, <1>9
    <3> HIDE DEF me
    <3> QED
      BY <2>2, <3>1, <3>2, <3>3, <3>4, <1>5, <1>6
  <2>3. CASE id = me /\ history'[me].applied[i] = clock
    BY <2>3, <1>2, <1>3, <1>6
  <2> QED
    BY <2>1, <2>2, <2>3, <1>8
<1>11. CooldownKept'
  <2> SUFFICES ASSUME NEW id \in Ids,
                      NEW i \in DOMAIN history'[id].applied,
                      NEW j \in DOMAIN history'[id].applied, i < j
               PROVE  history'[id].applied[j] >=
                        history'[id].applied[i] + ProgramOf(id).counters.cooldown
    BY DEF CooldownKept, ProgramOf, Ids
  <2>1. CASE id # me
    BY <2>1, <1>4 DEF IInv, CooldownKept
  <2>2. CASE id = me
    <3>1. i \in DOMAIN history[me].applied
          /\ history'[me].applied[i] = history[me].applied[i]
      BY <2>2, <1>4, <1>6
    <3>2. CASE j \in DOMAIN history[me].applied
               /\ history'[me].applied[j] = history[me].applied[j]
      BY <2>2, <3>1, <3>2 DEF IInv, CooldownKept
    <3>3. CASE history'[me].applied[j] = clock
      BY <2>2, <3>1, <3>3, <1>5, <1>6, <1>7, <1>9
    <3> QED
      BY <2>2, <3>2, <3>3, <1>8
  <2> QED
    BY <2>1, <2>2
<1> QED
  BY <1>3, <1>4, <1>10, <1>11

\* A resolution that cannot be compiled still keeps its state.
LEMMA ApplyIncompleteStep == IInv /\ ApplyIncomplete => IInv'
<1> SUFFICES ASSUME IInv, ApplyIncomplete PROVE IInv'
  OBVIOUS
<1> USE Visited, ScheduleKept DEF ApplyIncomplete, Applying, Resolving
<1>1. /\ states' \in [Ids -> EffectState] /\ history' \in [Ids -> History]
      /\ NotReadyBefore' /\ CooldownKept'
  BY AppliedStep
<1>2. TypeOK'
  BY <1>1 DEF IInv, TypeOK
<1>3. Chronological' /\ SequencesOrdered'
  BY DEF IInv, Chronological, SequencesOrdered
<1> QED
  BY <1>1, <1>2, <1>3 DEF IInv

\* The events of one resolution are numbered from the next free number on.
LEMMA NewEvents ==
  ASSUME IInv, Apply
  PROVE  /\ Bounded \subseteq 0..Duration
         /\ Cardinality(Bounded) \in Nat
         /\ \A t \in Bounded : sequence <= EventAt(t).sequence
                               /\ EventAt(t).sequence < sequence + Cardinality(Bounded)
                               /\ EventAt(t).sequence \in Nat
         /\ \A t, v \in Bounded : EventAt(t).sequence = EventAt(v).sequence => t = v
<1> USE Visited DEF Apply, Applying, Resolving
<1>1. EventTimes \in SUBSET Nat
  <2> SUFFICES ASSUME NEW i \in Emitting, NEW t \in Times(Program.operations[i])
               PROVE  t \in Nat
    BY DEF EventTimes
  <2>1. Program.operations[i] \in Operations
    BY DEF Emitting, Programs
  <2>2. Program.operations[i].delay \in Nat /\ Program.operations[i].duration \in Nat
    BY <2>1 DEF Operations
  <2> QED
    BY <2>2 DEF Times
<1>2. Bounded = {u \in EventTimes : u <= Duration} /\ Duration \in Nat
  BY ScheduleAssumption DEF Bounded
<1>3. sequence \in Nat
  BY DEF IInv, TypeOK
<1>4. Bounded \subseteq 0..Duration
  <2>1. \A u \in EventTimes : u \in Nat
    BY <1>1
  <2> QED
    BY <1>2, <2>1
<1>5. IsFiniteSet(Bounded) /\ Cardinality(Bounded) \in Nat
  <2>1. IsFiniteSet(0..Duration)
    BY <1>2, FS_Interval
  <2>2. IsFiniteSet(Bounded)
    BY <1>4, <2>1, FS_Subset
  <2> QED
    BY <2>2, FS_CardinalityType
<1>6. ASSUME NEW t \in Bounded
      PROVE  /\ Cardinality({u \in EventTimes : u < t}) \in Nat
             /\ Cardinality({u \in EventTimes : u < t}) < Cardinality(Bounded)
  BY <1>1, <1>2, RankBelow
<1>7. \A t : EventAt(t).sequence = sequence + Cardinality({u \in EventTimes : u < t})
  BY DEF EventAt
<1>8. \A t \in Bounded : sequence <= EventAt(t).sequence
                         /\ EventAt(t).sequence < sequence + Cardinality(Bounded)
                         /\ EventAt(t).sequence \in Nat
  <2> SUFFICES ASSUME NEW t \in Bounded
               PROVE  /\ sequence <= EventAt(t).sequence
                      /\ EventAt(t).sequence < sequence + Cardinality(Bounded)
                      /\ EventAt(t).sequence \in Nat
    OBVIOUS
  <2> DEFINE rank == Cardinality({u \in EventTimes : u < t})
  <2>1. rank \in Nat /\ rank < Cardinality(Bounded)
    BY <1>6
  <2>2. EventAt(t).sequence = sequence + rank
    BY <1>7
  <2> HIDE DEF rank
  <2> QED
    BY <1>3, <1>5, <2>1, <2>2
<1>9. ASSUME NEW t \in Bounded, NEW v \in Bounded,
             EventAt(t).sequence = EventAt(v).sequence
      PROVE  t = v
  <2>1. t \in EventTimes /\ v \in EventTimes /\ t \in Nat /\ v \in Nat
    BY <1>2, <1>4
  <2> DEFINE rank(w) == Cardinality({u \in EventTimes : u < w})
  <2>2. rank(t) \in Nat /\ rank(v) \in Nat
    BY <1>6
  <2>3. sequence + rank(t) = sequence + rank(v)
    BY <1>7, <1>9
  <2>4. t < v => rank(t) < rank(v)
    BY <1>1, <2>1, RankGrows
  <2>5. v < t => rank(v) < rank(t)
    BY <1>1, <2>1, RankGrows
  <2> HIDE DEF rank
  <2> QED
    BY <1>3, <2>1, <2>2, <2>3, <2>4, <2>5
<1> QED
  BY <1>4, <1>5, <1>8, <1>9

\* An application numbers its events after all the others.
LEMMA ApplyStep == IInv /\ Apply => IInv'
<1> SUFFICES ASSUME IInv, Apply PROVE IInv'
  OBVIOUS
<1> USE Visited, ScheduleKept DEF Apply, Applying, Resolving
<1>1. /\ states' \in [Ids -> EffectState] /\ history' \in [Ids -> History]
      /\ NotReadyBefore' /\ CooldownKept'
  BY AppliedStep
<1>2. /\ events' = events \cup {EventAt(t) : t \in Bounded}
      /\ sequence' = sequence + Cardinality(Bounded)
      /\ sequence \in Nat /\ sequence' \in Nat /\ sequence <= sequence'
  <2>1. sequence \in Nat /\ Cardinality(Bounded) \in Nat
    BY NewEvents DEF IInv, TypeOK
  <2>2. sequence' = sequence + Cardinality(Bounded)
    BY DEF Numbered
  <2>3. events' = events \cup {EventAt(t) : t \in Bounded}
    OBVIOUS
  <2> QED
    BY <2>1, <2>2, <2>3
<1>3. \A t \in Bounded :
        /\ EventAt(t).fired = clock /\ EventAt(t).id = Program.id
        /\ sequence <= EventAt(t).sequence /\ EventAt(t).sequence < sequence'
        /\ EventAt(t).sequence \in Nat
  BY <1>2, NewEvents DEF EventAt
<1>4. \A e \in events :
        /\ e.sequence \in Nat /\ e.fired \in Nat /\ e.fired <= clock
        /\ FirstSequence <= e.sequence /\ e.sequence < sequence
  BY ScheduleAssumption DEF IInv, TypeOK, Chronological, SequencesOrdered
<1>5. TypeOK'
  <2>1. ASSUME NEW t \in Bounded
        PROVE  EventAt(t) \in
                 [ id : Ids, at : 0..Duration, fired : 0..Duration + ActiveTime,
                   sequence : Nat, stacks : Nat, operations : SUBSET Nat,
                   requires_living_opponent : BOOLEAN, requires_source_alive : BOOLEAN ]
    <3>1. t \in 0..Duration /\ clock \in 0..Duration + ActiveTime
      BY NewEvents DEF IInv, TypeOK
    <3>2. Acting(t) \in SUBSET Nat
      BY DEF Acting, Emitting, Programs
    <3>3. Program.counters \in Counters
      BY DEF Programs
    <3>4. StacksAfter(Program.counters, State, clock) \in Nat
      <4>1. AfterApplying(Program.counters, State, clock) \in EffectState
        BY <3>3, EffectStates DEF State
      <4> QED
        BY <4>1 DEF AfterApplying, EffectState
    <3>5. EventAt(t).sequence \in Nat
      BY <1>3
    <3> QED
      BY <3>1, <3>2, <3>4, <3>5 DEF EventAt
  <2>2. blockers' \subseteq {"TRIGGER_NOT_CONNECTED", "CONTEXT_UNAVAILABLE",
          "CONTEXT_UNRESOLVED", "CURRENT_STATE_SNAPSHOT"} \X Ids
    BY DEF IInv, TypeOK
  <2> QED
    BY <1>1, <1>2, <2>1, <2>2 DEF IInv, TypeOK
<1>6. Chronological'
  BY <1>2, <1>3, <1>4, ScheduleAssumption DEF IInv, Chronological
<1>7. SequencesOrdered'
  <2>1. FirstSequence \in Nat /\ FirstSequence <= sequence
    BY ScheduleAssumption DEF IInv, Chronological
  <2>2. \A e \in events' : FirstSequence <= e.sequence /\ e.sequence < sequence'
    BY <1>2, <1>3, <1>4, <2>1
  <2>3. ASSUME NEW e \in events', NEW f \in events'
        PROVE  (e.sequence = f.sequence => e = f)
               /\ (e.fired < f.fired => e.sequence < f.sequence)
    <3>1. CASE e \in events /\ f \in events
      BY <3>1 DEF IInv, SequencesOrdered
    <3>2. CASE e \in events /\ f \notin events
      BY <3>2, <1>2, <1>3, <1>4
    <3>3. CASE e \notin events /\ f \in events
      BY <3>3, <1>2, <1>3, <1>4
    <3>4. CASE e \notin events /\ f \notin events
      BY <3>4, <1>2, <1>3, NewEvents
    <3> QED
      BY <3>1, <3>2, <3>3, <3>4
  <2> QED
    BY <2>2, <2>3 DEF SequencesOrdered
<1> QED
  BY <1>1, <1>5, <1>6, <1>7 DEF IInv

-----------------------------------------------------------------------------
(* The theorems *)

\* Every step keeps the invariant.
LEMMA NextPreserves == IInv /\ [Next]_vars => IInv'
<1> SUFFICES ASSUME IInv, [Next]_vars PROVE IInv'
  OBVIOUS
<1>1. CASE FixedEntry
  BY <1>1, FixedEntryStep
<1>2. ASSUME NEW at \in 0..Duration, NEW a \in OwnActions, OwnAction(a, at)
      PROVE  IInv'
  BY <1>2, OwnActionStep
<1>3. ASSUME NEW at \in 0..Duration, NEW a \in OpponentActions, OpponentAction(a, at)
      PROVE  IInv'
  BY <1>3, OpponentActionStep
<1>4. CASE NotTriggered
  BY <1>4, BlockedStep DEF NotTriggered, compiled
<1>5. CASE ContextUnavailable
  BY <1>5, BlockedStep DEF ContextUnavailable
<1>6. CASE Cooling
  BY <1>6, BlockedStep DEF Cooling, Resolving, compiled
<1>7. CASE Accumulate
  BY <1>7, AccumulateStep
<1>8. CASE Unevaluable
  BY <1>8, BlockedStep DEF Unevaluable, Applying, Resolving
<1>9. CASE ApplyIncomplete
  BY <1>9, ApplyIncompleteStep
<1>10. CASE Apply
  BY <1>10, ApplyStep
<1>11. CASE UNCHANGED vars
  BY <1>11 DEF vars, schedule, compiled, IInv, TypeOK, NotReadyBefore, CooldownKept,
               Chronological, SequencesOrdered
<1> QED
  BY <1>1, <1>2, <1>3, <1>4, <1>5, <1>6, <1>7, <1>8, <1>9, <1>10, <1>11
     DEF Next, Returned

\* The invariant holds throughout every compilation.
THEOREM Invariant == Spec => []IInv
<1>1. Init => IInv
  BY InitEstablishes
<1>2. IInv /\ [Next]_vars => IInv'
  BY NextPreserves
<1> QED
  BY <1>1, <1>2, PTL DEF Spec

\* The variables of compile_item_combat_events keep their types.
THEOREM TypeCorrect == Spec => []TypeOK
<1>1. IInv => TypeOK
  BY DEF IInv
<1> QED
  BY <1>1, Invariant, PTL

\* No item program acts again before the cooldown of any of its applications is
\* over, in every portfolio and encounter.
THEOREM CooldownIsKept == Spec => []CooldownKept
<1>1. IInv => CooldownKept
  BY DEF IInv
<1> QED
  BY <1>1, Invariant, PTL

\* Item events have distinct sequences, given in the order in which their triggers
\* fired, in every portfolio and encounter.
THEOREM SequencesAreOrdered == Spec => []SequencesOrdered
<1>1. IInv => SequencesOrdered
  BY DEF IInv
<1> QED
  BY <1>1, Invariant, PTL

-----------------------------------------------------------------------------
(* Runs of triggers and of applications *)

\* The last n times are linked: neighbours, and the last one and now, are less than
\* gap apart.
Linked(times, gap, now, n) ==
  \A i \in (Len(times) - n + 1)..Len(times) :
    (IF i = Len(times) THEN now ELSE times[i + 1]) - times[i] < gap

IsChain(times, gap, now, n) ==
  /\ n \in 0..Len(times) /\ Linked(times, gap, now, n)
  /\ \A m \in 0..Len(times) : Linked(times, gap, now, m) => m <= n

\* There is one such number at most, and Chain is it.
LEMMA ChainIs ==
  ASSUME NEW times \in Seq(Nat), NEW gap, NEW now, NEW n, IsChain(times, gap, now, n)
  PROVE  Chain(times, gap, now) = n
<1>1. \A m : IsChain(times, gap, now, m) => m = n
  <2> SUFFICES ASSUME NEW m, IsChain(times, gap, now, m) PROVE m = n
    OBVIOUS
  <2>1. m <= n /\ n <= m
    BY Zenon DEF IsChain
  <2>2. Len(times) \in Nat
    OBVIOUS
  <2>3. m \in 0..Len(times) /\ n \in 0..Len(times)
    BY Zenon DEF IsChain
  <2> QED
    BY <2>1, <2>2, <2>3
<1>2. Chain(times, gap, now) = CHOOSE m : IsChain(times, gap, now, m)
  BY DEF Chain, IsChain, Linked
<1> QED
  BY <1>1, <1>2

\* Before the first time there is no run.
LEMMA EmptyChain == ASSUME NEW gap, NEW now PROVE IsChain(<<>>, gap, now, 0)
BY DEF IsChain, Linked

\* One more time lengthens the run it continues, unless it is itself too far back.
LEMMA LongerChain ==
  ASSUME NEW times \in Seq(Nat), NEW gap \in Nat, NEW now \in Nat, NEW later \in Nat,
         NEW n \in Nat, IsChain(times, gap, now, n)
  PROVE  IsChain(Append(times, now), gap, later, IF later - now < gap THEN n + 1 ELSE 0)
<1> DEFINE more == Append(times, now)
           len == Len(times)
<1>1. /\ len \in Nat /\ Len(more) = len + 1 /\ more[len + 1] = now
      /\ \A i \in 1..len : more[i] = times[i]
  OBVIOUS
<1>2. \A m \in 0..len :
        Linked(more, gap, later, m + 1) <=> later - now < gap /\ Linked(times, gap, now, m)
  <2> SUFFICES ASSUME NEW m \in 0..len
               PROVE  Linked(more, gap, later, m + 1)
                        <=> later - now < gap /\ Linked(times, gap, now, m)
    OBVIOUS
  <2>1. (Len(more) - (m + 1) + 1)..Len(more) = (len - m + 1)..len \cup {len + 1}
    BY <1>1
  <2>2. \A i \in (len - m + 1)..len :
          (IF i = Len(more) THEN later ELSE more[i + 1]) - more[i]
            = (IF i = len THEN now ELSE times[i + 1]) - times[i]
    <3> SUFFICES ASSUME NEW i \in (len - m + 1)..len
                 PROVE  (IF i = Len(more) THEN later ELSE more[i + 1]) - more[i]
                          = (IF i = len THEN now ELSE times[i + 1]) - times[i]
      OBVIOUS
    <3>1. i \in 1..len /\ i # Len(more) /\ (i # len => i + 1 \in 1..len)
      BY <1>1
    <3>2. more[i] = times[i] /\ (i # len => more[i + 1] = times[i + 1])
          /\ (i = len => more[i + 1] = now)
      BY <1>1, <3>1
    <3> HIDE DEF more, len
    <3> QED
      BY <3>1, <3>2
  <2>3. (IF len + 1 = Len(more) THEN later ELSE more[len + 2]) - more[len + 1] = later - now
    BY <1>1
  <2> HIDE DEF more, len
  <2> DEFINE After(i) == IF i = Len(more) THEN later ELSE more[i + 1]
  <2>4. Linked(more, gap, later, m + 1) <=>
          /\ \A i \in (len - m + 1)..len : After(i) - more[i] < gap
          /\ After(len + 1) - more[len + 1] < gap
    <3>1. Linked(more, gap, later, m + 1) <=>
            \A i \in (len - m + 1)..len \cup {len + 1} : After(i) - more[i] < gap
      BY Zenon, <2>1 DEF Linked
    <3> HIDE DEF After
    <3> QED
      BY Zenon, <3>1
  <2>5. Linked(times, gap, now, m) <=>
          \A i \in (len - m + 1)..len :
            (IF i = len THEN now ELSE times[i + 1]) - times[i] < gap
    BY DEF Linked, len
  <2>6. After(len + 1) - more[len + 1] = later - now
    <3>1. len + 1 + 1 = len + 2
      BY <1>1
    <3> QED
      BY <2>3, <3>1
  <2> QED
    BY <2>2, <2>4, <2>5, <2>6
<1> HIDE DEF more, len
<1>3. Linked(more, gap, later, 0)
  BY <1>1 DEF Linked
<1>4. n \in 0..len /\ Linked(times, gap, now, n)
      /\ \A m \in 0..len : Linked(times, gap, now, m) => m <= n
  BY DEF IsChain, len
<1>5. \A k \in 0..len + 1 : k # 0 => k - 1 \in 0..len /\ k = (k - 1) + 1
  BY <1>1
<1>6. CASE later - now < gap
  <2>1. n + 1 \in 0..len + 1 /\ Linked(more, gap, later, n + 1)
    BY <1>1, <1>2, <1>4, <1>6
  <2>2. ASSUME NEW k \in 0..len + 1, Linked(more, gap, later, k) PROVE k <= n + 1
    <3>1. CASE k = 0
      BY <3>1
    <3>2. CASE k # 0
      <4>1. k - 1 \in 0..len /\ Linked(more, gap, later, (k - 1) + 1)
        BY <1>5, <2>2, <3>2
      <4>2. k - 1 <= n
        BY <4>1, <1>2, <1>4
      <4> QED
        BY <4>2, <1>1
    <3> QED
      BY <3>1, <3>2
  <2>3. IsChain(more, gap, later, n + 1)
    BY <1>1, <2>1, <2>2 DEF IsChain
  <2> QED
    BY <1>6, <2>3 DEF more
<1>7. CASE ~(later - now < gap)
  <2>1. ASSUME NEW k \in 0..len + 1, Linked(more, gap, later, k) PROVE k <= 0
    <3>1. CASE k = 0
      BY <3>1
    <3>2. CASE k # 0
      BY <1>2, <1>5, <1>7, <2>1, <3>2
    <3> QED
      BY <3>1, <3>2
  <2>2. IsChain(more, gap, later, 0)
    BY <1>1, <1>3, <2>1 DEF IsChain
  <2> QED
    BY <1>7, <2>2 DEF more
<1> QED
  BY <1>6, <1>7
-----------------------------------------------------------------------------
(* What counts, stacks and events have been earned by *)

\* The stacks that n applications in a row earn.
Capped(c, n) ==
  IF c.stacks_per_trigger * n <= c.max_stacks THEN c.stacks_per_trigger * n
  ELSE c.max_stacks

Remaining == clock..Duration + ActiveTime

\* What a program has counted are the triggers of a run that is not broken off.
CountsRuns ==
  \A id \in Ids :
    LET c == ProgramOf(id).counters
        s == states[id]
    IN  /\ s.count < c.proc_every
        /\ c.counting_window = Never => s.count_end = Never
        /\ \A now \in Remaining :
             IsChain(history[id].counted, c.counting_window, now,
                     IF now >= s.count_end THEN 0 ELSE s.count)

\* Its live stacks are those that its last applications have earned.
StacksRuns ==
  \A id \in Ids :
    LET c == ProgramOf(id).counters
    IN  c.max_stacks > 0 =>
          \A now \in Remaining :
            \E n \in Nat : /\ IsChain(history[id].applied, c.stack_duration, now, n)
                           /\ LiveStacks(states[id], now) = Capped(c, n)

\* One application more earns its stacks, up to the maximum.
LEMMA CappedNext ==
  ASSUME NEW c \in Counters, NEW n \in Nat, c.max_stacks > 0
  PROVE  /\ Capped(c, n) \in Nat /\ Capped(c, 0) = 0
         /\ Capped(c, n + 1) =
              (IF Capped(c, n) + c.stacks_per_trigger <= c.max_stacks
                 THEN Capped(c, n) + c.stacks_per_trigger ELSE c.max_stacks)
<1> DEFINE per == c.stacks_per_trigger
           top == c.max_stacks
<1>1. per \in Nat \ {0} /\ top \in Nat \ {0}
  BY DEF Counters
<1>2. per * n \in Nat /\ per * (n + 1) = per * n + per /\ per * 0 = 0
  BY <1>1
<1> QED
  BY <1>1, <1>2 DEF Capped

\* The programs, their states and their histories, by id.
LEMMA ById ==
  ASSUME TypeOK, NEW id \in Ids
  PROVE  /\ ProgramOf(id) \in Programs /\ ProgramOf(id).id = id
         /\ ProgramOf(id).counters \in Counters
         /\ states[id] \in EffectState /\ history[id] \in History
<1>1. PICK i \in Indices : id = Portfolio[i].id
  BY DEF Ids
<1>2. ProgramOf(id) = Portfolio[i]
  BY <1>1, ProgramUnique
<1>3. Portfolio[i] \in Programs
  BY PortfolioAssumption DEF Indices
<1>4. ProgramOf(id).counters \in Counters
  BY <1>2, <1>3 DEF Programs
<1> QED
  BY <1>1, <1>2, <1>3, <1>4 DEF TypeOK

\* Before the first trigger nothing is counted, stacked or compiled.
LEMMA RunsInit == Init => CountsRuns /\ StacksRuns /\ StacksEarned
<1> SUFFICES ASSUME Init PROVE CountsRuns /\ StacksRuns /\ StacksEarned
  OBVIOUS
<1>1. TypeOK
  BY InitEstablishes DEF IInv
<1>2. \A id \in Ids : states[id] = NoEffectState
        /\ history[id].counted = <<>> /\ history[id].applied = <<>>
  BY DEF Init
<1>3. CountsRuns
  <2> SUFFICES ASSUME NEW id \in Ids
               PROVE  LET c == ProgramOf(id).counters
                          s == states[id]
                      IN  /\ s.count < c.proc_every
                          /\ c.counting_window = Never => s.count_end = Never
                          /\ \A now \in Remaining :
                               IsChain(history[id].counted, c.counting_window, now,
                                       IF now >= s.count_end THEN 0 ELSE s.count)
    BY Zenon DEF CountsRuns
  <2>1. states[id].count = 0 /\ states[id].count_end = Never
        /\ history[id].counted = <<>>
    BY <1>2 DEF NoEffectState
  <2>2. ProgramOf(id).counters.proc_every \in Nat \ {0}
    BY <1>1, ById DEF Counters
  <2>3. \A now : (IF now >= Never THEN 0 ELSE 0) = 0
    OBVIOUS
  <2> QED
    BY <2>1, <2>2, <2>3, EmptyChain
<1>4. StacksRuns
  <2> SUFFICES ASSUME NEW id \in Ids, ProgramOf(id).counters.max_stacks > 0,
                      NEW now \in Remaining
               PROVE  /\ IsChain(history[id].applied,
                                 ProgramOf(id).counters.stack_duration, now, 0)
                      /\ LiveStacks(states[id], now) = Capped(ProgramOf(id).counters, 0)
    BY DEF StacksRuns
  <2>1. LiveStacks(states[id], now) = 0 /\ history[id].applied = <<>>
    BY <1>2 DEF NoEffectState, LiveStacks
  <2>2. Capped(ProgramOf(id).counters, 0) = 0
    BY <1>1, ById, CappedNext
  <2> QED
    BY <2>1, <2>2, EmptyChain
<1>5. StacksEarned
  BY DEF Init, StacksEarned
<1> QED
  BY <1>3, <1>4, <1>5

\* A step compiles nothing, counts a trigger or applies a program; time goes on.
LEMMA StepKinds ==
  ASSUME IInv, [Next]_vars
  PROVE  /\ clock \in Nat /\ clock' \in Nat /\ clock <= clock'
         /\ \/ UNCHANGED <<states, history, events>>
            \/ Accumulate /\ clock' = clock
            \/ ApplyIncomplete /\ clock' = clock
            \/ Apply /\ clock' = clock
<1>1. clock \in Nat /\ clock' \in Nat
  BY NextPreserves, ScheduleAssumption DEF IInv, TypeOK
<1>2. CASE FixedEntry
  <2>1. fixed \in 0..2
    BY <1>2, FixedAre DEF IInv, TypeOK, FixedEntry
  <2>2. clock' = FixedEntries[fixed + 1].at /\ clock <= clock'
    BY <1>2, <2>1, FixedAre DEF IInv, Chronological, FixedEntry, Begin
  <2> QED
    BY <1>1, <1>2, <2>2 DEF FixedEntry, Begin, compiled
<1>3. ASSUME NEW at \in 0..Duration, NEW a \in OwnActions, OwnAction(a, at)
      PROVE  clock <= clock' /\ UNCHANGED <<states, history, events>>
  BY <1>1, <1>3 DEF OwnAction, Begin, compiled
<1>4. ASSUME NEW at \in 0..Duration, NEW a \in OpponentActions, OpponentAction(a, at)
      PROVE  clock <= clock' /\ UNCHANGED <<states, history, events>>
  BY <1>1, <1>4 DEF OpponentAction, compiled
<1>5. CASE NotTriggered \/ ContextUnavailable \/ Cooling \/ Unevaluable
  BY <1>1, <1>5 DEF NotTriggered, ContextUnavailable, Cooling, Unevaluable, Resolving,
                    Applying, NextProgram, schedule, compiled
<1>6. CASE Accumulate \/ ApplyIncomplete \/ Apply
  <2>1. clock' = clock
    BY <1>6 DEF Accumulate, ApplyIncomplete, Apply, Applying, Resolving, NextProgram,
                schedule
  <2> QED
    BY <1>1, <1>6, <2>1
<1>7. CASE UNCHANGED vars
  BY <1>1, <1>7 DEF vars, schedule, compiled
<1> QED
  BY <1>1, <1>2, <1>3, <1>4, <1>5, <1>6, <1>7 DEF Next, Returned

\* Time alone breaks runs off where it ends counts and stacks.
LEMMA UntouchedRuns ==
  ASSUME TypeOK, clock \in Nat, clock' \in Nat, clock <= clock',
         UNCHANGED <<states, history>>
  PROVE  (CountsRuns => CountsRuns') /\ (StacksRuns => StacksRuns')
<1>1. Remaining' \subseteq Remaining
  BY ScheduleAssumption DEF Remaining
<1>2. CountsRuns => CountsRuns'
  BY <1>1 DEF CountsRuns, ProgramOf, Ids
<1>3. StacksRuns => StacksRuns'
  BY <1>1 DEF StacksRuns, ProgramOf, Ids, LiveStacks, Capped
<1> QED
  BY <1>2, <1>3

\* Counting a trigger lengthens its program's run by one, and drops only stacks that
\* have ended.
LEMMA AccumulateRuns ==
  ASSUME IInv, CountsRuns, StacksRuns, Accumulate, clock' = clock
  PROVE  CountsRuns' /\ StacksRuns'
<1> USE Visited DEF Accumulate, Resolving
<1> DEFINE me == Program.id
           c == Program.counters
           s == states[me]
           after == AfterAccumulating(c, s, clock)
<1>1. TypeOK /\ c \in Counters /\ s \in EffectState /\ clock \in Nat
      /\ me \in Ids /\ ProgramOf(me).counters = c
  BY ById DEF IInv
<1>2. /\ states'[me] = after /\ \A id \in Ids \ {me} : states'[id] = states[id]
      /\ history'[me].counted = Append(history[me].counted, clock)
      /\ history'[me].applied = history[me].applied
      /\ \A id \in Ids \ {me} : history'[id] = history[id]
  BY <1>1 DEF IInv, TypeOK, History
<1>3. clock \in Remaining /\ Remaining' = Remaining
      /\ \A now \in Remaining : now \in Nat /\ now >= clock /\ now < Never
                                /\ now - clock < Never
  <2>1. clock \in 0..Duration + ActiveTime
    BY DEF IInv, TypeOK
  <2>2. Duration + ActiveTime \in Nat /\ Never \in Nat /\ Duration + ActiveTime < Never
    BY ScheduleAssumption, EncounterAssumption, NeverAssumption
  <2> QED
    BY <2>1, <2>2 DEF Remaining
<1>4. /\ s.count \in Nat /\ s.count_end \in Nat /\ s.stacks \in Nat
      /\ s.stacks_end \in Nat
      /\ c.counting_window \in Nat \ {0} /\ c.proc_every \in Nat
  BY <1>1 DEF EffectState, Counters
<1>5. /\ after.count = Counted(s, clock) /\ after.count_end = CountEnd(c, s, clock)
      /\ after.stacks = LiveStacks(s, clock) /\ after.stacks_end = StacksEnd(s, clock)
  BY <1>1 DEF AfterAccumulating, EffectState
<1>6. Counted(s, clock) < c.proc_every
  BY DEF Accumulates, State
<1>7. /\ c.counting_window = Never => s.count_end = Never
      /\ IsChain(history[me].counted, c.counting_window, clock,
                 IF clock >= s.count_end THEN 0 ELSE s.count)
  BY <1>1, <1>3 DEF CountsRuns
<1>8. history[me].counted \in Seq(Nat)
  BY DEF History
<1> HIDE DEF after, c, s, me
<1>9. c.counting_window = Never => after.count_end = Never
  BY <1>4, <1>5, <1>7 DEF CountEnd
<1>10. ASSUME NEW now \in Remaining
       PROVE  IsChain(Append(history[me].counted, clock), c.counting_window, now,
                      IF now >= after.count_end THEN 0 ELSE after.count)
  <2> DEFINE live == IF clock >= s.count_end THEN 0 ELSE s.count
  <2>1. live \in Nat /\ after.count = live + 1
    BY <1>4, <1>5 DEF Counted
  <2>2. IsChain(history[me].counted, c.counting_window, clock, live)
    BY <1>7
  <2> HIDE DEF live
  <2>3. IsChain(Append(history[me].counted, clock), c.counting_window, now,
                IF now - clock < c.counting_window THEN live + 1 ELSE 0)
    <3>1. now \in Nat /\ c.counting_window \in Nat
      BY <1>3, <1>4
    <3> QED
      BY <1>1, <1>8, <2>1, <2>2, <3>1, LongerChain
  <2>4. now >= after.count_end <=> ~(now - clock < c.counting_window)
    <3>1. now \in Nat /\ now >= clock /\ now < Never
          /\ now - clock < Never
      BY <1>3
    <3>2. CASE c.counting_window = Never
      BY <1>9, <3>1, <3>2, NeverAssumption
    <3>3. CASE c.counting_window # Never
      <4>1. after.count_end = clock + c.counting_window
        BY <1>5, <3>3 DEF CountEnd
      <4> QED
        BY <1>1, <1>4, <3>1, <4>1
    <3> QED
      BY <3>2, <3>3
  <2>5. (IF now >= after.count_end THEN 0 ELSE after.count)
          = (IF now - clock < c.counting_window THEN live + 1 ELSE 0)
    BY <2>1, <2>4
  <2> QED
    BY <2>3, <2>5
<1>11. \A now \in Remaining : LiveStacks(after, now) = LiveStacks(s, now)
  <2> SUFFICES ASSUME NEW now \in Remaining
               PROVE  LiveStacks(after, now) = LiveStacks(s, now)
    OBVIOUS
  <2>1. now \in Nat /\ now >= clock /\ now < Never
    BY <1>3
  <2> QED
    BY <1>1, <1>4, <1>5, <2>1, NeverAssumption DEF LiveStacks, StacksEnd
<1>12. CountsRuns'
  <2>1. ASSUME NEW id \in Ids
        PROVE  LET p == ProgramOf(id).counters
                   r == states'[id]
               IN  /\ r.count < p.proc_every
                   /\ p.counting_window = Never => r.count_end = Never
                   /\ \A now \in Remaining :
                        IsChain(history'[id].counted, p.counting_window, now,
                                IF now >= r.count_end THEN 0 ELSE r.count)
    <3>1. CASE id = me
      BY <1>1, <1>2, <1>5, <1>6, <1>9, <1>10, <3>1
    <3>2. CASE id # me
      BY <1>2, <3>2 DEF CountsRuns
    <3> QED
      BY <3>1, <3>2
  <2> QED
    BY <1>3, <2>1 DEF CountsRuns, ProgramOf, Ids
<1>13. StacksRuns'
  <2>1. ASSUME NEW id \in Ids, ProgramOf(id).counters.max_stacks > 0, NEW now \in Remaining
        PROVE  \E n \in Nat :
                 /\ IsChain(history'[id].applied, ProgramOf(id).counters.stack_duration,
                            now, n)
                 /\ LiveStacks(states'[id], now) = Capped(ProgramOf(id).counters, n)
    <3>1. history'[id].applied = history[id].applied
      BY <1>2
    <3>2. LiveStacks(states'[id], now) = LiveStacks(states[id], now)
      BY <1>2, <1>11 DEF s
    <3> QED
      BY <2>1, <3>1, <3>2 DEF StacksRuns
  <2> QED
    BY <1>3, <2>1 DEF StacksRuns, ProgramOf, Ids, LiveStacks, Capped
<1> QED
  BY <1>12, <1>13

\* What an application does to the history and the state of its program.
LEMMA Applied ==
  ASSUME IInv, Applying, history' = AppliedHistory, clock' = clock,
         states' = [states EXCEPT ![Program.id] =
                      AfterApplying(Program.counters, @, clock)]
  PROVE  LET me == Program.id
         IN  /\ me \in Ids /\ ProgramOf(me) = Program /\ clock \in Remaining
             /\ Remaining' = Remaining
             /\ states'[me] = AfterApplying(Program.counters, states[me], clock)
             /\ history'[me].counted = <<>>
             /\ history'[me].applied = Append(history[me].applied, clock)
             /\ history[me].applied \in Seq(Nat)
             /\ \A id \in Ids \ {me} :
                  states'[id] = states[id] /\ history'[id] = history[id]
<1> USE Visited DEF Applying, Resolving
<1>1. clock \in Remaining /\ Remaining' = Remaining
  <2>1. clock \in 0..Duration + ActiveTime
    BY DEF IInv, TypeOK
  <2>2. Duration + ActiveTime \in Nat
    BY ScheduleAssumption
  <2> QED
    BY <2>1, <2>2 DEF Remaining
<1>2. states \in [Ids -> EffectState] /\ history \in [Ids -> History]
  BY DEF IInv, TypeOK
<1> QED
  BY <1>1, <1>2 DEF AppliedHistory, History

\* An application ends the run of counted triggers and joins the run of applications.
LEMMA AppliedRuns ==
  ASSUME IInv, CountsRuns, StacksRuns, Applying, history' = AppliedHistory,
         clock' = clock,
         states' = [states EXCEPT ![Program.id] =
                      AfterApplying(Program.counters, @, clock)]
  PROVE  CountsRuns' /\ StacksRuns'
<1> DEFINE me == Program.id
           c == ProgramOf(me).counters
           s == states[me]
           after == AfterApplying(c, s, clock)
<1>1. /\ me \in Ids /\ clock \in Remaining /\ Remaining' = Remaining
      /\ states'[me] = after
      /\ history'[me].counted = <<>>
      /\ history'[me].applied = Append(history[me].applied, clock)
      /\ history[me].applied \in Seq(Nat)
      /\ \A id \in Ids \ {me} : states'[id] = states[id] /\ history'[id] = history[id]
  BY Applied
<1>2. c \in Counters /\ s \in EffectState /\ clock \in Nat
  BY <1>1, ById, ScheduleAssumption DEF IInv, TypeOK
<1>3. /\ c.proc_every \in Nat \ {0} /\ c.stack_duration \in Nat
      /\ c.stacks_per_trigger \in Nat /\ c.max_stacks \in Nat
  BY <1>2 DEF Counters
<1>4. \A now \in Remaining : now \in Nat /\ now >= clock
  BY <1>2, ScheduleAssumption DEF Remaining
<1>5. /\ after.count = 0 /\ after.count_end = Never
      /\ after.stacks = StacksAfter(c, s, clock)
      /\ (c.max_stacks > 0 => after.stacks_end = clock + c.stack_duration)
  BY <1>3 DEF AfterApplying
<1> HIDE DEF me, c, s, after
<1>6. CountsRuns'
  <2>1. ASSUME NEW id \in Ids
        PROVE  LET p == ProgramOf(id).counters
                   r == states'[id]
               IN  /\ r.count < p.proc_every
                   /\ p.counting_window = Never => r.count_end = Never
                   /\ \A now \in Remaining :
                        IsChain(history'[id].counted, p.counting_window, now,
                                IF now >= r.count_end THEN 0 ELSE r.count)
    <3>1. CASE id = me
      <4>1. \A now : (IF now >= states'[id].count_end THEN 0 ELSE states'[id].count) = 0
        BY <1>1, <1>5, <3>1
      <4> QED
        BY <1>1, <1>3, <1>5, <3>1, <4>1, EmptyChain DEF c
    <3>2. CASE id # me
      BY <1>1, <3>2 DEF CountsRuns
    <3> QED
      BY <3>1, <3>2
  <2> QED
    BY <1>1, <2>1 DEF CountsRuns, ProgramOf, Ids
<1>7. ASSUME c.max_stacks > 0, NEW now \in Remaining
      PROVE  \E n \in Nat : /\ IsChain(history'[me].applied, c.stack_duration, now, n)
                            /\ LiveStacks(after, now) = Capped(c, n)
  <2>1. PICK n \in Nat : /\ IsChain(history[me].applied, c.stack_duration, clock, n)
                         /\ LiveStacks(s, clock) = Capped(c, n)
    BY <1>1, <1>7 DEF StacksRuns, c, s
  <2>2. IsChain(history'[me].applied, c.stack_duration, now,
                IF now - clock < c.stack_duration THEN n + 1 ELSE 0)
    BY <1>1, <1>2, <1>3, <1>4, <2>1, LongerChain
  <2>3. StacksAfter(c, s, clock) = Capped(c, n + 1)
    BY <1>2, <1>3, <1>7, <2>1, CappedNext DEF StacksAfter
  <2>4. LiveStacks(after, now)
          = Capped(c, IF now - clock < c.stack_duration THEN n + 1 ELSE 0)
    <3>1. now >= clock + c.stack_duration <=> ~(now - clock < c.stack_duration)
      BY <1>2, <1>3, <1>4
    <3>2. Capped(c, 0) = 0
      BY <1>2, <1>7, CappedNext
    <3>3. LiveStacks(after, now)
            = IF now >= clock + c.stack_duration THEN 0 ELSE Capped(c, n + 1)
      BY <1>5, <1>7, <2>3 DEF LiveStacks
    <3> QED
      BY <3>1, <3>2, <3>3
  <2>5. (IF now - clock < c.stack_duration THEN n + 1 ELSE 0) \in Nat
    OBVIOUS
  <2> QED
    BY <2>2, <2>4, <2>5
<1>8. StacksRuns'
  <2>1. ASSUME NEW id \in Ids, ProgramOf(id).counters.max_stacks > 0, NEW now \in Remaining
        PROVE  \E n \in Nat :
                 /\ IsChain(history'[id].applied, ProgramOf(id).counters.stack_duration,
                            now, n)
                 /\ LiveStacks(states'[id], now) = Capped(ProgramOf(id).counters, n)
    <3>1. CASE id = me
      BY <1>1, <1>7, <2>1, <3>1 DEF c
    <3>2. CASE id # me
      BY <1>1, <2>1, <3>2 DEF StacksRuns
    <3> QED
      BY <3>1, <3>2
  <2> QED
    BY <1>1, <2>1 DEF StacksRuns, ProgramOf, Ids, LiveStacks, Capped
<1> QED
  BY <1>6, <1>8

\* The applications an event was fired by are not moved by later ones.
LEMMA EarlierRuns ==
  ASSUME NEW times \in Seq(Nat), NEW now \in Nat, NEW m \in 0..Len(times)
  PROVE  SubSeq(Append(times, now), 1, m) = SubSeq(times, 1, m)
OBVIOUS

\* Nor is the one that the latest application ends.
LEMMA WholeRun ==
  ASSUME NEW times \in Seq(Nat), NEW now \in Nat
  PROVE  SubSeq(Append(times, now), 1, Len(times)) = times
OBVIOUS

\* The stacks of event e were earned by the applications up to one of times.
EarnedBy(e, times) ==
  LET c == ProgramOf(e.id).counters
      Upto(m) == SubSeq(times, 1, m)
  IN  c.max_stacks > 0 =>
        \E m \in DOMAIN times :
          /\ times[m] = e.fired
          /\ LET earned == c.stacks_per_trigger *
                             (Chain(Upto(m - 1), c.stack_duration, e.fired) + 1)
             IN  e.stacks = IF earned <= c.max_stacks THEN earned ELSE c.max_stacks

\* A later application leaves an event's stacks earned.
LEMMA EarnedLonger ==
  ASSUME NEW times \in Seq(Nat), NEW now \in Nat, NEW e, EarnedBy(e, times)
  PROVE  EarnedBy(e, Append(times, now))
<1> DEFINE c == ProgramOf(e.id).counters
           Earned(ts, m) ==
             /\ ts[m] = e.fired
             /\ LET earned == c.stacks_per_trigger *
                                (Chain(SubSeq(ts, 1, m - 1), c.stack_duration, e.fired) + 1)
                IN  e.stacks = IF earned <= c.max_stacks THEN earned ELSE c.max_stacks
<1> SUFFICES ASSUME c.max_stacks > 0
             PROVE  \E m \in DOMAIN Append(times, now) : Earned(Append(times, now), m)
  BY Zenon DEF EarnedBy
<1>1. PICK m \in DOMAIN times : Earned(times, m)
  BY Zenon DEF EarnedBy
<1>2. m \in DOMAIN Append(times, now) /\ Append(times, now)[m] = times[m]
      /\ m - 1 \in 0..Len(times)
  OBVIOUS
<1>3. SubSeq(Append(times, now), 1, m - 1) = SubSeq(times, 1, m - 1)
  BY <1>2, EarlierRuns
<1> QED
  BY Zenon, <1>1, <1>2, <1>3

\* An event is compiled with the stacks that its own application completes.
LEMMA NewlyEarned ==
  ASSUME IInv, StacksRuns, Apply, clock' = clock, NEW t \in Bounded
  PROVE  EarnedBy(EventAt(t), Append(history[Program.id].applied, clock))
<1> USE Visited DEF Apply, Applying, Resolving
<1> DEFINE me == Program.id
           c == ProgramOf(me).counters
           s == states[me]
           applied == history[me].applied
           e == EventAt(t)
           more == Append(applied, clock)
<1>1. /\ me \in Ids /\ clock \in Remaining /\ applied \in Seq(Nat)
      /\ ProgramOf(me) = Program
  BY Applied
<1>2. c \in Counters /\ s \in EffectState /\ clock \in Nat
  BY <1>1, ById, ScheduleAssumption DEF IInv, TypeOK
<1>3. e.id = me /\ e.fired = clock /\ e.stacks = StacksAfter(c, s, clock)
  BY <1>1 DEF EventAt, State
<1> SUFFICES ASSUME c.max_stacks > 0
             PROVE  \E m \in DOMAIN more :
                      /\ more[m] = clock
                      /\ LET earned == c.stacks_per_trigger *
                               (Chain(SubSeq(more, 1, m - 1), c.stack_duration, clock) + 1)
                         IN  e.stacks = IF earned <= c.max_stacks THEN earned
                                        ELSE c.max_stacks
  <2> HIDE DEF c, e, me, more
  <2> QED
    BY <1>3 DEF EarnedBy, c, more, me, applied, e
<1> HIDE DEF me, c, s, applied, e
<1>4. PICK n \in Nat : /\ IsChain(applied, c.stack_duration, clock, n)
                       /\ LiveStacks(s, clock) = Capped(c, n)
  BY <1>1 DEF StacksRuns, c, s, applied
<1>5. Chain(applied, c.stack_duration, clock) = n
  BY <1>1, <1>4, ChainIs
<1> DEFINE m == Len(applied) + 1
<1>6. m \in DOMAIN more /\ more[m] = clock /\ m - 1 = Len(applied)
  BY <1>1
<1>7. SubSeq(more, 1, m - 1) = applied
  BY <1>1, <1>2, <1>6, WholeRun
<1>8. e.stacks = Capped(c, n + 1)
  <2>1. c.max_stacks \in Nat /\ c.stacks_per_trigger \in Nat
    BY <1>2 DEF Counters
  <2> QED
    BY <1>2, <1>3, <1>4, <2>1, CappedNext DEF StacksAfter
<1> HIDE DEF m, more
<1> QED
  BY <1>5, <1>6, <1>7, <1>8 DEF Capped

\* Every event's stacks stay earned, and those of new events are.
LEMMA EarnedStep ==
  ASSUME IInv, StacksRuns, StacksEarned, [Next]_vars
  PROVE  StacksEarned'
<1>1. StacksEarned <=> \A e \in events : EarnedBy(e, history[e.id].applied)
  BY Zenon DEF StacksEarned, EarnedBy
<1>2. (\A e \in events' : EarnedBy(e, history'[e.id].applied)) => StacksEarned'
  BY DEF StacksEarned, EarnedBy, ProgramOf, Chain
<1> SUFFICES ASSUME NEW e \in events' PROVE EarnedBy(e, history'[e.id].applied)
  BY <1>2
<1> HIDE DEF EarnedBy
<1>3. \A f \in events : f.id \in Ids /\ history[f.id].applied \in Seq(Nat)
                        /\ EarnedBy(f, history[f.id].applied)
  BY <1>1 DEF IInv, TypeOK, History
<1>4. CASE UNCHANGED <<states, history, events>>
  BY <1>3, <1>4
<1>5. CASE Accumulate /\ clock' = clock
  <2>1. events' = events /\ \A id \in Ids : history'[id].applied = history[id].applied
    BY <1>5, Visited DEF Accumulate, Resolving, IInv, TypeOK, History
  <2> QED
    BY <1>3, <2>1
<1>6. ASSUME Applying, history' = AppliedHistory, clock' = clock,
             states' = [states EXCEPT ![Program.id] =
                          AfterApplying(Program.counters, @, clock)],
             e \in events
      PROVE  EarnedBy(e, history'[e.id].applied)
  <2>1. /\ history'[Program.id].applied = Append(history[Program.id].applied, clock)
        /\ \A id \in Ids \ {Program.id} : history'[id] = history[id]
    BY <1>6, Applied
  <2>2. clock \in Nat
    BY ScheduleAssumption DEF IInv, TypeOK
  <2>3. CASE e.id = Program.id
    BY <1>3, <1>6, <2>1, <2>2, <2>3, EarnedLonger
  <2>4. CASE e.id # Program.id
    BY <1>3, <1>6, <2>1, <2>4
  <2> QED
    BY <2>3, <2>4
<1>7. CASE ApplyIncomplete /\ clock' = clock
  BY <1>6, <1>7 DEF ApplyIncomplete
<1>8. CASE Apply /\ clock' = clock
  <2>1. CASE e \in events
    BY <1>6, <1>8, <2>1 DEF Apply
  <2>2. CASE e \notin events
    <3>1. PICK t \in Bounded : e = EventAt(t)
      BY <1>8, <2>2 DEF Apply
    <3>2. e.id = Program.id
      BY <3>1 DEF EventAt
    <3>3. history'[Program.id].applied = Append(history[Program.id].applied, clock)
      BY <1>8, Applied DEF Apply
    <3>4. EarnedBy(EventAt(t), Append(history[Program.id].applied, clock))
      BY <1>8, NewlyEarned
    <3> QED
      BY <3>1, <3>2, <3>3, <3>4
  <2> QED
    BY <2>1, <2>2
<1> QED
  BY <1>4, <1>5, <1>7, <1>8, StepKinds

\* Counts, stacks and events are what runs earned.
Runs == CountsRuns /\ StacksRuns /\ StacksEarned

\* Every step keeps runs, counts and stacks together.
LEMMA RunsStep == IInv /\ Runs /\ [Next]_vars => Runs'
<1> SUFFICES ASSUME IInv, Runs, [Next]_vars PROVE Runs'
  OBVIOUS
<1>1. StacksEarned'
  BY EarnedStep DEF Runs
<1>2. CountsRuns' /\ StacksRuns'
  <2>0. CountsRuns /\ StacksRuns
    BY DEF Runs
  <2>1. CASE UNCHANGED <<states, history, events>>
    BY <2>0, <2>1, StepKinds, UntouchedRuns DEF IInv
  <2>2. CASE Accumulate /\ clock' = clock
    BY <2>0, <2>2, AccumulateRuns
  <2>3. CASE ApplyIncomplete /\ clock' = clock
    BY <2>0, <2>3, AppliedRuns DEF ApplyIncomplete
  <2>4. CASE Apply /\ clock' = clock
    BY <2>0, <2>4, AppliedRuns DEF Apply
  <2> QED
    BY <2>1, <2>2, <2>3, <2>4, StepKinds
<1> QED
  BY <1>1, <1>2 DEF Runs

\* In every portfolio, encounter and schedule, counts, stacks and events are what
\* runs of triggers and applications earned.
LEMMA RunsInvariant == Spec => []Runs
<1>1. Init => Runs
  BY RunsInit DEF Runs
<1> QED
  BY <1>1, RunsStep, Invariant, PTL DEF Spec

\* The stacks that multiply an event were earned by applications that follow one
\* another within the stacks' duration, its own included.
THEOREM StacksAreEarned == Spec => []StacksEarned
<1>1. Runs => StacksEarned
  BY DEF Runs
<1> QED
  BY <1>1, RunsInvariant, PTL

\* A program that acts on every n-th trigger acts on the n-th of an unbroken run.
THEOREM NthTriggerActs == Spec => ActsOnTheNth
<1>1. ASSUME IInv, Runs, [Next]_vars, NEW id \in Ids,
             history'[id].applied # history[id].applied
      PROVE  Chain(history[id].counted, ProgramOf(id).counters.counting_window, clock) + 1
               = ProgramOf(id).counters.proc_every
  <2> DEFINE c == ProgramOf(id).counters
             s == states[id]
             live == IF clock >= s.count_end THEN 0 ELSE s.count
  <2>1. ~(UNCHANGED <<states, history, events>>)
    BY <1>1
  <2>2. ~(Accumulate /\ clock' = clock)
    <3>1. history \in [Ids -> History]
      BY <1>1 DEF IInv, TypeOK
    <3>2. Accumulate => history'[id].applied = history[id].applied
      BY <1>1, <3>1 DEF Accumulate, History
    <3> QED
      BY <1>1, <3>2
  <2>3. Applying /\ history' = AppliedHistory
    BY <1>1, <2>1, <2>2, StepKinds DEF ApplyIncomplete, Apply
  <2>4. id = Program.id /\ Program \in Programs /\ ProgramOf(id) = Program
    BY <1>1, <2>3, Visited DEF Applying, Resolving, AppliedHistory, IInv, TypeOK
  <2>5. ~(Counted(s, clock) < c.proc_every)
    BY <2>3, <2>4 DEF Applying, Accumulates, State
  <2>6. /\ c \in Counters /\ s \in EffectState /\ history[id].counted \in Seq(Nat)
        /\ clock \in Remaining
    <3>1. clock \in 0..Duration + ActiveTime /\ Duration + ActiveTime \in Nat
      BY <1>1, ScheduleAssumption DEF IInv, TypeOK
    <3>2. clock \in Remaining
      BY <3>1 DEF Remaining
    <3> QED
      BY <1>1, <3>2, ById DEF IInv, History
  <2>7. s.count < c.proc_every /\ IsChain(history[id].counted, c.counting_window, clock, live)
    BY <1>1, <2>6 DEF Runs, CountsRuns
  <2>8. c.proc_every \in Nat \ {0} /\ s.count \in Nat
    BY <2>6 DEF Counters, EffectState
  <2>9. live + 1 = c.proc_every
    BY <2>5, <2>7, <2>8 DEF Counted
  <2>10. Chain(history[id].counted, c.counting_window, clock) = live
    BY <2>6, <2>7, ChainIs
  <2> QED
    BY <2>9, <2>10
<1>2. IInv /\ Runs /\ [Next]_vars =>
        [\A id \in Ids :
           LET c == ProgramOf(id).counters
           IN  history'[id].applied # history[id].applied =>
                 Chain(history[id].counted, c.counting_window, clock) + 1 = c.proc_every
        ]_vars
  BY <1>1
<1> QED
  BY <1>2, Invariant, RunsInvariant, PTL DEF Spec, ActsOnTheNth

-----------------------------------------------------------------------------
(* Repetitions *)

\* What is a multiple of repeat, and which one.
LEMMA Multiples ==
  ASSUME NEW r \in Nat \ {0}, NEW x \in Nat
  PROVE  /\ x \div r \in Nat
         /\ \A k \in Nat : k * r \in Nat /\ (k * r) % r = 0
         /\ \A k \in Nat : k * r <= x <=> k <= x \div r
         /\ x % r = 0 => x = (x \div r) * r
<1>1. /\ x \div r \in Int /\ x % r \in 0..(r - 1)
      /\ x = (x \div r) * r + (x % r)
  OBVIOUS
<1> QED
  BY <1>1

\* The times at which an operation repeats that starts at start and lasts lasts.
RoundTimes(start, lasts, r, limit) ==
  {u \in start..(start + lasts) : u > start /\ (u - start) % r = 0 /\ u <= limit}

\* How many full intervals there are until then, or until limit.
Rounds(start, lasts, r, limit) ==
  LET left == limit - start
      upto == IF left <= lasts THEN left ELSE lasts
  IN  IF upto < 0 THEN 0 ELSE upto \div r

\* It repeats at the end of each.
LEMMA RoundsCount ==
  ASSUME NEW start \in Nat, NEW lasts \in Nat, NEW limit \in Nat, NEW r \in Nat \ {0}
  PROVE  /\ IsFiniteSet(RoundTimes(start, lasts, r, limit))
         /\ Cardinality(RoundTimes(start, lasts, r, limit)) = Rounds(start, lasts, r, limit)
<1> DEFINE S == {u \in start..(start + lasts) :
                   u > start /\ (u - start) % r = 0 /\ u <= limit}
           upto == IF limit - start <= lasts THEN limit - start ELSE lasts
<1>0. upto \in Int /\ S = RoundTimes(start, lasts, r, limit)
      /\ Rounds(start, lasts, r, limit) = IF upto < 0 THEN 0 ELSE upto \div r
  BY DEF RoundTimes, Rounds
<1>1. CASE upto < 0
  <2>1. S = {}
    BY <1>1
  <2> QED
    BY <1>0, <1>1, <2>1, FS_EmptySet
<1>2. CASE upto >= 0
  <2> DEFINE N == upto \div r
             f == [k \in 1..N |-> start + k * r]
  <2>1. upto \in Nat /\ N \in Nat /\ \A k \in 1..N : k \in Nat
    BY <1>2, Multiples
  <2>2. ASSUME NEW k \in 1..N PROVE start + k * r \in S
    <3>1. /\ k * r \in Nat /\ (k * r) % r = 0 /\ k * r <= upto
      BY <2>1, <1>2, Multiples
    <3>2. k * r > 0
      BY <2>1
    <3>3. (start + k * r) - start = k * r
      BY <3>1
    <3> DEFINE d == k * r
    <3> HIDE DEF d
    <3>4. d \in Nat /\ d <= upto /\ d > 0
      BY <3>1, <3>2 DEF d
    <3>5. start + d \in start..(start + lasts) /\ start + d > start /\ start + d <= limit
      BY <3>4
    <3> QED
      BY <3>1, <3>3, <3>5 DEF d
  <2>3. ASSUME NEW u \in S PROVE \E k \in 1..N : u = start + k * r
    <3>1. u - start \in Nat /\ u - start <= upto /\ u - start > 0
          /\ (u - start) % r = 0 /\ u \in Nat
      OBVIOUS
    <3> DEFINE d == u - start
    <3>2. d \in Nat /\ d <= upto /\ d > 0 /\ d % r = 0 /\ u = start + d
      BY <3>1
    <3> HIDE DEF d, N
    <3>3. d \div r \in Nat /\ d = (d \div r) * r
      BY <3>2, Multiples
    <3>4. d \div r <= N
      BY <2>1, <3>2, <3>3, Multiples DEF N
    <3>5. d \div r # 0
      BY <3>2, <3>3
    <3>6. d \div r \in 1..N
      BY <2>1, <3>3, <3>4, <3>5
    <3> QED
      BY <3>2, <3>3, <3>6
  <2>4. \A j, k \in 1..N : start + j * r = start + k * r => j = k
    <3> SUFFICES ASSUME NEW j \in 1..N, NEW k \in 1..N, start + j * r = start + k * r
                 PROVE  j = k
      OBVIOUS
    <3>1. j \in Nat /\ k \in Nat /\ j * r \in Nat /\ k * r \in Nat
      BY <2>1, Multiples
    <3>2. j * r = k * r
      BY <3>1
    <3> QED
      BY <3>1, <3>2
  <2> HIDE DEF S, N
  <2>5. f \in Bijection(1..N, S)
    <3>1. f \in [1..N -> S] /\ \A k \in 1..N : f[k] = start + k * r
      BY <2>2
    <3> HIDE DEF f
    <3>2. \A j, k \in 1..N : f[j] = f[k] => j = k
      BY <2>4, <3>1
    <3>3. \A u \in S : \E k \in 1..N : f[k] = u
      BY <2>3, <3>1
    <3>4. f \in Injection(1..N, S)
      BY Zenon, <3>1, <3>2 DEF Injection, IsInjective
    <3>5. f \in Surjection(1..N, S)
      BY Zenon, <3>1, <3>3 DEF Surjection
    <3> QED
      BY Zenon, <3>4, <3>5 DEF Bijection
  <2>6. IsFiniteSet(1..N) /\ Cardinality(1..N) = N
    BY <2>1, FS_Interval
  <2>7. IsFiniteSet(S) /\ Cardinality(S) = N
    BY <2>5, <2>6, FS_Bijection DEF ExistsBijection
  <2> QED
    BY <1>0, <1>2, <2>7 DEF N
<1> QED
  BY <1>1, <1>2

Firings(times, t) == Cardinality({i \in DOMAIN times : times[i] = t})

RoundsFrom(op, t) == Rounds(t + op.delay, op.duration, op.repeat, Duration)

\* The events in S of operation o of program id that were fired at t.
ActsOf(S, id, t, o) == {e \in S : e.id = id /\ e.fired = t /\ o \in e.operations}

\* An operation that repeats, of a program all of whose operations can be compiled.
Repeating(p, o) ==
  /\ p.operations[o].repeat > 0 /\ p.operations[o].emits
  /\ \A i \in DOMAIN p.operations : p.operations[i].emits => ~p.operations[i].incomplete

\* EveryRepetition in the terms of the lemmas.
LEMMA RepetitionIs ==
  EveryRepetition <=>
    \A id \in Ids : \A o \in DOMAIN ProgramOf(id).operations :
      Repeating(ProgramOf(id), o) =>
        \A t \in 0..Duration :
          Cardinality(ActsOf(events, id, t, o))
            = Firings(history[id].applied, t) * RoundsFrom(ProgramOf(id).operations[o], t)
BY DEF EveryRepetition, Repeating, ActsOf, Firings, RoundsFrom, Rounds

\* One application more is one firing more at its time.
LEMMA FiredAgain ==
  ASSUME NEW times \in Seq(Nat), NEW now \in Nat, NEW t
  PROVE  /\ Firings(times, t) \in Nat
         /\ Firings(Append(times, now), t) = Firings(times, t) + (IF t = now THEN 1 ELSE 0)
<1> DEFINE F == {i \in DOMAIN times : times[i] = t}
           more == Append(times, now)
           G == {i \in DOMAIN more : more[i] = t}
           last == Len(times) + 1
<1>1. /\ DOMAIN times = 1..Len(times) /\ Len(times) \in Nat
      /\ DOMAIN more = 1..last /\ more[last] = now
      /\ \A i \in 1..Len(times) : more[i] = times[i]
  OBVIOUS
<1>2. 1..last = 1..Len(times) \cup {last} /\ last \notin 1..Len(times)
  BY <1>1
<1>3. IsFiniteSet(F) /\ Cardinality(F) \in Nat
  <2>1. IsFiniteSet(1..Len(times)) /\ F \subseteq 1..Len(times)
    BY <1>1, FS_Interval
  <2> QED
    BY <2>1, FS_Subset, FS_CardinalityType
<1> HIDE DEF more, last
<1>4. G = IF t = now THEN F \cup {last} ELSE F
  BY <1>1, <1>2
<1>5. last \notin F
  BY <1>1, <1>2
<1>6. Cardinality(F \cup {last}) = Cardinality(F) + 1
  BY <1>3, <1>5, FS_AddElement
<1>7. Cardinality(G) = Cardinality(F) + (IF t = now THEN 1 ELSE 0)
  <2> HIDE DEF F, G
  <2>1. CASE t = now
    BY <1>4, <1>6, <2>1
  <2>2. CASE t # now
    BY <1>3, <1>4, <2>2
  <2> QED
    BY <2>1, <2>2
<1> QED
  BY <1>3, <1>7 DEF Firings, more

\* There are as many rounds as times at which the operation acts in the encounter.
LEMMA RoundsAre ==
  ASSUME NEW op \in Operations, op.repeat > 0, NEW t \in Nat
  PROVE  LET S == RoundTimes(t + op.delay, op.duration, op.repeat, Duration)
         IN  IsFiniteSet(S) /\ Cardinality(S) = RoundsFrom(op, t) /\ RoundsFrom(op, t) \in Nat
<1>1. t + op.delay \in Nat /\ op.duration \in Nat /\ Duration \in Nat
      /\ op.repeat \in Nat \ {0}
  BY ScheduleAssumption DEF Operations
<1> QED
  <2> DEFINE S == RoundTimes(t + op.delay, op.duration, op.repeat, Duration)
  <2>1. IsFiniteSet(S) /\ Cardinality(S) = RoundsFrom(op, t)
    BY ONLY <1>1, RoundsCount, Zenon DEF RoundsFrom
  <2>2. Cardinality(S) \in Nat
    BY <2>1, FS_CardinalityType
  <2> QED
    BY <2>1, <2>2

\* An application compiles one event for every round of an operation.
LEMMA NewRounds ==
  ASSUME IInv, Apply, NEW o \in DOMAIN Program.operations,
         Program.operations[o].repeat > 0, Program.operations[o].emits
  PROVE  LET New == {EventAt(t) : t \in Bounded}
         IN  /\ IsFiniteSet({e \in New : o \in e.operations})
             /\ Cardinality({e \in New : o \in e.operations})
                  = RoundsFrom(Program.operations[o], clock)
<1> USE Visited DEF Apply, Applying, Resolving
<1> DEFINE op == Program.operations[o]
           S == RoundTimes(clock + op.delay, op.duration, op.repeat, Duration)
           New == {EventAt(t) : t \in Bounded}
           T == {e \in New : o \in e.operations}
           f == [u \in S |-> EventAt(u)]
<1>1. op \in Operations /\ op.repeat # 0 /\ o \in Emitting /\ clock \in Nat
  <2>1. Program.operations \in Seq(Operations)
    BY DEF Programs
  <2>2. op \in Operations
    BY <2>1
  <2>3. op.repeat # 0
    <3>1. op.repeat \in Nat
      BY <2>2 DEF Operations
    <3> HIDE DEF op
    <3> QED
      BY <3>1 DEF op
  <2>4. clock \in Nat
    BY ScheduleAssumption DEF IInv, TypeOK
  <2> QED
    BY <2>2, <2>3, <2>4 DEF Emitting
<1>2. S = {u \in Times(op) : u <= Duration}
  BY <1>1 DEF Times, RoundTimes
<1>3. Times(op) \subseteq EventTimes
  BY <1>1 DEF EventTimes
<1>4. \A u : EventAt(u).at = u /\ EventAt(u).operations = Acting(u)
  BY DEF EventAt
<1>5. \A u : o \in Acting(u) <=> u \in Times(op)
  BY <1>1 DEF Acting
<1> HIDE DEF S
<1>6. S \subseteq Bounded /\ \A u \in Bounded : u \in S <=> o \in Acting(u)
  BY <1>2, <1>3, <1>5 DEF Bounded
<1>7. f \in Bijection(S, T)
  <2>1. f \in [S -> T] /\ \A u \in S : f[u] = EventAt(u)
    BY <1>4, <1>6
  <2>2. \A u, v \in S : f[u] = f[v] => u = v
    BY <1>4, <2>1
  <2>3. \A e \in T : \E u \in S : f[u] = e
    BY <1>4, <1>6, <2>1
  <2> HIDE DEF f, T
  <2>4. f \in Injection(S, T)
    BY Zenon, <2>1, <2>2 DEF Injection, IsInjective
  <2>5. f \in Surjection(S, T)
    BY Zenon, <2>1, <2>3 DEF Surjection
  <2> QED
    BY Zenon, <2>4, <2>5 DEF Bijection
<1>8. IsFiniteSet(S) /\ Cardinality(S) = RoundsFrom(op, clock)
  BY <1>1, RoundsAre DEF S, Operations
<1>9. IsFiniteSet(T) /\ Cardinality(T) = Cardinality(S)
  BY <1>7, <1>8, FS_Bijection DEF ExistsBijection
<1> QED
  BY <1>8, <1>9

\* The events are finitely many, and repeat as often as EveryRepetition has it.
Repeated == IsFiniteSet(events) /\ EveryRepetition

\* Nothing has fired, and nothing acts.
LEMMA RepeatedInit == Init => Repeated
<1> SUFFICES ASSUME Init PROVE Repeated
  OBVIOUS
<1>1. IsFiniteSet(events) /\ events = {}
  BY FS_EmptySet DEF Init
<1>2. TypeOK
  BY InitEstablishes DEF IInv
<1>3. ASSUME NEW id \in Ids, NEW o \in DOMAIN ProgramOf(id).operations,
             Repeating(ProgramOf(id), o), NEW t \in 0..Duration
      PROVE  Cardinality(ActsOf(events, id, t, o))
               = Firings(history[id].applied, t) * RoundsFrom(ProgramOf(id).operations[o], t)
  <2>1. ActsOf(events, id, t, o) = {}
    BY <1>1 DEF ActsOf
  <2>2. Firings(history[id].applied, t) = 0
    <3>1. {i \in DOMAIN history[id].applied : history[id].applied[i] = t} = {}
      BY DEF Init
    <3> QED
      BY <3>1, FS_EmptySet DEF Firings
  <2>3. ProgramOf(id).operations[o] \in Operations /\ t \in Nat
    BY <1>2, ById, ScheduleAssumption DEF Programs
  <2>4. RoundsFrom(ProgramOf(id).operations[o], t) \in Nat
    BY <1>3, <2>3, RoundsAre DEF Repeating
  <2> QED
    BY <2>1, <2>2, <2>4, FS_EmptySet
<1> QED
  BY <1>1, <1>3, RepetitionIs DEF Repeated

\* New events are no old ones: their sequences are new.
LEMMA NewAreNew ==
  ASSUME IInv, Apply, NEW t \in Bounded
  PROVE  EventAt(t) \notin events
<1>1. sequence <= EventAt(t).sequence /\ EventAt(t).sequence \in Nat
  BY NewEvents
<1>2. sequence \in Nat /\ \A e \in events : e.sequence < sequence
  BY DEF IInv, TypeOK, SequencesOrdered
<1> QED
  BY <1>1, <1>2

\* A firing adds its rounds, whatever else has fired at the same time.
LEMMA RepeatedStep ==
  ASSUME IInv, Repeated, [Next]_vars
  PROVE  Repeated'
<1> DEFINE Complete(S, id, t, o) ==
             Cardinality(ActsOf(S, id, t, o))
               = Firings(history'[id].applied, t) * RoundsFrom(ProgramOf(id).operations[o], t)
<1>1. IsFiniteSet(events')
  <2>1. CASE events' = events
    BY <2>1 DEF Repeated
  <2>2. CASE Apply
    <3>1. IsFiniteSet(Bounded)
      <4>1. IsFiniteSet(0..Duration)
        BY ScheduleAssumption, FS_Interval
      <4> QED
        BY <2>2, <4>1, NewEvents, FS_Subset
    <3>2. IsFiniteSet({EventAt(t) : t \in Bounded})
      <4> DEFINE f == [t \in Bounded |-> EventAt(t)]
                 T == {EventAt(t) : t \in Bounded}
      <4>1. f \in Surjection(Bounded, T)
        BY DEF Surjection
      <4> QED
        BY <3>1, <4>1, FS_Surjection
    <3> QED
      BY <2>2, <3>2, FS_Union DEF Apply, Repeated
  <2> QED
    BY <2>1, <2>2, StepKinds DEF Accumulate, ApplyIncomplete
<1>2. (\A id \in Ids : \A o \in DOMAIN ProgramOf(id).operations :
         Repeating(ProgramOf(id), o) => \A t \in 0..Duration : Complete(events', id, t, o))
        => EveryRepetition'
  BY DEF EveryRepetition, Repeating, ActsOf, Firings, RoundsFrom, Rounds, ProgramOf, Ids
<1> SUFFICES ASSUME NEW id \in Ids, NEW o \in DOMAIN ProgramOf(id).operations,
                    Repeating(ProgramOf(id), o), NEW t \in 0..Duration
             PROVE  Complete(events', id, t, o)
  BY <1>1, <1>2 DEF Repeated
<1> DEFINE op == ProgramOf(id).operations[o]
           applied == history[id].applied
           rounds == RoundsFrom(op, t)
           Old == ActsOf(events, id, t, o)
<1>3. Cardinality(Old) = Firings(applied, t) * rounds
  BY RepetitionIs DEF Repeated
<1>4. IsFiniteSet(Old) /\ Cardinality(Old) \in Nat
  BY FS_Subset, FS_CardinalityType DEF Repeated, ActsOf
<1>5. op \in Operations /\ op.repeat > 0 /\ op.emits /\ t \in Nat /\ rounds \in Nat
      /\ applied \in Seq(Nat)
  <2>1. op \in Operations /\ applied \in Seq(Nat)
    BY ById DEF IInv, Programs, History
  <2>2. t \in Nat
    BY ScheduleAssumption
  <2>3. op.repeat > 0 /\ op.emits
    BY DEF Repeating
  <2> QED
    BY <2>1, <2>2, <2>3, RoundsAre
<1>6. CASE events' = events /\ history'[id].applied = applied
  BY <1>3, <1>6
<1>7. ASSUME Applying, history' = AppliedHistory, clock' = clock,
             states' = [states EXCEPT ![Program.id] =
                          AfterApplying(Program.counters, @, clock)]
      PROVE  /\ id = Program.id => ProgramOf(id) = Program
             /\ history'[id].applied =
                  IF id = Program.id THEN Append(applied, clock) ELSE applied
  BY <1>7, Applied
<1>8. CASE ApplyIncomplete /\ clock' = clock
  <2>1. id # Program.id
    <3>1. ASSUME id = Program.id PROVE FALSE
      <4>1. Repeating(Program, o)
        BY <1>7, <1>8, <3>1 DEF ApplyIncomplete
      <4>2. Incomplete
        BY <1>8 DEF ApplyIncomplete
      <4> QED
        BY <4>1, <4>2 DEF Incomplete, Emitting, Repeating
    <3> QED
      BY <3>1
  <2> QED
    BY <1>6, <1>7, <1>8, <2>1 DEF ApplyIncomplete
<1>9. CASE Apply /\ clock' = clock
  <2> DEFINE New == {EventAt(u) : u \in Bounded}
             NewOnes == ActsOf(New, id, t, o)
  <2>1. ActsOf(events', id, t, o) = Old \cup NewOnes
    BY <1>9 DEF Apply, ActsOf
  <2>2. \A e \in New : e.id = Program.id /\ e.fired = clock /\ e \notin events
    <3> SUFFICES ASSUME NEW u \in Bounded
                 PROVE  /\ EventAt(u).id = Program.id /\ EventAt(u).fired = clock
                        /\ EventAt(u) \notin events
      BY Zenon
    <3>1. EventAt(u) \notin events
      BY <1>9, NewAreNew
    <3> QED
      BY <3>1 DEF EventAt
  <2>3. CASE id # Program.id \/ t # clock
    <3>1. NewOnes = {}
      BY <2>2, <2>3 DEF ActsOf
    <3>2. Firings(history'[id].applied, t) = Firings(applied, t)
      <4>1. clock \in Nat
        BY ScheduleAssumption DEF IInv, TypeOK
      <4>2. Firings(Append(applied, clock), t) = Firings(applied, t) \/ id # Program.id
        BY <1>5, <2>3, <4>1, FiredAgain
      <4> QED
        BY <1>7, <1>9, <4>2 DEF Apply
    <3> QED
      BY <1>3, <2>1, <3>1, <3>2
  <2>4. CASE id = Program.id /\ t = clock
    <3>1. ProgramOf(id) = Program /\ history'[id].applied = Append(applied, clock)
      BY <1>7, <1>9, <2>4 DEF Apply
    <3>2. NewOnes = {e \in New : o \in e.operations}
      BY <2>2, <2>4 DEF ActsOf
    <3>3. IsFiniteSet(NewOnes) /\ Cardinality(NewOnes) = rounds
      BY <1>5, <1>9, <2>4, <3>1, <3>2, NewRounds
    <3>4. Old \cap NewOnes = {}
      BY <2>2 DEF ActsOf
    <3>5. Cardinality(Old \cup NewOnes) = Cardinality(Old) + rounds
      <4> HIDE DEF Old, NewOnes, rounds
      <4>1. Cardinality({}) = 0
        BY FS_EmptySet
      <4>2. Cardinality(Old \cup NewOnes)
              = Cardinality(Old) + Cardinality(NewOnes) - Cardinality(Old \cap NewOnes)
        BY <1>4, <3>3, FS_Union
      <4>3. Cardinality(Old \cap NewOnes) = 0
        BY <3>4, <4>1
      <4>4. rounds \in Nat
        BY <1>5
      <4>5. Cardinality(Old) + rounds - 0 = Cardinality(Old) + rounds
        BY <1>4, <4>4
      <4> QED
        BY <3>3, <4>2, <4>3, <4>5
    <3>6. Firings(applied, t) \in Nat
          /\ Firings(Append(applied, clock), t) = Firings(applied, t) + 1
      BY <1>5, <2>4, FiredAgain
    <3> DEFINE n == Firings(applied, t)
    <3> HIDE DEF n, rounds, Old, NewOnes
    <3>7. n * rounds + rounds = (n + 1) * rounds
      BY <1>5, <3>6 DEF n
    <3>8. Cardinality(Old \cup NewOnes) = (n + 1) * rounds
      BY <1>3, <3>5, <3>7 DEF n
    <3> QED
      BY <2>1, <3>1, <3>6, <3>8 DEF n, rounds
  <2> QED
    BY <2>3, <2>4
<1>10. CASE UNCHANGED <<states, history, events>>
  BY <1>6, <1>10
<1>11. CASE Accumulate /\ clock' = clock
  <2>1. history'[id].applied = applied
    <3>1. history \in [Ids -> History]
      BY DEF IInv, TypeOK
    <3> QED
      BY <1>11, <3>1 DEF Accumulate, History
  <2> QED
    BY <1>6, <1>11, <2>1 DEF Accumulate
<1> QED
  BY <1>8, <1>9, <1>10, <1>11, StepKinds

\* Every repeating operation acts at the end of every full interval, for as long as it
\* and the encounter last, as often as it fired: for any interval, delay and duration.
THEOREM RepetitionsAreComplete == Spec => []EveryRepetition
<1>1. Repeated => EveryRepetition
  BY DEF Repeated
<1>2. IInv /\ Repeated /\ [Next]_vars => Repeated'
  BY RepeatedStep
<1> QED
  BY <1>1, <1>2, RepeatedInit, Invariant, PTL DEF Spec

=============================================================================
