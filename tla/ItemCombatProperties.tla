------------------------ MODULE ItemCombatProperties ------------------------
(***************************************************************************)
(* What the timeline and its reader rely on in the compiled item events.   *)
(***************************************************************************)
EXTENDS ItemCombat

ProgramOf(id) == Portfolio[CHOOSE i \in Indices : Portfolio[i].id = id]

\* The longest run of times, ending at the last one, in which neighbours are less
\* than gap apart and the last one is less than gap before now.
Chain(times, gap, now) ==
  LET Linked(n) ==
        \A i \in (Len(times) - n + 1)..Len(times) :
          (IF i = Len(times) THEN now ELSE times[i + 1]) - times[i] < gap
  IN  CHOOSE n \in 0..Len(times) :
        /\ Linked(n)
        /\ \A m \in 0..Len(times) : Linked(m) => m <= n

\* No program acts again before its cooldown is over, whichever item, trigger or
\* entry of the schedule reaches it, also after it failed to compile
\* (cooldown_ready_at_ms, states keyed by program id).
CooldownKept ==
  \A id \in Ids : \A i, j \in DOMAIN history[id].applied :
    i < j => history[id].applied[j] >=
               history[id].applied[i] + ProgramOf(id).counters.cooldown

\* A program that acts on every n-th trigger acts on the n-th of a run of triggers
\* each within the counting window of the one before it: none is counted twice,
\* none from before the last application or from a run that was broken off.
ActsOnTheNth ==
  [][\A id \in Ids :
       LET c == ProgramOf(id).counters
       IN  history'[id].applied # history[id].applied =>
             Chain(history[id].counted, c.counting_window, clock) + 1 = c.proc_every
    ]_vars

\* The stacks an event is multiplied by were earned by applications that follow one
\* another within the stacks' duration, up to and including its own.
StacksEarned ==
  \A e \in events :
    LET c == ProgramOf(e.id).counters
        Upto(m) == SubSeq(history[e.id].applied, 1, m)
    IN  c.max_stacks > 0 =>
          \E m \in DOMAIN history[e.id].applied :
            /\ history[e.id].applied[m] = e.fired
            /\ LET earned == c.stacks_per_trigger *
                               (Chain(Upto(m - 1), c.stack_duration, e.fired) + 1)
               IN  e.stacks = IF earned <= c.max_stacks THEN earned ELSE c.max_stacks

\* sequence breaks every tie between item events, in the order in which the
\* triggers fired: no two events share one, and none uses one still to be given.
SequencesOrdered ==
  /\ \A e \in events : FirstSequence <= e.sequence /\ e.sequence < sequence
  /\ \A e, f \in events :
       /\ e.sequence = f.sequence => e = f
       /\ e.fired < f.fired => e.sequence < f.sequence

\* A repeating operation acts at the end of every full interval, the last one
\* included, for as long as it and the encounter last, and as often as it fired.
EveryRepetition ==
  \A id \in Ids : \A o \in DOMAIN ProgramOf(id).operations :
    LET op == ProgramOf(id).operations[o]
        Fired(t) == Cardinality({i \in DOMAIN history[id].applied :
                                   history[id].applied[i] = t})
        Rounds(t) ==
          LET left == Duration - (t + op.delay)
              upto == IF left <= op.duration THEN left ELSE op.duration
          IN  IF upto < 0 THEN 0 ELSE upto \div op.repeat
    IN  op.repeat > 0 /\ op.emits
          /\ (\A p \in DOMAIN ProgramOf(id).operations :
                ProgramOf(id).operations[p].emits => ~ProgramOf(id).operations[p].incomplete)
        => \A t \in 0..Duration :
             Cardinality({e \in events : e.id = id /\ e.fired = t /\ o \in e.operations})
               = Fired(t) * Rounds(t)

=============================================================================
