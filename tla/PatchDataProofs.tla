-------------------------- MODULE PatchDataProofs --------------------------
(***************************************************************************)
(* Theorems about the locked patch data.                                   *)
(***************************************************************************)
EXTENDS PatchDataProperties, TLAPS

(* While a collection runs, a path it has looked at has its new entry; a   *)
(* pending entry was accepted, and any other one agrees with its file.     *)
Collected ==
  tool = "collect" =>
    /\ Roster \notin plan
    /\ todo \cap pending = {}
    /\ \A p \in plan \ todo :
         /\ entries[p] \in ValidFor[p]
         /\ p \in pending \/ files[p] = entries[p]

(* While a restoration runs, a path it has looked at is as locked. *)
Restored ==
  tool = "restore" =>
    /\ plan = Locked
    /\ \A p \in plan \ todo : files[p] = lock[p]

(* Until a collection has looked at everything, it has touched nothing. *)
Untouched == (tool = "collect" /\ todo # {}) => files = before

IInv == TypeOK /\ Collected /\ Restored /\ Untouched

LEMMA Initially == Init => IInv
<1> SUFFICES ASSUME Init PROVE IInv
  OBVIOUS
<1> USE RosterAssumption, PlanAssumption, ValidAssumption, AbsentAssumption DEF Init, Empty
<1>1. TypeOK
  BY DEF TypeOK
<1>2. Collected /\ Restored /\ Untouched
  BY DEF Collected, Restored, Untouched
<1> QED
  BY <1>1, <1>2 DEF IInv

LEMMA StartCollectStep == IInv /\ StartCollect => IInv'
<1> SUFFICES ASSUME IInv, StartCollect PROVE IInv'
  OBVIOUS
<1> USE RosterAssumption, PlanAssumption, ValidAssumption, AbsentAssumption
    DEF StartCollect, Start, disk, Empty, IInv
<1>1. PlanOf[files[Roster]] \subseteq Paths \ {Roster}
  OBVIOUS
<1>2. TypeOK'
  BY <1>1 DEF TypeOK
<1>3. Collected' /\ Restored' /\ Untouched'
  BY <1>1 DEF Collected, Restored, Untouched
<1> QED
  BY <1>2, <1>3

LEMMA ReuseStep == ASSUME NEW p \in Paths PROVE IInv /\ Reuse(p) => IInv'
<1> SUFFICES ASSUME IInv, Reuse(p) PROVE IInv'
  OBVIOUS
<1> USE AbsentAssumption, ValidAssumption DEF Reuse, Looking, Trusted, disk, IInv
<1>1. lock[p] \in Contents /\ lock[p] \in ValidFor[p]
  BY DEF TypeOK
<1>2. TypeOK'
  BY <1>1 DEF TypeOK
<1>3. Collected'
  BY <1>1 DEF Collected, TypeOK
<1>4. Restored' /\ Untouched'
  BY DEF Restored, Untouched
<1> QED
  BY <1>2, <1>3, <1>4

LEMMA FetchStep == ASSUME NEW p \in Paths PROVE IInv /\ Fetch(p) => IInv'
<1> SUFFICES ASSUME IInv, Fetch(p) PROVE IInv'
  OBVIOUS
<1> USE AbsentAssumption, ValidAssumption DEF Fetch, Looking, Accepted, AfterFetch, IInv
<1>1. PICK c \in ValidFor[p] : entries' = [entries EXCEPT ![p] = c] /\ files' = files
  OBVIOUS
<1>2. c \in Contents
  OBVIOUS
<1>3. TypeOK'
  BY <1>1, <1>2 DEF TypeOK
<1>4. Collected'
  BY <1>1 DEF Collected, TypeOK
<1>5. Restored' /\ Untouched'
  BY <1>1 DEF Restored, Untouched
<1> QED
  BY <1>3, <1>4, <1>5

LEMMA InstallStep == ASSUME NEW p \in Paths PROVE IInv /\ Install(p) => IInv'
<1> SUFFICES ASSUME IInv, Install(p) PROVE IInv'
  OBVIOUS
<1> USE AbsentAssumption, ValidAssumption DEF Install, IInv
<1>1. p \in plan \ todo
  BY DEF TypeOK
<1>2. entries[p] \in Contents
  BY <1>1 DEF Collected, TypeOK
<1>3. TypeOK'
  BY <1>2 DEF TypeOK
<1>4. Collected'
  BY DEF Collected, TypeOK
<1>5. Restored' /\ Untouched'
  BY DEF Restored, Untouched
<1> QED
  BY <1>3, <1>4, <1>5

(* A path of a collection's plan is in the lock as it is on disk. *)
LEMMA WriteLockCovers ==
  IInv /\ WriteLock => \A p \in plan : /\ files'[p] = lock'[p]
                                       /\ files'[p] \in ValidFor[p]
<1> SUFFICES ASSUME IInv, WriteLock, NEW p \in plan
             PROVE  files'[p] = lock'[p] /\ files'[p] \in ValidFor[p]
  OBVIOUS
<1>1. p \in Paths /\ p \in plan \ todo
  BY DEF IInv, TypeOK, WriteLock
<1>2. files[p] = entries[p] /\ entries[p] \in ValidFor[p]
  BY <1>1 DEF IInv, Collected, WriteLock
<1> QED
  BY <1>1, <1>2 DEF WriteLock

LEMMA WriteLockStep == IInv /\ WriteLock => IInv'
<1> SUFFICES ASSUME IInv, WriteLock PROVE IInv'
  OBVIOUS
<1> USE AbsentAssumption, ValidAssumption DEF WriteLock, Return, Empty, IInv
<1>1. \A p \in plan : entries[p] \in ValidFor[p]
  BY DEF Collected
<1>2. TypeOK'
  BY <1>1 DEF TypeOK
<1>3. Collected' /\ Restored' /\ Untouched'
  BY DEF Collected, Restored, Untouched
<1> QED
  BY <1>2, <1>3

LEMMA StartRestoreStep == IInv /\ StartRestore => IInv'
<1> SUFFICES ASSUME IInv, StartRestore PROVE IInv'
  OBVIOUS
<1> USE DEF StartRestore, Start, disk, Empty, Locked, IInv
<1>1. TypeOK'
  BY DEF TypeOK
<1>2. Collected' /\ Restored' /\ Untouched'
  BY DEF Collected, Restored, Untouched
<1> QED
  BY <1>1, <1>2

LEMMA SkipStep == ASSUME NEW p \in Paths PROVE IInv /\ Skip(p) => IInv'
<1> SUFFICES ASSUME IInv, Skip(p) PROVE IInv'
  OBVIOUS
<1> USE DEF Skip, Looking, disk, job, IInv
<1>1. TypeOK'
  BY DEF TypeOK
<1>2. Collected' /\ Restored' /\ Untouched'
  BY DEF Collected, Restored, Untouched, Locked
<1> QED
  BY <1>1, <1>2

LEMMA RestoreStep == ASSUME NEW p \in Paths PROVE IInv /\ Restore(p) => IInv'
<1> SUFFICES ASSUME IInv, Restore(p) PROVE IInv'
  OBVIOUS
<1> USE DEF Restore, Looking, job, IInv
<1>1. lock[p] \in Contents
  BY DEF Restored, Locked, TypeOK
<1>2. TypeOK'
  BY <1>1 DEF TypeOK
<1>3. Collected' /\ Untouched'
  BY DEF Collected, Untouched
<1>4. Restored'
  BY DEF Restored, Locked, TypeOK
<1> QED
  BY <1>2, <1>3, <1>4

LEMMA ReturnStep == IInv /\ Return /\ UNCHANGED disk => IInv'
<1> SUFFICES ASSUME IInv, Return, UNCHANGED disk PROVE IInv'
  OBVIOUS
<1> USE DEF Return, disk, Empty, IInv
<1>1. TypeOK'
  BY DEF TypeOK
<1>2. Collected' /\ Restored' /\ Untouched'
  BY DEF Collected, Restored, Untouched
<1> QED
  BY <1>1, <1>2

LEMMA DamageStep == ASSUME NEW p \in Paths PROVE IInv /\ Damage(p) => IInv'
<1> SUFFICES ASSUME IInv, Damage(p) PROVE IInv'
  OBVIOUS
<1> USE DEF Damage, job, IInv
<1>1. TypeOK'
  BY DEF TypeOK
<1>2. Collected' /\ Restored' /\ Untouched'
  BY DEF Collected, Restored, Untouched
<1> QED
  BY <1>1, <1>2

LEMMA Stutter == IInv /\ UNCHANGED vars => IInv'
BY DEF IInv, TypeOK, Collected, Restored, Untouched, Locked, vars, disk, job

LEMMA Step == IInv /\ [Next]_vars => IInv'
<1> SUFFICES ASSUME IInv, [Next]_vars PROVE IInv'
  OBVIOUS
<1>1. CASE UNCHANGED vars
  BY <1>1, Stutter
<1>2. CASE StartCollect
  BY <1>2, StartCollectStep
<1>3. CASE WriteLock
  BY <1>3, WriteLockStep
<1>4. CASE StartRestore
  BY <1>4, StartRestoreStep
<1>5. CASE EndRestore \/ Stop
  BY <1>5, ReturnStep DEF EndRestore, Stop
<1>6. ASSUME NEW p \in Paths,
             Reuse(p) \/ Fetch(p) \/ Install(p) \/ Skip(p) \/ Restore(p) \/ Damage(p)
      PROVE  IInv'
  BY <1>6, ReuseStep, FetchStep, InstallStep, SkipStep, RestoreStep, DamageStep
<1> QED
  BY <1>1, <1>2, <1>3, <1>4, <1>5, <1>6 DEF Next

(* The inductive invariant of the two commands: what each has looked at is *)
(* on disk or pending, and a collection touches no file before its last    *)
(* fetch.                                                                  *)
THEOREM Invariant == Spec => []IInv
<1>1. Init => IInv
  BY Initially
<1>2. IInv /\ [Next]_vars => IInv'
  BY Step
<1> QED
  BY <1>1, <1>2, PTL DEF Spec

(* Every variable keeps its type and the lock vouches for accepted         *)
(* documents only, for any paths, contents and rosters.                    *)
THEOREM TypeCorrect == Spec => []TypeOK
<1>1. IInv => TypeOK
  BY DEF IInv
<1> QED
  BY <1>1, Invariant, PTL

(* A collection that ends leaves every planned document as the lock has    *)
(* it, a restoration every locked file, whatever was interrupted before.   *)
THEOREM RunsEndVerifiedTheorem == Spec => RunsEndVerified
<1>1. IInv /\ [Next]_vars =>
        [/\ WriteLock => \A p \in plan : files'[p] = lock'[p] /\ files'[p] \in ValidFor[p]
         /\ EndRestore => Verified']_vars
  <2>1. IInv /\ EndRestore => Verified'
    BY DEF IInv, Restored, EndRestore, Verified, Locked, disk
  <2> QED
    BY <2>1, WriteLockCovers
<1> QED
  BY <1>1, Invariant, PTL DEF Spec, RunsEndVerified

(* A collection that stops while documents are missing has changed no file. *)
THEOREM FailureInstallsNothingTheorem == Spec => FailureInstallsNothing
<1>1. IInv /\ [Next]_vars =>
        [(tool = "collect" /\ todo # {} /\ tool' = "none") => files' = before]_vars
  <2> SUFFICES ASSUME IInv, Next, tool = "collect", todo # {}, tool' = "none"
               PROVE  files' = before
    OBVIOUS
  <2>1. Stop
    BY DEF Next, StartCollect, StartRestore, Start, WriteLock, EndRestore, Reuse, Fetch,
           Install, Skip, Restore, Damage, Looking
  <2> QED
    BY <2>1 DEF IInv, Untouched, Stop, disk
<1> QED
  BY <1>1, Invariant, PTL DEF Spec, FailureInstallsNothing
=============================================================================
