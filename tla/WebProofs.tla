----------------------------- MODULE WebProofs -----------------------------
(***************************************************************************)
(* Theorems about the web server: its slots are conserved, and its threads *)
(* implement module Admission.                                             *)
(***************************************************************************)
EXTENDS WebProperties, FiniteSetTheorems, TLAPS

(* What a thread has said and was asked, by where it is. *)
Stages ==
  \A r \in Requests :
    /\ thread[r] \in {"none", "reading", "admitting", "evaluating", "searching"} =>
         response[r].status = Waiting
    /\ thread[r] \in {"admitting", "searching", "releasing"} => Recommends(r)
    /\ thread[r] = "evaluating" => ~Recommends(r)
    /\ thread[r] = "releasing" => response[r].status \in {"data", "failed"}

IInv == TypeOK /\ Stages

(***************************************************************************)
(* Who holds a slot before and after a step.                               *)
(***************************************************************************)
LEMMA HoldersFinite == IsFiniteSet(Holders) /\ Cardinality(Holders) \in Nat
<1>1. Holders \subseteq Requests
  BY DEF Holders
<1>2. IsFiniteSet(Holders)
  BY <1>1, RequestsAssumption, FS_Subset
<1> QED
  BY <1>2, FS_CardinalityType

LEMMA SameHolders ==
  ASSUME SlotsConserved, slots' = slots,
         \A r \in Requests : (thread[r] \in {"searching", "releasing"}) =
                             (thread'[r] \in {"searching", "releasing"})
  PROVE  SlotsConserved'
<1>1. Holders' = Holders
  BY DEF Holders
<1> QED
  BY <1>1 DEF SlotsConserved

LEMMA OneMoreHolder ==
  ASSUME SlotsConserved, slots \in Nat, slots' = slots - 1,
         NEW r \in Requests, r \notin Holders, Holders' = Holders \cup {r}
  PROVE  SlotsConserved'
<1>1. Cardinality(Holders') = Cardinality(Holders) + 1
  BY HoldersFinite, FS_AddElement
<1> QED
  BY <1>1, HoldersFinite, LimitAssumption DEF SlotsConserved

LEMMA OneHolderLess ==
  ASSUME SlotsConserved, slots \in Nat, slots' = slots + 1,
         NEW r \in Requests, r \in Holders, Holders' = Holders \ {r}
  PROVE  SlotsConserved' /\ slots' <= Limit
<1>1. Cardinality(Holders') = Cardinality(Holders) - 1
  BY HoldersFinite, FS_RemoveElement
<1>2. IsFiniteSet(Holders') /\ Holders' \subseteq Holders
  BY HoldersFinite, FS_Subset
<1>3. Cardinality(Holders') \in Nat
  BY <1>2, FS_CardinalityType
<1> QED
  BY <1>1, <1>3, HoldersFinite, LimitAssumption DEF SlotsConserved

(***************************************************************************)
(* Every step preserves the invariant.                                     *)
(***************************************************************************)
LEMMA Initially == Init => IInv
<1> SUFFICES ASSUME Init PROVE IInv
  OBVIOUS
<1> USE LimitAssumption, OthersAssumption DEF Init, NotSent, Blank, Waiting
<1>1. Types
  BY DEF Types, Booted, NothingShown, Modes, Selection
<1>2. Holders = {}
  BY DEF Holders
<1>3. SlotsConserved
  BY <1>2, FS_EmptySet DEF SlotsConserved
<1>4. Stages
  BY DEF Stages, Recommends
<1> QED
  BY <1>1, <1>3, <1>4 DEF IInv, TypeOK

(* A step of a page that leaves the server alone. *)
LEMMA PageStep ==
  ASSUME IInv, UNCHANGED <<server, request, restarts>>,
         page' \in [Pages -> [selection : Selection, awaits : Requests \cup {NoRequest},
                              shown : {NothingShown} \cup
                                      [by : Requests, as : Modes, title : Champions]]]
  PROVE  IInv'
<1>1. Types'
  BY DEF IInv, TypeOK, Types, server
<1>2. SlotsConserved'
  BY SameHolders DEF IInv, TypeOK, server
<1>3. Stages'
  BY DEF IInv, Stages, Recommends, server
<1> QED
  BY <1>1, <1>2, <1>3 DEF IInv, TypeOK

LEMMA SelectStep == ASSUME NEW p \in Pages, IInv, Select(p) PROVE IInv'
<1>1. PICK s \in Selection : page' = [page EXCEPT ![p].selection = s]
  BY DEF Select
<1> QED
  <2>1. page' \in [Pages -> [selection : Selection, awaits : Requests \cup {NoRequest},
                             shown : {NothingShown} \cup
                                     [by : Requests, as : Modes, title : Champions]]]
    BY <1>1 DEF IInv, TypeOK, Types
  <2> QED
    BY <2>1, PageStep DEF Select

LEMMA ShowResultStep == ASSUME NEW p \in Pages, IInv, ShowResult(p) PROVE IInv'
<1>1. page[p].awaits \in Requests
  BY DEF ShowResult, Awaiting, IInv, TypeOK, Types
<1>2. page[p].selection \in Selection
  BY DEF IInv, TypeOK, Types
<1>3. Rendered(p, page[p].awaits) \in [by : Requests, as : Modes, title : Champions]
  BY <1>1, <1>2 DEF Rendered, Selection
<1> DEFINE shown == [page[p] EXCEPT !.awaits = NoRequest, !.shown = Rendered(p, page[p].awaits)]
           Shown == [selection : Selection, awaits : Requests \cup {NoRequest},
                     shown : {NothingShown} \cup [by : Requests, as : Modes, title : Champions]]
<1>4. shown \in Shown
  <2> DEFINE s == Rendered(p, page[p].awaits)
  <2>1. s \in [by : Requests, as : Modes, title : Champions]
    BY <1>3
  <2>2. page[p] \in Shown
    BY DEF IInv, TypeOK, Types
  <2> HIDE DEF s
  <2>3. [page[p] EXCEPT !.awaits = NoRequest, !.shown = s] \in Shown
    BY <2>1, <2>2
  <2> QED
    BY <2>3 DEF s
<1>5. page' = [page EXCEPT ![p] = shown]
  BY DEF ShowResult
<1>6. page \in [Pages -> Shown]
  BY DEF IInv, TypeOK, Types
<1> HIDE DEF shown
<1>7. page' \in [Pages -> [selection : Selection, awaits : Requests \cup {NoRequest},
                         shown : {NothingShown} \cup
                                 [by : Requests, as : Modes, title : Champions]]]
  BY <1>4, <1>5, <1>6
<1> QED
  BY <1>7, PageStep DEF ShowResult

LEMMA ShowErrorStep == ASSUME NEW p \in Pages, IInv, ShowError(p) PROVE IInv'
BY PageStep DEF ShowError, AfterError, IInv, TypeOK, Types

LEMMA ClickStep == ASSUME NEW p \in Pages, IInv, Click(p) PROVE IInv'
<1>1. PICK r \in Requests :
        /\ thread[r] = "none"
        /\ request' = [request EXCEPT ![r] = [page |-> p, asked |-> page[p].selection]]
        /\ thread' = [thread EXCEPT ![r] = "reading"]
        /\ page' = [page EXCEPT ![p].awaits = r]
  BY DEF Click
<1>2. page[p].selection \in Selection /\ page[p].selection # NoSelection
  BY OthersAssumption DEF IInv, TypeOK, Types
<1>3. page' \in [Pages -> [selection : Selection, awaits : Requests \cup {NoRequest},
                         shown : {NothingShown} \cup
                                 [by : Requests, as : Modes, title : Champions]]]
  BY <1>1 DEF IInv, TypeOK, Types
<1> USE <1>1, <1>2 DEF Click, IInv, TypeOK
<1>4. Types'
  <2>1. request' \in [Requests -> [page : Pages \cup {NoPage}, asked : Selection \cup {NoSelection}]]
    BY DEF Types
  <2>2. \A q \in Requests : request'[q].asked = NoSelection <=> thread'[q] = "none"
    BY DEF Types
  <2>3. thread' \in [Requests -> {"none", "reading", "admitting", "searching", "releasing",
                                 "evaluating", "answering", "answered", "lost"}]
    BY DEF Types
  <2> QED
    BY <1>3, <2>1, <2>2, <2>3 DEF Types
<1>5. SlotsConserved'
  BY SameHolders DEF Types
<1>6. Stages'
  BY DEF Stages, Types, Recommends
<1> QED
  BY <1>4, <1>5, <1>6

LEMMA ReloadStep == ASSUME NEW p \in Pages, IInv, Reload(p) PROVE IInv'
<1> USE DEF Reload, server, IInv, TypeOK
<1>1. PICK s \in Selection : page' = [page EXCEPT ![p] = Booted(s)]
  OBVIOUS
<1>2. Types'
  BY <1>1 DEF Types, Booted, NothingShown
<1>3. SlotsConserved'
  BY SameHolders
<1>4. \A r \in Requests : request'[r].asked = request[r].asked
  BY DEF Types
<1>5. Stages'
  BY <1>4 DEF Stages, Recommends
<1> QED
  BY <1>2, <1>3, <1>5

(* A thread that neither takes nor gives back a slot. *)
LEMMA HandlerStep ==
  ASSUME IInv, NEW r \in Requests, UNCHANGED <<slots, request, page, restarts>>,
         Types', Stages', \A q \in Requests \ {r} : thread'[q] = thread[q],
         (thread[r] \in {"searching", "releasing"}) = (thread'[r] \in {"searching", "releasing"})
  PROVE  IInv'
<1>1. SlotsConserved'
  BY SameHolders DEF IInv, TypeOK
<1> QED
  BY <1>1 DEF IInv, TypeOK

LEMMA ReadStep == ASSUME NEW r \in Requests, IInv, Read(r) PROVE IInv'
<1> USE DEF Read, Goto
<1>1. Types'
  BY DEF IInv, TypeOK, Types
<1>2. Stages'
  BY DEF IInv, TypeOK, Types, Stages, Recommends
<1>3. /\ \A q \in Requests \ {r} : thread'[q] = thread[q]
      /\ (thread[r] \in {"searching", "releasing"}) = (thread'[r] \in {"searching", "releasing"})
  BY DEF IInv, TypeOK, Types
<1> QED
  BY <1>1, <1>2, <1>3, HandlerStep

LEMMA ReadFailsStep == ASSUME NEW r \in Requests, IInv, ReadFails(r) PROVE IInv'
<1> USE DEF ReadFails, Goto, Reply
<1>1. Types'
  BY DEF IInv, TypeOK, Types
<1>2. Stages'
  BY DEF IInv, TypeOK, Types, Stages, Recommends
<1>3. /\ \A q \in Requests \ {r} : thread'[q] = thread[q]
      /\ (thread[r] \in {"searching", "releasing"}) = (thread'[r] \in {"searching", "releasing"})
  BY DEF IInv, TypeOK, Types
<1> QED
  BY <1>1, <1>2, <1>3, HandlerStep

LEMMA AcquireStep == ASSUME NEW r \in Requests, IInv, Acquire(r) PROVE IInv'
<1> USE LimitAssumption DEF Acquire, Goto, IInv, TypeOK
<1>1. Types'
  BY DEF Types
<1>2. r \notin Holders /\ Holders' = Holders \cup {r}
  BY DEF Types, Holders
<1>3. SlotsConserved'
  BY <1>2, OneMoreHolder DEF Types
<1>4. Stages'
  BY DEF Types, Stages, Recommends
<1> QED
  BY <1>1, <1>3, <1>4

LEMMA TurnAwayStep == ASSUME NEW r \in Requests, IInv, TurnAway(r) PROVE IInv'
<1> USE DEF TurnAway, Goto, Reply
<1>1. Types'
  BY DEF IInv, TypeOK, Types
<1>2. Stages'
  BY DEF IInv, TypeOK, Types, Stages, Recommends
<1>3. /\ \A q \in Requests \ {r} : thread'[q] = thread[q]
      /\ (thread[r] \in {"searching", "releasing"}) = (thread'[r] \in {"searching", "releasing"})
  BY DEF IInv, TypeOK, Types
<1> QED
  BY <1>1, <1>2, <1>3, HandlerStep

LEMMA StageInlineStep == ASSUME NEW r \in Requests, IInv, StageInline(r) PROVE IInv'
<1> DEFINE asked == request[r].asked
           slow  == IF kitSlow[asked.champion] = Unread THEN asked.duration
                    ELSE kitSlow[asked.champion]
<1> USE DEF StageInline
<1>1. asked \in Selection
  BY DEF IInv, TypeOK, Types
<1>2. asked.champion \in Champions /\ asked.duration \in Durations
  BY <1>1 DEF Selection
<1>3. slow \in Durations
  BY <1>2 DEF IInv, TypeOK, Types
<1>4. /\ kitSlow' = [kitSlow EXCEPT ![asked.champion] = slow]
      /\ response' = [response EXCEPT ![r].slows = @ \cup {slow}]
      /\ UNCHANGED <<slots, thread, request, page, restarts>>
  OBVIOUS
<1> HIDE DEF asked, slow, StageInline
<1>5. Types'
  BY <1>2, <1>3, <1>4 DEF IInv, TypeOK, Types
<1>6. Stages'
  BY <1>4 DEF IInv, TypeOK, Types, Stages, Recommends
<1> QED
  BY <1>4, <1>5, <1>6, HandlerStep DEF IInv, TypeOK, Types

LEMMA StageInWorkerStep == ASSUME NEW r \in Requests, IInv, StageInWorker(r) PROVE IInv'
<1> USE DEF StageInWorker
<1>1. request[r].asked \in Selection
  BY DEF IInv, TypeOK, Types
<1>2. request[r].asked.duration \in Durations
  BY <1>1 DEF Selection
<1>3. Types'
  BY <1>2 DEF IInv, TypeOK, Types
<1>4. Stages'
  BY DEF IInv, TypeOK, Types, Stages, Recommends
<1> QED
  BY <1>3, <1>4, HandlerStep DEF IInv, TypeOK, Types

LEMMA SearchEndsStep == ASSUME NEW r \in Requests, IInv, SearchEnds(r) PROVE IInv'
<1> USE DEF SearchEnds, Goto, Reply
<1>1. Types'
  BY DEF IInv, TypeOK, Types
<1>2. Stages'
  BY DEF IInv, TypeOK, Types, Stages, Recommends
<1>3. /\ \A q \in Requests \ {r} : thread'[q] = thread[q]
      /\ (thread[r] \in {"searching", "releasing"}) = (thread'[r] \in {"searching", "releasing"})
  BY DEF IInv, TypeOK, Types
<1> QED
  BY <1>1, <1>2, <1>3, HandlerStep

LEMMA SearchFailsStep == ASSUME NEW r \in Requests, IInv, SearchFails(r) PROVE IInv'
<1> USE DEF SearchFails, AfterFailure, Goto, Reply
<1>1. Types'
  BY DEF IInv, TypeOK, Types
<1>2. Stages'
  BY DEF IInv, TypeOK, Types, Stages, Recommends
<1>3. /\ \A q \in Requests \ {r} : thread'[q] = thread[q]
      /\ (thread[r] \in {"searching", "releasing"}) = (thread'[r] \in {"searching", "releasing"})
  BY DEF IInv, TypeOK, Types
<1> QED
  BY <1>1, <1>2, <1>3, HandlerStep

LEMMA ReleaseStep == ASSUME NEW r \in Requests, IInv, Release(r) PROVE IInv'
<1> USE LimitAssumption DEF Release, Goto, IInv, TypeOK
<1>1. r \in Holders /\ Holders' = Holders \ {r}
  BY DEF Types, Holders
<1>2. SlotsConserved' /\ slots' <= Limit
  BY <1>1, OneHolderLess DEF Types
<1>3. Types'
  BY <1>2 DEF Types
<1>4. Stages'
  BY DEF Types, Stages, Recommends
<1> QED
  BY <1>2, <1>3, <1>4

LEMMA EvaluateStep == ASSUME NEW r \in Requests, IInv, Evaluate(r) PROVE IInv'
<1> USE DEF Evaluate, Goto, Reply
<1>1. PICK status \in {"data", "failed"} : response' = [response EXCEPT ![r].status = status]
  OBVIOUS
<1>2. Types'
  BY <1>1 DEF IInv, TypeOK, Types
<1>3. Stages'
  BY <1>1 DEF IInv, TypeOK, Types, Stages, Recommends
<1>4. /\ \A q \in Requests \ {r} : thread'[q] = thread[q]
      /\ (thread[r] \in {"searching", "releasing"}) = (thread'[r] \in {"searching", "releasing"})
  BY DEF IInv, TypeOK, Types
<1> QED
  BY <1>2, <1>3, <1>4, HandlerStep

LEMMA WriteStep == ASSUME NEW r \in Requests, IInv, Write(r) PROVE IInv'
<1> USE DEF Write, Goto
<1>1. Types'
  BY DEF IInv, TypeOK, Types
<1>2. Stages'
  BY DEF IInv, TypeOK, Types, Stages, Recommends
<1>3. /\ \A q \in Requests \ {r} : thread'[q] = thread[q]
      /\ (thread[r] \in {"searching", "releasing"}) = (thread'[r] \in {"searching", "releasing"})
  BY DEF IInv, TypeOK, Types
<1> QED
  BY <1>1, <1>2, <1>3, HandlerStep

LEMMA RestartStep == ASSUME IInv, Restart PROVE IInv'
<1> USE LimitAssumption, OthersAssumption DEF Restart, IInv, TypeOK
<1>1. Types'
  BY DEF Types
<1>2. Holders' = {}
  BY DEF Holders
<1>3. SlotsConserved'
  BY <1>2, FS_EmptySet DEF SlotsConserved
<1>4. Stages'
  BY DEF Types, Stages, Recommends
<1> QED
  BY <1>1, <1>3, <1>4

LEMMA Stutter == IInv /\ UNCHANGED vars => IInv'
BY PageStep DEF vars, IInv, TypeOK, Types

LEMMA Step == IInv /\ [Next]_vars => IInv'
<1> SUFFICES ASSUME IInv, [Next]_vars PROVE IInv'
  OBVIOUS
<1>1. CASE UNCHANGED vars
  BY <1>1, Stutter
<1>2. CASE Restart
  BY <1>2, RestartStep
<1>3. ASSUME NEW p \in Pages, Select(p) \/ Click(p) \/ Receive(p) \/ Reload(p) PROVE IInv'
  BY <1>3, SelectStep, ClickStep, ShowResultStep, ShowErrorStep, ReloadStep DEF Receive
<1>4. ASSUME NEW r \in Requests, Handle(r) PROVE IInv'
  BY <1>4, ReadStep, ReadFailsStep, AcquireStep, TurnAwayStep, SearchEndsStep,
     SearchFailsStep, ReleaseStep, EvaluateStep, WriteStep DEF Handle
<1>5. ASSUME NEW r \in Requests, Stage(r) PROVE IInv'
  BY <1>5, StageInlineStep, StageInWorkerStep DEF Stage
<1> QED
  BY <1>1, <1>2, <1>3, <1>4, <1>5 DEF Next

(* The inductive invariant: types, conserved slots, and what a thread has  *)
(* said and was asked by where it is.                                      *)
THEOREM Invariant == Spec => []IInv
<1> QED
  BY Initially, Step, PTL DEF Spec

(* Every variable keeps its type and no slot is lost or made up, for any   *)
(* number of pages, requests, slots and restarts.                          *)
THEOREM TypeCorrect == Spec => []TypeOK
<1>1. IInv => TypeOK
  BY DEF IInv
<1> QED
  BY <1>1, Invariant, PTL

(***************************************************************************)
(* The threads implement module Admission.                                 *)
(***************************************************************************)
Search == [r \in Requests |-> SearchOf(r)]

LEMMA RunningHolds == Promise!Running = Holders
<1>1. \A r \in Requests : Search[r] = "running" <=> r \in Holders
  BY DEF Search, SearchOf
<1> QED
  BY <1>1 DEF Promise!Running, Holders, Search

LEMMA RunningCounted == Promise!Cardinality(Promise!Running) = Cardinality(Holders)
<1>1. Promise!Cardinality(Holders) = Cardinality(Holders)
  BY DEF Promise!Cardinality, Cardinality
<1> QED
  BY <1>1, RunningHolds

LEMMA InitialSearches == Init => Promise!AdmissionInit
<1> SUFFICES ASSUME Init PROVE Promise!AdmissionInit
  OBVIOUS
<1>1. \A r \in Requests : SearchOf(r) = "new"
  BY DEF Init, SearchOf, Holders, Recommends, Decided, NotSent, Blank, Waiting
<1> QED
  BY <1>1 DEF Promise!AdmissionInit

(* A step of one thread leaves the other searches alone. *)
LEMMA OtherSearches ==
  ASSUME IInv, NEW r \in Requests, UNCHANGED request,
         \A q \in Requests \ {r} : thread'[q] = thread[q] /\ response'[q] = response[q]
  PROVE  \A q \in Requests \ {r} : SearchOf(q)' = SearchOf(q)
BY DEF SearchOf, Holders, Recommends, Decided

LEMMA SearchUnchanged ==
  ASSUME \A q \in Requests : SearchOf(q)' = SearchOf(q)
  PROVE  UNCHANGED Search
BY DEF Search

LEMMA SearchMoves ==
  ASSUME NEW r \in Requests, NEW v, SearchOf(r)' = v,
         \A q \in Requests \ {r} : SearchOf(q)' = SearchOf(q)
  PROVE  Search' = [Search EXCEPT ![r] = v]
BY DEF Search

LEMMA AcquireAdmits == ASSUME NEW r \in Requests, IInv, Acquire(r) PROVE Promise!Admit(r)
<1> USE DEF Acquire, Goto, IInv, TypeOK, Types
<1>1. \A q \in Requests \ {r} : SearchOf(q)' = SearchOf(q)
  BY OtherSearches
<1>2. SearchOf(r) = "new" /\ SearchOf(r)' = "running"
  BY DEF SearchOf, Holders, Decided, Stages, Waiting
<1>3. Promise!Cardinality(Promise!Running) < Limit
  BY RunningCounted, HoldersFinite, LimitAssumption DEF SlotsConserved
<1>4. Search' = [Search EXCEPT ![r] = "running"]
  BY <1>1, <1>2, SearchMoves
<1> QED
  BY <1>2, <1>3, <1>4 DEF Promise!Admit, Search

LEMMA TurnAwayRefuses == ASSUME NEW r \in Requests, IInv, TurnAway(r) PROVE Promise!Refuse(r)
<1> USE DEF TurnAway, Full, Goto, Reply, IInv, TypeOK, Types
<1>1. \A q \in Requests \ {r} : SearchOf(q)' = SearchOf(q)
  BY OtherSearches
<1>2. SearchOf(r) = "new" /\ SearchOf(r)' = "refused"
  BY DEF SearchOf, Holders, Decided, Stages, Waiting
<1>3. Promise!Cardinality(Promise!Running) = Limit
  BY RunningCounted, HoldersFinite, LimitAssumption DEF SlotsConserved
<1>4. Search' = [Search EXCEPT ![r] = "refused"]
  BY <1>1, <1>2, SearchMoves
<1> QED
  BY <1>2, <1>3, <1>4 DEF Promise!Refuse, Search

LEMMA ReleaseFinishes == ASSUME NEW r \in Requests, IInv, Release(r) PROVE Promise!Finish(r)
<1> USE DEF Release, Goto, IInv, TypeOK, Types
<1>1. \A q \in Requests \ {r} : SearchOf(q)' = SearchOf(q)
  BY OtherSearches
<1>2. SearchOf(r) = "running" /\ SearchOf(r)' = "over"
  BY DEF SearchOf, Holders, Decided, Stages, Recommends
<1>3. Search' = [Search EXCEPT ![r] = "over"]
  BY <1>1, <1>2, SearchMoves
<1> QED
  BY <1>2, <1>3 DEF Promise!Finish, Search

LEMMA RestartStops == ASSUME IInv, Restart PROVE Promise!Stop
<1> DEFINE S == {r \in Requests : thread[r] \in {"reading", "admitting"} /\ Recommends(r)}
<1> USE DEF Restart, IInv, TypeOK, Types
<1>1. \A r \in S : SearchOf(r) = "new"
  BY DEF SearchOf, Holders, Decided, Stages, Waiting
<1>2. \A r \in Requests : SearchOf(r)' = IF r \in S \cup Holders THEN "over" ELSE SearchOf(r)
  <2> SUFFICES ASSUME NEW r \in Requests
               PROVE  SearchOf(r)' = IF r \in S \cup Holders THEN "over" ELSE SearchOf(r)
    OBVIOUS
  <2> USE DEF SearchOf, Holders, Decided, Recommends, Stages, Waiting
  <2>1. CASE r \in S
    BY <2>1
  <2>2. CASE r \in Holders
    BY <2>2
  <2>3. CASE r \notin S \cup Holders
    BY <2>3
  <2> QED
    BY <2>1, <2>2, <2>3
<1>3. S \in SUBSET {r \in Requests : Search[r] = "new"}
  BY <1>1 DEF Search
<1>4. Search' = [r \in Requests |-> IF r \in S \cup Promise!Running THEN "over" ELSE Search[r]]
  BY <1>2, RunningHolds DEF Search
<1> QED
  BY <1>3, <1>4 DEF Promise!Stop, Search

LEMMA PageStutters ==
  ASSUME NEW p \in Pages, IInv, Select(p) \/ Click(p) \/ Receive(p) \/ Reload(p)
  PROVE  UNCHANGED Search
<1>1. CASE Select(p) \/ Receive(p)
  BY <1>1, SearchUnchanged DEF Select, Receive, ShowResult, ShowError, server,
     SearchOf, Holders, Recommends, Decided
<1>2. CASE Click(p)
  <2>1. PICK r \in Requests :
          /\ thread[r] = "none"
          /\ request' = [request EXCEPT ![r] = [page |-> p, asked |-> page[p].selection]]
          /\ thread' = [thread EXCEPT ![r] = "reading"]
    BY <1>2 DEF Click
  <2> USE <1>2, <2>1 DEF Click, IInv, TypeOK, Types, SearchOf, Holders, Recommends, Decided
  <2>2. \A q \in Requests \ {r} : SearchOf(q)' = SearchOf(q)
    OBVIOUS
  <2>3. SearchOf(r) = "new" /\ SearchOf(r)' = "new"
    BY DEF Stages, Waiting
  <2> QED
    BY <2>2, <2>3, SearchUnchanged
<1>3. CASE Reload(p)
  <2>1. \A r \in Requests : request'[r].asked = request[r].asked
    BY <1>3 DEF Reload, IInv, TypeOK, Types
  <2> QED
    BY <1>3, <2>1, SearchUnchanged DEF Reload, server, SearchOf, Holders, Recommends, Decided
<1> QED
  BY <1>1, <1>2, <1>3

LEMMA HandlerStutters ==
  ASSUME NEW r \in Requests, IInv,
         \/ Read(r) \/ ReadFails(r) \/ SearchEnds(r) \/ SearchFails(r) \/ Evaluate(r) \/ Write(r)
         \/ Stage(r)
  PROVE  UNCHANGED Search
<1> USE DEF Goto, Reply, IInv, TypeOK, Types
<1>1. \A q \in Requests \ {r} : SearchOf(q)' = SearchOf(q)
  BY OtherSearches DEF Read, ReadFails, SearchEnds, SearchFails, Evaluate, Write, Stage,
     StageInline, StageInWorker
<1> USE DEF SearchOf, Holders, Recommends, Decided, Stages, Waiting
<1>2. CASE Read(r)
  <2>1. SearchOf(r)' = SearchOf(r)
    BY <1>2 DEF Read
  <2> QED
    BY <1>1, <2>1, SearchUnchanged
<1>3. CASE ReadFails(r)
  <2>1. SearchOf(r)' = SearchOf(r)
    BY <1>3 DEF ReadFails
  <2> QED
    BY <1>1, <2>1, SearchUnchanged
<1>4. CASE SearchEnds(r)
  <2>1. SearchOf(r)' = SearchOf(r)
    BY <1>4 DEF SearchEnds
  <2> QED
    BY <1>1, <2>1, SearchUnchanged
<1>5. CASE SearchFails(r)
  <2>1. SearchOf(r)' = SearchOf(r)
    BY <1>5 DEF SearchFails, AfterFailure
  <2> QED
    BY <1>1, <2>1, SearchUnchanged
<1>6. CASE Evaluate(r)
  <2>1. SearchOf(r)' = SearchOf(r)
    BY <1>6 DEF Evaluate
  <2> QED
    BY <1>1, <2>1, SearchUnchanged
<1>7. CASE Write(r)
  <2>1. SearchOf(r)' = SearchOf(r)
    BY <1>7 DEF Write
  <2> QED
    BY <1>1, <2>1, SearchUnchanged
<1>8. CASE Stage(r)
  <2>1. SearchOf(r)' = SearchOf(r)
    BY <1>8 DEF Stage, StageInline, StageInWorker
  <2> QED
    BY <1>1, <2>1, SearchUnchanged
<1> QED
  BY <1>2, <1>3, <1>4, <1>5, <1>6, <1>7, <1>8

LEMMA StepRefines == IInv /\ [Next]_vars => [Promise!AdmissionNext]_Search
<1> SUFFICES ASSUME IInv, [Next]_vars PROVE Promise!AdmissionNext \/ UNCHANGED Search
  OBVIOUS
<1>1. CASE UNCHANGED vars
  BY <1>1, SearchUnchanged DEF vars, server, SearchOf, Holders, Recommends, Decided
<1>2. CASE Restart
  BY <1>2, RestartStops DEF Promise!AdmissionNext
<1>3. ASSUME NEW p \in Pages, Select(p) \/ Click(p) \/ Receive(p) \/ Reload(p)
      PROVE  UNCHANGED Search
  BY <1>3, PageStutters
<1>4. ASSUME NEW r \in Requests, Handle(r) \/ Stage(r)
      PROVE  Promise!AdmissionNext \/ UNCHANGED Search
  BY <1>4, HandlerStutters, AcquireAdmits, TurnAwayRefuses, ReleaseFinishes
     DEF Handle, Promise!AdmissionNext
<1> QED
  BY <1>1, <1>2, <1>3, <1>4 DEF Next

(* The server's threads, semaphore and failures implement Admission: at    *)
(* most Limit searches run at once, and one is refused only when that many *)
(* run -- for any number of requests, slots and restarts.                  *)
THEOREM ImplementsAdmissionTheorem == Spec => ImplementsAdmission
<1>1. Init => Promise!AdmissionInit
  BY InitialSearches
<1>2. IInv /\ [Next]_vars => [Promise!AdmissionNext]_[r \in Requests |-> SearchOf(r)]
  BY StepRefines DEF Search
<1> QED
  BY <1>1, <1>2, Invariant, PTL DEF Spec, ImplementsAdmission, Promise!AdmissionSpec
=============================================================================
