-------------------------------- MODULE Web --------------------------------
(***************************************************************************)
(* The web server and its pages (application/web): one thread for every    *)
(* request, a semaphore that admits searches, one engine that all threads  *)
(* share, and pages whose selection changes while they await an answer.    *)
(***************************************************************************)
EXTENDS Integers, FiniteSets

CONSTANTS
  Pages,      \* browser tabs
  Requests,   \* POST requests, in no order
  Champions,  \* champions, at some level, to ask about
  Durations,  \* encounter lengths to ask about
  Limit,      \* max_concurrent_recommendations
  Cores,      \* LOL_BUILD_WORKERS, or the cores of the machine
  Restarts,   \* how often the server is restarted: a bound
  NoRequest, NoPage, NoSelection, Unread

Modes == {"recommend", "evaluate"}
Selection == [mode : Modes, champion : Champions, duration : Durations]

ASSUME LimitAssumption == Limit \in Nat \ {0}  \* else create_server raises
ASSUME CoresAssumption == Cores \in Nat \ {0}
ASSUME RequestsAssumption == IsFiniteSet(Requests) /\ NoRequest \notin Requests
ASSUME OthersAssumption ==
  NoPage \notin Pages /\ NoSelection \notin Selection /\ Unread \notin Durations /\ Restarts \in Nat

(* max(1, cores // max_concurrent_recommendations) *)
RecommendationWorkers == IF Cores < Limit THEN 1 ELSE Cores \div Limit

VARIABLES
  slots,     \* recommendation_slots: admissions left
  thread,    \* thread[r]: where the handler of r is
  request,   \* request[r]: what was asked, and the page that still listens
  response,  \* response[r]: what the handler has to say
  kitSlow,   \* kitSlow[c]: the duration behind _kit_slow_cache of the engine's Cog
  page,      \* page[p]: mode, selection, the request awaited, the result shown
  restarts

server == <<slots, thread, response, kitSlow>>
vars == <<server, request, page, restarts>>

Waiting == "waiting"
Blank == [status |-> Waiting, slows |-> {}]

NotSent == [page |-> NoPage, asked |-> NoSelection]

NothingShown == [by |-> NoRequest]
Booted(selection) == [selection |-> selection, awaits |-> NoRequest, shown |-> NothingShown]

Init ==
  /\ slots = Limit
  /\ thread = [r \in Requests |-> "none"]
  /\ request = [r \in Requests |-> NotSent]
  /\ response = [r \in Requests |-> Blank]
  /\ kitSlow = [c \in Champions |-> Unread]
  /\ page \in [Pages -> {Booted(s) : s \in {t \in Selection : t.mode = "recommend"}}]
  /\ restarts = 0

(***************************************************************************)
(* The page.                                                               *)
(***************************************************************************)

(* A tab, a champion or a field is changed, also while a request runs. *)
Select(p) ==
  \E s \in Selection :
    /\ page' = [page EXCEPT ![p].selection = s]
    /\ UNCHANGED <<server, request, restarts>>

(* run() up to its await.  The button is disabled until the answer. *)
Click(p) ==
  /\ page[p].awaits = NoRequest
  /\ \E r \in {q \in Requests : thread[q] = "none"} :
       /\ request' = [request EXCEPT ![r] = [page |-> p, asked |-> page[p].selection]]
       /\ thread' = [thread EXCEPT ![r] = "reading"]
       /\ page' = [page EXCEPT ![p].awaits = r]
  /\ UNCHANGED <<slots, response, kitSlow, restarts>>

(* What run() renders: the mode and the champion are those selected now. *)
Rendered(p, r) ==
  [by |-> r, as |-> page[p].selection.mode, title |-> page[p].selection.champion]

(* renderRecommendation throws when the answer holds no recommendation. *)
Renders(p, r) ==
  /\ response[r].status = "data"
  /\ page[p].selection.mode = "evaluate" \/ request[r].asked.mode = "recommend"

Awaiting(p, pc) == page[p].awaits # NoRequest /\ thread[page[p].awaits] = pc

(* The rest of run(): the answer is shown. *)
ShowResult(p) ==
  /\ Awaiting(p, "answered")
  /\ Renders(p, page[p].awaits)
  /\ page' = [page EXCEPT ![p] = [@ EXCEPT !.awaits = NoRequest,
                                         !.shown = Rendered(p, page[p].awaits)]]
  /\ UNCHANGED <<server, request, restarts>>

AfterError_Disabled(p) == page[p]

AfterError(p) == [page[p] EXCEPT !.awaits = NoRequest]

(* The rest of run(): the answer is an error, cannot be rendered, or never *)
(* came.                                                                   *)
ShowError(p) ==
  /\ \/ Awaiting(p, "lost")
     \/ Awaiting(p, "answered") /\ ~Renders(p, page[p].awaits)
  /\ page' = [page EXCEPT ![p] = AfterError(p)]
  /\ UNCHANGED <<server, request, restarts>>

(* The page is loaded again, or closed: nobody listens any more. *)
Reload(p) ==
  /\ \E s \in Selection : s.mode = "recommend" /\ page' = [page EXCEPT ![p] = Booted(s)]
  /\ request' = [r \in Requests |->
                   IF request[r].page = p THEN [request[r] EXCEPT !.page = NoPage] ELSE request[r]]
  /\ UNCHANGED <<server, restarts>>

(***************************************************************************)
(* The handler of request r.                                               *)
(***************************************************************************)
Reply(r, status) == response' = [response EXCEPT ![r].status = status]

Goto(r, pc) == thread' = [thread EXCEPT ![r] = pc]

(* _read_json *)
Read(r) ==
  /\ thread[r] = "reading"
  /\ Goto(r, IF request[r].asked.mode = "recommend" THEN "admitting" ELSE "evaluating")
  /\ UNCHANGED <<slots, response, kitSlow, request, page, restarts>>

(* The body is refused, ends early or does not come in time: "invalid"     *)
(* stands for each of the errors that the page is then told.               *)
ReadFails(r) ==
  /\ thread[r] = "reading"
  /\ Reply(r, "invalid")
  /\ Goto(r, "answering")
  /\ UNCHANGED <<slots, kitSlow, request, page, restarts>>

(* recommendation_slots.acquire(blocking=False) *)
Acquire(r) ==
  /\ thread[r] = "admitting"
  /\ slots > 0
  /\ slots' = slots - 1
  /\ Goto(r, "searching")
  /\ UNCHANGED <<response, kitSlow, request, page, restarts>>

Full_LastSlotKept == slots <= 1

Full == slots = 0

(* SERVER_BUSY *)
TurnAway(r) ==
  /\ thread[r] = "admitting"
  /\ Full
  /\ Reply(r, "busy")
  /\ Goto(r, "answering")
  /\ UNCHANGED <<slots, kitSlow, request, page, restarts>>

(* A stage evaluated in this process: its slow is the one the engine's Cog *)
(* has computed first.                                                     *)
StageInline(r) ==
  LET asked == request[r].asked
      slow  == IF kitSlow[asked.champion] = Unread THEN asked.duration
               ELSE kitSlow[asked.champion]
  IN  /\ thread[r] = "searching"
      /\ kitSlow' = [kitSlow EXCEPT ![asked.champion] = slow]
      /\ response' = [response EXCEPT ![r].slows = @ \cup {slow}]
      /\ UNCHANGED <<slots, thread, request, page, restarts>>

(* A stage evaluated by a worker process, whose engine is the search's own. *)
StageInWorker(r) ==
  /\ thread[r] = "searching"
  /\ RecommendationWorkers > 1
  /\ response' = [response EXCEPT ![r].slows = @ \cup {request[r].asked.duration}]
  /\ UNCHANGED <<slots, thread, kitSlow, request, page, restarts>>

SearchEnds(r) ==
  /\ thread[r] = "searching"
  /\ response[r].slows # {}
  /\ Reply(r, "data")
  /\ Goto(r, "releasing")
  /\ UNCHANGED <<slots, kitSlow, request, page, restarts>>

AfterFailure_Unreleased(r) == "answering"

(* The finally of _recommend_admitted. *)
AfterFailure(r) == "releasing"

(* The request is not valid, or the engine raises, at any stage. *)
SearchFails(r) ==
  /\ thread[r] = "searching"
  /\ Reply(r, "failed")
  /\ Goto(r, AfterFailure(r))
  /\ UNCHANGED <<slots, kitSlow, request, page, restarts>>

Release(r) ==
  /\ thread[r] = "releasing"
  /\ slots' = slots + 1
  /\ Goto(r, "answering")
  /\ UNCHANGED <<response, kitSlow, request, page, restarts>>

(* service.evaluate needs no slot and reads no slow. *)
Evaluate(r) ==
  /\ thread[r] = "evaluating"
  /\ \E status \in {"data", "failed"} : Reply(r, status)
  /\ Goto(r, "answering")
  /\ UNCHANGED <<slots, kitSlow, request, page, restarts>>

(* _write_json, outside the try.  To a page that is gone it fails, to one   *)
(* that is there it may; the thread then ends.                             *)
Write(r) ==
  /\ thread[r] = "answering"
  /\ \/ request[r].page # NoPage /\ Goto(r, "answered")
     \/ Goto(r, "lost")
  /\ UNCHANGED <<slots, response, kitSlow, request, page, restarts>>

(* The server is stopped, with its daemon threads, and started again. *)
Restart ==
  /\ restarts < Restarts
  /\ restarts' = restarts + 1
  /\ thread' = [r \in Requests |-> IF thread[r] \in {"none", "answered"} THEN thread[r] ELSE "lost"]
  /\ slots' = Limit
  /\ kitSlow' = [c \in Champions |-> Unread]
  /\ UNCHANGED <<response, request, page>>

Handle(r) ==
  \/ Read(r) \/ ReadFails(r) \/ Acquire(r) \/ TurnAway(r)
  \/ SearchEnds(r) \/ SearchFails(r) \/ Release(r) \/ Evaluate(r) \/ Write(r)

Stage(r) == StageInline(r) \/ StageInWorker(r)

Receive(p) == ShowResult(p) \/ ShowError(p)

Next ==
  \/ \E p \in Pages : Select(p) \/ Click(p) \/ Receive(p) \/ Reload(p)
  \/ \E r \in Requests : Handle(r) \/ Stage(r)
  \/ Restart

(* A thread that can go on does, a search ends, and a page takes the       *)
(* answer that has come.                                                   *)
Fairness ==
  /\ \A r \in Requests : WF_vars(Handle(r))
  /\ \A p \in Pages : WF_vars(Receive(p))

Spec == Init /\ [][Next]_vars

FairSpec == Spec /\ Fairness
=============================================================================
