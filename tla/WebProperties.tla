--------------------------- MODULE WebProperties ---------------------------
(***************************************************************************)
(* What the server and its pages must satisfy.                             *)
(***************************************************************************)
EXTENDS Web

(* A thread that holds an admission slot. *)
Holders == {r \in Requests : thread[r] \in {"searching", "releasing"}}

Types ==
  /\ slots \in 0 .. Limit
  /\ thread \in [Requests -> {"none", "reading", "admitting", "searching", "releasing",
                              "evaluating", "answering", "answered", "lost"}]
  /\ request \in [Requests -> [page : Pages \cup {NoPage}, asked : Selection \cup {NoSelection}]]
  /\ \A r \in Requests : request[r].asked = NoSelection <=> thread[r] = "none"
  /\ response \in [Requests -> [status : {Waiting, "invalid", "busy", "failed", "data"},
                                slows : SUBSET Durations]]
  /\ kitSlow \in [Champions -> Durations \cup {Unread}]
  /\ page \in [Pages -> [selection : Selection, awaits : Requests \cup {NoRequest},
                         shown : {NothingShown} \cup
                                 [by : Requests, as : Modes, title : Champions]]]
  /\ restarts \in 0 .. Restarts

SlotsConserved == slots + Cardinality(Holders) = Limit

(* Every variable keeps its type, and no admission slot is lost or made    *)
(* up: those left and those held by a thread are Limit together            *)
(* (_recommend_admitted releases in a finally, around every failure).      *)
TypeOK == Types /\ SlotsConserved

(***************************************************************************)
(* The threads and the semaphore implement module Admission: a search is   *)
(* what happens between taking and giving back a slot.  DEFAULT_MAX_       *)
(* CONCURRENT_RECOMMENDATIONS: "Extra callers are refused quickly instead  *)
(* of queueing".                                                           *)
(***************************************************************************)
Recommends(r) == request[r].asked # NoSelection /\ request[r].asked.mode = "recommend"

Decided(r) == /\ thread[r] \in {"answering", "answered", "lost"}
              /\ response[r].status # "invalid"

SearchOf(r) == IF r \in Holders THEN "running"
               ELSE IF response[r].status = "busy" THEN "refused"
               ELSE IF Recommends(r) /\ Decided(r) THEN "over"
               ELSE "new"

Promise == INSTANCE Admission WITH
  Searches <- Requests, search <- [r \in Requests |-> SearchOf(r)]

(* Searches are admitted, refused and ended as Admission promises.         *)
ImplementsAdmission == Promise!AdmissionSpec

(* A page whose button was clicked gets it back: whatever happens to the   *)
(* request, its thread, its search or the server, the finally of run()     *)
(* (static/app.js) is reached.                                             *)
ButtonReturns ==
  \A p \in Pages : page[p].awaits # NoRequest ~> page[p].awaits = NoRequest

(* create_server: "every worker holds its own engine, and results do not   *)
(* depend on the count".  What a worker computes for a search is for the   *)
(* search's own duration; what the server's process computes must be, too. *)
CountDoesNotMatter ==
  \A r \in Requests :
    (response[r].status = "data" /\ Recommends(r)) => response[r].slows = {request[r].asked.duration}
=============================================================================
