----------------------------- MODULE Admission -----------------------------
(***************************************************************************)
(* What the server promises of its searches, whatever threads and          *)
(* semaphores it is made of: at most Limit run at once, and one is turned  *)
(* away only when that many run.  A promise of safety: it does not say     *)
(* that a search is ever admitted, turned away or over.                    *)
(***************************************************************************)
EXTENDS Integers, FiniteSets

CONSTANTS
  Searches,  \* every search ever asked for
  Limit      \* searches admitted at once

VARIABLE search  \* search[s]: "new", "running", "refused" or "over"

Running == {s \in Searches : search[s] = "running"}

AdmissionInit == search = [s \in Searches |-> "new"]

Admit(s) ==
  /\ search[s] = "new"
  /\ Cardinality(Running) < Limit
  /\ search' = [search EXCEPT ![s] = "running"]

Refuse(s) ==
  /\ search[s] = "new"
  /\ Cardinality(Running) = Limit
  /\ search' = [search EXCEPT ![s] = "refused"]

Finish(s) ==
  /\ search[s] = "running"
  /\ search' = [search EXCEPT ![s] = "over"]

(* The server stops: what runs is over, and so may be what has been asked. *)
Stop ==
  \E S \in SUBSET {s \in Searches : search[s] = "new"} :
    search' = [s \in Searches |-> IF s \in S \cup Running THEN "over" ELSE search[s]]

AdmissionNext == Stop \/ \E s \in Searches : Admit(s) \/ Refuse(s) \/ Finish(s)

AdmissionSpec == AdmissionInit /\ [][AdmissionNext]_search
=============================================================================
