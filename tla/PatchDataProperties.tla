------------------------ MODULE PatchDataProperties ------------------------
(***************************************************************************)
(* What the lock and the files it vouches for must satisfy.                *)
(***************************************************************************)
EXTENDS PatchData

(* Every variable keeps its type, and what the lock has for a champion's   *)
(* document was accepted by _validate_payload.                             *)
TypeOK ==
  /\ files \in [Paths -> Contents \cup {Missing}]
  /\ lock \in [Paths -> Contents \cup {NoEntry}]
  /\ \A p \in Paths \ {Roster} : lock[p] # NoEntry => lock[p] \in ValidFor[p]
  /\ tool \in {"none", "collect", "restore"}
  /\ forced \in BOOLEAN
  /\ plan \subseteq Paths /\ todo \subseteq plan /\ pending \subseteq plan
  /\ entries \in [Paths -> Contents \cup {NoEntry}]
  /\ before \in [Paths -> Contents \cup {Missing, NoEntry}]

(* A command that ends has done what it is for, whatever was interrupted   *)
(* before it: a collection leaves a covered roster, so that a second one   *)
(* is offline, and a restoration a verified lock.                          *)
RunsEndVerified ==
  [][/\ WriteLock => \A p \in plan : files'[p] = lock'[p] /\ files'[p] \in ValidFor[p]
     /\ EndRestore => Verified']_vars

(* sync_champion_snapshots: "All responses are fetched and validated       *)
(* before any new bytes are installed".  A collection that stops before it *)
(* has looked at every document leaves every file as it was.               *)
FailureInstallsNothing ==
  [][(tool = "collect" /\ todo # {} /\ tool' = "none") => files' = before]_vars
=============================================================================
