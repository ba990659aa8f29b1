----------------------------- MODULE PatchData -----------------------------
(***************************************************************************)
(* The locked patch data (buildtime): patch.lock.json vouches for files by *)
(* their digests.  One command collects the champions' documents and       *)
(* rewrites the lock, another one restores files that a lock names.  Each  *)
(* may stop anywhere: upstream fails or serves something else, a disk is   *)
(* full, the process dies.  A digest stands for the content it is of.      *)
(***************************************************************************)
EXTENDS Integers, FiniteSets

CONSTANTS
  Paths,     \* files a lock may name
  Roster,    \* the one of them that lists the champions
  Contents,  \* what a file may hold or upstream may serve
  PlanOf,    \* PlanOf[c]: paths build_champion_snapshot_plan makes of a roster c
  ValidFor,  \* ValidFor[p]: contents _validate_payload accepts for p
  Missing, NoEntry

ASSUME RosterAssumption == Roster \in Paths
ASSUME PlanAssumption ==
  /\ DOMAIN PlanOf \subseteq Contents
  /\ PlanOf \in [DOMAIN PlanOf -> SUBSET (Paths \ {Roster})]
ASSUME ValidAssumption == ValidFor \in [Paths -> SUBSET Contents]
ASSUME AbsentAssumption == Missing \notin Contents /\ NoEntry \notin Contents /\ Missing # NoEntry

VARIABLES
  files,    \* files[p]: what is on disk
  lock,     \* lock[p]: the content whose digest the lock has for p
  tool,     \* the command that runs: "none", "collect" or "restore"
  forced,   \* its --refresh or --replace
  plan,     \* paths it is about
  todo,     \* those not looked at yet
  entries,  \* resolved_entries: their new place in the lock
  pending,  \* pending_payloads: fetched, not installed yet
  before    \* the files when it started

disk == <<files, lock>>
job  == <<plan, entries, pending>>
vars == <<disk, tool, forced, job, todo, before>>

Empty == [p \in Paths |-> NoEntry]

Init ==
  /\ files \in [Paths -> Contents \cup {Missing}]
  /\ files[Roster] \in DOMAIN PlanOf
  /\ lock = [Empty EXCEPT ![Roster] = files[Roster]]
  /\ tool = "none" /\ forced = FALSE
  /\ plan = {} /\ todo = {} /\ pending = {}
  /\ entries = Empty /\ before = Empty

Locked == {p \in Paths : lock[p] # NoEntry}

(* verify_patch_lock *)
Verified == \A p \in Locked : files[p] = lock[p]

Trusted_AnyDigest(p) == lock[p] # NoEntry /\ files[p] \in ValidFor[p]

(* _is_trusted_existing; audit_champion_snapshot_coverage asks it of all. *)
Trusted(p) == lock[p] # NoEntry /\ files[p] = lock[p] /\ files[p] \in ValidFor[p]

(***************************************************************************)
(* sync_champion_snapshots                                                 *)
(***************************************************************************)
Start(command, paths) ==
  /\ tool = "none"
  /\ tool' = command
  /\ forced' \in BOOLEAN
  /\ plan' = paths /\ todo' = paths
  /\ entries' = Empty /\ pending' = {}
  /\ before' = files
  /\ UNCHANGED disk

Return ==
  /\ tool' = "none" /\ forced' = FALSE
  /\ plan' = {} /\ todo' = {} /\ pending' = {}
  /\ entries' = Empty /\ before' = Empty

(* The roster is read as it is, whatever the lock has for it. *)
StartCollect ==
  /\ Roster \in Locked
  /\ files[Roster] \in DOMAIN PlanOf
  /\ Start("collect", PlanOf[files[Roster]])

Looking(p, command) == tool = command /\ p \in todo

Reuse(p) ==
  /\ Looking(p, "collect")
  /\ ~forced /\ Trusted(p)
  /\ entries' = [entries EXCEPT ![p] = lock[p]]
  /\ todo' = todo \ {p}
  /\ UNCHANGED <<disk, tool, forced, plan, pending, before>>

Accepted_Unread(p) == Contents

Accepted(p) == ValidFor[p]

AfterFetch_Installed(p, c) == [files EXCEPT ![p] = c]

AfterFetch(p, c) == files

(* Upstream serves content c today. *)
Fetch(p) ==
  /\ Looking(p, "collect")
  /\ forced \/ ~Trusted(p)
  /\ \E c \in Accepted(p) :
       /\ entries' = [entries EXCEPT ![p] = c]
       /\ files' = AfterFetch(p, c)
  /\ pending' = pending \cup {p}
  /\ todo' = todo \ {p}
  /\ UNCHANGED <<lock, tool, forced, plan, before>>

(* _write_atomic of one payload, once nothing is left to fetch. *)
Install(p) ==
  /\ tool = "collect" /\ todo = {}
  /\ p \in pending
  /\ files' = [files EXCEPT ![p] = entries[p]]
  /\ pending' = pending \ {p}
  /\ UNCHANGED <<lock, tool, forced, plan, entries, todo, before>>

WriteLock ==
  /\ tool = "collect" /\ todo = {} /\ pending = {}
  /\ lock' = [p \in Paths |-> IF p \in plan THEN entries[p] ELSE lock[p]]
  /\ Return
  /\ UNCHANGED files

(***************************************************************************)
(* sync_snapshot of fetch.py                                               *)
(***************************************************************************)
StartRestore == Start("restore", Locked)

Skip(p) ==
  /\ Looking(p, "restore")
  /\ files[p] = lock[p]
  /\ todo' = todo \ {p}
  /\ UNCHANGED <<disk, tool, forced, job, before>>

(* Upstream still serves what the lock has. *)
Restore(p) ==
  /\ Looking(p, "restore")
  /\ files[p] # lock[p]
  /\ files[p] = Missing \/ forced
  /\ files' = [files EXCEPT ![p] = lock[p]]
  /\ todo' = todo \ {p}
  /\ UNCHANGED <<lock, tool, forced, job, before>>

EndRestore ==
  /\ tool = "restore" /\ todo = {}
  /\ Return
  /\ UNCHANGED disk

(***************************************************************************)
(* A command stops: by an error it raises (upstream, a digest, the disk, a *)
(* mismatch without --replace) or with its process.                        *)
(***************************************************************************)
Stop ==
  /\ tool # "none"
  /\ Return
  /\ UNCHANGED disk

(* A file is changed or lost while no command runs. *)
Damage(p) ==
  /\ tool = "none"
  /\ \E c \in Contents \cup {Missing} : files' = [files EXCEPT ![p] = c]
  /\ UNCHANGED <<lock, tool, forced, job, todo, before>>

Next ==
  \/ StartCollect \/ WriteLock \/ StartRestore \/ EndRestore \/ Stop
  \/ \E p \in Paths : Reuse(p) \/ Fetch(p) \/ Install(p) \/ Skip(p) \/ Restore(p) \/ Damage(p)

Spec == Init /\ [][Next]_vars
=============================================================================
