--------------------------- MODULE ProfileRestore ---------------------------
(***************************************************************************)
(* The restore of complete browser profiles from a snapshot of another     *)
(* device (pullFullProfileSnapshot) against the launches of the same       *)
(* profiles, process crashes and power loss.                               *)
(*                                                                         *)
(* Two resources have to change together, the profile directories and the  *)
(* configuration that describes them, and no file system commits both.  So *)
(* each profile is fenced by a durable receipt, written before its         *)
(* directory is touched and removed only when the pair is known to agree;  *)
(* while it exists, or while a restore lease is held, nothing launches.    *)
(*                                                                         *)
(* A version names the content of a directory and the configuration that   *)
(* belongs to it.  Version 0 is what a device begins with, version n what  *)
(* the n-th restore brings, and Absent a profile this device does not have *)
(* or a directory that has been moved aside.                               *)
(***************************************************************************)
EXTENDS Naturals, Sequences, FiniteSets

CONSTANTS Profile,      \* profiles of the snapshot
          MaxPulls,     \* bound: restores begun
          Faults,       \* what the environment may do: "crash", "power"
          Absent

ASSUME PullAssumption == MaxPulls \in Nat
ASSUME FaultAssumption == Faults \subseteq {"crash", "power"}
ASSUME AbsentAssumption == Absent \notin Nat

VARIABLES data,         \* directory of each profile
          backup,       \* what the running restore moved aside
          config,       \* profile entries of the configuration in memory
          disk,         \* the configurations a power loss may leave on disk
          receipt,      \* the recovery receipts
          held,         \* heldLocks: who owns the restore lease of a profile
          browser,      \* profiles with a running browser
          pull,         \* the restore in progress
          pulls,        \* restores begun
          outcome       \* what the last restore reported

durable == <<data, backup, disk, receipt>>
vars == <<durable, config, held, browser, pull, pulls, outcome>>

Version == 0..MaxPulls \cup {Absent}
NoPull == [phase |-> "idle", selected |-> {}, todo |-> {}, current |-> {},
           restored |-> << >>, pending |-> {}, committed |-> FALSE, error |-> "none",
           failed |-> FALSE, before |-> << >>]
Phase == {"idle", "prepare", "apply", "install", "moved", "verify", "commit",
          "confirm", "finish", "error", "rollback", "close"}

Init ==
  /\ data \in [Profile -> {0, Absent}]
  /\ backup = [d \in Profile |-> Absent]
  /\ config = data
  /\ disk = {data}
  /\ receipt = [d \in Profile |-> FALSE]
  /\ held = [d \in Profile |-> "none"]
  /\ browser = [d \in Profile |-> FALSE]
  /\ pull = NoPull
  /\ pulls = 0
  /\ outcome = "none"

-----------------------------------------------------------------------------
(* acquireRestoreLock, and the launches that take it *)

(* Mutant: only the receipts are looked at, not the leases. *)
FreeOfReceipt(d) == ~receipt[d]

Acquirable(d) == ~receipt[d] /\ held[d] = "none"

BeginLaunch(d) ==
  /\ Acquirable(d)
  /\ config[d] # Absent
  /\ ~browser[d]
  /\ held' = [held EXCEPT ![d] = "launch"]
  /\ UNCHANGED <<durable, config, browser, pull, pulls, outcome>>

\* Without an await the process is spawned, its entry published and the lease released.
SpawnBrowser(d) ==
  /\ held[d] = "launch"
  /\ browser' = [browser EXCEPT ![d] = TRUE]
  /\ held' = [held EXCEPT ![d] = "none"]
  /\ UNCHANGED <<durable, config, pull, pulls, outcome>>

FailLaunch(d) ==
  /\ held[d] = "launch"
  /\ held' = [held EXCEPT ![d] = "none"]
  /\ UNCHANGED <<durable, config, browser, pull, pulls, outcome>>

BrowserExits(d) ==
  /\ browser[d]
  /\ browser' = [browser EXCEPT ![d] = FALSE]
  /\ UNCHANGED <<durable, config, held, pull, pulls, outcome>>

-----------------------------------------------------------------------------
(* pullFullProfileSnapshot *)

Go(phase) == pull' = [pull EXCEPT !.phase = phase]
\* The catch clause: "recovery" is FULL_PROFILE_RECOVERY_REQUIRED.
Throw(error) == pull' = [pull EXCEPT !.phase = "error", !.error = error]
Kept == UNCHANGED <<held, browser, pulls, outcome>>
Only(d) == pull.current = {d}
\* The guard every step on a directory runs again: consent, role and signal may
\* fail it at any time (the failing actions), a browser always does.
Stopped(d) == ~browser[d]

\* One synchronization at a time; the leases and the stopped browsers are
\* taken in one synchronous loop.  A refusal changes nothing.
BeginPull(selected) ==
  /\ pull.phase = "idle" /\ pulls < MaxPulls
  /\ selected # {}
  /\ \A d \in selected : Acquirable(d) /\ ~browser[d]
  /\ pulls' = pulls + 1
  /\ held' = [d \in Profile |-> IF d \in selected THEN "pull" ELSE held[d]]
  /\ pull' = [NoPull EXCEPT !.phase = "prepare", !.selected = selected,
                            !.todo = selected, !.before = data]
  /\ outcome' = "none"
  /\ UNCHANGED <<durable, config, browser>>

\* Downloads, decryption, extensions; then the configuration is flushed.
Prepare ==
  /\ pull.phase = "prepare"
  /\ \/ Go("apply") /\ disk' = {config}
     \/ Throw("plain") /\ UNCHANGED disk
  /\ UNCHANGED <<data, backup, receipt, config>> /\ Kept

\* beginFullProfileRecovery.  A failure leaves a receipt it has created.
OpenGate(d) ==
  /\ pull.phase = "apply" /\ d \in pull.todo
  /\ \/ /\ receipt' = [receipt EXCEPT ![d] = TRUE]
        /\ pull' = [pull EXCEPT !.phase = "install", !.current = {d},
                                !.pending = @ \cup {d}]
     \/ /\ \E left \in BOOLEAN : receipt' = [receipt EXCEPT ![d] = left]
        /\ Throw("recovery")
     \/ Throw("plain") /\ UNCHANGED receipt
  /\ UNCHANGED <<data, backup, disk, config>> /\ Kept

\* restoreProfile: two renames of one synchronous slice, with a crash between them.
MoveAside(d) ==
  /\ pull.phase = "install" /\ Only(d) /\ Stopped(d)
  /\ backup' = [backup EXCEPT ![d] = data[d]]
  /\ data' = [data EXCEPT ![d] = Absent]
  /\ Go("moved")
  /\ UNCHANGED <<disk, receipt, config>> /\ Kept

Install(d) ==
  /\ pull.phase = "moved" /\ Only(d) /\ Stopped(d)
  /\ data' = [data EXCEPT ![d] = pulls]
  /\ Go("verify")
  /\ UNCHANGED <<backup, disk, receipt, config>> /\ Kept

\* Nothing was moved yet: the stage is dropped.  A stage that an earlier restore
\* left, one on another volume, or one that cannot be dropped asks for recovery.
InstallFails(d) ==
  /\ pull.phase = "install" /\ Only(d)
  /\ Throw("plain") \/ Throw("recovery")
  /\ UNCHANGED <<durable, config>> /\ Kept

\* A failure after the first rename.  As long as the guard (consent, role,
\* signal, stopped browser, unchanged entry) holds, the renames are undone; when
\* it does not, or undoing fails on the way, the directory is left as it is.
Undo(d) ==
  /\ pull.phase \in {"moved", "verify"} /\ Only(d)
  /\ \/ Stopped(d) /\ data' = [data EXCEPT ![d] = backup[d]] /\ Throw("plain")
     \/ Stopped(d) /\ \E left \in {Absent, backup[d]} :
                       data' = [data EXCEPT ![d] = left] /\ Throw("recovery")
     \/ UNCHANGED data /\ Throw("recovery")
  /\ UNCHANGED <<backup, disk, receipt, config>> /\ Kept

Verified(d) ==
  /\ pull.phase = "verify" /\ Only(d)
  /\ pull' = [pull EXCEPT !.phase = IF pull.todo = {d} THEN "commit" ELSE "apply",
                          !.todo = @ \ {d}, !.current = {},
                          !.restored = Append(@, d)]
  /\ UNCHANGED <<durable, config>> /\ Kept

\* One transaction for every selected profile; the guards run in its draft.
\* The rename of the file is not flushed.
CommitConfig ==
  /\ pull.phase = "commit"
  /\ \/ /\ config' = [d \in Profile |-> IF d \in pull.selected THEN pulls ELSE config[d]]
        /\ disk' = disk \cup {config'}
        /\ pull' = [pull EXCEPT !.phase = "confirm", !.committed = TRUE]
     \/ Throw("plain") /\ UNCHANGED <<config, disk>>
  /\ UNCHANGED <<data, backup, receipt>> /\ Kept

(* Mutant: the receipts are removed on the strength of the rename alone. *)
ConfirmRename ==
  /\ pull.phase = "confirm"
  /\ Go("finish")
  /\ UNCHANGED <<durable, config>> /\ Kept

\* confirmFullProfileConfigCommitted: read back and flush.
Confirm ==
  /\ pull.phase = "confirm"
  /\ \/ Go("finish") /\ disk' = {config}
     \/ Throw("plain") /\ UNCHANGED disk
  /\ UNCHANGED <<data, backup, receipt, config>> /\ Kept

\* finishFullProfileRecovery.  When the removal cannot be confirmed the receipt
\* is written again if that is still possible.
Finish(d) ==
  /\ pull.phase = "finish" /\ d \in pull.pending
  /\ \/ /\ receipt' = [receipt EXCEPT ![d] = FALSE]
        /\ pull' = [pull EXCEPT !.pending = @ \ {d},
                                !.phase = IF pull.pending = {d} THEN "close" ELSE "finish"]
     \/ /\ \E left \in BOOLEAN : receipt' = [receipt EXCEPT ![d] = left]
        /\ Throw("recovery")
  /\ UNCHANGED <<data, backup, disk, config>> /\ Kept

-----------------------------------------------------------------------------
(* The catch clause *)

Unwinds == ~pull.committed /\ pull.error = "plain"

(* Mutant: a restore that has to be undone forgets the profiles it had finished. *)
BeginUnwindCurrent ==
  /\ pull.phase = "error"
  /\ IF Unwinds
     THEN pull' = [pull EXCEPT !.phase = "rollback", !.restored = << >>] /\ disk' = {config}
     ELSE Go("close") /\ UNCHANGED disk
  /\ UNCHANGED <<data, backup, receipt, config>> /\ Kept

\* Only a plain failure before the commit is undone, and only over a flushed
\* configuration.
BeginUnwind ==
  /\ pull.phase = "error"
  /\ IF Unwinds
     THEN IF pull.pending = {}
          THEN Go("rollback") /\ UNCHANGED disk
          ELSE \/ Go("rollback") /\ disk' = {config}
               \/ /\ pull' = [pull EXCEPT !.phase = "close", !.error = "recovery"]
                  /\ UNCHANGED disk
     ELSE Go("close") /\ UNCHANGED disk
  /\ UNCHANGED <<data, backup, receipt, config>> /\ Kept

LastRestored == pull.restored[Len(pull.restored)]
Earlier == SubSeq(pull.restored, 1, Len(pull.restored) - 1)

\* The newest restored profile first; a failure does not stop the others.
RollBack ==
  /\ pull.phase = "rollback" /\ pull.restored # << >>
  /\ LET d == LastRestored
     IN \/ /\ Stopped(d)
           /\ data' = [data EXCEPT ![d] = backup[d]]
           /\ receipt' = [receipt EXCEPT ![d] = FALSE]
           /\ pull' = [pull EXCEPT !.restored = Earlier, !.pending = @ \ {d}]
        \/ /\ \/ UNCHANGED <<data, receipt>>
              \/ Stopped(d) /\ data' = [data EXCEPT ![d] = Absent] /\ UNCHANGED receipt
              \/ /\ Stopped(d)
                 /\ data' = [data EXCEPT ![d] = backup[d]]
                 /\ \E left \in BOOLEAN : receipt' = [receipt EXCEPT ![d] = left]
           /\ pull' = [pull EXCEPT !.restored = Earlier, !.failed = TRUE]
  /\ UNCHANGED <<backup, disk, config>> /\ Kept

(* Mutant: the receipts still open are removed although an undo has failed. *)
SettleAll ==
  /\ pull.phase = "rollback" /\ pull.restored = << >>
  /\ receipt' = [d \in Profile |-> receipt[d] /\ d \notin pull.pending]
  /\ pull' = [pull EXCEPT !.phase = "close", !.pending = {}]
  /\ UNCHANGED <<data, backup, disk, config>> /\ Kept

\* Without a failed undo the remaining receipts, of profiles that were never
\* changed or undid themselves, are removed too.
Settle ==
  /\ pull.phase = "rollback" /\ pull.restored = << >>
  /\ IF pull.failed \/ pull.pending = {}
     THEN Go("close") /\ UNCHANGED receipt
     ELSE \E d \in pull.pending :
            \/ /\ receipt' = [receipt EXCEPT ![d] = FALSE]
               /\ pull' = [pull EXCEPT !.pending = @ \ {d}]
            \/ /\ \E left \in BOOLEAN : receipt' = [receipt EXCEPT ![d] = left]
               /\ pull' = [pull EXCEPT !.failed = TRUE]
  /\ UNCHANGED <<data, backup, disk, config>> /\ Kept

(* Mutant: what failed before the commit is reported as undone. *)
ReportByCommit ==
  IF pull.committed THEN (IF pull.error = "none" THEN "restored" ELSE "recovery") ELSE "unchanged"

Report ==
  IF pull.error = "none" THEN "restored"
  ELSE IF pull.error = "recovery" \/ pull.failed \/ pull.pending # {} THEN "recovery"
       ELSE "unchanged"

(* Mutant: a restore that asks for recovery keeps its leases. *)
CloseKeepsLeases ==
  /\ pull.phase = "close" /\ Report # "recovery"
  /\ outcome' = Report
  /\ held' = [d \in Profile |-> IF held[d] = "pull" THEN "none" ELSE held[d]]
  /\ pull' = [NoPull EXCEPT !.selected = pull.selected, !.before = pull.before]
  /\ backup' = [d \in Profile |-> Absent]
  /\ UNCHANGED <<data, disk, receipt, config, browser, pulls>>

\* The finally clause: the leases go last.
Close ==
  /\ pull.phase = "close"
  /\ outcome' = Report
  /\ held' = [d \in Profile |-> IF held[d] = "pull" THEN "none" ELSE held[d]]
  /\ pull' = [NoPull EXCEPT !.selected = pull.selected, !.before = pull.before]
  /\ backup' = [d \in Profile |-> Absent]
  /\ UNCHANGED <<data, disk, receipt, config, browser, pulls>>

-----------------------------------------------------------------------------
(* Crash and restart.  Leases of a dead process are reclaimed, browsers live on. *)

Restart(survivor) ==
  /\ config' = survivor
  /\ disk' = {survivor}
  /\ held' = [d \in Profile |-> "none"]
  /\ pull' = NoPull
  /\ outcome' = "none"
  /\ backup' = [d \in Profile |-> Absent]
  /\ UNCHANGED <<data, receipt, pulls>>

Crash == "crash" \in Faults /\ pull.phase # "idle" /\ Restart(config) /\ UNCHANGED browser
PowerLoss ==
  /\ "power" \in Faults
  /\ \E survivor \in disk : Restart(survivor)
  /\ browser' = [d \in Profile |-> FALSE]

-----------------------------------------------------------------------------
PullStep ==
  \/ Prepare \/ CommitConfig \/ Confirm \/ BeginUnwind \/ RollBack \/ Settle \/ Close
  \/ \E d \in Profile : \/ OpenGate(d) \/ MoveAside(d) \/ Install(d) \/ InstallFails(d)
                        \/ Undo(d) \/ Verified(d) \/ Finish(d)

Next ==
  \/ \E selected \in SUBSET Profile : BeginPull(selected)
  \/ PullStep
  \/ \E d \in Profile : BeginLaunch(d) \/ SpawnBrowser(d) \/ FailLaunch(d) \/ BrowserExits(d)
  \/ Crash \/ PowerLoss

Spec == Init /\ [][Next]_vars /\ WF_vars(PullStep)
=============================================================================
