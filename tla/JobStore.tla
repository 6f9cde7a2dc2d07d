------------------------------- MODULE JobStore -------------------------------
(***************************************************************************)
(* The durable job table of src/main/services/job-store.ts: one row is one *)
(* logical execution of an automation rule.  Every UPDATE of the store is   *)
(* an operator from a table to a table; the WHERE clause is its condition.  *)
(* Result texts, timestamps and rule names are left out; the error column   *)
(* is kept only as far as a later WHERE clause or property tells values     *)
(* apart.                                                                   *)
(***************************************************************************)
EXTENDS Integers, FiniteSets

CONSTANTS
  Rule,           \* ids of the automation rules
  NoRule,         \* the rule of a row that does not exist
  MaxJobs,        \* bound on the rows one behaviour may insert
  KeepSkipped,    \* newest skipped rows that survive a prune (200 in the code)
  KeepTerminal    \* newest rows kept of each other terminal status (2000)

ASSUME StoreAssumption ==
  /\ Rule # {}
  /\ NoRule \notin Rule
  /\ MaxJobs \in Nat \ {0}
  /\ KeepSkipped \in Nat \ {0}
  /\ KeepTerminal \in Nat \ {0}

(* Row ids are handed out in insertion order, so a larger id is a newer row. *)
JobId == 1 .. MaxJobs

Pending   == {"queued", "running", "retry-waiting"}
Terminal  == {"done", "failed", "cancelled", "skipped"}
JobStatus == Pending \cup Terminal
JobSource == {"cron", "once", "event", "test"}
JobError  == {"none", "action", "abandoned", "interrupted", "orphaned"}

Row == [status: JobStatus \cup {"none"}, rule: Rule \cup {NoRule},
        source: JobSource \cup {"none"}, plan: Nat, attempt: Nat,
        error: JobError]

NoRow == [status |-> "none", rule |-> NoRule, source |-> "none", plan |-> 0,
          attempt |-> 0, error |-> "none"]

-----------------------------------------------------------------------------
(* INSERT of a fresh row.  A manual test run carries no plan: plan 0. *)
EnqueueJob(rows, j, r, src, p) ==
  [rows EXCEPT ![j] = [status |-> "queued", rule |-> r, source |-> src,
                       plan |-> p, attempt |-> 0, error |-> "none"]]

(* UPDATE ... SET status, error WHERE id = j AND status IN from. *)
UpdateWhere(rows, j, from, to, err) ==
  IF rows[j].status \in from
  THEN [rows EXCEPT ![j].status = to, ![j].error = err]
  ELSE rows

(* The two conditional updates that grant permission to execute; the caller *)
(* runs the action only if the WHERE clause matched.                        *)
MarkRunning(rows, j) ==
  IF rows[j].status = "queued"
  THEN [rows EXCEPT ![j].status = "running", ![j].attempt = 0] ELSE rows

MarkRunningAttempt(rows, j, n) ==
  IF rows[j].status = "retry-waiting"
  THEN [rows EXCEPT ![j].status = "running", ![j].attempt = n] ELSE rows

MarkRetryWaiting(rows, j) ==
  UpdateWhere(rows, j, {"running"}, "retry-waiting", "action")

(* Mutant: without AND status='retry-waiting'. *)
MarkRetryAbandonedAnyRow(rows, j) ==
  UpdateWhere(rows, j, JobStatus, "failed", "abandoned")

MarkRetryAbandoned(rows, j) ==
  UpdateWhere(rows, j, {"retry-waiting"}, "failed", "abandoned")

MarkDone(rows, j) == UpdateWhere(rows, j, {"running"}, "done", "none")

MarkFailed(rows, j) == UpdateWhere(rows, j, {"running"}, "failed", "action")

MarkCancelled(rows, j) ==
  UpdateWhere(rows, j, Pending, "cancelled", rows[j].error)

(* All rows but the newest `keep` of one status are deleted. *)
PruneByStatus(rows, st, keep) ==
  [j \in JobId |->
     IF /\ rows[j].status = st
        /\ Cardinality({k \in JobId : k > j /\ rows[k].status = st}) >= keep
     THEN NoRow ELSE rows[j]]

(* The one UPDATE without a status guard; it prunes in the same call. *)
MarkSkipped(rows, j) ==
  PruneByStatus([rows EXCEPT ![j].status = "skipped"], "skipped", KeepSkipped)

PruneJobs(rows) ==
  PruneByStatus(
    PruneByStatus(
      PruneByStatus(
        PruneByStatus(rows, "skipped", KeepSkipped),
        "done", KeepTerminal),
      "failed", KeepTerminal),
    "cancelled", KeepTerminal)

-----------------------------------------------------------------------------
(* Startup recovery: what each unfinished row of a dead process becomes. *)
RecoverInterruptedJobs(rows) ==
  [j \in JobId |-> UpdateWhere(rows, j, {"running"}, "failed", "interrupted")[j]]

RecoverOrphanedQueuedJobs(rows) ==
  [j \in JobId |-> UpdateWhere(rows, j, {"queued"}, "cancelled", "orphaned")[j]]

RecoverOrphanedRetryWaitingJobs(rows) ==
  [j \in JobId |->
     UpdateWhere(rows, j, {"retry-waiting"}, "failed", "orphaned")[j]]

(* replayJobTerminalFromRun for the jobs of S, whose run manifest proves a *)
(* committed success: only rows the recovery above wrote are rewritten.  A  *)
(* run that committed a failure rewrites the text of its failed row only.   *)
ReplayDone(rows, S) ==
  [j \in JobId |->
     IF j \in S /\ rows[j].status = "failed" /\ rows[j].error = "interrupted"
     THEN [rows[j] EXCEPT !.status = "done", !.error = "none"] ELSE rows[j]]
=============================================================================
