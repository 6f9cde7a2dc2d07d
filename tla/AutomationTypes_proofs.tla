------------------------ MODULE AutomationTypes_proofs ------------------------
(***************************************************************************)
(* What the operations of the job table preserve, for every table, and the  *)
(* type correctness of the automation engine, for every value of the        *)
(* constants.                                                               *)
(***************************************************************************)
EXTENDS AutomationProperties, TLAPS

(* A table of well-formed rows. *)
Table == [JobId -> Row]

(* The rows of `after` are those of `before` moved along their life: no row  *)
(* changes its rule, and none appears, vanishes or becomes a skipped row.    *)
SameExecutions(before, after) ==
  \A j \in JobId :
    /\ after[j].rule = before[j].rule
    /\ after[j].source = before[j].source
    /\ before[j].status = "none" <=> after[j].status = "none"
    /\ before[j].status = "skipped" <=> after[j].status = "skipped"

(* A status that an UPDATE of the store writes into an existing row. *)
Moved == JobStatus \ {"skipped"}

(* The absent row is a well-formed row. *)
LEMMA NoRowType == NoRow \in Row
  BY StoreAssumption DEF NoRow, Row, JobStatus, JobSource, JobError

(* A conditional UPDATE (markDone, markFailed, ...) keeps the table well     *)
(* formed and the executions in it.                                          *)
LEMMA UpdateWhereKeeps ==
  ASSUME NEW rows \in Table, NEW j \in JobId, NEW from \in SUBSET Moved,
         NEW to \in Moved, NEW err \in JobError
  PROVE  /\ UpdateWhere(rows, j, from, to, err) \in Table
         /\ SameExecutions(rows, UpdateWhere(rows, j, from, to, err))
<1> DEFINE new == UpdateWhere(rows, j, from, to, err)
<1>1. new \in Table
  BY ZenonT(40) DEF UpdateWhere, Table, Row, Moved
<1>2. \A k \in JobId : /\ new[k].rule = rows[k].rule
                       /\ new[k].source = rows[k].source
                       /\ new[k].status # rows[k].status =>
                            rows[k].status \in Moved /\ new[k].status \in Moved
  BY DEF UpdateWhere, Table, Row
<1>3. "none" \notin Moved /\ "skipped" \notin Moved
  BY DEF Moved, JobStatus, Pending, Terminal
<1> QED BY <1>1, <1>2, <1>3 DEF SameExecutions

(* INSERT of a queued row. *)
LEMMA EnqueueJobKeeps ==
  ASSUME NEW rows \in Table, NEW j \in JobId, NEW r \in Rule,
         NEW src \in JobSource, NEW p \in Nat
  PROVE  /\ EnqueueJob(rows, j, r, src, p) \in Table
         /\ EnqueueJob(rows, j, r, src, p)[j].rule = r
         /\ EnqueueJob(rows, j, r, src, p)[j].source = src
         /\ EnqueueJob(rows, j, r, src, p)[j].status = "queued"
         /\ \A k \in JobId \ {j} : EnqueueJob(rows, j, r, src, p)[k] = rows[k]
  BY DEF EnqueueJob, Table, Row, JobStatus, Pending, JobError

(* The two admissions, markRunning and markRunningAttempt. *)
LEMMA MarkRunningKeeps ==
  ASSUME NEW rows \in Table, NEW j \in JobId
  PROVE  /\ MarkRunning(rows, j) \in Table
         /\ SameExecutions(rows, MarkRunning(rows, j))
<1>1. MarkRunning(rows, j) \in Table
  BY ZenonT(40) DEF MarkRunning, Table, Row, JobStatus, Pending
<1> QED BY <1>1 DEF MarkRunning, SameExecutions, Table, Row

(* The admission of a retry.                                                 *)
LEMMA MarkRunningAttemptKeeps ==
  ASSUME NEW rows \in Table, NEW j \in JobId, NEW n \in Nat
  PROVE  /\ MarkRunningAttempt(rows, j, n) \in Table
         /\ SameExecutions(rows, MarkRunningAttempt(rows, j, n))
<1>1. MarkRunningAttempt(rows, j, n) \in Table
  BY ZenonT(40) DEF MarkRunningAttempt, Table, Row, JobStatus, Pending
<1> QED BY <1>1 DEF MarkRunningAttempt, SameExecutions, Table, Row

(* The updates that end or park a row. *)
LEMMA MarkKeeps ==
  ASSUME NEW rows \in Table, NEW j \in JobId
  PROVE  /\ MarkRetryWaiting(rows, j) \in Table
         /\ SameExecutions(rows, MarkRetryWaiting(rows, j))
         /\ MarkRetryAbandoned(rows, j) \in Table
         /\ SameExecutions(rows, MarkRetryAbandoned(rows, j))
         /\ MarkDone(rows, j) \in Table
         /\ SameExecutions(rows, MarkDone(rows, j))
         /\ MarkFailed(rows, j) \in Table
         /\ SameExecutions(rows, MarkFailed(rows, j))
         /\ MarkCancelled(rows, j) \in Table
         /\ SameExecutions(rows, MarkCancelled(rows, j))
<1>1. rows[j].error \in JobError
  BY DEF Table, Row
<1>2. /\ Pending \in SUBSET Moved
      /\ {"running"} \in SUBSET Moved /\ {"retry-waiting"} \in SUBSET Moved
      /\ {"retry-waiting", "failed", "done", "cancelled"} \subseteq Moved
      /\ {"action", "abandoned", "none"} \subseteq JobError
  BY DEF Moved, JobStatus, Pending, Terminal, JobError
<1> QED
  BY <1>1, <1>2, UpdateWhereKeeps
     DEF MarkRetryWaiting, MarkRetryAbandoned, MarkDone, MarkFailed, MarkCancelled

(* Pruning one status: a row is kept as it is, or it is a row of that status *)
(* and vanishes.                                                             *)
LEMMA PruneByStatusKeeps ==
  ASSUME NEW rows \in Table, NEW st, NEW keep
  PROVE  /\ PruneByStatus(rows, st, keep) \in Table
         /\ \A j \in JobId : \/ PruneByStatus(rows, st, keep)[j] = rows[j]
                             \/ /\ rows[j].status = st
                                /\ PruneByStatus(rows, st, keep)[j] = NoRow
<1> DEFINE cond(j) == /\ rows[j].status = st
                      /\ Cardinality({k \in JobId : k > j /\ rows[k].status = st})
                           >= keep
<1>1. PruneByStatus(rows, st, keep)
        = [j \in JobId |-> IF cond(j) THEN NoRow ELSE rows[j]]
  BY DEF PruneByStatus
<1>2. \A j \in JobId : cond(j) => rows[j].status = st
  OBVIOUS
<1> HIDE DEF cond
<1> QED BY <1>1, <1>2, NoRowType DEF Table

(* A skipped first attempt touches its own row and other skipped rows only.  *)
LEMMA MarkSkippedKeeps ==
  ASSUME NEW rows \in Table, NEW j \in JobId
  PROVE  /\ MarkSkipped(rows, j) \in Table
         /\ \A k \in JobId \ {j} : \/ MarkSkipped(rows, j)[k] = rows[k]
                                   \/ /\ rows[k].status = "skipped"
                                      /\ MarkSkipped(rows, j)[k] = NoRow
<1> DEFINE mid == [rows EXCEPT ![j].status = "skipped"]
<1>1. mid \in Table /\ \A k \in JobId \ {j} : mid[k] = rows[k]
  BY DEF Table, Row, JobStatus, Terminal
<1> HIDE DEF mid
<1>2. MarkSkipped(rows, j) = PruneByStatus(mid, "skipped", KeepSkipped)
  BY DEF MarkSkipped, mid
<1> QED BY <1>1, <1>2, PruneByStatusKeeps

(* Pruning every terminal status keeps the table well formed.                *)
LEMMA PruneJobsType ==
  ASSUME NEW rows \in Table
  PROVE  PruneJobs(rows) \in Table
  BY PruneByStatusKeeps DEF PruneJobs

(* The three recovery passes and the replay of committed runs at startup.    *)
LEMMA RecoverType ==
  ASSUME NEW rows \in Table
  PROVE  /\ RecoverInterruptedJobs(rows) \in Table
         /\ RecoverOrphanedQueuedJobs(rows) \in Table
         /\ RecoverOrphanedRetryWaitingJobs(rows) \in Table
<1>1. /\ {"running"} \in SUBSET Moved /\ {"queued"} \in SUBSET Moved
      /\ {"retry-waiting"} \in SUBSET Moved
      /\ {"failed", "cancelled"} \subseteq Moved
      /\ {"interrupted", "orphaned"} \subseteq JobError
  BY DEF Moved, JobStatus, Pending, Terminal, JobError
<1>2. \A j \in JobId :
        /\ UpdateWhere(rows, j, {"running"}, "failed", "interrupted") \in Table
        /\ UpdateWhere(rows, j, {"queued"}, "cancelled", "orphaned") \in Table
        /\ UpdateWhere(rows, j, {"retry-waiting"}, "failed", "orphaned") \in Table
  BY <1>1, UpdateWhereKeeps
<1> QED
  BY <1>2 DEF Table, RecoverInterruptedJobs, RecoverOrphanedQueuedJobs,
              RecoverOrphanedRetryWaitingJobs

(* Replaying committed runs keeps the table well formed.                     *)
LEMMA ReplayDoneType ==
  ASSUME NEW rows \in Table, NEW S
  PROVE  ReplayDone(rows, S) \in Table
  BY DEF ReplayDone, Table, Row, JobStatus, Terminal, JobError

-----------------------------------------------------------------------------
(* Every operation of the guard returns a guard state. *)
LEMMA GuardKeeps ==
  ASSUME NEW g \in GuardState, NEW ok \in BOOLEAN
  PROVE  /\ IdleGuard \in GuardState
         /\ Begin(g) \in GuardState
         /\ Cancel(g) \in GuardState
         /\ End(g, ok) \in GuardState
<1>1. Failed(g) \in 0 .. CooldownAfter
  BY GuardAssumption DEF Failed, GuardState
<1>2. IdleGuard \in GuardState
  BY GuardAssumption DEF GuardState, IdleGuard
<1>3. Begin(g) \in GuardState /\ Cancel(g) \in GuardState
  BY DEF GuardState, Begin, Cancel
<1>4. (g.cooling \/ EntersCooldown(g)) \in BOOLEAN
  BY DEF EntersCooldown
<1>5. CASE ok
  BY <1>2, <1>3, <1>5 DEF End
<1>6. CASE ~ok
  <2>1. End(g, ok) = [running  |-> FALSE, failures |-> Failed(g),
                      cooling  |-> g.cooling \/ EntersCooldown(g)]
    BY <1>6 DEF End
  <2> QED BY <1>1, <1>2, <1>3, <1>4, <2>1 DEF GuardState
<1> QED BY <1>5, <1>6

(* Marking missed once rules keeps the configuration well formed. *)
LEMMA MarkMissedType ==
  ASSUME NEW c \in [Rule -> RuleConfig], NEW rs, NEW d, NEW g, NEW arm, NEW ret,
         NEW q
  PROVE  MarkMissed(c, rs, d, g, arm, ret, q) \in [Rule -> RuleConfig]
<1> DEFINE cond(r) ==
      /\ r \in rs /\ c[r].enabled /\ Kind[r] = "once" /\ d[r] # "future"
      /\ ~g[r].running
      /\ ret[r] = 0
      /\ \A i \in DOMAIN q : RuleOf(q[i]) # r
      /\ r \in arm => ~ShouldRun(g[r])
<1>1. MarkMissed(c, rs, d, g, arm, ret, q)
        = [r \in Rule |-> IF cond(r) THEN [c[r] EXCEPT !.missed = TRUE] ELSE c[r]]
  BY DEF MarkMissed
<1> HIDE DEF cond
<1>2. \A r \in Rule : [c[r] EXCEPT !.missed = TRUE] \in RuleConfig
  BY DEF RuleConfig
<1> QED BY <1>1, <1>2

(* Converging the parked rows keeps the table and its executions. *)
LEMMA AbandonParkedKeeps ==
  ASSUME NEW rows \in Table, NEW ret
  PROVE  /\ AbandonParked(rows, ret) \in Table
         /\ SameExecutions(rows, AbandonParked(rows, ret))
<1>1. \A j \in JobId : /\ MarkRetryAbandoned(rows, j) \in Table
                       /\ SameExecutions(rows, MarkRetryAbandoned(rows, j))
  BY MarkKeeps
<1>2. \A j \in JobId : AbandonParked(rows, ret)[j]
                         \in {MarkRetryAbandoned(rows, j)[j], rows[j]}
  BY DEF AbandonParked
<1>3. AbandonParked(rows, ret) \in Table
  BY <1>1, <1>2 DEF AbandonParked, Table
<1> QED BY <1>1, <1>2, <1>3 DEF SameExecutions

(* A reload or a stop keeps every waiting call well formed. *)
LEMMA InvalidatedType ==
  ASSUME task \in [JobId -> TaskState]
  PROVE  Invalidated \in [JobId -> TaskState]
  BY DEF Invalidated, TaskState

(* No retry is parked.                                                       *)
LEMMA NoRetriesType == NoRetries \in [Rule -> JobId \cup {0}]
  BY DEF NoRetries

(* The task of a row no call works on.                                       *)
LEMMA NoTaskType == NoTask \in TaskState
  BY DEF NoTask, TaskState

(* Rejecting every waiting call empties the queue. *)
LEMMA EmptyQueueType ==
  ASSUME NEW s \in [active: Nat, queue: Seq(JobId)]
  PROVE  [s EXCEPT !.queue = <<>>] \in [active: Nat, queue: Seq(JobId)]
<1>1. <<>> \in Seq(JobId)
  OBVIOUS
<1> QED BY <1>1

(* The slot operations keep slots and task well formed. *)
LEMMA AcquireType ==
  ASSUME TypeOK, NEW j \in JobId, NEW resume \in BOOLEAN, AcquireRunSlot(j, resume)
  PROVE  /\ slots' \in [active: Nat, queue: Seq(JobId)]
         /\ task' \in [JobId -> TaskState]
<1>1. slots.active \in Nat /\ slots.queue \in Seq(JobId)
  BY DEF TypeOK
<1>2. task' \in [JobId -> TaskState]
  BY DEF AcquireRunSlot, TypeOK, TaskState
<1>3. Append(slots.queue, j) \in Seq(JobId) /\ slots.active + 1 \in Nat
  BY <1>1
<1>4. slots' \in { [slots EXCEPT !.active = @ + 1],
                   [slots EXCEPT !.queue = Append(@, j)] }
  BY DEF AcquireRunSlot
<1> QED BY <1>1, <1>2, <1>3, <1>4 DEF TypeOK

(* releaseRunSlot returns a slot or hands it to the head of the queue.       *)
LEMMA ReleaseType ==
  ASSUME TypeOK, NEW j \in JobId, ReleaseRunSlot(j)
  PROVE  /\ slots' \in [active: Nat, queue: Seq(JobId)]
         /\ task' \in [JobId -> TaskState]
<1>1. slots.active \in Nat /\ slots.queue \in Seq(JobId)
  BY DEF TypeOK
<1> DEFINE ended == [task EXCEPT ![j] = NoTask]
<1>2. ended \in [JobId -> TaskState]
  BY NoTaskType DEF TypeOK
<1>3. CASE slots.queue # <<>> /\ ~stopping
  <2>1. Head(slots.queue) \in JobId /\ Tail(slots.queue) \in Seq(JobId)
    BY <1>1, <1>3
  <2>2. /\ slots' = [slots EXCEPT !.queue = Tail(@)]
        /\ task' = [ended EXCEPT ![Head(slots.queue)].pc = "granted"]
    BY <1>3 DEF ReleaseRunSlot
  <2>3. \A k \in JobId : [ended[k] EXCEPT !.pc = "granted"] \in TaskState
    <3> HIDE DEF ended
    <3> QED BY <1>2 DEF TaskState
  <2>4. task' \in [JobId -> TaskState]
    <3> HIDE DEF ended
    <3> QED BY <1>2, <2>1, <2>2, <2>3
  <2> QED BY <1>1, <2>1, <2>2, <2>4 DEF TypeOK
<1>4. CASE ~(slots.queue # <<>> /\ ~stopping)
  <2>1. /\ slots' = [slots EXCEPT !.active = IF @ > 0 THEN @ - 1 ELSE 0]
        /\ task' = ended
    BY <1>4 DEF ReleaseRunSlot
  <2> QED BY <1>1, <1>2, <2>1 DEF TypeOK
<1> QED BY <1>3, <1>4

-----------------------------------------------------------------------------
(* The handlers that several actions share.                                  *)

(* A trigger of a rule keeps the state well formed.                          *)
LEMMA RunRuleType ==
  ASSUME TypeOK, NEW r \in Rule, NEW arm \in SUBSET Rule, RunRule(r, arm)
  PROVE  TypeOK'
<1> DEFINE j == lastJob + 1
           rows == EnqueueJob(jobs, j, r, Kind[r], cfg[r].plan)
<1>1. j \in JobId /\ lastJob' = j /\ j \in 0 .. MaxJobs
  BY StoreAssumption DEF RunRule, TypeOK, JobId
<1>2. Kind[r] \in JobSource /\ cfg[r].plan \in Nat
  BY SchedulerAssumption DEF JobSource, TypeOK, RuleConfig
<1>3. rows \in Table
  BY <1>1, <1>2, EnqueueJobKeeps DEF TypeOK, Table
<1> HIDE DEF j, rows
<1>4. /\ armed' = arm
      /\ UNCHANGED <<clock, retry, cap, cancelled, zombies, alerts, stopping>>
  BY DEF RunRule
<1>5. CASE ~ShouldRun(guard[r])
  <2>1. /\ jobs' = MarkSkipped(rows, j)
        /\ cfg' \in {cfg, MarkMissed(cfg, {r}, due, guard, arm, retry, slots.queue)}
        /\ UNCHANGED <<guard, task, slots>>
    BY <1>5 DEF RunRule, j, rows
  <2>2. jobs' \in [JobId -> Row]
    BY <1>1, <1>3, <2>1, MarkSkippedKeeps DEF Table
  <2>3. cfg' \in [Rule -> RuleConfig]
    BY <2>1, MarkMissedType DEF TypeOK
  <2> QED BY <1>1, <1>4, <2>1, <2>2, <2>3 DEF TypeOK, clock
<1>6. CASE ShouldRun(guard[r])
  <2>1. /\ guard' = [guard EXCEPT ![r] = Begin(@)]
        /\ jobs' = rows
        /\ AcquireRunSlot(j, FALSE)
        /\ UNCHANGED cfg
    BY <1>6 DEF RunRule, j, rows
  <2>2. guard' \in [Rule -> GuardState]
    BY <2>1, GuardKeeps DEF TypeOK
  <2>3. /\ slots' \in [active: Nat, queue: Seq(JobId)]
        /\ task' \in [JobId -> TaskState]
    BY <1>1, <2>1, AcquireType
  <2> QED BY <1>1, <1>3, <1>4, <2>1, <2>2, <2>3 DEF TypeOK, clock, Table
<1> QED BY <1>5, <1>6

(* A reload with a well-formed configuration and guard does too.             *)
LEMMA ReloadType ==
  ASSUME TypeOK, NEW c \in [Rule -> RuleConfig],
         NEW d \in [Rule -> {"future", "now", "past"}],
         NEW g \in [Rule -> GuardState], ReloadSchedule(c, d, g)
  PROVE  TypeOK'
<1> DEFINE arm == {r \in Rule : Schedulable(c, d, stopping, r)}
<1>1. /\ jobs' = AbandonParked(jobs, retry)
      /\ task' = Invalidated
      /\ slots' = [slots EXCEPT !.queue = <<>>]
      /\ retry' = NoRetries
      /\ armed' = arm
      /\ guard' = g
      /\ cfg' = MarkMissed(c, Rule, d, g, arm, NoRetries, <<>>)
      /\ due' = d
      /\ UNCHANGED <<lastJob, rollbacks, cap, cancelled, zombies, alerts, stopping>>
  BY DEF ReloadSchedule
<1>2. arm \subseteq Rule
  OBVIOUS
<1> HIDE DEF arm
<1>3. jobs' \in [JobId -> Row]
  BY <1>1, AbandonParkedKeeps DEF TypeOK, Table
<1>4. task' \in [JobId -> TaskState]
  BY <1>1, InvalidatedType DEF TypeOK
<1>5. slots' \in [active: Nat, queue: Seq(JobId)]
  BY <1>1, EmptyQueueType DEF TypeOK
<1>6. cfg' \in [Rule -> RuleConfig]
  BY <1>1, MarkMissedType
<1> QED BY <1>1, <1>2, <1>3, <1>4, <1>5, <1>6, NoRetriesType DEF TypeOK

(* So does a restart from well-formed durable state.                         *)
LEMMA StartType ==
  ASSUME TypeOK, NEW rows \in Table, NEW c \in [Rule -> RuleConfig],
         NEW g \in [Rule -> GuardState],
         NEW al \in [JobId -> {"none", "done", "failed", "cancelled"}],
         StartFrom(rows, c, g, al)
  PROVE  TypeOK'
<1> DEFINE idle == [r \in Rule |-> Cancel(g[r])]
           arm  == {r \in Rule : Schedulable(c, due, FALSE, r)}
           recovered == RecoverOrphanedRetryWaitingJobs(
                          RecoverOrphanedQueuedJobs(RecoverInterruptedJobs(rows)))
<1>1. /\ \E S : jobs' = PruneJobs(ReplayDone(recovered, S))
      /\ guard' = idle
      /\ armed' = arm
      /\ cfg' = MarkMissed(c, Rule, due, idle, arm, NoRetries, <<>>)
      /\ alerts' = al
      /\ retry' = NoRetries
      /\ task' = [j \in JobId |-> NoTask]
      /\ slots' = [active |-> 0, queue |-> <<>>]
      /\ cancelled' = {}
      /\ zombies' = {}
      /\ stopping' = FALSE
      /\ UNCHANGED <<lastJob, clock, cap>>
  BY DEF StartFrom
<1>2. recovered \in Table
  BY RecoverType
<1>3. idle \in [Rule -> GuardState] /\ arm \subseteq Rule
  BY GuardKeeps
<1> HIDE DEF idle, arm, recovered
<1>4. jobs' \in [JobId -> Row]
  BY <1>1, <1>2, ReplayDoneType, PruneJobsType DEF Table
<1>5. cfg' \in [Rule -> RuleConfig]
  BY <1>1, MarkMissedType
<1>6. slots' \in [active: Nat, queue: Seq(JobId)]
  BY <1>1
<1>7. task' \in [JobId -> TaskState]
  BY <1>1, NoTaskType
<1> QED
  BY <1>1, <1>3, <1>4, <1>5, <1>6, <1>7, NoRetriesType DEF TypeOK, clock

(* The parked row that a new parked row of the same rule displaces. *)
LEMMA DisplacedKeeps ==
  ASSUME TypeOK, NEW j \in JobId, NEW k
  PROVE  /\ MarkRetryAbandoned(jobs, k) \in Table
         /\ SameExecutions(jobs, MarkRetryAbandoned(jobs, k))
<1>1. CASE k \in JobId
  BY <1>1, MarkKeeps DEF TypeOK, Table
<1>2. CASE k \notin JobId
  <2>1. MarkRetryAbandoned(jobs, k) = jobs
    BY <1>2 DEF MarkRetryAbandoned, UpdateWhere, TypeOK
  <2> QED BY <2>1 DEF TypeOK, Table, SameExecutions
<1> QED BY <1>1, <1>2

(* The pieces of a completion, written one by one by CrashInComplete. *)
LEMMA CompletedType ==
  ASSUME TypeOK, NEW j \in JobId
  PROVE  /\ CompletedRows(j) \in Table
         /\ SameExecutions(jobs, CompletedRows(j))
         /\ CompletedGuard(j) \in [Rule -> GuardState]
         /\ CompletedCfg(j) \in [Rule -> RuleConfig]
         /\ CompletedAlerts(j) \in [JobId -> {"none", "done", "failed", "cancelled"}]
<1>1. /\ CompletedRows(j) \in Table
      /\ SameExecutions(jobs, CompletedRows(j))
  <2> DEFINE other == retry[RuleOf(j)]
             cleared == MarkRetryAbandoned(jobs, other)
             before == IF other = 0 THEN jobs ELSE cleared
  <2>1. jobs \in Table /\ SameExecutions(jobs, jobs)
    BY DEF TypeOK, Table, SameExecutions
  <2>2. cleared \in Table /\ SameExecutions(jobs, cleared)
    BY DisplacedKeeps
  <2>3. before \in Table /\ SameExecutions(jobs, before)
    <3> HIDE DEF cleared
    <3> QED BY <2>1, <2>2
  <2>4. CompletedRows(j) \in {MarkCancelled(jobs, j), MarkDone(jobs, j),
                              MarkFailed(jobs, j), MarkRetryWaiting(before, j)}
    BY DEF CompletedRows
  <2> HIDE DEF before
  <2>5. /\ MarkRetryWaiting(before, j) \in Table
        /\ SameExecutions(before, MarkRetryWaiting(before, j))
    BY <2>3, MarkKeeps
  <2>6. SameExecutions(jobs, MarkRetryWaiting(before, j))
    BY <2>3, <2>5 DEF SameExecutions
  <2> QED BY <2>1, <2>4, <2>5, <2>6, MarkKeeps
<1>2. CompletedGuard(j) \in [Rule -> GuardState]
  <2>1. Succeeded(j) \in BOOLEAN
    BY DEF Succeeded
  <2>2. \A r \in Rule : /\ Cancel(guard[r]) \in GuardState
                        /\ End(guard[r], Succeeded(j)) \in GuardState
    BY <2>1, GuardKeeps DEF TypeOK
  <2> QED BY <2>2 DEF CompletedGuard, TypeOK
<1>3. CompletedCfg(j) \in [Rule -> RuleConfig]
  BY DEF CompletedCfg, TypeOK, RuleConfig
<1>4. CompletedAlerts(j) \in [JobId -> {"none", "done", "failed", "cancelled"}]
  BY DEF CompletedAlerts, TypeOK
<1> QED BY <1>1, <1>2, <1>3, <1>4

(* The row of a call that gives up unstarted. *)
LEMMA UnstartedKeeps ==
  ASSUME TypeOK, NEW j \in JobId
  PROVE  Unstarted(j) \in Table /\ SameExecutions(jobs, Unstarted(j))
  BY MarkKeeps DEF Unstarted, TypeOK, Table

(* Releasing one rule's lock. *)
LEMMA UnlockType ==
  ASSUME TypeOK, NEW r
  PROVE  [guard EXCEPT ![r] = Cancel(@)] \in [Rule -> GuardState]
<1>1. \A s \in Rule : Cancel(guard[s]) \in GuardState
  BY GuardKeeps DEF TypeOK
<1> QED BY <1>1 DEF TypeOK

-----------------------------------------------------------------------------
(* Each step keeps the state well formed.                                    *)

(* The steps of a call after the slot wait.                                  *)
LEMMA TypeRunStep ==
  ASSUME TypeOK, NEW j \in JobId, RunStep(j)
  PROVE  TypeOK'
<1>1. CASE SlotRejected(j)
  <2>1. task' \in [JobId -> TaskState]
    BY <1>1, NoTaskType DEF SlotRejected, TypeOK
  <2> QED BY <1>1, <2>1, UnstartedKeeps, UnlockType
          DEF SlotRejected, TypeOK, clock, Table
<1>2. CASE Admit(j)
  <2>1. jobs[j].attempt + 1 \in Nat
    BY DEF TypeOK, Row
  <2>2. jobs' \in [JobId -> Row]
    BY <1>2, <2>1, MarkRunningKeeps, MarkRunningAttemptKeeps
       DEF Admit, TypeOK, Table
  <2>3. task' \in [JobId -> TaskState]
    BY ZenonT(40), <1>2 DEF Admit, TypeOK, TaskState
  <2> QED BY <1>2, <2>2, <2>3 DEF Admit, TypeOK, clock
<1>3. CASE GiveUp(j)
  <2>1. /\ slots' \in [active: Nat, queue: Seq(JobId)]
        /\ task' \in [JobId -> TaskState]
    BY <1>3, ReleaseType DEF GiveUp
  <2>2. cancelled' \subseteq JobId
    BY <1>3 DEF GiveUp, TypeOK
  <2> QED BY <1>3, <2>1, <2>2, UnstartedKeeps, UnlockType
          DEF GiveUp, TypeOK, clock, Table
<1>4. CASE Settle(j)
  <2>1. task' \in [JobId -> TaskState]
    <3> DEFINE mid == [task EXCEPT ![j].pc = "settled"]
    <3>1. PICK o \in {"ok", "fail", "failFinal", "timeout"} :
            task' = [mid EXCEPT ![j].outcome = o]
      BY <1>4 DEF Settle
    <3>2. mid \in [JobId -> TaskState]
      BY DEF TypeOK, TaskState
    <3> HIDE DEF mid
    <3> QED BY <3>1, <3>2 DEF TaskState
  <2>2. zombies' \subseteq JobId /\ cancelled' \subseteq JobId
    BY <1>4 DEF Settle, TypeOK
  <2> QED BY <1>4, <2>1, <2>2 DEF Settle, TypeOK, clock
<1>5. CASE Complete(j)
  <2>1. /\ slots' \in [active: Nat, queue: Seq(JobId)]
        /\ task' \in [JobId -> TaskState]
    BY <1>5, ReleaseType DEF Complete
  <2>2. retry' \in [Rule -> JobId \cup {0}]
    BY <1>5 DEF Complete, TypeOK
  <2>3. cancelled' \subseteq JobId
    BY <1>5 DEF Complete, TypeOK
  <2> QED BY <1>5, <2>1, <2>2, <2>3, CompletedType
          DEF Complete, TypeOK, clock, Table
<1>6. CASE TestComplete(j)
  <2>1. jobs' \in [JobId -> Row]
    BY <1>6, MarkKeeps DEF TestComplete, TypeOK, Table
  <2>2. task' \in [JobId -> TaskState] /\ cancelled' \subseteq JobId
    BY <1>6, NoTaskType DEF TestComplete, TypeOK
  <2> QED BY <1>6, <2>1, <2>2, UnlockType DEF TestComplete, TypeOK, clock
<1> QED BY <1>1, <1>2, <1>3, <1>4, <1>5, <1>6 DEF RunStep

(* The timers and events.                                                    *)
LEMMA TypeTriggerStep ==
  ASSUME TypeOK, NEW r \in Rule, TriggerStep(r)
  PROVE  TypeOK'
<1>1. CASE CronFire(r)
  <2>1. (IF cfg[r].enabled THEN armed ELSE armed \ {r}) \in SUBSET Rule
    BY DEF TypeOK
  <2> QED BY <1>1, <2>1, RunRuleType DEF CronFire
<1>2. CASE OnceFire(r)
  <2>1. armed \ {r} \in SUBSET Rule
    BY DEF TypeOK
  <2> QED BY <1>2, <2>1, RunRuleType DEF OnceFire
<1>3. CASE OnceDropped(r)
  BY <1>3 DEF OnceDropped, TypeOK, clock
<1>4. CASE EventFire(r)
  <2>1. armed \in SUBSET Rule
    BY DEF TypeOK
  <2> QED BY <1>4, <2>1, RunRuleType DEF EventFire
<1>5. CASE RetryFire(r)
  <2> DEFINE j == retry[r]
  <2>1. j \in JobId
    BY <1>5 DEF RetryFire, TypeOK
  <2>2. retry' \in [Rule -> JobId \cup {0}]
    BY <1>5 DEF RetryFire, TypeOK
  <2>3. UNCHANGED <<lastJob, cfg, clock, armed, cap, cancelled, zombies, alerts,
                    stopping>>
    BY <1>5 DEF RetryFire
  <2>4. CASE /\ guard' = [guard EXCEPT ![r] = Begin(@)]
             /\ AcquireRunSlot(j, TRUE)
             /\ UNCHANGED jobs
    <3>1. guard' \in [Rule -> GuardState]
      BY <2>4, GuardKeeps DEF TypeOK
    <3>2. /\ slots' \in [active: Nat, queue: Seq(JobId)]
          /\ task' \in [JobId -> TaskState]
      BY <2>1, <2>4, AcquireType
    <3> QED BY <2>2, <2>3, <2>4, <3>1, <3>2 DEF TypeOK, clock
  <2>5. CASE /\ jobs' = MarkRetryAbandoned(jobs, j)
             /\ UNCHANGED <<guard, task, slots>>
    <3>1. jobs' \in [JobId -> Row]
      BY <2>1, <2>5, MarkKeeps DEF TypeOK, Table
    <3> QED BY <2>2, <2>3, <2>5, <3>1 DEF TypeOK, clock
  <2> QED BY <1>5, <2>4, <2>5 DEF RetryFire
<1> QED BY <1>1, <1>2, <1>3, <1>4, <1>5 DEF TriggerStep

(* The user: cancel, test run, edit, reschedule.                             *)
LEMMA TypeUserStep ==
  ASSUME TypeOK
  PROVE  /\ \A j \in JobId : CancelJob(j) => TypeOK'
         /\ \A r \in Rule : TestRun(r) => TypeOK'
         /\ \A r \in Rule : UpdateRule(r) => TypeOK'
         /\ \A r \in Rule : RescheduleOnce(r) => TypeOK'
<1>1. ASSUME NEW j \in JobId, CancelJob(j) PROVE TypeOK'
  <2>1. jobs' \in [JobId -> Row]
    BY <1>1, MarkKeeps DEF CancelJob, TypeOK, Table
  <2>2. retry' \in [Rule -> JobId \cup {0}] /\ cancelled' \subseteq JobId
    BY <1>1 DEF CancelJob, TypeOK
  <2> QED BY <1>1, <2>1, <2>2 DEF CancelJob, TypeOK, clock
<1>2. ASSUME NEW r \in Rule, TestRun(r) PROVE TypeOK'
  <2> DEFINE j == lastJob + 1
  <2>1. j \in JobId /\ j \in 0 .. MaxJobs
    BY <1>2, StoreAssumption DEF TestRun, TypeOK, JobId
  <2>2. EnqueueJob(jobs, j, r, "test", 0) \in Table
    BY <2>1, EnqueueJobKeeps DEF TypeOK, Table, JobSource
  <2>3. jobs' \in [JobId -> Row] /\ lastJob' \in 0 .. MaxJobs
    BY <1>2, <2>1, <2>2, MarkRunningKeeps DEF TestRun, Table
  <2>4. [NoTask EXCEPT !.pc = "running", !.fresh = TRUE] \in TaskState
    BY DEF NoTask, TaskState
  <2>5. task' \in [JobId -> TaskState] /\ cancelled' \subseteq JobId
    BY <1>2, <2>4 DEF TestRun, TypeOK
  <2>6. guard' \in [Rule -> GuardState]
    BY <1>2, GuardKeeps DEF TestRun, TypeOK
  <2> QED BY <1>2, <2>3, <2>5, <2>6 DEF TestRun, TypeOK, clock
<1>3. ASSUME NEW r \in Rule, UpdateRule(r) PROVE TypeOK'
  <2>1. PICK en \in BOOLEAN, copy \in Counters(r) :
          LET g == [guard EXCEPT ![r] = copy] IN
          \/ ReloadSchedule([cfg EXCEPT ![r].enabled = en], due, g)
          \/ /\ cfg[r].plan < MaxPlans
             /\ \E at \in {"future", "now", "past"} :
                  ReloadSchedule([cfg EXCEPT ![r] = [enabled |-> en, missed |-> FALSE,
                                                     plan |-> @.plan + 1]],
                                 [due EXCEPT ![r] = IF Kind[r] = "once" THEN at ELSE @],
                                 g)
    BY <1>3 DEF UpdateRule
  <2> DEFINE g == [guard EXCEPT ![r] = copy]
  <2>2. g \in [Rule -> GuardState]
    BY DEF Counters, TypeOK
  <2> HIDE DEF g
  <2>3. CASE ReloadSchedule([cfg EXCEPT ![r].enabled = en], due, g)
    <3>1. [cfg EXCEPT ![r].enabled = en] \in [Rule -> RuleConfig]
      BY DEF TypeOK, RuleConfig
    <3>2. due \in [Rule -> {"future", "now", "past"}]
      BY DEF TypeOK
    <3> QED BY <2>2, <2>3, <3>1, <3>2, ReloadType
  <2>4. ASSUME cfg[r].plan < MaxPlans, NEW at \in {"future", "now", "past"},
               ReloadSchedule([cfg EXCEPT ![r] = [enabled |-> en, missed |-> FALSE,
                                                  plan |-> @.plan + 1]],
                              [due EXCEPT ![r] = IF Kind[r] = "once" THEN at ELSE @],
                              g)
        PROVE  TypeOK'
    <3>1. [cfg EXCEPT ![r] = [enabled |-> en, missed |-> FALSE, plan |-> @.plan + 1]]
            \in [Rule -> RuleConfig]
      BY <2>4, SchedulerAssumption DEF TypeOK, RuleConfig
    <3>2. [due EXCEPT ![r] = IF Kind[r] = "once" THEN at ELSE @]
            \in [Rule -> {"future", "now", "past"}]
      BY DEF TypeOK
    <3> QED BY <2>2, <2>4, <3>1, <3>2, ReloadType
  <2> QED BY <2>1, <2>3, <2>4 DEF g
<1>4. ASSUME NEW r \in Rule, RescheduleOnce(r) PROVE TypeOK'
  <2>1. [cfg EXCEPT ![r] = [enabled |-> TRUE, missed |-> FALSE, plan |-> @.plan + 1]]
          \in [Rule -> RuleConfig]
    BY <1>4, SchedulerAssumption DEF RescheduleOnce, TypeOK, RuleConfig
  <2>2. [due EXCEPT ![r] = "future"] \in [Rule -> {"future", "now", "past"}]
    BY DEF TypeOK
  <2>3. guard \in [Rule -> GuardState]
    BY DEF TypeOK
  <2> QED BY <1>4, <2>1, <2>2, <2>3, ReloadType DEF RescheduleOnce
<1> QED BY <1>1, <1>2, <1>3, <1>4

(* The host: refresh, clock, cap, stop, restart, crash.                      *)
LEMMA TypeHostStep ==
  ASSUME TypeOK
  PROVE  /\ \A j \in JobId : ZombieEnds(j) => TypeOK'
         /\ \A r \in Rule : CooldownElapses(r) \/ Tick(r) => TypeOK'
         /\ SetMaxConcurrent \/ ClockBack => TypeOK'
         /\ RefreshTimers => TypeOK'
         /\ StopScheduler => TypeOK'
         /\ Restart => TypeOK'
         /\ \A j \in JobId : CrashInComplete(j) => TypeOK'
<1>1. ASSUME NEW j \in JobId, ZombieEnds(j) PROVE TypeOK'
  BY <1>1 DEF ZombieEnds, TypeOK, clock
<1>2. ASSUME NEW r \in Rule, CooldownElapses(r) PROVE TypeOK'
  <2>1. guard' \in [Rule -> GuardState]
    BY ZenonT(40), <1>2 DEF CooldownElapses, TypeOK, GuardState
  <2> QED BY <1>2, <2>1 DEF CooldownElapses, TypeOK, clock
<1>3. ASSUME NEW r \in Rule, Tick(r) PROVE TypeOK'
  BY <1>3 DEF Tick, TypeOK
<1>4. ASSUME SetMaxConcurrent PROVE TypeOK'
  BY <1>4 DEF SetMaxConcurrent, TypeOK, clock
<1>5. ASSUME ClockBack PROVE TypeOK'
  BY <1>5, SchedulerAssumption DEF ClockBack, TypeOK
<1>6. ASSUME RefreshTimers PROVE TypeOK'
  <2> DEFINE pendingOnce == {r \in Rule : /\ Kind[r] = "once"
                                          /\ \/ guard[r].running \/ retry[r] # 0
                                             \/ \E i \in DOMAIN slots.queue :
                                                  RuleOf(slots.queue[i]) = r}
             arm == {r \in Rule \ pendingOnce : Schedulable(cfg, due, FALSE, r)}
  <2>1. /\ armed' = arm
        /\ cfg' = MarkMissed(cfg, Rule, due, guard, arm, retry, slots.queue)
        /\ UNCHANGED <<jobs, lastJob, clock, guard, retry, task, slots, cap,
                       cancelled, zombies, alerts, stopping>>
    BY <1>6 DEF RefreshTimers
  <2>2. arm \subseteq Rule
    OBVIOUS
  <2> HIDE DEF arm
  <2>3. cfg' \in [Rule -> RuleConfig]
    BY <2>1, MarkMissedType DEF TypeOK
  <2> QED BY <2>1, <2>2, <2>3 DEF TypeOK, clock
<1>7. ASSUME StopScheduler PROVE TypeOK'
  <2> DEFINE parked == AbandonParked(jobs, retry)
  <2>1. parked \in Table
    BY AbandonParkedKeeps DEF TypeOK, Table
  <2>2. \A j \in JobId : MarkCancelled(parked, j) \in Table
    <3> HIDE DEF parked
    <3> QED BY <2>1, MarkKeeps
  <2>3. jobs' = [j \in JobId |-> IF j \in Active THEN MarkCancelled(parked, j)[j]
                                 ELSE parked[j]]
    BY <1>7 DEF StopScheduler
  <2>4. jobs' \in [JobId -> Row]
    <3> HIDE DEF parked
    <3> QED BY <2>1, <2>2, <2>3 DEF Table
  <2>5. task' \in [JobId -> TaskState]
    BY <1>7, InvalidatedType DEF StopScheduler, TypeOK
  <2>6. slots' \in [active: Nat, queue: Seq(JobId)]
    BY <1>7, EmptyQueueType DEF StopScheduler, TypeOK
  <2>7. cancelled' \subseteq JobId
    BY <1>7 DEF StopScheduler, TypeOK, Active
  <2> QED BY <1>7, <2>4, <2>5, <2>6, <2>7, NoRetriesType
          DEF StopScheduler, TypeOK, clock
<1>8. ASSUME Restart PROVE TypeOK'
  BY <1>8, StartType DEF Restart, TypeOK, Table
<1>9. ASSUME NEW j \in JobId, CrashInComplete(j) PROVE TypeOK'
  <2>1. PICK rows \in {jobs, CompletedRows(j)}, c \in {cfg, CompletedCfg(j)},
             g \in {guard, CompletedGuard(j)} :
          StartFrom(rows, c, g, alerts)
    BY <1>9 DEF CrashInComplete
  <2>2. /\ rows \in Table /\ c \in [Rule -> RuleConfig]
        /\ g \in [Rule -> GuardState]
        /\ alerts \in [JobId -> {"none", "done", "failed", "cancelled"}]
    BY CompletedType DEF TypeOK, Table
  <2> QED BY <2>1, <2>2, StartType
<1> QED BY <1>1, <1>2, <1>3, <1>4, <1>5, <1>6, <1>7, <1>8, <1>9

(* Every step of the engine preserves the type invariant.                    *)
LEMMA TypeNext == TypeOK /\ [Next]_vars => TypeOK'
<1> SUFFICES ASSUME TypeOK, [Next]_vars PROVE TypeOK'
  OBVIOUS
<1>1. CASE Next
  BY <1>1, TypeRunStep, TypeTriggerStep, TypeUserStep, TypeHostStep,
     SchedulerAssumption DEF Next
<1>2. CASE UNCHANGED vars
  BY <1>2 DEF vars, TypeOK
<1> QED BY <1>1, <1>2

(* The first start satisfies the type invariant.                             *)
LEMMA TypeInit == Init => TypeOK
<1> SUFFICES ASSUME Init PROVE TypeOK
  OBVIOUS
<1>1. jobs \in [JobId -> Row]
  BY NoRowType DEF Init
<1>2. cfg \in [Rule -> RuleConfig]
  BY SchedulerAssumption DEF Init, RuleConfig
<1>3. guard \in [Rule -> GuardState]
  BY GuardAssumption DEF Init, IdleGuard, GuardState
<1>4. task \in [JobId -> TaskState]
  BY NoTaskType DEF Init
<1>5. slots \in [active: Nat, queue: Seq(JobId)]
  <2>1. <<>> \in Seq(JobId)
    OBVIOUS
  <2> QED BY <2>1 DEF Init
<1>6. lastJob \in 0 .. MaxJobs /\ rollbacks \in 0 .. MaxRollbacks
  BY StoreAssumption, SchedulerAssumption DEF Init
<1> QED
  BY <1>1, <1>2, <1>3, <1>4, <1>5, <1>6, NoRetriesType DEF Init, TypeOK

(* Every reachable state of the engine is well formed, for every set of      *)
(* rules, caps, retry limits and bounds.                                     *)
THEOREM TypeCorrect == Spec => []TypeOK
  BY TypeInit, TypeNext, PTL DEF Spec
=============================================================================
