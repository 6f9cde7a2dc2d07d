------------------------- MODULE AutomationProperties -------------------------
(***************************************************************************)
(* What has to hold of AutomationScheduler.                                 *)
(***************************************************************************)
EXTENDS ScheduleState

(* The re-entry lock is exact: a rule's guard is locked if and only if one   *)
(* runRule or testRunRule call is alive for it, and there is only one.  A    *)
(* lock that outlives its call kills the rule; one released early lets two   *)
(* runs of the rule overlap (jobGuard.cancel/end on every exit of runRule).  *)
LockIsExact ==
  /\ \A r \in Rule : guard[r].running <=> \E j \in Busy : RuleOf(j) = r
  /\ \A i, j \in Busy : RuleOf(i) = RuleOf(j) => i = j

(* What LockIsExact rests on.  The calls work on existing rows of their own  *)
(* rules, which no prune may delete; the queue holds waiting calls, each     *)
(* once; a parked row has no call, so that its retry timer starts the only   *)
(* one.                                                                      *)
Alive(j) == jobs[j].status \notin {"none", "skipped"}

RowsInOrder == \A j \in Busy : j <= lastJob

BusyRowsExist == \A j \in Busy : RuleOf(j) \in Rule /\ Alive(j)

QueueWaits ==
  /\ \A i \in 1 .. Len(slots.queue) : task[slots.queue[i]].pc = "slot"
  /\ \A i, k \in 1 .. Len(slots.queue) :
       slots.queue[i] = slots.queue[k] => i = k

ParkedIsIdle ==
  \A r \in Rule : retry[r] # 0 =>
    /\ RuleOf(retry[r]) = r
    /\ Alive(retry[r]) /\ retry[r] <= lastJob
    /\ task[retry[r]].pc = "idle"

LockInv ==
  TypeOK /\ RowsInOrder /\ BusyRowsExist /\ QueueWaits /\ ParkedIsIdle /\ LockIsExact

(* The slot counter counts the calls that hold a slot, the queue holds each  *)
(* waiting call once, and no more calls run than the largest cap ever set    *)
(* (activeRuns and slotQueue across grant, hand-over, rejection and stop).   *)
SlotAccounting ==
  /\ slots.active = Cardinality(Holding)
  /\ {slots.queue[i] : i \in DOMAIN slots.queue} = {j \in JobId : task[j].pc = "slot"}
  /\ Len(slots.queue) = Cardinality({j \in JobId : task[j].pc = "slot"})
  /\ \E n \in Caps : Cardinality(Holding) <= n

(* No lost wake-up: while a call waits for a slot some call holds one, whose *)
(* release will hand it over.                                                *)
NoStrandedWaiter == slots.queue # <<>> => Holding # {}

(* No row is parked in a state nothing will end: a queued row has a call     *)
(* before admission, a running row a call after it, a retry-waiting row      *)
(* either the retry timer that resumes it or the call that is resuming it;   *)
(* and a retry timer always resumes a retry-waiting row of its own rule.     *)
PendingRowHasOwner ==
  /\ \A j \in JobId :
       LET waiting == task[j].pc \in {"slot", "granted", "rejected"} IN
       /\ jobs[j].status = "queued" => waiting /\ ~task[j].resume
       /\ jobs[j].status = "running" => j \in Active
       /\ jobs[j].status = "retry-waiting" =>
            (retry[RuleOf(j)] = j) # (waiting /\ task[j].resume)
  /\ \A r \in Rule : retry[r] # 0 =>
       /\ jobs[retry[r]].status = "retry-waiting"
       /\ RuleOf(retry[r]) = r
       /\ task[retry[r]].pc = "idle"

(* An alert tells the truth: the execution it reports is, and stays, in the  *)
(* status the alert names, and it was a plan execution, not a manual test    *)
(* (notifyTerminal against the guarded mark* updates it follows).            *)
AlertTruth ==
  \A j \in JobId : alerts[j] # "none" =>
    jobs[j].status \in {alerts[j], "none"} /\ jobs[j].source # "test"

(* A scheduled run that timed out is never parked for a retry or running     *)
(* again while its abandoned action is still going (the onTimeout hook).     *)
NoRetryOverZombie ==
  \A j \in zombies : jobs[j].source # "test" =>
    jobs[j].status # "retry-waiting" /\ task[j].pc # "running"

(* A retry is parked only for a rule that is enabled, as whatever disables a  *)
(* rule also drops its retry (reloadSchedule, consuming a once), and only    *)
(* while the execution has attempts left (jobGuard.end).                     *)
RetryIsAllowed ==
  \A r \in Rule : retry[r] # 0 =>
    cfg[r].enabled /\ jobs[retry[r]].attempt < MaxRetries[r]

(* After stopScheduler no row is running, no retry is parked and nobody      *)
(* waits for a slot, whatever was in flight when it was called.              *)
StopQuiesces ==
  stopping => /\ \A j \in JobId : jobs[j].status # "running"
              /\ retry = NoRetries
              /\ slots.queue = <<>>

(* A run that outlived a reload or a stop ends without parking a retry and   *)
(* without disabling the rule the user may just have edited.                 *)
StaleRunIsInert ==
  [][\A j \in JobId :
       task[j].pc = "settled" /\ ~task[j].fresh /\ task'[j].pc = "idle" =>
         /\ retry'[RuleOf(j)] \in {retry[RuleOf(j)], 0}
         /\ cfg'[RuleOf(j)].enabled = cfg[RuleOf(j)].enabled]_vars

(* A once plan marked missed has no work that could still execute it.        *)
MissedHasNoWork ==
  \A r \in Rule : cfg[r].missed =>
    \A j \in JobId :
      jobs[j].rule = r /\ jobs[j].source = "once" /\ jobs[j].plan = cfg[r].plan
        => jobs[j].status \notin Pending

(* "By then we know no pending execution exists": a card that shows a plan,  *)
(* a cooldown or a missed once hides no work of the rule, of an older plan   *)
(* or a manual test included; and a card that shows a retry shows the row    *)
(* the retry will resume (automation-state.ts over the engine's state).      *)
CardHidesNoWork ==
  \A r \in Rule :
    /\ Phase(r) \in {"cooldown", "scheduled-cron", "scheduled-once", "missed-once"} =>
         \A j \in JobId : jobs[j].rule = r => jobs[j].status \notin Pending
    /\ Phase(r) = "retry-waiting" => ActiveJob(r) = retry[r]

(* What these rest on, row by row.  A row handed out is known by its rule    *)
(* and source; one not handed out yet has left no trace.                     *)
RowKnown(j) ==
  /\ jobs[j].status = "none" => jobs[j] = NoRow
  /\ jobs[j].status # "none" =>
       RuleOf(j) \in Rule /\ jobs[j].source \in {"test", Kind[RuleOf(j)]}
  /\ j > lastJob =>
       jobs[j].status = "none" /\ alerts[j] = "none" /\ j \notin zombies

\* Who will end a pending row; a row whose action runs was ended by a cancel or not at all.
Waiting(j) == task[j].pc \in {"slot", "granted", "rejected"}
Parked(j)  == \E r \in Rule : retry[r] = j

RowOwned(j) ==
  /\ jobs[j].status = "queued" => Waiting(j) /\ ~task[j].resume
  /\ jobs[j].status = "running" => j \in Active
  /\ jobs[j].status = "retry-waiting" => (Parked(j) <=> ~(Waiting(j) /\ task[j].resume))
  /\ Parked(j) => jobs[j].status = "retry-waiting"
  /\ j \in Active =>
       jobs[j].status = "running" \/ (jobs[j].status = "cancelled" /\ WasCancelled(j))
  /\ Waiting(j) \/ Parked(j) => jobs[j].source # "test"

\* An alert is raised by the step that ends a row, and a timed-out action flags its run.
RowReported(j) ==
  /\ alerts[j] # "none" =>
       /\ task[j].pc = "idle"
       /\ jobs[j].status \in {alerts[j], "none"} /\ jobs[j].source # "test"
  /\ j \in zombies /\ jobs[j].source # "test" =>
       \/ task[j].pc = "idle" /\ jobs[j].status \notin Pending
       \/ task[j].pc = "settled" /\ j \in cancelled

\* A stop leaves nothing that could still start.
RowStopped(j) ==
  stopping => jobs[j].status # "running" /\ ~Parked(j) /\ task[j].pc # "slot"

RowsInv ==
  LockInv /\ \A j \in JobId : RowKnown(j) /\ RowOwned(j) /\ RowReported(j) /\ RowStopped(j)

(* And rule by rule.  A retry, and a run that may still park one, belong to  *)
(* the enabled rule and its current plan; a once plan has one of timer, run  *)
(* and retry.                                                                *)
CurrentRuns(r) == {j \in Busy : RuleOf(j) = r /\ jobs[j].source # "test" /\ task[j].fresh}

RetryIsCurrent(r) ==
  retry[r] # 0 => cfg[r].enabled /\ jobs[retry[r]].plan = cfg[r].plan

RunsAreCurrent(r) == \A j \in CurrentRuns(r) : jobs[j].plan = cfg[r].plan

OnceHasOneOwner(r) ==
  Kind[r] = "once" =>
    /\ r \in armed => retry[r] = 0 /\ CurrentRuns(r) = {}
    /\ retry[r] # 0 => \A j \in Busy : RuleOf(j) = r => jobs[j].source = "test"

RulesInv ==
  MissedHasNoWork
  /\ \A r \in Rule : RetryIsCurrent(r) /\ RunsAreCurrent(r) /\ OnceHasOneOwner(r)

(* No execution is attempted more often than its rule allows, whatever cuts   *)
(* its attempts short; the attempt is counted when a parked row is admitted. *)
RowAttempts(j) ==
  jobs[j].status # "none" =>
    /\ jobs[j].attempt <= MaxRetries[RuleOf(j)]
    /\ jobs[j].status = "retry-waiting" => jobs[j].attempt < MaxRetries[RuleOf(j)]

AttemptsBounded == \A j \in JobId : RowAttempts(j)

(* The engine implements the life cycle of logical executions.  A row that   *)
(* a restart converges may be pruned in the same recovery pass.              *)
Edges ==
  {<<"none", "queued">>, <<"none", "running">>, <<"none", "skipped">>,
   <<"queued", "running">>, <<"queued", "cancelled">>,
   <<"running", "retry-waiting">>, <<"running", "done">>,
   <<"running", "failed">>, <<"running", "cancelled">>,
   <<"retry-waiting", "running">>, <<"retry-waiting", "failed">>,
   <<"retry-waiting", "cancelled">>}
  \cup {<<s, "none">> : s \in JobStatus}

Lifecycle == INSTANCE ExecutionLifecycle WITH
  Execution <- JobId,
  Lifecycle <- Edges,
  status    <- [j \in JobId |-> jobs[j].status],
  rule      <- [j \in JobId |-> jobs[j].rule],
  alert     <- alerts

ImplementsLifecycle == Lifecycle!Spec

-----------------------------------------------------------------------------
(* Every logical execution ends: no row stays queued, running or parked.     *)
ExecutionsEnd ==
  \A j \in JobId : jobs[j].status \in Pending ~> jobs[j].status \notin Pending

(* Every rule gets its re-entry lock back, so a later trigger can run it.    *)
LocksReleased == \A r \in Rule : guard[r].running ~> ~guard[r].running

-----------------------------------------------------------------------------
(* Claims of comments and documents that the code does not keep.             *)

(* docs/m3: a once is marked missed when it is overdue and was not executed. *)
MissedMeansNotExecuted ==
  \A r \in Rule : cfg[r].missed =>
    ~\E j \in JobId : /\ jobs[j].rule = r /\ jobs[j].source = "once"
                      /\ jobs[j].plan = cfg[r].plan /\ jobs[j].status = "done"

(* index.ts: a live refresh recomputes deadlines and invalidates nothing, so *)
(* an enabled, unmarked once whose deadline is ahead and whose plan has not  *)
(* fired has a timer.                                                        *)
PlannedOnceIsArmed ==
  \A r \in Rule :
    /\ Kind[r] = "once" /\ cfg[r].enabled /\ ~cfg[r].missed
    /\ due[r] = "future" /\ ~stopping
    /\ \A j \in JobId : ~(jobs[j].rule = r /\ jobs[j].plan = cfg[r].plan)
    => r \in armed

(* automation-notify.ts: one alert per final logical execution.  A failed    *)
(* execution was executed, so it must have been alerted.                     *)
FailedExecutionAlerted ==
  \A j \in JobId :
    jobs[j].status = "failed" /\ jobs[j].error = "abandoned"
      => alerts[j] = "failed"
=============================================================================
