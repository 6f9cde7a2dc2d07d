------------------------- MODULE AutomationScheduler -------------------------
(***************************************************************************)
(* The automation engine: src/main/services/automation.ts over the job      *)
(* table (JobStore) and the per-rule guard (JobGuard), with the calls of    *)
(* ipc/automation.ts, automation-rules.ts and automation-reconcile.ts that  *)
(* drive it.                                                                *)
(*                                                                         *)
(* The code is one JavaScript thread, so an action of this module is the    *)
(* code between two awaits.  A call of runRule is a task, named by the row  *)
(* it works on; it is suspended at two awaits:                              *)
(*   "slot"      waiting in slotQueue;    "granted", "rejected": that       *)
(*               promise is settled and the continuation is still to run;   *)
(*   "running"   waiting for the action under withTimeout;  "settled": that *)
(*               promise is settled and the continuation is still to run.   *)
(***************************************************************************)
EXTENDS JobStore, JobGuard, Sequences

CONSTANTS
  Kind,          \* trigger type of each rule
  MaxRetries,    \* rule.maxRetries
  Caps,          \* the values maxConcurrentJobs is set to
  MaxPlans,      \* bound on the plan ids minted per rule
  MaxRollbacks,  \* bound on backward jumps of the wall clock
  Edited,        \* the rules the user edits in this instance
  Environment    \* what else the user and the host do in this instance

ASSUME SchedulerAssumption ==
  /\ Kind \in [Rule -> {"cron", "once", "event"}]
  /\ MaxRetries \in [Rule -> Nat]
  /\ Caps # {} /\ Caps \subseteq Nat \ {0}
  /\ MaxPlans \in Nat \ {0}
  /\ MaxRollbacks \in Nat
  /\ Edited \subseteq Rule
  /\ Environment \subseteq {"cancel", "test", "stop", "crash", "refresh", "stale"}

VARIABLES
  jobs,        \* the job table (durable)
  lastJob,     \* number of row ids handed out
  cfg,         \* the rules in config (durable): enabled, missedAt set?, planId
  due,         \* the clock against trigger.at of a once rule
  rollbacks,   \* backward clock jumps so far
  guard,       \* jobGuard; its counters are also persisted in the config
  armed,       \* timers: rules with an armed cron or once timer
  retry,       \* retryTimers/retryJobByRule: the parked row, 0 if none
  task,        \* the runRule/testRunRule call working on each row
  slots,       \* activeRuns and slotQueue
  cap,         \* maxConcurrent()
  cancelled,   \* cancelledJobIds
  zombies,     \* rows whose timed-out action has not returned yet
  alerts,      \* notifications by dedup key job:<id> (durable)
  stopping     \* stopScheduler was called

vars == <<jobs, lastJob, cfg, due, rollbacks, guard, armed, retry, task, slots,
          cap, cancelled, zombies, alerts, stopping>>

(* State no scheduler step but its own action touches. *)
clock == <<due, rollbacks>>

RuleConfig == [enabled: BOOLEAN, missed: BOOLEAN, plan: 1 .. MaxPlans]

TaskState == [pc: {"idle", "slot", "granted", "rejected", "running", "settled"},
              resume: BOOLEAN,    \* called with resumeJobId
              fresh: BOOLEAN,     \* generation = schedulerGeneration
              outcome: {"none", "ok", "fail", "failFinal", "timeout"}]

NoTask == [pc |-> "idle", resume |-> FALSE, fresh |-> FALSE, outcome |-> "none"]

Busy     == {j \in JobId : task[j].pc # "idle"}
Holding  == {j \in JobId : task[j].pc \in {"granted", "running", "settled"}
                           /\ jobs[j].source # "test"}
Active   == {j \in JobId : task[j].pc \in {"running", "settled"}}  \* activeJobIds
RuleOf(j) == jobs[j].rule

TypeOK ==
  /\ jobs \in [JobId -> Row]
  /\ lastJob \in 0 .. MaxJobs
  /\ cfg \in [Rule -> RuleConfig]
  /\ due \in [Rule -> {"future", "now", "past"}]
  /\ rollbacks \in 0 .. MaxRollbacks
  /\ guard \in [Rule -> GuardState]
  /\ armed \subseteq Rule
  /\ retry \in [Rule -> JobId \cup {0}]
  /\ task \in [JobId -> TaskState]
  /\ slots \in [active: Nat, queue: Seq(JobId)]
  /\ cap \in Caps
  /\ cancelled \subseteq JobId
  /\ zombies \subseteq JobId
  /\ alerts \in [JobId -> {"none", "done", "failed", "cancelled"}]
  /\ stopping \in BOOLEAN

-----------------------------------------------------------------------------
(* Arming timers and marking missed once rules.                              *)

(* scheduleRule: a once is armed unless marked missed or past due (at < now);*)
(* armNext refuses to arm a cron while stopping.                             *)
Schedulable(c, d, stop, r) ==
  /\ c[r].enabled
  /\ \/ Kind[r] = "once" /\ ~c[r].missed /\ d[r] # "past"
     \/ Kind[r] = "cron" /\ ~stop

(* Mutant: markMissedOnceRules does not ask whether the rule is running. *)
MarkMissedWhileRunning(c, rs, d, g, arm, ret, q) ==
  [r \in Rule |->
     IF /\ r \in rs /\ c[r].enabled /\ Kind[r] = "once" /\ d[r] # "future"
        /\ ret[r] = 0
        /\ \A i \in DOMAIN q : RuleOf(q[i]) # r
        /\ r \in arm => ~ShouldRun(g[r])
     THEN [c[r] EXCEPT !.missed = TRUE] ELSE c[r]]

(* markMissedOnceRules over the rules of rs: an enabled once that is due     *)
(* (at <= now) with no run, parked retry or queued slot, whose timer is gone *)
(* or whose fire the guard will refuse.                                      *)
MarkMissed(c, rs, d, g, arm, ret, q) ==
  [r \in Rule |->
     IF /\ r \in rs /\ c[r].enabled /\ Kind[r] = "once" /\ d[r] # "future"
        /\ ~g[r].running
        /\ ret[r] = 0
        /\ \A i \in DOMAIN q : RuleOf(q[i]) # r
        /\ r \in arm => ~ShouldRun(g[r])
     THEN [c[r] EXCEPT !.missed = TRUE] ELSE c[r]]

NoRetries == [r \in Rule |-> 0]

(* Mutant: clearRetry drops the timer and leaves its row parked. *)
AbandonParkedTimersOnly(rows, ret) == rows

(* clearAllRetries: every parked row is converged to failed. *)
AbandonParked(rows, ret) ==
  [j \in JobId |-> IF \E r \in Rule : ret[r] = j
                   THEN MarkRetryAbandoned(rows, j)[j] ELSE rows[j]]

(* generation++ and rejectQueuedRunSlots, as the waiting calls see them. *)
Invalidated ==
  [j \in JobId |-> [task[j] EXCEPT !.fresh = FALSE,
                                   !.pc = IF @ = "slot" THEN "rejected" ELSE @]]

(* Mutant: reloadSchedule keeps the parked retries. *)
ReloadScheduleKeepsRetries(c, d, g) ==
  LET arm == {r \in Rule : Schedulable(c, d, stopping, r)} IN
  /\ task' = Invalidated
  /\ slots' = [slots EXCEPT !.queue = <<>>]
  /\ armed' = arm
  /\ guard' = g
  /\ cfg' = MarkMissed(c, Rule, d, g, arm, retry, <<>>)
  /\ due' = d
  /\ UNCHANGED <<jobs, lastJob, rollbacks, retry, cap, cancelled, zombies,
                 alerts, stopping>>

(* reloadSchedule after the configuration became c, the deadlines d and the  *)
(* persisted counters, which hydrate reads back into the guard, those of g.  *)
(* The rejected calls still hold their guard locks here.                     *)
ReloadSchedule(c, d, g) ==
  LET arm == {r \in Rule : Schedulable(c, d, stopping, r)} IN
  /\ jobs' = AbandonParked(jobs, retry)
  /\ task' = Invalidated
  /\ slots' = [slots EXCEPT !.queue = <<>>]
  /\ retry' = NoRetries
  /\ armed' = arm
  /\ guard' = g
  /\ cfg' = MarkMissed(c, Rule, d, g, arm, NoRetries, <<>>)
  /\ due' = d
  /\ UNCHANGED <<lastJob, rollbacks, cap, cancelled, zombies, alerts, stopping>>

-----------------------------------------------------------------------------
(* Global run slots.                                                         *)

(* acquireRunSlot for a call that starts on row j. *)
AcquireRunSlot(j, resume) ==
  LET free == slots.active < cap IN
  /\ slots' = IF free THEN [slots EXCEPT !.active = @ + 1]
                      ELSE [slots EXCEPT !.queue = Append(@, j)]
  /\ task' = [task EXCEPT ![j] = [pc |-> IF free THEN "granted" ELSE "slot",
                                  resume |-> resume, fresh |-> TRUE,
                                  outcome |-> "none"]]

(* Mutant: the resolve of a queued call does not count its slot again. *)
ReleaseRunSlotUncounted(j) ==
  LET ended == [task EXCEPT ![j] = NoTask] IN
  /\ slots' = [active |-> slots.active - 1,
               queue  |-> IF slots.queue # <<>> THEN Tail(slots.queue) ELSE <<>>]
  /\ task' = IF slots.queue # <<>>
             THEN [ended EXCEPT ![Head(slots.queue)].pc = "granted"] ELSE ended

(* Mutant: a slot that is given back wakes nobody. *)
ReleaseRunSlotWakesNobody(j) ==
  /\ slots' = [slots EXCEPT !.active = IF @ > 0 THEN @ - 1 ELSE 0]
  /\ task' = [task EXCEPT ![j] = NoTask]

(* releaseRunSlot by the call that ends on row j: the slot goes to the head  *)
(* of the queue, whose resolve counts it again.                              *)
ReleaseRunSlot(j) ==
  LET ended == [task EXCEPT ![j] = NoTask] IN
  IF slots.queue # <<>> /\ ~stopping
  THEN /\ slots' = [slots EXCEPT !.queue = Tail(@)]
       /\ task' = [ended EXCEPT ![Head(slots.queue)].pc = "granted"]
  ELSE /\ slots' = [slots EXCEPT !.active = IF @ > 0 THEN @ - 1 ELSE 0]
       /\ task' = ended

-----------------------------------------------------------------------------
(* runRule up to the slot wait.                                              *)

(* A first attempt by a trigger of rule r, whose timers become arm. *)
RunRule(r, arm) ==
  /\ lastJob < MaxJobs
  /\ armed' = arm
  /\ lastJob' = lastJob + 1
  /\ LET j == lastJob + 1
         rows == EnqueueJob(jobs, j, r, Kind[r], cfg[r].plan)
     IN \/ /\ ~ShouldRun(guard[r])          \* refused: a durable skipped row
           /\ jobs' = MarkSkipped(rows, j)
           /\ cfg' = IF Kind[r] = "once" /\ RefusedForCooldown(guard[r])
                     THEN MarkMissed(cfg, {r}, due, guard, arm, retry, slots.queue)
                     ELSE cfg
           /\ UNCHANGED <<guard, task, slots>>
        \/ /\ ShouldRun(guard[r])
           /\ guard' = [guard EXCEPT ![r] = Begin(@)]
           /\ jobs' = rows
           /\ AcquireRunSlot(j, FALSE)
           /\ UNCHANGED cfg
  /\ UNCHANGED <<clock, retry, cap, cancelled, zombies, alerts, stopping>>

(* A cron timer fires, starts a run and re-arms itself if still runnable. *)
CronFire(r) ==
  /\ Kind[r] = "cron" /\ r \in armed /\ ~stopping
  /\ RunRule(r, IF cfg[r].enabled THEN armed ELSE armed \ {r})

(* A once timer fires at its deadline.  The callback gives up if the rule    *)
(* was disabled or its plan marked missed meanwhile.                         *)
OnceFire(r) ==
  /\ Kind[r] = "once" /\ r \in armed /\ due[r] # "future"
  /\ cfg[r].enabled /\ ~cfg[r].missed /\ ~stopping
  /\ RunRule(r, armed \ {r})

OnceDropped(r) ==
  /\ Kind[r] = "once" /\ r \in armed
  /\ ~cfg[r].enabled \/ cfg[r].missed \/ stopping
  /\ armed' = armed \ {r}
  /\ UNCHANGED <<jobs, lastJob, cfg, clock, guard, retry, task, slots, cap,
                 cancelled, zombies, alerts, stopping>>

(* handleEvent: the bus subscriptions exist until stopScheduler. *)
EventFire(r) ==
  /\ Kind[r] = "event" /\ cfg[r].enabled /\ ~stopping
  /\ RunRule(r, armed)

(* Mutant: a retry that is refused returns without ending its row. *)
RetryFireForgetsRow(r) ==
  LET j == retry[r] IN
  /\ j # 0
  /\ retry' = [retry EXCEPT ![r] = 0]
  /\ \/ /\ cfg[r].enabled /\ ~stopping /\ ShouldRun(guard[r])
        /\ guard' = [guard EXCEPT ![r] = Begin(@)]
        /\ AcquireRunSlot(j, TRUE)
     \/ /\ ~(cfg[r].enabled /\ ~stopping /\ ShouldRun(guard[r]))
        /\ UNCHANGED <<guard, task, slots>>
  /\ UNCHANGED <<jobs, lastJob, cfg, clock, armed, cap, cancelled, zombies,
                 alerts, stopping>>

(* The retry timer: resume the parked row, or converge it if nothing will.   *)
RetryFire(r) ==
  LET j == retry[r] IN
  /\ j # 0
  /\ retry' = [retry EXCEPT ![r] = 0]
  /\ \/ /\ cfg[r].enabled /\ ~stopping /\ ShouldRun(guard[r])
        /\ guard' = [guard EXCEPT ![r] = Begin(@)]
        /\ AcquireRunSlot(j, TRUE)
        /\ UNCHANGED jobs
     \/ /\ ~(cfg[r].enabled /\ ~stopping /\ ShouldRun(guard[r]))
        /\ jobs' = MarkRetryAbandoned(jobs, j)
        /\ UNCHANGED <<guard, task, slots>>
  /\ UNCHANGED <<lastJob, cfg, clock, armed, cap, cancelled, zombies, alerts,
                 stopping>>

-----------------------------------------------------------------------------
(* runRule after the slot wait.                                              *)

(* What becomes of a row whose call gives up before it was admitted. *)
Unstarted(j) ==
  IF task[j].resume THEN MarkRetryAbandoned(jobs, j) ELSE MarkCancelled(jobs, j)

(* Mutant: the lock is not released when the slot was never acquired. *)
SlotRejectedKeepsLock(j) ==
  /\ task[j].pc = "rejected"
  /\ jobs' = Unstarted(j)
  /\ task' = [task EXCEPT ![j] = NoTask]
  /\ UNCHANGED <<lastJob, cfg, clock, guard, armed, retry, slots, cap, cancelled,
                 zombies, alerts, stopping>>

(* Mutant: the finally block releases a slot although none was acquired. *)
SlotRejectedReleases(j) ==
  /\ task[j].pc = "rejected"
  /\ jobs' = Unstarted(j)
  /\ guard' = [guard EXCEPT ![RuleOf(j)] = Cancel(@)]
  /\ ReleaseRunSlot(j)
  /\ UNCHANGED <<lastJob, cfg, clock, armed, retry, cap, cancelled, zombies,
                 alerts, stopping>>

SlotRejected(j) ==
  /\ task[j].pc = "rejected"
  /\ jobs' = Unstarted(j)
  /\ guard' = [guard EXCEPT ![RuleOf(j)] = Cancel(@)]
  /\ task' = [task EXCEPT ![j] = NoTask]
  /\ UNCHANGED <<lastJob, cfg, clock, armed, retry, slots, cap, cancelled,
                 zombies, alerts, stopping>>

(* Mutant: a call does not compare its generation with the current one. *)
StillCurrentAnyGeneration(j) == ~stopping /\ cfg[RuleOf(j)].enabled

StillCurrent(j) == task[j].fresh /\ ~stopping /\ cfg[RuleOf(j)].enabled

(* The conditional UPDATE that is the permission to execute. *)
Admitted(j) ==
  /\ j \notin cancelled
  /\ jobs[j].status = (IF task[j].resume THEN "retry-waiting" ELSE "queued")

Admit(j) ==
  /\ task[j].pc = "granted" /\ StillCurrent(j) /\ Admitted(j)
  /\ jobs' = IF task[j].resume
             THEN MarkRunningAttempt(jobs, j, jobs[j].attempt + 1)
             ELSE MarkRunning(jobs, j)
  /\ task' = [task EXCEPT ![j].pc = "running"]
  /\ UNCHANGED <<lastJob, cfg, clock, guard, armed, retry, slots, cap,
                 cancelled, zombies, alerts, stopping>>

GiveUp(j) ==
  /\ task[j].pc = "granted" /\ ~(StillCurrent(j) /\ Admitted(j))
  /\ jobs' = Unstarted(j)
  /\ guard' = [guard EXCEPT ![RuleOf(j)] = Cancel(@)]
  /\ cancelled' = IF StillCurrent(j) THEN cancelled \ {j} ELSE cancelled
  /\ ReleaseRunSlot(j)
  /\ UNCHANGED <<lastJob, cfg, clock, armed, retry, cap, zombies, alerts,
                 stopping>>

-----------------------------------------------------------------------------
(* The action of an admitted run, and runRule after it.                      *)

(* Mutant: a timeout is an ordinary failure, without the onTimeout hook. *)
SettleTimeoutAsFailure(j) ==
  /\ task[j].pc = "running"
  /\ \E o \in {"ok", "fail", "failFinal", "timeout"} :
       /\ task' = [task EXCEPT ![j].pc = "settled",
                               ![j].outcome = IF o = "timeout" THEN "fail" ELSE o]
       /\ zombies' = IF o = "timeout" THEN zombies \cup {j} ELSE zombies
  /\ UNCHANGED <<jobs, lastJob, cfg, clock, guard, armed, retry, slots, cap,
                 cancelled, alerts, stopping>>

(* The promise of withTimeout settles.  After a timeout the action goes on   *)
(* until it observes the abort; a scheduled run is then flagged cancelled    *)
(* (onTimeout), a manual test run is not.                                    *)
Settle(j) ==
  /\ task[j].pc = "running"
  /\ \E o \in {"ok", "fail", "failFinal", "timeout"} :
       /\ task' = [task EXCEPT ![j].pc = "settled", ![j].outcome = o]
       /\ zombies' = IF o = "timeout" THEN zombies \cup {j} ELSE zombies
       /\ cancelled' = IF o = "timeout" /\ jobs[j].source # "test"
                       THEN cancelled \cup {j} ELSE cancelled
  /\ UNCHANGED <<jobs, lastJob, cfg, clock, guard, armed, retry, slots, cap,
                 alerts, stopping>>

ZombieEnds(j) ==
  /\ j \in zombies
  /\ zombies' = zombies \ {j}
  /\ UNCHANGED <<jobs, lastJob, cfg, clock, guard, armed, retry, task, slots,
                 cap, cancelled, alerts, stopping>>

(* Cancellation wins over an outcome that is already resolved. *)
WasCancelled(j) == j \in cancelled \/ stopping
Succeeded(j)    == task[j].outcome = "ok" /\ ~WasCancelled(j)

(* stillRunnable, and end.scheduleRetry. *)
StillRunnable(j) == ~WasCancelled(j) /\ StillCurrent(j)
Retrying(j) ==
  /\ ~WasCancelled(j) /\ task[j].outcome = "fail"
  /\ ScheduleRetry(guard[RuleOf(j)], jobs[j].attempt, MaxRetries[RuleOf(j)])
Parks(j) == Retrying(j) /\ StillRunnable(j)

CompletedRows(j) ==
  LET other == retry[RuleOf(j)] IN    \* clearRetry of an older execution
  IF WasCancelled(j) THEN MarkCancelled(jobs, j)
  ELSE IF Succeeded(j) THEN MarkDone(jobs, j)
  ELSE IF ~Parks(j) THEN MarkFailed(jobs, j)
  ELSE MarkRetryWaiting(IF other = 0 THEN jobs ELSE MarkRetryAbandoned(jobs, other),
                        j)

CompletedGuard(j) ==
  [guard EXCEPT ![RuleOf(j)] =
     IF WasCancelled(j) THEN Cancel(@) ELSE End(@, Succeeded(j))]

(* A once is consumed by an executed final attempt of the current schedule. *)
CompletedCfg(j) ==
  IF jobs[j].source = "once" /\ StillRunnable(j) /\ ~Parks(j)
  THEN [cfg EXCEPT ![RuleOf(j)].enabled = FALSE] ELSE cfg

(* Mutant: the alert reports what the action returned, not how the row ended. *)
CompletedAlertsByOutcome(j) ==
  IF Parks(j) \/ alerts[j] # "none" THEN alerts
  ELSE [alerts EXCEPT ![j] = IF task[j].outcome = "ok" THEN "done" ELSE "failed"]

(* notifyTerminal: INSERT OR IGNORE on the key of the execution. *)
CompletedAlerts(j) ==
  IF Parks(j) \/ alerts[j] # "none" THEN alerts
  ELSE [alerts EXCEPT ![j] = IF WasCancelled(j) THEN "cancelled"
                             ELSE IF Succeeded(j) THEN "done" ELSE "failed"]

Complete(j) ==
  /\ task[j].pc = "settled" /\ jobs[j].source # "test"
  /\ jobs' = CompletedRows(j)
  /\ guard' = CompletedGuard(j)
  /\ cfg' = CompletedCfg(j)
  /\ alerts' = CompletedAlerts(j)
  /\ retry' = IF Parks(j) THEN [retry EXCEPT ![RuleOf(j)] = j] ELSE retry
  /\ cancelled' = cancelled \ {j}
  /\ ReleaseRunSlot(j)
  /\ UNCHANGED <<lastJob, clock, armed, cap, zombies, stopping>>

-----------------------------------------------------------------------------
(* testRunRule: no slot, no retry, no alert; the guard is only a lock.       *)
TestRun(r) ==
  /\ ~stopping /\ ShouldRun(guard[r]) /\ lastJob < MaxJobs
  /\ LET j == lastJob + 1 IN
     /\ lastJob' = j
     /\ jobs' = MarkRunning(EnqueueJob(jobs, j, r, "test", 0), j)
     /\ task' = [task EXCEPT ![j] = [NoTask EXCEPT !.pc = "running", !.fresh = TRUE]]
     /\ cancelled' = cancelled \ {j}
  /\ guard' = [guard EXCEPT ![r] = Begin(@)]
  /\ UNCHANGED <<cfg, clock, armed, retry, slots, cap, zombies, alerts, stopping>>

TestComplete(j) ==
  /\ task[j].pc = "settled" /\ jobs[j].source = "test"
  /\ jobs' = IF WasCancelled(j) THEN MarkCancelled(jobs, j)
             ELSE IF Succeeded(j) THEN MarkDone(jobs, j) ELSE MarkFailed(jobs, j)
  /\ guard' = [guard EXCEPT ![RuleOf(j)] = Cancel(@)]
  /\ cancelled' = cancelled \ {j}
  /\ task' = [task EXCEPT ![j] = NoTask]
  /\ UNCHANGED <<lastJob, cfg, clock, armed, retry, slots, cap, zombies, alerts,
                 stopping>>

-----------------------------------------------------------------------------
(* The user, the clock and the host.                                         *)

(* automation:job-cancel: markCancelled, then cancelRunningJob if it matched.*)
(* clearRetry finds the row already cancelled and leaves it so.              *)
CancelJob(j) ==
  /\ jobs[j].status \in Pending
  /\ jobs' = MarkCancelled(jobs, j)
  /\ IF \E r \in Rule : retry[r] = j
     THEN /\ retry' = [r \in Rule |-> IF retry[r] = j THEN 0 ELSE retry[r]]
          /\ cancelled' = cancelled \ {j}
     ELSE /\ cancelled' = cancelled \cup {j}
          /\ UNCHANGED retry
  /\ UNCHANGED <<lastJob, cfg, clock, guard, armed, task, slots, cap, zombies,
                 alerts, stopping>>

(* updateAutomationRule then reloadSchedule: a rename or a toggle keeps the  *)
(* plan; a change of trigger or action mints a new one and drops the mark.   *)
(* The payload is the whole rule as the caller last saw it, so an old copy   *)
(* brings old counters, which hydrate makes current again.                   *)
Counters(r) ==
  IF "stale" \in Environment
  THEN {g \in GuardState : /\ g.running = guard[r].running
                           /\ g.cooling => guard[r].cooling}
  ELSE {guard[r]}

UpdateRule(r) ==
  \E en \in BOOLEAN, copy \in Counters(r) :
    LET g == [guard EXCEPT ![r] = copy] IN
    \/ ReloadSchedule([cfg EXCEPT ![r].enabled = en], due, g)
    \/ /\ cfg[r].plan < MaxPlans
       /\ \E at \in {"future", "now", "past"} :
            ReloadSchedule([cfg EXCEPT ![r] = [enabled |-> en, missed |-> FALSE,
                                               plan |-> @.plan + 1]],
                           [due EXCEPT ![r] = IF Kind[r] = "once" THEN at ELSE @],
                           g)

(* rescheduleOnceRule then reloadSchedule. *)
RescheduleOnce(r) ==
  /\ Kind[r] = "once" /\ cfg[r].plan < MaxPlans
  /\ ReloadSchedule([cfg EXCEPT ![r] = [enabled |-> TRUE, missed |-> FALSE,
                                        plan |-> @.plan + 1]],
                    [due EXCEPT ![r] = "future"], guard)

(* refreshScheduleTimers on resume, unlock or focus: deadlines only.         *)
RefreshTimers ==
  LET pendingOnce == {r \in Rule : /\ Kind[r] = "once"
                                   /\ \/ guard[r].running \/ retry[r] # 0
                                      \/ \E i \in DOMAIN slots.queue :
                                           RuleOf(slots.queue[i]) = r}
      arm == {r \in Rule \ pendingOnce : Schedulable(cfg, due, FALSE, r)}
  IN /\ ~stopping
     /\ armed' = arm
     /\ cfg' = MarkMissed(cfg, Rule, due, guard, arm, retry, slots.queue)
     /\ UNCHANGED <<jobs, lastJob, clock, guard, retry, task, slots, cap,
                    cancelled, zombies, alerts, stopping>>

SetMaxConcurrent ==
  /\ \E n \in Caps : n # cap /\ cap' = n
  /\ UNCHANGED <<jobs, lastJob, cfg, clock, guard, armed, retry, task, slots,
                 cancelled, zombies, alerts, stopping>>

CooldownElapses(r) ==
  /\ guard[r].cooling
  /\ guard' = [guard EXCEPT ![r].cooling = FALSE]
  /\ UNCHANGED <<jobs, lastJob, cfg, clock, armed, retry, task, slots, cap,
                 cancelled, zombies, alerts, stopping>>

Tick(r) ==
  /\ Kind[r] = "once" /\ due[r] # "past"
  /\ due' = [due EXCEPT ![r] = IF @ = "future" THEN "now" ELSE "past"]
  /\ UNCHANGED <<jobs, lastJob, cfg, rollbacks, guard, armed, retry, task,
                 slots, cap, cancelled, zombies, alerts, stopping>>

ClockBack ==
  /\ rollbacks < MaxRollbacks
  /\ rollbacks' = rollbacks + 1
  /\ due' = [r \in Rule |-> "future"]
  /\ UNCHANGED <<jobs, lastJob, cfg, guard, armed, retry, task, slots, cap,
                 cancelled, zombies, alerts, stopping>>

(* Mutant: stopScheduler leaves the active rows to their own completion. *)
StopSchedulerLeavesRows ==
  /\ ~stopping
  /\ stopping' = TRUE
  /\ jobs' = AbandonParked(jobs, retry)
  /\ task' = Invalidated
  /\ slots' = [slots EXCEPT !.queue = <<>>]
  /\ armed' = {}
  /\ retry' = NoRetries
  /\ cancelled' = cancelled \cup Active
  /\ UNCHANGED <<lastJob, cfg, clock, guard, cap, zombies, alerts>>

StopScheduler ==
  /\ ~stopping
  /\ stopping' = TRUE
  /\ jobs' = [j \in JobId |-> IF j \in Active
                              THEN MarkCancelled(AbandonParked(jobs, retry), j)[j]
                              ELSE AbandonParked(jobs, retry)[j]]
  /\ task' = Invalidated
  /\ slots' = [slots EXCEPT !.queue = <<>>]
  /\ armed' = {}
  /\ retry' = NoRetries
  /\ cancelled' = cancelled \cup Active
  /\ UNCHANGED <<lastJob, cfg, clock, guard, cap, zombies, alerts>>

(* The process dies and a new one starts from durable state: rows, rules,    *)
(* guard counters, alerts.  reconcileAutomationState runs before the         *)
(* scheduler; a run that provably committed on disk replays its row to done, *)
(* which its identity check allows for a first attempt only.                 *)
StartFrom(rows, c, g, al) ==
  LET idle == [r \in Rule |-> Cancel(g[r])]
      arm  == {r \in Rule : Schedulable(c, due, FALSE, r)}
      recovered == RecoverOrphanedRetryWaitingJobs(
                     RecoverOrphanedQueuedJobs(RecoverInterruptedJobs(rows)))
  IN /\ \E S \in SUBSET {j \in JobId : rows[j].status = "running"
                                       /\ rows[j].attempt = 0} :
          jobs' = PruneJobs(ReplayDone(recovered, S))
     /\ guard' = idle
     /\ armed' = arm
     /\ cfg' = MarkMissed(c, Rule, due, idle, arm, NoRetries, <<>>)
     /\ alerts' = al
     /\ retry' = NoRetries
     /\ task' = [j \in JobId |-> NoTask]
     /\ slots' = [active |-> 0, queue |-> <<>>]
     /\ cancelled' = {}
     /\ zombies' = {}
     /\ stopping' = FALSE
     /\ UNCHANGED <<lastJob, clock, cap>>

Restart == StartFrom(jobs, cfg, guard, alerts)

(* A crash inside Complete: its durable writes are made one by one and any   *)
(* prefix may survive.  The order is row, counters, consumption, alert; a    *)
(* row that is parked is written after the counters.                         *)
CrashInComplete(j) ==
  /\ task[j].pc = "settled" /\ jobs[j].source # "test"
  /\ \/ ~Parks(j) /\ StartFrom(CompletedRows(j), cfg, guard, alerts)
     \/ Parks(j) /\ StartFrom(jobs, cfg, CompletedGuard(j), alerts)
     \/ StartFrom(CompletedRows(j), cfg, CompletedGuard(j), alerts)
     \/ StartFrom(CompletedRows(j), CompletedCfg(j), CompletedGuard(j), alerts)

-----------------------------------------------------------------------------
(* A first start on a fresh profile: rules enabled, nothing has run.         *)
Init ==
  /\ jobs = [j \in JobId |-> NoRow]
  /\ lastJob = 0
  /\ cfg = [r \in Rule |-> [enabled |-> TRUE, missed |-> FALSE, plan |-> 1]]
  /\ due = [r \in Rule |-> "future"]
  /\ rollbacks = 0
  /\ guard = [r \in Rule |-> IdleGuard]
  /\ armed = {r \in Rule : Kind[r] # "event"}
  /\ retry = NoRetries
  /\ task = [j \in JobId |-> NoTask]
  /\ slots = [active |-> 0, queue |-> <<>>]
  /\ cap \in Caps
  /\ cancelled = {}
  /\ zombies = {}
  /\ alerts = [j \in JobId |-> "none"]
  /\ stopping = FALSE

RunStep(j) ==
  \/ SlotRejected(j) \/ Admit(j) \/ GiveUp(j)
  \/ Settle(j) \/ Complete(j) \/ TestComplete(j)

TriggerStep(r) ==
  CronFire(r) \/ OnceFire(r) \/ OnceDropped(r) \/ EventFire(r) \/ RetryFire(r)

Next ==
  \/ \E j \in JobId : RunStep(j) \/ ZombieEnds(j)
  \/ \E r \in Rule : TriggerStep(r) \/ CooldownElapses(r) \/ Tick(r)
  \/ SetMaxConcurrent \/ ClockBack
  \/ "cancel" \in Environment /\ \E j \in JobId : CancelJob(j)
  \/ "test" \in Environment /\ \E r \in Rule : TestRun(r)
  \/ \E r \in Edited : UpdateRule(r) \/ RescheduleOnce(r)
  \/ "refresh" \in Environment /\ RefreshTimers
  \/ "stop" \in Environment /\ StopScheduler
  \/ "crash" \in Environment /\ (Restart \/ \E j \in JobId : CrashInComplete(j))

Spec == Init /\ [][Next]_vars

(* The event loop runs every settled continuation, withTimeout settles every *)
(* run, and a retry timer fires.  Triggers, users and crashes owe nothing.   *)
Fairness ==
  /\ \A j \in JobId : WF_vars(RunStep(j))
  /\ \A r \in Rule : WF_vars(RetryFire(r))

FairSpec == Spec /\ Fairness
=============================================================================
