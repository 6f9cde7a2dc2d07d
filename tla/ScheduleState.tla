---------------------------- MODULE ScheduleState ----------------------------
(***************************************************************************)
(* What the card of a rule says (automation-state.ts): the pure classifier  *)
(* over the rule, its job rows and what the scheduler knows, which is how   *)
(* getScheduleStates composes it with the engine.                           *)
(***************************************************************************)
EXTENDS AutomationScheduler, FiniteSetsExt

(* getSchedulerLiveState; the guard lock is "executing". *)
Executing(r)      == guard[r].running
WaitingForSlot(r) == \E i \in DOMAIN slots.queue : RuleOf(slots.queue[i]) = r
RetryPending(r)   == retry[r] # 0

(* The rows of the rule's current plan; a manual test has no plan. *)
PlanJobs(r) == {j \in JobId : jobs[j].rule = r /\ jobs[j].plan = cfg[r].plan}

NewestOf(rows) == IF rows = {} THEN 0 ELSE Max(rows)
ActiveJob(r)    == NewestOf({j \in PlanJobs(r) : jobs[j].status \in Pending})
LastTerminal(r) == NewestOf({j \in PlanJobs(r) : jobs[j].status \notin Pending})

Consumed(r) ==
  Kind[r] = "once" /\ LastTerminal(r) # 0 /\ jobs[LastTerminal(r)].status = "done"

PastDue(r) == due[r] # "future"

(* Without pending work: steps 6 to 8. *)
IdlePhase(r) ==
  IF guard[r].cooling /\ ~(Kind[r] = "once" /\ (cfg[r].missed \/ PastDue(r))) THEN "cooldown"
  ELSE IF Kind[r] = "cron" THEN "scheduled-cron"
  ELSE IF cfg[r].missed THEN "missed-once"
  ELSE IF r \in armed \/ ~PastDue(r) THEN "scheduled-once"
  ELSE "missed-once"

(* Mutant: a once that is past due is missed before its work is looked for. *)
PhaseByDate(r) ==
  IF Kind[r] = "event" THEN "event-driven"
  ELSE IF ~cfg[r].enabled THEN (IF Consumed(r) THEN "disabled-after-success" ELSE "user-disabled")
  ELSE IF Kind[r] = "once" /\ PastDue(r) THEN "missed-once"
  ELSE IF WaitingForSlot(r) THEN "queued"
  ELSE IF Executing(r) THEN "running"
  ELSE IF RetryPending(r) THEN "retry-waiting"
  ELSE IdlePhase(r)

(* classifyRuleState: the first match wins, and pending work is claimed      *)
(* before any date is compared.  A cron expression is taken to be valid.     *)
Phase(r) ==
  IF Kind[r] = "event" THEN "event-driven"
  ELSE IF ~cfg[r].enabled THEN (IF Consumed(r) THEN "disabled-after-success" ELSE "user-disabled")
  ELSE IF WaitingForSlot(r) THEN "queued"
  ELSE IF Executing(r) THEN "running"
  ELSE IF RetryPending(r) THEN "retry-waiting"
  ELSE IdlePhase(r)
=============================================================================
