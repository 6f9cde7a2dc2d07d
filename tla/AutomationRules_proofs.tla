------------------------ MODULE AutomationRules_proofs ------------------------
(***************************************************************************)
(* On top of the rows, for every value of the constants: what a retry and a *)
(* once plan belong to (RulesInv), who holds and who awaits a run slot, and *)
(* how often an execution is attempted.                                     *)
(***************************************************************************)
EXTENDS AutomationRows_proofs, FiniteSetTheorems

(* Rule by rule *)

NoWork(r) == \A j \in JobId : jobs[j].rule = r => jobs[j].status \notin Pending

MissedFine(r) ==
  cfg[r].missed =>
    \A j \in JobId :
      jobs[j].rule = r /\ jobs[j].source = "once" /\ jobs[j].plan = cfg[r].plan
        => jobs[j].status \notin Pending

RuleFine(r) == MissedFine(r) /\ RetryIsCurrent(r) /\ RunsAreCurrent(r) /\ OnceHasOneOwner(r)

\* Without a call of its rule, the only pending row of a rule is the one its retry timer holds.
LEMMA PendingIsParked ==
  ASSUME RowsInv, NEW r \in Rule, ~guard[r].running,
         NEW j \in JobId, jobs[j].rule = r, jobs[j].status \in Pending
  PROVE  retry[r] = j /\ j # 0
  <1>1. LockInv /\ RowFine(j) /\ j # 0
    BY DEF RowsInv, RowFine, JobId
  <1>2. j \notin Busy
    BY <1>1 DEF LockInv, LockIsExact, RuleOf
  <1>3. ~Waiting(j) /\ j \notin Active
    BY <1>1, <1>2, RowTypes DEF Waiting, Busy
  <1>4. Parked(j)
    BY <1>1, <1>3 DEF RowFine, RowOwned, Pending
  <1> QED  BY <1>1, <1>4 DEF Parked, LockInv, ParkedIsIdle, RuleOf

IdleRulesRest == \A r \in Rule : ~guard[r].running /\ retry[r] = 0 => NoWork(r)

\* A rule without a call and without a retry has no pending row.
LEMMA IdleRule == RowsInv => IdleRulesRest
  BY PendingIsParked DEF IdleRulesRest, NoWork

\* A row leaves Pending for good, and no row but a fresh one becomes pending.
LEMMA NotReopened ==
  ASSUME NEW k \in JobId, LifeStep(k), jobs[k].status # "none", jobs'[k].status \in Pending
  PROVE  jobs[k].status \in Pending
  BY DEF LifeStep, Edges, Pending

\* A missed mark stays true of its plan unless a run of it starts or it is set on a rule at work.
LEMMA MissedStays ==
  ASSUME \A k \in JobId : RowMoves(k), NEW r \in Rule, MissedFine(r),
         \A k \in JobId : jobs[k].status = "none" /\ jobs'[k].rule = r /\ jobs'[k].source # "test"
                            => jobs'[k].status \notin Pending,
         cfg'[r].missed => NoWork(r)' \/ (cfg[r].missed /\ cfg'[r].plan = cfg[r].plan)
  PROVE  MissedFine(r)'
  <1> SUFFICES ASSUME cfg'[r].missed, cfg[r].missed /\ cfg'[r].plan = cfg[r].plan,
                      NEW j \in JobId, jobs'[j].rule = r, jobs'[j].source = "once",
                      jobs'[j].plan = cfg'[r].plan, jobs'[j].status \in Pending
               PROVE  FALSE
    BY DEF MissedFine, NoWork
  <1>1. RowMoves(j) /\ jobs[j].status # "none"
    OBVIOUS
  <1>2. jobs'[j].rule = jobs[j].rule /\ jobs'[j].source = jobs[j].source /\ jobs'[j].plan = jobs[j].plan
    BY <1>1 DEF RowMoves, SameRow, NoRow
  <1>3. jobs[j].status \in Pending
    BY <1>1, NotReopened DEF RowMoves
  <1> QED  BY <1>2, <1>3 DEF MissedFine

\* Who works for a rule after the step worked for it before.
LEMMA RunsComeFrom ==
  ASSUME RowsInv, LockInv', NEW k \in JobId, RowMoves(k), task[k].pc # "idle", task'[k].pc # "idle"
  PROVE  jobs'[k].rule = jobs[k].rule /\ jobs'[k].source = jobs[k].source /\ jobs'[k].plan = jobs[k].plan
  <1>1. jobs[k].status # "none" /\ jobs'[k].status # "none"
    BY DEF RowsInv, LockInv, BusyRowsExist, Alive, Busy
  <1> QED  BY <1>1 DEF RowMoves, SameRow, NoRow

\* A rule whose plan stays keeps what is known of it, if what it newly owns is of that plan.
LEMMA RuleStays ==
  ASSUME RowsInv, LockInv', \A k \in JobId : RowMoves(k), NEW r \in Rule, RuleFine(r),
         cfg'[r].plan = cfg[r].plan,
         \A k \in JobId : jobs[k].status = "none" /\ jobs'[k].rule = r /\ jobs'[k].source # "test"
                            => jobs'[k].status \notin Pending,
         \A k \in JobId : jobs'[k].rule = r /\ jobs'[k].source # "test" /\ task'[k].pc # "idle" =>
                            task[k].pc # "idle" /\ (task'[k].fresh => task[k].fresh),
         retry'[r] # 0 => retry'[r] = retry[r] /\ cfg'[r].enabled = cfg[r].enabled,
         cfg'[r].missed => NoWork(r)' \/ cfg[r].missed,
         r \in armed' => r \in armed \/ (retry'[r] = 0 /\ CurrentRuns(r)' = {})
  PROVE  RuleFine(r)'
  <1>1. MissedFine(r)'
    BY MissedStays DEF RuleFine
  <1>2. ASSUME NEW k \in JobId, task'[k].pc # "idle", jobs'[k].rule = r, jobs'[k].source # "test"
        PROVE  /\ k \in Busy /\ RuleOf(k) = r /\ jobs[k].source # "test"
               /\ jobs[k].plan = jobs'[k].plan /\ (task'[k].fresh => task[k].fresh)
    <2>1. RowMoves(k) /\ task[k].pc # "idle" /\ (task'[k].fresh => task[k].fresh)
      BY <1>2
    <2>2. jobs'[k].rule = jobs[k].rule /\ jobs'[k].source = jobs[k].source /\ jobs'[k].plan = jobs[k].plan
      BY <1>2, <2>1, RunsComeFrom
    <2> QED  BY <1>2, <2>1, <2>2 DEF Busy, RuleOf
  <1>3. \A k \in JobId : k \in CurrentRuns(r)' => k \in CurrentRuns(r) /\ jobs'[k].plan = jobs[k].plan
    BY <1>2 DEF CurrentRuns, Busy, RuleOf
  <1>4. RetryIsCurrent(r)'
    <2> SUFFICES ASSUME retry'[r] # 0
                 PROVE  cfg'[r].enabled /\ jobs'[retry'[r]].plan = cfg'[r].plan
      BY DEF RetryIsCurrent
    <2>1. PICK k \in JobId : k = retry[r] /\ k = retry'[r]
      BY RowTypes DEF RowsInv
    <2>2. cfg[r].enabled /\ jobs[k].plan = cfg[r].plan
      BY <2>1 DEF RuleFine, RetryIsCurrent
    <2>3. jobs'[k].status # "none" /\ jobs[k].status # "none"
      BY <2>1 DEF RowsInv, LockInv, ParkedIsIdle, Alive
    <2>4. jobs'[k].plan = jobs[k].plan
      BY <2>3 DEF RowMoves, SameRow, NoRow
    <2> QED  BY <2>1, <2>2, <2>4
  <1>5. RunsAreCurrent(r)'
    BY <1>3 DEF RuleFine, RunsAreCurrent, CurrentRuns, Busy
  <1>6. OnceHasOneOwner(r)'
    <2> SUFFICES ASSUME Kind[r] = "once"
                 PROVE  /\ r \in armed' => retry'[r] = 0 /\ CurrentRuns(r)' = {}
                        /\ retry'[r] # 0 => \A j \in Busy' : RuleOf(j)' = r => jobs'[j].source = "test"
      BY DEF OnceHasOneOwner
    <2>1. /\ r \in armed => retry[r] = 0 /\ CurrentRuns(r) = {}
          /\ retry[r] # 0 => \A j \in Busy : RuleOf(j) = r => jobs[j].source = "test"
      BY DEF RuleFine, OnceHasOneOwner
    <2>2. r \in armed' => retry'[r] = 0 /\ CurrentRuns(r)' = {}
      <3>1. CurrentRuns(r) = {} => CurrentRuns(r)' = {}
        BY <1>3 DEF CurrentRuns, Busy
      <3> QED  BY <2>1, <3>1
    <2>3. retry'[r] # 0 => \A j \in Busy' : RuleOf(j)' = r => jobs'[j].source = "test"
      BY <1>2, <2>1 DEF Busy, RuleOf
    <2> QED  BY <2>2, <2>3
  <1> QED  BY <1>1, <1>4, <1>5, <1>6 DEF RuleFine

\* So does one all of whose runs are made stale and whose retry is dropped.
LEMMA RuleCleared ==
  ASSUME RowsInv, \A k \in JobId : RowMoves(k), NEW r \in Rule, RuleFine(r),
         \A k \in JobId : jobs[k].status = "none" => jobs'[k].status \notin Pending,
         cfg'[r].missed => NoWork(r)' \/ (cfg[r].missed /\ cfg'[r].plan = cfg[r].plan),
         retry'[r] = 0, \A k \in JobId : ~task'[k].fresh
  PROVE  RuleFine(r)'
  <1>1. MissedFine(r)'
    BY MissedStays DEF RuleFine
  <1>2. CurrentRuns(r)' = {}
    BY DEF CurrentRuns, Busy
  <1> QED  BY <1>1, <1>2 DEF RuleFine, RetryIsCurrent, RunsAreCurrent, OnceHasOneOwner

\* A step that begins no row and no call.
Quiet ==
  \A k \in JobId :
    /\ jobs[k].status = "none" => jobs'[k].status = "none"
    /\ task'[k].pc # "idle" => task[k].pc # "idle" /\ (task'[k].fresh => task[k].fresh)

\* No step that starts no run, parks no retry and arms no timer disturbs a rule it does not configure.
LEMMA QuietKeeps ==
  ASSUME RowsInv, LockInv', \A k \in JobId : RowMoves(k), NEW r \in Rule, RuleFine(r), Quiet,
         cfg'[r] = cfg[r], retry'[r] \in {retry[r], 0}, armed' \subseteq armed
  PROVE  RuleFine(r)'
  <1>1. \A k \in JobId : /\ jobs[k].status = "none" => jobs'[k].status \notin Pending
                         /\ task'[k].pc # "idle" => task[k].pc # "idle" /\ (task'[k].fresh => task[k].fresh)
    BY DEF Quiet, Pending
  <1> QED  BY <1>1, RuleStays

\* A step that creates no row and no call is such a step.
LEMMA SameIsQuiet ==
  ASSUME SameExecutions(jobs, jobs'),
         \A k \in JobId : task'[k].pc # "idle" => task[k].pc # "idle" /\ (task'[k].fresh => task[k].fresh)
  PROVE  Quiet
  BY DEF SameExecutions, Quiet

\* The steps of a call that runs are quiet.
LEMMA QuietRunStep ==
  ASSUME LockInv, NEW j \in JobId, RunStep(j)
  PROVE  Quiet
  <1>1. TypeOK /\ jobs \in Table /\ task \in [JobId -> TaskState]
    BY RowTypes DEF LockInv
  <1>2. /\ SameExecutions(jobs, Unstarted(j)) /\ SameExecutions(jobs, CompletedRows(j))
        /\ SameExecutions(jobs, jobs)
    BY <1>1, UnstartedKeeps, CompletedType DEF SameExecutions
  <1>3. CASE SlotRejected(j)
    <2>1. /\ jobs' = Unstarted(j) /\ task' = [task EXCEPT ![j] = NoTask]
      BY <1>3 DEF SlotRejected
    <2> QED  BY <1>1, <1>2, <2>1, SameIsQuiet DEF NoTask
  <1>4. CASE GiveUp(j) \/ Complete(j)
    <2>1. /\ task[j].pc \in {"granted", "settled"} /\ ReleaseRunSlot(j)
          /\ jobs' = Unstarted(j) \/ jobs' = CompletedRows(j)
      BY <1>4 DEF GiveUp, Complete
    <2>2. /\ task'[j] = NoTask
          /\ \A k \in JobId \ {j} :
               task'[k] = task[k] \/ (task[k].pc = "slot" /\ task'[k] = [task[k] EXCEPT !.pc = "granted"])
      BY <2>1, ReleaseMoves DEF Busy
    <2>3. \A k \in JobId : task'[k].pc # "idle" => task[k].pc # "idle" /\ (task'[k].fresh => task[k].fresh)
      <3> SUFFICES ASSUME NEW k \in JobId, task'[k].pc # "idle"
                   PROVE  task[k].pc # "idle" /\ (task'[k].fresh => task[k].fresh)
        OBVIOUS
      <3>1. k # j /\ task[k] \in TaskState
        BY <1>1, <2>2 DEF NoTask
      <3>2. task'[k] = task[k] \/ (task[k].pc = "slot" /\ task'[k] = [task[k] EXCEPT !.pc = "granted"])
        BY <2>2, <3>1
      <3> QED  BY <3>1, <3>2 DEF TaskState
    <2> QED  BY <1>2, <2>1, <2>3, SameIsQuiet
  <1>5. CASE Admit(j)
    <2>1. /\ task' = [task EXCEPT ![j].pc = "running"] /\ task[j].pc = "granted"
      BY <1>5 DEF Admit
    <2>2. jobs[j].attempt + 1 \in Nat
      BY <1>1 DEF Table, Row
    <2>3. SameExecutions(jobs, jobs')
      BY <1>1, <1>5, <2>2, MarkRunningKeeps, MarkRunningAttemptKeeps DEF Admit
    <2>4. \A k \in JobId : task'[k].pc # "idle" => task[k].pc # "idle" /\ (task'[k].fresh => task[k].fresh)
      BY <1>1, <2>1 DEF TaskState
    <2> QED  BY <2>3, <2>4, SameIsQuiet
  <1>6. CASE Settle(j)
    <2> DEFINE mid == [task EXCEPT ![j].pc = "settled"]
    <2>1. /\ task[j].pc = "running" /\ jobs' = jobs
          /\ \E o : task' = [mid EXCEPT ![j].outcome = o]
      BY <1>6 DEF Settle
    <2>2. /\ mid \in [JobId -> TaskState] /\ mid[j].fresh = task[j].fresh
          /\ \A k \in JobId \ {j} : mid[k] = task[k]
      BY <1>1 DEF TaskState
    <2> HIDE DEF mid
    <2>3. task'[j].fresh = task[j].fresh /\ \A k \in JobId \ {j} : task'[k] = task[k]
      BY <2>1, <2>2 DEF TaskState
    <2>4. \A k \in JobId : task'[k].pc # "idle" => task[k].pc # "idle" /\ (task'[k].fresh => task[k].fresh)
      BY <2>1, <2>3
    <2> QED  BY <1>2, <2>1, <2>4, SameIsQuiet
  <1>7. CASE TestComplete(j)
    <2>1. /\ task' = [task EXCEPT ![j] = NoTask]
          /\ jobs' \in {MarkCancelled(jobs, j), MarkDone(jobs, j), MarkFailed(jobs, j)}
      BY <1>7 DEF TestComplete
    <2>2. SameExecutions(jobs, jobs')
      BY <1>1, <2>1, MarkKeeps
    <2> QED  BY <1>1, <2>1, <2>2, SameIsQuiet DEF NoTask
  <1> QED  BY <1>3, <1>4, <1>5, <1>6, <1>7 DEF RunStep

\* A completion: its rule is consumed or gets the retry of its current plan, or nothing changes.
LEMMA RulesComplete ==
  ASSUME RowsInv, LockInv', \A k \in JobId : RowMoves(k), \A r \in Rule : RuleFine(r),
         NEW j \in JobId, Complete(j)
  PROVE  \A r \in Rule : RuleFine(r)'
  <1>0. PICK s \in Rule : s = RuleOf(j)
    BY DEF RowsInv, LockInv, BusyRowsExist, Complete, Busy
  <1>1. /\ LockInv /\ RowFine(j) /\ j \in Busy /\ s \in Rule /\ jobs[j].source # "test"
        /\ jobs[j].status # "none" /\ task[j].pc = "settled"
    BY <1>0 DEF RowsInv, RowFine, LockInv, BusyRowsExist, Complete, Busy, Alive
  <1>2. jobs[j].source = Kind[s]
    BY <1>0, <1>1 DEF RowFine, RowKnown
  <1>3. Quiet
    BY <1>1, QuietRunStep DEF RunStep
  <1>4. /\ cfg' = CompletedCfg(j) /\ cfg \in [Rule -> RuleConfig] /\ armed' = armed
        /\ retry' = (IF Parks(j) THEN [retry EXCEPT ![s] = j] ELSE retry)
        /\ retry \in [Rule -> JobId \cup {0}]
    BY <1>0, <1>1 DEF Complete, LockInv, TypeOK
  <1>5. /\ cfg'[s].plan = cfg[s].plan /\ cfg'[s].missed = cfg[s].missed
        /\ cfg'[s].enabled # cfg[s].enabled => Kind[s] = "once"
        /\ Parks(j) => cfg'[s] = cfg[s]
        /\ \A r \in Rule \ {s} : cfg'[r] = cfg[r] /\ retry'[r] = retry[r]
    BY <1>0, <1>1, <1>2, <1>4 DEF CompletedCfg, RuleConfig
  <1>6. task'[j] = NoTask
    BY <1>1, ReleaseMoves DEF Complete
  <1>7. ASSUME NEW r \in Rule, r # s PROVE RuleFine(r)'
    BY <1>3, <1>4, <1>5, <1>7, QuietKeeps
  <1>8. CASE ~Parks(j)
    <2>1. retry'[s] # 0 => retry'[s] = retry[s] /\ cfg'[s].enabled = cfg[s].enabled
      BY <1>0, <1>1, <1>4, <1>5, <1>8 DEF RuleFine, OnceHasOneOwner
    <2>2. \A k \in JobId : /\ jobs[k].status = "none" => jobs'[k].status \notin Pending
                           /\ task'[k].pc # "idle" => task[k].pc # "idle" /\ (task'[k].fresh => task[k].fresh)
      BY <1>3 DEF Quiet, Pending
    <2>3. RuleFine(s) /\ (cfg'[s].missed => cfg[s].missed) /\ (s \in armed' => s \in armed)
      BY <1>1, <1>4, <1>5
    <2>4. RuleFine(s)'
      BY <1>1, <1>5, <2>1, <2>2, <2>3, RuleStays
    <2> QED  BY <1>7, <2>4
  <1>9. CASE Parks(j)
    <2>1. /\ cfg[s].enabled /\ j \in CurrentRuns(s)
      BY <1>0, <1>1, <1>9 DEF Parks, StillRunnable, StillCurrent, CurrentRuns
    <2>2. jobs[j].plan = cfg[s].plan /\ (Kind[s] = "once" => s \notin armed)
      BY <1>1, <2>1 DEF RuleFine, RunsAreCurrent, OnceHasOneOwner
    <2>3. RowMoves(j) /\ retry'[s] = j /\ j # 0
      BY <1>1, <1>4, <1>9 DEF JobId
    <2>4. jobs'[j].plan = jobs[j].plan
      <3>1. jobs'[j].status # "none"
        BY <1>1, <2>3 DEF LockInv, ParkedIsIdle, Alive
      <3> QED  BY <1>1, <2>3, <3>1 DEF RowMoves, SameRow, NoRow
    <2>5. ASSUME NEW k \in JobId, task'[k].pc # "idle" PROVE jobs'[k].rule # s
      <3>1. task[k].pc # "idle" /\ RowMoves(k) /\ k # j
        BY <1>3, <1>6, <2>5 DEF Quiet, NoTask
      <3>2. jobs'[k].rule = jobs[k].rule
        BY <2>5, <3>1, RunsComeFrom
      <3> QED  BY <1>0, <1>1, <3>1, <3>2 DEF Busy, LockInv, LockIsExact, RuleOf
    <2>6. MissedFine(s)'
      <3>1. \A k \in JobId : jobs[k].status = "none" => jobs'[k].status \notin Pending
        BY <1>3 DEF Quiet, Pending
      <3>2. MissedFine(s) /\ cfg'[s] = cfg[s]
        BY <1>1, <1>5, <1>9 DEF RuleFine
      <3> QED  BY <1>1, <3>1, <3>2, MissedStays
    <2>7. RetryIsCurrent(s)' /\ RunsAreCurrent(s)' /\ OnceHasOneOwner(s)'
      BY <1>4, <1>5, <1>9, <2>1, <2>2, <2>3, <2>4, <2>5
         DEF RetryIsCurrent, RunsAreCurrent, OnceHasOneOwner, CurrentRuns, Busy, RuleOf
    <2> QED  BY <1>7, <2>6, <2>7 DEF RuleFine
  <1> QED  BY <1>8, <1>9

\* markMissedOnceRules marks a rule that has no call and no retry, and changes nothing else.
LEMMA MarkMissedActs ==
  ASSUME NEW c \in [Rule -> RuleConfig], NEW rs, NEW d, NEW g, NEW arm, NEW ret, NEW q,
         NEW r \in Rule
  PROVE  LET new == MarkMissed(c, rs, d, g, arm, ret, q) IN
         /\ new[r].plan = c[r].plan /\ new[r].enabled = c[r].enabled
         /\ \/ new[r] = c[r]
            \/ r \in rs /\ ~g[r].running /\ ret[r] = 0
  <1> DEFINE cond(s) ==
               /\ s \in rs /\ c[s].enabled /\ Kind[s] = "once" /\ d[s] # "future"
               /\ ~g[s].running
               /\ ret[s] = 0
               /\ \A i \in DOMAIN q : RuleOf(q[i]) # s
               /\ s \in arm => ~ShouldRun(g[s])
             new == MarkMissed(c, rs, d, g, arm, ret, q)
  <1>1. new[r] = IF cond(r) THEN [c[r] EXCEPT !.missed = TRUE] ELSE c[r]
    BY DEF MarkMissed
  <1>2. cond(r) => r \in rs /\ ~g[r].running /\ ret[r] = 0
    OBVIOUS
  <1>3. [c[r] EXCEPT !.missed = TRUE].plan = c[r].plan /\ [c[r] EXCEPT !.missed = TRUE].enabled = c[r].enabled
    BY DEF RuleConfig
  <1> HIDE DEF cond, new
  <1>4. /\ new[r].plan = c[r].plan /\ new[r].enabled = c[r].enabled
        /\ new[r] = c[r] \/ (r \in rs /\ ~g[r].running /\ ret[r] = 0)
    BY <1>1, <1>2, <1>3
  <1> QED  BY <1>4 DEF new

\* The same of the next state.
LEMMA IdleAfter ==
  ASSUME RowsInv'
  PROVE  \A r \in Rule : ~guard'[r].running /\ retry'[r] = 0 => NoWork(r)'
  <1>1. IdleRulesRest'
    BY IdleRule, PTL
  <1> QED  BY <1>1 DEF IdleRulesRest

\* A trigger starts a run of the current plan; a once timer is spent by it.
LEMMA RulesRunRule ==
  ASSUME RowsInv, RowsInv', \A k \in JobId : RowMoves(k), \A s \in Rule : RuleFine(s),
         NEW r \in Rule, NEW arm, RunRule(r, arm), arm \subseteq armed,
         Kind[r] = "once" => r \in armed /\ r \notin arm /\ ~cfg[r].missed
  PROVE  \A s \in Rule : RuleFine(s)'
  <1>1. lastJob < MaxJobs /\ LockInv /\ LockInv'
    BY DEF RunRule, RowsInv
  <1>2. PICK j \in JobId : j = lastJob + 1
    BY <1>1, FreshRow
  <1>3. /\ jobs[j] = NoRow /\ task[j].pc = "idle" /\ jobs \in Table /\ cfg \in [Rule -> RuleConfig]
        /\ task \in [JobId -> TaskState]
    BY <1>1, <1>2, FreshRow, RowTypes DEF LockInv, TypeOK
  <1> DEFINE rows == EnqueueJob(jobs, j, r, Kind[r], cfg[r].plan)
  <1>4. Kind[r] \in JobSource /\ cfg[r].plan \in Nat /\ Kind[r] # "test"
    BY <1>3, SchedulerAssumption DEF JobSource, RuleConfig
  <1>5. /\ rows \in Table /\ rows[j].rule = r /\ rows[j].source = Kind[r] /\ rows[j].status = "queued"
        /\ rows[j].plan = cfg[r].plan
        /\ \A k \in JobId \ {j} : rows[k] = jobs[k]
    BY <1>3, <1>4, EnqueueJobKeeps DEF EnqueueJob, Table
  <1>6. /\ armed' = arm /\ retry' = retry
        /\ \/ /\ jobs' = MarkSkipped(rows, j) /\ task' = task /\ guard' = guard
              /\ cfg' \in {cfg, MarkMissed(cfg, {r}, due, guard, arm, retry, slots.queue)}
           \/ /\ jobs' = rows /\ AcquireRunSlot(j, FALSE) /\ cfg' = cfg
    BY <1>2 DEF RunRule
  <1> HIDE DEF rows
  <1>7. CASE /\ jobs' = MarkSkipped(rows, j) /\ task' = task /\ guard' = guard
             /\ cfg' \in {cfg, MarkMissed(cfg, {r}, due, guard, arm, retry, slots.queue)}
    <2> SUFFICES ASSUME NEW s \in Rule PROVE RuleFine(s)'
      OBVIOUS
    <2>1. /\ cfg'[s].plan = cfg[s].plan /\ cfg'[s].enabled = cfg[s].enabled
          /\ cfg'[s] = cfg[s] \/ (~guard[s].running /\ retry[s] = 0)
      BY <1>3, <1>7, MarkMissedActs
    <2>2. cfg'[s].missed => NoWork(s)' \/ cfg[s].missed
      BY <1>6, <1>7, <2>1, IdleAfter
    <2>3. \A k \in JobId : jobs[k].status = "none" => jobs'[k].status \notin Pending
      <3> DEFINE mid == [rows EXCEPT ![j].status = "skipped"]
      <3>1. mid \in Table /\ mid[j].status = "skipped" /\ \A k \in JobId \ {j} : mid[k] = jobs[k]
        BY <1>5 DEF Table, Row, JobStatus, Terminal
      <3>2. jobs' = PruneByStatus(mid, "skipped", KeepSkipped)
        BY <1>7 DEF MarkSkipped
      <3> HIDE DEF mid
      <3>3. \A k \in JobId : jobs'[k] = mid[k] \/ jobs'[k] = NoRow
        BY <3>1, <3>2, PruneByStatusKeeps
      <3> QED  BY <3>1, <3>3 DEF NoRow, Pending
    <2>4. /\ \A k \in JobId : task'[k] = task[k]
          /\ retry'[s] = retry[s] /\ (s \in armed' => s \in armed) /\ RuleFine(s)
      BY <1>6, <1>7
    <2> QED  BY <1>1, <2>1, <2>2, <2>3, <2>4, RuleStays
  <1>8. CASE jobs' = rows /\ AcquireRunSlot(j, FALSE) /\ cfg' = cfg
    <2>1. /\ task'[j].pc # "idle" /\ \A k \in JobId \ {j} : task'[k] = task[k]
      BY <1>1, <1>8, AcquireActs
    <2>2. \A k \in JobId \ {j} : jobs'[k] = jobs[k]
      BY <1>5, <1>8
    <2>3. ASSUME NEW s \in Rule, s # r PROVE RuleFine(s)'
      <3>1. /\ \A k \in JobId : jobs[k].status = "none" /\ jobs'[k].rule = s
                                   => jobs'[k].status \notin Pending
            /\ \A k \in JobId : jobs'[k].rule = s /\ task'[k].pc # "idle" =>
                                  task[k].pc # "idle" /\ (task'[k].fresh => task[k].fresh)
        BY <1>5, <1>8, <2>1, <2>2, <2>3 DEF Pending
      <3>2. cfg'[s] = cfg[s] /\ retry'[s] = retry[s] /\ (s \in armed' => s \in armed) /\ RuleFine(s)
        BY <1>6, <1>8
      <3> QED  BY <1>1, <3>1, <3>2, RuleStays
    <2>4. RuleFine(r) /\ armed' = arm
      BY <1>6
    <2>5. MissedFine(r)'
      <3> SUFFICES ASSUME cfg'[r].missed, NEW k \in JobId, jobs'[k].rule = r, jobs'[k].source = "once",
                          jobs'[k].plan = cfg'[r].plan
                   PROVE  jobs'[k].status \notin Pending
        BY DEF MissedFine
      <3>1. k # j
        BY <1>5, <1>8
      <3> QED  BY <1>8, <2>2, <2>4, <3>1 DEF RuleFine, MissedFine
    <2>6. retry' = retry /\ cfg' = cfg
      BY <1>6, <1>8
    <2>7. RetryIsCurrent(r)'
      <3> SUFFICES ASSUME retry[r] # 0 PROVE cfg[r].enabled /\ jobs'[retry[r]].plan = cfg[r].plan
        BY <2>6 DEF RetryIsCurrent
      <3>1. retry[r] \in JobId /\ retry[r] # j
        BY <1>1, <1>2, NextRowUnused, RowTypes
      <3> QED  BY <2>2, <2>4, <3>1 DEF RuleFine, RetryIsCurrent
    <2>8. RunsAreCurrent(r)'
      <3> SUFFICES ASSUME NEW k \in JobId, task'[k].pc # "idle", jobs'[k].rule = r,
                          jobs'[k].source # "test", task'[k].fresh
                   PROVE  jobs'[k].plan = cfg'[r].plan
        BY DEF RunsAreCurrent, CurrentRuns, Busy, RuleOf
      <3>1. CASE k = j
        BY <1>5, <1>8, <3>1
      <3>2. CASE k # j
        <4>1. k \in CurrentRuns(r)
          BY <2>1, <2>2, <3>2 DEF CurrentRuns, Busy, RuleOf
        <4> QED  BY <2>2, <2>4, <2>6, <3>2, <4>1 DEF RuleFine, RunsAreCurrent
      <3> QED  BY <3>1, <3>2
    <2>9. OnceHasOneOwner(r)'
      <3> SUFFICES ASSUME Kind[r] = "once" PROVE r \notin armed' /\ retry'[r] = 0
        BY DEF OnceHasOneOwner
      <3> QED  BY <2>4, <2>6 DEF RuleFine, OnceHasOneOwner
    <2> QED  BY <2>3, <2>5, <2>7, <2>8, <2>9 DEF RuleFine
  <1> QED  BY <1>6, <1>7, <1>8

\* A manual test owns no plan.
LEMMA RulesTestRun ==
  ASSUME RowsInv, LockInv', \A k \in JobId : RowMoves(k), \A s \in Rule : RuleFine(s),
         NEW r \in Rule, TestRun(r)
  PROVE  \A s \in Rule : RuleFine(s)'
  <1>1. lastJob < MaxJobs
    BY DEF TestRun
  <1>2. PICK j \in JobId : j = lastJob + 1
    BY <1>1, FreshRow
  <1>3. jobs \in Table /\ task \in [JobId -> TaskState]
    BY RowTypes DEF RowsInv
  <1>4. /\ jobs' = MarkRunning(EnqueueJob(jobs, j, r, "test", 0), j)
        /\ task' = [task EXCEPT ![j] = [NoTask EXCEPT !.pc = "running", !.fresh = TRUE]]
        /\ UNCHANGED <<cfg, armed, retry>>
    BY <1>2 DEF TestRun
  <1> DEFINE rows == EnqueueJob(jobs, j, r, "test", 0)
  <1>5. /\ rows \in Table /\ rows[j].source = "test" /\ \A k \in JobId \ {j} : rows[k] = jobs[k]
    BY <1>3, EnqueueJobKeeps DEF JobSource
  <1>6. jobs' = MarkRunning(rows, j)
    BY <1>4
  <1> HIDE DEF rows
  <1>7. jobs'[j].source = "test" /\ \A k \in JobId \ {j} : jobs'[k] = jobs[k] /\ task'[k] = task[k]
    BY <1>3, <1>4, <1>5, <1>6, AdmissionActs DEF RowTo
  <1> SUFFICES ASSUME NEW s \in Rule PROVE RuleFine(s)'
    OBVIOUS
  <1>8. /\ \A k \in JobId : jobs[k].status = "none" /\ jobs'[k].rule = s /\ jobs'[k].source # "test"
                              => jobs'[k].status \notin Pending
        /\ \A k \in JobId : jobs'[k].source # "test" /\ task'[k].pc # "idle" =>
                              task[k].pc # "idle" /\ (task'[k].fresh => task[k].fresh)
    BY <1>7 DEF Pending
  <1>9. RuleFine(s) /\ cfg'[s] = cfg[s] /\ retry'[s] = retry[s] /\ (s \in armed' => s \in armed)
    BY <1>4
  <1> QED  BY <1>8, <1>9, RuleStays

\* The timer is spent: its run is one of the current plan.
LEMMA RulesRetryFire ==
  ASSUME RowsInv, LockInv', \A k \in JobId : RowMoves(k), \A s \in Rule : RuleFine(s),
         NEW r \in Rule, RetryFire(r)
  PROVE  \A s \in Rule : RuleFine(s)'
  <1>1. /\ LockInv /\ jobs \in Table /\ task \in [JobId -> TaskState] /\ retry \in [Rule -> JobId \cup {0}]
    BY RowTypes DEF RowsInv
  <1>2. PICK j \in JobId : j = retry[r]
    BY <1>1 DEF RetryFire
  <1>3. /\ retry' = [retry EXCEPT ![r] = 0] /\ UNCHANGED <<cfg, armed>> /\ j # 0
        /\ RuleOf(j) = r /\ jobs[j].plan = cfg[r].plan
        /\ Kind[r] = "once" => r \notin armed
    BY <1>1, <1>2 DEF RetryFire, LockInv, ParkedIsIdle, RuleFine, RetryIsCurrent, OnceHasOneOwner, JobId
  <1>4. CASE jobs' = MarkRetryAbandoned(jobs, j) /\ task' = task
    <2>1. Quiet
      BY <1>1, <1>4, MarkKeeps, SameIsQuiet
    <2> SUFFICES ASSUME NEW s \in Rule PROVE RuleFine(s)'
      OBVIOUS
    <2>2. RuleFine(s) /\ cfg'[s] = cfg[s] /\ retry'[s] \in {retry[s], 0} /\ armed' \subseteq armed
      BY <1>1, <1>3
    <2> QED  BY <2>1, <2>2, QuietKeeps
  <1>5. CASE jobs' = jobs /\ AcquireRunSlot(j, TRUE)
    <2>1. \A k \in JobId \ {j} : task'[k] = task[k]
      BY <1>1, <1>5, AcquireActs
    <2>2. ASSUME NEW s \in Rule, s # r PROVE RuleFine(s)'
      <3>1. /\ \A k \in JobId : jobs[k].status = "none" => jobs'[k].status \notin Pending
            /\ \A k \in JobId : jobs'[k].rule = s /\ task'[k].pc # "idle" =>
                                  task[k].pc # "idle" /\ (task'[k].fresh => task[k].fresh)
        BY <1>3, <1>5, <2>1, <2>2 DEF Pending, RuleOf
      <3>2. cfg'[s] = cfg[s] /\ retry'[s] = retry[s] /\ (s \in armed' => s \in armed) /\ RuleFine(s)
        BY <1>1, <1>3, <2>2
      <3> QED  BY <3>1, <3>2, RuleStays
    <2>3. RuleFine(r) /\ retry'[r] = 0
      BY <1>1, <1>3
    <2>4. MissedFine(r)'
      BY <1>3, <1>5, <2>3 DEF RuleFine, MissedFine
    <2>5. RunsAreCurrent(r)'
      <3> SUFFICES ASSUME NEW k \in JobId, task'[k].pc # "idle", jobs'[k].rule = r,
                          jobs'[k].source # "test", task'[k].fresh
                   PROVE  jobs'[k].plan = cfg'[r].plan
        BY DEF RunsAreCurrent, CurrentRuns, Busy, RuleOf
      <3>1. CASE k = j
        BY <1>3, <1>5, <3>1
      <3>2. CASE k # j
        <4>1. k \in CurrentRuns(r)
          BY <1>5, <2>1, <3>2 DEF CurrentRuns, Busy, RuleOf
        <4> QED  BY <1>3, <1>5, <2>3, <4>1 DEF RuleFine, RunsAreCurrent
      <3> QED  BY <3>1, <3>2
    <2>6. RetryIsCurrent(r)' /\ OnceHasOneOwner(r)'
      BY <1>3, <2>3 DEF RetryIsCurrent, OnceHasOneOwner
    <2> QED  BY <2>2, <2>4, <2>5, <2>6 DEF RuleFine
  <1> QED  BY <1>2, <1>4, <1>5 DEF RetryFire

\* A new generation makes every call stale.
LEMMA InvalidatedActs ==
  ASSUME LockInv, task' = Invalidated
  PROVE  \A k \in JobId : ~task'[k].fresh
  BY RowTypes DEF Invalidated, TaskState

\* Whatever the user edited, a reload drops the retries and the claims of the runs.
LEMMA RulesReload ==
  ASSUME RowsInv, RowsInv', \A k \in JobId : RowMoves(k), \A s \in Rule : RuleFine(s),
         NEW c \in [Rule -> RuleConfig], NEW d, NEW g, ReloadSchedule(c, d, g),
         \A s \in Rule : c[s].missed => cfg[s].missed /\ c[s].plan = cfg[s].plan
  PROVE  \A s \in Rule : RuleFine(s)'
  <1> SUFFICES ASSUME NEW s \in Rule PROVE RuleFine(s)'
    OBVIOUS
  <1>1. LockInv /\ jobs \in Table
    BY RowTypes DEF RowsInv
  <1>2. /\ jobs' = AbandonParked(jobs, retry) /\ task' = Invalidated /\ retry' = NoRetries /\ guard' = g
        /\ \E arm : cfg' = MarkMissed(c, Rule, d, g, arm, NoRetries, <<>>)
    BY DEF ReloadSchedule
  <1>3. \A k \in JobId : jobs[k].status = "none" => jobs'[k].status \notin Pending
    BY <1>1, <1>2, AbandonParkedKeeps DEF SameExecutions, Pending
  <1>4. retry'[s] = 0 /\ \A k \in JobId : ~task'[k].fresh
    BY <1>1, <1>2, InvalidatedActs DEF NoRetries
  <1>5. cfg'[s] = c[s] \/ ~g[s].running
    BY <1>2, MarkMissedActs
  <1>6. cfg'[s].missed => NoWork(s)' \/ (cfg[s].missed /\ cfg'[s].plan = cfg[s].plan)
    BY <1>2, <1>4, <1>5, IdleAfter
  <1> QED  BY <1>3, <1>4, <1>6, RuleCleared

\* After an edit no call is current and no retry is parked, whether or not it mints a plan.
LEMMA RulesEdit ==
  ASSUME RowsInv, RowsInv', \A k \in JobId : RowMoves(k), \A s \in Rule : RuleFine(s),
         NEW r \in Rule, UpdateRule(r) \/ RescheduleOnce(r)
  PROVE  \A s \in Rule : RuleFine(s)'
  <1>1. cfg \in [Rule -> RuleConfig]
    BY DEF RowsInv, LockInv, TypeOK
  <1>2. CASE UpdateRule(r)
    <2>1. PICK en \in BOOLEAN, copy \in Counters(r) :
            LET g == [guard EXCEPT ![r] = copy] IN
            \/ ReloadSchedule([cfg EXCEPT ![r].enabled = en], due, g)
            \/ /\ cfg[r].plan < MaxPlans
               /\ \E d : ReloadSchedule([cfg EXCEPT ![r] = [enabled |-> en, missed |-> FALSE,
                                                            plan |-> @.plan + 1]], d, g)
      BY <1>2 DEF UpdateRule
    <2>2. CASE \E d, g : ReloadSchedule([cfg EXCEPT ![r].enabled = en], d, g)
      <3> DEFINE c == [cfg EXCEPT ![r].enabled = en]
      <3>1. c \in [Rule -> RuleConfig] /\ \A s \in Rule : c[s].missed => cfg[s].missed /\ c[s].plan = cfg[s].plan
        BY <1>1 DEF RuleConfig
      <3> HIDE DEF c
      <3>2. PICK d, g : ReloadSchedule(c, d, g)
        BY <2>2 DEF c
      <3> QED  BY <3>1, <3>2, RulesReload
    <2>3. CASE /\ cfg[r].plan < MaxPlans
               /\ \E d, g : ReloadSchedule([cfg EXCEPT ![r] = [enabled |-> en, missed |-> FALSE,
                                                               plan |-> @.plan + 1]], d, g)
      <3> DEFINE c == [cfg EXCEPT ![r] = [enabled |-> en, missed |-> FALSE, plan |-> @.plan + 1]]
      <3>1. c \in [Rule -> RuleConfig] /\ \A s \in Rule : c[s].missed => cfg[s].missed /\ c[s].plan = cfg[s].plan
        BY <1>1, <2>3, SchedulerAssumption DEF RuleConfig
      <3> HIDE DEF c
      <3>2. PICK d, g : ReloadSchedule(c, d, g)
        BY <2>3 DEF c
      <3> QED  BY <3>1, <3>2, RulesReload
    <2> QED  BY <2>1, <2>2, <2>3
  <1>3. CASE RescheduleOnce(r)
    <2> DEFINE c == [cfg EXCEPT ![r] = [enabled |-> TRUE, missed |-> FALSE, plan |-> @.plan + 1]]
    <2>1. c \in [Rule -> RuleConfig] /\ \A s \in Rule : c[s].missed => cfg[s].missed /\ c[s].plan = cfg[s].plan
      BY <1>1, <1>3, SchedulerAssumption DEF RuleConfig, RescheduleOnce
    <2>2. ReloadSchedule(c, [due EXCEPT ![r] = "future"], guard)
      BY <1>3 DEF RescheduleOnce
    <2> HIDE DEF c
    <2> QED  BY <2>1, <2>2, RulesReload
  <1> QED  BY <1>2, <1>3

\* A live refresh arms only what has no run and no retry.
LEMMA RulesRefresh ==
  ASSUME RowsInv, RowsInv', \A k \in JobId : RowMoves(k), \A s \in Rule : RuleFine(s), RefreshTimers
  PROVE  \A s \in Rule : RuleFine(s)'
  <1> SUFFICES ASSUME NEW s \in Rule PROVE RuleFine(s)'
    OBVIOUS
  <1>1. /\ UNCHANGED <<jobs, task, retry, guard>> /\ cfg \in [Rule -> RuleConfig]
        /\ \E arm : cfg' = MarkMissed(cfg, Rule, due, guard, arm, retry, slots.queue)
        /\ LockInv /\ LockInv'
    BY DEF RefreshTimers, RowsInv, LockInv, TypeOK
  <1>2. /\ cfg'[s].plan = cfg[s].plan /\ cfg'[s].enabled = cfg[s].enabled
        /\ cfg'[s] = cfg[s] \/ (~guard[s].running /\ retry[s] = 0)
    BY <1>1, MarkMissedActs
  <1>3. cfg'[s].missed => NoWork(s)' \/ cfg[s].missed
    BY <1>1, <1>2, IdleAfter
  <1>4. /\ \A k \in JobId : jobs[k].status = "none" => jobs'[k].status \notin Pending
        /\ \A k \in JobId : task'[k].pc # "idle" => task[k].pc # "idle" /\ (task'[k].fresh => task[k].fresh)
        /\ retry'[s] = retry[s] /\ RuleFine(s)
    BY <1>1 DEF Pending
  <1>5. CASE Kind[s] = "once"
    <2>1. s \in armed' => ~guard[s].running /\ retry[s] = 0
      BY <1>5 DEF RefreshTimers
    <2>2. s \in armed' => retry'[s] = 0 /\ CurrentRuns(s)' = {}
      BY <1>1, <2>1 DEF LockInv, LockIsExact, CurrentRuns, Busy, RuleOf
    <2> QED  BY <1>1, <1>2, <1>3, <1>4, <2>2, RuleStays
  <1>6. CASE Kind[s] # "once"
    <2>1. MissedFine(s)'
      BY <1>2, <1>3, <1>4, MissedStays DEF RuleFine
    <2>2. RetryIsCurrent(s)'
      BY <1>1, <1>2, <1>4 DEF RuleFine, RetryIsCurrent
    <2>3. RunsAreCurrent(s)'
      BY <1>1, <1>2, <1>4 DEF RuleFine, RunsAreCurrent, CurrentRuns, Busy, RuleOf
    <2> QED  BY <1>6, <2>1, <2>2, <2>3 DEF RuleFine, OnceHasOneOwner
  <1> QED  BY <1>5, <1>6

\* A stop leaves neither timers nor retries.
LEMMA RulesStopScheduler ==
  ASSUME RowsInv, RowsInv', \A k \in JobId : RowMoves(k), \A s \in Rule : RuleFine(s), StopScheduler
  PROVE  \A s \in Rule : RuleFine(s)'
  <1> SUFFICES ASSUME NEW s \in Rule PROVE RuleFine(s)'
    OBVIOUS
  <1> DEFINE parked == AbandonParked(jobs, retry)
  <1>1. /\ jobs' = [j \in JobId |-> IF j \in Active THEN MarkCancelled(parked, j)[j] ELSE parked[j]]
        /\ task' = Invalidated /\ retry' = NoRetries /\ cfg' = cfg /\ LockInv
    BY DEF StopScheduler, RowsInv
  <1>2. parked \in Table /\ SameExecutions(jobs, parked)
    BY <1>1, AbandonParkedKeeps, RowTypes
  <1> HIDE DEF parked
  <1>3. \A k \in JobId : jobs[k].status = "none" => jobs'[k].status = "none"
    BY <1>1, <1>2, MarkKeeps DEF SameExecutions
  <1>4. /\ \A k \in JobId : jobs[k].status = "none" => jobs'[k].status \notin Pending
        /\ retry'[s] = 0 /\ (\A k \in JobId : ~task'[k].fresh) /\ RuleFine(s)
    BY <1>1, <1>3, InvalidatedActs DEF NoRetries, Pending
  <1> QED  BY <1>1, <1>4, RuleCleared

\* A new process has no run and no retry, and no row that waits for one.
LEMMA RulesStart ==
  ASSUME RowsInv', NEW rows, NEW c, NEW g \in [Rule -> GuardState], NEW al, StartFrom(rows, c, g, al)
  PROVE  \A s \in Rule : RuleFine(s)'
  <1> SUFFICES ASSUME NEW s \in Rule PROVE RuleFine(s)'
    OBVIOUS
  <1>1. retry'[s] = 0 /\ ~guard'[s].running /\ \A k \in JobId : task'[k] = NoTask
    BY DEF StartFrom, NoRetries, Cancel, GuardState
  <1>2. NoWork(s)'
    BY <1>1, IdleAfter
  <1> QED  BY <1>1, <1>2 DEF RuleFine, NoWork, MissedFine, RetryIsCurrent, RunsAreCurrent,
                             OnceHasOneOwner, CurrentRuns, Busy, NoTask

\* Every step keeps what is known of every rule.
LEMMA RulesNext ==
  ASSUME RowsInv, [Next]_vars, \A s \in Rule : RuleFine(s)
  PROVE  \A s \in Rule : RuleFine(s)'
  <1> DEFINE Goal == \A s \in Rule : RuleFine(s)'
  <1>1. RowsInv' /\ LockInv /\ LockInv' /\ \A k \in JobId : RowMoves(k)
    BY RowsNext, RowsStep DEF RowsInv
  <1>2. ASSUME Quiet, \A s \in Rule : cfg'[s] = cfg[s] /\ retry'[s] \in {retry[s], 0},
               armed' \subseteq armed
        PROVE  Goal
    BY <1>1, <1>2, QuietKeeps
  <1>3. ASSUME NEW j \in JobId, RunStep(j) PROVE Goal
    <2>1. CASE Complete(j)
      BY <1>1, <2>1, RulesComplete
    <2>2. CASE ~Complete(j)
      <3>1. UNCHANGED <<cfg, retry, armed>>
        BY <1>3, <2>2 DEF RunStep, SlotRejected, Admit, GiveUp, Settle, TestComplete
      <3>2. Quiet
        BY <1>1, <1>3, QuietRunStep
      <3>3. \A s \in Rule : cfg'[s] = cfg[s] /\ retry'[s] \in {retry[s], 0}
        BY <3>1
      <3> QED  BY <1>2, <3>1, <3>2, <3>3
    <2> QED  BY <2>1, <2>2
  <1>4. ASSUME NEW r \in Rule, TriggerStep(r) PROVE Goal
    <2>1. CASE OnceDropped(r)
      <3>1. UNCHANGED <<jobs, task, cfg, retry>> /\ armed' \subseteq armed
        BY <2>1 DEF OnceDropped
      <3>2. Quiet
        BY <3>1 DEF Quiet
      <3> QED  BY <1>2, <3>1, <3>2
    <2>2. CASE CronFire(r) \/ OnceFire(r) \/ EventFire(r)
      <3>1. PICK arm \in SUBSET armed :
              /\ RunRule(r, arm)
              /\ Kind[r] = "once" => r \in armed /\ r \notin arm /\ ~cfg[r].missed
        BY <2>2 DEF CronFire, OnceFire, EventFire
      <3> QED  BY <1>1, <3>1, RulesRunRule
    <2>3. CASE RetryFire(r)
      BY <1>1, <2>3, RulesRetryFire
    <2> QED  BY <1>4, <2>1, <2>2, <2>3 DEF TriggerStep
  <1>5. ASSUME \/ SetMaxConcurrent \/ ClockBack \/ UNCHANGED vars
               \/ \E j \in JobId : ZombieEnds(j)
               \/ \E r \in Rule : CooldownElapses(r) \/ Tick(r)
        PROVE  Goal
    <2>1. UNCHANGED <<jobs, task, cfg, retry, armed>>
      BY <1>5 DEF SetMaxConcurrent, ClockBack, vars, ZombieEnds, CooldownElapses, Tick
    <2>2. Quiet
      BY <2>1 DEF Quiet
    <2> QED  BY <1>2, <2>1, <2>2
  <1>6. ASSUME NEW j \in JobId, CancelJob(j) PROVE Goal
    <2>1. UNCHANGED <<task, cfg, armed>> /\ \A s \in Rule : retry'[s] \in {retry[s], 0}
      BY <1>6 DEF CancelJob
    <2>2. SameExecutions(jobs, jobs')
      BY <1>1, <1>6, MarkKeeps, RowTypes DEF CancelJob
    <2>3. Quiet
      BY <2>1, <2>2, SameIsQuiet
    <2> QED  BY <1>2, <2>1, <2>3
  <1>7. ASSUME NEW r \in Rule, UpdateRule(r) \/ RescheduleOnce(r) PROVE Goal
    BY <1>1, <1>7, RulesEdit
  <1>8. ASSUME NEW r \in Rule, TestRun(r) PROVE Goal
    BY <1>1, <1>8, RulesTestRun
  <1>9. ASSUME RefreshTimers \/ StopScheduler PROVE Goal
    BY <1>1, <1>9, RulesRefresh, RulesStopScheduler
  <1>10. ASSUME Restart \/ \E j \in JobId : CrashInComplete(j) PROVE Goal
    <2>1. guard \in [Rule -> GuardState] /\ \A j \in JobId : CompletedGuard(j) \in [Rule -> GuardState]
      BY <1>1, CompletedType DEF LockInv, TypeOK
    <2>2. PICK g \in [Rule -> GuardState] : \E rows, c, al : StartFrom(rows, c, g, al)
      BY <1>10, <2>1 DEF Restart, CrashInComplete
    <2> QED  BY <1>1, <2>2, RulesStart
  <1>11. CASE \E j \in JobId : RunStep(j) \/ ZombieEnds(j) \/ CancelJob(j) \/ CrashInComplete(j)
    BY <1>3, <1>5, <1>6, <1>10, <1>11
  <1>12. CASE \E r \in Rule : TriggerStep(r) \/ CooldownElapses(r) \/ Tick(r) \/ TestRun(r)
    BY <1>4, <1>5, <1>8, <1>12
  <1>13. CASE \E r \in Edited : UpdateRule(r) \/ RescheduleOnce(r)
    BY <1>7, <1>13, SchedulerAssumption
  <1>14. CASE SetMaxConcurrent \/ ClockBack \/ RefreshTimers \/ StopScheduler \/ Restart \/ UNCHANGED vars
    BY <1>5, <1>9, <1>10, <1>14
  <1> QED  BY <1>11, <1>12, <1>13, <1>14 DEF Next

\* RulesInv, rule by rule.
LEMMA RulesAreFine == RulesInv <=> \A r \in Rule : RuleFine(r)
  BY DEF RulesInv, MissedHasNoWork, RuleFine, MissedFine

\* RulesInv holds when the scheduler has started for the first time.
LEMMA RulesInit == Init => RulesInv
  BY RulesAreFine DEF Init, RuleFine, MissedFine, RetryIsCurrent, RunsAreCurrent, OnceHasOneOwner,
                      CurrentRuns, Busy, NoTask, NoRetries

\* RulesInv is inductive relative to RowsInv.
LEMMA RulesStep == RowsInv /\ RulesInv /\ [Next]_vars => RulesInv'
  <1> SUFFICES ASSUME RowsInv, RulesInv, [Next]_vars PROVE RulesInv'
    OBVIOUS
  <1>1. \A r \in Rule : RuleFine(r)'
    BY RulesAreFine, RulesNext
  <1> QED  BY <1>1 DEF RulesInv, MissedHasNoWork, RuleFine, MissedFine

(* Rule by rule: a retry, and a run that may still park one, belong to the   *)
(* enabled rule and its current plan, a once plan is claimed by one of timer,*)
(* run and retry, and a plan marked missed has no pending row.               *)
THEOREM RulesInvariant == Spec => []RulesInv
  BY RulesInit, RulesStep, RowsInvariant, PTL DEF Spec

\* What a missed mark and the card promise follows from the two invariants.
LEMMA RulesImply ==
  RowsInv /\ RulesInv => MissedHasNoWork /\ CardHidesNoWork
  <1> SUFFICES ASSUME RowsInv, RulesInv
               PROVE  MissedHasNoWork /\ CardHidesNoWork
    OBVIOUS
  <1>1. MissedHasNoWork
    BY DEF RulesInv
  <1>2. ASSUME NEW r \in Rule,
               Phase(r) \in {"cooldown", "scheduled-cron", "scheduled-once", "missed-once"}
        PROVE  \A j \in JobId : jobs[j].rule = r => jobs[j].status \notin Pending
    <2>1. ~guard[r].running /\ retry[r] = 0
      BY <1>2 DEF Phase, Executing, RetryPending
    <2> QED  BY <2>1, IdleRule DEF IdleRulesRest, NoWork
  <1>3. ASSUME NEW r \in Rule, Phase(r) = "retry-waiting"
        PROVE  ActiveJob(r) = retry[r]
    <2>1. ~guard[r].running /\ retry[r] # 0
      BY <1>3 DEF Phase, Executing, RetryPending, IdlePhase
    <2>2. PICK j \in JobId : j = retry[r]
      BY <2>1, RowTypes DEF RowsInv
    <2>3. jobs[j].rule = r /\ jobs[j].plan = cfg[r].plan
      BY <2>1, <2>2 DEF RowsInv, LockInv, ParkedIsIdle, RuleOf, RulesInv, RetryIsCurrent
    <2>4. jobs[j].status \in Pending
      BY <2>2 DEF RowsInv, RowOwned, Parked, Pending
    <2>5. {k \in PlanJobs(r) : jobs[k].status \in Pending} = {j}
      BY <2>1, <2>2, <2>3, <2>4, PendingIsParked DEF PlanJobs
    <2>6. Max({j}) = j
      <3>1. \E x \in {j} : \A y \in {j} : x >= y
        BY DEF JobId
      <3> QED  BY <3>1 DEF Max
    <2> QED  BY <2>2, <2>5, <2>6 DEF ActiveJob, NewestOf
  <1>4. CardHidesNoWork
    BY <1>2, <1>3 DEF CardHidesNoWork
  <1> QED  BY <1>1, <1>4

(* A missed once has no work that could still execute it, and no schedule    *)
(* card hides a pending row: the card that shows a retry shows the row its   *)
(* timer will resume.                                                        *)
THEOREM RulesCorrect == Spec => [](MissedHasNoWork /\ CardHidesNoWork)
  BY RowsInvariant, RulesInvariant, RulesImply, PTL

-----------------------------------------------------------------------------
(* Slots *)

SlotWaiters == {j \in JobId : task[j].pc = "slot"}
Queued == {slots.queue[i] : i \in DOMAIN slots.queue}

SlotsFine == SlotAccounting /\ NoStrandedWaiter

\* Counting calls: one more, one less.
LEMMA CallsAreFinite ==
  ASSUME NEW S \in SUBSET JobId
  PROVE  /\ Cardinality(S) \in Nat
         /\ Cardinality(S) = 0 <=> S = {}
         /\ \A x \in JobId \ S : Cardinality(S \cup {x}) = Cardinality(S) + 1
         /\ \A x \in S : Cardinality(S \ {x}) = Cardinality(S) - 1
  <1>1. IsFiniteSet(JobId)
    BY FS_Interval, StoreAssumption DEF JobId
  <1>2. IsFiniteSet(S)
    BY <1>1, FS_Subset
  <1>3. Cardinality(S) \in Nat /\ (Cardinality(S) = 0 <=> S = {})
    BY <1>2, FS_CardinalityType, FS_EmptySet
  <1>4. \A x \in JobId \ S : Cardinality(S \cup {x}) = Cardinality(S) + 1
    BY <1>2, FS_AddElement
  <1>5. \A x \in S : Cardinality(S \ {x}) = Cardinality(S) - 1
    BY <1>2, FS_RemoveElement
  <1> QED  BY <1>3, <1>4, <1>5

\* Holders and waiters are sets of calls.
LEMMA CallSets ==
  /\ Holding \in SUBSET JobId /\ SlotWaiters \in SUBSET JobId
  /\ Holding' \in SUBSET JobId /\ SlotWaiters' \in SUBSET JobId
  BY DEF Holding, SlotWaiters

\* A call keeps its row, hence its source, as long as it lives.
LEMMA SourceStays ==
  ASSUME RowsInv, LockInv', \A k \in JobId : RowMoves(k)
  PROVE  \A k \in JobId : task[k].pc # "idle" /\ task'[k].pc # "idle" =>
                            jobs'[k].source = jobs[k].source
  BY RunsComeFrom

\* No call takes, gives back or waits for a slot.
LEMMA SlotsKept ==
  ASSUME SlotsFine, slots' = slots, Holding' = Holding, SlotWaiters' = SlotWaiters
  PROVE  SlotsFine'
  <1>1. SlotAccounting'
    BY DEF SlotsFine, SlotAccounting, SlotWaiters
  <1>2. NoStrandedWaiter'
    BY DEF SlotsFine, NoStrandedWaiter
  <1> QED  BY <1>1, <1>2 DEF SlotsFine

\* Steps of a call between two waits, and those of manual tests, leave holders and waiters the same.
LEMMA SlotsUnmoved ==
  ASSUME SlotsFine, RowsInv, LockInv', \A k \in JobId : RowMoves(k), slots' = slots,
         \A k \in JobId :
           \/ task'[k].pc = task[k].pc
           \/ {task[k].pc, task'[k].pc} \subseteq {"granted", "running", "settled"}
           \/ task[k].pc = "rejected" /\ task'[k].pc = "idle"
           \/ task[k].pc = "idle" /\ task'[k].pc = "running" /\ jobs'[k].source = "test"
           \/ task[k].pc = "settled" /\ task'[k].pc = "idle" /\ jobs[k].source = "test"
  PROVE  SlotsFine'
  <1>1. \A k \in JobId : k \in Holding' <=> k \in Holding
    BY SourceStays DEF Holding
  <1>2. Holding' = Holding
    BY <1>1, CallSets
  <1>3. SlotWaiters' = SlotWaiters
    BY DEF SlotWaiters
  <1> QED  BY <1>2, <1>3, SlotsKept

\* acquireRunSlot: one slot more, or one waiter more behind the calls that hold them all.
LEMMA SlotsAcquired ==
  ASSUME SlotsFine, RowsInv, LockInv', \A k \in JobId : RowMoves(k),
         NEW j \in JobId, task[j].pc = "idle", NEW resume \in BOOLEAN, AcquireRunSlot(j, resume),
         jobs'[j].source # "test"
  PROVE  SlotsFine'
  <1>1. LockInv /\ slots.queue \in Seq(JobId) /\ slots.active \in Nat /\ cap \in Caps /\ cap \in Nat \ {0}
        /\ slots \in [active : Nat, queue : Seq(JobId)]
    BY SchedulerAssumption DEF RowsInv, LockInv, TypeOK
  <1>2. \A k \in JobId \ {j} : task'[k] = task[k]
    BY <1>1, AcquireActs
  <1>3. \A k \in JobId \ {j} : k \in Holding' <=> k \in Holding
    BY <1>2, SourceStays DEF Holding
  <1>4. j \notin Holding /\ j \notin SlotWaiters
    BY DEF Holding, SlotWaiters
  <1>5. /\ slots.active = Cardinality(Holding) /\ Queued = SlotWaiters
        /\ Len(slots.queue) = Cardinality(SlotWaiters)
        /\ \E n \in Caps : Cardinality(Holding) <= n
    BY DEF SlotsFine, SlotAccounting, SlotWaiters, Queued
  <1>6. CASE slots.active < cap
    <2>1. task'[j].pc = "granted" /\ slots'.active = slots.active + 1 /\ slots'.queue = slots.queue
      BY <1>1, <1>6, RowTypes DEF AcquireRunSlot, TaskState
    <2>2. Holding' = Holding \cup {j}
      <3>1. j \in Holding'
        BY <2>1 DEF Holding
      <3> QED  BY <1>3, <3>1, CallSets
    <2>3. SlotWaiters' = SlotWaiters
      BY <1>2, <1>4, <2>1 DEF SlotWaiters
    <2>4. Cardinality(Holding') = slots.active + 1
      BY <1>4, <1>5, <2>2, CallsAreFinite, CallSets
    <2>5. /\ \E n \in Caps : Cardinality(Holding') <= n
          /\ Queued' = Queued
      BY <1>1, <1>6, <2>1, <2>4 DEF Queued
    <2>6. SlotAccounting'
      BY <1>5, <2>1, <2>3, <2>4, <2>5 DEF SlotAccounting, SlotWaiters, Queued
    <2>7. NoStrandedWaiter'
      BY <2>2 DEF NoStrandedWaiter
    <2> QED  BY <2>6, <2>7 DEF SlotsFine
  <1>7. CASE ~(slots.active < cap)
    <2> DEFINE q == slots.queue
    <2>1. task'[j].pc = "slot" /\ slots'.active = slots.active /\ slots'.queue = Append(q, j)
      BY <1>1, <1>7, RowTypes DEF AcquireRunSlot, TaskState
    <2>2. Holding' = Holding
      <3>1. j \notin Holding'
        BY <2>1 DEF Holding
      <3> QED  BY <1>3, <1>4, <3>1, CallSets
    <2>3. SlotWaiters' = SlotWaiters \cup {j}
      BY <1>2, <2>1 DEF SlotWaiters
    <2>4. /\ Len(Append(q, j)) = Len(q) + 1 /\ DOMAIN Append(q, j) = 1 .. Len(q) + 1
          /\ DOMAIN q = 1 .. Len(q) /\ Len(q) \in Nat
          /\ \A i \in 1 .. Len(q) : Append(q, j)[i] = q[i]
          /\ Append(q, j)[Len(q) + 1] = j
      BY <1>1
    <2>5. Queued' = Queued \cup {j}
      BY <2>1, <2>4 DEF Queued
    <2>6. Cardinality(SlotWaiters') = Cardinality(SlotWaiters) + 1
      BY <1>4, <2>3, CallsAreFinite, CallSets
    <2>7. SlotAccounting'
      BY <1>5, <2>1, <2>2, <2>3, <2>4, <2>5, <2>6 DEF SlotAccounting, SlotWaiters, Queued
    <2>8. Holding' # {}
      <3>1. Cardinality(Holding) # 0
        BY <1>1, <1>5, <1>7
      <3> QED  BY <2>2, <3>1, CallsAreFinite, CallSets
    <2> QED  BY <2>7, <2>8 DEF SlotsFine, NoStrandedWaiter
  <1> QED  BY <1>6, <1>7

\* releaseRunSlot: the slot is handed to the first waiter, or is free.
LEMMA SlotsReleased ==
  ASSUME SlotsFine, RowsInv, LockInv', \A k \in JobId : RowMoves(k),
         NEW j \in JobId, task[j].pc \in {"granted", "settled"}, jobs[j].source # "test",
         ReleaseRunSlot(j)
  PROVE  SlotsFine'
  <1> DEFINE q == slots.queue
  <1>1. /\ LockInv /\ q \in Seq(JobId) /\ slots.active \in Nat /\ slots \in [active : Nat, queue : Seq(JobId)]
        /\ \A i \in 1 .. Len(q) : q[i] \in JobId /\ task[q[i]].pc = "slot"
        /\ \A i, k \in 1 .. Len(q) : q[i] = q[k] => i = k
    BY DEF RowsInv, LockInv, TypeOK, QueueWaits
  <1>2. j \in Holding /\ j \notin SlotWaiters /\ j \in Busy
    BY DEF Holding, SlotWaiters, Busy
  <1>3. /\ slots.active = Cardinality(Holding) /\ Queued = SlotWaiters
        /\ Len(q) = Cardinality(SlotWaiters)
        /\ \E n \in Caps : Cardinality(Holding) <= n
    BY DEF SlotsFine, SlotAccounting, SlotWaiters, Queued
  <1>4. task'[j].pc = "idle"
    BY <1>1, <1>2, ReleaseMoves DEF NoTask
  <1>5. slots.active - 1 = Cardinality(Holding \ {j}) /\ slots.active > 0
    <2>1. Cardinality(Holding) # 0
      BY <1>2, CallsAreFinite, CallSets
    <2> QED  BY <1>1, <1>2, <1>3, <2>1, CallsAreFinite, CallSets
  <1>6. CASE q # <<>> /\ ~stopping
    <2> DEFINE h == Head(q)
    <2>1. /\ Len(q) >= 1 /\ h = q[1] /\ Len(Tail(q)) = Len(q) - 1 /\ Len(q) \in Nat
          /\ DOMAIN q = 1 .. Len(q) /\ DOMAIN Tail(q) = 1 .. Len(q) - 1
          /\ \A i \in 1 .. Len(q) - 1 : Tail(q)[i] = q[i + 1]
      BY <1>1, <1>6
    <2>2. h \in JobId /\ task[h].pc = "slot" /\ h # j /\ h \in SlotWaiters
      BY <1>1, <2>1 DEF SlotWaiters
    <2>3. /\ slots'.queue = Tail(q) /\ slots'.active = slots.active
          /\ task' = [[task EXCEPT ![j] = NoTask] EXCEPT ![h].pc = "granted"]
      BY <1>1, <1>6 DEF ReleaseRunSlot
    <2> HIDE DEF h
    <2>4. task'[h].pc = "granted" /\ \A k \in JobId \ {j, h} : task'[k] = task[k]
      BY <1>1, <2>2, <2>3, RowTypes, NoTaskType DEF TaskState
    <2>5. Holding' = (Holding \ {j}) \cup {h}
      <3>1. jobs'[h].source = jobs[h].source /\ jobs[h].source # "test"
        <4>1. RowOwned(h) /\ Waiting(h)
          BY <2>2 DEF RowsInv, Waiting
        <4> QED  BY <2>2, <2>4, <4>1, SourceStays DEF RowOwned
      <3>2. h \in Holding' /\ j \notin Holding'
        BY <1>4, <2>2, <2>4, <3>1 DEF Holding
      <3>3. \A k \in JobId \ {j, h} : k \in Holding' <=> k \in Holding
        BY <2>4, SourceStays DEF Holding
      <3> QED  BY <2>2, <3>2, <3>3, CallSets
    <2>6. SlotWaiters' = SlotWaiters \ {h}
      BY <1>2, <1>4, <2>2, <2>4 DEF SlotWaiters
    <2>7. Cardinality(Holding') = Cardinality(Holding)
      <3>1. h \notin Holding /\ Holding \ {j} \in SUBSET JobId
        BY <2>2, CallSets DEF Holding
      <3>2. Cardinality((Holding \ {j}) \cup {h}) = Cardinality(Holding \ {j}) + 1
        BY <2>2, <3>1, CallsAreFinite
      <3> QED  BY <1>1, <1>3, <1>5, <2>5, <3>2
    <2>8. Cardinality(SlotWaiters') = Cardinality(SlotWaiters) - 1
      BY <2>2, <2>6, CallsAreFinite, CallSets
    <2>9. Queued' = Queued \ {h}
      <3>1. \A i \in 1 .. Len(q) - 1 : q[i + 1] # h
        BY <1>1, <2>1
      <3>2. \A i \in 1 .. Len(q) : i = 1 \/ (i - 1 \in 1 .. Len(q) - 1 /\ q[i] = q[(i - 1) + 1])
        BY <2>1
      <3>3. Queued' = {Tail(q)[i] : i \in 1 .. Len(q) - 1}
        BY <2>1, <2>3 DEF Queued
      <3>4. \A x : x \in Queued <=> \E i \in 1 .. Len(q) : x = q[i]
        BY <2>1 DEF Queued
      <3>5. \A x : x \in Queued' <=> \E i \in 1 .. Len(q) - 1 : x = q[i + 1]
        BY <2>1, <3>3
      <3>6. ASSUME NEW x, x \in Queued' PROVE x \in Queued \ {h}
        <4>1. PICK i \in 1 .. Len(q) - 1 : x = q[i + 1]
          BY <3>5, <3>6
        <4>2. i + 1 \in 1 .. Len(q)
          BY <2>1
        <4> QED  BY <3>1, <3>4, <4>1, <4>2
      <3>7. ASSUME NEW x, x \in Queued, x # h PROVE x \in Queued'
        <4>1. PICK i \in 1 .. Len(q) : x = q[i]
          BY <3>4, <3>7
        <4>2. i - 1 \in 1 .. Len(q) - 1 /\ x = q[(i - 1) + 1]
          BY <2>1, <3>2, <3>7, <4>1
        <4> QED  BY <3>5, <4>2
      <3> QED  BY <3>6, <3>7
    <2>10. SlotAccounting'
      BY <1>3, <2>1, <2>3, <2>6, <2>7, <2>8, <2>9 DEF SlotAccounting, SlotWaiters, Queued
    <2>11. NoStrandedWaiter'
      BY <2>5 DEF NoStrandedWaiter
    <2> QED  BY <2>10, <2>11 DEF SlotsFine
  <1>7. CASE ~(q # <<>> /\ ~stopping)
    <2>1. q = <<>>
      BY <1>7, RowsImply DEF StopQuiesces
    <2>2. /\ slots'.queue = <<>> /\ slots'.active = slots.active - 1 /\ task' = [task EXCEPT ![j] = NoTask]
      BY <1>1, <1>5, <1>7, <2>1 DEF ReleaseRunSlot
    <2>3. \A k \in JobId \ {j} : task'[k] = task[k]
      BY <1>1, <2>2, RowTypes
    <2>4. Holding' = Holding \ {j}
      <3>1. \A k \in JobId \ {j} : k \in Holding' <=> k \in Holding
        BY <2>3, SourceStays DEF Holding
      <3>2. j \notin Holding'
        BY <1>4 DEF Holding
      <3> QED  BY <3>1, <3>2, CallSets
    <2>5. SlotWaiters' = SlotWaiters
      BY <1>2, <1>4, <2>3 DEF SlotWaiters
    <2>6. /\ \E n \in Caps : Cardinality(Holding') <= n
          /\ Queued' = Queued
          /\ Cardinality(Holding') = slots'.active
      <3>1. PICK n \in Caps : Cardinality(Holding) <= n
        BY <1>3
      <3>2. n \in Nat
        BY SchedulerAssumption
      <3>3. Cardinality(Holding') = slots.active - 1 /\ Cardinality(Holding') <= n
        BY <1>1, <1>3, <1>5, <2>4, <3>1, <3>2
      <3> QED  BY <2>1, <2>2, <3>3 DEF Queued
    <2>7. SlotAccounting'
      BY <1>3, <2>1, <2>2, <2>5, <2>6 DEF SlotAccounting, SlotWaiters, Queued
    <2> QED  BY <2>2, <2>7 DEF SlotsFine, NoStrandedWaiter
  <1> QED  BY <1>6, <1>7

\* A reload or a stop turns the waiters away; the calls that hold a slot keep it.
LEMMA SlotsEmptied ==
  ASSUME SlotsFine, RowsInv, LockInv', \A k \in JobId : RowMoves(k),
         task' = Invalidated, slots' = [slots EXCEPT !.queue = <<>>]
  PROVE  SlotsFine'
  <1>1. LockInv /\ slots \in [active : Nat, queue : Seq(JobId)]
    BY DEF RowsInv, LockInv, TypeOK
  <1>2. slots'.queue = <<>> /\ slots'.active = slots.active
    BY <1>1
  <1>3. \A k \in JobId : /\ task[k].pc # "slot" => task'[k].pc = task[k].pc
                         /\ task[k].pc = "slot" => task'[k].pc = "rejected"
    BY <1>1, RowTypes DEF Invalidated, TaskState
  <1>4. \A k \in JobId : k \in Holding' <=> k \in Holding
    BY <1>3, SourceStays DEF Holding
  <1>5. Holding' = Holding
    BY <1>4, CallSets
  <1>6. SlotWaiters' = {} /\ Cardinality(SlotWaiters') = 0 /\ Queued' = {}
    <2>1. SlotWaiters' = {}
      BY <1>3 DEF SlotWaiters
    <2> QED  BY <1>2, <2>1, CallsAreFinite, CallSets DEF Queued
  <1>7. SlotAccounting'
    BY <1>2, <1>5, <1>6 DEF SlotsFine, SlotAccounting, SlotWaiters, Queued
  <1> QED  BY <1>2, <1>7 DEF SlotsFine, NoStrandedWaiter

\* There is a cap, and no cap is negative.
LEMMA SomeCap == \E n \in Caps : 0 <= n
  <1>1. PICK n : n \in Caps
    BY SchedulerAssumption
  <1>2. n \in Nat
    BY <1>1, SchedulerAssumption
  <1>3. 0 <= n
    BY <1>2
  <1> QED  BY <1>1, <1>3

\* Without calls there are no holders and no waiters.
LEMMA NoCallNoSlot ==
  ASSUME slots = [active |-> 0, queue |-> <<>>], \A k \in JobId : task[k].pc = "idle"
  PROVE  SlotsFine
  <1>1. Holding = {} /\ SlotWaiters = {} /\ Queued = {}
    BY DEF Holding, SlotWaiters, Queued
  <1>2. Cardinality(Holding) = 0 /\ Cardinality(SlotWaiters) = 0
    BY <1>1, FS_EmptySet
  <1>3. \E n \in Caps : Cardinality(Holding) <= n
    BY <1>2, SomeCap
  <1>4. SlotAccounting
    BY <1>1, <1>2, <1>3 DEF SlotAccounting, SlotWaiters, Queued
  <1> QED  BY <1>4 DEF SlotsFine, NoStrandedWaiter

\* The accounts are right when the scheduler has started for the first time.
LEMMA SlotsInit == Init => SlotsFine
  BY NoCallNoSlot DEF Init, NoTask

\* A restart forgets the calls and their slots together.
LEMMA SlotsStart ==
  ASSUME NEW rows, NEW c, NEW g, NEW al, StartFrom(rows, c, g, al)
  PROVE  SlotsFine'
  <1>1. slots' = [active |-> 0, queue |-> <<>>] /\ \A k \in JobId : task'[k].pc = "idle"
    BY DEF StartFrom, NoTask
  <1>2. Holding' = {} /\ SlotWaiters' = {} /\ Queued' = {}
    BY <1>1 DEF Holding, SlotWaiters, Queued
  <1>3. Cardinality(Holding') = 0 /\ Cardinality(SlotWaiters') = 0
    BY <1>2, FS_EmptySet
  <1>4. \E n \in Caps : Cardinality(Holding') <= n
    BY <1>3, SomeCap
  <1>5. SlotAccounting'
    BY <1>1, <1>2, <1>3, <1>4 DEF SlotAccounting, SlotWaiters, Queued
  <1> QED  BY <1>1, <1>5 DEF SlotsFine, NoStrandedWaiter

\* A call that gives its slot back hands it to the next waiter or leaves the count.
LEMMA SlotsRunStep ==
  ASSUME SlotsFine, RowsInv, LockInv', \A k \in JobId : RowMoves(k),
         NEW j \in JobId, RunStep(j)
  PROVE  SlotsFine'
  <1>1. LockInv /\ task \in [JobId -> TaskState] /\ RowOwned(j)
    BY RowTypes DEF RowsInv
  <1>2. CASE GiveUp(j) \/ Complete(j)
    <2>1. task[j].pc \in {"granted", "settled"} /\ jobs[j].source # "test" /\ ReleaseRunSlot(j)
      BY <1>1, <1>2 DEF GiveUp, Complete, RowOwned, Waiting
    <2> QED  BY <2>1, SlotsReleased
  <1>3. CASE Settle(j)
    <2> DEFINE mid == [task EXCEPT ![j].pc = "settled"]
    <2>1. task[j].pc = "running" /\ slots' = slots /\ \E o : task' = [mid EXCEPT ![j].outcome = o]
      BY <1>3 DEF Settle
    <2>2. /\ task'[j].pc = "settled"
          /\ \A k \in JobId \ {j} : task'[k].pc = task[k].pc
      BY <1>1, <2>1 DEF TaskState
    <2> QED  BY <2>1, <2>2, SlotsUnmoved
  <1>4. CASE SlotRejected(j) \/ Admit(j) \/ TestComplete(j)
    <2>1. /\ slots' = slots /\ \A k \in JobId \ {j} : task'[k].pc = task[k].pc
          /\ \/ task[j].pc = "granted" /\ task'[j].pc = "running"
             \/ task[j].pc = "rejected" /\ task'[j].pc = "idle"
             \/ task[j].pc = "settled" /\ task'[j].pc = "idle" /\ jobs[j].source = "test"
      BY <1>1, <1>4 DEF SlotRejected, Admit, TestComplete, NoTask, TaskState
    <2> QED  BY <2>1, SlotsUnmoved
  <1> QED  BY <1>2, <1>3, <1>4 DEF RunStep

\* A trigger takes a free slot or queues its call.
LEMMA SlotsTrigger ==
  ASSUME SlotsFine, RowsInv, LockInv', \A k \in JobId : RowMoves(k),
         NEW r \in Rule, TriggerStep(r)
  PROVE  SlotsFine'
  <1>1. LockInv /\ jobs \in Table
    BY RowTypes DEF RowsInv
  <1>2. ASSUME UNCHANGED <<task, slots>> PROVE SlotsFine'
    BY <1>2, SlotsUnmoved
  <1>3. ASSUME NEW arm, RunRule(r, arm) PROVE SlotsFine'
    <2> DEFINE j == lastJob + 1
               rows == EnqueueJob(jobs, j, r, Kind[r], cfg[r].plan)
    <2>1. lastJob < MaxJobs
      BY <1>3 DEF RunRule
    <2>2. j \in JobId /\ task[j].pc = "idle"
      BY <2>1, FreshRow
    <2>3. CASE ShouldRun(guard[r])
      <3>1. jobs' = rows /\ AcquireRunSlot(j, FALSE)
        BY <1>3, <2>3 DEF RunRule
      <3>2. jobs'[j].source = Kind[r] /\ Kind[r] # "test"
        BY <1>1, <2>2, <3>1, SchedulerAssumption DEF EnqueueJob, Table, Row
      <3> HIDE DEF j, rows
      <3>3. FALSE \in BOOLEAN
        OBVIOUS
      <3> QED  BY <2>2, <3>1, <3>2, <3>3, SlotsAcquired
    <2>4. CASE ~ShouldRun(guard[r])
      BY <1>2, <1>3, <2>4 DEF RunRule
    <2> QED  BY <2>3, <2>4
  <1>4. CASE RetryFire(r)
    <2>1. CASE UNCHANGED <<task, slots>>
      BY <1>2, <2>1
    <2>2. CASE ~UNCHANGED <<task, slots>>
      <3>1. PICK j \in JobId : j = retry[r] /\ task[j].pc = "idle" /\ jobs[j].source # "test"
        <4>1. retry[r] \in JobId /\ Parked(retry[r])
          BY <1>1, <1>4, RowTypes DEF RetryFire, Parked
        <4>2. jobs[retry[r]].source # "test"
          BY <4>1 DEF RowsInv, RowOwned
        <4> QED  BY <1>1, <4>1, <4>2, RowTypes
      <3>2. AcquireRunSlot(j, TRUE) /\ jobs' = jobs
        BY <1>4, <2>2, <3>1 DEF RetryFire
      <3>3. jobs'[j].source # "test" /\ TRUE \in BOOLEAN
        BY <3>1, <3>2
      <3> QED  BY <3>1, <3>2, <3>3, SlotsAcquired
    <2> QED  BY <2>1, <2>2
  <1> QED  BY <1>2, <1>3, <1>4 DEF TriggerStep, CronFire, OnceFire, OnceDropped, EventFire

\* The accounts are inductive relative to RowsInv.
LEMMA SlotsNext == SlotsFine /\ RowsInv /\ [Next]_vars => SlotsFine'
  <1> SUFFICES ASSUME SlotsFine, RowsInv, [Next]_vars PROVE SlotsFine'
    OBVIOUS
  <1>1. LockInv' /\ \A k \in JobId : RowMoves(k)
    BY RowsNext
  <1>2. ASSUME UNCHANGED <<task, slots>> PROVE SlotsFine'
    BY <1>1, <1>2, SlotsUnmoved
  <1>3. ASSUME NEW j \in JobId, RunStep(j) \/ ZombieEnds(j) \/ CancelJob(j) PROVE SlotsFine'
    BY <1>1, <1>2, <1>3, SlotsRunStep DEF ZombieEnds, CancelJob
  <1>4. ASSUME NEW r \in Rule, TriggerStep(r) \/ CooldownElapses(r) \/ Tick(r) PROVE SlotsFine'
    BY <1>1, <1>2, <1>4, SlotsTrigger DEF CooldownElapses, Tick
  <1>5. ASSUME SetMaxConcurrent \/ ClockBack \/ RefreshTimers \/ UNCHANGED vars PROVE SlotsFine'
    BY <1>2, <1>5 DEF SetMaxConcurrent, ClockBack, RefreshTimers, vars
  <1>6. ASSUME NEW r \in Rule, TestRun(r) PROVE SlotsFine'
    <2> DEFINE j == lastJob + 1
    <2>1. lastJob < MaxJobs /\ slots' = slots
          /\ jobs' = MarkRunning(EnqueueJob(jobs, j, r, "test", 0), j)
          /\ task' = [task EXCEPT ![j] = [NoTask EXCEPT !.pc = "running", !.fresh = TRUE]]
      BY <1>6 DEF TestRun
    <2>2. j \in JobId /\ task[j].pc = "idle" /\ jobs \in Table /\ task \in [JobId -> TaskState]
      BY <2>1, FreshRow, RowTypes DEF RowsInv
    <2>3. jobs'[j].source = "test"
      BY <2>1, <2>2 DEF MarkRunning, EnqueueJob, Table, Row
    <2>4. task'[j].pc = "running" /\ \A k \in JobId \ {j} : task'[k].pc = task[k].pc
      BY <2>1, <2>2 DEF NoTask
    <2> HIDE DEF j
    <2> QED  BY <1>1, <2>1, <2>2, <2>3, <2>4, SlotsUnmoved
  <1>7. ASSUME NEW r \in Rule, UpdateRule(r) \/ RescheduleOnce(r) PROVE SlotsFine'
    <2>1. task' = Invalidated /\ slots' = [slots EXCEPT !.queue = <<>>]
      BY <1>7 DEF UpdateRule, RescheduleOnce, ReloadSchedule
    <2> QED  BY <1>1, <2>1, SlotsEmptied
  <1>8. ASSUME StopScheduler PROVE SlotsFine'
    BY <1>1, <1>8, SlotsEmptied DEF StopScheduler
  <1>9. ASSUME Restart \/ \E j \in JobId : CrashInComplete(j) PROVE SlotsFine'
    <2>1. \E rows, c, g, al : StartFrom(rows, c, g, al)
      BY <1>9 DEF Restart, CrashInComplete
    <2> QED  BY <2>1, SlotsStart
  <1>10. CASE \E j \in JobId : RunStep(j) \/ ZombieEnds(j) \/ CancelJob(j) \/ CrashInComplete(j)
    BY <1>3, <1>9, <1>10
  <1>11. CASE \E r \in Rule : TriggerStep(r) \/ CooldownElapses(r) \/ Tick(r) \/ TestRun(r)
    BY <1>4, <1>6, <1>11
  <1>12. CASE \E r \in Edited : UpdateRule(r) \/ RescheduleOnce(r)
    BY <1>7, <1>12, SchedulerAssumption
  <1>13. CASE SetMaxConcurrent \/ ClockBack \/ RefreshTimers \/ StopScheduler \/ Restart \/ UNCHANGED vars
    BY <1>5, <1>8, <1>9, <1>13
  <1> QED  BY <1>10, <1>11, <1>12, <1>13 DEF Next

(* The slot pool, for every cap and every interleaving of grants, hand-overs,*)
(* rejections, reloads and stops: the counter counts the calls that hold a   *)
(* slot, the queue holds each waiting call once, no more calls run than the  *)
(* largest cap, and a call never waits while none holds a slot.              *)
THEOREM SlotsCorrect == Spec => [](SlotAccounting /\ NoStrandedWaiter)
  <1>1. Spec => []SlotsFine
    BY SlotsInit, SlotsNext, RowsInvariant, PTL DEF Spec
  <1> QED  BY <1>1, PTL DEF SlotsFine

-----------------------------------------------------------------------------
(* Attempts *)

\* A row that keeps its attempts and is not parked, or starts over.
Calm(before, after) ==
  \/ /\ after.attempt = before.attempt
     /\ after.status = "retry-waiting" => before.status = "retry-waiting"
  \/ after.attempt = 0 /\ after.status # "retry-waiting"

\* A row that is calm stays within its attempts.
LEMMA CalmKeeps ==
  ASSUME RowsInv, RowsInv', NEW k \in JobId, RowMoves(k), RowAttempts(k), Calm(jobs[k], jobs'[k])
  PROVE  RowAttempts(k)'
  <1> SUFFICES ASSUME jobs'[k].status # "none"
               PROVE  /\ jobs'[k].attempt <= MaxRetries[RuleOf(k)']
                      /\ jobs'[k].status = "retry-waiting" => jobs'[k].attempt < MaxRetries[RuleOf(k)']
    BY DEF RowAttempts
  <1>1. RowKnown(k) /\ RuleOf(k)' \in Rule
    BY DEF RowsInv, RowKnown
  <1>2. MaxRetries[RuleOf(k)'] \in Nat
    BY <1>1, SchedulerAssumption
  <1>3. CASE jobs[k].status = "none"
    <2>1. jobs[k].attempt = 0 /\ jobs[k].status # "retry-waiting"
      BY <1>1, <1>3 DEF RowKnown, NoRow
    <2>2. jobs'[k].attempt = 0 /\ jobs'[k].status # "retry-waiting"
      BY <2>1 DEF Calm
    <2> QED  BY <1>2, <2>2
  <1>4. CASE jobs[k].status # "none"
    <2>1. RuleOf(k)' = RuleOf(k)
      BY <1>4 DEF RowMoves, SameRow, NoRow, RuleOf
    <2> QED  BY <1>2, <1>4, <2>1 DEF RowAttempts, Calm
  <1> QED  BY <1>3, <1>4

\* The updates that end or start a row; a parked row is left to MarkRetryWaiting.
LEMMA UpdateIsCalm ==
  ASSUME NEW rows \in Table, NEW j \in JobId, NEW from, NEW to, to # "retry-waiting", NEW err
  PROVE  \A k \in JobId : Calm(rows[k], UpdateWhere(rows, j, from, to, err)[k])
  BY DEF UpdateWhere, Table, Row, Calm

\* These updates are calm for every row.
LEMMA MarksAreCalm ==
  ASSUME NEW rows \in Table, NEW j \in JobId
  PROVE  \A k \in JobId :
           /\ Calm(rows[k], MarkRetryAbandoned(rows, j)[k]) /\ Calm(rows[k], MarkDone(rows, j)[k])
           /\ Calm(rows[k], MarkFailed(rows, j)[k]) /\ Calm(rows[k], MarkCancelled(rows, j)[k])
           /\ Calm(rows[k], MarkRunning(rows, j)[k])
  <1>1. \A k \in JobId :
           /\ Calm(rows[k], MarkRetryAbandoned(rows, j)[k]) /\ Calm(rows[k], MarkDone(rows, j)[k])
           /\ Calm(rows[k], MarkFailed(rows, j)[k]) /\ Calm(rows[k], MarkCancelled(rows, j)[k])
    BY UpdateIsCalm DEF MarkRetryAbandoned, MarkDone, MarkFailed, MarkCancelled
  <1>2. \A k \in JobId : Calm(rows[k], MarkRunning(rows, j)[k])
    BY DEF MarkRunning, Table, Row, Calm
  <1> QED  BY <1>1, <1>2

\* Dropping the parked retries is calm.
LEMMA AbandonParkedIsCalm ==
  ASSUME LockInv
  PROVE  \A k \in JobId : Calm(jobs[k], AbandonParked(jobs, retry)[k])
  BY RowTypes, MarksAreCalm DEF AbandonParked, Calm

\* A completion keeps every count, and parks only what has an attempt left.
LEMMA CompletionKeepsAttempts ==
  ASSUME LockInv, NEW j \in JobId, RuleOf(j) \in Rule
  PROVE  /\ \A k \in JobId : CompletedRows(j)[k].attempt = jobs[k].attempt
         /\ \A k \in JobId : ~(Parks(j) /\ k = j) => Calm(jobs[k], CompletedRows(j)[k])
         /\ Parks(j) => jobs[j].attempt < MaxRetries[RuleOf(j)]
  <1> DEFINE other == retry[RuleOf(j)]
             mid == IF other = 0 THEN jobs ELSE MarkRetryAbandoned(jobs, other)
  <1>1. jobs \in Table /\ other \in JobId \cup {0}
    BY RowTypes
  <1>2. Parks(j) => jobs[j].attempt < MaxRetries[RuleOf(j)]
    BY DEF Parks, Retrying, ScheduleRetry
  <1>3. /\ mid \in Table
        /\ \A k \in JobId : mid[k].attempt = jobs[k].attempt
                            /\ (mid[k].status = "retry-waiting" => jobs[k].status = "retry-waiting")
    <2>1. CASE other = 0
      BY <1>1, <2>1
    <2>2. CASE other # 0
      <3>1. other \in JobId /\ mid = MarkRetryAbandoned(jobs, other)
        BY <1>1, <2>2
      <3> HIDE DEF mid, other
      <3>2. mid \in Table
        BY <1>1, <3>1, MarkKeeps
      <3> QED  BY <1>1, <3>1, <3>2 DEF MarkRetryAbandoned, UpdateWhere, Table, Row
    <2> QED  BY <2>1, <2>2
  <1> HIDE DEF mid
  <1>4. \A k \in JobId : MarkRetryWaiting(mid, j)[k].attempt = mid[k].attempt
                         /\ (k # j => MarkRetryWaiting(mid, j)[k] = mid[k])
    BY <1>3 DEF MarkRetryWaiting, UpdateWhere, Table, Row
  <1>5. \A k \in JobId : /\ MarkCancelled(jobs, j)[k].attempt = jobs[k].attempt
                         /\ MarkDone(jobs, j)[k].attempt = jobs[k].attempt
                         /\ MarkFailed(jobs, j)[k].attempt = jobs[k].attempt
    BY <1>1 DEF MarkCancelled, MarkDone, MarkFailed, UpdateWhere, Table, Row
  <1>6. \/ CompletedRows(j) \in {MarkCancelled(jobs, j), MarkDone(jobs, j), MarkFailed(jobs, j)}
        \/ Parks(j) /\ CompletedRows(j) = MarkRetryWaiting(mid, j)
    <2>1. CASE WasCancelled(j)
      BY <2>1 DEF CompletedRows
    <2>2. CASE ~WasCancelled(j) /\ Succeeded(j)
      BY <2>2 DEF CompletedRows
    <2>3. CASE ~WasCancelled(j) /\ ~Succeeded(j) /\ ~Parks(j)
      BY <2>3 DEF CompletedRows
    <2>4. CASE ~WasCancelled(j) /\ ~Succeeded(j) /\ Parks(j)
      BY <2>4 DEF CompletedRows, mid
    <2> QED  BY <2>1, <2>2, <2>3, <2>4
  <1>7. \A k \in JobId : CompletedRows(j)[k].attempt = jobs[k].attempt
    BY <1>3, <1>4, <1>5, <1>6
  <1>8. ASSUME NEW k \in JobId, ~(Parks(j) /\ k = j) PROVE Calm(jobs[k], CompletedRows(j)[k])
    <2>1. CASE CompletedRows(j) \in {MarkCancelled(jobs, j), MarkDone(jobs, j), MarkFailed(jobs, j)}
      BY <1>1, <2>1, MarksAreCalm
    <2>2. CASE Parks(j) /\ CompletedRows(j) = MarkRetryWaiting(mid, j)
      BY <1>3, <1>4, <1>8, <2>2 DEF Calm
    <2> QED  BY <1>6, <2>1, <2>2
  <1> QED  BY <1>2, <1>7, <1>8

\* A conditional UPDATE counts no attempt.
LEMMA UpdateKeepsCount ==
  ASSUME NEW rows \in Table, NEW k \in JobId, NEW from, NEW to, NEW err
  PROVE  UpdateWhere(rows, k, from, to, err)[k].attempt = rows[k].attempt
  BY DEF UpdateWhere, Table, Row

\* What the recovery of a restart writes has its count, or none, and is not parked.
LEMMA RecoveryKeepsAttempts ==
  ASSUME NEW rows \in Table, NEW k \in JobId,
         NEW S \in SUBSET {j \in JobId : rows[j].status = "running" /\ rows[j].attempt = 0},
         NEW after, after = PruneJobs(ReplayDone(RecoverOrphanedRetryWaitingJobs(
                              RecoverOrphanedQueuedJobs(RecoverInterruptedJobs(rows))), S))
  PROVE  after[k].status # "retry-waiting" /\ after[k].attempt \in {rows[k].attempt, 0}
  <1> DEFINE a == RecoverInterruptedJobs(rows)
             b == RecoverOrphanedQueuedJobs(a)
             c == RecoverOrphanedRetryWaitingJobs(b)
             e == ReplayDone(c, S)
  <1>1. after[k].status # "retry-waiting"
    <2>1. Converges(rows[k], after[k])
      BY RecoveryConverges
    <2> QED  BY <2>1 DEF Converges, Pending, NoRow
  <1>2. a \in Table /\ a[k].attempt = rows[k].attempt
    BY SMTT(30), RecoverType, UpdateKeepsCount DEF RecoverInterruptedJobs
  <1> HIDE DEF a
  <1>3. b \in Table /\ b[k].attempt = a[k].attempt
    <2>1. b \in Table
      BY <1>2, RecoverType
    <2>2. b[k] = UpdateWhere(a, k, {"queued"}, "cancelled", "orphaned")[k]
      BY DEF RecoverOrphanedQueuedJobs
    <2>3. UpdateWhere(a, k, {"queued"}, "cancelled", "orphaned")[k].attempt = a[k].attempt
      BY <1>2, UpdateKeepsCount
    <2> QED  BY <2>1, <2>2, <2>3
  <1> HIDE DEF b
  <1>4. c \in Table /\ c[k].attempt = b[k].attempt
    <2>1. c \in Table
      BY <1>3, RecoverType
    <2>2. c[k] = UpdateWhere(b, k, {"retry-waiting"}, "failed", "orphaned")[k]
      BY DEF RecoverOrphanedRetryWaitingJobs
    <2>3. UpdateWhere(b, k, {"retry-waiting"}, "failed", "orphaned")[k].attempt = b[k].attempt
      BY <1>3, UpdateKeepsCount
    <2> QED  BY <2>1, <2>2, <2>3
  <1> HIDE DEF c
  <1>5. e \in Table /\ e[k].attempt = c[k].attempt
    <2>1. c[k] \in Row
      BY <1>4 DEF Table
    <2>2. e[k] = c[k] \/ e[k] = [c[k] EXCEPT !.status = "done", !.error = "none"]
      BY DEF ReplayDone
    <2> QED  BY <1>4, <2>1, <2>2, ReplayDoneType DEF Row
  <1> HIDE DEF e
  <1>6. PruneJobs(e)[k] \in {e[k], NoRow}
    BY <1>5, PruneJobsKeeps
  <1>7. after = PruneJobs(e)
    BY DEF a, b, c, e
  <1>8. after[k].attempt \in {e[k].attempt, 0}
    BY <1>6, <1>7 DEF NoRow
  <1> QED  BY <1>1, <1>2, <1>3, <1>4, <1>5, <1>8

\* A restart counts no attempt and parks no row.
LEMMA StartIsCalm ==
  ASSUME LockInv, NEW rows \in Table, \A k \in JobId : rows[k].attempt = jobs[k].attempt,
         NEW c, NEW g, NEW al, StartFrom(rows, c, g, al)
  PROVE  \A k \in JobId : Calm(jobs[k], jobs'[k])
  <1> SUFFICES ASSUME NEW k \in JobId PROVE Calm(jobs[k], jobs'[k])
    OBVIOUS
  <1>1. PICK S \in SUBSET {j \in JobId : rows[j].status = "running" /\ rows[j].attempt = 0} :
          jobs' = PruneJobs(ReplayDone(RecoverOrphanedRetryWaitingJobs(
                    RecoverOrphanedQueuedJobs(RecoverInterruptedJobs(rows))), S))
    BY DEF StartFrom
  <1>2. jobs'[k].status # "retry-waiting" /\ jobs'[k].attempt \in {rows[k].attempt, 0}
    BY <1>1, RecoveryKeepsAttempts
  <1> QED  BY <1>2 DEF Calm

\* A new row starts with attempt 0.
LEMMA NewRowIsCalm ==
  ASSUME NEW rows \in Table, NEW j \in JobId, NEW r \in Rule, NEW src \in JobSource, NEW p \in Nat
  PROVE  /\ EnqueueJob(rows, j, r, src, p) \in Table
         /\ \A k \in JobId :
              /\ Calm(rows[k], EnqueueJob(rows, j, r, src, p)[k])
              /\ Calm(rows[k], MarkSkipped(EnqueueJob(rows, j, r, src, p), j)[k])
              /\ Calm(rows[k], MarkRunning(EnqueueJob(rows, j, r, src, p), j)[k])
  <1> DEFINE new == EnqueueJob(rows, j, r, src, p)
  <1>1. new \in Table /\ \A k \in JobId : (k = j /\ new[k].attempt = 0 /\ new[k].status = "queued")
                                          \/ new[k] = rows[k]
    BY EnqueueJobKeeps DEF EnqueueJob, Table, Row
  <1> HIDE DEF new
  <1>2. \A k \in JobId : Calm(rows[k], new[k])
    BY <1>1 DEF Calm
  <1>3. \A k \in JobId : Calm(rows[k], MarkSkipped(new, j)[k])
    <2> DEFINE skipped == [new EXCEPT ![j].status = "skipped"]
    <2>1. skipped \in Table /\ \A k \in JobId : skipped[k].attempt = new[k].attempt
                                  /\ (skipped[k].status = "retry-waiting" => new[k].status = "retry-waiting")
      BY <1>1 DEF Table, Row, JobStatus, Terminal
    <2> HIDE DEF skipped
    <2>2. \A k \in JobId : PruneByStatus(skipped, "skipped", KeepSkipped)[k] \in {skipped[k], NoRow}
      BY <2>1, PruneByStatusKeeps
    <2>3. MarkSkipped(new, j) = PruneByStatus(skipped, "skipped", KeepSkipped)
      BY DEF MarkSkipped, skipped
    <2>4. ASSUME NEW k \in JobId PROVE Calm(rows[k], MarkSkipped(new, j)[k])
      <3>1. Calm(rows[k], skipped[k])
        BY <1>1, <2>1 DEF Calm
      <3>2. MarkSkipped(new, j)[k] \in {skipped[k], NoRow}
        BY <2>2, <2>3
      <3> QED  BY <3>1, <3>2 DEF Calm, NoRow
    <2> QED  BY <2>4
  <1>4. \A k \in JobId : Calm(rows[k], MarkRunning(new, j)[k])
    BY <1>1 DEF MarkRunning, Calm, Table, Row
  <1> QED  BY <1>1, <1>2, <1>3, <1>4 DEF new

\* The steps that count or park: the admission of a resumed row and the end of a failed attempt.
LEMMA AttemptsRunStep ==
  ASSUME RowsInv, RowsInv', \A k \in JobId : RowMoves(k) /\ RowAttempts(k), NEW j \in JobId, RunStep(j)
  PROVE  \A k \in JobId : RowAttempts(k)'
  <1>1. LockInv /\ jobs \in Table
    BY RowTypes DEF RowsInv
  <1>2. ASSUME \A k \in JobId : Calm(jobs[k], jobs'[k]) PROVE \A k \in JobId : RowAttempts(k)'
    BY <1>2, CalmKeeps
  <1>3. CASE Complete(j)
    <2>1. /\ jobs' = CompletedRows(j) /\ jobs[j].status \notin {"none", "skipped"} /\ RuleOf(j) \in Rule
      BY <1>1, <1>3, BusyRow DEF Complete, RowsInv, RowFine
    <2>2. ASSUME NEW k \in JobId PROVE RowAttempts(k)'
      <3>1. CASE Parks(j) /\ k = j
        <4>1. jobs'[j].attempt = jobs[j].attempt /\ jobs[j].attempt < MaxRetries[RuleOf(j)]
              /\ jobs[j].attempt \in Nat /\ MaxRetries[RuleOf(j)] \in Nat
          BY <1>1, <2>1, <3>1, CompletionKeepsAttempts, SchedulerAssumption DEF Table, Row
        <4>2. jobs'[j].status # "none" => RuleOf(j)' = RuleOf(j)
          BY <2>1 DEF RowMoves, SameRow, NoRow, RuleOf
        <4> QED  BY <3>1, <4>1, <4>2 DEF RowAttempts
      <3>2. CASE ~(Parks(j) /\ k = j)
        <4>1. Calm(jobs[k], jobs'[k])
          BY <1>1, <2>1, <3>2, CompletionKeepsAttempts
        <4> QED  BY <4>1, CalmKeeps
      <3> QED  BY <3>1, <3>2
    <2> QED  BY <2>2
  <1>4. CASE Admit(j) /\ task[j].resume
    <2>1. /\ jobs' = MarkRunningAttempt(jobs, j, jobs[j].attempt + 1) /\ jobs[j].status = "retry-waiting"
      BY <1>4 DEF Admit, Admitted
    <2>2. /\ jobs'[j].attempt = jobs[j].attempt + 1 /\ jobs'[j].status = "running"
          /\ jobs'[j].rule = jobs[j].rule /\ jobs[j].attempt \in Nat
          /\ \A k \in JobId \ {j} : jobs'[k] = jobs[k]
      BY <1>1, <2>1 DEF MarkRunningAttempt, Table, Row
    <2>3. jobs[j].attempt < MaxRetries[RuleOf(j)] /\ RuleOf(j) \in Rule
      BY <2>1 DEF RowAttempts, RowsInv, RowKnown
    <2>4. MaxRetries[RuleOf(j)] \in Nat
      BY <2>3, SchedulerAssumption
    <2>5. RowAttempts(j)'
      BY <2>2, <2>3, <2>4 DEF RowAttempts, RuleOf
    <2>6. ASSUME NEW k \in JobId, k # j PROVE RowAttempts(k)'
      BY <2>2, <2>6, CalmKeeps DEF Calm
    <2> QED  BY <2>5, <2>6
  <1>5. CASE Settle(j)
    BY <1>2, <1>5 DEF Settle, Calm
  <1>6. CASE Admit(j) /\ ~task[j].resume
    <2>1. jobs' = MarkRunning(jobs, j)
      BY <1>6 DEF Admit
    <2> QED  BY <1>1, <1>2, <2>1, MarksAreCalm
  <1>7. CASE SlotRejected(j) \/ GiveUp(j) \/ TestComplete(j)
    <2>1. jobs' \in {MarkRetryAbandoned(jobs, j), MarkCancelled(jobs, j), MarkDone(jobs, j),
                     MarkFailed(jobs, j)}
      BY <1>7 DEF SlotRejected, GiveUp, TestComplete, Unstarted
    <2> QED  BY <1>1, <1>2, <2>1, MarksAreCalm
  <1>8. CASE Admit(j)
    BY <1>4, <1>6, <1>8
  <1> QED  BY <1>3, <1>5, <1>7, <1>8 DEF RunStep

\* AttemptsBounded is inductive relative to RowsInv.
LEMMA AttemptsStep == AttemptsBounded /\ RowsInv /\ [Next]_vars => AttemptsBounded'
  <1> SUFFICES ASSUME AttemptsBounded, RowsInv, [Next]_vars PROVE AttemptsBounded'
    OBVIOUS
  <1>1. RowsInv' /\ LockInv /\ jobs \in Table /\ \A k \in JobId : RowMoves(k) /\ RowAttempts(k)
    BY RowsNext, RowsStep, RowTypes DEF RowsInv, AttemptsBounded
  <1>2. ASSUME \A k \in JobId : Calm(jobs[k], jobs'[k]) PROVE AttemptsBounded'
    <2>1. \A k \in JobId : RowAttempts(k)'
      BY <1>1, <1>2, CalmKeeps
    <2> QED  BY <2>1 DEF AttemptsBounded
  <1>3. ASSUME UNCHANGED jobs PROVE AttemptsBounded'
    BY <1>2, <1>3 DEF Calm
  <1>4. ASSUME NEW j \in JobId, RunStep(j) PROVE AttemptsBounded'
    <2>1. \A k \in JobId : RowAttempts(k)'
      BY <1>1, <1>4, AttemptsRunStep
    <2> QED  BY <2>1 DEF AttemptsBounded
  <1>5. ASSUME NEW j \in JobId, CancelJob(j) PROVE AttemptsBounded'
    BY <1>1, <1>2, <1>5, MarksAreCalm DEF CancelJob
  <1>6. ASSUME NEW r \in Rule, NEW arm, RunRule(r, arm) PROVE AttemptsBounded'
    <2> DEFINE j == lastJob + 1
               rows == EnqueueJob(jobs, j, r, Kind[r], cfg[r].plan)
    <2>1. j \in JobId
      BY <1>6, FreshRow DEF RunRule
    <2>2. jobs' = rows \/ jobs' = MarkSkipped(rows, j)
      BY <1>6 DEF RunRule
    <2>3. Kind[r] \in JobSource /\ cfg[r].plan \in Nat
      BY <1>1, SchedulerAssumption DEF LockInv, TypeOK, RuleConfig, JobSource
    <2> HIDE DEF j
    <2>4. \A k \in JobId : Calm(jobs[k], rows[k]) /\ Calm(jobs[k], MarkSkipped(rows, j)[k])
      BY <1>1, <2>1, <2>3, NewRowIsCalm
    <2> QED  BY <1>2, <2>2, <2>4
  <1>7. ASSUME NEW r \in Rule, TestRun(r) PROVE AttemptsBounded'
    <2> DEFINE j == lastJob + 1
    <2>1. j \in JobId /\ jobs' = MarkRunning(EnqueueJob(jobs, j, r, "test", 0), j)
      BY <1>7, FreshRow DEF TestRun
    <2>2. "test" \in JobSource /\ 0 \in Nat
      BY DEF JobSource
    <2> HIDE DEF j
    <2>3. \A k \in JobId : Calm(jobs[k], MarkRunning(EnqueueJob(jobs, j, r, "test", 0), j)[k])
      BY <1>1, <2>1, <2>2, NewRowIsCalm
    <2> QED  BY <1>2, <2>1, <2>3
  <1>8. ASSUME NEW r \in Rule, RetryFire(r) PROVE AttemptsBounded'
    <2>1. retry[r] \in JobId /\ (jobs' = jobs \/ jobs' = MarkRetryAbandoned(jobs, retry[r]))
      BY <1>1, <1>8, RowTypes DEF RetryFire
    <2> QED  BY <1>1, <1>2, <1>3, <2>1, MarksAreCalm
  <1>9. ASSUME NEW r \in Rule, UpdateRule(r) \/ RescheduleOnce(r) PROVE AttemptsBounded'
    <2>1. jobs' = AbandonParked(jobs, retry)
      BY <1>9 DEF UpdateRule, RescheduleOnce, ReloadSchedule
    <2> QED  BY <1>1, <1>2, <2>1, AbandonParkedIsCalm
  <1>10. ASSUME StopScheduler PROVE AttemptsBounded'
    <2> DEFINE parked == AbandonParked(jobs, retry)
    <2>1. parked \in Table /\ \A k \in JobId : Calm(jobs[k], parked[k])
      BY <1>1, AbandonParkedKeeps, AbandonParkedIsCalm DEF LockInv, TypeOK
    <2>2. \A k \in JobId : jobs'[k] = parked[k] \/ jobs'[k] = MarkCancelled(parked, k)[k]
      BY <1>10 DEF StopScheduler
    <2> HIDE DEF parked
    <2>3. ASSUME NEW k \in JobId PROVE Calm(jobs[k], jobs'[k])
      <3>1. Calm(parked[k], MarkCancelled(parked, k)[k])
        BY <2>1, MarksAreCalm
      <3> QED  BY <2>1, <2>2, <3>1 DEF Calm
    <2> QED  BY <1>2, <2>3
  <1>11. ASSUME Restart PROVE AttemptsBounded'
    <2>1. \A k \in JobId : Calm(jobs[k], jobs'[k])
      BY <1>1, <1>11, StartIsCalm DEF Restart
    <2> QED  BY <1>2, <2>1
  <1>12. ASSUME NEW j \in JobId, CrashInComplete(j) PROVE AttemptsBounded'
    <2>1. PICK rows \in {jobs, CompletedRows(j)} : \E c, g, al : StartFrom(rows, c, g, al)
      BY <1>12 DEF CrashInComplete
    <2>2. RuleOf(j) \in Rule /\ CompletedRows(j) \in Table
      <3>1. RuleOf(j) \in Rule
        BY <1>1, <1>12, BusyRow DEF CrashInComplete, RowsInv, RowFine
      <3> QED  BY <1>1, <3>1, CompletedType DEF LockInv
    <2>3. rows \in Table /\ \A k \in JobId : rows[k].attempt = jobs[k].attempt
      BY <1>1, <2>1, <2>2, CompletionKeepsAttempts
    <2>4. \A k \in JobId : Calm(jobs[k], jobs'[k])
      BY <1>1, <2>1, <2>3, StartIsCalm
    <2> QED  BY <1>2, <2>4
  <1>13. CASE \E j \in JobId : RunStep(j) \/ ZombieEnds(j) \/ CancelJob(j) \/ CrashInComplete(j)
    BY <1>3, <1>4, <1>5, <1>12, <1>13 DEF ZombieEnds
  <1>14. CASE \E r \in Rule : TriggerStep(r) \/ CooldownElapses(r) \/ Tick(r) \/ TestRun(r)
    BY <1>3, <1>6, <1>7, <1>8, <1>14
       DEF TriggerStep, CronFire, OnceFire, OnceDropped, EventFire, CooldownElapses, Tick
  <1>15. CASE \E r \in Edited : UpdateRule(r) \/ RescheduleOnce(r)
    BY <1>9, <1>15, SchedulerAssumption
  <1>16. CASE SetMaxConcurrent \/ ClockBack \/ RefreshTimers \/ StopScheduler \/ Restart \/ UNCHANGED vars
    BY <1>3, <1>10, <1>11, <1>16 DEF SetMaxConcurrent, ClockBack, RefreshTimers, vars
  <1> QED  BY <1>13, <1>14, <1>15, <1>16 DEF Next

\* There are no attempts when the scheduler has started for the first time.
LEMMA AttemptsInit == Init => AttemptsBounded
  BY DEF Init, AttemptsBounded, RowAttempts, NoRow

\* A parked retry is of the enabled rule and has attempts left.
LEMMA ParkedIsAllowed == RowsInv /\ RulesInv /\ AttemptsBounded => RetryIsAllowed
  <1> SUFFICES ASSUME RowsInv, RulesInv, AttemptsBounded, NEW r \in Rule, retry[r] # 0
               PROVE  cfg[r].enabled /\ jobs[retry[r]].attempt < MaxRetries[r]
    BY DEF RetryIsAllowed
  <1>1. PICK j \in JobId : j = retry[r]
    BY RowTypes DEF RowsInv
  <1>2. jobs[j].status = "retry-waiting" /\ RuleOf(j) = r
    BY <1>1 DEF RowsInv, RowOwned, Parked, LockInv, ParkedIsIdle
  <1>3. jobs[j].attempt < MaxRetries[r]
    BY <1>2 DEF AttemptsBounded, RowAttempts
  <1> QED  BY <1>1, <1>3 DEF RulesInv, RetryIsCurrent

(* No execution is attempted more often than 1 + maxRetries, and a retry is  *)
(* parked only for an enabled rule whose execution has attempts left, through*)
(* any reload, displacement, stop, restart or partial completion.            *)
THEOREM RetriesCorrect == Spec => [](AttemptsBounded /\ RetryIsAllowed)
  <1>1. Spec => []AttemptsBounded
    BY AttemptsInit, AttemptsStep, RowsInvariant, PTL DEF Spec
  <1> QED  BY <1>1, RowsInvariant, RulesInvariant, ParkedIsAllowed, PTL
=============================================================================
