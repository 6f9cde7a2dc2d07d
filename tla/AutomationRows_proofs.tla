------------------------ MODULE AutomationRows_proofs ------------------------
(***************************************************************************)
(* The life of every job row, for every value of the constants: who owns a  *)
(* pending row, what a stop, a timeout and an alert leave behind (RowsInv), *)
(* and that the engine implements ExecutionLifecycle.                       *)
(*                                                                         *)
(* Most rows are bystanders of a step: they stay, at most pruned or handed  *)
(* a slot, or their parked retry is abandoned.  These cases are proved      *)
(* once; the lemma of an action is about the row it works on.               *)
(***************************************************************************)
EXTENDS AutomationLock_proofs

RowFine(k) == RowKnown(k) /\ RowOwned(k) /\ RowReported(k) /\ RowStopped(k)

\* What ExecutionLifecycle allows a step to do to one execution.
LifeStep(k) ==
  /\ \/ jobs'[k].status = jobs[k].status /\ jobs'[k].rule = jobs[k].rule
     \/ /\ <<jobs[k].status, jobs'[k].status>> \in Edges
        /\ jobs[k].status # "none" /\ jobs'[k].status # "none" => jobs'[k].rule = jobs[k].rule
  /\ \/ alerts'[k] = alerts[k]
     \/ alerts[k] = "none" /\ alerts'[k] = jobs'[k].status
        /\ alerts'[k] \in {"done", "failed", "cancelled"}
        /\ jobs[k].status \in {"running", "cancelled"}

\* No step gives an existing row another rule, source or plan.
SameRow(k) ==
  \/ jobs[k].status = "none" \/ jobs'[k] = NoRow
  \/ /\ jobs'[k].rule = jobs[k].rule /\ jobs'[k].source = jobs[k].source
     /\ jobs'[k].plan = jobs[k].plan

RowMoves(k) == RowFine(k)' /\ LifeStep(k) /\ SameRow(k)

\* The edges of the life cycle, one by one.
LEMMA EdgesTaken ==
  /\ <<"none", "queued">> \in Edges /\ <<"none", "running">> \in Edges /\ <<"none", "skipped">> \in Edges
  /\ <<"queued", "running">> \in Edges /\ <<"queued", "cancelled">> \in Edges
  /\ <<"running", "retry-waiting">> \in Edges /\ <<"running", "done">> \in Edges
  /\ <<"running", "failed">> \in Edges /\ <<"running", "cancelled">> \in Edges
  /\ <<"retry-waiting", "running">> \in Edges /\ <<"retry-waiting", "failed">> \in Edges
  /\ <<"retry-waiting", "cancelled">> \in Edges
  /\ \A s \in JobStatus : <<s, "none">> \in Edges
  BY DEF Edges

-----------------------------------------------------------------------------
(* Updates of one row. *)

\* Row `after` is `before` with the status set to `to` if the WHERE clause matched.
RowTo(before, after, from, to) ==
  /\ after.rule = before.rule /\ after.source = before.source /\ after.plan = before.plan
  /\ before.status \in from => after.status = to
  /\ before.status \notin from => after = before

\* A conditional UPDATE moves its own row along its edge or not at all, and no other.
LEMMA UpdateWhereActs ==
  ASSUME NEW rows \in Table, NEW j \in JobId, NEW from, NEW to, NEW err
  PROVE  /\ RowTo(rows[j], UpdateWhere(rows, j, from, to, err)[j], from, to)
         /\ \A k \in JobId \ {j} : UpdateWhere(rows, j, from, to, err)[k] = rows[k]
  BY DEF UpdateWhere, Table, Row, RowTo

\* The updates that end or park a row, by the edge they take.
LEMMA MarksAct ==
  ASSUME NEW rows \in Table, NEW j \in JobId
  PROVE  /\ RowTo(rows[j], MarkRetryWaiting(rows, j)[j], {"running"}, "retry-waiting")
         /\ RowTo(rows[j], MarkRetryAbandoned(rows, j)[j], {"retry-waiting"}, "failed")
         /\ RowTo(rows[j], MarkDone(rows, j)[j], {"running"}, "done")
         /\ RowTo(rows[j], MarkFailed(rows, j)[j], {"running"}, "failed")
         /\ RowTo(rows[j], MarkCancelled(rows, j)[j], Pending, "cancelled")
         /\ \A k \in JobId \ {j} :
              /\ MarkRetryWaiting(rows, j)[k] = rows[k] /\ MarkRetryAbandoned(rows, j)[k] = rows[k]
              /\ MarkDone(rows, j)[k] = rows[k] /\ MarkFailed(rows, j)[k] = rows[k]
              /\ MarkCancelled(rows, j)[k] = rows[k]
  BY UpdateWhereActs DEF MarkRetryWaiting, MarkRetryAbandoned, MarkDone, MarkFailed, MarkCancelled

\* The admission of a queued row and of a parked one, by the edge they take.
LEMMA AdmissionActs ==
  ASSUME NEW rows \in Table, NEW j \in JobId, NEW n \in Nat
  PROVE  /\ RowTo(rows[j], MarkRunning(rows, j)[j], {"queued"}, "running")
         /\ RowTo(rows[j], MarkRunningAttempt(rows, j, n)[j], {"retry-waiting"}, "running")
         /\ \A k \in JobId \ {j} : /\ MarkRunning(rows, j)[k] = rows[k]
                                   /\ MarkRunningAttempt(rows, j, n)[k] = rows[k]
  BY DEF MarkRunning, MarkRunningAttempt, Table, Row, RowTo

\* A row that did not exist and does not move is the absent row.
LEMMA RowTypes ==
  ASSUME LockInv
  PROVE  /\ jobs \in Table /\ task \in [JobId -> TaskState] /\ retry \in [Rule -> JobId \cup {0}]
         /\ \A k \in JobId : /\ jobs[k].status \in JobStatus \cup {"none"}
                             /\ alerts[k] \in {"none", "done", "failed", "cancelled"}
                             /\ k \in Active <=> task[k].pc \in {"running", "settled"}
                             /\ Parked(k) => task[k].pc = "idle" /\ k <= lastJob
  <1>1. TypeOK /\ ParkedIsIdle
    BY DEF LockInv
  <1>2. jobs \in Table /\ task \in [JobId -> TaskState] /\ retry \in [Rule -> JobId \cup {0}]
    BY <1>1 DEF TypeOK, Table
  <1> SUFFICES ASSUME NEW k \in JobId
               PROVE  /\ jobs[k].status \in JobStatus \cup {"none"}
                      /\ alerts[k] \in {"none", "done", "failed", "cancelled"}
                      /\ k \in Active <=> task[k].pc \in {"running", "settled"}
                      /\ Parked(k) => task[k].pc = "idle" /\ k <= lastJob
    BY <1>2
  <1>3. jobs[k].status \in JobStatus \cup {"none"}
    BY <1>2 DEF Table, Row
  <1>4. alerts[k] \in {"none", "done", "failed", "cancelled"}
    BY <1>1 DEF TypeOK
  <1>5. Parked(k) => task[k].pc = "idle" /\ k <= lastJob
    BY <1>1 DEF Parked, ParkedIsIdle, JobId
  <1> QED  BY <1>3, <1>4, <1>5 DEF Active

-----------------------------------------------------------------------------
(* Bystanders *)

Stays(k) ==
  /\ jobs'[k] = jobs[k] \/ (jobs[k].status = "skipped" /\ jobs'[k] = NoRow)
  /\ \/ task'[k] = task[k]
     \/ task[k].pc = "slot" /\ task'[k] = [task[k] EXCEPT !.pc = "granted"]
     \/ task'[k] = Invalidated[k]
  /\ Parked(k)' <=> Parked(k)
  /\ alerts'[k] = alerts[k]
  /\ k \in zombies' => k \in zombies
  /\ k \in cancelled' <=> k \in cancelled

\* A bystander keeps what is known of it, also through the step that stops the scheduler.
LEMMA StayingThroughStop ==
  ASSUME LockInv, LockInv', NEW k \in JobId, RowFine(k), Stays(k), lastJob <= lastJob',
         stopping => stopping', stopping' => stopping \/ RowStopped(k)'
  PROVE  RowMoves(k)
  <1>1. lastJob \in Nat /\ lastJob' \in Nat /\ k \in Nat
    BY DEF LockInv, TypeOK, JobId
  <1>2. /\ task[k] \in TaskState
        /\ jobs[k].status = "skipped" => task[k].pc = "idle"
    BY DEF LockInv, TypeOK, BusyRowsExist, Alive, Busy
  <1>3. /\ task'[k].resume = task[k].resume
        /\ task'[k].pc = task[k].pc \/ (task[k].pc = "slot" /\ task'[k].pc \in {"granted", "rejected"})
    BY <1>2 DEF Stays, TaskState, Invalidated
  <1>4. /\ Waiting(k)' <=> Waiting(k)
        /\ (k \in Active)' <=> k \in Active
        /\ task'[k].pc = "idle" <=> task[k].pc = "idle"
        /\ task'[k].pc = "settled" <=> task[k].pc = "settled"
        /\ task'[k].pc = "slot" => task[k].pc = "slot"
    BY <1>3 DEF Waiting, Active
  <1>5. CASE jobs'[k] = jobs[k]
    <2>1. RowKnown(k)'
      BY <1>1, <1>5 DEF RowFine, RowKnown, RuleOf, Stays
    <2>2. RowOwned(k)'
      BY <1>3, <1>4, <1>5 DEF RowFine, RowOwned, Stays, WasCancelled
    <2>3. RowReported(k)' /\ RowStopped(k)'
      BY <1>3, <1>4, <1>5 DEF RowFine, RowReported, RowStopped, Stays
    <2> QED  BY <1>5, <2>1, <2>2, <2>3 DEF RowMoves, RowFine, LifeStep, SameRow, Stays
  <1>6. CASE jobs[k].status = "skipped" /\ jobs'[k] = NoRow
    <2>1. /\ jobs'[k].status = "none" /\ jobs'[k].source = "none"
          /\ ~(k \in Active) /\ ~Waiting(k) /\ ~Parked(k) /\ task[k].pc = "idle" /\ k <= lastJob
      BY <1>1, <1>2, <1>6 DEF NoRow, RowFine, RowOwned, RowKnown, Active, Waiting
    <2>2. RowKnown(k)'
      BY <1>1, <1>6, <2>1 DEF RowKnown
    <2>3. RowOwned(k)'
      BY <1>4, <2>1 DEF RowOwned, Stays
    <2>4. RowReported(k)' /\ RowStopped(k)'
      BY <1>4, <1>6, <2>1 DEF RowFine, RowReported, RowStopped, Stays, Pending
    <2>5. LifeStep(k)
      BY <1>6, <2>1, EdgesTaken DEF LifeStep, Stays, JobStatus, Terminal
    <2> QED  BY <1>6, <2>2, <2>3, <2>4, <2>5 DEF RowMoves, RowFine, SameRow
  <1> QED  BY <1>5, <1>6 DEF Stays

\* A bystander keeps what is known of it.
LEMMA StayingKeeps ==
  ASSUME LockInv, LockInv', NEW k \in JobId, RowFine(k), Stays(k),
         stopping' = stopping, lastJob <= lastJob'
  PROVE  RowMoves(k)
  BY StayingThroughStop

\* clearRetry: a parked row is ended without a call.
Abandons(k) ==
  /\ Parked(k) /\ ~Parked(k)'
  /\ RowTo(jobs[k], jobs'[k], {"retry-waiting"}, "failed")
  /\ task'[k].pc = "idle"
  /\ alerts'[k] = alerts[k]
  /\ k \in zombies' => k \in zombies

\* A parked row whose retry is cleared ends as failed, along an edge.
LEMMA AbandoningKeeps ==
  ASSUME LockInv, LockInv', NEW k \in JobId, RowFine(k), Abandons(k), lastJob <= lastJob'
  PROVE  RowMoves(k)
  <1>1. /\ jobs[k].status = "retry-waiting" /\ jobs'[k].status = "failed"
        /\ jobs'[k].rule = jobs[k].rule /\ jobs'[k].source = jobs[k].source /\ jobs'[k].plan = jobs[k].plan
    BY DEF Abandons, RowTo, RowFine, RowOwned
  <1>2. alerts[k] = "none" /\ alerts'[k] = "none"
    BY <1>1, RowTypes DEF Abandons, RowFine, RowReported
  <1>3. lastJob \in Nat /\ lastJob' \in Nat /\ k \in Nat /\ k <= lastJob
    BY <1>1 DEF LockInv, TypeOK, JobId, RowFine, RowKnown
  <1>4. RowKnown(k)'
    BY <1>1, <1>3 DEF RowFine, RowKnown, RuleOf
  <1>5. RowOwned(k)'
    BY <1>1 DEF RowOwned, Abandons, Active, Waiting
  <1>6. RowReported(k)' /\ RowStopped(k)'
    BY <1>1, <1>2 DEF RowReported, RowStopped, Abandons, Pending
  <1>7. LifeStep(k)
    BY <1>1, <1>2, EdgesTaken DEF LifeStep
  <1> QED  BY <1>1, <1>4, <1>5, <1>6, <1>7 DEF RowMoves, RowFine, SameRow

-----------------------------------------------------------------------------
(* Rows whose call ends *)

\* A row with a call is not parked, has raised no alert, and was handed out.
LEMMA BusyRow ==
  ASSUME LockInv, NEW j \in JobId, RowFine(j), task[j].pc # "idle"
  PROVE  /\ ~Parked(j) /\ alerts[j] = "none" /\ j \in Nat /\ j <= lastJob /\ lastJob \in Nat
         /\ RuleOf(j) \in Rule /\ jobs[j].status \notin {"none", "skipped"}
  <1>1. j \in Busy /\ RowsInOrder /\ BusyRowsExist
    BY DEF LockInv, Busy
  <1>2. j \in Nat /\ lastJob \in Nat /\ j <= lastJob /\ RuleOf(j) \in Rule
        /\ jobs[j].status \notin {"none", "skipped"}
    BY <1>1 DEF LockInv, TypeOK, JobId, RowsInOrder, BusyRowsExist, Alive
  <1>3. ~Parked(j)
    BY RowTypes
  <1>4. alerts[j] = "none"
    BY RowTypes DEF RowFine, RowReported
  <1> QED  BY <1>2, <1>3, <1>4

\* releaseRunSlot by one call: the others wait on, or are granted its slot.
LEMMA ReleaseMoves ==
  ASSUME LockInv, NEW j \in Busy, task[j].pc # "slot", ReleaseRunSlot(j)
  PROVE  /\ task'[j] = NoTask
         /\ \A k \in JobId \ {j} :
              task'[k] = task[k] \/ (task[k].pc = "slot" /\ task'[k] = [task[k] EXCEPT !.pc = "granted"])
  <1> DEFINE q == slots.queue
             ended == [task EXCEPT ![j] = NoTask]
  <1>1. /\ q \in Seq(JobId)
        /\ \A i \in 1 .. Len(q) : q[i] \in JobId /\ task[q[i]].pc = "slot"
    BY DEF LockInv, TypeOK, QueueWaits
  <1>2. task \in [JobId -> TaskState] /\ j \in JobId
    BY DEF LockInv, TypeOK, Busy
  <1>3. ended \in [JobId -> TaskState] /\ ended[j] = NoTask /\ \A k \in JobId \ {j} : ended[k] = task[k]
    BY <1>2, NoTaskType
  <1>4. CASE q # <<>> /\ ~stopping
    <2> DEFINE h == Head(q)
    <2>1. task' = [ended EXCEPT ![h].pc = "granted"]
      BY <1>4 DEF ReleaseRunSlot
    <2>2. Len(q) >= 1 /\ h = q[1]
      BY <1>1, <1>4
    <2>3. h \in JobId /\ task[h].pc = "slot" /\ h # j
      BY <1>1, <2>2
    <2> HIDE DEF ended, h
    <2>4. task'[h] = [ended[h] EXCEPT !.pc = "granted"] /\ \A k \in JobId \ {h} : task'[k] = ended[k]
      BY <1>3, <2>1, <2>3
    <2> QED  BY <1>2, <1>3, <2>3, <2>4
  <1>5. CASE ~(q # <<>> /\ ~stopping)
    <2>1. task' = ended
      BY <1>5 DEF ReleaseRunSlot
    <2> QED  BY <1>3, <2>1
  <1> QED  BY <1>4, <1>5

\* A call that never reached admission leaves a final row.
LEMMA GivingUpKeeps ==
  ASSUME LockInv, LockInv', NEW j \in JobId, RowFine(j), Waiting(j),
         RowTo(jobs[j], jobs'[j], IF task[j].resume THEN {"retry-waiting"} ELSE Pending,
                                  IF task[j].resume THEN "failed" ELSE "cancelled"),
         task'[j].pc = "idle", UNCHANGED <<retry, alerts, zombies, stopping, lastJob>>
  PROVE  RowMoves(j)
  <1>1. task[j].pc \notin {"idle", "running", "settled"} /\ ~(j \in Active)
    BY DEF Waiting, Active
  <1>2. /\ ~Parked(j) /\ alerts[j] = "none" /\ j \in Nat /\ j <= lastJob /\ lastJob \in Nat
        /\ RuleOf(j) \in Rule /\ jobs[j].status \notin {"none", "skipped"}
    BY <1>1, BusyRow
  <1>3. /\ jobs[j].status # "running" /\ jobs[j].source # "test"
        /\ jobs[j].status = "queued" => ~task[j].resume
        /\ j \notin zombies
    BY <1>1 DEF RowFine, RowOwned, RowReported
  <1>4. /\ jobs'[j].rule = jobs[j].rule /\ jobs'[j].source = jobs[j].source /\ jobs'[j].plan = jobs[j].plan
        /\ jobs'[j].status \notin Pending /\ jobs'[j].status # "none"
        /\ \/ jobs'[j].status = jobs[j].status
           \/ <<jobs[j].status, jobs'[j].status>> \in Edges
    <2>1. CASE task[j].resume
      BY <1>2, <1>3, <2>1, EdgesTaken DEF RowTo, Pending
    <2>2. CASE ~task[j].resume
      BY <1>2, <1>3, <2>2, EdgesTaken DEF RowTo, Pending
    <2> QED  BY <2>1, <2>2
  <1>5. ~Parked(j)' /\ ~(j \in Active)' /\ ~Waiting(j)'
    BY <1>2 DEF Parked, Active, Waiting
  <1>6. RowKnown(j)'
    BY <1>2, <1>4 DEF RowFine, RowKnown, RuleOf
  <1>7. RowOwned(j)' /\ RowReported(j)' /\ RowStopped(j)'
    BY <1>2, <1>3, <1>4, <1>5 DEF RowOwned, RowReported, RowStopped, Pending
  <1> QED  BY <1>4, <1>6, <1>7 DEF RowMoves, RowFine, LifeStep, SameRow

\* A call that never started fails the row it was to resume, or cancels the row it queued.
LEMMA UnstartedActs ==
  ASSUME LockInv, NEW j \in JobId
  PROVE  /\ RowTo(jobs[j], Unstarted(j)[j], IF task[j].resume THEN {"retry-waiting"} ELSE Pending,
                                            IF task[j].resume THEN "failed" ELSE "cancelled")
         /\ \A k \in JobId \ {j} : Unstarted(j)[k] = jobs[k]
  BY RowTypes, MarksAct DEF Unstarted

\* A call that never reaches its action leaves no pending row behind.
LEMMA RowsGiveUp ==
  ASSUME RowsInv, LockInv', NEW j \in JobId, SlotRejected(j) \/ GiveUp(j)
  PROVE  \A k \in JobId : RowMoves(k)
  <1>1. LockInv /\ (\A k \in JobId : RowFine(k)) /\ j \in Busy /\ Waiting(j) /\ task[j].pc # "slot"
    BY DEF RowsInv, RowFine, SlotRejected, GiveUp, Busy, Waiting
  <1>2. /\ jobs' = Unstarted(j) /\ UNCHANGED <<retry, alerts, zombies, stopping, lastJob>>
        /\ \A k \in JobId \ {j} : k \in cancelled' <=> k \in cancelled
    BY DEF SlotRejected, GiveUp
  <1>3. /\ task'[j].pc = "idle"
        /\ \A k \in JobId \ {j} :
             task'[k] = task[k] \/ (task[k].pc = "slot" /\ task'[k] = [task[k] EXCEPT !.pc = "granted"])
    <2>1. CASE SlotRejected(j)
      BY <1>1, <2>1, RowTypes DEF SlotRejected, NoTask
    <2>2. CASE GiveUp(j)
      BY <1>1, <2>2, ReleaseMoves DEF GiveUp, NoTask
    <2> QED  BY <2>1, <2>2
  <1>4. RowMoves(j)
    BY <1>1, <1>2, <1>3, UnstartedActs, GivingUpKeeps
  <1>5. ASSUME NEW k \in JobId, k # j
        PROVE  RowMoves(k)
    <2>1. jobs'[k] = jobs[k]
      BY <1>1, <1>2, <1>5, UnstartedActs
    <2>2. Stays(k)
      BY <1>2, <1>3, <1>5, <2>1 DEF Stays, Parked
    <2>3. lastJob <= lastJob'
      BY <1>1, <1>2 DEF LockInv, TypeOK
    <2> QED  BY <1>1, <1>2, <2>2, <2>3, StayingKeeps
  <1> QED  BY <1>4, <1>5

\* A call that is admitted has its row running.
LEMMA RowsAdmit ==
  ASSUME RowsInv, LockInv', NEW j \in JobId, Admit(j)
  PROVE  \A k \in JobId : RowMoves(k)
  <1>1. LockInv /\ (\A k \in JobId : RowFine(k)) /\ task[j].pc = "granted" /\ Waiting(j) /\ ~stopping
    BY DEF RowsInv, RowFine, Admit, Waiting, StillCurrent
  <1>2. /\ task' = [task EXCEPT ![j].pc = "running"] /\ task \in [JobId -> TaskState] /\ jobs \in Table
        /\ UNCHANGED <<retry, alerts, zombies, cancelled, stopping, lastJob>>
    BY <1>1, RowTypes DEF Admit
  <1>3. task'[j].pc = "running" /\ \A k \in JobId \ {j} : task'[k] = task[k]
    BY <1>2 DEF TaskState
  <1>4. /\ \A k \in JobId \ {j} : jobs'[k] = jobs[k]
        /\ jobs'[j].status = "running" /\ <<jobs[j].status, "running">> \in Edges
        /\ jobs'[j].rule = jobs[j].rule /\ jobs'[j].source = jobs[j].source /\ jobs'[j].plan = jobs[j].plan
    <2>1. jobs[j].attempt + 1 \in Nat
      BY <1>2 DEF Table, Row
    <2>2. CASE task[j].resume
      <3>1. jobs' = MarkRunningAttempt(jobs, j, jobs[j].attempt + 1) /\ jobs[j].status = "retry-waiting"
        BY <2>2 DEF Admit, Admitted
      <3> QED  BY <1>2, <2>1, <3>1, AdmissionActs, EdgesTaken DEF RowTo
    <2>3. CASE ~task[j].resume
      <3>1. jobs' = MarkRunning(jobs, j) /\ jobs[j].status = "queued"
        BY <2>3 DEF Admit, Admitted
      <3> QED  BY <1>2, <3>1, AdmissionActs, EdgesTaken DEF RowTo
    <2> QED  BY <2>2, <2>3
  <1>5. /\ ~Parked(j) /\ alerts[j] = "none" /\ j \in Nat /\ j <= lastJob /\ lastJob \in Nat
        /\ RuleOf(j) \in Rule /\ jobs[j].source # "test" /\ j \notin zombies
        /\ jobs[j].status # "none"
    BY <1>1, BusyRow DEF RowFine, RowOwned, RowReported
  <1>6. RowMoves(j)
    <2>1. ~Parked(j)' /\ (j \in Active)' /\ ~Waiting(j)'
      BY <1>2, <1>3, <1>5 DEF Parked, Active, Waiting
    <2>2. RowKnown(j)'
      BY <1>1, <1>2, <1>4, <1>5 DEF RowFine, RowKnown, RuleOf
    <2>3. RowOwned(j)' /\ RowReported(j)' /\ RowStopped(j)'
      BY <1>1, <1>2, <1>4, <1>5, <2>1 DEF RowOwned, RowReported, RowStopped
    <2> QED  BY <1>2, <1>4, <2>2, <2>3 DEF RowMoves, RowFine, LifeStep, SameRow
  <1>7. ASSUME NEW k \in JobId, k # j
        PROVE  RowMoves(k)
    <2>1. Stays(k)
      BY <1>2, <1>3, <1>4, <1>7 DEF Stays, Parked
    <2> QED  BY <1>1, <1>2, <1>5, <2>1, StayingKeeps
  <1> QED  BY <1>6, <1>7

\* When an action settles its row stays; a run that timed out is flagged.
LEMMA RowsSettle ==
  ASSUME RowsInv, LockInv', NEW j \in JobId, Settle(j)
  PROVE  \A k \in JobId : RowMoves(k)
  <1> DEFINE mid == [task EXCEPT ![j].pc = "settled"]
  <1>1. LockInv /\ (\A k \in JobId : RowFine(k)) /\ task[j].pc = "running" /\ j \in Active
    BY DEF RowsInv, RowFine, Settle, Active
  <1>2. PICK o \in {"ok", "fail", "failFinal", "timeout"} :
          /\ task' = [mid EXCEPT ![j].outcome = o]
          /\ zombies' = IF o = "timeout" THEN zombies \cup {j} ELSE zombies
          /\ cancelled' = IF o = "timeout" /\ jobs[j].source # "test"
                          THEN cancelled \cup {j} ELSE cancelled
    BY DEF Settle
  <1>3. mid \in [JobId -> TaskState] /\ mid[j].pc = "settled" /\ \A k \in JobId \ {j} : mid[k] = task[k]
    BY <1>1, RowTypes DEF TaskState
  <1> HIDE DEF mid
  <1>4. task'[j].pc = "settled" /\ \A k \in JobId \ {j} : task'[k] = task[k]
    BY <1>2, <1>3 DEF TaskState
  <1>5. UNCHANGED <<jobs, retry, alerts, stopping, lastJob>>
    BY DEF Settle
  <1>6. /\ ~Parked(j) /\ alerts[j] = "none" /\ j \in Nat /\ j <= lastJob /\ lastJob \in Nat
    BY <1>1, BusyRow
  <1>7. RowMoves(j)
    <2>1. ~Parked(j)' /\ (j \in Active)' /\ ~Waiting(j)'
      BY <1>4, <1>5, <1>6 DEF Parked, Active, Waiting
    <2>2. RowKnown(j)'
      BY <1>1, <1>5, <1>6 DEF RowFine, RowKnown, RuleOf
    <2>3. RowOwned(j)'
      BY <1>1, <1>2, <1>5, <2>1 DEF RowFine, RowOwned, WasCancelled, Waiting
    <2>4. RowReported(j)'
      BY <1>1, <1>2, <1>4, <1>5, <1>6 DEF RowFine, RowReported
    <2>5. RowStopped(j)'
      BY <1>1, <1>4, <1>5, <2>1 DEF RowFine, RowStopped
    <2> QED  BY <1>5, <2>2, <2>3, <2>4, <2>5 DEF RowMoves, RowFine, LifeStep, SameRow
  <1>8. ASSUME NEW k \in JobId, k # j
        PROVE  RowMoves(k)
    <2>1. Stays(k)
      BY <1>2, <1>4, <1>5, <1>8 DEF Stays, Parked
    <2>2. lastJob <= lastJob' /\ stopping' = stopping
      BY <1>5, <1>6
    <2> QED  BY <1>1, <2>1, <2>2, StayingKeeps
  <1> QED  BY <1>7, <1>8

\* A call that ran ends with a final row and, if it is not a test, its alert.
LEMMA EndingKeeps ==
  ASSUME LockInv, LockInv', NEW j \in JobId, RowFine(j), j \in Active,
         NEW e \in {"done", "failed", "cancelled"},
         jobs'[j].status = e, jobs'[j].rule = jobs[j].rule, jobs'[j].source = jobs[j].source,
         jobs'[j].plan = jobs[j].plan,
         jobs[j].status = "running" \/ jobs[j].status = e,
         alerts'[j] = "none" \/ (alerts'[j] = e /\ jobs[j].source # "test"),
         task'[j].pc = "idle", ~Parked(j)', lastJob' = lastJob
  PROVE  RowMoves(j)
  <1>1. task[j].pc # "idle"
    BY RowTypes
  <1>2. /\ alerts[j] = "none" /\ j \in Nat /\ j <= lastJob /\ lastJob \in Nat /\ RuleOf(j) \in Rule
    BY <1>1, BusyRow
  <1>3. ~(j \in Active)' /\ ~Waiting(j)'
    BY DEF Active, Waiting
  <1>4. RowKnown(j)'
    BY <1>2 DEF RowFine, RowKnown, RuleOf
  <1>5. RowOwned(j)' /\ RowReported(j)' /\ RowStopped(j)'
    BY <1>3 DEF RowOwned, RowReported, RowStopped, Pending
  <1>6. LifeStep(j)
    <2>1. jobs[j].status \in {"running", "cancelled"}
      BY DEF RowFine, RowOwned
    <2> QED  BY <1>2, <2>1, EdgesTaken DEF LifeStep
  <1> QED  BY <1>4, <1>5, <1>6 DEF RowMoves, RowFine, SameRow

\* A test that ends is neither parked nor alerted.
LEMMA RowsTestComplete ==
  ASSUME RowsInv, LockInv', NEW j \in JobId, TestComplete(j)
  PROVE  \A k \in JobId : RowMoves(k)
  <1>1. LockInv /\ (\A k \in JobId : RowFine(k)) /\ j \in Active /\ jobs \in Table
    BY RowTypes DEF RowsInv, RowFine, TestComplete, Active
  <1>2. /\ task' = [task EXCEPT ![j] = NoTask] /\ UNCHANGED <<retry, alerts, zombies, stopping, lastJob>>
        /\ cancelled' = cancelled \ {j}
    BY DEF TestComplete
  <1>3. task'[j].pc = "idle" /\ \A k \in JobId \ {j} : task'[k] = task[k]
    BY <1>1, <1>2, RowTypes DEF NoTask
  <1>4. task[j].pc # "idle" /\ ~Parked(j) /\ alerts[j] = "none" /\ lastJob \in Nat
    BY <1>1, RowTypes, BusyRow
  <1>5. /\ \A k \in JobId \ {j} : jobs'[k] = jobs[k]
        /\ jobs'[j].rule = jobs[j].rule /\ jobs'[j].source = jobs[j].source /\ jobs'[j].plan = jobs[j].plan
        /\ \E e \in {"done", "failed", "cancelled"} :
             jobs'[j].status = e /\ (jobs[j].status = "running" \/ jobs[j].status = e)
    <2>1. jobs[j].status = "running" \/ (jobs[j].status = "cancelled" /\ WasCancelled(j))
      BY <1>1 DEF RowFine, RowOwned
    <2>2. CASE WasCancelled(j)
      <3>1. jobs' = MarkCancelled(jobs, j)
        BY <2>2 DEF TestComplete
      <3> QED  BY <1>1, <2>1, <3>1, MarksAct DEF RowTo, Pending
    <2>3. CASE ~WasCancelled(j) /\ Succeeded(j)
      <3>1. jobs' = MarkDone(jobs, j)
        BY <2>3 DEF TestComplete
      <3> QED  BY <1>1, <2>1, <2>3, <3>1, MarksAct DEF RowTo
    <2>4. CASE ~WasCancelled(j) /\ ~Succeeded(j)
      <3>1. jobs' = MarkFailed(jobs, j)
        BY <2>4 DEF TestComplete
      <3> QED  BY <1>1, <2>1, <2>4, <3>1, MarksAct DEF RowTo
    <2> QED  BY <2>2, <2>3, <2>4
  <1>6. RowMoves(j)
    <2>1. ~Parked(j)' /\ alerts'[j] = "none" /\ lastJob' = lastJob
      BY <1>2, <1>4 DEF Parked
    <2>2. PICK e \in {"done", "failed", "cancelled"} :
            jobs'[j].status = e /\ (jobs[j].status = "running" \/ jobs[j].status = e)
      BY <1>5
    <2> QED  BY <1>1, <1>3, <1>5, <2>1, <2>2, EndingKeeps
  <1>7. ASSUME NEW k \in JobId, k # j
        PROVE  RowMoves(k)
    <2>1. Stays(k)
      BY <1>2, <1>3, <1>5, <1>7 DEF Stays, Parked
    <2> QED  BY <1>1, <1>2, <1>4, <2>1, StayingKeeps
  <1> QED  BY <1>6, <1>7

\* What the row updates of a completion do; a retry parked by an older run is displaced.
LEMMA CompletedRowsAct ==
  ASSUME LockInv, NEW j \in JobId, ~Parked(j), RuleOf(j) \in Rule
  PROVE  /\ WasCancelled(j) => RowTo(jobs[j], CompletedRows(j)[j], Pending, "cancelled")
         /\ Succeeded(j) => RowTo(jobs[j], CompletedRows(j)[j], {"running"}, "done")
         /\ ~WasCancelled(j) /\ ~Succeeded(j) /\ ~Parks(j) =>
              RowTo(jobs[j], CompletedRows(j)[j], {"running"}, "failed")
         /\ Parks(j) => RowTo(jobs[j], CompletedRows(j)[j], {"running"}, "retry-waiting")
         /\ \A k \in JobId \ {j} :
              IF Parks(j) /\ retry[RuleOf(j)] = k
              THEN RowTo(jobs[k], CompletedRows(j)[k], {"retry-waiting"}, "failed")
              ELSE CompletedRows(j)[k] = jobs[k]
  <1> DEFINE other == retry[RuleOf(j)]
             mid == IF other = 0 THEN jobs ELSE MarkRetryAbandoned(jobs, other)
  <1>1. jobs \in Table /\ other \in JobId \cup {0} /\ other # j
    BY RowTypes DEF Parked
  <1>2. Succeeded(j) => ~WasCancelled(j) /\ ~Parks(j)
    BY DEF Succeeded, Parks, Retrying
  <1>3. CASE WasCancelled(j)
    <2>1. CompletedRows(j) = MarkCancelled(jobs, j) /\ ~Parks(j) /\ ~Succeeded(j)
      BY <1>3 DEF CompletedRows, Parks, Retrying, Succeeded
    <2> QED  BY <1>1, <1>3, <2>1, MarksAct
  <1>4. CASE Succeeded(j)
    <2>1. CompletedRows(j) = MarkDone(jobs, j)
      BY <1>2, <1>4 DEF CompletedRows
    <2> QED  BY <1>1, <1>2, <1>4, <2>1, MarksAct
  <1>5. CASE ~WasCancelled(j) /\ ~Succeeded(j) /\ ~Parks(j)
    <2>1. CompletedRows(j) = MarkFailed(jobs, j)
      BY <1>5 DEF CompletedRows
    <2> QED  BY <1>1, <1>5, <2>1, MarksAct
  <1>6. CASE Parks(j)
    <2>1. ~WasCancelled(j) /\ ~Succeeded(j)
      BY <1>2, <1>6 DEF Parks, Retrying
    <2>2. CompletedRows(j) = MarkRetryWaiting(mid, j)
      BY <1>6, <2>1 DEF CompletedRows
    <2>3. /\ mid \in Table /\ mid[j] = jobs[j]
          /\ \A k \in JobId \ {j} : IF other = k THEN RowTo(jobs[k], mid[k], {"retry-waiting"}, "failed")
                                                 ELSE mid[k] = jobs[k]
      <3>1. CASE other = 0
        <4>1. \A k \in JobId : k # 0
          BY DEF JobId
        <4> QED  BY <1>1, <3>1, <4>1
      <3>2. CASE other # 0
        <4>1. other \in JobId /\ mid = MarkRetryAbandoned(jobs, other)
          BY <1>1, <3>2
        <4> HIDE DEF mid, other
        <4>2. mid \in Table
          BY <1>1, <4>1, MarkKeeps
        <4> QED  BY <1>1, <4>1, <4>2, MarksAct
      <3> QED  BY <3>1, <3>2
    <2> HIDE DEF mid
    <2>4. /\ RowTo(mid[j], CompletedRows(j)[j], {"running"}, "retry-waiting")
          /\ \A k \in JobId \ {j} : CompletedRows(j)[k] = mid[k]
      BY <2>2, <2>3, MarksAct
    <2> QED  BY <1>6, <2>1, <2>3, <2>4
  <1> QED  BY <1>3, <1>4, <1>5, <1>6

\* A run that ends parks its row or ends it, and alerts only what it ended.
LEMMA RowsComplete ==
  ASSUME RowsInv, LockInv', NEW j \in JobId, Complete(j)
  PROVE  \A k \in JobId : RowMoves(k)
  <1>1. /\ LockInv /\ (\A k \in JobId : RowFine(k)) /\ j \in Active /\ j \in Busy
        /\ task[j].pc = "settled" /\ jobs[j].source # "test"
    BY DEF RowsInv, RowFine, Complete, Active, Busy
  <1>2. /\ ~Parked(j) /\ alerts[j] = "none" /\ j \in Nat /\ j <= lastJob /\ lastJob \in Nat
        /\ RuleOf(j) \in Rule /\ jobs[j].status # "none"
    BY <1>1, BusyRow
  <1>3. /\ jobs' = CompletedRows(j) /\ UNCHANGED <<zombies, stopping, lastJob>>
        /\ alerts' = CompletedAlerts(j) /\ alerts \in [JobId -> {"none", "done", "failed", "cancelled"}]
        /\ retry' = (IF Parks(j) THEN [retry EXCEPT ![RuleOf(j)] = j] ELSE retry)
        /\ retry \in [Rule -> JobId \cup {0}]
        /\ cancelled' = cancelled \ {j}
    BY <1>1 DEF Complete, LockInv, TypeOK
  <1>4. /\ task'[j].pc = "idle"
        /\ \A k \in JobId \ {j} :
             task'[k] = task[k] \/ (task[k].pc = "slot" /\ task'[k] = [task[k] EXCEPT !.pc = "granted"])
    BY <1>1, ReleaseMoves DEF Complete, NoTask
  <1>5. lastJob <= lastJob' /\ stopping' = stopping
    BY <1>2, <1>3
  <1>6. jobs[j].status = "running" \/ (jobs[j].status = "cancelled" /\ WasCancelled(j))
    BY <1>1 DEF RowFine, RowOwned
  <1>7. CASE Parks(j)
    <2>1. ~WasCancelled(j) /\ jobs[j].status = "running" /\ ~stopping /\ j \notin cancelled
      BY <1>6, <1>7 DEF Parks, Retrying, WasCancelled
    <2>2. /\ jobs'[j].status = "retry-waiting" /\ jobs'[j].rule = jobs[j].rule
          /\ jobs'[j].source = jobs[j].source /\ jobs'[j].plan = jobs[j].plan
      BY <1>2, <1>1, <1>3, <1>7, <2>1, CompletedRowsAct DEF RowTo
    <2>3. alerts' = alerts
      BY <1>3, <1>7 DEF CompletedAlerts
    <2>4. Parked(j)' /\ ~(j \in Active)' /\ ~Waiting(j)'
      BY <1>2, <1>3, <1>4, <1>7 DEF Parked, Active, Waiting
    <2>5. j \notin zombies
      BY <1>1, <2>1 DEF RowFine, RowReported
    <2> QED
      <3>1. RowKnown(j)'
        BY <1>1, <1>2, <1>3, <2>2 DEF RowFine, RowKnown, RuleOf
      <3>2. RowOwned(j)' /\ RowReported(j)' /\ RowStopped(j)'
        BY <1>1, <1>2, <1>3, <2>1, <2>2, <2>3, <2>4, <2>5 DEF RowOwned, RowReported, RowStopped
      <3>3. RowMoves(j)
        BY <2>1, <2>2, <2>3, <3>1, <3>2, EdgesTaken DEF RowMoves, RowFine, LifeStep, SameRow
      <3>4. ASSUME NEW k \in JobId, k # j, retry[RuleOf(j)] = k
            PROVE  RowMoves(k)
        <4>1. Parked(k) /\ task[k].pc = "idle" /\ RuleOf(k) = RuleOf(j)
          <5>1. k # 0
            BY DEF JobId
          <5> QED  BY <1>1, <1>2, <3>4, <5>1 DEF Parked, LockInv, ParkedIsIdle
        <4>2. ASSUME NEW r \in Rule PROVE retry'[r] # k
          <5>1. k # 0
            BY DEF JobId
          <5>2. retry[r] = k => r = RuleOf(k)
            BY <1>1, <5>1 DEF LockInv, ParkedIsIdle
          <5> QED  BY <1>2, <1>3, <1>7, <3>4, <4>1, <5>2
        <4>3. RowTo(jobs[k], jobs'[k], {"retry-waiting"}, "failed")
          BY <1>1, <1>2, <1>3, <1>7, <3>4, CompletedRowsAct
        <4>4. Abandons(k)
          BY <1>3, <1>4, <2>3, <3>4, <4>1, <4>2, <4>3 DEF Abandons, Parked
        <4> QED  BY <1>1, <1>5, <4>4, AbandoningKeeps
      <3>5. ASSUME NEW k \in JobId, k # j, retry[RuleOf(j)] # k
            PROVE  RowMoves(k)
        <4>1. jobs'[k] = jobs[k]
          BY <1>1, <1>2, <1>3, <3>5, CompletedRowsAct
        <4>2. Parked(k)' <=> Parked(k)
          BY <1>2, <1>3, <1>7, <3>5 DEF Parked
        <4>3. Stays(k)
          BY <1>3, <1>4, <2>3, <3>5, <4>1, <4>2 DEF Stays
        <4> QED  BY <1>1, <1>5, <4>3, StayingKeeps
      <3> QED  BY <3>3, <3>4, <3>5
  <1>8. CASE ~Parks(j)
    <2>1. ~Parked(j)' /\ lastJob' = lastJob
      BY <1>2, <1>3, <1>8 DEF Parked
    <2>2. /\ \A k \in JobId \ {j} : alerts'[k] = alerts[k] /\ jobs'[k] = jobs[k]
          /\ alerts'[j] = IF WasCancelled(j) THEN "cancelled"
                          ELSE IF Succeeded(j) THEN "done" ELSE "failed"
      BY <1>1, <1>2, <1>3, <1>8, CompletedRowsAct DEF CompletedAlerts
    <2>3. PICK e \in {"done", "failed", "cancelled"} :
            /\ jobs'[j].status = e /\ alerts'[j] = e
            /\ jobs[j].status = "running" \/ jobs[j].status = e
      <3>1. CASE WasCancelled(j)
        <4>1. RowTo(jobs[j], jobs'[j], Pending, "cancelled")
          BY <1>1, <1>2, <1>3, <3>1, CompletedRowsAct
        <4> QED  BY <1>6, <2>2, <3>1, <4>1 DEF RowTo, Pending
      <3>2. CASE ~WasCancelled(j) /\ Succeeded(j)
        <4>1. RowTo(jobs[j], jobs'[j], {"running"}, "done")
          BY <1>1, <1>2, <1>3, <3>2, CompletedRowsAct
        <4> QED  BY <1>6, <2>2, <3>2, <4>1 DEF RowTo
      <3>3. CASE ~WasCancelled(j) /\ ~Succeeded(j)
        <4>1. RowTo(jobs[j], jobs'[j], {"running"}, "failed")
          BY <1>1, <1>2, <1>3, <1>8, <3>3, CompletedRowsAct
        <4> QED  BY <1>6, <2>2, <3>3, <4>1 DEF RowTo
      <3> QED  BY <3>1, <3>2, <3>3
    <2>4. jobs'[j].rule = jobs[j].rule /\ jobs'[j].source = jobs[j].source /\ jobs'[j].plan = jobs[j].plan
      BY <1>1, <1>2, <1>3, <1>8, CompletedRowsAct DEF RowTo
    <2>5. RowMoves(j)
      BY <1>1, <1>4, <2>1, <2>3, <2>4, EndingKeeps
    <2>6. ASSUME NEW k \in JobId, k # j
          PROVE  RowMoves(k)
      <3>1. Parked(k)' <=> Parked(k)
        BY <1>3, <1>8 DEF Parked
      <3>2. Stays(k)
        BY <1>3, <1>4, <2>2, <2>6, <3>1 DEF Stays
      <3> QED  BY <1>1, <1>5, <3>2, StayingKeeps
    <2> QED  BY <2>5, <2>6
  <1> QED  BY <1>7, <1>8

-----------------------------------------------------------------------------
(* Rows that begin or resume a call *)

LEMMA AcquireActs ==
  ASSUME LockInv, NEW j \in JobId, NEW resume \in BOOLEAN, AcquireRunSlot(j, resume)
  PROVE  /\ task'[j].pc \in {"granted", "slot"} /\ task'[j].resume = resume /\ task'[j].fresh
         /\ \A k \in JobId \ {j} : task'[k] = task[k]
  BY RowTypes DEF AcquireRunSlot, TaskState

\* The row the next INSERT takes has left no trace.
LEMMA FreshRow ==
  ASSUME RowsInv, lastJob < MaxJobs
  PROVE  /\ lastJob + 1 \in JobId /\ lastJob \in Nat
         /\ jobs[lastJob + 1] = NoRow /\ alerts[lastJob + 1] = "none"
         /\ lastJob + 1 \notin zombies /\ ~Parked(lastJob + 1)
         /\ task[lastJob + 1].pc = "idle"
  <1>1. LockInv /\ lastJob \in Nat
    BY DEF RowsInv, LockInv, TypeOK
  <1>2. lastJob + 1 \in JobId /\ task[lastJob + 1].pc = "idle" /\ ~Parked(lastJob + 1)
    BY <1>1, NextRowUnused DEF Parked
  <1>3. RowKnown(lastJob + 1)
    BY <1>2 DEF RowsInv
  <1> QED  BY <1>1, <1>2, <1>3 DEF RowKnown

\* A new row is owned by the call that comes with it, or is skipped.
LEMMA NewRowKeeps ==
  ASSUME RowsInv, LockInv', lastJob < MaxJobs, NEW j \in JobId, j = lastJob + 1, lastJob' = j,
         UNCHANGED <<retry, alerts, zombies>>, ~stopping',
         \/ jobs'[j] = NoRow /\ task'[j].pc = "idle"
         \/ /\ RuleOf(j)' \in Rule
            /\ \/ jobs'[j].source = Kind[RuleOf(j)']
                  /\ \/ jobs'[j].status = "skipped" /\ task'[j].pc = "idle"
                     \/ /\ jobs'[j].status = "queued" /\ task'[j].pc \in {"slot", "granted"}
                        /\ ~task'[j].resume
               \/ /\ jobs'[j].source = "test" /\ jobs'[j].status = "running"
                  /\ task'[j].pc = "running"
  PROVE  RowMoves(j)
  <1>1. /\ lastJob \in Nat /\ jobs[j] = NoRow /\ alerts[j] = "none" /\ j \notin zombies /\ ~Parked(j)
    BY FreshRow
  <1>2. jobs[j].status = "none" /\ alerts'[j] = "none" /\ j \notin zombies' /\ ~Parked(j)'
        /\ ~(j > lastJob')
    BY <1>1 DEF NoRow, Parked
  <1>3. CASE jobs'[j] = NoRow /\ task'[j].pc = "idle"
    <2>1. jobs'[j].status = "none" /\ ~(j \in Active)' /\ ~Waiting(j)'
      BY <1>3 DEF NoRow, Active, Waiting
    <2>2. RowKnown(j)' /\ RowOwned(j)' /\ RowReported(j)' /\ RowStopped(j)'
      BY <1>2, <1>3, <2>1 DEF RowKnown, RowOwned, RowReported, RowStopped
    <2> QED  BY <1>1, <1>3, <2>2 DEF RowMoves, RowFine, LifeStep, SameRow
  <1>4. CASE /\ RuleOf(j)' \in Rule /\ jobs'[j].source = Kind[RuleOf(j)']
             /\ \/ jobs'[j].status = "skipped" /\ task'[j].pc = "idle"
                \/ /\ jobs'[j].status = "queued" /\ task'[j].pc \in {"slot", "granted"}
                   /\ ~task'[j].resume
    <2>1. jobs'[j].source # "test"
      BY <1>4, SchedulerAssumption
    <2>2. ~(j \in Active)' /\ (Waiting(j)' <=> jobs'[j].status = "queued")
      BY <1>4 DEF Active, Waiting
    <2>3. RowKnown(j)' /\ RowOwned(j)' /\ RowReported(j)' /\ RowStopped(j)'
      BY <1>2, <1>4, <2>1, <2>2 DEF RowKnown, RowOwned, RowReported, RowStopped
    <2> QED  BY <1>1, <1>2, <1>4, <2>3, EdgesTaken DEF RowMoves, RowFine, LifeStep, SameRow
  <1>5. CASE /\ RuleOf(j)' \in Rule /\ jobs'[j].source = "test" /\ jobs'[j].status = "running"
             /\ task'[j].pc = "running"
    <2>1. (j \in Active)' /\ ~Waiting(j)'
      BY <1>5 DEF Active, Waiting
    <2>2. RowKnown(j)' /\ RowOwned(j)' /\ RowReported(j)' /\ RowStopped(j)'
      BY <1>2, <1>5, <2>1 DEF RowKnown, RowOwned, RowReported, RowStopped
    <2> QED  BY <1>1, <1>2, <1>5, <2>2, EdgesTaken DEF RowMoves, RowFine, LifeStep, SameRow
  <1> QED  BY <1>3, <1>4, <1>5

\* A trigger queues or skips one new row.
LEMMA RowsRunRule ==
  ASSUME RowsInv, LockInv', NEW r \in Rule, NEW arm, RunRule(r, arm), ~stopping
  PROVE  \A k \in JobId : RowMoves(k)
  <1>1. lastJob < MaxJobs
    BY DEF RunRule
  <1>2. PICK j \in JobId : j = lastJob + 1
    BY <1>1, FreshRow
  <1>3. /\ LockInv /\ (\A k \in JobId : RowFine(k))
        /\ lastJob \in Nat /\ jobs[j] = NoRow /\ task[j].pc = "idle"
        /\ jobs \in Table
    BY <1>1, <1>2, FreshRow, RowTypes DEF RowsInv, RowFine
  <1>4. lastJob' = j /\ UNCHANGED <<retry, alerts, zombies, cancelled, stopping>>
    BY <1>2 DEF RunRule
  <1> DEFINE rows == EnqueueJob(jobs, j, r, Kind[r], cfg[r].plan)
  <1>5. Kind[r] \in JobSource /\ cfg[r].plan \in Nat
    BY <1>3, SchedulerAssumption DEF JobSource, LockInv, TypeOK, RuleConfig
  <1>6. /\ rows \in Table /\ rows[j].rule = r /\ rows[j].source = Kind[r] /\ rows[j].status = "queued"
        /\ \A k \in JobId \ {j} : rows[k] = jobs[k]
    BY <1>3, <1>5, EnqueueJobKeeps
  <1>7. \/ jobs' = MarkSkipped(rows, j) /\ task' = task
        \/ jobs' = rows /\ AcquireRunSlot(j, FALSE)
    BY <1>2 DEF RunRule
  <1> HIDE DEF rows
  <1>8. /\ \/ jobs'[j] = NoRow /\ task'[j].pc = "idle"
           \/ /\ RuleOf(j)' \in Rule /\ jobs'[j].source = Kind[RuleOf(j)']
              /\ \/ jobs'[j].status = "skipped" /\ task'[j].pc = "idle"
                 \/ /\ jobs'[j].status = "queued" /\ task'[j].pc \in {"slot", "granted"}
                    /\ ~task'[j].resume
        /\ \A k \in JobId \ {j} :
             /\ jobs'[k] = jobs[k] \/ (jobs[k].status = "skipped" /\ jobs'[k] = NoRow)
             /\ task'[k] = task[k]
    <2>1. CASE jobs' = MarkSkipped(rows, j) /\ task' = task
      <3> DEFINE mid == [rows EXCEPT ![j].status = "skipped"]
      <3>1. /\ mid \in Table /\ mid[j].rule = r /\ mid[j].source = Kind[r]
            /\ mid[j].status = "skipped"
        BY <1>6 DEF Table, Row, JobStatus, Terminal
      <3>2. jobs' = PruneByStatus(mid, "skipped", KeepSkipped)
        BY <2>1 DEF MarkSkipped
      <3> HIDE DEF mid
      <3>3. jobs'[j] = mid[j] \/ jobs'[j] = NoRow
        BY <3>1, <3>2, PruneByStatusKeeps
      <3>4. \A k \in JobId \ {j} : jobs'[k] = rows[k] \/ (rows[k].status = "skipped" /\ jobs'[k] = NoRow)
        BY <1>6, <2>1, MarkSkippedKeeps
      <3> QED  BY <1>3, <1>6, <2>1, <3>1, <3>3, <3>4 DEF RuleOf
    <2>2. CASE jobs' = rows /\ AcquireRunSlot(j, FALSE)
      <3>1. /\ task'[j].pc \in {"granted", "slot"} /\ ~task'[j].resume
            /\ \A k \in JobId \ {j} : task'[k] = task[k]
        BY <1>3, <2>2, AcquireActs
      <3> QED  BY <1>6, <2>2, <3>1 DEF RuleOf
    <2> QED  BY <1>7, <2>1, <2>2
  <1>9. RowMoves(j)
    <2>1. ~stopping' /\ UNCHANGED <<retry, alerts, zombies>>
      BY <1>4
    <2> QED  BY <1>1, <1>2, <1>4, <1>8, <2>1, NewRowKeeps
  <1>10. ASSUME NEW k \in JobId, k # j
         PROVE  RowMoves(k)
    <2>1. Stays(k)
      BY <1>4, <1>8, <1>10 DEF Stays, Parked
    <2>2. lastJob <= lastJob' /\ stopping' = stopping
      BY <1>2, <1>3, <1>4
    <2> QED  BY <1>3, <2>1, <2>2, StayingKeeps
  <1> QED  BY <1>9, <1>10

\* A manual test starts one new row.
LEMMA RowsTestRun ==
  ASSUME RowsInv, LockInv', NEW r \in Rule, TestRun(r)
  PROVE  \A k \in JobId : RowMoves(k)
  <1>1. lastJob < MaxJobs /\ ~stopping
    BY DEF TestRun
  <1>2. PICK j \in JobId : j = lastJob + 1
    BY <1>1, FreshRow
  <1>3. /\ LockInv /\ (\A k \in JobId : RowFine(k))
        /\ lastJob \in Nat /\ jobs \in Table /\ task \in [JobId -> TaskState]
    BY <1>1, FreshRow, RowTypes DEF RowsInv, RowFine
  <1>4. /\ lastJob' = j /\ UNCHANGED <<retry, alerts, zombies, stopping>>
        /\ cancelled' = cancelled \ {j}
        /\ jobs' = MarkRunning(EnqueueJob(jobs, j, r, "test", 0), j)
        /\ task' = [task EXCEPT ![j] = [NoTask EXCEPT !.pc = "running", !.fresh = TRUE]]
    BY <1>2 DEF TestRun
  <1> DEFINE rows == EnqueueJob(jobs, j, r, "test", 0)
  <1>5. /\ rows \in Table /\ rows[j].rule = r /\ rows[j].source = "test" /\ rows[j].status = "queued"
        /\ \A k \in JobId \ {j} : rows[k] = jobs[k]
    BY <1>3, EnqueueJobKeeps DEF JobSource
  <1>6. jobs' = MarkRunning(rows, j)
    BY <1>4
  <1> HIDE DEF rows
  <1>7. /\ jobs'[j].rule = r /\ jobs'[j].source = "test" /\ jobs'[j].status = "running"
        /\ \A k \in JobId \ {j} : jobs'[k] = jobs[k]
    BY <1>5, <1>6, AdmissionActs DEF RowTo
  <1>8. task'[j].pc = "running" /\ \A k \in JobId \ {j} : task'[k] = task[k]
    BY <1>3, <1>4 DEF NoTask
  <1>9. RowMoves(j)
    <2>1. /\ RuleOf(j)' \in Rule /\ jobs'[j].source = "test" /\ jobs'[j].status = "running"
          /\ task'[j].pc = "running" /\ ~stopping' /\ UNCHANGED <<retry, alerts, zombies>>
      BY <1>1, <1>4, <1>7, <1>8 DEF RuleOf
    <2> QED  BY <1>1, <1>2, <1>4, <2>1, NewRowKeeps
  <1>10. ASSUME NEW k \in JobId, k # j
         PROVE  RowMoves(k)
    <2>1. Stays(k)
      BY <1>4, <1>7, <1>8, <1>10 DEF Stays, Parked
    <2>2. lastJob <= lastJob' /\ stopping' = stopping
      BY <1>2, <1>3, <1>4
    <2> QED  BY <1>3, <2>1, <2>2, StayingKeeps
  <1> QED  BY <1>9, <1>10

\* A retry timer hands its row over to the call that resumes it.
LEMMA RowsRetryFire ==
  ASSUME RowsInv, LockInv', NEW r \in Rule, RetryFire(r)
  PROVE  \A k \in JobId : RowMoves(k)
  <1>1. LockInv /\ (\A k \in JobId : RowFine(k)) /\ lastJob \in Nat
    BY DEF RowsInv, RowFine, LockInv, TypeOK
  <1>2. PICK j \in JobId : j = retry[r]
    BY <1>1, RowTypes DEF RetryFire
  <1>3. /\ retry' = [retry EXCEPT ![r] = 0] /\ retry \in [Rule -> JobId \cup {0}] /\ j # 0
        /\ UNCHANGED <<alerts, zombies, cancelled, stopping, lastJob>>
    BY <1>1, RowTypes, <1>2 DEF RetryFire
  <1>4. /\ Parked(j) /\ RuleOf(j) = r /\ task[j].pc = "idle"
        /\ \A s \in Rule : retry[s] = j => s = r
    BY <1>1, <1>2, <1>3 DEF Parked, LockInv, ParkedIsIdle
  <1>5. /\ ~Parked(j)' /\ \A k \in JobId \ {j} : Parked(k)' <=> Parked(k)
    BY <1>2, <1>3, <1>4 DEF Parked, JobId
  <1>6. jobs[j].status = "retry-waiting" /\ jobs[j].source # "test"
    BY <1>1, <1>4 DEF RowFine, RowOwned
  <1>7. lastJob <= lastJob' /\ stopping' = stopping
    BY <1>1, <1>3
  <1>8. CASE jobs' = jobs /\ ~stopping /\ AcquireRunSlot(j, TRUE)
    <2>1. /\ task'[j].pc \in {"granted", "slot"} /\ task'[j].resume
          /\ \A k \in JobId \ {j} : task'[k] = task[k]
      BY <1>1, <1>8, AcquireActs
    <2>2. Waiting(j)' /\ ~(j \in Active)'
      BY <2>1 DEF Waiting, Active
    <2>3. alerts[j] = "none" /\ j \notin zombies
      BY <1>1, <1>4, <1>6, RowTypes DEF RowFine, RowReported, Pending
    <2>4. RowKnown(j)'
      BY <1>1, <1>3, <1>8 DEF RowFine, RowKnown, RuleOf
    <2>5. RowOwned(j)' /\ RowReported(j)' /\ RowStopped(j)'
      BY <1>3, <1>5, <1>6, <1>8, <2>1, <2>2, <2>3 DEF RowOwned, RowReported, RowStopped
    <2>6. RowMoves(j)
      BY <1>3, <1>8, <2>4, <2>5 DEF RowMoves, RowFine, LifeStep, SameRow
    <2>7. ASSUME NEW k \in JobId, k # j
          PROVE  RowMoves(k)
      <3>1. Stays(k)
        BY <1>3, <1>5, <1>8, <2>1, <2>7 DEF Stays
      <3> QED  BY <1>1, <1>7, <3>1, StayingKeeps
    <2> QED  BY <2>6, <2>7
  <1>9. CASE jobs' = MarkRetryAbandoned(jobs, j) /\ task' = task
    <2>1. /\ RowTo(jobs[j], jobs'[j], {"retry-waiting"}, "failed")
          /\ \A k \in JobId \ {j} : jobs'[k] = jobs[k]
      BY <1>1, <1>9, MarksAct, RowTypes
    <2>2. Abandons(j)
      BY <1>3, <1>4, <1>5, <1>9, <2>1 DEF Abandons
    <2>3. RowMoves(j)
      BY <1>1, <1>7, <2>2, AbandoningKeeps
    <2>4. ASSUME NEW k \in JobId, k # j
          PROVE  RowMoves(k)
      <3>1. Stays(k)
        BY <1>3, <1>5, <1>9, <2>1, <2>4 DEF Stays
      <3> QED  BY <1>1, <1>7, <3>1, StayingKeeps
    <2> QED  BY <2>3, <2>4
  <1> QED  BY <1>2, <1>8, <1>9 DEF RetryFire

-----------------------------------------------------------------------------
(* The user and the host *)

LEMMA RowsCancelJob ==
  ASSUME RowsInv, LockInv', NEW j \in JobId, CancelJob(j)
  PROVE  \A k \in JobId : RowMoves(k)
  <1>1. LockInv /\ (\A k \in JobId : RowFine(k)) /\ lastJob \in Nat /\ j # 0
    BY SMTT(30) DEF RowsInv, RowFine, LockInv, TypeOK, JobId
  <1>2. /\ jobs[j].status \in Pending /\ jobs' = MarkCancelled(jobs, j)
        /\ UNCHANGED <<task, alerts, zombies, stopping, lastJob>>
        /\ IF Parked(j)
           THEN /\ retry' = [r \in Rule |-> IF retry[r] = j THEN 0 ELSE retry[r]]
                /\ cancelled' = cancelled \ {j}
           ELSE /\ cancelled' = cancelled \cup {j} /\ retry' = retry
    BY DEF CancelJob, Parked
  <1>3. /\ RowTo(jobs[j], jobs'[j], Pending, "cancelled")
        /\ \A k \in JobId \ {j} : jobs'[k] = jobs[k]
    BY <1>1, <1>2, MarksAct, RowTypes
  <1>4. ~Parked(j)' /\ \A k \in JobId \ {j} : Parked(k)' <=> Parked(k)
    BY <1>1, <1>2 DEF Parked, JobId
  <1>5. lastJob <= lastJob' /\ stopping' = stopping
    BY <1>1, <1>2
  <1>6. RowMoves(j)
    <2>1. /\ jobs'[j].status = "cancelled" /\ jobs'[j].rule = jobs[j].rule
          /\ jobs'[j].source = jobs[j].source /\ jobs'[j].plan = jobs[j].plan
      BY <1>2, <1>3 DEF RowTo
    <2>2. alerts[j] = "none"
      BY <1>1, <1>2, RowTypes DEF RowFine, RowReported, Pending
    <2>3. RowKnown(j)'
      BY <1>1, <1>2, <2>1 DEF RowFine, RowKnown, RuleOf, Pending
    <2>4. Active' = Active /\ (Waiting(j)' <=> Waiting(j))
      BY <1>2 DEF Active, Waiting
    <2>5. j \in Active => j \in cancelled'
      BY <1>1, <1>2, RowTypes
    <2>6. RowOwned(j)'
      BY <1>1, <1>4, <2>1, <2>4, <2>5 DEF RowFine, RowOwned, WasCancelled
    <2>7. RowReported(j)'
      <3>1. task[j].pc = "settled" => j \in cancelled'
        BY <1>1, <1>2, RowTypes
      <3> QED  BY <1>1, <1>2, <2>1, <2>2, <3>1 DEF RowFine, RowReported, Pending
    <2>8. RowStopped(j)'
      BY <1>1, <1>2, <1>4, <2>1 DEF RowFine, RowStopped
    <2>9. <<jobs[j].status, "cancelled">> \in Edges
      BY <1>2, EdgesTaken DEF Pending
    <2> QED  BY <1>2, <2>1, <2>3, <2>6, <2>7, <2>8, <2>9 DEF RowMoves, RowFine, LifeStep, SameRow
  <1>7. ASSUME NEW k \in JobId, k # j
        PROVE  RowMoves(k)
    <2>1. k \in cancelled' <=> k \in cancelled
      BY <1>2, <1>7
    <2>2. Stays(k)
      BY <1>2, <1>3, <1>4, <1>7, <2>1 DEF Stays
    <2> QED  BY <1>1, <1>5, <2>2, StayingKeeps
  <1> QED  BY <1>6, <1>7

\* Steps that touch neither rows nor calls.
LEMMA RowsIdleStep ==
  ASSUME RowsInv, LockInv', UNCHANGED <<jobs, task, retry, alerts, cancelled, stopping, lastJob>>,
         zombies' \subseteq zombies
  PROVE  \A k \in JobId : RowMoves(k)
  <1>1. LockInv /\ (\A k \in JobId : RowFine(k)) /\ lastJob \in Nat
    BY DEF RowsInv, RowFine, LockInv, TypeOK
  <1>2. lastJob <= lastJob' /\ stopping' = stopping
    BY <1>1
  <1>3. \A k \in JobId : Stays(k)
    BY DEF Stays, Parked
  <1> QED  BY <1>1, <1>2, <1>3, StayingKeeps

\* clearAllRetries ends the parked rows and no other.
LEMMA AbandonParkedActs ==
  ASSUME LockInv, NEW k \in JobId
  PROVE  IF Parked(k) THEN RowTo(jobs[k], AbandonParked(jobs, retry)[k], {"retry-waiting"}, "failed")
                      ELSE AbandonParked(jobs, retry)[k] = jobs[k]
  BY RowTypes, MarksAct DEF AbandonParked, Parked

\* A reload ends parked rows and leaves the calls theirs.
LEMMA RowsReload ==
  ASSUME RowsInv, LockInv', NEW c, NEW d, NEW g, ReloadSchedule(c, d, g)
  PROVE  \A k \in JobId : RowMoves(k)
  <1>1. LockInv /\ (\A k \in JobId : RowFine(k)) /\ lastJob \in Nat
    BY DEF RowsInv, RowFine, LockInv, TypeOK
  <1>2. /\ jobs' = AbandonParked(jobs, retry) /\ task' = Invalidated /\ retry' = NoRetries
        /\ UNCHANGED <<alerts, zombies, cancelled, stopping, lastJob>>
    BY DEF ReloadSchedule
  <1>3. lastJob <= lastJob' /\ stopping' = stopping
    BY <1>1, <1>2
  <1> SUFFICES ASSUME NEW k \in JobId PROVE RowMoves(k)
    OBVIOUS
  <1>4. ~Parked(k)'
    BY <1>2 DEF Parked, NoRetries, JobId
  <1>5. CASE Parked(k)
    <2>1. RowTo(jobs[k], jobs'[k], {"retry-waiting"}, "failed")
      BY <1>1, <1>2, <1>5, AbandonParkedActs
    <2>2. task'[k].pc = "idle"
      BY <1>1, <1>2, <1>5, RowTypes DEF Invalidated, TaskState
    <2>3. Abandons(k)
      BY <1>2, <1>4, <1>5, <2>1, <2>2 DEF Abandons
    <2> QED  BY <1>1, <1>3, <2>3, AbandoningKeeps
  <1>6. CASE ~Parked(k)
    <2>1. jobs'[k] = jobs[k]
      BY <1>1, <1>2, <1>6, AbandonParkedActs
    <2>2. Stays(k)
      BY <1>2, <1>4, <1>6, <2>1 DEF Stays
    <2> QED  BY <1>1, <1>3, <2>2, StayingKeeps
  <1> QED  BY <1>5, <1>6

\* A stop ends what waits, what is parked and what runs.
LEMMA RowsStopScheduler ==
  ASSUME RowsInv, LockInv', StopScheduler
  PROVE  \A k \in JobId : RowMoves(k)
  <1> DEFINE parked == AbandonParked(jobs, retry)
  <1>1. LockInv /\ (\A k \in JobId : RowFine(k)) /\ lastJob \in Nat
    BY DEF RowsInv, RowFine, LockInv, TypeOK
  <1>2. /\ jobs' = [j \in JobId |-> IF j \in Active THEN MarkCancelled(parked, j)[j] ELSE parked[j]]
        /\ task' = Invalidated /\ retry' = NoRetries /\ stopping' = TRUE /\ ~stopping
        /\ cancelled' = cancelled \cup Active
        /\ UNCHANGED <<alerts, zombies, lastJob>>
    BY DEF StopScheduler
  <1>3. parked \in Table
    BY <1>1, AbandonParkedKeeps, RowTypes
  <1> SUFFICES ASSUME NEW k \in JobId PROVE RowMoves(k)
    OBVIOUS
  <1>4. ~Parked(k)' /\ lastJob <= lastJob'
    BY <1>1, <1>2 DEF Parked, NoRetries, JobId
  <1>5. IF Parked(k) THEN RowTo(jobs[k], parked[k], {"retry-waiting"}, "failed") ELSE parked[k] = jobs[k]
    BY <1>1, AbandonParkedActs
  <1> HIDE DEF parked
  <1>6. task'[k].pc = (IF task[k].pc = "slot" THEN "rejected" ELSE task[k].pc)
    BY <1>1, <1>2, RowTypes DEF Invalidated, TaskState
  <1>7. CASE Parked(k)
    <2>1. task[k].pc = "idle" /\ k \notin Active
      BY <1>1, <1>7, RowTypes
    <2>2. Abandons(k)
      BY <1>2, <1>4, <1>5, <1>6, <1>7, <2>1 DEF Abandons
    <2> QED  BY <1>1, <1>4, <2>2, AbandoningKeeps
  <1>8. CASE k \in Active
    <2>1. task[k].pc \in {"running", "settled"}
      BY <1>1, <1>8, RowTypes
    <2>2. /\ ~Parked(k) /\ alerts[k] = "none" /\ k \in Nat /\ k <= lastJob
          /\ RuleOf(k) \in Rule /\ jobs[k].status # "none"
      BY <1>1, <2>1, BusyRow
    <2>3. /\ jobs'[k].status = "cancelled" /\ jobs'[k].rule = jobs[k].rule
          /\ jobs'[k].source = jobs[k].source /\ jobs'[k].plan = jobs[k].plan
          /\ jobs[k].status = "running" \/ jobs[k].status = "cancelled"
      <3>1. RowTo(jobs[k], jobs'[k], Pending, "cancelled")
        BY <1>2, <1>3, <1>5, <1>8, <2>2, MarksAct
      <3> QED  BY <1>1, <1>8, <3>1 DEF RowFine, RowOwned, RowTo, Pending
    <2>4. (k \in Active)' /\ ~Waiting(k)'
      BY <1>6, <2>1 DEF Active, Waiting
    <2>5. RowKnown(k)'
      BY <1>1, <1>2, <2>2, <2>3 DEF RowFine, RowKnown, RuleOf
    <2>6. RowOwned(k)' /\ RowStopped(k)'
      BY <1>2, <1>4, <1>6, <2>1, <2>3, <2>4 DEF RowOwned, RowStopped, WasCancelled
    <2>7. RowReported(k)'
      BY <1>1, <1>2, <1>6, <2>1, <2>2, <2>3 DEF RowFine, RowReported, Pending
    <2> QED  BY <1>2, <2>3, <2>5, <2>6, <2>7, EdgesTaken DEF RowMoves, RowFine, LifeStep, SameRow
  <1>9. CASE ~Parked(k) /\ k \notin Active
    <2>1. jobs'[k] = jobs[k]
      BY <1>2, <1>5, <1>9
    <2>2. Stays(k)
      BY <1>2, <1>4, <1>9, <2>1 DEF Stays
    <2>3. RowStopped(k)'
      BY <1>1, <1>4, <1>6, <1>9, <2>1 DEF RowStopped, RowFine, RowOwned
    <2> QED  BY <1>1, <1>2, <1>4, <2>2, <2>3, StayingThroughStop
  <1> QED  BY <1>7, <1>8, <1>9

-----------------------------------------------------------------------------
(* A restart *)

\* What a restart makes of a row.
Converges(before, after) ==
  \/ after = NoRow
  \/ before.status \notin Pending /\ after = before
  \/ /\ before.status \in Pending /\ after.status \in {"done", "failed", "cancelled"}
     /\ after.rule = before.rule /\ after.source = before.source /\ after.plan = before.plan
     /\ <<before.status, after.status>> \in Edges

\* Pruning deletes a row or leaves it as it is.
LEMMA PruneJobsKeeps ==
  ASSUME NEW rows \in Table, NEW k \in JobId
  PROVE  PruneJobs(rows)[k] \in {rows[k], NoRow}
  <1> DEFINE a == PruneByStatus(rows, "skipped", KeepSkipped)
             b == PruneByStatus(a, "done", KeepTerminal)
             c == PruneByStatus(b, "failed", KeepTerminal)
             e == PruneByStatus(c, "cancelled", KeepTerminal)
  <1>1. PruneJobs(rows) = e
    BY DEF PruneJobs
  <1>2. a \in Table /\ a[k] \in {rows[k], NoRow}
    BY PruneByStatusKeeps
  <1> HIDE DEF a
  <1>3. b \in Table /\ b[k] \in {a[k], NoRow}
    BY <1>2, PruneByStatusKeeps
  <1> HIDE DEF b
  <1>4. c \in Table /\ c[k] \in {b[k], NoRow}
    BY <1>3, PruneByStatusKeeps
  <1> HIDE DEF c
  <1>5. e[k] \in {c[k], NoRow}
    BY <1>4, PruneByStatusKeeps
  <1> HIDE DEF e
  <1> QED  BY <1>1, <1>2, <1>3, <1>4, <1>5

\* The recovery passes leave no row pending, and end every row along an edge.
LEMMA RecoveryConverges ==
  ASSUME NEW rows \in Table, NEW k \in JobId,
         NEW S \in SUBSET {j \in JobId : rows[j].status = "running" /\ rows[j].attempt = 0}
  PROVE  Converges(rows[k], PruneJobs(ReplayDone(RecoverOrphanedRetryWaitingJobs(
                              RecoverOrphanedQueuedJobs(RecoverInterruptedJobs(rows))), S))[k])
  <1> DEFINE a == RecoverInterruptedJobs(rows)
             b == RecoverOrphanedQueuedJobs(a)
             c == RecoverOrphanedRetryWaitingJobs(b)
             e == ReplayDone(c, S)
  <1>1. a \in Table /\ RowTo(rows[k], a[k], {"running"}, "failed")
    BY RecoverType, UpdateWhereActs DEF RecoverInterruptedJobs
  <1> HIDE DEF a
  <1>2. b \in Table /\ RowTo(a[k], b[k], {"queued"}, "cancelled")
    BY <1>1, RecoverType, UpdateWhereActs DEF RecoverOrphanedQueuedJobs
  <1> HIDE DEF b
  <1>3. c \in Table /\ RowTo(b[k], c[k], {"retry-waiting"}, "failed")
    BY <1>2, RecoverType, UpdateWhereActs DEF RecoverOrphanedRetryWaitingJobs
  <1> HIDE DEF c
  <1>4. e \in Table /\ \/ e[k] = c[k]
                       \/ /\ rows[k].status = "running" /\ e[k].status = "done"
                          /\ e[k].rule = c[k].rule /\ e[k].source = c[k].source
                          /\ e[k].plan = c[k].plan
    <2>1. e \in Table
      BY <1>3, ReplayDoneType
    <2>2. e[k] = c[k] \/ (k \in S /\ e[k] = [c[k] EXCEPT !.status = "done", !.error = "none"])
      BY DEF ReplayDone
    <2>3. c[k] \in Row
      BY <1>3 DEF Table
    <2> QED  BY <2>1, <2>2, <2>3 DEF Row
  <1> HIDE DEF e
  <1>5. PruneJobs(e)[k] \in {e[k], NoRow}
    BY <1>4, PruneJobsKeeps
  <1>6. Converges(rows[k], e[k])
    BY <1>1, <1>2, <1>3, <1>4, EdgesTaken DEF RowTo, Converges, Pending
  <1>7. Converges(rows[k], PruneJobs(e)[k])
    BY <1>5, <1>6 DEF Converges
  <1> QED  BY <1>7 DEF a, b, c, e

\* What a new process finds is idle; it raises no alert of its own.
LEMMA StartingKeeps ==
  ASSUME LockInv, LockInv', NEW k \in JobId, RowFine(k), Converges(jobs[k], jobs'[k]),
         task'[k] = NoTask, retry' = NoRetries, zombies' = {}, ~stopping',
         UNCHANGED <<alerts, lastJob>>
  PROVE  RowMoves(k)
  <1>1. /\ ~Parked(k)' /\ ~(k \in Active)' /\ ~Waiting(k)' /\ task'[k].pc = "idle"
        /\ lastJob \in Nat /\ k \in Nat
    BY DEF Parked, NoRetries, Active, Waiting, NoTask, LockInv, TypeOK, JobId
  <1>2. /\ jobs[k].status \in JobStatus \cup {"none"}
        /\ alerts[k] \in {"none", "done", "failed", "cancelled"}
    BY RowTypes
  <1>3. jobs'[k].status \notin Pending
    BY DEF Converges, NoRow, Pending
  <1>4. alerts[k] # "none" => jobs'[k] \in {jobs[k], NoRow}
    BY <1>2 DEF RowFine, RowReported, Converges, Pending
  <1>5. RowKnown(k)'
    BY <1>1 DEF RowFine, RowKnown, RuleOf, Converges, Pending, NoRow
  <1>6. RowOwned(k)' /\ RowStopped(k)'
    BY <1>1, <1>3 DEF RowOwned, RowStopped, Pending
  <1>7. RowReported(k)'
    BY <1>1, <1>4 DEF RowFine, RowReported, NoRow
  <1>8. LifeStep(k)
    BY <1>2, EdgesTaken DEF RowFine, RowKnown, LifeStep, Converges, NoRow, Pending
  <1>9. SameRow(k)
    BY DEF SameRow, Converges
  <1> QED  BY <1>5, <1>6, <1>7, <1>8, <1>9 DEF RowMoves, RowFine

\* A restart leaves no pending row, after any prefix of the writes of a completion.
LEMMA RowsRestart ==
  ASSUME RowsInv, LockInv', Restart
  PROVE  \A k \in JobId : RowMoves(k)
  <1>1. LockInv /\ (\A k \in JobId : RowFine(k)) /\ jobs \in Table
    BY RowTypes DEF RowsInv, RowFine
  <1>2. \A k \in JobId : Converges(jobs[k], jobs'[k])
    BY <1>1, RecoveryConverges DEF Restart, StartFrom
  <1>3. \A k \in JobId : /\ task'[k] = NoTask /\ retry' = NoRetries /\ zombies' = {} /\ ~stopping'
                         /\ UNCHANGED <<alerts, lastJob>>
    BY DEF Restart, StartFrom
  <1> QED  BY <1>1, <1>2, <1>3, StartingKeeps

\* A prefix of the writes of a completion, then a restart.
LEMMA RowsCrash ==
  ASSUME RowsInv, LockInv', NEW j \in JobId, CrashInComplete(j)
  PROVE  \A k \in JobId : RowMoves(k)
  <1>1. /\ LockInv /\ (\A k \in JobId : RowFine(k)) /\ jobs \in Table
        /\ task[j].pc = "settled" /\ j \in Active /\ jobs[j].source # "test"
    BY RowTypes DEF RowsInv, RowFine, CrashInComplete, Active
  <1>2. ~Parked(j) /\ RuleOf(j) \in Rule /\ CompletedRows(j) \in Table
    BY <1>1, BusyRow, CompletedType DEF LockInv
  <1>3. PICK rows \in {jobs, CompletedRows(j)} : \E c, g : StartFrom(rows, c, g, alerts)
    BY DEF CrashInComplete
  <1>4. rows \in Table
    BY <1>1, <1>2, <1>3
  <1>5. PICK c, g : StartFrom(rows, c, g, alerts)
    BY <1>3
  <1>6. \A k \in JobId : Converges(rows[k], jobs'[k])
    BY <1>4, <1>5, RecoveryConverges DEF StartFrom
  <1>7. ASSUME NEW k \in JobId
        PROVE  \/ rows[k] = jobs[k]
               \/ /\ rows[k].rule = jobs[k].rule /\ rows[k].source = jobs[k].source
                  /\ rows[k].plan = jobs[k].plan
                  /\ \/ /\ jobs[k].status = "running"
                        /\ rows[k].status \in {"done", "failed", "cancelled", "retry-waiting"}
                     \/ jobs[k].status = "retry-waiting" /\ rows[k].status = "failed"
    <2>1. CASE rows = jobs
      BY <2>1
    <2>2. CASE rows = CompletedRows(j) /\ k = j
      <3>1. jobs[j].status = "running" \/ (jobs[j].status = "cancelled" /\ WasCancelled(j))
        BY <1>1 DEF RowFine, RowOwned
      <3>2. CASE WasCancelled(j)
        BY <1>1, <1>2, <2>2, <3>1, <3>2, CompletedRowsAct DEF RowTo, Pending
      <3>3. CASE ~WasCancelled(j)
        <4>1. RowTo(jobs[j], rows[j], {"running"}, "done") \/ RowTo(jobs[j], rows[j], {"running"}, "failed")
              \/ RowTo(jobs[j], rows[j], {"running"}, "retry-waiting")
          BY <1>1, <1>2, <2>2, <3>3, CompletedRowsAct
        <4> QED  BY <2>2, <3>1, <3>3, <4>1 DEF RowTo
      <3> QED  BY <3>2, <3>3
    <2>3. CASE rows = CompletedRows(j) /\ k # j
      <3>1. rows[k] = jobs[k] \/ RowTo(jobs[k], rows[k], {"retry-waiting"}, "failed")
        BY <1>1, <1>2, <2>3, CompletedRowsAct
      <3> QED  BY <3>1 DEF RowTo
    <2> QED  BY <1>3, <2>1, <2>2, <2>3
  <1>8. ASSUME NEW k \in JobId
        PROVE  Converges(jobs[k], jobs'[k])
    <2>1. Converges(rows[k], jobs'[k])
      BY <1>6
    <2> QED  BY <1>7, <2>1, EdgesTaken DEF Converges, Pending
  <1>9. \A k \in JobId : /\ task'[k] = NoTask /\ retry' = NoRetries /\ zombies' = {} /\ ~stopping'
                         /\ UNCHANGED <<alerts, lastJob>>
    BY <1>5 DEF StartFrom
  <1> QED  BY <1>1, <1>8, <1>9, StartingKeeps

-----------------------------------------------------------------------------
(* Every row, every step *)

LEMMA RowsInit == Init => RowsInv
  <1> SUFFICES ASSUME Init PROVE RowsInv
    OBVIOUS
  <1>1. LockInv
    BY LockInit
  <1>2. ASSUME NEW k \in JobId
        PROVE  RowKnown(k) /\ RowOwned(k) /\ RowReported(k) /\ RowStopped(k)
    <2>1. /\ jobs[k] = NoRow /\ task[k] = NoTask /\ alerts[k] = "none" /\ zombies = {}
          /\ ~stopping /\ ~Parked(k)
      BY DEF Init, Parked, NoRetries, JobId
    <2> QED  BY <2>1 DEF RowKnown, RowOwned, RowReported, RowStopped, NoRow, NoTask, Active, Waiting
  <1> QED  BY <1>1, <1>2 DEF RowsInv

\* Every step moves every row along an edge and keeps what is known of it.
LEMMA RowsNext ==
  ASSUME RowsInv, [Next]_vars
  PROVE  LockInv' /\ \A k \in JobId : RowMoves(k)
  <1> DEFINE Goal == \A k \in JobId : RowMoves(k)
  <1>1. LockInv'
    BY LockNext DEF RowsInv
  <1>2. ASSUME NEW j \in JobId, RunStep(j) PROVE Goal
    BY <1>1, <1>2, RowsGiveUp, RowsAdmit, RowsSettle, RowsComplete, RowsTestComplete DEF RunStep
  <1>3. ASSUME NEW r \in Rule, TriggerStep(r) PROVE Goal
    <2>1. CASE OnceDropped(r)
      BY <1>1, <2>1, RowsIdleStep DEF OnceDropped
    <2>2. CASE CronFire(r) \/ OnceFire(r) \/ EventFire(r)
      <3>1. PICK arm : RunRule(r, arm) /\ ~stopping
        BY <2>2 DEF CronFire, OnceFire, EventFire
      <3> QED  BY <1>1, <3>1, RowsRunRule
    <2> QED  BY <1>1, <1>3, <2>1, <2>2, RowsRetryFire DEF TriggerStep
  <1>4. ASSUME \/ SetMaxConcurrent \/ ClockBack \/ RefreshTimers \/ UNCHANGED vars
               \/ \E j \in JobId : ZombieEnds(j)
               \/ \E r \in Rule : CooldownElapses(r) \/ Tick(r)
        PROVE  Goal
    <2>1. /\ UNCHANGED <<jobs, task, retry, alerts, cancelled, stopping, lastJob>>
          /\ zombies' \subseteq zombies
      BY <1>4 DEF SetMaxConcurrent, ClockBack, RefreshTimers, vars, ZombieEnds, CooldownElapses, Tick, clock
    <2> QED  BY <1>1, <2>1, RowsIdleStep
  <1>5. ASSUME NEW r \in Rule, UpdateRule(r) \/ RescheduleOnce(r) PROVE Goal
    <2>1. \E c, d, g : ReloadSchedule(c, d, g)
      BY <1>5 DEF UpdateRule, RescheduleOnce
    <2> QED  BY <1>1, <2>1, RowsReload
  <1>6. ASSUME \/ StopScheduler \/ Restart \/ \E j \in JobId : CrashInComplete(j) \/ CancelJob(j)
               \/ \E r \in Rule : TestRun(r)
        PROVE  Goal
    BY <1>1, <1>6, RowsStopScheduler, RowsRestart, RowsCrash, RowsCancelJob, RowsTestRun
  <1>7. CASE Next
    <2>1. CASE \E j \in JobId : RunStep(j) \/ ZombieEnds(j)
      BY <1>1, <1>2, <1>4, <2>1
    <2>2. CASE \E r \in Rule : TriggerStep(r) \/ CooldownElapses(r) \/ Tick(r)
      BY <1>1, <1>3, <1>4, <2>2
    <2>3. CASE \E r \in Edited : UpdateRule(r) \/ RescheduleOnce(r)
      BY <1>1, <1>5, <2>3, SchedulerAssumption
    <2>4. CASE \/ SetMaxConcurrent \/ ClockBack \/ RefreshTimers
      BY <1>1, <1>4, <2>4
    <2>5. CASE \/ StopScheduler \/ Restart \/ \E j \in JobId : CrashInComplete(j) \/ CancelJob(j)
               \/ \E r \in Rule : TestRun(r)
      BY <1>1, <1>6, <2>5
    <2> QED  BY <1>7, <2>1, <2>2, <2>3, <2>4, <2>5 DEF Next
  <1>8. Goal
    BY <1>4, <1>7
  <1> QED  BY <1>1, <1>8

\* RowsInv is inductive.
LEMMA RowsStep == RowsInv /\ [Next]_vars => RowsInv'
  BY RowsNext DEF RowMoves, RowFine, RowsInv

(* Row by row: every row is known by its rule and source, a pending row has  *)
(* exactly one owner (a waiting call, a running call or its retry timer), an *)
(* alert and a timed-out action leave their row alone, and a stop leaves     *)
(* nothing to start.                                                         *)
THEOREM RowsInvariant == Spec => []RowsInv
  BY RowsInit, RowsStep, PTL DEF Spec

\* What a reader is promised about rows follows from the invariant.
LEMMA RowsImply ==
  RowsInv => PendingRowHasOwner /\ AlertTruth /\ NoRetryOverZombie /\ StopQuiesces
  <1> SUFFICES ASSUME RowsInv PROVE PendingRowHasOwner /\ AlertTruth /\ NoRetryOverZombie /\ StopQuiesces
    OBVIOUS
  <1>1. LockInv /\ (\A k \in JobId : RowFine(k)) /\ retry \in [Rule -> JobId \cup {0}]
        /\ zombies \subseteq JobId /\ slots.queue \in Seq(JobId)
    BY RowTypes DEF RowsInv, RowFine, LockInv, TypeOK
  <1>2. \A r \in Rule : retry[r] # 0 => /\ retry[r] \in JobId /\ Parked(retry[r])
                                        /\ RuleOf(retry[r]) = r /\ task[retry[r]].pc = "idle"
    BY <1>1 DEF LockInv, ParkedIsIdle, Parked
  <1>3. ASSUME NEW j \in JobId, jobs[j].status = "retry-waiting"
        PROVE  (retry[RuleOf(j)] = j) # (Waiting(j) /\ task[j].resume)
    <2>1. Parked(j) <=> ~(Waiting(j) /\ task[j].resume)
      BY <1>1, <1>3 DEF RowFine, RowOwned
    <2>2. Parked(j) <=> retry[RuleOf(j)] = j
      <3>1. RuleOf(j) \in Rule /\ j # 0
        BY <1>1, <1>3 DEF RowFine, RowKnown, JobId
      <3> QED  BY <1>2, <3>1 DEF Parked
    <2>3. task[j].resume \in BOOLEAN
      BY <1>1, RowTypes DEF TaskState
    <2> QED  BY <2>1, <2>2, <2>3 DEF Waiting
  <1>4. PendingRowHasOwner
    BY <1>1, <1>2, <1>3 DEF PendingRowHasOwner, RowFine, RowOwned, Waiting
  <1>5. AlertTruth
    BY <1>1 DEF AlertTruth, RowFine, RowReported
  <1>6. NoRetryOverZombie
    BY <1>1, RowTypes DEF NoRetryOverZombie, RowFine, RowReported, RowOwned, Pending
  <1>7. StopQuiesces
    <2> SUFFICES ASSUME stopping
                 PROVE  /\ \A j \in JobId : jobs[j].status # "running"
                        /\ retry = NoRetries /\ slots.queue = <<>>
      BY DEF StopQuiesces
    <2>1. \A j \in JobId : jobs[j].status # "running" /\ ~Parked(j) /\ task[j].pc # "slot"
      BY <1>1 DEF RowFine, RowStopped
    <2>2. \A r \in Rule : retry[r] = 0
      BY <1>2, <2>1
    <2>3. retry = NoRetries
      BY <1>1, <2>2 DEF NoRetries
    <2>4. slots.queue = <<>>
      <3>1. Len(slots.queue) \in Nat /\ \A i \in 1 .. Len(slots.queue) :
              slots.queue[i] \in JobId /\ task[slots.queue[i]].pc = "slot"
        BY <1>1 DEF LockInv, QueueWaits
      <3>2. Len(slots.queue) = 0
        BY <2>1, <3>1
      <3> QED  BY <1>1, <3>2
    <2> QED  BY <2>1, <2>3, <2>4
  <1> QED  BY <1>4, <1>5, <1>6, <1>7

(* What the job table promises: no pending row is without the call or timer  *)
(* that will end it, an alert names the status its row keeps, a timed-out    *)
(* run is not retried over its own zombie, and a stop quiesces.              *)
THEOREM RowsCorrect ==
  Spec => [](PendingRowHasOwner /\ AlertTruth /\ NoRetryOverZombie /\ StopQuiesces)
  BY RowsInvariant, RowsImply, PTL

-----------------------------------------------------------------------------
(* The engine implements the life cycle of executions. *)

LEMMA LifecycleInit == Init => Lifecycle!Init
  <1> SUFFICES ASSUME Init PROVE Lifecycle!Init
    OBVIOUS
  <1>1. \A k \in JobId : jobs[k].status = "none"
    BY DEF Init, NoRow
  <1> QED  BY <1>1 DEF Init, Lifecycle!Init

\* Only the one call that holds the rule's lock has a running row.
OneRuns ==
  \A e, f \in JobId :
    jobs[e].status = "running" /\ jobs[f].status = "running" /\ jobs[e].rule = jobs[f].rule => e = f

\* Two running rows of a rule would be two holders of its lock.
LEMMA OneRunsPerRule == RowsInv => OneRuns
  <1> SUFFICES ASSUME RowsInv, NEW e \in JobId, NEW f \in JobId,
                      jobs[e].status = "running", jobs[f].status = "running",
                      jobs[e].rule = jobs[f].rule
               PROVE  e = f
    BY DEF OneRuns
  <1>1. LockInv /\ e \in Active /\ f \in Active
    BY DEF RowsInv, RowOwned
  <1>2. e \in Busy /\ f \in Busy
    BY <1>1, RowTypes DEF Busy
  <1> QED  BY <1>1, <1>2 DEF LockInv, LockIsExact, RuleOf

\* Every step of the engine is a step of the life cycle.
LEMMA LifecycleStep ==
  ASSUME RowsInv, [Next]_vars
  PROVE  Lifecycle!Next
  <1>1. RowsInv' /\ \A k \in JobId : LifeStep(k)
    BY RowsNext, RowsStep DEF RowMoves
  <1>2. OneRuns'
    <2>1. RowsInv'
      BY <1>1
    <2> QED  BY <2>1, OneRunsPerRule, PTL
  <1>3. \A k \in JobId : Lifecycle!ExecutionStep(k)
    BY <1>1 DEF LifeStep, Lifecycle!ExecutionStep, Lifecycle!AlertStep, Lifecycle!Final
  <1> QED  BY <1>2, <1>3 DEF OneRuns, Lifecycle!Next, Lifecycle!OnePerRule

(* Every behaviour of the scheduler, of its users, of its timers and of a    *)
(* crash between any two writes is a behaviour of ExecutionLifecycle: the    *)
(* executions move along its edges, one per rule runs, each is alerted once  *)
(* at most, and its alert is raised by the step from running to the status   *)
(* it reports, or after it was cancelled.                                    *)
THEOREM EngineImplementsLifecycle == Spec => ImplementsLifecycle
  <1>1. RowsInv /\ [Next]_vars =>
          [Lifecycle!Next]_<<[j \in JobId |-> jobs[j].status], [j \in JobId |-> jobs[j].rule], alerts>>
    BY LifecycleStep
  <1> QED  BY <1>1, LifecycleInit, RowsInvariant, PTL DEF Spec, ImplementsLifecycle, Lifecycle!Spec
=============================================================================
