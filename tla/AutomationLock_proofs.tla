------------------------ MODULE AutomationLock_proofs ------------------------
(***************************************************************************)
(* The re-entry lock of every rule is exact, for every value of the         *)
(* constants: LockInv is inductive and contains LockIsExact.                *)
(***************************************************************************)
EXTENDS AutomationTypes_proofs

(* No row handed out so far loses its rule or vanishes, except skipped ones. *)
RowsSurvive ==
  \A k \in JobId :
    Alive(k) /\ k <= lastJob => jobs'[k].rule = jobs[k].rule /\ Alive(k)'

SameLocks == \A r \in Rule : guard'[r].running = guard[r].running

(* Timers of parked rows may be dropped. *)
RetriesDropped == \A r \in Rule : retry'[r] \in {retry[r], 0}

(* An update that moves rows along their life keeps them alive. *)
LEMMA SameIsSurvival ==
  ASSUME SameExecutions(jobs, jobs') PROVE RowsSurvive
  BY DEF SameExecutions, RowsSurvive, Alive

(* Four ways a step can treat the calls: none starts or ends, the queue is   *)
(* emptied, one starts, one ends.                                            *)
LEMMA LockKept ==
  ASSUME LockInv, TypeOK', RowsSurvive, SameLocks, RetriesDropped,
         Busy' = Busy, QueueWaits', lastJob <= lastJob'
  PROVE  LockInv'
<1>1. \A j \in Busy : /\ Alive(j) /\ RuleOf(j) \in Rule
                     /\ j \in JobId /\ j <= lastJob
  BY DEF LockInv, BusyRowsExist, RowsInOrder, Busy
<1>2. \A j \in Busy : jobs'[j].rule = jobs[j].rule /\ Alive(j)'
  BY <1>1 DEF RowsSurvive
<1>3. RowsInOrder'
  BY DEF LockInv, RowsInOrder, TypeOK, Busy, JobId
<1>4. BusyRowsExist'
  BY <1>1, <1>2 DEF BusyRowsExist, RuleOf
<1>5. LockIsExact'
  BY <1>2 DEF LockInv, LockIsExact, SameLocks, RuleOf
<1>6. ParkedIsIdle'
  <2> SUFFICES ASSUME NEW r \in Rule, retry'[r] # 0
               PROVE  /\ jobs'[retry'[r]].rule = r
                      /\ Alive(retry[r])' /\ retry'[r] <= lastJob'
                      /\ task'[retry'[r]].pc = "idle"
    BY DEF ParkedIsIdle, RuleOf
  <2>1. retry'[r] = retry[r] /\ retry[r] # 0 /\ retry[r] \in JobId
    BY DEF RetriesDropped, LockInv, TypeOK
  <2>2. /\ jobs[retry[r]].rule = r /\ Alive(retry[r])
        /\ retry[r] <= lastJob /\ retry[r] \notin Busy
    BY <2>1 DEF LockInv, ParkedIsIdle, RuleOf, Busy
  <2>3. retry'[r] \notin Busy'
    BY <2>1, <2>2
  <2>4. task'[retry'[r]].pc = "idle"
    BY <2>1, <2>3 DEF Busy
  <2>5. retry'[r] <= lastJob'
    BY <2>1, <2>2 DEF LockInv, TypeOK, JobId
  <2> QED BY <2>1, <2>2, <2>4, <2>5 DEF RowsSurvive, Alive
<1> QED BY <1>3, <1>4, <1>5, <1>6 DEF LockInv

(* A call starts on an existing row of an idle rule and takes its lock.      *)
LEMMA LockBegins ==
  ASSUME LockInv, TypeOK', RowsSurvive, RetriesDropped, QueueWaits',
         NEW r \in Rule, NEW j \in JobId, j \notin Busy,
         ~guard[r].running, guard'[r].running,
         \A s \in Rule \ {r} : guard'[s].running = guard[s].running,
         Busy' = Busy \cup {j}, jobs'[j].rule = r, Alive(j)',
         \A s \in Rule : retry'[s] # j,
         lastJob <= lastJob', j <= lastJob'
  PROVE  LockInv'
<1>1. \A k \in Busy : /\ Alive(k) /\ RuleOf(k) \in Rule
                     /\ k \in JobId /\ k <= lastJob
  BY DEF LockInv, BusyRowsExist, RowsInOrder, Busy
<1>2. \A k \in Busy : jobs'[k].rule = jobs[k].rule /\ Alive(k)'
  BY <1>1 DEF RowsSurvive
<1>3. RowsInOrder'
  BY DEF LockInv, RowsInOrder, TypeOK, Busy, JobId
<1>4. BusyRowsExist'
  BY <1>1, <1>2 DEF BusyRowsExist, RuleOf
<1>5. LockIsExact'
  <2>1. \A k \in Busy : jobs[k].rule # r
    BY DEF LockInv, LockIsExact, RuleOf
  <2> QED BY <1>2, <2>1 DEF LockInv, LockIsExact, RuleOf
<1>6. ParkedIsIdle'
  <2> SUFFICES ASSUME NEW s \in Rule, retry'[s] # 0
               PROVE  /\ jobs'[retry'[s]].rule = s
                      /\ Alive(retry[s])' /\ retry'[s] <= lastJob'
                      /\ task'[retry'[s]].pc = "idle"
    BY DEF ParkedIsIdle, RuleOf
  <2>1. retry'[s] = retry[s] /\ retry[s] # 0 /\ retry[s] \in JobId
    BY DEF RetriesDropped, LockInv, TypeOK
  <2>2. /\ jobs[retry[s]].rule = s /\ Alive(retry[s])
        /\ retry[s] <= lastJob /\ retry[s] \notin Busy
    BY <2>1 DEF LockInv, ParkedIsIdle, RuleOf, Busy
  <2>3. retry'[s] \notin Busy'
    BY <2>1, <2>2
  <2>4. task'[retry'[s]].pc = "idle"
    BY <2>1, <2>3 DEF Busy
  <2>5. retry'[s] <= lastJob'
    BY <2>1, <2>2 DEF LockInv, TypeOK, JobId
  <2> QED BY <2>1, <2>2, <2>4, <2>5 DEF RowsSurvive, Alive
<1> QED BY <1>3, <1>4, <1>5, <1>6 DEF LockInv

(* A call ends and gives its rule's lock back; it may park its own row.      *)
LEMMA LockEnds ==
  ASSUME LockInv, TypeOK', RowsSurvive, QueueWaits', NEW j \in Busy,
         ~guard'[RuleOf(j)].running,
         \A s \in Rule \ {RuleOf(j)} : guard'[s].running = guard[s].running,
         Busy' = Busy \ {j}, lastJob' = lastJob,
         \A s \in Rule : \/ retry'[s] \in {retry[s], 0}
                         \/ s = RuleOf(j) /\ retry'[s] = j
  PROVE  LockInv'
<1>1. \A k \in Busy : /\ Alive(k) /\ RuleOf(k) \in Rule
                     /\ k \in JobId /\ k <= lastJob
  BY DEF LockInv, BusyRowsExist, RowsInOrder, Busy
<1>2. \A k \in Busy : jobs'[k].rule = jobs[k].rule /\ Alive(k)'
  BY <1>1 DEF RowsSurvive
<1>3. RowsInOrder'
  BY DEF LockInv, RowsInOrder, Busy
<1>4. BusyRowsExist'
  BY <1>1, <1>2 DEF BusyRowsExist, RuleOf
<1>5. LockIsExact'
  <2>1. \A k \in Busy \ {j} : jobs[k].rule # jobs[j].rule
    BY DEF LockInv, LockIsExact, RuleOf
  <2> QED BY <1>2, <2>1 DEF LockInv, LockIsExact, RuleOf
<1>6. ParkedIsIdle'
  <2> SUFFICES ASSUME NEW s \in Rule, retry'[s] # 0
               PROVE  /\ jobs'[retry'[s]].rule = s
                      /\ Alive(retry[s])' /\ retry'[s] <= lastJob'
                      /\ task'[retry'[s]].pc = "idle"
    BY DEF ParkedIsIdle, RuleOf
  <2>1. CASE retry'[s] = retry[s]
    <3>1. retry[s] # 0 /\ retry[s] \in JobId
      BY <2>1 DEF LockInv, TypeOK
    <3>2. /\ jobs[retry[s]].rule = s /\ Alive(retry[s])
          /\ retry[s] <= lastJob /\ retry[s] \notin Busy
      BY <3>1 DEF LockInv, ParkedIsIdle, RuleOf, Busy
    <3>3. task'[retry'[s]].pc = "idle"
      BY <2>1, <3>1, <3>2 DEF Busy
    <3> QED BY <2>1, <3>1, <3>2, <3>3 DEF RowsSurvive, Alive
  <2>2. CASE s = RuleOf(j) /\ retry'[s] = j
    <3>1. j \in JobId /\ j \notin Busy' /\ j <= lastJob
      BY <1>1 DEF LockInv, RowsInOrder
    <3>2. task'[j].pc = "idle"
      BY <3>1 DEF Busy
    <3> QED BY <1>2, <2>2, <3>1, <3>2 DEF RuleOf, Alive
  <2> QED BY <2>1, <2>2
<1> QED BY <1>3, <1>4, <1>5, <1>6 DEF LockInv

(* A process that has just started runs nothing and parks nothing. *)
LEMMA LockStarts ==
  ASSUME TypeOK', Busy' = {}, slots'.queue = <<>>, retry' = NoRetries,
         \A r \in Rule : ~guard'[r].running
  PROVE  LockInv'
  BY DEF LockInv, RowsInOrder, BusyRowsExist, QueueWaits, ParkedIsIdle,
         LockIsExact, NoRetries

-----------------------------------------------------------------------------
(* The slot queue.                                                           *)

(* The slot queue survives a step that moves no waiting call.                *)
LEMMA QueueKept ==
  ASSUME LockInv, slots'.queue = slots.queue,
         \A k \in JobId : task[k].pc = "slot" => task'[k].pc = "slot"
  PROVE  QueueWaits'
<1>1. \A i \in 1 .. Len(slots.queue) : slots.queue[i] \in JobId
  BY DEF LockInv, TypeOK
<1> QED BY <1>1 DEF LockInv, QueueWaits

(* A reload or a stop empties the slot queue.                                *)
LEMMA QueueEmptied == ASSUME slots'.queue = <<>> PROVE QueueWaits'
  BY DEF QueueWaits

(* acquireRunSlot: the new call is granted a slot or queues up once.         *)
LEMMA QueueJoins ==
  ASSUME LockInv, NEW j \in JobId, task[j].pc = "idle",
         NEW resume \in BOOLEAN, AcquireRunSlot(j, resume)
  PROVE  QueueWaits' /\ Busy' = Busy \cup {j}
<1> DEFINE q == slots.queue
           pc == IF slots.active < cap THEN "granted" ELSE "slot"
           new == [pc |-> pc, resume |-> resume, fresh |-> TRUE, outcome |-> "none"]
<1>1. /\ q \in Seq(JobId)
      /\ \A i \in 1 .. Len(q) : q[i] \in JobId /\ task[q[i]].pc = "slot"
      /\ \A i, k \in 1 .. Len(q) : q[i] = q[k] => i = k
  BY DEF LockInv, TypeOK, QueueWaits
<1>2. task' = [task EXCEPT ![j] = new] /\ task \in [JobId -> TaskState]
  BY DEF AcquireRunSlot, LockInv, TypeOK
<1>3. new.pc = pc /\ pc # "idle"
  OBVIOUS
<1> HIDE DEF new
<1>4. task'[j].pc = pc /\ \A k \in JobId \ {j} : task'[k] = task[k]
  BY <1>2, <1>3
<1>5. Busy' = Busy \cup {j}
  BY <1>3, <1>4 DEF Busy
<1>6. \A i \in 1 .. Len(q) : q[i] # j /\ task'[q[i]].pc = "slot"
  BY <1>1, <1>4
<1>7. CASE slots.active < cap
  <2>1. slots'.queue = q
    BY <1>7 DEF AcquireRunSlot, LockInv, TypeOK
  <2> QED BY <1>1, <1>5, <1>6, <2>1 DEF QueueWaits
<1>8. CASE ~(slots.active < cap)
  <2>1. slots'.queue = Append(q, j)
    BY <1>8 DEF AcquireRunSlot, LockInv, TypeOK
  <2>2. task'[j].pc = "slot"
    BY <1>4, <1>8
  <2>3. /\ Len(Append(q, j)) = Len(q) + 1
        /\ \A i \in 1 .. Len(q) : Append(q, j)[i] = q[i]
        /\ Append(q, j)[Len(q) + 1] = j
    BY <1>1
  <2>4. QueueWaits'
    BY <1>1, <1>6, <2>1, <2>2, <2>3 DEF QueueWaits
  <2> QED BY <1>5, <2>4
<1> QED BY <1>7, <1>8

(* releaseRunSlot: only the call that ends and the head of the queue move.   *)
LEMMA QueueLeaves ==
  ASSUME LockInv, NEW j \in Busy, task[j].pc # "slot", ReleaseRunSlot(j)
  PROVE  QueueWaits' /\ Busy' = Busy \ {j}
<1> DEFINE q == slots.queue
           ended == [task EXCEPT ![j] = NoTask]
<1>1. /\ q \in Seq(JobId)
      /\ \A i \in 1 .. Len(q) : q[i] \in JobId /\ task[q[i]].pc = "slot"
      /\ \A i, k \in 1 .. Len(q) : q[i] = q[k] => i = k
  BY DEF LockInv, TypeOK, QueueWaits
<1>2. task \in [JobId -> TaskState] /\ j \in JobId
  BY DEF LockInv, TypeOK, Busy
<1>3. /\ ended \in [JobId -> TaskState]
      /\ ended[j].pc = "idle" /\ \A k \in JobId \ {j} : ended[k] = task[k]
  BY <1>2, NoTaskType DEF NoTask
<1>4. \A i \in 1 .. Len(q) : q[i] # j
  BY <1>1
<1>5. CASE q # <<>> /\ ~stopping
  <2> DEFINE h == Head(q)
  <2>1. /\ slots'.queue = Tail(q)
        /\ task' = [ended EXCEPT ![h].pc = "granted"]
    BY <1>5 DEF ReleaseRunSlot, LockInv, TypeOK
  <2>2. /\ Len(q) >= 1 /\ h = q[1] /\ Len(Tail(q)) = Len(q) - 1
        /\ \A i \in 1 .. Len(q) - 1 : Tail(q)[i] = q[i + 1]
    BY <1>1, <1>5
  <2>3. h \in JobId /\ h # j /\ task[h].pc = "slot"
    BY <1>1, <1>4, <2>2
  <2> HIDE DEF ended, h
  <2>4. /\ task'[h].pc = "granted"
        /\ \A k \in JobId \ {h} : task'[k] = ended[k]
    BY <1>3, <2>1, <2>3 DEF TaskState
  <2>5. Busy' = Busy \ {j}
    BY <1>2, <1>3, <2>3, <2>4 DEF Busy
  <2>6. \A i \in 1 .. Len(q) - 1 : q[i + 1] # h /\ q[i + 1] # j
    BY <1>1, <1>4, <2>2
  <2>7. \A i \in 1 .. Len(q) - 1 : task'[q[i + 1]].pc = "slot"
    BY <1>1, <1>3, <2>4, <2>6
  <2>8. QueueWaits'
    <3>1. \A i, k \in 1 .. Len(q) - 1 : q[i + 1] = q[k + 1] => i = k
      <4> SUFFICES ASSUME NEW i \in 1 .. Len(q) - 1, NEW k \in 1 .. Len(q) - 1,
                          q[i + 1] = q[k + 1]
                   PROVE  i = k
        OBVIOUS
      <4>1. Len(q) \in Nat /\ i + 1 \in 1 .. Len(q) /\ k + 1 \in 1 .. Len(q)
        BY <1>1
      <4> QED BY <1>1, <4>1
    <3>2. 1 .. Len(Tail(q)) = 1 .. Len(q) - 1
      BY <2>2
    <3>3. \A i \in 1 .. Len(Tail(q)) : task'[Tail(q)[i]].pc = "slot"
      BY <2>2, <2>7, <3>2
    <3>4. \A i, k \in 1 .. Len(Tail(q)) : Tail(q)[i] = Tail(q)[k] => i = k
      BY <2>2, <3>1, <3>2
    <3> QED BY <2>1, <3>3, <3>4 DEF QueueWaits
  <2> QED BY <2>5, <2>8
<1>6. CASE ~(q # <<>> /\ ~stopping)
  <2>1. slots'.queue = q /\ task' = ended
    BY <1>6 DEF ReleaseRunSlot, LockInv, TypeOK
  <2> HIDE DEF ended
  <2>2. Busy' = Busy \ {j}
    BY <1>2, <1>3, <2>1 DEF Busy
  <2>3. \A i \in 1 .. Len(q) : task'[q[i]].pc = "slot"
    BY <1>1, <1>3, <1>4, <2>1
  <2> QED BY <1>1, <2>1, <2>2, <2>3 DEF QueueWaits
<1> QED BY <1>5, <1>6

-----------------------------------------------------------------------------
(* Each step preserves LockInv.                                              *)

(* jobGuard.cancel clears the lock of one rule and no other.                 *)
LEMMA UnlockKeeps ==
  ASSUME TypeOK, NEW r \in Rule, guard' = [guard EXCEPT ![r] = Cancel(@)]
  PROVE  /\ ~guard'[r].running
         /\ \A s \in Rule \ {r} : guard'[s].running = guard[s].running
  BY DEF TypeOK, GuardState, Cancel

(* runRule's exit after a rejected slot wait.                                *)
LEMMA LockSlotRejected ==
  ASSUME LockInv, TypeOK', NEW j \in JobId, SlotRejected(j) PROVE LockInv'
<1>1. j \in Busy /\ RuleOf(j) \in Rule
  BY DEF SlotRejected, Busy, LockInv, BusyRowsExist
<1>2. RowsSurvive
  BY UnstartedKeeps, SameIsSurvival DEF SlotRejected, LockInv
<1>3. task \in [JobId -> TaskState] /\ task' = [task EXCEPT ![j] = NoTask]
  BY DEF SlotRejected, LockInv, TypeOK
<1>4. Busy' = Busy \ {j}
  BY <1>3 DEF Busy, NoTask
<1>5. QueueWaits'
  <2>1. \A k \in JobId : task[k].pc = "slot" => task'[k].pc = "slot"
    BY <1>3 DEF SlotRejected
  <2> QED BY <2>1, QueueKept DEF SlotRejected
<1>6. /\ ~guard'[RuleOf(j)].running
      /\ \A s \in Rule \ {RuleOf(j)} : guard'[s].running = guard[s].running
  BY <1>1, UnlockKeeps DEF SlotRejected, LockInv
<1> QED BY <1>1, <1>2, <1>4, <1>5, <1>6, LockEnds DEF SlotRejected

(* runRule's admission: the call goes on, nobody starts or ends.             *)
LEMMA LockAdmit ==
  ASSUME LockInv, TypeOK', NEW j \in JobId, Admit(j) PROVE LockInv'
<1>1. RowsSurvive
  <2>1. jobs \in Table /\ jobs[j].attempt + 1 \in Nat
    BY DEF LockInv, TypeOK, Table, Row
  <2> QED BY <2>1, MarkRunningKeeps, MarkRunningAttemptKeeps, SameIsSurvival DEF Admit
<1>2. /\ task \in [JobId -> TaskState] /\ task' = [task EXCEPT ![j].pc = "running"]
      /\ task[j].pc = "granted"
  BY DEF Admit, LockInv, TypeOK
<1>3. Busy' = Busy
  BY <1>2 DEF Busy, TaskState
<1>4. QueueWaits'
  <2>1. \A k \in JobId : task[k].pc = "slot" => task'[k].pc = "slot"
    BY <1>2
  <2> QED BY <2>1, QueueKept DEF Admit
<1>5. SameLocks /\ RetriesDropped /\ lastJob <= lastJob'
  BY DEF Admit, SameLocks, RetriesDropped, LockInv, TypeOK
<1> QED BY <1>1, <1>3, <1>4, <1>5, LockKept

(* runRule's exits between the slot grant and the admission.                 *)
LEMMA LockGiveUp ==
  ASSUME LockInv, TypeOK', NEW j \in JobId, GiveUp(j) PROVE LockInv'
<1>1. j \in Busy /\ RuleOf(j) \in Rule
  BY DEF GiveUp, Busy, LockInv, BusyRowsExist
<1>2. RowsSurvive
  BY UnstartedKeeps, SameIsSurvival DEF GiveUp, LockInv
<1>3. QueueWaits' /\ Busy' = Busy \ {j}
  BY <1>1, QueueLeaves DEF GiveUp
<1>4. /\ ~guard'[RuleOf(j)].running
      /\ \A s \in Rule \ {RuleOf(j)} : guard'[s].running = guard[s].running
  BY <1>1, UnlockKeeps DEF GiveUp, LockInv
<1> QED BY <1>1, <1>2, <1>3, <1>4, LockEnds DEF GiveUp

(* The action settles: the call goes on with the lock held.                  *)
LEMMA LockSettle ==
  ASSUME LockInv, TypeOK', NEW j \in JobId, Settle(j) PROVE LockInv'
<1> DEFINE mid == [task EXCEPT ![j].pc = "settled"]
<1>1. PICK o : task' = [mid EXCEPT ![j].outcome = o]
  BY DEF Settle
<1>2. task \in [JobId -> TaskState] /\ task[j].pc = "running"
  BY DEF Settle, LockInv, TypeOK
<1>3. /\ mid \in [JobId -> TaskState] /\ mid[j].pc = "settled"
      /\ \A k \in JobId \ {j} : mid[k] = task[k]
  BY <1>2 DEF TaskState
<1> HIDE DEF mid
<1>4. task'[j].pc = "settled" /\ \A k \in JobId \ {j} : task'[k] = task[k]
  BY <1>1, <1>3 DEF TaskState
<1>5. Busy' = Busy
  BY <1>2, <1>4 DEF Busy
<1>6. QueueWaits'
  <2>1. \A k \in JobId : task[k].pc = "slot" => task'[k].pc = "slot"
    BY <1>2, <1>4
  <2> QED BY <2>1, QueueKept DEF Settle
<1>7. SameLocks /\ RetriesDropped /\ lastJob <= lastJob' /\ RowsSurvive
  BY DEF Settle, SameLocks, RetriesDropped, LockInv, TypeOK, RowsSurvive, Alive
<1> QED BY <1>5, <1>6, <1>7, LockKept

(* runRule's normal exit, which may park its row for a retry.                *)
LEMMA LockComplete ==
  ASSUME LockInv, TypeOK', NEW j \in JobId, Complete(j) PROVE LockInv'
<1>1. j \in Busy /\ RuleOf(j) \in Rule
  BY DEF Complete, Busy, LockInv, BusyRowsExist
<1>2. RowsSurvive
  BY CompletedType, SameIsSurvival DEF Complete, LockInv
<1>3. QueueWaits' /\ Busy' = Busy \ {j}
  BY <1>1, QueueLeaves DEF Complete
<1>4. /\ ~guard'[RuleOf(j)].running
      /\ \A s \in Rule \ {RuleOf(j)} : guard'[s].running = guard[s].running
  BY <1>1 DEF Complete, CompletedGuard, Cancel, End, IdleGuard, LockInv, TypeOK,
              GuardState
<1>5. \A s \in Rule : \/ retry'[s] \in {retry[s], 0}
                      \/ s = RuleOf(j) /\ retry'[s] = j
  BY <1>1 DEF Complete, LockInv, TypeOK
<1>6. lastJob' = lastJob
  BY DEF Complete
<1> QED BY <1>1, <1>2, <1>3, <1>4, <1>5, <1>6, LockEnds

(* testRunRule's exit.                                                       *)
LEMMA LockTestComplete ==
  ASSUME LockInv, TypeOK', NEW j \in JobId, TestComplete(j) PROVE LockInv'
<1>1. j \in Busy /\ RuleOf(j) \in Rule
  BY DEF TestComplete, Busy, LockInv, BusyRowsExist
<1>2. RowsSurvive
  BY MarkKeeps, SameIsSurvival DEF TestComplete, LockInv, TypeOK, Table
<1>3. task \in [JobId -> TaskState] /\ task' = [task EXCEPT ![j] = NoTask]
  BY DEF TestComplete, LockInv, TypeOK
<1>4. Busy' = Busy \ {j}
  BY <1>3 DEF Busy, NoTask
<1>5. QueueWaits'
  <2>1. \A k \in JobId : task[k].pc = "slot" => task'[k].pc = "slot"
    BY <1>3 DEF TestComplete
  <2> QED BY <2>1, QueueKept DEF TestComplete
<1>6. /\ ~guard'[RuleOf(j)].running
      /\ \A s \in Rule \ {RuleOf(j)} : guard'[s].running = guard[s].running
  BY <1>1, UnlockKeeps DEF TestComplete, LockInv
<1> QED BY <1>1, <1>2, <1>4, <1>5, <1>6, LockEnds DEF TestComplete

(* The next row id is unused: no call works on it and no timer resumes it. *)
LEMMA NextRowUnused ==
  ASSUME LockInv, lastJob < MaxJobs
  PROVE  /\ lastJob + 1 \in JobId
         /\ lastJob + 1 \notin Busy
         /\ task[lastJob + 1].pc = "idle"
         /\ \A r \in Rule : retry[r] # lastJob + 1
<1>1. lastJob \in 0 .. MaxJobs /\ lastJob + 1 \in JobId
  BY StoreAssumption DEF LockInv, TypeOK, JobId
<1>2. lastJob + 1 \notin Busy
  BY <1>1 DEF LockInv, RowsInOrder
<1>3. \A r \in Rule : retry[r] # lastJob + 1
  BY <1>1 DEF LockInv, ParkedIsIdle
<1> QED BY <1>1, <1>2, <1>3 DEF Busy

(* A trigger: refused with a skipped row, or a call that takes the lock.     *)
LEMMA LockRunRule ==
  ASSUME LockInv, TypeOK', NEW r \in Rule, NEW arm, RunRule(r, arm)
  PROVE  LockInv'
<1>1. PICK j \in JobId : j = lastJob + 1
  BY NextRowUnused DEF RunRule
<1>2. /\ j \notin Busy /\ task[j].pc = "idle"
      /\ \A s \in Rule : retry[s] # j
      /\ \A k \in JobId : k <= lastJob => k # j
  BY <1>1, NextRowUnused DEF RunRule, LockInv, TypeOK
<1>3. lastJob' = j /\ j <= lastJob' /\ lastJob <= lastJob'
  BY <1>1 DEF RunRule, LockInv, TypeOK, JobId
<1> DEFINE rows == EnqueueJob(jobs, j, r, Kind[r], cfg[r].plan)
<1>4. Kind[r] \in JobSource /\ cfg[r].plan \in Nat /\ jobs \in Table
  BY SchedulerAssumption DEF JobSource, LockInv, TypeOK, RuleConfig, Table
<1>5. /\ rows \in Table /\ rows[j].rule = r /\ rows[j].status = "queued"
      /\ \A k \in JobId \ {j} : rows[k] = jobs[k]
  BY <1>4, EnqueueJobKeeps
<1>6. RetriesDropped /\ UNCHANGED retry
  BY DEF RunRule, RetriesDropped, LockInv, TypeOK
<1>7. CASE ~ShouldRun(guard[r])
  <2>1. jobs' = MarkSkipped(rows, j) /\ UNCHANGED <<guard, task, slots>>
    BY <1>1, <1>7 DEF RunRule
  <2> HIDE DEF rows
  <2>2. \A k \in JobId \ {j} : Alive(k) => jobs'[k] = jobs[k]
    BY <1>5, <2>1, MarkSkippedKeeps DEF Alive
  <2>3. RowsSurvive
    BY <1>2, <2>2 DEF RowsSurvive, Alive
  <2>4. QueueWaits' /\ Busy' = Busy /\ SameLocks
    BY <2>1, QueueKept DEF Busy, SameLocks
  <2> QED BY <1>3, <1>6, <2>3, <2>4, LockKept
<1>8. CASE ShouldRun(guard[r])
  <2>1. /\ guard' = [guard EXCEPT ![r] = Begin(@)]
        /\ jobs' = rows
        /\ AcquireRunSlot(j, FALSE)
    BY <1>1, <1>8 DEF RunRule
  <2>2. QueueWaits' /\ Busy' = Busy \cup {j}
    BY <1>2, <2>1, QueueJoins
  <2>3. /\ ~guard[r].running /\ guard'[r].running
        /\ \A s \in Rule \ {r} : guard'[s].running = guard[s].running
    BY <1>8, <2>1 DEF ShouldRun, Begin, LockInv, TypeOK, GuardState
  <2>4. \A s \in Rule : retry'[s] # j
    BY <1>2, <1>6
  <2> HIDE DEF rows
  <2>5. jobs'[j].rule = r /\ Alive(j)'
    BY <1>5, <2>1 DEF Alive
  <2>6. RowsSurvive
    BY <1>2, <1>5, <2>1 DEF RowsSurvive, Alive
  <2> QED BY <1>2, <1>3, <1>6, <2>2, <2>3, <2>4, <2>5, <2>6, LockBegins
<1> QED BY <1>7, <1>8

(* testRunRule takes the lock on a row of its own.                           *)
LEMMA LockTestRun ==
  ASSUME LockInv, TypeOK', NEW r \in Rule, TestRun(r) PROVE LockInv'
<1>1. PICK j \in JobId : j = lastJob + 1
  BY NextRowUnused DEF TestRun
<1>2. /\ j \notin Busy /\ task[j].pc = "idle"
      /\ \A s \in Rule : retry[s] # j
      /\ \A k \in JobId : k <= lastJob => k # j
  BY <1>1, NextRowUnused DEF TestRun, LockInv, TypeOK
<1>3. lastJob' = j /\ j <= lastJob' /\ lastJob <= lastJob'
  BY <1>1 DEF TestRun, LockInv, TypeOK, JobId
<1> DEFINE rows == EnqueueJob(jobs, j, r, "test", 0)
<1>4. jobs \in Table
  BY DEF LockInv, TypeOK, Table
<1>5. /\ rows \in Table /\ rows[j].rule = r /\ rows[j].status = "queued"
      /\ \A k \in JobId \ {j} : rows[k] = jobs[k]
  BY <1>4, EnqueueJobKeeps DEF JobSource
<1>6. jobs' = MarkRunning(rows, j)
  BY <1>1 DEF TestRun
<1> HIDE DEF rows
<1>7. SameExecutions(rows, jobs')
  BY <1>5, <1>6, MarkRunningKeeps
<1>8. jobs'[j].rule = r /\ Alive(j)'
  BY <1>5, <1>7 DEF SameExecutions, Alive
<1>9. RowsSurvive
  BY <1>2, <1>5, <1>7 DEF SameExecutions, RowsSurvive, Alive
<1>10. /\ task' = [task EXCEPT ![j] = [NoTask EXCEPT !.pc = "running", !.fresh = TRUE]]
       /\ task \in [JobId -> TaskState]
  BY <1>1 DEF TestRun, LockInv, TypeOK
<1>11. task'[j].pc = "running" /\ \A k \in JobId \ {j} : task'[k] = task[k]
  BY <1>10 DEF NoTask
<1>12. Busy' = Busy \cup {j}
  BY <1>11 DEF Busy
<1>13. QueueWaits'
  BY <1>2, <1>11, QueueKept DEF TestRun
<1>14. /\ ~guard[r].running /\ guard'[r].running
       /\ \A s \in Rule \ {r} : guard'[s].running = guard[s].running
  BY DEF TestRun, ShouldRun, Begin, LockInv, TypeOK, GuardState
<1>15. RetriesDropped /\ \A s \in Rule : retry'[s] # j
  BY <1>2 DEF TestRun, RetriesDropped
<1> QED BY <1>2, <1>3, <1>8, <1>9, <1>12, <1>13, <1>14, <1>15, LockBegins

(* A retry timer: the parked row gets a call, or is ended without one.       *)
LEMMA LockRetryFire ==
  ASSUME LockInv, TypeOK', NEW r \in Rule, RetryFire(r) PROVE LockInv'
<1>1. PICK j \in JobId : j = retry[r]
  BY DEF RetryFire, LockInv, TypeOK
<1>2. /\ jobs[j].rule = r /\ Alive(j) /\ j <= lastJob
      /\ task[j].pc = "idle" /\ j \notin Busy
  BY <1>1 DEF RetryFire, LockInv, ParkedIsIdle, RuleOf, Busy
<1>3. /\ retry' = [retry EXCEPT ![r] = 0] /\ lastJob' = lastJob
      /\ retry \in [Rule -> JobId \cup {0}] /\ lastJob \in Nat
  BY DEF RetryFire, LockInv, TypeOK
<1>4. RetriesDropped
  BY <1>3 DEF RetriesDropped
<1>5. CASE /\ ShouldRun(guard[r])
           /\ guard' = [guard EXCEPT ![r] = Begin(@)]
           /\ AcquireRunSlot(j, TRUE)
           /\ UNCHANGED jobs
  <2>1. QueueWaits' /\ Busy' = Busy \cup {j}
    BY <1>2, <1>5, QueueJoins
  <2>2. /\ ~guard[r].running /\ guard'[r].running
        /\ \A s \in Rule \ {r} : guard'[s].running = guard[s].running
    BY <1>5 DEF ShouldRun, Begin, LockInv, TypeOK, GuardState
  <2>3. \A s \in Rule : retry'[s] # j
    <3>1. \A s \in Rule \ {r} : retry[s] # j
      BY <1>2 DEF LockInv, ParkedIsIdle, RuleOf, JobId
    <3> QED BY <1>3, <3>1 DEF JobId
  <2>4. RowsSurvive /\ jobs'[j].rule = r /\ Alive(j)'
    BY <1>2, <1>5 DEF RowsSurvive, Alive
  <2> QED BY <1>2, <1>3, <1>4, <2>1, <2>2, <2>3, <2>4, LockBegins
<1>6. CASE jobs' = MarkRetryAbandoned(jobs, j) /\ UNCHANGED <<guard, task, slots>>
  <2>1. RowsSurvive
    BY <1>6, MarkKeeps, SameIsSurvival DEF LockInv, TypeOK, Table
  <2>2. QueueWaits' /\ Busy' = Busy /\ SameLocks
    BY <1>6, QueueKept DEF Busy, SameLocks
  <2> QED BY <1>3, <1>4, <2>1, <2>2, LockKept
<1> QED BY <1>1, <1>5, <1>6 DEF RetryFire

(* A reload or a stop: waiting calls are told, none starts or ends. *)
LEMMA InvalidatedKeepsBusy ==
  ASSUME LockInv, task' = Invalidated
  PROVE  Busy' = Busy
<1>1. \A k \in JobId : task'[k].pc = "idle" <=> task[k].pc = "idle"
  BY ZenonT(40) DEF Invalidated, LockInv, TypeOK, TaskState
<1> QED BY <1>1 DEF Busy

(* reloadSchedule leaves calls and locks alone and drops parked retries.     *)
LEMMA LockReload ==
  ASSUME LockInv, TypeOK', NEW c, NEW d, NEW g, ReloadSchedule(c, d, g),
         \A r \in Rule : g[r].running = guard[r].running
  PROVE  LockInv'
<1>1. RowsSurvive
  BY AbandonParkedKeeps, SameIsSurvival DEF ReloadSchedule, LockInv, TypeOK, Table
<1>2. Busy' = Busy
  BY InvalidatedKeepsBusy DEF ReloadSchedule
<1>3. QueueWaits'
  BY QueueEmptied DEF ReloadSchedule, LockInv, TypeOK
<1>4. SameLocks /\ RetriesDropped /\ lastJob <= lastJob'
  BY DEF ReloadSchedule, SameLocks, RetriesDropped, NoRetries, LockInv, TypeOK
<1> QED BY <1>1, <1>2, <1>3, <1>4, LockKept

(* automation:update is a reload; stale counters do not touch the lock.      *)
LEMMA LockUpdateRule ==
  ASSUME LockInv, TypeOK', NEW r \in Rule, UpdateRule(r) PROVE LockInv'
<1>1. PICK copy \in Counters(r) :
        \E c, d : ReloadSchedule(c, d, [guard EXCEPT ![r] = copy])
  BY DEF UpdateRule
<1>2. \A s \in Rule : [guard EXCEPT ![r] = copy][s].running = guard[s].running
  BY DEF Counters, LockInv, TypeOK
<1> QED BY <1>1, <1>2, LockReload

(* automation:reschedule-once is a reload.                                   *)
LEMMA LockReschedule ==
  ASSUME LockInv, TypeOK', NEW r \in Rule, RescheduleOnce(r) PROVE LockInv'
  BY LockReload DEF RescheduleOnce

(* automation:job-cancel ends a row, not its call, and drops its retry.      *)
LEMMA LockCancelJob ==
  ASSUME LockInv, TypeOK', NEW j \in JobId, CancelJob(j) PROVE LockInv'
<1>1. RowsSurvive
  BY MarkKeeps, SameIsSurvival DEF CancelJob, LockInv, TypeOK, Table
<1>2. UNCHANGED <<task, slots, guard, lastJob>>
  BY DEF CancelJob
<1>3. QueueWaits' /\ Busy' = Busy /\ SameLocks
  BY <1>2, QueueKept DEF Busy, SameLocks
<1>4. RetriesDropped /\ lastJob <= lastJob'
  BY DEF CancelJob, RetriesDropped, LockInv, TypeOK
<1> QED BY <1>1, <1>3, <1>4, LockKept

(* Steps of the clock, the host and the timers touch no call. *)
LEMMA LockIdleStep ==
  ASSUME LockInv, TypeOK', UNCHANGED <<jobs, task, slots, lastJob, retry>>, SameLocks
  PROVE  LockInv'
<1>1. RowsSurvive /\ RetriesDropped /\ lastJob <= lastJob'
  BY DEF RowsSurvive, Alive, RetriesDropped, LockInv, TypeOK
<1>2. QueueWaits' /\ Busy' = Busy
  BY QueueKept DEF Busy
<1> QED BY <1>1, <1>2, LockKept

(* stopScheduler ends rows and leaves the calls to end themselves.           *)
LEMMA LockStopScheduler ==
  ASSUME LockInv, TypeOK', StopScheduler PROVE LockInv'
<1> DEFINE parked == AbandonParked(jobs, retry)
<1>1. parked \in Table /\ SameExecutions(jobs, parked)
  BY AbandonParkedKeeps DEF LockInv, TypeOK, Table
<1>2. jobs' = [j \in JobId |-> IF j \in Active THEN MarkCancelled(parked, j)[j]
                               ELSE parked[j]]
  BY DEF StopScheduler
<1> HIDE DEF parked
<1>3. \A j \in JobId : SameExecutions(parked, MarkCancelled(parked, j))
  BY <1>1, MarkKeeps
<1>4. SameExecutions(parked, jobs')
  BY <1>2, <1>3 DEF SameExecutions
<1>5. RowsSurvive
  BY <1>1, <1>4, SameIsSurvival DEF SameExecutions
<1>6. Busy' = Busy
  BY InvalidatedKeepsBusy DEF StopScheduler
<1>7. QueueWaits'
  BY QueueEmptied DEF StopScheduler, LockInv, TypeOK
<1>8. SameLocks /\ RetriesDropped /\ lastJob <= lastJob'
  BY DEF StopScheduler, SameLocks, RetriesDropped, NoRetries, LockInv, TypeOK
<1> QED BY <1>5, <1>6, <1>7, <1>8, LockKept

(* A new process: no call, no lock, no parked retry.                         *)
LEMMA LockStart ==
  ASSUME LockInv, TypeOK', NEW rows, NEW c, NEW g \in [Rule -> GuardState], NEW al,
         StartFrom(rows, c, g, al)
  PROVE  LockInv'
<1>1. Busy' = {}
  BY DEF StartFrom, Busy, NoTask
<1>2. \A r \in Rule : ~guard'[r].running
  BY DEF StartFrom, Cancel, GuardState
<1>3. slots'.queue = <<>> /\ retry' = NoRetries
  BY DEF StartFrom
<1> QED BY <1>1, <1>2, <1>3, LockStarts

(* Every step of the engine preserves the strengthened invariant.            *)
LEMMA LockNext == LockInv /\ [Next]_vars => LockInv'
<1> SUFFICES ASSUME LockInv, [Next]_vars PROVE LockInv'
  OBVIOUS
<1>1. TypeOK'
  BY TypeNext DEF LockInv
<1>2. ASSUME NEW j \in JobId, RunStep(j) PROVE LockInv'
  BY <1>1, <1>2, LockSlotRejected, LockAdmit, LockGiveUp, LockSettle, LockComplete,
     LockTestComplete DEF RunStep
<1>3. ASSUME NEW r \in Rule, TriggerStep(r) PROVE LockInv'
  <2>1. CASE OnceDropped(r)
    BY <1>1, <2>1, LockIdleStep DEF OnceDropped, SameLocks
  <2> QED BY <1>1, <1>3, <2>1, LockRunRule, LockRetryFire
          DEF TriggerStep, CronFire, OnceFire, EventFire
<1>4. ASSUME NEW j \in JobId, ZombieEnds(j) PROVE LockInv'
  BY <1>1, <1>4, LockIdleStep DEF ZombieEnds, SameLocks
<1>5. ASSUME NEW r \in Rule, CooldownElapses(r) PROVE LockInv'
  <2>1. SameLocks
    BY <1>5 DEF CooldownElapses, SameLocks, LockInv, TypeOK, GuardState
  <2> QED BY <1>1, <1>5, <2>1, LockIdleStep DEF CooldownElapses
<1>6. ASSUME NEW r \in Rule, Tick(r) PROVE LockInv'
  BY <1>1, <1>6, LockIdleStep DEF Tick, SameLocks
<1>7. ASSUME SetMaxConcurrent \/ ClockBack \/ RefreshTimers PROVE LockInv'
  BY <1>1, <1>7, LockIdleStep DEF SetMaxConcurrent, ClockBack, RefreshTimers, SameLocks
<1>8. ASSUME NEW r \in Rule, TestRun(r) \/ UpdateRule(r) \/ RescheduleOnce(r)
      PROVE  LockInv'
  BY <1>1, <1>8, LockTestRun, LockUpdateRule, LockReschedule
<1>9. ASSUME NEW j \in JobId, CancelJob(j) PROVE LockInv'
  BY <1>1, <1>9, LockCancelJob
<1>10. ASSUME StopScheduler PROVE LockInv'
  BY <1>1, <1>10, LockStopScheduler
<1>11. ASSUME Restart PROVE LockInv'
  BY <1>1, <1>11, LockStart DEF Restart, LockInv, TypeOK
<1>12. ASSUME NEW j \in JobId, CrashInComplete(j) PROVE LockInv'
  <2>1. PICK g \in {guard, CompletedGuard(j)} :
          \E rows, c : StartFrom(rows, c, g, alerts)
    BY <1>12 DEF CrashInComplete
  <2>2. g \in [Rule -> GuardState]
    BY CompletedType DEF LockInv, TypeOK
  <2> QED BY <1>1, <2>1, <2>2, LockStart
<1>13. CASE UNCHANGED vars
  BY <1>1, <1>13, LockIdleStep DEF vars, SameLocks
<1>14. CASE Next
  BY <1>2, <1>3, <1>4, <1>5, <1>6, <1>7, <1>8, <1>9, <1>10, <1>11, <1>12, <1>14,
     SchedulerAssumption DEF Next
<1> QED BY <1>13, <1>14

(* The first start satisfies the strengthened invariant.                     *)
LEMMA LockInit == Init => LockInv
<1> SUFFICES ASSUME Init PROVE LockInv
  OBVIOUS
<1>1. TypeOK
  BY TypeInit
<1>2. Busy = {} /\ \A r \in Rule : ~guard[r].running /\ retry[r] = 0
  BY DEF Init, Busy, NoTask, IdleGuard, NoRetries
<1> QED BY <1>1, <1>2 DEF Init, LockInv, RowsInOrder, BusyRowsExist, QueueWaits,
                          ParkedIsIdle, LockIsExact

(* The strengthened invariant: calls work on living rows of their own rules, *)
(* the slot queue is duplicate free, a parked row is idle, and the lock is   *)
(* exact.                                                                    *)
THEOREM LockInvariant == Spec => []LockInv
  BY LockInit, LockNext, PTL DEF Spec

(* The re-entry lock of a rule is held exactly while one call works for it,  *)
(* whatever triggers, edits, cancellations, stops and crashes interleave.    *)
THEOREM LockCorrect == Spec => []LockIsExact
<1>1. LockInv => LockIsExact
  BY DEF LockInv
<1> QED BY <1>1, LockInvariant, PTL

-----------------------------------------------------------------------------
(* A stale run parks no retry and does not disable its rule.                 *)

Inert(j) ==
  task[j].pc = "settled" /\ ~task[j].fresh /\ task'[j].pc = "idle" =>
    /\ retry'[RuleOf(j)] \in {retry[RuleOf(j)], 0}
    /\ cfg'[RuleOf(j)].enabled = cfg[RuleOf(j)].enabled

(* The invalidated generation shows in every decision of the completion. *)
LEMMA StaleCompletion ==
  ASSUME LockInv, NEW j \in JobId, ~task[j].fresh
  PROVE  ~Parks(j) /\ CompletedCfg(j) = cfg
  BY DEF Parks, CompletedCfg, StillRunnable, StillCurrent

(* Marking missed and restarting leave the enabled flags alone. *)
LEMMA MarkMissedKeepsEnabled ==
  ASSUME NEW c \in [Rule -> RuleConfig], NEW rs, NEW d, NEW g, NEW arm, NEW ret,
         NEW q, NEW r \in Rule
  PROVE  MarkMissed(c, rs, d, g, arm, ret, q)[r].enabled = c[r].enabled
<1> DEFINE cond(s) ==
      /\ s \in rs /\ c[s].enabled /\ Kind[s] = "once" /\ d[s] # "future"
      /\ ~g[s].running
      /\ ret[s] = 0
      /\ \A i \in DOMAIN q : RuleOf(q[i]) # s
      /\ s \in arm => ~ShouldRun(g[s])
<1>1. MarkMissed(c, rs, d, g, arm, ret, q)
        = [s \in Rule |-> IF cond(s) THEN [c[s] EXCEPT !.missed = TRUE] ELSE c[s]]
  BY DEF MarkMissed
<1> HIDE DEF cond
<1> QED BY <1>1 DEF RuleConfig

(* A restart parks nothing and disables nothing.                             *)
LEMMA StartIsInert ==
  ASSUME LockInv, NEW j \in Busy, NEW rows, NEW c \in [Rule -> RuleConfig], NEW g,
         NEW al, StartFrom(rows, c, g, al),
         c[RuleOf(j)].enabled = cfg[RuleOf(j)].enabled
  PROVE  Inert(j)
<1>1. RuleOf(j) \in Rule
  BY DEF LockInv, BusyRowsExist
<1>2. retry' = NoRetries
  BY DEF StartFrom
<1>3. PICK i, a : cfg' = MarkMissed(c, Rule, due, i, a, NoRetries, <<>>)
  BY DEF StartFrom
<1>4. cfg'[RuleOf(j)].enabled = c[RuleOf(j)].enabled
  BY <1>1, <1>3, MarkMissedKeepsEnabled
<1> QED BY <1>1, <1>2, <1>4 DEF Inert, NoRetries

(* Only the call on row j makes the task of row j idle. *)
LEMMA ReleaseEndsOne ==
  ASSUME LockInv, NEW j \in Busy, NEW k \in JobId, ReleaseRunSlot(k),
         task[k].pc \notin {"idle", "slot"}, task'[j].pc = "idle"
  PROVE  j = k
  BY QueueLeaves DEF Busy

(* What one step of the engine does to a stale settled call.                 *)
LEMMA StaleNext ==
  ASSUME LockInv, [Next]_vars, NEW j \in JobId PROVE Inert(j)
<1> SUFFICES ASSUME task[j].pc = "settled", ~task[j].fresh, task'[j].pc = "idle"
             PROVE  Inert(j)
  BY DEF Inert
<1>1. j \in Busy /\ RuleOf(j) \in Rule /\ \A i \in Busy : RuleOf(i) = RuleOf(j) => i = j
  BY DEF Busy, LockInv, BusyRowsExist, LockIsExact
<1>2. /\ task \in [JobId -> TaskState] /\ cfg \in [Rule -> RuleConfig]
      /\ retry \in [Rule -> JobId \cup {0}]
  BY DEF LockInv, TypeOK
<1>3. CASE UNCHANGED <<retry, cfg>>
  BY <1>3 DEF Inert
<1>4. ASSUME NEW k \in JobId, RunStep(k) PROVE Inert(j)
  <2>1. CASE Complete(k)
    <3>1. k = j
      BY <1>1, <2>1, ReleaseEndsOne DEF Complete
    <3>2. retry' = retry /\ cfg' = cfg
      BY <2>1, <3>1, StaleCompletion DEF Complete
    <3> QED BY <1>3, <3>2
  <2> QED BY <1>3, <1>4, <2>1
          DEF RunStep, SlotRejected, Admit, GiveUp, Settle, TestComplete
<1>5. ASSUME UNCHANGED task PROVE Inert(j)
  BY <1>5
<1>6. ASSUME NEW r \in Rule, NEW arm, RunRule(r, arm) PROVE Inert(j)
  <2>1. CASE ShouldRun(guard[r])
    BY <1>3, <2>1, <1>6 DEF RunRule
  <2> QED BY <1>5, <1>6, <2>1 DEF RunRule
<1>7. ASSUME NEW r \in Rule, TriggerStep(r) PROVE Inert(j)
  <2>1. CASE RetryFire(r)
    BY <1>2, <2>1 DEF RetryFire, Inert
  <2>2. CASE OnceDropped(r)
    BY <1>5, <2>2 DEF OnceDropped
  <2> QED BY <1>6, <1>7, <2>1, <2>2 DEF TriggerStep, CronFire, OnceFire, EventFire
<1>8. ASSUME NEW c, NEW d, NEW g, ReloadSchedule(c, d, g) PROVE Inert(j)
  <2>1. task'[j].pc = task[j].pc
    BY <1>2, <1>8 DEF ReloadSchedule, Invalidated, TaskState
  <2> QED BY <2>1
<1>9. ASSUME StopScheduler PROVE Inert(j)
  <2>1. task'[j].pc = task[j].pc
    BY <1>2, <1>9 DEF StopScheduler, Invalidated, TaskState
  <2> QED BY <2>1
<1>10. ASSUME NEW k \in JobId, CancelJob(k) PROVE Inert(j)
  BY <1>5, <1>10 DEF CancelJob
<1>11. ASSUME NEW r \in Rule, TestRun(r) PROVE Inert(j)
  BY <1>3, <1>11 DEF TestRun
<1>12. ASSUME Restart PROVE Inert(j)
  BY <1>1, <1>2, <1>12, StartIsInert DEF Restart
<1>13. ASSUME NEW k \in JobId, CrashInComplete(k) PROVE Inert(j)
  <2>1. k \in Busy /\ (RuleOf(k) = RuleOf(j) => k = j)
    BY <1>1, <1>13 DEF CrashInComplete, Busy
  <2>2. CompletedCfg(k)[RuleOf(j)].enabled = cfg[RuleOf(j)].enabled
    <3>1. CASE k = j
      BY <3>1, StaleCompletion
    <3>2. CASE RuleOf(k) # RuleOf(j)
      BY <1>1, <1>2, <3>2 DEF CompletedCfg
    <3> QED BY <2>1, <3>1, <3>2
  <2>3. CompletedCfg(k) \in [Rule -> RuleConfig]
    BY CompletedType DEF LockInv
  <2>4. PICK c \in {cfg, CompletedCfg(k)} :
          \E rows, g : StartFrom(rows, c, g, alerts)
    BY <1>13 DEF CrashInComplete
  <2> QED BY <1>1, <1>2, <2>2, <2>3, <2>4, StartIsInert
<1>14. ASSUME \/ SetMaxConcurrent \/ ClockBack \/ RefreshTimers
              \/ \E k \in JobId : ZombieEnds(k)
              \/ \E r \in Rule : CooldownElapses(r) \/ Tick(r)
       PROVE  Inert(j)
  BY <1>5, <1>14 DEF SetMaxConcurrent, ClockBack, RefreshTimers, ZombieEnds,
                     CooldownElapses, Tick
<1>15. CASE UNCHANGED vars
  BY <1>5, <1>15 DEF vars
<1>16. ASSUME NEW r \in Rule, UpdateRule(r) \/ RescheduleOnce(r) PROVE Inert(j)
  BY <1>8, <1>16 DEF UpdateRule, RescheduleOnce
<1>17. CASE Next
  BY <1>4, <1>7, <1>9, <1>10, <1>11, <1>12, <1>13, <1>14, <1>16, <1>17,
     SchedulerAssumption DEF Next
<1> QED BY <1>15, <1>17

(* A run that outlived a reload or a stop ends without parking a retry and   *)
(* without disabling its rule, for every interleaving: at most one call of   *)
(* the rule is alive, so no other completion can do it in its place.         *)
THEOREM StaleRunsAreInert == Spec => StaleRunIsInert
<1>1. LockInv /\ [Next]_vars =>
        [\A j \in JobId :
           task[j].pc = "settled" /\ ~task[j].fresh /\ task'[j].pc = "idle" =>
             /\ retry'[RuleOf(j)] \in {retry[RuleOf(j)], 0}
             /\ cfg'[RuleOf(j)].enabled = cfg[RuleOf(j)].enabled]_vars
  BY StaleNext DEF Inert
<1> QED BY <1>1, LockInvariant, PTL DEF Spec, StaleRunIsInert
=============================================================================
