------------------------- MODULE DesktopChat_proofs -------------------------
(***************************************************************************)
(* The desktop chat, proved for every set of windows, conversations and    *)
(* requests, every bound and every set of faults: ChatInv, the inductive   *)
(* invariant of ChatProperties, and the two promises about stopped tasks,  *)
(* which are about steps.  Most steps leave the tasks what they were and   *)
(* change how far one of them is, or only the rows; Reserve, the end of    *)
(* Prepare, Finish and Restart change who has a task.                      *)
(***************************************************************************)
EXTENDS ChatProperties, TLAPS

RowState == {"none", "running", "completed", "failed"}

\* What no step may do to a task: the bodies of the two action properties.
DispatchAllowed(r) ==
  run'[r].state \in {"model", "acting"} /\ run'[r].state # run[r].state =>
    ~Aborted(r) /\ window[run[r].owner] = "open"
FirstReason(r) ==
  Alive(r) /\ Aborted(r) =>
    \/ run'[r].state = "lost"
    \/ run[r].abort \in {run'[r].abort, run'[r].end}
UserStop(r) ==
  run'[r].abort = "user_cancelled" /\ ~Aborted(r) => NamedByCancel(r)
StepAllowed == \A r \in RunId : DispatchAllowed(r) /\ FirstReason(r) /\ UserStop(r)

\* The task is the one it was, perhaps further on or stopped.
SameTask(r) ==
  /\ run'[r].owner = run[r].owner
  /\ run'[r].conversation = run[r].conversation
  /\ run'[r].request = run[r].request
  /\ run'[r].saved = run[r].saved
  /\ run'[r].end = run[r].end
  /\ run'[r].worked => run[r].worked \/ run[r].saved
  /\ run[r].worked => run'[r].worked
  /\ run[r].abort # "none" => run'[r].abort # "none"
  /\ \A state \in {"none", "preparing", "over", "lost"} :
       run'[r].state = state <=> run[r].state = state

-----------------------------------------------------------------------------
(* What the operators of the model do *)

\* Retention drops rows and never a protected one.
LEMMA RetainEffect ==
  ASSUME NEW table \in [RunId -> RowState]
  PROVE  /\ Retain(table) \in [RunId -> RowState]
         /\ \A r \in RunId : Retain(table)[r] \in {table[r], "none"}
         /\ \A r \in RunId : IsProtectedRun(table, r) => Retain(table)[r] = table[r]
  <1> DEFINE rows == {r \in RunId : table[r] # "none"}
             loose == {r \in rows : ~IsProtectedRun(table, r)}
             older(r) == {q \in loose : q < r}
             goes(r) == r \in loose /\ Cardinality(older(r)) + KeepRows < Cardinality(rows)
  <1>1. Retain(table) = [r \in RunId |-> IF goes(r) THEN "none" ELSE table[r]]
    BY DEF Retain
  <1>2. \A r \in RunId : IsProtectedRun(table, r) => ~goes(r)
    OBVIOUS
  <1> HIDE DEF goes
  <1> QED  BY <1>1, <1>2 DEF RowState

\* Recovery fails running rows, and none the recorder holds.
LEMMA RecoverEffect ==
  ASSUME NEW table \in [RunId -> RowState]
  PROVE  /\ RecoverRows(table) \in [RunId -> RowState]
         /\ \A r \in RunId : RecoverRows(table)[r] = "completed" => table[r] = "completed"
         /\ \A r \in owned \cap RunId : RecoverRows(table)[r] = table[r]
  BY DEF RecoverRows, RowState

\* An abort stops the live tasks of a set, keeps the reason of those stopped
\* before and denies a pending approval.
LEMMA AbortEffect ==
  ASSUME TypeOK, NEW S, NEW reason \in AbortReason, run' = AbortAll(S, reason)
  PROVE  /\ run' \in [RunId -> Run]
         /\ \A r \in RunId :
              /\ SameTask(r)
              /\ run'[r].state \in {run[r].state, "refused"}
              /\ ~Alive(r) \/ Aborted(r) => run'[r] = run[r]
              /\ run'[r].abort # run[r].abort => r \in S /\ run'[r].abort = reason
              /\ r \in S /\ Alive(r) => Aborted(r)'
  <1>1. \A r \in RunId : run[r] \in Run
    BY DEF TypeOK
  <1>2. ASSUME NEW r \in RunId
        PROVE  /\ run'[r] \in Run
               /\ SameTask(r)
               /\ run'[r].state \in {run[r].state, "refused"}
               /\ ~Alive(r) \/ Aborted(r) => run'[r] = run[r]
               /\ run'[r].abort # run[r].abort => r \in S /\ run'[r].abort = reason
               /\ r \in S /\ Alive(r) => Aborted(r)'
    <2> DEFINE stopped == [run[r] EXCEPT !.abort = reason,
                                         !.state = IF @ = "approval" THEN "refused" ELSE @]
    <2>1. CASE r \in S /\ Alive(r) /\ ~Aborted(r)
      <3>1. run'[r] = stopped
        BY <2>1 DEF AbortAll
      <3>2. /\ stopped \in Run /\ stopped.abort = reason
            /\ stopped.state = IF run[r].state = "approval" THEN "refused" ELSE run[r].state
            /\ stopped.owner = run[r].owner /\ stopped.conversation = run[r].conversation
            /\ stopped.request = run[r].request /\ stopped.saved = run[r].saved
            /\ stopped.end = run[r].end /\ stopped.worked = run[r].worked
        BY <1>1 DEF Run, AbortReason
      <3> HIDE DEF stopped
      <3> QED  BY <2>1, <3>1, <3>2 DEF SameTask, AbortReason, Aborted
    <2>2. CASE ~(r \in S /\ Alive(r) /\ ~Aborted(r))
      <3>1. run'[r] = run[r]
        BY <2>2 DEF AbortAll
      <3> QED  BY <1>1, <2>2, <3>1 DEF SameTask, Aborted
    <2> QED  BY <2>1, <2>2
  <1>3. run' \in [RunId -> Run]
    <2>1. DOMAIN run' = RunId /\ run' = [r \in RunId |-> run'[r]]
      BY DEF AbortAll
    <2> QED  BY <1>2, <2>1
  <1> QED  BY <1>2, <1>3

-----------------------------------------------------------------------------
(* Steps that leave the tasks what they were *)

\* The same tasks, some further on or stopped: all that does not depend on the
\* windows is kept.
LEMMA TasksKept ==
  ASSUME ChatInv, run' \in [RunId -> Run], \A r \in RunId : SameTask(r),
         UNCHANGED <<registry, disk>>,
         closing' \in BOOLEAN /\ cancels' \subseteq ChatCancelRequest,
         window' \in [Window -> {"open", "destroyed"}]
  PROVE  /\ TypeOK' /\ TasksFormed' /\ RegistryExact' /\ ClaimedOnce' /\ RowsHeld'
         /\ TasksWatched' /\ CompletedRowHasAnswer'
         /\ \A r \in RunId : Alive(r)' = Alive(r)
  <1> USE DEF registry, disk
  <1>1. ASSUME NEW r \in RunId
        PROVE  Alive(r)' = Alive(r)
    BY DEF SameTask, Alive, Ended
  <1>2. TypeOK'
    <2>1. \A r \in RunId : run'[r].state = "over" <=> run'[r].end # "none"
      BY DEF ChatInv, TypeOK, SameTask
    <2> QED  BY <2>1 DEF ChatInv, TypeOK
  <1>3. TasksFormed'
    <2> SUFFICES ASSUME NEW r \in RunId
                 PROVE  /\ r > lastRun => ~Alive(r)' /\ ~run'[r].worked
                        /\ Alive(r)' => /\ run'[r].owner \in Window
                                        /\ run'[r].conversation \in Conversation
                                        /\ run'[r].request \in Request
                        /\ run'[r].saved <=> Alive(r)' /\ run'[r].state # "preparing"
      BY DEF TasksFormed
    <2>1. SameTask(r) /\ Alive(r)' = Alive(r)
      BY <1>1
    <2> QED  BY <2>1 DEF SameTask, ChatInv, TasksFormed
  <1>4. RegistryExact'
    BY <1>1 DEF ChatInv, RegistryExact, SameTask
  <1>5. ClaimedOnce'
    <2>1. \A r \in RunId : /\ Claims(r)' => Claims(r)
                           /\ RequestOf(r)' = RequestOf(r)
      BY DEF Claims, RequestOf, SameTask
    <2> QED  BY <2>1 DEF ChatInv, ClaimedOnce
  <1>6. RowsHeld'
    BY DEF ChatInv, RowsHeld, SameTask
  <1>7. TasksWatched'
    BY <1>1 DEF ChatInv, TasksWatched, SameTask
  <1>8. CompletedRowHasAnswer'
    BY DEF ChatInv, CompletedRowHasAnswer
  <1> QED  BY <1>1, <1>2, <1>3, <1>4, <1>5, <1>6, <1>7, <1>8

\* Tasks that are further on in windows that stay as they are.
LEMMA TasksKeptInWindows ==
  ASSUME ChatInv, run' \in [RunId -> Run], \A r \in RunId : SameTask(r),
         UNCHANGED <<window, registry, disk>>,
         closing' \in BOOLEAN /\ cancels' \subseteq ChatCancelRequest
  PROVE  ChatInv'
  <1>1. window' \in [Window -> {"open", "destroyed"}] /\ UNCHANGED <<registry, disk>>
    BY DEF ChatInv, TypeOK
  <1>2. /\ TypeOK' /\ TasksFormed' /\ RegistryExact' /\ ClaimedOnce' /\ RowsHeld'
        /\ TasksWatched' /\ CompletedRowHasAnswer'
        /\ \A r \in RunId : Alive(r)' = Alive(r)
    BY <1>1, TasksKept
  <1>3. DestroyedWindowAborts'
    BY <1>2 DEF ChatInv, DestroyedWindowAborts, SameTask, Aborted
  <1> QED  BY <1>2, <1>3 DEF ChatInv

\* Only rows change, and no held one and none to completed.
LEMMA RowsKept ==
  ASSUME ChatInv, row' \in [RunId -> RowState], stored' \subseteq Conversation,
         \A r \in owned : row[r] = "running" => row'[r] = "running",
         \A r \in RunId : row'[r] = "completed" => row[r] = "completed",
         UNCHANGED <<window, run, registry, closing, cancels, asked, answered, owned>>
  PROVE  ChatInv' /\ StepAllowed
  <1> USE DEF registry
  <1>1. /\ TypeOK' /\ TasksFormed' /\ RegistryExact'
        /\ ClaimedOnce' /\ TasksWatched' /\ DestroyedWindowAborts'
    BY DEF ChatInv, TypeOK, RowState, TasksFormed, RegistryExact, ClaimedOnce,
           Claims, RequestOf, TasksWatched,
           DestroyedWindowAborts, Alive, Aborted
  <1>2. RowsHeld' /\ CompletedRowHasAnswer'
    BY DEF ChatInv, RowsHeld, CompletedRowHasAnswer
  <1>3. StepAllowed
    BY DEF StepAllowed, DispatchAllowed, FirstReason, UserStop, Aborted
  <1> QED  BY <1>1, <1>2, <1>3 DEF ChatInv

\* A reload of the configuration leaves the rows the recorder holds.
LEMMA ReloadKeeps ==
  ASSUME ChatInv, ReloadConfig
  PROVE  ChatInv' /\ StepAllowed
  <1>1. row \in [RunId -> RowState] /\ stored' \subseteq Conversation /\ owned \subseteq RunId
    BY DEF ChatInv, TypeOK, ReloadConfig, RowState
  <1>2. /\ Retain(row) \in [RunId -> RowState]
        /\ \A r \in RunId : Retain(row)[r] \in {row[r], "none"}
        /\ \A r \in RunId : IsProtectedRun(row, r) => Retain(row)[r] = row[r]
    BY <1>1, RetainEffect
  <1>3. /\ row' \in [RunId -> RowState]
        /\ \A r \in RunId : row'[r] = "completed" => Retain(row)[r] = "completed"
        /\ \A r \in owned \cap RunId : row'[r] = Retain(row)[r]
    BY <1>2, RecoverEffect DEF ReloadConfig
  <1>4. \A r \in owned : row[r] = "running" => row'[r] = "running"
    BY <1>1, <1>2, <1>3 DEF IsProtectedRun
  <1>5. \A r \in RunId : row'[r] = "completed" => row[r] = "completed"
    BY <1>2, <1>3
  <1> QED  BY <1>1, <1>3, <1>4, <1>5, RowsKept DEF ReloadConfig

\* A row is deleted only if no live task holds it.
LEMMA DeleteRowKeeps ==
  ASSUME ChatInv, NEW r \in RunId, DeleteRow(r)
  PROVE  ChatInv' /\ StepAllowed
  <1>1. /\ row' \in [RunId -> RowState] /\ stored' \subseteq Conversation
        /\ \A s \in owned : row[s] = "running" => row'[s] = "running"
        /\ \A s \in RunId : row'[s] = "completed" => row[s] = "completed"
        /\ UNCHANGED <<window, run, registry, closing, cancels, asked, answered, owned>>
    BY DEF ChatInv, TypeOK, DeleteRow, RowState, IsProtectedRun
  <1> QED  BY <1>1, RowsKept

\* The deletion of a conversation takes neither tasks nor rows with it.
LEMMA DeleteConversationKeeps ==
  ASSUME ChatInv, NEW c \in Conversation, DeleteConversation(c) \/ DeleteIdleConversation(c)
  PROVE  ChatInv' /\ StepAllowed
  <1>1. /\ row' \in [RunId -> RowState] /\ stored' \subseteq Conversation /\ row' = row
        /\ UNCHANGED <<window, run, registry, closing, cancels, asked, answered, owned>>
    BY DEF ChatInv, TypeOK, DeleteConversation, DeleteIdleConversation, RowState
  <1> QED  BY <1>1, RowsKept

\* An abort keeps the first reason, dispatches nothing, and is the user's only
\* for tasks that a cancel names.
LEMMA AbortAllowed ==
  ASSUME TypeOK, NEW S, NEW reason \in AbortReason, run' = AbortAll(S, reason),
         reason = "user_cancelled" => \A r \in RunId : r \in S => NamedByCancel(r)
  PROVE  StepAllowed
  <1>1. \A r \in RunId : /\ run'[r].state \in {run[r].state, "refused"}
                         /\ ~Alive(r) \/ Aborted(r) => run'[r] = run[r]
                         /\ run'[r].abort # run[r].abort => r \in S /\ run'[r].abort = reason
    BY AbortEffect
  <1>2. \A r \in RunId : UserStop(r)
    BY <1>1 DEF UserStop, Aborted
  <1> QED  BY <1>1, <1>2 DEF StepAllowed, DispatchAllowed, FirstReason

\* A timeout stops a task, whatever its user asked.
LEMMA TimeoutKeeps ==
  ASSUME ChatInv, NEW r \in RunId, Timeout(r)
  PROVE  ChatInv' /\ StepAllowed
  <1>1. /\ TypeOK /\ run' = AbortAll({r}, "interrupted") /\ "interrupted" \in AbortReason
        /\ UNCHANGED <<window, registry, disk>> /\ closing' \in BOOLEAN
        /\ cancels' \subseteq ChatCancelRequest
    BY DEF ChatInv, Timeout, TypeOK, AbortReason
  <1>2. run' \in [RunId -> Run] /\ \A s \in RunId : SameTask(s)
    BY <1>1, AbortEffect
  <1>3. StepAllowed
    BY <1>1, AbortAllowed
  <1> QED  BY <1>1, <1>2, <1>3, TasksKeptInWindows

\* A stop is asked for: only the cancel is new.
LEMMA AskCancelKeeps ==
  ASSUME ChatInv, NEW r \in RunId, AskCancel(r)
  PROVE  ChatInv' /\ StepAllowed
  <1>1. /\ TypeOK /\ UNCHANGED <<window, registry, disk>> /\ closing' \in BOOLEAN
        /\ run' = run
    BY DEF ChatInv, AskCancel, TypeOK
  <1>2. cancels' \subseteq ChatCancelRequest
    <2> DEFINE m == [owner |-> run[r].owner, conversation |-> run[r].conversation,
                     request |-> run[r].request, task |-> IF run[r].saved THEN r ELSE 0]
    <2>1. /\ run[r].owner \in Window /\ run[r].conversation \in Conversation
          /\ run[r].request \in Request
      BY DEF ChatInv, TasksFormed, AskCancel
    <2>2. m \in ChatCancelRequest
      BY <2>1 DEF ChatCancelRequest
    <2>3. cancels \subseteq ChatCancelRequest /\ cancels' = cancels \cup {m}
      BY <1>1 DEF TypeOK, AskCancel
    <2> HIDE DEF m
    <2> QED  BY <2>2, <2>3
  <1>3. run' \in [RunId -> Run] /\ \A s \in RunId : SameTask(s)
    BY <1>1 DEF TypeOK, SameTask
  <1>4. StepAllowed
    BY <1>1 DEF StepAllowed, DispatchAllowed, FirstReason, UserStop, Aborted
  <1> QED  BY <1>1, <1>2, <1>3, <1>4, TasksKeptInWindows

\* A cancel stops the task it names, or none.
LEMMA CancelKeeps ==
  ASSUME ChatInv, NEW m \in cancels, Cancel(m)
  PROVE  ChatInv' /\ StepAllowed
  <1> DEFINE hit == {r \in RunId : active[m.conversation] = r /\ Matches(m, r)}
  <1>1. /\ TypeOK /\ run' = AbortAll(hit, "user_cancelled") /\ "user_cancelled" \in AbortReason
        /\ UNCHANGED <<window, registry, disk>> /\ closing' \in BOOLEAN
        /\ cancels' \subseteq ChatCancelRequest
    BY DEF ChatInv, Cancel, TypeOK, AbortReason
  <1>2. run' \in [RunId -> Run] /\ \A s \in RunId : SameTask(s)
    BY <1>1, AbortEffect
  <1>3. \A r \in RunId : r \in hit => NamedByCancel(r)
    BY DEF Matches, NamedByCancel
  <1> HIDE DEF hit
  <1>4. StepAllowed
    BY <1>1, <1>3, AbortAllowed
  <1> QED  BY <1>1, <1>2, <1>4, TasksKeptInWindows

\* The shutdown stops every task and admits no other.
LEMMA ShutdownKeeps ==
  ASSUME ChatInv, Shutdown
  PROVE  ChatInv' /\ StepAllowed
  <1>1. /\ TypeOK /\ run' = AbortAll(RunId, "interrupted") /\ "interrupted" \in AbortReason
        /\ UNCHANGED <<window, registry, disk>>
        /\ closing' \in BOOLEAN /\ cancels' \subseteq ChatCancelRequest
    BY DEF ChatInv, TypeOK, Shutdown, AbortReason
  <1>2. run' \in [RunId -> Run] /\ \A s \in RunId : SameTask(s)
    BY <1>1, AbortEffect
  <1> QED  BY <1>1, <1>2, TasksKeptInWindows, AbortAllowed

\* A window that goes takes its tasks with it: every live one is listened to.
LEMMA WindowGoneKeeps ==
  ASSUME ChatInv, NEW w \in Window, WindowGone(w)
  PROVE  ChatInv' /\ StepAllowed
  <1>1. /\ TypeOK /\ "interrupted" \in AbortReason /\ UNCHANGED <<registry, disk>>
        /\ closing' \in BOOLEAN /\ cancels' \subseteq ChatCancelRequest
        /\ window' \in {window, [window EXCEPT ![w] = "destroyed"]}
        /\ window' \in [Window -> {"open", "destroyed"}]
        /\ run' = IF w \in watchers THEN AbortAll(Of(w), "interrupted") ELSE run
    BY DEF ChatInv, WindowGone, TypeOK, AbortReason
  <1>2. /\ run' \in [RunId -> Run] /\ \A r \in RunId : SameTask(r)
        /\ \A r \in Of(w) : Aborted(r)'
    <2>1. CASE w \in watchers
      <3>1. run' = AbortAll(Of(w), "interrupted")
        BY <1>1, <2>1
      <3> QED  BY <1>1, <3>1, AbortEffect, AbortAllowed DEF Of
    <2>2. CASE w \notin watchers
      <3>1. run' = run /\ Of(w) = {}
        BY <1>1, <2>2 DEF Of, ChatInv, TasksWatched
      <3> QED  BY <1>1, <3>1 DEF SameTask, TypeOK
    <2> QED  BY <2>1, <2>2
  <1>3. /\ TypeOK' /\ TasksFormed' /\ RegistryExact' /\ ClaimedOnce' /\ RowsHeld'
        /\ TasksWatched' /\ CompletedRowHasAnswer'
        /\ \A r \in RunId : Alive(r)' = Alive(r)
    BY <1>1, <1>2, TasksKept
  <1>4. DestroyedWindowAborts'
    <2> SUFFICES ASSUME NEW r \in RunId, Alive(r)', window'[run'[r].owner] = "destroyed"
                 PROVE  Aborted(r)'
      BY DEF DestroyedWindowAborts
    <2>1. Alive(r) /\ run'[r].owner = run[r].owner /\ run[r].owner \in Window
      BY <1>2, <1>3 DEF SameTask, ChatInv, TasksFormed
    <2>2. CASE run[r].owner = w
      BY <1>2, <2>1, <2>2 DEF Of
    <2>3. CASE run[r].owner # w
      <3>1. window[run[r].owner] = "destroyed"
        BY <1>1, <2>1, <2>3 DEF TypeOK
      <3> QED  BY <1>2, <2>1, <3>1 DEF ChatInv, DestroyedWindowAborts, SameTask, Aborted
    <2> QED  BY <2>2, <2>3
  <1>5. StepAllowed
    <2>1. CASE w \in watchers
      BY <1>1, <2>1, AbortAllowed
    <2>2. CASE w \notin watchers
      BY <1>1, <2>2 DEF StepAllowed, DispatchAllowed, FirstReason, UserStop, Aborted
    <2> QED  BY <2>1, <2>2
  <1> QED  BY <1>3, <1>4, <1>5 DEF ChatInv


\* A task goes on, and is dispatched only unstopped and in an open window.
LEMMA ContinueKeeps ==
  ASSUME ChatInv, NEW r \in RunId,
         NEW state \in {"ready", "model", "call", "approval", "acting", "refused"},
         Continue(r, state),
         run[r].state \in {"ready", "model", "call", "approval", "acting", "refused"},
         state \in {"model", "acting"} => ~Aborted(r) /\ window[run[r].owner] = "open"
  PROVE  ChatInv' /\ StepAllowed
  <1> DEFINE next == [run[r] EXCEPT !.state = state, !.worked = @ \/ state \in {"model", "acting"}]
  <1>1. /\ run \in [RunId -> Run] /\ run[r] \in Run
        /\ UNCHANGED <<window, registry, disk>> /\ closing' \in BOOLEAN
        /\ cancels' \subseteq ChatCancelRequest
        /\ run' = [run EXCEPT ![r].state = state, ![r].worked = @ \/ state \in {"model", "acting"}]
    BY DEF ChatInv, TypeOK, Continue
  <1>2. /\ next \in Run /\ next.state = state /\ next.abort = run[r].abort
        /\ next.owner = run[r].owner /\ next.conversation = run[r].conversation
        /\ next.request = run[r].request /\ next.saved = run[r].saved /\ next.end = run[r].end
        /\ next.worked = (run[r].worked \/ state \in {"model", "acting"})
    <2>1. (run[r].worked \/ state \in {"model", "acting"}) \in BOOLEAN
      OBVIOUS
    <2> HIDE DEF next
    <2>2. next = [run[r] EXCEPT !.state = state,
                                !.worked = run[r].worked \/ state \in {"model", "acting"}]
      BY DEF next
    <2>3. run[r].worked \in BOOLEAN
      BY <1>1 DEF Run
    <2>4. next.worked = (run[r].worked \/ state \in {"model", "acting"})
      BY <1>1, <2>1, <2>2 DEF Run
    <2>5. next \in Run
      BY ZenonT(40), <1>1, <2>1, <2>2 DEF Run
    <2> QED  BY <1>1, <2>2, <2>4, <2>5 DEF Run
  <1>3. run' = [run EXCEPT ![r] = next]
    BY <1>1
  <1> HIDE DEF next
  <1>4. run' \in [RunId -> Run] /\ run'[r] = next /\ \A s \in RunId : s # r => run'[s] = run[s]
    BY <1>1, <1>2, <1>3
  <1>5. run[r].saved
    BY DEF ChatInv, TasksFormed, Alive, Ended
  <1>6. \A s \in RunId : SameTask(s)
    BY <1>2, <1>4, <1>5 DEF SameTask
  <1>7. ChatInv'
    BY <1>1, <1>4, <1>6, TasksKeptInWindows
  <1>8. StepAllowed
    BY <1>2, <1>4 DEF StepAllowed, DispatchAllowed, FirstReason, UserStop, Aborted
  <1> QED  BY <1>7, <1>8

\* A late answer of the user dispatches nothing.
LEMMA ResolveApprovalKeeps ==
  ASSUME ChatInv, NEW r \in RunId, NEW allowed \in BOOLEAN, ResolveApproval(r, allowed)
  PROVE  ChatInv' /\ StepAllowed
  <1> DEFINE state == IF allowed /\ ~Aborted(r) THEN "acting" ELSE "refused"
  <1>1. Continue(r, state) /\ run[r].state = "approval" /\ state \in {"acting", "refused"}
    BY DEF ResolveApproval
  <1>2. run[r].owner \in Window /\ window[run[r].owner] \in {"open", "destroyed"}
    BY <1>1 DEF ChatInv, TypeOK, TasksFormed, Alive, Ended
  <1>3. state = "acting" => ~Aborted(r) /\ window[run[r].owner] = "open"
    BY <1>1, <1>2 DEF ChatInv, DestroyedWindowAborts, Alive, Ended
  <1> HIDE DEF state
  <1> QED  BY <1>1, <1>3, ContinueKeeps

\* A fresh task for an idle conversation and a listened-to, open window.
LEMMA ReserveKeeps ==
  ASSUME ChatInv, NEW w \in Window, NEW c \in Conversation, NEW q \in Request, Reserve(w, c, q)
  PROVE  ChatInv' /\ StepAllowed
  <1> USE ChatAssumption DEF registry, disk
  <1>0. PICK r \in RunId : r = lastRun + 1
    BY DEF Reserve
  <1> DEFINE task == [NoRun EXCEPT !.state = "preparing", !.owner = w, !.conversation = c, !.request = q]
  <1>1. /\ r \in RunId /\ window[w] = "open" /\ active[c] = 0 /\ lastRun' = r
        /\ run' = [run EXCEPT ![r] = task]
        /\ active' = [active EXCEPT ![c] = r]
        /\ requests' = [requests EXCEPT ![w] = @ \cup {r}]
        /\ watchers' = watchers \cup {w}
        /\ UNCHANGED <<window, closing, cancels, disk>>
    BY <1>0 DEF Reserve
  <1>2. TypeOK /\ r > lastRun /\ r # 0 /\ lastRun \in Nat
    BY <1>0, <1>1 DEF ChatInv, TypeOK, RunId
  <1>3. /\ task \in Run /\ task.state = "preparing" /\ task.owner = w /\ task.conversation = c
        /\ task.request = q /\ task.abort = "none" /\ task.end = "none"
        /\ task.saved = FALSE /\ task.worked = FALSE
    BY DEF NoRun, Run
  <1>4. ~Alive(r) /\ ~run[r].worked /\ ~run[r].saved
    BY <1>1, <1>2 DEF ChatInv, TasksFormed
  <1> HIDE DEF task
  <1>5. run' \in [RunId -> Run] /\ run'[r] = task /\ \A s \in RunId : s # r => run'[s] = run[s]
    BY <1>1, <1>2, <1>3 DEF TypeOK
  <1>6. /\ \A s \in RunId : s # r => /\ Alive(s)' <=> Alive(s)
                                    /\ Claims(s)' <=> Claims(s)
                                    /\ RequestOf(s)' = RequestOf(s)
        /\ Alive(r)' /\ ~Claims(r)'
    <2>1. ASSUME NEW s \in RunId, s # r
          PROVE  /\ Alive(s)' <=> Alive(s)
                 /\ Claims(s)' <=> Claims(s)
                 /\ RequestOf(s)' = RequestOf(s)
      <3>1. run'[s] = run[s]
        BY <1>5, <2>1
      <3> QED  BY <3>1 DEF Alive, Claims, RequestOf
    <2>2. Alive(r)' /\ ~Claims(r)'
      BY <1>3, <1>5 DEF Alive, Ended, Claims
    <2> QED  BY <2>1, <2>2
  <1>7. TypeOK'
    <2>1. active' \in [Conversation -> RunId \cup {0}] /\ requests' \in [Window -> SUBSET RunId]
          /\ watchers' \subseteq Window /\ lastRun' \in 0 .. MaxRuns
      BY <1>1, <1>2 DEF TypeOK, RunId
    <2>2. \A s \in RunId : run'[s].state = "over" <=> run'[s].end # "none"
      BY <1>2, <1>3, <1>5 DEF TypeOK
    <2> QED  BY <1>1, <1>2, <1>5, <2>1, <2>2 DEF TypeOK
  <1>8. TasksFormed'
    <2> SUFFICES ASSUME NEW s \in RunId
                 PROVE  /\ s > r => ~Alive(s)' /\ ~run'[s].worked
                        /\ Alive(s)' => /\ run'[s].owner \in Window
                                        /\ run'[s].conversation \in Conversation
                                        /\ run'[s].request \in Request
                        /\ run'[s].saved <=> Alive(s)' /\ run'[s].state # "preparing"
      BY <1>1 DEF TasksFormed
    <2>1. CASE s = r
      BY <1>1, <1>3, <1>5, <1>6, <2>1 DEF RunId
    <2>2. CASE s # r
      <3>1. s > r => s > lastRun
        BY <1>0, <1>2, <2>2 DEF RunId
      <3> QED  BY <1>5, <1>6, <2>2, <3>1 DEF ChatInv, TasksFormed, Alive
    <2> QED  BY <2>1, <2>2
  <1>9. RegistryExact'
    <2>1. ASSUME NEW d \in Conversation
          PROVE  {s \in RunId : Alive(s)' /\ run'[s].conversation = d} = {active'[d]} \ {0}
      <3>1. {s \in RunId : Alive(s) /\ run[s].conversation = d} = {active[d]} \ {0}
        BY DEF ChatInv, RegistryExact
      <3>2. CASE d = c
        <4>1. \A s \in RunId : ~(Alive(s) /\ run[s].conversation = c)
          BY <1>1, <3>1, <3>2
        <4>2. active'[d] = r
          BY <1>1, <1>2, <3>2 DEF TypeOK
        <4>3. \A s \in RunId : Alive(s)' /\ run'[s].conversation = c <=> s = r
          BY <1>1, <1>3, <1>5, <1>6, <4>1 DEF Alive
        <4> QED  BY <1>1, <1>2, <3>2, <4>2, <4>3
      <3>3. CASE d # c
        <4>1. active'[d] = active[d]
          BY <1>1, <1>2, <3>3 DEF TypeOK
        <4> QED  BY <1>3, <1>4, <1>5, <1>6, <3>1, <3>3, <4>1 DEF Alive
      <3> QED  BY <3>2, <3>3
    <2> QED  BY <2>1 DEF RegistryExact
  <1>10. ClaimedOnce'
    <2>1. ASSUME NEW s \in RunId, Claims(s)'
          PROVE  s # r /\ Claims(s) /\ RequestOf(s)' = RequestOf(s)
      <3>1. s # r
        BY <1>6, <2>1 DEF Claims
      <3> QED  BY <1>5, <3>1, <2>1 DEF Claims, RequestOf
    <2>2. asked' = asked
      BY <1>1
    <2> QED  BY <2>1, <2>2 DEF ChatInv, ClaimedOnce
  <1>11. RowsHeld' /\ CompletedRowHasAnswer'
    BY <1>1, <1>3, <1>5 DEF ChatInv, RowsHeld, CompletedRowHasAnswer
  <1>12. TasksWatched' /\ DestroyedWindowAborts'
    BY <1>1, <1>3, <1>5, <1>6 DEF ChatInv, TasksWatched, DestroyedWindowAborts, Aborted, Alive
  <1>13. StepAllowed
    BY <1>3, <1>4, <1>5 DEF StepAllowed, DispatchAllowed, FirstReason, UserStop, Aborted
  <1> QED  BY <1>7, <1>8, <1>9, <1>10, <1>11, <1>12, <1>13 DEF ChatInv


-----------------------------------------------------------------------------
(* Steps that change who has a task *)

\* The last write of Prepare: the request of the task goes to disk, where it
\* was not, and its row is written running.
LEMMA PreparedKeeps ==
  ASSUME ChatInv, NEW r \in RunId, run[r].state = "preparing", ~Recorded(r),
         run' = [run EXCEPT ![r].state = "ready", ![r].saved = TRUE],
         row' = Retain([row EXCEPT ![r] = "running"]), owned' = owned \cup {r},
         asked' = asked \cup {<<run[r].conversation, run[r].request>>},
         UNCHANGED <<window, registry, closing, cancels, stored, answered>>
  PROVE  ChatInv' /\ StepAllowed
  <1> USE DEF registry
  <1> DEFINE next == [run[r] EXCEPT !.state = "ready", !.saved = TRUE]
             table == [row EXCEPT ![r] = "running"]
  <1>1. /\ TypeOK /\ run[r] \in Run /\ Alive(r) /\ ~Claims(r)
        /\ run[r].conversation \in Conversation /\ run[r].request \in Request
    <2>1. TypeOK /\ run[r] \in Run /\ Alive(r) /\ run[r].saved = FALSE
      BY DEF ChatInv, TypeOK, TasksFormed, Alive, Ended, Run
    <2>2. run[r].conversation \in Conversation /\ run[r].request \in Request
      BY <2>1 DEF ChatInv, TasksFormed
    <2>3. ~run[r].worked
      BY <2>1 DEF ChatInv, ClaimedOnce, Claims, RequestOf, Recorded
    <2> QED  BY <2>1, <2>2, <2>3 DEF Claims
  <1>2. /\ next \in Run /\ next.state = "ready" /\ next.abort = run[r].abort
        /\ next.owner = run[r].owner /\ next.conversation = run[r].conversation
        /\ next.request = run[r].request /\ next.saved = TRUE /\ next.end = run[r].end
        /\ next.worked = run[r].worked
    BY <1>1 DEF Run
  <1>3. run' = [run EXCEPT ![r] = next]
    OBVIOUS
  <1> HIDE DEF next
  <1>4. run' \in [RunId -> Run] /\ run'[r] = next /\ \A s \in RunId : s # r => run'[s] = run[s]
    <2>1. run \in [RunId -> Run]
      BY <1>1 DEF TypeOK
    <2> QED  BY <1>2, <1>3, <2>1, Zenon
  <1>5. /\ table \in [RunId -> RowState] /\ table[r] = "running"
        /\ \A s \in RunId : s # r => table[s] = row[s]
    BY <1>1 DEF TypeOK, RowState
  <1> HIDE DEF table
  <1>6. /\ row' \in [RunId -> RowState]
        /\ \A s \in RunId : row'[s] \in {table[s], "none"}
        /\ \A s \in RunId : table[s] = "running" => row'[s] = "running"
    <2>1. row' = Retain(table)
      BY DEF table
    <2> QED  BY <1>5, <2>1, RetainEffect DEF IsProtectedRun
  <1>7. \A s \in RunId : /\ Alive(s)' <=> Alive(s)
                         /\ RequestOf(s)' = RequestOf(s)
                         /\ s # r => (Claims(s)' <=> Claims(s))
    BY <1>1, <1>2, <1>4 DEF Alive, Ended, RequestOf, Claims
  <1>8. TypeOK'
    <2>1. asked' \subseteq Conversation \X Request /\ owned' \subseteq RunId
      BY <1>1 DEF TypeOK
    <2>2. \A s \in RunId : run'[s].state = "over" <=> run'[s].end # "none"
      BY <1>1, <1>2, <1>4 DEF TypeOK
    <2> QED  BY <1>1, <1>4, <1>6, <2>1, <2>2 DEF TypeOK, RowState
  <1>9. TasksFormed'
    <2> SUFFICES ASSUME NEW s \in RunId
                 PROVE  /\ s > lastRun => ~Alive(s)' /\ ~run'[s].worked
                        /\ Alive(s)' => /\ run'[s].owner \in Window
                                        /\ run'[s].conversation \in Conversation
                                        /\ run'[s].request \in Request
                        /\ run'[s].saved <=> Alive(s)' /\ run'[s].state # "preparing"
      BY DEF TasksFormed
    <2> QED  BY <1>1, <1>2, <1>4, <1>7 DEF ChatInv, TasksFormed, Alive
  <1>10. RegistryExact'
    BY <1>2, <1>4, <1>7 DEF ChatInv, RegistryExact, Alive
  <1>11. ClaimedOnce'
    <2>1. \A s \in RunId : s # r /\ Claims(s)' => /\ RequestOf(s) \in asked
                                                  /\ RequestOf(s) # RequestOf(r)
      BY <1>4 DEF ChatInv, ClaimedOnce, Recorded, RequestOf, Claims
    <2>2. \A s \in RunId : RequestOf(s)' = RequestOf(s)
      BY <1>2, <1>4 DEF RequestOf
    <2>3. asked' = asked \cup {RequestOf(r)}
      BY DEF RequestOf
    <2>4. \A s \in RunId : Claims(s)' => RequestOf(s)' \in asked'
      BY <2>1, <2>2, <2>3
    <2>5. ASSUME NEW s \in RunId, NEW t \in RunId, Claims(s)', Claims(t)', RequestOf(s)' = RequestOf(t)'
          PROVE  s = t
      <3>1. CASE s # r /\ t # r
        <4>1. Claims(s) /\ Claims(t) /\ RequestOf(s) = RequestOf(t)
          BY <1>4, <2>2, <2>5, <3>1 DEF Claims
        <4> QED  BY <4>1 DEF ChatInv, ClaimedOnce
      <3>2. CASE s = r \/ t = r
        BY <2>1, <2>2, <2>5, <3>2
      <3> QED  BY <3>1, <3>2
    <2> QED  BY <2>4, <2>5 DEF ClaimedOnce
  <1>12. RowsHeld' /\ CompletedRowHasAnswer'
    <2>1. ASSUME NEW s \in RunId, run'[s].saved
          PROVE  s \in owned' /\ row'[s] = "running"
      <3>1. table[s] = "running" /\ s \in owned'
        BY <1>4, <1>5, <2>1 DEF ChatInv, RowsHeld
      <3> QED  BY <1>6, <3>1
    <2>2. ASSUME NEW s \in RunId, row'[s] = "completed"
          PROVE  s \in answered'
      <3>1. table[s] = "completed"
        BY <1>6, <2>2
      <3>2. row[s] = "completed"
        BY <1>5, <3>1
      <3> QED  BY <3>2 DEF ChatInv, CompletedRowHasAnswer
    <2> QED  BY <2>1, <2>2 DEF RowsHeld, CompletedRowHasAnswer
  <1>13. TasksWatched' /\ DestroyedWindowAborts'
    BY <1>2, <1>4 DEF ChatInv, TasksWatched, DestroyedWindowAborts, Aborted, Alive, Ended
  <1>14. StepAllowed
    BY <1>2, <1>4 DEF StepAllowed, DispatchAllowed, FirstReason, UserStop, Aborted
  <1> QED  BY <1>8, <1>9, <1>10, <1>11, <1>12, <1>13, <1>14 DEF ChatInv


\* What is kept of a task.
LEMMA PastEffect ==
  ASSUME TypeOK, NEW r \in RunId, Alive(r), ChatInv, NEW end \in EndReason \cup {"none"},
         NEW state \in {"over", "lost"}
  PROVE  /\ Past(r, state, end) \in Run
         /\ Past(r, state, end).state = state
         /\ Past(r, state, end).end = end
         /\ Past(r, state, end).worked = run[r].worked
         /\ Past(r, state, end).conversation = run[r].conversation
         /\ Past(r, state, end).request = run[r].request
         /\ Past(r, state, end).saved = FALSE
         /\ Past(r, state, end).abort = "none"
  <1>1. run[r] \in Run /\ NoRun \in Run
    BY DEF TypeOK, NoRun, Run
  <1>2. /\ run[r].worked \in BOOLEAN /\ run[r].conversation \in Conversation \cup {None}
        /\ run[r].request \in Request \cup {None}
    BY <1>1 DEF Run
  <1> QED  BY ZenonT(40), <1>1, <1>2 DEF Past, NoRun, Run

\* A task leaves the registry: its conversation is free, and its window's other
\* tasks stay listened to.
LEMMA ReleaseEffect ==
  ASSUME ChatInv, NEW r \in RunId, Alive(r), Release(r)
  PROVE  /\ active' \in [Conversation -> RunId \cup {0}]
         /\ requests' \in [Window -> SUBSET RunId]
         /\ watchers' \subseteq Window
         /\ lastRun' = lastRun
         /\ \A c \in Conversation : active'[c] = IF active[c] = r THEN 0 ELSE active[c]
         /\ \A s \in RunId : s # r /\ Alive(s) => run[s].owner \in watchers'
  <1> DEFINE w == run[r].owner
             d == run[r].conversation
             over == {s \in requests[w] : s = r \/ ~Alive(s)}
             dropped == IF window[w] = "destroyed" THEN over
                        ELSE {s \in over : Cardinality({t \in over : t < s}) + CacheSize
                                             < Cardinality(requests[w])}
  <1>1. TypeOK /\ w \in Window /\ d \in Conversation
    BY DEF ChatInv, TasksFormed
  <1>2. /\ active' = [active EXCEPT ![d] = IF @ = r THEN 0 ELSE @]
        /\ watchers' = IF Of(w) = {r} THEN watchers \ {w} ELSE watchers
        /\ requests' = [requests EXCEPT ![w] = @ \ dropped]
        /\ lastRun' = lastRun
    BY DEF Release
  <1>3. \A c \in Conversation : active[c] = r => c = d
    <2>1. ASSUME NEW c \in Conversation, active[c] = r
          PROVE  c = d
      <3>1. r \in {s \in RunId : Alive(s) /\ run[s].conversation = c}
        BY <2>1 DEF ChatInv, RegistryExact, RunId
      <3> QED  BY <3>1
    <2> QED  BY <2>1
  <1>4. \A s \in RunId : s # r /\ Alive(s) => run[s].owner \in watchers'
    BY <1>2 DEF ChatInv, TasksWatched, Of
  <1> HIDE DEF w, d, dropped
  <1>5. active' \in [Conversation -> RunId \cup {0}]
        /\ \A c \in Conversation : active'[c] = IF active[c] = r THEN 0 ELSE active[c]
    BY <1>1, <1>2, <1>3 DEF TypeOK
  <1>6. requests' \in [Window -> SUBSET RunId] /\ watchers' \subseteq Window
    BY <1>1, <1>2 DEF TypeOK
  <1> QED  BY <1>2, <1>4, <1>5, <1>6

\* The end of a task, from whatever rows and holders it finds: it must not
\* touch the rows of the others, and must call only a task that worked complete.
LEMMA FinishKeeps ==
  ASSUME ChatInv, NEW r \in RunId, Alive(r), NEW end \in EndReason, NEW storage \in BOOLEAN,
         NEW table \in [RunId -> RowState], NEW holders \in SUBSET RunId,
         Finish(r, end, storage, table, holders), asked' = asked,
         end = "completed" => run[r].saved,
         Aborted(r) => end = run[r].abort,
         \A s \in RunId : s # r /\ run[s].saved => s \in holders /\ table[s] = "running",
         \A s \in RunId : table[s] = "completed" => s \in answered
  PROVE  ChatInv' /\ StepAllowed
  <1>1. PICK said \in Attempt(run[r].saved /\ run[r].conversation \in stored),
             put \in Attempt(r \in holders /\ table[r] # "none") :
          LET unsaid == run[r].saved /\ ~said
              reason == IF unsaid THEN Failure(r) ELSE end
              failed == storage \/ unsaid \/ (r \in holders /\ ~put)
          IN /\ run' = [run EXCEPT ![r] = Past(r, "over", IF failed THEN Failure(r)
                                                          ELSE reason)]
             /\ answered' = IF said THEN answered \cup {r} ELSE answered
             /\ row' = IF put THEN Retain([table EXCEPT ![r] = Outcome(reason)]) ELSE table
             /\ owned' = holders \ {r}
             /\ Release(r)
             /\ UNCHANGED <<window, closing, cancels, stored>>
    BY DEF Finish
  <1> DEFINE unsaid == run[r].saved /\ ~said
             reason == IF unsaid THEN Failure(r) ELSE end
             failed == storage \/ unsaid \/ (r \in holders /\ ~put)
             last == IF failed THEN Failure(r) ELSE reason
             past == Past(r, "over", last)
             written == [table EXCEPT ![r] = Outcome(reason)]
  <1>2. /\ run' = [run EXCEPT ![r] = past]
        /\ answered' = IF said THEN answered \cup {r} ELSE answered
        /\ row' = IF put THEN Retain(written) ELSE table
        /\ owned' = holders \ {r}
        /\ Release(r)
        /\ UNCHANGED <<window, closing, cancels, stored>>
    BY <1>1
  <1>3. TypeOK /\ run[r] \in Run /\ run[r].abort \in AbortReason \cup {"none"}
    BY DEF ChatInv, TypeOK, Run
  <1>4. Failure(r) \in EndReason \ {"completed"} /\ (Aborted(r) => Failure(r) = run[r].abort)
    BY <1>3 DEF Failure, Reason, Aborted, EndReason, AbortReason
  <1>5. /\ reason \in EndReason /\ last \in EndReason
        /\ Aborted(r) => last = run[r].abort
        /\ reason = "completed" => said
    BY <1>4
  <1> HIDE DEF reason, last, Attempt
  <1>6. /\ past \in Run /\ past.state = "over" /\ past.end = last /\ past.worked = run[r].worked
        /\ past.conversation = run[r].conversation /\ past.request = run[r].request
        /\ past.saved = FALSE /\ past.abort = "none"
    <2>1. TypeOK /\ last \in EndReason \cup {"none"} /\ "over" \in {"over", "lost"}
      BY <1>3, <1>5
    <2>2. /\ Past(r, "over", last) \in Run
          /\ Past(r, "over", last).state = "over"
          /\ Past(r, "over", last).end = last
          /\ Past(r, "over", last).worked = run[r].worked
          /\ Past(r, "over", last).conversation = run[r].conversation
          /\ Past(r, "over", last).request = run[r].request
          /\ Past(r, "over", last).saved = FALSE
          /\ Past(r, "over", last).abort = "none"
      BY <2>1, PastEffect
    <2> QED  BY <2>2
  <1> HIDE DEF past
  <1>7. run' \in [RunId -> Run] /\ run'[r] = past /\ \A s \in RunId : s # r => run'[s] = run[s]
    BY <1>2, <1>3, <1>6 DEF TypeOK
  <1>8. /\ written \in [RunId -> RowState] /\ written[r] = Outcome(reason)
        /\ \A s \in RunId : s # r => written[s] = table[s]
    BY DEF RowState, Outcome
  <1> HIDE DEF written
  <1>9. /\ Retain(written) \in [RunId -> RowState]
        /\ \A s \in RunId : Retain(written)[s] \in {written[s], "none"}
        /\ \A s \in RunId : written[s] = "running" => Retain(written)[s] = "running"
    BY <1>8, RetainEffect DEF IsProtectedRun
  <1>10. /\ row' \in [RunId -> RowState]
         /\ \A s \in RunId : s # r /\ table[s] = "running" => row'[s] = "running"
         /\ \A s \in RunId : row'[s] = "completed" => s \in answered'
    <2>1. CASE put
      <3>1. row' = Retain(written)
        BY <1>2, <2>1
      <3>2. \A s \in RunId : s # r /\ table[s] = "running" => row'[s] = "running"
        BY <1>8, <1>9, <3>1
      <3>3. ASSUME NEW s \in RunId, row'[s] = "completed"
            PROVE  s \in answered'
        <4>1. written[s] = "completed"
          BY <1>9, <3>1, <3>3
        <4>2. CASE s = r
          <5>1. reason = "completed"
            BY <1>8, <4>1, <4>2 DEF Outcome
          <5> QED  BY <1>2, <1>5, <4>2, <5>1
        <4>3. CASE s # r
          BY <1>2, <1>8, <4>1, <4>3
        <4> QED  BY <4>2, <4>3
      <3> QED  BY <1>9, <3>1, <3>2, <3>3
    <2>2. CASE ~put
      BY <1>2, <2>2
    <2> QED  BY <2>1, <2>2
  <1>11. /\ active' \in [Conversation -> RunId \cup {0}]
         /\ requests' \in [Window -> SUBSET RunId]
         /\ watchers' \subseteq Window
         /\ lastRun' = lastRun
         /\ \A c \in Conversation : active'[c] = IF active[c] = r THEN 0 ELSE active[c]
         /\ \A s \in RunId : s # r /\ Alive(s) => run[s].owner \in watchers'
    BY <1>2, ReleaseEffect
  <1>12. /\ \A s \in RunId : s # r => /\ Alive(s)' <=> Alive(s)
                                      /\ Claims(s)' <=> Claims(s)
         /\ \A s \in RunId : RequestOf(s)' = RequestOf(s)
         /\ ~Alive(r)' /\ (Claims(r)' => Claims(r))
    BY <1>6, <1>7 DEF Alive, Ended, Claims, RequestOf
  <1>13. TypeOK'
    <2>1. \A s \in RunId : run'[s].state = "over" <=> run'[s].end # "none"
      BY <1>3, <1>5, <1>6, <1>7 DEF TypeOK, EndReason, AbortReason
    <2>2. answered' \subseteq RunId /\ owned' \subseteq RunId
      BY <1>2, <1>3 DEF TypeOK
    <2> QED  BY <1>2, <1>3, <1>7, <1>10, <1>11, <2>1, <2>2 DEF TypeOK, RowState
  <1>14. TasksFormed'
    <2> SUFFICES ASSUME NEW s \in RunId
                 PROVE  /\ s > lastRun' => ~Alive(s)' /\ ~run'[s].worked
                        /\ Alive(s)' => /\ run'[s].owner \in Window
                                        /\ run'[s].conversation \in Conversation
                                        /\ run'[s].request \in Request
                        /\ run'[s].saved <=> Alive(s)' /\ run'[s].state # "preparing"
      BY DEF TasksFormed
    <2> QED  BY <1>6, <1>7, <1>11, <1>12 DEF ChatInv, TasksFormed, Alive
  <1>15. RegistryExact'
    <2>1. ASSUME NEW c \in Conversation
          PROVE  {s \in RunId : Alive(s)' /\ run'[s].conversation = c} = {active'[c]} \ {0}
      <3>1. {s \in RunId : Alive(s) /\ run[s].conversation = c} = {active[c]} \ {0}
        BY DEF ChatInv, RegistryExact
      <3>2. \A s \in RunId : Alive(s)' /\ run'[s].conversation = c
                               <=> s # r /\ Alive(s) /\ run[s].conversation = c
        BY <1>7, <1>12 DEF Alive
      <3> QED  BY <1>11, <3>1, <3>2
    <2> QED  BY <2>1 DEF RegistryExact
  <1>16. ClaimedOnce'
    <2>1. \A s \in RunId : Claims(s)' => Claims(s)
      BY <1>6, <1>7 DEF Claims
    <2> QED  BY <1>12, <2>1 DEF ChatInv, ClaimedOnce
  <1>17. RowsHeld' /\ CompletedRowHasAnswer'
    <2>1. ASSUME NEW s \in RunId, run'[s].saved
          PROVE  s \in owned' /\ row'[s] = "running"
      <3>1. s # r /\ run[s].saved
        BY <1>6, <1>7, <2>1
      <3> QED  BY <1>2, <1>10, <3>1
    <2> QED  BY <1>10, <2>1 DEF RowsHeld, CompletedRowHasAnswer
  <1>18. TasksWatched' /\ DestroyedWindowAborts'
    <2>1. ASSUME NEW s \in RunId, Alive(s)'
          PROVE  s # r /\ Alive(s) /\ run'[s] = run[s]
      BY <1>6, <1>7, <2>1 DEF Alive, Ended
    <2>2. TasksWatched'
      BY <1>11, <2>1 DEF TasksWatched
    <2>3. DestroyedWindowAborts'
      BY <1>2, <2>1 DEF ChatInv, DestroyedWindowAborts, Aborted
    <2> QED  BY <2>2, <2>3
  <1>19. StepAllowed
    BY <1>5, <1>6, <1>7 DEF StepAllowed, DispatchAllowed, FirstReason, UserStop, Aborted
  <1> QED  BY <1>13, <1>14, <1>15, <1>16, <1>17, <1>18, <1>19 DEF ChatInv


\* A task that ends leaves the registry, its row and its answer in order.
LEMMA EndKeeps ==
  ASSUME ChatInv, NEW r \in RunId, Alive(r), NEW end \in EndReason, NEW storage \in BOOLEAN,
         End(r, end, storage),
         end = "completed" => run[r].saved,
         Aborted(r) => end = run[r].abort
  PROVE  ChatInv' /\ StepAllowed
  <1>1. /\ row \in [RunId -> RowState] /\ owned \in SUBSET RunId
        /\ \A s \in RunId : s # r /\ run[s].saved => s \in owned /\ row[s] = "running"
        /\ \A s \in RunId : row[s] = "completed" => s \in answered
    BY DEF ChatInv, TypeOK, RowState, RowsHeld, CompletedRowHasAnswer
  <1>2. Finish(r, end, storage, row, owned) /\ asked' = asked
    BY DEF End
  <1> QED  BY <1>1, <1>2, FinishKeeps

\* A stopped task, or one of a destroyed window, ends for its reason.
LEMMA ReasonType ==
  ASSUME ChatInv, NEW r \in RunId
  PROVE  /\ Reason(r) \in AbortReason \cup {"none"} /\ Failure(r) \in EndReason \ {"completed"}
         /\ Aborted(r) => Reason(r) = run[r].abort /\ Failure(r) = run[r].abort
         /\ Alive(r) /\ Reason(r) = "none" => ~Aborted(r) /\ window[run[r].owner] = "open"
  <1>1. run[r].abort \in AbortReason \cup {"none"}
    BY DEF ChatInv, TypeOK, Run
  <1>2. Alive(r) => window[run[r].owner] \in {"open", "destroyed"}
    BY DEF ChatInv, TasksFormed, TypeOK
  <1> QED  BY <1>1, <1>2 DEF Reason, Failure, Aborted, AbortReason, EndReason

\* A stopped task ends for its first reason.
LEMMA StopTaskKeeps ==
  ASSUME ChatInv, NEW r \in RunId, Alive(r), Stop(r)
  PROVE  ChatInv' /\ StepAllowed
  <1>1. /\ Reason(r) \in EndReason /\ Reason(r) # "completed"
        /\ Aborted(r) => Reason(r) = run[r].abort
        /\ End(r, Reason(r), FALSE)
    BY ReasonType DEF Stop, EndReason, AbortReason
  <1> QED  BY <1>1, EndKeeps

\* A task that saves its message claims its request, once.
LEMMA PrepareKeeps ==
  ASSUME ChatInv, NEW r \in RunId, Prepare(r)
  PROVE  ChatInv' /\ StepAllowed
  <1> DEFINE table == Retain([row EXCEPT ![r] = "running"])
             holders == owned \cup {r}
  <1>1. run[r].state = "preparing" /\ Alive(r) /\ TypeOK /\ "failed" \in EndReason
    BY DEF Prepare, Alive, Ended, ChatInv, EndReason
  <1>2. CASE Stop(r)
    BY <1>1, <1>2, StopTaskKeeps
  <1>3. CASE Reason(r) = "none" /\ (End(r, "failed", FALSE) \/ End(r, "failed", TRUE))
    <2>1. ~Aborted(r)
      BY <1>1, <1>3, ReasonType
    <2> QED  BY <1>1, <1>3, <2>1, EndKeeps
  <1>4. CASE Reason(r) = "none" /\ Finish(r, "failed", TRUE, table, holders) /\ asked' = asked
    <2>1. ~Aborted(r)
      BY <1>1, <1>4, ReasonType
    <2> DEFINE begun == [row EXCEPT ![r] = "running"]
    <2>2. begun \in [RunId -> RowState] /\ \A s \in RunId : s # r => begun[s] = row[s]
      BY <1>1 DEF TypeOK, RowState
    <2>3. begun[r] = "running"
      BY <1>1 DEF TypeOK
    <2> HIDE DEF begun
    <2>4. /\ Retain(begun) \in [RunId -> RowState]
          /\ \A s \in RunId : Retain(begun)[s] \in {begun[s], "none"}
          /\ \A s \in RunId : begun[s] = "running" => Retain(begun)[s] = "running"
      BY <2>2, RetainEffect DEF IsProtectedRun
    <2>5. table = Retain(begun) /\ holders \in SUBSET RunId
      BY <1>1 DEF begun, TypeOK
    <2> HIDE DEF table
    <2>6. /\ \A s \in RunId : s # r /\ run[s].saved => s \in holders /\ table[s] = "running"
          /\ \A s \in RunId : table[s] = "completed" => s \in answered
      BY <2>2, <2>3, <2>4, <2>5 DEF ChatInv, RowsHeld, CompletedRowHasAnswer
    <2>7. table \in [RunId -> RowState]
      BY <2>4, <2>5
    <2>8. TRUE \in BOOLEAN /\ (Aborted(r) => "failed" = run[r].abort)
          /\ ("failed" = "completed" => run[r].saved)
      BY <2>1
    <2>9. Finish(r, "failed", TRUE, table, holders) /\ asked' = asked
      BY <1>4
    <2> HIDE DEF holders
    <2> QED  BY <1>1, <2>5, <2>6, <2>7, <2>8, <2>9, FinishKeeps
  <1>5. CASE /\ ~Recorded(r)
             /\ run' = [run EXCEPT ![r].state = "ready", ![r].saved = TRUE]
             /\ row' = table /\ owned' = holders
             /\ asked' = asked \cup {<<run[r].conversation, run[r].request>>}
             /\ UNCHANGED <<window, registry, closing, cancels, stored, answered>>
    BY <1>1, <1>5, PreparedKeeps
  <1> QED  BY <1>2, <1>3, <1>4, <1>5 DEF Prepare

\* The model is asked only by a task that is not stopped.
LEMMA AskModelKeeps ==
  ASSUME ChatInv, NEW r \in RunId, AskModel(r)
  PROVE  ChatInv' /\ StepAllowed
  <1>1. run[r].state = "ready" /\ Alive(r)
    BY DEF AskModel, Alive, Ended
  <1>2. CASE Stop(r)
    BY <1>1, <1>2, StopTaskKeeps
  <1>3. CASE Reason(r) = "none" /\ Continue(r, "model")
    BY <1>1, <1>3, ReasonType, ContinueKeeps
  <1> QED  BY <1>2, <1>3 DEF AskModel

\* Only a task that asked the model completes: its message was saved.
LEMMA ModelReplyKeeps ==
  ASSUME ChatInv, NEW r \in RunId, ModelReply(r)
  PROVE  ChatInv' /\ StepAllowed
  <1>1. /\ run[r].state = "model" /\ Alive(r) /\ run[r].saved
        /\ "completed" \in EndReason /\ "failed" \in EndReason
    BY DEF ModelReply, Alive, Ended, ChatInv, TasksFormed, EndReason
  <1>2. CASE Stop(r)
    BY <1>1, <1>2, StopTaskKeeps
  <1>3. CASE Reason(r) = "none" /\ (End(r, "completed", FALSE) \/ End(r, "failed", FALSE))
    BY <1>1, <1>3, ReasonType, EndKeeps
  <1>4. CASE Reason(r) = "none" /\ Continue(r, "call")
    BY <1>1, <1>4, ReasonType, ContinueKeeps
  <1> QED  BY <1>2, <1>3, <1>4 DEF ModelReply

\* A tool is called only by a task that is not stopped.
LEMMA CallToolKeeps ==
  ASSUME ChatInv, NEW r \in RunId, CallTool(r)
  PROVE  ChatInv' /\ StepAllowed
  <1>1. run[r].state = "call" /\ Alive(r) /\ "failed" \in EndReason
    BY DEF CallTool, Alive, Ended, EndReason
  <1>2. CASE Stop(r)
    BY <1>1, <1>2, StopTaskKeeps
  <1>3. CASE Reason(r) = "none" /\ End(r, "failed", FALSE)
    BY <1>1, <1>3, ReasonType, EndKeeps
  <1>4. CASE Reason(r) = "none" /\ (Continue(r, "acting") \/ Continue(r, "refused") \/ Continue(r, "approval"))
    <2>1. ~Aborted(r) /\ window[run[r].owner] = "open"
      BY <1>1, <1>4, ReasonType
    <2> QED  BY <1>1, <1>4, <2>1, ContinueKeeps
  <1> QED  BY <1>2, <1>3, <1>4 DEF CallTool

\* The result of a tool that returns, before or after a stop.
LEMMA ToolResultKeeps ==
  ASSUME ChatInv, NEW r \in RunId, ToolResult(r)
  PROVE  ChatInv' /\ StepAllowed
  <1>1. run[r].state \in {"acting", "refused"} /\ Alive(r) /\ "failed" \in EndReason
    BY DEF ToolResult, Alive, Ended, EndReason
  <1>2. CASE Stop(r)
    BY <1>1, <1>2, StopTaskKeeps
  <1>3. CASE End(r, Failure(r), TRUE)
    <2>1. Failure(r) \in EndReason /\ Failure(r) # "completed" /\ (Aborted(r) => Failure(r) = run[r].abort)
      BY ReasonType
    <2> QED  BY <1>1, <1>3, <2>1, EndKeeps
  <1>4. CASE Reason(r) = "none" /\ End(r, "failed", FALSE)
    BY <1>1, <1>4, ReasonType, EndKeeps
  <1>5. CASE Reason(r) = "none" /\ (Continue(r, "call") \/ Continue(r, "ready"))
    BY <1>1, <1>5, ContinueKeeps
  <1> QED  BY <1>2, <1>3, <1>4, <1>5 DEF ToolResult

\* Nothing of the tasks is left but what they did, and the rows a crash cuts
\* short are failed.
LEMMA RestartKeeps ==
  ASSUME ChatInv, Restart
  PROVE  ChatInv' /\ StepAllowed
  <1>1. /\ TypeOK
        /\ run' = [r \in RunId |-> IF Alive(r) THEN Past(r, "lost", "none") ELSE run[r]]
        /\ window' = [w \in Window |-> "open"]
        /\ active' = [c \in Conversation |-> 0]
        /\ requests' = [w \in Window |-> {}]
        /\ watchers' = {} /\ closing' = FALSE /\ cancels' = {} /\ owned' = {}
        /\ UNCHANGED <<lastRun, stored>>
    BY DEF ChatInv, Restart
  <1>2. ASSUME NEW r \in RunId
        PROVE  /\ run'[r] \in Run
               /\ ~Alive(r)' /\ ~run'[r].saved
               /\ run'[r].state \in {run[r].state, "lost"}
               /\ run'[r].state = "over" <=> run'[r].end # "none"
               /\ run'[r].worked = run[r].worked
               /\ RequestOf(r)' = RequestOf(r)
               /\ Alive(r) => run'[r].state = "lost"
               /\ run'[r].abort \in {run[r].abort, "none"}
    <2>1. CASE Alive(r)
      <3>1. run'[r] = Past(r, "lost", "none")
        BY <1>1, <2>1
      <3>2. "none" \in EndReason \cup {"none"} /\ "lost" \in {"over", "lost"}
        OBVIOUS
      <3>3. /\ Past(r, "lost", "none") \in Run
            /\ Past(r, "lost", "none").state = "lost"
            /\ Past(r, "lost", "none").end = "none"
            /\ Past(r, "lost", "none").worked = run[r].worked
            /\ Past(r, "lost", "none").conversation = run[r].conversation
            /\ Past(r, "lost", "none").request = run[r].request
            /\ Past(r, "lost", "none").saved = FALSE
            /\ Past(r, "lost", "none").abort = "none"
        BY <1>1, <2>1, <3>2, PastEffect
      <3> QED  BY <3>1, <3>3 DEF Alive, Ended, RequestOf
    <2>2. CASE ~Alive(r)
      <3>1. run'[r] = run[r]
        BY <1>1, <2>2
      <3> QED  BY <1>1, <2>2, <3>1 DEF Alive, RequestOf, ChatInv, TasksFormed, TypeOK
    <2> QED  BY <2>1, <2>2
  <1>3. /\ row' \in [RunId -> RowState]
        /\ asked \subseteq asked' /\ asked' \subseteq Conversation \X Request
        /\ answered \subseteq answered' /\ answered' \subseteq RunId
        /\ \A s \in RunId : row'[s] = "completed" => row[s] = "completed"
    <2>1. PICK r \in RunId \cup {0}, message \in BOOLEAN :
            LET begun == r # 0 /\ run[r].state = "preparing" /\ ~Recorded(r)
                         /\ run[r].conversation \in stored
                ending == r # 0 /\ Alive(r) /\ run[r].saved
                          /\ run[r].conversation \in stored
                table == IF begun THEN [row EXCEPT ![r] = "running"] ELSE row
                kept == Retain(table)
            IN /\ r # 0 => begun \/ (ending /\ message)
               /\ asked' = IF begun /\ message
                           THEN asked \cup {<<run[r].conversation, run[r].request>>}
                           ELSE asked
               /\ answered' = IF ending THEN answered \cup {r} ELSE answered
               /\ row' = [s \in RunId |-> IF kept[s] = "running" THEN "failed"
                                          ELSE kept[s]]
      BY DEF Restart
    <2> DEFINE begun == r # 0 /\ run[r].state = "preparing" /\ ~Recorded(r)
                        /\ run[r].conversation \in stored
               ending == r # 0 /\ Alive(r) /\ run[r].saved
                         /\ run[r].conversation \in stored
               table == IF begun THEN [row EXCEPT ![r] = "running"] ELSE row
               kept == Retain(table)
    <2>2. /\ asked' = IF begun /\ message
                      THEN asked \cup {<<run[r].conversation, run[r].request>>}
                      ELSE asked
          /\ answered' = IF ending THEN answered \cup {r} ELSE answered
          /\ row' = [s \in RunId |-> IF kept[s] = "running" THEN "failed" ELSE kept[s]]
      BY <2>1
    <2>3. begun => run[r].conversation \in Conversation /\ run[r].request \in Request
      BY DEF ChatInv, TasksFormed, Alive, Ended
    <2>4. /\ table \in [RunId -> RowState]
          /\ \A s \in RunId : table[s] = "completed" => row[s] = "completed"
      BY <1>1 DEF TypeOK, RowState
    <2> HIDE DEF table, begun
    <2>5. /\ kept \in [RunId -> RowState]
          /\ \A s \in RunId : kept[s] \in {table[s], "none"}
      BY <2>4, RetainEffect
    <2> HIDE DEF kept
    <2>6. /\ row' \in [RunId -> RowState]
          /\ \A s \in RunId : row'[s] = "completed" => row[s] = "completed"
      BY <2>2, <2>4, <2>5 DEF RowState
    <2> QED  BY <1>1, <2>2, <2>3, <2>6 DEF TypeOK
  <1>4. run' \in [RunId -> Run]
    BY <1>1, <1>2
  <1>5. TypeOK'
    BY <1>1, <1>2, <1>3, <1>4 DEF TypeOK, RowState
  <1>6. TasksFormed'
    BY <1>1, <1>2 DEF ChatInv, TasksFormed
  <1>7. RegistryExact'
    BY <1>1, <1>2 DEF RegistryExact
  <1>8. ClaimedOnce'
    <2>1. \A r \in RunId : Claims(r)' => Claims(r)
      BY <1>2 DEF Claims
    <2> QED  BY <1>2, <1>3, <2>1 DEF ChatInv, ClaimedOnce
  <1>9. RowsHeld' /\ TasksWatched' /\ DestroyedWindowAborts'
    BY <1>2 DEF RowsHeld, TasksWatched, DestroyedWindowAborts
  <1>10. CompletedRowHasAnswer'
    BY <1>3 DEF ChatInv, CompletedRowHasAnswer
  <1>11. StepAllowed
    BY <1>2 DEF StepAllowed, DispatchAllowed, FirstReason, UserStop, Aborted
  <1> QED  BY <1>5, <1>6, <1>7, <1>8, <1>9, <1>10, <1>11 DEF ChatInv

-----------------------------------------------------------------------------

\* ChatInv holds when nothing was asked.
LEMMA ChatInit ==
  ASSUME Init
  PROVE  ChatInv
  <1> USE ChatAssumption
  <1>1. run = [r \in RunId |-> NoRun]
    BY DEF Init
  <1>2. /\ NoRun \in Run /\ NoRun.state = "none" /\ NoRun.end = "none"
        /\ NoRun.saved = FALSE /\ NoRun.worked = FALSE
    BY DEF NoRun, Run
  <1>3. \A r \in RunId : /\ run[r] \in Run /\ ~Alive(r) /\ ~run[r].saved /\ ~run[r].worked
                         /\ run[r].state = "none" /\ run[r].end = "none"
    BY <1>1, <1>2 DEF Alive, Ended
  <1>4. TypeOK
    <2>1. run \in [RunId -> Run]
      BY <1>1, <1>2
    <2>2. \A r \in RunId : run[r].state = "over" <=> run[r].end # "none"
      BY <1>3
    <2>3. /\ lastRun \in 0 .. MaxRuns /\ watchers \subseteq Window /\ closing \in BOOLEAN
          /\ stored \subseteq Conversation /\ asked \subseteq Conversation \X Request
          /\ answered \subseteq RunId /\ owned \subseteq RunId /\ cancels \subseteq ChatCancelRequest
      <3>1. /\ lastRun = 0 /\ watchers = {} /\ closing = FALSE /\ stored = Conversation
            /\ asked = {} /\ answered = {} /\ owned = {} /\ cancels = {}
        BY DEF Init
      <3>2. lastRun \in 0 .. MaxRuns
        BY <3>1
      <3>3. {} \subseteq Window /\ {} \subseteq RunId /\ {} \subseteq Conversation \X Request
            /\ {} \subseteq ChatCancelRequest
        OBVIOUS
      <3> QED  BY <3>1, <3>2, <3>3, Zenon
    <2>4. row \in [RunId -> {"none", "running", "completed", "failed"}]
          /\ window \in [Window -> {"open", "destroyed"}]
      BY DEF Init
    <2>5. active \in [Conversation -> RunId \cup {0}]
      BY DEF Init
    <2>6. requests \in [Window -> SUBSET RunId]
      <3>1. {} \in SUBSET RunId
        OBVIOUS
      <3> QED  BY <3>1 DEF Init
    <2> QED  BY <2>1, <2>2, <2>3, <2>4, <2>5, <2>6 DEF TypeOK
  <1>5. TasksFormed /\ ClaimedOnce /\ RowsHeld /\ TasksWatched /\ DestroyedWindowAborts
    BY <1>3 DEF TasksFormed, ClaimedOnce, Claims, RowsHeld, TasksWatched, DestroyedWindowAborts
  <1>6. RegistryExact
    BY <1>3 DEF Init, RegistryExact
  <1>7. CompletedRowHasAnswer
    BY DEF Init, CompletedRowHasAnswer
  <1> QED  BY <1>4, <1>5, <1>6, <1>7 DEF ChatInv

\* ChatInv is inductive, and every step keeps the two promises about stopped tasks.
LEMMA ChatNext ==
  ASSUME ChatInv, [Next]_vars
  PROVE  ChatInv' /\ [StepAllowed]_vars
  <1>1. CASE UNCHANGED vars
    BY <1>1 DEF vars, ChatInv, TypeOK, TasksFormed, RegistryExact, ClaimedOnce, Claims,
                RequestOf, RowsHeld, TasksWatched, DestroyedWindowAborts, CompletedRowHasAnswer,
                Alive, Aborted
  <1>2. ASSUME NEW w \in Window, NEW c \in Conversation, NEW q \in Request, Reserve(w, c, q)
        PROVE  ChatInv' /\ StepAllowed
    BY <1>2, ReserveKeeps
  <1>3. ASSUME NEW r \in RunId, Step(r) \/ AskCancel(r) \/ Timeout(r) \/ DeleteRow(r)
        PROVE  ChatInv' /\ StepAllowed
    BY <1>3, PrepareKeeps, AskModelKeeps, ModelReplyKeeps, CallToolKeeps, ToolResultKeeps,
       AskCancelKeeps, TimeoutKeeps, DeleteRowKeeps DEF Step
  <1>4. ASSUME NEW r \in RunId, NEW allowed \in BOOLEAN, ResolveApproval(r, allowed)
        PROVE  ChatInv' /\ StepAllowed
    BY <1>4, ResolveApprovalKeeps
  <1>5. ASSUME NEW w \in Window, WindowGone(w)
        PROVE  ChatInv' /\ StepAllowed
    BY <1>5, WindowGoneKeeps
  <1>6. ASSUME NEW c \in Conversation, DeleteConversation(c) \/ DeleteIdleConversation(c)
        PROVE  ChatInv' /\ StepAllowed
    BY <1>6, DeleteConversationKeeps
  <1>7. CASE ReloadConfig \/ Shutdown \/ Restart
    BY <1>7, ReloadKeeps, ShutdownKeeps, RestartKeeps
  <1>8. ASSUME NEW m \in cancels, Cancel(m)
        PROVE  ChatInv' /\ StepAllowed
    BY <1>8, CancelKeeps
  <1> QED  BY <1>1, <1>2, <1>3, <1>4, <1>5, <1>6, <1>7, <1>8 DEF Next

\* Every reachable state of the desktop chat satisfies the inductive invariant.
THEOREM ChatInvariant == Spec => []ChatInv
  <1>1. ChatInv /\ [Next]_vars => ChatInv'
    BY ChatNext
  <1> QED  BY <1>1, ChatInit, PTL DEF Spec

\* A request that worked: two tasks that did are two claims of one request.
LEMMA WorksOnce ==
  ASSUME ChatInv
  PROVE  RequestWorksOnce
  BY DEF ChatInv, ClaimedOnce, Claims, RequestOf, RequestWorksOnce

\* What the runs check of every state (registry, rows, destroyed windows), for
\* every set of windows, conversations and requests, and every bound: the
\* registry says exactly who is busy (chat-runs.ts), a request works in one
\* task only, rows of working tasks stay, and completed rows have an answer.
THEOREM ChatCorrect ==
  Spec => [](/\ TypeOK /\ RegistryExact /\ RequestWorksOnce /\ LiveRowKept
             /\ DestroyedWindowAborts /\ CompletedRowHasAnswer)
  <1>1. ChatInv => /\ TypeOK /\ RegistryExact /\ RequestWorksOnce /\ LiveRowKept
                   /\ DestroyedWindowAborts /\ CompletedRowHasAnswer
    BY WorksOnce DEF ChatInv, RowsHeld, LiveRowKept
  <1> QED  BY <1>1, ChatInvariant, PTL

\* Whatever is going on in other tasks, windows and the gate, no model call and
\* no tool call leaves a stopped task or one whose window is destroyed
\* (abortCheck and resolveApproval).
THEOREM NothingDispatchedAfterAbort == Spec => NoDispatchAfterAbort
  <1>1. ChatInv /\ [Next]_vars =>
          [\A r \in RunId :
             run'[r].state \in {"model", "acting"} /\ run'[r].state # run[r].state =>
               ~Aborted(r) /\ window[run[r].owner] = "open"]_vars
    BY ChatNext DEF StepAllowed, DispatchAllowed
  <1> QED  BY <1>1, ChatInvariant, PTL DEF Spec, NoDispatchAfterAbort

\* A task is stopped by its user only when a cancel that names it arrives, and a
\* stopped task ends for the first reason it was stopped for, whatever save fails
\* at its end (ChatRunRegistry.cancel, abort and the end of execute).
THEOREM StoppedTasksKeepTheirReason == Spec => StopsAsAsked
  <1>1. ChatInv /\ [Next]_vars =>
          [\A r \in RunId :
             /\ run'[r].abort = "user_cancelled" /\ ~Aborted(r) => NamedByCancel(r)
             /\ Alive(r) /\ Aborted(r) =>
                  \/ run'[r].state = "lost"
                  \/ run[r].abort \in {run'[r].abort, run'[r].end}]_vars
    BY ChatNext DEF StepAllowed, FirstReason, UserStop
  <1> QED  BY <1>1, ChatInvariant, PTL DEF Spec, StopsAsAsked
=============================================================================
