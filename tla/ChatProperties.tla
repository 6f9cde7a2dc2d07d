---------------------------- MODULE ChatProperties ----------------------------
(* What must hold of desktop chat tasks. *)
EXTENDS DesktopChat

(* A conversation is busy exactly while it has a task, and has one at most:  *)
(* no path of execute, finish or a destroyed window leaves it blocked.       *)
RegistryExact ==
  \A c \in Conversation :
    {r \in RunId : Alive(r) /\ run[r].conversation = c} = {active[c]} \ {0}

(* A request asks the model or runs tools in one task only, whoever sends it *)
(* again: after the replay cache dropped it, from another window, after a    *)
(* crash between any two writes.                                             *)
RequestWorksOnce ==
  \A r, s \in RunId :
    /\ run[r].worked /\ run[s].worked
    /\ run[r].conversation = run[s].conversation
    /\ run[r].request = run[s].request
    => r = s

(* "Already-issued actions may have taken effect; no later actions were      *)
(* dispatched": no model or tool call leaves a task that was stopped or      *)
(* whose window is destroyed, an approval that arrives late included.        *)
NoDispatchAfterAbort ==
  [][\A r \in RunId :
       run'[r].state \in {"model", "acting"} /\ run'[r].state # run[r].state =>
         ~Aborted(r) /\ window[run[r].owner] = "open"]_vars

(* While a task works, its row is there and running: reloads, deletions and  *)
(* retention of other tasks' rows never touch it.                            *)
LiveRowKept ==
  \A r \in RunId : Alive(r) /\ run[r].saved => row[r] = "running"

(* The tasks of a destroyed window are stopped, whichever of its tasks ended *)
(* before.                                                                   *)
DestroyedWindowAborts ==
  \A r \in RunId :
    Alive(r) /\ window[run[r].owner] = "destroyed" => Aborted(r)

(* A task is stopped by its user only when a cancel that names it arrives: one *)
(* that comes late "must never select a newer task merely because the same    *)
(* conversation has since been reused".  And it ends for the first reason it  *)
(* was stopped for, the one a cancel is answered with, whatever timeout,      *)
(* shutdown or failing save follows.                                         *)
NamedByCancel(r) ==
  \E m \in cancels :
    /\ m.owner = run[r].owner /\ m.conversation = run[r].conversation
    /\ m.request = run[r].request
    /\ m.task # 0 => m.task = r
StopsAsAsked ==
  [][\A r \in RunId :
       /\ run'[r].abort = "user_cancelled" /\ ~Aborted(r) => NamedByCancel(r)
       /\ Alive(r) /\ Aborted(r) =>
            \/ run'[r].state = "lost"
            \/ run[r].abort \in {run'[r].abort, run'[r].end}]_vars

(* A row says completed only if the assistant's message was saved.           *)
CompletedRowHasAnswer ==
  \A r \in RunId : row[r] = "completed" => r \in answered

(* Every task ends: also one whose approval nobody answers. *)
TasksEnd == \A r \in RunId : Alive(r) ~> ~Alive(r)

-----------------------------------------------------------------------------
(* The inductive invariant behind the properties above.                      *)

\* Numbers beyond lastRun are unused; a live task belongs to a window, and has
\* saved its message exactly from the end of Prepare to its own end.
TasksFormed ==
  \A r \in RunId :
    /\ r > lastRun => ~Alive(r) /\ ~run[r].worked
    /\ Alive(r) => /\ run[r].owner \in Window
                   /\ run[r].conversation \in Conversation
                   /\ run[r].request \in Request
    /\ run[r].saved <=> Alive(r) /\ run[r].state # "preparing"

\* A task that saved its message, or worked and is over, has its request on
\* disk, and no other task has that request.
Claims(r) == run[r].saved \/ run[r].worked
RequestOf(r) == <<run[r].conversation, run[r].request>>
ClaimedOnce ==
  /\ \A r \in RunId : Claims(r) => RequestOf(r) \in asked
  /\ \A r, s \in RunId : Claims(r) /\ Claims(s) /\ RequestOf(r) = RequestOf(s) => r = s

\* The recorder holds the running row of every task that saved its message.
RowsHeld == \A r \in RunId : run[r].saved => r \in owned /\ row[r] = "running"

\* A window with a live task is listened to.
TasksWatched == \A r \in RunId : Alive(r) => run[r].owner \in watchers

ChatInv ==
  /\ TypeOK
  /\ TasksFormed
  /\ RegistryExact
  /\ ClaimedOnce
  /\ RowsHeld
  /\ TasksWatched
  /\ DestroyedWindowAborts
  /\ CompletedRowHasAnswer
=============================================================================
