------------------------------ MODULE DesktopChat ------------------------------
(***************************************************************************)
(* Desktop chat tasks: the registry of running tasks (agent/chat-runs.ts),  *)
(* their execution (agent/desktop-chat.ts), the approval gate               *)
(* (approval-gate.ts) and the durable rows of the tasks                     *)
(* (agent-run-trace.ts, agent-run-retention.ts).                            *)
(*                                                                         *)
(* An action is the code between two awaits.  A task waits in               *)
(*   "preparing"  before its first check;  "ready"  before a model call;    *)
(*   "model"      for the model;           "call"   before a tool call;     *)
(*   "approval"   for the user;            "acting" for the tool;           *)
(*   "refused"    for the result of a tool call that was not dispatched.    *)
(* A task is over when its result was returned, lost when Studio died.      *)
(***************************************************************************)
EXTENDS Naturals, FiniteSets

CONSTANTS
  Window,        \* WebContents
  Conversation,  \* numbered in the order of their first task
  Request,       \* streamIds, numbered in the order they are first used
  None,          \* no window, conversation or request
  MaxRuns,       \* bound on the tasks ever reserved
  MaxCancels,    \* bound on the cancels on their way
  CacheSize,     \* finished requests remembered per window (200 in the code)
  KeepRows,      \* MAX_RUNS of agent-run-trace.ts
  Faults         \* "persist": a save fails, "crash": Studio dies,
                 \* "delete": REST deletes a conversation

ASSUME ChatAssumption ==
  /\ None \notin Window \cup Conversation \cup Request
  /\ Conversation \subseteq Nat /\ Request \subseteq Nat
  /\ MaxRuns \in Nat /\ MaxCancels \in Nat /\ CacheSize \in Nat
  /\ KeepRows \in Nat
  /\ Faults \subseteq {"persist", "crash", "delete"}

VARIABLES
  window,      \* open or destroyed
  run,         \* the ChatRunContext of every task
  lastRun,     \* number of tasks reserved
  active,      \* conversation -> its running task, or 0
  requests,    \* window -> tasks whose request is remembered
  watchers,    \* windows with a listener for their end
  closing,     \* shuttingDown
  cancels,     \* agent:chat-cancel calls on their way from a window
  stored,      \* conversations on disk
  asked,       \* requests whose user message is on disk
  answered,    \* tasks whose assistant message is on disk
  row,         \* durable state of every task
  owned        \* runWebContents: tasks the recorder holds live

vars == <<window, run, lastRun, active, requests, watchers, closing,
          cancels, stored, asked, answered, row, owned>>
registry == <<lastRun, active, requests, watchers>>
disk == <<stored, asked, answered, row, owned>>

RunId == 1 .. MaxRuns
(* "interrupted" stands for "timeout" too. *)
AbortReason == {"user_cancelled", "interrupted"}
(* "failed" stands for round_limit and execution_error. *)
EndReason == AbortReason \cup {"completed", "failed"}

Run == [state: {"none", "preparing", "ready", "model", "call", "approval",
                "acting", "refused", "over", "lost"},
        owner: Window \cup {None},
        conversation: Conversation \cup {None},
        request: Request \cup {None},
        abort: AbortReason \cup {"none"},      \* abortReason
        end: EndReason \cup {"none"},          \* terminal.endReason
        saved: BOOLEAN,                        \* userSaved
        worked: BOOLEAN]                       \* asked a model or ran a tool

NoRun == [state |-> "none", owner |-> None, conversation |-> None,
          request |-> None, abort |-> "none", end |-> "none",
          saved |-> FALSE, worked |-> FALSE]

(* A cancel names its conversation, the request and, once the window knows it, *)
(* the task; the caller is the window it comes from.                          *)
ChatCancelRequest == [owner: Window, conversation: Conversation,
                      request: Request, task: RunId \cup {0}]

TypeOK ==
  /\ window \in [Window -> {"open", "destroyed"}]
  /\ run \in [RunId -> Run] /\ lastRun \in 0 .. MaxRuns
  /\ active \in [Conversation -> RunId \cup {0}]
  /\ requests \in [Window -> SUBSET RunId]
  /\ watchers \subseteq Window
  /\ closing \in BOOLEAN
  /\ cancels \subseteq ChatCancelRequest
  /\ stored \subseteq Conversation
  /\ asked \subseteq Conversation \X Request
  /\ answered \subseteq RunId
  /\ row \in [RunId -> {"none", "running", "completed", "failed"}]
  /\ owned \subseteq RunId
  /\ \A r \in RunId : run[r].state = "over" <=> run[r].end # "none"

Ended == {"none", "over", "lost"}
Alive(r) == run[r].state \notin Ended
Aborted(r) == run[r].abort # "none"
Saves == IF "persist" \in Faults THEN BOOLEAN ELSE {TRUE}

Init ==
  /\ window = [w \in Window |-> "open"]
  /\ run = [r \in RunId |-> NoRun] /\ lastRun = 0
  /\ active = [c \in Conversation |-> 0]
  /\ requests = [w \in Window |-> {}]
  /\ watchers = {} /\ closing = FALSE /\ cancels = {}
  /\ stored = Conversation /\ asked = {} /\ answered = {}
  /\ row = [r \in RunId |-> "none"] /\ owned = {}

-----------------------------------------------------------------------------
(* Retention of rows (agent-run-retention.ts).                               *)

IsProtectedRun(table, r) == table[r] = "running" \/ r \in owned

(* retainAgentRuns: the oldest rows beyond the limit go, never a protected one. *)
Retain(table) ==
  LET rows == {r \in RunId : table[r] # "none"}
      loose == {r \in rows : ~IsProtectedRun(table, r)}
      older(r) == {q \in loose : q < r}
  IN [r \in RunId |->
       IF r \in loose /\ Cardinality(older(r)) + KeepRows < Cardinality(rows)
       THEN "none" ELSE table[r]]

Outcome(end) == IF end = "completed" THEN end ELSE "failed"

(* normalizeAgentRuns on load: a running row nobody owns failed.             *)
(* Mutant: every running row was. *)
RecoverRowsOfAll(table) ==
  [r \in RunId |-> IF table[r] = "running" THEN "failed" ELSE table[r]]

RecoverRows(table) ==
  [r \in RunId |-> IF table[r] = "running" /\ r \notin owned THEN "failed"
                   ELSE table[r]]

(* A sync pull reloads the configuration. *)
ReloadConfig ==
  /\ row' = RecoverRows(Retain(row))
  /\ UNCHANGED <<window, run, registry, closing, cancels, stored, asked, answered, owned>>

(* deleteRun and clearRuns. *)
DeleteRow(r) ==
  /\ row[r] # "none" /\ ~IsProtectedRun(row, r)
  /\ row' = [row EXCEPT ![r] = "none"]
  /\ UNCHANGED <<window, run, registry, closing, cancels, stored, asked, answered, owned>>

-----------------------------------------------------------------------------
(* The registry.                                                             *)

(* reserve: a fresh task.  Its refusals (shutdown, busy conversation, a      *)
(* request already known to this window) change nothing.  A new conversation *)
(* or request takes the next number: their ids are random, and a number      *)
(* stands for any of them.                                                   *)
Reserve(w, c, q) ==
  LET r == lastRun + 1 IN
  /\ r \in RunId /\ ~closing /\ window[w] = "open"
  /\ \A s \in requests[w] : run[s].request # q
  /\ active[c] = 0
  /\ \A p \in Conversation : p < c => \E s \in RunId : run[s].conversation = p
  /\ \A p \in Request : p < q => \E s \in RunId : run[s].request = p
  /\ lastRun' = r
  /\ run' = [run EXCEPT ![r] = [NoRun EXCEPT !.state = "preparing", !.owner = w,
                                !.conversation = c, !.request = q]]
  /\ active' = [active EXCEPT ![c] = r]
  /\ requests' = [requests EXCEPT ![w] = @ \cup {r}]
  /\ watchers' = watchers \cup {w}
  /\ UNCHANGED <<window, closing, cancels, disk>>

(* Mutant: a later reason replaces the first. *)
AbortAllAgain(S, reason) ==
  [r \in RunId |->
    IF r \in S /\ Alive(r)
    THEN [run[r] EXCEPT !.abort = reason,
                        !.state = IF @ = "approval" THEN "refused" ELSE @]
    ELSE run[r]]

(* Mutant: the approval gate does not listen to the signal. *)
AbortAllButApprovals(S, reason) ==
  [r \in RunId |->
    IF r \in S /\ Alive(r) /\ ~Aborted(r) THEN [run[r] EXCEPT !.abort = reason]
    ELSE run[r]]

(* abort of every task in S; the listener of a pending approval denies it.   *)
AbortAll(S, reason) ==
  [r \in RunId |->
    IF r \in S /\ Alive(r) /\ ~Aborted(r)
    THEN [run[r] EXCEPT !.abort = reason,
                        !.state = IF @ = "approval" THEN "refused" ELSE @]
    ELSE run[r]]

(* stopSession in the window: a stop asked for a task that the window takes to *)
(* be running.  It knows the task's own id once the task has started; a stop   *)
(* of a task that has ended, or was stopped, is one asked before that.         *)
AskCancel(r) ==
  /\ Alive(r) /\ ~Aborted(r) /\ window[run[r].owner] = "open"
  /\ Cardinality(cancels) < MaxCancels
  /\ cancels' = cancels \cup {[owner |-> run[r].owner,
                               conversation |-> run[r].conversation,
                               request |-> run[r].request,
                               task |-> IF run[r].saved THEN r ELSE 0]}
  /\ UNCHANGED <<window, run, registry, closing, disk>>

(* Mutant: the task the conversation has now, whichever the cancel names. *)
MatchesConversation(m, r) ==
  run[r].owner = m.owner /\ run[r].conversation = m.conversation

Matches(m, r) ==
  /\ run[r].owner = m.owner /\ run[r].conversation = m.conversation
  /\ run[r].request = m.request
  /\ m.task \in {0, r}

(* cancel: the running task of the conversation, if it is the one named.  A   *)
(* finished task is only reported.                                           *)
Cancel(m) ==
  /\ cancels' = cancels \ {m}
  /\ run' = AbortAll({r \in RunId : active[m.conversation] = r /\ Matches(m, r)},
                     "user_cancelled")
  /\ UNCHANGED <<window, registry, closing, disk>>

(* The timer; and an event that cannot be sent to the window, which interrupts *)
(* the task as well.                                                         *)
Timeout(r) ==
  /\ Alive(r) /\ ~Aborted(r)
  /\ run' = AbortAll({r}, "interrupted")
  /\ UNCHANGED <<window, registry, closing, cancels, disk>>

Of(w) == {r \in RunId : Alive(r) /\ run[r].owner = w}

(* The window is destroyed, or its renderer dies and may be loaded again.    *)
WindowGone(w) ==
  /\ window[w] = "open"
  /\ window' \in {window, [window EXCEPT ![w] = "destroyed"]}
  /\ run' = IF w \in watchers THEN AbortAll(Of(w), "interrupted") ELSE run
  /\ UNCHANGED <<registry, closing, cancels, disk>>

Shutdown ==
  /\ ~closing
  /\ closing' = TRUE
  /\ run' = AbortAll(RunId, "interrupted")
  /\ UNCHANGED <<window, registry, cancels, disk>>

(* Mutant: the listener goes with the first task of its window. *)
ReleaseFirst(r) ==
  LET w == run[r].owner IN
  /\ active' = [active EXCEPT ![run[r].conversation] = IF @ = r THEN 0 ELSE @]
  /\ watchers' = watchers \ {w}
  /\ requests' = requests
  /\ lastRun' = lastRun

(* Mutant: the conversation stays busy when the window is gone. *)
ReleaseOpen(r) ==
  LET w == run[r].owner IN
  /\ active' = IF window[w] = "open"
               THEN [active EXCEPT ![run[r].conversation] = 0] ELSE active
  /\ watchers' = IF Of(w) = {r} THEN watchers \ {w} ELSE watchers
  /\ requests' = requests
  /\ lastRun' = lastRun

(* finish: the conversation is free, the listener goes with the last task of *)
(* its window, and the finished requests remembered are cut to the limit.    *)
Release(r) ==
  LET w == run[r].owner
      over == {s \in requests[w] : s = r \/ ~Alive(s)}
      dropped == IF window[w] = "destroyed" THEN over
                 ELSE {s \in over : Cardinality({t \in over : t < s}) + CacheSize
                                      < Cardinality(requests[w])}
  IN /\ active' = [active EXCEPT ![run[r].conversation] = IF @ = r THEN 0 ELSE @]
     /\ watchers' = IF Of(w) = {r} THEN watchers \ {w} ELSE watchers
     /\ requests' = [requests EXCEPT ![w] = @ \ dropped]
     /\ lastRun' = lastRun

-----------------------------------------------------------------------------
(* execute.                                                                  *)

(* abortCheck: the reason it throws, none if the task may go on. *)
Reason(r) == IF Aborted(r) THEN run[r].abort
             ELSE IF window[run[r].owner] = "destroyed" THEN "interrupted" ELSE "none"
Failure(r) == IF Reason(r) # "none" THEN Reason(r) ELSE "failed"

(* Mutant: the terminal names no reason. *)
PastUnexplained(r, state, end) ==
  [NoRun EXCEPT !.state = state, !.worked = run[r].worked,
                !.conversation = run[r].conversation, !.request = run[r].request]

(* What is kept of a task: its request, how it ended and whether it worked.  *)
Past(r, state, end) ==
  [NoRun EXCEPT !.state = state, !.end = end, !.worked = run[r].worked,
                !.conversation = run[r].conversation, !.request = run[r].request]

Attempt(possible) == IF possible THEN Saves ELSE {FALSE}

(* Mutant: the row gets the reason from before the message failed. *)
FinishRowFirst(r, end, storage, table, holders) ==
  \E said \in Attempt(run[r].saved /\ run[r].conversation \in stored),
     put \in Attempt(r \in holders /\ table[r] # "none") :
    /\ run' = [run EXCEPT ![r] = Past(r, "over", IF storage \/ (run[r].saved /\ ~said)
                                                    \/ (r \in holders /\ ~put)
                                                 THEN Failure(r) ELSE end)]
    /\ answered' = IF said THEN answered \cup {r} ELSE answered
    /\ row' = IF put THEN Retain([table EXCEPT ![r] = Outcome(end)]) ELSE table
    /\ owned' = holders \ {r}
    /\ Release(r)
    /\ UNCHANGED <<window, closing, cancels, stored>>

(* From the catch block to ChatRunRegistry.finish: assistant message, row,   *)
(* recorder, registry.  A failed save turns the end into an error.           *)
Finish(r, end, storage, table, holders) ==
  \E said \in Attempt(run[r].saved /\ run[r].conversation \in stored),
     put \in Attempt(r \in holders /\ table[r] # "none") :
    LET unsaid == run[r].saved /\ ~said
        reason == IF unsaid THEN Failure(r) ELSE end
        failed == storage \/ unsaid \/ (r \in holders /\ ~put)
    IN /\ run' = [run EXCEPT ![r] = Past(r, "over", IF failed THEN Failure(r)
                                                    ELSE reason)]
       /\ answered' = IF said THEN answered \cup {r} ELSE answered
       /\ row' = IF put THEN Retain([table EXCEPT ![r] = Outcome(reason)]) ELSE table
       /\ owned' = holders \ {r}
       /\ Release(r)
       /\ UNCHANGED <<window, closing, cancels, stored>>

End(r, end, storage) == Finish(r, end, storage, row, owned) /\ asked' = asked
Stop(r) == Reason(r) # "none" /\ End(r, Reason(r), FALSE)

Continue(r, state) ==
  /\ run' = [run EXCEPT ![r].state = state, ![r].worked = @ \/ state \in {"model", "acting"}]
  /\ UNCHANGED <<window, registry, closing, cancels, disk>>

(* Mutant: history is not asked whether the request was executed before. *)
RecordedNever(r) == FALSE

Recorded(r) == <<run[r].conversation, run[r].request>> \in asked

(* The first stretch: nothing is written for a task that was stopped, cannot *)
(* run or whose request is on disk already; then the row and the message.    *)
Prepare(r) ==
  LET table == Retain([row EXCEPT ![r] = "running"])
      holders == owned \cup {r}
  IN /\ run[r].state = "preparing"
     /\ \/ Stop(r)
        \/ Reason(r) = "none" /\ End(r, "failed", FALSE)
        \/ /\ Reason(r) = "none" /\ ~Recorded(r)
           /\ run[r].conversation \in stored
           /\ \/ FALSE \in Saves /\ End(r, "failed", TRUE)
              \/ /\ FALSE \in Saves
                 /\ Finish(r, "failed", TRUE, table, holders)
                 /\ asked' = asked
              \/ /\ run' = [run EXCEPT ![r].state = "ready", ![r].saved = TRUE]
                 /\ row' = table /\ owned' = holders
                 /\ asked' = asked \cup {<<run[r].conversation, run[r].request>>}
                 /\ UNCHANGED <<window, registry, closing, cancels, stored, answered>>

AskModel(r) ==
  /\ run[r].state = "ready"
  /\ \/ Stop(r)
     \/ Reason(r) = "none" /\ Continue(r, "model")

ModelReply(r) ==
  /\ run[r].state = "model"
  /\ \/ Stop(r)
     \/ /\ Reason(r) = "none"
        /\ \/ End(r, "completed", FALSE)
           \/ End(r, "failed", FALSE)
           \/ Continue(r, "call")

(* A tool runs, is refused, or asks the approval gate.  Which tools need an  *)
(* approval, and which approvals are remembered, is left open.               *)
CallTool(r) ==
  /\ run[r].state = "call"
  /\ \/ Stop(r)
     \/ /\ Reason(r) = "none"
        /\ \/ End(r, "failed", FALSE)
           \/ Continue(r, "acting")
           \/ Continue(r, "refused")
           \/ Continue(r, "approval")

(* resolveApproval and the continuation of the tool. *)
ResolveApproval(r, allowed) ==
  /\ run[r].state = "approval"
  /\ Continue(r, IF allowed /\ ~Aborted(r) THEN "acting" ELSE "refused")

(* Mutant: the next tool call follows without a check. *)
ToolResultUnchecked(r) ==
  /\ run[r].state \in {"acting", "refused"}
  /\ Continue(r, "acting")

(* The result is recorded even for a stopped task, which then ends. *)
ToolResult(r) ==
  /\ run[r].state \in {"acting", "refused"}
  /\ \/ FALSE \in Attempt(row[r] # "none") /\ End(r, Failure(r), TRUE)
     \/ row[r] # "none" /\ Stop(r)
     \/ /\ row[r] # "none" /\ Reason(r) = "none"
        /\ \/ Continue(r, "call") \/ Continue(r, "ready")
           \/ End(r, "failed", FALSE)

-----------------------------------------------------------------------------
(* REST deletes a conversation, a running task's included. *)
DeleteConversation(c) ==
  /\ "delete" \in Faults /\ c \in stored
  /\ stored' = stored \ {c}
  /\ UNCHANGED <<window, run, registry, closing, cancels, asked, answered, row, owned>>

(* The desktop deletes a conversation that has no task. *)
DeleteIdleConversation(c) ==
  /\ c \in stored /\ active[c] = 0
  /\ stored' = stored \ {c}
  /\ UNCHANGED <<window, run, registry, closing, cancels, asked, answered, row, owned>>

(* Studio ends and starts again.  A crash may cut the writes of one task:    *)
(* the row, then the message of Prepare; the message, then the row of Finish.*)
Restart ==
  /\ closing \/ "crash" \in Faults
  /\ \E r \in RunId \cup {0}, message \in BOOLEAN :
       LET begun == r # 0 /\ run[r].state = "preparing" /\ ~Recorded(r)
                    /\ run[r].conversation \in stored
           ending == r # 0 /\ Alive(r) /\ run[r].saved
                     /\ run[r].conversation \in stored
           table == IF begun THEN [row EXCEPT ![r] = "running"] ELSE row
           kept == Retain(table)
       IN /\ r # 0 => begun \/ (ending /\ message)
          /\ asked' = IF begun /\ message
                      THEN asked \cup {<<run[r].conversation, run[r].request>>}
                      ELSE asked
          /\ answered' = IF ending THEN answered \cup {r} ELSE answered
          /\ row' = [s \in RunId |-> IF kept[s] = "running" THEN "failed"
                                     ELSE kept[s]]
  /\ run' = [r \in RunId |-> IF Alive(r) THEN Past(r, "lost", "none") ELSE run[r]]
  /\ window' = [w \in Window |-> "open"]
  /\ active' = [c \in Conversation |-> 0]
  /\ requests' = [w \in Window |-> {}]
  /\ watchers' = {} /\ closing' = FALSE /\ cancels' = {} /\ owned' = {}
  /\ UNCHANGED <<lastRun, stored>>

Step(r) == Prepare(r) \/ AskModel(r) \/ ModelReply(r) \/ CallTool(r) \/ ToolResult(r)

Next ==
  \/ \E w \in Window, c \in Conversation, q \in Request : Reserve(w, c, q)
  \/ \E r \in RunId : Step(r) \/ AskCancel(r) \/ Timeout(r) \/ DeleteRow(r)
  \/ \E m \in cancels : Cancel(m)
  \/ \E r \in RunId, allowed \in BOOLEAN : ResolveApproval(r, allowed)
  \/ \E w \in Window : WindowGone(w)
  \/ \E c \in Conversation : DeleteConversation(c) \/ DeleteIdleConversation(c)
  \/ ReloadConfig \/ Shutdown \/ Restart

(* The task's timer fires; a stopped task is resumed, because model calls    *)
(* and pending approvals listen to the signal and tool calls are bounded.    *)
Fairness == \A r \in RunId : /\ WF_vars(Timeout(r))
                             /\ WF_vars(Aborted(r) /\ Step(r))

Spec == Init /\ [][Next]_vars /\ Fairness
=============================================================================
