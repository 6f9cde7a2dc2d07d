--------------------------- MODULE BrowserLifecycle ---------------------------
(***************************************************************************)
(* Who owns which Chromium process: the runtime table of one Studio process *)
(* (browser/runtime-table.ts), launches and warm reuse (browser-manager.ts),*)
(* stops with their escalation, status and shutdown (browser/lifecycle.ts). *)
(*                                                                         *)
(* An action is the code between two awaits.  A launch is suspended in      *)
(*   "prepare"  fresh launch before its spawn; it holds the restore lock;   *)
(*   "reuse"    verification of a running browser; it holds the lock too;   *)
(*   "verify"   checks on the spawned browser, the lock is released;        *)
(*   "cleanup"  termination of the child of a failed launch.                *)
(* Entries of the table are JavaScript objects compared by identity.  An    *)
(* object that left the table never comes back, so identity is kept as one  *)
(* flag: stopper[p].current, "the entry this stop began on is still there". *)
(***************************************************************************)
EXTENDS Naturals, FiniteSets

CONSTANTS
  Profile,      \* managed profile ids (dirId)
  Launcher,     \* calls of launchBrowser that may be in progress at once
  NoProfile,    \* the profile of an idle launcher
  MaxPids,      \* bound on the processes ever started
  Environment   \* what else happens: "orphan" (Studio dies, browsers go on),
                \* "status", "quit"

ASSUME BrowserAssumption ==
  /\ NoProfile \notin Profile
  /\ MaxPids \in Nat
  /\ Environment \subseteq {"orphan", "status", "quit"}

VARIABLES
  proc,       \* the operating system's view of every process
  lastPid,    \* number of processes started
  table,      \* runningProcesses
  stopper,    \* the closure of beginBrowserStop that targets a process
  launch,     \* the launchBrowser calls
  admission,  \* ~launchAdmissionClosed
  quit        \* before-quit and shutdownAllBrowserProfiles

vars == <<proc, lastPid, table, stopper, launch, admission, quit>>

Pid == 1 .. MaxPids

(* "zombie": exited, not yet reaped, so kill(pid, 0) succeeds; "gone":       *)
(* kill fails with ESRCH but the exit event is still to come (a platform has *)
(* one of the two); "dead": the exit event was delivered or nobody waits.    *)
ProcState == {"none", "live", "zombie", "gone", "dead"}

Process == [state: ProcState,
            profile: Profile \cup {NoProfile},
            child: BOOLEAN,                    \* spawned by this session
            signal: {"none", "term", "kill"}]  \* strongest signal sent to it

NoProcess == [state |-> "none", profile |-> NoProfile, child |-> FALSE,
              signal |-> "none"]

Entry == [pid: Pid \cup {0},
          handle: BOOLEAN,      \* process: the ChildProcess, or null
          chromium: BOOLEAN,    \* engine = "chromium"
          stopping: BOOLEAN]

NoEntry == [pid |-> 0, handle |-> FALSE, chromium |-> FALSE, stopping |-> FALSE]

Stopper == [phase: {"none", "graceful", "signal", "finished"}, current: BOOLEAN]

NoStopper == [phase |-> "none", current |-> FALSE]

Launch == [pc: {"idle", "prepare", "reuse", "verify", "cleanup"},
           profile: Profile \cup {NoProfile},
           pid: Pid \cup {0},     \* the candidate, then the child
           existing: BOOLEAN]     \* an entry existed when the launch began

IdleLaunch == [pc |-> "idle", profile |-> NoProfile, pid |-> 0, existing |-> FALSE]

Quit == [phase: {"no", "closing", "waiting", "done"},
         tracked: SUBSET Pid,
         clean: BOOLEAN]          \* report.timedOut = false

NoQuit == [phase |-> "no", tracked |-> {}, clean |-> FALSE]

TypeOK ==
  /\ proc \in [Pid -> Process]
  /\ lastPid \in 0 .. MaxPids
  /\ table \in [Profile -> Entry]
  /\ stopper \in [Pid -> Stopper]
  /\ launch \in [Launcher -> Launch]
  /\ admission \in BOOLEAN
  /\ quit \in Quit
  /\ \A l \in Launcher : launch[l].pc = "idle" <=> launch[l].profile = NoProfile
  /\ \A d \in Profile : table[d].pid <= lastPid

-----------------------------------------------------------------------------
(* What the code can observe of a process.                                   *)

Live(p)      == proc[p].state = "live"
SeenAlive(p) == proc[p].state \in {"live", "zombie"}    \* isLivePid
DeadEntry(d) == table[d].pid # 0 /\ ~SeenAlive(table[d].pid)
Running      == {p \in Pid : proc[p].state \in {"live", "zombie", "gone"}}

(* Process discovery lists the command lines of live processes only. *)
Candidates(d) == {p \in Pid : Live(p) /\ proc[p].profile = d}

(* The restore lock of a profile is held while a launch prepares. *)
Locked(d) == \E l \in Launcher : /\ launch[l].pc \in {"prepare", "reuse"}
                                 /\ launch[l].profile = d

(* The stop working on the entry of d, if any, sees isCurrent() fail. *)
Detach(d) == [p \in Pid |-> IF p = table[d].pid
                            THEN [stopper[p] EXCEPT !.current = FALSE]
                            ELSE stopper[p]]

Send(p, s) == [proc EXCEPT ![p].signal = IF @ = "kill" THEN @ ELSE s]

Init ==
  /\ proc = [p \in Pid |-> NoProcess]
  /\ lastPid = 0
  /\ table = [d \in Profile |-> NoEntry]
  /\ stopper = [p \in Pid |-> NoStopper]
  /\ launch = [l \in Launcher |-> IdleLaunch]
  /\ admission = TRUE
  /\ quit = NoQuit

-----------------------------------------------------------------------------
(* launchBrowser.                                                            *)

(* Mutant: the restore lock is not taken. *)
BeginLaunchUnlocked(l, d) ==
  /\ launch[l].pc = "idle" /\ admission
  /\ table[d].pid = 0 /\ Candidates(d) = {}
  /\ launch' = [launch EXCEPT ![l] = [pc |-> "prepare", profile |-> d, pid |-> 0,
                                      existing |-> FALSE]]
  /\ UNCHANGED <<proc, lastPid, table, stopper, admission, quit>>

(* From the call to its first await: lock, drop a dead entry, discovery.     *)
(* Every refusal leaves only the dropped entry behind.                       *)
BeginLaunch(l, d) ==
  LET entry == IF DeadEntry(d) THEN NoEntry ELSE table[d]
      reuse(p) == /\ entry.pid \in {0, p} /\ ~entry.stopping
                  /\ Candidates(d) = {p}
      fresh    == entry = NoEntry /\ Candidates(d) = {}
  IN /\ launch[l].pc = "idle" /\ admission /\ ~Locked(d)
     /\ \/ \E p \in Candidates(d) :
             /\ reuse(p)
             /\ launch' = [launch EXCEPT
                  ![l] = [pc |-> "reuse", profile |-> d, pid |-> p,
                          existing |-> entry # NoEntry]]
        \/ /\ fresh
           /\ launch' = [launch EXCEPT
                ![l] = [pc |-> "prepare", profile |-> d, pid |-> 0,
                        existing |-> FALSE]]
        \/ DeadEntry(d) /\ ~fresh /\ launch' = launch
     /\ table' = [table EXCEPT ![d] = entry]
     /\ stopper' = IF DeadEntry(d) THEN Detach(d) ELSE stopper
     /\ UNCHANGED <<proc, lastPid, admission, quit>>

(* Preparation or reuse verification throws: finally releases the lock. *)
RefuseLaunch(l) ==
  /\ launch[l].pc \in {"prepare", "reuse"}
  /\ launch' = [launch EXCEPT ![l] = IdleLaunch]
  /\ UNCHANGED <<proc, lastPid, table, stopper, admission, quit>>

(* The verified browser is published as a new entry object, which copies the *)
(* fields the entry seen at the start of the call has by now.                *)
FinishReuse(l) ==
  LET d == launch[l].profile  p == launch[l].pid
      seen == IF launch[l].existing THEN table[d] ELSE NoEntry
  IN /\ launch[l].pc = "reuse" /\ admission /\ SeenAlive(p)
     /\ table' = [table EXCEPT ![d] = [seen EXCEPT !.pid = p, !.chromium = TRUE]]
     /\ stopper' = Detach(d)
     /\ launch' = [launch EXCEPT ![l] = IdleLaunch]
     /\ UNCHANGED <<proc, lastPid, admission, quit>>

(* Mutant: admission is not asked again after the preparation. *)
SpawnAfterShutdown(l) ==
  LET d == launch[l].profile  p == lastPid + 1 IN
  /\ launch[l].pc = "prepare" /\ p \in Pid
  /\ lastPid' = p
  /\ proc' = [proc EXCEPT ![p] = [state |-> "live", profile |-> d, child |-> TRUE,
                                  signal |-> "none"]]
  /\ table' = [table EXCEPT ![d] = [pid |-> p, handle |-> TRUE, chromium |-> TRUE,
                                    stopping |-> FALSE]]
  /\ stopper' = Detach(d)
  /\ launch' = [launch EXCEPT ![l].pc = "verify", ![l].pid = p]
  /\ UNCHANGED <<admission, quit>>

(* Spawn, publication of the entry and release of the lock: no await between.*)
Spawn(l) ==
  LET d == launch[l].profile  p == lastPid + 1 IN
  /\ launch[l].pc = "prepare" /\ admission /\ p \in Pid
  /\ lastPid' = p
  /\ proc' = [proc EXCEPT ![p] = [state |-> "live", profile |-> d, child |-> TRUE,
                                  signal |-> "none"]]
  /\ table' = [table EXCEPT ![d] = [pid |-> p, handle |-> TRUE, chromium |-> TRUE,
                                    stopping |-> FALSE]]
  /\ stopper' = Detach(d)
  /\ launch' = [launch EXCEPT ![l].pc = "verify", ![l].pid = p]
  /\ UNCHANGED <<admission, quit>>

(* The entry of d still is the one published for child p. *)
Owns(d, p) == table[d].pid = p /\ table[d].handle

(* assertOwnedBrowserLaunch; child.killed is set once a signal was sent      *)
(* through the handle, which only the cleanup of this launch does.           *)
OwnedLaunch(l) ==
  LET p == launch[l].pid IN
  /\ admission
  /\ Owns(launch[l].profile, p) /\ ~table[launch[l].profile].stopping
  /\ proc[p].state # "dead"

(* Mutant: a call that returned still names its profile and child. *)
FinishLaunchKeepsCall(l) ==
  /\ launch[l].pc = "verify"
  /\ OwnedLaunch(l)
  /\ launch' = [launch EXCEPT ![l].pc = "idle"]
  /\ UNCHANGED <<proc, lastPid, table, stopper, admission, quit>>

FinishLaunch(l) ==
  /\ launch[l].pc = "verify"
  /\ OwnedLaunch(l)
  /\ launch' = [launch EXCEPT ![l] = IdleLaunch]
  /\ UNCHANGED <<proc, lastPid, table, stopper, admission, quit>>

(* A check failed, or the browser is no longer this launch's: clean up, but  *)
(* leave an entry alone that a stop already owns.                            *)
FailLaunch(l) ==
  LET d == launch[l].profile  p == launch[l].pid IN
  /\ launch[l].pc = "verify"
  /\ IF Owns(d, p) /\ table[d].stopping
     THEN /\ launch' = [launch EXCEPT ![l] = IdleLaunch]
          /\ UNCHANGED <<proc, table>>
     ELSE /\ launch' = [launch EXCEPT ![l].pc = "cleanup"]
          /\ table' = IF Owns(d, p) THEN [table EXCEPT ![d].stopping = TRUE] ELSE table
          /\ proc' = IF proc[p].state = "dead" THEN proc ELSE Send(p, "term")
  /\ UNCHANGED <<lastPid, stopper, admission, quit>>

(* The end of terminate(): the child exited, or SIGKILL is sent and nobody   *)
(* waits for it; only a confirmed exit releases the entry.                   *)
FinishCleanup(l) ==
  LET d == launch[l].profile  p == launch[l].pid IN
  /\ launch[l].pc = "cleanup"
  /\ IF proc[p].state = "dead"
     THEN /\ proc' = proc
          /\ table' = IF Owns(d, p) THEN [table EXCEPT ![d] = NoEntry] ELSE table
     ELSE proc' = Send(p, "kill") /\ table' = table
  /\ launch' = [launch EXCEPT ![l] = IdleLaunch]
  /\ UNCHANGED <<lastPid, stopper, admission, quit>>

-----------------------------------------------------------------------------
(* The operating system.                                                     *)

(* A browser exits: on a signal, on Browser.close, by its user, by a crash.  *)
ProcessExit(p) ==
  /\ Live(p)
  /\ IF proc[p].child
     THEN \E s \in {"zombie", "gone"} : proc' = [proc EXCEPT ![p].state = s]
     ELSE proc' = [proc EXCEPT ![p].state = "dead"]
  /\ UNCHANGED <<lastPid, table, stopper, launch, admission, quit>>

(* Mutant: the exit handler releases the profile's entry whoever owns it. *)
ExitEventUnchecked(p) ==
  LET d == proc[p].profile IN
  /\ proc[p].state \in {"zombie", "gone"}
  /\ proc' = [proc EXCEPT ![p].state = "dead"]
  /\ table' = [table EXCEPT ![d] = NoEntry]
  /\ stopper' = Detach(d)
  /\ UNCHANGED <<lastPid, launch, admission, quit>>

(* child.on("exit"): release the entry only while it holds this very child. *)
ExitEvent(p) ==
  LET d == proc[p].profile IN
  /\ proc[p].state \in {"zombie", "gone"}
  /\ proc' = [proc EXCEPT ![p].state = "dead"]
  /\ IF Owns(d, p)
     THEN table' = [table EXCEPT ![d] = NoEntry] /\ stopper' = Detach(d)
     ELSE UNCHANGED <<table, stopper>>
  /\ UNCHANGED <<lastPid, launch, admission, quit>>

-----------------------------------------------------------------------------
(* beginBrowserStop and its closure.                                         *)

(* Where a stop of entry e begins: native close for an owned Chromium, the   *)
(* signal phase at once for an entry of unknown engine.                      *)
FirstPhase(e) == IF e.chromium THEN "graceful" ELSE "signal"

(* stopBrowser: the entry is stopped, or without one the stamped residue of  *)
(* an earlier launch that discovery finds.  A dead entry is released at once.*)
StopBrowser(d) ==
  LET residue == table[d] = NoEntry
      e == table[d]
  IN /\ ~e.stopping
     /\ \E p \in IF residue THEN Candidates(d) ELSE {e.pid} :
          IF SeenAlive(p)
          THEN /\ table' = [table EXCEPT ![d].pid = p, ![d].stopping = TRUE]
               /\ stopper' = [stopper EXCEPT ![p] = [phase |-> FirstPhase(e),
                                                     current |-> TRUE]]
               /\ proc' = IF e.chromium THEN proc ELSE Send(p, "term")
          ELSE /\ table' = [table EXCEPT ![d] = NoEntry]
               /\ stopper' = Detach(d)
               /\ proc' = proc
     /\ UNCHANGED <<lastPid, launch, admission, quit>>

Stopping(p) == stopper[p].phase \in {"graceful", "signal"}

(* Mutant: releaseExited does not ask isCurrent() before it releases. *)
ReleaseReplaced(p) ==
  LET d == proc[p].profile IN
  /\ Stopping(p) /\ ~SeenAlive(p)
  /\ table' = [table EXCEPT ![d] = NoEntry]
  /\ stopper' = [stopper EXCEPT ![p] = [phase |-> "finished", current |-> FALSE]]
  /\ UNCHANGED <<proc, lastPid, launch, admission, quit>>

(* releaseExited, from poll or from the native close result: an entry that   *)
(* was replaced ends the stop, a dead process releases the entry.            *)
ReleaseExited(p) ==
  LET d == proc[p].profile IN
  /\ Stopping(p)
  /\ ~stopper[p].current \/ ~SeenAlive(p)
  /\ table' = IF stopper[p].current THEN [table EXCEPT ![d] = NoEntry] ELSE table
  /\ stopper' = [stopper EXCEPT ![p] = [phase |-> "finished", current |-> FALSE]]
  /\ UNCHANGED <<proc, lastPid, launch, admission, quit>>

(* fallback: native close failed or timed out while the browser lives.       *)
Fallback(p) ==
  /\ stopper[p] = [phase |-> "graceful", current |-> TRUE] /\ SeenAlive(p)
  /\ stopper' = [stopper EXCEPT ![p].phase = "signal"]
  /\ proc' = Send(p, "term")
  /\ UNCHANGED <<lastPid, table, launch, admission, quit>>

(* Mutant: the entry is given up when SIGKILL is sent. *)
EscalateAndRelease(p) ==
  /\ stopper[p] = [phase |-> "signal", current |-> TRUE] /\ SeenAlive(p)
  /\ stopper' = [stopper EXCEPT ![p] = [phase |-> "finished", current |-> FALSE]]
  /\ proc' = Send(p, "kill")
  /\ table' = [table EXCEPT ![proc[p].profile] = NoEntry]
  /\ UNCHANGED <<lastPid, launch, admission, quit>>

(* Mutant: the last signal is SIGTERM again. *)
EscalateByTerm(p) ==
  /\ stopper[p] = [phase |-> "signal", current |-> TRUE] /\ SeenAlive(p)
  /\ stopper' = [stopper EXCEPT ![p].phase = "finished"]
  /\ proc' = Send(p, "term")
  /\ UNCHANGED <<lastPid, table, launch, admission, quit>>

(* poll at the end of the TERM interval: SIGKILL; the entry stays, stopping, *)
(* until an exit is confirmed by somebody else.                              *)
Escalate(p) ==
  /\ stopper[p] = [phase |-> "signal", current |-> TRUE] /\ SeenAlive(p)
  /\ stopper' = [stopper EXCEPT ![p].phase = "finished"]
  /\ proc' = Send(p, "kill")
  /\ UNCHANGED <<lastPid, table, launch, admission, quit>>

-----------------------------------------------------------------------------
(* statusBrowser: a dead entry is dropped; without an entry the one process  *)
(* discovery finds is adopted, its engine unknown.                           *)
StatusBrowser(d) ==
  /\ "status" \in Environment
  /\ table[d] = NoEntry \/ DeadEntry(d)
  /\ \/ /\ Cardinality(Candidates(d)) # 1
        /\ table[d] # NoEntry
        /\ table' = [table EXCEPT ![d] = NoEntry]
     \/ \E p \in Pid :
          /\ Candidates(d) = {p}
          /\ table' = [table EXCEPT ![d] = [NoEntry EXCEPT !.pid = p]]
  /\ stopper' = Detach(d)
  /\ UNCHANGED <<proc, lastPid, launch, admission, quit>>

-----------------------------------------------------------------------------
(* Shutdown of the application.                                              *)

(* before-quit: admission closes, then the chat runs are awaited. *)
BeginQuit ==
  /\ "quit" \in Environment /\ quit.phase = "no"
  /\ quit' = [quit EXCEPT !.phase = "closing"]
  /\ admission' = FALSE
  /\ UNCHANGED <<proc, lastPid, table, stopper, launch>>

(* shutdownAllBrowserProfiles up to its first await: the snapshot, one stop  *)
(* per entry that is not stopping, and the first classification.             *)
BeginShutdown ==
  LET pids == {table[d].pid : d \in Profile} \ {0}
      stops(p) == \E d \in Profile : table[d].pid = p /\ ~table[d].stopping
      entry(p) == CHOOSE e \in {table[d] : d \in Profile} : e.pid = p
  IN /\ quit.phase = "closing"
     /\ quit' = [quit EXCEPT !.phase = "waiting", !.tracked = pids]
     /\ table' = [d \in Profile |->
          IF table[d].pid \in pids /\ ~DeadEntry(d)
          THEN [table[d] EXCEPT !.stopping = TRUE] ELSE NoEntry]
     /\ stopper' = [p \in Pid |->
          IF p \in pids /\ ~SeenAlive(p) THEN [stopper[p] EXCEPT !.current = FALSE]
          ELSE IF stops(p) THEN [phase |-> FirstPhase(entry(p)), current |-> TRUE]
          ELSE stopper[p]]
     /\ proc' = [p \in Pid |->
          IF /\ stops(p) /\ SeenAlive(p) /\ ~entry(p).chromium
             /\ proc[p].signal = "none"
          THEN [proc[p] EXCEPT !.signal = "term"] ELSE proc[p]]
     /\ UNCHANGED <<lastPid, launch, admission>>

(* One turn of the waiting loop: classify releases what has exited.  The     *)
(* loop ends when nothing is unfinished or at its deadline.                  *)
PollShutdown ==
  LET exited == {p \in quit.tracked : ~SeenAlive(p)} IN
  /\ quit.phase = "waiting"
  /\ table' = [d \in Profile |-> IF table[d].pid \in exited THEN NoEntry ELSE table[d]]
  /\ stopper' = [p \in Pid |-> IF \E d \in Profile : table[d].pid = p /\ p \in exited
                               THEN [stopper[p] EXCEPT !.current = FALSE]
                               ELSE stopper[p]]
  /\ \/ exited # quit.tracked /\ quit' = quit
     \/ quit' = [quit EXCEPT !.phase = "done", !.clean = exited = quit.tracked]
  /\ UNCHANGED <<proc, lastPid, launch, admission>>

(* The Studio process ends, after its cleanup or by a crash, and is started  *)
(* again.  Browsers are detached: the ones that live go on without an owner. *)
Restart ==
  /\ quit.phase = "done" \/ "orphan" \in Environment
  /\ proc' = [p \in Pid |-> [proc[p] EXCEPT
                !.child = FALSE,
                !.state = IF p \in Running /\ ~Live(p) THEN "dead" ELSE @]]
  /\ table' = [d \in Profile |-> NoEntry]
  /\ stopper' = [p \in Pid |-> NoStopper]
  /\ launch' = [l \in Launcher |-> IdleLaunch]
  /\ admission' = TRUE
  /\ quit' = NoQuit
  /\ UNCHANGED lastPid

-----------------------------------------------------------------------------
LaunchStep(l) ==
  \/ RefuseLaunch(l) \/ FinishReuse(l) \/ Spawn(l)
  \/ FinishLaunch(l) \/ FailLaunch(l) \/ FinishCleanup(l)

StopStep(p) == ReleaseExited(p) \/ Fallback(p) \/ Escalate(p)

Next ==
  \/ \E l \in Launcher, d \in Profile : BeginLaunch(l, d)
  \/ \E l \in Launcher : LaunchStep(l)
  \/ \E p \in Pid : ProcessExit(p) \/ ExitEvent(p) \/ StopStep(p)
  \/ \E d \in Profile : StopBrowser(d) \/ StatusBrowser(d)
  \/ BeginQuit \/ BeginShutdown \/ PollShutdown \/ Restart

(* Every await of the code has a timeout or a deadline, so suspended calls   *)
(* resume; the kernel ends a process after SIGKILL and reports the exit.     *)
KilledExits(p) == proc[p].signal = "kill" /\ ProcessExit(p)

Fairness ==
  /\ \A l \in Launcher : WF_vars(LaunchStep(l))
  /\ \A p \in Pid : /\ WF_vars(StopStep(p))
                    /\ WF_vars(KilledExits(p)) /\ WF_vars(ExitEvent(p))
  /\ WF_vars(BeginShutdown)

Spec == Init /\ [][Next]_vars /\ Fairness
=============================================================================
