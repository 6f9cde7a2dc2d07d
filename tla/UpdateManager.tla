---------------------------- MODULE UpdateManager ----------------------------
(***************************************************************************)
(* The release store of the controller runtime (update-manager.ts): one    *)
(* state file that manifest checks, installations, activations, rollbacks  *)
(* and the crash-loop guard read and write as a whole.                     *)
(*                                                                         *)
(* A check and an installation read the file before they wait for the      *)
(* network and write what they read, changed, afterwards; IPC and REST     *)
(* start them without any exclusion.  Everything else is one slice.        *)
(***************************************************************************)
EXTENDS Naturals, Sequences, FiniteSets, SequencesExt

CONSTANTS Release,        \* versions of the update manifest
          Base,           \* getCurrentVersion(), the baseline that needs no payload
          None,           \* no previous version
          Call,           \* checks and installations that may be under way
          CrashThreshold, \* CRASH_THRESHOLD
          MaxReleases,    \* MAX_RELEASES
          MaxTransitions  \* bound: transitions made, less than MAX_HISTORY

VARIABLES state,          \* updates/state.json
          payload,        \* releases with a payload directory
          call,           \* what each call is waiting for, and the state it has read
          up,             \* the application runs
          transitions     \* installs, activations and rollbacks so far

vars == <<state, payload, call, up, transitions>>

Version == Release \cup {Base}
\* `installed` is in the order of installedAt; `cooling` is a lastAutoRollbackAt
\* younger than AUTO_ROLLBACK_COOLDOWN_MS; `history` names transitions.
DefaultState == [active |-> Base, previous |-> None, crashes |-> 0, cooling |-> FALSE,
                 installed |-> << >>, history |-> {}]
NoCall == [kind |-> "none", version |-> None, read |-> DefaultState]

Init ==
  /\ state = DefaultState
  /\ payload = {}
  /\ call = [c \in Call |-> NoCall]
  /\ up = TRUE
  /\ transitions = 0

-----------------------------------------------------------------------------
IsInstalled(s, v) ==
  v = Base \/ v \in payload \/ \E i \in DOMAIN s.installed : s.installed[i].version = v

\* The transition that is being made gets the next number and enters the history.
Recorded(s) == [s EXCEPT !.history = @ \cup {transitions + 1}]
Transition == up /\ transitions < MaxTransitions /\ transitions' = transitions + 1

Relabelled(installed, label(_)) ==
  [i \in DOMAIN installed |-> [installed[i] EXCEPT !.status = label(installed[i])]]

\* activateVersion, rollback, noteAppStarted: another release becomes the active one.
Switched(s, v, demote) ==
  LET label(entry) == IF entry.version = v THEN "active"
                      ELSE IF demote /\ entry.version = s.active THEN "staged" ELSE entry.status
  IN Recorded([s EXCEPT !.active = v, !.previous = s.active, !.crashes = 0,
                        !.installed = Relabelled(s.installed, label)])

ActivateVersion(v) ==
  /\ Transition
  /\ IsInstalled(state, v) /\ v # state.active
  /\ state' = Switched(state, v, TRUE)
  /\ UNCHANGED <<payload, call, up>>

Rollback ==
  /\ Transition
  /\ state.previous # None /\ IsInstalled(state, state.previous)
  /\ state' = Switched(state, state.previous, TRUE)
  /\ UNCHANGED <<payload, call, up>>

-----------------------------------------------------------------------------
(* Calls that wait for the network with a copy of the state *)

Wait(c, kind, v) ==
  /\ up /\ call[c].kind = "none"
  /\ call' = [call EXCEPT ![c] = [kind |-> kind, version |-> v, read |-> state]]
  /\ UNCHANGED <<state, payload, up, transitions>>

CheckForUpdates(c) == Wait(c, "check", None)
\* From the return of findRelease on.
InstallRelease(c, v) == Wait(c, "install", v)

\* A check stores its time, error or channel, whether the manifest could be read or not.
FinishCheck(c) ==
  /\ call[c].kind = "check"
  /\ state' = call[c].read
  /\ call' = [call EXCEPT ![c] = NoCall]
  /\ UNCHANGED <<payload, up, transitions>>

\* pruneReleases: the active and the previous release and the newest staged ones.
Kept(s) ==
  LET pinned == {s.active, s.previous} \ {None}
      staged == SelectSeq(Reverse(s.installed),
                          LAMBDA entry : entry.status = "staged" /\ entry.version \notin pinned)
      room == IF MaxReleases > Cardinality(pinned) THEN MaxReleases - Cardinality(pinned) ELSE 0
  IN pinned \cup {staged[i].version : i \in {i \in DOMAIN staged : i <= room}}
Survives(s, entry) == entry.version \in Kept(s) \/ entry.status = "active"

Staged(s, v) ==
  IF \E i \in DOMAIN s.installed : s.installed[i].version = v
  THEN LET label(entry) == IF entry.version = v THEN "staged" ELSE entry.status
       IN [s EXCEPT !.installed = Relabelled(s.installed, label)]
  ELSE [s EXCEPT !.installed = Append(@, [version |-> v, status |-> "staged"])]

FinishInstall(c) ==
  /\ Transition
  /\ call[c].kind = "install"
  /\ LET s == Recorded(Staged(call[c].read, call[c].version))
         gone == {s.installed[i].version :
                    i \in {i \in DOMAIN s.installed : ~Survives(s, s.installed[i])}}
     IN /\ payload' = (payload \cup {call[c].version}) \ gone
        /\ state' = [s EXCEPT !.installed = SelectSeq(@, LAMBDA entry : Survives(s, entry))]
  /\ call' = [call EXCEPT ![c] = NoCall]
  /\ UNCHANGED up

FailInstall(c) ==
  /\ call[c].kind = "install"
  /\ call' = [call EXCEPT ![c] = NoCall]
  /\ UNCHANGED <<state, payload, up, transitions>>

-----------------------------------------------------------------------------
(* The crash-loop guard *)

NoteAppCrashed(s) == [s EXCEPT !.crashes = @ + 1]

\* The handler of an uncaught exception notes the crash and exits with 1; the
\* handler of the exit notes it again.
UncaughtException ==
  /\ up
  /\ state' = NoteAppCrashed(NoteAppCrashed(state))
  /\ up' = FALSE
  /\ call' = [c \in Call |-> NoCall]
  /\ UNCHANGED <<payload, transitions>>

\* Another exit with a code other than 0, and a clean quit.
ExitProcess(failed) ==
  /\ up
  /\ state' = IF failed THEN NoteAppCrashed(state) ELSE state
  /\ up' = FALSE
  /\ call' = [c \in Call |-> NoCall]
  /\ UNCHANGED <<payload, transitions>>

CrashLoop(s) == s.crashes >= CrashThreshold
CanRollBack(s) == s.previous # None /\ IsInstalled(s, s.previous)

\* noteAppStarted
StartApp ==
  /\ ~up /\ up' = TRUE
  /\ IF CrashLoop(state) /\ ~state.cooling /\ CanRollBack(state)
     THEN /\ transitions < MaxTransitions /\ transitions' = transitions + 1
          /\ state' = [Switched(state, state.previous, FALSE) EXCEPT !.cooling = TRUE]
     ELSE /\ state' = IF CrashLoop(state) THEN [state EXCEPT !.crashes = 0] ELSE state
          /\ UNCHANGED transitions
  /\ UNCHANGED <<payload, call>>

MarkAppHealthy ==
  /\ up /\ state.crashes # 0
  /\ state' = [state EXCEPT !.crashes = 0]
  /\ UNCHANGED <<payload, call, up, transitions>>

CooldownElapses ==
  /\ state.cooling
  /\ state' = [state EXCEPT !.cooling = FALSE]
  /\ UNCHANGED <<payload, call, up, transitions>>

Next ==
  \/ \E v \in Version : ActivateVersion(v)
  \/ Rollback
  \/ \E c \in Call : \/ CheckForUpdates(c) \/ FinishCheck(c)
                     \/ \E v \in Release : InstallRelease(c, v)
                     \/ FinishInstall(c) \/ FailInstall(c)
  \/ UncaughtException \/ \E failed \in BOOLEAN : ExitProcess(failed)
  \/ StartApp \/ MarkAppHealthy \/ CooldownElapses

Spec == Init /\ [][Next]_vars

-----------------------------------------------------------------------------
(* "Every transition is recorded in the audit log and in the persisted      *)
(* history" (the head of update-manager.ts): the history holds every        *)
(* install, activation and rollback that was made.                          *)
EveryTransitionRecorded == state.history = 1..transitions
=============================================================================
