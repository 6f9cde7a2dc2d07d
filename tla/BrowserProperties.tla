--------------------------- MODULE BrowserProperties ---------------------------
(* What must hold of the browser lifecycle. *)
EXTENDS BrowserLifecycle

(* Every live browser this session spawned is in the runtime table under its *)
(* own profile: no exit handler, poll, status, cleanup or shutdown released  *)
(* the entry of another process or took a sent signal for an exit.           *)
OwnedUntilExit ==
  \A p \in Pid : Live(p) /\ proc[p].child => table[proc[p].profile].pid = p

(* One profile directory has at most one live browser, whatever launches,    *)
(* reuses, stops and restarts overlap.                                       *)
OneBrowserPerProfile ==
  \A p, q \in Pid : Live(p) /\ Live(q) /\ proc[p].profile = proc[q].profile => p = q

(* A shutdown that reports no unfinished browser leaves none of this         *)
(* session's browsers behind, a launch that was in progress included.        *)
CleanShutdownIsTrue ==
  quit.phase = "done" /\ quit.clean => \A p \in Pid : ~(Live(p) /\ proc[p].child)

(* assertOwnedBrowserLaunch: "Verification must never publish success into a *)
(* replaced/stopping runtime."  A launch call that returns success leaves an *)
(* entry that is not being stopped.  (A step that a refusal of the launch    *)
(* explains as well is not held against the code.)                           *)
SuccessIsNotStopping ==
  [][\A l \in Launcher :
       (FinishReuse(l) \/ FinishLaunch(l)) /\ ~RefuseLaunch(l) =>
         ~table'[launch[l].profile].stopping]_vars

(* An accepted stop ends its browser, unless its entry is replaced or Studio *)
(* restarts: native close, SIGTERM and SIGKILL follow one another.           *)
StopEndsBrowser ==
  \A p \in Pid : stopper[p].current ~> (~Live(p) \/ ~stopper[p].current)


-----------------------------------------------------------------------------
(* The inductive invariant behind the properties above.                      *)

\* The numbers up to lastPid, and no others, are processes of a profile.
ProcessesStarted ==
  \A p \in Pid : /\ p <= lastPid <=> proc[p].state # "none"
                 /\ p <= lastPid <=> proc[p].profile \in Profile

\* An entry names a process of its profile, with the handle if this session
\* spawned it.
EntriesFormed ==
  \A d \in Profile :
    /\ table[d].pid = 0 => table[d] = NoEntry
    /\ table[d].pid # 0 => /\ proc[table[d].pid].profile = d
                           /\ proc[table[d].pid].child => table[d].handle

\* A child that kill(pid, 0) finds has its entry.
ChildrenOwned ==
  \A p \in Pid : proc[p].child /\ SeenAlive(p) => table[proc[p].profile].pid = p

\* A stop that isCurrent() works on the stopping entry of its process.
StopsCurrent ==
  \A p \in Pid : stopper[p].current => /\ proc[p].profile \in Profile
                                       /\ table[proc[p].profile].pid = p
                                       /\ table[proc[p].profile].stopping

\* What a suspended launch may rely on: nothing lives in a profile that is
\* prepared and it has no entry, nothing but the candidate in one that is reused, its entry
\* included, and no stop works on the entry of a child that is cleaned up.
LaunchesFormed ==
  \A l \in Launcher :
    LET d == launch[l].profile  p == launch[l].pid IN
    /\ launch[l].pc = "prepare" => Candidates(d) = {} /\ table[d].pid = 0
    /\ launch[l].pc = "reuse" => /\ p \in Pid /\ proc[p].profile = d
                                 /\ Candidates(d) \subseteq {p}
                                 /\ table[d].pid \in {0, p}
                                 /\ proc[p].child => launch[l].existing
    /\ launch[l].pc \in {"verify", "cleanup"} =>
         p \in Pid /\ proc[p].profile = d /\ proc[p].child
    /\ launch[l].pc = "cleanup" => /\ table[d].pid = p => table[d].stopping
                                   /\ ~stopper[p].current

\* The restore lock of a profile has one holder.
LocksExclusive ==
  \A k, l \in Launcher :
    /\ launch[k].pc \in {"prepare", "reuse"} /\ launch[l].pc \in {"prepare", "reuse"}
    /\ launch[k].profile = launch[l].profile
    => k = l

\* Nothing is spawned once the shutdown began, and it tracks what lives.
ShutdownTracks ==
  /\ quit.phase # "no" => ~admission
  /\ quit.phase = "waiting" => \A p \in Pid : Live(p) /\ proc[p].child => p \in quit.tracked
  /\ CleanShutdownIsTrue

BrowserInv ==
  /\ TypeOK
  /\ ProcessesStarted
  /\ EntriesFormed
  /\ ChildrenOwned
  /\ StopsCurrent
  /\ LaunchesFormed
  /\ LocksExclusive
  /\ OneBrowserPerProfile
  /\ ShutdownTracks
=============================================================================
