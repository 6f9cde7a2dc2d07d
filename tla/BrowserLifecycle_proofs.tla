----------------------- MODULE BrowserLifecycle_proofs -----------------------
(***************************************************************************)
(* The browser lifecycle, proved for every set of profiles and launch       *)
(* calls, any number of processes and every environment: BrowserInv, the    *)
(* inductive invariant of BrowserProperties.  Most steps let processes age, *)
(* and move single entries, stops and calls along; Spawn and Restart, which *)
(* start processes and disown them, are taken on their own.                 *)
(***************************************************************************)
EXTENDS BrowserProperties, TLAPS

\* No process is started, disowned or comes back.
Ages(p) ==
  /\ proc'[p].profile = proc[p].profile
  /\ proc'[p].child = proc[p].child
  /\ proc'[p].state = "none" <=> proc[p].state = "none"
  /\ proc'[p].state = "live" => proc[p].state = "live"
  /\ proc'[p].state \in {"live", "zombie"} => proc[p].state \in {"live", "zombie"}

\* The entry of a profile stays its process's, is released after the exit, or
\* goes to a process that another session spawned.
EntryKept(d) ==
  /\ table'[d].pid = table[d].pid
  /\ table'[d].handle = table[d].handle
  /\ table[d].stopping => table'[d].stopping
  /\ table[d].pid = 0 => table'[d] = NoEntry
EntryReleased(d) ==
  /\ table'[d] = NoEntry
  /\ table[d].pid # 0 => proc'[table[d].pid].state \notin {"live", "zombie"}
EntryAdopts(d) ==
  /\ table'[d].pid \in Pid
  /\ proc[table'[d].pid].profile = d /\ ~proc[table'[d].pid].child
  /\ table[d].pid # 0 => \/ proc[table[d].pid].state \notin {"live", "zombie"}
                         \/ ~proc[table[d].pid].child
  /\ \/ proc[table'[d].pid].state = "live"
     \/ \A l \in Launcher : launch'[l].pc \in {"prepare", "reuse"} => launch'[l].profile # d
EntryMoves(d) == EntryKept(d) \/ EntryReleased(d) \/ EntryAdopts(d)

\* A stop that works on its entry did so before, or begins on one that no other
\* stop and no cleanup has.
StopMoves(p) ==
  stopper'[p].current =>
    /\ proc[p].profile \in Profile
    /\ table'[proc[p].profile].pid = p /\ table'[proc[p].profile].stopping
    /\ \/ stopper[p].current
       \/ ~proc[p].child
       \/ table[proc[p].profile].pid = p /\ ~table[proc[p].profile].stopping

\* A launch call stays where it is, returns, turns to its cleanup or begins.
LaunchCleansUp(l) ==
  LET d == launch[l].profile  p == launch[l].pid IN
  /\ launch[l].pc = "verify"
  /\ launch'[l].pc = "cleanup" /\ launch'[l].profile = d /\ launch'[l].pid = p
  /\ table'[d].pid = p => table'[d].stopping
  /\ ~stopper'[p].current
LaunchBegins(l) ==
  LET d == launch'[l].profile  p == launch'[l].pid IN
  /\ launch'[l].pc \in {"prepare", "reuse"}
  /\ launch'[l].pc = "prepare" => Candidates(d) = {} /\ table'[d].pid = 0
  /\ launch'[l].pc = "reuse" => /\ p \in Pid /\ proc[p].profile = d
                                /\ Candidates(d) \subseteq {p}
                                /\ table'[d].pid \in {0, p}
                                /\ proc[p].child => launch'[l].existing
  /\ \A k \in Launcher \ {l} :
       launch'[k].pc \in {"prepare", "reuse"} => launch'[k].profile # d
LaunchMoves(l) ==
  \/ launch'[l] = launch[l]
  \/ launch'[l] = IdleLaunch
  \/ LaunchCleansUp(l)
  \/ LaunchBegins(l)

-----------------------------------------------------------------------------

\* All that does not depend on the shutdown is kept when processes age and
\* entries, stops and calls move.
LEMMA MovesKeep ==
  ASSUME BrowserInv, TypeOK', lastPid' = lastPid,
         \A p \in Pid : Ages(p), \A d \in Profile : EntryMoves(d),
         \A p \in Pid : StopMoves(p), \A l \in Launcher : LaunchMoves(l)
  PROVE  /\ ProcessesStarted' /\ EntriesFormed' /\ ChildrenOwned' /\ StopsCurrent'
         /\ LaunchesFormed' /\ LocksExclusive' /\ OneBrowserPerProfile'
  <1>1. /\ TypeOK /\ ProcessesStarted /\ EntriesFormed /\ ChildrenOwned /\ StopsCurrent
        /\ LaunchesFormed /\ LocksExclusive /\ OneBrowserPerProfile
    BY DEF BrowserInv
  <1>2. /\ \A d \in Profile : /\ table[d].pid \in Pid \cup {0} /\ table'[d].pid \in Pid \cup {0}
                              /\ 0 \notin Pid
        /\ NoEntry.pid = 0
    BY <1>1 DEF TypeOK, Entry, Pid, NoEntry
  <1>3. ProcessesStarted'
    BY <1>1 DEF ProcessesStarted, Ages
  <1>4. EntriesFormed'
    <2> SUFFICES ASSUME NEW d \in Profile
                 PROVE  /\ table'[d].pid = 0 => table'[d] = NoEntry
                        /\ table'[d].pid # 0 => /\ proc'[table'[d].pid].profile = d
                                                /\ proc'[table'[d].pid].child => table'[d].handle
      BY DEF EntriesFormed
    <2>1. CASE EntryKept(d)
      BY <1>1, <1>2, <2>1 DEF EntryKept, EntriesFormed, Ages
    <2>2. CASE EntryReleased(d)
      BY <1>2, <2>2 DEF EntryReleased
    <2>3. CASE EntryAdopts(d)
      BY <1>2, <2>3 DEF EntryAdopts, Ages
    <2> QED  BY <2>1, <2>2, <2>3 DEF EntryMoves
  <1>5. ChildrenOwned'
    <2> SUFFICES ASSUME NEW p \in Pid, proc'[p].child, proc'[p].state \in {"live", "zombie"}
                 PROVE  table'[proc'[p].profile].pid = p
      BY DEF ChildrenOwned, SeenAlive
    <2>1. /\ proc[p].child /\ proc[p].state \in {"live", "zombie"} /\ proc'[p].profile = proc[p].profile
          /\ table[proc[p].profile].pid = p /\ proc[p].profile \in Profile
      BY <1>1 DEF Ages, ChildrenOwned, SeenAlive, ProcessesStarted
    <2>2. p # 0
      BY <1>2, <2>1
    <2> QED  BY <2>1, <2>2 DEF EntryMoves, EntryKept, EntryReleased, EntryAdopts
  <1>6. StopsCurrent'
    BY DEF StopsCurrent, StopMoves, Ages
  <1>7. LaunchesFormed'
    <2> SUFFICES ASSUME NEW l \in Launcher, NEW d, d = launch'[l].profile, NEW p, p = launch'[l].pid
                 PROVE  /\ launch'[l].pc = "prepare" => Candidates(d)' = {} /\ table'[d].pid = 0
                        /\ launch'[l].pc = "reuse" => /\ p \in Pid /\ proc'[p].profile = d
                                                      /\ Candidates(d)' \subseteq {p}
                                                      /\ table'[d].pid \in {0, p}
                                                      /\ proc'[p].child => launch'[l].existing
                        /\ launch'[l].pc \in {"verify", "cleanup"} =>
                             p \in Pid /\ proc'[p].profile = d /\ proc'[p].child
                        /\ launch'[l].pc = "cleanup" => /\ table'[d].pid = p => table'[d].stopping
                                                        /\ ~stopper'[p].current
      BY DEF LaunchesFormed
    <2>1. Candidates(d)' \subseteq Candidates(d)
      BY DEF Candidates, Live, Ages
    <2>2. launch'[l].pc # "idle" => d \in Profile
      BY DEF TypeOK, Launch
    <2>3. CASE launch'[l] = launch[l]
      <3>1. CASE launch[l].pc = "reuse"
        <4>1. /\ p \in Pid /\ proc[p].profile = d /\ Candidates(d) \subseteq {p}
              /\ table[d].pid \in {0, p} /\ (proc[p].child => launch[l].existing) /\ d \in Profile
          BY <1>1, <2>2, <2>3, <3>1 DEF LaunchesFormed
        <4>2. table'[d].pid \in {0, p}
          <5>1. CASE EntryKept(d) \/ EntryReleased(d)
            BY <1>2, <4>1, <5>1 DEF EntryKept, EntryReleased
          <5>2. CASE EntryAdopts(d)
            BY <2>3, <3>1, <4>1, <5>2 DEF EntryAdopts, Candidates, Live
          <5> QED  BY <4>1, <5>1, <5>2 DEF EntryMoves
        <4> QED  BY <2>1, <2>3, <3>1, <4>1, <4>2 DEF Ages
      <3>2. CASE launch[l].pc = "cleanup"
        <4>1. /\ p \in Pid /\ proc[p].profile = d /\ proc[p].child /\ d \in Profile
              /\ table[d].pid = p => table[d].stopping
              /\ ~stopper[p].current
          BY <1>1, <2>2, <2>3, <3>2 DEF LaunchesFormed
        <4>2. table'[d].pid = p => table'[d].stopping
          BY <1>2, <4>1 DEF EntryMoves, EntryKept, EntryReleased, EntryAdopts
        <4>3. ~stopper'[p].current
          BY <4>1 DEF StopMoves
        <4> QED  BY <2>3, <3>2, <4>1, <4>2, <4>3 DEF Ages
      <3>3. CASE launch[l].pc = "prepare"
        <4>1. Candidates(d) = {} /\ table[d].pid = 0 /\ d \in Profile
          BY <1>1, <2>2, <2>3, <3>3 DEF LaunchesFormed
        <4>2. table'[d].pid = 0
          <5>1. CASE EntryKept(d) \/ EntryReleased(d)
            BY <1>2, <4>1, <5>1 DEF EntryKept, EntryReleased
          <5>2. CASE EntryAdopts(d)
            BY <2>3, <3>3, <4>1, <5>2 DEF EntryAdopts, Candidates, Live
          <5> QED  BY <4>1, <5>1, <5>2 DEF EntryMoves
        <4> QED  BY <2>1, <2>3, <3>3, <4>1, <4>2
      <3>4. CASE launch[l].pc \notin {"prepare", "reuse", "cleanup"}
        BY <1>1, <2>1, <2>3, <3>4 DEF LaunchesFormed, Ages
      <3> QED  BY <3>1, <3>2, <3>3, <3>4
    <2>4. CASE launch'[l] = IdleLaunch
      BY <2>4 DEF IdleLaunch
    <2>5. CASE LaunchCleansUp(l)
      BY <1>1, <2>5 DEF LaunchCleansUp, LaunchesFormed, Ages
    <2>6. CASE LaunchBegins(l)
      BY <2>1, <2>6 DEF LaunchBegins, Ages
    <2> QED  BY <2>3, <2>4, <2>5, <2>6 DEF LaunchMoves
  <1>8. LocksExclusive'
    <2> SUFFICES ASSUME NEW k \in Launcher, NEW l \in Launcher, k # l,
                        launch'[k].pc \in {"prepare", "reuse"}, launch'[l].pc \in {"prepare", "reuse"}
                 PROVE  launch'[k].profile # launch'[l].profile
      BY DEF LocksExclusive
    <2>1. CASE LaunchBegins(k) \/ LaunchBegins(l)
      BY <2>1 DEF LaunchBegins
    <2>2. CASE launch'[k] = launch[k] /\ launch'[l] = launch[l]
      BY <1>1, <2>2 DEF LocksExclusive
    <2>3. \A j \in {k, l} : launch'[j] = launch[j] \/ LaunchBegins(j)
      BY DEF LaunchMoves, LaunchCleansUp, IdleLaunch
    <2> QED  BY <2>1, <2>2, <2>3
  <1>9. OneBrowserPerProfile'
    BY <1>1 DEF OneBrowserPerProfile, Live, Ages
  <1> QED  BY <1>3, <1>4, <1>5, <1>6, <1>7, <1>8, <1>9


\* Outside the shutdown nothing else is to be kept.
LEMMA MovesKeepAll ==
  ASSUME BrowserInv, TypeOK', lastPid' = lastPid, UNCHANGED <<admission, quit>>,
         \A p \in Pid : Ages(p), \A d \in Profile : EntryMoves(d),
         \A p \in Pid : StopMoves(p), \A l \in Launcher : LaunchMoves(l)
  PROVE  BrowserInv'
  <1>1. /\ ProcessesStarted' /\ EntriesFormed' /\ ChildrenOwned' /\ StopsCurrent'
        /\ LaunchesFormed' /\ LocksExclusive' /\ OneBrowserPerProfile'
    BY MovesKeep
  <1>2. ShutdownTracks'
    BY DEF BrowserInv, ShutdownTracks, CleanShutdownIsTrue, Live, Ages
  <1> QED  BY <1>1, <1>2 DEF BrowserInv

\* Nothing happens to processes, entries, stops or calls that are left alone.
LEMMA StillMoves ==
  ASSUME BrowserInv
  PROVE  /\ proc' = proc => \A p \in Pid : Ages(p)
         /\ table' = table => \A d \in Profile : EntryKept(d)
         /\ table' = table /\ stopper' = stopper => \A p \in Pid : StopMoves(p)
         /\ launch' = launch => \A l \in Launcher : LaunchMoves(l)
  BY DEF BrowserInv, EntriesFormed, StopsCurrent, Ages, EntryKept, StopMoves, LaunchMoves

\* A signal starts no process and disowns none.
LEMMA SendMoves ==
  ASSUME BrowserInv, NEW p \in Pid, NEW s \in {"term", "kill"}, proc' = Send(p, s)
  PROVE  proc' \in [Pid -> Process] /\ \A q \in Pid : Ages(q)
  <1> DEFINE sent == [proc[p] EXCEPT !.signal = IF @ = "kill" THEN @ ELSE s]
  <1>1. proc \in [Pid -> Process] /\ proc[p] \in Process
    BY DEF BrowserInv, TypeOK
  <1>2. /\ sent \in Process /\ sent.state = proc[p].state /\ sent.profile = proc[p].profile
        /\ sent.child = proc[p].child
    BY <1>1 DEF Process
  <1>3. proc' = [proc EXCEPT ![p] = sent]
    BY DEF Send
  <1> HIDE DEF sent
  <1>4. proc' \in [Pid -> Process] /\ proc'[p] = sent /\ \A q \in Pid : q # p => proc'[q] = proc[q]
    BY <1>1, <1>2, <1>3
  <1> QED  BY <1>2, <1>4 DEF Ages

\* One entry moves, the others stay.
LEMMA OneEntryMoves ==
  ASSUME BrowserInv, NEW d \in Profile, NEW e \in Entry, table' = [table EXCEPT ![d] = e]
  PROVE  /\ table' \in [Profile -> Entry] /\ table'[d] = e
         /\ \A c \in Profile : c # d => table'[c] = table[c]
         /\ EntryMoves(d) => \A c \in Profile : EntryMoves(c)
         /\ e.pid <= lastPid => \A c \in Profile : table'[c].pid <= lastPid
  <1>1. /\ table' \in [Profile -> Entry] /\ table'[d] = e
        /\ \A c \in Profile : c # d => table'[c] = table[c]
    BY DEF BrowserInv, TypeOK
  <1>2. \A c \in Profile : c # d => EntryKept(c)
    BY <1>1 DEF EntryKept, BrowserInv, EntriesFormed
  <1>3. e.pid <= lastPid => \A c \in Profile : table'[c].pid <= lastPid
    BY <1>1 DEF BrowserInv, TypeOK
  <1> QED  BY <1>1, <1>2, <1>3 DEF EntryMoves

\* A stop that stays on its entry: the entry of another profile.
LEMMA DetachMoves ==
  ASSUME BrowserInv, NEW d \in Profile, NEW e \in Entry,
         table' = [table EXCEPT ![d] = e], stopper' = Detach(d)
  PROVE  stopper' \in [Pid -> Stopper] /\ \A p \in Pid : StopMoves(p)
  <1>1. \A p \in Pid : stopper'[p] = IF p = table[d].pid THEN [stopper[p] EXCEPT !.current = FALSE]
                                     ELSE stopper[p]
    BY DEF Detach
  <1>2. \A p \in Pid : /\ stopper[p] \in Stopper
                       /\ [stopper[p] EXCEPT !.current = FALSE] \in Stopper
                       /\ [stopper[p] EXCEPT !.current = FALSE].current = FALSE
    BY DEF BrowserInv, TypeOK, Stopper
  <1>3. stopper' \in [Pid -> Stopper]
    BY <1>1, <1>2 DEF Detach
  <1>4. ASSUME NEW p \in Pid, stopper'[p].current
        PROVE  /\ stopper[p].current /\ proc[p].profile \in Profile
               /\ table'[proc[p].profile].pid = p /\ table'[proc[p].profile].stopping
    <2>1. stopper[p].current /\ p # table[d].pid
      BY <1>1, <1>2, <1>4
    <2>2. /\ proc[p].profile \in Profile /\ table[proc[p].profile].pid = p
          /\ table[proc[p].profile].stopping
      BY <2>1 DEF BrowserInv, StopsCurrent
    <2>3. table'[proc[p].profile] = table[proc[p].profile]
      BY <2>1, <2>2, OneEntryMoves
    <2> QED  BY <2>1, <2>2, <2>3
  <1> QED  BY <1>3, <1>4 DEF StopMoves

\* One call moves, the others stay.
LEMMA OneCallMoves ==
  ASSUME BrowserInv, NEW l \in Launcher, NEW c \in Launch, launch' = [launch EXCEPT ![l] = c],
         c.pc = "idle" <=> c.profile = NoProfile
  PROVE  /\ launch' \in [Launcher -> Launch] /\ launch'[l] = c
         /\ \A k \in Launcher : k # l => launch'[k] = launch[k]
         /\ \A k \in Launcher : launch'[k].pc = "idle" <=> launch'[k].profile = NoProfile
         /\ LaunchMoves(l) => \A k \in Launcher : LaunchMoves(k)
  BY DEF BrowserInv, TypeOK, LaunchMoves

\* The call that is not under way.
LEMMA IdleCall ==
  IdleLaunch \in Launch /\ IdleLaunch.pc = "idle" /\ IdleLaunch.profile = NoProfile
  BY DEF IdleLaunch, Launch

\* The entry that is not there.
LEMMA EmptyEntry ==
  NoEntry \in Entry /\ NoEntry.pid = 0 /\ NoEntry.stopping = FALSE /\ NoEntry.handle = FALSE
  BY DEF NoEntry, Entry

\* The types of what a process, an entry and a call hold.
LEMMA Parts ==
  ASSUME BrowserInv
  PROVE  /\ lastPid \in 0 .. MaxPids /\ lastPid \in Nat /\ Pid \subseteq Nat \ {0}
         /\ \A d \in Profile : /\ table[d] \in Entry /\ table[d].pid \in Pid \cup {0}
                               /\ table[d].handle \in BOOLEAN /\ table[d].chromium \in BOOLEAN
                               /\ table[d].stopping \in BOOLEAN
         /\ \A p \in Pid : proc[p] \in Process /\ stopper[p] \in Stopper
         /\ \A l \in Launcher : /\ launch[l] \in Launch
                                /\ launch[l].pc # "idle" => launch[l].profile \in Profile
                                /\ launch[l].existing \in BOOLEAN
  BY BrowserAssumption DEF BrowserInv, TypeOK, Entry, Launch, Pid

-----------------------------------------------------------------------------
(* Launch calls *)

LEMMA LeaveKeeps ==
  ASSUME BrowserInv, NEW l \in Launcher, RefuseLaunch(l) \/ FinishLaunch(l)
  PROVE  BrowserInv'
  <1>1. /\ launch' = [launch EXCEPT ![l] = IdleLaunch]
        /\ UNCHANGED <<proc, lastPid, table, stopper, admission, quit>>
    BY DEF RefuseLaunch, FinishLaunch
  <1>2. /\ launch' \in [Launcher -> Launch] /\ launch'[l] = IdleLaunch
        /\ \A k \in Launcher : launch'[k].pc = "idle" <=> launch'[k].profile = NoProfile
        /\ LaunchMoves(l) => \A k \in Launcher : LaunchMoves(k)
    BY <1>1, IdleCall, OneCallMoves
  <1>3. \A k \in Launcher : LaunchMoves(k)
    BY <1>2 DEF LaunchMoves
  <1>4. TypeOK'
    BY <1>1, <1>2 DEF BrowserInv, TypeOK
  <1>5. \A d \in Profile : EntryMoves(d)
    BY <1>1, StillMoves DEF EntryMoves
  <1> QED  BY <1>1, <1>3, <1>4, <1>5, StillMoves, MovesKeepAll


\* A launch takes the lock of its profile and decides on reuse.
LEMMA BeginLaunchKeeps ==
  ASSUME BrowserInv, NEW l \in Launcher, NEW d \in Profile, BeginLaunch(l, d)
  PROVE  BrowserInv'
  <1> DEFINE entry == IF DeadEntry(d) THEN NoEntry ELSE table[d]
             Reused(p) == [pc |-> "reuse", profile |-> d, pid |-> p, existing |-> entry # NoEntry]
             Fresh == [pc |-> "prepare", profile |-> d, pid |-> 0, existing |-> FALSE]
  <1>1. /\ launch[l].pc = "idle" /\ ~Locked(d)
        /\ table' = [table EXCEPT ![d] = entry]
        /\ stopper' = IF DeadEntry(d) THEN Detach(d) ELSE stopper
        /\ UNCHANGED <<proc, lastPid, admission, quit>>
        /\ \/ \E p \in Candidates(d) :
                /\ entry.pid \in {0, p} /\ Candidates(d) = {p}
                /\ launch' = [launch EXCEPT ![l] = Reused(p)]
           \/ /\ Candidates(d) = {} /\ entry = NoEntry
              /\ launch' = [launch EXCEPT ![l] = Fresh]
           \/ launch' = launch
    BY DEF BeginLaunch
  <1>2. entry \in Entry /\ entry.pid <= lastPid
    BY Parts, EmptyEntry DEF BrowserInv, TypeOK
  <1>3. EntryMoves(d) /\ table'[d] = entry
    <2>1. table'[d] = entry
      BY <1>1, <1>2, OneEntryMoves
    <2>2. CASE DeadEntry(d)
      BY <1>1, <2>1, <2>2 DEF DeadEntry, SeenAlive, EntryMoves, EntryReleased
    <2>3. CASE ~DeadEntry(d)
      <3>1. table'[d] = table[d] /\ (table[d].pid = 0 => table[d] = NoEntry)
        BY <2>1, <2>3 DEF BrowserInv, EntriesFormed
      <3> QED  BY <2>1, <3>1 DEF EntryMoves, EntryKept
    <2> QED  BY <2>1, <2>2, <2>3
  <1>4. /\ \A c \in Profile : EntryMoves(c) /\ table'[c].pid <= lastPid
        /\ table' \in [Profile -> Entry]
    BY <1>1, <1>2, <1>3, OneEntryMoves
  <1>5. stopper' \in [Pid -> Stopper] /\ \A p \in Pid : StopMoves(p)
    <2>1. CASE DeadEntry(d)
      BY <1>1, <1>2, <2>1, DetachMoves
    <2>2. CASE ~DeadEntry(d)
      <3>1. table' = table
        BY <1>1, <2>2 DEF BrowserInv, TypeOK
      <3> QED  BY <1>1, <2>2, <3>1, StillMoves DEF BrowserInv, TypeOK
    <2> QED  BY <2>1, <2>2
  <1>6. \A p \in Pid : Ages(p)
    BY <1>1, StillMoves
  <1> HIDE DEF entry
  <1>7. /\ launch' \in [Launcher -> Launch]
        /\ \A k \in Launcher : LaunchMoves(k)
        /\ \A k \in Launcher : launch'[k].pc = "idle" <=> launch'[k].profile = NoProfile
    <2>1. \A k \in Launcher \ {l} : launch[k].pc \in {"prepare", "reuse"} => launch[k].profile # d
      BY <1>1 DEF Locked
    <2>2. ASSUME NEW p \in Candidates(d), entry.pid \in {0, p}, Candidates(d) = {p},
                 launch' = [launch EXCEPT ![l] = Reused(p)]
          PROVE  <1>7!1 /\ <1>7!2 /\ <1>7!3
      <3>1. p \in Pid /\ proc[p].state = "live" /\ proc[p].profile = d
        BY <2>2 DEF Candidates, Live
      <3>2. /\ Reused(p) \in Launch /\ Reused(p).pc = "reuse" /\ Reused(p).profile = d
            /\ Reused(p).pid = p /\ Reused(p).existing = (entry # NoEntry)
        BY <3>1 DEF Launch
      <3> HIDE DEF Reused
      <3>3. /\ launch' \in [Launcher -> Launch] /\ launch'[l] = Reused(p)
            /\ \A k \in Launcher : k # l => launch'[k] = launch[k]
            /\ \A k \in Launcher : launch'[k].pc = "idle" <=> launch'[k].profile = NoProfile
            /\ LaunchMoves(l) => \A k \in Launcher : LaunchMoves(k)
        BY <2>2, <3>2, BrowserAssumption, OneCallMoves
      <3>4. proc[p].child => entry # NoEntry
        <4>1. proc[p].child => table[d].pid = p /\ ~DeadEntry(d) /\ p # 0
          BY <3>1, Parts DEF BrowserInv, ChildrenOwned, SeenAlive, DeadEntry
        <4> QED  BY <4>1, EmptyEntry DEF entry
      <3>5. LaunchBegins(l)
        BY <1>3, <2>1, <2>2, <3>1, <3>2, <3>3, <3>4 DEF LaunchBegins
      <3> QED  BY <3>3, <3>5 DEF LaunchMoves
    <2>3. ASSUME Candidates(d) = {}, entry = NoEntry, launch' = [launch EXCEPT ![l] = Fresh]
          PROVE  <1>7!1 /\ <1>7!2 /\ <1>7!3
      <3>1. Fresh \in Launch /\ Fresh.pc = "prepare" /\ Fresh.profile = d
        BY DEF Launch
      <3> HIDE DEF Fresh
      <3>2. /\ launch' \in [Launcher -> Launch] /\ launch'[l] = Fresh
            /\ \A k \in Launcher : k # l => launch'[k] = launch[k]
            /\ \A k \in Launcher : launch'[k].pc = "idle" <=> launch'[k].profile = NoProfile
            /\ LaunchMoves(l) => \A k \in Launcher : LaunchMoves(k)
        BY <2>3, <3>1, BrowserAssumption, OneCallMoves
      <3>3. LaunchBegins(l)
        BY <1>3, <2>1, <2>3, <3>1, <3>2, EmptyEntry DEF LaunchBegins
      <3> QED  BY <3>2, <3>3 DEF LaunchMoves
    <2>4. CASE launch' = launch
      BY <2>4, StillMoves DEF BrowserInv, TypeOK
    <2> QED  BY <1>1, <2>2, <2>3, <2>4
  <1>8. TypeOK'
    BY <1>1, <1>4, <1>5, <1>7 DEF BrowserInv, TypeOK
  <1> QED  BY <1>1, <1>4, <1>5, <1>6, <1>7, <1>8, MovesKeepAll

\* A verified browser goes on under a new entry object.
LEMMA FinishReuseKeeps ==
  ASSUME BrowserInv, NEW l \in Launcher, FinishReuse(l)
  PROVE  BrowserInv'
  <1> DEFINE d == launch[l].profile
             p == launch[l].pid
             seen == IF launch[l].existing THEN table[d] ELSE NoEntry
             e == [seen EXCEPT !.pid = p, !.chromium = TRUE]
  <1>1. /\ launch[l].pc = "reuse" /\ SeenAlive(p)
        /\ table' = [table EXCEPT ![d] = e]
        /\ stopper' = Detach(d)
        /\ launch' = [launch EXCEPT ![l] = IdleLaunch]
        /\ UNCHANGED <<proc, lastPid, admission, quit>>
    BY DEF FinishReuse
  <1>2. /\ d \in Profile /\ p \in Pid /\ proc[p].profile = d /\ Candidates(d) \subseteq {p}
        /\ table[d].pid \in {0, p} /\ (proc[p].child => launch[l].existing)
        /\ launch[l].existing \in BOOLEAN
    BY <1>1, Parts DEF BrowserInv, LaunchesFormed
  <1>3. seen \in Entry
    BY <1>2, Parts, EmptyEntry
  <1>4. /\ e \in Entry /\ e.pid = p /\ e.handle = seen.handle /\ e.stopping = seen.stopping
    BY <1>2, <1>3 DEF Entry
  <1>5. p <= lastPid
    BY <1>1, <1>2 DEF BrowserInv, ProcessesStarted, SeenAlive
  <1> HIDE DEF e, d, p
  <1>6. /\ table' \in [Profile -> Entry] /\ table'[d] = e
        /\ EntryMoves(d) => \A c \in Profile : EntryMoves(c)
        /\ \A c \in Profile : table'[c].pid <= lastPid
    BY <1>1, <1>2, <1>4, <1>5, OneEntryMoves
  <1>7. /\ launch' \in [Launcher -> Launch] /\ launch'[l] = IdleLaunch
        /\ \A k \in Launcher : k # l => launch'[k] = launch[k]
        /\ \A k \in Launcher : launch'[k].pc = "idle" <=> launch'[k].profile = NoProfile
        /\ LaunchMoves(l) => \A k \in Launcher : LaunchMoves(k)
    BY <1>1, IdleCall, OneCallMoves
  <1>8. \A k \in Launcher : LaunchMoves(k)
    BY <1>7 DEF LaunchMoves
  <1>9. EntryMoves(d)
    <2>1. CASE proc[p].child
      <3>1. table[d].pid = p /\ seen = table[d] /\ p # 0
        BY <1>1, <1>2, <2>1, Parts DEF BrowserInv, ChildrenOwned
      <3> QED  BY <1>4, <1>6, <3>1 DEF EntryMoves, EntryKept
    <2>2. CASE ~proc[p].child
      <3>1. \A k \in Launcher : launch'[k].pc \in {"prepare", "reuse"} => launch'[k].profile # d
        <4> SUFFICES ASSUME NEW k \in Launcher, launch'[k].pc \in {"prepare", "reuse"},
                            launch'[k].profile = d
                     PROVE  FALSE
          OBVIOUS
        <4>1. k # l /\ launch[k].pc \in {"prepare", "reuse"} /\ launch[k].profile = d
          BY <1>7, IdleCall
        <4> QED  BY <1>1, <4>1 DEF BrowserInv, LocksExclusive, d
      <3>2. EntryAdopts(d)
        BY <1>2, <1>4, <1>6, <2>2, <3>1 DEF EntryAdopts
      <3> QED  BY <3>2 DEF EntryMoves
    <2> QED  BY <2>1, <2>2
  <1>10. stopper' \in [Pid -> Stopper] /\ \A q \in Pid : StopMoves(q)
    BY <1>1, <1>2, <1>4, DetachMoves
  <1>11. TypeOK'
    BY <1>1, <1>6, <1>7, <1>10 DEF BrowserInv, TypeOK
  <1>12. \A q \in Pid : Ages(q)
    BY <1>1, StillMoves
  <1> QED  BY <1>1, <1>6, <1>8, <1>9, <1>10, <1>11, <1>12, MovesKeepAll


\* A launch that failed cleans up, but not the entry of a stop.
LEMMA FailLaunchKeeps ==
  ASSUME BrowserInv, NEW l \in Launcher, FailLaunch(l)
  PROVE  BrowserInv'
  <1> DEFINE d == launch[l].profile
             p == launch[l].pid
             c == [launch[l] EXCEPT !.pc = "cleanup"]
             e == IF Owns(d, p) THEN [table[d] EXCEPT !.stopping = TRUE] ELSE table[d]
  <1>1. /\ launch[l].pc = "verify" /\ UNCHANGED <<lastPid, stopper, admission, quit>>
        /\ \/ /\ Owns(d, p) /\ table[d].stopping
              /\ launch' = [launch EXCEPT ![l] = IdleLaunch]
              /\ UNCHANGED <<proc, table>>
           \/ /\ ~(Owns(d, p) /\ table[d].stopping)
              /\ launch' = [launch EXCEPT ![l].pc = "cleanup"]
              /\ table' = IF Owns(d, p) THEN [table EXCEPT ![d].stopping = TRUE] ELSE table
              /\ proc' = IF proc[p].state = "dead" THEN proc ELSE Send(p, "term")
    BY DEF FailLaunch
  <1>2. /\ d \in Profile /\ p \in Pid /\ p # 0 /\ proc[p].profile = d /\ proc[p].child
        /\ table \in [Profile -> Entry] /\ launch \in [Launcher -> Launch]
    BY <1>1, Parts DEF BrowserInv, LaunchesFormed, TypeOK
  <1>3. CASE Owns(d, p) /\ table[d].stopping /\ launch' = [launch EXCEPT ![l] = IdleLaunch]
             /\ UNCHANGED <<proc, table>>
    <2>1. /\ launch' \in [Launcher -> Launch] /\ launch'[l] = IdleLaunch
          /\ \A k \in Launcher : launch'[k].pc = "idle" <=> launch'[k].profile = NoProfile
          /\ LaunchMoves(l) => \A k \in Launcher : LaunchMoves(k)
      BY <1>3, IdleCall, OneCallMoves
    <2>2. \A k \in Launcher : LaunchMoves(k)
      BY <2>1 DEF LaunchMoves
    <2>3. TypeOK'
      BY <1>1, <1>3, <2>1 DEF BrowserInv, TypeOK
    <2>4. \A b \in Profile : EntryMoves(b)
      BY <1>3, StillMoves DEF EntryMoves
    <2> QED  BY <1>1, <1>3, <2>2, <2>3, <2>4, StillMoves, MovesKeepAll
  <1>4. CASE /\ ~(Owns(d, p) /\ table[d].stopping)
             /\ launch' = [launch EXCEPT ![l].pc = "cleanup"]
             /\ table' = IF Owns(d, p) THEN [table EXCEPT ![d].stopping = TRUE] ELSE table
             /\ proc' = IF proc[p].state = "dead" THEN proc ELSE Send(p, "term")
    <2>1. e \in Entry /\ e.pid = table[d].pid /\ e.handle = table[d].handle
          /\ (table[d].stopping => e.stopping) /\ (table[d].pid = p => e.stopping)
      <3>1. CASE Owns(d, p)
        <4>1. e = [table[d] EXCEPT !.stopping = TRUE] /\ table[d] \in Entry
          BY <1>2, <3>1
        <4> HIDE DEF e
        <4> QED  BY <4>1 DEF Entry
      <3>2. CASE ~Owns(d, p)
        <4>1. e = table[d] /\ table[d] \in Entry
          BY <1>2, <3>2
        <4>2. table[d].pid # p
          BY <1>2, <3>2 DEF Owns, BrowserInv, EntriesFormed
        <4> HIDE DEF e
        <4> QED  BY <4>1, <4>2
      <3> QED  BY <3>1, <3>2
    <2>2. table' = [table EXCEPT ![d] = e]
      BY <1>2, <1>4
    <2>3. /\ c \in Launch /\ c.pc = "cleanup" /\ c.profile = d /\ c.pid = p
      BY <1>2 DEF Launch
    <2>4. launch' = [launch EXCEPT ![l] = c]
      BY <1>4
    <2>5. ~stopper[p].current
      BY <1>2, <1>4, Parts DEF BrowserInv, StopsCurrent, EntriesFormed, Owns
    <2>6. e.pid <= lastPid /\ (e.pid = 0 => e = NoEntry) /\ d # NoProfile
      BY <1>2, <2>1, BrowserAssumption DEF BrowserInv, TypeOK, EntriesFormed, Owns
    <2>7. proc' \in [Pid -> Process] /\ \A q \in Pid : Ages(q)
      BY <1>2, <1>4, SendMoves, StillMoves DEF BrowserInv, TypeOK
    <2> HIDE DEF c, e, d, p
    <2>8. /\ table' \in [Profile -> Entry] /\ table'[d] = e
          /\ \A b \in Profile : b # d => table'[b] = table[b]
          /\ EntryMoves(d) => \A b \in Profile : EntryMoves(b)
          /\ \A b \in Profile : table'[b].pid <= lastPid
      BY <1>2, <2>1, <2>2, <2>6, OneEntryMoves
    <2>9. EntryMoves(d)
      BY <2>1, <2>6, <2>8 DEF EntryMoves, EntryKept
    <2>10. /\ launch' \in [Launcher -> Launch] /\ launch'[l] = c
           /\ \A k \in Launcher : launch'[k].pc = "idle" <=> launch'[k].profile = NoProfile
           /\ LaunchMoves(l) => \A k \in Launcher : LaunchMoves(k)
      BY <2>3, <2>4, <2>6, OneCallMoves
    <2>11. LaunchMoves(l)
      <3>1. launch'[l].pc = "cleanup" /\ launch'[l].profile = d /\ launch'[l].pid = p
        BY <2>3, <2>10
      <3>2. (table'[d].pid = p => table'[d].stopping) /\ ~stopper'[p].current
        BY <1>1, <2>1, <2>5, <2>8
      <3>3. LaunchCleansUp(l)
        BY <1>1, <3>1, <3>2 DEF LaunchCleansUp, d, p
      <3> QED  BY <3>3 DEF LaunchMoves
    <2>12. \A q \in Pid : StopMoves(q)
      <3> SUFFICES ASSUME NEW q \in Pid, stopper'[q].current
                   PROVE  /\ stopper[q].current /\ proc[q].profile \in Profile
                          /\ table'[proc[q].profile].pid = q /\ table'[proc[q].profile].stopping
        BY DEF StopMoves
      <3>1. /\ stopper[q].current /\ proc[q].profile \in Profile
            /\ table[proc[q].profile].pid = q /\ table[proc[q].profile].stopping
        BY <1>1 DEF BrowserInv, StopsCurrent
      <3> QED  BY <2>1, <2>8, <3>1
    <2>13. TypeOK'
      BY <1>1, <2>7, <2>8, <2>10 DEF BrowserInv, TypeOK
    <2> QED  BY <1>1, <2>7, <2>8, <2>9, <2>10, <2>11, <2>12, <2>13, MovesKeepAll
  <1> QED  BY <1>1, <1>3, <1>4

\* The cleanup gives the entry up once the child is dead.
LEMMA FinishCleanupKeeps ==
  ASSUME BrowserInv, NEW l \in Launcher, FinishCleanup(l)
  PROVE  BrowserInv'
  <1> DEFINE d == launch[l].profile
             p == launch[l].pid
             e == IF Owns(d, p) /\ proc[p].state = "dead" THEN NoEntry ELSE table[d]
  <1>1. /\ launch[l].pc = "cleanup" /\ launch' = [launch EXCEPT ![l] = IdleLaunch]
        /\ UNCHANGED <<lastPid, stopper, admission, quit>>
        /\ IF proc[p].state = "dead"
           THEN /\ proc' = proc
                /\ table' = IF Owns(d, p) THEN [table EXCEPT ![d] = NoEntry] ELSE table
           ELSE proc' = Send(p, "kill") /\ table' = table
    BY DEF FinishCleanup
  <1>2. /\ d \in Profile /\ p \in Pid /\ p # 0 /\ proc[p].profile = d
        /\ table \in [Profile -> Entry] /\ ~stopper[p].current
    BY <1>1, Parts DEF BrowserInv, LaunchesFormed, TypeOK
  <1>3. e \in Entry /\ table' = [table EXCEPT ![d] = e] /\ e.pid <= lastPid
    BY <1>1, <1>2, Parts, EmptyEntry DEF BrowserInv, TypeOK
  <1>4. \/ e = NoEntry /\ table[d].pid = p /\ proc[p].state = "dead" /\ proc' = proc
        \/ e = table[d]
    BY <1>1 DEF Owns
  <1>5. proc' \in [Pid -> Process] /\ \A q \in Pid : Ages(q)
    BY <1>1, <1>2, SendMoves, StillMoves DEF BrowserInv, TypeOK
  <1> HIDE DEF e, d, p
  <1>6. /\ table' \in [Profile -> Entry] /\ table'[d] = e
        /\ \A b \in Profile : b # d => table'[b] = table[b]
        /\ EntryMoves(d) => \A b \in Profile : EntryMoves(b)
        /\ \A b \in Profile : table'[b].pid <= lastPid
    BY <1>2, <1>3, OneEntryMoves
  <1>7. EntryMoves(d)
    BY <1>2, <1>4, <1>6 DEF EntryMoves, EntryKept, EntryReleased, BrowserInv, EntriesFormed
  <1>8. \A q \in Pid : StopMoves(q)
    <2> SUFFICES ASSUME NEW q \in Pid, stopper'[q].current
                 PROVE  /\ stopper[q].current /\ proc[q].profile \in Profile
                        /\ table'[proc[q].profile].pid = q /\ table'[proc[q].profile].stopping
      BY DEF StopMoves
    <2>1. /\ stopper[q].current /\ proc[q].profile \in Profile
          /\ table[proc[q].profile].pid = q /\ table[proc[q].profile].stopping
      BY <1>1 DEF BrowserInv, StopsCurrent
    <2> QED  BY <1>2, <1>4, <1>6, <2>1
  <1>9. /\ launch' \in [Launcher -> Launch] /\ launch'[l] = IdleLaunch
        /\ \A k \in Launcher : launch'[k].pc = "idle" <=> launch'[k].profile = NoProfile
        /\ LaunchMoves(l) => \A k \in Launcher : LaunchMoves(k)
    BY <1>1, IdleCall, OneCallMoves
  <1>10. \A k \in Launcher : LaunchMoves(k)
    BY <1>9 DEF LaunchMoves
  <1>11. TypeOK'
    BY <1>1, <1>5, <1>6, <1>9 DEF BrowserInv, TypeOK
  <1> QED  BY <1>1, <1>5, <1>6, <1>7, <1>8, <1>10, <1>11, MovesKeepAll

-----------------------------------------------------------------------------
(* The operating system *)

LEMMA StateMoves ==
  ASSUME BrowserInv, NEW p \in Pid, NEW s \in {"zombie", "gone", "dead"},
         proc[p].state # "none", s = "zombie" => proc[p].state = "live",
         proc' = [proc EXCEPT ![p].state = s]
  PROVE  /\ proc' \in [Pid -> Process] /\ \A q \in Pid : Ages(q)
         /\ proc'[p].state = s
  <1> DEFINE next == [proc[p] EXCEPT !.state = s]
  <1>1. proc \in [Pid -> Process] /\ proc[p] \in Process
    BY DEF BrowserInv, TypeOK
  <1>2. /\ next \in Process /\ next.state = s /\ next.profile = proc[p].profile
        /\ next.child = proc[p].child
    BY <1>1 DEF Process, ProcState
  <1>3. proc' = [proc EXCEPT ![p] = next]
    OBVIOUS
  <1> HIDE DEF next
  <1>4. proc' \in [Pid -> Process] /\ proc'[p] = next /\ \A q \in Pid : q # p => proc'[q] = proc[q]
    BY <1>1, <1>2, <1>3, Zenon
  <1> QED  BY <1>2, <1>4 DEF Ages

\* A process may exit at any time; its entry stays until somebody notices.
LEMMA ProcessExitKeeps ==
  ASSUME BrowserInv, NEW p \in Pid, ProcessExit(p)
  PROVE  BrowserInv'
  <1>1. /\ proc[p].state = "live" /\ UNCHANGED <<lastPid, table, stopper, launch, admission, quit>>
        /\ \E s \in {"zombie", "gone", "dead"} : proc' = [proc EXCEPT ![p].state = s]
    BY DEF ProcessExit, Live
  <1>2. proc' \in [Pid -> Process] /\ \A q \in Pid : Ages(q)
    BY <1>1, StateMoves
  <1>3. TypeOK'
    BY <1>1, <1>2 DEF BrowserInv, TypeOK
  <1>4. \A d \in Profile : EntryMoves(d)
    BY <1>1, StillMoves DEF EntryMoves
  <1> QED  BY <1>1, <1>2, <1>3, <1>4, StillMoves, MovesKeepAll

\* The exit handler releases the entry of its own process only.
LEMMA ExitEventKeeps ==
  ASSUME BrowserInv, NEW p \in Pid, ExitEvent(p)
  PROVE  BrowserInv'
  <1> DEFINE d == proc[p].profile
  <1>1. /\ proc[p].state \in {"zombie", "gone"} /\ proc' = [proc EXCEPT ![p].state = "dead"]
        /\ UNCHANGED <<lastPid, launch, admission, quit>>
        /\ \/ Owns(d, p) /\ table' = [table EXCEPT ![d] = NoEntry] /\ stopper' = Detach(d)
           \/ UNCHANGED <<table, stopper>>
    BY DEF ExitEvent
  <1>2. d \in Profile
    BY <1>1 DEF BrowserInv, ProcessesStarted
  <1>3. proc' \in [Pid -> Process] /\ \A q \in Pid : Ages(q) /\ proc'[p].state = "dead"
    BY <1>1, StateMoves
  <1> HIDE DEF d
  <1>4. CASE Owns(d, p) /\ table' = [table EXCEPT ![d] = NoEntry] /\ stopper' = Detach(d)
    <2>1. /\ table' \in [Profile -> Entry] /\ table'[d] = NoEntry
          /\ EntryMoves(d) => \A b \in Profile : EntryMoves(b)
          /\ \A b \in Profile : table'[b].pid <= lastPid
      <3>1. NoEntry \in Entry /\ NoEntry.pid <= lastPid
        BY EmptyEntry, Parts
      <3> QED  BY <1>2, <1>4, <3>1, OneEntryMoves
    <2>2. EntryMoves(d)
      BY <1>3, <1>4, <2>1 DEF EntryMoves, EntryReleased, Owns
    <2>3. stopper' \in [Pid -> Stopper] /\ \A q \in Pid : StopMoves(q)
      BY <1>2, <1>4, EmptyEntry, DetachMoves
    <2>4. TypeOK'
      BY <1>1, <1>3, <2>1, <2>3 DEF BrowserInv, TypeOK
    <2> QED  BY <1>1, <1>3, <2>1, <2>2, <2>3, <2>4, StillMoves, MovesKeepAll
  <1>5. CASE UNCHANGED <<table, stopper>>
    <2>1. TypeOK'
      BY <1>1, <1>3, <1>5 DEF BrowserInv, TypeOK
    <2>2. \A b \in Profile : EntryMoves(b)
      BY <1>5, StillMoves DEF EntryMoves
    <2> QED  BY <1>1, <1>3, <1>5, <2>1, <2>2, StillMoves, MovesKeepAll
  <1> QED  BY <1>1, <1>4, <1>5


-----------------------------------------------------------------------------
(* Stops and status *)

\* What stopBrowser may adopt is no child of this session: a child has its entry.
LEMMA ResidueIsForeign ==
  ASSUME BrowserInv, NEW d \in Profile, NEW p \in Candidates(d), table[d] = NoEntry \/ DeadEntry(d)
  PROVE  p \in Pid /\ proc[p].state = "live" /\ proc[p].profile = d /\ ~proc[p].child
  <1>1. p \in Pid /\ proc[p].state = "live" /\ proc[p].profile = d
    BY DEF Candidates, Live
  <1>2. proc[p].child => table[d].pid = p /\ SeenAlive(p)
    BY <1>1 DEF BrowserInv, ChildrenOwned, SeenAlive
  <1>3. p # 0
    BY <1>1, Parts
  <1> QED  BY <1>1, <1>2, <1>3, EmptyEntry DEF DeadEntry

\* An accepted stop owns the stopping entry.
LEMMA StopBrowserKeeps ==
  ASSUME BrowserInv, NEW d \in Profile, StopBrowser(d)
  PROVE  BrowserInv'
  <1>1. /\ ~table[d].stopping /\ UNCHANGED <<lastPid, launch, admission, quit>>
        /\ table \in [Profile -> Entry] /\ stopper \in [Pid -> Stopper]
    BY DEF StopBrowser, BrowserInv, TypeOK
  <1>2. PICK p \in IF table[d] = NoEntry THEN Candidates(d) ELSE {table[d].pid} :
          IF SeenAlive(p)
          THEN /\ table' = [table EXCEPT ![d].pid = p, ![d].stopping = TRUE]
               /\ stopper' = [stopper EXCEPT ![p] = [phase |-> FirstPhase(table[d]), current |-> TRUE]]
               /\ proc' = IF table[d].chromium THEN proc ELSE Send(p, "term")
          ELSE /\ table' = [table EXCEPT ![d] = NoEntry]
               /\ stopper' = Detach(d)
               /\ proc' = proc
    BY DEF StopBrowser
  <1>3. /\ p \in Pid /\ proc[p].profile = d
        /\ \/ table[d] = NoEntry /\ ~proc[p].child /\ proc[p].state = "live"
           \/ table[d].pid = p
    <2>1. CASE table[d] = NoEntry
      BY <1>2, <2>1, ResidueIsForeign
    <2>2. CASE table[d] # NoEntry
      <3>1. p = table[d].pid /\ p # 0
        BY <1>2, <2>2 DEF BrowserInv, EntriesFormed
      <3> QED  BY <3>1, Parts DEF BrowserInv, EntriesFormed
    <2> QED  BY <2>1, <2>2
  <1>4. CASE SeenAlive(p)
    <2> DEFINE e == [table[d] EXCEPT !.pid = p, !.stopping = TRUE]
               stop == [phase |-> FirstPhase(table[d]), current |-> TRUE]
    <2>1. /\ table' = [table EXCEPT ![d] = e]
          /\ stopper' = [stopper EXCEPT ![p] = stop]
      BY <1>1, <1>2, <1>4
    <2>2. /\ e \in Entry /\ e.pid = p /\ e.stopping = TRUE /\ e.handle = table[d].handle
      BY <1>1, <1>3 DEF Entry
    <2>3. stop \in Stopper /\ stop.current = TRUE
      BY DEF Stopper, FirstPhase
    <2> HIDE DEF e, stop
    <2>4. e.pid <= lastPid
      BY <1>3, <1>4, <2>2 DEF BrowserInv, ProcessesStarted, SeenAlive
    <2>5. /\ table' \in [Profile -> Entry] /\ table'[d] = e
          /\ \A b \in Profile : b # d => table'[b] = table[b]
          /\ EntryMoves(d) => \A b \in Profile : EntryMoves(b)
          /\ \A b \in Profile : table'[b].pid <= lastPid
      BY <2>1, <2>2, <2>4, OneEntryMoves
    <2>6. EntryMoves(d)
      <3>1. CASE table[d].pid = p
        BY <1>3, <2>2, <2>5, <3>1, Parts DEF EntryMoves, EntryKept
      <3>2. CASE table[d] = NoEntry /\ ~proc[p].child /\ proc[p].state = "live"
        BY <1>3, <2>2, <2>5, <3>2, EmptyEntry DEF EntryMoves, EntryAdopts
      <3> QED  BY <1>3, <3>1, <3>2
    <2>7. proc' \in [Pid -> Process] /\ \A q \in Pid : Ages(q)
      BY <1>2, <1>3, <1>4, SendMoves, StillMoves DEF BrowserInv, TypeOK
    <2>8. stopper' \in [Pid -> Stopper] /\ stopper'[p] = stop
          /\ \A q \in Pid : q # p => stopper'[q] = stopper[q]
      BY <1>1, <1>3, <2>1, <2>3
    <2>9. ASSUME NEW q \in Pid
          PROVE  StopMoves(q)
      <3>1. CASE q = p
        BY <1>1, <1>3, <2>2, <2>5, <3>1 DEF StopMoves
      <3>2. CASE q # p
        <4> SUFFICES ASSUME stopper[q].current
                     PROVE  /\ proc[q].profile \in Profile
                            /\ table'[proc[q].profile].pid = q /\ table'[proc[q].profile].stopping
          BY <2>8, <3>2 DEF StopMoves
        <4>1. /\ proc[q].profile \in Profile
              /\ table[proc[q].profile].pid = q /\ table[proc[q].profile].stopping
          BY DEF BrowserInv, StopsCurrent
        <4> QED  BY <1>1, <2>5, <4>1
      <3> QED  BY <3>1, <3>2
    <2>10. TypeOK'
      BY <1>1, <2>5, <2>7, <2>8 DEF BrowserInv, TypeOK
    <2> QED  BY <1>1, <2>5, <2>6, <2>7, <2>9, <2>10, StillMoves, MovesKeepAll
  <1>5. CASE ~SeenAlive(p)
    <2>1. NoEntry \in Entry /\ NoEntry.pid <= lastPid
      BY EmptyEntry, Parts
    <2>2. /\ table' \in [Profile -> Entry] /\ table'[d] = NoEntry
          /\ EntryMoves(d) => \A b \in Profile : EntryMoves(b)
          /\ \A b \in Profile : table'[b].pid <= lastPid
      BY <1>2, <1>5, <2>1, OneEntryMoves
    <2>3. EntryMoves(d)
      BY <1>2, <1>3, <1>5, <2>2 DEF EntryMoves, EntryReleased, SeenAlive
    <2>4. stopper' \in [Pid -> Stopper] /\ \A q \in Pid : StopMoves(q)
      BY <1>2, <1>5, <2>1, DetachMoves
    <2>5. TypeOK'
      BY <1>1, <1>2, <1>5, <2>2, <2>4 DEF BrowserInv, TypeOK
    <2> QED  BY <1>1, <1>2, <1>5, <2>2, <2>3, <2>4, <2>5, StillMoves, MovesKeepAll
  <1> QED  BY <1>4, <1>5

\* A status call drops a dead entry or adopts the one process discovery finds.
LEMMA StatusBrowserKeeps ==
  ASSUME BrowserInv, NEW d \in Profile, StatusBrowser(d)
  PROVE  BrowserInv'
  <1>1. /\ table[d] = NoEntry \/ DeadEntry(d)
        /\ stopper' = Detach(d)
        /\ UNCHANGED <<proc, lastPid, launch, admission, quit>>
        /\ \/ table[d] # NoEntry /\ table' = [table EXCEPT ![d] = NoEntry]
           \/ \E p \in Pid : /\ Candidates(d) = {p}
                             /\ table' = [table EXCEPT ![d] = [NoEntry EXCEPT !.pid = p]]
    BY DEF StatusBrowser
  <1> DEFINE Left(e) == /\ table' = [table EXCEPT ![d] = e] /\ e.pid <= lastPid
                        /\ \/ e = NoEntry /\ DeadEntry(d)
                           \/ /\ e.pid \in Pid /\ proc[e.pid].profile = d
                              /\ ~proc[e.pid].child /\ proc[e.pid].state = "live"
  <1>2. PICK e \in Entry : Left(e)
    <2>1. CASE table[d] # NoEntry /\ table' = [table EXCEPT ![d] = NoEntry]
      <3>1. NoEntry \in Entry /\ NoEntry.pid <= lastPid
        BY EmptyEntry, Parts
      <3> QED  BY <1>1, <2>1, <3>1
    <2>2. ASSUME NEW p \in Pid, Candidates(d) = {p},
                 table' = [table EXCEPT ![d] = [NoEntry EXCEPT !.pid = p]]
          PROVE  \E e \in Entry : Left(e)
      <3> DEFINE new == [NoEntry EXCEPT !.pid = p]
      <3>1. new \in Entry /\ new.pid = p
        BY EmptyEntry DEF Entry
      <3>2. proc[p].profile = d /\ ~proc[p].child /\ proc[p].state = "live"
        BY <1>1, <2>2, ResidueIsForeign
      <3>3. new.pid <= lastPid
        BY <3>1, <3>2 DEF BrowserInv, ProcessesStarted
      <3>4. table' = [table EXCEPT ![d] = new]
        BY <2>2
      <3> HIDE DEF new
      <3>5. Left(new)
        BY <3>1, <3>2, <3>3, <3>4
      <3> QED  BY <3>1, <3>5
    <2> QED  BY <1>1, <2>1, <2>2
  <1>3. /\ table' \in [Profile -> Entry] /\ table'[d] = e
        /\ EntryMoves(d) => \A b \in Profile : EntryMoves(b)
        /\ \A b \in Profile : table'[b].pid <= lastPid
    BY <1>2, OneEntryMoves
  <1>4. EntryMoves(d)
    <2>1. CASE e = NoEntry /\ DeadEntry(d)
      BY <1>1, <1>3, <2>1 DEF EntryMoves, EntryReleased, DeadEntry, SeenAlive
    <2>2. CASE e.pid \in Pid /\ proc[e.pid].profile = d /\ ~proc[e.pid].child /\ proc[e.pid].state = "live"
      BY <1>1, <1>3, <2>2, EmptyEntry DEF EntryMoves, EntryAdopts, DeadEntry, SeenAlive
    <2> QED  BY <1>2, <2>1, <2>2
  <1>5. stopper' \in [Pid -> Stopper] /\ \A q \in Pid : StopMoves(q)
    BY <1>1, <1>2, DetachMoves
  <1>6. TypeOK'
    BY <1>1, <1>3, <1>5 DEF BrowserInv, TypeOK
  <1> QED  BY <1>1, <1>3, <1>4, <1>5, <1>6, StillMoves, MovesKeepAll


\* releaseExited clears the entry of its own process only.
LEMMA ReleaseExitedKeeps ==
  ASSUME BrowserInv, NEW p \in Pid, ReleaseExited(p)
  PROVE  BrowserInv'
  <1> DEFINE d == proc[p].profile
             stop == [phase |-> "finished", current |-> FALSE]
  <1>1. /\ ~stopper[p].current \/ ~SeenAlive(p)
        /\ table' = IF stopper[p].current THEN [table EXCEPT ![d] = NoEntry] ELSE table
        /\ stopper' = [stopper EXCEPT ![p] = stop]
        /\ UNCHANGED <<proc, lastPid, launch, admission, quit>>
    BY DEF ReleaseExited
  <1>2. /\ stop \in Stopper /\ stop.current = FALSE
        /\ stopper \in [Pid -> Stopper] /\ table \in [Profile -> Entry]
    BY DEF Stopper, BrowserInv, TypeOK
  <1> HIDE DEF stop, d
  <1>3. stopper' \in [Pid -> Stopper] /\ stopper'[p] = stop
        /\ \A q \in Pid : q # p => stopper'[q] = stopper[q]
    BY <1>1, <1>2
  <1>4. /\ table' \in [Profile -> Entry]
        /\ \A c \in Profile : EntryMoves(c) /\ table'[c].pid <= lastPid
        /\ \A c \in Profile : table[c].pid # p => table'[c] = table[c]
    <2>1. CASE stopper[p].current
      <3>1. d \in Profile /\ table[d].pid = p /\ proc[p].state \notin {"live", "zombie"}
        BY <1>1, <2>1 DEF d, BrowserInv, StopsCurrent, SeenAlive
      <3>2. NoEntry \in Entry /\ NoEntry.pid <= lastPid
        BY EmptyEntry, Parts
      <3>3. /\ table' \in [Profile -> Entry] /\ table'[d] = NoEntry
            /\ \A c \in Profile : c # d => table'[c] = table[c]
            /\ EntryMoves(d) => \A c \in Profile : EntryMoves(c)
            /\ \A c \in Profile : table'[c].pid <= lastPid
        BY <1>1, <2>1, <3>1, <3>2, OneEntryMoves
      <3>4. EntryMoves(d)
        BY <1>1, <3>1, <3>3 DEF EntryMoves, EntryReleased
      <3> QED  BY <3>1, <3>3, <3>4
    <2>2. CASE ~stopper[p].current
      <3>1. table' = table
        BY <1>1, <2>2
      <3> QED  BY <1>2, <3>1, StillMoves DEF EntryMoves, BrowserInv, TypeOK
    <2> QED  BY <2>1, <2>2
  <1>5. ASSUME NEW q \in Pid
        PROVE  StopMoves(q)
    <2> SUFFICES ASSUME stopper'[q].current
                 PROVE  /\ stopper[q].current /\ proc[q].profile \in Profile
                        /\ table'[proc[q].profile].pid = q /\ table'[proc[q].profile].stopping
      BY DEF StopMoves
    <2>1. q # p /\ stopper[q].current
      BY <1>2, <1>3
    <2>2. /\ proc[q].profile \in Profile
          /\ table[proc[q].profile].pid = q /\ table[proc[q].profile].stopping
      BY <2>1 DEF BrowserInv, StopsCurrent
    <2> QED  BY <1>4, <2>1, <2>2
  <1>6. TypeOK'
    BY <1>1, <1>3, <1>4 DEF BrowserInv, TypeOK
  <1> QED  BY <1>1, <1>4, <1>5, <1>6, StillMoves, MovesKeepAll

\* The phases of a stop signal a process; its exit is noticed later.
LEMMA SignalKeeps ==
  ASSUME BrowserInv, NEW p \in Pid, Fallback(p) \/ Escalate(p)
  PROVE  BrowserInv'
  <1>1. PICK phase \in {"signal", "finished"}, s \in {"term", "kill"} :
          stopper' = [stopper EXCEPT ![p].phase = phase] /\ proc' = Send(p, s)
    BY DEF Fallback, Escalate
  <1>2. UNCHANGED <<lastPid, table, launch, admission, quit>>
    BY DEF Fallback, Escalate
  <1>3. proc' \in [Pid -> Process] /\ \A q \in Pid : Ages(q)
    BY <1>1, SendMoves
  <1>4. stopper' \in [Pid -> Stopper] /\ \A q \in Pid : stopper'[q].current = stopper[q].current
    BY <1>1 DEF BrowserInv, TypeOK, Stopper
  <1>5. \A q \in Pid : StopMoves(q)
    BY <1>2, <1>4 DEF BrowserInv, StopsCurrent, StopMoves
  <1>6. TypeOK'
    BY <1>2, <1>3, <1>4 DEF BrowserInv, TypeOK
  <1>7. \A d \in Profile : EntryMoves(d)
    BY <1>2, StillMoves DEF EntryMoves
  <1> QED  BY <1>2, <1>3, <1>5, <1>6, <1>7, StillMoves, MovesKeepAll

-----------------------------------------------------------------------------
(* Shutdown *)

LEMMA BeginQuitKeeps ==
  ASSUME BrowserInv, BeginQuit
  PROVE  BrowserInv'
  <1>1. /\ quit' = [quit EXCEPT !.phase = "closing"] /\ admission' = FALSE
        /\ UNCHANGED <<proc, lastPid, table, stopper, launch>>
    BY DEF BeginQuit
  <1>2. quit' \in Quit /\ quit'.phase = "closing"
    BY <1>1 DEF BrowserInv, TypeOK, Quit
  <1>3. TypeOK'
    BY <1>1, <1>2 DEF BrowserInv, TypeOK
  <1>4. \A d \in Profile : EntryMoves(d)
    BY <1>1, StillMoves DEF EntryMoves
  <1>5. /\ ProcessesStarted' /\ EntriesFormed' /\ ChildrenOwned' /\ StopsCurrent'
        /\ LaunchesFormed' /\ LocksExclusive' /\ OneBrowserPerProfile'
    BY <1>1, <1>3, <1>4, StillMoves, MovesKeep
  <1>6. ShutdownTracks'
    BY <1>1, <1>2 DEF ShutdownTracks, CleanShutdownIsTrue
  <1> QED  BY <1>3, <1>5, <1>6 DEF BrowserInv

\* The snapshot tracks every child that lives: it has its entry.
LEMMA BeginShutdownKeeps ==
  ASSUME BrowserInv, BeginShutdown
  PROVE  BrowserInv'
  <1> DEFINE pids == {table[d].pid : d \in Profile} \ {0}
             stops(p) == \E d \in Profile : table[d].pid = p /\ ~table[d].stopping
             entry(p) == CHOOSE e \in {table[d] : d \in Profile} : e.pid = p
             begun(p) == [phase |-> FirstPhase(entry(p)), current |-> TRUE]
             signals(p) == /\ stops(p) /\ SeenAlive(p) /\ ~entry(p).chromium
                           /\ proc[p].signal = "none"
  <1>1. /\ quit.phase = "closing" /\ quit' = [quit EXCEPT !.phase = "waiting", !.tracked = pids]
        /\ table' = [d \in Profile |->
             IF table[d].pid \in pids /\ ~DeadEntry(d)
             THEN [table[d] EXCEPT !.stopping = TRUE] ELSE NoEntry]
        /\ stopper' = [p \in Pid |->
             IF p \in pids /\ ~SeenAlive(p) THEN [stopper[p] EXCEPT !.current = FALSE]
             ELSE IF stops(p) THEN begun(p) ELSE stopper[p]]
        /\ proc' = [p \in Pid |-> IF signals(p) THEN [proc[p] EXCEPT !.signal = "term"] ELSE proc[p]]
        /\ UNCHANGED <<lastPid, launch, admission>>
    BY DEF BeginShutdown
  <1>2. \A p : begun(p) \in Stopper
    BY DEF Stopper, FirstPhase
  <1>3. proc' \in [Pid -> Process] /\ \A p \in Pid : Ages(p)
    <2> HIDE DEF signals
    <2>1. ASSUME NEW p \in Pid
          PROVE  proc'[p] \in Process /\ Ages(p)
      <3>1. /\ [proc[p] EXCEPT !.signal = "term"] \in Process /\ proc[p] \in Process
            /\ [proc[p] EXCEPT !.signal = "term"].state = proc[p].state
            /\ [proc[p] EXCEPT !.signal = "term"].profile = proc[p].profile
            /\ [proc[p] EXCEPT !.signal = "term"].child = proc[p].child
        BY DEF BrowserInv, TypeOK, Process
      <3>2. proc'[p] \in {proc[p], [proc[p] EXCEPT !.signal = "term"]}
        BY <1>1
      <3> QED  BY <3>1, <3>2 DEF Ages
    <2> QED  BY <1>1, <2>1
  <1> HIDE DEF signals, begun
  <1>4. ASSUME NEW d \in Profile
        PROVE  /\ table'[d] \in Entry /\ table'[d].pid <= lastPid /\ EntryMoves(d)
               /\ table[d].pid # 0 /\ SeenAlive(table[d].pid) =>
                    table'[d].pid = table[d].pid /\ table'[d].stopping
    <2> DEFINE e == [table[d] EXCEPT !.stopping = TRUE]
    <2>1. /\ e \in Entry /\ e.pid = table[d].pid /\ e.handle = table[d].handle /\ e.stopping = TRUE
      BY Parts DEF Entry
    <2>2. NoEntry \in Entry /\ NoEntry.pid <= lastPid /\ table[d].pid <= lastPid
          /\ table[d].pid \in Pid \cup {0}
      BY EmptyEntry, Parts DEF BrowserInv, TypeOK
    <2>3. CASE table[d].pid # 0 /\ SeenAlive(table[d].pid)
      <3>1. table'[d] = e
        BY <1>1, <2>3 DEF DeadEntry
      <3> HIDE DEF e
      <3> QED  BY <2>1, <2>2, <2>3, <3>1 DEF EntryMoves, EntryKept
    <2>4. CASE ~(table[d].pid # 0 /\ SeenAlive(table[d].pid))
      <3>1. table'[d] = NoEntry
        BY <1>1, <2>4 DEF DeadEntry
      <3>2. EntryReleased(d)
        BY <1>3, <2>2, <2>4, <3>1 DEF EntryReleased, Ages, SeenAlive
      <3> QED  BY <2>2, <2>4, <3>1, <3>2 DEF EntryMoves
    <2> QED  BY <2>3, <2>4
  <1>5. ASSUME NEW p \in Pid
        PROVE  stopper'[p] \in Stopper /\ StopMoves(p)
    <2>1. /\ stopper[p] \in Stopper /\ [stopper[p] EXCEPT !.current = FALSE] \in Stopper
          /\ [stopper[p] EXCEPT !.current = FALSE].current = FALSE
      BY DEF BrowserInv, TypeOK, Stopper
    <2>2. stopper'[p] \in Stopper
      BY <1>1, <1>2, <2>1
    <2>3. ASSUME stopper'[p].current
          PROVE  /\ SeenAlive(p)
                 /\ stopper[p].current \/ stops(p)
                 /\ p \in pids
      <3>1. CASE stops(p)
        <4>1. p \in pids
          BY <3>1, Parts
        <4> QED  BY <1>1, <2>1, <2>3, <3>1, <4>1
      <3>2. CASE ~stops(p)
        <4>1. ~(p \in pids /\ ~SeenAlive(p)) /\ stopper[p].current
          BY <1>1, <2>1, <2>3, <3>2
        <4>2. p \in pids
          BY <4>1, Parts DEF BrowserInv, StopsCurrent
        <4> QED  BY <4>1, <4>2
      <3> QED  BY <3>1, <3>2
    <2>4. StopMoves(p)
      <3> SUFFICES ASSUME stopper'[p].current
                   PROVE  /\ proc[p].profile \in Profile
                          /\ table'[proc[p].profile].pid = p /\ table'[proc[p].profile].stopping
                          /\ stopper[p].current \/
                               (table[proc[p].profile].pid = p /\ ~table[proc[p].profile].stopping)
        BY DEF StopMoves
      <3>1. SeenAlive(p) /\ (stopper[p].current \/ stops(p)) /\ p # 0
        BY <2>3, Parts
      <3>2. /\ proc[p].profile \in Profile /\ table[proc[p].profile].pid = p
            /\ stopper[p].current \/ ~table[proc[p].profile].stopping
        BY <3>1 DEF BrowserInv, StopsCurrent, EntriesFormed
      <3> QED  BY <1>4, <3>1, <3>2
    <2> QED  BY <2>2, <2>4
  <1>6. /\ table' \in [Profile -> Entry] /\ stopper' \in [Pid -> Stopper]
    BY <1>1, <1>4, <1>5
  <1>7. pids \subseteq Pid
    BY Parts
  <1> HIDE DEF pids
  <1>8. quit' \in Quit /\ quit'.phase = "waiting" /\ quit'.tracked = pids
    BY <1>1, <1>7 DEF BrowserInv, TypeOK, Quit
  <1>9. TypeOK'
    BY <1>1, <1>3, <1>4, <1>6, <1>8 DEF BrowserInv, TypeOK
  <1>10. \A l \in Launcher : LaunchMoves(l)
    BY <1>1, StillMoves
  <1>11. /\ ProcessesStarted' /\ EntriesFormed' /\ ChildrenOwned' /\ StopsCurrent'
         /\ LaunchesFormed' /\ LocksExclusive' /\ OneBrowserPerProfile'
    BY <1>1, <1>3, <1>4, <1>5, <1>9, <1>10, MovesKeep
  <1>12. ShutdownTracks'
    <2>1. ~admission'
      BY <1>1 DEF BrowserInv, ShutdownTracks
    <2>2. ASSUME NEW p \in Pid, Live(p)', proc'[p].child
          PROVE  p \in quit'.tracked
      <3>1. SeenAlive(p) /\ proc[p].child /\ proc[p].state # "none"
        BY <1>3, <2>2 DEF Ages, Live, SeenAlive
      <3>2. proc[p].profile \in Profile /\ table[proc[p].profile].pid = p /\ p # 0
        BY <3>1, Parts DEF BrowserInv, ProcessesStarted, ChildrenOwned
      <3> QED  BY <1>8, <3>2 DEF pids
    <2> QED  BY <1>8, <2>1, <2>2 DEF ShutdownTracks, CleanShutdownIsTrue
  <1> QED  BY <1>9, <1>11, <1>12 DEF BrowserInv


\* The shutdown waits for what it tracks, and reports what is left.
LEMMA PollShutdownKeeps ==
  ASSUME BrowserInv, PollShutdown
  PROVE  BrowserInv'
  <1> DEFINE exited == {p \in quit.tracked : ~SeenAlive(p)}
             released(p) == \E d \in Profile : table[d].pid = p /\ p \in exited
  <1>1. /\ quit.phase = "waiting"
        /\ table' = [d \in Profile |-> IF table[d].pid \in exited THEN NoEntry ELSE table[d]]
        /\ stopper' = [p \in Pid |-> IF released(p) THEN [stopper[p] EXCEPT !.current = FALSE]
                                     ELSE stopper[p]]
        /\ \/ quit' = quit
           \/ quit' = [quit EXCEPT !.phase = "done", !.clean = (exited = quit.tracked)]
        /\ UNCHANGED <<proc, lastPid, launch, admission>>
    BY DEF PollShutdown
  <1>2. exited \subseteq Pid
    BY DEF BrowserInv, TypeOK, Quit
  <1>3. ASSUME NEW d \in Profile
        PROVE  /\ table'[d] \in Entry /\ table'[d].pid <= lastPid /\ EntryMoves(d)
               /\ table[d].pid \notin exited => table'[d] = table[d]
    <2>1. NoEntry \in Entry /\ NoEntry.pid <= lastPid /\ table[d] \in Entry /\ table[d].pid <= lastPid
      BY EmptyEntry, Parts DEF BrowserInv, TypeOK
    <2>2. CASE table[d].pid \in exited
      <3>1. table'[d] = NoEntry /\ proc'[table[d].pid].state \notin {"live", "zombie"}
        BY <1>1, <2>2 DEF SeenAlive
      <3> QED  BY <2>1, <2>2, <3>1 DEF EntryMoves, EntryReleased
    <2>3. CASE table[d].pid \notin exited
      <3>1. table'[d] = table[d] /\ (table[d].pid = 0 => table[d] = NoEntry)
        BY <1>1, <2>3 DEF BrowserInv, EntriesFormed
      <3> HIDE DEF exited
      <3> QED  BY <2>1, <3>1 DEF EntryMoves, EntryKept
    <2> QED  BY <2>2, <2>3
  <1>4. ASSUME NEW p \in Pid
        PROVE  stopper'[p] \in Stopper /\ StopMoves(p)
    <2>1. /\ stopper[p] \in Stopper /\ [stopper[p] EXCEPT !.current = FALSE] \in Stopper
          /\ [stopper[p] EXCEPT !.current = FALSE].current = FALSE
      BY DEF BrowserInv, TypeOK, Stopper
    <2>2. stopper'[p] \in Stopper /\ (stopper'[p].current => stopper[p].current /\ ~released(p))
      BY <1>1, <2>1
    <2>3. stopper[p].current => /\ proc[p].profile \in Profile
                                /\ table[proc[p].profile].pid = p
                                /\ table[proc[p].profile].stopping
      BY DEF BrowserInv, StopsCurrent
    <2> HIDE DEF exited
    <2> QED  BY <1>3, <2>2, <2>3 DEF StopMoves
  <1>5. \A p \in Pid : Live(p) /\ proc[p].child => p \in quit.tracked /\ p \notin exited
    BY <1>1 DEF BrowserInv, ShutdownTracks, Live, SeenAlive
  <1>6. /\ quit' \in Quit
        /\ quit'.phase \in {"waiting", "done"} /\ quit'.tracked = quit.tracked
        /\ quit'.phase = "done" /\ quit'.clean => exited = quit.tracked
    <2>1. CASE quit' = quit
      BY <1>1, <2>1 DEF BrowserInv, TypeOK
    <2>2. CASE quit' = [quit EXCEPT !.phase = "done", !.clean = (exited = quit.tracked)]
      <3>1. (exited = quit.tracked) \in BOOLEAN
        OBVIOUS
      <3> HIDE DEF exited
      <3>2. quit \in Quit
        BY DEF BrowserInv, TypeOK
      <3> QED  BY <2>2, <3>1, <3>2 DEF Quit
    <2> QED  BY <1>1, <2>1, <2>2
  <1> HIDE DEF exited
  <1>7. /\ table' \in [Profile -> Entry] /\ stopper' \in [Pid -> Stopper]
    BY <1>1, <1>3, <1>4
  <1>8. TypeOK'
    BY <1>1, <1>3, <1>6, <1>7 DEF BrowserInv, TypeOK
  <1>9. (\A p \in Pid : Ages(p)) /\ \A l \in Launcher : LaunchMoves(l)
    BY <1>1, StillMoves
  <1>10. /\ ProcessesStarted' /\ EntriesFormed' /\ ChildrenOwned' /\ StopsCurrent'
         /\ LaunchesFormed' /\ LocksExclusive' /\ OneBrowserPerProfile'
    BY <1>1, <1>3, <1>4, <1>8, <1>9, MovesKeep
  <1>11. ShutdownTracks'
    <2>1. ~admission'
      BY <1>1 DEF BrowserInv, ShutdownTracks
    <2>2. \A p \in Pid : Live(p)' /\ proc'[p].child => p \in quit.tracked /\ p \notin exited
      BY <1>1, <1>5 DEF Live
    <2> QED  BY <1>6, <2>1, <2>2 DEF ShutdownTracks, CleanShutdownIsTrue
  <1> QED  BY <1>8, <1>10, <1>11 DEF BrowserInv

-----------------------------------------------------------------------------
(* New processes and a new session *)

\* A browser is spawned into an empty profile, and only while none is shut down.
LEMMA SpawnKeeps ==
  ASSUME BrowserInv, NEW l \in Launcher, Spawn(l)
  PROVE  BrowserInv'
  <1>0. PICK p \in Pid : p = lastPid + 1
    BY DEF Spawn
  <1> DEFINE d == launch[l].profile
             child == [state |-> "live", profile |-> d, child |-> TRUE, signal |-> "none"]
             e == [pid |-> p, handle |-> TRUE, chromium |-> TRUE, stopping |-> FALSE]
             c == [launch[l] EXCEPT !.pc = "verify", !.pid = p]
  <1>1. /\ launch[l].pc = "prepare" /\ admission /\ lastPid' = p
        /\ proc' = [proc EXCEPT ![p] = child]
        /\ table' = [table EXCEPT ![d] = e]
        /\ stopper' = Detach(d)
        /\ launch' = [launch EXCEPT ![l].pc = "verify", ![l].pid = p]
        /\ UNCHANGED <<admission, quit>>
    BY <1>0 DEF Spawn
  <1>2. /\ TypeOK /\ ProcessesStarted /\ EntriesFormed /\ ChildrenOwned /\ StopsCurrent
        /\ LaunchesFormed /\ LocksExclusive /\ OneBrowserPerProfile
        /\ d \in Profile /\ Candidates(d) = {} /\ table[d].pid = 0
        /\ lastPid \in Nat /\ p > lastPid /\ lastPid' \in 0 .. MaxPids /\ p # 0
    <2>1. d \in Profile /\ lastPid \in Nat /\ Pid \subseteq Nat \ {0} /\ MaxPids \in Nat
      BY <1>1, Parts, BrowserAssumption
    <2>2. p > lastPid /\ lastPid' \in 0 .. MaxPids /\ p # 0
      BY <1>0, <1>1, <2>1 DEF Pid
    <2>3. LaunchesFormed
      BY DEF BrowserInv
    <2>4. Candidates(d) = {} /\ table[d].pid = 0
      BY <1>1, <2>3 DEF LaunchesFormed
    <2> HIDE DEF d
    <2> QED  BY <2>1, <2>2, <2>3, <2>4 DEF BrowserInv
  <1>3. /\ child \in Process /\ child.state = "live" /\ child.profile = d /\ child.child = TRUE
        /\ e \in Entry /\ e.pid = p /\ e.handle = TRUE
    BY <1>2 DEF Process, ProcState, Entry
  <1>4. c \in Launch /\ c.pc = "verify" /\ c.pid = p /\ c.profile = d
        /\ launch' = [launch EXCEPT ![l] = c]
    BY <1>1, <1>2 DEF TypeOK, Launch
  <1> HIDE DEF child, e, c, d
  <1>5. /\ proc' \in [Pid -> Process] /\ proc'[p] = child
        /\ \A q \in Pid : q # p => proc'[q] = proc[q]
    BY <1>1, <1>2, <1>3 DEF TypeOK
  <1>6. /\ table' \in [Profile -> Entry] /\ table'[d] = e
        /\ \A b \in Profile : b # d => table'[b] = table[b]
    BY <1>1, <1>2, <1>3, OneEntryMoves
  <1>7. /\ launch' \in [Launcher -> Launch] /\ launch'[l] = c
        /\ \A k \in Launcher : k # l => launch'[k] = launch[k]
        /\ \A k \in Launcher : launch'[k].pc = "idle" <=> launch'[k].profile = NoProfile
    BY <1>2, <1>4, BrowserAssumption, OneCallMoves
  <1>8. stopper' \in [Pid -> Stopper] /\ \A q \in Pid : StopMoves(q)
    BY <1>1, <1>2, <1>3, DetachMoves
  <1>9. TypeOK'
    <2>1. \A b \in Profile : table'[b].pid <= lastPid'
      BY <1>1, <1>2, <1>3, <1>6, Parts DEF TypeOK
    <2> QED  BY <1>1, <1>2, <1>5, <1>6, <1>7, <1>8, <2>1 DEF TypeOK
  <1>10. \A q \in Pid : q <= lastPid <=> q <= p /\ q # p
    BY <1>0, <1>2, Parts
  <1>11. ProcessesStarted'
    BY <1>1, <1>2, <1>3, <1>5, <1>10, Parts DEF ProcessesStarted
  <1>12. EntriesFormed'
    <2> SUFFICES ASSUME NEW b \in Profile
                 PROVE  /\ table'[b].pid = 0 => table'[b] = NoEntry
                        /\ table'[b].pid # 0 => /\ proc'[table'[b].pid].profile = b
                                                /\ proc'[table'[b].pid].child => table'[b].handle
      BY DEF EntriesFormed
    <2>1. CASE b = d
      BY <1>2, <1>3, <1>5, <1>6, <2>1
    <2>2. CASE b # d
      <3>1. table'[b] = table[b] /\ table[b].pid \in Pid \cup {0} /\ table[b].pid # p
        BY <1>2, <1>6, <2>2, Parts DEF TypeOK
      <3> QED  BY <1>2, <1>5, <3>1 DEF EntriesFormed
    <2> QED  BY <2>1, <2>2
  <1>13. ChildrenOwned'
    <2> SUFFICES ASSUME NEW q \in Pid, proc'[q].child, proc'[q].state \in {"live", "zombie"}
                 PROVE  table'[proc'[q].profile].pid = q
      BY DEF ChildrenOwned, SeenAlive
    <2>1. CASE q = p
      BY <1>3, <1>5, <1>6, <2>1
    <2>2. CASE q # p
      <3>1. /\ proc'[q] = proc[q] /\ proc[q].profile \in Profile /\ table[proc[q].profile].pid = q
            /\ q # 0
        BY <1>2, <1>5, <2>2, Parts DEF ChildrenOwned, SeenAlive, ProcessesStarted
      <3>2. proc[q].profile # d
        BY <1>2, <3>1
      <3> QED  BY <1>6, <3>1, <3>2
    <2> QED  BY <2>1, <2>2
  <1>14. ASSUME NEW q \in Pid, stopper'[q].current
         PROVE  /\ q # p /\ proc'[q].profile \in Profile
                /\ table'[proc'[q].profile].pid = q /\ table'[proc'[q].profile].stopping
    <2>1. /\ proc[q].profile \in Profile
          /\ table'[proc[q].profile].pid = q /\ table'[proc[q].profile].stopping
      BY <1>8, <1>14 DEF StopMoves
    <2>2. stopper[q].current
      BY <1>1, <1>14, <1>2 DEF Detach, TypeOK, Stopper
    <2>3. q # p
      <3>1. q <= lastPid
        BY <1>2, <2>2 DEF StopsCurrent, ProcessesStarted
      <3> QED  BY <1>10, <3>1
    <2> QED  BY <1>5, <2>1, <2>3
  <1>15. StopsCurrent'
    BY <1>14 DEF StopsCurrent
  <1>16. LaunchesFormed'
    <2> SUFFICES ASSUME NEW k \in Launcher, NEW b, b = launch'[k].profile, NEW q, q = launch'[k].pid
                 PROVE  /\ launch'[k].pc = "prepare" => Candidates(b)' = {} /\ table'[b].pid = 0
                        /\ launch'[k].pc = "reuse" => /\ q \in Pid /\ proc'[q].profile = b
                                                      /\ Candidates(b)' \subseteq {q}
                                                      /\ table'[b].pid \in {0, q}
                                                      /\ proc'[q].child => launch'[k].existing
                        /\ launch'[k].pc \in {"verify", "cleanup"} =>
                             q \in Pid /\ proc'[q].profile = b /\ proc'[q].child
                        /\ launch'[k].pc = "cleanup" => /\ table'[b].pid = q => table'[b].stopping
                                                        /\ ~stopper'[q].current
      BY DEF LaunchesFormed
    <2>1. CASE k = l
      BY <1>3, <1>4, <1>5, <1>7, <2>1
    <2>2. CASE k # l
      <3>1. launch'[k] = launch[k] /\ (launch[k].pc # "idle" => b \in Profile)
        BY <1>7, <2>2, Parts
      <3>2. CASE launch[k].pc \in {"prepare", "reuse"}
        <4>1. b # d /\ b \in Profile
          BY <1>1, <1>2, <2>2, <3>1, <3>2 DEF LocksExclusive, d
        <4>2. Candidates(b)' \subseteq Candidates(b) /\ table'[b] = table[b]
          BY <1>3, <1>5, <1>6, <4>1 DEF Candidates, Live
        <4>3. /\ launch[k].pc = "prepare" => Candidates(b) = {} /\ table[b].pid = 0
              /\ launch[k].pc = "reuse" => /\ q \in Pid /\ proc[q].profile = b
                                           /\ Candidates(b) \subseteq {q}
                                           /\ table[b].pid \in {0, q}
                                           /\ proc[q].child => launch[k].existing
          BY <1>2, <3>1 DEF LaunchesFormed
        <4>4. q = p => launch[k].pc # "reuse"
          BY <1>2, <1>10, <4>1, <4>3 DEF ProcessesStarted
        <4> QED  BY <1>5, <3>1, <3>2, <4>2, <4>3, <4>4
      <3>3. CASE launch[k].pc \in {"verify", "cleanup"}
        <4>1. q \in Pid /\ proc[q].profile = b /\ proc[q].child /\ b \in Profile
          BY <1>2, <3>1, <3>3 DEF LaunchesFormed
        <4>2. launch[k].pc = "cleanup" => /\ table[b].pid = q => table[b].stopping
                                          /\ ~stopper[q].current
          BY <1>2, <3>1 DEF LaunchesFormed
        <4>3. q # p
          BY <1>2, <1>10, <4>1 DEF ProcessesStarted
        <4>4. ~stopper[q].current => ~stopper'[q].current
          BY <1>1, <1>2, <4>1 DEF Detach, TypeOK, Stopper
        <4>5. table'[b].pid = q => table'[b] = table[b]
          BY <1>3, <1>6, <4>1, <4>3
        <4> QED  BY <1>5, <3>1, <3>3, <4>1, <4>2, <4>3, <4>4, <4>5
      <3>4. CASE launch[k].pc = "idle"
        BY <3>1, <3>4
      <3> QED  BY <1>2, <3>2, <3>3, <3>4 DEF TypeOK, Launch
    <2> QED  BY <2>1, <2>2
  <1>17. LocksExclusive'
    BY <1>2, <1>4, <1>7 DEF LocksExclusive
  <1>18. OneBrowserPerProfile'
    BY <1>2, <1>3, <1>5 DEF OneBrowserPerProfile, Candidates, Live
  <1>19. ShutdownTracks'
    <2>1. quit.phase = "no"
      BY <1>1 DEF BrowserInv, ShutdownTracks
    <2> QED  BY <1>1, <2>1 DEF ShutdownTracks, CleanShutdownIsTrue
  <1> QED  BY <1>9, <1>11, <1>12, <1>13, <1>15, <1>16, <1>17, <1>18, <1>19 DEF BrowserInv


\* Studio starts again: browsers go on as nobody's children.
LEMMA RestartKeeps ==
  ASSUME BrowserInv, Restart
  PROVE  BrowserInv'
  <1> DEFINE next(p) == [proc[p] EXCEPT
                !.child = FALSE,
                !.state = IF p \in Running /\ ~Live(p) THEN "dead" ELSE @]
  <1>1. /\ proc' = [p \in Pid |-> next(p)]
        /\ table' = [d \in Profile |-> NoEntry]
        /\ stopper' = [p \in Pid |-> NoStopper]
        /\ launch' = [l \in Launcher |-> IdleLaunch]
        /\ admission' = TRUE /\ quit' = NoQuit /\ lastPid' = lastPid
    BY DEF Restart
  <1>2. ASSUME NEW p \in Pid
        PROVE  /\ next(p) \in Process /\ next(p).profile = proc[p].profile
               /\ next(p).child = FALSE
               /\ next(p).state = "none" <=> proc[p].state = "none"
               /\ next(p).state = "live" => proc[p].state = "live"
    <2>1. proc[p] \in Process
      BY DEF BrowserInv, TypeOK
    <2>2. p \in Running => proc[p].state # "none"
      BY DEF Running
    <2> QED  BY <2>1, <2>2 DEF Process, ProcState, Live
  <1> HIDE DEF next
  <1>3. proc' \in [Pid -> Process] /\ \A p \in Pid : proc'[p] = next(p)
    BY <1>1, <1>2
  <1>4. NoStopper \in Stopper /\ NoStopper.current = FALSE /\ NoQuit \in Quit /\ NoQuit.phase = "no"
    BY DEF NoStopper, Stopper, NoQuit, Quit
  <1>5. /\ table' \in [Profile -> Entry] /\ \A d \in Profile : table'[d] = NoEntry
        /\ stopper' \in [Pid -> Stopper] /\ \A p \in Pid : stopper'[p] = NoStopper
        /\ launch' \in [Launcher -> Launch] /\ \A l \in Launcher : launch'[l] = IdleLaunch
    BY <1>1, <1>4, EmptyEntry, IdleCall
  <1>6. TypeOK'
    <2>1. \A d \in Profile : table'[d].pid <= lastPid'
      BY <1>1, <1>5, EmptyEntry, Parts
    <2> QED  BY <1>1, <1>3, <1>4, <1>5, <2>1, IdleCall DEF BrowserInv, TypeOK
  <1>7. ProcessesStarted' /\ OneBrowserPerProfile' /\ ChildrenOwned'
    <2>1. \A p \in Pid : /\ proc'[p].profile = proc[p].profile /\ proc'[p].child = FALSE
                         /\ proc'[p].state = "none" <=> proc[p].state = "none"
                         /\ proc'[p].state = "live" => proc[p].state = "live"
      BY <1>2, <1>3
    <2>2. ProcessesStarted' /\ ChildrenOwned'
      BY <1>1, <2>1 DEF BrowserInv, ProcessesStarted, ChildrenOwned
    <2>3. OneBrowserPerProfile'
      BY <2>1 DEF BrowserInv, OneBrowserPerProfile, Live
    <2> QED  BY <2>2, <2>3
  <1>8. EntriesFormed' /\ StopsCurrent'
    BY <1>4, <1>5, EmptyEntry DEF EntriesFormed, StopsCurrent
  <1>9. LaunchesFormed' /\ LocksExclusive'
    BY <1>5, IdleCall DEF LaunchesFormed, LocksExclusive
  <1>10. ShutdownTracks'
    BY <1>1, <1>4 DEF ShutdownTracks, CleanShutdownIsTrue
  <1> QED  BY <1>6, <1>7, <1>8, <1>9, <1>10 DEF BrowserInv

\* BrowserInv holds when nothing was started.
LEMMA BrowserInit ==
  ASSUME Init
  PROVE  BrowserInv
  <1>1. /\ proc = [p \in Pid |-> NoProcess] /\ lastPid = 0
        /\ table = [d \in Profile |-> NoEntry]
        /\ stopper = [p \in Pid |-> NoStopper]
        /\ launch = [l \in Launcher |-> IdleLaunch]
        /\ admission = TRUE /\ quit = NoQuit
    BY DEF Init
  <1>2. /\ NoProcess \in Process /\ NoProcess.state = "none" /\ NoProcess.profile = NoProfile
        /\ NoProcess.child = FALSE
    BY DEF NoProcess, Process, ProcState
  <1>3. NoStopper \in Stopper /\ NoStopper.current = FALSE /\ NoQuit \in Quit /\ NoQuit.phase = "no"
    BY DEF NoStopper, Stopper, NoQuit, Quit
  <1>4. /\ proc \in [Pid -> Process] /\ \A p \in Pid : proc[p] = NoProcess
        /\ table \in [Profile -> Entry] /\ \A d \in Profile : table[d] = NoEntry
        /\ stopper \in [Pid -> Stopper] /\ \A p \in Pid : stopper[p] = NoStopper
        /\ launch \in [Launcher -> Launch] /\ \A l \in Launcher : launch[l] = IdleLaunch
    BY <1>1, <1>2, <1>3, EmptyEntry, IdleCall
  <1>5. TypeOK
    <2>1. lastPid \in 0 .. MaxPids /\ \A d \in Profile : table[d].pid <= lastPid
      BY <1>1, <1>4, EmptyEntry, BrowserAssumption
    <2> QED  BY <1>1, <1>3, <1>4, <2>1, IdleCall DEF TypeOK
  <1>6. ProcessesStarted
    <2>1. \A p \in Pid : ~(p <= lastPid)
      BY <1>1 DEF Pid
    <2> QED  BY <1>2, <1>4, <2>1, BrowserAssumption DEF ProcessesStarted
  <1>7. OneBrowserPerProfile /\ ChildrenOwned
    BY <1>2, <1>4 DEF OneBrowserPerProfile, ChildrenOwned, Live
  <1>8. EntriesFormed /\ StopsCurrent
    BY <1>3, <1>4, EmptyEntry DEF EntriesFormed, StopsCurrent
  <1>9. LaunchesFormed /\ LocksExclusive
    BY <1>4, IdleCall DEF LaunchesFormed, LocksExclusive
  <1>10. ShutdownTracks
    BY <1>1, <1>3 DEF ShutdownTracks, CleanShutdownIsTrue
  <1> QED  BY <1>5, <1>6, <1>7, <1>8, <1>9, <1>10 DEF BrowserInv

\* BrowserInv is inductive.
LEMMA BrowserNext ==
  ASSUME BrowserInv, [Next]_vars
  PROVE  BrowserInv'
  <1>1. CASE UNCHANGED vars
    BY <1>1 DEF vars, BrowserInv, TypeOK, ProcessesStarted, EntriesFormed, ChildrenOwned,
                StopsCurrent, LaunchesFormed, LocksExclusive, OneBrowserPerProfile,
                ShutdownTracks, CleanShutdownIsTrue, Candidates, Live, SeenAlive
  <1>2. ASSUME NEW l \in Launcher, NEW d \in Profile, BeginLaunch(l, d)
        PROVE  BrowserInv'
    BY <1>2, BeginLaunchKeeps
  <1>3. ASSUME NEW l \in Launcher, LaunchStep(l)
        PROVE  BrowserInv'
    BY <1>3, LeaveKeeps, FinishReuseKeeps, SpawnKeeps, FailLaunchKeeps, FinishCleanupKeeps
       DEF LaunchStep
  <1>4. ASSUME NEW p \in Pid, ProcessExit(p) \/ ExitEvent(p) \/ StopStep(p)
        PROVE  BrowserInv'
    BY <1>4, ProcessExitKeeps, ExitEventKeeps, ReleaseExitedKeeps, SignalKeeps DEF StopStep
  <1>5. ASSUME NEW d \in Profile, StopBrowser(d) \/ StatusBrowser(d)
        PROVE  BrowserInv'
    BY <1>5, StopBrowserKeeps, StatusBrowserKeeps
  <1>6. CASE BeginQuit \/ BeginShutdown \/ PollShutdown \/ Restart
    BY <1>6, BeginQuitKeeps, BeginShutdownKeeps, PollShutdownKeeps, RestartKeeps
  <1> QED  BY <1>1, <1>2, <1>3, <1>4, <1>5, <1>6 DEF Next

\* Every reachable state of the browser lifecycle satisfies the inductive
\* invariant.
THEOREM BrowserInvariant == Spec => []BrowserInv
  <1>1. BrowserInv /\ [Next]_vars => BrowserInv'
    BY BrowserNext
  <1> QED  BY <1>1, BrowserInit, PTL DEF Spec

\* What the run checks of every state, for every set of profiles and calls and
\* any number of processes: a spawned browser that lives is in the runtime
\* table, a profile has one live browser at most, and a shutdown that reports
\* no unfinished browser leaves none (runtime-table.ts, lifecycle.ts).
THEOREM BrowserCorrect ==
  Spec => [](TypeOK /\ OwnedUntilExit /\ OneBrowserPerProfile /\ CleanShutdownIsTrue)
  <1>1. BrowserInv => TypeOK /\ OwnedUntilExit /\ OneBrowserPerProfile /\ CleanShutdownIsTrue
    BY DEF BrowserInv, ChildrenOwned, OwnedUntilExit, Live, SeenAlive, ShutdownTracks
  <1> QED  BY <1>1, BrowserInvariant, PTL
=============================================================================
