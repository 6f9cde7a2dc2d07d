# Formal model of Agent Browser Studio

TLA+ modules, TLC configurations and TLAPS proofs about the Electron main
process of Agent Browser Studio (`src/src/main`): the automation engine, the
browser life cycle, desktop chat tasks, the configuration store with its
measurement and account fences, the restore of complete profiles, and the
release store. What these have in common is that each keeps shared state across
an await, a callback, a file write or a crash, where tests reach few of the
orders in which things can happen.

Paths below are relative to `src/src/main/services/` unless they start with
`src/`.

## 1. Inventory

| component | state it keeps | operations | hard behaviour | what makes it correct |
|---|---|---|---|---|
| Automation scheduler (`automation.ts`) | armed timers, retry timers, generation, run slots and their queue, active and cancelled job ids | cron/once/event triggers, retry, reload, refresh, stop, test run | every await is a point where a cancel, reload, stop or timeout can come in | one run per rule, every slot and lock given back, stale runs change nothing, no lost row |
| Job store (`job-store.ts`) | durable table of executions, notification log | guarded UPDATEs, pruning, startup recovery | the WHERE clause is the admission; crash between two writes | life cycle of an execution, one alert per execution |
| Job guard (`job-guard.ts`) | per rule: lock, failure count, cooldown | tryBegin, end, cancel, hydrate, withTimeout | abandoned action after a timeout | lock exact, retry only below the limits |
| Rule mutations (`automation-rules.ts`, `automation-data.ts`, `ipc/automation.ts`) | rules in the config | update, delete, reschedule, cancel, test | whole-rule payloads from a stale renderer | a change mints a plan, drops the missed mark, disables what it disables |
| Reconciliation (`automation-reconcile.ts`) | last UTC offset | startup recovery, replay of committed runs, live refresh | restart after any prefix of writes | every unfinished row converges, refresh starts no work |
| Notifications (`automation-notify.ts`) | durable log with dedup keys | notifyTerminal | alert versus row | an alert tells the truth, at most one |
| Browser lifecycle (`browser-manager.ts`, `browser/*`) | runtime table, launch admission, stop phases | launch, warm reuse, stop, status, shutdown | process exit versus timers, replaced entries, discovery | an owned process is released only when dead; a stop never hits a newer entry and ends its browser |
| Restore of complete profiles (`profile-restore-lock.ts`, `sync-service.ts`, `sync/full-profile-artifact.ts`) | leases, recovery receipts, moved directories | acquire, open gate, swap, commit, confirm, undo | crash or power loss between directory and configuration; an undo that fails | a profile that may be launched agrees with its configuration; the report is true |
| Config store (`config/store.ts`, `config-manager.ts`) | committed bundle, account revision, proxy generations and orders | transact, transactAccounts, transactProxyObservation | late observations, stale account references | newest observation wins, a stale reference is refused |
| Proxy detection (`proxy-detection.ts`, `proxy-detector.ts`, `proxy-health.ts`) | probes under way, cache, health history | detect, join, commit, clear | answers out of order, one probe shared by several callers | a measurement belongs to the route shown and counts once |
| Synchronization (`sync-service.ts`, `sync/*`) | one active operation, generation, transfer owner | begin, stage, transfer, finish | late reporters, partial commits | one owner, a result is that of its operation |
| Batch queue (`batch-queue.ts`) | cursor, results | runBatch | timed-out workers go on | every item has one result, bounded workers |
| Approval gate (`approval-gate.ts`) | pending requests, remembered decisions | request, resolve, abort, clear | abort races the user | each request settles once, deny is never remembered |
| Chat runs (`agent/chat-runs.ts`, `agent/desktop-chat.ts`) | active run per conversation, replay cache, window listeners | reserve, cancel, finish, shutdown | late cancel, replayed request, window gone, failing save | one run per conversation, a request works once, nothing is dispatched after an abort |
| Run rows (`agent-run-trace.ts`, `agent-run-retention.ts`) | durable rows, live recorder | start, finish, retain, recover | reload or retention while a task is live | a live row is kept, a completed row has its answer |
| Updates (`update-manager.ts`) | versions, crash counter in one file | install, activate, rollback, crash-loop guard | await between read and save | an installed active version, no lost update |
| Run results (`run-result-store.ts`) | payloads and manifest per run | commit, reconcile | crash between payload and manifest | a manifest is complete or absent |
| Protocol clients (`bidi-client.ts`, `agent/cdp-transport.ts`) | pending requests, mutation witnesses | send, reply, timeout, close | late replies | each request settles once |
| Schedule state (`automation-state.ts`) | none (pure) | classify | precedence of evidence | never promises a run that will not happen |

Left aside: fingerprint and launch-argument generation (pure data), archives and
byte formats, HTTP surfaces (REST, MCP), the local agent's tool loop, SOCKS and
MASQUE bridges, secrets, license, team, renderer, the Android application, the
native bridge and the browser patches. `PROJECT.json` lists each with its reason.

How they interact: the renderer, REST and the agent change rules through the
rule mutations, which end in `reloadSchedule`. `index.ts` calls
`reconcileAutomationState`, then `startScheduler`, wires resume, unlock and
focus to `refreshScheduleTimers`, and calls `stopScheduler` first on quit.
`runRule` writes job rows through the store, asks the guard, calls the browser
lifecycle, the agent or the synchronization as its action, writes the rule's
counters and its consumption into the config, and finally notifies.

The other edges: a launch asks the restore lock and the admission flag that
`before-quit` closes; the restore asks the runtime table whether a profile runs
and commits through `transact`; a launch starts proxy detections whose samples
come back through `transactProxyObservation`; a chat task writes its rows through
the configuration too, and asks the approval gate before a tool call; the exit
handlers of the process count crashes in the release store.

## 2. Plan

Done, most important behaviour first:

1. Automation engine: `JobStore`, `JobGuard`, `AutomationScheduler`, abstract
   specification `ExecutionLifecycle`; `ScheduleState` on top of it.
2. `BrowserLifecycle`.
3. `DesktopChat`: registry, execution, approvals and rows.
4. `ConfigStore`: transactions, account references, measurement fencing.
5. `ProfileRestore`: leases, receipts, directory swap, commit, crash.
6. `UpdateManager`.
7. Theorems: every invariant, every action property and the refinement that a
   passing run checks (section 5).

Left: models of the push of a snapshot, Firefox launches, the idle reaper, and
two Studio processes competing for one lease file. Liveness stays with TLC.

## 3. Modules

| module | what it is |
|---|---|
| `JobStore` | the jobs table; every UPDATE an operator from table to table, its WHERE clause the condition |
| `JobGuard` | the guard's state and operations as operators on one record |
| `AutomationScheduler` | the state machine: `automation.ts` over the two |
| `ExecutionLifecycle` | abstract: statuses, rules and alerts of executions |
| `AutomationProperties` | invariants, action properties, liveness, the refinement mapping |
| `ScheduleState` | the card of a rule: `automation-state.ts` as operators over the engine's state |
| `BrowserLifecycle` | runtime table, launches, stops, status, shutdown, and the processes of the operating system |
| `DesktopChat` | chat tasks from the request to the stored answer |
| `ConfigStore` | committed configuration, proxy detections, account references |
| `ProfileRestore` | the restore of complete profiles against launches, crashes and power loss |
| `UpdateManager` | the release store; its one property is stated at its end |
| `BrowserProperties`, `ChatProperties`, `ConfigProperties`, `RestoreProperties` | what must hold of the four |
| `MCAutomation`, `MCBrowser`, `MCChat`, `MCConfig`, `MCRestore`, `MCUpdates` | instances for TLC |
| `AutomationTypes_proofs` | lemmas about the operators of the table, the guard and the slots; type correctness |
| `AutomationLock_proofs` | the lock invariant and stale runs |
| `AutomationRows_proofs` | the owners, alerts and moves of rows; the refinement of `ExecutionLifecycle` |
| `AutomationRules_proofs` | retries, once plans, missed marks, the card, the run slots, the attempts |
| `BrowserLifecycle_proofs`, `DesktopChat_proofs`, `ConfigStore_proofs`, `ProfileRestore_proofs` | the theorems about the four |

Each of the four automation proof modules extends the one before it.

Operators named `...` with a comment `Mutant:` are deliberately broken variants
of the definition that follows them. No action uses them; substituting one for
its original shows that the property it is listed with can fail.

### Correspondence

JavaScript runs one thing at a time, so an action is the code between two
awaits. A call of `runRule` waits at two places, for its run slot and for its
action; `task[j].pc` says where, `task[j].fresh` stands for "the generation it
captured is still the current one", `j` is its job row.

| code | model |
|---|---|
| `jobs` table | `jobs`, `lastJob` |
| `config.automation` | `cfg` (enabled, `missedAt` set, plan id) |
| `trigger.at` against the clock | `due`: `future` (at > now), `now` (at = now), `past` |
| `jobGuard` | `guard` |
| `timers`, `retryTimers` and `retryJobByRule` | `armed`, `retry` |
| `activeRuns`, `slotQueue`, `maxConcurrent()` | `slots`, `cap` |
| `cancelledJobIds`, `activeJobIds` | `cancelled`, `Active` |
| `schedulerGeneration`, `stopping` | `task[j].fresh`, `stopping` |
| notification log | `alerts` |
| actions that outlived their timeout | `zombies` |

`runRule` is `RunRule` (guard, row, slot request), then `Admit`, `GiveUp` or
`SlotRejected`, then `Settle`, then `Complete`. `Complete` is everything from
the resolved action to the end of the function: row, counters, cancel flags,
retry or consumption, alert, slot. `CrashInComplete` cuts it after every durable
write.

The card (`ScheduleState`): `getSchedulerLiveState` is `Executing`,
`WaitingForSlot` and `RetryPending`; `classifyRuleState` is `Phase`, first match
first. It has no state of its own and is evaluated in every state of the engine.

**Browser life cycle.** A call of `launchBrowser` is suspended in `prepare`,
`reuse`, `verify` or `cleanup` (`launch[l].pc`); from the spawn to the publication
of the entry there is no await, so this is one action (`Spawn`).

| code | model |
|---|---|
| `runningProcesses` | `table`: pid, whether a child handle is held, engine, `stopping` |
| a closure of `beginBrowserStop` | `stopper[p]`: its phase, and whether `isCurrent()` |
| a process: running, exited and unreaped, exited with the event to come | `proc[p].state`: `live`, `zombie`, `gone`, `dead` |
| `isLivePid`, process discovery | `SeenAlive`, `Candidates` |
| restore lock taken by the launch | `Locked` |
| `launchAdmissionClosed` | `admission` |
| `before-quit`, `shutdownAllBrowserProfiles` | `quit`: `BeginQuit`, `BeginShutdown`, `PollShutdown` |

Entries are objects compared by identity, and one that left the table never
returns; that is why a flag per stop is enough.

**Desktop chat.** A task waits before its first check, before or for the model,
before a tool call, for an approval, for the tool (`run[r].state`).

| code | model |
|---|---|
| `ChatRunRegistry.active`, `requests`, `watchers`, `shuttingDown` | `active`, `requests`, `watchers`, `closing` |
| `context.controller.signal`, `abortReason` | `run[r].abort` |
| `agent:chat-cancel` calls a window has sent and the registry has not seen | `cancels` |
| conversation file: the conversation, its user and assistant messages | `stored`, `asked`, `answered` |
| `config.agentRuns`, `runWebContents` of the recorder | `row`, `owned` |
| pending approval | the state `approval`; `ResolveApproval` |

`Finish` is the code from the `catch` to the returned terminal: assistant
message, row, result, registry. A save that fails is a second outcome of every
`persist` (`Saves`).

**Configuration store.** A transaction is synchronous and publishes what it wrote
or nothing, so it is one action; what interleaves are detections and references.

| code | model |
|---|---|
| `committed.config`: proxies, `proxyDetections`, `proxyHealth`, accounts | `config` |
| `proxyGeneration`, `proxyOrder`, `accountRevision` | `generation`, `accepted`, `revision` |
| `nextProxyObservationOrder`, a dispatched probe | `probe`, by order |
| `inflight` and the callers that wait | `call`, `Waiting`, `SameKey` |
| `detectCache`, `cacheRequests` | `cache`, `owner` |
| an account reference | `ref`: the revision, and the list its holder saw |

`edit` and `cleared` are history variables: what the last edit saw and changed,
and the newest probe at the moment a history was dropped.

**Restore.** `pull.phase` follows `pullFullProfileSnapshot`; each profile passes
`OpenGate` (receipt), `MoveAside`, `Install`, `Verified`; then `CommitConfig`,
`Confirm` (flush), `Finish` (receipts); a failure passes `BeginUnwind`, `RollBack`
per profile, `Settle`, `Report`; `Close` returns the leases.

| code | model |
|---|---|
| profile directory, retained rollback directory | `data`, `backup`, by version |
| configuration in memory; what may be on disk before the flush | `config`, `disk` |
| recovery receipts, `heldLocks` | `receipt`, `held` |

**Updates.** `state` is the state file; a check or an installation keeps in `call`
the copy it read before it waits, and `FinishCheck` and `FinishInstall` write that
copy. `transitions` numbers the transitions made; `history` holds the numbers
the file records.

### Abstractions

The engine:

- The trigger type of a rule is fixed (`Kind`); a deleted rule is a disabled
  one, which every guard of the engine treats alike (test runs of deleted rules
  are thus allowed in the model only).
- The outcome of an action is one of success, failure, failure with
  `automaticRetry: false`, timeout; the action's own work is not modelled.
- A cooldown is a flag the clock may clear at any time; the failure counter
  saturates at the threshold, the only value it is compared with.
- Deadlines of one rule move `future`, `now`, `past`; `ClockBack` puts every
  deadline back into the future. Waiting chunks of long timers are left out.
- An event reaches one rule per step. The loop over the rules has no await, so
  this adds behaviours (other steps in between) and loses none.
- A stale whole-rule payload may lower the counters and drop the cooldown
  (`Counters`); reloads hydrate them into the guard, never the lock.
- `lastJob` numbers rows, so an id is never reused, as in the code. Pruning by
  age deletes the oldest ids.
- The status card reads the newest 1000 rows; the model reads all.
- SQL and config write failures, which the code swallows, and the pruning of
  the notification log are not modelled.

The others:

- Checks that read the outside world (browser evidence, ports, model and tool
  results, downloads, consent) are one nondeterministic outcome each.
- Timers fire at any time after they are set; a deadline is a choice.
- `zombie` and `gone` of a process are the two views that `kill(pid, 0)` and
  the exit event allow; a pid is not reused.
- In the chat, `interrupted` stands for `timeout` too and `failed` for the two
  reasons with which a task gives up by itself. Message texts are left out.
- An event that cannot be sent to the window interrupts its task (`send`), as the
  timer does; both are `Timeout`. The code sends in the stretch that goes on to
  the tool, so the call of that stretch is issued with its signal already
  aborted; in the model it is issued just before. `FINALIZATION_ERROR` is left
  out: `execute` does nothing outside its `try` blocks that throws.
- `streamId`s and conversation ids are random, so the model numbers requests and
  conversations in the order tasks first use them; a behaviour that uses them in
  another order is one of these with the names exchanged. A window asks for a stop of a task that runs; one that it asks for
  because it has not heard of the end yet is the same call sent earlier and
  delivered after the end. `MaxCancels` bounds the calls on their way.
- Warm reuse spreads the entry it captured before it waits; the model takes the
  flags of the entry that is in the table when it publishes.
- A route stands for the identity token of a proxy, a sample for its probe, the
  accounts for one value. A revision or a generation is the number of the commit
  that drew it, as the code draws a fresh nonce.
- A version stands for the content of a directory and the configuration that
  belongs to it. A power loss may leave any configuration written since the last
  flush; directories are synced step by step in the code and survive.
- The releases of the updates differ only by name; the payload is there or not.

## 4. Runs

| run | instance | shows |
|---|---|---|
| `safety` (`MCSafety.cfg`) | cron + event rule, 2 rows, cap 1, 1 retry, cooldown after 2, all of cancel, test, edit, stale copies, refresh, stop, crash | nine properties below |
| `slots` (`MCSlots.cfg`) | 2 event rules + 1 cron, 3 rows, cap switching between 1 and 2, 1 rule retries; fair | nobody is stranded, every execution ends, every lock is released |
| `once` (`MCOnce.cfg`) | once + cron, 2 rows, 2 plans, one clock rollback, refresh, edits, crash | a missed plan has no pending work; a card hides none; a stale run is inert |
| `missed_done`, `silent_failure`, `lost_timer` | once + cron, two rows | the disagreements of section 6 |
| `browser` (`MCBrowser.cfg`) | 1 profile, 2 launches at once, 2 processes, status discovery, quit, Studio dying under its browsers; fair | five properties below |
| `reuse_stopping` (`MCReuseStopping.cfg`) | the same without the environment | disagreement 4 |
| `chat` (`MCChat.cfg`) | 1 window, 2 conversations, 2 requests, 2 tasks, replay cache 0, 1 row kept, all faults; fair | nine properties below |
| `config` (`MCConfig.cfg`) | 2 proxies, 2 routes, 2 callers, 1 reference, 2 probes, 2 other commits, 2 account lists | seven properties below |
| `restore` (`MCRestore.cfg`) | 3 profiles, 2 restores, crash and power loss; fair | four properties below |
| `updates` (`MCUpdates.cfg`) | 2 releases, 2 calls, 3 transitions | disagreement 5 |

Properties:

- `LockIsExact`: locked exactly while one call is alive for the rule.
- `SlotAccounting`: the counter equals the holders, the queue lists the waiters
  once each, holders never exceed the largest cap.
- `NoStrandedWaiter`, `ExecutionsEnd`, `LocksReleased`: no lost wake-up, and
  nothing waits, runs or parks forever.
- `PendingRowHasOwner`: queued, running and retry-waiting rows each have exactly
  the call or timer that will end them.
- `AlertTruth`: an alert matches the final status of the row, and is never
  about a manual test.
- `NoRetryOverZombie`: a timed-out execution is not retried over its own action.
- `RetryIsAllowed`: a parked retry belongs to an enabled rule and has attempts
  left, through every edit, toggle, consumed once and restart.
- `StopQuiesces`, `MissedHasNoWork`, `StaleRunIsInert`: see their comments in
  `AutomationProperties`.
- `CardHidesNoWork`: a card that shows a plan, a cooldown or a missed once hides
  no pending work of the rule; one that shows a retry shows its row. Manual tests
  are not part of the environment of `once`; `RulesCorrect` covers them.
- `ImplementsLifecycle`: the engine refines `ExecutionLifecycle`: executions
  move along the allowed edges, never leave a final status except by pruning,
  one runs per rule, and each is alerted at most once. The alert for `done` or
  `failed` is raised by the very step that ends the execution; one that a user or
  a stop cancelled while its action was out may be alerted later, when the action
  settles; one that never ran is not alerted.

Browser: `OwnedUntilExit` (a live child is in the table), `OneBrowserPerProfile`,
`CleanShutdownIsTrue` (a report without unfinished browsers leaves none, launches
in progress included), `StopEndsBrowser` (an accepted stop ends its browser unless
its entry is replaced).

Chat: `RegistryExact` (busy exactly while a task lives), `RequestWorksOnce`
(after a lost replay entry, after a crash between two writes), `NoDispatchAfterAbort`, `LiveRowKept`, `DestroyedWindowAborts`,
`StopsAsAsked` (a user's stop takes effect only on the task its cancel names, and
the first reason of a stopped task is the one it ends for), `CompletedRowHasAnswer`,
`TasksEnd`. With one window, the run exercises the replay of a request by the same
window only; that two windows cannot work on one request either is in `ChatCorrect`,
which is for any set of windows.

Configuration: `RouteMeasured`, `NewestWins`, `SampleCountedOnce`,
`ClearedStaysCleared`, `CacheFromNewestProbe`, `EditSawItsList`.

Restore: `GateMeansWhole` (an open gate means that directory and configuration
agree in every configuration a power loss can leave), `OutcomeIsTrue`,
`NoMoveUnderBrowser`, `LeasesReturned`.

Bounds. `MaxJobs` bounds the rows of a behaviour, not the steps: a row can be
queued, run, parked, resumed and cancelled, and rules are edited without limit.
Two rows are the smallest number where two executions of one rule or of two
rules meet, which is what every safety property quantifies over; three rows and
three rules are needed for two waiters behind one slot. `KeepSkipped` and
`KeepTerminal` are 1 in `safety`, so that pruning really deletes rows.
`CooldownAfter` 2 lets one failure retry and the second one cool down; in
`slots` it is 3, so that the retrying rule can exhaust its retry. `MaxPlans` 2
allows one edit to mint a new plan, `MaxRollbacks` 1 one clock rollback.
The bound that the passing runs stop at is `MaxJobs`; timers and edits go on,
so deadlock is checked in them. The three violation runs have less environment
and may stop, so they do not check it.

`browser`: `MaxPids` 2 gives a browser and the one that replaces it, which every
hazard of the table is about; two launches are needed for the lock to matter.
`chat`: `CacheSize` 0 forgets a finished request at once, the case in which only
history protects a replay; `KeepRows` 1 makes retention drop rows of ended tasks
beside a live one; `MaxRuns` 2 bounds tasks, so that a cancel sent to the first
can meet the second, and `MaxCancels` 1 is enough for that. `config`: two probes are an older
and a newer one, two commits allow a route to change and change back; the
constraint `OneFence` separates behaviours that use references from those that
use probes, since the two share nothing but the commit. Symmetry is used there,
where no liveness property is checked. `restore`: three profiles are one
finished, one under way and one to come; two restores let a second one meet the
receipts of the first. `updates`: three transitions. In `chat`, `config`,
`restore` and `updates` the system really stops at its bound, so deadlock is not
checked; the liveness properties of the first and third are.

Fairness (`FairSpec`): every continuation of a call runs once its promise is
settled (the event loop), every action settles (`withTimeout` settles it even
if the action does not return; a rule that sets `runTimeoutMs` to 0 or less opts out of
that and is outside this assumption), and a retry timer fires. Triggers, users, the clock, crashes
and the end of an abandoned action are owed nothing.

The browser (`Fairness` in `Spec`): a suspended launch goes on, a stop goes from
phase to phase (its awaits and polls have deadlines), the kernel ends a process
after SIGKILL and its exit is reported. Nothing makes a browser obey SIGTERM, a
user stop anything, or Studio quit. The chat: the task's timeout fires, which
the code sets before anything else, and a task that was stopped goes on (model
calls and pending approvals listen to its signal, tool calls are bounded); a task
that was not stopped, its model and the user are owed nothing. The restore (`WF_vars(PullStep)`):
each step of `pullFullProfileSnapshot` succeeds or fails. Launches, crashes and pulls are owed
nothing. `ConfigStore` and `UpdateManager` state no fairness.

## 5. Proofs

TLAPS proves, for every value of the constants, every invariant and every action
property that a passing run checks, and the refinement. The bounds (`MaxJobs`,
`MaxPids`, `MaxRuns`, ...) are constants like the others, so a proof holds
however large they are; so it does for every subset of the environment, of
the faults and of the caps. The assumptions are the named ones of the modules
(`StoreAssumption`, `GuardAssumption`, `SchedulerAssumption`, `BrowserAssumption`,
`ChatAssumption`, `BoundAssumption`, `AbsenceAssumption`, `PullAssumption`,
`FaultAssumption`, `AbsentAssumption`). They only say what kind of value a
constant is and that absence is not a member; the runs evaluate them.

| theorem | of `Spec` | inductive invariant |
|---|---|---|
| `TypeCorrect` | `TypeOK` | itself |
| `LockCorrect`, `StaleRunsAreInert` | `LockIsExact`; `StaleRunIsInert` | `LockInv` |
| `RowsCorrect` | `PendingRowHasOwner`, `AlertTruth`, `NoRetryOverZombie`, `StopQuiesces` | `RowsInv` |
| `EngineImplementsLifecycle` | `ImplementsLifecycle` | `RowsInv` |
| `RulesCorrect` | `MissedHasNoWork`, `CardHidesNoWork` | `RulesInv` over `RowsInv` |
| `SlotsCorrect` | `SlotAccounting`, `NoStrandedWaiter` | both together, over `RowsInv` |
| `RetriesCorrect` | `RetryIsAllowed`, `AttemptsBounded` | `AttemptsBounded` over `RowsInv` and `RulesInv` |
| `BrowserCorrect` | `TypeOK`, `OwnedUntilExit`, `OneBrowserPerProfile`, `CleanShutdownIsTrue` | `BrowserInv` |
| `ChatCorrect`, `NothingDispatchedAfterAbort`, `StoppedTasksKeepTheirReason` | `TypeOK` and the five invariants; `NoDispatchAfterAbort`; `StopsAsAsked` | `ChatInv` |
| `ConfigCorrect`, `NewestSampleWins` | `TypeOK` and the five invariants; `NewestWins` | `ConfigInv` |
| `RestoreCorrect`, `NothingMovesUnderBrowser` | `TypeOK`, `GateMeansWhole`, `OutcomeIsTrue`; `NoMoveUnderBrowser` | `RestoreInv` |

TLC confirmed each inductive invariant on the instances of section 4 before it
was proved. Each is defined in the properties module, part by part, with a
comment per part.

**The engine.** Four modules, each on top of the one before.

- Types: one lemma per operator of the store, the guard and the slots, then one
  per group of actions. The lemmas also carry the fact that an operator keeps the
  rule of the rows it does not create.
- The lock. `LockIsExact` alone is not inductive: a retry timer could start a
  second call for a rule, a pruned row could lose the rule its call will unlock,
  a waiter listed twice in the queue could be granted twice. `LockInv` adds what
  excludes these: busy rows exist, are in order and not skipped (`RowsInOrder`,
  `BusyRowsExist`), the queue lists waiting calls once (`QueueWaits`), a parked
  row is idle and of its own rule (`ParkedIsIdle`). Stale runs follow: the call
  that ends is the only one of its rule, so no other completion parks or disables
  in the same step.
- The rows. `AlertTruth` needs to know that an alerted row is over and idle, and
  `NoRetryOverZombie` that a timed-out call which has not ended yet has its
  cancel flag set; `PendingRowHasOwner` needs that a row whose action runs was
  ended by a cancel or not at all, and that a row not handed out has left no
  trace. `RowsInv` says these row by row (`RowKnown`, `RowOwned`, `RowReported`,
  `RowStopped`). Nearly every row is a bystander of a step: it stays (at most it
  is pruned, handed the slot, or invalidated), or its parked retry is abandoned.
  Those two cases are proved once (`StayingKeeps`, `AbandoningKeeps`), and the
  lemma of an action is about the one row it works on. What is proved of a row
  is `RowMoves`: the invariant again, an edge of the life cycle, and no change of
  its rule, source or plan. The refinement then needs only one more fact: two
  running rows of one rule would be two holders of its lock (`OneRunsPerRule`).
- The rules. A missed mark is set on a rule without work, but nothing in that
  says that no work of the plan comes back: an old run could park a retry, a
  retry could be of an older plan, a timer and a retry could both own a once.
  `RulesInv` adds that a retry and the runs that may still park one are of the
  enabled rule and its current plan (`RetryIsCurrent`, `RunsAreCurrent`) and that
  a once plan has one of timer, run and retry (`OnceHasOneOwner`).
- The slots. The accounting is carried by the cardinalities of holders and
  waiters. It relies on the rows: a granted call is never a test, which takes no
  slot, so whoever releases was counted.
- The attempts. `AttemptsBounded` says that no execution is attempted more often
  than one plus `maxRetries`, and a parked row has an attempt left. The attempt is
  counted at admission, so what has to be excluded is a row that is parked, cut
  off and parked again without it. It is proved, and TLC confirmed it on the
  instances of `safety`, `slots` and `once`; no cfg lists it, as `RetryIsAllowed` is
  the part of it a user sees.

**Browser life cycle.** `OwnedUntilExit` is lost if a launch or a cleanup releases
another process's entry. `LaunchesFormed` says what a call may rely on when it
resumes: nothing lives in a profile that is prepared, nothing but the candidate
in one that is reused, and no stop works on a child that is cleaned up.
`StopsCurrent` ties a stop to its entry, `LocksExclusive` is why one launch does
not disturb another, and `ShutdownTracks` is what the final report is computed
from. Most steps let processes age and move single entries, stops and calls, each
proved once; `Spawn` and `Restart` are taken on their own.

**Desktop chat.** `RequestWorksOnce` rests on `ClaimedOnce`: a task that saved its
message has its request on disk, and no other task has that request; this
survives the replay cache, retention and a crash. `RowsHeld` (the recorder holds
the rows of live tasks) protects them from retention, `TasksWatched` (a window
with a task is listened to) makes its destruction reach every task.

**Configuration store.** All writers either empty a proxy or leave it what a
present proxy of its route showed, and leave its generation alone only if nothing
of it moved (`Fate`); one lemma per writer establishes that, and one concludes the
invariant. `FenceHolds` is the heart: whatever a caller whose target is still
current brings is newer than what is shown, or the accepted order refuses it.

**Restore.** The core is `FencedUnlessWhole`, stronger than `GateMeansWhole`: also
during a restore a profile without a receipt agrees with every configuration a
power loss can leave. `Applying`, `Undoable` and `Committed` say what a fenced
profile looks like in each phase, so that the undo and the removal of a receipt
are right when they happen; `Reasoned` ties the report to them.

**Only model-checked.** Liveness (`ExecutionsEnd`, `LocksReleased`,
`StopEndsBrowser`, `TasksEnd`, `LeasesReturned`): fairness and ENABLED are outside
the prover's reach. The violation runs, whose properties do not hold, and with
them `UpdateManager`. No module contains a recursive operator.

## 6. Where the code and its comments disagree

1. `MissedMeansNotExecuted` (`missed_done`). While a once executes, any rule is
   edited. The generation is stale, so the once is not consumed although its row
   is done; the next reload finds it enabled, past due and idle, and marks it
   missed. The M3 document says only a once that was not executed is marked.
2. `FailedExecutionAlerted` (`silent_failure`). A retry is parked; any rule is
   edited; `clearRetry` ends the row as failed. The only notification point is in
   `runRule`, so a failed execution is never alerted, against "one alert per FINAL
   logical execution".
3. `PlannedOnceIsArmed` (`lost_timer`). A focus or resume refresh during a
   manual test of a future once: the guard is locked by the test, the refresh
   takes the rule for one that already fired and drops its timer. The status
   card still says scheduled (`automation-state.ts:278`); nothing will fire
   until the next reload or refresh.

4. `SuccessIsNotStopping` (`reuse_stopping`). Warm reuse refuses an entry that is
   stopping, then awaits the verification of the port, then publishes a copy of
   the entry. A stop accepted in between has set `stopping` on the entry: the copy
   carries it, the launch returns success, and the stop, which compares entries
   by identity, sees its entry replaced and gives up. `browser-manager.ts:1982`
   says "Verification must never publish success into a replaced/stopping
   runtime"; the fresh launch does check it.
5. `EveryTransitionRecorded` (`updates`). `checkForUpdates` and `installRelease`
   save the state they read before the network. An activation, a rollback or an
   installation made meanwhile disappears, against `update-manager.ts:7`, "Every
   transition is recorded in the audit log and in the persisted history".

Also noticed: one crash is counted twice, by the handler of the uncaught
exception and by the exit handler it triggers (`src/src/main/index.ts:324` and
`:339`), so two crashes reach the threshold of three; no document says how often a
crash counts. And `src/src/main/types.ts:811` calls `missedAt` "Display-only: it
never affects arming", while `scheduleRule` refuses to arm a marked once
(`automation.ts:772`), as its own comment explains.

## 7. Not modelled

Components with status `not_modelled` in `PROJECT.json`, each with its reason:
the batch queue (independent workers, and its timeout policy is accepted by its
comment), the protocol clients (requests that do not interact), the result files
of runs, manual retries, and the data and I/O parts of section 1.

Within what is modelled:

- Engine: store failures, template validation of rule payloads, rule creation,
  next-run times and cron expressions, delivery of notifications, and what an
  action does.
- Browser: Firefox and Camoufox launches, the idle reaper, proxy bridges, reuse
  of a pid by the operating system.
- Chat: which requests need an approval and remembered decisions, scopes,
  variables and verification of runs, streaming.
- Configuration: sections other than proxies and accounts. Some IPC handlers
  change the configuration object in place and save it afterwards; what a
  failing save leaves in memory there is not modelled.
- Restore and synchronization: push, partial pulls into running profiles, stage
  reports, and two Studio processes with one data directory, which
  `config/store.ts:13` excludes.
- Updates: downloads, hashes and unpacking.
