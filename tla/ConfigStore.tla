----------------------------- MODULE ConfigStore -----------------------------
(***************************************************************************)
(* The committed configuration (services/config/store.ts) and the two      *)
(* fences it keeps: proxy measurements, which come back from the network   *)
(* long after the route they were started on may have been replaced, and   *)
(* account edits, which name a row by its position in a list the user saw  *)
(* earlier.                                                                *)
(*                                                                         *)
(* A transaction is synchronous: draft, normalisation, witness, write,     *)
(* rename, publication.  It either publishes what it wrote or changes      *)
(* nothing, so it is one action here and a failed one only ends its        *)
(* caller.  What interleaves are the detections between transactions.      *)
(*                                                                         *)
(* A route stands for a proxy's identity token (type, host, port, user,    *)
(* password, bypass list); a sample is named by the order its probe was    *)
(* given; the list of accounts is a value.                                 *)
(***************************************************************************)
EXTENDS Naturals, Sequences, FiniteSets

CONSTANTS Proxy,        \* names of proxies
          Route,        \* identities a proxy may have
          Caller,       \* asynchronous callers of a detection
          Reader,       \* holders of a reference to an account
          Accounts,     \* values of the list of accounts
          MaxProbes,    \* bound: probes dispatched
          MaxCommits    \* bound: commits that change more than a measurement

ASSUME BoundAssumption == MaxProbes \in Nat /\ MaxCommits \in Nat

CONSTANTS NoRoute, Nobody
ASSUME AbsenceAssumption == NoRoute \notin Route /\ Nobody \notin Proxy

VARIABLES config,       \* the published bundle: routes, projections, accounts
          generation,   \* proxyGeneration
          accepted,     \* proxyOrder: the newest order and whether health has it
          revision,     \* accountRevision
          commits,      \* nonces handed out
          call,         \* what each caller of detectProxyTarget waits for or holds
          probe,        \* the dispatched probes, by order
          cache,        \* detectCache: the order of the cached sample of a route
          owner,        \* cacheRequests: the newest probe of a route
          ref,          \* the account reference each reader holds
          edit,         \* the list the last referenced edit saw and the one it changed
          cleared       \* the last order handed out when a history was dropped

storeVars == <<config, generation, accepted, revision, commits>>
probeVars == <<call, probe, cache, owner>>
vars == <<storeVars, probeVars, ref, edit, cleared>>

Order == 1..MaxProbes
Idle == [state |-> "idle", name |-> Nobody, generation |-> 0, route |-> NoRoute,
         policy |-> "refresh", order |-> 0]
NotAccepted == [order |-> 0, healthApplied |-> FALSE]
NoReference == [revision |-> 0, saw |-> {}]

NewConfig(start, list) ==
  [route |-> start, detection |-> [p \in Proxy |-> 0],
   health |-> [p \in Proxy |-> << >>], accounts |-> list]

Init ==
  /\ \E start \in [Proxy -> Route \cup {NoRoute}], list \in Accounts :
       config = NewConfig(start, list)
  /\ generation = [p \in Proxy |-> 1]
  /\ accepted = [p \in Proxy |-> NotAccepted]
  /\ revision = 1
  /\ commits = 1
  /\ call = [c \in Caller |-> Idle]
  /\ probe = << >>
  /\ cache = [a \in Route |-> 0]
  /\ owner = [a \in Route |-> 0]
  /\ ref = [u \in Reader |-> NoReference]
  /\ edit = [saw |-> {}, over |-> {}]
  /\ cleared = [p \in Proxy |-> 0]

-----------------------------------------------------------------------------
(* transact, prepareCommit, adoptLoadedConfig *)

Present(p) == config.route[p] # NoRoute
Changed(draft) == {p \in Proxy : Present(p) /\ draft.route[p] \notin {NoRoute, config.route[p]}}
Added(draft) == {p \in Proxy : ~Present(p) /\ draft.route[p] # NoRoute}

(* Mutant: only the writers that drop the projections themselves drop them. *)
ProjectedAsWritten(draft) ==
  LET kept == {p \in Proxy : draft.route[p] # NoRoute}
  IN [draft EXCEPT !.detection = [p \in Proxy |-> IF p \in kept THEN @[p] ELSE 0],
                   !.health = [p \in Proxy |-> IF p \in kept THEN @[p] ELSE << >>]]

\* The normalizer keeps no projection of a proxy that is not there, and
\* prepareCommit none of a proxy whose identity changed.
Projected(draft) ==
  LET kept == {p \in Proxy : draft.route[p] # NoRoute} \ Changed(draft)
  IN [draft EXCEPT !.detection = [p \in Proxy |-> IF p \in kept THEN @[p] ELSE 0],
                   !.health = [p \in Proxy |-> IF p \in kept THEN @[p] ELSE << >>]]

(* Mutant: the revision moves only when the writer asks for it. *)
RotatesOnRequest(draft, force) == force
RevisionRotates(draft, force) == force \/ draft.accounts # config.accounts

\* Publishes `draft`.  The generations of the proxies that are new, changed or
\* in `invalid` start over.
Publish(draft, invalid, force) ==
  LET reset == Added(draft) \cup Changed(draft) \cup invalid
  IN /\ commits <= MaxCommits
     /\ commits' = commits + 1
     /\ config' = Projected(draft)
     /\ generation' = [p \in Proxy |-> IF p \in reset THEN commits' ELSE generation[p]]
     /\ accepted' = [p \in Proxy |-> IF p \in reset \/ draft.route[p] = NoRoute
                                      THEN NotAccepted ELSE accepted[p]]
     /\ revision' = IF RevisionRotates(draft, force) THEN commits' ELSE revision

\* app:reload-config, and the load of a started program: the bundle last
\* written, under new nonces.
AdoptLoaded == Publish(config, Proxy, TRUE)
ReloadConfig == AdoptLoaded /\ UNCHANGED <<probeVars, ref, edit, cleared>>
Restart ==
  /\ AdoptLoaded
  /\ call' = [c \in Caller |-> Idle]
  /\ probe' = [n \in DOMAIN probe |-> [probe[n] EXCEPT !.running = FALSE]]
  /\ cache' = [a \in Route |-> 0]
  /\ owner' = [a \in Route |-> 0]
  /\ ref' = [u \in Reader |-> NoReference]
  /\ UNCHANGED <<edit, cleared>>

-----------------------------------------------------------------------------
(* The writers of proxies *)

Drop(draft, names) ==
  [draft EXCEPT !.detection = [p \in Proxy |-> IF p \in names THEN 0 ELSE @[p]],
                !.health = [p \in Proxy |-> IF p \in names THEN << >> ELSE @[p]]]
Forget(names) == cleared' = [p \in Proxy |-> IF p \in names THEN Len(probe) ELSE cleared[p]]

AddProxy(p, a) ==
  /\ Publish(Drop([config EXCEPT !.route[p] = a], {p}), {p}, FALSE)
  /\ Forget({p})
  /\ UNCHANGED <<probeVars, ref, edit>>

\* updateProxy, and renameProxy under the same name: the store compares the routes.
UpdateProxy(p, a) ==
  /\ Present(p)
  /\ Publish([config EXCEPT !.route[p] = a], {}, FALSE)
  /\ Forget(IF a = config.route[p] THEN {} ELSE {p})
  /\ UNCHANGED <<probeVars, ref, edit>>

\* The measurements follow the proxy to its new name only if its route did not change.
RenameProxy(p, q, a) ==
  LET moved == [config EXCEPT !.route[q] = a, !.route[p] = NoRoute,
                              !.detection[q] = config.detection[p],
                              !.health[q] = config.health[p]]
      same == a = config.route[p]
  IN /\ Present(p) /\ ~Present(q)
     /\ Publish(IF same THEN moved ELSE Drop(moved, {q}), {}, FALSE)
     /\ cleared' = [cleared EXCEPT ![q] = IF same THEN cleared[p] ELSE Len(probe),
                                   ![p] = Len(probe)]
     /\ UNCHANGED <<probeVars, ref, edit>>

DeleteProxy(p) ==
  /\ Present(p)
  /\ Publish([config EXCEPT !.route[p] = NoRoute], {}, FALSE)
  /\ Forget({p})
  /\ UNCHANGED <<probeVars, ref, edit>>

(* Mutant: clearing a history does not retire the targets captured before. *)
ClearHealthOnly(names) ==
  /\ \A p \in names : Present(p)
  /\ Publish([config EXCEPT !.health = [p \in Proxy |-> IF p \in names THEN << >> ELSE @[p]]],
             {}, FALSE)
  /\ Forget(names)
  /\ UNCHANGED <<probeVars, ref, edit>>
ClearProxyHealth(names) ==
  /\ \A p \in names : Present(p)
  /\ Publish([config EXCEPT !.health = [p \in Proxy |-> IF p \in names THEN << >> ELSE @[p]]],
             names, FALSE)
  /\ Forget(names)
  /\ UNCHANGED <<probeVars, ref, edit>>

\* A pull merges the routes and the accounts of another device into the live draft.
ApplyRemote(route, list) ==
  LET draft == [config EXCEPT !.route = route, !.accounts = list]
  IN /\ \A p \in Proxy : Present(p) => route[p] # NoRoute
     /\ draft # config
     /\ Publish(draft, {}, FALSE)
     /\ Forget(Changed(draft))
     /\ UNCHANGED <<probeVars, ref, edit>>

-----------------------------------------------------------------------------
(* The writers of accounts *)

\* getAccounts: the rows with the revision they were read under.
ReadAccounts(u) ==
  /\ ref' = [ref EXCEPT ![u] = [revision |-> revision, saw |-> config.accounts]]
  /\ UNCHANGED <<storeVars, probeVars, edit, cleared>>

\* addAccount, saveAccounts, bulkAddAccounts: no reference.
WriteAccounts(list) ==
  /\ Publish([config EXCEPT !.accounts = list], {}, TRUE)
  /\ UNCHANGED <<probeVars, ref, edit, cleared>>

\* updateAccount, deleteAccount, setAccountProfileIds: the reference must be
\* of this revision.  The caller gets the row back under the new one.
EditAccount(u, list) ==
  /\ ref[u].revision = revision
  /\ edit' = [saw |-> ref[u].saw, over |-> config.accounts]
  /\ Publish([config EXCEPT !.accounts = list], {}, TRUE)
  /\ ref' = [ref EXCEPT ![u] = [revision |-> commits', saw |-> list]]
  /\ UNCHANGED <<probeVars, cleared>>

-----------------------------------------------------------------------------
(* detectProxyTarget and proxyDetector.detect *)

Target(p) == [name |-> p, generation |-> generation[p], route |-> config.route[p]]
Waiting(c) == call[c].state = "waiting"
SameKey(c, p, policy) ==
  /\ Waiting(c)
  /\ call[c].policy = policy
  /\ Target(p) = [name |-> call[c].name, generation |-> call[c].generation, route |-> call[c].route]

Asked(p, policy, state, order) ==
  [state |-> state, name |-> p, generation |-> generation[p], route |-> config.route[p],
   policy |-> policy, order |-> order]

\* A cache miss or a refresh takes the next order and the cache of its route.
Dispatch(a) ==
  /\ Len(probe) < MaxProbes
  /\ probe' = Append(probe, [route |-> a, running |-> TRUE])
  /\ owner' = [owner EXCEPT ![a] = Len(probe) + 1]
  /\ cache' = [cache EXCEPT ![a] = 0]

JoinDetection(c, p, policy) ==
  /\ call[c].state = "idle" /\ Present(p)
  /\ \E d \in Caller : /\ SameKey(d, p, policy)
                       /\ call' = [call EXCEPT ![c] = call[d]]
  /\ UNCHANGED <<storeVars, probe, cache, owner, ref, edit, cleared>>

CachedDetection(c, p) ==
  LET n == cache[config.route[p]]
  IN /\ call[c].state = "idle" /\ Present(p)
     /\ \A d \in Caller : ~SameKey(d, p, "prefer-cache")
     /\ n # 0
     /\ call' = [call EXCEPT ![c] = Asked(p, "prefer-cache", "cache", n)]
     /\ UNCHANGED <<storeVars, probe, cache, owner, ref, edit, cleared>>

\* For "prefer-cache": nothing is cached, or what is has expired.
StartDetection(c, p, policy) ==
  /\ call[c].state = "idle" /\ Present(p)
  /\ \A d \in Caller : ~SameKey(d, p, policy)
  /\ Dispatch(config.route[p])
  /\ call' = [call EXCEPT ![c] = Asked(p, policy, "waiting", Len(probe) + 1)]
  /\ UNCHANGED <<storeVars, ref, edit, cleared>>

\* detect:proxy measures a configuration no name is bound to yet.
StartUntargeted(a) ==
  /\ Dispatch(a)
  /\ UNCHANGED <<storeVars, call, ref, edit, cleared>>

(* Mutant: a late answer is cached although a newer probe of the route began. *)
RememberedLate(n) == [cache EXCEPT ![probe[n].route] = n]
Remembered(n) == IF owner[probe[n].route] = n THEN [cache EXCEPT ![probe[n].route] = n] ELSE cache

(* Mutant: the callers of an aborted probe are not answered. *)
SettleAnswered(n, outcome) ==
  /\ probe[n].running
  /\ probe' = [probe EXCEPT ![n].running = FALSE]
  /\ cache' = IF outcome = "success" THEN Remembered(n) ELSE cache
  /\ call' = [c \in Caller |->
       IF Waiting(c) /\ call[c].order = n /\ outcome # "unknown"
       THEN [call[c] EXCEPT !.state = "network"] ELSE call[c]]
  /\ UNCHANGED <<storeVars, owner, ref, edit, cleared>>

\* "success" and "failure" carry a network observation; "unknown" is an
\* aborted probe or one that was never dispatched.
Settle(n, outcome) ==
  /\ probe[n].running
  /\ probe' = [probe EXCEPT ![n].running = FALSE]
  /\ cache' = IF outcome = "success" THEN Remembered(n) ELSE cache
  /\ call' = [c \in Caller |->
       IF Waiting(c) /\ call[c].order = n
       THEN IF outcome = "unknown" THEN Idle ELSE [call[c] EXCEPT !.state = "network"]
       ELSE call[c]]
  /\ UNCHANGED <<storeVars, owner, ref, edit, cleared>>

-----------------------------------------------------------------------------
(* commitProxyDetectionIfCurrent and transactProxyObservation *)

(* Mutant: the identity alone says that the target is current. *)
SameRoute(c) == Present(call[c].name) /\ config.route[call[c].name] = call[c].route
TargetIsCurrent(c) ==
  /\ Present(call[c].name)
  /\ generation[call[c].name] = call[c].generation
  /\ config.route[call[c].name] = call[c].route

(* Mutant: an older order is not refused. *)
AnyOrder(order, now) == TRUE
NotStale(order, now) == order >= now.order

(* Mutant: the second caller of one probe counts it again. *)
NewOrRepeated(order, now, network) == network \/ order # now.order
NotDuplicate(order, now, network) == order # now.order \/ (network /\ ~now.healthApplied)

Accepts(c) ==
  LET now == accepted[call[c].name]
      network == call[c].state = "network"
  IN TargetIsCurrent(c) /\ NotStale(call[c].order, now) /\ NotDuplicate(call[c].order, now, network)

\* A measurement changes neither an identity nor the accounts: no nonce moves.
CommitDetection(c) ==
  LET p == call[c].name
      n == call[c].order
      network == call[c].state = "network"
  IN /\ call[c].state \in {"network", "cache"}
     /\ Accepts(c)
     /\ config' = [config EXCEPT !.detection[p] = n,
                                 !.health[p] = IF network THEN Append(@, n) ELSE @]
     /\ accepted' = [accepted EXCEPT ![p] = [order |-> n, healthApplied |-> network]]
     /\ call' = [call EXCEPT ![c] = Idle]
     /\ UNCHANGED <<generation, revision, commits, probe, cache, owner, ref, edit, cleared>>

\* A changed target, a stale order, a duplicate, or a write that failed.
CommitNothing(c) ==
  /\ call[c].state \in {"network", "cache"}
  /\ call' = [call EXCEPT ![c] = Idle]
  /\ UNCHANGED <<storeVars, probe, cache, owner, ref, edit, cleared>>

-----------------------------------------------------------------------------
WriteProxies ==
  \/ \E p \in Proxy, a \in Route : AddProxy(p, a) \/ UpdateProxy(p, a)
  \/ \E p, q \in Proxy, a \in Route : RenameProxy(p, q, a)
  \/ \E p \in Proxy : DeleteProxy(p)
  \/ \E p \in Proxy : ClearProxyHealth({p})
  \/ ClearProxyHealth({p \in Proxy : Present(p)})
  \/ \E route \in [Proxy -> Route \cup {NoRoute}], list \in Accounts : ApplyRemote(route, list)

WriteAccountRows ==
  \/ \E u \in Reader : ReadAccounts(u)
  \/ \E list \in Accounts : WriteAccounts(list)
  \/ \E u \in Reader, list \in Accounts : EditAccount(u, list)

Detect ==
  \/ \E c \in Caller, p \in Proxy :
       \/ CachedDetection(c, p)
       \/ \E policy \in {"prefer-cache", "refresh"} :
            JoinDetection(c, p, policy) \/ StartDetection(c, p, policy)
  \/ \E a \in Route : StartUntargeted(a)
  \/ \E n \in DOMAIN probe, outcome \in {"success", "failure", "unknown"} : Settle(n, outcome)
  \/ \E c \in Caller : CommitDetection(c) \/ CommitNothing(c)

Next == WriteProxies \/ WriteAccountRows \/ Detect \/ ReloadConfig \/ Restart
Spec == Init /\ [][Next]_vars
=============================================================================
