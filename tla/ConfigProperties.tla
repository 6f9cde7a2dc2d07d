-------------------------- MODULE ConfigProperties --------------------------
(* What services/config/store.ts promises about measurements and accounts. *)
EXTENDS ConfigStore

\* What a caller of detectProxyTarget holds: a target and the order of a probe.
Calls == [state : {"idle", "waiting", "network", "cache"}, name : Proxy \cup {Nobody},
          generation : 0..commits, route : Route \cup {NoRoute},
          policy : {"prefer-cache", "refresh"}, order : 0..MaxProbes]
\* Only a caller that was answered or waits names a probe of its route.
NamesProbe(c) ==
  /\ call[c].order \in DOMAIN probe
  /\ probe[call[c].order].route = call[c].route
  /\ Waiting(c) = probe[call[c].order].running

(* Types of the variables of the store and of the detector. *)
TypeOK ==
  /\ config \in [route : [Proxy -> Route \cup {NoRoute}], detection : [Proxy -> 0..MaxProbes],
                 health : [Proxy -> Seq(Order)], accounts : Accounts]
  /\ commits \in 1..(MaxCommits + 1)
  /\ generation \in [Proxy -> 1..commits]
  /\ accepted \in [Proxy -> [order : 0..MaxProbes, healthApplied : BOOLEAN]]
  /\ revision \in 1..commits
  /\ call \in [Caller -> Calls]
  /\ probe \in Seq([route : Route, running : BOOLEAN])
  /\ Len(probe) <= MaxProbes
  /\ cache \in [Route -> 0..Len(probe)]
  /\ owner \in [Route -> 0..Len(probe)]
  /\ ref \in [Reader -> {NoReference} \cup [revision : 1..commits, saw : Accounts]]
  /\ cleared \in [Proxy -> 0..Len(probe)]
  /\ \A c \in Caller : call[c].state # "idle" => NamesProbe(c)

SamplesOf(p) == {config.health[p][i] : i \in DOMAIN config.health[p]}
                  \cup ({config.detection[p]} \ {0})

(* A measurement never outlives its route: whatever the store shows for a    *)
(* proxy was measured on the route the proxy has now, through every edit,    *)
(* rename, deletion, pull, reload and late answer.                           *)
RouteMeasured == \A p \in Proxy : \A n \in SamplesOf(p) : probe[n].route = config.route[p]

(* While a proxy is not replaced or reset, the sample shown for it is never  *)
(* overwritten by one whose probe was started earlier, in whatever order the *)
(* answers and their commits arrive.                                         *)
NewestWins ==
  [][\A p \in Proxy :
       generation'[p] = generation[p] /\ 0 \notin {config.detection[p], config'.detection[p]}
         => config'.detection[p] >= config.detection[p]]_vars

(* One probe is one check: the callers that shared it, and the cached copies *)
(* of its answer, never count it twice in a proxy's health.                  *)
SampleCountedOnce ==
  \A p \in Proxy : Cardinality({config.health[p][i] : i \in DOMAIN config.health[p]})
                     = Len(config.health[p])

(* A history that was cleared, or dropped with its route, is not refilled by *)
(* a probe that was already under way.                                       *)
ClearedStaysCleared ==
  \A p \in Proxy : \A i \in DOMAIN config.health[p] : config.health[p][i] > cleared[p]

(* The cache holds the answer of the newest probe of the route or nothing:   *)
(* an older probe that answers late, or after a newer one failed, is not     *)
(* what the next launch reuses.                                              *)
CacheFromNewestProbe ==
  \A a \in Route : cache[a] # 0 => \A n \in DOMAIN probe : probe[n].route = a => n <= cache[a]

(* An edit of an account by its position changes the very list its author    *)
(* was shown: no writer, referenced or not, local or pulled, came between.   *)
EditSawItsList == edit.saw = edit.over

-----------------------------------------------------------------------------
(* The inductive invariant behind the properties above: what the store and   *)
(* the detector rely on between two transactions.                            *)

\* Nothing is shown for a proxy that is not there.
AbsentIsEmpty ==
  \A p \in Proxy : ~Present(p) => config.detection[p] = 0 /\ config.health[p] = << >>

\* A sample was measured by a probe that was dispatched, on the proxy's route.
SamplesMeasured ==
  \A p \in Proxy : \A n \in SamplesOf(p) : n \in DOMAIN probe /\ probe[n].route = config.route[p]

\* The owner of a route's cache is its newest probe, and only that one is cached.
CacheIsOwned ==
  \A a \in Route :
    /\ cache[a] \in {0, owner[a]}
    /\ cache[a] # 0 => ~probe[cache[a]].running
    /\ owner[a] # 0 => /\ probe[owner[a]].route = a
                       /\ \A n \in DOMAIN probe : probe[n].route = a => n <= owner[a]

\* A history holds no sample twice.
NoSampleTwice ==
  \A p \in Proxy : \A i, j \in DOMAIN config.health[p] :
    config.health[p][i] = config.health[p][j] => i = j

\* What a caller of a target that is still current brings: a sample as new as
\* the one shown or behind the order accepted last, and, if it is to count, one
\* later than the history's last clearing that was not counted or that the
\* accepted order refuses.
Fenced(c) ==
  LET p == call[c].name
      n == call[c].order
  IN /\ p \in Proxy
     /\ TargetIsCurrent(c) =>
          /\ config.detection[p] <= n \/ config.detection[p] <= accepted[p].order
          /\ call[c].state # "cache" =>
               /\ n > cleared[p]
               /\ \A i \in DOMAIN config.health[p] : config.health[p][i] = n =>
                    n < accepted[p].order \/ (n = accepted[p].order /\ accepted[p].healthApplied)
FenceHolds == \A c \in Caller : call[c].state # "idle" => Fenced(c)

\* A reference of this revision was read with the accounts of this revision.
ReferenceCurrent ==
  \A u \in Reader : ref[u].revision = revision => ref[u].saw = config.accounts

ConfigInv ==
  /\ TypeOK
  /\ AbsentIsEmpty
  /\ SamplesMeasured
  /\ CacheIsOwned
  /\ NoSampleTwice
  /\ ClearedStaysCleared
  /\ FenceHolds
  /\ ReferenceCurrent
  /\ EditSawItsList
=============================================================================
