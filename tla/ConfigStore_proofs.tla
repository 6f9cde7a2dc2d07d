------------------------- MODULE ConfigStore_proofs -------------------------
(***************************************************************************)
(* The fences of the configuration store, proved for every set of proxies, *)
(* routes, callers, readers and accounts and for every bound: ConfigInv,   *)
(* the inductive invariant of ConfigProperties, with the properties that   *)
(* follow from it.                                                         *)
(*                                                                         *)
(* The writers differ in the draft they commit and agree in what becomes   *)
(* of a proxy: it is emptied or it shows what a present proxy of its route *)
(* showed; and it is gone, or its generation is new, or nothing of it      *)
(* moved.  Fate says so; one lemma per writer establishes it, and one      *)
(* lemma concludes the invariant from it.                                  *)
(***************************************************************************)
EXTENDS ConfigProperties, FiniteSetTheorems, TLAPS

Bundle == [route : [Proxy -> Route \cup {NoRoute}], detection : [Proxy -> 0..MaxProbes],
           health : [Proxy -> Seq(Order)], accounts : Accounts]

Emptied(p) == config'.detection[p] = 0 /\ config'.health[p] = << >>

\* What p shows after a commit, q showed before it.
ShowsWhat(p, q) ==
  /\ Present(q)
  /\ config'.route[p] = config.route[q]
  /\ config'.detection[p] = config.detection[q]
  /\ \/ config'.health[p] = << >>
     \/ config'.health[p] = config.health[q] /\ cleared'[p] = cleared[q]

Unmoved(p) ==
  /\ config'.route[p] = config.route[p]
  /\ config'.detection[p] = config.detection[p]
  /\ config'.health[p] = config.health[p]
  /\ generation'[p] = generation[p]
  /\ accepted'[p] = accepted[p]
  /\ cleared'[p] = cleared[p]

Fate(p) ==
  /\ Emptied(p) \/ \E q \in Proxy : ShowsWhat(p, q)
  /\ generation'[p] = commits' \/ config'.route[p] = NoRoute \/ Unmoved(p)

\* A commit as the fences see it: the store's nonces advance and every caller
\* goes on with what it had or is gone.
Committed ==
  /\ commits' = commits + 1
  /\ config' \in Bundle
  /\ \A p \in Proxy : config'.route[p] = NoRoute => Emptied(p)
  /\ \A c \in Caller : call'[c] \in {call[c], Idle}
  /\ DOMAIN probe' = DOMAIN probe
  /\ \A n \in DOMAIN probe : probe'[n].route = probe[n].route

-----------------------------------------------------------------------------
(* What Publish does *)

\* The published bundle is the draft without the projections of the proxies
\* that are not in it or that changed, and only a reset proxy has a new nonce.
LEMMA PublishEffect ==
  ASSUME TypeOK, NEW draft \in Bundle, NEW invalid \in SUBSET Proxy, NEW force \in BOOLEAN,
         Publish(draft, invalid, force)
  PROVE  /\ config' \in Bundle
         /\ config'.route = draft.route
         /\ config'.accounts = draft.accounts
         /\ \A p \in Proxy : draft.route[p] = NoRoute \/ p \in Changed(draft) => Emptied(p)
         /\ \A p \in Proxy : draft.route[p] # NoRoute /\ p \notin Changed(draft) =>
              /\ config'.detection[p] = draft.detection[p]
              /\ config'.health[p] = draft.health[p]
  <1> DEFINE kept == {p \in Proxy : draft.route[p] # NoRoute} \ Changed(draft)
             detection == [p \in Proxy |-> IF p \in kept THEN draft.detection[p] ELSE 0]
             health == [p \in Proxy |-> IF p \in kept THEN draft.health[p] ELSE << >>]
  <1>1. config' = [draft EXCEPT !.detection = detection, !.health = health]
    BY DEF Publish, Projected
  <1>2. detection \in [Proxy -> 0..MaxProbes]
    BY BoundAssumption DEF Bundle
  <1>3. health \in [Proxy -> Seq(Order)]
    BY DEF Bundle
  <1> HIDE DEF detection, health
  <1>4. /\ config' \in Bundle /\ config'.route = draft.route /\ config'.accounts = draft.accounts
        /\ config'.detection = detection /\ config'.health = health
    BY <1>1, <1>2, <1>3 DEF Bundle
  <1> QED  BY <1>4 DEF detection, health, Emptied

\* The nonces: a proxy that is new, changed or invalidated starts over.
LEMMA PublishNonces ==
  ASSUME TypeOK, NEW draft \in Bundle, NEW invalid \in SUBSET Proxy, NEW force \in BOOLEAN,
         Publish(draft, invalid, force)
  PROVE  /\ commits' = commits + 1 /\ commits' \in 1..(MaxCommits + 1)
         /\ generation' \in [Proxy -> 1..commits']
         /\ accepted' \in [Proxy -> [order : 0..MaxProbes, healthApplied : BOOLEAN]]
         /\ \A p \in Added(draft) \cup Changed(draft) \cup invalid : generation'[p] = commits'
         /\ \A p \in Proxy : p \notin Added(draft) \cup Changed(draft) \cup invalid /\ draft.route[p] # NoRoute =>
              generation'[p] = generation[p] /\ accepted'[p] = accepted[p]
         /\ revision' \in 1..commits'
         /\ revision' = commits' \/ (revision' = revision /\ draft.accounts = config.accounts)
  <1> DEFINE reset == Added(draft) \cup Changed(draft) \cup invalid
  <1>1. commits \in 1..(MaxCommits + 1) /\ commits <= MaxCommits /\ commits' = commits + 1
    BY DEF Publish, TypeOK
  <1>2. commits' \in 1..(MaxCommits + 1) /\ 1..commits \subseteq 1..commits' /\ commits' \in 1..commits'
    BY <1>1, BoundAssumption
  <1>3. generation' = [p \in Proxy |-> IF p \in reset THEN commits' ELSE generation[p]]
    BY DEF Publish
  <1>4. accepted' = [p \in Proxy |-> IF p \in reset \/ draft.route[p] = NoRoute THEN NotAccepted ELSE accepted[p]]
    BY DEF Publish
  <1>5. NotAccepted \in [order : 0..MaxProbes, healthApplied : BOOLEAN]
    BY BoundAssumption DEF NotAccepted
  <1>6. revision' = IF RevisionRotates(draft, force) THEN commits' ELSE revision
    BY DEF Publish
  <1>7. revision' \in 1..commits' /\ (revision' = commits' \/ (revision' = revision /\ draft.accounts = config.accounts))
    BY <1>2, <1>6 DEF RevisionRotates, TypeOK
  <1>8. generation' \in [Proxy -> 1..commits'] /\ accepted' \in [Proxy -> [order : 0..MaxProbes, healthApplied : BOOLEAN]]
    BY <1>2, <1>3, <1>4, <1>5 DEF TypeOK
  <1>9. /\ \A p \in reset : generation'[p] = commits'
        /\ \A p \in Proxy : p \notin reset /\ draft.route[p] # NoRoute =>
             generation'[p] = generation[p] /\ accepted'[p] = accepted[p]
    BY <1>3, <1>4 DEF Added, Changed, reset
  <1> QED  BY <1>1, <1>2, <1>7, <1>8, <1>9 DEF reset
-----------------------------------------------------------------------------
(* What a commit means for the fences *)

Newest(p) ==
  generation'[p] = generation[p] /\ 0 \notin {config.detection[p], config'.detection[p]}
    => config'.detection[p] >= config.detection[p]

\* The samples of a proxy after the commit are samples a present proxy of the
\* same route had before it.
LEMMA FateOfSamples ==
  ASSUME ConfigInv, Committed, NEW p \in Proxy, Fate(p)
  PROVE  /\ \A n \in SamplesOf(p)' : n \in DOMAIN probe' /\ probe'[n].route = config'.route[p]
         /\ \A i, j \in DOMAIN config'.health[p] : config'.health[p][i] = config'.health[p][j] => i = j
         /\ \A i \in DOMAIN config'.health[p] : config'.health[p][i] > cleared'[p]
  <1>1. CASE Emptied(p)
    <2>1. DOMAIN config'.health[p] = {} /\ SamplesOf(p)' = {}
      BY <1>1 DEF Emptied, SamplesOf
    <2> QED  BY <2>1
  <1>2. CASE \E q \in Proxy : ShowsWhat(p, q)
    <2>1. PICK q \in Proxy : ShowsWhat(p, q)
      BY <1>2
    <2>2. SamplesOf(p)' \subseteq SamplesOf(q)
      BY <2>1 DEF ShowsWhat, SamplesOf
    <2>3. \A n \in SamplesOf(p)' : n \in DOMAIN probe' /\ probe'[n].route = config'.route[p]
      BY <2>1, <2>2 DEF ShowsWhat, Committed, ConfigInv, SamplesMeasured
    <2>4. CASE config'.health[p] = << >>
      BY <2>3, <2>4
    <2>5. CASE config'.health[p] = config.health[q] /\ cleared'[p] = cleared[q]
      BY <2>3, <2>5 DEF ConfigInv, NoSampleTwice, ClearedStaysCleared
    <2> QED  BY <2>1, <2>4, <2>5 DEF ShowsWhat
  <1> QED  BY <1>1, <1>2 DEF Fate

\* A caller whose target is current after the commit was captured from a proxy
\* of which nothing moved.
LEMMA FateOfCallers ==
  ASSUME ConfigInv, Committed, NEW c \in Caller, call'[c].state # "idle",
         \A p \in Proxy : Fate(p)
  PROVE  /\ call'[c] = call[c] /\ call[c].name \in Proxy
         /\ TargetIsCurrent(c)' => Unmoved(call[c].name) /\ TargetIsCurrent(c)
  <1>1. call'[c] = call[c]
    BY DEF Committed, Idle
  <1>2. call[c].name \in Proxy
    BY <1>1 DEF ConfigInv, FenceHolds, Fenced
  <1>3. ASSUME TargetIsCurrent(c)'
        PROVE  Unmoved(call[c].name) /\ TargetIsCurrent(c)
    <2> DEFINE p == call[c].name
    <2>1. config'.route[p] # NoRoute /\ generation'[p] = call[c].generation
      BY <1>1, <1>3 DEF TargetIsCurrent, Present
    <2>2. call[c].generation \in 0..commits /\ commits \in Nat
      BY BoundAssumption DEF ConfigInv, TypeOK, Calls
    <2>3. generation'[p] # commits'
      BY <2>1, <2>2 DEF Committed
    <2>4. Unmoved(p)
      BY <1>2, <2>1, <2>3 DEF Fate
    <2>5. TargetIsCurrent(c)
      BY <1>1, <1>3, <2>4 DEF Unmoved, TargetIsCurrent, Present
    <2> QED  BY <2>4, <2>5
  <1> QED  BY <1>1, <1>2, <1>3

\* A commit that leaves each proxy one of the fates keeps the fences.
LEMMA CommitKeeps ==
  ASSUME ConfigInv, Committed, \A p \in Proxy : Fate(p)
  PROVE  /\ AbsentIsEmpty' /\ SamplesMeasured' /\ NoSampleTwice' /\ ClearedStaysCleared' /\ FenceHolds'
         /\ \A p \in Proxy : Newest(p)
  <1>1. AbsentIsEmpty'
    BY DEF AbsentIsEmpty, Committed, Emptied, Present
  <1>2. SamplesMeasured' /\ NoSampleTwice' /\ ClearedStaysCleared'
    BY FateOfSamples DEF SamplesMeasured, NoSampleTwice, ClearedStaysCleared
  <1>3. FenceHolds'
    <2> SUFFICES ASSUME NEW c \in Caller, call'[c].state # "idle"
                 PROVE  Fenced(c)'
      BY DEF FenceHolds
    <2>1. /\ call'[c] = call[c] /\ call[c].name \in Proxy
          /\ TargetIsCurrent(c)' => Unmoved(call[c].name) /\ TargetIsCurrent(c)
      BY FateOfCallers
    <2> QED  BY <2>1 DEF Unmoved, ConfigInv, FenceHolds, Fenced
  <1>4. ASSUME NEW p \in Proxy
        PROVE  Newest(p)
    <2>1. generation[p] \in 1..commits /\ commits' = commits + 1 /\ commits \in Nat
      BY BoundAssumption DEF ConfigInv, TypeOK, Committed
    <2>2. generation[p] # commits'
      BY <2>1
    <2>3. config.detection[p] \in Nat
      BY BoundAssumption DEF ConfigInv, TypeOK
    <2>4. generation'[p] = generation[p] => config'.detection[p] \in {0, config.detection[p]}
      BY <2>2 DEF Fate, Unmoved, Committed, Emptied
    <2> QED  BY <2>3, <2>4 DEF Newest
  <1> QED  BY <1>1, <1>2, <1>3, <1>4
-----------------------------------------------------------------------------
(* The writers *)

\* What a commit does to the store, whatever becomes of the detector's callers.
LEMMA StoreKeeps ==
  ASSUME ConfigInv, NEW draft \in Bundle, NEW invalid \in SUBSET Proxy, NEW force \in BOOLEAN,
         Publish(draft, invalid, force), \A p \in Proxy : Fate(p),
         \A c \in Caller : call'[c] \in {call[c], Idle}, DOMAIN probe' = DOMAIN probe,
         \A n \in DOMAIN probe : probe'[n].route = probe[n].route
  PROVE  /\ AbsentIsEmpty' /\ SamplesMeasured' /\ NoSampleTwice' /\ ClearedStaysCleared' /\ FenceHolds'
         /\ \A p \in Proxy : Newest(p)
         /\ config' \in Bundle /\ config'.accounts = draft.accounts
         /\ commits' \in 1..(MaxCommits + 1)
         /\ generation' \in [Proxy -> 1..commits']
         /\ accepted' \in [Proxy -> [order : 0..MaxProbes, healthApplied : BOOLEAN]]
         /\ revision' \in 1..commits'
         /\ revision' = commits' \/ (revision' = revision /\ draft.accounts = config.accounts)
         /\ 0..commits \subseteq 0..commits' /\ 1..commits \subseteq 1..commits'
         /\ commits' \notin 0..commits
  <1>1. TypeOK
    BY DEF ConfigInv
  <1>2. /\ config' \in Bundle
        /\ \A p \in Proxy : config'.route[p] = NoRoute => Emptied(p)
        /\ config'.accounts = draft.accounts
    BY <1>1, PublishEffect
  <1>3. /\ commits' = commits + 1 /\ commits' \in 1..(MaxCommits + 1)
        /\ generation' \in [Proxy -> 1..commits']
        /\ accepted' \in [Proxy -> [order : 0..MaxProbes, healthApplied : BOOLEAN]]
        /\ revision' \in 1..commits'
        /\ revision' = commits' \/ (revision' = revision /\ draft.accounts = config.accounts)
    BY <1>1, PublishNonces
  <1>4. 0..commits \subseteq 0..commits' /\ 1..commits \subseteq 1..commits' /\ commits' \notin 0..commits
    BY <1>1, <1>3, BoundAssumption DEF TypeOK
  <1>5. Committed
    BY <1>2, <1>3 DEF Committed
  <1>6. /\ AbsentIsEmpty' /\ SamplesMeasured' /\ NoSampleTwice' /\ ClearedStaysCleared' /\ FenceHolds'
        /\ \A p \in Proxy : Newest(p)
    BY <1>5, CommitKeeps
  <1> QED  BY <1>2, <1>3, <1>4, <1>6

\* The callers and the probes keep their types through a commit.
LEMMA DetectorType ==
  ASSUME TypeOK, UNCHANGED probeVars, 0..commits \subseteq 0..commits'
  PROVE  /\ call' \in [Caller -> Calls']
         /\ probe' \in Seq([route : Route, running : BOOLEAN]) /\ Len(probe') <= MaxProbes
         /\ cache' \in [Route -> 0..Len(probe')] /\ owner' \in [Route -> 0..Len(probe')]
         /\ \A c \in Caller : call'[c].state # "idle" => NamesProbe(c)'
  BY DEF TypeOK, Calls, NamesProbe, Waiting, probeVars

\* A commit that leaves the detector and the edits alone keeps the invariant.
LEMMA WriterKeeps ==
  ASSUME ConfigInv, NEW draft \in Bundle, NEW invalid \in SUBSET Proxy, NEW force \in BOOLEAN,
         Publish(draft, invalid, force), UNCHANGED <<probeVars, ref, edit>>,
         cleared' \in [Proxy -> 0..Len(probe)], \A p \in Proxy : Fate(p)
  PROVE  ConfigInv' /\ \A p \in Proxy : Newest(p)
  <1>1. TypeOK
    BY DEF ConfigInv
  <1>2. \A c \in Caller : call'[c] \in {call[c], Idle}
    BY DEF probeVars
  <1>3. DOMAIN probe' = DOMAIN probe /\ \A n \in DOMAIN probe : probe'[n].route = probe[n].route
    BY DEF probeVars
  <1>4. /\ AbsentIsEmpty' /\ SamplesMeasured' /\ NoSampleTwice' /\ ClearedStaysCleared' /\ FenceHolds'
        /\ \A p \in Proxy : Newest(p)
        /\ config' \in Bundle /\ config'.accounts = draft.accounts
        /\ commits' \in 1..(MaxCommits + 1)
        /\ generation' \in [Proxy -> 1..commits']
        /\ accepted' \in [Proxy -> [order : 0..MaxProbes, healthApplied : BOOLEAN]]
        /\ revision' \in 1..commits'
        /\ revision' = commits' \/ (revision' = revision /\ draft.accounts = config.accounts)
        /\ 0..commits \subseteq 0..commits' /\ 1..commits \subseteq 1..commits'
        /\ commits' \notin 0..commits
    BY <1>2, <1>3, StoreKeeps
  <1>5. CacheIsOwned' /\ EditSawItsList'
    BY DEF ConfigInv, CacheIsOwned, EditSawItsList, probeVars
  <1>6. ReferenceCurrent'
    <2> SUFFICES ASSUME NEW u \in Reader, ref[u].revision = revision'
                 PROVE  ref[u].saw = config'.accounts
      BY DEF ReferenceCurrent
    <2>1. ref[u].revision \in 0..commits
      BY <1>1, BoundAssumption DEF TypeOK, NoReference
    <2>2. revision' # commits'
      BY <1>4, <2>1
    <2> QED  BY <1>4, <2>2 DEF ConfigInv, ReferenceCurrent
  <1>7. TypeOK'
    <2>1. ref' \in [Reader -> {NoReference} \cup [revision : 1..commits', saw : Accounts]]
      BY <1>1, <1>4 DEF TypeOK
    <2>2. cleared' \in [Proxy -> 0..Len(probe')]
      BY DEF probeVars
    <2> QED  BY <1>1, <1>4, <2>1, <2>2, DetectorType DEF TypeOK, Bundle
  <1> QED  BY <1>4, <1>5, <1>6, <1>7 DEF ConfigInv

\* The bundle with one route replaced, and with the projections of some names
\* dropped, is a bundle.
LEMMA RouteDraft ==
  ASSUME TypeOK, NEW p \in Proxy, NEW a \in Route \cup {NoRoute}
  PROVE  LET draft == [config EXCEPT !.route[p] = a]
         IN /\ draft \in Bundle /\ draft.route = [config.route EXCEPT ![p] = a]
            /\ draft.detection = config.detection /\ draft.health = config.health
            /\ draft.accounts = config.accounts
  BY DEF TypeOK, Bundle

\* Dropping projections from a draft empties the named proxies and no other.
LEMMA DropDraft ==
  ASSUME NEW draft \in Bundle, NEW names \in SUBSET Proxy
  PROVE  /\ Drop(draft, names) \in Bundle
         /\ Drop(draft, names).route = draft.route /\ Drop(draft, names).accounts = draft.accounts
         /\ \A p \in names : Drop(draft, names).detection[p] = 0 /\ Drop(draft, names).health[p] = << >>
         /\ \A p \in Proxy \ names : /\ Drop(draft, names).detection[p] = draft.detection[p]
                                     /\ Drop(draft, names).health[p] = draft.health[p]
  <1> DEFINE detection == [p \in Proxy |-> IF p \in names THEN 0 ELSE draft.detection[p]]
             health == [p \in Proxy |-> IF p \in names THEN << >> ELSE draft.health[p]]
  <1>1. Drop(draft, names) = [draft EXCEPT !.detection = detection, !.health = health]
    BY DEF Drop
  <1>2. detection \in [Proxy -> 0..MaxProbes] /\ health \in [Proxy -> Seq(Order)]
    BY BoundAssumption DEF Bundle
  <1> HIDE DEF detection, health
  <1>3. /\ Drop(draft, names) \in Bundle
        /\ Drop(draft, names).route = draft.route /\ Drop(draft, names).accounts = draft.accounts
        /\ Drop(draft, names).detection = detection /\ Drop(draft, names).health = health
    BY <1>1, <1>2 DEF Bundle
  <1> QED  BY <1>3 DEF detection, health

\* What is forgotten is forgotten for the probes dispatched so far.
LEMMA ForgetType ==
  ASSUME TypeOK, NEW names \in SUBSET Proxy, Forget(names)
  PROVE  /\ cleared' \in [Proxy -> 0..Len(probe)]
         /\ \A p \in Proxy \ names : cleared'[p] = cleared[p]
  BY DEF TypeOK, Forget

\* The draft and the forgetting leave p alone; or p starts over with nothing.
Untouched(draft, p) ==
  /\ draft.route[p] = config.route[p]
  /\ draft.detection[p] = config.detection[p]
  /\ draft.health[p] = config.health[p]
  /\ cleared'[p] = cleared[p]
Renewed(draft, invalid, p) ==
  \/ draft.route[p] = NoRoute \/ p \in Changed(draft)
  \/ /\ p \in Added(draft) \cup invalid
     /\ draft.detection[p] = 0 /\ draft.health[p] = << >>

\* What becomes of a proxy: one the draft does not touch, one that is deleted
\* or changed, and one that starts over empty.
LEMMA Fates ==
  ASSUME TypeOK, NEW draft \in Bundle, NEW invalid \in SUBSET Proxy, NEW force \in BOOLEAN,
         Publish(draft, invalid, force)
  PROVE  \A p \in Proxy :
           (p \notin invalid /\ Untouched(draft, p)) \/ Renewed(draft, invalid, p) => Fate(p)
  <1>1. /\ config'.route = draft.route
        /\ \A p \in Proxy : draft.route[p] = NoRoute \/ p \in Changed(draft) => Emptied(p)
        /\ \A p \in Proxy : draft.route[p] # NoRoute /\ p \notin Changed(draft) =>
             /\ config'.detection[p] = draft.detection[p]
             /\ config'.health[p] = draft.health[p]
    BY PublishEffect
  <1>2. /\ \A p \in Added(draft) \cup Changed(draft) \cup invalid : generation'[p] = commits'
        /\ \A p \in Proxy : p \notin Added(draft) \cup Changed(draft) \cup invalid /\ draft.route[p] # NoRoute =>
             generation'[p] = generation[p] /\ accepted'[p] = accepted[p]
    <2>1. \A p \in Added(draft) \cup Changed(draft) \cup invalid : generation'[p] = commits'
      BY PublishNonces
    <2>2. \A p \in Proxy : p \notin Added(draft) \cup Changed(draft) \cup invalid /\ draft.route[p] # NoRoute =>
            generation'[p] = generation[p] /\ accepted'[p] = accepted[p]
      BY PublishNonces
    <2> QED  BY <2>1, <2>2
  <1>3. ASSUME NEW p \in Proxy, draft.route[p] = NoRoute \/ p \in Changed(draft)
        PROVE  Fate(p)
    BY <1>1, <1>2, <1>3 DEF Fate
  <1>4. ASSUME NEW p \in Proxy, p \in Added(draft) \cup invalid,
               draft.detection[p] = 0, draft.health[p] = << >>
        PROVE  Fate(p)
    <2>1. Emptied(p) /\ generation'[p] = commits'
      BY <1>1, <1>2, <1>4 DEF Emptied
    <2> QED  BY <2>1 DEF Fate
  <1>5. ASSUME NEW p \in Proxy, p \notin invalid, Untouched(draft, p)
        PROVE  Fate(p)
    <2>1. CASE config.route[p] = NoRoute
      BY <1>3, <1>5, <2>1 DEF Untouched
    <2>2. CASE config.route[p] # NoRoute
      <3>1. p \notin Added(draft) \cup Changed(draft) \cup invalid
        BY <1>5, <2>2 DEF Added, Changed, Present, Untouched
      <3>2. Unmoved(p) /\ ShowsWhat(p, p)
        BY <1>1, <1>2, <1>5, <2>2, <3>1 DEF Unmoved, ShowsWhat, Present, Untouched
      <3> QED  BY <3>2 DEF Fate
    <2> QED  BY <2>1, <2>2
  <1> QED  BY <1>3, <1>4, <1>5 DEF Renewed

\* A proxy is added without projections.
LEMMA AddKeeps ==
  ASSUME ConfigInv, NEW p \in Proxy, NEW a \in Route, AddProxy(p, a)
  PROVE  ConfigInv' /\ \A x \in Proxy : Newest(x)
  <1> DEFINE routed == [config EXCEPT !.route[p] = a]
             draft == Drop(routed, {p})
  <1>1. TypeOK /\ Publish(draft, {p}, FALSE) /\ Forget({p}) /\ UNCHANGED <<probeVars, ref, edit>>
    BY DEF AddProxy, ConfigInv
  <1>2. /\ routed \in Bundle /\ routed.route = [config.route EXCEPT ![p] = a]
        /\ routed.detection = config.detection /\ routed.health = config.health
    BY <1>1, RouteDraft
  <1> HIDE DEF routed
  <1>3. /\ draft \in Bundle /\ draft.route = [config.route EXCEPT ![p] = a]
        /\ draft.detection[p] = 0 /\ draft.health[p] = << >>
        /\ \A x \in Proxy \ {p} : draft.detection[x] = config.detection[x] /\ draft.health[x] = config.health[x]
    BY <1>2, DropDraft
  <1> HIDE DEF draft
  <1>4. cleared' \in [Proxy -> 0..Len(probe)] /\ \A x \in Proxy \ {p} : cleared'[x] = cleared[x]
    BY <1>1, ForgetType
  <1>5. \A x \in Proxy : (x \notin {p} /\ Untouched(draft, x)) \/ Renewed(draft, {p}, x) => Fate(x)
    BY <1>1, <1>3, Fates
  <1>6. ASSUME NEW x \in Proxy
        PROVE  Fate(x)
    <2>1. CASE x = p
      <3>1. /\ x \in {p} /\ draft.detection[x] = 0 /\ draft.health[x] = << >>
        BY <1>3, <2>1
      <3> QED  BY <1>5, <3>1 DEF Untouched, Renewed
    <2>2. CASE x # p
      <3>1. draft.route[x] = config.route[x]
        BY <1>1, <1>3, <2>2 DEF TypeOK
      <3> QED  BY <1>1, <1>3, <1>4, <2>2, <3>1, <1>5 DEF Untouched, Renewed
    <2> QED  BY <2>1, <2>2
  <1> QED  BY <1>1, <1>3, <1>4, <1>6, WriterKeeps

\* A proxy that is edited keeps its projections only on its route.
LEMMA UpdateKeeps ==
  ASSUME ConfigInv, NEW p \in Proxy, NEW a \in Route, UpdateProxy(p, a)
  PROVE  ConfigInv' /\ \A x \in Proxy : Newest(x)
  <1> DEFINE draft == [config EXCEPT !.route[p] = a]
             names == IF a = config.route[p] THEN {} ELSE {p}
  <1>1. TypeOK /\ Present(p) /\ Publish(draft, {}, FALSE) /\ {} \in SUBSET Proxy /\ Forget(names) /\ UNCHANGED <<probeVars, ref, edit>>
    BY DEF UpdateProxy, ConfigInv
  <1>2. /\ draft \in Bundle /\ draft.route = [config.route EXCEPT ![p] = a]
        /\ draft.detection = config.detection /\ draft.health = config.health
    BY <1>1, RouteDraft
  <1> HIDE DEF draft
  <1>3. cleared' \in [Proxy -> 0..Len(probe)] /\ \A x \in Proxy \ names : cleared'[x] = cleared[x]
    BY <1>1, ForgetType
  <1>4. \A x \in Proxy : (x \notin {} /\ Untouched(draft, x)) \/ Renewed(draft, {}, x) => Fate(x)
    BY <1>1, <1>2, Fates
  <1>5. ASSUME NEW x \in Proxy
        PROVE  Fate(x)
    <2>1. CASE x = p /\ a # config.route[p]
      <3>1. x \in Changed(draft)
        BY <1>1, <1>2, <2>1, AbsenceAssumption DEF Changed, TypeOK
      <3> QED  BY <1>2, <1>4, <3>1 DEF Untouched, Renewed
    <2>2. CASE x # p \/ a = config.route[p]
      <3>1. draft.route[x] = config.route[x] /\ cleared'[x] = cleared[x]
        BY <1>1, <1>2, <1>3, <2>2 DEF TypeOK
      <3> QED  BY <1>2, <1>4, <3>1 DEF Untouched, Renewed
    <2> QED  BY <2>1, <2>2
  <1> QED  BY <1>1, <1>2, <1>3, <1>5, WriterKeeps

\* A deleted proxy takes its projections along.
LEMMA DeleteKeeps ==
  ASSUME ConfigInv, NEW p \in Proxy, DeleteProxy(p)
  PROVE  ConfigInv' /\ \A x \in Proxy : Newest(x)
  <1> DEFINE draft == [config EXCEPT !.route[p] = NoRoute]
  <1>1. TypeOK /\ Publish(draft, {}, FALSE) /\ {} \in SUBSET Proxy /\ Forget({p}) /\ UNCHANGED <<probeVars, ref, edit>>
    BY DEF DeleteProxy, ConfigInv
  <1>2. /\ draft \in Bundle /\ draft.route = [config.route EXCEPT ![p] = NoRoute]
        /\ draft.detection = config.detection /\ draft.health = config.health
    BY <1>1, RouteDraft
  <1> HIDE DEF draft
  <1>3. cleared' \in [Proxy -> 0..Len(probe)] /\ \A x \in Proxy \ {p} : cleared'[x] = cleared[x]
    BY <1>1, ForgetType
  <1>4. \A x \in Proxy : (x \notin {} /\ Untouched(draft, x)) \/ Renewed(draft, {}, x) => Fate(x)
    BY <1>1, <1>2, Fates
  <1>5. ASSUME NEW x \in Proxy
        PROVE  Fate(x)
    <2>1. CASE x = p
      <3>1. draft.route[x] = NoRoute
        BY <1>1, <1>2, <2>1 DEF TypeOK
      <3> QED  BY <1>2, <1>4, <3>1 DEF Untouched, Renewed
    <2>2. CASE x # p
      <3>1. draft.route[x] = config.route[x]
        BY <1>1, <1>2, <2>2 DEF TypeOK
      <3> QED  BY <1>1, <1>2, <1>3, <2>2, <3>1, <1>4 DEF Untouched, Renewed
    <2> QED  BY <2>1, <2>2
  <1> QED  BY <1>1, <1>2, <1>3, <1>5, WriterKeeps

\* A pull keeps the projections of the proxies whose route it keeps.
LEMMA ApplyRemoteKeeps ==
  ASSUME ConfigInv, NEW route \in [Proxy -> Route \cup {NoRoute}], NEW list \in Accounts,
         ApplyRemote(route, list)
  PROVE  ConfigInv' /\ \A x \in Proxy : Newest(x)
  <1> DEFINE draft == [config EXCEPT !.route = route, !.accounts = list]
  <1>1. /\ TypeOK /\ Publish(draft, {}, FALSE) /\ {} \in SUBSET Proxy /\ Forget(Changed(draft)) /\ UNCHANGED <<probeVars, ref, edit>>
        /\ \A x \in Proxy : Present(x) => route[x] # NoRoute
    BY DEF ApplyRemote, ConfigInv
  <1>2. /\ draft \in Bundle /\ draft.route = route
        /\ draft.detection = config.detection /\ draft.health = config.health
    BY <1>1 DEF TypeOK, Bundle
  <1> HIDE DEF draft
  <1>3. cleared' \in [Proxy -> 0..Len(probe)] /\ \A x \in Proxy \ Changed(draft) : cleared'[x] = cleared[x]
    BY <1>1, ForgetType DEF Changed
  <1>4. \A x \in Proxy : (x \notin {} /\ Untouched(draft, x)) \/ Renewed(draft, {}, x) => Fate(x)
    BY <1>1, <1>2, Fates
  <1>5. ASSUME NEW x \in Proxy
        PROVE  Fate(x)
    <2>1. CASE x \in Changed(draft) \/ route[x] = NoRoute
      BY <1>1, <1>2, <2>1, <1>4 DEF Renewed
    <2>2. CASE x \in Added(draft)
      <3>1. config.detection[x] = 0 /\ config.health[x] = << >>
        BY <2>2 DEF Added, ConfigInv, AbsentIsEmpty
      <3> QED  BY <1>1, <1>2, <2>2, <3>1, <1>4 DEF Untouched, Renewed
    <2>3. CASE x \notin Changed(draft) /\ x \notin Added(draft) /\ route[x] # NoRoute
      <3>1. draft.route[x] = config.route[x]
        BY <1>2, <2>3 DEF Changed, Added
      <3> QED  BY <1>1, <1>2, <1>3, <2>3, <3>1, <1>4 DEF Untouched, Renewed
    <2> QED  BY <2>1, <2>2, <2>3
  <1> QED  BY <1>1, <1>2, <1>3, <1>5, WriterKeeps

\* A renamed proxy takes its projections along if its route stays.
LEMMA RenameKeeps ==
  ASSUME ConfigInv, NEW p \in Proxy, NEW q \in Proxy, NEW a \in Route, RenameProxy(p, q, a)
  PROVE  ConfigInv' /\ \A x \in Proxy : Newest(x)
  <1> DEFINE moved == [config EXCEPT !.route[q] = a, !.route[p] = NoRoute,
                                     !.detection[q] = config.detection[p],
                                     !.health[q] = config.health[p]]
             same == a = config.route[p]
             draft == IF same THEN moved ELSE Drop(moved, {q})
  <1>1. /\ TypeOK /\ Present(p) /\ ~Present(q) /\ p # q
        /\ Publish(draft, {}, FALSE) /\ {} \in SUBSET Proxy /\ UNCHANGED <<probeVars, ref, edit>>
        /\ cleared' = [cleared EXCEPT ![q] = IF same THEN cleared[p] ELSE Len(probe), ![p] = Len(probe)]
    BY DEF RenameProxy, ConfigInv
  <1>2. /\ moved \in Bundle /\ moved.route = [config.route EXCEPT ![q] = a, ![p] = NoRoute]
        /\ moved.detection = [config.detection EXCEPT ![q] = config.detection[p]]
        /\ moved.health = [config.health EXCEPT ![q] = config.health[p]]
    BY <1>1 DEF TypeOK, Bundle
  <1> HIDE DEF moved
  <1>3. /\ draft \in Bundle /\ draft.route = moved.route
        /\ \A x \in Proxy \ {q} : draft.detection[x] = moved.detection[x] /\ draft.health[x] = moved.health[x]
        /\ same => draft = moved
        /\ ~same => draft.detection[q] = 0 /\ draft.health[q] = << >>
    <2>1. CASE same
      BY <1>2, <2>1
    <2>2. CASE ~same
      <3> DEFINE dropped == Drop(moved, {q})
      <3>1. draft = dropped
        BY <2>2
      <3>0. moved \in Bundle /\ {q} \in SUBSET Proxy
        BY <1>2
      <3>2. /\ dropped \in Bundle /\ dropped.route = moved.route
            /\ dropped.accounts = moved.accounts
            /\ \A x \in {q} : dropped.detection[x] = 0 /\ dropped.health[x] = << >>
            /\ \A x \in Proxy \ {q} : /\ dropped.detection[x] = moved.detection[x]
                                     /\ dropped.health[x] = moved.health[x]
        BY <3>0, DropDraft, Zenon
      <3> HIDE DEF dropped
      <3> QED  BY <2>2, <3>1, <3>2
    <2> QED  BY <2>1, <2>2
  <1> HIDE DEF draft
  <1>4. \A x \in Proxy : (x \notin {} /\ Untouched(draft, x)) \/ Renewed(draft, {}, x) => Fate(x)
    BY <1>1, <1>3, Fates
  <1>5. q \in Added(draft) /\ draft.route[q] = a /\ draft.route[p] = NoRoute
    BY <1>1, <1>2, <1>3, AbsenceAssumption DEF Added, TypeOK
  <1>6. ASSUME NEW x \in Proxy
        PROVE  Fate(x)
    <2>1. CASE x = p
      BY <1>4, <1>5, <2>1 DEF Renewed
    <2>2. CASE x = q /\ ~same
      BY <1>3, <1>4, <1>5, <2>2 DEF Renewed
    <2>3. CASE x = q /\ same
      <3>1. q \notin Changed(draft) /\ draft.route[q] # NoRoute
        BY <1>1, <1>5, AbsenceAssumption DEF Changed
      <3>2. /\ config'.route = draft.route /\ config'.detection[q] = draft.detection[q]
            /\ config'.health[q] = draft.health[q]
        BY <1>1, <1>3, <3>1, PublishEffect
      <3>3. generation'[q] = commits'
        BY <1>1, <1>3, <1>5, PublishNonces
      <3>4. config'.detection[q] = config.detection[p] /\ config'.health[q] = config.health[p]
        <4>1. q \in DOMAIN config.detection /\ q \in DOMAIN config.health
          BY <1>1 DEF TypeOK
        <4>2. moved.detection[q] = config.detection[p] /\ moved.health[q] = config.health[p]
          BY <1>2, <4>1
        <4> QED  BY <1>3, <2>3, <3>2, <4>2
      <3>5. cleared'[q] = cleared[p]
        BY <1>1, <2>3 DEF TypeOK
      <3>6. ShowsWhat(q, p)
        BY <1>1, <1>5, <2>3, <3>2, <3>4, <3>5 DEF ShowsWhat
      <3> QED  BY <2>3, <3>3, <3>6 DEF Fate
    <2>4. CASE x \notin {p, q}
      <3>1. Untouched(draft, x)
        BY <1>1, <1>2, <1>3, <2>4 DEF TypeOK, Untouched
      <3> QED  BY <1>4, <3>1
    <2> QED  BY <2>1, <2>2, <2>3, <2>4
  <1>7. cleared' \in [Proxy -> 0..Len(probe)]
    <2>1. cleared \in [Proxy -> 0..Len(probe)] /\ Len(probe) \in 0..Len(probe)
      BY <1>1 DEF TypeOK
    <2> QED  BY <1>1, <2>1
  <1> QED  BY <1>1, <1>3, <1>6, <1>7, WriterKeeps

\* A cleared history excludes the probes under way.
LEMMA ClearKeeps ==
  ASSUME ConfigInv, NEW names \in SUBSET Proxy, ClearProxyHealth(names)
  PROVE  ConfigInv' /\ \A x \in Proxy : Newest(x)
  <1> DEFINE health == [p \in Proxy |-> IF p \in names THEN << >> ELSE config.health[p]]
             draft == [config EXCEPT !.health = health]
  <1>1. /\ TypeOK /\ Publish(draft, names, FALSE) /\ Forget(names) /\ UNCHANGED <<probeVars, ref, edit>>
        /\ \A x \in names : Present(x)
    BY DEF ClearProxyHealth, ConfigInv
  <1>2. health \in [Proxy -> Seq(Order)]
    BY <1>1 DEF TypeOK
  <1>3. /\ \A x \in names : health[x] = << >>
        /\ \A x \in Proxy \ names : health[x] = config.health[x]
    OBVIOUS
  <1> HIDE DEF health
  <1>4. /\ draft \in Bundle /\ draft.route = config.route
        /\ draft.detection = config.detection /\ draft.health = health
    BY <1>1, <1>2 DEF TypeOK, Bundle
  <1> HIDE DEF draft
  <1>5. cleared' \in [Proxy -> 0..Len(probe)] /\ \A x \in Proxy \ names : cleared'[x] = cleared[x]
    BY <1>1, ForgetType
  <1>6. \A x \in Proxy : (x \notin names /\ Untouched(draft, x)) \/ Renewed(draft, names, x) => Fate(x)
    BY <1>1, <1>4, Fates
  <1>7. ASSUME NEW x \in Proxy
        PROVE  Fate(x)
    <2>1. CASE x \in names
      <3>1. x \notin Changed(draft) /\ draft.route[x] # NoRoute
        BY <1>1, <1>4, <2>1 DEF Changed, Present
      <3>2. /\ config'.route = draft.route /\ config'.detection[x] = draft.detection[x]
            /\ config'.health[x] = draft.health[x]
        BY <1>1, <1>4, <3>1, PublishEffect
      <3>3. generation'[x] = commits'
        <4>1. \A z \in Added(draft) \cup Changed(draft) \cup names : generation'[z] = commits'
          BY <1>1, <1>4, PublishNonces
        <4> QED  BY <2>1, <4>1
      <3>4. ShowsWhat(x, x)
        BY <1>1, <1>3, <1>4, <2>1, <3>2 DEF ShowsWhat
      <3> QED  BY <3>3, <3>4 DEF Fate
    <2>2. CASE x \notin names
      BY <1>3, <1>4, <1>5, <1>6, <2>2 DEF Untouched
    <2> QED  BY <2>1, <2>2
  <1> QED  BY <1>1, <1>4, <1>5, <1>7, WriterKeeps

\* A write of the accounts makes every reference stale.
LEMMA WriteAccountsKeeps ==
  ASSUME ConfigInv, NEW list \in Accounts, WriteAccounts(list)
  PROVE  ConfigInv' /\ \A x \in Proxy : Newest(x)
  <1> DEFINE draft == [config EXCEPT !.accounts = list]
  <1>1. TypeOK /\ Publish(draft, {}, TRUE) /\ {} \in SUBSET Proxy /\ UNCHANGED <<probeVars, ref, edit, cleared>>
    BY DEF WriteAccounts, ConfigInv
  <1>2. /\ draft \in Bundle /\ draft.route = config.route
        /\ draft.detection = config.detection /\ draft.health = config.health
    BY <1>1 DEF TypeOK, Bundle
  <1> HIDE DEF draft
  <1>3. \A x \in Proxy : (x \notin {} /\ Untouched(draft, x)) \/ Renewed(draft, {}, x) => Fate(x)
    BY <1>1, <1>2, Fates
  <1>4. \A x \in Proxy : Fate(x)
    BY <1>1, <1>2, <1>3 DEF Untouched
  <1>5. cleared' \in [Proxy -> 0..Len(probe)]
    BY <1>1 DEF TypeOK
  <1> QED  BY <1>1, <1>2, <1>4, <1>5, WriterKeeps

\* A reload commits the bundle it read: every proxy keeps what it shows, under
\* a new generation.
LEMMA ReloadFates ==
  ASSUME ConfigInv, AdoptLoaded, cleared' = cleared
  PROVE  config \in Bundle /\ \A x \in Proxy : Fate(x)
  <1>1. /\ TypeOK /\ Publish(config, Proxy, TRUE) /\ Proxy \in SUBSET Proxy
        /\ config \in Bundle
    BY DEF AdoptLoaded, ConfigInv, TypeOK, Bundle
  <1>2. \A x \in Proxy : (x \notin Proxy /\ Untouched(config, x)) \/ Renewed(config, Proxy, x) => Fate(x)
    BY <1>1, Fates
  <1>3. \A z \in Added(config) \cup Changed(config) \cup Proxy : generation'[z] = commits'
    BY <1>1, PublishNonces
  <1>4. /\ config'.route = config.route
        /\ \A p \in Proxy : config.route[p] # NoRoute /\ p \notin Changed(config) =>
             /\ config'.detection[p] = config.detection[p]
             /\ config'.health[p] = config.health[p]
    BY <1>1, PublishEffect
  <1>5. ASSUME NEW x \in Proxy
        PROVE  Fate(x)
    <2>1. CASE config.route[x] = NoRoute
      BY <1>2, <2>1 DEF Renewed
    <2>2. CASE config.route[x] # NoRoute
      <3>1. x \notin Changed(config)
        BY DEF Changed
      <3>2. ShowsWhat(x, x)
        BY <1>4, <2>2, <3>1 DEF ShowsWhat, Present
      <3> QED  BY <1>3, <3>2 DEF Fate
    <2> QED  BY <2>1, <2>2
  <1> QED  BY <1>1, <1>5

\* A reload makes every reference and every target stale.
LEMMA ReloadKeeps ==
  ASSUME ConfigInv, ReloadConfig
  PROVE  ConfigInv' /\ \A x \in Proxy : Newest(x)
  <1>1. /\ Publish(config, Proxy, TRUE) /\ Proxy \in SUBSET Proxy /\ TRUE \in BOOLEAN
        /\ UNCHANGED <<probeVars, ref, edit>> /\ cleared' = cleared
    BY DEF ReloadConfig, AdoptLoaded
  <1>2. config \in Bundle /\ \A x \in Proxy : Fate(x)
    BY <1>1, ReloadFates DEF ReloadConfig
  <1>3. cleared' \in [Proxy -> 0..Len(probe)]
    BY <1>1 DEF ConfigInv, TypeOK
  <1> QED  BY <1>1, <1>2, <1>3, WriterKeeps

\* A restart forgets callers, cache and references.
LEMMA RestartKeeps ==
  ASSUME ConfigInv, Restart
  PROVE  ConfigInv' /\ \A x \in Proxy : Newest(x)
  <1>1. /\ TypeOK /\ AdoptLoaded /\ cleared' = cleared /\ edit' = edit
        /\ Publish(config, Proxy, TRUE) /\ Proxy \in SUBSET Proxy /\ TRUE \in BOOLEAN
        /\ call' = [c \in Caller |-> Idle]
        /\ probe' = [n \in DOMAIN probe |-> [probe[n] EXCEPT !.running = FALSE]]
        /\ cache' = [a \in Route |-> 0] /\ owner' = [a \in Route |-> 0]
        /\ ref' = [u \in Reader |-> NoReference]
    BY DEF Restart, AdoptLoaded, ConfigInv
  <1>2. config \in Bundle /\ \A x \in Proxy : Fate(x)
    BY <1>1, ReloadFates
  <1>3. /\ probe \in Seq([route : Route, running : BOOLEAN]) /\ Len(probe) \in Nat
        /\ DOMAIN probe = 1..Len(probe) /\ Len(probe) <= MaxProbes
    BY <1>1 DEF TypeOK
  <1>4. /\ DOMAIN probe' = DOMAIN probe
        /\ \A n \in DOMAIN probe : probe'[n].route = probe[n].route
        /\ probe' \in Seq([route : Route, running : BOOLEAN]) /\ Len(probe') = Len(probe)
    <2>1. \A n \in 1..Len(probe) : probe[n] \in [route : Route, running : BOOLEAN]
      <3> DEFINE Probe == [route : Route, running : BOOLEAN]
      <3>1. probe \in Seq(Probe) /\ DOMAIN probe = 1..Len(probe)
        BY <1>3
      <3> HIDE DEF Probe
      <3>2. \A n \in 1..Len(probe) : probe[n] \in Probe
        BY <3>1
      <3> QED  BY <3>2 DEF Probe
    <2>2. \A n \in 1..Len(probe) : /\ [probe[n] EXCEPT !.running = FALSE] \in [route : Route, running : BOOLEAN]
                                   /\ [probe[n] EXCEPT !.running = FALSE].route = probe[n].route
      BY <2>1
    <2>3. probe' \in [1..Len(probe) -> [route : Route, running : BOOLEAN]]
      BY <1>1, <1>3, <2>2
    <2>4. probe' \in Seq([route : Route, running : BOOLEAN]) /\ Len(probe') = Len(probe)
      BY <1>3, <2>3
    <2> QED  BY <1>1, <1>3, <2>2, <2>4
  <1>5. \A c \in Caller : call'[c] \in {call[c], Idle}
    BY <1>1
  <1>6. /\ AbsentIsEmpty' /\ SamplesMeasured' /\ NoSampleTwice' /\ ClearedStaysCleared' /\ FenceHolds'
        /\ \A p \in Proxy : Newest(p)
        /\ config' \in Bundle
        /\ commits' \in 1..(MaxCommits + 1)
        /\ generation' \in [Proxy -> 1..commits']
        /\ accepted' \in [Proxy -> [order : 0..MaxProbes, healthApplied : BOOLEAN]]
        /\ revision' \in 1..commits'
    BY <1>1, <1>2, <1>4, <1>5, StoreKeeps
  <1>7. CacheIsOwned' /\ EditSawItsList'
    BY <1>1 DEF ConfigInv, CacheIsOwned, EditSawItsList
  <1>8. ReferenceCurrent'
    <2>1. revision' # 0
      BY <1>6
    <2> QED  BY <1>1, <2>1 DEF ReferenceCurrent, NoReference
  <1>9. TypeOK'
    <2>1. call' \in [Caller -> Calls']
      BY <1>1, <1>6, BoundAssumption DEF Idle, Calls
    <2>2. \A c \in Caller : call'[c].state = "idle"
      BY <1>1 DEF Idle
    <2>3. /\ cache' \in [Route -> 0..Len(probe')] /\ owner' \in [Route -> 0..Len(probe')]
          /\ cleared' \in [Proxy -> 0..Len(probe')]
      BY <1>1, <1>3, <1>4 DEF TypeOK
    <2>4. ref' \in [Reader -> {NoReference} \cup [revision : 1..commits', saw : Accounts]]
      BY <1>1
    <2> QED  BY <1>3, <1>4, <1>6, <2>1, <2>2, <2>3, <2>4 DEF TypeOK, Bundle
  <1> QED  BY <1>6, <1>7, <1>8, <1>9 DEF ConfigInv

\* An edit commits under the revision it was given: its author saw these rows.
LEMMA EditKeeps ==
  ASSUME ConfigInv, NEW u \in Reader, NEW list \in Accounts, EditAccount(u, list)
  PROVE  ConfigInv' /\ \A x \in Proxy : Newest(x)
  <1> DEFINE draft == [config EXCEPT !.accounts = list]
  <1>1. /\ TypeOK /\ Publish(draft, {}, TRUE) /\ {} \in SUBSET Proxy /\ TRUE \in BOOLEAN
        /\ UNCHANGED <<probeVars, cleared>> /\ UNCHANGED probeVars
        /\ ref[u].revision = revision /\ edit' = [saw |-> ref[u].saw, over |-> config.accounts]
        /\ ref' = [ref EXCEPT ![u] = [revision |-> commits', saw |-> list]]
    BY DEF EditAccount, ConfigInv
  <1>2. /\ draft \in Bundle /\ draft.route = config.route /\ draft.accounts = list
        /\ draft.detection = config.detection /\ draft.health = config.health
    BY <1>1 DEF TypeOK, Bundle
  <1> HIDE DEF draft
  <1>3. \A x \in Proxy : (x \notin {} /\ Untouched(draft, x)) \/ Renewed(draft, {}, x) => Fate(x)
    BY <1>1, <1>2, Fates
  <1>4. \A x \in Proxy : Fate(x)
    BY <1>1, <1>2, <1>3 DEF Untouched
  <1>5. /\ \A c \in Caller : call'[c] \in {call[c], Idle}
        /\ DOMAIN probe' = DOMAIN probe
        /\ \A n \in DOMAIN probe : probe'[n].route = probe[n].route
    BY <1>1 DEF probeVars
  <1>6. /\ AbsentIsEmpty' /\ SamplesMeasured' /\ NoSampleTwice' /\ ClearedStaysCleared' /\ FenceHolds'
        /\ \A p \in Proxy : Newest(p)
        /\ config' \in Bundle /\ config'.accounts = draft.accounts
        /\ commits' \in 1..(MaxCommits + 1)
        /\ generation' \in [Proxy -> 1..commits']
        /\ accepted' \in [Proxy -> [order : 0..MaxProbes, healthApplied : BOOLEAN]]
        /\ revision' \in 1..commits'
        /\ revision' = commits' \/ (revision' = revision /\ draft.accounts = config.accounts)
        /\ 0..commits \subseteq 0..commits' /\ 1..commits \subseteq 1..commits'
        /\ commits' \notin 0..commits
    BY <1>1, <1>2, <1>4, <1>5, StoreKeeps
  <1>7. CacheIsOwned' /\ EditSawItsList'
    BY <1>1 DEF ConfigInv, CacheIsOwned, EditSawItsList, probeVars, ReferenceCurrent
  <1>8. ReferenceCurrent'
    <2> SUFFICES ASSUME NEW v \in Reader, ref'[v].revision = revision'
                 PROVE  ref'[v].saw = config'.accounts
      BY DEF ReferenceCurrent
    <2>1. CASE v = u
      BY <1>1, <1>2, <1>6, <2>1 DEF TypeOK
    <2>2. CASE v # u
      <3>1. ref'[v] = ref[v] /\ ref[v].revision \in 0..commits
        BY <1>1, <2>2, BoundAssumption DEF TypeOK, NoReference
      <3>2. revision' # commits'
        BY <1>6, <3>1
      <3> QED  BY <1>6, <3>1, <3>2 DEF ConfigInv, ReferenceCurrent
    <2> QED  BY <2>1, <2>2
  <1>9. TypeOK'
    <2>1. ref' \in [Reader -> {NoReference} \cup [revision : 1..commits', saw : Accounts]]
      <3>1. ref \in [Reader -> {NoReference} \cup [revision : 1..commits', saw : Accounts]]
        BY <1>1, <1>6 DEF TypeOK
      <3>2. [revision |-> commits', saw |-> list] \in [revision : 1..commits', saw : Accounts]
        BY <1>6
      <3> QED  BY <1>1, <3>1, <3>2
    <2>2. cleared' \in [Proxy -> 0..Len(probe')]
      BY <1>1 DEF probeVars, TypeOK
    <2> QED  BY <1>1, <1>6, <2>1, <2>2, DetectorType DEF TypeOK, Bundle
  <1> QED  BY <1>6, <1>7, <1>8, <1>9 DEF ConfigInv

\* A reference is handed out with the accounts of its revision.
LEMMA ReadKeeps ==
  ASSUME ConfigInv, NEW u \in Reader, ReadAccounts(u)
  PROVE  ConfigInv' /\ \A x \in Proxy : Newest(x)
  <1>1. /\ TypeOK /\ UNCHANGED <<storeVars, probeVars, edit, cleared>>
        /\ ref' = [ref EXCEPT ![u] = [revision |-> revision, saw |-> config.accounts]]
    BY DEF ReadAccounts, ConfigInv
  <1>2. ref' \in [Reader -> {NoReference} \cup [revision : 1..commits, saw : Accounts]]
    <2>1. [revision |-> revision, saw |-> config.accounts] \in [revision : 1..commits, saw : Accounts]
      BY <1>1 DEF TypeOK
    <2> QED  BY <1>1, <2>1 DEF TypeOK
  <1>3. TypeOK'
    BY <1>1, <1>2 DEF TypeOK, Calls, NamesProbe, storeVars, probeVars, Waiting
  <1>4. ReferenceCurrent'
    BY <1>1 DEF ConfigInv, TypeOK, ReferenceCurrent, storeVars
  <1>5. /\ AbsentIsEmpty' /\ SamplesMeasured' /\ NoSampleTwice' /\ ClearedStaysCleared' /\ FenceHolds'
        /\ CacheIsOwned' /\ EditSawItsList'
    BY <1>1 DEF ConfigInv, AbsentIsEmpty, SamplesMeasured, SamplesOf, NoSampleTwice, ClearedStaysCleared,
                FenceHolds, Fenced, CacheIsOwned, EditSawItsList, TargetIsCurrent, Present, storeVars, probeVars
  <1>6. \A x \in Proxy : config.detection[x] \in Nat
    BY <1>1 DEF TypeOK
  <1> QED  BY <1>1, <1>3, <1>4, <1>5, <1>6 DEF ConfigInv, Newest, storeVars

-----------------------------------------------------------------------------
(* The detector *)

\* What a step of the detector leaves of the store.
LEMMA StoreIdle ==
  ASSUME ConfigInv, UNCHANGED <<storeVars, ref, edit, cleared>>
  PROVE  /\ AbsentIsEmpty' /\ NoSampleTwice' /\ ClearedStaysCleared' /\ ReferenceCurrent' /\ EditSawItsList'
         /\ \A c \in Caller : Fenced(c) /\ call'[c] = call[c] => Fenced(c)'
         /\ \A x \in Proxy : Newest(x)
  <1>1. \A x \in Proxy : config.detection[x] \in Nat
    BY DEF ConfigInv, TypeOK
  <1> QED  BY <1>1 DEF ConfigInv, AbsentIsEmpty, NoSampleTwice, ClearedStaysCleared, ReferenceCurrent,
                       EditSawItsList, Fenced, TargetIsCurrent, Present, Newest, storeVars

\* A caller that starts a detection asks for the target as it is now.
LEMMA AskedIsCurrent ==
  ASSUME TypeOK, NEW p \in Proxy, Present(p), NEW policy \in {"prefer-cache", "refresh"},
         NEW state \in {"waiting", "cache"}, NEW n \in Order
  PROVE  /\ Asked(p, policy, state, n) \in Calls
         /\ Asked(p, policy, state, n).name = p /\ Asked(p, policy, state, n).order = n
         /\ Asked(p, policy, state, n).state = state /\ Asked(p, policy, state, n).route = config.route[p]
  <1>1. generation[p] \in 0..commits /\ config.route[p] \in Route \cup {NoRoute} /\ n \in 0..MaxProbes
    BY BoundAssumption DEF TypeOK, Order
  <1> QED  BY <1>1 DEF Asked, Calls

\* A caller joins a probe of its own target.
LEMMA JoinKeeps ==
  ASSUME ConfigInv, NEW c \in Caller, NEW p \in Proxy, NEW policy \in {"prefer-cache", "refresh"},
         JoinDetection(c, p, policy)
  PROVE  ConfigInv' /\ \A x \in Proxy : Newest(x)
  <1>1. PICK d \in Caller : SameKey(d, p, policy) /\ call' = [call EXCEPT ![c] = call[d]]
    BY DEF JoinDetection
  <1>2. UNCHANGED <<storeVars, ref, edit, cleared>> /\ UNCHANGED <<probe, cache, owner>> /\ TypeOK
    BY DEF JoinDetection, ConfigInv
  <1>3. \A e \in Caller : \E f \in Caller : call'[e] = call[f]
    BY <1>1, <1>2 DEF TypeOK
  <1>4. /\ AbsentIsEmpty' /\ NoSampleTwice' /\ ClearedStaysCleared' /\ ReferenceCurrent' /\ EditSawItsList'
        /\ \A x \in Proxy : Newest(x)
    BY <1>2, StoreIdle
  <1>5. SamplesMeasured' /\ CacheIsOwned'
    BY <1>2 DEF ConfigInv, SamplesMeasured, SamplesOf, CacheIsOwned, storeVars
  <1>6. FenceHolds'
    <2> SUFFICES ASSUME NEW e \in Caller, call'[e].state # "idle"
                 PROVE  Fenced(e)'
      BY DEF FenceHolds
    <2>1. PICK f \in Caller : call'[e] = call[f]
      BY <1>3
    <2>2. TargetIsCurrent(e)' = TargetIsCurrent(f)
      BY <1>2, <2>1 DEF TargetIsCurrent, Present, storeVars
    <2> QED  BY <1>2, <2>1, <2>2 DEF ConfigInv, FenceHolds, Fenced, storeVars
  <1>7. TypeOK'
    <2>1. call' \in [Caller -> Calls]
      BY <1>1, <1>2 DEF TypeOK
    <2>2. \A e \in Caller : call'[e].state # "idle" => NamesProbe(e)'
      <3> SUFFICES ASSUME NEW e \in Caller, call'[e].state # "idle"
                   PROVE  NamesProbe(e)'
        OBVIOUS
      <3>1. PICK f \in Caller : call'[e] = call[f]
        BY <1>3
      <3>2. NamesProbe(f)
        BY <1>2, <3>1 DEF TypeOK
      <3> QED  BY <1>2, <3>1, <3>2 DEF NamesProbe, Waiting
    <2> QED  BY <1>2, <2>1, <2>2 DEF TypeOK, Calls, storeVars
  <1> QED  BY <1>4, <1>5, <1>6, <1>7 DEF ConfigInv

\* A cached sample is the newest probe's of the route, so it is as new as the
\* one the proxy shows.
LEMMA CachedKeeps ==
  ASSUME ConfigInv, NEW c \in Caller, NEW p \in Proxy, CachedDetection(c, p)
  PROVE  ConfigInv' /\ \A x \in Proxy : Newest(x)
  <1> DEFINE n == cache[config.route[p]]
             asked == Asked(p, "prefer-cache", "cache", n)
  <1>1. /\ TypeOK /\ Present(p) /\ n # 0 /\ call' = [call EXCEPT ![c] = asked]
        /\ UNCHANGED <<storeVars, probe, cache, owner, ref, edit, cleared>>
        /\ UNCHANGED <<storeVars, ref, edit, cleared>>
    BY DEF CachedDetection, ConfigInv
  <1>2. config.route[p] \in Route
    BY <1>1 DEF TypeOK, Present
  <1>3. /\ n = owner[config.route[p]] /\ ~probe[n].running /\ probe[n].route = config.route[p]
        /\ \A m \in DOMAIN probe : probe[m].route = config.route[p] => m <= n
    BY <1>1, <1>2 DEF ConfigInv, CacheIsOwned
  <1>4. n \in DOMAIN probe /\ n \in Order /\ probe[n] \in [route : Route, running : BOOLEAN]
    <2> DEFINE Probe == [route : Route, running : BOOLEAN]
    <2>1. probe \in Seq(Probe) /\ Len(probe) <= MaxProbes /\ n \in 0..Len(probe)
      BY <1>1, <1>2 DEF TypeOK
    <2> HIDE DEF Probe, n
    <2>2. n \in 1..Len(probe) /\ n \in 1..MaxProbes
      BY <1>1, <2>1, BoundAssumption
    <2>3. n \in DOMAIN probe /\ probe[n] \in Probe
      BY <2>1, <2>2
    <2> QED  BY <2>2, <2>3 DEF Order, Probe
  <1> HIDE DEF n
  <1>5. /\ asked \in Calls /\ asked.name = p /\ asked.order = n /\ asked.state = "cache"
        /\ asked.route = config.route[p]
    BY <1>1, <1>4, AskedIsCurrent
  <1> HIDE DEF asked
  <1>6. call'[c] = asked /\ \A e \in Caller \ {c} : call'[e] = call[e]
    BY <1>1 DEF TypeOK
  <1>7. /\ AbsentIsEmpty' /\ NoSampleTwice' /\ ClearedStaysCleared' /\ ReferenceCurrent' /\ EditSawItsList'
        /\ \A e \in Caller : Fenced(e) /\ call'[e] = call[e] => Fenced(e)'
        /\ \A x \in Proxy : Newest(x)
    BY <1>1, StoreIdle
  <1>8. SamplesMeasured' /\ CacheIsOwned'
    BY <1>1 DEF ConfigInv, SamplesMeasured, SamplesOf, CacheIsOwned, storeVars
  <1>9. Fenced(c)'
    <2>1. config.detection[p] <= n
      <3>1. CASE config.detection[p] = 0
        BY <1>4, <3>1, BoundAssumption DEF Order
      <3>2. CASE config.detection[p] # 0
        BY <1>3, <3>2 DEF ConfigInv, SamplesMeasured, SamplesOf
      <3> QED  BY <3>1, <3>2
    <2> QED  BY <1>1, <1>5, <1>6, <2>1 DEF Fenced, storeVars
  <1>10. FenceHolds'
    BY <1>6, <1>7, <1>9 DEF FenceHolds, ConfigInv
  <1>11. TypeOK'
    <2>1. call' \in [Caller -> Calls]
      BY <1>1, <1>5 DEF TypeOK
    <2>2. NamesProbe(c)'
      BY <1>1, <1>3, <1>4, <1>5, <1>6 DEF NamesProbe, Waiting
    <2>3. \A e \in Caller \ {c} : call'[e].state # "idle" => NamesProbe(e)'
      BY <1>1, <1>6 DEF NamesProbe, Waiting, TypeOK
    <2> QED  BY <1>1, <2>1, <2>2, <2>3 DEF TypeOK, Calls, storeVars
  <1> QED  BY <1>7, <1>8, <1>10, <1>11 DEF ConfigInv

\* A dispatched probe comes after every sample and takes over its route's cache.
LEMMA DispatchEffect ==
  ASSUME ConfigInv, NEW a \in Route, Dispatch(a), config' = config
  PROVE  LET n == Len(probe) + 1
         IN /\ n \in Order /\ n \notin DOMAIN probe /\ \A i \in DOMAIN probe : i < n
            /\ probe' \in Seq([route : Route, running : BOOLEAN]) /\ Len(probe') = n
            /\ DOMAIN probe' = DOMAIN probe \cup {n}
            /\ \A i \in DOMAIN probe : probe'[i] = probe[i]
            /\ probe'[n] = [route |-> a, running |-> TRUE]
            /\ 0..Len(probe) \subseteq 0..Len(probe')
            /\ cache' \in [Route -> 0..Len(probe')] /\ owner' \in [Route -> 0..Len(probe')]
            /\ SamplesMeasured' /\ CacheIsOwned'
  <1> DEFINE n == Len(probe) + 1
             Probe == [route : Route, running : BOOLEAN]
             new == [route |-> a, running |-> TRUE]
  <1>1. /\ TypeOK /\ Len(probe) < MaxProbes /\ probe' = Append(probe, new)
        /\ owner' = [owner EXCEPT ![a] = n] /\ cache' = [cache EXCEPT ![a] = 0]
    BY DEF Dispatch, ConfigInv
  <1>2. probe \in Seq(Probe) /\ new \in Probe /\ Len(probe) \in Nat
    BY <1>1 DEF TypeOK
  <1> HIDE DEF Probe, new
  <1>3. /\ probe' \in Seq(Probe) /\ Len(probe') = n /\ DOMAIN probe' = 1..n /\ DOMAIN probe = 1..Len(probe)
        /\ \A i \in 1..Len(probe) : probe'[i] = probe[i]
        /\ probe'[n] = new
    BY <1>1, <1>2
  <1>4. /\ n \in Order /\ n \notin DOMAIN probe /\ \A i \in DOMAIN probe : i < n
        /\ DOMAIN probe' = DOMAIN probe \cup {n}
        /\ 0..Len(probe) \subseteq 0..Len(probe')
    BY <1>1, <1>2, <1>3, BoundAssumption DEF Order
  <1>5. cache' \in [Route -> 0..Len(probe')] /\ owner' \in [Route -> 0..Len(probe')]
    <2>1. 0 \in 0..Len(probe') /\ n \in 0..Len(probe')
      BY <1>2, <1>3
    <2> QED  BY <1>1, <1>4, <2>1 DEF TypeOK
  <1>6. SamplesMeasured'
    BY <1>3, <1>4 DEF ConfigInv, SamplesMeasured, SamplesOf
  <1>7. CacheIsOwned'
    <2> SUFFICES ASSUME NEW b \in Route
                 PROVE  /\ cache'[b] \in {0, owner'[b]}
                        /\ cache'[b] # 0 => ~probe'[cache'[b]].running
                        /\ owner'[b] # 0 => /\ probe'[owner'[b]].route = b
                                            /\ \A m \in DOMAIN probe' : probe'[m].route = b => m <= owner'[b]
      BY DEF CacheIsOwned
    <2>1. CASE b = a
      <3>1. cache'[b] = 0 /\ owner'[b] = n
        BY <1>1, <2>1 DEF TypeOK
      <3>2. \A m \in DOMAIN probe' : m <= n
        BY <1>2, <1>3
      <3> QED  BY <1>3, <2>1, <3>1, <3>2 DEF new
    <2>2. CASE b # a
      <3>1. cache'[b] = cache[b] /\ owner'[b] = owner[b] /\ cache[b] \in 0..Len(probe) /\ owner[b] \in 0..Len(probe)
        BY <1>1, <2>2 DEF TypeOK
      <3>2. probe'[n].route # b
        BY <1>3, <2>2 DEF new
      <3>3. \A i \in 0..Len(probe) : i # 0 => i \in DOMAIN probe
        BY <1>2, <1>3
      <3> QED  BY <1>3, <1>4, <3>1, <3>2, <3>3 DEF ConfigInv, CacheIsOwned
    <2> QED  BY <2>1, <2>2
  <1> QED  BY <1>3, <1>4, <1>5, <1>6, <1>7 DEF Probe, new

\* A new probe is the newest of its route, and its owner.
LEMMA StartKeeps ==
  ASSUME ConfigInv, NEW c \in Caller, NEW p \in Proxy, NEW policy \in {"prefer-cache", "refresh"},
         StartDetection(c, p, policy)
  PROVE  ConfigInv' /\ \A x \in Proxy : Newest(x)
  <1> DEFINE n == Len(probe) + 1
             asked == Asked(p, policy, "waiting", n)
  <1>1. /\ TypeOK /\ Present(p) /\ Dispatch(config.route[p]) /\ call' = [call EXCEPT ![c] = asked]
        /\ UNCHANGED <<storeVars, ref, edit, cleared>> /\ config' = config
    BY DEF StartDetection, ConfigInv, storeVars
  <1>2. config.route[p] \in Route
    BY <1>1 DEF TypeOK, Present
  <1>3. /\ n \in Order /\ n \notin DOMAIN probe /\ \A i \in DOMAIN probe : i < n
        /\ probe' \in Seq([route : Route, running : BOOLEAN]) /\ Len(probe') = n
        /\ DOMAIN probe' = DOMAIN probe \cup {n}
        /\ \A i \in DOMAIN probe : probe'[i] = probe[i]
        /\ probe'[n] = [route |-> config.route[p], running |-> TRUE]
        /\ 0..Len(probe) \subseteq 0..Len(probe')
        /\ cache' \in [Route -> 0..Len(probe')] /\ owner' \in [Route -> 0..Len(probe')]
        /\ SamplesMeasured' /\ CacheIsOwned'
    BY <1>1, <1>2, DispatchEffect
  <1>4. cleared[p] < n
    <2>1. cleared[p] \in 0..Len(probe) /\ Len(probe) \in Nat
      BY <1>1 DEF TypeOK
    <2> QED  BY <2>1
  <1> HIDE DEF n
  <1>5. /\ asked \in Calls /\ asked.name = p /\ asked.order = n /\ asked.state = "waiting"
        /\ asked.route = config.route[p]
    BY <1>1, <1>3, AskedIsCurrent
  <1> HIDE DEF asked
  <1>6. call'[c] = asked /\ \A e \in Caller \ {c} : call'[e] = call[e]
    BY <1>1 DEF TypeOK
  <1>7. /\ AbsentIsEmpty' /\ NoSampleTwice' /\ ClearedStaysCleared' /\ ReferenceCurrent' /\ EditSawItsList'
        /\ \A e \in Caller : Fenced(e) /\ call'[e] = call[e] => Fenced(e)'
        /\ \A x \in Proxy : Newest(x)
    BY <1>1, StoreIdle
  <1>8. Fenced(c)'
    <2>1. config.detection[p] <= n
      <3>1. CASE config.detection[p] = 0
        BY <1>3, <3>1, BoundAssumption DEF Order
      <3>2. CASE config.detection[p] # 0
        <4>1. config.detection[p] \in DOMAIN probe
          BY <3>2 DEF ConfigInv, SamplesMeasured, SamplesOf
        <4>2. config.detection[p] \in Nat /\ n \in Nat /\ config.detection[p] < n
          BY <1>1, <1>3, <4>1, BoundAssumption DEF TypeOK, Order
        <4> QED  BY <4>2
      <3> QED  BY <3>1, <3>2
    <2>2. \A i \in DOMAIN config.health[p] : config.health[p][i] # n
      BY <1>3 DEF ConfigInv, SamplesMeasured, SamplesOf
    <2> QED  BY <1>1, <1>4, <1>5, <1>6, <2>1, <2>2 DEF Fenced, storeVars
  <1>9. FenceHolds'
    BY <1>6, <1>7, <1>8 DEF FenceHolds, ConfigInv
  <1>10. TypeOK'
    <2>1. call' \in [Caller -> Calls]
      BY <1>1, <1>5 DEF TypeOK
    <2>2. NamesProbe(c)'
      BY <1>1, <1>3, <1>5, <1>6 DEF NamesProbe, Waiting
    <2>3. \A e \in Caller \ {c} : call'[e].state # "idle" => NamesProbe(e)'
      BY <1>1, <1>3, <1>6 DEF NamesProbe, Waiting, TypeOK
    <2>4. cleared' \in [Proxy -> 0..Len(probe')] /\ Len(probe') <= MaxProbes
      BY <1>1, <1>3, BoundAssumption DEF TypeOK, Order
    <2> QED  BY <1>1, <1>3, <2>1, <2>2, <2>3, <2>4 DEF TypeOK, Calls, storeVars
  <1> QED  BY <1>3, <1>7, <1>9, <1>10 DEF ConfigInv

\* A probe without a target is the newest of its route all the same.
LEMMA UntargetedKeeps ==
  ASSUME ConfigInv, NEW a \in Route, StartUntargeted(a)
  PROVE  ConfigInv' /\ \A x \in Proxy : Newest(x)
  <1> DEFINE n == Len(probe) + 1
  <1>1. /\ TypeOK /\ Dispatch(a) /\ call' = call /\ config' = config
        /\ UNCHANGED <<storeVars, ref, edit, cleared>>
    BY DEF StartUntargeted, ConfigInv, storeVars
  <1>2. /\ n \in Order
        /\ probe' \in Seq([route : Route, running : BOOLEAN]) /\ Len(probe') = n
        /\ DOMAIN probe' = DOMAIN probe \cup {n}
        /\ \A i \in DOMAIN probe : probe'[i] = probe[i]
        /\ 0..Len(probe) \subseteq 0..Len(probe')
        /\ cache' \in [Route -> 0..Len(probe')] /\ owner' \in [Route -> 0..Len(probe')]
        /\ SamplesMeasured' /\ CacheIsOwned'
    BY <1>1, DispatchEffect
  <1> HIDE DEF n
  <1>3. /\ AbsentIsEmpty' /\ NoSampleTwice' /\ ClearedStaysCleared' /\ ReferenceCurrent' /\ EditSawItsList'
        /\ \A e \in Caller : Fenced(e) /\ call'[e] = call[e] => Fenced(e)'
        /\ \A x \in Proxy : Newest(x)
    BY <1>1, StoreIdle
  <1>4. FenceHolds'
    BY <1>1, <1>3 DEF FenceHolds, ConfigInv
  <1>5. TypeOK'
    <2>1. \A e \in Caller : call'[e].state # "idle" => NamesProbe(e)'
      BY <1>1, <1>2 DEF NamesProbe, Waiting, TypeOK
    <2>2. cleared' \in [Proxy -> 0..Len(probe')] /\ Len(probe') <= MaxProbes
      BY <1>1, <1>2, BoundAssumption DEF TypeOK, Order
    <2> QED  BY <1>1, <1>2, <2>1, <2>2 DEF TypeOK, Calls, storeVars
  <1> QED  BY <1>2, <1>3, <1>4, <1>5 DEF ConfigInv

\* A probe that was answered keeps its route.
LEMMA StoppedProbe ==
  ASSUME NEW r \in [route : Route, running : BOOLEAN]
  PROVE  /\ [r EXCEPT !.running = FALSE].route = r.route /\ [r EXCEPT !.running = FALSE].running = FALSE
         /\ [r EXCEPT !.running = FALSE] \in [route : Route, running : BOOLEAN]
  OBVIOUS

\* The answer of a probe reaches its callers, and the cache if it still owns it.
LEMMA SettleKeeps ==
  ASSUME ConfigInv, NEW n \in DOMAIN probe, NEW outcome \in {"success", "failure", "unknown"},
         Settle(n, outcome)
  PROVE  ConfigInv' /\ \A x \in Proxy : Newest(x)
  <1> DEFINE Probe == [route : Route, running : BOOLEAN]
             heard(e) == IF Waiting(e) /\ call[e].order = n
                         THEN IF outcome = "unknown" THEN Idle ELSE [call[e] EXCEPT !.state = "network"]
                         ELSE call[e]
  <1>1. /\ TypeOK /\ probe[n].running /\ probe' = [probe EXCEPT ![n].running = FALSE]
        /\ cache' = IF outcome = "success" THEN Remembered(n) ELSE cache
        /\ call' = [e \in Caller |-> heard(e)]
        /\ owner' = owner
        /\ UNCHANGED <<storeVars, ref, edit, cleared>>
    BY DEF Settle, ConfigInv
  <1>2. /\ probe \in Seq(Probe) /\ DOMAIN probe = 1..Len(probe) /\ Len(probe) \in Nat /\ Len(probe) <= MaxProbes
    BY <1>1 DEF TypeOK
  <1>3. probe[n] \in Probe
    <2> HIDE DEF Probe
    <2> QED  BY <1>2
  <1> DEFINE stopped == [probe[n] EXCEPT !.running = FALSE]
  <1>4. stopped \in Probe /\ stopped.route = probe[n].route /\ stopped.running = FALSE
    BY <1>3, StoppedProbe
  <1>5. probe' = [probe EXCEPT ![n] = stopped]
    BY <1>1
  <1> HIDE DEF Probe, stopped
  <1>6. /\ probe' \in Seq(Probe) /\ Len(probe') = Len(probe) /\ DOMAIN probe' = DOMAIN probe
        /\ probe'[n].route = probe[n].route /\ probe'[n].running = FALSE
        /\ \A i \in DOMAIN probe \ {n} : probe'[i] = probe[i]
    BY <1>2, <1>4, <1>5
  <1>7. /\ \A i \in DOMAIN probe : probe'[i].route = probe[i].route
        /\ \A i \in DOMAIN probe : ~probe[i].running => ~probe'[i].running
    BY <1>6
  <1>8. \A e \in Caller : call'[e] = heard(e)
    BY <1>1
  <1>9. ASSUME NEW e \in Caller, call'[e].state # "idle"
        PROVE  /\ call[e].state # "idle"
               /\ call'[e].state # "cache" => call[e].state # "cache"
               /\ call'[e].name = call[e].name /\ call'[e].order = call[e].order
               /\ call'[e].generation = call[e].generation /\ call'[e].route = call[e].route
               /\ NamesProbe(e)'
    <2>1. call[e] \in Calls
      BY <1>1 DEF TypeOK
    <2>2. CASE Waiting(e) /\ call[e].order = n
      <3>1. call'[e] = [call[e] EXCEPT !.state = "network"] /\ call[e].state = "waiting"
        BY <1>8, <1>9, <2>2 DEF Idle, Waiting
      <3>2. /\ call'[e].state = "network" /\ call'[e].name = call[e].name /\ call'[e].order = call[e].order
            /\ call'[e].generation = call[e].generation /\ call'[e].route = call[e].route
        BY <2>1, <3>1 DEF Calls
      <3>3. NamesProbe(e)
        BY <1>1, <3>1 DEF TypeOK
      <3>4. Waiting(e)' = FALSE
        BY <3>2 DEF Waiting
      <3>5. NamesProbe(e)'
        BY <1>6, <2>2, <3>2, <3>3, <3>4 DEF NamesProbe
      <3> QED  BY <3>1, <3>2, <3>5
    <2>3. CASE ~(Waiting(e) /\ call[e].order = n)
      <3>1. call'[e] = call[e]
        BY <1>8, <2>3
      <3>2. NamesProbe(e)
        BY <1>1, <1>9, <3>1 DEF TypeOK
      <3>3. call[e].order # n
        BY <1>1, <2>3, <3>2 DEF NamesProbe
      <3> QED  BY <1>6, <1>9, <3>1, <3>2, <3>3 DEF NamesProbe, Waiting
    <2> QED  BY <2>2, <2>3
  <1>10. /\ AbsentIsEmpty' /\ NoSampleTwice' /\ ClearedStaysCleared' /\ ReferenceCurrent' /\ EditSawItsList'
         /\ \A x \in Proxy : Newest(x)
    BY <1>1, StoreIdle
  <1>11. SamplesMeasured'
    BY <1>1, <1>6, <1>7 DEF ConfigInv, SamplesMeasured, SamplesOf, storeVars
  <1>12. FenceHolds'
    <2> SUFFICES ASSUME NEW e \in Caller, call'[e].state # "idle"
                 PROVE  Fenced(e)'
      BY DEF FenceHolds
    <2>1. Fenced(e)
      BY <1>9 DEF ConfigInv, FenceHolds
    <2> QED  BY <1>1, <1>9, <2>1 DEF Fenced, TargetIsCurrent, Present, storeVars
  <1>13. cache' \in [Route -> 0..Len(probe')] /\ CacheIsOwned'
    <2>1. probe[n].route \in Route /\ n \in 0..Len(probe)
      BY <1>2, <1>3 DEF Probe
    <2>2. \A b \in Route : \/ cache'[b] = cache[b]
                           \/ cache'[b] = n /\ b = probe[n].route /\ owner[b] = n
      BY <1>1, <2>1 DEF Remembered, TypeOK
    <2>3. cache' \in [Route -> 0..Len(probe')]
      BY <1>1, <1>6, <2>1 DEF Remembered, TypeOK
    <2>4. ASSUME NEW b \in Route
          PROVE  /\ cache'[b] \in {0, owner'[b]}
                 /\ cache'[b] # 0 => ~probe'[cache'[b]].running
                 /\ owner'[b] # 0 => /\ probe'[owner'[b]].route = b
                                     /\ \A m \in DOMAIN probe' : probe'[m].route = b => m <= owner'[b]
      <3>1. owner[b] \in 0..Len(probe) /\ cache[b] \in 0..Len(probe)
        BY <1>1 DEF TypeOK
      <3>2. \A i \in 0..Len(probe) : i # 0 => i \in DOMAIN probe
        BY <1>2
      <3>3. owner'[b] # 0 => /\ probe'[owner'[b]].route = b
                             /\ \A m \in DOMAIN probe' : probe'[m].route = b => m <= owner'[b]
        BY <1>1, <1>6, <1>7, <3>1, <3>2 DEF ConfigInv, CacheIsOwned
      <3>4. CASE cache'[b] = cache[b]
        BY <1>1, <1>7, <3>1, <3>2, <3>3, <3>4 DEF ConfigInv, CacheIsOwned
      <3>5. CASE cache'[b] = n /\ owner[b] = n
        BY <1>1, <1>6, <3>3, <3>5
      <3> QED  BY <2>2, <3>4, <3>5
    <2> QED  BY <2>3, <2>4 DEF CacheIsOwned
  <1>14. TypeOK'
    <2>1. call' \in [Caller -> Calls]
      <3>1. ASSUME NEW e \in Caller
            PROVE  heard(e) \in Calls
        <4>1. call[e] \in Calls /\ Idle \in Calls
          BY <1>1, BoundAssumption DEF TypeOK, Idle, Calls
        <4>2. [call[e] EXCEPT !.state = "network"] \in Calls
          BY <4>1 DEF Calls
        <4> QED  BY <4>1, <4>2
      <3> QED  BY <1>1, <3>1
    <2>2. \A e \in Caller : call'[e].state # "idle" => NamesProbe(e)'
      BY <1>9
    <2>3. cleared' \in [Proxy -> 0..Len(probe')] /\ owner' \in [Route -> 0..Len(probe')]
      BY <1>1, <1>6 DEF TypeOK
    <2> QED  BY <1>1, <1>2, <1>6, <1>13, <2>1, <2>2, <2>3 DEF TypeOK, Calls, storeVars, Probe
  <1> QED  BY <1>10, <1>11, <1>12, <1>13, <1>14 DEF ConfigInv

\* A measurement that is refused changes nothing but its caller.
LEMMA NothingKeeps ==
  ASSUME ConfigInv, NEW c \in Caller, CommitNothing(c)
  PROVE  ConfigInv' /\ \A x \in Proxy : Newest(x)
  <1>1. /\ TypeOK /\ call' = [call EXCEPT ![c] = Idle]
        /\ UNCHANGED <<storeVars, probe, cache, owner, ref, edit, cleared>>
        /\ UNCHANGED <<storeVars, ref, edit, cleared>>
    BY DEF CommitNothing, ConfigInv
  <1>2. call'[c] = Idle /\ \A e \in Caller \ {c} : call'[e] = call[e]
    BY <1>1 DEF TypeOK
  <1>3. /\ AbsentIsEmpty' /\ NoSampleTwice' /\ ClearedStaysCleared' /\ ReferenceCurrent' /\ EditSawItsList'
        /\ \A e \in Caller : Fenced(e) /\ call'[e] = call[e] => Fenced(e)'
        /\ \A x \in Proxy : Newest(x)
    BY <1>1, StoreIdle
  <1>4. SamplesMeasured' /\ CacheIsOwned'
    BY <1>1 DEF ConfigInv, SamplesMeasured, SamplesOf, CacheIsOwned, storeVars
  <1>5. FenceHolds'
    BY <1>2, <1>3 DEF FenceHolds, ConfigInv, Idle
  <1>6. TypeOK'
    <2>1. Idle \in Calls
      BY BoundAssumption, <1>1 DEF Idle, Calls, TypeOK
    <2>2. call' \in [Caller -> Calls]
      BY <1>1, <2>1 DEF TypeOK
    <2>3. \A e \in Caller : call'[e].state # "idle" => NamesProbe(e)'
      BY <1>1, <1>2 DEF NamesProbe, Waiting, TypeOK, Idle
    <2> QED  BY <1>1, <2>2, <2>3 DEF TypeOK, Calls, storeVars
  <1> QED  BY <1>3, <1>4, <1>5, <1>6 DEF ConfigInv

\* A measurement that is accepted was taken on the route the proxy has, is not
\* older than the one shown, and was not counted before.
LEMMA CommitDetectionKeeps ==
  ASSUME ConfigInv, NEW c \in Caller, CommitDetection(c)
  PROVE  ConfigInv' /\ \A x \in Proxy : Newest(x)
  <1> DEFINE p == call[c].name
             n == call[c].order
             network == call[c].state = "network"
             now == accepted[p]
             health == IF network THEN Append(config.health[p], n) ELSE config.health[p]
             shown == [config.detection EXCEPT ![p] = n]
             counted == [config.health EXCEPT ![p] = health]
  <1>1. /\ TypeOK /\ call[c].state \in {"network", "cache"}
        /\ TargetIsCurrent(c) /\ NotStale(n, now) /\ NotDuplicate(n, now, network)
        /\ config' = [config EXCEPT !.detection[p] = n,
                                    !.health[p] = IF network THEN Append(@, n) ELSE @]
        /\ accepted' = [accepted EXCEPT ![p] = [order |-> n, healthApplied |-> network]]
        /\ call' = [call EXCEPT ![c] = Idle]
        /\ UNCHANGED <<generation, revision, commits, probe, cache, owner, ref, edit, cleared>>
    BY DEF CommitDetection, Accepts, ConfigInv
  <1>2. Fenced(c) /\ NamesProbe(c) /\ call[c].state # "idle"
    BY <1>1 DEF ConfigInv, FenceHolds, TypeOK
  <1>3. /\ p \in Proxy /\ Present(p) /\ generation[p] = call[c].generation /\ config.route[p] = call[c].route
    BY <1>1, <1>2 DEF Fenced, TargetIsCurrent
  <1>4. /\ n \in DOMAIN probe /\ n \in Order /\ probe[n].route = config.route[p] /\ n \in Nat /\ n # 0
    <2>1. n \in DOMAIN probe /\ probe[n].route = config.route[p]
      BY <1>2, <1>3 DEF NamesProbe
    <2>2. DOMAIN probe = 1..Len(probe) /\ Len(probe) \in Nat /\ Len(probe) <= MaxProbes
      BY <1>1 DEF TypeOK
    <2> QED  BY <2>1, <2>2, BoundAssumption DEF Order
  <1>5. /\ config.detection[p] \in Nat /\ now.order \in Nat /\ now.order <= n
        /\ config.health \in [Proxy -> Seq(Order)] /\ config.detection \in [Proxy -> 0..MaxProbes]
        /\ \A q \in Proxy : accepted[q].order \in Nat
    BY SMTT(30), <1>1, <1>3, BoundAssumption DEF TypeOK, NotStale
  <1>6. /\ config.detection[p] <= n
        /\ network => n > cleared[p] /\ \A i \in DOMAIN config.health[p] : config.health[p][i] # n
    <2>1. TargetIsCurrent(c) /\ (network => call[c].state # "cache")
      BY <1>1
    <2>2. n # now.order \/ (network /\ ~now.healthApplied)
      BY <1>1 DEF NotDuplicate
    <2>3. /\ config.detection[p] <= n \/ config.detection[p] <= now.order
          /\ network => /\ n > cleared[p]
                        /\ \A i \in DOMAIN config.health[p] : config.health[p][i] = n =>
                             n < now.order \/ (n = now.order /\ now.healthApplied)
      BY <1>2, <2>1 DEF Fenced
    <2> HIDE DEF network, now
    <2>4. config.detection[p] <= n
      BY <1>4, <1>5, <2>3
    <2>5. ~(n < now.order)
      BY <1>4, <1>5
    <2> QED  BY <2>2, <2>3, <2>4, <2>5
  <1>7. health \in Seq(Order) /\ config.health[p] \in Seq(Order)
    BY <1>3, <1>4, <1>5
  <1>8. /\ \A i \in DOMAIN health : \/ i \in DOMAIN config.health[p] /\ health[i] = config.health[p][i]
                                    \/ network /\ i \notin DOMAIN config.health[p] /\ health[i] = n
                                       /\ i = Len(config.health[p]) + 1
    BY <1>4, <1>7
  <1> HIDE DEF health
  <1>9. /\ shown \in [Proxy -> 0..MaxProbes] /\ counted \in [Proxy -> Seq(Order)]
        /\ shown[p] = n /\ counted[p] = health
        /\ \A q \in Proxy \ {p} : shown[q] = config.detection[q] /\ counted[q] = config.health[q]
    BY <1>3, <1>4, <1>5, <1>7, BoundAssumption DEF Order
  <1>10. config' = [config EXCEPT !.detection = shown, !.health = counted]
    BY <1>1 DEF health
  <1> HIDE DEF shown, counted
  <1>11. /\ config' \in Bundle /\ config'.route = config.route /\ config'.accounts = config.accounts
         /\ config'.detection = shown /\ config'.health = counted
    BY <1>1, <1>9, <1>10 DEF TypeOK, Bundle
  <1>12. call'[c] = Idle /\ \A e \in Caller \ {c} : call'[e] = call[e]
    BY <1>1 DEF TypeOK
  <1>13. /\ accepted'[p].order = n /\ accepted'[p].healthApplied = network
         /\ \A q \in Proxy \ {p} : accepted'[q] = accepted[q]
         /\ accepted' \in [Proxy -> [order : 0..MaxProbes, healthApplied : BOOLEAN]]
    <2>1. [order |-> n, healthApplied |-> network] \in [order : 0..MaxProbes, healthApplied : BOOLEAN]
      BY <1>4, BoundAssumption DEF Order
    <2> HIDE DEF network
    <2> QED  BY <1>1, <1>3, <2>1 DEF TypeOK
  <1>14. AbsentIsEmpty'
    BY <1>3, <1>9, <1>11 DEF ConfigInv, AbsentIsEmpty, Present
  <1>15. SamplesMeasured'
    <2> SUFFICES ASSUME NEW q \in Proxy, NEW m \in SamplesOf(q)'
                 PROVE  m \in DOMAIN probe /\ probe[m].route = config.route[q]
      BY <1>1, <1>11 DEF SamplesMeasured
    <2>1. CASE q # p
      <3>1. m \in SamplesOf(q)
        BY <1>9, <1>11, <2>1 DEF SamplesOf
      <3> QED  BY <3>1 DEF ConfigInv, SamplesMeasured
    <2>2. CASE q = p
      <3>1. m = n \/ \E i \in DOMAIN health : m = health[i]
        BY <1>9, <1>11, <2>2 DEF SamplesOf
      <3>2. m = n \/ m \in SamplesOf(p)
        BY <1>8, <3>1 DEF SamplesOf
      <3> QED  BY <1>3, <1>4, <2>2, <3>2 DEF ConfigInv, SamplesMeasured
    <2> QED  BY <2>1, <2>2
  <1>16. NoSampleTwice'
    <2> SUFFICES ASSUME NEW q \in Proxy, NEW i \in DOMAIN counted[q], NEW j \in DOMAIN counted[q],
                        counted[q][i] = counted[q][j]
                 PROVE  i = j
      BY <1>11 DEF NoSampleTwice
    <2>1. CASE q # p
      BY <1>9, <2>1 DEF ConfigInv, NoSampleTwice
    <2>2. CASE q = p
      <3>1. i \in DOMAIN health /\ j \in DOMAIN health /\ health[i] = health[j]
        BY <1>9, <2>2
      <3>2. /\ \/ i \in DOMAIN config.health[p] /\ health[i] = config.health[p][i]
               \/ network /\ health[i] = n /\ i = Len(config.health[p]) + 1
            /\ \/ j \in DOMAIN config.health[p] /\ health[j] = config.health[p][j]
               \/ network /\ health[j] = n /\ j = Len(config.health[p]) + 1
        BY <1>8, <3>1
      <3>3. network => \A k \in DOMAIN config.health[p] : config.health[p][k] # n
        BY <1>6
      <3>4. \A k, l \in DOMAIN config.health[p] : config.health[p][k] = config.health[p][l] => k = l
        BY <1>3 DEF ConfigInv, NoSampleTwice
      <3> QED  BY <3>1, <3>2, <3>3, <3>4
    <2> QED  BY <2>1, <2>2
  <1>17. ClearedStaysCleared'
    <2> SUFFICES ASSUME NEW q \in Proxy, NEW i \in DOMAIN counted[q]
                 PROVE  counted[q][i] > cleared[q]
      BY <1>1, <1>11 DEF ClearedStaysCleared
    <2>1. CASE q # p
      BY <1>9, <2>1 DEF ConfigInv, ClearedStaysCleared
    <2>2. CASE q = p
      BY <1>3, <1>6, <1>8, <1>9, <2>2 DEF ConfigInv, ClearedStaysCleared
    <2> QED  BY <2>1, <2>2
  <1>18. FenceHolds'
    <2> SUFFICES ASSUME NEW e \in Caller, call'[e].state # "idle"
                 PROVE  Fenced(e)'
      BY DEF FenceHolds
    <2>1. e # c /\ call'[e] = call[e]
      BY <1>12 DEF Idle
    <2>2. Fenced(e) /\ call[e].order \in Nat /\ call[e].name \in Proxy
      BY <1>1, <2>1, BoundAssumption DEF ConfigInv, FenceHolds, Fenced, TypeOK, Calls
    <2>3. TargetIsCurrent(e)' => TargetIsCurrent(e)
      BY <1>1, <1>11, <2>1 DEF TargetIsCurrent, Present
    <2>4. CASE call[e].name # p
      <3> DEFINE q == call[e].name
      <3>1. q \in Proxy /\ q # p /\ call'[e].name = q
        BY <2>1, <2>2, <2>4
      <3>2. /\ config'.detection[q] = config.detection[q] /\ config'.health[q] = config.health[q]
            /\ accepted'[q] = accepted[q] /\ cleared' = cleared
        BY <1>1, <1>9, <1>11, <1>13, <3>1
      <3> QED  BY <2>1, <2>2, <2>3, <3>1, <3>2 DEF Fenced
    <2>5. CASE call[e].name = p
      <3> DEFINE o == call[e].order
      <3>1. SUFFICES ASSUME TargetIsCurrent(e)
                     PROVE  /\ shown[p] <= n
                            /\ call[e].state # "cache" =>
                                 /\ o > cleared[p]
                                 /\ \A i \in DOMAIN counted[p] : counted[p][i] = o =>
                                      o < n \/ (o = n /\ network)
        BY ZenonT(40), <1>1, <1>3, <1>11, <1>13, <2>1, <2>3, <2>5 DEF Fenced
      <3>2. shown[p] <= n
        BY <1>4, <1>9
      <3>3. ASSUME call[e].state # "cache"
            PROVE  /\ o > cleared[p]
                   /\ \A i \in DOMAIN config.health[p] : config.health[p][i] = o =>
                        o < now.order \/ (o = now.order /\ now.healthApplied)
        BY <2>2, <2>5, <3>1, <3>3 DEF Fenced
      <3>4. ASSUME call[e].state # "cache", NEW i \in DOMAIN counted[p], counted[p][i] = o
            PROVE  o < n \/ (o = n /\ network)
        <4>1. CASE i \in DOMAIN config.health[p] /\ health[i] = config.health[p][i]
          <5>1. o < now.order \/ (o = now.order /\ now.healthApplied)
            BY <1>9, <3>3, <3>4, <4>1
          <5>2. o = n => n = now.order /\ now.healthApplied
            BY <1>4, <1>5, <2>2, <5>1
          <5>3. o # n
            BY <1>1, <5>2 DEF NotDuplicate
          <5> QED  BY <1>4, <1>5, <2>2, <5>1, <5>3
        <4>2. CASE network /\ health[i] = n
          BY <1>9, <3>4, <4>2
        <4> QED  BY <1>8, <1>9, <4>1, <4>2
      <3> QED  BY <3>2, <3>3, <3>4
    <2> QED  BY <2>4, <2>5
  <1>19. CacheIsOwned' /\ ReferenceCurrent' /\ EditSawItsList'
    BY <1>1, <1>11 DEF ConfigInv, CacheIsOwned, ReferenceCurrent, EditSawItsList
  <1>20. TypeOK'
    <2>1. Idle \in Calls
      BY BoundAssumption, <1>1 DEF Idle, Calls, TypeOK
    <2>2. call' \in [Caller -> Calls]
      BY <1>1, <2>1 DEF TypeOK
    <2>3. \A e \in Caller : call'[e].state # "idle" => NamesProbe(e)'
      BY <1>1, <1>12 DEF NamesProbe, Waiting, TypeOK, Idle
    <2> QED  BY <1>1, <1>11, <1>13, <2>2, <2>3 DEF TypeOK, Calls, Bundle
  <1>21. \A x \in Proxy : Newest(x)
    <2>1. \A x \in Proxy : config.detection[x] \in Nat
      BY <1>1, BoundAssumption DEF TypeOK
    <2>2. ASSUME NEW x \in Proxy
          PROVE  shown[x] >= config.detection[x]
      <3>1. CASE x = p
        BY <1>4, <1>5, <1>6, <1>9, <3>1
      <3>2. CASE x # p
        BY <1>9, <2>1, <3>2
      <3> QED  BY <3>1, <3>2
    <2> QED  BY <1>11, <2>2 DEF Newest
  <1> QED  BY <1>14, <1>15, <1>16, <1>17, <1>18, <1>19, <1>20, <1>21 DEF ConfigInv

-----------------------------------------------------------------------------
(* The invariant *)

LEMMA ConfigInit == Init => ConfigInv
  <1> SUFFICES ASSUME Init
               PROVE  ConfigInv
    OBVIOUS
  <1>1. PICK start \in [Proxy -> Route \cup {NoRoute}], list \in Accounts : config = NewConfig(start, list)
    BY DEF Init
  <1>2. /\ generation = [p \in Proxy |-> 1] /\ accepted = [p \in Proxy |-> NotAccepted]
        /\ revision = 1 /\ commits = 1 /\ call = [c \in Caller |-> Idle] /\ probe = << >>
        /\ cache = [a \in Route |-> 0] /\ owner = [a \in Route |-> 0]
        /\ ref = [u \in Reader |-> NoReference] /\ edit = [saw |-> {}, over |-> {}]
        /\ cleared = [p \in Proxy |-> 0]
    BY DEF Init
  <1>3. config \in Bundle /\ \A p \in Proxy : config.detection[p] = 0 /\ config.health[p] = << >>
    <2>1. /\ [p \in Proxy |-> 0] \in [Proxy -> 0..MaxProbes]
          /\ [p \in Proxy |-> << >>] \in [Proxy -> Seq(Order)]
      BY BoundAssumption
    <2> QED  BY <1>1, <2>1 DEF NewConfig, Bundle
  <1>4. \A p \in Proxy : DOMAIN config.health[p] = {} /\ SamplesOf(p) = {}
    BY <1>3 DEF SamplesOf
  <1>5. \A c \in Caller : call[c].state = "idle"
    BY <1>2 DEF Idle
  <1>6. TypeOK
    <2>1. call \in [Caller -> Calls]
      BY <1>2, BoundAssumption DEF Idle, Calls
    <2>2. accepted \in [Proxy -> [order : 0..MaxProbes, healthApplied : BOOLEAN]]
      BY <1>2, BoundAssumption DEF NotAccepted
    <2>3. /\ commits \in 1..(MaxCommits + 1) /\ generation \in [Proxy -> 1..commits] /\ revision \in 1..commits
      BY <1>2, BoundAssumption
    <2>4. probe \in Seq([route : Route, running : BOOLEAN]) /\ Len(probe) = 0 /\ Len(probe) <= MaxProbes
      BY <1>2, BoundAssumption
    <2>5. cache \in [Route -> 0..Len(probe)] /\ owner \in [Route -> 0..Len(probe)] /\ cleared \in [Proxy -> 0..Len(probe)]
      BY <1>2, <2>4
    <2>6. ref \in [Reader -> {NoReference} \cup [revision : 1..commits, saw : Accounts]]
      BY <1>2
    <2> QED  BY <1>3, <1>5, <2>1, <2>2, <2>3, <2>4, <2>5, <2>6 DEF TypeOK, Bundle
  <1>7. AbsentIsEmpty /\ SamplesMeasured /\ NoSampleTwice /\ ClearedStaysCleared
    BY <1>3, <1>4 DEF AbsentIsEmpty, SamplesMeasured, NoSampleTwice, ClearedStaysCleared
  <1>8. CacheIsOwned /\ FenceHolds /\ ReferenceCurrent /\ EditSawItsList
    BY <1>2, <1>5 DEF CacheIsOwned, FenceHolds, ReferenceCurrent, EditSawItsList, NoReference
  <1> QED  BY <1>6, <1>7, <1>8 DEF ConfigInv

\* ConfigInv is inductive, and no step shows an older sample than before.
LEMMA ConfigNext ==
  ASSUME ConfigInv, [Next]_vars
  PROVE  ConfigInv' /\ \A x \in Proxy : Newest(x)
  <1>1. CASE WriteProxies
    <2>1. {p \in Proxy : Present(p)} \in SUBSET Proxy /\ \A p \in Proxy : {p} \in SUBSET Proxy
      OBVIOUS
    <2> QED  BY <1>1, <2>1, AddKeeps, UpdateKeeps, RenameKeeps, DeleteKeeps, ClearKeeps, ApplyRemoteKeeps
             DEF WriteProxies
  <1>2. CASE WriteAccountRows
    BY <1>2, ReadKeeps, WriteAccountsKeeps, EditKeeps DEF WriteAccountRows
  <1>3. CASE Detect
    BY <1>3, CachedKeeps, JoinKeeps, StartKeeps, UntargetedKeeps, SettleKeeps, CommitDetectionKeeps, NothingKeeps
       DEF Detect
  <1>4. CASE ReloadConfig
    BY <1>4, ReloadKeeps
  <1>5. CASE Restart
    BY <1>5, RestartKeeps
  <1>6. CASE UNCHANGED vars
    <2>1. UNCHANGED <<storeVars, probeVars, ref, edit, cleared>>
      BY <1>6 DEF vars
    <2>2. TypeOK'
      BY <2>1 DEF ConfigInv, TypeOK, Calls, NamesProbe, Waiting, storeVars, probeVars
    <2>3. /\ AbsentIsEmpty' /\ SamplesMeasured' /\ NoSampleTwice' /\ ClearedStaysCleared' /\ FenceHolds'
          /\ CacheIsOwned' /\ ReferenceCurrent' /\ EditSawItsList'
      BY <2>1 DEF ConfigInv, AbsentIsEmpty, SamplesMeasured, SamplesOf, NoSampleTwice, ClearedStaysCleared,
                  FenceHolds, Fenced, CacheIsOwned, ReferenceCurrent, EditSawItsList, TargetIsCurrent,
                  Present, storeVars, probeVars
    <2>4. \A x \in Proxy : config.detection[x] \in Nat
      BY DEF ConfigInv, TypeOK
    <2> QED  BY <2>1, <2>2, <2>3, <2>4 DEF ConfigInv, Newest, storeVars
  <1> QED  BY <1>1, <1>2, <1>3, <1>4, <1>5, <1>6 DEF Next

(* The store and the detector keep their inductive invariant: types, what an *)
(* absent proxy shows, where a sample was measured, who owns a cache, and    *)
(* what each caller that is still current may bring.                         *)
THEOREM ConfigInvariant == Spec => []ConfigInv
  <1>1. Init => ConfigInv
    BY ConfigInit
  <1>2. ConfigInv /\ [Next]_vars => ConfigInv'
    BY ConfigNext
  <1> QED  BY <1>1, <1>2, PTL DEF Spec

\* A sequence that repeats no element has as many elements as places.
LEMMA DistinctCount ==
  ASSUME NEW S, NEW h \in Seq(S), \A i, j \in DOMAIN h : h[i] = h[j] => i = j
  PROVE  Cardinality({h[i] : i \in DOMAIN h}) = Len(h)
  <1> DEFINE T == {h[i] : i \in DOMAIN h}
  <1>1. Len(h) \in Nat /\ DOMAIN h = 1..Len(h) /\ h \in [1..Len(h) -> T]
    OBVIOUS
  <1>2. h \in Bijection(1..Len(h), T)
    BY <1>1 DEF Bijection, Injection, Surjection, IsInjective
  <1>3. ExistsBijection(1..Len(h), T)
    BY <1>2 DEF ExistsBijection
  <1> HIDE DEF T
  <1>4. Cardinality(T) = Len(h)
    BY <1>1, <1>3, FS_CountingElements
  <1> QED  BY <1>4 DEF T

(* The promises of the store, for any number of proxies, routes, callers and *)
(* readers: what is shown was measured on the present route, no probe counts *)
(* twice, a cleared history is not refilled, the cache holds the newest      *)
(* answer or nothing, and an edit changes the list its author saw.           *)
THEOREM ConfigCorrect ==
  Spec => [](TypeOK /\ RouteMeasured /\ SampleCountedOnce /\ ClearedStaysCleared
               /\ CacheFromNewestProbe /\ EditSawItsList)
  <1>1. ASSUME ConfigInv
        PROVE  TypeOK /\ RouteMeasured /\ ClearedStaysCleared /\ EditSawItsList
    BY <1>1 DEF ConfigInv, SamplesMeasured, RouteMeasured
  <1>2. ASSUME ConfigInv
        PROVE  SampleCountedOnce
    <2> SUFFICES ASSUME NEW p \in Proxy
                 PROVE  Cardinality({config.health[p][i] : i \in DOMAIN config.health[p]}) = Len(config.health[p])
      BY DEF SampleCountedOnce
    <2>1. config.health[p] \in Seq(Order)
      BY <1>2 DEF ConfigInv, TypeOK
    <2>2. \A i, j \in DOMAIN config.health[p] : config.health[p][i] = config.health[p][j] => i = j
      BY <1>2 DEF ConfigInv, NoSampleTwice
    <2> QED  BY <2>1, <2>2, DistinctCount
  <1>3. ASSUME ConfigInv
        PROVE  CacheFromNewestProbe
    BY <1>3 DEF ConfigInv, CacheIsOwned, CacheFromNewestProbe
  <1> QED  BY <1>1, <1>2, <1>3, ConfigInvariant, PTL

(* The sample shown for a proxy is never overwritten by an older one while   *)
(* the proxy is neither replaced nor reset.                                  *)
THEOREM NewestSampleWins == Spec => NewestWins
  <1>1. ConfigInv /\ [Next]_vars =>
          [\A p \in Proxy :
             generation'[p] = generation[p] /\ 0 \notin {config.detection[p], config'.detection[p]}
               => config'.detection[p] >= config.detection[p]]_vars
    BY ConfigNext DEF Newest
  <1> QED  BY <1>1, ConfigInvariant, PTL DEF Spec, NewestWins
=============================================================================
