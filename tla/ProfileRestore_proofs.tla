------------------------ MODULE ProfileRestore_proofs ------------------------
(***************************************************************************)
(* The complete restore, proved for every set of profiles, any number of    *)
(* restores and every environment of crashes and power losses: RestoreInv,  *)
(* the inductive invariant of RestoreProperties.  Its core is that a        *)
(* profile without a receipt is whole, even while a restore holds it; what  *)
(* a fenced profile looks like, Undoable and Committed say.                 *)
(***************************************************************************)
EXTENDS RestoreProperties, SequenceTheorems, TLAPS

\* What a sequence holds after one more element, and without its last.
LEMMA RangeOfAppend ==
  ASSUME NEW S, NEW s \in Seq(S), NEW x \in S,
         x \notin {s[i] : i \in DOMAIN s},
         \A i, j \in DOMAIN s : s[i] = s[j] => i = j,
         NEW t, t = Append(s, x)
  PROVE  /\ {t[i] : i \in DOMAIN t} = {s[i] : i \in DOMAIN s} \cup {x}
         /\ \A i, j \in DOMAIN t : t[i] = t[j] => i = j
  <1>1. /\ Len(s) \in Nat /\ DOMAIN s = 1..Len(s) /\ DOMAIN t = 1..(Len(s) + 1)
        /\ \A i \in 1..Len(s) : t[i] = s[i]
        /\ t[Len(s) + 1] = x
    OBVIOUS
  <1>2. \A i \in 1..(Len(s) + 1) : i \in 1..Len(s) \/ i = Len(s) + 1
    BY <1>1
  <1> QED  BY <1>1, <1>2

Elements(s) == {s[i] : i \in DOMAIN s}
Distinct(s) == \A i, j \in DOMAIN s : s[i] = s[j] => i = j
FrontOf(s) == SubSeq(s, 1, Len(s) - 1)
LastOf(s) == s[Len(s)]

\* What a sequence holds without its last element.
LEMMA RangeOfFront ==
  ASSUME NEW S, NEW s \in Seq(S), s # << >>, Distinct(s)
  PROVE  /\ FrontOf(s) \in Seq(S) /\ LastOf(s) \in S /\ LastOf(s) \in Elements(s)
         /\ Elements(FrontOf(s)) = Elements(s) \ {LastOf(s)}
         /\ Distinct(FrontOf(s))
  <1> DEFINE n == Len(s)
             t == FrontOf(s)
  <1>1. /\ n \in Nat /\ n > 0 /\ DOMAIN s = 1..n
    OBVIOUS
  <1>2. \A i \in 1..n : s[i] \in S
    BY <1>1
  <1> HIDE DEF n, t
  <1>3. /\ n \in 1..n /\ n \notin 1..(n - 1)
        /\ \A i \in 1..n : i \in 1..(n - 1) \/ i = n
        /\ \A i \in 1..(n - 1) : i \in 1..n
    BY <1>1
  <1>4. /\ t \in Seq(S) /\ Len(t) = n - 1 /\ \A i \in 1..(n - 1) : t[i] = s[i]
    <2>1. \A i \in 1..(n - 1) : s[i] \in S
      BY <1>2, <1>3
    <2>2. t = SubSeq(s, 1, n - 1)
      BY DEF n, t, FrontOf
    <2> QED  BY <1>1, <2>1, <2>2, SubSeqProperties
  <1>5. DOMAIN t = 1..(n - 1)
    BY <1>4
  <1>6. s[n] \in S /\ s[n] \in {s[i] : i \in DOMAIN s}
    BY <1>1, <1>2, <1>3
  <1>7. {t[i] : i \in DOMAIN t} = {s[i] : i \in DOMAIN s} \ {s[n]}
    <2>1. ASSUME NEW x \in {t[i] : i \in DOMAIN t}
          PROVE  x \in {s[i] : i \in DOMAIN s} \ {s[n]}
      <3>1. PICK i \in 1..(n - 1) : x = s[i]
        BY <1>4, <1>5
      <3>2. i \in DOMAIN s /\ n \in DOMAIN s /\ i # n
        BY <1>1, <1>3
      <3>3. s[i] # s[n]
        BY <3>2 DEF Distinct
      <3> QED  BY <3>1, <3>2, <3>3
    <2>2. ASSUME NEW x \in {s[i] : i \in DOMAIN s} \ {s[n]}
          PROVE  x \in {t[i] : i \in DOMAIN t}
      <3>1. PICK i \in 1..n : x = s[i]
        BY <1>1
      <3>2. i \in 1..(n - 1)
        BY <1>3, <3>1
      <3> QED  BY <1>4, <1>5, <3>1, <3>2
    <2> QED  BY <2>1, <2>2
  <1>8. \A i, j \in DOMAIN t : t[i] = t[j] => i = j
    BY <1>1, <1>3, <1>4, <1>5 DEF Distinct
  <1> QED  BY <1>4, <1>6, <1>7, <1>8 DEF n, t, Elements, LastOf, Distinct

-----------------------------------------------------------------------------

\* What was restored was selected.
LEMMA RestoredSelected ==
  ASSUME RestoreInv
  PROVE  Restored \subseteq pull.selected /\ pull.selected \subseteq Profile
  BY DEF RestoreInv, RestoredOnce, TypeOK, Pull

\* A step of the restore: the leases, browsers and reports stay, the restore
\* keeps its profiles and does not end.
Advances ==
  /\ Kept
  /\ pull.phase # "idle" /\ pull'.phase # "idle"
  /\ pull'.selected = pull.selected
  /\ pull'.before = pull.before

\* With the data typed, such a step keeps all types, and no report is given.
LEMMA AdvanceKeeps ==
  ASSUME TypeOK, Advances, pull' \in Pull,
         data' \in [Profile -> Version], backup' \in [Profile -> Version],
         config' \in [Profile -> Version], disk' \subseteq [Profile -> Version],
         config' \in disk', receipt' \in [Profile -> BOOLEAN],
         pull'.todo \subseteq pull.selected, pull'.pending \subseteq pull.selected,
         pull'.current \subseteq pull.selected
  PROVE  TypeOK' /\ OutcomeIsTrue'
  BY DEF TypeOK, OutcomeIsTrue, Advances, Kept, Pull

\* A step that changes neither directories nor configurations, nor the restore.
LEMMA QuietKeeps ==
  ASSUME RestoreInv, UNCHANGED <<durable, config, pull, pulls, outcome>>,
         held' \in [Profile -> {"none", "launch", "pull"}], browser' \in [Profile -> BOOLEAN],
         \A d \in Profile : held'[d] = "pull" <=> held[d] = "pull"
  PROVE  RestoreInv' /\ data' = data
  <1>1. data' = data /\ backup' = backup /\ disk' = disk /\ receipt' = receipt
    BY DEF durable
  <1>2. TypeOK'
    BY <1>1 DEF RestoreInv, TypeOK
  <1>3. FencedUnlessWhole' /\ RestoredOnce' /\ Applying' /\ Reasoned' /\ OutcomeIsTrue'
    BY <1>1 DEF RestoreInv, FencedUnlessWhole, Whole, RestoredOnce, Restored, Applying, Reasoned, OutcomeIsTrue
  <1>4. Undoable' /\ Committed'
    BY <1>1 DEF RestoreInv, Undoable, Committed, Moving, Restored
  <1> QED  BY <1>1, <1>2, <1>3, <1>4 DEF RestoreInv

\* Launches and browsers work on profiles that no restore holds.
LEMMA LaunchesKeep ==
  ASSUME RestoreInv, NEW d \in Profile,
         BeginLaunch(d) \/ SpawnBrowser(d) \/ FailLaunch(d) \/ BrowserExits(d)
  PROVE  RestoreInv' /\ data' = data
  <1>1. /\ held \in [Profile -> {"none", "launch", "pull"}] /\ browser \in [Profile -> BOOLEAN]
    BY DEF RestoreInv, TypeOK
  <1>2. /\ UNCHANGED <<durable, config, pull, pulls, outcome>>
        /\ held' \in [Profile -> {"none", "launch", "pull"}] /\ browser' \in [Profile -> BOOLEAN]
        /\ \A e \in Profile : held'[e] = "pull" <=> held[e] = "pull"
    BY <1>1 DEF BeginLaunch, SpawnBrowser, FailLaunch, BrowserExits, Acquirable
  <1> QED  BY <1>2, QuietKeeps

\* A restore begins with the leases of profiles without a browser.
LEMMA BeginPullKeeps ==
  ASSUME RestoreInv, NEW selected \in SUBSET Profile, BeginPull(selected)
  PROVE  RestoreInv' /\ data' = data
  <1>1. /\ TypeOK /\ FencedUnlessWhole
        /\ pull.phase = "idle" /\ pulls < MaxPulls /\ selected # {}
        /\ \A d \in selected : ~receipt[d] /\ held[d] = "none"
        /\ pulls' = pulls + 1 /\ outcome' = "none"
        /\ held' = [d \in Profile |-> IF d \in selected THEN "pull" ELSE held[d]]
        /\ data' = data /\ backup' = backup /\ disk' = disk /\ receipt' = receipt
        /\ config' = config /\ browser' = browser
    BY DEF RestoreInv, BeginPull, Acquirable, durable
  <1>2. pull' = [phase |-> "prepare", selected |-> selected, todo |-> selected, current |-> {},
                 restored |-> << >>, pending |-> {}, committed |-> FALSE, error |-> "none",
                 failed |-> FALSE, before |-> data]
    BY DEF BeginPull, NoPull
  <1>3. /\ pull'.phase = "prepare" /\ pull'.selected = selected /\ pull'.todo = selected
        /\ pull'.current = {} /\ pull'.restored = << >> /\ pull'.pending = {}
        /\ pull'.committed = FALSE /\ pull'.error = "none" /\ pull'.failed = FALSE /\ pull'.before = data
    BY <1>2
  <1>4. pull' \in Pull
    BY <1>1, <1>2 DEF Pull, Phase, TypeOK
  <1>5. Restored' = {} /\ RestoredOnce'
    BY <1>3 DEF Restored, RestoredOnce
  <1>6. TypeOK'
    <2>1. pulls' \in 0..MaxPulls
      BY <1>1, PullAssumption DEF TypeOK
    <2>2. \A d \in Profile : held[d] # "pull"
      BY <1>1 DEF TypeOK
    <2>3. \A d \in Profile : held'[d] = "pull" <=> pull'.phase # "idle" /\ d \in pull'.selected
      BY <1>1, <1>3, <2>2
    <2>4. held' \in [Profile -> {"none", "launch", "pull"}]
      BY <1>1 DEF TypeOK
    <2> QED  BY <1>1, <1>3, <1>4, <2>1, <2>3, <2>4 DEF TypeOK
  <1>7. FencedUnlessWhole' /\ Applying' /\ Committed' /\ Reasoned' /\ OutcomeIsTrue'
    BY <1>1, <1>3, <1>5 DEF FencedUnlessWhole, Whole, Applying, Committed, Reasoned, OutcomeIsTrue
  <1>8. Undoable'
    <2>1. ASSUME NEW d \in selected
          PROVE  /\ \A c \in disk : c[d] = data[d]
                 /\ ~Moving(d)' /\ d \notin Restored'
      BY <1>1, <1>3, <1>5 DEF FencedUnlessWhole, Whole, Moving
    <2> QED  BY <1>1, <1>3, <2>1 DEF Undoable
  <1> QED  BY <1>1, <1>5, <1>6, <1>7, <1>8 DEF RestoreInv

-----------------------------------------------------------------------------
(* Failures *)

\* A failure that keeps what was restored fenced, or the commit complete, and
\* that leaves the rest as it was unless it asks for recovery.
LEMMA ThrowKeeps ==
  ASSUME RestoreInv, Kept, NEW e \in {"plain", "recovery"}, Throw(e),
         pull.phase \in {"prepare", "apply", "install", "moved", "verify", "commit", "confirm", "finish"},
         config' = config, backup' = backup, disk' = disk \/ disk' = {config},
         data' \in [Profile -> Version], receipt' \in [Profile -> BOOLEAN],
         FencedUnlessWhole',
         pull.committed => data' = data,
         pull.committed /\ e = "plain" => pull.phase = "confirm" /\ receipt' = receipt,
         ~pull.committed => \A d \in Restored : data'[d] = data[d] /\ receipt'[d] = receipt[d],
         ~pull.committed => \A d \in pull.selected \ Restored :
                              data'[d] = pull.before[d] \/ (receipt'[d] /\ e = "recovery")
  PROVE  RestoreInv'
  <1>1. TypeOK /\ RestoredOnce /\ Undoable /\ Committed
    BY DEF RestoreInv
  <1>2. /\ pull'.phase = "error" /\ pull'.error = e
        /\ pull'.selected = pull.selected /\ pull'.todo = pull.todo /\ pull'.current = pull.current
        /\ pull'.restored = pull.restored /\ pull'.pending = pull.pending
        /\ pull'.committed = pull.committed /\ pull'.failed = pull.failed /\ pull'.before = pull.before
        /\ pull' \in Pull
    BY <1>1 DEF Throw, TypeOK, Pull, Phase
  <1>3. disk' \subseteq disk /\ config' \in disk' /\ pulls' = pulls /\ pull.phase # "idle"
    BY <1>1 DEF TypeOK, Kept
  <1>4. Advances
    BY <1>2, <1>3 DEF Advances
  <1>5. TypeOK' /\ OutcomeIsTrue'
    BY <1>1, <1>2, <1>3, <1>4, AdvanceKeeps DEF TypeOK
  <1>6. Restored' = Restored /\ RestoredOnce' /\ Applying' /\ Reasoned'
    BY <1>1, <1>2 DEF Restored, RestoredOnce, Applying, Reasoned
  <1>7. Undoable'
    <2> SUFFICES ASSUME ~pull.committed, NEW d \in pull.selected
                 PROVE  /\ \A c \in disk : c[d] = pull.before[d]
                        /\ d \in Restored => /\ data'[d] = pulls /\ backup[d] = pull.before[d]
                                             /\ receipt'[d] /\ d \in pull.pending
                        /\ ~Moving(d)'
                        /\ d \notin Restored => data'[d] = pull.before[d] \/ (receipt'[d] /\ e = "recovery")
      BY <1>2, <1>3, <1>6 DEF Undoable
    <2>1. ~Moving(d)'
      BY <1>2 DEF Moving
    <2> QED  BY <1>1, <1>3, <2>1 DEF Undoable
  <1>8. Committed'
    BY <1>1, <1>2, <1>3 DEF Committed
  <1> QED  BY <1>5, <1>6, <1>7, <1>8 DEF RestoreInv

\* Before the commit, while nothing has failed, a selected profile that is not
\* restored and not being moved is what it was, in every configuration.
LEMMA Untouched ==
  ASSUME RestoreInv, pull.phase \in {"prepare", "apply", "install", "moved", "verify", "commit"},
         NEW d \in pull.selected, d \notin Restored, ~Moving(d)
  PROVE  data[d] = pull.before[d] /\ Whole(d)
  <1>1. ~pull.committed /\ pull.error = "none" /\ ~pull.failed /\ pull.phase # "idle"
    BY DEF RestoreInv, Applying
  <1>2. data[d] = pull.before[d] /\ \A c \in disk : c[d] = pull.before[d]
    BY <1>1 DEF RestoreInv, Undoable
  <1> QED  BY <1>2 DEF Whole

\* The profile a restore works on is one that is still to do.
LEMMA WorkedOn ==
  ASSUME RestoreInv, pull.phase \in {"install", "moved", "verify"}, NEW d \in Profile, Only(d)
  PROVE  /\ d \in pull.selected /\ d \in pull.todo /\ d \notin Restored /\ receipt[d]
         /\ pull.pending = Restored \cup {d} /\ pull.todo = pull.selected \ Restored
         /\ ~pull.committed /\ pull.error = "none" /\ ~pull.failed
         /\ pull.phase \in {"moved", "verify"} => backup[d] = pull.before[d]
         /\ pull.phase = "verify" => data[d] = pulls
         /\ held[d] = "pull"
  <1>1. /\ ~pull.committed /\ pull.error = "none" /\ ~pull.failed
        /\ pull.todo = pull.selected \ Restored /\ pull.pending = Restored \cup {d}
        /\ d \in pull.todo
    BY DEF RestoreInv, Applying, Only
  <1>2. d \in pull.selected /\ d \notin Restored /\ d \in pull.current
    BY <1>1 DEF Only
  <1>3. held[d] = "pull"
    BY <1>2 DEF RestoreInv, TypeOK
  <1>4. /\ receipt[d]
        /\ pull.phase \in {"moved", "verify"} => backup[d] = pull.before[d]
        /\ pull.phase = "verify" => data[d] = pulls
    BY <1>1, <1>2 DEF RestoreInv, Undoable, Moving
  <1> QED  BY <1>1, <1>2, <1>3, <1>4

-----------------------------------------------------------------------------
(* Before the commit *)

LEMMA PrepareKeeps ==
  ASSUME RestoreInv, Prepare
  PROVE  RestoreInv' /\ data' = data
  <1>1. /\ TypeOK /\ FencedUnlessWhole /\ RestoredOnce /\ Applying /\ Undoable
        /\ pull.phase = "prepare" /\ Kept
        /\ data' = data /\ backup' = backup /\ receipt' = receipt /\ config' = config
        /\ ~pull.committed /\ pull.error = "none" /\ ~pull.failed
    BY DEF RestoreInv, Prepare, Applying
  <1>2. disk' \subseteq disk /\ config' \in disk' /\ (disk' = disk \/ disk' = {config})
    BY <1>1 DEF TypeOK, Prepare
  <1>3. FencedUnlessWhole'
    BY <1>1, <1>2 DEF FencedUnlessWhole, Whole
  <1>4. CASE Throw("plain")
    <2>1. \A d \in pull.selected \ Restored : data'[d] = pull.before[d]
      <3> TAKE d \in pull.selected \ Restored
      <3>1. ~Moving(d)
        BY <1>1 DEF Moving
      <3> QED  BY <1>1, <3>1, Untouched
    <2> QED  BY <1>1, <1>2, <1>3, <1>4, <2>1, ThrowKeeps DEF TypeOK
  <1>5. CASE Go("apply")
    <2>1. /\ pull'.phase = "apply" /\ pull'.error = pull.error
          /\ pull'.selected = pull.selected /\ pull'.todo = pull.todo /\ pull'.current = pull.current
          /\ pull'.restored = pull.restored /\ pull'.pending = pull.pending
          /\ pull'.committed = pull.committed /\ pull'.failed = pull.failed /\ pull'.before = pull.before
          /\ pull' \in Pull
      BY <1>1, <1>5 DEF Go, TypeOK, Pull, Phase
    <2>2. Advances
      BY <1>1, <2>1 DEF Advances
    <2>3. TypeOK' /\ OutcomeIsTrue'
      BY <1>1, <1>2, <2>1, <2>2, AdvanceKeeps DEF TypeOK
    <2>4. Restored' = Restored /\ RestoredOnce' /\ Applying' /\ Reasoned' /\ Committed'
      BY <1>1, <2>1 DEF Restored, RestoredOnce, Applying, Reasoned, Committed
    <2>5. \A d \in Profile : ~Moving(d) /\ ~Moving(d)'
      BY <1>1, <2>1 DEF Moving
    <2>6. Undoable'
      <3> SUFFICES ASSUME NEW x \in pull.selected
                   PROVE  /\ \A c \in disk : c[x] = pull.before[x]
                          /\ x \in Restored => /\ data[x] = pulls /\ backup[x] = pull.before[x]
                                               /\ receipt[x] /\ x \in pull.pending
                          /\ x \notin Restored => data[x] = pull.before[x]
        BY <1>1, <1>2, <2>1, <2>4, <2>5, RestoredSelected DEF Undoable, Kept
      <3> QED  BY <1>1, <2>5, RestoredSelected DEF Undoable
    <2> QED  BY <1>1, <1>3, <2>3, <2>4, <2>6 DEF RestoreInv
  <1> QED  BY <1>1, <1>4, <1>5 DEF Prepare

\* A receipt fences the profile before its directory is touched.
LEMMA OpenGateKeeps ==
  ASSUME RestoreInv, NEW d \in Profile, OpenGate(d)
  PROVE  RestoreInv' /\ data' = data
  <1>1. /\ TypeOK /\ FencedUnlessWhole /\ RestoredOnce /\ Applying /\ Undoable
        /\ pull.phase = "apply" /\ d \in pull.todo /\ Kept
        /\ data' = data /\ backup' = backup /\ disk' = disk /\ config' = config
        /\ ~pull.committed /\ pull.error = "none" /\ ~pull.failed
        /\ pull.todo = pull.selected \ Restored /\ pull.current = {} /\ pull.pending = Restored
    BY DEF RestoreInv, OpenGate, Applying
  <1>2. \A x \in Profile : ~Moving(x)
    BY <1>1 DEF Moving
  <1>3. \A x \in pull.selected \ Restored : data[x] = pull.before[x] /\ Whole(x)
    <2> TAKE x \in pull.selected \ Restored
    <2>1. ~Moving(x)
      BY <1>2, RestoredSelected
    <2> QED  BY <1>1, <2>1, Untouched
  <1>4. d \in pull.selected /\ d \notin Restored /\ Whole(d)
    BY <1>1, <1>3
  <1>5. /\ receipt' \in [Profile -> BOOLEAN]
        /\ \A x \in Profile \ {d} : receipt'[x] = receipt[x]
    BY <1>1 DEF OpenGate, TypeOK
  <1>6. FencedUnlessWhole'
    BY <1>1, <1>4, <1>5 DEF FencedUnlessWhole, Whole
  <1>7. ASSUME NEW e \in {"plain", "recovery"}, Throw(e)
        PROVE  RestoreInv'
    <2>1. \A x \in Restored : receipt'[x] = receipt[x]
      BY <1>4, <1>5, RestoredSelected
    <2> QED  BY <1>1, <1>3, <1>5, <1>6, <1>7, <2>1, ThrowKeeps DEF TypeOK
  <1>8. CASE /\ receipt' = [receipt EXCEPT ![d] = TRUE]
             /\ pull' = [pull EXCEPT !.phase = "install", !.current = {d}, !.pending = @ \cup {d}]
    <2>1. /\ pull'.phase = "install" /\ pull'.error = pull.error
          /\ pull'.selected = pull.selected /\ pull'.todo = pull.todo /\ pull'.current = {d}
          /\ pull'.restored = pull.restored /\ pull'.pending = pull.pending \cup {d}
          /\ pull'.committed = pull.committed /\ pull'.failed = pull.failed /\ pull'.before = pull.before
          /\ pull' \in Pull
      BY <1>1, <1>8 DEF TypeOK, Pull, Phase
    <2>2. Advances
      BY <1>1, <2>1 DEF Advances
    <2>3. TypeOK' /\ OutcomeIsTrue'
      BY <1>1, <1>4, <1>5, <2>1, <2>2, AdvanceKeeps DEF TypeOK
    <2>4. Restored' = Restored /\ RestoredOnce' /\ Applying' /\ Reasoned' /\ Committed'
      BY <1>1, <1>4, <2>1 DEF Restored, RestoredOnce, Applying, Reasoned, Committed
    <2>5. receipt'[d] /\ \A x \in Profile : ~Moving(x)'
      BY <1>1, <1>8, <2>1 DEF Moving, TypeOK
    <2>6. Undoable'
      <3> SUFFICES ASSUME NEW x \in pull.selected
                   PROVE  /\ \A c \in disk : c[x] = pull.before[x]
                          /\ x \in Restored => /\ data[x] = pulls /\ backup[x] = pull.before[x]
                                               /\ receipt'[x] /\ x \in pull'.pending
                          /\ x \in pull'.current => receipt'[x]
                          /\ x \notin Restored => data[x] = pull.before[x]
        BY <1>1, <2>1, <2>4, <2>5, RestoredSelected DEF Undoable, Kept
      <3>1. x \in Restored => receipt'[x] = receipt[x]
        BY <1>4, <1>5, RestoredSelected
      <3> QED  BY <1>1, <1>3, <2>1, <2>5, <3>1 DEF Undoable
    <2> QED  BY <1>1, <1>6, <2>3, <2>4, <2>6 DEF RestoreInv
  <1> QED  BY <1>1, <1>7, <1>8 DEF OpenGate

\* One profile's directory is moved or put in place while its receipt stands.
LEMMA MoveAsideKeeps ==
  ASSUME RestoreInv, NEW d \in Profile, MoveAside(d) \/ Install(d)
  PROVE  RestoreInv' /\ ~browser[d] /\ held[d] = "pull" /\ \A x \in Profile \ {d} : data'[x] = data[x]
  <1>1. /\ TypeOK /\ FencedUnlessWhole /\ RestoredOnce /\ Applying /\ Undoable
        /\ pull.phase \in {"install", "moved"} /\ Only(d) /\ Kept /\ ~browser[d]
        /\ disk' = disk /\ config' = config /\ receipt' = receipt
    BY DEF RestoreInv, MoveAside, Install, Stopped
  <1>2. /\ d \in pull.selected /\ d \notin Restored /\ receipt[d] /\ held[d] = "pull"
        /\ ~pull.committed /\ pull.error = "none" /\ ~pull.failed
        /\ pull.phase = "moved" => backup[d] = pull.before[d]
    BY <1>1, WorkedOn
  <1>3. /\ data' \in [Profile -> Version] /\ backup' \in [Profile -> Version]
        /\ \A x \in Profile \ {d} : data'[x] = data[x] /\ backup'[x] = backup[x]
    BY <1>1 DEF MoveAside, Install, TypeOK, Version
  <1>4. /\ pull'.phase = IF pull.phase = "install" THEN "moved" ELSE "verify"
        /\ pull'.error = pull.error
        /\ pull'.selected = pull.selected /\ pull'.todo = pull.todo /\ pull'.current = pull.current
        /\ pull'.restored = pull.restored /\ pull'.pending = pull.pending
        /\ pull'.committed = pull.committed /\ pull'.failed = pull.failed /\ pull'.before = pull.before
        /\ pull' \in Pull
    BY <1>1 DEF MoveAside, Install, Go, TypeOK, Pull, Phase
  <1>5. Advances
    BY <1>1, <1>4 DEF Advances
  <1>6. TypeOK' /\ OutcomeIsTrue'
    BY <1>1, <1>3, <1>4, <1>5, AdvanceKeeps DEF TypeOK
  <1>7. Restored' = Restored /\ RestoredOnce' /\ Reasoned' /\ Committed'
    BY <1>1, <1>2, <1>4 DEF Restored, RestoredOnce, Reasoned, Committed
  <1>8. Applying'
    BY <1>1, <1>4, <1>7 DEF Applying
  <1>9. FencedUnlessWhole'
    BY <1>1, <1>2, <1>3 DEF FencedUnlessWhole, Whole
  <1>10. /\ backup'[d] = pull.before[d]
         /\ pull'.phase = "verify" => data'[d] = pulls
    <2>1. CASE MoveAside(d)
      <3>1. ~Moving(d)
        BY <2>1 DEF MoveAside, Moving
      <3>2. data[d] = pull.before[d]
        BY <1>1, <1>2, <3>1, Untouched
      <3> QED  BY <1>1, <1>4, <2>1, <3>2 DEF MoveAside, TypeOK
    <2>2. CASE Install(d)
      BY <1>1, <1>2, <2>2 DEF Install, TypeOK
    <2> QED  BY <2>1, <2>2
  <1>11. Undoable'
    <2> SUFFICES ASSUME NEW x \in pull.selected
                 PROVE  /\ \A c \in disk : c[x] = pull.before[x]
                        /\ x \in Restored => /\ data'[x] = pulls /\ backup'[x] = pull.before[x]
                                             /\ receipt[x] /\ x \in pull.pending
                        /\ x \in pull.current => receipt[x]
                        /\ Moving(x)' => receipt[x] /\ backup'[x] = pull.before[x]
                        /\ Moving(x)' /\ pull'.phase = "verify" => data'[x] = pulls
                        /\ x \notin Restored /\ ~Moving(x)' => data'[x] = pull.before[x]
      BY <1>1, <1>4, <1>7 DEF Undoable, Kept
    <2>1. (Moving(x)' <=> x = d) /\ (x \in pull.current <=> x = d)
      BY <1>1, <1>4 DEF Moving, Only
    <2>2. CASE x = d
      BY <1>1, <1>2, <1>10, <2>1, <2>2 DEF Undoable
    <2>3. CASE x # d
      <3>1. ~Moving(x) /\ x \in Profile
        BY <2>1, <2>3, RestoredSelected DEF Moving
      <3>2. data'[x] = data[x] /\ backup'[x] = backup[x]
        BY <1>3, <2>3, <3>1
      <3> QED  BY <1>1, <1>2, <2>1, <2>3, <3>1, <3>2 DEF Undoable
    <2> QED  BY <2>2, <2>3
  <1> QED  BY <1>1, <1>2, <1>3, <1>6, <1>7, <1>8, <1>9, <1>11 DEF RestoreInv

\* A failing installation and its undo move a fenced directory only.
LEMMA FailedMoveKeeps ==
  ASSUME RestoreInv, NEW d \in Profile, InstallFails(d) \/ Undo(d)
  PROVE  /\ RestoreInv' /\ held[d] = "pull"
         /\ data'[d] # data[d] => ~browser[d]
         /\ \A x \in Profile \ {d} : data'[x] = data[x]
  <1>1. /\ TypeOK /\ FencedUnlessWhole
        /\ pull.phase \in {"install", "moved", "verify"} /\ Only(d) /\ Kept
        /\ disk' = disk /\ config' = config /\ receipt' = receipt /\ backup' = backup
    BY DEF RestoreInv, InstallFails, Undo, durable
  <1>2. /\ d \in pull.selected /\ d \notin Restored /\ receipt[d] /\ held[d] = "pull"
        /\ ~pull.committed /\ pull.error = "none" /\ ~pull.failed
        /\ pull.phase \in {"moved", "verify"} => backup[d] = pull.before[d]
    BY <1>1, WorkedOn
  <1>3. /\ data' \in [Profile -> Version]
        /\ \A x \in Profile \ {d} : data'[x] = data[x]
        /\ data'[d] # data[d] => ~browser[d]
    BY <1>1 DEF InstallFails, Undo, TypeOK, Version, Stopped, durable
  <1>4. PICK e \in {"plain", "recovery"} :
          Throw(e) /\ (e = "plain" => data'[d] = pull.before[d])
    <2>1. CASE InstallFails(d)
      <3>1. ~Moving(d)
        BY <2>1 DEF InstallFails, Moving
      <3>2. data[d] = pull.before[d]
        BY <1>1, <1>2, <3>1, Untouched
      <3> QED  BY <2>1, <3>2 DEF InstallFails, durable
    <2>2. CASE Undo(d)
      <3>1. pull.phase \in {"moved", "verify"}
        BY <2>2 DEF Undo
      <3> QED  BY <1>1, <1>2, <2>2, <3>1 DEF Undo, TypeOK
    <2> QED  BY <2>1, <2>2
  <1>5. FencedUnlessWhole'
    BY <1>1, <1>2, <1>3 DEF FencedUnlessWhole, Whole
  <1>6. \A x \in Restored : data'[x] = data[x] /\ receipt'[x] = receipt[x]
    BY <1>1, <1>2, <1>3, RestoredSelected
  <1>7. \A x \in pull.selected \ Restored : data'[x] = pull.before[x] \/ (receipt'[x] /\ e = "recovery")
    <2> TAKE x \in pull.selected \ Restored
    <2>1. CASE x = d
      BY <1>1, <1>2, <1>4, <2>1
    <2>2. CASE x # d
      <3>1. ~Moving(x)
        BY <1>1, <2>2 DEF Moving, Only
      <3> QED  BY <1>1, <1>3, <2>2, <3>1, Untouched, RestoredSelected
    <2> QED  BY <2>1, <2>2
  <1> QED  BY <1>1, <1>2, <1>3, <1>4, <1>5, <1>6, <1>7, ThrowKeeps DEF TypeOK

\* A verified profile counts as restored.
LEMMA VerifiedKeeps ==
  ASSUME RestoreInv, NEW d \in Profile, Verified(d)
  PROVE  RestoreInv' /\ data' = data
  <1>1. /\ TypeOK /\ FencedUnlessWhole /\ RestoredOnce /\ Applying /\ Undoable
        /\ pull.phase = "verify" /\ Only(d) /\ Kept
        /\ data' = data /\ backup' = backup /\ disk' = disk /\ config' = config /\ receipt' = receipt
    BY DEF RestoreInv, Verified, durable
  <1>2. /\ d \in pull.selected /\ d \in pull.todo /\ d \notin Restored /\ receipt[d]
        /\ ~pull.committed /\ pull.error = "none" /\ ~pull.failed
        /\ backup[d] = pull.before[d] /\ data[d] = pulls
        /\ pull.pending = Restored \cup {d} /\ pull.todo = pull.selected \ Restored
    BY <1>1, WorkedOn
  <1>3. /\ pull'.phase = IF pull.todo = {d} THEN "commit" ELSE "apply"
        /\ pull'.error = pull.error
        /\ pull'.selected = pull.selected /\ pull'.todo = pull.todo \ {d} /\ pull'.current = {}
        /\ pull'.restored = Append(pull.restored, d) /\ pull'.pending = pull.pending
        /\ pull'.committed = pull.committed /\ pull'.failed = pull.failed /\ pull'.before = pull.before
    BY <1>1 DEF Verified, TypeOK, Pull
  <1>4. pull.restored \in Seq(Profile) /\ pull'.phase \in {"apply", "commit"}
    BY <1>1, <1>3 DEF TypeOK, Pull
  <1>11. pull' \in Pull
    <2> DEFINE phase == IF pull.todo = {d} THEN "commit" ELSE "apply"
               todo == pull.todo \ {d}
               restored == Append(pull.restored, d)
    <2>1. phase \in Phase /\ todo \in SUBSET Profile /\ restored \in Seq(Profile) /\ {} \in SUBSET Profile
      BY <1>1, <1>4 DEF TypeOK, Pull, Phase
    <2>2. pull' = [pull EXCEPT !.phase = phase, !.todo = todo, !.current = {}, !.restored = restored]
      BY <1>1 DEF Verified, TypeOK, Pull
    <2> HIDE DEF phase, todo, restored
    <2> QED  BY <1>1, <2>1, <2>2 DEF TypeOK, Pull
  <1>5. /\ Restored' = Restored \cup {d}
        /\ \A i, j \in DOMAIN pull'.restored : pull'.restored[i] = pull'.restored[j] => i = j
    BY SMTT(30), <1>1, <1>2, <1>3, <1>4, RangeOfAppend DEF RestoredOnce, Restored
  <1>6. RestoredOnce'
    BY <1>2, <1>3, <1>5, RestoredSelected DEF RestoredOnce
  <1>7. Advances
    BY <1>1, <1>3, <1>4 DEF Advances
  <1>8. TypeOK' /\ OutcomeIsTrue'
    BY <1>1, <1>3, <1>7, <1>11, AdvanceKeeps DEF TypeOK
  <1>9. FencedUnlessWhole' /\ Applying' /\ Reasoned' /\ Committed'
    BY <1>1, <1>2, <1>3, <1>4, <1>5 DEF FencedUnlessWhole, Whole, Applying, Reasoned, Committed
  <1>10. Undoable'
    <2> SUFFICES ASSUME NEW x \in pull.selected
                 PROVE  /\ \A c \in disk : c[x] = pull.before[x]
                        /\ x \in Restored \cup {d} => /\ data[x] = pulls /\ backup[x] = pull.before[x]
                                                      /\ receipt[x] /\ x \in pull.pending
                        /\ ~Moving(x)'
                        /\ x \notin Restored \cup {d} => data[x] = pull.before[x]
      BY <1>1, <1>3, <1>4, <1>5 DEF Undoable, Kept
    <2>1. ~Moving(x)' /\ (Moving(x) <=> x = d)
      BY <1>1, <1>4 DEF Moving, Only
    <2> QED  BY <1>1, <1>2, <2>1 DEF Undoable
  <1> QED  BY <1>1, <1>6, <1>8, <1>9, <1>10 DEF RestoreInv

-----------------------------------------------------------------------------
(* The commit *)

LEMMA CommitConfigKeeps ==
  ASSUME RestoreInv, CommitConfig
  PROVE  RestoreInv' /\ data' = data
  <1>1. /\ TypeOK /\ FencedUnlessWhole /\ RestoredOnce /\ Applying /\ Undoable
        /\ pull.phase = "commit" /\ Kept
        /\ data' = data /\ backup' = backup /\ receipt' = receipt
        /\ ~pull.committed /\ pull.error = "none" /\ ~pull.failed
        /\ pull.selected # {} /\ pull.selected \ Restored = {} /\ pull.pending = Restored
    BY DEF RestoreInv, CommitConfig, Applying
  <1>2. Restored = pull.selected
    BY <1>1, RestoredSelected
  <1>3. CASE Throw("plain") /\ UNCHANGED <<config, disk>>
    <2>1. FencedUnlessWhole'
      BY <1>1, <1>3 DEF FencedUnlessWhole, Whole
    <2> QED  BY <1>1, <1>2, <1>3, <2>1, ThrowKeeps DEF TypeOK
  <1>4. CASE /\ config' = [d \in Profile |-> IF d \in pull.selected THEN pulls ELSE config[d]]
             /\ disk' = disk \cup {config'}
             /\ pull' = [pull EXCEPT !.phase = "confirm", !.committed = TRUE]
    <2>1. /\ pull'.phase = "confirm" /\ pull'.error = pull.error
          /\ pull'.selected = pull.selected /\ pull'.todo = pull.todo /\ pull'.current = pull.current
          /\ pull'.restored = pull.restored /\ pull'.pending = pull.pending
          /\ pull'.committed /\ pull'.failed = pull.failed /\ pull'.before = pull.before
          /\ pull' \in Pull
      BY <1>1, <1>4 DEF TypeOK, Pull, Phase
    <2>2. /\ config' \in [Profile -> Version] /\ disk' \subseteq [Profile -> Version] /\ config' \in disk'
      BY <1>1, <1>4 DEF TypeOK, Version
    <2>3. Advances
      BY <1>1, <2>1 DEF Advances
    <2>4. TypeOK' /\ OutcomeIsTrue'
      BY <1>1, <2>1, <2>2, <2>3, AdvanceKeeps DEF TypeOK
    <2>5. Restored' = Restored /\ RestoredOnce' /\ Applying' /\ Undoable' /\ Reasoned'
      BY <1>1, <2>1 DEF Restored, RestoredOnce, Applying, Undoable, Reasoned
    <2>6. \A d \in pull.selected : data[d] = pulls /\ receipt[d] /\ config'[d] = pulls
      BY <1>1, <1>2, <1>4, RestoredSelected DEF Undoable
    <2>7. Committed'
      BY <1>1, <1>2, <2>1, <2>6 DEF Committed, Kept
    <2>8. FencedUnlessWhole'
      <3> SUFFICES ASSUME NEW d \in Profile, ~receipt[d], NEW c \in disk'
                   PROVE  data[d] = c[d]
        BY <1>1 DEF FencedUnlessWhole, Whole
      <3>1. d \notin pull.selected /\ \A k \in disk : data[d] = k[d]
        BY <1>1, <2>6 DEF FencedUnlessWhole, Whole
      <3>2. config'[d] = config[d] /\ config \in disk
        BY <1>1, <1>4, <3>1 DEF TypeOK
      <3> QED  BY <1>4, <3>1, <3>2
    <2> QED  BY <1>1, <2>4, <2>5, <2>7, <2>8 DEF RestoreInv
  <1> QED  BY <1>1, <1>3, <1>4 DEF CommitConfig

\* A flush leaves one configuration on disk, the committed one.
LEMMA ConfirmKeeps ==
  ASSUME RestoreInv, Confirm
  PROVE  RestoreInv' /\ data' = data
  <1>1. /\ TypeOK /\ FencedUnlessWhole /\ RestoredOnce /\ Committed
        /\ pull.phase = "confirm" /\ Kept /\ pull.committed /\ pull.error = "none"
        /\ data' = data /\ backup' = backup /\ receipt' = receipt /\ config' = config
        /\ pull.pending = pull.selected /\ \A d \in pull.selected : receipt[d]
    BY DEF RestoreInv, Confirm, Reasoned, Committed
  <1>2. disk' \subseteq disk /\ config' \in disk' /\ (disk' = disk \/ disk' = {config})
    BY <1>1 DEF TypeOK, Confirm
  <1>3. FencedUnlessWhole'
    BY <1>1, <1>2 DEF FencedUnlessWhole, Whole
  <1>4. CASE Throw("plain")
    BY <1>1, <1>2, <1>3, <1>4, ThrowKeeps DEF TypeOK
  <1>5. CASE Go("finish") /\ disk' = {config}
    <2>1. /\ pull'.phase = "finish" /\ pull'.error = pull.error
          /\ pull'.selected = pull.selected /\ pull'.todo = pull.todo /\ pull'.current = pull.current
          /\ pull'.restored = pull.restored /\ pull'.pending = pull.pending
          /\ pull'.committed = pull.committed /\ pull'.failed = pull.failed /\ pull'.before = pull.before
          /\ pull' \in Pull
      BY <1>1, <1>5 DEF Go, TypeOK, Pull, Phase
    <2>2. Advances
      BY <1>1, <2>1 DEF Advances
    <2>3. TypeOK' /\ OutcomeIsTrue'
      BY <1>1, <1>2, <2>1, <2>2, AdvanceKeeps DEF TypeOK
    <2>4. Restored' = Restored /\ RestoredOnce' /\ Applying' /\ Undoable' /\ Reasoned'
      BY <1>1, <2>1 DEF Restored, RestoredOnce, Applying, Undoable, Reasoned
    <2>5. Committed'
      BY <1>1, <1>5, <2>1 DEF Committed, Kept
    <2> QED  BY <1>1, <1>3, <2>3, <2>4, <2>5 DEF RestoreInv
  <1> QED  BY <1>1, <1>4, <1>5 DEF Confirm

\* A receipt is removed when directory and configuration agree on disk.
LEMMA FinishKeeps ==
  ASSUME RestoreInv, NEW d \in Profile, Finish(d)
  PROVE  RestoreInv' /\ data' = data
  <1>1. /\ TypeOK /\ FencedUnlessWhole /\ RestoredOnce /\ Committed
        /\ pull.phase = "finish" /\ Kept /\ pull.committed /\ pull.error = "none" /\ d \in pull.pending
        /\ data' = data /\ backup' = backup /\ disk' = disk /\ config' = config
        /\ disk = {config} /\ pull.selected # {}
        /\ \A x \in pull.selected : receipt[x] => x \in pull.pending
        /\ \A x \in pull.selected : data[x] = pulls /\ config[x] = pulls
    BY DEF RestoreInv, Finish, Reasoned, Committed
  <1>2. d \in pull.selected
    BY <1>1 DEF TypeOK
  <1>3. /\ receipt' \in [Profile -> BOOLEAN]
        /\ \A x \in Profile \ {d} : receipt'[x] = receipt[x]
    BY <1>1 DEF Finish, TypeOK
  <1>4. FencedUnlessWhole'
    BY <1>1, <1>2, <1>3 DEF FencedUnlessWhole, Whole
  <1>5. CASE Throw("recovery")
    BY <1>1, <1>3, <1>4, <1>5, ThrowKeeps DEF TypeOK
  <1>6. CASE /\ receipt' = [receipt EXCEPT ![d] = FALSE]
             /\ pull' = [pull EXCEPT !.pending = @ \ {d},
                                     !.phase = IF pull.pending = {d} THEN "close" ELSE "finish"]
    <2>1. /\ pull'.phase = IF pull.pending = {d} THEN "close" ELSE "finish"
          /\ pull'.error = pull.error
          /\ pull'.selected = pull.selected /\ pull'.todo = pull.todo /\ pull'.current = pull.current
          /\ pull'.restored = pull.restored /\ pull'.pending = pull.pending \ {d}
          /\ pull'.committed = pull.committed /\ pull'.failed = pull.failed /\ pull'.before = pull.before
          /\ pull' \in Pull
      BY <1>1, <1>6 DEF TypeOK, Pull, Phase
    <2>2. Advances
      BY <1>1, <2>1 DEF Advances
    <2>3. TypeOK' /\ OutcomeIsTrue'
      BY <1>1, <1>3, <2>1, <2>2, AdvanceKeeps DEF TypeOK
    <2>4. Restored' = Restored /\ RestoredOnce' /\ Applying' /\ Undoable'
      BY <1>1, <2>1 DEF Restored, RestoredOnce, Applying, Undoable
    <2>5. \A x \in pull.selected : receipt'[x] => x \in pull.pending \ {d}
      BY <1>1, <1>2, <1>3, <1>6, RestoredSelected DEF TypeOK
    <2>6. Committed' /\ Reasoned'
      BY <1>1, <2>1, <2>5 DEF Committed, Reasoned, Kept
    <2> QED  BY <1>1, <1>4, <2>3, <2>4, <2>6 DEF RestoreInv
  <1> QED  BY <1>1, <1>5, <1>6 DEF Finish

-----------------------------------------------------------------------------
(* The catch clause *)

LEMMA BeginUnwindKeeps ==
  ASSUME RestoreInv, BeginUnwind
  PROVE  RestoreInv' /\ data' = data
  <1>1. /\ TypeOK /\ FencedUnlessWhole /\ RestoredOnce /\ Undoable /\ Committed
        /\ pull.phase = "error" /\ Kept /\ pull.error # "none"
        /\ data' = data /\ backup' = backup /\ receipt' = receipt /\ config' = config
    BY DEF RestoreInv, BeginUnwind, Reasoned
  <1>2. disk' \subseteq disk /\ config' \in disk'
    BY <1>1 DEF TypeOK, BeginUnwind
  <1>3. FencedUnlessWhole'
    BY <1>1, <1>2 DEF FencedUnlessWhole, Whole
  <1>4. PICK phase \in {"rollback", "close"}, e \in {"plain", "recovery"} :
          /\ pull' = [pull EXCEPT !.phase = phase, !.error = e]
          /\ phase = "rollback" => Unwinds /\ e = pull.error
          /\ phase = "close" => \/ ~Unwinds /\ e = pull.error
                                \/ Unwinds /\ e = "recovery"
    <2>1. /\ pull.error \in {"plain", "recovery"}
          /\ \A phase : [pull EXCEPT !.phase = phase] = [pull EXCEPT !.phase = phase, !.error = pull.error]
      BY <1>1 DEF TypeOK, Pull
    <2>2. CASE Go("rollback") /\ Unwinds
      BY <2>1, <2>2 DEF Go
    <2>3. CASE Go("close") /\ ~Unwinds
      BY <2>1, <2>3 DEF Go
    <2>4. CASE pull' = [pull EXCEPT !.phase = "close", !.error = "recovery"] /\ Unwinds
      BY <2>4
    <2> QED  BY <2>2, <2>3, <2>4 DEF BeginUnwind
  <1>5. /\ pull'.phase = phase /\ pull'.error = e
        /\ pull'.selected = pull.selected /\ pull'.todo = pull.todo /\ pull'.current = pull.current
        /\ pull'.restored = pull.restored /\ pull'.pending = pull.pending
        /\ pull'.committed = pull.committed /\ pull'.failed = pull.failed /\ pull'.before = pull.before
        /\ pull' \in Pull
    BY <1>1, <1>4 DEF TypeOK, Pull, Phase
  <1>6. Advances
    BY <1>1, <1>5 DEF Advances
  <1>7. TypeOK' /\ OutcomeIsTrue'
    BY <1>1, <1>2, <1>5, <1>6, AdvanceKeeps DEF TypeOK
  <1>8. Restored' = Restored /\ RestoredOnce' /\ Applying' /\ Reasoned'
    BY <1>1, <1>4, <1>5 DEF Restored, RestoredOnce, Applying, Reasoned, Unwinds
  <1>9. Undoable'
    <2> SUFFICES ASSUME ~pull.committed, NEW x \in pull.selected
                 PROVE  /\ \A c \in disk : c[x] = pull.before[x]
                        /\ x \in Restored => /\ data[x] = pulls /\ backup[x] = pull.before[x]
                                             /\ receipt[x] /\ x \in pull.pending
                        /\ ~Moving(x)'
                        /\ x \notin Restored =>
                             data[x] = pull.before[x] \/ (receipt[x] /\ (pull.failed \/ e = "recovery"))
      BY <1>1, <1>2, <1>5, <1>8 DEF Undoable, Kept
    <2>1. ~Moving(x)' /\ ~Moving(x)
      BY <1>1, <1>4, <1>5 DEF Moving
    <2>2. pull.error = "recovery" => e = "recovery"
      BY <1>4 DEF Unwinds
    <2> QED  BY <1>1, <2>1, <2>2 DEF Undoable
  <1>10. Committed'
    <2>1. pull.committed => phase = "close" /\ e = pull.error
      BY <1>4 DEF Unwinds
    <2> QED  BY <1>1, <1>5, <2>1 DEF Committed, Kept
  <1> QED  BY <1>1, <1>3, <1>7, <1>8, <1>9, <1>10 DEF RestoreInv

\* The undo puts a fenced directory back, or leaves it fenced.
LEMMA RollBackKeeps ==
  ASSUME RestoreInv, RollBack
  PROVE  /\ RestoreInv'
         /\ \A x \in Profile : data'[x] # data[x] => held[x] = "pull" /\ ~browser[x]
  <1> DEFINE d == LastRestored
  <1>1. /\ TypeOK /\ FencedUnlessWhole /\ RestoredOnce /\ Undoable
        /\ pull.phase = "rollback" /\ pull.restored # << >> /\ Kept
        /\ pull.error = "plain" /\ ~pull.committed
        /\ backup' = backup /\ disk' = disk /\ config' = config
    BY DEF RestoreInv, RollBack, Reasoned
  <1>2. pull.restored \in Seq(Profile)
    BY <1>1 DEF TypeOK, Pull
  <1>3. /\ Earlier \in Seq(Profile) /\ d \in Profile /\ d \in Restored
        /\ {Earlier[i] : i \in DOMAIN Earlier} = Restored \ {d}
        /\ \A i, j \in DOMAIN Earlier : Earlier[i] = Earlier[j] => i = j
    <2>1. Distinct(pull.restored)
      BY <1>1 DEF RestoredOnce, Distinct
    <2>2. /\ Earlier = FrontOf(pull.restored) /\ LastRestored = LastOf(pull.restored)
          /\ Restored = Elements(pull.restored)
      BY DEF Earlier, LastRestored, Restored, FrontOf, LastOf, Elements
    <2>3. /\ FrontOf(pull.restored) \in Seq(Profile)
          /\ LastOf(pull.restored) \in Profile /\ LastOf(pull.restored) \in Elements(pull.restored)
          /\ Elements(FrontOf(pull.restored)) = Elements(pull.restored) \ {LastOf(pull.restored)}
          /\ Distinct(FrontOf(pull.restored))
      BY <1>1, <1>2, <2>1, RangeOfFront
    <2>4. /\ Earlier \in Seq(Profile) /\ d \in Profile /\ d \in Restored
          /\ Elements(Earlier) = Restored \ {d} /\ Distinct(Earlier)
      BY <2>2, <2>3, Zenon
    <2> QED  BY <2>4 DEF Elements, Distinct
  <1>4. \A x \in Profile : ~Moving(x)
    BY <1>1 DEF Moving
  <1>5. /\ data[d] = pulls /\ backup[d] = pull.before[d] /\ receipt[d] /\ d \in pull.pending
        /\ \A c \in disk : c[d] = pull.before[d]
        /\ held[d] = "pull" /\ d \in pull.selected
    BY <1>1, <1>3, RestoredSelected DEF Undoable, TypeOK
  <1> HIDE DEF d
  <1>16. \/ /\ Stopped(d)
            /\ data' = [data EXCEPT ![d] = backup[d]]
            /\ receipt' = [receipt EXCEPT ![d] = FALSE]
            /\ pull' = [pull EXCEPT !.restored = Earlier, !.pending = @ \ {d}]
         \/ /\ \/ data' = data /\ receipt' = receipt
               \/ Stopped(d) /\ data' = [data EXCEPT ![d] = Absent] /\ receipt' = receipt
               \/ /\ Stopped(d)
                  /\ data' = [data EXCEPT ![d] = backup[d]]
                  /\ \E left \in BOOLEAN : receipt' = [receipt EXCEPT ![d] = left]
            /\ pull' = [pull EXCEPT !.restored = Earlier, !.failed = TRUE]
    BY DEF RollBack, d
  <1>17. /\ data \in [Profile -> Version] /\ receipt \in [Profile -> BOOLEAN]
         /\ backup[d] \in Version /\ Absent \in Version /\ d \in Profile
    BY <1>1, <1>3 DEF TypeOK, Version
  <1>6. /\ data' \in [Profile -> Version] /\ receipt' \in [Profile -> BOOLEAN]
        /\ \A x \in Profile \ {d} : data'[x] = data[x] /\ receipt'[x] = receipt[x]
        /\ data'[d] # data[d] => ~browser[d]
    BY <1>16, <1>17 DEF Stopped
  <1>7. \/ /\ data'[d] = backup[d]
           /\ pull' = [pull EXCEPT !.restored = Earlier, !.pending = @ \ {d}]
        \/ /\ data'[d] = backup[d] \/ receipt'[d]
           /\ pull' = [pull EXCEPT !.restored = Earlier, !.failed = TRUE]
    BY <1>5, <1>16, <1>17
  <1>8. /\ pull'.phase = "rollback" /\ pull'.error = "plain"
        /\ pull'.selected = pull.selected /\ pull'.todo = pull.todo /\ pull'.current = pull.current
        /\ pull'.restored = Earlier /\ pull.pending \ {d} \subseteq pull'.pending
        /\ pull'.pending \subseteq pull.pending
        /\ pull'.committed = pull.committed /\ pull'.before = pull.before
        /\ pull.failed => pull'.failed
        /\ pull'.failed \/ data'[d] = pull.before[d]
        /\ data'[d] = pull.before[d] \/ receipt'[d]
    <2>1. pull \in Pull
      BY <1>1 DEF TypeOK
    <2>2. CASE data'[d] = backup[d] /\ pull' = [pull EXCEPT !.restored = Earlier, !.pending = @ \ {d}]
      BY <1>1, <1>5, <2>1, <2>2 DEF Pull
    <2>3. CASE (data'[d] = backup[d] \/ receipt'[d]) /\ pull' = [pull EXCEPT !.restored = Earlier, !.failed = TRUE]
      BY <1>1, <1>5, <2>1, <2>3 DEF Pull
    <2> QED  BY <1>7, <2>2, <2>3
  <1>9. pull' \in Pull
    <2>1. pull.pending \ {d} \in SUBSET Profile /\ TRUE \in BOOLEAN
      BY <1>1 DEF TypeOK, Pull
    <2> QED  BY ZenonT(40), <1>1, <1>3, <1>7, <2>1 DEF TypeOK, Pull
  <1>10. Advances
    BY <1>1, <1>8 DEF Advances
  <1>11. TypeOK' /\ OutcomeIsTrue'
    BY <1>1, <1>6, <1>8, <1>9, <1>10, AdvanceKeeps DEF TypeOK
  <1>12. Restored' = Restored \ {d} /\ RestoredOnce'
    <2>1. Restored' = Restored \ {d}
      <3>1. Restored' = {pull'.restored[i] : i \in DOMAIN pull'.restored}
        BY DEF Restored
      <3>2. Restored' = {Earlier[i] : i \in DOMAIN Earlier}
        BY <1>8, <3>1, Zenon
      <3> QED  BY <1>3, <3>2
    <2> QED  BY <1>1, <1>3, <1>8, <2>1 DEF RestoredOnce
  <1>13. Applying' /\ Reasoned' /\ Committed'
    BY <1>1, <1>8 DEF Applying, Reasoned, Committed
  <1>14. FencedUnlessWhole'
    <2> SUFFICES ASSUME NEW x \in Profile, ~receipt'[x], NEW c \in disk
                 PROVE  data'[x] = c[x]
      BY <1>1 DEF FencedUnlessWhole, Whole
    <2>1. CASE x = d
      BY <1>5, <1>8, <2>1
    <2>2. CASE x # d
      BY <1>1, <1>6, <2>2 DEF FencedUnlessWhole, Whole
    <2> QED  BY <2>1, <2>2
  <1>15. Undoable'
    <2> SUFFICES ASSUME NEW x \in pull.selected
                 PROVE  /\ \A c \in disk : c[x] = pull.before[x]
                        /\ x \in Restored \ {d} => /\ data'[x] = pulls /\ backup[x] = pull.before[x]
                                                   /\ receipt'[x] /\ x \in pull'.pending
                        /\ ~Moving(x)'
                        /\ x \notin Restored \ {d} =>
                             data'[x] = pull.before[x] \/ (receipt'[x] /\ pull'.failed)
      BY <1>1, <1>8, <1>12 DEF Undoable, Kept
    <2>1. ~Moving(x)'
      BY <1>8 DEF Moving
    <2>2. CASE x = d
      BY <1>5, <1>8, <2>1, <2>2
    <2>3. CASE x # d
      <3>1. x \in Profile /\ ~Moving(x) /\ data'[x] = data[x] /\ receipt'[x] = receipt[x]
        BY <1>4, <1>6, <2>3, RestoredSelected
      <3>2. x \in pull.pending => x \in pull'.pending
        BY <1>8, <2>3
      <3> QED  BY <1>1, <1>8, <2>1, <2>3, <3>1, <3>2 DEF Undoable
    <2> QED  BY <2>2, <2>3
  <1> QED  BY <1>5, <1>6, <1>11, <1>12, <1>13, <1>14, <1>15 DEF RestoreInv

\* Without a failed undo the receipts still open are of profiles that are as before.
LEMMA SettleKeeps ==
  ASSUME RestoreInv, Settle
  PROVE  RestoreInv' /\ data' = data
  <1>1. /\ TypeOK /\ FencedUnlessWhole /\ RestoredOnce /\ Undoable
        /\ pull.phase = "rollback" /\ pull.restored = << >> /\ Kept
        /\ pull.error = "plain" /\ ~pull.committed
        /\ data' = data /\ backup' = backup /\ disk' = disk /\ config' = config
    BY DEF RestoreInv, Settle, Reasoned
  <1>2. Restored = {} /\ \A x \in Profile : ~Moving(x)
    BY <1>1 DEF Restored, Moving
  <1>3. ~pull.failed => \A x \in pull.selected : data[x] = pull.before[x] /\ Whole(x)
    BY <1>1, <1>2, RestoredSelected DEF Undoable, Whole
  <1>4. /\ receipt' \in [Profile -> BOOLEAN]
        /\ \A x \in Profile : receipt'[x] = receipt[x] \/ (~pull.failed /\ x \in pull.pending)
    BY <1>1 DEF Settle, TypeOK
  <1>5. /\ pull'.phase \in {"rollback", "close"} /\ pull'.error = pull.error
        /\ pull'.selected = pull.selected /\ pull'.todo = pull.todo /\ pull'.current = pull.current
        /\ pull'.restored = pull.restored /\ pull'.pending \subseteq pull.pending
        /\ pull'.committed = pull.committed /\ pull'.before = pull.before
        /\ pull.failed => pull'.failed
    BY <1>1 DEF Settle, Go, TypeOK, Pull
  <1>6. pull' \in Pull
    <2>1. /\ \A x : pull.pending \ {x} \in SUBSET Profile
          /\ "close" \in Phase
      BY <1>1 DEF TypeOK, Pull, Phase
    <2>2. pull \in Pull
      BY <1>1 DEF TypeOK
    <2>3. CASE Go("close")
      BY <2>1, <2>2, <2>3 DEF Go, Pull
    <2>4. ASSUME NEW x \in pull.pending,
                 \/ pull' = [pull EXCEPT !.pending = @ \ {x}]
                 \/ pull' = [pull EXCEPT !.failed = TRUE]
          PROVE  pull' \in Pull
      BY <2>1, <2>2, <2>4 DEF Pull
    <2> QED  BY <2>3, <2>4 DEF Settle
  <1>7. Advances
    BY <1>1, <1>5 DEF Advances
  <1>8. TypeOK' /\ OutcomeIsTrue'
    BY <1>1, <1>4, <1>5, <1>6, <1>7, AdvanceKeeps DEF TypeOK
  <1>9. Restored' = Restored /\ RestoredOnce' /\ Applying' /\ Reasoned' /\ Committed'
    BY <1>1, <1>5 DEF Restored, RestoredOnce, Applying, Reasoned, Committed
  <1>10. FencedUnlessWhole'
    <2> SUFFICES ASSUME NEW x \in Profile, ~receipt'[x]
                 PROVE  Whole(x)
      BY <1>1 DEF FencedUnlessWhole, Whole
    <2>1. x \in pull.pending => x \in pull.selected
      BY <1>1 DEF TypeOK
    <2> QED  BY <1>1, <1>3, <1>4, <2>1 DEF FencedUnlessWhole
  <1>11. Undoable'
    <2> SUFFICES ASSUME NEW x \in pull.selected
                 PROVE  /\ \A c \in disk : c[x] = pull.before[x]
                        /\ x \notin Restored
                        /\ ~Moving(x)'
                        /\ data[x] = pull.before[x] \/ (receipt'[x] /\ pull'.failed)
      BY <1>1, <1>5, <1>9 DEF Undoable, Kept
    <2>1. ~Moving(x)'
      BY <1>5 DEF Moving
    <2>2. x \in Profile /\ ~Moving(x)
      BY <1>2, RestoredSelected
    <2>3. data[x] = pull.before[x] \/ (receipt[x] /\ pull.failed)
      BY <1>1, <1>2, <2>2 DEF Undoable
    <2> QED  BY <1>1, <1>2, <1>4, <1>5, <2>1, <2>2, <2>3 DEF Undoable
  <1> QED  BY <1>1, <1>8, <1>9, <1>10, <1>11 DEF RestoreInv

\* A restore gives its leases back and reports what it did.
LEMMA CloseKeeps ==
  ASSUME RestoreInv, Close
  PROVE  RestoreInv' /\ data' = data
  <1>1. /\ TypeOK /\ FencedUnlessWhole /\ Undoable /\ Committed /\ Reasoned
        /\ pull.phase = "close" /\ outcome' = Report
        /\ held' = [d \in Profile |-> IF held[d] = "pull" THEN "none" ELSE held[d]]
        /\ backup' = [d \in Profile |-> Absent]
        /\ data' = data /\ disk' = disk /\ receipt' = receipt /\ config' = config
        /\ browser' = browser /\ pulls' = pulls
    BY DEF RestoreInv, Close
  <1>2. /\ pull'.phase = "idle" /\ pull'.selected = pull.selected /\ pull'.before = pull.before
        /\ pull'.todo = {} /\ pull'.current = {} /\ pull'.pending = {} /\ pull'.restored = << >>
        /\ pull'.error = "none"
    BY DEF Close, NoPull
  <1>10. pull' \in Pull
    <2>1. /\ pull.selected \in SUBSET Profile /\ pull.before \in [Profile -> Version] \cup {<< >>}
          /\ {} \in SUBSET Profile /\ << >> \in Seq(Profile)
          /\ "idle" \in Phase /\ FALSE \in BOOLEAN /\ "none" \in {"none", "plain", "recovery"}
      BY <1>1 DEF TypeOK, Pull, Phase
    <2>2. pull' = [phase |-> "idle", selected |-> pull.selected, todo |-> {}, current |-> {},
                   restored |-> << >>, pending |-> {}, committed |-> FALSE, error |-> "none",
                   failed |-> FALSE, before |-> pull.before]
      BY DEF Close, NoPull
    <2> QED  BY <2>1, <2>2 DEF Pull
  <1>3. TypeOK'
    <2>1. outcome' \in {"none", "restored", "unchanged", "recovery"}
      BY <1>1 DEF Report
    <2>2. backup' \in [Profile -> Version] /\ held' \in [Profile -> {"none", "launch", "pull"}]
      BY <1>1 DEF TypeOK, Version
    <2>3. \A d \in Profile : held'[d] # "pull"
      BY <1>1
    <2> QED  BY <1>1, <1>2, <1>10, <2>1, <2>2, <2>3 DEF TypeOK
  <1>4. Restored' = {} /\ RestoredOnce'
    BY <1>2 DEF Restored, RestoredOnce
  <1>5. FencedUnlessWhole' /\ Applying' /\ Undoable' /\ Committed' /\ Reasoned'
    BY <1>1, <1>2 DEF FencedUnlessWhole, Whole, Applying, Undoable, Committed, Reasoned
  <1>6. \A d \in pull.selected : ~Moving(d) /\ config \in disk
    BY <1>1 DEF Moving, TypeOK
  <1>7. ASSUME Report = "restored", NEW d \in pull.selected
        PROVE  data[d] = pulls /\ config[d] = pulls /\ ~receipt[d]
    BY <1>1, <1>7 DEF Report, Reasoned, Committed
  <1>8. ASSUME Report = "unchanged", NEW d \in pull.selected
        PROVE  data[d] = pull.before[d] /\ config[d] = pull.before[d]
    <2>1. pull.error = "plain" /\ ~pull.failed /\ pull.pending = {}
      BY <1>1, <1>8 DEF Report, TypeOK, Pull
    <2>2. ~pull.committed
      BY <1>1, <2>1 DEF Committed
    <2>3. Restored = {}
      BY <1>1, <2>1, <2>2 DEF Reasoned, Restored
    <2> QED  BY <1>1, <1>6, <2>1, <2>2, <2>3 DEF Undoable
  <1>9. OutcomeIsTrue'
    BY <1>1, <1>2, <1>7, <1>8 DEF OutcomeIsTrue
  <1> QED  BY <1>1, <1>3, <1>4, <1>5, <1>9 DEF RestoreInv

-----------------------------------------------------------------------------

\* A restart recovers nothing by itself: what was fenced stays fenced.
LEMMA RestartKeeps ==
  ASSUME RestoreInv, NEW survivor \in disk, Restart(survivor), browser' \in [Profile -> BOOLEAN]
  PROVE  RestoreInv' /\ data' = data
  <1>1. /\ TypeOK /\ FencedUnlessWhole
        /\ config' = survivor /\ disk' = {survivor} /\ outcome' = "none"
        /\ held' = [d \in Profile |-> "none"] /\ backup' = [d \in Profile |-> Absent]
        /\ data' = data /\ receipt' = receipt /\ pulls' = pulls
    BY DEF RestoreInv, Restart
  <1>2. /\ pull'.phase = "idle" /\ pull'.selected = {} /\ pull'.todo = {} /\ pull'.current = {}
        /\ pull'.pending = {} /\ pull'.restored = << >>
        /\ pull' \in Pull
    BY DEF Restart, NoPull, Pull, Phase
  <1>3. TypeOK'
    <2>1. backup' \in [Profile -> Version] /\ held' \in [Profile -> {"none", "launch", "pull"}]
          /\ \A d \in Profile : held'[d] # "pull"
      BY <1>1 DEF Version
    <2>2. config' \in [Profile -> Version] /\ disk' \subseteq [Profile -> Version] /\ config' \in disk'
      BY <1>1 DEF TypeOK
    <2> QED  BY <1>1, <1>2, <2>1, <2>2 DEF TypeOK
  <1>4. RestoredOnce' /\ FencedUnlessWhole'
    BY <1>1, <1>2 DEF Restored, RestoredOnce, FencedUnlessWhole, Whole
  <1>5. Applying' /\ Undoable' /\ Committed' /\ Reasoned' /\ OutcomeIsTrue'
    BY <1>1, <1>2 DEF Applying, Undoable, Committed, Reasoned, OutcomeIsTrue
  <1> QED  BY <1>1, <1>3, <1>4, <1>5 DEF RestoreInv

\* RestoreInv holds when nothing was restored.
LEMMA RestoreInit ==
  ASSUME Init
  PROVE  RestoreInv
  <1>1. /\ data \in [Profile -> {0, Absent}] /\ backup = [d \in Profile |-> Absent]
        /\ config = data /\ disk = {data} /\ receipt = [d \in Profile |-> FALSE]
        /\ held = [d \in Profile |-> "none"] /\ browser = [d \in Profile |-> FALSE]
        /\ pulls = 0 /\ outcome = "none"
    BY DEF Init
  <1>2. /\ pull.phase = "idle" /\ pull.selected = {} /\ pull.todo = {} /\ pull.current = {}
        /\ pull.pending = {} /\ pull.restored = << >>
        /\ pull \in Pull
    BY DEF Init, NoPull, Pull, Phase
  <1>3. {0, Absent} \subseteq Version /\ pulls \in 0..MaxPulls
    BY <1>1, PullAssumption DEF Version
  <1>4. TypeOK
    BY <1>1, <1>2, <1>3 DEF TypeOK
  <1>5. RestoredOnce /\ FencedUnlessWhole
    BY <1>1, <1>2 DEF Restored, RestoredOnce, FencedUnlessWhole, Whole
  <1>6. Applying /\ Undoable /\ Committed /\ Reasoned /\ OutcomeIsTrue
    BY <1>1, <1>2 DEF Applying, Undoable, Committed, Reasoned, OutcomeIsTrue
  <1> QED  BY <1>4, <1>5, <1>6 DEF RestoreInv

\* A directory changes only under the lease of a restore, with no browser on it.
MovesHeld == \A d \in Profile : data'[d] # data[d] => ~browser[d] /\ held[d] = "pull"

\* RestoreInv is inductive, and only a held profile without a browser moves.
LEMMA RestoreNext ==
  ASSUME RestoreInv, [Next]_vars
  PROVE  RestoreInv' /\ MovesHeld
  <1>1. ASSUME NEW selected \in SUBSET Profile, BeginPull(selected)
        PROVE  RestoreInv' /\ MovesHeld
    BY <1>1, BeginPullKeeps DEF MovesHeld
  <1>2. CASE Prepare \/ CommitConfig \/ Confirm \/ BeginUnwind \/ Settle \/ Close
    BY <1>2, PrepareKeeps, CommitConfigKeeps, ConfirmKeeps, BeginUnwindKeeps, SettleKeeps, CloseKeeps
       DEF MovesHeld
  <1>3. CASE RollBack
    BY <1>3, RollBackKeeps DEF MovesHeld
  <1>4. ASSUME NEW d \in Profile, OpenGate(d) \/ Verified(d) \/ Finish(d)
        PROVE  RestoreInv' /\ MovesHeld
    BY <1>4, OpenGateKeeps, VerifiedKeeps, FinishKeeps DEF MovesHeld
  <1>5. ASSUME NEW d \in Profile, MoveAside(d) \/ Install(d)
        PROVE  RestoreInv' /\ MovesHeld
    BY <1>5, MoveAsideKeeps DEF MovesHeld
  <1>6. ASSUME NEW d \in Profile, InstallFails(d) \/ Undo(d)
        PROVE  RestoreInv' /\ MovesHeld
    BY <1>6, FailedMoveKeeps DEF MovesHeld
  <1>7. ASSUME NEW d \in Profile, BeginLaunch(d) \/ SpawnBrowser(d) \/ FailLaunch(d) \/ BrowserExits(d)
        PROVE  RestoreInv' /\ MovesHeld
    BY <1>7, LaunchesKeep DEF MovesHeld
  <1>8. CASE Crash \/ PowerLoss
    <2>1. /\ config \in disk /\ browser \in [Profile -> BOOLEAN]
          /\ [d \in Profile |-> FALSE] \in [Profile -> BOOLEAN]
      BY DEF RestoreInv, TypeOK
    <2>2. browser' \in [Profile -> BOOLEAN] /\ \E survivor \in disk : Restart(survivor)
      BY <1>8, <2>1 DEF Crash, PowerLoss
    <2> QED  BY <2>2, RestartKeeps DEF MovesHeld
  <1>9. CASE UNCHANGED vars
    <2>1. /\ UNCHANGED <<durable, config, pull, pulls, outcome>> /\ held' = held /\ browser' = browser
      BY <1>9 DEF vars
    <2>2. /\ held \in [Profile -> {"none", "launch", "pull"}] /\ browser \in [Profile -> BOOLEAN]
      BY DEF RestoreInv, TypeOK
    <2> QED  BY <2>1, <2>2, QuietKeeps DEF MovesHeld
  <1> QED  BY <1>1, <1>2, <1>3, <1>4, <1>5, <1>6, <1>7, <1>8, <1>9 DEF Next, PullStep

(* The restore keeps its inductive invariant: a profile without a receipt is *)
(* whole in every configuration a power loss may leave, what an uncommitted  *)
(* restore has changed can be undone, and what a committed one has brought   *)
(* is fenced until the configuration is known to be on disk.                 *)
THEOREM RestoreInvariant == Spec => []RestoreInv
  <1>1. Init => RestoreInv
    BY RestoreInit
  <1>2. RestoreInv /\ [Next]_vars => RestoreInv'
    BY RestoreNext
  <1> QED  BY <1>1, <1>2, PTL DEF Spec

(* Whatever fails, crashes or loses power, and for any number of profiles    *)
(* and restores: a profile that may be launched is whole, and the report of  *)
(* a restore is the truth about every profile it selected.                   *)
THEOREM RestoreCorrect == Spec => [](TypeOK /\ GateMeansWhole /\ OutcomeIsTrue)
  <1>1. RestoreInv => TypeOK /\ GateMeansWhole /\ OutcomeIsTrue
    BY DEF RestoreInv, FencedUnlessWhole, Whole, GateMeansWhole
  <1> QED  BY <1>1, RestoreInvariant, PTL

(* No step of a restore, of its undo or of a restart changes a directory     *)
(* under a running browser or under a launch that is being prepared.         *)
THEOREM NothingMovesUnderBrowser == Spec => NoMoveUnderBrowser
  <1>1. RestoreInv /\ [Next]_vars =>
          [\A d \in Profile : data'[d] # data[d] => ~browser[d] /\ held[d] # "launch"]_vars
    BY RestoreNext DEF MovesHeld
  <1> QED  BY <1>1, RestoreInvariant, PTL DEF Spec, NoMoveUnderBrowser
=============================================================================
