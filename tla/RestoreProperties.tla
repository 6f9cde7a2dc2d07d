------------------------- MODULE RestoreProperties -------------------------
(* What the receipts and the leases of a complete restore promise. *)
EXTENDS ProfileRestore

(* Types of the variables, and that the leases of a restore are those of the *)
(* profiles it selected.                                                      *)
Pull == [phase: Phase, selected: SUBSET Profile, todo: SUBSET Profile,
         current: SUBSET Profile, restored: Seq(Profile), pending: SUBSET Profile,
         committed: BOOLEAN, error: {"none", "plain", "recovery"}, failed: BOOLEAN,
         before: [Profile -> Version] \cup {<< >>}]

TypeOK ==
  /\ data \in [Profile -> Version] /\ backup \in [Profile -> Version]
  /\ config \in [Profile -> Version]
  /\ disk \subseteq [Profile -> Version] /\ config \in disk
  /\ receipt \in [Profile -> BOOLEAN]
  /\ held \in [Profile -> {"none", "launch", "pull"}]
  /\ browser \in [Profile -> BOOLEAN]
  /\ pulls \in 0..MaxPulls
  /\ outcome \in {"none", "restored", "unchanged", "recovery"}
  /\ pull \in Pull
  /\ pull.todo \subseteq pull.selected /\ pull.pending \subseteq pull.selected
  /\ pull.current \subseteq pull.selected
  /\ \A d \in Profile : held[d] = "pull" <=> pull.phase # "idle" /\ d \in pull.selected

(* A profile that may be launched is whole: its directory is of the version  *)
(* of its entry in every configuration a power loss can leave behind.  It    *)
(* holds in the middle of a restore, after any failure of it, after a failed *)
(* undo, and after a crash at any point.                                     *)
GateMeansWhole ==
  \A d \in Profile : ~receipt[d] /\ held[d] # "pull" => \A c \in disk : data[d] = c[d]

(* The report of a restore is the truth about every selected profile: all of *)
(* them restored, or none of them changed, or recovery is asked for.         *)
OutcomeIsTrue ==
  pull.phase = "idle" =>
    /\ outcome = "restored" =>
         \A d \in pull.selected : data[d] = pulls /\ config[d] = pulls /\ ~receipt[d]
    /\ outcome = "unchanged" =>
         \A d \in pull.selected : data[d] = pull.before[d] /\ config[d] = pull.before[d]

(* No directory changes under a browser the application has launched, and    *)
(* none under a launch that is being prepared.                               *)
NoMoveUnderBrowser ==
  [][\A d \in Profile : data'[d] # data[d] => ~browser[d] /\ held[d] # "launch"]_vars

(* A restore comes to an end and gives its leases back, whatever failed.     *)
LeasesReturned ==
  \A d \in Profile : held[d] = "pull" ~> held[d] # "pull"


-----------------------------------------------------------------------------
(* The inductive invariant behind the properties above.                      *)

\* Without a receipt a directory agrees with every configuration on disk, the
\* profiles of the running restore included.
Whole(d) == \A c \in disk : data[d] = c[d]
FencedUnlessWhole == \A d \in Profile : ~receipt[d] => Whole(d)

\* The profiles restored are selected ones, each restored once.
Restored == {pull.restored[i] : i \in DOMAIN pull.restored}
RestoredOnce ==
  /\ Restored \subseteq pull.selected
  /\ \A i, j \in DOMAIN pull.restored : pull.restored[i] = pull.restored[j] => i = j

\* Until it commits or fails, a restore has receipts for what it restored and
\* for the profile it works on, and the rest is to do.
Applying ==
  pull.phase \in {"prepare", "apply", "install", "moved", "verify", "commit"} =>
    /\ ~pull.committed /\ pull.error = "none" /\ ~pull.failed
    /\ pull.selected # {} /\ pull.todo = pull.selected \ Restored
    /\ pull.pending = Restored \cup pull.current
    /\ IF pull.phase \in {"install", "moved", "verify"}
       THEN \E d \in pull.todo : pull.current = {d} ELSE pull.current = {}
    /\ pull.phase = "commit" => pull.todo = {}

\* Until it commits, every configuration is that from before, what was restored
\* is fenced and can be put back, and the rest is what it was, unless the
\* failure to put it back is known.
Moving(d) == pull.phase \in {"moved", "verify"} /\ d \in pull.current
Undoable ==
  pull.phase # "idle" /\ ~pull.committed =>
    \A d \in pull.selected :
      /\ \A c \in disk : c[d] = pull.before[d]
      /\ d \in Restored => /\ data[d] = pulls /\ backup[d] = pull.before[d]
                           /\ receipt[d] /\ d \in pull.pending
      /\ pull.phase = "install" /\ d \in pull.current => receipt[d]
      /\ Moving(d) => receipt[d] /\ backup[d] = pull.before[d]
      /\ Moving(d) /\ pull.phase = "verify" => data[d] = pulls
      /\ d \notin Restored /\ ~Moving(d) =>
           data[d] = pull.before[d] \/ (receipt[d] /\ (pull.failed \/ pull.error = "recovery"))

\* A committed restore has every selected profile; its receipts are complete
\* until the configuration is known to be on disk.
Committed ==
  pull.phase # "idle" /\ pull.committed =>
    /\ pull.selected # {}
    /\ pull.phase \in {"confirm", "finish", "error", "close"}
    /\ \A d \in pull.selected : data[d] = pulls /\ config[d] = pulls
    /\ pull.phase = "confirm" \/ pull.error = "plain" =>
         pull.pending = pull.selected /\ \A d \in pull.selected : receipt[d]
    /\ pull.phase = "finish" => /\ disk = {config}
                                /\ \A d \in pull.selected : receipt[d] => d \in pull.pending

\* Why a restore is where it is: what it will report.
Reasoned ==
  /\ pull.phase \in {"confirm", "finish"} => pull.committed /\ pull.error = "none"
  /\ pull.phase = "error" => pull.error # "none"
  /\ pull.phase = "rollback" => pull.error = "plain" /\ ~pull.committed
  /\ pull.phase = "close" /\ pull.error = "none" =>
       pull.committed /\ \A d \in pull.selected : ~receipt[d]
  /\ pull.phase = "close" /\ pull.error = "plain" /\ ~pull.committed => pull.restored = << >>

RestoreInv ==
  /\ TypeOK
  /\ FencedUnlessWhole
  /\ RestoredOnce
  /\ Applying
  /\ Undoable
  /\ Committed
  /\ Reasoned
  /\ OutcomeIsTrue
=============================================================================
