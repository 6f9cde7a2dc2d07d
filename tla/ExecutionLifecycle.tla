-------------------------- MODULE ExecutionLifecycle --------------------------
(***************************************************************************)
(* What the automation engine promises about logical executions, seen from *)
(* the job table and the notification log only.  It is the life cycle that  *)
(* the header of src/main/services/job-store.ts and the M3 comments of      *)
(* automation.ts describe: an execution moves along the edges below, never  *)
(* leaves a terminal status except by being pruned, runs only while no      *)
(* other execution of its rule runs, and is alerted at most once, with the  *)
(* status it ended in.  An alert for done or failed is raised by the very   *)
(* step that takes the execution there, and one that never ran raises none; *)
(* an execution that a user or a stop cancelled while its action was out    *)
(* may raise its alert later, when the action settles.                      *)
(***************************************************************************)
CONSTANTS Execution,   \* the logical executions
          Lifecycle    \* the statuses, as pairs <<from, to>>, a step may take

VARIABLES status,      \* status of each execution, "none" before it exists
          rule,        \* the rule it executes
          alert        \* the alert it raised, "none" if it raised none

Final == {"done", "failed", "cancelled"}

(* An alert for done or failed is part of the step from running; one for     *)
(* cancelled may also follow the step that cancelled the execution.          *)
AlertStep(e) ==
  /\ alert[e] = "none"
  /\ alert'[e] = status'[e] /\ status'[e] \in Final
  /\ status[e] \in {"running", "cancelled"}

(* One execution takes an edge or stays, and raises its alert or does not.   *)
ExecutionStep(e) ==
  /\ \/ status'[e] = status[e] /\ rule'[e] = rule[e]
     \/ /\ <<status[e], status'[e]>> \in Lifecycle
        /\ status[e] # "none" /\ status'[e] # "none" => rule'[e] = rule[e]
  /\ alert'[e] = alert[e] \/ AlertStep(e)

(* A rule has at most one running execution. *)
OnePerRule ==
  \A e, f \in Execution :
    status[e] = "running" /\ status[f] = "running" /\ rule[e] = rule[f] => e = f

Init ==
  /\ status = [e \in Execution |-> "none"]
  /\ alert = [e \in Execution |-> "none"]

(* Several executions may move at once: a reload abandons every parked retry,*)
(* a restart converges every unfinished row.                                 *)
Next ==
  /\ \A e \in Execution : ExecutionStep(e)
  /\ OnePerRule'

Spec == Init /\ [][Next]_<<status, rule, alert>>
=============================================================================
