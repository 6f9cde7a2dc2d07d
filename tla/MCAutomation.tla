----------------------------- MODULE MCAutomation -----------------------------
(* Instances of the automation engine for TLC. *)
EXTENDS AutomationProperties, TLC

CONSTANTS r1, r2, r3

CronAndEvent    == (r1 :> "cron") @@ (r2 :> "event")
OnceAndCron     == (r1 :> "once") @@ (r2 :> "cron")
ThreeEventRules == (r1 :> "event") @@ (r2 :> "event") @@ (r3 :> "cron")

NoRetry  == [r \in Rule |-> 0]
RetryFirst == [r \in Rule |-> IF r = r1 THEN 1 ELSE 0]
OneRetry == [r \in Rule |-> 1]
=============================================================================
