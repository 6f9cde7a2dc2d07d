------------------------------- MODULE JobGuard -------------------------------
(***************************************************************************)
(* The per-rule execution guard of src/main/services/job-guard.ts: a        *)
(* re-entry lock, a consecutive-failure counter and a cooldown.             *)
(*                                                                         *)
(* Two abstractions.  cooldownUntil is compared with the clock only, so it  *)
(* is the flag `cooling` ("a cooldown is set and has not elapsed"), and the *)
(* clock clears it (CooldownElapses in AutomationScheduler).  The counter   *)
(* is compared with the cooldown threshold only, so it saturates there.     *)
(***************************************************************************)
EXTENDS Integers

CONSTANT CooldownAfter    \* cooldownAfterFailures (3 in the code)

ASSUME GuardAssumption == CooldownAfter \in Nat \ {0}

GuardState == [running: BOOLEAN, failures: 0 .. CooldownAfter, cooling: BOOLEAN]

IdleGuard == [running |-> FALSE, failures |-> 0, cooling |-> FALSE]

ShouldRun(g) == ~g.running /\ ~g.cooling

(* shouldRun tests the lock before the cooldown: a running rule is refused *)
(* for "running" even while it cools down.                                  *)
RefusedForCooldown(g) == ~g.running /\ g.cooling

Begin(g) == [g EXCEPT !.running = TRUE]

(* A cancelled run releases the lock and leaves both counters alone. *)
Cancel(g) == [g EXCEPT !.running = FALSE]

Failed(g) == IF g.failures < CooldownAfter THEN g.failures + 1 ELSE g.failures

EntersCooldown(g) == Failed(g) >= CooldownAfter

(* Mutant: end() clears the lock on success only. *)
EndKeepsLockOnFailure(g, ok) ==
  IF ok THEN IdleGuard
  ELSE [running  |-> TRUE,
        failures |-> Failed(g),
        cooling  |-> g.cooling \/ EntersCooldown(g)]

(* end(): success resets, a failure counts and may start the cooldown. *)
End(g, ok) ==
  IF ok THEN IdleGuard
  ELSE [running  |-> FALSE,
        failures |-> Failed(g),
        cooling  |-> g.cooling \/ EntersCooldown(g)]

(* end(): a retry needs attempts left and no cooldown entered this turn. *)
ScheduleRetry(g, attempt, maxRetries) ==
  attempt < maxRetries /\ ~EntersCooldown(g)
=============================================================================
