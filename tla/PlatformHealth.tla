--------------------------- MODULE PlatformHealth ---------------------------
(***************************************************************************)
(* backend/orchestration/state_machine.py: the circuit breaker one platform*)
(* carries.  Each method of PlatformHealth runs under its lock, so each is *)
(* a function from the health record to the next one.                      *)
(*                                                                         *)
(* The time stamps _opened_at and _rate_limited_at are only ever compared  *)
(* with a cooldown, so the record holds what is left of each cooldown; the *)
(* failure count is only compared with the threshold and stops there.      *)
(***************************************************************************)
EXTENDS Integers

CONSTANTS FailureThreshold, OpenCooldown, RateLimitCooldown

ASSUME HealthAssumption ==
  /\ FailureThreshold \in Nat \ {0}
  /\ OpenCooldown \in Nat /\ RateLimitCooldown \in Nat

HealthStates == {"healthy", "degraded", "rate_limited", "failed", "recovering"}

Health == [state : HealthStates, failures : 0..FailureThreshold,
           openLeft : 0..OpenCooldown, limitLeft : 0..RateLimitCooldown]

NewHealth == [state |-> "healthy", failures |-> 0, openLeft |-> 0, limitLeft |-> 0]

RecordSuccess(h) == [h EXCEPT !.state = "healthy", !.failures = 0]

OpenCircuit(h) == [h EXCEPT !.state = "failed", !.openLeft = OpenCooldown]

\* record_failure with a 429.
RecordRateLimit(h) ==
  [h EXCEPT !.state = "rate_limited", !.limitLeft = RateLimitCooldown]

\* Mutation: the circuit opens one failure early.
OneMore(n) == IF n < FailureThreshold THEN n + 1 ELSE n

RecordFailureEarly(h) ==
  LET counted == [h EXCEPT !.failures = OneMore(@)]
  IN IF h.state = "recovering" \/ counted.failures >= FailureThreshold - 1
     THEN OpenCircuit(counted)
     ELSE [counted EXCEPT !.state = "degraded"]

\* record_failure with any other error.
RecordFailure(h) ==
  LET counted == [h EXCEPT !.failures = OneMore(@)]
  IN IF h.state = "recovering" \/ counted.failures >= FailureThreshold
     THEN OpenCircuit(counted)
     ELSE [counted EXCEPT !.state = "degraded"]

\* What allow_request() answers ...
Allowed(h) ==
  /\ h.state = "failed" => h.openLeft = 0
  /\ h.state = "rate_limited" => h.limitLeft = 0

\* ... and the cooldown-driven transition it makes when the answer is yes.
AfterAllow(h) ==
  CASE h.state = "failed" /\ Allowed(h)       -> [h EXCEPT !.state = "recovering"]
    [] h.state = "rate_limited" /\ Allowed(h) -> [h EXCEPT !.state = "degraded"]
    [] OTHER                                  -> h

Less(n) == IF n > 0 THEN n - 1 ELSE 0

\* Mutation: the cooldown of the open circuit restarts for ever.
ElapseLimitOnly(h) == [h EXCEPT !.limitLeft = Less(@)]

\* One unit of time passes.
Elapse(h) == [h EXCEPT !.openLeft = Less(@), !.limitLeft = Less(@)]
=============================================================================
