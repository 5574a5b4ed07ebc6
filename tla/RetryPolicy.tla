---------------------------- MODULE RetryPolicy ----------------------------
(***************************************************************************)
(* enrichment/retry-policy.ts: the pure decisions taken after a failed     *)
(* call.  Failures are the classes the rest of the system tells apart:     *)
(* server_error, invalid_response, timeout and network_error are treated   *)
(* alike by the retry policy and by the circuit breaker, and are the one   *)
(* class "unhealthy".                                                      *)
(***************************************************************************)
EXTENDS Integers

FailureKinds == {"rate_limited", "client_error", "unhealthy"}

(* The value an attempt's row gets in enrichment_attempts.outcome. *)
AttemptOutcomeOf(kind) ==
  CASE kind = "rate_limited" -> "RATE_LIMITED"
    [] kind = "client_error" -> "CLIENT_ERROR"
    [] kind = "unhealthy"    -> "UNHEALTHY"

(* Mutated form of DecideAfterFailure: off by one.                          *)
DecideOneEarly(kind, attempts, maxAttempts) ==
  IF kind = "client_error" \/ attempts + 1 >= maxAttempts THEN "fail" ELSE "retry"

(* `attempts' already counts the attempt that just failed. *)
DecideAfterFailure(kind, attempts, maxAttempts) ==
  IF kind = "client_error" \/ attempts >= maxAttempts THEN "fail" ELSE "retry"
=============================================================================
