--------------------------- MODULE BreakerScripts ---------------------------
(***************************************************************************)
(* The Redis side of the circuit breaker (src/src/circuit-breaker): the    *)
(* five keys of one provider and the four Lua scripts plus the admin DEL   *)
(* that change them.  Redis runs a script atomically, so each script is    *)
(* one function from the keys to the keys.                                 *)
(*                                                                         *)
(* Time is relative and counted in ticks, so that the state space is       *)
(* finite without a bound on the length of a run: `opened' is the age of   *)
(* opened_at (saturated once every replica must agree the timeout has      *)
(* passed), `lease' and `window' are the remaining TTLs of half_probes and *)
(* failures.                                                               *)
(***************************************************************************)
EXTENDS Integers

CONSTANTS
    FailureThreshold,  \* CB_FAILURE_THRESHOLD
    SuccessThreshold,  \* CB_SUCCESS_THRESHOLD
    Timeout,           \* CB_TIMEOUT_MS: OPEN period and probe lease
    Window,            \* CB_WINDOW_MS: TTL of the failure counter
    MaxProbes,         \* CB_HALF_OPEN_MAX_PROBES
    MaxSkew            \* how far the clocks of two replicas may differ

(* What src/src/config/index.ts enforces on the five settings. *)
ASSUME BreakerConfig ==
    /\ FailureThreshold \in Nat \ {0}
    /\ SuccessThreshold \in Nat \ {0}
    /\ Timeout \in Nat \ {0}
    /\ Window \in Nat \ {0}
    /\ MaxProbes \in Nat \ {0}
    /\ MaxSkew \in Nat

States == {"CLOSED", "OPEN", "HALF_OPEN"}

(* opened_at is not set. *)
Absent == -1

(* Age at which even the slowest clock sees the timeout as elapsed. *)
MaxAge == Timeout + MaxSkew

Breaker ==
    [state     : States,
     failures  : Nat,
     window    : 0 .. Window,
     opened    : Absent .. MaxAge,
     probes    : Nat,
     lease     : 0 .. Timeout,
     successes : Nat]

(* No key exists: GET ... or 'CLOSED', GET ... or '0'. *)
NoKeys ==
    [state |-> "CLOSED", failures |-> 0, window |-> 0, opened |-> Absent,
     probes |-> 0, lease |-> 0, successes |-> 0]

(* now - opened_at as seen by a replica whose clock differs by `skew' from *)
(* the clock that wrote opened_at; a missing opened_at counts as 0, which  *)
(* is always long ago.                                                     *)
TimedOut(b, skew) ==
    b.opened = Absent \/ b.opened + skew >= Timeout

-----------------------------------------------------------------------------
(* ACQUIRE_LUA: the reply ... *)
Allowed(b, skew) ==
    \/ b.state = "CLOSED"
    \/ b.state = "OPEN" /\ TimedOut(b, skew)
    \/ b.state = "HALF_OPEN" /\ b.probes < MaxProbes

(* Mutants of AcquireLua: the first probe is not counted, half_probes gets *)
(* no expiry, every admission restarts the count of successes.             *)
AcquireUncounted(b, skew) ==
    CASE b.state = "OPEN" /\ TimedOut(b, skew) ->
            [b EXCEPT !.state = "HALF_OPEN", !.lease = Timeout, !.successes = 0]
      [] b.state = "HALF_OPEN" /\ b.probes < MaxProbes ->
            [b EXCEPT !.probes = b.probes + 1, !.lease = Timeout]
      [] OTHER -> b

AcquireWithoutLease(b, skew) ==
    CASE b.state = "OPEN" /\ TimedOut(b, skew) ->
            [b EXCEPT !.state = "HALF_OPEN", !.probes = 1, !.successes = 0]
      [] b.state = "HALF_OPEN" /\ b.probes < MaxProbes ->
            [b EXCEPT !.probes = b.probes + 1]
      [] OTHER -> b

AcquireStartsOver(b, skew) ==
    CASE b.state = "OPEN" /\ TimedOut(b, skew) ->
            [b EXCEPT !.state = "HALF_OPEN", !.probes = 1,
                      !.lease = Timeout, !.successes = 0]
      [] b.state = "HALF_OPEN" /\ b.probes < MaxProbes ->
            [b EXCEPT !.probes = b.probes + 1, !.lease = Timeout, !.successes = 0]
      [] OTHER -> b

(* ... and its effect on the keys. *)
AcquireLua(b, skew) ==
    CASE b.state = "OPEN" /\ TimedOut(b, skew) ->
            [b EXCEPT !.state = "HALF_OPEN", !.probes = 1,
                      !.lease = Timeout, !.successes = 0]
      [] b.state = "HALF_OPEN" /\ b.probes < MaxProbes ->
            [b EXCEPT !.probes = b.probes + 1, !.lease = Timeout]
      [] OTHER -> b

(* Mutant of GiveBackProbe: DECR without looking. *)
GiveBackUnfloored(b) == [b EXCEPT !.probes = b.probes - 1]

(* if p > 0 then DECR half_probes *)
GiveBackProbe(b) ==
    [b EXCEPT !.probes = IF b.probes > 0 THEN b.probes - 1 ELSE b.probes]

(* Mutants of SuccessLua: closing leaves the counters behind, a success in *)
(* CLOSED keeps the failures, the first success closes.                    *)
SuccessLeavesKeys(b) ==
    CASE b.state = "HALF_OPEN" -> [b EXCEPT !.state = "CLOSED"]
      [] b.state = "CLOSED" -> [b EXCEPT !.failures = 0, !.window = 0]
      [] OTHER -> b

SuccessKeepsFailures(b) ==
    CASE b.state = "HALF_OPEN" /\ b.successes + 1 >= SuccessThreshold -> NoKeys
      [] b.state = "HALF_OPEN" /\ b.successes + 1 < SuccessThreshold ->
            GiveBackProbe([b EXCEPT !.successes = b.successes + 1])
      [] OTHER -> b

SuccessClosesAtOnce(b) ==
    CASE b.state = "HALF_OPEN" -> NoKeys
      [] b.state = "CLOSED" -> [b EXCEPT !.failures = 0, !.window = 0]
      [] OTHER -> b

SuccessLua(b) ==
    CASE b.state = "HALF_OPEN" /\ b.successes + 1 >= SuccessThreshold -> NoKeys
      [] b.state = "HALF_OPEN" /\ b.successes + 1 < SuccessThreshold ->
            GiveBackProbe([b EXCEPT !.successes = b.successes + 1])
      [] b.state = "CLOSED" -> [b EXCEPT !.failures = 0, !.window = 0]
      [] OTHER -> b

(* Mutant of ReleaseLua: a client error keeps the slot of its probe. *)
ReleaseNothing(b) == b

ReleaseLua(b) ==
    IF b.state = "HALF_OPEN" THEN GiveBackProbe(b) ELSE b

(* Mutant of FailureLua: a late failure stamps opened_at again. *)
FailureRestartsTimer(b) ==
    CASE b.state # "CLOSED" -> [NoKeys EXCEPT !.state = "OPEN", !.opened = 0]
      [] b.state = "CLOSED" /\ b.failures + 1 >= FailureThreshold ->
            [b EXCEPT !.state = "OPEN", !.opened = 0,
                      !.failures = b.failures + 1, !.window = Window]
      [] OTHER -> [b EXCEPT !.failures = b.failures + 1, !.window = Window]

FailureLua(b) ==
    CASE b.state = "HALF_OPEN" -> [NoKeys EXCEPT !.state = "OPEN", !.opened = 0]
      [] b.state = "CLOSED" /\ b.failures + 1 >= FailureThreshold ->
            [b EXCEPT !.state = "OPEN", !.opened = 0,
                      !.failures = b.failures + 1, !.window = Window]
      [] b.state = "CLOSED" /\ b.failures + 1 < FailureThreshold ->
            [b EXCEPT !.failures = b.failures + 1, !.window = Window]
      [] OTHER -> b

(* What a request reports when its call is over: recordSuccess,            *)
(* recordFailure (retryable error) or release (no verdict on the provider). *)
Outcomes == {"success", "failure", "release"}

Script(outcome, b) ==
    CASE outcome = "success" -> SuccessLua(b)
      [] outcome = "failure" -> FailureLua(b)
      [] outcome = "release" -> ReleaseLua(b)

(* CircuitBreaker.reset: one DEL of the five keys. *)
ResetKeys(b) == NoKeys

(* One tick: opened_at ages, Redis counts the two TTLs down and drops a key *)
(* when its TTL ends; a TTL of 0 is a key that is absent or never expires.  *)
Elapse(b) ==
    [b EXCEPT
        !.opened   = IF b.opened \in 0 .. (MaxAge - 1) THEN b.opened + 1 ELSE b.opened,
        !.lease    = IF b.lease > 0 THEN b.lease - 1 ELSE 0,
        !.probes   = IF b.lease = 1 THEN 0 ELSE b.probes,
        !.window   = IF b.window > 0 THEN b.window - 1 ELSE 0,
        !.failures = IF b.window = 1 THEN 0 ELSE b.failures]
=============================================================================
