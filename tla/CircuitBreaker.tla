--------------------------- MODULE CircuitBreaker ---------------------------
(***************************************************************************)
(* One provider's circuit breaker as the fleet uses it: requests on any    *)
(* replica acquire it, call the provider for as long as that takes, and    *)
(* report what they saw (GatewayRouter.runFailover drives the sequence).   *)
(* The scripts know nothing about who calls them, so a report can arrive   *)
(* in a later state than the one its request was admitted in.              *)
(*                                                                         *)
(* Faults: Redis unreachable at acquire (the router fails open), a lost    *)
(* reply (the client resends the script, or its process died), a report    *)
(* that never arrives, a crash in the middle of a call.                    *)
(***************************************************************************)
EXTENDS BreakerScripts, FiniteSets

CONSTANTS
    Callers,    \* requests in flight anywhere in the fleet
    MaxFaults   \* bound on the faults of one run

ASSUME CallersAssumption == IsFiniteSet(Callers) /\ MaxFaults \in Nat

VARIABLES
    br,        \* the five keys
    phase,     \* what each caller is doing
    healthy,   \* the provider answers: no retryable error until it fails
    faults,    \* faults so far
    \* History, read by the properties only:
    holder,    \* callers admitted as probes of the current HALF_OPEN period
               \* that have not reported
    intact,    \* in this period no lease ran out and only holders reported
    streak,    \* failure reports since the last success or reopening
    probeOks   \* successes reported by holders in this period

history == <<holder, intact, streak, probeOks>>
vars == <<br, phase, healthy, faults, holder, intact, streak, probeOks>>

Phases == {"idle", "calling"} \cup Outcomes
Skews == (-MaxSkew) .. MaxSkew

Init ==
    /\ br = NoKeys
    /\ phase = [c \in Callers |-> "idle"]
    /\ healthy = TRUE
    /\ faults = 0
    /\ holder = {}
    /\ intact = TRUE
    /\ streak = 0
    /\ probeOks = 0

-----------------------------------------------------------------------------
(* History of a script run that took a probe slot for the callers in `by'. *)
NoteAcquire(after, by) ==
    /\ holder' = IF after = br THEN holder
                 ELSE IF br.state = "OPEN" THEN by ELSE holder \cup by
    /\ intact' = IF br.state # after.state THEN TRUE ELSE intact
    /\ probeOks' = IF br.state # after.state THEN 0 ELSE probeOks
    /\ UNCHANGED streak

Min2(a, b) == IF a <= b THEN a ELSE b

(* History of a report by c with the keys going from br to `after'. *)
NoteReport(c, outcome, after) ==
    /\ holder' = IF after.state = "HALF_OPEN" THEN holder \ {c} ELSE {}
    /\ intact' = (intact /\ (br.state = "HALF_OPEN" => c \in holder))
    /\ streak' = CASE outcome = "failure" /\ br.state = "CLOSED" ->
                        Min2(streak + 1, FailureThreshold)
                   [] outcome = "success" -> 0
                   [] OTHER -> streak
    /\ probeOks' = IF outcome = "success" /\ c \in holder
                   THEN Min2(probeOks + 1, SuccessThreshold) ELSE probeOks

-----------------------------------------------------------------------------
(* circuitBreaker.acquire: admitted, or told OPEN and gone to the next     *)
(* candidate.                                                              *)
Acquire(c, skew) ==
    /\ phase[c] = "idle"
    /\ LET admitted == Allowed(br, skew)
           after == AcquireLua(br, skew) IN
        /\ br' = after
        /\ phase' = [phase EXCEPT ![c] = IF admitted THEN "calling" ELSE "idle"]
        /\ NoteAcquire(after, {c})
    /\ UNCHANGED <<healthy, faults>>

(* The provider's answer: a value, a retryable error (recordFailure) or an *)
(* error that says nothing about its health (release).                     *)
CallEnds(c, outcome) ==
    /\ phase[c] = "calling"
    /\ healthy => outcome # "failure"
    /\ phase' = [phase EXCEPT ![c] = outcome]
    /\ UNCHANGED <<br, healthy, faults, history>>

(* recordSuccess, recordFailure or release reaches Redis. *)
Report(c) ==
    /\ phase[c] \in Outcomes
    /\ br' = Script(phase[c], br)
    /\ NoteReport(c, phase[c], Script(phase[c], br))
    /\ phase' = [phase EXCEPT ![c] = "idle"]
    /\ UNCHANGED <<healthy, faults>>

(* CircuitBreaker.reset, from the admin API, at any time. *)
Reset ==
    /\ br' = ResetKeys(br)
    /\ holder' = {}
    /\ intact' = FALSE
    /\ streak' = 0
    /\ probeOks' = 0
    /\ UNCHANGED <<phase, healthy, faults>>

Tick ==
    /\ br' = Elapse(br)
    /\ intact' = (intact /\ Elapse(br).probes = br.probes)
    /\ UNCHANGED <<phase, healthy, faults, holder, streak, probeOks>>

(* The provider goes down or comes back. *)
Flip ==
    /\ healthy' = ~healthy
    /\ UNCHANGED <<br, phase, faults, history>>

-----------------------------------------------------------------------------
Fault == faults < MaxFaults /\ faults' = faults + 1

(* acquire ran, its reply was lost: ioredis resends the script (a second   *)
(* Acquire), gives up (FailOpen), or the process is gone.                  *)
AcquireReplyLost(c, skew) ==
    /\ Fault
    /\ phase[c] = "idle"
    /\ br' = AcquireLua(br, skew)
    /\ NoteAcquire(AcquireLua(br, skew), {})
    /\ UNCHANGED <<phase, healthy>>

(* acquire rejected: treated as CLOSED and allowed. *)
FailOpen(c) ==
    /\ Fault
    /\ phase[c] = "idle"
    /\ phase' = [phase EXCEPT ![c] = "calling"]
    /\ UNCHANGED <<br, healthy, history>>

(* A report ran, its reply was lost: it will be sent again, or Vanish. *)
ReportReplyLost(c) ==
    /\ Fault
    /\ phase[c] \in Outcomes
    /\ br' = Script(phase[c], br)
    /\ NoteReport(c, phase[c], Script(phase[c], br))
    /\ UNCHANGED <<phase, healthy>>

(* The report failed and was swallowed, or the replica crashed. *)
Vanish(c) ==
    /\ Fault
    /\ phase[c] # "idle"
    /\ phase' = [phase EXCEPT ![c] = "idle"]
    /\ holder' = holder \ {c}
    /\ UNCHANGED <<br, healthy, intact, streak, probeOks>>

CallerStep(c) ==
    \/ \E skew \in Skews : Acquire(c, skew) \/ AcquireReplyLost(c, skew)
    \/ \E outcome \in Outcomes : CallEnds(c, outcome)
    \/ Report(c)
    \/ FailOpen(c)
    \/ ReportReplyLost(c)
    \/ Vanish(c)

Next == (\E c \in Callers : CallerStep(c)) \/ Reset \/ Tick \/ Flip

Spec == Init /\ [][Next]_vars

-----------------------------------------------------------------------------
(* Clients keep sending requests, upstream timeouts end every call, Redis   *)
(* answers in the end, and a healthy provider cannot answer every request   *)
(* with a client error.  Nobody has to reset the breaker.                   *)
Traffic ==
    \A c \in Callers :
        /\ WF_vars(\E skew \in Skews : Acquire(c, skew))
        /\ WF_vars(\E outcome \in Outcomes : CallEnds(c, outcome))
        /\ SF_vars(CallEnds(c, "success"))
        /\ WF_vars(Report(c))

(* Only time passing is assumed: no client, report or operator helps. *)
TimeSpec == Spec /\ WF_vars(Tick)

-----------------------------------------------------------------------------
(* The type invariant: TTLs never run below zero, no counter goes negative. *)
TypeOK ==
    /\ br \in Breaker
    /\ phase \in [Callers -> Phases]
    /\ healthy \in BOOLEAN
    /\ faults \in 0 .. MaxFaults
    /\ holder \subseteq Callers
    /\ intact \in BOOLEAN
    /\ streak \in 0 .. FailureThreshold
    /\ probeOks \in 0 .. SuccessThreshold

(* The five keys never disagree, whatever order the scripts of different    *)
(* replicas run in: a CLOSED breaker starts from a clean slate (no count    *)
(* left over from an earlier period can trip it early), an OPEN one knows   *)
(* when it opened and holds no slots, a HALF_OPEN one stays within both of  *)
(* its limits.                                                              *)
KeysAgree ==
    /\ br.state = "CLOSED" =>
        /\ br.failures < FailureThreshold
        /\ br.opened = Absent /\ br.probes = 0 /\ br.successes = 0
    /\ br.state = "OPEN" =>
        br.opened # Absent /\ br.probes = 0 /\ br.successes = 0
    /\ br.state = "HALF_OPEN" =>
        br.probes <= MaxProbes /\ br.successes < SuccessThreshold

(* As long as no lease ran out and nobody else reported, the probes that    *)
(* are calling the provider are at most CB_HALF_OPEN_MAX_PROBES, even when  *)
(* acquire replies are lost, scripts are resent and probes crash.           *)
Probing == {c \in holder : phase[c] = "calling"}

ProbesBounded ==
    br.state = "HALF_OPEN" /\ intact => Cardinality(Probing) <= MaxProbes

(* The breaker opens only after FailureThreshold failure reports with no    *)
(* success and no reopening between them ("after failureThreshold           *)
(* consecutive failures").                                                  *)
TripsOnlyOnStreak ==
    [][br.state = "CLOSED" /\ br'.state = "OPEN" => streak' = FailureThreshold]_vars

(* Once open the breaker stays open until the timeout, up to clock skew,    *)
(* unless an operator resets it; and no late failure from a request         *)
(* admitted earlier restarts the open timer.                                *)
OpenPeriod ==
    [][br.state = "OPEN" =>
        /\ br'.state = "OPEN" => br'.opened >= br.opened
        /\ br'.state # "OPEN" /\ ~Reset => br.opened >= Timeout - MaxSkew]_vars

(* In an undisturbed HALF_OPEN period the breaker closes only after         *)
(* SuccessThreshold of the probes it admitted have succeeded.               *)
ClosesOnProbeEvidence ==
    [][br.state = "HALF_OPEN" /\ br'.state = "CLOSED" /\ intact'
        => probeOks' = SuccessThreshold]_vars

(* The breaker never refuses everyone for ever: time alone brings it back   *)
(* to a state that admits a request ("HALF_OPEN can never wedge             *)
(* permanently"), however many probes crashed without reporting.            *)
NeverWedged == []<>(\E skew \in Skews : Allowed(br, skew))

(* After the provider is healthy for good, and with traffic going on, the   *)
(* breaker closes for good.                                                 *)
Recovers == Traffic /\ <>[]healthy => <>[](br.state = "CLOSED")
=============================================================================
