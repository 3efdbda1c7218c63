------------------------------ MODULE Failover ------------------------------
(***************************************************************************)
(* GatewayRouter.runFailover, run by several requests at once on any       *)
(* replica, composed with the circuit breakers (BreakerScripts) and the    *)
(* least-connections load balancer (LeastConnections) of all candidates.   *)
(* Every await of the loop is a step of its own, so that the requests      *)
(* interleave wherever the code gives up the thread.                       *)
(***************************************************************************)
EXTENDS BreakerScripts, LeastConnections, FiniteSets

CONSTANTS
    Requests,
    None,         \* no provider
    Reliable,     \* candidates for `reliable'
    MaxFaults     \* bound on the faults of one run

ASSUME FailoverAssumption ==
    /\ IsFiniteSet(Requests) /\ IsFiniteSet(Providers)
    /\ Providers # {} /\ None \notin Providers
    /\ Reliable \subseteq Providers
    /\ MaxFaults \in Nat

VARIABLES
    br,         \* per provider: the breaker's keys
    conns,      \* per provider: the in-flight gauge
    pc,         \* where each request is in the loop
    remaining,  \* candidates not selected yet
    at,         \* provider selected last
    attempts,   \* calls made
    exit,       \* where the loop goes once the gauge is released
    streams,    \* whether the request is a streaming one
    reliable,   \* providers that never fail with a retryable error
    faults,
    \* History, read by the properties only:
    slot,       \* provider on whose gauge the request counts
    verdict,    \* what became of each candidate
    calm        \* no fault and no gauge that ran out so far

vars == <<br, conns, pc, remaining, at, attempts, exit, streams, reliable,
          faults, slot, verdict, calm>>
shared == <<br, conns>>
ghosts == <<slot, verdict, calm>>

Ends == {"ok", "error", "exhausted"}
NoVerdict == [p \in Providers |-> "none"]

Init ==
    /\ br = [p \in Providers |-> NoKeys]
    /\ conns = [p \in Providers |-> NoGauge]
    /\ pc = [r \in Requests |-> "idle"]
    /\ remaining = [r \in Requests |-> {}]
    /\ at = [r \in Requests |-> None]
    /\ attempts = [r \in Requests |-> 0]
    /\ exit = [r \in Requests |-> "select"]
    /\ streams = [r \in Requests |-> FALSE]
    /\ reliable \in {{}, Reliable}
    /\ faults = 0
    /\ slot = [r \in Requests |-> None]
    /\ verdict = [r \in Requests |-> NoVerdict]
    /\ calm = TRUE

-----------------------------------------------------------------------------
(* Entering runFailover from chatCompletion, embeddings or prepareStream,   *)
(* every candidate of the model in `remaining'.                             *)
Start(r, stream) ==
    /\ pc[r] = "idle"
    /\ pc' = [pc EXCEPT ![r] = "select"]
    /\ remaining' = [remaining EXCEPT ![r] = Providers]
    /\ streams' = [streams EXCEPT ![r] = stream]
    /\ UNCHANGED <<shared, at, attempts, exit, faults, ghosts>>

(* The common part of every selection: p leaves `remaining'. *)
Chosen(r, p) ==
    /\ pc[r] = "select"
    /\ p \in remaining[r]
    /\ remaining' = [remaining EXCEPT ![r] = @ \ {p}]
    /\ at' = [at EXCEPT ![r] = p]
    /\ pc' = [pc EXCEPT ![r] = "acquire"]
    /\ UNCHANGED <<br, attempts, exit, streams, verdict>>

(* loadBalancer.select: least-connections takes a slot on the gauge; the    *)
(* other strategies keep no per-request resource and may pick anyone.       *)
Select(r, p) ==
    /\ Chosen(r, p)
    /\ p = Fewest(conns, remaining[r])
    /\ conns' = TakeConnection(conns, p)
    /\ slot' = [slot EXCEPT ![r] = p]
    /\ UNCHANGED <<faults, calm>>

(* while (remaining.length > 0) is over: AllProvidersFailedError. *)
Exhausted(r) ==
    /\ pc[r] = "select"
    /\ remaining[r] = {}
    /\ pc' = [pc EXCEPT ![r] = "exhausted"]
    /\ UNCHANGED <<shared, remaining, at, attempts, exit, streams, faults, ghosts>>

(* circuitBreaker.acquire: call the provider, or skip it. *)
Acquire(r) ==
    /\ pc[r] = "acquire"
    /\ LET p == at[r] IN
        /\ br' = [br EXCEPT ![p] = AcquireLua(br[p], 0)]
        /\ IF Allowed(br[p], 0)
           THEN /\ attempts' = [attempts EXCEPT ![r] = @ + 1]
                /\ pc' = [pc EXCEPT ![r] = "calling"]
                /\ UNCHANGED <<exit, verdict>>
           ELSE /\ pc' = [pc EXCEPT ![r] = "unwind"]
                /\ exit' = [exit EXCEPT ![r] = "select"]
                /\ verdict' = [verdict EXCEPT ![r][p] = "refused"]
                /\ UNCHANGED attempts
    /\ UNCHANGED <<conns, remaining, at, streams, faults, slot, calm>>

(* call(provider) settles: a value (for a stream: its first chunk), a       *)
(* retryable error, or an error that is the caller's own.                   *)
CallEnds(r, outcome) ==
    /\ pc[r] = "calling"
    /\ at[r] \in reliable => outcome # "failure"
    /\ pc' = [pc EXCEPT ![r] = outcome]
    /\ verdict' = [verdict EXCEPT ![r][at[r]] = outcome]
    /\ UNCHANGED <<shared, remaining, at, attempts, exit, streams, faults, slot, calm>>

(* Mutant of ExitOf: a client error fails over like a provider error. *)
ExitFailsOver(outcome) == IF outcome = "success" THEN "ok" ELSE "select"

(* Where the loop goes after the finally block. *)
ExitOf(outcome) ==
    CASE outcome = "success" -> "ok"
      [] outcome = "failure" -> "select"
      [] outcome = "release" -> "error"

(* recordSuccess and return; recordFailure and continue; release and throw. *)
Report(r) ==
    /\ pc[r] \in Outcomes
    /\ br' = [br EXCEPT ![at[r]] = Script(pc[r], @)]
    /\ exit' = [exit EXCEPT ![r] = ExitOf(pc[r])]
    /\ pc' = [pc EXCEPT ![r] = "unwind"]
    /\ UNCHANGED <<conns, remaining, at, attempts, streams, faults, ghosts>>

(* A stream that got its first chunk goes on after runFailover returned. *)
After(r) == IF exit[r] = "ok" /\ streams[r] THEN "streaming" ELSE exit[r]

(* Mutant of Unwind: the `continue' of a skipped candidate releases nothing. *)
UnwindOnlyCalls(r) ==
    /\ pc[r] = "unwind"
    /\ conns' = IF verdict[r][at[r]] # "refused"
                THEN ReleaseConnection(conns, at[r]) ELSE conns
    /\ slot' = [slot EXCEPT ![r] = None]
    /\ pc' = [pc EXCEPT ![r] = After(r)]
    /\ UNCHANGED <<br, remaining, at, attempts, exit, streams, faults, verdict, calm>>

(* loadBalancer.release, in the finally block or before `continue'. *)
Unwind(r) ==
    /\ pc[r] = "unwind"
    /\ conns' = ReleaseConnection(conns, at[r])
    /\ slot' = [slot EXCEPT ![r] = None]
    /\ pc' = [pc EXCEPT ![r] = After(r)]
    /\ UNCHANGED <<br, remaining, at, attempts, exit, streams, faults, verdict, calm>>

(* The request object is gone; a new one may take its place. *)
Forget(r) ==
    /\ pc' = [pc EXCEPT ![r] = "idle"]
    /\ remaining' = [remaining EXCEPT ![r] = {}]
    /\ at' = [at EXCEPT ![r] = None]
    /\ attempts' = [attempts EXCEPT ![r] = 0]
    /\ exit' = [exit EXCEPT ![r] = "select"]
    /\ streams' = [streams EXCEPT ![r] = FALSE]
    /\ slot' = [slot EXCEPT ![r] = None]
    /\ verdict' = [verdict EXCEPT ![r] = NoVerdict]

StreamEnds(r) ==
    /\ pc[r] = "streaming"
    /\ pc' = [pc EXCEPT ![r] = "ok"]
    /\ UNCHANGED <<shared, remaining, at, attempts, exit, streams, faults, ghosts>>

Answered(r) ==
    /\ pc[r] \in Ends
    /\ Forget(r)
    /\ UNCHANGED <<shared, faults, calm>>

(* Breaker timers, probe leases and gauge TTLs. *)
Tick ==
    /\ br' = [p \in Providers |-> Elapse(br[p])]
    /\ conns' = [p \in Providers |-> ElapseGauge(conns[p])]
    /\ calm' = (calm /\ \A p \in Providers : ElapseGauge(conns[p]).n = conns[p].n)
    /\ UNCHANGED <<pc, remaining, at, attempts, exit, streams, faults, slot, verdict>>

-----------------------------------------------------------------------------
Fault == faults < MaxFaults /\ faults' = faults + 1 /\ calm' = FALSE

(* The select script failed: a random candidate.  If only its reply was     *)
(* lost, the least gauge has been raised all the same.                      *)
SelectDegraded(r, p) ==
    /\ Fault
    /\ Chosen(r, p)
    /\ conns' \in {conns, TakeConnection(conns, Fewest(conns, remaining[r]))}
    /\ UNCHANGED slot

(* Mutant of AcquireFailsOpen: a provider whose breaker cannot be asked is  *)
(* skipped.                                                                 *)
AcquireFailsClosed(r) ==
    /\ Fault
    /\ pc[r] = "acquire"
    /\ pc' = [pc EXCEPT ![r] = "unwind"]
    /\ exit' = [exit EXCEPT ![r] = "select"]
    /\ verdict' = [verdict EXCEPT ![r][at[r]] = "refused"]
    /\ UNCHANGED <<shared, remaining, at, attempts, streams, slot>>

(* acquire rejected: fail open. *)
AcquireFailsOpen(r) ==
    /\ Fault
    /\ pc[r] = "acquire"
    /\ attempts' = [attempts EXCEPT ![r] = @ + 1]
    /\ pc' = [pc EXCEPT ![r] = "calling"]
    /\ UNCHANGED <<shared, remaining, at, exit, streams, slot, verdict>>

(* swallowBreakerError: the report never reached Redis. *)
ReportSwallowed(r) ==
    /\ Fault
    /\ pc[r] \in Outcomes
    /\ exit' = [exit EXCEPT ![r] = ExitOf(pc[r])]
    /\ pc' = [pc EXCEPT ![r] = "unwind"]
    /\ UNCHANGED <<shared, remaining, at, attempts, streams, slot, verdict>>

(* The release script failed; the gauge keeps the connection. *)
UnwindFails(r) ==
    /\ Fault
    /\ pc[r] = "unwind"
    /\ slot' = [slot EXCEPT ![r] = None]
    /\ pc' = [pc EXCEPT ![r] = After(r)]
    /\ UNCHANGED <<shared, remaining, at, attempts, exit, streams, verdict>>

(* The replica dies; nothing it held is given back. *)
Crash(r) ==
    /\ Fault
    /\ pc[r] \notin {"idle"} \cup Ends
    /\ Forget(r)
    /\ UNCHANGED shared

LoopStep(r) ==
    \/ \E p \in Providers : Select(r, p)
    \/ Exhausted(r)
    \/ Acquire(r)
    \/ \E outcome \in Outcomes : CallEnds(r, outcome)
    \/ Report(r)
    \/ Unwind(r)
    \/ StreamEnds(r)

FaultStep(r) ==
    \/ \E p \in Providers : SelectDegraded(r, p)
    \/ AcquireFailsOpen(r)
    \/ ReportSwallowed(r)
    \/ UnwindFails(r)
    \/ Crash(r)

Next ==
    /\ \/ \E r \in Requests : \E stream \in BOOLEAN : Start(r, stream)
       \/ \E r \in Requests : LoopStep(r) \/ FaultStep(r) \/ Answered(r)
       \/ Tick
    /\ UNCHANGED reliable

Spec == Init /\ [][Next]_vars

-----------------------------------------------------------------------------
Holding(p) == {r \in Requests : slot[r] = p}
Unreported(p) ==
    {r \in Requests : at[r] = p /\ pc[r] \in {"calling"} \cup Outcomes}

(* Every path of the loop (skipped candidate, success, client error,        *)
(* retryable error) gives back exactly the connection its select took: the  *)
(* gauge is the number of requests between select and release.  A gauge     *)
(* that expired or missed a script is wrong, yet never below zero, where it *)
(* would draw every request.                                                *)
GaugeExact ==
    \A p \in Providers :
        /\ conns[p].n >= 0
        /\ calm => conns[p].n = Cardinality(Holding(p))

(* Every path of the loop settles the probe slot it took: no more slots are *)
(* taken than requests still owe a report, so while no fault happened a     *)
(* HALF_OPEN breaker with no request in flight has all its slots free.      *)
SlotsAccounted ==
    faults = 0 => \A p \in Providers : br[p].probes <= Cardinality(Unreported(p))

(* A request gives up only after every candidate refused it or failed, and  *)
(* an answered one reports as failovers exactly the candidates that failed. *)
VerdictsComplete ==
    \A r \in Requests :
        /\ pc[r] = "exhausted" =>
            \A p \in Providers : verdict[r][p] \in {"refused", "failure"}
        /\ pc[r] \in {"ok", "streaming"} =>
            attempts[r] - 1 = Cardinality({p \in Providers : verdict[r][p] = "failure"})

(* A candidate that never fails is enough: its breaker never refuses        *)
(* anyone, so no request runs out of providers, with Redis up or down.      *)
ReliableServes ==
    reliable # {} => \A r \in Requests : pc[r] # "exhausted"
=============================================================================
