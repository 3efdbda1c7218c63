---------------------------- MODULE HealthMonitor ----------------------------
(***************************************************************************)
(* The provider health monitor (src/src/services/health-monitor.ts) and    *)
(* the part of main() that starts it and, on a signal, stops it before it  *)
(* closes the database.                                                    *)
(*                                                                         *)
(* A tick reads the active providers and probes all of them at once; a     *)
(* probe is a fetch and then an upsert of its provider_health row.  The    *)
(* tick is over when Promise.all is, and that is as soon as one probe      *)
(* rejects: the others of the tick go on on their own.  Ticks are          *)
(* numbered, so that a probe is a tick and a provider.                     *)
(***************************************************************************)
EXTENDS Integers

CONSTANTS
    Providers,
    NoUrl,      \* those with no health_check_url
    MaxTicks,   \* bound on the ticks of one run
    MaxFaults   \* bound on failed database queries

ASSUME HealthMonitorAssumption ==
    /\ NoUrl \subseteq Providers
    /\ MaxTicks \in Nat \ {0}
    /\ MaxFaults \in Nat

VARIABLES
    main,      \* "boot", "serving", "stopping", "closing", "closed"
    timer,     \* this.timer is set
    stopped,   \* this.stopped
    running,   \* this.running
    current,   \* the tick behind this.current; 0: the resolved promise
    stage,     \* where each tick is
    probe,     \* where each probe is
    active,    \* providers with is_active
    row,       \* provider_health: status, and the tick whose probe wrote it
    faults,
    \* History, read by the properties only:
    seen,      \* what each probe observed
    hurt       \* probes whose upsert failed

vars == <<main, timer, stopped, running, current, stage, probe, active, row,
          faults, seen, hurt>>
monitor == <<timer, stopped, running, current>>

Ticks == 1 .. MaxTicks
Probes == Ticks \X Providers
Statuses == {"healthy", "degraded", "unhealthy", "unknown"}
NoRow == [status |-> "none", tick |-> 0]
Outstanding == {"fetching", "writing", "recording"}

Init ==
    /\ main = "boot"
    /\ timer = FALSE
    /\ stopped = FALSE
    /\ running = FALSE
    /\ current = 0
    /\ stage = [t \in Ticks |-> "none"]
    /\ probe = [x \in Probes |-> "none"]
    /\ active = Providers
    /\ row = [p \in Providers |-> NoRow]
    /\ faults = 0
    /\ seen = [x \in Probes |-> "none"]
    /\ hurt = {}

-----------------------------------------------------------------------------
(* Mutant of TickIdle: an interval fires into a tick that is still running. *)
TickAlways == ~stopped

(* The guard of tick(). *)
TickIdle == ~running /\ ~stopped

(* tick(): start runOnce unless one is running or the monitor is stopped.   *)
Tick ==
    /\ TickIdle
    /\ current < MaxTicks
    /\ running' = TRUE
    /\ current' = current + 1
    /\ stage' = [stage EXCEPT ![current + 1] = "select"]

(* main() starts the monitor, which ticks at once if it is enabled. *)
Start(enabled) ==
    /\ main = "boot"
    /\ main' = "serving"
    /\ timer' = enabled
    /\ IF enabled THEN Tick ELSE UNCHANGED <<running, current, stage>>
    /\ UNCHANGED <<stopped, probe, active, row, faults, seen, hurt>>

(* setInterval fires. *)
Interval ==
    /\ timer
    /\ Tick
    /\ UNCHANGED <<main, timer, stopped, probe, active, row, faults, seen, hurt>>

(* Mutant of Settle: tick() without .catch; stop() awaits a rejected promise, *)
(* so shutdown fails instead of going on.                                     *)
SettleUncaught(t) ==
    /\ stage' = [stage EXCEPT ![t] = IF @ = "gauge" THEN "done" ELSE "rejected"]
    /\ running' = FALSE
    /\ UNCHANGED <<timer, stopped, current>>

(* runOnce has settled: .catch and .finally of tick(). *)
Settle(t) ==
    /\ stage' = [stage EXCEPT ![t] = "done"]
    /\ running' = FALSE
    /\ UNCHANGED <<timer, stopped, current>>

(* The query of runOnce: a probe for every active provider.  One without a  *)
(* URL goes straight to its upsert of "unknown".                            *)
SelectRows(t) ==
    /\ stage[t] = "select"
    /\ stage' = [stage EXCEPT ![t] = "probing"]
    /\ probe' = [x \in Probes |->
                    IF x[1] = t /\ x[2] \in active
                    THEN IF x[2] \in NoUrl THEN "writing" ELSE "fetching"
                    ELSE probe[x]]
    /\ seen' = [x \in Probes |-> IF x[1] = t /\ x[2] \in active \cap NoUrl
                                 THEN "unknown" ELSE seen[x]]
    /\ UNCHANGED <<main, monitor, active, row, faults, hurt>>

(* The fetch of checkProvider: an answer, classified by its status code and *)
(* its latency, or an error or timeout, which the catch block records.      *)
Answer(x, status) ==
    /\ probe[x] = "fetching"
    /\ \E next \in {"writing"} \cup (IF status = "unhealthy" THEN {"recording"} ELSE {}) :
            probe' = [probe EXCEPT ![x] = next]
    /\ seen' = [seen EXCEPT ![x] = status]
    /\ UNCHANGED <<main, monitor, stage, active, row, faults, hurt>>

(* What an upsert would write: the catch block always writes "unhealthy". *)
Written(x) ==
    [status |-> IF probe[x] = "recording" THEN "unhealthy" ELSE seen[x],
     tick   |-> x[1]]

(* Mutant of Upsert: ON CONFLICT DO NOTHING. *)
UpsertIgnores(x) ==
    row' = [row EXCEPT ![x[2]] = IF @ = NoRow THEN Written(x) ELSE @]

(* INSERT ... ON CONFLICT DO UPDATE of upsertHealth. *)
Upsert(x) == row' = [row EXCEPT ![x[2]] = Written(x)]

Write(x) ==
    /\ probe[x] \in {"writing", "recording"}
    /\ Upsert(x)
    /\ probe' = [probe EXCEPT ![x] = "done"]
    /\ UNCHANGED <<main, monitor, stage, active, faults, seen, hurt>>

Fault == faults < MaxFaults /\ faults' = faults + 1

(* The upsert rejects, having written or not (a client-side query timeout). *)
(* Inside the try block the catch block records the provider as unhealthy;  *)
(* outside it, or when that fails too, the probe rejects, and Promise.all   *)
(* with it unless it has rejected already.                                  *)
WriteFails(x) ==
    /\ Fault
    /\ probe[x] \in {"writing", "recording"}
    /\ Upsert(x) \/ UNCHANGED row
    /\ hurt' = hurt \cup {x}
    /\ LET caught == probe[x] = "writing" /\ x[2] \notin NoUrl IN
        /\ probe' = [probe EXCEPT ![x] = IF caught THEN "recording" ELSE "rejected"]
        /\ IF ~caught /\ stage[x[1]] = "probing"
           THEN Settle(x[1]) ELSE UNCHANGED <<monitor, stage>>
    /\ UNCHANGED <<main, active, seen>>

(* The query of runOnce rejects. *)
SelectFails(t) ==
    /\ Fault
    /\ stage[t] = "select"
    /\ Settle(t)
    /\ UNCHANGED <<main, probe, active, row, seen, hurt>>

(* What Promise.all waits for. *)
ProbesDone(t) == \A p \in Providers : probe[<<t, p>>] \in {"none", "done"}

AllDone(t) ==
    /\ stage[t] = "probing"
    /\ ProbesDone(t)
    /\ stage' = [stage EXCEPT ![t] = "gauge"]
    /\ UNCHANGED <<main, monitor, probe, active, row, faults, seen, hurt>>

(* refreshCircuitGauge, which never rejects, and the end of the tick. *)
RefreshCircuitGauge(t) ==
    /\ stage[t] = "gauge"
    /\ Settle(t)
    /\ UNCHANGED <<main, probe, active, row, faults, seen, hurt>>

-----------------------------------------------------------------------------
(* stop(), called by the shutdown handler: no more ticks. *)
Stop ==
    /\ main = "serving"
    /\ main' = "stopping"
    /\ stopped' = TRUE
    /\ timer' = FALSE
    /\ UNCHANGED <<running, current, stage, probe, active, row, faults, seen, hurt>>

(* await this.current *)
CurrentOver == current # 0 => stage[current] = "done"

StopReturned ==
    /\ main = "stopping"
    /\ CurrentOver
    /\ main' = "closing"
    /\ UNCHANGED <<monitor, stage, probe, active, row, faults, seen, hurt>>

(* closeDatabase: getDb() of a probe that is still running opens a new pool. *)
CloseDatabase ==
    /\ main = "closing"
    /\ main' = "closed"
    /\ UNCHANGED <<monitor, stage, probe, active, row, faults, seen, hurt>>

(* An operator disables or enables a provider. *)
SetActive(p) ==
    /\ main = "serving"
    /\ active' = IF p \in active THEN active \ {p} ELSE active \cup {p}
    /\ UNCHANGED <<main, monitor, stage, probe, row, faults, seen, hurt>>

TickStep(t) == SelectRows(t) \/ SelectFails(t) \/ AllDone(t) \/ RefreshCircuitGauge(t)

ProbeStep(x) ==
    \/ \E status \in Statuses \ {"unknown"} : Answer(x, status)
    \/ Write(x)
    \/ WriteFails(x)

Next ==
    \/ \E enabled \in BOOLEAN : Start(enabled)
    \/ Interval
    \/ \E t \in Ticks : TickStep(t)
    \/ \E x \in Probes : ProbeStep(x)
    \/ Stop \/ StopReturned \/ CloseDatabase
    \/ \E p \in Providers : SetActive(p)

Spec == Init /\ [][Next]_vars

(* Fetches and queries end by their timeouts and the event loop runs what   *)
(* is ready.  No tick, signal or operator is assumed.                       *)
Fairness ==
    /\ \A t \in Ticks : WF_vars(TickStep(t))
    /\ \A x \in Probes : WF_vars(ProbeStep(x))
    /\ WF_vars(StopReturned) /\ WF_vars(CloseDatabase)

FairSpec == Spec /\ Fairness

-----------------------------------------------------------------------------
(* After stop() has returned no probe is still writing to the database      *)
(* ("graceful shutdown does not race a probe that is mid-write"), except    *)
(* those of a tick that Promise.all ended early because another of its      *)
(* probes could not record anything.                                        *)
StopWaits ==
    main \in {"closing", "closed"} =>
        \A t \in Ticks, p \in Providers :
            probe[<<t, p>>] \in Outstanding =>
                \E q \in Providers : probe[<<t, q>>] = "rejected"

(* A provider's row is what the probe that wrote it observed, or            *)
(* "unhealthy" when that probe's own upsert failed once; and as long as no  *)
(* upsert failed, a probe never overwrites the result of a later one.       *)
RowsCurrent ==
    \A p \in Providers : row[p] # NoRow =>
        LET x == <<row[p].tick, p>> IN
        /\ row[p].status \in {seen[x]} \cup (IF x \in hurt THEN {"unhealthy"} ELSE {})
        /\ hurt = {} =>
            \A t \in Ticks : probe[<<t, p>>] = "done" => t <= row[p].tick

(* Shutdown always gets past the monitor, whatever its probes meet. *)
StopReturns == main = "stopping" ~> main = "closed"
=============================================================================
