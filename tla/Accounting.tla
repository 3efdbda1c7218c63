----------------------------- MODULE Accounting -----------------------------
(***************************************************************************)
(* What one replica does with the requests of one API key once they have   *)
(* been let in: the budget gate, the upstream call, the chunks of a stream *)
(* and the client's backpressure, the charge to the key's monthly spend    *)
(* counter, the queue of audit rows, and the shutdown that has to let all  *)
(* of it land (src/src/services/router.ts, services/cost-tracker.ts,       *)
(* routes/completions.ts, index.ts).                                       *)
(*                                                                         *)
(* The failover loop is one step that answers or fails (module Failover    *)
(* has its inside), a cache lookup one step that hits or misses.  A cost   *)
(* is a small number of units.  A slot of Requests serves one request      *)
(* after the other.                                                        *)
(***************************************************************************)
EXTENDS Integers, FiniteSets

CONSTANTS
    Requests,     \* the concurrency: requests of the key at a time
    Budget,       \* monthly_budget_usd
    MaxCost,      \* the most one request can cost
    MaxPending,   \* MAX_PENDING_LOG_WRITES
    Months,       \* bound on the calendar months
    MaxStarts,    \* bound on the requests let in
    MaxFaults     \* bound on the Redis commands that fail or are resent

ASSUME AccountingAssumption ==
    /\ IsFiniteSet(Requests)
    /\ Budget \in Nat /\ MaxCost \in Nat
    /\ MaxPending \in Nat \ {0} /\ Months \in Nat \ {0}
    /\ MaxStarts \in Nat /\ MaxFaults \in Nat

VARIABLES
    proc,       \* the process: serving or how far its shutdown has come
    pc,         \* per request: the await it stands at
    client,     \* per request: its connection is open
    cost,       \* per request: estimateCost of what it has used
    key,        \* per request: the month of the spend key it has in its hands
    month,
    spend,      \* per month: the counter in Redis
    pending,    \* pendingWrites.size
    starts, faults,
    \* History, read by the properties only:
    blind,      \* budget reads that failed and let their request pass
    resent,     \* INCRBYFLOATs that ran twice
    late        \* rows queued after the flush, for clients that had left

vars == <<proc, pc, client, cost, key, month, spend, pending,
          starts, faults, blind, resent, late>>

NoKey == 0

Init ==
    /\ proc = "serving"
    /\ pc = [r \in Requests |-> "idle"]
    /\ client = [r \in Requests |-> TRUE]
    /\ cost = [r \in Requests |-> 0]
    /\ key = [r \in Requests |-> NoKey]
    /\ month = 1
    /\ spend = [m \in 1 .. Months |-> 0]
    /\ pending = 0
    /\ starts = 0 /\ faults = 0
    /\ blind = 0 /\ resent = 0 /\ late = 0

Exited == proc \in {"exit0", "exit1"}
Running == ~Exited

(* The cost tracker computes its spend key when it is called, before it     *)
(* awaits Redis.                                                            *)
spendKey(at) ==
    IF at \in {"budget", "stream_budget", "charge"} THEN month ELSE NoKey

StopAt(r, at) ==
    /\ pc' = [pc EXCEPT ![r] = at]
    /\ key' = [key EXCEPT ![r] = spendKey(at)]

(* The request goes on to another await; only its own state changes. *)
MoveTo(r, at) ==
    /\ StopAt(r, at)
    /\ UNCHANGED <<proc, client, month, starts>>

Untouched == UNCHANGED <<spend, pending, faults, blind, resent, late>>

Fault == faults < MaxFaults /\ faults' = faults + 1

-----------------------------------------------------------------------------
(* Mutant of enqueueRequest: the bound is checked after the row is added. *)
EnqueueThenCheck(r) ==
    /\ pending' = IF pending > MaxPending THEN pending ELSE pending + 1
    /\ late' = IF proc = "closed" /\ ~client[r] THEN late + 1 ELSE late

(* The row starts its insert at once, or is dropped when too many inserts   *)
(* are under way.                                                           *)
enqueueRequest(r) ==
    IF pending >= MaxPending
    THEN UNCHANGED <<pending, late>>
    ELSE /\ pending' = pending + 1
         /\ late' = IF proc = "closed" /\ ~client[r] THEN late + 1 ELSE late

(* A request past authentication and the rate limiter.  A closing server    *)
(* lets none in.                                                            *)
Begin(r, stream) ==
    /\ proc = "serving" /\ pc[r] = "idle" /\ starts < MaxStarts
    /\ starts' = starts + 1
    /\ StopAt(r, IF stream THEN "stream_budget" ELSE "lookup")
    /\ UNCHANGED <<proc, client, cost, month>>
    /\ Untouched

(* A hit is answered before the budget gate: a row of cost 0, no charge. *)
CacheHit(r) ==
    /\ Running /\ pc[r] = "lookup"
    /\ enqueueRequest(r)
    /\ MoveTo(r, "reply")
    /\ UNCHANGED <<cost, spend, faults, blind, resent>>

(* A miss, or a request that is not eligible. *)
CacheMiss(r) ==
    /\ Running /\ pc[r] = "lookup"
    /\ MoveTo(r, "budget")
    /\ UNCHANGED cost /\ Untouched

(* Mutant of isOverBudget: a spend that has reached the budget may pass. *)
OverBudgetStrict(r) == spend[key[r]] > Budget

isOverBudget(r) == spend[key[r]] >= Budget

AtBudget(r) == pc[r] \in {"budget", "stream_budget"}
AtCall(r) == pc[r] \in {"calling", "stream_calling"}

(* The upstream call that follows the budget gate. *)
PastBudget(r) == IF pc[r] = "budget" THEN "calling" ELSE "stream_calling"

enforceBudget(r) ==
    /\ Running /\ AtBudget(r)
    /\ MoveTo(r, IF isOverBudget(r) THEN "reply" ELSE PastBudget(r))
    /\ UNCHANGED cost /\ Untouched

(* getMonthlySpendUsd answers 0 when Redis cannot be read: with a budget of *)
(* 0 even that is over.                                                     *)
enforceBudgetBlind(r) ==
    /\ Running /\ AtBudget(r) /\ Fault
    /\ MoveTo(r, IF Budget = 0 THEN "reply" ELSE PastBudget(r))
    /\ blind' = blind + 1
    /\ UNCHANGED <<cost, spend, pending, resent, late>>

(* runFailover throws: no provider answered, or the client's abort signal   *)
(* ended the call.  Neither charge nor row.                                 *)
CallFails(r) ==
    /\ Running /\ AtCall(r)
    /\ MoveTo(r, "reply")
    /\ UNCHANGED cost /\ Untouched

Answered(r, c) ==
    /\ Running /\ pc[r] = "calling"
    /\ cost' = [cost EXCEPT ![r] = c]
    /\ MoveTo(r, "charge")
    /\ Untouched

(* Mutant of Write: a full buffer is awaited on a destroyed response too. *)
WriteAlwaysWaits(r, full) == IF full THEN "drain" ELSE "streaming"

(* The route writes the chunk that it was handed, in the same turn of the   *)
(* event loop.  A full socket buffer is waited for, unless the response has *)
(* been destroyed, and only then is the next chunk pulled.                  *)
Write(r, full) == IF full /\ client[r] THEN "drain" ELSE "streaming"

(* prepareStream commits to a provider with its first chunk. *)
FirstChunk(r, c, full) ==
    /\ Running /\ pc[r] = "stream_calling"
    /\ cost' = [cost EXCEPT ![r] = c]
    /\ MoveTo(r, Write(r, full))
    /\ Untouched

(* A usage chunk replaces the estimate, so the cost may also fall. *)
NextChunk(r, c, full) ==
    /\ Running /\ pc[r] = "streaming"
    /\ cost' = [cost EXCEPT ![r] = c]
    /\ MoveTo(r, Write(r, full))
    /\ Untouched

(* 'drain' is emitted by a connection that is still open. *)
Drain(r) ==
    /\ Running /\ pc[r] = "drain" /\ client[r]
    /\ MoveTo(r, "streaming")
    /\ UNCHANGED cost /\ Untouched

(* The provider's stream ends or breaks off, as it does on an abort: the    *)
(* generator's finally block runs.                                          *)
StreamEnds(r) ==
    /\ Running /\ pc[r] = "streaming"
    /\ MoveTo(r, "charge")
    /\ UNCHANGED cost /\ Untouched

Charged(r) == [spend EXCEPT ![key[r]] = @ + cost[r]]

(* addSpend: to the month in which the answer came, which need not be the   *)
(* one that was checked.                                                    *)
addSpend(r) ==
    /\ Running /\ pc[r] = "charge"
    /\ spend' = IF cost[r] <= 0 THEN spend ELSE Charged(r)
    /\ MoveTo(r, "log")
    /\ UNCHANGED <<cost, pending, faults, blind, resent, late>>

(* The counter was raised, the connection broke before the reply: ioredis   *)
(* sends the command again.                                                 *)
addSpendResent(r) ==
    /\ Running /\ pc[r] = "charge" /\ cost[r] > 0 /\ Fault
    /\ spend' = Charged(r)
    /\ resent' = resent + 1
    /\ UNCHANGED <<proc, pc, client, cost, key, month, pending, starts,
                   blind, late>>

(* Redis does not answer: the error is logged, the charge is lost. *)
addSpendFails(r) ==
    /\ Running /\ pc[r] = "charge" /\ cost[r] > 0 /\ Fault
    /\ MoveTo(r, "log")
    /\ UNCHANGED <<cost, spend, pending, blind, resent, late>>

LogRequest(r) ==
    /\ Running /\ pc[r] = "log"
    /\ enqueueRequest(r)
    /\ MoveTo(r, "reply")
    /\ UNCHANGED <<cost, spend, faults, blind, resent>>

(* The response is sent, or ended; the slot is free for a new client. *)
Reply(r) ==
    /\ Running /\ pc[r] = "reply"
    /\ StopAt(r, "idle")
    /\ client' = [client EXCEPT ![r] = TRUE]
    /\ cost' = [cost EXCEPT ![r] = 0]
    /\ UNCHANGED <<proc, month, starts>>
    /\ Untouched

Disconnect(r) ==
    /\ Running /\ pc[r] # "idle" /\ client[r]
    /\ client' = [client EXCEPT ![r] = FALSE]
    /\ UNCHANGED <<proc, pc, cost, key, month, starts>>
    /\ Untouched

(* An insert lands or fails; recordRequest swallows the error. *)
WriteSettles ==
    /\ Running /\ pending > 0
    /\ pending' = pending - 1
    /\ UNCHANGED <<proc, pc, client, cost, key, month, spend, starts,
                   faults, blind, resent, late>>

-----------------------------------------------------------------------------
ProcStep(from, to) ==
    /\ proc = from /\ proc' = to
    /\ UNCHANGED <<pc, client, cost, key, month, starts>>
    /\ Untouched

Signal == ProcStep("serving", "closing")

(* Mutant of CloseDone: the requests in flight are not waited for. *)
CloseAtOnce == ProcStep("closing", "flushing")

(* app.close() waits for the open connections that have a request, not for  *)
(* a handler whose client has left.                                         *)
CloseDone ==
    /\ \A r \in Requests : client[r] => pc[r] = "idle"
    /\ ProcStep("closing", "flushing")

(* Mutant of CloseTimeout: app.close() is awaited without a bound. *)
CloseUnbounded == FALSE /\ ProcStep("closing", "exit1")

(* SHUTDOWN_TIMEOUT_MS: nothing more is waited for. *)
CloseTimeout == ProcStep("closing", "exit1")

Flush ==
    /\ pending = 0
    /\ ProcStep("flushing", "closed")

(* Redis, PostgreSQL and the tracer are closed; process.exit(0). *)
Exit == ProcStep("closed", "exit0")

(* One of them cannot be closed. *)
ExitFails == ProcStep("closed", "exit1")

Rollover ==
    /\ Running /\ month < Months
    /\ month' = month + 1
    /\ UNCHANGED <<proc, pc, client, cost, key, starts>>
    /\ Untouched

Terminated == Exited /\ UNCHANGED vars

RequestStep(r) ==
    \/ \E stream \in BOOLEAN : Begin(r, stream)
    \/ CacheHit(r) \/ CacheMiss(r)
    \/ enforceBudget(r) \/ enforceBudgetBlind(r)
    \/ CallFails(r) \/ StreamEnds(r)
    \/ \E c \in 0 .. MaxCost :
        \/ Answered(r, c)
        \/ \E full \in BOOLEAN : FirstChunk(r, c, full) \/ NextChunk(r, c, full)
    \/ Drain(r)
    \/ addSpend(r) \/ addSpendResent(r) \/ addSpendFails(r)
    \/ LogRequest(r) \/ Reply(r) \/ Disconnect(r)

Next ==
    \/ \E r \in Requests : RequestStep(r)
    \/ WriteSettles
    \/ Signal \/ CloseDone \/ CloseTimeout \/ Flush \/ Exit \/ ExitFails
    \/ Rollover
    \/ Terminated

Spec == Init /\ [][Next]_vars

(* The awaits that end by themselves: Redis commands settle, as the client  *)
(* bounds its retries, and a call whose signal is aborted ends.             *)
OwnStep(r) ==
    \/ CacheHit(r) \/ CacheMiss(r) \/ enforceBudget(r)
    \/ addSpend(r) \/ LogRequest(r) \/ Reply(r)
    \/ ~client[r] /\ CallFails(r)

(* An aborted stream ends after the chunks that were already parsed; inserts *)
(* settle, as the pool has timeouts; the shutdown timer fires.  A provider   *)
(* or a client that stays connected owes nothing.                            *)
Fairness ==
    /\ \A r \in Requests :
        /\ WF_vars(OwnStep(r))
        /\ SF_vars(~client[r] /\ StreamEnds(r))
    /\ WF_vars(WriteSettles)
    /\ WF_vars(CloseDone \/ CloseTimeout \/ Flush \/ Exit \/ ExitFails)

FairSpec == Spec /\ Fairness

-----------------------------------------------------------------------------
TypeOK ==
    /\ proc \in {"serving", "closing", "flushing", "closed", "exit0", "exit1"}
    /\ pc \in [Requests -> {"idle", "lookup", "budget", "stream_budget",
                            "calling", "stream_calling", "streaming",
                            "drain", "charge", "log", "reply"}]
    /\ client \in [Requests -> BOOLEAN]
    /\ cost \in [Requests -> 0 .. MaxCost]
    /\ key \in [Requests -> 0 .. Months]
    /\ month \in 1 .. Months
    /\ spend \in [1 .. Months -> Nat]
    /\ pending \in 0 .. MaxPending
    /\ starts \in 0 .. MaxStarts /\ faults \in 0 .. MaxFaults
    /\ blind \in Nat /\ resent \in Nat /\ late \in Nat

(* The highest spend that the budget gate lets a request pass at. *)
LastUnder == IF Budget = 0 THEN 0 ELSE Budget - 1

Ceiling == LastUnder + MaxCost * (Cardinality(Requests) + blind + resent)

(* The budget is a soft limit (src/docs/cost-tracking.md:53): the gate is   *)
(* read-then-act, the charge comes after the answer and may fall into the   *)
(* next month.  However the requests interleave, no month's counter is      *)
(* overshot by more than one request's cost per slot of concurrency, per    *)
(* budget read that failed open and per charge that was sent twice.         *)
OvershootBounded ==
    \A m \in 1 .. Months : spend[m] <= Ceiling

(* A shutdown that ends with exit code 0 has waited for every request whose *)
(* client stayed, and for every audit row but those that the handlers of    *)
(* departed clients queued after the flush (src/src/index.ts:116-129).      *)
CleanShutdown ==
    proc \in {"closed", "exit0"} =>
        /\ \A r \in Requests : client[r] => pc[r] = "idle"
        /\ pending <= late

(* Every shutdown ends: slow requests are cut off by the timer, and rows    *)
(* cannot keep the flush loop alive, as no new request is let in.           *)
ShutdownEnds == (proc = "closing") ~> Exited

(* A stream whose client leaves while the gateway waits for the provider is *)
(* charged and logged: the signal breaks the provider's stream off, and the *)
(* generator's finally block runs.                                          *)
InterruptedIsBooked ==
    \A r \in Requests :
        (pc[r] = "streaming" /\ ~client[r]) ~> (pc[r] = "idle" \/ Exited)

(* What src/docs/cost-tracking.md:60-61 says of streams, completed or       *)
(* interrupted after the first byte: each of them gets its row.  The model  *)
(* refutes it for the client that leaves while the route awaits 'drain'     *)
(* (src/src/routes/completions.ts:84-86): the event never comes, and the    *)
(* generator is left suspended, uncharged and unlogged.                     *)
InterruptedIsLogged ==
    \A r \in Requests :
        (pc[r] \in {"streaming", "drain"} /\ ~client[r])
            ~> (pc[r] = "idle" \/ Exited)
=============================================================================
