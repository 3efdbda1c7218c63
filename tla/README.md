# A TLA+ verification of the AI gateway

The gateway (`src/src/`) is a Fastify service that accepts OpenAI-style requests, authenticates an
API key, applies rate limits and a budget, picks an upstream provider, fails over between providers
behind a circuit breaker, and accounts for what it served. Replicas are stateless: everything they
share is in Redis (breaker, limiter windows, load-balancer gauges, auth cache, response cache, spend
counters) and PostgreSQL (keys, providers, audit rows). The hard part of the program is therefore
what happens *between* round trips: the order in which replicas' scripts run, keys that expire,
replies that get lost, replicas that stop, clients that leave.

This directory holds TLA+ models of those parts, the TLC configurations that check them, and TLAPS
proofs. `PROJECT.json` maps every definition to the lines it models, lists the runs, a mutant per
property, the hazards, the findings and the theorems.

## 1. Inventory

| Component | State | Operations | Interacts with | Hard behaviour | Module |
| --- | --- | --- | --- | --- | --- |
| Circuit breaker `circuit-breaker/index.ts` | five Redis keys per provider with TTLs | `acquire`, `recordSuccess`, `recordFailure`, `release`, admin `reset` | called by the failover loop of every replica | stragglers that report in a later period, probes that crash, skewed clocks, resent scripts, TTLs that run out at different times | `BreakerScripts`, `CircuitBreaker` |
| Failover loop `services/router.ts` (`runFailover`) | locals of one request across many awaits | select, acquire, call, report, release, next candidate | load balancer, breaker, providers | every early exit must give back what it took; Redis faults must not fail a request | `Failover` |
| Least-connections `loadbalancer/strategies/least-connections.ts` | one gauge per provider with a TTL | select-and-increment, release | failover loop | crashed replicas, gauges that expire under a live request | `LeastConnections` (in `Failover`) |
| Other strategies `loadbalancer/*` | counters in memory, WRR credit and latency averages in Redis | `select`, `recordSuccess`, `recordFailure` | failover loop, admin edits | candidate sets that shrink, weights of 0, edits under old credit, a counter that wraps | `Balancing` |
| Rate limiter `rate-limiter/index.ts` | three sorted sets and a running sum per key | `check` (one Lua script) | completions and embeddings routes | timestamps of replicas with skewed clocks, resends, expiry, refused checks that still trim | `RateLimiter` |
| Auth cache `auth/middleware.ts`, `routes/admin/keys.ts` | cached context with a sliding TTL; the row in PostgreSQL | authenticate, revoke, patch, invalidate | every request | a fill that carries a row read before a revocation | `AuthCache` |
| Provider registry `providers/registry.ts`, `routes/admin/providers.ts` | snapshot, its age, the shared refresh | `refreshIfStale`, `load`, admin reload | router | concurrent loads that install out of order, failed refreshes | `Registry` |
| Budget, cost tracker, streams, shutdown: `services/router.ts`, `services/cost-tracker.ts`, `routes/completions.ts`, `index.ts` | spend counter per month, queue of audit rows, suspended generators, phase of the shutdown | budget gate, upstream call, stream loop, `addSpend`, `enqueueRequest`, `flush`, signal handler | Redis, PostgreSQL, client sockets | read-then-act budget, backpressure, clients that leave, a shutdown at any point | `Accounting` |
| Chat pipeline and response cache `services/router.ts`, `cache/index.ts`, `routes/admin/cache.ts` | entries with TTL, a flush's cursor, handlers' locals | resolve, authorise, get, call, set, flush, delete | registry, adapters, Redis | two requests under one key, a flush racing stores, an alias that comes to be served as a model | `ChatPipeline` |
| Request translation `providers/*`, `types/openai.ts` | none | `translateRequest`, `buildChatBody` | chat pipeline | merged turns, system prompts taken out, renamed tool results, limits | `Translation` |
| Adapter calls `providers/base.ts`, `providers/*`, `utils/errors.ts` | timer, abort signal, stream locals | `chat`, `chatStream`, `embed`, error mapping | router, upstream, client | a timer racing headers, body, abort and first chunk; streams cut anywhere | `ProviderCall`, `StreamAdapters` |
| SSE parser and chunks `utils/stream.ts` | decoder, line buffer, pending event | parse, make chunks | adapters | reads that end inside a character, a line or an event | `SseParser`, `StreamAdapters` |
| Health monitor `services/health-monitor.ts` | timer, current tick, health table | `start`, `tick`, `stop`, probe, upsert | database, shutdown | a tick that ends before its probes do | `HealthMonitor` |
| Retry helper, tokens, crypto, logging, metrics, remaining routes, config | - | - | - | stateless, read-only or unused | see "Not modelled" |

What makes each of them correct, in one sentence: the breaker's keys agree and every transition is
earned; the loop gives back each slot and gives up only when it must; the limits hold in real time;
a revoked or expired key stops working and a valid one keeps working; the registry converges; money
and audit rows are neither lost nor made up; a shutdown ends; selection is even or proportional and
leaves drained providers alone; a provider is asked what the client asked, and the client gets an
answer to its own question, whole or streamed; what a provider is blamed for is its own fault;
health rows say what a probe saw.

## 2. Modules

Conventions. Variables listed under "History" in a module exist for the properties only. A step is
what happens between two awaits, or one Lua script: scripts are atomic in Redis. Time is a `Tick`
that ages TTLs; "saturated" ages stop at the largest value that the code can tell apart. Faults
(`MaxFaults`) are counted so that TLC terminates; the proofs hold for every bound. An operator
commented as "Mutant of ..." is a plausible bug, used to show that a property can fail; it is not
part of any specification. `RateLimiter` and `Registry` prefix the names of their Init, Next and Spec,
so that one module of proofs can extend two components.

**`BreakerScripts`** has the breaker's keys as a record and each Lua script as an operator on it
(`AcquireLua`, `SuccessLua`, `FailureLua`, `ReleaseLua`, and `Aged` for the TTLs), so that
`CircuitBreaker` and `Failover` run the same scripts. **`CircuitBreaker`** is one provider's breaker
and any number of callers anywhere in the fleet: acquire, the end of the call, the report, an
operator's reset, time; and the faults: Redis unreachable at acquire (the router fails open), a
reply that is lost and a script that ioredis sends again, a report that never comes, a process that
dies.

**`Failover`** composes the breaker scripts and the gauge of **`LeastConnections`** under
`GatewayRouter.runFailover`. `pc` is the await that a request stands at; `Unwind` is the `finally`
block; `remaining` and `exit` are the loop's locals. A behaviour picks at the start whether the
providers of `Reliable` really never fail.

**`RateLimiter`** is `RATE_LIMIT_LUA` over its four keys. A request's timestamp is the clock of its
replica, ahead of real time by up to `MaxSkew`; the properties are about real time (`admittedAt`).
The weight of a set of members (`Tokens`) is written as a number of single tokens, each of them a
pair of its request and an index, and not as a sum, so that it can be proved about.

**`AuthCache`** is `authenticateKey` one round trip at a time (GET, EXPIRE or DEL, SELECT, SET),
beside `PATCH` and `DELETE` of the key with their invalidation.

**`Registry`** is `refreshIfStale` and `load` with the query and the installation of its rows apart,
beside the admin routes that change the tables and reload, on this replica and on others.

**`Accounting`** is one replica and one key from the budget gate to the audit row, with the stream
loop of the route (the wait for `drain` included), the client's abort signal, and the shutdown
sequence with its timer. The failover loop is one step here, and so is a cache lookup. `key[r]` is
the month of the spend key that a call of the cost tracker has computed before its await.

**`Balancing`** has the other four strategies behind `LoadBalancer.select`. `SmoothWrr` is the Lua
script on the credit hash of one candidate set, `RoundRobin` the counter of a set, `LatencyBased` the
highest weight over average latency; `SelectDegraded` is what each does without Redis. Operators edit
weights and priorities, hashes and averages expire, a restart forgets the counters, and the calls in
progress report latencies. Latencies are small integers, the smoothing factor is one half, and a draw
by weight is any candidate that the running sum can reach. A sum of weights or selections is a number
of pairs (candidate, index) and quotients are compared by cross-multiplication, so that the module can
be proved about.

**`HealthMonitor`** is `start`, `tick`, `runOnce`, `checkProvider` and `stop`, and the part of `main()`
that awaits `stop()`. A probe is a pair of tick and provider, so that probes which outlive their tick
(`Promise.all` rejects with the first) keep their place.

**`SseParser`** is `parseSSEStream` on a read of bytes: the decoder that keeps half a character, the
buffer, the pending event. Field names are one byte each and every payload is a character of two
bytes, so a read can end at each kind of place. **`StreamAdapters`** has what each adapter makes of a
whole answer (`translateResponse`), the native events a provider sends for the same answer (external:
taken from what the adapters read and `docs/providers.md` says of them), and `normaliseStream` of each
adapter, event by event, as an operator on its locals. An answer may come without a usage. Cohere's
events are numbered, like Anthropic's, by content block. An error event in a stream is the last thing
its provider sends; to the Gemini and Cohere adapters it is an unknown event, so that such a stream is
one that is cut. **`ProviderCall`** composes both with `upstreamFetch` (timer, client signal,
error classes), the router's generator (first chunk, token counts, usage, the row it books) and the
route's loop. `pc` is the await; `over` says how the adapter's generator ended; `cause` is history:
who disturbed the call first. **`ChunkProtocol`** is the abstract specification: a client sees a
role, then content and tool calls, then a finish, then perhaps usage, and then the end; an error frame
may cut in anywhere, and nothing follows it; one row is booked for what was answered and none for what was refused.

**`Translation`** is `translateRequest` of Anthropic, Gemini and Cohere and `buildChatBody` of OpenAI
and Mistral, as operators from requests to bodies; a text is the sequence of the pieces it was joined
from, JSON is "parses" or "does not"; a system message among the turns becomes a turn without parts,
which adds nothing. OpenAI and Mistral get both limits and the tool choice as they came, the others one
limit and a tool choice if there are tools. **`ChatPipeline`** is `chatCompletion` around it: model
resolution with an alias, the allow-list, eligibility and key of the cache, get, the call of some
provider, set, and beside them the flush by SCAN (batch by batch), the deletion of an entry, expiry,
and a registry that comes to serve the alias as a model of its own, or no longer does (`Repoint`): the
alias table is a constant of the code, but a direct match goes before it. An answer carries the body it answers.

`MC*` modules only fix symmetry sets, orders and the requests and answers that TLC tries; `.cfg` files
give the constants.

## 3. Runs

| Run | Shows | Bounds and why they are enough |
| --- | --- | --- |
| `breaker` | `TypeOK`, `KeysAgree`, `ProbesBounded`, `TripsOnlyOnStreak`, `OpenPeriod`, `ClosesOnProbeEvidence`, and under the clock alone `NeverWedged` and `Recovers` | three callers against two probe slots (one too many), thresholds of 2 (a count that can be half way), counters that outlive an open period, skew 1, one fault |
| `failover` | `GaugeExact`, `SlotsAccounted`, `VerdictsComplete`, `ReliableServes` | two requests that contend for two candidates with one probe slot each; a gauge that outlives a step and runs out; one Redis fault or crash; behaviours with and without a candidate that never fails |
| `rate_limiter` | `RpmHolds`, `TpmHolds` | four requests against limits of 2 requests and 3 tokens, two windows of time, skew 1, one resend, the burst window on |
| `auth_safety` | `ExpiryEnforced`, `ValidKeyAccepted`, `CacheCurrent` | two requests, two updates, one failed Redis call |
| `auth_revoke_claim` (violation) | a revoked key works for ever | no faults |
| `registry` | `SingleFlight`, `ReloadSeesChange`, `BackoffHolds`, `Converges` | two requests, two administrators, three changes, two failed queries |
| `accounting` | `TypeOK`, `OvershootBounded`, `CleanShutdown`, `ShutdownEnds`, `InterruptedIsBooked` | two requests at a time and three in all (one more than the bound allows to slip past), a month boundary, a queue of one row, one Redis fault |
| `accounting_drain_claim` (violation) | a client that leaves during backpressure is never charged nor logged | one request |
| `health_monitor` | `StopWaits`, `RowsCurrent`, `StopReturns` | a provider with a URL and one without (whose failed upsert no catch block sees), two ticks that could overlap, two failed queries so that the catch block can fail too, a shutdown anywhere |
| `balancing` | `RotationEven`, `WrrShare`, `DrainedIdle` | three candidates and the two left by a failover, weights 0 to 2, six selections counted at a time (a round of the heaviest weights), a counter that wraps at 4 (no multiple of three), one edit or Redis fault |
| `provider_call` | `StreamMatchesWhole`, `BookedExactly`, `BlameIsRight`, `ImplementsProtocol`, `TimeoutBounds` | five adapters, four answers (two tool calls after a text, one without arguments; two texts cut by length; a filtered one; one without a usage), events ended by LF, CRLF or with names and comments, reads of 1, 2 and 7 bytes: inside a character, inside an event, over several; connections cut at every byte, an error event between any two others |
| `chat_pipeline` | `AnswersRight`, `RequestKept`, `FlushClears` | two handlers; seven requests that pairwise differ in what the key has, what it leaves out, or eligibility; conversations with turns to merge around an empty one, two system prompts, images of both kinds, tool results in the other order and arguments that are not JSON; two models served by all five adapters between them, and the alias as a third; one change of what the alias stands for, one flush, one fault |

`TypeOK` is checked where the proofs use it. Deadlock is checked except where the bounds stop the
system: the clock of `rate_limiter`, the ticks and the closed process of `health_monitor`, the counted
selections of `balancing`, and the requests of `chat_pipeline`. `Accounting` and `ProviderCall` have
explicit terminal steps.

### Fairness

* `breaker`: the clock ticks (`WF(Tick)`), and nothing else, for `NeverWedged`. `Recovers` has the
  traffic as its premise: calls end because every adapter call has a timeout, reports reach Redis
  because ioredis retries, and a healthy provider cannot answer every request with a client error
  (`SF` on success).
* `AuthCache`, `Registry`: round trips end; the pool has `query_timeout` and
  `connectionTimeoutMillis` (`database/index.ts`).
* `Accounting`: the awaits on Redis and PostgreSQL end for the same reasons; the shutdown timer
  fires; an aborted upstream stream ends after the chunks that were already parsed (`SF`). A provider
  or a client that stays connected is *not* assumed to make progress: that is why `ShutdownEnds`
  needs the timer.
* `HealthMonitor`: fetches have `AbortSignal.timeout` and queries the pool's timeouts. No tick,
  signal or operator is assumed.
* `ProviderCall`: the fetch is sent and an armed timer fires. The upstream and the client owe
  nothing, which is why `TimeoutBounds` holds of calls that do not stream and of no others: a stream
  has no idle timeout.

### Refinement

`ProviderCall` implements `ChunkProtocol` (`ImplementsProtocol`): `shown` is the kinds of the chunks
written to the client, `status` follows from `pc`, the verdict and the status of the row, `rows` is
the number of rows. The five adapters, the parser and the router's generator keep the one order that
OpenAI clients rely on, whatever is cut or lost. The one chunk outside that order is the error frame of
an OpenAI-compatible provider, which its adapter forwards; it is the last chunk the client gets.

## 4. What was found

Two places where the code does something else than a doc or a comment says, each with a run that TLC
refutes:

1. **Revocation** (`auth/middleware.ts:11`): a request that read the row before a revocation may
   cache it after the DEL, and hits slide the TTL, so the key works for as long as it is used.
2. **Backpressure** (`completions.ts:85`, `cost-tracking.md:60-61`): the wait for `drain` does not
   end when the client leaves. The generator stays suspended, its `finally` never runs, and the
   stream is neither charged nor logged. `InterruptedIsBooked` shows that a client that leaves at any
   other point of the stream is booked.

The models exhibit more disagreements, without a run of their own; where a property has an exception,
it is one of these:

* Breaker: a probe lease that runs out lets more than `CB_HALF_OPEN_MAX_PROBES` probes run
  (`config/index.ts:127`), hence "no lease ran out" in `ProbesBounded`; a success from a request
  admitted before the breaker opened counts towards closing it (`circuit-breaker/index.ts:20`), hence
  `intact` in `ClosesOnProbeEvidence`.
* Least-connections: "the counter self-heals on expiry" (`least-connections.ts:12`), but each select
  renews the TTL of the shared counter, so the connection of a crashed replica stays under steady
  traffic; a stream's slot is released at its first chunk, not at its end (`router.ts:501` against
  `least-connections.ts:88`).
* Rate limiter: a refused check removes expired members without subtracting their tokens, so the sum
  exceeds the window and later requests are refused too early (`rate-limiting-and-quotas.md:24`); the
  limits themselves are safe. A burst window longer than 60 s does bind
  (`rate-limiting-and-quotas.md:60`).
* Balancing: a wrap of the round-robin counter does not preserve "the rotation phase"
  (`round-robin.ts:30`), hence `wraps` in `RotationEven`; a drained provider is still selected while
  its WRR hash has credit, and by the latency strategy without Redis
  (`routing-and-load-balancing.md:50-51`), hence the exceptions of `DrainedIdle`. Smooth WRR never
  serves a candidate a whole selection ahead of its share, but from four candidates on it may be more
  than one behind: weights 1, 11, 400, 400 leave one 1.05 selections short, weights 1, 1, 28, 28, 3 one
  65/61. Hence the two bounds of `WrrShare`; the proof is what showed that one bound for both sides
  does not hold.
* Health monitor: a probe whose upsert rejects ends the tick while others still write, so `stop()`
  does not wait for them (`health-monitor.ts:9-11`) and `getDb()` may open a new pool after
  `closeDatabase`; a provider that answered is recorded unhealthy when the upsert of its answer
  failed.
* Adapter calls, bodies that fail: the timer covers the whole of a call that does not stream, but when
  it fires during the body, `readJson` rejects with a bare `AbortError`, which only `upstreamFetch`
  would have made an `UpstreamTimeoutError`. The router takes it for an internal error: no failover, no
  penalty, where `reliability.md:21`, `:35-36` and `:76` say that a timeout of the whole exchange is
  retryable and counted. A connection that is reset after good headers is no `GatewayError` either, and
  is treated alike although pre-first-byte errors are said to fail over (`router.ts:227`). A body
  timeout is the cause "timeout", a reset the cause "body"; `BlameIsRight` demands no verdict for them,
  so that it holds of the code and would hold of one that did as the doc says.
* Adapter calls, missing usage: OpenAI's and Mistral's whole answers without a usage are booked for the
  prompt and no completion tokens (`providers.md:75-76`); whole answers and streams of Gemini and
  Cohere, and streams of Anthropic, for no tokens at all, since the usage chunk with zeros that ends
  those streams replaces the estimate which `cost-tracking.md:24` keeps "until upstream usage arrives".
  An OpenAI or Mistral stream without a usage is booked by the estimate. `BookedExactly` has these cases
  one by one: an answer without a usage may be booked below what the client was shown.
* Adapter calls, error frames: the OpenAI adapter forwards `{"error": ...}` (`providers.md:79-80`) and
  its stream goes on to its end, so the client gets `[DONE]` and the row has status 200, where
  `reliability.md:27-28` says that an upstream error truncates the stream and is logged as 502. As the
  first chunk such a frame commits the call: no failover, and a success for the breaker. Anthropic's
  error event throws, as the doc says.
* Adapter calls, streams: the Cohere adapter leaves a tool call the index of its content block
  (`providers.md:158-159`), so after a text the calls are not numbered from zero, which a client that
  takes the index for a place in `message.tool_calls` has to cope with; hence "cohere" in
  `StreamMatchesWhole`, which still shows that every fragment has the index of its call. A stream
  without events from OpenAI or Anthropic counts as a success. Gemini and Cohere end a truncated stream
  with finish "stop" and a usage of zero, which replaces the estimate (`cost-tracking.md:24`); a
  truncated Anthropic stream ends with no finish. A tool call without arguments is `""` in an Anthropic
  stream and `"{}"` in a whole answer.
* Cache: the key takes `max_tokens` before `max_completion_tokens` where the providers do the
  reverse, leaves out vendor fields, and has the name of an alias, not what it stands for (itself, as soon as a
  provider serves a model of that name); hence the
  three differences of `AnswersRight`. A bypassed request is reported as `SKIP`, not `BYPASS`
  (`caching.md:18`, `router.ts:182`).
* Translation: tool-call arguments that are not JSON become `{}` at Anthropic and Gemini; Gemini and
  Cohere split a token array given as an embedding input into one text per token.

## 5. Proofs

Eight modules hold proofs. Most are named after the module they are about; `LimitsProofs` is about
`RateLimiter` and `Accounting`, `SelectionProofs` about `Registry` and `Balancing`. A theorem holds for
every value of the constants that the named assumption of its module allows: any number of requests,
providers, callers, faults and ticks of the clock, any limit, threshold, TTL and skew. The assumptions
say that numbers are natural (and positive where the configuration or the admin schema demands it),
that sets of requests and providers are finite, what kinds of records requests and answers are, and
that "no one" is nobody; TLC evaluates them on every run. In each module `IInv` is the inductive
invariant (`LimiterInv` and `RegistryInv` where a module has two), stated as a conjunction of named
parts. The proof that a step keeps it has one lemma or step per action.

Two techniques recur. The library's induction theorems take an operator as a parameter, which the
installed provers cannot instantiate, so induction is done with a set in its place: the least number
(or smallest subset) outside the set would contradict the step. And a recursive function or a fold is
a CHOOSE of a function; its value at the end of a sequence follows once a function with the wanted
values is shown to exist, which is again an induction of that kind.

| Module | Theorems | Properties of the runs they state |
| --- | --- | --- |
| `CircuitBreakerProofs` | `TypeCorrect`, `KeysAlwaysAgree`, `ProbesAlwaysBounded`, `TripsOnStreak`, `OpenPeriodHolds`, `ClosesOnEvidence` | `TypeOK`, `KeysAgree`, `ProbesBounded`, `TripsOnlyOnStreak`, `OpenPeriod`, `ClosesOnProbeEvidence` |
| `FailoverProofs` | `GaugeIsExact`, `SlotsAreAccounted`, `VerdictsAreComplete`, `ReliableAlwaysServes` | `GaugeExact`, `SlotsAccounted`, `VerdictsComplete`, `ReliableServes` |
| `LimitsProofs` | `RequestLimitHolds`, `TokenLimitHolds`; `TypeCorrect`, `OvershootAlwaysBounded`, `ShutdownIsClean` | `RpmHolds`, `TpmHolds`; `TypeOK`, `OvershootBounded`, `CleanShutdown` |
| `AuthCacheProofs` | `ExpiryIsEnforced`, `ValidKeyIsAccepted`, `CacheIsCurrent` | `ExpiryEnforced`, `ValidKeyAccepted`, `CacheCurrent` |
| `SelectionProofs` | `RefreshIsSingleFlight`, `ReloadReadsOwnChange`, `NoStampede`; `TypesHold`, `RotationIsEven`, `SharesHold`, `DrainedIsIdle` | `SingleFlight`, `ReloadSeesChange`, `BackoffHolds`; `RotationEven`, `WrrShare`, `DrainedIdle` |
| `HealthMonitorProofs` | `StopWaitsForTick`, `RowsAreCurrent` | `StopWaits`, `RowsCurrent` |
| `ChatPipelineProofs` | `AnswersAreRight`, `FlushIsThorough`, `RequestsAreWellPut` | `AnswersRight`, `FlushClears`; part of `RequestKept` |
| `ProviderCallProofs` | `CallInvariant`, `BlameHolds`, `BookingHolds`, `ProtocolHolds` | `BlameIsRight`, `BookedExactly`, `ImplementsProtocol` |

**Breaker** (`BreakerConfig`). None of the properties is inductive. The invariant is

    IInv == TypeOK /\ KeysAgree /\ SlotsCoverHolders /\ CountsEarned

`SlotsCoverHolders` ties the counter in Redis to the callers who were admitted: without it the
counter could be lower than the number of probes, and `ProbesBounded` would not survive the next
acquire. `CountsEarned` ties the failure and success counters to the reports that raised them:
without it a CLOSED breaker could carry a count from nowhere, and `TripsOnlyOnStreak` would fail, or
a HALF_OPEN one could close on successes that no probe reported. The proof has lemmas on each script
and on the cardinality of the set of holders; the three action properties follow from `IInv` and a
case analysis of one step.

**Accounting** (`AccountingAssumption`). The overshoot bound says nothing of requests between the
gate and the charge, so it is not inductive. `Capped` reserves one `MaxCost` per exposed request and
month:

    spend[m] + MaxCost * Cardinality(Exposed(m)) <= Ceiling

Passing the gate may expose every request of the replica, but only while the counter is under the
budget; a charge moves a reserve into the counter; a failed-open read or a resent command raises the
ceiling by what it can cost. A request that holds the spend key of the month before when the month
changes is exposed although it has yet to pass the gate, which is the case that is easy to miss.
`NoneAhead` (nothing is charged to a future month) is what starts a month at 0.

The shutdown has an invariant of its own. `Drained` says from the *flush* on, one phase earlier than
`CleanShutdown`, that whoever still runs has lost its client; so a row that is queued after the flush
is one of the `late` ones (`RowsCovered`).

**Failover** (`FailoverAssumption`, `BreakerConfig`, `LeastConnectionsConfig`). Four strengthenings
over the same types and control:

    IInv == TypeOK /\ Gauges /\ Slots /\ Verdicts /\ Steady

`Gauges` says where a request must be to count on a gauge, and that it is the gauge of the provider
it stands at: what `finally` decrements is what select incremented. `Slots` adds that a breaker which
is not HALF_OPEN has no slot taken. `Verdicts` says what has become of each candidate that has left
`remaining` and of the one at hand, at each await and under each planned exit, and that `attempts`
counts the failed candidates and the call in hand. `Steady` says that the breaker of a provider that
never fails stays CLOSED, however often Redis is lost around it.

**Rate limiter** (`RateLimiterConfig`).

    LimiterInv == LimiterTypeOK /\ Clocks /\ KeysLive /\ InWindow /\ Bounded

The script trims by the timestamps of the callers; the property is about real time. `Clocks` bounds
the difference, `KeysLive` says that the keys outlive the window of each admission (the TTL is
renewed by every admission and has a grace), and both give `InWindow`: what was admitted in the past
`Window - MaxSkew` is still in both sorted sets. `Bounded` is what the script itself maintains: the
request set is within its limit, and `Tokens(tpm) <= tpmSum <= TpmLimit`. The running sum may be too
high (a refused check evicts without subtracting, a resent script adds twice) and is never too low;
that, and not its being exact, is what the token limit rests on. The lemmas on `Tokens` (finite,
monotone, what adding a request and evicting a set do) are proved once.

**Auth cache** (`AuthAssumption`). `HeldInTime` says of a request that holds a context it will be let
in with that the context was not in the set of versions that had expired when the request began; the
cached and the database path both check it, but several awaits before the answer. `ValidNow` relates
the history variable `valid` to the row, so that a rejection is evidence against it. `CacheCurrent` is
inductive on its own, with `clean` covering the two races.

**Registry** (`RegistryAssumption`). `SharedRefresh` says that `inflight` is the one load that a request
runs, in both directions, and that nobody waits without one. `OwnReload` says that an administrator's
load runs only while its route waits and that the rows it has read contain the change: this is why
`reload` must not join the shared refresh. `AgeTracksQuiet` says that after a failed refresh the
snapshot's age lags the time since; the back-dated age of the code and the case `Ttl < Retry` are its
three disjuncts.

**Health monitor** (`HealthMonitorAssumption`). `OneTick` says that ticks do not overlap and that `running`
tells whether the current one is over; `ProbesFollowTick` how far probes can be at each stage of their
tick, with the early end of a rejected `Promise.all`; `StopOrder` what `main()` knows after `stop()`.
`FailuresNoted` and `RowsWritten` are what `RowsCurrent` needs of the probe that wrote a row.

**Balancing** (`BalancingAssumption`).

    IInv == TypeOK /\ Rotation /\ Credits /\ Shares

`RotationEven` forgets where the counter stands, so it is not inductive: `Rotation` says that of two
candidates the one that has been selected once more has the longer wait until its turn, and a wrap of
the counter costs one. `Credits` says that the credits of a hash add up to nothing, since the winner
pays what all gain. `Shares` says that the credit of a candidate *is* what it is owed, and bounds it:
the winner has the highest credit, so a credit that has just been lowered is above minus the total,
and as the others' credits add up to its opposite, none is higher than half the total for each other
candidate. That sum over a set, the highest member of a set and the remainders of the counter are
lemmas of their own. `DrainedIdle` needs `Credits`: with a total weight above zero someone has credit
left, and the drained one wins only with credit of its own.

**Provider call** (`ProviderCallAssumption`: the adapters and framings are those of the code, answers
are records of parts, a reason and a usage or none, reads have at least one byte).

    IInv == Control /\ Causes /\ Fresh /\ Flow /\ Tallied /\ BlameIsRight /\ BookedExactly

The properties speak of the end of a call, and what happens there depends on every byte before it.
`Flow` therefore says where a stream is: the parser has read c bytes and has taken k frames and r
characters of them, and its buffer, its pending event and its half character are a function of these
three (`ParserAt`), however the reads have cut the bytes; the adapter's role and usage are those after k
events of the answer's script (`StateAt`); the bytes still on the wire are the rest, or none after a
fault; and the chunks between adapter and client are in an order that continues the one the client has
seen, and carry no usage but a `Payable` one. The answer's usage is not what a stream will say: `Cost`
is what the adapter will know of it (zero, or none at all, where the provider reports nothing), and
`Shape` the form that this gives the stream, since an OpenAI stream without a usage looks like
Mistral's. All this is `Regular`; a stream that an error frame has ended is `Struck` instead: the
parser is empty, nothing is on the wire and the frame is queued or taken, which is why nothing can
follow it. A body that ends early leaves a remainder in the parser,
which is at most a piece of the next event: it parses to that event, to its bare type, or to nothing,
and each adapter's turn on all three is covered (`TurnIs`, `LastTurn`). `Tallied` says that the router's
count is at least the estimate of what the client has seen until a usage arrives, and is that usage
from then on, and that a stream which ended undisturbed, and whose adapter knows a cost, has it counted or on its way. `Causes`
says what may have disturbed a call at each point, which with `Control` gives the blame.

For the refinement each step is shown to be one of `ChunkProtocol`'s or none: writing a chunk delivers it
(`Flow` says that it may follow the last, or is the one error frame) or, when the client is gone or has not asked for usage, changes
nothing it sees; the step that ends the call ends the stream, with its row, or refuses it. So the order
of chunks holds of every answer, however long, of all five adapters.

**Chat pipeline** (`ChatPipelineAssumption`: requests are records with the fields that the schema
has, and their messages are sequences). The core is the lemma `SameKeySameBody`: for two requests that may be cached and have one
cache key, each adapter sends the same body to the same model, but for the vendor fields and, when
one of them has both limits, the limit. It needs no induction, since the key contains the messages
and each adapter's turns are a function of them. Then `Stored` says that an entry is an answer that
may be shared with the requests of its key, `Underway` and `Given` where the model and the answer of a
handler came from; `meant`, the set of models that the alias has stood for, only grows, so an old
answer stays accounted for. `Flushing` says that a flush under way has before it, or in hand, every
entry of the time before it; SCAN's promise about keys that stay is part of the model of Redis.
`RequestsAreWellPut` is the part of `RequestKept` that does not depend on what the messages say: merged
turns alternate for every conversation (`MergedAlternates`, induction over its messages), the limit on
tokens is passed on, and no tools are offered where the client wants none.

### Only model-checked

* Liveness: `NeverWedged`, `Recovers`, `Converges`, `ShutdownEnds`, `InterruptedIsBooked`, `StopReturns`
  and `TimeoutBounds`. The prover has no support for fairness and ENABLED here.
* `StreamMatchesWhole`: that the chunks of a whole stream assemble to what `translateResponse` gives.
  Order, usage and the end of a stream are proved; the content would need the fold of `Assemble` (texts
  joined, fragments of arguments joined call by call) compared with five definitions of
  `translateResponse`, an induction over the answer's parts for each adapter. Not attempted.
* `RequestKept`, as far as the words go: texts are filtered with `SelectSeq`, which the prover cannot
  expand, and the comparison part by part is of requests like the instance's (Cohere joins the texts of
  an assistant's message, and images of an assistant are dropped). The rest is `RequestsAreWellPut`.

## 6. Not modelled

* Request validation, headers, error bodies, the JSON of wire formats beyond what parses and what
  does not; fields of requests are grouped by who gets them (`Translation!Body`).
* Prices, token counting and floating point: a cost and a token count are small natural numbers.
* Redis as a cluster, failover of Redis, eviction of its data; SCAN's duplicates; PostgreSQL's
  transactions beyond single statements; the pool.
* Startup, tracing, logging, metrics, configuration parsing, read-only admin reports, creation of
  keys and providers, deployment files, benchmarks and scripts.
* The retry helper: no request path calls it.
* Embeddings share the steps of a call that is not streamed; of their vectors only the usage is
  modelled.

## 7. Plan

Done: all components with state of their own are modelled; every invariant and action property that the
runs check, and the refinement, is proved except the two listed under "Only model-checked", of which one
is proved in part.

Left, in this order:

1. `StreamMatchesWhole`: `Assemble` as a running record (as `EstimateOf` is a running sum) and, per adapter, the
   record after k events of a script.
2. `RequestKept`: `flattenText` without `SelectSeq`, then what each adapter's turns keep of a message, part by
   part, for requests whose assistant messages have no images.
3. Liveness, when the prover supports it; the invariants above are the safety part of those arguments.
