---------------------------- MODULE RateLimiter ----------------------------
(***************************************************************************)
(* The sliding-window rate limiter of one API key (src/src/rate-limiter):  *)
(* RATE_LIMIT_LUA over its four Redis keys, run by checks from any         *)
(* replica.  A check carries the clock of its replica (and waits in the    *)
(* client's queue before Redis runs it), so its timestamp is up to MaxSkew *)
(* ticks away from that of a check that runs next to it.                   *)
(*                                                                         *)
(* The members of the three sorted sets are request ids; score and token   *)
(* weight of a member are those of the request's arguments, `args'.        *)
(***************************************************************************)
EXTENDS Integers, FiniteSets

CONSTANTS
    Ids,           \* requests of one run
    Window,        \* ONE_MINUTE_MS, the window of both limits
    RpmLimit,
    TpmLimit,
    TokenChoices,  \* token estimates a request may come with
    BurstEnabled,  \* RATE_LIMIT_BURST_ENABLED
    BurstWindow,   \* RATE_LIMIT_BURST_WINDOW_MS
    BurstLimit,    \* ceil(rpm x RATE_LIMIT_BURST_MULTIPLIER)
    Grace,         \* the 1000 ms added to every TTL
    MaxSkew,       \* clock difference plus queueing delay of two checks
    MaxTime,       \* bound on the clock of one run
    MaxResends     \* bound on resent scripts

(* Limits are at least 1 in the admin schema, the burst multiplier and      *)
(* window at least 1 in the configuration.                                  *)
ASSUME RateLimiterConfig ==
    /\ IsFiniteSet(Ids)
    /\ Window \in Nat \ {0} /\ RpmLimit \in Nat \ {0} /\ TpmLimit \in Nat \ {0}
    /\ TokenChoices \subseteq Nat
    /\ BurstEnabled \in BOOLEAN
    /\ BurstWindow \in Nat \ {0}
    /\ BurstLimit \in Nat /\ BurstLimit >= RpmLimit
    /\ Grace \in Nat \ {0}
    /\ MaxSkew \in Nat /\ MaxTime \in Nat /\ MaxResends \in Nat

VARIABLES
    rpm, tpm, burst,   \* the sorted sets, as sets of ids
    tpmSum,            \* the running sum
    ttl, burstTtl,     \* remaining TTL of rpm, tpm and tpmSum; of burst
    now,               \* real time
    args,              \* per request: its timestamp and token estimate
    resends,
    \* History, read by the properties only:
    log,               \* requests admitted
    admittedAt         \* when

limiterVars == <<rpm, tpm, burst, tpmSum, ttl, burstTtl, now, args, resends,
          log, admittedAt>>

Unsent == [at |-> -1, tokens |-> 0]

LimiterInit ==
    /\ rpm = {} /\ tpm = {} /\ burst = {}
    /\ tpmSum = 0
    /\ ttl = 0 /\ burstTtl = 0
    /\ now = 0
    /\ args = [i \in Ids |-> Unsent]
    /\ resends = 0
    /\ log = {}
    /\ admittedAt = [i \in Ids |-> 0]

-----------------------------------------------------------------------------
(* The token weight of a set of requests: its number of single tokens, a    *)
(* sum written as a cardinality.                                            *)
TokensOf(i, a) == {i} \X (1 .. a[i].tokens)
Tokens(S, a) == Cardinality(UNION {TokensOf(i, a) : i \in S})

(* Mutant of Live: members leave one tick early. *)
LiveShort(S, a, at, w) == {i \in S : a[i].at > (at - w) + 1}

(* ZREMRANGEBYSCORE key 0 at-w: what is left of the set. *)
Live(S, a, at, w) == {i \in S : a[i].at > at - w}

(* The burst set after its own eviction. *)
LiveBurst(a, at) == Live(burst, a, at, BurstWindow)

(* The sum after the members that left the window are subtracted. *)
CurrentSum(a, at) ==
    LET live == Live(tpm, a, at, Window)
        sum == tpmSum - Tokens(tpm \ live, a)
    IN  IF sum < 0 \/ live = {} THEN 0 ELSE sum

(* The limit that refuses the request; "" if it is allowed. *)
Reason(a, at, tokens) ==
    CASE Cardinality(Live(rpm, a, at, Window)) >= RpmLimit -> "rpm"
      [] /\ Cardinality(Live(rpm, a, at, Window)) < RpmLimit
         /\ BurstEnabled
         /\ Cardinality(LiveBurst(a, at)) >= BurstLimit -> "burst"
      [] /\ Cardinality(Live(rpm, a, at, Window)) < RpmLimit
         /\ BurstEnabled => Cardinality(LiveBurst(a, at)) < BurstLimit
         /\ CurrentSum(a, at) + tokens > TpmLimit -> "tpm"
      [] OTHER -> ""

(* ZADD when allowed. *)
Kept(live, i, reason) == IF reason = "" THEN live \cup {i} ELSE live

(* Mutant of SumAfter: the admitted tokens are not added. *)
SumWithoutRequest(a, at, tokens, reason) ==
    IF reason = "" THEN CurrentSum(a, at) ELSE tpmSum

(* SET of the running sum: only when allowed. *)
SumAfter(a, at, tokens, reason) ==
    IF reason = "" THEN CurrentSum(a, at) + tokens ELSE tpmSum

(* RATE_LIMIT_LUA for request i with arguments a[i]. *)
Run(i, a) ==
    LET at == a[i].at
        reason == Reason(a, at, a[i].tokens)
    IN  /\ rpm' = Kept(Live(rpm, a, at, Window), i, reason)
        /\ tpm' = Kept(Live(tpm, a, at, Window), i, reason)
        /\ burst' = IF BurstEnabled
                    THEN Kept(LiveBurst(a, at), i, reason) ELSE burst
        /\ tpmSum' = SumAfter(a, at, a[i].tokens, reason)
        /\ ttl' = IF reason = "" THEN Window + Grace ELSE ttl
        /\ burstTtl' = IF reason = "" /\ BurstEnabled
                       THEN BurstWindow + Grace ELSE burstTtl
        /\ log' = IF reason = "" THEN log \cup {i} ELSE log
        /\ admittedAt' = IF reason = "" /\ i \notin log
                         THEN [admittedAt EXCEPT ![i] = now] ELSE admittedAt

-----------------------------------------------------------------------------
(* RateLimiter.check of a new request. *)
Check(i, skew, tokens) ==
    /\ args[i] = Unsent
    /\ args' = [args EXCEPT ![i] = [at |-> now + skew, tokens |-> tokens]]
    /\ Run(i, args')
    /\ UNCHANGED <<now, resends>>

(* The reply was lost and the client sends the same script again. *)
Resend(i) ==
    /\ resends < MaxResends
    /\ args[i].at >= now
    /\ Run(i, args)
    /\ resends' = resends + 1
    /\ UNCHANGED <<now, args>>

(* Time passes; Redis drops keys whose TTL is over. *)
Tick ==
    /\ now < MaxTime
    /\ now' = now + 1
    /\ ttl' = IF ttl > 0 THEN ttl - 1 ELSE 0
    /\ burstTtl' = IF burstTtl > 0 THEN burstTtl - 1 ELSE 0
    /\ rpm' = IF ttl = 1 THEN {} ELSE rpm
    /\ tpm' = IF ttl = 1 THEN {} ELSE tpm
    /\ tpmSum' = IF ttl = 1 THEN 0 ELSE tpmSum
    /\ burst' = IF burstTtl = 1 THEN {} ELSE burst
    /\ UNCHANGED <<args, resends, log, admittedAt>>

LimiterNext ==
    \/ \E i \in Ids : \E skew \in 0 .. MaxSkew, tokens \in TokenChoices :
            Check(i, skew, tokens)
    \/ \E i \in Ids : Resend(i)
    \/ Tick

LimiterSpec == LimiterInit /\ [][LimiterNext]_limiterVars

-----------------------------------------------------------------------------
(* Requests admitted in the last `len' ticks of real time. *)
Recent(len) == {i \in log : now - admittedAt[i] < len}

(* The limit holds continuously: at every moment the requests admitted in   *)
(* the past window, short of the clock skew, are at most RpmLimit, through  *)
(* skewed clocks, resent scripts and expiring keys.                         *)
RpmHolds == Cardinality(Recent(Window - MaxSkew)) <= RpmLimit

(* The same for the token estimates of those requests. *)
TpmHolds == Tokens(Recent(Window - MaxSkew), args) <= TpmLimit
=============================================================================
