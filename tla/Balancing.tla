------------------------------ MODULE Balancing ------------------------------
(***************************************************************************)
(* The load balancer (src/src/loadbalancer) with the strategies that keep  *)
(* no per-request resource: round-robin, smooth weighted round-robin,      *)
(* latency-based and random.  LeastConnections and Failover have the fifth.*)
(*                                                                         *)
(* Requests select from the candidates of a model or, in a failover, from  *)
(* those that are left, so that several candidate sets are live at a time; *)
(* operators edit weights and priorities under the balancer's feet.  Sets  *)
(* of candidates are ordered by `rank', the registry's priority order.     *)
(***************************************************************************)
EXTENDS Integers, FiniteSets

CONSTANTS
    Providers,
    CandidateSets,       \* the sets a request may select from
    Strategies,          \* values of LOAD_BALANCER_STRATEGY
    Weights,             \* weights an operator may set
    MaxCounter,          \* Number.MAX_SAFE_INTEGER
    Samples,             \* latencies of successful calls
    Penalty,             \* LB_FAILURE_PENALTY_MS
    DefaultEma, Epsilon, \* DEFAULT_EMA_MS, EPSILON_MS
    MaxPicks,            \* bound on the selections counted at a time
    MaxEdits,            \* bound on edits and Redis faults
    MaxCalls             \* bound on calls in progress per provider

ASSUME BalancingAssumption ==
    /\ IsFiniteSet(Providers)
    /\ CandidateSets \subseteq (SUBSET Providers) \ {{}}
    /\ Strategies \subseteq
         {"ROUND_ROBIN", "WEIGHTED_ROUND_ROBIN", "LATENCY_BASED", "RANDOM"}
    /\ Weights \subseteq Nat /\ Weights # {}
    /\ MaxCounter \in Nat \ {0}
    /\ Samples \cup {Penalty} \subseteq Nat
    /\ {DefaultEma, Epsilon} \subseteq Nat \ {0}

VARIABLES
    strategy,  \* of this deployment
    weight,    \* per provider, as the registry has it
    rank,      \* position of a provider in candidate lists
    counter,   \* round-robin: the in-memory counters, by set key
    cw,        \* smooth WRR: the hash of current weights, by set key
    ema,       \* latency: per provider, -1 when the key is absent
    calls,     \* calls in progress, which will record a sample
    edits,     \* edits and faults so far
    \* History, read by the properties only:
    picks,     \* per set: selections of each candidate in this rotation
    wraps,     \* per set: how often its counter wrapped in this rotation
    steady     \* sets whose rotation saw no edit and no lost reply

vars == <<strategy, weight, rank, counter, cw, ema, calls, edits, picks,
          wraps, steady>>
state == <<counter, cw, ema>>
history == <<picks, wraps, steady>>

Absent == -1
Ranks == {r \in [Providers -> 1 .. Cardinality(Providers)] :
            \A p, q \in Providers : r[p] = r[q] => p = q}
ZeroHash == [p \in Providers |-> 0]

(* The sum of f[p] over S, with f[p] units for each p. *)
Units(f, S) == UNION {{p} \X (1 .. f[p]) : p \in S}
Sum(f, S) == Cardinality(Units(f, S))

Total(S) == Sum(weight, S)

(* Candidates of S that come before p in a list. *)
Before(S, p) == {q \in S : rank[q] < rank[p]}

(* Of two values the higher one is better, and of equals the earlier one:   *)
(* every strategy's loop keeps it.                                          *)
Beats(p, valueP, q, valueQ) ==
    valueP > valueQ \/ (valueP = valueQ /\ rank[p] <= rank[q])

Init ==
    /\ strategy \in Strategies
    /\ weight \in [Providers -> Weights]
    /\ rank = CHOOSE r \in Ranks : TRUE
    /\ counter = [S \in CandidateSets |-> 0]
    /\ cw = [S \in CandidateSets |-> ZeroHash]
    /\ ema = [p \in Providers |-> Absent]
    /\ calls = [p \in Providers |-> 0]
    /\ edits = 0
    /\ picks = [S \in CandidateSets |-> ZeroHash]
    /\ wraps = [S \in CandidateSets |-> 0]
    /\ steady = CandidateSets

(* Mutant of SetKey: one counter for all the sets. *)
SetKeyShared(S) == CHOOSE T \in CandidateSets : TRUE

(* candidateSetKey: every set has state of its own, whatever its order. *)
SetKey(S) == S

-----------------------------------------------------------------------------
(* RoundRobinStrategy.select. *)
RoundRobin(S, p) ==
    LET c == counter[SetKey(S)] IN
    /\ p \in S
    /\ Cardinality(Before(S, p)) = c % Cardinality(S)
    /\ counter' = [counter EXCEPT ![SetKey(S)] = (c + 1) % MaxCounter]
    /\ wraps' = IF c + 1 = MaxCounter THEN [wraps EXCEPT ![S] = @ + 1] ELSE wraps
    /\ UNCHANGED <<cw, ema, calls>>

(* SMOOTH_WRR_LUA: the hash with every weight added. *)
Raised(S) == [p \in Providers |-> cw[S][p] + IF p \in S THEN weight[p] ELSE 0]

(* Mutant of Lowered: the winner pays its own weight, not the total. *)
LoweredByOwn(S, p) == [Raised(S) EXCEPT ![p] = @ - weight[p]]

(* HINCRBY of the winner by minus the total. *)
Lowered(S, p) == [Raised(S) EXCEPT ![p] = @ - Total(S)]

(* The candidate with the highest raised weight. *)
Wins(S, p) == \A q \in S : Beats(p, Raised(S)[p], q, Raised(S)[q])

(* WeightedRoundRobinStrategy.select. *)
SmoothWrr(S, p) ==
    /\ p \in S /\ Wins(S, p)
    /\ cw' = [cw EXCEPT ![S] = Lowered(S, p)]
    /\ UNCHANGED <<counter, ema, calls, wraps>>

(* The EMA a score divides by. *)
SafeEma(p) == CASE ema[p] = Absent -> DefaultEma
                [] ema[p] = 0 -> Epsilon
                [] OTHER -> ema[p]

(* LatencyBasedStrategy.select: the highest weight / EMA; quotients are     *)
(* compared by cross-multiplication.                                        *)
LatencyBased(S, p) ==
    /\ p \in S
    /\ \A q \in S : Beats(p, weight[p] * SafeEma(q), q, weight[q] * SafeEma(p))
    /\ calls[p] < MaxCalls
    /\ calls' = [calls EXCEPT ![p] = @ + 1]
    /\ UNCHANGED <<counter, cw, ema, wraps>>

(* cryptoPick, of RandomStrategy and of every degraded selection but WRR's. *)
CryptoPick(S, p) ==
    /\ p \in S
    /\ UNCHANGED <<counter, cw, ema, calls, wraps>>

(* Mutant of Passes: `target <= 0'. *)
PassesAtZero(T, target) == Total(T) >= target

(* The running target of weightedRandom is below zero after those of T. *)
Passes(T, target) == Total(T) > target

(* weightedRandom: the candidate whose weight takes the target below zero,  *)
(* anyone when no candidate has a weight.                                   *)
WeightedRandom(S, p) ==
    /\ p \in S
    /\ Total(S) > 0 =>
        \E target \in 0 .. Total(S) - 1 :
            /\ Passes(Before(S, p) \cup {p}, target)
            /\ Before(S, p) # {} => ~Passes(Before(S, p), target)
    /\ UNCHANGED <<counter, ema, calls, wraps>>

(* The history of the strategies that rotate. *)
Count(S) == Sum(picks[S], S)
Counted == Sum([S \in CandidateSets |-> Count(S)], CandidateSets)

NotePick(S, p) ==
    IF strategy \in {"ROUND_ROBIN", "WEIGHTED_ROUND_ROBIN"}
    THEN Counted < MaxPicks /\ picks' = [picks EXCEPT ![S][p] = @ + 1]
    ELSE UNCHANGED picks

(* LoadBalancer.select with the strategy of buildStrategy. *)
Select(S, p) ==
    /\ CASE strategy = "ROUND_ROBIN" -> RoundRobin(S, p)
         [] strategy = "WEIGHTED_ROUND_ROBIN" -> SmoothWrr(S, p)
         [] strategy = "LATENCY_BASED" -> LatencyBased(S, p)
         [] strategy = "RANDOM" -> CryptoPick(S, p)
    /\ NotePick(S, p)
    /\ UNCHANGED <<strategy, weight, rank, edits, steady>>

Edit == edits < MaxEdits /\ edits' = edits + 1

(* Redis fails under the selection, or its reply is lost after the WRR      *)
(* script ran: the strategies degrade, each in its own way.                 *)
SelectDegraded(S, p) ==
    /\ Edit
    /\ \/ /\ strategy = "WEIGHTED_ROUND_ROBIN"
          /\ WeightedRandom(S, p)
          /\ \/ UNCHANGED <<cw, steady>>
             \/ /\ \E w \in S : Wins(S, w) /\ cw' = [cw EXCEPT ![S] = Lowered(S, w)]
                /\ steady' = steady \ {S}
       \/ strategy = "LATENCY_BASED" /\ CryptoPick(S, p) /\ UNCHANGED steady
    /\ UNCHANGED <<strategy, weight, rank, picks>>

-----------------------------------------------------------------------------
(* EMA_UPDATE_LUA with alpha = 1/2. *)
UpdateEma(p, sample) ==
    ema' = [ema EXCEPT ![p] = IF @ = Absent THEN sample ELSE (sample + @) \div 2]

(* recordSuccess or recordFailure of a latency-based call. *)
Record(p, sample) ==
    /\ calls[p] > 0
    /\ calls' = [calls EXCEPT ![p] = @ - 1]
    /\ UpdateEma(p, sample)
    /\ UNCHANGED <<strategy, weight, rank, counter, cw, edits, history>>

(* A call that leaves no sample: a client error, or a failed update. *)
NoSample(p) ==
    /\ calls[p] > 0
    /\ calls' = [calls EXCEPT ![p] = @ - 1]
    /\ UNCHANGED <<strategy, weight, rank, counter, cw, ema, edits, history>>

(* A set's rotation starts over. *)
StartOver(sets) ==
    /\ picks' = [S \in CandidateSets |-> IF S \in sets THEN ZeroHash ELSE picks[S]]
    /\ wraps' = [S \in CandidateSets |-> IF S \in sets THEN 0 ELSE wraps[S]]

(* WRR_STATE_TTL_MS after the last selection the hash is gone. *)
HashExpires(S) ==
    /\ strategy = "WEIGHTED_ROUND_ROBIN"
    /\ cw' = [cw EXCEPT ![S] = ZeroHash]
    /\ StartOver({S})
    /\ steady' = steady \cup {S}
    /\ UNCHANGED <<strategy, weight, rank, counter, ema, calls, edits>>

(* EMA_TTL_MS after the last sample the average is gone. *)
EmaExpires(p) ==
    /\ ema[p] # Absent
    /\ ema' = [ema EXCEPT ![p] = Absent]
    /\ UNCHANGED <<strategy, weight, rank, counter, cw, calls, edits, history>>

(* The process restarts: the in-memory counters are gone. *)
Restart ==
    /\ strategy = "ROUND_ROBIN"
    /\ counter' = [S \in CandidateSets |-> 0]
    /\ StartOver(CandidateSets)
    /\ UNCHANGED <<strategy, weight, rank, cw, ema, calls, edits, steady>>

(* PATCH /admin/providers/:id of the weight; every state stays as it is. *)
SetWeight(p, w) ==
    /\ Edit
    /\ weight[p] # w
    /\ weight' = [weight EXCEPT ![p] = w]
    /\ steady' = {S \in steady : p \notin S \/ cw[S] = ZeroHash}
    /\ StartOver({S \in CandidateSets : p \in S})
    /\ UNCHANGED <<strategy, rank, state, calls>>

(* PATCH of the priority: the candidate lists come in another order. *)
SetPriority(r) ==
    /\ Edit
    /\ rank # r
    /\ rank' = r
    /\ StartOver(CandidateSets)
    /\ steady' = {S \in steady : cw[S] = ZeroHash}
    /\ UNCHANGED <<strategy, weight, state, calls>>

Next ==
    \/ \E S \in CandidateSets : \E p \in S : Select(S, p) \/ SelectDegraded(S, p)
    \/ \E p \in Providers : \E sample \in Samples \cup {Penalty} : Record(p, sample)
    \/ \E S \in CandidateSets : HashExpires(S)
    \/ \E p \in Providers : EmaExpires(p) \/ NoSample(p)
    \/ Restart
    \/ \E p \in Providers, w \in Weights : SetWeight(p, w)
    \/ \E r \in Ranks : SetPriority(r)

Spec == Init /\ [][Next]_vars

-----------------------------------------------------------------------------
(* Round-robin is even: within a rotation two candidates of a set differ by *)
(* one selection, and by one more for each time the counter has wrapped     *)
(* (the wrap restarts the rotation at the first candidate, although the     *)
(* code means to keep "the rotation phase").  Selections from other sets    *)
(* in between do not disturb it.                                            *)
RotationEven ==
    strategy = "ROUND_ROBIN" =>
        \A S \in CandidateSets : \A p, q \in S :
            picks[S][p] - picks[S][q] <= 1 + wraps[S]

(* Smooth WRR is proportional at every moment, not only over a whole round: *)
(* as long as nobody edited the set and no reply was lost, a candidate is   *)
(* never a whole selection ahead of its share of the selections, and with   *)
(* up to three candidates never a whole one behind.  With more of them the  *)
(* heaviest weight is served first and the others may wait longer, for at   *)
(* most half a selection per other candidate.                               *)
WrrShare ==
    strategy = "WEIGHTED_ROUND_ROBIN" =>
        \A S \in steady : \A p \in S :
            LET owed == Count(S) * weight[p] - picks[S][p] * Total(S)
                others == Cardinality(S) - 1
            IN  Total(S) > 0 =>
                    /\ owed > -Total(S)
                    /\ 2 * owed <= others * Total(S)
                    /\ others <= 2 => owed < Total(S)

(* The weighted strategies leave a candidate of weight 0 alone while        *)
(* another one has a weight ("never choose a zero-weight candidate while    *)
(* others remain").  The exceptions are the two the code has: a WRR hash in *)
(* which the candidate still has credit from the time before its weight was *)
(* set to 0, and a latency-based selection without Redis.                   *)
DrainedIdle ==
    [][\A S \in CandidateSets : \A p \in S :
        weight[p] = 0 /\ Total(S) > 0 =>
            /\ Select(S, p) /\ strategy = "WEIGHTED_ROUND_ROBIN" => cw[S][p] > 0
            /\ ~(Select(S, p) /\ strategy = "LATENCY_BASED")
            /\ ~(SelectDegraded(S, p) /\ strategy = "WEIGHTED_ROUND_ROBIN")]_vars
=============================================================================
