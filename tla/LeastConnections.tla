-------------------------- MODULE LeastConnections --------------------------
(***************************************************************************)
(* The least-connections strategy (src/src/loadbalancer/strategies): one   *)
(* in-flight gauge per provider in Redis, each with a TTL, and the two     *)
(* scripts that move it.  `Rank' is the position of a provider in the      *)
(* candidate list, which the registry sorts by priority.                   *)
(***************************************************************************)
EXTENDS Integers

CONSTANTS
    Providers,
    Rank,      \* position in the candidate list
    ConnTtl    \* CONNECTION_TTL_MS

ASSUME LeastConnectionsConfig ==
    /\ ConnTtl \in Nat \ {0}
    /\ Rank \in [Providers -> Nat]
    /\ \A p, q \in Providers : Rank[p] = Rank[q] => p = q

Gauge == [n : Nat, ttl : 0 .. ConnTtl]

NoGauge == [n |-> 0, ttl |-> 0]

(* The loop of SELECT_AND_ACQUIRE_LUA: the first minimum in list order. *)
Fewest(conns, candidates) ==
    CHOOSE p \in candidates : \A q \in candidates :
        \/ conns[p].n < conns[q].n
        \/ conns[p].n = conns[q].n /\ Rank[p] <= Rank[q]

(* INCR and PEXPIRE of the chosen gauge. *)
TakeConnection(conns, p) ==
    [conns EXCEPT ![p] = [n |-> conns[p].n + 1, ttl |-> ConnTtl]]

(* RELEASE_LUA: DECR, floored at zero; the TTL is left alone. *)
ReleaseConnection(conns, p) ==
    [conns EXCEPT ![p].n = IF conns[p].n > 0 THEN conns[p].n - 1 ELSE 0]

(* One tick of Redis' clock on one gauge. *)
ElapseGauge(g) ==
    [n   |-> IF g.ttl = 1 THEN 0 ELSE g.n,
     ttl |-> IF g.ttl > 0 THEN g.ttl - 1 ELSE 0]
=============================================================================
