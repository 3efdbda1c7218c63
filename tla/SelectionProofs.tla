-------------------------- MODULE SelectionProofs ---------------------------
(***************************************************************************)
(* Proofs about where a request may go: the registry that knows the        *)
(* providers, and the strategies that choose among them.                   *)
(***************************************************************************)
EXTENDS Registry, Balancing, FiniteSetTheorems, WellFoundedInduction, TLAPS

-----------------------------------------------------------------------------
(***************************************************************************)
(* Proofs about Registry, for every number of requests, administrators,    *)
(* changes and failed queries, and every pair of Ttl and Retry.            *)
(***************************************************************************)

Stages == {"idle", "wait", "ready", "changed", "reloading", "done", "failed"}

RegistryTypeOK ==
    /\ rows \in Versions /\ snap \in Versions
    /\ age \in Int /\ age <= Ttl
    /\ load \in [Loaders -> Versions \cup {NotLoading, Asked}]
    /\ inflight \in Requests \cup {NoOne}
    /\ pc \in [Loaders -> Stages]
    /\ wrote \in [Admins -> Versions]
    /\ quiet \in 0 .. Retry

(* The shared refresh is exactly the load that a request runs, and nobody   *)
(* waits without one.                                                       *)
SharedRefresh ==
    /\ \A r \in Requests : load[r] # NotLoading => inflight = r
    /\ inflight # NoOne => load[inflight] # NotLoading
    /\ \A l \in Loaders : pc[l] = "wait" => inflight # NoOne

(* An administrator's load is its own: it runs only while the route waits   *)
(* for it, and the rows it has read contain the change.                     *)
OwnReload ==
    \A a \in Admins :
        /\ pc[a] # "wait"
        /\ load[a] # NotLoading => pc[a] = "reloading"
        /\ wrote[a] <= rows
        /\ load[a] >= 0 => load[a] >= wrote[a]

(* The snapshot ages no faster than time passes since the failed refresh.   *)
AgeTracksQuiet ==
    \/ quiet >= Retry
    \/ age <= quiet + (Ttl - Retry)
    \/ age <= quiet

(* The inductive invariant. *)
RegistryInv == RegistryTypeOK /\ SharedRefresh /\ OwnReload /\ AgeTracksQuiet

-----------------------------------------------------------------------------
LEMMA RegistryInvInit == RegistryInit => RegistryInv
<1> SUFFICES ASSUME RegistryInit PROVE RegistryInv
  OBVIOUS
<1>1. RegistryTypeOK
  BY RegistryAssumption DEF RegistryInit, RegistryTypeOK, Versions, Stages, NotLoading
<1>2. SharedRefresh
  BY DEF RegistryInit, SharedRefresh, Loaders
<1>3. OwnReload
  BY DEF RegistryInit, OwnReload, Loaders, NotLoading
<1>4. AgeTracksQuiet
  BY RegistryAssumption DEF RegistryInit, AgeTracksQuiet
<1> QED BY <1>1, <1>2, <1>3, <1>4 DEF RegistryInv

(* Steps that leave the loads alone. *)
LEMMA ResolveKeeps == ASSUME RegistryInv, NEW r \in Requests, Resolve(r) PROVE RegistryInv'
<1>1. RegistryTypeOK' /\ AgeTracksQuiet'
  BY DEF RegistryInv, Resolve, RegistryTypeOK, AgeTracksQuiet, Stages
<1>2. SharedRefresh'
  BY DEF RegistryInv, Resolve, RegistryTypeOK, SharedRefresh, Loaders
<1>3. OwnReload'
  BY RegistryAssumption DEF RegistryInv, Resolve, RegistryTypeOK, OwnReload, Loaders
<1> QED BY <1>1, <1>2, <1>3 DEF RegistryInv

LEMMA TickKeeps == ASSUME RegistryInv, Tick PROVE RegistryInv'
<1>1. RegistryTypeOK'
  BY RegistryAssumption DEF RegistryInv, Tick, RegistryTypeOK
<1>2. SharedRefresh' /\ OwnReload'
  BY DEF RegistryInv, Tick, SharedRefresh, OwnReload
<1>3. AgeTracksQuiet'
  BY RegistryAssumption DEF RegistryInv, Tick, RegistryTypeOK, AgeTracksQuiet
<1> QED BY <1>1, <1>2, <1>3 DEF RegistryInv

LEMMA RemoteChangeKeeps == ASSUME RegistryInv, RemoteChange PROVE RegistryInv'
<1>1. RegistryTypeOK'
  BY RegistryAssumption DEF RegistryInv, RemoteChange, RegistryTypeOK, Versions
<1>2. SharedRefresh' /\ AgeTracksQuiet'
  BY DEF RegistryInv, RemoteChange, SharedRefresh, AgeTracksQuiet
<1>3. OwnReload'
  BY RegistryAssumption DEF RegistryInv, RemoteChange, RegistryTypeOK, Versions, OwnReload
<1> QED BY <1>1, <1>2, <1>3 DEF RegistryInv

LEMMA ReplyKeeps == ASSUME RegistryInv, NEW a \in Admins, Reply(a) PROVE RegistryInv'
<1>1. RegistryTypeOK' /\ AgeTracksQuiet'
  BY RegistryAssumption
  DEF RegistryInv, Reply, RegistryTypeOK, AgeTracksQuiet, Stages, Versions, Loaders
<1>2. SharedRefresh'
  BY DEF RegistryInv, Reply, RegistryTypeOK, SharedRefresh, Loaders
<1>3. OwnReload'
  BY RegistryAssumption
  DEF RegistryInv, Reply, RegistryTypeOK, OwnReload, Loaders, Versions, NotLoading, Asked
<1> QED BY <1>1, <1>2, <1>3 DEF RegistryInv

LEMMA ChangeKeeps == ASSUME RegistryInv, NEW a \in Admins, Change(a) PROVE RegistryInv'
<1>1. RegistryTypeOK' /\ AgeTracksQuiet'
  BY RegistryAssumption
  DEF RegistryInv, Change, RegistryTypeOK, AgeTracksQuiet, Stages, Versions, Loaders
<1>2. SharedRefresh'
  BY DEF RegistryInv, Change, RegistryTypeOK, SharedRefresh, Loaders
<1>3. OwnReload'
  BY RegistryAssumption
  DEF RegistryInv, Change, RegistryTypeOK, OwnReload, Loaders, Versions, NotLoading, Asked
<1> QED BY <1>1, <1>2, <1>3 DEF RegistryInv

-----------------------------------------------------------------------------
(* Steps of a load. *)
LEMMA RefreshKeeps == ASSUME RegistryInv, NEW r \in Requests, Refresh(r) PROVE RegistryInv'
<1>1. RegistryTypeOK' /\ AgeTracksQuiet'
  BY RegistryAssumption DEF RegistryInv, Refresh, RegistryTypeOK, AgeTracksQuiet, Stages, Loaders
<1>2. SharedRefresh'
  BY RegistryAssumption
  DEF RegistryInv, Refresh, RegistryTypeOK, SharedRefresh, Loaders, NotLoading, Asked
<1>3. OwnReload'
  BY RegistryAssumption DEF RegistryInv, Refresh, RegistryTypeOK, OwnReload, Loaders
<1> QED BY <1>1, <1>2, <1>3 DEF RegistryInv

LEMMA ReloadKeeps == ASSUME RegistryInv, NEW a \in Admins, Reload(a) PROVE RegistryInv'
<1>1. RegistryTypeOK' /\ AgeTracksQuiet'
  BY RegistryAssumption DEF RegistryInv, Reload, RegistryTypeOK, AgeTracksQuiet, Stages, Loaders
<1>2. SharedRefresh'
  BY RegistryAssumption
  DEF RegistryInv, Reload, RegistryTypeOK, SharedRefresh, Loaders, NotLoading, Asked
<1>3. OwnReload'
  BY RegistryAssumption DEF RegistryInv, Reload, RegistryTypeOK, OwnReload, Loaders, Asked
<1> QED BY <1>1, <1>2, <1>3 DEF RegistryInv

LEMMA QueryKeeps == ASSUME RegistryInv, NEW l \in Loaders, Query(l) PROVE RegistryInv'
<1>1. RegistryTypeOK' /\ AgeTracksQuiet'
  BY DEF RegistryInv, Query, RegistryTypeOK, AgeTracksQuiet
<1>2. SharedRefresh'
  BY RegistryAssumption
  DEF RegistryInv, Query, RegistryTypeOK, SharedRefresh, Loaders, NotLoading, Asked, Versions
<1>3. OwnReload'
  BY RegistryAssumption
  DEF RegistryInv, Query, RegistryTypeOK, OwnReload, Loaders, NotLoading, Asked, Versions
<1> QED BY <1>1, <1>2, <1>3 DEF RegistryInv

(* A load that ends, either way, leaves no waiter behind. *)
LEMMA SettleKeeps ==
    ASSUME RegistryInv, NEW l \in Loaders, NEW end \in {"done", "failed"},
           load[l] # NotLoading,
           load' = [load EXCEPT ![l] = NotLoading],
           inflight' = Settled(l), pc' = Released(l, end),
           UNCHANGED <<rows, wrote>>
    PROVE  /\ load' \in [Loaders -> Versions \cup {NotLoading, Asked}]
           /\ inflight' \in Requests \cup {NoOne}
           /\ pc' \in [Loaders -> Stages]
           /\ SharedRefresh' /\ OwnReload'
<1> USE RegistryAssumption DEF RegistryInv
<1>1. /\ load' \in [Loaders -> Versions \cup {NotLoading, Asked}]
      /\ inflight' \in Requests \cup {NoOne}
  BY DEF RegistryTypeOK, Settled
<1>2. pc' \in [Loaders -> Stages]
  BY DEF RegistryTypeOK, Released, Stages
<1>3. l \in Requests => inflight = l
  BY DEF SharedRefresh
<1>4. SharedRefresh'
  <2>1. CASE l \in Requests
    <3>1. inflight' = NoOne
      BY <1>3, <2>1 DEF Settled
    <3>2. \A k \in Loaders : pc'[k] # "wait"
      BY <2>1 DEF Released, RegistryTypeOK
    <3>3. \A r \in Requests : load'[r] = NotLoading
      BY <1>3, <2>1 DEF SharedRefresh, RegistryTypeOK, Loaders
    <3> QED BY <3>1, <3>2, <3>3 DEF SharedRefresh
  <2>2. CASE l \in Admins
    <3>1. inflight' = inflight
      BY <2>2 DEF Settled, RegistryTypeOK
    <3>2. \A k \in Requests : load'[k] = load[k]
      BY <2>2 DEF RegistryTypeOK, Loaders
    <3>3. \A k \in Loaders : pc'[k] = "wait" => pc[k] = "wait"
      BY <2>2 DEF Released
    <3> QED BY <3>1, <3>2, <3>3 DEF SharedRefresh, RegistryTypeOK
  <2> QED BY <2>1, <2>2 DEF Loaders
<1>5. OwnReload'
  <2> SUFFICES ASSUME NEW a \in Admins
               PROVE  /\ pc'[a] # "wait"
                      /\ load'[a] # NotLoading => pc'[a] = "reloading"
                      /\ wrote'[a] <= rows'
                      /\ load'[a] >= 0 => load'[a] >= wrote'[a]
    BY DEF OwnReload
  <2>1. a \in Loaders
    BY DEF Loaders
  <2>2. CASE a = l
    BY <2>1, <2>2 DEF OwnReload, RegistryTypeOK, Released, NotLoading
  <2>3. CASE a # l
    BY <2>1, <2>3 DEF OwnReload, RegistryTypeOK, Released
  <2> QED BY <2>2, <2>3
<1> QED BY <1>1, <1>2, <1>4, <1>5

LEMMA InstallKeeps == ASSUME RegistryInv, NEW l \in Loaders, Install(l) PROVE RegistryInv'
<1>1. load[l] # NotLoading
  BY RegistryAssumption DEF Install, Versions, NotLoading
<1>2. /\ load' \in [Loaders -> Versions \cup {NotLoading, Asked}]
      /\ inflight' \in Requests \cup {NoOne}
      /\ pc' \in [Loaders -> Stages]
      /\ SharedRefresh' /\ OwnReload'
  BY <1>1, SettleKeeps DEF Install
<1>3. RegistryTypeOK'
  BY <1>2, RegistryAssumption DEF RegistryInv, Install, RegistryTypeOK
<1>4. AgeTracksQuiet'
  BY DEF RegistryInv, Install, RegistryTypeOK, AgeTracksQuiet
<1> QED BY <1>2, <1>3, <1>4 DEF RegistryInv

LEMMA LoadFailsKeeps == ASSUME RegistryInv, NEW l \in Loaders, LoadFails(l) PROVE RegistryInv'
<1>1. load[l] # NotLoading
  BY DEF LoadFails, Asked, NotLoading
<1>2. /\ load' \in [Loaders -> Versions \cup {NotLoading, Asked}]
      /\ inflight' \in Requests \cup {NoOne}
      /\ pc' \in [Loaders -> Stages]
      /\ SharedRefresh' /\ OwnReload'
  BY <1>1, SettleKeeps DEF LoadFails
<1>3. RegistryTypeOK'
  BY <1>2, RegistryAssumption DEF RegistryInv, LoadFails, RegistryTypeOK, AgeAfterFailure
<1>4. AgeTracksQuiet'
  BY RegistryAssumption DEF RegistryInv, LoadFails, RegistryTypeOK, AgeTracksQuiet, AgeAfterFailure
<1> QED BY <1>2, <1>3, <1>4 DEF RegistryInv

LEMMA InvStep == RegistryInv /\ [RegistryNext]_registryVars => RegistryInv'
<1> SUFFICES ASSUME RegistryInv, [RegistryNext]_registryVars PROVE RegistryInv'
  OBVIOUS
<1>1. CASE RegistryNext
  BY <1>1, RefreshKeeps, ResolveKeeps, QueryKeeps, InstallKeeps, LoadFailsKeeps,
     ChangeKeeps, ReloadKeeps, ReplyKeeps, RemoteChangeKeeps, TickKeeps DEF RegistryNext
<1>2. CASE UNCHANGED registryVars
  BY <1>2 DEF registryVars, RegistryInv, RegistryTypeOK, SharedRefresh, OwnReload, AgeTracksQuiet
<1> QED BY <1>1, <1>2

LEMMA Invariance == RegistrySpec => []RegistryInv
<1>1. RegistryInit => RegistryInv
  BY RegistryInvInit
<1>2. RegistryInv /\ [RegistryNext]_registryVars => RegistryInv'
  BY InvStep
<1> QED BY <1>1, <1>2, PTL DEF RegistrySpec

-----------------------------------------------------------------------------
(* refreshIfStale de-duplicates: at most one request-driven load runs, and  *)
(* whoever waits does so for a load that is really under way.               *)
THEOREM RefreshIsSingleFlight == RegistrySpec => []SingleFlight
<1>1. RegistryInv => SingleFlight
  BY DEF RegistryInv, SharedRefresh, SingleFlight
<1> QED BY <1>1, Invariance, PTL

(* When load() of an admin route returns, the snapshot that was installed   *)
(* contains the route's change, whatever refreshes ran beside it.           *)
THEOREM ReloadReadsOwnChange == RegistrySpec => ReloadSeesChange
<1>1. RegistryInv /\ [RegistryNext]_registryVars
        => [\A a \in Admins :
              pc[a] # "done" /\ pc'[a] = "done" => snap' >= wrote[a]]_registryVars
  <2> SUFFICES ASSUME RegistryInv, RegistryNext, NEW a \in Admins, pc[a] # "done", pc'[a] = "done"
               PROVE  snap' >= wrote[a]
    OBVIOUS
  <2>0. a \in Loaders /\ pc \in [Loaders -> Stages]
    BY DEF Loaders, RegistryInv, RegistryTypeOK
  <2>1. ASSUME NEW l \in Loaders, Install(l) PROVE snap' >= wrote[a]
    <3>1. l = a
      BY <2>0, <2>1 DEF Install, Released, RegistryInv, OwnReload
    <3>2. load[a] \in Versions /\ snap' = load[a]
      BY <2>1, <3>1 DEF Install
    <3> QED BY <3>2, RegistryAssumption DEF RegistryInv, OwnReload, Versions
  <2>2. ASSUME NEW l \in Loaders, LoadFails(l) PROVE FALSE
    BY <2>0, <2>2 DEF LoadFails, Released, RegistryInv, OwnReload
  <2>3. ASSUME NEW r \in Requests, Refresh(r) \/ Resolve(r) PROVE FALSE
    BY <2>0, <2>3 DEF Refresh, Resolve, Loaders
  <2>4. ASSUME NEW b \in Admins, Change(b) \/ Reload(b) \/ Reply(b) PROVE FALSE
    BY <2>0, <2>4 DEF Change, Reload, Reply, Loaders
  <2>5. ASSUME NEW l \in Loaders, Query(l) PROVE FALSE
    BY <2>0, <2>5 DEF Query
  <2>6. ASSUME RemoteChange \/ Tick PROVE FALSE
    BY <2>0, <2>6 DEF RemoteChange, Tick
  <2> QED BY <2>1, <2>2, <2>3, <2>4, <2>5, <2>6 DEF RegistryNext
<1> QED BY <1>1, Invariance, PTL DEF RegistrySpec, ReloadSeesChange

(* The retry window of refreshIfStale: no request starts a load before      *)
(* Retry, or a whole TTL if that is shorter, has passed since the failed    *)
(* refresh.                                                                 *)
THEOREM NoStampede == RegistrySpec => BackoffHolds
<1>1. RegistryInv /\ [RegistryNext]_registryVars
        => [\A r \in Requests :
              load[r] = NotLoading /\ load'[r] # NotLoading
                => quiet >= Retry \/ quiet >= Ttl]_registryVars
  <2> SUFFICES ASSUME RegistryInv, RegistryNext, NEW r \in Requests,
                      load[r] = NotLoading, load'[r] # NotLoading
               PROVE  quiet >= Retry \/ quiet >= Ttl
    OBVIOUS
  <2>0. /\ r \in Loaders /\ load \in [Loaders -> Versions \cup {NotLoading, Asked}]
        /\ r \notin Admins
    BY RegistryAssumption DEF Loaders, RegistryInv, RegistryTypeOK
  <2>1. ASSUME NEW q \in Requests, Refresh(q) PROVE quiet >= Retry \/ quiet >= Ttl
    <3>1. age >= Ttl
      BY <2>0, <2>1, RegistryAssumption DEF Refresh, RegistryInv, RegistryTypeOK
    <3> QED BY <3>1, RegistryAssumption DEF RegistryInv, RegistryTypeOK, AgeTracksQuiet
  <2>2. ASSUME NEW q \in Requests, Resolve(q) PROVE FALSE
    BY <2>2 DEF Resolve
  <2>3. ASSUME NEW l \in Loaders, Query(l) PROVE FALSE
    BY <2>0, <2>3 DEF Query, NotLoading, Asked
  <2>4. ASSUME NEW l \in Loaders, Install(l) \/ LoadFails(l) PROVE FALSE
    BY <2>0, <2>4 DEF Install, LoadFails
  <2>5. ASSUME NEW a \in Admins, Change(a) \/ Reload(a) \/ Reply(a) PROVE FALSE
    BY <2>0, <2>5 DEF Change, Reload, Reply
  <2>6. ASSUME RemoteChange \/ Tick PROVE FALSE
    BY <2>6 DEF RemoteChange, Tick
  <2> QED BY <2>1, <2>2, <2>3, <2>4, <2>5, <2>6 DEF RegistryNext
<1> QED BY <1>1, Invariance, PTL DEF RegistrySpec, BackoffHolds

-----------------------------------------------------------------------------
(***************************************************************************)
(* Proofs about Balancing, for every set of providers and candidate sets,  *)
(* every weight, counter limit and latency, and any number of selections,  *)
(* edits and faults.                                                       *)
(***************************************************************************)

-----------------------------------------------------------------------------
(* Induction.  A property of naturals or of finite sets is a set here, so   *)
(* that it can be instantiated.                                             *)
LEMMA LeastNatural ==
    ASSUME NEW N \in SUBSET Nat, N # {}
    PROVE  \E m \in N : \A n \in N : m <= n
<1>1. IsWellFoundedOn(OpToRel(<, Nat), Nat)
  BY NatLessThanWellFounded
<1>2. \E m \in N : \A n \in N : ~(<<n, m>> \in OpToRel(<, Nat))
  BY <1>1, WFMin
<1>3. PICK m \in N : \A n \in N : ~(<<n, m>> \in OpToRel(<, Nat))
  BY <1>2
<1>4. \A n \in N : ~(n < m)
  BY <1>3 DEF OpToRel
<1> QED BY <1>4

LEMMA FiniteSetInduction ==
    ASSUME NEW S, IsFiniteSet(S), NEW P \in SUBSET (SUBSET S),
           {} \in P,
           \A T \in P : \A x \in S \ T : T \cup {x} \in P
    PROVE  S \in P
<1> DEFINE Size(T) == Cardinality(T)
           Bad == {T \in SUBSET S : T \notin P}
           N == {n \in Nat : \E T \in Bad : Size(T) = n}
<1>1. \A T \in SUBSET S : IsFiniteSet(T) /\ Size(T) \in Nat
  BY FS_Subset, FS_CardinalityType
<1> SUFFICES ASSUME S \notin P PROVE FALSE
  OBVIOUS
<1>2. N # {}
  BY <1>1
<1>3. PICK m \in N : \A n \in N : m <= n
  BY <1>2, LeastNatural
<1>4. PICK T \in Bad : Size(T) = m
  BY <1>3
<1>5. PICK x \in T : TRUE
  BY <1>4
<1>6. Size(T \ {x}) = m - 1
  BY <1>1, <1>4, <1>5, FS_RemoveElement
<1>7. T \ {x} \notin Bad
  <2> SUFFICES ASSUME T \ {x} \in Bad PROVE FALSE
    OBVIOUS
  <2>1. m - 1 \in Nat
    BY <1>1, <1>6
  <2>2. m - 1 \in N
    BY <1>6, <2>1
  <2>3. m \in Nat
    BY <1>3
  <2> HIDE DEF N
  <2> QED BY <1>3, <2>1, <2>2, <2>3
<1>8. T \ {x} \in P /\ x \in S \ (T \ {x}) /\ (T \ {x}) \cup {x} = T
  BY <1>4, <1>5, <1>7
<1>9. T \in P
  BY <1>8
<1> QED BY <1>4, <1>9

-----------------------------------------------------------------------------
(* Sums. *)
LEMMA UnitsOfOne ==
    ASSUME NEW p, NEW n \in Nat
    PROVE  /\ IsFiniteSet({p} \X (1 .. n))
           /\ Cardinality({p} \X (1 .. n)) = n
<1> DEFINE f == [k \in 1 .. n |-> <<p, k>>]
<1>1. IsFiniteSet(1 .. n) /\ Cardinality(1 .. n) = IF 1 > n THEN 0 ELSE n - 1 + 1
  BY FS_Interval
<1>2. Cardinality(1 .. n) = n
  BY <1>1
<1>3. f \in [1 .. n -> {p} \X (1 .. n)]
  OBVIOUS
<1>4. \A k, l \in 1 .. n : f[k] = f[l] => k = l
  OBVIOUS
<1>5. \A t \in {p} \X (1 .. n) : \E k \in 1 .. n : f[k] = t
  OBVIOUS
<1>6. f \in Bijection(1 .. n, {p} \X (1 .. n))
  BY <1>3, <1>4, <1>5, Zenon DEF Bijection, Injection, Surjection, IsInjective
<1>7. ExistsBijection(1 .. n, {p} \X (1 .. n))
  BY <1>6 DEF ExistsBijection
<1> QED BY <1>1, <1>2, <1>7, FS_Bijection

LEMMA SumEmpty == ASSUME NEW f PROVE Units(f, {}) = {} /\ Sum(f, {}) = 0
<1>1. Units(f, {}) = {}
  BY DEF Units
<1> QED BY <1>1, FS_EmptySet DEF Sum

(* One more candidate adds its own value. *)
LEMMA UnitsAdd ==
    ASSUME NEW f, NEW S, IsFiniteSet(Units(f, S)), NEW x, x \notin S, f[x] \in Nat
    PROVE  /\ IsFiniteSet(Units(f, S \cup {x}))
           /\ Sum(f, S \cup {x}) = Sum(f, S) + f[x]
<1> DEFINE U == Units(f, S)
           V == {x} \X (1 .. f[x])
<1>1. Units(f, S \cup {x}) = U \cup V
  BY DEF Units
<1>2. U \cap V = {}
  BY DEF Units
<1>3. IsFiniteSet(V) /\ Cardinality(V) = f[x]
  BY UnitsOfOne
<1>4. IsFiniteSet(U) /\ Cardinality(U) \in Nat
  BY FS_CardinalityType
<1>5. Cardinality(U \cap V) = 0
  BY <1>2, FS_EmptySet
<1> HIDE DEF U, V
<1>6. IsFiniteSet(U \cup V)
      /\ Cardinality(U \cup V) = Cardinality(U) + Cardinality(V) - Cardinality(U \cap V)
  BY <1>3, <1>4, FS_Union
<1>7. Cardinality(U \cup V) = Cardinality(U) + f[x]
  BY <1>3, <1>4, <1>5, <1>6
<1> QED BY <1>1, <1>6, <1>7 DEF Sum, U

LEMMA SumType ==
    ASSUME NEW S, IsFiniteSet(S), NEW f, \A p \in S : f[p] \in Nat
    PROVE  IsFiniteSet(Units(f, S)) /\ Sum(f, S) \in Nat
<1> DEFINE P == {T \in SUBSET S : IsFiniteSet(Units(f, T))}
<1>1. {} \in P
  BY SumEmpty, FS_EmptySet
<1>2. \A T \in P : \A x \in S \ T : T \cup {x} \in P
  BY UnitsAdd
<1>3. P \in SUBSET (SUBSET S)
  OBVIOUS
<1> HIDE DEF P
<1>4. S \in P
  BY <1>1, <1>2, <1>3, FiniteSetInduction
<1>5. IsFiniteSet(Units(f, S))
  BY <1>4 DEF P
<1> QED BY <1>5, FS_CardinalityType DEF Sum

LEMMA SumAddElement ==
    ASSUME NEW S, IsFiniteSet(S), NEW x, x \notin S,
           NEW f, \A p \in S \cup {x} : f[p] \in Nat
    PROVE  Sum(f, S \cup {x}) = Sum(f, S) + f[x]
BY SumType, UnitsAdd

LEMMA SumRemove ==
    ASSUME NEW S, IsFiniteSet(S), NEW x \in S, NEW f, \A p \in S : f[p] \in Nat
    PROVE  /\ Sum(f, S) = f[x] + Sum(f, S \ {x})
           /\ Sum(f, S \ {x}) \in Nat /\ Sum(f, S) \in Nat
<1>1. IsFiniteSet(S \ {x}) /\ (S \ {x}) \cup {x} = S
  BY FS_RemoveElement
<1>2. Sum(f, S \ {x}) \in Nat /\ Sum(f, S) \in Nat
  BY <1>1, SumType
<1>3. Sum(f, (S \ {x}) \cup {x}) = Sum(f, S \ {x}) + f[x]
  BY <1>1, SumAddElement
<1> QED BY <1>1, <1>2, <1>3

(* A sum depends on the values of its candidates only, and grows with them. *)
LEMMA SumSame ==
    ASSUME NEW S, NEW f, NEW g, \A p \in S : f[p] = g[p]
    PROVE  Sum(f, S) = Sum(g, S)
<1>1. Units(f, S) = Units(g, S)
  BY DEF Units
<1> QED BY <1>1 DEF Sum

LEMMA SumMonotone ==
    ASSUME NEW S, IsFiniteSet(S), NEW f, NEW g,
           \A p \in S : f[p] \in Nat /\ g[p] \in Nat /\ f[p] <= g[p]
    PROVE  Sum(f, S) <= Sum(g, S)
<1>1. \A p \in S : 1 .. f[p] \subseteq 1 .. g[p]
  OBVIOUS
<1>2. Units(f, S) \subseteq Units(g, S)
  BY <1>1 DEF Units
<1>3. IsFiniteSet(Units(g, S))
  BY SumType
<1> QED BY <1>2, <1>3, FS_Subset DEF Sum

LEMMA SumOfConstant ==
    ASSUME NEW S, IsFiniteSet(S), NEW k \in Nat, NEW f, \A p \in S : f[p] = k
    PROVE  Sum(f, S) = k * Cardinality(S)
<1> DEFINE P == {T \in SUBSET S : Sum(f, T) = k * Cardinality(T)}
<1>1. {} \in P
  BY SumEmpty, FS_EmptySet
<1>2. ASSUME NEW T \in P, NEW x \in S \ T PROVE T \cup {x} \in P
  <2>1. IsFiniteSet(T) /\ Cardinality(T) \in Nat
    BY FS_Subset, FS_CardinalityType
  <2>2. Cardinality(T \cup {x}) = Cardinality(T) + 1
    BY <2>1, FS_AddElement
  <2>3. Sum(f, T \cup {x}) = k * Cardinality(T) + k
    <3>1. \A p \in T \cup {x} : f[p] \in Nat
      OBVIOUS
    <3>2. Sum(f, T \cup {x}) = Sum(f, T) + f[x]
      BY <2>1, <3>1, SumAddElement
    <3> QED BY <3>2
  <2>4. k * (Cardinality(T) + 1) = k * Cardinality(T) + k
    BY <2>1
  <2> QED BY <2>2, <2>3, <2>4
<1>3. P \in SUBSET (SUBSET S)
  OBVIOUS
<1> HIDE DEF P
<1>4. S \in P
  BY <1>1, <1>2, <1>3, FiniteSetInduction
<1> QED BY <1>4 DEF P

LEMMA SumOfSums ==
    ASSUME NEW S, IsFiniteSet(S), NEW f, NEW g, NEW h,
           \A p \in S : f[p] \in Nat /\ g[p] \in Nat /\ h[p] = f[p] + g[p]
    PROVE  Sum(h, S) = Sum(f, S) + Sum(g, S)
<1> DEFINE P == {T \in SUBSET S : Sum(h, T) = Sum(f, T) + Sum(g, T)}
<1>1. {} \in P
  BY SumEmpty
<1>2. ASSUME NEW T \in P, NEW x \in S \ T PROVE T \cup {x} \in P
  <2>1. IsFiniteSet(T)
    BY FS_Subset
  <2>2. Sum(f, T) \in Nat /\ Sum(g, T) \in Nat
    BY <2>1, SumType
  <2>3. /\ Sum(f, T \cup {x}) = Sum(f, T) + f[x]
        /\ Sum(g, T \cup {x}) = Sum(g, T) + g[x]
    BY <2>1, SumAddElement
  <2>4. Sum(h, T \cup {x}) = Sum(h, T) + h[x]
    <3>1. \A p \in T \cup {x} : h[p] \in Nat
      OBVIOUS
    <3> QED BY <2>1, <3>1, SumAddElement
  <2>5. Sum(h, T \cup {x}) = Sum(f, T \cup {x}) + Sum(g, T \cup {x})
    BY <2>2, <2>3, <2>4
  <2> QED BY <2>5
<1>3. P \in SUBSET (SUBSET S)
  OBVIOUS
<1> HIDE DEF P
<1>4. S \in P
  BY <1>1, <1>2, <1>3, FiniteSetInduction
<1> QED BY <1>4 DEF P

LEMMA SumUpdate ==
    ASSUME NEW S, IsFiniteSet(S), NEW x \in S, NEW f, NEW g,
           \A p \in S : f[p] \in Nat /\ g[p] \in Nat,
           \A p \in S \ {x} : g[p] = f[p]
    PROVE  Sum(g, S) = Sum(f, S) - f[x] + g[x]
<1>1. Sum(f, S) = f[x] + Sum(f, S \ {x}) /\ Sum(f, S \ {x}) \in Nat
  BY SumRemove
<1>2. Sum(g, S) = g[x] + Sum(g, S \ {x})
  BY SumRemove
<1>3. Sum(g, S \ {x}) = Sum(f, S \ {x})
  BY SumSame
<1> QED BY <1>1, <1>2, <1>3

-----------------------------------------------------------------------------
(* Credits.  Current weights may be negative: their sum is 0 when raising   *)
(* each of them by some K makes K for each candidate.                       *)
Raise(c, k, S) == [p \in S |-> c[p] + k]
ZeroSum(c, S) ==
    \E k \in Nat : /\ \A p \in S : c[p] + k \in Nat
                   /\ Sum(Raise(c, k, S), S) = k * Cardinality(S)

(* Every such K will do. *)
LEMMA RaiseFurther ==
    ASSUME NEW S, IsFiniteSet(S), NEW c, NEW k \in Nat, NEW d \in Nat,
           \A p \in S : c[p] \in Int /\ c[p] + k \in Nat
    PROVE  Sum(Raise(c, k + d, S), S) = Sum(Raise(c, k, S), S) + d * Cardinality(S)
<1> DEFINE f == Raise(c, k, S)
           g == [p \in S |-> d]
           h == Raise(c, k + d, S)
<1>1. \A p \in S : f[p] \in Nat /\ g[p] \in Nat /\ h[p] = f[p] + g[p]
  BY DEF Raise
<1>2. Sum(h, S) = Sum(f, S) + Sum(g, S)
  BY <1>1, SumOfSums
<1>3. Sum(g, S) = d * Cardinality(S)
  BY SumOfConstant
<1> QED BY <1>2, <1>3

LEMMA ZeroSumAnyRaise ==
    ASSUME NEW S, IsFiniteSet(S), NEW c, \A p \in S : c[p] \in Int,
           ZeroSum(c, S), NEW l \in Nat, \A p \in S : c[p] + l \in Nat
    PROVE  Sum(Raise(c, l, S), S) = l * Cardinality(S)
<1>1. PICK k \in Nat : /\ \A p \in S : c[p] + k \in Nat
                       /\ Sum(Raise(c, k, S), S) = k * Cardinality(S)
  BY DEF ZeroSum
<1> DEFINE n == Cardinality(S)
           A == Sum(Raise(c, l, S), S)
<1>2. n \in Nat
  BY FS_CardinalityType
<1>3. A \in Nat
  <2>1. \A p \in S : Raise(c, l, S)[p] \in Nat
    BY DEF Raise
  <2> QED BY <2>1, SumType
<1> HIDE DEF n, A
<1>4. CASE k <= l
  <2>1. l - k \in Nat /\ k + (l - k) = l
    BY <1>4
  <2>2. Sum(Raise(c, k + (l - k), S), S) = Sum(Raise(c, k, S), S) + (l - k) * n
    BY <1>1, <2>1, RaiseFurther DEF n
  <2>3. A = k * n + (l - k) * n
    BY <1>1, <2>1, <2>2 DEF A, n
  <2>4. k * n + (l - k) * n = l * n
    BY <1>2
  <2> QED BY <2>3, <2>4 DEF A, n
<1>5. CASE l <= k
  <2>1. k - l \in Nat /\ l + (k - l) = k
    BY <1>5
  <2>2. Sum(Raise(c, l + (k - l), S), S) = A + (k - l) * n
    BY <2>1, RaiseFurther DEF n, A
  <2>3. k * n = A + (k - l) * n
    BY <1>1, <2>1, <2>2 DEF n
  <2>4. (k - l) * n = k * n - l * n
    BY <1>2
  <2>5. A = l * n
    BY <1>2, <1>3, <2>3, <2>4
  <2> QED BY <2>5 DEF A, n
<1> QED BY <1>4, <1>5

LEMMA ZeroIsZeroSum ==
    ASSUME NEW S, IsFiniteSet(S), NEW c, \A p \in S : c[p] = 0
    PROVE  ZeroSum(c, S)
<1> DEFINE f == Raise(c, 0, S)
<1>1. \A p \in S : f[p] = 0
  BY DEF Raise
<1>2. Sum(f, S) = 0 * Cardinality(S)
  BY <1>1, SumOfConstant
<1> QED BY <1>2 DEF ZeroSum

(* One selection: each candidate gets its weight w, the winner pays the     *)
(* total.  The credits still add up to 0, and before it pays somebody is in *)
(* credit.                                                                  *)
LEMMA ZeroSumKept ==
    ASSUME NEW S, IsFiniteSet(S), NEW c, NEW w, NEW d, NEW x \in S,
           \A p \in S : c[p] \in Int /\ w[p] \in Nat,
           ZeroSum(c, S),
           \A p \in S \ {x} : d[p] = c[p] + w[p],
           d[x] = c[x] + w[x] - Sum(w, S)
    PROVE  ZeroSum(d, S)
<1> DEFINE n == Cardinality(S)
           t == Sum(w, S)
<1>1. PICK k \in Nat : /\ \A p \in S : c[p] + k \in Nat
                       /\ Sum(Raise(c, k, S), S) = k * n
  BY DEF ZeroSum
<1>2. n \in Nat /\ t \in Nat
  BY FS_CardinalityType, SumType
<1> HIDE DEF n, t
<1> DEFINE f == Raise(c, k, S)
           g == [p \in S |-> f[p] + w[p]]
           h == [p \in S |-> g[p] + t]
           e == Raise(d, k + t, S)
           tt == [p \in S |-> t]
<1>3. \A p \in S : f[p] \in Nat /\ f[p] = c[p] + k
  BY <1>1 DEF Raise
<1>4. \A p \in S : g[p] \in Nat /\ g[p] = f[p] + w[p]
  BY <1>3
<1>5. \A p \in S : h[p] \in Nat /\ h[p] = g[p] + tt[p] /\ tt[p] = t
  BY <1>2, <1>4
<1>6. \A p \in S \ {x} : e[p] = h[p]
  BY <1>2, <1>3 DEF Raise
<1>7. e[x] = h[x] - t /\ e[x] \in Nat
  BY <1>2, <1>3, <1>4, <1>5 DEF Raise, t
<1> HIDE DEF f, g, h, e, tt
<1>8. Sum(g, S) = k * n + t
  <2>1. Sum(g, S) = Sum(f, S) + Sum(w, S)
    BY <1>3, <1>4, SumOfSums
  <2> QED BY <1>1, <2>1 DEF f, t
<1>9. Sum(h, S) = k * n + t + t * n
  <2>1. Sum(h, S) = Sum(g, S) + Sum(tt, S)
    BY <1>2, <1>4, <1>5, SumOfSums
  <2>2. Sum(tt, S) = t * n
    BY <1>2, <1>5, SumOfConstant DEF n
  <2> QED BY <1>8, <2>1, <2>2
<1>10. \A p \in S : e[p] \in Nat
  BY <1>5, <1>6, <1>7
<1>11. Sum(e, S) = Sum(h, S) - h[x] + e[x]
  BY <1>5, <1>6, <1>10, SumUpdate
<1>12. Sum(e, S) = (k + t) * n
  <2>1. k * n \in Nat /\ t * n \in Nat /\ (k + t) * n = k * n + t * n
    BY <1>2
  <2> QED BY <1>2, <1>5, <1>7, <1>9, <1>11, <2>1
<1>13. \A p \in S : d[p] + (k + t) \in Nat
  BY <1>10 DEF e, Raise
<1>14. k + t \in Nat
  BY <1>2
<1> QED BY <1>12, <1>13, <1>14 DEF ZeroSum, e, n

LEMMA SomeoneInCredit ==
    ASSUME NEW S, IsFiniteSet(S), NEW c, NEW w,
           \A p \in S : c[p] \in Int /\ w[p] \in Nat,
           ZeroSum(c, S), Sum(w, S) > 0
    PROVE  \E p \in S : c[p] + w[p] > 0
<1> SUFFICES ASSUME \A p \in S : c[p] + w[p] <= 0 PROVE FALSE
  OBVIOUS
<1> DEFINE n == Cardinality(S)
           t == Sum(w, S)
<1>1. PICK k \in Nat : /\ \A p \in S : c[p] + k \in Nat
                       /\ Sum(Raise(c, k, S), S) = k * n
  BY DEF ZeroSum
<1>2. n \in Nat /\ t \in Nat /\ k * n \in Nat
  BY FS_CardinalityType, SumType
<1> HIDE DEF n, t
<1> DEFINE f == Raise(c, k, S)
           g == [p \in S |-> f[p] + w[p]]
           kk == [p \in S |-> k]
<1>3. \A p \in S : f[p] \in Nat /\ f[p] = c[p] + k
  BY <1>1 DEF Raise
<1>4. \A p \in S : g[p] \in Nat /\ g[p] = f[p] + w[p] /\ g[p] <= kk[p] /\ kk[p] = k
  BY <1>3
<1> HIDE DEF f, g, kk
<1>5. Sum(g, S) = Sum(f, S) + Sum(w, S)
  BY <1>3, <1>4, SumOfSums
<1>6. Sum(g, S) <= Sum(kk, S)
  BY <1>4, SumMonotone
<1>7. Sum(kk, S) = k * n
  BY <1>4, SumOfConstant DEF n
<1> QED BY <1>1, <1>2, <1>5, <1>6, <1>7 DEF f, t

(* A candidate that does not win waits, but not for long: the winner has as *)
(* much credit, and nobody is a whole selection ahead.                      *)
LEMMA LoserBound ==
    ASSUME NEW S, IsFiniteSet(S), NEW c, NEW w,
           \A p \in S : c[p] \in Int /\ w[p] \in Nat,
           ZeroSum(c, S), Sum(w, S) > 0,
           \A p \in S : c[p] > -Sum(w, S),
           NEW x \in S, NEW y \in S, x # y, c[y] + w[y] <= c[x] + w[x]
    PROVE  LET n == Cardinality(S)
               t == Sum(w, S)
           IN  /\ 2 * (c[y] + w[y]) <= (n - 1) * t
               /\ n - 1 <= 2 => c[y] + w[y] < t
<1> DEFINE n == Cardinality(S)
           t == Sum(w, S)
           f == Raise(c, t, S)
           g == [p \in S |-> f[p] + w[p]]
           R == S \ {x}
           Q == R \ {y}
           one == [p \in S |-> 1]
<1>1. n \in Nat /\ t \in Nat
  BY FS_CardinalityType, SumType
<1> HIDE DEF t
<1>2. \A p \in S : f[p] \in Nat /\ f[p] = c[p] + t /\ c[p] + t \in Nat
  BY <1>1 DEF Raise, t
<1>3. \A p \in S : g[p] \in Nat /\ g[p] = c[p] + w[p] + t
  BY <1>1, <1>2
<1>4. \A p \in S : g[p] >= 1 /\ one[p] \in Nat /\ one[p] = 1
  BY <1>1, <1>3 DEF t
<1>5. Sum(f, S) = t * n
  BY <1>1, <1>2, ZeroSumAnyRaise
<1>6. Sum(g, S) = t * n + t
  <2>1. \A p \in S : f[p] \in Nat /\ w[p] \in Nat /\ g[p] = f[p] + w[p]
    BY <1>2
  <2> HIDE DEF f, g
  <2>2. Sum(g, S) = Sum(f, S) + Sum(w, S)
    BY <2>1, SumOfSums
  <2> QED BY <1>5, <2>2 DEF t
<1>7. /\ IsFiniteSet(R) /\ Cardinality(R) = n - 1
      /\ IsFiniteSet(Q) /\ Cardinality(Q) = n - 2
  <2>1. IsFiniteSet(R) /\ Cardinality(R) = n - 1 /\ y \in R
    BY FS_RemoveElement
  <2> HIDE DEF R, n
  <2>2. IsFiniteSet(Q) /\ Cardinality(Q) = Cardinality(R) - 1
    BY <2>1, FS_RemoveElement
  <2> QED BY <1>1, <2>1, <2>2
<1> HIDE DEF f, g, one, n, R, Q
<1>8. R \subseteq S /\ Q \subseteq S /\ y \in R /\ R = S \ {x} /\ Q = R \ {y}
  BY DEF R, Q
<1>9. Sum(g, S) = g[x] + Sum(g, R) /\ Sum(g, R) \in Nat
  BY <1>3, <1>8, SumRemove
<1>10. Sum(g, R) = g[y] + Sum(g, Q) /\ Sum(g, Q) \in Nat
  BY <1>3, <1>7, <1>8, SumRemove
<1>11. Sum(one, Q) <= Sum(g, Q)
  <2>1. \A p \in Q : one[p] \in Nat /\ g[p] \in Nat /\ one[p] <= g[p]
    BY <1>3, <1>4, <1>8
  <2> QED BY <1>7, <2>1, SumMonotone
<1>12. Sum(one, Q) = 1 * Cardinality(Q)
  BY <1>4, <1>7, <1>8, SumOfConstant
<1>13. n - 2 <= Sum(g, Q) /\ n - 2 >= 0
  BY <1>1, <1>7, <1>10, <1>11, <1>12, FS_CardinalityType
<1>14. (c[x] + w[x] + t) + ((c[y] + w[y] + t) + Sum(g, Q)) = t * n + t
  BY <1>3, <1>6, <1>9, <1>10
<1>15. (n - 1) * t = t * n - t /\ t * n \in Int
  BY <1>1
<1>16. 2 * (c[y] + w[y]) <= (n - 1) * t - (n - 2)
  BY <1>1, <1>10, <1>13, <1>14, <1>15
<1>17. 2 * (c[y] + w[y]) <= (n - 1) * t
  BY <1>1, <1>13, <1>15, <1>16
<1>18. ASSUME n - 1 <= 2 PROVE c[y] + w[y] < t
  <2>1. n = 2 \/ n = 3
    BY <1>1, <1>13, <1>18
  <2>2. CASE n = 2
    <3>1. (n - 1) * t = t
      BY <1>1, <2>2
    <3> QED BY <1>1, <1>17, <3>1 DEF t
  <2>3. CASE n = 3
    <3>1. (n - 1) * t = 2 * t
      BY <1>1, <2>3
    <3> QED BY <1>1, <1>16, <2>3, <3>1 DEF t
  <2> QED BY <2>1, <2>2, <2>3
<1> QED BY <1>17, <1>18 DEF n, t

-----------------------------------------------------------------------------
(* Positions in a list of candidates and turns of the rotation. *)
Pos(S, p) == Cardinality(Before(S, p))
Turn(S) == counter[S] % Cardinality(S)

(* Selections until the candidate at position a is next, at turn t of n. *)
Until(a, t, n) == IF a >= t THEN a - t ELSE a - t + n
Wait(S, p) == Until(Pos(S, p), Turn(S), Cardinality(S))

LEMMA TurnPasses ==
    ASSUME NEW n \in Nat \ {0}, NEW t \in 0 .. n - 1, NEW a \in 0 .. n - 1
    PROVE  LET u == IF t = n - 1 THEN 0 ELSE t + 1 IN
           /\ Until(a, t, n) \in 0 .. n - 1
           /\ a = t => Until(a, t, n) = 0 /\ Until(a, u, n) = n - 1
           /\ a # t => Until(a, t, n) > 0 /\ Until(a, u, n) = Until(a, t, n) - 1
BY DEF Until

LEMMA NextRemainder ==
    ASSUME NEW c \in Nat, NEW n \in Nat \ {0}
    PROVE  /\ c % n \in 0 .. n - 1
           /\ (c + 1) % n = IF c % n = n - 1 THEN 0 ELSE (c % n) + 1
<1> DEFINE q == c \div n
           r == c % n
           q2 == (c + 1) \div n
           r2 == (c + 1) % n
<1>1. q \in Int /\ r \in 0 .. n - 1 /\ c = n * q + r
  OBVIOUS
<1>2. q2 \in Int /\ r2 \in 0 .. n - 1 /\ c + 1 = n * q2 + r2
  OBVIOUS
<1> HIDE DEF q, r, q2, r2
<1> DEFINE d == q2 - q
<1>3. d \in Int /\ n * d = r + 1 - r2
  <2>1. n * (q2 - q) = n * q2 - n * q
    BY <1>1, <1>2
  <2>2. n * q2 \in Int /\ n * q \in Int
    BY <1>1, <1>2
  <2> QED BY <1>1, <1>2, <2>1, <2>2
<1> HIDE DEF d
<1>4. -n < n * d /\ n * d <= n
  BY <1>1, <1>2, <1>3
<1>5. d = 0 \/ d = 1
  <2>1. ASSUME d <= -1 PROVE n * d <= -n
    BY <1>3, <2>1
  <2>2. ASSUME d >= 2 PROVE n * d > n
    BY <1>3, <2>2
  <2> QED BY <1>3, <1>4, <2>1, <2>2
<1>6. CASE d = 0
  <2>1. r2 = r + 1
    BY <1>1, <1>2, <1>3, <1>6
  <2>2. r # n - 1
    BY <1>1, <1>2, <2>1
  <2> QED BY <1>1, <2>1, <2>2 DEF r, r2
<1>7. CASE d = 1
  <2>1. r2 = r + 1 - n
    BY <1>1, <1>2, <1>3, <1>7
  <2>2. r = n - 1 /\ r2 = 0
    BY <1>1, <1>2, <2>1
  <2> QED BY <1>1, <2>2 DEF r, r2
<1> QED BY <1>5, <1>6, <1>7

LEMMA CandidatesFinite ==
    ASSUME NEW S \in CandidateSets
    PROVE  /\ IsFiniteSet(S) /\ S \subseteq Providers /\ S # {}
           /\ Cardinality(S) \in Nat \ {0}
<1>1. S \subseteq Providers /\ S # {}
  BY BalancingAssumption
<1>2. IsFiniteSet(S)
  BY <1>1, BalancingAssumption, FS_Subset
<1> QED BY <1>1, <1>2, FS_CardinalityType, FS_EmptySet

LEMMA Positions ==
    ASSUME rank \in Ranks, NEW S \in CandidateSets
    PROVE  /\ \A p \in S : Pos(S, p) \in 0 .. Cardinality(S) - 1
           /\ \A p, q \in S : Pos(S, p) = Pos(S, q) => p = q
<1>1. IsFiniteSet(S) /\ S \subseteq Providers
  BY CandidatesFinite
<1>2. /\ \A p \in S : rank[p] \in Int
      /\ \A p, q \in S : rank[p] = rank[q] => p = q
  BY <1>1 DEF Ranks
<1>3. ASSUME NEW T \in SUBSET S, NEW x \in S \ T
      PROVE  /\ Cardinality(T) \in Nat /\ IsFiniteSet(T)
             /\ Cardinality(T \cup {x}) = Cardinality(T) + 1
  BY <1>1, FS_Subset, FS_CardinalityType, FS_AddElement
<1>4. ASSUME NEW p \in S PROVE Pos(S, p) \in 0 .. Cardinality(S) - 1
  <2>1. Before(S, p) \in SUBSET S /\ p \notin Before(S, p)
    BY <1>2 DEF Before
  <2>2. /\ Cardinality(Before(S, p)) \in Nat
        /\ Cardinality(Before(S, p) \cup {p}) = Cardinality(Before(S, p)) + 1
    BY <1>3, <2>1
  <2>3. Cardinality(Before(S, p) \cup {p}) <= Cardinality(S)
    BY <1>1, <2>1, FS_Subset
  <2>4. Cardinality(S) \in Nat
    BY <1>1, FS_CardinalityType
  <2> QED BY <2>2, <2>3, <2>4 DEF Pos
<1>5. ASSUME NEW p \in S, NEW q \in S, rank[p] < rank[q]
      PROVE  Pos(S, p) # Pos(S, q)
  <2>1. Before(S, p) \cup {p} \subseteq Before(S, q) /\ p \notin Before(S, p)
    BY <1>2, <1>5 DEF Before
  <2>2. Before(S, p) \in SUBSET S /\ Before(S, q) \in SUBSET S
    BY DEF Before
  <2>3. /\ Cardinality(Before(S, p)) \in Nat
        /\ Cardinality(Before(S, p) \cup {p}) = Cardinality(Before(S, p)) + 1
    BY <1>3, <2>1, <2>2
  <2>4. IsFiniteSet(Before(S, q)) /\ Cardinality(Before(S, q)) \in Nat
    BY <1>1, <2>2, FS_Subset, FS_CardinalityType
  <2>5. Cardinality(Before(S, p) \cup {p}) <= Cardinality(Before(S, q))
    BY <2>1, <2>4, FS_Subset
  <2> QED BY <2>3, <2>4, <2>5 DEF Pos
<1>6. ASSUME NEW p \in S, NEW q \in S, Pos(S, p) = Pos(S, q) PROVE p = q
  BY <1>2, <1>5, <1>6
<1> QED BY <1>4, <1>6

LEMMA SomeRank == Ranks # {}
<1> DEFINE n == Cardinality(Providers)
<1>1. n \in Nat /\ ExistsBijection(1 .. n, Providers)
  BY BalancingAssumption, FS_CardinalityType
<1>2. PICK b \in Bijection(1 .. n, Providers) : TRUE
  BY <1>1 DEF ExistsBijection
<1>3. \A p \in Providers : \E i \in 1 .. n : b[i] = p
  BY <1>2 DEF Bijection, Surjection
<1> DEFINE r == [p \in Providers |-> CHOOSE i \in 1 .. n : b[i] = p]
<1>4. \A p \in Providers : r[p] \in 1 .. n /\ b[r[p]] = p
  BY <1>3
<1>5. r \in [Providers -> 1 .. n]
  BY <1>4
<1>6. \A p, q \in Providers : r[p] = r[q] => p = q
  BY <1>4
<1> HIDE DEF r, n
<1>7. r \in Ranks
  BY <1>5, <1>6 DEF Ranks, n
<1> QED BY <1>7

-----------------------------------------------------------------------------
(* The invariant. *)
TypeOK ==
    /\ strategy \in Strategies
    /\ weight \in [Providers -> Nat]
    /\ rank \in Ranks
    /\ counter \in [CandidateSets -> 0 .. MaxCounter - 1]
    /\ cw \in [CandidateSets -> [Providers -> Int]]
    /\ ema \in [Providers -> Nat \cup {Absent}]
    /\ picks \in [CandidateSets -> [Providers -> Nat]]
    /\ wraps \in [CandidateSets -> Nat]
    /\ steady \subseteq CandidateSets

(* Who has been selected more often waits longer. *)
Even(S) ==
    \A p, q \in S : picks[S][p] - picks[S][q] <=
                        wraps[S] + IF Wait(S, p) > Wait(S, q) THEN 1 ELSE 0
Rotation == strategy = "ROUND_ROBIN" => \A S \in CandidateSets : Even(S)

(* Nobody gains what nobody pays. *)
Credits == \A S \in CandidateSets : ZeroSum(cw[S], S)

(* A steady hash c is what its candidates are owed after the selections f   *)
(* at the weights w, and that is within bounds.                             *)
Within(S, c, t) ==
    LET n == Cardinality(S) IN
    \A p \in S : /\ c[p] > -t
                 /\ 2 * c[p] <= (n - 1) * t
                 /\ n - 1 <= 2 => c[p] < t
Owed(S, c, f, w) ==
    /\ \A p \in S : c[p] = Sum(f, S) * w[p] - f[p] * Sum(w, S)
    /\ Sum(w, S) > 0 => Within(S, c, Sum(w, S))
Shares ==
    strategy = "WEIGHTED_ROUND_ROBIN" =>
        \A S \in steady : Owed(S, cw[S], picks[S], weight)

IInv == TypeOK /\ Rotation /\ Credits /\ Shares

LEMMA WeightTotals ==
    ASSUME weight \in [Providers -> Nat], NEW S \in CandidateSets
    PROVE  /\ Total(S) \in Nat
           /\ \A p \in S : weight[p] \in Nat /\ weight[p] <= Total(S)
<1>1. IsFiniteSet(S) /\ S \subseteq Providers /\ \A p \in S : weight[p] \in Nat
  BY CandidatesFinite
<1>2. Sum(weight, S) \in Nat
  BY <1>1, SumType
<1>3. ASSUME NEW p \in S PROVE weight[p] <= Sum(weight, S)
  <2> DEFINE t == Sum(weight, S)
             a == Sum(weight, S \ {p})
  <2>1. t = weight[p] + a /\ a \in Nat
    BY <1>1, SumRemove
  <2>2. weight[p] \in Nat
    BY <1>1
  <2> HIDE DEF t, a
  <2>3. weight[p] <= t
    BY <2>1, <2>2
  <2> QED BY <2>3 DEF t
<1> QED BY <1>1, <1>2, <1>3, Zenon DEF Total

LEMMA PickCounts ==
    ASSUME picks \in [CandidateSets -> [Providers -> Nat]], NEW S \in CandidateSets
    PROVE  Count(S) \in Nat /\ \A p \in S : picks[S][p] \in Nat
<1>1. IsFiniteSet(S) /\ \A p \in S : picks[S][p] \in Nat
  BY CandidatesFinite
<1> QED BY <1>1, SumType DEF Count

(* A rotation that has just started owes nobody anything. *)
LEMMA FreshShares ==
    ASSUME NEW S \in CandidateSets, NEW c, NEW f, NEW w,
           \A p \in S : w[p] \in Nat /\ f[p] = 0 /\ c[p] = 0
    PROVE  Owed(S, c, f, w)
<1> DEFINE n == Cardinality(S)
           t == Sum(w, S)
           m == Sum(f, S)
<1>1. IsFiniteSet(S) /\ n \in Nat \ {0}
  BY CandidatesFinite
<1>2. t \in Nat
  BY <1>1, SumType
<1>3. m = 0 * n
  BY <1>1, SumOfConstant
<1>4. m = 0
  BY <1>1, <1>3
<1> HIDE DEF n, t, m
<1>5. (n - 1) * t >= 0
  BY <1>1, <1>2
<1>6. \A p \in S : c[p] = m * w[p] - f[p] * t
  BY <1>2, <1>4
<1>7. ASSUME t > 0 PROVE Within(S, c, t)
  BY <1>2, <1>5, <1>7 DEF Within, n
<1> QED BY <1>6, <1>7 DEF Owed, t, m

LEMMA InvInit == Init => IInv
<1> SUFFICES ASSUME Init PROVE IInv
  OBVIOUS
<1>1. rank \in Ranks
  BY SomeRank DEF Init
<1>2. weight \in [Providers -> Nat]
  BY BalancingAssumption DEF Init
<1>3. counter \in [CandidateSets -> 0 .. MaxCounter - 1]
  BY BalancingAssumption DEF Init
<1>4. TypeOK
  BY <1>1, <1>2, <1>3 DEF Init, TypeOK, ZeroHash, Absent
<1>5. \A S \in CandidateSets : \A p \in S : picks[S][p] = 0 /\ cw[S][p] = 0
  BY CandidatesFinite DEF Init, ZeroHash
<1>6. Rotation
  BY <1>5 DEF Init, Rotation, Even
<1>7. Credits
  BY <1>5, CandidatesFinite, ZeroIsZeroSum DEF Credits
<1>8. Shares
  <2>1. \A S \in CandidateSets : \A p \in S : weight[p] \in Nat
    BY <1>2, CandidatesFinite
  <2> QED BY <1>4, <1>5, <2>1, FreshShares DEF TypeOK, Shares
<1> QED BY <1>4, <1>6, <1>7, <1>8 DEF IInv

(* A selection by the script. *)
LEMMA LoweredCredits ==
    ASSUME TypeOK, NEW S \in CandidateSets, NEW x \in S
    PROVE  /\ Lowered(S, x) \in [Providers -> Int]
           /\ \A p \in S : Raised(S)[p] = cw[S][p] + weight[p]
           /\ \A p \in S \ {x} : Lowered(S, x)[p] = cw[S][p] + weight[p]
           /\ Lowered(S, x)[x] = cw[S][x] + weight[x] - Total(S)
<1>1. S \subseteq Providers
  BY CandidatesFinite
<1>2. Total(S) \in Nat
  BY WeightTotals DEF TypeOK
<1>3. cw[S] \in [Providers -> Int] /\ weight \in [Providers -> Nat]
  BY DEF TypeOK
<1> QED BY <1>1, <1>2, <1>3 DEF Lowered, Raised

LEMMA LoweredZeroSum ==
    ASSUME TypeOK, Credits, NEW S \in CandidateSets, NEW x \in S
    PROVE  ZeroSum(Lowered(S, x), S)
<1>1. /\ IsFiniteSet(S) /\ ZeroSum(cw[S], S)
      /\ \A p \in S : cw[S][p] \in Int /\ weight[p] \in Nat
  BY CandidatesFinite DEF TypeOK, Credits
<1>2. /\ \A p \in S \ {x} : Lowered(S, x)[p] = cw[S][p] + weight[p]
      /\ Lowered(S, x)[x] = cw[S][x] + weight[x] - Sum(weight, S)
  BY LoweredCredits DEF Total
<1> QED BY <1>1, <1>2, ZeroSumKept

LEMMA WinnerInCredit ==
    ASSUME TypeOK, Credits, NEW S \in CandidateSets, NEW x \in S,
           Wins(S, x), Total(S) > 0
    PROVE  /\ cw[S][x] + weight[x] > 0
           /\ \A p \in S : cw[S][p] + weight[p] <= cw[S][x] + weight[x]
<1>1. /\ IsFiniteSet(S) /\ ZeroSum(cw[S], S)
      /\ \A p \in S : cw[S][p] \in Int /\ weight[p] \in Nat
  BY CandidatesFinite DEF TypeOK, Credits
<1>2. PICK y \in S : cw[S][y] + weight[y] > 0
  BY <1>1, SomeoneInCredit DEF Total
<1>3. \A p \in S : Raised(S)[p] = cw[S][p] + weight[p]
  BY LoweredCredits
<1>4. \A p \in S : Raised(S)[p] <= Raised(S)[x]
  BY <1>1, <1>3 DEF Wins, Beats
<1> QED BY <1>1, <1>2, <1>3, <1>4

LEMMA WithinKept ==
    ASSUME TypeOK, Credits, NEW S \in CandidateSets, NEW x \in S,
           Wins(S, x), Total(S) > 0, Within(S, cw[S], Total(S))
    PROVE  Within(S, Lowered(S, x), Total(S))
<1> DEFINE n == Cardinality(S)
           t == Total(S)
           c == cw[S]
           d == Lowered(S, x)
<1>1. /\ IsFiniteSet(S) /\ n \in Nat \ {0} /\ ZeroSum(c, S)
      /\ \A p \in S : c[p] \in Int /\ weight[p] \in Nat
  BY CandidatesFinite DEF TypeOK, Credits
<1>2. t \in Nat /\ \A p \in S : weight[p] <= t
  BY WeightTotals DEF TypeOK
<1>3. /\ c[x] + weight[x] > 0
      /\ \A p \in S : c[p] + weight[p] <= c[x] + weight[x]
  BY WinnerInCredit
<1>4. /\ \A p \in S \ {x} : d[p] = c[p] + weight[p]
      /\ d[x] = c[x] + weight[x] - t
  BY LoweredCredits
<1>5. \A p \in S : /\ c[p] > -t
                   /\ 2 * c[p] <= (n - 1) * t
                   /\ n - 1 <= 2 => c[p] < t
  BY DEF Within
<1>6. (n - 1) * t \in Int
  BY <1>1, <1>2
<1>7. ASSUME NEW y \in S, y # x
      PROVE  /\ 2 * (c[y] + weight[y]) <= (n - 1) * t
             /\ n - 1 <= 2 => c[y] + weight[y] < t
  <2>1. \A p \in S : c[p] > -Sum(weight, S)
    BY <1>5 DEF Total
  <2>2. Sum(weight, S) > 0
    BY DEF Total
  <2>3. c[y] + weight[y] <= c[x] + weight[x]
    BY <1>3
  <2> HIDE DEF c, d
  <2> QED BY <1>1, <1>7, <2>1, <2>2, <2>3, LoserBound DEF Total
<1> HIDE DEF n, t, c, d
<1>8. ASSUME NEW y \in S
      PROVE  /\ d[y] > -t
             /\ 2 * d[y] <= (n - 1) * t
             /\ n - 1 <= 2 => d[y] < t
  <2>1. CASE y = x
    <3>1. weight[x] <= t /\ weight[x] \in Nat /\ c[x] \in Int
      BY <1>1, <1>2
    <3>2. d[x] > -t /\ d[x] <= c[x] /\ d[x] \in Int
      BY <1>2, <1>3, <1>4, <3>1
    <3> QED BY <1>1, <1>2, <1>5, <1>6, <2>1, <3>1, <3>2
  <2>2. CASE y # x
    <3>1. d[y] = c[y] + weight[y]
      BY <1>4, <2>2
    <3>2. d[y] > -t
      BY <1>1, <1>2, <1>5, <3>1
    <3> QED BY <1>7, <2>2, <3>1, <3>2
  <2> QED BY <2>1, <2>2
<1> QED BY <1>8 DEF Within, n, t, d

LEMMA OneMore ==
    ASSUME NEW a \in Nat, NEW b \in Nat
    PROVE  (a + 1) * b = a * b + b /\ a * b \in Int
OBVIOUS

LEMMA PickShares ==
    ASSUME TypeOK, NEW S \in CandidateSets, NEW x \in S,
           picks' = [picks EXCEPT ![S][x] = @ + 1],
           cw' = [cw EXCEPT ![S] = Lowered(S, x)],
           \A p \in S : cw[S][p] = Count(S) * weight[p] - picks[S][p] * Total(S)
    PROVE  \A p \in S : cw'[S][p] =
                             Sum(picks'[S], S) * weight[p] - picks'[S][p] * Total(S)
<1> DEFINE t == Total(S)
           m == Count(S)
<1>1. IsFiniteSet(S) /\ S \subseteq Providers
  BY CandidatesFinite
<1>2. t \in Nat /\ m \in Nat /\ \A p \in S : weight[p] \in Nat /\ picks[S][p] \in Nat
  BY WeightTotals, PickCounts DEF TypeOK
<1>3. /\ picks'[S][x] = picks[S][x] + 1
      /\ \A p \in S \ {x} : picks'[S][p] = picks[S][p]
  BY <1>1 DEF TypeOK
<1>4. \A p \in S : picks'[S][p] \in Nat
  BY <1>2, <1>3
<1>5. Sum(picks'[S], S) = Sum(picks[S], S) - picks[S][x] + picks'[S][x]
  <2> DEFINE f == picks[S]
             g == picks'[S]
  <2>1. \A p \in S : f[p] \in Nat /\ g[p] \in Nat
    BY <1>2, <1>4
  <2>2. \A p \in S \ {x} : g[p] = f[p]
    BY <1>3
  <2> HIDE DEF f, g
  <2>3. Sum(g, S) = Sum(f, S) - f[x] + g[x]
    BY <1>1, <2>1, <2>2, SumUpdate
  <2> QED BY <2>3 DEF f, g
<1>6. Sum(picks'[S], S) = m + 1
  <2>1. Count(S) = Sum(picks[S], S)
    BY DEF Count
  <2> QED BY <1>2, <1>3, <1>5, <2>1
<1>7. /\ \A p \in S \ {x} : cw'[S][p] = cw[S][p] + weight[p]
      /\ cw'[S][x] = cw[S][x] + weight[x] - t
  <2>1. cw'[S] = Lowered(S, x)
    BY DEF TypeOK
  <2> QED BY <2>1, LoweredCredits
<1> HIDE DEF t, m
<1>8. \A p \in S : cw[S][p] = m * weight[p] - picks[S][p] * t
  BY DEF t, m
<1>9. ASSUME NEW p \in S PROVE cw'[S][p] = (m + 1) * weight[p] - picks'[S][p] * t
  <2>1. (m + 1) * weight[p] = m * weight[p] + weight[p] /\ m * weight[p] \in Int
    BY <1>2, OneMore
  <2>2. (picks[S][p] + 1) * t = picks[S][p] * t + t /\ picks[S][p] * t \in Int
    BY <1>2
  <2>3. CASE p = x
    BY <1>2, <1>3, <1>7, <1>8, <2>1, <2>2, <2>3
  <2>4. CASE p # x
    BY <1>2, <1>3, <1>7, <1>8, <2>1, <2>2, <2>4
  <2> QED BY <2>3, <2>4
<1> QED BY <1>6, <1>9 DEF t

(* A turn of the rotation. *)
LEMMA RotationTurn ==
    ASSUME TypeOK, NEW S \in CandidateSets, NEW x \in S, rank' = rank,
           RoundRobin(S, x), picks' = [picks EXCEPT ![S][x] = @ + 1],
           Even(S)
    PROVE  Even(S)'
<1> DEFINE n == Cardinality(S)
           c == counter[S]
           t == Turn(S)
           u == IF t = n - 1 THEN 0 ELSE t + 1
           W(p) == Until(Pos(S, p), t, n)
           V(p) == Until(Pos(S, p), u, n)
<1>1. IsFiniteSet(S) /\ S \subseteq Providers /\ n \in Nat \ {0}
  BY CandidatesFinite
<1>2. c \in Nat /\ c < MaxCounter /\ MaxCounter \in Nat \ {0} /\ wraps[S] \in Nat
  BY BalancingAssumption DEF TypeOK
<1>3. t \in 0 .. n - 1 /\ (c + 1) % n = u
  BY <1>1, <1>2, NextRemainder DEF Turn
<1>4. /\ \A p \in S : Pos(S, p) \in 0 .. n - 1
      /\ \A p, q \in S : Pos(S, p) = Pos(S, q) => p = q
  BY Positions DEF TypeOK
<1>5. Pos(S, x) = t
  BY DEF RoundRobin, Pos, Turn, SetKey
<1>6. \A p \in S : picks[S][p] \in Nat
  BY PickCounts DEF TypeOK
<1>7. /\ picks'[S][x] = picks[S][x] + 1
      /\ \A p \in S \ {x} : picks'[S][p] = picks[S][p]
  BY <1>1 DEF TypeOK
<1>8. counter'[S] = (c + 1) % MaxCounter
  BY DEF RoundRobin, SetKey, TypeOK
<1> HIDE DEF n, c, t, u
<1>9. \A p \in S : /\ W(p) \in 0 .. n - 1 /\ V(p) \in Int
                   /\ p = x => W(p) = 0 /\ V(p) = n - 1
                   /\ p # x => W(p) > 0 /\ V(p) = W(p) - 1
  <2> SUFFICES ASSUME NEW p \in S
               PROVE  /\ W(p) \in 0 .. n - 1 /\ V(p) \in Int
                      /\ p = x => W(p) = 0 /\ V(p) = n - 1
                      /\ p # x => W(p) > 0 /\ V(p) = W(p) - 1
    OBVIOUS
  <2>1. Pos(S, p) \in 0 .. n - 1 /\ (p = x <=> Pos(S, p) = t)
    BY <1>4, <1>5
  <2>2. /\ W(p) \in 0 .. n - 1
        /\ Pos(S, p) = t => W(p) = 0 /\ V(p) = n - 1
        /\ Pos(S, p) # t => W(p) > 0 /\ V(p) = W(p) - 1
    BY <1>1, <1>3, <2>1, TurnPasses DEF u
  <2> QED BY <1>1, <2>1, <2>2
<1>10. \A p, q \in S : picks[S][p] - picks[S][q] <=
                           wraps[S] + IF W(p) > W(q) THEN 1 ELSE 0
  BY DEF Even, Wait, n, t
<1> HIDE DEF W, V
<1>11. CASE c + 1 = MaxCounter
  <2>1. wraps'[S] = wraps[S] + 1
    BY <1>11 DEF RoundRobin, SetKey, TypeOK, c
  <2>2. \A p, q \in S : picks'[S][p] - picks'[S][q] <= wraps'[S]
    <3> SUFFICES ASSUME NEW p \in S, NEW q \in S
                 PROVE  picks'[S][p] - picks'[S][q] <= wraps'[S]
      OBVIOUS
    <3>1. CASE p = x
      BY <1>2, <1>6, <1>7, <1>9, <1>10, <2>1, <3>1
    <3>2. CASE p # x
      BY <1>2, <1>6, <1>7, <1>9, <1>10, <2>1, <3>2
    <3> QED BY <3>1, <3>2
  <2>3. wraps'[S] \in Nat /\ \A p \in S : picks'[S][p] \in Nat
    BY <1>2, <1>6, <1>7, <2>1
  <2> QED BY <2>2, <2>3 DEF Even
<1>12. CASE c + 1 # MaxCounter
  <2>1. wraps'[S] = wraps[S]
    BY <1>12 DEF RoundRobin, SetKey, TypeOK, c
  <2>2. counter'[S] = c + 1
    BY <1>2, <1>8, <1>12
  <2>3. \A p \in S : Wait(S, p)' = V(p)
    BY <1>3, <2>2 DEF Wait, Pos, Before, Turn, V, n
  <2>4. \A p, q \in S : picks'[S][p] - picks'[S][q] <=
                            wraps[S] + IF V(p) > V(q) THEN 1 ELSE 0
    <3> SUFFICES ASSUME NEW p \in S, NEW q \in S
                 PROVE  picks'[S][p] - picks'[S][q] <=
                            wraps[S] + IF V(p) > V(q) THEN 1 ELSE 0
      OBVIOUS
    <3>1. CASE p = x /\ q = x
      BY <1>2, <1>6, <1>7, <3>1
    <3>2. CASE p = x /\ q # x
      BY <1>1, <1>2, <1>6, <1>7, <1>9, <1>10, <3>2
    <3>3. CASE p # x /\ q = x
      BY <1>2, <1>6, <1>7, <1>9, <1>10, <3>3
    <3>4. CASE p # x /\ q # x
      BY <1>2, <1>6, <1>7, <1>9, <1>10, <3>4
    <3> QED BY <3>1, <3>2, <3>3, <3>4
  <2> QED BY <2>1, <2>3, <2>4 DEF Even
<1> QED BY <1>11, <1>12

-----------------------------------------------------------------------------
(* What a step leaves alone keeps its part of the invariant. *)
LEMMA EvenKept ==
    ASSUME NEW S, Even(S), rank' = rank, counter'[S] = counter[S],
           picks'[S] = picks[S], wraps'[S] = wraps[S]
    PROVE  Even(S)'
BY DEF Even, Wait, Pos, Before, Turn

LEMMA EvenFresh ==
    ASSUME NEW S, \A p \in S : picks'[S][p] = 0, wraps'[S] = 0
    PROVE  Even(S)'
BY DEF Even

LEMMA OwedKept ==
    ASSUME NEW S, NEW c, NEW f, NEW w, NEW v, \A p \in S : v[p] = w[p],
           Owed(S, c, f, w)
    PROVE  Owed(S, c, f, v)
<1>1. Sum(v, S) = Sum(w, S)
  BY SumSame
<1> QED BY <1>1 DEF Owed

LEMMA RotationStays ==
    ASSUME Rotation, UNCHANGED <<strategy, rank, counter, picks, wraps>>
    PROVE  Rotation'
BY EvenKept DEF Rotation

LEMMA SharesStay ==
    ASSUME Shares, UNCHANGED <<strategy, weight, cw, picks>>, steady' \subseteq steady
    PROVE  Shares'
BY DEF Shares

LEMMA CreditsKept ==
    ASSUME TypeOK, Credits, NEW S \in CandidateSets, NEW x \in S,
           cw' = [cw EXCEPT ![S] = Lowered(S, x)]
    PROVE  Credits' /\ cw' \in [CandidateSets -> [Providers -> Int]]
<1>1. Lowered(S, x) \in [Providers -> Int] /\ ZeroSum(Lowered(S, x), S)
  BY LoweredCredits, LoweredZeroSum
<1>2. cw' \in [CandidateSets -> [Providers -> Int]]
  BY <1>1 DEF TypeOK
<1>3. ASSUME NEW T \in CandidateSets PROVE ZeroSum(cw'[T], T)
  <2>1. CASE T = S
    BY <1>1, <2>1 DEF TypeOK
  <2>2. CASE T # S
    <3>1. cw'[T] = cw[T]
      BY <2>2 DEF TypeOK
    <3> QED BY <3>1 DEF Credits
  <2> QED BY <2>1, <2>2
<1> QED BY <1>2, <1>3 DEF Credits

-----------------------------------------------------------------------------
LEMMA SelectRoundRobin ==
    ASSUME IInv, NEW S \in CandidateSets, NEW x \in S, Select(S, x),
           strategy = "ROUND_ROBIN"
    PROVE  IInv'
<1>1. /\ RoundRobin(S, x) /\ picks' = [picks EXCEPT ![S][x] = @ + 1]
      /\ UNCHANGED <<strategy, weight, rank, steady>>
  BY DEF Select, NotePick
<1>2. TypeOK
  BY DEF IInv
<1>3. S \subseteq Providers /\ MaxCounter \in Nat \ {0}
  BY CandidatesFinite, BalancingAssumption
<1>4. TypeOK'
  <2>1. counter[S] \in Nat
    BY <1>2 DEF TypeOK
  <2>2. (counter[S] + 1) % MaxCounter \in 0 .. MaxCounter - 1
    BY <1>3, <2>1
  <2>3. counter' \in [CandidateSets -> 0 .. MaxCounter - 1]
    BY <1>1, <1>2, <2>2 DEF TypeOK, RoundRobin, SetKey
  <2>4. picks' \in [CandidateSets -> [Providers -> Nat]]
    BY <1>1, <1>2, <1>3 DEF TypeOK
  <2>5. wraps' \in [CandidateSets -> Nat]
    BY <1>1, <1>2 DEF TypeOK, RoundRobin
  <2> QED BY <1>1, <1>2, <2>3, <2>4, <2>5 DEF TypeOK, RoundRobin, Ranks
<1>5. Rotation'
  <2>1. ASSUME NEW T \in CandidateSets PROVE Even(T)'
    <3>1. Even(T)
      BY DEF IInv, Rotation
    <3>2. CASE T = S
      BY <1>1, <1>2, <3>1, <3>2, RotationTurn
    <3>3. CASE T # S
      <4>1. counter'[T] = counter[T] /\ picks'[T] = picks[T] /\ wraps'[T] = wraps[T]
        BY <1>1, <1>2, <3>3 DEF RoundRobin, SetKey, TypeOK
      <4> QED BY <1>1, <3>1, <4>1, EvenKept
    <3> QED BY <3>2, <3>3
  <2> QED BY <2>1 DEF Rotation
<1>6. Credits' /\ Shares'
  BY <1>1 DEF RoundRobin, IInv, Credits, Shares
<1> QED BY <1>4, <1>5, <1>6 DEF IInv

LEMMA SelectSmoothWrr ==
    ASSUME IInv, NEW S \in CandidateSets, NEW x \in S, Select(S, x),
           strategy = "WEIGHTED_ROUND_ROBIN"
    PROVE  IInv'
<1>1. /\ Wins(S, x) /\ cw' = [cw EXCEPT ![S] = Lowered(S, x)]
      /\ picks' = [picks EXCEPT ![S][x] = @ + 1]
      /\ UNCHANGED <<strategy, weight, rank, steady, counter, ema, wraps>>
  BY DEF Select, NotePick, SmoothWrr
<1>2. TypeOK /\ Credits /\ Shares
  BY DEF IInv
<1>3. S \subseteq Providers
  BY CandidatesFinite
<1>4. Credits' /\ cw' \in [CandidateSets -> [Providers -> Int]]
  BY <1>1, <1>2, CreditsKept
<1>5. TypeOK'
  <2>1. picks' \in [CandidateSets -> [Providers -> Nat]]
    BY <1>1, <1>2, <1>3 DEF TypeOK
  <2> QED BY <1>1, <1>2, <1>4, <2>1 DEF TypeOK, Ranks
<1>6. Rotation'
  BY <1>1 DEF Rotation
<1>7. ASSUME NEW T \in steady PROVE Owed(T, cw'[T], picks'[T], weight)
  <2>1. Owed(T, cw[T], picks[T], weight) /\ T \in CandidateSets
    BY <1>2 DEF Shares, TypeOK
  <2>2. CASE T # S
    <3>1. cw'[T] = cw[T] /\ picks'[T] = picks[T]
      BY <1>1, <1>2, <2>1, <2>2 DEF TypeOK
    <3> QED BY <2>1, <3>1
  <2>3. CASE T = S
    <3>1. \A p \in S : cw[S][p] = Count(S) * weight[p] - picks[S][p] * Total(S)
      BY <2>1, <2>3 DEF Owed, Count, Total
    <3>2. \A p \in S : cw'[S][p] =
                           Sum(picks'[S], S) * weight[p] - picks'[S][p] * Total(S)
      BY <1>1, <1>2, <3>1, PickShares
    <3>3. ASSUME Total(S) > 0 PROVE Within(S, cw'[S], Total(S))
      <4>1. Within(S, cw[S], Total(S))
        BY <2>1, <2>3, <3>3 DEF Owed, Total
      <4>2. cw'[S] = Lowered(S, x)
        BY <1>1, <1>2 DEF TypeOK
      <4> QED BY <1>1, <1>2, <3>3, <4>1, <4>2, WithinKept
    <3> QED BY <2>3, <3>2, <3>3 DEF Owed, Total
  <2> QED BY <2>2, <2>3
<1>8. Shares'
  BY <1>1, <1>7 DEF Shares
<1> QED BY <1>4, <1>5, <1>6, <1>8 DEF IInv

LEMMA SelectStep ==
    ASSUME IInv, NEW S \in CandidateSets, NEW x \in S, Select(S, x)
    PROVE  IInv'
<1>0. strategy \in {"ROUND_ROBIN", "WEIGHTED_ROUND_ROBIN", "LATENCY_BASED", "RANDOM"}
  BY BalancingAssumption DEF IInv, TypeOK
<1>1. CASE strategy \in {"LATENCY_BASED", "RANDOM"}
  <2>1. UNCHANGED <<strategy, weight, rank, counter, cw, ema, picks, wraps, steady>>
    BY <1>1 DEF Select, NotePick, LatencyBased, CryptoPick
  <2>2. TypeOK' /\ Credits'
    BY <2>1 DEF IInv, TypeOK, Ranks, Credits
  <2>3. Rotation' /\ Shares'
    BY <2>1, RotationStays, SharesStay DEF IInv
  <2> QED BY <2>2, <2>3 DEF IInv
<1> QED BY <1>0, <1>1, SelectRoundRobin, SelectSmoothWrr

LEMMA SelectDegradedStep ==
    ASSUME IInv, NEW S \in CandidateSets, NEW x \in S, SelectDegraded(S, x)
    PROVE  IInv'
<1>1. /\ UNCHANGED <<strategy, weight, rank, counter, ema, picks, wraps>>
      /\ steady' \subseteq steady
  BY DEF SelectDegraded, WeightedRandom, CryptoPick
<1>2. TypeOK /\ Rotation /\ Credits /\ Shares
  BY DEF IInv
<1>3. Rotation'
  BY <1>1, <1>2, RotationStays
<1>4. CASE UNCHANGED cw
  <2>1. TypeOK' /\ Credits'
    BY <1>1, <1>2, <1>4 DEF TypeOK, Ranks, Credits
  <2>2. Shares'
    BY <1>1, <1>2, <1>4, SharesStay
  <2> QED BY <1>3, <2>1, <2>2 DEF IInv
<1>5. CASE ~UNCHANGED cw
  <2>1. /\ \E w \in S : cw' = [cw EXCEPT ![S] = Lowered(S, w)]
        /\ steady' = steady \ {S}
    BY <1>5 DEF SelectDegraded, CryptoPick
  <2>2. PICK w \in S : cw' = [cw EXCEPT ![S] = Lowered(S, w)]
    BY <2>1
  <2>3. Credits' /\ cw' \in [CandidateSets -> [Providers -> Int]]
    BY <1>2, <2>2, CreditsKept
  <2>4. TypeOK'
    BY <1>1, <1>2, <2>3 DEF TypeOK, Ranks
  <2>5. \A T \in steady' : T \in steady /\ cw'[T] = cw[T]
    BY <1>2, <2>1, <2>2 DEF TypeOK
  <2>6. Shares'
    BY <1>1, <1>2, <2>5 DEF Shares
  <2> QED BY <1>3, <2>3, <2>4, <2>6 DEF IInv
<1> QED BY <1>4, <1>5

(* Latency samples and their expiry. *)
LEMMA EmaStep ==
    ASSUME IInv, NEW p \in Providers,
           \/ \E sample \in Samples \cup {Penalty} : Record(p, sample)
           \/ EmaExpires(p) \/ NoSample(p)
    PROVE  IInv'
<1>1. UNCHANGED <<strategy, weight, rank, counter, cw, picks, wraps, steady>>
  BY DEF Record, EmaExpires, NoSample, history
<1>2. TypeOK /\ Rotation /\ Credits /\ Shares
  BY DEF IInv
<1>3. ema' \in [Providers -> Nat \cup {Absent}]
  <2>1. ASSUME NEW sample \in Samples \cup {Penalty}, Record(p, sample)
        PROVE  ema' \in [Providers -> Nat \cup {Absent}]
    <3>1. sample \in Nat
      BY BalancingAssumption
    <3>2. ASSUME ema[p] # Absent PROVE (sample + ema[p]) \div 2 \in Nat
      BY <1>2, <3>1, <3>2 DEF TypeOK
    <3> QED BY <1>2, <2>1, <3>1, <3>2 DEF Record, UpdateEma, TypeOK
  <2>2. CASE EmaExpires(p) \/ NoSample(p)
    BY <1>2, <2>2 DEF TypeOK, EmaExpires, NoSample
  <2> QED BY <2>1, <2>2
<1>4. TypeOK' /\ Credits'
  BY <1>1, <1>2, <1>3 DEF TypeOK, Ranks, Credits, Absent
<1>5. Rotation' /\ Shares'
  BY <1>1, <1>2, RotationStays, SharesStay
<1> QED BY <1>4, <1>5 DEF IInv

(* Rotations that start over. *)
LEMMA StartOverHistory ==
    ASSUME TypeOK, NEW sets, StartOver(sets)
    PROVE  /\ picks' \in [CandidateSets -> [Providers -> Nat]]
           /\ wraps' \in [CandidateSets -> Nat]
           /\ \A S \in CandidateSets :
                S \in sets => wraps'[S] = 0 /\ \A p \in S : picks'[S][p] = 0
           /\ \A S \in CandidateSets :
                S \notin sets => wraps'[S] = wraps[S] /\ picks'[S] = picks[S]
<1>1. \A S \in CandidateSets : S \subseteq Providers
  BY CandidatesFinite
<1> QED BY <1>1 DEF StartOver, TypeOK, ZeroHash

LEMMA HashExpiresStep ==
    ASSUME IInv, NEW S \in CandidateSets, HashExpires(S)
    PROVE  IInv'
<1>1. /\ strategy = "WEIGHTED_ROUND_ROBIN"
      /\ cw' = [cw EXCEPT ![S] = ZeroHash] /\ steady' = steady \cup {S}
      /\ UNCHANGED <<strategy, weight, rank, counter, ema>>
      /\ StartOver({S})
  BY DEF HashExpires
<1>2. TypeOK /\ Credits /\ Shares
  BY DEF IInv
<1>3. S \subseteq Providers /\ IsFiniteSet(S)
  BY CandidatesFinite
<1>4. cw' \in [CandidateSets -> [Providers -> Int]]
  BY <1>1, <1>2 DEF TypeOK, ZeroHash
<1>5. TypeOK'
  BY <1>1, <1>2, <1>4, StartOverHistory DEF TypeOK, Ranks
<1>6. \A p \in S : cw'[S][p] = 0
  BY <1>1, <1>2, <1>3 DEF TypeOK, ZeroHash
<1>7. \A T \in CandidateSets : T # S => cw'[T] = cw[T]
  BY <1>1, <1>2 DEF TypeOK
<1>8. ZeroSum(cw'[S], S)
  BY <1>3, <1>6, ZeroIsZeroSum
<1>9. Credits'
  BY <1>2, <1>7, <1>8 DEF Credits
<1>10. ASSUME NEW T \in steady' PROVE Owed(T, cw'[T], picks'[T], weight)
  <2>1. T \in CandidateSets
    BY <1>5 DEF TypeOK
  <2>2. CASE T = S
    <3>1. \A p \in S : picks'[S][p] = 0 /\ weight[p] \in Nat
      BY <1>1, <1>2, <1>3, StartOverHistory DEF TypeOK
    <3> QED BY <1>6, <2>2, <3>1, FreshShares
  <2>3. CASE T # S
    <3>1. picks'[T] = picks[T] /\ cw'[T] = cw[T] /\ T \in steady
      BY <1>1, <1>2, <1>7, <2>1, <2>3, StartOverHistory
    <3> QED BY <1>1, <1>2, <3>1 DEF Shares
  <2> QED BY <2>2, <2>3
<1>11. Rotation' /\ Shares'
  BY <1>1, <1>10 DEF Rotation, Shares
<1> QED BY <1>5, <1>9, <1>11 DEF IInv

LEMMA RestartStep ==
    ASSUME IInv, Restart
    PROVE  IInv'
<1>1. TypeOK /\ Credits
  BY DEF IInv
<1>2. counter' \in [CandidateSets -> 0 .. MaxCounter - 1]
  BY BalancingAssumption DEF Restart
<1>3. TypeOK'
  BY <1>1, <1>2, StartOverHistory DEF Restart, TypeOK, Ranks
<1>4. \A S \in CandidateSets : Even(S)'
  BY <1>1, StartOverHistory, EvenFresh DEF Restart
<1>5. Rotation'
  BY <1>4 DEF Rotation
<1>6. Credits' /\ Shares'
  BY <1>1 DEF Restart, Credits, Shares
<1> QED BY <1>3, <1>5, <1>6 DEF IInv

(* Edits by an operator. *)
LEMMA SetWeightStep ==
    ASSUME IInv, NEW p \in Providers, NEW w \in Weights, SetWeight(p, w)
    PROVE  IInv'
<1> DEFINE sets == {S \in CandidateSets : p \in S}
<1>1. /\ weight' = [weight EXCEPT ![p] = w]
      /\ steady' = {S \in steady : p \notin S \/ cw[S] = ZeroHash}
      /\ UNCHANGED <<strategy, rank, counter, cw, ema>>
      /\ StartOver(sets)
  BY DEF SetWeight, state
<1>2. TypeOK /\ Rotation /\ Credits /\ Shares
  BY DEF IInv
<1>3. weight' \in [Providers -> Nat]
  BY <1>1, <1>2, BalancingAssumption DEF TypeOK
<1> HIDE DEF sets
<1>4. TypeOK'
  BY <1>1, <1>2, <1>3, StartOverHistory DEF TypeOK, Ranks
<1>5. ASSUME NEW S \in CandidateSets, Even(S) PROVE Even(S)'
  <2>1. CASE S \in sets
    BY <1>1, <1>2, <2>1, StartOverHistory, EvenFresh
  <2>2. CASE S \notin sets
    BY <1>1, <1>2, <1>5, <2>2, StartOverHistory, EvenKept
  <2> QED BY <2>1, <2>2
<1>6. Rotation'
  BY <1>1, <1>2, <1>5 DEF Rotation
<1>7. Credits'
  BY <1>1, <1>2 DEF Credits
<1>8. ASSUME NEW S \in steady', strategy = "WEIGHTED_ROUND_ROBIN"
      PROVE  Owed(S, cw[S], picks'[S], weight')
  <2>1. S \in CandidateSets /\ S \subseteq Providers /\ S \in steady
    BY <1>1, <1>4, CandidatesFinite DEF TypeOK
  <2>2. CASE p \in S
    <3>1. \A q \in S : cw[S][q] = 0
      BY <1>1, <2>1, <2>2 DEF ZeroHash
    <3>2. \A q \in S : picks'[S][q] = 0
      BY <1>1, <1>2, <2>1, <2>2, StartOverHistory DEF sets
    <3>3. \A q \in S : weight'[q] \in Nat
      BY <1>3, <2>1
    <3> QED BY <2>1, <3>1, <3>2, <3>3, FreshShares
  <2>3. CASE p \notin S
    <3>1. picks'[S] = picks[S]
      BY <1>1, <1>2, <2>1, <2>3, StartOverHistory DEF sets
    <3>2. \A q \in S : weight'[q] = weight[q]
      BY <1>1, <1>2, <2>1, <2>3 DEF TypeOK
    <3>3. Owed(S, cw[S], picks[S], weight)
      BY <1>2, <1>8, <2>1 DEF Shares
    <3>4. Owed(S, cw[S], picks[S], weight')
      BY <3>2, <3>3, OwedKept
    <3> QED BY <3>1, <3>4
  <2> QED BY <2>2, <2>3
<1>9. Shares'
  BY <1>1, <1>8 DEF Shares
<1> QED BY <1>4, <1>6, <1>7, <1>9 DEF IInv

LEMMA SetPriorityStep ==
    ASSUME IInv, NEW r \in Ranks, SetPriority(r)
    PROVE  IInv'
<1>1. /\ rank' = r /\ steady' = {S \in steady : cw[S] = ZeroHash}
      /\ UNCHANGED <<strategy, weight, counter, cw, ema>>
      /\ StartOver(CandidateSets)
  BY DEF SetPriority, state
<1>2. TypeOK /\ Rotation /\ Credits
  BY DEF IInv
<1>3. TypeOK'
  BY <1>1, <1>2, StartOverHistory DEF TypeOK, Ranks
<1>4. \A S \in CandidateSets : Even(S)'
  BY <1>1, <1>2, StartOverHistory, EvenFresh
<1>5. Rotation'
  BY <1>4 DEF Rotation
<1>6. Credits'
  BY <1>1, <1>2 DEF Credits
<1>7. ASSUME NEW S \in steady' PROVE Owed(S, cw[S], picks'[S], weight)
  <2>1. S \in CandidateSets /\ S \subseteq Providers /\ cw[S] = ZeroHash
    BY <1>1, <1>3, CandidatesFinite DEF TypeOK
  <2>2. \A q \in S : cw[S][q] = 0 /\ picks'[S][q] = 0 /\ weight[q] \in Nat
    BY <1>1, <1>2, <2>1, StartOverHistory DEF ZeroHash, TypeOK
  <2> QED BY <2>1, <2>2, FreshShares
<1>8. Shares'
  BY <1>1, <1>7 DEF Shares
<1> QED BY <1>3, <1>5, <1>6, <1>8 DEF IInv

LEMMA InvNext == IInv /\ [Next]_vars => IInv'
<1> SUFFICES ASSUME IInv, [Next]_vars PROVE IInv'
  OBVIOUS
<1>1. CASE UNCHANGED vars
  <2>1. UNCHANGED <<strategy, weight, rank, counter, cw, ema, picks, wraps, steady>>
    BY <1>1 DEF vars
  <2>2. TypeOK' /\ Credits'
    BY <2>1 DEF IInv, TypeOK, Ranks, Credits
  <2>3. Rotation' /\ Shares'
    BY <2>1, RotationStays, SharesStay DEF IInv
  <2> QED BY <2>2, <2>3 DEF IInv
<1>2. ASSUME NEW S \in CandidateSets, NEW p \in S, Select(S, p) PROVE IInv'
  BY <1>2, SelectStep
<1>3. ASSUME NEW S \in CandidateSets, NEW p \in S, SelectDegraded(S, p) PROVE IInv'
  BY <1>3, SelectDegradedStep
<1>4. ASSUME NEW p \in Providers, NEW sample \in Samples \cup {Penalty},
             Record(p, sample)
      PROVE  IInv'
  BY <1>4, EmaStep
<1>5. ASSUME NEW S \in CandidateSets, HashExpires(S) PROVE IInv'
  BY <1>5, HashExpiresStep
<1>6. ASSUME NEW p \in Providers, EmaExpires(p) \/ NoSample(p) PROVE IInv'
  BY <1>6, EmaStep
<1>7. CASE Restart
  BY <1>7, RestartStep
<1>8. ASSUME NEW p \in Providers, NEW w \in Weights, SetWeight(p, w) PROVE IInv'
  BY <1>8, SetWeightStep
<1>9. ASSUME NEW r \in Ranks, SetPriority(r) PROVE IInv'
  BY <1>9, SetPriorityStep
<1> QED BY <1>1, <1>2, <1>3, <1>4, <1>5, <1>6, <1>7, <1>8, <1>9 DEF Next

(* The invariant holds in every state of every behaviour. *)
LEMMA Invariant == Spec => []IInv
BY InvInit, InvNext, PTL DEF Spec

-----------------------------------------------------------------------------
(* Weights stay natural numbers, counters below their limit, and every set  *)
(* of candidates keeps state of its own (RoundRobinStrategy,                *)
(* SMOOTH_WRR_LUA, EMA_UPDATE_LUA).                                         *)
THEOREM TypesHold == Spec => []TypeOK
<1>1. IInv => TypeOK
  BY DEF IInv
<1> QED BY Invariant, <1>1, PTL

(* RoundRobinStrategy.select is even for any number of candidates, however  *)
(* the selections from their sets interleave: the counter's wrap at         *)
(* MAX_SAFE_INTEGER is the only thing that adds to the difference.          *)
THEOREM RotationIsEven == Spec => []RotationEven
<1>1. ASSUME IInv PROVE RotationEven
  <2> SUFFICES ASSUME strategy = "ROUND_ROBIN", NEW S \in CandidateSets,
                      NEW p \in S, NEW q \in S
               PROVE  picks[S][p] - picks[S][q] <= 1 + wraps[S]
    BY DEF RotationEven
  <2>1. picks[S][p] - picks[S][q] <= wraps[S] + IF Wait(S, p) > Wait(S, q) THEN 1 ELSE 0
    BY <1>1 DEF IInv, Rotation, Even
  <2>2. picks[S][p] \in Nat /\ picks[S][q] \in Nat /\ wraps[S] \in Nat
    BY <1>1, PickCounts DEF IInv, TypeOK
  <2> QED BY <2>1, <2>2
<1> QED BY Invariant, <1>1, PTL

(* The shares of SMOOTH_WRR_LUA, for any weights and any number of          *)
(* candidates and selections: nobody is a whole selection ahead, and nobody *)
(* waits for more than half a selection per other candidate.                *)
THEOREM SharesHold == Spec => []WrrShare
<1>1. ASSUME IInv PROVE WrrShare
  <2> SUFFICES ASSUME strategy = "WEIGHTED_ROUND_ROBIN", NEW S \in steady,
                      NEW p \in S, Total(S) > 0
               PROVE  LET owed == Count(S) * weight[p] - picks[S][p] * Total(S)
                          others == Cardinality(S) - 1
                      IN  /\ owed > -Total(S)
                          /\ 2 * owed <= others * Total(S)
                          /\ others <= 2 => owed < Total(S)
    BY DEF WrrShare
  <2>1. Owed(S, cw[S], picks[S], weight)
    BY <1>1 DEF IInv, Shares
  <2>2. cw[S][p] = Count(S) * weight[p] - picks[S][p] * Total(S)
    BY <2>1 DEF Owed, Count, Total
  <2>3. Within(S, cw[S], Total(S))
    BY <2>1 DEF Owed, Total
  <2> QED BY <2>2, <2>3 DEF Within
<1> QED BY Invariant, <1>1, PTL

-----------------------------------------------------------------------------
(* Candidates of weight 0. *)
LEMMA SomeoneHasWeight ==
    ASSUME weight \in [Providers -> Nat], NEW S \in CandidateSets, Total(S) > 0
    PROVE  \E q \in S : weight[q] > 0
<1> SUFFICES ASSUME \A q \in S : ~(weight[q] > 0) PROVE FALSE
  OBVIOUS
<1>1. \A q \in S : weight[q] = 0
  BY WeightTotals
<1>2. IsFiniteSet(S) /\ Cardinality(S) \in Nat
  BY CandidatesFinite
<1>3. Sum(weight, S) = 0 * Cardinality(S)
  BY <1>1, <1>2, SumOfConstant
<1> QED BY <1>2, <1>3 DEF Total

LEMMA DrainedByLatency ==
    ASSUME TypeOK, NEW S \in CandidateSets, NEW p \in S,
           weight[p] = 0, Total(S) > 0
    PROVE  ~LatencyBased(S, p)
<1>1. PICK q \in S : weight[q] > 0
  BY SomeoneHasWeight DEF TypeOK
<1>2. weight[q] \in Nat /\ p \in Providers /\ q \in Providers
  BY CandidatesFinite DEF TypeOK
<1>3. SafeEma(p) \in Nat \ {0} /\ SafeEma(q) \in Nat \ {0}
  BY <1>2, BalancingAssumption DEF SafeEma, TypeOK, Absent
<1>4. weight[p] * SafeEma(q) = 0
  BY <1>3
<1>5. weight[q] * SafeEma(p) > 0
  BY <1>1, <1>2, <1>3
<1>6. ~Beats(p, weight[p] * SafeEma(q), q, weight[q] * SafeEma(p))
  BY <1>2, <1>3, <1>4, <1>5 DEF Beats
<1> QED BY <1>6 DEF LatencyBased

LEMMA DrainedByWeight ==
    ASSUME TypeOK, NEW S \in CandidateSets, NEW p \in S,
           weight[p] = 0, Total(S) > 0
    PROVE  ~WeightedRandom(S, p)
<1> DEFINE B == Before(S, p)
           b == Total(B)
<1>1. IsFiniteSet(S) /\ S \subseteq Providers
  BY CandidatesFinite
<1>2. B \subseteq S /\ IsFiniteSet(B) /\ p \notin B
  <2>1. rank[p] \in Int
    BY <1>1 DEF TypeOK, Ranks
  <2>2. B \subseteq S /\ p \notin B
    BY <2>1 DEF Before
  <2> QED BY <1>1, <2>2, FS_Subset
<1> HIDE DEF B
<1>3. \A q \in B \cup {p} : weight[q] \in Nat
  BY <1>1, <1>2 DEF TypeOK
<1>4. b \in Nat
  BY <1>2, <1>3, SumType DEF Total
<1>5. Sum(weight, B \cup {p}) = Sum(weight, B) + weight[p]
  BY <1>2, <1>3, SumAddElement
<1>6. Total(B \cup {p}) = b
  BY <1>4, <1>5 DEF Total
<1>7. B = {} => b = 0
  BY SumEmpty DEF Total
<1> SUFFICES ASSUME WeightedRandom(S, p) PROVE FALSE
  OBVIOUS
<1>8. PICK target \in 0 .. Total(S) - 1 :
          Passes(B \cup {p}, target) /\ (B # {} => ~Passes(B, target))
  BY DEF WeightedRandom, B
<1>9. target \in Nat
  <2>1. Total(S) \in Nat
    BY WeightTotals DEF TypeOK
  <2> QED BY <2>1
<1> QED BY <1>4, <1>6, <1>7, <1>8, <1>9 DEF Passes

(* A candidate of weight 0 is left alone by LatencyBasedStrategy.select and *)
(* weightedRandom while another one has a weight, and WRR selects it only   *)
(* to use up credit it has from before: the winner of SMOOTH_WRR_LUA is in  *)
(* credit after the raise, because the credits add up to 0.                 *)
THEOREM DrainedIsIdle == Spec => DrainedIdle
<1>1. ASSUME IInv, NEW S \in CandidateSets, NEW p \in S, weight[p] = 0, Total(S) > 0
      PROVE  /\ Select(S, p) /\ strategy = "WEIGHTED_ROUND_ROBIN" => cw[S][p] > 0
             /\ ~(Select(S, p) /\ strategy = "LATENCY_BASED")
             /\ ~(SelectDegraded(S, p) /\ strategy = "WEIGHTED_ROUND_ROBIN")
  <2>1. TypeOK /\ Credits
    BY <1>1 DEF IInv
  <2>2. ASSUME Select(S, p), strategy = "WEIGHTED_ROUND_ROBIN" PROVE cw[S][p] > 0
    <3>1. Wins(S, p)
      BY <2>2 DEF Select, SmoothWrr
    <3>2. cw[S][p] + weight[p] > 0
      BY <1>1, <2>1, <3>1, WinnerInCredit
    <3>3. cw[S][p] \in Int
      BY <2>1, CandidatesFinite DEF TypeOK
    <3> QED BY <1>1, <3>2, <3>3
  <2>3. ~(Select(S, p) /\ strategy = "LATENCY_BASED")
    BY <1>1, <2>1, DrainedByLatency DEF Select
  <2>4. ~(SelectDegraded(S, p) /\ strategy = "WEIGHTED_ROUND_ROBIN")
    BY <1>1, <2>1, DrainedByWeight DEF SelectDegraded
  <2> QED BY <2>2, <2>3, <2>4
<1>2. IInv /\ [Next]_vars =>
        [\A S \in CandidateSets : \A p \in S :
            weight[p] = 0 /\ Total(S) > 0 =>
                /\ Select(S, p) /\ strategy = "WEIGHTED_ROUND_ROBIN" => cw[S][p] > 0
                /\ ~(Select(S, p) /\ strategy = "LATENCY_BASED")
                /\ ~(SelectDegraded(S, p) /\ strategy = "WEIGHTED_ROUND_ROBIN")]_vars
  BY <1>1
<1> QED BY Invariant, <1>2, PTL DEF Spec, DrainedIdle
=============================================================================
