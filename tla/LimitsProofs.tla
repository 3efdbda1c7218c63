---------------------------- MODULE LimitsProofs ----------------------------
(***************************************************************************)
(* Proofs about the two gates that limit what a key may use: the rate      *)
(* limiter, and the budget with the accounting behind it.                  *)
(***************************************************************************)
EXTENDS RateLimiter, Accounting, FiniteSetTheorems, TLAPS

-----------------------------------------------------------------------------
(***************************************************************************)
(* Proofs about RateLimiter, for every set of requests, every limit,       *)
(* window, clock skew and burst setting.                                   *)
(***************************************************************************)

LimiterTypeOK ==
    /\ rpm \subseteq log /\ tpm \subseteq log /\ burst \subseteq log
    /\ log \subseteq Ids
    /\ tpmSum \in Int
    /\ ttl \in Nat /\ now \in Nat
    /\ args \in [Ids -> [at : Int, tokens : Nat]]
    /\ admittedAt \in [Ids -> Nat]

(* No timestamp is further ahead of real time than the skew, and none of an *)
(* admitted request is behind its admission.                                *)
Clocks ==
    /\ \A i \in Ids : args[i].at <= now + MaxSkew
    /\ \A i \in log : args[i] # Unsent /\ admittedAt[i] <= args[i].at

(* The keys outlive the window of every admission. *)
KeysLive ==
    \A i \in log : admittedAt[i] <= now
                   /\ ttl + (now - admittedAt[i]) >= Window + Grace

(* What was admitted in the window is still in both sorted sets. *)
InWindow == Recent(Window - MaxSkew) \subseteq rpm \cap tpm

(* The request set never exceeds its limit; the running sum may count more  *)
(* than the token set weighs (a refused check evicts without subtracting, a *)
(* resent script adds twice), never less, and never exceeds its limit.      *)
Bounded ==
    /\ Cardinality(rpm) <= RpmLimit
    /\ Tokens(tpm, args) <= tpmSum
    /\ tpmSum <= TpmLimit

(* The inductive invariant. *)
LimiterInv == LimiterTypeOK /\ Clocks /\ KeysLive /\ InWindow /\ Bounded

-----------------------------------------------------------------------------
(* Token weights. *)
TokenSet(S, a) == UNION {TokensOf(i, a) : i \in S}

Weights == [Ids -> [at : Int, tokens : Nat]]

LEMMA OneRequestTokens ==
    ASSUME NEW a \in Weights, NEW i \in Ids
    PROVE  IsFiniteSet(TokensOf(i, a)) /\ Cardinality(TokensOf(i, a)) = a[i].tokens
<1> DEFINE N == 1 .. a[i].tokens
           f == [k \in N |-> <<i, k>>]
<1>1. a[i].tokens \in Nat
  BY DEF Weights
<1>2. IsFiniteSet(N) /\ Cardinality(N) = a[i].tokens
  <2> DEFINE n == a[i].tokens
  <2>1. n \in Nat
    BY <1>1
  <2> HIDE DEF n
  <2>2. IsFiniteSet(1 .. n) /\ Cardinality(1 .. n) = IF 1 > n THEN 0 ELSE n - 1 + 1
    BY <2>1, FS_Interval
  <2>3. Cardinality(1 .. n) = n
    BY <2>1, <2>2
  <2> QED BY <2>2, <2>3 DEF n
<1>3. f \in Bijection(N, {i} \X N)
  <2>1. f \in [N -> {i} \X N]
    OBVIOUS
  <2>2. \A k, l \in N : f[k] = f[l] => k = l
    OBVIOUS
  <2>3. \A t \in {i} \X N : \E k \in N : f[k] = t
    OBVIOUS
  <2> QED BY <2>1, <2>2, <2>3, Zenon DEF Bijection, Injection, Surjection, IsInjective
<1>4. ExistsBijection(N, {i} \X N)
  BY <1>3 DEF ExistsBijection
<1> QED BY <1>2, <1>4, FS_Bijection DEF TokensOf

LEMMA TokensFinite ==
    ASSUME NEW a \in Weights, NEW S \in SUBSET Ids
    PROVE  IsFiniteSet(TokenSet(S, a)) /\ Tokens(S, a) \in Nat
<1> DEFINE T == {TokensOf(i, a) : i \in S}
           f == [i \in S |-> TokensOf(i, a)]
<1>1. IsFiniteSet(S)
  BY RateLimiterConfig, FS_Subset
<1>2. f \in Surjection(S, T)
  BY DEF Surjection
<1>3. IsFiniteSet(T)
  BY <1>1, <1>2, FS_Surjection
<1>4. \A U \in T : IsFiniteSet(U)
  BY OneRequestTokens
<1>5. IsFiniteSet(TokenSet(S, a))
  BY <1>3, <1>4, FS_UNION DEF TokenSet
<1> QED BY <1>5, FS_CardinalityType DEF Tokens, TokenSet

LEMMA NoTokens == ASSUME NEW a PROVE Tokens({}, a) = 0
<1>1. TokenSet({}, a) = {}
  BY DEF TokenSet
<1> QED BY <1>1, FS_EmptySet DEF Tokens, TokenSet

LEMMA TokensMonotone ==
    ASSUME NEW a \in Weights, NEW S \in SUBSET Ids, NEW T \in SUBSET S
    PROVE  Tokens(T, a) <= Tokens(S, a)
<1>1. TokenSet(T, a) \subseteq TokenSet(S, a)
  BY DEF TokenSet
<1> QED BY <1>1, TokensFinite, FS_Subset DEF Tokens, TokenSet

(* The weight of a set is that of its two disjoint parts. *)
LEMMA TokensSplit ==
    ASSUME NEW a \in Weights, NEW S \in SUBSET Ids, NEW T \in SUBSET S
    PROVE  Tokens(S, a) = Tokens(T, a) + Tokens(S \ T, a)
<1>1. TokenSet(S, a) = TokenSet(T, a) \cup TokenSet(S \ T, a)
  BY DEF TokenSet
<1>2. TokenSet(T, a) \cap TokenSet(S \ T, a) = {}
  BY DEF TokenSet, TokensOf
<1>3. IsFiniteSet(TokenSet(T, a)) /\ IsFiniteSet(TokenSet(S \ T, a))
  BY TokensFinite
<1>4. /\ Tokens(S, a) = Cardinality(TokenSet(S, a))
      /\ Tokens(T, a) = Cardinality(TokenSet(T, a))
      /\ Tokens(S \ T, a) = Cardinality(TokenSet(S \ T, a))
  BY DEF Tokens, TokenSet
<1>5. ASSUME NEW X, NEW Y, IsFiniteSet(X), IsFiniteSet(Y), X \cap Y = {}
      PROVE  Cardinality(X \cup Y) = Cardinality(X) + Cardinality(Y)
  <2>1. Cardinality(X) \in Nat /\ Cardinality(Y) \in Nat
    BY <1>5, FS_CardinalityType
  <2>2. Cardinality(X \cup Y) = Cardinality(X) + Cardinality(Y) - Cardinality({})
    BY <1>5, FS_Union
  <2> QED BY <2>1, <2>2, FS_EmptySet
<1>6. Cardinality(TokenSet(T, a) \cup TokenSet(S \ T, a)) =
          Cardinality(TokenSet(T, a)) + Cardinality(TokenSet(S \ T, a))
  BY <1>2, <1>3, <1>5
<1> QED BY <1>1, <1>4, <1>6

(* A member adds at most its own weight. *)
LEMMA TokensAdd ==
    ASSUME NEW a \in Weights, NEW S \in SUBSET Ids, NEW i \in Ids,
           NEW T, T = S \cup {i}
    PROVE  Tokens(T, a) <= Tokens(S, a) + a[i].tokens
<1>1. TokenSet({i}, a) = TokensOf(i, a)
  BY DEF TokenSet
<1>2. Tokens({i}, a) = a[i].tokens
  BY <1>1, OneRequestTokens DEF Tokens, TokenSet
<1>3. Tokens(S, a) \in Nat /\ a[i].tokens \in Nat
  BY TokensFinite DEF Weights
<1>4. CASE i \in S
  <2>1. T = S
    BY <1>4
  <2>2. Tokens(T, a) = Tokens(S, a)
    BY <2>1
  <2> QED BY <1>3, <2>2
<1>5. CASE i \notin S
  <2>1. T \ {i} = S
    BY <1>5
  <2>2. Tokens(T, a) = Tokens({i}, a) + Tokens(T \ {i}, a)
    BY TokensSplit
  <2>3. Tokens(T, a) = a[i].tokens + Tokens(S, a)
    BY <1>2, <2>1, <2>2
  <2> QED BY <1>3, <2>3
<1> QED BY <1>4, <1>5

(* Only the arguments of the members matter. *)
LEMMA TokensSame ==
    ASSUME NEW a, NEW b, NEW S, \A i \in S : a[i] = b[i]
    PROVE  Tokens(S, a) = Tokens(S, b)
<1>1. TokenSet(S, a) = TokenSet(S, b)
  <2>1. \A i \in S : TokensOf(i, a) = TokensOf(i, b)
    BY DEF TokensOf
  <2> QED BY <2>1 DEF TokenSet
<1> QED BY <1>1 DEF Tokens, TokenSet

-----------------------------------------------------------------------------
(* What the script knows of a request it lets in. *)
LEMMA Admission ==
    ASSUME NEW a, NEW at, NEW tokens \in Nat,
           Cardinality(Live(rpm, a, at, Window)) \in Nat,
           Cardinality(LiveBurst(a, at)) \in Nat,
           CurrentSum(a, at) \in Int
    PROVE  Reason(a, at, tokens) = "" =>
               /\ Cardinality(Live(rpm, a, at, Window)) < RpmLimit
               /\ CurrentSum(a, at) + tokens <= TpmLimit
<1> DEFINE c == Cardinality(Live(rpm, a, at, Window))
           b == Cardinality(LiveBurst(a, at))
           s == CurrentSum(a, at)
           Unrefused ==
               /\ ~(c >= RpmLimit)
               /\ ~(c < RpmLimit /\ BurstEnabled /\ b >= BurstLimit)
               /\ ~(/\ c < RpmLimit
                    /\ BurstEnabled => b < BurstLimit
                    /\ s + tokens > TpmLimit)
<1>1. /\ c \in Nat /\ b \in Nat /\ s \in Int
      /\ RpmLimit \in Nat /\ TpmLimit \in Nat /\ BurstLimit \in Nat
  BY RateLimiterConfig
<1>2. Reason(a, at, tokens) = "" => Unrefused
  BY Zenon DEF Reason
<1> HIDE DEF c, b, s
<1>3. ASSUME Unrefused PROVE c < RpmLimit /\ s + tokens <= TpmLimit
  <2>1. c < RpmLimit
    BY <1>1, <1>3
  <2>2. BurstEnabled => b < BurstLimit
    BY <1>1, <1>3, <2>1
  <2> QED BY <1>1, <1>3, <2>1, <2>2
<1> QED BY <1>2, <1>3, Zenon DEF c, s

LEMMA LimiterInvInit == LimiterInit => LimiterInv
<1> SUFFICES ASSUME LimiterInit PROVE LimiterInv
  OBVIOUS
<1>1. LimiterTypeOK /\ Clocks /\ KeysLive /\ InWindow
  BY RateLimiterConfig DEF LimiterInit, LimiterTypeOK, Clocks, KeysLive, InWindow, Recent, Unsent
<1>2. Tokens(tpm, args) = 0 /\ Cardinality(rpm) = 0 /\ tpmSum = 0
  BY NoTokens, FS_EmptySet DEF LimiterInit
<1>3. Bounded
  BY <1>2, RateLimiterConfig DEF Bounded
<1> QED BY <1>1, <1>3 DEF LimiterInv

(* One run of the script, for arguments that keep those of the admitted     *)
(* requests and lie within the skew.                                        *)
LEMMA RunKeeps ==
    ASSUME LimiterInv, NEW i \in Ids, NEW a \in Weights,
           \A j \in log : a[j] = args[j],
           \A j \in Ids : a[j].at <= now + MaxSkew,
           now <= a[i].at,
           Run(i, a), args' = a, now' = now
    PROVE  LimiterInv'
<1> DEFINE at == a[i].at
           reason == Reason(a, at, a[i].tokens)
           liveR == Live(rpm, a, at, Window)
           liveT == Live(tpm, a, at, Window)
           sum == CurrentSum(a, at)
           liveB == LiveBurst(a, at)
<1> USE RateLimiterConfig DEF LimiterInv
<1>1. /\ at \in Int /\ a[i].tokens \in Nat
      /\ liveR \subseteq rpm /\ liveT \subseteq tpm
      /\ liveR \in SUBSET Ids /\ liveT \in SUBSET Ids
      /\ rpm \in SUBSET Ids /\ tpm \in SUBSET Ids
  BY DEF Weights, Live, LimiterTypeOK
<1>2. /\ rpm' = Kept(liveR, i, reason)
      /\ tpm' = Kept(liveT, i, reason)
      /\ burst' = IF BurstEnabled THEN Kept(liveB, i, reason) ELSE burst
      /\ tpmSum' = SumAfter(a, at, a[i].tokens, reason)
      /\ ttl' = IF reason = "" THEN Window + Grace ELSE ttl
      /\ log' = IF reason = "" THEN log \cup {i} ELSE log
      /\ admittedAt' = IF reason = "" /\ i \notin log
                       THEN [admittedAt EXCEPT ![i] = now] ELSE admittedAt
  BY DEF Run
<1>3. /\ Tokens(tpm, a) = Tokens(tpm, args)
      /\ Tokens(tpm, a) \in Nat /\ Tokens(liveT, a) \in Nat
      /\ Tokens(tpm, a) = Tokens(liveT, a) + Tokens(tpm \ liveT, a)
      /\ Tokens(tpm \ liveT, a) \in Nat
  <2>1. Tokens(tpm, a) = Tokens(tpm, args)
    BY TokensSame DEF LimiterTypeOK
  <2>2. tpm \ liveT \in SUBSET Ids /\ liveT \in SUBSET tpm
    BY <1>1
  <2> QED BY <1>1, <2>1, <2>2, TokensFinite, TokensSplit
<1>4. sum \in Int /\ sum >= Tokens(liveT, a)
  <2>1. tpmSum - Tokens(tpm \ liveT, a) >= Tokens(liveT, a)
    BY <1>3 DEF Bounded, LimiterTypeOK
  <2>2. CASE liveT = {}
    <3>1. sum = 0
      BY <2>2 DEF CurrentSum
    <3>2. Tokens(liveT, a) = 0
      BY <2>2, NoTokens
    <3> QED BY <3>1, <3>2
  <2>3. CASE liveT # {}
    <3>1. sum = tpmSum - Tokens(tpm \ liveT, a)
      BY <1>3, <2>1, <2>3 DEF CurrentSum, LimiterTypeOK
    <3> QED BY <1>3, <2>1, <3>1 DEF LimiterTypeOK
  <2> QED BY <2>2, <2>3
<1>5. /\ IsFiniteSet(liveR) /\ Cardinality(liveR) \in Nat
      /\ Cardinality(liveR) <= RpmLimit
  <2>1. IsFiniteSet(rpm)
    BY <1>1, FS_Subset
  <2>2. liveR \in SUBSET rpm
    BY <1>1
  <2>3. IsFiniteSet(liveR) /\ Cardinality(liveR) <= Cardinality(rpm)
    BY <2>1, <2>2, FS_Subset
  <2>4. Cardinality(liveR) \in Nat /\ Cardinality(rpm) \in Nat
    BY <2>1, <2>3, FS_CardinalityType
  <2> QED BY <2>3, <2>4 DEF Bounded
<1>6. Recent(Window - MaxSkew) \subseteq liveR \cap liveT
  <2> SUFFICES ASSUME NEW j \in log, now - admittedAt[j] < Window - MaxSkew
               PROVE  j \in liveR \cap liveT
    BY DEF Recent
  <2>1. j \in rpm /\ j \in tpm
    BY DEF InWindow, Recent
  <2>2. /\ j \in Ids /\ admittedAt[j] \in Nat /\ now \in Nat /\ a[j].at \in Int
        /\ admittedAt[j] <= a[j].at /\ at <= now + MaxSkew
    BY DEF LimiterTypeOK, Clocks, Weights
  <2>3. a[j].at > at - Window
    BY <1>1, <2>2
  <2> QED BY <2>1, <2>3 DEF Live
<1>7. liveB \subseteq log /\ Cardinality(liveB) \in Nat
  <2>1. liveB \subseteq log /\ liveB \in SUBSET Ids
    BY DEF LiveBurst, Live, LimiterTypeOK
  <2>2. IsFiniteSet(liveB)
    BY <2>1, FS_Subset
  <2> QED BY <2>1, <2>2, FS_CardinalityType
<1>8. burst' \subseteq log'
  BY <1>2, <1>7 DEF Kept, LimiterTypeOK
<1>9. CASE reason = ""
  <2>1. /\ rpm' = liveR \cup {i} /\ tpm' = liveT \cup {i}
        /\ tpmSum' = sum + a[i].tokens
        /\ ttl' = Window + Grace /\ log' = log \cup {i}
    BY <1>2, <1>9 DEF Kept, SumAfter
  <2>2. /\ Cardinality(liveR) < RpmLimit
        /\ sum + a[i].tokens <= TpmLimit
    BY <1>1, <1>4, <1>5, <1>7, <1>9, Admission
  <2>3. /\ admittedAt' \in [Ids -> Nat]
        /\ \A j \in log : admittedAt'[j] = admittedAt[j]
        /\ i \notin log => admittedAt'[i] = now
    BY <1>2, <1>9 DEF LimiterTypeOK
  <2>4. LimiterTypeOK'
    BY <1>1, <1>4, <1>8, <2>1, <2>3 DEF LimiterTypeOK, Weights
  <2>5. Clocks'
    <3>1. a[i] # Unsent
      BY <1>1 DEF Unsent, LimiterTypeOK
    <3>2. \A j \in log' : args'[j] # Unsent /\ admittedAt'[j] <= args'[j].at
      BY <1>1, <2>1, <2>3, <3>1 DEF Clocks, LimiterTypeOK
    <3> QED BY <3>2 DEF Clocks
  <2>6. KeysLive'
    BY <2>1, <2>3 DEF KeysLive, LimiterTypeOK
  <2>7. InWindow'
    <3>1. \A j \in Recent(Window - MaxSkew)' : j = i \/ j \in Recent(Window - MaxSkew)
      BY <2>1, <2>3 DEF Recent
    <3> QED BY <1>6, <2>1, <3>1 DEF InWindow
  <2>8. Bounded'
    <3>1. Cardinality(rpm') <= RpmLimit
      <4>1. Cardinality(rpm') = IF i \in liveR THEN Cardinality(liveR)
                                ELSE Cardinality(liveR) + 1
        BY <1>5, <2>1, FS_AddElement
      <4> QED BY <1>5, <2>2, <4>1
    <3>2. Tokens(tpm', a) <= Tokens(liveT, a) + a[i].tokens
      BY <1>1, <2>1, TokensAdd
    <3>3. Tokens(tpm', a) \in Nat
      BY <1>1, <2>1, TokensFinite
    <3>4. Tokens(tpm', a) <= tpmSum'
      BY <1>1, <1>3, <1>4, <2>1, <3>2, <3>3
    <3> QED BY <2>1, <2>2, <3>1, <3>4 DEF Bounded, Tokens
  <2> QED BY <2>4, <2>5, <2>6, <2>7, <2>8
<1>10. CASE reason # ""
  <2>1. /\ rpm' = liveR /\ tpm' = liveT /\ tpmSum' = tpmSum /\ ttl' = ttl
        /\ log' = log /\ admittedAt' = admittedAt
    BY <1>2, <1>10 DEF Kept, SumAfter
  <2>2. LimiterTypeOK'
    BY <1>1, <1>8, <2>1 DEF LimiterTypeOK, Weights
  <2>3. Clocks' /\ KeysLive'
    BY <2>1 DEF Clocks, KeysLive, LimiterTypeOK
  <2>4. InWindow'
    BY <1>6, <2>1 DEF InWindow, Recent
  <2>5. Bounded'
    <3>1. Tokens(tpm', a) <= tpmSum'
      BY <1>3, <2>1 DEF Bounded, LimiterTypeOK
    <3>2. Cardinality(rpm') <= RpmLimit /\ tpmSum' <= TpmLimit
      BY <1>5, <2>1 DEF Bounded
    <3> QED BY <3>1, <3>2 DEF Bounded, Tokens
  <2> QED BY <2>2, <2>3, <2>4, <2>5
<1> QED BY <1>9, <1>10

LEMMA CheckKeeps ==
    ASSUME LimiterInv, NEW i \in Ids, NEW skew \in 0 .. MaxSkew, NEW tokens \in TokenChoices,
           Check(i, skew, tokens)
    PROVE  LimiterInv'
<1> USE RateLimiterConfig DEF LimiterInv
<1>1. /\ args[i] = Unsent /\ Run(i, args') /\ now' = now
      /\ args' = [args EXCEPT ![i] = [at |-> now + skew, tokens |-> tokens]]
  BY DEF Check
<1>2. args' \in Weights /\ now <= args'[i].at /\ args'[i].at <= now + MaxSkew
  BY <1>1 DEF Weights, LimiterTypeOK
<1>3. \A j \in log : args'[j] = args[j]
  BY <1>1 DEF Clocks, LimiterTypeOK
<1>4. \A j \in Ids : args'[j].at <= now + MaxSkew
  BY <1>1, <1>2 DEF Clocks, LimiterTypeOK
<1> QED BY <1>1, <1>2, <1>3, <1>4, RunKeeps

LEMMA ResendKeeps ==
    ASSUME LimiterInv, NEW i \in Ids, Resend(i)
    PROVE  LimiterInv'
<1>1. Run(i, args) /\ now' = now /\ args' = args /\ args[i].at >= now
  BY DEF Resend
<1>2. args \in Weights /\ now <= args[i].at
  BY <1>1 DEF LimiterInv, LimiterTypeOK, Weights
<1>3. \A j \in Ids : args[j].at <= now + MaxSkew
  BY DEF LimiterInv, Clocks
<1> QED BY <1>1, <1>2, <1>3, RunKeeps

(* Redis drops a key only when every admission has left the window. *)
LEMMA TickKeeps ==
    ASSUME LimiterInv, Tick
    PROVE  LimiterInv'
<1> USE RateLimiterConfig DEF LimiterInv
<1>1. /\ now' = now + 1 /\ UNCHANGED <<args, log, admittedAt>>
      /\ ttl' = IF ttl > 0 THEN ttl - 1 ELSE 0
  BY DEF Tick
<1>2. \/ ttl = 1 /\ rpm' = {} /\ tpm' = {} /\ tpmSum' = 0
      \/ ttl # 1 /\ rpm' = rpm /\ tpm' = tpm /\ tpmSum' = tpmSum
  BY DEF Tick
<1>3. LimiterTypeOK'
  <2>1. burst' \subseteq burst
    BY DEF Tick
  <2> QED BY <1>1, <1>2, <2>1 DEF LimiterTypeOK
<1>4. Clocks'
  BY <1>1 DEF Clocks, LimiterTypeOK
<1>5. KeysLive'
  BY <1>1 DEF KeysLive, LimiterTypeOK
<1>6. InWindow'
  <2>1. \A j \in Recent(Window - MaxSkew)' : j \in Recent(Window - MaxSkew) /\ ttl # 1
    BY <1>1 DEF Recent, KeysLive, LimiterTypeOK
  <2> QED BY <1>2, <2>1 DEF InWindow
<1>7. Bounded'
  <2>1. CASE ttl = 1
    <3>1. Tokens({}, args') = 0 /\ Cardinality({}) = 0
      BY NoTokens, FS_EmptySet
    <3> QED BY <1>2, <2>1, <3>1 DEF Bounded, Tokens
  <2>2. CASE ttl # 1
    BY <1>1, <1>2, <2>2 DEF Bounded, Tokens, TokensOf
  <2> QED BY <2>1, <2>2
<1> QED BY <1>3, <1>4, <1>5, <1>6, <1>7

LEMMA InvNext == LimiterInv /\ [LimiterNext]_limiterVars => LimiterInv'
<1> SUFFICES ASSUME LimiterInv, [LimiterNext]_limiterVars PROVE LimiterInv'
  OBVIOUS
<1>1. CASE UNCHANGED limiterVars
  BY <1>1 DEF limiterVars, LimiterInv, LimiterTypeOK, Clocks, KeysLive, InWindow, Bounded, Recent,
              Tokens, TokensOf
<1>2. CASE LimiterNext
  BY <1>2, CheckKeeps, ResendKeeps, TickKeeps DEF LimiterNext
<1> QED BY <1>1, <1>2

LEMMA InvAlways == LimiterSpec => []LimiterInv
<1> QED BY LimiterInvInit, InvNext, PTL DEF LimiterSpec

-----------------------------------------------------------------------------
(* The requests admitted in the past window, short of the clock skew, never *)
(* exceed the limit: RATE_LIMIT_LUA counts every one of them, through       *)
(* skewed timestamps, resent scripts and expiring keys.                     *)
THEOREM RequestLimitHolds == LimiterSpec => []RpmHolds
<1>1. LimiterInv => RpmHolds
  <2> SUFFICES ASSUME LimiterInv PROVE RpmHolds
    OBVIOUS
  <2>1. IsFiniteSet(rpm)
    BY RateLimiterConfig, FS_Subset DEF LimiterInv, LimiterTypeOK
  <2>2. Recent(Window - MaxSkew) \in SUBSET rpm
    BY DEF LimiterInv, InWindow
  <2>3. /\ Cardinality(Recent(Window - MaxSkew)) <= Cardinality(rpm)
        /\ IsFiniteSet(Recent(Window - MaxSkew))
    BY <2>1, <2>2, FS_Subset
  <2>4. Cardinality(rpm) \in Nat /\ Cardinality(Recent(Window - MaxSkew)) \in Nat
    BY <2>1, <2>3, FS_CardinalityType
  <2> QED BY <2>3, <2>4, RateLimiterConfig DEF RpmHolds, LimiterInv, Bounded
<1> QED BY <1>1, InvAlways, PTL

(* The token estimates of those requests never exceed the limit either: the *)
(* script's running sum is never below the weight of what it admitted.      *)
THEOREM TokenLimitHolds == LimiterSpec => []TpmHolds
<1>1. LimiterInv => TpmHolds
  <2> SUFFICES ASSUME LimiterInv PROVE TpmHolds
    OBVIOUS
  <2>1. tpm \in SUBSET Ids /\ args \in Weights /\ tpmSum \in Int
    BY DEF LimiterInv, LimiterTypeOK, Weights
  <2>2. Recent(Window - MaxSkew) \in SUBSET tpm
    BY DEF LimiterInv, InWindow
  <2>3. Tokens(Recent(Window - MaxSkew), args) <= Tokens(tpm, args)
    BY <2>1, <2>2, TokensMonotone
  <2>4. Recent(Window - MaxSkew) \in SUBSET Ids
    BY <2>1, <2>2
  <2>5. Tokens(tpm, args) \in Nat /\ Tokens(Recent(Window - MaxSkew), args) \in Nat
    BY <2>1, <2>4, TokensFinite
  <2> QED BY <2>1, <2>3, <2>5, RateLimiterConfig DEF TpmHolds, LimiterInv, Bounded
<1> QED BY <1>1, InvAlways, PTL

-----------------------------------------------------------------------------
(***************************************************************************)
(* Proofs about Accounting: types, the bound on the overshoot of the       *)
(* budget, and what a clean shutdown has waited for, for every             *)
(* concurrency, budget, price and number of months.                        *)
(*                                                                         *)
(* The bound is not inductive: it says nothing of the requests that are    *)
(* past the budget gate and have not been charged.  Capped reserves the    *)
(* highest cost for each of them, per month.                               *)
(***************************************************************************)

(* The requests that may yet charge month m though it be over the budget:   *)
(* those between the gate and the charge, those that read the counter of an *)
(* earlier month, and those that hold the spend key of m.                   *)
Exposed(m) ==
    {r \in Requests :
        \/ m = month /\ pc[r] \in {"calling", "stream_calling", "streaming", "drain"}
        \/ m = month /\ AtBudget(r) /\ key[r] < month
        \/ pc[r] = "charge" /\ key[r] = m}

Capped ==
    \A m \in 1 .. Months :
        m <= month => spend[m] + MaxCost * Cardinality(Exposed(m)) <= Ceiling

(* Nothing is charged to a month that has not begun, and a request in the   *)
(* cost tracker holds the key of one that has.                              *)
NoneAhead ==
    /\ \A m \in 1 .. Months : m > month => spend[m] = 0
    /\ \A r \in Requests :
        AtBudget(r) \/ pc[r] = "charge" => key[r] \in 1 .. month

IInv == TypeOK /\ NoneAhead /\ Capped

USE AccountingAssumption DEF AccountingAssumption

-----------------------------------------------------------------------------
LEMMA EnqueueTyped ==
    ASSUME TypeOK, NEW r \in Requests, enqueueRequest(r)
    PROVE  pending' \in 0 .. MaxPending /\ late' \in Nat
BY DEF TypeOK, enqueueRequest

LEMMA MoveTyped ==
    ASSUME TypeOK, NEW r \in Requests, NEW at, MoveTo(r, at),
           at \in {"idle", "lookup", "budget", "stream_budget", "calling",
                   "stream_calling", "streaming", "drain", "charge", "log", "reply"}
    PROVE  /\ proc' \in {"serving", "closing", "flushing", "closed", "exit0", "exit1"}
           /\ pc' \in [Requests -> {"idle", "lookup", "budget", "stream_budget",
                            "calling", "stream_calling", "streaming",
                            "drain", "charge", "log", "reply"}]
           /\ client' \in [Requests -> BOOLEAN]
           /\ key' \in [Requests -> 0 .. Months]
           /\ month' \in 1 .. Months
           /\ starts' \in 0 .. MaxStarts
BY DEF TypeOK, MoveTo, StopAt, spendKey, NoKey

LEMMA FaultTyped ==
    ASSUME TypeOK, Fault
    PROVE  faults' \in 0 .. MaxFaults
BY DEF TypeOK, Fault

LEMMA ChargedTyped ==
    ASSUME TypeOK, NoneAhead, NEW r \in Requests, pc[r] = "charge"
    PROVE  Charged(r) \in [1 .. Months -> Nat]
BY DEF TypeOK, NoneAhead, Charged

LEMMA StepTyped == TypeOK /\ NoneAhead /\ [Next]_vars => TypeOK'
<1> SUFFICES ASSUME TypeOK, NoneAhead, [Next]_vars PROVE TypeOK'
    OBVIOUS
<1>1. ASSUME NEW r \in Requests, NEW stream \in BOOLEAN, Begin(r, stream) PROVE TypeOK'
  BY <1>1 DEF TypeOK, Begin, StopAt, spendKey, NoKey, Untouched
<1>2. ASSUME NEW r \in Requests, CacheHit(r) \/ LogRequest(r) PROVE TypeOK'
  BY <1>2, EnqueueTyped, MoveTyped DEF CacheHit, LogRequest, TypeOK
<1>3. ASSUME NEW r \in Requests,
             CacheMiss(r) \/ enforceBudget(r) \/ CallFails(r) \/ StreamEnds(r) \/ Drain(r)
      PROVE TypeOK'
  <2>1. PICK at \in {"budget", "calling", "stream_calling", "charge", "streaming", "reply"} :
            MoveTo(r, at)
    BY <1>3 DEF CacheMiss, enforceBudget, CallFails, StreamEnds, Drain, PastBudget
  <2>2. UNCHANGED cost /\ Untouched
    BY <1>3 DEF CacheMiss, enforceBudget, CallFails, StreamEnds, Drain
  <2> QED BY <2>1, <2>2, MoveTyped DEF Untouched, TypeOK
<1>4. ASSUME NEW r \in Requests, enforceBudgetBlind(r) PROVE TypeOK'
  <2>1. PICK at \in {"calling", "stream_calling", "reply"} : MoveTo(r, at)
    BY <1>4 DEF enforceBudgetBlind, PastBudget
  <2>2. /\ Fault /\ blind' = blind + 1
        /\ UNCHANGED <<cost, spend, pending, resent, late>>
    BY <1>4 DEF enforceBudgetBlind
  <2>3. faults' \in 0 .. MaxFaults /\ blind' \in Nat
    BY <2>2, FaultTyped DEF TypeOK
  <2> QED BY <2>1, <2>2, <2>3, MoveTyped DEF TypeOK
<1>5. ASSUME NEW r \in Requests, NEW c \in 0 .. MaxCost, Answered(r, c) PROVE TypeOK'
  BY <1>5, MoveTyped DEF Answered, Untouched, TypeOK
<1>6. ASSUME NEW r \in Requests, NEW c \in 0 .. MaxCost, NEW full \in BOOLEAN,
             FirstChunk(r, c, full) \/ NextChunk(r, c, full)
      PROVE TypeOK'
  <2>1. PICK at \in {"streaming", "drain"} : MoveTo(r, at)
    BY <1>6 DEF FirstChunk, NextChunk, Write
  <2>2. cost' = [cost EXCEPT ![r] = c] /\ Untouched
    BY <1>6 DEF FirstChunk, NextChunk
  <2> QED BY <2>1, <2>2, MoveTyped DEF Untouched, TypeOK
<1>7. ASSUME NEW r \in Requests, addSpend(r) PROVE TypeOK'
  <2>1. spend' \in [1 .. Months -> Nat]
    BY <1>7, ChargedTyped DEF addSpend, TypeOK
  <2>2. MoveTo(r, "log") /\ UNCHANGED <<cost, pending, faults, blind, resent, late>>
    BY <1>7 DEF addSpend
  <2> QED BY <2>1, <2>2, MoveTyped DEF TypeOK
<1>8. ASSUME NEW r \in Requests, addSpendResent(r) PROVE TypeOK'
  <2>1. faults' \in 0 .. MaxFaults /\ resent' \in Nat
    BY <1>8, FaultTyped DEF addSpendResent, TypeOK
  <2>2. spend' \in [1 .. Months -> Nat]
    BY <1>8, ChargedTyped DEF addSpendResent
  <2> QED BY <1>8, <2>1, <2>2 DEF addSpendResent, TypeOK
<1>9. ASSUME NEW r \in Requests, addSpendFails(r) PROVE TypeOK'
  BY <1>9, MoveTyped, FaultTyped DEF addSpendFails, TypeOK
<1>10. ASSUME NEW r \in Requests, Reply(r) PROVE TypeOK'
  BY <1>10 DEF Reply, StopAt, spendKey, NoKey, Untouched, TypeOK
<1>11. ASSUME NEW r \in Requests, Disconnect(r) PROVE TypeOK'
  BY <1>11 DEF Disconnect, Untouched, TypeOK
<1>12. CASE WriteSettles
  BY <1>12 DEF WriteSettles, TypeOK
<1>13. CASE Signal \/ CloseDone \/ CloseTimeout \/ Flush \/ Exit \/ ExitFails
  BY <1>13 DEF Signal, CloseDone, CloseTimeout, Flush, Exit, ExitFails, ProcStep,
     Untouched, TypeOK
<1>14. CASE Rollover
  BY <1>14 DEF Rollover, Untouched, TypeOK
<1>15. CASE Terminated \/ UNCHANGED vars
  BY <1>15 DEF Terminated, vars, TypeOK
<1> QED
  BY <1>1, <1>2, <1>3, <1>4, <1>5, <1>6, <1>7, <1>8, <1>9, <1>10, <1>11, <1>12,
     <1>13, <1>14, <1>15 DEF Next, RequestStep

-----------------------------------------------------------------------------
LEMMA ExposedFinite ==
    ASSUME NEW m
    PROVE  /\ IsFiniteSet(Exposed(m)) /\ Cardinality(Exposed(m)) \in Nat
           /\ Cardinality(Exposed(m)) <= Cardinality(Requests)
           /\ Cardinality(Requests) \in Nat
<1>1. Exposed(m) \in SUBSET Requests
  BY DEF Exposed
<1> QED BY <1>1, FS_Subset, FS_CardinalityType

LEMMA ExposedFiniteNext ==
    ASSUME NEW m
    PROVE  /\ IsFiniteSet(Exposed(m)') /\ Cardinality(Exposed(m)') \in Nat
           /\ Cardinality(Exposed(m)') <= Cardinality(Requests)
<1>1. Exposed(m)' \in SUBSET Requests
  BY DEF Exposed
<1> QED BY <1>1, FS_Subset, FS_CardinalityType

LEMMA CountersTyped ==
    ASSUME TypeOK
    PROVE  /\ blind \in Nat /\ resent \in Nat /\ month \in 1 .. Months
           /\ \A m \in 1 .. Months : spend[m] \in Nat
BY DEF TypeOK

(* What the proof needs of multiplication. *)
LEMMA Scaled ==
    ASSUME NEW k \in Nat, NEW a \in Nat, NEW b \in Nat
    PROVE  /\ k * a \in Nat /\ k * b \in Nat
           /\ a <= b => k * a <= k * b
           /\ k * (a + 1) = k * a + k
BY SMT

LEMMA CeilingTyped == TypeOK => Ceiling \in Int
<1> SUFFICES ASSUME TypeOK PROVE Ceiling \in Int
    OBVIOUS
<1>1. Cardinality(Requests) + blind + resent \in Nat
  BY FS_CardinalityType DEF TypeOK
<1>2. MaxCost * (Cardinality(Requests) + blind + resent) \in Nat
  BY <1>1, Scaled
<1> QED BY <1>2 DEF Ceiling, LastUnder

(* The reserve of a month that nothing new is exposed to does not grow. *)
LEMMA Shrinks ==
    ASSUME TypeOK, NEW m \in 1 .. Months, Exposed(m)' \subseteq Exposed(m)
    PROVE  MaxCost * Cardinality(Exposed(m)') <= MaxCost * Cardinality(Exposed(m))
<1>1. Cardinality(Exposed(m)') <= Cardinality(Exposed(m))
  BY ExposedFinite, FS_Subset
<1> QED BY <1>1, ExposedFinite, ExposedFiniteNext, Scaled

(* The month is not over, nothing is charged, no fault is counted and no    *)
(* one else is exposed: Capped is kept.                                     *)
LEMMA QuietKeepsCap ==
    ASSUME IInv, TypeOK', UNCHANGED <<month, spend, blind, resent>>,
           \A m \in 1 .. Months : Exposed(m)' \subseteq Exposed(m)
    PROVE  Capped'
<1> SUFFICES ASSUME NEW m \in 1 .. Months, m <= month
             PROVE  spend[m] + MaxCost * Cardinality(Exposed(m)') <= Ceiling
    BY DEF Capped, Ceiling
<1>1. spend[m] + MaxCost * Cardinality(Exposed(m)) <= Ceiling
  BY DEF IInv, Capped
<1>2. MaxCost * Cardinality(Exposed(m)') <= MaxCost * Cardinality(Exposed(m))
  BY Shrinks DEF IInv
<1>3. spend[m] \in Nat /\ Ceiling \in Int
  BY CeilingTyped DEF IInv, TypeOK
<1>4. /\ MaxCost * Cardinality(Exposed(m)') \in Nat
      /\ MaxCost * Cardinality(Exposed(m)) \in Nat
  BY ExposedFinite, ExposedFiniteNext, Scaled
<1> QED BY <1>1, <1>2, <1>3, <1>4

-----------------------------------------------------------------------------
(* The awaits at which a request is exposed to the month that it is. *)
PastGate == {"calling", "stream_calling", "streaming", "drain", "charge"}

(* A request that moves is the only one whose exposure changes, and it is   *)
(* exposed to the current month or to none.                                 *)
LEMMA ExposedMove ==
    ASSUME TypeOK, NEW r \in Requests, NEW at, StopAt(r, at), month' = month,
           NEW m \in 1 .. Months
    PROVE  /\ \A q \in Requests \ {r} : q \in Exposed(m)' <=> q \in Exposed(m)
           /\ r \in Exposed(m)' => m = month /\ at \in PastGate
<1>1. ASSUME NEW q \in Requests \ {r} PROVE pc'[q] = pc[q] /\ key'[q] = key[q]
  BY <1>1 DEF TypeOK, StopAt
<1>2. pc'[r] = at /\ key'[r] = spendKey(at)
  BY DEF TypeOK, StopAt
<1>3. \A q \in Requests \ {r} : q \in Exposed(m)' <=> q \in Exposed(m)
  BY <1>1 DEF Exposed, AtBudget
<1>4. ASSUME r \in Exposed(m)' PROVE m = month /\ at \in PastGate
  BY <1>2, <1>4 DEF Exposed, AtBudget, spendKey, NoKey, PastGate, TypeOK
<1> QED BY <1>3, <1>4

(* It stays where it was exposed already, or goes where it is not. *)
LEMMA MoveQuiet ==
    ASSUME TypeOK, NEW r \in Requests, NEW at, StopAt(r, at), month' = month,
           at \notin PastGate \/ r \in Exposed(month)
    PROVE  \A m \in 1 .. Months : Exposed(m)' \subseteq Exposed(m)
<1> SUFFICES ASSUME NEW m \in 1 .. Months, NEW q \in Exposed(m)'
             PROVE  q \in Exposed(m)
    OBVIOUS
<1>1. q \in Requests
  BY DEF Exposed
<1>2. CASE q = r
  BY <1>2, ExposedMove
<1>3. CASE q # r
  BY <1>1, <1>3, ExposedMove
<1> QED BY <1>2, <1>3

LEMMA SameExposure ==
    ASSUME UNCHANGED <<pc, key, month>>
    PROVE  \A m \in 1 .. Months : Exposed(m)' = Exposed(m)
BY DEF Exposed, AtBudget

-----------------------------------------------------------------------------
LEMMA KeysKept ==
    ASSUME TypeOK, NoneAhead, NEW r \in Requests, NEW at, StopAt(r, at),
           UNCHANGED <<month, spend>>
    PROVE  NoneAhead'
<1>1. ASSUME NEW q \in Requests, AtBudget(q)' \/ pc'[q] = "charge"
      PROVE  key'[q] \in 1 .. month
  <2>1. CASE q = r
    BY <1>1, <2>1 DEF StopAt, TypeOK, AtBudget, spendKey
  <2>2. CASE q # r
    BY <1>1, <2>2 DEF StopAt, TypeOK, AtBudget, NoneAhead
  <2> QED BY <2>1, <2>2
<1> QED BY <1>1 DEF NoneAhead

LEMMA KeysKeptByCharge ==
    ASSUME TypeOK, NoneAhead, NEW r \in Requests, pc[r] = "charge",
           spend' = spend \/ spend' = Charged(r), UNCHANGED month
    PROVE  \A m \in 1 .. Months : m > month' => spend'[m] = 0
BY DEF NoneAhead, Charged, TypeOK

LEMMA StepNoneAhead == IInv /\ [Next]_vars => NoneAhead'
<1> SUFFICES ASSUME IInv, [Next]_vars PROVE NoneAhead'
    OBVIOUS
<1> USE DEF IInv
<1>1. ASSUME NEW r \in Requests, NEW at, MoveTo(r, at), UNCHANGED spend
      PROVE  NoneAhead'
  BY <1>1, KeysKept DEF MoveTo
<1>2. ASSUME NEW r \in Requests, NEW stream \in BOOLEAN, Begin(r, stream)
      PROVE  NoneAhead'
  BY <1>2, KeysKept DEF Begin, Untouched
<1>3. ASSUME NEW r \in Requests, Reply(r) PROVE NoneAhead'
  BY <1>3, KeysKept DEF Reply, Untouched
<1>4. ASSUME NEW r \in Requests, addSpend(r) PROVE NoneAhead'
  <2>1. \A m \in 1 .. Months : m > month' => spend'[m] = 0
    BY <1>4, KeysKeptByCharge DEF addSpend, MoveTo
  <2>2. ASSUME NEW q \in Requests, AtBudget(q)' \/ pc'[q] = "charge"
        PROVE  key'[q] \in 1 .. month'
    <3>1. q # r
      BY <1>4, <2>2 DEF addSpend, MoveTo, StopAt, AtBudget, TypeOK
    <3>2. pc'[q] = pc[q] /\ key'[q] = key[q] /\ month' = month
      BY <1>4, <3>1 DEF addSpend, MoveTo, StopAt, TypeOK
    <3> QED BY <2>2, <3>2 DEF NoneAhead, AtBudget
  <2> QED BY <2>1, <2>2 DEF NoneAhead
<1>5. ASSUME NEW r \in Requests, addSpendResent(r) PROVE NoneAhead'
  <2>1. \A m \in 1 .. Months : m > month' => spend'[m] = 0
    BY <1>5, KeysKeptByCharge DEF addSpendResent
  <2> QED BY <1>5, <2>1 DEF addSpendResent, NoneAhead, AtBudget
<1>6. CASE Rollover
  BY <1>6 DEF Rollover, Untouched, NoneAhead, AtBudget, TypeOK
<1>7. ASSUME UNCHANGED <<pc, key, month, spend>> PROVE NoneAhead'
  BY <1>7 DEF NoneAhead, AtBudget
<1>8. ASSUME NEW r \in Requests, CacheHit(r) \/ LogRequest(r) PROVE NoneAhead'
  BY <1>1, <1>8 DEF CacheHit, LogRequest
<1>9. ASSUME NEW r \in Requests,
             \/ CacheMiss(r) \/ enforceBudget(r) \/ CallFails(r) \/ StreamEnds(r) \/ Drain(r)
             \/ enforceBudgetBlind(r) \/ addSpendFails(r)
      PROVE NoneAhead'
  BY <1>1, <1>9 DEF CacheMiss, enforceBudget, CallFails, StreamEnds, Drain,
     enforceBudgetBlind, addSpendFails, Untouched
<1>10. ASSUME NEW r \in Requests, NEW c, NEW full,
              Answered(r, c) \/ FirstChunk(r, c, full) \/ NextChunk(r, c, full)
       PROVE NoneAhead'
  BY <1>1, <1>10 DEF Answered, FirstChunk, NextChunk, Untouched
<1>11. ASSUME NEW r \in Requests, Disconnect(r) PROVE NoneAhead'
  BY <1>7, <1>11 DEF Disconnect, Untouched
<1>12. CASE WriteSettles
  BY <1>7, <1>12 DEF WriteSettles
<1>13. CASE Signal \/ CloseDone \/ CloseTimeout \/ Flush \/ Exit \/ ExitFails
  BY <1>7, <1>13 DEF Signal, CloseDone, CloseTimeout, Flush, Exit, ExitFails, ProcStep,
     Untouched
<1>14. CASE Terminated \/ UNCHANGED vars
  BY <1>7, <1>14 DEF Terminated, vars
<1> QED
  BY <1>2, <1>3, <1>4, <1>5, <1>6, <1>8, <1>9, <1>10, <1>11, <1>12, <1>13, <1>14
     DEF Next, RequestStep

-----------------------------------------------------------------------------
(* The budget gate lets a request pass: the counter it has read is below    *)
(* the budget, or belongs to an earlier month and the request is reserved   *)
(* for already.                                                             *)
LEMMA GateKeepsCap ==
    ASSUME IInv, NEW r \in Requests, enforceBudget(r), TypeOK'
    PROVE  Capped'
<1>1. /\ UNCHANGED <<month, spend, blind, resent>> /\ AtBudget(r) /\ key[r] \in 1 .. month
      /\ StopAt(r, IF isOverBudget(r) THEN "reply" ELSE PastBudget(r))
  BY DEF enforceBudget, MoveTo, Untouched, IInv, NoneAhead
<1>2. CASE isOverBudget(r) \/ key[r] # month
  <2>1. "reply" \notin PastGate
    BY DEF PastGate
  <2>2. key[r] # month => r \in Exposed(month)
    BY <1>1 DEF Exposed, IInv, TypeOK
  <2>3. \A m \in 1 .. Months : Exposed(m)' \subseteq Exposed(m)
    BY <1>1, <1>2, <2>1, <2>2, MoveQuiet DEF IInv
  <2> QED BY <1>1, <2>3, QuietKeepsCap
<1>3. CASE ~isOverBudget(r) /\ key[r] = month
  <2> SUFFICES ASSUME NEW m \in 1 .. Months, m <= month
               PROVE  spend[m] + MaxCost * Cardinality(Exposed(m)') <= Ceiling
      BY <1>1 DEF Capped, Ceiling
  <2>1. CASE m = month
    <3>1. spend[m] <= LastUnder /\ spend[m] \in Nat /\ LastUnder \in Nat
      <4>1. spend[m] < Budget /\ spend[m] \in Nat
        BY <1>3, <2>1, CountersTyped DEF isOverBudget, IInv
      <4> QED BY <4>1 DEF LastUnder
    <3>0. blind \in Nat /\ resent \in Nat /\ Cardinality(Requests) \in Nat
      BY CountersTyped, FS_CardinalityType DEF IInv
    <3>2. Cardinality(Exposed(m)') <= Cardinality(Requests) + blind + resent
      BY <3>0, ExposedFiniteNext
    <3>3. /\ Cardinality(Exposed(m)') \in Nat
          /\ Cardinality(Requests) + blind + resent \in Nat
      BY <3>0, ExposedFiniteNext
    <3>4. /\ MaxCost * Cardinality(Exposed(m)')
                <= MaxCost * (Cardinality(Requests) + blind + resent)
          /\ MaxCost * Cardinality(Exposed(m)') \in Nat
          /\ MaxCost * (Cardinality(Requests) + blind + resent) \in Nat
      BY <3>2, <3>3, Scaled
    <3> QED BY <3>1, <3>4 DEF Ceiling
  <2>2. CASE m # month
    <3>1. Exposed(m)' \subseteq Exposed(m)
      <4> SUFFICES ASSUME NEW q \in Exposed(m)' PROVE q \in Exposed(m)
          OBVIOUS
      <4>1. q \in Requests
        BY DEF Exposed
      <4>2. q # r
        BY <1>1, <2>2, ExposedMove DEF IInv
      <4> QED BY <1>1, <4>1, <4>2, ExposedMove DEF IInv
    <3>2. MaxCost * Cardinality(Exposed(m)') <= MaxCost * Cardinality(Exposed(m))
      BY <3>1, Shrinks DEF IInv
    <3>3. spend[m] + MaxCost * Cardinality(Exposed(m)) <= Ceiling
      BY DEF IInv, Capped
    <3>4. /\ MaxCost * Cardinality(Exposed(m)') \in Nat
          /\ MaxCost * Cardinality(Exposed(m)) \in Nat
      BY ExposedFinite, ExposedFiniteNext, Scaled
    <3>5. spend[m] \in Nat /\ Ceiling \in Int
      BY CeilingTyped DEF IInv, TypeOK
    <3> QED BY <3>2, <3>3, <3>4, <3>5
  <2> QED BY <2>1, <2>2
<1> QED BY <1>2, <1>3

(* A counted fault raises the ceiling by the cost of one request. *)
LEMMA FaultRaisesCeiling ==
    ASSUME TypeOK, \/ blind' = blind + 1 /\ resent' = resent
                   \/ blind' = blind /\ resent' = resent + 1
    PROVE  Ceiling' = Ceiling + MaxCost
<1> DEFINE n == Cardinality(Requests) + blind + resent
<1>1. n \in Nat
  BY FS_CardinalityType DEF TypeOK
<1>2. Cardinality(Requests) + blind' + resent' = n + 1
  BY FS_CardinalityType DEF TypeOK
<1>3. MaxCost * (n + 1) = MaxCost * n + MaxCost /\ MaxCost * n \in Nat
  BY <1>1, Scaled
<1>4. Ceiling' = LastUnder + MaxCost * (n + 1)
  BY <1>2 DEF Ceiling, LastUnder
<1>5. Ceiling = LastUnder + MaxCost * n
  BY DEF Ceiling
<1>6. LastUnder \in Int
  BY DEF LastUnder
<1> HIDE DEF n
<1> QED BY <1>3, <1>4, <1>5, <1>6

(* A request that passes the gate blindly is exposed, and pays for itself. *)
LEMMA BlindKeepsCap ==
    ASSUME IInv, NEW r \in Requests, enforceBudgetBlind(r), TypeOK'
    PROVE  Capped'
<1>1. /\ UNCHANGED <<month, spend, resent>> /\ blind' = blind + 1
      /\ StopAt(r, IF Budget = 0 THEN "reply" ELSE PastBudget(r))
  BY DEF enforceBudgetBlind, MoveTo
<1>2. Ceiling' = Ceiling + MaxCost
  BY <1>1, FaultRaisesCeiling DEF IInv
<1> SUFFICES ASSUME NEW m \in 1 .. Months, m <= month
             PROVE  spend[m] + MaxCost * Cardinality(Exposed(m)') <= Ceiling + MaxCost
    BY <1>1, <1>2 DEF Capped
<1>3. Exposed(m)' \subseteq Exposed(m) \cup {r}
  <2> SUFFICES ASSUME NEW q \in Exposed(m)', q # r PROVE q \in Exposed(m)
      OBVIOUS
  <2>1. q \in Requests
    BY DEF Exposed
  <2> QED BY <1>1, <2>1, ExposedMove DEF IInv
<1>4. Cardinality(Exposed(m)') <= Cardinality(Exposed(m)) + 1
  <2>1. /\ IsFiniteSet(Exposed(m) \cup {r})
        /\ Cardinality(Exposed(m) \cup {r}) <= Cardinality(Exposed(m)) + 1
        /\ Cardinality(Exposed(m) \cup {r}) \in Nat
    <3>1. IsFiniteSet(Exposed(m)) /\ Cardinality(Exposed(m)) \in Nat
      BY ExposedFinite
    <3>2. /\ IsFiniteSet(Exposed(m) \cup {r})
          /\ Cardinality(Exposed(m) \cup {r}) =
                IF r \in Exposed(m) THEN Cardinality(Exposed(m))
                ELSE Cardinality(Exposed(m)) + 1
      BY <3>1, FS_AddElement
    <3> QED BY <3>1, <3>2
  <2>2. Cardinality(Exposed(m)') <= Cardinality(Exposed(m) \cup {r})
    BY <1>3, <2>1, FS_Subset
  <2> QED BY <2>1, <2>2, ExposedFinite, ExposedFiniteNext
<1>5. MaxCost * Cardinality(Exposed(m)') <= MaxCost * (Cardinality(Exposed(m)) + 1)
  BY <1>4, ExposedFinite, ExposedFiniteNext, Scaled
<1>6. /\ MaxCost * (Cardinality(Exposed(m)) + 1) = MaxCost * Cardinality(Exposed(m)) + MaxCost
      /\ MaxCost * Cardinality(Exposed(m)) \in Nat
      /\ MaxCost * Cardinality(Exposed(m)') \in Nat
  BY ExposedFinite, ExposedFiniteNext, Scaled
<1>7. spend[m] + MaxCost * Cardinality(Exposed(m)) <= Ceiling
  BY DEF IInv, Capped
<1>8. spend[m] \in Nat /\ Ceiling \in Int
  BY CeilingTyped DEF IInv, TypeOK
<1> QED BY <1>5, <1>6, <1>7, <1>8

(* A charge: at most the cost that was reserved for the request. *)
LEMMA CostBounded ==
    ASSUME TypeOK, NEW r \in Requests
    PROVE  cost[r] \in Nat /\ cost[r] <= MaxCost
BY DEF TypeOK

LEMMA ChargeKeepsCap ==
    ASSUME IInv, NEW r \in Requests, addSpend(r), TypeOK'
    PROVE  Capped'
<1>1. /\ UNCHANGED <<month, blind, resent>> /\ pc[r] = "charge" /\ key[r] \in 1 .. month
      /\ StopAt(r, "log")
      /\ spend' = spend \/ spend' = Charged(r)
  BY DEF addSpend, MoveTo, IInv, NoneAhead
<1>2. "log" \notin PastGate
  BY DEF PastGate
<1> SUFFICES ASSUME NEW m \in 1 .. Months, m <= month
             PROVE  spend'[m] + MaxCost * Cardinality(Exposed(m)') <= Ceiling
    BY <1>1 DEF Capped, Ceiling
<1>3. Exposed(m)' \subseteq Exposed(m)
  BY <1>1, <1>2, MoveQuiet DEF IInv
<1>4. /\ MaxCost * Cardinality(Exposed(m)') \in Nat
      /\ MaxCost * Cardinality(Exposed(m)) \in Nat
      /\ Cardinality(Exposed(m)') \in Nat /\ Cardinality(Exposed(m)) \in Nat
  BY ExposedFinite, ExposedFiniteNext, Scaled
<1>5. spend[m] \in Nat /\ Ceiling \in Int
  BY CountersTyped, CeilingTyped DEF IInv
<1>6. spend[m] + MaxCost * Cardinality(Exposed(m)) <= Ceiling
  BY DEF IInv, Capped
<1>7. CASE spend'[m] = spend[m]
  <2>1. MaxCost * Cardinality(Exposed(m)') <= MaxCost * Cardinality(Exposed(m))
    BY <1>3, Shrinks DEF IInv
  <2> QED BY <1>4, <1>5, <1>6, <1>7, <2>1
<1>8. CASE spend'[m] # spend[m]
  <2>1. m = key[r] /\ spend'[m] = spend[m] + cost[r]
    BY <1>1, <1>8 DEF Charged, IInv, TypeOK
  <2>2. r \in Exposed(m)
    BY <1>1, <2>1 DEF Exposed
  <2>3. r \notin Exposed(m)'
    BY <1>1, <1>2, ExposedMove DEF IInv
  <2>4. Cardinality(Exposed(m)') + 1 <= Cardinality(Exposed(m))
    <3>1. /\ IsFiniteSet(Exposed(m) \ {r})
          /\ Cardinality(Exposed(m) \ {r}) = Cardinality(Exposed(m)) - 1
      BY <2>2, ExposedFinite, FS_RemoveElement
    <3>2. Exposed(m)' \in SUBSET (Exposed(m) \ {r})
      BY <1>3, <2>3
    <3>3. Cardinality(Exposed(m)') <= Cardinality(Exposed(m) \ {r})
      BY <3>1, <3>2, FS_Subset
    <3> QED BY <1>4, <3>1, <3>3
  <2>5. Cardinality(Exposed(m)') + 1 \in Nat
    BY <1>4
  <2>6. MaxCost * (Cardinality(Exposed(m)') + 1) <= MaxCost * Cardinality(Exposed(m))
    BY <1>4, <2>4, <2>5, Scaled
  <2>7. MaxCost * (Cardinality(Exposed(m)') + 1) = MaxCost * Cardinality(Exposed(m)') + MaxCost
    BY <1>4, Scaled
  <2> QED BY <1>4, <1>5, <1>6, <2>1, <2>6, <2>7, CostBounded DEF IInv
<1> QED BY <1>7, <1>8

(* A charge that will be sent again: the ceiling rises with the counter. *)
LEMMA ResendKeepsCap ==
    ASSUME IInv, NEW r \in Requests, addSpendResent(r), TypeOK'
    PROVE  Capped'
<1>1. /\ UNCHANGED <<pc, key, month, blind>> /\ resent' = resent + 1
      /\ spend' = Charged(r) /\ pc[r] = "charge" /\ key[r] \in 1 .. month
  BY DEF addSpendResent, IInv, NoneAhead
<1>2. Ceiling' = Ceiling + MaxCost
  BY <1>1, FaultRaisesCeiling DEF IInv
<1> SUFFICES ASSUME NEW m \in 1 .. Months, m <= month
             PROVE  spend'[m] + MaxCost * Cardinality(Exposed(m)') <= Ceiling + MaxCost
    BY <1>1, <1>2 DEF Capped
<1>3. Exposed(m)' = Exposed(m)
  BY <1>1, SameExposure
<1>4. spend'[m] = spend[m] \/ spend'[m] = spend[m] + cost[r]
  BY <1>1 DEF Charged, IInv, TypeOK
<1>5. MaxCost * Cardinality(Exposed(m)) \in Nat
  BY ExposedFinite, Scaled
<1>6. spend[m] \in Nat /\ Ceiling \in Int
  BY CountersTyped, CeilingTyped DEF IInv
<1>7. spend[m] + MaxCost * Cardinality(Exposed(m)) <= Ceiling
  BY DEF IInv, Capped
<1> QED BY <1>3, <1>4, <1>5, <1>6, <1>7, CostBounded DEF IInv

(* A month begins: its counter is 0, and no more than all requests are      *)
(* exposed to it.                                                           *)
LEMMA RolloverKeepsCap ==
    ASSUME IInv, Rollover, TypeOK'
    PROVE  Capped'
<1>1. /\ UNCHANGED <<pc, key, spend, blind, resent>> /\ month' = month + 1
      /\ month \in 1 .. Months
  BY DEF Rollover, Untouched, IInv, TypeOK
<1> SUFFICES ASSUME NEW m \in 1 .. Months, m <= month + 1
             PROVE  spend[m] + MaxCost * Cardinality(Exposed(m)') <= Ceiling
    BY <1>1 DEF Capped, Ceiling
<1>2. /\ MaxCost * Cardinality(Exposed(m)') \in Nat
      /\ MaxCost * Cardinality(Exposed(m)) \in Nat
  BY ExposedFinite, ExposedFiniteNext, Scaled
<1>3. spend[m] \in Nat /\ Ceiling \in Int
  BY CountersTyped, CeilingTyped DEF IInv
<1>4. CASE m <= month
  <2>1. Exposed(m)' \subseteq Exposed(m)
    BY <1>1, <1>4 DEF Exposed
  <2>2. MaxCost * Cardinality(Exposed(m)') <= MaxCost * Cardinality(Exposed(m))
    BY <2>1, Shrinks DEF IInv
  <2>3. spend[m] + MaxCost * Cardinality(Exposed(m)) <= Ceiling
    BY <1>4 DEF IInv, Capped
  <2> QED BY <1>2, <1>3, <2>2, <2>3
<1>5. CASE m = month + 1
  <2>1. spend[m] = 0
    BY <1>1, <1>5 DEF IInv, NoneAhead
  <2>2. /\ blind \in Nat /\ resent \in Nat /\ Cardinality(Requests) \in Nat
        /\ Cardinality(Exposed(m)') \in Nat
        /\ Cardinality(Exposed(m)') <= Cardinality(Requests)
    BY CountersTyped, ExposedFiniteNext, FS_CardinalityType DEF IInv
  <2>3. /\ Cardinality(Requests) + blind + resent \in Nat
        /\ Cardinality(Exposed(m)') <= Cardinality(Requests) + blind + resent
    BY <2>2
  <2>4. /\ MaxCost * Cardinality(Exposed(m)')
              <= MaxCost * (Cardinality(Requests) + blind + resent)
        /\ MaxCost * (Cardinality(Requests) + blind + resent) \in Nat
    BY <2>2, <2>3, Scaled
  <2>5. LastUnder \in Nat
    BY DEF LastUnder
  <2> QED BY <1>2, <2>1, <2>4, <2>5 DEF Ceiling
<1> QED BY <1>1, <1>4, <1>5

LEMMA StepCapped == IInv /\ [Next]_vars /\ TypeOK' => Capped'
<1> SUFFICES ASSUME IInv, [Next]_vars, TypeOK' PROVE Capped'
    OBVIOUS
<1>1. ASSUME NEW r \in Requests, NEW at, StopAt(r, at),
             UNCHANGED <<month, spend, blind, resent>>,
             at \notin PastGate \/ r \in Exposed(month)
      PROVE  Capped'
  BY <1>1, MoveQuiet, QuietKeepsCap DEF IInv
<1>2. ASSUME UNCHANGED <<pc, key, month, spend, blind, resent>> PROVE Capped'
  BY <1>2, SameExposure, QuietKeepsCap
<1>3. ASSUME NEW r \in Requests, NEW stream \in BOOLEAN, Begin(r, stream) PROVE Capped'
  <2>1. PICK at \in {"lookup", "stream_budget"} : StopAt(r, at)
    BY <1>3 DEF Begin
  <2> QED BY <1>1, <1>3, <2>1 DEF Begin, Untouched, PastGate
<1>4. ASSUME NEW r \in Requests, CacheHit(r) \/ LogRequest(r) PROVE Capped'
  <2>1. MoveTo(r, "reply") /\ UNCHANGED <<spend, blind, resent>>
    BY <1>4 DEF CacheHit, LogRequest
  <2> QED BY <1>1, <2>1 DEF MoveTo, PastGate
<1>5. ASSUME NEW r \in Requests, CacheMiss(r) \/ CallFails(r) \/ addSpendFails(r)
      PROVE Capped'
  <2>1. PICK at \in {"budget", "reply", "log"} : MoveTo(r, at)
    BY <1>5 DEF CacheMiss, CallFails, addSpendFails
  <2>2. UNCHANGED <<spend, blind, resent>>
    BY <1>5 DEF CacheMiss, CallFails, addSpendFails, Untouched
  <2> QED BY <1>1, <2>1, <2>2 DEF MoveTo, PastGate
<1>6. ASSUME NEW r \in Requests, StreamEnds(r) \/ Drain(r) PROVE Capped'
  <2>1. r \in Exposed(month)
    BY <1>6 DEF StreamEnds, Drain, Exposed
  <2>2. PICK at \in {"charge", "streaming"} : MoveTo(r, at)
    BY <1>6 DEF StreamEnds, Drain
  <2>3. Untouched
    BY <1>6 DEF StreamEnds, Drain
  <2> QED BY <1>1, <2>1, <2>2, <2>3 DEF MoveTo, Untouched
<1>7. ASSUME NEW r \in Requests, NEW c, NEW full,
             Answered(r, c) \/ FirstChunk(r, c, full) \/ NextChunk(r, c, full)
      PROVE Capped'
  <2>1. r \in Exposed(month)
    BY <1>7 DEF Answered, FirstChunk, NextChunk, Exposed
  <2>2. PICK at \in {"charge", "streaming", "drain"} : MoveTo(r, at)
    BY <1>7 DEF Answered, FirstChunk, NextChunk, Write
  <2>3. Untouched
    BY <1>7 DEF Answered, FirstChunk, NextChunk
  <2> QED BY <1>1, <2>1, <2>2, <2>3 DEF MoveTo, Untouched
<1>8. ASSUME NEW r \in Requests, Reply(r) PROVE Capped'
  BY <1>1, <1>8 DEF Reply, Untouched, PastGate
<1>9. ASSUME NEW r \in Requests, Disconnect(r) PROVE Capped'
  BY <1>2, <1>9 DEF Disconnect, Untouched
<1>10. CASE WriteSettles
  BY <1>2, <1>10 DEF WriteSettles
<1>11. CASE Signal \/ CloseDone \/ CloseTimeout \/ Flush \/ Exit \/ ExitFails
  BY <1>2, <1>11 DEF Signal, CloseDone, CloseTimeout, Flush, Exit, ExitFails, ProcStep,
     Untouched
<1>12. CASE Terminated \/ UNCHANGED vars
  BY <1>2, <1>12 DEF Terminated, vars
<1> QED
  BY <1>3, <1>4, <1>5, <1>6, <1>7, <1>8, <1>9, <1>10, <1>11, <1>12, GateKeepsCap,
     BlindKeepsCap, ChargeKeepsCap, ResendKeepsCap, RolloverKeepsCap DEF Next, RequestStep

-----------------------------------------------------------------------------
LEMMA InitIInv == Init => IInv
<1> SUFFICES ASSUME Init PROVE IInv
    OBVIOUS
<1>1. TypeOK
  BY DEF Init, TypeOK, NoKey
<1>2. NoneAhead
  BY DEF Init, NoneAhead, AtBudget
<1>3. ASSUME NEW m \in 1 .. Months PROVE spend[m] + MaxCost * Cardinality(Exposed(m)) <= Ceiling
  <2>1. Exposed(m) = {}
    BY DEF Init, Exposed, AtBudget
  <2>2. MaxCost * Cardinality(Exposed(m)) = 0
    BY <2>1, FS_EmptySet
  <2>3. Cardinality(Requests) + blind + resent \in Nat
    BY FS_CardinalityType DEF Init
  <2>4. MaxCost * (Cardinality(Requests) + blind + resent) \in Nat
    BY <2>3, Scaled
  <2>5. LastUnder \in Nat /\ spend[m] = 0
    BY DEF LastUnder, Init
  <2> QED BY <2>2, <2>4, <2>5 DEF Ceiling
<1> QED BY <1>1, <1>2, <1>3 DEF IInv, Capped

LEMMA StepIInv == IInv /\ [Next]_vars => IInv'
BY StepTyped, StepNoneAhead, StepCapped DEF IInv

LEMMA CapImpliesBound == IInv => OvershootBounded
<1> SUFFICES ASSUME IInv, NEW m \in 1 .. Months PROVE spend[m] <= Ceiling
    BY DEF OvershootBounded
<1>1. /\ spend[m] \in Nat /\ Ceiling \in Int /\ month \in 1 .. Months
      /\ MaxCost * Cardinality(Exposed(m)) \in Nat
  BY CountersTyped, CeilingTyped, ExposedFinite, Scaled DEF IInv
<1>2. CASE m <= month
  BY <1>1, <1>2 DEF IInv, Capped
<1>3. CASE m > month
  <2>1. spend[m] = 0
    BY <1>3 DEF IInv, NoneAhead
  <2>2. Ceiling \in Nat
    <3>1. Cardinality(Requests) + blind + resent \in Nat
      BY CountersTyped, FS_CardinalityType DEF IInv
    <3>2. MaxCost * (Cardinality(Requests) + blind + resent) \in Nat
      BY <3>1, Scaled
    <3> QED BY <3>2 DEF Ceiling, LastUnder
  <2> QED BY <2>1, <2>2
<1> QED BY <1>1, <1>2, <1>3

(* The variables of the accounting keep their types; in particular the      *)
(* queue of audit rows stays within MAX_PENDING_LOG_WRITES                  *)
(* (src/src/services/cost-tracker.ts:71).                                   *)
THEOREM TypeCorrect == Spec => []TypeOK
<1>1. IInv => TypeOK
  BY DEF IInv
<1> QED BY InitIInv, StepIInv, <1>1, PTL DEF Spec

(* Whatever the budget, the prices and the concurrency, no month is         *)
(* overshot by more than one request's cost per concurrent request, per     *)
(* budget read that failed open and per charge that Redis applied twice.    *)
THEOREM OvershootAlwaysBounded == Spec => []OvershootBounded
BY InitIInv, StepIInv, CapImpliesBound, PTL DEF Spec

-----------------------------------------------------------------------------
(* Shutdown.  From the flush on, a handler that still runs has lost its     *)
(* client; after it, the queue holds only rows of such handlers.            *)
Drained ==
    proc \in {"flushing", "closed", "exit0"} =>
        \A r \in Requests : client[r] => pc[r] = "idle"

RowsCovered == proc \in {"closed", "exit0"} => pending <= late

ShutdownInv == TypeOK /\ Drained /\ RowsCovered

(* A handler that goes on had not answered a client that stays. *)
LEMMA MoveKeepsDrained ==
    ASSUME TypeOK, Drained, NEW r \in Requests, NEW at,
           pc[r] # "idle" \/ proc = "serving",
           pc' = [pc EXCEPT ![r] = at], UNCHANGED <<proc, client>>
    PROVE  Drained'
BY DEF TypeOK, Drained

LEMMA RowsFrame ==
    ASSUME RowsCovered, UNCHANGED <<proc, pending, late>>
    PROVE  RowsCovered'
BY DEF RowsCovered

(* A row queued after the flush belongs to a client that has left. *)
LEMMA EnqueueKeepsRows ==
    ASSUME ShutdownInv, NEW r \in Requests, Running, pc[r] # "idle",
           enqueueRequest(r), UNCHANGED proc
    PROVE  RowsCovered'
<1>1. CASE proc = "closed"
  <2>1. ~client[r]
    BY <1>1 DEF ShutdownInv, Drained
  <2> QED BY <1>1, <2>1 DEF ShutdownInv, TypeOK, RowsCovered, enqueueRequest
<1>2. CASE proc # "closed"
  BY <1>2 DEF RowsCovered, Running, Exited
<1> QED BY <1>1, <1>2

LEMMA ShutdownStep ==
    ASSUME ShutdownInv, [Next]_vars
    PROVE  Drained' /\ RowsCovered'
<1> USE DEF ShutdownInv
<1>1. ASSUME NEW r \in Requests, CacheHit(r) \/ LogRequest(r)
      PROVE  Drained' /\ RowsCovered'
  <2>1. /\ pc[r] # "idle" /\ Running /\ enqueueRequest(r)
        /\ pc' = [pc EXCEPT ![r] = "reply"] /\ UNCHANGED <<proc, client>>
    BY <1>1 DEF CacheHit, LogRequest, MoveTo, StopAt
  <2> QED BY <2>1, MoveKeepsDrained, EnqueueKeepsRows
<1>2. ASSUME NEW r \in Requests, NEW stream \in BOOLEAN, Begin(r, stream)
      PROVE  Drained' /\ RowsCovered'
  BY <1>2, MoveKeepsDrained, RowsFrame DEF Begin, StopAt, Untouched
<1>3. ASSUME NEW r \in Requests,
             \/ CacheMiss(r) \/ CallFails(r) \/ StreamEnds(r) \/ Drain(r)
             \/ enforceBudget(r) \/ enforceBudgetBlind(r)
             \/ addSpend(r) \/ addSpendFails(r)
      PROVE  Drained' /\ RowsCovered'
  <2>1. /\ pc[r] # "idle" /\ UNCHANGED <<proc, client, pending, late>>
        /\ \E at : pc' = [pc EXCEPT ![r] = at]
    BY <1>3 DEF CacheMiss, CallFails, StreamEnds, Drain, enforceBudget,
       enforceBudgetBlind, addSpend, addSpendFails, AtCall, AtBudget, MoveTo, StopAt,
       Untouched
  <2> QED BY <2>1, MoveKeepsDrained, RowsFrame
<1>4. ASSUME NEW r \in Requests, NEW c \in 0 .. MaxCost, NEW full \in BOOLEAN,
             Answered(r, c) \/ FirstChunk(r, c, full) \/ NextChunk(r, c, full)
      PROVE  Drained' /\ RowsCovered'
  <2>1. /\ pc[r] # "idle" /\ UNCHANGED <<proc, client, pending, late>>
        /\ \E at : pc' = [pc EXCEPT ![r] = at]
    BY <1>4 DEF Answered, FirstChunk, NextChunk, MoveTo, StopAt, Untouched
  <2> QED BY <2>1, MoveKeepsDrained, RowsFrame
<1>5. ASSUME NEW r \in Requests, addSpendResent(r) PROVE Drained' /\ RowsCovered'
  BY <1>5 DEF addSpendResent, Drained, RowsCovered
<1>6. ASSUME NEW r \in Requests, Reply(r) \/ Disconnect(r)
      PROVE  Drained' /\ RowsCovered'
  BY <1>6 DEF Reply, Disconnect, StopAt, Untouched, TypeOK, Drained, RowsCovered
<1>7. CASE WriteSettles
  BY <1>7 DEF WriteSettles, TypeOK, Drained, RowsCovered
<1>8. CASE Signal \/ CloseTimeout \/ Exit \/ ExitFails
  BY <1>8 DEF Signal, CloseTimeout, Exit, ExitFails, ProcStep, Untouched,
              Drained, RowsCovered
<1>9. CASE CloseDone \/ Flush
  BY <1>9 DEF CloseDone, Flush, ProcStep, Untouched, TypeOK, Drained, RowsCovered
<1>10. CASE Rollover \/ Terminated \/ UNCHANGED vars
  BY <1>10 DEF Rollover, Terminated, vars, Untouched, Drained, RowsCovered
<1> QED
  BY <1>1, <1>2, <1>3, <1>4, <1>5, <1>6, <1>7, <1>8, <1>9, <1>10 DEF Next, RequestStep

LEMMA ShutdownAlways == Spec => []ShutdownInv
<1>1. Init => ShutdownInv
  <2>1. Init => Drained /\ RowsCovered
    BY DEF Init, Drained, RowsCovered
  <2>2. Init => TypeOK
    BY InitIInv DEF IInv
  <2> QED BY <2>1, <2>2 DEF ShutdownInv
<1>2. TypeOK' /\ ShutdownInv /\ [Next]_vars => ShutdownInv'
  BY ShutdownStep DEF ShutdownInv
<1> QED BY <1>1, <1>2, TypeCorrect, PTL DEF Spec

(* The order of the shutdown in main(): exit code 0 means that every client *)
(* that stayed has its answer, and that the only rows that can be missing   *)
(* are those that handlers of departed clients queued after the flush.      *)
THEOREM ShutdownIsClean == Spec => []CleanShutdown
<1>1. ShutdownInv => CleanShutdown
  BY DEF ShutdownInv, Drained, RowsCovered, CleanShutdown
<1> QED BY <1>1, ShutdownAlways, PTL
=============================================================================
