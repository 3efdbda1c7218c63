--------------------------- MODULE AuthCacheProofs ---------------------------
(***************************************************************************)
(* Proofs about AuthCache, for every number of requests, updates and       *)
(* failed Redis calls, and every TTL.                                      *)
(***************************************************************************)
EXTENDS AuthCache, TLAPS

Contexts == Versions \cup {NoEntry}
Steps == Waiting \cup {"idle", "accepted", "rejected"}

TypeOK ==
    /\ active \in BOOLEAN /\ clean \in BOOLEAN
    /\ version \in Versions
    /\ lapsed \subseteq 0 .. version
    /\ entry \in Contexts
    /\ pc \in [Requests -> Steps]
    /\ got \in [Requests -> Contexts]
    /\ valid \in [Requests -> BOOLEAN]
    /\ late \in [Requests -> SUBSET Int]

(* A context that a request holds and will be let in with had not expired   *)
(* when the request began.                                                  *)
HeldInTime ==
    \A r \in Requests :
        /\ late[r] \subseteq lapsed
        /\ pc[r] \in {"touch", "fill", "accepted"} => got[r] \notin late[r]

(* A request during which the key was always valid sees a valid row.        *)
ValidNow ==
    \A r \in Requests :
        /\ valid[r] => Usable(active, version, lapsed)
        /\ pc[r] = "rejected" => ~valid[r]

(* The inductive invariant. *)
IInv == TypeOK /\ HeldInTime /\ ValidNow /\ CacheCurrent

-----------------------------------------------------------------------------
LEMMA InvInit == Init => IInv
<1> SUFFICES ASSUME Init PROVE IInv
  OBVIOUS
<1>1. TypeOK
  BY AuthAssumption DEF Init, TypeOK, Versions, Contexts, Steps
<1>2. HeldInTime /\ ValidNow /\ CacheCurrent
  BY DEF Init, HeldInTime, ValidNow, CacheCurrent
<1> QED BY <1>1, <1>2 DEF IInv

(* A step that only moves one request keeps what the others rely on. *)
LEMMA ArriveKeeps == ASSUME IInv, NEW r \in Requests, Arrive(r) PROVE IInv'
<1> USE DEF IInv, Arrive, Goto, row, cache
<1>1. TypeOK'
  <2>1. Usable(active, version, lapsed) \in BOOLEAN
    BY DEF Usable, TypeOK
  <2>2. valid' \in [Requests -> BOOLEAN]
    BY <2>1, Zenon DEF TypeOK
  <2>3. lapsed \in SUBSET Int
    BY AuthAssumption DEF TypeOK, Versions
  <2>4. late' \in [Requests -> SUBSET Int]
    BY <2>3 DEF TypeOK
  <2>5. pc' \in [Requests -> Steps]
    BY DEF TypeOK, Steps, Waiting
  <2> QED BY <2>2, <2>4, <2>5 DEF TypeOK
<1>2. HeldInTime'
  BY DEF HeldInTime, TypeOK
<1>3. ValidNow'
  BY DEF ValidNow, TypeOK, Usable
<1>4. CacheCurrent'
  BY DEF CacheCurrent
<1> QED BY <1>1, <1>2, <1>3, <1>4

LEMMA AfterGetSteps ==
    ASSUME NEW hit
    PROVE  /\ AfterGet(hit) \in {"db", "del", "touch"}
           /\ AfterGet(hit) = "touch" => hit \notin lapsed
BY DEF AfterGet

LEMMA GetKeeps == ASSUME IInv, NEW r \in Requests, Get(r) PROVE IInv'
<1> USE DEF IInv, Get, Goto, row, cache, ghosts
<1>1. TypeOK'
  BY AfterGetSteps DEF TypeOK, Steps, Waiting
<1>2. HeldInTime'
  BY AfterGetSteps DEF HeldInTime, TypeOK
<1>3. ValidNow' /\ CacheCurrent'
  BY AfterGetSteps DEF ValidNow, TypeOK, Usable, CacheCurrent
<1> QED BY <1>1, <1>2, <1>3

LEMMA TouchKeeps == ASSUME IInv, NEW r \in Requests, Touch(r) PROVE IInv'
<1> USE DEF IInv, Touch, Goto, row, ghosts
<1>1. TypeOK'
  BY DEF TypeOK, Steps, Waiting
<1>2. HeldInTime'
  BY DEF HeldInTime, TypeOK
<1>3. ValidNow' /\ CacheCurrent'
  BY DEF ValidNow, TypeOK, Usable, CacheCurrent
<1> QED BY <1>1, <1>2, <1>3

LEMMA DropExpiredKeeps == ASSUME IInv, NEW r \in Requests, DropExpired(r) PROVE IInv'
<1> USE DEF IInv, DropExpired, Goto, row, ghosts
<1>1. TypeOK'
  BY DEF TypeOK, Steps, Waiting, Contexts
<1>2. HeldInTime'
  BY DEF HeldInTime, TypeOK
<1>3. ValidNow' /\ CacheCurrent'
  BY DEF ValidNow, TypeOK, Usable, CacheCurrent
<1> QED BY <1>1, <1>2, <1>3

LEMMA DbReadKeeps == ASSUME IInv, NEW r \in Requests, DbRead(r) PROVE IInv'
<1> USE DEF IInv, DbRead, Goto, row, cache, ghosts
<1>1. TypeOK'
  BY DEF TypeOK, Steps, Waiting, Contexts
<1>2. HeldInTime'
  BY DEF HeldInTime, TypeOK, Usable
<1>3. ValidNow' /\ CacheCurrent'
  BY DEF ValidNow, TypeOK, Usable, CacheCurrent
<1> QED BY <1>1, <1>2, <1>3

LEMMA FillKeeps == ASSUME IInv, NEW r \in Requests, Fill(r) PROVE IInv'
<1> USE DEF IInv, Fill, Goto, row
<1>1. TypeOK'
  BY DEF TypeOK, Steps, Waiting
<1>2. HeldInTime'
  BY DEF HeldInTime, TypeOK
<1>3. ValidNow' /\ CacheCurrent'
  BY DEF ValidNow, TypeOK, Usable, CacheCurrent
<1> QED BY <1>1, <1>2, <1>3

LEMMA AnswerKeeps == ASSUME IInv, NEW r \in Requests, Answer(r) PROVE IInv'
<1> USE DEF IInv, Answer, Goto, row, cache
<1>1. TypeOK'
  BY DEF TypeOK, Steps, Waiting, Contexts
<1>2. HeldInTime'
  BY DEF HeldInTime, TypeOK
<1>3. ValidNow' /\ CacheCurrent'
  BY DEF ValidNow, TypeOK, Usable, CacheCurrent
<1> QED BY <1>1, <1>2, <1>3

LEMMA RedisFailsKeeps == ASSUME IInv, NEW r \in Requests, RedisFails(r) PROVE IInv'
<1> USE DEF IInv, RedisFails, Goto, row, cache, ghosts
<1>1. TypeOK'
  BY DEF TypeOK, Steps, Waiting
<1>2. HeldInTime'
  BY DEF HeldInTime, TypeOK
<1>3. ValidNow' /\ CacheCurrent'
  BY DEF ValidNow, TypeOK, Usable, CacheCurrent
<1> QED BY <1>1, <1>2, <1>3

-----------------------------------------------------------------------------
(* Steps of the administrator and of the clock. *)
LEMMA RevokeKeeps == ASSUME IInv, Revoke PROVE IInv'
<1> USE DEF IInv, Revoke, cache
<1>1. TypeOK' /\ HeldInTime'
  BY DEF TypeOK, HeldInTime
<1>2. ValidNow' /\ CacheCurrent'
  BY DEF ValidNow, CacheCurrent
<1> QED BY <1>1, <1>2

LEMMA PatchKeeps == ASSUME IInv, NEW a \in BOOLEAN, Patch(a) PROVE IInv'
<1> USE DEF IInv, Patch, cache
<1>1. lapsed \subseteq 0 .. version' /\ version' \notin lapsed
  BY AuthAssumption DEF TypeOK, Versions
<1>2. \A r \in Requests : valid'[r] = (valid[r] /\ a)
  BY DEF TypeOK
<1>3. TypeOK'
  BY <1>1 DEF TypeOK
<1>4. HeldInTime' /\ CacheCurrent'
  BY DEF HeldInTime, CacheCurrent
<1>5. ValidNow'
  BY <1>1, <1>2 DEF ValidNow, Usable
<1> QED BY <1>3, <1>4, <1>5

LEMMA LapseKeeps == ASSUME IInv, NEW v \in Versions, Lapse(v) PROVE IInv'
<1> USE DEF IInv, Lapse, cache
<1>1. lapsed' \subseteq 0 .. version'
  BY AuthAssumption DEF TypeOK, Versions
<1>2. TypeOK'
  BY <1>1 DEF TypeOK
<1>3. HeldInTime' /\ CacheCurrent'
  BY DEF HeldInTime, CacheCurrent
<1>4. ValidNow'
  BY DEF ValidNow, Usable
<1> QED BY <1>2, <1>3, <1>4

LEMMA InvalidateKeeps == ASSUME IInv, Invalidate PROVE IInv'
BY DEF IInv, Invalidate, row, TypeOK, Contexts, HeldInTime, ValidNow, Usable, CacheCurrent

LEMMA InvalidateFailsKeeps == ASSUME IInv, InvalidateFails PROVE IInv'
BY DEF IInv, InvalidateFails, row, cache, TypeOK, HeldInTime, ValidNow, Usable, CacheCurrent

LEMMA TickKeeps == ASSUME IInv, Tick PROVE IInv'
BY DEF IInv, Tick, row, TypeOK, Contexts, HeldInTime, ValidNow, Usable, CacheCurrent

LEMMA InvStep == IInv /\ [Next]_vars => IInv'
<1> SUFFICES ASSUME IInv, [Next]_vars PROVE IInv'
  OBVIOUS
<1>1. ASSUME NEW r \in Requests, Arrive(r) \/ RequestStep(r) \/ RedisFails(r)
      PROVE  IInv'
  BY <1>1, ArriveKeeps, GetKeeps, TouchKeeps, DropExpiredKeeps, DbReadKeeps,
     FillKeeps, AnswerKeeps, RedisFailsKeeps DEF RequestStep
<1>2. CASE UNCHANGED vars
  BY <1>2 DEF vars, IInv, TypeOK, HeldInTime, ValidNow, Usable, CacheCurrent
<1> QED BY <1>1, <1>2, RevokeKeeps, PatchKeeps, InvalidateKeeps,
           InvalidateFailsKeeps, LapseKeeps, TickKeeps DEF Next

LEMMA Invariance == Spec => []IInv
<1>1. Init => IInv
  BY InvInit
<1>2. IInv /\ [Next]_vars => IInv'
  BY InvStep
<1> QED BY <1>1, <1>2, PTL DEF Spec

-----------------------------------------------------------------------------
(* authenticateKey checks expiresAt on the cached path too: no request is   *)
(* let in with a version of the key that had expired when it began.         *)
THEOREM ExpiryIsEnforced == Spec => []ExpiryEnforced
<1>1. IInv => ExpiryEnforced
  BY DEF IInv, HeldInTime, ExpiryEnforced
<1> QED BY <1>1, Invariance, PTL

(* A key that stays valid is never refused, whatever Redis and the other    *)
(* requests do to the cache: every miss, expired hit and failed call falls  *)
(* through to the database.                                                 *)
THEOREM ValidKeyIsAccepted == Spec => []ValidKeyAccepted
<1>1. IInv => ValidKeyAccepted
  BY DEF IInv, ValidNow, ValidKeyAccepted
<1> QED BY <1>1, Invariance, PTL

(* The two races that the run names are the only ways for the cache to      *)
(* disagree with the row after an admin call has returned.                  *)
THEOREM CacheIsCurrent == Spec => []CacheCurrent
<1>1. IInv => CacheCurrent
  BY DEF IInv
<1> QED BY <1>1, Invariance, PTL
=============================================================================
