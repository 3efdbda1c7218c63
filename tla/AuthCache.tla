----------------------------- MODULE AuthCache -----------------------------
(***************************************************************************)
(* API-key authentication (src/src/auth/middleware.ts) against the admin   *)
(* routes that change a key (src/src/routes/admin/keys.ts): one key, its   *)
(* row in PostgreSQL, its entry in the Redis cache, requests on any        *)
(* replica and one administrator.  Every round trip to Redis or PostgreSQL *)
(* is a step of its own.                                                   *)
(*                                                                         *)
(* The row is its activity flag and a version (limits, allow-list, budget, *)
(* expiry); a version lapses when its expiresAt has passed.                *)
(***************************************************************************)
EXTENDS Integers, FiniteSets

CONSTANTS
    Requests,
    MaxUpdates,   \* bound on the PATCHes of one run
    Ttl,          \* AUTH_CACHE_TTL_SECONDS
    MaxFaults     \* bound on failed Redis calls

ASSUME AuthAssumption ==
    /\ IsFiniteSet(Requests)
    /\ Ttl \in Nat \ {0} /\ MaxFaults \in Nat /\ MaxUpdates \in Nat

VARIABLES
    active, version,   \* the row
    lapsed,            \* versions whose expiresAt has passed
    entry, ttl,        \* the cached context and its TTL
    pc, got,           \* per request: next round trip, context in hand
    admin,             \* the administrator: idle, or the DEL is still to come
    faults,
    \* History, read by the properties only:
    valid,             \* per request: the key was valid all the time since it began
    late,              \* per request: versions lapsed before it began
    clean              \* no context was cached after its row had changed, no DEL lost

vars == <<active, version, lapsed, entry, ttl, pc, got, admin, faults,
          valid, late, clean>>
row == <<active, version, lapsed>>
cache == <<entry, ttl>>
ghosts == <<valid, late, clean>>

Versions == 0 .. MaxUpdates
NoEntry == -1
Waiting == {"get", "touch", "del", "db", "fill"}

Usable(a, v, l) == a /\ v \notin l

Init ==
    /\ active = TRUE /\ version = 0 /\ lapsed = {}
    /\ entry = NoEntry /\ ttl = 0
    /\ pc = [r \in Requests |-> "idle"]
    /\ got = [r \in Requests |-> NoEntry]
    /\ admin = "idle"
    /\ faults = 0
    /\ valid = [r \in Requests |-> FALSE]
    /\ late = [r \in Requests |-> {}]
    /\ clean = TRUE

Goto(r, step) == pc' = [pc EXCEPT ![r] = step]

-----------------------------------------------------------------------------
(* authPreHandler: a request with this key comes in. *)
Arrive(r) ==
    /\ pc[r] = "idle"
    /\ Goto(r, "get")
    /\ valid' = [valid EXCEPT ![r] = Usable(active, version, lapsed)]
    /\ late' = [late EXCEPT ![r] = lapsed]
    /\ UNCHANGED <<row, cache, got, admin, faults, clean>>

(* Mutants of AfterGet: a hit is not checked for expiry; an expired hit is *)
(* refused without asking the database.                                    *)
HitWithoutExpiry(hit) == IF hit = NoEntry THEN "db" ELSE "touch"

ExpiredHitRefused(hit) ==
    CASE hit = NoEntry -> "db"
      [] hit # NoEntry /\ hit \in lapsed -> "rejected"
      [] OTHER -> "touch"

(* What authenticateKey does with the answer of redis.get. *)
AfterGet(hit) ==
    CASE hit = NoEntry -> "db"
      [] hit # NoEntry /\ hit \in lapsed -> "del"
      [] OTHER -> "touch"

Get(r) ==
    /\ pc[r] = "get"
    /\ got' = [got EXCEPT ![r] = entry]
    /\ Goto(r, AfterGet(entry))
    /\ UNCHANGED <<row, cache, admin, faults, ghosts>>

(* Mutant of Touch: the context in hand is written back with a fresh TTL. *)
TouchRewrites(r) ==
    /\ pc[r] = "touch"
    /\ entry' = got[r] /\ ttl' = Ttl
    /\ Goto(r, "accepted")
    /\ UNCHANGED <<row, got, admin, faults, ghosts>>

(* redis.expire refreshes whatever entry there is by now, and the context   *)
(* read before is returned.                                                 *)
Touch(r) ==
    /\ pc[r] = "touch"
    /\ ttl' = IF entry # NoEntry THEN Ttl ELSE 0
    /\ Goto(r, "accepted")
    /\ UNCHANGED <<row, entry, got, admin, faults, ghosts>>

(* redis.del of an expired entry; then the database decides. *)
DropExpired(r) ==
    /\ pc[r] = "del"
    /\ entry' = NoEntry /\ ttl' = 0
    /\ Goto(r, "db")
    /\ UNCHANGED <<row, got, admin, faults, ghosts>>

(* The lookup of active keys and the expiry check. *)
DbRead(r) ==
    /\ pc[r] = "db"
    /\ IF Usable(active, version, lapsed)
       THEN got' = [got EXCEPT ![r] = version] /\ Goto(r, "fill")
       ELSE Goto(r, "rejected") /\ UNCHANGED got
    /\ UNCHANGED <<row, cache, admin, faults, ghosts>>

(* redis.set of the context read from the database. *)
Fill(r) ==
    /\ pc[r] = "fill"
    /\ entry' = got[r] /\ ttl' = Ttl
    /\ Goto(r, "accepted")
    /\ clean' = (clean /\ active /\ got[r] = version)
    /\ UNCHANGED <<row, got, admin, faults, valid, late>>

Answer(r) ==
    /\ pc[r] \in {"accepted", "rejected"}
    /\ Goto(r, "idle")
    /\ got' = [got EXCEPT ![r] = NoEntry]
    /\ valid' = [valid EXCEPT ![r] = FALSE]
    /\ late' = [late EXCEPT ![r] = {}]
    /\ UNCHANGED <<row, cache, admin, faults, clean>>

-----------------------------------------------------------------------------
(* UPDATE ... RETURNING of DELETE /keys/:id (or PATCH isActive: false). *)
Revoke ==
    /\ admin = "idle"
    /\ active' = FALSE
    /\ admin' = "revoking"
    /\ valid' = [r \in Requests |-> FALSE]
    /\ UNCHANGED <<version, lapsed, cache, pc, got, faults, late, clean>>

(* UPDATE ... RETURNING of PATCH /keys/:id: a new version, active again or  *)
(* as it was.                                                               *)
Patch(a) ==
    /\ admin = "idle"
    /\ version + 1 \in Versions
    /\ a \in {active, TRUE}
    /\ version' = version + 1
    /\ active' = a
    /\ admin' = "patching"
    /\ valid' = [r \in Requests |-> valid[r] /\ a]
    /\ UNCHANGED <<lapsed, cache, pc, got, faults, late, clean>>

(* invalidateAuthCache, then the administrator gets the reply. *)
Invalidate ==
    /\ admin # "idle"
    /\ entry' = NoEntry /\ ttl' = 0
    /\ admin' = "idle"
    /\ UNCHANGED <<row, pc, got, faults, valid, late, clean>>

(* expiresAt of a version passes. *)
Lapse(v) ==
    /\ v \notin lapsed /\ v <= version
    /\ lapsed' = lapsed \cup {v}
    /\ valid' = [r \in Requests |-> valid[r] /\ v # version]
    /\ UNCHANGED <<active, version, cache, pc, got, admin, faults, late, clean>>

(* A second passes. *)
Tick ==
    /\ ttl' = IF ttl > 0 THEN ttl - 1 ELSE 0
    /\ entry' = IF ttl = 1 THEN NoEntry ELSE entry
    /\ UNCHANGED <<row, pc, got, admin, faults, valid, late, clean>>

-----------------------------------------------------------------------------
(* A Redis call of a request rejects: get, expire and del fall through to   *)
(* the database, a failed set is ignored.                                   *)
RedisFails(r) ==
    /\ faults < MaxFaults /\ faults' = faults + 1
    /\ pc[r] \in {"get", "touch", "del", "fill"}
    /\ Goto(r, IF pc[r] = "fill" THEN "accepted" ELSE "db")
    /\ UNCHANGED <<row, cache, got, admin, ghosts>>

(* The DEL of the admin route rejects and is ignored. *)
InvalidateFails ==
    /\ faults < MaxFaults /\ faults' = faults + 1
    /\ admin # "idle"
    /\ admin' = "idle"
    /\ clean' = FALSE
    /\ UNCHANGED <<row, cache, pc, got, valid, late>>

RequestStep(r) ==
    \/ Get(r) \/ Touch(r) \/ DropExpired(r) \/ DbRead(r) \/ Fill(r)
    \/ Answer(r)

Next ==
    \/ \E r \in Requests : Arrive(r) \/ RequestStep(r) \/ RedisFails(r)
    \/ Revoke
    \/ \E a \in BOOLEAN : Patch(a)
    \/ Invalidate
    \/ InvalidateFails
    \/ \E v \in Versions : Lapse(v)
    \/ Tick

Spec == Init /\ [][Next]_vars

(* Round trips end and time passes; nobody has to send requests. *)
FairSpec ==
    /\ Spec
    /\ WF_vars(Tick) /\ WF_vars(Invalidate)
    /\ \A r \in Requests : WF_vars(RequestStep(r))

-----------------------------------------------------------------------------
(* Expiry is enforced on the cached path too: a request that began after a  *)
(* version of the key expired is never let in with that version, although   *)
(* hits keep the entry alive.                                               *)
ExpiryEnforced ==
    \A r \in Requests : pc[r] = "accepted" => got[r] \notin late[r]

(* A key that is valid throughout a request is never refused, with Redis up *)
(* or down and whatever other requests do to the cache.                     *)
ValidKeyAccepted == \A r \in Requests : pc[r] = "rejected" => ~valid[r]

(* Outside the two races (a fill that carries an older row, a lost DEL) the *)
(* cache never disagrees with the row once the admin call has returned.     *)
CacheCurrent ==
    clean /\ admin = "idle" /\ entry # NoEntry => active /\ entry = version

(* Claimed: "a deleted key stops working within one TTL at the latest":     *)
(* once the key stays revoked, requests are no longer let in after a while. *)
StopsWorkingClaim ==
    <>[](~active) => <>[](\A r \in Requests : pc[r] # "accepted")
=============================================================================
