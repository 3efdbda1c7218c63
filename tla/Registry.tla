------------------------------ MODULE Registry ------------------------------
(***************************************************************************)
(* The provider registry of one replica (src/src/providers/registry.ts):   *)
(* an in-memory snapshot of the provider tables, refreshed by the request  *)
(* that finds it stale and reloaded by the admin routes after each change  *)
(* (src/src/routes/admin/providers.ts).  The process is past its startup   *)
(* load, so loadedAtMs is never 0.                                         *)
(*                                                                         *)
(* The tables are a version number; a snapshot is the version it was read  *)
(* at.  A load is two steps apart from its start: PostgreSQL runs the      *)
(* query, and its result is installed when the process gets to it.         *)
(***************************************************************************)
EXTENDS Integers, FiniteSets

CONSTANTS
    Requests,     \* requests that this replica serves at a time
    Admins,       \* administrators on this replica
    NoOne,
    Ttl,          \* REGISTRY_CACHE_TTL_SECONDS
    Retry,        \* REFRESH_RETRY_MS
    MaxChanges,   \* bound on the changes of the tables
    MaxFaults     \* bound on the failed queries

ASSUME RegistryAssumption ==
    /\ IsFiniteSet(Requests) /\ IsFiniteSet(Admins)
    /\ Requests \cap Admins = {} /\ NoOne \notin Requests
    /\ Ttl \in Nat \ {0} /\ Retry \in Nat \ {0}
    /\ MaxChanges \in Nat /\ MaxFaults \in Nat

VARIABLES
    rows,       \* the tables in PostgreSQL
    snap, age,  \* the snapshot and its age, saturated at Ttl
    load,       \* per caller of load(): not loading, query sent, or the rows read
    inflight,   \* the request that runs the shared refresh
    pc,
    faults,
    \* History, read by the properties only:
    wrote,      \* per administrator: version its change made
    quiet       \* ticks since the last failed refresh, saturated

registryVars == <<rows, snap, age, load, inflight, pc, faults, wrote, quiet>>

Versions == 0 .. MaxChanges
Loaders == Requests \cup Admins
NotLoading == -2
Asked == -1

RegistryInit ==
    /\ rows = 0 /\ snap = 0 /\ age = 0
    /\ load = [l \in Loaders |-> NotLoading]
    /\ inflight = NoOne
    /\ pc = [l \in Loaders |-> "idle"]
    /\ faults = 0
    /\ wrote = [a \in Admins |-> 0]
    /\ quiet = Retry

-----------------------------------------------------------------------------
(* Mutant of Refresh: every request that finds the snapshot stale loads. *)
RefreshEach(r) ==
    /\ pc[r] = "idle"
    /\ IF age < Ttl
       THEN pc' = [pc EXCEPT ![r] = "ready"] /\ UNCHANGED <<load, inflight>>
       ELSE /\ pc' = [pc EXCEPT ![r] = "wait"]
            /\ inflight' = r
            /\ load' = [load EXCEPT ![r] = Asked]
    /\ UNCHANGED <<rows, snap, age, faults, wrote, quiet>>

(* refreshIfStale: a fresh snapshot is used as it is, a stale one starts a  *)
(* load unless one is under way, and waits for it.                          *)
Refresh(r) ==
    /\ pc[r] = "idle"
    /\ IF age < Ttl
       THEN pc' = [pc EXCEPT ![r] = "ready"] /\ UNCHANGED <<load, inflight>>
       ELSE /\ pc' = [pc EXCEPT ![r] = "wait"]
            /\ IF inflight = NoOne
               THEN inflight' = r /\ load' = [load EXCEPT ![r] = Asked]
               ELSE UNCHANGED <<load, inflight>>
    /\ UNCHANGED <<rows, snap, age, faults, wrote, quiet>>

(* resolveCandidates on whatever snapshot there is now; the request leaves. *)
Resolve(r) ==
    /\ pc[r] = "ready"
    /\ pc' = [pc EXCEPT ![r] = "idle"]
    /\ UNCHANGED <<rows, snap, age, load, inflight, faults, wrote, quiet>>

(* PostgreSQL runs the query of a load. *)
Query(l) ==
    /\ load[l] = Asked
    /\ load' = [load EXCEPT ![l] = rows]
    /\ UNCHANGED <<rows, snap, age, inflight, pc, faults, wrote, quiet>>

(* Those who wait for the load of l go on when it settles. *)
Released(l, end) ==
    [k \in Loaders |->
        IF l \in Admins THEN IF k = l THEN end ELSE pc[k]
        ELSE IF pc[k] = "wait" THEN IF k \in Admins THEN end ELSE "ready"
        ELSE pc[k]]

(* Mutant of Settled: a refresh that has settled stays the shared one. *)
SettledForever(l) == inflight

(* The shared refresh after the load of l is over. *)
Settled(l) == IF l = inflight THEN NoOne ELSE inflight

(* The end of load(): the snapshot is replaced by what the query returned. *)
Install(l) ==
    /\ load[l] \in Versions
    /\ snap' = load[l] /\ age' = 0
    /\ load' = [load EXCEPT ![l] = NotLoading]
    /\ inflight' = Settled(l)
    /\ pc' = Released(l, "done")
    /\ UNCHANGED <<rows, faults, wrote, quiet>>

(* Mutant of AgeAfterFailure: loadedAtMs stays as it was. *)
NoBackoff == age

(* loadedAtMs after a failed refresh: due again in Retry. *)
AgeAfterFailure == Ttl - Retry

(* The query rejects.  A refresh keeps the old snapshot; an admin route     *)
(* answers with an error although the change is committed.                  *)
LoadFails(l) ==
    /\ faults < MaxFaults /\ faults' = faults + 1
    /\ load[l] = Asked
    /\ load' = [load EXCEPT ![l] = NotLoading]
    /\ inflight' = Settled(l)
    /\ pc' = Released(l, "failed")
    /\ age' = IF l \in Requests THEN AgeAfterFailure ELSE age
    /\ quiet' = IF l \in Requests THEN 0 ELSE quiet
    /\ UNCHANGED <<rows, snap, wrote>>

-----------------------------------------------------------------------------
(* INSERT, UPDATE or DELETE of an admin route on this replica. *)
Change(a) ==
    /\ pc[a] = "idle"
    /\ rows < MaxChanges
    /\ rows' = rows + 1
    /\ wrote' = [wrote EXCEPT ![a] = rows + 1]
    /\ pc' = [pc EXCEPT ![a] = "changed"]
    /\ UNCHANGED <<snap, age, load, inflight, faults, quiet>>

(* Mutant of Reload: join the refresh that is under way. *)
ReloadJoins(a) ==
    /\ pc[a] = "changed"
    /\ pc' = [pc EXCEPT ![a] = IF inflight = NoOne THEN "reloading" ELSE "wait"]
    /\ load' = IF inflight = NoOne THEN [load EXCEPT ![a] = Asked] ELSE load
    /\ UNCHANGED <<rows, snap, age, inflight, faults, wrote, quiet>>

(* registry.load() of the admin route: always a load of its own. *)
Reload(a) ==
    /\ pc[a] = "changed"
    /\ pc' = [pc EXCEPT ![a] = "reloading"]
    /\ load' = [load EXCEPT ![a] = Asked]
    /\ UNCHANGED <<rows, snap, age, inflight, faults, wrote, quiet>>

(* The administrator has the reply. *)
Reply(a) ==
    /\ pc[a] \in {"done", "failed"}
    /\ pc' = [pc EXCEPT ![a] = "idle"]
    /\ wrote' = [wrote EXCEPT ![a] = 0]
    /\ UNCHANGED <<rows, snap, age, load, inflight, faults, quiet>>

(* A change through another replica. *)
RemoteChange ==
    /\ rows < MaxChanges
    /\ rows' = rows + 1
    /\ UNCHANGED <<snap, age, load, inflight, pc, faults, wrote, quiet>>

Tick ==
    /\ age' = IF age < Ttl THEN age + 1 ELSE age
    /\ quiet' = IF quiet < Retry THEN quiet + 1 ELSE quiet
    /\ UNCHANGED <<rows, snap, load, inflight, pc, faults, wrote>>

RegistryNext ==
    \/ \E r \in Requests : Refresh(r) \/ Resolve(r)
    \/ \E l \in Loaders : Query(l) \/ Install(l) \/ LoadFails(l)
    \/ \E a \in Admins : Change(a) \/ Reload(a) \/ Reply(a)
    \/ RemoteChange
    \/ Tick

RegistrySpec == RegistryInit /\ [][RegistryNext]_registryVars

(* Time passes, queries return (query_timeout ends the slow ones), and      *)
(* requests keep coming; nobody has to change anything.                     *)
FairSpec ==
    /\ RegistrySpec
    /\ WF_registryVars(Tick)
    /\ \A l \in Loaders : WF_registryVars(Query(l)) /\ WF_registryVars(Install(l))
    /\ \A r \in Requests : WF_registryVars(Refresh(r)) /\ WF_registryVars(Resolve(r))

-----------------------------------------------------------------------------
(* "Refreshes are de-duplicated": at most one request-driven load runs, and *)
(* whoever waits does so for a load that is really under way.               *)
SingleFlight ==
    /\ \A r \in Requests : load[r] # NotLoading => inflight = r
    /\ \A l \in Loaders :
        pc[l] = "wait" => inflight # NoOne /\ load[inflight] # NotLoading

(* When an admin route reports success, this replica has just installed a   *)
(* snapshot that contains its change.                                       *)
ReloadSeesChange ==
    [][\A a \in Admins :
        pc[a] # "done" /\ pc'[a] = "done" => snap' >= wrote[a]]_registryVars

(* After a failed refresh the database is left alone for Retry (or a whole  *)
(* TTL, if that is shorter): an outage causes no stampede.                  *)
BackoffHolds ==
    [][\A r \in Requests :
        load[r] = NotLoading /\ load'[r] # NotLoading
            => quiet >= Retry \/ quiet >= Ttl]_registryVars

(* The snapshot catches up for good with tables that no longer change,      *)
(* although loads overtake each other and some of them fail.                *)
Converges == <>[](snap = rows)
=============================================================================
