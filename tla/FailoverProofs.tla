--------------------------- MODULE FailoverProofs ---------------------------
(***************************************************************************)
(* Proofs about Failover, for every number of requests, candidates and     *)
(* faults, and every configuration of the breakers.                        *)
(*                                                                         *)
(* The four invariants are about different variables and need different    *)
(* strengthenings, each on top of the same types and control: Gauges,      *)
(* Slots, Verdicts and Steady.                                             *)
(***************************************************************************)
EXTENDS Failover, FiniteSetTheorems, TLAPS

(* Between select and the release of the gauge, a request is at a provider. *)
InLoop == {"acquire", "calling", "unwind"} \cup Outcomes
Places == InLoop \cup Ends \cup {"idle", "select", "streaming"}
Exits == {"select", "ok", "error"}
Judgements == Outcomes \cup {"none", "refused"}

TypeOK ==
    /\ br \in [Providers -> Breaker]
    /\ conns \in [Providers -> Gauge]
    /\ pc \in [Requests -> Places]
    /\ remaining \in [Requests -> SUBSET Providers]
    /\ at \in [Requests -> Providers \cup {None}]
    /\ attempts \in [Requests -> Nat]
    /\ exit \in [Requests -> Exits]
    /\ reliable \subseteq Reliable
    /\ faults \in Nat
    /\ slot \in [Requests -> Providers \cup {None}]
    /\ verdict \in [Requests -> [Providers -> Judgements]]
    /\ calm \in BOOLEAN
    /\ \A r \in Requests : pc[r] \in InLoop => at[r] \in Providers

(* While calm, a request counts on the gauge of the provider it is at, and  *)
(* outside the loop it counts on none.                                      *)
Gauges ==
    /\ \A r \in Requests : pc[r] \notin InLoop => slot[r] = None
    /\ calm => \A r \in Requests : pc[r] \in InLoop => slot[r] = at[r]
    /\ calm => \A p \in Providers : conns[p].n = Cardinality(Holding(p))

(* Only a HALF_OPEN breaker has slots to give back. *)
Slots ==
    /\ \A p \in Providers : br[p].state # "HALF_OPEN" => br[p].probes = 0
    /\ SlotsAccounted

(* What has become of the candidates that are no longer in `remaining', and *)
(* of the one at hand.                                                      *)
AtHand(r) == pc[r] \in InLoop \cup {"ok", "error", "streaming"}
Failed(r) == {p \in Providers : verdict[r][p] = "failure"}

Judged(r) ==
    CASE pc[r] \in {"acquire", "calling"} -> {"none"}
      [] pc[r] \in Outcomes -> {pc[r]}
      [] pc[r] = "unwind" /\ exit[r] = "select" -> {"refused", "failure"}
      [] pc[r] = "unwind" /\ exit[r] = "ok" -> {"success"}
      [] pc[r] = "unwind" /\ exit[r] = "error" -> {"release"}
      [] pc[r] \in {"ok", "streaming"} -> {"success"}
      [] pc[r] = "error" -> {"release"}
      [] OTHER -> Judgements

(* The call that is counted in attempts and has not failed. *)
Extra(r) ==
    IF \/ pc[r] \in {"calling", "success", "release", "ok", "error", "streaming"}
       \/ pc[r] = "unwind" /\ exit[r] # "select"
    THEN 1 ELSE 0

VerdictOf(r) ==
    /\ \A p \in remaining[r] : verdict[r][p] = "none"
    /\ AtHand(r) =>
        /\ at[r] \in Providers \ remaining[r]
        /\ verdict[r][at[r]] \in Judged(r)
    /\ pc[r] # "idle" =>
        \A p \in Providers \ remaining[r] :
            (AtHand(r) /\ p = at[r]) \/ verdict[r][p] \in {"refused", "failure"}
    /\ pc[r] = "idle" => verdict[r] = NoVerdict
    /\ pc[r] = "exhausted" => remaining[r] = {}
    /\ attempts[r] = Cardinality(Failed(r)) + Extra(r)

Verdicts == \A r \in Requests : VerdictOf(r)

(* A provider that never fails is never refused to anyone. *)
Steady ==
    \A p \in reliable :
        /\ br[p].state = "CLOSED"
        /\ \A r \in Requests : verdict[r][p] \notin {"refused", "failure"}

IInv == TypeOK /\ Gauges /\ Slots /\ Verdicts /\ Steady

-----------------------------------------------------------------------------
(* What a script does to the probe slots of one breaker. *)
SlotState(b) == b \in Breaker /\ (b.state # "HALF_OPEN" => b.probes = 0)

LEMMA NoKeysSlots == SlotState(NoKeys) /\ NoKeys.probes = 0 /\ NoKeys.state = "CLOSED"
BY BreakerConfig DEF SlotState, NoKeys, Breaker, States, Absent, MaxAge

(* ACQUIRE_LUA takes one slot, and only for the caller it admits; a CLOSED  *)
(* breaker admits everyone.                                                 *)
LEMMA AcquireSlots ==
    ASSUME NEW b, SlotState(b)
    PROVE  /\ SlotState(AcquireLua(b, 0))
           /\ AcquireLua(b, 0).probes <= b.probes + (IF Allowed(b, 0) THEN 1 ELSE 0)
           /\ b.state = "CLOSED" => Allowed(b, 0) /\ AcquireLua(b, 0) = b
<1> DEFINE first == [b EXCEPT !.state = "HALF_OPEN", !.probes = 1,
                              !.lease = Timeout, !.successes = 0]
           more  == [b EXCEPT !.probes = b.probes + 1, !.lease = Timeout]
<1>0. /\ b \in Breaker /\ b.probes \in Nat /\ b.probes + 1 \in Nat
      /\ Timeout \in 0 .. Timeout
  BY BreakerConfig DEF SlotState, Breaker
<1>1. first \in Breaker /\ first.state = "HALF_OPEN" /\ first.probes = 1
  BY <1>0 DEF Breaker, States
<1>2. more \in Breaker /\ more.state = b.state /\ more.probes = b.probes + 1
  BY <1>0 DEF Breaker
<1>3. CASE b.state = "OPEN" /\ TimedOut(b, 0)
  <2>1. AcquireLua(b, 0) = first /\ Allowed(b, 0)
    BY <1>3 DEF AcquireLua, Allowed
  <2> HIDE DEF first
  <2> QED BY <1>0, <1>1, <1>3, <2>1 DEF SlotState
<1>4. CASE b.state = "HALF_OPEN" /\ b.probes < MaxProbes
  <2>1. AcquireLua(b, 0) = more /\ Allowed(b, 0)
    BY <1>4 DEF AcquireLua, Allowed
  <2> HIDE DEF more
  <2> QED BY <1>0, <1>2, <1>4, <2>1 DEF SlotState
<1>5. CASE /\ ~(b.state = "OPEN" /\ TimedOut(b, 0))
           /\ ~(b.state = "HALF_OPEN" /\ b.probes < MaxProbes)
  <2>1. AcquireLua(b, 0) = b
    BY <1>5 DEF AcquireLua
  <2> QED BY <1>0, <2>1 DEF Allowed
<1> QED BY <1>3, <1>4, <1>5

LEMMA GiveBackSlots ==
    ASSUME NEW b \in Breaker, b.state = "HALF_OPEN"
    PROVE  /\ SlotState(GiveBackProbe(b))
           /\ GiveBackProbe(b).probes = IF b.probes > 0 THEN b.probes - 1 ELSE 0
<1>1. (IF b.probes > 0 THEN b.probes - 1 ELSE b.probes) \in Nat
  BY DEF Breaker
<1>2. GiveBackProbe(b) \in Breaker
  BY <1>1 DEF GiveBackProbe, Breaker
<1>3. GiveBackProbe(b).state = b.state
  BY DEF GiveBackProbe, Breaker
<1>4. GiveBackProbe(b).probes = IF b.probes > 0 THEN b.probes - 1 ELSE 0
  BY DEF GiveBackProbe, Breaker
<1> QED BY <1>2, <1>3, <1>4 DEF SlotState

(* Every report settles a slot, if there is one to settle. *)
Settles(b, after) ==
    /\ SlotState(after)
    /\ after.probes <= IF b.probes > 0 THEN b.probes - 1 ELSE 0

LEMMA SuccessSlots ==
    ASSUME NEW b, SlotState(b)
    PROVE  /\ Settles(b, SuccessLua(b))
           /\ b.state = "CLOSED" => SuccessLua(b).state = "CLOSED"
<1>0. b \in Breaker /\ b.probes \in Nat /\ b.successes \in Nat
  BY DEF SlotState, Breaker
<1>1. CASE b.state = "HALF_OPEN" /\ b.successes + 1 >= SuccessThreshold
  <2>1. SuccessLua(b) = NoKeys
    <3>1. ~(b.successes + 1 < SuccessThreshold)
      BY <1>0, <1>1, BreakerConfig
    <3> QED BY <1>1, <3>1 DEF SuccessLua
  <2> QED BY <1>0, <1>1, <2>1, NoKeysSlots DEF Settles
<1>2. CASE b.state = "HALF_OPEN" /\ b.successes + 1 < SuccessThreshold
  <2> DEFINE more == [b EXCEPT !.successes = b.successes + 1]
  <2>1. more \in Breaker /\ more.state = "HALF_OPEN" /\ more.probes = b.probes
    <3>1. b.successes + 1 \in Nat
      BY <1>0
    <3> QED BY <1>0, <1>2, <3>1 DEF Breaker
  <2>2. SuccessLua(b) = GiveBackProbe(more)
    BY <1>0, <1>2, BreakerConfig DEF SuccessLua
  <2> HIDE DEF more
  <2> QED BY <1>0, <1>2, <2>1, <2>2, GiveBackSlots DEF Settles, SlotState, Breaker
<1>3. CASE b.state = "CLOSED"
  <2> DEFINE clear == [b EXCEPT !.failures = 0, !.window = 0]
  <2>1. clear \in Breaker /\ clear.state = "CLOSED" /\ clear.probes = b.probes
    <3>1. 0 \in 0 .. Window
      BY BreakerConfig
    <3> QED BY <1>0, <1>3, <3>1 DEF Breaker
  <2>2. SuccessLua(b) = clear
    BY <1>3 DEF SuccessLua
  <2> HIDE DEF clear
  <2> QED BY <1>3, <2>1, <2>2 DEF Settles, SlotState
<1>4. CASE b.state = "OPEN"
  <2>1. SuccessLua(b) = b /\ b.probes = 0
    BY <1>4 DEF SuccessLua, SlotState
  <2> QED BY <1>4, <2>1 DEF Settles
<1>5. b.state \in States
  BY <1>0 DEF Breaker
<1> QED BY <1>0, <1>1, <1>2, <1>3, <1>4, <1>5, BreakerConfig DEF States

LEMMA FailureSlots == ASSUME NEW b, SlotState(b) PROVE Settles(b, FailureLua(b))
<1> DEFINE reopened == [NoKeys EXCEPT !.state = "OPEN", !.opened = 0]
           tripped  == [b EXCEPT !.state = "OPEN", !.opened = 0,
                                 !.failures = b.failures + 1, !.window = Window]
           counted  == [b EXCEPT !.failures = b.failures + 1, !.window = Window]
<1>0. b \in Breaker /\ b.probes \in Nat /\ b.failures + 1 \in Nat
  BY DEF SlotState, Breaker
<1>1. 0 \in Absent .. MaxAge /\ Window \in 0 .. Window
  BY BreakerConfig DEF Absent, MaxAge
<1>2. reopened \in Breaker /\ reopened.state = "OPEN" /\ reopened.probes = 0
  BY <1>1, NoKeysSlots DEF SlotState, Breaker, States
<1>3. tripped \in Breaker /\ tripped.state = "OPEN" /\ tripped.probes = b.probes
  BY <1>0, <1>1 DEF Breaker, States
<1>4. counted \in Breaker /\ counted.state = b.state /\ counted.probes = b.probes
  BY <1>0, <1>1 DEF Breaker
<1>5. \/ b.state = "HALF_OPEN" /\ FailureLua(b) = reopened
      \/ b.state = "CLOSED" /\ FailureLua(b) \in {tripped, counted}
      \/ b.state = "OPEN" /\ FailureLua(b) = b
  BY <1>0, BreakerConfig DEF FailureLua, Breaker, States
<1> HIDE DEF reopened, tripped, counted
<1> QED BY <1>0, <1>2, <1>3, <1>4, <1>5 DEF Settles, SlotState

LEMMA ScriptSlots ==
    ASSUME NEW b, SlotState(b), NEW outcome \in Outcomes
    PROVE  /\ Settles(b, Script(outcome, b))
           /\ b.state = "CLOSED" /\ outcome # "failure"
                => Script(outcome, b).state = "CLOSED"
<1>1. /\ Settles(b, ReleaseLua(b))
      /\ b.state = "CLOSED" => ReleaseLua(b).state = "CLOSED"
  BY GiveBackSlots DEF ReleaseLua, Settles, SlotState, Breaker
<1> QED BY <1>1, SuccessSlots, FailureSlots DEF Script, Outcomes

LEMMA ElapseSlots ==
    ASSUME NEW b, SlotState(b)
    PROVE  /\ SlotState(Elapse(b))
           /\ Elapse(b).probes <= b.probes /\ Elapse(b).state = b.state
<1>0. b \in Breaker /\ b.probes \in Nat
  BY DEF SlotState, Breaker
<1>1. (IF b.opened \in 0 .. (MaxAge - 1) THEN b.opened + 1 ELSE b.opened)
        \in Absent .. MaxAge
  BY <1>0, BreakerConfig DEF Breaker, Absent, MaxAge
<1>2. /\ (IF b.lease > 0 THEN b.lease - 1 ELSE 0) \in 0 .. Timeout
      /\ (IF b.lease = 1 THEN 0 ELSE b.probes) \in Nat
  BY <1>0, BreakerConfig DEF Breaker
<1>3. /\ (IF b.window > 0 THEN b.window - 1 ELSE 0) \in 0 .. Window
      /\ (IF b.window = 1 THEN 0 ELSE b.failures) \in Nat
  BY <1>0, BreakerConfig DEF Breaker
<1>4. Elapse(b) \in Breaker
  BY <1>0, <1>1, <1>2, <1>3 DEF Elapse, Breaker
<1>5. /\ Elapse(b).state = b.state
      /\ Elapse(b).probes = IF b.lease = 1 THEN 0 ELSE b.probes
  BY <1>0 DEF Elapse, Breaker
<1> QED BY <1>0, <1>4, <1>5 DEF SlotState

(* The gauges keep their type whatever is chosen. *)
LEMMA GaugeTyped ==
    ASSUME NEW c \in [Providers -> Gauge], NEW p
    PROVE  /\ TakeConnection(c, p) \in [Providers -> Gauge]
           /\ ReleaseConnection(c, p) \in [Providers -> Gauge]
           /\ p \in Providers => ElapseGauge(c[p]) \in Gauge
<1>1. ASSUME NEW q \in Providers
      PROVE  /\ [n |-> c[q].n + 1, ttl |-> ConnTtl] \in Gauge
             /\ [c[q] EXCEPT !.n = IF c[q].n > 0 THEN c[q].n - 1 ELSE 0] \in Gauge
             /\ ElapseGauge(c[q]) \in Gauge
  <2>1. c[q] \in Gauge
    OBVIOUS
  <2>2. /\ c[q].n + 1 \in Nat /\ ConnTtl \in 0 .. ConnTtl
        /\ (IF c[q].n > 0 THEN c[q].n - 1 ELSE 0) \in Nat
        /\ (IF c[q].ttl = 1 THEN 0 ELSE c[q].n) \in Nat
        /\ (IF c[q].ttl > 0 THEN c[q].ttl - 1 ELSE 0) \in 0 .. ConnTtl
    BY <2>1, LeastConnectionsConfig DEF Gauge
  <2> QED BY <2>1, <2>2 DEF Gauge, ElapseGauge
<1> QED BY <1>1 DEF TakeConnection, ReleaseConnection

-----------------------------------------------------------------------------
(* Types. *)
LEMMA AtPlace ==
    ASSUME TypeOK
    PROVE  /\ \A r \in Requests : pc[r] \in InLoop => at[r] \in Providers
           /\ \A r \in Requests : After(r) \in {"streaming", "select", "ok", "error"}
           /\ \A outcome \in Outcomes : ExitOf(outcome) \in Exits
BY DEF TypeOK, After, Exits, ExitOf, Outcomes

LEMMA BreakersInSlotState ==
    ASSUME TypeOK, Slots
    PROVE  \A p \in Providers : SlotState(br[p])
BY DEF TypeOK, Slots, SlotState

(* The requests' own variables. *)
RequestsTyped ==
    /\ pc \in [Requests -> Places]
    /\ remaining \in [Requests -> SUBSET Providers]
    /\ at \in [Requests -> Providers \cup {None}]
    /\ attempts \in [Requests -> Nat]
    /\ exit \in [Requests -> Exits]
    /\ slot \in [Requests -> Providers \cup {None}]
    /\ verdict \in [Requests -> [Providers -> Judgements]]
    /\ \A r \in Requests : pc[r] \in InLoop => at[r] \in Providers

LEMMA MoveTyped ==
    ASSUME TypeOK, NEW r \in Requests, NEW to \in Places,
           pc' = [pc EXCEPT ![r] = to], to \in InLoop => at[r] \in Providers
    PROVE  /\ pc' \in [Requests -> Places]
           /\ \A q \in Requests : pc'[q] \in InLoop => at[q] \in Providers
BY DEF TypeOK

LEMMA ForgetTyped ==
    ASSUME TypeOK, NEW r \in Requests, Forget(r)
    PROVE  RequestsTyped'
<1> USE DEF Forget, TypeOK
<1>1. pc' \in [Requests -> Places] /\ exit' \in [Requests -> Exits]
  BY DEF Places, Exits
<1>2. /\ remaining' \in [Requests -> SUBSET Providers]
      /\ at' \in [Requests -> Providers \cup {None}]
      /\ attempts' \in [Requests -> Nat]
      /\ slot' \in [Requests -> Providers \cup {None}]
  OBVIOUS
<1>3. verdict' \in [Requests -> [Providers -> Judgements]]
  <2>1. NoVerdict \in [Providers -> Judgements]
    BY DEF NoVerdict, Judgements
  <2> QED BY <2>1
<1>4. \A q \in Requests : pc'[q] \in InLoop => at'[q] \in Providers
  BY DEF InLoop, Outcomes
<1> QED BY <1>1, <1>2, <1>3, <1>4 DEF RequestsTyped

LEMMA ChosenTyped ==
    ASSUME TypeOK, NEW r \in Requests, NEW p \in Providers, Chosen(r, p),
           slot' \in [Requests -> Providers \cup {None}]
    PROVE  RequestsTyped'
<1> USE DEF Chosen, TypeOK
<1>1. /\ pc' \in [Requests -> Places]
      /\ remaining' \in [Requests -> SUBSET Providers]
      /\ at' \in [Requests -> Providers \cup {None}]
  BY DEF Places, InLoop
<1>2. \A q \in Requests : pc'[q] \in InLoop => at'[q] \in Providers
  OBVIOUS
<1> QED BY <1>1, <1>2 DEF RequestsTyped

LEMMA LoopTyped ==
    ASSUME TypeOK, NEW r \in Requests,
           \/ \E stream \in BOOLEAN : Start(r, stream)
           \/ Exhausted(r) \/ Acquire(r)
           \/ \E outcome \in Outcomes : CallEnds(r, outcome)
           \/ Report(r) \/ ReportSwallowed(r)
           \/ Unwind(r) \/ UnwindFails(r)
           \/ AcquireFailsOpen(r) \/ StreamEnds(r)
    PROVE  RequestsTyped'
<1>1. ASSUME NEW stream \in BOOLEAN, Start(r, stream) PROVE RequestsTyped'
  <2>1. remaining' \in [Requests -> SUBSET Providers]
    BY <1>1 DEF Start, TypeOK
  <2>2. pc' = [pc EXCEPT ![r] = "select"] /\ UNCHANGED <<at, attempts, exit, slot, verdict>>
    BY <1>1 DEF Start, ghosts
  <2>3. "select" \in Places /\ "select" \notin InLoop
    BY DEF Places, InLoop, Outcomes
  <2> QED BY <2>1, <2>2, <2>3, MoveTyped DEF RequestsTyped, TypeOK
<1>2. CASE Exhausted(r) \/ StreamEnds(r)
  <2>1. PICK to \in {"exhausted", "ok"} : pc' = [pc EXCEPT ![r] = to]
    BY <1>2 DEF Exhausted, StreamEnds
  <2>2. UNCHANGED <<remaining, at, attempts, exit, slot, verdict>>
    BY <1>2 DEF Exhausted, StreamEnds, ghosts
  <2>3. to \in Places /\ to \notin InLoop
    BY DEF Places, InLoop, Outcomes, Ends
  <2> QED BY <2>1, <2>2, <2>3, MoveTyped DEF RequestsTyped, TypeOK
<1>3. CASE Acquire(r) \/ AcquireFailsOpen(r)
  <2>1. PICK to \in {"calling", "unwind"} : pc' = [pc EXCEPT ![r] = to]
    BY <1>3 DEF Acquire, AcquireFailsOpen
  <2>2. UNCHANGED <<remaining, at, slot>>
    BY <1>3 DEF Acquire, AcquireFailsOpen
  <2>3. to \in Places /\ at[r] \in Providers
    BY <1>3, AtPlace DEF Places, InLoop, Acquire, AcquireFailsOpen
  <2>a. /\ attempts' = attempts \/ attempts' = [attempts EXCEPT ![r] = @ + 1]
        /\ exit' = exit \/ exit' = [exit EXCEPT ![r] = "select"]
        /\ verdict' = verdict \/ verdict' = [verdict EXCEPT ![r][at[r]] = "refused"]
    BY <1>3 DEF Acquire, AcquireFailsOpen
  <2>4. attempts' \in [Requests -> Nat] /\ exit' \in [Requests -> Exits]
    <3>1. attempts \in [Requests -> Nat] /\ exit \in [Requests -> Exits]
      BY DEF TypeOK
    <3>2. [attempts EXCEPT ![r] = @ + 1] \in [Requests -> Nat]
      BY <3>1
    <3>3. [exit EXCEPT ![r] = "select"] \in [Requests -> Exits]
      BY <3>1 DEF Exits
    <3> QED BY <2>a, <3>1, <3>2, <3>3
  <2>5. verdict' \in [Requests -> [Providers -> Judgements]]
    <3>1. verdict \in [Requests -> [Providers -> Judgements]]
      BY DEF TypeOK
    <3>2. [verdict EXCEPT ![r][at[r]] = "refused"] \in [Requests -> [Providers -> Judgements]]
      BY <2>3, <3>1 DEF Judgements
    <3> QED BY <2>a, <3>1, <3>2
  <2> QED BY <2>1, <2>2, <2>3, <2>4, <2>5, MoveTyped DEF RequestsTyped, TypeOK
<1>4. ASSUME NEW outcome \in Outcomes, CallEnds(r, outcome) PROVE RequestsTyped'
  <2>1. pc' = [pc EXCEPT ![r] = outcome] /\ UNCHANGED <<remaining, at, attempts, exit, slot>>
    BY <1>4 DEF CallEnds
  <2>2. outcome \in Places /\ outcome \in Judgements /\ at[r] \in Providers
    BY <1>4, AtPlace DEF Places, InLoop, CallEnds, Judgements
  <2>3. verdict' \in [Requests -> [Providers -> Judgements]]
    BY <1>4, <2>2 DEF CallEnds, TypeOK
  <2> QED BY <2>1, <2>2, <2>3, MoveTyped DEF RequestsTyped, TypeOK
<1>5. CASE Report(r) \/ ReportSwallowed(r)
  <2>1. /\ pc[r] \in Outcomes /\ pc' = [pc EXCEPT ![r] = "unwind"]
        /\ exit' = [exit EXCEPT ![r] = ExitOf(pc[r])]
        /\ UNCHANGED <<remaining, at, attempts, slot, verdict>>
    BY <1>5 DEF Report, ReportSwallowed, ghosts
  <2>2. "unwind" \in Places /\ at[r] \in Providers /\ ExitOf(pc[r]) \in Exits
    BY <2>1, AtPlace DEF Places, InLoop
  <2>3. exit' \in [Requests -> Exits]
    BY <2>1, <2>2 DEF TypeOK
  <2> QED BY <2>1, <2>2, <2>3, MoveTyped DEF RequestsTyped, TypeOK
<1>6. CASE Unwind(r) \/ UnwindFails(r)
  <2>1. /\ pc' = [pc EXCEPT ![r] = After(r)]
        /\ slot' = [slot EXCEPT ![r] = None]
        /\ UNCHANGED <<remaining, at, attempts, exit, verdict>>
    BY <1>6 DEF Unwind, UnwindFails
  <2>2. After(r) \in Places /\ After(r) \notin InLoop
    BY AtPlace DEF Places, InLoop, Outcomes, Ends
  <2>3. slot' \in [Requests -> Providers \cup {None}]
    BY <2>1 DEF TypeOK
  <2> QED BY <2>1, <2>2, <2>3, MoveTyped DEF RequestsTyped, TypeOK
<1> QED BY <1>1, <1>2, <1>3, <1>4, <1>5, <1>6

LEMMA StepTyped ==
    ASSUME TypeOK, Slots, [Next]_vars
    PROVE  TypeOK' /\ \A p \in Providers : br'[p].state # "HALF_OPEN" => br'[p].probes = 0
<1> DEFINE Shared ==
              /\ \A p \in Providers : SlotState(br[p])
              /\ br \in [Providers -> Breaker]
              /\ conns \in [Providers -> Gauge]
              /\ reliable \subseteq Reliable
              /\ faults \in Nat
              /\ calm \in BOOLEAN
<1>0. Shared
  BY BreakersInSlotState DEF TypeOK
<1>1. SUFFICES Shared' /\ RequestsTyped'
  BY DEF TypeOK, RequestsTyped, SlotState
<1>2. reliable' \subseteq Reliable
  BY <1>0 DEF Next, vars
<1>3. ASSUME Fault PROVE faults' \in Nat /\ calm' \in BOOLEAN
  <2>1. faults' = faults + 1 /\ calm' = FALSE
    BY <1>3 DEF Fault
  <2>2. faults' \in Nat
    BY <1>0, <2>1
  <2> QED BY <2>1, <2>2
<1>4. CASE UNCHANGED vars
  BY <1>0, <1>4 DEF vars, TypeOK, RequestsTyped
<1>5. CASE Tick
  <2>1. \A p \in Providers : SlotState(Elapse(br[p])) /\ Elapse(br[p]) \in Breaker
    BY <1>0, ElapseSlots DEF SlotState
  <2>2. br' \in [Providers -> Breaker] /\ \A p \in Providers : SlotState(br'[p])
    BY <1>5, <2>1 DEF Tick
  <2>3. conns' \in [Providers -> Gauge]
    BY <1>0, <1>5, GaugeTyped DEF Tick
  <2>4. faults' \in Nat /\ calm' \in BOOLEAN
    BY <1>0, <1>5 DEF Tick
  <2>5. RequestsTyped'
    BY <1>5 DEF Tick, TypeOK, RequestsTyped
  <2> QED BY <1>2, <2>2, <2>3, <2>4, <2>5
<1>6. ASSUME NEW r \in Requests, NEW p \in Providers, Select(r, p) \/ SelectDegraded(r, p)
      PROVE  Shared' /\ RequestsTyped'
  <2>1. Chosen(r, p) /\ UNCHANGED br
    BY <1>6 DEF Select, SelectDegraded, Chosen
  <2>2. slot' \in [Requests -> Providers \cup {None}]
    BY <1>6 DEF Select, SelectDegraded, TypeOK
  <2>3. conns' \in [Providers -> Gauge]
    BY <1>0, <1>6, GaugeTyped DEF Select, SelectDegraded
  <2>4. faults' \in Nat /\ calm' \in BOOLEAN
    BY <1>0, <1>3, <1>6 DEF Select, SelectDegraded
  <2> QED BY <1>0, <1>2, <2>1, <2>2, <2>3, <2>4, ChosenTyped
<1>7. ASSUME NEW r \in Requests, Answered(r) \/ Crash(r)
      PROVE  Shared' /\ RequestsTyped'
  <2>1. Forget(r) /\ UNCHANGED <<br, conns>> /\ faults' \in Nat /\ calm' \in BOOLEAN
    BY <1>0, <1>3, <1>7 DEF Answered, Crash, shared
  <2> QED BY <1>0, <1>2, <2>1, ForgetTyped
<1>8. ASSUME NEW r \in Requests, Acquire(r) \/ Report(r)
      PROVE  Shared' /\ RequestsTyped'
  <2>1. at[r] \in Providers
    BY <1>8, AtPlace DEF Acquire, Report, InLoop
  <2>2. PICK b : SlotState(b) /\ br' = [br EXCEPT ![at[r]] = b]
    BY <1>0, <1>8, <2>1, AcquireSlots, ScriptSlots DEF Acquire, Report, Settles
  <2>3. br' \in [Providers -> Breaker] /\ \A p \in Providers : SlotState(br'[p])
    BY <1>0, <2>1, <2>2 DEF SlotState
  <2>4. UNCHANGED <<conns, faults, calm>>
    BY <1>8 DEF Acquire, Report, ghosts
  <2> QED BY <1>0, <1>2, <1>8, <2>3, <2>4, LoopTyped
<1>9. ASSUME NEW r \in Requests, Unwind(r) PROVE Shared' /\ RequestsTyped'
  <2>1. conns' \in [Providers -> Gauge]
    BY <1>0, <1>9, GaugeTyped DEF Unwind
  <2>2. UNCHANGED <<br, faults, calm>>
    BY <1>9 DEF Unwind
  <2> QED BY <1>0, <1>2, <1>9, <2>1, <2>2, LoopTyped
<1>10. ASSUME NEW r \in Requests,
              \/ \E stream \in BOOLEAN : Start(r, stream)
              \/ Exhausted(r) \/ StreamEnds(r)
              \/ \E outcome \in Outcomes : CallEnds(r, outcome)
       PROVE  Shared' /\ RequestsTyped'
  <2>1. UNCHANGED <<br, conns, faults, calm>>
    BY <1>10 DEF Start, Exhausted, StreamEnds, CallEnds, shared, ghosts
  <2> QED BY <1>0, <1>2, <1>10, <2>1, LoopTyped
<1>11. ASSUME NEW r \in Requests,
              AcquireFailsOpen(r) \/ ReportSwallowed(r) \/ UnwindFails(r)
       PROVE  Shared' /\ RequestsTyped'
  <2>1. UNCHANGED <<br, conns>> /\ faults' \in Nat /\ calm' \in BOOLEAN
    BY <1>3, <1>11 DEF AcquireFailsOpen, ReportSwallowed, UnwindFails, shared
  <2> QED BY <1>0, <1>2, <1>11, <2>1, LoopTyped
<1> QED BY <1>4, <1>5, <1>6, <1>7, <1>8, <1>9, <1>10, <1>11
       DEF Next, LoopStep, FaultStep

-----------------------------------------------------------------------------
(* The gauges. *)
LEMMA HoldingFinite ==
    ASSUME NEW p
    PROVE  IsFiniteSet(Holding(p)) /\ Cardinality(Holding(p)) \in Nat
<1>1. Holding(p) \subseteq Requests
  BY DEF Holding
<1> QED BY <1>1, FailoverAssumption, FS_Subset, FS_CardinalityType

(* Steps that neither select nor release. *)
LEMMA GaugesFrame ==
    ASSUME Gauges, UNCHANGED <<slot, conns, calm, at>>,
           \A q \in Requests : pc'[q] \in InLoop <=> pc[q] \in InLoop
    PROVE  Gauges'
BY DEF Gauges, Holding

(* Faults: only that nobody outside the loop holds anything is left to show. *)
LEMMA GaugesFault ==
    ASSUME Gauges, TypeOK, Fault, NEW r \in Requests,
           \A q \in Requests \ {r} : pc'[q] = pc[q] /\ slot'[q] = slot[q],
           pc'[r] \notin InLoop => slot'[r] = None
    PROVE  Gauges'
BY DEF Gauges, Fault

LEMMA SelectGauges ==
    ASSUME TypeOK, Gauges, NEW r \in Requests, NEW p \in Providers, Select(r, p)
    PROVE  Gauges'
<1>0. /\ pc[r] = "select" /\ slot' = [slot EXCEPT ![r] = p]
      /\ pc' = [pc EXCEPT ![r] = "acquire"] /\ at' = [at EXCEPT ![r] = p]
      /\ conns' = TakeConnection(conns, p) /\ calm' = calm
  BY DEF Select, Chosen
<1>1. slot[r] = None
  BY <1>0 DEF Gauges, InLoop, Outcomes
<1>2. /\ \A q \in Requests : pc'[q] \notin InLoop => slot'[q] = None
      /\ calm' => \A q \in Requests : pc'[q] \in InLoop => slot'[q] = at'[q]
  BY <1>0 DEF Gauges, TypeOK, InLoop
<1>3. ASSUME calm, NEW q \in Providers PROVE conns'[q].n = Cardinality(Holding(q)')
  <2>1. conns[q].n = Cardinality(Holding(q))
    BY <1>3 DEF Gauges
  <2>2. CASE q = p
    <3>1. Holding(q)' = Holding(q) \cup {r} /\ r \notin Holding(q)
      BY <1>0, <1>1, <2>2, FailoverAssumption DEF Holding, TypeOK
    <3>2. Cardinality(Holding(q)') = Cardinality(Holding(q)) + 1
      BY <3>1, HoldingFinite, FS_AddElement
    <3>3. conns'[q].n = conns[q].n + 1
      BY <1>0, <2>2 DEF TakeConnection, TypeOK
    <3> QED BY <2>1, <3>2, <3>3
  <2>3. CASE q # p
    <3>1. Holding(q)' = Holding(q)
      BY <1>0, <1>1, <2>3, FailoverAssumption DEF Holding, TypeOK
    <3>2. conns'[q] = conns[q]
      BY <1>0, <2>3 DEF TakeConnection, TypeOK
    <3> QED BY <2>1, <3>1, <3>2
  <2> QED BY <2>2, <2>3
<1> QED BY <1>0, <1>2, <1>3 DEF Gauges

LEMMA UnwindGauges ==
    ASSUME TypeOK, Gauges, NEW r \in Requests, Unwind(r)
    PROVE  Gauges'
<1>0. /\ pc[r] = "unwind" /\ slot' = [slot EXCEPT ![r] = None]
      /\ pc' = [pc EXCEPT ![r] = After(r)] /\ at' = at
      /\ conns' = ReleaseConnection(conns, at[r]) /\ calm' = calm
  BY DEF Unwind
<1>1. After(r) \notin InLoop /\ at[r] \in Providers
  BY <1>0, AtPlace DEF InLoop, Outcomes
<1>2. /\ \A q \in Requests : pc'[q] \notin InLoop => slot'[q] = None
      /\ calm' => \A q \in Requests : pc'[q] \in InLoop => slot'[q] = at'[q]
  BY <1>0, <1>1 DEF Gauges, TypeOK
<1>3. ASSUME calm, NEW q \in Providers PROVE conns'[q].n = Cardinality(Holding(q)')
  <2>0. slot[r] = at[r]
    BY <1>0, <1>3 DEF Gauges, InLoop
  <2>1. conns[q].n = Cardinality(Holding(q))
    BY <1>3 DEF Gauges
  <2>2. CASE q = at[r]
    <3>1. Holding(q)' = Holding(q) \ {r} /\ r \in Holding(q)
      BY <1>0, <2>0, <2>2, FailoverAssumption DEF Holding, TypeOK
    <3>2. /\ Cardinality(Holding(q)') = Cardinality(Holding(q)) - 1
          /\ Cardinality(Holding(q)') \in Nat
      BY <3>1, HoldingFinite, FS_RemoveElement, FS_CardinalityType
    <3>3. conns'[q].n = IF conns[q].n > 0 THEN conns[q].n - 1 ELSE 0
      BY <1>0, <1>1, <2>2 DEF ReleaseConnection, TypeOK, Gauge
    <3> QED BY <2>1, <3>2, <3>3, HoldingFinite
  <2>3. CASE q # at[r]
    <3>1. Holding(q)' = Holding(q)
      BY <1>0, <2>0, <2>3, FailoverAssumption DEF Holding, TypeOK
    <3>2. conns'[q] = conns[q]
      BY <1>0, <2>3 DEF ReleaseConnection, TypeOK
    <3> QED BY <2>1, <3>1, <3>2
  <2> QED BY <2>2, <2>3
<1> QED BY <1>0, <1>2, <1>3 DEF Gauges

LEMMA StepGauges == ASSUME TypeOK, Gauges, [Next]_vars PROVE Gauges'
<1>1. ASSUME NEW r \in Requests, NEW p \in Providers, Select(r, p) PROVE Gauges'
  BY <1>1, SelectGauges
<1>2. ASSUME NEW r \in Requests, Unwind(r) PROVE Gauges'
  BY <1>2, UnwindGauges
<1>3. ASSUME NEW r \in Requests, NEW p \in Providers, SelectDegraded(r, p) PROVE Gauges'
  <2>1. /\ Fault /\ pc[r] = "select" /\ pc' = [pc EXCEPT ![r] = "acquire"]
        /\ UNCHANGED slot
    BY <1>3 DEF SelectDegraded, Chosen
  <2> QED BY <2>1, GaugesFault DEF TypeOK, InLoop
<1>4. ASSUME NEW r \in Requests, UnwindFails(r) \/ Crash(r) PROVE Gauges'
  <2>1. /\ Fault /\ slot' = [slot EXCEPT ![r] = None]
        /\ \E to : pc' = [pc EXCEPT ![r] = to]
    BY <1>4 DEF UnwindFails, Crash, Forget
  <2> QED BY <2>1, GaugesFault DEF TypeOK
<1>5. ASSUME NEW r \in Requests, AcquireFailsOpen(r) \/ ReportSwallowed(r) PROVE Gauges'
  <2>1. /\ Fault /\ UNCHANGED slot
        /\ \E to \in {"calling", "unwind"} : pc' = [pc EXCEPT ![r] = to]
    BY <1>5 DEF AcquireFailsOpen, ReportSwallowed
  <2> QED BY <2>1, GaugesFault DEF TypeOK, InLoop
<1>6. ASSUME NEW r \in Requests,
             \/ \E stream \in BOOLEAN : Start(r, stream)
             \/ Exhausted(r) \/ StreamEnds(r)
      PROVE  Gauges'
  <2>1. /\ UNCHANGED <<slot, conns, calm, at>>
        /\ pc[r] \notin InLoop
        /\ \E to \in {"select", "exhausted", "ok"} : pc' = [pc EXCEPT ![r] = to]
    BY <1>6 DEF Start, Exhausted, StreamEnds, shared, ghosts, InLoop, Outcomes
  <2>2. {"select", "exhausted", "ok"} \cap InLoop = {}
    BY DEF InLoop, Outcomes
  <2> QED BY <2>1, <2>2, GaugesFrame DEF TypeOK
<1>7. ASSUME NEW r \in Requests,
             \/ Acquire(r) \/ Report(r)
             \/ \E outcome \in Outcomes : CallEnds(r, outcome)
      PROVE  Gauges'
  <2>1. /\ UNCHANGED <<slot, conns, calm, at>>
        /\ pc[r] \in InLoop
        /\ \E to \in InLoop : pc' = [pc EXCEPT ![r] = to]
    BY <1>7 DEF Acquire, Report, CallEnds, shared, ghosts, InLoop
  <2> QED BY <2>1, GaugesFrame DEF TypeOK
<1>8. ASSUME NEW r \in Requests, Answered(r) PROVE Gauges'
  <2>1. /\ pc[r] \notin InLoop /\ pc' = [pc EXCEPT ![r] = "idle"]
        /\ slot' = [slot EXCEPT ![r] = None] /\ at' = [at EXCEPT ![r] = None]
        /\ UNCHANGED <<conns, calm>>
    BY <1>8 DEF Answered, Forget, shared, InLoop, Outcomes, Ends
  <2>2. slot' = slot
    BY <2>1 DEF Gauges, TypeOK
  <2>3. \A q \in Requests : pc'[q] \in InLoop => pc[q] \in InLoop /\ at'[q] = at[q]
    BY <2>1 DEF TypeOK, InLoop, Outcomes
  <2>4. \A q \in Requests : pc'[q] \notin InLoop => pc[q] \notin InLoop
    BY <2>1 DEF TypeOK
  <2> QED BY <2>1, <2>2, <2>3, <2>4 DEF Gauges, Holding
<1>9. CASE Tick
  <2>1. calm' => calm /\ \A p \in Providers : conns'[p].n = conns[p].n
    BY <1>9 DEF Tick
  <2>2. UNCHANGED <<pc, slot, at>>
    BY <1>9 DEF Tick
  <2> QED BY <2>1, <2>2 DEF Gauges, Holding
<1>10. CASE UNCHANGED vars
  BY <1>10, GaugesFrame DEF vars
<1> QED BY <1>1, <1>2, <1>3, <1>4, <1>5, <1>6, <1>7, <1>8, <1>9, <1>10
       DEF Next, LoopStep, FaultStep

-----------------------------------------------------------------------------
(* The probe slots. *)
LEMMA UnreportedFinite ==
    ASSUME NEW p
    PROVE  IsFiniteSet(Unreported(p)) /\ Cardinality(Unreported(p)) \in Nat
<1>1. Unreported(p) \subseteq Requests
  BY DEF Unreported
<1> QED BY <1>1, FailoverAssumption, FS_Subset, FS_CardinalityType

(* Steps of a request that owes no report before or after. *)
LEMMA SlotsFrame ==
    ASSUME TypeOK, SlotsAccounted, UNCHANGED <<br, faults>>, NEW r \in Requests,
           \A q \in Requests \ {r} : pc'[q] = pc[q] /\ at'[q] = at[q],
           pc[r] \notin {"calling"} \cup Outcomes,
           pc'[r] \notin {"calling"} \cup Outcomes
    PROVE  SlotsAccounted'
<1>1. \A p \in Providers : Unreported(p)' = Unreported(p)
  BY DEF Unreported
<1> QED BY <1>1 DEF SlotsAccounted

LEMMA AcquireAccounted ==
    ASSUME TypeOK, Slots, NEW r \in Requests, Acquire(r)
    PROVE  SlotsAccounted'
<1> DEFINE p == at[r]
<1>0. /\ pc[r] = "acquire" /\ p \in Providers /\ UNCHANGED <<at, faults>>
      /\ br' = [br EXCEPT ![p] = AcquireLua(br[p], 0)]
      /\ pc' = [pc EXCEPT ![r] = IF Allowed(br[p], 0) THEN "calling" ELSE "unwind"]
  BY AtPlace DEF Acquire, InLoop
<1> SUFFICES ASSUME faults = 0, NEW q \in Providers
             PROVE  br'[q].probes <= Cardinality(Unreported(q)')
  BY <1>0 DEF SlotsAccounted
<1>1. br[q].probes <= Cardinality(Unreported(q)) /\ br[q].probes \in Nat
  BY DEF Slots, SlotsAccounted, TypeOK, Breaker
<1>2. CASE q # p
  <2>1. Unreported(q)' = Unreported(q)
    BY <1>0, <1>2 DEF Unreported, TypeOK
  <2>2. br'[q] = br[q]
    BY <1>0, <1>2 DEF TypeOK
  <2> QED BY <1>1, <2>1, <2>2
<1>3. CASE q = p /\ Allowed(br[p], 0)
  <2>1. Unreported(q)' = Unreported(q) \cup {r} /\ r \notin Unreported(q)
    BY <1>0, <1>3 DEF Unreported, TypeOK, Outcomes
  <2>2. Cardinality(Unreported(q)') = Cardinality(Unreported(q)) + 1
    BY <2>1, UnreportedFinite, FS_AddElement
  <2>3. br'[q] = AcquireLua(br[q], 0) /\ SlotState(br[q])
    BY <1>0, <1>3, BreakersInSlotState DEF TypeOK
  <2>4. br'[q].probes <= br[q].probes + 1 /\ br'[q].probes \in Nat
    BY <1>3, <2>3, AcquireSlots DEF SlotState, Breaker
  <2> QED BY <1>1, <2>2, <2>4, UnreportedFinite
<1>4. CASE q = p /\ ~Allowed(br[p], 0)
  <2>1. Unreported(q)' = Unreported(q)
    BY <1>0, <1>4 DEF Unreported, TypeOK, Outcomes
  <2>2. br'[q] = AcquireLua(br[q], 0) /\ SlotState(br[q])
    BY <1>0, <1>4, BreakersInSlotState DEF TypeOK
  <2>3. br'[q].probes <= br[q].probes /\ br'[q].probes \in Nat
    BY <1>1, <1>4, <2>2, AcquireSlots DEF SlotState, Breaker
  <2> QED BY <1>1, <2>1, <2>3, UnreportedFinite
<1> QED BY <1>2, <1>3, <1>4

LEMMA ReportAccounted ==
    ASSUME TypeOK, Slots, NEW r \in Requests, Report(r)
    PROVE  SlotsAccounted'
<1> DEFINE p == at[r]
<1>0. /\ pc[r] \in Outcomes /\ p \in Providers /\ UNCHANGED <<at, faults>>
      /\ br' = [br EXCEPT ![p] = Script(pc[r], br[p])]
      /\ pc' = [pc EXCEPT ![r] = "unwind"]
  BY AtPlace DEF Report, InLoop
<1> SUFFICES ASSUME faults = 0, NEW q \in Providers
             PROVE  br'[q].probes <= Cardinality(Unreported(q)')
  BY <1>0 DEF SlotsAccounted
<1>1. br[q].probes <= Cardinality(Unreported(q)) /\ br[q].probes \in Nat
  BY DEF Slots, SlotsAccounted, TypeOK, Breaker
<1>2. CASE q # p
  <2>1. Unreported(q)' = Unreported(q)
    BY <1>0, <1>2 DEF Unreported, TypeOK
  <2>2. br'[q] = br[q]
    BY <1>0, <1>2 DEF TypeOK
  <2> QED BY <1>1, <2>1, <2>2
<1>3. CASE q = p
  <2>1. Unreported(q)' = Unreported(q) \ {r} /\ r \in Unreported(q)
    BY <1>0, <1>3 DEF Unreported, TypeOK, Outcomes
  <2>2. /\ Cardinality(Unreported(q)') = Cardinality(Unreported(q)) - 1
        /\ Cardinality(Unreported(q)') \in Nat
    BY <2>1, UnreportedFinite, FS_RemoveElement, FS_CardinalityType
  <2>3. br'[q] = Script(pc[r], br[q]) /\ SlotState(br[q])
    BY <1>0, <1>3, BreakersInSlotState DEF TypeOK
  <2>4. Settles(br[q], br'[q])
    BY <1>0, <2>3, ScriptSlots
  <2>5. /\ br'[q].probes <= IF br[q].probes > 0 THEN br[q].probes - 1 ELSE 0
        /\ br'[q].probes \in Nat
    BY <2>4 DEF Settles, SlotState, Breaker
  <2> QED BY <1>1, <2>2, <2>5, UnreportedFinite
<1> QED BY <1>2, <1>3

LEMMA StepAccounted == ASSUME TypeOK, Slots, [Next]_vars PROVE SlotsAccounted'
<1>0. SlotsAccounted /\ faults \in Nat
  BY DEF Slots, TypeOK
<1>1. ASSUME Fault PROVE SlotsAccounted'
  BY <1>0, <1>1 DEF Fault, SlotsAccounted
<1>2. ASSUME NEW r \in Requests, Acquire(r) \/ Report(r) PROVE SlotsAccounted'
  BY <1>2, AcquireAccounted, ReportAccounted
<1>3. ASSUME NEW r \in Requests, NEW p \in Providers, Select(r, p) PROVE SlotsAccounted'
  <2>1. /\ UNCHANGED <<br, faults>> /\ pc[r] = "select"
        /\ pc' = [pc EXCEPT ![r] = "acquire"] /\ at' = [at EXCEPT ![r] = p]
    BY <1>3 DEF Select, Chosen
  <2> QED BY <1>0, <2>1, SlotsFrame DEF TypeOK, Outcomes
<1>4. ASSUME NEW r \in Requests, NEW outcome \in Outcomes, CallEnds(r, outcome)
      PROVE  SlotsAccounted'
  <2>1. /\ UNCHANGED <<br, faults, at>> /\ pc[r] = "calling"
        /\ pc' = [pc EXCEPT ![r] = outcome]
    BY <1>4 DEF CallEnds, shared
  <2>2. \A p \in Providers : Unreported(p)' = Unreported(p)
    BY <2>1 DEF Unreported, TypeOK
  <2> QED BY <1>0, <2>1, <2>2 DEF SlotsAccounted
<1>5. ASSUME NEW r \in Requests,
             \/ \E stream \in BOOLEAN : Start(r, stream)
             \/ Exhausted(r) \/ StreamEnds(r) \/ Unwind(r)
      PROVE  SlotsAccounted'
  <2>1. /\ UNCHANGED <<br, faults, at>> /\ pc[r] \in {"idle", "select", "streaming", "unwind"}
        /\ \E to \in {"select", "exhausted", "ok", After(r)} : pc' = [pc EXCEPT ![r] = to]
    BY <1>5 DEF Start, Exhausted, StreamEnds, Unwind, shared
  <2>2. {"select", "exhausted", "ok", After(r)} \cap ({"calling"} \cup Outcomes) = {}
    BY AtPlace DEF Outcomes
  <2> QED BY <1>0, <2>1, <2>2, SlotsFrame DEF TypeOK, Outcomes
<1>6. ASSUME NEW r \in Requests, Answered(r) PROVE SlotsAccounted'
  <2>1. /\ UNCHANGED <<br, faults>> /\ pc[r] \in Ends
        /\ pc' = [pc EXCEPT ![r] = "idle"] /\ at' = [at EXCEPT ![r] = None]
    BY <1>6 DEF Answered, Forget, shared
  <2> QED BY <1>0, <2>1, SlotsFrame DEF TypeOK, Outcomes, Ends
<1>7. CASE Tick
  <2>1. /\ faults' = faults
        /\ \A p \in Providers : br'[p] = Elapse(br[p]) /\ Unreported(p)' = Unreported(p)
    BY <1>7 DEF Tick, Unreported
  <2>2. \A p \in Providers : /\ br'[p].probes <= br[p].probes
                              /\ br'[p].probes \in Nat /\ br[p].probes \in Nat
    BY <2>1, BreakersInSlotState, ElapseSlots DEF SlotState, Breaker
  <2> QED BY <1>0, <2>1, <2>2, UnreportedFinite DEF SlotsAccounted
<1>8. CASE UNCHANGED vars
  BY <1>0, <1>8 DEF vars, SlotsAccounted, Unreported
<1>9. ASSUME NEW r \in Requests, FaultStep(r) PROVE Fault
  BY <1>9 DEF FaultStep, SelectDegraded, AcquireFailsOpen, ReportSwallowed,
              UnwindFails, Crash
<1> QED BY <1>1, <1>2, <1>3, <1>4, <1>5, <1>6, <1>7, <1>8, <1>9 DEF Next, LoopStep

-----------------------------------------------------------------------------
(* The verdicts. *)
LEMMA FailedFinite ==
    ASSUME NEW r
    PROVE  IsFiniteSet(Failed(r)) /\ Cardinality(Failed(r)) \in Nat
<1>1. Failed(r) \subseteq Providers
  BY DEF Failed
<1> QED BY <1>1, FailoverAssumption, FS_Subset, FS_CardinalityType

(* A request that does not move keeps its verdicts. *)
LEMMA VerdictFrame ==
    ASSUME NEW q \in Requests, VerdictOf(q), pc'[q] = pc[q],
           remaining'[q] = remaining[q], at'[q] = at[q], attempts'[q] = attempts[q],
           exit'[q] = exit[q], verdict'[q] = verdict[q]
    PROVE  VerdictOf(q)'
<1>1. Failed(q)' = Failed(q)
  BY DEF Failed
<1>2. (AtHand(q)' <=> AtHand(q)) /\ Extra(q)' = Extra(q)
  BY DEF AtHand, Extra
<1>3. Judged(q)' = Judged(q)
  BY DEF Judged
<1> QED BY <1>1, <1>2, <1>3 DEF VerdictOf

(* A request without verdicts has failed nowhere. *)
LEMMA NothingFailed ==
    ASSUME NEW r, verdict[r] = NoVerdict
    PROVE  Cardinality(Failed(r)) = 0
<1>1. Failed(r) = {}
  BY DEF Failed, NoVerdict
<1> QED BY <1>1, FS_EmptySet

LEMMA NothingFailedNext ==
    ASSUME NEW r, verdict'[r] = NoVerdict
    PROVE  Cardinality(Failed(r)') = 0
<1>1. Failed(r)' = {}
  BY DEF Failed, NoVerdict
<1> QED BY <1>1, FS_EmptySet

LEMMA ForgetVerdict ==
    ASSUME TypeOK, NEW r \in Requests, Forget(r)
    PROVE  VerdictOf(r)'
<1>1. /\ pc'[r] = "idle" /\ remaining'[r] = {} /\ attempts'[r] = 0
      /\ verdict'[r] = NoVerdict
  BY DEF Forget, TypeOK
<1>2. ~AtHand(r)' /\ Extra(r)' = 0
  BY <1>1 DEF AtHand, Extra, InLoop, Outcomes
<1> QED BY <1>1, <1>2, NothingFailedNext DEF VerdictOf

LEMMA StartVerdict ==
    ASSUME TypeOK, NEW r \in Requests, VerdictOf(r), NEW stream, Start(r, stream)
    PROVE  VerdictOf(r)'
<1>1. /\ pc[r] = "idle" /\ pc'[r] = "select" /\ remaining'[r] = Providers
      /\ UNCHANGED <<attempts, verdict>>
  BY DEF Start, TypeOK, ghosts
<1>2. verdict[r] = NoVerdict /\ attempts[r] = Cardinality(Failed(r))
  BY <1>1, NothingFailed, FailedFinite DEF VerdictOf, Extra
<1>3. ~AtHand(r)' /\ Extra(r)' = 0 /\ Failed(r)' = Failed(r)
  BY <1>1 DEF AtHand, Extra, InLoop, Outcomes, Failed
<1>4. \A p \in Providers : verdict[r][p] = "none"
  BY <1>2 DEF NoVerdict
<1> QED BY <1>1, <1>2, <1>3, <1>4, FailedFinite DEF VerdictOf

LEMMA ChosenVerdict ==
    ASSUME TypeOK, NEW r \in Requests, VerdictOf(r), NEW p \in Providers, Chosen(r, p)
    PROVE  VerdictOf(r)'
<1>1. /\ pc[r] = "select" /\ pc'[r] = "acquire" /\ p \in remaining[r]
      /\ remaining'[r] = remaining[r] \ {p} /\ at'[r] = p
      /\ UNCHANGED <<attempts, verdict>>
  BY DEF Chosen, TypeOK
<1>2. AtHand(r)' /\ Judged(r)' = {"none"} /\ Failed(r)' = Failed(r)
  BY <1>1 DEF AtHand, Judged, InLoop, Outcomes, Failed
<1>3. ~AtHand(r) /\ Extra(r) = 0 /\ Extra(r)' = 0
  BY <1>1 DEF AtHand, Extra, InLoop, Outcomes
<1> QED BY <1>1, <1>2, <1>3 DEF VerdictOf

LEMMA ExhaustedVerdict ==
    ASSUME TypeOK, NEW r \in Requests, VerdictOf(r), Exhausted(r)
    PROVE  VerdictOf(r)'
<1>1. /\ pc[r] = "select" /\ pc'[r] = "exhausted" /\ remaining[r] = {}
      /\ UNCHANGED <<remaining, attempts, verdict>>
  BY DEF Exhausted, TypeOK, ghosts
<1>2. /\ ~AtHand(r) /\ ~AtHand(r)' /\ Extra(r) = 0 /\ Extra(r)' = 0
      /\ Failed(r)' = Failed(r)
  BY <1>1 DEF AtHand, Extra, InLoop, Outcomes, Failed
<1> QED BY <1>1, <1>2 DEF VerdictOf

(* acquire lets the request call, with or without an answer from Redis. *)
LEMMA AdmittedVerdict ==
    ASSUME TypeOK, NEW r \in Requests, VerdictOf(r), pc[r] = "acquire",
           pc' = [pc EXCEPT ![r] = "calling"],
           attempts' = [attempts EXCEPT ![r] = @ + 1],
           UNCHANGED <<remaining, at, verdict>>
    PROVE  VerdictOf(r)'
<1>1. pc'[r] = "calling" /\ attempts'[r] = attempts[r] + 1
  BY DEF TypeOK
<1>2. /\ AtHand(r) /\ AtHand(r)' /\ Judged(r) = {"none"} /\ Judged(r)' = {"none"}
      /\ Failed(r)' = Failed(r)
  BY <1>1 DEF AtHand, Judged, InLoop, Outcomes, Failed
<1>3. Extra(r) = 0 /\ Extra(r)' = 1
  BY <1>1 DEF Extra
<1> QED BY <1>1, <1>2, <1>3, FailedFinite DEF VerdictOf

LEMMA RefusedVerdict ==
    ASSUME TypeOK, NEW r \in Requests, VerdictOf(r), pc[r] = "acquire",
           pc' = [pc EXCEPT ![r] = "unwind"],
           exit' = [exit EXCEPT ![r] = "select"],
           verdict' = [verdict EXCEPT ![r][at[r]] = "refused"],
           UNCHANGED <<remaining, at, attempts>>
    PROVE  VerdictOf(r)'
<1>1. /\ pc'[r] = "unwind" /\ exit'[r] = "select" /\ at[r] \in Providers
      /\ verdict[r] \in [Providers -> Judgements]
      /\ verdict'[r] = [verdict[r] EXCEPT ![at[r]] = "refused"]
  BY AtPlace DEF TypeOK, InLoop
<1>2. AtHand(r) /\ AtHand(r)' /\ Judged(r) = {"none"} /\ Judged(r)' = {"refused", "failure"}
  BY <1>1 DEF AtHand, Judged, InLoop, Outcomes
<1>3. Extra(r) = 0 /\ Extra(r)' = 0
  BY <1>1 DEF Extra
<1>4. verdict[r][at[r]] = "none"
  BY <1>2 DEF VerdictOf
<1>5. Failed(r)' = Failed(r)
  BY <1>1, <1>4 DEF Failed
<1> QED BY <1>1, <1>2, <1>3, <1>5 DEF VerdictOf

LEMMA CallEndsVerdict ==
    ASSUME TypeOK, NEW r \in Requests, VerdictOf(r), NEW outcome \in Outcomes,
           CallEnds(r, outcome)
    PROVE  VerdictOf(r)'
<1>1. /\ pc[r] = "calling" /\ pc'[r] = outcome /\ at[r] \in Providers
      /\ verdict[r] \in [Providers -> Judgements]
      /\ verdict'[r] = [verdict[r] EXCEPT ![at[r]] = outcome]
      /\ UNCHANGED <<remaining, at, attempts>>
  BY AtPlace DEF CallEnds, TypeOK, InLoop
<1>2. AtHand(r) /\ AtHand(r)' /\ Judged(r) = {"none"} /\ Judged(r)' = {outcome}
  BY <1>1 DEF AtHand, Judged, InLoop, Outcomes
<1>3. verdict[r][at[r]] = "none" /\ at[r] \notin Failed(r)
  BY <1>2 DEF VerdictOf, Failed
<1>4. Extra(r) = 1
  BY <1>1 DEF Extra
<1>5. attempts'[r] = Cardinality(Failed(r)') + Extra(r)'
  <2>1. CASE outcome = "failure"
    <3>1. Failed(r)' = Failed(r) \cup {at[r]}
      BY <1>1, <2>1 DEF Failed
    <3>2. Cardinality(Failed(r)') = Cardinality(Failed(r)) + 1
      BY <1>3, <3>1, FailedFinite, FS_AddElement
    <3>3. Extra(r)' = 0
      BY <1>1, <2>1 DEF Extra
    <3> QED BY <1>1, <1>4, <3>2, <3>3, FailedFinite DEF VerdictOf
  <2>2. CASE outcome # "failure"
    <3>1. Failed(r)' = Failed(r)
      BY <1>1, <1>3, <2>2 DEF Failed
    <3>2. Extra(r)' = 1
      BY <1>1, <2>2 DEF Extra, Outcomes
    <3> QED BY <1>1, <1>4, <3>1, <3>2 DEF VerdictOf
  <2> QED BY <2>1, <2>2
<1>6. pc'[r] # "idle" /\ pc'[r] # "exhausted"
  BY <1>1 DEF Outcomes
<1> QED BY <1>1, <1>2, <1>3, <1>5, <1>6 DEF VerdictOf

LEMMA ReportVerdict ==
    ASSUME TypeOK, NEW r \in Requests, VerdictOf(r), pc[r] \in Outcomes,
           pc' = [pc EXCEPT ![r] = "unwind"],
           exit' = [exit EXCEPT ![r] = ExitOf(pc[r])],
           UNCHANGED <<remaining, at, attempts, verdict>>
    PROVE  VerdictOf(r)'
<1>1. pc'[r] = "unwind" /\ exit'[r] = ExitOf(pc[r]) /\ pc[r] # "idle"
  BY DEF TypeOK, Outcomes
<1>2. AtHand(r) /\ AtHand(r)' /\ Failed(r)' = Failed(r)
  BY <1>1 DEF AtHand, InLoop, Failed
<1>3. Judged(r) = {pc[r]}
  BY DEF Judged, Outcomes
<1>4. pc[r] \in Judged(r)' /\ Extra(r)' = Extra(r)
  BY <1>1 DEF Judged, Extra, ExitOf, Outcomes
<1> QED BY <1>1, <1>2, <1>3, <1>4 DEF VerdictOf

LEMMA UnwindVerdict ==
    ASSUME TypeOK, NEW r \in Requests, VerdictOf(r), pc[r] = "unwind",
           pc' = [pc EXCEPT ![r] = After(r)],
           UNCHANGED <<remaining, at, attempts, exit, verdict>>
    PROVE  VerdictOf(r)'
<1>1. /\ pc'[r] = After(r) /\ exit[r] \in Exits
      /\ After(r) \in IF exit[r] = "ok" THEN {"ok", "streaming"} ELSE {exit[r]}
  BY DEF TypeOK, After
<1>2. AtHand(r) /\ Failed(r)' = Failed(r)
  BY DEF AtHand, InLoop, Failed
<1>3. CASE exit[r] = "select"
  <2>1. Judged(r) = {"refused", "failure"} /\ ~AtHand(r)' /\ pc'[r] = "select"
    BY <1>1, <1>3 DEF Judged, AtHand, InLoop, Outcomes
  <2>2. Extra(r) = 0 /\ Extra(r)' = 0
    BY <1>3, <2>1 DEF Extra
  <2> QED BY <1>2, <2>1, <2>2 DEF VerdictOf
<1>4. CASE exit[r] # "select"
  <2>1. AtHand(r)' /\ pc'[r] \in {"ok", "streaming", "error"}
    BY <1>1, <1>4 DEF AtHand, Exits
  <2>2. Judged(r)' = Judged(r)
    BY <1>1, <1>4 DEF Judged, Exits, Outcomes
  <2>3. Extra(r) = 1 /\ Extra(r)' = 1
    BY <1>4, <2>1 DEF Extra
  <2> QED BY <1>2, <2>1, <2>2, <2>3 DEF VerdictOf
<1> QED BY <1>3, <1>4

LEMMA StreamEndsVerdict ==
    ASSUME TypeOK, NEW r \in Requests, VerdictOf(r), StreamEnds(r)
    PROVE  VerdictOf(r)'
<1>1. /\ pc[r] = "streaming" /\ pc'[r] = "ok"
      /\ UNCHANGED <<remaining, at, attempts, exit, verdict>>
  BY DEF StreamEnds, TypeOK, ghosts
<1>2. AtHand(r) /\ AtHand(r)' /\ Failed(r)' = Failed(r) /\ Extra(r) = 1 /\ Extra(r)' = 1
  BY <1>1 DEF AtHand, Failed, Extra
<1>3. Judged(r) = {"success"} /\ Judged(r)' = {"success"}
  BY <1>1 DEF Judged, Outcomes
<1> QED BY <1>1, <1>2, <1>3 DEF VerdictOf

LEMMA StepVerdicts == ASSUME TypeOK, Verdicts, [Next]_vars PROVE Verdicts'
<1>0. \A q \in Requests : VerdictOf(q)
  BY DEF Verdicts
<1>a. ASSUME NEW r \in Requests, VerdictOf(r)',
             \A q \in Requests \ {r} :
                /\ pc'[q] = pc[q] /\ remaining'[q] = remaining[q] /\ at'[q] = at[q]
                /\ attempts'[q] = attempts[q] /\ exit'[q] = exit[q]
                /\ verdict'[q] = verdict[q]
      PROVE  Verdicts'
  BY <1>0, <1>a, VerdictFrame DEF Verdicts
<1>b. ASSUME UNCHANGED <<pc, remaining, at, attempts, exit, verdict>> PROVE Verdicts'
  BY <1>0, <1>b, VerdictFrame DEF Verdicts
<1>1. ASSUME NEW r \in Requests, NEW stream, Start(r, stream) PROVE Verdicts'
  <2>1. VerdictOf(r)'
    BY <1>0, <1>1, StartVerdict
  <2> QED BY <1>1, <1>a, <2>1 DEF Start, ghosts, TypeOK
<1>2. ASSUME NEW r \in Requests, NEW p \in Providers, Select(r, p) \/ SelectDegraded(r, p)
      PROVE  Verdicts'
  <2>1. Chosen(r, p)
    BY <1>2 DEF Select, SelectDegraded
  <2>2. VerdictOf(r)'
    BY <1>0, <2>1, ChosenVerdict
  <2> QED BY <1>a, <2>1, <2>2 DEF Chosen, TypeOK
<1>3. ASSUME NEW r \in Requests, Exhausted(r) PROVE Verdicts'
  <2>1. VerdictOf(r)'
    BY <1>0, <1>3, ExhaustedVerdict
  <2> QED BY <1>3, <1>a, <2>1 DEF Exhausted, ghosts, TypeOK
<1>4. ASSUME NEW r \in Requests, pc[r] = "acquire",
             pc' = [pc EXCEPT ![r] = "calling"],
             attempts' = [attempts EXCEPT ![r] = @ + 1],
             UNCHANGED <<remaining, at, exit, verdict>>
      PROVE  Verdicts'
  <2>1. VerdictOf(r)'
    BY <1>0, <1>4, AdmittedVerdict
  <2> QED BY <1>4, <1>a, <2>1 DEF TypeOK
<1>5. ASSUME NEW r \in Requests, Acquire(r) PROVE Verdicts'
  <2>1. CASE Allowed(br[at[r]], 0)
    BY <1>4, <1>5, <2>1 DEF Acquire
  <2>2. CASE ~Allowed(br[at[r]], 0)
    <3>1. /\ pc[r] = "acquire" /\ pc' = [pc EXCEPT ![r] = "unwind"]
          /\ exit' = [exit EXCEPT ![r] = "select"]
          /\ verdict' = [verdict EXCEPT ![r][at[r]] = "refused"]
          /\ UNCHANGED <<remaining, at, attempts>>
      BY <1>5, <2>2 DEF Acquire
    <3>2. VerdictOf(r)'
      BY <1>0, <3>1, RefusedVerdict
    <3> QED BY <1>a, <3>1, <3>2 DEF TypeOK
  <2> QED BY <2>1, <2>2
<1>6. ASSUME NEW r \in Requests, AcquireFailsOpen(r) PROVE Verdicts'
  BY <1>4, <1>6 DEF AcquireFailsOpen
<1>7. ASSUME NEW r \in Requests, NEW outcome \in Outcomes, CallEnds(r, outcome)
      PROVE  Verdicts'
  <2>1. VerdictOf(r)'
    BY <1>0, <1>7, CallEndsVerdict
  <2> QED BY <1>7, <1>a, <2>1 DEF CallEnds, TypeOK
<1>8. ASSUME NEW r \in Requests, Report(r) \/ ReportSwallowed(r) PROVE Verdicts'
  <2>1. /\ pc[r] \in Outcomes /\ pc' = [pc EXCEPT ![r] = "unwind"]
        /\ exit' = [exit EXCEPT ![r] = ExitOf(pc[r])]
        /\ UNCHANGED <<remaining, at, attempts, verdict>>
    BY <1>8 DEF Report, ReportSwallowed, ghosts
  <2>2. VerdictOf(r)'
    BY <1>0, <2>1, ReportVerdict
  <2> QED BY <1>a, <2>1, <2>2 DEF TypeOK
<1>9. ASSUME NEW r \in Requests, Unwind(r) \/ UnwindFails(r) PROVE Verdicts'
  <2>1. /\ pc[r] = "unwind" /\ pc' = [pc EXCEPT ![r] = After(r)]
        /\ UNCHANGED <<remaining, at, attempts, exit, verdict>>
    BY <1>9 DEF Unwind, UnwindFails
  <2>2. VerdictOf(r)'
    BY <1>0, <2>1, UnwindVerdict
  <2> QED BY <1>a, <2>1, <2>2 DEF TypeOK
<1>10. ASSUME NEW r \in Requests, StreamEnds(r) PROVE Verdicts'
  <2>1. VerdictOf(r)'
    BY <1>0, <1>10, StreamEndsVerdict
  <2> QED BY <1>10, <1>a, <2>1 DEF StreamEnds, ghosts, TypeOK
<1>11. ASSUME NEW r \in Requests, Answered(r) \/ Crash(r) PROVE Verdicts'
  <2>1. Forget(r)
    BY <1>11 DEF Answered, Crash
  <2>2. VerdictOf(r)'
    BY <2>1, ForgetVerdict
  <2> QED BY <1>a, <2>1, <2>2 DEF Forget, TypeOK
<1>12. CASE Tick \/ UNCHANGED vars
  BY <1>12, <1>b DEF Tick, vars
<1> QED BY <1>1, <1>2, <1>3, <1>5, <1>6, <1>7, <1>8, <1>9, <1>10, <1>11, <1>12
       DEF Next, LoopStep, FaultStep

-----------------------------------------------------------------------------
(* Providers that never fail. *)
LEMMA StepSteady == ASSUME IInv, [Next]_vars PROVE Steady'
<1> USE DEF IInv
<1>0. reliable' = reliable /\ reliable \subseteq Providers
  BY FailoverAssumption DEF Next, vars, TypeOK
<1> SUFFICES ASSUME NEW p \in reliable
             PROVE  /\ br'[p].state = "CLOSED"
                    /\ \A q \in Requests : verdict'[q][p] \notin {"refused", "failure"}
  BY <1>0 DEF Steady
<1>1. /\ p \in Providers /\ br[p].state = "CLOSED" /\ SlotState(br[p])
      /\ \A q \in Requests : verdict[q][p] \notin {"refused", "failure"}
  BY <1>0, BreakersInSlotState DEF Steady
<1> DEFINE Goal == /\ br'[p].state = "CLOSED"
                   /\ \A q \in Requests : verdict'[q][p] \notin {"refused", "failure"}
<1>2. ASSUME UNCHANGED <<br, verdict>> PROVE Goal
  BY <1>1, <1>2
<1>3. ASSUME NEW r \in Requests, Acquire(r) PROVE Goal
  <2>0. at[r] \in Providers
    BY <1>3, AtPlace DEF Acquire, InLoop
  <2>1. Allowed(br[p], 0) /\ AcquireLua(br[p], 0) = br[p]
    BY <1>1, AcquireSlots
  <2>2. br'[p] = br[p]
    BY <1>1, <1>3, <2>1 DEF Acquire, TypeOK
  <2>3. CASE at[r] = p
    <3>1. verdict' = verdict
      BY <1>3, <2>1, <2>3 DEF Acquire
    <3> QED BY <1>1, <2>2, <3>1
  <2>4. CASE at[r] # p
    <3>1. verdict' = verdict \/ verdict' = [verdict EXCEPT ![r][at[r]] = "refused"]
      BY <1>3 DEF Acquire
    <3>2. \A q \in Requests : verdict'[q][p] = verdict[q][p]
      BY <1>1, <2>4, <3>1 DEF TypeOK
    <3> QED BY <1>1, <2>2, <3>2
  <2> QED BY <2>3, <2>4
<1>4. ASSUME NEW r \in Requests, NEW outcome \in Outcomes, CallEnds(r, outcome) PROVE Goal
  <2>0. at[r] \in Providers
    BY <1>4, AtPlace DEF CallEnds, InLoop
  <2>1. /\ br' = br /\ verdict' = [verdict EXCEPT ![r][at[r]] = outcome]
        /\ at[r] = p => outcome # "failure"
    BY <1>4 DEF CallEnds, shared
  <2>2. \A q \in Requests : verdict'[q][p] \in {verdict[q][p]} \cup
                                 (IF at[r] = p THEN {outcome} ELSE {})
    BY <1>1, <2>0, <2>1 DEF TypeOK
  <2> QED BY <1>1, <2>1, <2>2 DEF Outcomes
<1>5. ASSUME NEW r \in Requests, Report(r) PROVE Goal
  <2>1. /\ verdict' = verdict /\ pc[r] \in Outcomes
        /\ br' = [br EXCEPT ![at[r]] = Script(pc[r], br[at[r]])]
    BY <1>5 DEF Report, ghosts
  <2>2. CASE at[r] = p
    <3>1. AtHand(r) /\ Judged(r) = {pc[r]}
      BY <2>1 DEF AtHand, InLoop, Judged, Outcomes
    <3>2. verdict[r][p] = pc[r]
      BY <2>2, <3>1 DEF Verdicts, VerdictOf
    <3>3. pc[r] # "failure"
      BY <1>1, <3>2
    <3>4. br'[p].state = "CLOSED"
      BY <1>1, <2>1, <2>2, <3>3, ScriptSlots DEF TypeOK
    <3> QED BY <1>1, <2>1, <3>4
  <2>3. CASE at[r] # p
    BY <1>1, <2>1, <2>3 DEF TypeOK
  <2> QED BY <2>2, <2>3
<1>6. ASSUME NEW r \in Requests, Answered(r) \/ Crash(r) PROVE Goal
  <2>1. UNCHANGED br /\ verdict' = [verdict EXCEPT ![r] = NoVerdict]
    BY <1>6 DEF Answered, Crash, Forget, shared
  <2>2. \A q \in Requests : verdict'[q][p] \in {verdict[q][p], "none"}
    BY <1>1, <2>1 DEF TypeOK, NoVerdict
  <2> QED BY <1>1, <2>1, <2>2
<1>7. ASSUME Tick PROVE Goal
  <2>1. br'[p] = Elapse(br[p]) /\ verdict' = verdict
    BY <1>1, <1>7 DEF Tick
  <2> QED BY <1>1, <2>1, ElapseSlots
<1>8. ASSUME UNCHANGED vars PROVE Goal
  BY <1>2, <1>8 DEF vars
<1>9. ASSUME NEW r \in Requests,
             \/ \E stream \in BOOLEAN : Start(r, stream)
             \/ \E s \in Providers : Select(r, s) \/ SelectDegraded(r, s)
             \/ Exhausted(r) \/ Unwind(r) \/ StreamEnds(r)
             \/ AcquireFailsOpen(r) \/ ReportSwallowed(r) \/ UnwindFails(r)
      PROVE  Goal
  <2>1. UNCHANGED <<br, verdict>>
    BY <1>9 DEF Start, Select, SelectDegraded, Chosen, Exhausted, Unwind, StreamEnds,
                AcquireFailsOpen, ReportSwallowed, UnwindFails, shared, ghosts
  <2> QED BY <1>2, <2>1
<1> HIDE DEF Goal
<1>10. ASSUME NEW r \in Requests, LoopStep(r) \/ FaultStep(r) \/ Answered(r) PROVE Goal
  BY <1>3, <1>4, <1>5, <1>6, <1>9, <1>10 DEF LoopStep, FaultStep
<1>11. ASSUME NEW r \in Requests, NEW stream \in BOOLEAN, Start(r, stream) PROVE Goal
  BY <1>9, <1>11
<1>12. ASSUME Next PROVE Goal
  BY <1>7, <1>10, <1>11, <1>12 DEF Next
<1>13. Goal
  BY <1>8, <1>12
<1> QED BY <1>13 DEF Goal

-----------------------------------------------------------------------------
LEMMA InvInit == Init => IInv
<1> SUFFICES ASSUME Init PROVE IInv
  OBVIOUS
<1>1. /\ \A r \in Requests : /\ pc[r] = "idle" /\ remaining[r] = {} /\ attempts[r] = 0
                             /\ slot[r] = None /\ verdict[r] = NoVerdict
      /\ \A p \in Providers : br[p] = NoKeys /\ conns[p] = NoGauge
  BY DEF Init
<1>2. TypeOK
  <2>1. br \in [Providers -> Breaker] /\ conns \in [Providers -> Gauge]
    <3>1. NoKeys \in Breaker
      BY NoKeysSlots DEF SlotState
    <3>2. NoGauge \in Gauge
      BY LeastConnectionsConfig DEF NoGauge, Gauge
    <3> QED BY <3>1, <3>2 DEF Init
  <2>2. pc \in [Requests -> Places] /\ exit \in [Requests -> Exits]
    BY DEF Init, Places, Exits
  <2>3. /\ remaining \in [Requests -> SUBSET Providers]
        /\ at \in [Requests -> Providers \cup {None}]
        /\ attempts \in [Requests -> Nat]
        /\ slot \in [Requests -> Providers \cup {None}]
    BY DEF Init
  <2>4. verdict \in [Requests -> [Providers -> Judgements]]
    <3>1. NoVerdict \in [Providers -> Judgements]
      BY DEF NoVerdict, Judgements
    <3> QED BY <3>1 DEF Init
  <2>5. reliable \subseteq Reliable /\ faults \in Nat /\ calm \in BOOLEAN
    BY DEF Init
  <2>6. \A r \in Requests : pc[r] \in InLoop => at[r] \in Providers
    BY <1>1 DEF InLoop, Outcomes
  <2> QED BY <2>1, <2>2, <2>3, <2>4, <2>5, <2>6 DEF TypeOK
<1>3. Gauges
  <2>1. ASSUME NEW p \in Providers PROVE conns[p].n = Cardinality(Holding(p))
    <3>1. Holding(p) = {}
      BY <1>1, FailoverAssumption DEF Holding
    <3> QED BY <1>1, <3>1, FS_EmptySet DEF NoGauge
  <2> QED BY <1>1, <2>1 DEF Gauges, InLoop, Outcomes
<1>4. Slots
  <2>1. ASSUME NEW p \in Providers PROVE br[p].probes = 0
    BY <1>1, NoKeysSlots
  <2> QED BY <2>1, UnreportedFinite DEF Slots, SlotsAccounted
<1>5. Verdicts
  <2> SUFFICES ASSUME NEW r \in Requests PROVE VerdictOf(r)
    BY DEF Verdicts
  <2>1. ~AtHand(r) /\ Extra(r) = 0
    BY <1>1 DEF AtHand, Extra, InLoop, Outcomes
  <2> QED BY <1>1, <2>1, NothingFailed DEF VerdictOf
<1>6. Steady
  <2>1. reliable \subseteq Providers
    BY <1>2, FailoverAssumption DEF TypeOK
  <2>2. \A p \in Providers : NoVerdict[p] = "none"
    BY DEF NoVerdict
  <2> QED BY <1>1, <2>1, <2>2, NoKeysSlots DEF Steady
<1> QED BY <1>2, <1>3, <1>4, <1>5, <1>6 DEF IInv

LEMMA InvStep == IInv /\ [Next]_vars => IInv'
<1> SUFFICES ASSUME IInv, [Next]_vars PROVE IInv'
  OBVIOUS
<1>1. TypeOK' /\ Slots'
  BY StepTyped, StepAccounted DEF IInv, Slots
<1>2. Gauges' /\ Verdicts' /\ Steady'
  BY StepGauges, StepVerdicts, StepSteady DEF IInv
<1> QED BY <1>1, <1>2 DEF IInv

LEMMA Invariance == Spec => []IInv
<1>1. Init => IInv
  BY InvInit
<1>2. IInv /\ [Next]_vars => IInv'
  BY InvStep
<1> QED BY <1>1, <1>2, PTL DEF Spec

(* Every path of runFailover releases the gauge that its select raised: the *)
(* gauge is the number of requests between the two, for any number of them. *)
THEOREM GaugeIsExact == Spec => []GaugeExact
<1>1. IInv => GaugeExact
  BY DEF IInv, TypeOK, Gauge, Gauges, GaugeExact
<1> QED BY <1>1, Invariance, PTL

(* Every path of runFailover reports to the breaker that admitted it, so    *)
(* that no probe slot is lost while no script fails.                        *)
THEOREM SlotsAreAccounted == Spec => []SlotsAccounted
<1>1. IInv => SlotsAccounted
  BY DEF IInv, Slots
<1> QED BY <1>1, Invariance, PTL

(* AllProvidersFailedError is thrown only when every candidate refused or   *)
(* failed, and the failovers of an answer are its failed calls.             *)
THEOREM VerdictsAreComplete == Spec => []VerdictsComplete
<1>1. IInv => VerdictsComplete
  <2> SUFFICES ASSUME IInv, NEW r \in Requests
               PROVE  /\ pc[r] = "exhausted" =>
                          \A p \in Providers : verdict[r][p] \in {"refused", "failure"}
                      /\ pc[r] \in {"ok", "streaming"} =>
                          attempts[r] - 1 = Cardinality(Failed(r))
    BY DEF VerdictsComplete, Failed
  <2>1. VerdictOf(r)
    BY DEF IInv, Verdicts
  <2>2. CASE pc[r] = "exhausted"
    <3>1. ~AtHand(r)
      BY <2>2 DEF AtHand, InLoop, Outcomes
    <3> QED BY <2>1, <2>2, <3>1 DEF VerdictOf
  <2>3. CASE pc[r] \in {"ok", "streaming"}
    <3>1. Extra(r) = 1
      BY <2>3 DEF Extra
    <3> QED BY <2>1, <2>3, <3>1, FailedFinite DEF VerdictOf
  <2> QED BY <2>2, <2>3
<1> QED BY <1>1, Invariance, PTL

(* One candidate that never fails with a retryable error is enough for      *)
(* every request to be answered, whatever the others and Redis do.          *)
THEOREM ReliableAlwaysServes == Spec => []ReliableServes
<1>1. IInv => ReliableServes
  <2> SUFFICES ASSUME IInv, NEW p \in reliable, NEW r \in Requests, pc[r] = "exhausted"
               PROVE  FALSE
    BY DEF ReliableServes
  <2>1. p \in Providers
    BY FailoverAssumption DEF IInv, TypeOK
  <2>2. ~AtHand(r) /\ VerdictOf(r)
    BY DEF AtHand, InLoop, Outcomes, IInv, Verdicts
  <2>3. verdict[r][p] \in {"none", "refused", "failure"}
    BY <2>1, <2>2 DEF VerdictOf
  <2> QED BY <2>1, <2>2, <2>3 DEF VerdictOf, IInv, Steady
<1> QED BY <1>1, Invariance, PTL
=============================================================================
