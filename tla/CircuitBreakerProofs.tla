------------------------ MODULE CircuitBreakerProofs ------------------------
(***************************************************************************)
(* Proofs about CircuitBreaker, for every configuration, every number of   *)
(* requests and every number of faults.                                    *)
(***************************************************************************)
EXTENDS CircuitBreaker, FiniteSetTheorems, TLAPS

(* Slots taken and probes in flight: the counter covers every holder. *)
SlotsCoverHolders ==
    /\ br.state # "HALF_OPEN" => holder = {}
    /\ br.state = "HALF_OPEN" /\ intact => Cardinality(holder) <= br.probes

(* The counters never run ahead of what the reports said. *)
CountsEarned ==
    /\ br.state = "CLOSED" => br.failures <= streak
    /\ br.state = "HALF_OPEN" /\ intact => br.successes <= probeOks

(* The inductive invariant. *)
IInv == TypeOK /\ KeysAgree /\ SlotsCoverHolders /\ CountsEarned

-----------------------------------------------------------------------------
(* Every script and the passing of time keep the keys well typed. *)
LEMMA AcquireTyped ==
    ASSUME NEW b \in Breaker, NEW skew \in Int
    PROVE  AcquireLua(b, skew) \in Breaker
<1>1. Timeout \in 0 .. Timeout /\ b.probes + 1 \in Nat
  BY BreakerConfig DEF Breaker
<1>2. [b EXCEPT !.state = "HALF_OPEN", !.probes = 1,
                !.lease = Timeout, !.successes = 0] \in Breaker
  BY <1>1 DEF Breaker, States
<1>3. [b EXCEPT !.probes = b.probes + 1, !.lease = Timeout] \in Breaker
  BY <1>1 DEF Breaker
<1> QED BY <1>2, <1>3 DEF AcquireLua

LEMMA NoKeysTyped == NoKeys \in Breaker
BY BreakerConfig DEF NoKeys, Breaker, States, Absent, MaxAge

LEMMA GiveBackTyped == ASSUME NEW b \in Breaker PROVE GiveBackProbe(b) \in Breaker
<1>1. (IF b.probes > 0 THEN b.probes - 1 ELSE b.probes) \in Nat
  BY DEF Breaker
<1> QED BY <1>1 DEF GiveBackProbe, Breaker

LEMMA SuccessTyped == ASSUME NEW b \in Breaker PROVE SuccessLua(b) \in Breaker
<1>1. [b EXCEPT !.successes = b.successes + 1] \in Breaker
  <2>1. b.successes + 1 \in Nat
    BY DEF Breaker
  <2> QED BY <2>1 DEF Breaker
<1>2. [b EXCEPT !.failures = 0, !.window = 0] \in Breaker
  <2>1. 0 \in 0 .. Window
    BY BreakerConfig
  <2> QED BY <2>1 DEF Breaker
<1>3. GiveBackProbe([b EXCEPT !.successes = b.successes + 1]) \in Breaker
  BY <1>1, GiveBackTyped
<1> QED BY <1>2, <1>3, NoKeysTyped DEF SuccessLua

LEMMA FailureTyped == ASSUME NEW b \in Breaker PROVE FailureLua(b) \in Breaker
<1>1. 0 \in Absent .. MaxAge /\ Window \in 0 .. Window /\ b.failures + 1 \in Nat
  BY BreakerConfig DEF Breaker, Absent, MaxAge
<1>2. [NoKeys EXCEPT !.state = "OPEN", !.opened = 0] \in Breaker
  BY <1>1, NoKeysTyped DEF Breaker, States
<1>3. [b EXCEPT !.state = "OPEN", !.opened = 0,
                !.failures = b.failures + 1, !.window = Window] \in Breaker
  BY <1>1 DEF Breaker, States
<1>4. [b EXCEPT !.failures = b.failures + 1, !.window = Window] \in Breaker
  BY <1>1 DEF Breaker
<1> QED BY <1>2, <1>3, <1>4 DEF FailureLua

LEMMA ElapseTyped == ASSUME NEW b \in Breaker PROVE Elapse(b) \in Breaker
<1>1. (IF b.opened \in 0 .. (MaxAge - 1) THEN b.opened + 1 ELSE b.opened)
        \in Absent .. MaxAge
  BY BreakerConfig DEF Breaker, Absent, MaxAge
<1>2. /\ (IF b.lease > 0 THEN b.lease - 1 ELSE 0) \in 0 .. Timeout
      /\ (IF b.lease = 1 THEN 0 ELSE b.probes) \in Nat
  BY BreakerConfig DEF Breaker
<1>3. /\ (IF b.window > 0 THEN b.window - 1 ELSE 0) \in 0 .. Window
      /\ (IF b.window = 1 THEN 0 ELSE b.failures) \in Nat
  BY BreakerConfig DEF Breaker
<1> QED BY <1>1, <1>2, <1>3 DEF Elapse, Breaker

LEMMA ScriptTyped ==
    ASSUME NEW b \in Breaker, NEW outcome \in Outcomes
    PROVE  Script(outcome, b) \in Breaker
BY SuccessTyped, FailureTyped, GiveBackTyped DEF Script, ReleaseLua, Outcomes

-----------------------------------------------------------------------------
(* The history of a step is well typed. *)
LEMMA AcquireStepTyped ==
    ASSUME TypeOK, NEW c \in Callers, NEW skew \in Skews, NEW by \in SUBSET Callers,
           br' = AcquireLua(br, skew), NoteAcquire(AcquireLua(br, skew), by)
    PROVE  /\ br' \in Breaker
           /\ holder' \subseteq Callers /\ intact' \in BOOLEAN
           /\ streak' \in 0 .. FailureThreshold
           /\ probeOks' \in 0 .. SuccessThreshold
<1>1. br' \in Breaker
  BY AcquireTyped, BreakerConfig DEF TypeOK, Skews
<1>2. holder' \subseteq Callers
  BY DEF NoteAcquire, TypeOK
<1>3. intact' \in BOOLEAN
  BY Zenon DEF NoteAcquire, TypeOK
<1>4. /\ streak' \in 0 .. FailureThreshold
      /\ probeOks' \in 0 .. SuccessThreshold
  BY BreakerConfig DEF NoteAcquire, TypeOK
<1> QED BY <1>1, <1>2, <1>3, <1>4

LEMMA ReportStepTyped ==
    ASSUME TypeOK, NEW c \in Callers, NEW outcome \in Outcomes,
           br' = Script(outcome, br), NoteReport(c, outcome, Script(outcome, br))
    PROVE  /\ br' \in Breaker
           /\ holder' \subseteq Callers /\ intact' \in BOOLEAN
           /\ streak' \in 0 .. FailureThreshold
           /\ probeOks' \in 0 .. SuccessThreshold
<1>1. br' \in Breaker
  BY ScriptTyped DEF TypeOK
<1>2. holder' \subseteq Callers
  BY DEF NoteReport, TypeOK
<1>3. intact' \in BOOLEAN
  BY DEF NoteReport, TypeOK
<1>4. streak' \in 0 .. FailureThreshold
  BY BreakerConfig DEF NoteReport, TypeOK, Min2
<1>5. probeOks' \in 0 .. SuccessThreshold
  BY BreakerConfig DEF NoteReport, TypeOK, Min2
<1> QED BY <1>1, <1>2, <1>3, <1>4, <1>5

-----------------------------------------------------------------------------
LEMMA TypeInit == Init => TypeOK
<1> SUFFICES ASSUME Init PROVE TypeOK
  OBVIOUS
<1>1. br \in Breaker
  BY NoKeysTyped DEF Init
<1>2. phase \in [Callers -> Phases]
  BY DEF Init, Phases
<1>3. healthy \in BOOLEAN /\ intact \in BOOLEAN
  BY DEF Init
<1>4. /\ faults \in 0 .. MaxFaults
      /\ streak \in 0 .. FailureThreshold /\ probeOks \in 0 .. SuccessThreshold
  BY BreakerConfig, CallersAssumption DEF Init
<1> QED BY <1>1, <1>2, <1>3, <1>4 DEF Init, TypeOK

LEMMA FaultTyped ==
    ASSUME TypeOK, Fault
    PROVE  faults' \in 0 .. MaxFaults
BY CallersAssumption DEF TypeOK, Fault

LEMMA TypeStep == TypeOK /\ [Next]_vars => TypeOK'
<1> SUFFICES ASSUME TypeOK, [Next]_vars PROVE TypeOK'
  OBVIOUS
<1>1. ASSUME NEW c \in Callers, NEW skew \in Skews, Acquire(c, skew) PROVE TypeOK'
  <2>1. phase' \in [Callers -> Phases]
    BY <1>1 DEF Acquire, TypeOK, Phases
  <2>2. br' = AcquireLua(br, skew) /\ NoteAcquire(AcquireLua(br, skew), {c})
    BY <1>1 DEF Acquire
  <2> QED BY <1>1, <2>1, <2>2, AcquireStepTyped DEF Acquire, TypeOK
<1>2. ASSUME NEW c \in Callers, NEW skew \in Skews, AcquireReplyLost(c, skew)
      PROVE  TypeOK'
  <2>1. br' = AcquireLua(br, skew) /\ NoteAcquire(AcquireLua(br, skew), {})
    BY <1>2 DEF AcquireReplyLost
  <2> QED BY <1>2, <2>1, AcquireStepTyped, FaultTyped DEF AcquireReplyLost, TypeOK
<1>3. ASSUME NEW c \in Callers, NEW outcome \in Outcomes, CallEnds(c, outcome)
      PROVE  TypeOK'
  <2>1. phase' \in [Callers -> Phases]
    BY <1>3 DEF CallEnds, TypeOK, Phases
  <2> QED BY <1>3, <2>1 DEF CallEnds, TypeOK, history
<1>4. ASSUME NEW c \in Callers, Report(c) PROVE TypeOK'
  <2>1. phase' \in [Callers -> Phases]
    BY <1>4 DEF Report, TypeOK, Phases
  <2> QED BY <1>4, <2>1, ReportStepTyped DEF Report, TypeOK
<1>5. ASSUME NEW c \in Callers, FailOpen(c) PROVE TypeOK'
  <2>1. phase' \in [Callers -> Phases]
    BY <1>5 DEF FailOpen, TypeOK, Phases
  <2> QED BY <1>5, <2>1, FaultTyped DEF FailOpen, TypeOK, history
<1>6. ASSUME NEW c \in Callers, ReportReplyLost(c) PROVE TypeOK'
  BY <1>6, ReportStepTyped, FaultTyped DEF ReportReplyLost, TypeOK
<1>7. ASSUME NEW c \in Callers, Vanish(c) PROVE TypeOK'
  <2>1. phase' \in [Callers -> Phases]
    BY <1>7 DEF Vanish, TypeOK, Phases
  <2> QED BY <1>7, <2>1, FaultTyped DEF Vanish, TypeOK
<1>8. CASE Reset
  <2>1. streak' \in 0 .. FailureThreshold /\ probeOks' \in 0 .. SuccessThreshold
    BY <1>8, BreakerConfig DEF Reset
  <2> QED BY <1>8, <2>1, NoKeysTyped DEF Reset, ResetKeys, TypeOK
<1>9. CASE Tick
  BY <1>9, ElapseTyped DEF Tick, TypeOK
<1>10. CASE Flip
  BY <1>10 DEF Flip, TypeOK, history
<1>11. CASE UNCHANGED vars
  BY <1>11 DEF vars, TypeOK
<1> QED
  BY <1>1, <1>2, <1>3, <1>4, <1>5, <1>6, <1>7, <1>8, <1>9, <1>10, <1>11
     DEF Next, CallerStep

(* The type invariant: no script, whatever order they run in, makes a       *)
(* counter negative or a TTL run past its end.                              *)
THEOREM TypeCorrect == Spec => []TypeOK
BY TypeInit, TypeStep, PTL DEF Spec

-----------------------------------------------------------------------------
(* No script breaks the agreement of the keys. *)
LEMMA AcquireAgrees ==
    ASSUME TypeOK, KeysAgree, NEW skew \in Skews, br' = AcquireLua(br, skew)
    PROVE  KeysAgree'
<1> USE BreakerConfig
<1>1. CASE br.state = "OPEN" /\ TimedOut(br, skew)
  <2>1. br'.state = "HALF_OPEN" /\ br'.probes = 1 /\ br'.successes = 0
    BY <1>1 DEF AcquireLua, TypeOK, Breaker
  <2> QED BY <2>1 DEF KeysAgree
<1>2. CASE br.state = "HALF_OPEN" /\ br.probes < MaxProbes
  <2>1. /\ br'.state = "HALF_OPEN" /\ br'.probes = br.probes + 1
        /\ br'.successes = br.successes
    BY <1>2 DEF AcquireLua, TypeOK, Breaker
  <2> QED BY <1>2, <2>1 DEF KeysAgree, TypeOK, Breaker
<1>3. CASE /\ ~(br.state = "OPEN" /\ TimedOut(br, skew))
           /\ ~(br.state = "HALF_OPEN" /\ br.probes < MaxProbes)
  <2>1. br' = br
    BY <1>3 DEF AcquireLua
  <2> QED BY <2>1 DEF KeysAgree
<1> QED BY <1>1, <1>2, <1>3

LEMMA NoKeysAgree == ASSUME br' = NoKeys PROVE KeysAgree'
<1>1. /\ br'.state = "CLOSED" /\ br'.failures = 0 /\ br'.opened = Absent
      /\ br'.probes = 0 /\ br'.successes = 0
  BY DEF NoKeys
<1> QED BY <1>1, BreakerConfig DEF KeysAgree

(* What giving a slot back does to the two counters. *)
LEMMA GiveBackEffect ==
    ASSUME NEW b \in Breaker
    PROVE  /\ GiveBackProbe(b).state = b.state
           /\ GiveBackProbe(b).successes = b.successes
           /\ GiveBackProbe(b).probes = IF b.probes > 0 THEN b.probes - 1 ELSE b.probes
BY DEF GiveBackProbe, Breaker

LEMMA ReleaseEffect ==
    ASSUME br \in Breaker, br.state = "HALF_OPEN", br' = ReleaseLua(br)
    PROVE  /\ br'.state = "HALF_OPEN" /\ br'.successes = br.successes
           /\ br'.probes = IF br.probes > 0 THEN br.probes - 1 ELSE br.probes
BY GiveBackEffect DEF ReleaseLua

LEMMA SuccessEffect ==
    ASSUME br \in Breaker, br.state = "HALF_OPEN", br' = SuccessLua(br),
           br.successes + 1 < SuccessThreshold
    PROVE  /\ br'.state = "HALF_OPEN" /\ br'.successes = br.successes + 1
           /\ br'.probes = IF br.probes > 0 THEN br.probes - 1 ELSE br.probes
<1> DEFINE b == [br EXCEPT !.successes = br.successes + 1]
<1>0. b.successes = br.successes + 1 /\ b.probes = br.probes /\ b.state = br.state
  BY DEF Breaker
<1>1. b \in Breaker
  <2>1. br.successes + 1 \in Nat
    BY DEF Breaker
  <2> QED BY <2>1 DEF Breaker
<1>2. br' = GiveBackProbe(b)
  <2>1. ~(br.successes + 1 >= SuccessThreshold)
    BY BreakerConfig DEF Breaker
  <2> QED BY <2>1 DEF SuccessLua
<1> HIDE DEF b
<1> QED BY <1>0, <1>1, <1>2, GiveBackEffect

LEMMA CloseEffect ==
    ASSUME br \in Breaker, br.state = "HALF_OPEN", br' = SuccessLua(br),
           br.successes + 1 >= SuccessThreshold
    PROVE  br' = NoKeys
<1>1. ~(br.successes + 1 < SuccessThreshold)
  BY BreakerConfig DEF Breaker
<1> QED BY <1>1 DEF SuccessLua

LEMMA ScriptAgrees ==
    ASSUME TypeOK, KeysAgree, NEW outcome \in Outcomes, br' = Script(outcome, br)
    PROVE  KeysAgree'
<1> USE BreakerConfig
<1>1. CASE outcome = "success" /\ br.state = "HALF_OPEN"
  <2>1. br' = SuccessLua(br)
    BY <1>1 DEF Script
  <2>2. CASE br.successes + 1 >= SuccessThreshold
    BY <1>1, <2>1, <2>2, CloseEffect, NoKeysAgree DEF TypeOK
  <2>3. CASE br.successes + 1 < SuccessThreshold
    BY <1>1, <2>1, <2>3, SuccessEffect DEF KeysAgree, TypeOK, Breaker
  <2> QED BY <2>2, <2>3 DEF TypeOK, Breaker
<1>2. CASE outcome = "success" /\ br.state # "HALF_OPEN"
  <2>1. br' = IF br.state = "CLOSED" THEN [br EXCEPT !.failures = 0, !.window = 0] ELSE br
    BY <1>2 DEF Script, SuccessLua
  <2>2. CASE br.state = "CLOSED"
    <3>1. /\ br'.state = br.state /\ br'.failures = 0 /\ br'.opened = br.opened
          /\ br'.probes = br.probes /\ br'.successes = br.successes
      BY <2>1, <2>2 DEF TypeOK, Breaker
    <3> QED BY <2>2, <3>1 DEF KeysAgree
  <2>3. CASE br.state # "CLOSED"
    BY <2>1, <2>3 DEF KeysAgree
  <2> QED BY <2>2, <2>3
<1>3. CASE outcome = "release"
  <2>1. CASE br.state = "HALF_OPEN"
    BY <1>3, <2>1, ReleaseEffect DEF Script, KeysAgree, TypeOK, Breaker
  <2>2. CASE br.state # "HALF_OPEN"
    BY <1>3, <2>2 DEF Script, ReleaseLua, KeysAgree
  <2> QED BY <2>1, <2>2
<1>4. CASE outcome = "failure"
  <2>0. br' = FailureLua(br)
    BY <1>4 DEF Script
  <2>1. CASE br.state = "HALF_OPEN"
    <3>1. br' = [NoKeys EXCEPT !.state = "OPEN", !.opened = 0]
      BY <2>0, <2>1 DEF FailureLua
    <3>2. /\ br'.state = "OPEN" /\ br'.opened = 0 /\ br'.probes = 0
          /\ br'.successes = 0
      BY <3>1 DEF NoKeys
    <3> QED BY <3>2 DEF KeysAgree, Absent
  <2>2. CASE br.state = "CLOSED" /\ br.failures + 1 >= FailureThreshold
    <3>1. /\ br'.state = "OPEN" /\ br'.opened = 0
          /\ br'.probes = br.probes /\ br'.successes = br.successes
      BY <2>0, <2>2 DEF FailureLua, TypeOK, Breaker
    <3> QED BY <2>2, <3>1 DEF KeysAgree, Absent
  <2>3. CASE br.state = "CLOSED" /\ br.failures + 1 < FailureThreshold
    <3>0. ~(br.failures + 1 >= FailureThreshold)
      BY <2>3 DEF TypeOK, Breaker
    <3>1. br' = [br EXCEPT !.failures = br.failures + 1, !.window = Window]
      BY <2>0, <2>3, <3>0 DEF FailureLua
    <3>2. /\ br'.state = "CLOSED" /\ br'.failures = br.failures + 1
          /\ br'.opened = br.opened
          /\ br'.probes = br.probes /\ br'.successes = br.successes
      BY <2>3, <3>1 DEF TypeOK, Breaker
    <3> QED BY <2>3, <3>2 DEF KeysAgree
  <2>4. CASE br.state = "OPEN"
    BY <2>0, <2>4 DEF FailureLua, KeysAgree
  <2> QED BY <2>1, <2>2, <2>3, <2>4 DEF TypeOK, Breaker, States
<1> QED BY <1>1, <1>2, <1>3, <1>4 DEF Outcomes

(* What a tick does to the keys. *)
LEMMA ElapseEffect ==
    ASSUME br \in Breaker, br' = Elapse(br)
    PROVE  /\ br'.state = br.state /\ br'.successes = br.successes
           /\ br'.failures \in {0, br.failures} /\ br'.probes \in {0, br.probes}
           /\ br'.opened = IF br.opened \in 0 .. (MaxAge - 1)
                           THEN br.opened + 1 ELSE br.opened
BY DEF Elapse, Breaker

LEMMA ElapseAgrees ==
    ASSUME TypeOK, KeysAgree, br' = Elapse(br)
    PROVE  KeysAgree'
BY ElapseEffect, BreakerConfig DEF KeysAgree, TypeOK, Breaker, Absent, MaxAge

-----------------------------------------------------------------------------
(* Slots and counts.  Holders are finitely many. *)
LEMMA HolderFinite ==
    ASSUME TypeOK
    PROVE  IsFiniteSet(holder) /\ Cardinality(holder) \in Nat
<1>1. IsFiniteSet(holder)
  BY CallersAssumption, FS_Subset DEF TypeOK
<1> QED BY <1>1, FS_CardinalityType

LEMMA AcquireCounts ==
    ASSUME IInv, NEW c \in Callers, NEW skew \in Skews, NEW by \in {{}, {c}},
           br' = AcquireLua(br, skew), NoteAcquire(AcquireLua(br, skew), by)
    PROVE  SlotsCoverHolders' /\ CountsEarned'
<1>1. CASE br.state = "OPEN" /\ TimedOut(br, skew)
  <2>1. /\ br'.state = "HALF_OPEN" /\ br'.probes = 1 /\ br'.successes = 0
    BY <1>1 DEF AcquireLua, IInv, TypeOK, Breaker
  <2>2. holder' = by /\ probeOks' = 0
    <3>1. br' # br
      BY <1>1, <2>1
    <3> QED BY <1>1, <2>1, <3>1 DEF NoteAcquire
  <2>3. Cardinality(by) <= 1
    BY FS_EmptySet, FS_Singleton
  <2> QED BY <2>1, <2>2, <2>3 DEF SlotsCoverHolders, CountsEarned
<1>2. CASE br.state = "HALF_OPEN" /\ br.probes < MaxProbes
  <2>1. /\ br'.state = "HALF_OPEN" /\ br'.probes = br.probes + 1
        /\ br'.successes = br.successes /\ br.probes \in Nat
    BY <1>2 DEF AcquireLua, IInv, TypeOK, Breaker
  <2>2. /\ holder' = holder \cup by
        /\ intact' = intact /\ probeOks' = probeOks
    <3>1. br' # br
      BY <2>1
    <3> QED BY <1>2, <2>1, <3>1 DEF NoteAcquire
  <2>3. Cardinality(holder \cup by) <= Cardinality(holder) + 1
    <3>0. IsFiniteSet(holder) /\ Cardinality(holder) \in Nat
      BY HolderFinite DEF IInv
    <3>1. CASE by = {}
      <4>1. holder \cup by = holder
        BY <3>1
      <4> QED BY <3>0, <4>1
    <3>2. CASE by = {c}
      <4>1. Cardinality(holder \cup {c}) \in {Cardinality(holder), Cardinality(holder) + 1}
        BY <3>0, FS_AddElement
      <4> QED BY <3>0, <3>2, <4>1
    <3> QED BY <3>1, <3>2
  <2>4. Cardinality(holder \cup by) \in Nat
    BY HolderFinite, FS_AddElement, FS_CardinalityType, FS_Singleton, FS_EmptySet,
       FS_Union DEF IInv
  <2>5. intact' => Cardinality(holder') <= br'.probes
    BY <1>2, <2>1, <2>2, <2>3, <2>4, HolderFinite DEF IInv, SlotsCoverHolders
  <2> QED BY <1>2, <2>1, <2>2, <2>5 DEF SlotsCoverHolders, CountsEarned, IInv
<1>3. CASE /\ ~(br.state = "OPEN" /\ TimedOut(br, skew))
           /\ ~(br.state = "HALF_OPEN" /\ br.probes < MaxProbes)
  <2>1. AcquireLua(br, skew) = br
    BY <1>3 DEF AcquireLua
  <2>2. /\ br' = br /\ holder' = holder /\ intact' = intact
        /\ probeOks' = probeOks /\ streak' = streak
    BY <2>1 DEF NoteAcquire
  <2> QED BY <2>1, <2>2 DEF IInv, SlotsCoverHolders, CountsEarned
<1> QED BY <1>1, <1>2, <1>3

(* A report in HALF_OPEN that leaves the breaker HALF_OPEN gives back one   *)
(* slot and takes one holder away.                                          *)
LEMMA GiveBackCovers ==
    ASSUME IInv, NEW c \in Callers, br.state = "HALF_OPEN", br' \in Breaker,
           br'.probes = IF br.probes > 0 THEN br.probes - 1 ELSE br.probes,
           holder' = holder \ {c}, intact, c \in holder
    PROVE  Cardinality(holder') <= br'.probes
<1>1. Cardinality(holder \ {c}) = Cardinality(holder) - 1
  BY HolderFinite, FS_RemoveElement DEF IInv
<1>2. Cardinality(holder) <= br.probes /\ br.probes \in Nat
  BY DEF IInv, SlotsCoverHolders, TypeOK, Breaker
<1>3. Cardinality(holder \ {c}) \in Nat
  BY HolderFinite, FS_RemoveElement, FS_CardinalityType DEF IInv
<1> QED BY <1>1, <1>2, <1>3, HolderFinite DEF IInv

LEMMA ReportCounts ==
    ASSUME IInv, NEW c \in Callers, NEW outcome \in Outcomes,
           br' = Script(outcome, br), NoteReport(c, outcome, Script(outcome, br)),
           br' \in Breaker
    PROVE  SlotsCoverHolders' /\ CountsEarned'
<1> USE BreakerConfig
<1>0. /\ br \in Breaker /\ streak \in 0 .. FailureThreshold
      /\ probeOks \in 0 .. SuccessThreshold
  BY DEF IInv, TypeOK
<1>1. holder' = IF br'.state = "HALF_OPEN" THEN holder \ {c} ELSE {}
  BY DEF NoteReport
<1>2. CASE br.state = "HALF_OPEN" /\ outcome = "success"
  <2>0. br' = SuccessLua(br)
    BY <1>2 DEF Script
  <2>1. CASE br.successes + 1 >= SuccessThreshold
    <3>1. br'.state = "CLOSED" /\ br'.failures = 0
      BY <1>0, <1>2, <2>0, <2>1, CloseEffect DEF NoKeys
    <3>2. streak' = 0
      BY <1>2 DEF NoteReport
    <3> QED BY <1>1, <3>1, <3>2 DEF SlotsCoverHolders, CountsEarned
  <2>2. CASE br.successes + 1 < SuccessThreshold
    <3>1. /\ br'.state = "HALF_OPEN" /\ br'.successes = br.successes + 1
          /\ br'.probes = IF br.probes > 0 THEN br.probes - 1 ELSE br.probes
      BY <1>0, <1>2, <2>0, <2>2, SuccessEffect
    <3>2. ASSUME intact'
          PROVE  Cardinality(holder') <= br'.probes /\ br'.successes <= probeOks'
      <4>1. intact /\ c \in holder
        BY <1>2, <3>2 DEF NoteReport
      <4>2. probeOks' = Min2(probeOks + 1, SuccessThreshold)
        BY <1>2, <4>1 DEF NoteReport
      <4>3. br.successes <= probeOks /\ br.successes \in Nat
        BY <1>0, <1>2, <4>1 DEF IInv, CountsEarned, Breaker
      <4>4. br'.successes <= probeOks'
        BY <1>0, <2>2, <3>1, <4>2, <4>3 DEF Min2
      <4> QED BY <1>1, <1>2, <3>1, <4>1, <4>4, GiveBackCovers
    <3> QED BY <3>1, <3>2 DEF SlotsCoverHolders, CountsEarned
  <2> QED BY <1>0, <2>1, <2>2 DEF Breaker
<1>3. CASE br.state = "HALF_OPEN" /\ outcome = "release"
  <2>1. /\ br'.state = "HALF_OPEN" /\ br'.successes = br.successes
        /\ br'.probes = IF br.probes > 0 THEN br.probes - 1 ELSE br.probes
    BY <1>0, <1>3, ReleaseEffect DEF Script
  <2>2. ASSUME intact'
        PROVE  Cardinality(holder') <= br'.probes /\ br'.successes <= probeOks'
    <3>1. intact /\ c \in holder
      BY <1>3, <2>2 DEF NoteReport
    <3>2. probeOks' = probeOks
      BY <1>3 DEF NoteReport
    <3> QED BY <1>1, <1>3, <2>1, <3>1, <3>2, GiveBackCovers DEF IInv, CountsEarned
  <2> QED BY <2>1, <2>2 DEF SlotsCoverHolders, CountsEarned
<1>4. CASE br.state = "HALF_OPEN" /\ outcome = "failure"
  <2>1. br'.state = "OPEN"
    BY <1>4 DEF Script, FailureLua, NoKeys
  <2> QED BY <1>1, <2>1 DEF SlotsCoverHolders, CountsEarned
<1>5. CASE br.state = "OPEN"
  <2>1. br'.state = "OPEN"
    BY <1>5 DEF Script, SuccessLua, FailureLua, ReleaseLua, Outcomes
  <2> QED BY <1>1, <2>1 DEF SlotsCoverHolders, CountsEarned
<1>6. CASE br.state = "CLOSED"
  <2>1. br'.state # "HALF_OPEN"
    BY <1>0, <1>6 DEF Script, SuccessLua, FailureLua, ReleaseLua, Outcomes, Breaker
  <2>2. br'.state = "CLOSED" => br'.failures <= streak'
    <3>1. CASE outcome = "success"
      <4>1. br' = [br EXCEPT !.failures = 0, !.window = 0]
        BY <1>6, <3>1 DEF Script, SuccessLua
      <4>2. br'.failures = 0 /\ streak' = 0
        BY <1>0, <3>1, <4>1 DEF NoteReport, Breaker
      <4> QED BY <4>2
    <3>2. CASE outcome = "release"
      BY <1>6, <3>2 DEF Script, ReleaseLua, NoteReport, IInv, CountsEarned
    <3>3. CASE outcome = "failure"
      <4>0. br.failures \in Nat /\ br.failures <= streak
        BY <1>0, <1>6 DEF IInv, CountsEarned, Breaker
      <4>1. streak' = Min2(streak + 1, FailureThreshold)
        BY <1>6, <3>3 DEF NoteReport
      <4>2. br' = FailureLua(br)
        BY <3>3 DEF Script
      <4>3. CASE br.failures + 1 >= FailureThreshold
        <5>1. br'.state = "OPEN"
          BY <1>0, <1>6, <4>0, <4>2, <4>3 DEF FailureLua, Breaker
        <5> QED BY <5>1
      <4>4. CASE br.failures + 1 < FailureThreshold
        <5>0. ~(br.failures + 1 >= FailureThreshold)
          BY <4>0, <4>4
        <5>1. br' = [br EXCEPT !.failures = br.failures + 1, !.window = Window]
          BY <1>6, <4>2, <4>4, <5>0 DEF FailureLua
        <5>2. br'.failures = br.failures + 1
          BY <1>0, <5>1 DEF Breaker
        <5> QED BY <1>0, <4>0, <4>1, <4>4, <5>2 DEF Min2
      <4> QED BY <4>0, <4>3, <4>4
    <3> QED BY <3>1, <3>2, <3>3 DEF Outcomes
  <2> QED BY <1>1, <2>1, <2>2 DEF SlotsCoverHolders, CountsEarned
<1> QED
  BY <1>0, <1>2, <1>3, <1>4, <1>5, <1>6 DEF Outcomes, Breaker, States

-----------------------------------------------------------------------------
LEMMA IInvInit == Init => IInv
<1> SUFFICES ASSUME Init PROVE IInv
  OBVIOUS
<1>1. /\ br.state = "CLOSED" /\ br.failures = 0 /\ br.opened = Absent
      /\ br.probes = 0 /\ br.successes = 0 /\ holder = {} /\ streak = 0
  BY DEF Init, NoKeys
<1>2. KeysAgree
  BY <1>1, BreakerConfig DEF KeysAgree
<1> QED BY <1>1, <1>2, TypeInit DEF IInv, SlotsCoverHolders, CountsEarned

LEMMA IInvStep == IInv /\ [Next]_vars => IInv'
<1> SUFFICES ASSUME IInv, [Next]_vars PROVE IInv'
  OBVIOUS
<1>0. TypeOK /\ TypeOK' /\ KeysAgree /\ br \in Breaker /\ br' \in Breaker
  BY TypeStep DEF IInv, TypeOK
<1>a. ASSUME UNCHANGED <<br, holder, intact, streak, probeOks>> PROVE IInv'
  BY <1>0, <1>a DEF IInv, KeysAgree, SlotsCoverHolders, CountsEarned
<1>1. ASSUME NEW c \in Callers, NEW skew \in Skews,
             Acquire(c, skew) \/ AcquireReplyLost(c, skew)
      PROVE  IInv'
  <2>1. br' = AcquireLua(br, skew)
    BY <1>1 DEF Acquire, AcquireReplyLost
  <2>2. \E by \in {{}, {c}} : NoteAcquire(AcquireLua(br, skew), by)
    BY <1>1 DEF Acquire, AcquireReplyLost
  <2>3. SlotsCoverHolders' /\ CountsEarned'
    BY <2>1, <2>2, AcquireCounts
  <2> QED BY <1>0, <2>1, <2>3, AcquireAgrees DEF IInv
<1>2. ASSUME NEW c \in Callers, Report(c) \/ ReportReplyLost(c) PROVE IInv'
  <2>1. /\ phase[c] \in Outcomes /\ br' = Script(phase[c], br)
        /\ NoteReport(c, phase[c], Script(phase[c], br))
    BY <1>2 DEF Report, ReportReplyLost
  <2>2. SlotsCoverHolders' /\ CountsEarned'
    BY <1>0, <2>1, ReportCounts
  <2> QED BY <1>0, <2>1, <2>2, ScriptAgrees DEF IInv
<1>3. ASSUME NEW c \in Callers, NEW outcome \in Outcomes, CallEnds(c, outcome)
      PROVE  IInv'
  BY <1>3, <1>a DEF CallEnds, history
<1>4. ASSUME NEW c \in Callers, FailOpen(c) PROVE IInv'
  BY <1>4, <1>a DEF FailOpen, history
<1>5. ASSUME NEW c \in Callers, Vanish(c) PROVE IInv'
  <2>1. Cardinality(holder \ {c}) <= Cardinality(holder)
    <3>1. IsFiniteSet(holder) /\ holder \ {c} \subseteq holder
      BY <1>0, HolderFinite
    <3> QED BY <3>1, FS_Subset
  <2>2. Cardinality(holder \ {c}) \in Nat /\ Cardinality(holder) \in Nat
    BY <1>0, HolderFinite, FS_RemoveElement, FS_CardinalityType
  <2>3. /\ br' = br /\ holder' = holder \ {c} /\ intact' = intact
        /\ streak' = streak /\ probeOks' = probeOks
    BY <1>5 DEF Vanish
  <2>4. KeysAgree' /\ CountsEarned'
    BY <2>3 DEF IInv, KeysAgree, CountsEarned
  <2>5. SlotsCoverHolders'
    BY <1>0, <2>1, <2>2, <2>3 DEF IInv, SlotsCoverHolders, Breaker
  <2> QED BY <1>0, <2>4, <2>5 DEF IInv
<1>6. CASE Reset
  <2>1. br' = NoKeys /\ holder' = {} /\ streak' = 0
    BY <1>6 DEF Reset, ResetKeys
  <2>2. br'.state = "CLOSED" /\ br'.failures = 0
    BY <2>1 DEF NoKeys
  <2> QED BY <1>0, <2>1, <2>2, NoKeysAgree DEF IInv, SlotsCoverHolders, CountsEarned
<1>7. CASE Tick
  <2>1. /\ br' = Elapse(br) /\ holder' = holder /\ streak' = streak
        /\ probeOks' = probeOks
        /\ intact' => intact /\ br'.probes = br.probes
    BY <1>7 DEF Tick
  <2>2. SlotsCoverHolders' /\ CountsEarned'
    BY <1>0, <2>1, ElapseEffect
       DEF IInv, TypeOK, SlotsCoverHolders, CountsEarned, Breaker
  <2> QED BY <1>0, <2>1, <2>2, ElapseAgrees DEF IInv
<1>8. CASE Flip
  BY <1>8, <1>a DEF Flip, history
<1>9. CASE UNCHANGED vars
  BY <1>9, <1>a DEF vars
<1> QED
  BY <1>1, <1>2, <1>3, <1>4, <1>5, <1>6, <1>7, <1>8, <1>9 DEF Next, CallerStep

LEMMA IInvAlways == Spec => []IInv
BY IInvInit, IInvStep, PTL DEF Spec

(* The five keys agree in every reachable state. *)
THEOREM KeysAlwaysAgree == Spec => []KeysAgree
<1>1. IInv => KeysAgree
  BY DEF IInv
<1> QED BY <1>1, IInvAlways, PTL

(* In an undisturbed HALF_OPEN period at most MaxProbes probes are calling. *)
THEOREM ProbesAlwaysBounded == Spec => []ProbesBounded
<1>1. IInv => ProbesBounded
  <2> SUFFICES ASSUME IInv, br.state = "HALF_OPEN", intact
               PROVE  Cardinality(Probing) <= MaxProbes
    BY DEF ProbesBounded
  <2>1. Probing \subseteq holder
    BY DEF Probing
  <2>2. IsFiniteSet(holder) /\ Cardinality(holder) \in Nat
    BY HolderFinite DEF IInv
  <2>3. Cardinality(Probing) <= Cardinality(holder) /\ Cardinality(Probing) \in Nat
    BY <2>1, <2>2, FS_Subset, FS_CardinalityType
  <2>4. Cardinality(holder) <= br.probes /\ br.probes <= MaxProbes /\ br.probes \in Nat
    BY DEF IInv, SlotsCoverHolders, KeysAgree, TypeOK, Breaker
  <2> QED BY <2>2, <2>3, <2>4, BreakerConfig
<1> QED BY <1>1, IInvAlways, PTL

-----------------------------------------------------------------------------
(* Which steps touch the keys, and how: a step either runs acquire, a       *)
(* report, the operator's DEL or the clock, or leaves the keys alone.       *)
LEMMA KeySteps ==
    ASSUME [Next]_vars
    PROVE  \/ \E skew \in Skews : br' = AcquireLua(br, skew)
           \/ \E c \in Callers : /\ phase[c] \in Outcomes
                                 /\ br' = Script(phase[c], br)
                                 /\ NoteReport(c, phase[c], Script(phase[c], br))
           \/ Reset
           \/ br' = Elapse(br)
           \/ br' = br
<1>1. ASSUME NEW c \in Callers, CallerStep(c)
      PROVE  \/ \E skew \in Skews : br' = AcquireLua(br, skew)
             \/ /\ phase[c] \in Outcomes
                /\ br' = Script(phase[c], br)
                /\ NoteReport(c, phase[c], Script(phase[c], br))
             \/ br' = br
  BY <1>1 DEF CallerStep, Acquire, AcquireReplyLost, CallEnds, Report, FailOpen,
     ReportReplyLost, Vanish
<1>2. CASE Reset
  BY <1>2
<1>3. CASE Tick
  BY <1>3 DEF Tick
<1>4. CASE Flip \/ UNCHANGED vars
  BY <1>4 DEF Flip, vars
<1> QED BY <1>1, <1>2, <1>3, <1>4 DEF Next

(* acquire moves the state only from OPEN to HALF_OPEN, and only after the  *)
(* timeout as the caller's clock sees it.                                   *)
LEMMA AcquireMoves ==
    ASSUME br \in Breaker, NEW skew \in Skews, br' = AcquireLua(br, skew)
    PROVE  \/ br'.state = br.state /\ br'.opened = br.opened
           \/ /\ br.state = "OPEN" /\ br'.state = "HALF_OPEN"
              /\ TimedOut(br, skew)
<1>1. CASE br.state = "OPEN" /\ TimedOut(br, skew)
  BY <1>1 DEF AcquireLua, Breaker
<1>2. CASE br.state = "HALF_OPEN" /\ br.probes < MaxProbes
  BY <1>2 DEF AcquireLua, Breaker
<1>3. CASE /\ ~(br.state = "OPEN" /\ TimedOut(br, skew))
           /\ ~(br.state = "HALF_OPEN" /\ br.probes < MaxProbes)
  BY <1>3 DEF AcquireLua
<1> QED BY <1>1, <1>2, <1>3

(* The breaker opens only on FailureThreshold failures in a row. *)
THEOREM TripsOnStreak == Spec => TripsOnlyOnStreak
<1>1. IInv /\ [Next]_vars =>
        [br.state = "CLOSED" /\ br'.state = "OPEN" => streak' = FailureThreshold]_vars
  <2> SUFFICES ASSUME IInv, [Next]_vars, br.state = "CLOSED", br'.state = "OPEN"
               PROVE  streak' = FailureThreshold
    OBVIOUS
  <2>0. br \in Breaker /\ streak \in 0 .. FailureThreshold /\ br.failures <= streak
    BY DEF IInv, TypeOK, CountsEarned
  <2>1. ~(\E skew \in Skews : br' = AcquireLua(br, skew))
    BY <2>0, AcquireMoves
  <2>2. ~(br' = Elapse(br)) /\ br' # br
    BY <2>0, ElapseEffect
  <2>3. ~Reset
    BY DEF Reset, ResetKeys, NoKeys
  <2>4. PICK c \in Callers : /\ phase[c] \in Outcomes
                             /\ br' = Script(phase[c], br)
                             /\ NoteReport(c, phase[c], Script(phase[c], br))
    BY <2>1, <2>2, <2>3, KeySteps
  <2>5. phase[c] # "success"
    <3> SUFFICES ASSUME phase[c] = "success" PROVE br'.state = "CLOSED"
      OBVIOUS
    <3>1. br' = [br EXCEPT !.failures = 0, !.window = 0]
      BY <2>4 DEF Script, SuccessLua
    <3> QED BY <2>0, <3>1 DEF Breaker
  <2>6. phase[c] # "release"
    BY <2>4, <2>2 DEF Script, ReleaseLua
  <2>7. phase[c] = "failure" /\ br' = FailureLua(br)
    BY <2>4, <2>5, <2>6 DEF Outcomes, Script
  <2>8. br.failures + 1 >= FailureThreshold
    <3> SUFFICES ASSUME ~(br.failures + 1 >= FailureThreshold) PROVE br'.state = "CLOSED"
      OBVIOUS
    <3>1. br.failures + 1 < FailureThreshold
      BY <2>0, BreakerConfig DEF Breaker
    <3>2. br' = [br EXCEPT !.failures = br.failures + 1, !.window = Window]
      BY <2>7, <3>1 DEF FailureLua
    <3> QED BY <2>0, <3>2 DEF Breaker
  <2>9. streak' = Min2(streak + 1, FailureThreshold)
    BY <2>4, <2>7 DEF NoteReport
  <2> QED BY <2>0, <2>8, <2>9, BreakerConfig DEF Min2, Breaker
<1> QED BY <1>1, IInvAlways, PTL DEF Spec, TripsOnlyOnStreak

(* OPEN lasts until the timeout, up to clock skew, and late failures do not *)
(* restart the timer.                                                       *)
THEOREM OpenPeriodHolds == Spec => OpenPeriod
<1>1. IInv /\ [Next]_vars =>
        [br.state = "OPEN" =>
            /\ br'.state = "OPEN" => br'.opened >= br.opened
            /\ br'.state # "OPEN" /\ ~Reset => br.opened >= Timeout - MaxSkew]_vars
  <2> SUFFICES ASSUME IInv, [Next]_vars, br.state = "OPEN"
               PROVE  /\ br'.state = "OPEN" => br'.opened >= br.opened
                      /\ br'.state # "OPEN" /\ ~Reset => br.opened >= Timeout - MaxSkew
    OBVIOUS
  <2>0. br \in Breaker /\ br.opened # Absent /\ br.opened \in Int
    BY BreakerConfig DEF IInv, TypeOK, KeysAgree, Breaker, Absent, MaxAge
  <2>1. ASSUME NEW skew \in Skews, br' = AcquireLua(br, skew)
        PROVE  \/ br'.state = "OPEN" /\ br'.opened = br.opened
               \/ br'.state # "OPEN" /\ br.opened >= Timeout - MaxSkew
    <3>1. TimedOut(br, skew) => br.opened >= Timeout - MaxSkew
      BY <2>0, BreakerConfig DEF TimedOut, Skews
    <3> QED BY <2>0, <2>1, <3>1, AcquireMoves
  <2>2. ASSUME NEW c \in Callers, phase[c] \in Outcomes, br' = Script(phase[c], br)
        PROVE  br' = br
    BY <2>2 DEF Script, SuccessLua, FailureLua, ReleaseLua, Outcomes
  <2>3. ASSUME br' = Elapse(br)
        PROVE  br'.state = "OPEN" /\ br'.opened >= br.opened
    BY <2>0, <2>3, ElapseEffect
  <2>4. ASSUME Reset PROVE br'.state # "OPEN"
    BY <2>4 DEF Reset, ResetKeys, NoKeys
  <2> QED BY <2>0, <2>1, <2>2, <2>3, <2>4, KeySteps
<1> QED BY <1>1, IInvAlways, PTL DEF Spec, OpenPeriod

(* SUCCESS_LUA closes the breaker, and in an undisturbed HALF_OPEN period   *)
(* only when SuccessThreshold of the probes it admitted have succeeded:     *)
(* half_successes never counts a success that no holder reported.           *)
THEOREM ClosesOnEvidence == Spec => ClosesOnProbeEvidence
<1>1. IInv /\ [Next]_vars =>
        [br.state = "HALF_OPEN" /\ br'.state = "CLOSED" /\ intact'
            => probeOks' = SuccessThreshold]_vars
  <2> SUFFICES ASSUME IInv, [Next]_vars, br.state = "HALF_OPEN",
                      br'.state = "CLOSED", intact'
               PROVE  probeOks' = SuccessThreshold
    OBVIOUS
  <2>0. br \in Breaker /\ probeOks \in 0 .. SuccessThreshold
    BY DEF IInv, TypeOK
  <2>1. ~(\E skew \in Skews : br' = AcquireLua(br, skew))
    BY <2>0, AcquireMoves
  <2>2. ~(br' = Elapse(br)) /\ br' # br
    BY <2>0, ElapseEffect
  <2>3. ~Reset
    BY DEF Reset
  <2>4. PICK c \in Callers : /\ phase[c] \in Outcomes
                             /\ br' = Script(phase[c], br)
                             /\ NoteReport(c, phase[c], Script(phase[c], br))
    BY <2>1, <2>2, <2>3, KeySteps
  <2>5. intact /\ c \in holder
    BY <2>4 DEF NoteReport
  <2>6. br.successes <= probeOks
    BY <2>5 DEF IInv, CountsEarned
  <2>7. phase[c] # "failure"
    BY <2>4 DEF Script, FailureLua, NoKeys
  <2>8. phase[c] # "release"
    BY <2>0, <2>4 DEF Script, ReleaseLua, GiveBackProbe, Breaker
  <2>9. phase[c] = "success" /\ br' = SuccessLua(br)
    BY <2>4, <2>7, <2>8 DEF Outcomes, Script
  <2>10. br.successes + 1 >= SuccessThreshold
    BY <2>0, <2>9, BreakerConfig DEF SuccessLua, GiveBackProbe, Breaker
  <2>11. probeOks' = Min2(probeOks + 1, SuccessThreshold)
    BY <2>4, <2>5, <2>9 DEF NoteReport
  <2> QED BY <2>0, <2>6, <2>10, <2>11, BreakerConfig DEF Min2, Breaker
<1> QED BY <1>1, IInvAlways, PTL DEF Spec, ClosesOnProbeEvidence
=============================================================================
