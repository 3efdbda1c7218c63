------------------------- MODULE HealthMonitorProofs -------------------------
(***************************************************************************)
(* Proofs about HealthMonitor, for every set of providers, every number of *)
(* ticks and every number of failed queries.                               *)
(***************************************************************************)
EXTENDS HealthMonitor, TLAPS

Mains == {"boot", "serving", "stopping", "closing", "closed"}
Stages == {"none", "select", "probing", "gauge", "done"}
ProbeStates == Outstanding \cup {"none", "done", "rejected"}

TypeOK ==
    /\ main \in Mains
    /\ stopped \in BOOLEAN /\ running \in BOOLEAN
    /\ current \in 0 .. MaxTicks
    /\ stage \in [Ticks -> Stages]
    /\ probe \in [Probes -> ProbeStates]
    /\ seen \in [Probes -> Statuses \cup {"none"}]
    /\ hurt \subseteq Probes
    /\ row \in [Providers -> [status : Statuses \cup {"none"}, tick : 0 .. MaxTicks]]

(* Ticks do not overlap: the earlier ones are over, the later ones have not *)
(* begun, and running says which of the two the current one is.             *)
OneTick ==
    /\ \A t \in Ticks : /\ t < current => stage[t] = "done"
                        /\ t = current => stage[t] # "none"
                        /\ t > current => stage[t] = "none"
    /\ ~running => \A t \in Ticks : t = current => stage[t] = "done"

(* How far the probes of a tick can be at each of its stages. *)
ProbesFollowTick ==
    \A t \in Ticks :
        /\ stage[t] \in {"none", "select"} =>
            \A p \in Providers : probe[<<t, p>>] = "none"
        /\ stage[t] = "gauge" => ProbesDone(t)
        /\ stage[t] = "done" =>
            \/ \A p \in Providers : probe[<<t, p>>] \notin Outstanding
            \/ \E q \in Providers : probe[<<t, q>>] = "rejected"

(* What main() knows of the monitor once it has called stop(). *)
StopOrder ==
    /\ main \notin {"boot", "serving"} => stopped
    /\ main \in {"closing", "closed"} => CurrentOver

(* Probes that failed left a trace. *)
FailuresNoted ==
    \A x \in Probes :
        /\ probe[x] = "rejected" => x \in hurt
        /\ probe[x] = "recording" => seen[x] = "unhealthy" \/ x \in hurt

(* A row comes from a probe that has got as far as its upsert. *)
RowsWritten ==
    \A p \in Providers : row[p] # NoRow =>
        /\ row[p].tick \in Ticks
        /\ probe[<<row[p].tick, p>>] \in {"recording", "done", "rejected"}

(* The inductive invariant. *)
IInv ==
    /\ TypeOK /\ OneTick /\ ProbesFollowTick /\ StopOrder
    /\ FailuresNoted /\ RowsWritten /\ RowsCurrent

-----------------------------------------------------------------------------
(* A probe is its tick and its provider. *)
LEMMA ProbePair ==
    ASSUME NEW x \in Probes
    PROVE  x[1] \in Ticks /\ x[2] \in Providers /\ x = <<x[1], x[2]>>
BY DEF Probes

LEMMA PairIsProbe ==
    ASSUME NEW t \in Ticks, NEW p \in Providers
    PROVE  /\ <<t, p>> \in Probes
           /\ <<t, p>>[1] = t /\ <<t, p>>[2] = p
BY DEF Probes

(* What the rows say depends on the probes and the tables only. *)
LEMMA RowsFrame ==
    ASSUME IInv, UNCHANGED <<probe, seen, hurt, row>>
    PROVE  FailuresNoted' /\ RowsWritten' /\ RowsCurrent'
BY DEF IInv, FailuresNoted, RowsWritten, RowsCurrent

LEMMA InvInit == Init => IInv
<1> SUFFICES ASSUME Init PROVE IInv
  OBVIOUS
<1> USE HealthMonitorAssumption DEF Init
<1>1. TypeOK
  <2>1. NoRow \in [status : Statuses \cup {"none"}, tick : 0 .. MaxTicks]
    BY DEF NoRow
  <2>2. row \in [Providers -> [status : Statuses \cup {"none"}, tick : 0 .. MaxTicks]]
    BY <2>1
  <2>3. /\ stage \in [Ticks -> Stages]
        /\ probe \in [Probes -> ProbeStates]
        /\ seen \in [Probes -> Statuses \cup {"none"}]
    BY DEF Stages, ProbeStates
  <2>4. main \in Mains /\ current \in 0 .. MaxTicks /\ hurt \subseteq Probes
    BY DEF Mains
  <2> QED BY <2>2, <2>3, <2>4, Zenon DEF TypeOK
<1>2. OneTick
  BY DEF OneTick, Ticks
<1>3. ProbesFollowTick
  BY DEF ProbesFollowTick, Probes
<1>4. StopOrder /\ FailuresNoted /\ RowsWritten /\ RowsCurrent
  BY DEF StopOrder, FailuresNoted, RowsWritten, RowsCurrent
<1> QED BY <1>1, <1>2, <1>3, <1>4 DEF IInv

-----------------------------------------------------------------------------
(* The steps that start and end ticks. *)
LEMMA TickKeeps ==
    ASSUME IInv, Tick, UNCHANGED probe
    PROVE  /\ running' \in BOOLEAN /\ current' \in 0 .. MaxTicks
           /\ stage' \in [Ticks -> Stages]
           /\ OneTick' /\ ProbesFollowTick'
<1> USE HealthMonitorAssumption DEF IInv, Tick, TickIdle
<1>1. current + 1 \in Ticks /\ current' \in 0 .. MaxTicks /\ running' \in BOOLEAN
  BY DEF TypeOK, Ticks
<1>2. stage' \in [Ticks -> Stages]
  BY DEF TypeOK, Stages
<1>3. OneTick'
  BY <1>1 DEF OneTick, TypeOK, Ticks
<1>4. ProbesFollowTick'
  <2>1. stage[current + 1] = "none"
    BY <1>1 DEF OneTick, TypeOK
  <2> QED BY <1>1, <2>1 DEF ProbesFollowTick, TypeOK, ProbesDone
<1> QED BY <1>1, <1>2, <1>3, <1>4

LEMMA StartKeeps == ASSUME IInv, NEW enabled \in BOOLEAN, Start(enabled) PROVE IInv'
<1>1. FailuresNoted' /\ RowsWritten' /\ RowsCurrent'
  BY RowsFrame DEF Start
<1>2. StopOrder'
  BY DEF Start, IInv, StopOrder
<1>3. CASE enabled
  <2>1. Tick /\ UNCHANGED probe
    BY <1>3 DEF Start
  <2>2. TypeOK'
    BY <2>1, TickKeeps DEF Start, IInv, TypeOK, Mains
  <2> QED BY <1>1, <1>2, <2>1, <2>2, TickKeeps DEF IInv
<1>4. CASE ~enabled
  <2>1. TypeOK' /\ OneTick' /\ ProbesFollowTick'
    BY <1>4 DEF Start, IInv, TypeOK, Mains, OneTick, ProbesFollowTick, ProbesDone
  <2> QED BY <1>1, <1>2, <2>1 DEF IInv
<1> QED BY <1>3, <1>4

LEMMA IntervalKeeps == ASSUME IInv, Interval PROVE IInv'
<1>1. FailuresNoted' /\ RowsWritten' /\ RowsCurrent'
  BY RowsFrame DEF Interval
<1>2. StopOrder'
  BY DEF Interval, Tick, TickIdle, IInv, TypeOK, Mains, StopOrder
<1>3. Tick /\ UNCHANGED probe
  BY DEF Interval
<1>4. TypeOK'
  BY <1>3, TickKeeps DEF Interval, IInv, TypeOK
<1> QED BY <1>1, <1>2, <1>3, <1>4, TickKeeps DEF IInv

(* Settle ends the tick that is running, and no other. *)
LEMMA SettleKeeps ==
    ASSUME IInv, NEW t \in Ticks, stage[t] \in {"select", "probing", "gauge"},
           Settle(t), UNCHANGED main
    PROVE  /\ running' \in BOOLEAN /\ current' \in 0 .. MaxTicks
           /\ stopped' \in BOOLEAN
           /\ stage' \in [Ticks -> Stages]
           /\ OneTick' /\ StopOrder'
<1> USE HealthMonitorAssumption DEF IInv, Settle
<1>1. t = current
  BY DEF OneTick, TypeOK, Ticks
<1>2. /\ running' \in BOOLEAN /\ current' \in 0 .. MaxTicks
      /\ stopped' \in BOOLEAN
      /\ stage' \in [Ticks -> Stages]
  BY DEF TypeOK, Stages
<1>3. OneTick'
  BY <1>1 DEF OneTick, TypeOK, Ticks
<1>4. StopOrder'
  BY <1>1 DEF StopOrder, CurrentOver, TypeOK
<1> QED BY <1>2, <1>3, <1>4

LEMMA SelectFailsKeeps == ASSUME IInv, NEW t \in Ticks, SelectFails(t) PROVE IInv'
<1>0. stage[t] = "select" /\ Settle(t) /\ UNCHANGED <<main, probe, row, seen, hurt>>
  BY DEF SelectFails
<1>1. FailuresNoted' /\ RowsWritten' /\ RowsCurrent'
  BY <1>0, RowsFrame
<1>2. TypeOK' /\ OneTick' /\ StopOrder'
  BY <1>0, SettleKeeps DEF IInv, TypeOK
<1>3. ProbesFollowTick'
  BY <1>0 DEF IInv, Settle, ProbesFollowTick, TypeOK, ProbesDone, Outstanding
<1> QED BY <1>1, <1>2, <1>3 DEF IInv

LEMMA RefreshCircuitGaugeKeeps ==
    ASSUME IInv, NEW t \in Ticks, RefreshCircuitGauge(t) PROVE IInv'
<1>0. stage[t] = "gauge" /\ Settle(t) /\ UNCHANGED <<main, probe, row, seen, hurt>>
  BY DEF RefreshCircuitGauge
<1>1. FailuresNoted' /\ RowsWritten' /\ RowsCurrent'
  BY <1>0, RowsFrame
<1>2. TypeOK' /\ OneTick' /\ StopOrder'
  BY <1>0, SettleKeeps DEF IInv, TypeOK
<1>3. ProbesFollowTick'
  BY <1>0 DEF IInv, Settle, ProbesFollowTick, TypeOK, ProbesDone, Outstanding
<1> QED BY <1>1, <1>2, <1>3 DEF IInv

LEMMA AllDoneKeeps == ASSUME IInv, NEW t \in Ticks, AllDone(t) PROVE IInv'
<1> USE DEF IInv, AllDone, monitor
<1>1. FailuresNoted' /\ RowsWritten' /\ RowsCurrent'
  BY RowsFrame
<1>2. TypeOK'
  BY DEF TypeOK, Stages
<1>3. OneTick' /\ StopOrder'
  BY HealthMonitorAssumption DEF OneTick, TypeOK, StopOrder, CurrentOver, Ticks
<1>4. ProbesFollowTick'
  BY DEF ProbesFollowTick, TypeOK, ProbesDone
<1> QED BY <1>1, <1>2, <1>3, <1>4

(* SelectRows starts the probes of a tick that had none. *)
LEMMA SelectRowsKeeps == ASSUME IInv, NEW t \in Ticks, SelectRows(t) PROVE IInv'
<1> USE DEF IInv, SelectRows, monitor
<1>1. /\ \A p \in Providers : probe[<<t, p>>] = "none"
      /\ \A x \in Probes : x[1] = t => probe[x] = "none"
  BY ProbePair DEF ProbesFollowTick
<1>2. \A x \in Probes : x[1] # t => probe'[x] = probe[x] /\ seen'[x] = seen[x]
  BY DEF TypeOK
<1>3. \A x \in Probes : x[1] = t => probe'[x] \in {"none", "writing", "fetching"}
  BY <1>1 DEF TypeOK
<1>4. TypeOK'
  <2>1. probe' \in [Probes -> ProbeStates]
    BY DEF TypeOK, ProbeStates, Outstanding
  <2>2. seen' \in [Probes -> Statuses \cup {"none"}]
    BY DEF TypeOK, Statuses
  <2>3. stage' \in [Ticks -> Stages]
    BY DEF TypeOK, Stages
  <2> QED BY <2>1, <2>2, <2>3 DEF TypeOK
<1>5. OneTick' /\ StopOrder'
  BY HealthMonitorAssumption DEF OneTick, TypeOK, StopOrder, CurrentOver, Ticks
<1>6. ProbesFollowTick'
  <2>1. ASSUME NEW u \in Ticks, u # t, NEW p \in Providers
        PROVE  probe'[<<u, p>>] = probe[<<u, p>>]
    BY <1>2, <2>1, PairIsProbe
  <2>2. stage'[t] = "probing" /\ \A u \in Ticks : u # t => stage'[u] = stage[u]
    BY DEF TypeOK
  <2> QED BY <2>1, <2>2 DEF ProbesFollowTick, ProbesDone
<1>7. FailuresNoted'
  BY <1>2, <1>3 DEF FailuresNoted
<1>8. ASSUME NEW p \in Providers, row[p] # NoRow
      PROVE  /\ <<row[p].tick, p>> \in Probes /\ row[p].tick # t
             /\ probe'[<<row[p].tick, p>>] = probe[<<row[p].tick, p>>]
             /\ seen'[<<row[p].tick, p>>] = seen[<<row[p].tick, p>>]
  <2>1. /\ row[p].tick \in Ticks
        /\ probe[<<row[p].tick, p>>] \in {"recording", "done", "rejected"}
    BY <1>8 DEF RowsWritten
  <2>2. <<row[p].tick, p>> \in Probes /\ <<row[p].tick, p>>[1] = row[p].tick
    BY <2>1, PairIsProbe
  <2>3. row[p].tick # t
    BY <1>1, <2>1
  <2> QED BY <1>2, <2>2, <2>3
<1>9. RowsWritten'
  BY <1>8 DEF RowsWritten
<1>10. RowsCurrent'
  <2> SUFFICES ASSUME NEW p \in Providers, row[p] # NoRow
               PROVE  LET x == <<row[p].tick, p>> IN
                      /\ row[p].status \in {seen'[x]} \cup (IF x \in hurt THEN {"unhealthy"} ELSE {})
                      /\ hurt = {} =>
                          \A u \in Ticks : probe'[<<u, p>>] = "done" => u <= row[p].tick
    BY DEF RowsCurrent
  <2>1. row[p].status \in {seen'[<<row[p].tick, p>>]}
            \cup (IF <<row[p].tick, p>> \in hurt THEN {"unhealthy"} ELSE {})
    BY <1>8 DEF RowsCurrent
  <2>2. ASSUME NEW u \in Ticks, probe'[<<u, p>>] = "done"
        PROVE  probe[<<u, p>>] = "done"
    BY <2>2, <1>2, <1>3, PairIsProbe
  <2> QED BY <2>1, <2>2 DEF RowsCurrent
<1> QED BY <1>4, <1>5, <1>6, <1>7, <1>9, <1>10

-----------------------------------------------------------------------------
(* The steps of main() and of the operator. *)
LEMMA StopKeeps == ASSUME IInv, Stop PROVE IInv'
<1>1. FailuresNoted' /\ RowsWritten' /\ RowsCurrent'
  BY RowsFrame DEF Stop
<1>2. TypeOK' /\ OneTick' /\ StopOrder'
  BY DEF Stop, IInv, TypeOK, Mains, OneTick, StopOrder
<1>3. ProbesFollowTick'
  BY DEF Stop, IInv, ProbesFollowTick, ProbesDone
<1> QED BY <1>1, <1>2, <1>3 DEF IInv

LEMMA StopReturnedKeeps == ASSUME IInv, StopReturned \/ CloseDatabase PROVE IInv'
<1>1. FailuresNoted' /\ RowsWritten' /\ RowsCurrent'
  BY RowsFrame DEF StopReturned, CloseDatabase
<1>2. TypeOK' /\ OneTick'
  BY DEF StopReturned, CloseDatabase, monitor, IInv, TypeOK, Mains, OneTick
<1>3. StopOrder'
  BY DEF StopReturned, CloseDatabase, monitor, IInv, StopOrder, CurrentOver
<1>4. ProbesFollowTick'
  BY DEF StopReturned, CloseDatabase, IInv, ProbesFollowTick, ProbesDone
<1> QED BY <1>1, <1>2, <1>3, <1>4 DEF IInv

LEMMA SetActiveKeeps == ASSUME IInv, NEW p \in Providers, SetActive(p) PROVE IInv'
<1>1. FailuresNoted' /\ RowsWritten' /\ RowsCurrent'
  BY RowsFrame DEF SetActive
<1>2. TypeOK' /\ OneTick' /\ StopOrder'
  BY DEF SetActive, monitor, IInv, TypeOK, OneTick, StopOrder, CurrentOver
<1>3. ProbesFollowTick'
  BY DEF SetActive, IInv, ProbesFollowTick, ProbesDone
<1> QED BY <1>1, <1>2, <1>3 DEF IInv

-----------------------------------------------------------------------------
(* The steps of a probe.  One that is under way belongs to a tick that has  *)
(* read its providers and is not waiting for the gauge.                     *)
LEMMA ProbeUnderWay ==
    ASSUME IInv, NEW x \in Probes, probe[x] \in Outstanding
    PROVE  stage[x[1]] \in {"probing", "done"}
<1>1. x[1] \in Ticks /\ x[2] \in Providers /\ x = <<x[1], x[2]>>
  BY ProbePair
<1>2. stage[x[1]] \in Stages
  BY <1>1 DEF IInv, TypeOK
<1>3. stage[x[1]] \notin {"none", "select", "gauge"}
  BY <1>1 DEF IInv, ProbesFollowTick, ProbesDone, Outstanding
<1> QED BY <1>2, <1>3 DEF Stages

(* As long as no upsert has failed, it belongs to the current tick. *)
LEMMA ProbeOfCurrent ==
    ASSUME IInv, hurt = {}, NEW x \in Probes, probe[x] \in Outstanding
    PROVE  x[1] = current
<1>1. x[1] \in Ticks /\ x[2] \in Providers /\ x = <<x[1], x[2]>>
  BY ProbePair
<1>2. \A q \in Providers : probe[<<x[1], q>>] # "rejected"
  BY <1>1, PairIsProbe DEF IInv, FailuresNoted
<1>3. stage[x[1]] # "done"
  BY <1>1, <1>2 DEF IInv, ProbesFollowTick
<1>4. stage[x[1]] # "none"
  BY ProbeUnderWay
<1> QED BY <1>1, <1>3, <1>4, HealthMonitorAssumption DEF IInv, OneTick, TypeOK, Ticks

(* The probes of a tick that has not begun are not done. *)
LEMMA DoneHasBegun ==
    ASSUME IInv, NEW t \in Ticks, NEW p \in Providers, probe[<<t, p>>] = "done"
    PROVE  t <= current
<1>1. stage[t] # "none"
  BY DEF IInv, ProbesFollowTick
<1> QED BY <1>1, HealthMonitorAssumption DEF IInv, OneTick, TypeOK, Ticks

(* A probe moves on; its tick, if that changes at all, is settled. *)
LEMMA ProbeMoves ==
    ASSUME IInv, NEW x \in Probes, probe[x] \in Outstanding,
           NEW next \in ProbeStates, probe' = [probe EXCEPT ![x] = next],
           next # "none",
           \/ UNCHANGED stage /\ (next = "rejected" => stage[x[1]] = "done")
           \/ next = "rejected" /\ stage' = [stage EXCEPT ![x[1]] = "done"]
    PROVE  ProbesFollowTick'
<1>1. x[1] \in Ticks /\ x[2] \in Providers /\ x = <<x[1], x[2]>>
  BY ProbePair
<1>2. stage[x[1]] \in {"probing", "done"}
  BY ProbeUnderWay
<1>3. ASSUME NEW t \in Ticks, t # x[1], NEW p \in Providers
      PROVE  probe'[<<t, p>>] = probe[<<t, p>>]
  BY <1>3, PairIsProbe DEF IInv, TypeOK
<1>4. \A t \in Ticks : t # x[1] => stage'[t] = stage[t]
  BY <1>1 DEF IInv, TypeOK
<1>5. stage'[x[1]] \in {"probing", "done"}
  BY <1>1, <1>2 DEF IInv, TypeOK
<1>6. probe'[<<x[1], x[2]>>] = next
  BY <1>1 DEF IInv, TypeOK
<1>7. ASSUME NEW q \in Providers, probe[<<x[1], q>>] = "rejected"
      PROVE  probe'[<<x[1], q>>] = "rejected"
  BY <1>1, <1>7, PairIsProbe DEF IInv, TypeOK, Outstanding
<1>8. stage'[x[1]] = "done" => \E q \in Providers : probe'[<<x[1], q>>] = "rejected"
  <2>1. CASE next = "rejected"
    BY <1>1, <1>6, <2>1
  <2>2. CASE next # "rejected"
    <3>1. stage'[x[1]] = "done" => stage[x[1]] = "done"
      BY <2>2
    <3>2. stage[x[1]] = "done" => \E q \in Providers : probe[<<x[1], q>>] = "rejected"
      BY <1>1 DEF IInv, ProbesFollowTick
    <3> QED BY <3>1, <3>2, <1>7
  <2> QED BY <2>1, <2>2
<1>9. ASSUME NEW t \in Ticks, t # x[1]
      PROVE  /\ stage'[t] \in {"none", "select"} =>
                \A p \in Providers : probe'[<<t, p>>] = "none"
             /\ stage'[t] = "gauge" => ProbesDone(t)'
             /\ stage'[t] = "done" =>
                \/ \A p \in Providers : probe'[<<t, p>>] \notin Outstanding
                \/ \E q \in Providers : probe'[<<t, q>>] = "rejected"
  BY <1>3, <1>4, <1>9 DEF IInv, ProbesFollowTick, ProbesDone
<1> QED BY <1>5, <1>8, <1>9 DEF ProbesFollowTick

LEMMA AnswerKeeps ==
    ASSUME IInv, NEW x \in Probes, NEW status \in Statuses \ {"unknown"},
           Answer(x, status)
    PROVE  IInv'
<1> USE DEF monitor
<1>0. PICK next \in {"writing"} \cup (IF status = "unhealthy" THEN {"recording"} ELSE {}) :
        probe' = [probe EXCEPT ![x] = next]
  BY DEF Answer
<1>1. /\ probe[x] = "fetching" /\ probe[x] \in Outstanding
      /\ seen' = [seen EXCEPT ![x] = status]
      /\ UNCHANGED <<main, monitor, stage, row, hurt>>
  BY DEF Answer, Outstanding
<1>2. TypeOK'
  <2>1. probe' \in [Probes -> ProbeStates]
    BY <1>0 DEF IInv, TypeOK, ProbeStates, Outstanding
  <2>2. seen' \in [Probes -> Statuses \cup {"none"}]
    BY <1>1 DEF IInv, TypeOK
  <2> QED BY <1>1, <2>1, <2>2 DEF IInv, TypeOK
<1>3. OneTick' /\ StopOrder'
  BY <1>1 DEF IInv, OneTick, StopOrder, CurrentOver
<1>4. ProbesFollowTick'
  BY <1>0, <1>1, ProbeMoves DEF ProbeStates, Outstanding
<1>5. FailuresNoted'
  BY <1>0, <1>1 DEF IInv, TypeOK, FailuresNoted
<1>6. ASSUME NEW p \in Providers, row[p] # NoRow
      PROVE  /\ probe'[<<row[p].tick, p>>] = probe[<<row[p].tick, p>>]
             /\ seen'[<<row[p].tick, p>>] = seen[<<row[p].tick, p>>]
  <2>1. /\ row[p].tick \in Ticks
        /\ probe[<<row[p].tick, p>>] \in {"recording", "done", "rejected"}
    BY <1>6 DEF IInv, RowsWritten
  <2>2. <<row[p].tick, p>> \in Probes /\ <<row[p].tick, p>> # x
    BY <1>1, <2>1, PairIsProbe
  <2> QED BY <1>0, <1>1, <2>2 DEF IInv, TypeOK
<1>7. RowsWritten'
  BY <1>1, <1>6 DEF IInv, RowsWritten
<1>8. ASSUME NEW t \in Ticks, NEW p \in Providers, probe'[<<t, p>>] = "done"
      PROVE  probe[<<t, p>>] = "done"
  BY <1>0, <1>8, PairIsProbe DEF IInv, TypeOK
<1>9. RowsCurrent'
  BY <1>1, <1>6, <1>8 DEF IInv, RowsCurrent
<1> QED BY <1>2, <1>3, <1>4, <1>5, <1>7, <1>9 DEF IInv

(* What an upsert puts into the row. *)
LEMMA WrittenIs ==
    ASSUME IInv, NEW x \in Probes, probe[x] \in {"writing", "recording"}
    PROVE  /\ Written(x) \in [status : Statuses \cup {"none"}, tick : 0 .. MaxTicks]
           /\ Written(x).tick = x[1]
           /\ Written(x).status \in {seen[x]} \cup (IF x \in hurt THEN {"unhealthy"} ELSE {})
<1>1. x[1] \in 0 .. MaxTicks
  BY ProbePair, HealthMonitorAssumption DEF Ticks
<1>2. seen[x] \in Statuses \cup {"none"}
  BY DEF IInv, TypeOK
<1>3. Written(x) \in [status : Statuses \cup {"none"}, tick : 0 .. MaxTicks]
  BY <1>1, <1>2 DEF Written, Statuses
<1>4. Written(x).tick = x[1]
  BY DEF Written
<1>5. Written(x).status \in {seen[x]} \cup (IF x \in hurt THEN {"unhealthy"} ELSE {})
  BY DEF Written, IInv, FailuresNoted
<1> QED BY <1>3, <1>4, <1>5

(* An upsert, or one that was lost, keeps the rows right. *)
LEMMA UpsertKeepsRows ==
    ASSUME IInv, NEW x \in Probes, probe[x] \in {"writing", "recording"},
           NEW next \in {"done", "recording", "rejected"},
           probe' = [probe EXCEPT ![x] = next],
           UNCHANGED seen, hurt \subseteq hurt', hurt' \subseteq Probes,
           Upsert(x) \/ UNCHANGED row,
           hurt' = {} => next = "done" /\ Upsert(x)
    PROVE  /\ row' \in [Providers -> [status : Statuses \cup {"none"}, tick : 0 .. MaxTicks]]
           /\ RowsWritten' /\ RowsCurrent'
<1>1. x[1] \in Ticks /\ x[2] \in Providers /\ x = <<x[1], x[2]>>
  BY ProbePair
<1>2. row' \in [Providers -> [status : Statuses \cup {"none"}, tick : 0 .. MaxTicks]]
  BY <1>1, WrittenIs DEF Upsert, IInv, TypeOK
<1>3. ASSUME NEW y \in Probes, probe[y] \in {"recording", "done", "rejected"}
      PROVE  probe'[y] \in {"recording", "done", "rejected"}
  BY <1>3 DEF IInv, TypeOK
<1>4. probe'[x] = next
  BY DEF IInv, TypeOK
<1>5. ASSUME NEW p \in Providers, row'[p] # row[p]
      PROVE  p = x[2] /\ row'[p] = Written(x) /\ <<row'[p].tick, p>> = x
  <2>1. Upsert(x)
    BY <1>5
  <2>2. p = x[2]
    BY <1>5, <2>1 DEF Upsert, IInv, TypeOK
  <2>3. row'[p] = Written(x)
    BY <1>1, <2>1, <2>2 DEF Upsert, IInv, TypeOK
  <2> QED BY <1>1, <2>2, <2>3, WrittenIs
<1>6. RowsWritten'
  <2> SUFFICES ASSUME NEW p \in Providers, row'[p] # NoRow
               PROVE  /\ row'[p].tick \in Ticks
                      /\ probe'[<<row'[p].tick, p>>] \in {"recording", "done", "rejected"}
    BY DEF RowsWritten
  <2>1. CASE row'[p] = row[p]
    BY <1>3, <2>1, PairIsProbe DEF IInv, RowsWritten
  <2>2. CASE row'[p] # row[p]
    BY <1>1, <1>4, <1>5, <2>2, WrittenIs
  <2> QED BY <2>1, <2>2
<1>7. ASSUME NEW p \in Providers, row'[p] # NoRow
      PROVE  row'[p].status \in {seen'[<<row'[p].tick, p>>]}
                \cup (IF <<row'[p].tick, p>> \in hurt' THEN {"unhealthy"} ELSE {})
  <2>1. CASE row'[p] = row[p]
    <3>1. row[p].status \in {seen[<<row[p].tick, p>>]}
            \cup (IF <<row[p].tick, p>> \in hurt THEN {"unhealthy"} ELSE {})
      BY <1>7, <2>1 DEF IInv, RowsCurrent
    <3> QED BY <2>1, <3>1
  <2>2. CASE row'[p] # row[p]
    BY <1>5, <2>2, WrittenIs
  <2> QED BY <2>1, <2>2
<1>8. ASSUME NEW p \in Providers, row'[p] # NoRow, hurt' = {},
             NEW t \in Ticks, probe'[<<t, p>>] = "done"
      PROVE  t <= row'[p].tick
  <2>1. hurt = {} /\ Upsert(x)
    BY <1>8
  <2>2. CASE p = x[2]
    <3>1. row'[p] = Written(x) /\ row'[p].tick = x[1]
      BY <1>1, <2>1, <2>2, WrittenIs DEF Upsert, IInv, TypeOK
    <3>2. x[1] = current
      BY <2>1, ProbeOfCurrent DEF Outstanding
    <3>3. t <= current
      <4>1. CASE t = x[1]
        BY <3>2, <4>1, HealthMonitorAssumption DEF Ticks
      <4>2. CASE t # x[1]
        <5>1. probe[<<t, p>>] = "done"
          BY <1>8, <4>2, PairIsProbe DEF IInv, TypeOK
        <5> QED BY <5>1, DoneHasBegun
      <4> QED BY <4>1, <4>2
    <3> QED BY <3>1, <3>2, <3>3
  <2>3. CASE p # x[2]
    <3>1. row'[p] = row[p]
      BY <2>1, <2>3 DEF Upsert, IInv, TypeOK
    <3>2. probe[<<t, p>>] = "done"
      BY <1>8, <2>3, PairIsProbe DEF IInv, TypeOK
    <3> QED BY <1>8, <2>1, <3>1, <3>2 DEF IInv, RowsCurrent
  <2> QED BY <2>2, <2>3
<1>9. RowsCurrent'
  BY <1>7, <1>8 DEF RowsCurrent
<1> QED BY <1>2, <1>6, <1>9

LEMMA WriteKeeps == ASSUME IInv, NEW x \in Probes, Write(x) PROVE IInv'
<1>1. /\ probe[x] \in {"writing", "recording"} /\ Upsert(x)
      /\ probe' = [probe EXCEPT ![x] = "done"]
      /\ UNCHANGED <<main, monitor, stage, seen, hurt>>
  BY DEF Write
<1>2. hurt' \subseteq Probes
  BY <1>1 DEF IInv, TypeOK
<1>3. /\ row' \in [Providers -> [status : Statuses \cup {"none"}, tick : 0 .. MaxTicks]]
      /\ RowsWritten' /\ RowsCurrent'
  BY <1>1, <1>2, UpsertKeepsRows
<1>4. TypeOK'
  <2>1. probe' \in [Probes -> ProbeStates]
    BY <1>1 DEF IInv, TypeOK, ProbeStates
  <2> QED BY <1>1, <1>3, <2>1 DEF IInv, TypeOK, monitor
<1>5. OneTick' /\ StopOrder'
  BY <1>1 DEF IInv, OneTick, StopOrder, CurrentOver, monitor
<1>6. ProbesFollowTick'
  BY <1>1, ProbeMoves DEF ProbeStates, Outstanding
<1>7. FailuresNoted'
  BY <1>1 DEF IInv, TypeOK, FailuresNoted
<1> QED BY <1>3, <1>4, <1>5, <1>6, <1>7 DEF IInv

LEMMA WriteFailsKeeps == ASSUME IInv, NEW x \in Probes, WriteFails(x) PROVE IInv'
<1> DEFINE caught == probe[x] = "writing" /\ x[2] \notin NoUrl
           next == IF caught THEN "recording" ELSE "rejected"
<1>1. /\ probe[x] \in {"writing", "recording"} /\ (Upsert(x) \/ UNCHANGED row)
      /\ hurt' = hurt \cup {x}
      /\ probe' = [probe EXCEPT ![x] = next]
      /\ IF ~caught /\ stage[x[1]] = "probing"
         THEN Settle(x[1]) ELSE UNCHANGED <<monitor, stage>>
      /\ UNCHANGED <<main, seen>>
  BY DEF WriteFails
<1>2. next \in {"recording", "rejected"} /\ (next = "rejected" <=> ~caught)
  OBVIOUS
<1> HIDE DEF caught, next
<1>3. x[1] \in Ticks
  BY ProbePair
<1>4. stage[x[1]] \in {"probing", "done"}
  BY <1>1, ProbeUnderWay DEF Outstanding
<1>5. hurt' \subseteq Probes /\ hurt' # {}
  BY <1>1 DEF IInv, TypeOK
<1>6. /\ row' \in [Providers -> [status : Statuses \cup {"none"}, tick : 0 .. MaxTicks]]
      /\ RowsWritten' /\ RowsCurrent'
  BY <1>1, <1>2, <1>5, UpsertKeepsRows
<1>7. probe' \in [Probes -> ProbeStates]
  BY <1>1, <1>2 DEF IInv, TypeOK, ProbeStates, Outstanding
<1>8. ProbesFollowTick'
  <2>1. \/ UNCHANGED stage /\ (next = "rejected" => stage[x[1]] = "done")
        \/ next = "rejected" /\ stage' = [stage EXCEPT ![x[1]] = "done"]
    BY <1>1, <1>2, <1>4 DEF Settle
  <2> QED BY <1>1, <1>2, <2>1, ProbeMoves DEF ProbeStates, Outstanding
<1>9. FailuresNoted'
  BY <1>1, <1>2 DEF IInv, TypeOK, FailuresNoted
<1>10. /\ running' \in BOOLEAN /\ current' \in 0 .. MaxTicks /\ stopped' \in BOOLEAN
       /\ stage' \in [Ticks -> Stages]
       /\ OneTick' /\ StopOrder'
  <2>1. CASE ~caught /\ stage[x[1]] = "probing"
    BY <1>1, <1>3, <2>1, SettleKeeps
  <2>2. CASE ~(~caught /\ stage[x[1]] = "probing")
    BY <1>1, <2>2 DEF monitor, IInv, TypeOK, OneTick, StopOrder, CurrentOver
  <2> QED BY <2>1, <2>2
<1>11. TypeOK'
  BY <1>1, <1>5, <1>6, <1>7, <1>10 DEF IInv, TypeOK
<1> QED BY <1>6, <1>8, <1>9, <1>10, <1>11 DEF IInv

-----------------------------------------------------------------------------
LEMMA InvStep == IInv /\ [Next]_vars => IInv'
<1> SUFFICES ASSUME IInv, [Next]_vars PROVE IInv'
  OBVIOUS
<1>1. ASSUME NEW t \in Ticks, TickStep(t) PROVE IInv'
  BY <1>1, SelectRowsKeeps, SelectFailsKeeps, AllDoneKeeps, RefreshCircuitGaugeKeeps
  DEF TickStep
<1>2. ASSUME NEW x \in Probes, ProbeStep(x) PROVE IInv'
  BY <1>2, AnswerKeeps, WriteKeeps, WriteFailsKeeps DEF ProbeStep
<1>3. CASE UNCHANGED vars
  <2>1. FailuresNoted' /\ RowsWritten' /\ RowsCurrent'
    BY <1>3, RowsFrame DEF vars
  <2>2. TypeOK' /\ OneTick' /\ StopOrder' /\ ProbesFollowTick'
    BY <1>3 DEF vars, IInv, TypeOK, OneTick, StopOrder, CurrentOver,
                ProbesFollowTick, ProbesDone
  <2> QED BY <2>1, <2>2 DEF IInv
<1> QED BY <1>1, <1>2, <1>3, StartKeeps, IntervalKeeps, StopKeeps,
           StopReturnedKeeps, SetActiveKeeps DEF Next

LEMMA Invariance == Spec => []IInv
<1>1. Init => IInv
  BY InvInit
<1>2. IInv /\ [Next]_vars => IInv'
  BY InvStep
<1> QED BY <1>1, <1>2, PTL DEF Spec

(* stop() awaits the tick that is running: once it has returned, a probe    *)
(* can still write only if a probe of the same tick has rejected, which     *)
(* ends Promise.all early.                                                  *)
THEOREM StopWaitsForTick == Spec => []StopWaits
<1>1. IInv => StopWaits
  <2> SUFFICES ASSUME IInv, main \in {"closing", "closed"},
                      NEW t \in Ticks, NEW p \in Providers,
                      probe[<<t, p>>] \in Outstanding
               PROVE  \E q \in Providers : probe[<<t, q>>] = "rejected"
    BY DEF StopWaits
  <2>1. stage[t] \in {"none", "done"}
    BY HealthMonitorAssumption DEF IInv, StopOrder, CurrentOver, OneTick, TypeOK, Ticks
  <2> QED BY <2>1 DEF IInv, ProbesFollowTick, Outstanding
<1> QED BY <1>1, Invariance, PTL

(* upsertHealth stores what the probe observed, or "unhealthy" if its own   *)
(* upsert failed; the guard of tick() keeps results in order as long as no  *)
(* upsert fails.                                                            *)
THEOREM RowsAreCurrent == Spec => []RowsCurrent
<1>1. IInv => RowsCurrent
  BY DEF IInv
<1> QED BY <1>1, Invariance, PTL
=============================================================================
