------------------------- MODULE CycleClockProofs -------------------------
(***************************************************************************)
(* The arithmetic of Cycle shows the slots of PhaseClock, for any lengths  *)
(* of the phases and any number of changes of them.                        *)
(***************************************************************************)
EXTENDS CycleClock, TLAPS

\* What the rest of the system sees of the clock, as CycleClock shows it.
SlotAt(rest, d) ==
    IF rest >= d[1] THEN "live"
    ELSE IF d[1] - rest < ConsensusTime THEN "closing" ELSE "open"
Shown == [epoch |-> GetEpoch,
          slot  |-> IF GetCurrentPhase = "EPOCH" THEN "live"
                    ELSE IF InConsensusSlot THEN "closing" ELSE "open"]

\* The lengths of the phases are those Set saved, and the clock is not past the
\* last epoch.
ClockInv ==
    /\ TypeOK
    /\ cycle.sequence = durations
    /\ cycle.start <= now
    /\ GetEpoch <= MaxEpoch

-----------------------------------------------------------------------------
(***************************************************************************)
(* Division with remainder                                                 *)
(***************************************************************************)
LEMMA Euclid ==
  ASSUME NEW a \in Nat, NEW t \in Nat \ {0}
  PROVE  /\ a \div t \in Nat /\ a % t \in 0 .. t - 1
         /\ a = t * (a \div t) + (a % t)
  OBVIOUS

LEMMA Unique ==
  ASSUME NEW t \in Nat \ {0}, NEW p \in Int, NEW q \in Int,
         NEW r \in 0 .. t - 1, NEW s \in 0 .. t - 1,
         t * p + r = t * q + s
  PROVE  p = q /\ r = s
<1>1. t * (p - q) = s - r
  OBVIOUS
<1>2. CASE p - q >= 1
  <2>1. t * (p - q) >= t
    BY <1>2
  <2> QED
    BY <1>1, <2>1
<1>3. CASE p - q <= -1
  <2>1. t * (p - q) <= -t
    BY <1>3
  <2> QED
    BY <1>1, <2>1
<1>4. CASE p = q
  BY <1>4
<1> QED
  BY <1>2, <1>3, <1>4

LEMMA NextTick ==
  ASSUME NEW a \in Nat, NEW t \in Nat \ {0}
  PROVE  IF (a % t) + 1 < t
         THEN (a + 1) % t = (a % t) + 1 /\ (a + 1) \div t = a \div t
         ELSE (a + 1) % t = 0 /\ (a + 1) \div t = (a \div t) + 1
<1> DEFINE q == a \div t
           r == a % t
           p == (a + 1) \div t
           s == (a + 1) % t
<1>1. q \in Nat /\ r \in 0 .. t - 1 /\ a = t * q + r
  BY Euclid
<1>2. p \in Nat /\ s \in 0 .. t - 1 /\ a + 1 = t * p + s
  <2>1. a + 1 \in Nat
    OBVIOUS
  <2> QED
    BY <2>1, Euclid
<1> HIDE DEF q, r, p, s
<1>3. CASE r + 1 < t
  <2>1. t * p + s = t * q + (r + 1)
    BY <1>1, <1>2
  <2>2. p = q /\ s = r + 1
    BY <1>1, <1>2, <1>3, <2>1, Unique
  <2> QED
    BY <1>3, <2>2 DEF q, r, p, s
<1>4. CASE ~ (r + 1 < t)
  <2>1. r + 1 = t
    BY <1>1, <1>4
  <2>2. t * p + s = t * (q + 1) + 0
    BY <1>1, <1>2, <2>1
  <2>3. p = q + 1 /\ s = 0
    BY <1>1, <1>2, <2>2, Unique
  <2> QED
    BY <1>4, <2>3 DEF q, r, p, s
<1> QED
  BY <1>3, <1>4

LEMMA Below ==
  ASSUME NEW a \in Nat, NEW t \in Nat \ {0}, NEW k \in Int, a < t * k
  PROVE  a \div t < k
<1>1. a \div t \in Nat /\ a >= t * (a \div t)
  BY Euclid
<1>2. CASE a \div t >= k
  <2>1. t * (a \div t) >= t * k
    BY <1>1, <1>2
  <2> QED
    BY <1>1, <2>1
<1> QED
  BY <1>1, <1>2

LEMMA OfZero ==
  ASSUME NEW t \in Nat \ {0}
  PROVE  0 % t = 0 /\ 0 \div t = 0
  OBVIOUS

-----------------------------------------------------------------------------
LEMMA DurationsType ==
  ASSUME NEW d \in Durations
  PROVE  /\ d[1] \in Nat /\ d[2] \in Nat \ {0}
         /\ d[1] > ConsensusTime /\ d[1] + d[2] \in Nat \ {0}
<1>1. d \in (Nat \ {0}) \X (Nat \ {0}) /\ d[1] > ConsensusTime
  BY DurAssumption
<1> QED
  BY <1>1

\* What a clock that satisfies ClockInv reads.
Readings ==
    /\ TotalCycleTime = durations[1] + durations[2]
    /\ TotalCycleTime \in Nat \ {0}
    /\ Elapsed \in Nat
    /\ Rest \in 0 .. TotalCycleTime - 1
    /\ GetEpoch \in 0 .. MaxEpoch
    /\ Shown = [epoch |-> GetEpoch, slot |-> SlotAt(Rest, durations)]
    /\ GetTimeTillNextEpoch =
         IF Rest < durations[1] THEN durations[1] - Rest ELSE 0

LEMMA ClockReads == ClockInv => Readings
<1> SUFFICES ASSUME ClockInv PROVE Readings
  OBVIOUS
<1>1. /\ TotalCycleTime = durations[1] + durations[2]
      /\ TotalCycleTime \in Nat \ {0}
      /\ Elapsed \in Nat
  BY DurationsType DEF ClockInv, TypeOK, TotalCycleTime, Elapsed
<1>2. Rest \in 0 .. TotalCycleTime - 1 /\ Elapsed \div TotalCycleTime \in Nat
  BY <1>1, Euclid DEF Rest
<1>3. GetEpoch \in 0 .. MaxEpoch
  BY <1>2, DurAssumption DEF GetEpoch, ClockInv, TypeOK
<1>4. durations[1] \in Nat /\ durations[2] \in Nat /\ ConsensusTime \in Nat
  BY DurationsType, DurAssumption DEF ClockInv, TypeOK
<1>5. /\ GetCurrentPhase = IF Rest < durations[1] THEN "REGISTRATION" ELSE "EPOCH"
      /\ GetTimeTillNextEpoch =
           IF Rest < durations[1] THEN durations[1] - Rest ELSE 0
  BY <1>1, <1>2, <1>4
  DEF GetCurrentPhase, GetTimeTillNextEpoch, GetTimeTillNextCycle,
      REGISTRATION_DUR, EPOCH_DUR
<1>6. Shown = [epoch |-> GetEpoch, slot |-> SlotAt(Rest, durations)]
  BY <1>2, <1>4, <1>5 DEF Shown, SlotAt, InConsensusSlot
<1> QED
  BY <1>1, <1>2, <1>3, <1>5, <1>6 DEF Readings

-----------------------------------------------------------------------------
LEMMA InitClock == Init => ClockInv /\ PhaseClock!ClockInit
<1> SUFFICES ASSUME Init PROVE ClockInv /\ PhaseClock!ClockInit
  OBVIOUS
<1>1. First[1] + First[2] \in Nat \ {0} /\ First \in Durations
  BY DurationsType, DurAssumption
<1>2. Elapsed = 0 /\ TotalCycleTime = First[1] + First[2]
  BY DEF Init, Elapsed, TotalCycleTime
<1>3. Rest = 0 /\ GetEpoch = 0
  BY <1>1, <1>2, OfZero DEF Rest, GetEpoch, Init
<1>4. ClockInv
  BY <1>3, DurAssumption DEF Init, ClockInv, TypeOK
<1>5. Shown = [epoch |-> 0, slot |-> SlotAt(0, First)]
  BY <1>3, <1>4, ClockReads DEF Readings, Init
<1>6. SlotAt(0, First) = "open"
  BY DurationsType, DurAssumption DEF SlotAt
<1>7. PhaseClock!ClockInit
  BY <1>5, <1>6 DEF PhaseClock!ClockInit, Shown
<1> QED
  BY <1>4, <1>7

\* The clock moves by one: within the cycle, or to the first tick of the next.
LEMMA TickMoves ==
  ASSUME ClockInv, Tick
  PROVE  /\ ClockInv'
         /\ \/ Rest' = Rest + 1 /\ GetEpoch' = GetEpoch
            \/ /\ Rest + 1 = durations[1] + durations[2]
               /\ Rest' = 0 /\ GetEpoch' = GetEpoch + 1
<1>1. Readings
  BY ClockReads
<1>2. /\ Elapsed' = Elapsed + 1 /\ TotalCycleTime' = TotalCycleTime
      /\ UNCHANGED <<durations, cycle>>
  BY <1>1 DEF Tick, Elapsed, TotalCycleTime, ClockInv, TypeOK
<1>3. IF Rest + 1 < TotalCycleTime
      THEN /\ Rest' = Rest + 1
           /\ Elapsed' \div TotalCycleTime' = Elapsed \div TotalCycleTime
      ELSE /\ Rest' = 0
           /\ Elapsed' \div TotalCycleTime' = (Elapsed \div TotalCycleTime) + 1
  BY <1>1, <1>2, NextTick DEF Readings, Rest
<1>4. Elapsed \div TotalCycleTime \in Nat /\ cycle.shift \in 0 .. MaxEpoch
  BY <1>1, Euclid DEF Readings, ClockInv, TypeOK
<1>5. IF Rest + 1 < TotalCycleTime
      THEN Rest' = Rest + 1 /\ GetEpoch' = GetEpoch
      ELSE Rest' = 0 /\ GetEpoch' = GetEpoch + 1
  BY <1>2, <1>3, <1>4 DEF GetEpoch
<1>6. Elapsed' \div TotalCycleTime' < MaxEpoch + 1 - cycle.shift
  <2>1. MaxEpoch + 1 - cycle.shift \in Int
    BY <1>4, DurAssumption
  <2>2. Elapsed + 1 < TotalCycleTime * (MaxEpoch + 1 - cycle.shift)
    BY DEF Tick
  <2> QED
    BY <1>1, <1>2, <2>1, <2>2, Below DEF Readings
<1>7. GetEpoch' <= MaxEpoch
  <2>1. Elapsed' \div TotalCycleTime' \in Nat
    BY <1>3, <1>4
  <2> QED
    BY <1>2, <1>4, <1>6, <2>1, DurAssumption DEF GetEpoch
<1>8. ClockInv'
  BY <1>2, <1>7 DEF ClockInv, TypeOK, Tick
<1> QED
  BY <1>1, <1>5, <1>8 DEF Readings

\* A recalibration begins a cycle: of the epoch that runs, or of the next if
\* its registration is over.
LEMMA RecalibrateMoves ==
  ASSUME ClockInv, Recalibrate
  PROVE  /\ ClockInv' /\ Rest' = 0
         /\ \/ GetEpoch' = GetEpoch /\ SlotAt(Rest, durations) = "open"
            \/ GetEpoch' = GetEpoch + 1 /\ SlotAt(Rest, durations) = "live"
<1>1. Readings
  BY ClockReads
<1>2. /\ durations' \in Durations
      /\ now' = now /\ now \in Nat /\ changes' \in 0 .. MaxChanges
      /\ cycle' = [sequence |-> durations', start |-> now,
                   shift |-> CheckPointShift]
      /\ CheckPointShift <= MaxEpoch
  BY DurAssumption DEF Recalibrate, SetCycle, ClockInv, TypeOK
<1>3. CheckPointShift \in {GetEpoch, GetEpoch + 1}
  BY DEF CheckPointShift
<1>4. CheckPointShift \in 0 .. MaxEpoch
  BY <1>1, <1>2, <1>3 DEF Readings
<1>5. Elapsed' = 0 /\ TotalCycleTime' \in Nat \ {0}
  BY <1>2, DurationsType DEF Elapsed, TotalCycleTime
<1>6. Rest' = 0 /\ GetEpoch' = CheckPointShift
  <2>1. Elapsed' % TotalCycleTime' = 0 /\ Elapsed' \div TotalCycleTime' = 0
    BY <1>5, OfZero
  <2> QED
    BY <1>2, <1>4, <2>1, DurAssumption DEF Rest, GetEpoch
<1>7. ClockInv'
  BY <1>2, <1>4, <1>6 DEF ClockInv, TypeOK
<1>8. \/ CheckPointShift = GetEpoch /\ SlotAt(Rest, durations) = "open"
      \/ CheckPointShift = GetEpoch + 1 /\ SlotAt(Rest, durations) = "live"
  <2>1. ~ InConsensusSlot
    BY DEF Recalibrate
  <2>2. Shown.slot = SlotAt(Rest, durations)
    BY <1>1 DEF Readings
  <2>3. GetCurrentPhase \in {"EPOCH", "REGISTRATION"}
    BY DEF GetCurrentPhase
  <2> QED
    BY <2>1, <2>2, <2>3 DEF Shown, CheckPointShift
<1> QED
  BY <1>6, <1>7, <1>8

\* A step of the arithmetic is a step of the slots, or shows nothing.
LEMMA ClockStep ==
  ClockInv /\ [Tick \/ Recalibrate]_vars
    => ClockInv' /\ (PhaseClock!Tick \/ UNCHANGED Shown)
<1> SUFFICES ASSUME ClockInv, [Tick \/ Recalibrate]_vars
             PROVE  ClockInv' /\ (PhaseClock!Tick \/ UNCHANGED Shown)
  OBVIOUS
<1>1. CASE UNCHANGED vars
  BY <1>1 DEF vars, ClockInv, TypeOK, Shown, GetEpoch, Elapsed, TotalCycleTime,
      GetCurrentPhase, Rest, InConsensusSlot, GetTimeTillNextEpoch,
      GetTimeTillNextCycle, REGISTRATION_DUR, EPOCH_DUR
<1>2. Readings /\ (ClockInv' => Readings')
  BY ClockReads, PTL
<1>3. /\ durations[1] \in Nat /\ durations[2] \in Nat \ {0}
      /\ durations[1] > ConsensusTime /\ ConsensusTime \in Nat /\ ConsensusTime > 1
  BY DurationsType, DurAssumption DEF ClockInv, TypeOK
<1>4. PhaseClock!Tick <=>
        \/ /\ Shown.slot = "open"
           /\ Shown' = [Shown EXCEPT !.slot = "closing"]
        \/ /\ Shown.slot = "closing"
           /\ Shown' = [Shown EXCEPT !.slot = "live"]
        \/ /\ Shown.slot = "live" /\ Shown.epoch < MaxEpoch
           /\ Shown' = [epoch |-> Shown.epoch + 1, slot |-> "open"]
  BY DEF PhaseClock!Tick, PhaseClock!CloseRegistration, PhaseClock!BeginLive,
         PhaseClock!BeginCycle, Shown
<1>5. Shown = [epoch |-> GetEpoch, slot |-> SlotAt(Rest, durations)]
  BY <1>2 DEF Readings
<1>6. CASE Tick
  <2>1. ClockInv' /\ Readings' /\ durations' = durations
    BY <1>2, <1>6, TickMoves DEF Tick
  <2>2. Shown' = [epoch |-> GetEpoch', slot |-> SlotAt(Rest', durations)]
    BY <2>1 DEF Readings, SlotAt
  <2>3. CASE Rest' = Rest + 1 /\ GetEpoch' = GetEpoch
    <3>1. \/ SlotAt(Rest', durations) = SlotAt(Rest, durations)
          \/ /\ SlotAt(Rest, durations) = "open"
             /\ SlotAt(Rest', durations) = "closing"
          \/ /\ SlotAt(Rest, durations) = "closing"
             /\ SlotAt(Rest', durations) = "live"
      BY <1>2, <1>3, <2>3 DEF SlotAt, Readings
    <3> QED
      BY <1>4, <1>5, <2>1, <2>2, <2>3, <3>1
  <2>4. CASE /\ Rest + 1 = durations[1] + durations[2]
             /\ Rest' = 0 /\ GetEpoch' = GetEpoch + 1
    <3>1. SlotAt(Rest, durations) = "live" /\ SlotAt(Rest', durations) = "open"
      BY <1>2, <1>3, <2>4 DEF SlotAt, Readings
    <3>2. GetEpoch < MaxEpoch
      BY <1>2, <2>1, <2>4, DurAssumption DEF Readings
    <3> QED
      BY <1>4, <1>5, <2>1, <2>2, <2>4, <3>1, <3>2
  <2> QED
    BY <1>6, <2>3, <2>4, TickMoves
<1>7. CASE Recalibrate
  <2>1. ClockInv' /\ Readings' /\ Rest' = 0
    BY <1>2, <1>7, RecalibrateMoves
  <2>2. Shown' = [epoch |-> GetEpoch', slot |-> SlotAt(0, durations')]
    BY <2>1 DEF Readings, SlotAt
  <2>3. SlotAt(0, durations') = "open"
    BY <2>1, DurationsType, DurAssumption DEF SlotAt, ClockInv, TypeOK
  <2>4. CASE GetEpoch' = GetEpoch /\ SlotAt(Rest, durations) = "open"
    BY <1>5, <2>1, <2>2, <2>3, <2>4
  <2>5. CASE GetEpoch' = GetEpoch + 1 /\ SlotAt(Rest, durations) = "live"
    <3>1. GetEpoch < MaxEpoch
      BY <1>2, <2>1, <2>5, DurAssumption DEF Readings
    <3> QED
      BY <1>4, <1>5, <2>1, <2>2, <2>3, <2>5, <3>1
  <2> QED
    BY <1>7, <2>4, <2>5, RecalibrateMoves
<1> QED
  BY <1>1, <1>6, <1>7

\* Types of the clock (cycleclock.go:19-23), and the lengths and epochs it
\* shows.
THEOREM ClockTypeCorrect == Spec => []TypeOK
<1>1. ClockInv => TypeOK
  BY DEF ClockInv
<1> QED
  BY <1>1, InitClock, ClockStep, PTL DEF Spec

\* The arithmetic of cycleclock.go:35-79 implements the slots the services
\* read, with every recalibration.
THEOREM ClockShowsPhases == Spec => ShowsPhases
<1>1. ClockInv /\ [Tick \/ Recalibrate]_vars
        => ClockInv' /\ [PhaseClock!Tick]_Shown
  BY ClockStep
<1> QED
  BY <1>1, InitClock, PTL DEF Spec, ShowsPhases, PhaseClock!ClockSpec, Shown

\* A new epoch always has a whole registration ahead (cycleclock.go:38-56).
THEOREM EpochsHaveRegistration == Spec => FullRegistration
<1> DEFINE Whole == GetEpoch' = GetEpoch + 1 =>
                      GetTimeTillNextEpoch' = REGISTRATION_DUR'
<1>1. ClockInv /\ [Tick \/ Recalibrate]_vars => [Whole]_vars
  <2> SUFFICES ASSUME ClockInv, Tick \/ Recalibrate PROVE Whole
    OBVIOUS
  <2>1. ClockInv' /\ Readings /\ Readings'
    BY ClockReads, TickMoves, RecalibrateMoves, PTL
  <2>2. GetEpoch' = GetEpoch + 1 => Rest' = 0
    BY <2>1, TickMoves, RecalibrateMoves, DurAssumption DEF Readings
  <2>3. durations'[1] \in Nat /\ durations'[1] > 0
    BY <2>1, DurationsType, DurAssumption DEF ClockInv, TypeOK
  <2> QED
    BY <2>1, <2>2, <2>3 DEF Readings, REGISTRATION_DUR
<1> QED
  BY <1>1, InitClock, ClockStep, PTL DEF Spec, FullRegistration
===========================================================================
