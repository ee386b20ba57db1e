----------------------------- MODULE CycleClock -----------------------------
(***************************************************************************)
(* The arithmetic of membershipchainservice/cycleclock.go, in ticks.  A    *)
(* Cycle remembers when it was set and how long its phases were then;      *)
(* GetCurrentPhase and GetTimeTillNextEpoch read the package variables     *)
(* REGISTRATION_DUR and EPOCH_DUR, which may change.  They change between  *)
(* CheckPoint and Set, when an epoch took longer than planned              *)
(* (service_test.go:389-417).                                              *)
(***************************************************************************)
EXTENDS Integers

CONSTANTS
    Durations,        \* <<REGISTRATION_DUR, EPOCH_DUR>>: the values they take
    First,            \* the ones at the start
    ConsensusTime,    \* TIME_FOR_CONSENCUS
    MaxEpoch,         \* bound: no epoch after this one
    MaxChanges        \* bound: changes of duration

ASSUME DurAssumption ==
    /\ First \in Durations
    /\ Durations \subseteq (Nat \ {0}) \X (Nat \ {0})
    /\ ConsensusTime \in Nat /\ ConsensusTime > 1
    /\ \A d \in Durations : d[1] > ConsensusTime
    /\ MaxEpoch \in Nat \ {0}
    /\ MaxChanges \in Nat

VARIABLES
    now,         \* time.Now()
    durations,   \* the package variables
    cycle,       \* Sequence, StartTime and ShiftEpoch of the Cycle
    changes      \* durations changed so far

vars == <<now, durations, cycle, changes>>

REGISTRATION_DUR == durations[1]
EPOCH_DUR        == durations[2]

TotalCycleTime == cycle.sequence[1] + cycle.sequence[2]
Elapsed == now - cycle.start
Rest    == Elapsed % TotalCycleTime

\* Mutant: the boundary belongs to the registration phase.
LatePhase == IF Rest <= REGISTRATION_DUR THEN "REGISTRATION" ELSE "EPOCH"
GetCurrentPhase == IF Rest < REGISTRATION_DUR THEN "REGISTRATION" ELSE "EPOCH"

GetTimeTillNextCycle == TotalCycleTime - Rest

GetTimeTillNextEpoch ==
    IF GetCurrentPhase = "EPOCH" THEN 0 ELSE GetTimeTillNextCycle - EPOCH_DUR

GetEpoch == Elapsed \div TotalCycleTime + cycle.shift

\* What Set, called at time t with durations d, leaves.
\* Mutant: the phases keep their old lengths.
SetStart(d, t, shift) ==
    [sequence |-> cycle.sequence, start |-> t, shift |-> shift]
SetCycle(d, t, shift) == [sequence |-> d, start |-> t, shift |-> shift]

Init ==
    /\ now = 0
    /\ durations = First
    /\ cycle = [sequence |-> First, start |-> 0, shift |-> 0]
    /\ changes = 0

Tick ==
    /\ now' = now + 1
    /\ Elapsed + 1 < TotalCycleTime * (MaxEpoch + 1 - cycle.shift)
    /\ UNCHANGED <<durations, cycle, changes>>

\* Mutants: the epoch that is running is not counted; a registration that is
\* running undoes the last one.
UncountedShift == GetEpoch
UndoneShift == IF GetCurrentPhase = "EPOCH" THEN GetEpoch + 1 ELSE GetEpoch - 1
CheckPointShift == IF GetCurrentPhase = "EPOCH" THEN GetEpoch + 1 ELSE GetEpoch

InConsensusSlot ==
    GetCurrentPhase = "REGISTRATION" /\ GetTimeTillNextEpoch < ConsensusTime

\* CheckPoint, new durations and Set, before the clock moves and not in the
\* consensus slot: Set "Should be executed before registration".
Recalibrate ==
    /\ changes < MaxChanges
    /\ changes' = changes + 1
    /\ ~ InConsensusSlot
    /\ CheckPointShift <= MaxEpoch
    /\ durations' \in Durations
    /\ cycle' = SetCycle(durations', now, CheckPointShift)
    /\ UNCHANGED now

Spec == Init /\ [][Tick \/ Recalibrate]_vars

-----------------------------------------------------------------------------
TypeOK ==
    /\ now \in Nat
    /\ durations \in Durations
    /\ cycle \in [sequence : Durations, start : Nat, shift : 0 .. MaxEpoch]
    /\ changes \in 0 .. MaxChanges

\* The clock shows the slots of PhaseClock, in their order and one at a time:
\* registration, its last TIME_FOR_CONSENCUS, the epoch phase, next cycle; a
\* change of the durations (cycleclock.go:72-79) is no exception.
PhaseClock == INSTANCE PhaseClock WITH
    clock <- [epoch |-> GetEpoch,
              slot  |-> IF GetCurrentPhase = "EPOCH" THEN "live"
                        ELSE IF InConsensusSlot THEN "closing" ELSE "open"]
ShowsPhases == PhaseClock!ClockSpec

\* When an epoch begins, by the passing of time or by a recalibration, its
\* successor's registration has the whole REGISTRATION_DUR before it: the
\* phases are computed from the package variables and the cycle from the
\* lengths Set saved (cycleclock.go:38-56), and must not drift apart.
FullRegistration ==
    [][GetEpoch' = GetEpoch + 1 =>
         GetTimeTillNextEpoch' = REGISTRATION_DUR']_vars
=============================================================================
