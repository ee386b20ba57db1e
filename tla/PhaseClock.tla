----------------------------- MODULE PhaseClock -----------------------------
(***************************************************************************)
(* What the rest of the system sees of the clock kept by every service     *)
(* (membershipchainservice/cycleclock.go).  A cycle is a registration      *)
(* phase followed by an epoch phase; the last TIME_FOR_CONSENCUS of the    *)
(* registration phase is reserved for the consensus.  A cycle is therefore *)
(* seen as three slots:                                                    *)
(*   "open"    phase REGISTRATION, GetTimeTillNextEpoch >= the reserve     *)
(*   "closing" phase REGISTRATION, GetTimeTillNextEpoch <  the reserve     *)
(*   "live"    phase EPOCH (GetTimeTillNextEpoch is 0)                     *)
(* The services are assumed to have synchronised clocks, as the design     *)
(* document does, so there is one clock.  CycleClock.tla shows that the    *)
(* arithmetic of the code implements this specification.                   *)
(***************************************************************************)
EXTENDS Naturals

CONSTANT MaxEpoch      \* bound: no cycle after this one is modelled

ASSUME MaxEpochAssumption == MaxEpoch \in Nat \ {0}

VARIABLE clock         \* the epoch GetEpoch returns, and the slot

Epoch == 0 .. MaxEpoch
Slot  == {"open", "closing", "live"}

ClockTypeOK == clock \in [epoch : Epoch, slot : Slot]

ClockInit == clock = [epoch |-> 0, slot |-> "open"]

\* Registrations for epoch k are over: the committee of epoch k-1 has entered
\* its consensus slot, or a later one.
Closed(k) ==
    \/ clock.epoch >= k
    \/ clock.epoch = k - 1 /\ clock.slot # "open"

\* GetTimeTillNextEpoch() < TIME_FOR_CONSENCUS
TooLate == clock.slot # "open"

CloseRegistration ==
    /\ clock.slot = "open"
    /\ clock' = [clock EXCEPT !.slot = "closing"]

BeginLive ==
    /\ clock.slot = "closing"
    /\ clock' = [clock EXCEPT !.slot = "live"]

BeginCycle ==
    /\ clock.slot = "live"
    /\ clock.epoch < MaxEpoch
    /\ clock' = [epoch |-> clock.epoch + 1, slot |-> "open"]

Tick == CloseRegistration \/ BeginLive \/ BeginCycle

ClockSpec == ClockInit /\ [][Tick]_clock
=============================================================================
