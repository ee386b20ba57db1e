------------------------------ MODULE MCClock ------------------------------
(***************************************************************************)
(* Durations in ticks: the first is the shortest that has all the slots,   *)
(* the others change the registration, the epoch or both.                  *)
(***************************************************************************)
EXTENDS CycleClock

MCFirst == <<5, 3>>
MCDurations == {MCFirst, <<7, 3>>, <<4, 6>>}
=============================================================================
