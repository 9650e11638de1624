-------------------------------- MODULE Clock --------------------------------
(***************************************************************************)
(* block.timestamp, the clock all contracts read.                          *)
(***************************************************************************)
EXTENDS Naturals

CONSTANT MaxTime   \* bound: the last tick

ASSUME TimeAssumption == MaxTime \in Nat

VARIABLE now       \* block.timestamp

ClockTick == now < MaxTime /\ now' = now + 1
=============================================================================
