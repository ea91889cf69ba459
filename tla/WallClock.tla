----------------------------- MODULE WallClock -----------------------------
(* The clock that snapshot and tunnel identifiers are made from, in whole   *)
(* seconds: time.Now().Unix().                                              *)
EXTENDS Integers

CONSTANT MaxSeconds     \* bound on the clock
ASSUME SecondsAssumption == MaxSeconds \in Nat

VARIABLE second

ClockInit == second = 0
SecondPasses == second < MaxSeconds /\ second' = second + 1
=============================================================================
