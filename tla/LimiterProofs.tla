--------------------------- MODULE LimiterProofs ---------------------------
(***************************************************************************)
(* The rate guarantee of the limiter, for every number of goroutines,      *)
(* every rate and every buffer size.                                       *)
(***************************************************************************)
EXTENDS Limiter, TLAPS

\* RateKept alone is not inductive: what may still be granted depends on the
\* tokens in the bucket and on the refill not yet booked.
Budget == granted - mark.granted + Refilled <= Rate + (clock - mark.at)

Inv == TypeOK /\ Budget

\* NewLimiter starts with a full bucket, which the budget allows.
LEMMA InitInv == Init => Inv
  BY LimiterAssumption DEF Init, Inv, TypeOK, Budget, Refilled, Least

\* Every iteration of waitChunk, by any goroutine, keeps the budget: a grant
\* takes from the refilled bucket, and a sleep only books the refill.
LEMMA NextInv == Inv /\ [Next]_vars => Inv'
<1> SUFFICES ASSUME Inv, [Next]_vars PROVE Inv'
  OBVIOUS
<1> USE LimiterAssumption DEF Inv, TypeOK, Budget, Refilled, Least
<1>1. CASE Tick
  BY <1>1 DEF Tick
<1>2. CASE Mark
  BY <1>2 DEF Mark
<1>3. ASSUME NEW t \in Threads, WaitN(t) PROVE Inv'
  <2>1. PICK n \in 1 .. MaxN : call' = [call EXCEPT ![t] = [rem |-> n, wake |-> clock]]
    BY <1>3 DEF WaitN
  <2>2. call' \in [Threads -> [rem : 0 .. MaxN, wake : Nat]]
    BY <2>1
  <2> QED
    BY <1>3, <2>2 DEF WaitN
<1>4. ASSUME NEW t \in Threads, Grant(t) PROVE Inv'
  <2>1. /\ Piece(t) \in 0 .. MaxN
        /\ call[t].rem - Piece(t) \in 0 .. MaxN
    BY <1>4 DEF Grant, Piece
  <2>2. call' \in [Threads -> [rem : 0 .. MaxN, wake : Nat]]
    BY <1>4, <2>1 DEF Grant
  <2> QED
    BY <1>4, <2>1, <2>2 DEF Grant
<1>5. ASSUME NEW t \in Threads, Sleep(t) PROVE Inv'
  <2>1. clock + (Piece(t) - Refilled) \in Nat
    BY <1>5 DEF Sleep, Piece
  <2>2. call' \in [Threads -> [rem : 0 .. MaxN, wake : Nat]]
    BY <1>5, <2>1 DEF Sleep
  <2> QED
    BY <1>5, <2>2 DEF Sleep
<1>6. CASE UNCHANGED vars
  BY <1>6 DEF vars
<1> QED
  BY <1>1, <1>2, <1>3, <1>4, <1>5, <1>6 DEF Next

\* WaitN keeps the rate: from any instant on, no more than one full bucket
\* plus bytesPerSec times the elapsed time is let through (bandwidth.go,
\* waitChunk).
THEOREM RateKeptTheorem == Spec => []RateKept
<1>1. Inv => RateKept
  BY LimiterAssumption DEF Inv, TypeOK, Budget, Refilled, Least, RateKept
<1> QED
  BY InitInv, NextInv, <1>1, PTL DEF Spec

\* The limiter's fields keep their ranges; in particular the bucket never goes
\* below zero nor holds more than one second's worth (bandwidth.go, waitChunk).
THEOREM LimiterTypeOK == Spec => []TypeOK
<1>1. Inv => TypeOK
  BY DEF Inv
<1> QED
  BY InitInv, NextInv, <1>1, PTL DEF Spec
=============================================================================
