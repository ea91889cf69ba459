------------------------------ MODULE Limiter ------------------------------
(***************************************************************************)
(* The token bucket (internal/bandwidth, Limiter) shared by the goroutines *)
(* that read and write through one ThrottledReader or ThrottledWriter.     *)
(*                                                                         *)
(* The unit of time is the time one byte takes, 1/bytesPerSec seconds, so  *)
(* that the refill of elapsed time is elapsed and capacity is bytesPerSec. *)
(* Floating-point rounding is left out.  The body of waitChunk's loop runs *)
(* under the mutex and is one step; the mutex is free while it sleeps.     *)
(***************************************************************************)
EXTENDS Integers, FiniteSets

CONSTANTS
    Threads,            \* goroutines using the limiter
    Rate,               \* bytesPerSec
    MaxN,               \* largest buffer passed to WaitN
    MaxClock            \* bound on the clock

ASSUME LimiterAssumption == /\ Rate \in Nat \ {0}
                            /\ MaxN \in Nat
                            /\ MaxClock \in Nat

VARIABLES
    tokens, lastCheck,  \* the fields of Limiter
    clock,
    call,               \* call[t]: bytes still to wait for, and when the sleep ends
    granted,            \* history: bytes WaitN has let through
    mark                \* an instant picked by an observer, and granted at it

vars == <<tokens, lastCheck, clock, call, granted, mark>>

TypeOK == /\ tokens \in 0 .. Rate
          /\ lastCheck \in Nat /\ clock \in Nat /\ lastCheck <= clock
          /\ call \in [Threads -> [rem : 0 .. MaxN, wake : Nat]]
          /\ granted \in Nat
          /\ mark \in [at : Nat, granted : Nat]

\* NewLimiter: the bucket starts full.
Init == /\ tokens = Rate
        /\ lastCheck = 0
        /\ clock = 0
        /\ call = [t \in Threads |-> [rem |-> 0, wake |-> 0]]
        /\ granted = 0
        /\ mark = [at |-> 0, granted |-> 0]

-----------------------------------------------------------------------------

Least(a, b) == IF a <= b THEN a ELSE b

\* Mutant: tokens pile up while nobody reads.
RefilledWithoutCap == tokens + (clock - lastCheck)

\* The refill of an iteration, capped at maxCapacity.
Refilled == Least(tokens + (clock - lastCheck), Rate)

\* WaitN is called with a buffer of n bytes.
WaitN(t) == /\ call[t].rem = 0
            /\ \E n \in 1 .. MaxN : call' = [call EXCEPT ![t] = [rem |-> n, wake |-> clock]]
            /\ UNCHANGED <<tokens, lastCheck, clock, granted, mark>>

\* The piece of at most bytesPerSec bytes waitChunk is called with.
Piece(t) == Least(call[t].rem, Rate)

\* Mutant: lastCheck is not moved when tokens are taken.
GrantKeepsLastCheck(t) == /\ call[t].rem > 0
                          /\ call[t].wake <= clock
                          /\ Refilled >= Piece(t)
                          /\ tokens' = Refilled - Piece(t)
                          /\ granted' = granted + Piece(t)
                          /\ call' = [call EXCEPT ![t].rem = @ - Piece(t)]
                          /\ UNCHANGED <<lastCheck, clock, mark>>

\* One iteration of waitChunk that finds enough tokens.
Grant(t) == /\ call[t].rem > 0
            /\ call[t].wake <= clock
            /\ Refilled >= Piece(t)
            /\ tokens' = Refilled - Piece(t)
            /\ lastCheck' = clock
            /\ granted' = granted + Piece(t)
            /\ call' = [call EXCEPT ![t].rem = @ - Piece(t)]
            /\ UNCHANGED <<clock, mark>>

\* One that does not: the refill is kept and the caller sleeps for the rest.
Sleep(t) == /\ call[t].rem > 0
            /\ call[t].wake <= clock
            /\ Refilled < Piece(t)
            /\ tokens' = Refilled
            /\ lastCheck' = clock
            /\ call' = [call EXCEPT ![t].wake = clock + (Piece(t) - Refilled)]
            /\ UNCHANGED <<clock, granted, mark>>

\* Time passes.
Tick == /\ clock < MaxClock
        /\ clock' = clock + 1
        /\ UNCHANGED <<tokens, lastCheck, call, granted, mark>>

\* The observer starts to measure.
Mark == /\ mark' = [at |-> clock, granted |-> granted]
        /\ UNCHANGED <<tokens, lastCheck, clock, call, granted>>

Next == Tick \/ Mark \/ \E t \in Threads : WaitN(t) \/ Grant(t) \/ Sleep(t)

Spec == Init /\ [][Next]_vars

-----------------------------------------------------------------------------
(* Properties *)

\* From any instant on, the goroutines together get no more than a full
\* bucket plus what the rate yields in the time since: no interleaving of
\* sleeping and waking callers and no idle period buys more than one burst.
RateKept == granted - mark.granted <= Rate + (clock - mark.at)
=============================================================================
