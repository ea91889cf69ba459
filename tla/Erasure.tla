------------------------------ MODULE Erasure ------------------------------
(***************************************************************************)
(* The erasure code (internal/erasure) as its callers see it: a chunk      *)
(* becomes K data and M parity shards, and any K of the K + M shards give  *)
(* the chunk back.  The Reed-Solomon arithmetic is the library's           *)
(* (github.com/klauspost/reedsolomon); what the program relies on is the   *)
(* count.                                                                  *)
(***************************************************************************)
EXTENDS Integers, FiniteSets

CONSTANTS K, M          \* data and parity shards of a chunk (4 and 4 in the code)

\* NewEncoder refuses anything else.
ASSUME ShardsAssumption == K \in Nat \ {0} /\ M \in Nat \ {0}

\* The indices of the shards Encode returns.
ShardIndex == 0 .. (K + M - 1)

\* Reconstruct succeeds when at least K shards are present (chunks are never
\* empty, so the shortcut for size 0 is not taken).
Reconstructable(got) == Cardinality(got) >= K
=============================================================================
