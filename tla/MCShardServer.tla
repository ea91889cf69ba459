--------------------------- MODULE MCShardServer ---------------------------
EXTENDS ShardServer, TLC

\* Two payloads of sizes 1 and 2.
CONSTANTS small, large
SizeOf == small :> 1 @@ large :> 2
Symmetric == Permutations(Handlers) \cup Permutations(Shards)
=============================================================================
