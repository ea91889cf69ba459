------------------------------ MODULE Tracker ------------------------------
(***************************************************************************)
(* The tracker's metadata store (internal/tracker, served by               *)
(* cmd/trackerd): the "nodes" bucket, the "files" and "placements" buckets *)
(* and the wall clock that liveness decisions read.                        *)
(*                                                                         *)
(* Each Store method is one bbolt transaction, hence one atomic operator   *)
(* here.  The HTTP handlers of trackerd add authentication and decoding in *)
(* front of one Store call, so a handler is that call or an error; the     *)
(* error outcomes belong to the callers (PutClient, GetClient, Noded).     *)
(*                                                                         *)
(* Abstractions.  A node record keeps LastSeen and IsHealthy: the address  *)
(* and StorageAllocated are fixed per node by its configuration, and       *)
(* StorageUsed is 0 in every record ever written (noded/main.go:69 is the  *)
(* only writer that builds one), so the free space by which nodes are      *)
(* sorted is Allocated[n].  A list of placements is a set of records: the  *)
(* code only groups and filters it.  The "files" and "placements" buckets  *)
(* are written together in one transaction and read together in one, so    *)
(* they are one table.                                                     *)
(***************************************************************************)
EXTENDS Erasure

CONSTANTS
    Nodes,              \* node identifiers
    Files,              \* file identifiers: one per upload, random and never reused
    ChunkCount,         \* ChunkCount[f]: the chunks file f is split into
    Allocated,          \* Allocated[n]: StorageAllocated of node n
    TransientAfter,     \* LivenessConfig
    DeadAfter,
    MaxTime             \* bound on the clock

ASSUME ChunkAssumption == ChunkCount \in [Files -> Nat]
ASSUME AllocatedAssumption == Allocated \in [Nodes -> Nat]
ASSUME TimeAssumption == /\ TransientAfter \in Nat
                         /\ DeadAfter \in Nat
                         /\ MaxTime \in Nat

VARIABLES
    nodeTable,          \* bucket "nodes": registered node -> its record
    fileTable,          \* buckets "files" and "placements": file -> its placements
    now                 \* time.Now().Unix()

trackerVars == <<nodeTable, fileTable, now>>

Chunks(f) == 0 .. (ChunkCount[f] - 1)
ChunkIndex == UNION {Chunks(f) : f \in Files}

NodeMetadata == [lastSeen : Nat, healthy : BOOLEAN]

\* A record on its way into the node table.
NodeWrite == [node : Nodes, rec : NodeMetadata]

\* The ShardID string is <file>-c<chunk>-s<shard>, one to one with this triple.
ShardID == [file : Files, chunk : ChunkIndex, shard : ShardIndex]
ShardPlacement == [chunk : ChunkIndex, shard : ShardIndex, node : Nodes]
ShardOf(f, p) == [file |-> f, chunk |-> p.chunk, shard |-> p.shard]

\* The entry of ps that comes first: lists of placements keep shard order.
First(ps, p) == p \in ps /\ \A q \in ps : p.shard <= q.shard

NewStore == /\ nodeTable = [n \in {} |-> [lastSeen |-> 0, healthy |-> FALSE]]
            /\ fileTable = [f \in {} |-> {}]
            /\ now = 0

-----------------------------------------------------------------------------
(* Store methods *)

\* The whole record is overwritten, whatever the bucket held.
RegisterNode(n, rec) ==
    nodeTable' = [m \in DOMAIN nodeTable \cup {n} |->
                    IF m = n THEN rec ELSE nodeTable[m]]

Eligible(required) ==
    {n \in DOMAIN nodeTable : nodeTable[n].healthy /\ Allocated[n] >= required}

\* Mutant: a placement that may name the same node for several shards.
SelectWithRepeats(count, required) ==
    {s \in [0 .. count - 1 -> Eligible(required)] :
        Cardinality(Eligible(required)) >= count}

\* What SelectPlacementNodes may return: the count eligible nodes with the
\* most free space, most free first.  sort.Slice is not stable, so nodes with
\* equal free space come in any order.  Empty when it returns
\* ErrInsufficientNodes.
SelectPlacementNodes(count, required) ==
    {s \in [0 .. count - 1 -> Eligible(required)] :
        /\ \A i, j \in 0 .. count - 1 :
              i < j => s[i] # s[j] /\ Allocated[s[i]] >= Allocated[s[j]]
        /\ \A n \in Eligible(required) :
              \/ \E i \in 0 .. count - 1 : s[i] = n
              \/ \A i \in 0 .. count - 1 : Allocated[s[i]] >= Allocated[n]}

SaveFilePlacement(f, placements) ==
    fileTable' = [g \in DOMAIN fileTable \cup {f} |->
                    IF g = f THEN placements ELSE fileTable[g]]

ListFiles == DOMAIN fileTable
FileFound(f) == f \in DOMAIN fileTable
GetFilePlacement(f) == fileTable[f]

-----------------------------------------------------------------------------
(* LivenessEvaluator *)

\* A node once found unhealthy is dead whatever its LastSeen.
Evaluate(rec, t) ==
    IF ~rec.healthy THEN "dead"
    ELSE IF t - rec.lastSeen < TransientAfter THEN "healthy"
    ELSE IF t - rec.lastSeen < DeadAfter THEN "transient" ELSE "dead"

-----------------------------------------------------------------------------
\* Time passes.
Tick == /\ now < MaxTime
        /\ now' = now + 1
        /\ UNCHANGED <<nodeTable, fileTable>>

TrackerTypeOK ==
    /\ DOMAIN nodeTable \subseteq Nodes
    /\ nodeTable \in [DOMAIN nodeTable -> NodeMetadata]
    /\ DOMAIN fileTable \subseteq Files
    /\ fileTable \in [DOMAIN fileTable -> SUBSET ShardPlacement]
    /\ now \in Nat
=============================================================================
