------------------------------- MODULE Noded -------------------------------
(***************************************************************************)
(* The storage node daemon (cmd/noded) as its clients see it.  A node      *)
(* opens its bbolt shard database, registers with the tracker once (a      *)
(* failure is only a warning), then listens; a crash loses nothing that    *)
(* was written.  Nothing in the code ever deletes a shard.                 *)
(*                                                                         *)
(* The content of a shard is a function of its identifier (a file          *)
(* identifier is used by one upload only, and repair re-encodes the same   *)
(* chunk), so a bucket is the set of shard identifiers it holds.  The      *)
(* quota check of handlePut and its race are the subject of ShardServer;   *)
(* here a rejected put is one of the ways a put fails.                     *)
(*                                                                         *)
(* A put that fails at the client may still be executed by the node later  *)
(* (the http client's timeout does not withdraw the request, and a lost    *)
(* response looks the same): such requests wait in pending.  The same goes *)
(* for a registration that times out at the node: it waits in late.        *)
(***************************************************************************)
EXTENDS Tracker

CONSTANTS MaxCrashes,   \* bound on crashes
          MaxLate       \* bound on registrations in flight

ASSUME CrashAssumption == MaxCrashes \in Nat /\ MaxLate \in Nat

VARIABLES
    nodeState,          \* "down", "starting" (registered, not yet listening), "up"
    stored,             \* stored[n]: the shards in node n's bucket "shards"
    pending,            \* puts given up by the client that the node may still run
    late,               \* registrations given up by the node, still on their way
    crashes

nodedVars == <<nodeState, stored, pending, late, crashes>>

NodedInit == /\ nodeState = [n \in Nodes |-> "down"]
             /\ stored = [n \in Nodes |-> {}]
             /\ pending = {}
             /\ late = {}
             /\ crashes = 0

-----------------------------------------------------------------------------
(* Requests, from the client's side *)

Reachable(n) == nodeState[n] = "up"

\* POST /shards answered 200: the Update transaction of handlePut committed.
HandlePut(n, s) == /\ Reachable(n)
                   /\ stored' = [stored EXCEPT ![n] = @ \cup {s}]
                   /\ UNCHANGED <<nodeState, pending, late, crashes>>

\* POST /shards failed at the client: refused, rejected (401, 500, 507), or
\* the answer did not arrive in time and the request is still in flight.
PutFails(n, s) == /\ \/ pending' = pending
                     \/ /\ Reachable(n)
                        /\ pending' = pending \cup {<<n, s>>}
                  /\ UNCHANGED <<nodeState, stored, late, crashes>>

\* POST /shards/get answered with the shard.
HandleGet(n, s) == Reachable(n) /\ s \in stored[n]

-----------------------------------------------------------------------------
(* The daemon *)

\* The record registerWithTracker sends.
Registration(n) == [node |-> n, rec |-> [lastSeen |-> now, healthy |-> TRUE]]

\* newShardServer and registerWithTracker, before ListenAndServe: registered,
\* failed, or timed out with the request under way.
StartNode(n) ==
    /\ nodeState[n] = "down"
    /\ nodeState' = [nodeState EXCEPT ![n] = "starting"]
    /\ \/ RegisterNode(n, Registration(n).rec) /\ UNCHANGED late
       \/ UNCHANGED <<nodeTable, late>>
       \/ /\ Cardinality(late) < MaxLate
          /\ late' = late \cup {Registration(n)}
          /\ UNCHANGED nodeTable
    /\ UNCHANGED <<fileTable, now, stored, pending, crashes>>

\* The tracker runs a registration the node has given up.
LateRegister ==
    /\ \E w \in late : /\ RegisterNode(w.node, w.rec)
                       /\ late' = late \ {w}
    /\ UNCHANGED <<fileTable, now, nodeState, stored, pending, crashes>>

Listen(n) == /\ nodeState[n] = "starting"
             /\ nodeState' = [nodeState EXCEPT ![n] = "up"]
             /\ UNCHANGED <<trackerVars, stored, pending, late, crashes>>

\* A request given up by its client reaches handlePut.
LateStore(n) ==
    /\ Reachable(n)
    /\ \E r \in pending : /\ r[1] = n
                          /\ stored' = [stored EXCEPT ![n] = @ \cup {r[2]}]
                          /\ pending' = pending \ {r}
    /\ UNCHANGED <<trackerVars, nodeState, late, crashes>>

Crash(n) == /\ nodeState[n] # "down"
            /\ crashes < MaxCrashes
            /\ crashes' = crashes + 1
            /\ nodeState' = [nodeState EXCEPT ![n] = "down"]
            /\ pending' = {r \in pending : r[1] # n}
            /\ UNCHANGED <<trackerVars, stored, late>>

NodedTypeOK ==
    /\ nodeState \in [Nodes -> {"down", "starting", "up"}]
    /\ stored \in [Nodes -> SUBSET ShardID]
    /\ pending \subseteq Nodes \X ShardID
    /\ late \subseteq NodeWrite
    /\ crashes \in Nat
=============================================================================
