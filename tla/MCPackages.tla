----------------------------- MODULE MCPackages -----------------------------
(* Packages for TLC.  Memory is in units of 256 MB. *)
EXTENDS Packages, TLC

\* host:port
MCColons == [x \in Addrs |-> 1]

MCLocalID == [i \in 1 .. IDBits |-> i % 2]

Manifest(id, type, cpu, mem) ==
    [id |-> id, named |-> TRUE, type |-> type, cpu |-> cpu, mem |-> mem]

\* Two workloads in two sizes, one written in mixed case, one too large for
\* the local node, and manifests that are refused.
MCManifests ==
    {Manifest("web", "stateless", 1, 2), Manifest("web", "Stateless", 4, 16),
     Manifest("db", "Stateful", 1, 2), Manifest("batch", "stateless", 8, 2),
     Manifest("job", "stateless", 2, 4),
     Manifest("job", "cron", 1, 2), Manifest("", "stateless", 1, 2),
     [Manifest("web", "stateless", 1, 2) EXCEPT !.named = FALSE],
     Manifest("web", "stateless", 0, 2), Manifest("web", "stateless", 1, 0)}

MCWorkloadIDs == {"web", "db", "batch", "job"}

Node(id, cpu, allocCPU, mem, allocMem) ==
    [nodeID |-> id, linux |-> TRUE, enabled |-> TRUE, healthy |-> TRUE,
     totalCPU |-> cpu, allocCPU |-> allocCPU, totalMem |-> mem, allocMem |-> allocMem]

\* Nodes of several sizes and loads, two equally loaded, one overcommitted,
\* and one of each kind that is never suitable.
MCCapabilities ==
    {Node("n1", 4, 0, 16, 0), Node("n1", 4, 3, 16, 4), Node("n1", 0, 0, 0, 0),
     Node("n2", 8, 6, 32, 8), Node("n2", 4, 5, 16, 0), Node("n2", 2, 0, 8, 2),
     Node("n3", 2, 1, 4, 1),
     [Node("n3", 8, 0, 32, 0) EXCEPT !.linux = FALSE],
     [Node("n3", 8, 0, 32, 0) EXCEPT !.enabled = FALSE],
     [Node("n3", 8, 0, 32, 0) EXCEPT !.healthy = FALSE]}

\* The packages share no state, so they share model values: one permutation
\* then renames the interchangeable elements of whichever package moves.
Symmetric == Permutations(Apps) \cup Permutations(Calls) \cup Permutations(Addrs)
=============================================================================
