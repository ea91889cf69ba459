----------------------------- MODULE GetClient -----------------------------
(***************************************************************************)
(* `aldea get` (cmd/aldea/get.go, runGet): read the placements, then the   *)
(* node list (two requests: the table may change in between), then fetch   *)
(* the shards of one chunk after the other, skip every shard that fails,   *)
(* reconstruct each chunk from at least K shards, and reassemble.          *)
(*                                                                         *)
(* The command ignores IsHealthy: it tries every registered node.          *)
(***************************************************************************)
EXTENDS Noded

CONSTANT Readers        \* running `aldea get` commands

VARIABLE get            \* get[r]: the state of reader r

\* group: placements of the current chunk still to be fetched; got: shards of
\* it fetched; missed: nodes that did not deliver; out: the chunks appended
\* for Reassemble; todo: chunkIndices still to come.
GetState == [pc : {"idle", "nodes", "chunk", "fetch", "done", "failed"},
             file : Files \cup {"none"},
             placements : SUBSET ShardPlacement,
             known : SUBSET Nodes,
             todo : SUBSET ChunkIndex,
             chunk : Nat,
             group : SUBSET ShardPlacement,
             got : SUBSET ShardIndex,
             missed : SUBSET Nodes,
             out : SUBSET Nat]

GetTypeOK == get \in [Readers -> GetState]

NoGet == [pc |-> "idle", file |-> "none", placements |-> {}, known |-> {}, todo |-> {},
          chunk |-> 0, group |-> {}, got |-> {}, missed |-> {}, out |-> {}]

GetInit == get = [r \in Readers |-> NoGet]

\* The command moves on to state s.
GetTo(r, s) == get' = [get EXCEPT ![r] = s]

-----------------------------------------------------------------------------

\* getFilePlacement: 404 or another error ends the command.
GetBegin(r, f) ==
    /\ get[r].pc = "idle"
    /\ \/ /\ FileFound(f)
          /\ GetTo(r, [get[r] EXCEPT !.pc = "nodes", !.file = f,
                                !.placements = GetFilePlacement(f)])
       \/ GetTo(r, [get[r] EXCEPT !.pc = "failed", !.file = f])
    /\ UNCHANGED <<trackerVars, nodedVars>>

\* listNodes, and the grouping of the placements by chunk.
GetNodes(r) ==
    /\ get[r].pc = "nodes"
    /\ \/ GetTo(r, [get[r] EXCEPT !.pc = "chunk",
                             !.known = DOMAIN nodeTable,
                             !.todo = {p.chunk : p \in get[r].placements}])
       \/ GetTo(r, [get[r] EXCEPT !.pc = "failed"])
    /\ UNCHANGED <<trackerVars, nodedVars>>

\* Mutant: the bound on the shard index is one too low.
GroupSkipsLast(ps, c) == {p \in ps : p.chunk = c /\ p.shard + 1 < K + M}

\* byChunk[c], without shard indices that are out of range.
Group(ps, c) == {p \in ps : p.chunk = c /\ p.shard < K + M}

\* The next chunk in ascending order.
GetChunk(r) ==
    /\ get[r].pc = "chunk"
    /\ \E c \in get[r].todo :
          /\ \A d \in get[r].todo : c <= d
          /\ GetTo(r, [get[r] EXCEPT !.pc = "fetch",
                                !.chunk = c,
                                !.todo = @ \ {c},
                                !.group = Group(get[r].placements, c),
                                !.got = {},
                                !.missed = {}])
    /\ UNCHANGED <<trackerVars, nodedVars>>

\* What getShard may return data for: a known node that answers with the shard.
getShard(r, p) == p.node \in get[r].known /\ HandleGet(p.node, ShardOf(get[r].file, p))

\* Mutant: a shard that could not be fetched is tried again and again.
GetFetchRetries(r) ==
    /\ get[r].pc = "fetch"
    /\ \E p \in get[r].group :
          /\ First(get[r].group, p)
          /\ getShard(r, p)
          /\ GetTo(r, [get[r] EXCEPT !.group = @ \ {p}, !.got = @ \cup {p.shard}])
    /\ UNCHANGED <<trackerVars, nodedVars>>

\* One placement of the group: delivered, or skipped for whatever reason
\* (unknown node, no answer, not found, not decryptable).
GetFetch(r) ==
    /\ get[r].pc = "fetch"
    /\ \E p \in get[r].group :
          /\ First(get[r].group, p)
          /\ \/ /\ getShard(r, p)
                /\ GetTo(r, [get[r] EXCEPT !.group = @ \ {p}, !.got = @ \cup {p.shard}])
             \/ GetTo(r, [get[r] EXCEPT !.group = @ \ {p}, !.missed = @ \cup {p.node}])
    /\ UNCHANGED <<trackerVars, nodedVars>>

GetReconstruct(r) ==
    /\ get[r].pc = "fetch"
    /\ get[r].group = {}
    /\ \/ /\ Reconstructable(get[r].got)
          /\ GetTo(r, [get[r] EXCEPT !.pc = "chunk", !.out = @ \cup {get[r].chunk}])
       \/ /\ ~Reconstructable(get[r].got)
          /\ GetTo(r, [get[r] EXCEPT !.pc = "failed"])
    /\ UNCHANGED <<trackerVars, nodedVars>>

\* Reassemble: the chunk at position i must have index i.
Reassembles(out) == out = 0 .. (Cardinality(out) - 1)

\* os.Create and Reassemble; the output may also not be created or written.
GetFinish(r) ==
    /\ get[r].pc = "chunk"
    /\ get[r].todo = {}
    /\ \/ Reassembles(get[r].out) /\ GetTo(r, [get[r] EXCEPT !.pc = "done"])
       \/ GetTo(r, [get[r] EXCEPT !.pc = "failed"])
    /\ UNCHANGED <<trackerVars, nodedVars>>

GetStep(r) == GetNodes(r) \/ GetChunk(r) \/ GetFetch(r) \/ GetReconstruct(r) \/ GetFinish(r)
=============================================================================
