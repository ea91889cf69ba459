------------------------------- MODULE Repair -------------------------------
(***************************************************************************)
(* The repairer (internal/repair, InspectAndRepair).  A pass takes a       *)
(* snapshot of the node table, declares nodes unhealthy, writes each of    *)
(* their records back, then walks the files: a chunk with a shard on an    *)
(* unhealthy node is reconstructed from the shards on the healthy ones,    *)
(* and every shard that was on an unhealthy node is uploaded to a node     *)
(* newly selected; the file's placements are saved when all its chunks are *)
(* done.  Any error ends the whole pass without a save.                    *)
(*                                                                         *)
(* The clock is read right after the snapshot, in the same step here.      *)
(* Decrypting and encrypting with the repairer's key is left out: it is    *)
(* the key of the clients, or every fetch is a miss.                       *)
(***************************************************************************)
EXTENDS Noded

CONSTANTS
    Repairers,          \* callers of InspectAndRepair
    RepairTimeout,      \* its argument timeoutSeconds
    MaxPasses           \* bound on passes

ASSUME RepairAssumption == RepairTimeout \in Nat /\ MaxPasses \in Nat

VARIABLES rep,          \* rep[r]: the state of the pass r runs
          passes        \* passes begun

repairVars == <<rep, passes>>

\* marks: records still to be written back; visited: files already handled;
\* files: files still to come; updated: updatedPlacements of the current file;
\* dirty: fileNeedsUpdate; chunks: chunks of it still to be repaired; fetch:
\* placements to read; got: shards read; place: placements to move; target:
\* the node selected for the first of them.
NoPass == [pc |-> "idle", snap |-> {}, unhealthy |-> {}, marks |-> {},
           files |-> {}, visited |-> {}, file |-> "none", updated |-> {},
           dirty |-> FALSE, chunks |-> {}, chunk |-> 0, fetch |-> {}, got |-> {},
           place |-> {}, target |-> "none"]

PassState == [pc : {"idle", "mark", "files", "chunks", "fetch", "place", "upload"},
              snap : SUBSET Nodes,
              unhealthy : SUBSET Nodes,
              marks : SUBSET NodeWrite,
              files : SUBSET Files, visited : SUBSET Files, file : Files \cup {"none"},
              updated : SUBSET ShardPlacement,
              dirty : BOOLEAN,
              chunks : SUBSET ChunkIndex, chunk : Nat,
              fetch : SUBSET ShardPlacement, got : SUBSET ShardIndex,
              place : SUBSET ShardPlacement, target : Nodes \cup {"none"}]

RepairTypeOK == rep \in [Repairers -> PassState] /\ passes \in Nat

RepairInit == rep = [r \in Repairers |-> NoPass] /\ passes = 0

\* The pass moves on to state s.
PassTo(r, s) == rep' = [rep EXCEPT ![r] = s]

-----------------------------------------------------------------------------
(* Judging the nodes *)

Overdue(rec) == ~rec.healthy \/ now - rec.lastSeen > RepairTimeout

\* Mutant: the snapshot's record is written back as it is.
NotMarked(rec) == rec

MarkUnhealthy(rec) == [rec EXCEPT !.healthy = FALSE]

\* ListNodes and the classification; nothing to do when all are healthy.
RepairBegin(r) ==
    LET unhealthy == {n \in DOMAIN nodeTable : Overdue(nodeTable[n])} IN
    /\ rep[r].pc = "idle"
    /\ passes < MaxPasses
    /\ passes' = passes + 1
    /\ \/ unhealthy = {} /\ PassTo(r, NoPass)
       \/ /\ unhealthy # {}
          /\ PassTo(r, [NoPass EXCEPT
                          !.pc = "mark",
                          !.snap = DOMAIN nodeTable,
                          !.unhealthy = unhealthy,
                          !.marks = {[node |-> n, rec |-> MarkUnhealthy(nodeTable[n])] :
                                       n \in unhealthy}])
    /\ UNCHANGED <<trackerVars, nodedVars>>

\* One RegisterNode of the loop; its error is ignored.
RepairMark(r) ==
    /\ rep[r].pc = "mark"
    /\ \E m \in rep[r].marks :
          /\ PassTo(r, [rep[r] EXCEPT !.marks = @ \ {m}])
          /\ RegisterNode(m.node, m.rec) \/ UNCHANGED nodeTable
    /\ UNCHANGED <<fileTable, now, nodedVars, passes>>

-----------------------------------------------------------------------------
(* Walking the files *)

RepairListFiles(r) ==
    /\ rep[r].pc = "mark"
    /\ rep[r].marks = {}
    /\ PassTo(r, [rep[r] EXCEPT !.pc = "files", !.files = ListFiles])
    /\ UNCHANGED <<trackerVars, nodedVars, passes>>

\* GetFilePlacement of the next file, and the chunks that need repair; a file
\* that cannot be read is skipped.
RepairFile(r) ==
    /\ rep[r].pc = "files"
    /\ \E f \in rep[r].files :
          \/ PassTo(r, [rep[r] EXCEPT
                          !.pc = "chunks",
                          !.file = f,
                          !.files = @ \ {f},
                          !.updated = GetFilePlacement(f),
                          !.dirty = FALSE,
                          !.chunks = {p.chunk : p \in {q \in GetFilePlacement(f) :
                                                         q.node \in rep[r].unhealthy}}])
          \/ PassTo(r, [rep[r] EXCEPT !.files = @ \ {f}])
    /\ UNCHANGED <<trackerVars, nodedVars, passes>>

\* The pass returns, with or without an error.
EndPass(r) == PassTo(r, NoPass)

RepairEnd(r) == /\ rep[r].pc = "files"
                /\ rep[r].files = {}
                /\ EndPass(r)
                /\ UNCHANGED <<trackerVars, nodedVars, passes>>

-----------------------------------------------------------------------------
(* Repairing a chunk *)

\* Mutant: every shard of the chunk is moved.
WholeChunk(r, c) == {p \in rep[r].updated : p.chunk = c}

\* Placements of chunk c that are (not) on a node declared unhealthy.
OnUnhealthy(r, c) == {p \in rep[r].updated : p.chunk = c /\ p.node \in rep[r].unhealthy}
OnHealthy(r, c) == {p \in rep[r].updated : /\ p.chunk = c
                                           /\ p.node \in rep[r].snap \ rep[r].unhealthy}

\* Chunks are visited in the order of a Go map, that is, in any order.
RepairChunk(r) ==
    /\ rep[r].pc = "chunks"
    /\ \E c \in rep[r].chunks :
          PassTo(r, [rep[r] EXCEPT !.pc = "fetch", !.chunk = c, !.chunks = @ \ {c},
                             !.fetch = OnHealthy(r, c), !.got = {}])
    /\ UNCHANGED <<trackerVars, nodedVars, passes>>

\* What fetchShard may return without an error.
fetchShard(r, p) == HandleGet(p.node, ShardOf(rep[r].file, p))

\* Mutant: a shard that could not be fetched is tried again and again.
RepairFetchRetries(r) ==
    /\ rep[r].pc = "fetch"
    /\ \E p \in rep[r].fetch :
          /\ First(rep[r].fetch, p)
          /\ fetchShard(r, p)
          /\ PassTo(r, [rep[r] EXCEPT !.fetch = @ \ {p}, !.got = @ \cup {p.shard}])
    /\ UNCHANGED <<trackerVars, nodedVars, passes>>

\* One placement of the chunk: delivered, or skipped on any error.
RepairFetch(r) ==
    /\ rep[r].pc = "fetch"
    /\ \E p \in rep[r].fetch :
          /\ First(rep[r].fetch, p)
          /\ \/ /\ fetchShard(r, p)
                /\ PassTo(r, [rep[r] EXCEPT !.fetch = @ \ {p}, !.got = @ \cup {p.shard}])
             \/ PassTo(r, [rep[r] EXCEPT !.fetch = @ \ {p}])
    /\ UNCHANGED <<trackerVars, nodedVars, passes>>

\* Mutant: a chunk that cannot be reconstructed is skipped.
RepairReconstructSkips(r) ==
    /\ rep[r].pc = "fetch"
    /\ rep[r].fetch = {}
    /\ \/ /\ Reconstructable(rep[r].got)
          /\ PassTo(r, [rep[r] EXCEPT !.pc = "place", !.place = OnUnhealthy(r, rep[r].chunk)])
       \/ /\ ~Reconstructable(rep[r].got)
          /\ PassTo(r, [rep[r] EXCEPT !.pc = "chunks"])
    /\ UNCHANGED <<trackerVars, nodedVars, passes>>

\* Reconstruct and Encode; too few shards end the pass.
RepairReconstruct(r) ==
    /\ rep[r].pc = "fetch"
    /\ rep[r].fetch = {}
    /\ \/ /\ Reconstructable(rep[r].got)
          /\ PassTo(r, [rep[r] EXCEPT !.pc = "place", !.place = OnUnhealthy(r, rep[r].chunk)])
       \/ /\ ~Reconstructable(rep[r].got)
          /\ EndPass(r)
    /\ UNCHANGED <<trackerVars, nodedVars, passes>>

\* SelectPlacementNodes(1, 0) for the next shard to move, from the table as
\* it is now; no eligible node ends the pass.
RepairSelect(r) ==
    /\ rep[r].pc = "place"
    /\ \/ \E s \in SelectPlacementNodes(1, 0) :
             PassTo(r, [rep[r] EXCEPT !.pc = "upload", !.target = s[0]])
       \/ SelectPlacementNodes(1, 0) = {} /\ EndPass(r)
    /\ UNCHANGED <<trackerVars, nodedVars, passes>>

\* Mutant: the new placement is appended and the old one kept.
MovedAppends(r, p) ==
    [rep[r] EXCEPT
       !.pc = IF rep[r].place = {p} THEN "chunks" ELSE "place",
       !.updated = @ \cup {[p EXCEPT !.node = rep[r].target]},
       !.dirty = TRUE,
       !.place = @ \ {p},
       !.target = "none"]

\* updatedPlacements[idx].NodeID = newNode.NodeID, and the loop goes on.
Moved(r, p) ==
    [rep[r] EXCEPT
       !.pc = IF rep[r].place = {p} THEN "chunks" ELSE "place",
       !.updated = (@ \ {p}) \cup {[p EXCEPT !.node = rep[r].target]},
       !.dirty = TRUE,
       !.place = @ \ {p},
       !.target = "none"]

\* Mutant: an error of uploadShard is ignored.
RepairUploadIgnoresError(r) ==
    /\ rep[r].pc = "upload"
    /\ \E p \in rep[r].place :
          /\ First(rep[r].place, p)
          /\ \/ HandlePut(rep[r].target, ShardOf(rep[r].file, p))
             \/ PutFails(rep[r].target, ShardOf(rep[r].file, p))
          /\ PassTo(r, Moved(r, p))
    /\ UNCHANGED <<trackerVars, passes>>

\* uploadShard answered 200.
RepairUpload(r) ==
    /\ rep[r].pc = "upload"
    /\ \E p \in rep[r].place : /\ First(rep[r].place, p)
                               /\ HandlePut(rep[r].target, ShardOf(rep[r].file, p))
                               /\ PassTo(r, Moved(r, p))
    /\ UNCHANGED <<trackerVars, passes>>

\* uploadShard failed: the pass ends, and nothing of this file is saved.
RepairUploadFails(r) ==
    /\ rep[r].pc = "upload"
    /\ \E p \in rep[r].place : /\ First(rep[r].place, p)
                               /\ PutFails(rep[r].target, ShardOf(rep[r].file, p))
    /\ EndPass(r)
    /\ UNCHANGED <<trackerVars, passes>>

\* All chunks of the file are done: save if a placement changed.
RepairSave(r) ==
    /\ rep[r].pc = "chunks"
    /\ rep[r].chunks = {}
    /\ \/ /\ rep[r].dirty
          /\ SaveFilePlacement(rep[r].file, rep[r].updated)
       \/ ~rep[r].dirty /\ UNCHANGED fileTable
    /\ PassTo(r, [rep[r] EXCEPT !.pc = "files",
                                !.visited = @ \cup {rep[r].file},
                                !.file = "none",
                                !.updated = {}])
    /\ UNCHANGED <<nodeTable, now, nodedVars, passes>>

\* A store error (ListFiles, SelectPlacementNodes, SaveFilePlacement), or the
\* end of the process that runs the pass.
RepairInterrupted(r) == /\ rep[r].pc # "idle"
                        /\ EndPass(r)
                        /\ UNCHANGED <<trackerVars, nodedVars, passes>>

\* The steps of a pass once it has begun.
RepairStep(r) ==
    \/ RepairMark(r) \/ RepairListFiles(r) \/ RepairFile(r) \/ RepairEnd(r)
    \/ RepairChunk(r) \/ RepairFetch(r) \/ RepairReconstruct(r) \/ RepairSelect(r)
    \/ RepairUpload(r) \/ RepairUploadFails(r) \/ RepairSave(r)
=============================================================================
