----------------------------- MODULE PutClient -----------------------------
(***************************************************************************)
(* `aldea put` (cmd/aldea/put.go, runPut): for every chunk, ask the        *)
(* tracker for K + M nodes, upload shard i to the i-th node, one after the *)
(* other; after the last chunk, save the placements.  Any error ends the   *)
(* command and leaves what was uploaded behind.  Every upload has its own  *)
(* random file identifier, so an upload is named by its file.              *)
(*                                                                         *)
(* Splitting, erasure coding and encryption run in the client's memory and *)
(* touch no shared state: a chunk is its index and its shards are          *)
(* ShardIndex.  The encoded shards are never empty (Split yields no empty  *)
(* chunk).                                                                 *)
(***************************************************************************)
EXTENDS Noded

VARIABLE put            \* put[f]: the state of the command that uploads f

\* pc: "idle", "chunk" (loop head), "upload", "done", "failed", and
\* "abandoned": exited with an error while the save request is in flight.
PutState == [pc : {"idle", "chunk", "upload", "done", "failed", "abandoned"},
             chunk : Nat,
             nodes : [ShardIndex -> Nodes] \cup {<<>>},
             next : Nat,
             placed : SUBSET ShardPlacement]

PutTypeOK == put \in [Files -> PutState]

PutInit == put = [f \in Files |-> [pc |-> "idle", chunk |-> 0, nodes |-> <<>>,
                                   next |-> 0, placed |-> {}]]

\* The command moves on to state s.
PutTo(f, s) == put' = [put EXCEPT ![f] = s]

-----------------------------------------------------------------------------

PutBegin(f) == /\ put[f].pc = "idle"
               /\ PutTo(f, [put[f] EXCEPT !.pc = "chunk"])
               /\ UNCHANGED <<trackerVars, nodedVars>>

\* Mutant: nodes are asked for the data shards only.
PutSelectDataOnly(f) ==
    /\ put[f].pc = "chunk"
    /\ put[f].chunk < ChunkCount[f]
    /\ \E s \in SelectPlacementNodes(K, 0) :
          PutTo(f, [put[f] EXCEPT !.pc = "upload", !.nodes = s, !.next = 0])
    /\ UNCHANGED <<trackerVars, nodedVars>>

\* selectNodes for the next chunk.
PutSelect(f) ==
    /\ put[f].pc = "chunk"
    /\ put[f].chunk < ChunkCount[f]
    /\ \E s \in SelectPlacementNodes(K + M, 0) :
          PutTo(f, [put[f] EXCEPT !.pc = "upload", !.nodes = s, !.next = 0])
    /\ UNCHANGED <<trackerVars, nodedVars>>

\* The placement the next shard of the current chunk gets.
NextPlacement(f) == [chunk |-> put[f].chunk, shard |-> put[f].next,
                     node |-> put[f].nodes[put[f].next]]

\* One turn of the upload loop is over.
Advance(f) ==
    LET placed == put[f].placed \cup {NextPlacement(f)} IN
    IF put[f].next + 1 < K + M
    THEN PutTo(f, [put[f] EXCEPT !.next = @ + 1, !.placed = placed])
    ELSE PutTo(f, [pc |-> "chunk", chunk |-> put[f].chunk + 1, nodes |-> <<>>, next |-> 0,
                   placed |-> placed])

\* Mutant: an upload error is logged and the loop goes on.
PutUploadIgnoresError(f) ==
    /\ put[f].pc = "upload"
    /\ LET p == NextPlacement(f) IN
       HandlePut(p.node, ShardOf(f, p)) \/ PutFails(p.node, ShardOf(f, p))
    /\ Advance(f)
    /\ UNCHANGED trackerVars

\* putShard answered 200; the placement is appended.
PutUpload(f) ==
    /\ put[f].pc = "upload"
    /\ HandlePut(NextPlacement(f).node, ShardOf(f, NextPlacement(f)))
    /\ Advance(f)
    /\ UNCHANGED trackerVars

\* Mutant: the placements are saved while the last chunk is still missing.
AllUploadedOffByOne(f) == put[f].pc = "chunk" /\ put[f].chunk + 1 >= ChunkCount[f]

AllUploaded(f) == put[f].pc = "chunk" /\ put[f].chunk >= ChunkCount[f]

\* saveFilePlacement answered 200.
PutSave(f) == /\ AllUploaded(f)
              /\ SaveFilePlacement(f, put[f].placed)
              /\ PutTo(f, [put[f] EXCEPT !.pc = "done"])
              /\ UNCHANGED <<nodeTable, now, nodedVars>>

-----------------------------------------------------------------------------
(* Errors *)

\* selectNodes failed: too few eligible nodes, or the tracker out of reach.
PutSelectFails(f) == /\ put[f].pc = "chunk"
                     /\ put[f].chunk < ChunkCount[f]
                     /\ PutTo(f, [put[f] EXCEPT !.pc = "failed"])
                     /\ UNCHANGED <<trackerVars, nodedVars>>

PutUploadFails(f) ==
    /\ put[f].pc = "upload"
    /\ PutFails(NextPlacement(f).node, ShardOf(f, NextPlacement(f)))
    /\ PutTo(f, [put[f] EXCEPT !.pc = "failed"])
    /\ UNCHANGED trackerVars

\* saveFilePlacement failed, or timed out with the request under way.
PutSaveFails(f) == /\ AllUploaded(f)
                   /\ \E pc \in {"failed", "abandoned"} :
                         PutTo(f, [put[f] EXCEPT !.pc = pc])
                   /\ UNCHANGED <<trackerVars, nodedVars>>

\* The tracker runs the request of a client that has already given up.
LateSave(f) == /\ put[f].pc = "abandoned"
               /\ SaveFilePlacement(f, put[f].placed)
               /\ PutTo(f, [put[f] EXCEPT !.pc = "failed"])
               /\ UNCHANGED <<nodeTable, now, nodedVars>>

\* The steps of the running command; LateSave is the tracker's.
PutStep(f) == \/ PutSelect(f) \/ PutSelectFails(f)
              \/ PutUpload(f) \/ PutUploadFails(f)
              \/ PutSave(f) \/ PutSaveFails(f)
=============================================================================
