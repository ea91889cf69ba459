---------------------------- MODULE AldeaProofs ----------------------------
(***************************************************************************)
(* Safety of the storage network for every set of nodes, files, readers    *)
(* and repairers, every K and M, and every bound.                          *)
(***************************************************************************)
EXTENDS Aldea, TLAPS

-----------------------------------------------------------------------------
(* The inductive invariant *)

\* An upload in its inner loop has its nodes and an index into them.
PutShape == \A f \in Files : put[f].pc = "upload" =>
               /\ put[f].nodes \in [ShardIndex -> Nodes]
               /\ put[f].next \in ShardIndex
               /\ put[f].chunk < ChunkCount[f]

\* A pass at work on a file knows the file, and a shard under way its target.
RepShape == \A r \in Repairers :
               /\ rep[r].pc \in {"chunks", "fetch", "place", "upload"} => rep[r].file \in Files
               /\ rep[r].pc = "upload" => rep[r].target \in Nodes

TypeInv == TypeOK /\ PutShape /\ RepShape

\* A pass only walks files that are in the table.
RepFiles == \A r \in Repairers : rep[r].files \subseteq DOMAIN fileTable

\* What an upload is going to save, and what a pass is, is on disk already.
PutBacked == \A f \in Files : Backed(f, put[f].placed)
RepBacked == \A r \in Repairers : Backed(rep[r].file, rep[r].updated)

BackedInv == PlacementBacked /\ PutBacked /\ RepBacked

-----------------------------------------------------------------------------
(* Lemmas on the operators *)

\* A chunk number below ChunkCount is a chunk index.
LEMMA ChunkInRange ==
  ASSUME NEW f \in Files, NEW c \in Nat, c < ChunkCount[f]
  PROVE  c \in ChunkIndex
<1>1. c \in Chunks(f)
  BY ChunkAssumption DEF Chunks
<1> QED
  BY <1>1 DEF ChunkIndex

\* RegisterNode keeps the node table well formed.
LEMMA RegisterNodeType ==
  ASSUME TrackerTypeOK, NEW n \in Nodes, NEW rec \in NodeMetadata,
         RegisterNode(n, rec), UNCHANGED <<fileTable, now>>
  PROVE  TrackerTypeOK'
  BY DEF TrackerTypeOK, RegisterNode

\* SaveFilePlacement keeps the file table well formed.
LEMMA SaveFilePlacementType ==
  ASSUME TrackerTypeOK, NEW f \in Files, NEW ps \in SUBSET ShardPlacement,
         SaveFilePlacement(f, ps), UNCHANGED <<nodeTable, now>>
  PROVE  TrackerTypeOK'
  BY DEF TrackerTypeOK, SaveFilePlacement

\* A selection names eligible, hence registered nodes.
LEMMA SelectionType ==
  ASSUME TrackerTypeOK, NEW count \in Nat, NEW s \in SelectPlacementNodes(count, 0)
  PROVE  s \in [0 .. count - 1 -> Nodes]
  BY DEF TrackerTypeOK, SelectPlacementNodes, Eligible

\* handlePut keeps the buckets well formed.
LEMMA HandlePutType ==
  ASSUME NodedTypeOK, NEW n \in Nodes, NEW s \in ShardID,
         HandlePut(n, s) \/ PutFails(n, s)
  PROVE  NodedTypeOK'
  BY DEF NodedTypeOK, HandlePut, PutFails, Reachable

\* The placement an upload is about to record.
LEMMA NextPlacementType ==
  ASSUME PutTypeOK, PutShape, NEW f \in Files, put[f].pc = "upload"
  PROVE  /\ NextPlacement(f) \in ShardPlacement
         /\ NextPlacement(f).node \in Nodes
         /\ ShardOf(f, NextPlacement(f)) \in ShardID
<1>1. put[f].chunk \in Nat /\ put[f].chunk < ChunkCount[f] /\ put[f].next \in ShardIndex
  BY DEF PutTypeOK, PutState, PutShape
<1>2. put[f].chunk \in ChunkIndex
  BY <1>1, ChunkInRange
<1>3. put[f].nodes[put[f].next] \in Nodes
  BY <1>1 DEF PutShape
<1> QED
  BY <1>1, <1>2, <1>3 DEF NextPlacement, ShardPlacement, ShardOf, ShardID

-----------------------------------------------------------------------------
(* Types *)

\* The initial states are well typed.
LEMMA InitTypeInv == Init => TypeInv
<1> SUFFICES ASSUME Init PROVE TypeInv
  OBVIOUS
<1>1. TrackerTypeOK /\ NodedTypeOK /\ SweepTypeOK
  BY DEF Init, NewStore, NodedInit, SweepInit, TrackerTypeOK, NodedTypeOK, SweepTypeOK
<1>2. PutTypeOK /\ PutShape
  BY DEF Init, PutInit, PutTypeOK, PutState, PutShape
<1>3. GetTypeOK
  BY DEF Init, GetInit, GetTypeOK, GetState, NoGet
<1>4. RepairTypeOK /\ RepShape
  BY DEF Init, RepairInit, RepairTypeOK, PassState, RepShape, NoPass
<1> QED
  BY <1>1, <1>2, <1>3, <1>4 DEF TypeInv, TypeOK

\* Time passing keeps all types.
LEMMA ClockTypeInv == TypeInv /\ ClockNext => TypeInv'
  BY DEF TypeInv, TypeOK, ClockNext, Tick, TrackerTypeOK, NodedTypeOK, PutTypeOK, GetTypeOK,
         RepairTypeOK, SweepTypeOK, PutShape, RepShape, nodedVars, repairVars, sweepVars

\* A node that starts, listens, runs a late put or crashes keeps all types.
LEMMA NodedTypeInv == TypeInv /\ NodedNext => TypeInv'
<1> SUFFICES ASSUME TypeInv, NodedNext PROVE TypeInv'
  OBVIOUS
<1>1. LateRegister \/ \E n \in Nodes : StartNode(n) \/ Listen(n) \/ LateStore(n) \/ Crash(n)
  BY DEF NodedNext
<1>2. PutTypeOK' /\ GetTypeOK' /\ RepairTypeOK' /\ SweepTypeOK' /\ PutShape' /\ RepShape'
  BY DEF NodedNext, TypeInv, TypeOK, PutTypeOK, GetTypeOK, RepairTypeOK, SweepTypeOK,
         PutShape, RepShape, repairVars, sweepVars
<1>3. ASSUME NEW n \in Nodes
      PROVE  Registration(n) \in NodeWrite /\ Registration(n).rec \in NodeMetadata
  BY DEF TypeInv, TypeOK, TrackerTypeOK, Registration, NodeWrite, NodeMetadata
<1>4. TrackerTypeOK'
  <2>1. ASSUME NEW n \in Nodes, StartNode(n) PROVE TrackerTypeOK'
    <3>1. CASE RegisterNode(n, Registration(n).rec)
      BY <1>3, <2>1, <3>1, RegisterNodeType DEF TypeInv, TypeOK, StartNode
    <3>2. CASE UNCHANGED nodeTable
      BY <2>1, <3>2 DEF TypeInv, TypeOK, TrackerTypeOK, StartNode
    <3> QED
      BY <2>1, <3>1, <3>2 DEF StartNode
  <2>2. ASSUME NEW n \in Nodes, Listen(n) \/ LateStore(n) \/ Crash(n) PROVE TrackerTypeOK'
    BY <2>2 DEF Listen, LateStore, Crash, TypeInv, TypeOK, TrackerTypeOK, trackerVars
  <2>3. CASE LateRegister
    <3>1. PICK w \in late : RegisterNode(w.node, w.rec)
      BY <2>3 DEF LateRegister
    <3>2. w.node \in Nodes /\ w.rec \in NodeMetadata
      BY DEF TypeInv, TypeOK, NodedTypeOK, NodeWrite
    <3> QED
      BY <2>3, <3>1, <3>2, RegisterNodeType DEF LateRegister, TypeInv, TypeOK
  <2> QED
    BY <1>1, <2>1, <2>2, <2>3
<1>5. NodedTypeOK'
  <2> USE DEF TypeInv, TypeOK, NodedTypeOK
  <2>1. ASSUME NEW n \in Nodes, StartNode(n) PROVE NodedTypeOK'
    <3>1. late' \subseteq NodeWrite
      BY <1>3, <2>1 DEF StartNode
    <3> QED
      BY <2>1, <3>1 DEF StartNode
  <2>2. ASSUME NEW n \in Nodes, Listen(n) PROVE NodedTypeOK'
    BY <2>2 DEF Listen
  <2>3. ASSUME NEW n \in Nodes, LateStore(n) PROVE NodedTypeOK'
    BY <2>3 DEF LateStore
  <2>4. ASSUME NEW n \in Nodes, Crash(n) PROVE NodedTypeOK'
    BY <2>4 DEF Crash
  <2>5. CASE LateRegister
    BY <2>5 DEF LateRegister
  <2> QED
    BY <1>1, <2>1, <2>2, <2>3, <2>4, <2>5
<1> QED
  BY <1>2, <1>4, <1>5 DEF TypeInv, TypeOK

\* Every step of an upload keeps all types: an upload in its inner loop always
\* has the K + M nodes selected for the chunk and an index into them.
LEMMA PutTypeInv == TypeInv /\ PutNext => TypeInv'
<1> SUFFICES ASSUME TypeInv, PutNext PROVE TypeInv'
  OBVIOUS
<1>1. PICK f \in Files : PutBegin(f) \/ PutStep(f) \/ LateSave(f)
  BY DEF PutNext
<1>2. GetTypeOK' /\ RepairTypeOK' /\ SweepTypeOK' /\ RepShape'
  BY DEF PutNext, TypeInv, TypeOK, GetTypeOK, RepairTypeOK, SweepTypeOK, RepShape,
         repairVars, sweepVars
<1>3. put[f] \in PutState
  BY DEF TypeInv, TypeOK, PutTypeOK
\* It suffices that the new state of the command is well formed.
<1>4. ASSUME NEW s \in PutState, PutTo(f, s),
             s.pc = "upload" => /\ s.nodes \in [ShardIndex -> Nodes]
                                /\ s.next \in ShardIndex
                                /\ s.chunk < ChunkCount[f]
      PROVE  PutTypeOK' /\ PutShape'
  BY <1>4 DEF TypeInv, TypeOK, PutTypeOK, PutShape, PutTo
<1>5. CASE PutBegin(f) \/ PutSelectFails(f) \/ PutSaveFails(f)
  <2>1. PICK pc \in {"chunk", "failed", "abandoned"} : PutTo(f, [put[f] EXCEPT !.pc = pc])
    BY <1>5 DEF PutBegin, PutSelectFails, PutSaveFails
  <2>2. PutTypeOK' /\ PutShape'
    BY <2>1, <1>3, <1>4 DEF PutState
  <2>3. TrackerTypeOK' /\ NodedTypeOK'
    BY <1>5 DEF PutBegin, PutSelectFails, PutSaveFails, TypeInv, TypeOK, TrackerTypeOK,
                NodedTypeOK, trackerVars, nodedVars
  <2> QED
    BY <1>2, <2>2, <2>3 DEF TypeInv, TypeOK
<1>6. CASE PutSelect(f)
  <2>1. PICK s \in SelectPlacementNodes(K + M, 0) :
           PutTo(f, [put[f] EXCEPT !.pc = "upload", !.nodes = s, !.next = 0])
    BY <1>6 DEF PutSelect
  <2>2. s \in [ShardIndex -> Nodes] /\ 0 \in ShardIndex
    BY SelectionType, ShardsAssumption DEF TypeInv, TypeOK, ShardIndex
  <2>3. PutTypeOK' /\ PutShape'
    BY <1>6, <2>1, <2>2, <1>3, <1>4 DEF PutState, PutSelect
  <2>4. TrackerTypeOK' /\ NodedTypeOK'
    BY <1>6 DEF PutSelect, TypeInv, TypeOK, TrackerTypeOK, NodedTypeOK, trackerVars, nodedVars
  <2> QED
    BY <1>2, <2>3, <2>4 DEF TypeInv, TypeOK
<1>7. CASE PutUpload(f) \/ PutUploadFails(f)
  <2>1. put[f].pc = "upload"
    BY <1>7 DEF PutUpload, PutUploadFails
  <2>2. /\ NextPlacement(f) \in ShardPlacement
        /\ NextPlacement(f).node \in Nodes
        /\ ShardOf(f, NextPlacement(f)) \in ShardID
    BY <2>1, NextPlacementType DEF TypeInv, TypeOK
  <2>3. NodedTypeOK'
    BY <1>7, <2>2, HandlePutType DEF PutUpload, PutUploadFails, TypeInv, TypeOK
  <2>4. TrackerTypeOK'
    BY <1>7 DEF PutUpload, PutUploadFails, TypeInv, TypeOK, TrackerTypeOK, trackerVars
  <2>5. PutTypeOK' /\ PutShape'
    <3>1. CASE PutUploadFails(f)
      BY <3>1, <1>3, <1>4 DEF PutUploadFails, PutState
    <3>2. CASE PutUpload(f) /\ put[f].next + 1 < K + M
      <4>1. /\ put[f].next + 1 \in ShardIndex
            /\ put[f].nodes \in [ShardIndex -> Nodes]
            /\ put[f].chunk < ChunkCount[f]
        BY <3>2, <2>1, ShardsAssumption DEF TypeInv, PutShape, ShardIndex
      <4> DEFINE s == [put[f] EXCEPT !.next = @ + 1,
                                     !.placed = put[f].placed \cup {NextPlacement(f)}]
      <4>2. PutTo(f, s)
        BY <3>2 DEF PutUpload, Advance
      <4>3. /\ put[f].next + 1 \in Nat
            /\ put[f].placed \cup {NextPlacement(f)} \in SUBSET ShardPlacement
        BY <2>2, <1>3 DEF PutState
      <4>4. s \in PutState
        BY <4>3, <1>3 DEF PutState
      <4>5. s.nodes = put[f].nodes /\ s.next = put[f].next + 1 /\ s.chunk = put[f].chunk
        BY <1>3 DEF PutState
      <4> HIDE DEF s
      <4> QED
        BY <4>1, <4>2, <4>4, <4>5, <1>4
    <3>3. CASE PutUpload(f) /\ ~(put[f].next + 1 < K + M)
      <4>1. PutTo(f, [pc |-> "chunk", chunk |-> put[f].chunk + 1, nodes |-> <<>>, next |-> 0,
                      placed |-> put[f].placed \cup {NextPlacement(f)}])
        BY <3>3 DEF PutUpload, Advance
      <4>2. <<>> \in [ShardIndex -> Nodes] \cup {<<>>}
        OBVIOUS
      <4>3. put[f].chunk + 1 \in Nat /\ put[f].placed \cup {NextPlacement(f)} \in SUBSET ShardPlacement
        BY <2>2, <1>3 DEF PutState
      <4>4. [pc |-> "chunk", chunk |-> put[f].chunk + 1, nodes |-> <<>>, next |-> 0,
             placed |-> put[f].placed \cup {NextPlacement(f)}] \in PutState
        BY <4>2, <4>3 DEF PutState
      <4> QED
        BY <4>1, <4>4, <1>4
    <3> QED
      BY <1>7, <3>1, <3>2, <3>3
  <2> QED
    BY <1>2, <2>3, <2>4, <2>5 DEF TypeInv, TypeOK
<1>8. CASE PutSave(f) \/ LateSave(f)
  <2>1. PICK pc \in {"done", "failed"} : PutTo(f, [put[f] EXCEPT !.pc = pc])
    BY <1>8 DEF PutSave, LateSave
  <2>2. PutTypeOK' /\ PutShape'
    BY <2>1, <1>3, <1>4 DEF PutState
  <2>3. TrackerTypeOK'
    BY <1>8, <1>3, SaveFilePlacementType DEF PutSave, LateSave, TypeInv, TypeOK, PutState
  <2>4. NodedTypeOK'
    BY <1>8 DEF PutSave, LateSave, TypeInv, TypeOK, NodedTypeOK, nodedVars
  <2> QED
    BY <1>2, <2>2, <2>3, <2>4 DEF TypeInv, TypeOK
<1> QED
  BY <1>1, <1>5, <1>6, <1>7, <1>8 DEF PutStep

\* Every step of a download keeps all types.
LEMMA GetTypeInv == TypeInv /\ GetNext => TypeInv'
<1> SUFFICES ASSUME TypeInv, GetNext PROVE TypeInv'
  OBVIOUS
<1>1. PICK r \in Readers : GetStep(r) \/ \E f \in Files : GetBegin(r, f)
  BY DEF GetNext
<1>2. trackerVars' = trackerVars /\ nodedVars' = nodedVars
  BY <1>1 DEF GetStep, GetBegin, GetNodes, GetChunk, GetFetch, GetReconstruct, GetFinish
<1>3. /\ TrackerTypeOK' /\ NodedTypeOK' /\ PutTypeOK' /\ RepairTypeOK' /\ SweepTypeOK'
      /\ PutShape' /\ RepShape'
  BY <1>2 DEF GetNext, TypeInv, TypeOK, TrackerTypeOK, NodedTypeOK, PutTypeOK, RepairTypeOK,
              SweepTypeOK, PutShape, RepShape, trackerVars, nodedVars, repairVars, sweepVars
<1>4. get[r] \in GetState
  BY DEF TypeInv, TypeOK, GetTypeOK
<1>5. SUFFICES \E s \in GetState : GetTo(r, s)
  BY <1>3 DEF TypeInv, TypeOK, GetTypeOK, GetTo
<1>6. ASSUME NEW f \in Files, GetBegin(r, f) PROVE \E s \in GetState : GetTo(r, s)
  <2>1. FileFound(f) => GetFilePlacement(f) \in SUBSET ShardPlacement
    BY DEF TypeInv, TypeOK, TrackerTypeOK, FileFound, GetFilePlacement
  <2> QED
    BY <1>4, <1>6, <2>1 DEF GetBegin, GetState
<1>7. CASE GetNodes(r)
  <2>1. DOMAIN nodeTable \in SUBSET Nodes
    BY DEF TypeInv, TypeOK, TrackerTypeOK
  <2>2. {p.chunk : p \in get[r].placements} \in SUBSET ChunkIndex
    BY <1>4 DEF GetState, ShardPlacement
  <2> QED
    BY <1>4, <1>7, <2>1, <2>2 DEF GetNodes, GetState
<1>8. CASE GetChunk(r)
  <2>1. PICK c \in get[r].todo :
           GetTo(r, [get[r] EXCEPT !.pc = "fetch", !.chunk = c, !.todo = @ \ {c},
                                   !.group = Group(get[r].placements, c),
                                   !.got = {}, !.missed = {}])
    BY <1>8 DEF GetChunk
  <2>2. c \in Nat
    BY <1>4, ChunkAssumption DEF GetState, ChunkIndex, Chunks
  <2>3. Group(get[r].placements, c) \in SUBSET ShardPlacement
    BY <1>4 DEF GetState, Group
  <2> QED
    BY <1>4, <2>1, <2>2, <2>3 DEF GetState
<1>9. CASE GetFetch(r)
  <2>1. PICK p \in get[r].group :
           \/ GetTo(r, [get[r] EXCEPT !.group = @ \ {p}, !.got = @ \cup {p.shard}])
           \/ GetTo(r, [get[r] EXCEPT !.group = @ \ {p}, !.missed = @ \cup {p.node}])
    BY <1>9 DEF GetFetch
  <2>2. p.shard \in ShardIndex /\ p.node \in Nodes
    BY <1>4 DEF GetState, ShardPlacement
  <2> QED
    BY <1>4, <2>1, <2>2 DEF GetState
<1>10. CASE GetReconstruct(r)
  BY <1>4, <1>10 DEF GetReconstruct, GetState
<1>11. CASE GetFinish(r)
  BY <1>4, <1>11 DEF GetFinish, GetState
<1> QED
  BY <1>1, <1>6, <1>7, <1>8, <1>9, <1>10, <1>11 DEF GetStep

\* Every step of a liveness sweep keeps all types.
LEMMA SweepTypeInv == TypeInv /\ SweepNext => TypeInv'
<1> SUFFICES ASSUME TypeInv, SweepNext PROVE TypeInv'
  OBVIOUS
<1>1. PutTypeOK' /\ GetTypeOK' /\ RepairTypeOK' /\ NodedTypeOK' /\ PutShape' /\ RepShape'
  BY DEF SweepNext, SweepBegin, SweepWrite, SweepFails, TypeInv, TypeOK, PutTypeOK, GetTypeOK,
         RepairTypeOK, NodedTypeOK, PutShape, RepShape, repairVars, nodedVars
<1>2. CASE SweepBegin
  <2>1. \A n \in DOMAIN nodeTable : Judged(nodeTable[n]) \in NodeMetadata
    BY DEF TypeInv, TypeOK, TrackerTypeOK, NodeMetadata, Judged
  <2>2. SweepTypeOK'
    BY <1>2, <2>1 DEF SweepBegin, SweepTypeOK, TypeInv, TypeOK, TrackerTypeOK, NodeWrite
  <2>3. TrackerTypeOK'
    BY <1>2 DEF SweepBegin, TypeInv, TypeOK, TrackerTypeOK, trackerVars
  <2> QED
    BY <1>1, <2>2, <2>3 DEF TypeInv, TypeOK
<1>3. CASE SweepWrite
  <2>1. PICK w \in sweep : RegisterNode(w.node, w.rec) /\ sweep' = sweep \ {w}
    BY <1>3 DEF SweepWrite
  <2>2. w.node \in Nodes /\ w.rec \in NodeMetadata
    BY DEF TypeInv, TypeOK, SweepTypeOK, NodeWrite
  <2>3. TrackerTypeOK'
    BY <1>3, <2>1, <2>2, RegisterNodeType DEF SweepWrite, TypeInv, TypeOK
  <2>4. SweepTypeOK'
    BY <1>3, <2>1 DEF SweepWrite, SweepTypeOK, TypeInv, TypeOK
  <2> QED
    BY <1>1, <2>3, <2>4 DEF TypeInv, TypeOK
<1>4. CASE SweepFails
  BY <1>1, <1>4 DEF SweepFails, SweepTypeOK, TypeInv, TypeOK, TrackerTypeOK, trackerVars
<1> QED
  BY <1>2, <1>3, <1>4 DEF SweepNext

\* The type part of a step of a pass: the tracker and the nodes stay well
\* formed, and the pass gets a well-formed new state.
PassStepOK(r, s) == /\ s \in PassState
                    /\ s.pc \in {"chunks", "fetch", "place", "upload"} => s.file \in Files
                    /\ s.pc = "upload" => s.target \in Nodes
                    /\ PassTo(r, s)

\* The state between two passes is well typed.
LEMMA NoPassType == NoPass \in PassState /\ NoPass.pc = "idle" /\ NoPass.updated = {}
  BY DEF NoPass, PassState

\* A moved placement is a placement.
LEMMA MovedType ==
  ASSUME NEW r \in Repairers, rep[r] \in PassState, rep[r].target \in Nodes,
         NEW p \in rep[r].place
  PROVE  /\ Moved(r, p) \in PassState
         /\ Moved(r, p).pc \in {"chunks", "place"}
         /\ Moved(r, p).file = rep[r].file
         /\ Moved(r, p).updated = (rep[r].updated \ {p}) \cup {[p EXCEPT !.node = rep[r].target]}
<1>1. [p EXCEPT !.node = rep[r].target] \in ShardPlacement
  BY DEF PassState, ShardPlacement
<1>2. (rep[r].updated \ {p}) \cup {[p EXCEPT !.node = rep[r].target]} \in SUBSET ShardPlacement
  BY <1>1 DEF PassState
<1> QED
  BY <1>2 DEF Moved, PassState

\* Every step of a repair pass keeps all types: a pass only handles files that
\* the tracker knows, and uploads only to nodes.
LEMMA RepairTypeInv == TypeInv /\ RepFiles /\ RepairNext => TypeInv'
<1> SUFFICES ASSUME TypeInv, RepFiles, RepairNext PROVE TypeInv'
  OBVIOUS
<1>1. PICK r \in Repairers : RepairBegin(r) \/ RepairStep(r) \/ RepairInterrupted(r)
  BY DEF RepairNext
<1>2. PutTypeOK' /\ GetTypeOK' /\ SweepTypeOK' /\ PutShape'
  BY DEF RepairNext, TypeInv, TypeOK, PutTypeOK, GetTypeOK, SweepTypeOK, PutShape, sweepVars
<1>3. /\ rep[r] \in PassState
      /\ rep[r].pc \in {"chunks", "fetch", "place", "upload"} => rep[r].file \in Files
      /\ rep[r].pc = "upload" => rep[r].target \in Nodes
  BY DEF TypeInv, TypeOK, RepairTypeOK, RepShape
<1>4. passes' \in Nat
  <2>1. CASE RepairBegin(r)
    BY <2>1 DEF TypeInv, TypeOK, RepairTypeOK, RepairBegin
  <2>2. CASE RepairMark(r) \/ RepairListFiles(r) \/ RepairFile(r) \/ RepairEnd(r) \/ RepairChunk(r)
    BY <2>2 DEF TypeInv, TypeOK, RepairTypeOK, RepairMark, RepairListFiles, RepairFile, RepairEnd,
                RepairChunk
  <2>3. CASE \/ RepairFetch(r) \/ RepairReconstruct(r) \/ RepairSelect(r)
             \/ RepairInterrupted(r)
    BY <2>3 DEF TypeInv, TypeOK, RepairTypeOK, RepairFetch, RepairReconstruct, RepairSelect,
                RepairInterrupted
  <2>4. CASE RepairUpload(r) \/ RepairUploadFails(r) \/ RepairSave(r)
    BY <2>4 DEF TypeInv, TypeOK, RepairTypeOK, RepairUpload, RepairUploadFails, RepairSave
  <2> QED
    BY <1>1, <2>1, <2>2, <2>3, <2>4 DEF RepairStep
<1>5. ASSUME NEW s, PassStepOK(r, s) PROVE RepairTypeOK' /\ RepShape'
  BY <1>4, <1>5 DEF PassStepOK, PassTo, TypeInv, TypeOK, RepairTypeOK, RepShape
<1>6. SUFFICES TrackerTypeOK' /\ NodedTypeOK' /\ \E s : PassStepOK(r, s)
  BY <1>2, <1>5 DEF TypeInv, TypeOK
<1>7. ASSUME trackerVars' = trackerVars, nodedVars' = nodedVars
      PROVE  TrackerTypeOK' /\ NodedTypeOK'
  BY <1>7 DEF TypeInv, TypeOK, TrackerTypeOK, NodedTypeOK, trackerVars, nodedVars
<1>8. ASSUME EndPass(r) PROVE \E s : PassStepOK(r, s)
  BY <1>8, NoPassType DEF EndPass, PassStepOK
<1>9. CASE RepairBegin(r)
  <2> DEFINE bad == {n \in DOMAIN nodeTable : Overdue(nodeTable[n])}
             marks == {[node |-> n, rec |-> MarkUnhealthy(nodeTable[n])] : n \in bad}
             s == [NoPass EXCEPT !.pc = "mark", !.snap = DOMAIN nodeTable,
                                 !.unhealthy = bad, !.marks = marks]
  <2>1. DOMAIN nodeTable \in SUBSET Nodes /\ bad \in SUBSET Nodes
    BY DEF TypeInv, TypeOK, TrackerTypeOK
  <2>2. marks \in SUBSET NodeWrite
    <3>1. ASSUME NEW n \in bad PROVE MarkUnhealthy(nodeTable[n]) \in NodeMetadata
      BY DEF TypeInv, TypeOK, TrackerTypeOK, NodeMetadata, MarkUnhealthy
    <3>2. ASSUME NEW n \in bad
          PROVE  [node |-> n, rec |-> MarkUnhealthy(nodeTable[n])] \in NodeWrite
      BY <2>1, <3>1 DEF NodeWrite
    <3> QED
      BY <3>2
  <2> HIDE DEF bad, marks
  <2>3. PassTo(r, s) => PassStepOK(r, s)
    BY <2>1, <2>2, NoPassType DEF PassStepOK, PassState
  <2>4. PassTo(r, NoPass) \/ PassTo(r, s)
    BY <1>9 DEF RepairBegin, bad, marks
  <2> QED
    BY <1>9, <1>7, <1>8, <2>3, <2>4 DEF RepairBegin, EndPass
<1>10. CASE RepairMark(r)
  <2>1. PICK m \in rep[r].marks :
           /\ PassTo(r, [rep[r] EXCEPT !.marks = @ \ {m}])
           /\ RegisterNode(m.node, m.rec) \/ UNCHANGED nodeTable
    BY <1>10 DEF RepairMark
  <2>2. m.node \in Nodes /\ m.rec \in NodeMetadata
    BY <1>3 DEF PassState, NodeWrite
  <2>3. TrackerTypeOK'
    BY <1>10, <2>1, <2>2, RegisterNodeType DEF RepairMark, TypeInv, TypeOK, TrackerTypeOK
  <2>4. NodedTypeOK'
    BY <1>10 DEF RepairMark, TypeInv, TypeOK, NodedTypeOK, nodedVars
  <2>5. PassStepOK(r, [rep[r] EXCEPT !.marks = @ \ {m}])
    BY <1>3, <2>1 DEF PassStepOK, PassState
  <2> QED
    BY <2>3, <2>4, <2>5
<1>11. CASE RepairListFiles(r)
  <2>1. ListFiles \in SUBSET Files
    BY DEF TypeInv, TypeOK, TrackerTypeOK, ListFiles
  <2>2. PassStepOK(r, [rep[r] EXCEPT !.pc = "files", !.files = ListFiles])
    BY <1>3, <1>11, <2>1 DEF RepairListFiles, PassStepOK, PassState
  <2> QED
    BY <1>7, <1>11, <2>2 DEF RepairListFiles
<1>12. CASE RepairFile(r)
  <2>1. PICK f \in rep[r].files :
           \/ PassTo(r, [rep[r] EXCEPT
                           !.pc = "chunks", !.file = f, !.files = @ \ {f},
                           !.updated = GetFilePlacement(f), !.dirty = FALSE,
                           !.chunks = {p.chunk : p \in {q \in GetFilePlacement(f) :
                                                          q.node \in rep[r].unhealthy}}])
           \/ PassTo(r, [rep[r] EXCEPT !.files = @ \ {f}])
    BY <1>12 DEF RepairFile
  <2>2. f \in Files
    BY <1>3 DEF PassState
  <2>3. GetFilePlacement(f) \in SUBSET ShardPlacement
    BY DEF TypeInv, TypeOK, TrackerTypeOK, RepFiles, GetFilePlacement
  <2>4. {p.chunk : p \in {q \in GetFilePlacement(f) : q.node \in rep[r].unhealthy}}
           \in SUBSET ChunkIndex
    BY <2>3 DEF ShardPlacement
  <2> DEFINE opened == [rep[r] EXCEPT
                          !.pc = "chunks", !.file = f, !.files = @ \ {f},
                          !.updated = GetFilePlacement(f), !.dirty = FALSE,
                          !.chunks = {p.chunk : p \in {q \in GetFilePlacement(f) :
                                                         q.node \in rep[r].unhealthy}}]
             skipped == [rep[r] EXCEPT !.files = @ \ {f}]
  <2>5. opened \in PassState /\ opened.file \in Files /\ opened.pc = "chunks"
    BY <1>3, <2>2, <2>3, <2>4 DEF PassState
  <2>6. skipped \in PassState /\ skipped.pc = "files"
    BY <1>3, <1>12 DEF PassState, RepairFile
  <2>7. PassTo(r, opened) \/ PassTo(r, skipped)
    BY <2>1
  <2> HIDE DEF opened, skipped
  <2>8. \E s : PassStepOK(r, s)
    BY <2>5, <2>6, <2>7 DEF PassStepOK
  <2> QED
    BY <1>7, <1>12, <2>8 DEF RepairFile
<1>13. CASE RepairChunk(r)
  <2>1. PICK c \in rep[r].chunks :
           PassTo(r, [rep[r] EXCEPT !.pc = "fetch", !.chunk = c, !.chunks = @ \ {c},
                                    !.fetch = OnHealthy(r, c), !.got = {}])
    BY <1>13 DEF RepairChunk
  <2>2. c \in Nat
    BY <1>3, ChunkAssumption DEF PassState, ChunkIndex, Chunks
  <2>3. OnHealthy(r, c) \in SUBSET ShardPlacement
    BY <1>3 DEF PassState, OnHealthy
  <2>4. \E s : PassStepOK(r, s)
    BY <1>3, <1>13, <2>1, <2>2, <2>3 DEF RepairChunk, PassStepOK, PassState
  <2> QED
    BY <1>7, <1>13, <2>4 DEF RepairChunk
<1>14. CASE RepairFetch(r)
  <2>1. PICK p \in rep[r].fetch :
           \/ PassTo(r, [rep[r] EXCEPT !.fetch = @ \ {p}, !.got = @ \cup {p.shard}])
           \/ PassTo(r, [rep[r] EXCEPT !.fetch = @ \ {p}])
    BY <1>14 DEF RepairFetch
  <2>2. p.shard \in ShardIndex
    BY <1>3 DEF PassState, ShardPlacement
  <2>3. \E s : PassStepOK(r, s)
    BY <1>3, <1>14, <2>1, <2>2 DEF RepairFetch, PassStepOK, PassState
  <2> QED
    BY <1>7, <1>14, <2>3 DEF RepairFetch
<1>15. CASE RepairReconstruct(r)
  <2>1. OnUnhealthy(r, rep[r].chunk) \in SUBSET ShardPlacement
    BY <1>3 DEF PassState, OnUnhealthy
  <2>2. CASE PassTo(r, [rep[r] EXCEPT !.pc = "place", !.place = OnUnhealthy(r, rep[r].chunk)])
    <3>1. \E s : PassStepOK(r, s)
      BY <1>3, <1>15, <2>1, <2>2 DEF RepairReconstruct, PassStepOK, PassState
    <3> QED
      BY <1>7, <1>15, <3>1 DEF RepairReconstruct
  <2>3. CASE EndPass(r)
    BY <1>7, <1>8, <1>15, <2>3 DEF RepairReconstruct
  <2> QED
    BY <1>15, <2>2, <2>3 DEF RepairReconstruct
<1>16. CASE RepairSelect(r)
  <2>1. ASSUME NEW s \in SelectPlacementNodes(1, 0),
               PassTo(r, [rep[r] EXCEPT !.pc = "upload", !.target = s[0]])
        PROVE  \E t : PassStepOK(r, t)
    <3>1. s \in [0 .. 1 - 1 -> Nodes]
      BY SelectionType DEF TypeInv, TypeOK
    <3>2. s[0] \in Nodes
      BY <3>1
    <3> QED
      BY <1>3, <1>16, <2>1, <3>2 DEF RepairSelect, PassStepOK, PassState
  <2> QED
    BY <1>7, <1>8, <1>16, <2>1 DEF RepairSelect
<1>17. CASE RepairUpload(r) \/ RepairUploadFails(r)
  <2>1. PICK p \in rep[r].place :
           \/ /\ HandlePut(rep[r].target, ShardOf(rep[r].file, p))
              /\ PassTo(r, Moved(r, p))
           \/ PutFails(rep[r].target, ShardOf(rep[r].file, p)) /\ EndPass(r)
    BY <1>17 DEF RepairUpload, RepairUploadFails
  <2>2. rep[r].file \in Files /\ rep[r].target \in Nodes
    BY <1>3, <1>17 DEF RepairUpload, RepairUploadFails
  <2>3. ShardOf(rep[r].file, p) \in ShardID
    BY <1>3, <2>2 DEF PassState, ShardPlacement, ShardOf, ShardID
  <2>4. NodedTypeOK'
    BY <2>1, <2>2, <2>3, HandlePutType DEF TypeInv, TypeOK
  <2>5. TrackerTypeOK'
    BY <1>17 DEF RepairUpload, RepairUploadFails, TypeInv, TypeOK, TrackerTypeOK, trackerVars
  <2>6. PassTo(r, Moved(r, p)) => PassStepOK(r, Moved(r, p))
    BY <1>3, <2>2, MovedType DEF PassStepOK
  <2> QED
    BY <1>8, <2>1, <2>4, <2>5, <2>6
<1>18. CASE RepairSave(r)
  <2>1. TrackerTypeOK'
    BY <1>3, <1>18, SaveFilePlacementType DEF RepairSave, PassState, TypeInv, TypeOK, TrackerTypeOK
  <2>2. NodedTypeOK'
    BY <1>18 DEF RepairSave, TypeInv, TypeOK, NodedTypeOK, nodedVars
  <2>3. PassStepOK(r, [rep[r] EXCEPT !.pc = "files", !.visited = @ \cup {rep[r].file},
                                     !.file = "none", !.updated = {}])
    BY <1>3, <1>18 DEF RepairSave, PassStepOK, PassState
  <2> QED
    BY <2>1, <2>2, <2>3
<1>19. CASE RepairEnd(r) \/ RepairInterrupted(r)
  BY <1>7, <1>8, <1>19 DEF RepairEnd, RepairInterrupted
<1> QED
  BY <1>1, <1>9, <1>10, <1>11, <1>12, <1>13, <1>14, <1>15, <1>16, <1>17, <1>18, <1>19
     DEF RepairStep

-----------------------------------------------------------------------------
(* What never shrinks *)

\* No step removes a file from the tracker.
LEMMA FilesGrow == Next => DOMAIN fileTable \subseteq DOMAIN fileTable'
<1> SUFFICES ASSUME Next PROVE DOMAIN fileTable \subseteq DOMAIN fileTable'
  OBVIOUS
<1>1. CASE ClockNext \/ NodedNext
  BY <1>1 DEF ClockNext, Tick, NodedNext, StartNode, LateRegister, Listen, LateStore, Crash, trackerVars
<1>2. CASE PutNext
  BY <1>2 DEF PutNext, PutBegin, PutStep, PutSelect, PutSelectFails, PutUpload, PutUploadFails,
              PutSave, PutSaveFails, LateSave, SaveFilePlacement, trackerVars
<1>3. CASE GetNext
  BY <1>3 DEF GetNext, GetStep, GetBegin, GetNodes, GetChunk, GetFetch, GetReconstruct,
              GetFinish, trackerVars
<1>4. CASE RepairNext
  BY <1>4 DEF RepairNext, RepairBegin, RepairStep, RepairInterrupted, RepairMark,
              RepairListFiles, RepairFile, RepairEnd, RepairChunk, RepairFetch,
              RepairReconstruct, RepairSelect, RepairUpload, RepairUploadFails, RepairSave,
              SaveFilePlacement, trackerVars
<1>5. CASE SweepNext
  BY <1>5 DEF SweepNext, SweepBegin, SweepWrite, SweepFails, trackerVars
<1> QED
  BY <1>1, <1>2, <1>3, <1>4, <1>5 DEF Next

\* No step removes a shard from a node's disk.
LEMMA StoredGrows ==
  ASSUME TypeOK, Next PROVE \A n \in Nodes : stored[n] \subseteq stored'[n]
<1> USE DEF TypeOK, NodedTypeOK
<1>1. CASE ClockNext
  BY <1>1 DEF ClockNext, nodedVars
<1>2. CASE NodedNext
  BY <1>2 DEF NodedNext, StartNode, LateRegister, Listen, LateStore, Crash
<1>3. CASE PutNext
  BY <1>3 DEF PutNext, PutBegin, PutStep, PutSelect, PutSelectFails, PutUpload, PutUploadFails,
              PutSave, PutSaveFails, LateSave, HandlePut, PutFails, nodedVars
<1>4. CASE GetNext
  BY <1>4 DEF GetNext, GetStep, GetBegin, GetNodes, GetChunk, GetFetch, GetReconstruct,
              GetFinish, nodedVars
<1>5. CASE RepairNext
  <2>1. \/ \E r \in Repairers : RepairUpload(r) \/ RepairUploadFails(r)
        \/ UNCHANGED stored
    BY <1>5 DEF RepairNext, RepairBegin, RepairStep, RepairInterrupted, RepairMark,
                RepairListFiles, RepairFile, RepairEnd, RepairChunk, RepairFetch,
                RepairReconstruct, RepairSelect, RepairSave, nodedVars
  <2> QED
    BY <2>1 DEF RepairUpload, RepairUploadFails, HandlePut, PutFails, nodedVars
<1>6. CASE SweepNext
  BY <1>6 DEF SweepNext, SweepBegin, SweepWrite, SweepFails, nodedVars
<1> QED
  BY <1>1, <1>2, <1>3, <1>4, <1>5, <1>6 DEF Next

-----------------------------------------------------------------------------
(* What a step of a pass does to the placements it works on *)

\* The list is given up, kept, read from the tracker, or one entry of it is
\* redirected to a node that has just stored the shard.
UpdatedStep(r, s) ==
    \/ s.updated = {}
    \/ s.updated = rep[r].updated /\ s.file = rep[r].file
    \/ \E f \in rep[r].files : s.file = f /\ s.updated = fileTable[f]
    \/ /\ s.file = rep[r].file
       /\ rep[r].target \in Nodes
       /\ \E p \in rep[r].place :
             /\ s.updated = (rep[r].updated \ {p}) \cup {[p EXCEPT !.node = rep[r].target]}
             /\ ShardOf(rep[r].file, p) \in stored'[rep[r].target]

FilesStep(r, s) == s.files \subseteq rep[r].files \/ s.files = DOMAIN fileTable

\* The other passes do not move.
OthersKept(r) == \A q \in Repairers \ {r} : rep'[q] = rep[q]

\* What a step of a pass does to its list of placements and to its list of
\* files; the other passes are left alone.
LEMMA RepairSummary ==
  ASSUME TypeInv, NEW r \in Repairers, RepairBegin(r) \/ RepairStep(r) \/ RepairInterrupted(r)
  PROVE  OthersKept(r) /\ UpdatedStep(r, rep'[r]) /\ FilesStep(r, rep'[r])
<1>1. /\ rep \in [Repairers -> PassState]
      /\ rep[r] \in PassState
      /\ rep[r].pc = "upload" => rep[r].target \in Nodes
  BY DEF TypeInv, TypeOK, RepairTypeOK, RepShape
<1>2. ASSUME NEW s, PassTo(r, s) PROVE rep'[r] = s /\ OthersKept(r)
  BY <1>1, <1>2 DEF PassTo, OthersKept
<1>3. ASSUME EndPass(r)
      PROVE  OthersKept(r) /\ rep'[r].updated = {} /\ rep'[r].files = {}
  BY <1>2, <1>3 DEF EndPass, NoPass
<1>4. CASE EndPass(r)
  BY <1>3, <1>4 DEF UpdatedStep, FilesStep
<1>5. CASE RepairBegin(r) /\ ~EndPass(r)
  <2>1. PICK pc, snap, bad, marks :
           PassTo(r, [NoPass EXCEPT !.pc = pc, !.snap = snap, !.unhealthy = bad, !.marks = marks])
    BY <1>5 DEF RepairBegin, EndPass
  <2>2. OthersKept(r) /\ rep'[r].updated = {} /\ rep'[r].files = {}
    BY <1>1, <2>1 DEF NoPass, PassTo, OthersKept
  <2> QED
    BY <2>2 DEF UpdatedStep, FilesStep
<1>6. CASE RepairMark(r) \/ RepairListFiles(r) \/ RepairChunk(r) \/ RepairFetch(r)
  <2>1. /\ OthersKept(r)
        /\ rep'[r].updated = rep[r].updated /\ rep'[r].file = rep[r].file
        /\ rep'[r].files = rep[r].files \/ rep'[r].files = DOMAIN fileTable
    <3>1. CASE RepairMark(r)
      BY <1>1, <3>1 DEF RepairMark, PassTo, OthersKept, PassState
    <3>2. CASE RepairListFiles(r)
      BY <1>1, <3>2 DEF RepairListFiles, ListFiles, PassTo, OthersKept, PassState
    <3>3. CASE RepairChunk(r)
      BY <1>1, <3>3 DEF RepairChunk, PassTo, OthersKept, PassState
    <3>4. CASE RepairFetch(r)
      <4>1. PICK p \in rep[r].fetch :
               \/ PassTo(r, [rep[r] EXCEPT !.fetch = @ \ {p}, !.got = @ \cup {p.shard}])
               \/ PassTo(r, [rep[r] EXCEPT !.fetch = @ \ {p}])
        BY <3>4 DEF RepairFetch
      <4>2. CASE PassTo(r, [rep[r] EXCEPT !.fetch = @ \ {p}, !.got = @ \cup {p.shard}])
        BY <1>1, <4>2 DEF PassTo, OthersKept, PassState
      <4>3. CASE PassTo(r, [rep[r] EXCEPT !.fetch = @ \ {p}])
        BY <1>1, <4>3 DEF PassTo, OthersKept, PassState
      <4> QED
        BY <4>1, <4>2, <4>3
    <3> QED
      BY <1>6, <3>1, <3>2, <3>3, <3>4
  <2> QED
    BY <2>1 DEF UpdatedStep, FilesStep
<1>7. CASE (RepairReconstruct(r) \/ RepairSelect(r)) /\ ~EndPass(r)
  <2>1. \/ \E ps : PassTo(r, [rep[r] EXCEPT !.pc = "place", !.place = ps])
        \/ \E n : PassTo(r, [rep[r] EXCEPT !.pc = "upload", !.target = n])
    BY <1>7 DEF RepairReconstruct, RepairSelect
  <2>2. /\ OthersKept(r)
        /\ rep'[r].updated = rep[r].updated /\ rep'[r].file = rep[r].file
        /\ rep'[r].files = rep[r].files
    <3>1. ASSUME NEW ps, PassTo(r, [rep[r] EXCEPT !.pc = "place", !.place = ps])
          PROVE  /\ OthersKept(r)
                 /\ rep'[r].updated = rep[r].updated /\ rep'[r].file = rep[r].file
                 /\ rep'[r].files = rep[r].files
      BY <1>1, <3>1 DEF PassTo, OthersKept, PassState
    <3>2. ASSUME NEW n, PassTo(r, [rep[r] EXCEPT !.pc = "upload", !.target = n])
          PROVE  /\ OthersKept(r)
                 /\ rep'[r].updated = rep[r].updated /\ rep'[r].file = rep[r].file
                 /\ rep'[r].files = rep[r].files
      BY <1>1, <3>2 DEF PassTo, OthersKept, PassState
    <3> QED
      BY <2>1, <3>1, <3>2
  <2> QED
    BY <2>2 DEF UpdatedStep, FilesStep
<1>8. CASE RepairFile(r)
  <2>1. PICK f \in rep[r].files :
           \/ \E cs : PassTo(r, [rep[r] EXCEPT
                           !.pc = "chunks", !.file = f, !.files = @ \ {f},
                           !.updated = fileTable[f], !.dirty = FALSE, !.chunks = cs])
           \/ PassTo(r, [rep[r] EXCEPT !.files = @ \ {f}])
    BY <1>8 DEF RepairFile, GetFilePlacement
  <2>2. /\ OthersKept(r)
        /\ rep'[r].files = rep[r].files \ {f}
        /\ \/ rep'[r].file = f /\ rep'[r].updated = fileTable[f]
           \/ rep'[r].file = rep[r].file /\ rep'[r].updated = rep[r].updated
    <3>1. CASE PassTo(r, [rep[r] EXCEPT !.files = @ \ {f}])
      BY <1>1, <3>1 DEF PassTo, OthersKept, PassState
    <3>2. ASSUME NEW cs, PassTo(r, [rep[r] EXCEPT
                                      !.pc = "chunks", !.file = f, !.files = @ \ {f},
                                      !.updated = fileTable[f], !.dirty = FALSE, !.chunks = cs])
          PROVE  /\ OthersKept(r)
                 /\ rep'[r].files = rep[r].files \ {f}
                 /\ rep'[r].file = f /\ rep'[r].updated = fileTable[f]
      BY <1>1, <3>2 DEF PassTo, OthersKept, PassState
    <3> QED
      BY <2>1, <3>1, <3>2
  <2> QED
    BY <2>2 DEF UpdatedStep, FilesStep
<1>9. CASE RepairUpload(r)
  <2>1. PICK p \in rep[r].place :
           HandlePut(rep[r].target, ShardOf(rep[r].file, p)) /\ PassTo(r, Moved(r, p))
    BY <1>9 DEF RepairUpload
  <2>2. rep[r].target \in Nodes
    BY <1>1, <1>9 DEF RepairUpload
  <2>3. ShardOf(rep[r].file, p) \in stored'[rep[r].target]
    BY <2>1, <2>2 DEF HandlePut, TypeInv, TypeOK, NodedTypeOK
  <2>4. /\ Moved(r, p).file = rep[r].file
        /\ Moved(r, p).updated = (rep[r].updated \ {p}) \cup {[p EXCEPT !.node = rep[r].target]}
    BY <1>1, <2>2, MovedType
  <2>5. Moved(r, p).files = rep[r].files
    BY <1>1 DEF Moved, PassState
  <2>6. rep'[r] = Moved(r, p) /\ OthersKept(r)
    BY <1>2, <2>1
  <2> QED
    BY <2>2, <2>3, <2>4, <2>5, <2>6 DEF UpdatedStep, FilesStep
<1>10. CASE RepairSave(r)
  <2>1. OthersKept(r) /\ rep'[r].updated = {} /\ rep'[r].files = rep[r].files
    BY <1>1, <1>10 DEF RepairSave, PassState, PassTo, OthersKept
  <2> QED
    BY <2>1 DEF UpdatedStep, FilesStep
<1>11. CASE RepairEnd(r) \/ RepairUploadFails(r) \/ RepairInterrupted(r)
  BY <1>4, <1>11 DEF RepairEnd, RepairUploadFails, RepairInterrupted
<1> QED
  BY <1>4, <1>5, <1>6, <1>7, <1>8, <1>9, <1>10, <1>11 DEF RepairStep

\* The files a pass still has to visit stay in the table: no file is removed.
LEMMA RepFilesInv == TypeInv /\ RepFiles /\ Next => RepFiles'
<1> SUFFICES ASSUME TypeInv, RepFiles, Next PROVE RepFiles'
  OBVIOUS
<1>1. DOMAIN fileTable \subseteq DOMAIN fileTable'
  BY FilesGrow
<1>2. CASE UNCHANGED rep
  BY <1>1, <1>2 DEF RepFiles
<1>3. CASE RepairNext
  <2>1. PICK r \in Repairers : RepairBegin(r) \/ RepairStep(r) \/ RepairInterrupted(r)
    BY <1>3 DEF RepairNext
  <2>2. OthersKept(r) /\ FilesStep(r, rep'[r])
    BY <2>1, RepairSummary
  <2> QED
    BY <1>1, <2>2 DEF RepFiles, OthersKept, FilesStep
<1> QED
  BY <1>2, <1>3 DEF Next, ClockNext, NodedNext, PutNext, GetNext, SweepNext, repairVars

-----------------------------------------------------------------------------
(* Saved placements are backed *)

\* What is saved is what an upload that is through, or a pass, has collected.
LEMMA SavedFrom ==
  ASSUME Next
  PROVE  \/ fileTable' = fileTable
         \/ PutNext /\ \E f \in Files : /\ AllUploaded(f) \/ put[f].pc = "abandoned"
                                       /\ SaveFilePlacement(f, put[f].placed)
         \/ RepairNext /\ \E r \in Repairers : /\ rep[r].pc = "chunks"
                                              /\ SaveFilePlacement(rep[r].file, rep[r].updated)
<1>1. CASE ClockNext \/ NodedNext
  BY <1>1 DEF ClockNext, Tick, NodedNext, StartNode, LateRegister, Listen, LateStore, Crash, trackerVars
<1>2. CASE PutNext
  BY <1>2 DEF PutNext, PutBegin, PutStep, PutSelect, PutSelectFails, PutUpload, PutUploadFails,
              PutSave, PutSaveFails, LateSave, trackerVars
<1>3. CASE GetNext
  BY <1>3 DEF GetNext, GetStep, GetBegin, GetNodes, GetChunk, GetFetch, GetReconstruct,
              GetFinish, trackerVars
<1>4. CASE RepairNext
  BY <1>4 DEF RepairNext, RepairBegin, RepairStep, RepairInterrupted, RepairMark,
              RepairListFiles, RepairFile, RepairEnd, RepairChunk, RepairFetch,
              RepairReconstruct, RepairSelect, RepairUpload, RepairUploadFails, RepairSave,
              trackerVars
<1>5. CASE SweepNext
  BY <1>5 DEF SweepNext, SweepBegin, SweepWrite, SweepFails, trackerVars
<1> QED
  BY <1>1, <1>2, <1>3, <1>4, <1>5 DEF Next

\* An upload keeps its list or adds the shard just acknowledged.
LEMMA PlacedStep ==
  ASSUME TypeInv, PutNext, NEW f \in Files
  PROVE  \/ put'[f].placed = put[f].placed
         \/ /\ put'[f].placed = put[f].placed \cup {NextPlacement(f)}
            /\ ShardOf(f, NextPlacement(f)) \in stored'[NextPlacement(f).node]
<1>1. put \in [Files -> PutState] /\ put[f] \in PutState
  BY DEF TypeInv, TypeOK, PutTypeOK
<1>2. PICK g \in Files : PutBegin(g) \/ PutStep(g) \/ LateSave(g)
  BY DEF PutNext
<1>3. CASE g # f
  <2>1. put'[f] = put[f]
    BY <1>1, <1>2, <1>3 DEF PutBegin, PutStep, PutSelect, PutSelectFails, PutUpload,
         PutUploadFails, PutSave, PutSaveFails, LateSave, Advance, PutTo
  <2> QED
    BY <2>1
<1>4. CASE g = f /\ ~PutUpload(f)
  <2>1. ASSUME NEW pc, PutTo(f, [put[f] EXCEPT !.pc = pc])
        PROVE  put'[f].placed = put[f].placed
    BY <1>1, <2>1 DEF PutTo, PutState
  <2>2. CASE PutBegin(f) \/ PutSelectFails(f) \/ PutUploadFails(f) \/ PutSave(f)
    BY <2>1, <2>2 DEF PutBegin, PutSelectFails, PutUploadFails, PutSave
  <2>3. CASE PutSaveFails(f) \/ LateSave(f)
    BY <2>1, <2>3 DEF PutSaveFails, LateSave
  <2>4. CASE PutSelect(f)
    BY <1>1, <2>4 DEF PutSelect, PutTo, PutState
  <2> QED
    BY <1>2, <1>4, <2>2, <2>3, <2>4 DEF PutStep
<1>5. CASE PutUpload(f)
  <2>1. put[f].pc = "upload"
    BY <1>5 DEF PutUpload
  <2>2. NextPlacement(f).node \in Nodes
    BY <2>1, NextPlacementType DEF TypeInv, TypeOK
  <2>3. ShardOf(f, NextPlacement(f)) \in stored'[NextPlacement(f).node]
    BY <1>5, <2>2 DEF PutUpload, HandlePut, TypeInv, TypeOK, NodedTypeOK
  <2>4. put'[f].placed = put[f].placed \cup {NextPlacement(f)}
    <3> DEFINE placed == put[f].placed \cup {NextPlacement(f)}
    <3> HIDE DEF placed
    <3>1. CASE put[f].next + 1 < K + M
      <4>1. put' = [put EXCEPT ![f] = [put[f] EXCEPT !.next = @ + 1, !.placed = placed]]
        BY <1>5, <3>1 DEF PutUpload, Advance, PutTo, placed
      <4> QED
        BY <1>1, <4>1 DEF PutState, placed
    <3>2. CASE ~(put[f].next + 1 < K + M)
      BY <1>1, <1>5, <3>2 DEF PutUpload, Advance, PutTo, placed
    <3> QED
      BY <3>1, <3>2
  <2> QED
    BY <2>3, <2>4
<1> QED
  BY <1>2, <1>3, <1>4, <1>5

\* Every step keeps the placements that are saved, and those about to be
\* saved, backed by a shard on disk.
LEMMA BackedNext == TypeInv /\ RepFiles /\ BackedInv /\ Next => BackedInv'
<1> SUFFICES ASSUME TypeInv, RepFiles, BackedInv, Next PROVE BackedInv'
  OBVIOUS
\* A list of placements that is backed stays so.
<1>1. ASSUME NEW f, NEW ps \in SUBSET ShardPlacement, Backed(f, ps)
      PROVE  \A p \in ps : ShardOf(f, p) \in stored'[p.node]
  BY <1>1, StoredGrows DEF Backed, ShardPlacement, TypeInv
<1>2. /\ \A f \in Files : put[f].placed \in SUBSET ShardPlacement
      /\ \A r \in Repairers : rep[r].updated \in SUBSET ShardPlacement
      /\ \A f \in DOMAIN fileTable : fileTable[f] \in SUBSET ShardPlacement
  BY DEF TypeInv, TypeOK, PutTypeOK, PutState, RepairTypeOK, PassState, TrackerTypeOK
<1>3. PlacementBacked'
  <2>1. CASE fileTable' = fileTable
    BY <1>1, <1>2, <2>1 DEF BackedInv, PlacementBacked, Backed
  <2>2. ASSUME NEW f, NEW ps \in SUBSET ShardPlacement, Backed(f, ps), SaveFilePlacement(f, ps)
        PROVE  PlacementBacked'
    BY <1>1, <1>2, <2>2 DEF BackedInv, PlacementBacked, Backed, SaveFilePlacement
  <2> QED
    BY <1>2, <2>1, <2>2, SavedFrom DEF BackedInv, PutBacked, RepBacked
<1>4. PutBacked'
  <2>1. CASE UNCHANGED put
    BY <1>1, <1>2, <2>1 DEF BackedInv, PutBacked, Backed
  <2>2. CASE PutNext
    <3> SUFFICES ASSUME NEW f \in Files
                 PROVE  \A p \in put'[f].placed : ShardOf(f, p) \in stored'[p.node]
      BY DEF PutBacked, Backed
    <3>1. \A p \in put[f].placed : ShardOf(f, p) \in stored'[p.node]
      BY <1>1, <1>2 DEF BackedInv, PutBacked
    <3> QED
      BY <2>2, <3>1, PlacedStep
  <2> QED
    BY <2>1, <2>2 DEF Next, ClockNext, NodedNext, GetNext, RepairNext, SweepNext
<1>5. RepBacked'
  <2>1. CASE UNCHANGED rep
    BY <1>1, <1>2, <2>1 DEF BackedInv, RepBacked, Backed
  <2>2. CASE RepairNext
    <3>1. PICK r \in Repairers : RepairBegin(r) \/ RepairStep(r) \/ RepairInterrupted(r)
      BY <2>2 DEF RepairNext
    <3>2. OthersKept(r) /\ UpdatedStep(r, rep'[r])
      BY <3>1, RepairSummary
    <3>3. ASSUME NEW q \in Repairers \ {r} PROVE Backed(rep[q].file, rep[q].updated)'
      <4>1. \A p \in rep[q].updated : ShardOf(rep[q].file, p) \in stored'[p.node]
        BY <1>1, <1>2 DEF BackedInv, RepBacked
      <4> QED
        BY <3>2, <4>1 DEF OthersKept, Backed
    <3>4. \A p \in rep'[r].updated : ShardOf(rep'[r].file, p) \in stored'[p.node]
      <4>1. \A p \in rep[r].updated : ShardOf(rep[r].file, p) \in stored'[p.node]
        BY <1>1, <1>2 DEF BackedInv, RepBacked
      <4>2. ASSUME NEW f \in rep[r].files, rep'[r].file = f, rep'[r].updated = fileTable[f]
            PROVE  \A x \in rep'[r].updated : ShardOf(rep'[r].file, x) \in stored'[x.node]
        <5>1. f \in DOMAIN fileTable
          BY DEF RepFiles
        <5>2. \A p \in fileTable[f] : ShardOf(f, p) \in stored'[p.node]
          BY <1>1, <1>2, <5>1 DEF BackedInv, PlacementBacked
        <5> QED
          BY <4>2, <5>2
      <4>3. ASSUME NEW p \in rep[r].place, rep'[r].file = rep[r].file,
                   rep'[r].updated = (rep[r].updated \ {p}) \cup
                                       {[p EXCEPT !.node = rep[r].target]},
                   ShardOf(rep[r].file, p) \in stored'[rep[r].target]
            PROVE  \A x \in rep'[r].updated : ShardOf(rep'[r].file, x) \in stored'[x.node]
        <5>1. p \in ShardPlacement
          BY DEF TypeInv, TypeOK, RepairTypeOK, PassState
        <5> DEFINE q == [p EXCEPT !.node = rep[r].target]
        <5>2. q.node = rep[r].target /\ q.chunk = p.chunk /\ q.shard = p.shard
          BY <5>1 DEF ShardPlacement
        <5>3. ShardOf(rep[r].file, q) \in stored'[q.node]
          BY <4>3, <5>2 DEF ShardOf
        <5> QED
          BY <4>1, <4>3, <5>3
      <4> QED
        BY <3>2, <4>1, <4>2, <4>3 DEF UpdatedStep
    <3> QED
      BY <3>3, <3>4 DEF RepBacked, Backed
  <2> QED
    BY <2>1, <2>2 DEF Next, ClockNext, NodedNext, PutNext, GetNext, SweepNext, repairVars
<1> QED
  BY <1>3, <1>4, <1>5 DEF BackedInv

-----------------------------------------------------------------------------
(* The theorems *)

Inv == TypeInv /\ RepFiles /\ BackedInv

\* In the initial state no file is known and nobody has collected a placement.
LEMMA InitInv == Init => Inv
<1> SUFFICES ASSUME Init PROVE Inv
  OBVIOUS
<1>1. TypeInv
  BY InitTypeInv
<1>2. RepFiles
  BY DEF Init, RepairInit, NoPass, RepFiles
<1>3. PlacementBacked
  BY DEF Init, NewStore, PlacementBacked
<1>4. PutBacked
  BY DEF Init, PutInit, PutBacked, Backed
<1>5. RepBacked
  BY DEF Init, RepairInit, NoPass, RepBacked, Backed
<1> QED
  BY <1>1, <1>2, <1>3, <1>4, <1>5 DEF Inv, BackedInv

\* Every step of the network, and a step that changes nothing, preserves Inv.
LEMMA NextInv == Inv /\ [Next]_vars => Inv'
<1> SUFFICES ASSUME Inv, [Next]_vars PROVE Inv'
  OBVIOUS
<1>1. CASE Next
  <2>1. TypeInv'
    BY <1>1, ClockTypeInv, NodedTypeInv, PutTypeInv, GetTypeInv, RepairTypeInv, SweepTypeInv
       DEF Next, Inv
  <2> QED
    BY <1>1, <2>1, RepFilesInv, BackedNext DEF Inv
<1>2. CASE UNCHANGED vars
  <2> USE <1>2 DEF Inv, vars, trackerVars, nodedVars, repairVars, sweepVars
  <2>1. TypeOK'
    BY DEF TypeInv, TypeOK, TrackerTypeOK, NodedTypeOK, PutTypeOK, GetTypeOK,
           RepairTypeOK, SweepTypeOK
  <2>2. PutShape' /\ RepShape' /\ RepFiles'
    BY DEF TypeInv, PutShape, RepShape, RepFiles
  <2>3. BackedInv'
    BY DEF BackedInv, PlacementBacked, PutBacked, RepBacked, Backed
  <2> QED
    BY <2>1, <2>2, <2>3 DEF TypeInv
<1> QED
  BY <1>1, <1>2

\* Inv holds in every reachable state.
LEMMA Invariance == Spec => []Inv
  BY InitInv, NextInv, PTL DEF Spec

\* The state of every component keeps its type, whatever interleaving,
\* failure and late request: in particular every placement that reaches the
\* tracker names a chunk of the file, a shard below K + M and a node.
THEOREM TypeOKTheorem == Spec => []TypeOK
<1>1. Inv => TypeOK
  BY DEF Inv, TypeInv
<1> QED
  BY <1>1, Invariance, PTL

\* Every placement the tracker serves is backed by a shard on disk, for any
\* number of nodes, files, concurrent uploads and concurrent repair passes.
THEOREM PlacementBackedTheorem == Spec => []PlacementBacked
<1>1. Inv => PlacementBacked
  BY DEF Inv, BackedInv
<1> QED
  BY <1>1, Invariance, PTL
=============================================================================
