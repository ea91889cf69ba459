------------------------------- MODULE Aldea -------------------------------
(***************************************************************************)
(* The storage network: the tracker, the storage nodes, uploading and      *)
(* downloading clients, repair passes and liveness sweeps, interleaved at  *)
(* the granularity of one request or one store transaction.                *)
(***************************************************************************)
EXTENDS PutClient, GetClient, Repair, Liveness

vars == <<trackerVars, nodedVars, put, get, repairVars, sweepVars>>

Init == NewStore /\ NodedInit /\ PutInit /\ GetInit /\ RepairInit /\ SweepInit

ClockNext == Tick /\ UNCHANGED <<nodedVars, put, get, repairVars, sweepVars>>

NodedNext == /\ \/ LateRegister
                \/ \E n \in Nodes : StartNode(n) \/ Listen(n) \/ LateStore(n) \/ Crash(n)
             /\ UNCHANGED <<put, get, repairVars, sweepVars>>

PutNext == /\ \E f \in Files : PutBegin(f) \/ PutStep(f) \/ LateSave(f)
           /\ UNCHANGED <<get, repairVars, sweepVars>>

GetNext == /\ \E r \in Readers : GetStep(r) \/ \E f \in Files : GetBegin(r, f)
           /\ UNCHANGED <<put, repairVars, sweepVars>>

RepairNext == /\ \E r \in Repairers : RepairBegin(r) \/ RepairStep(r) \/ RepairInterrupted(r)
              /\ UNCHANGED <<put, get, sweepVars>>

SweepNext == /\ SweepBegin \/ SweepWrite \/ SweepFails
             /\ UNCHANGED <<put, get, repairVars>>

Next == ClockNext \/ NodedNext \/ PutNext \/ GetNext \/ RepairNext \/ SweepNext

Spec == Init /\ [][Next]_vars

\* A command, a pass or a sweep that has begun keeps running: each is one
\* goroutine whose every step ends by an answer, an error or the timeout of
\* its http client.  Nothing forces a command to begin, a node to start or a
\* request given up by its client to arrive.
Fairness ==
    /\ \A f \in Files : WF_vars(PutStep(f) /\ UNCHANGED <<get, repairVars, sweepVars>>)
    /\ \A r \in Readers : WF_vars(GetStep(r) /\ UNCHANGED <<put, repairVars, sweepVars>>)
    /\ \A r \in Repairers : WF_vars(RepairStep(r) /\ UNCHANGED <<put, get, sweepVars>>)
    /\ WF_vars((SweepWrite \/ SweepFails) /\ UNCHANGED <<put, get, repairVars>>)

FairSpec == Spec /\ Fairness

-----------------------------------------------------------------------------
(* Invariants *)

TypeOK == /\ TrackerTypeOK /\ NodedTypeOK /\ PutTypeOK
          /\ GetTypeOK /\ RepairTypeOK /\ SweepTypeOK

\* Every placement in ps names a node that has the shard on disk.
Backed(f, ps) == \A p \in ps : ShardOf(f, p) \in stored[p.node]

\* Every placement the tracker serves names a node that has the shard on
\* disk: runPut and InspectAndRepair save a placement only after the node
\* acknowledged the shard, and neither a lost answer, a crash, a late save
\* nor another pass in between makes a saved placement dangle.
PlacementBacked == \A f \in DOMAIN fileTable : Backed(f, fileTable[f])

\* ps has exactly one placement for every shard of every chunk below c.
Complete(c, ps) ==
    /\ \A p \in ps : p.chunk < c
    /\ \A i \in 0 .. c - 1, s \in ShardIndex :
          \E p \in ps : p.chunk = i /\ p.shard = s
    /\ \A p, q \in ps : p.chunk = q.chunk /\ p.shard = q.shard => p = q

\* A file is in the tracker with all K + M shards of all its chunks, each
\* placed once, or not at all: runPut saves once, after the last chunk, and
\* a repair that moves some of the shards neither drops nor doubles one.
FullyPlaced == \A f \in DOMAIN fileTable : Complete(ChunkCount[f], fileTable[f])

\* `aldea get` reports success only when every chunk of the uploaded file was
\* reconstructed.  The command itself never compares the chunks it found with
\* FileMetadata.ChunkCount, so this rests on FullyPlaced.
DownloadComplete ==
    \A r \in Readers : get[r].pc = "done" => get[r].out = Chunks(get[r].file)

\* Nodes that hold a shard of chunk c in ps.
NodesOf(c, ps) == {p.node : p \in {q \in ps : q.chunk = c}}

\* Every chunk in ps is spread over K + M nodes.
Spread(f, ps) == \A c \in Chunks(f) : Cardinality(NodesOf(c, ps)) = K + M

\* A download of a file whose shards are spread fails at a chunk only if more
\* than M nodes did not deliver: whatever crashes, restarts and repairs ran
\* meanwhile, up to M missing nodes are tolerated.
FailureNeedsManyMisses ==
    \A r \in Readers :
       /\ get[r].pc = "fetch" /\ get[r].group = {}
       /\ Spread(get[r].file, get[r].placements)
       => Reconstructable(get[r].got) \/ Cardinality(get[r].missed) > M

\* Once a pass has handled a file, the file has no shard on a node that the
\* pass declared unhealthy, unless the tracker lists that node as healthy (it
\* registered again, or the write-back of its record failed, and it was
\* selected).  Needs that no sweep and no second pass runs.
VisitedFilesOffUnhealthy ==
    \A r \in Repairers : \A f \in rep[r].visited : \A p \in fileTable[f] :
       p.node \in rep[r].unhealthy => nodeTable[p.node].healthy

\* A node the tracker calls unhealthy has been silent by the tracker's own
\* record: sweeps and passes, however stale the record they write back, keep
\* with the verdict the LastSeen it was based on.
UnhealthyWasSilent ==
    \A n \in DOMAIN nodeTable : ~nodeTable[n].healthy =>
       LET silence == now - nodeTable[n].lastSeen
       IN  silence >= TransientAfter \/ silence > RepairTimeout

-----------------------------------------------------------------------------
(* Action properties *)

\* runPut never saves two shards of a chunk on one node: the placements it
\* saves survive the loss of any M nodes.
UploadsAreSpread ==
    [][\A f \in DOMAIN fileTable' \ DOMAIN fileTable : Spread(f, fileTable'[f])]_vars

\* Once saved, a shard is moved only by a pass that declared its node
\* unhealthy (one pass at a time: a second one could write back what it read).
MovesOnlyFromUnhealthy ==
    [][\A f \in DOMAIN fileTable : \A p \in fileTable[f] \ fileTable'[f] :
          \E r \in Repairers : p.node \in rep[r].unhealthy]_vars

\* A registration of node n reaches the tracker: as it starts, or late.
Registers(n) == \/ nodeState[n] = "down" /\ nodeState'[n] = "starting"
                \/ \E w \in late : w.node = n /\ w \notin late'

\* Only the node's own registration makes an unhealthy node healthy again:
\* no sweep and no repair pass ever writes back a stale healthy record.
OnlyRegistrationHeals ==
    [][\A n \in DOMAIN nodeTable :
          ~nodeTable[n].healthy /\ nodeTable'[n].healthy => Registers(n)]_vars

-----------------------------------------------------------------------------
(* Refinement of FileStore *)

\* A file is recoverable when each of its chunks has K shards on disk at the
\* nodes the tracker names.
Recoverable(f) ==
    \A c \in Chunks(f) :
       Reconstructable({p.shard : p \in {q \in fileTable[f] :
                           q.chunk = c /\ ShardOf(f, q) \in stored[q.node]}})

UploadStatus(f) == CASE put[f].pc = "idle" -> "new"
                     [] put[f].pc \in {"chunk", "upload"} -> "running"
                     [] put[f].pc = "done" -> "ok"
                     [] put[f].pc \in {"failed", "abandoned"} -> "error"

\* A download that reports success without all chunks is not "ok".
DownloadStatus(r) ==
    CASE get[r].pc = "idle" -> "idle"
      [] get[r].pc \in {"nodes", "chunk", "fetch"} -> "running"
      [] get[r].pc = "done" -> IF get[r].out = Chunks(get[r].file) THEN "ok" ELSE "truncated"
      [] get[r].pc = "failed" -> "error"

FS == INSTANCE FileStore WITH
        catalog  <- {f \in DOMAIN fileTable : Recoverable(f)},
        upload   <- [f \in Files |-> UploadStatus(f)],
        download <- [r \in Readers |-> [status |-> DownloadStatus(r), file |-> get[r].file]]

\* The network keeps the promises of FileStore: an acknowledged upload is
\* recoverable from the tracker's placements at once and stays so through
\* crashes, late requests and repairs, and a successful download is complete.
ImplementsFileStore == FS!Spec

-----------------------------------------------------------------------------
(* Liveness *)

\* A repair pass that has begun comes to an end: InspectAndRepair returns
\* whatever nodes fail, and however often its targets are gone.  Every request
\* is answered or given up, which holds for the client with a timeout that
\* NewRepairer makes, not for any client that it may be handed.
PassesEnd == \A r \in Repairers : rep[r].pc # "idle" ~> rep[r].pc = "idle"

\* An upload and a download that have begun end, with success or an error:
\* runPut and runGet never wait for a node or a repair.
CommandsEnd ==
    /\ \A f \in Files : put[f].pc \in {"chunk", "upload"} ~> put[f].pc \in {"done", "failed", "abandoned"}
    /\ \A r \in Readers : get[r].pc # "idle" ~> get[r].pc \in {"done", "failed"}

-----------------------------------------------------------------------------
(* What the documentation says and the code does not do *)

\* README.md:11, "allowing data recovery even if up to 4 storage nodes fail":
\* whatever M nodes are lost, K shards of every chunk remain elsewhere.
SurvivesMFailures ==
    \A f \in DOMAIN fileTable : \A c \in Chunks(f) : \A lost \in SUBSET Nodes :
       Cardinality(lost) <= M =>
          Reconstructable({p.shard : p \in {q \in fileTable[f] :
                                            q.chunk = c /\ q.node \notin lost}})

\* liveness.go:15, "brief absence: exclude from placements, do not repair
\* yet": a shard is moved off a node only when the node has been silent for
\* DeadAfter.
TransientNotRepaired ==
    [][\A f \in DOMAIN fileTable : \A p \in fileTable[f] \ fileTable'[f] :
          now - nodeTable[p.node].lastSeen >= DeadAfter]_vars

\* liveness.go:6, "Healthy - seen recently, fully trusted": a node is not
\* turned unhealthy while the tracker's own record says it was seen recently.
SeenRecentlyStaysHealthy ==
    [][\A n \in DOMAIN nodeTable :
          nodeTable[n].healthy /\ now - nodeTable[n].lastSeen < TransientAfter
             => nodeTable'[n].healthy]_vars
=============================================================================
