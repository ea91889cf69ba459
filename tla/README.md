# Aldea in TLA+

Aldea is a self-hosted storage and compute network for a closed group. A client
splits a file into chunks, erasure-codes each chunk into K data and M parity
shards (4 and 4 in the code), encrypts them and spreads them over storage nodes;
a tracker remembers which node holds which shard. Beside it are packages for
relaying, invites, peer routing, compute workloads and a desktop application.
This directory models the storage network and those packages, checks them with TLC
on small instances and proves their safety properties with TLAPS for every instance.

## Inventory

| Part | State | Operations | Interacts with | What makes it correct |
|---|---|---|---|---|
| Tracker store (`internal/tracker/tracker.go`) | bbolt buckets `nodes`, `files`, `placements` | RegisterNode, ListNodes, SelectPlacementNodes, SaveFilePlacement, ListFiles, GetFilePlacement; one transaction each | trackerd, repairer, liveness sweep | a stored placement is complete and backed by shards on disk |
| Tracker daemon (`cmd/trackerd`) | none of its own | one HTTP handler per store method | all clients over HTTP | a request is applied once or reported as an error; it may be applied after the client gave up |
| Liveness (`internal/tracker/liveness.go`) | none | Evaluate, ApplyLiveness | tracker store | only silence makes a node unhealthy, only registration makes it healthy |
| Storage node (`cmd/noded`) | bbolt bucket `shards` | start, register, put, get, health | tracker, clients, repairer | an acknowledged shard is served; usage stays within the quota |
| `aldea put` (`cmd/aldea/put.go`) | placements collected so far | select, upload, save | tracker, nodes | all or nothing |
| `aldea get` (`cmd/aldea/get.go`) | placements, node list, chunks so far | look up, fetch, reconstruct, reassemble | tracker, nodes | success means the whole file; up to M missing nodes are tolerated |
| Repairer (`internal/repair`) | one pass: snapshot, unhealthy nodes, updated placements | InspectAndRepair | tracker store, nodes | shards leave unhealthy nodes, none is lost or doubled, the pass ends |
| Erasure coder, chunker (`internal/erasure`, `internal/chunker`) | none | Encode, Reconstruct; Split, Reassemble | put, get, repair | any K of K + M shards give a chunk back; chunks in order |
| Bandwidth limiter (`internal/bandwidth`) | tokens, last check | WaitN | readers and writers | the rate is kept over every interval |
| Relay (`internal/relay`) | per session: two connections, two copying goroutines | Dial, CreateSession, handleConn, pipe | a client that cannot reach its target, the target | bytes arrive in order and without a gap; a session ends when both ends have closed |
| Invites (`internal/invite`, `gui/app.go`) | uses counted per token; address and key of the application | CreateToken, ValidateAndUse, CreateNetwork, JoinNetwork | the desktop application | no more uses under an identifier than granted; key and address, or its ending, of one network |
| Routing table (`internal/dht`) | k-buckets | Add, Remove, FindClosest | none of the daemons | a contact is refused only when its bucket is full; the closest contacts are found |
| Scheduler (`internal/scheduler`) | none | ParseManifestYAML, SelectNode, RescheduleOnNodeFailure | compute commands | the least loaded suitable node; stateful workloads stay |
| Workload runtime (`internal/runtime`) | workload map, status objects held by callers | StartWorkload, StopWorkload, GetWorkloadStatus, ListWorkloads | compute commands, desktop application | addresses are distinct |
| Compute commands (`cmd/aldea/compute.go`) | the engine of the process | deploy, stop, list | scheduler, runtime | nothing runs without consent and a node it fits |
| Snapshots (`internal/snapshot`) | snapshot map | CreateSnapshot, RestoreSnapshot, ListSnapshots | a workload's volume | what was returned stays listed with its contents |
| Ingress tunnels (`internal/ingress`) | tunnel map, tunnels held by callers | CreateTunnel, CloseTunnel, ListTunnels | none | an open tunnel can be closed |
| Desktop application (`gui/app.go`) | list of files, shards on disk, settings, network | UploadFile, PauseNode, SetStorageAllocation, CreateNetwork, JoinNetwork | chunker, encoder, invites | a listed file is on disk |
| NAT discovery, metrics, protocol, crypto, config, the rest of the CLI | none that decisions depend on | pure conversion, I/O or display | | not modelled |

`trackerd` itself calls neither ApplyLiveness nor InspectAndRepair; they are
library functions exercised by the tests. The model lets them run at any time
beside the other parts, which is what their callers may do.

What is hard here: every command is a sequence of requests to machines that may
crash between any two of them; a request that timed out may still be executed;
passes and sweeps write back records read earlier; the shard server checks its
quota and writes in two transactions; the relay's two copies end independently of
each other; a token is checked, a snapshot named and a tunnel made before the mutex
is taken that counts or registers them; uploads of every kind fail half-way.
`PROJECT.json` lists these hazards with
their lines and the properties aimed at them.

## Modules

| Module | Models | Extends |
|---|---|---|
| `Erasure` | K, M and the reconstruction threshold | |
| `Tracker` | the store, node evaluation and the clock | `Erasure` |
| `Noded` | storage nodes as their clients see them | `Tracker` |
| `PutClient`, `GetClient` | `aldea put`, `aldea get` | `Noded` |
| `Repair`, `Liveness` | InspectAndRepair, ApplyLiveness | `Noded` |
| `Aldea` | the composition, its properties, the mapping to `FileStore` | the four above |
| `FileStore` | abstract: what the network promises its users | |
| `ShardServer` | the put handler of one node in detail | |
| `Limiter` | the token bucket and its goroutines | |
| `Relay` | a session through the relay, from the dial to its end | |
| `Invite` | invite tokens, and the application that issues and redeems them | |
| `RoutingTable` | the k-buckets and FindClosest | |
| `ContactBook` | abstract: what a routing table promises | |
| `Scheduler`, `Runtime` | placement of workloads; the engine that runs them | |
| `Compute` | the deploy and stop commands | `Scheduler`, `Runtime` |
| `WallClock` | the clock in whole seconds | |
| `Snapshot`, `Ingress` | volume snapshots; tunnels | `WallClock` |
| `Desktop` | files and settings of the desktop application | `Erasure` |
| `Coding` | bytes through chunker and encoder, losses and repairs | `Erasure` |
| `Packages` | the packages beside the storage network, one at a time | `Invite`, `RoutingTable`, `Compute`, `Snapshot`, `Ingress`, `Desktop`, `Coding` |
| `AldeaProofs` | proofs: types, placements are backed by shards on disk | `Aldea` |
| `PlacementProofs` | proofs: placements are complete, uploads spread, downloads whole; the network implements `FileStore` | `AldeaProofs` |
| `HealthProofs` | proofs: what sweeps and passes do to health and to placements | `PlacementProofs` |
| `ShardServerProofs`, `LimiterProofs`, `RelayProofs` | proofs about the module of that name | |
| `CodingProofs` | proofs about the chunker and the encoder | `Packages` |
| `PackagesProofs` | proofs about the other packages, and that the routing table implements `ContactBook` | `CodingProofs` |
| `MCAldea`, `MCShardServer`, `MCLimiter`, `MCRelay`, `MCPackages` | instances for TLC | |

**State.** `nodeTable` and `fileTable` are the tracker's buckets (`files` and
`placements` are written and read together, so they are one table); `now` is the
wall clock; `nodeState`, `stored`, `pending` and `late` are the nodes: whether the
process runs and listens, its bucket, the puts its clients have given up but the
node may still execute, and the registrations the node has given up but the
tracker may still execute. `put[f]`, `get[r]` and `rep[r]` hold the local
variables and the program counter of runPut, runGet and InspectAndRepair; `sweep`
holds the records ApplyLiveness has still to write.

**Steps.** One action is one store transaction, one request as its client sees it
(answered, failed, or failed with the request still in flight), or the local work
between two of them. `PutSelect`, `PutUpload` and `PutSave` are the requests of
runPut and `PutSelectFails`, `PutUploadFails` and `PutSaveFails` its error exits;
a client that is killed is one whose request failed. `LateStore`, `LateSave` and
`LateRegister` are the server sides of requests whose client has gone. `Crash`
stops a node at any point; its database survives.

**Abstractions.** The contents of a shard are a function of its identifier: file
identifiers are random 16-byte values (assumed distinct) and repair re-encodes the
same chunk. Addresses, names, sizes, keys, encryption and encoding are left out;
a request that does not authenticate or decode is one that fails. A list of
placements is a set: the code groups and filters it, in shard order.
`StorageUsed` is 0 in every record ever written, so nodes are ranked by
`Allocated`; equal nodes come in any order because `sort.Slice` is not stable.

In `Relay` a connection is two sequences of bytes, a byte is its number, and the
address and the relay's answer are one item each; a copy moves any number of bytes
at a time. Whether a byte is white space matters only to the handshake, which trims
what it has read, and is chosen there; `trimmed` counts the byte that goes with it. A socket closed with unread input may destroy what is in flight the
other way (a reset), and a write to a closed peer may or may not report it. In
`Invite` a MAC is the signing key and the text it was computed from: the code signs
identifier, address, expiry, limit and network key joined by colons (invite.go:126). An
address has a colon of its own, so the same text also belongs to fields in which the
first pieces of the address are the end of the identifier. A token is therefore modelled
as a text and the place where it is split (`Splits`, `TokenID`, `TrackerAddr`), and
tokens are presented as issued, with a field of the text altered, and with the text
split elsewhere. Both properties say what holds then: uses are bounded for each
identifier presented, not for their sum, and an application has the address of the
network whose key it holds or an ending of that address.

In `RoutingTable` an identifier is a vector of bits; the history variable
`addResult` holds what Add last returned, because what the table promises is about
that answer. `Sorted` gives each entry the place that the number of entries before it
determines, which is what any sort ends with when distances differ. In `Scheduler` the scan of SelectNode is one step per candidate; a
score is an exact fraction, where the code rounds in floating point; `Filtered` is the
list without the failed node, and the amounts of a candidate are natural numbers, as
those of a machine are. In `Runtime`
and `Ingress` the objects that callers keep pointers to are a sequence, and the
maps hold positions in it, so that a stale pointer and a replaced entry can differ.
A process identifier and an address are both a base plus the number of entries and
are one number, `slot`. In `Snapshot` contents are version numbers, which stand for
their hash; RestoreSnapshot writes a fixed text in the code and does so here. In
`Desktop` a call is one step, because every method holds the mutex, and UploadFile
stops after any number of shards; `Reopen` is a new process on the old directory. In
`Coding` a byte is its position in the file and a parity shard is the data it was
computed from, usable only when K shards are left.

## What TLC checks

| Run | Instance | Shows |
|---|---|---|
| `transfer` | 4 nodes, K = 2, M = 1, one file of two chunks, one reader, one crash, one late registration | `DownloadComplete`, `FailureNeedsManyMisses`, `UploadsAreSpread`, `ImplementsFileStore` |
| `repair` | 3 nodes, K = M = 1, two chunks, one pass, two crashes | `VisitedFilesOffUnhealthy`, `MovesOnlyFromUnhealthy` |
| `concurrent` | 2 nodes, K = M = 1, one upload, two passes by two repairers, one sweep, one crash, one late registration | `TypeOK`, `PlacementBacked`, `FullyPlaced`, `UnhealthyWasSilent`, `OnlyRegistrationHeals`, `ImplementsFileStore` |
| `fair` | 2 nodes, one upload, one reader, one pass, one crash, with fairness | `PassesEnd`, `CommandsEnd` |
| `colocation` | 3 nodes, one pass | violates `SurvivesMFailures` |
| `transient` | 3 nodes, one sweep, one pass | violates `TransientNotRepaired` |
| `stale_sweep` | 2 nodes, one sweep | violates `SeenRecentlyStaysHealthy` |
| `shard_server` | 3 handlers, 3 shards of sizes 1 and 2, quota 4, one restart | `TypeOK`, `OvershootBounded`, `AckedIsServed` |
| `shard_quota` | the same | violates `QuotaRespected` |
| `limiter` | 2 goroutines, rate 3, buffers up to 4, 7 units of time | `TypeOK`, `RateKept` |
| `relay` | one session, three bytes each way, with fairness | `TypeOK`, `DeliveredInOrder`, `EndsDrained`, `SessionEnds` |
| `packages` | see below | `PackagesTypeOK` and the properties below |

The run `packages` checks everything beside the storage network, the limiter and the
relay. Those packages share no state, so a behaviour of `Packages` moves one of them,
chosen by `focus` in the initial state, and the others rest: the states add up
instead of multiplying, and no property relates two of them. For the same reason they
share model values, so that one permutation serves them all.

| `focus` | Instance | Shows |
|---|---|---|
| invite | 2 applications, a manager shared by 2 goroutines, 3 tokens, addresses host:port, limits none, 1 (manager) and 2 (application), lifetime 1 of 2 units of time | `UsesBounded`, `AddressMatchesKey` |
| routing | all 8 identifiers of 3 bits, 2 addresses, buckets of 2 | `ImplementsContactBook`; `FindsClosest` for every target and count |
| scheduler | 10 manifests, half of them refused; every list of up to 3 of 10 candidates | `SelectsLeastLoaded`, `StatefulStaysPinned` |
| compute | the same manifests, up to 4 starts | `DeployedAsApproved`, `AddressesUnique` |
| snapshot | 2 workloads, 2 overlapping calls, 2 seconds, empty and non-empty volumes | `SnapshotKept` |
| ingress | 2 workloads, 2 overlapping calls, 3 tunnels, 2 seconds, ports at both limits | `TunnelsClosable` |
| desktop | 3 uploads of one or two chunks, K = M = 2 | `ListedFilesComplete` |
| coding | files of 0 to 7 bytes in chunks of 3, K = M = 2, any losses and repairs | `RoundTrip` |

The bounds are `MaxTime`, `MaxCrashes`, `MaxLate`, `MaxPasses`, `MaxSweeps`
(`MaxRestarts`, `MaxClock`, `MaxN`, `MaxBytes`, `MaxTokens`, `MaxAccepts`,
`MaxCandidates`, `MaxStarts`, `MaxSeconds`, `MaxVersion`, `MaxTunnels`, `MaxUploads`,
`MaxLength` in the other modules). They are enough for the
cases that matter: K = 2, M = 1 with four nodes leaves one node unused and
distinguishes "K shards" from "all shards"; two chunks are needed for a file that
lacks its last one; three nodes give a repair a target that holds nothing yet and
one that already holds a shard; `RepairTimeout = 0` with one clock tick makes
nodes overdue with and without a crash; two passes and a sweep are the fewest
that can overwrite each other's writes. In `limiter`, buffers are larger than the
bucket, so WaitN splits them. In `relay`, three bytes let one be read by the
handshake, one be in the relay and one be delivered. In `packages`, two calls race for
the last use of a token and a third token can belong to a second network; of the four
identifiers of bucket 0 only two have room, and every other bucket is smaller than
its class or equal to it; two candidates are equally loaded, one is overcommitted and
one has no capacity at all; three tunnels are one more than a collision needs; files
of 0, 1, 3, 4 and 7 bytes are empty, all padding but one byte, and end with and
without a short chunk. Nodes, repairers, handlers, shards and goroutines
are interchangeable and are symmetry sets, except in `fair`, where symmetry would
be unsound for liveness.

Deadlock is not checked for `Aldea`: commands, crashes, passes and time are all
finite there, so the bounded system comes to rest. In the limiter the observer
can always act, and a shard server always takes a request. A relay session comes
to rest when it has ended or when its ends leave it idle, and the packages when a
bound is reached.

`VisitedFilesOffUnhealthy` and `MovesOnlyFromUnhealthy` are claims about one pass
at a time: a second pass may save placements it read before the first one saved
its own, and a sweep may make the target of a move unhealthy. `PlacementBacked`
and `FullyPlaced` hold with any number of them.

Several properties say exactly how far the code goes. `AddressesUnique` is about
workloads started once: starting a known workload again adds no entry, so the next
new one gets its address. `SnapshotKept` and `TunnelsClosable` except two calls for
one workload in one second, whose identifiers are the same; the earlier tunnel then
stays active and nobody can close it. `SelectsLeastLoaded` judges a placement by the
allocation the scheduler is given, and deploy gives it an empty node each time. The
allocation set in the desktop application is reported and never enforced.

### Refinement

`FileStore` has three variables: the catalog of stored files, what each uploader
knows and what each download delivered. A file is in the catalog when the tracker
knows it and each of its chunks has K shards on the disks of the nodes named. The
steps that save placements map to `Commit`, possibly after the uploader was told
of an error; moves by repair, crashes and retries map to stuttering; a download
counts as `ok` only with all chunks. Nothing ever leaves the catalog, which is
where a repair that saved an unbacked or incomplete list would show.

`ContactBook` has two variables: a map from node to its last accepted address, and
the last answer given. A routing table implements it with the union of its buckets
as the map. The classes of the book are the prefix lengths, so the refinement says
that buckets are never mixed up, no contact is in two places, a full bucket refuses
newcomers and nobody else, and a removed contact is gone.

### Fairness

`FairSpec` assumes weak fairness of the steps of each upload, download, pass and
sweep **that has begun**. Each is a single goroutine that blocks only in requests
made through an `http.Client` with a timeout (30 s for the CLI, 10 s by default
for the repairer) or in local transactions, so each step ends in an answer or an
error. A caller may give the repairer a client of its own without a timeout; then a
node that never answers holds up the pass, and `PassesEnd` does not apply. Nothing is assumed of nodes starting, of requests that were given up, of
time, or of a command ever being begun.

`Relay` assumes that the relay's goroutines run and that a client waiting for the
answer gets one or meets its 5 s deadline. Nothing is assumed of either end
writing, reading or closing: `SessionEnds` starts when both have closed, because a
copy that meets the end of its input does not pass it on, and until then the
handler may wait for ever.

### Disagreements with the documentation

* `colocation` (README.md:11): a repair selects a target for each shard on its
  own, and the tracker always ranks the same node first; shards of a chunk gather
  on one node and M failures lose the chunk.
* `transient` (liveness.go:15): a node that is only transient is stored as
  unhealthy, and the repairer moves the shards of every unhealthy node.
* `stale_sweep` (liveness.go:6): a sweep overwrites a registration that arrived
  after its snapshot. The node registers only at startup, so it stays unhealthy
  until it restarts. The repairer has the same pattern at repair.go:49.
* `shard_quota` (server.go:73): check and write are two transactions.
  `OvershootBounded` gives the bound that does hold.

One more is part of a property instead of a run of its own. CreateSession promises "the
end-to-end channel" (relay.go:79), but it reads up to four bytes of the answer and trims
white space before it compares them with OK (relay.go:101). A first byte of the target
that arrives with OK and is white space is trimmed away, the session is accepted, and
the client starts at the second byte; any other byte read with OK makes the session
fail. The run `relay` reaches both cases, and `DeliveredInOrder` says that this byte is
all that is ever lost: without `trimmed` in it, TLC refutes it with a target that writes
before the client has read the answer.

## What is proved

TLAPS checks these for every value of the constants: any nodes, files, readers and
repairers, any K and M above 0, any number of bytes, tokens, candidates or contacts,
and every bound. The assumptions are the named ASSUMEs of the modules (types of the
constants; that a candidate has a name, that a manifest's identifier is one a workload
can have, that payloads have a largest size and handlers are finitely many) and, for two
theorems about one repair pass, the hypotheses in their statements. Every invariant, every
action property and both refinements that a passing run checks are theorems.

The prover has no induction over data of its own. Where an argument needs one, it is
made with a set: a set of natural numbers that holds 0 and with n also n + 1 is all of
them (`NatSetInduction`, from the well-foundedness of <), and the set is that of the
numbers for which the claim holds. That is enough for sums over finite sets, for loops
written as recursive functions and for distances written bit by bit.

**The storage network.** Three layers of invariant, each used by the next.

* `TypeOKTheorem`, `PlacementBackedTheorem` (`AldeaProofs`). `PlacementBacked`
  alone is not inductive: what is saved was collected over many steps. The
  invariant `Inv` adds (1) `PutShape`, `RepShape`: an upload in its inner loop has
  its K + M nodes and an index into them, a pass at work has a file and, when it
  uploads, a target; (2) `RepFiles`: a pass walks only files in the table;
  (3) `PutBacked`, `RepBacked`: the lists an upload or a pass has collected are
  already backed. `StoredGrows` (no shard is ever removed) and `SavedFrom` (a save
  writes one of those lists) then give the step. `RepairSummary` reduces the twelve
  steps of a pass to the four things they may do to its list.
* `FullyPlacedTheorem`, `DownloadCompleteTheorem`, `FailureNeedsManyMissesTheorem`,
  `UploadsAreSpreadTheorem` (`PlacementProofs`). `WholeInv` adds to `Inv`: an upload
  has exactly the shards before the one it is at (`PutFilled`) and is unknown to the
  tracker until it saves (`PutUnsaved`), the nodes of its chunk being distinct
  (`PutApart`); the list a pass works on is whole (`RepFilled`), because a move
  replaces one placement by another of the same shard; a download has every chunk
  still to come, under way or reconstructed (`GetWhole`), and every placement of the
  chunk under way still to be tried, delivered or missed (`GetTried`). With K + M
  nodes of which at most M missed, K delivered.
* `ImplementsFileStoreTheorem` (`PlacementProofs`). Under `WholeInv` the catalog is
  the tracker's table; the steps of uploads and downloads map to those of `FileStore`
  one by one, and every other step leaves the mapped state alone.
* `OnlyRegistrationHealsTheorem`, `UnhealthyWasSilentTheorem` (`HealthProofs`). Every
  record a sweep or a pass has still to write says "unhealthy" (`HealthInv`:
  `JudgedOnlyLowers` shows that Evaluate never revives a node) and is as old as its
  verdict needs (`SilentInv`); time only makes it older.
* `MovesOnlyFromUnhealthyTheorem` (`HealthProofs`) assumes `OnePass`, at most one
  repairer: the pass's list differs from the table only in shards of nodes it declared
  unhealthy (`MoveInv`). `VisitedFilesOffUnhealthyTheorem` assumes besides that no
  sweep runs (`MaxSweeps = 0`): a pass misses no placement and moves shards to nodes
  the tracker lists as healthy (`VisitInv`). Without these hypotheses both are false:
  a second pass saves what it read before.

**The other daemons.**

* `ServerTypeOKTheorem`, `AckedIsServedTheorem` (`ShardServerProofs`). `Served`: also a
  handler that has written and not yet answered has its shard in the bucket.
* `OvershootBoundedTheorem` (`ShardServerProofs`). What counts is the bucket together
  with the payloads that passed the check and are not written yet: an admission adds a
  payload to the sum, a write moves one from one side to the other or replaces an older
  one, a failed write and a restart only take away. While a handler checks, the others
  can have at most one largest payload each admitted. `BytesPut` and `BytesWithout` say
  what putting and taking out do to a sum, `BytesBounded` bounds it; they rest on
  `FoldExists` and `FoldTakesOut`, by induction over the finite domain.
* `RateKeptTheorem`, `LimiterTypeOK` (`LimiterProofs`). The inductive invariant is
  a budget: what has been granted since the mark, plus what the bucket would hold
  after a refill now, is at most one bucket plus the time elapsed.
* `RelayTypeOKTheorem`, `DeliveredInOrderTheorem`, `EndsDrainedTheorem`
  (`RelayProofs`). In each direction the bytes read, those on the reader's connection
  and those on the writer's are numbered consecutively as long as the reader can
  read (`Upward`, `DownwardOpen`); while the client waits, one OK is ahead of them
  (`DownwardWait`), and at most one byte is counted as trimmed with it when the session
  opens (`HandshakeStep`). `Drained`: a copy that has ended met the end of its input or a
  closed destination. `Phases` says how far the parties are relative to each other; it
  is what keeps bytes from being written before the handshake is over.

**The packages** (`PackagesProofs`, `CodingProofs`). They share no state, so a step of the whole is,
for each package, a step of its own or none (`InviteSteps` and the like), and each has
an invariant of its own.

* `UsesBoundedTheorem`, `AddressMatchesKeyTheorem`: `InviteInv`. A token's MAC is for
  the text it was issued with and its drawn identifier is its own, so a token that
  verifies has the text of an issued one and one of its splits (`VerifiedWasIssued`); a
  call past the signature check is for such a token; uses counted are uses accepted.
* `SnapshotKeptTheorem`: `SnapshotInv`. What was returned is found under its
  identifier, itself or another one returned with it. `TunnelsClosableTheorem`:
  `IngressInv`. The map holds active tunnels under their own identifiers, and the
  tunnel of a call under way is not yet in it.
* `SelectsLeastLoadedTheorem`, `StatefulStaysPinnedTheorem`: `RequestOK`. At each
  candidate the running choice is the first of the least loaded that fit so far
  (`Scanned`); that loads compare transitively is a lemma on fractions.
* `DeployedAsApprovedTheorem`, `AddressesUniqueTheorem`: `ComputeInv`. Where the deploy
  command is, the scheduler is, with an approved manifest and the local node as the
  only candidate; the address of a first start is below every later one.
* `ListedFilesCompleteTheorem`: `DesktopInv`. Every listed file has all its shards and the
  directory loses nothing; once the last shard is written every shard of every chunk of
  the new file is there (`WrittenOK`), and only then is it listed.
* `ImplementsContactBookTheorem`: `WellPlaced`. A contact is in the bucket of the
  prefix it shares with the table, once, so a bucket's length is the number of known
  nodes of its class (`ClassSize`); that there is such a prefix for every identifier is
  the least-number principle (`PrefixExists`). Storing and removing are shown to change
  one entry of the book (`Stored`, `TakenOut`).
* `FindsClosestTheorem`: `RoutingInv`, which is `WellPlaced`. Gathering the buckets lists
  every contact once (`AllContactsAre`, bucket by bucket). Comparing bytes is comparing
  distances, because the first bit that differs outweighs all that follow
  (`HornerLess`, `DistanceIs`). Distances of different nodes differ, so the places that
  sorting gives are a permutation (`PlacesAre`), and cutting the list off leaves the
  nearest.
* `RoundTripTheorem` (`CodingProofs`): `CodingInv`. Each shard on the shelf is lost or
  is what Encode made of its chunk. `EncodeIs`, `ReconstructIs`, `SplitIs` and
  `ReassembleIs` say what the four functions compute, as slices of the data: the parts
  of a chunk one after the other are the chunk and its padding, any K shards of it
  contain a parity shard or all data, and the chunks one after the other are the file.
* `PackagesTypeOKTheorem`: the types of all packages, from the invariants above.

**Only model-checked.** `PassesEnd`, `CommandsEnd` and `SessionEnds`: liveness under
fairness, which the prover does not handle.

## Not modelled

* Message encoding and authentication, encryption, configuration files, metrics, the
  window and the front end of the desktop application, `aldea init` and `aldea
  status`: pure conversions, pure I/O or display. They keep no state that a decision
  depends on.
* NAT discovery: one request and the parsing of its answer. It keeps nothing between
  calls; what it does not do is compare the transaction identifier (nat.go:78), so on a
  socket that is used again a late answer is taken for the current one.
* The engine for systems other than Linux, which refuses every call.
* The Reed-Solomon arithmetic, a library's: the model uses its contract.
* Floating-point rounding in the limiter and in the scheduler's scores.
* Reuse of a file identifier. The address space of workloads: from the 246th entry on
  the engine forms addresses that do not exist (runtime_linux.go:38), beyond any bound
  TLC can reach.

## Plan

1. Done: the storage network, its abstract specification, the shard server, the
   limiter, the relay, and the first theorems.
2. Done: the routing table with its abstract specification, the scheduler, runtime and
   compute commands, snapshots, tunnels, the desktop application's files, and the
   chunker and encoder byte by byte.
3. Done: all safety properties, for every instance, and both refinements.
4. Left: the limit on the uses of a token across restarts of the application, and the
   load of workloads already started in deploy's choice, which the code does not keep
   (see the hazards without a property).
