----------------------------- MODULE Scheduler -----------------------------
(***************************************************************************)
(* Placement of compute workloads (internal/scheduler): a manifest is      *)
(* parsed, SelectNode scans the candidates for the least loaded node that  *)
(* fits, and RescheduleOnNodeFailure looks for another one when that node  *)
(* has failed.                                                             *)
(*                                                                         *)
(* The scan is a loop of its own step each, so that its running choice is  *)
(* visible.  A score is a fraction of integers and compared exactly; the   *)
(* code computes it in floating point.  Image, ports and environment are   *)
(* left out; a name is there or missing.                                   *)
(***************************************************************************)
EXTENDS Integers, Sequences, FiniteSets

CONSTANTS
    Manifests,          \* manifests as decoded from YAML, before validation
    Capabilities,       \* candidate nodes
    MaxCandidates

ManifestType == [id : STRING, named : BOOLEAN, type : STRING, cpu : Int, mem : Int]
\* Amounts of a machine: none is negative.
NodeComputeCapability == [nodeID : STRING, linux : BOOLEAN, enabled : BOOLEAN,
                          healthy : BOOLEAN, totalCPU : Nat, allocCPU : Nat,
                          totalMem : Nat, allocMem : Nat]

ASSUME SchedulerAssumption == /\ Manifests \subseteq ManifestType
                              /\ Capabilities \subseteq NodeComputeCapability
                              /\ \A c \in Capabilities : c.nodeID # ""
                              /\ MaxCandidates \in Nat

VARIABLE request        \* the workload being placed, and the scan under way

\* Lists of candidates name a node once.
CandidateLists ==
    {s \in UNION {[1 .. n -> Capabilities] : n \in 0 .. MaxCandidates} :
        \A i, j \in DOMAIN s : i # j => s[i].nodeID # s[j].nodeID}

Nothing == ""
NoBest == 0
NoRequest == [pc |-> "idle"]

\* best is an index into cands.
Request(pc, raw, manifest, dead, cands) ==
    [pc |-> pc, raw |-> raw, manifest |-> manifest, dead |-> dead,
     cands |-> cands, i |-> 1, best |-> NoBest]

SchedulerInit == request = NoRequest

-----------------------------------------------------------------------------
(* The manifest *)

\* strings.ToLower; one spelling of each type stands for all that are not in
\* lower case.
ToLower(type) == CASE type = "Stateful" -> "stateful"
                   [] type = "Stateless" -> "stateless"
                   [] OTHER -> type

ManifestValid(m) == /\ m.id # Nothing /\ m.named
               /\ m.cpu > 0 /\ m.mem > 0
               /\ ToLower(m.type) \in {"stateless", "stateful"}

\* Mutant: the type is checked in lower case and kept as written.
TypeKept(m) == m

\* m.Type = wt
Normalised(m) == [m EXCEPT !.type = ToLower(@)]

\* The type of a request whose candidates are among nodes.
SchedulerTypeOK(nodes) ==
    \/ request.pc \in {"idle", "invalid"}
    \/ /\ request.pc \in {"parsed", "scan", "placed", "unplaced", "pinned"}
       /\ request.raw \in Manifests
       /\ request.manifest \in {Normalised(m) : m \in Manifests}
       /\ request.dead \in {Nothing} \cup {c.nodeID : c \in nodes}
       /\ request.cands \in Seq(nodes)
       /\ request.best \in 0 .. Len(request.cands)
       /\ request.i \in 1 .. Len(request.cands) + 1

ParseManifestYAML(m) ==
    /\ request.pc \notin {"parsed", "scan"}
    /\ request' = IF ManifestValid(m)
                  THEN Request("parsed", m, Normalised(m), Nothing, <<>>)
                  ELSE [pc |-> "invalid"]

-----------------------------------------------------------------------------
(* SelectNode *)

AvailableCPU(c) == IF c.totalCPU < c.allocCPU THEN 0 ELSE c.totalCPU - c.allocCPU
AvailableMemoryMB(c) == IF c.totalMem < c.allocMem THEN 0 ELSE c.totalMem - c.allocMem

Fits(m, c) == /\ c.linux /\ c.enabled /\ c.healthy
              /\ AvailableCPU(c) >= m.cpu /\ AvailableMemoryMB(c) >= m.mem

\* The score (free CPU / total + free memory / total) / 2 as a fraction: a
\* candidate that fits has free CPU and memory, hence no total of 0.
ScoreOver(c) == AvailableCPU(c) * c.totalMem + AvailableMemoryMB(c) * c.totalCPU
ScoreUnder(c) == c.totalCPU * c.totalMem

\* Mutant: the fullest node that fits is preferred.
MostLoaded(c, best) == ScoreOver(c) * ScoreUnder(best) < ScoreOver(best) * ScoreUnder(c)

\* score > maxScore
Better(c, best) == ScoreOver(c) * ScoreUnder(best) > ScoreOver(best) * ScoreUnder(c)

SelectNode(cands) ==
    /\ request.pc = "parsed"
    /\ request' = [request EXCEPT !.pc = "scan", !.cands = cands]

\* One iteration of the loop over the candidates.
Consider ==
    LET c == request.cands[request.i] IN
    /\ request.pc = "scan" /\ request.i <= Len(request.cands)
    /\ request' = [request EXCEPT !.i = @ + 1,
         !.best = IF /\ Fits(request.manifest, c)
                     /\ @ = NoBest \/ Better(c, request.cands[@])
                  THEN request.i ELSE @]

SelectReturns ==
    /\ request.pc = "scan" /\ request.i > Len(request.cands)
    /\ request' = [request EXCEPT !.pc = IF request.best = NoBest THEN "unplaced" ELSE "placed"]

\* The candidates other than dead, in their order: the list is the one member.
Filtered(cands, dead) ==
    LET others == {i \in DOMAIN cands : cands[i].nodeID # dead} IN
    {[i \in DOMAIN pos |-> cands[pos[i]]] :
        pos \in {p \in [1 .. Cardinality(others) -> others] :
                  \A i, j \in DOMAIN p : i < j => p[i] < p[j]}}

\* The node chosen for the workload has failed.
RescheduleOnNodeFailure(cands) ==
    LET dead == request.cands[request.best].nodeID IN
    /\ request.pc = "placed"
    /\ \/ /\ request.manifest.type = "stateful"
          /\ request' = [request EXCEPT !.pc = "pinned"]
       \/ /\ request.manifest.type # "stateful"
          /\ \E filtered \in Filtered(cands, dead) :
                request' = Request("scan", request.raw, request.manifest, dead, filtered)

SchedulerNext == \/ \E m \in Manifests : ParseManifestYAML(m)
                 \/ \E cands \in CandidateLists : \/ SelectNode(cands)
                                                  \/ RescheduleOnNodeFailure(cands)
                 \/ Consider \/ SelectReturns

-----------------------------------------------------------------------------
(* Properties *)

\* What is in use of c, as a fraction of 2 * ScoreUnder(c).
Load(c) == LET used(alloc, total) == IF alloc > total THEN total ELSE alloc
           IN  used(c.allocCPU, c.totalCPU) * c.totalMem + used(c.allocMem, c.totalMem) * c.totalCPU

LessLoaded(a, b) == Load(a) * ScoreUnder(b) < Load(b) * ScoreUnder(a)

\* The documented rules of SelectNode, of the workload as written.
Suitable(c) == /\ c.linux /\ c.enabled /\ c.healthy
               /\ c.nodeID # request.dead
               /\ c.allocCPU + request.raw.cpu <= c.totalCPU
               /\ c.allocMem + request.raw.mem <= c.totalMem

\* A placement, first or after a failure, goes to a suitable candidate other
\* than the failed node, and no suitable candidate is less loaded; the first
\* of equals wins.  Placement fails only if no candidate is suitable.
SelectsLeastLoaded ==
    LET cand(i) == request.cands[i] IN
    /\ request.pc = "placed" =>
          /\ Suitable(cand(request.best))
          /\ \A i \in DOMAIN request.cands : Suitable(cand(i)) =>
                /\ ~LessLoaded(cand(i), cand(request.best))
                /\ i < request.best => LessLoaded(cand(request.best), cand(i))
    /\ request.pc = "unplaced" => \A i \in DOMAIN request.cands : ~Suitable(cand(i))

\* A stateful workload, however its type is written, is never given another
\* node when the one it runs on fails.
StatefulStaysPinned ==
    request.pc \in {"scan", "placed", "unplaced"} /\ request.raw.type \in {"stateful", "Stateful"}
       => request.dead = Nothing
=============================================================================
