---------------------------- MODULE ShardServer ----------------------------
(***************************************************************************)
(* One node's shard server in detail (cmd/noded/server.go): net/http runs  *)
(* a handler per request, and handlePut checks the quota in one bbolt      *)
(* transaction (storageUsed) and stores the shard in another, so handlers  *)
(* interleave between the two.  Noded.tla uses the outcome of a handler;   *)
(* this module is about the quota and about what an answer means.          *)
(*                                                                         *)
(* A payload is a member of Payloads with a size.  Requests that fail to   *)
(* decode or authenticate change nothing and are left out.                 *)
(***************************************************************************)
EXTENDS Integers, FiniteSets, FiniteSetsExt

CONSTANTS
    Handlers,           \* handlers that may run at the same time
    Shards,             \* shard identifiers
    Payloads, Size,     \* what may be stored, and Size[d] in bytes
    Quota,              \* cfg.StorageAllocated
    MaxRestarts         \* bound on restarts

\* A request is read into memory, so one of the payloads is the largest.
ASSUME SizeAssumption == /\ Size \in [Payloads -> Nat]
                         /\ \E d \in Payloads : \A e \in Payloads : Size[d] >= Size[e]
ASSUME HandlersAssumption == IsFiniteSet(Handlers) /\ Handlers # {}
ASSUME QuotaAssumption == Quota \in Nat /\ MaxRestarts \in Nat

VARIABLES
    bucket,             \* bucket "shards": shard -> payload
    req,                \* req[h]: the request handler h works on
    acked,              \* history: <<shard, payload>> answered with Success
    restarts

vars == <<bucket, req, acked, restarts>>

Idle == [pc |-> "idle"]
Request(pc, s, d) == [pc |-> pc, shard |-> s, data |-> d]

TypeOK == /\ DOMAIN bucket \subseteq Shards
          /\ bucket \in [DOMAIN bucket -> Payloads]
          /\ req \in [Handlers -> {Idle} \cup
                        {Request(pc, s, d) : pc \in {"check", "write", "answer"},
                                             s \in Shards, d \in Payloads}]
          /\ acked \subseteq Shards \X Payloads
          /\ restarts \in 0 .. MaxRestarts

Init == /\ bucket = [s \in {} |-> 0]
        /\ req = [h \in Handlers |-> Idle]
        /\ acked = {}
        /\ restarts = 0

-----------------------------------------------------------------------------

\* The bytes of a map to payloads.
Bytes(map) == MapThenSumSet(LAMBDA s : Size[map[s]], DOMAIN map)

\* storageUsed
StorageUsed == Bytes(bucket)

\* A put request is read, decoded and authenticated.
ReceivePut(h) == /\ req[h] = Idle
                 /\ \E s \in Shards, d \in Payloads :
                       req' = [req EXCEPT ![h] = Request("check", s, d)]
                 /\ UNCHANGED <<bucket, acked, restarts>>

\* Mutant: the size of the new shard is not counted.
FitsWithoutNew(d) == StorageUsed <= Quota

\* A shard that replaces one of the same name is counted on top of it.
Fits(d) == StorageUsed + Size[d] <= Quota

\* The quota check: 507, or on to the write.
CheckQuota(h) ==
    /\ req[h].pc = "check"
    /\ req' = [req EXCEPT ![h] = IF Fits(req[h].data)
                                 THEN [@ EXCEPT !.pc = "write"] ELSE Idle]
    /\ UNCHANGED <<bucket, acked, restarts>>

\* Mutant: key and value of the Put are swapped.
PutSwapped(s, d) == bucket' = [t \in DOMAIN bucket \cup {d} |->
                                 IF t = d THEN s ELSE bucket[t]]

\* tx.Bucket(bucketShards).Put
Put(s, d) == bucket' = [t \in DOMAIN bucket \cup {s} |->
                          IF t = s THEN d ELSE bucket[t]]

\* Mutant: the answer does not depend on the transaction.
WriteIgnoresError(h) ==
    /\ req[h].pc = "write"
    /\ Put(req[h].shard, req[h].data) \/ UNCHANGED bucket
    /\ req' = [req EXCEPT ![h].pc = "answer"]
    /\ UNCHANGED <<acked, restarts>>

\* db.Update: committed, or an error answered with 500.
Write(h) ==
    /\ req[h].pc = "write"
    /\ \/ /\ Put(req[h].shard, req[h].data)
          /\ req' = [req EXCEPT ![h].pc = "answer"]
       \/ /\ UNCHANGED bucket
          /\ req' = [req EXCEPT ![h] = Idle]
    /\ UNCHANGED <<acked, restarts>>

\* writeResponse with Success, delivered to the client or not.
Answer(h) ==
    /\ req[h].pc = "answer"
    /\ acked' \in {acked, acked \cup {<<req[h].shard, req[h].data>>}}
    /\ req' = [req EXCEPT ![h] = Idle]
    /\ UNCHANGED <<bucket, restarts>>

\* The process is killed and started again: requests are gone, bbolt is not.
Restart == /\ restarts < MaxRestarts
           /\ restarts' = restarts + 1
           /\ req' = [h \in Handlers |-> Idle]
           /\ UNCHANGED <<bucket, acked>>

\* handleGet, in one transaction: the payload of the shard, if there is one.
HandleGet(s) == {bucket[t] : t \in DOMAIN bucket \cap {s}}

Next == Restart \/ \E h \in Handlers : ReceivePut(h) \/ CheckQuota(h) \/ Write(h) \/ Answer(h)

Spec == Init /\ [][Next]_vars

-----------------------------------------------------------------------------
(* Properties *)

MaxSize == Max({Size[d] : d \in Payloads})
Writing == {h \in Handlers : req[h].pc = "write"}
Admitted == [h \in Writing |-> req[h].data]

\* Handlers that passed the quota check before the others wrote can exceed
\* the quota, but by no more than the shards of all of them but one: counting
\* what is about to be written, usage stays below Quota plus
\* (Handlers - 1) times the largest shard.
OvershootBounded ==
    StorageUsed + Bytes(Admitted) <= Quota + (Cardinality(Handlers) - 1) * MaxSize

\* A shard whose put was answered with Success is found by every later
\* handleGet, through restarts, concurrent puts and failed transactions.
AckedIsServed == \A a \in acked : HandleGet(a[1]) # {}

\* server.go:74, "storage quota exceeded", and README.md:25, "disk quota
\* management": what is stored never exceeds StorageAllocated.
QuotaRespected == StorageUsed <= Quota
=============================================================================
