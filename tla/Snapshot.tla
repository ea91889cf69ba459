------------------------------ MODULE Snapshot ------------------------------
(***************************************************************************)
(* Snapshots of workload volumes (internal/snapshot, Engine).              *)
(*                                                                         *)
(* CreateSnapshot reads the volume, names the snapshot after workload and  *)
(* second, and only then takes the lock to register it: three steps that   *)
(* other calls, the workload and the clock interleave with.  Contents are  *)
(* numbered versions, 0 an empty volume; the storage file identifier is a  *)
(* hash of the contents, hence the version.  Retrieval is simulated: a     *)
(* restore writes a fixed text.                                            *)
(***************************************************************************)
EXTENDS WallClock

CONSTANTS
    SnapCalls,          \* goroutines in CreateSnapshot
    SnapWorkloads,
    MaxVersion          \* bound on the versions of a volume

ASSUME SnapshotAssumption == MaxVersion \in Nat

VARIABLES
    volume,             \* volume[w]: the contents of the volume of workload w
    snapCall,           \* snapCall[c]: the CreateSnapshot call of c
    snapshots,          \* snapshot identifier -> metadata
    taken,              \* history: the metadata CreateSnapshot returned
    target              \* the file RestoreSnapshot writes

snapshotVars == <<volume, snapCall, snapshots, taken, target>>

Version == 0 .. MaxVersion
SnapIdle == [pc |-> "idle"]

SnapshotTypeOK ==
    /\ volume \in [SnapWorkloads -> Version]
    /\ \A t \in taken : /\ t.workload \in SnapWorkloads /\ t.data \in Version
                        /\ t.second \in 0 .. MaxSeconds /\ t.id \in DOMAIN snapshots
    /\ \A id \in DOMAIN snapshots : snapshots[id] \in taken
    /\ \A c \in SnapCalls : snapCall[c].pc \in {"idle", "read", "named"}
    /\ target \in {"old", "truncated", "simulated"}

SnapshotInit ==
    /\ volume = [w \in SnapWorkloads |-> 0]
    /\ snapCall = [c \in SnapCalls |-> SnapIdle]
    /\ snapshots = [id \in {} |-> 0] /\ taken = {} /\ target = "old"

-----------------------------------------------------------------------------
(* The workload *)

VolumeWritten(w) ==
    /\ volume[w] < MaxVersion
    /\ volume' = [volume EXCEPT ![w] = @ + 1]
    /\ UNCHANGED <<snapCall, snapshots, taken, target>>

-----------------------------------------------------------------------------
(* Engine *)

\* Mutant: the workload is not part of the identifier.
SnapshotIDOfSecond(w, s) == <<s>>

\* snap-<workload>-<second>
SnapshotID(w, s) == <<w, s>>

\* os.ReadFile; a volume that cannot be read ends the call.
SnapshotRead(c, w) ==
    /\ snapCall[c].pc = "idle"
    /\ snapCall' = [snapCall EXCEPT ![c] = [pc |-> "read", workload |-> w, data |-> volume[w]]]
    /\ UNCHANGED <<volume, snapshots, taken, target>>

SnapshotName(c) ==
    LET call == snapCall[c] IN
    /\ call.pc = "read"
    /\ snapCall' = [snapCall EXCEPT ![c] =
         [pc |-> "named",
          meta |-> [id |-> SnapshotID(call.workload, second), workload |-> call.workload,
                    data |-> call.data, second |-> second]]]
    /\ UNCHANGED <<volume, snapshots, taken, target>>

\* e.snapshots[snapID] = meta, under the lock.
SnapshotRegister(c) ==
    LET meta == snapCall[c].meta IN
    /\ snapCall[c].pc = "named"
    /\ snapshots' = [id \in DOMAIN snapshots \cup {meta.id} |->
                       IF id = meta.id THEN meta ELSE snapshots[id]]
    /\ taken' = taken \cup {meta}
    /\ snapCall' = [snapCall EXCEPT ![c] = SnapIdle]
    /\ UNCHANGED <<volume, target>>

\* A snapshot of an empty volume, or of no workload, is restored by writing
\* nothing; the write of any other may fail after the file was truncated.
RestoreSnapshot(id) ==
    /\ id \in DOMAIN snapshots
    /\ target' \in IF snapshots[id].data > 0 /\ snapshots[id].workload # ""
                   THEN {"simulated", "truncated", target}
                   ELSE {target}
    /\ UNCHANGED <<volume, snapCall, snapshots, taken>>

\* Without a workload, all of them.
ListSnapshots(w) ==
    {snapshots[id] : id \in {i \in DOMAIN snapshots : w = "" \/ snapshots[i].workload = w}}

SnapshotNext ==
    \/ \E w \in SnapWorkloads : VolumeWritten(w) \/ \E c \in SnapCalls : SnapshotRead(c, w)
    \/ \E c \in SnapCalls : SnapshotName(c) \/ SnapshotRegister(c)
    \/ \E id \in DOMAIN snapshots : RestoreSnapshot(id)

-----------------------------------------------------------------------------
(* Properties *)

\* A snapshot that was returned stays listed for its workload with the
\* contents it was taken from, unless another snapshot of that workload got
\* its identifier in the same second: no call for another workload and no
\* call in another second, however they overlap, replaces it.
SnapshotKept ==
    \A t \in taken :
       \/ t \in ListSnapshots(t.workload)
       \/ \E u \in taken \ {t} : u.workload = t.workload /\ u.second = t.second
=============================================================================
