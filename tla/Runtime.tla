------------------------------ MODULE Runtime ------------------------------
(***************************************************************************)
(* The workload engine of a Linux node (internal/runtime, Engine).  The    *)
(* engine maps workload identifiers to status objects; callers keep        *)
(* pointers to the objects it returned, so the objects are a sequence of   *)
(* their own and the map holds positions in it.                            *)
(*                                                                         *)
(* Process identifier and address are both a base plus the number of       *)
(* entries in the map (1000 + n and 10.244.0.<10 + n>): slot is that n.    *)
(***************************************************************************)
EXTENDS Integers, Sequences, FiniteSets

CONSTANTS WorkloadIDs, MaxStarts        \* MaxStarts bounds the objects made

ASSUME RuntimeAssumption == MaxStarts \in Nat

VARIABLES
    statuses,           \* every ContainerStatus returned, oldest first
    workloads           \* workload identifier -> position in statuses

runtimeVars == <<statuses, workloads>>

ContainerStatus == [id : WorkloadIDs, state : {"running", "stopped"}, slot : Nat]

RuntimeTypeOK == /\ statuses \in Seq(ContainerStatus)
                 /\ DOMAIN workloads \subseteq WorkloadIDs
                 /\ \A id \in DOMAIN workloads : workloads[id] \in DOMAIN statuses

RuntimeInit == statuses = <<>> /\ workloads = [id \in {} |-> 0]

\* A workload that is known already gets a new object in place of its old one.
StartWorkload(id) ==
    /\ Len(statuses) < MaxStarts
    /\ statuses' = Append(statuses, [id |-> id, state |-> "running",
                                     slot |-> Cardinality(DOMAIN workloads)])
    /\ workloads' = [w \in DOMAIN workloads \cup {id} |->
                       IF w = id THEN Len(statuses) + 1 ELSE workloads[w]]

\* Mutant: a stopped workload is taken out of the map.
StopForgets(id) ==
    /\ id \in DOMAIN workloads
    /\ statuses' = [statuses EXCEPT ![workloads[id]].state = "stopped"]
    /\ workloads' = [w \in DOMAIN workloads \ {id} |-> workloads[w]]

\* ErrWorkloadNotFound otherwise.
StopWorkload(id) ==
    /\ id \in DOMAIN workloads
    /\ statuses' = [statuses EXCEPT ![workloads[id]].state = "stopped"]
    /\ UNCHANGED workloads

GetWorkloadStatus(id) == statuses[workloads[id]]
ListWorkloads == {GetWorkloadStatus(id) : id \in DOMAIN workloads}

-----------------------------------------------------------------------------
(* Properties *)

StartedOnce(id) == Cardinality({i \in DOMAIN statuses : statuses[i].id = id}) = 1

\* Two workloads in the listing that were each started once never have the
\* same address and process identifier, although both are derived from the
\* number of entries, whatever was stopped or started again in between.  (A
\* workload that was itself started again may share its address.)
AddressesUnique ==
    \A s, t \in ListWorkloads :
       StartedOnce(s.id) /\ StartedOnce(t.id) /\ s.slot = t.slot => s.id = t.id
=============================================================================
