------------------------------ MODULE Compute ------------------------------
(***************************************************************************)
(* The compute commands of the CLI (cmd/aldea/compute.go): deploy asks for *)
(* consent, places the workload and starts it in the engine of the         *)
(* process; stop ends it.  The commands of one process run one after the   *)
(* other.  list only shows ListWorkloads, recover and expose only print.   *)
(***************************************************************************)
EXTENDS Scheduler, Runtime

ASSUME ComputeAssumption == \A m \in Manifests : m.id # Nothing => m.id \in WorkloadIDs

VARIABLES
    deploy,             \* where the deploy command is
    approved            \* history: the manifests the user consented to run

computeVars == <<request, runtimeVars, deploy, approved>>

\* The only candidate is the local node, always as if nothing ran on it:
\* 4 cores and 4096 MB, in units of 256 MB.
LocalNode == [nodeID |-> "local-node", linux |-> TRUE, enabled |-> TRUE,
              healthy |-> TRUE, totalCPU |-> 4, allocCPU |-> 0,
              totalMem |-> 16, allocMem |-> 0]

ComputeTypeOK == /\ SchedulerTypeOK(Capabilities \cup {LocalNode}) /\ RuntimeTypeOK
                 /\ deploy \in {"idle", "consent", "schedule", "start"}
                 /\ approved \subseteq Manifests

ComputeInit == SchedulerInit /\ RuntimeInit /\ deploy = "idle" /\ approved = {}

\* A file that cannot be read or parsed ends the command.
DeployParse ==
    /\ deploy = "idle"
    /\ \E m \in Manifests :
          /\ ParseManifestYAML(m)
          /\ deploy' = IF ManifestValid(m) THEN "consent" ELSE "idle"
    /\ UNCHANGED <<runtimeVars, approved>>

\* The answer is y or yes, or -y was given; then SelectNode is called.
DeployConsent ==
    /\ deploy = "consent"
    /\ approved' = approved \cup {request.raw}
    /\ SelectNode(<<LocalNode>>)
    /\ deploy' = "schedule"
    /\ UNCHANGED runtimeVars

\* Mutant: the user says no, and the command goes on.
DeployAnyway ==
    /\ deploy = "consent"
    /\ SelectNode(<<LocalNode>>)
    /\ deploy' = "schedule"
    /\ UNCHANGED <<runtimeVars, approved>>

\* "Aborted deployment."
DeployAborts ==
    /\ deploy = "consent"
    /\ request' = NoRequest
    /\ deploy' = "idle"
    /\ UNCHANGED <<runtimeVars, approved>>

DeploySchedule ==
    /\ deploy = "schedule"
    /\ \/ Consider /\ UNCHANGED deploy
       \/ /\ SelectReturns
          /\ deploy' = IF request.best = NoBest THEN "idle" ELSE "start"
    /\ UNCHANGED <<runtimeVars, approved>>

DeployStart ==
    /\ deploy = "start"
    /\ StartWorkload(request.manifest.id)
    /\ request' = NoRequest
    /\ deploy' = "idle"
    /\ UNCHANGED approved

Stop == /\ deploy = "idle"
        /\ \E id \in WorkloadIDs : StopWorkload(id)
        /\ UNCHANGED <<request, deploy, approved>>

ComputeNext == \/ DeployParse \/ DeployConsent \/ DeployAborts
               \/ DeploySchedule \/ DeployStart \/ Stop

-----------------------------------------------------------------------------
(* Properties *)

\* Whatever commands ran before, the engine has started a workload only from
\* a manifest the user consented to, and only if it fits the node: refusals,
\* aborts and failed placements of the same workload start nothing.
DeployedAsApproved ==
    \A i \in DOMAIN statuses : \E m \in approved :
       m.id = statuses[i].id /\ m.cpu <= LocalNode.totalCPU /\ m.mem <= LocalNode.totalMem
=============================================================================
