------------------------------ MODULE Packages ------------------------------
(***************************************************************************)
(* The packages beside the storage network, in one specification.  They    *)
(* share no state (snapshots and tunnels share the clock), so a behaviour  *)
(* exercises one of them: focus says which, and the others rest in their   *)
(* initial states.  What one of them may do does not depend on the others, *)
(* and the state space is the sum of theirs instead of the product.        *)
(***************************************************************************)
EXTENDS Invite, RoutingTable, Compute, Snapshot, Ingress, Desktop, Coding

VARIABLE focus

Focuses == {"invite", "routing", "scheduler", "compute", "snapshot", "ingress",
            "desktop", "coding"}

allVars == <<vars, routingVars, computeVars, second, snapshotVars, ingressVars,
             desktopVars, codingVars, focus>>

\* A file is chosen only where one is coded.
PackagesInit ==
    /\ focus \in Focuses
    /\ Init /\ NewRoutingTable /\ ComputeInit /\ ClockInit /\ SnapshotInit
    /\ IngressInit /\ DesktopInit
    /\ CodingInit /\ (focus # "coding" => original = <<>>)

InviteMoves ==
    /\ focus = "invite" /\ Next
    /\ UNCHANGED <<routingVars, computeVars, second, snapshotVars, ingressVars,
                   desktopVars, codingVars, focus>>

RoutingMoves ==
    /\ focus = "routing" /\ RoutingNext
    /\ UNCHANGED <<vars, computeVars, second, snapshotVars, ingressVars,
                   desktopVars, codingVars, focus>>

\* The scheduler on its own, with any candidates.
SchedulerMoves ==
    /\ focus = "scheduler" /\ SchedulerNext
    /\ UNCHANGED <<vars, routingVars, runtimeVars, deploy, approved, second,
                   snapshotVars, ingressVars, desktopVars, codingVars, focus>>

ComputeMoves ==
    /\ focus = "compute" /\ ComputeNext
    /\ UNCHANGED <<vars, routingVars, second, snapshotVars, ingressVars,
                   desktopVars, codingVars, focus>>

SnapshotMoves ==
    /\ focus = "snapshot"
    /\ \/ SnapshotNext /\ UNCHANGED second
       \/ SecondPasses /\ UNCHANGED snapshotVars
    /\ UNCHANGED <<vars, routingVars, computeVars, ingressVars, desktopVars, codingVars, focus>>

IngressMoves ==
    /\ focus = "ingress"
    /\ \/ IngressNext /\ UNCHANGED second
       \/ SecondPasses /\ UNCHANGED ingressVars
    /\ UNCHANGED <<vars, routingVars, computeVars, snapshotVars, desktopVars, codingVars, focus>>

DesktopMoves ==
    /\ focus = "desktop" /\ DesktopNext
    /\ UNCHANGED <<vars, routingVars, computeVars, second, snapshotVars, ingressVars,
                   codingVars, focus>>

CodingMoves ==
    /\ focus = "coding" /\ CodingNext
    /\ UNCHANGED <<vars, routingVars, computeVars, second, snapshotVars, ingressVars,
                   desktopVars, focus>>

PackagesNext == \/ InviteMoves \/ RoutingMoves \/ SchedulerMoves \/ ComputeMoves
                \/ SnapshotMoves \/ IngressMoves \/ DesktopMoves \/ CodingMoves

PackagesSpec == PackagesInit /\ [][PackagesNext]_allVars

\* Every package's state keeps its type.
PackagesTypeOK == /\ TypeOK /\ RoutingTypeOK /\ ComputeTypeOK /\ second \in 0 .. MaxSeconds
                  /\ SnapshotTypeOK /\ IngressTypeOK /\ DesktopTypeOK /\ CodingTypeOK
                  /\ focus \in Focuses
=============================================================================
