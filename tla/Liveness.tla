------------------------------ MODULE Liveness ------------------------------
(***************************************************************************)
(* The liveness sweep (internal/tracker/liveness.go, ApplyLiveness): a     *)
(* snapshot of the node table, then one RegisterNode transaction for every *)
(* node whose IsHealthy differs from the evaluation of the snapshot.  The  *)
(* record written is the snapshot's, whatever the table holds by then.     *)
(***************************************************************************)
EXTENDS Noded

CONSTANT MaxSweeps      \* bound on sweeps

ASSUME SweepAssumption == MaxSweeps \in Nat

VARIABLES sweep,        \* the records still to be written back
          sweeps        \* sweeps begun

sweepVars == <<sweep, sweeps>>

SweepTypeOK == /\ sweep \subseteq NodeWrite
               /\ sweeps \in Nat

SweepInit == sweep = {} /\ sweeps = 0

\* Mutant: the record written back is stamped with the time of the sweep.
JudgedNow(rec) == [healthy |-> Evaluate(rec, now) = "healthy", lastSeen |-> now]

\* shouldBeHealthy
Judged(rec) == [rec EXCEPT !.healthy = (Evaluate(rec, now) = "healthy")]

\* ListNodes and the evaluation of the snapshot.
SweepBegin ==
    /\ sweep = {}
    /\ sweeps < MaxSweeps
    /\ sweeps' = sweeps + 1
    /\ sweep' = {[node |-> n, rec |-> Judged(nodeTable[n])] :
                   n \in {m \in DOMAIN nodeTable : Judged(nodeTable[m]) # nodeTable[m]}}
    /\ UNCHANGED <<trackerVars, nodedVars>>

\* One RegisterNode of the loop.
SweepWrite ==
    /\ \E w \in sweep : /\ RegisterNode(w.node, w.rec)
                        /\ sweep' = sweep \ {w}
    /\ UNCHANGED <<fileTable, now, nodedVars, sweeps>>

\* RegisterNode returned an error: the sweep stops there.
SweepFails == /\ sweep # {}
              /\ sweep' = {}
              /\ UNCHANGED <<trackerVars, nodedVars, sweeps>>
=============================================================================
