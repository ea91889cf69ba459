---------------------------- MODULE HealthProofs ----------------------------
(***************************************************************************)
(* Who may declare a node healthy: for every set of nodes, repairers and   *)
(* bounds, only the node itself, by registering.  A sweep and a pass write *)
(* back records from a snapshot that may be stale; the argument is that a  *)
(* record under way always says "unhealthy", and with it a LastSeen that   *)
(* was overdue already when the snapshot was taken.                        *)
(***************************************************************************)
EXTENDS PlacementProofs

\* No record waiting to be written back is a healthy one.
MarksUnhealthy == \A r \in Repairers : \A m \in rep[r].marks : ~m.rec.healthy
SweepUnhealthy == \A w \in sweep : ~w.rec.healthy

HealthInv == MarksUnhealthy /\ SweepUnhealthy

-----------------------------------------------------------------------------

\* The evaluation of a record differs from the record only by declaring a
\* healthy node unhealthy: Evaluate never revives a node.
LEMMA JudgedOnlyLowers ==
  ASSUME NEW rec \in NodeMetadata, Judged(rec) # rec
  PROVE  ~Judged(rec).healthy
<1>1. Judged(rec).healthy = (Evaluate(rec, now) = "healthy")
  BY DEF Judged, NodeMetadata
<1>2. CASE rec.healthy
  <2>1. CASE Evaluate(rec, now) = "healthy"
    <3>1. Judged(rec) = rec
      BY <1>2, <2>1 DEF Judged, NodeMetadata
    <3> QED
      BY <3>1
  <2> QED
    BY <1>1, <2>1
<1>3. CASE ~rec.healthy
  BY <1>1, <1>3 DEF Evaluate
<1> QED
  BY <1>2, <1>3

\* A sweep collects and keeps only records that are unhealthy.
LEMMA SweepUnhealthyNext ==
  ASSUME TypeInv, SweepUnhealthy, SweepNext
  PROVE  SweepUnhealthy'
<1>1. CASE SweepBegin
  <2>1. \A n \in DOMAIN nodeTable : nodeTable[n] \in NodeMetadata
    BY DEF TypeInv, TypeOK, TrackerTypeOK
  <2>2. \A w \in sweep' : \E n \in DOMAIN nodeTable :
           w.rec = Judged(nodeTable[n]) /\ Judged(nodeTable[n]) # nodeTable[n]
    BY <1>1 DEF SweepBegin
  <2> QED
    BY <2>1, <2>2, JudgedOnlyLowers DEF SweepUnhealthy
<1>2. CASE SweepWrite \/ SweepFails
  BY <1>2 DEF SweepWrite, SweepFails, SweepUnhealthy
<1> QED
  BY <1>1, <1>2 DEF SweepNext

\* A step of a pass drops records to be written back or, when the pass
\* begins, collects the overdue records, marked unhealthy.
LEMMA MarksStep ==
  ASSUME TypeInv, NEW r \in Repairers, RepairBegin(r) \/ RepairStep(r) \/ RepairInterrupted(r)
  PROVE  \/ rep'[r].marks \subseteq rep[r].marks
         \/ /\ now' = now
            /\ \A m \in rep'[r].marks : \E n \in DOMAIN nodeTable :
                  Overdue(nodeTable[n]) /\ m.rec = MarkUnhealthy(nodeTable[n])
<1>1. rep \in [Repairers -> PassState] /\ rep[r] \in PassState
  BY DEF TypeInv, TypeOK, RepairTypeOK
<1>2. CASE EndPass(r)
  BY <1>1, <1>2 DEF EndPass, PassTo, NoPass
<1>3. CASE RepairBegin(r) /\ ~EndPass(r)
  <2> DEFINE bad == {n \in DOMAIN nodeTable : Overdue(nodeTable[n])}
             marks == {[node |-> n, rec |-> MarkUnhealthy(nodeTable[n])] : n \in bad}
  <2>1. \A m \in marks : \E n \in DOMAIN nodeTable :
           Overdue(nodeTable[n]) /\ m.rec = MarkUnhealthy(nodeTable[n])
    OBVIOUS
  <2>2. PassTo(r, [NoPass EXCEPT !.pc = "mark", !.snap = DOMAIN nodeTable,
                                 !.unhealthy = bad, !.marks = marks])
    BY <1>3 DEF RepairBegin, EndPass
  <2> HIDE DEF bad, marks
  <2>3. rep'[r].marks = marks /\ now' = now
    BY <1>1, <1>3, <2>2 DEF RepairBegin, PassTo, NoPass, trackerVars
  <2> QED
    BY <2>1, <2>3
<1>4. CASE RepairMark(r)
  BY <1>1, <1>4 DEF RepairMark, PassTo, PassState
<1>5. CASE RepairListFiles(r)
  BY <1>1, <1>5 DEF RepairListFiles, PassTo, PassState
<1>6. CASE RepairFile(r)
  <2>1. PICK f \in rep[r].files :
           \/ \E ps, cs : PassTo(r, [rep[r] EXCEPT
                           !.pc = "chunks", !.file = f, !.files = @ \ {f},
                           !.updated = ps, !.dirty = FALSE, !.chunks = cs])
           \/ PassTo(r, [rep[r] EXCEPT !.files = @ \ {f}])
    BY <1>6 DEF RepairFile
  <2>2. CASE PassTo(r, [rep[r] EXCEPT !.files = @ \ {f}])
    BY <1>1, <2>2 DEF PassTo, PassState
  <2>3. ASSUME NEW ps, NEW cs,
               PassTo(r, [rep[r] EXCEPT !.pc = "chunks", !.file = f, !.files = @ \ {f},
                                        !.updated = ps, !.dirty = FALSE, !.chunks = cs])
        PROVE  rep'[r].marks = rep[r].marks
    BY <1>1, <2>3 DEF PassTo, PassState
  <2> QED
    BY <2>1, <2>2, <2>3
<1>7. CASE RepairChunk(r)
  BY <1>1, <1>7 DEF RepairChunk, PassTo, PassState
<1>8. CASE RepairFetch(r)
  <2>1. PICK p \in rep[r].fetch :
           \/ PassTo(r, [rep[r] EXCEPT !.fetch = @ \ {p}, !.got = @ \cup {p.shard}])
           \/ PassTo(r, [rep[r] EXCEPT !.fetch = @ \ {p}])
    BY <1>8 DEF RepairFetch
  <2>2. CASE PassTo(r, [rep[r] EXCEPT !.fetch = @ \ {p}, !.got = @ \cup {p.shard}])
    BY <1>1, <2>2 DEF PassTo, PassState
  <2>3. CASE PassTo(r, [rep[r] EXCEPT !.fetch = @ \ {p}])
    BY <1>1, <2>3 DEF PassTo, PassState
  <2> QED
    BY <2>1, <2>2, <2>3
<1>9. CASE RepairReconstruct(r) /\ ~EndPass(r)
  <2>1. PICK ps : PassTo(r, [rep[r] EXCEPT !.pc = "place", !.place = ps])
    BY <1>9 DEF RepairReconstruct
  <2> QED
    BY <1>1, <2>1 DEF PassTo, PassState
<1>10. CASE RepairSelect(r) /\ ~EndPass(r)
  <2>1. PICK n : PassTo(r, [rep[r] EXCEPT !.pc = "upload", !.target = n])
    BY <1>10 DEF RepairSelect
  <2> QED
    BY <1>1, <2>1 DEF PassTo, PassState
<1>11. CASE RepairUpload(r)
  <2>1. PICK p \in rep[r].place : PassTo(r, Moved(r, p))
    BY <1>11 DEF RepairUpload
  <2>2. Moved(r, p).marks = rep[r].marks
    BY <1>1 DEF Moved, PassState
  <2> QED
    BY <1>1, <2>1, <2>2 DEF PassTo
<1>12. CASE RepairSave(r)
  BY <1>1, <1>12 DEF RepairSave, PassTo, PassState
<1>13. CASE RepairEnd(r) \/ RepairUploadFails(r) \/ RepairInterrupted(r)
  BY <1>2, <1>13 DEF RepairEnd, RepairUploadFails, RepairInterrupted
<1> QED
  BY <1>2, <1>3, <1>4, <1>5, <1>6, <1>7, <1>8, <1>9, <1>10, <1>11, <1>12, <1>13 DEF RepairStep

\* HealthInv is preserved by every step.
LEMMA HealthInvNext == TypeInv /\ HealthInv /\ [Next]_vars => HealthInv'
<1> SUFFICES ASSUME TypeInv, HealthInv, [Next]_vars PROVE HealthInv'
  OBVIOUS
<1>1. SweepUnhealthy'
  <2>1. CASE UNCHANGED sweep
    BY <2>1 DEF HealthInv, SweepUnhealthy
  <2>2. CASE SweepNext
    BY <2>2, SweepUnhealthyNext DEF HealthInv
  <2> QED
    BY <2>1, <2>2 DEF Next, ClockNext, NodedNext, PutNext, GetNext, RepairNext, sweepVars, vars
<1>2. MarksUnhealthy'
  <2>1. CASE UNCHANGED rep
    BY <2>1 DEF HealthInv, MarksUnhealthy
  <2>2. CASE RepairNext
    <3>1. PICK r \in Repairers : RepairBegin(r) \/ RepairStep(r) \/ RepairInterrupted(r)
      BY <2>2 DEF RepairNext
    <3>2. OthersKept(r)
      BY <3>1, RepairSummary
    <3>3. \A n \in DOMAIN nodeTable : ~MarkUnhealthy(nodeTable[n]).healthy
      BY DEF MarkUnhealthy, NodeMetadata, TypeInv, TypeOK, TrackerTypeOK
    <3>4. \A m \in rep'[r].marks : ~m.rec.healthy
      BY <3>1, <3>3, MarksStep DEF HealthInv, MarksUnhealthy
    <3> QED
      BY <3>2, <3>4 DEF MarksUnhealthy, OthersKept, HealthInv
  <2> QED
    BY <2>1, <2>2 DEF Next, ClockNext, NodedNext, PutNext, GetNext, SweepNext, repairVars, vars
<1> QED
  BY <1>1, <1>2 DEF HealthInv

-----------------------------------------------------------------------------

\* The node table is written by a node's registration, a sweep or a pass.
LEMMA NodeTableStep ==
  ASSUME Next
  PROVE  \/ nodeTable' = nodeTable
         \/ \E n \in Nodes : StartNode(n) /\ RegisterNode(n, Registration(n).rec)
         \/ \E w \in late : w \notin late' /\ RegisterNode(w.node, w.rec)
         \/ \E w \in sweep : RegisterNode(w.node, w.rec)
         \/ \E r \in Repairers : \E m \in rep[r].marks : RegisterNode(m.node, m.rec)
<1>1. CASE ClockNext
  BY <1>1 DEF ClockNext, Tick
<1>2. CASE NodedNext
  BY <1>2 DEF NodedNext, StartNode, LateRegister, Listen, LateStore, Crash, trackerVars
<1>3. CASE PutNext
  BY <1>3 DEF PutNext, PutBegin, PutStep, PutSelect, PutSelectFails, PutUpload, PutUploadFails,
              PutSave, PutSaveFails, LateSave, trackerVars
<1>4. CASE GetNext
  BY <1>4 DEF GetNext, GetStep, GetBegin, GetNodes, GetChunk, GetFetch, GetReconstruct,
              GetFinish, trackerVars
<1>5. CASE RepairNext
  BY <1>5 DEF RepairNext, RepairBegin, RepairStep, RepairInterrupted, RepairMark,
              RepairListFiles, RepairFile, RepairEnd, RepairChunk, RepairFetch,
              RepairReconstruct, RepairSelect, RepairUpload, RepairUploadFails, RepairSave,
              trackerVars
<1>6. CASE SweepNext
  BY <1>6 DEF SweepNext, SweepBegin, SweepWrite, SweepFails, trackerVars
<1> QED
  BY <1>1, <1>2, <1>3, <1>4, <1>5, <1>6 DEF Next

\* A step makes an unhealthy node healthy only if that node registers.
LEMMA HealsStep ==
  ASSUME TypeInv, HealthInv, [Next]_vars, NEW n \in DOMAIN nodeTable,
         ~nodeTable[n].healthy, nodeTable'[n].healthy
  PROVE  Registers(n)
<1>1. ASSUME NEW m, NEW rec, RegisterNode(m, rec) PROVE rec.healthy /\ m = n
  BY <1>1 DEF RegisterNode
<1>2. nodeTable' # nodeTable
  OBVIOUS
<1>3. Next
  BY <1>2 DEF vars, trackerVars
<1>4. CASE \E m \in Nodes : StartNode(m) /\ RegisterNode(m, Registration(m).rec)
  <2>1. n \in Nodes /\ StartNode(n)
    BY <1>1, <1>4
  <2> QED
    BY <2>1 DEF StartNode, Registers, TypeInv, TypeOK, NodedTypeOK
<1>5. CASE \E w \in late : w \notin late' /\ RegisterNode(w.node, w.rec)
  BY <1>1, <1>5 DEF Registers
<1> QED
  BY <1>1, <1>2, <1>3, <1>4, <1>5, NodeTableStep DEF HealthInv, SweepUnhealthy, MarksUnhealthy

\* No sweep and no repair pass, however stale its snapshot and however many
\* run at once, turns an unhealthy node healthy: a node once declared
\* unhealthy is excluded from placements until it registers again.
THEOREM OnlyRegistrationHealsTheorem == Spec => OnlyRegistrationHeals
<1>1. Init => HealthInv
  BY DEF Init, RepairInit, SweepInit, NoPass, HealthInv, MarksUnhealthy, SweepUnhealthy
<1>2. Inv /\ HealthInv /\ [Next]_vars => HealthInv'
  BY HealthInvNext DEF Inv
<1>3. Inv /\ HealthInv /\ [Next]_vars =>
        [\A n \in DOMAIN nodeTable :
           ~nodeTable[n].healthy /\ nodeTable'[n].healthy => Registers(n)]_vars
  BY HealsStep DEF Inv
<1> QED
  BY <1>1, <1>2, <1>3, Invariance, PTL DEF Spec, OnlyRegistrationHeals

-----------------------------------------------------------------------------
(* The verdict and the LastSeen it is based on *)

\* What UnhealthyWasSilent asks of one record.
SilentRec(rec) == ~rec.healthy => \/ now - rec.lastSeen >= TransientAfter
                                  \/ now - rec.lastSeen > RepairTimeout

\* Every record, in the table or under way, that says "unhealthy" is old
\* enough; a registration says "healthy".
SweepSilent == \A w \in sweep : SilentRec(w.rec)
MarksSilent == \A r \in Repairers : \A m \in rep[r].marks : SilentRec(m.rec)
LateHealthy == \A w \in late : w.rec.healthy
SilentInv == UnhealthyWasSilent /\ SweepSilent /\ MarksSilent /\ LateHealthy

\* Time never goes back, so a record that is old enough stays so.
LEMMA SilentStays ==
  ASSUME TypeInv, [Next]_vars, NEW rec \in NodeMetadata, SilentRec(rec)
  PROVE  SilentRec(rec)'
<1>1. now \in Nat /\ (now' = now \/ now' = now + 1)
  <2>1. CASE ClockNext
    BY <2>1 DEF ClockNext, Tick, TypeInv, TypeOK, TrackerTypeOK
  <2>2. CASE NodedNext
    BY <2>2 DEF NodedNext, StartNode, LateRegister, Listen, LateStore, Crash, trackerVars,
                TypeInv, TypeOK, TrackerTypeOK
  <2>3. CASE PutNext
    BY <2>3 DEF PutNext, PutBegin, PutStep, PutSelect, PutSelectFails, PutUpload,
                PutUploadFails, PutSave, PutSaveFails, LateSave, trackerVars,
                TypeInv, TypeOK, TrackerTypeOK
  <2>4. CASE GetNext
    BY <2>4 DEF GetNext, GetStep, GetBegin, GetNodes, GetChunk, GetFetch, GetReconstruct,
                GetFinish, trackerVars, TypeInv, TypeOK, TrackerTypeOK
  <2>5. CASE RepairNext
    BY <2>5 DEF RepairNext, RepairBegin, RepairStep, RepairInterrupted, RepairMark,
                RepairListFiles, RepairFile, RepairEnd, RepairChunk, RepairFetch,
                RepairReconstruct, RepairSelect, RepairUpload, RepairUploadFails, RepairSave,
                trackerVars, TypeInv, TypeOK, TrackerTypeOK
  <2>6. CASE SweepNext
    BY <2>6 DEF SweepNext, SweepBegin, SweepWrite, SweepFails, trackerVars,
                TypeInv, TypeOK, TrackerTypeOK
  <2>7. CASE UNCHANGED vars
    BY <2>7 DEF vars, trackerVars, TypeInv, TypeOK, TrackerTypeOK
  <2> QED
    BY <2>1, <2>2, <2>3, <2>4, <2>5, <2>6, <2>7 DEF Next
<1>2. rec.lastSeen \in Nat /\ TransientAfter \in Nat /\ RepairTimeout \in Nat
  BY TimeAssumption, RepairAssumption DEF NodeMetadata
<1> QED
  BY <1>1, <1>2 DEF SilentRec

\* What a sweep or a pass writes keeps the LastSeen it judged.
LEMMA VerdictsSilent ==
  ASSUME NEW rec \in NodeMetadata, SilentRec(rec), now \in Nat
  PROVE  /\ Judged(rec) # rec => SilentRec(Judged(rec))
         /\ Overdue(rec) => SilentRec(MarkUnhealthy(rec))
<1>1. /\ Judged(rec).lastSeen = rec.lastSeen
      /\ MarkUnhealthy(rec).lastSeen = rec.lastSeen
      /\ rec.lastSeen \in Nat /\ TransientAfter \in Nat /\ RepairTimeout \in Nat
  BY TimeAssumption, RepairAssumption DEF Judged, MarkUnhealthy, NodeMetadata
<1>2. ASSUME Judged(rec) # rec PROVE SilentRec(Judged(rec))
  <2>1. CASE rec.healthy /\ Evaluate(rec, now) # "healthy"
    <3>1. ~(now - rec.lastSeen < TransientAfter)
      BY <2>1 DEF Evaluate
    <3> QED
      BY <1>1, <3>1 DEF SilentRec
  <2>2. CASE rec.healthy /\ Evaluate(rec, now) = "healthy"
    <3>1. Judged(rec) = rec
      BY <2>2 DEF Judged, NodeMetadata
    <3> QED
      BY <1>2, <3>1
  <2>3. CASE ~rec.healthy
    BY <1>1, <2>3 DEF SilentRec
  <2> QED
    BY <2>1, <2>2, <2>3
<1>3. ASSUME Overdue(rec) PROVE SilentRec(MarkUnhealthy(rec))
  BY <1>1, <1>3 DEF Overdue, SilentRec
<1> QED
  BY <1>2, <1>3

\* Every step preserves SilentInv.
LEMMA SilentInvNext == TypeInv /\ SilentInv /\ [Next]_vars => SilentInv'
<1> SUFFICES ASSUME TypeInv, SilentInv, [Next]_vars PROVE SilentInv'
  OBVIOUS
<1>1. /\ \A n \in DOMAIN nodeTable : nodeTable[n] \in NodeMetadata /\ SilentRec(nodeTable[n])
      /\ \A w \in sweep : w.rec \in NodeMetadata /\ SilentRec(w.rec)
      /\ \A r \in Repairers : \A m \in rep[r].marks : m.rec \in NodeMetadata /\ SilentRec(m.rec)
      /\ \A w \in late : w.rec.healthy
      /\ now \in Nat
  BY DEF TypeInv, TypeOK, TrackerTypeOK, SweepTypeOK, RepairTypeOK, PassState, NodedTypeOK,
         NodeWrite, SilentInv, UnhealthyWasSilent, SweepSilent, MarksSilent, LateHealthy,
         SilentRec
<1>2. /\ \A n \in DOMAIN nodeTable : SilentRec(nodeTable[n])
      /\ \A n \in DOMAIN nodeTable : Judged(nodeTable[n]) # nodeTable[n]
            => SilentRec(Judged(nodeTable[n])) /\ Judged(nodeTable[n]) \in NodeMetadata
      /\ \A n \in DOMAIN nodeTable : Overdue(nodeTable[n])
            => SilentRec(MarkUnhealthy(nodeTable[n])) /\ MarkUnhealthy(nodeTable[n]) \in NodeMetadata
  <2>1. \A rec \in NodeMetadata : Judged(rec) \in NodeMetadata /\ MarkUnhealthy(rec) \in NodeMetadata
    BY DEF Judged, MarkUnhealthy, NodeMetadata
  <2> QED
    BY <1>1, <2>1, VerdictsSilent
<1>3. \A rec \in NodeMetadata : SilentRec(rec) =>
         (~rec.healthy => \/ now' - rec.lastSeen >= TransientAfter
                          \/ now' - rec.lastSeen > RepairTimeout)
  BY SilentStays DEF SilentRec
<1> DEFINE Old(rec) == ~rec.healthy => \/ now' - rec.lastSeen >= TransientAfter
                                       \/ now' - rec.lastSeen > RepairTimeout
<1>4. /\ \A n \in DOMAIN nodeTable : Old(nodeTable[n])
      /\ \A w \in sweep : Old(w.rec)
      /\ \A r \in Repairers : \A m \in rep[r].marks : Old(m.rec)
      /\ \A n \in DOMAIN nodeTable : Judged(nodeTable[n]) # nodeTable[n] => Old(Judged(nodeTable[n]))
      /\ \A n \in DOMAIN nodeTable : Overdue(nodeTable[n]) => Old(MarkUnhealthy(nodeTable[n]))
  BY <1>1, <1>2, <1>3
<1>5. \A n \in DOMAIN nodeTable' : Old(nodeTable'[n])
  <2>1. ASSUME NEW m, NEW rec, RegisterNode(m, rec), Old(rec)
        PROVE  \A n \in DOMAIN nodeTable' : Old(nodeTable'[n])
    BY <1>4, <2>1 DEF RegisterNode
  <2>2. \A n \in Nodes : Old(Registration(n).rec)
    BY DEF Registration
  <2>3. \A w \in late : Old(w.rec)
    BY <1>1
  <2> HIDE DEF Old
  <2>4. CASE Next
    BY <1>4, <2>1, <2>2, <2>3, <2>4, NodeTableStep
  <2>5. CASE UNCHANGED vars
    BY <1>4, <2>5 DEF vars, trackerVars
  <2> QED
    BY <2>4, <2>5
<1>6. \A w \in sweep' : Old(w.rec)
  <2> HIDE DEF Old
  <2>1. CASE UNCHANGED sweep
    BY <1>4, <2>1
  <2>2. CASE SweepBegin
    <3>1. \A w \in sweep' : \E n \in DOMAIN nodeTable :
             w.rec = Judged(nodeTable[n]) /\ Judged(nodeTable[n]) # nodeTable[n]
      BY <2>2 DEF SweepBegin
    <3> QED
      BY <1>4, <3>1
  <2>3. CASE SweepWrite \/ SweepFails
    BY <1>4, <2>3 DEF SweepWrite, SweepFails
  <2> QED
    BY <2>1, <2>2, <2>3 DEF Next, ClockNext, NodedNext, PutNext, GetNext, RepairNext, SweepNext,
                            sweepVars, vars
<1>7. \A r \in Repairers : \A m \in rep'[r].marks : Old(m.rec)
  <2> HIDE DEF Old
  <2>1. CASE UNCHANGED rep
    BY <1>4, <2>1
  <2>2. CASE RepairNext
    <3>1. PICK r \in Repairers : RepairBegin(r) \/ RepairStep(r) \/ RepairInterrupted(r)
      BY <2>2 DEF RepairNext
    <3>2. OthersKept(r)
      BY <3>1, RepairSummary
    <3>3. \A m \in rep'[r].marks : Old(m.rec)
      BY <1>4, <3>1, MarksStep
    <3> QED
      BY <1>4, <3>2, <3>3 DEF OthersKept
  <2> QED
    BY <2>1, <2>2 DEF Next, ClockNext, NodedNext, PutNext, GetNext, SweepNext, repairVars, vars
<1>8. LateHealthy'
  <2>1. CASE NodedNext
    BY <1>1, <2>1 DEF NodedNext, StartNode, LateRegister, Listen, LateStore, Crash,
                      Registration, LateHealthy
  <2>2. CASE UNCHANGED late
    BY <1>1, <2>2 DEF LateHealthy
  <2>3. CASE PutNext
    <3>1. UNCHANGED late
      BY <2>3 DEF PutNext, PutBegin, PutStep, PutSelect, PutSelectFails, PutUpload,
                  PutUploadFails, PutSave, PutSaveFails, LateSave, HandlePut, PutFails, nodedVars
    <3> QED
      BY <2>2, <3>1
  <2>4. CASE GetNext
    <3>1. UNCHANGED late
      BY <2>4 DEF GetNext, GetStep, GetBegin, GetNodes, GetChunk, GetFetch, GetReconstruct,
                  GetFinish, nodedVars
    <3> QED
      BY <2>2, <3>1
  <2>5. CASE RepairNext
    <3>1. UNCHANGED late
      BY <2>5 DEF RepairNext, RepairBegin, RepairStep, RepairInterrupted, RepairMark,
                  RepairListFiles, RepairFile, RepairEnd, RepairChunk, RepairFetch,
                  RepairReconstruct, RepairSelect, RepairUpload, RepairUploadFails, RepairSave,
                  HandlePut, PutFails, nodedVars
    <3> QED
      BY <2>2, <3>1
  <2>6. CASE ClockNext \/ SweepNext
    <3>1. UNCHANGED late
      BY <2>6 DEF ClockNext, SweepNext, SweepBegin, SweepWrite, SweepFails, nodedVars
    <3> QED
      BY <2>2, <3>1
  <2> QED
    BY <2>1, <2>2, <2>3, <2>4, <2>5, <2>6 DEF Next, vars, nodedVars
<1> QED
  BY <1>5, <1>6, <1>7, <1>8
     DEF SilentInv, UnhealthyWasSilent, SweepSilent, MarksSilent, SilentRec

\* A node the tracker calls unhealthy has been silent by the LastSeen the
\* tracker holds for it, for every timeout, and however many sweeps and
\* passes write back records they read long ago.
THEOREM UnhealthyWasSilentTheorem == Spec => []UnhealthyWasSilent
<1>1. Init => SilentInv
  BY DEF Init, NewStore, NodedInit, RepairInit, SweepInit, NoPass, SilentInv,
         UnhealthyWasSilent, SweepSilent, MarksSilent, LateHealthy
<1>2. Inv /\ SilentInv /\ [Next]_vars => SilentInv'
  BY SilentInvNext DEF Inv
<1>3. SilentInv => UnhealthyWasSilent
  BY DEF SilentInv
<1> QED
  BY <1>1, <1>2, <1>3, Invariance, PTL DEF Spec

-----------------------------------------------------------------------------
(* What a single pass does to the shards of an unhealthy node *)

\* One pass at a time, as when one caller runs InspectAndRepair.
OnePass == \A r, s \in Repairers : r = s

\* A step that keeps what the pass knows of nodes and files, and one that also
\* keeps what it knows of the file it works on.
KnowsSame(r) == /\ rep'[r].visited = rep[r].visited
                /\ rep'[r].unhealthy = rep[r].unhealthy
                /\ rep'[r].marks = rep[r].marks
WorksSame(r) == /\ KnowsSame(r)
                /\ rep'[r].file = rep[r].file /\ rep'[r].updated = rep[r].updated
                /\ rep'[r].dirty = rep[r].dirty

\* The steps of a pass, in the order of the code.
PassMoves(r) ==
    LET old == rep[r]
        new == rep'[r] IN
    \/ /\ new.pc = "idle" /\ new.visited = {} /\ new.unhealthy = {} /\ fileTable' = fileTable
    \/ /\ new.pc = "mark" /\ new.visited = {} /\ new.unhealthy \subseteq DOMAIN nodeTable
       /\ fileTable' = fileTable
    \/ /\ old.pc = "mark" /\ new.pc = "mark"
       /\ new.visited = old.visited /\ new.unhealthy = old.unhealthy
       /\ fileTable' = fileTable
    \/ /\ old.pc = "mark" /\ new.pc = "files" /\ old.marks = {} /\ KnowsSame(r)
       /\ fileTable' = fileTable
    \/ /\ old.pc = "files" /\ new.pc = "files" /\ KnowsSame(r) /\ fileTable' = fileTable
    \/ /\ old.pc = "files" /\ new.pc = "chunks" /\ KnowsSame(r) /\ fileTable' = fileTable
       /\ new.file \in old.files /\ new.updated = fileTable[new.file] /\ ~new.dirty
       /\ new.chunks = {p.chunk : p \in {q \in new.updated : q.node \in old.unhealthy}}
    \/ /\ old.pc = "chunks" /\ new.pc = "fetch" /\ WorksSame(r) /\ fileTable' = fileTable
       /\ new.chunk \in old.chunks /\ new.chunks = old.chunks \ {new.chunk}
    \/ /\ old.pc = "fetch" /\ new.pc = "fetch" /\ WorksSame(r) /\ fileTable' = fileTable
       /\ new.chunk = old.chunk /\ new.chunks = old.chunks
    \/ /\ old.pc = "fetch" /\ new.pc = "place" /\ WorksSame(r) /\ fileTable' = fileTable
       /\ new.place = OnUnhealthy(r, old.chunk) /\ new.chunks = old.chunks
    \/ /\ old.pc = "place" /\ new.pc = "upload" /\ WorksSame(r) /\ fileTable' = fileTable
       /\ new.place = old.place /\ new.chunks = old.chunks /\ new.target \in Eligible(0)
    \/ /\ old.pc = "upload" /\ KnowsSame(r) /\ fileTable' = fileTable
       /\ new.file = old.file /\ new.dirty /\ new.chunks = old.chunks
       /\ \E p \in old.place :
             /\ new.pc = IF old.place = {p} THEN "chunks" ELSE "place"
             /\ new.updated = (old.updated \ {p}) \cup {[p EXCEPT !.node = old.target]}
             /\ new.place = old.place \ {p}
    \/ /\ old.pc = "chunks" /\ new.pc = "files" /\ old.chunks = {}
       /\ new.visited = old.visited \cup {old.file}
       /\ new.unhealthy = old.unhealthy /\ new.marks = old.marks
       /\ \/ old.dirty /\ SaveFilePlacement(old.file, old.updated)
          \/ ~old.dirty /\ fileTable' = fileTable

\* Every step of a pass is one of these.
LEMMA PassSummary ==
  ASSUME TypeInv, NEW r \in Repairers, RepairBegin(r) \/ RepairStep(r) \/ RepairInterrupted(r)
  PROVE  PassMoves(r)
<1>1. /\ rep \in [Repairers -> PassState] /\ rep[r] \in PassState
  BY DEF TypeInv, TypeOK, RepairTypeOK
<1>2. ASSUME NEW s, PassTo(r, s) PROVE rep'[r] = s
  BY <1>1, <1>2 DEF PassTo
<1>3. CASE EndPass(r) /\ fileTable' = fileTable
  <2>1. rep'[r].pc = "idle" /\ rep'[r].visited = {} /\ rep'[r].unhealthy = {}
    BY <1>2, <1>3 DEF EndPass, NoPass
  <2> QED
    BY <1>3, <2>1 DEF PassMoves
<1>4. CASE RepairBegin(r) /\ ~EndPass(r)
  <2> DEFINE bad == {n \in DOMAIN nodeTable : Overdue(nodeTable[n])}
             marks == {[node |-> n, rec |-> MarkUnhealthy(nodeTable[n])] : n \in bad}
  <2>1. PassTo(r, [NoPass EXCEPT !.pc = "mark", !.snap = DOMAIN nodeTable,
                                 !.unhealthy = bad, !.marks = marks])
    BY <1>4 DEF RepairBegin, EndPass
  <2>2. bad \subseteq DOMAIN nodeTable
    OBVIOUS
  <2> HIDE DEF bad, marks
  <2>3. rep'[r].pc = "mark" /\ rep'[r].visited = {} /\ rep'[r].unhealthy = bad
    BY <1>1, <2>1 DEF PassTo, NoPass
  <2> QED
    BY <1>4, <2>2, <2>3 DEF PassMoves, RepairBegin, trackerVars
<1>5. CASE RepairMark(r)
  <2>1. /\ rep'[r].pc = rep[r].pc /\ rep'[r].visited = rep[r].visited
        /\ rep'[r].unhealthy = rep[r].unhealthy
    BY <1>1, <1>5 DEF RepairMark, PassTo, PassState
  <2> QED
    BY <1>5, <2>1 DEF RepairMark, PassMoves
<1>6. CASE RepairListFiles(r)
  <2>1. rep'[r].pc = "files" /\ KnowsSame(r)
    BY <1>1, <1>6 DEF RepairListFiles, PassTo, PassState, KnowsSame
  <2> QED
    BY <1>6, <2>1 DEF RepairListFiles, PassMoves, trackerVars
<1>7. CASE RepairFile(r)
  <2>1. PICK f \in rep[r].files :
           \/ PassTo(r, [rep[r] EXCEPT
                           !.pc = "chunks", !.file = f, !.files = @ \ {f},
                           !.updated = fileTable[f], !.dirty = FALSE,
                           !.chunks = {p.chunk : p \in {q \in fileTable[f] :
                                                          q.node \in rep[r].unhealthy}}])
           \/ PassTo(r, [rep[r] EXCEPT !.files = @ \ {f}])
    BY <1>7 DEF RepairFile, GetFilePlacement
  <2>2. CASE PassTo(r, [rep[r] EXCEPT !.files = @ \ {f}])
    <3>1. rep'[r].pc = rep[r].pc /\ KnowsSame(r)
      BY <1>1, <2>2 DEF PassTo, PassState, KnowsSame
    <3> QED
      BY <1>7, <3>1 DEF RepairFile, PassMoves, trackerVars
  <2>3. CASE PassTo(r, [rep[r] EXCEPT
                           !.pc = "chunks", !.file = f, !.files = @ \ {f},
                           !.updated = fileTable[f], !.dirty = FALSE,
                           !.chunks = {p.chunk : p \in {q \in fileTable[f] :
                                                          q.node \in rep[r].unhealthy}}])
    <3> DEFINE cs == {p.chunk : p \in {q \in fileTable[f] : q.node \in rep[r].unhealthy}}
    <3>1. PassTo(r, [rep[r] EXCEPT !.pc = "chunks", !.file = f, !.files = @ \ {f},
                                   !.updated = fileTable[f], !.dirty = FALSE, !.chunks = cs])
      BY <2>3
    <3> HIDE DEF cs
    <3>2. /\ rep'[r].pc = "chunks" /\ rep'[r].file = f /\ rep'[r].updated = fileTable[f]
          /\ ~rep'[r].dirty /\ rep'[r].chunks = cs /\ KnowsSame(r)
      BY <1>1, <3>1 DEF PassTo, PassState, KnowsSame
    <3> QED
      BY <1>7, <3>2 DEF RepairFile, PassMoves, trackerVars, cs
  <2> QED
    BY <2>1, <2>2, <2>3
<1>8. CASE RepairChunk(r)
  <2>1. PICK c \in rep[r].chunks :
           PassTo(r, [rep[r] EXCEPT !.pc = "fetch", !.chunk = c, !.chunks = @ \ {c},
                                    !.fetch = OnHealthy(r, c), !.got = {}])
    BY <1>8 DEF RepairChunk
  <2>2. /\ rep'[r].pc = "fetch" /\ rep'[r].chunk = c /\ rep'[r].chunks = rep[r].chunks \ {c}
        /\ WorksSame(r)
    BY <1>1, <2>1 DEF PassTo, PassState, KnowsSame, WorksSame
  <2> QED
    BY <1>8, <2>2 DEF RepairChunk, PassMoves, trackerVars
<1>9. CASE RepairFetch(r)
  <2>1. PICK p : \/ PassTo(r, [rep[r] EXCEPT !.fetch = @ \ {p}, !.got = @ \cup {p.shard}])
                 \/ PassTo(r, [rep[r] EXCEPT !.fetch = @ \ {p}])
    BY <1>9 DEF RepairFetch
  <2>2. /\ rep'[r].pc = rep[r].pc /\ rep'[r].chunk = rep[r].chunk
        /\ rep'[r].chunks = rep[r].chunks /\ WorksSame(r)
    <3>1. CASE PassTo(r, [rep[r] EXCEPT !.fetch = @ \ {p}, !.got = @ \cup {p.shard}])
      BY <1>1, <3>1 DEF PassTo, PassState, KnowsSame, WorksSame
    <3>2. CASE PassTo(r, [rep[r] EXCEPT !.fetch = @ \ {p}])
      BY <1>1, <3>2 DEF PassTo, PassState, KnowsSame, WorksSame
    <3> QED
      BY <2>1, <3>1, <3>2
  <2> QED
    BY <1>9, <2>2 DEF RepairFetch, PassMoves, trackerVars
<1>10. CASE RepairReconstruct(r) /\ ~EndPass(r)
  <2> DEFINE ps == OnUnhealthy(r, rep[r].chunk)
  <2>1. PassTo(r, [rep[r] EXCEPT !.pc = "place", !.place = ps])
    BY <1>10 DEF RepairReconstruct
  <2> HIDE DEF ps
  <2>2. /\ rep'[r].pc = "place" /\ rep'[r].place = ps
        /\ rep'[r].chunks = rep[r].chunks /\ WorksSame(r)
    BY <1>1, <2>1 DEF PassTo, PassState, KnowsSame, WorksSame
  <2> QED
    BY <1>10, <2>2 DEF RepairReconstruct, PassMoves, trackerVars, ps
<1>11. CASE RepairSelect(r) /\ ~EndPass(r)
  <2>1. PICK s \in SelectPlacementNodes(1, 0) :
           PassTo(r, [rep[r] EXCEPT !.pc = "upload", !.target = s[0]])
    BY <1>11 DEF RepairSelect
  <2>2. s[0] \in Eligible(0)
    BY DEF SelectPlacementNodes
  <2>3. /\ rep'[r].pc = "upload" /\ rep'[r].target = s[0] /\ rep'[r].place = rep[r].place
        /\ rep'[r].chunks = rep[r].chunks /\ WorksSame(r)
    BY <1>1, <2>1 DEF PassTo, PassState, KnowsSame, WorksSame
  <2> QED
    BY <1>11, <2>2, <2>3 DEF RepairSelect, PassMoves, trackerVars
<1>12. CASE RepairUpload(r)
  <2>1. PICK p \in rep[r].place : PassTo(r, Moved(r, p))
    BY <1>12 DEF RepairUpload
  <2>2. /\ rep'[r].pc = IF rep[r].place = {p} THEN "chunks" ELSE "place"
        /\ rep'[r].updated = (rep[r].updated \ {p}) \cup {[p EXCEPT !.node = rep[r].target]}
        /\ rep'[r].place = rep[r].place \ {p} /\ rep'[r].file = rep[r].file
        /\ rep'[r].dirty /\ rep'[r].chunks = rep[r].chunks /\ KnowsSame(r)
    <3>1. rep'[r] = Moved(r, p)
      BY <1>2, <2>1
    <3> DEFINE ps == (rep[r].updated \ {p}) \cup {[p EXCEPT !.node = rep[r].target]}
               pc == IF rep[r].place = {p} THEN "chunks" ELSE "place"
    <3>2. Moved(r, p) = [rep[r] EXCEPT !.pc = pc, !.updated = ps, !.dirty = TRUE,
                                       !.place = @ \ {p}, !.target = "none"]
      BY DEF Moved
    <3> HIDE DEF ps, pc
    <3>3. /\ rep'[r].pc = pc /\ rep'[r].updated = ps
          /\ rep'[r].place = rep[r].place \ {p} /\ rep'[r].file = rep[r].file
          /\ rep'[r].dirty /\ rep'[r].chunks = rep[r].chunks /\ KnowsSame(r)
      BY <1>1, <3>1, <3>2 DEF PassState, KnowsSame
    <3> QED
      BY <3>3 DEF ps, pc
  <2> QED
    BY <1>12, <2>2 DEF RepairUpload, PassMoves, trackerVars
<1>13. CASE RepairSave(r)
  <2>1. /\ rep'[r].pc = "files" /\ rep'[r].visited = rep[r].visited \cup {rep[r].file}
        /\ rep'[r].unhealthy = rep[r].unhealthy /\ rep'[r].marks = rep[r].marks
    BY <1>1, <1>13 DEF RepairSave, PassTo, PassState
  <2> QED
    BY <1>13, <2>1 DEF RepairSave, PassMoves
<1>14. CASE RepairEnd(r) \/ RepairUploadFails(r) \/ RepairInterrupted(r)
  BY <1>3, <1>14 DEF RepairEnd, RepairUploadFails, RepairInterrupted, trackerVars
<1>15. RepairBegin(r) \/ RepairReconstruct(r) \/ RepairSelect(r) => fileTable' = fileTable
  BY DEF RepairBegin, RepairReconstruct, RepairSelect, trackerVars
<1> QED
  BY <1>3, <1>4, <1>5, <1>6, <1>7, <1>8, <1>9, <1>10, <1>11, <1>12, <1>13, <1>14, <1>15
     DEF RepairStep

-----------------------------------------------------------------------------
(* The inductive invariants *)

\* A pass differs from the table only by shards of nodes it declared
\* unhealthy, and not at all before its first move.
MoveInv ==
    \A r \in Repairers : rep[r].pc \in Working =>
       /\ \A p \in fileTable[rep[r].file] \ rep[r].updated : p.node \in rep[r].unhealthy
       /\ ~rep[r].dirty => rep[r].updated = fileTable[rep[r].file]
       /\ rep[r].pc \in {"place", "upload"} =>
             \A p \in rep[r].place : p.node \in rep[r].unhealthy

\* Placement p of the file under way is not on an unhealthy node, or its
\* turn is still to come.
Settled(r, p) == \/ p.node \notin rep[r].unhealthy \/ nodeTable[p.node].healthy
                 \/ p.chunk \in rep[r].chunks
                 \/ rep[r].pc = "fetch" /\ p.chunk = rep[r].chunk
                 \/ rep[r].pc \in {"place", "upload"} /\ p \in rep[r].place

\* A pass that walks the files has written back all its records, moves shards
\* to nodes the tracker lists as healthy, and misses no placement.
VisitInv ==
    \A r \in Repairers :
       /\ rep[r].pc \in Working \cup {"files"} => rep[r].marks = {}
       /\ rep[r].unhealthy \subseteq DOMAIN nodeTable
       /\ rep[r].visited \subseteq DOMAIN fileTable
       /\ rep[r].pc \in {"idle", "mark"} => rep[r].visited = {}
       /\ rep[r].pc = "upload" => /\ rep[r].target \in DOMAIN nodeTable
                                  /\ nodeTable[rep[r].target].healthy
       /\ rep[r].pc \in Working => \A p \in rep[r].updated : Settled(r, p)

-----------------------------------------------------------------------------

\* Only a pass changes the placements of a file that is in the table.
LEMMA TableKept ==
  ASSUME WholeInv, Next, ~RepairNext
  PROVE  \A f \in DOMAIN fileTable : f \in DOMAIN fileTable' /\ fileTable'[f] = fileTable[f]
<1>1. \A f \in Files : AllUploaded(f) \/ put[f].pc = "abandoned" => f \notin DOMAIN fileTable
  BY DEF AllUploaded, WholeInv, PlacedInv, PutUnsaved
<1> QED
  BY <1>1, SavedFrom DEF SaveFilePlacement

\* MoveInv is preserved, with one pass at a time.
LEMMA MoveInvNext ==
  ASSUME OnePass, WholeInv, MoveInv, Next
  PROVE  MoveInv'
<1>1. ASSUME NEW r \in Repairers, rep[r].pc \in Working PROVE rep[r].file \in DOMAIN fileTable
  BY <1>1 DEF WholeInv, PlacedInv, RepFilled
<1>2. CASE ~RepairNext
  <2>1. UNCHANGED rep
    BY <1>2 DEF Next, ClockNext, NodedNext, PutNext, GetNext, SweepNext, repairVars
  <2> QED
    BY <1>1, <1>2, <2>1, TableKept DEF MoveInv
<1>3. CASE RepairNext
  <2>1. PICK r \in Repairers : RepairBegin(r) \/ RepairStep(r) \/ RepairInterrupted(r)
    BY <1>3 DEF RepairNext
  <2>2. PassMoves(r)
    BY <2>1, PassSummary DEF WholeInv, Inv
  <2> SUFFICES ASSUME rep'[r].pc \in Working
               PROVE  /\ \A p \in fileTable'[rep'[r].file] \ rep'[r].updated :
                            p.node \in rep'[r].unhealthy
                      /\ ~rep'[r].dirty => rep'[r].updated = fileTable'[rep'[r].file]
                      /\ rep'[r].pc \in {"place", "upload"} =>
                            \A p \in rep'[r].place : p.node \in rep'[r].unhealthy
    BY DEF MoveInv, OnePass
  <2>3. CASE rep[r].pc = "files"
    BY <2>2, <2>3 DEF PassMoves, KnowsSame, Working
  <2>4. CASE rep[r].pc = "chunks" \/ (rep[r].pc = "fetch" /\ rep'[r].pc = "fetch")
    BY <2>2, <2>4 DEF PassMoves, KnowsSame, WorksSame, MoveInv, Working
  <2>5. CASE rep[r].pc = "fetch" /\ rep'[r].pc = "place"
    <3>1. \A p \in OnUnhealthy(r, rep[r].chunk) : p.node \in rep[r].unhealthy
      BY DEF OnUnhealthy
    <3> QED
      BY <2>2, <2>5, <3>1 DEF PassMoves, KnowsSame, WorksSame, MoveInv, Working
  <2>6. CASE rep[r].pc = "place"
    BY <2>2, <2>6 DEF PassMoves, KnowsSame, WorksSame, MoveInv, Working
  <2>7. CASE rep[r].pc = "upload"
    <3>1. PICK p \in rep[r].place :
             /\ rep'[r].updated = (rep[r].updated \ {p}) \cup {[p EXCEPT !.node = rep[r].target]}
             /\ rep'[r].place = rep[r].place \ {p} /\ rep'[r].file = rep[r].file
             /\ rep'[r].dirty /\ rep'[r].unhealthy = rep[r].unhealthy /\ fileTable' = fileTable
      BY <2>2, <2>7 DEF PassMoves, KnowsSame, Working
    <3>2. /\ \A q \in fileTable[rep[r].file] \ rep[r].updated : q.node \in rep[r].unhealthy
          /\ \A q \in rep[r].place : q.node \in rep[r].unhealthy
      BY <2>7 DEF MoveInv, Working
    <3> QED
      BY <3>1, <3>2
  <2> QED
    BY <2>2, <2>3, <2>4, <2>5, <2>6, <2>7 DEF PassMoves, Working
<1> QED
  BY <1>2, <1>3

\* A step takes a placement out of the table only if a pass declared its node
\* unhealthy.
LEMMA MovesStep ==
  ASSUME OnePass, WholeInv, MoveInv, [Next]_vars, NEW f \in DOMAIN fileTable,
         NEW p \in fileTable[f] \ fileTable'[f]
  PROVE  \E r \in Repairers : p.node \in rep[r].unhealthy
<1>1. fileTable' # fileTable /\ fileTable'[f] # fileTable[f]
  OBVIOUS
<1>2. Next /\ RepairNext
  BY <1>1, TableKept DEF vars, trackerVars
<1>3. PICK r \in Repairers : RepairBegin(r) \/ RepairStep(r) \/ RepairInterrupted(r)
  BY <1>2 DEF RepairNext
<1>4. PassMoves(r)
  BY <1>3, PassSummary DEF WholeInv, Inv
<1>5. rep[r].pc = "chunks" /\ SaveFilePlacement(rep[r].file, rep[r].updated)
  BY <1>1, <1>4 DEF PassMoves
<1>6. f = rep[r].file /\ fileTable'[f] = rep[r].updated
  BY <1>1, <1>5 DEF SaveFilePlacement
<1> QED
  BY <1>5, <1>6 DEF MoveInv, Working

\* With one pass at a time, a shard leaves its node only after a pass
\* declared the node unhealthy.
THEOREM MovesOnlyFromUnhealthyTheorem ==
  ASSUME OnePass PROVE Spec => MovesOnlyFromUnhealthy
<1>1. Init => MoveInv
  BY DEF Init, RepairInit, NoPass, MoveInv, Working
<1>2. WholeInv /\ MoveInv /\ [Next]_vars => MoveInv'
  <2>1. ASSUME MoveInv, UNCHANGED vars PROVE MoveInv'
    BY <2>1 DEF MoveInv, vars, trackerVars, repairVars
  <2> QED
    BY <2>1, MoveInvNext
<1>3. WholeInv /\ MoveInv /\ [Next]_vars =>
         [\A f \in DOMAIN fileTable : \A p \in fileTable[f] \ fileTable'[f] :
             \E r \in Repairers : p.node \in rep[r].unhealthy]_vars
  BY MovesStep
<1> QED
  BY <1>1, <1>2, <1>3, WholeInvariance, PTL DEF Spec, MovesOnlyFromUnhealthy

-----------------------------------------------------------------------------

\* The node table only grows, and where no verdict is under way no node is
\* turned unhealthy.
LEMMA HealthKept ==
  ASSUME LateHealthy, Next
  PROVE  /\ DOMAIN nodeTable \subseteq DOMAIN nodeTable'
         /\ sweep = {} /\ (\A r \in Repairers : rep[r].marks = {}) =>
               \A n \in DOMAIN nodeTable : nodeTable[n].healthy => nodeTable'[n].healthy
<1>1. \A n \in Nodes : Registration(n).rec.healthy
  BY DEF Registration
<1>2. ASSUME NEW m, NEW rec, RegisterNode(m, rec)
      PROVE  /\ DOMAIN nodeTable \subseteq DOMAIN nodeTable'
             /\ rec.healthy =>
                   \A n \in DOMAIN nodeTable : nodeTable[n].healthy => nodeTable'[n].healthy
  BY <1>2 DEF RegisterNode
<1> QED
  BY <1>1, <1>2, NodeTableStep DEF LateHealthy

\* VisitInv and the property itself are preserved, with one pass at a time
\* and no sweep.
LEMMA VisitInvNext ==
  ASSUME OnePass, WholeInv, SilentInv, MoveInv, VisitInv, VisitedFilesOffUnhealthy,
         sweep = {}, Next
  PROVE  VisitInv' /\ VisitedFilesOffUnhealthy'
<1> DEFINE Past(r) == rep[r].pc \in Working \cup {"files"}
           Clean(r, f) == \A p \in fileTable[f] :
                             p.node \in rep[r].unhealthy => nodeTable[p.node].healthy
<1>1. ASSUME NEW r \in Repairers
      PROVE  /\ Past(r) => rep[r].marks = {}
             /\ rep[r].unhealthy \subseteq DOMAIN nodeTable
             /\ rep[r].visited \subseteq DOMAIN fileTable
             /\ ~Past(r) => rep[r].visited = {}
             /\ rep[r].pc = "upload" => /\ rep[r].target \in DOMAIN nodeTable
                                        /\ nodeTable[rep[r].target].healthy
             /\ rep[r].pc \in Working => \A p \in rep[r].updated : Settled(r, p)
             /\ \A f \in rep[r].visited : Clean(r, f)
  BY DEF VisitInv, VisitedFilesOffUnhealthy, WholeInv, Inv, TypeInv, TypeOK, RepairTypeOK,
         PassState, Working
<1>2. DOMAIN nodeTable \subseteq DOMAIN nodeTable' /\ DOMAIN fileTable \subseteq DOMAIN fileTable'
  BY HealthKept, FilesGrow DEF SilentInv
<1>3. ASSUME NEW r \in Repairers, Past(r)
      PROVE  \A n \in DOMAIN nodeTable : nodeTable[n].healthy => nodeTable'[n].healthy
  BY <1>1, <1>3, HealthKept DEF SilentInv, OnePass
<1>4. CASE ~RepairNext
  <2>1. UNCHANGED rep
    BY <1>4 DEF Next, ClockNext, NodedNext, PutNext, GetNext, SweepNext, repairVars
  <2>2. \A f \in DOMAIN fileTable : fileTable'[f] = fileTable[f]
    BY <1>4, TableKept
  <2>3. ASSUME NEW r \in Repairers, Past(r)
        PROVE  /\ rep[r].pc = "upload" => nodeTable'[rep[r].target].healthy
               /\ rep[r].pc \in Working => \A p \in rep[r].updated :
                     \/ p.node \notin rep[r].unhealthy \/ nodeTable'[p.node].healthy
                     \/ p.chunk \in rep[r].chunks
                     \/ rep[r].pc = "fetch" /\ p.chunk = rep[r].chunk
                     \/ rep[r].pc \in {"place", "upload"} /\ p \in rep[r].place
               /\ \A f \in rep[r].visited : \A p \in fileTable'[f] :
                     p.node \in rep[r].unhealthy => nodeTable'[p.node].healthy
    BY <1>1, <1>3, <2>2, <2>3 DEF Settled
  <2>4. VisitInv'
    BY <1>1, <1>2, <2>1, <2>3 DEF VisitInv, Settled, Working
  <2>5. VisitedFilesOffUnhealthy'
    BY <1>1, <2>1, <2>3 DEF VisitedFilesOffUnhealthy
  <2> QED
    BY <2>4, <2>5
<1>5. CASE RepairNext
  <2>1. PICK r \in Repairers : RepairBegin(r) \/ RepairStep(r) \/ RepairInterrupted(r)
    BY <1>5 DEF RepairNext
  <2>2. PassMoves(r)
    BY <2>1, PassSummary DEF WholeInv, Inv
  <2> DEFINE new == rep'[r]
             Settles(p) == \/ p.node \notin new.unhealthy \/ nodeTable'[p.node].healthy
                           \/ p.chunk \in new.chunks
                           \/ new.pc = "fetch" /\ p.chunk = new.chunk
                           \/ new.pc \in {"place", "upload"} /\ p \in new.place
             Holds == /\ new.pc \in Working \cup {"files"} => new.marks = {}
                      /\ new.unhealthy \subseteq DOMAIN nodeTable
                      /\ new.visited \subseteq DOMAIN fileTable
                      /\ new.pc \in {"idle", "mark"} => new.visited = {}
                      /\ new.pc = "upload" => /\ new.target \in DOMAIN nodeTable
                                              /\ nodeTable'[new.target].healthy
                      /\ new.pc \in Working => \A p \in new.updated : Settles(p)
                      /\ \A f \in new.visited : \A p \in fileTable'[f] :
                            p.node \in new.unhealthy => nodeTable'[p.node].healthy
  <2>3. Holds
    <3>1. CASE new.pc \in {"idle", "mark"}
      <4>1. new.visited = {} /\ new.unhealthy \subseteq DOMAIN nodeTable
        BY <1>1, <2>2, <3>1 DEF PassMoves, Working
      <4> QED
        BY <3>1, <4>1 DEF Working
    <3>2. CASE rep[r].pc = "mark" /\ new.pc = "files"
      <4>1. new.visited = {} /\ new.unhealthy \subseteq DOMAIN nodeTable /\ new.marks = {}
        BY <1>1, <2>2, <3>2 DEF PassMoves, KnowsSame, Working
      <4> QED
        BY <3>2, <4>1 DEF Working
    \* From here on the pass is past its marks: what it knows is kept.
    <3>3. CASE Past(r) /\ new.pc \notin {"idle", "mark"} /\ fileTable' = fileTable /\ KnowsSame(r)
      <4>1. /\ new.marks = {} /\ new.unhealthy = rep[r].unhealthy /\ new.visited = rep[r].visited
            /\ new.unhealthy \subseteq DOMAIN nodeTable /\ new.visited \subseteq DOMAIN fileTable
            /\ \A f \in new.visited : \A p \in fileTable'[f] :
                  p.node \in new.unhealthy => nodeTable'[p.node].healthy
        BY <1>1, <1>3, <3>3 DEF KnowsSame
      <4>2. ASSUME NEW p, Settled(r, p), rep[r].pc \in Working
            PROVE  \/ p.node \notin new.unhealthy \/ nodeTable'[p.node].healthy
                   \/ p.chunk \in rep[r].chunks
                   \/ rep[r].pc = "fetch" /\ p.chunk = rep[r].chunk
                   \/ rep[r].pc \in {"place", "upload"} /\ p \in rep[r].place
        BY <1>1, <1>3, <3>3, <4>1, <4>2 DEF Settled
      <4>3. new.pc = "upload" => /\ new.target \in DOMAIN nodeTable
                                 /\ nodeTable'[new.target].healthy
        BY <1>3, <2>2, <3>3 DEF PassMoves, Eligible
      <4>4. ASSUME new.pc \in Working, NEW x \in new.updated PROVE Settles(x)
        <5>1. CASE rep[r].pc = "files"
          BY <2>2, <4>4, <5>1 DEF PassMoves, KnowsSame, Working
        <5>2. CASE rep[r].pc = "chunks"
          <6>1. /\ new.pc = "fetch" /\ new.updated = rep[r].updated
                /\ new.chunks = rep[r].chunks \ {new.chunk}
            BY <2>2, <4>4, <5>2 DEF PassMoves, WorksSame, Working
          <6> QED
            BY <1>1, <4>2, <4>4, <5>2, <6>1 DEF Working
        <5>3. CASE rep[r].pc = "fetch" /\ new.pc = "fetch"
          <6>1. /\ new.updated = rep[r].updated /\ new.chunks = rep[r].chunks
                /\ new.chunk = rep[r].chunk
            BY <2>2, <5>3 DEF PassMoves, WorksSame, Working
          <6> QED
            BY <1>1, <4>2, <4>4, <5>3, <6>1 DEF Working
        <5>4. CASE rep[r].pc = "fetch" /\ new.pc = "place"
          <6>1. /\ new.updated = rep[r].updated /\ new.chunks = rep[r].chunks
                /\ new.place = OnUnhealthy(r, rep[r].chunk)
            BY <2>2, <5>4 DEF PassMoves, WorksSame, Working
          <6>2. Settled(r, x)
            BY <1>1, <4>4, <5>4, <6>1 DEF Working
          <6> QED
            BY <4>1, <4>2, <4>4, <5>4, <6>1, <6>2 DEF Working, OnUnhealthy
        <5>5. CASE rep[r].pc = "place"
          <6>1. /\ new.pc = "upload" /\ new.updated = rep[r].updated
                /\ new.chunks = rep[r].chunks /\ new.place = rep[r].place
            BY <2>2, <4>4, <5>5 DEF PassMoves, WorksSame, Working
          <6> QED
            BY <1>1, <4>2, <4>4, <5>5, <6>1 DEF Working
        <5>6. CASE rep[r].pc = "upload"
          <6>1. PICK p \in rep[r].place :
                   /\ new.pc = IF rep[r].place = {p} THEN "chunks" ELSE "place"
                   /\ new.updated = (rep[r].updated \ {p}) \cup {[p EXCEPT !.node = rep[r].target]}
                   /\ new.place = rep[r].place \ {p} /\ new.chunks = rep[r].chunks
            BY <2>2, <4>4, <5>6 DEF PassMoves, Working
          <6>2. CASE x = [p EXCEPT !.node = rep[r].target]
            <7>1. p \in ShardPlacement
              BY DEF WholeInv, Inv, TypeInv, TypeOK, RepairTypeOK, PassState
            <7>2. x.node = rep[r].target
              BY <6>2, <7>1 DEF ShardPlacement
            <7> QED
              BY <1>1, <1>3, <3>3, <5>6, <7>2
          <6>3. CASE x \in rep[r].updated /\ x # p
            <7>1. Settled(r, x)
              BY <1>1, <5>6, <6>3 DEF Working
            <7>2. \/ x.node \notin new.unhealthy \/ nodeTable'[x.node].healthy
                  \/ x.chunk \in new.chunks
                  \/ x \in rep[r].place
              BY <4>2, <5>6, <6>1, <7>1 DEF Working
            <7>3. x \in rep[r].place => new.pc = "place" /\ x \in new.place
              BY <6>1, <6>3
            <7> QED
              BY <7>2, <7>3
          <6> QED
            BY <4>4, <6>1, <6>2, <6>3
        <5> QED
          BY <3>3, <5>1, <5>2, <5>3, <5>4, <5>5, <5>6, <2>2, <4>4 DEF PassMoves, Working
      <4> QED
        BY <3>3, <4>1, <4>3, <4>4 DEF Working
    <3>4. CASE /\ rep[r].pc = "chunks" /\ new.pc = "files" /\ rep[r].chunks = {}
               /\ new.visited = rep[r].visited \cup {rep[r].file}
               /\ new.unhealthy = rep[r].unhealthy /\ new.marks = rep[r].marks
               /\ \/ rep[r].dirty /\ SaveFilePlacement(rep[r].file, rep[r].updated)
                  \/ ~rep[r].dirty /\ fileTable' = fileTable
      <4>1. rep[r].file \in DOMAIN fileTable
        BY <3>4 DEF WholeInv, PlacedInv, RepFilled, Working
      <4>2. fileTable'[rep[r].file] = rep[r].updated
        BY <3>4 DEF SaveFilePlacement, MoveInv, Working
      <4>3. \A f \in DOMAIN fileTable \ {rep[r].file} : fileTable'[f] = fileTable[f]
        BY <3>4 DEF SaveFilePlacement
      <4>4. \A p \in rep[r].updated :
               p.node \in new.unhealthy => nodeTable'[p.node].healthy
        BY <1>1, <1>3, <3>4 DEF Settled, Working
      <4>5. \A f \in rep[r].visited \ {rep[r].file} : \A p \in fileTable'[f] :
               p.node \in new.unhealthy => nodeTable'[p.node].healthy
        BY <1>1, <1>3, <3>4, <4>3 DEF Working
      <4>6. \A f \in new.visited : \A p \in fileTable'[f] :
               p.node \in new.unhealthy => nodeTable'[p.node].healthy
        BY <3>4, <4>2, <4>4, <4>5
      <4> QED
        BY <1>1, <3>4, <4>1, <4>6 DEF Working
    <3> QED
      BY <2>2, <3>1, <3>2, <3>3, <3>4 DEF PassMoves, WorksSame, Working
  <2>4. \A q \in Repairers : q = r
    BY DEF OnePass
  <2>5. VisitInv'
    BY <1>2, <2>3, <2>4 DEF VisitInv, Settled, Working
  <2>6. VisitedFilesOffUnhealthy'
    BY <2>3, <2>4 DEF VisitedFilesOffUnhealthy
  <2> QED
    BY <2>5, <2>6
<1> QED
  BY <1>4, <1>5

\* With one pass at a time and no sweep, a file the pass has handled has no
\* shard on a node the pass declared unhealthy, unless the tracker lists that
\* node as healthy.
THEOREM VisitedFilesOffUnhealthyTheorem ==
  ASSUME OnePass, MaxSweeps = 0 PROVE Spec => []VisitedFilesOffUnhealthy
<1> DEFINE PassInv == /\ WholeInv /\ SilentInv /\ MoveInv /\ VisitInv
                      /\ VisitedFilesOffUnhealthy /\ sweep = {}
<1>1. Init => PassInv
  <2> SUFFICES ASSUME Init PROVE PassInv
    OBVIOUS
  <2>1. WholeInv
    BY InitWhole
  <2>2. SilentInv /\ sweep = {}
    BY DEF Init, NewStore, NodedInit, RepairInit, SweepInit, NoPass, SilentInv,
           UnhealthyWasSilent, SweepSilent, MarksSilent, LateHealthy
  <2>3. MoveInv /\ VisitInv /\ VisitedFilesOffUnhealthy
    BY DEF Init, RepairInit, NoPass, MoveInv, VisitInv, VisitedFilesOffUnhealthy, Working
  <2> QED
    BY <2>1, <2>2, <2>3
<1>2. PassInv /\ [Next]_vars => PassInv'
  <2> SUFFICES ASSUME PassInv, [Next]_vars PROVE PassInv'
    OBVIOUS
  <2>1. WholeInv' /\ SilentInv'
    BY NextWhole, SilentInvNext DEF WholeInv, Inv
  <2>2. CASE Next
    <3>1. MoveInv' /\ VisitInv' /\ VisitedFilesOffUnhealthy'
      BY <2>2, MoveInvNext, VisitInvNext
    <3>2. ~SweepBegin
      BY DEF SweepBegin, WholeInv, Inv, TypeInv, TypeOK, SweepTypeOK
    <3>3. sweep' = {}
      BY <2>2, <3>2 DEF Next, ClockNext, NodedNext, PutNext, GetNext, RepairNext, SweepNext,
                        SweepWrite, SweepFails, sweepVars
    <3> QED
      BY <2>1, <3>1, <3>3
  <2>3. CASE UNCHANGED vars
    <3>1. MoveInv' /\ VisitInv'
      BY <2>3 DEF MoveInv, VisitInv, Settled, vars, trackerVars, repairVars
    <3>2. VisitedFilesOffUnhealthy' /\ sweep' = {}
      BY <2>3 DEF VisitedFilesOffUnhealthy, vars, trackerVars, repairVars, sweepVars
    <3> QED
      BY <2>1, <3>1, <3>2
  <2> QED
    BY <2>2, <2>3
<1>3. PassInv => VisitedFilesOffUnhealthy
  OBVIOUS
<1> HIDE DEF PassInv
<1> QED
  BY <1>1, <1>2, <1>3, PTL DEF Spec
=============================================================================
