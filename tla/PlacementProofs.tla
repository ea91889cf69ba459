-------------------------- MODULE PlacementProofs --------------------------
(***************************************************************************)
(* What is saved, what is moved and what is downloaded is whole: for every *)
(* set of nodes, files, readers and repairers, every K and M.  On top of   *)
(* this, the network implements FileStore.                                 *)
(***************************************************************************)
EXTENDS AldeaProofs, FiniteSetTheorems

-----------------------------------------------------------------------------
(* The inductive invariant *)

\* ps has exactly one placement for every shard before shard n of chunk c.
Filled(c, n, ps) ==
    /\ \A p \in ps : p.chunk < c \/ (p.chunk = c /\ p.shard < n)
    /\ \A i \in 0 .. c, s \in ShardIndex :
          i < c \/ s < n => \E p \in ps : p.chunk = i /\ p.shard = s
    /\ \A p, q \in ps : p.chunk = q.chunk /\ p.shard = q.shard => p = q

\* An upload has collected the shards up to the one it is at; one that was
\* given up with its save request under way has collected all.
PutFilled ==
    \A f \in Files :
       /\ put[f].pc \in {"idle", "chunk", "upload"} =>
             /\ Filled(put[f].chunk, put[f].next, put[f].placed)
             /\ put[f].chunk <= ChunkCount[f]
             /\ put[f].pc # "upload" => put[f].next = 0
       /\ put[f].pc = "abandoned" => Complete(ChunkCount[f], put[f].placed)

\* A file is not in the tracker before its upload has saved it.
PutUnsaved ==
    \A f \in Files : put[f].pc \in {"idle", "chunk", "upload", "abandoned"}
                        => f \notin DOMAIN fileTable

\* The states in which a pass works on a file.
Working == {"chunks", "fetch", "place", "upload"}

\* The list a pass works on is whole, and what it is about to move is in it.
RepFilled ==
    \A r \in Repairers : rep[r].pc \in Working =>
       /\ rep[r].file \in DOMAIN fileTable
       /\ Complete(ChunkCount[rep[r].file], rep[r].updated)
       /\ rep[r].pc \in {"place", "upload"} => rep[r].place \subseteq rep[r].updated

PlacedInv == FullyPlaced /\ PutFilled /\ PutUnsaved /\ RepFilled

\* A download holds a whole list, and every chunk of the file is still to
\* come, under way or reconstructed.
GetWhole ==
    \A r \in Readers :
       /\ get[r].pc = "idle" => get[r] = NoGet
       /\ get[r].pc \in {"nodes", "chunk", "fetch", "done"} =>
             /\ get[r].file \in DOMAIN fileTable
             /\ Complete(ChunkCount[get[r].file], get[r].placements)
       /\ get[r].pc = "nodes" => get[r].out = {}
       /\ get[r].pc = "chunk" => get[r].todo \cup get[r].out = Chunks(get[r].file)
       /\ get[r].pc = "fetch" =>
             get[r].todo \cup get[r].out \cup {get[r].chunk} = Chunks(get[r].file)
       /\ get[r].pc = "done" => get[r].out = Chunks(get[r].file)

\* Every placement of the chunk under way is still to be tried, delivered, or
\* its node is among those that did not deliver.
GetTried ==
    \A r \in Readers : get[r].pc = "fetch" =>
       /\ \A p \in get[r].placements : p.chunk = get[r].chunk =>
             p \in get[r].group \/ p.shard \in get[r].got \/ p.node \in get[r].missed
       /\ get[r].group \subseteq Group(get[r].placements, get[r].chunk)
       /\ get[r].missed \subseteq NodesOf(get[r].chunk, get[r].placements)

\* No node has two shards of one chunk in ps.
Apart(ps) == \A p, q \in ps : p.chunk = q.chunk /\ p.node = q.node => p.shard = q.shard

\* The nodes selected for a chunk are distinct, and its shards go there.
PutApart ==
    \A f \in Files :
       /\ Apart(put[f].placed)
       /\ put[f].pc = "upload" =>
             /\ \A i, j \in ShardIndex : put[f].nodes[i] = put[f].nodes[j] => i = j
             /\ \A p \in put[f].placed :
                   p.chunk = put[f].chunk => p.node = put[f].nodes[p.shard]

-----------------------------------------------------------------------------
(* Lemmas on lists of placements *)

\* Nothing is before the first shard of the first chunk.
LEMMA FilledEmpty == Filled(0, 0, {})
  BY ShardsAssumption DEF Filled, ShardIndex

\* The upload of one more shard.
LEMMA FilledNext ==
  ASSUME NEW c \in Nat, NEW n \in ShardIndex, NEW ps \in SUBSET ShardPlacement,
         NEW p \in ShardPlacement, p.chunk = c, p.shard = n, Filled(c, n, ps)
  PROVE  Filled(c, n + 1, ps \cup {p})
<1>1. n \in Int /\ K \in Nat /\ M \in Nat
  BY ShardsAssumption DEF ShardIndex
<1>2. ASSUME NEW q \in ps \cup {p} PROVE q.chunk < c \/ (q.chunk = c /\ q.shard < n + 1)
  <2>1. q.shard \in Int
    BY DEF ShardPlacement, ShardIndex
  <2> QED
    BY <1>1, <2>1 DEF Filled
<1>3. ASSUME NEW i \in 0 .. c, NEW s \in ShardIndex, i < c \/ s < n + 1
      PROVE  \E q \in ps \cup {p} : q.chunk = i /\ q.shard = s
  <2>1. CASE i < c \/ s < n
    BY <2>1 DEF Filled
  <2>2. CASE ~(i < c \/ s < n)
    <3>1. i = c /\ s = n
      BY <1>1, <1>3, <2>2 DEF ShardIndex
    <3> QED
      BY <3>1
  <2> QED
    BY <2>1, <2>2
<1>4. ASSUME NEW q \in ps PROVE ~(q.chunk = c /\ q.shard = n)
  BY <1>1 DEF Filled, ShardPlacement
<1>5. ASSUME NEW q \in ps \cup {p}, NEW o \in ps \cup {p}, q.chunk = o.chunk, q.shard = o.shard
      PROVE  q = o
  BY <1>4, <1>5 DEF Filled
<1> QED
  BY <1>2, <1>3, <1>5 DEF Filled

\* The last shard of a chunk is followed by the first of the next one.
LEMMA FilledWrap ==
  ASSUME NEW c \in Nat, NEW ps \in SUBSET ShardPlacement, Filled(c, K + M, ps)
  PROVE  Filled(c + 1, 0, ps)
<1>1. K \in Nat /\ M \in Nat
  BY ShardsAssumption
<1>2. ASSUME NEW q \in ps PROVE q.chunk < c + 1 \/ (q.chunk = c + 1 /\ q.shard < 0)
  <2>1. q.chunk \in Nat
    BY ChunkAssumption DEF ShardPlacement, ChunkIndex, Chunks
  <2> QED
    BY <2>1 DEF Filled
<1>3. ASSUME NEW i \in 0 .. c + 1, NEW s \in ShardIndex, i < c + 1 \/ s < 0
      PROVE  \E q \in ps : q.chunk = i /\ q.shard = s
  <2>1. i \in 0 .. c /\ (i < c \/ s < K + M)
    BY <1>1, <1>3 DEF ShardIndex
  <2> QED
    BY <2>1 DEF Filled
<1> QED
  BY <1>2, <1>3 DEF Filled

\* Up to the first shard of chunk c: complete below c.
LEMMA FilledComplete ==
  ASSUME NEW c \in Nat, NEW ps \in SUBSET ShardPlacement, Filled(c, 0, ps)
  PROVE  Complete(c, ps)
<1>1. ASSUME NEW q \in ps PROVE q.chunk < c
  <2>1. q.shard \in 0 .. K + M - 1
    BY DEF ShardPlacement, ShardIndex
  <2> QED
    BY <2>1, ShardsAssumption DEF Filled
<1>2. ASSUME NEW i \in 0 .. c - 1, NEW s \in ShardIndex
      PROVE  \E p \in ps : p.chunk = i /\ p.shard = s
  <2>1. i \in 0 .. c /\ i < c
    OBVIOUS
  <2> QED
    BY <2>1 DEF Filled
<1> QED
  BY <1>1, <1>2 DEF Filled, Complete

\* Redirecting one placement to another node keeps a list complete.
LEMMA CompleteMoved ==
  ASSUME NEW c, NEW ps, NEW p \in ps, NEW q,
         q.chunk = p.chunk, q.shard = p.shard, Complete(c, ps)
  PROVE  Complete(c, (ps \ {p}) \cup {q})
<1> DEFINE new == (ps \ {p}) \cup {q}
<1>1. \A x \in new : x.chunk < c
  BY DEF Complete
<1>2. ASSUME NEW i \in 0 .. c - 1, NEW s \in ShardIndex
      PROVE  \E x \in new : x.chunk = i /\ x.shard = s
  <2>1. PICK x \in ps : x.chunk = i /\ x.shard = s
    BY DEF Complete
  <2>2. CASE x = p
    BY <2>1, <2>2
  <2>3. CASE x # p
    BY <2>1, <2>3
  <2> QED
    BY <2>2, <2>3
<1>3. ASSUME NEW x \in new, NEW y \in new, x.chunk = y.chunk, x.shard = y.shard
      PROVE  x = y
  <2>1. \A z \in ps : z.chunk = q.chunk /\ z.shard = q.shard => z = p
    BY DEF Complete
  <2> QED
    BY <1>3, <2>1 DEF Complete
<1> QED
  BY <1>1, <1>2, <1>3 DEF Complete

\* The chunks named in a complete list are the chunks of the file.
LEMMA CompleteChunks ==
  ASSUME NEW f \in Files, NEW ps \in SUBSET ShardPlacement, Complete(ChunkCount[f], ps)
  PROVE  {p.chunk : p \in ps} = Chunks(f)
<1>1. 0 \in ShardIndex
  BY ShardsAssumption DEF ShardIndex
<1>2. ASSUME NEW p \in ps PROVE p.chunk \in Chunks(f)
  <2>1. p.chunk \in Nat
    BY ChunkAssumption DEF ShardPlacement, ChunkIndex, Chunks
  <2> QED
    BY <2>1, ChunkAssumption DEF Complete, Chunks
<1>3. ASSUME NEW c \in Chunks(f) PROVE \E p \in ps : p.chunk = c
  BY <1>1 DEF Complete, Chunks
<1> QED
  BY <1>2, <1>3

-----------------------------------------------------------------------------
(* What a step of an upload does *)

\* The command begins, asks for nodes, uploads a shard, leaves its save
\* request behind, fails, or saves what it has collected.
PutMoves(f) ==
    LET old == put[f]
        new == put'[f] IN
    \/ /\ old.pc = "idle" /\ new.pc = "chunk"
       /\ new.chunk = old.chunk /\ new.next = old.next /\ new.placed = old.placed
       /\ fileTable' = fileTable
    \/ /\ old.pc = "chunk" /\ new.pc = "upload" /\ old.chunk < ChunkCount[f]
       /\ new.chunk = old.chunk /\ new.next = 0 /\ new.placed = old.placed
       /\ new.nodes \in SelectPlacementNodes(K + M, 0)
       /\ fileTable' = fileTable
    \/ /\ old.pc = "upload" /\ new.pc = "upload" /\ old.next + 1 < K + M
       /\ new.chunk = old.chunk /\ new.next = old.next + 1 /\ new.nodes = old.nodes
       /\ new.placed = old.placed \cup {NextPlacement(f)}
       /\ fileTable' = fileTable
    \/ /\ old.pc = "upload" /\ new.pc = "chunk" /\ ~(old.next + 1 < K + M)
       /\ new.chunk = old.chunk + 1 /\ new.next = 0
       /\ new.placed = old.placed \cup {NextPlacement(f)}
       /\ fileTable' = fileTable
    \/ /\ AllUploaded(f) /\ new.pc = "abandoned" /\ new.placed = old.placed
       /\ fileTable' = fileTable
    \/ /\ old.pc \in {"chunk", "upload"} /\ new.pc = "failed" /\ new.placed = old.placed
       /\ fileTable' = fileTable
    \/ /\ \/ AllUploaded(f) /\ new.pc = "done"
          \/ old.pc = "abandoned" /\ new.pc = "failed"
       /\ new.placed = old.placed
       /\ SaveFilePlacement(f, old.placed)

\* Every step of an upload is one of these, and moves no other upload.
LEMMA PutSummary ==
  ASSUME TypeInv, NEW f \in Files, PutBegin(f) \/ PutStep(f) \/ LateSave(f)
  PROVE  PutMoves(f) /\ \A g \in Files \ {f} : put'[g] = put[g]
<1>1. put \in [Files -> PutState] /\ put[f] \in PutState
  BY DEF TypeInv, TypeOK, PutTypeOK
<1>2. ASSUME NEW s, PutTo(f, s) PROVE put'[f] = s /\ \A g \in Files \ {f} : put'[g] = put[g]
  BY <1>1, <1>2 DEF PutTo
<1>3. ASSUME NEW pc, PutTo(f, [put[f] EXCEPT !.pc = pc])
      PROVE  /\ put'[f].pc = pc /\ put'[f].chunk = put[f].chunk
             /\ put'[f].next = put[f].next /\ put'[f].placed = put[f].placed
             /\ \A g \in Files \ {f} : put'[g] = put[g]
  BY <1>1, <1>3 DEF PutTo, PutState
<1>4. CASE PutBegin(f)
  BY <1>3, <1>4 DEF PutBegin, PutMoves, trackerVars
<1>5. CASE PutSelect(f)
  <2>1. PICK s \in SelectPlacementNodes(K + M, 0) :
           PutTo(f, [put[f] EXCEPT !.pc = "upload", !.nodes = s, !.next = 0])
    BY <1>5 DEF PutSelect
  <2>2. /\ put'[f].pc = "upload" /\ put'[f].nodes = s /\ put'[f].next = 0
        /\ put'[f].chunk = put[f].chunk /\ put'[f].placed = put[f].placed
        /\ \A g \in Files \ {f} : put'[g] = put[g]
    BY <1>1, <2>1 DEF PutTo, PutState
  <2> QED
    BY <1>5, <2>2 DEF PutSelect, PutMoves, trackerVars
<1>6. CASE PutUpload(f)
  <2> DEFINE placed == put[f].placed \cup {NextPlacement(f)}
  <2> HIDE DEF placed
  <2>1. CASE put[f].next + 1 < K + M
    <3>1. PutTo(f, [put[f] EXCEPT !.next = @ + 1, !.placed = placed])
      BY <1>6, <2>1 DEF PutUpload, Advance, placed
    <3>2. /\ put'[f].pc = put[f].pc /\ put'[f].nodes = put[f].nodes
          /\ put'[f].next = put[f].next + 1 /\ put'[f].placed = placed
          /\ put'[f].chunk = put[f].chunk
          /\ \A g \in Files \ {f} : put'[g] = put[g]
      BY <1>1, <3>1 DEF PutTo, PutState
    <3> QED
      BY <1>6, <2>1, <3>2 DEF PutUpload, PutMoves, trackerVars, placed
  <2>2. CASE ~(put[f].next + 1 < K + M)
    <3>1. PutTo(f, [pc |-> "chunk", chunk |-> put[f].chunk + 1, nodes |-> <<>>, next |-> 0,
                    placed |-> placed])
      BY <1>6, <2>2 DEF PutUpload, Advance, placed
    <3>2. /\ put'[f].pc = "chunk" /\ put'[f].chunk = put[f].chunk + 1
          /\ put'[f].next = 0 /\ put'[f].placed = placed
          /\ \A g \in Files \ {f} : put'[g] = put[g]
      BY <1>2, <3>1
    <3> QED
      BY <1>6, <2>2, <3>2 DEF PutUpload, PutMoves, trackerVars, placed
  <2> QED
    BY <2>1, <2>2
<1>7. CASE PutSelectFails(f) \/ PutUploadFails(f)
  BY <1>3, <1>7 DEF PutSelectFails, PutUploadFails, PutMoves, trackerVars
<1>8. CASE PutSave(f) \/ LateSave(f)
  BY <1>3, <1>8 DEF PutSave, LateSave, PutMoves
<1>9. CASE PutSaveFails(f)
  <2>1. PICK pc \in {"failed", "abandoned"} : PutTo(f, [put[f] EXCEPT !.pc = pc])
    BY <1>9 DEF PutSaveFails
  <2> QED
    BY <1>3, <1>9, <2>1 DEF PutSaveFails, AllUploaded, PutMoves, trackerVars
<1> QED
  BY <1>4, <1>5, <1>6, <1>7, <1>8, <1>9 DEF PutStep

\* An upload collects the placements in order, one for each shard.
LEMMA PutFilledNext == TypeInv /\ PutFilled /\ PutNext => PutFilled'
<1> SUFFICES ASSUME TypeInv, PutFilled, PutNext PROVE PutFilled'
  OBVIOUS
<1>1. PICK f \in Files : PutBegin(f) \/ PutStep(f) \/ LateSave(f)
  BY DEF PutNext
<1>2. PutMoves(f) /\ \A g \in Files \ {f} : put'[g] = put[g]
  BY <1>1, PutSummary
<1>3. /\ put[f] \in PutState
      /\ put[f].placed \in SUBSET ShardPlacement /\ put[f].chunk \in Nat
      /\ ChunkCount[f] \in Nat
  BY ChunkAssumption DEF TypeInv, TypeOK, PutTypeOK, PutState
<1>4. put[f].pc = "upload" =>
         /\ NextPlacement(f) \in ShardPlacement
         /\ NextPlacement(f).chunk = put[f].chunk /\ NextPlacement(f).shard = put[f].next
         /\ put[f].next \in ShardIndex /\ put[f].chunk < ChunkCount[f]
  BY NextPlacementType DEF TypeInv, TypeOK, PutShape, NextPlacement
\* The shard just uploaded extends the list by one.
<1>5. put[f].pc = "upload" =>
         Filled(put[f].chunk, put[f].next + 1, put[f].placed \cup {NextPlacement(f)})
  BY <1>3, <1>4, FilledNext DEF PutFilled
<1>6. put[f].pc = "upload" /\ ~(put[f].next + 1 < K + M) =>
         Filled(put[f].chunk + 1, 0, put[f].placed \cup {NextPlacement(f)})
  <2> SUFFICES ASSUME put[f].pc = "upload", ~(put[f].next + 1 < K + M)
               PROVE  Filled(put[f].chunk + 1, 0, put[f].placed \cup {NextPlacement(f)})
    OBVIOUS
  <2>1. put[f].next + 1 = K + M
    BY <1>4, ShardsAssumption DEF ShardIndex
  <2> QED
    BY <1>3, <1>4, <1>5, <2>1, FilledWrap
\* With all chunks uploaded the list is complete.
<1>7. AllUploaded(f) => Complete(ChunkCount[f], put[f].placed)
  <2> SUFFICES ASSUME AllUploaded(f) PROVE Complete(ChunkCount[f], put[f].placed)
    OBVIOUS
  <2>1. put[f].chunk = ChunkCount[f] /\ put[f].next = 0
    BY <1>3 DEF AllUploaded, PutFilled
  <2>2. Filled(put[f].chunk, put[f].next, put[f].placed)
    BY DEF AllUploaded, PutFilled
  <2> QED
    BY <1>3, <2>1, <2>2, FilledComplete
<1>8. /\ put'[f].pc \in {"idle", "chunk", "upload"} =>
            /\ Filled(put'[f].chunk, put'[f].next, put'[f].placed)
            /\ put'[f].chunk <= ChunkCount[f]
            /\ put'[f].pc # "upload" => put'[f].next = 0
      /\ put'[f].pc = "abandoned" => Complete(ChunkCount[f], put'[f].placed)
  <2>1. CASE put[f].pc = "upload"
    <3>1. \/ /\ put'[f].pc = "upload" /\ put'[f].chunk = put[f].chunk
             /\ put'[f].next = put[f].next + 1
             /\ put'[f].placed = put[f].placed \cup {NextPlacement(f)}
          \/ /\ put'[f].pc = "chunk" /\ put'[f].chunk = put[f].chunk + 1 /\ put'[f].next = 0
             /\ put'[f].placed = put[f].placed \cup {NextPlacement(f)}
             /\ ~(put[f].next + 1 < K + M)
          \/ put'[f].pc = "failed"
      BY <1>2, <2>1 DEF PutMoves, AllUploaded
    <3>2. put[f].chunk + 1 <= ChunkCount[f] /\ put[f].chunk <= ChunkCount[f]
      BY <1>3, <1>4, <2>1
    <3> QED
      BY <1>5, <1>6, <2>1, <3>1, <3>2
  <2>2. CASE put[f].pc # "upload"
    BY <1>2, <1>3, <1>7, <2>2 DEF PutMoves, PutFilled
  <2> QED
    BY <2>1, <2>2
<1>9. ASSUME NEW g \in Files \ {f}
      PROVE  /\ put'[g].pc \in {"idle", "chunk", "upload"} =>
                   /\ Filled(put'[g].chunk, put'[g].next, put'[g].placed)
                   /\ put'[g].chunk <= ChunkCount[g]
                   /\ put'[g].pc # "upload" => put'[g].next = 0
             /\ put'[g].pc = "abandoned" => Complete(ChunkCount[g], put'[g].placed)
  BY <1>2 DEF PutFilled
<1> QED
  BY <1>8, <1>9 DEF PutFilled, Filled, Complete
-----------------------------------------------------------------------------
(* What a step of a pass does *)

\* A pass at work keeps its list, has just read it, or redirects one of the
\* placements it set out to move.
WorkStep(r) ==
    LET old == rep[r]
        new == rep'[r] IN
    \/ new.pc \notin Working
    \/ /\ old.pc \in Working
       /\ new.file = old.file /\ new.updated = old.updated
       /\ new.pc \in {"place", "upload"} =>
             \/ new.place \subseteq old.updated
             \/ old.pc \in {"place", "upload"} /\ new.place = old.place
    \/ /\ new.pc = "chunks"
       /\ new.file \in old.files /\ new.updated = fileTable[new.file]
    \/ /\ old.pc = "upload" /\ new.file = old.file /\ old.target \in Nodes
       /\ \E p \in old.place :
             /\ new.updated = (old.updated \ {p}) \cup {[p EXCEPT !.node = old.target]}
             /\ new.place = old.place \ {p}

\* Every step of a pass is one of these.
LEMMA WorkSummary ==
  ASSUME TypeInv, NEW r \in Repairers, RepairBegin(r) \/ RepairStep(r) \/ RepairInterrupted(r)
  PROVE  WorkStep(r)
<1>1. /\ rep \in [Repairers -> PassState] /\ rep[r] \in PassState
      /\ rep[r].pc = "upload" => rep[r].target \in Nodes
  BY DEF TypeInv, TypeOK, RepairTypeOK, RepShape
<1>2. ASSUME NEW s, PassTo(r, s) PROVE rep'[r] = s
  BY <1>1, <1>2 DEF PassTo
<1>3. CASE EndPass(r) \/ RepairBegin(r)
  <2>1. NoPass.pc = "idle"
    BY DEF NoPass
  <2>2. ASSUME NEW sn, NEW un, NEW ms,
               PassTo(r, [NoPass EXCEPT !.pc = "mark", !.snap = sn, !.unhealthy = un,
                                        !.marks = ms])
        PROVE  rep'[r].pc = "mark"
    BY <1>1, <2>2 DEF PassTo, NoPass
  <2>3. rep'[r].pc \in {"idle", "mark"}
    BY <1>2, <1>3, <2>1, <2>2 DEF EndPass, RepairBegin
  <2> QED
    BY <2>3 DEF WorkStep, Working
<1>4. CASE RepairMark(r) \/ RepairListFiles(r)
  <2>1. \/ \E m : rep'[r] = [rep[r] EXCEPT !.marks = @ \ {m}] /\ rep[r].pc = "mark"
        \/ \E fs : rep'[r] = [rep[r] EXCEPT !.pc = "files", !.files = fs]
    BY <1>2, <1>4 DEF RepairMark, RepairListFiles
  <2>2. rep'[r].pc \in {"mark", "files"}
    BY <1>1, <2>1 DEF PassState
  <2> QED
    BY <2>2 DEF WorkStep, Working
<1>5. CASE RepairFile(r)
  <2>1. PICK f \in rep[r].files :
           \/ \E cs : rep'[r] = [rep[r] EXCEPT
                           !.pc = "chunks", !.file = f, !.files = @ \ {f},
                           !.updated = fileTable[f], !.dirty = FALSE, !.chunks = cs]
           \/ rep'[r] = [rep[r] EXCEPT !.files = @ \ {f}]
    BY <1>2, <1>5 DEF RepairFile, GetFilePlacement
  <2>2. \/ rep'[r].pc = "chunks" /\ rep'[r].file = f /\ rep'[r].updated = fileTable[f]
        \/ rep'[r].pc = "files"
    BY <1>1, <1>5, <2>1 DEF RepairFile, PassState
  <2> QED
    BY <2>2 DEF WorkStep, Working
<1>6. CASE RepairChunk(r)
  <2>1. /\ rep'[r].pc = "fetch" /\ rep[r].pc = "chunks"
        /\ rep'[r].file = rep[r].file /\ rep'[r].updated = rep[r].updated
    BY <1>1, <1>6 DEF RepairChunk, PassTo, PassState
  <2> QED
    BY <2>1 DEF WorkStep, Working
<1>7. CASE RepairFetch(r)
  <2>1. PICK p : \/ rep'[r] = [rep[r] EXCEPT !.fetch = @ \ {p}, !.got = @ \cup {p.shard}]
                 \/ rep'[r] = [rep[r] EXCEPT !.fetch = @ \ {p}]
    BY <1>2, <1>7 DEF RepairFetch
  <2>2. /\ rep'[r].pc = "fetch" /\ rep[r].pc = "fetch"
        /\ rep'[r].file = rep[r].file /\ rep'[r].updated = rep[r].updated
    BY <1>1, <1>7, <2>1 DEF RepairFetch, PassState
  <2> QED
    BY <2>2 DEF WorkStep, Working
<1>8. CASE RepairReconstruct(r) /\ ~EndPass(r)
  <2>1. /\ rep'[r] = [rep[r] EXCEPT !.pc = "place", !.place = OnUnhealthy(r, rep[r].chunk)]
        /\ rep[r].pc = "fetch"
    BY <1>2, <1>8 DEF RepairReconstruct
  <2>2. OnUnhealthy(r, rep[r].chunk) \subseteq rep[r].updated
    BY DEF OnUnhealthy
  <2>3. /\ rep'[r].pc = "place" /\ rep'[r].place = OnUnhealthy(r, rep[r].chunk)
        /\ rep'[r].file = rep[r].file /\ rep'[r].updated = rep[r].updated
    BY <1>1, <2>1 DEF PassState
  <2> QED
    BY <2>1, <2>2, <2>3 DEF WorkStep, Working
<1>9. CASE RepairSelect(r) /\ ~EndPass(r)
  <2>1. PICK n : rep'[r] = [rep[r] EXCEPT !.pc = "upload", !.target = n] /\ rep[r].pc = "place"
    BY <1>2, <1>9 DEF RepairSelect
  <2>2. /\ rep'[r].pc = "upload" /\ rep'[r].place = rep[r].place
        /\ rep'[r].file = rep[r].file /\ rep'[r].updated = rep[r].updated
    BY <1>1, <2>1 DEF PassState
  <2> QED
    BY <2>1, <2>2 DEF WorkStep, Working
<1>10. CASE RepairUpload(r)
  <2>1. PICK p \in rep[r].place : rep'[r] = Moved(r, p) /\ rep[r].pc = "upload"
    BY <1>2, <1>10 DEF RepairUpload
  <2>2. Moved(r, p).place = rep[r].place \ {p}
    BY <1>1 DEF Moved, PassState
  <2> QED
    BY <1>1, <2>1, <2>2, MovedType DEF WorkStep
<1>11. CASE RepairSave(r)
  <2>1. rep'[r].pc = "files"
    BY <1>1, <1>11 DEF RepairSave, PassTo, PassState
  <2> QED
    BY <2>1 DEF WorkStep, Working
<1> QED
  BY <1>3, <1>4, <1>5, <1>6, <1>7, <1>8, <1>9, <1>10, <1>11
     DEF RepairStep, RepairEnd, RepairUploadFails, RepairInterrupted

-----------------------------------------------------------------------------
(* What is saved is whole *)

\* A pass works on a whole list.
LEMMA RepFilledNext ==
  ASSUME TypeInv, RepFiles, FullyPlaced, RepFilled, RepairNext, Next
  PROVE  RepFilled'
<1>1. PICK r \in Repairers : RepairBegin(r) \/ RepairStep(r) \/ RepairInterrupted(r)
  BY DEF RepairNext
<1>2. OthersKept(r) /\ WorkStep(r)
  BY <1>1, RepairSummary, WorkSummary
<1>3. DOMAIN fileTable \subseteq DOMAIN fileTable'
  BY FilesGrow
<1>4. ASSUME rep'[r].pc \in Working
      PROVE  /\ rep'[r].file \in DOMAIN fileTable
             /\ Complete(ChunkCount[rep'[r].file], rep'[r].updated)
             /\ rep'[r].pc \in {"place", "upload"} => rep'[r].place \subseteq rep'[r].updated
  <2>1. CASE /\ rep[r].pc \in Working
             /\ rep'[r].file = rep[r].file /\ rep'[r].updated = rep[r].updated
             /\ rep'[r].pc \in {"place", "upload"} =>
                   \/ rep'[r].place \subseteq rep[r].updated
                   \/ rep[r].pc \in {"place", "upload"} /\ rep'[r].place = rep[r].place
    BY <2>1 DEF RepFilled
  <2>2. CASE /\ rep'[r].pc = "chunks" /\ rep'[r].file \in rep[r].files
             /\ rep'[r].updated = fileTable[rep'[r].file]
    BY <2>2 DEF RepFiles, FullyPlaced
  <2>3. ASSUME NEW p \in rep[r].place, rep[r].pc = "upload", rep[r].target \in Nodes,
               rep'[r].file = rep[r].file, rep'[r].place = rep[r].place \ {p},
               rep'[r].updated = (rep[r].updated \ {p}) \cup {[p EXCEPT !.node = rep[r].target]}
        PROVE  /\ rep'[r].file \in DOMAIN fileTable
               /\ Complete(ChunkCount[rep'[r].file], rep'[r].updated)
               /\ rep'[r].place \subseteq rep'[r].updated
    <3> DEFINE q == [p EXCEPT !.node = rep[r].target]
    <3>1. /\ rep[r].file \in DOMAIN fileTable
          /\ Complete(ChunkCount[rep[r].file], rep[r].updated)
          /\ rep[r].place \subseteq rep[r].updated
      BY <2>3 DEF RepFilled, Working
    <3>2. p \in ShardPlacement
      BY DEF TypeInv, TypeOK, RepairTypeOK, PassState
    <3>3. q.chunk = p.chunk /\ q.shard = p.shard
      BY <3>2 DEF ShardPlacement
    <3>4. Complete(ChunkCount[rep[r].file], (rep[r].updated \ {p}) \cup {q})
      BY <3>1, <3>3, CompleteMoved
    <3> QED
      BY <2>3, <3>1, <3>4
  <2> QED
    BY <1>2, <1>4, <2>1, <2>2, <2>3 DEF WorkStep
<1>5. ASSUME NEW q \in Repairers \ {r}, rep'[q].pc \in Working
      PROVE  /\ rep'[q].file \in DOMAIN fileTable
             /\ Complete(ChunkCount[rep'[q].file], rep'[q].updated)
             /\ rep'[q].pc \in {"place", "upload"} => rep'[q].place \subseteq rep'[q].updated
  BY <1>2, <1>5 DEF OthersKept, RepFilled
<1> QED
  BY <1>3, <1>4, <1>5 DEF RepFilled, Complete

\* What is saved is whole; a file that is new in the table comes from the
\* upload that is just through.
LEMMA SavedWhole ==
  ASSUME TypeInv, PlacedInv, Next
  PROVE  \/ fileTable' = fileTable
         \/ \E f \in DOMAIN fileTable : \E ps : /\ Complete(ChunkCount[f], ps)
                                               /\ SaveFilePlacement(f, ps)
         \/ PutNext /\ \E f \in Files : /\ AllUploaded(f) \/ put[f].pc = "abandoned"
                                       /\ Complete(ChunkCount[f], put[f].placed)
                                       /\ SaveFilePlacement(f, put[f].placed)
<1>1. ASSUME NEW f \in Files, AllUploaded(f) \/ put[f].pc = "abandoned"
      PROVE  Complete(ChunkCount[f], put[f].placed)
  <2>1. CASE put[f].pc = "abandoned"
    BY <2>1 DEF PlacedInv, PutFilled
  <2>2. CASE AllUploaded(f)
    <3>1. /\ put[f].placed \in SUBSET ShardPlacement /\ put[f].chunk \in Nat
          /\ ChunkCount[f] \in Nat
      BY ChunkAssumption DEF TypeInv, TypeOK, PutTypeOK, PutState
    <3>2. put[f].chunk = ChunkCount[f] /\ put[f].next = 0
      BY <2>2, <3>1 DEF AllUploaded, PlacedInv, PutFilled
    <3>3. Filled(put[f].chunk, put[f].next, put[f].placed)
      BY <2>2 DEF AllUploaded, PlacedInv, PutFilled
    <3> QED
      BY <3>1, <3>2, <3>3, FilledComplete
  <2> QED
    BY <1>1, <2>1, <2>2
<1>2. ASSUME NEW r \in Repairers, rep[r].pc = "chunks"
      PROVE  rep[r].file \in DOMAIN fileTable /\ Complete(ChunkCount[rep[r].file], rep[r].updated)
  BY <1>2 DEF PlacedInv, RepFilled, Working
<1> QED
  BY <1>1, <1>2, SavedFrom

\* No step makes a list that is saved, or will be, less than whole.
LEMMA PlacedNext == TypeInv /\ RepFiles /\ PlacedInv /\ Next => PlacedInv'
<1> SUFFICES ASSUME TypeInv, RepFiles, PlacedInv, Next PROVE PlacedInv'
  OBVIOUS
<1>1. FullyPlaced'
  <2>1. CASE fileTable' = fileTable
    BY <2>1 DEF PlacedInv, FullyPlaced, Complete
  <2>2. ASSUME NEW f, NEW ps, Complete(ChunkCount[f], ps), SaveFilePlacement(f, ps)
        PROVE  FullyPlaced'
    <3>1. \A g \in DOMAIN fileTable' : Complete(ChunkCount[g], fileTable'[g])
      BY <2>2 DEF PlacedInv, FullyPlaced, SaveFilePlacement
    <3> QED
      BY <3>1 DEF FullyPlaced, Complete
  <2> QED
    BY <2>1, <2>2, SavedWhole
<1>2. PutFilled'
  <2>1. CASE UNCHANGED put
    BY <2>1 DEF PlacedInv, PutFilled, Filled, Complete
  <2>2. CASE PutNext
    BY <2>2, PutFilledNext DEF PlacedInv
  <2> QED
    BY <2>1, <2>2 DEF Next, ClockNext, NodedNext, GetNext, RepairNext, SweepNext
<1>3. PutUnsaved'
  <2>1. CASE PutNext
    <3>1. PICK f \in Files : PutBegin(f) \/ PutStep(f) \/ LateSave(f)
      BY <2>1 DEF PutNext
    <3>2. PutMoves(f) /\ \A g \in Files \ {f} : put'[g] = put[g]
      BY <3>1, PutSummary
    <3>3. \/ fileTable' = fileTable /\ (put[f].pc \in {"idle", "chunk", "upload", "abandoned"})
          \/ SaveFilePlacement(f, put[f].placed) /\ put'[f].pc \in {"done", "failed"}
      BY <3>2 DEF PutMoves, AllUploaded
    <3>4. CASE fileTable' = fileTable /\ (put[f].pc \in {"idle", "chunk", "upload", "abandoned"})
      BY <3>2, <3>4 DEF PlacedInv, PutUnsaved
    <3>5. CASE SaveFilePlacement(f, put[f].placed) /\ put'[f].pc \in {"done", "failed"}
      BY <3>2, <3>5 DEF PlacedInv, PutUnsaved, SaveFilePlacement
    <3> QED
      BY <3>3, <3>4, <3>5
  <2>2. CASE ~PutNext
    <3>1. UNCHANGED put
      BY <2>2 DEF Next, ClockNext, NodedNext, GetNext, RepairNext, SweepNext
    <3>2. DOMAIN fileTable' = DOMAIN fileTable
      BY <2>2, SavedWhole DEF SaveFilePlacement
    <3> QED
      BY <3>1, <3>2 DEF PlacedInv, PutUnsaved
  <2> QED
    BY <2>1, <2>2
<1>4. RepFilled'
  <2>1. CASE UNCHANGED rep
    BY <2>1, FilesGrow DEF PlacedInv, RepFilled, Complete
  <2>2. CASE RepairNext
    BY <2>2, RepFilledNext DEF PlacedInv
  <2> QED
    BY <2>1, <2>2 DEF Next, ClockNext, NodedNext, PutNext, GetNext, SweepNext, repairVars
<1> QED
  BY <1>1, <1>2, <1>3, <1>4 DEF PlacedInv

-----------------------------------------------------------------------------
(* What a step of a download does *)

\* The command reads the placements, lists the nodes, takes the next chunk,
\* tries one placement of it, reconstructs it, ends, or fails.
GetMoves(r) ==
    LET old == get[r]
        new == get'[r] IN
    \/ /\ old.pc = "idle" /\ new.pc = "nodes"
       /\ new.file \in DOMAIN fileTable /\ new.file \in Files
       /\ new.placements = fileTable[new.file] /\ new.out = old.out
    \/ /\ old.pc = "idle" /\ new.pc = "failed" /\ new.file \in Files
    \/ /\ old.pc = "nodes" /\ new.pc = "chunk"
       /\ new.file = old.file /\ new.placements = old.placements /\ new.out = old.out
       /\ new.todo = {p.chunk : p \in old.placements}
    \/ /\ old.pc = "chunk" /\ new.pc = "fetch"
       /\ new.file = old.file /\ new.placements = old.placements /\ new.out = old.out
       /\ new.chunk \in old.todo /\ new.todo = old.todo \ {new.chunk}
       /\ new.group = Group(old.placements, new.chunk)
       /\ new.got = {} /\ new.missed = {}
    \/ /\ old.pc = "fetch" /\ new.pc = "fetch"
       /\ new.file = old.file /\ new.placements = old.placements /\ new.out = old.out
       /\ new.todo = old.todo /\ new.chunk = old.chunk
       /\ \E p \in old.group :
             /\ new.group = old.group \ {p}
             /\ \/ new.got = old.got \cup {p.shard} /\ new.missed = old.missed
                \/ new.got = old.got /\ new.missed = old.missed \cup {p.node}
    \/ /\ old.pc = "fetch" /\ new.pc = "chunk"
       /\ new.file = old.file /\ new.placements = old.placements
       /\ new.todo = old.todo /\ new.out = old.out \cup {old.chunk}
    \/ /\ old.pc = "chunk" /\ new.pc = "done" /\ old.todo = {}
       /\ new.file = old.file /\ new.placements = old.placements /\ new.out = old.out
    \/ /\ old.pc \in {"nodes", "chunk", "fetch"} /\ new.pc = "failed" /\ new.file = old.file

\* Every step of a download is one of these, and moves no other download.
LEMMA GetSummary ==
  ASSUME TypeInv, NEW r \in Readers, GetStep(r) \/ \E f \in Files : GetBegin(r, f)
  PROVE  GetMoves(r) /\ \A q \in Readers \ {r} : get'[q] = get[q]
<1>1. get \in [Readers -> GetState] /\ get[r] \in GetState
  BY DEF TypeInv, TypeOK, GetTypeOK
<1>2. ASSUME NEW s, GetTo(r, s) PROVE get'[r] = s /\ \A q \in Readers \ {r} : get'[q] = get[q]
  BY <1>1, <1>2 DEF GetTo
<1>3. ASSUME GetTo(r, [get[r] EXCEPT !.pc = "failed"])
      PROVE  /\ get'[r].pc = "failed" /\ get'[r].file = get[r].file
             /\ \A q \in Readers \ {r} : get'[q] = get[q]
  BY <1>1, <1>3 DEF GetTo, GetState
<1>4. ASSUME NEW f \in Files, GetBegin(r, f)
      PROVE  GetMoves(r) /\ \A q \in Readers \ {r} : get'[q] = get[q]
  <2>1. CASE /\ FileFound(f)
             /\ GetTo(r, [get[r] EXCEPT !.pc = "nodes", !.file = f,
                                        !.placements = GetFilePlacement(f)])
    <3>1. /\ get'[r].pc = "nodes" /\ get'[r].file = f /\ get'[r].placements = fileTable[f]
          /\ get'[r].out = get[r].out
          /\ \A q \in Readers \ {r} : get'[q] = get[q]
      BY <1>1, <2>1 DEF GetTo, GetState, GetFilePlacement
    <3> QED
      BY <1>4, <2>1, <3>1 DEF GetBegin, FileFound, GetMoves
  <2>2. CASE GetTo(r, [get[r] EXCEPT !.pc = "failed", !.file = f])
    <3>1. /\ get'[r].pc = "failed" /\ get'[r].file = f
          /\ \A q \in Readers \ {r} : get'[q] = get[q]
      BY <1>1, <2>2 DEF GetTo, GetState
    <3> QED
      BY <1>4, <3>1 DEF GetBegin, GetMoves
  <2> QED
    BY <1>4, <2>1, <2>2 DEF GetBegin
<1>5. CASE GetNodes(r)
  <2>1. CASE GetTo(r, [get[r] EXCEPT !.pc = "chunk", !.known = DOMAIN nodeTable,
                                     !.todo = {p.chunk : p \in get[r].placements}])
    <3>1. /\ get'[r].pc = "chunk" /\ get'[r].file = get[r].file
          /\ get'[r].placements = get[r].placements /\ get'[r].out = get[r].out
          /\ get'[r].todo = {p.chunk : p \in get[r].placements}
          /\ \A q \in Readers \ {r} : get'[q] = get[q]
      BY <1>1, <2>1 DEF GetTo, GetState
    <3> QED
      BY <1>5, <3>1 DEF GetNodes, GetMoves
  <2> QED
    BY <1>3, <1>5, <2>1 DEF GetNodes, GetMoves
<1>6. CASE GetChunk(r)
  <2>1. PICK c \in get[r].todo :
           GetTo(r, [get[r] EXCEPT !.pc = "fetch", !.chunk = c, !.todo = @ \ {c},
                                   !.group = Group(get[r].placements, c),
                                   !.got = {}, !.missed = {}])
    BY <1>6 DEF GetChunk
  <2>2. /\ get'[r].pc = "fetch" /\ get'[r].file = get[r].file
        /\ get'[r].placements = get[r].placements /\ get'[r].out = get[r].out
        /\ get'[r].chunk = c /\ get'[r].todo = get[r].todo \ {c}
        /\ get'[r].group = Group(get[r].placements, c)
        /\ get'[r].got = {} /\ get'[r].missed = {}
        /\ \A q \in Readers \ {r} : get'[q] = get[q]
    BY <1>1, <2>1 DEF GetTo, GetState
  <2> QED
    BY <1>6, <2>2 DEF GetChunk, GetMoves
<1>7. CASE GetFetch(r)
  <2>1. PICK p \in get[r].group :
           \/ GetTo(r, [get[r] EXCEPT !.group = @ \ {p}, !.got = @ \cup {p.shard}])
           \/ GetTo(r, [get[r] EXCEPT !.group = @ \ {p}, !.missed = @ \cup {p.node}])
    BY <1>7 DEF GetFetch
  <2>2. /\ get'[r].pc = get[r].pc /\ get'[r].file = get[r].file
        /\ get'[r].placements = get[r].placements /\ get'[r].out = get[r].out
        /\ get'[r].todo = get[r].todo /\ get'[r].chunk = get[r].chunk
        /\ get'[r].group = get[r].group \ {p}
        /\ \/ get'[r].got = get[r].got \cup {p.shard} /\ get'[r].missed = get[r].missed
           \/ get'[r].got = get[r].got /\ get'[r].missed = get[r].missed \cup {p.node}
        /\ \A q \in Readers \ {r} : get'[q] = get[q]
    <3>1. CASE GetTo(r, [get[r] EXCEPT !.group = @ \ {p}, !.got = @ \cup {p.shard}])
      BY <1>1, <3>1 DEF GetTo, GetState
    <3>2. CASE GetTo(r, [get[r] EXCEPT !.group = @ \ {p}, !.missed = @ \cup {p.node}])
      BY <1>1, <3>2 DEF GetTo, GetState
    <3> QED
      BY <2>1, <3>1, <3>2
  <2> QED
    BY <1>7, <2>2 DEF GetFetch, GetMoves
<1>8. CASE GetReconstruct(r)
  <2>1. CASE GetTo(r, [get[r] EXCEPT !.pc = "chunk", !.out = @ \cup {get[r].chunk}])
    <3>1. /\ get'[r].pc = "chunk" /\ get'[r].file = get[r].file
          /\ get'[r].placements = get[r].placements /\ get'[r].todo = get[r].todo
          /\ get'[r].out = get[r].out \cup {get[r].chunk}
          /\ \A q \in Readers \ {r} : get'[q] = get[q]
      BY <1>1, <2>1 DEF GetTo, GetState
    <3> QED
      BY <1>8, <3>1 DEF GetReconstruct, GetMoves
  <2> QED
    BY <1>3, <1>8, <2>1 DEF GetReconstruct, GetMoves
<1>9. CASE GetFinish(r)
  <2>1. CASE GetTo(r, [get[r] EXCEPT !.pc = "done"])
    <3>1. /\ get'[r].pc = "done" /\ get'[r].file = get[r].file
          /\ get'[r].placements = get[r].placements /\ get'[r].out = get[r].out
          /\ \A q \in Readers \ {r} : get'[q] = get[q]
      BY <1>1, <2>1 DEF GetTo, GetState
    <3> QED
      BY <1>9, <3>1 DEF GetFinish, GetMoves
  <2>2. CASE GetTo(r, [get[r] EXCEPT !.pc = "failed"])
    BY <1>3, <1>9, <2>2 DEF GetFinish, GetMoves
  <2> QED
    BY <1>9, <2>1, <2>2 DEF GetFinish
<1> QED
  BY <1>4, <1>5, <1>6, <1>7, <1>8, <1>9 DEF GetStep

-----------------------------------------------------------------------------
(* What is downloaded is whole *)

\* No step loses a chunk of a download.
LEMMA GetWholeNext == TypeInv /\ FullyPlaced /\ GetWhole /\ Next => GetWhole'
<1> SUFFICES ASSUME TypeInv, FullyPlaced, GetWhole, Next PROVE GetWhole'
  OBVIOUS
<1> DEFINE Whole(q) ==
      /\ get'[q].pc = "idle" => get'[q] = NoGet
      /\ get'[q].pc \in {"nodes", "chunk", "fetch", "done"} =>
            /\ get'[q].file \in DOMAIN fileTable
            /\ Complete(ChunkCount[get'[q].file], get'[q].placements)
      /\ get'[q].pc = "nodes" => get'[q].out = {}
      /\ get'[q].pc = "chunk" => get'[q].todo \cup get'[q].out = Chunks(get'[q].file)
      /\ get'[q].pc = "fetch" =>
            get'[q].todo \cup get'[q].out \cup {get'[q].chunk} = Chunks(get'[q].file)
      /\ get'[q].pc = "done" => get'[q].out = Chunks(get'[q].file)
<1>1. DOMAIN fileTable \subseteq DOMAIN fileTable'
  BY FilesGrow
<1>2. CASE UNCHANGED get
  BY <1>1, <1>2 DEF GetWhole, Complete, Chunks
<1>3. CASE GetNext
  <2>1. PICK r \in Readers : GetStep(r) \/ \E f \in Files : GetBegin(r, f)
    BY <1>3 DEF GetNext
  <2>2. GetMoves(r) /\ \A q \in Readers \ {r} : get'[q] = get[q]
    BY <2>1, GetSummary
  <2>3. ASSUME NEW q \in Readers \ {r} PROVE Whole(q)
    BY <2>2 DEF GetWhole
  <2>4. Whole(r)
    <3>1. CASE get[r].pc = "idle"
      <4>1. get[r].out = {}
        BY <3>1 DEF GetWhole, NoGet
      <4> QED
        BY <2>2, <3>1, <4>1 DEF GetMoves, FullyPlaced
    <3>2. CASE get[r].pc = "nodes"
      <4>1. get[r].placements \in SUBSET ShardPlacement
        BY DEF TypeInv, TypeOK, GetTypeOK, GetState
      <4>2. /\ get[r].file \in DOMAIN fileTable /\ get[r].file \in Files /\ get[r].out = {}
            /\ Complete(ChunkCount[get[r].file], get[r].placements)
        BY <3>2 DEF GetWhole, TypeInv, TypeOK, TrackerTypeOK
      <4>3. {p.chunk : p \in get[r].placements} = Chunks(get[r].file)
        BY <4>1, <4>2, CompleteChunks
      <4>4. \/ /\ get'[r].pc = "chunk" /\ get'[r].file = get[r].file
               /\ get'[r].placements = get[r].placements /\ get'[r].out = get[r].out
               /\ get'[r].todo = {p.chunk : p \in get[r].placements}
            \/ get'[r].pc = "failed"
        BY <2>2, <3>2 DEF GetMoves
      <4> QED
        BY <4>2, <4>3, <4>4
    <3>3. CASE get[r].pc = "chunk"
      <4>1. /\ get[r].file \in DOMAIN fileTable
            /\ Complete(ChunkCount[get[r].file], get[r].placements)
            /\ get[r].todo \cup get[r].out = Chunks(get[r].file)
        BY <3>3 DEF GetWhole
      <4>2. \/ /\ get'[r].pc = "fetch" /\ get'[r].file = get[r].file
               /\ get'[r].placements = get[r].placements /\ get'[r].out = get[r].out
               /\ get'[r].chunk \in get[r].todo
               /\ get'[r].todo = get[r].todo \ {get'[r].chunk}
            \/ /\ get'[r].pc = "done" /\ get[r].todo = {} /\ get'[r].file = get[r].file
               /\ get'[r].placements = get[r].placements /\ get'[r].out = get[r].out
            \/ get'[r].pc = "failed"
        BY <2>2, <3>3 DEF GetMoves
      <4> QED
        BY <4>1, <4>2
    <3>4. CASE get[r].pc = "fetch"
      <4>1. /\ get[r].file \in DOMAIN fileTable
            /\ Complete(ChunkCount[get[r].file], get[r].placements)
            /\ get[r].todo \cup get[r].out \cup {get[r].chunk} = Chunks(get[r].file)
        BY <3>4 DEF GetWhole
      <4>2. \/ /\ get'[r].pc = "fetch" /\ get'[r].file = get[r].file
               /\ get'[r].placements = get[r].placements /\ get'[r].out = get[r].out
               /\ get'[r].chunk = get[r].chunk /\ get'[r].todo = get[r].todo
            \/ /\ get'[r].pc = "chunk" /\ get'[r].file = get[r].file
               /\ get'[r].placements = get[r].placements /\ get'[r].todo = get[r].todo
               /\ get'[r].out = get[r].out \cup {get[r].chunk}
            \/ get'[r].pc = "failed"
        BY <2>2, <3>4 DEF GetMoves
      <4> QED
        BY <4>1, <4>2
    <3> QED
      BY <2>2, <3>1, <3>2, <3>3, <3>4 DEF GetMoves
  <2>5. \A q \in Readers : Whole(q)
    BY <2>3, <2>4
  <2> QED
    BY <1>1, <2>5 DEF GetWhole, Complete, Chunks
<1> QED
  BY <1>2, <1>3 DEF Next, ClockNext, NodedNext, PutNext, RepairNext, SweepNext

\* No step forgets a node that did not deliver.
LEMMA GetTriedNext == TypeInv /\ GetTried /\ Next => GetTried'
<1> SUFFICES ASSUME TypeInv, GetTried, Next PROVE GetTried'
  OBVIOUS
<1> DEFINE Tried(q) == get'[q].pc = "fetch" =>
      /\ \A p \in get'[q].placements : p.chunk = get'[q].chunk =>
            p \in get'[q].group \/ p.shard \in get'[q].got \/ p.node \in get'[q].missed
      /\ get'[q].group \subseteq Group(get'[q].placements, get'[q].chunk)
      /\ get'[q].missed \subseteq NodesOf(get'[q].chunk, get'[q].placements)
<1>1. CASE UNCHANGED get
  BY <1>1 DEF GetTried, Group, NodesOf
<1>2. CASE GetNext
  <2>1. PICK r \in Readers : GetStep(r) \/ \E f \in Files : GetBegin(r, f)
    BY <1>2 DEF GetNext
  <2>2. GetMoves(r) /\ \A q \in Readers \ {r} : get'[q] = get[q]
    BY <2>1, GetSummary
  <2>3. ASSUME NEW q \in Readers \ {r} PROVE Tried(q)
    BY <2>2 DEF GetTried
  <2>4. Tried(r)
    <3>1. CASE get[r].pc = "chunk" /\ get'[r].pc = "fetch"
      <4>1. /\ get'[r].placements = get[r].placements
            /\ get'[r].group = Group(get[r].placements, get'[r].chunk)
            /\ get'[r].missed = {}
        BY <2>2, <3>1 DEF GetMoves
      <4>2. \A p \in get[r].placements : p.shard < K + M
        BY ShardsAssumption DEF TypeInv, TypeOK, GetTypeOK, GetState, ShardPlacement, ShardIndex
      <4> QED
        BY <4>1, <4>2 DEF Group
    <3>2. CASE get[r].pc = "fetch" /\ get'[r].pc = "fetch"
      <4>1. PICK p \in get[r].group :
               /\ get'[r].placements = get[r].placements /\ get'[r].chunk = get[r].chunk
               /\ get'[r].group = get[r].group \ {p}
               /\ \/ get'[r].got = get[r].got \cup {p.shard} /\ get'[r].missed = get[r].missed
                  \/ get'[r].got = get[r].got /\ get'[r].missed = get[r].missed \cup {p.node}
        BY <2>2, <3>2 DEF GetMoves
      <4>2. /\ \A q \in get[r].placements : q.chunk = get[r].chunk =>
                  q \in get[r].group \/ q.shard \in get[r].got \/ q.node \in get[r].missed
            /\ get[r].group \subseteq Group(get[r].placements, get[r].chunk)
            /\ get[r].missed \subseteq NodesOf(get[r].chunk, get[r].placements)
        BY <3>2 DEF GetTried
      <4>3. p.node \in NodesOf(get[r].chunk, get[r].placements)
        BY <4>2 DEF Group, NodesOf
      <4> QED
        BY <4>1, <4>2, <4>3
    <3> QED
      BY <2>2, <3>1, <3>2 DEF GetMoves
  <2>5. \A q \in Readers : Tried(q)
    BY <2>3, <2>4
  <2> QED
    BY <2>5 DEF GetTried, Group, NodesOf
<1> QED
  BY <1>1, <1>2 DEF Next, ClockNext, NodedNext, PutNext, RepairNext, SweepNext

-----------------------------------------------------------------------------
(* Counting *)

\* A function takes at most as many values as it has arguments, and exactly
\* as many when it is one to one.
LEMMA ImageCardinality ==
  ASSUME NEW S, IsFiniteSet(S), NEW g
  PROVE  /\ IsFiniteSet({g[x] : x \in S})
         /\ Cardinality({g[x] : x \in S}) <= Cardinality(S)
         /\ (\A x, y \in S : g[x] = g[y] => x = y)
               => Cardinality({g[x] : x \in S}) = Cardinality(S)
<1> DEFINE T == {g[x] : x \in S}
           h == [x \in S |-> g[x]]
<1>1. h \in Surjection(S, T)
  BY DEF Surjection
<1>2. (\A x, y \in S : g[x] = g[y] => x = y) => h \in Injection(S, T)
  BY DEF Injection, IsInjective
<1> HIDE DEF h, T
<1>3. /\ IsFiniteSet(T) /\ Cardinality(T) <= Cardinality(S)
      /\ Cardinality(T) = Cardinality(S) <=> h \in Injection(S, T)
  BY <1>1, FS_Surjection
<1> QED
  BY <1>2, <1>3 DEF T

\* There are K + M shards, and a set of shards is finite.
LEMMA ShardCount ==
  /\ IsFiniteSet(ShardIndex) /\ Cardinality(ShardIndex) = K + M
  /\ \A got \in SUBSET ShardIndex : IsFiniteSet(got) /\ Cardinality(got) \in Nat
<1>1. IsFiniteSet(ShardIndex) /\ Cardinality(ShardIndex) = K + M
  <2>1. K \in Nat /\ M \in Nat /\ K + M - 1 \in Int /\ ~(0 > K + M - 1)
    BY ShardsAssumption
  <2>2. /\ IsFiniteSet(0 .. K + M - 1)
        /\ Cardinality(0 .. K + M - 1) =
              IF 0 > K + M - 1 THEN 0 ELSE (K + M - 1) - 0 + 1
    BY <2>1, FS_Interval
  <2> QED
    BY <2>1, <2>2 DEF ShardIndex
<1> QED
  BY <1>1, FS_Subset, FS_CardinalityType

\* In a complete list, the node of a shard of chunk c is a function of the
\* shard.
LEMMA NodeOfShard ==
  ASSUME NEW f \in Files, NEW ps \in SUBSET ShardPlacement, NEW c \in Chunks(f),
         Complete(ChunkCount[f], ps)
  PROVE  \E nd : /\ \A p \in ps : p.chunk = c => nd[p.shard] = p.node
                 /\ NodesOf(c, ps) = {nd[s] : s \in ShardIndex}
<1> DEFINE nd == [s \in ShardIndex |-> (CHOOSE p \in ps : p.chunk = c /\ p.shard = s).node]
<1>1. ASSUME NEW p \in ps, p.chunk = c PROVE nd[p.shard] = p.node
  <2>1. p.shard \in ShardIndex
    BY DEF ShardPlacement
  <2>2. \A q \in ps : q.chunk = c /\ q.shard = p.shard => q = p
    BY <1>1 DEF Complete
  <2>3. (CHOOSE q \in ps : q.chunk = c /\ q.shard = p.shard) = p
    BY <1>1, <2>2
  <2> QED
    BY <2>1, <2>3
<1>2. ASSUME NEW s \in ShardIndex PROVE \E p \in ps : p.chunk = c /\ p.shard = s
  BY DEF Complete, Chunks
<1> HIDE DEF nd
<1>3. \A n \in NodesOf(c, ps) : \E s \in ShardIndex : n = nd[s]
  BY <1>1 DEF NodesOf, ShardPlacement
<1>4. \A s \in ShardIndex : nd[s] \in NodesOf(c, ps)
  BY <1>1, <1>2 DEF NodesOf
<1>5. NodesOf(c, ps) = {nd[s] : s \in ShardIndex}
  BY <1>3, <1>4
<1> QED
  BY <1>1, <1>5

\* A chunk all of whose placements were tried, on K + M different nodes, has
\* K shards or has missed more than M nodes.
LEMMA MissesCounted == TypeInv /\ GetWhole /\ GetTried /\ PlacedInv => FailureNeedsManyMisses
<1> SUFFICES ASSUME TypeInv, GetWhole, GetTried, PlacedInv, NEW r \in Readers,
                    get[r].pc = "fetch", get[r].group = {},
                    Spread(get[r].file, get[r].placements)
             PROVE  Reconstructable(get[r].got) \/ Cardinality(get[r].missed) > M
  BY DEF FailureNeedsManyMisses
<1> DEFINE c == get[r].chunk
           ps == get[r].placements
           got == get[r].got
           missed == get[r].missed
<1>1. /\ ps \in SUBSET ShardPlacement /\ got \in SUBSET ShardIndex
      /\ get[r].file \in Files /\ Complete(ChunkCount[get[r].file], ps)
      /\ c \in Chunks(get[r].file)
  BY DEF TypeInv, TypeOK, GetTypeOK, GetState, TrackerTypeOK, GetWhole
<1>2. /\ \A p \in ps : p.chunk = c => p.shard \in got \/ p.node \in missed
      /\ missed \subseteq NodesOf(c, ps)
  BY DEF GetTried
<1>3. Cardinality(NodesOf(c, ps)) = K + M
  BY <1>1 DEF Spread
<1> HIDE DEF c, ps, got, missed
<1>4. PICK nd : /\ \A p \in ps : p.chunk = c => nd[p.shard] = p.node
                /\ NodesOf(c, ps) = {nd[s] : s \in ShardIndex}
  BY <1>1, NodeOfShard
<1> DEFINE delivered == {nd[s] : s \in got}
<1>5. NodesOf(c, ps) \subseteq missed \cup delivered
  BY <1>2, <1>4 DEF NodesOf
<1>6. IsFiniteSet(NodesOf(c, ps))
  BY <1>4, ImageCardinality, ShardCount
<1>7. IsFiniteSet(got) /\ Cardinality(got) \in Nat
  BY <1>1, ShardCount
<1>8. IsFiniteSet(delivered) /\ Cardinality(delivered) <= Cardinality(got)
  BY <1>7, ImageCardinality
<1> HIDE DEF delivered
<1>9. IsFiniteSet(missed) /\ Cardinality(missed) \in Nat
  BY <1>2, <1>6, FS_Subset, FS_CardinalityType
<1>10. /\ IsFiniteSet(missed \cup delivered)
       /\ Cardinality(missed \cup delivered) <= Cardinality(missed) + Cardinality(delivered)
  <2>1. /\ IsFiniteSet(missed \cup delivered)
        /\ Cardinality(missed \cup delivered) =
              Cardinality(missed) + Cardinality(delivered) - Cardinality(missed \cap delivered)
    BY <1>8, <1>9, FS_Union
  <2>2. Cardinality(missed \cap delivered) \in Nat /\ Cardinality(delivered) \in Nat
    BY <1>8, <1>9, FS_Intersection, FS_CardinalityType
  <2> QED
    BY <1>9, <2>1, <2>2
<1>11. K + M <= Cardinality(missed \cup delivered)
  BY <1>3, <1>5, <1>10, FS_Subset
<1>12. Cardinality(delivered) \in Nat /\ Cardinality(missed \cup delivered) \in Nat
  BY <1>8, <1>10, FS_CardinalityType
<1> QED
  BY <1>7, <1>8, <1>9, <1>10, <1>11, <1>12, ShardsAssumption DEF Reconstructable, got, missed

\* The nodes of a selection are distinct.
LEMMA SelectionDistinct ==
  ASSUME NEW count, NEW s \in SelectPlacementNodes(count, 0)
  PROVE  \A i, j \in 0 .. count - 1 : i < j => s[i] # s[j]
  BY DEF SelectPlacementNodes

\* The shards of one upload of a chunk go to different nodes.
LEMMA PutApartNext == TypeInv /\ PutFilled /\ PutApart /\ Next => PutApart'
<1> SUFFICES ASSUME TypeInv, PutFilled, PutApart, Next PROVE PutApart'
  OBVIOUS
<1> DEFINE Holds(g) ==
      /\ Apart(put'[g].placed)
      /\ put'[g].pc = "upload" =>
            /\ \A i, j \in ShardIndex : put'[g].nodes[i] = put'[g].nodes[j] => i = j
            /\ \A p \in put'[g].placed :
                  p.chunk = put'[g].chunk => p.node = put'[g].nodes[p.shard]
<1>1. CASE UNCHANGED put
  BY <1>1 DEF PutApart, Apart
<1>2. CASE PutNext
  <2>1. PICK f \in Files : PutBegin(f) \/ PutStep(f) \/ LateSave(f)
    BY <1>2 DEF PutNext
  <2>2. PutMoves(f) /\ \A g \in Files \ {f} : put'[g] = put[g]
    BY <2>1, PutSummary
  <2>3. ASSUME NEW g \in Files \ {f} PROVE Holds(g)
    BY <2>2 DEF PutApart
  <2>4. put[f].placed \in SUBSET ShardPlacement /\ put[f].chunk \in Nat
    BY DEF TypeInv, TypeOK, PutTypeOK, PutState
  <2>5. Holds(f)
    <3>1. CASE put[f].pc = "chunk" /\ put'[f].pc = "upload"
      <4>1. /\ put'[f].chunk = put[f].chunk /\ put'[f].placed = put[f].placed
            /\ put'[f].nodes \in SelectPlacementNodes(K + M, 0)
        BY <2>2, <3>1 DEF PutMoves, AllUploaded
      <4>2. \A i, j \in ShardIndex : put'[f].nodes[i] = put'[f].nodes[j] => i = j
        <5>1. \A i, j \in ShardIndex : i < j => put'[f].nodes[i] # put'[f].nodes[j]
          <6> DEFINE s == put'[f].nodes
                     count == K + M
          <6>1. s \in SelectPlacementNodes(count, 0)
            BY <4>1
          <6>2. ShardIndex = 0 .. count - 1
            BY ShardsAssumption DEF ShardIndex
          <6> HIDE DEF s, count
          <6>3. \A i, j \in 0 .. count - 1 : i < j => s[i] # s[j]
            BY <6>1, SelectionDistinct
          <6>4. \A i, j \in ShardIndex : i < j => s[i] # s[j]
            BY <6>2, <6>3
          <6> QED
            BY <6>4 DEF s
        <5>2. \A i, j \in ShardIndex : i < j \/ j < i \/ i = j
          BY DEF ShardIndex
        <5> QED
          BY <4>1, <5>1, <5>2
      <4>3. \A p \in put[f].placed : p.chunk # put[f].chunk
        <5>1. Filled(put[f].chunk, 0, put[f].placed)
          BY <3>1 DEF PutFilled
        <5>2. \A p \in put[f].placed : ~(p.shard < 0)
          BY <2>4, ShardsAssumption DEF ShardPlacement, ShardIndex
        <5> QED
          BY <2>4, <5>1, <5>2 DEF Filled
      <4> QED
        BY <4>1, <4>2, <4>3 DEF PutApart
    <3>2. CASE put[f].pc = "upload" /\ put'[f].pc \in {"upload", "chunk"}
      <4> DEFINE new == NextPlacement(f)
      <4>1. /\ new.chunk = put[f].chunk /\ new.shard = put[f].next
            /\ new.node = put[f].nodes[put[f].next] /\ put[f].next \in ShardIndex
        BY <3>2 DEF NextPlacement, TypeInv, PutShape
      <4>2. /\ put'[f].placed = put[f].placed \cup {new}
            /\ put'[f].pc = "upload" => /\ put'[f].chunk = put[f].chunk
                                        /\ put'[f].nodes = put[f].nodes
        BY <2>2, <3>2 DEF PutMoves, AllUploaded
      <4> HIDE DEF new
      <4>3. /\ Apart(put[f].placed)
            /\ \A i, j \in ShardIndex : put[f].nodes[i] = put[f].nodes[j] => i = j
            /\ \A p \in put[f].placed : p.chunk = put[f].chunk => p.node = put[f].nodes[p.shard]
        BY <3>2 DEF PutApart
      <4>4. \A p \in put[f].placed : p.chunk = new.chunk /\ p.node = new.node => p.shard = new.shard
        BY <2>4, <4>1, <4>3 DEF ShardPlacement
      <4>5. Apart(put[f].placed \cup {new})
        BY <4>3, <4>4 DEF Apart
      <4> QED
        BY <4>1, <4>2, <4>3, <4>5
    <3>3. CASE /\ put'[f].placed = put[f].placed /\ put'[f].pc # "upload"
      BY <3>3 DEF PutApart
    <3> QED
      BY <2>2, <3>1, <3>2, <3>3 DEF PutMoves, AllUploaded
  <2>6. \A g \in Files : Holds(g)
    BY <2>3, <2>5
  <2> QED
    BY <2>6 DEF PutApart, Apart
<1> QED
  BY <1>1, <1>2 DEF Next, ClockNext, NodedNext, GetNext, RepairNext, SweepNext

\* A whole list that puts no two shards of a chunk on one node is spread.
LEMMA ApartSpread ==
  ASSUME NEW f \in Files, NEW ps \in SUBSET ShardPlacement,
         Complete(ChunkCount[f], ps), Apart(ps)
  PROVE  Spread(f, ps)
<1> SUFFICES ASSUME NEW c \in Chunks(f) PROVE Cardinality(NodesOf(c, ps)) = K + M
  BY DEF Spread
<1>1. PICK nd : /\ \A p \in ps : p.chunk = c => nd[p.shard] = p.node
                /\ NodesOf(c, ps) = {nd[s] : s \in ShardIndex}
  BY NodeOfShard
<1>2. ASSUME NEW s \in ShardIndex, NEW t \in ShardIndex, nd[s] = nd[t] PROVE s = t
  <2>1. PICK p \in ps : p.chunk = c /\ p.shard = s
    BY DEF Complete, Chunks
  <2>2. PICK q \in ps : q.chunk = c /\ q.shard = t
    BY DEF Complete, Chunks
  <2>3. p.node = q.node
    BY <1>1, <1>2, <2>1, <2>2
  <2> QED
    BY <2>1, <2>2, <2>3 DEF Apart
<1> QED
  BY <1>1, <1>2, ImageCardinality, ShardCount

\* A file that is new in the table is spread.
LEMMA SavedSpread ==
  ASSUME TypeInv, PlacedInv, PutApart, Next,
         NEW f \in DOMAIN fileTable', f \notin DOMAIN fileTable
  PROVE  /\ PutNext /\ f \in Files
         /\ fileTable' = [g \in DOMAIN fileTable \cup {f} |->
                            IF g = f THEN put[f].placed ELSE fileTable[g]]
         /\ Spread(f, fileTable'[f])
<1>1. /\ PutNext /\ f \in Files
      /\ Complete(ChunkCount[f], put[f].placed) /\ SaveFilePlacement(f, put[f].placed)
  BY SavedWhole DEF SaveFilePlacement
<1>2. put[f].placed \in SUBSET ShardPlacement /\ fileTable'[f] = put[f].placed
  BY <1>1 DEF SaveFilePlacement, TypeInv, TypeOK, PutTypeOK, PutState
<1> QED
  BY <1>1, <1>2, ApartSpread DEF PutApart, SaveFilePlacement

-----------------------------------------------------------------------------
(* The theorems *)

WholeInv == Inv /\ PlacedInv /\ GetWhole /\ GetTried /\ PutApart

\* In the initial state nothing is saved and nobody is at work.
LEMMA InitWhole == Init => WholeInv
<1> SUFFICES ASSUME Init PROVE WholeInv
  OBVIOUS
<1>1. Inv
  BY InitInv
<1>2. FullyPlaced /\ PutUnsaved
  BY DEF Init, NewStore, FullyPlaced, PutUnsaved
<1>3. PutFilled /\ PutApart
  <2>1. \A f \in Files : /\ put[f].pc = "idle" /\ put[f].chunk = 0 /\ put[f].next = 0
                         /\ put[f].placed = {} /\ ChunkCount[f] \in Nat
    BY ChunkAssumption DEF Init, PutInit
  <2>2. PutFilled
    BY <2>1, FilledEmpty DEF PutFilled
  <2>3. PutApart
    BY <2>1 DEF PutApart, Apart
  <2> QED
    BY <2>2, <2>3
<1>4. RepFilled
  BY DEF Init, RepairInit, NoPass, RepFilled, Working
<1>5. GetWhole /\ GetTried
  BY DEF Init, GetInit, NoGet, GetWhole, GetTried
<1> QED
  BY <1>1, <1>2, <1>3, <1>4, <1>5 DEF WholeInv, PlacedInv

\* Every step preserves WholeInv.
LEMMA NextWhole == WholeInv /\ [Next]_vars => WholeInv'
<1> SUFFICES ASSUME WholeInv, [Next]_vars PROVE WholeInv'
  OBVIOUS
<1>1. Inv'
  BY NextInv DEF WholeInv
<1>2. CASE Next
  BY <1>1, <1>2, PlacedNext, GetWholeNext, GetTriedNext, PutApartNext
     DEF WholeInv, Inv, PlacedInv
<1>3. CASE UNCHANGED vars
  <2> USE <1>3 DEF WholeInv, vars, trackerVars, repairVars
  <2>1. PlacedInv'
    BY DEF PlacedInv, FullyPlaced, PutFilled, PutUnsaved, RepFilled, Filled, Complete
  <2>2. GetWhole'
    BY DEF GetWhole, Complete, Chunks
  <2>3. GetTried' /\ PutApart'
    BY DEF GetTried, PutApart, Apart, Group, NodesOf
  <2> QED
    BY <1>1, <2>1, <2>2, <2>3
<1> QED
  BY <1>2, <1>3

\* WholeInv holds in every reachable state.
LEMMA WholeInvariance == Spec => []WholeInv
  BY InitWhole, NextWhole, PTL DEF Spec

\* A file is in the tracker with every shard of every chunk placed exactly
\* once, or not at all, whatever uploads fail or are saved late and however
\* many passes move shards at the same time.
THEOREM FullyPlacedTheorem == Spec => []FullyPlaced
<1>1. WholeInv => FullyPlaced
  BY DEF WholeInv, PlacedInv
<1> QED
  BY <1>1, WholeInvariance, PTL

\* A download that reports success has reconstructed every chunk of the file.
THEOREM DownloadCompleteTheorem == Spec => []DownloadComplete
<1>1. WholeInv => DownloadComplete
  BY DEF WholeInv, GetWhole, DownloadComplete
<1> QED
  BY <1>1, WholeInvariance, PTL

\* A download of a file that is spread fails at a chunk only if more than M
\* nodes did not deliver, for every K and M.
THEOREM FailureNeedsManyMissesTheorem == Spec => []FailureNeedsManyMisses
<1>1. WholeInv => FailureNeedsManyMisses
  BY MissesCounted DEF WholeInv, Inv
<1> QED
  BY <1>1, WholeInvariance, PTL

\* A file enters the tracker with the shards of each chunk on K + M different
\* nodes.
THEOREM UploadsAreSpreadTheorem == Spec => UploadsAreSpread
<1>1. ASSUME WholeInv, [Next]_vars
      PROVE  [\A f \in DOMAIN fileTable' \ DOMAIN fileTable : Spread(f, fileTable'[f])]_vars
  BY <1>1, SavedSpread DEF WholeInv, Inv
<1> QED
  BY <1>1, WholeInvariance, PTL DEF Spec, UploadsAreSpread

-----------------------------------------------------------------------------
(* The network implements FileStore: initial states map to initial states  *)
(* and every step maps to a step of FileStore or to a stutter              *)

\* The state of FileStore.

Catalog == {f \in DOMAIN fileTable : Recoverable(f)}
Uploads == [f \in Files |-> UploadStatus(f)]
Downloads == [r \in Readers |-> [status |-> DownloadStatus(r), file |-> get[r].file]]

\* Every file in the table is recoverable: it is whole, and on disk.
LEMMA CatalogIsTable == WholeInv => Catalog = DOMAIN fileTable
<1> SUFFICES ASSUME WholeInv, NEW f \in DOMAIN fileTable, NEW c \in Chunks(f)
             PROVE  Reconstructable({p.shard : p \in {q \in fileTable[f] :
                                       q.chunk = c /\ ShardOf(f, q) \in stored[q.node]}})
  BY DEF Catalog, Recoverable
<1> DEFINE found == {p.shard : p \in {q \in fileTable[f] :
                                       q.chunk = c /\ ShardOf(f, q) \in stored[q.node]}}
<1>1. /\ fileTable[f] \in SUBSET ShardPlacement
      /\ Complete(ChunkCount[f], fileTable[f]) /\ Backed(f, fileTable[f])
  BY DEF WholeInv, Inv, TypeInv, TypeOK, TrackerTypeOK, PlacedInv, FullyPlaced, BackedInv,
         PlacementBacked
<1>2. \A s \in ShardIndex : \E p \in fileTable[f] : p.chunk = c /\ p.shard = s
  BY <1>1 DEF Complete, Chunks
<1>3. found = ShardIndex
  BY <1>1, <1>2 DEF Backed, ShardPlacement
<1>4. Reconstructable(ShardIndex)
  BY ShardCount, ShardsAssumption DEF Reconstructable
<1> QED
  BY <1>3, <1>4

\* The status of a command is a function of its own state.
LEMMA StatusKept ==
  /\ \A f \in Files : put'[f] = put[f] => UploadStatus(f)' = UploadStatus(f)
  /\ \A r \in Readers : get'[r] = get[r] => DownloadStatus(r)' = DownloadStatus(r)
  BY DEF UploadStatus, DownloadStatus, Chunks

-----------------------------------------------------------------------------
(* Steps *)

\* A step of an upload.
LEMMA PutRefines ==
  ASSUME WholeInv, Next, PutNext, Catalog = DOMAIN fileTable, Catalog' = DOMAIN fileTable'
  PROVE  FS!Next \/ UNCHANGED <<Catalog, Uploads, Downloads>>
<1>1. PICK f \in Files : PutBegin(f) \/ PutStep(f) \/ LateSave(f)
  BY DEF PutNext
<1>2. PutMoves(f) /\ \A g \in Files \ {f} : put'[g] = put[g]
  BY <1>1, PutSummary DEF WholeInv, Inv
<1>3. Downloads' = Downloads
  BY StatusKept DEF PutNext, Downloads
<1>4. \A g \in Files \ {f} : Uploads'[g] = Uploads[g]
  BY <1>2, StatusKept DEF Uploads
<1>5. /\ Uploads[f] = UploadStatus(f) /\ Uploads'[f] = UploadStatus(f)'
      /\ Uploads \in [Files -> {UploadStatus(g) : g \in Files}]
      /\ DOMAIN Uploads = Files /\ DOMAIN Uploads' = Files
  BY DEF Uploads
<1>6. ASSUME NEW s, UploadStatus(f)' = s PROVE Uploads' = [Uploads EXCEPT ![f] = s]
  BY <1>4, <1>5, <1>6 DEF Uploads
<1>7. CASE put[f].pc = "idle"
  <2>1. UploadStatus(f) = "new" /\ UploadStatus(f)' = "running" /\ fileTable' = fileTable
    BY <1>2, <1>7 DEF PutMoves, UploadStatus, AllUploaded
  <2>2. FS!StartUpload(f)
    BY <1>3, <1>5, <1>6, <2>1 DEF FS!StartUpload, Catalog, Uploads, Downloads
  <2> QED
    BY <2>2 DEF FS!Next
<1>8. CASE put[f].pc \in {"chunk", "upload"} /\ put'[f].pc \in {"chunk", "upload"}
  <2>1. UploadStatus(f) = "running" /\ UploadStatus(f)' = "running" /\ fileTable' = fileTable
    BY <1>2, <1>8 DEF PutMoves, UploadStatus, AllUploaded
  <2>2. Uploads' = Uploads
    BY <1>5, <1>6, <2>1
  <2> QED
    BY <1>3, <2>1, <2>2
<1>9. CASE /\ put[f].pc \in {"chunk", "upload"} /\ put'[f].pc \in {"failed", "abandoned"}
           /\ fileTable' = fileTable
  <2>1. UploadStatus(f) = "running" /\ UploadStatus(f)' = "error"
    BY <1>9 DEF UploadStatus
  <2>2. FS!FailUpload(f)
    BY <1>3, <1>5, <1>6, <1>9, <2>1 DEF FS!FailUpload, Catalog, Uploads, Downloads
  <2> QED
    BY <2>2 DEF FS!Next
<1>10. CASE /\ \/ AllUploaded(f) /\ put'[f].pc = "done"
               \/ put[f].pc = "abandoned" /\ put'[f].pc = "failed"
            /\ SaveFilePlacement(f, put[f].placed)
  <2>1. f \notin Catalog /\ Catalog' = Catalog \cup {f}
    BY <1>10 DEF AllUploaded, SaveFilePlacement, WholeInv, PlacedInv, PutUnsaved
  <2>2. \/ UploadStatus(f) = "running" /\ UploadStatus(f)' = "ok"
        \/ UploadStatus(f) = "error" /\ UploadStatus(f)' = "error"
    BY <1>10 DEF UploadStatus, AllUploaded
  <2>3. \/ Uploads[f] = "running" /\ Uploads' = [Uploads EXCEPT ![f] = "ok"]
        \/ Uploads[f] = "error" /\ Uploads' = Uploads
    BY <1>5, <1>6, <2>2
  <2>4. FS!Commit(f)
    BY <1>3, <2>1, <2>3 DEF FS!Commit, Catalog, Uploads, Downloads
  <2> QED
    BY <2>4 DEF FS!Next
<1> QED
  BY <1>2, <1>7, <1>8, <1>9, <1>10 DEF PutMoves, AllUploaded

\* A step of a download.
LEMMA GetRefines ==
  ASSUME WholeInv, WholeInv', Next, GetNext,
         Catalog = DOMAIN fileTable, Catalog' = DOMAIN fileTable'
  PROVE  FS!Next \/ UNCHANGED <<Catalog, Uploads, Downloads>>
<1>1. PICK r \in Readers : GetStep(r) \/ \E f \in Files : GetBegin(r, f)
  BY DEF GetNext
<1>2. GetMoves(r) /\ \A q \in Readers \ {r} : get'[q] = get[q]
  BY <1>1, GetSummary DEF WholeInv, Inv
<1>3. Uploads' = Uploads /\ Catalog' = Catalog
  <2>1. fileTable' = fileTable
    BY <1>1 DEF GetStep, GetBegin, GetNodes, GetChunk, GetFetch, GetReconstruct, GetFinish,
                trackerVars
  <2> QED
    BY <2>1, StatusKept DEF GetNext, Uploads
<1>4. /\ \A q \in Readers \ {r} : Downloads'[q] = Downloads[q]
      /\ Downloads[r] = [status |-> DownloadStatus(r), file |-> get[r].file]
      /\ Downloads'[r] = [status |-> DownloadStatus(r)', file |-> get'[r].file]
      /\ DOMAIN Downloads = Readers /\ DOMAIN Downloads' = Readers
  BY <1>2, StatusKept DEF Downloads
<1>5. ASSUME NEW s, Downloads'[r] = s PROVE Downloads' = [Downloads EXCEPT ![r] = s]
  BY <1>4, <1>5 DEF Downloads
<1>6. PICK f : f = get'[r].file
  OBVIOUS
<1>7. f \in Files /\ (FS!StartDownload(r, f) \/ FS!Deliver(r, f) \/ FS!FailDownload(r, f))
        => FS!Next
  BY DEF FS!Next
<1>8. CASE get[r].pc = "idle"
  <2>1. Downloads[r] = FS!NotStarted
    <3>1. get[r] = NoGet
      BY <1>8 DEF WholeInv, GetWhole
    <3>2. DownloadStatus(r) = "idle" /\ get[r].file = "none"
      BY <1>8, <3>1 DEF DownloadStatus, NoGet
    <3> QED
      BY <1>4, <3>2 DEF FS!NotStarted
  <2>2. CASE get'[r].pc = "nodes" /\ get'[r].file \in DOMAIN fileTable /\ get'[r].file \in Files
    <3>1. DownloadStatus(r)' = "running"
      BY <2>2 DEF DownloadStatus
    <3>2. Downloads'[r] = FS!Running(f)
      BY <1>4, <1>6, <3>1 DEF FS!Running
    <3>3. FS!StartDownload(r, f)
      BY <1>3, <1>5, <1>6, <2>1, <2>2, <3>2 DEF FS!StartDownload, Catalog, Uploads, Downloads
    <3> QED
      BY <1>6, <1>7, <2>2, <3>3
  <2>3. CASE get'[r].pc = "failed" /\ get'[r].file \in Files
    <3>1. DownloadStatus(r)' = "error"
      BY <2>3 DEF DownloadStatus
    <3>2. FS!FailDownload(r, f)
      BY <1>3, <1>4, <1>5, <1>6, <2>1, <2>3, <3>1 DEF FS!FailDownload, Catalog, Uploads, Downloads
    <3> QED
      BY <1>6, <1>7, <2>3, <3>2
  <2> QED
    BY <1>2, <1>8, <2>2, <2>3 DEF GetMoves
<1>9. CASE get[r].pc \in {"nodes", "chunk", "fetch"}
  <2>1. f \in DOMAIN fileTable /\ f \in Files /\ get[r].file = f
    BY <1>2, <1>6, <1>9 DEF WholeInv, GetWhole, Inv, TypeInv, TypeOK, TrackerTypeOK, GetMoves
  <2>2. Downloads[r] = FS!Running(f)
    <3>1. DownloadStatus(r) = "running"
      BY <1>9 DEF DownloadStatus
    <3> QED
      BY <1>4, <2>1, <3>1 DEF FS!Running
  <2>3. CASE get'[r].pc \in {"nodes", "chunk", "fetch"}
    <3>1. DownloadStatus(r)' = "running"
      BY <2>3 DEF DownloadStatus
    <3>2. Downloads'[r] = Downloads[r]
      BY <1>4, <1>6, <2>2, <3>1 DEF FS!Running
    <3>3. Downloads' = Downloads
      BY <1>4, <3>2 DEF Downloads
    <3> QED
      BY <1>3, <3>3
  <2>4. CASE get'[r].pc = "done"
    <3>1. get'[r].out = Chunks(get'[r].file)
      BY <2>4 DEF WholeInv, GetWhole, Chunks
    <3>2. DownloadStatus(r)' = "ok"
      BY <2>4, <3>1 DEF DownloadStatus, Chunks
    <3>3. Downloads'[r] = FS!Succeeded(f)
      BY <1>4, <1>6, <3>2 DEF FS!Succeeded
    <3>4. FS!Deliver(r, f)
      BY <1>3, <1>5, <2>1, <2>2, <3>3 DEF FS!Deliver, Catalog, Uploads, Downloads
    <3> QED
      BY <1>7, <2>1, <3>4
  <2>5. CASE get'[r].pc = "failed"
    <3>1. DownloadStatus(r)' = "error"
      BY <2>5 DEF DownloadStatus
    <3>2. FS!FailDownload(r, f)
      BY <1>3, <1>4, <1>5, <1>6, <2>1, <2>2, <3>1 DEF FS!FailDownload, Catalog, Uploads, Downloads
    <3> QED
      BY <1>7, <2>1, <3>2
  <2> QED
    BY <1>2, <1>9, <2>3, <2>4, <2>5 DEF GetMoves
<1> QED
  BY <1>2, <1>8, <1>9 DEF GetMoves

\* The other steps are invisible: a crash, a late request, a repair and a
\* sweep neither lose a file nor change what a user was told.
LEMMA OthersRefine ==
  ASSUME WholeInv, Next, ~PutNext, ~GetNext,
         Catalog = DOMAIN fileTable, Catalog' = DOMAIN fileTable'
  PROVE  UNCHANGED <<Catalog, Uploads, Downloads>>
<1>1. UNCHANGED <<put, get>>
  BY DEF Next, ClockNext, NodedNext, RepairNext, SweepNext
<1>2. DOMAIN fileTable' = DOMAIN fileTable
  BY SavedWhole DEF SaveFilePlacement, WholeInv, Inv
<1> QED
  BY <1>1, <1>2, StatusKept DEF Uploads, Downloads

-----------------------------------------------------------------------------

\* The network implements FileStore: an acknowledged upload is recoverable
\* from the placements the tracker names and stays so through crashes, late
\* requests and concurrent repairs, no file appears but by its upload, and a
\* successful download delivers a stored file in full.
THEOREM ImplementsFileStoreTheorem == Spec => ImplementsFileStore
<1>1. Init => FS!Init
  <2> SUFFICES ASSUME Init PROVE FS!Init
    OBVIOUS
  <2>1. Catalog = {}
    BY DEF Init, NewStore, Catalog
  <2>2. Uploads = [f \in Files |-> "new"]
    BY DEF Init, PutInit, Uploads, UploadStatus
  <2>3. Downloads = [r \in Readers |-> FS!NotStarted]
    BY DEF Init, GetInit, NoGet, Downloads, DownloadStatus, FS!NotStarted
  <2> QED
    BY <2>1, <2>2, <2>3 DEF FS!Init, Catalog, Uploads, Downloads
<1>2. WholeInv' => (Catalog = DOMAIN fileTable)'
  BY CatalogIsTable, PTL
<1>3. WholeInv /\ WholeInv' /\ [Next]_vars => [FS!Next]_(FS!fileStoreVars)
  <2> SUFFICES ASSUME WholeInv, WholeInv', [Next]_vars
               PROVE  FS!Next \/ UNCHANGED <<Catalog, Uploads, Downloads>>
    BY DEF FS!fileStoreVars, Catalog, Uploads, Downloads
  <2>1. Catalog = DOMAIN fileTable /\ Catalog' = DOMAIN fileTable'
    BY <1>2, CatalogIsTable
  <2>2. CASE UNCHANGED vars
    BY <2>1, <2>2, StatusKept DEF vars, trackerVars, Uploads, Downloads
  <2> QED
    BY <2>1, <2>2, PutRefines, GetRefines, OthersRefine
<1> QED
  BY <1>1, <1>3, WholeInvariance, PTL DEF Spec, ImplementsFileStore, FS!Spec
=============================================================================
