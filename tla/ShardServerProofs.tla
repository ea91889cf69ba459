------------------------- MODULE ShardServerProofs -------------------------
(***************************************************************************)
(* Proofs about module ShardServer: the type of its state, that a shard    *)
(* answered with Success is found by every later get, and by how much the  *)
(* handlers can overshoot the quota.  The last needs facts about sums over *)
(* sets, which come first.                                                 *)
(***************************************************************************)
EXTENDS ShardServer, FiniteSetTheorems, TLAPS

(* Sums *)

\* Induction over the natural numbers, for a set of them.
LEMMA NatSetInduction ==
    ASSUME NEW P, 0 \in P, \A n \in Nat : n \in P => n + 1 \in P
    PROVE  Nat \subseteq P
<1>1. SUFFICES ASSUME Nat \ P # {} PROVE FALSE
  OBVIOUS
<1>2. PICK m \in Nat \ P : \A k \in Nat \ P : <<k, m>> \notin OpToRel(<, Nat)
  BY <1>1, NatLessThanWellFounded, WFMin
<1>3. \A k \in Nat \ P : ~(k < m)
  BY <1>2 DEF OpToRel
<1>4. m - 1 \in Nat /\ m - 1 \in P
  BY <1>3
<1> QED
  BY <1>4

\* Induction over the subsets of a finite set, for a set of them.
LEMMA SubsetInduction ==
    ASSUME NEW S, IsFiniteSet(S), NEW P, {} \in P,
           \A s \in SUBSET S : s # {} /\ (\A x \in s : s \ {x} \in P) => s \in P
    PROVE  SUBSET S \subseteq P
<1> DEFINE Q == {n \in Nat : \A s \in SUBSET S : Cardinality(s) = n => s \in P}
<1>1. \A s \in SUBSET S : /\ IsFiniteSet(s) /\ Cardinality(s) \in Nat
                          /\ \A x \in s : Cardinality(s \ {x}) = Cardinality(s) - 1
                          /\ Cardinality(s) = 0 => s = {}
  BY FS_Subset, FS_CardinalityType, FS_RemoveElement, FS_EmptySet
<1>2. 0 \in Q
  BY <1>1
<1>3. \A n \in Nat : n \in Q => n + 1 \in Q
  <2> SUFFICES ASSUME NEW n \in Nat, n \in Q, NEW s \in SUBSET S, Cardinality(s) = n + 1
               PROVE  s \in P
    OBVIOUS
  <2>1. \A x \in s : s \ {x} \in SUBSET S /\ Cardinality(s \ {x}) = n
    BY <1>1
  <2>2. s # {}
    BY FS_EmptySet
  <2> QED
    BY <2>1, <2>2
<1> HIDE DEF Q
<1>4. Nat \subseteq Q
  BY <1>2, <1>3, NatSetInduction
<1> QED
  BY <1>1, <1>4 DEF Q

Pick(s) == CHOOSE x \in s : TRUE

\* F is the fold by which the library sums g over the subsets in D.
IsFold(F, g, D) ==
    F = [s \in D |-> IF s = {} THEN 0 ELSE g[Pick(s)] + F[s \ {Pick(s)}]]

\* There is such a fold over the subsets of a finite set: it is extended from
\* those with n elements to those with one more.
LEMMA FoldExists ==
    ASSUME NEW S, IsFiniteSet(S), NEW g
    PROVE  \E F : IsFold(F, g, SUBSET S)
<1> DEFINE Upto(n) == {s \in SUBSET S : Cardinality(s) <= n}
           P == {n \in Nat : \E F : IsFold(F, g, Upto(n))}
<1>1. \A s \in SUBSET S : /\ IsFiniteSet(s) /\ Cardinality(s) \in Nat
                          /\ \A x \in s : Cardinality(s \ {x}) = Cardinality(s) - 1
                          /\ Cardinality(s) <= Cardinality(S)
                          /\ Cardinality(s) = 0 => s = {}
  BY FS_Subset, FS_CardinalityType, FS_RemoveElement, FS_EmptySet
<1>2. \A s : s # {} => Pick(s) \in s
  BY DEF Pick
<1>3. 0 \in P
  <2>1. \A s \in Upto(0) : s = {}
    BY <1>1
  <2>2. IsFold([s \in Upto(0) |-> 0], g, Upto(0))
    BY <2>1 DEF IsFold
  <2> HIDE DEF Upto
  <2> QED
    BY <2>2
<1>p. \A n \in Nat : n \in P <=> \E F : IsFold(F, g, Upto(n))
  <2> HIDE DEF Upto
  <2> QED
    OBVIOUS
<1> HIDE DEF P
<1>4. \A n \in Nat : n \in P => n + 1 \in P
  <2> SUFFICES ASSUME NEW n \in Nat, n \in P PROVE n + 1 \in P
    OBVIOUS
  <2>1. PICK F : IsFold(F, g, Upto(n))
    BY <1>p
  <2> DEFINE G == [s \in Upto(n + 1) |->
                     IF s \in Upto(n) THEN F[s] ELSE g[Pick(s)] + F[s \ {Pick(s)}]]
  <2>2. \A s \in Upto(n + 1) : s # {} => s \ {Pick(s)} \in Upto(n) \cap Upto(n + 1)
    BY <1>1, <1>2
  <2>3. \A s \in Upto(n) : s \in Upto(n + 1) /\ G[s] = F[s]
    BY <1>1
  <2>4. {} \in Upto(n)
    BY FS_EmptySet
  <2>5. \A s \in Upto(n + 1) : G[s] = IF s = {} THEN 0 ELSE g[Pick(s)] + G[s \ {Pick(s)}]
    <3> SUFFICES ASSUME NEW s \in Upto(n + 1)
                 PROVE  G[s] = IF s = {} THEN 0 ELSE g[Pick(s)] + G[s \ {Pick(s)}]
      OBVIOUS
    <3>1. CASE s \in Upto(n)
      <4>1. G[s] = F[s]
        BY <2>3, <3>1
      <4>2. F[s] = IF s = {} THEN 0 ELSE g[Pick(s)] + F[s \ {Pick(s)}]
        BY <2>1, <3>1 DEF IsFold
      <4> HIDE DEF G, Upto
      <4> QED
        BY <2>2, <2>3, <3>1, <4>1, <4>2
    <3>2. CASE s \notin Upto(n)
      <4>1. s # {} /\ G[s] = g[Pick(s)] + F[s \ {Pick(s)}]
        BY <2>4, <3>2
      <4> HIDE DEF G, Upto
      <4> QED
        BY <2>2, <2>3, <4>1
    <3> QED
      BY <3>1, <3>2
  <2>6. G = [s \in Upto(n + 1) |-> G[s]]
    OBVIOUS
  <2> HIDE DEF G, Upto
  <2>7. IsFold(G, g, Upto(n + 1))
    BY <2>5, <2>6 DEF IsFold
  <2> QED
    BY <1>p, <2>7
<1>5. Cardinality(S) \in P
  <2>1. Nat \subseteq P
    BY <1>3, <1>4, NatSetInduction
  <2> QED
    BY <2>1, FS_CardinalityType
<1>6. Upto(Cardinality(S)) = SUBSET S
  BY <1>1
<1>7. Cardinality(S) \in Nat
  BY FS_CardinalityType
<1> QED
  BY <1>5, <1>6, <1>7, <1>p

\* Natural numbers, and the sum without any one element plus that element,
\* whichever one Pick prefers.
Sums(F, g, S) == /\ F[{}] = 0
                 /\ \A s \in SUBSET S : F[s] \in Nat
                 /\ \A s \in SUBSET S : \A x \in s : F[s] = g[x] + F[s \ {x}]

\* This is what the fold gives.
LEMMA FoldTakesOut ==
    ASSUME NEW S, IsFiniteSet(S), NEW g, \A x \in S : g[x] \in Nat,
           NEW F, IsFold(F, g, SUBSET S)
    PROVE  Sums(F, g, S)
<1> DEFINE N == {s \in SUBSET S : F[s] \in Nat}
           P == {s \in SUBSET S : \A x \in s : F[s] = g[x] + F[s \ {x}]}
<1>1. \A s \in SUBSET S : F[s] = IF s = {} THEN 0 ELSE g[Pick(s)] + F[s \ {Pick(s)}]
  BY DEF IsFold
<1>2. \A s : s # {} => Pick(s) \in s
  BY DEF Pick
<1>p. \A s \in SUBSET S : /\ s \in N <=> F[s] \in Nat
                          /\ s \in P <=> \A x \in s : F[s] = g[x] + F[s \ {x}]
  OBVIOUS
<1> HIDE DEF P, N
<1>0. F[{}] = 0
  BY <1>1
<1>n. \A s \in SUBSET S : F[s] \in Nat
  <2>1. {} \in N
    BY <1>0, <1>p
  <2>2. \A s \in SUBSET S : s # {} /\ (\A x \in s : s \ {x} \in N) => s \in N
    <3> SUFFICES ASSUME NEW s \in SUBSET S, s # {}, \A x \in s : s \ {x} \in N PROVE s \in N
      OBVIOUS
    <3>1. Pick(s) \in s /\ g[Pick(s)] \in Nat /\ F[s] = g[Pick(s)] + F[s \ {Pick(s)}]
      BY <1>1, <1>2
    <3>2. F[s \ {Pick(s)}] \in Nat
      BY <3>1, <1>p
    <3> QED
      BY <3>1, <3>2, <1>p
  <2>3. SUBSET S \subseteq N
    BY <2>1, <2>2, SubsetInduction
  <2> QED
    BY <2>3, <1>p
<1>3. {} \in P
  BY <1>0, <1>p
<1>4. \A s \in SUBSET S : s # {} /\ (\A x \in s : s \ {x} \in P) => s \in P
  <2> SUFFICES ASSUME NEW s \in SUBSET S, s # {}, \A x \in s : s \ {x} \in P PROVE s \in P
    OBVIOUS
  <2> DEFINE y == Pick(s)
  <2>1. y \in s /\ y \in S /\ g[y] \in Nat /\ F[s] = g[y] + F[s \ {y}]
    BY <1>1, <1>2
  <2> HIDE DEF y
  <2>3. ASSUME NEW x \in s PROVE F[s] = g[x] + F[s \ {x}]
    <3>1. CASE x = y
      BY <2>1, <3>1
    <3>2. CASE x # y
      <4>1. x \in s \ {y} /\ y \in s \ {x} /\ (s \ {y}) \ {x} = (s \ {x}) \ {y}
        BY <2>1, <3>2
      <4>2. s \ {x} \in P /\ s \ {y} \in P
        BY <2>1
      <4>3. F[s \ {y}] = g[x] + F[(s \ {y}) \ {x}] /\ F[s \ {x}] = g[y] + F[(s \ {y}) \ {x}]
        <5>1. s \ {y} \in SUBSET S /\ s \ {x} \in SUBSET S
          OBVIOUS
        <5>2. /\ \A z \in s \ {y} : F[s \ {y}] = g[z] + F[(s \ {y}) \ {z}]
              /\ \A z \in s \ {x} : F[s \ {x}] = g[z] + F[(s \ {x}) \ {z}]
          BY <4>2, <5>1, <1>p, Zenon
        <5> QED
          BY <4>1, <5>2, Zenon
      <4>4. F[(s \ {y}) \ {x}] \in Nat /\ g[x] \in Nat
        BY <1>n
      <4> QED
        BY <2>1, <4>3, <4>4
    <3> QED
      BY <3>1, <3>2
  <2> QED
    BY <2>3, <1>p
<1>5. SUBSET S \subseteq P
  BY <1>3, <1>4, SubsetInduction
<1> QED
  BY <1>0, <1>5, <1>n, <1>p DEF Sums

Agree(g, h, R) == \A x \in R : g[x] = h[x]

\* Folds of functions that agree on a set agree on its subsets.
LEMMA FoldAgrees ==
    ASSUME NEW S, NEW R \in SUBSET S, IsFiniteSet(R), NEW g, NEW h, Agree(g, h, R),
           NEW F, IsFold(F, g, SUBSET S), NEW G, IsFold(G, h, SUBSET R)
    PROVE  Agree(F, G, SUBSET R)
<1> DEFINE P == {s \in SUBSET R : F[s] = G[s]}
<1>p. \A s \in SUBSET R : s \in P <=> F[s] = G[s]
  OBVIOUS
<1> HIDE DEF P
<1>1. \A s \in SUBSET R : /\ F[s] = IF s = {} THEN 0 ELSE g[Pick(s)] + F[s \ {Pick(s)}]
                          /\ G[s] = IF s = {} THEN 0 ELSE h[Pick(s)] + G[s \ {Pick(s)}]
  BY DEF IsFold
<1>2. {} \in P
  BY <1>1, <1>p
<1>3. \A s \in SUBSET R : s # {} /\ (\A x \in s : s \ {x} \in P) => s \in P
  <2> SUFFICES ASSUME NEW s \in SUBSET R, s # {}, \A x \in s : s \ {x} \in P PROVE s \in P
    OBVIOUS
  <2>1. Pick(s) \in s /\ g[Pick(s)] = h[Pick(s)]
    BY DEF Pick, Agree
  <2>2. F[s \ {Pick(s)}] = G[s \ {Pick(s)}]
    BY <1>p, <2>1
  <2> QED
    BY <1>1, <1>p, <2>1, <2>2
<1>4. SUBSET R \subseteq P
  BY <1>2, <1>3, SubsetInduction
<1> QED
  BY <1>4, <1>p DEF Agree

\* A fold is at most the number of elements times a bound on each.
LEMMA FoldBounded ==
    ASSUME NEW S, IsFiniteSet(S), NEW m \in Nat, NEW g, \A x \in S : g[x] \in 0 .. m,
           NEW F, IsFold(F, g, SUBSET S)
    PROVE  F[S] <= Cardinality(S) * m
<1> DEFINE P == {s \in SUBSET S : F[s] <= Cardinality(s) * m}
<1>p. \A s \in SUBSET S : (s \in P) <=> (F[s] <= Cardinality(s) * m)
  OBVIOUS
<1> HIDE DEF P
<1>0. \A x \in S : g[x] \in Nat
  OBVIOUS
<1>1. Sums(F, g, S)
  BY <1>0, FoldTakesOut
<1>2. {} \in P
  BY <1>1, <1>p, FS_EmptySet DEF Sums
<1>3. \A s \in SUBSET S : s # {} /\ (\A x \in s : s \ {x} \in P) => s \in P
  <2> SUFFICES ASSUME NEW s \in SUBSET S, s # {}, \A x \in s : s \ {x} \in P PROVE s \in P
    OBVIOUS
  <2>1. PICK x : x \in s
    OBVIOUS
  <2>2. F[s \ {x}] <= Cardinality(s \ {x}) * m /\ F[s \ {x}] \in Nat
    BY <1>1, <1>p, <2>1 DEF Sums
  <2>3. /\ Cardinality(s) \in Nat /\ Cardinality(s \ {x}) \in Nat
        /\ Cardinality(s) = Cardinality(s \ {x}) + 1
    <3>1. IsFiniteSet(s)
      BY FS_Subset
    <3>2. IsFiniteSet(s \ {x}) /\ Cardinality(s \ {x}) = Cardinality(s) - 1
      BY <2>1, <3>1, FS_RemoveElement
    <3>3. Cardinality(s) \in Nat /\ Cardinality(s \ {x}) \in Nat
      BY <3>1, <3>2, FS_CardinalityType
    <3> QED
      BY <3>2, <3>3
  <2>4. Cardinality(s) * m = Cardinality(s \ {x}) * m + m /\ Cardinality(s \ {x}) * m \in Nat
    BY <2>3
  <2>5. F[s] = g[x] + F[s \ {x}] /\ g[x] \in 0 .. m
    BY <1>1, <2>1 DEF Sums
  <2>6. F[s] <= Cardinality(s) * m
    BY <2>2, <2>4, <2>5
  <2> QED
    BY <1>p, <2>6
<1> QED
  BY <1>2, <1>3, <1>p, SubsetInduction

\* The sizes that Bytes adds up.
Sizes(b) == [s \in DOMAIN b |-> Size[b[s]]]

\* Bytes is such a fold.
LEMMA BytesIsFold ==
    ASSUME NEW b, IsFiniteSet(DOMAIN b)
    PROVE  \E F : IsFold(F, Sizes(b), SUBSET DOMAIN b) /\ Bytes(b) = F[DOMAIN b]
<1>1. PICK F : IsFold(F, Sizes(b), SUBSET DOMAIN b)
  BY FoldExists
<1>2. \A s \in SUBSET DOMAIN b : s # {} => Sizes(b)[Pick(s)] = Size[b[Pick(s)]]
  BY DEF Sizes, Pick
<1>3. F = [s \in SUBSET DOMAIN b |-> IF s = {} THEN 0
             ELSE Size[b[CHOOSE x \in s : TRUE]] + F[s \ {CHOOSE x \in s : TRUE}]]
  BY <1>1, <1>2 DEF IsFold, Pick
<1>4. PICK G : /\ G = [s \in SUBSET DOMAIN b |-> IF s = {} THEN 0
                     ELSE Size[b[CHOOSE x \in s : TRUE]] + G[s \ {CHOOSE x \in s : TRUE}]]
               /\ Bytes(b) = G[DOMAIN b]
  BY <1>3 DEF Bytes, MapThenSumSet, MapThenFoldSet
<1>5. IsFold(G, Sizes(b), SUBSET DOMAIN b)
  BY <1>2, <1>4 DEF IsFold, Pick
<1> QED
  BY <1>4, <1>5

\* Maps to payloads with finitely many entries.
Holds(b) == IsFiniteSet(DOMAIN b) /\ \A s \in DOMAIN b : b[s] \in Payloads

\* The bytes of a map are a natural number, at most so many for each entry.
LEMMA BytesBounded ==
    ASSUME NEW b, Holds(b), NEW m \in Nat, \A d \in Payloads : Size[d] <= m
    PROVE  Bytes(b) \in Nat /\ Bytes(b) <= Cardinality(DOMAIN b) * m
<1>1. PICK F : IsFold(F, Sizes(b), SUBSET DOMAIN b) /\ Bytes(b) = F[DOMAIN b]
  BY BytesIsFold DEF Holds
<1>2. IsFiniteSet(DOMAIN b) /\ \A s \in DOMAIN b : Sizes(b)[s] \in Nat /\ Sizes(b)[s] \in 0 .. m
  BY SizeAssumption DEF Holds, Sizes
<1>3. Sums(F, Sizes(b), DOMAIN b)
  BY <1>1, <1>2, FoldTakesOut
<1>4. F[DOMAIN b] <= Cardinality(DOMAIN b) * m
  BY <1>1, <1>2, FoldBounded
<1> QED
  BY <1>1, <1>3, <1>4 DEF Sums

\* An entry taken out takes its bytes with it.
LEMMA BytesWithout ==
    ASSUME NEW b, Holds(b), NEW x \in DOMAIN b,
           NEW c, DOMAIN c = DOMAIN b \ {x}, \A s \in DOMAIN c : c[s] = b[s]
    PROVE  Bytes(b) = Size[b[x]] + Bytes(c)
<1>1. PICK F : IsFold(F, Sizes(b), SUBSET DOMAIN b) /\ Bytes(b) = F[DOMAIN b]
  BY BytesIsFold DEF Holds
<1>2. IsFiniteSet(DOMAIN b) /\ \A s \in DOMAIN b : Sizes(b)[s] \in Nat
  BY SizeAssumption DEF Holds, Sizes
<1>3. IsFiniteSet(DOMAIN c)
  BY <1>2, FS_RemoveElement
<1>4. PICK G : IsFold(G, Sizes(c), SUBSET DOMAIN c) /\ Bytes(c) = G[DOMAIN c]
  BY <1>3, BytesIsFold
<1>5. F[DOMAIN b] = Sizes(b)[x] + F[DOMAIN b \ {x}]
  <2>1. Sums(F, Sizes(b), DOMAIN b)
    BY <1>1, <1>2, FoldTakesOut
  <2> QED
    BY <2>1 DEF Sums
<1>6. Agree(Sizes(b), Sizes(c), DOMAIN c)
  BY DEF Sizes, Agree
<1>7. DOMAIN c \in SUBSET DOMAIN b
  OBVIOUS
<1>8. Agree(F, G, SUBSET DOMAIN c)
  BY <1>1, <1>3, <1>4, <1>6, <1>7, FoldAgrees
<1>9. F[DOMAIN c] = G[DOMAIN c]
  BY <1>8 DEF Agree
<1> QED
  BY <1>1, <1>4, <1>5, <1>9 DEF Sizes

(* The server *)

Pcs == {"check", "write", "answer"}
Requests == {Request(pc, s, d) : pc \in Pcs, s \in Shards, d \in Payloads}

\* A request under way has its three fields.
LEMMA RequestFields ==
    ASSUME NEW r \in {Idle} \cup Requests, r.pc \in Pcs
    PROVE  /\ r.shard \in Shards /\ r.data \in Payloads
           /\ r = Request(r.pc, r.shard, r.data)
<1>1. r # Idle
  BY DEF Idle, Pcs
<1>2. PICK pc \in Pcs, s \in Shards, d \in Payloads : r = Request(pc, s, d)
  BY <1>1 DEF Requests
<1> QED
  BY <1>2 DEF Request

\* The request of a handler that moves to another pc.
LEMMA RequestMoves ==
    ASSUME NEW r \in {Idle} \cup Requests, r.pc \in Pcs, NEW pc \in Pcs
    PROVE  /\ [r EXCEPT !.pc = pc] = Request(pc, r.shard, r.data)
           /\ [r EXCEPT !.pc = pc] \in Requests
<1>1. /\ r.shard \in Shards /\ r.data \in Payloads
      /\ r = Request(r.pc, r.shard, r.data)
  BY RequestFields
<1>2. [r EXCEPT !.pc = pc] = Request(pc, r.shard, r.data)
  BY <1>1 DEF Request
<1> QED
  BY <1>1, <1>2 DEF Requests

\* The answer of a handler that is about to send Success, and every answer
\* sent, is about a shard in the bucket.  The bucket never loses a shard, so
\* this is inductive where AckedIsServed alone is not.
Served == /\ \A h \in Handlers : req[h].pc = "answer" => req[h].shard \in DOMAIN bucket
          /\ \A a \in acked : a[1] \in DOMAIN bucket

ServerInv == TypeOK /\ Served

\* Put adds one shard and keeps the others.
LEMMA PutType ==
    ASSUME TypeOK, NEW s \in Shards, NEW d \in Payloads, Put(s, d)
    PROVE  /\ DOMAIN bucket' = DOMAIN bucket \cup {s}
           /\ DOMAIN bucket' \subseteq Shards
           /\ bucket' \in [DOMAIN bucket' -> Payloads]
  BY DEF TypeOK, Put

\* ServerInv is inductive: every handler step and a restart keep it.
LEMMA ServerInvariance == Spec => []ServerInv
<1>1. Init => ServerInv
  <2> SUFFICES ASSUME Init PROVE ServerInv
    OBVIOUS
  <2>1. TypeOK
    BY QuotaAssumption DEF Init, TypeOK
  <2>2. Served
    BY DEF Init, Served, Idle
  <2> QED
    BY <2>1, <2>2 DEF ServerInv
<1>2. ServerInv /\ [Next]_vars => ServerInv'
  <2> SUFFICES ASSUME ServerInv, [Next]_vars PROVE ServerInv'
    OBVIOUS
  <2> USE DEF ServerInv
  <2>t. /\ DOMAIN bucket \subseteq Shards /\ bucket \in [DOMAIN bucket -> Payloads]
        /\ req \in [Handlers -> {Idle} \cup Requests]
        /\ acked \subseteq Shards \X Payloads
        /\ restarts \in 0 .. MaxRestarts
    BY DEF TypeOK, Requests, Pcs
  <2>g. ASSUME /\ DOMAIN bucket' \subseteq Shards /\ bucket' \in [DOMAIN bucket' -> Payloads]
               /\ req' \in [Handlers -> {Idle} \cup Requests]
               /\ acked' \subseteq Shards \X Payloads
               /\ restarts' \in 0 .. MaxRestarts
        PROVE  TypeOK'
    BY <2>g DEF TypeOK, Requests, Pcs
  <2>1. CASE Restart
    <3>1. TypeOK'
      BY <2>1, <2>t, <2>g, QuotaAssumption DEF Restart
    <3>2. Served'
      BY <2>1 DEF Restart, Served, Idle
    <3> QED
      BY <3>1, <3>2
  <2>2. ASSUME NEW h \in Handlers, ReceivePut(h) PROVE ServerInv'
    <3>1. PICK s \in Shards, d \in Payloads : req' = [req EXCEPT ![h] = Request("check", s, d)]
      BY <2>2 DEF ReceivePut
    <3>2. Request("check", s, d) \in Requests
      BY DEF Requests, Pcs
    <3>3. TypeOK'
      BY <2>2, <2>t, <2>g, <3>1, <3>2 DEF ReceivePut
    <3>4. Served'
      BY <2>2, <2>t, <3>1 DEF ReceivePut, Served, Request
    <3> QED
      BY <3>3, <3>4
  <2>3. ASSUME NEW h \in Handlers, CheckQuota(h) PROVE ServerInv'
    <3>1. req[h] \in {Idle} \cup Requests /\ req[h].pc \in Pcs
      BY <2>3, <2>t DEF CheckQuota, Pcs
    <3>2. /\ [req[h] EXCEPT !.pc = "write"] = Request("write", req[h].shard, req[h].data)
          /\ [req[h] EXCEPT !.pc = "write"] \in Requests
      BY <3>1, RequestMoves DEF Pcs
    <3>3. \E r \in {Idle, Request("write", req[h].shard, req[h].data)} :
             req' = [req EXCEPT ![h] = r]
      BY <2>3, <2>t, <3>2 DEF CheckQuota
    <3>4. PICK r \in {Idle, Request("write", req[h].shard, req[h].data)} :
             req' = [req EXCEPT ![h] = r]
      BY <3>3
    <3>5. r \in {Idle} \cup Requests /\ r.pc # "answer"
      BY <3>2, <3>4 DEF Idle, Request
    <3>6. TypeOK'
      BY <2>3, <2>t, <2>g, <3>4, <3>5 DEF CheckQuota
    <3>7. Served'
      BY <2>3, <2>t, <3>4, <3>5 DEF CheckQuota, Served
    <3> QED
      BY <3>6, <3>7
  <2>4. ASSUME NEW h \in Handlers, Write(h) PROVE ServerInv'
    <3>1. req[h] \in {Idle} \cup Requests /\ req[h].pc \in Pcs
      BY <2>4, <2>t DEF Write, Pcs
    <3>2. /\ [req[h] EXCEPT !.pc = "answer"] = Request("answer", req[h].shard, req[h].data)
          /\ [req[h] EXCEPT !.pc = "answer"] \in Requests
          /\ req[h].shard \in Shards /\ req[h].data \in Payloads
      BY <3>1, RequestMoves, RequestFields DEF Pcs
    <3>3. CASE /\ Put(req[h].shard, req[h].data)
               /\ req' = [req EXCEPT ![h].pc = "answer"]
      <4>1. /\ DOMAIN bucket' = DOMAIN bucket \cup {req[h].shard}
            /\ DOMAIN bucket' \subseteq Shards
            /\ bucket' \in [DOMAIN bucket' -> Payloads]
        BY <3>2, <3>3, PutType
      <4>2. req' = [req EXCEPT ![h] = Request("answer", req[h].shard, req[h].data)]
        BY <2>t, <3>2, <3>3
      <4>3. TypeOK'
        BY <2>4, <2>t, <2>g, <3>2, <4>1, <4>2 DEF Write
      <4>4. Served'
        BY <2>4, <2>t, <4>1, <4>2 DEF Write, Served, Request
      <4> QED
        BY <4>3, <4>4
    <3>4. CASE UNCHANGED bucket /\ req' = [req EXCEPT ![h] = Idle]
      <4>1. TypeOK'
        BY <2>4, <2>t, <2>g, <3>4 DEF Write
      <4>2. Served'
        BY <2>4, <2>t, <3>4 DEF Write, Served, Idle
      <4> QED
        BY <4>1, <4>2
    <3> QED
      BY <2>4, <3>3, <3>4 DEF Write
  <2>5. ASSUME NEW h \in Handlers, Answer(h) PROVE ServerInv'
    <3>1. req[h] \in {Idle} \cup Requests /\ req[h].pc \in Pcs
      BY <2>5, <2>t DEF Answer, Pcs
    <3>2. req[h].shard \in Shards /\ req[h].data \in Payloads
      BY <3>1, RequestFields
    <3>3. req[h].shard \in DOMAIN bucket
      BY <2>5 DEF Answer, Served
    <3>4. TypeOK'
      BY <2>5, <2>t, <2>g, <3>2 DEF Answer
    <3>5. Served'
      BY <2>5, <2>t, <3>3 DEF Answer, Served, Idle
    <3> QED
      BY <3>4, <3>5
  <2>6. CASE UNCHANGED vars
    <3>1. TypeOK'
      BY <2>6, <2>t, <2>g DEF vars
    <3>2. Served'
      BY <2>6 DEF vars, Served
    <3> QED
      BY <3>1, <3>2
  <2> QED
    BY <2>1, <2>2, <2>3, <2>4, <2>5, <2>6 DEF Next
<1> QED
  BY <1>1, <1>2, PTL DEF Spec

\* Under any number of handlers, restarts and failed transactions the server's
\* state keeps its type (server.go, handlePut).
THEOREM ServerTypeOKTheorem == Spec => []TypeOK
<1>1. ServerInv => TypeOK
  BY DEF ServerInv
<1> QED
  BY <1>1, ServerInvariance, PTL

\* A shard whose put was answered with Success is found by every later
\* handleGet: the handler answers only after its transaction has committed,
\* and no handler takes a shard out of the bucket.
THEOREM AckedIsServedTheorem == Spec => []AckedIsServed
<1>1. ServerInv => AckedIsServed
  <2> SUFFICES ASSUME ServerInv, NEW a \in acked PROVE HandleGet(a[1]) # {}
    BY DEF AckedIsServed
  <2>1. a[1] \in DOMAIN bucket
    BY DEF ServerInv, Served
  <2>2. bucket[a[1]] \in HandleGet(a[1])
    BY <2>1 DEF HandleGet
  <2> QED
    BY <2>2
<1> QED
  BY <1>1, ServerInvariance, PTL

-----------------------------------------------------------------------------
(* The quota *)

\* The largest payload.
LEMMA MaxSizeIs == MaxSize \in Nat /\ \A d \in Payloads : Size[d] <= MaxSize
<1> DEFINE T == {Size[d] : d \in Payloads}
<1>1. T \subseteq Nat /\ \E x \in T : \A y \in T : x >= y
  BY SizeAssumption
<1>2. MaxSize = CHOOSE x \in T : \A y \in T : x >= y
  BY DEF MaxSize, Max
<1> HIDE DEF T
<1>3. MaxSize \in T /\ \A y \in T : MaxSize >= y
  BY <1>1, <1>2
<1>4. \A d \in Payloads : Size[d] \in T
  BY DEF T
<1> QED
  BY <1>1, <1>3, <1>4

\* A map without entries has no bytes.
LEMMA BytesEmpty == ASSUME NEW b, DOMAIN b = {} PROVE Bytes(b) = 0
<1>1. Holds(b) /\ Cardinality(DOMAIN b) = 0
  BY FS_EmptySet DEF Holds
<1>2. Bytes(b) \in Nat /\ Bytes(b) <= 0 * MaxSize
  BY <1>1, BytesBounded, MaxSizeIs
<1> QED
  BY <1>2, MaxSizeIs

\* A put adds no more than the bytes of its payload.
LEMMA BytesPut ==
    ASSUME NEW b, Holds(b), NEW s, NEW d \in Payloads, NEW c, DOMAIN c = DOMAIN b \cup {s},
           c[s] = d, \A t \in DOMAIN b : t # s => c[t] = b[t]
    PROVE  Holds(c) /\ Bytes(c) <= Bytes(b) + Size[d]
<1>1. Holds(c)
  <2>1. IsFiniteSet(DOMAIN c)
    BY FS_AddElement DEF Holds
  <2> QED
    BY <2>1 DEF Holds
<1>2. s \in DOMAIN c /\ Size[d] \in Nat /\ Size[c[s]] = Size[d]
  BY SizeAssumption
<1>3. CASE s \notin DOMAIN b
  <2>1. DOMAIN b = DOMAIN c \ {s} /\ \A t \in DOMAIN b : b[t] = c[t]
    BY <1>3
  <2>2. Bytes(c) = Size[d] + Bytes(b)
    BY <1>1, <1>2, <2>1, BytesWithout
  <2>3. Bytes(b) \in Nat
    BY MaxSizeIs, BytesBounded
  <2> QED
    BY <1>1, <1>2, <2>2, <2>3
<1>4. CASE s \in DOMAIN b
  <2>1. PICK r : r = [t \in DOMAIN b \ {s} |-> b[t]]
    OBVIOUS
  <2>2. DOMAIN r = DOMAIN b \ {s} /\ \A t \in DOMAIN r : r[t] = b[t]
    BY <2>1
  <2>3. Bytes(c) = Size[d] + Bytes(r)
    <3>1. DOMAIN r = DOMAIN c \ {s} /\ \A t \in DOMAIN r : r[t] = c[t]
      BY <1>4, <2>1
    <3> QED
      BY <1>1, <1>2, <3>1, BytesWithout
  <2>4. Bytes(b) = Size[b[s]] + Bytes(r)
    BY <1>4, <2>2, BytesWithout
  <2>5. IsFiniteSet(DOMAIN r)
    BY <2>2, FS_RemoveElement DEF Holds
  <2>6. Holds(r)
    BY <2>2, <2>5 DEF Holds
  <2>7. Bytes(r) \in Nat /\ Size[b[s]] \in Nat
    BY <1>4, <2>6, MaxSizeIs, BytesBounded, SizeAssumption DEF Holds
  <2> QED
    BY <1>1, <1>2, <2>3, <2>4, <2>7
<1> QED
  BY <1>3, <1>4

\* The bucket and what is about to be written are maps to payloads.
LEMMA MapsHold ==
    ASSUME ServerInv, IsFiniteSet(DOMAIN bucket)
    PROVE  Holds(bucket) /\ Holds(Admitted) /\ IsFiniteSet(Writing) /\ DOMAIN Admitted = Writing
<1>1. IsFiniteSet(Writing)
  BY HandlersAssumption, FS_Subset DEF Writing
<1>2. \A h \in Writing : req[h].data \in Payloads
  <2> SUFFICES ASSUME NEW h \in Writing PROVE req[h].data \in Payloads
    OBVIOUS
  <2>1. req[h] \in {Idle} \cup Requests /\ req[h].pc \in Pcs
    BY DEF ServerInv, TypeOK, Writing, Requests, Pcs
  <2> QED
    BY <2>1, RequestFields
<1> QED
  BY <1>1, <1>2 DEF Holds, Admitted, ServerInv, TypeOK

\* OvershootBounded is inductive together with ServerInv and this: the bucket
\* is finite.
QuotaInv == IsFiniteSet(DOMAIN bucket) /\ OvershootBounded

\* What is admitted counts for less than one payload per writing handler.
LEMMA AdmittedBounded ==
    ASSUME ServerInv, IsFiniteSet(DOMAIN bucket)
    PROVE  /\ StorageUsed \in Nat /\ Bytes(Admitted) \in Nat
           /\ (Cardinality(Handlers) - 1) * MaxSize \in Nat
           /\ \A h \in Handlers \ Writing :
                 Bytes(Admitted) <= (Cardinality(Handlers) - 1) * MaxSize
<1>1. MaxSize \in Nat /\ \A d \in Payloads : Size[d] <= MaxSize
  BY MaxSizeIs
<1>2. Holds(bucket) /\ Holds(Admitted) /\ IsFiniteSet(Writing) /\ DOMAIN Admitted = Writing
  BY MapsHold
<1>3. StorageUsed \in Nat
  BY <1>1, <1>2, BytesBounded DEF StorageUsed
<1>4. Bytes(Admitted) \in Nat /\ Bytes(Admitted) <= Cardinality(Writing) * MaxSize
  BY <1>1, <1>2, BytesBounded
<1>5. Cardinality(Writing) \in Nat /\ Cardinality(Handlers) - 1 \in Nat
  <2>1. Cardinality(Handlers) \in Nat /\ Cardinality(Handlers) # 0
    BY HandlersAssumption, FS_CardinalityType, FS_EmptySet
  <2> QED
    BY <1>2, <2>1, FS_CardinalityType
<1>6. ASSUME NEW h \in Handlers \ Writing
      PROVE  Bytes(Admitted) <= (Cardinality(Handlers) - 1) * MaxSize
  <2>1. IsFiniteSet(Handlers \ {h}) /\ Cardinality(Handlers \ {h}) = Cardinality(Handlers) - 1
    BY HandlersAssumption, FS_RemoveElement
  <2>2. Writing \subseteq Handlers \ {h}
    BY DEF Writing
  <2>3. Cardinality(Writing) <= Cardinality(Handlers) - 1
    BY <2>1, <2>2, FS_Subset
  <2>4. Cardinality(Writing) * MaxSize <= (Cardinality(Handlers) - 1) * MaxSize
    <3>1. \A a, b, c \in Nat : a <= b => a * c <= b * c
      OBVIOUS
    <3> QED
      BY <1>1, <1>5, <2>3, <3>1
  <2>5. Cardinality(Writing) * MaxSize \in Nat /\ (Cardinality(Handlers) - 1) * MaxSize \in Nat
    BY <1>1, <1>5
  <2> QED
    BY <1>4, <2>4, <2>5
<1> QED
  BY <1>1, <1>3, <1>4, <1>5, <1>6

\* A handler that is admitted found room for its own shard when it looked, so
\* what the others have admitted is all that can be too much; writing moves
\* bytes from one sum to the other; everything else only lowers them.
LEMMA QuotaInvariance == Spec => []QuotaInv
<1>1. Init => QuotaInv
  <2> SUFFICES ASSUME Init PROVE QuotaInv
    OBVIOUS
  <2>1. DOMAIN bucket = {} /\ Writing = {} /\ DOMAIN Admitted = {}
    BY DEF Init, Idle, Writing, Admitted
  <2>2. StorageUsed = 0 /\ Bytes(Admitted) = 0 /\ IsFiniteSet(DOMAIN bucket)
    BY <2>1, BytesEmpty, FS_EmptySet DEF StorageUsed
  <2>3. Cardinality(Handlers) - 1 \in Nat
    BY HandlersAssumption, FS_CardinalityType, FS_EmptySet
  <2>4. (Cardinality(Handlers) - 1) * MaxSize \in Nat
    BY <2>3, MaxSizeIs
  <2> QED
    BY <2>2, <2>4, QuotaAssumption DEF QuotaInv, OvershootBounded
<1>2. ServerInv /\ QuotaInv /\ [Next]_vars => QuotaInv'
  <2> SUFFICES ASSUME ServerInv, QuotaInv, [Next]_vars PROVE QuotaInv'
    OBVIOUS
  <2> DEFINE Slack == (Cardinality(Handlers) - 1) * MaxSize
  <2>1. /\ IsFiniteSet(DOMAIN bucket) /\ Quota \in Nat
        /\ Bytes(bucket) + Bytes(Admitted) <= Quota + Slack
    BY QuotaAssumption DEF QuotaInv, OvershootBounded, StorageUsed
  <2>2. /\ Bytes(bucket) \in Nat /\ Bytes(Admitted) \in Nat /\ Slack \in Nat
        /\ \A h \in Handlers \ Writing : Bytes(Admitted) <= Slack
    BY <2>1, AdmittedBounded DEF StorageUsed
  <2>3. Holds(bucket) /\ Holds(Admitted) /\ DOMAIN Admitted = Writing
    BY <2>1, MapsHold
  <2>4. req \in [Handlers -> {Idle} \cup Requests]
    BY DEF ServerInv, TypeOK, Requests, Pcs
  <2>g. ASSUME IsFiniteSet(DOMAIN bucket'), Bytes(bucket') + Bytes(Admitted') <= Quota + Slack
        PROVE  QuotaInv'
    BY <2>g DEF QuotaInv, OvershootBounded, StorageUsed
  <2> HIDE DEF Slack
  <2>a. ASSUME UNCHANGED bucket, Admitted' = Admitted PROVE QuotaInv'
    BY <2>1, <2>a, <2>g
  <2>5. CASE Restart
    <3>1. Writing' = {} /\ DOMAIN Admitted' = {}
      BY <2>5 DEF Restart, Idle, Writing, Admitted
    <3>2. Bytes(Admitted') = 0
      BY <3>1, BytesEmpty
    <3> QED
      BY <2>1, <2>2, <2>5, <2>g, <3>2 DEF Restart
  <2>6. ASSUME NEW h \in Handlers, ReceivePut(h) PROVE QuotaInv'
    <3>1. PICK s \in Shards, d \in Payloads : req' = [req EXCEPT ![h] = Request("check", s, d)]
      BY <2>6 DEF ReceivePut
    <3>2. req[h].pc # "write" /\ req'[h].pc # "write"
      BY <2>4, <2>6, <3>1 DEF ReceivePut, Idle, Request
    <3>3. Writing' = Writing /\ Admitted' = Admitted
      BY <2>4, <3>1, <3>2 DEF Writing, Admitted
    <3> QED
      BY <2>6, <2>a, <3>3 DEF ReceivePut
  <2>7. ASSUME NEW h \in Handlers, CheckQuota(h) PROVE QuotaInv'
    <3> DEFINE d == req[h].data
    <3>1. req[h] \in {Idle} \cup Requests /\ req[h].pc \in Pcs /\ h \notin Writing
      BY <2>4, <2>7 DEF CheckQuota, Pcs, Writing
    <3>2. d \in Payloads /\ [req[h] EXCEPT !.pc = "write"] = Request("write", req[h].shard, d)
      BY <3>1, RequestMoves, RequestFields DEF Pcs
    <3>3. CASE Fits(d)
      <4>1. req' = [req EXCEPT ![h] = Request("write", req[h].shard, d)]
        BY <2>4, <2>7, <3>2, <3>3 DEF CheckQuota
      <4>2. Writing' = Writing \cup {h}
        BY <2>4, <4>1 DEF Writing, Request
      <4>3. /\ DOMAIN Admitted' = DOMAIN Admitted \cup {h} /\ Admitted'[h] = d
            /\ \A t \in DOMAIN Admitted : t # h => Admitted'[t] = Admitted[t]
        BY <2>3, <2>4, <4>1, <4>2 DEF Admitted, Writing, Request
      <4>4. Holds(Admitted') /\ Bytes(Admitted') <= Bytes(Admitted) + Size[d]
        BY <2>3, <3>2, <4>3, BytesPut
      <4>5. Bytes(bucket) + Size[d] <= Quota /\ UNCHANGED bucket
        BY <2>7, <3>3 DEF Fits, StorageUsed, CheckQuota
      <4>6. Bytes(Admitted) <= Slack
        BY <2>2, <3>1
      <4>7. Bytes(Admitted') \in Nat /\ Size[d] \in Nat
        BY <3>2, <4>4, MaxSizeIs, BytesBounded, SizeAssumption
      <4>8. Bytes(bucket) + Bytes(Admitted') <= Quota + Slack
        BY <2>1, <2>2, <4>4, <4>5, <4>6, <4>7
      <4> QED
        BY <2>1, <2>g, <4>5, <4>8
    <3>4. CASE ~Fits(d)
      <4>1. req' = [req EXCEPT ![h] = Idle]
        BY <2>4, <2>7, <3>4 DEF CheckQuota
      <4>2. Writing' = Writing /\ Admitted' = Admitted
        BY <2>4, <3>1, <4>1 DEF Writing, Admitted, Idle
      <4> QED
        BY <2>7, <2>a, <4>2 DEF CheckQuota
    <3> QED
      BY <3>3, <3>4
  <2>8. ASSUME NEW h \in Handlers, Write(h) PROVE QuotaInv'
    <3> DEFINE d == req[h].data
    <3>1. req[h] \in {Idle} \cup Requests /\ req[h].pc \in Pcs /\ h \in Writing
      BY <2>4, <2>8 DEF Write, Pcs, Writing
    <3>2. /\ d \in Payloads /\ Size[d] \in Nat
          /\ [req[h] EXCEPT !.pc = "answer"] = Request("answer", req[h].shard, d)
      BY <3>1, RequestMoves, RequestFields, SizeAssumption DEF Pcs
    <3>3. \/ req' = [req EXCEPT ![h] = Request("answer", req[h].shard, d)]
          \/ req' = [req EXCEPT ![h] = Idle]
      BY <2>4, <2>8, <3>2 DEF Write
    <3>4. Writing' = Writing \ {h}
      BY <2>4, <3>3 DEF Writing, Request, Idle
    <3>5. DOMAIN Admitted' = DOMAIN Admitted \ {h} /\ \A g \in DOMAIN Admitted' : Admitted'[g] = Admitted[g]
      BY <2>3, <2>4, <3>3, <3>4 DEF Admitted, Writing
    <3>6. h \in DOMAIN Admitted /\ Admitted[h] = d
      BY <3>1 DEF Admitted
    <3>7. Bytes(Admitted) = Size[d] + Bytes(Admitted')
      BY <2>3, <3>5, <3>6, BytesWithout
    <3>8. Bytes(Admitted') \in Nat
      <4>1. IsFiniteSet(DOMAIN Admitted')
        BY <2>3, <3>5, FS_RemoveElement DEF Holds
      <4>2. Holds(Admitted')
        BY <2>3, <3>5, <4>1 DEF Holds
      <4> QED
        BY <4>2, MaxSizeIs, BytesBounded
    <3>9. CASE Put(req[h].shard, d)
      <4>1. Holds(bucket') /\ Bytes(bucket') <= Bytes(bucket) + Size[d]
        <5>1. /\ DOMAIN bucket' = DOMAIN bucket \cup {req[h].shard} /\ bucket'[req[h].shard] = d
              /\ \A t \in DOMAIN bucket : t # req[h].shard => bucket'[t] = bucket[t]
          BY <3>9 DEF Put
        <5> QED
          BY <2>3, <3>2, <5>1, BytesPut
      <4>2. Bytes(bucket') \in Nat /\ IsFiniteSet(DOMAIN bucket')
        BY <4>1, MaxSizeIs, BytesBounded DEF Holds
      <4>3. Bytes(bucket') + Bytes(Admitted') <= Quota + Slack
        BY <2>1, <2>2, <3>2, <3>7, <3>8, <4>1, <4>2
      <4> QED
        BY <2>g, <4>2, <4>3
    <3>10. CASE UNCHANGED bucket
      BY <2>1, <2>2, <2>g, <3>2, <3>7, <3>8, <3>10
    <3> QED
      BY <2>8, <3>9, <3>10 DEF Write
  <2>9. ASSUME NEW h \in Handlers, Answer(h) PROVE QuotaInv'
    <3>1. req' = [req EXCEPT ![h] = Idle] /\ h \notin Writing /\ UNCHANGED bucket
      BY <2>9 DEF Answer, Writing
    <3>2. Writing' = Writing /\ Admitted' = Admitted
      BY <2>4, <3>1 DEF Writing, Admitted, Idle
    <3> QED
      BY <2>a, <3>1, <3>2
  <2>10. CASE UNCHANGED vars
    <3>1. Admitted' = Admitted
      BY <2>10 DEF vars, Writing, Admitted
    <3> QED
      BY <2>10, <2>a, <3>1 DEF vars
  <2> QED
    BY <2>5, <2>6, <2>7, <2>8, <2>9, <2>10 DEF Next
<1> QED
  BY <1>1, <1>2, ServerInvariance, PTL DEF Spec

\* With any handlers, payloads and quota, handlers that were admitted before
\* the others wrote exceed the quota by no more than the shards of all of them
\* but one (server.go:73, the check and the write are two transactions).
THEOREM OvershootBoundedTheorem == Spec => []OvershootBounded
<1>1. QuotaInv => OvershootBounded
  BY DEF QuotaInv
<1> QED
  BY <1>1, QuotaInvariance, PTL
=============================================================================
