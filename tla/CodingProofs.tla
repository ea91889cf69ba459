---------------------------- MODULE CodingProofs ----------------------------
(***************************************************************************)
(* Proofs about the way of a file through chunker and encoder: what Split, *)
(* Encode, Reconstruct and Reassemble compute for every file, chunk size   *)
(* and number of shards, and that losses and repairs do no harm.           *)
(***************************************************************************)
EXTENDS Packages, FiniteSetTheorems, SequenceTheorems, TLAPS

\* Induction over the natural numbers, for a set of them.
LEMMA NatSetInduction ==
    ASSUME NEW P, 0 \in P, \A n \in Nat : n \in P => n + 1 \in P
    PROVE  Nat \subseteq P
<1>1. SUFFICES ASSUME Nat \ P # {} PROVE FALSE
  OBVIOUS
<1>2. PICK m \in Nat \ P : \A k \in Nat \ P : <<k, m>> \notin OpToRel(<, Nat)
  BY <1>1, NatLessThanWellFounded, WFMin
<1>3. \A k \in Nat \ P : ~(k < m)
  BY <1>2 DEF OpToRel
<1>4. m - 1 \in Nat /\ m - 1 \in P
  BY <1>3
<1> QED
  BY <1>4

\* Parts are enough, and no fewer would be.
LEMMA PartsEnough ==
    ASSUME NEW n \in Nat, NEW size \in Nat \ {0}
    PROVE  /\ Parts(n, size) \in Nat
           /\ n <= Parts(n, size) * size /\ Parts(n, size) * size < n + size
           /\ n # 0 => Parts(n, size) # 0
<1>1. Parts(n, size) = (n + size - 1) \div size
  BY DEF Parts
<1>2. (n + size - 1) \in Nat
  OBVIOUS
<1>3. \A a \in Nat, b \in Nat \ {0} : /\ a \div b \in Nat /\ (a \div b) * b <= a
                                      /\ a < (a \div b) * b + b
  OBVIOUS
<1> DEFINE q == Parts(n, size)
<1>4. q \in Nat /\ q * size <= n + size - 1 /\ n + size - 1 < q * size + size
  BY <1>1, <1>2, <1>3
<1>5. q * size \in Nat
  BY <1>4
<1> HIDE DEF q
<1>6. n <= q * size /\ q * size < n + size
  BY <1>4, <1>5
<1>7. q = 0 => q * size = 0
  BY <1>4
<1> QED
  BY <1>4, <1>6, <1>7 DEF q
\* Dividing takes a product back.
LEMMA DivBack == ASSUME NEW a \in Nat \ {0}, NEW b \in Nat PROVE (a * b) \div a = b
OBVIOUS

IsSlice(u, d, a, b, B) ==
    /\ u \in Seq(B) /\ Len(u) = b - a + 1
    /\ \A i \in 1 .. b - a + 1 : u[i] = IF a + i - 1 <= Len(d) THEN d[a + i - 1] ELSE 0

\* A slice is a sequence.
LEMMA SliceSeq ==
    ASSUME NEW B, 0 \in B, NEW d \in Seq(B), NEW a \in Nat \ {0}, NEW b \in Nat, a <= b + 1
    PROVE  IsSlice(Slice(d, a, b), d, a, b, B)
<1> DEFINE m == b - a + 1
<1>0. m \in Nat
  OBVIOUS
<1>1. Slice(d, a, b) = [i \in 1 .. m |-> IF a + i - 1 <= Len(d) THEN d[a + i - 1] ELSE 0]
  BY DEF Slice
<1>2. \A i \in 1 .. m : (IF a + i - 1 <= Len(d) THEN d[a + i - 1] ELSE 0) \in B
  BY LenProperties, ElementOfSeq
<1> HIDE DEF m
<1>3. Slice(d, a, b) \in [1 .. m -> B]
  BY <1>1, <1>2
<1>4. Slice(d, a, b) \in Seq(B) /\ Len(Slice(d, a, b)) = m
  BY <1>0, <1>3
<1> QED
  BY <1>1, <1>4 DEF m, IsSlice

\* Two slices that meet are one.
LEMMA SliceJoin ==
    ASSUME NEW B, 0 \in B, NEW d \in Seq(B), NEW a \in Nat, NEW b \in Nat, a <= b
    PROVE  Slice(d, 1, a) \o Slice(d, a + 1, b) = Slice(d, 1, b)
<1> DEFINE s == Slice(d, 1, a)  t == Slice(d, a + 1, b)  u == Slice(d, 1, b)
<1>1. /\ s \in Seq(B) /\ Len(s) = a
      /\ \A i \in 1 .. a : s[i] = IF i <= Len(d) THEN d[i] ELSE 0
  <2>1. IsSlice(s, d, 1, a, B)
    BY SliceSeq
  <2> HIDE DEF s
  <2>2. Len(d) \in Nat
    BY LenProperties
  <2> QED
    BY <2>1, <2>2 DEF IsSlice
<1>2. /\ t \in Seq(B) /\ Len(t) = b - a
      /\ \A i \in 1 .. b - a : t[i] = IF a + i <= Len(d) THEN d[a + i] ELSE 0
  <2>1. IsSlice(t, d, a + 1, b, B)
    BY SliceSeq
  <2> HIDE DEF t
  <2>2. Len(d) \in Nat
    BY LenProperties
  <2> QED
    BY <2>1, <2>2 DEF IsSlice
<1>3. /\ u \in Seq(B) /\ Len(u) = b
      /\ \A i \in 1 .. b : u[i] = IF i <= Len(d) THEN d[i] ELSE 0
  <2>1. IsSlice(u, d, 1, b, B)
    BY SliceSeq
  <2> HIDE DEF u
  <2>2. Len(d) \in Nat
    BY LenProperties
  <2> QED
    BY <2>1, <2>2 DEF IsSlice
<1> HIDE DEF s, t, u
<1>4. /\ s \o t \in Seq(B) /\ Len(s \o t) = b
      /\ \A i \in 1 .. b : (s \o t)[i] = IF i <= a THEN s[i] ELSE t[i - a]
  <2>1. s \in Seq(B) /\ t \in Seq(B) /\ Len(s) = a /\ Len(s) + Len(t) = b
    BY <1>1, <1>2
  <2>2. /\ s \o t \in Seq(B) /\ Len(s \o t) = Len(s) + Len(t)
        /\ \A i \in 1 .. Len(s) + Len(t) : (s \o t)[i] = IF i <= Len(s) THEN s[i] ELSE t[i - Len(s)]
    BY <2>1, ConcatProperties
  <2> QED
    BY <2>1, <2>2
<1>5. \A i \in 1 .. b : (s \o t)[i] = u[i]
  <2> SUFFICES ASSUME NEW i \in 1 .. b PROVE (s \o t)[i] = u[i]
    OBVIOUS
  <2>1. CASE i <= a
    <3>1. i \in 1 .. a
      BY <2>1
    <3>2. s[i] = IF i <= Len(d) THEN d[i] ELSE 0
      BY <1>1, <3>1, Zenon
    <3>3. u[i] = IF i <= Len(d) THEN d[i] ELSE 0
      BY <1>3, Zenon
    <3>4. (s \o t)[i] = s[i]
      BY <1>4, <2>1, Zenon
    <3> QED
      BY ONLY <3>2, <3>3, <3>4
  <2>2. CASE i > a
    <3>1. i - a \in 1 .. b - a /\ a + (i - a) = i
      BY <2>2
    <3>2. t[i - a] = IF i <= Len(d) THEN d[i] ELSE 0
      BY <1>2, <3>1
    <3>3. (s \o t)[i] = t[i - a]
      BY <1>4, <2>2
    <3> QED
      BY <1>3, <3>2, <3>3
  <2>3. i <= a \/ i > a
    OBVIOUS
  <2> QED
    BY <2>1, <2>2, <2>3
<1> QED
  BY <1>3, <1>4, <1>5, SeqEqual DEF s, t, u

\* A slice of a slice from the first byte on.
LEMMA SliceOfSlice ==
    ASSUME NEW B, 0 \in B, NEW d \in Seq(B), NEW n \in Nat,
           NEW a \in Nat \ {0}, NEW b \in Nat, a <= b + 1, b <= n
    PROVE  Slice(Slice(d, 1, n), a, b) = Slice(d, a, b)
<1> DEFINE s == Slice(d, 1, n)  t == Slice(s, a, b)  u == Slice(d, a, b)
<1>1. /\ s \in Seq(B) /\ Len(s) = n
      /\ \A i \in 1 .. n : s[i] = IF i <= Len(d) THEN d[i] ELSE 0
  <2>1. IsSlice(s, d, 1, n, B)
    BY SliceSeq
  <2> HIDE DEF s
  <2>2. Len(d) \in Nat
    BY LenProperties
  <2> QED
    BY <2>1, <2>2 DEF IsSlice
<1> HIDE DEF s
<1>2. /\ t \in Seq(B) /\ Len(t) = b - a + 1
      /\ \A i \in 1 .. b - a + 1 : t[i] = IF a + i - 1 <= n THEN s[a + i - 1] ELSE 0
  <2>1. IsSlice(t, s, a, b, B)
    BY <1>1, SliceSeq
  <2> HIDE DEF t
  <2>2. Len(d) \in Nat
    BY LenProperties
  <2> QED
    BY <1>1, <2>1, <2>2 DEF IsSlice
<1>3. /\ u \in Seq(B) /\ Len(u) = b - a + 1
      /\ \A i \in 1 .. b - a + 1 : u[i] = IF a + i - 1 <= Len(d) THEN d[a + i - 1] ELSE 0
  <2>1. IsSlice(u, d, a, b, B)
    BY SliceSeq
  <2> HIDE DEF u
  <2>2. Len(d) \in Nat
    BY LenProperties
  <2> QED
    BY <2>1, <2>2 DEF IsSlice
<1> HIDE DEF t, u
<1>4. \A i \in 1 .. b - a + 1 : t[i] = u[i]
  <2> SUFFICES ASSUME NEW i \in 1 .. b - a + 1 PROVE t[i] = u[i]
    OBVIOUS
  <2>1. a + i - 1 \in 1 .. n /\ a + i - 1 <= n
    OBVIOUS
  <2> QED
    BY <1>1, <1>2, <1>3, <2>1
<1> QED
  BY <1>2, <1>3, <1>4, SeqEqual DEF s, t, u

\* What was padded is cut again.
LEMMA SliceCut ==
    ASSUME NEW B, 0 \in B, NEW d \in Seq(B), NEW n \in Nat, Len(d) <= n
    PROVE  SubSeq(Slice(d, 1, n), 1, Len(d)) = d
<1> DEFINE s == Slice(d, 1, n)
<1>1. /\ s \in Seq(B) /\ Len(s) = n /\ Len(d) \in Nat
      /\ \A i \in 1 .. n : s[i] = IF i <= Len(d) THEN d[i] ELSE 0
  <2>1. IsSlice(s, d, 1, n, B)
    BY SliceSeq, LenProperties
  <2> HIDE DEF s
  <2>2. Len(d) \in Nat
    BY LenProperties
  <2> QED
    BY <2>1, <2>2 DEF IsSlice
<1> HIDE DEF s
<1>2. \A i \in 1 .. Len(d) : s[i] \in B /\ s[i] = d[i]
  BY <1>1, ElementOfSeq
<1>3. /\ SubSeq(s, 1, Len(d)) \in Seq(B) /\ Len(SubSeq(s, 1, Len(d))) = Len(d)
      /\ \A i \in 1 .. Len(d) : SubSeq(s, 1, Len(d))[i] = d[i]
  BY <1>1, <1>2, SubSeqProperties
<1> QED
  BY <1>3, SeqEqual DEF s

\* J is what the loops compute that append one part after the other.
Chain(J, part, N) == J = [n \in 0 .. N |-> IF n = 0 THEN <<>> ELSE J[n - 1] \o part[n]]

\* Whatever the parts are, the loops compute something.
LEMMA ChainExists ==
    ASSUME NEW part, NEW N \in Nat
    PROVE  \E J : Chain(J, part, N)
<1> DEFINE P == {n \in Nat : \E J : Chain(J, part, n)}
<1>p. \A n \in Nat : n \in P <=> \E J : Chain(J, part, n)
  OBVIOUS
<1> HIDE DEF P
<1>1. 0 \in P
  <2> DEFINE J == [i \in 0 .. 0 |-> <<>>]
  <2>1. \A i \in 0 .. 0 : i = 0 /\ J[i] = <<>>
    OBVIOUS
  <2>2. J = [i \in 0 .. 0 |-> J[i]]
    OBVIOUS
  <2> HIDE DEF J
  <2>3. Chain(J, part, 0)
    BY <2>1, <2>2 DEF Chain
  <2> QED
    BY <2>3, <1>p
<1>2. \A n \in Nat : n \in P => n + 1 \in P
  <2> SUFFICES ASSUME NEW n \in Nat, n \in P PROVE \E J : Chain(J, part, n + 1)
    BY <1>p
  <2>1. PICK J : Chain(J, part, n)
    BY <1>p
  <2>2. \A i \in 0 .. n : J[i] = IF i = 0 THEN <<>> ELSE J[i - 1] \o part[i]
    BY <2>1 DEF Chain
  <2> DEFINE W == [i \in 0 .. n + 1 |-> IF i = n + 1 THEN J[n] \o part[n + 1] ELSE J[i]]
  <2>3. \A i \in 0 .. n : W[i] = J[i]
    OBVIOUS
  <2>4. W[n + 1] = J[n] \o part[n + 1] /\ W = [i \in 0 .. n + 1 |-> W[i]]
    OBVIOUS
  <2> HIDE DEF W
  <2>5. ASSUME NEW i \in 0 .. n + 1
        PROVE  W[i] = IF i = 0 THEN <<>> ELSE W[i - 1] \o part[i]
    <3>1. CASE i = n + 1
      <4>1. i # 0 /\ i - 1 = n /\ n \in 0 .. n
        BY <3>1
      <4> QED
        BY <2>3, <2>4, <3>1, <4>1
    <3>2. CASE i = 0
      BY <2>2, <2>3, <3>2
    <3>3. CASE i # n + 1 /\ i # 0
      <4>1. i \in 0 .. n /\ i - 1 \in 0 .. n
        BY <3>3
      <4> QED
        BY <2>2, <2>3, <3>3, <4>1
    <3> QED
      BY <3>1, <3>2, <3>3
  <2>6. Chain(W, part, n + 1)
    BY <2>4, <2>5 DEF Chain
  <2> QED
    BY <2>6
<1> QED
  BY <1>1, <1>2, <1>p, NatSetInduction

\* W is a way of saying what they compute.
Grows(W, part, N) == W[0] = <<>> /\ \A n \in 1 .. N : W[n] = W[n - 1] \o part[n]

\* They compute what grows with the same parts.
LEMMA ChainIs ==
    ASSUME NEW N \in Nat, NEW part, NEW W, Grows(W, part, N), NEW J, Chain(J, part, N)
    PROVE  J[N] = W[N]
<1> DEFINE P == {n \in Nat : n \in 0 .. N => J[n] = W[n]}
<1>1. \A n \in 0 .. N : J[n] = IF n = 0 THEN <<>> ELSE J[n - 1] \o part[n]
  BY DEF Chain
<1>p. \A n \in Nat : n \in P <=> (n \in 0 .. N => J[n] = W[n])
  OBVIOUS
<1> HIDE DEF P
<1>2. 0 \in P
  BY <1>1, <1>p DEF Grows
<1>3. \A n \in Nat : n \in P => n + 1 \in P
  <2> SUFFICES ASSUME NEW n \in Nat, n \in P, n + 1 \in 0 .. N PROVE J[n + 1] = W[n + 1]
    BY <1>p
  <2>1. n \in 0 .. N /\ n + 1 \in 1 .. N /\ (n + 1) - 1 = n /\ n + 1 # 0
    OBVIOUS
  <2>2. J[n] = W[n]
    BY <1>p, <2>1
  <2>3. J[n + 1] = J[n] \o part[n + 1]
    BY <1>1, <2>1
  <2>4. W[n + 1] = W[n] \o part[n + 1]
    BY <2>1 DEF Grows
  <2> QED
    BY <2>2, <2>3, <2>4
<1>4. N \in P
  BY <1>2, <1>3, NatSetInduction
<1> QED
  BY <1>4, <1>p

-----------------------------------------------------------------------------
\* The shards of a chunk that is not empty.
LEMMA EncodeIs ==
    ASSUME NEW d \in Seq(Byte), d # <<>>,
           NEW per, per = Parts(Len(d), K)
    PROVE  /\ per \in Nat \ {0} /\ Len(d) <= K * per /\ Len(d) \in Nat \ {0}
           /\ Encode(d) \in [ShardIndex -> [row : ShardIndex, data : Seq(Byte)]]
           /\ \A s \in ShardIndex :
                 /\ s < K => Encode(d)[s].data = Slice(d, s * per + 1, (s + 1) * per)
                 /\ s >= K => Encode(d)[s].data = Slice(d, 1, K * per)
                 /\ Encode(d)[s].row = s
                 /\ Len(Encode(d)[s].data) > 0
<1>0. K \in Nat \ {0} /\ 0 \in Byte
  BY ShardsAssumption, CodingAssumption DEF Byte
<1>1. Len(d) \in Nat \ {0}
  BY EmptySeq
<1>2. per \in Nat /\ Len(d) <= per * K /\ per # 0
  BY <1>0, <1>1, PartsEnough
<1>3. K * per = per * K /\ K * per \in Nat \ {0}
  BY <1>0, <1>2
<1>4. Encode(d) = [s \in ShardIndex |->
         IF s < K THEN [row |-> s, data |-> Slice(d, s * per + 1, (s + 1) * per)]
                  ELSE [row |-> s, data |-> Slice(d, 1, K * per)]]
  BY DEF Encode, rsEncode
<1>5. ASSUME NEW s \in ShardIndex
      PROVE  /\ Slice(d, s * per + 1, (s + 1) * per) \in Seq(Byte)
             /\ Len(Slice(d, s * per + 1, (s + 1) * per)) > 0
  <2>1. s \in Nat /\ s * per \in Nat /\ (s + 1) * per = s * per + per
    BY <1>0, <1>2 DEF ShardIndex
  <2>2. PICK x, y : x = s * per /\ y = (s + 1) * per
    OBVIOUS
  <2>3. x \in Nat /\ y \in Nat /\ y = x + per
    <3>1. x \in Nat /\ y = x + per /\ per \in Nat
      BY <1>2, <2>1, <2>2, Zenon
    <3> QED
      BY ONLY <3>1
  <2>4. IsSlice(Slice(d, x + 1, y), d, x + 1, y, Byte)
    BY <1>0, <1>2, <2>3, SliceSeq
  <2>5. Slice(d, x + 1, y) \in Seq(Byte) /\ Len(Slice(d, x + 1, y)) > 0
    BY <1>2, <2>3, <2>4 DEF IsSlice
  <2> QED
    BY <2>2, <2>5
<1>6. Slice(d, 1, K * per) \in Seq(Byte) /\ Len(Slice(d, 1, K * per)) > 0
  <2>1. IsSlice(Slice(d, 1, K * per), d, 1, K * per, Byte)
    BY <1>0, <1>3, SliceSeq
  <2> QED
    BY <1>3, <2>1 DEF IsSlice
<1>7. \A s \in ShardIndex :
         /\ Encode(d)[s] \in [row : ShardIndex, data : Seq(Byte)]
         /\ s < K => Encode(d)[s].data = Slice(d, s * per + 1, (s + 1) * per)
         /\ s >= K => Encode(d)[s].data = Slice(d, 1, K * per)
         /\ Encode(d)[s].row = s
         /\ Len(Encode(d)[s].data) > 0
  <2> SUFFICES ASSUME NEW s \in ShardIndex
               PROVE  /\ Encode(d)[s] \in [row : ShardIndex, data : Seq(Byte)]
                      /\ s < K => Encode(d)[s].data = Slice(d, s * per + 1, (s + 1) * per)
                      /\ s >= K => Encode(d)[s].data = Slice(d, 1, K * per)
                      /\ Encode(d)[s].row = s
                      /\ Len(Encode(d)[s].data) > 0
    OBVIOUS
  <2>1. s \in Nat
    BY <1>0 DEF ShardIndex
  <2>2. CASE s < K
    <3>1. Encode(d)[s] = [row |-> s, data |-> Slice(d, s * per + 1, (s + 1) * per)]
      BY <1>4, <2>2
    <3> QED
      BY <1>0, <1>5, <2>1, <2>2, <3>1
  <2>3. CASE ~(s < K)
    <3>1. Encode(d)[s] = [row |-> s, data |-> Slice(d, 1, K * per)]
      BY <1>4, <2>3
    <3> QED
      BY <1>0, <1>6, <2>1, <2>3, <3>1
  <2> QED
    BY <2>2, <2>3
<1>8. Encode(d) \in [ShardIndex -> [row : ShardIndex, data : Seq(Byte)]]
  <2>1. Encode(d) = [s \in ShardIndex |-> Encode(d)[s]]
    BY <1>4
  <2> QED
    BY <1>7, <2>1
<1> QED
  BY <1>1, <1>2, <1>3, <1>7, <1>8

\* Shards of d, or what is left of them.
ShardsOf(shards, d) == \A s \in ShardIndex : shards[s] \in {Lost, Encode(d)[s]}

\* Whatever is missing, K shards give each data shard.
LEMMA DataShard ==
    ASSUME NEW d \in Seq(Byte), d # <<>>, NEW per, per = Parts(Len(d), K),
           NEW shards, ShardsOf(shards, d), Reconstructable(Valid(shards)),
           NEW s \in 0 .. K - 1
    PROVE  rsReconstruct(shards, s) = Slice(d, s * per + 1, (s + 1) * per)
<1>0. K \in Nat \ {0} /\ M \in Nat \ {0} /\ 0 \in Byte /\ s \in ShardIndex /\ s < K
  BY ShardsAssumption, CodingAssumption DEF Byte, ShardIndex
<1>1. /\ per \in Nat \ {0}
      /\ \A t \in ShardIndex :
            /\ t < K => Encode(d)[t].data = Slice(d, t * per + 1, (t + 1) * per)
            /\ t >= K => Encode(d)[t].data = Slice(d, 1, K * per)
  BY EncodeIs
<1>2. \A t \in Valid(shards) : t \in ShardIndex /\ shards[t] = Encode(d)[t]
  <2> SUFFICES ASSUME NEW t \in Valid(shards), shards[t] # Encode(d)[t] PROVE FALSE
    BY DEF Valid
  <2>1. t \in ShardIndex /\ Len(shards[t].data) > 0 /\ shards[t] = Lost
    BY DEF Valid, ShardsOf
  <2> QED
    BY <2>1 DEF Lost
<1>3. CASE s \in Valid(shards)
  BY <1>0, <1>1, <1>2, <1>3 DEF rsReconstruct
<1>4. CASE s \notin Valid(shards)
  <2>1. \E p \in Valid(shards) : p >= K
    <3> SUFFICES ASSUME \A p \in Valid(shards) : ~(p >= K) PROVE FALSE
      OBVIOUS
    <3>1. IsFiniteSet(0 .. K - 1) /\ Cardinality(0 .. K - 1) = K
      <4>1. K - 1 \in Int /\ 0 \in Int /\ ~(0 > K - 1) /\ (K - 1) - 0 + 1 = K
        BY <1>0
      <4> QED
        BY <4>1, FS_Interval
    <3>2. IsFiniteSet((0 .. K - 1) \ {s}) /\ Cardinality((0 .. K - 1) \ {s}) = K - 1
      BY <3>1, FS_RemoveElement
    <3>3. Valid(shards) \subseteq (0 .. K - 1) \ {s}
      BY <1>0, <1>2, <1>4 DEF ShardIndex
    <3>4. IsFiniteSet(Valid(shards)) /\ Cardinality(Valid(shards)) <= K - 1
      BY <3>2, <3>3, FS_Subset
    <3>5. Cardinality(Valid(shards)) \in Nat
      BY <3>4, FS_CardinalityType
    <3> QED
      BY <1>0, <3>4, <3>5 DEF Reconstructable
  <2>2. PICK p : p = CHOOSE q \in Valid(shards) : q >= K
    OBVIOUS
  <2>3. p \in Valid(shards) /\ p >= K
    BY <2>1, <2>2
  <2>4. PICK n : n = K * per
    OBVIOUS
  <2>5. shards[p].data = Slice(d, 1, n)
    BY <1>1, <1>2, <2>3, <2>4
  <2>6. n \in Nat /\ n \div K = per
    <3>1. K * per \in Nat /\ (K * per) \div K = per
      BY <1>0, <1>1, DivBack
    <3> QED
      BY <2>4, <3>1
  <2>7. Len(Slice(d, 1, n)) = n
    <3>1. IsSlice(Slice(d, 1, n), d, 1, n, Byte)
      BY <1>0, <2>6, SliceSeq
    <3> QED
      BY <2>6, <3>1 DEF IsSlice
  <2>8. rsReconstruct(shards, s) = Slice(Slice(d, 1, n), s * per + 1, (s + 1) * per)
    BY <1>4, <2>2, <2>5, <2>6, <2>7 DEF rsReconstruct
  <2>9. PICK x, y : x = s * per /\ y = (s + 1) * per
    OBVIOUS
  <2>10. s * per \in Nat /\ (s + 1) * per = s * per + per
    BY <1>0, <1>1
  <2>11. x \in Nat /\ y \in Nat /\ y = x + per
    <3>1. x \in Nat /\ y = x + per /\ per \in Nat
      BY <1>1, <2>9, <2>10, Zenon
    <3> QED
      BY ONLY <3>1
  <2>12. y <= n
    <3>1. \A a, b, c \in Nat : a <= b => a * c <= b * c
      OBVIOUS
    <3>2. s + 1 \in Nat /\ s + 1 <= K
      BY <1>0
    <3>3. (s + 1) * per <= K * per
      BY <1>0, <1>1, <3>1, <3>2
    <3> QED
      BY <2>4, <2>9, <3>3
  <2>13. Slice(Slice(d, 1, n), x + 1, y) = Slice(d, x + 1, y)
    <3>1. x + 1 \in Nat \ {0} /\ y \in Nat /\ x + 1 <= y + 1 /\ y <= n /\ n \in Nat
      BY <1>1, <2>6, <2>11, <2>12
    <3> QED
      BY <1>0, <3>1, SliceOfSlice
  <2> QED
    BY <2>8, <2>9, <2>13
<1> QED
  BY <1>3, <1>4

\* K shards give the chunk back.
LEMMA ReconstructIs ==
    ASSUME NEW d \in Seq(Byte), d # <<>>,
           NEW shards, ShardsOf(shards, d), Reconstructable(Valid(shards))
    PROVE  Reconstruct(shards, Len(d)) = d
<1>0. K \in Nat \ {0} /\ 0 \in Byte
  BY ShardsAssumption, CodingAssumption DEF Byte
<1>1. PICK per : per = Parts(Len(d), K)
  OBVIOUS
<1>2. per \in Nat \ {0} /\ Len(d) <= K * per /\ Len(d) \in Nat \ {0} /\ K * per \in Nat
  BY <1>0, <1>1, EncodeIs
<1>3. PICK part, W : /\ part = [n \in 1 .. K |-> rsReconstruct(shards, n - 1)]
                     /\ W = [n \in 0 .. K |-> Slice(d, 1, n * per)]
  OBVIOUS
<1>4. W[0] = <<>>
  <2>1. 0 * per = 0
    BY <1>2
  <2>2. W[0] = Slice(d, 1, 0)
    BY <1>0, <1>3, <2>1
  <2>3. IsSlice(Slice(d, 1, 0), d, 1, 0, Byte)
    BY <1>0, SliceSeq
  <2>4. Slice(d, 1, 0) \in Seq(Byte) /\ Len(Slice(d, 1, 0)) = 0
    BY <2>3 DEF IsSlice
  <2> QED
    BY <2>2, <2>4, EmptySeq
<1>5. ASSUME NEW n \in 1 .. K PROVE W[n] = W[n - 1] \o part[n]
  <2>1. n - 1 \in 0 .. K - 1 /\ (n - 1) + 1 = n /\ n \in 0 .. K /\ n - 1 \in 0 .. K
    BY <1>0
  <2>2. part[n] = Slice(d, (n - 1) * per + 1, n * per)
    BY <1>1, <1>3, <2>1, DataShard
  <2>3. W[n] = Slice(d, 1, n * per) /\ W[n - 1] = Slice(d, 1, (n - 1) * per)
    BY <1>3, <2>1
  <2>4. PICK x, y : x = (n - 1) * per /\ y = n * per
    OBVIOUS
  <2>5. x \in Nat /\ y \in Nat /\ x <= y
    <3>1. (n - 1) * per \in Nat /\ n * per = (n - 1) * per + per
      BY <1>2, <2>1
    <3> QED
      BY <1>2, <2>4, <3>1
  <2>6. Slice(d, 1, x) \o Slice(d, x + 1, y) = Slice(d, 1, y)
    BY <1>0, <2>5, SliceJoin
  <2> QED
    BY <2>2, <2>3, <2>4, <2>6
<1>6. Grows(W, part, K)
  BY <1>4, <1>5 DEF Grows
<1>7. PICK J : /\ J = [n \in 0 .. K |-> IF n = 0 THEN <<>> ELSE J[n - 1] \o rsReconstruct(shards, n - 1)]
               /\ Reconstruct(shards, Len(d)) = SubSeq(J[K], 1, Len(d))
  <2>1. PICK V : Chain(V, part, K)
    BY <1>0, ChainExists
  <2>2. V = [n \in 0 .. K |-> IF n = 0 THEN <<>> ELSE V[n - 1] \o rsReconstruct(shards, n - 1)]
    <3>1. \A n \in 0 .. K : n # 0 => part[n] = rsReconstruct(shards, n - 1)
      BY <1>0, <1>3
    <3> QED
      BY <2>1, <3>1 DEF Chain
  <2> QED
    BY <1>2, <2>2 DEF Reconstruct
<1>8. Chain(J, part, K)
  <2>1. \A n \in 0 .. K : n # 0 => part[n] = rsReconstruct(shards, n - 1)
    BY <1>0, <1>3
  <2> QED
    BY <1>7, <2>1 DEF Chain
<1>9. J[K] = W[K]
  BY <1>0, <1>6, <1>8, ChainIs
<1>10. W[K] = Slice(d, 1, K * per)
  BY <1>0, <1>3
<1> QED
  BY <1>0, <1>2, <1>7, <1>9, <1>10, SliceCut

\* The chunks of a file: in the type of bytes, and none is empty.
LEMMA SplitIs ==
    ASSUME NEW o \in Seq(Byte), NEW n, n = Parts(Len(o), CodingChunkSize)
    PROVE  /\ n \in Nat /\ DOMAIN Split(o) = 1 .. n
           /\ \A c \in 1 .. n :
                 /\ Split(o)[c].data \in Seq(Byte) /\ Split(o)[c].data # <<>>
                 /\ Split(o)[c].data = SubSeq(o, (c - 1) * CodingChunkSize + 1,
                                             Shorter(c * CodingChunkSize, Len(o)))
                 /\ (c - 1) * CodingChunkSize < Len(o)
           /\ Len(o) <= n * CodingChunkSize
<1>0. CodingChunkSize \in Nat \ {0} /\ Len(o) \in Nat
  BY CodingAssumption, LenProperties
<1> DEFINE C == CodingChunkSize
<1>1. n \in Nat /\ Len(o) <= n * C /\ n * C < Len(o) + C
  BY <1>0, PartsEnough
<1>2. DOMAIN Split(o) = 1 .. n
  BY DEF Split
<1>3. ASSUME NEW c \in 1 .. n
      PROVE  /\ Split(o)[c].data \in Seq(Byte) /\ Split(o)[c].data # <<>>
             /\ Split(o)[c].data = SubSeq(o, (c - 1) * C + 1, Shorter(c * C, Len(o)))
             /\ (c - 1) * C < Len(o)
  <2>1. Split(o)[c].data = SubSeq(o, (c - 1) * C + 1, Shorter(c * C, Len(o)))
    BY DEF Split
  <2>2. PICK x, y : x = (c - 1) * C /\ y = c * C
    OBVIOUS
  <2>3. c - 1 \in Nat /\ c \in Nat /\ n - 1 \in Nat /\ c - 1 <= n - 1
    BY <1>1
  <2>4. /\ (c - 1) * C \in Nat /\ c * C = (c - 1) * C + C
        /\ (n - 1) * C \in Nat /\ n * C = (n - 1) * C + C
    BY <1>0, <1>1, <2>3
  <2>5. (c - 1) * C <= (n - 1) * C
    <3>1. \A i, j, k \in Nat : i <= j => i * k <= j * k
      OBVIOUS
    <3> QED
      BY <1>0, <2>3, <3>1
  <2>6. x \in Nat /\ y \in Nat /\ y = x + C /\ x < Len(o)
    <3>1. (n - 1) * C < Len(o)
      BY <1>0, <1>1, <2>4
    <3> HIDE DEF C
    <3> QED
      BY <1>0, <2>2, <2>4, <2>5, <3>1 DEF C
  <2> HIDE DEF C
  <2>7. PICK z : z = Shorter(y, Len(o))
    OBVIOUS
  <2>8. z \in Nat /\ x < z /\ z <= Len(o)
    BY <1>0, <2>6, <2>7 DEF Shorter, C
  <2>9. \A i \in x + 1 .. z : o[i] \in Byte
    BY <1>0, <2>6, <2>8, ElementOfSeq
  <2>10. SubSeq(o, x + 1, z) \in Seq(Byte) /\ Len(SubSeq(o, x + 1, z)) = z - x
    <3>1. x + 1 \in Int /\ z \in Int /\ x + 1 <= z /\ z - (x + 1) + 1 = z - x
      BY <2>6, <2>8
    <3> QED
      BY <2>9, <3>1, SubSeqProperties
  <2>11. SubSeq(o, x + 1, z) # <<>>
    BY <2>6, <2>8, <2>10, EmptySeq
  <2> QED
    BY <2>1, <2>2, <2>6, <2>7, <2>10, <2>11
<1> QED
  BY <1>1, <1>2, <1>3

\* Its chunks give a file back.
LEMMA ReassembleIs ==
    ASSUME NEW o \in Seq(Byte), NEW chunks, DOMAIN chunks = DOMAIN Split(o),
           Len(chunks) = Parts(Len(o), CodingChunkSize),
           \A c \in DOMAIN chunks : chunks[c].data = Split(o)[c].data
    PROVE  Reassemble(chunks) = o
<1> DEFINE C == CodingChunkSize
<1>0. C \in Nat \ {0} /\ Len(o) \in Nat
  BY CodingAssumption, LenProperties
<1>1. PICK n : n = Parts(Len(o), CodingChunkSize)
  OBVIOUS
<1>2. /\ n \in Nat /\ DOMAIN Split(o) = 1 .. n
      /\ \A c \in 1 .. n :
            /\ Split(o)[c].data = SubSeq(o, (c - 1) * C + 1, Shorter(c * C, Len(o)))
            /\ (c - 1) * C < Len(o)
      /\ Len(o) <= n * C
  BY <1>1, SplitIs
<1> HIDE DEF C
<1>3. PICK part, W : /\ part = [c \in 1 .. n |-> chunks[c].data]
                     /\ W = [m \in 0 .. n |-> SubSeq(o, 1, Shorter(m * C, Len(o)))]
  OBVIOUS
<1>4. W[0] = <<>>
  <2>1. 0 * C = 0
    BY <1>0
  <2>2. Shorter(0 * C, Len(o)) = 0
    BY <1>0, <2>1 DEF Shorter
  <2>3. W[0] = SubSeq(o, 1, 0)
    BY <1>2, <1>3, <2>2
  <2> QED
    BY <2>3, SubSeqEmpty
<1>5. ASSUME NEW c \in 1 .. n PROVE W[c] = W[c - 1] \o part[c]
  <2>1. c - 1 \in 0 .. n /\ c \in 0 .. n /\ c - 1 \in Nat
    BY <1>2
  <2>2. PICK x, y : x = (c - 1) * C /\ y = Shorter(c * C, Len(o))
    OBVIOUS
  <2>3. (c - 1) * C \in Nat /\ c * C = (c - 1) * C + C
    BY <1>0, <2>1
  <2>4. x < Len(o) /\ x \in Nat
    BY <1>2, <2>2, <2>3
  <2>5. y \in Nat /\ x <= y /\ y <= Len(o)
    BY <1>0, <2>2, <2>3, <2>4 DEF Shorter
  <2>6. Shorter((c - 1) * C, Len(o)) = x
    BY <2>2, <2>4 DEF Shorter
  <2>7. W[c] = SubSeq(o, 1, y) /\ W[c - 1] = SubSeq(o, 1, x)
    BY <1>3, <2>1, <2>2, <2>6
  <2>8. part[c] = SubSeq(o, x + 1, y)
    BY <1>2, <1>3, <2>2
  <2>9. SubSeq(o, 1, x) \o SubSeq(o, x + 1, y) = SubSeq(o, 1, y)
    BY <1>0, <2>4, <2>5, ConcatAdjacentSubSeq
  <2> QED
    BY <2>7, <2>8, <2>9
<1>6. Grows(W, part, n)
  BY <1>4, <1>5 DEF Grows
<1>a. \A m \in 0 .. n : m # 0 => part[m] = chunks[m].data
  BY <1>2, <1>3
<1>7. PICK J : /\ J = [m \in 0 .. n |-> IF m = 0 THEN <<>> ELSE J[m - 1] \o chunks[m].data]
               /\ Reassemble(chunks) = J[n]
  <2>1. PICK V : Chain(V, part, n)
    BY <1>2, ChainExists
  <2>2. V = [m \in 0 .. n |-> IF m = 0 THEN <<>> ELSE V[m - 1] \o chunks[m].data]
    BY <1>a, <2>1 DEF Chain
  <2>3. V = [m \in 0 .. Len(chunks) |-> IF m = 0 THEN <<>> ELSE V[m - 1] \o chunks[m].data]
    BY <1>1, <2>2
  <2>4. PICK J : /\ J = [m \in 0 .. Len(chunks) |-> IF m = 0 THEN <<>> ELSE J[m - 1] \o chunks[m].data]
                 /\ Reassemble(chunks) = J[Len(chunks)]
    BY <2>3 DEF Reassemble
  <2> QED
    BY <1>1, <2>4
<1>8. Chain(J, part, n)
  BY <1>7, <1>a DEF Chain
<1>9. J[n] = W[n]
  BY <1>2, <1>6, <1>8, ChainIs
<1>10. W[n] = SubSeq(o, 1, Len(o))
  <2>1. Shorter(n * C, Len(o)) = Len(o)
    BY <1>0, <1>2 DEF Shorter
  <2> QED
    BY <1>2, <1>3, <2>1
<1> QED
  BY <1>0, <1>7, <1>9, <1>10, SubSeqFull

-----------------------------------------------------------------------------
(* Losses and repairs *)

\* For the shelf.
LEMMA CodingSteps == [PackagesNext]_allVars => [CodingNext]_codingVars
  BY DEF PackagesNext, allVars, InviteMoves, RoutingMoves, SchedulerMoves, ComputeMoves,
         SnapshotMoves, IngressMoves, DesktopMoves, CodingMoves

Shelf == [ShardIndex -> [row : ShardIndex, data : Seq(Byte)]]

\* What is on the shelf of a chunk is what Encode made of it, or lost: a shard
\* made by a repair is the one that was lost.
CodingInv == /\ original \in Seq(Byte)
             /\ shelf \in [DOMAIN Split(original) -> Shelf]
             /\ \A c \in DOMAIN shelf : ShardsOf(shelf[c], Split(original)[c].data)

\* The shelf as it is filled.
LEMMA FreshShards ==
    ASSUME NEW d \in Seq(Byte), d # <<>> PROVE Encode(d) \in Shelf /\ ShardsOf(Encode(d), d)
  BY EncodeIs DEF ShardsOf, Shelf

\* CodingInv is inductive.
LEMMA CodingInvariance == PackagesSpec => []CodingInv
<1>1. PackagesInit => CodingInv
  <2> SUFFICES ASSUME CodingInit PROVE CodingInv
    BY DEF PackagesInit
  <2>1. PICK n \in 0 .. MaxLength : original = [i \in 1 .. n |-> i]
    BY DEF CodingInit
  <2>2. original \in Seq(Byte)
    <3>1. n \in Nat /\ original \in [1 .. n -> Byte]
      BY <2>1, CodingAssumption DEF Byte
    <3> QED
      BY <3>1
  <2>3. \A c \in DOMAIN Split(original) :
           Split(original)[c].data \in Seq(Byte) /\ Split(original)[c].data # <<>>
    BY <2>2, SplitIs
  <2>4. shelf = [c \in DOMAIN Split(original) |-> Encode(Split(original)[c].data)]
    BY DEF CodingInit
  <2>5. \A c \in DOMAIN Split(original) :
           shelf[c] \in Shelf /\ ShardsOf(shelf[c], Split(original)[c].data)
    BY <2>3, <2>4, FreshShards
  <2> QED
    BY <2>2, <2>4, <2>5 DEF CodingInv
<1>2. CodingInv /\ [PackagesNext]_allVars => CodingInv'
  <2> SUFFICES ASSUME CodingInv, [CodingNext]_codingVars PROVE CodingInv'
    BY CodingSteps
  <2>1. /\ original \in Seq(Byte) /\ shelf \in [DOMAIN Split(original) -> Shelf]
        /\ \A c \in DOMAIN shelf : ShardsOf(shelf[c], Split(original)[c].data)
    BY DEF CodingInv
  <2>2. \A c \in DOMAIN shelf :
           Split(original)[c].data \in Seq(Byte) /\ Split(original)[c].data # <<>>
    BY <2>1, SplitIs
  <2>g. ASSUME NEW c \in DOMAIN shelf, NEW e \in Shelf, ShardsOf(e, Split(original)[c].data),
               shelf' = [shelf EXCEPT ![c] = e], UNCHANGED original
        PROVE  CodingInv'
    <3>1. shelf' \in [DOMAIN Split(original) -> Shelf]
      BY <2>1, <2>g
    <3>2. \A b \in DOMAIN shelf' : ShardsOf(shelf'[b], Split(original)[b].data)
      BY <2>1, <2>g
    <3> QED
      BY <2>1, <2>g, <3>1, <3>2 DEF CodingInv
  <2>3. ASSUME NEW c \in DOMAIN shelf, NEW s \in ShardIndex, LoseShard(c, s) PROVE CodingInv'
    <3>1. PICK e : e = [shelf[c] EXCEPT ![s] = Lost]
      OBVIOUS
    <3>2. shelf[c] \in Shelf /\ Lost \in [row : ShardIndex, data : Seq(Byte)]
      BY <2>1, ShardsAssumption DEF Lost, ShardIndex
    <3>3. e \in Shelf
      BY <3>1, <3>2 DEF Shelf
    <3>4. ShardsOf(e, Split(original)[c].data)
      BY <2>1, <3>1, <3>2 DEF ShardsOf, Shelf
    <3>5. shelf' = [shelf EXCEPT ![c] = e] /\ UNCHANGED original
      BY <2>1, <2>3, <3>1 DEF LoseShard
    <3> QED
      BY <2>g, <3>3, <3>4, <3>5
  <2>4. ASSUME NEW c \in DOMAIN shelf, RecodeChunk(c) PROVE CodingInv'
    <3>1. PICK d : d = Split(original)[c].data
      OBVIOUS
    <3>2. d \in Seq(Byte) /\ d # <<>> /\ ShardsOf(shelf[c], d) /\ shelf[c] \in Shelf
      BY <2>1, <2>2, <3>1
    <3>3. Reconstruct(shelf[c], ChunkSizeOf(c)) = d
      <4>1. Reconstructable(Valid(shelf[c]))
        BY <2>4 DEF RecodeChunk
      <4>2. ChunkSizeOf(c) = Len(d)
        BY <3>1 DEF ChunkSizeOf
      <4> QED
        BY <3>2, <4>1, <4>2, ReconstructIs
    <3>4. PICK e : e = [s \in ShardIndex |-> IF s \in Valid(shelf[c]) THEN shelf[c][s] ELSE Encode(d)[s]]
      OBVIOUS
    <3>5. shelf' = [shelf EXCEPT ![c] = e] /\ UNCHANGED original
      BY <2>1, <2>4, <3>3, <3>4 DEF RecodeChunk
    <3>6. Encode(d) \in Shelf
      BY <3>2, FreshShards
    <3>7. e \in Shelf
      BY <3>2, <3>4, <3>6 DEF Shelf
    <3>8. ShardsOf(e, d)
      BY <3>2, <3>4 DEF ShardsOf
    <3> QED
      BY <2>g, <3>1, <3>5, <3>7, <3>8
  <2>5. CASE UNCHANGED codingVars
    BY <2>1, <2>5 DEF codingVars, CodingInv
  <2> QED
    BY <2>3, <2>4, <2>5 DEF CodingNext
<1> QED
  BY <1>1, <1>2, PTL DEF PackagesSpec

\* The shelf keeps its type.
LEMMA CodingTypes == PackagesSpec => []CodingTypeOK
<1>1. CodingInv => CodingTypeOK
  BY DEF CodingInv, CodingTypeOK, Shelf
<1> QED
  BY <1>1, CodingInvariance, PTL

\* For every file, chunk size and number of shards, losses and repairs in any
\* order: as long as K shards of each chunk are left, the download is the file
\* (chunker.go, encoder.go).
THEOREM RoundTripTheorem == PackagesSpec => []RoundTrip
<1>1. CodingInv => RoundTrip
  <2> SUFFICES ASSUME CodingInv, \A c \in DOMAIN shelf : Reconstructable(Valid(shelf[c]))
               PROVE  InSequence(Downloaded) /\ Reassemble(Downloaded) = original
    BY DEF RoundTrip
  <2>1. PICK n : n = Parts(Len(original), CodingChunkSize)
    OBVIOUS
  <2>2. /\ n \in Nat /\ DOMAIN Split(original) = 1 .. n /\ DOMAIN shelf = 1 .. n
        /\ original \in Seq(Byte)
        /\ \A c \in 1 .. n : Split(original)[c].data \in Seq(Byte) /\ Split(original)[c].data # <<>>
    BY <2>1, SplitIs DEF CodingInv
  <2>3. DOMAIN Downloaded = 1 .. n /\ Len(Downloaded) = n
    BY <2>2 DEF Downloaded
  <2>4. \A c \in 1 .. n : Downloaded[c].data = Split(original)[c].data
    <3> SUFFICES ASSUME NEW c \in 1 .. n PROVE Downloaded[c].data = Split(original)[c].data
      OBVIOUS
    <3>1. PICK d : d = Split(original)[c].data
      OBVIOUS
    <3>2. /\ d \in Seq(Byte) /\ d # <<>> /\ ShardsOf(shelf[c], d)
          /\ Reconstructable(Valid(shelf[c])) /\ ChunkSizeOf(c) = Len(d)
      BY <2>2, <3>1 DEF CodingInv, ChunkSizeOf
    <3>3. Reconstruct(shelf[c], ChunkSizeOf(c)) = d
      BY <3>2, ReconstructIs
    <3> QED
      BY <2>2, <3>1, <3>3 DEF Downloaded
  <2>5. InSequence(Downloaded)
    BY DEF InSequence, Downloaded
  <2>6. Reassemble(Downloaded) = original
    BY <2>1, <2>2, <2>3, <2>4, ReassembleIs
  <2> QED
    BY <2>5, <2>6
<1> QED
  BY <1>1, CodingInvariance, PTL
=============================================================================
