------------------------------- MODULE Coding -------------------------------
(***************************************************************************)
(* The way of a file's bytes through Split, Encode, Reconstruct and        *)
(* Reassemble (internal/chunker, internal/erasure): the file is uploaded,  *)
(* shards are lost, repairs reconstruct a chunk and encode it again.       *)
(*                                                                         *)
(* A byte is its position in the file, 0 the padding.  The library's       *)
(* parity shard is symbolic: it holds the data it was computed from, and   *)
(* is used only when K shards are there, as Reed-Solomon needs.  SHA-256   *)
(* of some data is that data.                                              *)
(***************************************************************************)
EXTENDS Erasure, Sequences

CONSTANTS
    CodingChunkSize,    \* DefaultChunkSize
    MaxLength           \* bound on the length of a file

ASSUME CodingAssumption == CodingChunkSize \in Nat \ {0} /\ MaxLength \in Nat

VARIABLES
    original,           \* the file uploaded
    shelf               \* shelf[c][s]: what is left of shard s of chunk c

codingVars == <<original, shelf>>

Parts(length, size) == (length + size - 1) \div size
Byte == 0 .. MaxLength
Lost == [row |-> 0, data |-> <<>>]

\* Bytes from and up to, padded.
Slice(data, from, upto) ==
    [i \in 1 .. upto - from + 1 |-> IF from + i - 1 <= Len(data) THEN data[from + i - 1] ELSE 0]

-----------------------------------------------------------------------------
(* Chunker *)

Shorter(a, b) == IF a < b THEN a ELSE b

\* ReadFull fills the buffer but for the last time; an empty read ends it.
Split(data) ==
    [i \in 1 .. Parts(Len(data), CodingChunkSize) |->
       LET d == SubSeq(data, (i - 1) * CodingChunkSize + 1,
                       Shorter(i * CodingChunkSize, Len(data)))
       IN  [index |-> i - 1, data |-> d, hash |-> d]]

InSequence(chunks) == \A i \in DOMAIN chunks :
    chunks[i].index = i - 1 /\ chunks[i].hash = chunks[i].data

\* The bytes of chunks 1 to n one after the other, of those in sequence.
Reassemble(chunks) ==
    LET written[n \in 0 .. Len(chunks)] ==
          IF n = 0 THEN <<>> ELSE written[n - 1] \o chunks[n].data
    IN  written[Len(chunks)]

-----------------------------------------------------------------------------
(* Encoder *)

\* The library: split into K equal parts, the last ones padded, and add
\* parity over all of them.
rsEncode(data) ==
    LET per == Parts(Len(data), K) IN
    [s \in ShardIndex |->
       IF s < K THEN [row |-> s, data |-> Slice(data, s * per + 1, (s + 1) * per)]
                ELSE [row |-> s, data |-> Slice(data, 1, K * per)]]

Encode(data) == IF data = <<>> THEN [s \in ShardIndex |-> [row |-> s, data |-> <<>>]]
                ELSE rsEncode(data)

Valid(shards) == {s \in ShardIndex : Len(shards[s].data) > 0}

\* The library: data shard s, itself or from parity.
rsReconstruct(shards, s) ==
    IF s \in Valid(shards) THEN shards[s].data
    ELSE LET all == shards[CHOOSE p \in Valid(shards) : p >= K].data
             per == Len(all) \div K
         IN  Slice(all, s * per + 1, (s + 1) * per)

\* Mutant: the padding is not cut off.
ReconstructPadded(shards, originalSize) ==
    LET joined[n \in 0 .. K] ==
          IF n = 0 THEN <<>> ELSE joined[n - 1] \o rsReconstruct(shards, n - 1)
    IN  IF originalSize = 0 THEN <<>> ELSE joined[K]

\* With at least K valid shards: join the data shards, cut to the size.
Reconstruct(shards, originalSize) ==
    LET joined[n \in 0 .. K] ==
          IF n = 0 THEN <<>> ELSE joined[n - 1] \o rsReconstruct(shards, n - 1)
    IN  IF originalSize = 0 THEN <<>> ELSE SubSeq(joined[K], 1, originalSize)

-----------------------------------------------------------------------------
(* A file and its shards *)

\* OriginalChunkSize, kept with every placement.
ChunkSizeOf(c) == Len(Split(original)[c].data)

CodingInit ==
    /\ original \in {[i \in 1 .. n |-> i] : n \in 0 .. MaxLength}
    /\ shelf = [c \in DOMAIN Split(original) |-> Encode(Split(original)[c].data)]

CodingTypeOK ==
    \A c \in DOMAIN shelf : shelf[c] \in [ShardIndex -> [row : ShardIndex, data : Seq(Byte)]]

LoseShard(c, s) == /\ shelf' = [shelf EXCEPT ![c][s] = Lost]
                   /\ UNCHANGED original

\* A repair of chunk c: decode what is left, encode, put back what is missing.
RecodeChunk(c) ==
    LET fresh == Encode(Reconstruct(shelf[c], ChunkSizeOf(c))) IN
    /\ Reconstructable(Valid(shelf[c]))
    /\ shelf' = [shelf EXCEPT ![c] =
                   [s \in ShardIndex |-> IF s \in Valid(shelf[c]) THEN @[s] ELSE fresh[s]]]
    /\ UNCHANGED original

CodingNext == \E c \in DOMAIN shelf : RecodeChunk(c) \/ \E s \in ShardIndex : LoseShard(c, s)

\* The chunks a download has reconstructed.
Downloaded == [c \in DOMAIN shelf |->
                 LET d == Reconstruct(shelf[c], ChunkSizeOf(c))
                 IN  [index |-> c - 1, data |-> d, hash |-> d]]

-----------------------------------------------------------------------------
(* Properties *)

\* As long as K shards of every chunk are left, original or recoded by any
\* number of repairs, the file downloads byte for byte, without its padding
\* and with its last short chunk, down to the empty file.
RoundTrip ==
    (\A c \in DOMAIN shelf : Reconstructable(Valid(shelf[c])))
       => InSequence(Downloaded) /\ Reassemble(Downloaded) = original
=============================================================================
