---------------------------- MODULE RoutingTable ----------------------------
(***************************************************************************)
(* The Kademlia routing table (internal/dht): one bucket of contacts for   *)
(* every length of the prefix shared with the local identifier.            *)
(*                                                                         *)
(* Every method holds the table's lock throughout and is one step.  An     *)
(* identifier is its bits, most significant first (160 in the code);       *)
(* Contact.LastSeen is stored and never read, and is left out.             *)
(***************************************************************************)
EXTENDS Integers, Sequences, FiniteSets

CONSTANTS
    IDBits,             \* IDBytes * 8
    BucketSize,
    ContactAddrs,
    localID

NodeID == [1 .. IDBits -> {0, 1}]

ASSUME RoutingAssumption == /\ IDBits \in Nat \ {0} /\ BucketSize \in Nat
                            /\ localID \in NodeID

VARIABLES
    buckets,            \* buckets[i]: the contacts in bucket i, oldest first
    addResult           \* history: the last contact given to Add and its result

routingVars == <<buckets, addResult>>

BucketIndex == 0 .. (IDBits - 1)
Contact == [id : NodeID, addr : ContactAddrs]

XOR(a, b) == [i \in 1 .. IDBits |-> (a[i] + b[i]) % 2]

\* The number of leading bits in which a and b agree.
PrefixLen(a, b) == CHOOSE n \in 0 .. IDBits :
    /\ \A i \in 1 .. n : XOR(a, b)[i] = 0
    /\ n < IDBits => XOR(a, b)[n + 1] = 1

\* The local identifier itself would be one past the last bucket.
bucketIdx(id) == LET n == PrefixLen(localID, id)
                 IN  IF n >= IDBits THEN IDBits - 1 ELSE n

RoutingTypeOK == /\ buckets \in [BucketIndex -> Seq(Contact)]
                 /\ addResult \in [id : NodeID, ok : BOOLEAN]

NewRoutingTable == /\ buckets = [i \in BucketIndex |-> <<>>]
                   /\ addResult = [id |-> localID, ok |-> FALSE]

-----------------------------------------------------------------------------
(* Add and Remove *)

\* Mutant: Add does not look for the contact in its bucket.
NeverFound(b, id) == {}

\* Where the loops over b.contacts stop: the first entry of id, if there is one.
FirstOf(b, id) ==
    {i \in DOMAIN buckets[b] :
        buckets[b][i].id = id /\ \A j \in 1 .. i - 1 : buckets[b][j].id # id}

\* b.contacts[i] = c
AddReplaces(c) ==
    LET b == bucketIdx(c.id) IN
    /\ c.id # localID
    /\ \E i \in FirstOf(b, c.id) : buckets' = [buckets EXCEPT ![b][i] = c]
    /\ addResult' = [id |-> c.id, ok |-> TRUE]

AddAppends(c) ==
    LET b == bucketIdx(c.id) IN
    /\ c.id # localID /\ FirstOf(b, c.id) = {}
    /\ Len(buckets[b]) < BucketSize
    /\ buckets' = [buckets EXCEPT ![b] = Append(@, c)]
    /\ addResult' = [id |-> c.id, ok |-> TRUE]

\* The local identifier, or a new contact for a full bucket.
AddRefuses(c) ==
    LET b == bucketIdx(c.id) IN
    /\ \/ c.id = localID
       \/ FirstOf(b, c.id) = {} /\ Len(buckets[b]) >= BucketSize
    /\ addResult' = [id |-> c.id, ok |-> FALSE]
    /\ UNCHANGED buckets

Add(c) == AddReplaces(c) \/ AddAppends(c) \/ AddRefuses(c)

Without(s, i) == SubSeq(s, 1, i - 1) \o SubSeq(s, i + 1, Len(s))

Remove(id) ==
    LET b == bucketIdx(id) IN
    /\ \E i \in FirstOf(b, id) : buckets' = [buckets EXCEPT ![b] = Without(@, i)]
    /\ UNCHANGED addResult

RoutingNext == \/ \E c \in Contact : Add(c)
               \/ \E id \in NodeID : Remove(id)

-----------------------------------------------------------------------------
(* FindClosest *)

\* Mutant: distances are taken from the local identifier.
CloserToLocal(a, b, target) ==
    \E i \in 1 .. IDBits : /\ XOR(a, localID)[i] < XOR(b, localID)[i]
                           /\ \A j \in 1 .. i - 1 : XOR(a, localID)[j] = XOR(b, localID)[j]

\* bytes.Compare of the two distances to target, byte after byte.
Closer(a, b, target) ==
    \E i \in 1 .. IDBits : /\ XOR(a, target)[i] < XOR(b, target)[i]
                           /\ \A j \in 1 .. i - 1 : XOR(a, target)[j] = XOR(b, target)[j]

\* The contacts of one bucket after the other.
AllContacts ==
    LET all[n \in 0 .. IDBits] == IF n = 0 THEN <<>> ELSE all[n - 1] \o buckets[n - 1]
    IN  all[IDBits]

\* sort.Slice: the place of an entry is the number of entries before it.  The
\* code leaves equals in any order, here they keep theirs.
Sorted(all, target) ==
    LET before(i, j) == \/ Closer(all[i].id, all[j].id, target)
                        \/ i < j /\ ~Closer(all[j].id, all[i].id, target)
        places == {<<i, Cardinality({j \in DOMAIN all : before(j, i)}) + 1>> : i \in DOMAIN all}
    IN  [k \in DOMAIN all |-> all[CHOOSE i \in DOMAIN all : <<i, k>> \in places]]

FindClosest(target, count) ==
    LET sorted == Sorted(AllContacts, target)
    IN  IF Len(AllContacts) > count THEN SubSeq(sorted, 1, count) ELSE sorted

-----------------------------------------------------------------------------
(* Properties *)

Contacts == UNION {{buckets[b][i] : i \in DOMAIN buckets[b]} : b \in BucketIndex}

Book == INSTANCE ContactBook WITH
          Ids <- NodeID, Local <- localID, Capacity <- BucketSize,
          Class <- [id \in NodeID |-> PrefixLen(localID, id)],
          Addresses <- ContactAddrs,
          book <- [id \in {c.id : c \in Contacts} |->
                     (CHOOSE c \in Contacts : c.id = id).addr],
          answer <- addResult

\* However contacts are added, added again and removed, the buckets are a book
\* of the last accepted addresses: a contact is refused only while BucketSize
\* others of its prefix length are known and not removed, one that is removed
\* is gone, and no call disturbs another contact.
ImplementsContactBook == Book!Spec

\* The distance of two identifiers as a number.
Distance(a, b) == LET value[i \in 0 .. IDBits] ==
                          IF i = 0 THEN 0 ELSE 2 * value[i - 1] + XOR(a, b)[i]
                  IN  value[IDBits]

\* FindClosest returns, nearest first, the contacts of all buckets with the
\* smallest distances to the target: as many as asked for, or all.
FindsClosest ==
    \A target \in NodeID, count \in 0 .. Cardinality(Contacts) + 1 :
       LET found == FindClosest(target, count)
           d(c) == Distance(c.id, target) IN
       /\ Len(found) = IF count < Cardinality(Contacts) THEN count ELSE Cardinality(Contacts)
       /\ \A i \in DOMAIN found : found[i] \in Contacts
       /\ \A i, j \in DOMAIN found : i < j => d(found[i]) < d(found[j])
       /\ \A c \in Contacts : \/ \E i \in DOMAIN found : found[i] = c
                              \/ \A i \in DOMAIN found : d(found[i]) < d(c)
=============================================================================
