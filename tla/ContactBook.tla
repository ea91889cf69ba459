---------------------------- MODULE ContactBook ----------------------------
(***************************************************************************)
(* What a routing table promises the code that feeds it contacts: a book   *)
(* of the last address accepted for each node, at most Capacity nodes of   *)
(* each distance class, where a node already known is always accepted and  *)
(* nothing but Forget makes room.  How the book is kept is not said.       *)
(***************************************************************************)
EXTENDS Integers, FiniteSets

CONSTANTS
    Ids, Local,         \* node identifiers, and the table's own
    Class,              \* Class[id]: the distance class of id
    Capacity,
    Addresses

VARIABLES
    book,               \* known node -> address
    answer              \* what the last offer was told

bookVars == <<book, answer>>

Known == DOMAIN book

Acceptable(id) ==
    /\ id # Local
    /\ id \in Known \/ Cardinality({j \in Known : Class[j] = Class[id]}) < Capacity

Init == book = [id \in {} |-> 0] /\ answer = [id |-> Local, ok |-> FALSE]

Offer(id, addr) ==
    /\ answer' = [id |-> id, ok |-> Acceptable(id)]
    /\ book' = IF Acceptable(id)
               THEN [j \in Known \cup {id} |-> IF j = id THEN addr ELSE book[j]]
               ELSE book

Forget(id) == /\ book' = [j \in Known \ {id} |-> book[j]]
              /\ UNCHANGED answer

Next == \E id \in Ids : Forget(id) \/ \E addr \in Addresses : Offer(id, addr)

Spec == Init /\ [][Next]_bookVars
=============================================================================
