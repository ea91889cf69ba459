------------------------------ MODULE MCAldea ------------------------------
(* Small instances of Aldea for TLC. *)
EXTENDS Aldea, TLC

OneChunk == [f \in Files |-> 1]
TwoChunks == [f \in Files |-> 2]

\* Every node with the same allocation: the tracker may pick any of them.
SameAllocation == [n \in Nodes |-> 1]

\* Nodes with the same allocation are interchangeable, and so are repairers.
Symmetric == Permutations(Nodes) \cup Permutations(Repairers)
=============================================================================
