--------------------------- MODULE MCEntryLoader ---------------------------
(* A small instance of EntryLoader: each value belongs to its own device.  *)
EXTENDS EntryLoader, TLC

OwnDevice == [v \in Values |-> v]

Symmetry == Permutations(Chunks)
=============================================================================
