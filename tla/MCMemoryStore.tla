---------------------------- MODULE MCMemoryStore ----------------------------
(* Instances of MemoryStore for TLC.                                       *)
EXTENDS MemoryStore, TLC

\* IDs, contents and clients are interchangeable.
Symmetry == Permutations(Ids) \cup Permutations(Contents) \cup Permutations(Clients)
=============================================================================
