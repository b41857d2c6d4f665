-------------------------- MODULE MCMediaTransport --------------------------
(* Instances of MediaTransport for TLC.                                    *)
EXTENDS MediaTransport, TLC

\* Connections, and closers, are interchangeable.
Symmetry == Permutations(Conns) \cup Permutations(Closers)
=============================================================================
