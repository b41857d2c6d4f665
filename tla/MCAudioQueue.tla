---------------------------- MODULE MCAudioQueue ----------------------------
(* Instances of AudioQueue for TLC.                                        *)
EXTENDS AudioQueue, TLC

\* Writers are interchangeable.
Symmetry == Permutations(Writers)
=============================================================================
