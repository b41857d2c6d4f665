-------------------------- MODULE MCCallLifecycle --------------------------
(* Instances of CallLifecycle for TLC.                                     *)
EXTENDS CallLifecycle, TLC

\* Interchangeable session objects, requests of one kind and streams.
Symmetry == Permutations(SessionIds) \cup Permutations(Callbacks)
              \cup Permutations(CallSIDs) \cup Permutations(Streams)
=============================================================================
