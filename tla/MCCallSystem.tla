---------------------------- MODULE MCCallSystem ----------------------------
(* Instances of CallSystem for TLC.                                        *)
EXTENDS CallSystem, TLC

\* Calls, Call objects, callbacks and users are interchangeable.
Symmetry == Permutations(CallSIDs) \cup Permutations(CallIds)
              \cup Permutations(Callbacks) \cup Permutations(Users)
=============================================================================
