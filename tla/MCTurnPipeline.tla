--------------------------- MODULE MCTurnPipeline ---------------------------
(* Instances of TurnPipeline for TLC.                                      *)
EXTENDS TurnPipeline, TLC

\* Turns of one kind are interchangeable.
Symmetry == Permutations(Spoken) \cup Permutations(Typed)
=============================================================================
