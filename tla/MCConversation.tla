--------------------------- MODULE MCConversation ---------------------------
(* Instances of Conversation for TLC.                                      *)
EXTENDS Conversation, TLC

\* Spoken turns are interchangeable, and so are typed ones.
Symmetry == Permutations(Spoken) \cup Permutations(Typed)
=============================================================================
