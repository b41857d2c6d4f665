---------------------------- MODULE KeptMemories ----------------------------
(***************************************************************************)
(* What a store of memories is promised to be: a memory has one content,   *)
(* which may change as long as the memory is kept.  One that is forgotten  *)
(* stays so, and its user is told.                                         *)
(***************************************************************************)
CONSTANTS Memories, Contents, None

VARIABLES
  text,  \* the content of each memory, None if it is not kept
  known, \* memories that have been kept
  told   \* memories whose user has been told of a deletion or an error

vars == <<text, known, told>>

Init ==
  /\ text = [m \in Memories |-> None]
  /\ known = {}
  /\ told = {}

Keep(m, t) ==
  /\ m \notin known
  /\ known' = known \cup {m}
  /\ text' = [text EXCEPT ![m] = t]
  /\ UNCHANGED told

Change(m, t) ==
  /\ text[m] # None
  /\ text' = [text EXCEPT ![m] = t]
  /\ UNCHANGED <<known, told>>

Forget(m) ==
  /\ text[m] # None
  /\ text' = [text EXCEPT ![m] = None]
  /\ told' = told \cup {m}
  /\ UNCHANGED known

Tell(m) ==
  /\ m \in known
  /\ told' = told \cup {m}
  /\ UNCHANGED <<text, known>>

Next == \E m \in Memories :
  \/ \E t \in Contents : Keep(m, t) \/ Change(m, t)
  \/ Forget(m)
  \/ Tell(m)

Spec == Init /\ [][Next]_vars
=============================================================================
