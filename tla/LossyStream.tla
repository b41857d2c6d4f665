---------------------------- MODULE LossyStream ----------------------------
(***************************************************************************)
(* What the audio towards Twilio is promised to be: a stream of chunks     *)
(* that may lose some of them but never reorders or repeats any, and never *)
(* keeps more than Bound of them waiting.  Chunks are numbered in the      *)
(* order in which they are accepted.                                       *)
(***************************************************************************)
EXTENDS Naturals, Sequences

CONSTANT Bound

VARIABLES
  accepted, \* chunks accepted so far
  waiting,  \* those neither delivered nor lost
  last      \* the chunk delivered last, 0 at first

vars == <<accepted, waiting, last>>

Init == accepted = 0 /\ waiting = <<>> /\ last = 0

Accept ==
  /\ Len(waiting) < Bound
  /\ accepted' = accepted + 1
  /\ waiting' = Append(waiting, accepted')
  /\ UNCHANGED last

Deliver ==
  /\ waiting # <<>>
  /\ last' = Head(waiting)
  /\ waiting' = Tail(waiting)
  /\ UNCHANGED accepted

\* The i-th of the waiting chunks is lost.
Lose(i) ==
  /\ waiting' = SubSeq(waiting, 1, i - 1) \o SubSeq(waiting, i + 1, Len(waiting))
  /\ UNCHANGED <<accepted, last>>

Next == Accept \/ Deliver \/ \E i \in 1 .. Len(waiting) : Lose(i)

Spec == Init /\ [][Next]_vars
=============================================================================
