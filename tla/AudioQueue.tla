----------------------------- MODULE AudioQueue -----------------------------
(***************************************************************************)
(* Audio from the application to Twilio in the Media Streams transport     *)
(* (omnivoice/transport): audioWriter, whose Write drops the oldest chunk  *)
(* when its channel is full, the connection's writeLoop and the two ways   *)
(* the queue ends, AudioIn().Close and Connection.Close.                   *)
(***************************************************************************)
EXTENDS Naturals, Sequences

CONSTANTS
  Writers,   \* application goroutines that write audio
  Cap,       \* capacity of audioWriter.ch (100 in the code)
  MaxWrites, \* bound: chunks written
  None

ASSUME CapAssumption == Cap \in Nat \ {0} /\ MaxWrites \in Nat
ASSUME NoneAssumption == None \notin Writers

VARIABLES
  wmu,      \* audioWriter.mu: the writer that holds it, or None
  pc,       \* per writer: its place in Write
  accepted, \* chunks that have been given to Write so far; also the latest one
  ch,       \* audioWriter.ch
  closed,   \* audioWriter.closed, and the channel with it
  ended,    \* Connection.closed and done
  loop,     \* writeLoop: at its select, with a chunk in hand, past its check of
            \* closed, or over
  hand,     \* what it has received: a chunk, or 0 from the closed channel
  last,     \* the chunk Twilio got last
  dropped,  \* chunks Write has thrown away
  hollow    \* Twilio has been sent a media message without audio

writer == <<wmu, pc, accepted>>
twilio == <<last, hollow>>
vars   == <<writer, ch, closed, ended, loop, hand, twilio, dropped>>

TypeOK ==
  /\ wmu \in Writers \cup {None}
  /\ pc \in [Writers -> {"idle", "try", "drop", "resend"}]
  /\ accepted \in Nat
  /\ ch \in Seq(Nat) /\ Len(ch) <= Cap
  /\ closed \in BOOLEAN
  /\ ended \in BOOLEAN
  /\ loop \in {"select", "holding", "checked", "over"}
  /\ hand \in Nat
  /\ last \in Nat
  /\ dropped \subseteq Nat
  /\ hollow \in BOOLEAN

Init ==
  /\ wmu = None
  /\ pc = [w \in Writers |-> "idle"]
  /\ accepted = 0
  /\ ch = <<>>
  /\ closed = FALSE
  /\ ended = FALSE
  /\ loop = "select"
  /\ hand = 0
  /\ last = 0
  /\ dropped = {}
  /\ hollow = FALSE

----------------------------------------------------------------------------
(* audioWriter.Write, under w.mu; the write loop takes from the channel    *)
(* without it.                                                             *)

\* Mutant: Write without the lock.
WriteUnlocked(w) ==
  /\ pc[w] = "idle"
  /\ ~closed
  /\ accepted < MaxWrites
  /\ wmu' = w
  /\ accepted' = accepted + 1
  /\ pc' = [pc EXCEPT ![w] = "try"]
  /\ UNCHANGED <<ch, closed, ended, loop, hand, twilio, dropped>>

\* A write to a closed queue is refused.
Write(w) ==
  /\ pc[w] = "idle"
  /\ wmu = None
  /\ ~closed
  /\ accepted < MaxWrites
  /\ wmu' = w
  /\ accepted' = accepted + 1
  /\ pc' = [pc EXCEPT ![w] = "try"]
  /\ UNCHANGED <<ch, closed, ended, loop, hand, twilio, dropped>>

\* The chunk goes in and Write returns.
Send(w) ==
  /\ Len(ch) < Cap
  /\ ch' = Append(ch, accepted)
  /\ wmu' = None
  /\ pc' = [pc EXCEPT ![w] = "idle"]
  /\ UNCHANGED <<accepted, closed, ended, loop, hand, twilio, dropped>>

TrySend(w) ==
  /\ pc[w] = "try"
  /\ \/ Send(w)
     \/ /\ Len(ch) = Cap
        /\ pc' = [pc EXCEPT ![w] = "drop"]
        /\ UNCHANGED <<wmu, accepted, ch, closed, ended, loop, hand, twilio, dropped>>

\* Mutant: the newest chunk waiting is thrown away.
DropNewest(w) ==
  /\ pc[w] = "drop"
  /\ pc' = [pc EXCEPT ![w] = "resend"]
  /\ ch' = SubSeq(ch, 1, Len(ch) - 1)
  /\ dropped' = IF ch = <<>> THEN dropped ELSE dropped \cup {ch[Len(ch)]}
  /\ UNCHANGED <<wmu, accepted, closed, ended, loop, hand, twilio>>

\* The oldest chunk is thrown away, if the write loop has left one.
DropOldest(w) ==
  /\ pc[w] = "drop"
  /\ pc' = [pc EXCEPT ![w] = "resend"]
  /\ IF ch = <<>>
     THEN UNCHANGED <<ch, dropped>>
     ELSE ch' = Tail(ch) /\ dropped' = dropped \cup {Head(ch)}
  /\ UNCHANGED <<wmu, accepted, closed, ended, loop, hand, twilio>>

\* A plain, blocking send.
Resend(w) == pc[w] = "resend" /\ Send(w)

----------------------------------------------------------------------------
(* The queue's end                                                         *)

\* audioWriter.Close, by the application or by Connection.Close.
CloseQueue ==
  /\ wmu = None
  /\ closed' = TRUE
  /\ UNCHANGED <<writer, ch, ended, loop, hand, twilio, dropped>>

\* Connection.Close begins: closed is set and done closed; the queue follows.
EndConnection ==
  /\ ended' = TRUE
  /\ UNCHANGED <<writer, ch, closed, loop, hand, twilio, dropped>>

----------------------------------------------------------------------------
(* Connection.writeLoop                                                    *)

\* The select takes a chunk, or from the closed, drained channel a nil one, ...
Take ==
  /\ loop = "select"
  /\ loop' = "holding"
  /\ \/ /\ ch # <<>>
        /\ hand' = Head(ch)
        /\ ch' = Tail(ch)
     \/ /\ ch = <<>> /\ closed
        /\ hand' = 0
        /\ UNCHANGED ch
  /\ UNCHANGED <<writer, closed, ended, twilio, dropped>>

\* ... or done, at random when both are ready.
LoopEnd ==
  /\ loop = "select"
  /\ ended
  /\ loop' = "over"
  /\ UNCHANGED <<writer, ch, closed, ended, hand, twilio, dropped>>

CheckClosed ==
  /\ loop = "holding"
  /\ loop' = IF ended THEN "select" ELSE "checked"
  /\ hand' = IF ended THEN 0 ELSE hand
  /\ UNCHANGED <<writer, ch, closed, ended, twilio, dropped>>

\* Mutant: a write that may be made again.
WriteTwice ==
  /\ loop = "checked"
  /\ last' = hand
  /\ loop' \in {"select", "checked"}
  /\ UNCHANGED <<writer, ch, closed, ended, hand, dropped, hollow>>

\* WriteJSON; the connection may have been closed since the check.
WriteOut ==
  /\ loop = "checked"
  /\ IF hand = 0
     THEN hollow' = TRUE /\ UNCHANGED last
     ELSE last' = hand /\ UNCHANGED hollow
  /\ loop' = "select"
  /\ hand' = 0
  /\ UNCHANGED <<writer, ch, closed, ended, dropped>>

\* A write error ends the loop.
WriteFail ==
  /\ loop = "checked"
  /\ loop' = "over"
  /\ hand' = 0
  /\ UNCHANGED <<writer, ch, closed, ended, twilio, dropped>>

----------------------------------------------------------------------------
WriterStep(w) == TrySend(w) \/ DropOldest(w) \/ Resend(w)
LoopStep      == Take \/ LoopEnd \/ CheckClosed \/ WriteOut \/ WriteFail

Next ==
  \/ \E w \in Writers : Write(w) \/ WriterStep(w)
  \/ LoopStep \/ CloseQueue \/ EndConnection

Spec == Init /\ [][Next]_vars

\* Only the writers need to run: the write loop may be stuck in the socket.
FairSpec == Spec /\ \A w \in Writers : WF_vars(WriterStep(w))

----------------------------------------------------------------------------
(* Properties                                                              *)

\* The blocking send of Write (provider.go:472) never blocks, though it is
\* made with w.mu held and the loop may be dead: one chunk has just left, and
\* no other writer can have taken its place.
ResendHasRoom == \A w \in Writers : pc[w] = "resend" => Len(ch) < Cap

\* A writer inside Write never meets a channel that has been closed.
SendFindsOpenQueue == \A w \in Writers : pc[w] # "idle" => ~closed

\* Their inductive strengthening: whoever is inside Write holds the lock.
QueueInv ==
  /\ TypeOK
  /\ ResendHasRoom
  /\ SendFindsOpenQueue
  /\ \A w \in Writers : pc[w] # "idle" => wmu = w

\* Every call of Write returns, with no help from the write loop.
WriteReturns == \A w \in Writers : pc[w] # "idle" ~> pc[w] = "idle"

\* The oldest goes first: what Write throws away is older than all that waits.
DropsOldest == \A d \in dropped, i \in 1 .. Len(ch) : d < ch[i]

\* The implementation of LossyStream: the chunk in the hands of the write
\* loop, those in the channel and the one in the hands of a writer wait.
Waiting ==
  (IF hand = 0 THEN <<>> ELSE <<hand>>)
    \o ch \o (IF wmu = None THEN <<>> ELSE <<accepted>>)

Stream == INSTANCE LossyStream WITH Bound <- Cap + 2, waiting <- Waiting

ImplementsLossyStream == Stream!Spec

\* "Buffer full, drop oldest" (provider.go:467): a chunk is thrown away only
\* while the queue is full.
DropsOnlyWhenFull == [][dropped' # dropped => Len(ch) = Cap]_vars

\* "writeLoop writes audio to the WebSocket." (provider.go:386): what it sends
\* carries audio.
WritesOnlyAudio == ~hollow

=============================================================================
