-------------------------- MODULE AudioQueueProofs --------------------------
(* Theorems about AudioQueue, for any number of writers and any capacity.  *)
EXTENDS AudioQueue, SequenceTheorems, TLAPS

\* Initially nobody writes.
LEMMA InvInit == Init => QueueInv
<1> SUFFICES ASSUME Init PROVE QueueInv
  OBVIOUS
<1>1. ch \in Seq(Nat) /\ Len(ch) <= Cap
  BY CapAssumption DEF Init
<1>2. TypeOK
  BY <1>1 DEF Init, TypeOK
<1> QED  BY <1>2 DEF Init, QueueInv, ResendHasRoom, SendFindsOpenQueue

\* Taking the head of a waiting queue makes room.
LEMMA TailShorter ==
  ASSUME NEW s \in Seq(Nat), s # <<>>
  PROVE  Tail(s) \in Seq(Nat) /\ Len(Tail(s)) = Len(s) - 1 /\ Len(s) > 0 /\ Head(s) \in Nat
BY EmptySeq, HeadTailProperties

\* Taking the lock keeps the invariant: it was free, so nobody was inside.
LEMMA WriteInv ==
  ASSUME QueueInv, NEW w \in Writers, Write(w)
  PROVE  QueueInv'
BY NoneAssumption DEF Write, QueueInv, TypeOK, ResendHasRoom, SendFindsOpenQueue, twilio

\* A chunk put into the channel: the sender leaves, and only it was inside.
LEMMA SendInv ==
  ASSUME QueueInv, NEW w \in Writers, pc[w] # "idle", Send(w)
  PROVE  QueueInv'
<1>1. ch' \in Seq(Nat) /\ Len(ch') = Len(ch) + 1
  BY DEF Send, QueueInv, TypeOK
<1>2. \A v \in Writers : pc'[v] = "idle"
  BY DEF Send, QueueInv, TypeOK
<1>3. TypeOK'
  BY <1>1, CapAssumption DEF Send, QueueInv, TypeOK, twilio
<1> QED  BY <1>2, <1>3 DEF QueueInv, ResendHasRoom, SendFindsOpenQueue

\* The other steps of a writer.
LEMMA DropInv ==
  ASSUME QueueInv, NEW w \in Writers, TrySend(w) \/ DropOldest(w) \/ Resend(w)
  PROVE  QueueInv'
<1>1. CASE Send(w) /\ pc[w] # "idle"
  BY <1>1, SendInv
<1>2. CASE TrySend(w) /\ ~Send(w)
  <2>1. /\ pc[w] = "try" /\ pc' = [pc EXCEPT ![w] = "drop"]
        /\ UNCHANGED <<wmu, accepted, ch, closed, ended, loop, hand, twilio, dropped>>
    BY <1>2 DEF TrySend
  <2>2. TypeOK'
    BY <2>1 DEF QueueInv, TypeOK, twilio
  <2> QED  BY <2>1, <2>2 DEF QueueInv, TypeOK, ResendHasRoom, SendFindsOpenQueue
<1>3. CASE DropOldest(w)
  <2>1. /\ ch' \in Seq(Nat) /\ Len(ch') < Cap
        /\ dropped' \subseteq Nat
    <3>1. ch \in Seq(Nat) /\ Len(ch) <= Cap /\ Len(ch) \in Nat /\ dropped \subseteq Nat
      BY DEF QueueInv, TypeOK
    <3>2. CASE ch = <<>>
      <4>1. UNCHANGED <<ch, dropped>>
        BY <1>3, <3>2 DEF DropOldest
      <4>2. Len(ch) = 0
        BY <3>2
      <4> QED  BY <3>1, <4>1, <4>2, CapAssumption
    <3>3. CASE ch # <<>>
      <4>1. ch' = Tail(ch) /\ dropped' = dropped \cup {Head(ch)}
        BY <1>3, <3>3 DEF DropOldest
      <4>2. /\ Tail(ch) \in Seq(Nat) /\ Len(Tail(ch)) = Len(ch) - 1
            /\ Head(ch) \in Nat
        BY <3>1, <3>3, TailShorter
      <4>3. Len(ch') < Cap
        BY <3>1, <4>1, <4>2, CapAssumption
      <4> QED  BY <3>1, <4>1, <4>2, <4>3
    <3> QED  BY <3>2, <3>3
  <2>2. TypeOK'
    <3>1. UNCHANGED <<wmu, accepted, closed, ended, loop, hand, twilio>>
      BY <1>3 DEF DropOldest
    <3>2. pc' \in [Writers -> {"idle", "try", "drop", "resend"}]
      BY <1>3 DEF DropOldest, QueueInv, TypeOK
    <3>3. Len(ch') <= Cap
      BY <2>1, CapAssumption
    <3> QED  BY <2>1, <3>1, <3>2, <3>3 DEF QueueInv, TypeOK, twilio
  <2>3. UNCHANGED <<wmu, closed>> /\ pc[w] = "drop" /\ pc' = [pc EXCEPT ![w] = "resend"]
    BY <1>3 DEF DropOldest
  <2> QED  BY <2>1, <2>2, <2>3 DEF QueueInv, TypeOK, ResendHasRoom, SendFindsOpenQueue
<1> QED  BY <1>1, <1>2, <1>3 DEF TrySend, Resend

\* The queue's end waits for the writer inside.
LEMMA EndInv ==
  ASSUME QueueInv, CloseQueue \/ EndConnection
  PROVE  QueueInv'
<1>1. UNCHANGED <<writer, ch, loop, hand, twilio, dropped>>
  BY DEF CloseQueue, EndConnection
<1>2. closed' \in BOOLEAN /\ ended' \in BOOLEAN
  BY DEF CloseQueue, EndConnection, QueueInv, TypeOK
<1>3. TypeOK'
  BY <1>1, <1>2 DEF QueueInv, TypeOK, writer, twilio
<1>4. SendFindsOpenQueue'
  <2>1. CASE wmu = None
    BY <1>1, <2>1, NoneAssumption DEF QueueInv, SendFindsOpenQueue, writer
  <2>2. CASE UNCHANGED closed
    BY <1>1, <2>2 DEF QueueInv, SendFindsOpenQueue, writer
  <2> QED  BY <2>1, <2>2 DEF CloseQueue, EndConnection
<1> QED  BY <1>1, <1>3, <1>4 DEF QueueInv, ResendHasRoom, writer

\* The write loop only takes chunks out.
LEMMA LoopInv ==
  ASSUME QueueInv, LoopStep
  PROVE  QueueInv'
<1>1. UNCHANGED <<writer, closed, ended, dropped>>
  BY DEF LoopStep, Take, LoopEnd, CheckClosed, WriteOut, WriteFail
<1>2. /\ ch \in Seq(Nat) /\ Len(ch) \in Nat
      /\ hand \in Nat /\ last \in Nat /\ hollow \in BOOLEAN
      /\ loop \in {"select", "holding", "checked", "over"}
  BY DEF QueueInv, TypeOK
<1>3. /\ ch' \in Seq(Nat) /\ Len(ch') <= Len(ch)
      /\ hand' \in Nat /\ last' \in Nat /\ hollow' \in BOOLEAN
      /\ loop' \in {"select", "holding", "checked", "over"}
  <2>1. CASE Take /\ ch # <<>>
    <3>1. /\ hand' = Head(ch) /\ ch' = Tail(ch) /\ UNCHANGED twilio
          /\ loop' = "holding"
      BY <2>1 DEF Take
    <3> QED  BY <1>2, <2>1, <3>1, TailShorter DEF twilio
  <2>2. CASE Take /\ ch = <<>>
    BY <1>2, <2>2 DEF Take, twilio
  <2>3. CASE LoopEnd \/ CheckClosed \/ WriteFail
    <3>1. UNCHANGED <<ch, twilio>> /\ hand' \in {hand, 0}
      BY <2>3 DEF LoopEnd, CheckClosed, WriteFail
    <3>2. loop' \in {"select", "checked", "over"}
      BY <2>3 DEF LoopEnd, CheckClosed, WriteFail
    <3> QED  BY <1>2, <3>1, <3>2 DEF twilio
  <2>4. CASE WriteOut
    <3>1. ch' = ch /\ hand' = 0 /\ loop' = "select"
      BY <2>4 DEF WriteOut
    <3>2. last' \in {last, hand}
      BY <2>4 DEF WriteOut
    <3>3. hollow' \in BOOLEAN
      BY <1>2, <2>4 DEF WriteOut
    <3> QED  BY <1>2, <3>1, <3>2, <3>3
  <2> QED  BY <2>1, <2>2, <2>3, <2>4 DEF LoopStep
<1>4. Len(ch) <= Cap /\ Len(ch') \in Nat
  BY <1>3 DEF QueueInv, TypeOK
<1>5. TypeOK'
  BY <1>1, <1>2, <1>3, <1>4, CapAssumption DEF QueueInv, TypeOK, writer
<1>6. ResendHasRoom'
  BY <1>1, <1>2, <1>3, <1>4, CapAssumption DEF QueueInv, ResendHasRoom, writer
<1> QED  BY <1>1, <1>5, <1>6 DEF QueueInv, SendFindsOpenQueue, writer

\* Every step keeps the invariant.
LEMMA InvStep == QueueInv /\ [Next]_vars => QueueInv'
<1> SUFFICES ASSUME QueueInv, [Next]_vars PROVE QueueInv'
  OBVIOUS
<1>1. CASE UNCHANGED vars
  BY <1>1 DEF vars, writer, twilio, QueueInv, TypeOK, ResendHasRoom, SendFindsOpenQueue
<1> QED  BY <1>1, WriteInv, DropInv, EndInv, LoopInv DEF Next, WriterStep

\* The blocking send of Write always finds room, for any number of writers:
\* the drop before it and the lock around both guarantee it.
THEOREM ResendNeverBlocks == Spec => []ResendHasRoom
<1>1. QueueInv => ResendHasRoom
  BY DEF QueueInv
<1> QED  BY <1>1, InvInit, InvStep, PTL DEF Spec

\* The invariant: types, room, an open channel, and mutual exclusion.
THEOREM QueueCorrect == Spec => []QueueInv
BY InvInit, InvStep, PTL DEF Spec
----------------------------------------------------------------------------
(* The order of the chunks                                                 *)

\* A chunk that is out of its writer's hands.
Past(n) == n \in 1 .. accepted /\ (wmu # None => n < accepted)

\* What is queued is in order, and so is what has been dropped of it.
OrderInv ==
  /\ QueueInv
  /\ wmu # None => accepted > 0
  /\ \A i \in 1 .. Len(ch) : Past(ch[i])
  /\ \A d \in dropped : Past(d)
  /\ \A i, j \in 1 .. Len(ch) : i < j => ch[i] < ch[j]
  /\ DropsOldest
  /\ loop \in {"select", "over"} => hand = 0

\* The head of an ordered queue is older than its tail, which stays ordered.
LEMMA TailOrdered ==
  ASSUME NEW s \in Seq(Nat), s # <<>>,
         \A i, j \in 1 .. Len(s) : i < j => s[i] < s[j]
  PROVE  /\ Tail(s) \in Seq(Nat) /\ Len(Tail(s)) = Len(s) - 1
         /\ Len(s) \in Nat /\ Len(s) > 0 /\ Head(s) = s[1]
         /\ \A i \in 1 .. Len(Tail(s)) : i + 1 \in 1 .. Len(s) /\ Tail(s)[i] = s[i + 1]
         /\ \A i, j \in 1 .. Len(Tail(s)) : i < j => Tail(s)[i] < Tail(s)[j]
         /\ \A i \in 1 .. Len(Tail(s)) : Head(s) < Tail(s)[i]
<1>1. /\ Tail(s) \in Seq(Nat) /\ Len(Tail(s)) = Len(s) - 1
      /\ \A i \in 1 .. Len(Tail(s)) : Tail(s)[i] = s[i + 1]
  BY HeadTailProperties
<1>2. Len(s) \in Nat /\ Len(s) > 0 /\ Head(s) = s[1]
  BY EmptySeq
<1>3. \A i \in 1 .. Len(Tail(s)) : i + 1 \in 1 .. Len(s)
  BY <1>1, <1>2
<1> QED  BY <1>1, <1>2, <1>3

\* What an ordered queue is after a chunk has left it at its head.
LEMMA TakenOrder ==
  ASSUME OrderInv, ch # <<>>, ch' = Tail(ch), UNCHANGED <<wmu, accepted>>,
         dropped' = dropped \/ dropped' = dropped \cup {Head(ch)}
  PROVE  /\ \A i \in 1 .. Len(ch') : Past(ch[i + 1]) /\ ch'[i] = ch[i + 1]
         /\ (\A i \in 1 .. Len(ch) : Past(ch[i]))'
         /\ \A d \in dropped' : Past(d)'
         /\ \A i, j \in 1 .. Len(ch') : i < j => ch'[i] < ch'[j]
         /\ DropsOldest'
         /\ Head(ch) \in 1 .. accepted
<1>1. ch \in Seq(Nat) /\ accepted \in Nat /\ dropped \subseteq Nat
  BY DEF OrderInv, QueueInv, TypeOK
<1>2. /\ Len(ch) \in Nat /\ Len(ch) > 0 /\ Head(ch) = ch[1] /\ Len(ch') = Len(ch) - 1
      /\ \A i \in 1 .. Len(ch') : i + 1 \in 1 .. Len(ch) /\ ch'[i] = ch[i + 1]
      /\ \A i, j \in 1 .. Len(ch') : i < j => ch'[i] < ch'[j]
      /\ \A i \in 1 .. Len(ch') : Head(ch) < ch'[i]
  BY <1>1, TailOrdered DEF OrderInv
<1>3. Past(Head(ch))
  BY <1>2 DEF OrderInv
<1>4. \A i \in 1 .. Len(ch') : Past(ch[i + 1]) /\ ch'[i] = ch[i + 1]
  BY <1>2 DEF OrderInv
<1>5. /\ (\A i \in 1 .. Len(ch) : Past(ch[i]))'
      /\ \A d \in dropped' : Past(d)'
  BY <1>3, <1>4 DEF OrderInv, Past
<1>6. DropsOldest'
  BY <1>2 DEF OrderInv, DropsOldest
<1> QED  BY <1>2, <1>3, <1>4, <1>5, <1>6 DEF Past

\* Write's chunk is younger than all that have been accepted before it.
LEMMA AcceptOrder ==
  ASSUME OrderInv, NEW w \in Writers, Write(w)
  PROVE  OrderInv'
<1>1. QueueInv'
  BY WriteInv DEF OrderInv
<1>2. /\ wmu = None /\ accepted' = accepted + 1 /\ accepted \in Nat
      /\ UNCHANGED <<ch, dropped, loop, hand>>
  BY DEF Write, OrderInv, QueueInv, TypeOK
<1>3. \A n : Past(n) => Past(n)'
  BY <1>2 DEF Past
<1> QED  BY <1>1, <1>2, <1>3 DEF OrderInv, DropsOldest

\* A chunk sent is younger than all in the channel.
LEMMA SendOrder ==
  ASSUME OrderInv, NEW w \in Writers, pc[w] # "idle", Send(w)
  PROVE  OrderInv'
<1>1. QueueInv'
  BY SendInv DEF OrderInv
<1>2. /\ wmu # None /\ wmu' = None /\ ch' = Append(ch, accepted)
      /\ UNCHANGED <<accepted, dropped, loop, hand>>
      /\ ch \in Seq(Nat) /\ accepted \in Nat /\ Len(ch) \in Nat /\ dropped \subseteq Nat
  BY NoneAssumption DEF Send, OrderInv, QueueInv, TypeOK
<1>3. /\ Len(ch') = Len(ch) + 1 /\ ch'[Len(ch) + 1] = accepted
      /\ \A i \in 1 .. Len(ch) : ch'[i] = ch[i] /\ ch[i] \in Nat
  BY <1>2, AppendProperties
<1>4. \A n : Past(n) => Past(n)' /\ n < accepted
  BY <1>2 DEF Past
<1>5. /\ (\A i \in 1 .. Len(ch) : Past(ch[i]))'
      /\ \A d \in dropped' : Past(d)'
  BY <1>2, <1>3, <1>4 DEF OrderInv, Past
<1>6. ASSUME NEW i \in 1 .. Len(ch'), NEW j \in 1 .. Len(ch'), i < j
      PROVE  ch'[i] < ch'[j]
  <2>1. i \in 1 .. Len(ch) /\ ch'[i] = ch[i] /\ ch[i] < accepted
    BY <1>2, <1>3, <1>4, <1>6 DEF OrderInv
  <2>2. CASE j = Len(ch) + 1
    BY <1>3, <2>1, <2>2
  <2>3. CASE j \in 1 .. Len(ch)
    BY <1>3, <1>6, <2>1, <2>3 DEF OrderInv
  <2> QED  BY <1>2, <1>3, <2>2, <2>3
<1>7. DropsOldest'
  BY <1>2, <1>3, <1>4 DEF OrderInv, DropsOldest
<1> QED  BY <1>1, <1>2, <1>5, <1>6, <1>7 DEF OrderInv

\* A writer's further steps.
LEMMA WriterOrder ==
  ASSUME OrderInv, NEW w \in Writers, WriterStep(w)
  PROVE  OrderInv'
<1>1. QueueInv'
  BY DropInv DEF OrderInv, WriterStep
<1>2. CASE Send(w) /\ pc[w] # "idle"
  BY <1>2, SendOrder
<1>3. CASE (TrySend(w) /\ ~Send(w)) \/ (DropOldest(w) /\ ch = <<>>)
  <2>1. UNCHANGED <<wmu, accepted, ch, dropped, loop, hand>>
    BY <1>3 DEF TrySend, DropOldest
  <2> QED  BY <1>1, <2>1 DEF OrderInv, DropsOldest, Past
<1>4. CASE DropOldest(w) /\ ch # <<>>
  <2>1. /\ UNCHANGED <<wmu, accepted, loop, hand>>
        /\ ch' = Tail(ch) /\ dropped' = dropped \cup {Head(ch)}
    BY <1>4 DEF DropOldest
  <2> QED  BY <1>1, <1>4, <2>1, TakenOrder DEF OrderInv
<1> QED  BY <1>2, <1>3, <1>4 DEF WriterStep, TrySend, Resend

\* The write loop takes the oldest, or nothing.
LEMMA LoopOrder ==
  ASSUME OrderInv, LoopStep
  PROVE  OrderInv'
<1>1. QueueInv' /\ UNCHANGED <<wmu, accepted, dropped>>
  BY LoopInv DEF OrderInv, LoopStep, Take, LoopEnd, CheckClosed, WriteOut, WriteFail, writer
<1>2. loop' \in {"select", "over"} => hand' = 0
  BY DEF OrderInv, LoopStep, Take, LoopEnd, CheckClosed, WriteOut, WriteFail
<1>3. CASE ch' = ch
  BY <1>1, <1>2, <1>3 DEF OrderInv, DropsOldest, Past
<1>4. CASE ch # <<>> /\ ch' = Tail(ch)
  BY <1>1, <1>2, <1>4, TakenOrder DEF OrderInv
<1> QED  BY <1>3, <1>4 DEF LoopStep, Take, LoopEnd, CheckClosed, WriteOut, WriteFail

\* OrderInv is an invariant.
LEMMA OrderInvariant == Spec => []OrderInv
<1>1. Init => OrderInv
  BY InvInit DEF Init, OrderInv, DropsOldest
<1>2. OrderInv /\ [Next]_vars => OrderInv'
  <2> SUFFICES ASSUME OrderInv, [Next]_vars PROVE OrderInv'
    OBVIOUS
  <2>1. CASE UNCHANGED <<wmu, accepted, ch, dropped, loop, hand>>
    <3>1. QueueInv'
      BY InvStep DEF OrderInv
    <3> QED  BY <2>1, <3>1 DEF OrderInv, DropsOldest, Past
  <2>2. CASE CloseQueue \/ EndConnection \/ UNCHANGED vars
    BY <2>1, <2>2 DEF CloseQueue, EndConnection, vars, writer
  <2> QED  BY <2>2, AcceptOrder, WriterOrder, LoopOrder DEF Next
<1> QED  BY <1>1, <1>2, PTL DEF Spec

\* What Write throws away is older than all that waits, for any number of
\* writers, any capacity, and a write loop that takes between its attempts.
THEOREM OldestGoFirst == Spec => []DropsOldest
<1>1. OrderInv => DropsOldest
  BY DEF OrderInv
<1> QED  BY <1>1, OrderInvariant, PTL

----------------------------------------------------------------------------
(* The refinement                                                          *)

\* The first chunk of the second part of a sequence leaves it.
LEMMA LoseAt ==
  ASSUME NEW a \in Seq(Nat), NEW b \in Seq(Nat), b # <<>>,
         NEW k, k = Len(a) + 1
  PROVE  /\ k \in 1 .. Len(a \o b)
         /\ a \o Tail(b) =
              SubSeq(a \o b, 1, k - 1) \o SubSeq(a \o b, k + 1, Len(a \o b))
<1>1. /\ Len(a) \in Nat /\ Len(b) \in Nat /\ Len(b) > 0
      /\ Len(a \o b) = Len(a) + Len(b)
  BY EmptySeq, ConcatProperties
<1>2. SubSeq(a \o b, 1, Len(a)) = a
  <2>1. CASE Len(a) = 0
    <3>1. SubSeq(a \o b, 1, 0) = <<>>
      BY SubSeqEmpty
    <3>2. a = <<>>
      BY <2>1, EmptySeq
    <3> QED  BY <2>1, <3>1, <3>2
  <2>2. CASE Len(a) # 0
    <3>1. 1 \in 1 .. Len(a) /\ Len(a) \in 1 .. Len(a)
      BY <1>1, <2>2
    <3>2. SubSeq(a \o b, 1, Len(a)) = SubSeq(a, 1, Len(a))
      BY <3>1, SubSeqOfConcat1
    <3>3. SubSeq(a, 1, Len(a)) = a
      BY SubSeqFull
    <3> QED  BY <3>2, <3>3
  <2> QED  BY <2>1, <2>2
<1>3. SubSeq(a \o b, Len(a) + 2, Len(a) + Len(b)) = Tail(b)
  <2>1. Tail(b) = SubSeq(b, 2, Len(b))
    BY TailIsSubSeq
  <2>2. CASE Len(b) = 1
    <3>1. SubSeq(a \o b, Len(a) + 2, Len(a) + Len(b)) = <<>>
      BY <1>1, <2>2, SubSeqEmpty
    <3>2. SubSeq(b, 2, Len(b)) = <<>>
      BY <1>1, <2>2, SubSeqEmpty
    <3> QED  BY <2>1, <3>1, <3>2
  <2>3. CASE Len(b) # 1
    <3> PICK x, y \in Nat : x = Len(a) /\ y = Len(b)
      BY <1>1
    <3>1. /\ x + 2 \in x + 1 .. x + y /\ x + y \in x + 1 .. x + y
          /\ (x + 2) - x = 2 /\ (x + y) - x = y
      BY <1>1, <2>3
    <3>2. SubSeq(a \o b, x + 2, x + y) = SubSeq(b, (x + 2) - x, (x + y) - x)
      BY <3>1, SubSeqOfConcat2
    <3> QED  BY <2>1, <3>1, <3>2
  <2> QED  BY <2>2, <2>3
<1>4. k - 1 = Len(a) /\ k + 1 = Len(a) + 2 /\ k \in 1 .. Len(a \o b)
  BY <1>1
<1> QED  BY <1>1, <1>2, <1>3, <1>4

\* The same as a fact about every two sequences: LosesAt says that the place k
\* of the whole is the one that the second part's head leaves.
LosesAt(a, b, k) ==
  /\ k \in 1 .. Len(a \o b)
  /\ a \o Tail(b) =
       SubSeq(a \o b, 1, k - 1) \o SubSeq(a \o b, k + 1, Len(a \o b))

LEMMA Losing ==
  \A a, b \in Seq(Nat) : b # <<>> => LosesAt(a, b, Len(a) + 1)
<1> SUFFICES ASSUME NEW a \in Seq(Nat), NEW b \in Seq(Nat), b # <<>>
             PROVE  LosesAt(a, b, Len(a) + 1)
  OBVIOUS
<1>1. PICK k : k = Len(a) + 1
  OBVIOUS
<1>2. LosesAt(a, b, k)
  BY <1>1, LoseAt DEF LosesAt
<1> QED  BY <1>1, <1>2

\* Taking the head off a concatenation.
LEMMA TailOfConcat ==
  ASSUME NEW b \in Seq(Nat), NEW c \in Seq(Nat), b # <<>>
  PROVE  b \o c # <<>> /\ Tail(b \o c) = Tail(b) \o c
<1> DEFINE s == b \o c
           t == Tail(b) \o c
<1>1. /\ Len(b) \in Nat /\ Len(c) \in Nat /\ Len(b) > 0
      /\ Tail(b) \in Seq(Nat) /\ Len(Tail(b)) = Len(b) - 1
      /\ \A i \in 1 .. Len(Tail(b)) : Tail(b)[i] = b[i + 1]
  BY EmptySeq, HeadTailProperties
<1>2. /\ s \in Seq(Nat) /\ Len(s) = Len(b) + Len(c)
      /\ \A i \in 1 .. Len(b) + Len(c) :
           s[i] = IF i <= Len(b) THEN b[i] ELSE c[i - Len(b)]
  BY ConcatProperties
<1>3. /\ t \in Seq(Nat) /\ Len(t) = Len(Tail(b)) + Len(c)
      /\ \A i \in 1 .. Len(Tail(b)) + Len(c) :
           t[i] = IF i <= Len(Tail(b)) THEN Tail(b)[i] ELSE c[i - Len(Tail(b))]
  BY <1>1, ConcatProperties
<1> HIDE DEF s, t
<1>4. s # <<>>
  BY <1>1, <1>2, EmptySeq
<1>5. /\ Tail(s) \in Seq(Nat) /\ Len(Tail(s)) = Len(s) - 1
      /\ \A i \in 1 .. Len(Tail(s)) : Tail(s)[i] = s[i + 1]
  BY <1>2, <1>4, HeadTailProperties
<1>6. Len(Tail(s)) = Len(t) /\ Len(t) = Len(b) - 1 + Len(c)
  BY <1>1, <1>2, <1>3, <1>5
<1>7. ASSUME NEW i \in 1 .. Len(Tail(s))
      PROVE  Tail(s)[i] = t[i]
  <2>1. i \in Nat /\ i > 0 /\ i <= Len(b) - 1 + Len(c)
    BY <1>1, <1>6
  <2>2. Tail(s)[i] = s[i + 1] /\ s[i + 1] = IF i + 1 <= Len(b) THEN b[i + 1] ELSE c[i + 1 - Len(b)]
    BY <1>1, <1>2, <1>5, <2>1
  <2>3. t[i] = IF i <= Len(b) - 1 THEN Tail(b)[i] ELSE c[i - (Len(b) - 1)]
    BY <1>1, <1>3, <2>1
  <2>4. i <= Len(b) - 1 => Tail(b)[i] = b[i + 1]
    BY <1>1, <2>1
  <2>5. i + 1 - Len(b) = i - (Len(b) - 1) /\ (i + 1 <= Len(b) <=> i <= Len(b) - 1)
    BY <1>1, <2>1
  <2> QED  BY <2>2, <2>3, <2>4, <2>5
<1>8. Tail(s) = t
  BY <1>3, <1>5, <1>6, <1>7, SeqEqual
<1> QED  BY <1>4, <1>8 DEF s, t

\* The three places where a chunk may wait.
Held == IF hand = 0 THEN <<>> ELSE <<hand>>
InWrite == IF wmu = None THEN <<>> ELSE <<accepted>>

\* Concatenation, in the forms the steps need.
LEMMA Closed == \A x, y \in Seq(Nat) : x \o y \in Seq(Nat)
BY ConcatProperties

LEMMA Associates == \A x, y, z \in Seq(Nat) : (x \o y) \o z = x \o (y \o z)
BY ConcatAssociative, SMTT(30)

LEMMA LengthsAdd ==
  \A x, y, z \in Seq(Nat) : Len((x \o y) \o z) = Len(x) + Len(y) + Len(z)
<1> SUFFICES ASSUME NEW x \in Seq(Nat), NEW y \in Seq(Nat), NEW z \in Seq(Nat)
             PROVE  Len((x \o y) \o z) = Len(x) + Len(y) + Len(z)
  OBVIOUS
<1>1. x \o y \in Seq(Nat) /\ Len(x \o y) = Len(x) + Len(y)
  BY ConcatProperties
<1>2. Len((x \o y) \o z) = Len(x \o y) + Len(z)
  BY <1>1, ConcatProperties
<1> QED  BY <1>1, <1>2

\* Where the chunks of Waiting are.
LEMMA Places ==
  ASSUME QueueInv
  PROVE  /\ Waiting = Held \o ch \o InWrite
         /\ Waiting = Held \o (ch \o InWrite)
         /\ Held \in Seq(Nat) /\ ch \in Seq(Nat) /\ InWrite \in Seq(Nat)
         /\ ch \o InWrite \in Seq(Nat) /\ Waiting \in Seq(Nat)
         /\ Len(Waiting) = Len(Held) + Len(ch) + Len(InWrite)
         /\ Len(Held) = IF hand = 0 THEN 0 ELSE 1
         /\ Len(InWrite) = IF wmu = None THEN 0 ELSE 1
         /\ Len(ch) \in 0 .. Cap
<1>1. Waiting = Held \o ch \o InWrite
  BY DEF Waiting, Held, InWrite
<1>2. ch \in Seq(Nat) /\ Len(ch) \in 0 .. Cap /\ hand \in Nat /\ accepted \in Nat
  BY CapAssumption DEF QueueInv, TypeOK
<1>3. Held \in Seq(Nat) /\ Len(Held) = IF hand = 0 THEN 0 ELSE 1
  BY <1>2 DEF Held
<1>4. InWrite \in Seq(Nat) /\ Len(InWrite) = IF wmu = None THEN 0 ELSE 1
  BY <1>2 DEF InWrite
<1>5. ch \in Seq(Nat) /\ Held \in Seq(Nat) /\ InWrite \in Seq(Nat)
  BY <1>2, <1>3, <1>4
<1>6. ch \o InWrite \in Seq(Nat) /\ Held \o ch \in Seq(Nat)
  BY <1>5, Closed, Zenon
<1>7. (Held \o ch) \o InWrite \in Seq(Nat)
  BY <1>5, <1>6, Closed, Zenon
<1>8. (Held \o ch) \o InWrite = Held \o (ch \o InWrite)
  BY <1>5, Associates, Zenon
<1>9. Len((Held \o ch) \o InWrite) = Len(Held) + Len(ch) + Len(InWrite)
  BY <1>5, LengthsAdd, Zenon
<1> QED  BY <1>1, <1>2, <1>3, <1>4, <1>5, <1>6, <1>7, <1>8, <1>9

\* A sequence is its head and its tail.
LEMMA HeadAndTail ==
  ASSUME NEW s \in Seq(Nat), s # <<>>
  PROVE  <<Head(s)>> \o Tail(s) = s
<1>1. /\ Len(s) \in Nat /\ Len(s) > 0 /\ Head(s) = s[1] /\ Head(s) \in Nat
      /\ Tail(s) \in Seq(Nat) /\ Len(Tail(s)) = Len(s) - 1
      /\ \A i \in 1 .. Len(Tail(s)) : Tail(s)[i] = s[i + 1]
  BY EmptySeq, HeadTailProperties
<1>2. /\ <<Head(s)>> \in Seq(Nat) /\ Len(<<Head(s)>>) = 1
      /\ <<Head(s)>>[1] = Head(s)
  BY <1>1
<1>3. PICK x \in Seq(Nat), y \in Seq(Nat) : x = <<Head(s)>> /\ y = Tail(s)
  BY <1>1, <1>2
<1>4. PICK n \in Nat : n = Len(s)
  BY <1>1
<1>5. /\ x \o y \in Seq(Nat) /\ Len(x \o y) = Len(x) + Len(y)
      /\ \A i \in 1 .. Len(x) + Len(y) :
           (x \o y)[i] = IF i <= Len(x) THEN x[i] ELSE y[i - Len(x)]
  BY ConcatProperties
<1>6. Len(x) = 1 /\ Len(y) = n - 1
  BY <1>1, <1>2, <1>3, <1>4
<1>7. x[1] = s[1] /\ \A i \in 1 .. n - 1 : y[i] = s[i + 1]
  BY <1>1, <1>2, <1>3, <1>4
<1>8. PICK t \in Seq(Nat) : t = x \o y
  BY <1>5
<1>9. Len(t) = n /\ \A i \in 1 .. n : t[i] = IF i <= 1 THEN x[i] ELSE y[i - 1]
  BY <1>5, <1>6, <1>8, SMTT(30)
<1>10. ASSUME NEW i \in 1 .. n
       PROVE  t[i] = s[i]
  <2>1. CASE i = 1
    BY <1>7, <1>9, <2>1
  <2>2. CASE i # 1
    <3>1. i - 1 \in 1 .. n - 1 /\ (i - 1) + 1 = i /\ ~(i <= 1)
      BY <2>2
    <3>2. y[i - 1] = s[(i - 1) + 1]
      BY <1>7, <3>1
    <3> QED  BY <1>9, <3>1, <3>2
  <2> QED  BY <2>1, <2>2
<1>11. t = s
  BY <1>4, <1>9, <1>10, SeqEqual
<1> QED  BY <1>3, <1>8, <1>11

\* The empty sequence adds nothing.
LEMMA EmptyConcat == \A x \in Seq(Nat) : <<>> \o x = x /\ x \o <<>> = x
BY ConcatEmptySeq

\* Write accepts a chunk: there is room for it among those that wait.
LEMMA WriteAccepts ==
  ASSUME OrderInv, NEW w \in Writers, Write(w)
  PROVE  Stream!Accept
<1> QueueInv
  BY DEF OrderInv
<1>1. /\ wmu = None /\ wmu' # None /\ accepted' = accepted + 1 /\ accepted' \in Nat
      /\ UNCHANGED <<ch, hand, last>>
  BY NoneAssumption DEF Write, QueueInv, TypeOK, twilio
<1>2. Len(Waiting) < Cap + 2
  <2>1. /\ Len(Waiting) = Len(Held) + Len(ch) + Len(InWrite)
        /\ Len(Held) \in 0 .. 1 /\ Len(InWrite) = 0 /\ Len(ch) \in 0 .. Cap
    BY <1>1, Places
  <2>2. Cap \in Nat
    BY CapAssumption
  <2>3. \A h \in 0 .. 1, c \in 0 .. Cap : h + c + 0 < Cap + 2
    BY <2>2
  <2>4. Len(Held) + Len(ch) + 0 < Cap + 2
    BY <2>1, <2>3, Zenon
  <2>5. Len(Waiting) = Len(Held) + Len(ch) + 0
    BY <2>1, Zenon
  <2> QED  BY <2>4, <2>5, Zenon
<1>3. Waiting = Held \o ch /\ Held \o ch \in Seq(Nat)
  <2>1. Held \in Seq(Nat) /\ ch \in Seq(Nat)
    BY Places
  <2>2. Held \o ch \in Seq(Nat)
    BY <2>1, Closed, Zenon
  <2>3. Waiting = (Held \o ch) \o <<>>
    BY <1>1 DEF Waiting, Held
  <2> QED  BY <2>2, <2>3, EmptyConcat, Zenon
<1>4. Waiting' = (Held \o ch) \o <<accepted'>>
  BY <1>1 DEF Waiting, Held
<1>5. Append(Waiting, accepted') = Waiting \o <<accepted'>>
  BY <1>1, <1>3, AppendIsConcat
<1> QED  BY <1>1, <1>2, <1>3, <1>4, <1>5 DEF Stream!Accept

\* A chunk sent goes on waiting.
LEMMA SendStutters ==
  ASSUME OrderInv, NEW w \in Writers, pc[w] # "idle", Send(w)
  PROVE  UNCHANGED Stream!vars
<1> QueueInv
  BY DEF OrderInv
<1>1. /\ wmu # None /\ wmu' = None /\ ch' = Append(ch, accepted) /\ accepted \in Nat
      /\ UNCHANGED <<accepted, hand, last>>
  BY NoneAssumption DEF Send, QueueInv, TypeOK, twilio
<1>2. /\ Held \in Seq(Nat) /\ ch \in Seq(Nat) /\ InWrite \in Seq(Nat)
      /\ ch \o InWrite \in Seq(Nat) /\ Waiting \in Seq(Nat)
      /\ Waiting = Held \o (ch \o InWrite)
  BY Places
<1>3. ch' = ch \o InWrite
  <2>1. Append(ch, accepted) = ch \o <<accepted>>
    BY <1>1, <1>2, AppendIsConcat
  <2> QED  BY <1>1, <2>1 DEF InWrite
<1>4. Waiting' = (Held \o (ch \o InWrite)) \o <<>>
  BY <1>1, <1>3 DEF Waiting, Held
<1>5. Waiting' = Waiting
  BY <1>2, <1>4, EmptyConcat, Zenon
<1> QED  BY <1>1, <1>5 DEF Stream!vars

\* The chunk that Write drops is lost.
LEMMA DropLoses ==
  ASSUME OrderInv, NEW w \in Writers, DropOldest(w), ch # <<>>
  PROVE  \E k \in 1 .. Len(Waiting) : Stream!Lose(k)
<1> QueueInv
  BY DEF OrderInv
<1>1. ch' = Tail(ch) /\ UNCHANGED <<wmu, accepted, hand, last>>
  BY DEF DropOldest, twilio
<1>2. /\ Held \in Seq(Nat) /\ ch \in Seq(Nat) /\ InWrite \in Seq(Nat)
      /\ ch \o InWrite \in Seq(Nat)
      /\ Waiting = Held \o (ch \o InWrite)
  BY Places
<1>3. Tail(ch) \in Seq(Nat)
  BY <1>2, HeadTailProperties
<1>4. Waiting' = (Held \o Tail(ch)) \o InWrite
  BY <1>1 DEF Waiting, Held, InWrite
<1>5. (Held \o Tail(ch)) \o InWrite = Held \o (Tail(ch) \o InWrite)
  BY <1>2, <1>3, Associates, ZenonT(60)
<1>6. ch \o InWrite # <<>> /\ Tail(ch \o InWrite) = Tail(ch) \o InWrite
  BY <1>2, TailOfConcat
<1>7. PICK a \in Seq(Nat), b \in Seq(Nat) : a = Held /\ b = ch \o InWrite
  BY <1>2
<1>8. LosesAt(a, b, Len(a) + 1)
  <2>1. b # <<>>
    BY <1>6, <1>7
  <2> QED  BY <2>1, Losing, Zenon
<1>9. PICK k : /\ k \in 1 .. Len(Waiting)
               /\ Waiting' = SubSeq(Waiting, 1, k - 1) \o
                              SubSeq(Waiting, k + 1, Len(Waiting))
  <2>1. Waiting = a \o b
    BY <1>2, <1>7
  <2>2. Waiting' = a \o Tail(b)
    BY <1>4, <1>5, <1>6, <1>7
  <2>3. LosesAt(a, b, Len(a) + 1)
    BY <1>8
  <2> QED  BY <2>1, <2>2, <2>3, Zenon DEF LosesAt
<1> QED  BY <1>1, <1>9 DEF Stream!Lose

\* The chunk the write loop takes goes on waiting.
LEMMA TakeStutters ==
  ASSUME OrderInv, Take
  PROVE  UNCHANGED Stream!vars
<1> QueueInv
  BY DEF OrderInv
<1>1. hand = 0 /\ UNCHANGED <<wmu, accepted, last>>
  BY DEF Take, OrderInv, writer, twilio
<1>2. ch \in Seq(Nat)
  BY DEF QueueInv, TypeOK
<1>3. CASE ch # <<>>
  <2>1. hand' = Head(ch) /\ ch' = Tail(ch) /\ dropped' = dropped
    BY <1>3 DEF Take
  <2>2. Head(ch) \in 1 .. accepted /\ accepted \in Nat
    BY <1>1, <1>3, <2>1, TakenOrder DEF QueueInv, TypeOK
  <2>3. Waiting' = (<<Head(ch)>> \o Tail(ch)) \o InWrite
    <3>1. hand' # 0
      BY <2>1, <2>2
    <3> QED  BY <1>1, <2>1, <3>1 DEF Waiting, InWrite
  <2>4. Waiting = (<<>> \o ch) \o InWrite
    BY <1>1 DEF Waiting, InWrite
  <2>5. <<Head(ch)>> \o Tail(ch) = ch
    BY <1>2, <1>3, HeadAndTail
  <2>6. <<>> \o ch = ch
    BY <1>2, EmptyConcat, Zenon
  <2> QED  BY <1>1, <2>3, <2>4, <2>5, <2>6 DEF Stream!vars
<1>4. CASE ch = <<>>
  BY <1>1, <1>4 DEF Take, Waiting, Stream!vars
<1> QED  BY <1>3, <1>4

\* The chunk in the write loop's hand is the first that waits.
LEMMA HandLeaves ==
  ASSUME QueueInv, hand # 0, hand' = 0, UNCHANGED <<ch, wmu, accepted>>
  PROVE  /\ Waiting \in Seq(Nat) /\ Waiting # <<>>
         /\ Waiting' = Tail(Waiting) /\ Head(Waiting) = hand
<1>1. /\ ch \in Seq(Nat) /\ InWrite \in Seq(Nat) /\ Held \in Seq(Nat)
      /\ ch \o InWrite \in Seq(Nat) /\ Waiting \in Seq(Nat)
      /\ Waiting = Held \o (ch \o InWrite)
      /\ Held = <<hand>> /\ hand \in Nat
  BY Places DEF Held, QueueInv, TypeOK
<1>2. Waiting' = (<<>> \o ch) \o InWrite
  BY DEF Waiting, InWrite
<1>3. <<>> \o ch = ch
  BY <1>1, EmptyConcat, Zenon
<1>4. PICK r \in Seq(Nat) : r = ch \o InWrite
  BY <1>1
<1>5. Tail(<<hand>>) = <<>> /\ <<hand>> # <<>> /\ <<hand>> \in Seq(Nat)
  BY <1>1
<1>6. <<hand>> \o r # <<>> /\ Tail(<<hand>> \o r) = Tail(<<hand>>) \o r
  BY <1>5, TailOfConcat
<1>7. <<>> \o r = r
  BY EmptyConcat, Zenon
<1>8. Head(<<hand>> \o r) = hand
  <2>1. (<<hand>> \o r)[1] = IF 1 <= Len(<<hand>>) THEN <<hand>>[1] ELSE r[1 - Len(<<hand>>)]
    BY <1>5, ConcatProperties
  <2>2. <<hand>> \o r \in Seq(Nat)
    BY <1>5, Closed, Zenon
  <2> QED  BY <1>6, <2>1, <2>2
<1> QED  BY <1>1, <1>2, <1>3, <1>4, <1>5, <1>6, <1>7, <1>8

\* The other steps of the write loop deliver that chunk, lose it or have none.
LEMMA LoopImplements ==
  ASSUME OrderInv, LoopStep
  PROVE  \/ UNCHANGED Stream!vars
         \/ Stream!Deliver
         \/ \E k \in 1 .. Len(Waiting) : Stream!Lose(k)
<1> QueueInv
  BY DEF OrderInv
<1>1. CASE Take
  BY <1>1, TakeStutters
<1>2. CASE ~Take /\ hand' = hand
  <2>1. UNCHANGED <<accepted, wmu, ch>>
    BY <1>2 DEF LoopStep, LoopEnd, CheckClosed, WriteOut, WriteFail, writer
  <2>2. last' = last
    BY <1>2 DEF LoopStep, LoopEnd, CheckClosed, WriteOut, WriteFail, twilio
  <2> QED  BY <1>2, <2>1, <2>2 DEF Waiting, Stream!vars
<1>3. CASE ~Take /\ hand' # hand
  <2>1. hand # 0 /\ hand' = 0 /\ UNCHANGED <<ch, wmu, accepted>>
    BY <1>3 DEF LoopStep, LoopEnd, CheckClosed, WriteOut, WriteFail, writer
  <2>2. /\ Waiting \in Seq(Nat) /\ Waiting # <<>>
        /\ Waiting' = Tail(Waiting) /\ Head(Waiting) = hand
    BY <2>1, HandLeaves
  <2>3. CASE WriteOut
    BY <2>1, <2>2, <2>3 DEF WriteOut, Stream!Deliver
  <2>4. CASE CheckClosed \/ WriteFail \/ LoopEnd
    <3>1. last' = last
      BY <2>4 DEF CheckClosed, WriteFail, LoopEnd, twilio
    <3>2. /\ Len(Waiting) \in Nat /\ Len(Waiting) > 0
      BY <2>2, EmptySeq
    <3>3. SubSeq(Waiting, 1, 1 - 1) = <<>>
      BY SubSeqEmpty
    <3>4. SubSeq(Waiting, 1 + 1, Len(Waiting)) = Tail(Waiting)
      BY <2>2, TailIsSubSeq
    <3>5. Tail(Waiting) \in Seq(Nat)
      BY <2>2, HeadTailProperties
    <3>6. <<>> \o Tail(Waiting) = Tail(Waiting)
      BY <3>5, EmptyConcat, Zenon
    <3>7. 1 \in 1 .. Len(Waiting) /\ Stream!Lose(1)
      BY <2>1, <2>2, <3>1, <3>2, <3>3, <3>4, <3>6 DEF Stream!Lose
    <3> QED  BY <3>7
  <2> QED  BY <1>3, <2>3, <2>4 DEF LoopStep
<1> QED  BY <1>1, <1>2, <1>3

\* The queue, its writers and its loop implement a lossy stream: whatever the
\* interleaving, chunks are neither reordered nor repeated, and no more than
\* Cap + 2 wait.
THEOREM RefinesLossyStream == Spec => ImplementsLossyStream
<1>1. Init => Stream!Init
  <2>1. Init => Waiting = (<<>> \o <<>>) \o <<>>
    BY DEF Init, Waiting
  <2>2. <<>> \o <<>> = <<>>
    BY EmptySeq, EmptyConcat, Zenon
  <2> QED  BY <2>1, <2>2 DEF Init, Stream!Init
<1>2. OrderInv /\ [Next]_vars => [Stream!Next]_(Stream!vars)
  <2> SUFFICES ASSUME OrderInv, [Next]_vars
               PROVE  Stream!Next \/ UNCHANGED Stream!vars
    OBVIOUS
  <2>1. CASE \E w \in Writers : Write(w)
    BY <2>1, WriteAccepts DEF Stream!Next
  <2>2. CASE \E w \in Writers : WriterStep(w)
    <3>1. PICK w \in Writers : WriterStep(w)
      BY <2>2
    <3>2. CASE Send(w) /\ pc[w] # "idle"
      BY <3>2, SendStutters
    <3>3. CASE (TrySend(w) /\ ~Send(w)) \/ (DropOldest(w) /\ ch = <<>>)
      <4>1. UNCHANGED <<wmu, accepted, ch, hand, last>>
        BY <3>3 DEF TrySend, DropOldest, twilio
      <4> QED  BY <4>1 DEF Waiting, Stream!vars
    <3>4. CASE DropOldest(w) /\ ch # <<>>
      BY <3>4, DropLoses DEF Stream!Next
    <3> QED  BY <3>1, <3>2, <3>3, <3>4 DEF WriterStep, TrySend, Resend
  <2>3. CASE LoopStep
    BY <2>3, LoopImplements DEF Stream!Next
  <2>4. CASE CloseQueue \/ EndConnection \/ UNCHANGED vars
    BY <2>4 DEF CloseQueue, EndConnection, vars, writer, twilio, Waiting, Stream!vars
  <2> QED  BY <2>1, <2>2, <2>3, <2>4 DEF Next
<1> QED  BY <1>1, <1>2, OrderInvariant, PTL DEF Spec, ImplementsLossyStream, Stream!Spec
=============================================================================
