------------------------- MODULE ConversationProofs -------------------------
(***************************************************************************)
(* What a text session hears, remembers and asks is right for any number   *)
(* of turns, chunks, tool calls and rounds.                                *)
(***************************************************************************)
EXTENDS Conversation, SequenceTheorems, TLAPS

\* The counters and flags, the audio buffer, the requests.
AudioTyped ==
  /\ isSpeaking \in BOOLEAN
  /\ heard \in 0 .. MaxFrames
  /\ memory \in Seq(Seq(1 .. MaxFrames))
  /\ length \in Nat

TurnsTyped ==
  /\ pc \in [Turns -> Labels]
  /\ slice \in [Spoken -> [array : Nat, length : Nat, after : Nat]]
  /\ misheard \subseteq Spoken

RecordTyped ==
  /\ transcript \in Seq(Entry)
  /\ turnCount = Len(transcript)

RequestsTyped ==
  /\ messages \in [Turns -> Seq(Message)]
  /\ sent \in [Turns -> Nat]
  /\ iteration \in [Turns -> 0 .. MaxToolIterations - 1]
  /\ calls \in [Turns -> CallCounts \cup {0}]
  /\ done \in [Turns -> Nat]

\* What is in the buffer fits its array and has been said.
BufferFits ==
  /\ length <= heard
  /\ length # 0 => memory # <<>> /\ length <= Len(memory[Newest])

\* What has been handed over was said before what the buffer holds.
SlicesPast ==
  \A t \in HandedOver : slice[t].after + slice[t].length <= heard - length

\* An utterance that was the last thing said is intact.
LastIntact ==
  \A t \in Spoken :
    pc[t] = "stt" /\ slice[t].after + slice[t].length = heard =>
      \A i \in 1 .. slice[t].length :
        memory[slice[t].array][i] = slice[t].after + i

AudioInv == AudioTyped /\ TurnsTyped /\ BufferFits /\ SlicesPast /\ LastIntact
              /\ EveryChunkHandedOnce

----------------------------------------------------------------------------
(* The audio buffer                                                        *)

\* Only three actions touch the buffer or an utterance.
LEMMA AudioCases ==
  ASSUME Next
  PROVE  \/ HandleAudio
         \/ UNCHANGED <<audio, pc, slice, misheard>>
         \/ \E t \in Spoken : EndSpeech(t)
         \/ \E t \in Spoken : Transcribe(t)
         \/ /\ UNCHANGED <<audio, slice, misheard>>
            /\ \E t \in Turns, from \in Labels \ {"stt"}, to \in Labels \ {"stt"} :
                 /\ Goto(t, from, to)
                 /\ to # "none"
                 /\ t \in Spoken => from # "none"
  <1> DEFINE Walk == /\ UNCHANGED <<audio, slice, misheard>>
                     /\ \E t \in Turns, from \in Labels \ {"stt"}, to \in Labels \ {"stt"} :
                          /\ Goto(t, from, to)
                          /\ to # "none"
                          /\ t \in Spoken => from # "none"
  <1>1. ASSUME NEW t \in Turns, TurnStep(t)
        PROVE  Walk \/ UNCHANGED <<audio, pc, slice, misheard>>
    <2>1. CASE Record(t) \/ RecordAnswer(t)
      BY <2>1, TurnsAssumption DEF Record, RecordAnswer, Goto, Labels, Turns
    <2>2. CASE RunHandler(t) \/ ToolNotFound(t)
      BY <2>2 DEF RunHandler, ToolNotFound, NextCall
    <2>3. CASE Ask(t) \/ Return(t) \/ AskAgain(t) \/ \E n \in CallCounts : CallTools(t, n)
      BY <2>3 DEF Ask, Return, AskAgain, CallTools, Goto, Labels
    <2>4. CASE Synthesize(t) \/ TurnEnds(t)
      BY <2>4 DEF Synthesize, TurnEnds, Goto, Labels
    <2> QED BY <1>1, <2>1, <2>2, <2>3, <2>4 DEF TurnStep
  <1>2. ASSUME NEW t \in Spoken, UpdateMetrics(t)
        PROVE  Walk
    BY <1>2 DEF UpdateMetrics, Goto, Labels, Turns
  <1>3. CASE Greet
    BY <1>3 DEF Greet, audio
  <1> QED BY <1>1, <1>2, <1>3 DEF Next, SpokenStep

\* A chunk goes behind what the buffer holds, which stays as it is.
LEMMA WriteStep ==
  ASSUME AudioTyped, BufferFits, HandleAudio
  PROVE  /\ AudioTyped' /\ BufferFits'
         /\ length' = length + 1 /\ heard' = heard + 1
         /\ memory'[Newest'][length + 1] = heard + 1
         /\ \A i \in 1 .. length : memory'[Newest'][i] = memory[Newest][i]
  <1> DEFINE x == heard + 1
  <1>0. /\ x \in 1 .. MaxFrames /\ length' = length + 1 /\ heard' = x
        /\ isSpeaking' = TRUE /\ length \in Nat /\ heard \in Nat
        /\ Len(memory) \in Nat /\ memory \in Seq(Seq(1 .. MaxFrames))
    <2>1. heard < MaxFrames /\ isSpeaking' = TRUE /\ heard' = x /\ length' = length + 1
      BY DEF HandleAudio, Write
    <2>2. length \in Nat /\ heard \in 0 .. MaxFrames /\ memory \in Seq(Seq(1 .. MaxFrames))
      BY DEF AudioTyped
    <2>3. MaxFrames \in Nat /\ Len(memory) \in Nat
      BY <2>2, BoundsAssumption, LenProperties
    <2> QED BY <2>1, <2>2, <2>3
  <1>1. CASE length < Capacity(Newest)
             /\ memory' = [memory EXCEPT ![Newest] = PutAt(@, length + 1, x)]
    <2>1. Newest \in 1 .. Len(memory)
      BY <1>0, <1>1 DEF Newest, Capacity
    <2> DEFINE old == memory[Newest]
               new == PutAt(old, length + 1, x)
    <2>2. old \in Seq(1 .. MaxFrames) /\ length \in 0 .. Len(old)
      <3>1. old \in Seq(1 .. MaxFrames)
        BY <1>0, <2>1, ElementOfSeq
      <3>2. Len(old) \in Nat
        BY <3>1, LenProperties
      <3> QED BY <1>0, <3>1, <3>2 DEF BufferFits
    <2>3. /\ new \in Seq(1 .. MaxFrames) /\ new[length + 1] = x
          /\ length + 1 <= Len(new)
          /\ \A i \in 1 .. length : new[i] = old[i]
      <3>1. x \in 1 .. MaxFrames
        BY <1>0
      <3>2. CASE length + 1 <= Len(old)
        <4>1. length + 1 \in 1 .. Len(old)
          BY <1>0, <3>2
        <4>2. new = [old EXCEPT ![length + 1] = x]
          BY <3>2 DEF PutAt
        <4>3. \A i \in 1 .. length : i \in 1 .. Len(old) /\ i # length + 1
          BY <2>2
        <4> HIDE DEF x, old, new
        <4>4. /\ new \in Seq(1 .. MaxFrames) /\ Len(new) = Len(old)
              /\ \A i \in 1 .. Len(old) : new[i] = IF i = length + 1 THEN x ELSE old[i]
          BY <2>2, <3>1, <4>1, <4>2, ExceptSeq
        <4> QED BY <3>2, <4>1, <4>3, <4>4
      <3>3. CASE ~(length + 1 <= Len(old))
        <4>1. length = Len(old) /\ new = Append(old, x)
          BY <2>2, <3>3 DEF PutAt
        <4> HIDE DEF x, old, new
        <4> QED BY <2>2, <3>1, <4>1, AppendProperties
      <3> QED BY <3>2, <3>3
    <2> HIDE DEF new
    <2>4. memory' = [memory EXCEPT ![Newest] = new]
      BY <1>1 DEF new
    <2>5. /\ memory' \in Seq(Seq(1 .. MaxFrames)) /\ Len(memory') = Len(memory)
          /\ memory'[Newest] = new
      BY <1>0, <2>1, <2>3, <2>4, ExceptSeq
    <2>6. Newest' = Newest /\ memory' # <<>>
      BY <1>0, <2>1, <2>5 DEF Newest
    <2>7. AudioTyped'
      BY <1>0, <2>5 DEF AudioTyped
    <2>8. memory'[Newest'] = new /\ length' <= Len(new) /\ length' <= heard'
      BY <1>0, <2>3, <2>5, <2>6 DEF BufferFits
    <2>9. BufferFits'
      BY <2>6, <2>8 DEF BufferFits
    <2> QED
      BY <1>0, <2>3, <2>7, <2>8, <2>9
  <1>2. CASE length = Capacity(Newest) /\ Grow(x)
    <2> DEFINE held == IF Newest = 0 THEN <<>> ELSE SubSeq(memory[Newest], 1, length)
    <2>1. /\ held \in Seq(1 .. MaxFrames) /\ Len(held) = length
          /\ \A i \in 1 .. length : held[i] = memory[Newest][i]
      <3>1. CASE Newest = 0
        <4>1. length = 0
          BY <1>2, <3>1 DEF Capacity
        <4> QED BY <3>1, <4>1
      <3>2. CASE Newest # 0
        <4>1. Newest \in 1 .. Len(memory)
          BY <1>0, <3>2 DEF Newest
        <4>2. memory[Newest] \in Seq(1 .. MaxFrames)
          BY <1>0, <4>1, ElementOfSeq
        <4>3. Len(memory[Newest]) \in Nat
          BY <4>2, LenProperties
        <4>4. length \in 0 .. Len(memory[Newest])
          BY <1>0, <4>3 DEF BufferFits
        <4>5. \A i \in 1 .. length : memory[Newest][i] \in 1 .. MaxFrames
          <5> TAKE i \in 1 .. length
          <5>1. i \in 1 .. Len(memory[Newest])
            BY <4>3, <4>4
          <5> QED BY <4>2, <5>1, ElementOfSeq
        <4>6. held = SubSeq(memory[Newest], 1, length)
          BY <3>2
        <4>7. /\ SubSeq(memory[Newest], 1, length) \in Seq(1 .. MaxFrames)
              /\ Len(SubSeq(memory[Newest], 1, length)) =
                   IF 1 <= length THEN length - 1 + 1 ELSE 0
              /\ \A i \in 1 .. length - 1 + 1 :
                   SubSeq(memory[Newest], 1, length)[i] = memory[Newest][1 + i - 1]
          BY <1>0, <4>5, SubSeqProperties
        <4>8. /\ length - 1 + 1 = length
              /\ Len(SubSeq(memory[Newest], 1, length)) = length
              /\ \A i \in 1 .. length : 1 + i - 1 = i
          BY <1>0, <4>7
        <4> QED BY <4>6, <4>7, <4>8
      <3> QED BY <3>1, <3>2
    <2> HIDE DEF held
    <2>2. memory' = Append(memory, Append(held, x))
      BY <1>2 DEF Grow, held
    <2>3. /\ Append(held, x) \in Seq(1 .. MaxFrames)
          /\ Len(Append(held, x)) = length + 1
          /\ Append(held, x)[length + 1] = x
          /\ \A i \in 1 .. length : Append(held, x)[i] = held[i]
      BY <1>0, <2>1, AppendProperties
    <2>4. /\ memory' \in Seq(Seq(1 .. MaxFrames))
          /\ Len(memory') = Len(memory) + 1
          /\ memory'[Len(memory) + 1] = Append(held, x)
          /\ memory' # <<>>
      BY <1>0, <2>2, <2>3, AppendProperties, SMTT(30)
    <2>5. Newest' = Len(memory) + 1
      BY <2>4 DEF Newest
    <2>6. AudioTyped'
      BY <1>0, <2>4 DEF AudioTyped
    <2>7. BufferFits'
      BY <1>0, <2>3, <2>4, <2>5 DEF BufferFits
    <2> QED
      BY <1>0, <2>1, <2>3, <2>4, <2>5, <2>6, <2>7
  <1> QED BY <1>1, <1>2 DEF HandleAudio, Write

\* The buffer's invariant and the utterances', with the types they need.
THEOREM AudioInvariant == Spec => []AudioInv
  <1>1. Init => AudioInv
    <2> SUFFICES ASSUME Init
                 PROVE  AudioInv
      OBVIOUS
    <2>1. heard = 0 /\ length = 0 /\ memory = <<>> /\ isSpeaking = FALSE
      BY DEF Init
    <2>2. pc \in [Turns -> Labels] /\ \A t \in Spoken : pc[t] = "none"
      BY DEF Init, Labels, Turns
    <2>3. HandedOver = {}
      BY <2>2 DEF HandedOver
    <2>4. AudioTyped /\ BufferFits
      <3>1. memory \in Seq(Seq(1 .. MaxFrames))
        BY <2>1
      <3>2. heard \in 0 .. MaxFrames
        BY <2>1, BoundsAssumption
      <3>3. AudioTyped
        BY <2>1, <3>1, <3>2 DEF AudioTyped
      <3>4. BufferFits
        BY <2>1 DEF BufferFits
      <3> QED BY <3>3, <3>4
    <2>5. TurnsTyped
      <3>1. \A t \in Spoken : [array |-> 0, length |-> 0, after |-> 0]
                                \in [array : Nat, length : Nat, after : Nat]
        OBVIOUS
      <3>2. slice \in [Spoken -> [array : Nat, length : Nat, after : Nat]]
        BY <3>1 DEF Init
      <3> QED BY <2>2, <3>2 DEF Init, TurnsTyped
    <2>6. SlicesPast /\ LastIntact
      BY <2>2, <2>3 DEF SlicesPast, LastIntact
    <2>7. EveryChunkHandedOnce
      BY <2>1, <2>3 DEF EveryChunkHandedOnce
    <2> QED BY <2>4, <2>5, <2>6, <2>7 DEF AudioInv
  <1>2. AudioInv /\ [Next]_vars => AudioInv'
    <2> SUFFICES ASSUME AudioInv, [Next]_vars
                 PROVE  AudioInv'
      OBVIOUS
    <2> USE DEF AudioInv
    <2>0. Spoken \subseteq Turns /\ heard \in Nat /\ length \in Nat
            /\ HandedOver \subseteq Spoken
      BY BoundsAssumption DEF Turns, AudioTyped, HandedOver
    <2>1. CASE HandleAudio
      <3>1. UNCHANGED <<pc, slice, misheard>>
        BY <2>1 DEF HandleAudio
      <3>2. /\ AudioTyped' /\ BufferFits'
            /\ length' = length + 1 /\ heard' = heard + 1
            /\ memory'[Newest'][length + 1] = heard + 1
            /\ \A i \in 1 .. length : memory'[Newest'][i] = memory[Newest][i]
        BY <2>1, WriteStep
      <3>3. TurnsTyped'
        BY <3>1 DEF TurnsTyped
      <3>4. SlicesPast'
        BY <2>0, <3>1, <3>2 DEF SlicesPast, HandedOver
      <3>5. LastIntact'
        <4>1. \A t \in Spoken : pc'[t] = "stt" => slice'[t].after + slice'[t].length <= heard - length
          BY <3>1 DEF SlicesPast, HandedOver
        <4>2. \A t \in Spoken : slice[t].after + slice[t].length \in Nat
          BY DEF TurnsTyped
        <4> QED BY <2>0, <3>1, <3>2, <4>1, <4>2 DEF LastIntact
      <3>6. EveryChunkHandedOnce'
        <4>1. heard' - length' = heard - length
          BY <2>0, <3>2
        <4>2. \A i \in 1 .. length' : memory'[Newest'][i] = heard' - length' + i
          BY <2>0, <3>2, <4>1 DEF EveryChunkHandedOnce
        <4>3. HandedOver' = HandedOver /\ \A t \in Spoken : Utterance(t)' = Utterance(t)
          BY <3>1 DEF HandedOver, Utterance
        <4> QED BY <2>0, <4>1, <4>2, <4>3 DEF EveryChunkHandedOnce
      <3> QED BY <3>2, <3>3, <3>4, <3>5, <3>6
    <2>2. ASSUME NEW t \in Spoken, EndSpeech(t)
          PROVE  AudioInv'
      <3> DEFINE new == [array |-> Newest, length |-> length, after |-> heard - length]
      <3>1. /\ pc[t] = "none" /\ pc' = [pc EXCEPT ![t] = "stt"]
            /\ slice' = [slice EXCEPT ![t] = new]
            /\ isSpeaking' = FALSE /\ length' = 0
            /\ UNCHANGED <<heard, memory, misheard>>
        BY <2>2 DEF EndSpeech, Goto
      <3>2. Newest \in Nat /\ heard - length \in Nat
        BY <2>0, LenProperties DEF Newest, AudioTyped, BufferFits
      <3>3. /\ slice'[t] = new
            /\ \A u \in Spoken \ {t} : slice'[u] = slice[u] /\ pc'[u] = pc[u]
            /\ pc'[t] = "stt"
        BY <2>0, <3>1 DEF TurnsTyped
      <3>4. HandedOver' = HandedOver \cup {t} /\ t \notin HandedOver
        <4>1. t \notin HandedOver
          BY <3>1 DEF HandedOver
        <4>2. \A u \in Spoken : u \in HandedOver' <=> u \in HandedOver \cup {t}
          BY <3>3 DEF HandedOver
        <4>3. HandedOver' \subseteq Spoken /\ HandedOver \cup {t} \subseteq Spoken
          BY DEF HandedOver
        <4> QED BY <4>1, <4>2, <4>3
      <3>5. AudioTyped' /\ BufferFits'
        <4>1. AudioTyped'
          BY <3>1 DEF AudioTyped
        <4>2. 0 <= heard
          BY <2>0
        <4> QED BY <3>1, <4>1, <4>2 DEF BufferFits
      <3>6. TurnsTyped'
        <4>1. pc' \in [Turns -> Labels]
          BY <2>0, <3>1 DEF TurnsTyped, Labels
        <4>2. slice' \in [Spoken -> [array : Nat, length : Nat, after : Nat]]
          BY <2>0, <3>1, <3>2 DEF TurnsTyped
        <4> QED BY <3>1, <4>1, <4>2 DEF TurnsTyped
      <3>7. SlicesPast'
        BY <2>0, <3>1, <3>2, <3>3, <3>4 DEF SlicesPast, TurnsTyped
      <3>8. LastIntact'
        <4> SUFFICES ASSUME NEW u \in Spoken, pc'[u] = "stt",
                            slice'[u].after + slice'[u].length = heard,
                            NEW i \in 1 .. slice'[u].length
                     PROVE  memory[slice'[u].array][i] = slice'[u].after + i
          BY <3>1 DEF LastIntact
        <4>1. CASE u = t
          BY <3>3, <4>1 DEF EveryChunkHandedOnce
        <4>2. CASE u # t
          BY <3>3, <4>2 DEF LastIntact
        <4> QED BY <4>1, <4>2
      <3>9. EveryChunkHandedOnce'
        <4>1. /\ \A u \in HandedOver : Utterance(u)' = Utterance(u)
              /\ Utterance(t)' = heard - length + 1 .. heard - length + length
          BY <2>0, <3>3, <3>4 DEF Utterance
        <4>2. heard - length + length = heard /\ heard' - length' = heard
          BY <2>0, <3>1
        <4>3. \A u \in HandedOver : \A f \in Utterance(u) : f \in Nat /\ f <= heard - length
          BY <2>0 DEF EveryChunkHandedOnce, Utterance, TurnsTyped
        <4>4. \A f \in 1 .. heard : \E u \in HandedOver' : f \in Utterance(u)'
          <5> SUFFICES ASSUME NEW f \in 1 .. heard
                       PROVE  \E u \in HandedOver' : f \in Utterance(u)'
            OBVIOUS
          <5>1. CASE f <= heard - length
            <6>1. f \in 1 .. heard - length
              BY <2>0, <3>2, <5>1
            <6>2. PICK u \in HandedOver : f \in Utterance(u)
              BY <6>1 DEF EveryChunkHandedOnce
            <6> QED BY <3>4, <4>1, <6>2
          <5>2. CASE ~(f <= heard - length)
            <6>1. f \in Utterance(t)'
              BY <2>0, <3>2, <4>1, <4>2, <5>2
            <6> QED BY <3>4, <6>1
          <5> QED BY <5>1, <5>2
        <4>5. \A u \in HandedOver' : \A f \in Utterance(u)' : f <= heard
          BY <2>0, <3>2, <3>4, <4>1, <4>2, <4>3
        <4>6. \A u \in HandedOver : Utterance(u) \cap Utterance(t)' = {}
          BY <2>0, <3>2, <4>1, <4>3
        <4>7. \A u \in HandedOver' : \A v \in HandedOver' \ {u} :
                Utterance(u)' \cap Utterance(v)' = {}
          <5> SUFFICES ASSUME NEW u \in HandedOver', NEW v \in HandedOver' \ {u}
                       PROVE  Utterance(u)' \cap Utterance(v)' = {}
            OBVIOUS
          <5>1. CASE u = t
            BY <3>4, <4>1, <4>6, <5>1
          <5>2. CASE v = t
            BY <3>4, <4>1, <4>6, <5>2
          <5>3. CASE u # t /\ v # t
            BY <3>4, <4>1, <5>3 DEF EveryChunkHandedOnce
          <5> QED BY <5>1, <5>2, <5>3
        <4>8. \A i \in 1 .. length' : memory'[Newest'][i] = heard' - length' + i
          BY <3>1
        <4> QED BY <3>4, <4>2, <4>4, <4>5, <4>7, <4>8 DEF EveryChunkHandedOnce
      <3> QED BY <3>5, <3>6, <3>7, <3>8, <3>9
    <2>3. ASSUME NEW t \in Spoken, Transcribe(t)
          PROVE  AudioInv'
      <3>1. /\ pc[t] = "stt" /\ pc' = [pc EXCEPT ![t] = "transcribed"]
            /\ misheard' \subseteq misheard \cup {t}
            /\ UNCHANGED <<isSpeaking, heard, memory, length, slice>>
        BY <2>3 DEF Transcribe, Goto, audio
      <3>2. /\ \A u \in Spoken : pc'[u] = "stt" => pc[u] = "stt"
            /\ HandedOver' = HandedOver
        BY <2>0, <3>1 DEF TurnsTyped, HandedOver
      <3>3. TurnsTyped'
        BY <2>0, <3>1 DEF TurnsTyped, Labels
      <3> QED
        BY <3>1, <3>2, <3>3 DEF AudioTyped, BufferFits, SlicesPast, LastIntact,
          EveryChunkHandedOnce, Utterance, Newest
    <2>4. ASSUME UNCHANGED <<audio, slice, misheard>>,
                 NEW t \in Turns, NEW from \in Labels \ {"stt"}, NEW to \in Labels \ {"stt"},
                 Goto(t, from, to), to # "none", t \in Spoken => from # "none"
          PROVE  AudioInv'
      <3>1. /\ pc[t] = from /\ pc' = [pc EXCEPT ![t] = to]
            /\ UNCHANGED <<isSpeaking, heard, memory, length, slice, misheard>>
        BY <2>4 DEF Goto, audio
      <3>2. /\ \A u \in Spoken : pc'[u] = "stt" => pc[u] = "stt"
            /\ HandedOver' = HandedOver
        BY <2>0, <2>4, <3>1 DEF TurnsTyped, HandedOver
      <3>3. TurnsTyped'
        BY <2>0, <3>1 DEF TurnsTyped
      <3>4. AudioTyped' /\ BufferFits'
        BY <3>1 DEF AudioTyped, BufferFits, Newest
      <3>5. SlicesPast' /\ LastIntact'
        BY <3>1, <3>2 DEF SlicesPast, LastIntact
      <3>6. EveryChunkHandedOnce'
        BY <3>1, <3>2 DEF EveryChunkHandedOnce, Utterance, Newest
      <3> QED BY <3>3, <3>4, <3>5, <3>6
    <2>5. CASE UNCHANGED <<audio, pc, slice, misheard>>
      BY <2>5 DEF audio, AudioTyped, TurnsTyped, BufferFits, SlicesPast, LastIntact,
        EveryChunkHandedOnce, HandedOver, Utterance, Newest
    <2> QED BY <2>1, <2>2, <2>3, <2>4, <2>5, AudioCases DEF vars
  <1> QED BY <1>1, <1>2, PTL DEF Spec

\* The STT misreads an utterance only after the user has spoken again.
THEOREM MishearingIsBounded == Spec => MisheardOnlyWhenSpokenOver
  <1>1. AudioInv /\ [Next]_vars =>
          [\A t \in misheard' \ misheard : slice[t].after + slice[t].length < heard]_vars
    <2> SUFFICES ASSUME AudioInv, Next, NEW t \in misheard' \ misheard
                 PROVE  slice[t].after + slice[t].length < heard
      OBVIOUS
    <2>1. \E u \in Spoken : Transcribe(u)
      BY AudioCases DEF HandleAudio, EndSpeech
    <2>2. PICK u \in Spoken : Transcribe(u)
      BY <2>1
    <2>3. t = u /\ pc[t] = "stt"
            /\ ~ \A i \in 1 .. slice[t].length :
                    memory[slice[t].array][i] = slice[t].after + i
      BY <2>2 DEF Transcribe, Goto
    <2>4. slice[t].after + slice[t].length # heard
      BY <2>3 DEF AudioInv, LastIntact
    <2>5. slice[t].after + slice[t].length <= heard - length
      BY <2>3 DEF AudioInv, SlicesPast, HandedOver
    <2>6. heard \in Nat /\ length \in Nat /\ slice[t].after + slice[t].length \in Nat
      BY <2>3, BoundsAssumption DEF AudioInv, AudioTyped, TurnsTyped
    <2> QED BY <2>4, <2>5, <2>6
  <1> QED BY <1>1, AudioInvariant, PTL DEF Spec, MisheardOnlyWhenSpokenOver

\* Every chunk the user says reaches one turn, for any number of turns.
THEOREM ChunksHandedOnce == Spec => []EveryChunkHandedOnce
  <1>1. AudioInv => EveryChunkHandedOnce
    BY DEF AudioInv
  <1> QED BY <1>1, AudioInvariant, PTL

----------------------------------------------------------------------------
(* The latency average                                                     *)

\* An average of n samples of at most m does not exceed m.
LEMMA AverageStep ==
  ASSUME NEW a \in Nat, NEW s \in Nat, NEW n \in Nat \ {0}, NEW m \in Nat, a <= m, s <= m
  PROVE  UpdateAverage(a, s, n) \in Nat /\ UpdateAverage(a, s, n) <= m
  <1>1. a * (n - 1) <= m * (n - 1)
    <2>1. PICK d \in Nat : m = a + d
      <3>1. m - a \in Nat /\ m = a + (m - a)
        OBVIOUS
      <3> QED BY <3>1
    <2>2. d * (n - 1) \in Nat /\ a * (n - 1) \in Nat
      OBVIOUS
    <2>3. (a + d) * (n - 1) = a * (n - 1) + d * (n - 1)
      OBVIOUS
    <2> QED BY <2>1, <2>2, <2>3
  <1>2. m * (n - 1) + m = m * n
    OBVIOUS
  <1> DEFINE total == a * (n - 1) + s
  <1>3. total \in Nat /\ total <= m * n
    BY <1>1, <1>2
  <1> HIDE DEF total
  <1>4. total \div n \in Nat /\ n * (total \div n) <= total
    BY <1>3
  <1> DEFINE q == total \div n
  <1>5. q \in Nat /\ n * q <= m * n
    BY <1>3, <1>4
  <1> HIDE DEF q
  <1>6. q <= m
    <2> SUFFICES ASSUME q >= m + 1 PROVE FALSE
      BY <1>5
    <2>1. PICK d \in Nat : q = m + 1 + d
      <3>1. q - (m + 1) \in Nat /\ q = m + 1 + (q - (m + 1))
        BY <1>5
      <3> QED BY <3>1
    <2>2. n * (m + 1 + d) = m * n + n + n * d
      OBVIOUS
    <2>3. n * d \in Nat /\ m * n \in Nat
      OBVIOUS
    <2> QED BY <1>5, <2>1, <2>2, <2>3
  <1> QED BY <1>5, <1>6 DEF UpdateAverage, total, q

AverageInv == turnCount \in Nat /\ average \in Nat /\ slowest \in Nat /\ AverageBounded

LEMMA AverageInvariant == Spec => []AverageInv
  <1>1. Init => AverageInv
    BY DEF Init, AverageInv, AverageBounded
  <1>2. AverageInv /\ [Next]_vars => AverageInv'
    <2> SUFFICES ASSUME AverageInv, [Next]_vars
                 PROVE  AverageInv'
      OBVIOUS
    <2> USE DEF AverageInv
    <2>1. CASE \E t \in Spoken : UpdateMetrics(t)
      <3>1. PICK t \in Spoken : UpdateMetrics(t)
        BY <2>1
      <3>2. PICK sample \in Latencies :
              /\ average' = UpdateAverage(average, sample, IF turnCount = 0 THEN 1 ELSE turnCount)
              /\ slowest' = IF sample > slowest THEN sample ELSE slowest
        BY <3>1 DEF UpdateMetrics
      <3> DEFINE n == IF turnCount = 0 THEN 1 ELSE turnCount
      <3>3. /\ sample \in Nat /\ n \in Nat \ {0} /\ turnCount' = turnCount
            /\ slowest' \in Nat /\ average <= slowest' /\ sample <= slowest'
        BY <3>1, <3>2, BoundsAssumption DEF UpdateMetrics, record, AverageBounded
      <3>4. average' = UpdateAverage(average, sample, n)
        BY <3>2
      <3> HIDE DEF n
      <3>5. average' \in Nat /\ average' <= slowest'
        BY <3>3, <3>4, AverageStep
      <3> QED BY <3>3, <3>5 DEF AverageBounded
    <2>2. ASSUME NEW t \in Turns, Record(t) \/ RecordAnswer(t)
          PROVE  AverageInv'
      BY <2>2 DEF Record, RecordAnswer, AddTurn, metrics, AverageBounded
    <2>3. CASE UNCHANGED <<record, metrics>>
      BY <2>3 DEF record, metrics, AverageBounded
    <2>4. CASE Greet
      BY <2>4 DEF Greet, AddTurn, metrics, AverageBounded
    <2> QED
      BY <2>1, <2>2, <2>3, <2>4 DEF Next, SpokenStep, TurnStep, HandleAudio, EndSpeech, Transcribe,
        Ask, Return, Synthesize, TurnEnds, CallTools, RunHandler, ToolNotFound, NextCall, AskAgain,
        vars, Goto
  <1> QED BY <1>1, <1>2, PTL DEF Spec

\* The average is no larger than the largest latency, whatever turns others add.
THEOREM AverageIsBounded == Spec => []AverageBounded
  <1>1. AverageInv => AverageBounded
    BY DEF AverageInv
  <1> QED BY <1>1, AverageInvariant, PTL

----------------------------------------------------------------------------
(* The transcript                                                          *)

Roles == {"user", "agent"}
Unasked == {"none", "stt", "transcribed"}
Asking == {"asked", "llm", "tools", "replied", "tts", "measure"}
Answered == {"measure", "over"}

RecordInv == RecordTyped /\ pc \in [Turns -> Labels] /\ TranscriptAccounts

\* A turn that is added is the last of the transcript, and the others stay.
LEMMA AddTurnStep ==
  ASSUME RecordTyped, NEW role \in Roles, NEW t \in Turns \cup {None}, AddTurn(role, t)
  PROVE  /\ transcript' \in Seq(Entry) /\ turnCount' = Len(transcript')
         /\ Len(transcript) \in Nat
         /\ \A i \in 1 .. Len(transcript) : transcript'[i] = transcript[i]
         /\ \A r \in Roles, u \in Turns :
              /\ Positions(r, u) \subseteq 1 .. Len(transcript)
              /\ r # role \/ u # t => Positions(r, u)' = Positions(r, u)
         /\ Positions(role, t)' = Positions(role, t) \cup {Len(transcript) + 1}
  <1> DEFINE new == [role |-> role, of |-> t]
  <1>1. new \in Entry /\ transcript \in Seq(Entry)
    BY DEF Entry, Roles, RecordTyped
  <1>2. transcript' = Append(transcript, new)
    BY DEF AddTurn
  <1> HIDE DEF new
  <1>3. /\ transcript' \in Seq(Entry) /\ Len(transcript') = Len(transcript) + 1
        /\ Len(transcript) \in Nat
        /\ DOMAIN transcript = 1 .. Len(transcript)
        /\ DOMAIN transcript' = 1 .. Len(transcript) + 1
        /\ \A i \in 1 .. Len(transcript) : transcript'[i] = transcript[i]
        /\ transcript'[Len(transcript) + 1] = new
    BY <1>1, <1>2, AppendProperties, LenProperties
  <1>4. turnCount' = Len(transcript')
    BY <1>3 DEF AddTurn, RecordTyped
  <1>5. \A r, u : Positions(r, u) \subseteq 1 .. Len(transcript)
    BY <1>3 DEF Positions
  <1>6. ASSUME NEW r, NEW u
        PROVE  \A i \in 1 .. Len(transcript) : i \in Positions(r, u)' <=> i \in Positions(r, u)
    BY <1>3 DEF Positions
  <1>7. ASSUME NEW r, NEW u
        PROVE  /\ Positions(r, u)' \subseteq 1 .. Len(transcript) \cup {Len(transcript) + 1}
               /\ Len(transcript) + 1 \in Positions(r, u)' <=> r = role /\ u = t
    <2>1. /\ DOMAIN transcript' = 1 .. Len(transcript) \cup {Len(transcript) + 1}
          /\ Len(transcript) + 1 \in DOMAIN transcript'
      BY <1>3
    <2>2. [role |-> r, of |-> u] = new <=> r = role /\ u = t
      BY DEF new
    <2>3. Len(transcript) + 1 \in Positions(r, u)' <=>
            transcript'[Len(transcript) + 1] = [role |-> r, of |-> u]
      BY <2>1 DEF Positions
    <2>4. Positions(r, u)' \subseteq DOMAIN transcript'
      BY DEF Positions
    <2>5. Len(transcript) + 1 \in Positions(r, u)' <=> [role |-> r, of |-> u] = new
      <3> DEFINE asked == [role |-> r, of |-> u]
      <3>1. Len(transcript) + 1 \in Positions(r, u)' <=> transcript'[Len(transcript) + 1] = asked
        BY <2>3
      <3> HIDE DEF asked
      <3>2. Len(transcript) + 1 \in Positions(r, u)' <=> asked = new
        BY <1>3, <3>1
      <3> QED BY <3>2 DEF asked
    <2> QED BY <2>1, <2>2, <2>4, <2>5
  <1>8. \A r \in Roles, u \in Turns :
          r # role \/ u # t => Positions(r, u)' = Positions(r, u)
    <2> SUFFICES ASSUME NEW r \in Roles, NEW u \in Turns, r # role \/ u # t
                 PROVE  Positions(r, u)' = Positions(r, u)
      OBVIOUS
    <2>1. Positions(r, u)' \subseteq 1 .. Len(transcript)
      BY <1>7
    <2>2. Positions(r, u) \subseteq 1 .. Len(transcript)
      BY <1>5
    <2>3. \A i \in 1 .. Len(transcript) : i \in Positions(r, u)' <=> i \in Positions(r, u)
      BY <1>6
    <2> QED BY <2>1, <2>2, <2>3
  <1>9. Positions(role, t)' = Positions(role, t) \cup {Len(transcript) + 1}
    BY <1>5, <1>6, <1>7
  <1> QED BY <1>3, <1>4, <1>5, <1>8, <1>9

\* A step that records nothing and neither asks nor undoes an answer.
LEMMA RecordsNothing ==
  ASSUME RecordInv, UNCHANGED record, NEW t \in Turns, NEW to \in Labels,
         pc' = [pc EXCEPT ![t] = to],
         to \in Unasked => pc[t] \in Unasked,
         to \in Asking => pc[t] \in Asking,
         pc[t] \in Answered => to \in Answered
  PROVE  RecordInv'
  <1>1. transcript' = transcript /\ turnCount' = turnCount
    BY DEF record
  <1>2. \A r, u : Positions(r, u)' = Positions(r, u)
    BY <1>1 DEF Positions
  <1>3. pc' \in [Turns -> Labels]
    BY DEF RecordInv
  <1>4. \A u \in Turns :
          /\ pc'[u] \in Unasked => pc[u] \in Unasked
          /\ pc'[u] \in Asking => pc[u] \in Asking
          /\ pc[u] \in Answered => pc'[u] \in Answered
    BY DEF RecordInv
  <1>5. TranscriptAccounts'
    BY <1>1, <1>2, <1>4 DEF RecordInv, TranscriptAccounts, Unasked, Asking, Answered
  <1> QED BY <1>1, <1>3, <1>5 DEF RecordInv, RecordTyped

LEMMA RecordStep ==
  ASSUME RecordInv, NEW t \in Turns, Record(t)
  PROVE  RecordTyped' /\ pc' \in [Turns -> Labels] /\ TranscriptAccounts'
  <1>1. /\ pc[t] \in Unasked /\ pc' = [pc EXCEPT ![t] = "asked"]
        /\ AddTurn("user", t)
    BY DEF Record, Goto, Unasked
  <1>2. /\ transcript' \in Seq(Entry) /\ turnCount' = Len(transcript')
        /\ Len(transcript) \in Nat
        /\ \A r \in Roles, u \in Turns :
             /\ Positions(r, u) \subseteq 1 .. Len(transcript)
             /\ r # "user" \/ u # t => Positions(r, u)' = Positions(r, u)
        /\ Positions("user", t)' = Positions("user", t) \cup {Len(transcript) + 1}
    BY <1>1, AddTurnStep DEF RecordInv, Roles
  <1>3. RecordTyped' /\ pc' \in [Turns -> Labels]
    BY <1>1, <1>2 DEF RecordInv, RecordTyped, Labels
  <1>4. Positions("user", t) = {} /\ Positions("agent", t) = {}
    BY <1>1 DEF RecordInv, TranscriptAccounts, Unasked
  <1>5. pc'[t] = "asked" /\ \A u \in Turns \ {t} : pc'[u] = pc[u]
    BY <1>1 DEF RecordInv
  <1>6. /\ Positions("user", t)' = {Len(transcript) + 1}
        /\ Positions("agent", t)' = {}
        /\ \A r \in Roles, u \in Turns \ {t} : Positions(r, u)' = Positions(r, u)
    BY <1>2, <1>4 DEF Roles
  <1>7. TranscriptAccounts'
    BY <1>2, <1>5, <1>6 DEF RecordInv, TranscriptAccounts, Roles
  <1> QED BY <1>3, <1>7

LEMMA RecordAnswerStep ==
  ASSUME RecordInv, NEW t \in Turns, RecordAnswer(t)
  PROVE  RecordTyped' /\ pc' \in [Turns -> Labels] /\ TranscriptAccounts'
  <1>1. /\ pc[t] = "tts" /\ AddTurn("agent", t)
        /\ \E to \in Answered : pc' = [pc EXCEPT ![t] = to]
    BY DEF RecordAnswer, Goto, Answered
  <1>2. /\ transcript' \in Seq(Entry) /\ turnCount' = Len(transcript')
        /\ Len(transcript) \in Nat
        /\ \A r \in Roles, u \in Turns :
             /\ Positions(r, u) \subseteq 1 .. Len(transcript)
             /\ r # "agent" \/ u # t => Positions(r, u)' = Positions(r, u)
        /\ Positions("agent", t)' = Positions("agent", t) \cup {Len(transcript) + 1}
    BY <1>1, AddTurnStep DEF RecordInv, Roles
  <1>3. RecordTyped' /\ pc' \in [Turns -> Labels]
    BY <1>1, <1>2 DEF RecordInv, RecordTyped, Labels, Answered
  <1>4. Positions("user", t) # {} /\ Positions("agent", t) = {}
    BY <1>1 DEF RecordInv, TranscriptAccounts
  <1>5. pc'[t] \in Answered /\ \A u \in Turns \ {t} : pc'[u] = pc[u]
    BY <1>1 DEF RecordInv
  <1>6. /\ Positions("agent", t)' = {Len(transcript) + 1}
        /\ Positions("user", t)' = Positions("user", t)
        /\ \A r \in Roles, u \in Turns \ {t} : Positions(r, u)' = Positions(r, u)
    BY <1>2, <1>4 DEF Roles
  <1>7. \E j \in Positions("user", t) : j < Len(transcript) + 1
    BY <1>2, <1>4 DEF Roles
  <1>8. TranscriptAccounts'
    BY <1>2, <1>4, <1>5, <1>6, <1>7 DEF RecordInv, TranscriptAccounts, Roles, Answered
  <1> QED BY <1>3, <1>8

\* The turns a step moves without recording, and from where to where.
LEMMA QuietCases ==
  ASSUME Next, ~Greet, ~ \E t \in Turns : Record(t) \/ RecordAnswer(t)
  PROVE  \/ UNCHANGED <<record, pc>>
         \/ /\ UNCHANGED record
            /\ \E t \in Turns : \E to \in Labels :
                 /\ pc' = [pc EXCEPT ![t] = to]
                 /\ to \in Unasked => pc[t] \in Unasked
                 /\ to \in Asking => pc[t] \in Asking
                 /\ pc[t] \in Answered => to \in Answered
  <1>1. CASE HandleAudio
    BY <1>1 DEF HandleAudio
  <1>2. ASSUME NEW t \in Spoken, SpokenStep(t)
        PROVE  /\ UNCHANGED record
               /\ \E to \in Labels :
                    /\ pc' = [pc EXCEPT ![t] = to]
                    /\ to \in Unasked => pc[t] \in Unasked
                    /\ to \in Asking => pc[t] \in Asking
                    /\ pc[t] \in Answered => to \in Answered
    BY <1>2 DEF SpokenStep, EndSpeech, Transcribe, UpdateMetrics, Goto, Labels, Unasked, Asking,
      Answered
  <1>3. ASSUME NEW t \in Turns, TurnStep(t), ~Record(t), ~RecordAnswer(t)
        PROVE  \/ UNCHANGED <<record, pc>>
               \/ /\ UNCHANGED record
                  /\ \E to \in Labels :
                       /\ pc' = [pc EXCEPT ![t] = to]
                       /\ to \in Unasked => pc[t] \in Unasked
                       /\ to \in Asking => pc[t] \in Asking
                       /\ pc[t] \in Answered => to \in Answered
    BY <1>3 DEF TurnStep, Ask, Return, Synthesize, TurnEnds, CallTools, RunHandler, ToolNotFound, NextCall,
      AskAgain, Goto, Labels, Unasked, Asking, Answered
  <1> QED BY <1>1, <1>2, <1>3 DEF Next, Turns

LEMMA RecordInit == Init => RecordInv
  <1> SUFFICES ASSUME Init
               PROVE  RecordInv
    OBVIOUS
  <1>1. transcript = <<>> /\ turnCount = 0
    BY DEF Init
  <1>2. \A r \in Roles, t \in Turns : Positions(r, t) = {}
    BY <1>1 DEF Positions
  <1>3. pc \in [Turns -> Labels] /\ \A t \in Turns : pc[t] = "none"
    BY DEF Init, Labels
  <1>4. RecordTyped
    BY <1>1 DEF RecordTyped
  <1>5. TranscriptAccounts
    BY <1>2, <1>3, <1>4 DEF TranscriptAccounts, Roles, RecordTyped
  <1> QED BY <1>3, <1>4, <1>5 DEF RecordInv

LEMMA GreetStep ==
  ASSUME RecordInv, Greet
  PROVE  RecordInv'
  <1>1. /\ transcript' \in Seq(Entry) /\ turnCount' = Len(transcript')
        /\ \A r \in Roles, u \in Turns : Positions(r, u)' = Positions(r, u)
    BY AddTurnStep, TurnsAssumption DEF Greet, RecordInv, Roles, Turns
  <1>2. pc' = pc
    BY DEF Greet
  <1> QED BY <1>1, <1>2 DEF RecordInv, RecordTyped, TranscriptAccounts, Roles

LEMMA RecordNext == RecordInv /\ [Next]_vars => RecordInv'
  <1> SUFFICES ASSUME RecordInv, [Next]_vars
               PROVE  RecordInv'
    OBVIOUS
  <1>1. CASE \E t \in Turns : Record(t)
    BY <1>1, RecordStep DEF RecordInv
  <1>2. CASE \E t \in Turns : RecordAnswer(t)
    BY <1>2, RecordAnswerStep DEF RecordInv
  <1>3. CASE UNCHANGED <<record, pc>>
    BY <1>3 DEF record, RecordInv, RecordTyped, TranscriptAccounts, Positions
  <1>4. ASSUME UNCHANGED record, NEW t \in Turns, NEW to \in Labels,
               pc' = [pc EXCEPT ![t] = to],
               to \in Unasked => pc[t] \in Unasked,
               to \in Asking => pc[t] \in Asking,
               pc[t] \in Answered => to \in Answered
        PROVE  RecordInv'
    BY <1>4, RecordsNothing
  <1>5. CASE UNCHANGED vars
    BY <1>3, <1>5 DEF vars
  <1> QED BY <1>1, <1>2, <1>3, <1>4, <1>5, QuietCases, GreetStep

\* Transcript and turn count agree, and every turn asks once before it answers.
THEOREM TranscriptIsAccounted == Spec => []TranscriptAccounts
  <1>1. RecordInv => TranscriptAccounts
    BY DEF RecordInv
  <1> QED BY <1>1, RecordInit, RecordNext, PTL DEF Spec

----------------------------------------------------------------------------
(* The requests                                                            *)

\* A turn inside Generate has messages.
Generating == {"llm", "tools"}
MessagesAsked == \A t \in Turns : pc[t] \in Generating => messages[t] # <<>>

\* In the loop over the calls of a reply, the reply comes before the answers given
\* so far, and everything before the reply is answered.
OpenRound(r, n, d) ==
  LET i == Len(r) - d IN
  /\ i \in 1 .. Len(r)
  /\ r[i].role = "calls" /\ r[i].number = n
  /\ \A k \in 1 .. d : r[i + k].role = "tool" /\ r[i + k].number = k
  /\ \A j \in 1 .. i - 1 : AnsweredAt(r, j)

RoundsOpen == \A t \in Turns : pc[t] = "tools" => OpenRound(messages[t], calls[t], done[t])

\* A step that moves no turn into Generate or about in it.
NoneAsks == \A u \in Turns : pc'[u] \in Generating => pc'[u] = pc[u]

RequestsInv ==
  /\ MessagesAsked /\ RecordInv /\ RequestsTyped /\ RequestKnowsPast
  /\ RequestWellFormed /\ RoundsOpen

\* Behind the system prompt the whole transcript, then the input; no calls yet.
LEMMA BuildRequestStep ==
  ASSUME RecordTyped, NEW t \in Turns
  PROVE  /\ BuildRequest(t) \in Seq(Message)
         /\ Len(BuildRequest(t)) = Len(transcript) + 2
         /\ \A i \in 1 .. Len(transcript) : BuildRequest(t)[i + 1] = AsMessage(transcript[i])
         /\ CallsAnswered(BuildRequest(t))
  <1> DEFINE system == [role |-> "system", of |-> None, number |-> 0]
             own == [role |-> "user", of |-> t, number |-> 0]
             past == [i \in DOMAIN transcript |-> AsMessage(transcript[i])]
             quiet == {m \in Message : m.role \notin {"calls", "tool"}}
  <1>1. system \in quiet /\ own \in quiet
    BY DEF Message, Turns
  <1>2. transcript \in Seq(Entry) /\ Len(transcript) \in Nat
          /\ DOMAIN transcript = 1 .. Len(transcript)
    BY LenProperties DEF RecordTyped
  <1>3. \A i \in 1 .. Len(transcript) : AsMessage(transcript[i]) \in quiet
    <2> TAKE i \in 1 .. Len(transcript)
    <2>1. transcript[i] \in Entry
      BY <1>2, ElementOfSeq
    <2> QED BY <2>1 DEF AsMessage, Entry, Message
  <1>4. BuildRequest(t) = <<system>> \o past \o <<own>>
    BY DEF BuildRequest, History
  <1> HIDE DEF system, own, quiet
  <1>5. /\ past \in Seq(quiet) /\ Len(past) = Len(transcript)
        /\ \A i \in 1 .. Len(transcript) : past[i] = AsMessage(transcript[i])
    BY <1>2, <1>3
  <1> HIDE DEF past
  <1>6. <<system>> \in Seq(quiet) /\ Len(<<system>>) = 1
          /\ <<own>> \in Seq(quiet) /\ Len(<<own>>) = 1
    BY <1>1
  <1> DEFINE head == <<system>> \o past
  <1>7. /\ head \in Seq(quiet) /\ Len(head) = Len(transcript) + 1
        /\ \A i \in 1 .. Len(transcript) : head[i + 1] = past[i]
    BY <1>2, <1>5, <1>6, ConcatProperties
  <1> HIDE DEF head
  <1>8. /\ BuildRequest(t) \in Seq(quiet) /\ Len(BuildRequest(t)) = Len(transcript) + 2
        /\ \A i \in 1 .. Len(transcript) : BuildRequest(t)[i + 1] = head[i + 1]
    <2>1. BuildRequest(t) = head \o <<own>>
      BY <1>4 DEF head
    <2>2. /\ BuildRequest(t) \in Seq(quiet) /\ Len(BuildRequest(t)) = Len(head) + 1
          /\ \A i \in 1 .. Len(head) : BuildRequest(t)[i] = head[i]
      BY <1>2, <1>6, <1>7, <2>1, ConcatProperties
    <2> QED BY <1>2, <1>7, <2>2
  <1>9. \A i \in DOMAIN BuildRequest(t) : BuildRequest(t)[i] \in quiet
    BY <1>8, ElementOfSeq, LenProperties
  <1>10. CallsAnswered(BuildRequest(t))
    BY <1>9 DEF CallsAnswered, AnsweredAt, quiet
  <1>11. BuildRequest(t) \in Seq(Message)
    <2>1. quiet \subseteq Message
      BY DEF quiet
    <2> QED BY <1>8, <2>1, SeqMonotonic
  <1> QED BY <1>5, <1>7, <1>8, <1>10, <1>11

\* A message whose neighbours are there keeps them when another joins.
LEMMA AppendKeeps ==
  ASSUME NEW r \in Seq(Message), NEW x \in Message, NEW j \in 1 .. Len(r), AnsweredAt(r, j)
  PROVE  AnsweredAt(Append(r, x), j)
  <1> DEFINE longer == Append(r, x)
  <1>1. /\ Len(r) \in Nat /\ DOMAIN r = 1 .. Len(r)
        /\ longer \in Seq(Message) /\ Len(longer) = Len(r) + 1
        /\ \A i \in 1 .. Len(r) : longer[i] = r[i]
    BY AppendProperties, LenProperties
  <1> HIDE DEF longer
  <1>2. DOMAIN longer = 1 .. Len(r) + 1
    BY <1>1, LenProperties
  <1>3. \A i \in DOMAIN r : i \in DOMAIN longer /\ longer[i] = r[i]
    BY <1>1, <1>2
  <1>4. longer[j] = r[j]
    BY <1>1
  <1>5. ASSUME r[j].role = "calls", NEW k \in 1 .. r[j].number
        PROVE  j + k \in DOMAIN longer /\ longer[j + k].role = "tool" /\ longer[j + k].number = k
    BY <1>3, <1>5 DEF AnsweredAt
  <1>6. ASSUME r[j].role = "tool"
        PROVE  /\ j - r[j].number \in DOMAIN longer
               /\ longer[j - r[j].number].role = "calls"
               /\ r[j].number \in 1 .. longer[j - r[j].number].number
    BY <1>3, <1>6 DEF AnsweredAt
  <1>7. AnsweredAt(longer, j)
    BY <1>4, <1>5, <1>6 DEF AnsweredAt
  <1> QED BY <1>7 DEF longer

\* A reply that calls tools opens a round behind an answered request.
LEMMA RoundOpens ==
  ASSUME NEW r \in Seq(Message), CallsAnswered(r), NEW x \in Message, x.role = "calls"
  PROVE  OpenRound(Append(r, x), x.number, 0)
  <1> DEFINE longer == Append(r, x)
  <1>1. /\ Len(r) \in Nat /\ DOMAIN r = 1 .. Len(r)
        /\ Len(longer) = Len(r) + 1 /\ longer[Len(r) + 1] = x
    BY AppendProperties, LenProperties
  <1>2. \A j \in 1 .. Len(r) : AnsweredAt(longer, j)
    BY <1>1, AppendKeeps DEF CallsAnswered
  <1> HIDE DEF longer
  <1>3. Len(longer) - 0 = Len(r) + 1 /\ (Len(r) + 1) - 1 = Len(r)
    BY <1>1
  <1>4. OpenRound(longer, x.number, 0)
    BY <1>1, <1>2, <1>3 DEF OpenRound
  <1> QED BY <1>4 DEF longer

\* The answer to the next call keeps the round.
LEMMA RoundGoesOn ==
  ASSUME NEW r \in Seq(Message), NEW n \in Nat, NEW d \in Nat, OpenRound(r, n, d),
         NEW x \in Message, x.role = "tool", x.number = d + 1
  PROVE  OpenRound(Append(r, x), n, d + 1)
  <1> DEFINE longer == Append(r, x)
             i == Len(r) - d
  <1>1. /\ Len(r) \in Nat /\ Len(longer) = Len(r) + 1 /\ longer[Len(r) + 1] = x
        /\ \A j \in 1 .. Len(r) : longer[j] = r[j]
    BY AppendProperties, LenProperties
  <1>2. i \in 1 .. Len(r) /\ Len(longer) - (d + 1) = i /\ i + (d + 1) = Len(r) + 1
    BY <1>1 DEF OpenRound
  <1>3. \A j \in 1 .. i - 1 : AnsweredAt(longer, j)
    <2> TAKE j \in 1 .. i - 1
    <2>1. j \in 1 .. Len(r) /\ AnsweredAt(r, j)
      BY <1>1, <1>2 DEF OpenRound
    <2> QED BY <2>1, AppendKeeps
  <1> HIDE DEF longer
  <1>4. longer[i].role = "calls" /\ longer[i].number = n
    BY <1>1, <1>2 DEF OpenRound
  <1>5. \A k \in 1 .. d + 1 : longer[i + k].role = "tool" /\ longer[i + k].number = k
    <2> TAKE k \in 1 .. d + 1
    <2>1. CASE k = d + 1
      BY <1>1, <1>2, <2>1
    <2>2. CASE k # d + 1
      <3>1. k \in 1 .. d /\ i + k \in 1 .. Len(r)
        BY <1>1, <1>2, <2>2
      <3> QED BY <1>1, <3>1 DEF OpenRound
    <2> QED BY <2>1, <2>2
  <1>6. i \in 1 .. Len(longer)
    BY <1>1, <1>2
  <1>7. OpenRound(longer, n, d + 1)
    <2> HIDE DEF i
    <2> QED BY <1>2, <1>3, <1>4, <1>5, <1>6 DEF OpenRound
  <1> QED BY <1>7 DEF longer

\* A round with as many answers as calls leaves the request answered.
LEMMA RoundCloses ==
  ASSUME NEW r \in Seq(Message), NEW n \in Nat, OpenRound(r, n, n)
  PROVE  CallsAnswered(r)
  <1> DEFINE i == Len(r) - n
  <1>1. /\ Len(r) \in Nat /\ DOMAIN r = 1 .. Len(r) /\ i \in 1 .. Len(r)
        /\ r[i].role = "calls" /\ r[i].number = n
        /\ \A k \in 1 .. n : r[i + k].role = "tool" /\ r[i + k].number = k
        /\ i + n = Len(r)
    BY LenProperties DEF OpenRound
  <1> SUFFICES ASSUME NEW j \in DOMAIN r
               PROVE  AnsweredAt(r, j)
    BY DEF CallsAnswered
  <1>2. CASE j \in 1 .. i - 1
    BY <1>2 DEF OpenRound
  <1> HIDE DEF i
  <1>3. CASE j = i
    <2>1. \A k \in 1 .. n : i + k \in DOMAIN r
      BY <1>1
    <2> QED BY <1>1, <1>3, <2>1 DEF AnsweredAt
  <1>4. CASE j > i
    <2> DEFINE k == j - i
    <2>1. k \in 1 .. n /\ i + k = j /\ j - k = i
      BY <1>1, <1>4
    <2> HIDE DEF k
    <2>2. r[j].role = "tool" /\ r[j].number = k
      BY <1>1, <2>1
    <2> QED BY <1>1, <2>1, <2>2 DEF AnsweredAt
  <1> QED BY <1>1, <1>2, <1>3, <1>4

\* A step that leaves the transcript as it is.
LEMMA SameTranscript ==
  ASSUME transcript' = transcript,
         \A u \in Turns : messages'[u] # <<>> =>
           \E own \in Positions("user", u) :
             /\ own < Len(messages'[u])
             /\ \A i \in 1 .. own : messages'[u][i + 1] = AsMessage(transcript[i])
  PROVE  RequestKnowsPast'
  <1>1. \A u \in Turns : Positions("user", u)' = Positions("user", u)
    BY DEF Positions
  <1> QED BY <1>1 DEF RequestKnowsPast, AsMessage

\* What was copied from the transcript stays where it is when a message joins.
LEMMA AppendKnowsPast ==
  ASSUME RequestsInv, NEW t \in Turns, NEW x \in Message, pc[t] \in Generating,
         messages' = [messages EXCEPT ![t] = Append(@, x)], transcript' = transcript
  PROVE  /\ messages' \in [Turns -> Seq(Message)] /\ messages'[t] = Append(messages[t], x)
         /\ messages'[t] # <<>> /\ \A u \in Turns \ {t} : messages'[u] = messages[u]
         /\ RequestKnowsPast'
  <1> DEFINE old == messages[t]
             new == Append(messages[t], x)
  <1>1. /\ old \in Seq(Message) /\ old # <<>> /\ transcript \in Seq(Entry)
    BY DEF RequestsInv, RequestsTyped, RecordInv, RecordTyped, MessagesAsked
  <1>2. /\ messages'[t] = new /\ \A u \in Turns \ {t} : messages'[u] = messages[u]
    BY DEF RequestsInv, RequestsTyped
  <1> HIDE DEF old
  <1>3. /\ Len(old) \in Nat /\ new = Append(old, x)
        /\ new \in Seq(Message) /\ Len(new) = Len(old) + 1
        /\ \A i \in 1 .. Len(old) : new[i] = old[i]
    <2>1. new = Append(old, x)
      BY DEF old
    <2> HIDE DEF new
    <2> QED BY <1>1, <2>1, AppendProperties, LenProperties
  <1> HIDE DEF new
  <1>4. messages' \in [Turns -> Seq(Message)] /\ new # <<>>
    <2>1. messages' = [messages EXCEPT ![t] = new]
      BY DEF new
    <2> HIDE DEF new
    <2>2. messages' \in [Turns -> Seq(Message)]
      BY <1>3, <2>1 DEF RequestsInv, RequestsTyped
    <2>3. new # <<>>
      BY <1>3
    <2> QED BY <2>2, <2>3
  <1>5. RequestKnowsPast'
    <2> SUFFICES ASSUME NEW u \in Turns, messages'[u] # <<>>
                 PROVE  \E own \in Positions("user", u) :
                          /\ own < Len(messages'[u])
                          /\ \A i \in 1 .. own : messages'[u][i + 1] = AsMessage(transcript[i])
      BY SameTranscript
    <2>1. CASE u # t
      BY <1>2, <2>1 DEF RequestsInv, RequestKnowsPast
    <2>2. CASE u = t
      <3>1. PICK own \in Positions("user", t) :
              /\ own < Len(old)
              /\ \A i \in 1 .. own : old[i + 1] = AsMessage(transcript[i])
        BY <1>1 DEF RequestsInv, RequestKnowsPast, old
      <3>2. own \in Nat
        BY <1>1, LenProperties DEF Positions
      <3>3. \A i \in 1 .. own : i + 1 \in 1 .. Len(old)
        BY <1>3, <3>1, <3>2
      <3>4. own < Len(new) /\ \A i \in 1 .. own : new[i + 1] = AsMessage(transcript[i])
        BY <1>3, <3>1, <3>2, <3>3
      <3> QED BY <1>2, <2>2, <3>4
    <2> QED BY <2>1, <2>2
  <1> QED BY <1>2, <1>4, <1>5 DEF new

\* A step outside Generate leaves the requests in order.
LEMMA Untouched ==
  ASSUME RequestsInv, UNCHANGED requests, NoneAsks
  PROVE  MessagesAsked' /\ RequestsTyped' /\ RequestWellFormed' /\ RoundsOpen'
  <1>1. /\ messages' = messages /\ sent' = sent /\ iteration' = iteration
        /\ calls' = calls /\ done' = done
    BY DEF requests
  <1>2. \A u \in Turns : pc'[u] \in {"llm", "tools"} => pc[u] = pc'[u]
    BY DEF NoneAsks, Generating
  <1>3. MessagesAsked' /\ RequestsTyped'
    BY <1>1, <1>2 DEF RequestsInv, MessagesAsked, Generating, RequestsTyped
  <1>4. RequestWellFormed'
    BY <1>1, <1>2 DEF RequestsInv, RequestWellFormed, CallsAnswered, AnsweredAt
  <1>5. RoundsOpen'
    BY <1>1, <1>2 DEF RequestsInv, RoundsOpen, OpenRound, AnsweredAt
  <1> QED BY <1>3, <1>4, <1>5

\* The first own + 1 messages of the requests are kept while they are sent.
LEMMA RequestsInvariant == Spec => []RequestsInv
  <1>1. Init => RequestsInv
    <2> SUFFICES ASSUME Init
                 PROVE  RequestsInv
      OBVIOUS
    <2>1. RecordInv
      BY RecordInit
    <2>2. \A t \in Turns : messages[t] = <<>> /\ pc[t] = "none"
      BY DEF Init
    <2>3. RequestsTyped
      <3>1. 0 \in 0 .. MaxToolIterations - 1
        BY BoundsAssumption
      <3>2. <<>> \in Seq(Message)
        OBVIOUS
      <3> QED BY <3>1, <3>2 DEF Init, RequestsTyped
    <2>4. RequestKnowsPast
      BY <2>2 DEF RequestKnowsPast
    <2>5. MessagesAsked /\ RequestWellFormed /\ RoundsOpen
      BY <2>2 DEF MessagesAsked, Generating, RequestWellFormed, RoundsOpen
    <2> QED BY <2>1, <2>3, <2>4, <2>5 DEF RequestsInv
  <1>2. RequestsInv /\ [Next]_vars => RequestsInv'
    <2> SUFFICES ASSUME RequestsInv, [Next]_vars
                 PROVE  RequestsInv'
      OBVIOUS
    <2>0. /\ RecordInv' /\ transcript \in Seq(Entry) /\ Len(transcript) \in Nat
          /\ \A t \in Turns : messages[t] \in Seq(Message)
          /\ pc \in [Turns -> Labels]
      BY RecordNext, LenProperties DEF RequestsInv, RecordInv, RecordTyped, RequestsTyped
    <2>1. ASSUME NEW t \in Turns \cup {None}, NEW role \in Roles, AddTurn(role, t), UNCHANGED requests,
                 NoneAsks
          PROVE  RequestsInv'
      <3>1. /\ \A i \in 1 .. Len(transcript) : transcript'[i] = transcript[i]
            /\ \A u \in Turns : /\ Positions("user", u) \subseteq Positions("user", u)'
                                /\ Positions("user", u) \subseteq 1 .. Len(transcript)
        BY <2>1, AddTurnStep DEF RequestsInv, RecordInv, Roles
      <3>2. messages' = messages
        BY <2>1 DEF requests
      <3>3. RequestKnowsPast'
        <4> SUFFICES ASSUME NEW u \in Turns, messages[u] # <<>>
                     PROVE  \E own \in Positions("user", u)' :
                              /\ own < Len(messages[u])
                              /\ \A i \in 1 .. own : messages[u][i + 1] = AsMessage(transcript'[i])
          BY <3>2 DEF RequestKnowsPast, AsMessage
        <4>1. PICK own \in Positions("user", u) :
                /\ own < Len(messages[u])
                /\ \A i \in 1 .. own : messages[u][i + 1] = AsMessage(transcript[i])
          BY DEF RequestsInv, RequestKnowsPast
        <4>2. own \in 1 .. Len(transcript)
          BY <3>1
        <4>3. \A i \in 1 .. own : transcript'[i] = transcript[i]
          BY <2>0, <3>1, <4>2
        <4> QED BY <3>1, <4>1, <4>3
      <3>4. MessagesAsked' /\ RequestsTyped' /\ RequestWellFormed' /\ RoundsOpen'
        BY <2>1, Untouched
      <3> QED BY <2>0, <3>3, <3>4 DEF RequestsInv
    <2>2. ASSUME NEW t \in Turns, Ask(t)
          PROVE  RequestsInv'
      <3>1. /\ pc[t] = "asked" /\ messages' = [messages EXCEPT ![t] = BuildRequest(t)]
            /\ pc' = [pc EXCEPT ![t] = "llm"]
            /\ sent' = [sent EXCEPT ![t] = Len(messages'[t])]
            /\ transcript' = transcript /\ UNCHANGED <<iteration, calls, done>>
        BY <2>2 DEF Ask, Goto, record
      <3>2. /\ BuildRequest(t) \in Seq(Message)
            /\ Len(BuildRequest(t)) = Len(transcript) + 2
            /\ \A i \in 1 .. Len(transcript) : BuildRequest(t)[i + 1] = AsMessage(transcript[i])
            /\ CallsAnswered(BuildRequest(t))
        BY BuildRequestStep DEF RequestsInv, RecordInv
      <3>3. messages'[t] = BuildRequest(t) /\ \A u \in Turns \ {t} : messages'[u] = messages[u]
        BY <3>1 DEF RequestsInv, RequestsTyped
      <3>4. RequestsTyped'
        <4>1. Len(messages'[t]) \in Nat
          BY <2>0, <3>2, <3>3
        <4> QED BY <3>1, <3>2, <4>1 DEF RequestsInv, RequestsTyped
      <3>5. RequestKnowsPast'
        <4>1. \A u \in Turns : Positions("user", u)' = Positions("user", u)
          BY <3>1 DEF Positions
        <4>2. Positions("user", t) # {}
          BY <3>1 DEF RequestsInv, RecordInv, TranscriptAccounts
        <4>3. PICK own \in Positions("user", t) : TRUE
          BY <4>2
        <4>4. own \in 1 .. Len(transcript)
          BY <2>0, LenProperties DEF Positions
        <4>5. /\ own < Len(BuildRequest(t))
              /\ \A i \in 1 .. own : BuildRequest(t)[i + 1] = AsMessage(transcript[i])
          BY <2>0, <3>2, <4>4
        <4> QED BY <3>1, <3>3, <4>1, <4>5 DEF RequestsInv, RequestKnowsPast, AsMessage
      <3>6. pc'[t] = "llm" /\ \A u \in Turns \ {t} : pc'[u] = pc[u]
        BY <2>0, <3>1
      <3>7. /\ sent'[t] = Len(messages'[t])
            /\ \A u \in Turns \ {t} : sent'[u] = sent[u]
        BY <3>1 DEF RequestsInv, RequestsTyped
      <3>8. RequestWellFormed'
        <4>1. \A u \in Turns : pc'[u] = "llm" =>
                sent'[u] = Len(messages'[u]) /\ CallsAnswered(messages'[u])
          <5> TAKE u \in Turns
          <5>1. CASE u = t
            BY <3>2, <3>3, <3>6, <3>7, <5>1 DEF Generating
          <5>2. CASE u # t
            BY <3>2, <3>3, <3>6, <3>7, <5>2 DEF RequestsInv, RequestWellFormed
          <5> QED BY <5>1, <5>2
        <4> QED BY <4>1 DEF RequestWellFormed, CallsAnswered, AnsweredAt
      <3>9. RoundsOpen'
        BY <3>1, <3>3, <3>6 DEF RequestsInv, RoundsOpen, OpenRound, AnsweredAt
      <3>10. MessagesAsked'
        <4>1. BuildRequest(t) # <<>>
          BY <2>0, <3>2
        <4> QED BY <3>3, <3>6, <4>1 DEF RequestsInv, MessagesAsked
      <3> QED BY <2>0, <3>4, <3>5, <3>8, <3>9, <3>10 DEF RequestsInv
    <2>3. ASSUME NEW t \in Turns, NEW n \in CallCounts, CallTools(t, n)
          PROVE  RequestsInv'
      <3> DEFINE reply == [role |-> "calls", of |-> t, number |-> n]
      <3>1. /\ messages' = [messages EXCEPT ![t] = Append(@, reply)]
            /\ pc[t] = "llm" /\ pc' = [pc EXCEPT ![t] = "tools"]
            /\ calls' = [calls EXCEPT ![t] = n] /\ done' = [done EXCEPT ![t] = 0]
            /\ UNCHANGED <<sent, iteration>> /\ transcript' = transcript
        BY <2>3 DEF CallTools, Goto, record
      <3>2. /\ reply \in Message /\ reply.role = "calls" /\ reply.number = n
            /\ n \in Nat /\ n \in CallCounts \cup {0}
        BY BoundsAssumption DEF Message
      <3> HIDE DEF reply
      <3>3. /\ messages' \in [Turns -> Seq(Message)]
            /\ messages'[t] = Append(messages[t], reply) /\ messages'[t] # <<>>
            /\ \A u \in Turns \ {t} : messages'[u] = messages[u]
            /\ RequestKnowsPast'
        BY <3>1, <3>2, AppendKnowsPast DEF Generating
      <3>4. RequestsTyped'
        BY <3>1, <3>2, <3>3 DEF RequestsInv, RequestsTyped
      <3>5. /\ pc'[t] = "tools" /\ \A u \in Turns \ {t} : pc'[u] = pc[u]
            /\ calls'[t] = n /\ done'[t] = 0
            /\ \A u \in Turns \ {t} : calls'[u] = calls[u] /\ done'[u] = done[u]
        BY <2>0, <3>1 DEF RequestsInv, RequestsTyped
      <3>6. OpenRound(messages'[t], n, 0)
        <4>1. messages[t] \in Seq(Message) /\ CallsAnswered(messages[t])
          BY <2>0, <3>1 DEF RequestsInv, RequestWellFormed
        <4> QED BY <3>2, <3>3, <4>1, RoundOpens
      <3>7. RequestWellFormed'
        <4>1. \A u \in Turns : pc'[u] = "llm" =>
                sent'[u] = Len(messages'[u]) /\ CallsAnswered(messages'[u])
          <5> TAKE u \in Turns
          <5>1. CASE u = t
            BY <3>1, <3>3, <3>5, <5>1
          <5>2. CASE u # t
            BY <3>1, <3>3, <3>5, <5>2 DEF RequestsInv, RequestWellFormed
          <5> QED BY <5>1, <5>2
        <4> QED BY <4>1 DEF RequestWellFormed, CallsAnswered, AnsweredAt
      <3>9. MessagesAsked'
        BY <3>3, <3>5 DEF RequestsInv, MessagesAsked
      <3>8. RoundsOpen'
        <4>1. \A u \in Turns : pc'[u] = "tools" => OpenRound(messages'[u], calls'[u], done'[u])
          <5> TAKE u \in Turns
          <5>1. CASE u = t
            BY <3>3, <3>5, <3>6, <5>1 DEF Generating
          <5>2. CASE u # t
            BY <3>3, <3>5, <3>6, <5>2 DEF RequestsInv, RoundsOpen
          <5> QED BY <5>1, <5>2
        <4> QED BY <4>1 DEF RoundsOpen, OpenRound, AnsweredAt
      <3> QED BY <2>0, <3>3, <3>4, <3>7, <3>8, <3>9 DEF RequestsInv
    <2>12. ASSUME NEW t \in Turns, RunHandler(t) \/ ToolNotFound(t)
           PROVE  RequestsInv'
      <3> DEFINE answer == [role |-> "tool", of |-> t, number |-> done[t] + 1]
      <3>1. /\ messages' = [messages EXCEPT ![t] = Append(@, answer)]
            /\ pc[t] = "tools" /\ pc' = pc /\ done[t] < calls[t]
            /\ done' = [done EXCEPT ![t] = @ + 1]
            /\ UNCHANGED <<sent, iteration, calls>> /\ transcript' = transcript
        BY <2>12 DEF RunHandler, ToolNotFound, NextCall, AnswerCall, record
      <3>2. /\ done[t] \in Nat /\ calls[t] \in Nat /\ done[t] + 1 \in Nat
        <4>1. done[t] \in Nat /\ calls[t] \in CallCounts \cup {0}
          BY DEF RequestsInv, RequestsTyped
        <4>2. CallCounts \cup {0} \subseteq Nat
          BY BoundsAssumption
        <4> QED BY <4>1, <4>2
      <3>3. answer \in Message /\ answer.role = "tool" /\ answer.number = done[t] + 1
        BY <3>2 DEF Message
      <3> HIDE DEF answer
      <3>4. /\ messages' \in [Turns -> Seq(Message)]
            /\ messages'[t] = Append(messages[t], answer) /\ messages'[t] # <<>>
            /\ \A u \in Turns \ {t} : messages'[u] = messages[u]
            /\ RequestKnowsPast'
        BY <3>1, <3>3, AppendKnowsPast DEF Generating
      <3>5. RequestsTyped'
        BY <3>1, <3>2, <3>4 DEF RequestsInv, RequestsTyped
      <3>6. done'[t] = done[t] + 1 /\ \A u \in Turns \ {t} : done'[u] = done[u]
        BY <3>1 DEF RequestsInv, RequestsTyped
      <3>7. OpenRound(messages'[t], calls[t], done[t] + 1)
        <4>1. messages[t] \in Seq(Message) /\ OpenRound(messages[t], calls[t], done[t])
          BY <2>0, <3>1 DEF RequestsInv, RoundsOpen
        <4> QED BY <3>2, <3>3, <3>4, <4>1, RoundGoesOn
      <3>8. RequestWellFormed'
        <4>1. \A u \in Turns : pc'[u] = "llm" =>
                sent'[u] = Len(messages'[u]) /\ CallsAnswered(messages'[u])
          <5> TAKE u \in Turns
          <5>1. CASE u = t
            BY <3>1, <3>4, <5>1
          <5>2. CASE u # t
            BY <3>1, <3>4, <5>2 DEF RequestsInv, RequestWellFormed
          <5> QED BY <5>1, <5>2
        <4> QED BY <4>1 DEF RequestWellFormed, CallsAnswered, AnsweredAt
      <3>10. MessagesAsked'
        BY <3>1, <3>4 DEF RequestsInv, MessagesAsked
      <3>9. RoundsOpen'
        <4>1. \A u \in Turns : pc'[u] = "tools" => OpenRound(messages'[u], calls'[u], done'[u])
          <5> TAKE u \in Turns
          <5>1. CASE u = t
            BY <3>1, <3>4, <3>6, <3>7, <5>1 DEF Generating
          <5>2. CASE u # t
            BY <3>1, <3>4, <3>6, <3>7, <5>2 DEF RequestsInv, RoundsOpen
          <5> QED BY <5>1, <5>2
        <4> QED BY <4>1 DEF RoundsOpen, OpenRound, AnsweredAt
      <3> QED BY <2>0, <3>4, <3>5, <3>8, <3>9, <3>10 DEF RequestsInv
    <2>13. ASSUME NEW t \in Turns, AskAgain(t)
           PROVE  RequestsInv'
      <3>1. /\ pc[t] = "tools" /\ pc' = [pc EXCEPT ![t] = "llm"]
            /\ done[t] = calls[t] /\ iteration[t] + 1 < MaxToolIterations
            /\ sent' = [sent EXCEPT ![t] = Len(messages[t])]
            /\ iteration' = [iteration EXCEPT ![t] = @ + 1]
            /\ UNCHANGED <<messages, calls, done>> /\ transcript' = transcript
        BY <2>13 DEF AskAgain, Goto, record
      <3>2. messages[t] \in Seq(Message) /\ Len(messages[t]) \in Nat
        BY <2>0, LenProperties
      <3>3. RequestsTyped'
        <4>0. iteration[t] \in 0 .. MaxToolIterations - 1 /\ MaxToolIterations \in Nat
          BY BoundsAssumption DEF RequestsInv, RequestsTyped
        <4>1. iteration[t] + 1 \in 0 .. MaxToolIterations - 1
          BY <3>1, <4>0
        <4>2. iteration' \in [Turns -> 0 .. MaxToolIterations - 1]
          BY <3>1, <4>1 DEF RequestsInv, RequestsTyped
        <4>3. sent' \in [Turns -> Nat]
          BY <3>1, <3>2 DEF RequestsInv, RequestsTyped
        <4> QED BY <3>1, <4>2, <4>3 DEF RequestsInv, RequestsTyped
      <3>4. RequestKnowsPast'
        BY <3>1, SameTranscript DEF RequestsInv, RequestKnowsPast
      <3>5. CallsAnswered(messages[t])
        <4>1. OpenRound(messages[t], calls[t], calls[t]) /\ calls[t] \in Nat
          BY <3>1, BoundsAssumption DEF RequestsInv, RequestsTyped, RoundsOpen
        <4> QED BY <3>2, <4>1, RoundCloses
      <3>6. /\ pc'[t] = "llm" /\ \A u \in Turns \ {t} : pc'[u] = pc[u]
            /\ sent'[t] = Len(messages[t]) /\ \A u \in Turns \ {t} : sent'[u] = sent[u]
        BY <2>0, <3>1 DEF RequestsInv, RequestsTyped
      <3>7. RequestWellFormed'
        <4>1. \A u \in Turns : pc'[u] = "llm" =>
                sent'[u] = Len(messages'[u]) /\ CallsAnswered(messages'[u])
          <5> TAKE u \in Turns
          <5>1. CASE u = t
            BY <3>1, <3>5, <3>6, <5>1
          <5>2. CASE u # t
            BY <3>1, <3>5, <3>6, <5>2 DEF RequestsInv, RequestWellFormed
          <5> QED BY <5>1, <5>2
        <4> QED BY <4>1 DEF RequestWellFormed, CallsAnswered, AnsweredAt
      <3>8. RoundsOpen' /\ MessagesAsked'
        BY <3>1, <3>6 DEF RequestsInv, RoundsOpen, OpenRound, AnsweredAt, MessagesAsked, Generating
      <3> QED BY <2>0, <3>3, <3>4, <3>7, <3>8 DEF RequestsInv
    <2>4. ASSUME NEW t \in Turns, Return(t)
          PROVE  RequestsInv'
      <3>1. /\ messages' = [messages EXCEPT ![t] = <<>>]
            /\ \E to \in {"replied", "over"} : pc' = [pc EXCEPT ![t] = to]
            /\ sent' = [sent EXCEPT ![t] = 0] /\ iteration' = [iteration EXCEPT ![t] = 0]
            /\ calls' = [calls EXCEPT ![t] = 0] /\ done' = [done EXCEPT ![t] = 0]
            /\ transcript' = transcript
        BY <2>4 DEF Return, Goto, record
      <3>2. messages'[t] = <<>> /\ \A u \in Turns \ {t} : messages'[u] = messages[u]
        BY <3>1 DEF RequestsInv, RequestsTyped
      <3>3. RequestsTyped'
        <4>1. 0 \in 0 .. MaxToolIterations - 1 /\ <<>> \in Seq(Message)
          BY BoundsAssumption
        <4> QED BY <3>1, <4>1 DEF RequestsInv, RequestsTyped
      <3>4. RequestKnowsPast'
        BY <3>1, <3>2, SameTranscript DEF RequestsInv, RequestKnowsPast
      <3>5. /\ pc'[t] \notin Generating /\ \A u \in Turns \ {t} : pc'[u] = pc[u]
            /\ \A u \in Turns \ {t} : /\ sent'[u] = sent[u]
                                     /\ calls'[u] = calls[u] /\ done'[u] = done[u]
        BY <2>0, <3>1 DEF Generating, RequestsInv, RequestsTyped
      <3>6. RequestWellFormed'
        <4>1. \A u \in Turns : pc'[u] = "llm" =>
                sent'[u] = Len(messages'[u]) /\ CallsAnswered(messages'[u])
          <5> TAKE u \in Turns
          <5>1. CASE u = t
            BY <3>2, <3>5, <5>1 DEF Generating
          <5>2. CASE u # t
            BY <3>2, <3>5, <5>2 DEF RequestsInv, RequestWellFormed
          <5> QED BY <5>1, <5>2
        <4> QED BY <4>1 DEF RequestWellFormed, CallsAnswered, AnsweredAt
      <3>8. MessagesAsked'
        BY <3>2, <3>5 DEF RequestsInv, MessagesAsked
      <3>7. RoundsOpen'
        <4>1. \A u \in Turns : pc'[u] = "tools" => OpenRound(messages'[u], calls'[u], done'[u])
          <5> TAKE u \in Turns
          <5>1. CASE u = t
            BY <3>2, <3>5, <5>1 DEF Generating
          <5>2. CASE u # t
            BY <3>2, <3>5, <5>2 DEF RequestsInv, RoundsOpen
          <5> QED BY <5>1, <5>2
        <4> QED BY <4>1 DEF RoundsOpen, OpenRound, AnsweredAt
      <3> QED BY <2>0, <3>3, <3>4, <3>6, <3>7, <3>8 DEF RequestsInv
    <2>5. CASE UNCHANGED <<record, requests>> /\ NoneAsks
      <3>1. MessagesAsked' /\ RequestsTyped' /\ RequestWellFormed' /\ RoundsOpen'
        BY <2>5, Untouched
      <3>2. messages' = messages /\ transcript' = transcript
        BY <2>5 DEF record, requests
      <3>3. RequestKnowsPast'
        BY <3>2, SameTranscript DEF RequestsInv, RequestKnowsPast
      <3> QED BY <2>0, <3>1, <3>3 DEF RequestsInv
    <2>6. ASSUME NEW t \in Turns, Record(t)
          PROVE  RequestsInv'
      <3>1. AddTurn("user", t) /\ UNCHANGED requests /\ NoneAsks
        BY <2>0, <2>6 DEF Record, Goto, NoneAsks, Generating
      <3> QED BY <2>1, <3>1 DEF Roles
    <2>7. ASSUME NEW t \in Turns, RecordAnswer(t)
          PROVE  RequestsInv'
      <3>1. AddTurn("agent", t) /\ UNCHANGED requests /\ NoneAsks
        BY <2>0, <2>7 DEF RecordAnswer, Goto, NoneAsks, Generating
      <3> QED BY <2>1, <3>1 DEF Roles
    <2>8. ASSUME NEW t \in Turns, Synthesize(t) \/ TurnEnds(t)
          PROVE  RequestsInv'
      <3>1. UNCHANGED <<record, requests>> /\ NoneAsks
        BY <2>0, <2>8 DEF Synthesize, TurnEnds, Goto, NoneAsks, Generating
      <3> QED BY <2>5, <3>1
    <2>9. ASSUME NEW t \in Spoken, SpokenStep(t)
          PROVE  RequestsInv'
      <3>1. UNCHANGED <<record, requests>> /\ NoneAsks
        BY <2>0, <2>9 DEF SpokenStep, EndSpeech, Transcribe, UpdateMetrics, Goto, NoneAsks, Generating
      <3> QED BY <2>5, <3>1
    <2>10. CASE HandleAudio \/ UNCHANGED vars
      BY <2>5, <2>10 DEF HandleAudio, vars, NoneAsks
    <2>11. CASE Greet
      <3>1. AddTurn("agent", None) /\ UNCHANGED requests /\ NoneAsks
        BY <2>11 DEF Greet, NoneAsks
      <3> QED BY <2>1, <3>1 DEF Roles
    <2> QED BY <2>2, <2>3, <2>4, <2>6, <2>7, <2>8, <2>9, <2>10, <2>11, <2>12, <2>13
      DEF Next, TurnStep
  <1> QED BY <1>1, <1>2, PTL DEF Spec

\* A request holds what was recorded before its question, for any number of
\* turns beside it and any number of tool calls.
THEOREM RequestsKnowPast == Spec => []RequestKnowsPast
  <1>1. RequestsInv => RequestKnowsPast
    BY DEF RequestsInv
  <1> QED BY <1>1, RequestsInvariant, PTL

\* Whenever the LLM is asked, its calls so far are answered in the request, for
\* any number of rounds and calls and whatever becomes of each call.
THEOREM RequestsAreWellFormed == Spec => []RequestWellFormed
  <1>1. RequestsInv => RequestWellFormed
    BY DEF RequestsInv
  <1> QED BY <1>1, RequestsInvariant, PTL

\* The variables keep their types; Generate's loop keeps its bound.
THEOREM TypeCorrect == Spec => []TypeOK
  <1>1. AudioInv /\ RequestsInv /\ AverageInv => TypeOK
    BY DEF AudioInv, AudioTyped, TurnsTyped, RequestsInv, RecordInv, RecordTyped, RequestsTyped,
      AverageInv, TypeOK
  <1> QED BY <1>1, AudioInvariant, RequestsInvariant, AverageInvariant, PTL
=============================================================================
