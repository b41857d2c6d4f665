------------------------- MODULE TurnPipelineProofs -------------------------
(* Theorems about TurnPipeline, for every set of speakers, every channel   *)
(* capacity and every interruption mode.                                   *)
EXTENDS TurnPipeline, FiniteSetTheorems, TLAPS

\* A speaker about to push has a chunk to push.
ChunkInHand == \A t \in Speakers : pc[t] = "push" => left[t] > 0

\* The inductive invariant: the types, and the facts about the two flags.
TurnInv == TypeOK /\ ChunkInHand /\ InterruptBoundsSpeech /\ ProcessingMeansTurn

\* The labels of a goroutine that has started and has not ended.
Busy == Labels \ {"none", "spawned", "over"}

\* A step that only moves a speaker, to a push only with a chunk to send and
\* not interrupted.
QuietMove(t) ==
  \E from, to \in Busy :
    Move(t, from, to) /\ (to = "push" => left[t] # 0 /\ ~interrupted)

\* Provider answers, checks of the flag and giving up are such steps.
LEMMA QuietMoves ==
  ASSUME NEW t \in Speakers,
         \/ Transcribe(t) \/ Generate(t) \/ CheckInterrupted(t) \/ SendCheck(t)
         \/ GiveUp(t) \/ Move(t, "tts", "ending")
  PROVE  QuietMove(t)
BY DEF QuietMove, Transcribe, Generate, CheckInterrupted, SendCheck, GiveUp, Busy,
       Labels

\* Every step of Next is a quiet move or one of the actions that do more.
LEMMA NextCases ==
  ASSUME Next
  PROVE  \/ \E t \in Speakers : QuietMove(t) \/ Push(t) \/ (pc[t] = "tts" /\ Synthesize(t))
         \/ \E g \in Greeting : Greet(g) \/ EndGreeting(g)
         \/ \E t \in Turns : EndOfSpeech(t) \/ StartSpoken(t) \/ StartTyped(t)
                               \/ EndTurn(t)
         \/ StartLoops \/ HearVoice \/ DecideBargeIn \/ EarExit
         \/ BargeIn \/ BargeInClear \/ AppInterrupt \/ AppClear
         \/ TakeChunk \/ WriteChunk \/ WriteFail \/ Cancel
<1>1. ASSUME NEW t \in Speakers, Speak(t)
      PROVE  QuietMove(t) \/ Push(t) \/ (pc[t] = "tts" /\ Synthesize(t))
  BY <1>1, QuietMoves DEF Speak, Synthesize, Move
<1>2. ASSUME NEW t \in Turns, TurnStep(t)
      PROVE  \/ QuietMove(t) \/ Push(t) \/ (pc[t] = "tts" /\ Synthesize(t))
             \/ StartSpoken(t) \/ EndTurn(t)
  BY <1>1, <1>2, QuietMoves DEF TurnStep, Speakers
<1>3. Turns \subseteq Speakers /\ Greeting \subseteq Speakers
  BY DEF Speakers
<1>4. Spoken \subseteq Turns /\ Typed \subseteq Turns
  BY DEF Turns
<1> QED  BY <1>1, <1>2, <1>3, <1>4 DEF Next, EarStep, GreetingStep

\* Initially nobody speaks.
LEMMA InvInit == Init => TurnInv
<1> SUFFICES ASSUME Init PROVE TurnInv
  OBVIOUS
<1> USE BoundsAssumption DEF Init
<1>1. TypeOK
  <2>1. 0 \in 0 .. MaxChunks /\ 0 \in 0 .. OutCap
    OBVIOUS
  <2>2. pc \in [Speakers -> Labels] /\ left \in [Speakers -> 0 .. MaxChunks]
    BY <2>1 DEF Labels
  <2>3. extra \in [Speakers -> Nat]
    OBVIOUS
  <2> QED  BY <2>1, <2>2, <2>3 DEF TypeOK
<1>2. ChunkInHand /\ InterruptBoundsSpeech /\ ProcessingMeansTurn
  BY DEF ChunkInHand, InterruptBoundsSpeech, InHand, ProcessingMeansTurn
<1> QED  BY <1>1, <1>2 DEF TurnInv

\* A quiet move keeps the invariant.
LEMMA QuietStep ==
  ASSUME TurnInv, NEW t \in Speakers, QuietMove(t)
  PROVE  TurnInv'
<1> PICK from \in Busy, to \in Busy :
      Move(t, from, to) /\ (to = "push" => left[t] # 0 /\ ~interrupted)
  BY DEF QuietMove
<1>1. TypeOK'
  BY DEF TurnInv, TypeOK, Move, Goto, Busy, flags, speech, wire, history
<1>2. InterruptBoundsSpeech' /\ ChunkInHand'
  BY DEF TurnInv, TypeOK, InterruptBoundsSpeech, ChunkInHand, InHand, Move, Goto, flags,
         history
<1>3. UnderWay' = UnderWay
  BY DEF TurnInv, TypeOK, UnderWay, Move, Goto, Busy, Turns, Speakers
<1>4. ProcessingMeansTurn'
  BY <1>3 DEF TurnInv, ProcessingMeansTurn, Move, flags
<1> QED  BY <1>1, <1>2, <1>4 DEF TurnInv

\* A push spends the chunk in hand.
LEMMA PushStep ==
  ASSUME TurnInv, NEW t \in Speakers, Push(t)
  PROVE  TurnInv'
<1>1. TypeOK'
  BY BoundsAssumption
     DEF TurnInv, TypeOK, ChunkInHand, Push, Goto, Labels, flags, speech
<1>2. InterruptBoundsSpeech' /\ ChunkInHand'
  BY DEF TurnInv, TypeOK, InterruptBoundsSpeech, ChunkInHand, InHand, Push, Goto, Labels,
         flags
<1>3. UnderWay' = UnderWay
  BY DEF TurnInv, TypeOK, UnderWay, Push, Goto, Turns, Speakers
<1>4. ProcessingMeansTurn'
  BY <1>3 DEF TurnInv, ProcessingMeansTurn, Push, flags
<1> QED  BY <1>1, <1>2, <1>4 DEF TurnInv

\* An answer of the TTS provider fixes the chunks to send.
LEMMA SynthesizeStep ==
  ASSUME TurnInv, NEW t \in Speakers, pc[t] = "tts", Synthesize(t)
  PROVE  TurnInv'
<1>1. CASE Move(t, "tts", "ending")
  BY <1>1, QuietMoves, QuietStep
<1>2. CASE ~Move(t, "tts", "ending")
  <2> PICK n \in 0 .. MaxChunks : left' = [left EXCEPT ![t] = n]
    BY <1>2 DEF Synthesize
  <2> PICK to \in {"check3", "send"} : pc' = [pc EXCEPT ![t] = to]
    BY <1>2 DEF Synthesize, Goto
  <2> UNCHANGED <<flags, speech, wire, ctxDone, history>>
    BY <1>2 DEF Synthesize
  <2>1. TypeOK'
    BY DEF TurnInv, TypeOK, Labels, flags, speech, wire, history
  <2>2. InterruptBoundsSpeech' /\ ChunkInHand'
    BY DEF TurnInv, TypeOK, InterruptBoundsSpeech, ChunkInHand, InHand, flags, history
  <2>3. UnderWay' = UnderWay
    BY DEF TurnInv, TypeOK, UnderWay, Turns, Speakers
  <2>4. ProcessingMeansTurn'
    BY <2>3 DEF TurnInv, ProcessingMeansTurn, flags
  <2> QED  BY <2>1, <2>2, <2>4 DEF TurnInv
<1> QED  BY <1>1, <1>2

\* The greeting's own steps: it is not a turn, and isProcessing is not its flag.
LEMMA GreetingSteps ==
  ASSUME TurnInv, NEW g \in Greeting, Greet(g) \/ EndGreeting(g)
  PROVE  TurnInv'
<1> USE DEF Greet, EndGreeting, Goto
<1>1. g \in Speakers /\ g \notin Turns
  BY KindsAssumption DEF Speakers, Turns
<1>2. TypeOK'
  BY <1>1 DEF TurnInv, TypeOK, Labels, flags, speech, wire, history
<1>3. InterruptBoundsSpeech' /\ ChunkInHand'
  BY <1>1 DEF TurnInv, TypeOK, InterruptBoundsSpeech, ChunkInHand, InHand, flags, history
<1>4. UnderWay' = UnderWay
  BY <1>1 DEF TurnInv, TypeOK, UnderWay, Speakers
<1>5. ProcessingMeansTurn'
  BY <1>4 DEF TurnInv, ProcessingMeansTurn, flags
<1> QED  BY <1>2, <1>3, <1>5 DEF TurnInv

\* The first and the last steps of a turn.
LEMMA TurnEndsStep ==
  ASSUME TurnInv, NEW t \in Turns,
         EndOfSpeech(t) \/ StartSpoken(t) \/ StartTyped(t) \/ EndTurn(t)
  PROVE  TurnInv'
<1> USE DEF EndOfSpeech, StartSpoken, StartTyped, StartTurn, EndTurn, Goto
<1>1. t \in Speakers
  BY DEF Speakers
<1>2. TypeOK'
  BY <1>1, ZenonT(60) DEF TurnInv, TypeOK, Labels, flags, speech, wire, history
<1>3. InterruptBoundsSpeech' /\ ChunkInHand'
  BY <1>1 DEF TurnInv, TypeOK, InterruptBoundsSpeech, ChunkInHand, InHand, flags, history
<1>4. ProcessingMeansTurn'
  BY <1>1 DEF TurnInv, TypeOK, ProcessingMeansTurn, UnderWay, flags, Speakers
<1> QED  BY <1>2, <1>3, <1>4 DEF TurnInv

\* An interruption, a clear, the ear, the write loop and the context leave every
\* speaker where it is.
LEMMA OtherSteps ==
  ASSUME TurnInv,
         \/ StartLoops \/ HearVoice \/ DecideBargeIn \/ EarExit
         \/ BargeIn \/ BargeInClear \/ AppInterrupt \/ AppClear
         \/ TakeChunk \/ WriteChunk \/ WriteFail \/ Cancel
  PROVE  TurnInv'
<1>1. pc' = pc /\ left' = left /\ isProcessing' = isProcessing
  BY DEF StartLoops, HearVoice, DecideBargeIn, EarExit, BargeIn, BargeInClear,
         AppInterrupt, AppClear, SetInterrupted, ClearPlayback, TakeChunk, WriteChunk,
         WriteFail, Cancel, flags
<1>2. TypeOK'
  <2>1. CASE BargeIn \/ AppInterrupt
    <3>1. extra' \in [Speakers -> Nat]
      BY <2>1 DEF BargeIn, AppInterrupt, SetInterrupted
    <3>2. cutOff' \subseteq Turns
      BY <2>1 DEF BargeIn, AppInterrupt, TurnInv, TypeOK, UnderWay
    <3>3. interrupted' = TRUE /\ ear' \in {ear, "clear"} /\ app' \in {app, "clear"}
      BY <2>1 DEF BargeIn, AppInterrupt, SetInterrupted
    <3>4. UNCHANGED <<pc, left, isProcessing, isSpeaking, wire, ctxDone, late>>
      BY <2>1 DEF BargeIn, AppInterrupt, SetInterrupted
    <3> QED  BY <3>1, <3>2, <3>3, <3>4 DEF TurnInv, TypeOK, wire
  <2>2. CASE StartLoops \/ HearVoice \/ DecideBargeIn \/ EarExit
    BY <2>2 DEF StartLoops, HearVoice, DecideBargeIn, EarExit, flags, wire, history,
                TurnInv, TypeOK
  <2>3. CASE BargeInClear \/ AppClear
    BY <2>3 DEF BargeInClear, AppClear, ClearPlayback, flags, wire, TurnInv, TypeOK
  <2>4. CASE TakeChunk
    BY <2>4, BoundsAssumption
       DEF TakeChunk, flags, speech, history, TurnInv, TypeOK
  <2>5. CASE WriteChunk
    BY <2>5 DEF WriteChunk, flags, speech, TurnInv, TypeOK
  <2>6. CASE WriteFail \/ Cancel
    BY <2>6 DEF WriteFail, Cancel, flags, speech, wire, history, TurnInv, TypeOK
  <2> QED  BY <2>1, <2>2, <2>3, <2>4, <2>5, <2>6
<1>3. \/ interrupted' = interrupted /\ extra' = extra
      \/ extra' = [t \in Speakers |-> 0]
  BY DEF StartLoops, HearVoice, DecideBargeIn, EarExit, BargeIn, BargeInClear,
         AppInterrupt, AppClear, SetInterrupted, ClearPlayback, TakeChunk, WriteChunk,
         WriteFail, Cancel, flags, history
<1>4. ChunkInHand'
  BY <1>1 DEF TurnInv, ChunkInHand
<1>5. InterruptBoundsSpeech'
  <2>1. CASE interrupted' = interrupted /\ extra' = extra
    BY <1>1, <2>1 DEF TurnInv, InterruptBoundsSpeech, InHand
  <2>2. CASE extra' = [t \in Speakers |-> 0]
    BY <1>1, <2>2 DEF InterruptBoundsSpeech, InHand
  <2> QED  BY <1>3, <2>1, <2>2
<1>6. ProcessingMeansTurn'
  BY <1>1 DEF TurnInv, ProcessingMeansTurn, UnderWay
<1> QED  BY <1>2, <1>4, <1>5, <1>6 DEF TurnInv

\* Every step keeps the invariant.
LEMMA InvStep == TurnInv /\ [Next]_vars => TurnInv'
<1> SUFFICES ASSUME TurnInv, [Next]_vars PROVE TurnInv'
  OBVIOUS
<1>1. CASE Next
  BY <1>1, NextCases, QuietStep, PushStep, SynthesizeStep, GreetingSteps, TurnEndsStep,
     OtherSteps
<1>2. CASE UNCHANGED vars
  BY <1>2 DEF vars, flags, speech, wire, history, TurnInv, TypeOK, ChunkInHand,
              InterruptBoundsSpeech, InHand, ProcessingMeansTurn, UnderWay
<1> QED  BY <1>1, <1>2

\* While an interruption stands, every speaker (turn or greeting) gets out at
\* most one more chunk: sendAudioToTwilio checks the flag before each.
THEOREM InterruptionHolds == Spec => []InterruptBoundsSpeech
<1>1. TurnInv => InterruptBoundsSpeech
  BY DEF TurnInv
<1> QED  BY <1>1, InvInit, InvStep, PTL DEF Spec

\* isProcessing is set only while some turn is between its opening critical
\* section and its deferred reset.
THEOREM NoPhantomTurn == Spec => []ProcessingMeansTurn
<1>1. TurnInv => ProcessingMeansTurn
  BY DEF TurnInv
<1> QED  BY <1>1, InvInit, InvStep, PTL DEF Spec

\* The variables keep their types; audioOut never holds more than its capacity.
THEOREM TurnTypes == Spec => []TypeOK
<1>1. TurnInv => TypeOK
  BY DEF TurnInv
<1> QED  BY <1>1, InvInit, InvStep, PTL DEF Spec
----------------------------------------------------------------------------
(* What reaches Twilio after an interruption.                              *)

\* The speakers that have got a chunk out since the latest interruption, and
\* the chunk the write loop has taken and not yet written.
SpokeOn == {t \in Speakers : extra[t] > 0}
InWriter == IF writer = "holding" THEN 1 ELSE 0

\* Every chunk on its way to Twilio, or there since the clear, was in audioOut
\* or in the write loop at the clear, or was some speaker's single extra chunk.
StaleAccounted ==
  interrupted /\ ear # "clear" /\ app = "idle"
    => late + queued + InWriter <= OutCap + 1 + Cardinality(SpokeOn)

\* The number of speakers that spoke on is a natural number, at most all.
LEMMA SpokeOnCount ==
  /\ IsFiniteSet(SpokeOn)
  /\ Cardinality(SpokeOn) \in Nat
  /\ Cardinality(SpokeOn) <= Cardinality(Speakers)
  /\ Cardinality(Speakers) \in Nat
<1>1. SpokeOn \subseteq Speakers
  BY DEF SpokeOn
<1> QED  BY <1>1, FiniteAssumption, FS_Subset, FS_CardinalityType

\* A clear, or a state with none of the interruption's effect to account for.
LEMMA ClearedAccounted ==
  ASSUME TypeOK', late' = 0 \/ ~interrupted' \/ ear' = "clear" \/ app' = "clear"
  PROVE  StaleAccounted'
<1>1. SpokeOn' \subseteq Speakers
  BY DEF SpokeOn
<1>2. Cardinality(SpokeOn') \in Nat
  BY <1>1, FiniteAssumption, FS_Subset, FS_CardinalityType
<1>3. Cardinality(SpokeOn)' = Cardinality(SpokeOn')
  OBVIOUS
<1>4. late' = 0 => late' + queued' + InWriter' <= OutCap + 1 + Cardinality(SpokeOn')
  BY <1>2, BoundsAssumption DEF TypeOK, InWriter
<1> QED  BY <1>3, <1>4 DEF StaleAccounted

\* A step that leaves the interruption, the wire and what was sent alone.
LEMMA SameAccount ==
  ASSUME StaleAccounted, UNCHANGED <<extra, late, queued, writer, ear, app>>,
         interrupted' \in {interrupted, FALSE}
  PROVE  StaleAccounted'
BY DEF StaleAccounted, SpokeOn, InWriter

\* A push is some speaker's first chunk since the interruption.
LEMMA PushAccounted ==
  ASSUME TurnInv, StaleAccounted, NEW t \in Speakers, Push(t)
  PROVE  StaleAccounted'
<1> SUFFICES ASSUME interrupted', ear' # "clear", app' = "idle"
             PROVE  late' + queued' + InWriter' <= OutCap + 1 + Cardinality(SpokeOn)'
  BY DEF StaleAccounted
<1>1. interrupted /\ ear # "clear" /\ app = "idle"
  BY DEF Push, flags, speech
<1>2. late + queued + InWriter <= OutCap + 1 + Cardinality(SpokeOn)
  BY <1>1 DEF StaleAccounted
<1>3. extra[t] = 0
  BY <1>1 DEF TurnInv, TypeOK, InterruptBoundsSpeech, InHand, Push
<1>4. t \notin SpokeOn
  BY <1>3 DEF SpokeOn
<1>5. SpokeOn' = SpokeOn \cup {t}
  BY <1>3 DEF SpokeOn, Push, TurnInv, TypeOK
<1>6. Cardinality(SpokeOn \cup {t}) = Cardinality(SpokeOn) + 1
  BY <1>4, SpokeOnCount, FS_AddElement
<1>7. Cardinality(SpokeOn)' = Cardinality(SpokeOn) + 1
  BY <1>5, <1>6
<1>8. late' = late /\ queued' = queued + 1 /\ InWriter' = InWriter
  BY DEF Push, InWriter
<1>9. late \in Nat /\ queued \in Nat /\ InWriter \in Nat /\ OutCap \in Nat
  BY BoundsAssumption DEF TurnInv, TypeOK, InWriter
<1> QED  BY <1>2, <1>7, <1>8, <1>9, SpokeOnCount

\* The write loop takes a chunk, writes it, or drops it: none is counted twice.
LEMMA WriterAccounted ==
  ASSUME TurnInv, StaleAccounted, TakeChunk \/ WriteChunk \/ WriteFail
  PROVE  StaleAccounted'
<1>1. Cardinality(SpokeOn)' = Cardinality(SpokeOn) /\ Cardinality(SpokeOn) \in Nat
  BY SpokeOnCount DEF SpokeOn, TakeChunk, WriteChunk, WriteFail, history
<1>2. interrupted' = interrupted /\ ear' = ear /\ app' = app
  BY DEF TakeChunk, WriteChunk, WriteFail, flags, speech
<1>3. late' + queued' + InWriter' <= late + queued + InWriter
  BY DEF TurnInv, TypeOK, InWriter, TakeChunk, WriteChunk, WriteFail, history
<1>4. /\ late' + queued' + InWriter' \in Nat
      /\ late + queued + InWriter \in Nat
      /\ OutCap \in Nat
  BY BoundsAssumption
     DEF TurnInv, TypeOK, InWriter, TakeChunk, WriteChunk, WriteFail, history
<1> QED  BY <1>1, <1>2, <1>3, <1>4 DEF StaleAccounted

\* Every step keeps the account.
LEMMA AccountStep ==
  ASSUME TurnInv, StaleAccounted, [Next]_vars
  PROVE  StaleAccounted'
<1>0. TypeOK'
  BY InvStep DEF TurnInv
<1>1. ASSUME NEW t \in Speakers, QuietMove(t) PROVE StaleAccounted'
  BY <1>1, SameAccount DEF QuietMove, Move, flags, speech, wire, history
<1>2. ASSUME NEW t \in Speakers, Push(t) PROVE StaleAccounted'
  BY <1>2, PushAccounted
<1>3. ASSUME NEW t \in Speakers, Synthesize(t) PROVE StaleAccounted'
  BY <1>3, SameAccount DEF Synthesize, Move, flags, speech, wire, history
<1>4. ASSUME NEW g \in Greeting, Greet(g) \/ EndGreeting(g) PROVE StaleAccounted'
  BY <1>4, SameAccount DEF Greet, EndGreeting, flags, speech, wire, history
<1>5. ASSUME NEW t \in Turns,
             EndOfSpeech(t) \/ StartSpoken(t) \/ StartTyped(t) \/ EndTurn(t)
      PROVE  StaleAccounted'
  BY <1>5, SameAccount
     DEF EndOfSpeech, StartSpoken, StartTyped, StartTurn, EndTurn, flags, speech, wire,
         history
<1>6. CASE BargeIn \/ AppInterrupt \/ BargeInClear \/ AppClear
  BY <1>0, <1>6, ClearedAccounted DEF BargeIn, AppInterrupt, BargeInClear, AppClear, ClearPlayback
<1>7. CASE StartLoops \/ HearVoice \/ DecideBargeIn \/ EarExit
  <2>1. /\ UNCHANGED <<interrupted, extra, late, queued, writer, app>>
        /\ ear # "clear"
    BY <1>7 DEF StartLoops, HearVoice, DecideBargeIn, EarExit, flags, wire, history
  <2> QED  BY <2>1 DEF StaleAccounted, SpokeOn, InWriter
<1>8. CASE TakeChunk \/ WriteChunk \/ WriteFail
  BY <1>8, WriterAccounted
<1>9. CASE Cancel
  BY <1>9, SameAccount DEF Cancel, flags, speech, wire, history
<1>10. CASE UNCHANGED vars
  BY <1>10, SameAccount DEF vars, flags, speech, wire, history
<1> QED
  BY <1>1, <1>2, <1>3, <1>4, <1>5, <1>6, <1>7, <1>8, <1>9, <1>10, NextCases

\* While an interruption stands, what reaches Twilio after its clear is at most
\* what audioOut and the write loop held, and one chunk per speaker: clear does
\* not drain the channel, and nothing else gets past the check before each chunk.
THEOREM StaleSpeechIsBounded == Spec => []StaleSpeechBounded
<1>1. Init => StaleAccounted
  BY DEF Init, StaleAccounted
<1>2. TurnInv /\ StaleAccounted /\ [Next]_vars => StaleAccounted'
  BY AccountStep
<1>3. TurnInv /\ StaleAccounted => StaleSpeechBounded
  <2> SUFFICES ASSUME TurnInv, StaleAccounted, interrupted, ear # "clear", app = "idle"
               PROVE  late <= OutCap + 1 + Cardinality(Speakers)
    BY DEF StaleSpeechBounded
  <2>1. late + queued + InWriter <= OutCap + 1 + Cardinality(SpokeOn)
    BY DEF StaleAccounted
  <2>2. late \in Nat /\ queued \in Nat /\ InWriter \in Nat /\ OutCap \in Nat
    BY BoundsAssumption DEF TurnInv, TypeOK, InWriter
  <2> QED  BY <2>1, <2>2, SpokeOnCount
<1> QED  BY <1>1, <1>2, <1>3, InvInit, InvStep, PTL DEF Spec
=============================================================================
