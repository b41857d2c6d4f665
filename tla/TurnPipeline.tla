---------------------------- MODULE TurnPipeline ----------------------------
(***************************************************************************)
(* The turns of one running voice pipeline (omnivoice/gateway/pipeline.go) *)
(* on an open connection: the greeting, the audio loop that detects speech *)
(* and barges in, the silence loop that starts a turn per utterance, the   *)
(* turns themselves (STT, LLM, TTS, paced sending), text input and         *)
(* interruptions from the application, and the connection's write loop.    *)
(*                                                                         *)
(* Turns run concurrently, one goroutine each; isProcessing and            *)
(* interrupted are shared by all of them.                                  *)
(***************************************************************************)
EXTENDS Naturals, FiniteSets

CONSTANTS
  Spoken,    \* turns started by the silence loop (processAudio)
  Typed,     \* turns started by Session.SendText (processInput)
  Greeting,  \* {} or one answer that nobody asked for (sendGreeting)
  MaxChunks, \* bound: chunks of one synthesized answer
  OutCap,    \* capacity of conn.audioOut (500 in the code)
  Mode       \* Config.InterruptionMode

ASSUME BoundsAssumption == MaxChunks \in Nat /\ OutCap \in Nat \ {0}

\* Speakers are kept apart by their kind.
ASSUME KindsAssumption ==
  /\ Spoken \cap Typed = {}
  /\ Greeting \cap (Spoken \cup Typed) = {}

Turns == Spoken \cup Typed
Speakers == Turns \cup Greeting

\* A pipeline has started finitely many goroutines.
ASSUME FiniteAssumption == IsFiniteSet(Speakers)

VARIABLES
  pc,           \* per speaker: where its goroutine is
  left,         \* per speaker: chunks of its answer still to send
  isProcessing, \* Pipeline.isProcessing
  interrupted,  \* Pipeline.interrupted
  isSpeaking,   \* Pipeline.isSpeaking (the user's speech)
  ear,          \* the audio loop, inside or between calls of handleAudio
  app,          \* the application goroutine inside Session.Interrupt
  queued,       \* chunks in conn.audioOut
  writer,       \* the write loop: waiting, holding a chunk, or ended
  ctxDone,      \* p.ctx is done
  \* History of the interruptions:
  cutOff,       \* turns that were under way at a barge-in
  extra,        \* per speaker: chunks it has sent since the latest interruption
  late          \* chunks that have reached Twilio since the latest clear

flags   == <<isProcessing, interrupted>>
speech  == <<isSpeaking, ear, app>>
wire    == <<queued, writer>>
history == <<cutOff, extra, late>>
vars    == <<pc, left, flags, speech, wire, ctxDone, history>>

Labels == {"none", "spawned", "stt", "check1", "llm", "check2", "tts", "check3",
           "send", "push", "ending", "over"}

TypeOK ==
  /\ pc \in [Speakers -> Labels]
  /\ left \in [Speakers -> 0 .. MaxChunks]
  /\ isProcessing \in BOOLEAN
  /\ interrupted \in BOOLEAN
  /\ isSpeaking \in BOOLEAN
  /\ ear \in {"start", "listen", "heard", "cut", "clear", "off"}
  /\ app \in {"idle", "clear"}
  /\ queued \in 0 .. OutCap
  /\ writer \in {"waiting", "holding", "ended"}
  /\ ctxDone \in BOOLEAN
  /\ cutOff \subseteq Turns
  /\ extra \in [Speakers -> Nat]
  /\ late \in Nat

Init ==
  /\ pc = [t \in Speakers |-> "none"]
  /\ left = [t \in Speakers |-> 0]
  /\ isProcessing = FALSE
  /\ interrupted = FALSE
  /\ isSpeaking = FALSE
  /\ ear = "start"
  /\ app = "idle"
  /\ queued = 0
  /\ writer = "waiting"
  /\ ctxDone = FALSE
  /\ cutOff = {}
  /\ extra = [t \in Speakers |-> 0]
  /\ late = 0

\* The turns that have set isProcessing and have not cleared it.
UnderWay == {t \in Turns : pc[t] \notin {"none", "spawned", "over"}}

Goto(t, label) == pc' = [pc EXCEPT ![t] = label]

----------------------------------------------------------------------------
(* Pipeline.Interrupt: the flag, then Twilio is told to clear its buffer.  *)

SetInterrupted ==
  /\ interrupted' = TRUE
  /\ extra' = [t \in Speakers |-> 0]
  /\ UNCHANGED <<pc, left, isProcessing, isSpeaking, wire, ctxDone, late>>

ClearPlayback ==
  /\ late' = 0
  /\ UNCHANGED <<pc, left, flags, isSpeaking, wire, ctxDone, cutOff, extra>>

----------------------------------------------------------------------------
(* The greeting, before the loops of Pipeline.Start run: it does not set   *)
(* isProcessing.                                                           *)

Greet(g) ==
  /\ pc[g] = "none"
  /\ Goto(g, "tts")
  /\ UNCHANGED <<left, flags, speech, wire, ctxDone, history>>

EndGreeting(g) ==
  /\ pc[g] = "ending"
  /\ Goto(g, "over")
  /\ UNCHANGED <<left, flags, speech, wire, ctxDone, history>>

StartLoops ==
  /\ ear = "start"
  /\ \A g \in Greeting : pc[g] = "over"
  /\ ear' = "listen"
  /\ UNCHANGED <<pc, left, flags, isSpeaking, app, wire, ctxDone, history>>

----------------------------------------------------------------------------
(* The audio loop: handleAudio of a chunk with voice activity.             *)

HearVoice ==
  /\ ear = "listen"
  /\ isSpeaking' = TRUE
  /\ ear' = "heard"
  /\ UNCHANGED <<pc, left, flags, app, wire, ctxDone, history>>

\* isProcessing is read under p.mu; Interrupt takes the lock anew.
DecideBargeIn ==
  /\ ear = "heard"
  /\ ear' = IF isProcessing /\ Mode = "immediate" THEN "cut" ELSE "listen"
  /\ UNCHANGED <<pc, left, flags, isSpeaking, app, wire, ctxDone, history>>

BargeIn ==
  /\ ear = "cut"
  /\ ear' = "clear"
  /\ cutOff' = cutOff \cup UnderWay
  /\ SetInterrupted
  /\ UNCHANGED app

BargeInClear ==
  /\ ear = "clear"
  /\ ear' = "listen"
  /\ ClearPlayback
  /\ UNCHANGED app

EarExit ==
  /\ ear = "listen"
  /\ ctxDone
  /\ ear' = "off"
  /\ UNCHANGED <<pc, left, flags, isSpeaking, app, wire, ctxDone, history>>

----------------------------------------------------------------------------
(* The application: Session.Interrupt, in any state of the pipeline.       *)

AppInterrupt ==
  /\ app = "idle"
  /\ app' = "clear"
  /\ SetInterrupted
  /\ UNCHANGED <<ear, cutOff>>

AppClear ==
  /\ app = "clear"
  /\ app' = "idle"
  /\ ClearPlayback
  /\ UNCHANGED ear

----------------------------------------------------------------------------
(* Turns                                                                   *)

\* A tick of the silence loop ends the user's speech and spawns a turn.
EndOfSpeech(t) ==
  /\ pc[t] = "none"
  /\ isSpeaking
  /\ isSpeaking' = FALSE
  /\ Goto(t, "spawned")
  /\ UNCHANGED <<left, flags, ear, app, wire, ctxDone, history>>

\* The critical section that opens processAudio and processInput.
StartTurn(t, label) ==
  /\ isProcessing' = TRUE
  /\ interrupted' = FALSE
  /\ Goto(t, label)
  /\ UNCHANGED <<left, speech, wire, ctxDone, history>>

StartSpoken(t) == pc[t] = "spawned" /\ StartTurn(t, "stt")

StartTyped(t) ==
  /\ pc[t] = "none"
  /\ StartTurn(t, "llm")

\* A turn's own step: a provider's answer, or a check of interrupted.
Move(t, from, to) ==
  /\ pc[t] = from
  /\ Goto(t, to)
  /\ UNCHANGED <<left, flags, speech, wire, ctxDone, history>>

\* An error or an empty text ends the turn.
Transcribe(t) == \E to \in {"check1", "ending"} : Move(t, "stt", to)

\* processInput checks nothing between its calls.
Generate(t) ==
  \/ Move(t, "llm", "ending")
  \/ Move(t, "llm", IF t \in Spoken THEN "check2" ELSE "tts")

Synthesize(t) ==
  \/ Move(t, "tts", "ending")
  \/ /\ pc[t] = "tts"
     /\ \E n \in 0 .. MaxChunks : left' = [left EXCEPT ![t] = n]
     /\ Goto(t, IF t \in Spoken THEN "check3" ELSE "send")
     /\ UNCHANGED <<flags, speech, wire, ctxDone, history>>

CheckInterrupted(t) ==
  \/ Move(t, "check1", IF interrupted THEN "ending" ELSE "llm")
  \/ Move(t, "check2", IF interrupted THEN "ending" ELSE "tts")
  \/ Move(t, "check3", IF interrupted THEN "ending" ELSE "send")

\* Mutant: the check before the first chunk only.
SendUnheeding(t) == Move(t, "send", IF left[t] = 0 THEN "ending" ELSE "push")

\* sendAudioToTwilio: the check before each chunk ...
SendCheck(t) ==
  Move(t, "send", IF left[t] = 0 \/ interrupted THEN "ending" ELSE "push")

\* Mutant: a send that does not wait for room.
PushOver(t) ==
  /\ pc[t] = "push"
  /\ queued' = queued + 1
  /\ left' = [left EXCEPT ![t] = @ - 1]
  /\ extra' = [extra EXCEPT ![t] = @ + 1]
  /\ Goto(t, "send")
  /\ UNCHANGED <<flags, speech, writer, ctxDone, cutOff, late>>

\* ... and the send, which blocks while audioOut is full.
Push(t) ==
  /\ pc[t] = "push"
  /\ queued < OutCap
  /\ queued' = queued + 1
  /\ left' = [left EXCEPT ![t] = @ - 1]
  /\ extra' = [extra EXCEPT ![t] = @ + 1]
  /\ Goto(t, "send")
  /\ UNCHANGED <<flags, speech, writer, ctxDone, cutOff, late>>

\* Mutant: the send does not watch the context.
NeverGiveUp(t) == FALSE

GiveUp(t) == ctxDone /\ Move(t, "push", "ending")

\* Mutant: an early return that leaves the flag set.
EndTurnBusy(t) == Move(t, "ending", "over")

\* The deferred isProcessing = false.
EndTurn(t) ==
  /\ pc[t] = "ending"
  /\ isProcessing' = FALSE
  /\ Goto(t, "over")
  /\ UNCHANGED <<left, interrupted, speech, wire, ctxDone, history>>

----------------------------------------------------------------------------
(* The connection's write loop and the context                             *)

TakeChunk ==
  /\ writer = "waiting"
  /\ queued > 0
  /\ queued' = queued - 1
  /\ writer' = "holding"
  /\ UNCHANGED <<pc, left, flags, speech, ctxDone, history>>

WriteChunk ==
  /\ writer = "holding"
  /\ writer' = "waiting"
  /\ late' = late + 1
  /\ UNCHANGED <<pc, left, flags, speech, queued, ctxDone, cutOff, extra>>

\* A write error ends the loop; the connection stays as it is.
WriteFail ==
  /\ writer = "holding"
  /\ writer' = "ended"
  /\ UNCHANGED <<pc, left, flags, speech, queued, ctxDone, history>>

\* MaxSessionDuration, or Pipeline.Stop.
Cancel ==
  /\ ~ctxDone
  /\ ctxDone' = TRUE
  /\ UNCHANGED <<pc, left, flags, speech, wire, history>>

----------------------------------------------------------------------------
Speak(t) == Synthesize(t) \/ SendCheck(t) \/ Push(t) \/ GiveUp(t)

TurnStep(t) ==
  \/ StartSpoken(t) \/ Transcribe(t) \/ Generate(t)
  \/ CheckInterrupted(t) \/ Speak(t) \/ EndTurn(t)

GreetingStep(g) == Greet(g) \/ Speak(g) \/ EndGreeting(g)

EarStep == StartLoops \/ DecideBargeIn \/ BargeIn \/ BargeInClear

Next ==
  \/ HearVoice \/ EarStep \/ EarExit
  \/ AppInterrupt \/ AppClear
  \/ \E g \in Greeting : GreetingStep(g)
  \/ \E t \in Spoken : EndOfSpeech(t)
  \/ \E t \in Typed : StartTyped(t)
  \/ \E t \in Turns : TurnStep(t)
  \/ TakeChunk \/ WriteChunk \/ WriteFail \/ Cancel

Spec == Init /\ [][Next]_vars

\* What a turn does with its answer, without a provider.
Deliver(t) == SendCheck(t) \/ Push(t) \/ GiveUp(t) \/ EndTurn(t)

\* The timer of MaxSessionDuration fires, and goroutines run.  The providers of a
\* spoken turn and of the greeting are called with p.ctx: they answer, or fail
\* when it is done.  SendText calls those of a typed turn with
\* context.Background() (session.go:130), so that they may never return: a typed
\* turn is only sure to get on once it has its answer.
Fairness ==
  /\ WF_vars(Cancel)
  /\ WF_vars(EarStep)
  /\ \A g \in Greeting : WF_vars(GreetingStep(g))
  /\ \A t \in Spoken : WF_vars(TurnStep(t))
  /\ \A t \in Typed : WF_vars(Deliver(t))

FairSpec == Spec /\ Fairness

----------------------------------------------------------------------------
(* Properties                                                              *)

\* While an interruption stands (no turn has started since), each speaker gets
\* out at most one chunk, the one whose check it had already passed: the check
\* is made before every chunk (pipeline.go:484).
InHand(t) == IF pc[t] = "push" THEN 1 ELSE 0

InterruptBoundsSpeech ==
  interrupted => \A t \in Speakers : extra[t] + InHand(t) <= 1

\* Chunks queued in audioOut survive the clear (pipeline.go:177).  While the
\* interruption stands, what reaches Twilio after it is bounded by the
\* channel's capacity, the write loop's chunk and one chunk per speaker.
StaleSpeechBounded ==
  interrupted /\ ear # "clear" /\ app = "idle"
    => late <= OutCap + 1 + Cardinality(Speakers)

\* isProcessing is not left set: a barge-in is decided only while a turn is
\* under way, so a pipeline at rest never interrupts anything.
ProcessingMeansTurn == isProcessing => UnderWay # {}

\* A spoken turn that starts ends, and so does a typed one that has its answer
\* to send, even when the write loop has died and audioOut is full: the send
\* gives up when the context of the session is done (pipeline.go:502).
TurnEnds ==
  /\ \A t \in Spoken : pc[t] # "none" ~> pc[t] = "over"
  /\ \A t \in Typed : pc[t] \in {"send", "push", "ending"} ~> pc[t] = "over"

\* The loops run in the end, whatever the greeting meets: a failed synthesis,
\* an interruption, a dead write loop.
LoopsStart == ear = "start" ~> ear # "start"

\* "immediate": "Stop agent speech immediately when user starts speaking"
\* (doc.go:101): a turn that a barge-in cuts off sends no more than the chunk
\* it was sending.
CutOffStaysSilent == \A t \in cutOff : extra[t] <= 1

\* The same line, on the detection side: when the user is heard while a turn
\* is speaking, the turn is interrupted.
SpeakingIsInterruptible ==
  ear = "heard" /\ (\E t \in Turns : pc[t] \in {"send", "push"}) => isProcessing

=============================================================================
