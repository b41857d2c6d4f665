---------------------------- MODULE Conversation ----------------------------
(***************************************************************************)
(* What a text session says and remembers: the bytes of the user's speech  *)
(* in the pipeline's buffer, the utterance each turn is handed, the        *)
(* transcript, the request each turn sends to the LLM with its loop of     *)
(* tool calls, and the latency average (pipeline.go, providers.go,         *)
(* session.go of omnivoice/gateway).                                       *)
(*                                                                         *)
(* TurnPipeline has the same turns with their interruptions and their      *)
(* audio; here an interruption is any turn's choice to end at its checks,  *)
(* and a turn is over once its answer is recorded.                         *)
(***************************************************************************)
EXTENDS Naturals, Sequences, FiniteSets

CONSTANTS
  Spoken,            \* turns started by the silence loop (processAudio)
  Typed,             \* turns started by Session.SendText (processInput)
  MaxFrames,         \* bound: voiced chunks the user says
  Room,              \* voiced chunks that fit the buffer's first array
  MaxToolIterations, \* maxToolIterations of Generate (10 in the code)
  CallCounts,        \* bound: how many tool calls one reply of the LLM may hold
  Latencies,         \* bound: the latencies a turn may measure
  None

ASSUME BoundsAssumption ==
  /\ MaxFrames \in Nat /\ Room \in Nat \ {0}
  /\ MaxToolIterations \in Nat \ {0} /\ CallCounts \subseteq Nat \ {0}
  /\ Latencies \subseteq Nat

ASSUME TurnsAssumption == Spoken \cap Typed = {} /\ None \notin Spoken \cup Typed

Turns == Spoken \cup Typed

VARIABLES
  isSpeaking,  \* Pipeline.isSpeaking
  heard,       \* voiced chunks so far; a chunk is known by its number
  memory,      \* the arrays audioBuffer has had, each a sequence of chunks; it
               \* holds the newest
  length,      \* audioBuffer.Len()
  pc,          \* per turn: where its goroutine is
  slice,       \* per spoken turn: the utterance it has been handed
  misheard,    \* spoken turns whose STT read other chunks than were said
  transcript,  \* Session.transcript
  turnCount,   \* Session.metrics.TurnCount
  messages,    \* per turn: messages of Generate
  sent,        \* per turn: how many of them req.Messages holds
  iteration,   \* per turn: i of Generate's loop
  calls,       \* per turn: how many tools the LLM's reply calls
  done,        \* per turn: how many of these calls Generate has gone through
  average,     \* Session.metrics.AvgTotalLatencyMs
  slowest      \* history: the largest latency measured

audio   == <<isSpeaking, heard, memory, length>>
record  == <<transcript, turnCount>>
requests == <<messages, sent, iteration, calls, done>>
metrics == <<average, slowest>>
vars    == <<audio, pc, slice, misheard, record, requests, metrics>>

Labels == {"none", "stt", "transcribed", "asked", "llm", "tools", "replied", "tts",
           "measure", "over"}

\* A turn of the transcript; the greeting answers nobody.
Entry == [role : {"user", "agent"}, of : Turns \cup {None}]

\* A chat message; "calls" holds how many tools the assistant calls, "tool" is
\* the result of the call with that number.
Message == [role : {"system", "user", "assistant", "calls", "tool"},
            of : Turns \cup {None},
            number : Nat]

TypeOK ==
  /\ isSpeaking \in BOOLEAN
  /\ heard \in 0 .. MaxFrames
  /\ memory \in Seq(Seq(1 .. MaxFrames))
  /\ length \in Nat
  /\ pc \in [Turns -> Labels]
  /\ slice \in [Spoken -> [array : Nat, length : Nat, after : Nat]]
  /\ misheard \subseteq Spoken
  /\ transcript \in Seq(Entry)
  /\ turnCount \in Nat
  /\ messages \in [Turns -> Seq(Message)]
  /\ sent \in [Turns -> Nat]
  /\ iteration \in [Turns -> 0 .. MaxToolIterations - 1]
  /\ calls \in [Turns -> CallCounts \cup {0}]
  /\ done \in [Turns -> Nat]
  /\ average \in Nat /\ slowest \in Nat

Init ==
  /\ isSpeaking = FALSE
  /\ heard = 0
  /\ memory = <<>>
  /\ length = 0
  /\ pc = [t \in Turns |-> "none"]
  /\ slice = [t \in Spoken |-> [array |-> 0, length |-> 0, after |-> 0]]
  /\ misheard = {}
  /\ transcript = <<>>
  /\ turnCount = 0
  /\ messages = [t \in Turns |-> <<>>]
  /\ sent = [t \in Turns |-> 0]
  /\ iteration = [t \in Turns |-> 0]
  /\ calls = [t \in Turns |-> 0]
  /\ done = [t \in Turns |-> 0]
  /\ average = 0 /\ slowest = 0

Goto(t, from, to) ==
  /\ pc[t] = from
  /\ pc' = [pc EXCEPT ![t] = to]

----------------------------------------------------------------------------
(* bytes.Buffer: Reset keeps the array, so that the next Write overwrites  *)
(* it from the start; a Write that does not fit moves to one twice as big. *)

Newest == Len(memory)  \* 0 before the first Write

Capacity(a) == IF a = 0 THEN 0 ELSE Room * 2 ^ (a - 1)

\* Chunk x goes where the buffer ends, over what an earlier utterance left.
PutAt(chunks, i, x) ==
  IF i <= Len(chunks) THEN [chunks EXCEPT ![i] = x] ELSE Append(chunks, x)

\* The bigger array begins with what the buffer holds.
Grow(x) ==
  memory' = Append(memory, Append(IF Newest = 0 THEN <<>>
                                  ELSE SubSeq(memory[Newest], 1, length), x))

Write(x) ==
  /\ length' = length + 1
  /\ \/ length < Capacity(Newest)
        /\ memory' = [memory EXCEPT ![Newest] = PutAt(@, length + 1, x)]
     \/ length = Capacity(Newest) /\ Grow(x)

\* Mutant: a chunk that interrupts a turn is not kept.
HandleAudioOfIdle ==
  /\ heard < MaxFrames
  /\ heard' = heard + 1
  /\ isSpeaking' = TRUE
  /\ IF \E t \in Turns : pc[t] \notin {"none", "over"}
     THEN UNCHANGED <<memory, length>> ELSE Write(heard + 1)
  /\ UNCHANGED <<pc, slice, misheard, record, requests, metrics>>

\* handleAudio of a chunk with voice activity.
HandleAudio ==
  /\ heard < MaxFrames
  /\ heard' = heard + 1
  /\ isSpeaking' = TRUE
  /\ Write(heard + 1)
  /\ UNCHANGED <<pc, slice, misheard, record, requests, metrics>>

\* Mutant: the buffer is not reset.
EndSpeechNoReset(t) ==
  /\ isSpeaking
  /\ isSpeaking' = FALSE
  /\ Goto(t, "none", "stt")
  /\ slice' = [slice EXCEPT ![t] =
                 [array |-> Newest, length |-> length, after |-> heard - length]]
  /\ UNCHANGED <<heard, memory, length, misheard, record, requests, metrics>>

\* silenceDetectionLoop after silenceTimeout: Bytes(), Reset(), go processAudio.
EndSpeech(t) ==
  /\ isSpeaking
  /\ isSpeaking' = FALSE
  /\ Goto(t, "none", "stt")
  /\ slice' = [slice EXCEPT ![t] =
                 [array |-> Newest, length |-> length, after |-> heard - length]]
  /\ length' = 0
  /\ UNCHANGED <<heard, memory, misheard, record, requests, metrics>>

\* Transcribe reads the utterance, at any time from here on: Deepgram is sent
\* the slice itself, the others a WAV file made of it.
Transcribe(t) ==
  LET u == slice[t] IN
  /\ Goto(t, "stt", "transcribed")
  /\ misheard' = IF \A i \in 1 .. u.length : memory[u.array][i] = u.after + i
                 THEN misheard ELSE misheard \cup {t}
  /\ UNCHANGED <<audio, slice, record, requests, metrics>>

----------------------------------------------------------------------------
(* The transcript                                                          *)

\* Mutant: addTurn without the lock: of two appends one is lost.
AddTurnUnlocked(role, t) ==
  /\ \E entries \in {transcript, SubSeq(transcript, 1, Len(transcript) - 1)} :
       transcript' = Append(entries, [role |-> role, of |-> t])
  /\ turnCount' = turnCount + 1

AddTurn(role, t) ==
  /\ transcript' = Append(transcript, [role |-> role, of |-> t])
  /\ turnCount' = turnCount + 1

\* sendGreeting, which a typed turn may precede; the loops start after it.
Greet ==
  /\ heard = 0
  /\ \A i \in DOMAIN transcript : transcript[i].of # None
  /\ AddTurn("agent", None)
  /\ UNCHANGED <<audio, pc, slice, misheard, requests, metrics>>

\* The STT result becomes a user turn.
Record(t) ==
  /\ \/ t \in Spoken /\ Goto(t, "transcribed", "asked")
     \/ t \in Typed /\ Goto(t, "none", "asked")
  /\ AddTurn("user", t)
  /\ UNCHANGED <<audio, slice, misheard, requests, metrics>>

\* The agent turn; processAudio goes on to updateMetrics, processInput does not.
RecordAnswer(t) ==
  /\ Goto(t, "tts", IF t \in Spoken THEN "measure" ELSE "over")
  /\ AddTurn("agent", t)
  /\ UNCHANGED <<audio, slice, misheard, requests, metrics>>

----------------------------------------------------------------------------
(* defaultLLMProvider.Generate                                             *)

\* A turn of the history as a chat message.
AsMessage(entry) ==
  [role |-> IF entry.role = "agent" THEN "assistant" ELSE "user",
   of |-> entry.of, number |-> 0]

\* Mutant: only the latest turn is passed on as history.
LatestHistory(entries) == SubSeq(entries, Len(entries), Len(entries))

\* Session.Transcript: a copy of all turns so far.
History(entries) == entries

\* System prompt, history, current input.
BuildRequest(t) ==
  LET past == History(transcript) IN
  <<[role |-> "system", of |-> None, number |-> 0]>>
    \o [i \in DOMAIN past |-> AsMessage(past[i])]
    \o <<[role |-> "user", of |-> t, number |-> 0]>>

\* Session.Transcript, then the first round of the loop.
Ask(t) ==
  /\ Goto(t, "asked", "llm")
  /\ messages' = [messages EXCEPT ![t] = BuildRequest(t)]
  /\ sent' = [sent EXCEPT ![t] = Len(messages'[t])]
  /\ UNCHANGED <<audio, slice, misheard, record, iteration, calls, done, metrics>>

\* The LLM's reply calls n tools: it joins the messages before they are run.
CallTools(t, n) ==
  /\ Goto(t, "llm", "tools")
  /\ messages' = [messages EXCEPT ![t] =
                    Append(@, [role |-> "calls", of |-> t, number |-> n])]
  /\ calls' = [calls EXCEPT ![t] = n]
  /\ done' = [done EXCEPT ![t] = 0]
  /\ UNCHANGED <<audio, slice, misheard, record, sent, iteration, metrics>>

\* The loop comes to the reply's next call.
NextCall(t) ==
  /\ pc[t] = "tools" /\ done[t] < calls[t]
  /\ done' = [done EXCEPT ![t] = @ + 1]
  /\ UNCHANGED <<audio, pc, slice, misheard, record, sent, iteration, calls, metrics>>

\* The message that answers that call; what it says is left out.
AnswerCall(t) ==
  messages' = [messages EXCEPT ![t] =
                Append(@, [role |-> "tool", of |-> t, number |-> done[t] + 1])]

\* The tool has a handler, which takes its time, outside any lock; its result
\* is the answer, and so is its error.
RunHandler(t) == NextCall(t) /\ AnswerCall(t)

\* Mutant: a call without a handler is passed over.
ToolNotFoundSkips(t) == NextCall(t) /\ UNCHANGED messages

\* The tool has no handler: the answer says so.
ToolNotFound(t) == NextCall(t) /\ AnswerCall(t)

\* Mutant: one iteration too many.
AskAgainOnceMore(t) ==
  /\ done[t] = calls[t]
  /\ iteration[t] < MaxToolIterations
  /\ Goto(t, "tools", "llm")
  /\ sent' = [sent EXCEPT ![t] = Len(messages[t])]
  /\ iteration' = [iteration EXCEPT ![t] = @ + 1]
  /\ UNCHANGED <<audio, slice, misheard, record, messages, calls, done, metrics>>

\* All calls done, the LLM is asked again, with what the messages hold now.
AskAgain(t) ==
  /\ done[t] = calls[t]
  /\ iteration[t] + 1 < MaxToolIterations
  /\ Goto(t, "tools", "llm")
  /\ sent' = [sent EXCEPT ![t] = Len(messages[t])]
  /\ iteration' = [iteration EXCEPT ![t] = @ + 1]
  /\ UNCHANGED <<audio, slice, misheard, record, messages, calls, done, metrics>>

\* Generate returns: the answer (no tool calls, or no handlers configured), an
\* error of the LLM, or, the tools of the last iteration run, the error that
\* there were too many.
Return(t) ==
  /\ \/ Goto(t, "llm", "replied") \/ Goto(t, "llm", "over")
     \/ /\ done[t] = calls[t] /\ iteration[t] + 1 = MaxToolIterations
        /\ Goto(t, "tools", "over")
  /\ messages' = [messages EXCEPT ![t] = <<>>]
  /\ sent' = [sent EXCEPT ![t] = 0]
  /\ iteration' = [iteration EXCEPT ![t] = 0]
  /\ calls' = [calls EXCEPT ![t] = 0]
  /\ done' = [done EXCEPT ![t] = 0]
  /\ UNCHANGED <<audio, slice, misheard, record, metrics>>

----------------------------------------------------------------------------
(* The rest of a turn                                                      *)

Synthesize(t) ==
  /\ Goto(t, "replied", "tts")
  /\ UNCHANGED <<audio, slice, misheard, record, requests, metrics>>

\* An error of STT or TTS; an empty transcript; or, of a spoken turn, an
\* interruption seen at its checks before the LLM and before the TTS.
TurnEnds(t) ==
  /\ \/ \E label \in {"transcribed", "replied"} : Goto(t, label, "over")
     \/ t \in Spoken /\ Goto(t, "asked", "over")
  /\ UNCHANGED <<audio, slice, misheard, record, requests, metrics>>

\* Mutant: the sample is added to n turns, and divided by n - 1.
AverageOverPast(current, sample, n) ==
  (current * (n - 1) + sample) \div (n - 1)

\* updateAvg, for n # 0
UpdateAverage(current, sample, n) == (current * (n - 1) + sample) \div n

\* updateMetrics: n is the number of turns in the transcript by now.
UpdateMetrics(t) ==
  /\ Goto(t, "measure", "over")
  /\ \E sample \in Latencies :
       /\ average' = UpdateAverage(average, sample, IF turnCount = 0 THEN 1 ELSE turnCount)
       /\ slowest' = IF sample > slowest THEN sample ELSE slowest
  /\ UNCHANGED <<audio, slice, misheard, record, requests>>

----------------------------------------------------------------------------
SpokenStep(t) == EndSpeech(t) \/ Transcribe(t) \/ UpdateMetrics(t)
TurnStep(t) ==
  \/ Record(t) \/ Ask(t) \/ Return(t) \/ Synthesize(t) \/ RecordAnswer(t) \/ TurnEnds(t)
  \/ \E n \in CallCounts : CallTools(t, n)
  \/ RunHandler(t) \/ ToolNotFound(t) \/ AskAgain(t)

Next ==
  \/ Greet
  \/ HandleAudio
  \/ \E t \in Spoken : SpokenStep(t)
  \/ \E t \in Turns : TurnStep(t)

Spec == Init /\ [][Next]_vars

----------------------------------------------------------------------------
(* Properties                                                              *)

HandedOver == {t \in Spoken : pc[t] # "none"}

\* The chunks the turn is to transcribe.
Utterance(t) == slice[t].after + 1 .. slice[t].after + slice[t].length

\* The buffer holds exactly what was said since the last hand-over, across its
\* resets, its reuse of an array and its growth; and every chunk before that
\* has been handed to exactly one turn (pipeline.go:217, 253-254).
EveryChunkHandedOnce ==
  /\ \A i \in 1 .. length : memory[Newest][i] = heard - length + i
  /\ \A f \in 1 .. heard - length : \E t \in HandedOver : f \in Utterance(t)
  /\ \A t \in HandedOver :
       /\ \A f \in Utterance(t) : f <= heard - length
       /\ \A u \in HandedOver \ {t} : Utterance(t) \cap Utterance(u) = {}

\* The STT reads what was said unless the user has spoken again since the
\* utterance was handed over: only then does its array change under it.
MisheardOnlyWhenSpokenOver ==
  [][\A t \in misheard' \ misheard : slice[t].after + slice[t].length < heard]_vars

Positions(role, t) ==
  {i \in DOMAIN transcript : transcript[i] = [role |-> role, of |-> t]}

\* Transcript and TurnCount agree; a turn has recorded its question once, as
\* soon as it asks, and its answer at most once and behind the question,
\* whatever turns run beside it (session.go:379).
TranscriptAccounts ==
  /\ turnCount = Len(transcript)
  /\ \A t \in Turns :
       /\ \A role \in {"user", "agent"} : \A i, j \in Positions(role, t) : i = j
       /\ pc[t] \in {"none", "stt", "transcribed"} => Positions("user", t) = {}
       /\ pc[t] \in {"asked", "llm", "tools", "replied", "tts", "measure"} =>
            Positions("user", t) # {}
       /\ Positions("agent", t) # {} => pc[t] \in {"measure", "over"}
       /\ \A i \in Positions("agent", t) : \E j \in Positions("user", t) : j < i

\* What was recorded before a turn's own input is in its request, in order:
\* the LLM answers with the whole conversation that led to the question,
\* although other turns record theirs between addTurn and Generate.
RequestKnowsPast ==
  \A t \in Turns : messages[t] # <<>> =>
    \E own \in Positions("user", t) :
      /\ own < Len(messages[t])
      /\ \A i \in 1 .. own : messages[t][i + 1] = AsMessage(transcript[i])

\* What the message at i needs of its neighbours: a reply that calls tools has
\* one answer to each call right behind it, in order; an answer has its call.
AnsweredAt(request, i) ==
  LET m == request[i] IN
  /\ m.role = "calls" =>
       \A k \in 1 .. m.number :
         /\ i + k \in DOMAIN request
         /\ request[i + k].role = "tool"
         /\ request[i + k].number = k
  /\ m.role = "tool" =>
       /\ i - m.number \in DOMAIN request
       /\ request[i - m.number].role = "calls"
       /\ m.number \in 1 .. request[i - m.number].number

CallsAnswered(request) == \A i \in DOMAIN request : AnsweredAt(request, i)

\* Whenever the LLM is asked, every call it has made so far is answered, once
\* and in its place (the rule of the chat APIs Generate talks to), and the
\* request holds all of these answers: whichever tools of whichever round had
\* no handler or failed (providers.go:259-302).
RequestWellFormed ==
  \A t \in Turns : pc[t] = "llm" =>
    sent[t] = Len(messages[t]) /\ CallsAnswered(messages[t])

\* The average latency never exceeds the largest latency measured, although it
\* is weighted with a turn count other turns move (session.go:392).
AverageBounded == average <= slowest

\* "Process the collected audio" (pipeline.go:262): the STT reads the chunks
\* that were collected.
UtteranceIntact == misheard = {}

\* "Add history", "Add current input" (providers.go:217, 229): the input is in
\* the request once.
InputOnce ==
  \A t \in Turns :
    Cardinality({i \in DOMAIN messages[t] :
                   messages[t][i].role = "user" /\ messages[t][i].of = t}) <= 1

\* "Update averages (simple running average)" (session.go:391): when every
\* measured turn took the same time, that time is the average.
AverageIsMean ==
  slowest > 0 /\ Cardinality(Latencies) = 1 => average = slowest

=============================================================================
