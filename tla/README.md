# omnivoice-twilio in TLA+

A model of the concurrent core of omnivoice-twilio: the voice gateway that
answers Twilio calls in text or realtime mode, what its sessions hear, record
and ask the LLM, the media-stream transport, the call system provider and the
memory provider. TLC checks the modules on small instances, TLAPS proves
the main safety properties for every value of the constants. Source paths
below are relative to `src/`.

## The system

| Part | Source | State | Operations | Hard behaviour |
|---|---|---|---|---|
| Gateway | `omnivoice/gateway/gateway.go`, `handlers.go` | `sessions` under `mu`, the HTTP server | inbound webhook, status callback, media stream, `MakeCall`, `GetSession`, `Stop` | requests race for the entry of one call; `Stop` works with the lock held |
| Session | `omnivoice/gateway/session.go` | `closed`, `done`, `events`, `pipeline`, `realtimeProvider`, `conn`, `transcript`, `metrics` | `startPipeline`, `Interrupt`, `SendText`, `Transcript`, `Close` (once, in seven steps) | goroutines use a session that is being closed |
| Connection | `omnivoice/gateway/connection.go` | socket, `done`, `audioIn`, `audioOut`, `pipelineReady` | read loop, write loop, `clear`, `close` | channels closed under senders |
| Pipeline | `omnivoice/gateway/pipeline.go` | `isProcessing`, `interrupted`, `isSpeaking`, `audioBuffer` | greeting, audio loop, silence loop, turns, `Interrupt` | turns overlap, share two flags, and read a buffer that is written again |
| Realtime bridge | `omnivoice/gateway/session.go:236-360` | provider, bridge | start, three forwarding goroutines | a session closed while its provider is being made; audio held back for ever |
| Provider adapters | `omnivoice/gateway/providers.go`, `init.go` | a request's messages | STT, LLM with tools, TTS requests | the history moves while a request is put together; a bounded tool loop whose calls may fail |
| Transport provider | `omnivoice/transport/provider.go` | `connections` and `listeners` under `mu`; per connection `events`, two audio queues | `Listen`, `HandleWebSocket`, read and write loops, both `Close`s | same hazards as the gateway's connections; a bounded queue with drop |
| Call system provider | `omnivoice/callsystem/provider.go` | `calls` under `mu`, a `Call`'s status and transport | webhooks, `MakeCall`, `GetCall`, `Answer`, `Hangup`, `Close` | callbacks out of order; `Close` calls Twilio under the lock |
| Memory provider | `omnimemory/twilio.go` | none here; observations at Twilio | `Add`, `Get`, `Update`, `Delete`, `List`, `Search`, `Recall` | `Update` is three requests that may fail or interleave |
| Chat, speech providers, REST client | `omnichat`, `omnivoice/stt`, `omnivoice/tts`, `client` | handlers, a closed flag, none | message sends, TwiML text, requests | nothing concurrent beyond a handler read under a lock |

The parts meet as follows. Twilio's webhook makes the gateway create a session
and answer with TwiML; Twilio then opens a media stream, whose read loop finds
the session by call SID (or creates it, for outbound calls) and hands it to the
handler goroutine, which builds the pipeline and stays in `Pipeline.Start`. The
pipeline's turns send audio to the connection's write loop through `audioOut`
and events to the application through `events`. A terminal status callback, the
application or `Stop` closes the session, which stops the pipeline, closes the
connection, leaves the map and closes `events`. An application that brings its
own agent uses the transport and call system providers instead.

What makes each part correct: the map holds each live session, and only those;
nobody sends on a closed channel; everything that was started ends; an
interruption silences the agent; what the user says is transcribed once and
whole; each question reaches the LLM with the conversation before it; audio is
neither reordered nor repeated; a call's status is what Twilio said last; no
memory is lost without an error.

## Modules

| Module | Models | Composition |
|---|---|---|
| `CallLifecycle` | one call through the gateway: requests, sessions, streams, `Stop` | gateway, session, connection and the pipeline's outer life together |
| `TurnPipeline` | the inside of one running pipeline | pipeline and write loop together |
| `Conversation` | speech buffer, utterances, transcript, LLM requests and tool loop, latency average | pipeline, LLM adapter and session together |
| `MediaTransport` | the transport provider's connections | provider, read loops, both kinds of close |
| `LossyStream` | the promise of an audio queue | abstract specification |
| `AudioQueue` | `audioWriter` and the write loop | implements `LossyStream` |
| `CallSystem` | the call system provider and Twilio's view of its calls | provider, callbacks, application |
| `KeptMemories` | the promise of a store of memories | abstract specification |
| `MemoryStore` | the memory provider's clients over one store | implements `KeptMemories` |
| `MC*` | symmetry sets for TLC | |
| `*Proofs` | theorems | extend the module they are about; `CallRegistryProofs` goes on from `CallLifecycleProofs` |

Each operation is one action per step that other goroutines can see: a critical
section, a channel operation, a request to another service. `PROJECT.json`
(`map`) gives the lines of every definition. Operators introduced by "Mutant:"
are deliberately wrong variants of the definition after them, kept to check that
each property can fail; no specification uses them.

**CallLifecycle.** A request (`req`) is a goroutine with a label, a SID and a
session in hand. A session's `phase` is the last step of `Close` done: `begun`
(`done` closed), `stopped` (pipeline), `hungup` (connection), `removed` (map),
`closed` (events). `sync.Once` is the rule that a caller waits at `closing` until
the phase is `closed`. A stream has a handler (`handleMediaStream` through
`Pipeline.Start`) and a reader. A pipeline is named by the stream that made it;
its loops and its turn are membership in `looping` and `answering`. `mode` is
chosen once: in realtime mode the handler creates a provider (`provider`) and a
bridge instead of a pipeline, and starts three `forwarding` goroutines, which
end with the session, with the stream's context, or when the bridge's channels
do. `ready` is the connection's `pipelineReady`; the read loop takes audio from
Twilio (`media`) only behind it. An application's `SendText` is a turn of its own
goroutine (`typing`). A send on a
closed channel sends the label to `panicked` where net/http recovers, and stops
the world (`fatal`) where nobody does.

**TurnPipeline.** `pc` walks each speaker through `processAudio`
(`stt` - `check1` - `llm` - `check2` - `tts` - `check3` - `send`/`push`),
`processInput` (no checks before `send`) or the greeting. `ear` is the audio
loop, which reads `isProcessing` under the lock and interrupts after releasing
it. `extra` and `late` count what is heard after an interruption. Text from
providers, energy values and the 20 ms pacing are left out: any answer, of up to
`MaxChunks` chunks, may come at any time.

**Conversation.** The chunks of voice the user says are numbered. The buffer is
what `bytes.Buffer` is: `memory` holds each array it has had, `length` how much of
the newest is in use; `Reset` keeps the array, so the next `Write` overwrites what
an earlier `Bytes()` still shows, and a `Write` that does not fit moves to an array
twice as big. A turn's `slice` is an array and a length, and `Transcribe` reads it
at any later time. From there a turn records its question, copies the transcript
into a request, goes round the tool loop, records its answer and enters its
latency in the average; other turns do the same between any two of its steps.
In the tool loop the reply joins `messages`, then each of its calls is answered in
a step of its own, by its handler (or the handler's error), or because there is
none; `sent` is how much of `messages` the request holds, set when the loop asks
again. The interruptions of `TurnPipeline` appear as a turn's choice to end at its
checks, and its audio not at all. `Greet` is the greeting's entry in the
transcript: `Pipeline.Start` adds it before it starts the loops, and a typed turn
may come first. That a reply with tool calls emits no `EventToolCall` in text
mode (`providers.go:205-309` has no event channel) is a gap in the feature, not a
matter of any state here.

**MediaTransport.** `phase` plays the part it has in `CallLifecycle`; `reader`
is the read loop between two channel operations; events are counted, because
only the channel's capacity and its being closed matter. Twilio's messages may
come in any order and any number.

**AudioQueue.** Chunks are numbered in the order `Write` accepts them. `Write` is
its three attempts: send, take the oldest out, send for good. The refinement maps
the queue, the chunk a writer holds and the chunk the write loop holds to the
abstract sequence of waiting chunks.

**CallSystem.** Twilio's side is the set of statuses each call has reached. A
callback carries any of them, at any time and as often as Twilio likes, so
callbacks are late, repeated and out of order. `Call.status` is written under
`c.mu` by `Hangup` and `Answer` and under `p.mu` by the callback; this data race
on one word is taken as atomic writes in either order. `GetCall` looks under
`p.mu`, and asks Twilio without it when the call is not there; `Close` keeps
`p.mu` through its hangups and through `transport.Close`.

**MemoryStore.** A request fails before or after it took effect. `root` gives the
memory an observation stands for, through all its replacements. The refinement
gives a memory the content of its observation or, while none exists, the one its
`Update` has in hand: the change takes place when the old observation is deleted.

## Runs

| Run | Instance | Shows |
|---|---|---|
| `inbound` | 1 call, 2 sessions, a webhook, a callback, an application, a stream, both modes, fair | `RegistryInv`, `ClosedSessionUnlisted`, `RemoteEndIsSafe`, `CallbackAnswered`, `ClosedSessionQuiesces` |
| `shutdown` | 2 calls, 3 sessions, webhook, callback, caller, `Stop`, stream, both modes | `InboundSessionListed`, `UnlistedIsDisplaced`, `EvictedOnlyByOwnClose`, `SweepIsExclusive` |
| `turns` | a spoken turn, a typed turn, a greeting, 2 chunks each, `audioOut` of 1 | `InterruptBoundsSpeech`, `StaleSpeechBounded`, `ProcessingMeansTurn`, types |
| `turns_live` | a spoken turn, a typed turn, a greeting, 1 chunk each, `audioOut` of 1, no barge-in, fair | `TurnEnds`, `LoopsStart` |
| `conversation` | 2 spoken turns and a typed one, a greeting, 2 chunks of speech, a first array of 1, 3 LLM rounds of 2 tool calls, latencies 1 and 3 | `EveryChunkHandedOnce`, `MisheardOnlyWhenSpokenOver`, `TranscriptAccounts`, `RequestKnowsPast`, `RequestWellFormed`, `AverageBounded`, types |
| `streams` | 2 connections, an application closing, `Provider.Close`, 2 events | `RemoteEndIsSafe`, `TransportInv`, `SweepIsExclusive` |
| `audio` | 2 writers, queue of 2, 6 chunks, fair | refinement of `LossyStream`, `QueueInv`, `ResendHasRoom`, `DropsOldest`, `WriteReturns` |
| `calls` | 2 calls, 2 `Call`s, a webhook thread, a caller, a callback thread, a user, `Close`, 3 statuses | `TrackingInv`, `EndedIsOver`, `DroppedOnlyWhenDone` |
| `memories` | 4 observation IDs, 2 contents, 3 clients | refinement of `KeptMemories`, `MemoryInv`, `NoneLostSilently` |

That the session in use is the one `GetSession` finds (`gateway.go:272`) is true
of a call that one webhook announces (`AnnouncedOnce`), even when its start
message finds the first session closed and makes another:
`InboundSessionListed` and `EvictedOnlyByOwnClose` say so. It is not true of every
call: `MakeCall` and the start message both create a session for an outbound
call, and `OutboundRace.cfg` below shows `ActiveSessionListed`, the same without
the hypothesis, violated. `UnlistedIsDisplaced` says that such a second session,
or a rejected call, is the only way in which one is lost.

`RemoteEndIsSafe` (of `CallLifecycle`) bounds the crashes below: while no
`Close` has hung up, the process dies neither of an event nor of audio from
Twilio, and in realtime mode of nothing; what is left to a stream's end is a text
turn's send (`HangUpMidAnswer`), and to the application a turn typed too early
(`TypedBeforeStart`).

Three runs each find a behaviour that contradicts what the repository says of
itself; `PROJECT.json` (`findings`) quotes the lines.

| Run | What happens |
|---|---|
| `stop_blocks` | `Stop` waits for the lock it holds (`gateway.go:244`) |
| `interrupted_answer_resumes` | a new turn resets an older turn's interruption (`pipeline.go:280`) |
| `realtime_deaf` | in realtime mode nothing closes `pipelineReady`, so the caller's audio never reaches `forwardInboundAudio` (`connection.go:141`) |

Beside the runs of `PROJECT.json` there are configurations for questions about
the same modules that are narrower, or have the same cause as one above. Each
takes a minute at most: `tlc -config <name>.cfg MC<module>`. Three pass, the others
give a counterexample to the property they name.

| Configuration | Module | Property | Outcome |
|---|---|---|---|
| `CallsLive` | `CallSystem` | `CallbackApplied` | holds: the hangups that `Close` asks for under `p.mu` hold no callback up for ever, up to its call of `transport.Close` |
| `ToolRounds` | `Conversation` | `RequestWellFormed` | holds: a spoken and a typed turn of three LLM rounds with up to two tool calls each |
| `StreamsLive` | `MediaTransport` | `EndedStreamIsRemoved` | holds: a stream whose end is seen is removed if its events are drained |
| `OutboundRace` | `CallLifecycle` | `ActiveSessionListed` | for an outbound call, `MakeCall` replaces the session the start message has made (`gateway.go:318`) |
| `HangUpMidAnswer` | `CallLifecycle` | `SendFindsOpenChannel` | a chunk is sent on the closed `audioOut` (`pipeline.go:503`) |
| `EmitAfterClose` | `CallLifecycle` | `EmitFindsOpenChannel` | an event is sent on the closed `events` (`session.go:371`) |
| `MediaAfterClose` | `CallLifecycle` | `MediaFindsOpenChannel` | audio from Twilio is sent on the closed `audioIn` (`connection.go:163`) |
| `TypedBeforeStart` | `CallLifecycle` | `TurnsHaveContext` | `SendText` runs a turn before `Start` has set its context (`session.go:224`, `pipeline.go:95`) |
| `ProviderLeaks` | `CallLifecycle` | `CloseReleasesProvider` | `Close` overtakes `startRealtimePipeline`, whose provider stays open (`session.go:168`) |
| `CloseMissesPipeline` | `CallLifecycle` | `CloseStopsPipeline` | `Close` overtakes `startTextPipeline` (`session.go:164`) |
| `BargeInMissed` | `TurnPipeline` | `SpeakingIsInterruptible` | the first turn to end clears the flag of both (`pipeline.go:285`) |
| `UtteranceOverwritten` | `Conversation` | `UtteranceIntact` | the user speaks again while the STT still reads the last utterance (`pipeline.go:262`) |
| `InputTwice` | `Conversation` | `InputOnce` | the input is in the history it is added to (`providers.go:229`) |
| `AverageHalved` | `Conversation` | `AverageIsMean` | turns that are not measured are counted, the user's among them (`session.go:392`) |
| `CloseCrashes` | `MediaTransport` | `CloseIsSafe` | a local `Close` makes the read loop send on a closed channel (`transport/provider.go:319`) |
| `TransportCloseBlocks` | `MediaTransport` | `ShutdownReturns` | `Provider.Close` waits for the lock it holds (`transport/provider.go:245`) |
| `TransportCloseMisses` | `MediaTransport` | `ShutdownClosesAccepted` | a connection not yet started is not closed (`transport/provider.go:145`) |
| `DropWithRoom` | `AudioQueue` | `DropsOnlyWhenFull` | a chunk is dropped from a queue that has room (`transport/provider.go:469`) |
| `HollowMedia` | `AudioQueue` | `WritesOnlyAudio` | a closed queue yields empty media messages (`transport/provider.go:392`) |
| `ListsDeadCalls` | `CallSystem` | `ListsOnlyActive` | a busy call stays listed (`callsystem/provider.go:298`) |
| `CallbackBlocks` | `CallSystem` | `CallbackAlwaysApplied` | a callback waits for ever when `transport.Close`, called under `p.mu`, does not return (`callsystem/provider.go:256`; `TransportCloseBlocks` shows that it need not) |
| `HangupUndone` | `CallSystem` | `HangupIsFinal` | a late callback revives an ended call (`callsystem/provider.go:297`) |

**Bounds.** Two of each thing that can compete is enough for the races the
properties are about: two sessions for one SID, two closers of one session, two
speakers, two writers, two connections, two updates of one memory (and a third
client to delete it). `MaxChunks = 2` has a chunk before and one after a check;
`OutCap = 1` makes a full queue easy to reach (500 in the code); `EventsCap = 2`
likewise (100 in the code, with a queue of 2 filled by the protocol's own
events); `MaxWrites = 6` writes three times round a queue of two. `Words` in
`calls` leaves out "in-progress", handled as "ringing" is, and the statuses
handled as "busy" is. In `conversation`
a first array of one chunk makes two chunks outgrow it when they are one
utterance, and overwrite it when they are two; two spoken turns are
what it takes for one to be handed the array the other still reads, and a typed
turn is the only kind that runs beside the greeting. Three LLM rounds (ten in
the code) of two calls have a first, a middle and a last, and each handler may
answer, fail or be missing; `ToolRounds.cfg` mixes replies of one call and of
two. `turns_live` has one chunk per speaker, because another speaker's chunk fills `audioOut`, and `InterruptionMode` "disabled":
the interruptions that remain are the application's, which act on the turns as a
barge-in does. The theorems drop all these bounds.

**Deadlock** is not checked anywhere: goroutines that serve one request stop
when it is answered, and `Stop` and the transport's `Provider.Close` really block, which
`stop_blocks` and `TransportCloseBlocks.cfg` state as liveness instead.

**Symmetry** is used in runs of invariants and action properties only.

**Fairness.** Weak fairness on the steps a goroutine takes on its own: the Go
scheduler runs it, and timers fire (`MaxSessionDuration` bounds every context).
REST requests return, with an error if need be, and so do the provider calls of a
spoken turn and of the greeting, which are made with the pipeline's context
(`pipeline.go:127`, `:295`, `:334`). Those of a typed turn are not: `SendText`
makes them with `context.Background()` (`session.go:130`), so in `TurnPipeline`
they may never return, and `TurnEnds` says of a typed turn only that it ends once
it has its answer. In `CallLifecycle` `ClosedSessionQuiesces` leaves typed turns
out for the same reason. `transport.Close` is not assumed to return, so
`CallbackApplied` ends where a `Close` has come to it. A forwarder that
has been told to end ends, although its `select` may have audio to choose
instead: Go picks among ready cases at random, so it does not pass over one for
ever. Nothing is assumed
of callers, of Twilio's messages or of the application, except that it drains
the events of connections it has accepted (`StreamsLive.cfg`), as the example in
`README.md:428` does not and the channel's bound requires. A read from a socket
this process has closed fails.

## Theorems

| Theorem | Says |
|---|---|
| `CallLifecycleProofs!RegistryCorrect` | `Spec => []RegistryInv` |
| `CallLifecycleProofs!ClosedNeverListed` | `Spec => []ClosedSessionUnlisted` |
| `CallLifecycleProofs!SweepExclusive` | `Spec => SweepIsExclusive` |
| `CallRegistryProofs!InboundStaysListed` | `Spec => []InboundSessionListed` |
| `CallRegistryProofs!EvictedByOwnClose` | `Spec => EvictedOnlyByOwnClose` |
| `CallRegistryProofs!MissingIsDisplaced` | `Spec => []UnlistedIsDisplaced` |
| `CallRegistryProofs!RemoteEndSafe` | `Spec => []RemoteEndIsSafe` |
| `CallRegistryProofs!StopWithSessionBlocks` | `Spec => StopIsFinal`: a `Stop` that has begun to close a session stays there, with the lock and the map |
| `CallRegistryProofs!RealtimeIsDeaf` | `Spec => []CallerUnheard`: in realtime mode no audio is passed on |
| `TurnPipelineProofs!InterruptionHolds` | `Spec => []InterruptBoundsSpeech` |
| `TurnPipelineProofs!StaleSpeechIsBounded` | `Spec => []StaleSpeechBounded` |
| `TurnPipelineProofs!NoPhantomTurn` | `Spec => []ProcessingMeansTurn` |
| `TurnPipelineProofs!TurnTypes` | `Spec => []TypeOK` |
| `ConversationProofs!ChunksHandedOnce` | `Spec => []EveryChunkHandedOnce` |
| `ConversationProofs!MishearingIsBounded` | `Spec => MisheardOnlyWhenSpokenOver` |
| `ConversationProofs!TranscriptIsAccounted` | `Spec => []TranscriptAccounts` |
| `ConversationProofs!RequestsKnowPast`, `RequestsAreWellFormed` | `Spec => []RequestKnowsPast`, `Spec => []RequestWellFormed` |
| `ConversationProofs!AverageIsBounded`, `TypeCorrect` | `Spec => []AverageBounded`, `Spec => []TypeOK` |
| `MediaTransportProofs!RemoteEndSafe`, `TransportCorrect` | `Spec => []RemoteEndIsSafe`, `Spec => []TransportInv` |
| `MediaTransportProofs!SweepExclusive` | `Spec => SweepIsExclusive` |
| `MediaTransportProofs!CloseWithConnectionBlocks` | `Spec => ShutdownIsFinal`: a `Provider.Close` that has begun to close a live connection stays there |
| `AudioQueueProofs!ResendNeverBlocks`, `QueueCorrect` | `Spec => []ResendHasRoom`, `Spec => []QueueInv` |
| `AudioQueueProofs!OldestGoFirst` | `Spec => []DropsOldest` |
| `AudioQueueProofs!RefinesLossyStream` | `Spec => ImplementsLossyStream` |
| `CallSystemProofs!TrackingCorrect`, `EndedMeansOver` | `Spec => []TrackingInv`, `Spec => []EndedIsOver` |
| `CallSystemProofs!NoneSlipsAway` | `Spec => DroppedOnlyWhenDone` |
| `MemoryStoreProofs!MemoryCorrect`, `NeverTwo` | `Spec => []MemoryInv`, `Spec => []OneLivePerMemory` |
| `MemoryStoreProofs!NothingLostSilently` | `Spec => []NoneLostSilently` |
| `MemoryStoreProofs!RefinesKeptMemories` | `Spec => ImplementsKeptMemories` |

They hold for any number of calls, sessions, goroutines, turns, chunks, tool calls and clients,
under the named assumptions of the modules: `None` is none of the things it
stands beside, kinds of goroutine and of speaker do not overlap (one goroutine runs
one handler), the speakers are finitely many, bounds are natural
numbers, capacities positive, `Words` are Twilio's statuses.

Three of the disagreements above are theorems too. TLC shows a `Stop` that does not return and an
audio that is not heard; `StopWithSessionBlocks`, `CloseWithConnectionBlocks` and
`RealtimeIsDeaf` show that this is no accident of a schedule or of an instance:
no step of anybody ever ends it.

The inductive invariants:

- *Registry.* That a listed session is not closed is not inductive: a step of
  `Close` could reach `closed` while listed. `ListedUnderOwnSID` excludes it: a
  listed session is at most `hungup`, and `removeSession` empties its own SID's
  entry as it moves on. `SIDInHand` is needed so that `createSession` writes
  within the map's domain.
- *Registry of calls.* `OnceInv` adds three facts to `RegistryInv`. A session's
  SID is one that Twilio has announced or `MakeCall` has placed, never both
  (`SIDOrigins`); a stream has its call to itself, and the session it holds is one
  of that call (`StreamSessions`); and under `AnnouncedOnce` the entry of a SID
  follows the webhook (`AnnouncedInv`): there is no session before the webhook's
  own, no stream before its answer, and from then on a session that has not left
  the map is the entry. A start message creates a session only when it has found
  none, and since a call has one stream nobody else creates one in between.
- *Displacement.* An entry changes to a new session of the same SID, or to none
  with the removal of some session of that SID or with a rejection; SIDs and
  rejections are for ever.
- *Blocking.* `StopHolds`: a `Stop` at `closing` has the lock, and the session it
  waits for is still listed. So that session is at most `hungup`, and its next
  step needs the lock. `ShutHolds` is the same for the transport provider.
- *Crashes.* Until a `Close` has hung up, only a read loop that is over has closed
  its connection (`EndedByReader`); whoever emits has a session
  (`EmitsForSession`); a realtime gateway has no pipelines, and so no turns
  (`RealtimeHasNoTurns`). Together they are `EndInv`.
- *Interruption.* `extra + InHand <= 1` counts the chunk a speaker has checked
  for but not pushed; without it a speaker between check and push has no bound.
- *Stale speech.* `StaleAccounted` counts, while an interruption stands, what has
  been heard late, what is queued or in the write loop's hand, and how many speakers
  have spent their one chunk: together never more than the bound. A chunk moves from
  one of these places to the next, and a speaker's only once.
- *Speech buffer.* A turn's utterance may be overwritten only after something new
  was said. What has been handed over was said before what the buffer holds
  (`SlicesPast`), and the utterance that was the last thing said is still what its
  array shows (`LastIntact`); `Write` keeps what is in the buffer when the array is
  reused and when it grows.
- *Transcript and requests.* A request is a copy of the transcript's beginning
  and the transcript only grows, so the copy stays one; replies and answers are
  added behind it. That every call is answered is not kept by these steps: while
  tools run the last reply has only some of its answers. `OpenRound` says how far
  it has come: the messages end with the reply and its first `done` answers, and
  all before the reply is answered. So what the loop sends when `done` has come
  to the end is whole; the part copied from the transcript has no calls in it.
- *Average.* The step is the one nonlinear fact: a sum of `n - 1` times at most
  the maximum and one sample, divided by `n`, is at most the maximum.
- *Transport.* `ReaderClosesLast`: unless this process closes it, a connection
  begins to close only when its read loop has nothing left to send, so its
  channels are open whenever the loop sends.
- *Queue.* Only the holder of `w.mu` is between its attempts, and whoever has
  dropped a chunk finds room: the write loop only takes. That the oldest goes first
  needs `OrderInv`: what waits is in order and older than the chunk in the hand of
  the writer, who has counted it but not sent it.
- *Lossy stream.* `Waiting` is the chunk in the loop's hand, the channel, and the
  chunk in the writer's hand, in this order. `Write` appends to it, the loop's write
  delivers its head, a drop loses the place behind the loop's chunk, and the moves
  between the three places leave it unchanged. `Cap + 2` is the room of the three.
- *Call system.* An ended status is written after a hangup that succeeded or a
  callback that says so, hence the facts about what threads have in hand; while
  `Close` holds the lock, each tracked call is still to be visited, in hand, or
  asked (`SweepAccounts`). The lock is `Close`'s until `transport.Close` returns.
- *Memory.* `RecreatesAlone`: the memory an `Update` is about to recreate has no
  observation, and no second `Update` is at that point, because only one of
  several `Delete`s of an observation succeeds, as assumed of Twilio below. For `NoneLostSilently`, an `Update`
  past its `Get` has a content to create (`DraftInHand`).
- *Kept memories.* The mapping uses `CHOOSE`; `TextIsWhatIsSaid` replaces it by what
  observations and drafts say, of which the invariant leaves one. Then each request
  changes what at most one memory says.

Only model-checked: the liveness properties `CallbackAnswered`,
`ClosedSessionQuiesces`, `TurnEnds`, `LoopsStart` and `WriteReturns` (fairness and
`ENABLED` are beyond the prover). Every invariant and action property of the
passing runs is a theorem.

## Not modelled

- Energy detection, audio contents and pacing: real time and data. `audioReader`'s
  partial reads.
- `Gateway.Start`, options and configuration, which run before anything competes;
  the adapters' constructors (`init.go`, `providers.go`), which choose a vendor's
  library by name and keep no state.
- The bridge of realtime mode, which is a library: its channels deliver or end.
- `AttachAgent` and `DetachAgent` (`callsystem/provider.go:433-454`): one pointer
  assigned without a lock around calls of an interface that nothing here
  implements, so a property would be about the model's own agent.
- SMS and chat (`omnichat/provider.go`): two handlers read under a lock and called
  outside it, a flag, and one request per message; no step depends on another.
- The speech providers (`omnivoice/stt`, `omnivoice/tts`): TwiML text and event
  parsing.
- The REST client, which appears through the outcomes of its requests.
- Two goroutines that write one websocket: `connection.go:228` and `:269`, and in
  the transport `SendMark` and `Clear` (`transport/provider.go:417`, `:429`) beside
  the write loop. They are not told apart from one: the library may panic when it
  notices, and no `RemoteEndIsSafe` covers that.
- Logging, TwiML text, formatting.

## What is assumed of Twilio

The code relies on these without checking them, and so do the modules; the
definitions named are marked external in `map`.

- A call's stream starts once, and its start message comes before media and DTMF
  (`CallLifecycle!Messages`). A second start message would close `sessionReady`
  twice (`connection.go:135`) and end the process. `MediaTransport` does not need
  this: it takes messages in any order.
- Deleting an observation that is gone is an error (`MemoryStore!Remove`).
  `OneLivePerMemory`, `MemoryInv` and the refinement of `KeptMemories` rest on it:
  if Twilio reported success, two `Update`s of one observation would leave two.
- A status callback reports only a status its call has reached
  (`CallSystem!CallbackArrive`); it may be late, repeated and out of order.

## How to read the weaker properties

- `RemoteEndIsSafe`, in both modules, is about crashes without a `Close` of this
  process; the crashes after one are the counterexamples of `HangUpMidAnswer`,
  `EmitAfterClose`, `MediaAfterClose` and `CloseCrashes`.
- `CallbackAnswered` counts a panic that net/http recovers as an answer: Twilio gets
  one, and the server goes on.
- `UnlistedIsDisplaced` excuses a session of which there is another with the same
  SID; `OutboundRace` shows when that happens.
- `MisheardOnlyWhenSpokenOver` bounds when an utterance changes under the STT; that
  it can is `UtteranceOverwritten`.
- `AverageBounded` is an upper bound only; that the average is not the mean is
  `AverageHalved`.
- `ProcessingMeansTurn` is one direction of the flag's meaning; that the other fails
  is `BargeInMissed`.
- `EndedIsOver` says that an "ended" is right, not that it lasts, which
  `HangupUndone` refutes.

## Plan

Done: all modules above, each with its theorems.

To come:

1. an abstract specification of the session registry for calls announced once,
   from `OnceInv`;
2. the facts behind the liveness properties that are safety: what each goroutine
   that waits is waiting for.
