--------------------------- MODULE CallLifecycle ---------------------------
(***************************************************************************)
(* The life of a call inside the voice gateway (omnivoice/gateway): the    *)
(* session map under g.mu, a session's step-by-step Close, the HTTP        *)
(* handlers (inbound webhook, status callback, media stream), MakeCall,    *)
(* the application's own use of a session, and Stop.                       *)
(*                                                                         *)
(* One identity per goroutine: a request runs its handler once; a stream   *)
(* has a handler goroutine, a read loop and, once its pipeline runs, in    *)
(* text mode the pipeline's loops and a turn, in realtime mode three       *)
(* forwarders.  Between two steps of a goroutine any other may move.       *)
(*                                                                         *)
(* A send on a closed channel panics.  In an HTTP handler net/http         *)
(* recovers the panic ("panicked"); in any other goroutine it ends the     *)
(* process (fatal names the channel).                                      *)
(***************************************************************************)
CONSTANTS
  CallSIDs,    \* Twilio call identifiers
  SessionIds,  \* identities of *Session objects
  Webhooks,    \* POST /voice/inbound requests
  Callbacks,   \* POST /voice/status requests carrying a terminal status
  Callers,     \* goroutines calling Gateway.MakeCall
  Apps,        \* application goroutines using a session
  Stoppers,    \* goroutines calling Gateway.Stop
  Streams,     \* GET /ws/media-stream connections, each with its pipeline
  Modes,       \* the pipeline modes Config.Mode may have
  None

ASSUME ModesAssumption == Modes \subseteq {"text", "realtime"}

ASSUME NoneAssumption ==
  None \notin CallSIDs \cup SessionIds \cup Streams \cup Stoppers

Requests == Webhooks \cup Callbacks \cup Callers \cup Apps \cup Stoppers

\* A goroutine runs one handler.
ASSUME KindsAssumption ==
  /\ Webhooks \cap (Callbacks \cup Callers \cup Apps \cup Stoppers) = {}
  /\ Callbacks \cap (Callers \cup Apps \cup Stoppers) = {}
  /\ Callers \cap (Apps \cup Stoppers) = {}
  /\ Apps \cap Stoppers = {}

VARIABLES
  mu,           \* g.mu's writer across steps: a goroutine in Stop, or None
  sessions,     \* g.sessions: call SID -> session, None if absent
  calls,        \* SIDs the call system tracks (callsystem.Provider.calls)
  serving,      \* the HTTP server accepts requests
  session,      \* the Session objects
  req,          \* the requests' goroutines: label, session and SID in hand
  stream,       \* the mediaStreamConn objects and their two goroutines
  up, done,     \* streams whose socket is open; whose conn.done is closed
  stopped,      \* streams whose pipeline's done channel is closed
  cancelled,    \* streams whose pipeline's context is done
  released,     \* streams whose realtime provider has been closed
  ready,        \* streams whose conn.pipelineReady is closed
  looping,      \* streams whose pipeline loops run
  answering,    \* streams whose pipeline has a turn under way
  forwarding,   \* the running forwarders, each with its stream
  mode,         \* Config.Mode, the same for every session
  ringing,      \* Twilio: SIDs of inbound calls
  connectable,  \* Twilio: SIDs it has been told to open a stream for
  fatal         \* the panic the process died of, if any

registry == <<mu, sessions, calls, serving>>
sockets  == <<up, done>>
contexts == <<stopped, cancelled, released>>
workers  == <<ready, looping, answering, forwarding>>
streams  == <<stream, sockets, contexts, workers>>
outside  == <<mode, ringing, connectable>>
vars     == <<registry, session, req, streams, outside, fatal>>

\* A phase says how far a session's life, and its Close, has come.
Phases == {"unborn", "open", "begun", "stopped", "hungup", "removed", "closed"}
Unremoved == {"open", "begun", "stopped", "hungup"}
RequestLabels ==
  {"idle", "arrived", "created", "rejected", "reported", "found", "placed",
   "holding", "typing", "closing", "sweeping", "swept", "answered", "panicked"}
HandlerLabels ==
  {"idle", "waiting", "attached", "built", "installed", "starting", "greeting",
   "provided", "joined", "running", "draining", "over", "panicked"}
ReaderLabels == {"idle", "reading", "start", "creating", "dtmf", "media", "over"}

\* forwardBridgeEvents, forwardInboundAudio, forwardOutboundAudio
Forwarders == {"events", "in", "out"}

SessionState ==
  [sid : CallSIDs \cup {None},
   phase : Phases,
   conn : Streams \cup {None},
   pipeline : Streams \cup {None},  \* named by the stream that created it, as is
   provider : Streams \cup {None}]  \* the realtime provider

RequestState ==
  [pc : RequestLabels,
   session : SessionIds \cup {None},
   sid : CallSIDs \cup {None}]

StreamState ==
  [handler : HandlerLabels,
   reader : ReaderLabels,
   sid : CallSIDs \cup {None},
   session : SessionIds \cup {None}]

TypeOK ==
  /\ mu \in Stoppers \cup {None}
  /\ sessions \in [CallSIDs -> SessionIds \cup {None}]
  /\ calls \subseteq CallSIDs
  /\ serving \in BOOLEAN
  /\ session \in [SessionIds -> SessionState]
  /\ req \in [Requests -> RequestState]
  /\ stream \in [Streams -> StreamState]
  /\ up \subseteq Streams /\ done \subseteq Streams
  /\ stopped \subseteq Streams /\ cancelled \subseteq Streams
  /\ released \subseteq Streams /\ ready \subseteq Streams
  /\ looping \subseteq Streams /\ answering \subseteq Streams
  /\ forwarding \subseteq Streams \X Forwarders
  /\ mode \in {"text", "realtime"}
  /\ ringing \subseteq CallSIDs
  /\ connectable \subseteq CallSIDs
  /\ fatal \in {"none", "emit", "send", "media", "context"}

Init ==
  /\ mu = None
  /\ sessions = [x \in CallSIDs |-> None]
  /\ calls = {}
  /\ serving = TRUE
  /\ session = [s \in SessionIds |-> [sid |-> None, phase |-> "unborn",
                                      conn |-> None, pipeline |-> None,
                                      provider |-> None]]
  /\ req = [r \in Requests |-> [pc |-> "idle", session |-> None, sid |-> None]]
  /\ stream = [c \in Streams |-> [handler |-> "idle", reader |-> "idle",
                                  sid |-> None, session |-> None]]
  /\ up = {} /\ done = {}
  /\ stopped = {} /\ cancelled = {} /\ released = {}
  /\ ready = {} /\ looping = {} /\ answering = {} /\ forwarding = {}
  /\ mode \in Modes
  /\ ringing = {}
  /\ connectable = {}
  /\ fatal = "none"

----------------------------------------------------------------------------
\* A fatal panic ends every goroutine; each of them is at one label.
Alive == fatal = "none"
At(r, label)        == Alive /\ req[r].pc = label
HandlerAt(c, label) == Alive /\ stream[c].handler = label
ReaderAt(c, label)  == Alive /\ stream[c].reader = label

(* The registry's operations.  Each critical section of g.mu is one step;  *)
(* only Stop holds the lock from one step to another.                      *)

MuFree == mu = None

\* Mutant: createSession without the lock.
CreateUnlocked(s, x) ==
  /\ session[s].phase = "unborn"
  /\ session' = [session EXCEPT ![s].phase = "open", ![s].sid = x]
  /\ sessions' = [sessions EXCEPT ![x] = s]
  /\ UNCHANGED <<mu, calls, serving>>

\* createSession: a fresh object takes the SID's entry, whatever was there.
CreateSession(s, x) ==
  /\ MuFree
  /\ session[s].phase = "unborn"
  /\ session' = [session EXCEPT ![s].phase = "open", ![s].sid = x]
  /\ sessions' = [sessions EXCEPT ![x] = s]
  /\ UNCHANGED <<mu, calls, serving>>

\* removeSession: delete(g.sessions, callSID), whichever session is there.
RemoveSession(x) ==
  /\ MuFree
  /\ sessions' = [sessions EXCEPT ![x] = None]
  /\ UNCHANGED <<mu, calls, serving>>

\* emitEvent panics once the session's events channel is closed.
EventsOpen(s) == session[s].phase # "closed"
FatalUnlessOpen(s) == fatal' = IF EventsOpen(s) THEN fatal ELSE "emit"

----------------------------------------------------------------------------
(* POST /voice/inbound                                                     *)

\* Twilio announces call x: a new inbound call, or one it announces again.
InboundArrive(w) ==
  /\ At(w, "idle")
  /\ serving
  /\ \E x \in (CallSIDs \ connectable) \cup ringing :
       /\ req' = [req EXCEPT ![w].pc = "arrived", ![w].sid = x]
       /\ ringing' = ringing \cup {x}
  /\ UNCHANGED <<registry, session, streams, mode, connectable, fatal>>

InboundCreate(w) ==
  /\ At(w, "arrived")
  /\ \E s \in SessionIds :
       /\ CreateSession(s, req[w].sid)
       /\ req' = [req EXCEPT ![w].pc = "created", ![w].session = s]
  /\ UNCHANGED <<streams, outside, fatal>>

\* No handler, or one that accepts: the TwiML tells Twilio to open a stream.
InboundAccept(w) ==
  /\ At(w, "created")
  /\ MuFree
  /\ connectable' = connectable \cup {req[w].sid}
  /\ req' = [req EXCEPT ![w].pc = "answered"]
  /\ UNCHANGED <<registry, session, streams, mode, ringing, fatal>>

\* The application's handler rejects the call.
InboundReject(w) ==
  /\ At(w, "created")
  /\ RemoveSession(req[w].sid)
  /\ req' = [req EXCEPT ![w].pc = "rejected"]
  /\ UNCHANGED <<session, streams, outside, fatal>>

----------------------------------------------------------------------------
(* POST /voice/status with a terminal status                               *)

\* callSystem.HandleStatusCallback: only "completed" maps to StatusEnded.
StatusReport(b) ==
  /\ At(b, "idle")
  /\ serving
  /\ \E x \in ringing, completed \in BOOLEAN :
       /\ req' = [req EXCEPT ![b].pc = "reported", ![b].sid = x]
       /\ calls' = IF completed THEN calls \ {x} ELSE calls
  /\ UNCHANGED <<mu, sessions, serving, session, streams, outside, fatal>>

\* Mutant: a lookup that keeps the lock when it finds the session.
StatusLookupLocked(b) ==
  LET found == sessions[req[b].sid] IN
  /\ At(b, "reported")
  /\ MuFree
  /\ mu' = IF found = None THEN mu ELSE b
  /\ req' = [req EXCEPT ![b].pc = IF found = None THEN "answered" ELSE "found",
                        ![b].session = found]
  /\ UNCHANGED <<sessions, calls, serving, session, streams, outside, fatal>>

StatusLookup(b) ==
  LET found == sessions[req[b].sid] IN
  /\ At(b, "reported")
  /\ MuFree
  /\ req' = [req EXCEPT ![b].pc = IF found = None THEN "answered" ELSE "found",
                        ![b].session = found]
  /\ UNCHANGED <<registry, session, streams, outside, fatal>>

\* Mutant: the handler drops the entry itself, ahead of Close.
StatusEmitRemove(b) ==
  /\ At(b, "found")
  /\ RemoveSession(req[b].sid)
  /\ req' = [req EXCEPT ![b].pc =
               IF EventsOpen(req[b].session) THEN "closing" ELSE "panicked"]
  /\ UNCHANGED <<session, streams, outside, fatal>>

\* emitEvent(EventSessionEnded), then on to Close.
StatusEmit(b) ==
  /\ At(b, "found")
  /\ req' = [req EXCEPT ![b].pc =
               IF EventsOpen(req[b].session) THEN "closing" ELSE "panicked"]
  /\ UNCHANGED <<registry, session, streams, outside, fatal>>

----------------------------------------------------------------------------
(* Session.Close: closeOnce.Do runs the body once, every other caller      *)
(* waits for it to finish.  phase names the last step of the body done.    *)

ClosePhase(s, from, to) ==
  /\ Alive
  /\ session[s].phase = from
  /\ session' = [session EXCEPT ![s].phase = to]
  /\ UNCHANGED <<req, outside, fatal>>

\* s.closed = true; close(s.done)
CloseBegin(s) ==
  /\ \E r \in Requests : req[r].pc = "closing" /\ req[r].session = s
  /\ ClosePhase(s, "open", "begun")
  /\ UNCHANGED <<registry, streams>>

\* Pipeline.Stop, if there is a pipeline: cancel(), which Start has set, and
\* close(p.done).  RealtimeBridge.Close, if there is a bridge, ends the channels
\* of forwarders that s.done has already told to return.
CloseStop(s) ==
  LET p == session[s].pipeline IN
  /\ ClosePhase(s, "begun", "stopped")
  /\ stopped' = stopped \cup ({p} \ {None})
  /\ cancelled' = cancelled \cup
       {c \in Streams : c = p /\ stream[c].handler \in {"greeting", "running"}}
  /\ UNCHANGED <<registry, stream, sockets, released, workers>>

\* The realtime provider's Close, if there is one; then mediaStreamConn.close,
\* if there is a connection: done, audioIn, audioOut and the socket, once.
CloseHangUp(s) ==
  LET c == session[s].conn IN
  /\ ClosePhase(s, "stopped", "hungup")
  /\ released' = released \cup ({session[s].provider} \ {None})
  /\ done' = done \cup ({c} \ {None})
  /\ up' = up \ {c}
  /\ UNCHANGED <<registry, stream, stopped, cancelled, workers>>

\* Mutant: Close does not remove the session.
CloseForget(s) ==
  /\ ClosePhase(s, "hungup", "removed")
  /\ UNCHANGED <<registry, streams>>

CloseRemove(s) ==
  /\ ClosePhase(s, "hungup", "removed")
  /\ RemoveSession(session[s].sid)
  /\ UNCHANGED streams

\* close(s.events)
CloseEvents(s) ==
  /\ ClosePhase(s, "removed", "closed")
  /\ UNCHANGED <<registry, streams>>

\* The caller of Close gets control back: Stop goes on with its sweep.
CloseReturn(r) ==
  /\ At(r, "closing")
  /\ session[req[r].session].phase = "closed"
  /\ req' = [req EXCEPT ![r].pc = IF r \in Stoppers THEN "sweeping" ELSE "answered"]
  /\ UNCHANGED <<registry, session, streams, outside, fatal>>

----------------------------------------------------------------------------
(* Gateway.MakeCall                                                        *)

\* callSystem.MakeCall: Twilio places the call, the call system tracks it.
MakeCallPlace(m) ==
  /\ At(m, "idle")
  /\ \E x \in CallSIDs \ (ringing \cup connectable) :
       /\ req' = [req EXCEPT ![m].pc = "placed", ![m].sid = x]
       /\ calls' = calls \cup {x}
       /\ connectable' = connectable \cup {x}
  /\ UNCHANGED <<mu, sessions, serving, session, streams, mode, ringing, fatal>>

MakeCallReturn(m) ==
  /\ At(m, "placed")
  /\ \E s \in SessionIds :
       /\ CreateSession(s, req[m].sid)
       /\ req' = [req EXCEPT ![m].pc = "answered", ![m].session = s]
  /\ UNCHANGED <<streams, outside, fatal>>

----------------------------------------------------------------------------
(* The application: GetSession (or what MakeCall returned), then           *)
(* Interrupt, SendText or Close.                                           *)

AppGetSession(a) ==
  /\ At(a, "idle")
  /\ \E s \in SessionIds :
       /\ \/ MuFree /\ \E x \in CallSIDs : sessions[x] = s
          \/ \E m \in Callers : req[m].pc = "answered" /\ req[m].session = s
       /\ req' = [req EXCEPT ![a].pc = "holding", ![a].session = s]
  /\ UNCHANGED <<registry, session, streams, outside, fatal>>

\* Session.Interrupt ends in emitEvent, outside any recover.
AppInterrupt(a) ==
  /\ At(a, "holding")
  /\ req' = [req EXCEPT ![a].pc = "answered"]
  /\ FatalUnlessOpen(req[a].session)
  /\ UNCHANGED <<registry, session, streams, outside>>

\* Session.SendText: without a pipeline it returns nil, else it runs the turn.
AppSendText(a) ==
  /\ At(a, "holding")
  /\ req' = [req EXCEPT ![a].pc =
               IF session[req[a].session].pipeline = None THEN "answered" ELSE "typing"]
  /\ UNCHANGED <<registry, session, streams, outside, fatal>>

TypedEnd(a) ==
  /\ At(a, "typing")
  /\ req' = [req EXCEPT ![a].pc = "answered"]
  /\ UNCHANGED <<registry, session, streams, outside, fatal>>

\* The typed turn emits on the closed events channel, sends on the closed
\* audioOut, or uses the context Pipeline.Start has yet to set.
TypedPanic(a) ==
  LET s == req[a].session
      p == session[s].pipeline
  IN
  /\ At(a, "typing")
  /\ \/ ~EventsOpen(s) /\ fatal' = "emit"
     \/ p \in done /\ fatal' = "send"
     \/ stream[p].handler \in {"installed", "starting"} /\ fatal' = "context"
  /\ UNCHANGED <<registry, session, req, streams, outside>>

AppClose(a) ==
  /\ At(a, "holding")
  /\ req' = [req EXCEPT ![a].pc = "closing"]
  /\ UNCHANGED <<registry, session, streams, outside, fatal>>

----------------------------------------------------------------------------
(* Gateway.Stop: closes every session with g.mu held.                      *)

StopLock(g) ==
  /\ At(g, "idle")
  /\ MuFree
  /\ mu' = g
  /\ req' = [req EXCEPT ![g].pc = "sweeping"]
  /\ UNCHANGED <<sessions, calls, serving, session, streams, outside, fatal>>

StopSweep(g) ==
  /\ At(g, "sweeping")
  /\ \E x \in CallSIDs :
       /\ sessions[x] # None
       /\ req' = [req EXCEPT ![g].pc = "closing", ![g].session = sessions[x]]
  /\ UNCHANGED <<registry, session, streams, outside, fatal>>

StopReset(g) ==
  /\ At(g, "sweeping")
  /\ \A x \in CallSIDs : sessions[x] = None
  /\ sessions' = [x \in CallSIDs |-> None]
  /\ mu' = None
  /\ req' = [req EXCEPT ![g].pc = "swept"]
  /\ UNCHANGED <<calls, serving, session, streams, outside, fatal>>

\* server.Shutdown: no new request; hijacked sockets are left alone.
StopShutdown(g) ==
  /\ At(g, "swept")
  /\ serving' = FALSE
  /\ req' = [req EXCEPT ![g].pc = "answered"]
  /\ UNCHANGED <<mu, sessions, calls, session, streams, outside, fatal>>

----------------------------------------------------------------------------
(* GET /ws/media-stream: the read loop of stream c                         *)

\* Upgrade, and the go statements for both loops.  Twilio runs the <Stream>
\* of a call once.
StreamOpen(c) ==
  /\ HandlerAt(c, "idle")
  /\ serving
  /\ \E x \in connectable :
       /\ \A d \in Streams : stream[d].sid # x
       /\ stream' = [stream EXCEPT ![c].handler = "waiting", ![c].sid = x,
                                   ![c].reader = "reading"]
       /\ up' = up \cup {c}
  /\ UNCHANGED <<registry, session, req, done, contexts, workers, outside, fatal>>

\* What Twilio may send, as far as the loop acts on it: "media" is skipped while
\* the pipeline is not ready.  Assumed of Twilio: it starts a stream once, before
\* anything else (a second start message would close sessionReady again).
Messages(c) ==
  IF stream[c].session = None THEN {"start"}
  ELSE IF c \in ready THEN {"dtmf", "media"} ELSE {"dtmf"}

ReadMessage(c) ==
  /\ ReaderAt(c, "reading")
  /\ c \in up
  /\ \E message \in Messages(c) : stream' = [stream EXCEPT ![c].reader = message]
  /\ UNCHANGED <<registry, session, req, sockets, contexts, workers, outside, fatal>>

\* getSessionInternal; c.session and sessionReady when there is one.
StartLookup(c) ==
  LET found == sessions[stream[c].sid] IN
  /\ ReaderAt(c, "start")
  /\ MuFree
  /\ stream' = [stream EXCEPT ![c].session = found, ![c].reader =
                  IF found = None THEN "creating" ELSE "reading"]
  /\ UNCHANGED <<registry, session, req, sockets, contexts, workers, outside, fatal>>

StartCreate(c) ==
  /\ ReaderAt(c, "creating")
  /\ \E s \in SessionIds :
       /\ CreateSession(s, stream[c].sid)
       /\ stream' = [stream EXCEPT ![c].session = s, ![c].reader = "reading"]
  /\ UNCHANGED <<req, sockets, contexts, workers, outside, fatal>>

DTMFEmit(c) ==
  /\ ReaderAt(c, "dtmf")
  /\ stream' = [stream EXCEPT ![c].reader = "reading"]
  /\ FatalUnlessOpen(stream[c].session)
  /\ UNCHANGED <<registry, session, req, sockets, contexts, workers, outside>>

\* c.audioIn <- audio, or the chunk is dropped when audioIn is full; Session's
\* Close may have closed audioIn in the meantime.
MediaSend(c) ==
  /\ ReaderAt(c, "media")
  /\ stream' = [stream EXCEPT ![c].reader = "reading"]
  /\ fatal' = IF c \in done THEN "media" ELSE fatal
  /\ UNCHANGED <<registry, session, req, sockets, contexts, workers, outside>>

\* "stop", a read error or conn.done: the loop returns and closes the conn.
ReadEnd(c) ==
  /\ ReaderAt(c, "reading")
  /\ stream' = [stream EXCEPT ![c].reader = "over"]
  /\ done' = done \cup {c}
  /\ up' = up \ {c}
  /\ UNCHANGED <<registry, session, req, contexts, workers, outside, fatal>>

----------------------------------------------------------------------------
(* The handler goroutine of stream c: handleMediaStream, startPipeline,    *)
(* startTextPipeline and Pipeline.Start, or startRealtimePipeline.         *)

\* The handler goroutine is not, or no longer, inside startPipeline.
Left == {"draining", "over", "panicked"}

\* One step of the handler; leaving startPipeline, by panic too, runs its
\* deferred cancel.  A text pipeline that runs has its loops, the first of
\* which closes pipelineReady; a realtime one has its forwarders.
HandlerGoto(c, from, to) ==
  /\ HandlerAt(c, from)
  /\ stream' = [stream EXCEPT ![c].handler = to]
  /\ cancelled' = IF to \in Left THEN cancelled \cup {c} ELSE cancelled
  /\ IF to = "running" /\ mode = "text"
     THEN looping' = looping \cup {c} /\ ready' = ready \cup {c}
     ELSE UNCHANGED <<looping, ready>>
  /\ forwarding' = IF to = "running" /\ mode = "realtime"
                   THEN forwarding \cup ({c} \X Forwarders) ELSE forwarding
  /\ UNCHANGED <<registry, req, sockets, stopped, released, answering, outside, fatal>>

\* A step that emits: net/http recovers the panic on a closed channel.
EmitThen(c, from, to) ==
  /\ HandlerGoto(c, from, IF EventsOpen(stream[c].session) THEN to ELSE "panicked")
  /\ UNCHANGED session

\* No start message in time, or the connection ends before one.
HandlerGiveUp(c) ==
  /\ HandlerAt(c, "waiting")
  /\ stream[c].session = None \/ c \in done
  /\ stream' = [stream EXCEPT ![c].handler = "over"]
  /\ up' = up \ {c}
  /\ UNCHANGED <<registry, session, req, done, contexts, workers, outside, fatal>>

\* sessionReady: startPipeline stores the connection in the session.
HandlerAttach(c) ==
  /\ stream[c].session # None
  /\ HandlerGoto(c, "waiting", "attached")
  /\ session' = [session EXCEPT ![stream[c].session].conn = c]

\* NewPipeline, or RealtimeProvider.Create; when a provider cannot be created,
\* EventError and return.
HandlerBuild(c) ==
  \/ HandlerGoto(c, "attached", "built") /\ UNCHANGED session
  \/ EmitThen(c, "attached", "draining")

\* s.pipeline = pipeline
HandlerInstall(c) ==
  /\ mode = "text"
  /\ HandlerGoto(c, "built", "installed")
  /\ session' = [session EXCEPT ![stream[c].session].pipeline = c]

\* emitEvent(EventSessionStarted)
HandlerAnnounce(c) == EmitThen(c, "installed", "starting")

\* Pipeline.Start sets p.ctx and p.cancel; a configured greeting emits first.
PipelineStart(c) ==
  \/ EmitThen(c, "starting", "greeting")
  \/ HandlerGoto(c, "starting", "running") /\ UNCHANGED session

\* The greeting has been sent, or its sends gave up on ctx.Done, or its audio
\* was empty (no emit in the last two), or a chunk met the closed audioOut,
\* a panic net/http recovers.
GreetingEnd(c) ==
  \/ EmitThen(c, "greeting", "running")
  \/ HandlerGoto(c, "greeting", "running") /\ UNCHANGED session
  \/ /\ c \in done
     /\ HandlerGoto(c, "greeting", "panicked")
     /\ UNCHANGED session

\* s.realtimeProvider = provider
ProviderInstall(c) ==
  /\ mode = "realtime"
  /\ HandlerGoto(c, "built", "provided")
  /\ session' = [session EXCEPT ![stream[c].session].provider = c]

\* s.realtimeBridge = bridge and bridge.Start; on failure, EventError and return.
BridgeStart(c) ==
  \/ HandlerGoto(c, "provided", "joined") /\ UNCHANGED session
  \/ EmitThen(c, "provided", "draining")

\* emitEvent(EventSessionStarted), and the go statements of the forwarders
RealtimeAnnounce(c) == EmitThen(c, "joined", "running")

\* Mutant: the pipeline's end closes the connection.
PipelineReturnHangsUp(c) ==
  /\ HandlerAt(c, "running")
  /\ c \in stopped \/ (mode = "text" /\ c \in cancelled)
  /\ stream' = [stream EXCEPT ![c].handler = "draining"]
  /\ done' = done \cup {c}
  /\ up' = up \ {c}
  /\ cancelled' = cancelled \cup {c}
  /\ UNCHANGED <<registry, session, req, stopped, released, workers, outside, fatal>>

\* Start's select takes p.done, or p.ctx.Done and EventError is emitted; it
\* chooses at random when both are ready.
PipelineReturn(c) ==
  \/ /\ c \in stopped
     /\ HandlerGoto(c, "running", "draining")
     /\ UNCHANGED session
  \/ c \in cancelled /\ mode = "text" /\ EmitThen(c, "running", "draining")

\* In realtime mode the handler waits for ctx.Done alone.
RealtimeReturn(c) ==
  /\ c \in cancelled /\ mode = "realtime"
  /\ HandlerGoto(c, "running", "draining")
  /\ UNCHANGED session

\* <-conn.done
HandlerDrain(c) ==
  /\ c \in done
  /\ HandlerGoto(c, "draining", "over")
  /\ UNCHANGED session

\* Mutant: context.WithCancel in place of WithTimeout.
NoSessionTimeout(c) == FALSE

\* context.WithTimeout(MaxSessionDuration) expires.
SessionTimeout(c) ==
  /\ Alive
  /\ stream[c].handler \notin Left \cup {"idle", "waiting"}
  /\ c \notin cancelled
  /\ cancelled' = cancelled \cup {c}
  /\ UNCHANGED <<registry, session, req, stream, sockets, stopped, released, workers,
                 outside, fatal>>

----------------------------------------------------------------------------
(* The goroutines of a running pipeline: the loops, and one turn at a time *)
(* (TurnPipeline has the turns in detail).                                 *)

\* A tick ends the user's speech: EventUserSpeechEnd, then go processAudio.
TurnBegin(c) ==
  /\ Alive /\ c \in looping \ answering
  /\ answering' = answering \cup {c}
  /\ FatalUnlessOpen(stream[c].session)
  /\ UNCHANGED <<registry, session, req, stream, sockets, contexts, ready, looping,
                 forwarding, outside>>

LoopExit(c) ==
  /\ Alive /\ c \in looping \cap cancelled
  /\ looping' = looping \ {c}
  /\ UNCHANGED <<registry, session, req, stream, sockets, contexts, ready, answering,
                 forwarding, outside, fatal>>

\* One of processAudio's emits meets the closed events channel.
TurnEmitPanic(c) ==
  /\ Alive /\ c \in answering
  /\ ~EventsOpen(stream[c].session)
  /\ fatal' = "emit"
  /\ UNCHANGED <<registry, session, req, streams, outside>>

\* A chunk of the answer meets the audioOut its connection has closed.
TurnSendPanic(c) ==
  /\ Alive /\ c \in answering
  /\ c \in done
  /\ fatal' = "send"
  /\ UNCHANGED <<registry, session, req, streams, outside>>

TurnEnd(c) ==
  /\ Alive /\ c \in answering
  /\ answering' = answering \ {c}
  /\ UNCHANGED <<registry, session, req, stream, sockets, contexts, ready, looping,
                 forwarding, outside, fatal>>

----------------------------------------------------------------------------
(* The forwarders of a realtime pipeline.  What they carry changes nothing *)
(* here; they matter by when they return and by what they emit.            *)

\* ctx.Done, s.done or, for the caller's audio, the closed audioIn.
ToldToReturn(c, f) ==
  \/ c \in cancelled
  \/ session[stream[c].session].phase # "open"
  \/ f = "in" /\ c \in done

\* A forwarder returns; those that read from the bridge may find its channel
\* closed at any time.
ForwarderReturn(c, f) ==
  /\ Alive /\ <<c, f>> \in forwarding
  /\ f \in {"events", "out"} \/ ToldToReturn(c, f)
  /\ forwarding' = forwarding \ {<<c, f>>}
  /\ UNCHANGED <<registry, session, req, stream, sockets, contexts, ready, looping,
                 answering, outside, fatal>>

\* select may take a bridge event although s.done is closed.
ForwarderEmitPanic(c) ==
  /\ Alive /\ <<c, "events">> \in forwarding
  /\ ~EventsOpen(stream[c].session)
  /\ fatal' = "emit"
  /\ UNCHANGED <<registry, session, req, streams, outside>>

----------------------------------------------------------------------------
WebhookStep(w)  == InboundCreate(w) \/ InboundAccept(w) \/ InboundReject(w)
CallbackStep(b) == StatusLookup(b) \/ StatusEmit(b) \/ CloseReturn(b)
TypedStep(a)    == TypedEnd(a) \/ TypedPanic(a)
AppStep(a)      == \/ AppInterrupt(a) \/ AppSendText(a) \/ TypedStep(a)
                   \/ AppClose(a) \/ CloseReturn(a)
StopStep(g)     == StopSweep(g) \/ StopReset(g) \/ StopShutdown(g) \/ CloseReturn(g)
CloseStep(s)    == \/ CloseBegin(s) \/ CloseStop(s) \/ CloseHangUp(s)
                   \/ CloseRemove(s) \/ CloseEvents(s)
ReaderStep(c)   == StartLookup(c) \/ StartCreate(c) \/ DTMFEmit(c) \/ MediaSend(c)
HandlerStep(c)  == \/ HandlerGiveUp(c) \/ HandlerAttach(c) \/ HandlerBuild(c)
                   \/ HandlerInstall(c) \/ HandlerAnnounce(c) \/ PipelineStart(c)
                   \/ GreetingEnd(c) \/ PipelineReturn(c) \/ HandlerDrain(c)
                   \/ ProviderInstall(c) \/ BridgeStart(c) \/ RealtimeAnnounce(c)
                   \/ RealtimeReturn(c)
TurnStep(c)     == TurnEmitPanic(c) \/ TurnSendPanic(c) \/ TurnEnd(c)
ForwardStep(c)  == ForwarderEmitPanic(c) \/ \E f \in Forwarders : ForwarderReturn(c, f)
StreamStep(c)   == \/ StreamOpen(c) \/ ReadMessage(c) \/ ReadEnd(c) \/ ReaderStep(c)
                   \/ HandlerStep(c) \/ SessionTimeout(c)
                   \/ TurnBegin(c) \/ LoopExit(c) \/ TurnStep(c) \/ ForwardStep(c)

Next ==
  \/ \E w \in Webhooks : InboundArrive(w) \/ WebhookStep(w)
  \/ \E b \in Callbacks : StatusReport(b) \/ CallbackStep(b)
  \/ \E m \in Callers : MakeCallPlace(m) \/ MakeCallReturn(m)
  \/ \E a \in Apps : AppGetSession(a) \/ AppStep(a)
  \/ \E g \in Stoppers : StopLock(g) \/ StopStep(g)
  \/ \E s \in SessionIds : CloseStep(s)
  \/ \E c \in Streams : StreamStep(c)

Spec == Init /\ [][Next]_vars

\* The Go scheduler runs every goroutine that can move, timers fire, and the
\* provider calls of the pipeline, made with its context, return; those of a
\* typed turn are made with context.Background() (session.go:130) and need not.
\* Nothing obliges Twilio or the application to act, but a read from a closed
\* socket fails.
Fairness ==
  /\ \A w \in Webhooks : WF_vars(WebhookStep(w))
  /\ \A b \in Callbacks : WF_vars(CallbackStep(b))
  /\ \A m \in Callers : WF_vars(MakeCallReturn(m))
  /\ \A a \in Apps : WF_vars(CloseReturn(a))
  /\ \A g \in Stoppers : WF_vars(StopStep(g))
  /\ \A s \in SessionIds : WF_vars(CloseStep(s))
  /\ \A c \in Streams :
       /\ WF_vars(ReaderStep(c))
       /\ WF_vars(c \notin up /\ ReadEnd(c))
       /\ WF_vars(HandlerStep(c))
       /\ WF_vars(SessionTimeout(c))
       /\ WF_vars(LoopExit(c))
       /\ WF_vars(TurnStep(c))
       /\ \A f \in Forwarders : WF_vars(ForwarderReturn(c, f) /\ ToldToReturn(c, f))

FairSpec == Spec /\ Fairness

----------------------------------------------------------------------------
(* Properties                                                              *)

\* GetSession, the status callback and the start message never obtain from
\* the registry a session whose events channel is closed: Close removes the
\* entry (session.go:182) before it closes the channel (session.go:185), and
\* an entry is only ever written with a fresh object.
ClosedSessionUnlisted ==
  \A x \in CallSIDs : sessions[x] # None => session[sessions[x]].phase # "closed"

\* The inductive strengthening: an entry holds a session created under that
\* SID whose Close has not yet reached removeSession, ...
ListedUnderOwnSID ==
  \A x \in CallSIDs : sessions[x] # None =>
    /\ session[sessions[x]].sid = x
    /\ session[sessions[x]].phase \in Unremoved

\* ... and a goroutine that is to use a SID has one.
SIDInHand ==
  /\ \A r \in Requests :
       req[r].pc \in {"arrived", "created", "placed", "reported"}
         => req[r].sid \in CallSIDs
  /\ \A c \in Streams : stream[c].reader # "idle" => stream[c].sid \in CallSIDs

RegistryInv == TypeOK /\ ListedUnderOwnSID /\ SIDInHand

\* "GetSession retrieves an active session by call SID" (gateway.go:272): a
\* session that carries a media stream and has not begun to close is found
\* under its SID.
ActiveSessionListed ==
  \A c \in Streams :
    /\ stream[c].handler \notin {"idle", "waiting", "over"}
    /\ session[stream[c].session].phase = "open"
    => sessions[stream[c].sid] = stream[c].session

\* A call that exactly one webhook has announced.  A call made by MakeCall is
\* announced by none.
AnnouncedOnce(x) ==
  \E w \in Webhooks : \A v \in Webhooks : req[v].sid = x <=> v = w

\* The same line, where it holds: a stream may find its call's session closed
\* and start another (connection.go:129), and still the session in use is the
\* one the registry has, as long as Twilio announces the call once.
InboundSessionListed ==
  \A c \in Streams :
    /\ AnnouncedOnce(stream[c].sid)
    /\ stream[c].handler \notin {"idle", "waiting", "over"}
    /\ session[stream[c].session].phase = "open"
    => sessions[stream[c].sid] = stream[c].session

\* A session of such a call loses its entry only to its own Close or to the
\* rejection of the call, never to another session of the same SID, created
\* (gateway.go:318) or removed (gateway.go:327).
EvictedOnlyByOwnClose ==
  [][\A x \in CallSIDs :
       AnnouncedOnce(x) /\ sessions[x] # None /\ sessions'[x] # sessions[x] =>
         \/ session[sessions[x]].phase = "hungup"
            /\ session'[sessions[x]].phase = "removed"
         \/ \E w \in Webhooks :
              req[w].sid = x /\ req[w].pc = "created" /\ req'[w].pc = "rejected"]_vars

\* For every call: a session that is not in the registry and has not been
\* removed by its own Close has been displaced by another one of the same SID,
\* or its call has been rejected.
Displaced(s) ==
  \/ \E z \in SessionIds \ {s} : session[z].sid = session[s].sid
  \/ \E w \in Webhooks : req[w].sid = session[s].sid /\ req[w].pc = "rejected"

UnlistedIsDisplaced ==
  \A s \in SessionIds :
    session[s].phase \in Unremoved /\ sessions[session[s].sid] # s => Displaced(s)

\* While Stop ranges over g.sessions nobody else writes the map (in Go, a
\* fatal concurrent iteration and write): every writer takes g.mu.
SweepIsExclusive ==
  [][mu # None /\ mu' = mu => UNCHANGED sessions]_vars

\* What may kill the process before any Close of its own has hung up: neither
\* the end of a stream nor a failing socket makes the read loop send audio on a
\* closed channel (connection.go:163) or anybody an event (session.go:371).  It
\* takes a text turn that is sending (pipeline.go:503) or that was typed before
\* Pipeline.Start (session.go:224); a realtime gateway has neither.
HungUp == {"hungup", "removed", "closed"}

RemoteEndIsSafe ==
  (\A s \in SessionIds : session[s].phase \notin HungUp) =>
    fatal \in IF mode = "realtime" THEN {"none"} ELSE {"none", "send", "context"}

\* The status callback that looks its session up is answered, or its panic is
\* recovered, whatever other callbacks and the application's Close do.
CallbackAnswered ==
  \A b \in Callbacks :
    req[b].pc = "reported" ~> req[b].pc \in {"answered", "panicked"} \/ ~Alive

\* No pipeline, text or realtime, outlives its closed session for ever: one that
\* Close missed (installed after session.go:164 looked) is ended by
\* MaxSessionDuration, and so are its loops, its turn and its forwarders.
ClosedSessionQuiesces ==
  \A c \in Streams :
    stream[c].handler \notin {"idle", "waiting", "over"}
    /\ session[stream[c].session].phase = "closed"
      ~> \/ /\ stream[c].handler \in Left
            /\ c \notin looping \cup answering
            /\ \A f \in Forwarders : <<c, f>> \notin forwarding
         \/ ~Alive

\* "Close ends the session", "Stop text pipeline" (session.go:154, 163): a
\* pipeline that still runs when Close has finished has been told to stop.
CloseStopsPipeline ==
  \A c \in Streams :
    /\ stream[c].handler = "running"
    /\ session[stream[c].session].phase = "closed"
    => c \in stopped

\* "Stop gracefully shuts down the gateway." (gateway.go:239): a Stop that
\* has begun returns.
StopReturns ==
  \A g \in Stoppers :
    req[g].pc = "sweeping" ~> req[g].pc = "answered" \/ ~Alive

\* "Block until we can send - don't drop audio" (pipeline.go:501): the send of
\* an answer's chunk blocks or succeeds; it never finds audioOut closed.
SendFindsOpenChannel == fatal # "send"

\* "emitEvent sends an event to the events channel." (session.go:362): no
\* goroutine finds that channel closed.
EmitFindsOpenChannel == fatal # "emit"

\* "Signaled when pipeline starts reading" (connection.go:22): when a goroutine
\* reads the caller's audio, the read loop has been told to pass it on.
ReadingMeansReady == \A c \in Streams : <<c, "in">> \in forwarding => c \in ready

\* "Stop realtime bridge and provider" (session.go:168): a provider that a closed
\* session holds has been closed.
CloseReleasesProvider ==
  \A s \in SessionIds :
    session[s].phase = "closed" /\ session[s].provider # None
      => session[s].provider \in released

\* "Send to audio input channel" (connection.go:161): the read loop never finds
\* that channel closed.
MediaFindsOpenChannel == fatal # "media"

\* "Start begins processing the voice pipeline." (pipeline.go:93): no turn runs
\* on a pipeline that Start has yet to give its context.
TurnsHaveContext == fatal # "context"

=============================================================================
