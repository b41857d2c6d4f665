------------------------- MODULE CallRegistryProofs -------------------------
(***************************************************************************)
(* Which session the registry has for a call: theorems of CallLifecycle    *)
(* for any number of calls, sessions and goroutines.  A call that Twilio   *)
(* announces once keeps its session listed until that session closes or    *)
(* the call is rejected; any other session that goes missing has been      *)
(* displaced by one of the same SID.  Then what follows for Stop, for the  *)
(* caller's audio in realtime mode, and for what kills the process.        *)
(***************************************************************************)
EXTENDS CallLifecycleProofs

----------------------------------------------------------------------------
(* The steps, by what they do to the registry.                             *)

\* What the goroutines of stream c do besides its start message: the read loop
\* passes messages on, the handler goroutine advances.
QuietStream(c) ==
  /\ stream'[c].sid = stream[c].sid
  /\ stream'[c].session = stream[c].session
  /\ stream'[c].reader # stream[c].reader =>
       /\ stream[c].reader # "idle" /\ stream'[c].reader # "creating"
       /\ stream'[c].reader = "start" => stream[c].session = None
  /\ stream'[c].handler # stream[c].handler =>
       /\ stream[c].handler \notin {"idle", "over"} /\ stream'[c].handler # "idle"
       /\ stream[c].handler = "waiting"
            => stream'[c].handler = "over" \/ stream[c].session # None

\* A step that neither creates a session nor drops an entry, and moves no webhook.
Quiet ==
  /\ UNCHANGED <<sessions, ringing, connectable>>
  /\ \A s \in SessionIds :
       session'[s].sid = session[s].sid /\ session'[s].phase = session[s].phase
  /\ \A w \in Webhooks : req'[w].pc = req[w].pc /\ req'[w].sid = req[w].sid
  /\ \A m \in Callers : req'[m].sid = req[m].sid
  /\ \A c \in Streams : stream'[c] = stream[c] \/ QuietStream(c)

\* A request that is neither a webhook nor a call being made is quiet.
LEMMA QuietRequests ==
  ASSUME TypeOK,
         \/ \E b \in Callbacks : StatusReport(b) \/ CallbackStep(b)
         \/ \E a \in Apps : AppGetSession(a) \/ AppStep(a)
         \/ \E g \in Stoppers : StopLock(g) \/ StopStep(g)
  PROVE  Quiet
<1>1. PICK r \in Callbacks \cup Apps \cup Stoppers :
        \/ StatusReport(r) \/ CallbackStep(r) \/ AppGetSession(r) \/ AppStep(r)
        \/ StopLock(r) \/ StopStep(r)
  OBVIOUS
<1>2. r \in Requests /\ r \notin Webhooks /\ r \notin Callers
  BY KindsAssumption DEF Requests
<1>3. req \in [Requests -> RequestState]
      /\ sessions \in [CallSIDs -> SessionIds \cup {None}]
  BY DEF TypeOK
<1>4. \A q \in Requests : q # r => req'[q] = req[q]
  <2>1. CASE StatusReport(r) \/ CallbackStep(r)
    BY <1>3, <2>1 DEF CallbackStep, StatusReport, StatusLookup, StatusEmit, CloseReturn
  <2>2. CASE AppGetSession(r) \/ AppStep(r)
    BY <1>3, <2>2
       DEF AppStep, CloseReturn, AppGetSession, AppInterrupt, AppSendText, TypedStep,
           TypedEnd, TypedPanic, AppClose
  <2>3. CASE StopLock(r) \/ StopStep(r)
    BY <1>3, <2>3 DEF StopStep, CloseReturn, StopLock, StopSweep, StopReset, StopShutdown
  <2> QED  BY <1>1, <2>1, <2>2, <2>3
<1>5. session' = session /\ stream' = stream /\ ringing' = ringing
      /\ connectable' = connectable
  BY <1>1
     DEF CallbackStep, AppStep, StopStep, StatusReport, StatusLookup, StatusEmit,
         CloseReturn, AppGetSession, AppInterrupt, AppSendText, TypedStep, TypedEnd,
         TypedPanic, AppClose, StopLock, StopSweep, StopReset, StopShutdown, streams,
         outside
<1>6. sessions' = sessions
  <2>1. CASE StopReset(r)
    <3>1. sessions' = [x \in CallSIDs |-> None] /\ \A x \in CallSIDs : sessions[x] = None
      BY <2>1 DEF StopReset
    <3> QED  BY <1>3, <3>1
  <2>2. CASE ~StopReset(r)
    BY <1>1, <2>2
       DEF CallbackStep, AppStep, StopStep, StatusReport, StatusLookup, StatusEmit,
           CloseReturn, AppGetSession, AppInterrupt, AppSendText, TypedStep, TypedEnd,
           TypedPanic, AppClose, StopLock, StopSweep, StopShutdown, registry
  <2> QED  BY <2>1, <2>2
<1>7. \A w \in Webhooks \cup Callers : req'[w] = req[w]
  BY <1>2, <1>4 DEF Requests
<1> QED  BY <1>5, <1>6, <1>7 DEF Quiet

\* A stream is quiet except when it opens and when it finds or makes its session.
LEMMA QuietStreams ==
  ASSUME TypeOK, NEW c \in Streams, StreamStep(c),
         ~StreamOpen(c), ~StartLookup(c), ~StartCreate(c)
  PROVE  Quiet
<1>1. stream \in [Streams -> StreamState] /\ session \in [SessionIds -> SessionState]
  BY DEF TypeOK
<1>2. req' = req /\ ringing' = ringing /\ connectable' = connectable
  BY StreamFrame DEF outside
<1>3. /\ sessions' = sessions
      /\ \/ session' = session
         \/ session' = [session EXCEPT ![stream[c].session].conn = c]
         \/ session' = [session EXCEPT ![stream[c].session].pipeline = c]
         \/ session' = [session EXCEPT ![stream[c].session].provider = c]
  BY DEF StreamStep, ReadMessage, Messages, ReadEnd, ReaderStep, DTMFEmit, MediaSend, HandlerStep,
         HandlerGiveUp, HandlerAttach, HandlerBuild, HandlerInstall, HandlerAnnounce,
         PipelineStart, GreetingEnd, PipelineReturn, HandlerDrain, ProviderInstall,
         BridgeStart, RealtimeAnnounce, RealtimeReturn, HandlerGoto, EmitThen,
         SessionTimeout, TurnBegin, LoopExit, TurnStep, TurnEmitPanic, TurnSendPanic,
         TurnEnd, ForwardStep, ForwarderReturn, ForwarderEmitPanic, registry
<1>4. \A s \in SessionIds :
        session'[s].sid = session[s].sid /\ session'[s].phase = session[s].phase
  BY <1>1, <1>3 DEF SessionState
<1>5. \A d \in Streams : stream'[d] = stream[d] \/ QuietStream(d)
  <2>1. CASE HandlerStep(c)
    <3>1. \/ HandlerGiveUp(c)
          \/ \E from \in HandlerLabels \ {"idle", "over"}, to \in HandlerLabels \ {"idle"} :
               HandlerGoto(c, from, to) /\ (from = "waiting" => stream[c].session # None)
      BY <2>1
         DEF HandlerStep, HandlerAttach, HandlerBuild, HandlerInstall, HandlerAnnounce,
             PipelineStart, GreetingEnd, PipelineReturn, HandlerDrain, ProviderInstall,
             BridgeStart, RealtimeAnnounce, RealtimeReturn, EmitThen, HandlerLabels
    <3>2. CASE HandlerGiveUp(c)
      BY <1>1, <3>2 DEF HandlerGiveUp, HandlerAt, QuietStream, StreamState
    <3>3. CASE \E from \in HandlerLabels \ {"idle", "over"}, to \in HandlerLabels \ {"idle"} :
                 HandlerGoto(c, from, to) /\ (from = "waiting" => stream[c].session # None)
      BY <1>1, <3>3 DEF HandlerGoto, HandlerAt, QuietStream, StreamState
    <3> QED  BY <3>1, <3>2, <3>3
  <2>2. CASE ReadMessage(c) \/ ReadEnd(c) \/ DTMFEmit(c) \/ MediaSend(c)
    BY <1>1, <2>2
       DEF ReadMessage, Messages, ReadEnd, DTMFEmit, MediaSend, ReaderAt, QuietStream, StreamState
  <2>3. CASE \/ SessionTimeout(c) \/ TurnBegin(c) \/ LoopExit(c) \/ TurnStep(c)
             \/ ForwardStep(c)
    BY <2>3 DEF SessionTimeout, TurnBegin, LoopExit, TurnStep, TurnEmitPanic,
                TurnSendPanic, TurnEnd, ForwardStep, ForwarderReturn,
                ForwarderEmitPanic, streams
  <2> QED  BY <2>1, <2>2, <2>3 DEF StreamStep, ReaderStep
<1> QED  BY <1>2, <1>3, <1>4, <1>5 DEF Quiet

\* Every step is quiet or one of those that matter to the registry.
LEMMA RegistryCases ==
  ASSUME TypeOK, Next
  PROVE  \/ Quiet
         \/ \E w \in Webhooks : \/ InboundArrive(w) \/ InboundCreate(w)
                                \/ InboundAccept(w) \/ InboundReject(w)
         \/ \E m \in Callers : MakeCallPlace(m) \/ MakeCallReturn(m)
         \/ \E s \in SessionIds : CloseStep(s)
         \/ \E c \in Streams : StreamOpen(c) \/ StartLookup(c) \/ StartCreate(c)
BY QuietRequests, QuietStreams DEF Next, WebhookStep

----------------------------------------------------------------------------
(* The effect of each of those steps.                                      *)

\* createSession fills a fresh object and takes the SID's entry.
LEMMA CreateEffect ==
  ASSUME TypeOK, NEW s \in SessionIds, NEW x \in CallSIDs, CreateSession(s, x)
  PROVE  /\ session[s].phase = "unborn"
         /\ session'[s].sid = x /\ session'[s].phase = "open"
         /\ \A z \in SessionIds \ {s} : session'[z] = session[z]
         /\ sessions'[x] = s
         /\ \A y \in CallSIDs \ {x} : sessions'[y] = sessions[y]
BY DEF CreateSession, TypeOK, SessionState

\* Twilio announces a call.
LEMMA ArriveEffect ==
  ASSUME TypeOK, NEW w \in Webhooks, InboundArrive(w)
  PROVE  /\ \E x \in (CallSIDs \ connectable) \cup ringing :
              req'[w].sid = x /\ ringing' = ringing \cup {x}
         /\ req[w].pc = "idle" /\ req'[w].pc = "arrived"
         /\ \A q \in Requests \ {w} : req'[q] = req[q]
         /\ UNCHANGED <<sessions, session, stream, connectable>>
<1> w \in Requests
  BY DEF Requests
<1> QED  BY DEF InboundArrive, At, TypeOK, RequestState, registry, streams

\* A webhook in progress moves on with the SID it has.
LEMMA WebhookEffect ==
  ASSUME TypeOK, SIDInHand, NEW w \in Webhooks,
         InboundCreate(w) \/ InboundAccept(w) \/ InboundReject(w)
  PROVE  /\ req[w].sid \in CallSIDs /\ req'[w].sid = req[w].sid
         /\ \A q \in Requests \ {w} : req'[q] = req[q]
         /\ UNCHANGED <<stream, ringing>>
<1> w \in Requests
  BY DEF Requests
<1> QED
  BY DEF InboundCreate, InboundAccept, InboundReject, At, SIDInHand, TypeOK,
         RequestState, streams, outside

\* What each of its three steps writes.
LEMMA AnswerEffect ==
  ASSUME TypeOK, SIDInHand, NEW w \in Webhooks
  PROVE  /\ InboundCreate(w) =>
              /\ req[w].pc = "arrived" /\ req'[w].pc = "created"
              /\ \E s \in SessionIds : CreateSession(s, req[w].sid)
              /\ connectable' = connectable
         /\ InboundAccept(w) =>
              /\ req[w].pc = "created" /\ req'[w].pc = "answered"
              /\ connectable' = connectable \cup {req[w].sid}
              /\ UNCHANGED <<sessions, session>>
         /\ InboundReject(w) =>
              /\ req[w].pc = "created" /\ req'[w].pc = "rejected"
              /\ sessions' = [sessions EXCEPT ![req[w].sid] = None]
              /\ UNCHANGED <<session, connectable>>
<1> w \in Requests
  BY DEF Requests
<1> QED
  BY DEF InboundCreate, InboundAccept, InboundReject, RemoveSession, At, TypeOK,
         RequestState, registry, outside

\* MakeCall: the call is placed, and its session created.
LEMMA CallerEffect ==
  ASSUME TypeOK, SIDInHand, NEW m \in Callers, MakeCallPlace(m) \/ MakeCallReturn(m)
  PROVE  /\ \A q \in Requests \ {m} : req'[q] = req[q]
         /\ UNCHANGED <<stream, ringing>>
         /\ MakeCallPlace(m) =>
              /\ \E x \in CallSIDs \ (ringing \cup connectable) :
                   req'[m].sid = x /\ connectable' = connectable \cup {x}
              /\ UNCHANGED <<sessions, session>>
         /\ MakeCallReturn(m) =>
              /\ req[m].sid \in CallSIDs /\ req'[m].sid = req[m].sid
              /\ \E s \in SessionIds : CreateSession(s, req[m].sid)
              /\ connectable' = connectable
<1> m \in Requests
  BY DEF Requests
<1> QED
  BY DEF MakeCallPlace, MakeCallReturn, At, SIDInHand, TypeOK, RequestState, registry,
         streams, outside

\* A step of Close moves one session's phase on, and removes an entry with the
\* last of the unremoved phases.
LEMMA CloseEffect ==
  ASSUME TypeOK, NEW s \in SessionIds, CloseStep(s)
  PROVE  /\ UNCHANGED <<req, stream, ringing, connectable>>
         /\ \A z \in SessionIds : session'[z].sid = session[z].sid
         /\ \A z \in SessionIds \ {s} : session'[z].phase = session[z].phase
         /\ session[s].phase # "unborn" /\ session'[s].phase # "unborn"
         /\ session'[s].phase \in Unremoved =>
              session[s].phase \in Unremoved /\ sessions' = sessions
         /\ \/ sessions' = sessions
            \/ /\ session[s].phase = "hungup" /\ session'[s].phase = "removed"
               /\ sessions' = [sessions EXCEPT ![session[s].sid] = None]
<1>1. session \in [SessionIds -> SessionState]
  BY DEF TypeOK
<1>2. UNCHANGED <<req, stream, ringing, connectable>>
  BY CloseFrame DEF outside
<1>3. CASE CloseRemove(s)
  BY <1>1, <1>2, <1>3 DEF CloseRemove, ClosePhase, RemoveSession, SessionState, Unremoved
<1>4. CASE CloseBegin(s) \/ CloseStop(s) \/ CloseHangUp(s) \/ CloseEvents(s)
  BY <1>1, <1>2, <1>4
     DEF CloseBegin, CloseStop, CloseHangUp, CloseEvents, ClosePhase, SessionState,
         Unremoved, registry
<1> QED  BY <1>3, <1>4 DEF CloseStep

\* A stream leaves requests and Twilio's calls alone, and every other stream.
LEMMA StartFrame ==
  ASSUME TypeOK, NEW c \in Streams, StreamOpen(c) \/ StartLookup(c) \/ StartCreate(c)
  PROVE  /\ UNCHANGED <<req, ringing, connectable>>
         /\ \A d \in Streams \ {c} : stream'[d] = stream[d]
<1>1. stream \in [Streams -> StreamState]
  BY DEF TypeOK
<1>2. UNCHANGED <<req, ringing, connectable>>
  BY StreamFrame DEF StreamStep, ReaderStep, outside
<1> QED  BY <1>1, <1>2 DEF StreamOpen, StartLookup, StartCreate

\* A stream opens for a call that has none.
LEMMA OpenEffect ==
  ASSUME TypeOK, NEW c \in Streams, StreamOpen(c)
  PROVE  /\ stream[c].handler = "idle" /\ stream'[c].handler = "waiting"
         /\ stream'[c].reader = "reading" /\ stream'[c].session = stream[c].session
         /\ stream'[c].sid \in connectable
         /\ \A d \in Streams : stream[d].sid # stream'[c].sid
         /\ UNCHANGED <<sessions, session>>
BY DEF StreamOpen, HandlerAt, TypeOK, StreamState, registry

\* The start message takes the session the registry has.
LEMMA LookupEffect ==
  ASSUME TypeOK, SIDInHand, NEW c \in Streams, StartLookup(c)
  PROVE  /\ stream[c].sid \in CallSIDs /\ stream[c].reader = "start"
         /\ stream'[c].sid = stream[c].sid
         /\ stream'[c].handler = stream[c].handler
         /\ stream'[c].session = sessions[stream[c].sid]
         /\ stream'[c].reader = IF stream'[c].session = None THEN "creating" ELSE "reading"
         /\ UNCHANGED <<sessions, session>>
<1>1. stream \in [Streams -> StreamState]
  BY DEF TypeOK
<1>2. stream[c].reader = "start" /\ stream[c].sid \in CallSIDs
  BY DEF StartLookup, ReaderAt, SIDInHand
<1>3. PICK found : found = sessions[stream[c].sid]
  OBVIOUS
<1>4. stream' = [stream EXCEPT ![c].session = found,
                               ![c].reader = IF found = None THEN "creating" ELSE "reading"]
  BY <1>3 DEF StartLookup
<1> QED  BY <1>1, <1>2, <1>3, <1>4 DEF StartLookup, StreamState, registry

\* ... or makes one.
LEMMA StartCreateEffect ==
  ASSUME TypeOK, SIDInHand, NEW c \in Streams, StartCreate(c)
  PROVE  /\ stream[c].sid \in CallSIDs /\ stream[c].reader = "creating"
         /\ stream'[c].sid = stream[c].sid
         /\ stream'[c].handler = stream[c].handler
         /\ stream'[c].reader = "reading"
         /\ stream'[c].session \in SessionIds
         /\ CreateSession(stream'[c].session, stream[c].sid)
<1>1. stream \in [Streams -> StreamState]
  BY DEF TypeOK
<1>2. stream[c].reader = "creating" /\ stream[c].sid \in CallSIDs
  BY DEF StartCreate, ReaderAt, SIDInHand
<1>3. PICK s \in SessionIds :
        /\ CreateSession(s, stream[c].sid)
        /\ stream' = [stream EXCEPT ![c].session = s, ![c].reader = "reading"]
  BY DEF StartCreate
<1>4. stream'[c].session = s /\ stream'[c].reader = "reading"
      /\ stream'[c].sid = stream[c].sid /\ stream'[c].handler = stream[c].handler
  BY <1>1, <1>3 DEF StreamState
<1> QED  BY <1>2, <1>3, <1>4

----------------------------------------------------------------------------
(* Where SIDs come from, and which session a stream uses.                  *)

\* The SIDs of webhooks are those of inbound calls, which MakeCall's are not;
\* a session's SID was announced or placed; a stream's call is connectable.
SIDOrigins ==
  /\ \A w \in Webhooks : /\ req[w].pc = "idle" => req[w].sid = None
                         /\ req[w].sid # None => req[w].sid \in ringing
  /\ \A x \in ringing : \E w \in Webhooks : req[w].sid = x
  /\ \A m \in Callers : req[m].sid # None => req[m].sid \in connectable \ ringing
  /\ \A s \in SessionIds :
       /\ session[s].phase = "unborn" <=> session[s].sid = None
       /\ session[s].sid # None => session[s].sid \in ringing \cup connectable
  /\ \A c \in Streams : stream[c].sid # None => stream[c].sid \in connectable

\* createSession for a SID somebody had in hand keeps the origins.
LEMMA CreateOrigins ==
  ASSUME TypeOK, SIDOrigins, NEW s \in SessionIds, NEW x \in ringing \cup connectable,
         CreateSession(s, x), ringing' = ringing, connectable' = connectable
  PROVE  \A z \in SessionIds :
           /\ session'[z].phase = "unborn" <=> session'[z].sid = None
           /\ session'[z].sid # None => session'[z].sid \in ringing \cup connectable
<1>1. x \in CallSIDs /\ x # None
  BY NoneAssumption DEF TypeOK
<1> QED  BY <1>1, CreateEffect DEF SIDOrigins

\* Every step keeps the origins.
LEMMA OriginsStep ==
  ASSUME TypeOK, SIDInHand, SIDOrigins, Next
  PROVE  SIDOrigins'
<1>0. /\ Webhooks \subseteq Requests /\ Callers \subseteq Requests
      /\ Webhooks \cap Callers = {}
  BY KindsAssumption DEF Requests
<1>1. \A x \in ringing \cup connectable : x \in CallSIDs /\ x # None
  BY NoneAssumption DEF TypeOK
<1>2. CASE Quiet
  BY <1>2 DEF Quiet, QuietStream, SIDOrigins
<1>3. ASSUME NEW w \in Webhooks, InboundArrive(w) PROVE SIDOrigins'
  <2> PICK x \in (CallSIDs \ connectable) \cup ringing :
        req'[w].sid = x /\ ringing' = ringing \cup {x}
    BY <1>3, ArriveEffect
  <2>1. \A v \in Webhooks \ {w} : req'[v] = req[v]
    BY <1>0, <1>3, ArriveEffect
  <2>2. \A m \in Callers : req'[m] = req[m]
    BY <1>0, <1>3, ArriveEffect
  <2>3. req[w].sid = None /\ req'[w].pc = "arrived"
        /\ UNCHANGED <<session, stream, connectable>>
    BY <1>3, ArriveEffect DEF SIDOrigins
  <2>4. \A y \in ringing' : \E v \in Webhooks : req'[v].sid = y
    BY <1>1, <2>1, <2>3 DEF SIDOrigins
  <2>5. \A m \in Callers : req'[m].sid # None => req'[m].sid \in connectable' \ ringing'
    BY <2>2, <2>3 DEF SIDOrigins
  <2> QED  BY <2>1, <2>3, <2>4, <2>5 DEF SIDOrigins
<1>4. ASSUME NEW w \in Webhooks,
             InboundCreate(w) \/ InboundAccept(w) \/ InboundReject(w)
      PROVE  SIDOrigins'
  <2>1. /\ \A r \in Webhooks \cup Callers : req'[r].sid = req[r].sid
        /\ \A v \in Webhooks : req'[v].pc = "idle" => req[v].pc = "idle"
        /\ UNCHANGED <<stream, ringing>>
    BY <1>0, <1>4, WebhookEffect, AnswerEffect
  <2>2. req[w].sid \in CallSIDs /\ req[w].sid \in ringing
    BY <1>4, WebhookEffect, NoneAssumption DEF SIDOrigins
  <2>3. connectable \subseteq connectable'
    BY <1>4, AnswerEffect
  <2>4. \A z \in SessionIds :
          /\ session'[z].phase = "unborn" <=> session'[z].sid = None
          /\ session'[z].sid # None => session'[z].sid \in ringing' \cup connectable'
    <3>1. CASE InboundCreate(w)
      BY <2>1, <2>2, <3>1, AnswerEffect, CreateOrigins
    <3>2. CASE InboundAccept(w) \/ InboundReject(w)
      BY <2>1, <2>3, <3>2, AnswerEffect DEF SIDOrigins
    <3> QED  BY <1>4, <3>1, <3>2
  <2> QED  BY <2>1, <2>3, <2>4 DEF SIDOrigins
<1>5. ASSUME NEW m \in Callers, MakeCallPlace(m) \/ MakeCallReturn(m)
      PROVE  SIDOrigins'
  <2>1. /\ \A v \in Webhooks : req'[v] = req[v]
        /\ \A n \in Callers \ {m} : req'[n] = req[n]
        /\ UNCHANGED <<stream, ringing>>
    BY <1>0, <1>5, CallerEffect
  <2>2. CASE MakeCallPlace(m)
    <3> PICK x \in CallSIDs \ (ringing \cup connectable) :
          req'[m].sid = x /\ connectable' = connectable \cup {x}
      BY <2>2, CallerEffect
    <3>1. UNCHANGED session
      BY <2>2, CallerEffect
    <3> QED  BY <2>1, <3>1 DEF SIDOrigins
  <2>3. CASE MakeCallReturn(m)
    <3>1. /\ req[m].sid \in CallSIDs /\ req'[m].sid = req[m].sid
          /\ connectable' = connectable
      BY <2>3, CallerEffect
    <3>2. req[m].sid \in connectable
      BY <3>1, NoneAssumption DEF SIDOrigins
    <3>3. \A z \in SessionIds :
            /\ session'[z].phase = "unborn" <=> session'[z].sid = None
            /\ session'[z].sid # None => session'[z].sid \in ringing \cup connectable
      BY <2>1, <2>3, <3>1, <3>2, CallerEffect, CreateOrigins
    <3> QED  BY <2>1, <3>1, <3>3 DEF SIDOrigins
  <2> QED  BY <1>5, <2>2, <2>3
<1>6. ASSUME NEW s \in SessionIds, CloseStep(s) PROVE SIDOrigins'
  BY <1>6, CloseEffect DEF SIDOrigins
<1>7. ASSUME NEW c \in Streams, StreamOpen(c) \/ StartLookup(c) \/ StartCreate(c)
      PROVE  SIDOrigins'
  <2>1. /\ UNCHANGED <<req, ringing, connectable>>
        /\ \A d \in Streams \ {c} : stream'[d] = stream[d]
    BY <1>7, StartFrame
  <2>2. stream'[c].sid # None => stream'[c].sid \in connectable
    BY <1>7, OpenEffect, LookupEffect, StartCreateEffect DEF SIDOrigins
  <2>3. \A z \in SessionIds :
          /\ session'[z].phase = "unborn" <=> session'[z].sid = None
          /\ session'[z].sid # None => session'[z].sid \in ringing \cup connectable
    <3>1. CASE StartCreate(c)
      <4>1. stream[c].sid \in connectable
        BY <3>1, StartCreateEffect, NoneAssumption DEF SIDOrigins
      <4> QED  BY <2>1, <3>1, <4>1, StartCreateEffect, CreateOrigins
    <3>2. CASE StreamOpen(c) \/ StartLookup(c)
      BY <3>2, OpenEffect, LookupEffect DEF SIDOrigins
    <3> QED  BY <1>7, <3>1, <3>2
  <2> QED  BY <2>1, <2>2, <2>3 DEF SIDOrigins
<1> QED  BY <1>2, <1>3, <1>4, <1>5, <1>6, <1>7, RegistryCases

\* A stream has its call to itself, and the session it uses is one of that call;
\* it has none until its start message is handled, and its handler waits for it.
StreamSessions ==
  /\ \A c \in Streams :
       /\ stream[c].handler = "idle" =>
            stream[c].session = None /\ stream[c].reader = "idle" /\ stream[c].sid = None
       /\ stream[c].reader \in {"start", "creating"} => stream[c].session = None
       /\ stream[c].handler \notin {"idle", "waiting", "over"} => stream[c].session # None
       /\ stream[c].session # None =>
            /\ session[stream[c].session].sid = stream[c].sid
            /\ session[stream[c].session].phase # "unborn"
  /\ \A c, d \in Streams :
       stream[c].sid = stream[d].sid /\ stream[c].sid # None => c = d

\* The sessions streams use keep their SID.
LEMMA SessionsKept ==
  ASSUME TypeOK, SIDInHand, Next
  PROVE  \A s \in SessionIds : session[s].phase # "unborn" =>
           session'[s].phase # "unborn" /\ session'[s].sid = session[s].sid
<1>1. ASSUME NEW z \in SessionIds, NEW x \in CallSIDs, CreateSession(z, x)
      PROVE  \A s \in SessionIds : session[s].phase # "unborn" =>
               session'[s].phase # "unborn" /\ session'[s].sid = session[s].sid
  BY <1>1, CreateEffect
<1>2. CASE Quiet
  BY <1>2 DEF Quiet
<1>3. ASSUME NEW w \in Webhooks, \/ InboundArrive(w) \/ InboundCreate(w)
                                 \/ InboundAccept(w) \/ InboundReject(w)
      PROVE  \/ session' = session
             \/ \E z \in SessionIds, x \in CallSIDs : CreateSession(z, x)
  BY <1>3, ArriveEffect, WebhookEffect, AnswerEffect
<1>4. ASSUME NEW m \in Callers, MakeCallPlace(m) \/ MakeCallReturn(m)
      PROVE  \/ session' = session
             \/ \E z \in SessionIds, x \in CallSIDs : CreateSession(z, x)
  BY <1>4, CallerEffect
<1>5. ASSUME NEW s \in SessionIds, CloseStep(s)
      PROVE  \A z \in SessionIds : session[z].phase # "unborn" =>
               session'[z].phase # "unborn" /\ session'[z].sid = session[z].sid
  BY <1>5, CloseEffect
<1>6. ASSUME NEW c \in Streams, StreamOpen(c) \/ StartLookup(c) \/ StartCreate(c)
      PROVE  \/ session' = session
             \/ \E z \in SessionIds, x \in CallSIDs : CreateSession(z, x)
  BY <1>6, OpenEffect, LookupEffect, StartCreateEffect
<1> QED  BY <1>1, <1>2, <1>3, <1>4, <1>5, <1>6, RegistryCases

\* Every step keeps each stream with a session of its call.
LEMMA StreamSessionsStep ==
  ASSUME TypeOK, SIDInHand, ListedUnderOwnSID, StreamSessions, Next
  PROVE  StreamSessions'
<1>1. \A c \in Streams : stream[c].session \in SessionIds \cup {None}
  BY DEF TypeOK, StreamState
<1>2. \A c \in Streams : stream[c].session # None =>
        /\ session'[stream[c].session].sid = stream[c].sid
        /\ session'[stream[c].session].phase # "unborn"
  BY <1>1, SessionsKept DEF StreamSessions
<1>3. ASSUME stream' = stream PROVE StreamSessions'
  BY <1>2, <1>3 DEF StreamSessions
<1>4. CASE Quiet
  <2>1. \A c \in Streams : stream'[c] = stream[c] \/ QuietStream(c)
    BY <1>4 DEF Quiet
  <2>2. \A c \in Streams : stream'[c].sid = stream[c].sid
                           /\ stream'[c].session = stream[c].session
    BY <2>1 DEF QuietStream
  <2>3. ASSUME NEW c \in Streams
        PROVE  /\ stream'[c].handler = "idle" =>
                    /\ stream'[c].session = None
                    /\ stream'[c].reader = "idle" /\ stream'[c].sid = None
               /\ stream'[c].reader \in {"start", "creating"} => stream'[c].session = None
               /\ stream'[c].handler \notin {"idle", "waiting", "over"}
                    => stream'[c].session # None
    BY <2>1, <2>2 DEF QuietStream, StreamSessions
  <2> QED  BY <1>2, <2>2, <2>3 DEF StreamSessions
<1>5. ASSUME NEW w \in Webhooks, \/ InboundArrive(w) \/ InboundCreate(w)
                                 \/ InboundAccept(w) \/ InboundReject(w)
      PROVE  StreamSessions'
  BY <1>3, <1>5, ArriveEffect, WebhookEffect
<1>6. ASSUME NEW m \in Callers, MakeCallPlace(m) \/ MakeCallReturn(m)
      PROVE  StreamSessions'
  BY <1>3, <1>6, CallerEffect
<1>7. ASSUME NEW s \in SessionIds, CloseStep(s) PROVE StreamSessions'
  BY <1>3, <1>7, CloseEffect
<1>8. ASSUME NEW c \in Streams, StreamOpen(c) \/ StartLookup(c) \/ StartCreate(c)
      PROVE  StreamSessions'
  <2>1. \A d \in Streams \ {c} : stream'[d] = stream[d]
    BY <1>8, StartFrame
  <2>2. CASE StreamOpen(c)
    BY <1>2, <2>1, <2>2, OpenEffect DEF StreamSessions
  <2>3. CASE StartLookup(c)
    <3>1. stream'[c].session # None =>
            /\ session'[stream'[c].session].sid = stream[c].sid
            /\ session'[stream'[c].session].phase # "unborn"
      BY <2>3, LookupEffect DEF ListedUnderOwnSID, Unremoved
    <3>2. stream[c].handler # "idle" /\ stream[c].session = None
      BY <2>3, LookupEffect DEF StreamSessions
    <3> QED  BY <1>2, <2>1, <2>3, <3>1, <3>2, LookupEffect DEF StreamSessions
  <2>4. CASE StartCreate(c)
    <3>1. /\ session'[stream'[c].session].sid = stream[c].sid
          /\ session'[stream'[c].session].phase # "unborn"
      BY <2>4, StartCreateEffect, CreateEffect
    <3>2. stream[c].handler # "idle" /\ stream'[c].session # None
      BY <2>4, StartCreateEffect, NoneAssumption DEF StreamSessions
    <3> QED  BY <1>2, <2>1, <2>4, <3>1, <3>2, StartCreateEffect DEF StreamSessions
  <2> QED  BY <1>8, <2>2, <2>3, <2>4
<1> QED  BY <1>4, <1>5, <1>6, <1>7, <1>8, RegistryCases

----------------------------------------------------------------------------
(* The entry of a call that is announced once.                             *)

\* Webhook w has announced call x: no stream before its answer, no session
\* before its own, and from then on every unremoved session of x is the one
\* listed, unless x was rejected; a stream creates one only where none is.
OwnEntry(w, x) ==
  /\ req[w].pc \in {"arrived", "created", "rejected"} => x \notin connectable
  /\ req[w].pc = "arrived" => \A s \in SessionIds : session[s].sid # x
  /\ req[w].pc = "rejected" => sessions[x] = None
  /\ \A s \in SessionIds :
       session[s].sid = x /\ session[s].phase \in Unremoved =>
         sessions[x] = s \/ req[w].pc = "rejected"
  /\ \A c \in Streams :
       stream[c].sid = x /\ stream[c].reader = "creating" => sessions[x] = None

AnnouncedInv ==
  \A w \in Webhooks, x \in CallSIDs :
    AnnouncedOnce(x) /\ req[w].sid = x => OwnEntry(w, x)

\* A step that has to do with other calls.
LEMMA OwnEntrySame ==
  ASSUME NEW w \in Webhooks, NEW x \in CallSIDs, OwnEntry(w, x),
         req'[w].pc = req[w].pc, sessions'[x] = sessions[x],
         x \in connectable' => x \in connectable,
         \A s \in SessionIds : session'[s].sid = x =>
           /\ session[s].sid = x
           /\ session'[s].phase \in Unremoved => session[s].phase \in Unremoved,
         \A c \in Streams : stream'[c].sid = x /\ stream'[c].reader = "creating" =>
           stream[c].sid = x /\ stream[c].reader = "creating"
  PROVE  OwnEntry(w, x)'
BY DEF OwnEntry

\* A session created for another call.
LEMMA OwnEntryCreate ==
  ASSUME TypeOK, NEW w \in Webhooks, NEW x \in CallSIDs, OwnEntry(w, x),
         NEW s \in SessionIds, NEW y \in CallSIDs, y # x, CreateSession(s, y),
         req'[w].pc = req[w].pc, connectable' = connectable,
         \A c \in Streams : stream'[c].sid = x /\ stream'[c].reader = "creating" =>
           stream[c].sid = x /\ stream[c].reader = "creating"
  PROVE  OwnEntry(w, x)'
<1>1. sessions'[x] = sessions[x]
  BY CreateEffect
<1>2. \A z \in SessionIds : session'[z].sid = x =>
        session[z].sid = x /\ session'[z].phase = session[z].phase
  BY CreateEffect
<1> QED  BY <1>1, <1>2, OwnEntrySame

\* Only Twilio's next announcement changes who has announced a call.
LEMMA AnnouncedStays ==
  ASSUME NEW x \in CallSIDs, \A v \in Webhooks : req'[v].sid = req[v].sid
  PROVE  AnnouncedOnce(x)' <=> AnnouncedOnce(x)
BY DEF AnnouncedOnce

\* One webhook at most has announced such a call.
LEMMA OneAnnouncer ==
  ASSUME NEW x, AnnouncedOnce(x), NEW v \in Webhooks, NEW w \in Webhooks,
         req[v].sid = x, req[w].sid = x
  PROVE  v = w
BY DEF AnnouncedOnce

\* Twilio announces a call: a new one, or again one it had announced.
LEMMA AnnouncedArrive ==
  ASSUME TypeOK, SIDOrigins, AnnouncedInv, NEW v \in Webhooks, InboundArrive(v)
  PROVE  AnnouncedInv'
<1> SUFFICES ASSUME NEW w \in Webhooks, NEW x \in CallSIDs,
                    AnnouncedOnce(x)', req'[w].sid = x
             PROVE  OwnEntry(w, x)'
  BY DEF AnnouncedInv
<1>0. x # None /\ Webhooks \subseteq Requests
  BY NoneAssumption DEF Requests
<1>1. req[v].sid = None /\ \A u \in Webhooks \ {v} : req'[u] = req[u]
  BY <1>0, ArriveEffect DEF SIDOrigins
<1>2. UNCHANGED <<sessions, session, stream, connectable>> /\ req'[v].pc = "arrived"
  BY ArriveEffect
<1>3. \A u \in Webhooks : req'[u].sid = x => u = w
  BY DEF AnnouncedOnce
<1>4. CASE v = w
  <2>1. \A u \in Webhooks : req[u].sid # x
    BY <1>0, <1>1, <1>3, <1>4
  <2>2. x \notin ringing
    BY <2>1 DEF SIDOrigins
  <2>3. x \notin connectable
    BY <1>4, <2>2, ArriveEffect
  <2>4. /\ \A s \in SessionIds : session[s].sid # x
        /\ \A c \in Streams : stream[c].sid # x
    BY <1>0, <2>2, <2>3 DEF SIDOrigins
  <2> QED  BY <1>2, <1>4, <2>3, <2>4 DEF OwnEntry
<1>5. CASE v # w
  <2>1. req'[w] = req[w]
    BY <1>1, <1>5
  <2>2. AnnouncedOnce(x)
    BY <1>0, <1>1, <1>3, <2>1 DEF AnnouncedOnce
  <2>3. OwnEntry(w, x)
    BY <2>1, <2>2 DEF AnnouncedInv
  <2> QED  BY <1>2, <2>1, <2>3, OwnEntrySame
<1> QED  BY <1>4, <1>5

\* A webhook creates its session, accepts its call or rejects it.
LEMMA AnnouncedAnswer ==
  ASSUME TypeOK, SIDInHand, SIDOrigins, AnnouncedInv, NEW v \in Webhooks,
         InboundCreate(v) \/ InboundAccept(v) \/ InboundReject(v)
  PROVE  AnnouncedInv'
<1> SUFFICES ASSUME NEW w \in Webhooks, NEW x \in CallSIDs,
                    AnnouncedOnce(x)', req'[w].sid = x
             PROVE  OwnEntry(w, x)'
  BY DEF AnnouncedInv
<1>0. x # None /\ Webhooks \subseteq Requests
  BY NoneAssumption DEF Requests
<1>1. /\ \A u \in Webhooks : req'[u].sid = req[u].sid
      /\ \A u \in Webhooks \ {v} : req'[u] = req[u]
      /\ UNCHANGED <<stream, ringing>> /\ req[v].sid \in CallSIDs
  BY <1>0, WebhookEffect
<1>2. AnnouncedOnce(x) /\ req[w].sid = x
  BY <1>1, AnnouncedStays
<1>3. OwnEntry(w, x)
  BY <1>2 DEF AnnouncedInv
<1>4. CASE v = w
  <2>1. CASE InboundCreate(v)
    <3> PICK s \in SessionIds : CreateSession(s, x)
      BY <1>2, <1>4, <2>1, AnswerEffect
    <3>1. /\ req[w].pc = "arrived" /\ req'[w].pc = "created"
          /\ connectable' = connectable
      BY <1>4, <2>1, AnswerEffect
    <3>2. x \notin connectable /\ \A z \in SessionIds : session[z].sid # x
      BY <1>3, <3>1 DEF OwnEntry
    <3>3. \A z \in SessionIds : session'[z].sid = x => z = s
      BY <3>2, CreateEffect
    <3>4. \A c \in Streams : stream[c].sid # x
      BY <1>0, <3>2 DEF SIDOrigins
    <3> QED  BY <1>1, <3>1, <3>2, <3>3, <3>4, CreateEffect DEF OwnEntry
  <2>2. CASE InboundAccept(v)
    BY <1>1, <1>3, <1>4, <2>2, AnswerEffect DEF OwnEntry
  <2>3. CASE InboundReject(v)
    <3>1. /\ req[w].pc = "created" /\ req'[w].pc = "rejected"
          /\ UNCHANGED <<session, connectable>>
      BY <1>4, <2>3, AnswerEffect
    <3>2. sessions'[x] = None
      BY <1>2, <1>4, <2>3, AnswerEffect DEF TypeOK
    <3> QED  BY <1>3, <3>1, <3>2 DEF OwnEntry
  <2> QED  BY <2>1, <2>2, <2>3
<1>5. CASE v # w
  <2>1. req[v].sid # x
    BY <1>2, <1>5, OneAnnouncer
  <2>2. req'[w] = req[w]
    BY <1>1, <1>5
  <2>3. CASE InboundCreate(v)
    BY <1>1, <1>3, <2>1, <2>2, <2>3, AnswerEffect, OwnEntryCreate
  <2>4. CASE InboundAccept(v)
    BY <1>1, <1>3, <2>1, <2>2, <2>4, AnswerEffect, OwnEntrySame
  <2>5. CASE InboundReject(v)
    <3>1. sessions'[x] = sessions[x]
      BY <2>1, <2>5, AnswerEffect DEF TypeOK
    <3> QED  BY <1>1, <1>3, <2>2, <2>5, <3>1, AnswerEffect, OwnEntrySame
  <2> QED  BY <2>3, <2>4, <2>5
<1> QED  BY <1>4, <1>5

\* A step of Close takes the entry of its own call only.
LEMMA AnnouncedClose ==
  ASSUME TypeOK, AnnouncedInv, NEW s \in SessionIds, CloseStep(s)
  PROVE  AnnouncedInv'
<1> SUFFICES ASSUME NEW w \in Webhooks, NEW x \in CallSIDs,
                    AnnouncedOnce(x)', req'[w].sid = x
             PROVE  OwnEntry(w, x)'
  BY DEF AnnouncedInv
<1>1. UNCHANGED <<req, stream, connectable>>
  BY CloseEffect
<1>2. OwnEntry(w, x)
  BY <1>1, AnnouncedStays DEF AnnouncedInv
<1>3. \A z \in SessionIds : session'[z].sid = x =>
        /\ session[z].sid = x
        /\ session'[z].phase \in Unremoved => session[z].phase \in Unremoved
  BY CloseEffect
<1>4. CASE sessions'[x] = sessions[x]
  BY <1>1, <1>2, <1>3, <1>4, OwnEntrySame
<1>5. CASE sessions'[x] # sessions[x]
  <2>1. session[s].sid = x /\ sessions'[x] = None
    BY <1>5, CloseEffect DEF TypeOK
  <2>2. session[s].phase = "hungup" /\ session'[s].phase = "removed"
    BY <1>5, CloseEffect
  <2>3. ASSUME NEW z \in SessionIds, session'[z].sid = x, session'[z].phase \in Unremoved
        PROVE  req[w].pc = "rejected"
    <3>1. z # s
      BY <2>2, <2>3 DEF Unremoved
    <3>2. sessions[x] = z \/ req[w].pc = "rejected"
      BY <1>2, <1>3, <2>3 DEF OwnEntry
    <3>3. sessions[x] = s \/ req[w].pc = "rejected"
      BY <1>2, <2>1, <2>2 DEF OwnEntry, Unremoved
    <3> QED  BY <3>1, <3>2, <3>3
  <2> QED  BY <1>1, <1>2, <1>3, <2>1, <2>3 DEF OwnEntry
<1> QED  BY <1>4, <1>5

\* A stream opens, looks its session up, or creates one where there is none.
LEMMA AnnouncedStart ==
  ASSUME TypeOK, SIDInHand, StreamSessions, SIDOrigins, AnnouncedInv, NEW c \in Streams,
         StreamOpen(c) \/ StartLookup(c) \/ StartCreate(c)
  PROVE  AnnouncedInv'
<1> SUFFICES ASSUME NEW w \in Webhooks, NEW x \in CallSIDs,
                    AnnouncedOnce(x)', req'[w].sid = x
             PROVE  OwnEntry(w, x)'
  BY DEF AnnouncedInv
<1>1. /\ UNCHANGED <<req, ringing, connectable>>
      /\ \A d \in Streams \ {c} : stream'[d] = stream[d]
  BY StartFrame
<1>2. OwnEntry(w, x)
  BY <1>1, AnnouncedStays DEF AnnouncedInv
<1>3. CASE StreamOpen(c)
  <2>1. UNCHANGED <<sessions, session>> /\ stream'[c].reader = "reading"
    BY <1>3, OpenEffect
  <2> QED  BY <1>1, <1>2, <2>1, OwnEntrySame
<1>4. CASE StartLookup(c)
  <2>1. /\ UNCHANGED <<sessions, session>>
        /\ stream'[c].sid = x /\ stream'[c].reader = "creating" => sessions[x] = None
    BY <1>4, LookupEffect
  <2> QED  BY <1>1, <1>2, <2>1 DEF OwnEntry
<1>5. CASE StartCreate(c)
  <2> PICK y \in CallSIDs : y = stream[c].sid
    BY <1>5, StartCreateEffect
  <2> PICK s \in SessionIds : CreateSession(s, y)
    BY <1>5, StartCreateEffect
  <2>1. stream[c].reader = "creating" /\ stream'[c].reader = "reading"
    BY <1>5, StartCreateEffect
  <2>2. CASE y # x
    BY <1>1, <1>2, <2>1, <2>2, OwnEntryCreate
  <2>3. CASE y = x
    <3>0. x # None /\ stream[c].sid = x
      BY <2>3, NoneAssumption
    <3>1. x \in connectable
      BY <3>0 DEF SIDOrigins
    <3>2. req[w].pc \notin {"arrived", "created", "rejected"}
      BY <1>2, <3>1 DEF OwnEntry
    <3>3. sessions[x] = None
      BY <1>2, <2>1, <2>3 DEF OwnEntry
    <3>4. \A z \in SessionIds :
            session[z].sid = x => session[z].phase \notin Unremoved
      BY <1>2, <3>2, <3>3, NoneAssumption DEF OwnEntry
    <3>5. \A z \in SessionIds :
            session'[z].sid = x /\ session'[z].phase \in Unremoved => z = s
      BY <3>4, CreateEffect
    <3>6. \A d \in Streams : stream'[d].sid = x /\ stream'[d].reader = "creating" => FALSE
      BY <1>1, <2>1, <3>0 DEF StreamSessions
    <3> QED  BY <1>1, <2>3, <3>2, <3>5, <3>6, CreateEffect DEF OwnEntry
  <2> QED  BY <2>2, <2>3
<1> QED  BY <1>3, <1>4, <1>5

\* Every step keeps it.
LEMMA AnnouncedStep ==
  ASSUME TypeOK, SIDInHand, StreamSessions, SIDOrigins, AnnouncedInv, Next
  PROVE  AnnouncedInv'
<1>1. CASE Quiet
  <2> SUFFICES ASSUME NEW w \in Webhooks, NEW x \in CallSIDs,
                      AnnouncedOnce(x)', req'[w].sid = x
               PROVE  OwnEntry(w, x)'
    BY DEF AnnouncedInv
  <2>1. OwnEntry(w, x)
    BY <1>1, AnnouncedStays DEF AnnouncedInv, Quiet
  <2> QED  BY <1>1, <2>1, OwnEntrySame DEF Quiet, QuietStream
<1>2. ASSUME NEW m \in Callers, MakeCallPlace(m) \/ MakeCallReturn(m)
      PROVE  AnnouncedInv'
  <2> SUFFICES ASSUME NEW w \in Webhooks, NEW x \in CallSIDs,
                      AnnouncedOnce(x)', req'[w].sid = x
               PROVE  OwnEntry(w, x)'
    BY DEF AnnouncedInv
  <2>1. (\A v \in Webhooks : req'[v] = req[v]) /\ UNCHANGED stream
    BY <1>2, CallerEffect, KindsAssumption DEF Requests
  <2>2. OwnEntry(w, x)
    BY <2>1, AnnouncedStays DEF AnnouncedInv
  <2>3. x \in ringing
    BY <2>1, NoneAssumption DEF SIDOrigins
  <2>4. CASE MakeCallPlace(m)
    BY <2>1, <2>2, <2>3, <2>4, CallerEffect, OwnEntrySame
  <2>5. CASE MakeCallReturn(m)
    <3>1. req[m].sid \in CallSIDs /\ connectable' = connectable
      BY <2>5, CallerEffect
    <3>2. req[m].sid # x
      BY <2>3, <3>1, NoneAssumption DEF SIDOrigins
    <3> QED  BY <2>1, <2>2, <2>5, <3>1, <3>2, CallerEffect, OwnEntryCreate
  <2> QED  BY <1>2, <2>4, <2>5
<1> QED
  BY <1>1, <1>2, RegistryCases, AnnouncedArrive, AnnouncedAnswer, AnnouncedClose,
     AnnouncedStart

----------------------------------------------------------------------------
(* Theorems                                                                *)

OnceInv == RegistryInv /\ SIDOrigins /\ StreamSessions /\ AnnouncedInv

\* A new gateway has no sessions and knows of no calls.
LEMMA OnceInit == Init => OnceInv
<1> SUFFICES ASSUME Init PROVE OnceInv
  OBVIOUS
<1>1. SIDOrigins
  BY DEF Init, SIDOrigins, Requests
<1>2. StreamSessions
  BY DEF Init, StreamSessions
<1>3. AnnouncedInv
  BY NoneAssumption DEF Init, AnnouncedInv, Requests
<1> QED  BY <1>1, <1>2, <1>3, InvInit DEF OnceInv

\* Every step keeps the invariant.
LEMMA OnceStep == OnceInv /\ [Next]_vars => OnceInv'
<1> SUFFICES ASSUME OnceInv, [Next]_vars PROVE OnceInv'
  OBVIOUS
<1>0. TypeOK /\ SIDInHand /\ ListedUnderOwnSID
  BY DEF OnceInv, RegistryInv
<1>1. CASE Next
  BY <1>0, <1>1, InvStep, OriginsStep, StreamSessionsStep, AnnouncedStep DEF OnceInv
<1>2. CASE UNCHANGED vars
  <2>1. UNCHANGED <<sessions, session, req, stream, ringing, connectable>>
    BY <1>2 DEF vars, registry, streams, outside
  <2> QED
    BY <1>2, <2>1, InvStep
       DEF OnceInv, SIDOrigins, StreamSessions, AnnouncedInv, OwnEntry, AnnouncedOnce
<1> QED  BY <1>1, <1>2

\* The session a stream uses is the one GetSession finds, for every call that
\* Twilio announces once: also when the start message has found the call's first
\* session closed and made a second.
THEOREM InboundStaysListed == Spec => []InboundSessionListed
<1>1. OnceInv => InboundSessionListed
  <2> SUFFICES ASSUME OnceInv, NEW c \in Streams, AnnouncedOnce(stream[c].sid),
                      stream[c].handler \notin {"idle", "waiting", "over"},
                      session[stream[c].session].phase = "open"
               PROVE  sessions[stream[c].sid] = stream[c].session
    BY DEF InboundSessionListed
  <2> PICK s : s = stream[c].session
    OBVIOUS
  <2> PICK x : x = stream[c].sid
    OBVIOUS
  <2>1. s \in SessionIds /\ session[s].sid = x /\ session[s].phase # "unborn"
    BY DEF OnceInv, StreamSessions, RegistryInv, TypeOK, StreamState
  <2>2. x # None /\ x \in CallSIDs /\ x \in connectable
    BY <2>1 DEF OnceInv, SIDOrigins, RegistryInv, TypeOK, StreamState
  <2>3. PICK w \in Webhooks : req[w].sid = x
    BY DEF AnnouncedOnce
  <2>4. OwnEntry(w, x)
    BY <2>2, <2>3 DEF OnceInv, AnnouncedInv
  <2>5. sessions[x] = s \/ req[w].pc = "rejected"
    BY <2>1, <2>4 DEF OwnEntry, Unremoved
  <2> QED  BY <2>2, <2>4, <2>5 DEF OwnEntry
<1> QED  BY <1>1, OnceInit, OnceStep, PTL DEF Spec

\* An entry changes when a session takes it, when its call is rejected and when
\* a session of its call is removed, and then Twilio announces nothing.
LEMMA EntryChange ==
  ASSUME TypeOK, SIDInHand, Next, NEW x \in CallSIDs, sessions'[x] # sessions[x]
  PROVE  /\ \A w \in Webhooks : req'[w].sid = req[w].sid
         /\ \/ \E s \in SessionIds : CreateSession(s, x)
            \/ \E w \in Webhooks :
                 req[w].sid = x /\ req[w].pc = "created" /\ req'[w].pc = "rejected"
            \/ \E s \in SessionIds :
                 /\ session[s].sid = x
                 /\ session[s].phase = "hungup" /\ session'[s].phase = "removed"
<1>0. sessions \in [CallSIDs -> SessionIds \cup {None}] /\ Webhooks \subseteq Requests
  BY DEF TypeOK, Requests
<1>1. ASSUME NEW s \in SessionIds, NEW y \in CallSIDs, CreateSession(s, y)
      PROVE  CreateSession(s, x)
  BY <1>1, CreateEffect
<1>2. ~Quiet
  BY DEF Quiet
<1>3. ASSUME NEW w \in Webhooks, \/ InboundArrive(w) \/ InboundCreate(w)
                                 \/ InboundAccept(w) \/ InboundReject(w)
      PROVE  /\ \A v \in Webhooks : req'[v].sid = req[v].sid
             /\ \/ \E s \in SessionIds : CreateSession(s, x)
                \/ req[w].sid = x /\ req[w].pc = "created" /\ req'[w].pc = "rejected"
  <2>1. ~InboundArrive(w) /\ ~InboundAccept(w)
    BY ArriveEffect, AnswerEffect
  <2>2. /\ \A v \in Webhooks : req'[v].sid = req[v].sid
        /\ req[w].sid \in CallSIDs
    BY <1>0, <1>3, <2>1, WebhookEffect
  <2>3. CASE InboundCreate(w)
    BY <1>1, <2>2, <2>3, AnswerEffect
  <2>4. CASE InboundReject(w)
    BY <1>0, <2>2, <2>4, AnswerEffect
  <2> QED  BY <1>3, <2>1, <2>2, <2>3, <2>4
<1>4. ASSUME NEW m \in Callers, MakeCallPlace(m) \/ MakeCallReturn(m)
      PROVE  /\ \A v \in Webhooks : req'[v].sid = req[v].sid
             /\ \E s \in SessionIds : CreateSession(s, x)
  <2>1. \A v \in Webhooks : req'[v].sid = req[v].sid
    BY <1>4, CallerEffect, KindsAssumption DEF Requests
  <2>2. MakeCallReturn(m)
    BY <1>4, CallerEffect
  <2> QED  BY <1>1, <2>1, <2>2, CallerEffect
<1>5. ASSUME NEW s \in SessionIds, CloseStep(s)
      PROVE  /\ \A v \in Webhooks : req'[v].sid = req[v].sid
             /\ session[s].sid = x
             /\ session[s].phase = "hungup" /\ session'[s].phase = "removed"
  BY <1>0, <1>5, CloseEffect
<1>6. ASSUME NEW c \in Streams, StreamOpen(c) \/ StartLookup(c) \/ StartCreate(c)
      PROVE  /\ \A v \in Webhooks : req'[v].sid = req[v].sid
             /\ \E s \in SessionIds : CreateSession(s, x)
  <2>1. StartCreate(c) /\ UNCHANGED req
    BY <1>6, OpenEffect, LookupEffect, StartFrame
  <2> QED  BY <1>1, <2>1, StartCreateEffect
<1> QED  BY <1>2, <1>3, <1>4, <1>5, <1>6, RegistryCases

\* A session of a call announced once leaves the registry by its own Close or by
\* the rejection of its call: removeSession and createSession, which look at the
\* SID alone, never touch another session's entry.
THEOREM EvictedByOwnClose == Spec => EvictedOnlyByOwnClose
<1>1. OnceInv /\ OnceInv' /\ [Next]_vars =>
        [\A x \in CallSIDs :
           AnnouncedOnce(x) /\ sessions[x] # None /\ sessions'[x] # sessions[x] =>
             \/ session[sessions[x]].phase = "hungup"
                /\ session'[sessions[x]].phase = "removed"
             \/ \E w \in Webhooks :
                  req[w].sid = x /\ req[w].pc = "created" /\ req'[w].pc = "rejected"]_vars
  <2> SUFFICES ASSUME OnceInv, OnceInv', Next, NEW x \in CallSIDs, AnnouncedOnce(x),
                      sessions[x] # None, sessions'[x] # sessions[x],
                      ~\E w \in Webhooks :
                         /\ req[w].sid = x
                         /\ req[w].pc = "created" /\ req'[w].pc = "rejected"
               PROVE  session[sessions[x]].phase = "hungup"
                      /\ session'[sessions[x]].phase = "removed"
    OBVIOUS
  <2>0. TypeOK /\ SIDInHand /\ ListedUnderOwnSID
    BY DEF OnceInv, RegistryInv
  <2>1. PICK w \in Webhooks : req[w].sid = x
    BY DEF AnnouncedOnce
  <2>2. OwnEntry(w, x)
    BY <2>1 DEF OnceInv, AnnouncedInv
  <2> PICK z : z = sessions[x]
    OBVIOUS
  <2>3. z \in SessionIds /\ session[z].sid = x /\ session[z].phase \in Unremoved
    BY <2>0 DEF ListedUnderOwnSID, TypeOK
  <2>4. ASSUME NEW s \in SessionIds, CreateSession(s, x)
        PROVE  FALSE
    <3>1. session[s].phase = "unborn" /\ sessions'[x] = s
      BY <2>0, <2>4, CreateEffect
    <3>2. z # s
      BY <2>3, <3>1 DEF Unremoved
    <3>3. session'[z] = session[z]
      BY <2>0, <2>3, <2>4, <3>2, CreateEffect
    <3>4. AnnouncedOnce(x)' /\ req'[w].sid = x
      BY <2>0, <2>1, EntryChange, AnnouncedStays
    <3>5. OwnEntry(w, x)'
      BY <3>4 DEF OnceInv, AnnouncedInv
    <3>6. sessions'[x] = z \/ sessions'[x] = None
      BY <2>3, <3>3, <3>5 DEF OwnEntry
    <3> QED  BY <3>1, <3>2, <3>6, NoneAssumption
  <2>5. ASSUME NEW s \in SessionIds, session[s].sid = x, session[s].phase = "hungup"
        PROVE  s = z
    BY <2>2, <2>5 DEF OwnEntry, Unremoved
  <2> QED  BY <2>0, <2>4, <2>5, EntryChange
<1> QED  BY <1>1, OnceInit, OnceStep, PTL DEF Spec, EvictedOnlyByOwnClose

\* A rejected webhook stays so.
LEMMA RejectedStays ==
  ASSUME TypeOK, SIDInHand, Next, NEW w \in Webhooks, req[w].pc = "rejected"
  PROVE  req'[w].pc = "rejected" /\ req'[w].sid = req[w].sid
<1>0. w \in Requests /\ w \notin Callers
  BY KindsAssumption DEF Requests
<1>1. CASE Quiet
  BY <1>1 DEF Quiet
<1>2. ASSUME NEW v \in Webhooks, \/ InboundArrive(v) \/ InboundCreate(v)
                                 \/ InboundAccept(v) \/ InboundReject(v)
      PROVE  req'[w] = req[w]
  BY <1>0, <1>2, ArriveEffect, WebhookEffect, AnswerEffect
<1>3. ASSUME NEW m \in Callers, MakeCallPlace(m) \/ MakeCallReturn(m)
      PROVE  req'[w] = req[w]
  BY <1>0, <1>3, CallerEffect
<1>4. ASSUME NEW s \in SessionIds, CloseStep(s) PROVE req'[w] = req[w]
  BY <1>4, CloseEffect
<1>5. ASSUME NEW c \in Streams, StreamOpen(c) \/ StartLookup(c) \/ StartCreate(c)
      PROVE  req'[w] = req[w]
  BY <1>5, StartFrame
<1> QED  BY <1>1, <1>2, <1>3, <1>4, <1>5, RegistryCases

\* A session that has been displaced stays so.
LEMMA DisplacedStays ==
  ASSUME TypeOK, SIDInHand, SIDOrigins, Next,
         NEW s \in SessionIds, session[s].phase # "unborn", Displaced(s)
  PROVE  Displaced(s)'
<1>1. session'[s].sid = session[s].sid /\ session[s].sid # None
  BY SessionsKept DEF SIDOrigins
<1>2. ASSUME NEW z \in SessionIds \ {s}, session[z].sid = session[s].sid
      PROVE  session'[z].sid = session'[s].sid
  BY <1>1, <1>2, SessionsKept DEF SIDOrigins
<1>3. ASSUME NEW w \in Webhooks, req[w].sid = session[s].sid, req[w].pc = "rejected"
      PROVE  req'[w].sid = session'[s].sid /\ req'[w].pc = "rejected"
  BY <1>1, <1>3, RejectedStays
<1> QED  BY <1>2, <1>3 DEF Displaced

\* A session is unremoved since its creation, which listed it.
LEMMA UnremovedSince ==
  ASSUME TypeOK, SIDInHand, SIDOrigins, Next,
         NEW s \in SessionIds, session'[s].phase \in Unremoved
  PROVE  \/ session[s].phase \in Unremoved
         \/ sessions'[session'[s].sid] = s
<1>1. ASSUME NEW z \in SessionIds, NEW x \in CallSIDs, CreateSession(z, x)
      PROVE  session[s].phase \in Unremoved \/ sessions'[session'[s].sid] = s
  BY <1>1, CreateEffect
<1>2. CASE Quiet
  BY <1>2 DEF Quiet
<1>3. ASSUME NEW w \in Webhooks, \/ InboundArrive(w) \/ InboundCreate(w)
                                 \/ InboundAccept(w) \/ InboundReject(w)
      PROVE  session[s].phase \in Unremoved \/ sessions'[session'[s].sid] = s
  BY <1>1, <1>3, ArriveEffect, WebhookEffect, AnswerEffect
<1>4. ASSUME NEW m \in Callers, MakeCallPlace(m) \/ MakeCallReturn(m)
      PROVE  session[s].phase \in Unremoved \/ sessions'[session'[s].sid] = s
  BY <1>1, <1>4, CallerEffect
<1>5. ASSUME NEW z \in SessionIds, CloseStep(z)
      PROVE  session[s].phase \in Unremoved
  BY <1>5, CloseEffect
<1>6. ASSUME NEW c \in Streams, StreamOpen(c) \/ StartLookup(c) \/ StartCreate(c)
      PROVE  session[s].phase \in Unremoved \/ sessions'[session'[s].sid] = s
  BY <1>1, <1>6, OpenEffect, LookupEffect, StartCreateEffect
<1> QED  BY <1>2, <1>3, <1>4, <1>5, <1>6, RegistryCases

\* Every step keeps every missing session accounted for.
LEMMA DisplacedStep ==
  ASSUME TypeOK, SIDInHand, SIDOrigins, UnlistedIsDisplaced, Next
  PROVE  UnlistedIsDisplaced'
<1> SUFFICES ASSUME NEW s \in SessionIds, session'[s].phase \in Unremoved,
                    sessions'[session'[s].sid] # s
             PROVE  Displaced(s)'
  BY DEF UnlistedIsDisplaced
<1>1. session[s].phase \in Unremoved /\ session[s].phase # "unborn"
  BY UnremovedSince DEF Unremoved
<1> PICK x : x = session[s].sid
  OBVIOUS
<1>2. session'[s].sid = x /\ x \in CallSIDs
  BY <1>1, SessionsKept DEF SIDOrigins, TypeOK, SessionState
<1>3. CASE sessions[x] # s
  BY <1>1, <1>3, DisplacedStays DEF UnlistedIsDisplaced
<1>4. CASE sessions[x] = s
  <2>1. sessions'[x] # sessions[x]
    BY <1>2, <1>4
  <2>2. ASSUME NEW z \in SessionIds, CreateSession(z, x)
        PROVE  Displaced(s)'
    <3>1. z # s /\ session'[z].sid = x
      BY <1>1, <1>2, <2>2, CreateEffect
    <3> QED  BY <1>2, <3>1 DEF Displaced
  <2>3. ASSUME NEW w \in Webhooks, req[w].sid = x, req'[w].pc = "rejected"
        PROVE  Displaced(s)'
    <3>1. req'[w].sid = x
      BY <1>2, <2>1, <2>3, EntryChange
    <3> QED  BY <1>2, <2>3, <3>1 DEF Displaced
  <2>4. ASSUME NEW z \in SessionIds, session[z].sid = x,
               session[z].phase = "hungup", session'[z].phase = "removed"
        PROVE  Displaced(s)'
    <3>1. z # s /\ session'[z].sid = x
      BY <2>4, SessionsKept DEF Unremoved
    <3> QED  BY <1>2, <3>1 DEF Displaced
  <2> QED  BY <1>2, <2>1, <2>2, <2>3, <2>4, EntryChange
<1> QED  BY <1>3, <1>4

\* No session is lost from the registry for another reason than another session
\* of the same SID, or the rejection of its call: for calls of either direction.
THEOREM MissingIsDisplaced == Spec => []UnlistedIsDisplaced
<1>1. Init => UnlistedIsDisplaced
  BY DEF Init, UnlistedIsDisplaced, Unremoved
<1>2. OnceInv /\ UnlistedIsDisplaced /\ [Next]_vars => UnlistedIsDisplaced'
  <2> SUFFICES ASSUME OnceInv, UnlistedIsDisplaced, [Next]_vars
               PROVE  UnlistedIsDisplaced'
    OBVIOUS
  <2>1. CASE Next
    BY <2>1, DisplacedStep DEF OnceInv, RegistryInv
  <2>2. CASE UNCHANGED vars
    <3>1. UNCHANGED <<sessions, session, req>>
      BY <2>2 DEF vars, registry
    <3> QED  BY <3>1 DEF UnlistedIsDisplaced, Displaced
  <2> QED  BY <2>1, <2>2
<1> QED  BY <1>1, <1>2, OnceInit, OnceStep, PTL DEF Spec

----------------------------------------------------------------------------
(* Gateway.Stop closes sessions with g.mu held (gateway.go:243).           *)

\* A Stop that sweeps has the lock; the session it closes is still listed.
StopHolds ==
  \A g \in Stoppers :
    /\ req[g].pc \in {"sweeping", "closing"} => mu = g
    /\ req[g].pc = "closing" =>
         \E x \in CallSIDs : sessions[x] # None /\ sessions[x] = req[g].session

\* Every other step leaves Stop alone, and the map while Stop has the lock.
LEMMA StopFrame ==
  ASSUME TypeOK, Next, ~\E g \in Stoppers : StopLock(g) \/ StopStep(g)
  PROVE  /\ \A g \in Stoppers : req'[g] = req[g]
         /\ mu' = mu
         /\ mu # None => sessions' = sessions
<1>0. req \in [Requests -> RequestState] /\ Stoppers \subseteq Requests
  BY DEF TypeOK, Requests
<1>1. ASSUME NEW w \in Webhooks, InboundArrive(w) \/ WebhookStep(w)
      PROVE  /\ \A g \in Stoppers : req'[g] = req[g]
             /\ mu' = mu /\ (mu # None => sessions' = sessions)
  <2>1. w \notin Stoppers
    BY KindsAssumption
  <2> QED
    BY <1>0, <1>1, <2>1
       DEF WebhookStep, InboundArrive, InboundCreate, InboundAccept, InboundReject,
           CreateSession, RemoveSession, MuFree, registry
<1>2. ASSUME NEW b \in Callbacks, StatusReport(b) \/ CallbackStep(b)
      PROVE  /\ \A g \in Stoppers : req'[g] = req[g]
             /\ mu' = mu /\ sessions' = sessions
  <2>1. b \notin Stoppers
    BY KindsAssumption
  <2> QED
    BY <1>0, <1>2, <2>1
       DEF CallbackStep, StatusReport, StatusLookup, StatusEmit, CloseReturn, registry
<1>3. ASSUME NEW m \in Callers, MakeCallPlace(m) \/ MakeCallReturn(m)
      PROVE  /\ \A g \in Stoppers : req'[g] = req[g]
             /\ mu' = mu /\ (mu # None => sessions' = sessions)
  <2>1. m \notin Stoppers
    BY KindsAssumption
  <2> QED
    BY <1>0, <1>3, <2>1 DEF MakeCallPlace, MakeCallReturn, CreateSession, MuFree
<1>4. ASSUME NEW a \in Apps, AppGetSession(a) \/ AppStep(a)
      PROVE  /\ \A g \in Stoppers : req'[g] = req[g]
             /\ mu' = mu /\ sessions' = sessions
  <2>1. a \notin Stoppers
    BY KindsAssumption
  <2> QED
    BY <1>0, <1>4, <2>1
       DEF AppStep, AppGetSession, AppInterrupt, AppSendText, TypedStep, TypedEnd,
           TypedPanic, AppClose, CloseReturn, registry
<1>5. ASSUME NEW s \in SessionIds, CloseStep(s)
      PROVE  req' = req /\ mu' = mu /\ (mu # None => sessions' = sessions)
  BY <1>5, CloseFrame
     DEF CloseStep, CloseBegin, CloseStop, CloseHangUp, CloseRemove, CloseEvents,
         RemoveSession, MuFree, registry
<1>6. ASSUME NEW c \in Streams, StreamStep(c)
      PROVE  req' = req /\ mu' = mu /\ (mu # None => sessions' = sessions)
  BY <1>6, StreamFrame
     DEF StreamStep, StreamOpen, ReadMessage, Messages, ReadEnd, ReaderStep, StartLookup,
         StartCreate, CreateSession, MuFree, DTMFEmit, MediaSend, HandlerStep,
         HandlerGiveUp, HandlerAttach, HandlerBuild, HandlerInstall, HandlerAnnounce,
         PipelineStart, GreetingEnd, PipelineReturn, HandlerDrain, ProviderInstall,
         BridgeStart, RealtimeAnnounce, RealtimeReturn, HandlerGoto, EmitThen,
         SessionTimeout, TurnBegin, LoopExit, TurnStep, TurnEmitPanic, TurnSendPanic,
         TurnEnd, ForwardStep, ForwarderReturn, ForwarderEmitPanic, registry
<1> QED  BY <1>1, <1>2, <1>3, <1>4, <1>5, <1>6 DEF Next

\* Close of a listed session has not finished, so it does not return to Stop.
LEMMA StopWaits ==
  ASSUME ListedUnderOwnSID, StopHolds, NEW g \in Stoppers, req[g].pc = "closing"
  PROVE  ~CloseReturn(g)
BY DEF CloseReturn, ListedUnderOwnSID, StopHolds, Unremoved

\* A Stop that is closing a session stays there, with the lock and with every
\* entry as it was.
LEMMA StopStays ==
  ASSUME TypeOK, ListedUnderOwnSID, StopHolds, Next,
         NEW g \in Stoppers, req[g].pc = "closing"
  PROVE  UNCHANGED <<mu, sessions>> /\ req'[g] = req[g]
<1>1. mu = g /\ mu # None
  BY NoneAssumption DEF StopHolds
<1>2. CASE ~\E h \in Stoppers : StopLock(h) \/ StopStep(h)
  BY <1>1, <1>2, StopFrame
<1>3. ASSUME NEW h \in Stoppers, StopLock(h) \/ StopStep(h)
      PROVE  UNCHANGED <<mu, sessions>> /\ req'[g] = req[g]
  <2>1. ~StopLock(h)
    BY <1>1 DEF StopLock, MuFree
  <2>2. ~StopSweep(h) /\ ~StopReset(h) /\ h # g
    BY <1>1, <1>3, <2>1, StopWaits
       DEF StopStep, StopSweep, StopReset, StopShutdown, StopHolds, At
  <2>3. ~CloseReturn(h)
    BY <1>1, <2>2 DEF CloseReturn, StopHolds, At
  <2>4. StopShutdown(h)
    BY <1>3, <2>1, <2>2, <2>3 DEF StopStep
  <2> QED  BY <2>2, <2>4 DEF StopShutdown, TypeOK, Requests
<1> QED  BY <1>2, <1>3

\* Every step keeps Stop's hold on the lock and on the session it closes.
LEMMA StopHoldsStep ==
  ASSUME TypeOK, ListedUnderOwnSID, StopHolds, Next
  PROVE  StopHolds'
<1>0. req \in [Requests -> RequestState] /\ Stoppers \subseteq Requests
  BY DEF TypeOK, Requests
<1>1. CASE ~\E h \in Stoppers : StopLock(h) \/ StopStep(h)
  BY <1>1, StopFrame, NoneAssumption DEF StopHolds
<1>2. ASSUME NEW h \in Stoppers, StopLock(h) \/ StopStep(h)
      PROVE  StopHolds'
  <2>1. \A g \in Stoppers \ {h} : req'[g] = req[g]
    BY <1>0, <1>2
       DEF StopStep, StopLock, StopSweep, StopReset, StopShutdown, CloseReturn
  <2>2. CASE StopLock(h)
    <3>1. mu = None /\ mu' = h /\ req'[h].pc = "sweeping"
      BY <1>0, <2>2 DEF StopLock, MuFree, RequestState
    <3>2. \A g \in Stoppers : req[g].pc \notin {"sweeping", "closing"}
      BY <3>1, NoneAssumption DEF StopHolds
    <3> QED  BY <2>1, <3>1, <3>2 DEF StopHolds
  <2>3. CASE StopSweep(h)
    <3> PICK x \in CallSIDs :
          /\ sessions[x] # None
          /\ req' = [req EXCEPT ![h].pc = "closing", ![h].session = sessions[x]]
      BY <2>3 DEF StopSweep
    <3>1. req[h].pc = "sweeping" /\ UNCHANGED <<mu, sessions>>
      BY <2>3 DEF StopSweep, At, registry
    <3>2. req'[h].pc = "closing" /\ req'[h].session = sessions[x]
      BY <1>0 DEF RequestState
    <3> QED  BY <2>1, <3>1, <3>2 DEF StopHolds
  <2>4. CASE StopReset(h)
    <3>1. mu = h /\ req'[h].pc = "swept"
      BY <1>0, <2>4 DEF StopReset, StopHolds, At, RequestState
    <3>2. \A g \in Stoppers \ {h} : req[g].pc \notin {"sweeping", "closing"}
      BY <3>1 DEF StopHolds
    <3> QED  BY <2>1, <3>1, <3>2 DEF StopHolds
  <2>5. CASE StopShutdown(h)
    <3>1. UNCHANGED <<mu, sessions>> /\ req'[h].pc = "answered"
      BY <1>0, <2>5 DEF StopShutdown, RequestState
    <3> QED  BY <2>1, <3>1 DEF StopHolds
  <2>6. CASE CloseReturn(h)
    BY <2>6, StopWaits DEF CloseReturn, At
  <2> QED  BY <1>2, <2>2, <2>3, <2>4, <2>5, <2>6 DEF StopStep
<1> QED  BY <1>1, <1>2

\* Stop returns only from a gateway without sessions: once it has found one it
\* keeps g.mu for good, since that session's Close needs g.mu to remove itself,
\* and from then on no session enters or leaves the registry.
StopIsFinal ==
  [][\A g \in Stoppers : req[g].pc = "closing" =>
       req'[g].pc = "closing" /\ UNCHANGED <<mu, sessions>>]_vars

\* Gateway.Stop with a session in the map never returns (the finding of the run
\* stop_blocks), whatever the number of sessions and goroutines.
THEOREM StopWithSessionBlocks == Spec => StopIsFinal
<1>1. Init => StopHolds
  BY DEF Init, StopHolds, Requests
<1>2. RegistryInv /\ StopHolds /\ [Next]_vars => StopHolds'
  <2> SUFFICES ASSUME RegistryInv, StopHolds, [Next]_vars PROVE StopHolds'
    OBVIOUS
  <2>1. CASE Next
    BY <2>1, StopHoldsStep DEF RegistryInv
  <2>2. CASE UNCHANGED vars
    <3>1. UNCHANGED <<mu, sessions, req>>
      BY <2>2 DEF vars, registry
    <3> QED  BY <3>1 DEF StopHolds
  <2> QED  BY <2>1, <2>2
<1>3. RegistryInv /\ StopHolds /\ [Next]_vars =>
        [\A g \in Stoppers : req[g].pc = "closing" =>
           req'[g].pc = "closing" /\ UNCHANGED <<mu, sessions>>]_vars
  BY StopStays DEF RegistryInv
<1> QED  BY <1>1, <1>2, <1>3, InvInit, InvStep, PTL DEF Spec, StopIsFinal

----------------------------------------------------------------------------
(* conn.pipelineReady is closed by processAudioLoop (pipeline.go:191),     *)
(* which a realtime pipeline never runs.                                   *)

\* In realtime mode no read loop is told to pass the caller's audio on, and none
\* does.
CallerUnheard ==
  mode = "realtime" => ready = {} /\ \A c \in Streams : stream[c].reader # "media"

\* Config.Mode is never written.
LEMMA ModeStays ==
  ASSUME Next
  PROVE  mode' = mode
<1>1. ASSUME NEW r \in Requests, RequestStep(r) PROVE mode' = mode
  BY <1>1
     DEF RequestStep, WebhookStep, CallbackStep, AppStep, StopStep, InboundArrive,
         InboundCreate, InboundAccept, InboundReject, StatusReport, StatusLookup,
         StatusEmit, CloseReturn, MakeCallPlace, MakeCallReturn, AppGetSession,
         AppInterrupt, AppSendText, TypedStep, TypedEnd, TypedPanic, AppClose,
         StopLock, StopSweep, StopReset, StopShutdown, outside
<1>2. ASSUME NEW s \in SessionIds, CloseStep(s) PROVE mode' = mode
  BY <1>2, CloseFrame DEF outside
<1>3. ASSUME NEW c \in Streams, StreamStep(c) PROVE mode' = mode
  BY <1>3, StreamFrame DEF outside
<1> QED  BY <1>1, <1>2, <1>3, NextCases

\* Every step keeps a realtime gateway deaf.
LEMMA UnheardStep ==
  ASSUME TypeOK, CallerUnheard, Next
  PROVE  CallerUnheard'
<1>1. stream \in [Streams -> StreamState]
  BY DEF TypeOK
<1>2. ASSUME NEW r \in Requests, RequestStep(r) PROVE UNCHANGED <<ready, stream>>
  BY <1>2, RequestFrame DEF streams, workers
<1>3. ASSUME NEW s \in SessionIds, CloseStep(s) PROVE UNCHANGED <<ready, stream>>
  BY <1>3, CloseFrame
     DEF CloseStep, CloseBegin, CloseStop, CloseHangUp, CloseRemove, CloseEvents,
         ClosePhase, streams, workers
<1>4. ASSUME NEW c \in Streams, StreamStep(c), mode = "realtime"
      PROVE  ready' = ready /\ \A d \in Streams : stream'[d].reader # "media"
  <2>1. CASE ReadMessage(c)
    BY <1>1, <1>4, <2>1 DEF ReadMessage, Messages, CallerUnheard, workers, StreamState
  <2>2. CASE HandlerStep(c)
    BY <1>1, <1>4, <2>2
       DEF HandlerStep, HandlerGiveUp, HandlerAttach, HandlerBuild, HandlerInstall,
           HandlerAnnounce, PipelineStart, GreetingEnd, PipelineReturn, HandlerDrain,
           ProviderInstall, BridgeStart, RealtimeAnnounce, RealtimeReturn, HandlerGoto,
           EmitThen, CallerUnheard, workers, StreamState
  \* The others leave the channel, and no reader is sent to "media".
  <2>3. CASE StreamOpen(c)
    BY <1>1, <1>4, <2>3 DEF StreamOpen, CallerUnheard, workers
  <2>4. CASE ReadEnd(c)
    BY <1>1, <1>4, <2>4 DEF ReadEnd, CallerUnheard, workers
  <2>5. CASE StartLookup(c)
    BY <1>1, <1>4, <2>5 DEF StartLookup, CallerUnheard, workers
  <2>6. CASE StartCreate(c)
    BY <1>1, <1>4, <2>6 DEF StartCreate, CallerUnheard, workers
  <2>7. CASE DTMFEmit(c) \/ MediaSend(c)
    <3>1. ready' = ready /\ stream' = [stream EXCEPT ![c].reader = "reading"]
      BY <2>7 DEF DTMFEmit, MediaSend, workers
    <3> QED  BY <1>1, <1>4, <3>1 DEF CallerUnheard
  <2>8. CASE SessionTimeout(c) \/ TurnBegin(c) \/ LoopExit(c)
    BY <1>4, <2>8 DEF SessionTimeout, TurnBegin, LoopExit, CallerUnheard, streams, workers
  <2>9. CASE TurnStep(c)
    BY <1>4, <2>9
       DEF TurnStep, TurnEmitPanic, TurnSendPanic, TurnEnd, CallerUnheard, streams, workers
  <2>10. CASE ForwardStep(c)
    BY <1>4, <2>10
       DEF ForwardStep, ForwarderReturn, ForwarderEmitPanic, CallerUnheard, streams,
           workers
  <2> QED  BY <1>4, <2>1, <2>2, <2>3, <2>4, <2>5, <2>6, <2>7, <2>8, <2>9, <2>10
              DEF StreamStep, ReaderStep
<1> QED  BY <1>2, <1>3, <1>4, ModeStays, NextCases DEF CallerUnheard

\* In realtime mode the caller is never heard (the finding of the run
\* realtime_deaf), for any number of streams.
THEOREM RealtimeIsDeaf == Spec => []CallerUnheard
<1>1. Init => CallerUnheard
  BY DEF Init, CallerUnheard
<1>2. RegistryInv /\ CallerUnheard /\ [Next]_vars => CallerUnheard'
  <2> SUFFICES ASSUME RegistryInv, CallerUnheard, [Next]_vars PROVE CallerUnheard'
    OBVIOUS
  <2>1. CASE Next
    BY <2>1, UnheardStep DEF RegistryInv
  <2>2. CASE UNCHANGED vars
    BY <2>2 DEF vars, streams, workers, outside, CallerUnheard
  <2> QED  BY <2>1, <2>2
<1> QED  BY <1>1, <1>2, InvInit, InvStep, PTL DEF Spec

----------------------------------------------------------------------------
(* What kills the process before a Close of its own has hung up.           *)

NoneHungUp == \A s \in SessionIds : session[s].phase \notin HungUp

\* As long as none has, only a read loop that is over has closed its connection.
EndedByReader == NoneHungUp => \A c \in done : stream[c].reader = "over"

\* Whatever emits has a session to emit for.
EmitsForSession ==
  /\ \A c \in Streams :
       (\/ c \in looping \cup answering
        \/ \E f \in Forwarders : <<c, f>> \in forwarding
        \/ stream[c].reader \in {"dtmf", "media"}) => stream[c].session # None
  /\ \A r \in Requests : req[r].pc \in {"holding", "typing"} => req[r].session # None

\* A realtime gateway has no pipelines, and so no turns.
RealtimeHasNoTurns ==
  mode = "realtime" =>
    /\ looping = {} /\ answering = {}
    /\ \A s \in SessionIds : session[s].pipeline = None
    /\ \A r \in Requests : req[r].pc # "typing"

EndInv ==
  OnceInv /\ EndedByReader /\ EmitsForSession /\ RealtimeHasNoTurns /\ RemoteEndIsSafe

\* A session that has hung up stays so.
LEMMA HungUpStays ==
  ASSUME TypeOK, SIDInHand, Next, NoneHungUp'
  PROVE  NoneHungUp
<1> SUFFICES ASSUME NEW s \in SessionIds, session[s].phase \in HungUp
             PROVE  session'[s].phase \in HungUp
  BY DEF NoneHungUp
<1>1. ASSUME NEW z \in SessionIds, NEW x \in CallSIDs, CreateSession(z, x)
      PROVE  session'[s].phase = session[s].phase
  <2>1. session[z].phase = "unborn" /\ (s # z => session'[s] = session[s])
    BY <1>1, CreateEffect
  <2> QED  BY <2>1 DEF HungUp
<1>2. CASE Quiet
  BY <1>2 DEF Quiet
<1>3. CASE \E w \in Webhooks : \/ InboundArrive(w) \/ InboundCreate(w)
                               \/ InboundAccept(w) \/ InboundReject(w)
  BY <1>1, <1>3, ArriveEffect, WebhookEffect, AnswerEffect
<1>4. CASE \E m \in Callers : MakeCallPlace(m) \/ MakeCallReturn(m)
  BY <1>1, <1>4, CallerEffect
<1>5. CASE \E z \in SessionIds : CloseStep(z)
  <2>1. session \in [SessionIds -> SessionState]
    BY DEF TypeOK
  <2> QED
    BY <1>5, <2>1 DEF CloseStep, CloseBegin, CloseStop, CloseHangUp, CloseRemove,
      CloseEvents, ClosePhase, SessionState, HungUp
<1>6. CASE \E c \in Streams : StreamOpen(c) \/ StartLookup(c) \/ StartCreate(c)
  BY <1>1, <1>6, OpenEffect, LookupEffect, StartCreateEffect
<1> QED  BY <1>2, <1>3, <1>4, <1>5, <1>6, RegistryCases

\* The handler goroutine touches no reader, closes no connection and kills
\* nobody; it starts loops and forwarders for a session.
LEMMA HandlerEffect ==
  ASSUME TypeOK, StreamSessions, NEW c \in Streams, HandlerStep(c)
  PROVE  /\ \A d \in Streams : /\ stream'[d].reader = stream[d].reader
                               /\ stream'[d].session = stream[d].session
         /\ UNCHANGED <<done, fatal, answering>>
         /\ looping' \subseteq looping \cup {c}
         /\ forwarding' \subseteq forwarding \cup ({c} \X Forwarders)
         /\ looping' # looping \/ forwarding' # forwarding => stream[c].session # None
         /\ mode = "realtime" => looping' = looping
<1>1. stream \in [Streams -> StreamState]
  BY DEF TypeOK
<1>2. \/ HandlerGiveUp(c)
      \/ \E from, to \in HandlerLabels :
           /\ HandlerGoto(c, from, to)
           /\ to = "running" => from \notin {"idle", "waiting", "over"}
  BY DEF HandlerStep, HandlerAttach, HandlerBuild, HandlerInstall, HandlerAnnounce,
         PipelineStart, GreetingEnd, PipelineReturn, HandlerDrain, ProviderInstall,
         BridgeStart, RealtimeAnnounce, RealtimeReturn, EmitThen, HandlerLabels
<1>3. CASE HandlerGiveUp(c)
  BY <1>1, <1>3 DEF HandlerGiveUp, workers, StreamState
<1>4. ASSUME NEW from \in HandlerLabels, NEW to \in HandlerLabels,
             HandlerGoto(c, from, to),
             to = "running" => from \notin {"idle", "waiting", "over"}
      PROVE  /\ \A d \in Streams : /\ stream'[d].reader = stream[d].reader
                                   /\ stream'[d].session = stream[d].session
             /\ UNCHANGED <<done, fatal, answering>>
             /\ looping' \subseteq looping \cup {c}
             /\ forwarding' \subseteq forwarding \cup ({c} \X Forwarders)
             /\ looping' # looping \/ forwarding' # forwarding => stream[c].session # None
             /\ mode = "realtime" => looping' = looping
  <2>1. \A d \in Streams : /\ stream'[d].reader = stream[d].reader
                           /\ stream'[d].session = stream[d].session
    BY <1>1, <1>4 DEF HandlerGoto, StreamState
  <2>2. to = "running" => stream[c].session # None
    BY <1>4 DEF HandlerGoto, HandlerAt, StreamSessions
  <2> QED  BY <1>4, <2>1, <2>2 DEF HandlerGoto, sockets
<1> QED  BY <1>2, <1>3, <1>4

\* Every step keeps the read loop the only one to end a connection.
LEMMA EndedByReaderStep ==
  ASSUME OnceInv, EndedByReader, Next
  PROVE  EndedByReader'
<1>0. TypeOK /\ SIDInHand /\ StreamSessions
  BY DEF OnceInv, RegistryInv
<1>1. stream \in [Streams -> StreamState] /\ session \in [SessionIds -> SessionState]
  BY <1>0 DEF TypeOK
<1> SUFFICES ASSUME NoneHungUp' PROVE \A c \in done' : stream'[c].reader = "over"
  BY DEF EndedByReader
<1>2. \A c \in done : stream[c].reader = "over"
  BY <1>0, HungUpStays DEF EndedByReader
<1>3. done \subseteq Streams
  BY <1>0 DEF TypeOK
<1>4. ASSUME NEW r \in Requests, RequestStep(r) PROVE UNCHANGED <<done, stream>>
  BY <1>4, RequestFrame DEF streams, sockets
<1>5. ASSUME NEW s \in SessionIds, CloseStep(s) PROVE UNCHANGED <<done, stream>>
  <2>1. ~CloseHangUp(s)
    BY <1>1 DEF NoneHungUp, CloseHangUp, ClosePhase, HungUp, SessionState
  <2> QED
    BY <1>5, <2>1 DEF CloseStep, CloseBegin, CloseStop, CloseRemove, CloseEvents,
      streams, sockets
<1>6. ASSUME NEW c \in Streams, StreamStep(c)
      PROVE  \A d \in done' : stream'[d].reader = "over"
  <2>1. CASE HandlerStep(c)
    BY <1>0, <1>2, <1>3, <2>1, HandlerEffect
  <2>2. CASE ReadEnd(c)
    BY <1>1, <1>2, <1>3, <2>2 DEF ReadEnd, StreamState
  <2>3. CASE StreamOpen(c)
    <3>1. c \notin done
      BY <1>0, <1>2, <2>3 DEF StreamOpen, HandlerAt, StreamSessions
    <3> QED  BY <1>1, <1>2, <1>3, <2>3, <3>1 DEF StreamOpen
  <2>4. CASE ReadMessage(c) \/ ReaderStep(c)
    <3>1. c \notin done
      BY <1>2, <2>4 DEF ReadMessage, Messages, ReaderStep, StartLookup, StartCreate, DTMFEmit,
        MediaSend, ReaderAt
    <3>2. done' = done
      BY <2>4 DEF ReadMessage, Messages, ReaderStep, StartLookup, StartCreate, DTMFEmit,
        MediaSend, sockets
    <3>3. \A d \in Streams \ {c} : stream'[d] = stream[d]
      BY <1>1, <2>4 DEF ReadMessage, Messages, ReaderStep, StartLookup, StartCreate, DTMFEmit,
        MediaSend
    <3> QED  BY <1>2, <1>3, <3>1, <3>2, <3>3
  <2>5. CASE \/ SessionTimeout(c) \/ TurnBegin(c) \/ LoopExit(c) \/ TurnStep(c)
             \/ ForwardStep(c)
    BY <1>2, <2>5 DEF SessionTimeout, TurnBegin, LoopExit, TurnStep, TurnEmitPanic,
      TurnSendPanic, TurnEnd, ForwardStep, ForwarderReturn, ForwarderEmitPanic, streams,
      sockets
  <2> QED  BY <1>6, <2>1, <2>2, <2>3, <2>4, <2>5 DEF StreamStep
<1> QED  BY <1>2, <1>4, <1>5, <1>6, NextCases

\* Every step leaves whoever emits with a session.
LEMMA EmitsStep ==
  ASSUME OnceInv, EmitsForSession, Next
  PROVE  EmitsForSession'
<1>0. TypeOK /\ SIDInHand /\ StreamSessions
  BY DEF OnceInv, RegistryInv
<1>1. stream \in [Streams -> StreamState] /\ req \in [Requests -> RequestState]
  BY <1>0 DEF TypeOK
<1> DEFINE Busy(c) == \/ c \in looping \cup answering
                      \/ \E f \in Forwarders : <<c, f>> \in forwarding
                      \/ stream[c].reader \in {"dtmf", "media"}
           InUse == \A c \in Streams : Busy(c) => stream[c].session # None
           Held == \A r \in Requests :
                     req[r].pc \in {"holding", "typing"} => req[r].session # None
<1>2. InUse /\ Held
  BY DEF EmitsForSession
<1>3. ASSUME NEW r \in Requests, RequestStep(r) PROVE InUse' /\ Held'
  <2>1. InUse'
    <3>1. UNCHANGED <<stream, looping, answering, forwarding>>
      BY <1>3, RequestFrame DEF streams, workers
    <3> QED  BY <1>2, <3>1
  <2>2. \A q \in Requests \ {r} : req'[q] = req[q]
    BY <1>1, <1>3
       DEF RequestStep, WebhookStep, CallbackStep, AppStep, StopStep, InboundArrive,
           InboundCreate, InboundAccept, InboundReject, StatusReport, StatusLookup,
           StatusEmit, CloseReturn, MakeCallPlace, MakeCallReturn, AppGetSession,
           AppInterrupt, AppSendText, TypedStep, TypedEnd, TypedPanic, AppClose,
           StopLock, StopSweep, StopReset, StopShutdown
  <2>3. req'[r].pc \in {"holding", "typing"} => req'[r].session # None
    <3>1. CASE AppGetSession(r)
      BY <1>1, <3>1, NoneAssumption DEF AppGetSession, RequestState
    <3>2. CASE AppStep(r)
      BY <1>1, <1>2, <3>2
         DEF AppStep, CloseReturn, AppInterrupt, AppSendText, TypedStep, TypedEnd,
             TypedPanic, AppClose, At, RequestState
    <3>3. CASE InboundArrive(r) \/ WebhookStep(r) \/ MakeCallPlace(r) \/ MakeCallReturn(r)
      BY <1>1, <3>3
         DEF InboundArrive, WebhookStep, InboundCreate, InboundAccept, InboundReject,
             MakeCallPlace, MakeCallReturn, RequestState
    <3>4. CASE StatusReport(r) \/ CallbackStep(r)
      BY <1>1, <3>4
         DEF StatusReport, CallbackStep, StatusLookup, StatusEmit, CloseReturn,
             RequestState
    <3>5. CASE StopLock(r) \/ StopStep(r)
      BY <1>1, <1>2, <3>5
         DEF StopLock, StopStep, StopSweep, StopReset, StopShutdown, CloseReturn,
             RequestState
    <3> QED  BY <1>3, <3>1, <3>2, <3>3, <3>4, <3>5 DEF RequestStep
  <2> QED  BY <1>2, <2>1, <2>2, <2>3
<1>4. ASSUME NEW s \in SessionIds, CloseStep(s) PROVE InUse' /\ Held'
  <2>1. UNCHANGED <<req, stream, looping, answering, forwarding>>
    BY <1>4, CloseFrame
       DEF CloseStep, CloseBegin, CloseStop, CloseHangUp, CloseRemove, CloseEvents,
           streams, workers
  <2> QED  BY <1>2, <2>1
<1>5. ASSUME NEW c \in Streams, StreamStep(c) PROVE InUse' /\ Held'
  <2>1. Held'
    BY <1>2, <1>5, StreamFrame
  <2> SUFFICES InUse'
    BY <2>1
  <2>2. CASE HandlerStep(c)
    BY <1>0, <1>2, <2>2, HandlerEffect
  <2>3. CASE StreamOpen(c) \/ ReadMessage(c) \/ ReadEnd(c) \/ DTMFEmit(c) \/ MediaSend(c)
    <3>1. UNCHANGED <<looping, answering, forwarding>>
      BY <2>3 DEF StreamOpen, ReadMessage, Messages, ReadEnd, DTMFEmit, MediaSend, workers
    <3>2. /\ \A d \in Streams : stream'[d].session = stream[d].session
          /\ \A d \in Streams \ {c} : stream'[d].reader = stream[d].reader
          /\ stream'[c].reader \in {"dtmf", "media"} => stream[c].session # None
      <4>1. CASE StreamOpen(c)
        BY <1>1, <4>1 DEF StreamOpen, StreamState
      <4>2. CASE ReadMessage(c)
        BY <1>1, <4>2 DEF ReadMessage, Messages, StreamState
      <4>3. CASE ReadEnd(c) \/ DTMFEmit(c) \/ MediaSend(c)
        BY <1>1, <4>3 DEF ReadEnd, DTMFEmit, MediaSend, StreamState
      <4> QED  BY <2>3, <4>1, <4>2, <4>3
    <3> QED  BY <1>2, <3>1, <3>2
  <2>4. CASE StartLookup(c) \/ StartCreate(c)
    <3>1. UNCHANGED <<looping, answering, forwarding>>
      BY <2>4 DEF StartLookup, StartCreate, workers
    <3>2. stream[c].session = None
      BY <1>0, <2>4 DEF StartLookup, StartCreate, ReaderAt, StreamSessions
    <3>3. /\ \A d \in Streams \ {c} : stream'[d] = stream[d]
          /\ stream'[c].reader \in {"creating", "reading"}
      BY <1>0, <2>4, StartFrame, LookupEffect, StartCreateEffect
    <3> QED  BY <1>2, <3>1, <3>2, <3>3
  <2>5. CASE SessionTimeout(c) \/ TurnBegin(c) \/ LoopExit(c) \/ TurnStep(c)
    <3>1. stream' = stream /\ forwarding' = forwarding
      BY <2>5 DEF SessionTimeout, TurnBegin, LoopExit, TurnStep, TurnEmitPanic,
        TurnSendPanic, TurnEnd, streams, workers
    <3>2. looping' \cup answering' \subseteq looping \cup answering
      BY <2>5 DEF SessionTimeout, TurnBegin, LoopExit, TurnStep, TurnEmitPanic,
        TurnSendPanic, TurnEnd, streams, workers
    <3> QED  BY <1>2, <3>1, <3>2
  <2>6. CASE ForwardStep(c)
    <3>1. UNCHANGED <<stream, looping, answering>> /\ forwarding' \subseteq forwarding
      BY <2>6 DEF ForwardStep, ForwarderReturn, ForwarderEmitPanic, streams, workers
    <3> QED  BY <1>2, <3>1
  <2> QED  BY <1>5, <2>2, <2>3, <2>4, <2>5, <2>6 DEF StreamStep, ReaderStep
<1> HIDE DEF InUse, Held
<1>6. InUse' /\ Held'
  BY <1>3, <1>4, <1>5, NextCases
<1> QED  BY <1>6 DEF EmitsForSession, InUse, Held

\* Every step leaves a realtime gateway without pipelines.
LEMMA NoTurnsStep ==
  ASSUME OnceInv, EmitsForSession, RealtimeHasNoTurns, Next
  PROVE  RealtimeHasNoTurns'
<1>0. TypeOK /\ SIDInHand /\ StreamSessions
  BY DEF OnceInv, RegistryInv
<1>1. /\ stream \in [Streams -> StreamState] /\ req \in [Requests -> RequestState]
      /\ session \in [SessionIds -> SessionState]
  BY <1>0 DEF TypeOK
<1> SUFFICES ASSUME mode = "realtime"
             PROVE  /\ looping' = {} /\ answering' = {}
                    /\ \A s \in SessionIds : session'[s].pipeline = None
                    /\ \A r \in Requests : req'[r].pc # "typing"
  BY ModeStays DEF RealtimeHasNoTurns
<1>2. /\ looping = {} /\ answering = {}
      /\ \A s \in SessionIds : session[s].pipeline = None
      /\ \A r \in Requests : req[r].pc # "typing"
  BY DEF RealtimeHasNoTurns
<1>3. ASSUME NEW s \in SessionIds, NEW x, CreateSession(s, x)
      PROVE  \A z \in SessionIds : session'[z].pipeline = None
  BY <1>1, <1>2, <1>3 DEF CreateSession, SessionState
<1>4. ASSUME NEW r \in Requests, RequestStep(r)
      PROVE  /\ UNCHANGED <<looping, answering>>
             /\ \A s \in SessionIds : session'[s].pipeline = None
             /\ \A q \in Requests : req'[q].pc # "typing"
  <2>1. UNCHANGED <<looping, answering>>
    BY <1>4, RequestFrame DEF streams, workers
  <2>2. \/ session' = session
        \/ \E s \in SessionIds : CreateSession(s, req[r].sid)
    BY <1>4
       DEF RequestStep, WebhookStep, CallbackStep, AppStep, StopStep, InboundArrive,
           InboundCreate, InboundAccept, InboundReject, StatusReport, StatusLookup,
           StatusEmit, CloseReturn, MakeCallPlace, MakeCallReturn, AppGetSession,
           AppInterrupt, AppSendText, TypedStep, TypedEnd, TypedPanic, AppClose,
           StopLock, StopSweep, StopReset, StopShutdown
  <2>3. \A s \in SessionIds : session'[s].pipeline = None
    BY <1>2, <1>3, <2>2
  <2>4. CASE AppGetSession(r) \/ AppStep(r)
    <3>1. ~TypedStep(r)
      BY <1>2 DEF TypedStep, TypedEnd, TypedPanic, At
    <3>2. AppSendText(r) => session[req[r].session].pipeline = None
      <4>1. AppSendText(r) => req[r].session \in SessionIds
        BY <1>1, <1>4 DEF AppSendText, At, EmitsForSession, RequestState
      <4> QED  BY <1>2, <4>1
    <3>3. \A q \in Requests : req'[q].pc # "typing"
      BY <1>1, <1>2, <2>4, <3>1, <3>2
         DEF AppGetSession, AppStep, CloseReturn, AppInterrupt, AppSendText, AppClose,
             RequestState
    <3> QED  BY <2>1, <2>3, <3>3
  <2>5. CASE InboundArrive(r) \/ WebhookStep(r) \/ MakeCallPlace(r) \/ MakeCallReturn(r)
    <3>1. \A q \in Requests : req'[q].pc # "typing"
      BY <1>1, <1>2, <2>5
         DEF InboundArrive, WebhookStep, InboundCreate, InboundAccept, InboundReject,
             MakeCallPlace, MakeCallReturn, RequestState
    <3> QED  BY <2>1, <2>3, <3>1
  <2>6. CASE StatusReport(r) \/ CallbackStep(r)
    <3>1. \A q \in Requests : req'[q].pc # "typing"
      BY <1>1, <1>2, <2>6
         DEF StatusReport, CallbackStep, StatusLookup, StatusEmit, CloseReturn,
             RequestState
    <3> QED  BY <2>1, <2>3, <3>1
  <2>7. CASE StopLock(r) \/ StopStep(r)
    <3>1. \A q \in Requests : req'[q].pc # "typing"
      BY <1>1, <1>2, <2>7
         DEF StopLock, StopStep, StopSweep, StopReset, StopShutdown, CloseReturn,
             RequestState
    <3> QED  BY <2>1, <2>3, <3>1
  <2> QED  BY <1>4, <2>4, <2>5, <2>6, <2>7 DEF RequestStep
<1>5. ASSUME NEW s \in SessionIds, CloseStep(s)
      PROVE  /\ UNCHANGED <<req, looping, answering>>
             /\ \A z \in SessionIds : session'[z].pipeline = None
  <2>1. UNCHANGED <<req, looping, answering>>
    BY <1>5, CloseFrame
       DEF CloseStep, CloseBegin, CloseStop, CloseHangUp, CloseRemove, CloseEvents,
           streams, workers
  <2>2. \E p, q : ClosePhase(s, p, q)
    BY <1>5 DEF CloseStep, CloseBegin, CloseStop, CloseHangUp, CloseRemove, CloseEvents
  <2> QED  BY <1>1, <1>2, <2>1, <2>2 DEF ClosePhase, SessionState
<1>6. ASSUME NEW c \in Streams, StreamStep(c)
      PROVE  /\ UNCHANGED <<req, looping, answering>>
             /\ \A s \in SessionIds : session'[s].pipeline = None
  <2>1. req' = req
    BY <1>6, StreamFrame
  <2>2. CASE HandlerStep(c)
    <3>1. UNCHANGED <<looping, answering>>
      BY <1>0, <2>2, HandlerEffect
    <3>2. \/ session' = session
          \/ session' = [session EXCEPT ![stream[c].session].conn = c]
          \/ session' = [session EXCEPT ![stream[c].session].provider = c]
      BY <2>2
         DEF HandlerStep, HandlerGiveUp, HandlerAttach, HandlerBuild, HandlerInstall,
             HandlerAnnounce, PipelineStart, GreetingEnd, PipelineReturn, HandlerDrain,
             ProviderInstall, BridgeStart, RealtimeAnnounce, RealtimeReturn, EmitThen
    <3>3. \A s \in SessionIds : session'[s].pipeline = None
      BY <1>1, <1>2, <3>2 DEF SessionState
    <3> QED  BY <2>1, <3>1, <3>3
  <2>3. CASE StartCreate(c)
    BY <1>2, <1>3, <2>1, <2>3 DEF StartCreate, workers
  <2>4. CASE \/ StreamOpen(c) \/ ReadMessage(c) \/ ReadEnd(c) \/ StartLookup(c)
             \/ DTMFEmit(c) \/ MediaSend(c)
    BY <1>2, <2>1, <2>4
       DEF StreamOpen, ReadMessage, Messages, ReadEnd, StartLookup, DTMFEmit, MediaSend, workers
  <2>5. CASE \/ SessionTimeout(c) \/ TurnBegin(c) \/ LoopExit(c) \/ TurnStep(c)
             \/ ForwardStep(c)
    BY <1>2, <2>1, <2>5
       DEF SessionTimeout, TurnBegin, LoopExit, TurnStep, TurnEmitPanic, TurnSendPanic,
           TurnEnd, ForwardStep, ForwarderReturn, ForwarderEmitPanic, streams, workers
  <2> QED  BY <1>6, <2>2, <2>3, <2>4, <2>5 DEF StreamStep, ReaderStep
<1> QED  BY <1>2, <1>4, <1>5, <1>6, NextCases

\* Every step that kills the process has a session that hung up to blame, or is
\* a text pipeline's.
LEMMA EndSafeStep ==
  ASSUME EndInv, Next
  PROVE  RemoteEndIsSafe'
<1>0. TypeOK /\ SIDInHand
  BY DEF EndInv, OnceInv, RegistryInv
<1>1. stream \in [Streams -> StreamState] /\ req \in [Requests -> RequestState]
  BY <1>0 DEF TypeOK
<1> DEFINE Excused == IF mode = "realtime" THEN {"none"} ELSE {"none", "send", "context"}
<1> SUFFICES ASSUME NoneHungUp' PROVE fatal' \in Excused
  BY ModeStays DEF RemoteEndIsSafe, NoneHungUp
<1>2. NoneHungUp /\ fatal \in Excused
  BY <1>0, HungUpStays DEF EndInv, RemoteEndIsSafe, NoneHungUp
<1>3. \A s \in SessionIds : EventsOpen(s)
  BY <1>2 DEF NoneHungUp, HungUp, EventsOpen
<1>4. ASSUME NEW r \in Requests, RequestStep(r) PROVE fatal' \in Excused
  <2>1. req[r].pc \in {"holding", "typing"} => req[r].session \in SessionIds
    BY <1>1 DEF EndInv, EmitsForSession, RequestState
  <2>2. CASE AppInterrupt(r)
    BY <1>2, <1>3, <2>1, <2>2 DEF AppInterrupt, At, FatalUnlessOpen
  <2>3. CASE TypedPanic(r)
    <3>1. mode # "realtime"
      BY <2>3 DEF TypedPanic, At, EndInv, RealtimeHasNoTurns
    <3> QED  BY <1>3, <2>1, <2>3, <3>1 DEF TypedPanic, At
  <2>4. CASE ~AppInterrupt(r) /\ ~TypedPanic(r)
    <3>1. fatal' = fatal
      BY <1>4, <2>4
         DEF RequestStep, WebhookStep, CallbackStep, AppStep, StopStep, InboundArrive,
             InboundCreate, InboundAccept, InboundReject, StatusReport, StatusLookup,
             StatusEmit, CloseReturn, MakeCallPlace, MakeCallReturn, AppGetSession,
             AppSendText, TypedStep, TypedEnd, AppClose, StopLock, StopSweep,
             StopReset, StopShutdown
    <3> QED  BY <1>2, <3>1
  <2> QED  BY <2>2, <2>3, <2>4
<1>5. ASSUME NEW s \in SessionIds, CloseStep(s) PROVE fatal' \in Excused
  BY <1>2, <1>5, CloseFrame
<1>6. ASSUME NEW c \in Streams, StreamStep(c) PROVE fatal' \in Excused
  <2>0. (\/ c \in looping \cup answering
         \/ <<c, "events">> \in forwarding
         \/ stream[c].reader \in {"dtmf", "media"}) => EventsOpen(stream[c].session)
    <3>1. "events" \in Forwarders /\ stream[c].session \in SessionIds \cup {None}
      BY <1>1 DEF Forwarders, StreamState
    <3> QED  BY <1>3, <3>1 DEF EndInv, EmitsForSession
  <2>1. CASE HandlerStep(c)
    BY <1>0, <1>2, <2>1, HandlerEffect DEF EndInv, OnceInv
  <2>2. CASE DTMFEmit(c) \/ TurnBegin(c)
    BY <1>2, <2>0, <2>2 DEF DTMFEmit, TurnBegin, ReaderAt, FatalUnlessOpen
  <2>3. CASE MediaSend(c)
    <3>1. c \notin done
      BY <1>2, <2>3 DEF MediaSend, ReaderAt, EndInv, EndedByReader
    <3> QED  BY <1>2, <2>3, <3>1 DEF MediaSend
  <2>4. CASE TurnStep(c)
    <3>1. c \in answering /\ mode # "realtime"
      BY <2>4 DEF TurnStep, TurnEmitPanic, TurnSendPanic, TurnEnd, EndInv,
        RealtimeHasNoTurns
    <3> QED  BY <1>2, <2>0, <2>4, <3>1 DEF TurnStep, TurnEmitPanic, TurnSendPanic, TurnEnd
  <2>5. CASE ForwardStep(c)
    BY <1>2, <2>0, <2>5 DEF ForwardStep, ForwarderReturn, ForwarderEmitPanic
  <2>6. CASE \/ StreamOpen(c) \/ ReadMessage(c) \/ ReadEnd(c) \/ StartLookup(c)
             \/ StartCreate(c) \/ SessionTimeout(c) \/ LoopExit(c)
    BY <1>2, <2>6
       DEF StreamOpen, ReadMessage, Messages, ReadEnd, StartLookup, StartCreate, SessionTimeout,
           LoopExit
  <2> QED  BY <1>6, <2>1, <2>2, <2>3, <2>4, <2>5, <2>6 DEF StreamStep, ReaderStep
<1> QED  BY <1>4, <1>5, <1>6, NextCases

\* Before a Close of its own has hung up, no end of a stream and no failing
\* socket kills a realtime gateway; a text one dies in the middle of a send or of
\* a turn typed before its pipeline has started, and of nothing else.
THEOREM RemoteEndSafe == Spec => []RemoteEndIsSafe
<1>1. Init => EndInv
  BY OnceInit
     DEF Init, EndInv, EndedByReader, EmitsForSession, RealtimeHasNoTurns,
         RemoteEndIsSafe
<1>2. EndInv /\ [Next]_vars => EndInv'
  <2> SUFFICES ASSUME EndInv, [Next]_vars PROVE EndInv'
    OBVIOUS
  <2>1. OnceInv'
    BY OnceStep DEF EndInv
  <2>2. CASE Next
    BY <2>1, <2>2, EndedByReaderStep, EmitsStep, NoTurnsStep, EndSafeStep DEF EndInv
  <2>3. CASE UNCHANGED vars
    BY <2>1, <2>3
       DEF vars, streams, sockets, workers, outside, EndInv, EndedByReader, NoneHungUp,
           EmitsForSession, RealtimeHasNoTurns, RemoteEndIsSafe
  <2> QED  BY <2>2, <2>3
<1>3. EndInv => RemoteEndIsSafe
  BY DEF EndInv
<1> QED  BY <1>1, <1>2, <1>3, PTL DEF Spec

=============================================================================
