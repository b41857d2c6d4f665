------------------------ MODULE CallLifecycleProofs ------------------------
(***************************************************************************)
(* Type correctness of CallLifecycle, the safety of the session registry   *)
(* and the lock discipline of Stop, for any number of calls, sessions and  *)
(* goroutines.                                                             *)
(***************************************************************************)
EXTENDS CallLifecycle, TLAPS

ReqTyped == req \in [Requests -> RequestState]
SessionTyped == session \in [SessionIds -> SessionState]
StreamTyped == stream \in [Streams -> StreamState]

----------------------------------------------------------------------------
(* The steps that leave a variable alone.                                  *)

\* Session.Close leaves requests, media streams and Twilio's calls where they are.
LEMMA CloseFrame ==
  ASSUME NEW s \in SessionIds, CloseStep(s)
  PROVE  req' = req /\ outside' = outside /\ stream' = stream /\ fatal' = fatal
  BY DEF CloseStep, CloseBegin, CloseStop, CloseHangUp, CloseRemove, CloseEvents,
         ClosePhase, streams

\* A media stream's goroutines leave requests and Twilio's calls where they are.
LEMMA StreamFrame ==
  ASSUME NEW c \in Streams, StreamStep(c)
  PROVE  req' = req /\ outside' = outside
  BY DEF StreamStep, StreamOpen, ReadMessage, Messages, ReadEnd, ReaderStep, StartLookup,
         StartCreate, DTMFEmit, MediaSend, HandlerStep, HandlerGiveUp,
         HandlerAttach,
         HandlerBuild, HandlerInstall, HandlerAnnounce, PipelineStart, GreetingEnd,
         PipelineReturn, HandlerDrain, ProviderInstall, BridgeStart,
         RealtimeAnnounce, RealtimeReturn, HandlerGoto, EmitThen, SessionTimeout,
         TurnBegin, LoopExit, TurnStep, TurnEmitPanic, TurnSendPanic, TurnEnd,
         ForwardStep, ForwarderReturn, ForwarderEmitPanic

RequestStep(r) ==
  \/ InboundArrive(r) \/ WebhookStep(r) \/ StatusReport(r) \/ CallbackStep(r)
  \/ MakeCallPlace(r) \/ MakeCallReturn(r) \/ AppGetSession(r) \/ AppStep(r)
  \/ r \in Stoppers /\ (StopLock(r) \/ StopStep(r))

\* A request to the gateway leaves the media streams where they are.
LEMMA RequestFrame ==
  ASSUME NEW r \in Requests, RequestStep(r)
  PROVE  streams' = streams
  BY DEF RequestStep, WebhookStep, CallbackStep, AppStep, StopStep, InboundArrive,
         InboundCreate, InboundAccept, InboundReject, StatusReport, StatusLookup,
         StatusEmit, CloseReturn, MakeCallPlace, MakeCallReturn, AppGetSession,
         AppInterrupt, AppSendText, TypedStep, TypedEnd, TypedPanic, AppClose,
         StopLock, StopSweep, StopReset, StopShutdown

\* Every step belongs to a request, to a session or to a media stream.
LEMMA NextCases ==
  ASSUME Next
  PROVE  \/ \E r \in Requests : RequestStep(r)
         \/ \E s \in SessionIds : CloseStep(s)
         \/ \E c \in Streams : StreamStep(c)
  BY DEF Next, RequestStep, Requests

----------------------------------------------------------------------------
(* Types                                                                   *)

\* createSession keeps the type of the sessions.
LEMMA CreateTyped ==
  ASSUME SessionTyped, NEW s \in SessionIds, NEW x \in CallSIDs, CreateSession(s, x)
  PROVE  SessionTyped'
  <1>1. [session[s] EXCEPT !.phase = "open", !.sid = x] \in SessionState
    BY DEF SessionTyped, SessionState, Phases
  <1>2. session' = [session EXCEPT ![s] = [session[s] EXCEPT !.phase = "open", !.sid = x]]
    BY DEF CreateSession
  <1> QED BY <1>1, <1>2 DEF SessionTyped

\* A step of Close keeps the type of the sessions.
LEMMA PhaseTyped ==
  ASSUME SessionTyped, NEW s \in SessionIds, NEW p, NEW q \in Phases,
         ClosePhase(s, p, q)
  PROVE  SessionTyped'
  BY DEF SessionTyped, SessionState, ClosePhase

\* A step of handleMediaStream keeps the type of the streams.
LEMMA HandlerTyped ==
  ASSUME StreamTyped, NEW c \in Streams, NEW p, NEW q \in HandlerLabels,
         HandlerGoto(c, p, q)
  PROVE  StreamTyped'
  BY DEF StreamTyped, StreamState, HandlerGoto

\* A request that moves on with a session in hand keeps its type.
LEMMA HandTyped ==
  ASSUME ReqTyped, NEW r \in Requests, NEW l \in RequestLabels,
         NEW s \in SessionIds \cup {None},
         req' = [req EXCEPT ![r].pc = l, ![r].session = s]
  PROVE  ReqTyped'
  <1>1. req[r] \in RequestState
    BY DEF ReqTyped
  <1>2. [req[r] EXCEPT !.pc = l, !.session = s] \in RequestState
    BY <1>1 DEF RequestState
  <1>3. req' = [req EXCEPT ![r] = [req[r] EXCEPT !.pc = l, !.session = s]]
    OBVIOUS
  <1> QED BY <1>2, <1>3 DEF ReqTyped

\* A request that takes a SID in hand keeps the type of the requests.
LEMMA NamedTyped ==
  ASSUME ReqTyped, NEW r \in Requests, NEW l \in RequestLabels, NEW x \in CallSIDs,
         req' = [req EXCEPT ![r].pc = l, ![r].sid = x]
  PROVE  ReqTyped'
  <1>1. req[r] \in RequestState
    BY DEF ReqTyped
  <1>2. [req[r] EXCEPT !.pc = l, !.sid = x] \in RequestState
    BY <1>1 DEF RequestState
  <1>3. req' = [req EXCEPT ![r] = [req[r] EXCEPT !.pc = l, !.sid = x]]
    OBVIOUS
  <1> QED BY <1>2, <1>3 DEF ReqTyped

\* Every step keeps the type of the requests.
LEMMA ReqTypeStep ==
  ASSUME TypeOK, SIDInHand, NEW r \in Requests, RequestStep(r)
  PROVE  ReqTyped'
  <1> USE DEF RequestLabels, At
  <1>0. ReqTyped /\ req[r].session \in SessionIds \cup {None}
    BY DEF TypeOK, ReqTyped, RequestState
  <1>1. CASE InboundArrive(r)
    <2> PICK x \in CallSIDs : req' = [req EXCEPT ![r].pc = "arrived", ![r].sid = x]
      BY <1>1 DEF InboundArrive, TypeOK
    <2>9. "arrived" \in RequestLabels
      OBVIOUS
    <2> HIDE DEF RequestLabels
    <2> QED BY <1>0, <2>9, NamedTyped
  <1>2. CASE InboundCreate(r)
    <2> PICK s \in SessionIds : req' = [req EXCEPT ![r].pc = "created",
    ![r].session = s]
      BY <1>2 DEF InboundCreate
    <2>9. "created" \in RequestLabels
      OBVIOUS
    <2> HIDE DEF RequestLabels
    <2> QED BY <1>0, <2>9, HandTyped
  <1>3. CASE InboundAccept(r) \/ InboundReject(r)
    BY <1>0, <1>3 DEF InboundAccept, InboundReject, ReqTyped, RequestState
  <1>4. CASE StatusReport(r)
    <2> PICK x \in CallSIDs : req' = [req EXCEPT ![r].pc = "reported", ![r].sid = x]
      BY <1>4 DEF StatusReport, TypeOK
    <2>9. "reported" \in RequestLabels
      OBVIOUS
    <2> HIDE DEF RequestLabels
    <2> QED BY <1>0, <2>9, NamedTyped
  <1>5. CASE StatusLookup(r)
    <2> DEFINE found == sessions[req[r].sid]
    <2>1. found \in SessionIds \cup {None}
      BY <1>5 DEF StatusLookup, TypeOK, SIDInHand
    <2>2. PICK l \in RequestLabels :
            req' = [req EXCEPT ![r].pc = l, ![r].session = found]
      BY <1>5 DEF StatusLookup
    <2> HIDE DEF found, RequestLabels
    <2> QED BY <1>0, <2>1, <2>2, HandTyped
  <1>6. CASE StatusEmit(r) \/ CloseReturn(r)
    BY <1>0, <1>6 DEF StatusEmit, CloseReturn, ReqTyped, RequestState
  <1>7. CASE MakeCallPlace(r)
    <2> PICK x \in CallSIDs : req' = [req EXCEPT ![r].pc = "placed", ![r].sid = x]
      BY <1>7 DEF MakeCallPlace
    <2>9. "placed" \in RequestLabels
      OBVIOUS
    <2> HIDE DEF RequestLabels
    <2> QED BY <1>0, <2>9, NamedTyped
  <1>8. CASE MakeCallReturn(r)
    <2> PICK s \in SessionIds : req' = [req EXCEPT ![r].pc = "answered",
    ![r].session = s]
      BY <1>8 DEF MakeCallReturn
    <2>9. "answered" \in RequestLabels
      OBVIOUS
    <2> HIDE DEF RequestLabels
    <2> QED BY <1>0, <2>9, HandTyped
  <1>9. CASE AppGetSession(r)
    <2> PICK s \in SessionIds : req' = [req EXCEPT ![r].pc = "holding",
    ![r].session = s]
      BY <1>9 DEF AppGetSession
    <2>9. "holding" \in RequestLabels
      OBVIOUS
    <2> HIDE DEF RequestLabels
    <2> QED BY <1>0, <2>9, HandTyped
  <1>10. CASE AppInterrupt(r) \/ AppSendText(r) \/ TypedStep(r) \/ AppClose(r)
    BY <1>0, <1>10 DEF AppInterrupt, AppSendText, TypedStep, TypedEnd,
      TypedPanic, AppClose, ReqTyped, RequestState
  <1>11. CASE StopSweep(r)
    <2> PICK x \in CallSIDs :
          req' = [req EXCEPT ![r].pc = "closing", ![r].session = sessions[x]]
      BY <1>11 DEF StopSweep
    <2>1. sessions[x] \in SessionIds \cup {None}
      BY DEF TypeOK
    <2>9. "closing" \in RequestLabels
      OBVIOUS
    <2> HIDE DEF RequestLabels
    <2> QED BY <1>0, <2>1, <2>9, HandTyped
  <1>12. CASE StopLock(r) \/ StopReset(r) \/ StopShutdown(r)
    BY <1>0, <1>12 DEF StopLock, StopReset, StopShutdown, ReqTyped, RequestState
  <1> QED
    BY <1>1, <1>2, <1>3, <1>4, <1>5, <1>6, <1>7, <1>8, <1>9, <1>10, <1>11, <1>12
    DEF RequestStep, WebhookStep, CallbackStep, AppStep, StopStep

\* Every step keeps the type of the sessions.
LEMMA SessionTypeStep ==
  ASSUME TypeOK, SIDInHand, Next
  PROVE  SessionTyped'
  <1>0. SessionTyped
    BY DEF TypeOK, SessionTyped
  <1>1. ASSUME NEW r \in Requests, RequestStep(r)
        PROVE  SessionTyped'
    <2>1. CASE InboundCreate(r) \/ MakeCallReturn(r)
      <3>1. req[r].sid \in CallSIDs
        BY <2>1 DEF InboundCreate, MakeCallReturn, At, SIDInHand
      <3>2. \E s \in SessionIds : CreateSession(s, req[r].sid)
        BY <2>1 DEF InboundCreate, MakeCallReturn
      <3> QED BY <1>0, <3>1, <3>2, CreateTyped
    <2>2. CASE ~(InboundCreate(r) \/ MakeCallReturn(r))
      <3>1. session' = session
        BY <1>1, <2>2 DEF RequestStep, WebhookStep, CallbackStep, AppStep, StopStep,
          InboundArrive, InboundAccept, InboundReject, StatusReport, StatusLookup,
          StatusEmit, CloseReturn, MakeCallPlace, AppGetSession, AppInterrupt,
          AppSendText, TypedStep, TypedEnd, TypedPanic,
          AppClose, StopLock, StopSweep, StopReset, StopShutdown
      <3> QED BY <1>0, <3>1 DEF SessionTyped
    <2> QED BY <2>1, <2>2
  <1>2. ASSUME NEW s \in SessionIds, CloseStep(s)
        PROVE  SessionTyped'
    <2>1. \E p, q \in Phases : ClosePhase(s, p, q)
      BY <1>2 DEF CloseStep, CloseBegin, CloseStop, CloseHangUp, CloseRemove,
        CloseEvents, Phases
    <2> QED BY <1>0, <2>1, PhaseTyped
  <1>3. ASSUME NEW c \in Streams, StreamStep(c)
        PROVE  SessionTyped'
    <2>1. CASE StartCreate(c)
      <3>1. stream[c].sid \in CallSIDs
        BY <2>1 DEF StartCreate, ReaderAt, SIDInHand
      <3> QED BY <1>0, <2>1, <3>1, CreateTyped DEF StartCreate
    <2>2. CASE HandlerAttach(c)
      BY <1>0, <2>2 DEF HandlerAttach, SessionTyped, SessionState
    <2>3. CASE HandlerInstall(c) \/ ProviderInstall(c)
      BY <1>0, <2>3 DEF HandlerInstall, ProviderInstall, SessionTyped, SessionState
    <2>4. CASE ~(\/ StartCreate(c) \/ HandlerAttach(c) \/ HandlerInstall(c)
                 \/ ProviderInstall(c))
      <3>1. session' = session
        BY <1>3, <2>4 DEF StreamStep, StreamOpen, ReadMessage, Messages, ReadEnd, ReaderStep,
          StartLookup, DTMFEmit, MediaSend, HandlerStep, HandlerGiveUp,
          HandlerBuild,
          HandlerAnnounce, PipelineStart, GreetingEnd, PipelineReturn,
          HandlerDrain, ProviderInstall, BridgeStart, RealtimeAnnounce,
          RealtimeReturn,
          EmitThen, SessionTimeout, TurnBegin, LoopExit, TurnStep, TurnEmitPanic,
          TurnSendPanic, TurnEnd, ForwardStep, ForwarderReturn, ForwarderEmitPanic
      <3> QED BY <1>0, <3>1 DEF SessionTyped
    <2> QED BY <2>1, <2>2, <2>3, <2>4
  <1> QED BY <1>1, <1>2, <1>3, NextCases

\* A read loop that finds or makes a session writes two fields of its stream.
LEMMA FoundTyped ==
  ASSUME StreamTyped, NEW c \in Streams, NEW s \in SessionIds \cup {None},
         NEW l \in ReaderLabels,
         stream' = [stream EXCEPT ![c].session = s, ![c].reader = l]
  PROVE  StreamTyped'
  <1>1. stream[c] \in StreamState
    BY DEF StreamTyped
  <1>2. [stream[c] EXCEPT !.session = s, !.reader = l] \in StreamState
    BY <1>1 DEF StreamState
  <1>3. stream' = [stream EXCEPT ![c] = [stream[c] EXCEPT !.session = s, !.reader = l]]
    OBVIOUS
  <1> QED BY <1>2, <1>3 DEF StreamTyped

\* Every step keeps the type of the media streams.
LEMMA StreamTypeStep ==
  ASSUME TypeOK, SIDInHand, Next
  PROVE  StreamTyped'
  <1>0. StreamTyped
    BY DEF TypeOK, StreamTyped
  <1>1. ASSUME NEW r \in Requests, RequestStep(r)
        PROVE  StreamTyped'
    BY <1>0, <1>1, RequestFrame DEF StreamTyped, streams
  <1>2. ASSUME NEW s \in SessionIds, CloseStep(s)
        PROVE  StreamTyped'
    BY <1>0, <1>2, CloseFrame DEF StreamTyped
  <1>3. ASSUME NEW c \in Streams, StreamStep(c)
        PROVE  StreamTyped'
    <2> USE <1>0 DEF ReaderLabels, HandlerLabels
    <2>1. CASE StreamOpen(c)
      <3> PICK x \in CallSIDs :
            stream' = [stream EXCEPT ![c].handler = "waiting", ![c].sid = x,
                                     ![c].reader = "reading"]
        BY <2>1 DEF StreamOpen, TypeOK
      <3> DEFINE opened == [stream EXCEPT ![c].handler = "waiting"]
      <3>1. opened \in [Streams -> StreamState]
        BY DEF StreamTyped, StreamState
      <3>2. stream' = [opened EXCEPT ![c].sid = x, ![c].reader = "reading"]
        OBVIOUS
      <3> HIDE DEF opened
      <3>3. [opened[c] EXCEPT !.sid = x, !.reader = "reading"] \in StreamState
        BY <3>1 DEF StreamState
      <3>4. stream' = [opened EXCEPT ![c] = [opened[c] EXCEPT !.sid = x,
      !.reader = "reading"]]
        BY <3>2
      <3> QED BY <3>1, <3>3, <3>4 DEF StreamTyped
    <2>2. CASE ReadMessage(c) \/ ReadEnd(c) \/ DTMFEmit(c) \/ MediaSend(c)
      BY <2>2 DEF ReadMessage, Messages, ReadEnd, DTMFEmit, MediaSend, StreamTyped,
        StreamState
    <2>3. CASE StartLookup(c)
      <3> DEFINE found == sessions[stream[c].sid]
      <3>1. found \in SessionIds \cup {None}
        BY <2>3 DEF StartLookup, ReaderAt, SIDInHand, TypeOK
      <3>2. PICK l \in ReaderLabels :
              stream' = [stream EXCEPT ![c].session = found, ![c].reader = l]
        BY <2>3 DEF StartLookup
      <3> HIDE DEF found
      <3> QED BY <1>0, <3>1, <3>2, FoundTyped
    <2>4. CASE StartCreate(c)
      <3> PICK s \in SessionIds :
            stream' = [stream EXCEPT ![c].session = s, ![c].reader = "reading"]
        BY <2>4 DEF StartCreate
      <3> QED BY <1>0, FoundTyped
    <2>5. CASE HandlerGiveUp(c)
      BY <2>5 DEF HandlerGiveUp, StreamTyped, StreamState
    <2>6. CASE HandlerStep(c) /\ ~HandlerGiveUp(c)
      <3>1. \E p, q \in HandlerLabels : HandlerGoto(c, p, q)
        BY <2>6 DEF HandlerStep, HandlerAttach, HandlerBuild, HandlerInstall,
          HandlerAnnounce, PipelineStart, GreetingEnd, PipelineReturn,
          HandlerDrain, ProviderInstall, BridgeStart, RealtimeAnnounce,
          RealtimeReturn,
          EmitThen
      <3>2. PICK p, q \in HandlerLabels : HandlerGoto(c, p, q)
        BY <3>1
      <3> QED BY <1>0, <3>2, HandlerTyped
    <2>7. CASE \/ SessionTimeout(c) \/ TurnBegin(c) \/ LoopExit(c) \/ TurnStep(c)
               \/ ForwardStep(c)
      BY <2>7 DEF SessionTimeout, TurnBegin, LoopExit, TurnStep, TurnEmitPanic,
        TurnSendPanic, TurnEnd, ForwardStep, ForwarderReturn, ForwarderEmitPanic,
        streams, StreamTyped
    <2> QED
      BY <1>3, <2>1, <2>2, <2>3, <2>4, <2>5, <2>6, <2>7 DEF StreamStep, ReaderStep
  <1> QED BY <1>1, <1>2, <1>3, NextCases

\* The variables that are not arrays of records.
RestTyped ==
  /\ mu \in Stoppers \cup {None}
  /\ sessions \in [CallSIDs -> SessionIds \cup {None}]
  /\ calls \subseteq CallSIDs
  /\ serving \in BOOLEAN
  /\ ringing \subseteq CallSIDs
  /\ connectable \subseteq CallSIDs
  /\ mode \in {"text", "realtime"}
  /\ fatal \in {"none", "emit", "send", "media", "context"}

SetsTyped ==
  /\ up \subseteq Streams /\ done \subseteq Streams
  /\ stopped \subseteq Streams /\ cancelled \subseteq Streams
  /\ released \subseteq Streams /\ ready \subseteq Streams
  /\ looping \subseteq Streams /\ answering \subseteq Streams
  /\ forwarding \subseteq Streams \X Forwarders

\* Every step keeps the type of the sets of goroutines and faults.
LEMMA SetsTypeStep ==
  ASSUME TypeOK, Next
  PROVE  SetsTyped'
  <1>0. SetsTyped
    BY DEF TypeOK, SetsTyped
  <1>1. ASSUME NEW r \in Requests, RequestStep(r)
        PROVE  SetsTyped'
    BY <1>0, <1>1, RequestFrame DEF SetsTyped, streams, sockets, contexts, workers
  <1>2. ASSUME NEW s \in SessionIds, CloseStep(s)
        PROVE  SetsTyped'
    <2>1. session[s].pipeline \in Streams \cup {None}
          /\ session[s].conn \in Streams \cup {None}
          /\ session[s].provider \in Streams \cup {None}
      BY DEF TypeOK, SessionState
    <2> QED
      BY <1>0, <1>2, <2>1 DEF CloseStep, CloseBegin, CloseStop, CloseHangUp,
        CloseRemove, CloseEvents, SetsTyped, streams, sockets, contexts, workers
  <1>3. ASSUME NEW c \in Streams, StreamStep(c)
        PROVE  SetsTyped'
    <2>1. CASE HandlerStep(c)
      <3>1. HandlerGiveUp(c) \/ \E p, q \in HandlerLabels : HandlerGoto(c, p, q)
        BY <2>1 DEF HandlerStep, HandlerAttach, HandlerBuild, HandlerInstall,
          HandlerAnnounce, PipelineStart, GreetingEnd, PipelineReturn,
          HandlerDrain, ProviderInstall, BridgeStart, RealtimeAnnounce,
          RealtimeReturn,
          EmitThen, HandlerLabels
      <3> QED
        BY <1>0, <3>1 DEF HandlerGiveUp, HandlerGoto, SetsTyped, sockets, contexts,
          workers
    <2>2. CASE ~HandlerStep(c)
      BY <1>0, <1>3, <2>2 DEF StreamStep, StreamOpen, ReadMessage, Messages, ReadEnd,
        ReaderStep, StartLookup, StartCreate, DTMFEmit, MediaSend,
        SessionTimeout, TurnBegin,
        LoopExit, TurnStep, TurnEmitPanic, TurnSendPanic, TurnEnd, ForwardStep,
        ForwarderReturn, ForwarderEmitPanic, SetsTyped,
        streams, sockets, contexts, workers
    <2> QED BY <2>1, <2>2
  <1> QED BY <1>1, <1>2, <1>3, NextCases

\* The steps that write the session map, and what they write.
LEMMA MapSteps ==
  ASSUME TypeOK, SIDInHand, Next
  PROVE  \/ sessions' = sessions
         \/ \E s \in SessionIds, x \in CallSIDs : CreateSession(s, x)
         \/ /\ MuFree
            /\ session' = session
            /\ \E x \in CallSIDs : sessions' = [sessions EXCEPT ![x] = None]
         \/ \E s \in SessionIds : CloseRemove(s)
         \/ sessions' = [x \in CallSIDs |-> None] /\ session' = session /\ mu' = None
  <1>1. ASSUME NEW r \in Requests, RequestStep(r), sessions' # sessions
        PROVE  \/ \E s \in SessionIds, x \in CallSIDs : CreateSession(s, x)
               \/ /\ MuFree
                  /\ session' = session
                  /\ \E x \in CallSIDs : sessions' = [sessions EXCEPT ![x] = None]
               \/ sessions' = [x \in CallSIDs |-> None] /\ session' = session /\ mu' = None
    <2>1. InboundCreate(r) \/ MakeCallReturn(r) \/ InboundReject(r) \/ StopReset(r)
      BY <1>1 DEF RequestStep, WebhookStep, CallbackStep, AppStep, StopStep,
        InboundArrive, InboundAccept, StatusReport, StatusLookup, StatusEmit,
        CloseReturn, MakeCallPlace, AppGetSession, AppInterrupt, AppSendText,
        TypedStep, TypedEnd, TypedPanic, AppClose, StopLock,
        StopSweep, StopShutdown, registry
    <2>2. req[r].pc \in {"arrived", "created", "placed"} => req[r].sid \in CallSIDs
      BY DEF SIDInHand
    <2> QED
      BY <2>1, <2>2 DEF InboundCreate, MakeCallReturn, InboundReject, RemoveSession,
        StopReset, At
  <1>2. ASSUME NEW s \in SessionIds, CloseStep(s)
        PROVE  sessions' = sessions \/ CloseRemove(s)
    BY <1>2 DEF CloseStep, CloseBegin, CloseStop, CloseHangUp, CloseEvents, registry
  <1>3. ASSUME NEW c \in Streams, StreamStep(c), sessions' # sessions
        PROVE  \E s \in SessionIds, x \in CallSIDs : CreateSession(s, x)
    <2>1. StartCreate(c)
      BY <1>3 DEF StreamStep, StreamOpen, ReadMessage, Messages, ReadEnd,
        ReaderStep, StartLookup, DTMFEmit, MediaSend, HandlerStep, HandlerGiveUp, HandlerAttach,
        HandlerBuild, HandlerInstall, HandlerAnnounce, PipelineStart, GreetingEnd,
        PipelineReturn, HandlerDrain, ProviderInstall, BridgeStart,
        RealtimeAnnounce, RealtimeReturn, HandlerGoto, EmitThen, SessionTimeout,
        TurnBegin, LoopExit, TurnStep, TurnEmitPanic, TurnSendPanic, TurnEnd,
        ForwardStep, ForwarderReturn, ForwarderEmitPanic, registry
    <2>2. stream[c].sid \in CallSIDs
      BY <2>1 DEF StartCreate, ReaderAt, SIDInHand
    <2> QED BY <2>1, <2>2 DEF StartCreate
  <1> QED BY <1>1, <1>2, <1>3, NextCases

\* Every step keeps the type of the map, its lock and what requests hold.
LEMMA RestTypeStep ==
  ASSUME TypeOK, SIDInHand, Next
  PROVE  RestTyped'
  <1>0. RestTyped
    BY DEF TypeOK, RestTyped
  <1>1. sessions' \in [CallSIDs -> SessionIds \cup {None}]
    BY <1>0, MapSteps DEF RestTyped, CreateSession, CloseRemove, RemoveSession
  <1>2. ASSUME NEW r \in Requests, RequestStep(r)
        PROVE  /\ mu' \in Stoppers \cup {None}
               /\ calls' \subseteq CallSIDs
               /\ serving' \in BOOLEAN
               /\ ringing' \subseteq CallSIDs
               /\ connectable' \subseteq CallSIDs
               /\ mode' = mode
               /\ fatal' \in {"none", "emit", "send", "media", "context"}
    <2>1. req[r].pc \in {"arrived", "created", "placed"} => req[r].sid \in CallSIDs
      BY DEF SIDInHand
    <2> QED
      BY <1>0, <1>2, <2>1 DEF RestTyped, RequestStep, WebhookStep, CallbackStep,
        AppStep, StopStep, InboundArrive, InboundCreate, InboundAccept,
        InboundReject,
        StatusReport, StatusLookup, StatusEmit, CloseReturn, MakeCallPlace,
        MakeCallReturn, AppGetSession, AppInterrupt, AppSendText, TypedStep,
        TypedEnd, TypedPanic, AppClose, StopLock, StopSweep,
        StopReset, StopShutdown, CreateSession, RemoveSession, FatalUnlessOpen,
        registry, outside, At
  <1>3. ASSUME NEW s \in SessionIds, CloseStep(s)
        PROVE  UNCHANGED <<mu, calls, serving, mode, ringing, connectable, fatal>>
    BY <1>3, CloseFrame DEF CloseStep, CloseBegin, CloseStop, CloseHangUp,
      CloseRemove, CloseEvents, RemoveSession, registry, outside
  <1>4. ASSUME NEW c \in Streams, StreamStep(c)
        PROVE  /\ UNCHANGED <<mu, calls, serving, mode, ringing, connectable>>
               /\ fatal' \in {"none", "emit", "send", "media", "context"}
    BY <1>0, <1>4 DEF RestTyped, StreamStep, StreamOpen, ReadMessage, Messages, ReadEnd,
      ReaderStep, StartLookup, StartCreate, CreateSession, DTMFEmit, MediaSend,
      HandlerStep,
      HandlerGiveUp, HandlerAttach, HandlerBuild, HandlerInstall, HandlerAnnounce,
      PipelineStart, GreetingEnd, PipelineReturn, HandlerDrain, ProviderInstall,
      BridgeStart, RealtimeAnnounce, RealtimeReturn, HandlerGoto,
      EmitThen, SessionTimeout, TurnBegin, LoopExit, TurnStep, TurnEmitPanic,
      TurnSendPanic, TurnEnd, ForwardStep, ForwarderReturn, ForwarderEmitPanic,
      FatalUnlessOpen, registry, outside
  <1> QED BY <1>0, <1>1, <1>2, <1>3, <1>4, NextCases DEF RestTyped

\* A goroutine that is to use a SID has one.
LEMMA SIDInHandStep ==
  ASSUME TypeOK, SIDInHand, Next
  PROVE  SIDInHand'
  <1>1. ASSUME NEW r \in Requests, RequestStep(r)
        PROVE  SIDInHand'
    <2>1. req \in [Requests -> RequestState] /\ stream' = stream
      BY <1>1, RequestFrame DEF TypeOK, streams
    <2>2. \A q \in Requests : q # r => req'[q] = req[q]
      BY <1>1, <2>1 DEF RequestStep, WebhookStep, CallbackStep, AppStep, StopStep,
        InboundArrive, InboundCreate, InboundAccept, InboundReject, StatusReport,
        StatusLookup, StatusEmit, CloseReturn, MakeCallPlace, MakeCallReturn,
        AppGetSession, AppInterrupt, AppSendText, TypedStep, TypedEnd,
        TypedPanic, AppClose, StopLock, StopSweep, StopReset,
        StopShutdown
    <2>3. req'[r].pc \in {"arrived", "created", "placed", "reported"}
            => req'[r].sid \in CallSIDs
      BY <1>1, <2>1, SMTT(30) DEF RequestStep, WebhookStep, CallbackStep, AppStep, StopStep,
        InboundArrive, InboundCreate, InboundAccept, InboundReject, StatusReport,
        StatusLookup, StatusEmit, CloseReturn, MakeCallPlace, MakeCallReturn,
        AppGetSession, AppInterrupt, AppSendText, TypedStep, TypedEnd,
        TypedPanic, AppClose, StopLock, StopSweep, StopReset,
        StopShutdown, At, SIDInHand, RequestState, TypeOK
    <2> QED BY <2>1, <2>2, <2>3 DEF SIDInHand
  <1>2. ASSUME NEW s \in SessionIds, CloseStep(s)
        PROVE  SIDInHand'
    BY <1>2, CloseFrame DEF SIDInHand
  <1>3. ASSUME NEW c \in Streams, StreamStep(c)
        PROVE  SIDInHand'
    <2>1. stream \in [Streams -> StreamState]
      BY DEF TypeOK
    <2>2. stream' = stream \/ \E z : stream' = [stream EXCEPT ![c] = z]
      BY <1>3, <2>1, ZenonT(60) DEF StreamStep, StreamOpen, ReadMessage, Messages, ReadEnd,
        ReaderStep, StartLookup, StartCreate, DTMFEmit, MediaSend, HandlerStep, HandlerGiveUp,
        HandlerAttach, HandlerBuild, HandlerInstall, HandlerAnnounce, PipelineStart,
        GreetingEnd, PipelineReturn, HandlerDrain, ProviderInstall, BridgeStart,
        RealtimeAnnounce, RealtimeReturn, HandlerGoto, EmitThen,
        SessionTimeout, TurnBegin, LoopExit, TurnStep, TurnEmitPanic, TurnSendPanic,
        TurnEnd, ForwardStep, ForwarderReturn, ForwarderEmitPanic, streams
    <2>3. stream'[c].reader # "idle" => stream'[c].sid \in CallSIDs
      <3>1. CASE StreamOpen(c)
        BY <2>1, <3>1 DEF StreamOpen, TypeOK, StreamState
      <3>2. CASE ~StreamOpen(c)
        <4>1. \/ stream' = stream
              \/ \E l \in HandlerLabels : stream' = [stream EXCEPT ![c].handler = l]
              \/ ReaderStep(c) \/ ReadMessage(c) \/ ReadEnd(c)
          BY <1>3, <3>2 DEF StreamStep, HandlerStep, HandlerGiveUp, HandlerAttach,
            HandlerBuild, HandlerInstall, HandlerAnnounce, PipelineStart,
            GreetingEnd, PipelineReturn, HandlerDrain, ProviderInstall,
            BridgeStart, RealtimeAnnounce, RealtimeReturn, HandlerGoto, EmitThen,
            HandlerLabels, SessionTimeout, TurnBegin, LoopExit, TurnStep,
            TurnEmitPanic, TurnSendPanic, TurnEnd, ForwardStep, ForwarderReturn,
            ForwarderEmitPanic, streams
        <4>2. CASE ReaderStep(c) \/ ReadMessage(c) \/ ReadEnd(c)
          <5>1. stream[c].reader # "idle"
            BY <4>2 DEF ReaderStep, StartLookup, StartCreate, DTMFEmit,
              MediaSend, ReadMessage, Messages,
              ReadEnd, ReaderAt
          <5>2. stream'[c].sid = stream[c].sid
            BY <2>1, <4>2, ZenonT(60) DEF ReaderStep, StartLookup, StartCreate, DTMFEmit,
              MediaSend, ReadMessage, Messages, ReadEnd, StreamState
          <5> QED BY <5>1, <5>2 DEF SIDInHand
        <4> QED BY <2>1, <4>1, <4>2 DEF SIDInHand, StreamState
      <3> QED BY <3>1, <3>2
    <2>4. \A d \in Streams : d # c => stream'[d] = stream[d]
      BY <2>1, <2>2
    <2> QED BY <1>3, <2>3, <2>4, StreamFrame DEF SIDInHand
  <1> QED BY <1>1, <1>2, <1>3, NextCases

----------------------------------------------------------------------------
(* The registry's safety                                                   *)

\* createSession with a SID in hand keeps the registry's invariant.
LEMMA CreateListed ==
  ASSUME TypeOK, ListedUnderOwnSID,
         NEW s \in SessionIds, NEW x \in CallSIDs, CreateSession(s, x)
  PROVE  ListedUnderOwnSID'
  <1>0. session \in [SessionIds -> SessionState]
        /\ sessions \in [CallSIDs -> SessionIds \cup {None}]
    BY DEF TypeOK
  <1> SUFFICES ASSUME NEW y \in CallSIDs, sessions'[y] # None
               PROVE  /\ session'[sessions'[y]].sid = y
                      /\ session'[sessions'[y]].phase \in Unremoved
    BY DEF ListedUnderOwnSID
  <1>1. CASE y = x
    BY <1>0, <1>1 DEF CreateSession, SessionState, Unremoved
  <1>2. CASE y # x
    <2>1. sessions'[y] = sessions[y] /\ sessions[y] \in SessionIds
      BY <1>0, <1>2 DEF CreateSession
    <2>2. session[sessions[y]].phase # "unborn"
      BY <2>1 DEF ListedUnderOwnSID, Unremoved
    <2>3. session'[sessions[y]] = session[sessions[y]]
      BY <1>0, <2>1, <2>2 DEF CreateSession
    <2> QED BY <2>1, <2>3 DEF ListedUnderOwnSID
  <1> QED BY <1>1, <1>2

\* A step of Close keeps it: the entry is gone before the phase leaves the
\* listed ones.
LEMMA CloseListed ==
  ASSUME TypeOK, ListedUnderOwnSID, NEW s \in SessionIds, CloseStep(s)
  PROVE  ListedUnderOwnSID'
  <1>0. session \in [SessionIds -> SessionState]
        /\ sessions \in [CallSIDs -> SessionIds \cup {None}]
    BY DEF TypeOK
  <1>1. PICK q \in Phases : session' = [session EXCEPT ![s].phase = q]
    BY DEF CloseStep, CloseBegin, CloseStop, CloseHangUp, CloseRemove, CloseEvents,
      ClosePhase, Phases
  <1>2. \A z \in SessionIds : /\ session'[z].sid = session[z].sid
                              /\ z # s => session'[z].phase = session[z].phase
    BY <1>0, <1>1 DEF SessionState
  <1>3. session'[s].phase = q
    BY <1>0, <1>1 DEF SessionState
  <1>4. CASE CloseBegin(s) \/ CloseStop(s) \/ CloseHangUp(s)
    <2>1. sessions' = sessions /\ session'[s].phase \in {"begun", "stopped",
    "hungup"}
      BY <1>0, <1>4 DEF CloseBegin, CloseStop, CloseHangUp, ClosePhase, registry,
        SessionState
    <2> QED BY <1>0, <1>2, <2>1 DEF ListedUnderOwnSID, Unremoved
  <1>5. CASE CloseRemove(s)
    <2>1. sessions' = [sessions EXCEPT ![session[s].sid] = None]
      BY <1>5 DEF CloseRemove, RemoveSession
    <2>2. ASSUME NEW y \in CallSIDs, sessions'[y] # None
          PROVE  sessions'[y] = sessions[y] /\ sessions[y] \in SessionIds \ {s}
      <3>1. sessions'[y] = sessions[y] /\ sessions[y] \in SessionIds
            /\ session[s].sid # y
        BY <1>0, <2>1, <2>2
      <3> QED BY <3>1, <2>2 DEF ListedUnderOwnSID
    <2> QED BY <1>2, <2>2 DEF ListedUnderOwnSID
  <1>6. CASE CloseEvents(s)
    <2>1. sessions' = sessions /\ session[s].phase = "removed"
      BY <1>6 DEF CloseEvents, ClosePhase, registry
    <2>2. \A y \in CallSIDs : sessions[y] # s
      BY <2>1, NoneAssumption DEF ListedUnderOwnSID, Unremoved
    <2> QED BY <1>0, <1>2, <2>1, <2>2 DEF ListedUnderOwnSID
  <1> QED BY <1>4, <1>5, <1>6 DEF CloseStep

\* Every step keeps the session map in agreement with the sessions.
LEMMA ListedStep ==
  ASSUME TypeOK, SIDInHand, ListedUnderOwnSID, Next
  PROVE  ListedUnderOwnSID'
  <1>0. session \in [SessionIds -> SessionState]
        /\ sessions \in [CallSIDs -> SessionIds \cup {None}]
    BY DEF TypeOK
  <1>1. ASSUME NEW s \in SessionIds, NEW x \in CallSIDs, CreateSession(s, x)
        PROVE  ListedUnderOwnSID'
    BY <1>1, CreateListed
  <1>2. ASSUME session' = session,
               \/ sessions' = sessions
               \/ \E x \in CallSIDs : sessions' = [sessions EXCEPT ![x] = None]
               \/ sessions' = [x \in CallSIDs |-> None]
        PROVE  ListedUnderOwnSID'
    BY <1>0, <1>2 DEF ListedUnderOwnSID
  <1>3. ASSUME NEW r \in Requests, RequestStep(r)
        PROVE  ListedUnderOwnSID'
    <2>1. CASE InboundCreate(r) \/ MakeCallReturn(r)
      <3>1. req[r].sid \in CallSIDs
        BY <2>1 DEF InboundCreate, MakeCallReturn, At, SIDInHand
      <3> QED BY <2>1, <3>1, <1>1 DEF InboundCreate, MakeCallReturn
    <2>2. CASE InboundReject(r)
      <3>1. req[r].sid \in CallSIDs
        BY <2>2 DEF InboundReject, At, SIDInHand
      <3> QED BY <2>2, <3>1, <1>2 DEF InboundReject, RemoveSession
    <2>3. CASE ~(InboundCreate(r) \/ MakeCallReturn(r) \/ InboundReject(r))
      <3>1. session' = session
            /\ (sessions' = sessions \/ sessions' = [x \in CallSIDs |-> None])
        BY <1>3, <2>3 DEF RequestStep, WebhookStep, CallbackStep, AppStep, StopStep,
          InboundArrive, InboundAccept, StatusReport, StatusLookup, StatusEmit,
          CloseReturn, MakeCallPlace, AppGetSession, AppInterrupt, AppSendText,
          TypedStep, TypedEnd, TypedPanic, AppClose, StopLock,
          StopSweep, StopReset, StopShutdown, registry
      <3> QED BY <3>1, <1>2
    <2> QED BY <2>1, <2>2, <2>3
  <1>4. ASSUME NEW s \in SessionIds, CloseStep(s)
        PROVE  ListedUnderOwnSID'
    BY <1>4, CloseListed
  <1>5. ASSUME NEW c \in Streams, StreamStep(c)
        PROVE  ListedUnderOwnSID'
    <2>1. CASE StartCreate(c)
      <3>1. stream[c].sid \in CallSIDs
        BY <2>1 DEF StartCreate, ReaderAt, SIDInHand
      <3> QED BY <2>1, <3>1, <1>1 DEF StartCreate
    <2>2. CASE ~StartCreate(c)
      <3>1. /\ sessions' = sessions
            /\ \/ session' = session
               \/ session' = [session EXCEPT ![stream[c].session].conn = c]
               \/ session' = [session EXCEPT ![stream[c].session].pipeline = c]
               \/ session' = [session EXCEPT ![stream[c].session].provider = c]
        BY <1>5, <2>2 DEF StreamStep, StreamOpen, ReadMessage, Messages, ReadEnd, ReaderStep,
          StartLookup, DTMFEmit, MediaSend, HandlerStep, HandlerGiveUp,
          HandlerAttach,
          HandlerBuild, HandlerInstall, HandlerAnnounce, PipelineStart, GreetingEnd,
          PipelineReturn, HandlerDrain, ProviderInstall, BridgeStart,
          RealtimeAnnounce, RealtimeReturn, HandlerGoto, EmitThen, SessionTimeout,
          TurnBegin, LoopExit, TurnStep, TurnEmitPanic, TurnSendPanic, TurnEnd,
          ForwardStep, ForwarderReturn, ForwarderEmitPanic, registry
      <3>2. \A z \in SessionIds : /\ session'[z].sid = session[z].sid
                                  /\ session'[z].phase = session[z].phase
        BY <1>0, <3>1 DEF SessionState
      <3> QED BY <1>0, <3>1, <3>2 DEF ListedUnderOwnSID
    <2> QED BY <2>1, <2>2
  <1> QED BY <1>3, <1>4, <1>5, NextCases

----------------------------------------------------------------------------
(* Theorems                                                                *)

\* The registry invariant holds of a new gateway.
LEMMA InvInit == Init => RegistryInv
  BY NoneAssumption, ModesAssumption DEF Init, RegistryInv, TypeOK,
    ListedUnderOwnSID, SIDInHand,
    SessionState, RequestState, StreamState, Phases, RequestLabels, HandlerLabels,
    ReaderLabels

\* Every step keeps the registry invariant.
LEMMA InvStep == RegistryInv /\ [Next]_vars => RegistryInv'
  <1> SUFFICES ASSUME RegistryInv, [Next]_vars
               PROVE  RegistryInv'
    OBVIOUS
  <1>1. CASE Next
    <2>0. TypeOK /\ ListedUnderOwnSID /\ SIDInHand
      BY DEF RegistryInv
    <2>1. ReqTyped'
      <3>1. ASSUME NEW r \in Requests, RequestStep(r)
            PROVE  ReqTyped'
        BY <2>0, <3>1, ReqTypeStep
      <3>2. CASE req' = req
        BY <2>0, <3>2 DEF TypeOK, ReqTyped
      <3> QED BY <1>1, <3>1, <3>2, NextCases, CloseFrame, StreamFrame
    <2>2. SessionTyped' /\ StreamTyped' /\ SetsTyped' /\ RestTyped'
      BY <1>1, <2>0, SessionTypeStep, StreamTypeStep, SetsTypeStep, RestTypeStep
    <2>3. TypeOK'
      BY <2>1, <2>2 DEF TypeOK, ReqTyped, SessionTyped, StreamTyped, SetsTyped,
        RestTyped
    <2> QED BY <1>1, <2>0, <2>3, SIDInHandStep, ListedStep DEF RegistryInv
  <1>2. CASE UNCHANGED vars
    BY <1>2 DEF vars, registry, outside, streams, sockets, contexts, workers,
      RegistryInv, TypeOK, ListedUnderOwnSID, SIDInHand
  <1> QED BY <1>1, <1>2

\* Every reachable state is well typed, every entry of the map holds a session
\* created under its SID whose Close has not removed it, and every goroutine
\* about to use a SID has one.
THEOREM RegistryCorrect == Spec => []RegistryInv
  BY InvInit, InvStep, PTL DEF Spec

\* The registry never hands out a session whose events channel is closed.
THEOREM ClosedNeverListed == Spec => []ClosedSessionUnlisted
  <1>1. RegistryInv => ClosedSessionUnlisted
    BY DEF RegistryInv, ListedUnderOwnSID, ClosedSessionUnlisted,
    Unremoved
  <1> QED BY RegistryCorrect, <1>1, PTL

\* While Stop sweeps with the lock held, nobody writes the map.
THEOREM SweepExclusive == Spec => SweepIsExclusive
  <1>1. RegistryInv /\ [Next]_vars => [mu # None /\ mu' = mu => UNCHANGED sessions]_vars
    <2> SUFFICES ASSUME RegistryInv, Next, mu # None, mu' = mu
                 PROVE  sessions' = sessions
      OBVIOUS
    <2> QED
      BY MapSteps DEF RegistryInv, CreateSession, MuFree, CloseRemove, RemoveSession
  <1> QED BY RegistryCorrect, <1>1, PTL DEF Spec, SweepIsExclusive

=============================================================================
