--------------------------- MODULE MediaTransport ---------------------------
(***************************************************************************)
(* The Media Streams transport provider (omnivoice/transport): listeners,  *)
(* the connections registered by their stream SID, each connection's read  *)
(* loop and events channel, Connection.Close step by step and              *)
(* Provider.Close.  Writes to the socket (SendMark, Clear, the write loop) *)
(* are left out, and with them what two of them at once may do.            *)
(*                                                                         *)
(* Twilio gives every stream its own SID, so a connection stands for its   *)
(* SID here.  A connection that has not read its start message has the     *)
(* empty SID.  The audio queues are the matter of AudioQueue.              *)
(***************************************************************************)
EXTENDS Naturals, FiniteSets

CONSTANTS
  Conns,      \* Media Stream connections, each opened by one HTTP request
  Closers,    \* application goroutines that call Connection.Close
  Shutters,   \* goroutines that call Provider.Close
  EventsCap,  \* capacity of Connection.events (100 in the code)
  ListenCap,  \* capacity of a listener's channel (10 in the code)
  None

ASSUME CapacityAssumption == EventsCap \in Nat \ {0} /\ ListenCap \in Nat \ {0}
ASSUME NoneAssumption == None \notin Conns \cup Shutters

\* A goroutine calls one Close.
ASSUME KindsAssumption == Closers \cap Shutters = {}

VARIABLES
  pmu,        \* Provider.mu's writer across steps: a goroutine in Close, or None
  registered, \* Provider.connections
  listener,   \* the listener's channel: not made, open or closed
  offered,    \* connections in the listener's channel
  accepted,   \* connections the application has received from it
  handler,    \* per connection: the goroutine of HandleWebSocket
  reader,     \* per connection: its read loop
  started,    \* connections whose streamSID is set
  events,     \* per connection: events waiting in its channel
  phase,      \* per connection: the last step of its Close that is done
  req,        \* per closer or shutter: its place
  target,     \* per closer or shutter: the connection it is closing
  local,      \* connections on which this process has called Close
  fatal       \* the panic that ended the process, if any

provider == <<pmu, registered, listener, offered>>
loops    == <<handler, reader, started>>
requests == <<req, target, local>>
vars     == <<provider, accepted, loops, events, phase, requests, fatal>>

Phases == {"open", "begun", "deaf", "mute", "hungup", "removed"}
HandlerLabels == {"idle", "lookup", "offer", "over", "panicked"}
ReaderLabels == {"idle", "top", "reading", "connected", "start", "register", "started",
                 "media", "dtmf", "callback", "stop", "disconnect", "error",
                 "closing", "over"}
RequestLabels == {"idle", "sweeping", "closing", "returned"}

TypeOK ==
  /\ pmu \in Shutters \cup {None}
  /\ registered \subseteq Conns
  /\ listener \in {"none", "open", "closed"}
  /\ offered \subseteq Conns /\ accepted \subseteq Conns
  /\ handler \in [Conns -> HandlerLabels]
  /\ reader \in [Conns -> ReaderLabels]
  /\ started \subseteq Conns
  /\ events \in [Conns -> 0 .. EventsCap]
  /\ phase \in [Conns -> Phases]
  /\ req \in [Closers \cup Shutters -> RequestLabels]
  /\ target \in [Closers \cup Shutters -> Conns \cup {None}]
  /\ local \subseteq Conns
  /\ fatal \in {"none", "event", "audio"}

Init ==
  /\ pmu = None
  /\ registered = {}
  /\ listener = "none"
  /\ offered = {} /\ accepted = {}
  /\ handler = [c \in Conns |-> "idle"]
  /\ reader = [c \in Conns |-> "idle"]
  /\ started = {}
  /\ events = [c \in Conns |-> 0]
  /\ phase = [c \in Conns |-> "open"]
  /\ req = [r \in Closers \cup Shutters |-> "idle"]
  /\ target = [r \in Closers \cup Shutters |-> None]
  /\ local = {}
  /\ fatal = "none"

----------------------------------------------------------------------------
\* A fatal panic ends every goroutine.
Alive == fatal = "none"
PmuFree == pmu = None

\* Close has closed audioIn and audioOut, the events channel, the socket.
AudioClosed(c)  == phase[c] \in {"deaf", "mute", "hungup", "removed"}
EventsClosed(c) == phase[c] \in {"mute", "hungup", "removed"}
HungUp(c)       == phase[c] \in {"hungup", "removed"}

(* Provider.Listen and Provider.HandleWebSocket.                           *)

Listen ==
  /\ Alive
  /\ listener = "none"
  /\ PmuFree
  /\ listener' = "open"
  /\ UNCHANGED <<pmu, registered, offered, accepted, loops, events, phase, requests, fatal>>

\* Upgrade, the Connection object and the go statements of its loops.
Upgrade(c) ==
  /\ Alive
  /\ handler[c] = "idle"
  /\ handler' = [handler EXCEPT ![c] = "lookup"]
  /\ reader' = [reader EXCEPT ![c] = "top"]
  /\ UNCHANGED <<provider, accepted, started, events, phase, requests, fatal>>

LookupListener(c) ==
  /\ Alive
  /\ handler[c] = "lookup"
  /\ PmuFree
  /\ handler' = [handler EXCEPT ![c] = IF listener = "open" THEN "offer" ELSE "over"]
  /\ UNCHANGED <<provider, accepted, reader, started, events, phase, requests,
                 fatal>>

\* The channel found by the lookup may be full, or closed by now: net/http
\* recovers that panic.
Offer(c) ==
  /\ Alive
  /\ handler[c] = "offer"
  /\ handler' = [handler EXCEPT ![c] = IF listener = "closed" THEN "panicked" ELSE "over"]
  /\ offered' = IF listener = "open" /\ Cardinality(offered) < ListenCap
                THEN offered \cup {c} ELSE offered
  /\ UNCHANGED <<pmu, registered, listener, accepted, reader, started, events,
                 phase, requests, fatal>>

\* The application receives a connection, and its events.
Accept(c) ==
  /\ Alive
  /\ c \in offered
  /\ offered' = offered \ {c}
  /\ accepted' = accepted \cup {c}
  /\ UNCHANGED <<pmu, registered, listener, loops, events, phase, requests, fatal>>

TakeEvent(c) ==
  /\ Alive
  /\ c \in accepted
  /\ events[c] > 0
  /\ events' = [events EXCEPT ![c] = @ - 1]
  /\ UNCHANGED <<provider, accepted, loops, phase, requests, fatal>>

----------------------------------------------------------------------------
(* Connection.readLoop                                                     *)

ReaderGoto(c, from, to) ==
  /\ Alive
  /\ reader[c] = from
  /\ reader' = [reader EXCEPT ![c] = to]
  /\ UNCHANGED <<pmu, listener, offered, accepted, handler, requests>>

\* c.events <- ...: blocks while the channel is full, panics once it is closed.
Emit(c, from, to) ==
  /\ IF EventsClosed(c)
     THEN fatal' = "event" /\ UNCHANGED events
     ELSE /\ events[c] < EventsCap
          /\ events' = [events EXCEPT ![c] = @ + 1]
          /\ UNCHANGED fatal
  /\ ReaderGoto(c, from, to)
  /\ UNCHANGED <<registered, started, phase>>

\* The select on c.done at the top of the loop.
ReadTop(c) ==
  /\ ReaderGoto(c, "top", IF phase[c] = "open" THEN "reading" ELSE "closing")
  /\ UNCHANGED <<registered, started, events, phase, fatal>>

\* ReadMessage returns a message, whatever came before it; the loop skips marks
\* and what it does not know.
ReadMessage(c) ==
  /\ ~HungUp(c)
  /\ \E message \in {"connected", "start", "media", "dtmf", "stop", "top"} :
       ReaderGoto(c, "reading", message)
  /\ UNCHANGED <<registered, started, events, phase, fatal>>

\* ReadMessage fails: Twilio has closed the socket or lost it, or Close has
\* closed it, which is no CloseError.
ReadFail(c) ==
  /\ \/ ReaderGoto(c, "reading", "error")
     \/ ~HungUp(c) /\ ReaderGoto(c, "reading", "closing")
  /\ UNCHANGED <<registered, started, events, phase, fatal>>

SetStreamSID(c) ==
  /\ ReaderGoto(c, "start", "register")
  /\ started' = started \cup {c}
  /\ UNCHANGED <<registered, events, phase, fatal>>

\* Mutant: the map is written without the lock.
RegisterUnlocked(c) ==
  /\ ReaderGoto(c, "register", "started")
  /\ registered' = registered \cup {c}
  /\ UNCHANGED <<started, events, phase, fatal>>

Register(c) ==
  /\ PmuFree
  /\ ReaderGoto(c, "register", "started")
  /\ registered' = registered \cup {c}
  /\ UNCHANGED <<started, events, phase, fatal>>

\* audioOut.write drops a chunk when its channel is full, and panics when
\* the channel is closed.
WriteAudio(c) ==
  /\ ReaderGoto(c, "media", "top")
  /\ fatal' = IF AudioClosed(c) THEN "audio" ELSE fatal
  /\ UNCHANGED <<registered, started, events, phase>>

\* The DTMF handler, read under p.mu, runs in the read loop and may close.
DTMFCallback(c) ==
  /\ PmuFree
  /\ \E to \in {"top", "closing"} : ReaderGoto(c, "callback", to)
  /\ UNCHANGED <<registered, started, events, phase, fatal>>

\* Mutant: the last event is sent after the connection is closed.
EmitLate(c) ==
  \/ Emit(c, "connected", "top")
  \/ Emit(c, "started", "top")
  \/ Emit(c, "dtmf", "callback")
  \/ Emit(c, "stop", "closing")
  \/ phase[c] = "removed" /\ Emit(c, "closing", "over")
  \/ Emit(c, "error", "closing")

ReaderEmits(c) ==
  \/ Emit(c, "connected", "top")
  \/ Emit(c, "started", "top")
  \/ Emit(c, "dtmf", "callback")
  \/ Emit(c, "stop", "disconnect")
  \/ Emit(c, "disconnect", "closing")
  \/ Emit(c, "error", "closing")

\* The deferred Close has returned.
ReaderReturn(c) ==
  /\ phase[c] = "removed"
  /\ ReaderGoto(c, "closing", "over")
  /\ UNCHANGED <<registered, started, events, phase, fatal>>

----------------------------------------------------------------------------
(* Connection.Close: the body runs once, every other caller waits for it.  *)

ClosePhase(c, from, to) ==
  /\ Alive
  /\ phase[c] = from
  /\ phase' = [phase EXCEPT ![c] = to]
  /\ UNCHANGED <<pmu, listener, offered, accepted, loops, events, requests, fatal>>

ClosedByRequest(c) ==
  \E r \in Closers \cup Shutters : req[r] = "closing" /\ target[r] = c

\* Mutant: the loop returns without its deferred Close.
CloseByRequest(c) ==
  /\ ClosedByRequest(c)
  /\ ClosePhase(c, "open", "begun")
  /\ UNCHANGED registered

\* closed = true, close(done)
CloseBegin(c) ==
  /\ reader[c] = "closing" \/ ClosedByRequest(c)
  /\ ClosePhase(c, "open", "begun")
  /\ UNCHANGED registered

\* audioIn.Close(), audioOut.close(); close(events); wsConn.Close()
CloseChannels(c) ==
  /\ \/ ClosePhase(c, "begun", "deaf")
     \/ ClosePhase(c, "deaf", "mute")
     \/ ClosePhase(c, "mute", "hungup")
  /\ UNCHANGED registered

\* delete(connections, streamSID): nothing when no start has been read.
CloseRemove(c) ==
  /\ PmuFree
  /\ ClosePhase(c, "hungup", "removed")
  /\ registered' = IF c \in started THEN registered \ {c} ELSE registered

----------------------------------------------------------------------------
(* The application's Connection.Close, and Provider.Close, which closes    *)
(* every registered connection with p.mu held.                             *)

AppClose(a) ==
  /\ Alive
  /\ req[a] = "idle"
  /\ \E c \in accepted :
       /\ req' = [req EXCEPT ![a] = "closing"]
       /\ target' = [target EXCEPT ![a] = c]
       /\ local' = local \cup {c}
  /\ UNCHANGED <<provider, accepted, loops, events, phase, fatal>>

CloseReturn(r) ==
  /\ Alive
  /\ req[r] = "closing"
  /\ phase[target[r]] = "removed"
  /\ req' = [req EXCEPT ![r] = IF r \in Shutters THEN "sweeping" ELSE "returned"]
  /\ UNCHANGED <<provider, accepted, loops, events, phase, target, local, fatal>>

ShutLock(g) ==
  /\ Alive
  /\ req[g] = "idle"
  /\ PmuFree
  /\ pmu' = g
  /\ req' = [req EXCEPT ![g] = "sweeping"]
  /\ UNCHANGED <<registered, listener, offered, accepted, loops, events, phase, target,
                 local, fatal>>

\* One iteration of the range over connections, a stale entry's included.
ShutClose(g) ==
  /\ Alive
  /\ req[g] = "sweeping"
  /\ \E c \in registered :
       /\ phase[c] # "removed"
       /\ req' = [req EXCEPT ![g] = "closing"]
       /\ target' = [target EXCEPT ![g] = c]
       /\ local' = local \cup {c}
  /\ UNCHANGED <<provider, accepted, loops, events, phase, fatal>>

\* The listeners' channels are closed, both maps replaced.
ShutFinish(g) ==
  /\ Alive
  /\ req[g] = "sweeping"
  /\ \A c \in registered : phase[c] = "removed"
  /\ listener' = IF listener = "open" THEN "closed" ELSE listener
  /\ registered' = {}
  /\ pmu' = None
  /\ req' = [req EXCEPT ![g] = "returned"]
  /\ UNCHANGED <<offered, accepted, loops, events, phase, target, local, fatal>>

----------------------------------------------------------------------------
HandlerStep(c) == LookupListener(c) \/ Offer(c)
ReaderStep(c)  == \/ ReadTop(c) \/ SetStreamSID(c) \/ Register(c) \/ WriteAudio(c)
                  \/ DTMFCallback(c) \/ ReaderEmits(c) \/ ReaderReturn(c)
CloseStep(c)   == CloseBegin(c) \/ CloseChannels(c) \/ CloseRemove(c)
AppStep(c)     == Accept(c) \/ TakeEvent(c)
ShutStep(g)    == ShutClose(g) \/ ShutFinish(g) \/ CloseReturn(g)

Next ==
  \/ Listen
  \/ \E c \in Conns : \/ Upgrade(c) \/ HandlerStep(c) \/ ReadMessage(c) \/ ReadFail(c)
                      \/ ReaderStep(c) \/ CloseStep(c) \/ AppStep(c)
  \/ \E a \in Closers : AppClose(a) \/ CloseReturn(a)
  \/ \E g \in Shutters : ShutLock(g) \/ ShutStep(g)

Spec == Init /\ [][Next]_vars

\* Goroutines run; the application drains the events of the connections it
\* has accepted; a read from a socket closed here fails.
Fairness ==
  /\ \A c \in Conns : /\ WF_vars(HandlerStep(c))
                      /\ WF_vars(ReaderStep(c))
                      /\ WF_vars(CloseStep(c))
                      /\ WF_vars(AppStep(c))
                      /\ WF_vars(HungUp(c) /\ ReadFail(c))
  /\ \A a \in Closers : WF_vars(CloseReturn(a))
  /\ \A g \in Shutters : WF_vars(ShutStep(g))

FairSpec == Spec /\ Fairness

----------------------------------------------------------------------------
(* Properties                                                              *)

\* Nothing Twilio sends ends the process: no stop, dropped socket or order of
\* messages makes the read loop send on a channel its own Close has closed
\* (transport/provider.go:306, 320, 379-381).  Only a connection that this
\* process closes can.
RemoteEndIsSafe == ~Alive => local # {}

\* The inductive strengthening: unless it is closed from here, a connection
\* begins to close only when its read loop sends nothing more.
ReaderClosesLast ==
  \A c \in Conns : phase[c] # "open" => reader[c] \in {"closing", "over"} \/ c \in local

\* The loops of a connection start with it.
LoopsWithConn == \A c \in Conns : handler[c] = "idle" => reader[c] = "idle"

\* Every request under way to close a connection has been noted.
RequestsNoted ==
  \A r \in Closers \cup Shutters : req[r] = "closing" => target[r] \in local

TransportInv ==
  TypeOK /\ RemoteEndIsSafe /\ ReaderClosesLast /\ LoopsWithConn /\ RequestsNoted

\* A connection whose stream has ended is closed and leaves the registry,
\* whatever its read loop still has to send, when the application drains the
\* events of the connections it has accepted.
EndedStreamIsRemoved ==
  \A c \in Conns :
    c \in accepted /\ reader[c] \in {"stop", "error"}
      ~> phase[c] = "removed" \/ ~Alive

\* While Provider.Close ranges over the connections nobody writes the map.
SweepIsExclusive == [][pmu # None /\ pmu' = pmu => UNCHANGED registered]_vars

\* "Close closes the connection." (transport/provider.go:232): it does not end
\* the process.
CloseIsSafe == Alive

\* "Close shuts down the transport." (transport/provider.go:140): a Close that
\* has begun returns.
ShutdownReturns ==
  \A g \in Shutters : req[g] = "sweeping" ~> req[g] = "returned" \/ ~Alive

\* The same line: a connection the application holds when Close returns has
\* been closed.
ShutdownClosesAccepted ==
  \A g \in Shutters :
    req[g] = "returned" => \A c \in accepted : phase[c] # "open"

=============================================================================
