------------------------ MODULE MediaTransportProofs ------------------------
(* Theorems about MediaTransport, for every set of connections, closers    *)
(* and shutters and every capacity.                                        *)
EXTENDS MediaTransport, TLAPS

\* The facts that hold without regard to types of the provider's own state.
ClosingInv == ReaderClosesLast /\ LoopsWithConn /\ RequestsNoted

\* The types of what one connection owns.
ConnTyped ==
  /\ handler \in [Conns -> HandlerLabels]
  /\ reader \in [Conns -> ReaderLabels]
  /\ events \in [Conns -> 0 .. EventsCap]
  /\ phase \in [Conns -> Phases]

\* The types of the requests.
RequestTyped ==
  /\ req \in [Closers \cup Shutters -> RequestLabels]
  /\ target \in [Closers \cup Shutters -> Conns \cup {None}]

\* The types of the sets and of the provider's state.
RestTyped ==
  /\ pmu \in Shutters \cup {None}
  /\ registered \subseteq Conns
  /\ listener \in {"none", "open", "closed"}
  /\ offered \subseteq Conns /\ accepted \subseteq Conns
  /\ started \subseteq Conns
  /\ local \subseteq Conns
  /\ fatal \in {"none", "event", "audio"}

\* The read loop's steps, by the label they leave and the label they reach.
ReaderMove(c) ==
  \E from, to \in ReaderLabels :
    /\ ReaderGoto(c, from, to)
    /\ from # "idle"
    /\ from \in {"closing", "over"} => to \in {"closing", "over"}

\* Every step of the read loop is such a move.
LEMMA ReaderMoves ==
  ASSUME NEW c \in Conns, ReaderStep(c) \/ ReadMessage(c) \/ ReadFail(c)
  PROVE  ReaderMove(c) /\ UNCHANGED phase
<1> USE DEF ReaderMove, ReaderLabels
<1>1. CASE ReadTop(c)
  BY <1>1, Zenon DEF ReadTop, ReaderGoto
<1>2. CASE SetStreamSID(c) \/ Register(c) \/ WriteAudio(c) \/ ReaderReturn(c)
  BY <1>2 DEF SetStreamSID, Register, WriteAudio, ReaderReturn
<1>3. CASE DTMFCallback(c)
  BY <1>3 DEF DTMFCallback
<1>4. CASE ReaderEmits(c)
  BY <1>4 DEF ReaderEmits, Emit
<1>5. CASE ReadMessage(c)
  BY <1>5 DEF ReadMessage
<1>6. CASE ReadFail(c)
  BY <1>6 DEF ReadFail
<1> QED  BY <1>1, <1>2, <1>3, <1>4, <1>5, <1>6 DEF ReaderStep

\* A step of Close moves one connection's phase and leaves the loops alone.
LEMMA CloseMoves ==
  ASSUME NEW c \in Conns, CloseStep(c)
  PROVE  \E from, to \in Phases :
           /\ ClosePhase(c, from, to)
           /\ from = "open" => reader[c] = "closing" \/ ClosedByRequest(c)
BY DEF CloseStep, CloseBegin, CloseChannels, CloseRemove, Phases

\* Initially every connection is open and no panic has happened.
LEMMA InvInit == Init => TransportInv
<1> SUFFICES ASSUME Init PROVE TransportInv
  OBVIOUS
<1> USE CapacityAssumption DEF Init
<1>1. ConnTyped /\ RequestTyped /\ RestTyped
  BY DEF ConnTyped, RequestTyped, RestTyped, HandlerLabels, ReaderLabels, Phases,
         RequestLabels
<1>2. RemoteEndIsSafe /\ ReaderClosesLast /\ LoopsWithConn /\ RequestsNoted
  BY DEF RemoteEndIsSafe, Alive, ReaderClosesLast, LoopsWithConn, RequestsNoted
<1> QED  BY <1>1, <1>2 DEF TransportInv, TypeOK, ConnTyped, RequestTyped, RestTyped

\* TransportInv is its typing parts and the four facts.
LEMMA InvParts ==
  TransportInv <=> /\ ConnTyped /\ RequestTyped /\ RestTyped
                   /\ RemoteEndIsSafe /\ ClosingInv
BY DEF TransportInv, TypeOK, ConnTyped, RequestTyped, RestTyped, ClosingInv

\* The steps of the read loop: the facts about closing.
LEMMA ReaderStepInv ==
  ASSUME TransportInv, NEW c \in Conns, ReaderStep(c) \/ ReadMessage(c) \/ ReadFail(c)
  PROVE  ClosingInv' /\ RemoteEndIsSafe'
<1>1. PICK from \in ReaderLabels, to \in ReaderLabels :
        /\ ReaderGoto(c, from, to)
        /\ from # "idle"
        /\ from \in {"closing", "over"} => to \in {"closing", "over"}
  BY ReaderMoves DEF ReaderMove
<1>2. UNCHANGED <<phase, handler, requests>>
  BY <1>1, ReaderMoves DEF ReaderGoto
<1>3. ReaderClosesLast'
  BY <1>1, <1>2 DEF ReaderGoto, ReaderClosesLast, TransportInv, TypeOK, requests
<1>4. LoopsWithConn'
  BY <1>1, <1>2 DEF ReaderGoto, LoopsWithConn, TransportInv, TypeOK
<1>5. RequestsNoted'
  BY <1>2 DEF RequestsNoted, TransportInv, requests
<1>6. RemoteEndIsSafe'
  <2>1. CASE UNCHANGED fatal
    BY <1>2, <2>1 DEF RemoteEndIsSafe, Alive, TransportInv, requests
  <2>2. CASE ~UNCHANGED fatal
    <3>1. ReaderEmits(c) \/ WriteAudio(c)
      BY <2>2 DEF ReaderStep, ReadTop, SetStreamSID, Register, DTMFCallback, ReaderReturn,
                  ReadMessage, ReadFail
    <3>2. reader[c] \notin {"closing", "over"} /\ phase[c] # "open"
      <4>1. CASE WriteAudio(c)
        BY <2>2, <4>1 DEF WriteAudio, ReaderGoto, AudioClosed
      <4>2. CASE ReaderEmits(c)
        BY <2>2, <4>2 DEF ReaderEmits, Emit, ReaderGoto, EventsClosed
      <4> QED  BY <3>1, <4>1, <4>2
    <3>3. c \in local
      BY <3>2 DEF TransportInv, ReaderClosesLast
    <3> QED  BY <1>2, <3>3 DEF RemoteEndIsSafe, requests
  <2> QED  BY <2>1, <2>2
<1> QED  BY <1>3, <1>4, <1>5, <1>6 DEF ClosingInv

\* The steps of Close: only a loop that is done, or a request noted in local,
\* begins one.
LEMMA CloseStepInv ==
  ASSUME TransportInv, NEW c \in Conns, CloseStep(c)
  PROVE  ClosingInv' /\ RemoteEndIsSafe'
<1>1. PICK from \in Phases, to \in Phases :
        /\ ClosePhase(c, from, to)
        /\ from = "open" => reader[c] = "closing" \/ ClosedByRequest(c)
  BY CloseMoves
<1>2. UNCHANGED <<loops, requests, fatal>>
  BY <1>1 DEF ClosePhase
<1>3. ASSUME ClosedByRequest(c) PROVE c \in local
  BY <1>3 DEF ClosedByRequest, RequestsNoted, TransportInv
<1>4. ReaderClosesLast'
  BY <1>1, <1>2, <1>3
     DEF ClosePhase, ReaderClosesLast, TransportInv, TypeOK, loops, requests
<1>5. LoopsWithConn' /\ RequestsNoted' /\ RemoteEndIsSafe'
  BY <1>2 DEF LoopsWithConn, RequestsNoted, RemoteEndIsSafe, Alive, TransportInv, loops,
              requests
<1> QED  BY <1>4, <1>5 DEF ClosingInv

\* The requests' steps note a connection before they close it.
LEMMA RequestStepInv ==
  ASSUME TransportInv,
         NEW r \in Closers \cup Shutters,
         \/ r \in Closers /\ AppClose(r)
         \/ CloseReturn(r)
         \/ r \in Shutters /\ (ShutLock(r) \/ ShutClose(r) \/ ShutFinish(r))
  PROVE  ClosingInv' /\ RemoteEndIsSafe' /\ RequestTyped'
<1> USE DEF AppClose, CloseReturn, ShutLock, ShutClose, ShutFinish
<1>1. UNCHANGED <<loops, phase, fatal>> /\ local \subseteq local'
  OBVIOUS
<1>2. \/ /\ UNCHANGED target
         /\ \E l \in RequestLabels \ {"closing"} : req' = [req EXCEPT ![r] = l]
      \/ \E c \in Conns : /\ req' = [req EXCEPT ![r] = "closing"]
                          /\ target' = [target EXCEPT ![r] = c]
                          /\ local' = local \cup {c}
  BY DEF RequestLabels, TransportInv, TypeOK
<1> HIDE DEF AppClose, CloseReturn, ShutLock, ShutClose, ShutFinish
<1>3. RequestsNoted'
  BY <1>1, <1>2 DEF RequestsNoted, TransportInv, TypeOK
<1>4. RequestTyped'
  BY <1>2 DEF RequestTyped, TransportInv, TypeOK, RequestLabels
<1>5. ReaderClosesLast' /\ LoopsWithConn' /\ RemoteEndIsSafe'
  BY <1>1 DEF ReaderClosesLast, LoopsWithConn, RemoteEndIsSafe, Alive, TransportInv, loops
<1> QED  BY <1>3, <1>4, <1>5 DEF ClosingInv

\* The handler's and the application's steps close nothing.
LEMMA OtherStepInv ==
  ASSUME TransportInv,
         \/ Listen
         \/ \E c \in Conns : Upgrade(c) \/ HandlerStep(c) \/ AppStep(c)
  PROVE  ClosingInv' /\ RemoteEndIsSafe'
<1> USE DEF Listen, Upgrade, HandlerStep, LookupListener, Offer, AppStep, Accept, TakeEvent
<1>1. UNCHANGED <<phase, requests, fatal>>
  OBVIOUS
<1>2. RequestsNoted' /\ RemoteEndIsSafe'
  BY <1>1 DEF RequestsNoted, RemoteEndIsSafe, Alive, TransportInv, requests
<1>3. ReaderClosesLast' /\ LoopsWithConn'
  BY <1>1 DEF ReaderClosesLast, LoopsWithConn, TransportInv, TypeOK, loops, requests
<1> QED  BY <1>2, <1>3 DEF ClosingInv

\* The read loop keeps the types.
LEMMA ReaderTyped ==
  ASSUME TransportInv, NEW c \in Conns, ReaderStep(c) \/ ReadMessage(c) \/ ReadFail(c)
  PROVE  ConnTyped' /\ RequestTyped' /\ RestTyped'
<1>1. PICK from \in ReaderLabels, to \in ReaderLabels : ReaderGoto(c, from, to)
  BY ReaderMoves DEF ReaderMove
<1>2. /\ reader' \in [Conns -> ReaderLabels]
      /\ UNCHANGED <<pmu, listener, offered, accepted, handler, requests, phase>>
  BY <1>1, ReaderMoves DEF ReaderGoto, TransportInv, TypeOK
<1>3. events' \in [Conns -> 0 .. EventsCap]
  <2>1. \/ events' = events
        \/ events[c] < EventsCap /\ events' = [events EXCEPT ![c] = @ + 1]
    BY DEF ReaderStep, ReadTop, SetStreamSID, Register, WriteAudio, DTMFCallback,
           ReaderEmits, Emit, ReaderReturn, ReadMessage, ReadFail
  <2> QED  BY <2>1, CapacityAssumption DEF TransportInv, TypeOK
<1>4. /\ registered' \subseteq Conns /\ started' \subseteq Conns
      /\ fatal' \in {"none", "event", "audio"}
  BY DEF ReaderStep, ReadTop, SetStreamSID, Register, WriteAudio, DTMFCallback,
         ReaderEmits, Emit, ReaderReturn, ReadMessage, ReadFail, TransportInv, TypeOK
<1> QED  BY <1>2, <1>3, <1>4
         DEF ConnTyped, RequestTyped, RestTyped, TransportInv, TypeOK, requests

\* Close keeps the types.
LEMMA CloseTyped ==
  ASSUME TransportInv, NEW c \in Conns, CloseStep(c)
  PROVE  ConnTyped' /\ RequestTyped' /\ RestTyped'
<1>1. PICK from \in Phases, to \in Phases : ClosePhase(c, from, to)
  BY CloseMoves
<1>2. registered' \subseteq Conns
  BY DEF CloseStep, CloseBegin, CloseChannels, CloseRemove, TransportInv, TypeOK
<1> QED  BY <1>1, <1>2
         DEF ClosePhase, ConnTyped, RequestTyped, RestTyped, TransportInv, TypeOK, loops,
             requests

\* The requests keep the types of the rest.
LEMMA RequestRestTyped ==
  ASSUME TransportInv,
         NEW r \in Closers \cup Shutters,
         \/ r \in Closers /\ AppClose(r)
         \/ CloseReturn(r)
         \/ r \in Shutters /\ (ShutLock(r) \/ ShutClose(r) \/ ShutFinish(r))
  PROVE  ConnTyped' /\ RestTyped'
<1>1. UNCHANGED <<loops, events, phase, offered, accepted, fatal>>
  BY DEF AppClose, CloseReturn, ShutLock, ShutClose, ShutFinish, provider
<1>2. ConnTyped'
  BY <1>1 DEF ConnTyped, TransportInv, TypeOK, loops
<1>3. local' \subseteq Conns /\ registered' \subseteq Conns
  BY DEF AppClose, CloseReturn, ShutLock, ShutClose, ShutFinish, provider, TransportInv,
         TypeOK
<1>4. pmu' \in Shutters \cup {None} /\ listener' \in {"none", "open", "closed"}
  BY DEF AppClose, CloseReturn, ShutLock, ShutClose, ShutFinish, provider, TransportInv,
         TypeOK
<1> QED  BY <1>1, <1>2, <1>3, <1>4 DEF RestTyped, TransportInv, TypeOK, loops

\* The handler's and the application's steps keep the types.
LEMMA OtherTyped ==
  ASSUME TransportInv,
         \/ Listen
         \/ \E c \in Conns : Upgrade(c) \/ HandlerStep(c) \/ AppStep(c)
  PROVE  ConnTyped' /\ RequestTyped' /\ RestTyped'
<1> USE DEF Listen, Upgrade, HandlerStep, LookupListener, Offer, AppStep, Accept, TakeEvent
<1>1. handler' \in [Conns -> HandlerLabels] /\ reader' \in [Conns -> ReaderLabels]
  BY DEF TransportInv, TypeOK, HandlerLabels, ReaderLabels, loops
<1>2. events' \in [Conns -> 0 .. EventsCap]
  BY CapacityAssumption DEF TransportInv, TypeOK
<1>3. offered' \subseteq Conns /\ accepted' \subseteq Conns
  BY DEF TransportInv, TypeOK, provider
<1>4. UNCHANGED <<pmu, registered, started, phase, requests, fatal>>
  BY DEF provider, loops
<1>5. listener' \in {"none", "open", "closed"}
  BY DEF TransportInv, TypeOK, provider
<1> HIDE DEF Listen, Upgrade, HandlerStep, LookupListener, Offer, AppStep, Accept, TakeEvent
<1> QED  BY <1>1, <1>2, <1>3, <1>4, <1>5
         DEF ConnTyped, RequestTyped, RestTyped, TransportInv, TypeOK, requests

\* Every step keeps the invariant.
LEMMA InvStep == TransportInv /\ [Next]_vars => TransportInv'
<1> SUFFICES ASSUME TransportInv, [Next]_vars PROVE TransportInv'
  OBVIOUS
<1>1. ASSUME ConnTyped', RequestTyped', RestTyped', RemoteEndIsSafe', ClosingInv'
      PROVE  TransportInv'
  BY <1>1 DEF TransportInv, TypeOK, ConnTyped, RequestTyped, RestTyped, ClosingInv
<1>2. ASSUME NEW c \in Conns, ReaderStep(c) \/ ReadMessage(c) \/ ReadFail(c)
      PROVE  TransportInv'
  BY <1>1, <1>2, ReaderStepInv, ReaderTyped
<1>3. ASSUME NEW c \in Conns, CloseStep(c) PROVE TransportInv'
  BY <1>1, <1>3, CloseStepInv, CloseTyped
<1>4. ASSUME NEW r \in Closers \cup Shutters,
             \/ r \in Closers /\ AppClose(r)
             \/ CloseReturn(r)
             \/ r \in Shutters /\ (ShutLock(r) \/ ShutClose(r) \/ ShutFinish(r))
      PROVE  TransportInv'
  BY <1>1, <1>4, RequestStepInv, RequestRestTyped
<1>5. ASSUME \/ Listen
             \/ \E c \in Conns : Upgrade(c) \/ HandlerStep(c) \/ AppStep(c)
      PROVE  TransportInv'
  BY <1>1, <1>5, OtherStepInv, OtherTyped
<1>6. CASE Next
  BY <1>2, <1>3, <1>4, <1>5, <1>6 DEF Next, ShutStep
<1>7. CASE UNCHANGED vars
  BY <1>7 DEF vars, provider, loops, requests, TransportInv, TypeOK, RemoteEndIsSafe,
              Alive, ReaderClosesLast, LoopsWithConn, RequestsNoted
<1> QED  BY <1>6, <1>7

\* Whatever Twilio sends, and whenever the sockets fail, the process dies only
\* of a connection it has closed itself.
THEOREM RemoteEndSafe == Spec => []RemoteEndIsSafe
<1>1. TransportInv => RemoteEndIsSafe
  BY DEF TransportInv
<1> QED  BY <1>1, InvInit, InvStep, PTL DEF Spec

\* The invariant: a read loop that is not closed from outside begins to close
\* its connection only when it sends nothing more.
THEOREM TransportCorrect == Spec => []TransportInv
BY InvInit, InvStep, PTL DEF Spec

\* While Provider.Close holds the lock for its sweep, nobody writes the map it
\* ranges over.
THEOREM SweepExclusive == Spec => SweepIsExclusive
<1>1. [Next]_vars => (pmu # None /\ pmu' = pmu => UNCHANGED registered)
  BY DEF Next, vars, provider, Listen, Upgrade, HandlerStep, LookupListener, Offer,
         AppStep, Accept, TakeEvent, ReaderStep, ReadTop, SetStreamSID, Register,
         WriteAudio, DTMFCallback, ReaderEmits, Emit, ReaderReturn, ReadMessage, ReadFail,
         CloseStep, CloseBegin, CloseChannels, CloseRemove, ClosePhase, AppClose,
         CloseReturn, ShutStep, ShutLock, ShutClose, ShutFinish, PmuFree
<1> QED  BY <1>1, PTL DEF Spec, SweepIsExclusive
----------------------------------------------------------------------------
(* Provider.Close closes connections with p.mu held                        *)
(* (transport/provider.go:141), and each Close waits for p.mu to remove    *)
(* the connection.                                                         *)

\* A Provider.Close that ranges over the connections has the lock; the one it
\* closes has not been removed.
ShutHolds ==
  \A g \in Shutters :
    /\ req[g] \in {"sweeping", "closing"} => pmu = g
    /\ req[g] = "closing" => phase[target[g]] # "removed"

\* A connection's own steps leave Provider.Close alone, and the map and the
\* removed phase while it has the lock.
LEMMA ShutFrame ==
  ASSUME TypeOK,
         \/ Listen
         \/ \E c \in Conns : \/ Upgrade(c) \/ HandlerStep(c) \/ ReadMessage(c)
                             \/ ReadFail(c) \/ ReaderStep(c) \/ CloseStep(c)
                             \/ AppStep(c)
         \/ \E a \in Closers : AppClose(a) \/ CloseReturn(a)
  PROVE  /\ \A g \in Shutters : req'[g] = req[g] /\ target'[g] = target[g]
         /\ pmu' = pmu
         /\ pmu # None =>
              /\ registered' = registered
              /\ \A c \in Conns : phase'[c] = "removed" => phase[c] = "removed"
<1>1. CASE Listen
  BY <1>1 DEF Listen, requests
<1>2. ASSUME NEW c \in Conns,
             \/ Upgrade(c) \/ HandlerStep(c) \/ ReadMessage(c) \/ ReadFail(c)
             \/ ReaderStep(c) \/ AppStep(c)
      PROVE  /\ UNCHANGED <<req, target, pmu, phase>>
             /\ pmu # None => registered' = registered
  <2>1. CASE Upgrade(c) \/ HandlerStep(c) \/ AppStep(c)
    BY <2>1 DEF Upgrade, HandlerStep, LookupListener, Offer, AppStep, Accept, TakeEvent,
                provider, requests
  <2>2. CASE ReadMessage(c) \/ ReadFail(c)
    BY <2>2 DEF ReadMessage, ReadFail, ReaderGoto, requests
  <2>3. CASE ReaderStep(c)
    BY <2>3 DEF ReaderStep, ReadTop, SetStreamSID, Register, WriteAudio, DTMFCallback,
                ReaderEmits, Emit, ReaderReturn, ReaderGoto, PmuFree, requests
  <2> QED  BY <1>2, <2>1, <2>2, <2>3
<1>3. ASSUME NEW c \in Conns, CloseStep(c)
      PROVE  /\ UNCHANGED <<req, target, pmu>>
             /\ pmu # None =>
                  /\ registered' = registered
                  /\ \A d \in Conns : phase'[d] = "removed" => phase[d] = "removed"
  BY <1>3 DEF CloseStep, CloseBegin, CloseChannels, CloseRemove, ClosePhase, PmuFree,
              TypeOK, requests
<1>4. ASSUME NEW a \in Closers, AppClose(a) \/ CloseReturn(a)
      PROVE  /\ UNCHANGED <<pmu, registered, phase>>
             /\ \A g \in Shutters : req'[g] = req[g] /\ target'[g] = target[g]
  <2>1. a \notin Shutters
    BY KindsAssumption
  <2> QED  BY <1>4, <2>1 DEF AppClose, CloseReturn, TypeOK, provider
<1> QED  BY <1>1, <1>2, <1>3, <1>4

\* A Provider.Close that is closing a connection stays there, with the lock and
\* the map as they were.
LEMMA ShutStays ==
  ASSUME TypeOK, ShutHolds, Next, NEW g \in Shutters, req[g] = "closing"
  PROVE  req'[g] = "closing" /\ UNCHANGED <<pmu, registered>>
<1>1. pmu = g /\ pmu # None
  BY NoneAssumption DEF ShutHolds
<1>2. ASSUME NEW h \in Shutters, ShutLock(h) \/ ShutStep(h)
      PROVE  FALSE
  <2>1. ~ShutLock(h)
    BY <1>1 DEF ShutLock, PmuFree
  <2>2. h = g
    BY <1>1, <1>2, <2>1 DEF ShutStep, ShutClose, ShutFinish, CloseReturn, ShutHolds
  <2> QED
    BY <1>2, <2>1, <2>2 DEF ShutStep, ShutClose, ShutFinish, CloseReturn, ShutHolds
<1> QED  BY <1>1, <1>2, ShutFrame DEF Next

\* Every step keeps Provider.Close's hold on the lock.
LEMMA ShutHoldsStep ==
  ASSUME TypeOK, RequestsNoted, ShutHolds, Next
  PROVE  ShutHolds'
<1>1. CASE ~\E h \in Shutters : ShutLock(h) \/ ShutStep(h)
  <2>1. /\ \A g \in Shutters : req'[g] = req[g] /\ target'[g] = target[g]
        /\ pmu' = pmu
        /\ pmu # None => \A c \in Conns : phase'[c] = "removed" => phase[c] = "removed"
    BY <1>1, ShutFrame DEF Next
  <2>2. \A g \in Shutters : req[g] = "closing" => target[g] \in Conns /\ pmu # None
    BY NoneAssumption DEF ShutHolds, RequestsNoted, TypeOK
  <2> QED  BY <2>1, <2>2 DEF ShutHolds
<1>2. ASSUME NEW h \in Shutters, ShutLock(h) \/ ShutStep(h)
      PROVE  ShutHolds'
  <2>1. /\ \A g \in Shutters \ {h} : req'[g] = req[g] /\ target'[g] = target[g]
        /\ phase' = phase
    BY <1>2 DEF ShutLock, ShutStep, ShutClose, ShutFinish, CloseReturn, TypeOK
  <2>2. CASE ShutLock(h)
    <3>1. pmu = None /\ pmu' = h /\ req'[h] = "sweeping"
      BY <2>2 DEF ShutLock, PmuFree, TypeOK
    <3>2. \A g \in Shutters : req[g] \notin {"sweeping", "closing"}
      BY <3>1, NoneAssumption DEF ShutHolds
    <3> QED  BY <2>1, <3>1, <3>2 DEF ShutHolds
  <2>3. CASE ShutClose(h)
    <3>1. /\ req[h] = "sweeping" /\ pmu' = pmu
          /\ phase[target'[h]] # "removed"
      BY <2>3 DEF ShutClose, TypeOK, provider
    <3> QED  BY <2>1, <3>1 DEF ShutHolds
  <2>4. CASE ShutFinish(h)
    <3>1. pmu = h /\ req'[h] = "returned"
      BY <2>4 DEF ShutFinish, ShutHolds, TypeOK
    <3>2. \A g \in Shutters \ {h} : req[g] \notin {"sweeping", "closing"}
      BY <3>1 DEF ShutHolds
    <3> QED  BY <2>1, <3>1, <3>2 DEF ShutHolds
  <2>5. CASE CloseReturn(h)
    BY <2>5 DEF CloseReturn, ShutHolds
  <2> QED  BY <1>2, <2>2, <2>3, <2>4, <2>5 DEF ShutStep
<1> QED  BY <1>1, <1>2

\* Provider.Close returns only when every registered connection has been removed
\* before it looks: once it closes one it keeps p.mu for good, and from then on
\* no connection enters or leaves the map.
ShutdownIsFinal ==
  [][\A g \in Shutters : req[g] = "closing" =>
       req'[g] = "closing" /\ UNCHANGED <<pmu, registered>>]_vars

\* Provider.Close with a live connection never returns, whatever the number of
\* connections and goroutines.
THEOREM CloseWithConnectionBlocks == Spec => ShutdownIsFinal
<1>1. Init => ShutHolds
  BY DEF Init, ShutHolds
<1>2. TransportInv /\ ShutHolds /\ [Next]_vars => ShutHolds'
  <2> SUFFICES ASSUME TransportInv, ShutHolds, [Next]_vars PROVE ShutHolds'
    OBVIOUS
  <2>1. CASE Next
    BY <2>1, ShutHoldsStep DEF TransportInv
  <2>2. CASE UNCHANGED vars
    BY <2>2 DEF vars, provider, requests, ShutHolds
  <2> QED  BY <2>1, <2>2
<1>3. TransportInv /\ ShutHolds /\ [Next]_vars =>
        [\A g \in Shutters : req[g] = "closing" =>
           req'[g] = "closing" /\ UNCHANGED <<pmu, registered>>]_vars
  BY ShutStays DEF TransportInv
<1> QED  BY <1>1, <1>2, <1>3, InvInit, InvStep, PTL DEF Spec, ShutdownIsFinal

=============================================================================
