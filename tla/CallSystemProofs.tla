--------------------------- MODULE CallSystemProofs ---------------------------
(* Theorems about CallSystem.                                              *)
EXTENDS CallSystem, TLAPS

\* A new call system tracks nothing, and no thread is anywhere.
LEMMA InvInit == Init => TrackingInv
  <1> SUFFICES ASSUME Init PROVE TrackingInv
    OBVIOUS
  <1> USE NoneAssumption DEF Init
  <1>1. TypeOK
    BY DEF TypeOK, Labels
  <1>2. EndedIsOver /\ CallsFiled
    BY DEF EndedIsOver, CallsFiled
  <1>3. InHand
    BY DEF InHand, At, Goroutines
  <1>4. SweepAccounts
    BY DEF SweepAccounts, At, Goroutines
  <1> QED BY <1>1, <1>2, <1>3, <1>4 DEF TrackingInv

\* Twilio's statuses map to statuses, and "completed" alone to "ended".
LEMMA Mapped ==
  ASSUME NEW w \in Words
  PROVE  /\ mapCallStatus(w) \in Statuses
         /\ mapCallStatus(w) # "unborn"
         /\ mapCallStatus(w) = "ended" <=> w = "completed"
  BY WordsAssumption DEF mapCallStatus, Statuses

----------------------------------------------------------------------------
(* The steps, by the state they touch.                                     *)

HangupStep(g) ==
  \/ HangupRequest(g, "holding")
  \/ HangupFail(g, "holding", "holding") /\ g \in Users
  \/ HangupFail(g, "holding", "sweeping") /\ g \in Closers
  \/ HangupMark(g, "holding") /\ g \in Users
  \/ HangupMark(g, "sweeping") /\ g \in Closers

\* Every step is one of these.
LEMMA NextCases ==
  ASSUME Next
  PROVE  \/ \E x \in CallSIDs : Progress(x)
         \/ \E w \in Webhooks : Incoming(w) \/ IncomingReturn(w)
         \/ \E m \in Callers : Place(m) \/ Placed(m)
         \/ \E b \in Callbacks : CallbackArrive(b) \/ CallbackApply(b)
         \/ \E u \in Users : \/ GetCall(u) \/ MissCall(u) \/ FetchCall(u)
                            \/ FetchFail(u) \/ Answer(u) \/ SetTransport(u) \/ Drop(u)
         \/ \E g \in Users \cup Closers : HangupStep(g)
         \/ \E g \in Closers : \/ CloseLock(g) \/ CloseNext(g) \/ CloseFinish(g)
                              \/ CloseTransport(g)
  BY DEF Next, FetchStep, UserStep, CloseStep, UserHangup, CloseHangup, HangupStep

\* What a call has reached it stays past.
LEMMA ReachedGrows ==
  ASSUME TrackingInv, Next
  PROVE  \A x \in CallSIDs : reached[x] \subseteq reached'[x]
  <1> USE DEF TrackingInv, TypeOK, CallsFiled, InHand, objects, requests, At
  <1>1. ASSUME NEW z \in CallSIDs, Progress(z) PROVE \A x \in CallSIDs : reached[x] \subseteq reached'[x]
    BY <1>1 DEF Progress
  <1>2. ASSUME NEW w \in Webhooks, Incoming(w) PROVE \A x \in CallSIDs : reached[x] \subseteq reached'[x]
    BY <1>2 DEF Incoming, Track
  <1>3. ASSUME NEW w \in Webhooks, IncomingReturn(w) PROVE \A x \in CallSIDs : reached[x] \subseteq reached'[x]
    BY <1>3 DEF IncomingReturn, Forget
  <1>4. ASSUME NEW m \in Callers, Place(m) PROVE \A x \in CallSIDs : reached[x] \subseteq reached'[x]
    BY <1>4 DEF Place
  <1>5. ASSUME NEW m \in Callers, Placed(m) PROVE \A x \in CallSIDs : reached[x] \subseteq reached'[x]
    BY <1>5 DEF Placed, Track
  <1>6. ASSUME NEW b \in Callbacks, CallbackArrive(b) PROVE \A x \in CallSIDs : reached[x] \subseteq reached'[x]
    BY <1>6 DEF CallbackArrive
  <1>7. ASSUME NEW b \in Callbacks, CallbackApply(b) PROVE \A x \in CallSIDs : reached[x] \subseteq reached'[x]
    BY <1>7 DEF CallbackApply, Forget
  <1>8. ASSUME NEW u \in Users, GetCall(u) PROVE \A x \in CallSIDs : reached[x] \subseteq reached'[x]
    BY <1>8 DEF GetCall
  <1>9. ASSUME NEW u \in Users, FetchCall(u) PROVE \A x \in CallSIDs : reached[x] \subseteq reached'[x]
    BY <1>9 DEF FetchCall
  <1>10. ASSUME NEW u \in Users, Answer(u) PROVE \A x \in CallSIDs : reached[x] \subseteq reached'[x]
    BY <1>10 DEF Answer
  <1>11. ASSUME NEW u \in Users, SetTransport(u) PROVE \A x \in CallSIDs : reached[x] \subseteq reached'[x]
    BY <1>11 DEF SetTransport
  <1>12. ASSUME NEW u \in Users, Drop(u) PROVE \A x \in CallSIDs : reached[x] \subseteq reached'[x]
    BY <1>12 DEF Drop, Forget
  <1>13. ASSUME NEW g \in Users \cup Closers, HangupStep(g) PROVE \A x \in CallSIDs : reached[x] \subseteq reached'[x]
    BY <1>13 DEF HangupStep, HangupRequest, HangupFail, HangupMark, Asks
  <1>14. ASSUME NEW g \in Closers, CloseLock(g) PROVE \A x \in CallSIDs : reached[x] \subseteq reached'[x]
    BY <1>14 DEF CloseLock
  <1>15. ASSUME NEW g \in Closers, CloseNext(g) PROVE \A x \in CallSIDs : reached[x] \subseteq reached'[x]
    BY <1>15 DEF CloseNext
  <1>16. ASSUME NEW g \in Closers, CloseFinish(g) PROVE \A x \in CallSIDs : reached[x] \subseteq reached'[x]
    BY <1>16 DEF CloseFinish
  <1>17. ASSUME NEW u \in Users, MissCall(u) PROVE \A x \in CallSIDs : reached[x] \subseteq reached'[x]
    BY <1>17 DEF MissCall
  <1>18. ASSUME NEW u \in Users, FetchFail(u) PROVE \A x \in CallSIDs : reached[x] \subseteq reached'[x]
    BY <1>18 DEF FetchFail, Forget
  <1>19. ASSUME NEW g \in Closers, CloseTransport(g) PROVE \A x \in CallSIDs : reached[x] \subseteq reached'[x]
    BY <1>19 DEF CloseTransport
  <1> QED BY <1>1, <1>2, <1>3, <1>4, <1>5, <1>6, <1>7, <1>8, <1>9, <1>10, <1>11, <1>12, <1>13, <1>14, <1>15, <1>16, <1>17, <1>18, <1>19, NextCases

\* A Call that has been made keeps its SID and has a status.
LEMMA BornStays ==
  ASSUME TrackingInv, Next
  PROVE  \A c \in CallIds : status[c] # "unborn" => status'[c] # "unborn" /\ sid'[c] = sid[c]
  <1> USE Mapped DEF TrackingInv, TypeOK, CallsFiled, InHand, objects, requests, At
  <1>1. ASSUME NEW x \in CallSIDs, Progress(x) PROVE \A c \in CallIds : status[c] # "unborn" => status'[c] # "unborn" /\ sid'[c] = sid[c]
    BY <1>1 DEF Progress
  <1>2. ASSUME NEW w \in Webhooks, Incoming(w) PROVE \A c \in CallIds : status[c] # "unborn" => status'[c] # "unborn" /\ sid'[c] = sid[c]
    BY <1>2 DEF Incoming, Track
  <1>3. ASSUME NEW w \in Webhooks, IncomingReturn(w) PROVE \A c \in CallIds : status[c] # "unborn" => status'[c] # "unborn" /\ sid'[c] = sid[c]
    BY <1>3 DEF IncomingReturn, Forget
  <1>4. ASSUME NEW m \in Callers, Place(m) PROVE \A c \in CallIds : status[c] # "unborn" => status'[c] # "unborn" /\ sid'[c] = sid[c]
    BY <1>4 DEF Place
  <1>5. ASSUME NEW m \in Callers, Placed(m) PROVE \A c \in CallIds : status[c] # "unborn" => status'[c] # "unborn" /\ sid'[c] = sid[c]
    BY <1>5 DEF Placed, Track
  <1>6. ASSUME NEW b \in Callbacks, CallbackArrive(b) PROVE \A c \in CallIds : status[c] # "unborn" => status'[c] # "unborn" /\ sid'[c] = sid[c]
    BY <1>6 DEF CallbackArrive
  <1>7. ASSUME NEW b \in Callbacks, CallbackApply(b) PROVE \A c \in CallIds : status[c] # "unborn" => status'[c] # "unborn" /\ sid'[c] = sid[c]
    BY <1>7 DEF CallbackApply, Forget
  <1>8. ASSUME NEW u \in Users, GetCall(u) PROVE \A c \in CallIds : status[c] # "unborn" => status'[c] # "unborn" /\ sid'[c] = sid[c]
    BY <1>8 DEF GetCall
  <1>9. ASSUME NEW u \in Users, FetchCall(u) PROVE \A c \in CallIds : status[c] # "unborn" => status'[c] # "unborn" /\ sid'[c] = sid[c]
    BY <1>9 DEF FetchCall
  <1>10. ASSUME NEW u \in Users, Answer(u) PROVE \A c \in CallIds : status[c] # "unborn" => status'[c] # "unborn" /\ sid'[c] = sid[c]
    BY <1>10 DEF Answer
  <1>11. ASSUME NEW u \in Users, SetTransport(u) PROVE \A c \in CallIds : status[c] # "unborn" => status'[c] # "unborn" /\ sid'[c] = sid[c]
    BY <1>11 DEF SetTransport
  <1>12. ASSUME NEW u \in Users, Drop(u) PROVE \A c \in CallIds : status[c] # "unborn" => status'[c] # "unborn" /\ sid'[c] = sid[c]
    BY <1>12 DEF Drop, Forget
  <1>13. ASSUME NEW g \in Users \cup Closers, HangupStep(g) PROVE \A c \in CallIds : status[c] # "unborn" => status'[c] # "unborn" /\ sid'[c] = sid[c]
    BY <1>13 DEF HangupStep, HangupRequest, HangupFail, HangupMark, Asks
  <1>14. ASSUME NEW g \in Closers, CloseLock(g) PROVE \A c \in CallIds : status[c] # "unborn" => status'[c] # "unborn" /\ sid'[c] = sid[c]
    BY <1>14 DEF CloseLock
  <1>15. ASSUME NEW g \in Closers, CloseNext(g) PROVE \A c \in CallIds : status[c] # "unborn" => status'[c] # "unborn" /\ sid'[c] = sid[c]
    BY <1>15 DEF CloseNext
  <1>16. ASSUME NEW g \in Closers, CloseFinish(g) PROVE \A c \in CallIds : status[c] # "unborn" => status'[c] # "unborn" /\ sid'[c] = sid[c]
    BY <1>16 DEF CloseFinish
  <1>17. ASSUME NEW u \in Users, MissCall(u) PROVE \A c \in CallIds : status[c] # "unborn" => status'[c] # "unborn" /\ sid'[c] = sid[c]
    BY <1>17 DEF MissCall
  <1>18. ASSUME NEW u \in Users, FetchFail(u) PROVE \A c \in CallIds : status[c] # "unborn" => status'[c] # "unborn" /\ sid'[c] = sid[c]
    BY <1>18 DEF FetchFail, Forget
  <1>19. ASSUME NEW g \in Closers, CloseTransport(g) PROVE \A c \in CallIds : status[c] # "unborn" => status'[c] # "unborn" /\ sid'[c] = sid[c]
    BY <1>19 DEF CloseTransport
  <1> QED BY <1>1, <1>2, <1>3, <1>4, <1>5, <1>6, <1>7, <1>8, <1>9, <1>10, <1>11, <1>12, <1>13, <1>14, <1>15, <1>16, <1>17, <1>18, <1>19, NextCases

\* Every step keeps the types.
LEMMA TypeStep ==
  ASSUME TrackingInv, Next
  PROVE  TypeOK'
  <1> USE NoneAssumption, WordsAssumption DEF TrackingInv, TypeOK, objects, requests, PmuFree, At, Labels, Goroutines, InHand, CallsFiled, mapCallStatus, Statuses, Final
  <1>1. ASSUME NEW x \in CallSIDs, Progress(x) PROVE TypeOK'
    BY <1>1 DEF Progress
  <1>2. ASSUME NEW w \in Webhooks, Incoming(w) PROVE TypeOK'
    BY <1>2 DEF Incoming, Track
  <1>3. ASSUME NEW w \in Webhooks, IncomingReturn(w) PROVE TypeOK'
    BY <1>3 DEF IncomingReturn, Forget
  <1>4. ASSUME NEW m \in Callers, Place(m) PROVE TypeOK'
    BY <1>4 DEF Place
  <1>5. ASSUME NEW m \in Callers, Placed(m) PROVE TypeOK'
    BY <1>5 DEF Placed, Track
  <1>6. ASSUME NEW b \in Callbacks, CallbackArrive(b) PROVE TypeOK'
    BY <1>6 DEF CallbackArrive
  <1>7. ASSUME NEW b \in Callbacks, CallbackApply(b) PROVE TypeOK'
    BY <1>7 DEF CallbackApply, Forget
  <1>8. ASSUME NEW u \in Users, GetCall(u) PROVE TypeOK'
    BY <1>8 DEF GetCall
  <1>9. ASSUME NEW u \in Users, FetchCall(u) PROVE TypeOK'
    BY <1>9 DEF FetchCall
  <1>10. ASSUME NEW u \in Users, Answer(u) PROVE TypeOK'
    BY <1>10 DEF Answer
  <1>11. ASSUME NEW u \in Users, SetTransport(u) PROVE TypeOK'
    BY <1>11 DEF SetTransport
  <1>12. ASSUME NEW u \in Users, Drop(u) PROVE TypeOK'
    BY <1>12 DEF Drop, Forget
  <1>13. ASSUME NEW g \in Users \cup Closers, HangupStep(g) PROVE TypeOK'
    BY <1>13 DEF HangupStep, HangupRequest, HangupFail, HangupMark, Asks
  <1>14. ASSUME NEW g \in Closers, CloseLock(g) PROVE TypeOK'
    BY <1>14 DEF CloseLock
  <1>15. ASSUME NEW g \in Closers, CloseNext(g) PROVE TypeOK'
    BY <1>15 DEF CloseNext
  <1>16. ASSUME NEW g \in Closers, CloseFinish(g) PROVE TypeOK'
    BY <1>16 DEF CloseFinish
  <1>17. ASSUME NEW u \in Users, MissCall(u) PROVE TypeOK'
    BY <1>17 DEF MissCall
  <1>18. ASSUME NEW u \in Users, FetchFail(u) PROVE TypeOK'
    BY <1>18 DEF FetchFail, Forget
  <1>19. ASSUME NEW g \in Closers, CloseTransport(g) PROVE TypeOK'
    BY <1>19 DEF CloseTransport
  <1> QED BY <1>1, <1>2, <1>3, <1>4, <1>5, <1>6, <1>7, <1>8, <1>9, <1>10, <1>11, <1>12, <1>13, <1>14, <1>15, <1>16, <1>17, <1>18, <1>19, NextCases

\* Every step leaves an ended Call with a call that is over.
LEMMA EndedStep ==
  ASSUME TrackingInv, Next
  PROVE  EndedIsOver'
  <1> USE NoneAssumption, WordsAssumption, ReachedGrows DEF TrackingInv, TypeOK, objects, requests, PmuFree, At, EndedIsOver, InHand, CallsFiled, Over, mapCallStatus, Final, Goroutines
  <1>1. ASSUME NEW x \in CallSIDs, Progress(x) PROVE EndedIsOver'
    BY <1>1 DEF Progress
  <1>2. ASSUME NEW w \in Webhooks, Incoming(w) PROVE EndedIsOver'
    BY <1>2 DEF Incoming, Track
  <1>3. ASSUME NEW w \in Webhooks, IncomingReturn(w) PROVE EndedIsOver'
    BY <1>3 DEF IncomingReturn, Forget
  <1>4. ASSUME NEW m \in Callers, Place(m) PROVE EndedIsOver'
    BY <1>4 DEF Place
  <1>5. ASSUME NEW m \in Callers, Placed(m) PROVE EndedIsOver'
    BY <1>5 DEF Placed, Track
  <1>6. ASSUME NEW b \in Callbacks, CallbackArrive(b) PROVE EndedIsOver'
    BY <1>6 DEF CallbackArrive
  <1>7. ASSUME NEW b \in Callbacks, CallbackApply(b) PROVE EndedIsOver'
    BY <1>7 DEF CallbackApply, Forget
  <1>8. ASSUME NEW u \in Users, GetCall(u) PROVE EndedIsOver'
    BY <1>8 DEF GetCall
  <1>9. ASSUME NEW u \in Users, FetchCall(u) PROVE EndedIsOver'
    BY <1>9 DEF FetchCall
  <1>10. ASSUME NEW u \in Users, Answer(u) PROVE EndedIsOver'
    BY <1>10 DEF Answer
  <1>11. ASSUME NEW u \in Users, SetTransport(u) PROVE EndedIsOver'
    BY <1>11 DEF SetTransport
  <1>12. ASSUME NEW u \in Users, Drop(u) PROVE EndedIsOver'
    BY <1>12 DEF Drop, Forget
  <1>13. ASSUME NEW g \in Users \cup Closers, HangupStep(g) PROVE EndedIsOver'
    BY <1>13 DEF HangupStep, HangupRequest, HangupFail, HangupMark, Asks
  <1>14. ASSUME NEW g \in Closers, CloseLock(g) PROVE EndedIsOver'
    BY <1>14 DEF CloseLock
  <1>15. ASSUME NEW g \in Closers, CloseNext(g) PROVE EndedIsOver'
    BY <1>15 DEF CloseNext
  <1>16. ASSUME NEW g \in Closers, CloseFinish(g) PROVE EndedIsOver'
    BY <1>16 DEF CloseFinish
  <1>17. ASSUME NEW u \in Users, MissCall(u) PROVE EndedIsOver'
    BY <1>17 DEF MissCall
  <1>18. ASSUME NEW u \in Users, FetchFail(u) PROVE EndedIsOver'
    BY <1>18 DEF FetchFail, Forget
  <1>19. ASSUME NEW g \in Closers, CloseTransport(g) PROVE EndedIsOver'
    BY <1>19 DEF CloseTransport
  <1> QED BY <1>1, <1>2, <1>3, <1>4, <1>5, <1>6, <1>7, <1>8, <1>9, <1>10, <1>11, <1>12, <1>13, <1>14, <1>15, <1>16, <1>17, <1>18, <1>19, NextCases

\* Every step keeps the map and the Calls in agreement.
LEMMA FiledStep ==
  ASSUME TrackingInv, Next
  PROVE  CallsFiled'
  <1> USE NoneAssumption, ReachedGrows, Mapped DEF TrackingInv, TypeOK, objects, requests, PmuFree, At, CallsFiled, InHand
  <1>1. ASSUME NEW x \in CallSIDs, Progress(x) PROVE CallsFiled'
    BY <1>1 DEF Progress
  <1>2. ASSUME NEW w \in Webhooks, Incoming(w) PROVE CallsFiled'
    BY <1>2 DEF Incoming, Track
  <1>3. ASSUME NEW w \in Webhooks, IncomingReturn(w) PROVE CallsFiled'
    BY <1>3 DEF IncomingReturn, Forget
  <1>4. ASSUME NEW m \in Callers, Place(m) PROVE CallsFiled'
    BY <1>4 DEF Place
  <1>5. ASSUME NEW m \in Callers, Placed(m) PROVE CallsFiled'
    BY <1>5 DEF Placed, Track
  <1>6. ASSUME NEW b \in Callbacks, CallbackArrive(b) PROVE CallsFiled'
    BY <1>6 DEF CallbackArrive
  <1>7. ASSUME NEW b \in Callbacks, CallbackApply(b) PROVE CallsFiled'
    BY <1>7 DEF CallbackApply, Forget
  <1>8. ASSUME NEW u \in Users, GetCall(u) PROVE CallsFiled'
    BY <1>8 DEF GetCall
  <1>9. ASSUME NEW u \in Users, FetchCall(u) PROVE CallsFiled'
    BY <1>9 DEF FetchCall
  <1>10. ASSUME NEW u \in Users, Answer(u) PROVE CallsFiled'
    BY <1>10 DEF Answer
  <1>11. ASSUME NEW u \in Users, SetTransport(u) PROVE CallsFiled'
    BY <1>11 DEF SetTransport
  <1>12. ASSUME NEW u \in Users, Drop(u) PROVE CallsFiled'
    BY <1>12 DEF Drop, Forget
  <1>13. ASSUME NEW g \in Users \cup Closers, HangupStep(g) PROVE CallsFiled'
    BY <1>13 DEF HangupStep, HangupRequest, HangupFail, HangupMark, Asks
  <1>14. ASSUME NEW g \in Closers, CloseLock(g) PROVE CallsFiled'
    BY <1>14 DEF CloseLock
  <1>15. ASSUME NEW g \in Closers, CloseNext(g) PROVE CallsFiled'
    BY <1>15 DEF CloseNext
  <1>16. ASSUME NEW g \in Closers, CloseFinish(g) PROVE CallsFiled'
    BY <1>16 DEF CloseFinish
  <1>17. ASSUME NEW u \in Users, MissCall(u) PROVE CallsFiled'
    BY <1>17 DEF MissCall
  <1>18. ASSUME NEW u \in Users, FetchFail(u) PROVE CallsFiled'
    BY <1>18 DEF FetchFail, Forget
  <1>19. ASSUME NEW g \in Closers, CloseTransport(g) PROVE CallsFiled'
    BY <1>19 DEF CloseTransport
  <1> QED BY <1>1, <1>2, <1>3, <1>4, <1>5, <1>6, <1>7, <1>8, <1>9, <1>10, <1>11, <1>12, <1>13, <1>14, <1>15, <1>16, <1>17, <1>18, <1>19, NextCases

\* Every step leaves threads with SIDs and Calls that exist.
LEMMA InHandStep ==
  ASSUME TrackingInv, Next
  PROVE  InHand'
  <1> USE NoneAssumption, ThreadsAssumption, ReachedGrows, BornStays DEF TrackingInv, TypeOK, objects, requests, PmuFree, At, CallsFiled, InHand, Over, Goroutines
  <1>1. ASSUME NEW x \in CallSIDs, Progress(x) PROVE InHand'
    BY <1>1 DEF Progress
  <1>2. ASSUME NEW w \in Webhooks, Incoming(w) PROVE InHand'
    BY <1>2 DEF Incoming, Track
  <1>3. ASSUME NEW w \in Webhooks, IncomingReturn(w) PROVE InHand'
    BY <1>3 DEF IncomingReturn, Forget
  <1>4. ASSUME NEW m \in Callers, Place(m) PROVE InHand'
    BY <1>4 DEF Place
  <1>5. ASSUME NEW m \in Callers, Placed(m) PROVE InHand'
    BY <1>5 DEF Placed, Track
  <1>6. ASSUME NEW b \in Callbacks, CallbackArrive(b) PROVE InHand'
    BY <1>6 DEF CallbackArrive
  <1>7. ASSUME NEW b \in Callbacks, CallbackApply(b) PROVE InHand'
    BY <1>7 DEF CallbackApply, Forget
  <1>8. ASSUME NEW u \in Users, GetCall(u) PROVE InHand'
    BY <1>8 DEF GetCall
  <1>9. ASSUME NEW u \in Users, FetchCall(u) PROVE InHand'
    BY <1>9, Mapped DEF FetchCall
  <1>10. ASSUME NEW u \in Users, Answer(u) PROVE InHand'
    BY <1>10 DEF Answer
  <1>11. ASSUME NEW u \in Users, SetTransport(u) PROVE InHand'
    BY <1>11 DEF SetTransport
  <1>12. ASSUME NEW u \in Users, Drop(u) PROVE InHand'
    BY <1>12 DEF Drop, Forget
  <1>13. ASSUME NEW g \in Users \cup Closers, HangupStep(g) PROVE InHand'
    <2>1. held[g] \in CallIds /\ sid[held[g]] \in CallSIDs
      BY <1>13 DEF HangupStep, HangupRequest, HangupFail, HangupMark
    <2>2. \A b \in Callbacks : req'[b] = req[b]
      BY <1>13, <2>1 DEF HangupStep, HangupRequest, HangupFail, HangupMark
    <2>3. \A m \in Callers : req'[m] = req[m]
      BY <1>13, <2>1 DEF HangupStep, HangupRequest, HangupFail, HangupMark
    <2>4. arg' = arg /\ held' = held /\ word' = word /\ sid' = sid
      BY <1>13 DEF HangupStep, HangupRequest, HangupFail, HangupMark
    <2>5. \A h \in (Users \cup Closers) \ {g} : req'[h] = req[h]
      BY <1>13 DEF HangupStep, HangupRequest, HangupFail, HangupMark
    <2>6. req'[g] = "requested" => Over(sid[held[g]])'
      <3>1. CASE HangupRequest(g, "holding")
        <4> DEFINE x == sid[held[g]]
        <4>1. reached[x] # {}
          BY <3>1, <2>1 DEF HangupRequest
        <4>2. reached'[x] = IF Active(x) THEN reached[x] \cup {"completed"} ELSE reached[x]
          BY <3>1, <2>1, ZenonT(60) DEF HangupRequest
        <4>3. reached'[x] \cap Final # {}
          BY <4>1, <4>2 DEF Active, Final
        <4> QED BY <4>3, <2>4
      <3>2. CASE ~HangupRequest(g, "holding")
        BY <1>13, <3>2 DEF HangupStep, HangupFail, HangupMark
      <3> QED BY <3>1, <3>2
    <2>7. \A h \in (Users \cup Closers) \ {g} :
            req'[h] = "requested" => Over(sid[held[h]])'
      BY <2>4, <2>5
    <2>8. \A h \in Users \cup Closers :
            req'[h] \in {"holding", "requested"} =>
              held'[h] \in CallIds /\ status'[held'[h]] # "unborn"
      BY <1>13, <2>1, <2>4, <2>5
         DEF HangupStep, HangupRequest, HangupFail, HangupMark
    <2>9. \A u \in Users : req'[u] = "fetching" => arg'[u] \in CallSIDs
      BY <1>13, <2>4, <2>5 DEF HangupStep, HangupRequest, HangupFail, HangupMark
    <2> QED BY <2>2, <2>3, <2>4, <2>6, <2>7, <2>8, <2>9
  <1>14. ASSUME NEW g \in Closers, CloseLock(g) PROVE InHand'
    BY <1>14 DEF CloseLock
  <1>15. ASSUME NEW g \in Closers, CloseNext(g) PROVE InHand'
    <2>1. \E x \in todo : held'[g] = calls[x] /\ calls[x] \in CallIds
      BY <1>15 DEF CloseNext, SweepAccounts
    <2>2. held'[g] \in CallIds /\ status'[held'[g]] # "unborn"
      BY <1>15, <2>1 DEF CloseNext, SweepAccounts
    <2> QED BY <1>15, <2>2 DEF CloseNext
  <1>16. ASSUME NEW g \in Closers, CloseFinish(g) PROVE InHand'
    BY <1>16 DEF CloseFinish
  <1>17. ASSUME NEW u \in Users, MissCall(u) PROVE InHand'
    BY <1>17 DEF MissCall
  <1>18. ASSUME NEW u \in Users, FetchFail(u) PROVE InHand'
    BY <1>18 DEF FetchFail, Forget
  <1>19. ASSUME NEW g \in Closers, CloseTransport(g) PROVE InHand'
    BY <1>19 DEF CloseTransport
  <1> QED BY <1>1, <1>2, <1>3, <1>4, <1>5, <1>6, <1>7, <1>8, <1>9, <1>10, <1>11, <1>12, <1>13, <1>14, <1>15, <1>16, <1>17, <1>18, <1>19, NextCases

\* Every step keeps Close's account of the tracked calls.
LEMMA SweepStep ==
  ASSUME TrackingInv, Next
  PROVE  SweepAccounts'
  <1> USE NoneAssumption, ThreadsAssumption DEF TrackingInv, TypeOK, objects, requests, PmuFree, At, SweepAccounts, CallsFiled, InHand, Goroutines
  <1>1. ASSUME NEW x \in CallSIDs, Progress(x) PROVE SweepAccounts'
    BY <1>1 DEF Progress
  <1>2. ASSUME NEW w \in Webhooks, Incoming(w) PROVE SweepAccounts'
    BY <1>2 DEF Incoming, Track
  <1>3. ASSUME NEW w \in Webhooks, IncomingReturn(w) PROVE SweepAccounts'
    BY <1>3 DEF IncomingReturn, Forget
  <1>4. ASSUME NEW m \in Callers, Place(m) PROVE SweepAccounts'
    BY <1>4 DEF Place
  <1>5. ASSUME NEW m \in Callers, Placed(m) PROVE SweepAccounts'
    BY <1>5 DEF Placed, Track
  <1>6. ASSUME NEW b \in Callbacks, CallbackArrive(b) PROVE SweepAccounts'
    BY <1>6 DEF CallbackArrive
  <1>7. ASSUME NEW b \in Callbacks, CallbackApply(b) PROVE SweepAccounts'
    BY <1>7 DEF CallbackApply, Forget
  <1>8. ASSUME NEW u \in Users, GetCall(u) PROVE SweepAccounts'
    BY <1>8 DEF GetCall
  <1>9. ASSUME NEW u \in Users, FetchCall(u) PROVE SweepAccounts'
    BY <1>9 DEF FetchCall
  <1>10. ASSUME NEW u \in Users, Answer(u) PROVE SweepAccounts'
    BY <1>10 DEF Answer
  <1>11. ASSUME NEW u \in Users, SetTransport(u) PROVE SweepAccounts'
    BY <1>11 DEF SetTransport
  <1>12. ASSUME NEW u \in Users, Drop(u) PROVE SweepAccounts'
    BY <1>12 DEF Drop, Forget
  <1>13. ASSUME NEW g \in Users \cup Closers, HangupStep(g) PROVE SweepAccounts'
    BY <1>13 DEF HangupStep, HangupRequest, HangupFail, HangupMark, Asks
  <1>14. ASSUME NEW g \in Closers, CloseLock(g) PROVE SweepAccounts'
    BY <1>14 DEF CloseLock
  <1>15. ASSUME NEW g \in Closers, CloseNext(g) PROVE SweepAccounts'
    BY <1>15 DEF CloseNext
  <1>16. ASSUME NEW g \in Closers, CloseFinish(g) PROVE SweepAccounts'
    BY <1>16 DEF CloseFinish
  <1>17. ASSUME NEW u \in Users, MissCall(u) PROVE SweepAccounts'
    BY <1>17 DEF MissCall
  <1>18. ASSUME NEW u \in Users, FetchFail(u) PROVE SweepAccounts'
    BY <1>18 DEF FetchFail, Forget
  <1>19. ASSUME NEW g \in Closers, CloseTransport(g) PROVE SweepAccounts'
    BY <1>19 DEF CloseTransport
  <1> QED BY <1>1, <1>2, <1>3, <1>4, <1>5, <1>6, <1>7, <1>8, <1>9, <1>10, <1>11, <1>12, <1>13, <1>14, <1>15, <1>16, <1>17, <1>18, <1>19, NextCases

\* Every step keeps the invariant.
LEMMA InvStep == TrackingInv /\ [Next]_vars => TrackingInv'
  <1> SUFFICES ASSUME TrackingInv, [Next]_vars PROVE TrackingInv'
    OBVIOUS
  <1>1. CASE UNCHANGED vars
    BY <1>1 DEF vars, objects, requests, TrackingInv, TypeOK, EndedIsOver, CallsFiled,
                InHand, SweepAccounts, At, Over
  <1>2. CASE Next
    BY <1>2, TypeStep, EndedStep, FiledStep, InHandStep, SweepStep DEF TrackingInv
  <1> QED BY <1>1, <1>2

\* A call leaves the map only by its "completed" callback or by a Close that
\* has asked for its hangup.
LEMMA DropStep ==
  ASSUME TrackingInv, [Next]_vars
  PROVE  \A x \in CallSIDs :
           calls[x] # None /\ calls'[x] = None =>
             calls[x] \in asked \/ "completed" \in reached[x]
  <1> SUFFICES ASSUME NEW x \in CallSIDs, calls[x] # None, calls'[x] = None
               PROVE  calls[x] \in asked \/ "completed" \in reached[x]
    OBVIOUS
  <1> USE NoneAssumption DEF TrackingInv, TypeOK, objects, requests, At
  <1>1. CASE UNCHANGED vars
    BY <1>1 DEF vars
  <1>2. ASSUME NEW b \in Callbacks, CallbackApply(b)
        PROVE  "completed" \in reached[x]
    <2>1. word[b] \in reached[arg[b]] /\ arg[b] \in CallSIDs
      BY <1>2 DEF CallbackApply, InHand
    <2>2. mapCallStatus(word[b]) = "ended" /\ arg[b] = x
      BY <1>2, <2>1 DEF CallbackApply
    <2> QED BY <2>1, <2>2, Mapped
  <1>3. ASSUME NEW g \in Closers, CloseFinish(g)
        PROVE  calls[x] \in asked
    <2>1. pmu = g
      BY <1>3 DEF CloseFinish, SweepAccounts
    <2> QED BY <1>3, <2>1 DEF CloseFinish, SweepAccounts
  <1>4. CASE Next
    <2>1. ASSUME NEW w \in Webhooks, Incoming(w) \/ IncomingReturn(w) PROVE FALSE
      BY <2>1 DEF Incoming, Track, IncomingReturn
    <2>2. ASSUME NEW m \in Callers, Place(m) \/ Placed(m) PROVE FALSE
      BY <2>2 DEF Placed, Track, Place
    <2>3. ASSUME NEW b \in Callbacks, CallbackArrive(b) PROVE FALSE
      BY <2>3 DEF CallbackArrive
    <2>4. ASSUME NEW u \in Users,
                 \/ GetCall(u) \/ MissCall(u) \/ FetchCall(u)
                 \/ FetchFail(u) \/ Answer(u) \/ SetTransport(u) \/ Drop(u)
          PROVE  FALSE
      BY <2>4 DEF GetCall, MissCall, FetchCall, FetchFail, Answer, SetTransport, Drop
    <2>5. ASSUME NEW g \in Users \cup Closers, HangupStep(g) PROVE FALSE
      BY <2>5 DEF HangupStep, HangupRequest, HangupFail, HangupMark
    <2>6. ASSUME NEW g \in Closers, CloseLock(g) \/ CloseNext(g) \/ CloseTransport(g)
          PROVE  FALSE
      BY <2>6 DEF CloseLock, CloseNext, CloseTransport
    <2>7. ASSUME NEW y \in CallSIDs, Progress(y) PROVE FALSE
      BY <2>7 DEF Progress
    <2> QED BY <1>2, <1>3, <1>4, <2>1, <2>2, <2>3, <2>4, <2>5, <2>6, <2>7, NextCases
  <1> QED BY <1>1, <1>4

----------------------------------------------------------------------------
(* Theorems                                                                *)

\* The call system's invariant: the map agrees with the Calls, a Hangup marks
\* only calls that are over, and Close accounts for every tracked call.
THEOREM TrackingCorrect == Spec => []TrackingInv
  BY InvInit, InvStep, PTL DEF Spec

\* A Call whose status is "ended" is over at Twilio.
THEOREM EndedMeansOver == Spec => []EndedIsOver
  <1>1. TrackingInv => EndedIsOver
    BY DEF TrackingInv
  <1> QED BY <1>1, TrackingCorrect, PTL

\* No call slips out of the map unasked while it may still be up.
THEOREM NoneSlipsAway == Spec => DroppedOnlyWhenDone
  <1>1. TrackingInv /\ [Next]_vars =>
          [\A x \in CallSIDs :
             calls[x] # None /\ calls'[x] = None =>
               calls[x] \in asked \/ "completed" \in reached[x]]_vars
    BY DropStep
  <1> QED BY <1>1, TrackingCorrect, PTL DEF Spec, DroppedOnlyWhenDone
=============================================================================
