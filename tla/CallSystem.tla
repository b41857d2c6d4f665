----------------------------- MODULE CallSystem -----------------------------
(***************************************************************************)
(* The call system provider (omnivoice/callsystem): the calls it tracks    *)
(* under p.mu, the two handlers of Twilio's webhooks, MakeCall, what an    *)
(* application does with a Call (Answer, SetTransport, Hangup) and Close,  *)
(* which hangs up every tracked call over the network with p.mu held.      *)
(*                                                                         *)
(* Twilio reports each state a call reaches in a status callback of its    *)
(* own; callbacks may be delayed and overtake each other.                  *)
(***************************************************************************)
CONSTANTS
  CallSIDs,  \* Twilio call identifiers
  CallIds,   \* identities of *Call objects
  Webhooks,  \* threads that run HandleIncomingWebhook, again and again
  Callers,   \* goroutines in MakeCall, one call each
  Callbacks, \* threads that run HandleStatusCallback, again and again
  Users,     \* threads of the application that obtain a Call, use it, forget it
  Closers,   \* goroutines in Provider.Close
  Words,     \* the Twilio call statuses of an instance
  None

ASSUME NoneAssumption == None \notin CallSIDs \cup CallIds \cup Closers \cup Words

ASSUME ThreadsAssumption ==
  /\ Webhooks \cap (Callers \cup Callbacks \cup Users \cup Closers) = {}
  /\ Callers \cap (Callbacks \cup Users \cup Closers) = {}
  /\ Callbacks \cap (Users \cup Closers) = {}
  /\ Users \cap Closers = {}

ASSUME WordsAssumption ==
  /\ {"ringing", "completed"} \subseteq Words
  /\ Words \subseteq {"ringing", "in-progress", "completed", "busy", "no-answer", "failed"}

VARIABLES
  pmu,     \* Provider.mu's writer across steps: a goroutine in Close, or None
  calls,   \* Provider.calls: call SID -> Call, None if absent
  status,  \* per Call: its status, "unborn" before it is made
  sid,     \* per Call: its call SID
  wired,   \* Calls whose transport is set
  cut,     \* Calls whose transport Hangup has closed
  req,     \* per goroutine: its place
  arg,     \* per goroutine: the SID in hand
  held,    \* per goroutine: the Call in hand
  word,    \* per callback: the status it carries
  reached, \* per SID: the Twilio statuses the call has gone through
  asked,   \* Calls whose hangup Close has requested of Twilio
  todo     \* the SIDs Close's range over calls has still to visit

objects  == <<status, sid, wired, cut>>
requests == <<req, arg, held, word>>
vars     == <<pmu, calls, objects, requests, reached, asked, todo>>

Goroutines == Webhooks \cup Callers \cup Callbacks \cup Users \cup Closers
Statuses == {"ringing", "answered", "ended", "busy", "noanswer", "failed"}
Final == {"completed", "busy", "no-answer", "failed"}
Labels == {"idle", "handler", "placed", "arrived", "fetching", "holding", "requested",
           "sweeping", "transport", "returned"}

\* "queued" maps as "ringing" does, "canceled" as "failed".
mapCallStatus(w) ==
  CASE w = "ringing"     -> "ringing"
    [] w = "in-progress" -> "answered"
    [] w = "completed"   -> "ended"
    [] w = "busy"        -> "busy"
    [] w = "no-answer"   -> "noanswer"
    [] w = "failed"      -> "failed"

TypeOK ==
  /\ pmu \in Closers \cup {None}
  /\ calls \in [CallSIDs -> CallIds \cup {None}]
  /\ status \in [CallIds -> Statuses \cup {"unborn"}]
  /\ sid \in [CallIds -> CallSIDs \cup {None}]
  /\ wired \subseteq CallIds /\ cut \subseteq CallIds
  /\ req \in [Goroutines -> Labels]
  /\ arg \in [Goroutines -> CallSIDs \cup {None}]
  /\ held \in [Goroutines -> CallIds \cup {None}]
  /\ word \in [Callbacks -> Words \cup {None}]
  /\ reached \in [CallSIDs -> SUBSET Words]
  /\ asked \subseteq CallIds /\ todo \subseteq CallSIDs

Init ==
  /\ pmu = None
  /\ calls = [x \in CallSIDs |-> None]
  /\ status = [c \in CallIds |-> "unborn"]
  /\ sid = [c \in CallIds |-> None]
  /\ wired = {} /\ cut = {}
  /\ req = [g \in Goroutines |-> "idle"]
  /\ arg = [g \in Goroutines |-> None]
  /\ held = [g \in Goroutines |-> None]
  /\ word = [b \in Callbacks |-> None]
  /\ reached = [x \in CallSIDs |-> {}]
  /\ asked = {} /\ todo = {}

PmuFree == pmu = None
At(g, label) == req[g] = label

\* A thread is done with its request.
Forget(g) ==
  /\ req' = [req EXCEPT ![g] = "idle"]
  /\ arg' = [arg EXCEPT ![g] = None]
  /\ held' = [held EXCEPT ![g] = None]

----------------------------------------------------------------------------
(* Twilio: a call exists from its first status, and one final status ends  *)
(* it.                                                                     *)

Over(x) == reached[x] \cap Final # {}
Active(x) == reached[x] # {} /\ ~Over(x)

\* The call is answered, or ends: an answered call is only ever completed.
Progress(x) ==
  /\ Active(x)
  /\ \E w \in Words \ reached[x] :
       /\ "in-progress" \in reached[x] => w = "completed"
       /\ reached' = [reached EXCEPT ![x] = @ \cup {w}]
  /\ UNCHANGED <<pmu, calls, objects, requests, asked, todo>>

----------------------------------------------------------------------------
(* HandleIncomingWebhook                                                   *)

\* Mutant: the map is written without p.mu.
TrackUnlocked(c, x, st) ==
  /\ status[c] = "unborn"
  /\ status' = [status EXCEPT ![c] = st]
  /\ sid' = [sid EXCEPT ![c] = x]
  /\ calls' = [calls EXCEPT ![x] = c]
  /\ UNCHANGED <<pmu, wired, cut>>

\* A fresh Call in the map, whatever was there.
Track(c, x, st) ==
  /\ PmuFree
  /\ status[c] = "unborn"
  /\ status' = [status EXCEPT ![c] = st]
  /\ sid' = [sid EXCEPT ![c] = x]
  /\ calls' = [calls EXCEPT ![x] = c]
  /\ UNCHANGED <<pmu, wired, cut>>

\* The Call is tracked before the application's handler is asked.
Incoming(w) ==
  /\ At(w, "idle")
  /\ \E x \in CallSIDs, c \in CallIds :
       /\ reached[x] \in {{}, {"ringing"}}
       /\ \A m \in Callers : arg[m] # x
       /\ Track(c, x, "ringing")
       /\ req' = [req EXCEPT ![w] = "handler"]
       /\ arg' = [arg EXCEPT ![w] = x]
       /\ held' = [held EXCEPT ![w] = c]
       /\ reached' = [reached EXCEPT ![x] = {"ringing"}]
  /\ UNCHANGED <<word, asked, todo>>

\* It accepts or returns an error; the Call stays tracked in both cases.
IncomingReturn(w) ==
  /\ At(w, "handler")
  /\ Forget(w)
  /\ UNCHANGED <<pmu, calls, objects, word, reached, asked, todo>>

(* MakeCall                                                                *)

\* client.MakeCall: Twilio has queued the call.
Place(m) ==
  /\ At(m, "idle")
  /\ \E x \in CallSIDs :
       /\ reached[x] = {}
       /\ reached' = [reached EXCEPT ![x] = {"ringing"}]
       /\ req' = [req EXCEPT ![m] = "placed"]
       /\ arg' = [arg EXCEPT ![m] = x]
  /\ UNCHANGED <<pmu, calls, objects, held, word, asked, todo>>

Placed(m) ==
  /\ At(m, "placed")
  /\ \E c \in CallIds :
       /\ Track(c, arg[m], "ringing")
       /\ req' = [req EXCEPT ![m] = "returned"]
       /\ held' = [held EXCEPT ![m] = c]
  /\ UNCHANGED <<arg, word, reached, asked, todo>>

(* HandleStatusCallback                                                    *)

\* Twilio posts a status some call has reached.
CallbackArrive(b) ==
  /\ At(b, "idle")
  /\ \E x \in CallSIDs, w \in Words :
       /\ w \in reached[x]
       /\ arg' = [arg EXCEPT ![b] = x]
       /\ word' = [word EXCEPT ![b] = w]
  /\ req' = [req EXCEPT ![b] = "arrived"]
  /\ UNCHANGED <<pmu, calls, objects, held, reached, asked, todo>>

CallbackApply(b) ==
  LET c  == calls[arg[b]]
      st == mapCallStatus(word[b])
  IN
  /\ At(b, "arrived")
  /\ PmuFree
  /\ Forget(b)
  /\ word' = [word EXCEPT ![b] = None]
  /\ status' = IF c = None THEN status ELSE [status EXCEPT ![c] = st]
  /\ calls' = IF st = "ended" THEN [calls EXCEPT ![arg[b]] = None] ELSE calls
  /\ UNCHANGED <<pmu, sid, wired, cut, reached, asked, todo>>

----------------------------------------------------------------------------
(* The application: GetCall or what MakeCall returned, then the Call.      *)

GetCall(u) ==
  /\ At(u, "idle")
  /\ \E c \in CallIds :
       /\ \/ PmuFree /\ \E x \in CallSIDs : calls[x] = c
          \/ \E m \in Callers : At(m, "returned") /\ held[m] = c
       /\ held' = [held EXCEPT ![u] = c]
  /\ req' = [req EXCEPT ![u] = "holding"]
  /\ UNCHANGED <<pmu, calls, objects, arg, word, reached, asked, todo>>

\* A call that is not tracked is asked of Twilio, with p.mu unlocked again: it
\* may be tracked by the time Twilio answers.
MissCall(u) ==
  /\ At(u, "idle")
  /\ PmuFree
  /\ \E x \in CallSIDs :
       /\ calls[x] = None
       /\ arg' = [arg EXCEPT ![u] = x]
  /\ req' = [req EXCEPT ![u] = "fetching"]
  /\ UNCHANGED <<pmu, calls, objects, held, word, reached, asked, todo>>

\* Twilio knows the call: a Call of the user's own, that is not tracked.
FetchCall(u) ==
  /\ At(u, "fetching")
  /\ \E c \in CallIds, w \in reached[arg[u]] :
       /\ Over(arg[u]) => w \in Final
       /\ status[c] = "unborn"
       /\ status' = [status EXCEPT ![c] = mapCallStatus(w)]
       /\ sid' = [sid EXCEPT ![c] = arg[u]]
       /\ held' = [held EXCEPT ![u] = c]
  /\ arg' = [arg EXCEPT ![u] = None]
  /\ req' = [req EXCEPT ![u] = "holding"]
  /\ UNCHANGED <<pmu, calls, wired, cut, word, reached, asked, todo>>

\* It does not, or the request fails.
FetchFail(u) ==
  /\ At(u, "fetching")
  /\ Forget(u)
  /\ UNCHANGED <<pmu, calls, objects, word, reached, asked, todo>>

Answer(u) ==
  /\ At(u, "holding")
  /\ status' = [status EXCEPT ![held[u]] = "answered"]
  /\ UNCHANGED <<pmu, calls, sid, wired, cut, requests, reached, asked, todo>>

SetTransport(u) ==
  /\ At(u, "holding")
  /\ wired' = wired \cup {held[u]}
  /\ cut' = cut \ {held[u]}
  /\ UNCHANGED <<pmu, calls, status, sid, requests, reached, asked, todo>>

(* Call.Hangup, by a user or by Close (which ignores its error)            *)

Asks(g) == asked' = IF g \in Closers THEN asked \cup {held[g]} ELSE asked

\* The request ends the call at Twilio, ...
HangupRequest(g, from) ==
  /\ At(g, from)
  /\ req' = [req EXCEPT ![g] = "requested"]
  /\ Asks(g)
  /\ reached' = [reached EXCEPT ![sid[held[g]]] =
                   IF Active(sid[held[g]]) THEN @ \cup {"completed"} ELSE @]
  /\ UNCHANGED <<pmu, calls, objects, arg, held, word, todo>>

\* Mutant: the error is not looked at.
HangupIgnoresError(g, from, to) ==
  /\ At(g, from)
  /\ req' = [req EXCEPT ![g] = "requested"]
  /\ Asks(g)
  /\ UNCHANGED <<pmu, calls, objects, arg, held, word, reached, todo>>

\* Mutant: Close returns at the first error, and p.mu stays locked.
HangupReturns(g, from, to) ==
  /\ At(g, from)
  /\ req' = [req EXCEPT ![g] = IF g \in Closers THEN "returned" ELSE to]
  /\ Asks(g)
  /\ UNCHANGED <<pmu, calls, objects, arg, held, word, reached, todo>>

\* ... or fails: nothing else happens.
HangupFail(g, from, to) ==
  /\ At(g, from)
  /\ req' = [req EXCEPT ![g] = to]
  /\ Asks(g)
  /\ UNCHANGED <<pmu, calls, objects, arg, held, word, reached, todo>>

\* Mutant: Hangup also takes p.mu, to untrack the call.
HangupUntracks(g, to) ==
  /\ At(g, "requested")
  /\ PmuFree
  /\ status' = [status EXCEPT ![held[g]] = "ended"]
  /\ calls' = [calls EXCEPT ![sid[held[g]]] = None]
  /\ req' = [req EXCEPT ![g] = to]
  /\ UNCHANGED <<pmu, sid, wired, cut, arg, held, word, reached, asked, todo>>

\* The Call is marked under c.mu and its transport closed; it stays tracked.
HangupMark(g, to) ==
  /\ At(g, "requested")
  /\ status' = [status EXCEPT ![held[g]] = "ended"]
  /\ cut' = IF held[g] \in wired THEN cut \cup {held[g]} ELSE cut
  /\ req' = [req EXCEPT ![g] = to]
  /\ UNCHANGED <<pmu, calls, sid, wired, arg, held, word, reached, asked, todo>>

UserHangup(u) ==
  \/ HangupRequest(u, "holding")
  \/ HangupFail(u, "holding", "holding")
  \/ HangupMark(u, "holding")

Drop(u) ==
  /\ At(u, "holding")
  /\ Forget(u)
  /\ UNCHANGED <<pmu, calls, objects, word, reached, asked, todo>>

----------------------------------------------------------------------------
(* Provider.Close; held[g] is the Call its range has come to.              *)

CloseLock(g) ==
  /\ At(g, "idle")
  /\ PmuFree
  /\ pmu' = g
  /\ todo' = {x \in CallSIDs : calls[x] # None}
  /\ req' = [req EXCEPT ![g] = "sweeping"]
  /\ UNCHANGED <<calls, objects, arg, held, word, reached, asked>>

\* Each tracked call once, in any order.
CloseNext(g) ==
  /\ At(g, "sweeping")
  /\ \E x \in todo :
       /\ held' = [held EXCEPT ![g] = calls[x]]
       /\ todo' = todo \ {x}
  /\ req' = [req EXCEPT ![g] = "holding"]
  /\ UNCHANGED <<pmu, calls, objects, arg, word, reached, asked>>

\* The map is replaced, ...
CloseFinish(g) ==
  /\ At(g, "sweeping")
  /\ todo = {}
  /\ calls' = [x \in CallSIDs |-> None]
  /\ req' = [req EXCEPT ![g] = "transport"]
  /\ UNCHANGED <<pmu, objects, arg, held, word, reached, asked, todo>>

\* ... and transport.Close is called, still under p.mu.  It has returned here,
\* which it need not do.
CloseTransport(g) ==
  /\ At(g, "transport")
  /\ pmu' = None
  /\ req' = [req EXCEPT ![g] = "returned"]
  /\ UNCHANGED <<calls, objects, arg, held, word, reached, asked, todo>>

CloseHangup(g) ==
  \/ HangupRequest(g, "holding")
  \/ HangupFail(g, "holding", "sweeping")
  \/ HangupMark(g, "sweeping")

----------------------------------------------------------------------------
UserStep(u)  == Answer(u) \/ SetTransport(u) \/ UserHangup(u) \/ Drop(u)
CloseStep(g) == CloseNext(g) \/ CloseHangup(g) \/ CloseFinish(g) \/ CloseTransport(g)
FetchStep(u) == MissCall(u) \/ FetchCall(u) \/ FetchFail(u)

Next ==
  \/ \E x \in CallSIDs : Progress(x)
  \/ \E w \in Webhooks : Incoming(w) \/ IncomingReturn(w)
  \/ \E m \in Callers : Place(m) \/ Placed(m)
  \/ \E b \in Callbacks : CallbackArrive(b) \/ CallbackApply(b)
  \/ \E u \in Users : GetCall(u) \/ FetchStep(u) \/ UserStep(u)
  \/ \E g \in Closers : CloseLock(g) \/ CloseStep(g)

Spec == Init /\ [][Next]_vars

\* A request to Twilio is answered or fails; a callback that waits for a free
\* p.mu gets it.  Nothing is assumed of Twilio's calls or of the application,
\* nor that transport.Close returns (MediaTransport!ShutdownReturns fails).
FairSpec ==
  /\ Spec
  /\ \A g \in Closers :
       WF_vars(CloseNext(g) \/ CloseHangup(g) \/ CloseFinish(g))
  /\ \A b \in Callbacks : WF_vars(CallbackApply(b))

----------------------------------------------------------------------------
(* Properties                                                              *)

\* A Call whose status is "ended" is a call that is over at Twilio: a hangup
\* that fails (callsystem/provider.go:404-407) leaves the status alone, and a
\* callback reports only what has happened.
EndedIsOver == \A c \in CallIds : status[c] = "ended" => Over(sid[c])

\* The inductive strengthening: the map files every Call under its own SID, ...
CallsFiled ==
  /\ \A c \in CallIds : status[c] # "unborn" => sid[c] # None /\ reached[sid[c]] # {}
  /\ \A x \in CallSIDs :
       calls[x] # None => status[calls[x]] # "unborn" /\ sid[calls[x]] = x

\* ... threads hold SIDs and Calls that exist, and a Hangup about to mark its
\* Call has had the call ended, ...
InHand ==
  /\ \A b \in Callbacks :
       At(b, "arrived") => arg[b] \in CallSIDs /\ word[b] \in reached[arg[b]]
  /\ \A m \in Callers :
       /\ At(m, "placed") => arg[m] \in CallSIDs /\ reached[arg[m]] # {}
       /\ At(m, "returned") => held[m] \in CallIds /\ status[held[m]] # "unborn"
  /\ \A u \in Users : At(u, "fetching") => arg[u] \in CallSIDs
  /\ \A g \in Users \cup Closers :
       /\ req[g] \in {"holding", "requested"} =>
            held[g] \in CallIds /\ status[held[g]] # "unborn"
       /\ At(g, "requested") => Over(sid[held[g]])

\* ... and p.mu is held exactly by a Close under way, which has asked for the
\* hangup of each tracked call, or has still to come to it.
SweepAccounts ==
  \A g \in Closers :
    /\ pmu = g <=> req[g] \in {"sweeping", "holding", "requested", "transport"}
    /\ pmu = g => \A x \in CallSIDs :
         /\ x \in todo => calls[x] # None
         /\ calls[x] # None =>
              \/ x \in todo
              \/ calls[x] \in asked
              \/ At(g, "holding") /\ held[g] = calls[x]

TrackingInv == TypeOK /\ EndedIsOver /\ CallsFiled /\ InHand /\ SweepAccounts

\* A call leaves the map when Twilio reports it completed, or when Close has
\* asked for its hangup: none slips past the sweep unasked.
DroppedOnlyWhenDone ==
  [][\A x \in CallSIDs :
       calls[x] # None /\ calls'[x] = None =>
         calls[x] \in asked \/ "completed" \in reached[x]]_vars

\* The hangups Close asks of Twilio with p.mu held (callsystem/provider.go:243-250)
\* delay a status callback but do not hold it up for ever: it is applied, unless
\* a Close has come to transport.Close (256), which stays under p.mu as long as
\* it takes.
CallbackApplied ==
  \A b \in Callbacks :
    At(b, "arrived") ~> At(b, "idle") \/ \E g \in Closers : At(g, "transport")

\* Without that excuse: no status callback waits for ever.
CallbackAlwaysApplied == \A b \in Callbacks : At(b, "arrived") ~> At(b, "idle")

\* "ListCalls lists active calls." (callsystem/provider.go:230): what is
\* tracked is ringing or answered.
ListsOnlyActive ==
  \A x \in CallSIDs :
    calls[x] # None => status[calls[x]] \in {"ringing", "answered"}

\* "Hangup ends the call." (callsystem/provider.go:402): no status callback
\* takes a Call that has ended back to another status.
HangupIsFinal ==
  [][\A c \in CallIds, b \in Callbacks :
       CallbackApply(b) /\ status[c] = "ended" => status'[c] = "ended"]_vars
=============================================================================
