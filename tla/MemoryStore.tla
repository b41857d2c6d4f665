----------------------------- MODULE MemoryStore -----------------------------
(***************************************************************************)
(* The memory provider (omnimemory): Twilio keeps observations, which can  *)
(* be created and deleted but not changed, so Update fetches the           *)
(* observation, deletes it and creates another.  The provider has no lock: *)
(* between two requests of an Update any other client of the store may     *)
(* act, and each request may fail, before or after it has taken effect.    *)
(***************************************************************************)
CONSTANTS
  Ids,      \* observation IDs; Twilio never reuses one
  Contents, \* contents of an observation
  Clients,  \* goroutines that use the provider, one call after the other
  None

ASSUME NoneAssumption == None \notin Ids \cup Contents

VARIABLES
  content, \* Twilio: ID -> content, None if there is no such observation
  root,    \* per ID ever given: the ID of the memory it stands for
  pc,      \* per client: the request its call makes next
  target,  \* per client: the ID it has been asked to update or delete
  draft,   \* per client: the content asked for, then the content to create
  excused  \* memories deleted on demand, or whose Update, having found them, has
           \* reported an error

call == <<pc, target, draft>>
vars == <<content, root, call, excused>>

Given == {i \in Ids : root[i] # None}
Roots == {root[i] : i \in Given}
Live(r) == {i \in Ids : content[i] # None /\ root[i] = r}

TypeOK ==
  /\ content \in [Ids -> Contents \cup {None}]
  /\ root \in [Ids -> Ids \cup {None}]
  /\ pc \in [Clients -> {"idle", "fetch", "replace", "recreate", "delete"}]
  /\ target \in [Clients -> Ids \cup {None}]
  /\ draft \in [Clients -> Contents \cup {None}]
  /\ excused \subseteq Ids

Init ==
  /\ content = [i \in Ids |-> None]
  /\ root = [i \in Ids |-> None]
  /\ pc = [c \in Clients |-> "idle"]
  /\ target = [c \in Clients |-> None]
  /\ draft = [c \in Clients |-> None]
  /\ excused = {}

At(c, label) == pc[c] = label

\* The call goes on to its next request, or returns.
Goto(c, label) ==
  /\ pc' = [pc EXCEPT ![c] = label]
  /\ target' = IF label = "idle" THEN [target EXCEPT ![c] = None] ELSE target

Return(c) ==
  /\ Goto(c, "idle")
  /\ draft' = [draft EXCEPT ![c] = None]

Excuse(c) == excused' = excused \cup {root[target[c]]}

----------------------------------------------------------------------------
(* What the requests do at Twilio                                          *)

\* CreateProfileObservation.
Create(i, text, r) ==
  /\ i \notin Given
  /\ content' = [content EXCEPT ![i] = text]
  /\ root' = [root EXCEPT ![i] = r]

\* DeleteProfileObservation.  Assumed of Twilio: deleting an observation that is
\* gone is an error.
Remove(i) ==
  /\ content[i] # None
  /\ content' = [content EXCEPT ![i] = None]

----------------------------------------------------------------------------
(* Add, Get (which changes nothing) and Delete                             *)

\* Whether Add reports the error of a request that took effect or not, the
\* caller gets no ID.
Add(c) ==
  /\ At(c, "idle")
  /\ \E i \in Ids, text \in Contents : Create(i, text, i)
  /\ UNCHANGED <<call, excused>>

DeleteCall(c) ==
  /\ At(c, "idle")
  /\ \E i \in Given : target' = [target EXCEPT ![c] = i]
  /\ pc' = [pc EXCEPT ![c] = "delete"]
  /\ UNCHANGED <<content, root, draft, excused>>

Delete(c) ==
  /\ At(c, "delete")
  /\ \/ Remove(target[c]) /\ Excuse(c)
     \/ UNCHANGED <<content, excused>>
  /\ Return(c)
  /\ UNCHANGED root

----------------------------------------------------------------------------
(* Update                                                                  *)

\* A content of None asks for the present one to be kept.
UpdateCall(c) ==
  /\ At(c, "idle")
  /\ \E i \in Given, text \in Contents \cup {None} :
       /\ target' = [target EXCEPT ![c] = i]
       /\ draft' = [draft EXCEPT ![c] = text]
  /\ pc' = [pc EXCEPT ![c] = "fetch"]
  /\ UNCHANGED <<content, root, excused>>

\* The observation is read, or the error returned.
Fetch(c) ==
  /\ At(c, "fetch")
  /\ \/ /\ content[target[c]] # None
        /\ draft' = [draft EXCEPT ![c] = IF @ = None THEN content[target[c]] ELSE @]
        /\ Goto(c, "replace")
     \/ Return(c)
  /\ UNCHANGED <<content, root, excused>>

\* Mutant: the error of Delete is not looked at.
ReplaceAnyway(c) ==
  /\ At(c, "replace")
  /\ \/ Remove(target[c])
     \/ UNCHANGED content
  /\ Goto(c, "recreate")
  /\ UNCHANGED <<root, draft, excused>>

\* It is deleted, or the error returned, whether the request was lost or its
\* answer was.
Replace(c) ==
  /\ At(c, "replace")
  /\ \/ /\ Remove(target[c])
        /\ \/ Goto(c, "recreate") /\ UNCHANGED <<draft, excused>>
           \/ Return(c) /\ Excuse(c)
     \/ /\ Return(c) /\ Excuse(c)
        /\ UNCHANGED content
  /\ UNCHANGED root

\* Mutant: the error of Add is not reported.
RecreateSilently(c) ==
  /\ At(c, "recreate")
  /\ \/ \E i \in Ids : Create(i, draft[c], root[target[c]])
     \/ UNCHANGED <<content, root>>
  /\ Return(c)
  /\ UNCHANGED excused

\* The new observation is created under a new ID, or the error returned.
Recreate(c) ==
  /\ At(c, "recreate")
  /\ \/ /\ \E i \in Ids : Create(i, draft[c], root[target[c]])
        /\ UNCHANGED excused \/ Excuse(c)
     \/ Excuse(c) /\ UNCHANGED <<content, root>>
  /\ Return(c)

----------------------------------------------------------------------------
Next == \E c \in Clients :
  Add(c) \/ DeleteCall(c) \/ Delete(c) \/ UpdateCall(c) \/ Fetch(c) \/ Replace(c) \/ Recreate(c)

Spec == Init /\ [][Next]_vars

----------------------------------------------------------------------------
(* Properties                                                              *)

\* A memory never turns into two: however Updates and Deletes of the same
\* observation interleave, one Delete alone succeeds (Remove assumes so of
\* Twilio), and only its Update goes on to create (omnimemory/twilio.go:201-207).
OneLivePerMemory ==
  \A i, j \in Ids :
    content[i] # None /\ content[j] # None /\ root[i] = root[j] => i = j

\* The inductive strengthening: the memory an Update is about to recreate has
\* no observation, and one Update at most is at that point.
Recreating == {c \in Clients : pc[c] = "recreate"}

RecreatesAlone ==
  /\ \A c \in Recreating, i \in Ids : content[i] # None => root[i] # root[target[c]]
  /\ \A c, d \in Recreating : root[target[c]] = root[target[d]] => c = d

TargetsGiven ==
  /\ \A c \in Clients : pc[c] # "idle" => target[c] \in Given
  /\ \A i \in Ids : content[i] # None => i \in Given
  /\ \A i \in Given : root[i] \in Given

MemoryInv == TypeOK /\ TargetsGiven /\ RecreatesAlone /\ OneLivePerMemory

\* A memory that has no observation left, and that no Update is about to
\* recreate, was deleted on demand or an Update that had found it has returned
\* an error: none is lost without a word, although Update deletes before it
\* creates.
NoneLostSilently ==
  \A r \in Roots :
    Live(r) = {} => r \in excused \/ \E c \in Recreating : root[target[c]] = r

\* The implementation of KeptMemories: a memory has the content of its
\* observation, or the one its Update is about to create.  So three requests
\* act as one change, a memory once gone is never brought back by an Update
\* that had found it, and each one that goes has been told of
\* (omnimemory/twilio.go:186-232).
Held(r) ==
  {content[i] : i \in Live(r)}
    \cup {draft[c] : c \in {d \in Recreating : root[target[d]] = r}}

Text == [r \in Ids |-> IF Held(r) = {} THEN None ELSE CHOOSE t \in Held(r) : TRUE]

Kept == INSTANCE KeptMemories
  WITH Memories <- Ids, text <- Text, known <- Roots, told <- excused

ImplementsKeptMemories == Kept!Spec
=============================================================================
