-------------------------- MODULE MemoryStoreProofs --------------------------
(* Theorems about MemoryStore.                                             *)
EXTENDS MemoryStore, TLAPS

\* A new store has no observation and no Update under way.
LEMMA InvInit == Init => MemoryInv
  BY DEF Init, MemoryInv, TypeOK, TargetsGiven, RecreatesAlone, OneLivePerMemory,
         Recreating, Given

\* One client's step.
Step(c) ==
  \/ Add(c) \/ DeleteCall(c) \/ Delete(c) \/ UpdateCall(c)
  \/ Fetch(c) \/ Replace(c) \/ Recreate(c)

\* Every step keeps the types.
LEMMA TypeStep ==
  ASSUME TypeOK, TargetsGiven, NEW c \in Clients, Step(c)
  PROVE  TypeOK'
  <1> USE DEF TypeOK, Given, call
  <1>1. ASSUME Add(c) PROVE TypeOK'
    BY <1>1 DEF Add, Create
  <1>2. ASSUME DeleteCall(c) \/ UpdateCall(c) PROVE TypeOK'
    BY <1>2 DEF DeleteCall, UpdateCall
  <1>3. ASSUME Delete(c) PROVE TypeOK'
    <2>1. root[target[c]] \in Ids
      BY <1>3 DEF Delete, At, TargetsGiven
    <2> QED BY <1>3, <2>1 DEF Delete, Remove, Excuse, Return, Goto
  <1>4. ASSUME Fetch(c) PROVE TypeOK'
    <2>1. target[c] \in Ids
      BY <1>4 DEF Fetch, At, TargetsGiven
    <2> QED BY <1>4, <2>1 DEF Fetch, Return, Goto
  <1>5. ASSUME Replace(c) PROVE TypeOK'
    <2>1. root[target[c]] \in Ids
      BY <1>5 DEF Replace, At, TargetsGiven
    <2> QED BY <1>5, <2>1 DEF Replace, Remove, Excuse, Return, Goto
  <1>6. ASSUME Recreate(c) PROVE TypeOK'
    <2>1. root[target[c]] \in Ids
      BY <1>6 DEF Recreate, At, TargetsGiven
    <2> QED BY <1>6, <2>1 DEF Recreate, Create, Excuse, Return, Goto
  <1> QED BY <1>1, <1>2, <1>3, <1>4, <1>5, <1>6 DEF Step

\* Every step keeps targets and observations among the IDs Twilio has given.
LEMMA GivenStep ==
  ASSUME TypeOK, TargetsGiven, NEW c \in Clients, Step(c)
  PROVE  TargetsGiven'
  <1> USE DEF TypeOK, TargetsGiven, Given, call, At
  <1>1. ASSUME Add(c) PROVE TargetsGiven'
    BY <1>1, NoneAssumption DEF Add, Create
  <1>2. ASSUME DeleteCall(c) \/ UpdateCall(c) PROVE TargetsGiven'
    BY <1>2 DEF DeleteCall, UpdateCall
  <1>3. ASSUME Delete(c) PROVE TargetsGiven'
    BY <1>3 DEF Delete, Remove, Return, Goto
  <1>4. ASSUME Fetch(c) PROVE TargetsGiven'
    BY <1>4 DEF Fetch, Return, Goto
  <1>5. ASSUME Replace(c) PROVE TargetsGiven'
    BY <1>5 DEF Replace, Remove, Return, Goto
  <1>6. ASSUME Recreate(c) PROVE TargetsGiven'
    <2>1. root[target[c]] \in Given
      BY <1>6 DEF Recreate
    <2> QED BY <1>6, <2>1 DEF Recreate, Create, Return, Goto
  <1> QED BY <1>1, <1>2, <1>3, <1>4, <1>5, <1>6 DEF Step

\* Every step leaves a memory with one observation at most, and one Update at
\* most about to recreate it.
LEMMA AloneStep ==
  ASSUME MemoryInv, NEW c \in Clients, Step(c)
  PROVE  RecreatesAlone' /\ OneLivePerMemory'
  <1> USE DEF MemoryInv, TypeOK, Given, call, At, RecreatesAlone, OneLivePerMemory,
              Recreating
  <1>0. None \notin Ids \cup Contents
    BY NoneAssumption
  <1>1. CASE Add(c)
    \* The new observation is its own memory's first, and IDs are not reused.
    <2>1. PICK i \in Ids, text \in Contents : Create(i, text, i)
      BY <1>1 DEF Add
    <2>2. \A j \in Ids : content[j] # None => root[j] # i
      BY <2>1 DEF Create, TargetsGiven
    <2>3. \A d \in Recreating : root[target[d]] # i /\ target[d] # i
      BY <2>1 DEF Create, TargetsGiven
    <2> QED BY <1>0, <1>1, <2>1, <2>2, <2>3 DEF Add, Create, TargetsGiven
  <1>2. CASE DeleteCall(c) \/ UpdateCall(c)
    BY <1>2 DEF DeleteCall, UpdateCall
  <1>3. CASE Delete(c)
    BY <1>3 DEF Delete, Remove, Return, Goto
  <1>4. CASE Fetch(c)
    BY <1>4 DEF Fetch, Return, Goto
  <1>5. CASE Replace(c)
    \* Only the Update whose Delete removes the observation goes on.
    BY <1>5 DEF Replace, Remove, Return, Goto, TargetsGiven
  <1>6. CASE Recreate(c)
    <2>1. CASE UNCHANGED <<content, root>>
      BY <1>6, <2>1 DEF Recreate, Return, Goto
    <2>2. CASE \E i \in Ids : Create(i, draft[c], root[target[c]])
      <3>1. PICK i \in Ids : Create(i, draft[c], root[target[c]])
        BY <2>2
      <3>2. \A d \in Recreating : target[d] # i
        BY <3>1 DEF Create, TargetsGiven
      <3> QED BY <1>0, <1>6, <3>1, <3>2 DEF Recreate, Create, Return, Goto, TargetsGiven
    <2> QED BY <1>6, <2>1, <2>2 DEF Recreate
  <1> QED BY <1>1, <1>2, <1>3, <1>4, <1>5, <1>6 DEF Step

\* Every step keeps the invariant.
LEMMA InvStep == MemoryInv /\ [Next]_vars => MemoryInv'
  <1> SUFFICES ASSUME MemoryInv, [Next]_vars PROVE MemoryInv'
    OBVIOUS
  <1>1. CASE UNCHANGED vars
    BY <1>1 DEF vars, call, MemoryInv, TypeOK, TargetsGiven, RecreatesAlone,
                OneLivePerMemory, Recreating, Given
  <1>2. CASE Next
    <2>1. PICK c \in Clients : Step(c)
      BY <1>2 DEF Next, Step
    <2>2. TypeOK' /\ TargetsGiven'
      BY <2>1, TypeStep, GivenStep DEF MemoryInv
    <2>3. RecreatesAlone' /\ OneLivePerMemory'
      BY <2>1, AloneStep
    <2> QED BY <2>2, <2>3 DEF MemoryInv
  <1> QED BY <1>1, <1>2

\* The invariant: Updates of the same observation by any number of clients,
\* with requests failing anywhere, leave the memory with one observation at
\* most, because Update goes on to create only when its own Delete succeeds.
THEOREM MemoryCorrect == Spec => []MemoryInv
  BY InvInit, InvStep, PTL DEF Spec

\* A memory never turns into two.
THEOREM NeverTwo == Spec => []OneLivePerMemory
  <1>1. MemoryInv => OneLivePerMemory
    BY DEF MemoryInv
  <1> QED BY <1>1, MemoryCorrect, PTL
----------------------------------------------------------------------------
(* No memory is lost without an error                                      *)

\* An Update past its Get has a content to create.
DraftInHand == \A c \in Clients : pc[c] \in {"replace", "recreate"} => draft[c] \in Contents

LossInv == MemoryInv /\ DraftInHand /\ NoneLostSilently

\* Every step keeps the content in an Update's hand.
LEMMA DraftStep ==
  ASSUME MemoryInv, DraftInHand, NEW c \in Clients, Step(c)
  PROVE  DraftInHand'
  <1> USE DEF MemoryInv, TypeOK, DraftInHand, call, At
  <1>1. CASE Add(c) \/ DeleteCall(c) \/ UpdateCall(c) \/ Delete(c)
    BY <1>1 DEF Add, DeleteCall, UpdateCall, Delete, Return, Goto
  <1>2. CASE Fetch(c)
    <2>1. target[c] \in Ids
      BY <1>2 DEF Fetch, TargetsGiven, Given
    <2> QED BY <1>2, <2>1 DEF Fetch, Return, Goto
  <1>3. CASE Replace(c) \/ Recreate(c)
    BY <1>3 DEF Replace, Recreate, Return, Goto
  <1> QED BY <1>1, <1>2, <1>3 DEF Step

\* What keeps a memory from being lost, in terms of its root.
Accounted(r) == \/ \E i \in Ids : content[i] # None /\ root[i] = r
           \/ r \in excused
           \/ \E c \in Recreating : root[target[c]] = r

\* The property, one memory at a time.
LEMMA LostAsKept == NoneLostSilently <=> \A r \in Roots : Accounted(r)
  BY DEF NoneLostSilently, Accounted, Roots, Live

\* Every step keeps each memory that was kept, and adds none that is not.
LEMMA LossStep ==
  ASSUME LossInv, NEW c \in Clients, Step(c)
  PROVE  \A r \in Roots' : Accounted(r)'
  <1> USE DEF LossInv, MemoryInv, TypeOK, DraftInHand, call, At
  <1>0. None \notin Ids \cup Contents /\ \A r \in Roots : Accounted(r)
    BY NoneAssumption, LostAsKept
  <1>1. CASE Add(c)
    <2>1. PICK i \in Ids, text \in Contents : Create(i, text, i)
      BY <1>1 DEF Add
    <2>2. Roots' \subseteq Roots \cup {i} /\ Accounted(i)'
      BY <1>0, <2>1 DEF Create, Roots, Given, Accounted
    <2>3. \A j \in Ids : content[j] # None => content'[j] = content[j] /\ root'[j] = root[j]
      BY <2>1 DEF Create, TargetsGiven, Given
    <2>4. \A d \in Recreating : root'[target[d]] = root[target[d]]
      BY <2>1 DEF Create, TargetsGiven, Given, Recreating
    <2>5. UNCHANGED <<pc, target, excused>>
      BY <1>1 DEF Add
    <2> QED BY <1>0, <2>2, <2>3, <2>4, <2>5 DEF Accounted, Recreating
  <1>2. CASE DeleteCall(c) \/ UpdateCall(c) \/ Fetch(c)
    <2>1. UNCHANGED <<content, root, excused>>
      BY <1>2 DEF DeleteCall, UpdateCall, Fetch
    <2>2. \A d \in Recreating : d \in Recreating' /\ target'[d] = target[d]
      BY <1>2 DEF DeleteCall, UpdateCall, Fetch, Return, Goto, Recreating
    <2> QED BY <1>0, <2>1, <2>2 DEF Accounted, Roots, Given
  <1>3. CASE Delete(c)
    <2>1. root' = root /\ target[c] \in Ids
      BY <1>3 DEF Delete, TargetsGiven, Given
    <2>2. \A d \in Recreating : d \in Recreating' /\ target'[d] = target[d]
      BY <1>3 DEF Delete, Return, Goto, Recreating
    <2>3. excused \subseteq excused'
      BY <1>3 DEF Delete, Excuse
    <2>4. \A i \in Ids : content[i] # None =>
            content'[i] = content[i] \/ root[i] \in excused'
      BY <1>3, <2>1 DEF Delete, Remove, Excuse
    <2> QED BY <1>0, <2>1, <2>2, <2>3, <2>4 DEF Accounted, Roots, Given
  <1>4. CASE Replace(c)
    <2>1. root' = root /\ target[c] \in Ids
      BY <1>4 DEF Replace, TargetsGiven, Given
    <2>2. \A d \in Recreating : d \in Recreating' /\ target'[d] = target[d]
      BY <1>4 DEF Replace, Return, Goto, Recreating
    <2>3. excused \subseteq excused'
      BY <1>4 DEF Replace, Excuse
    \* The observation that goes leaves its Update about to recreate it, or excused.
    <2>4. \A i \in Ids : content[i] # None =>
            \/ content'[i] = content[i]
            \/ root[i] \in excused'
            \/ i = target[c] /\ c \in Recreating' /\ target' = target
      BY <1>4, <2>1 DEF Replace, Remove, Excuse, Goto, Recreating
    <2> QED BY <1>0, <2>1, <2>2, <2>3, <2>4 DEF Accounted, Roots, Given
  <1>5. CASE Recreate(c)
    <2> PICK r : r = root[target[c]]
      OBVIOUS
    <2>0. target[c] \in Given /\ draft[c] \in Contents
      BY <1>5 DEF Recreate, TargetsGiven
    <2>1. excused \subseteq excused' /\ \A d \in Recreating \ {c} :
            d \in Recreating' /\ target'[d] = target[d]
      BY <1>5 DEF Recreate, Return, Goto, Recreating, Excuse
    <2>2. /\ \A j \in Given : root'[j] = root[j]
          /\ \A j \in Ids : content[j] # None => content'[j] = content[j]
          /\ Roots' \subseteq Roots \cup {r}
          /\ Accounted(r)'
      <3>1. CASE UNCHANGED <<content, root>> /\ Excuse(c)
        BY <3>1 DEF Excuse, Accounted, Roots, Given
      <3>2. CASE \E i \in Ids : Create(i, draft[c], r)
        <4>1. PICK i \in Ids : Create(i, draft[c], r)
          BY <3>2
        <4>2. content'[i] # None /\ root'[i] = r
          BY <1>0, <2>0, <4>1 DEF Create
        <4>3. \A j \in Given : root'[j] = root[j]
          BY <4>1 DEF Create, Given
        <4>4. \A j \in Ids : content[j] # None => content'[j] = content[j]
          BY <4>1 DEF Create, TargetsGiven
        <4>5. Roots' \subseteq Roots \cup {r}
          BY <4>1, <4>2 DEF Create, Roots, Given
        <4> QED BY <4>2, <4>3, <4>4, <4>5 DEF Accounted
      <3> QED BY <1>5, <3>1, <3>2 DEF Recreate
    <2>3. \A d \in Recreating : target[d] \in Given
      BY DEF TargetsGiven, Recreating
    <2>4. r \in Roots
      BY <2>0 DEF Roots
    <2>5. ASSUME NEW q \in Roots PROVE Accounted(q)'
      <3>1. CASE q = r
        BY <2>2, <3>1
      <3>2. CASE q # r
        BY <1>0, <2>1, <2>2, <2>3, <3>2 DEF Accounted, TargetsGiven
      <3> QED BY <3>1, <3>2
    <2> QED BY <2>2, <2>4, <2>5
  <1> QED BY <1>1, <1>2, <1>3, <1>4, <1>5 DEF Step

\* A memory that is gone was deleted on demand, or an Update that had found it
\* has returned an error, for any number of clients and of failing requests.
THEOREM NothingLostSilently == Spec => []NoneLostSilently
  <1>1. Init => LossInv
    BY InvInit DEF Init, LossInv, DraftInHand, NoneLostSilently, Given, Roots
  <1>2. LossInv /\ [Next]_vars => LossInv'
    <2> SUFFICES ASSUME LossInv, [Next]_vars PROVE LossInv'
      OBVIOUS
    <2>1. MemoryInv'
      BY InvStep DEF LossInv
    <2>2. CASE UNCHANGED vars
      BY <2>1, <2>2 DEF vars, call, LossInv, DraftInHand, NoneLostSilently, Given, Live,
        Recreating, Roots
    <2>3. CASE Next
      <3>1. PICK c \in Clients : Step(c)
        BY <2>3 DEF Next, Step
      <3>2. DraftInHand'
        BY <3>1, DraftStep DEF LossInv
      <3>3. \A r \in Roots' : Accounted(r)'
        BY <3>1, LossStep
      <3>4. NoneLostSilently'
        BY <3>3 DEF NoneLostSilently, Accounted, Roots, Live
      <3> QED BY <2>1, <3>2, <3>4 DEF LossInv
    <2> QED BY <2>2, <2>3
  <1>3. LossInv => NoneLostSilently
    BY DEF LossInv
  <1> QED BY <1>1, <1>2, <1>3, PTL DEF Spec
----------------------------------------------------------------------------
(* The refinement of KeptMemories                                          *)

Shown(r, t) == \E i \in Ids : content[i] # None /\ root[i] = r /\ content[i] = t

Drafted(r, t) == \E c \in Recreating : root[target[c]] = r /\ draft[c] = t

\* What a memory's content is, without CHOOSE.
Says(r, t) ==
  \/ Shown(r, t)
  \/ Drafted(r, t)
  \/ t = None /\ \A u : ~Shown(r, u) /\ ~Drafted(r, u)

TextSays == \A r \in Ids : Says(r, Text[r]) /\ \A t : Says(r, t) => Text[r] = t

\* The invariant leaves CHOOSE one content at most.
LEMMA TextIsWhatIsSaid == MemoryInv /\ DraftInHand => TextSays
  <1> SUFFICES ASSUME MemoryInv, DraftInHand, NEW r \in Ids
               PROVE  Says(r, Text[r]) /\ \A t : Says(r, t) => Text[r] = t
    BY DEF TextSays
  <1> USE DEF MemoryInv
  <1>1. \A t : t \in Held(r) <=> Shown(r, t) \/ Drafted(r, t)
    BY DEF Held, Live, Shown, Drafted
  <1>2. \A t, u \in Held(r) : t = u
    <2>1. \A t, u : Shown(r, t) /\ Shown(r, u) => t = u
      BY DEF Shown, OneLivePerMemory
    <2>2. \A t, u : Drafted(r, t) /\ Drafted(r, u) => t = u
      BY DEF Drafted, RecreatesAlone
    <2>3. \A t, u : ~(Shown(r, t) /\ Drafted(r, u))
      BY DEF Shown, Drafted, RecreatesAlone
    <2> QED BY <1>1, <2>1, <2>2, <2>3
  <1>3. Text[r] = IF Held(r) = {} THEN None ELSE CHOOSE t \in Held(r) : TRUE
    BY DEF Text
  <1>4. CASE Held(r) = {}
    BY <1>1, <1>3, <1>4 DEF Says
  <1>5. CASE Held(r) # {}
    <2>1. Text[r] \in Held(r)
      BY <1>3, <1>5
    <2> QED BY <1>1, <1>2, <2>1 DEF Says
  <1> QED BY <1>4, <1>5

\* A step that leaves what every memory but r says, and has r say t, changes
\* the text of r alone.
LEMMA TextChanges ==
  ASSUME TextSays, TextSays', NEW r \in Ids, NEW t, Says(r, t)',
         \A q \in Ids \ {r} : \A u : Says(q, u) => Says(q, u)'
  PROVE  Text' = [Text EXCEPT ![r] = t]
  <1>1. \A q \in Ids : Text'[q] = IF q = r THEN t ELSE Text[q]
    BY DEF TextSays
  <1> QED BY <1>1 DEF Text

\* A step that leaves what every memory says leaves the text.
LEMMA TextStays ==
  ASSUME TextSays, TextSays', \A q \in Ids : \A u : Says(q, u) => Says(q, u)'
  PROVE  UNCHANGED Text
  <1>1. \A q \in Ids : Text'[q] = Text[q]
    BY DEF TextSays
  <1> QED BY <1>1 DEF Text

RefInv == MemoryInv /\ DraftInHand

\* Add keeps a memory nobody has known.
LEMMA AddKeeps ==
  ASSUME RefInv, TextSays, TextSays', NEW c \in Clients, Add(c)
  PROVE  \E i \in Ids, t \in Contents : Kept!Keep(i, t)
  <1> USE DEF RefInv, MemoryInv, TypeOK
  <1>0. None \notin Ids \cup Contents
    BY NoneAssumption
  <1>1. PICK i \in Ids, t \in Contents : Create(i, t, i)
    BY DEF Add
  <1>2. i \notin Given /\ i \notin Roots
    BY <1>1 DEF Create, TargetsGiven, Roots
  <1>3. Roots' = Roots \cup {i}
    BY <1>0, <1>1, <1>2 DEF Create, Roots, Given
  <1>4. UNCHANGED <<pc, target, draft, excused>>
    BY DEF Add, call
  <1>5. \A d \in Recreating : target[d] # i /\ target[d] \in Ids
    BY <1>2 DEF TargetsGiven, Recreating, Given
  <1>6. Shown(i, t)'
    BY <1>0, <1>1 DEF Create, Shown
  <1>7. content[i] = None
    BY <1>2 DEF TargetsGiven
  <1>8. \A q \in Ids \ {i} : \A u : Shown(q, u) <=> Shown(q, u)'
    BY <1>1, <1>7 DEF Create, Shown
  <1>9. \A q \in Ids \ {i} : \A u : Drafted(q, u) <=> Drafted(q, u)'
    BY <1>1, <1>4, <1>5 DEF Create, Drafted, Recreating
  <1>10. Text' = [Text EXCEPT ![i] = t]
    BY <1>6, <1>8, <1>9, TextChanges DEF Says
  <1> QED BY <1>2, <1>3, <1>4, <1>10 DEF Kept!Keep

\* A call that begins, and a Get, change no memory.
LEMMA ReadStays ==
  ASSUME RefInv, TextSays, TextSays', NEW c \in Clients,
         DeleteCall(c) \/ UpdateCall(c) \/ Fetch(c)
  PROVE  UNCHANGED Kept!vars
  <1> USE DEF RefInv, MemoryInv, TypeOK
  <1>1. UNCHANGED <<content, root, excused>>
    BY DEF DeleteCall, UpdateCall, Fetch
  <1>2. Recreating' = Recreating
    BY DEF DeleteCall, UpdateCall, Fetch, Return, Goto, Recreating, At
  <1>3. \A d \in Recreating : target'[d] = target[d] /\ draft'[d] = draft[d]
    BY DEF DeleteCall, UpdateCall, Fetch, Return, Goto, Recreating, At
  <1>4. UNCHANGED Text
    BY <1>1, <1>2, <1>3, TextStays DEF Says, Shown, Drafted
  <1> QED BY <1>1, <1>4 DEF Kept!vars, Roots, Given

\* A Delete forgets the memory, and so does an Update that has deleted its
\* observation and then seen an error.
LEMMA RemoveForgets ==
  ASSUME RefInv, TextSays, TextSays', NEW c \in Clients,
         At(c, "delete") \/ At(c, "replace"),
         Remove(target[c]), Return(c), Excuse(c), UNCHANGED root
  PROVE  \E r \in Ids : Kept!Forget(r)
  <1> USE DEF RefInv, MemoryInv, TypeOK, At
  <1> PICK r : r = root[target[c]]
    OBVIOUS
  <1>1. target[c] \in Ids /\ r \in Ids /\ content[target[c]] # None
    BY DEF TargetsGiven, Given, Remove
  <1>2. Text[r] # None
    <2>1. Shown(r, content[target[c]])
      BY <1>1 DEF Shown
    <2> QED BY <1>1, <2>1 DEF TextSays, Says
  <1>3. Recreating' = Recreating /\ c \notin Recreating
    BY DEF Return, Goto, Recreating
  <1>4. \A d \in Recreating : target'[d] = target[d] /\ draft'[d] = draft[d]
    BY <1>3 DEF Return, Goto, Recreating
  <1>5. \A q \in Ids : \A u : Drafted(q, u) <=> Drafted(q, u)'
    BY <1>3, <1>4 DEF Drafted
  <1>6. \A q \in Ids \ {r} : \A u : Shown(q, u) <=> Shown(q, u)'
    BY <1>1 DEF Remove, Shown
  <1>7. Says(r, None)'
    <2>1. \A u : ~Shown(r, u)'
      BY <1>1 DEF Remove, Shown, OneLivePerMemory
    <2>2. \A u : ~Drafted(r, u)
      BY <1>1 DEF RecreatesAlone, Drafted
    <2> QED BY <1>1, <1>5, <2>1, <2>2 DEF Says
  <1>8. Text' = [Text EXCEPT ![r] = None]
    BY <1>1, <1>5, <1>6, <1>7, TextChanges DEF Says
  <1>9. excused' = excused \cup {r} /\ Roots' = Roots
    BY DEF Excuse, Roots, Given
  <1> QED BY <1>1, <1>2, <1>8, <1>9 DEF Kept!Forget

\* An error that changed nothing at Twilio is reported of a known memory, or
\* of none.
LEMMA ErrorTells ==
  ASSUME RefInv, TextSays, TextSays', NEW c \in Clients,
         At(c, "delete") \/ At(c, "replace"),
         Return(c), UNCHANGED <<content, root>>, Excuse(c) \/ UNCHANGED excused
  PROVE  (\E r \in Ids : Kept!Tell(r)) \/ UNCHANGED Kept!vars
  <1> USE DEF RefInv, MemoryInv, TypeOK, At
  <1>1. target[c] \in Given /\ root[target[c]] \in Roots /\ root[target[c]] \in Ids
    BY DEF TargetsGiven, Given, Roots
  <1>2. Recreating' = Recreating /\ c \notin Recreating
    BY DEF Return, Goto, Recreating
  <1>3. \A d \in Recreating : target'[d] = target[d] /\ draft'[d] = draft[d]
    BY <1>2 DEF Return, Goto, Recreating
  <1>4. UNCHANGED Text
    BY <1>2, <1>3, TextStays DEF Says, Shown, Drafted
  <1>5. Roots' = Roots
    BY DEF Roots, Given
  <1> QED BY <1>1, <1>4, <1>5 DEF Excuse, Kept!Tell, Kept!vars

\* An Update that has deleted the observation and goes on has changed the
\* memory: the content is in its hand.
LEMMA ReplaceChanges ==
  ASSUME RefInv, TextSays, TextSays', NEW c \in Clients, At(c, "replace"),
         Remove(target[c]), Goto(c, "recreate"), UNCHANGED <<root, draft, excused>>
  PROVE  \E r \in Ids, t \in Contents : Kept!Change(r, t)
  <1> USE DEF RefInv, MemoryInv, TypeOK, At
  <1> PICK r, t : r = root[target[c]] /\ t = draft[c]
    OBVIOUS
  <1>1. target[c] \in Ids /\ r \in Ids /\ content[target[c]] # None
    BY DEF TargetsGiven, Given, Remove
  <1>2. t \in Contents
    BY DEF DraftInHand
  <1>3. Text[r] # None
    <2>1. Shown(r, content[target[c]])
      BY <1>1 DEF Shown
    <2> QED BY <1>1, <2>1 DEF TextSays, Says
  <1>4. Recreating' = Recreating \cup {c} /\ target' = target
    BY DEF Goto, Recreating
  <1>5. Drafted(r, t)'
    BY <1>4 DEF Drafted
  <1>6. \A q \in Ids \ {r} : \A u : Shown(q, u) <=> Shown(q, u)'
    BY <1>1 DEF Remove, Shown
  <1>7. \A q \in Ids \ {r} : \A u : Drafted(q, u) <=> Drafted(q, u)'
    BY <1>4 DEF Drafted
  <1>8. Text' = [Text EXCEPT ![r] = t]
    BY <1>1, <1>5, <1>6, <1>7, TextChanges DEF Says
  <1>9. Roots' = Roots
    BY DEF Roots, Given
  <1> QED BY <1>1, <1>2, <1>3, <1>8, <1>9 DEF Kept!Change

\* The last request of an Update shows what was in its hand, or forgets it
\* with an error.
LEMMA RecreateShowsOrForgets ==
  ASSUME RefInv, TextSays, TextSays', NEW c \in Clients, Recreate(c)
  PROVE  \/ \E r \in Ids : Kept!Forget(r) \/ Kept!Tell(r)
         \/ UNCHANGED Kept!vars
  <1> USE DEF RefInv, MemoryInv, TypeOK, At
  <1> PICK r, t : r = root[target[c]] /\ t = draft[c]
    OBVIOUS
  <1>0. None \notin Ids \cup Contents
    BY NoneAssumption
  <1>1. target[c] \in Given /\ r \in Ids /\ r \in Roots /\ t \in Contents
    BY DEF Recreate, TargetsGiven, Given, Roots, DraftInHand
  <1>2. c \in Recreating /\ Recreating' = Recreating \ {c}
    BY DEF Recreate, Return, Goto, Recreating
  <1>3. \A d \in Recreating' : target'[d] = target[d] /\ draft'[d] = draft[d]
    BY <1>2 DEF Recreate, Return, Goto
  <1>4. Drafted(r, t) /\ Text[r] = t
    <2>1. Drafted(r, t)
      BY <1>2 DEF Drafted
    <2> QED BY <1>1, <2>1 DEF TextSays, Says
  <1>5. CASE \E i \in Ids : Create(i, t, r)
    <2>1. PICK i \in Ids : Create(i, t, r)
      BY <1>5
    <2>2. content[i] = None /\ \A d \in Recreating : target[d] # i
      BY <2>1 DEF Create, TargetsGiven, Recreating
    <2>3. Shown(r, t)'
      BY <1>0, <1>1, <2>1 DEF Create, Shown
    <2>4. \A q \in Ids \ {r} : \A u : Shown(q, u) <=> Shown(q, u)'
      BY <2>1, <2>2 DEF Create, Shown
    <2>5. \A q \in Ids \ {r} : \A u : Drafted(q, u) <=> Drafted(q, u)'
      BY <1>2, <1>3, <2>1, <2>2 DEF Create, Drafted, TargetsGiven, Recreating, Given
    <2>6. Text' = [Text EXCEPT ![r] = t]
      BY <1>1, <2>3, <2>4, <2>5, TextChanges DEF Says
    <2>7. UNCHANGED Text
      BY <1>4, <2>6 DEF Text
    <2>8. Roots' = Roots
      BY <1>0, <1>1, <2>1 DEF Create, Roots, Given
    <2>9. excused' = excused \/ excused' = excused \cup {r}
      BY <1>0, <2>1, <1>1 DEF Recreate, Excuse
    <2> QED BY <1>1, <2>7, <2>8, <2>9 DEF Kept!Tell, Kept!vars
  <1>6. CASE Excuse(c) /\ UNCHANGED <<content, root>>
    <2>1. \A q \in Ids \ {r} : \A u : Drafted(q, u) <=> Drafted(q, u)'
      BY <1>2, <1>3, <1>6 DEF Drafted
    <2>2. \A q \in Ids : \A u : Shown(q, u) <=> Shown(q, u)'
      BY <1>6 DEF Shown
    <2>3. Says(r, None)'
      <3>0. \A u : ~Shown(r, u)
        BY <1>2 DEF Shown, RecreatesAlone
      <3>1. \A u : ~Shown(r, u)'
        BY <1>1, <2>2, <3>0
      <3>2. \A u : ~Drafted(r, u)'
        BY <1>2, <1>3, <1>6 DEF Drafted, RecreatesAlone
      <3> QED BY <3>1, <3>2 DEF Says
    <2>4. Text' = [Text EXCEPT ![r] = None]
      BY <1>1, <2>1, <2>2, <2>3, TextChanges DEF Says
    <2>5. Roots' = Roots /\ excused' = excused \cup {r}
      BY <1>6 DEF Roots, Given, Excuse
    <2>6. Text[r] # None
      BY <1>0, <1>1, <1>4
    <2> QED BY <1>1, <2>4, <2>5, <2>6 DEF Kept!Forget
  <1> QED BY <1>5, <1>6 DEF Recreate

\* Three requests that fail or interleave are one change of a memory: whatever
\* any number of clients do, the store is one where a memory has one content, is
\* never brought back once it has gone, and never goes without a word.
THEOREM RefinesKeptMemories == Spec => ImplementsKeptMemories
  <1>1. Init => RefInv
    BY InvInit DEF Init, RefInv, DraftInHand
  <1>2. RefInv /\ [Next]_vars => RefInv'
    <2> SUFFICES ASSUME RefInv, [Next]_vars PROVE RefInv'
      OBVIOUS
    <2>1. MemoryInv'
      BY InvStep DEF RefInv
    <2>2. CASE UNCHANGED vars
      BY <2>1, <2>2 DEF vars, call, RefInv, DraftInHand
    <2>3. CASE Next
      <3>1. PICK c \in Clients : Step(c)
        BY <2>3 DEF Next, Step
      <3> QED BY <2>1, <3>1, DraftStep DEF RefInv
    <2> QED BY <2>2, <2>3
  <1>3. RefInv => TextSays
    BY TextIsWhatIsSaid DEF RefInv
  <1>4. Init => Kept!Init
    <2> SUFFICES ASSUME Init PROVE Kept!Init
      OBVIOUS
    <2>1. \A r \in Ids : Held(r) = {}
      BY DEF Init, Held, Live, Recreating
    <2> QED BY <2>1 DEF Init, Kept!Init, Text, Roots, Given
  <1>5. RefInv /\ RefInv' /\ TextSays /\ TextSays' /\ [Next]_vars => [Kept!Next]_(Kept!vars)
    <2> SUFFICES ASSUME RefInv, TextSays, TextSays', [Next]_vars
                 PROVE  Kept!Next \/ UNCHANGED Kept!vars
      OBVIOUS
    <2>1. CASE UNCHANGED vars
      <3>1. UNCHANGED Text
        BY <2>1, TextStays DEF vars, call, Says, Shown, Drafted, Recreating
      <3> QED BY <2>1, <3>1 DEF vars, Kept!vars, Roots, Given
    <2>2. CASE Next
      <3>1. PICK c \in Clients : Step(c)
        BY <2>2 DEF Next, Step
      <3>2. CASE Add(c)
        BY <3>2, AddKeeps DEF Kept!Next
      <3>3. CASE DeleteCall(c) \/ UpdateCall(c) \/ Fetch(c)
        BY <3>3, ReadStays
      <3>4. CASE Delete(c)
        BY <3>4, RemoveForgets, ErrorTells DEF Delete, Kept!Next
      <3>5. CASE Replace(c)
        BY <3>5, RemoveForgets, ErrorTells, ReplaceChanges DEF Replace, Kept!Next
      <3>6. CASE Recreate(c)
        BY <3>6, RecreateShowsOrForgets DEF Kept!Next
      <3> QED BY <3>1, <3>2, <3>3, <3>4, <3>5, <3>6 DEF Step
    <2> QED BY <2>1, <2>2
  <1> QED BY <1>1, <1>2, <1>3, <1>4, <1>5, PTL DEF Spec, ImplementsKeptMemories, Kept!Spec
=============================================================================
