------------------------ MODULE MemoryStorageProofs ------------------------
(***************************************************************************)
(* The in-memory store keeps the events of an owner apart and is, to its   *)
(* clients, the atomic store of EventStore: for every set of clients, IDs, *)
(* events and calls.                                                       *)
(*                                                                         *)
(* The argument is the write lock: what a call has checked is still true   *)
(* when it stores, because whoever checked holds the lock and only its     *)
(* holder stores (Guarded, CheckHolds).                                    *)
(***************************************************************************)
EXTENDS MemoryStorage, TLAPS

----------------------------------------------------------------------------
(* Tables of events *)

\* An update gives an event: fields given and fields kept are of their types
\* (storage.go, UpdateEvent).
LEMMA OverlayType ==
  ASSUME NEW e \in Event, NEW p \in Patch
  PROVE  Overlay(e, p) \in Event
BY EventAssumption DEF Overlay, Given, Event, Patch

\* Two events overlap or not, in whatever order they are compared.
LEMMA OverlapsSymmetric ==
  ASSUME NEW a \in Event, NEW b \in Event
  PROVE  Overlaps(a, b) <=> Overlaps(b, a)
BY DEF Overlaps, Event

\* Storing an event that nothing but the event it replaces is in the way of
\* keeps the owner's events apart (checkConflict with excludeID).
LEMMA StoreKeepsDisjoint ==
  ASSUME NEW table \in Table, NEW id \in IDs, NEW e \in Event,
         Disjoint(table), ~Conflict(table, e, id)
  PROVE  Disjoint([table EXCEPT ![id] = e])
<1> DEFINE t == [table EXCEPT ![id] = e]
<1>1. SUFFICES ASSUME NEW i \in IDs, NEW j \in IDs, i # j,
                      t[i] # None, t[j] # None, t[i].owner = t[j].owner
               PROVE  ~Overlaps(t[i], t[j])
  BY DEF Disjoint
<1>2. \A k \in IDs : k # id => t[k] = table[k]
  BY DEF Table
<1>3. t[id] = e
  BY DEF Table
<1>4. CASE i = id
  BY <1>1, <1>2, <1>3, <1>4 DEF Conflict
<1>5. CASE j = id
  <2>1. table[i] \in Event /\ t[i] = table[i]
    BY <1>1, <1>2, <1>5 DEF Table
  <2>2. ~Overlaps(e, table[i])
    BY <1>1, <1>3, <1>5, <2>1 DEF Conflict
  <2> QED BY <1>3, <1>5, <2>1, <2>2, OverlapsSymmetric
<1>6. CASE i # id /\ j # id
  BY <1>1, <1>2, <1>6 DEF Disjoint
<1> QED BY <1>4, <1>5, <1>6

\* Nothing is in the way of a new event: neither of what it replaces.
LEMMA NewIsFree ==
  ASSUME NEW table \in Table, NEW id \in IDs, NEW e, ~Conflict(table, e, None)
  PROVE  ~Conflict(table, e, id)
BY EventAssumption DEF Conflict

\* Removing an event keeps the others apart.
LEMMA RemoveKeepsDisjoint ==
  ASSUME NEW table \in Table, NEW id \in IDs, Disjoint(table)
  PROVE  Disjoint([table EXCEPT ![id] = None])
BY DEF Disjoint, Table

----------------------------------------------------------------------------
(* The invariant *)

\* A call is in progress unless the client is idle.
CallInv == \A c \in Clients : pc[c] = "idle" <=> call[c] = None

\* A writing call holds the write lock from its first step to its store.
Guarded == \A c \in Clients :
  /\ pc[c] = "checked" => Writes(c)
  /\ pc[c] \in {"locked", "checked"} /\ Writes(c) => writer = c

\* What the client has checked.
CheckHolds(c) ==
  /\ key[c] \in IDs
  /\ \/ /\ call[c].op = "create"
        /\ events[key[c]] = None
        /\ current[c] = call[c].event
        /\ current[c] \in Event
        /\ ~Refused(events, current[c], None)
     \/ /\ call[c].op = "update"
        /\ key[c] = call[c].id
        /\ events[key[c]] # None
        /\ current[c] = Overlay(events[key[c]], call[c].patch)
        /\ current[c] \in Event
        /\ ~Refused(events, current[c], key[c])
     \/ /\ call[c].op = "delete"
        /\ key[c] = call[c].id
        /\ events[key[c]] # None
        /\ current[c] = None

Checked == \A c \in Clients : pc[c] = "checked" => CheckHolds(c)

IInv == TypeOK /\ CallInv /\ Guarded /\ Checked /\ NoOverlap

----------------------------------------------------------------------------
(* Calls *)

\* A call of each kind has the fields of its kind.
LEMMA CallFields ==
  ASSUME NEW k \in Calls
  PROVE  /\ k # None
         /\ k.op = "create" => k.event \in Event
         /\ k.op = "update" => k.id \in IDs /\ k.patch \in Patch
         /\ k.op \in {"delete", "get"} => k.id \in IDs
         /\ k.op \in {"create", "update", "delete", "get", "list"}
<1>1. k \in Call /\ k # None
  BY EventAssumption
<1>2. CASE k \in CreateCall
  BY <1>1, <1>2 DEF CreateCall
<1>3. CASE k \in UpdateCall
  BY <1>1, <1>3 DEF UpdateCall
<1>4. CASE k \in DeleteCall
  BY <1>1, <1>4 DEF DeleteCall
<1>5. CASE k \in GetCall
  BY <1>1, <1>5 DEF GetCall
<1>6. CASE k \in ListCall
  BY <1>1, <1>6 DEF ListCall
<1> QED BY <1>1, <1>2, <1>3, <1>4, <1>5, <1>6 DEF Call

\* A table's entry is an event or nothing.
LEMMA Entry ==
  ASSUME NEW t \in Table, NEW id \in IDs, t[id] # None
  PROVE  t[id] \in Event
BY DEF Table

LEMMA Replies ==
  /\ DateBusy # Silent /\ NotFound # Silent
  /\ \A v : Ok(v) # Silent
BY DEF DateBusy, NotFound, Silent, Ok, Reply

----------------------------------------------------------------------------
(* The invariant is inductive *)

LEMMA InitInv == Init => IInv
<1> SUFFICES ASSUME Init PROVE IInv
  OBVIOUS
<1> USE DEF Init
<1>1. TypeOK
  BY DEF TypeOK, Table
<1>2. CallInv /\ Guarded /\ Checked
  BY DEF CallInv, Guarded, Checked
<1>3. NoOverlap
  BY DEF NoOverlap, Disjoint
<1> QED BY <1>1, <1>2, <1>3 DEF IInv

\* Every step keeps the types.
LEMMA TypeStep ==
  ASSUME IInv, [Next]_vars
  PROVE  TypeOK'
<1> USE ClientAssumption DEF IInv
<1>0. TypeOK
  OBVIOUS
<1>1. CASE UNCHANGED vars
  BY <1>0, <1>1 DEF vars, lock, local, TypeOK
<1>2. ASSUME NEW c \in Clients, Invoke(c) PROVE TypeOK'
  BY <1>0, <1>2 DEF Invoke, GoTo, TypeOK, lock, local
<1>3. ASSUME NEW c \in Clients, Lock(c) \/ RLock(c) PROVE TypeOK'
  BY <1>0, <1>3 DEF Lock, RLock, GoTo, TypeOK, lock, local
<1>4. ASSUME NEW c \in Clients, NEW r, r # Silent, Answer(c, r) PROVE TypeOK'
  BY <1>0, <1>4 DEF Answer, GoTo, TypeOK, lock, local
<1>5. ASSUME NEW c \in Clients, NEW id \in IDs, NEW e \in Event \cup {None},
             Proceed(c, id, e)
      PROVE  TypeOK'
  BY <1>0, <1>5 DEF Proceed, GoTo, TypeOK, lock, local
<1>6. ASSUME NEW c \in Clients, CreateEvent(c) PROVE TypeOK'
  <2>1. call[c] \in Calls /\ call[c].op = "create"
    BY <1>0, <1>6 DEF CreateEvent, Doing, CallInv, TypeOK
  <2>2. call[c].event \in Event
    BY <2>1, CallFields
  <2> QED BY <1>4, <1>5, <1>6, <2>2, Replies DEF CreateEvent
<1>7. ASSUME NEW c \in Clients, UpdateEvent(c) PROVE TypeOK'
  <2>1. call[c] \in Calls /\ call[c].op = "update"
    BY <1>0, <1>7 DEF UpdateEvent, Doing, CallInv, TypeOK
  <2>2. call[c].id \in IDs /\ call[c].patch \in Patch
    BY <2>1, CallFields
  <2>3. events[call[c].id] # None
          => Overlay(events[call[c].id], call[c].patch) \in Event
    BY <1>0, <2>2, Entry, OverlayType DEF TypeOK
  <2> QED BY <1>4, <1>5, <1>7, <2>2, <2>3, Replies DEF UpdateEvent
<1>8. ASSUME NEW c \in Clients, DeleteEvent(c) PROVE TypeOK'
  <2>1. call[c] \in Calls /\ call[c].op = "delete"
    BY <1>0, <1>8 DEF DeleteEvent, Doing, CallInv, TypeOK
  <2>2. call[c].id \in IDs
    BY <2>1, CallFields
  <2> QED BY <1>4, <1>5, <1>8, <2>2, Replies DEF DeleteEvent
<1>9. ASSUME NEW c \in Clients, GetEvent(c) \/ ListEvents(c) PROVE TypeOK'
  BY <1>4, <1>9, Replies DEF GetEvent, ListEvents
<1>10. ASSUME NEW c \in Clients, Store(c) PROVE TypeOK'
  <2>1. key[c] \in IDs /\ current[c] \in Event \cup {None}
    BY <1>0, <1>10 DEF Store, GoTo, Checked, CheckHolds, TypeOK
  <2>2. events' \in Table
    BY <1>0, <1>10, <2>1 DEF Store, TypeOK, Table
  <2> QED BY <1>0, <1>10, <2>2, Replies DEF Store, GoTo, TypeOK, lock, local
<1>11. ASSUME NEW c \in Clients, Return(c) PROVE TypeOK'
  BY <1>0, <1>11 DEF Return, GoTo, TypeOK
<1> QED
  BY <1>1, <1>2, <1>3, <1>6, <1>7, <1>8, <1>9, <1>10, <1>11 DEF Next, Body

\* Every step keeps the clients' calls, locks and checks in order.
LEMMA GuardStep ==
  ASSUME IInv, [Next]_vars
  PROVE  CallInv' /\ Guarded'
<1> USE ClientAssumption DEF IInv, TypeOK, CallInv, Guarded, Writes
<1>1. CASE UNCHANGED vars
  BY <1>1 DEF vars, lock, local
<1>2. ASSUME NEW c \in Clients, Invoke(c) PROVE CallInv' /\ Guarded'
  <2>1. \A k \in Calls : k # None
    BY CallFields
  <2> QED BY <1>2, <2>1 DEF Invoke, GoTo, lock
<1>3. ASSUME NEW c \in Clients, Lock(c) PROVE CallInv' /\ Guarded'
  BY <1>3 DEF Lock, GoTo
<1>4. ASSUME NEW c \in Clients, RLock(c) PROVE CallInv' /\ Guarded'
  BY <1>4 DEF RLock, GoTo
<1>5. ASSUME NEW c \in Clients, NEW r, Answer(c, r)
      PROVE  CallInv' /\ Guarded'
  BY <1>5 DEF Answer, GoTo, lock
<1>6. ASSUME NEW c \in Clients, NEW id, NEW e, Proceed(c, id, e),
             call[c].op \in {"create", "update", "delete"}
      PROVE  CallInv' /\ Guarded'
  BY <1>6 DEF Proceed, GoTo, lock
<1>7. ASSUME NEW c \in Clients, Store(c) PROVE CallInv' /\ Guarded'
  BY <1>7 DEF Store, GoTo, lock
<1>8. ASSUME NEW c \in Clients, Return(c) PROVE CallInv' /\ Guarded'
  BY <1>8 DEF Return, GoTo
<1>9. ASSUME NEW c \in Clients, Body(c) PROVE CallInv' /\ Guarded'
  <2>1. CASE CreateEvent(c)
    BY <1>5, <1>6, <2>1 DEF CreateEvent, Doing
  <2>2. CASE UpdateEvent(c)
    BY <1>5, <1>6, <2>2 DEF UpdateEvent, Doing
  <2>3. CASE DeleteEvent(c)
    BY <1>5, <1>6, <2>3 DEF DeleteEvent, Doing
  <2>4. CASE GetEvent(c) \/ ListEvents(c)
    BY <1>5, <2>4 DEF GetEvent, ListEvents
  <2> QED BY <1>7, <1>9, <2>1, <2>2, <2>3, <2>4 DEF Body
<1> QED BY <1>1, <1>2, <1>3, <1>4, <1>8, <1>9 DEF Next

\* A step that neither stores nor checks leaves what was checked as it is.
LEMMA CheckedKept ==
  ASSUME IInv, NEW c \in Clients, events' = events, key' = key,
         current' = current, pc'[c] # "checked",
         \A d \in Clients \ {c} : pc'[d] = pc[d] /\ call'[d] = call[d]
  PROVE  Checked'
<1> SUFFICES ASSUME NEW d \in Clients, pc'[d] = "checked"
             PROVE  CheckHolds(d)'
  BY DEF Checked
<1>1. d # c
  OBVIOUS
<1> QED BY <1>1 DEF CheckHolds, IInv, Checked

\* What the client that checks has checked holds; the lock keeps it so.
LEMMA CheckedStep ==
  ASSUME IInv, [Next]_vars
  PROVE  Checked' /\ NoOverlap'
<1> USE DEF IInv
<1>1. CASE UNCHANGED vars
  BY <1>1 DEF vars, lock, local, Checked, CheckHolds, NoOverlap
<1>2. ASSUME NEW c \in Clients, Invoke(c) \/ Lock(c) \/ RLock(c)
      PROVE  Checked' /\ NoOverlap'
  <2>1. /\ pc'[c] # "checked"
        /\ UNCHANGED <<events, local>>
        /\ \A d \in Clients \ {c} : pc'[d] = pc[d] /\ call'[d] = call[d]
    BY <1>2 DEF Invoke, Lock, RLock, GoTo, TypeOK
  <2> QED BY <2>1, CheckedKept DEF local, NoOverlap
<1>3. ASSUME NEW c \in Clients, NEW r, Answer(c, r)
      PROVE  Checked' /\ NoOverlap'
  <2>1. /\ pc'[c] # "checked"
        /\ UNCHANGED <<events, local>>
        /\ \A d \in Clients \ {c} : pc'[d] = pc[d] /\ call'[d] = call[d]
    BY <1>3 DEF Answer, GoTo, TypeOK
  <2> QED BY <2>1, CheckedKept DEF local, NoOverlap
<1>4. ASSUME NEW c \in Clients, NEW id \in IDs, NEW e \in Event \cup {None},
             Proceed(c, id, e),
             (pc[c] = "checked" /\ key[c] = id /\ current[c] = e => CheckHolds(c))'
      PROVE  Checked' /\ NoOverlap'
  <2>1. /\ pc'[c] = "checked" /\ key'[c] = id /\ current'[c] = e
        /\ UNCHANGED <<events, call>>
        /\ \A d \in Clients \ {c} :
             pc'[d] = pc[d] /\ key'[d] = key[d] /\ current'[d] = current[d]
    BY <1>4 DEF Proceed, GoTo, TypeOK
  <2>2. CheckHolds(c)'
    BY <1>4, <2>1
  <2>3. ASSUME NEW d \in Clients \ {c}, pc'[d] = "checked"
        PROVE  CheckHolds(d)'
    BY <2>1, <2>3 DEF Checked, CheckHolds
  <2> QED BY <2>1, <2>2, <2>3 DEF Checked, NoOverlap
<1>5. ASSUME NEW c \in Clients, CreateEvent(c) PROVE Checked' /\ NoOverlap'
  <2>1. call[c] \in Calls /\ call[c].op = "create"
    BY <1>5 DEF CreateEvent, Doing, CallInv, TypeOK
  <2>2. call[c].event \in Event
    BY <2>1, CallFields
  <2>3. ASSUME NEW id \in IDs, Proceed(c, id, call[c].event),
               events[id] = None, ~Refused(events, call[c].event, None)
        PROVE  Checked' /\ NoOverlap'
    <3>1. UNCHANGED <<events, call>>
      BY <2>3 DEF Proceed
    <3>2. (pc[c] = "checked" /\ key[c] = id /\ current[c] = call[c].event
             => CheckHolds(c))'
      BY <2>1, <2>2, <2>3, <3>1 DEF CheckHolds
    <3> QED BY <1>4, <2>2, <2>3, <3>1, <3>2
  <2> QED BY <1>3, <1>5, <2>3 DEF CreateEvent
<1>6. ASSUME NEW c \in Clients, UpdateEvent(c) PROVE Checked' /\ NoOverlap'
  <2> DEFINE id == call[c].id
             e == Overlay(events[id], call[c].patch)
  <2>1. call[c] \in Calls /\ call[c].op = "update"
    BY <1>6 DEF UpdateEvent, Doing, CallInv, TypeOK
  <2>2. id \in IDs /\ call[c].patch \in Patch
    BY <2>1, CallFields
  <2>3. ASSUME Proceed(c, id, e), events[id] # None, ~Refused(events, e, id)
        PROVE  Checked' /\ NoOverlap'
    <3>1. UNCHANGED <<events, call>>
      BY <2>3 DEF Proceed
    <3>2. e \in Event
      BY <2>2, <2>3, Entry, OverlayType DEF TypeOK
    <3>3. (pc[c] = "checked" /\ key[c] = id /\ current[c] = e
             => CheckHolds(c))'
      BY <2>1, <2>2, <2>3, <3>1, <3>2 DEF CheckHolds
    <3> QED BY <1>4, <2>2, <2>3, <3>1, <3>2, <3>3
  <2> QED BY <1>3, <1>6, <2>3 DEF UpdateEvent
<1>7. ASSUME NEW c \in Clients, DeleteEvent(c) PROVE Checked' /\ NoOverlap'
  <2> DEFINE id == call[c].id
  <2>1. call[c] \in Calls /\ call[c].op = "delete"
    BY <1>7 DEF DeleteEvent, Doing, CallInv, TypeOK
  <2>2. id \in IDs
    BY <2>1, CallFields
  <2>3. ASSUME Proceed(c, id, None), events[id] # None
        PROVE  Checked' /\ NoOverlap'
    <3>1. UNCHANGED <<events, call>>
      BY <2>3 DEF Proceed
    <3>2. (pc[c] = "checked" /\ key[c] = id /\ current[c] = None
             => CheckHolds(c))'
      BY <2>1, <2>2, <2>3, <3>1 DEF CheckHolds
    <3> QED BY <1>4, <2>2, <2>3, <3>1, <3>2
  <2> QED BY <1>3, <1>7, <2>3 DEF DeleteEvent
<1>8. ASSUME NEW c \in Clients, Store(c) PROVE Checked' /\ NoOverlap'
  <2>1. CheckHolds(c) /\ pc[c] = "checked" /\ writer = c
    BY <1>8 DEF Store, GoTo, Checked, Guarded
  <2>2. \A d \in Clients : pc'[d] # "checked"
    BY <1>8, <2>1 DEF Store, GoTo, Guarded, TypeOK
  <2>3. Disjoint(events) /\ events \in Table
    BY DEF NoOverlap, TypeOK
  <2>4. events' = [events EXCEPT ![key[c]] = current[c]]
    BY <1>8 DEF Store
  <2>5. Disjoint(events') => NoOverlap'
    BY DEF NoOverlap, Disjoint
  <2>6. CASE current[c] = None
    <3>1. key[c] \in IDs
      BY <2>1 DEF CheckHolds
    <3>2. Disjoint([events EXCEPT ![key[c]] = None])
      BY <2>3, <3>1, RemoveKeepsDisjoint
    <3> QED BY <2>2, <2>4, <2>5, <2>6, <3>2 DEF Checked
  <2>7. CASE current[c] # None
    <3>1. /\ key[c] \in IDs /\ current[c] \in Event
          /\ \/ ~Conflict(events, current[c], None)
             \/ ~Conflict(events, current[c], key[c])
      BY <2>1, <2>7 DEF CheckHolds, Refused
    <3>2. ~Conflict(events, current[c], key[c])
      BY <2>3, <3>1, NewIsFree
    <3>3. Disjoint([events EXCEPT ![key[c]] = current[c]])
      BY <2>3, <3>1, <3>2, StoreKeepsDisjoint
    <3> QED BY <2>2, <2>4, <2>5, <3>3 DEF Checked
  <2> QED BY <2>6, <2>7
<1>9. ASSUME NEW c \in Clients, Return(c) PROVE Checked' /\ NoOverlap'
  <2>1. \A d \in Clients \ {c} : UNCHANGED <<pc[d], call[d], key[d], current[d]>>
    BY <1>9 DEF Return, GoTo, TypeOK
  <2>2. pc'[c] # "checked" /\ UNCHANGED events
    BY <1>9 DEF Return, GoTo, TypeOK
  <2>3. ASSUME NEW d \in Clients, pc'[d] = "checked" PROVE CheckHolds(d)'
    BY <2>1, <2>2, <2>3 DEF Checked, CheckHolds
  <2> QED BY <2>2, <2>3 DEF Checked, NoOverlap
<1>10. ASSUME NEW c \in Clients, GetEvent(c) \/ ListEvents(c)
       PROVE  Checked' /\ NoOverlap'
  BY <1>3, <1>10 DEF GetEvent, ListEvents
<1> QED
  BY <1>1, <1>2, <1>5, <1>6, <1>7, <1>8, <1>9, <1>10 DEF Next, Body

LEMMA Inductive == Spec => []IInv
<1>1. IInv /\ [Next]_vars => IInv'
  BY TypeStep, GuardStep, CheckedStep DEF IInv
<1> QED BY InitInv, <1>1, PTL DEF Spec

\* The variables keep their types, whatever the calls and the clients.
THEOREM MemoryTypeCorrect == Spec => []TypeOK
<1>1. IInv => TypeOK
  BY DEF IInv
<1> QED BY Inductive, <1>1, PTL

\* No interleaving of creates and updates lets two events of an owner
\* overlap: the write lock keeps a passed check true until its store.
THEOREM OwnersDoNotOverlap == Spec => []NoOverlap
<1>1. IInv => NoOverlap
  BY DEF IInv
<1> QED BY Inductive, <1>1, PTL

----------------------------------------------------------------------------
(* The refinement *)

\* The two modules compute the same on a table.
LEMMA SameOperators ==
  /\ \A t, e, x : Promise!Refused(t, e, x) <=> Refused(t, e, x)
  /\ \A e, p : Promise!Overlay(e, p) = Overlay(e, p)
  /\ \A t, k : Promise!Listing(t, k) = Listing(t, k)
  /\ \A v : Promise!Ok(v) = Ok(v)
  /\ Promise!DateBusy = DateBusy
  /\ Promise!NotFound = NotFound
  /\ Promise!Silent = Silent
<1>1. \A t, e, x : Promise!Refused(t, e, x) <=> Refused(t, e, x)
  BY DEF Promise!Refused, Refused, Promise!Conflict, Conflict,
         Promise!Overlaps, Overlaps
<1>2. \A e, p : Promise!Overlay(e, p) = Overlay(e, p)
  BY DEF Promise!Overlay, Overlay, Promise!Given, Given
<1>3. \A t, k : Promise!Listing(t, k) = Listing(t, k)
  BY DEF Promise!Listing, Listing, Promise!Listed, Listed
<1>4. /\ \A v : Promise!Ok(v) = Ok(v)
      /\ Promise!DateBusy = DateBusy
      /\ Promise!NotFound = NotFound
      /\ Promise!Silent = Silent
  BY DEF Promise!Ok, Ok, Promise!DateBusy, DateBusy, Promise!NotFound,
         NotFound, Promise!Silent, Silent, Promise!Reply, Reply
<1> QED BY <1>1, <1>2, <1>3, <1>4

\* A step of a call is the step of the promise, or shows nothing.
LEMMA StepImplements ==
  ASSUME IInv, [Next]_vars
  PROVE  [Promise!Next]_(Promise!vars)
<1> USE DEF IInv
<1> DEFINE Stutter == UNCHANGED <<events, call, reply>>
<1>1. Stutter => UNCHANGED Promise!vars
  BY DEF Promise!vars
<1>2. CASE UNCHANGED vars
  BY <1>1, <1>2 DEF vars
<1>3. SUFFICES ASSUME NEW c \in Clients,
                      Invoke(c) \/ Lock(c) \/ RLock(c) \/ Body(c) \/ Return(c)
               PROVE  Promise!Step(c) \/ Stutter
  BY <1>1, <1>2 DEF Next, Promise!Next
<1>4. CASE Invoke(c)
  BY <1>4, <1>3 DEF Invoke, GoTo, CallInv, Promise!Invoke, Promise!Step
<1>5. CASE Lock(c) \/ RLock(c)
  BY <1>5 DEF Lock, RLock
<1>6. CASE Return(c)
  BY <1>6, SameOperators DEF Return, GoTo, TypeOK, Promise!Return, Promise!Step
<1>7. ASSUME NEW op, Doing(c, op), TypeOK, CallInv
      PROVE  Promise!Doing(c, op) /\ call[c] \in Calls
  BY <1>3, <1>7, SameOperators DEF Doing, TypeOK, CallInv, Promise!Doing
<1>8. ASSUME NEW r, Answer(c, r)
      PROVE  Promise!Answer(c, r) /\ UNCHANGED events
  BY <1>8 DEF Answer, Promise!Answer
<1>9. ASSUME NEW id, NEW e, Proceed(c, id, e)
      PROVE  Stutter
  BY <1>9 DEF Proceed
<1>10. CASE CreateEvent(c)
  BY <1>7, <1>8, <1>9, <1>10, SameOperators
     DEF CreateEvent, Promise!CreateEvent, Promise!Step
<1>11. CASE UpdateEvent(c)
  BY <1>7, <1>8, <1>9, <1>11, SameOperators
     DEF UpdateEvent, Promise!UpdateEvent, Promise!Step
<1>12. CASE DeleteEvent(c)
  <2> DEFINE id == call[c].id
  <2>1. Promise!Doing(c, "delete") /\ call[c] \in Calls /\ call[c].op = "delete"
    BY <1>7, <1>12 DEF DeleteEvent, Doing
  <2>2. id \in IDs
    BY <2>1, CallFields
  <2>3. ASSUME events[id] = None, Answer(c, NotFound)
        PROVE  Promise!DeleteEvent(c)
    <3>1. Promise!Answer(c, NotFound) /\ events' = events
      BY <1>8, <2>3
    <3>2. [events EXCEPT ![id] = None] = events
      BY <2>2, <2>3 DEF TypeOK, Table
    <3> QED BY <2>1, <2>3, <3>1, <3>2, SameOperators DEF Promise!DeleteEvent
  <2> QED BY <1>9, <1>12, <2>3 DEF DeleteEvent, Promise!Step
<1>13. CASE GetEvent(c)
  BY <1>7, <1>8, <1>13, SameOperators
     DEF GetEvent, Promise!GetEvent, Promise!Step
<1>14. CASE ListEvents(c)
  BY <1>7, <1>8, <1>14, SameOperators
     DEF ListEvents, Promise!ListEvents, Promise!Step
<1>15. CASE Store(c)
  <2>1. pc[c] = "checked" /\ CheckHolds(c) /\ call[c] # None /\ reply[c] = Silent
    BY <1>3, <1>15 DEF Store, GoTo, Checked, CallInv, TypeOK
  <2>2. /\ events' = [events EXCEPT ![key[c]] = current[c]]
        /\ call' = call
        /\ reply' = [reply EXCEPT ![c] =
                       Ok(IF call[c].op = "create" THEN key[c] ELSE None)]
    BY <1>15 DEF Store
  <2>3. Promise!Doing(c, call[c].op)
    BY <2>1, SameOperators DEF Promise!Doing
  <2>4. CASE call[c].op = "create"
    <3>1. /\ key[c] \in IDs /\ events[key[c]] = None
          /\ current[c] = call[c].event
          /\ ~Promise!Refused(events, call[c].event, None)
      BY <2>1, <2>4, SameOperators DEF CheckHolds
    <3>2. Promise!Answer(c, Promise!Ok(key[c]))
      BY <2>2, <2>4, SameOperators DEF Promise!Answer
    <3> QED BY <2>2, <2>3, <2>4, <3>1, <3>2
            DEF Promise!CreateEvent, Promise!Step
  <2>5. CASE call[c].op = "update"
    <3>1. /\ key[c] = call[c].id /\ events[key[c]] # None
          /\ current[c] = Promise!Overlay(events[key[c]], call[c].patch)
          /\ ~Promise!Refused(events, current[c], key[c])
      BY <2>1, <2>5, SameOperators DEF CheckHolds
    <3>2. Promise!Answer(c, Promise!Ok(None))
      BY <2>2, <2>5, SameOperators DEF Promise!Answer
    <3> QED BY <2>2, <2>3, <2>5, <3>1, <3>2
            DEF Promise!UpdateEvent, Promise!Step
  <2>6. CASE call[c].op = "delete"
    <3>1. key[c] = call[c].id /\ events[key[c]] # None /\ current[c] = None
      BY <2>1, <2>6 DEF CheckHolds
    <3>2. Promise!Answer(c, Promise!Ok(None))
      BY <2>2, <2>6, SameOperators DEF Promise!Answer
    <3> QED BY <2>2, <2>3, <2>6, <3>1, <3>2
            DEF Promise!DeleteEvent, Promise!Step
  <2> QED BY <2>1, <2>4, <2>5, <2>6 DEF CheckHolds
<1> QED
  BY <1>3, <1>4, <1>5, <1>6, <1>10, <1>11, <1>12, <1>13, <1>14, <1>15 DEF Body

\* The locked, two-step operations implement the atomic ones: what a client
\* is told and what the map shows can be explained by calls that each take
\* effect at one moment.
THEOREM MemoryImplementsStore == Spec => ImplementsStore
<1>1. Init => Promise!Init
  BY SameOperators DEF Init, Promise!Init
<1>2. IInv /\ [Next]_vars => [Promise!Next]_(Promise!vars)
  BY StepImplements
<1> QED BY Inductive, <1>1, <1>2, PTL DEF Spec, ImplementsStore, Promise!Spec

=============================================================================
