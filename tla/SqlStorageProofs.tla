-------------------------- MODULE SqlStorageProofs --------------------------
(***************************************************************************)
(* Events of an owner stay apart whatever interleaves between the two      *)
(* statements of an update; and but for three named steps the PostgreSQL   *)
(* store is the atomic store of EventStore.                                *)
(***************************************************************************)
EXTENDS SqlStorage, TLAPS

----------------------------------------------------------------------------
(* Tables of events *)

\* An update gives an event: fields given and fields kept are of their types
\* (storage.go, UpdateEvent).
LEMMA OverlayType ==
  ASSUME NEW e \in Event, NEW p \in Patch
  PROVE  Overlay(e, p) \in Event
BY EventAssumption DEF Overlay, Given, Event, Patch

\* Two events overlap or not, in whatever order they are compared.
LEMMA OverlapsSymmetric ==
  ASSUME NEW a \in Event, NEW b \in Event
  PROVE  Overlaps(a, b) <=> Overlaps(b, a)
BY DEF Overlaps, Event

\* Storing an event that nothing but the event it replaces is in the way of
\* keeps the owner's events apart (checkConflict with excludeID).
LEMMA StoreKeepsDisjoint ==
  ASSUME NEW table \in Table, NEW id \in IDs, NEW e \in Event,
         Disjoint(table), ~Conflict(table, e, id)
  PROVE  Disjoint([table EXCEPT ![id] = e])
<1> DEFINE t == [table EXCEPT ![id] = e]
<1>1. SUFFICES ASSUME NEW i \in IDs, NEW j \in IDs, i # j,
                      t[i] # None, t[j] # None, t[i].owner = t[j].owner
               PROVE  ~Overlaps(t[i], t[j])
  BY DEF Disjoint
<1>2. \A k \in IDs : k # id => t[k] = table[k]
  BY DEF Table
<1>3. t[id] = e
  BY DEF Table
<1>4. CASE i = id
  BY <1>1, <1>2, <1>3, <1>4 DEF Conflict
<1>5. CASE j = id
  <2>1. table[i] \in Event /\ t[i] = table[i]
    BY <1>1, <1>2, <1>5 DEF Table
  <2>2. ~Overlaps(e, table[i])
    BY <1>1, <1>3, <1>5, <2>1 DEF Conflict
  <2> QED BY <1>3, <1>5, <2>1, <2>2, OverlapsSymmetric
<1>6. CASE i # id /\ j # id
  BY <1>1, <1>2, <1>6 DEF Disjoint
<1> QED BY <1>4, <1>5, <1>6

\* Nothing is in the way of a new event: neither of what it replaces.
LEMMA NewIsFree ==
  ASSUME NEW table \in Table, NEW id \in IDs, NEW e, ~Conflict(table, e, None)
  PROVE  ~Conflict(table, e, id)
BY EventAssumption DEF Conflict

\* Removing an event keeps the others apart.
LEMMA RemoveKeepsDisjoint ==
  ASSUME NEW table \in Table, NEW id \in IDs, Disjoint(table)
  PROVE  Disjoint([table EXCEPT ![id] = None])
BY DEF Disjoint, Table

----------------------------------------------------------------------------
(* The invariant *)

\* A call is in progress unless the client is idle; an update that goes on
\* has read a row.
CallInv == \A c \in Clients :
  /\ pc[c] = "idle" <=> call[c] = None
  /\ pc[c] = "read" => call[c].op = "update" /\ row[c] \in Event

IInv == TypeOK /\ CallInv /\ NoOverlap

----------------------------------------------------------------------------
(* Calls and statements *)

LEMMA SqlCallFields ==
  ASSUME NEW k \in Calls
  PROVE  /\ k # None
         /\ k.op = "create" => k.event \in Event
         /\ k.op = "update" => k.id \in IDs /\ k.patch \in Patch
         /\ k.op \in {"delete", "get"} => k.id \in IDs
<1>1. k \in Call /\ k # None
  BY EventAssumption
<1>2. CASE k \in CreateCall
  BY <1>1, <1>2 DEF CreateCall
<1>3. CASE k \in UpdateCall
  BY <1>1, <1>3 DEF UpdateCall
<1>4. CASE k \in DeleteCall
  BY <1>1, <1>4 DEF DeleteCall
<1>5. CASE k \in GetCall \cup ListCall
  BY <1>1, <1>5 DEF GetCall, ListCall
<1> QED BY <1>1, <1>2, <1>3, <1>4, <1>5 DEF Call

LEMMA SqlReplies ==
  /\ DateBusy # Silent /\ NotFound # Silent /\ Failed # Silent
  /\ \A v : Ok(v) # Silent
BY DEF DateBusy, NotFound, Failed, Silent, Ok, Reply

\* A statement that writes an event the constraints accept, or removes one,
\* keeps the events of an owner apart.
LEMMA Statement ==
  ASSUME IInv, NEW id \in IDs, NEW e \in Event \cup {None},
         events' = [events EXCEPT ![id] = e],
         e # None => \/ ~Refused(events, e, id)
                     \/ ~Refused(events, e, None)
  PROVE  events' \in Table /\ NoOverlap'
<1>1. events \in Table /\ Disjoint(events)
  BY DEF IInv, TypeOK, NoOverlap
<1>2. events' \in Table
  BY <1>1 DEF Table
<1>3. Disjoint(events') => NoOverlap'
  BY DEF NoOverlap, Disjoint
<1>4. CASE e = None
  BY <1>1, <1>2, <1>3, <1>4, RemoveKeepsDisjoint
<1>5. CASE e # None
  <2>1. e \in Event
    BY <1>5
  <2>2. ~Conflict(events, e, id)
    BY <1>1, <1>5, NewIsFree DEF Refused
  <2> QED BY <1>1, <1>2, <1>3, <2>1, <2>2, StoreKeepsDisjoint
<1> QED BY <1>4, <1>5

----------------------------------------------------------------------------
(* The invariant is inductive *)

LEMMA SqlInit == Init => IInv
<1> SUFFICES ASSUME Init PROVE IInv
  OBVIOUS
<1>1. TypeOK
  BY DEF Init, TypeOK, Table
<1>2. CallInv
  BY DEF Init, CallInv
<1>3. NoOverlap
  BY DEF Init, NoOverlap, Disjoint
<1> QED BY <1>1, <1>2, <1>3 DEF IInv

\* A step that answers keeps the variables of the clients in order.
LEMMA Answering ==
  ASSUME IInv, NEW c \in Clients, NEW r, r # Silent, Answer(c, r),
         pc[c] # "idle", events' \in Table, NoOverlap'
  PROVE  IInv'
<1>1. TypeOK'
  BY DEF IInv, Answer, TypeOK
<1>2. CallInv'
  BY DEF IInv, Answer, TypeOK, CallInv
<1> QED BY <1>1, <1>2 DEF IInv

LEMMA SqlStep ==
  ASSUME IInv, [Next]_vars
  PROVE  IInv'
<1>0. TypeOK /\ CallInv /\ NoOverlap
  BY DEF IInv
<1>1. UNCHANGED events => events' \in Table /\ NoOverlap'
  BY <1>0 DEF TypeOK, NoOverlap
<1>2. CASE UNCHANGED vars
  BY <1>0, <1>1, <1>2 DEF vars, IInv, TypeOK, CallInv
<1>3. ASSUME NEW c \in Clients, Invoke(c) PROVE IInv'
  <2>1. \A k \in Calls : k # None
    BY SqlCallFields
  <2> QED BY <1>0, <1>1, <1>3, <2>1 DEF Invoke, IInv, TypeOK, CallInv
<1>4. ASSUME NEW c \in Clients, Return(c) PROVE IInv'
  BY <1>0, <1>1, <1>4 DEF Return, IInv, TypeOK, CallInv
<1>5. ASSUME NEW c \in Clients, NEW op, Doing(c, op)
      PROVE  call[c] \in Calls /\ call[c].op = op /\ pc[c] # "idle"
  BY <1>0, <1>5 DEF Doing, TypeOK, CallInv
<1>6. ASSUME NEW c \in Clients, CreateEvent(c) PROVE IInv'
  <2>1. call[c].event \in Event /\ pc[c] # "idle"
    BY <1>5, <1>6, SqlCallFields DEF CreateEvent
  <2>2. ASSUME NEW id \in IDs, ~Refused(events, call[c].event, None),
               Answer(c, Ok(id)) \/ Answer(c, Ok(None)),
               events' = [events EXCEPT ![id] = call[c].event]
        PROVE  IInv'
    <3>1. events' \in Table /\ NoOverlap'
      BY <2>1, <2>2, Statement
    <3> QED BY <2>1, <2>2, <3>1, Answering, SqlReplies
  <2>3. ASSUME Answer(c, DateBusy) \/ Answer(c, Ok(None)), UNCHANGED events
        PROVE  IInv'
    BY <1>1, <2>1, <2>3, Answering, SqlReplies
  <2> QED BY <1>6, <2>2, <2>3 DEF CreateEvent
<1>7. ASSUME NEW c \in Clients, ReadRow(c) PROVE IInv'
  <2>1. /\ call[c].id \in IDs /\ pc[c] # "idle" /\ call[c].op = "update"
        /\ call[c] # None
    BY <1>5, <1>7, SqlCallFields DEF ReadRow
  <2>2. CASE Answer(c, NotFound)
    BY <1>1, <1>7, <2>1, <2>2, Answering, SqlReplies DEF ReadRow
  <2>3. ASSUME events[call[c].id] # None,
               row' = [row EXCEPT ![c] = events[call[c].id]],
               pc' = [pc EXCEPT ![c] = "read"],
               UNCHANGED <<call, reply>>
        PROVE  IInv'
    <3>1. events[call[c].id] \in Event
      BY <1>0, <2>1, <2>3 DEF TypeOK, Table
    <3>2. TypeOK'
      BY <1>0, <1>1, <1>7, <2>3, <3>1 DEF ReadRow, Doing, TypeOK
    <3>3. CallInv'
      BY <1>0, <2>1, <2>3, <3>1 DEF TypeOK, CallInv
    <3> QED BY <1>1, <1>7, <3>2, <3>3 DEF ReadRow, IInv
  <2> QED BY <1>7, <2>2, <2>3 DEF ReadRow
<1>8. ASSUME NEW c \in Clients, WriteRow(c) PROVE IInv'
  <2> DEFINE id == call[c].id
             e == Overlay(row[c], call[c].patch)
  <2>1. call[c] \in Calls /\ call[c].op = "update" /\ row[c] \in Event
        /\ pc[c] # "idle"
    BY <1>0, <1>8 DEF WriteRow, TypeOK, CallInv
  <2>2. id \in IDs /\ e \in Event
    BY <2>1, SqlCallFields, OverlayType
  <2>3. ASSUME ~Refused(events, e, id), Answer(c, Ok(None)),
               events' = [events EXCEPT ![id] = e]
        PROVE  IInv'
    <3>1. events' \in Table /\ NoOverlap'
      BY <2>2, <2>3, Statement
    <3> QED BY <2>1, <2>3, <3>1, Answering, SqlReplies
  <2>4. ASSUME Answer(c, Ok(None)) \/ Answer(c, DateBusy), UNCHANGED events
        PROVE  IInv'
    BY <1>1, <2>1, <2>4, Answering, SqlReplies
  <2> QED BY <1>8, <2>3, <2>4 DEF WriteRow
<1>9. ASSUME NEW c \in Clients, DeleteEvent(c) PROVE IInv'
  <2>1. call[c].id \in IDs /\ pc[c] # "idle"
    BY <1>5, <1>9, SqlCallFields DEF DeleteEvent
  <2>2. events' \in Table /\ NoOverlap'
    BY <1>9, <2>1, Statement DEF DeleteEvent
  <2> QED BY <1>9, <2>1, <2>2, Answering, SqlReplies DEF DeleteEvent
<1>10. ASSUME NEW c \in Clients,
              GetEvent(c) \/ ListEvents(c) \/ Fail(c) \/ LoseReply(c)
       PROVE  IInv'
  <2>1. pc[c] # "idle" /\ UNCHANGED events /\ \E r : r # Silent /\ Answer(c, r)
    BY <1>10, SqlReplies DEF GetEvent, ListEvents, Fail, LoseReply, Doing
  <2> QED BY <1>1, <2>1, Answering
<1> QED
  BY <1>2, <1>3, <1>4, <1>6, <1>7, <1>8, <1>9, <1>10 DEF Next

LEMMA SqlInductive == Spec => []IInv
<1>1. IInv /\ [Next]_vars => IInv'
  BY SqlStep
<1> QED BY SqlInit, <1>1, PTL DEF Spec

\* The variables keep their types, whatever the calls and the clients.
THEOREM SqlTypeCorrect == Spec => []TypeOK
<1>1. IInv => TypeOK
  BY DEF IInv
<1> QED BY SqlInductive, <1>1, PTL

\* An update that writes back a stale row never makes two events of an owner
\* overlap: the constraint is evaluated on the row it writes.
THEOREM SqlOwnersDoNotOverlap == Spec => []NoOverlap
<1>1. IInv => NoOverlap
  BY DEF IInv
<1> QED BY SqlInductive, <1>1, PTL

----------------------------------------------------------------------------
(* The refinement, up to its gaps *)

LEMMA SqlSameOperators ==
  /\ \A t, e, x : Promise!Refused(t, e, x) <=> Refused(t, e, x)
  /\ \A t, k : Promise!Listing(t, k) = Listing(t, k)
  /\ \A v : Promise!Ok(v) = Ok(v)
  /\ Promise!DateBusy = DateBusy
  /\ Promise!NotFound = NotFound
  /\ Promise!Failed = Failed
  /\ Promise!Silent = Silent
<1>1. \A t, e, x : Promise!Refused(t, e, x) <=> Refused(t, e, x)
  BY DEF Promise!Refused, Refused, Promise!Conflict, Conflict,
         Promise!Overlaps, Overlaps
<1>2. \A t, k : Promise!Listing(t, k) = Listing(t, k)
  BY DEF Promise!Listing, Listing, Promise!Listed, Listed
<1>3. /\ \A v : Promise!Ok(v) = Ok(v)
      /\ Promise!DateBusy = DateBusy
      /\ Promise!NotFound = NotFound
      /\ Promise!Failed = Failed
      /\ Promise!Silent = Silent
  BY DEF Promise!Ok, Ok, Promise!DateBusy, DateBusy, Promise!NotFound,
         NotFound, Promise!Failed, Failed, Promise!Silent, Silent,
         Promise!Reply, Reply
<1> QED BY <1>1, <1>2, <1>3

LEMMA SqlSameOverlay ==
  \A e, p : Promise!Overlay(e, p) = Overlay(e, p)
BY DEF Promise!Overlay, Overlay, Promise!Given, Given

\* A statement is the step of the promise, unless it is one of the gaps.
LEMMA SqlStepImplements ==
  ASSUME IInv, [Next]_vars
  PROVE  [Gap \/ Promise!Next]_(Promise!vars)
<1>0. TypeOK /\ CallInv
  BY DEF IInv
<1>1. CASE UNCHANGED vars
  BY <1>1 DEF vars, Promise!vars
<1>2. SUFFICES ASSUME NEW c \in Clients,
                      \/ Invoke(c) \/ CreateEvent(c) \/ ReadRow(c) \/ WriteRow(c)
                      \/ DeleteEvent(c) \/ GetEvent(c) \/ ListEvents(c)
                      \/ Fail(c) \/ LoseReply(c) \/ Return(c)
               PROVE  \/ Gap \/ Promise!Step(c)
                      \/ UNCHANGED Promise!vars
  BY <1>1 DEF Next, Promise!Next
<1>3. ASSUME NEW op, Doing(c, op)
      PROVE  Promise!Doing(c, op) /\ call[c] \in Calls /\ call[c].op = op
  BY <1>0, <1>3, SqlSameOperators DEF Doing, TypeOK, CallInv, Promise!Doing
<1>4. ASSUME NEW r, Answer(c, r)
      PROVE  Promise!Answer(c, r)
  BY <1>4 DEF Answer, Promise!Answer
<1>5. CASE Invoke(c)
  BY <1>0, <1>5 DEF Invoke, CallInv, Promise!Invoke, Promise!Step
<1>6. CASE Return(c)
  BY <1>0, <1>6, SqlSameOperators
     DEF Return, TypeOK, Promise!Return, Promise!Step
<1>7. CASE CreateEvent(c)
  <2>1. CASE Answer(c, Ok(None))
    <3>1. call[c] # None /\ call[c].op = "create" /\ reply[c] = Silent
      BY <1>3, <1>7, SqlSameOperators DEF CreateEvent, Promise!Doing
    <3>2. \/ UNCHANGED events
          \/ \E id \in IDs :
               /\ events[id] = None /\ ~Refused(events, call[c].event, None)
               /\ events' = [events EXCEPT ![id] = call[c].event]
      BY <1>7 DEF CreateEvent
    <3> QED BY <2>1, <3>1, <3>2 DEF Answer, LostID, Gap
  <2>2. CASE ~Answer(c, Ok(None))
    BY <1>3, <1>4, <1>7, <2>2, SqlSameOperators
       DEF CreateEvent, Promise!CreateEvent, Promise!Step
  <2> QED BY <2>1, <2>2
<1>8. CASE DeleteEvent(c)
  BY <1>3, <1>4, <1>8, SqlSameOperators
     DEF DeleteEvent, Promise!DeleteEvent, Promise!Step
<1>9. CASE GetEvent(c)
  BY <1>3, <1>4, <1>9, SqlSameOperators
     DEF GetEvent, Promise!GetEvent, Promise!Step
<1>10. CASE ListEvents(c)
  BY <1>3, <1>4, <1>10, SqlSameOperators
     DEF ListEvents, Promise!ListEvents, Promise!Step
<1>11. CASE ReadRow(c)
  <2>1. Promise!Doing(c, "update")
    BY <1>3, <1>11 DEF ReadRow
  <2>2. CASE events[call[c].id] = None /\ Answer(c, NotFound) /\ UNCHANGED events
    BY <1>4, <2>1, <2>2, SqlSameOperators DEF Promise!UpdateEvent, Promise!Step
  <2>3. CASE UNCHANGED <<events, call, reply>>
    BY <2>3 DEF Promise!vars
  <2> QED BY <1>11, <2>2, <2>3 DEF ReadRow
<1>12. CASE WriteRow(c)
  <2>1. Promise!Doing(c, "update") /\ row[c] # None
    <3>1. call[c] # None /\ call[c].op = "update" /\ reply[c] = Silent
      BY <1>0, <1>12 DEF WriteRow, TypeOK, CallInv
    <3>2. row[c] # None
      BY <1>0, <1>12, EventAssumption DEF WriteRow, CallInv
    <3> QED BY <3>1, <3>2, SqlSameOperators DEF Promise!Doing
  <2>2. CASE events[call[c].id] \notin {None, row[c]}
    BY <1>12, <2>2 DEF StaleWrite, Gap
  <2>3. CASE events[call[c].id] = None
    <3>1. call[c] # None /\ call[c].op = "update"
      BY <1>0, <1>12 DEF WriteRow, TypeOK, CallInv
    <3>2. Answer(c, Ok(None)) /\ UNCHANGED events
      BY <1>12, <2>3 DEF WriteRow
    <3> QED BY <2>1, <2>3, <3>1, <3>2 DEF Answer, VanishedWrite, Gap
  <2>4. CASE events[call[c].id] = row[c]
    <3> DEFINE e == Overlay(row[c], call[c].patch)
    <3>1. Promise!Overlay(events[call[c].id], call[c].patch) = e
      BY <2>4, SqlSameOverlay
    <3> HIDE DEF e
    <3>2. \/ Refused(events, e, call[c].id) /\ Answer(c, DateBusy) /\ UNCHANGED events
          \/ /\ ~Refused(events, e, call[c].id) /\ Answer(c, Ok(None))
             /\ events' = [events EXCEPT ![call[c].id] = e]
      BY <1>12, <2>1, <2>4 DEF WriteRow, e
    <3> QED BY <1>4, <2>1, <2>4, <3>1, <3>2, SqlSameOperators
            DEF Promise!UpdateEvent, Promise!Step
  <2> QED BY <2>2, <2>3, <2>4
<1>13. CASE Fail(c)
  <2>1. call[c] # None /\ reply[c] = Silent
    BY <1>0, <1>13 DEF Fail, TypeOK, CallInv
  <2> QED BY <1>4, <1>13, <2>1, SqlSameOperators
          DEF Fail, Promise!Fail, Promise!Step
<1>14. CASE LoseReply(c)
  <2>1. reply[c] # Silent
    BY <1>0, <1>14 DEF LoseReply, TypeOK
  <2> QED BY <1>4, <1>14, <2>1, SqlSameOperators
          DEF LoseReply, Promise!LoseReply, Promise!Answer, Promise!Step
<1> QED
  BY <1>2, <1>5, <1>6, <1>7, <1>8, <1>9, <1>10, <1>11, <1>12, <1>13, <1>14

\* Whatever the clients and their calls, every step of the PostgreSQL store is
\* one of the atomic store, failures of the connection included, or one of three:
\* an update that writes back a row that changed since it was read, one that
\* finds no row and says that all went well, and a new event without its ID.
THEOREM SqlImplementsUpToGaps == Spec => AtomicUpToGaps
<1>1. Init => Promise!Init
  BY SqlSameOperators DEF Init, Promise!Init
<1>2. IInv /\ [Next]_vars => [Gap \/ Promise!Next]_(Promise!vars)
  BY SqlStepImplements
<1> QED BY SqlInductive, <1>1, <1>2, PTL DEF Spec, AtomicUpToGaps
=============================================================================
