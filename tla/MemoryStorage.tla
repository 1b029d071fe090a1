--------------------------- MODULE MemoryStorage ---------------------------
(***************************************************************************)
(* The in-memory store (internal/storage/memory): a map guarded by a       *)
(* sync.RWMutex.  A writing call checks under the lock and then stores;    *)
(* the check and the store are steps of their own, which readers and       *)
(* writers could see if the lock let them.                                 *)
(***************************************************************************)
EXTENDS EventTable

CONSTANT Clients

ASSUME ClientAssumption == None \notin Clients

VARIABLES
  events,  \* the map
  writer,  \* the client that holds the write lock, or None
  readers, \* the clients that hold the read lock
  pc,      \* each client: "idle", "called", "locked", "checked" or "done"
  call,    \* the arguments of its call, or None
  key,     \* the key it will store under, once checked
  current, \* the event it will store, once checked (None: delete)
  reply    \* what it will return, once done

lock  == <<writer, readers>>
local == <<key, current>>
vars  == <<events, lock, pc, call, local, reply>>

\* Type invariant.
TypeOK ==
  /\ events \in Table
  /\ writer \in Clients \cup {None}
  /\ readers \subseteq Clients
  /\ pc \in [Clients -> {"idle", "called", "locked", "checked", "done"}]
  /\ call \in [Clients -> Calls \cup {None}]
  /\ key \in [Clients -> IDs \cup {None}]
  /\ current \in [Clients -> Event \cup {None}]
  /\ DOMAIN reply = Clients
  /\ \A c \in Clients : (reply[c] = Silent) <=> (pc[c] # "done")

Init ==
  /\ events = [id \in IDs |-> None]
  /\ writer = None /\ readers = {}
  /\ pc = [c \in Clients |-> "idle"]
  /\ call = [c \in Clients |-> None]
  /\ key = [c \in Clients |-> None]
  /\ current = [c \in Clients |-> None]
  /\ reply = [c \in Clients |-> Silent]

GoTo(c, from, to) ==
  /\ pc[c] = from
  /\ pc' = [pc EXCEPT ![c] = to]

Invoke(c) ==
  /\ GoTo(c, "idle", "called")
  /\ \E k \in Calls : call' = [call EXCEPT ![c] = k]
  /\ UNCHANGED <<events, lock, local, reply>>

----------------------------------------------------------------------------
(* The lock *)

Writes(c) == call[c].op \in {"create", "update", "delete"}

\* Mutant: a writing call takes the read lock.
SharedLock(c) ==
  /\ GoTo(c, "called", "locked")
  /\ Writes(c)
  /\ readers' = readers \cup {c}
  /\ UNCHANGED <<events, writer, call, local, reply>>

\* mu.Lock(): no holder of either kind.
Lock(c) ==
  /\ GoTo(c, "called", "locked")
  /\ Writes(c)
  /\ writer = None /\ readers = {}
  /\ writer' = c
  /\ UNCHANGED <<events, readers, call, local, reply>>

\* mu.RLock(): no writer.
RLock(c) ==
  /\ GoTo(c, "called", "locked")
  /\ ~Writes(c)
  /\ writer = None
  /\ readers' = readers \cup {c}
  /\ UNCHANGED <<events, writer, call, local, reply>>

\* Mutant: a reading call does not unlock.
ReturnLocked(c) ==
  /\ GoTo(c, "done", "idle")
  /\ writer' = IF writer = c THEN None ELSE writer
  /\ call' = [call EXCEPT ![c] = None]
  /\ key' = [key EXCEPT ![c] = None]
  /\ current' = [current EXCEPT ![c] = None]
  /\ reply' = [reply EXCEPT ![c] = Silent]
  /\ UNCHANGED <<events, readers>>

\* The deferred unlock, and the return.
Return(c) ==
  /\ GoTo(c, "done", "idle")
  /\ writer' = IF writer = c THEN None ELSE writer
  /\ readers' = readers \ {c}
  /\ call' = [call EXCEPT ![c] = None]
  /\ key' = [key EXCEPT ![c] = None]
  /\ current' = [current EXCEPT ![c] = None]
  /\ reply' = [reply EXCEPT ![c] = Silent]
  /\ UNCHANGED events

----------------------------------------------------------------------------
(* Under the lock *)

Doing(c, op) == pc[c] = "locked" /\ call[c].op = op

\* An early return, or the answer of a read.
Answer(c, r) ==
  /\ GoTo(c, "locked", "done")
  /\ reply' = [reply EXCEPT ![c] = r]
  /\ UNCHANGED <<events, lock, call, local>>

\* The checks passed: store event e under id next.
Proceed(c, id, e) ==
  /\ GoTo(c, "locked", "checked")
  /\ key' = [key EXCEPT ![c] = id]
  /\ current' = [current EXCEPT ![c] = e]
  /\ UNCHANGED <<events, lock, call, reply>>

\* The ID is made of the time; two calls may see the same time.
CreateEvent(c) ==
  LET e == call[c].event
      Busy(id) == events[id] # None \/ Refused(events, e, None)
  IN
  /\ Doing(c, "create")
  /\ \E id \in IDs : \/ Busy(id) /\ Answer(c, DateBusy)
                     \/ ~Busy(id) /\ Proceed(c, id, e)

\* Mutant: the updated event is not checked against the others.
UpdateUnchecked(c) ==
  LET id == call[c].id IN
  /\ Doing(c, "update")
  /\ \/ events[id] = None /\ Answer(c, NotFound)
     \/ /\ events[id] # None
        /\ Proceed(c, id, Overlay(events[id], call[c].patch))

UpdateEvent(c) ==
  LET id == call[c].id
      e == Overlay(events[id], call[c].patch)
  IN
  /\ Doing(c, "update")
  /\ \/ events[id] = None /\ Answer(c, NotFound)
     \/ events[id] # None /\ Refused(events, e, id) /\ Answer(c, DateBusy)
     \/ events[id] # None /\ ~Refused(events, e, id) /\ Proceed(c, id, e)

DeleteEvent(c) ==
  LET id == call[c].id IN
  /\ Doing(c, "delete")
  /\ \/ events[id] = None /\ Answer(c, NotFound)
     \/ events[id] # None /\ Proceed(c, id, None)

\* s.events[id] = current, delete(s.events, id), and the return value.
Store(c) ==
  /\ GoTo(c, "checked", "done")
  /\ events' = [events EXCEPT ![key[c]] = current[c]]
  /\ reply' = [reply EXCEPT ![c] =
                 Ok(IF call[c].op = "create" THEN key[c] ELSE None)]
  /\ UNCHANGED <<lock, call, local>>

GetEvent(c) ==
  LET id == call[c].id IN
  /\ Doing(c, "get")
  /\ Answer(c, IF events[id] = None THEN NotFound ELSE Ok(events[id]))

ListEvents(c) ==
  /\ Doing(c, "list")
  /\ Answer(c, Ok(Listing(events, call[c])))

----------------------------------------------------------------------------
(* The specification *)

Body(c) ==
  \/ CreateEvent(c) \/ UpdateEvent(c) \/ DeleteEvent(c) \/ Store(c)
  \/ GetEvent(c) \/ ListEvents(c)

Next == \E c \in Clients :
  Invoke(c) \/ Lock(c) \/ RLock(c) \/ Body(c) \/ Return(c)

Spec == Init /\ [][Next]_vars

\* A goroutine that can run is scheduled.  A waiting Lock holds off new
\* readers and the mutex hands itself over to a writer that waited too long,
\* so that whoever waits while the lock is free again and again gets it.
Fairness == \A c \in Clients :
  WF_vars(Body(c) \/ Return(c)) /\ SF_vars(Lock(c)) /\ SF_vars(RLock(c))

FairSpec == Spec /\ Fairness

----------------------------------------------------------------------------
(* Properties *)

\* However creates and updates interleave, no two events of an owner overlap:
\* a check is still true when its result is stored.
NoOverlap == Disjoint(events)

\* Each call takes effect at once between its invocation and its return; the
\* map and the locals of a call are all that a client may observe of it.
Promise == INSTANCE EventStore WITH table <- events
ImplementsStore == Promise!Spec

\* Every call returns: each path out of an operation releases the lock.
CallsReturn == \A c \in Clients : pc[c] = "called" ~> pc[c] = "idle"
=============================================================================
