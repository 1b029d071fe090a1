----------------------------- MODULE EventStore -----------------------------
(***************************************************************************)
(* What a store of events promises (internal/storage/storage.go): clients  *)
(* call it concurrently, and each call takes effect at one moment between  *)
(* its invocation and its return.                                          *)
(***************************************************************************)
EXTENDS EventTable

CONSTANT Clients

VARIABLES
  table,   \* the events
  call,    \* what each client asked, or None
  reply    \* what it will be answered, or Silent

vars == <<table, call, reply>>

\* Type invariant.
TypeOK ==
  /\ table \in Table
  /\ call \in [Clients -> Calls \cup {None}]
  /\ DOMAIN reply = Clients
  /\ \A c \in Clients : reply[c] # Silent => call[c] # None

Init ==
  /\ table = [id \in IDs |-> None]
  /\ call = [c \in Clients |-> None]
  /\ reply = [c \in Clients |-> Silent]

Invoke(c) ==
  /\ call[c] = None
  /\ \E k \in Calls : call' = [call EXCEPT ![c] = k]
  /\ UNCHANGED <<table, reply>>

Doing(c, op) == call[c] # None /\ reply[c] = Silent /\ call[c].op = op

Answer(c, r) ==
  /\ reply' = [reply EXCEPT ![c] = r]
  /\ UNCHANGED call

\* The store generates the ID; one that is taken is reported as busy.
CreateEvent(c) ==
  LET e == call[c].event
      Busy(id) == table[id] # None \/ Refused(table, e, None)
  IN
  /\ Doing(c, "create")
  /\ \E id \in IDs :
       \/ Busy(id) /\ Answer(c, DateBusy) /\ UNCHANGED table
       \/ /\ ~Busy(id)
          /\ Answer(c, Ok(id))
          /\ table' = [table EXCEPT ![id] = e]

UpdateEvent(c) ==
  LET id == call[c].id
      e == Overlay(table[id], call[c].patch)
  IN
  /\ Doing(c, "update")
  /\ \/ /\ table[id] = None
        /\ Answer(c, NotFound)
        /\ UNCHANGED table
     \/ /\ table[id] # None /\ Refused(table, e, id)
        /\ Answer(c, DateBusy)
        /\ UNCHANGED table
     \/ /\ table[id] # None /\ ~Refused(table, e, id)
        /\ Answer(c, Ok(None))
        /\ table' = [table EXCEPT ![id] = e]

DeleteEvent(c) ==
  LET id == call[c].id IN
  /\ Doing(c, "delete")
  /\ Answer(c, IF table[id] = None THEN NotFound ELSE Ok(None))
  /\ table' = [table EXCEPT ![id] = None]

GetEvent(c) ==
  LET id == call[c].id IN
  /\ Doing(c, "get")
  /\ Answer(c, IF table[id] = None THEN NotFound ELSE Ok(table[id]))
  /\ UNCHANGED table

ListEvents(c) ==
  /\ Doing(c, "list")
  /\ Answer(c, Ok(Listing(table, call[c])))
  /\ UNCHANGED table

\* A store that is a service of its own may fail before the call takes
\* effect, or lose the answer of one that did.
Fail(c) ==
  /\ call[c] # None /\ reply[c] = Silent
  /\ Answer(c, Failed)
  /\ UNCHANGED table

LoseReply(c) ==
  /\ reply[c] # Silent
  /\ reply' = [reply EXCEPT ![c] = Failed]
  /\ UNCHANGED <<table, call>>

Return(c) ==
  /\ reply[c] # Silent
  /\ call' = [call EXCEPT ![c] = None]
  /\ reply' = [reply EXCEPT ![c] = Silent]
  /\ UNCHANGED table

Step(c) ==
  \/ Invoke(c) \/ CreateEvent(c) \/ UpdateEvent(c) \/ DeleteEvent(c)
  \/ GetEvent(c) \/ ListEvents(c) \/ Fail(c) \/ LoseReply(c) \/ Return(c)

Next == \E c \in Clients : Step(c)

Spec == Init /\ [][Next]_vars
=============================================================================
