----------------------------- MODULE SqlStorage -----------------------------
(***************************************************************************)
(* The PostgreSQL store (internal/storage/sql): each statement is atomic   *)
(* and the constraints of the table hold after each; an operation is one   *)
(* statement, except UpdateEvent, which reads the row, lays the given      *)
(* fields over it and writes the whole row back, outside any transaction.  *)
(***************************************************************************)
EXTENDS EventTable

CONSTANT Clients

VARIABLES
  events,  \* table events
  pc,      \* each client: "idle", "called", "read" or "done"
  call,    \* the arguments of its call, or None
  row,     \* the row its update has read, or None
  reply    \* what it will return, once done

vars == <<events, pc, call, row, reply>>

\* Type invariant.
TypeOK ==
  /\ events \in Table
  /\ pc \in [Clients -> {"idle", "called", "read", "done"}]
  /\ call \in [Clients -> Calls \cup {None}]
  /\ row \in [Clients -> Event \cup {None}]
  /\ DOMAIN reply = Clients
  /\ \A c \in Clients : (reply[c] = Silent) <=> (pc[c] # "done")

Init ==
  /\ events = [id \in IDs |-> None]
  /\ pc = [c \in Clients |-> "idle"]
  /\ call = [c \in Clients |-> None]
  /\ row = [c \in Clients |-> None]
  /\ reply = [c \in Clients |-> Silent]

Invoke(c) ==
  /\ pc[c] = "idle"
  /\ pc' = [pc EXCEPT ![c] = "called"]
  /\ \E k \in Calls : call' = [call EXCEPT ![c] = k]
  /\ UNCHANGED <<events, row, reply>>

Return(c) ==
  /\ pc[c] = "done"
  /\ pc' = [pc EXCEPT ![c] = "idle"]
  /\ call' = [call EXCEPT ![c] = None]
  /\ row' = [row EXCEPT ![c] = None]
  /\ reply' = [reply EXCEPT ![c] = Silent]
  /\ UNCHANGED events

----------------------------------------------------------------------------
(* The operations *)

Doing(c, op) == pc[c] = "called" /\ call[c].op = op

\* The operation ends.
Answer(c, r) ==
  /\ pc' = [pc EXCEPT ![c] = "done"]
  /\ reply' = [reply EXCEPT ![c] = r]
  /\ UNCHANGED <<call, row>>

\* A violated constraint (the primary key, the exclusion, the check of the
\* dates) is reported as busy.  If the rows end before the ID is read, by the
\* connection, the context or a constraint reported late, nobody asks row.Err():
\* the answer is ok and names no ID, whether the row was inserted or not.
CreateEvent(c) ==
  LET e == call[c].event
      Violated(id) == events[id] # None \/ Refused(events, e, None)
  IN
  /\ Doing(c, "create")
  /\ \/ Answer(c, Ok(None)) /\ UNCHANGED events
     \/ \E id \in IDs :
          \/ Violated(id) /\ Answer(c, DateBusy) /\ UNCHANGED events
          \/ /\ ~Violated(id)
             /\ Answer(c, Ok(id)) \/ Answer(c, Ok(None))
             /\ events' = [events EXCEPT ![id] = e]

\* Mutant: a missing row is not an error.
ReadAnyRow(c) ==
  LET id == call[c].id IN
  /\ Doing(c, "update")
  /\ \/ /\ events[id] = None
        /\ Answer(c, Ok(None))
     \/ /\ events[id] # None
        /\ row' = [row EXCEPT ![c] = events[id]]
        /\ pc' = [pc EXCEPT ![c] = "read"]
        /\ UNCHANGED <<call, reply>>
  /\ UNCHANGED events

\* The first statement of UpdateEvent: GetEvent.
ReadRow(c) ==
  LET id == call[c].id IN
  /\ Doing(c, "update")
  /\ \/ /\ events[id] = None
        /\ Answer(c, NotFound)
     \/ /\ events[id] # None
        /\ row' = [row EXCEPT ![c] = events[id]]
        /\ pc' = [pc EXCEPT ![c] = "read"]
        /\ UNCHANGED <<call, reply>>
  /\ UNCHANGED events

\* Mutant: the constraints are dropped.
WriteAnyRow(c) ==
  LET id == call[c].id
      e == Overlay(row[c], call[c].patch)
  IN
  /\ pc[c] = "read"
  /\ Answer(c, Ok(None))
  /\ events' = IF events[id] = None THEN events ELSE [events EXCEPT ![id] = e]

\* The second one.  It writes every column; of no row, it is no error.
WriteRow(c) ==
  LET id == call[c].id
      e == Overlay(row[c], call[c].patch)
  IN
  /\ pc[c] = "read"
  /\ \/ /\ events[id] = None
        /\ Answer(c, Ok(None))
        /\ UNCHANGED events
     \/ /\ events[id] # None /\ Refused(events, e, id)
        /\ Answer(c, DateBusy)
        /\ UNCHANGED events
     \/ /\ events[id] # None /\ ~Refused(events, e, id)
        /\ Answer(c, Ok(None))
        /\ events' = [events EXCEPT ![id] = e]

DeleteEvent(c) ==
  LET id == call[c].id IN
  /\ Doing(c, "delete")
  /\ Answer(c, IF events[id] = None THEN NotFound ELSE Ok(None))
  /\ events' = [events EXCEPT ![id] = None]

GetEvent(c) ==
  LET id == call[c].id IN
  /\ Doing(c, "get")
  /\ Answer(c, IF events[id] = None THEN NotFound ELSE Ok(events[id]))
  /\ UNCHANGED events

ListEvents(c) ==
  /\ Doing(c, "list")
  /\ Answer(c, Ok(Listing(events, call[c])))
  /\ UNCHANGED events

\* The connection fails before a statement, or after one: its answer is lost.
Fail(c) ==
  /\ pc[c] \in {"called", "read"}
  /\ Answer(c, Failed)
  /\ UNCHANGED events

LoseReply(c) ==
  /\ pc[c] = "done"
  /\ Answer(c, Failed)
  /\ UNCHANGED events

----------------------------------------------------------------------------
(* The specification *)

Next == \E c \in Clients :
  \/ Invoke(c) \/ CreateEvent(c) \/ ReadRow(c) \/ WriteRow(c)
  \/ DeleteEvent(c) \/ GetEvent(c) \/ ListEvents(c)
  \/ Fail(c) \/ LoseReply(c) \/ Return(c)

Spec == Init /\ [][Next]_vars

----------------------------------------------------------------------------
(* Properties *)

\* No two events of an owner overlap, whatever interleaves between the read
\* and the write of an update.
NoOverlap == Disjoint(events)

\* What the store does that no atomic store would.  An update writes back a row
\* that changed since it was read;
StaleWrite ==
  \E c \in Clients :
    WriteRow(c) /\ events[call[c].id] \notin {None, row[c]}

\* it is answered ok though the row it read is gone, and changes nothing;
VanishedWrite ==
  \E c \in Clients :
    /\ call[c] # None /\ call[c].op = "update"
    /\ row[c] # None /\ events[call[c].id] = None
    /\ reply' = [reply EXCEPT ![c] = Ok(None)]
    /\ UNCHANGED <<events, call>>

\* and a new event is answered ok without its ID, stored as it should or not.
LostID ==
  \E c \in Clients :
    /\ call[c] # None /\ call[c].op = "create" /\ reply[c] = Silent
    /\ reply' = [reply EXCEPT ![c] = Ok(None)]
    /\ UNCHANGED call
    /\ \/ UNCHANGED events
       \/ \E id \in IDs :
            /\ events[id] = None /\ ~Refused(events, call[c].event, None)
            /\ events' = [events EXCEPT ![id] = call[c].event]

\* Every other step is one of the atomic store: a call takes effect at once, a
\* failing connection leaves it done or not done, and the two statements of an
\* update that nobody overtakes are one update.
Promise == INSTANCE EventStore WITH table <- events
Gap == StaleWrite \/ VanishedWrite \/ LostID
AtomicUpToGaps == Promise!Init /\ [][Gap \/ Promise!Next]_(Promise!vars)

\* An update that is answered ok has found its event.
UpdatedWasThere ==
  [][\A c \in Clients :
       WriteRow(c) /\ reply'[c] = Ok(None) => events[call[c].id] # None]_vars

\* An update changes the fields it was given and no other.
OnlyGivenFieldsChange ==
  [][\A c \in Clients :
       WriteRow(c) =>
         \/ events' = events
         \/ events'[call[c].id] = Overlay(events[call[c].id], call[c].patch)]_vars
=============================================================================
