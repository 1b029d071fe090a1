----------------------------- MODULE EventTable -----------------------------
(***************************************************************************)
(* The events of the calendar and the calls of the Storage interface       *)
(* (internal/storage): what both implementations compute on a table.       *)
(*                                                                         *)
(* An event is its owner, its interval and a text, which stands for title, *)
(* description and notify_at: fields an update may replace and no check    *)
(* looks at.  A table maps every ID to an event or to None.                *)
(***************************************************************************)
EXTENDS Integers, FiniteSets

CONSTANTS
  IDs,         \* IDs the store may generate
  Owners,
  Texts,
  None,        \* no event, no call, no value
  Unset,       \* a field an update does not give: "", 0, nil, the zero time
  Calls,       \* the calls clients make
  CheckDates   \* whether the store refuses date_end <= date_start

Event == [owner : Owners, start : Int, end : Int, text : Texts]

Patch == [owner : Owners \cup {Unset}, start : Int \cup {Unset},
          end : Int \cup {Unset}, text : Texts \cup {Unset}]

CreateCall == [op : {"create"}, event : Event]
UpdateCall == [op : {"update"}, id : IDs, patch : Patch]
DeleteCall == [op : {"delete"}, id : IDs]
GetCall    == [op : {"get"}, id : IDs]
ListCall   == [op : {"list"}, owner : Owners, from : Int, to : Int]

Call == CreateCall \cup UpdateCall \cup DeleteCall \cup GetCall \cup ListCall

Table == [IDs -> Event \cup {None}]

ASSUME EventAssumption ==
  /\ Calls \subseteq Call
  /\ None \notin IDs \cup Event \cup Call
  /\ Unset \notin Owners \cup Int \cup Texts
  /\ CheckDates \in BOOLEAN

\* What a call answers; Silent until it does.
Reply(status, value) == [status |-> status, value |-> value]
Silent    == Reply("none", None)
Ok(value) == Reply("ok", value)
DateBusy  == Reply("busy", None)
NotFound  == Reply("notFound", None)
Failed    == Reply("error", None)

----------------------------------------------------------------------------
(* What the operations compute *)

\* The fields an update gives replace those of the event.
Given(p, e) == IF p = Unset THEN e ELSE p

Overlay(e, p) == [owner |-> Given(p.owner, e.owner),
                  start |-> Given(p.start, e.start),
                  end   |-> Given(p.end, e.end),
                  text  |-> Given(p.text, e.text)]

\* Half-open intervals overlap.
Overlaps(a, b) == a.start < b.end /\ a.end > b.start

\* Another event of the same owner is in the way of e.
Conflict(table, e, excludeID) ==
  \E id \in IDs \ {excludeID} :
    /\ table[id] # None
    /\ table[id].owner = e.owner
    /\ Overlaps(e, table[id])

\* The store does not accept e.
Refused(table, e, excludeID) ==
  \/ Conflict(table, e, excludeID)
  \/ CheckDates /\ e.end <= e.start

\* The events of the owner that a period shows.
Listed(table, k) ==
  {id \in IDs : /\ table[id] # None
                /\ table[id].owner = k.owner
                /\ table[id].start < k.to
                /\ table[id].end > k.from}

Listing(table, k) == [id \in Listed(table, k) |-> table[id]]

----------------------------------------------------------------------------
(* Properties of a table *)

\* No two events of an owner overlap.
Disjoint(table) ==
  \A i, j \in IDs :
    (i # j /\ table[i] # None /\ table[j] # None
       /\ table[i].owner = table[j].owner) => ~Overlaps(table[i], table[j])
=============================================================================
