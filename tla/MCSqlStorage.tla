-------------------------- MODULE MCSqlStorage --------------------------
(* Small instances of SqlStorage for TLC. *)
EXTENDS SqlStorage

CONSTANTS alice, x, y, i1, i2

At(s, f) == [owner |-> alice, start |-> s, end |-> f, text |-> x]
Create(e) == [op |-> "create", event |-> e]
Update(id, s, f, t) ==
  [op |-> "update", id |-> id,
   patch |-> [owner |-> Unset, start |-> s, end |-> f, text |-> t]]

\* Events that can overlap, updates that each move one end or the text of the
\* same event, and the other calls.
MCCalls ==
  {Create(At(0, 2)), Create(At(3, 5)),
   Update(i1, 1, Unset, Unset), Update(i1, 3, 5, Unset),
   Update(i1, Unset, 1, Unset), Update(i1, Unset, Unset, y),
   Update(i2, 2, Unset, Unset)}
  \cup [op : {"delete", "get"}, id : {i1}]
  \cup {[op |-> "list", owner |-> alice, from |-> 2, to |-> 5]}

\* Two updates of different fields.
MCUpdateCalls ==
  {Create(At(0, 2)), Update(i1, Unset, 3, Unset), Update(i1, 1, Unset, Unset)}
=============================================================================
