-------------------------- MODULE MCMemoryStorage --------------------------
(* Small instances of MemoryStorage for TLC. *)
EXTENDS MemoryStorage

CONSTANTS alice, x, y, i1, i2

At(s, f) == [owner |-> alice, start |-> s, end |-> f, text |-> x]
Create(e) == [op |-> "create", event |-> e]
Update(id, s, f, t) ==
  [op |-> "update", id |-> id,
   patch |-> [owner |-> Unset, start |-> s, end |-> f, text |-> t]]

\* Events that overlap, that touch, an update of one into the other, and one
\* that moves the start past the end.
MCCalls ==
  {Create(At(0, 2)), Create(At(1, 3)), Create(At(2, 4)),
   Update(i1, Unset, 3, Unset), Update(i1, Unset, Unset, y),
   Update(i2, 1, Unset, Unset), Update(i1, 3, Unset, Unset)}
  \cup [op : {"delete"}, id : {i1}]
  \cup [op : {"get"}, id : {i1}]
  \cup {[op |-> "list", owner |-> alice, from |-> 2, to |-> 5]}
=============================================================================
