--------------------------- MODULE MCCalendarApi ---------------------------
(***************************************************************************)
(* Constants for TLC.  A day is two units of time and the day that starts  *)
(* at 0 a Thursday: the Sunday 6..7 is the first day of a month.           *)
(***************************************************************************)
EXTENDS CalendarApi, TLC

\* The properties treat clients alike.
ClientSymmetry == Permutations(Clients)

MCMonthStarts == {-56, 6, 62}
MCDates == {5, 6, 8}

A(owner, start, end) == [owner |-> owner, start |-> start, end |-> end, text |-> "a"]

Sent(via, e) == [via |-> via, op |-> "create", event |-> e, bad |-> FALSE]
Change(via, id, p) ==
  [via |-> via, op |-> "update", id |-> id, patch |-> p, bad |-> FALSE]
OnID(via, op, id) == [via |-> via, op |-> op, id |-> id]
Show(via, period, owner, date) ==
  [via |-> via, op |-> "list", period |-> period, owner |-> owner,
   date |-> date, bad |-> FALSE]

Later == [owner |-> Unset, start |-> Unset, end |-> 9, text |-> Unset]

MCRequests ==
  {Sent("http", A("o", 6, 8)), Sent("grpc", A("o", 8, 9)),
   Sent("grpc", A(Unset, 6, 8)), Sent("http", A("o", 8, 6)),
   Change("http", "i", Later), Change("grpc", "i", Later),
   [Change("http", "i", Later) EXCEPT !.bad = TRUE],
   Change("grpc", Unset, Later),
   OnID("http", "get", "i"), OnID("grpc", "get", Unset),
   OnID("http", "delete", "i"),
   Show("http", "week", "o", 6), Show("grpc", "month", "o", 5),
   Show("http", "day", "o", Unset)}

MCCalls ==
  {[op |-> "create", event |-> A("o", 6, 8)],
   [op |-> "create", event |-> A("o", 8, 9)],
   [op |-> "update", id |-> "i", patch |-> Later],
   [op |-> "get", id |-> "i"], [op |-> "delete", id |-> "i"],
   [op |-> "list", owner |-> "o", from |-> -6, to |-> 8],
   [op |-> "list", owner |-> "o", from |-> -56, to |-> 6]}
=============================================================================
