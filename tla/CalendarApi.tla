---------------------------- MODULE CalendarApi ----------------------------
(***************************************************************************)
(* The two front ends of the calendar, internal/server/http and            *)
(* internal/server/grpc: each request is checked, turned into a call of    *)
(* the store (internal/app passes it on) and answered from the reply.  The *)
(* requests of all clients are served concurrently; an update is two calls *)
(* of the store, and anything may happen between them.                     *)
(*                                                                         *)
(* The store is the one of EventStore.  What a request can get wrong is    *)
(* that a field is missing (Unset) or, in HTTP, cannot be parsed (bad).    *)
(***************************************************************************)
EXTENDS EventTable, FiniteSetsExt

CONSTANTS
  Clients,
  Requests,       \* the requests clients send
  Dates,          \* the dates they ask about
  DayLength,
  FirstWeekday,   \* the weekday of the day that starts at 0; Sunday is 0
  MonthStarts     \* the times at which months start

VARIABLES
  table, call, reply,   \* the store, see EventStore
  request,    \* what each client asked, or None
  response,   \* what it was answered, or Silent
  \* History:
  took,       \* took[c]: the request has changed the table
  seen        \* seen[c]: what it could have been shown, see Watch

store == <<table, call, reply>>
vars == <<table, call, reply, request, response, took, seen>>

Store == INSTANCE EventStore

Via == {"http", "grpc"}

CreateRequest == [via : Via, op : {"create"}, event : Patch, bad : BOOLEAN]
UpdateRequest == [via : Via, op : {"update"}, id : IDs \cup {Unset},
                  patch : Patch, bad : BOOLEAN]
IDRequest     == [via : Via, op : {"get", "delete"}, id : IDs \cup {Unset}]
ListRequest   == [via : Via, op : {"list"}, period : {"day", "week", "month"},
                  owner : Owners \cup {Unset}, date : Dates \cup {Unset},
                  bad : BOOLEAN]

Request == CreateRequest \cup UpdateRequest \cup IDRequest \cup ListRequest

----------------------------------------------------------------------------
(* The period of a list request; its end is the first moment after it *)

StartOfDay(t) == t - (t % DayLength)

DayOf(t) == [from |-> StartOfDay(t), to |-> StartOfDay(t) + DayLength]

Weekday(t) == ((t \div DayLength) + FirstWeekday) % 7

\* Mutant: Sunday is the day before the week.
WeekFromSunday(t) ==
  LET monday == StartOfDay(t) - (Weekday(t) - 1) * DayLength
  IN [from |-> monday, to |-> monday + 7 * DayLength]

\* Weeks start on Monday; Sunday is the seventh day.
WeekOf(t) ==
  LET weekday == IF Weekday(t) = 0 THEN 7 ELSE Weekday(t)
      monday == StartOfDay(t) - (weekday - 1) * DayLength
  IN [from |-> monday, to |-> monday + 7 * DayLength]

MonthOf(t) == [from |-> Max({m \in MonthStarts : m <= t}),
               to |-> Min({m \in MonthStarts : m > t})]

PeriodOf(period, t) ==
  CASE period = "day" -> DayOf(t)
    [] period = "week" -> WeekOf(t)
    [] period = "month" -> MonthOf(t)

ListCallOf(owner, p) ==
  [op |-> "list", owner |-> owner, from |-> p.from, to |-> p.to]

ASSUME ApiAssumption ==
  /\ Requests \subseteq Request /\ None \notin Requests
  /\ \A r \in Requests \ IDRequest : r.bad => r.via = "http"
  /\ Dates \subseteq Int /\ DayLength \in Nat \ {0} /\ FirstWeekday \in 0..6
  /\ MonthStarts \subseteq Int /\ \A m \in MonthStarts : m % DayLength = 0
  /\ \A t \in Dates : /\ \E m \in MonthStarts : m <= t
                      /\ \E m \in MonthStarts : m > t

----------------------------------------------------------------------------
(* The checks of a request *)

\* Mutant: an event may come without an owner.
CreateIncomplete(r) ==
  LET e == r.event IN
  \/ e.text = Unset \/ e.start = Unset \/ e.end = Unset
  \/ e.end < e.start

\* An event has all its fields, and does not end before it starts.
InvalidCreate(r) ==
  LET e == r.event IN
  \/ e.text = Unset \/ e.start = Unset \/ e.end = Unset \/ e.owner = Unset
  \/ e.end < e.start

Invalid(r) ==
  \/ r.op = "create" /\ (r.bad \/ InvalidCreate(r))
  \/ r.op = "update" /\ (r.id = Unset \/ r.bad)
  \/ r.op \in {"get", "delete"} /\ r.id = Unset
  \/ r.op = "list" /\ (r.owner = Unset \/ r.date = Unset \/ r.bad)

\* The call that a valid request becomes.
CallOf(r) ==
  CASE r.op = "create" -> [op |-> "create", event |-> r.event]
    [] r.op = "update" -> [op |-> "update", id |-> r.id, patch |-> r.patch]
    [] r.op \in {"get", "delete"} -> [op |-> r.op, id |-> r.id]
    [] r.op = "list" -> ListCallOf(r.owner, PeriodOf(r.period, r.date))

Reread(r) == [op |-> "get", id |-> r.id]

\* Type invariant; the table holds complete events only.
TypeOK ==
  /\ table \in Table
  /\ request \in [Clients -> Requests \cup {None}]
  /\ took \in [Clients -> BOOLEAN]
  /\ DOMAIN call = Clients /\ DOMAIN reply = Clients
  /\ DOMAIN response = Clients /\ DOMAIN seen = Clients
  /\ \A c \in Clients :
       /\ call[c] # None =>
            \/ call[c] = CallOf(request[c])
            \/ request[c].op = "update" /\ call[c] = Reread(request[c])
       /\ reply[c] # Silent => call[c] # None
       /\ response[c] # Silent => request[c] # None /\ call[c] = None

Init ==
  /\ Store!Init
  /\ request = [c \in Clients |-> None]
  /\ response = [c \in Clients |-> Silent]
  /\ took = [c \in Clients |-> FALSE]
  /\ seen = [c \in Clients |-> {}]

----------------------------------------------------------------------------
(* Serving a request *)

\* What a request asks to see, in a table.
View(r, t) ==
  CASE r.op \in {"get", "update"} -> t[r.id]
    [] r.op = "list" -> Listing(t, CallOf(r))
    [] OTHER -> None

Respond(c, status, value) ==
  /\ response' = [response EXCEPT ![c] = Reply(status, value)]
  /\ call' = [call EXCEPT ![c] = None]
  /\ reply' = [reply EXCEPT ![c] = Silent]

\* A bad request is refused without a call of the store.
Refuse(c) == \E r \in Requests :
  /\ request[c] = None
  /\ Invalid(r)
  /\ request' = [request EXCEPT ![c] = r]
  /\ response' = [response EXCEPT ![c] = Reply("invalid", None)]
  /\ UNCHANGED <<store, took, seen>>

Accept(c) == \E r \in Requests :
  /\ request[c] = None
  /\ ~Invalid(r)
  /\ request' = [request EXCEPT ![c] = r]
  /\ call' = [call EXCEPT ![c] = CallOf(r)]
  /\ seen' = [seen EXCEPT ![c] = {View(r, table)}]
  /\ UNCHANGED <<table, reply, response, took>>

\* While a request is served it could be shown what is in the table; after
\* its own update only what the table holds from then on.
Watch(c) ==
  seen' = [d \in Clients |->
    IF request[d] = None \/ response[d] # Silent THEN seen[d]
    ELSE LET now == {View(request[d], table')} IN
         IF d = c /\ call[c].op = "update" /\ reply[c] = Silent
         THEN now ELSE seen[d] \cup now]

\* The store takes the call, or fails, or its reply is lost on the way.
StoreStep(c) ==
  /\ \/ Store!CreateEvent(c) \/ Store!UpdateEvent(c) \/ Store!DeleteEvent(c)
     \/ Store!GetEvent(c) \/ Store!ListEvents(c)
     \/ Store!Fail(c) \/ Store!LoseReply(c)
  /\ took' = [took EXCEPT ![c] = @ \/ table' # table]
  /\ Watch(c)
  /\ UNCHANGED <<request, response>>

\* The client gets the response.
Done(c) ==
  /\ response[c] # Silent
  /\ request' = [request EXCEPT ![c] = None]
  /\ response' = [response EXCEPT ![c] = Silent]
  /\ took' = [took EXCEPT ![c] = FALSE]
  /\ seen' = [seen EXCEPT ![c] = {}]
  /\ UNCHANGED store

----------------------------------------------------------------------------
(* The answers, from the reply of the store *)

Replied(c, op) ==
  reply[c] # Silent /\ request[c].op = op /\ call[c].op = op

\* The event as it was sent, with the ID the store gave it.
AnswerCreate(c) ==
  /\ Replied(c, "create")
  /\ \/ reply[c].status = "ok" /\ Respond(c, "ok", request[c].event)
     \/ reply[c].status = "busy" /\ Respond(c, "busy", None)
     \/ reply[c].status = "error" /\ Respond(c, "internal", None)
  /\ UNCHANGED <<table, request, took, seen>>

AnswerGet(c) ==
  /\ Replied(c, "get")
  /\ \/ reply[c].status = "ok" /\ Respond(c, "ok", reply[c].value)
     \/ reply[c].status = "notFound" /\ Respond(c, "notFound", None)
     \/ reply[c].status = "error" /\ Respond(c, "internal", None)
  /\ UNCHANGED <<table, request, took, seen>>

AnswerDelete(c) ==
  /\ Replied(c, "delete")
  /\ \/ reply[c].status = "ok" /\ Respond(c, "ok", None)
     \/ reply[c].status = "notFound" /\ Respond(c, "notFound", None)
     \/ reply[c].status = "error" /\ Respond(c, "internal", None)
  /\ UNCHANGED <<table, request, took, seen>>

AnswerList(c) ==
  /\ Replied(c, "list")
  /\ \/ reply[c].status = "ok" /\ Respond(c, "ok", reply[c].value)
     \/ reply[c].status = "error" /\ Respond(c, "internal", None)
  /\ UNCHANGED <<table, request, took, seen>>

\* An update that failed; gRPC does not tell a conflict from a failure.
RefuseUpdate(c) ==
  /\ Replied(c, "update")
  /\ \/ reply[c].status = "notFound" /\ Respond(c, "notFound", None)
     \/ /\ reply[c].status = "busy"
        /\ Respond(c, IF request[c].via = "http" THEN "busy" ELSE "internal", None)
     \/ reply[c].status = "error" /\ Respond(c, "internal", None)
  /\ UNCHANGED <<table, request, took, seen>>

\* Mutant: the event is taken from the request and not read again.
AnswerFromRequest(c) ==
  /\ Replied(c, "update") /\ reply[c].status = "ok"
  /\ Respond(c, "ok", request[c].patch)
  /\ UNCHANGED <<table, request, took, seen>>

\* An update that succeeded reads the event for its response.
ReadUpdated(c) ==
  /\ Replied(c, "update") /\ reply[c].status = "ok"
  /\ call' = [call EXCEPT ![c] = Reread(request[c])]
  /\ reply' = [reply EXCEPT ![c] = Silent]
  /\ UNCHANGED <<table, request, response, took, seen>>

ReadReplied(c) ==
  reply[c] # Silent /\ request[c].op = "update" /\ call[c].op = "get"

\* Mutant: an event that is gone when it is read again is not found.
AnswerUpdateNotFound(c) ==
  /\ ReadReplied(c)
  /\ Respond(c, reply[c].status, reply[c].value)
  /\ UNCHANGED <<table, request, took, seen>>

\* HTTP ignores the error of that read, and shows an empty event (None).
AnswerUpdate(c) ==
  /\ ReadReplied(c)
  /\ IF reply[c].status = "ok" \/ request[c].via = "http"
     THEN Respond(c, "ok", reply[c].value)
     ELSE Respond(c, "internal", None)
  /\ UNCHANGED <<table, request, took, seen>>

----------------------------------------------------------------------------

Answer(c) ==
  \/ AnswerCreate(c) \/ AnswerGet(c) \/ AnswerDelete(c) \/ AnswerList(c)
  \/ RefuseUpdate(c) \/ ReadUpdated(c) \/ AnswerUpdate(c)

Next == \E c \in Clients :
  Refuse(c) \/ Accept(c) \/ StoreStep(c) \/ Answer(c) \/ Done(c)

Spec == Init /\ [][Next]_vars

----------------------------------------------------------------------------
(* Properties *)

\* A request answered with "invalid", "not found" or "date busy" has changed
\* nothing: the client may correct it and send it again.  Not so "internal",
\* also without any failure of the store: gRPC answers it when the event it
\* updated is deleted before it is read again.
RefusalsChangeNothing == \A c \in Clients :
  response[c].status \in {"invalid", "notFound", "busy"} => ~took[c]

\* An event or list that is shown was in the table while the request was
\* served, for an update after it took effect: no response is older than its
\* request.  The empty event of an HTTP update is the exception.
ShownIsCurrent == \A c \in Clients :
  (response[c].status = "ok" /\ request[c].op \in {"get", "update", "list"}) =>
    \/ response[c].value \in seen[c]
    \/ /\ request[c].op = "update" /\ request[c].via = "http"
       /\ response[c].value = None

\* What the day shows, its week and its month show too.
DayInWeekAndMonth == \A o \in Owners, t \in Dates :
  LET Shown(p) == Listed(table, ListCallOf(o, p))
  IN Shown(DayOf(t)) \subseteq Shown(WeekOf(t)) \cap Shown(MonthOf(t))
=============================================================================
