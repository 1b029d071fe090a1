------------------------- MODULE CalendarApiProofs -------------------------
(***************************************************************************)
(* A refusal means that nothing changed, and what is shown is not older    *)
(* than its request, for every set of clients and requests and whatever    *)
(* the store fails to do or to answer; only complete events reach the      *)
(* table; and the range of a day is part of those of its week and month.   *)
(***************************************************************************)
EXTENDS CalendarApi, WellFoundedInduction, TLAPS

\* The variables that are updated at one client are functions on the clients,
\* the table is one on the IDs.
Shape ==
  /\ table = [id \in IDs |-> table[id]]
  /\ call = [c \in Clients |-> call[c]]
  /\ reply = [c \in Clients |-> reply[c]]
  /\ request = [c \in Clients |-> request[c]]
  /\ response = [c \in Clients |-> response[c]]
  /\ took \in [Clients -> BOOLEAN]

\* The call of c is the one its request became, not the second read.
First(c) == call[c] # None /\ call[c].op = request[c].op

\* Until the store has answered "ok" or failed, the request changed nothing.
Harmless(c) ==
  (First(c) /\ reply[c].status \in {"none", "busy", "notFound"}) => ~took[c]

Refusal == {"invalid", "notFound", "busy"}

ServeInv == \A c \in Clients :
  /\ request[c] = None => ~took[c] /\ call[c] = None /\ response[c] = Silent
  /\ response[c] # Silent => call[c] = None
  /\ call[c] = None => reply[c] = Silent
  /\ Harmless(c)
  /\ response[c].status \in Refusal => ~took[c]

IInv == Shape /\ ServeInv

----------------------------------------------------------------------------
(* Replies, and what a step of the store may do *)

LEMMA ApiReplies ==
  /\ \A s, v : Reply(s, v).status = s /\ Store!Reply(s, v) = Reply(s, v)
  /\ Silent.status = "none" /\ Store!Silent = Silent
  /\ \A s, v : s # "none" => Reply(s, v) # Silent
  /\ \A v : Store!Ok(v).status = "ok"
  /\ Store!DateBusy.status = "busy"
  /\ Store!NotFound.status = "notFound"
  /\ Store!Failed.status = "error"
BY DEF Reply, Store!Reply, Silent, Store!Silent, Store!Ok, Store!DateBusy,
       Store!NotFound, Store!Failed

StoreCall(c) ==
  \/ Store!CreateEvent(c) \/ Store!UpdateEvent(c) \/ Store!DeleteEvent(c)
  \/ Store!GetEvent(c) \/ Store!ListEvents(c)
  \/ Store!Fail(c) \/ Store!LoseReply(c)

\* A call of the store that changes the table is answered "ok"; one that was
\* answered before changes nothing and can only fail.
LEMMA StoreOutcome ==
  ASSUME Shape, NEW c \in Clients, StoreCall(c)
  PROVE  \E r :
           /\ reply' = [reply EXCEPT ![c] = r]
           /\ r.status \in {"ok", "busy", "notFound", "error"}
           /\ call' = call
           /\ call[c] # None \/ reply[c] # Silent
           /\ reply[c] = Silent \/ r.status = "error"
           /\ table' = [id \in IDs |-> table'[id]]
           /\ table' # table => r.status = "ok"
<1>1. table = [id \in IDs |-> table[id]]
  BY DEF Shape
<1>2. CASE Store!CreateEvent(c)
  <2>1. PICK id \in IDs :
          \/ Store!Answer(c, Store!DateBusy) /\ UNCHANGED table
          \/ /\ Store!Answer(c, Store!Ok(id))
             /\ table' = [table EXCEPT ![id] = call[c].event]
    BY <1>2 DEF Store!CreateEvent
  <2>2. call[c] # None /\ reply[c] = Silent
    BY <1>2, ApiReplies DEF Store!CreateEvent, Store!Doing
  <2> QED BY <1>1, <2>1, <2>2, ApiReplies DEF Store!Answer
<1>3. CASE Store!UpdateEvent(c)
  <2> DEFINE e == Store!Overlay(table[call[c].id], call[c].patch)
  <2>1. \/ Store!Answer(c, Store!NotFound) /\ UNCHANGED table
        \/ Store!Answer(c, Store!DateBusy) /\ UNCHANGED table
        \/ /\ Store!Answer(c, Store!Ok(None))
           /\ table' = [table EXCEPT ![call[c].id] = e]
    BY <1>3 DEF Store!UpdateEvent
  <2>2. call[c] # None /\ reply[c] = Silent
    BY <1>3, ApiReplies DEF Store!UpdateEvent, Store!Doing
  <2> HIDE DEF e
  <2> QED BY <1>1, <2>1, <2>2, ApiReplies DEF Store!Answer
<1>4. CASE Store!DeleteEvent(c)
  <2> DEFINE id == call[c].id
  <2>1. /\ Store!Answer(c, IF table[id] = None THEN Store!NotFound
                           ELSE Store!Ok(None))
        /\ table' = [table EXCEPT ![id] = None]
        /\ call[c] # None /\ reply[c] = Silent
    BY <1>4, ApiReplies DEF Store!DeleteEvent, Store!Doing
  <2> HIDE DEF id
  <2>2. table' = [i \in IDs |-> table'[i]]
    BY <1>1, <2>1
  <2>3. table[id] = None => table' = table
    BY <1>1, <2>1
  <2> QED BY <2>1, <2>2, <2>3, ApiReplies DEF Store!Answer
<1>5. CASE Store!GetEvent(c)
  BY <1>1, <1>5, ApiReplies DEF Store!GetEvent, Store!Doing, Store!Answer
<1>6. CASE Store!ListEvents(c)
  BY <1>1, <1>6, ApiReplies DEF Store!ListEvents, Store!Doing, Store!Answer
<1>7. CASE Store!Fail(c)
  BY <1>1, <1>7, ApiReplies DEF Store!Fail, Store!Answer
<1>8. CASE Store!LoseReply(c)
  BY <1>1, <1>8, ApiReplies DEF Store!LoseReply
<1> QED BY <1>2, <1>3, <1>4, <1>5, <1>6, <1>7, <1>8 DEF StoreCall

----------------------------------------------------------------------------
(* The invariant *)

LEMMA ApiInit == Init => IInv
BY ApiReplies
   DEF Init, Store!Init, IInv, Shape, ServeInv, Harmless, First, Refusal

\* A response that is no refusal, or refuses a request that changed nothing,
\* keeps the invariant.
LEMMA RespondKeeps ==
  ASSUME IInv, NEW c \in Clients, NEW s, NEW v, Respond(c, s, v),
         request[c] # None, s # "none", s \in Refusal => ~took[c],
         UNCHANGED <<table, request, took>>
  PROVE  IInv'
<1>1. Shape'
  BY DEF IInv, Shape, Respond
<1>2. \A d \in Clients \ {c} :
        /\ call'[d] = call[d] /\ reply'[d] = reply[d]
        /\ response'[d] = response[d]
  BY DEF IInv, Shape, Respond
<1>3. call'[c] = None /\ reply'[c] = Silent /\ response'[c] = Reply(s, v)
  BY DEF IInv, Shape, Respond
<1>4. ServeInv'
  BY <1>2, <1>3, ApiReplies DEF IInv, ServeInv, Harmless, First
<1> QED BY <1>1, <1>4 DEF IInv

LEMMA ApiNext == IInv /\ [Next]_vars => IInv'
<1> SUFFICES ASSUME IInv, [Next]_vars
             PROVE  IInv'
  OBVIOUS
<1>0. Shape /\ ServeInv
  BY DEF IInv
<1>1. CASE UNCHANGED vars
  BY <1>0, <1>1
     DEF vars, IInv, Shape, ServeInv, Harmless, First
<1>2. SUFFICES ASSUME NEW c \in Clients,
                      Refuse(c) \/ Accept(c) \/ StoreStep(c) \/ Answer(c) \/ Done(c)
               PROVE  IInv'
  BY <1>1 DEF Next
<1>3. CASE Refuse(c)
  <2>1. PICK r \in Requests :
          /\ request[c] = None
          /\ request' = [request EXCEPT ![c] = r]
          /\ response' = [response EXCEPT ![c] = Reply("invalid", None)]
          /\ UNCHANGED <<table, call, reply, took>>
    BY <1>3 DEF Refuse, store
  <2>2. r # None
    BY ApiAssumption
  <2>3. Shape'
    BY <1>0, <2>1 DEF Shape
  <2>4. \A d \in Clients \ {c} :
          request'[d] = request[d] /\ response'[d] = response[d]
    BY <1>0, <2>1 DEF Shape
  <2>5. request'[c] = r /\ call[c] = None /\ ~took[c]
    BY <1>0, <2>1 DEF Shape, ServeInv
  <2>6. ServeInv'
    BY <1>0, <2>1, <2>2, <2>4, <2>5, ApiReplies
       DEF ServeInv, Harmless, First
  <2> QED BY <2>3, <2>6 DEF IInv
<1>4. CASE Accept(c)
  <2>1. PICK r \in Requests :
          /\ request[c] = None
          /\ request' = [request EXCEPT ![c] = r]
          /\ call' = [call EXCEPT ![c] = CallOf(r)]
          /\ UNCHANGED <<table, reply, response, took>>
    BY <1>4 DEF Accept
  <2>2. r # None
    BY ApiAssumption
  <2> QED BY <1>0, <2>1, <2>2, ApiReplies
          DEF IInv, Shape, ServeInv, Harmless, First
<1>5. CASE StoreStep(c)
  <2>1. PICK r :
          /\ reply' = [reply EXCEPT ![c] = r]
          /\ r.status \in {"ok", "busy", "notFound", "error"}
          /\ call' = call
          /\ call[c] # None \/ reply[c] # Silent
          /\ reply[c] = Silent \/ r.status = "error"
          /\ table' = [id \in IDs |-> table'[id]]
          /\ table' # table => r.status = "ok"
    BY <1>0, <1>5, StoreOutcome DEF StoreStep, StoreCall
  <2>2. /\ took' = [took EXCEPT ![c] = @ \/ table' # table]
        /\ UNCHANGED <<request, response>>
    BY <1>5 DEF StoreStep
  <2>3. call[c] # None /\ request[c] # None /\ response[c] = Silent
    BY <1>0, <2>1 DEF ServeInv
  <2>4. Shape'
    BY <1>0, <2>1, <2>2 DEF Shape
  <2>5. ASSUME NEW d \in Clients, d # c
        PROVE  reply'[d] = reply[d] /\ took'[d] = took[d]
    BY <1>0, <2>1, <2>2, <2>5 DEF Shape
  <2> DEFINE changed == took[c] \/ table' # table
  <2>6. reply'[c] = r /\ took'[c] = changed
    <3>1. took' = [took EXCEPT ![c] = changed] /\ c \in DOMAIN took
      BY <1>0, <2>2 DEF Shape
    <3> HIDE DEF changed
    <3> QED BY <1>0, <2>1, <3>1 DEF Shape
  <2>7. Harmless(c)'
    <3> SUFFICES ASSUME First(c)', r.status \in {"busy", "notFound"}
                 PROVE  ~took'[c]
      BY <2>1, <2>6 DEF Harmless
    <3>1. ~took[c]
      BY <1>0, <2>1, <2>2, ApiReplies DEF Harmless, First, ServeInv
    <3>2. table' = table
      BY <2>1
    <3> QED BY <2>6, <3>1, <3>2
  <2>8. ServeInv'
    BY <1>0, <2>1, <2>2, <2>3, <2>5, <2>6, <2>7, ApiReplies
       DEF ServeInv, Harmless, First, Refusal
  <2> QED BY <2>4, <2>8 DEF IInv
<1>6. CASE Answer(c)
  <2>1. ASSUME NEW op, Replied(c, op)
        PROVE  /\ request[c] # None
               /\ reply[c].status \in {"busy", "notFound"} => ~took[c]
    BY <1>0, <2>1 DEF Replied, ServeInv, Harmless, First
  <2>2. CASE AnswerCreate(c)
    BY <2>1, <2>2, RespondKeeps DEF AnswerCreate, Refusal
  <2>3. CASE AnswerGet(c)
    BY <2>1, <2>3, RespondKeeps DEF AnswerGet, Refusal
  <2>4. CASE AnswerDelete(c)
    BY <2>1, <2>4, RespondKeeps DEF AnswerDelete, Refusal
  <2>5. CASE AnswerList(c)
    BY <2>1, <2>5, RespondKeeps DEF AnswerList, Refusal
  <2>6. CASE RefuseUpdate(c)
    BY <2>1, <2>6, RespondKeeps DEF RefuseUpdate, Refusal
  <2>7. CASE ReadUpdated(c)
    <3>1. request[c] # None /\ request[c].op = "update"
      BY <2>1, <2>7 DEF ReadUpdated, Replied
    <3>2. Reread(request[c]).op = "get"
      BY DEF Reread
    <3>3. response[c] = Silent
      BY <1>0, <2>7 DEF ReadUpdated, Replied, ServeInv
    <3> QED BY <1>0, <2>7, <3>1, <3>2, <3>3
            DEF ReadUpdated, IInv, Shape, ServeInv, Harmless, First
  <2>8. CASE AnswerUpdate(c)
    <3>1. request[c] # None
      BY <1>0, <2>8 DEF AnswerUpdate, ReadReplied, ServeInv
    <3> QED BY <2>8, <3>1, RespondKeeps DEF AnswerUpdate, Refusal
  <2> QED BY <1>6, <2>2, <2>3, <2>4, <2>5, <2>6, <2>7, <2>8 DEF Answer
<1>7. CASE Done(c)
  BY <1>0, <1>7, ApiReplies
     DEF Done, store, IInv, Shape, ServeInv, Harmless, First, Refusal
<1> QED BY <1>2, <1>3, <1>4, <1>5, <1>6, <1>7

\* Whatever clients do to one another and the store fails to answer, a request
\* that the handlers refuse as invalid, not found or busy changed nothing.
THEOREM RefusedIsUnchanged == Spec => []RefusalsChangeNothing
<1>1. IInv => RefusalsChangeNothing
  BY DEF IInv, ServeInv, Refusal, RefusalsChangeNothing
<1> QED
  BY <1>1, ApiInit, ApiNext, PTL DEF Spec

----------------------------------------------------------------------------
(* What is shown *)

Reads == {"get", "list"}

\* c is being served.
Serving(c) == request[c] # None /\ response[c] = Silent

CallOfRequest(c) ==
  \/ call[c] = CallOf(request[c])
  \/ request[c].op = "update" /\ call[c] = Reread(request[c])

\* What the store told c was in the table since the request or its update.
ToldIsSeen(c) ==
  /\ call[c].op \in Reads /\ reply[c].status = "ok" => reply[c].value \in seen[c]
  /\ reply[c].status # "ok" => reply[c].value = None

ServingInv(c) ==
  /\ View(request[c], table) \in seen[c]
  /\ CallOfRequest(c)
  /\ ToldIsSeen(c)

ShownAt(c) ==
  (response[c].status = "ok" /\ request[c].op \in {"get", "update", "list"}) =>
    \/ response[c].value \in seen[c]
    \/ /\ request[c].op = "update" /\ request[c].via = "http"
       /\ response[c].value = None

ShownInv ==
  /\ seen = [c \in Clients |-> seen[c]]
  /\ \A c \in Clients :
       /\ request[c] \in Requests \cup {None}
       /\ Serving(c) => ServingInv(c)
       /\ ShownAt(c)

\* A request becomes a call of the same operation.
LEMMA CallFacts ==
  ASSUME NEW r \in Requests
  PROVE  /\ CallOf(r).op = r.op
         /\ r.op = "get" => CallOf(r).id = r.id
         /\ r.op \in {"create", "update", "get", "delete", "list"}
<1>1. r.op \in {"create", "update", "get", "delete", "list"}
  BY ApiAssumption DEF Request, CreateRequest, UpdateRequest, IDRequest, ListRequest
<1>2. CASE r.op = "create"
  BY <1>2 DEF CallOf
<1>3. CASE r.op = "update"
  BY <1>3 DEF CallOf
<1>4. CASE r.op \in {"get", "delete"}
  BY <1>4 DEF CallOf
<1>5. CASE r.op = "list"
  BY <1>5 DEF CallOf, ListCallOf
<1> QED BY <1>1, <1>2, <1>3, <1>4, <1>5

\* What the store answers to a read is the view of its request.
LEMMA ReadOutcome ==
  ASSUME NEW c \in Clients, Shape, request[c] \in Requests, CallOfRequest(c),
         StoreCall(c), call[c].op \in Reads
  PROVE  /\ table' = table
         /\ reply'[c].status = "ok" => reply'[c].value = View(request[c], table)
<1>1. ASSUME NEW v, Store!Answer(c, Store!Ok(v))
      PROVE  reply'[c].value = v
  BY <1>1 DEF Store!Answer, Store!Ok, Store!Reply, Shape
<1>2. ASSUME Store!Answer(c, Store!NotFound) \/ Store!Answer(c, Store!Failed)
      PROVE  reply'[c].status # "ok"
  BY <1>2, ApiReplies DEF Store!Answer, Shape
<1>3. CASE Store!GetEvent(c)
  <2>1. call[c].op = "get"
    BY <1>3 DEF Store!GetEvent, Store!Doing
  <2>2. request[c].op \in {"get", "update"} /\ call[c].id = request[c].id
    BY <2>1, CallFacts DEF CallOfRequest, Reread
  <2>3. View(request[c], table) = table[call[c].id]
    BY <2>2 DEF View
  <2> QED BY <1>1, <1>2, <1>3, <2>3 DEF Store!GetEvent
<1>4. CASE Store!ListEvents(c)
  <2>1. call[c].op = "list"
    BY <1>4 DEF Store!ListEvents, Store!Doing
  <2>2. request[c].op = "list" /\ call[c] = CallOf(request[c])
    BY <2>1, CallFacts DEF CallOfRequest, Reread
  <2>3. View(request[c], table) = Store!Listing(table, call[c])
    BY <2>2 DEF View, Listing, Listed, Store!Listing, Store!Listed
  <2> QED BY <1>1, <1>4, <2>3 DEF Store!ListEvents
<1>5. CASE Store!Fail(c)
  BY <1>2, <1>5 DEF Store!Fail
<1>6. CASE Store!LoseReply(c)
  BY <1>6, ApiReplies DEF Store!LoseReply, Shape
<1>7. ~Store!CreateEvent(c) /\ ~Store!UpdateEvent(c) /\ ~Store!DeleteEvent(c)
  BY DEF Store!CreateEvent, Store!UpdateEvent, Store!DeleteEvent, Store!Doing, Reads
<1> QED BY <1>3, <1>4, <1>5, <1>6, <1>7 DEF StoreCall

\* Replies other than "ok" carry nothing.
LEMMA EmptyReplies ==
  ASSUME NEW c \in Clients, Shape, StoreCall(c)
  PROVE  reply'[c].status # "ok" => reply'[c].value = None
<1>1. /\ \A v : Store!Ok(v).status = "ok"
      /\ Store!DateBusy.value = None /\ Store!NotFound.value = None
      /\ Store!Failed.value = None
  BY DEF Store!Ok, Store!DateBusy, Store!NotFound, Store!Failed, Store!Reply
<1>2. ASSUME NEW r, Store!Answer(c, r)
      PROVE  reply'[c] = r
  BY <1>2 DEF Store!Answer, Shape
<1>3. CASE Store!CreateEvent(c)
  BY <1>1, <1>2, <1>3 DEF Store!CreateEvent
<1>4. CASE Store!UpdateEvent(c)
  BY <1>1, <1>2, <1>4 DEF Store!UpdateEvent
<1>5. CASE Store!DeleteEvent(c) \/ Store!GetEvent(c) \/ Store!ListEvents(c)
  BY <1>1, <1>2, <1>5 DEF Store!DeleteEvent, Store!GetEvent, Store!ListEvents
<1>6. CASE Store!Fail(c) \/ Store!LoseReply(c)
  BY <1>1, <1>2, <1>6 DEF Store!Fail, Store!LoseReply, Shape
<1> QED BY <1>3, <1>4, <1>5, <1>6 DEF StoreCall

LEMMA ShownInit == Init => ShownInv
BY ApiReplies DEF Init, Store!Init, ShownInv, Serving, ShownAt

\* A response keeps the invariant if what it shows was seen.
LEMMA RespondShows ==
  ASSUME IInv, ShownInv, NEW c \in Clients, NEW s, NEW v, Respond(c, s, v),
         s # "none",
         s = "ok" /\ request[c].op \in {"get", "update", "list"} =>
           \/ v \in seen[c]
           \/ request[c].op = "update" /\ request[c].via = "http" /\ v = None,
         UNCHANGED <<table, request, seen>>
  PROVE  ShownInv'
<1>1. \A d \in Clients \ {c} :
        /\ call'[d] = call[d] /\ reply'[d] = reply[d]
        /\ response'[d] = response[d]
  BY DEF IInv, Shape, Respond
<1>2. response'[c] = Reply(s, v)
  BY DEF IInv, Shape, Respond
<1>3. /\ response'[c] # Silent
      /\ response'[c].status = s /\ response'[c].value = v
  BY <1>2, ApiReplies DEF Reply
<1>4. ShownAt(c)' /\ ~Serving(c)'
  BY <1>3 DEF ShownAt, Serving
<1>5. ASSUME NEW d \in Clients, d # c
      PROVE  (Serving(d) => ServingInv(d))' /\ ShownAt(d)'
  BY <1>1, <1>5 DEF ShownInv, Serving, ServingInv, CallOfRequest, ToldIsSeen, ShownAt
<1> QED BY <1>4, <1>5 DEF ShownInv

\* A step of the store adds to what is seen, or starts it anew at an update.
LEMMA StoreStepShows ==
  ASSUME IInv, ShownInv, NEW c \in Clients, StoreStep(c)
  PROVE  ShownInv'
<1>0. Shape /\ ServeInv /\ StoreCall(c) /\ Watch(c) /\ UNCHANGED <<request, response>>
  BY DEF IInv, StoreStep, StoreCall
<1>1. PICK r :
        /\ reply' = [reply EXCEPT ![c] = r]
        /\ call' = call
        /\ call[c] # None \/ reply[c] # Silent
        /\ reply[c] = Silent \/ r.status = "error"
  BY <1>0, StoreOutcome
<1>2. Serving(c)
  BY <1>0, <1>1 DEF ServeInv, Serving
<1>3. ASSUME NEW d \in Clients, ~Serving(d)
      PROVE  seen'[d] = seen[d]
  BY <1>0, <1>3 DEF Watch, Serving
<1>4. ASSUME NEW d \in Clients, Serving(d)
      PROVE  /\ View(request[d], table') \in seen'[d]
             /\ d # c \/ call[c].op # "update" => seen[d] \subseteq seen'[d]
  BY <1>0, <1>4 DEF Watch, Serving
<1>5. ASSUME NEW d \in Clients, d # c, Serving(d)
      PROVE  ServingInv(d)'
  <2>1. reply'[d] = reply[d] /\ call'[d] = call[d]
    BY <1>0, <1>1, <1>5 DEF Shape
  <2> QED BY <1>0, <1>4, <1>5, <2>1
          DEF ShownInv, ServingInv, CallOfRequest, ToldIsSeen
<1>6. ServingInv(c)'
  <2>1. CallOfRequest(c) /\ request[c] \in Requests
    BY <1>2 DEF ShownInv, ServingInv, Serving
  <2>2. ToldIsSeen(c)'
    <3>1. ASSUME call[c].op \in Reads, reply'[c].status = "ok"
          PROVE  reply'[c].value \in seen'[c]
      BY <1>0, <1>2, <1>4, <2>1, <3>1, ReadOutcome
    <3> QED BY <1>0, <1>1, <3>1, EmptyReplies DEF ToldIsSeen
  <2> QED BY <1>0, <1>1, <1>2, <1>4, <2>1, <2>2 DEF ServingInv, CallOfRequest
<1>7. ASSUME NEW d \in Clients
      PROVE  ShownAt(d)'
  <2>1. CASE Serving(d)
    BY <1>0, <2>1, ApiReplies DEF ShownAt, Serving
  <2>2. CASE ~Serving(d)
    BY <1>0, <1>3, <2>2 DEF ShownAt, ShownInv
  <2> QED BY <2>1, <2>2
<1>8. (seen = [d \in Clients |-> seen[d]])'
  BY <1>0 DEF Watch
<1> QED BY <1>0, <1>2, <1>5, <1>6, <1>7, <1>8 DEF ShownInv, Serving

LEMMA ShownNext == IInv /\ ShownInv /\ [Next]_vars => ShownInv'
<1> SUFFICES ASSUME IInv, ShownInv, [Next]_vars
             PROVE  ShownInv'
  OBVIOUS
<1>0. Shape /\ ServeInv
  BY DEF IInv
<1>1. CASE UNCHANGED vars
  BY <1>1 DEF vars, ShownInv, Serving, ServingInv, CallOfRequest, ToldIsSeen, ShownAt
<1>2. SUFFICES ASSUME NEW c \in Clients,
                      Refuse(c) \/ Accept(c) \/ StoreStep(c) \/ Answer(c) \/ Done(c)
               PROVE  ShownInv'
  BY <1>1 DEF Next
\* Steps of c leave the others alone.
<1>3. ASSUME UNCHANGED table,
             \A d \in Clients \ {c} :
               /\ call'[d] = call[d] /\ reply'[d] = reply[d]
               /\ request'[d] = request[d] /\ response'[d] = response[d]
               /\ seen'[d] = seen[d],
             (seen = [d \in Clients |-> seen[d]])',
             request'[c] \in Requests \cup {None},
             (Serving(c) => ServingInv(c))', ShownAt(c)'
      PROVE  ShownInv'
  <2>1. ASSUME NEW d \in Clients, d # c
        PROVE  (Serving(d) => ServingInv(d))' /\ ShownAt(d)'
               /\ request'[d] \in Requests \cup {None}
    BY <1>3, <2>1 DEF ShownInv, Serving, ServingInv, CallOfRequest, ToldIsSeen, ShownAt
  <2> QED BY <1>3, <2>1 DEF ShownInv
<1>4. CASE Refuse(c)
  <2>1. PICK r \in Requests :
          /\ request' = [request EXCEPT ![c] = r]
          /\ response' = [response EXCEPT ![c] = Reply("invalid", None)]
          /\ UNCHANGED <<table, call, reply, seen>>
    BY <1>4 DEF Refuse, store
  <2>2. /\ request'[c] = r /\ response'[c] = Reply("invalid", None)
        /\ \A d \in Clients \ {c} :
             request'[d] = request[d] /\ response'[d] = response[d]
    BY <1>0, <2>1 DEF Shape
  <2>3. ~Serving(c)' /\ ShownAt(c)'
    BY <2>2, ApiReplies DEF Serving, ShownAt
  <2> QED BY <1>3, <2>1, <2>2, <2>3 DEF ShownInv
<1>5. CASE Accept(c)
  <2>1. PICK r \in Requests :
          /\ request[c] = None
          /\ request' = [request EXCEPT ![c] = r]
          /\ call' = [call EXCEPT ![c] = CallOf(r)]
          /\ seen' = [seen EXCEPT ![c] = {View(r, table)}]
          /\ UNCHANGED <<table, reply, response>>
    BY <1>5 DEF Accept
  <2>2. /\ request'[c] = r /\ call'[c] = CallOf(r) /\ seen'[c] = {View(r, table)}
        /\ \A d \in Clients \ {c} :
             /\ request'[d] = request[d] /\ call'[d] = call[d]
             /\ seen'[d] = seen[d]
        /\ (seen = [d \in Clients |-> seen[d]])'
    BY <1>0, <2>1 DEF Shape, ShownInv
  <2>3. reply'[c] = Silent /\ response'[c] = Silent
    BY <1>0, <2>1 DEF ServeInv
  <2>4. ServingInv(c)' /\ ShownAt(c)'
    BY <2>1, <2>2, <2>3, ApiReplies
       DEF ServingInv, CallOfRequest, ToldIsSeen, ShownAt, Silent, Reply
  <2> QED BY <1>3, <2>1, <2>2, <2>4
<1>6. CASE StoreStep(c)
  BY <1>6, StoreStepShows
<1>7. CASE Answer(c)
  <2>1. ASSUME reply[c] # Silent
        PROVE  Serving(c) /\ ToldIsSeen(c)
    BY <1>0, <2>1 DEF ServeInv, Serving, ShownInv, ServingInv
  <2>2. CASE AnswerCreate(c)
    BY <2>2, RespondShows DEF AnswerCreate, Replied
  <2>3. CASE AnswerGet(c)
    BY <2>1, <2>3, RespondShows DEF AnswerGet, Replied, ToldIsSeen, Reads
  <2>4. CASE AnswerDelete(c)
    BY <2>4, RespondShows DEF AnswerDelete, Replied
  <2>5. CASE AnswerList(c)
    BY <2>1, <2>5, RespondShows DEF AnswerList, Replied, ToldIsSeen, Reads
  <2>6. CASE RefuseUpdate(c)
    BY <2>6, RespondShows DEF RefuseUpdate, Replied
  <2>7. CASE AnswerUpdate(c)
    <3>1. /\ call[c].op = "get" /\ request[c].op = "update"
          /\ UNCHANGED <<table, request, seen>>
          /\ ToldIsSeen(c)
      BY <2>1, <2>7 DEF AnswerUpdate, ReadReplied
    <3>2. CASE reply[c].status = "ok"
      BY <2>7, <3>1, <3>2, RespondShows DEF AnswerUpdate, ToldIsSeen, Reads
    <3>3. CASE reply[c].status # "ok"
      BY <2>7, <3>1, <3>3, RespondShows DEF AnswerUpdate, ToldIsSeen
    <3> QED BY <3>2, <3>3
  <2>8. CASE ReadUpdated(c)
    <3>1. /\ call' = [call EXCEPT ![c] = Reread(request[c])]
          /\ reply' = [reply EXCEPT ![c] = Silent]
          /\ UNCHANGED <<table, request, response, seen>>
          /\ request[c].op = "update" /\ reply[c] # Silent
      BY <2>8 DEF ReadUpdated, Replied
    <3>2. /\ call'[c] = Reread(request[c]) /\ reply'[c] = Silent
          /\ \A d \in Clients \ {c} :
               call'[d] = call[d] /\ reply'[d] = reply[d]
      BY <1>0, <3>1 DEF Shape
    <3>3. ServingInv(c)' /\ ShownAt(c)'
      BY <2>1, <3>1, <3>2, ApiReplies
         DEF ShownInv, Serving, ServingInv, CallOfRequest, ToldIsSeen, ShownAt,
             Silent, Reply
    <3> QED BY <1>3, <3>1, <3>2, <3>3 DEF ShownInv
  <2> QED BY <1>7, <2>2, <2>3, <2>4, <2>5, <2>6, <2>7, <2>8 DEF Answer
<1>8. CASE Done(c)
  <2>1. /\ request' = [request EXCEPT ![c] = None]
        /\ response' = [response EXCEPT ![c] = Silent]
        /\ seen' = [seen EXCEPT ![c] = {}]
        /\ UNCHANGED <<table, call, reply>>
    BY <1>8 DEF Done, store
  <2>2. /\ request'[c] = None /\ response'[c] = Silent
        /\ \A d \in Clients \ {c} :
             /\ request'[d] = request[d] /\ response'[d] = response[d]
             /\ seen'[d] = seen[d]
        /\ (seen = [d \in Clients |-> seen[d]])'
    BY <1>0, <2>1 DEF Shape, ShownInv
  <2>3. ~Serving(c)' /\ ShownAt(c)'
    BY <2>2, ApiReplies DEF Serving, ShownAt
  <2> QED BY <1>3, <2>1, <2>2, <2>3
<1> QED BY <1>2, <1>4, <1>5, <1>6, <1>7, <1>8

\* What a response shows was in the table while the request was served, for an
\* update after it took effect, whatever other clients do in between; only an
\* HTTP update may show the empty event instead.
THEOREM ShownIsNotOlder == Spec => []ShownIsCurrent
<1>1. ShownInv => ShownIsCurrent
  BY DEF ShownInv, ShownAt, ShownIsCurrent
<1> QED
  BY <1>1, ApiInit, ApiNext, ShownInit, ShownNext, PTL DEF Spec

----------------------------------------------------------------------------
(* The table holds complete events only *)

\* A call in progress is one of a valid request.
ValidInv == \A c \in Clients : call[c] # None => ~Invalid(request[c])

ApiInv == IInv /\ ShownInv /\ ValidInv /\ table \in Table

\* What is in progress and what it was told.
LEMMA InProgress ==
  ASSUME IInv, ShownInv, NEW c \in Clients, call[c] # None
  PROVE  Serving(c) /\ request[c] \in Requests /\ CallOfRequest(c)
BY DEF IInv, ServeInv, ShownInv, Serving, ServingInv

\* The checks of a request are all that its call needs: a create that is valid
\* gives all fields, and the fields of an update are of their types.
LEMMA ValidCall ==
  ASSUME NEW r \in Requests, ~Invalid(r)
  PROVE  /\ r.op = "create" => CallOf(r).event \in Event
         /\ r.op = "update" => CallOf(r).id \in IDs /\ CallOf(r).patch \in Patch
<1>1. r \in Request
  BY ApiAssumption
<1>2. ASSUME r.op = "create"
      PROVE  CallOf(r).event \in Event
  <2>1. r \in CreateRequest
    BY <1>1, <1>2 DEF Request, UpdateRequest, IDRequest, ListRequest
  <2>2. r.event \in Patch /\ ~InvalidCreate(r)
    BY <1>2, <2>1 DEF CreateRequest, Invalid
  <2>3. r.event \in Event
    BY <2>2 DEF Patch, Event, InvalidCreate
  <2> QED
    BY <1>2, <2>3 DEF CallOf
<1>3. ASSUME r.op = "update"
      PROVE  CallOf(r).id \in IDs /\ CallOf(r).patch \in Patch
  <2>1. r \in UpdateRequest
    BY <1>1, <1>3 DEF Request, CreateRequest, IDRequest, ListRequest
  <2>2. r.id \in IDs /\ r.patch \in Patch
    BY <1>3, <2>1 DEF UpdateRequest, Invalid
  <2> QED
    BY <1>3, <2>2 DEF CallOf
<1> QED
  BY <1>2, <1>3

\* The call of a request that is served, when the store is asked to write.
LEMMA WriteCall ==
  ASSUME IInv, ShownInv, ValidInv, NEW c \in Clients, call[c] # None
  PROVE  /\ call[c].op = "create" => call[c].event \in Event
         /\ call[c].op = "update" => call[c].id \in IDs /\ call[c].patch \in Patch
<1>1. request[c] \in Requests /\ ~Invalid(request[c]) /\ CallOfRequest(c)
  BY InProgress DEF ValidInv
<1>2. call[c].op \in {"create", "update"} =>
        call[c] = CallOf(request[c]) /\ request[c].op = call[c].op
  BY <1>1, CallFacts DEF CallOfRequest, Reread
<1> QED
  BY <1>1, <1>2, ValidCall

\* The store's calls of the other modules are those of EventTable.
LEMMA StoreTable ==
  ASSUME IInv, ShownInv, ValidInv, table \in Table, NEW c \in Clients, StoreCall(c)
  PROVE  table' \in Table
<1>1. CASE Store!CreateEvent(c)
  <2>1. call[c] # None /\ call[c].op = "create"
    BY <1>1 DEF Store!CreateEvent, Store!Doing
  <2>2. call[c].event \in Event
    BY <2>1, WriteCall
  <2>3. \/ UNCHANGED table
        \/ \E id \in IDs : table' = [table EXCEPT ![id] = call[c].event]
    BY <1>1 DEF Store!CreateEvent
  <2> QED
    BY <2>2, <2>3 DEF Table
<1>2. CASE Store!UpdateEvent(c)
  <2>1. call[c] # None /\ call[c].op = "update"
    BY <1>2 DEF Store!UpdateEvent, Store!Doing
  <2>2. call[c].id \in IDs /\ call[c].patch \in Patch
    BY <2>1, WriteCall
  <2> DEFINE e == Store!Overlay(table[call[c].id], call[c].patch)
  <2>3. \/ UNCHANGED table
        \/ table[call[c].id] # None /\ table' = [table EXCEPT ![call[c].id] = e]
    BY <1>2 DEF Store!UpdateEvent
  <2>4. table[call[c].id] # None => e \in Event
    <3>1. table[call[c].id] # None => table[call[c].id] \in Event
      BY <2>2 DEF Table
    <3> QED
      BY <2>2, <3>1 DEF Store!Overlay, Store!Given, Patch, Event
  <2> HIDE DEF e
  <2> QED
    BY <2>2, <2>3, <2>4 DEF Table
<1>3. CASE Store!DeleteEvent(c)
  <2>1. table' = [table EXCEPT ![call[c].id] = None]
    BY <1>3 DEF Store!DeleteEvent
  <2> QED
    BY <2>1 DEF Table
<1>4. CASE \/ Store!GetEvent(c) \/ Store!ListEvents(c)
           \/ Store!Fail(c) \/ Store!LoseReply(c)
  BY <1>4 DEF Store!GetEvent, Store!ListEvents, Store!Fail, Store!LoseReply
<1> QED
  BY <1>1, <1>2, <1>3, <1>4 DEF StoreCall

\* Only a request that passed its checks becomes a call.
LEMMA ValidNext ==
  ASSUME IInv, ShownInv, ValidInv, [Next]_vars
  PROVE  ValidInv'
<1>0. Shape /\ ServeInv
  BY DEF IInv
<1>1. CASE UNCHANGED vars
  BY <1>1 DEF vars, ValidInv
<1>2. SUFFICES ASSUME NEW c \in Clients,
                      Refuse(c) \/ Accept(c) \/ StoreStep(c) \/ Answer(c) \/ Done(c)
               PROVE  ValidInv'
  BY <1>1 DEF Next
<1>3. ASSUME NEW r, call' = [call EXCEPT ![c] = None], request' = request
      PROVE  ValidInv'
  BY <1>0, <1>3 DEF Shape, ValidInv
<1>4. CASE Refuse(c)
  <2>1. PICK r \in Requests : /\ request' = [request EXCEPT ![c] = r]
                              /\ call' = call /\ request[c] = None
    BY <1>4 DEF Refuse, store
  <2> QED
    BY <1>0, <2>1 DEF Shape, ServeInv, ValidInv
<1>5. CASE Accept(c)
  <2>1. PICK r \in Requests : /\ ~Invalid(r)
                              /\ request' = [request EXCEPT ![c] = r]
                              /\ call' = [call EXCEPT ![c] = CallOf(r)]
    BY <1>5 DEF Accept
  <2>2. /\ request'[c] = r
        /\ \A d \in Clients \ {c} : request'[d] = request[d] /\ call'[d] = call[d]
    BY <1>0, <2>1 DEF Shape
  <2> QED
    BY <2>1, <2>2 DEF ValidInv
<1>6. CASE StoreStep(c)
  <2>1. call' = call /\ request' = request
    BY <1>0, <1>6, StoreOutcome DEF StoreStep, StoreCall
  <2> QED
    BY <2>1 DEF ValidInv
<1>7. CASE Answer(c)
  <2>1. CASE ReadUpdated(c)
    <3>1. /\ call' = [call EXCEPT ![c] = Reread(request[c])] /\ request' = request
          /\ call[c] # None
      BY <1>0, <2>1 DEF ReadUpdated, Replied, ServeInv
    <3> QED
      BY <1>0, <3>1 DEF Shape, ValidInv
  <2>2. CASE ~ReadUpdated(c)
    <3>1. call' = [call EXCEPT ![c] = None] /\ request' = request
      BY <1>7, <2>2 DEF Answer, AnswerCreate, AnswerGet, AnswerDelete, AnswerList,
         RefuseUpdate, AnswerUpdate, Respond
    <3> QED
      BY <1>3, <3>1
  <2> QED
    BY <2>1, <2>2
<1>8. CASE Done(c)
  <2>1. request' = [request EXCEPT ![c] = None] /\ call' = call /\ call[c] = None
    BY <1>0, <1>8 DEF Done, store, ServeInv
  <2> QED
    BY <1>0, <2>1 DEF Shape, ValidInv
<1> QED
  BY <1>2, <1>4, <1>5, <1>6, <1>7, <1>8

\* Nothing but the store writes the table.
LEMMA TableNext ==
  ASSUME IInv, ShownInv, ValidInv, table \in Table, [Next]_vars
  PROVE  table' \in Table
<1>1. CASE UNCHANGED vars
  BY <1>1 DEF vars
<1>2. ASSUME NEW c \in Clients, StoreStep(c)
      PROVE  table' \in Table
  BY <1>2, StoreTable DEF StoreStep, StoreCall
<1>3. ASSUME NEW c \in Clients, Refuse(c) \/ Accept(c) \/ Answer(c) \/ Done(c)
      PROVE  table' = table
  BY <1>3 DEF Refuse, Accept, Answer, Done, store, AnswerCreate, AnswerGet,
     AnswerDelete, AnswerList, RefuseUpdate, ReadUpdated, AnswerUpdate
<1> QED
  BY <1>1, <1>2, <1>3 DEF Next

LEMMA ApiInductive == Spec => []ApiInv
<1>1. Init => ApiInv
  <2>1. Init => ValidInv /\ table \in Table
    BY DEF Init, Store!Init, ValidInv, Table
  <2> QED
    BY <2>1, ApiInit, ShownInit DEF ApiInv
<1>2. ApiInv /\ [Next]_vars => ApiInv'
  BY ApiNext, ShownNext, ValidNext, TableNext DEF ApiInv
<1> QED
  BY <1>1, <1>2, PTL DEF Spec

\* The checks of both front ends let only complete events into the table, and
\* what is called, replied and answered belongs to what was requested.
THEOREM ApiTypeCorrect == Spec => []TypeOK
<1>1. ASSUME ApiInv PROVE TypeOK
  <2>1. Shape /\ ServeInv /\ IInv /\ ShownInv /\ table \in Table
    BY <1>1 DEF ApiInv, IInv
  <2>2. request \in [Clients -> Requests \cup {None}] /\ DOMAIN seen = Clients
    BY <2>1 DEF Shape, ShownInv
  <2>3. ASSUME NEW c \in Clients, call[c] # None
        PROVE  \/ call[c] = CallOf(request[c])
               \/ request[c].op = "update" /\ call[c] = Reread(request[c])
    BY <2>1, <2>3, InProgress DEF CallOfRequest
  <2> QED
    BY <2>1, <2>2, <2>3 DEF TypeOK, Shape, ServeInv
<1> QED
  BY <1>1, ApiInductive, PTL

----------------------------------------------------------------------------
(* The day, its week and its month *)

\* Division with a remainder.
LEMMA Division ==
  ASSUME NEW t \in Int, NEW n \in Nat \ {0}
  PROVE  /\ t \div n \in Int /\ t % n \in 0 .. n - 1
         /\ t = (n * (t \div n)) + (t % n)
OBVIOUS

\* A multiple of n leaves no remainder.
LEMMA NoRemainder ==
  ASSUME NEW n \in Nat \ {0}, NEW i \in Int
  PROVE  (n * i) % n = 0
<1> DEFINE j == (n * i) \div n
           r == (n * i) % n
<1>1. n * i \in Int
  OBVIOUS
<1>2. j \in Int /\ r \in 0 .. n - 1 /\ n * i = (n * j) + r
  BY <1>1, Division
<1> HIDE DEF j, r
<1>3. ~(i < j) /\ ~(j < i)
  BY <1>2
<1>4. r = 0
  BY <1>2, <1>3
<1> QED
  BY <1>4 DEF r

\* The starts of two days are whole days apart.
LEMMA WholeDays ==
  ASSUME NEW n \in Nat \ {0}, NEW a \in Int, NEW b \in Int,
         a % n = 0, b % n = 0, a < b
  PROVE  a + n <= b
<1> DEFINE i == a \div n
           j == b \div n
<1>1. i \in Int /\ j \in Int /\ a = n * i /\ b = n * j
  BY Division
<1> HIDE DEF i, j
<1>2. i < j
  BY <1>1
<1> QED
  BY <1>1, <1>2

\* The day of t is a whole one, and t is in it.
LEMMA DayFacts ==
  ASSUME NEW t \in Int
  PROVE  /\ StartOfDay(t) \in Int /\ StartOfDay(t) % DayLength = 0
         /\ StartOfDay(t) <= t /\ t < StartOfDay(t) + DayLength
<1>1. DayLength \in Nat \ {0}
  BY ApiAssumption
<1>2. StartOfDay(t) = DayLength * (t \div DayLength)
      /\ t \div DayLength \in Int /\ t % DayLength \in 0 .. DayLength - 1
  BY <1>1, Division DEF StartOfDay
<1>3. (DayLength * (t \div DayLength)) % DayLength = 0
  BY <1>1, <1>2, NoRemainder
<1> QED
  BY <1>1, <1>2, <1>3 DEF StartOfDay

\* The week of a day has it, whichever weekday it is: Sunday too.
LEMMA DayInWeek ==
  ASSUME NEW t \in Int
  PROVE  /\ WeekOf(t).from \in Int /\ WeekOf(t).to \in Int
         /\ WeekOf(t).from <= DayOf(t).from /\ DayOf(t).to <= WeekOf(t).to
<1> DEFINE w == IF Weekday(t) = 0 THEN 7 ELSE Weekday(t)
           s == StartOfDay(t)
<1>1. DayLength \in Nat \ {0} /\ s \in Int
  BY ApiAssumption, DayFacts
<1>2. Weekday(t) \in 0 .. 6
  BY <1>1, ApiAssumption, Division DEF Weekday
<1>3. w \in 1 .. 7
  BY <1>2
<1>4. /\ WeekOf(t).from = s - (w - 1) * DayLength
      /\ WeekOf(t).to = s - (w - 1) * DayLength + 7 * DayLength
      /\ DayOf(t).from = s /\ DayOf(t).to = s + DayLength
  BY DEF WeekOf, DayOf
<1> HIDE DEF w, s
<1>5. /\ (w - 1) * DayLength \in Int
      /\ 0 <= (w - 1) * DayLength /\ (w - 1) * DayLength <= 6 * DayLength
  BY <1>1, <1>3
<1> QED
  BY <1>1, <1>4, <1>5

\* The order of the numbers as a relation, for the lemmas on well-founded ones.
Less == {ss \in Nat \X Nat : ss[1] < ss[2]}

\* Every set of numbers that is not empty has a least one.
LEMMA LeastNumber ==
  ASSUME NEW S, S \subseteq Nat, S # {}
  PROVE  \E n \in S : \A m \in S : n <= m
<1>1. IsWellFoundedOn(Less, Nat)
  BY NatLessThanWellFounded DEF Less, OpToRel
<1>2. PICK n \in S : \A m \in S : ~(<<m, n>> \in Less)
  BY <1>1, WFMin
<1>3. \A m \in S : ~(m < n)
  BY <1>2 DEF Less
<1> QED
  BY <1>3

\* The last of some times that are not after t, and the first of some that are
\* not before it.
LEMMA LastAndFirst ==
  ASSUME NEW t \in Int, NEW S \in SUBSET Int, S # {}
  PROVE  /\ (\A m \in S : m <= t) => Max(S) \in S
         /\ (\A m \in S : m >= t) => Min(S) \in S
<1>1. ASSUME \A m \in S : m <= t
      PROVE  Max(S) \in S
  <2> DEFINE D == {t - m : m \in S}
  <2>0. \A m \in S : t - m \in Nat
    BY <1>1
  <2>1. D \subseteq Nat /\ D # {}
    BY <2>0
  <2>2. PICK d \in D : \A e \in D : d <= e
    BY <2>1, LeastNumber
  <2>3. PICK x \in S : d = t - x
    BY <2>2
  <2>4. ASSUME NEW y \in S
        PROVE  x >= y
    <3>1. t - y \in D
      OBVIOUS
    <3>2. d <= t - y
      BY <2>2, <3>1
    <3> QED
      BY <2>3, <3>2
  <2> QED
    BY <2>4 DEF Max
<1>2. ASSUME \A m \in S : m >= t
      PROVE  Min(S) \in S
  <2> DEFINE D == {m - t : m \in S}
  <2>0. \A m \in S : m - t \in Nat
    BY <1>2
  <2>1. D \subseteq Nat /\ D # {}
    BY <2>0
  <2>2. PICK d \in D : \A e \in D : d <= e
    BY <2>1, LeastNumber
  <2>3. PICK x \in S : d = x - t
    BY <2>2
  <2>4. ASSUME NEW y \in S
        PROVE  x <= y
    <3>1. y - t \in D
      OBVIOUS
    <3>2. d <= y - t
      BY <2>2, <3>1
    <3> QED
      BY <2>3, <3>2
  <2> QED
    BY <2>4 DEF Min
<1> QED
  BY <1>1, <1>2

\* The month of a day has it: months start with a day.
LEMMA DayInMonth ==
  ASSUME NEW t \in Dates
  PROVE  /\ MonthOf(t).from \in Int /\ MonthOf(t).to \in Int
         /\ MonthOf(t).from <= DayOf(t).from /\ DayOf(t).to <= MonthOf(t).to
<1> DEFINE s == StartOfDay(t)
           before == {m \in MonthStarts : m <= t}
           after == {m \in MonthStarts : m > t}
<1>1. /\ DayLength \in Nat \ {0} /\ t \in Int
      /\ MonthStarts \subseteq Int /\ \A m \in MonthStarts : m % DayLength = 0
  BY ApiAssumption
<1>2. s \in Int /\ s % DayLength = 0 /\ s <= t /\ t < s + DayLength
  BY <1>1, DayFacts
<1>3. before \in SUBSET Int /\ before # {} /\ after \in SUBSET Int /\ after # {}
  BY <1>1, ApiAssumption
<1>4. (\A m \in before : m <= t) /\ (\A m \in after : m >= t)
  BY <1>1
<1>5. Max(before) \in before /\ Min(after) \in after
  BY <1>1, <1>3, <1>4, LastAndFirst
<1>6. /\ MonthOf(t).from = Max(before) /\ MonthOf(t).to = Min(after)
      /\ DayOf(t).from = s /\ DayOf(t).to = s + DayLength
  BY DEF MonthOf, DayOf
<1>7. ASSUME NEW m \in before
      PROVE  m <= s
  <2>1. m \in Int /\ m <= t /\ m % DayLength = 0
    BY <1>1
  <2>2. s < m => s + DayLength <= m
    BY <1>1, <1>2, <2>1, WholeDays
  <2> QED
    BY <1>1, <1>2, <2>1, <2>2
<1>8. ASSUME NEW m \in after
      PROVE  s + DayLength <= m
  <2>1. m \in Int /\ m > t /\ m % DayLength = 0
    BY <1>1
  <2>2. s < m
    BY <1>1, <1>2, <2>1
  <2> QED
    BY <1>1, <1>2, <2>1, <2>2, WholeDays
<1> HIDE DEF s, before, after
<1> QED
  BY <1>3, <1>5, <1>6, <1>7, <1>8

\* What a period shows, a longer one shows too.
LEMMA LongerShowsMore ==
  ASSUME table \in Table, NEW o, NEW p, NEW q,
         p.from \in Int, p.to \in Int, q.from \in Int, q.to \in Int,
         q.from <= p.from, p.to <= q.to
  PROVE  Listed(table, ListCallOf(o, p)) \subseteq Listed(table, ListCallOf(o, q))
<1>1. ASSUME NEW id \in Listed(table, ListCallOf(o, p))
      PROVE  id \in Listed(table, ListCallOf(o, q))
  <2>1. /\ id \in IDs /\ table[id] # None /\ table[id].owner = o
        /\ table[id].start < p.to /\ table[id].end > p.from
    BY <1>1 DEF Listed, ListCallOf
  <2>2. table[id].start \in Int /\ table[id].end \in Int
    BY <2>1 DEF Table, Event
  <2> QED
    BY <2>1, <2>2 DEF Listed, ListCallOf
<1> QED
  BY <1>1

\* An event that is listed for a day is listed for its week and its month, for
\* every date, weekday and calendar of months (both ListEvents handlers).
THEOREM DayIsInWeekAndMonth == Spec => []DayInWeekAndMonth
<1>1. ASSUME ApiInv PROVE DayInWeekAndMonth
  <2>1. SUFFICES ASSUME NEW o \in Owners, NEW t \in Dates
                 PROVE  /\ Listed(table, ListCallOf(o, DayOf(t)))
                             \subseteq Listed(table, ListCallOf(o, WeekOf(t)))
                        /\ Listed(table, ListCallOf(o, DayOf(t)))
                             \subseteq Listed(table, ListCallOf(o, MonthOf(t)))
    BY DEF DayInWeekAndMonth
  <2>2. table \in Table /\ t \in Int
    BY <1>1, ApiAssumption DEF ApiInv
  <2>3. DayOf(t).from \in Int /\ DayOf(t).to \in Int
    BY <2>2, DayFacts, ApiAssumption DEF DayOf
  <2> QED
    BY <2>2, <2>3, DayInWeek, DayInMonth, LongerShowsMore
<1> QED
  BY <1>1, ApiInductive, PTL
=============================================================================
