----------------------------- MODULE Reminders -----------------------------
(***************************************************************************)
(* The reminder pipeline of the calendar service (hw12_13_14_15_16):       *)
(* PostgreSQL rows written by the API, the scheduler that turns due rows   *)
(* into RabbitMQ messages, the broker, and the sender that logs a message, *)
(* marks its row delivered and acknowledges it.                            *)
(*                                                                         *)
(* A row is its schedule (start, end, notify) and its two marks; a message *)
(* is the ID it carries.  Owners, titles and the overlap constraint play   *)
(* no role here.  UpdateEvent reads the row and then writes it in two      *)
(* statements; each outcome of that race is some whole schedule in the     *)
(* row, and UpdateEvent below may write any schedule.                      *)
(***************************************************************************)
EXTENDS Integers, Sequences, FiniteSets, Functions

CONSTANTS
  Events,      \* IDs the database may generate
  Garbage,     \* messages of other producers that are not a Notification
  Plans,       \* schedules the API's callers ask for
  Never,       \* notify_at IS NULL
  Limit,       \* batch size of one poll (100 in the code)
  SqlYear,     \* INTERVAL '1 year' of the fetch query
  Retention,   \* olderThan of the cleanup (365*24h)
  MaxNow,      \* bound: the clock stops here
  Budget       \* bound: how often each kind of fault may happen

FaultKinds == {"schedulerCrash", "markError", "schedulerLinkLoss",
               "senderCrash", "deliveredError", "senderLinkLoss",
               "brokerRestart"}

Plan == [start : Nat, end : Nat, notify : Nat \cup {Never}]

ASSUME DataAssumption ==
  /\ IsFiniteSet(Events) /\ IsFiniteSet(Garbage)
  /\ Events \cap Garbage = {}
  /\ Plans \subseteq Plan
  /\ Never \notin Nat

ASSUME NumberAssumption ==
  /\ Limit \in Nat \ {0}
  /\ SqlYear \in Nat
  /\ Retention \in Nat
  /\ MaxNow \in Nat
  /\ Budget \in [FaultKinds -> Nat]

VARIABLES
  now,         \* the clock shared by the database and the processes
  rows,        \* IDs present in table events
  used,        \* IDs ever generated
  plan,        \* plan[e]: date_start, date_end, notify_at of row e
  published,   \* rows whose notify_published_at is set
  delivered,   \* rows whose notify_delivered_at is set
  wire,        \* published messages the broker has not received yet
  ready,       \* the queue, without the messages delivered to the sender
  inbox,       \* messages held by the sender process, oldest first
  sch,         \* the scheduler: "down", "idle" or "working" on a batch
  schLink,     \* whether the scheduler's AMQP channel is open
  batch,       \* notifications fetched and not yet published
  sent,        \* sentIDs: published in this poll and to be marked
  snd,         \* the sender: "down", "idle", "logged" or "marked"
  sndLink,     \* whether the sender's AMQP channel is open
  faults,      \* how often each kind of fault happened
  copies,      \* history: how often e was published
  logged,      \* history: how often the reminder of e was logged
  unreminded,  \* history: events not logged since notify_at was last moved
  lost         \* history: messages a failing connection or broker held

table     == <<rows, used, plan, published, delivered>>
broker    == <<wire, ready>>
scheduler == <<sch, schLink, batch, sent>>
sender    == <<snd, sndLink, inbox>>
history   == <<copies, logged, unreminded, lost>>
vars      == <<now, table, broker, scheduler, sender, faults, history>>

----------------------------------------------------------------------------
(* Types, helpers, initial state *)

\* The messages a queue may hold.
Message == Events \cup Garbage

\* Type invariant of the pipeline.
TypeOK ==
  /\ now \in Nat
  /\ rows \subseteq used
  /\ used \subseteq Events
  /\ plan \in [Events -> Plan]
  /\ published \subseteq rows
  /\ delivered \subseteq rows
  /\ wire \in Seq(Events)
  /\ ready \in Seq(Message)
  /\ inbox \in Seq(Message)
  /\ sch \in {"down", "idle", "working"}
  /\ schLink \in BOOLEAN
  /\ batch \in Seq(Events)
  /\ sent \subseteq Events
  /\ snd \in {"down", "idle", "logged", "marked"}
  /\ sndLink \in BOOLEAN
  /\ faults \in [FaultKinds -> Nat]
  /\ copies \in [Events -> Nat]
  /\ logged \in [Events -> Nat]
  /\ unreminded \subseteq Events
  /\ lost \subseteq Message

\* The schedule of an ID that has no row.
NoPlan == [start |-> 0, end |-> 0, notify |-> Never]

\* notify_at has come and the event is not archived.
Owed(e) ==
  /\ e \in rows
  /\ plan[e].notify # Never
  /\ plan[e].notify <= now
  /\ plan[e].start + SqlYear >= now

\* Mutant: the query without "notify_published_at IS NULL".
PendingAgain == {e \in Events : Owed(e)}

\* The rows the fetch query selects.
Pending == {e \in Events : Owed(e) /\ e \notin published}

\* ORDER BY notify_at LIMIT n over the rows S; ties in any order.
BatchSize(S) == IF Cardinality(S) <= Limit THEN Cardinality(S) ELSE Limit
OldestFirst(S) ==
  {b \in [1..BatchSize(S) -> S] :
     /\ IsInjective(b)
     /\ \A i, j \in DOMAIN b : i < j => plan[b[i]].notify <= plan[b[j]].notify
     /\ \A e \in S \ Range(b) : \A i \in DOMAIN b :
           plan[b[i]].notify <= plan[e].notify}

\* A fault of kind k happens, within its budget.
Fault(k) ==
  /\ faults[k] < Budget[k]
  /\ faults' = [faults EXCEPT ![k] = @ + 1]

\* The messages published and neither acknowledged nor lost.
InFlight == Range(wire) \cup Range(ready) \cup Range(inbox)

Init ==
  /\ now = 0
  /\ rows = {} /\ used = {} /\ published = {} /\ delivered = {}
  /\ plan = [e \in Events |-> NoPlan]
  /\ wire = <<>> /\ inbox = <<>>
  /\ ready \in {q \in [1..Cardinality(Garbage) -> Garbage] : IsInjective(q)}
  /\ sch = "down" /\ schLink = FALSE /\ batch = <<>> /\ sent = {}
  /\ snd = "down" /\ sndLink = FALSE
  /\ faults = [k \in FaultKinds |-> 0]
  /\ copies = [e \in Events |-> 0]
  /\ logged = [e \in Events |-> 0]
  /\ unreminded = {}
  /\ lost = {}

----------------------------------------------------------------------------
(* Time and the API *)

Tick ==
  /\ now < MaxNow
  /\ now' = now + 1
  /\ UNCHANGED <<table, broker, scheduler, sender, faults, history>>

\* CHECK (date_end > date_start) refuses the other schedules.
CreateEvent(e, p) ==
  /\ e \notin used
  /\ p.end > p.start
  /\ rows' = rows \cup {e}
  /\ used' = used \cup {e}
  /\ plan' = [plan EXCEPT ![e] = p]
  /\ unreminded' = unreminded \cup {e}
  /\ UNCHANGED <<now, published, delivered, broker, scheduler, sender,
                 faults, copies, logged, lost>>

\* The statement rewrites the schedule and leaves both marks alone.
UpdateEvent(e, p) ==
  /\ e \in rows
  /\ p.end > p.start
  /\ plan' = [plan EXCEPT ![e] = p]
  /\ unreminded' = IF p.notify = plan[e].notify THEN unreminded
                   ELSE unreminded \cup {e}
  /\ UNCHANGED <<now, rows, used, published, delivered, broker, scheduler,
                 sender, faults, copies, logged, lost>>

\* Removing rows removes their marks.
RemoveRows(S) ==
  /\ rows' = rows \ S
  /\ published' = published \ S
  /\ delivered' = delivered \ S
  /\ plan' = [e \in Events |-> IF e \in S THEN NoPlan ELSE plan[e]]
  /\ unreminded' = unreminded \ S
  /\ UNCHANGED <<now, used, broker, scheduler, sender, faults, copies, logged,
                 lost>>

DeleteEvent(e) ==
  /\ e \in rows
  /\ RemoveRows({e})

----------------------------------------------------------------------------
(* The scheduler *)

\* Start-up up to the two loops: connect, declare, bind.
StartScheduler ==
  /\ sch = "down"
  /\ sch' = "idle"
  /\ schLink' = TRUE
  /\ UNCHANGED <<now, table, broker, batch, sent, sender, faults, history>>

\* A crash, or a stop at any step: the process forgets its batch.
StopScheduler ==
  /\ sch' = "down"
  /\ schLink' = FALSE
  /\ batch' = <<>>
  /\ sent' = {}

SchedulerCrash ==
  /\ sch # "down"
  /\ Fault("schedulerCrash")
  /\ StopScheduler
  /\ UNCHANGED <<now, table, broker, sender, history>>

\* Mutant: the rows are selected by date_start.
DeleteStartedEvents ==
  LET old == {e \in rows : plan[e].start + Retention < now} IN
  /\ sch # "down"
  /\ old # {}
  /\ RemoveRows(old)

\* The cleanup loop runs beside the notification loop, whatever it does.
DeleteOldEvents ==
  LET old == {e \in rows : plan[e].end + Retention < now} IN
  /\ sch # "down"
  /\ old # {}
  /\ RemoveRows(old)

\* A poll that finds nothing, or fails, changes nothing.
FetchPendingNotifications ==
  /\ sch = "idle"
  /\ Pending # {}
  /\ batch' \in OldestFirst(Pending)
  /\ sch' = "working"
  /\ UNCHANGED <<now, table, broker, schLink, sent, sender, faults, history>>

\* Publish hands a transient message to the socket, without a confirm.
Publish ==
  /\ sch = "working"
  /\ batch # <<>>
  /\ schLink
  /\ wire' = Append(wire, Head(batch))
  /\ sent' = sent \cup {Head(batch)}
  /\ copies' = [copies EXCEPT ![Head(batch)] = @ + 1]
  /\ batch' = Tail(batch)
  /\ UNCHANGED <<now, table, ready, sch, schLink, sender, faults, logged,
                 unreminded, lost>>

\* On a closed channel Publish fails; the loop logs it and goes on.
PublishFails ==
  /\ sch = "working"
  /\ batch # <<>>
  /\ ~schLink
  /\ batch' = Tail(batch)
  /\ UNCHANGED <<now, table, broker, sch, schLink, sent, sender, faults,
                 history>>

\* The end of a poll, reached with every publication attempted.
EndPoll ==
  /\ sch = "working"
  /\ batch = <<>>
  /\ sch' = "idle"
  /\ sent' = {}
  /\ UNCHANGED <<now, rows, used, plan, delivered, broker, schLink, batch,
                 sender, history>>

\* Mutant: the rows now pending are marked, not those published.
MarkPendingSent ==
  /\ EndPoll
  /\ published' = published \cup Pending
  /\ UNCHANGED faults

MarkNotificationsSent ==
  /\ EndPoll
  /\ published' = published \cup (sent \cap rows)
  /\ UNCHANGED faults

\* The statement fails, or commits and its answer is lost.
MarkNotificationsSentFails ==
  /\ sent # {}
  /\ EndPoll
  /\ published' \in {published, published \cup (sent \cap rows)}
  /\ Fault("markError")

\* Nothing reopens the channel before the process is restarted.
SchedulerLinkLoss ==
  /\ schLink
  /\ Fault("schedulerLinkLoss")
  /\ schLink' = FALSE
  /\ wire' = <<>>
  /\ lost' = lost \cup Range(wire)
  /\ UNCHANGED <<now, table, ready, sch, batch, sent, sender, copies, logged,
                 unreminded>>

----------------------------------------------------------------------------
(* The broker *)

\* The broker receives a message and routes it to the queue.
Enqueue ==
  /\ wire # <<>>
  /\ wire' = Tail(wire)
  /\ ready' = Append(ready, Head(wire))
  /\ UNCHANGED <<now, table, scheduler, sender, faults, history>>

\* No Qos: the consumer is never out of credit, so that the broker pushes
\* whatever the queue holds, without waiting for acknowledgements.
Deliver ==
  /\ sndLink
  /\ ready # <<>>
  /\ ready' = <<>>
  /\ inbox' = inbox \o ready
  /\ UNCHANGED <<now, table, wire, scheduler, snd, sndLink, faults, history>>

\* The queue is durable, the messages are not; the sender may still process
\* what it has received.
BrokerRestart ==
  /\ Fault("brokerRestart")
  /\ wire' = <<>>
  /\ ready' = <<>>
  /\ schLink' = FALSE
  /\ sndLink' = FALSE
  /\ lost' = lost \cup InFlight
  /\ UNCHANGED <<now, table, sch, batch, sent, snd, inbox, copies, logged,
                 unreminded>>

----------------------------------------------------------------------------
(* The sender *)

StartSender ==
  /\ snd = "down"
  /\ snd' = "idle"
  /\ sndLink' = TRUE
  /\ UNCHANGED <<now, table, broker, inbox, scheduler, faults, history>>

\* Mutant: consumed with autoAck.
ForgetUnacked(ms) == ready' = ready

\* What the broker does with unacknowledged messages when it loses their
\* consumer: it had them requeued already if the channel is closed.
Requeue(ms) == ready' = IF sndLink THEN ms \o ready ELSE ready

\* Mutant: the row is marked and the notification is not logged.
MarkWithoutLog ==
  /\ snd = "idle"
  /\ inbox # <<>>
  /\ Head(inbox) \in Events
  /\ snd' = "logged"
  /\ delivered' = delivered \cup ({Head(inbox)} \cap rows)
  /\ UNCHANGED <<now, rows, used, plan, published, broker, inbox, sndLink,
                 scheduler, faults, history>>

LogNotification ==
  /\ snd = "idle"
  /\ inbox # <<>>
  /\ Head(inbox) \in Events
  /\ snd' = "logged"
  /\ logged' = [logged EXCEPT ![Head(inbox)] = @ + 1]
  /\ unreminded' = unreminded \ {Head(inbox)}
  /\ UNCHANGED <<now, table, broker, inbox, sndLink, scheduler, faults, copies,
                 lost>>

\* A body that does not unmarshal goes back to the queue.
NackGarbage ==
  /\ snd = "idle"
  /\ inbox # <<>>
  /\ Head(inbox) \in Garbage
  /\ Requeue(<<Head(inbox)>>)
  /\ inbox' = Tail(inbox)
  /\ UNCHANGED <<now, table, wire, scheduler, snd, sndLink, faults, history>>

\* Mutant: the mark is upserted.
UpsertDelivered ==
  /\ snd = "logged"
  /\ snd' = "marked"
  /\ delivered' = delivered \cup {Head(inbox)}
  /\ UNCHANGED <<now, rows, used, plan, published, broker, inbox, sndLink,
                 scheduler, faults, history>>

\* UPDATE of a row that is gone changes nothing and is no error.
MarkDelivered ==
  /\ snd = "logged"
  /\ snd' = "marked"
  /\ delivered' = delivered \cup ({Head(inbox)} \cap rows)
  /\ UNCHANGED <<now, rows, used, plan, published, broker, inbox, sndLink,
                 scheduler, faults, history>>

MarkDeliveredFails ==
  /\ snd = "logged"
  /\ Fault("deliveredError")
  /\ delivered' \in {delivered, delivered \cup ({Head(inbox)} \cap rows)}
  /\ snd' = "idle"
  /\ Requeue(<<Head(inbox)>>)
  /\ inbox' = Tail(inbox)
  /\ UNCHANGED <<now, rows, used, plan, published, wire, sndLink, scheduler,
                 history>>

\* Mutant: NACK with requeue in place of ACK.
NackMarked ==
  /\ snd = "marked"
  /\ snd' = "idle"
  /\ Requeue(<<Head(inbox)>>)
  /\ inbox' = Tail(inbox)
  /\ UNCHANGED <<now, table, wire, sndLink, scheduler, faults, history>>

\* On a closed channel ACK fails; the sender logs it and goes on.
Ack ==
  /\ snd = "marked"
  /\ snd' = "idle"
  /\ inbox' = Tail(inbox)
  /\ UNCHANGED <<now, table, broker, sndLink, scheduler, faults, history>>

SenderCrash ==
  /\ snd # "down"
  /\ Fault("senderCrash")
  /\ Requeue(inbox)
  /\ snd' = "down"
  /\ sndLink' = FALSE
  /\ inbox' = <<>>
  /\ UNCHANGED <<now, table, wire, scheduler, history>>

\* The broker requeues; what the process holds stays readable for a while.
SenderLinkLoss ==
  /\ sndLink
  /\ Fault("senderLinkLoss")
  /\ Requeue(inbox)
  /\ sndLink' = FALSE
  /\ UNCHANGED <<now, table, wire, inbox, snd, scheduler, history>>

\* "Message channel closed": main returns and the supervisor restarts it.
SenderExit ==
  /\ snd = "idle"
  /\ ~sndLink
  /\ snd' = "down"
  /\ inbox' = <<>>
  /\ UNCHANGED <<now, table, broker, sndLink, scheduler, faults, history>>

----------------------------------------------------------------------------
(* The specification *)

ApiStep == \E e \in Events :
  \/ \E p \in Plans : CreateEvent(e, p) \/ UpdateEvent(e, p)
  \/ DeleteEvent(e)

SchedulerStep ==
  \/ StartScheduler \/ FetchPendingNotifications \/ Publish \/ PublishFails
  \/ MarkNotificationsSent

SenderStep ==
  \/ StartSender \/ LogNotification \/ NackGarbage \/ MarkDelivered \/ Ack
  \/ SenderExit

FaultStep ==
  \/ SchedulerCrash \/ MarkNotificationsSentFails \/ SchedulerLinkLoss
  \/ SenderCrash \/ MarkDeliveredFails \/ SenderLinkLoss \/ BrokerRestart

Next ==
  \/ Tick \/ DeleteOldEvents \/ ApiStep \/ SchedulerStep
  \/ Enqueue \/ Deliver \/ SenderStep \/ FaultStep

Spec == Init /\ [][Next]_vars

\* The ticker keeps polling, the supervisor restarts a process that is down,
\* the broker keeps routing and pushing, the consume loop keeps reading.
Fairness ==
  /\ WF_vars(SchedulerStep)
  /\ WF_vars(Enqueue)
  /\ WF_vars(Deliver)
  /\ WF_vars(SenderStep)

FairSpec == Spec /\ Fairness

----------------------------------------------------------------------------
(* Properties *)

\* A row marked published is delivered, or its message is still somewhere on
\* its way, or it was on the wire or in the broker when that failed: marking
\* after publishing, requeueing and acknowledging last forget nothing else,
\* whatever crashes or fails.
PublishedIsAccountedFor == published \subseteq delivered \cup InFlight \cup lost

\* A reminder is published once, plus once for each scheduler crash or failed
\* mark: nothing else (no update, restart of the sender, second poll) repeats.
SchedulerFaults == faults["schedulerCrash"] + faults["markError"]
CopiesNeedFaults == \A e \in Events : copies[e] <= 1 + SchedulerFaults

\* Each published copy is logged once, plus at most once for each fault that
\* makes the broker deliver it again.
SenderFaults ==
  faults["senderCrash"] + faults["deliveredError"] + faults["senderLinkLoss"]
RepeatsNeedFaults ==
  \A e \in Events : logged[e] <= copies[e] * (1 + SenderFaults)

\* notify_delivered_at is set only for a reminder that was logged, and logged
\* only what was published: no crash or retry sets the mark first.
DeliveredWasLogged ==
  \A e \in Events : (e \in delivered => logged[e] > 0)
                    /\ (logged[e] > 0 => copies[e] > 0)

\* The cleanup and the fetch query measure age by different ends of the event
\* and by different years.  The cleanup takes a row still to be published only
\* if its event is shorter than what the retention lacks of SQL's year: none if
\* it lacks nothing, one shorter than a day in a leap year.
PendingDeletedIsShort ==
  [][DeleteOldEvents =>
       \A e \in Pending \ rows' :
         plan[e].end - plan[e].start \in 1..(SqlYear - Retention - 1)]_vars

\* A scheduler that runs on a closed channel: nothing reopens it.
Deaf == sch # "down" /\ ~schLink

\* A due reminder is delivered, unless its event is deleted, moved or archived,
\* its message was lost, or the scheduler is left with a closed channel: no
\* batch limit, poison message or process stop starves it.
DueIsDelivered ==
  \A e \in Events : Owed(e) ~> (e \in delivered \cup lost \/ ~Owed(e) \/ Deaf)

\* A reminder moved to another time is logged again when that time comes.
RescheduledIsLogged ==
  \A e \in Events : (Owed(e) /\ e \in unreminded)
                      ~> (e \notin unreminded \/ ~Owed(e))
=============================================================================
