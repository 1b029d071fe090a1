--------------------------- MODULE RemindersProofs ---------------------------
(* What holds of the reminder pipeline for every set of events, every batch  *)
(* limit, every budget of faults and an unbounded clock.                     *)
EXTENDS Reminders, FiniteSetTheorems, TLAPS

----------------------------------------------------------------------------
(* Lemmas about sequences and batches *)

\* Removing the head of a non-empty sequence.
LEMMA TailFacts ==
  ASSUME NEW S, NEW s \in Seq(S), s # <<>>
  PROVE  /\ Tail(s) \in Seq(S)
         /\ Head(s) \in S
         /\ Range(s) = {Head(s)} \cup Range(Tail(s))
<1>1. /\ Len(s) \in Nat \ {0}
      /\ DOMAIN s = 1..Len(s)
      /\ s[1] = Head(s)
  OBVIOUS
<1>2. /\ Tail(s) \in Seq(S)
      /\ DOMAIN Tail(s) = 1..(Len(s) - 1)
      /\ \A i \in 1..(Len(s) - 1) : Tail(s)[i] = s[i + 1]
  OBVIOUS
<1>3. Head(s) \in S
  BY <1>1
<1>4. Range(s) \subseteq {Head(s)} \cup Range(Tail(s))
  <2> SUFFICES ASSUME NEW i \in 1..Len(s), i # 1
               PROVE  s[i] \in Range(Tail(s))
    BY <1>1 DEF Range
  <2>1. i - 1 \in 1..(Len(s) - 1) /\ Tail(s)[i - 1] = s[i]
    BY <1>1, <1>2
  <2> QED
    BY <2>1, <1>2 DEF Range
<1>5. {Head(s)} \cup Range(Tail(s)) \subseteq Range(s)
  <2>1. Head(s) \in Range(s)
    BY <1>1 DEF Range
  <2>2. ASSUME NEW i \in 1..(Len(s) - 1)
        PROVE  Tail(s)[i] \in Range(s)
    BY <1>1, <1>2, i + 1 \in 1..Len(s) DEF Range
  <2> QED
    BY <2>1, <2>2, <1>2 DEF Range
<1> QED
  BY <1>2, <1>3, <1>4, <1>5

\* Appending one element.
LEMMA AppendFacts ==
  ASSUME NEW S, NEW s \in Seq(S), NEW x \in S
  PROVE  /\ Append(s, x) \in Seq(S)
         /\ Range(Append(s, x)) = Range(s) \cup {x}
<1>1. /\ Append(s, x) \in Seq(S)
      /\ Len(s) \in Nat
      /\ DOMAIN s = 1..Len(s)
      /\ DOMAIN Append(s, x) = 1..(Len(s) + 1)
      /\ \A i \in 1..Len(s) : Append(s, x)[i] = s[i]
      /\ Append(s, x)[Len(s) + 1] = x
  OBVIOUS
<1>2. 1..(Len(s) + 1) = 1..Len(s) \cup {Len(s) + 1}
  BY <1>1
<1> QED
  BY <1>1, <1>2 DEF Range

\* Concatenating two sequences.
LEMMA ConcatFacts ==
  ASSUME NEW S, NEW s \in Seq(S), NEW t \in Seq(S)
  PROVE  /\ s \o t \in Seq(S)
         /\ Range(s \o t) = Range(s) \cup Range(t)
         /\ s # <<>> => s \o t # <<>> /\ Head(s \o t) = Head(s)
<1>1. /\ s \o t \in Seq(S)
      /\ Len(s) \in Nat /\ Len(t) \in Nat
      /\ DOMAIN s = 1..Len(s) /\ DOMAIN t = 1..Len(t)
      /\ DOMAIN (s \o t) = 1..(Len(s) + Len(t))
      /\ \A i \in 1..(Len(s) + Len(t)) :
           (s \o t)[i] = IF i <= Len(s) THEN s[i] ELSE t[i - Len(s)]
  OBVIOUS
<1>2. ASSUME NEW i \in 1..(Len(s) + Len(t))
      PROVE  (s \o t)[i] \in Range(s) \cup Range(t)
  <2>1. CASE i <= Len(s)
    BY <2>1, <1>1, i \in 1..Len(s) DEF Range
  <2>2. CASE ~(i <= Len(s))
    BY <2>2, <1>1, i - Len(s) \in 1..Len(t) DEF Range
  <2> QED
    BY <2>1, <2>2
<1>3. ASSUME NEW i \in 1..Len(s)
      PROVE  s[i] \in Range(s \o t)
  BY <1>1, i \in 1..(Len(s) + Len(t)) DEF Range
<1>4. ASSUME NEW i \in 1..Len(t)
      PROVE  t[i] \in Range(s \o t)
  <2>1. /\ i + Len(s) \in 1..(Len(s) + Len(t))
        /\ ~(i + Len(s) <= Len(s))
        /\ (i + Len(s)) - Len(s) = i
    BY <1>1
  <2> QED
    BY <2>1, <1>1 DEF Range
<1>5. Range(s \o t) \subseteq Range(s) \cup Range(t)
  BY <1>1, <1>2 DEF Range
<1>6. Range(s) \cup Range(t) \subseteq Range(s \o t)
  BY <1>1, <1>3, <1>4 DEF Range
<1>7. ASSUME s # <<>>
      PROVE  s \o t # <<>> /\ Head(s \o t) = Head(s)
  BY <1>1, <1>7, Len(s) > 0
<1> QED
  BY <1>1, <1>5, <1>6, <1>7

\* Every batch of a poll is a sequence of the selected rows without repetition.
LEMMA BatchFacts ==
  ASSUME NEW S \in SUBSET Events, NEW b \in OldestFirst(S)
  PROVE  /\ b \in Seq(S)
         /\ Range(b) \subseteq S
         /\ \A i, j \in 1..Len(b) : b[i] = b[j] => i = j
<1>1. IsFiniteSet(S)
  BY FS_Subset, DataAssumption DEF DataAssumption
<1>2. BatchSize(S) \in Nat
  BY <1>1, FS_CardinalityType, NumberAssumption DEF BatchSize
<1>3. b \in [1..BatchSize(S) -> S] /\ IsInjective(b)
  BY DEF OldestFirst
<1>4. b \in Seq(S) /\ Len(b) = BatchSize(S)
  BY <1>2, <1>3
<1> QED
  BY <1>3, <1>4 DEF Range, IsInjective

----------------------------------------------------------------------------
(* Type correctness *)

\* While the sender works on a message, it is the first one it holds.
HoldsMessage ==
  snd \in {"logged", "marked"} => inbox # <<>> /\ Head(inbox) \in Events

\* Requeueing keeps the queue a queue.
LEMMA RequeueType ==
  ASSUME TypeOK, NEW ms \in Seq(Message), Requeue(ms)
  PROVE  ready' \in Seq(Message)
BY ConcatFacts DEF TypeOK, Requeue

\* One more fault is still a count of faults.
LEMMA FaultType ==
  ASSUME TypeOK, NEW k \in FaultKinds, Fault(k)
  PROVE  faults' \in [FaultKinds -> Nat]
BY DEF TypeOK, Fault

\* Removing rows keeps the table well formed.
LEMMA RemoveRowsType ==
  ASSUME TypeOK, NEW S \in SUBSET Events, RemoveRows(S)
  PROVE  TypeOK'
<1>1. NoPlan \in Plan
  BY DEF NoPlan, Plan
<1> QED
  BY <1>1 DEF TypeOK, RemoveRows, broker, scheduler, sender

\* The pipeline starts well typed.
LEMMA InitType == Init => TypeOK
<1> SUFFICES ASSUME Init PROVE TypeOK
  OBVIOUS
<1>1. NoPlan \in Plan
  BY DEF NoPlan, Plan
<1>2. Cardinality(Garbage) \in Nat
  BY FS_CardinalityType, DataAssumption DEF DataAssumption
<1>3. ready \in Seq(Message)
  BY <1>2 DEF Init, Message
<1>4. /\ wire \in Seq(Events) /\ inbox \in Seq(Message)
      /\ batch \in Seq(Events)
  BY DEF Init
<1>5. plan \in [Events -> Plan]
  BY <1>1 DEF Init
<1> QED
  BY <1>3, <1>4, <1>5 DEF Init, TypeOK

\* Every step of the pipeline keeps the types.
LEMMA NextType == TypeOK /\ HoldsMessage /\ [Next]_vars => TypeOK'
<1> SUFFICES ASSUME TypeOK, HoldsMessage, [Next]_vars PROVE TypeOK'
  OBVIOUS
<1> USE DEF table, broker, scheduler, sender, history
<1>1. CASE Tick
  BY <1>1 DEF Tick, TypeOK
<1>2. ASSUME NEW e \in Events, NEW p \in Plans,
             CreateEvent(e, p) \/ UpdateEvent(e, p)
      PROVE  TypeOK'
  <2>1. p \in Plan
    BY DataAssumption DEF DataAssumption
  <2> QED
    BY <1>2, <2>1 DEF CreateEvent, UpdateEvent, TypeOK
<1>3. ASSUME NEW e \in Events, DeleteEvent(e)
      PROVE  TypeOK'
  BY <1>3, RemoveRowsType DEF DeleteEvent
<1>4. CASE DeleteOldEvents
  BY <1>4, RemoveRowsType DEF DeleteOldEvents, TypeOK
<1>5. CASE StartScheduler
  BY <1>5 DEF StartScheduler, TypeOK
<1>6. CASE FetchPendingNotifications
  <2>1. batch' \in Seq(Pending) /\ Pending \subseteq Events
    BY <1>6, BatchFacts DEF FetchPendingNotifications, Pending
  <2>2. batch' \in Seq(Events)
    BY <2>1
  <2> QED
    BY <1>6, <2>2 DEF FetchPendingNotifications, TypeOK
<1>7. CASE Publish
  <2>1. /\ Tail(batch) \in Seq(Events) /\ Head(batch) \in Events
        /\ Append(wire, Head(batch)) \in Seq(Events)
    BY <1>7, TailFacts, AppendFacts DEF Publish, TypeOK
  <2>2. /\ wire' \in Seq(Events) /\ batch' \in Seq(Events)
        /\ sent' \subseteq Events /\ copies' \in [Events -> Nat]
    BY <1>7, <2>1 DEF Publish, TypeOK
  <2>3. UNCHANGED <<now, table, ready, sch, schLink, sender, faults, logged,
                    unreminded, lost>>
    BY <1>7 DEF Publish
  <2> QED
    BY <2>2, <2>3 DEF TypeOK
<1>8. CASE PublishFails
  BY <1>8, TailFacts DEF PublishFails, TypeOK
<1>9. CASE MarkNotificationsSent
  BY <1>9 DEF MarkNotificationsSent, EndPoll, TypeOK
<1>10. CASE MarkNotificationsSentFails
  BY <1>10, FaultType DEF MarkNotificationsSentFails, EndPoll, TypeOK, FaultKinds
<1>11. CASE SchedulerCrash
  <2>1. faults' \in [FaultKinds -> Nat]
    BY <1>11, FaultType, "schedulerCrash" \in FaultKinds DEF SchedulerCrash, FaultKinds
  <2>2. batch' \in Seq(Events)
    BY <1>11 DEF SchedulerCrash, StopScheduler
  <2> QED
    BY <1>11, <2>1, <2>2 DEF SchedulerCrash, StopScheduler, TypeOK
<1>12. CASE SchedulerLinkLoss
  <2>1. faults' \in [FaultKinds -> Nat]
    BY <1>12, FaultType, "schedulerLinkLoss" \in FaultKinds DEF SchedulerLinkLoss, FaultKinds
  <2>2. wire' \in Seq(Events) /\ Range(wire) \subseteq Message
    BY <1>12 DEF SchedulerLinkLoss, TypeOK, Range, Message
  <2> QED
    BY <1>12, <2>1, <2>2 DEF SchedulerLinkLoss, TypeOK
<1>13. CASE Enqueue
  <2>1. /\ Tail(wire) \in Seq(Events) /\ Head(wire) \in Message
        /\ Append(ready, Head(wire)) \in Seq(Message)
    BY <1>13, TailFacts, AppendFacts DEF Enqueue, TypeOK, Message
  <2> QED
    BY <1>13, <2>1 DEF Enqueue, TypeOK
<1>14. CASE Deliver
  BY <1>14, ConcatFacts DEF Deliver, TypeOK
<1>15. CASE BrokerRestart
  <2>1. faults' \in [FaultKinds -> Nat]
    BY <1>15, FaultType, "brokerRestart" \in FaultKinds DEF BrokerRestart, FaultKinds
  <2>2. wire' \in Seq(Events) /\ ready' \in Seq(Message) /\ InFlight \subseteq Message
    BY <1>15 DEF BrokerRestart, TypeOK, InFlight, Range, Message
  <2> QED
    BY <1>15, <2>1, <2>2 DEF BrokerRestart, TypeOK
<1>16. CASE StartSender
  BY <1>16 DEF StartSender, TypeOK
<1>17. CASE LogNotification
  BY <1>17 DEF LogNotification, TypeOK
<1>18. CASE NackGarbage
  <2>1. Tail(inbox) \in Seq(Message) /\ <<Head(inbox)>> \in Seq(Message)
    BY <1>18, TailFacts DEF NackGarbage, TypeOK
  <2> QED
    BY <1>18, <2>1, RequeueType DEF NackGarbage, TypeOK
<1>19. CASE MarkDelivered
  BY <1>19 DEF MarkDelivered, TypeOK
<1>20. CASE MarkDeliveredFails
  <2>1. faults' \in [FaultKinds -> Nat]
    BY <1>20, FaultType DEF MarkDeliveredFails, FaultKinds
  <2>2. /\ Tail(inbox) \in Seq(Message) /\ <<Head(inbox)>> \in Seq(Message)
        /\ Head(inbox) \in Events
    BY <1>20, TailFacts DEF MarkDeliveredFails, TypeOK, HoldsMessage
  <2>3. ready' \in Seq(Message)
    BY <1>20, <2>2, RequeueType DEF MarkDeliveredFails
  <2> QED
    BY <1>20, <2>1, <2>2, <2>3 DEF MarkDeliveredFails, TypeOK
<1>21. CASE Ack
  BY <1>21, TailFacts DEF Ack, TypeOK, HoldsMessage
<1>22. CASE SenderCrash
  <2>1. faults' \in [FaultKinds -> Nat]
    BY <1>22, FaultType DEF SenderCrash, FaultKinds
  <2>2. ready' \in Seq(Message)
    BY <1>22, RequeueType DEF SenderCrash, TypeOK
  <2>3. inbox' \in Seq(Message)
    BY <1>22 DEF SenderCrash
  <2> QED
    BY <1>22, <2>1, <2>2, <2>3 DEF SenderCrash, TypeOK
<1>23. CASE SenderLinkLoss
  <2>1. faults' \in [FaultKinds -> Nat]
    BY <1>23, FaultType DEF SenderLinkLoss, FaultKinds
  <2>2. ready' \in Seq(Message)
    BY <1>23, RequeueType DEF SenderLinkLoss, TypeOK
  <2> QED
    BY <1>23, <2>1, <2>2 DEF SenderLinkLoss, TypeOK
<1>24. CASE SenderExit
  BY <1>24 DEF SenderExit, TypeOK
<1>25. CASE UNCHANGED vars
  BY <1>25 DEF vars, TypeOK
<1> QED
  BY <1>1, <1>2, <1>3, <1>4, <1>5, <1>6, <1>7, <1>8, <1>9, <1>10, <1>11,
     <1>12, <1>13, <1>14, <1>15, <1>16, <1>17, <1>18, <1>19, <1>20, <1>21,
     <1>22, <1>23, <1>24, <1>25
     DEF Next, ApiStep, SchedulerStep, SenderStep, FaultStep

\* Every step keeps the sender's hold on its message.
LEMMA NextHolds == TypeOK /\ HoldsMessage /\ [Next]_vars => HoldsMessage'
<1> SUFFICES ASSUME TypeOK, HoldsMessage, [Next]_vars PROVE HoldsMessage'
  OBVIOUS
<1> USE DEF HoldsMessage, sender
<1>1. CASE Deliver
  BY <1>1, ConcatFacts DEF Deliver, TypeOK
<1>2. CASE SenderStep
  BY <1>2 DEF SenderStep, StartSender, LogNotification, NackGarbage,
     MarkDelivered, Ack, SenderExit
<1>3. CASE SenderCrash \/ MarkDeliveredFails \/ SenderLinkLoss \/ BrokerRestart
  BY <1>3 DEF SenderCrash, MarkDeliveredFails, SenderLinkLoss, BrokerRestart
<1>4. CASE Tick \/ ApiStep \/ SchedulerStep \/ DeleteOldEvents \/ Enqueue
  BY <1>4 DEF Tick, ApiStep, CreateEvent, UpdateEvent, DeleteEvent,
     DeleteOldEvents, RemoveRows, SchedulerStep, StartScheduler,
     FetchPendingNotifications, Publish, PublishFails, MarkNotificationsSent,
     EndPoll, Enqueue
<1>5. CASE SchedulerCrash \/ MarkNotificationsSentFails \/ SchedulerLinkLoss
  BY <1>5 DEF SchedulerCrash, MarkNotificationsSentFails, EndPoll,
     SchedulerLinkLoss
<1>6. CASE UNCHANGED vars
  BY <1>6 DEF vars
<1> QED
  BY <1>1, <1>2, <1>3, <1>4, <1>5, <1>6 DEF Next, FaultStep

\* Rows, marks, queues and batches keep their types, whatever happens: marks
\* belong to rows, and every queue holds only messages.
THEOREM TypeCorrect == Spec => []TypeOK
<1>1. Init => TypeOK /\ HoldsMessage
  BY InitType DEF Init, HoldsMessage
<1>2. TypeOK /\ HoldsMessage /\ [Next]_vars => (TypeOK /\ HoldsMessage)'
  BY NextType, NextHolds
<1> QED
  BY <1>1, <1>2, PTL DEF Spec

----------------------------------------------------------------------------
(* One publication, and one more for each fault of the scheduler *)

\* A poll never repeats an event, and never takes up one that is marked.
BatchInv ==
  /\ sch # "working" => batch = <<>> /\ sent = {}
  /\ Range(batch) \subseteq used /\ sent \subseteq used
  /\ Range(batch) \cap (sent \cup published) = {}
  /\ \A i, j \in 1..Len(batch) : batch[i] = batch[j] => i = j

\* The first publication is still unspent for every event that a poll may
\* take up, or has taken up and not published yet.
FreshInv ==
  /\ \A e \in Events \ used : copies[e] = 0
  /\ \A e \in rows \ (published \cup sent) : copies[e] <= SchedulerFaults
  /\ \A e \in Range(batch) : copies[e] <= SchedulerFaults

CopiesInv == TypeOK /\ BatchInv /\ CopiesNeedFaults /\ FreshInv

\* The count of the scheduler's faults is a number.
LEMMA SchedulerFaultsType ==
  ASSUME TypeOK
  PROVE  SchedulerFaults \in Nat
<1>1. faults \in [FaultKinds -> Nat]
  BY DEF TypeOK
<1>2. "schedulerCrash" \in FaultKinds /\ "markError" \in FaultKinds
  BY DEF FaultKinds
<1> QED
  BY <1>1, <1>2 DEF SchedulerFaults

\* The inductive step of a step that leaves the poll, the marks and the
\* counters alone; rows may go, and a row may be added under a new ID.
LEMMA CopiesQuiet ==
  ASSUME CopiesInv, TypeOK',
         UNCHANGED <<sch, batch, sent, copies, faults>>,
         used \subseteq used',
         rows' \ rows \subseteq Events \ used,
         published' \subseteq published,
         rows' \cap published \subseteq published'
  PROVE  CopiesInv'
<1>1. BatchInv'
  BY DEF CopiesInv, BatchInv
<1>2. SchedulerFaults' = SchedulerFaults
  BY DEF SchedulerFaults
<1>3. CopiesNeedFaults'
  BY <1>2 DEF CopiesInv, CopiesNeedFaults
<1>4. /\ \A e \in Events \ used : copies[e] = 0
      /\ \A e \in rows \ (published \cup sent) : copies[e] <= SchedulerFaults
      /\ \A e \in Range(batch) : copies[e] <= SchedulerFaults
  BY DEF CopiesInv, FreshInv
<1>5. SchedulerFaults \in Nat
  BY SchedulerFaultsType DEF CopiesInv
<1>6. \A e \in Events \ used' : copies'[e] = 0
  BY <1>4
<1>8. ASSUME NEW e \in rows' \ (published' \cup sent')
      PROVE  copies'[e] <= SchedulerFaults'
  <2>1. CASE e \in rows
    <3>1. e \in rows \ (published \cup sent)
      BY <2>1, <1>8
    <3> QED
      BY <3>1, <1>2, <1>4
  <2>2. CASE e \notin rows
    <3>1. copies[e] = 0
      BY <2>2, <1>4, <1>8
    <3> QED
      BY <3>1, <1>2, <1>5
  <2> QED
    BY <2>1, <2>2
<1>9. \A e \in Range(batch') : copies'[e] <= SchedulerFaults'
  BY <1>2, <1>4
<1>10. FreshInv'
  BY <1>6, <1>8, <1>9 DEF FreshInv
<1> QED
  BY <1>1, <1>3, <1>10 DEF CopiesInv

\* Faults only grow, so that what the old count allowed is still allowed.
LEMMA CopiesFault ==
  ASSUME CopiesInv, NEW k \in FaultKinds, Fault(k)
  PROVE  /\ SchedulerFaults \in Nat /\ SchedulerFaults' \in Nat
         /\ SchedulerFaults' >= SchedulerFaults
         /\ k \in {"schedulerCrash", "markError"} =>
              SchedulerFaults' = SchedulerFaults + 1
<1>1. faults \in [FaultKinds -> Nat]
  BY DEF CopiesInv, TypeOK
<1>2. faults' = [faults EXCEPT ![k] = faults[k] + 1]
  BY DEF Fault
<1> DEFINE a == "schedulerCrash"
           b == "markError"
<1>3. a \in FaultKinds /\ b \in FaultKinds /\ a # b
  BY DEF FaultKinds
<1>4. faults[a] \in Nat /\ faults[b] \in Nat
  BY <1>1, <1>3
<1>5. /\ faults'[a] = IF k = a THEN faults[a] + 1 ELSE faults[a]
      /\ faults'[b] = IF k = b THEN faults[b] + 1 ELSE faults[b]
  BY <1>1, <1>2, <1>3
<1>6. SchedulerFaults = faults[a] + faults[b]
      /\ SchedulerFaults' = faults'[a] + faults'[b]
  BY DEF SchedulerFaults
<1> HIDE DEF a, b
<1>7. /\ SchedulerFaults \in Nat /\ SchedulerFaults' \in Nat
      /\ SchedulerFaults' >= SchedulerFaults
      /\ k \in {a, b} => SchedulerFaults' = SchedulerFaults + 1
  BY <1>3, <1>4, <1>5, <1>6
<1> QED
  BY <1>7 DEF a, b

\* A fault that makes the scheduler forget a poll allows one more copy of
\* everything.
LEMMA CopiesForgotten ==
  ASSUME CopiesInv, TypeOK', BatchInv',
         UNCHANGED <<used, copies>>,
         Range(batch') = {},
         SchedulerFaults' = SchedulerFaults + 1,
         SchedulerFaults \in Nat
  PROVE  CopiesInv'
<1>1. \A e \in Events : copies'[e] <= SchedulerFaults'
  BY DEF CopiesInv, CopiesNeedFaults
<1>2. rows' \subseteq Events /\ copies' \in [Events -> Nat]
  BY DEF TypeOK
<1>3. CopiesNeedFaults'
  BY <1>1, <1>2 DEF CopiesNeedFaults
<1>4. FreshInv'
  BY <1>1, <1>2 DEF FreshInv, CopiesInv
<1> QED
  BY <1>3, <1>4 DEF CopiesInv

\* Taking the first event off a batch.
LEMMA BatchTail ==
  ASSUME CopiesInv, batch # <<>>
  PROVE  /\ Head(batch) \in Events \cap Range(batch)
         /\ Head(batch) \notin Range(Tail(batch))
         /\ Range(Tail(batch)) \subseteq Range(batch)
         /\ \A i, j \in 1..Len(Tail(batch)) :
              Tail(batch)[i] = Tail(batch)[j] => i = j
<1>1. batch \in Seq(Events)
  BY DEF CopiesInv, TypeOK
<1>2. /\ Len(batch) \in Nat \ {0}
      /\ Head(batch) = batch[1]
      /\ Len(Tail(batch)) = Len(batch) - 1
      /\ DOMAIN Tail(batch) = 1..(Len(batch) - 1)
      /\ \A i \in 1..(Len(batch) - 1) :
           i + 1 \in 1..Len(batch) /\ Tail(batch)[i] = batch[i + 1]
  BY <1>1
<1>3. \A i, j \in 1..Len(batch) : batch[i] = batch[j] => i = j
  BY DEF CopiesInv, BatchInv
<1>4. \A i \in 1..(Len(batch) - 1) : Tail(batch)[i] # batch[1]
  BY <1>2, <1>3
<1>5. Head(batch) \notin Range(Tail(batch))
  BY <1>2, <1>4 DEF Range
<1>6. \A i, j \in 1..Len(Tail(batch)) : Tail(batch)[i] = Tail(batch)[j] => i = j
  BY <1>2, <1>3
<1> QED
  BY <1>1, <1>5, <1>6, TailFacts

\* Every step keeps the count of copies.
LEMMA NextCopies == CopiesInv /\ TypeOK' /\ [Next]_vars => CopiesInv'
<1> SUFFICES ASSUME CopiesInv, TypeOK', [Next]_vars PROVE CopiesInv'
  OBVIOUS
<1> USE DEF table, broker, scheduler, sender, history
<1>1. CASE Tick \/ ApiStep \/ DeleteOldEvents \/ Enqueue \/ Deliver
  <2>1. /\ UNCHANGED <<sch, batch, sent, copies, faults>>
        /\ used \subseteq used'
        /\ rows' \ rows \subseteq Events \ used
        /\ published' \subseteq published
        /\ rows' \cap published \subseteq published'
    BY <1>1 DEF Tick, ApiStep, CreateEvent, UpdateEvent, DeleteEvent,
       DeleteOldEvents, RemoveRows, Enqueue, Deliver
  <2> QED
    BY <2>1, CopiesQuiet
<1>2. CASE SenderStep
  BY <1>2, CopiesQuiet DEF SenderStep, StartSender, LogNotification, NackGarbage,
     MarkDelivered, Ack, SenderExit
<1>3. CASE StartScheduler
  BY <1>3 DEF StartScheduler, CopiesInv, BatchInv, FreshInv, CopiesNeedFaults,
     SchedulerFaults
<1>4. CASE FetchPendingNotifications
  <2>1. /\ Pending \subseteq rows \ published
        /\ Pending \subseteq Events
    BY DEF Pending, Owed
  <2>2. /\ Range(batch') \subseteq Pending
        /\ \A i, j \in 1..Len(batch') : batch'[i] = batch'[j] => i = j
    BY <1>4, <2>1, BatchFacts DEF FetchPendingNotifications
  <2>3. UNCHANGED <<rows, used, published, sent, copies, faults>>
        /\ sch' = "working" /\ sent = {}
    BY <1>4 DEF FetchPendingNotifications, CopiesInv, BatchInv
  <2>4. BatchInv'
    <3>1. Range(batch') \subseteq used /\ Range(batch') \cap published = {}
      BY <2>1, <2>2 DEF CopiesInv, TypeOK
    <3> QED
      BY <2>2, <2>3, <3>1 DEF BatchInv
  <2>5. FreshInv' /\ CopiesNeedFaults'
    <3>1. \A e \in Range(batch') : e \in rows \ (published \cup sent)
      BY <2>1, <2>2, <2>3
    <3> QED
      BY <2>3, <3>1
         DEF CopiesInv, FreshInv, SchedulerFaults, CopiesNeedFaults
  <2> QED
    BY <2>4, <2>5 DEF CopiesInv
<1>5. CASE Publish
  <2> DEFINE h == Head(batch)
  <2>1. /\ batch' = Tail(batch) /\ sent' = sent \cup {h} /\ sch = "working"
        /\ copies' = [copies EXCEPT ![h] = @ + 1]
        /\ UNCHANGED <<rows, used, published, sch, faults>>
    BY <1>5 DEF Publish
  <2>2. /\ h \in Events \cap Range(batch) /\ h \notin Range(batch')
        /\ Range(batch') \subseteq Range(batch)
        /\ \A i, j \in 1..Len(batch') : batch'[i] = batch'[j] => i = j
    BY <1>5, <2>1, BatchTail DEF Publish
  <2>3. BatchInv'
    BY <2>1, <2>2 DEF CopiesInv, BatchInv
  <2>4. /\ copies \in [Events -> Nat] /\ copies[h] <= SchedulerFaults
        /\ SchedulerFaults' = SchedulerFaults
        /\ SchedulerFaults \in Nat
    <3>1. SchedulerFaults' = SchedulerFaults
      BY <2>1 DEF SchedulerFaults
    <3>2. SchedulerFaults \in Nat
      BY SchedulerFaultsType DEF CopiesInv
    <3>3. copies[h] <= SchedulerFaults
      BY <2>2 DEF CopiesInv, FreshInv
    <3>4. copies \in [Events -> Nat]
      BY DEF CopiesInv, TypeOK
    <3> QED
      BY <3>1, <3>2, <3>3, <3>4
  <2>5. CopiesNeedFaults'
    BY <2>1, <2>2, <2>4 DEF CopiesInv, CopiesNeedFaults
  <2>6. FreshInv'
    <3>1. \A e \in Events : e # h => copies'[e] = copies[e]
      BY <2>1, <2>4
    <3>2. h \in used /\ used \subseteq Events /\ rows \subseteq used
      BY <2>2 DEF CopiesInv, BatchInv, TypeOK
    <3>3. \A e \in Range(batch') : e \in Events /\ e # h /\ e \in Range(batch)
      BY <2>2, <3>2 DEF CopiesInv, BatchInv
    <3> QED
      BY <2>1, <2>4, <3>1, <3>2, <3>3 DEF CopiesInv, FreshInv
  <2> QED
    BY <2>3, <2>5, <2>6 DEF CopiesInv
<1>6. CASE PublishFails
  <2>1. /\ batch' = Tail(batch) /\ batch # <<>>
        /\ UNCHANGED <<rows, used, published, sch, sent, faults, copies>>
        /\ sch = "working"
    BY <1>6 DEF PublishFails
  <2>2. /\ Range(batch') \subseteq Range(batch)
        /\ \A i, j \in 1..Len(batch') : batch'[i] = batch'[j] => i = j
    BY <2>1, BatchTail
  <2>3. BatchInv'
    BY <2>1, <2>2 DEF CopiesInv, BatchInv
  <2> QED
    BY <2>1, <2>2, <2>3
       DEF CopiesInv, FreshInv, CopiesNeedFaults, SchedulerFaults
<1>7. CASE MarkNotificationsSent
  <2>1. /\ published' = published \cup (sent \cap rows) /\ sent' = {}
        /\ batch = <<>> /\ sch' = "idle"
        /\ UNCHANGED <<rows, used, batch, copies, faults>>
    BY <1>7 DEF MarkNotificationsSent, EndPoll
  <2>2. Range(batch) = {}
    BY <2>1 DEF Range
  <2>3. BatchInv'
    BY <2>1, <2>2 DEF CopiesInv, BatchInv
  <2> QED
    BY <2>1, <2>2, <2>3
       DEF CopiesInv, FreshInv, CopiesNeedFaults, SchedulerFaults
<1>8. CASE MarkNotificationsSentFails
  <2>1. /\ published \subseteq published' /\ sent' = {}
        /\ published' \subseteq published \cup (sent \cap rows)
        /\ batch = <<>> /\ sch' = "idle"
        /\ UNCHANGED <<rows, used, batch, copies>>
        /\ Fault("markError")
    BY <1>8 DEF MarkNotificationsSentFails, EndPoll
  <2>2. Range(batch) = {}
    BY <2>1 DEF Range
  <2>3. BatchInv'
    BY <2>1, <2>2 DEF CopiesInv, BatchInv
  <2>4. SchedulerFaults' = SchedulerFaults + 1
        /\ SchedulerFaults \in Nat
    BY <2>1, CopiesFault DEF FaultKinds
  <2> QED
    BY <2>1, <2>2, <2>3, <2>4, CopiesForgotten
<1>9. CASE SchedulerCrash
  <2>1. /\ sch' = "down" /\ batch' = <<>> /\ sent' = {}
        /\ UNCHANGED <<rows, used, published, copies>>
        /\ Fault("schedulerCrash")
    BY <1>9 DEF SchedulerCrash, StopScheduler
  <2>2. Range(batch') = {}
    BY <2>1 DEF Range
  <2>3. BatchInv'
    BY <2>1, <2>2 DEF CopiesInv, BatchInv
  <2>4. SchedulerFaults' = SchedulerFaults + 1
        /\ SchedulerFaults \in Nat
    BY <2>1, CopiesFault DEF FaultKinds
  <2> QED
    BY <2>1, <2>2, <2>3, <2>4, CopiesForgotten
<1>10. ASSUME NEW k \in FaultKinds \ {"schedulerCrash", "markError"}, Fault(k),
              UNCHANGED <<rows, used, published, sch, batch, sent, copies>>
       PROVE  CopiesInv'
  <2>1. SchedulerFaults' = SchedulerFaults
    BY <1>10, k # "schedulerCrash", k # "markError"
       DEF CopiesInv, TypeOK, Fault, SchedulerFaults, FaultKinds
  <2>2. BatchInv'
    BY <1>10 DEF CopiesInv, BatchInv
  <2>3. CopiesNeedFaults'
    BY <1>10, <2>1 DEF CopiesInv, CopiesNeedFaults
  <2>4. FreshInv'
    BY <1>10, <2>1 DEF CopiesInv, FreshInv
  <2> QED
    BY <2>2, <2>3, <2>4 DEF CopiesInv
<1>11. CASE SchedulerLinkLoss
  BY <1>11, <1>10, "schedulerLinkLoss" \in FaultKinds
     DEF SchedulerLinkLoss, FaultKinds
<1>12. CASE BrokerRestart
  BY <1>12, <1>10 DEF BrokerRestart, FaultKinds
<1>13. CASE SenderCrash
  BY <1>13, <1>10 DEF SenderCrash, FaultKinds
<1>14. CASE MarkDeliveredFails
  BY <1>14, <1>10 DEF MarkDeliveredFails, FaultKinds
<1>15. CASE SenderLinkLoss
  BY <1>15, <1>10 DEF SenderLinkLoss, FaultKinds
<1>16. CASE UNCHANGED vars
  BY <1>16, CopiesQuiet DEF vars
<1> QED
  BY <1>1, <1>2, <1>3, <1>4, <1>5, <1>6, <1>7, <1>8, <1>9, <1>11, <1>12,
     <1>13, <1>14, <1>15, <1>16 DEF Next, SchedulerStep, FaultStep

\* The pipeline starts with no copies.
LEMMA InitCopies == Init => CopiesInv
<1> SUFFICES ASSUME Init PROVE CopiesInv
  OBVIOUS
<1>1. TypeOK
  BY InitType
<1>2. Range(batch) = {} /\ Len(batch) = 0
  BY DEF Init, Range
<1>3. SchedulerFaults = 0
  BY DEF Init, SchedulerFaults, FaultKinds
<1>4. \A e \in Events : copies[e] = 0
  BY DEF Init
<1> QED
  <2>1. BatchInv
    BY <1>2 DEF Init, BatchInv
  <2>2. FreshInv
    BY <1>2, <1>4 DEF Init, FreshInv
  <2>3. CopiesNeedFaults
    BY <1>3, <1>4 DEF CopiesNeedFaults
  <2> QED
    BY <1>1, <2>1, <2>2, <2>3 DEF CopiesInv

\* A reminder reaches the broker at most once, plus once for each crash of the
\* scheduler or failed mark, for any number of events, polls and updates.
THEOREM CopiesBounded == Spec => []CopiesNeedFaults
<1>1. Init => CopiesInv
  BY InitCopies
<1>2. TypeOK /\ HoldsMessage /\ CopiesInv /\ [Next]_vars => CopiesInv'
  BY NextType, NextCopies
<1>3. Init => TypeOK /\ HoldsMessage
  BY InitType DEF Init, HoldsMessage
<1>4. TypeOK /\ HoldsMessage /\ [Next]_vars => (TypeOK /\ HoldsMessage)'
  BY NextType, NextHolds
<1>5. CopiesInv => CopiesNeedFaults
  BY DEF CopiesInv
<1> QED
  BY <1>1, <1>2, <1>3, <1>4, <1>5, PTL DEF Spec

----------------------------------------------------------------------------
(* The cleanup and the notification loop *)

\* Every row satisfies the table's CHECK constraint.
DateCheck == \A e \in rows : plan[e].end > plan[e].start

\* Every step keeps the CHECK constraint.
LEMMA NextDateCheck == TypeOK /\ DateCheck /\ [Next]_vars => DateCheck'
<1> SUFFICES ASSUME TypeOK, DateCheck, [Next]_vars PROVE DateCheck'
  OBVIOUS
<1> USE DEF DateCheck, table, history
<1>1. ASSUME NEW e \in Events, NEW p \in Plans,
             CreateEvent(e, p) \/ UpdateEvent(e, p)
      PROVE  DateCheck'
  BY <1>1 DEF CreateEvent, UpdateEvent, TypeOK
<1>2. ASSUME NEW S, RemoveRows(S)
      PROVE  DateCheck'
  BY <1>2 DEF RemoveRows, TypeOK
<1>3. CASE UNCHANGED <<rows, plan>>
  BY <1>3
<1>4. CASE ApiStep \/ DeleteOldEvents
  BY <1>4, <1>1, <1>2 DEF ApiStep, DeleteEvent, DeleteOldEvents
<1>5. CASE Tick \/ SchedulerStep \/ Enqueue \/ Deliver \/ UNCHANGED vars
  BY <1>5, <1>3 DEF Tick, SchedulerStep, StartScheduler,
     FetchPendingNotifications, Publish, PublishFails, MarkNotificationsSent,
     EndPoll, Enqueue, Deliver, vars
<1>6. CASE SenderStep
  BY <1>6, <1>3 DEF SenderStep, StartSender, LogNotification, NackGarbage,
     MarkDelivered, Ack, SenderExit
<1>7. CASE FaultStep
  BY <1>7, <1>3 DEF FaultStep, SchedulerCrash, MarkNotificationsSentFails,
     EndPoll, SchedulerLinkLoss, SenderCrash, MarkDeliveredFails,
     SenderLinkLoss, BrokerRestart
<1> QED
  BY <1>4, <1>5, <1>6, <1>7 DEF Next

\* What a cleanup takes from the fetch query ended more than the retention ago
\* and began no more than SQL's year ago.
LEMMA CleanupTakesShort ==
  ASSUME TypeOK, DateCheck, DeleteOldEvents, NEW e \in Pending \ rows'
  PROVE  plan[e].end - plan[e].start \in 1..(SqlYear - Retention - 1)
<1>1. /\ e \in rows /\ plan[e].start + SqlYear >= now
      /\ plan[e].end + Retention < now
  BY DEF Pending, Owed, DeleteOldEvents, RemoveRows
<1>2. /\ plan[e].start \in Nat /\ plan[e].end \in Nat /\ now \in Nat
      /\ plan[e].end > plan[e].start
  BY <1>1 DEF TypeOK, Plan, DateCheck
<1> QED
  BY <1>1, <1>2, NumberAssumption DEF NumberAssumption

\* Whatever the two years are and however the two loops interleave with the
\* API, they compete for rows of short events only: for none if the retention
\* is at least the year of the query.
THEOREM CleanupIsBounded == Spec => PendingDeletedIsShort
<1>1. Init => TypeOK /\ HoldsMessage /\ DateCheck
  BY InitType DEF Init, HoldsMessage, DateCheck
<1>2. TypeOK /\ HoldsMessage /\ DateCheck /\ [Next]_vars
        => (TypeOK /\ HoldsMessage /\ DateCheck)'
  BY NextType, NextHolds, NextDateCheck
<1>3. TypeOK /\ HoldsMessage /\ DateCheck /\ [Next]_vars
        => [DeleteOldEvents =>
              \A e \in Pending \ rows' :
                plan[e].end - plan[e].start \in 1..(SqlYear - Retention - 1)]_vars
  BY CleanupTakesShort
<1> QED
  BY <1>1, <1>2, <1>3, PTL DEF Spec, PendingDeletedIsShort

----------------------------------------------------------------------------
(* No published reminder is forgotten *)

\* The messages that have not been acknowledged, lost ones included.
Reach == InFlight \cup lost

\* What is published, marked so or about to be, is delivered, on its way or
\* lost.
Accounted == published \cup (sent \cap rows) \subseteq delivered \cup Reach

\* Messages are about IDs the database has generated.
KnownInv == Reach \cap Events \subseteq used

\* What the sender is done with is delivered, if its row is still there; what
\* it holds without a connection is back in the queue, or lost with it.
SenderInv ==
  /\ snd = "marked" /\ Head(inbox) \in rows => Head(inbox) \in delivered
  /\ ~sndLink => Range(inbox) \subseteq Range(ready) \cup lost
  /\ snd = "down" => inbox = <<>> /\ ~sndLink

AccountInv == Accounted /\ KnownInv /\ SenderInv

\* The invariants already established, on which the argument rests.
BaseInv == TypeOK /\ HoldsMessage /\ CopiesInv

\* A step that keeps what the sender holds and does not take back a delivery
\* keeps the account, provided that no message disappears.
LEMMA AccountQuiet ==
  ASSUME BaseInv, AccountInv,
         UNCHANGED <<snd, sndLink, inbox>>,
         Range(ready) \subseteq Range(ready'),
         Reach \subseteq Reach',
         lost \subseteq lost',
         Reach' \cap Events \subseteq used',
         used \subseteq used',
         (rows' \ rows) \cap used = {},
         delivered \cap rows' \subseteq delivered',
         published' \subseteq rows',
         published' \cup (sent' \cap rows')
           \subseteq published \cup (sent \cap rows) \cup Reach'
  PROVE  AccountInv'
<1>1. Accounted'
  BY DEF AccountInv, Accounted
<1>2. KnownInv'
  BY DEF KnownInv
<1>3. SenderInv'
  <2>1. snd = "marked" => Head(inbox) \in used
    <3>1. SUFFICES ASSUME snd = "marked" PROVE Head(inbox) \in used
      OBVIOUS
    <3>2. inbox # <<>> /\ Head(inbox) \in Events /\ inbox \in Seq(Message)
      BY <3>1 DEF BaseInv, HoldsMessage, TypeOK
    <3>3. Head(inbox) \in Reach
      BY <3>2, TailFacts DEF InFlight, Reach
    <3> QED
      BY <3>2, <3>3 DEF AccountInv, KnownInv
  <2>2. snd = "marked" /\ Head(inbox) \in rows' => Head(inbox) \in delivered'
    <3>1. snd = "marked" /\ Head(inbox) \in rows => Head(inbox) \in delivered
      BY DEF AccountInv, SenderInv
    <3> QED
      BY <2>1, <3>1
  <2>3. ~sndLink => Range(inbox) \subseteq Range(ready') \cup lost'
    BY DEF AccountInv, SenderInv
  <2>4. snd = "down" => inbox = <<>> /\ ~sndLink
    BY DEF AccountInv, SenderInv
  <2> QED
    BY <2>2, <2>3, <2>4 DEF SenderInv
<1> QED
  BY <1>1, <1>2, <1>3 DEF AccountInv

\* The messages of a sender that gives up its first message, or all of them.
LEMMA RequeueFacts ==
  ASSUME BaseInv, AccountInv
  PROVE  /\ inbox # <<>> /\ Requeue(<<Head(inbox)>>)
              => Range(ready') \cup Range(Tail(inbox)) \cup lost
                   = Range(ready) \cup Range(inbox) \cup lost
         /\ Requeue(inbox)
              => Range(ready') \cup lost = Range(ready) \cup Range(inbox) \cup lost
<1>1. inbox \in Seq(Message) /\ ready \in Seq(Message)
  BY DEF BaseInv, TypeOK
<1>2. ~sndLink => Range(inbox) \subseteq Range(ready) \cup lost
  BY DEF AccountInv, SenderInv
<1>3. ASSUME inbox # <<>>, Requeue(<<Head(inbox)>>)
      PROVE  Range(ready') \cup Range(Tail(inbox)) \cup lost
               = Range(ready) \cup Range(inbox) \cup lost
  <2>1. Range(inbox) = {Head(inbox)} \cup Range(Tail(inbox)) /\ Head(inbox) \in Message
    BY <1>1, <1>3, TailFacts
  <2> DEFINE ms == <<Head(inbox)>>
  <2>2. ms \in Seq(Message) /\ DOMAIN ms = 1..1 /\ ms[1] = Head(inbox)
    BY <2>1
  <2>3. CASE sndLink
    <3>1. ready' = ms \o ready
      BY <1>3, <2>3 DEF Requeue
    <3> HIDE DEF ms
    <3>2. Range(ms) = {Head(inbox)}
      BY <2>2 DEF Range
    <3>3. Range(ready') = Range(ms) \cup Range(ready)
      BY <1>1, <2>2, <3>1, ConcatFacts
    <3> QED
      BY <2>1, <3>2, <3>3
  <2>4. CASE ~sndLink
    BY <1>2, <1>3, <2>1, <2>4 DEF Requeue
  <2> QED
    BY <2>3, <2>4
<1>4. ASSUME Requeue(inbox)
      PROVE  Range(ready') \cup lost = Range(ready) \cup Range(inbox) \cup lost
  BY <1>1, <1>2, <1>4, ConcatFacts DEF Requeue
<1> QED
  BY <1>3, <1>4

\* Every step keeps the account.
LEMMA NextAccount ==
  ASSUME BaseInv, AccountInv, BaseInv', [Next]_vars
  PROVE  AccountInv'
<1> USE DEF table, broker, scheduler, sender, history
<1>a. /\ wire \in Seq(Events) /\ ready \in Seq(Message) /\ inbox \in Seq(Message)
      /\ batch \in Seq(Events) /\ published \subseteq rows /\ rows \subseteq used
      /\ published' \subseteq rows' /\ used \subseteq Events /\ used' \subseteq Events
      /\ delivered \subseteq rows
  BY DEF BaseInv, TypeOK
<1>b. /\ sent \subseteq used /\ Range(batch) \subseteq used
  BY DEF BaseInv, CopiesInv, BatchInv
<1>c. /\ Reach \cap Events \subseteq used
      /\ published \cup (sent \cap rows) \subseteq delivered \cup Reach
  BY DEF AccountInv, KnownInv, Accounted
<1>1. CASE UNCHANGED <<rows, used, published, delivered, sent, wire, ready, sender,
                    lost>>
  BY <1>1, <1>c, <1>a, AccountQuiet DEF InFlight, Reach
<1>2. CASE ApiStep \/ DeleteOldEvents
  <2>1. /\ UNCHANGED <<broker, scheduler, sender, lost>>
        /\ used \subseteq used'
        /\ (rows' \ rows) \cap used = {}
        /\ delivered \cap rows' \subseteq delivered'
        /\ published' \subseteq published
    BY <1>2 DEF ApiStep, CreateEvent, UpdateEvent, DeleteEvent, DeleteOldEvents,
       RemoveRows
  <2> QED
    BY <2>1, <1>a, <1>b, <1>c, AccountQuiet DEF InFlight, Reach
<1>3. CASE Publish
  <2> DEFINE h == Head(batch)
  <2>1. /\ h \in Range(batch) /\ h \in Events
        /\ Range(wire') = Range(wire) \cup {h}
    BY <1>3, <1>a, TailFacts, AppendFacts DEF Publish
  <2>2. /\ sent' = sent \cup {h} /\ h \in used
        /\ UNCHANGED <<table, ready, sender, lost>>
    BY <1>3, <2>1, <1>b DEF Publish
  <2>3. Reach' = Reach \cup {h}
    BY <2>1, <2>2 DEF InFlight, Reach
  <2> QED
    BY <2>2, <2>3, <1>a, <1>c, AccountQuiet
<1>4. CASE MarkNotificationsSent \/ MarkNotificationsSentFails \/ SchedulerCrash
  <2>1. /\ UNCHANGED <<rows, used, delivered, broker, sender, lost>>
        /\ published' \subseteq published \cup (sent \cap rows)
        /\ sent' = {}
    BY <1>4 DEF MarkNotificationsSent, MarkNotificationsSentFails, EndPoll,
       SchedulerCrash, StopScheduler
  <2> QED
    BY <2>1, <1>a, <1>c, AccountQuiet DEF InFlight, Reach
<1>5. CASE Enqueue
  <2>1. /\ Head(wire) \in Message
        /\ Range(wire) = {Head(wire)} \cup Range(wire')
        /\ Range(ready') = Range(ready) \cup {Head(wire)}
    BY <1>5, <1>a, TailFacts, AppendFacts DEF Enqueue, Message
  <2>2. UNCHANGED <<table, scheduler, sender, lost>>
    BY <1>5 DEF Enqueue
  <2>3. Reach' = Reach
    BY <2>1, <2>2 DEF InFlight, Reach
  <2> QED
    BY <2>1, <2>2, <2>3, <1>a, <1>c, AccountQuiet
<1>6. CASE Deliver
  <2>1. /\ sndLink /\ Range(inbox') = Range(inbox) \cup Range(ready)
        /\ inbox # <<>> => Head(inbox') = Head(inbox)
        /\ UNCHANGED <<table, wire, sent, snd, sndLink, lost>>
        /\ Range(ready') = {}
    <3>1. Range(<<>>) = {}
      BY DEF Range
    <3> QED
      BY <1>6, <1>a, <3>1, ConcatFacts DEF Deliver
  <2>2. Reach' = Reach
    BY <2>1 DEF InFlight, Reach
  <2>3. snd = "marked" => inbox # <<>>
    BY DEF BaseInv, HoldsMessage
  <2>4. snd # "down"
    BY <2>1 DEF AccountInv, SenderInv
  <2> QED
    BY <2>1, <2>2, <2>3, <2>4 DEF AccountInv, Accounted, KnownInv, SenderInv
<1>7. CASE StartSender
  <2>1. /\ UNCHANGED <<table, broker, inbox, sent, lost>> /\ snd' = "idle" /\ sndLink'
    BY <1>7 DEF StartSender
  <2> QED
    BY <2>1 DEF AccountInv, Accounted, KnownInv, SenderInv, InFlight,
       Reach
<1>8. CASE LogNotification
  <2>1. /\ UNCHANGED <<table, broker, inbox, sndLink, sent, lost>> /\ snd' = "logged"
    BY <1>8 DEF LogNotification
  <2> QED
    BY <2>1 DEF AccountInv, Accounted, KnownInv, SenderInv, InFlight,
       Reach
<1>9. CASE MarkDelivered
  <2>1. /\ UNCHANGED <<rows, used, published, broker, inbox, sndLink, sent, lost>>
        /\ snd' = "marked"
        /\ delivered' = delivered \cup ({Head(inbox)} \cap rows)
    BY <1>9 DEF MarkDelivered
  <2> QED
    BY <2>1 DEF AccountInv, Accounted, KnownInv, SenderInv, InFlight,
       Reach
<1>10. CASE NackGarbage \/ MarkDeliveredFails
  <2>1. /\ UNCHANGED <<rows, used, published, wire, sndLink, sent, lost>>
        /\ snd' = "idle" /\ delivered \subseteq delivered'
        /\ inbox' = Tail(inbox) /\ Requeue(<<Head(inbox)>>)
    BY <1>10 DEF NackGarbage, MarkDeliveredFails
  <2>2. inbox # <<>>
    BY <1>10 DEF NackGarbage, MarkDeliveredFails, BaseInv, HoldsMessage
  <2>3. Reach' = Reach
    BY <2>1, <2>2, RequeueFacts DEF InFlight, Reach
  <2>4. ~sndLink' => Range(inbox') \subseteq Range(ready') \cup lost'
    <3>1. Range(inbox) = {Head(inbox)} \cup Range(inbox')
      BY <2>1, <2>2, <1>a, TailFacts
    <3> QED
      BY <2>1, <3>1 DEF AccountInv, SenderInv, Requeue
  <2> QED
    BY <2>1, <2>3, <2>4 DEF AccountInv, Accounted, KnownInv, SenderInv
<1>11. CASE Ack
  <2>1. /\ UNCHANGED <<table, broker, sndLink, sent, lost>>
        /\ snd = "marked" /\ snd' = "idle" /\ inbox' = Tail(inbox)
    BY <1>11 DEF Ack
  <2>2. Range(inbox) = {Head(inbox)} \cup Range(inbox')
    BY <2>1, <1>a, TailFacts DEF BaseInv, HoldsMessage
  <2>3. Head(inbox) \in rows => Head(inbox) \in delivered
    BY <2>1 DEF AccountInv, SenderInv
  <2>4. Reach' \subseteq Reach /\ Reach \subseteq Reach' \cup {Head(inbox)}
    BY <2>1, <2>2 DEF InFlight, Reach
  <2>5. Accounted' /\ KnownInv'
    BY <2>1, <2>3, <2>4, <1>a, <1>c DEF Accounted, KnownInv
  <2>6. SenderInv'
    BY <2>1, <2>2 DEF AccountInv, SenderInv
  <2> QED
    BY <2>5, <2>6 DEF AccountInv
<1>12. CASE SenderCrash
  <2>1. /\ UNCHANGED <<table, wire, sent, lost>> /\ Requeue(inbox)
        /\ snd' = "down" /\ ~sndLink' /\ inbox' = <<>> /\ Range(inbox') = {}
    BY <1>12 DEF SenderCrash, Range
  <2>2. Reach' = Reach
    BY <2>1, RequeueFacts DEF InFlight, Reach
  <2> QED
    BY <2>1, <2>2 DEF AccountInv, Accounted, KnownInv, SenderInv
<1>13. CASE SenderLinkLoss
  <2>1. /\ UNCHANGED <<table, wire, inbox, snd, sent, lost>> /\ Requeue(inbox)
        /\ ~sndLink'
    BY <1>13 DEF SenderLinkLoss
  <2>2. /\ Reach' = Reach /\ Range(inbox') \subseteq Range(ready') \cup lost'
    BY <2>1, RequeueFacts DEF InFlight, Reach
  <2> QED
    BY <2>1, <2>2 DEF AccountInv, Accounted, KnownInv, SenderInv
<1>14. CASE SenderExit
  <2>1. /\ UNCHANGED <<table, broker, sndLink, sent, lost>> /\ ~sndLink
        /\ snd' = "down" /\ inbox' = <<>> /\ Range(inbox') = {}
    BY <1>14 DEF SenderExit, Range
  <2>2. Range(inbox) \subseteq Range(ready) \cup lost
    BY <2>1 DEF AccountInv, SenderInv
  <2>3. Reach' = Reach
    BY <2>1, <2>2 DEF InFlight, Reach
  <2> QED
    BY <2>1, <2>3 DEF AccountInv, Accounted, KnownInv, SenderInv
<1>15. CASE SchedulerLinkLoss
  <2>1. /\ UNCHANGED <<table, ready, sent, sender>>
        /\ wire' = <<>> /\ Range(wire') = {} /\ lost' = lost \cup Range(wire)
    BY <1>15 DEF SchedulerLinkLoss, Range
  <2>2. Reach' = Reach
    BY <2>1 DEF InFlight, Reach
  <2> QED
    BY <2>1, <2>2, <1>a, <1>c, AccountQuiet
<1>16. CASE BrokerRestart
  <2>1. /\ UNCHANGED <<table, sent, snd, inbox>> /\ ~sndLink'
        /\ wire' = <<>> /\ ready' = <<>> /\ lost' = lost \cup InFlight
        /\ Range(wire') = {} /\ Range(ready') = {}
    BY <1>16 DEF BrokerRestart, Range
  <2>2. Reach' = Reach /\ Range(inbox') \subseteq lost'
    BY <2>1 DEF InFlight, Reach
  <2> QED
    BY <2>1, <2>2 DEF AccountInv, Accounted, KnownInv, SenderInv
<1>17. CASE Tick \/ StartScheduler \/ FetchPendingNotifications \/ PublishFails
            \/ UNCHANGED vars
  BY <1>17, <1>1 DEF Tick, StartScheduler, FetchPendingNotifications,
     PublishFails, vars
<1> QED
  BY <1>2, <1>3, <1>4, <1>5, <1>6, <1>7, <1>8, <1>9, <1>10, <1>11, <1>12,
     <1>13, <1>14, <1>15, <1>16, <1>17
     DEF Next, SchedulerStep, SenderStep, FaultStep

\* Whatever crashes, fails or is lost, a row marked published is delivered, or
\* its message is still on its way, or it was on the wire or in the broker when
\* that failed.
THEOREM NothingForgotten == Spec => []PublishedIsAccountedFor
<1> DEFINE Inv == BaseInv /\ AccountInv
<1>1. Init => BaseInv
  BY InitType, InitCopies DEF Init, HoldsMessage, BaseInv
<1>2. Init => AccountInv
  <2> SUFFICES ASSUME Init PROVE AccountInv
    OBVIOUS
  <2>1. Reach \cap Events = {}
    BY DataAssumption DEF DataAssumption, Init, InFlight, Reach, Range
  <2> QED
    BY <2>1 DEF Init, AccountInv, Accounted, KnownInv, SenderInv, Range
<1>3. Inv /\ [Next]_vars => Inv'
  <2> SUFFICES ASSUME Inv, [Next]_vars PROVE Inv'
    OBVIOUS
  <2>1. BaseInv'
    BY NextType, NextHolds, NextCopies DEF BaseInv
  <2>2. AccountInv'
    BY <2>1, NextAccount
  <2> QED
    BY <2>1, <2>2
<1>4. Inv => PublishedIsAccountedFor
  BY DEF AccountInv, Accounted, Reach, PublishedIsAccountedFor
<1> HIDE DEF Inv
<1>5. Init => Inv
  BY <1>1, <1>2 DEF Inv
<1> QED
  BY <1>3, <1>4, <1>5, PTL DEF Spec
----------------------------------------------------------------------------
(* The marks come in order *)

\* What is logged was published, what is on its way was published, and the
\* message the sender has logged is counted as logged.
LoggedInv ==
  /\ DeliveredWasLogged
  /\ \A e \in Events \cap InFlight : copies[e] > 0
  /\ snd \in {"logged", "marked"} => logged[Head(inbox)] > 0

\* A step that neither logs nor marks a delivery keeps the order.
LEMMA LoggedQuiet ==
  ASSUME TypeOK, LoggedInv,
         logged' = logged, delivered' \subseteq delivered,
         \A e \in Events : copies[e] > 0 => copies'[e] > 0,
         \A e \in Events \cap InFlight' : e \in InFlight \/ copies'[e] > 0,
         snd' \in {"logged", "marked"}
           => snd \in {"logged", "marked"} /\ Head(inbox') = Head(inbox)
  PROVE  LoggedInv'
BY DEF LoggedInv, DeliveredWasLogged, TypeOK

\* Every step keeps the order.
LEMMA NextLogged ==
  ASSUME TypeOK, HoldsMessage, LoggedInv, [Next]_vars
  PROVE  LoggedInv'
<1> USE DEF table, broker, scheduler, sender, history
<1>a. /\ wire \in Seq(Events) /\ ready \in Seq(Message) /\ inbox \in Seq(Message)
      /\ batch \in Seq(Events)
  BY DEF TypeOK
<1>1. CASE UNCHANGED <<logged, copies, wire, ready, inbox, snd>>
           /\ delivered' \subseteq delivered
  BY <1>1, LoggedQuiet DEF InFlight
<1>2. CASE Publish
  <2> DEFINE h == Head(batch)
  <2>1. /\ h \in Events /\ Range(wire') = Range(wire) \cup {h}
    BY <1>2, <1>a, TailFacts, AppendFacts DEF Publish
  <2>2. /\ copies' = [copies EXCEPT ![h] = @ + 1]
        /\ UNCHANGED <<ready, inbox, snd, logged, delivered>>
    BY <1>2 DEF Publish
  <2>3. \A e \in Events : copies'[e] >= copies[e] /\ copies[e] \in Nat
    BY <2>1, <2>2 DEF TypeOK
  <2>4. copies'[h] > 0
    BY <2>1, <2>2 DEF TypeOK
  <2>5. InFlight' = InFlight \cup {h}
    BY <2>1, <2>2 DEF InFlight
  <2> QED
    BY <2>1, <2>2, <2>3, <2>4, <2>5, LoggedQuiet
<1>3. CASE Enqueue
  <2>1. /\ Head(wire) \in Message
        /\ Range(wire) = {Head(wire)} \cup Range(wire')
        /\ Range(ready') = Range(ready) \cup {Head(wire)}
    BY <1>3, <1>a, TailFacts, AppendFacts DEF Enqueue, Message
  <2>2. UNCHANGED <<delivered, inbox, snd, copies, logged>>
    BY <1>3 DEF Enqueue
  <2>3. InFlight' = InFlight
    BY <2>1, <2>2 DEF InFlight
  <2> QED
    BY <2>2, <2>3, LoggedQuiet
<1>4. CASE Deliver
  <2>1. /\ Range(inbox') = Range(inbox) \cup Range(ready)
        /\ inbox # <<>> => Head(inbox') = Head(inbox)
        /\ UNCHANGED <<delivered, wire, snd, copies, logged>>
        /\ Range(ready') = {}
    <3>1. Range(<<>>) = {}
      BY DEF Range
    <3> QED
      BY <1>4, <1>a, <3>1, ConcatFacts DEF Deliver
  <2>2. InFlight' = InFlight
    BY <2>1 DEF InFlight
  <2> QED
    BY <2>1, <2>2, LoggedQuiet DEF HoldsMessage
<1>5. CASE BrokerRestart \/ SchedulerLinkLoss
  <2>1. /\ Range(wire') = {} /\ Range(ready') \subseteq Range(ready)
        /\ UNCHANGED <<delivered, inbox, snd, copies, logged>>
    BY <1>5 DEF BrokerRestart, SchedulerLinkLoss, Range
  <2>2. InFlight' \subseteq InFlight
    BY <2>1 DEF InFlight
  <2> QED
    BY <2>1, <2>2, LoggedQuiet
<1>6. CASE LogNotification
  <2> DEFINE h == Head(inbox)
  <2>1. /\ snd' = "logged" /\ h \in Events /\ h \in Range(inbox)
        /\ logged' = [logged EXCEPT ![h] = @ + 1]
        /\ UNCHANGED <<delivered, wire, ready, inbox, copies>>
    BY <1>6, <1>a, TailFacts DEF LogNotification
  <2>2. copies[h] > 0
    BY <2>1 DEF LoggedInv, InFlight
  <2>3. logged'[h] > 0 /\ \A e \in Events : e # h => logged'[e] = logged[e]
    BY <2>1 DEF TypeOK
  <2>4. InFlight' = InFlight
    BY <2>1 DEF InFlight
  <2>5. DeliveredWasLogged'
    BY <2>1, <2>2, <2>3 DEF LoggedInv, DeliveredWasLogged
  <2> QED
    BY <2>1, <2>3, <2>4, <2>5 DEF LoggedInv
<1>7. CASE MarkDelivered \/ MarkDeliveredFails \/ NackGarbage
  <2> DEFINE h == Head(inbox)
  <2>1. /\ UNCHANGED <<wire, copies, logged>>
        /\ snd' = "marked" => inbox' = inbox
        /\ snd' \in {"idle", "marked"}
        /\ \/ UNCHANGED <<ready, inbox>>
           \/ Requeue(<<h>>) /\ inbox' = Tail(inbox)
        /\ \/ delivered' = delivered
           \/ snd = "logged" /\ delivered' \subseteq delivered \cup {h}
        /\ inbox # <<>>
        /\ snd' = "marked" => snd = "logged"
    BY <1>7 DEF MarkDelivered, MarkDeliveredFails, NackGarbage, HoldsMessage
  <2>2. Range(inbox) = {h} \cup Range(Tail(inbox)) /\ h \in Message
    BY <2>1, <1>a, TailFacts
  <2>3. Range(ready') \subseteq Range(ready) \cup Range(inbox)
    <3> DEFINE ms == <<h>>
    <3>1. ms \in Seq(Message) /\ Range(ms) = {h}
      BY <2>2 DEF Range
    <3>2. Requeue(ms) => ready' = ms \o ready \/ ready' = ready
      BY DEF Requeue
    <3> HIDE DEF ms
    <3>3. Range(ms \o ready) = Range(ms) \cup Range(ready)
      BY <3>1, <1>a, ConcatFacts
    <3>4. Requeue(ms) => Range(ready') \subseteq Range(ms) \cup Range(ready)
      BY <3>2, <3>3
    <3> QED
      BY <2>1, <2>2, <3>1, <3>4 DEF ms
  <2>4. InFlight' \subseteq InFlight
    BY <2>1, <2>2, <2>3 DEF InFlight
  <2>5. DeliveredWasLogged'
    BY <2>1 DEF LoggedInv, DeliveredWasLogged
  <2> QED
    BY <2>1, <2>4, <2>5 DEF LoggedInv
<1>8. CASE StartSender \/ Ack \/ SenderExit
  <2>1. /\ UNCHANGED <<wire, ready, copies, logged, delivered>>
        /\ snd' \in {"idle", "down"}
        /\ Range(inbox') \subseteq Range(inbox)
    <3>1. CASE Ack
      BY <3>1, <1>a, TailFacts DEF Ack, HoldsMessage
    <3> QED
      BY <1>8, <3>1 DEF StartSender, SenderExit, Range
  <2>2. InFlight' \subseteq InFlight
    BY <2>1 DEF InFlight
  <2> QED
    BY <2>1, <2>2, LoggedQuiet
<1>9. CASE SenderCrash \/ SenderLinkLoss
  <2>1. /\ UNCHANGED <<wire, copies, logged, delivered>> /\ Requeue(inbox)
        /\ snd' = "down" \/ UNCHANGED <<snd, inbox>>
        /\ Range(inbox') \subseteq Range(inbox)
    BY <1>9 DEF SenderCrash, SenderLinkLoss, Range
  <2>2. Range(ready') \subseteq Range(inbox) \cup Range(ready)
    BY <2>1, <1>a, ConcatFacts DEF Requeue
  <2>3. InFlight' \subseteq InFlight
    BY <2>1, <2>2 DEF InFlight
  <2> QED
    BY <2>1, <2>3, LoggedQuiet
<1>10. CASE Tick \/ ApiStep \/ DeleteOldEvents \/ UNCHANGED vars
  BY <1>10, <1>1 DEF Tick, ApiStep, CreateEvent, UpdateEvent, DeleteEvent,
     DeleteOldEvents, RemoveRows, vars
<1>11. CASE \/ StartScheduler \/ FetchPendingNotifications \/ PublishFails
            \/ MarkNotificationsSent \/ MarkNotificationsSentFails
            \/ SchedulerCrash
  BY <1>11, <1>1 DEF StartScheduler, FetchPendingNotifications, PublishFails,
     MarkNotificationsSent, MarkNotificationsSentFails, EndPoll,
     SchedulerCrash, StopScheduler
<1> QED
  BY <1>2, <1>3, <1>4, <1>5, <1>6, <1>7, <1>8, <1>9, <1>10, <1>11
     DEF Next, SchedulerStep, SenderStep, FaultStep

\* notify_delivered_at is never set before the reminder was logged, and nothing
\* is logged that was not published, on any path through crashes and retries.
THEOREM MarksComeInOrder == Spec => []DeliveredWasLogged
<1> DEFINE Inv == TypeOK /\ HoldsMessage /\ LoggedInv
<1>1. Init => Inv
  <2> SUFFICES ASSUME Init PROVE Inv
    OBVIOUS
  <2>1. InFlight \cap Events = {}
    BY DataAssumption DEF DataAssumption, Init, InFlight, Range
  <2> QED
    BY <2>1, InitType DEF Init, HoldsMessage, LoggedInv, DeliveredWasLogged
<1>2. Inv /\ [Next]_vars => Inv'
  BY NextType, NextHolds, NextLogged
<1>3. Inv => DeliveredWasLogged
  BY DEF LoggedInv
<1> HIDE DEF Inv
<1> QED
  BY <1>1, <1>2, <1>3, PTL DEF Spec
----------------------------------------------------------------------------
(* One log for each copy, and one more for each fault of the sender *)

\* How often e is in s.
Times(s, e) == Cardinality({i \in DOMAIN s : s[i] = e})

\* The copies of e that can still be delivered, once more or for the first
\* time; what a sender without a channel holds has been requeued.
Deliverable(e) ==
  Times(wire, e) + Times(ready, e) + (IF sndLink THEN Times(inbox, e) ELSE 0)

\* The message the sender works on has been logged.
Done(e) == IF snd \in {"logged", "marked"} /\ Head(inbox) = e THEN 1 ELSE 0

\* The logs that no further fault is needed for.
Loggable(e) ==
  Times(wire, e) + Times(ready, e) + Times(inbox, e) - Done(e)

\* A fault repeats what can be delivered at most once.
LogInv ==
  /\ snd = "down" => ~sndLink /\ inbox = <<>>
  /\ \A e \in Events : Deliverable(e) <= copies[e]
  /\ \A e \in Events :
       logged[e] + Loggable(e) <= copies[e] * (1 + SenderFaults)

\* A number of places.
LEMMA TimesType ==
  ASSUME NEW S, NEW s \in Seq(S), NEW e
  PROVE  /\ IsFiniteSet({i \in DOMAIN s : s[i] = e})
         /\ Times(s, e) \in Nat
<1>1. Len(s) \in Nat /\ DOMAIN s = 1..Len(s)
  OBVIOUS
<1>2. IsFiniteSet(1..Len(s))
  BY <1>1, FS_Interval
<1>3. IsFiniteSet({i \in DOMAIN s : s[i] = e})
  BY <1>1, <1>2, FS_Subset
<1> QED
  BY <1>3, FS_CardinalityType DEF Times

\* What is in two sequences is in their concatenation as often as in both.
LEMMA TimesConcat ==
  ASSUME NEW S, NEW s \in Seq(S), NEW t \in Seq(S), NEW e
  PROVE  Times(s \o t, e) = Times(s, e) + Times(t, e)
<1> DEFINE A == {i \in DOMAIN s : s[i] = e}
           B == {i \in DOMAIN t : t[i] = e}
           C == {i \in DOMAIN (s \o t) : (s \o t)[i] = e}
           n == Len(s)
           D == {n + i : i \in B}
<1>1. /\ n \in Nat /\ Len(t) \in Nat
      /\ DOMAIN s = 1..n /\ DOMAIN t = 1..Len(t)
      /\ DOMAIN (s \o t) = 1..(n + Len(t))
      /\ \A i \in 1..(n + Len(t)) :
           (s \o t)[i] = IF i <= n THEN s[i] ELSE t[i - n]
  OBVIOUS
<1>2. IsFiniteSet(A) /\ IsFiniteSet(B)
  BY TimesType
<1>3. C = A \cup D
  <2>1. ASSUME NEW i \in C PROVE i \in A \cup D
    <3>1. CASE i <= n
      BY <1>1, <3>1
    <3>2. CASE ~(i <= n)
      <4>1. i - n \in B /\ i = n + (i - n)
        BY <1>1, <3>2
      <4> QED
        BY <4>1
    <3> QED
      BY <3>1, <3>2
  <2>2. ASSUME NEW i \in A PROVE i \in C
    BY <1>1
  <2>3. ASSUME NEW i \in B PROVE n + i \in C
    <3>1. n + i \in 1..(n + Len(t)) /\ ~(n + i <= n) /\ (n + i) - n = i
      BY <1>1
    <3> QED
      BY <1>1, <3>1
  <2> QED
    BY <2>1, <2>2, <2>3
<1>4. A \cap D = {}
  BY <1>1
<1>5. IsFiniteSet(D) /\ Cardinality(D) = Cardinality(B)
  <2> DEFINE f == [i \in B |-> n + i]
  <2>1. \A i \in B : i \in Nat
    BY <1>1
  <2>2. f \in Bijection(B, D)
    BY <1>1, <2>1 DEF Bijection, Injection, Surjection, IsInjective
  <2> QED
    BY <1>2, <2>2, FS_Bijection DEF ExistsBijection
<1>6. Cardinality(A) \in Nat /\ Cardinality(B) \in Nat
  BY <1>2, FS_CardinalityType
<1> HIDE DEF A, B, C, D, n
<1>7. Cardinality(A \cup D) = Cardinality(A) + Cardinality(D) - Cardinality(A \cap D)
  BY <1>2, <1>5, FS_Union
<1>8. Cardinality(A \cap D) = 0 /\ Cardinality(C) = Cardinality(A \cup D)
  BY <1>3, <1>4, FS_EmptySet, Zenon
<1>9. Cardinality(C) = Cardinality(A) + Cardinality(B)
  BY <1>5, <1>6, <1>7, <1>8
<1> QED
  BY <1>9 DEF Times, A, B, C

\* In one message, and in none.
LEMMA TimesOne ==
  /\ \A e : Times(<<>>, e) = 0
  /\ \A x, e : Times(<<x>>, e) = IF x = e THEN 1 ELSE 0
<1>1. ASSUME NEW e PROVE Times(<<>>, e) = 0
  <2>1. {i \in DOMAIN <<>> : <<>>[i] = e} = {}
    OBVIOUS
  <2> QED
    BY <2>1, FS_EmptySet DEF Times
<1>2. ASSUME NEW x, NEW e PROVE Times(<<x>>, e) = IF x = e THEN 1 ELSE 0
  <2>1. {i \in DOMAIN <<x>> : <<x>>[i] = e} = IF x = e THEN {1} ELSE {}
    OBVIOUS
  <2> QED
    BY <2>1, FS_EmptySet, FS_Singleton DEF Times
<1> QED
  BY <1>1, <1>2

\* One more at the end.
LEMMA TimesAppend ==
  ASSUME NEW S, NEW s \in Seq(S), NEW x \in S, NEW e
  PROVE  Times(Append(s, x), e) = Times(s, e) + (IF x = e THEN 1 ELSE 0)
<1>1. <<x>> \in Seq(S) /\ Append(s, x) = s \o <<x>>
  OBVIOUS
<1>2. Times(s \o <<x>>, e) = Times(s, e) + Times(<<x>>, e)
  BY <1>1, TimesConcat
<1>3. Times(Append(s, x), e) = Times(s \o <<x>>, e)
  BY <1>1, Zenon
<1>4. Times(<<x>>, e) = IF x = e THEN 1 ELSE 0
  BY TimesOne
<1> QED
  BY <1>2, <1>3, <1>4

\* One less at the front.
LEMMA TimesTail ==
  ASSUME NEW S, NEW s \in Seq(S), s # <<>>, NEW e
  PROVE  /\ Times(s, e) = (IF Head(s) = e THEN 1 ELSE 0) + Times(Tail(s), e)
         /\ Times(Tail(s), e) \in Nat
<1>1. <<Head(s)>> \in Seq(S) /\ Tail(s) \in Seq(S) /\ s = <<Head(s)>> \o Tail(s)
  OBVIOUS
<1>2. Times(<<Head(s)>> \o Tail(s), e) = Times(<<Head(s)>>, e) + Times(Tail(s), e)
  BY <1>1, TimesConcat
<1> QED
  BY <1>1, <1>2, TimesOne, TimesType

\* What one more copy, or one more fault, adds to the bound.
LEMMA Product ==
  ASSUME NEW c \in Nat, NEW f \in Nat
  PROVE  /\ c * (1 + f) \in Nat
         /\ (c + 1) * (1 + f) = c * (1 + f) + 1 + f
         /\ c * (1 + (f + 1)) = c * (1 + f) + c
OBVIOUS

\* The count of the sender's faults is a number, and grows with each of them.
LEMMA SenderFaultsType ==
  ASSUME TypeOK
  PROVE  /\ SenderFaults \in Nat
         /\ \A k \in {"senderCrash", "deliveredError", "senderLinkLoss"} :
              Fault(k) => SenderFaults' = SenderFaults + 1
         /\ \A k \in FaultKinds \ {"senderCrash", "deliveredError", "senderLinkLoss"} :
              Fault(k) => SenderFaults' = SenderFaults
<1> DEFINE a == "senderCrash"
           b == "deliveredError"
           c == "senderLinkLoss"
<1>1. /\ faults \in [FaultKinds -> Nat]
      /\ a \in FaultKinds /\ b \in FaultKinds /\ c \in FaultKinds
      /\ a # b /\ a # c /\ b # c
  BY DEF TypeOK, FaultKinds
<1>2. SenderFaults = faults[a] + faults[b] + faults[c]
      /\ SenderFaults' = faults'[a] + faults'[b] + faults'[c]
  BY DEF SenderFaults
<1> HIDE DEF a, b, c
<1>3. faults[a] \in Nat /\ faults[b] \in Nat /\ faults[c] \in Nat
  BY <1>1
<1>4. ASSUME NEW k \in FaultKinds, Fault(k)
      PROVE  \A j \in FaultKinds :
               faults'[j] = IF j = k THEN faults[j] + 1 ELSE faults[j]
  BY <1>1, <1>4 DEF Fault
<1>5. ASSUME NEW k \in {a, b, c}, Fault(k)
      PROVE  SenderFaults' = SenderFaults + 1
  BY <1>1, <1>2, <1>3, <1>4, <1>5
<1>6. ASSUME NEW k \in FaultKinds \ {a, b, c}, Fault(k)
      PROVE  SenderFaults' = SenderFaults
  BY <1>1, <1>2, <1>3, <1>4, <1>6
<1> QED
  BY <1>2, <1>3, <1>5, <1>6 DEF a, b, c

\* The numbers of LogInv are numbers.
LEMMA LogTypes ==
  ASSUME TypeOK, NEW e \in Events
  PROVE  /\ Times(wire, e) \in Nat /\ Times(ready, e) \in Nat /\ Times(inbox, e) \in Nat
         /\ copies[e] \in Nat /\ logged[e] \in Nat
         /\ Done(e) \in {0, 1}
BY TimesType DEF TypeOK, Done

\* A step that is no fault of the sender and adds nothing that can be logged.
LEMMA LogQuiet ==
  ASSUME TypeOK, TypeOK', LogInv, UNCHANGED <<copies, logged>>,
         SenderFaults' = SenderFaults,
         snd' = "down" => ~sndLink' /\ inbox' = <<>>,
         \A e \in Events : /\ Deliverable(e)' <= Deliverable(e)
                           /\ Loggable(e)' <= Loggable(e)
  PROVE  LogInv'
<1>1. ASSUME NEW e \in Events
      PROVE  /\ Deliverable(e)' <= copies'[e]
             /\ logged'[e] + Loggable(e)' <= copies'[e] * (1 + SenderFaults')
  <2>1. /\ Deliverable(e) \in Int /\ Deliverable(e)' \in Int
        /\ Loggable(e) \in Int /\ Loggable(e)' \in Int
    <3>1. /\ Times(wire', e) \in Nat /\ Times(ready', e) \in Nat
          /\ Times(inbox', e) \in Nat
      BY TimesType DEF TypeOK
    <3>2. Done(e)' \in {0, 1}
      BY DEF Done
    <3>3. Deliverable(e)' \in Int /\ Loggable(e)' \in Int
      BY <3>1, <3>2 DEF Deliverable, Loggable
    <3>4. Deliverable(e) \in Int /\ Loggable(e) \in Int
      BY LogTypes DEF Deliverable, Loggable
    <3> QED
      BY <3>3, <3>4
  <2>2. /\ copies[e] \in Nat /\ logged[e] \in Nat /\ SenderFaults \in Nat
        /\ copies[e] * (1 + SenderFaults) \in Nat
    BY LogTypes, SenderFaultsType, Product
  <2> QED
    BY <2>1, <2>2, SMTT(30) DEF LogInv
<1> QED
  BY <1>1 DEF LogInv

\* A fault of the sender that repeats what can be delivered at most once.
LEMMA LogFault ==
  ASSUME TypeOK, TypeOK', LogInv, UNCHANGED <<copies, logged>>,
         SenderFaults' = SenderFaults + 1,
         snd' = "down" => ~sndLink' /\ inbox' = <<>>,
         \A e \in Events : /\ Deliverable(e)' <= Deliverable(e)
                           /\ Loggable(e)' <= Loggable(e) + Deliverable(e)
  PROVE  LogInv'
<1>1. ASSUME NEW e \in Events
      PROVE  /\ Deliverable(e)' <= copies'[e]
             /\ logged'[e] + Loggable(e)' <= copies'[e] * (1 + SenderFaults')
  <2>1. /\ Deliverable(e) \in Int /\ Deliverable(e)' \in Int
        /\ Loggable(e) \in Int /\ Loggable(e)' \in Int
    <3>1. /\ Times(wire', e) \in Nat /\ Times(ready', e) \in Nat
          /\ Times(inbox', e) \in Nat
      BY TimesType DEF TypeOK
    <3>2. Done(e)' \in {0, 1}
      BY DEF Done
    <3>3. Deliverable(e)' \in Int /\ Loggable(e)' \in Int
      BY <3>1, <3>2 DEF Deliverable, Loggable
    <3>4. Deliverable(e) \in Int /\ Loggable(e) \in Int
      BY LogTypes DEF Deliverable, Loggable
    <3> QED
      BY <3>3, <3>4
  <2>2. /\ copies[e] \in Nat /\ logged[e] \in Nat
        /\ copies[e] * (1 + SenderFaults) \in Nat
        /\ copies[e] * (1 + SenderFaults') = copies[e] * (1 + SenderFaults) + copies[e]
    BY LogTypes, SenderFaultsType, Product
  <2>3. /\ Deliverable(e) <= copies[e]
        /\ logged[e] + Loggable(e) <= copies[e] * (1 + SenderFaults)
    BY DEF LogInv
  <2> QED
    BY <2>1, <2>2, <2>3, SMTT(30)
<1> QED
  BY <1>1 DEF LogInv

\* Every step keeps the account of the logs.
LEMMA NextLog ==
  ASSUME TypeOK, TypeOK', HoldsMessage, LogInv, [Next]_vars
  PROVE  LogInv'
<1> USE DEF table, broker, scheduler, sender, history
<1>a. /\ wire \in Seq(Message) /\ wire \in Seq(Events)
      /\ ready \in Seq(Message) /\ inbox \in Seq(Message)
  BY DEF TypeOK, Message
<1>b. \A e \in Events :
        /\ Times(wire, e) \in Nat /\ Times(ready, e) \in Nat /\ Times(inbox, e) \in Nat
        /\ copies[e] \in Nat /\ logged[e] \in Nat /\ Done(e) \in {0, 1}
  BY LogTypes
<1>e. copies \in [Events -> Nat] /\ logged \in [Events -> Nat]
  BY DEF TypeOK
<1>c. \A e \in Events : Deliverable(e) \in Nat /\ Loggable(e) \in Int
  BY <1>b DEF Deliverable, Loggable
<1>d. SenderFaults \in Nat
  BY SenderFaultsType
\* Steps that touch neither messages nor the sender.
<1>1. ASSUME UNCHANGED <<broker, sender, copies, logged>>, SenderFaults' = SenderFaults
      PROVE  LogInv'
  BY <1>1 DEF LogInv, Deliverable, Loggable, Done
<1>2. CASE Tick \/ ApiStep \/ DeleteOldEvents \/ UNCHANGED vars
  BY <1>2, <1>1 DEF Tick, ApiStep, CreateEvent, UpdateEvent, DeleteEvent,
     DeleteOldEvents, RemoveRows, vars, SenderFaults
<1>3. CASE \/ StartScheduler \/ FetchPendingNotifications \/ PublishFails
           \/ MarkNotificationsSent
  BY <1>3, <1>1 DEF StartScheduler, FetchPendingNotifications, PublishFails,
     MarkNotificationsSent, EndPoll, SenderFaults
<1>4. CASE MarkNotificationsSentFails \/ SchedulerCrash
  <2>1. SenderFaults' = SenderFaults
    BY <1>4, SenderFaultsType DEF MarkNotificationsSentFails, SchedulerCrash, FaultKinds
  <2> QED
    BY <1>4, <2>1, <1>1 DEF MarkNotificationsSentFails, EndPoll, SchedulerCrash
<1>5. CASE Publish
  <2> DEFINE x == Head(batch)
  <2>1. x \in Events
    BY <1>5, TailFacts DEF Publish, TypeOK
  <2>2. /\ wire' = Append(wire, x)
        /\ copies' = [copies EXCEPT ![x] = @ + 1]
        /\ UNCHANGED <<ready, sender, faults, logged>>
    BY <1>5 DEF Publish
  <2> HIDE DEF x
  <2>3. ASSUME NEW e \in Events
        PROVE  /\ Deliverable(e)' <= copies'[e]
               /\ logged'[e] + Loggable(e)' <= copies'[e] * (1 + SenderFaults')
    <3>1. Times(wire', e) = Times(wire, e) + (IF x = e THEN 1 ELSE 0)
      BY <1>a, <2>1, <2>2, TimesAppend
    <3> DEFINE h == IF x = e THEN 1 ELSE 0
    <3>a. h \in {0, 1} /\ Times(wire', e) = Times(wire, e) + h
      BY <3>1
    <3>3. copies'[e] = copies[e] + h
      BY <1>b, <1>e, <2>1, <2>2
    <3> HIDE DEF h
    <3>b. Done(e)' = Done(e)
      BY <2>2 DEF Done
    <3>2. Deliverable(e)' = Deliverable(e) + h /\ Loggable(e)' = Loggable(e) + h
      BY <1>b, <2>2, <3>a, <3>b, SMTT(30) DEF Deliverable, Loggable
    <3>4. SenderFaults' = SenderFaults /\ logged'[e] = logged[e]
      BY <2>2 DEF SenderFaults
    <3>5. /\ Deliverable(e) <= copies[e]
          /\ logged[e] + Loggable(e) <= copies[e] * (1 + SenderFaults)
      BY DEF LogInv
    <3>6. /\ copies[e] * (1 + SenderFaults) \in Nat
          /\ (copies[e] + 1) * (1 + SenderFaults)
               = copies[e] * (1 + SenderFaults) + 1 + SenderFaults
      BY <1>b, <1>d, Product
    <3>7. CASE h = 1
      BY <1>b, <1>c, <1>d, <3>2, <3>3, <3>4, <3>5, <3>6, <3>7
    <3>8. CASE h = 0
      BY <1>b, <1>c, <1>d, <3>2, <3>3, <3>4, <3>5, <3>6, <3>8
    <3> QED
      BY <3>a, <3>7, <3>8
  <2>4. (snd = "down" => ~sndLink /\ inbox = <<>>)'
    BY <2>2 DEF LogInv
  <2> QED
    BY <2>3, <2>4 DEF LogInv
<1>6. CASE SchedulerLinkLoss
  <2>1. /\ wire' = <<>> /\ UNCHANGED <<ready, sender, copies, logged>>
        /\ SenderFaults' = SenderFaults
    BY <1>6, SenderFaultsType DEF SchedulerLinkLoss, FaultKinds
  <2>2. \A e \in Events : /\ Deliverable(e)' <= Deliverable(e)
                          /\ Loggable(e)' <= Loggable(e)
    BY <1>b, <2>1, TimesOne DEF Deliverable, Loggable, Done
  <2> QED
    BY <2>1, <2>2, LogQuiet DEF LogInv
<1>7. CASE Enqueue
  <2>1. /\ wire # <<>> /\ wire' = Tail(wire) /\ ready' = Append(ready, Head(wire))
        /\ UNCHANGED <<sender, copies, logged>> /\ SenderFaults' = SenderFaults
    BY <1>7 DEF Enqueue, SenderFaults
  <2>2. Head(wire) \in Message
    BY <1>a, <2>1, TailFacts
  <2>3. ASSUME NEW e \in Events
        PROVE  Deliverable(e)' <= Deliverable(e) /\ Loggable(e)' <= Loggable(e)
    <3>1. /\ Times(wire, e) = (IF Head(wire) = e THEN 1 ELSE 0) + Times(wire', e)
          /\ Times(wire', e) \in Nat
      BY <1>a, <2>1, TimesTail
    <3>2. Times(ready', e) = Times(ready, e) + (IF Head(wire) = e THEN 1 ELSE 0)
      BY <1>a, <2>1, <2>2, TimesAppend
    <3> QED
      BY <1>b, <2>1, <3>1, <3>2 DEF Deliverable, Loggable, Done
  <2> QED
    BY <2>1, <2>3, LogQuiet DEF LogInv
<1>8. CASE Deliver
  <2>1. /\ sndLink /\ ready' = <<>> /\ inbox' = inbox \o ready
        /\ UNCHANGED <<wire, snd, sndLink, copies, logged>>
        /\ SenderFaults' = SenderFaults
    BY <1>8 DEF Deliver, SenderFaults
  <2>2. snd \in {"logged", "marked"} => Head(inbox') = Head(inbox)
    BY <1>a, <2>1, ConcatFacts DEF HoldsMessage
  <2>3. ASSUME NEW e \in Events
        PROVE  Deliverable(e)' <= Deliverable(e) /\ Loggable(e)' <= Loggable(e)
    <3>1. Times(inbox', e) = Times(inbox, e) + Times(ready, e)
      BY <1>a, <2>1, TimesConcat
    <3>2. Times(ready', e) = 0 /\ Done(e)' = Done(e)
      BY <2>1, <2>2, TimesOne DEF Done
    <3> QED
      BY <1>b, <2>1, <3>1, <3>2, SMTT(30) DEF Deliverable, Loggable
  <2>4. snd' # "down"
    BY <2>1 DEF LogInv
  <2> QED
    BY <2>1, <2>3, <2>4, LogQuiet
<1>9. CASE BrokerRestart
  <2>1. /\ wire' = <<>> /\ ready' = <<>> /\ ~sndLink'
        /\ UNCHANGED <<snd, inbox, copies, logged>>
        /\ SenderFaults' = SenderFaults
    BY <1>9, SenderFaultsType DEF BrokerRestart, FaultKinds
  <2>2. \A e \in Events : /\ Deliverable(e)' <= Deliverable(e)
                          /\ Loggable(e)' <= Loggable(e)
    BY <1>b, <2>1, TimesOne DEF Deliverable, Loggable, Done
  <2>3. snd' = "down" => ~sndLink' /\ inbox' = <<>>
    BY <2>1 DEF LogInv
  <2> QED
    BY <2>1, <2>2, <2>3, LogQuiet
<1>10. CASE StartSender
  <2>1. /\ snd = "down" /\ snd' = "idle" /\ UNCHANGED <<wire, ready, inbox, copies, logged>>
        /\ SenderFaults' = SenderFaults
    BY <1>10 DEF StartSender, SenderFaults
  <2>2. inbox = <<>>
    BY <2>1 DEF LogInv
  <2>3. \A e \in Events : /\ Deliverable(e)' <= Deliverable(e)
                          /\ Loggable(e)' <= Loggable(e)
    BY <1>b, <2>1, <2>2, TimesOne DEF Deliverable, Loggable, Done
  <2> QED
    BY <2>1, <2>3, LogQuiet
<1>11. CASE LogNotification
  <2> DEFINE x == Head(inbox)
  <2>1. /\ x \in Events /\ snd = "idle" /\ snd' = "logged"
        /\ logged' = [logged EXCEPT ![x] = @ + 1]
        /\ UNCHANGED <<wire, ready, inbox, sndLink, copies, faults>>
    BY <1>11 DEF LogNotification
  <2>2. ASSUME NEW e \in Events
        PROVE  /\ Deliverable(e)' = Deliverable(e)
               /\ logged'[e] + Loggable(e)' = logged[e] + Loggable(e)
    <3> DEFINE h == IF x = e THEN 1 ELSE 0
    <3>1. logged'[e] = logged[e] + h /\ h \in {0, 1}
      BY <1>b, <1>e, <2>1
    <3>2. Done(e) = 0 /\ Done(e)' = h
      BY <2>1 DEF Done
    <3> HIDE DEF h, x
    <3> QED
      BY <1>b, <2>1, <3>1, <3>2 DEF Deliverable, Loggable
  <2>3. SenderFaults' = SenderFaults /\ snd' # "down" /\ copies' = copies
    BY <2>1 DEF SenderFaults
  <2> QED
    BY <2>2, <2>3 DEF LogInv
<1>12. CASE MarkDelivered
  <2>1. /\ snd = "logged" /\ snd' = "marked"
        /\ UNCHANGED <<wire, ready, inbox, sndLink, copies, logged>>
        /\ SenderFaults' = SenderFaults
    BY <1>12 DEF MarkDelivered, SenderFaults
  <2> QED
    BY <2>1 DEF LogInv, Deliverable, Loggable, Done
<1>13. CASE NackGarbage
  <2>1. /\ snd = "idle" /\ inbox # <<>> /\ Head(inbox) \in Garbage
        /\ Requeue(<<Head(inbox)>>) /\ inbox' = Tail(inbox)
        /\ UNCHANGED <<wire, snd, sndLink, copies, logged>>
        /\ SenderFaults' = SenderFaults
    BY <1>13 DEF NackGarbage, SenderFaults
  <2>2. ASSUME NEW e \in Events
        PROVE  Deliverable(e)' <= Deliverable(e) /\ Loggable(e)' <= Loggable(e)
    <3>1. Head(inbox) # e
      BY <2>1, DataAssumption
    <3>2. Times(inbox', e) = Times(inbox, e) /\ Times(inbox', e) \in Nat
      BY <1>a, <1>b, <2>1, <3>1, TimesTail
    <3>3. <<Head(inbox)>> \in Seq(Message)
      BY <2>1 DEF Message
    <3>4. Times(ready', e) = Times(ready, e)
      <4>1. Times(<<Head(inbox)>> \o ready, e) = Times(<<Head(inbox)>>, e) + Times(ready, e)
        BY <1>a, <3>3, TimesConcat
      <4>2. Times(<<Head(inbox)>>, e) = 0
        BY <3>1, TimesOne
      <4> QED
        BY <1>b, <2>1, <4>1, <4>2 DEF Requeue
    <3> QED
      BY <1>b, <2>1, <3>2, <3>4 DEF Deliverable, Loggable, Done
  <2> QED
    BY <2>1, <2>2, LogQuiet
<1>14. CASE Ack
  <2>1. /\ snd = "marked" /\ snd' = "idle" /\ inbox' = Tail(inbox)
        /\ UNCHANGED <<wire, ready, sndLink, copies, logged>>
        /\ SenderFaults' = SenderFaults /\ inbox # <<>>
    BY <1>14 DEF Ack, SenderFaults, HoldsMessage
  <2>2. ASSUME NEW e \in Events
        PROVE  Deliverable(e)' <= Deliverable(e) /\ Loggable(e)' <= Loggable(e)
    <3>1. /\ Times(inbox, e) = (IF Head(inbox) = e THEN 1 ELSE 0) + Times(inbox', e)
          /\ Times(inbox', e) \in Nat
      BY <1>a, <2>1, TimesTail
    <3>2. Done(e) = (IF Head(inbox) = e THEN 1 ELSE 0) /\ Done(e)' = 0
      BY <2>1 DEF Done
    <3> QED
      BY <1>b, <2>1, <3>1, <3>2 DEF Deliverable, Loggable
  <2> QED
    BY <2>1, <2>2, LogQuiet
<1>15. CASE SenderExit
  <2>1. /\ snd = "idle" /\ ~sndLink /\ snd' = "down" /\ inbox' = <<>>
        /\ UNCHANGED <<wire, ready, sndLink, copies, logged>>
        /\ SenderFaults' = SenderFaults
    BY <1>15 DEF SenderExit, SenderFaults
  <2>2. \A e \in Events : /\ Deliverable(e)' <= Deliverable(e)
                          /\ Loggable(e)' <= Loggable(e)
    BY <1>b, <2>1, TimesOne DEF Deliverable, Loggable, Done
  <2> QED
    BY <2>1, <2>2, LogQuiet
<1>16. CASE MarkDeliveredFails
  <2>1. /\ snd = "logged" /\ snd' = "idle" /\ inbox # <<>>
        /\ Requeue(<<Head(inbox)>>) /\ inbox' = Tail(inbox)
        /\ UNCHANGED <<wire, sndLink, copies, logged>>
        /\ SenderFaults' = SenderFaults + 1
    BY <1>16, SenderFaultsType DEF MarkDeliveredFails, HoldsMessage
  <2>2. ASSUME NEW e \in Events
        PROVE  /\ Deliverable(e)' <= Deliverable(e)
               /\ Loggable(e)' <= Loggable(e) + Deliverable(e)
    <3> DEFINE h == IF Head(inbox) = e THEN 1 ELSE 0
    <3>1. Times(inbox, e) = h + Times(inbox', e) /\ Times(inbox', e) \in Nat
      BY <1>a, <2>1, TimesTail
    <3>2. <<Head(inbox)>> \in Seq(Message)
      BY <1>a, <2>1, TailFacts
    <3>3. Times(ready', e) = Times(ready, e) + (IF sndLink THEN h ELSE 0)
      <4>1. Times(<<Head(inbox)>> \o ready, e) = Times(<<Head(inbox)>>, e) + Times(ready, e)
        BY <1>a, <3>2, TimesConcat
      <4>2. Times(<<Head(inbox)>>, e) = h /\ h \in {0, 1}
        BY TimesOne
      <4> HIDE DEF h
      <4>3. CASE sndLink
        <5>1. ready' = <<Head(inbox)>> \o ready
          BY <2>1, <4>3 DEF Requeue
        <5> QED
          BY <1>b, <4>1, <4>2, <4>3, <5>1
      <4>4. CASE ~sndLink
        BY <1>b, <2>1, <4>4 DEF Requeue
      <4> QED
        BY <4>3, <4>4
    <3>4. Done(e) = h /\ Done(e)' = 0 /\ h \in {0, 1}
      BY <2>1 DEF Done
    <3> HIDE DEF h
    <3> QED
      BY <1>b, <2>1, <3>1, <3>3, <3>4, SMTT(30) DEF Deliverable, Loggable
  <2> QED
    BY <2>1, <2>2, LogFault
<1>17. CASE SenderCrash
  <2>1. /\ snd' = "down" /\ ~sndLink' /\ inbox' = <<>> /\ Requeue(inbox)
        /\ UNCHANGED <<wire, copies, logged>>
        /\ SenderFaults' = SenderFaults + 1
    BY <1>17, SenderFaultsType DEF SenderCrash
  <2>2. ASSUME NEW e \in Events
        PROVE  /\ Deliverable(e)' <= Deliverable(e)
               /\ Loggable(e)' <= Loggable(e) + Deliverable(e)
    <3>1. Times(ready', e) = Times(ready, e) + (IF sndLink THEN Times(inbox, e) ELSE 0)
      BY <1>a, <1>b, <2>1, TimesConcat DEF Requeue
    <3>2. Times(inbox', e) = 0 /\ Done(e)' = 0
      BY <2>1, TimesOne DEF Done
    <3>3. Done(e) <= Times(inbox, e)
      <4>1. CASE Done(e) = 0
        BY <1>b, <4>1
      <4>2. CASE Done(e) = 1
        <5>1. Head(inbox) = e /\ inbox # <<>>
          BY <4>2 DEF Done, HoldsMessage
        <5> QED
          BY <1>a, <1>b, <4>2, <5>1, TimesTail
      <4> QED
        BY <1>b, <4>1, <4>2
    <3> QED
      BY <1>b, <2>1, <3>1, <3>2, <3>3 DEF Deliverable, Loggable
  <2> QED
    BY <2>1, <2>2, LogFault
<1>18. CASE SenderLinkLoss
  <2>1. /\ sndLink /\ ~sndLink' /\ Requeue(inbox)
        /\ UNCHANGED <<wire, inbox, snd, copies, logged>>
        /\ SenderFaults' = SenderFaults + 1
    BY <1>18, SenderFaultsType DEF SenderLinkLoss
  <2>2. ASSUME NEW e \in Events
        PROVE  /\ Deliverable(e)' <= Deliverable(e)
               /\ Loggable(e)' <= Loggable(e) + Deliverable(e)
    <3>1. Times(ready', e) = Times(inbox, e) + Times(ready, e)
      BY <1>a, <2>1, TimesConcat DEF Requeue
    <3> QED
      BY <1>b, <2>1, <3>1 DEF Deliverable, Loggable, Done
  <2>3. snd' # "down"
    BY <2>1 DEF LogInv
  <2> QED
    BY <2>1, <2>2, <2>3, LogFault
<1> QED
  BY <1>2, <1>3, <1>4, <1>5, <1>6, <1>7, <1>8, <1>9, <1>10, <1>11, <1>12,
     <1>13, <1>14, <1>15, <1>16, <1>17, <1>18
     DEF Next, SchedulerStep, SenderStep, FaultStep

\* Whatever crashes, fails or is delivered again, a reminder is logged at most
\* once for each published copy, and once more for each fault of the sender.
THEOREM RepeatsBounded == Spec => []RepeatsNeedFaults
<1> DEFINE Inv == TypeOK /\ HoldsMessage /\ LogInv
<1>1. Init => Inv
  <2> SUFFICES ASSUME Init PROVE Inv
    OBVIOUS
  <2>1. TypeOK /\ HoldsMessage
    BY InitType DEF Init, HoldsMessage
  <2>2. ASSUME NEW e \in Events
        PROVE  /\ Deliverable(e) = 0 /\ Loggable(e) = 0
               /\ copies[e] = 0 /\ logged[e] = 0
    <3>1. {i \in DOMAIN ready : ready[i] = e} = {}
      <4>1. ready \in [1..Cardinality(Garbage) -> Garbage]
        BY DEF Init
      <4>2. \A i \in DOMAIN ready : ready[i] \in Garbage
        BY <4>1
      <4> QED
        BY <4>2, DataAssumption
    <3>2. Times(ready, e) = 0
      BY <3>1, FS_EmptySet DEF Times
    <3>3. Times(wire, e) = 0 /\ Times(inbox, e) = 0
      BY TimesOne DEF Init
    <3> QED
      BY <3>2, <3>3 DEF Deliverable, Loggable, Done, Init
  <2>3. 0 * (1 + SenderFaults) = 0
    BY <2>1, SenderFaultsType
  <2> QED
    BY <2>1, <2>2, <2>3 DEF LogInv, Init
<1>2. Inv /\ [Next]_vars => Inv'
  BY NextType, NextHolds, NextLog
<1>3. ASSUME Inv PROVE RepeatsNeedFaults
  <2>1. ASSUME NEW e \in Events PROVE logged[e] <= copies[e] * (1 + SenderFaults)
    <3>1. Done(e) <= Times(inbox, e)
      <4>1. CASE Done(e) = 1
        <5>1. Head(inbox) = e /\ inbox # <<>> /\ inbox \in Seq(Message)
          BY <1>3, <4>1 DEF Done, HoldsMessage, TypeOK
        <5> QED
          BY <4>1, <5>1, TimesTail
      <4> QED
        BY <1>3, <4>1, LogTypes
    <3>2. copies[e] * (1 + SenderFaults) \in Nat
      BY <1>3, LogTypes, SenderFaultsType, Product
    <3> QED
      BY <1>3, <3>1, <3>2, LogTypes DEF LogInv, Loggable
  <2> QED
    BY <2>1 DEF RepeatsNeedFaults
<1> HIDE DEF Inv
<1> QED
  BY <1>1, <1>2, <1>3, PTL DEF Spec
=============================================================================
