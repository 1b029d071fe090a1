-------------------------- MODULE ParallelRunProofs --------------------------
(* What holds of Run for any number of tasks and workers and any limit.      *)
EXTENDS ParallelRun, FiniteSetTheorems, TLAPS

\* The limit is at least one error, and the set of workers is finite.
LEMMA LimitFacts == M \in Nat \ {0} /\ IsFiniteSet(Workers)
BY RunAssumption, FS_Interval DEF RunAssumption, M, Workers

\* Where the controller is says how far it has come.
ControlInv ==
  /\ ctl # "exited" => N > 0 /\ ~runDone /\ errorCount <= M - 1
  /\ ctl = "prime" => completed = 0 /\ sent <= N
  /\ ctl = "collect" => completed < T /\ sent <= N + completed
  /\ ctl = "feed" => sent < T /\ sent <= N + completed - 1
  /\ errorCount <= completed

RunInv == RunTypeOK /\ ControlInv /\ ErrorsBoundWork

\* Run starts in the invariant.
LEMMA RunInvInit == RunInit => RunInv
<1> SUFFICES ASSUME RunInit PROVE RunInv
  OBVIOUS
<1>1. errChan \in Seq(Outcomes) /\ Len(errChan) = 0
  BY DEF RunInit
<1>2. N \in Int /\ T \in Nat
  BY RunAssumption DEF RunAssumption
<1>3. RunTypeOK
  <2>1. /\ caller \in {"waiting", "returned"} /\ runResult \in {"none", "nil", "limit"}
        /\ ctl \in {"prime", "collect", "feed", "exited"}
    BY <1>2 DEF RunInit
  <2>2. /\ worker \in [Workers -> {"recv", "run", "report", "exited"}]
        /\ taskErr \in [Workers -> Outcomes]
    BY DEF RunInit, Outcomes
  <2>3. N > 0 => Len(errChan) <= N
    BY <1>1, <1>2
  <2>4. /\ sent = 0 /\ completed = 0 /\ errorCount = 0 /\ ran = 0 /\ failures = 0
        /\ taskChanClosed = FALSE /\ runDone = FALSE
    BY DEF RunInit
  <2>5. sent \in 0..T /\ completed \in 0..T /\ errorCount \in 0..T
    BY <1>2, <2>4
  <2>6. ran \in Nat /\ failures \in Nat
    BY <2>4
  <2>7. taskChanClosed \in BOOLEAN /\ runDone \in BOOLEAN
    BY <2>4
  <2> QED
    BY <1>1, <2>1, <2>2, <2>3, <2>5, <2>6, <2>7 DEF RunTypeOK
<1>4. ControlInv /\ ErrorsBoundWork
  BY <1>2, LimitFacts DEF RunInit, ControlInv, ErrorsBoundWork
<1> QED
  BY <1>3, <1>4 DEF RunInv

\* Handing out a task keeps the invariant, if it was due.
LEMMA HandOutKeeps ==
  ASSUME RunInv, NEW w \in Workers, HandOut(w),
         \/ ctl = "prime" /\ sent < N /\ sent < T /\ ctl' = "prime"
         \/ ctl = "feed" /\ ctl' = IF completed' < T THEN "collect" ELSE "exited"
  PROVE  RunInv'
<1>1. /\ sent' = sent + 1 /\ sent \in Nat /\ completed \in Nat /\ errorCount \in Nat
      /\ UNCHANGED <<completed, errorCount, runDone>>
      /\ sent < T /\ N > 0 /\ N \in Int /\ T \in Nat
      /\ ctl' \in {"prime", "collect", "exited"}
  BY RunAssumption DEF RunAssumption, HandOut, RunInv, RunTypeOK, ControlInv
<1>2. sent' \in 0..T
  BY <1>1
<1>3. RunTypeOK'
  <2>1. worker' \in [Workers -> {"recv", "run", "report", "exited"}]
    BY DEF HandOut, RunInv, RunTypeOK
  <2>2. /\ UNCHANGED <<caller, runResult, completed, errorCount, taskChanClosed, runDone>>
        /\ UNCHANGED <<errChan, taskErr, ran, failures>>
    BY DEF HandOut, history
  <2> QED
    BY <1>1, <1>2, <2>1, <2>2 DEF RunInv, RunTypeOK
<1>4. ControlInv'
  BY <1>1 DEF RunInv, ControlInv
<1>5. ErrorsBoundWork'
  BY <1>1, LimitFacts DEF RunInv, ControlInv, ErrorsBoundWork
<1> QED
  BY <1>3, <1>4, <1>5 DEF RunInv

\* Receiving a result keeps the types and counts one more.
LEMMA ReceiveFacts ==
  ASSUME RunInv, ReceiveErr
  PROVE  /\ errChan' \in Seq(Outcomes) /\ (N > 0 => Len(errChan') <= N)
         /\ completed' \in 0..T /\ errorCount' \in 0..T
         /\ completed' = completed + 1 /\ errorCount' <= completed'
         /\ errorCount' \in {errorCount, errorCount + 1}
         /\ ~LimitReached => errorCount' <= M - 1
         /\ LimitReached => errorCount' = M
         /\ sent' = sent /\ sent <= N + completed /\ completed < T /\ N > 0
<1>1. /\ errChan \in Seq(Outcomes) /\ errChan # <<>>
      /\ completed \in Nat /\ errorCount \in Nat /\ N \in Int /\ T \in Nat
      /\ errorCount <= completed /\ errorCount <= M - 1
      /\ sent' = sent /\ sent <= N + completed /\ completed < T /\ N > 0
      /\ Len(errChan) <= N
      /\ errChan' = Tail(errChan)
      /\ completed' = completed + 1
      /\ errorCount' = IF Head(errChan) = "error" THEN errorCount + 1 ELSE errorCount
  BY RunAssumption DEF RunAssumption, RunInv, RunTypeOK, ControlInv, ReceiveErr
<1>2. errChan' \in Seq(Outcomes) /\ Len(errChan') <= N
  BY <1>1
<1>3. errorCount' \in {errorCount, errorCount + 1}
  BY <1>1
<1>4. errorCount' <= completed' /\ completed' \in 0..T /\ errorCount' \in 0..T
  BY <1>1, <1>3
<1>5. ~LimitReached => errorCount' <= M - 1
  <2>1. CASE Head(errChan) = "error"
    BY <2>1, <1>1, <1>3, LimitFacts DEF LimitReached
  <2>2. CASE Head(errChan) # "error"
    BY <2>2, <1>1
  <2> QED
    BY <2>1, <2>2
<1>6. LimitReached => errorCount' = M
  BY <1>1, <1>3, LimitFacts DEF LimitReached
<1> QED
  BY <1>1, <1>2, <1>3, <1>4, <1>5, <1>6

\* Every step of Run keeps the invariant.
LEMMA RunInvNext == RunInv /\ [RunNext]_runVars => RunInv'
<1> SUFFICES ASSUME RunInv, [RunNext]_runVars PROVE RunInv'
  OBVIOUS
<1> USE RunAssumption, LimitFacts DEF RunAssumption, control, history
<1>1. ASSUME NEW w \in Workers, Prime(w) \/ Feed(w)
      PROVE  RunInv'
  BY <1>1, HandOutKeeps DEF Prime, Feed, MoreResults
<1>2. CASE Primed
  BY <1>2 DEF Primed, RunInv, RunTypeOK, ControlInv, ErrorsBoundWork
<1>3. CASE CollectLimit
  <2>1. RunTypeOK'
    BY <1>3, ReceiveFacts DEF CollectLimit, ReceiveErr, RunInv, RunTypeOK
  <2>2. ControlInv' /\ ErrorsBoundWork'
    BY <1>3, ReceiveFacts
       DEF CollectLimit, RunInv, RunTypeOK, ControlInv, ErrorsBoundWork
  <2> QED
    BY <2>1, <2>2 DEF RunInv
<1>4. CASE CollectAndFeed \/ CollectAndClose
  <2>1. RunTypeOK'
    BY <1>4, ReceiveFacts
       DEF CollectAndFeed, CollectAndClose, ReceiveErr, RunInv, RunTypeOK
  <2>2. /\ ~runDone' /\ ~LimitReached /\ ReceiveErr
        /\ \/ ctl' = "feed" /\ sent < T
           \/ ctl' = IF completed' < T THEN "collect" ELSE "exited"
    BY <1>4 DEF CollectAndFeed, CollectAndClose, ReceiveErr, MoreResults, RunInv,
                ControlInv
  <2>3. ControlInv' /\ ErrorsBoundWork'
    BY <2>2, ReceiveFacts, SMTT(30) DEF RunInv, RunTypeOK, ControlInv, ErrorsBoundWork
  <2> QED
    BY <2>1, <2>3 DEF RunInv
<1>5. ASSUME NEW w \in Workers, Worker(w)
      PROVE  RunInv'
  <2>1. RunTypeOK'
    <3>1. CASE Report(w)
      <4>1. errChan \in Seq(Outcomes) /\ taskErr[w] \in Outcomes
        BY DEF RunInv, RunTypeOK
      <4>2. errChan' \in Seq(Outcomes) /\ Len(errChan') <= N
        BY <3>1, <4>1 DEF Report
      <4> QED
        BY <3>1, <4>2 DEF Report, RunInv, RunTypeOK
    <3>2. CASE RunTask(w)
      BY <3>2 DEF RunTask, RunInv, RunTypeOK
    <3>3. CASE Leave(w) \/ Drop(w)
      BY <3>3 DEF Leave, Drop, RunInv, RunTypeOK
    <3> QED
      BY <1>5, <3>1, <3>2, <3>3 DEF Worker
  <2>2. UNCHANGED control
    BY <1>5 DEF Worker, Leave, RunTask, Report, Drop
  <2> QED
    BY <2>1, <2>2 DEF RunInv, ControlInv, ErrorsBoundWork
<1>6. CASE ReturnAnswer
  BY <1>6 DEF ReturnAnswer, RunInv, RunTypeOK, ControlInv, ErrorsBoundWork
<1>7. CASE UNCHANGED runVars
  BY <1>7 DEF runVars, RunInv, RunTypeOK, ControlInv, ErrorsBoundWork
<1> QED
  BY <1>1, <1>2, <1>3, <1>4, <1>5, <1>6, <1>7 DEF RunNext, Controller

\* Run keeps its types; the result channel never exceeds its capacity.
THEOREM RunTypeCorrect == RunSpec => []RunTypeOK
<1>1. RunInv => RunTypeOK
  BY DEF RunInv
<1> QED
  BY <1>1, RunInvInit, RunInvNext, PTL DEF RunSpec

\* For any tasks, n and m: no more tasks start than n, the m - 1 errors that
\* are tolerated, and one for each success received.
THEOREM WorkIsBounded == RunSpec => []ErrorsBoundWork
<1>1. RunInv => ErrorsBoundWork
  BY DEF RunInv
<1> QED
  BY <1>1, RunInvInit, RunInvNext, PTL DEF RunSpec

\* The controller hands out nothing once it has counted m errors.
THEOREM LimitStopsWork == RunSpec => NoTaskAfterLimit
<1>1. RunInv /\ [RunNext]_runVars => [errorCount >= M => sent' = sent]_runVars
  <2> SUFFICES ASSUME RunInv, RunNext, errorCount >= M
               PROVE  sent' = sent
    OBVIOUS
  <2>1. ctl = "exited"
    BY LimitFacts, RunAssumption DEF RunInv, RunTypeOK, ControlInv, RunAssumption
  <2> QED
    BY <2>1 DEF RunNext, Controller, Prime, Primed, ReceiveErr, CollectLimit,
       CollectAndFeed, CollectAndClose, Feed, Worker, Leave, RunTask, Report,
       Drop, ReturnAnswer, control, runVars
<1> QED
  BY <1>1, RunInvInit, RunInvNext, PTL DEF RunSpec, NoTaskAfterLimit

----------------------------------------------------------------------------
(* The result channel has room for every worker *)

\* The workers that have a task.
Busy == {w \in Workers : worker[w] \in {"run", "report"}}

\* Every task handed out is with a worker, in the channel or received, until
\* the limit is reached; workers and channel together hold at most n.
InProgress == Len(errChan) + Cardinality(Busy)
Conservation ==
  /\ ~runDone => sent = completed + InProgress
  /\ N > 0 => InProgress <= N

\* The count of busy workers is a number.
LEMMA BusyFacts == IsFiniteSet(Busy) /\ Cardinality(Busy) \in Nat
BY LimitFacts, FS_Subset, FS_CardinalityType DEF Busy

\* Every step of Run conserves the tasks.
LEMMA ConservationNext ==
  RunInv /\ Conservation /\ [RunNext]_runVars => Conservation'
<1> SUFFICES ASSUME RunInv, Conservation, [RunNext]_runVars PROVE Conservation'
  OBVIOUS
<1> USE DEF control, history
<1>a. /\ N \in Int /\ T \in Nat /\ sent \in Nat /\ completed \in Nat
      /\ errChan \in Seq(Outcomes) /\ Len(errChan) \in Nat
      /\ worker \in [Workers -> {"recv", "run", "report", "exited"}]
      /\ runDone \in BOOLEAN
  BY RunAssumption DEF RunAssumption, RunInv, RunTypeOK
<1>1. ASSUME NEW w \in Workers, Prime(w) \/ Feed(w)
      PROVE  Conservation'
  <2>1. /\ HandOut(w) /\ ~runDone
        /\ sent < N + completed
    BY <1>1, <1>a DEF Prime, Feed, RunInv, ControlInv
  <2>2. Busy' = Busy \cup {w} /\ w \notin Busy
    BY <2>1, <1>a DEF HandOut, Busy
  <2>3. Cardinality(Busy') = Cardinality(Busy) + 1
    BY <2>2, BusyFacts, FS_AddElement
  <2>4. sent' = sent + 1 /\ UNCHANGED <<completed, errChan, runDone>>
    BY <2>1 DEF HandOut
  <2> QED
    BY <2>1, <2>3, <2>4, <1>a, BusyFacts DEF Conservation, InProgress
<1>2. CASE CollectLimit \/ CollectAndFeed \/ CollectAndClose
  <2>1. /\ ReceiveErr /\ ~runDone
    BY <1>2 DEF CollectLimit, CollectAndFeed, CollectAndClose, ReceiveErr, RunInv,
       ControlInv
  <2>2. /\ Len(errChan') = Len(errChan) - 1 /\ completed' = completed + 1
        /\ sent' = sent /\ Busy' = Busy
    BY <2>1, <1>a DEF ReceiveErr, Busy
  <2> QED
    BY <2>1, <2>2, <1>a, BusyFacts DEF Conservation, InProgress
<1>3. ASSUME NEW w \in Workers, Report(w) \/ Drop(w)
      PROVE  Conservation'
  <2>1. /\ worker[w] = "report" /\ UNCHANGED <<sent, completed, runDone>>
        /\ worker' = [worker EXCEPT ![w] = "recv"]
    BY <1>3 DEF Report, Drop
  <2>2. Busy' = Busy \ {w} /\ w \in Busy
    BY <2>1, <1>a DEF Busy
  <2>3. Cardinality(Busy') = Cardinality(Busy) - 1
    BY <2>2, BusyFacts, FS_RemoveElement
  <2>4. CASE Report(w)
    <3>1. Len(errChan') = Len(errChan) + 1
      BY <2>4, <1>a DEF Report, RunInv, RunTypeOK
    <3>2. InProgress' = InProgress
      BY <2>3, <3>1, <1>a, BusyFacts DEF InProgress
    <3> QED
      BY <2>1, <3>2 DEF Conservation
  <2>5. CASE Drop(w)
    <3>1. errChan' = errChan /\ runDone
      BY <2>5 DEF Drop
    <3> QED
      BY <2>1, <2>3, <3>1, <1>a, BusyFacts DEF Conservation, InProgress
  <2> QED
    BY <1>3, <2>4, <2>5
<1>4. ASSUME Busy' = Busy, UNCHANGED <<sent, completed, errChan, runDone>>
      PROVE  Conservation'
  BY <1>4 DEF Conservation, InProgress
<1>5. ASSUME NEW w \in Workers, Leave(w) \/ RunTask(w)
      PROVE  Conservation'
  <2>1. Busy' = Busy
    BY <1>5, <1>a DEF Leave, RunTask, Busy
  <2> QED
    BY <2>1, <1>4, <1>5 DEF Leave, RunTask
<1>6. CASE Primed \/ ReturnAnswer \/ UNCHANGED runVars
  <2>1. Busy' = Busy
    BY <1>6 DEF Primed, ReturnAnswer, runVars, Busy
  <2> QED
    BY <2>1, <1>4, <1>6 DEF Primed, ReturnAnswer, runVars
<1> QED
  BY <1>1, <1>2, <1>3, <1>5, <1>6 DEF RunNext, Controller, Worker

\* No task is handed out yet.
LEMMA ConservationInit == RunInit => Conservation
<1> SUFFICES ASSUME RunInit PROVE Conservation
  OBVIOUS
<1>1. Busy = {}
  BY DEF RunInit, Busy
<1>2. Len(errChan) = 0 /\ sent = 0 /\ completed = 0 /\ N \in Int
  BY RunAssumption DEF RunAssumption, RunInit
<1>3. Cardinality(Busy) = 0
  BY <1>1, FS_EmptySet
<1> QED
  BY <1>2, <1>3 DEF Conservation, InProgress

\* A worker that has a result can always hand it over: the capacity n of the
\* result channel is enough for any number of tasks, also after the limit.
THEOREM ReportsHaveRoom == RunSpec => []ReportNeverBlocks
<1>1. RunInit => RunInv /\ Conservation
  BY RunInvInit, ConservationInit
<1>2. RunInv /\ Conservation /\ [RunNext]_runVars => (RunInv /\ Conservation)'
  BY RunInvNext, ConservationNext
<1>3. RunInv /\ Conservation => ReportNeverBlocks
  <2> SUFFICES ASSUME RunInv, Conservation, NEW w \in Workers, worker[w] = "report"
               PROVE  Len(errChan) < N
    BY DEF ReportNeverBlocks
  <2>1. w \in Busy
    BY DEF Busy
  <2>2. Cardinality(Busy) # 0
    BY <2>1, BusyFacts, FS_EmptySet
  <2>3. N > 0 /\ N \in Int
    BY RunAssumption DEF RunAssumption, Workers
  <2>4. Len(errChan) \in Nat
    BY DEF RunInv, RunTypeOK
  <2> QED
    BY <2>2, <2>3, <2>4, BusyFacts DEF Conservation, InProgress
<1> QED
  BY <1>1, <1>2, <1>3, PTL DEF RunSpec

----------------------------------------------------------------------------
(* The answer *)

\* The workers with a result, and those whose result is an error.
Reporting == {w \in Workers : worker[w] = "report"}
Failing == {w \in Reporting : taskErr[w] = "error"}

\* What the controller has done when it leaves, and what Run then returns.
SettledInv ==
  /\ ctl = "exited" /\ N > 0 => IF runDone THEN errorCount >= M ELSE completed = T
  /\ caller = "returned" /\ N > 0 =>
       /\ AllExited
       /\ runResult = IF errorCount >= M THEN "limit" ELSE "nil"

\* Until the limit every task that ran is received, in the channel or held.
RanInv == ~runDone => ran = completed + Len(errChan) + Cardinality(Reporting)

\* f adds the errors in a channel ch, one after the other, to the first c.
Sums(f, ch, c) ==
  /\ f \in [0 .. Len(ch) -> Nat]
  /\ f[0] = c
  /\ \A i \in 1 .. Len(ch) :
       f[i] = f[i - 1] + (IF ch[i] = "error" THEN 1 ELSE 0)
  /\ \A i, j \in 0 .. Len(ch) : i <= j => f[i] <= f[j]

\* No failure is invented, and until the limit none is lost.
Tally ==
  \E f : /\ Sums(f, errChan, errorCount)
         /\ f[Len(errChan)] + Cardinality(Failing) <= failures
         /\ ~runDone => f[Len(errChan)] + Cardinality(Failing) = failures

AnswerInv == RunInv /\ Conservation /\ SettledInv /\ RanInv /\ Tally

\* Both sets are finite.
LEMMA ReportingFacts ==
  /\ IsFiniteSet(Reporting) /\ Cardinality(Reporting) \in Nat
  /\ IsFiniteSet(Failing) /\ Cardinality(Failing) \in Nat
<1>1. IsFiniteSet(Reporting)
  BY LimitFacts, FS_Subset DEF Reporting
<1>2. IsFiniteSet(Failing)
  BY <1>1, FS_Subset DEF Failing
<1> QED
  BY <1>1, <1>2, FS_CardinalityType

\* The controller leaves for one of two reasons, and Run answers by them.
LEMMA SettledNext ==
  RunInv /\ SettledInv /\ [RunNext]_runVars => SettledInv'
<1> SUFFICES ASSUME RunInv, SettledInv, [RunNext]_runVars PROVE SettledInv'
  OBVIOUS
<1> USE DEF control, history
<1>a. /\ N \in Int /\ T \in Nat /\ completed \in 0 .. T /\ errorCount \in 0 .. T
      /\ runDone \in BOOLEAN /\ M \in Nat
      /\ caller = "returned" /\ N > 0 => ctl = "exited"
      /\ ctl # "exited" => ~runDone
  BY RunAssumption, LimitFacts
     DEF RunAssumption, RunInv, RunTypeOK, ControlInv, SettledInv, AllExited
<1>1. ASSUME NEW w \in Workers, Prime(w) \/ Feed(w)
      PROVE  SettledInv'
  BY <1>1, <1>a DEF Prime, Feed, HandOut, MoreResults, SettledInv
<1>2. CASE Primed
  BY <1>2, <1>a DEF Primed, SettledInv
<1>3. CASE CollectLimit
  BY <1>3, <1>a, ReceiveFacts DEF CollectLimit, ReceiveErr, SettledInv
<1>4. CASE CollectAndFeed \/ CollectAndClose
  BY <1>4, <1>a, ReceiveFacts
     DEF CollectAndFeed, CollectAndClose, ReceiveErr, MoreResults, SettledInv
<1>5. ASSUME NEW w \in Workers, Worker(w)
      PROVE  SettledInv'
  <2>1. UNCHANGED <<caller, runResult, ctl, runDone, completed, errorCount>>
    BY <1>5 DEF Worker, Leave, RunTask, Report, Drop
  <2>2. worker[w] # "exited"
    BY <1>5 DEF Worker, Leave, RunTask, Report, Drop
  <2> QED
    BY <2>1, <2>2, <1>a DEF SettledInv, AllExited
<1>6. CASE ReturnAnswer
  BY <1>6 DEF ReturnAnswer, SettledInv, AllExited
<1>7. CASE UNCHANGED runVars
  BY <1>7 DEF runVars, SettledInv, AllExited
<1> QED
  BY <1>1, <1>2, <1>3, <1>4, <1>5, <1>6, <1>7 DEF RunNext, Controller

\* Every step of Run accounts for the tasks that ran.
LEMMA RanNext ==
  RunInv /\ RanInv /\ [RunNext]_runVars => RanInv'
<1> SUFFICES ASSUME RunInv, RanInv, [RunNext]_runVars PROVE RanInv'
  OBVIOUS
<1> USE DEF control, history
<1>a. /\ completed \in Nat /\ errChan \in Seq(Outcomes) /\ Len(errChan) \in Nat
      /\ worker \in [Workers -> {"recv", "run", "report", "exited"}]
      /\ ran \in Nat /\ runDone \in BOOLEAN
  BY DEF RunInv, RunTypeOK
<1>1. ASSUME NEW w \in Workers, Prime(w) \/ Feed(w)
      PROVE  RanInv'
  <2>1. /\ worker[w] = "recv" /\ worker' = [worker EXCEPT ![w] = "run"]
        /\ UNCHANGED <<completed, runDone, errChan, ran>>
    BY <1>1 DEF Prime, Feed, HandOut
  <2>2. Reporting' = Reporting
    BY <2>1, <1>a DEF Reporting
  <2> QED
    BY <2>1, <2>2 DEF RanInv
<1>2. CASE CollectLimit \/ CollectAndFeed \/ CollectAndClose
  <2>1. ReceiveErr /\ ~runDone
    BY <1>2 DEF CollectLimit, CollectAndFeed, CollectAndClose, ReceiveErr, RunInv,
       ControlInv
  <2>2. /\ Len(errChan') = Len(errChan) - 1 /\ completed' = completed + 1
        /\ ran' = ran /\ Reporting' = Reporting
    BY <2>1, <1>a DEF ReceiveErr, Reporting
  <2> QED
    BY <2>1, <2>2, <1>a, ReportingFacts DEF RanInv
<1>3. ASSUME NEW w \in Workers, RunTask(w)
      PROVE  RanInv'
  <2>1. /\ worker[w] = "run" /\ worker' = [worker EXCEPT ![w] = "report"]
        /\ ran' = ran + 1 /\ UNCHANGED <<completed, runDone, errChan>>
    BY <1>3 DEF RunTask
  <2>2. Reporting' = Reporting \cup {w} /\ w \notin Reporting
    BY <2>1, <1>a DEF Reporting
  <2>3. Cardinality(Reporting') = Cardinality(Reporting) + 1
    BY <2>2, ReportingFacts, FS_AddElement
  <2> QED
    BY <2>1, <2>3, <1>a, ReportingFacts DEF RanInv
<1>4. ASSUME NEW w \in Workers, Report(w)
      PROVE  RanInv'
  <2>1. /\ worker[w] = "report" /\ worker' = [worker EXCEPT ![w] = "recv"]
        /\ UNCHANGED <<completed, runDone, ran>>
        /\ Len(errChan') = Len(errChan) + 1
    BY <1>4, <1>a DEF Report, RunInv, RunTypeOK
  <2>2. Reporting' = Reporting \ {w} /\ w \in Reporting
    BY <2>1, <1>a DEF Reporting
  <2>3. Cardinality(Reporting') = Cardinality(Reporting) - 1
    BY <2>2, ReportingFacts, FS_RemoveElement
  <2> QED
    BY <2>1, <2>3, <1>a, ReportingFacts DEF RanInv
<1>5. ASSUME NEW w \in Workers, Drop(w)
      PROVE  RanInv'
  BY <1>5 DEF Drop, RanInv
<1>6. ASSUME NEW w \in Workers, Leave(w)
      PROVE  RanInv'
  <2>1. Reporting' = Reporting
    BY <1>6, <1>a DEF Leave, Reporting
  <2> QED
    BY <2>1, <1>6 DEF Leave, RanInv
<1>7. CASE Primed \/ ReturnAnswer \/ UNCHANGED runVars
  <2>1. Reporting' = Reporting
    BY <1>7 DEF Primed, ReturnAnswer, runVars, Reporting
  <2> QED
    BY <2>1, <1>7 DEF Primed, ReturnAnswer, runVars, RanInv
<1> QED
  BY <1>1, <1>2, <1>3, <1>4, <1>5, <1>6, <1>7 DEF RunNext, Controller, Worker

\* Receiving takes the first error of the channel into the count.
LEMMA SumsReceive ==
  ASSUME RunInv, ReceiveErr, NEW f, Sums(f, errChan, errorCount)
  PROVE  \E g : /\ Sums(g, errChan', errorCount')
                /\ g[Len(errChan')] = f[Len(errChan)]
<1> DEFINE n == Len(errChan)
           g == [i \in 0 .. n - 1 |-> f[i + 1]]
<1>1. /\ errChan \in Seq(Outcomes) /\ n \in Nat /\ n > 0 /\ errorCount \in Nat
      /\ errChan' = Tail(errChan) /\ Len(errChan') = n - 1
      /\ errorCount' = IF Head(errChan) = "error" THEN errorCount + 1 ELSE errorCount
      /\ \A i \in 1 .. n - 1 : errChan'[i] = errChan[i + 1]
      /\ Head(errChan) = errChan[1]
  BY DEF ReceiveErr, RunInv, RunTypeOK
<1>2. /\ f \in [0 .. n -> Nat] /\ f[0] = errorCount
      /\ \A i \in 1 .. n :
           f[i] = f[i - 1] + (IF errChan[i] = "error" THEN 1 ELSE 0)
      /\ \A i, j \in 0 .. n : i <= j => f[i] <= f[j]
  BY DEF Sums
<1>3. \A i \in 0 .. n - 1 : i + 1 \in 0 .. n /\ g[i] = f[i + 1]
  BY <1>1
<1>4. g \in [0 .. n - 1 -> Nat]
  BY <1>1, <1>2, <1>3
<1>5. g[0] = errorCount'
  <2>1. g[0] = f[1] /\ f[1] = f[0] + (IF errChan[1] = "error" THEN 1 ELSE 0)
    BY <1>1, <1>2, <1>3
  <2> QED
    BY <2>1, <1>1, <1>2
<1>6. ASSUME NEW i \in 1 .. n - 1
      PROVE  g[i] = g[i - 1] + (IF errChan'[i] = "error" THEN 1 ELSE 0)
  <2>1. /\ i \in 0 .. n - 1 /\ i - 1 \in 0 .. n - 1 /\ i + 1 \in 1 .. n
        /\ (i - 1) + 1 = i /\ (i + 1) - 1 = i
    BY <1>1
  <2>2. g[i] = f[i + 1] /\ g[i - 1] = f[i]
    BY <2>1, <1>3
  <2>3. f[i + 1] = f[i] + (IF errChan[i + 1] = "error" THEN 1 ELSE 0)
    BY <2>1, <1>2
  <2> QED
    BY <2>2, <2>3, <1>1
<1>7. ASSUME NEW i \in 0 .. n - 1, NEW j \in 0 .. n - 1, i <= j
      PROVE  g[i] <= g[j]
  BY <1>1, <1>2, <1>3, <1>7
<1>8. g[n - 1] = f[n]
  BY <1>1, <1>3
<1>9. Sums(g, errChan', errorCount')
  BY <1>1, <1>4, <1>5, <1>6, <1>7 DEF Sums
<1> HIDE DEF g
<1> QED
  BY <1>1, <1>8, <1>9

\* A report puts its error behind the others.
LEMMA SumsReport ==
  ASSUME RunInv, NEW w \in Workers, Report(w), NEW f, Sums(f, errChan, errorCount)
  PROVE  \E g : /\ Sums(g, errChan', errorCount')
                /\ g[Len(errChan')] = f[Len(errChan)]
                     + (IF taskErr[w] = "error" THEN 1 ELSE 0)
<1> DEFINE n == Len(errChan)
           d == IF taskErr[w] = "error" THEN 1 ELSE 0
           g == [i \in 0 .. n + 1 |-> IF i = n + 1 THEN f[n] + d ELSE f[i]]
<1>1. /\ errChan \in Seq(Outcomes) /\ n \in Nat /\ taskErr[w] \in Outcomes
      /\ errChan' = Append(errChan, taskErr[w]) /\ Len(errChan') = n + 1
      /\ errorCount' = errorCount
      /\ \A i \in 1 .. n : errChan'[i] = errChan[i]
      /\ errChan'[n + 1] = taskErr[w]
  BY DEF Report, RunInv, RunTypeOK, control
<1>2. /\ f \in [0 .. n -> Nat] /\ f[0] = errorCount
      /\ \A i \in 1 .. n :
           f[i] = f[i - 1] + (IF errChan[i] = "error" THEN 1 ELSE 0)
      /\ \A i, j \in 0 .. n : i <= j => f[i] <= f[j]
  BY DEF Sums
<1>3. d \in Nat /\ f[n] \in Nat
  BY <1>1, <1>2
<1>4. /\ \A i \in 0 .. n : g[i] = f[i]
      /\ g[n + 1] = f[n] + d
  BY <1>1
<1>5. g \in [0 .. n + 1 -> Nat]
  <2>1. \A i \in 0 .. n + 1 : i = n + 1 \/ i \in 0 .. n
    BY <1>1
  <2> QED
    BY <2>1, <1>2, <1>3
<1> HIDE DEF g
<1>6. g[0] = errorCount'
  BY <1>1, <1>2, <1>4
<1>7. ASSUME NEW i \in 1 .. n + 1
      PROVE  g[i] = g[i - 1] + (IF errChan'[i] = "error" THEN 1 ELSE 0)
  <2>1. CASE i = n + 1
    BY <2>1, <1>1, <1>4
  <2>2. CASE i # n + 1
    <3>1. i \in 1 .. n /\ i \in 0 .. n /\ i - 1 \in 0 .. n
      BY <2>2, <1>1
    <3> QED
      BY <3>1, <1>1, <1>2, <1>4
  <2> QED
    BY <2>1, <2>2
<1>8. ASSUME NEW i \in 0 .. n + 1, NEW j \in 0 .. n + 1, i <= j
      PROVE  g[i] <= g[j]
  <2> HIDE DEF d
  <2>1. CASE j # n + 1
    BY <2>1, <1>1, <1>2, <1>4, <1>8, SMTT(30)
  <2>2. CASE j = n + 1 /\ i # n + 1
    <3>1. i \in 0 .. n /\ n \in 0 .. n /\ i <= n
      BY <2>2, <1>1
    <3>2. f[i] \in Nat /\ f[i] <= f[n]
      BY <3>1, <1>2
    <3>3. g[i] = f[i] /\ g[j] = f[n] + d
      BY <3>1, <2>2, <1>4
    <3> QED
      BY <3>2, <3>3, <1>3
  <2>3. CASE i = n + 1
    BY <2>3, <1>1, <1>8, <1>3, <1>4
  <2> QED
    BY <2>1, <2>2, <2>3
<1>9. Sums(g, errChan', errorCount')
  BY <1>1, <1>5, <1>6, <1>7, <1>8 DEF Sums
<1> QED
  BY <1>1, <1>4, <1>9

\* Every step of Run accounts for the failures.
LEMMA TallyNext ==
  RunInv /\ Tally /\ [RunNext]_runVars => Tally'
<1> SUFFICES ASSUME RunInv, Tally, [RunNext]_runVars PROVE Tally'
  OBVIOUS
<1> USE DEF control, history
<1>a. /\ errorCount \in Nat /\ errChan \in Seq(Outcomes) /\ Len(errChan) \in Nat
      /\ worker \in [Workers -> {"recv", "run", "report", "exited"}]
      /\ taskErr \in [Workers -> Outcomes]
      /\ failures \in Nat /\ runDone \in BOOLEAN
  BY DEF RunInv, RunTypeOK
<1>b. PICK f : /\ Sums(f, errChan, errorCount)
               /\ f[Len(errChan)] + Cardinality(Failing) <= failures
               /\ ~runDone => f[Len(errChan)] + Cardinality(Failing) = failures
  BY DEF Tally
<1>c. f[Len(errChan)] \in Nat
  BY <1>a, <1>b DEF Sums
<1>d. Cardinality(Failing) \in Nat /\ IsFiniteSet(Failing)
  BY ReportingFacts
<1>1. ASSUME UNCHANGED <<errorCount, errChan, failures, runDone>>, Failing' = Failing
      PROVE  Tally'
  BY <1>1, <1>b DEF Tally
<1>2. ASSUME NEW w \in Workers, Prime(w) \/ Feed(w) \/ Leave(w)
      PROVE  Tally'
  <2>1. /\ worker[w] = "recv"
        /\ \/ worker' = [worker EXCEPT ![w] = "run"]
           \/ worker' = [worker EXCEPT ![w] = "exited"]
        /\ UNCHANGED <<errorCount, errChan, failures, runDone, taskErr>>
    BY <1>2 DEF Prime, Feed, Leave, HandOut
  <2>2. Failing' = Failing
    BY <2>1, <1>a DEF Failing, Reporting
  <2> QED
    BY <2>1, <2>2, <1>1
<1>3. CASE Primed \/ ReturnAnswer \/ UNCHANGED runVars
  <2>1. UNCHANGED <<errorCount, errChan, failures, runDone, worker, taskErr>>
    BY <1>3 DEF Primed, ReturnAnswer, runVars
  <2>2. Failing' = Failing
    BY <2>1 DEF Failing, Reporting
  <2> QED
    BY <2>1, <2>2, <1>1
<1>4. CASE CollectLimit \/ CollectAndFeed \/ CollectAndClose
  <2>1. /\ ReceiveErr /\ ~runDone /\ UNCHANGED <<failures, worker, taskErr>>
    BY <1>4 DEF CollectLimit, CollectAndFeed, CollectAndClose, ReceiveErr, RunInv,
       ControlInv
  <2>2. Failing' = Failing
    BY <2>1 DEF Failing, Reporting
  <2>3. PICK g : /\ Sums(g, errChan', errorCount')
                 /\ g[Len(errChan')] = f[Len(errChan)]
    BY <2>1, <1>b, SumsReceive
  <2>4. g[Len(errChan')] + Cardinality(Failing') = failures'
    BY <2>1, <2>2, <2>3, <1>b
  <2>5. g[Len(errChan')] + Cardinality(Failing') <= failures'
    BY <2>1, <2>2, <2>3, <1>b
  <2> QED
    BY <2>3, <2>4, <2>5 DEF Tally
<1>5. ASSUME NEW w \in Workers, RunTask(w)
      PROVE  Tally'
  <2>1. PICK err \in Outcomes :
          /\ taskErr' = [taskErr EXCEPT ![w] = err]
          /\ failures' = IF err = "error" THEN failures + 1 ELSE failures
    BY <1>5 DEF RunTask
  <2>2. /\ worker[w] = "run" /\ worker' = [worker EXCEPT ![w] = "report"]
        /\ UNCHANGED <<errorCount, errChan, runDone>>
    BY <1>5 DEF RunTask
  <2>3. w \notin Failing
    BY <2>2 DEF Failing, Reporting
  <2>4. CASE err = "error"
    <3>1. Failing' = Failing \cup {w}
      BY <2>1, <2>2, <2>4, <1>a DEF Failing, Reporting
    <3>2. Cardinality(Failing') = Cardinality(Failing) + 1
      BY <3>1, <2>3, <1>d, FS_AddElement
    <3>3. /\ f[Len(errChan')] + Cardinality(Failing') <= failures'
          /\ ~runDone' => f[Len(errChan')] + Cardinality(Failing') = failures'
      <4>1. failures' = failures + 1
        BY <2>1, <2>4
      <4>2. f[Len(errChan')] = f[Len(errChan)] /\ runDone' = runDone
        BY <2>2
      <4>3. \A a, b, c \in Nat : /\ a + b <= c => a + (b + 1) <= c + 1
                               /\ a + b = c => a + (b + 1) = c + 1
        OBVIOUS
      <4>4. /\ f[Len(errChan)] + Cardinality(Failing') <= failures'
            /\ ~runDone => f[Len(errChan)] + Cardinality(Failing') = failures'
        BY <4>1, <4>3, <3>2, <1>a, <1>b, <1>c, <1>d
      <4> QED
        BY <4>2, <4>4
    <3> QED
      BY <3>3, <2>2, <1>b DEF Tally
  <2>5. CASE err # "error"
    <3>1. Failing' = Failing
      BY <2>1, <2>2, <2>3, <2>5, <1>a DEF Failing, Reporting
    <3> QED
      BY <3>1, <2>1, <2>2, <2>5, <1>1
  <2> QED
    BY <2>4, <2>5
<1>6. ASSUME NEW w \in Workers, Report(w)
      PROVE  Tally'
  <2> DEFINE d == IF taskErr[w] = "error" THEN 1 ELSE 0
  <2>1. /\ worker[w] = "report" /\ worker' = [worker EXCEPT ![w] = "recv"]
        /\ UNCHANGED <<failures, runDone, taskErr>>
    BY <1>6 DEF Report
  <2>2. Failing' = Failing \ {w} /\ (w \in Failing <=> taskErr[w] = "error")
    BY <2>1, <1>a DEF Failing, Reporting
  <2>3. Cardinality(Failing') + d = Cardinality(Failing)
    <3>1. CASE w \in Failing
      <4>1. Cardinality(Failing \ {w}) = Cardinality(Failing) - 1
        BY <3>1, <1>d, FS_RemoveElement
      <4> QED
        BY <4>1, <3>1, <2>2, <1>d
    <3>2. CASE w \notin Failing
      <4>1. Cardinality(Failing') = Cardinality(Failing)
        <5>1. Failing' = Failing
          BY <3>2, <2>2
        <5> QED
          BY <5>1
      <4>2. d = 0
        BY <3>2, <2>2
      <4> QED
        BY <4>1, <4>2, <1>d
    <3> QED
      BY <3>1, <3>2
  <2>4. PICK g : /\ Sums(g, errChan', errorCount')
                 /\ g[Len(errChan')] = f[Len(errChan)] + d
    BY <1>6, <1>b, SumsReport
  <2>5. Cardinality(Failing') \in Nat /\ d \in Nat
    BY <2>2, <1>d, FS_Subset, FS_CardinalityType
  <2> HIDE DEF d
  <2>6. g[Len(errChan')] + Cardinality(Failing')
          = f[Len(errChan)] + Cardinality(Failing)
    BY <2>3, <2>4, <2>5, <1>c, <1>d
  <2>7. /\ g[Len(errChan')] + Cardinality(Failing') <= failures'
        /\ ~runDone' => g[Len(errChan')] + Cardinality(Failing') = failures'
    BY <2>1, <2>6, <1>b
  <2> QED
    BY <2>4, <2>7 DEF Tally
<1>7. ASSUME NEW w \in Workers, Drop(w)
      PROVE  Tally'
  <2>1. /\ worker[w] = "report" /\ worker' = [worker EXCEPT ![w] = "recv"] /\ runDone
        /\ UNCHANGED <<errorCount, errChan, failures, runDone, taskErr>>
    BY <1>7 DEF Drop
  <2>2. Failing' \subseteq Failing
    BY <2>1, <1>a DEF Failing, Reporting
  <2>3. Cardinality(Failing') <= Cardinality(Failing) /\ Cardinality(Failing') \in Nat
    BY <2>2, <1>d, FS_Subset, FS_CardinalityType
  <2>4. f[Len(errChan')] + Cardinality(Failing') <= failures'
    BY <2>1, <2>3, <1>a, <1>b, <1>c, <1>d
  <2> QED
    BY <2>1, <2>4, <1>b DEF Tally
<1> QED
  BY <1>2, <1>3, <1>4, <1>5, <1>6, <1>7 DEF RunNext, Controller, Worker

\* Run starts with nothing to account for.
LEMMA AnswerInit == RunInit => SettledInv /\ RanInv /\ Tally
<1> SUFFICES ASSUME RunInit PROVE SettledInv /\ RanInv /\ Tally
  OBVIOUS
<1>1. /\ errChan = <<>> /\ Len(errChan) = 0 /\ errorCount = 0 /\ completed = 0
      /\ failures = 0 /\ ran = 0
      /\ \A w \in Workers : worker[w] = "recv"
  BY DEF RunInit
<1>2. SettledInv
  BY RunAssumption DEF RunAssumption, RunInit, SettledInv
<1>3. Reporting = {} /\ Failing = {} /\ Cardinality({}) = 0
  BY <1>1, FS_EmptySet DEF Reporting, Failing
<1>4. RanInv
  BY <1>1, <1>3 DEF RanInv
<1>5. Tally
  <2> DEFINE f == [i \in 0 .. 0 |-> 0]
  <2>1. f \in [0 .. 0 -> Nat] /\ f[0] = 0
    BY SMT
  <2>2. \A i, j \in 0 .. 0 : f[i] <= f[j]
    BY SMT
  <2> HIDE DEF f
  <2>3. Sums(f, errChan, errorCount)
    BY <1>1, <2>1, <2>2 DEF Sums
  <2>4. f[Len(errChan)] + Cardinality(Failing) = failures
    BY <1>1, <1>3, <2>1
  <2>5. f[Len(errChan)] + Cardinality(Failing) <= failures
    BY <1>1, <1>3, <2>1
  <2> QED
    BY <2>3, <2>4, <2>5 DEF Tally
<1> QED
  BY <1>2, <1>4, <1>5

\* When Run has returned, what it counted is what happened.
LEMMA AnswerFollows == AnswerInv => ResultIsRight
<1> SUFFICES ASSUME AnswerInv, caller = "returned", N > 0
             PROVE  /\ runResult = "nil" => ran = T /\ failures < M
                    /\ runResult = "limit" => failures >= M
  BY DEF ResultIsRight
<1>1. /\ AllExited /\ runResult = IF errorCount >= M THEN "limit" ELSE "nil"
      /\ IF runDone THEN errorCount >= M ELSE completed = T
  BY DEF AnswerInv, SettledInv, AllExited
<1>2. /\ errorCount \in Nat /\ errChan \in Seq(Outcomes) /\ Len(errChan) \in Nat
      /\ sent \in 0 .. T /\ T \in Nat /\ M \in Nat /\ failures \in Nat
      /\ ran \in Nat /\ runDone \in BOOLEAN
  BY RunAssumption, LimitFacts DEF RunAssumption, AnswerInv, RunInv, RunTypeOK
<1>3. Reporting = {} /\ Failing = {} /\ Cardinality({}) = 0
  BY <1>1, FS_EmptySet DEF AllExited, Reporting, Failing
<1>4. PICK f : /\ Sums(f, errChan, errorCount)
               /\ f[Len(errChan)] + Cardinality(Failing) <= failures
               /\ ~runDone => f[Len(errChan)] + Cardinality(Failing) = failures
  BY DEF AnswerInv, Tally
<1>5. /\ f[0] = errorCount /\ f[Len(errChan)] \in Nat
      /\ f[0] <= f[Len(errChan)]
  BY <1>2, <1>4 DEF Sums
<1>6. CASE runDone
  BY <1>1, <1>2, <1>3, <1>4, <1>5, <1>6
<1>7. CASE ~runDone
  <2>1. completed = T /\ sent = completed + InProgress
    BY <1>1, <1>7 DEF AnswerInv, Conservation
  <2>2. Len(errChan) = 0
    BY <2>1, <1>2, <1>3, BusyFacts DEF InProgress
  <2>3. ran = T /\ failures = errorCount
    BY <2>1, <2>2, <1>2, <1>3, <1>4, <1>5, <1>7 DEF AnswerInv, RanInv
  <2> QED
    BY <2>3, <1>1, <1>2
<1> QED
  BY <1>6, <1>7, <1>2

\* Whatever the results' order and however many are dropped at the end, nil
\* means that every task ran and fewer than m failed, and the error that at
\* least m did.
THEOREM AnswerIsRight == RunSpec => []ResultIsRight
<1>1. RunInit => AnswerInv
  BY RunInvInit, ConservationInit, AnswerInit DEF AnswerInv
<1>2. AnswerInv /\ [RunNext]_runVars => AnswerInv'
  BY RunInvNext, ConservationNext, SettledNext, RanNext, TallyNext DEF AnswerInv
<1>3. AnswerInv => ResultIsRight
  BY AnswerFollows
<1> QED
  BY <1>1, <1>2, <1>3, PTL DEF RunSpec
=============================================================================
