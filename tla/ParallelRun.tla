---------------------------- MODULE ParallelRun ----------------------------
(***************************************************************************)
(* Run(tasks, n, m) of hw05_parallel_execution: a controller goroutine     *)
(* hands the tasks to n workers over an unbuffered channel, counts their   *)
(* errors from a buffered one, and closes done at the m-th error.          *)
(*                                                                         *)
(* A task is its number; running it takes some time and fails or not.  A   *)
(* transfer over the unbuffered channel is one step of both goroutines.    *)
(***************************************************************************)
EXTENDS Integers, Sequences, FiniteSets

CONSTANTS
  T,      \* len(tasks)
  N,      \* n
  MArg    \* m

ASSUME RunAssumption == T \in Nat /\ N \in Int /\ MArg \in Int

\* m <= 0 is taken as 1.
M == IF MArg <= 0 THEN 1 ELSE MArg

\* One goroutine for each i < n, i < len(tasks).
Workers == 1..(IF N < T THEN N ELSE T)

\* What a task returns.
Outcomes == {"nil", "error"}

VARIABLES
  caller,          \* the caller: "waiting" for the group, or "returned"
  runResult,       \* what Run returned: "nil" or "limit"
  ctl,             \* the controller: "prime", "collect", "feed" or "exited"
  sent,            \* tasks handed out
  completed,       \* results received
  errorCount,      \* errors among them
  taskChanClosed,
  runDone,         \* whether done is closed
  errChan,         \* results on their way
  worker,          \* each worker: "recv", "run", "report" or "exited"
  taskErr,         \* what the task of a worker returned
  ran,             \* history: tasks that ran to their end
  failures         \* history: how many of them failed

control == <<ctl, sent, completed, errorCount, taskChanClosed, runDone>>
history == <<ran, failures>>
runVars == <<caller, runResult, control, errChan, worker, taskErr, history>>

\* Type invariant; the channel never holds more than its capacity n.
RunTypeOK ==
  /\ caller \in {"waiting", "returned"}
  /\ runResult \in {"none", "nil", "limit"}
  /\ ctl \in {"prime", "collect", "feed", "exited"}
  /\ sent \in 0..T /\ completed \in 0..T /\ errorCount \in 0..T
  /\ taskChanClosed \in BOOLEAN /\ runDone \in BOOLEAN
  /\ errChan \in Seq(Outcomes) /\ (N > 0 => Len(errChan) <= N)
  /\ worker \in [Workers -> {"recv", "run", "report", "exited"}]
  /\ taskErr \in [Workers -> Outcomes]
  /\ ran \in Nat /\ failures \in Nat

\* With n <= 0 Run returns nil and starts nothing.
RunInit ==
  /\ caller = IF N <= 0 THEN "returned" ELSE "waiting"
  /\ runResult = IF N <= 0 THEN "nil" ELSE "none"
  /\ ctl = IF N <= 0 THEN "exited" ELSE "prime"
  /\ sent = 0 /\ completed = 0 /\ errorCount = 0
  /\ taskChanClosed = FALSE /\ runDone = FALSE
  /\ errChan = <<>>
  /\ worker = [w \in Workers |-> "recv"]
  /\ taskErr = [w \in Workers |-> "nil"]
  /\ ran = 0 /\ failures = 0

----------------------------------------------------------------------------
(* The controller *)

\* for completed < totalTasks
MoreResults == completed' < T

\* taskChan <- tasks[sent], received by worker w.
HandOut(w) ==
  /\ worker[w] = "recv"
  /\ worker' = [worker EXCEPT ![w] = "run"]
  /\ sent' = sent + 1
  /\ UNCHANGED <<caller, runResult, completed, errorCount, taskChanClosed,
                 runDone, errChan, taskErr, history>>

\* Mutant: one task too many; and the channel's room is not minded.
PrimeOneMore(w) ==
  /\ ctl = "prime"
  /\ sent <= N /\ sent < T
  /\ HandOut(w)
  /\ UNCHANGED ctl
PrimeAll(w) ==
  /\ ctl = "prime"
  /\ sent < T
  /\ HandOut(w)
  /\ UNCHANGED ctl

\* The first n tasks.
Prime(w) ==
  /\ ctl = "prime"
  /\ sent < N /\ sent < T
  /\ HandOut(w)
  /\ UNCHANGED ctl

Primed ==
  /\ ctl = "prime"
  /\ ~(sent < N /\ sent < T)
  /\ ctl' = IF completed < T THEN "collect" ELSE "exited"
  /\ UNCHANGED <<caller, runResult, sent, completed, errorCount,
                 taskChanClosed, runDone, errChan, worker, taskErr, history>>

\* One result: err, ok := <-errChan.
ReceiveErr ==
  /\ ctl = "collect"
  /\ errChan # <<>>
  /\ errChan' = Tail(errChan)
  /\ completed' = completed + 1
  /\ errorCount' = IF Head(errChan) = "error" THEN errorCount + 1 ELSE errorCount
  /\ UNCHANGED <<caller, runResult, sent, worker, taskErr, history>>

LimitReached == Head(errChan) = "error" /\ errorCount' >= M

CollectLimit ==
  /\ ReceiveErr
  /\ LimitReached
  /\ runDone' = TRUE
  /\ ctl' = "exited"
  /\ UNCHANGED taskChanClosed

\* Mutant: the limit is not tested.
CollectAndFeedAlways ==
  /\ ReceiveErr
  /\ sent < T
  /\ ctl' = "feed"
  /\ UNCHANGED <<taskChanClosed, runDone>>

CollectAndFeed ==
  /\ ReceiveErr
  /\ ~LimitReached
  /\ sent < T
  /\ ctl' = "feed"
  /\ UNCHANGED <<taskChanClosed, runDone>>

\* Mutant: the task channel stays open.
CollectNoClose ==
  /\ ReceiveErr
  /\ ~LimitReached
  /\ sent = T
  /\ ctl' = IF MoreResults THEN "collect" ELSE "exited"
  /\ UNCHANGED <<taskChanClosed, runDone>>

\* No task is left to hand out: the task channel is closed, once.
CollectAndClose ==
  /\ ReceiveErr
  /\ ~LimitReached
  /\ sent = T
  /\ taskChanClosed' = TRUE
  /\ ctl' = IF MoreResults THEN "collect" ELSE "exited"
  /\ UNCHANGED runDone

\* The send after a result has no alternative: it does not watch done.
Feed(w) ==
  /\ ctl = "feed"
  /\ HandOut(w)
  /\ ctl' = IF MoreResults THEN "collect" ELSE "exited"

----------------------------------------------------------------------------
(* The workers and the caller *)

\* case <-done, or the task channel closed.
Leave(w) ==
  /\ worker[w] = "recv"
  /\ runDone \/ taskChanClosed
  /\ worker' = [worker EXCEPT ![w] = "exited"]
  /\ UNCHANGED <<caller, runResult, control, errChan, taskErr, history>>

\* err := task()
RunTask(w) ==
  /\ worker[w] = "run"
  /\ worker' = [worker EXCEPT ![w] = "report"]
  /\ \E err \in Outcomes :
       /\ taskErr' = [taskErr EXCEPT ![w] = err]
       /\ failures' = IF err = "error" THEN failures + 1 ELSE failures
  /\ ran' = ran + 1
  /\ UNCHANGED <<caller, runResult, control, errChan>>

\* case errChan <- err
Report(w) ==
  /\ worker[w] = "report"
  /\ Len(errChan) < N
  /\ errChan' = Append(errChan, taskErr[w])
  /\ worker' = [worker EXCEPT ![w] = "recv"]
  /\ UNCHANGED <<caller, runResult, control, taskErr, history>>

\* case <-done: the result is dropped.
Drop(w) ==
  /\ worker[w] = "report"
  /\ runDone
  /\ worker' = [worker EXCEPT ![w] = "recv"]
  /\ UNCHANGED <<caller, runResult, control, errChan, taskErr, history>>

AllExited == ctl = "exited" /\ \A w \in Workers : worker[w] = "exited"

\* Mutant: more than m errors are needed.
ReturnLate ==
  /\ caller = "waiting"
  /\ AllExited
  /\ caller' = "returned"
  /\ runResult' = IF errorCount > M THEN "limit" ELSE "nil"
  /\ UNCHANGED <<control, errChan, worker, taskErr, history>>

\* wg.Wait() returns.
ReturnAnswer ==
  /\ caller = "waiting"
  /\ AllExited
  /\ caller' = "returned"
  /\ runResult' = IF errorCount >= M THEN "limit" ELSE "nil"
  /\ UNCHANGED <<control, errChan, worker, taskErr, history>>

----------------------------------------------------------------------------
(* The specification *)

Controller ==
  \/ Primed \/ CollectLimit \/ CollectAndFeed \/ CollectAndClose
  \/ \E w \in Workers : Prime(w) \/ Feed(w)

Worker(w) == Leave(w) \/ RunTask(w) \/ Report(w) \/ Drop(w)

RunNext == Controller \/ (\E w \in Workers : Worker(w)) \/ ReturnAnswer

RunSpec == RunInit /\ [][RunNext]_runVars

----------------------------------------------------------------------------
(* Properties *)

\* However the results interleave, what was started is at most n tasks in
\* progress, the m - 1 errors tolerated, and one task for each success: with
\* nothing but errors no more than n + m - 1 tasks start.
ErrorsBoundWork == N > 0 => sent <= N + M - 1 + (completed - errorCount)

\* nil means that every task ran and fewer than m failed; the error means that
\* at least m failed.  Dropped results must not change the answer.
ResultIsRight ==
  caller = "returned" /\ N > 0 =>
    /\ runResult = "nil" => ran = T /\ failures < M
    /\ runResult = "limit" => failures >= M

\* A worker with a result never waits for the controller: the channel has room.
ReportNeverBlocks ==
  \A w \in Workers : worker[w] = "report" => Len(errChan) < N

\* From the m-th error on no further task starts.
NoTaskAfterLimit == [][errorCount >= M => sent' = sent]_runVars

\* Run returns, and with it every goroutine it started has ended.
RunReturns == <>[](caller = "returned" /\ AllExited)
=============================================================================
