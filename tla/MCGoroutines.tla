---------------------------- MODULE MCGoroutines ----------------------------
(***************************************************************************)
(* The programs of goroutines in one instance: a behaviour is one of Run,  *)
(* of ExecutePipeline, of the telnet client or of the calendar process.    *)
(***************************************************************************)
EXTENDS ParallelRun, Pipeline, Telnet, CalendarMain

VARIABLE program   \* the program of this behaviour

mcVars == <<runVars, pipelineVars, telnetVars, calendarVars, program>>

\* A Run that is over, in the behaviours of the others.
RunOver ==
  /\ caller = "returned" /\ runResult = "none"
  /\ ctl = "exited" /\ worker = [w \in Workers |-> "exited"]
  /\ sent = 0 /\ completed = 0 /\ errorCount = 0 /\ errChan = <<>>
  /\ taskChanClosed = FALSE /\ runDone = FALSE
  /\ taskErr = [w \in Workers |-> "nil"] /\ ran = 0 /\ failures = 0

\* The programs that do not run stay as they start.
MCInit ==
  /\ program \in {"run", "pipeline", "telnet", "calendar"}
  /\ IF program = "run" THEN RunInit ELSE RunOver
  /\ PipelineInit /\ (program = "pipeline" \/ done = "nil")
  /\ TelnetInit
  /\ CalendarInit

Tasks(A) ==
  /\ program = "run" /\ A
  /\ UNCHANGED <<pipelineVars, telnetVars, calendarVars, program>>

Piping(A) ==
  /\ program = "pipeline" /\ A
  /\ UNCHANGED <<runVars, telnetVars, calendarVars, program>>

Client(A) ==
  /\ program = "telnet" /\ A
  /\ UNCHANGED <<runVars, pipelineVars, calendarVars, program>>

Calendar(A) ==
  /\ program = "calendar" /\ A
  /\ UNCHANGED <<runVars, pipelineVars, telnetVars, program>>

MCNext ==
  \/ Tasks(RunNext) \/ Piping(PipelineNext)
  \/ Client(TelnetNext) \/ Calendar(CalendarNext)

\* Every goroutine that can run is scheduled, and every task ends.
RunFairness ==
  /\ WF_mcVars(Tasks(Controller)) /\ WF_mcVars(Tasks(ReturnAnswer))
  /\ \A w \in Workers : WF_mcVars(Tasks(Worker(w)))

\* Nobody has to close done, and the source may stop for good before any value.
PipelineFairness ==
  /\ \A i \in Links : WF_mcVars(Piping(Forward(i))) /\ WF_mcVars(Piping(Stage(i)))
  /\ WF_mcVars(Piping(Main))

\* The client's goroutines are scheduled, dialling has a timeout, and a peer that
\* is neither closed nor reset goes on reading; nothing is asked of the user.
ClientFairness ==
  /\ WF_mcVars(Client(Run)) /\ WF_mcVars(Client(Send)) /\ WF_mcVars(Client(Receive))

\* The Go scheduler runs every goroutine, and every handler answers in the end:
\* each is bounded by its store, which has no lock held across requests.
CalendarFairness ==
  /\ WF_mcVars(Calendar(MainStep)) /\ WF_mcVars(Calendar(ServeGrpc))
  /\ WF_mcVars(Calendar(Listener)) /\ WF_mcVars(Calendar(Stopper))
  /\ \A r \in Clients : WF_mcVars(Calendar(Answer(r)))

MCSpec ==
  /\ MCInit
  /\ [][MCNext]_mcVars
  /\ RunFairness /\ PipelineFairness /\ ClientFairness /\ CalendarFairness
=============================================================================
