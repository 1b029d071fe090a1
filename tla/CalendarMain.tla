---------------------------- MODULE CalendarMain ----------------------------
(***************************************************************************)
(* The life of the calendar process (cmd/calendar/main.go): start-up, the  *)
(* gRPC and the HTTP server, and the shutdown at a signal, in which main,  *)
(* the shutdown goroutine and the listening goroutine race.                *)
(*                                                                         *)
(* grpc.Server and http.Server are libraries; what GracefulStop, Shutdown  *)
(* and ListenAndServe promise is part of the actions that call them.  A    *)
(* signal before NotifyContext kills the process at once and is left out.  *)
(***************************************************************************)
CONSTANTS
  Http,        \* connections of HTTP clients
  Grpc         \* connections of gRPC clients

ASSUME ClientAssumption == Http \cap Grpc = {}

VARIABLES
  main,        \* how far main has come
  code,        \* the exit status
  signalled,    \* whether the signal context is done
  store,       \* "none", or "memory", "sql", "closed"
  grpc,        \* "off", "bound" to its port, "serving", "draining", "stopped"
  http,        \* "off", "starting", "up", "closed" by Shutdown, "failed"
  listenErr,    \* what ListenAndServe returned: "empty", "bind", "closed"
  stopper,     \* the shutdown goroutine
  active,      \* connections with a request in progress
  failed,      \* history: those whose request met a closed store
  cut          \* history: those whose request the end of the process cut off

calendarVars == <<main, code, signalled, store, grpc, http, listenErr, stopper,
                  active, failed, cut>>

Clients == Http \cup Grpc

\* Type invariant of the process.
CalendarTypeOK ==
  /\ main \in {"init", "store", "listen", "select", "stopping", "returned",
               "closed", "exited"}
  /\ code \in {"none", "0", "1"}
  /\ signalled \in BOOLEAN
  /\ store \in {"none", "memory", "sql", "closed"}
  /\ grpc \in {"off", "bound", "serving", "draining", "stopped"}
  /\ http \in {"off", "starting", "up", "closed", "failed"}
  /\ listenErr \in {"empty", "bind", "closed"}
  /\ stopper \in {"none", "waiting", "draining", "stopping", "finished"}
  /\ active \subseteq Clients
  /\ failed \subseteq Clients
  /\ cut \subseteq Clients

CalendarInit ==
  /\ main = "init" /\ code = "none" /\ signalled = FALSE
  /\ store = "none" /\ grpc = "off" /\ http = "off"
  /\ listenErr = "empty" /\ stopper = "none"
  /\ active = {} /\ failed = {} /\ cut = {}

Alive == main # "exited"

\* The process ends, and with it every goroutine: os.Exit runs no deferred call.
Exit(c) ==
  /\ main' = "exited"
  /\ code' = c
  /\ cut' = cut \cup active
  /\ active' = {}
  /\ UNCHANGED <<signalled, store, grpc, http, listenErr, stopper, failed>>

----------------------------------------------------------------------------
(* main *)

\* "version" prints and ends; a bad configuration ends with status 1.
Configure ==
  /\ main = "init"
  /\ \/ Exit("0")
     \/ Exit("1")
     \/ /\ main' = "store"
        /\ UNCHANGED <<code, signalled, store, grpc, http, listenErr, stopper,
                       active, failed, cut>>

\* The store is in memory, or PostgreSQL answers a ping; then NotifyContext.
createStorage ==
  /\ main = "store"
  /\ \/ Exit("1")
     \/ /\ main' = "listen"
        /\ store' \in {"memory", "sql"}
        /\ UNCHANGED <<code, signalled, grpc, http, listenErr, stopper, active,
                       failed, cut>>

\* The gRPC port is taken; or the goroutines are started, and Start with its own.
Listen ==
  /\ main = "listen"
  /\ \/ Exit("1")
     \/ /\ main' = "select"
        /\ grpc' = "bound"
        /\ stopper' = "waiting"
        /\ http' = "starting"
        /\ UNCHANGED <<code, signalled, store, listenErr, active, failed, cut>>

\* What Shutdown does at once; it then waits for the active requests.
CloseListener == http' = IF http \in {"starting", "up"} THEN "closed" ELSE http

\* Mutant: the error of the listener is only logged.
StartLogs ==
  /\ main = "select"
  /\ listenErr # "empty"
  /\ signalled
  /\ Exit("1")

\* Start, first case of the select: "failed to start http server".
StartFails ==
  /\ main = "select"
  /\ listenErr # "empty"
  /\ Exit("1")

\* Start, second case: Stop, without a deadline.
StartStops ==
  /\ main = "select"
  /\ signalled
  /\ CloseListener
  /\ main' = "stopping"
  /\ UNCHANGED <<code, signalled, store, grpc, listenErr, stopper, active,
                 failed, cut>>

\* Mutant: Start does not wait for the requests in progress.
StartLeaves ==
  /\ main = "stopping"
  /\ main' = "returned"
  /\ UNCHANGED <<code, signalled, store, grpc, http, listenErr, stopper,
                 active, failed, cut>>

\* Shutdown has seen every connection idle, and Start returns nil.
StartReturns ==
  /\ main = "stopping"
  /\ active \cap Http = {}
  /\ main' = "returned"
  /\ UNCHANGED <<code, signalled, store, grpc, http, listenErr, stopper,
                 active, failed, cut>>

\* The deferred Close; the in-memory store has none.
CloseStore ==
  /\ main = "returned"
  /\ main' = "closed"
  /\ store' = IF store = "sql" THEN "closed" ELSE store
  /\ UNCHANGED <<code, signalled, grpc, http, listenErr, stopper, active,
                 failed, cut>>

\* main returns; nobody waits for the shutdown goroutine.
MainReturns ==
  /\ main = "closed"
  /\ Exit("0")

----------------------------------------------------------------------------
(* The other goroutines *)

\* grpcServer.Serve; after GracefulStop it only returns.
ServeGrpc ==
  /\ Alive
  /\ grpc = "bound"
  /\ grpc' = "serving"
  /\ UNCHANGED <<main, code, signalled, store, http, listenErr, stopper,
                 active, failed, cut>>

\* ListenAndServe: the port is taken, or the server is up.
ListenAndServe ==
  /\ Alive
  /\ http = "starting"
  /\ \/ http' = "up" /\ listenErr' = listenErr
     \/ http' = "failed" /\ listenErr' = "bind"
  /\ UNCHANGED <<main, code, signalled, store, grpc, stopper, active, failed,
                 cut>>

\* ListenAndServe returns ErrServerClosed once Shutdown was called, by anybody.
ListenerReturns ==
  /\ Alive
  /\ http = "closed"
  /\ listenErr = "empty"
  /\ listenErr' = "closed"
  /\ UNCHANGED <<main, code, signalled, store, grpc, http, stopper, active,
                 failed, cut>>

\* The shutdown goroutine: GracefulStop accepts nothing more.
GracefulStop ==
  /\ Alive
  /\ stopper = "waiting"
  /\ signalled
  /\ stopper' = "draining"
  /\ grpc' = "draining"
  /\ UNCHANGED <<main, code, signalled, store, http, listenErr, active, failed,
                 cut>>

\* Mutant: Stop in place of GracefulStop.
GrpcDropped ==
  /\ Alive
  /\ stopper = "draining"
  /\ stopper' = "stopping"
  /\ grpc' = "stopped"
  /\ UNCHANGED <<main, code, signalled, store, http, listenErr, active, failed,
                 cut>>

\* GracefulStop returns when no call is in progress.
GrpcStopped ==
  /\ Alive
  /\ stopper = "draining"
  /\ active \cap Grpc = {}
  /\ stopper' = "stopping"
  /\ grpc' = "stopped"
  /\ UNCHANGED <<main, code, signalled, store, http, listenErr, active, failed,
                 cut>>

\* Its own Stop; whether it waits three seconds or less changes nothing.
StopHttp ==
  /\ Alive
  /\ stopper = "stopping"
  /\ stopper' = "finished"
  /\ CloseListener
  /\ UNCHANGED <<main, code, signalled, store, grpc, listenErr, active, failed,
                 cut>>

----------------------------------------------------------------------------
(* Clients and signals *)

Signal ==
  /\ main \in {"listen", "select"}
  /\ ~signalled
  /\ signalled' = TRUE
  /\ UNCHANGED <<main, code, store, grpc, http, listenErr, stopper, active,
                 failed, cut>>

Request(r) ==
  /\ Alive
  /\ r \notin active
  /\ \/ r \in Http /\ http = "up"
     \/ r \in Grpc /\ grpc = "serving"
  /\ active' = active \cup {r}
  /\ UNCHANGED <<main, code, signalled, store, grpc, http, listenErr, stopper,
                 failed, cut>>

\* The handler's call of the store and its answer.
Answer(r) ==
  /\ r \in active
  /\ active' = active \ {r}
  /\ failed' = IF store = "closed" THEN failed \cup {r} ELSE failed
  /\ UNCHANGED <<main, code, signalled, store, grpc, http, listenErr, stopper,
                 cut>>

----------------------------------------------------------------------------
(* The specification *)

MainStep ==
  \/ Configure \/ createStorage \/ Listen \/ StartFails \/ StartStops
  \/ StartReturns \/ CloseStore \/ MainReturns

Stopper == GracefulStop \/ GrpcStopped \/ StopHttp

Listener == ListenAndServe \/ ListenerReturns

CalendarNext ==
  \/ MainStep \/ ServeGrpc \/ Listener \/ Stopper \/ Signal
  \/ \E r \in Clients : Request(r) \/ Answer(r)

CalendarSpec == CalendarInit /\ [][CalendarNext]_calendarVars

----------------------------------------------------------------------------
(* Properties *)

\* A regular end (status 0) cuts off no HTTP request, and none ever meets a
\* closed store: Start's Shutdown has to have waited for all of them by then,
\* whatever the shutdown goroutine does to the same server meanwhile.
HttpIsServed ==
  /\ failed \cap Http = {}
  /\ code = "0" => cut \cap Http = {}

\* Status 1 has a cause: no configuration, no store, a port that is taken; or a
\* signal whose shutdown goroutine was done with gRPC before main looked at its
\* select, in which case no gRPC call is cut off or finds its store closed.
FailureHasCause ==
  code = "1" =>
    \/ grpc = "off"
    \/ listenErr = "bind"
    \/ signalled /\ grpc = "stopped" /\ cut \cap Grpc = {} /\ failed = {}

\* The process ends after a signal, however its goroutines interleave and
\* however many clients keep asking; a server that cannot have its HTTP port
\* does not live on with gRPC alone.
StopsInTheEnd == (signalled \/ http = "failed") ~> main = "exited"
=============================================================================
