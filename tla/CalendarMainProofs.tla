------------------------- MODULE CalendarMainProofs -------------------------
(* The end of the calendar process: what it cuts off and why it fails. *)
EXTENDS CalendarMain, TLAPS

----------------------------------------------------------------------------
(* Type correctness *)

\* Every step of the process keeps the types.
LEMMA NextType == CalendarTypeOK /\ [CalendarNext]_calendarVars => CalendarTypeOK'
<1> SUFFICES ASSUME CalendarTypeOK, [CalendarNext]_calendarVars PROVE CalendarTypeOK'
  OBVIOUS
<1> USE DEF CalendarTypeOK
<1>1. ASSUME NEW c \in {"0", "1"}, Exit(c)
      PROVE  CalendarTypeOK'
  BY <1>1 DEF Exit
<1>2. CASE MainStep
  BY <1>2, <1>1 DEF MainStep, Configure, createStorage, Listen, StartFails,
     StartStops, StartReturns, CloseStore, CloseListener, MainReturns
<1>3. CASE ServeGrpc \/ Listener \/ Signal
  BY <1>3 DEF ServeGrpc, Listener, ListenAndServe, ListenerReturns, Signal
<1>4. CASE Stopper
  BY <1>4 DEF Stopper, GracefulStop, GrpcStopped, StopHttp, CloseListener
<1>5. CASE \E r \in Clients : Request(r) \/ Answer(r)
  BY <1>5 DEF Request, Answer
<1>6. CASE UNCHANGED calendarVars
  BY <1>6 DEF calendarVars
<1> QED
  BY <1>2, <1>3, <1>4, <1>5, <1>6 DEF CalendarNext

\* The process keeps its types, for every set of clients.
THEOREM MainTypeCorrect == CalendarSpec => []CalendarTypeOK
<1>1. CalendarInit => CalendarTypeOK
  BY DEF CalendarInit, CalendarTypeOK
<1> QED
  BY <1>1, NextType, PTL DEF CalendarSpec

----------------------------------------------------------------------------
(* The inductive invariant *)

\* Nothing runs before the servers are started, nothing is served once they
\* stopped, and the shutdown goroutine is as far as the gRPC server.
ServersInv ==
  /\ main \in {"init", "store", "listen"}
       => grpc = "off" /\ http = "off" /\ stopper = "none"
  /\ main \in {"select", "stopping", "returned", "closed"}
       => grpc # "off" /\ http # "off"
  /\ stopper \in {"none", "waiting"} => grpc \in {"off", "bound", "serving"}
  /\ stopper = "draining" => grpc = "draining" /\ signalled
  /\ stopper \in {"stopping", "finished"} => grpc = "stopped" /\ signalled
  /\ active \cap Http # {} => http \in {"up", "closed"}
  /\ active \cap Grpc # {} => grpc \in {"serving", "draining"}

\* The HTTP listener is closed by Start, or by a shutdown goroutine that has
\* stopped gRPC; Start waits for the requests; the store is closed at the end.
EndInv ==
  /\ http = "closed" /\ main = "select" => stopper = "finished"
  /\ main \in {"stopping", "returned", "closed"} => http \in {"closed", "failed"}
  /\ main \in {"returned", "closed"} => active \cap Http = {}
  /\ listenErr = "bind" => http = "failed"
  /\ listenErr = "closed" => http = "closed"
  /\ store = "closed" => main \in {"closed", "exited"}
  /\ main = "exited" => active = {}
  /\ main # "exited" => code = "none" /\ cut = {}
  /\ main \notin {"closed", "exited"} => failed = {}

IInv == ServersInv /\ EndInv /\ HttpIsServed /\ FailureHasCause

\* The end of the process, reached where Start has returned or has failed.
LEMMA ExitKeeps ==
  ASSUME CalendarTypeOK, IInv, NEW c \in {"0", "1"}, Exit(c), main # "exited",
         c = "0" => active \cap Http = {},
         c = "1" => /\ main # "closed"
                    /\ \/ grpc = "off" \/ listenErr = "bind"
                       \/ signalled /\ grpc = "stopped"
  PROVE  IInv'
<1> USE DEF CalendarTypeOK, Exit, Clients
<1>1. ServersInv'
  BY DEF IInv, ServersInv
<1>2. EndInv'
  BY DEF IInv, EndInv
<1>3. HttpIsServed'
  BY DEF IInv, EndInv, HttpIsServed
<1>4. FailureHasCause'
  <2>1. c = "1" => failed = {} /\ cut = {}
    BY DEF IInv, EndInv
  <2>2. grpc = "stopped" => active \cap Grpc = {}
    BY DEF IInv, ServersInv
  <2> QED
    BY <2>1, <2>2 DEF FailureHasCause
<1> QED
  BY <1>1, <1>2, <1>3, <1>4 DEF IInv

\* Every step of main keeps the invariant.
LEMMA MainKeeps == CalendarTypeOK /\ IInv /\ MainStep => IInv'
<1> SUFFICES ASSUME CalendarTypeOK, IInv, MainStep PROVE IInv'
  OBVIOUS
<1>1. ASSUME NEW c \in {"0", "1"}, Exit(c),
             Configure \/ createStorage \/ Listen \/ StartFails \/ MainReturns
      PROVE  IInv'
  <2>1. main \in {"init", "store", "listen", "select", "closed"}
    BY <1>1 DEF Configure, createStorage, Listen, StartFails, MainReturns
  <2>2. c = "0" => active \cap Http = {}
    <3>1. c = "0" => main # "select"
      BY <1>1 DEF Configure, createStorage, Listen, StartFails, MainReturns, Exit
    <3> QED
      BY <2>1, <3>1 DEF IInv, ServersInv, EndInv
  <2>3. c = "1" => /\ main # "closed"
                   /\ \/ grpc = "off" \/ listenErr = "bind"
                      \/ signalled /\ grpc = "stopped"
    <3>1. c = "1" => main \in {"init", "store", "listen"} \/ StartFails
      BY <1>1 DEF Configure, createStorage, Listen, MainReturns, Exit
    <3>2. StartFails => main = "select" /\ listenErr \in {"bind", "closed"}
      BY DEF StartFails, CalendarTypeOK
    <3> QED
      BY <3>1, <3>2 DEF IInv, ServersInv, EndInv
  <2> QED
    BY <1>1, <2>1, <2>2, <2>3, ExitKeeps
<1>2. CASE ~\E c \in {"0", "1"} : Exit(c)
  <2>1. \/ Configure \/ createStorage \/ Listen
        \/ StartStops \/ StartReturns \/ CloseStore
    BY <1>2 DEF MainStep, StartFails, MainReturns
  <2>2. UNCHANGED <<code, cut, failed, active, listenErr>>
    BY <1>2, <2>1 DEF Configure, createStorage, Listen, StartStops,
       StartReturns, CloseStore
  <2>3. ServersInv'
    BY <1>2, <2>1 DEF IInv, ServersInv, EndInv, CalendarTypeOK, Configure, createStorage, Listen,
       StartStops, StartReturns, CloseStore, CloseListener
  <2>4. EndInv'
    BY <1>2, <2>1 DEF IInv, ServersInv, EndInv, CalendarTypeOK, Configure, createStorage, Listen,
       StartStops, StartReturns, CloseStore, CloseListener
  <2>5. code = "none" /\ cut = {}
    BY <2>1 DEF IInv, EndInv, Configure, createStorage, Listen, StartStops,
       StartReturns, CloseStore
  <2> QED
    BY <2>2, <2>3, <2>4, <2>5 DEF IInv, HttpIsServed, FailureHasCause
<1>3. ASSUME NEW c \in {"0", "1"}, Exit(c)
      PROVE  Configure \/ createStorage \/ Listen \/ StartFails \/ MainReturns
  BY <1>3 DEF MainStep, Exit, StartStops, StartReturns, CloseStore
<1> QED
  BY <1>1, <1>2, <1>3

\* So does every step of another goroutine or of a client.
LEMMA OthersKeep ==
  ASSUME CalendarTypeOK, IInv,
         \/ ServeGrpc \/ Listener \/ Stopper \/ Signal
         \/ \E r \in Clients : Request(r) \/ Answer(r)
  PROVE  IInv'
<1> USE DEF CalendarTypeOK, Clients, Alive
<1>1. UNCHANGED <<main, code, store, cut>> /\ main # "exited"
  BY DEF ServeGrpc, Listener, ListenAndServe, ListenerReturns, Stopper,
     GracefulStop, GrpcStopped, StopHttp, Signal, Request, Answer, IInv, EndInv
<1>2. CASE ServeGrpc \/ Listener
  <2>1. UNCHANGED <<stopper, active, failed, signalled>>
    BY <1>2 DEF ServeGrpc, Listener, ListenAndServe, ListenerReturns
  <2>2. ServersInv'
    BY <1>1, <1>2, <2>1 DEF ServeGrpc, Listener, ListenAndServe, ListenerReturns,
       IInv, ServersInv
  <2>3. EndInv'
    BY <1>1, <1>2, <2>1 DEF ServeGrpc, Listener, ListenAndServe, ListenerReturns,
       IInv, EndInv
  <2>4. code = "none"
    BY <1>1 DEF IInv, EndInv
  <2>5. HttpIsServed'
    BY <1>1, <2>1 DEF IInv, HttpIsServed
  <2>6. FailureHasCause'
    BY <1>1, <2>4 DEF FailureHasCause
  <2> QED
    BY <2>2, <2>3, <2>5, <2>6 DEF IInv
<1>3. CASE Stopper
  <2>1. UNCHANGED <<listenErr, active, failed, signalled>>
    BY <1>3 DEF Stopper, GracefulStop, GrpcStopped, StopHttp
  <2>2. ServersInv'
    <3>1. CASE GracefulStop
      BY <1>1, <2>1, <3>1 DEF GracefulStop, IInv, ServersInv
    <3>2. CASE GrpcStopped
      BY <1>1, <2>1, <3>2 DEF GrpcStopped, IInv, ServersInv
    <3>3. CASE StopHttp
      BY <1>1, <2>1, <3>3 DEF StopHttp, CloseListener, IInv, ServersInv
    <3> QED
      BY <1>3, <3>1, <3>2, <3>3 DEF Stopper
  <2>3. EndInv'
    BY <1>1, <1>3, <2>1 DEF Stopper, GracefulStop, GrpcStopped, StopHttp,
       CloseListener, IInv, ServersInv, EndInv
  <2>4. code = "none"
    BY <1>1 DEF IInv, EndInv
  <2>5. HttpIsServed'
    BY <1>1, <2>1 DEF IInv, HttpIsServed
  <2>6. FailureHasCause'
    BY <1>1, <2>4 DEF FailureHasCause
  <2> QED
    BY <2>2, <2>3, <2>5, <2>6 DEF IInv
<1>4. CASE Signal
  BY <1>1, <1>4 DEF Signal, IInv, ServersInv, EndInv, HttpIsServed,
     FailureHasCause
<1>5. ASSUME NEW r \in Clients, Request(r)
      PROVE  IInv'
  <2>1. /\ active' = active \cup {r}
        /\ (r \in Http /\ http = "up") \/ (r \in Grpc /\ grpc = "serving")
        /\ UNCHANGED <<main, code, signalled, store, grpc, http, listenErr, stopper,
                       failed, cut>>
    BY <1>5 DEF Request
  <2>2. r \in Http => r \notin Grpc
    BY ClientAssumption DEF ClientAssumption
  <2>3. ServersInv'
    BY <2>1, <2>2 DEF IInv, ServersInv
  <2>4. EndInv'
    BY <1>1, <2>1, <2>2 DEF IInv, EndInv
  <2> QED
    BY <2>1, <2>3, <2>4 DEF IInv, HttpIsServed, FailureHasCause
<1>6. ASSUME NEW r \in Clients, Answer(r)
      PROVE  IInv'
  <2>1. /\ active' = active \ {r} /\ r \in active
        /\ failed' = IF store = "closed" THEN failed \cup {r} ELSE failed
        /\ UNCHANGED <<main, code, signalled, store, grpc, http, listenErr, stopper,
                       cut>>
    BY <1>6 DEF Answer
  <2>2. store = "closed" => r \notin Http /\ main = "closed"
    BY <1>1, <2>1 DEF IInv, EndInv
  <2>3. ServersInv'
    BY <2>1 DEF IInv, ServersInv
  <2>4. EndInv'
    BY <1>1, <2>1, <2>2 DEF IInv, EndInv
  <2>5. HttpIsServed' /\ FailureHasCause'
    BY <1>1, <2>1, <2>2 DEF IInv, EndInv, HttpIsServed, FailureHasCause
  <2> QED
    BY <2>3, <2>4, <2>5 DEF IInv
<1> QED
  BY <1>2, <1>3, <1>4, <1>5, <1>6

\* The invariant holds throughout.
LEMMA IInvHolds == CalendarSpec => []IInv
<1>1. CalendarInit => CalendarTypeOK /\ IInv
  BY DEF CalendarInit, CalendarTypeOK, IInv, ServersInv, EndInv, HttpIsServed, FailureHasCause
<1>2. CalendarTypeOK /\ IInv /\ [CalendarNext]_calendarVars => (CalendarTypeOK /\ IInv)'
  <2>1. CASE UNCHANGED calendarVars
    BY <2>1 DEF calendarVars, CalendarTypeOK, IInv, ServersInv, EndInv, HttpIsServed,
       FailureHasCause
  <2> QED
    BY <2>1, NextType, MainKeeps, OthersKeep DEF CalendarNext
<1> QED
  BY <1>1, <1>2, PTL DEF CalendarSpec

\* Whatever races at the shutdown, a regular end cuts off no HTTP request, and
\* no HTTP request meets a closed store.
THEOREM HttpServedAtExit == CalendarSpec => []HttpIsServed
<1>1. IInv => HttpIsServed
  BY DEF IInv
<1> QED
  BY <1>1, IInvHolds, PTL

\* Status 1 without a failed start means that gRPC was already drained.
THEOREM FailureExplained == CalendarSpec => []FailureHasCause
<1>1. IInv => FailureHasCause
  BY DEF IInv
<1> QED
  BY <1>1, IInvHolds, PTL
=============================================================================
