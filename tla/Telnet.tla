------------------------------- MODULE Telnet -------------------------------
(***************************************************************************)
(* The telnet client (hw11): run connects, starts a goroutine that copies  *)
(* stdin to the connection and one that copies the connection to stdout,   *)
(* and waits for the first of a signal and the two.                        *)
(*                                                                         *)
(* Data are counted, not named: io.Copy keeps their order.  A write needs  *)
(* room in the connection and stdout never blocks; the connection is TCP,  *)
(* where writing to a peer that has closed may provoke a reset.            *)
(***************************************************************************)
EXTENDS Naturals

CONSTANT Chunks   \* bound: chunks typed, and chunks the server sends

ASSUME ChunksAssumption == Chunks \in Nat

VARIABLES
  runner,      \* run: "connect", "select", awaits "receiver" or "sender", "returned"
  outcome,     \* how run ended
  interrupted, \* whether the signal context is done
  input,       \* stdin: "open" or at its "end"
  typed,       \* chunks typed so far
  written,     \* chunks Send has written
  conn,        \* this end of the connection: "none", "open", "closed"
  peer,        \* the other end: "open", "closed", "reset"
  served,      \* chunks the server has sent
  printed,     \* chunks Receive has printed
  sender,      \* Send: "off", "copying", its result in sendDone, or "taken"
  receiver     \* Receive, likewise

network    == <<conn, peer, served>>
stdio      == <<input, typed, written, printed>>
telnetVars == <<runner, outcome, interrupted, network, stdio, sender, receiver>>

TelnetInit ==
  /\ runner = "connect" /\ outcome = "none" /\ interrupted = FALSE
  /\ input = "open" /\ typed = 0 /\ written = 0
  /\ conn = "none" /\ peer = "open" /\ served = 0 /\ printed = 0
  /\ sender = "off" /\ receiver = "off"

Running == runner # "returned"

----------------------------------------------------------------------------
(* The user and the server *)

Type ==
  /\ Running
  /\ input = "open"
  /\ \/ typed < Chunks /\ typed' = typed + 1 /\ input' = input
     \/ input' = "end" /\ typed' = typed
  /\ UNCHANGED <<runner, outcome, interrupted, network, written, printed,
                 sender, receiver>>

Interrupt ==
  /\ Running
  /\ ~interrupted
  /\ interrupted' = TRUE
  /\ UNCHANGED <<runner, outcome, network, stdio, sender, receiver>>

Serve ==
  /\ Running
  /\ conn # "none"
  /\ \/ peer = "open" /\ served < Chunks /\ served' = served + 1 /\ peer' = peer
     \/ peer = "open" /\ peer' = "closed" /\ served' = served
     \/ peer # "reset" /\ peer' = "reset" /\ served' = served
  /\ UNCHANGED <<runner, outcome, interrupted, conn, stdio, sender, receiver>>

----------------------------------------------------------------------------
(* The goroutines *)

\* io.Copy writes what was typed.
SendChunk ==
  /\ Running
  /\ sender = "copying"
  /\ written < typed
  /\ conn = "open" /\ peer # "reset"
  /\ written' = written + 1
  /\ peer' \in {peer} \cup {p \in {"reset"} : peer = "closed"}
  /\ UNCHANGED <<runner, outcome, interrupted, conn, served, input, typed,
                 printed, sender, receiver>>

\* Mutant: Send drops the error of its copy.
SendEndsSilently ==
  /\ Running
  /\ sender = "copying"
  /\ \/ written = typed /\ input = "end"
     \/ written < typed /\ (conn = "closed" \/ peer = "reset")
  /\ sender' = "nil"
  /\ UNCHANGED <<runner, outcome, interrupted, network, stdio, receiver>>

\* The end of stdin is no error; a write on a dead connection is.  A Send that
\* waits for stdin does not notice that the connection is closed.
SendEnds ==
  /\ Running
  /\ sender = "copying"
  /\ \/ written = typed /\ input = "end" /\ sender' = "nil"
     \/ /\ written < typed /\ (conn = "closed" \/ peer = "reset")
        /\ sender' = "error"
  /\ UNCHANGED <<runner, outcome, interrupted, network, stdio, receiver>>

\* What arrived before a reset may still be read.
ReceiveChunk ==
  /\ Running
  /\ receiver = "copying"
  /\ conn = "open"
  /\ printed < served
  /\ printed' = printed + 1
  /\ UNCHANGED <<runner, outcome, interrupted, network, input, typed, written,
                 sender, receiver>>

ReceiveEnds ==
  /\ Running
  /\ receiver = "copying"
  /\ \/ printed = served /\ peer = "closed" /\ conn = "open" /\ receiver' = "nil"
     \/ (conn = "closed" \/ peer = "reset") /\ receiver' = "error"
  /\ UNCHANGED <<runner, outcome, interrupted, network, stdio, sender>>

----------------------------------------------------------------------------
(* run *)

\* run returns, the deferred Close runs, and main ends the process.
Return(o) ==
  /\ runner' = "returned"
  /\ outcome' = o
  /\ conn' = IF conn = "open" THEN "closed" ELSE conn

Connect ==
  /\ runner = "connect"
  /\ \/ /\ Return("failed") /\ UNCHANGED <<sender, receiver>>
     \/ /\ runner' = "select" /\ outcome' = outcome
        /\ conn' = "open" /\ sender' = "copying" /\ receiver' = "copying"
  /\ UNCHANGED <<interrupted, peer, served, stdio>>

OnInterrupt ==
  /\ runner = "select"
  /\ interrupted
  /\ Return("interrupted")
  /\ UNCHANGED <<interrupted, peer, served, stdio, sender, receiver>>

\* Mutant: the connection is not closed before the receiver is awaited.
OnSentWait ==
  /\ runner = "select"
  /\ sender \in {"nil", "error"}
  /\ sender' = "taken"
  /\ IF sender = "error" THEN Return("error")
     ELSE runner' = "receiver" /\ UNCHANGED <<outcome, conn>>
  /\ UNCHANGED <<interrupted, peer, served, stdio, receiver>>

OnSent ==
  /\ runner = "select"
  /\ sender \in {"nil", "error"}
  /\ sender' = "taken"
  /\ IF sender = "error" THEN Return("error")
     ELSE runner' = "receiver" /\ conn' = "closed" /\ outcome' = outcome
  /\ UNCHANGED <<interrupted, peer, served, stdio, receiver>>

OnReceived ==
  /\ runner = "select"
  /\ receiver \in {"nil", "error"}
  /\ receiver' = "taken"
  /\ IF receiver = "error" THEN Return("error")
     ELSE runner' = "sender" /\ conn' = "closed" /\ outcome' = outcome
  /\ UNCHANGED <<interrupted, peer, served, stdio, sender>>

\* Mutant: what the receiver returned is reported.
ReportReceiver ==
  /\ runner = "receiver"
  /\ receiver \in {"nil", "error"}
  /\ receiver' = "taken"
  /\ Return(IF receiver = "error" THEN "error" ELSE "sent")
  /\ UNCHANGED <<interrupted, peer, served, stdio, sender>>

\* "...EOF": Close made Receive fail, and its result is dropped.
AwaitReceiver ==
  /\ runner = "receiver"
  /\ receiver \in {"nil", "error"}
  /\ receiver' = "taken"
  /\ Return("sent")
  /\ UNCHANGED <<interrupted, peer, served, stdio, sender>>

\* "...Connection was closed by peer": the sender's end or 100 ms.
AwaitSender ==
  /\ runner = "sender"
  /\ sender' \in {sender} \cup {s \in {"taken"} : sender \in {"nil", "error"}}
  /\ Return("received")
  /\ UNCHANGED <<interrupted, peer, served, stdio, receiver>>

----------------------------------------------------------------------------
(* The specification *)

Run == Connect \/ OnInterrupt \/ OnSent \/ OnReceived \/ AwaitReceiver \/ AwaitSender
Send == SendChunk \/ SendEnds
Receive == ReceiveChunk \/ ReceiveEnds

TelnetNext == Type \/ Interrupt \/ Serve \/ Run \/ Send \/ Receive

TelnetSpec == TelnetInit /\ [][TelnetNext]_telnetVars

----------------------------------------------------------------------------
(* Properties *)

\* A run that ends with "...EOF" has written all of stdin, one that ends with
\* "Connection was closed by peer" has printed all that the server sent,
\* whatever else became ready in the same select.
NothingCutShort ==
  /\ outcome = "sent" => written = typed
  /\ outcome = "received" => printed = served

\* The client's own Close makes its copies fail: this is never reported, an
\* error of Send or Receive is one of the peer.
OwnCloseIsNoError == outcome = "error" => peer = "reset"

\* The end of stdin, the end of the connection, a reset and a signal each end
\* the run, also with a sender that waits for stdin or a silent server.
RunEnds ==
  (interrupted \/ input = "end" \/ peer # "open") ~> runner = "returned"
=============================================================================
