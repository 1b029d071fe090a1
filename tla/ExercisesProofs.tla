--------------------------- MODULE ExercisesProofs --------------------------
(***************************************************************************)
(* The small programs of the course: the pipeline of hw06, the telnet      *)
(* client of hw11, and the sequential ones of hw02, hw03, hw07, hw08 and   *)
(* hw10.  They share the lemmas on sequences and sets, and nothing else.   *)
(***************************************************************************)
EXTENDS Pipeline, Telnet, CopyFile, DomainStat, Envdir, Unpack, TopWords,
        SequenceTheorems, FiniteSetTheorems, WellFoundedInduction, TLAPS

----------------------------------------------------------------------------
(***************************************************************************)
(* The pipeline.  Whatever done does, the results are the first values of  *)
(* the input, for every number of stages and values.                       *)
(*                                                                         *)
(* The argument follows a link of the chain (Linked): a goroutine that     *)
(* still takes values is exactly one value behind a sender, and level with *)
(* a receiver; whoever left the loop takes nothing any more, so that what  *)
(* was dropped before it is never overtaken.                               *)
(***************************************************************************)

Active(i) == pc[i] \in {"recv", "send"}

\* What goroutine i has yet to hand to the next one.
Linked(i) == Active(i + 1) =>
  /\ pc[i] = "send" => item[i] = item[i + 1] + 1
  /\ pc[i] = "recv" => item[i] = item[i + 1]
  /\ Closed(i) /\ done # "closed" => item[i] = item[i + 1]

Chain == \A i \in 0..Width : Linked(i)

\* Without done nobody stops before the end of the input.
EndInv == \A i \in Procs :
  Closed(i) /\ done # "closed" => item[i] = Inputs

\* The source does not drain and the consumer does not send.
EndsInv ==
  /\ pc[0] \in {"recv", "send", "exited"}
  /\ pc[Consumer] \in {"recv", "exited"}

Received ==
  /\ Len(output) = item[Consumer]
  /\ OutputIsPrefix

IInv == PipelineTypeOK /\ Chain /\ EndInv /\ EndsInv /\ Received

----------------------------------------------------------------------------
(* The invariant is inductive *)

LEMMA Places ==
  /\ Links \subseteq Int
  /\ Width \in Nat /\ Consumer = Width + 1 /\ Consumer \in Procs /\ 0 \in Procs
  /\ \A i \in 0..Width : i \in Procs /\ i + 1 \in Procs /\ i # i + 1
  /\ \A i \in Links : i \in Procs /\ i - 1 \in Procs /\ i - 1 \in 0..Width
                      /\ i # 0 /\ i # Consumer /\ i - 1 # Consumer
BY PipelineAssumption DEF Width, Consumer, Procs, Links

LEMMA InitInv == PipelineInit => IInv
<1> SUFFICES ASSUME PipelineInit PROVE IInv
  OBVIOUS
<1>1. PipelineTypeOK
  BY PipelineAssumption DEF PipelineInit, PipelineTypeOK
<1>2. Chain /\ EndInv /\ EndsInv
  BY Places DEF PipelineInit, Chain, Linked, EndInv, EndsInv, Closed
<1>3. Received
  BY Places DEF PipelineInit, Received, OutputIsPrefix
<1> QED BY <1>1, <1>2, <1>3 DEF IInv

LEMMA SourceStep ==
  ASSUME IInv, Source
  PROVE  IInv'
<1> USE PipelineAssumption, Places DEF IInv, PipelineTypeOK
<1>1. CASE NextInput
  <2>1. PipelineTypeOK'
    BY <1>1 DEF NextInput
  <2>2. Chain'
    BY <1>1, SMTT(30) DEF NextInput, Chain, Linked, Active, Closed
  <2>3. EndInv' /\ EndsInv'
    BY <1>1 DEF NextInput, EndInv, EndsInv, Closed
  <2>4. Received'
    BY <1>1 DEF NextInput, Received, OutputIsPrefix
  <2> QED BY <2>1, <2>2, <2>3, <2>4
<1>2. CASE CloseInput
  <2>1. PipelineTypeOK'
    BY <1>2 DEF CloseInput
  <2>2. Chain'
    BY <1>2 DEF CloseInput, Chain, Linked, Active, Closed
  <2>3. EndInv' /\ EndsInv'
    BY <1>2 DEF CloseInput, EndInv, EndsInv, Closed
  <2>4. Received'
    BY <1>2 DEF CloseInput, Received, OutputIsPrefix
  <2> QED BY <2>1, <2>2, <2>3, <2>4
<1> QED BY <1>1, <1>2 DEF Source

LEMMA PassStep ==
  ASSUME IInv, NEW i \in Links, Pass(i)
  PROVE  IInv'
<1> USE Places DEF IInv, PipelineTypeOK
<1>1. PipelineTypeOK'
  BY DEF Pass
<1>2. Linked(i - 1)
  BY DEF Chain
<1>3. item[i - 1] = item[i] + 1
  BY <1>2 DEF Linked, Active, Pass, Links, Width
<1>4. ASSUME NEW j \in 0..Width PROVE Linked(j)'
  <2>1. Linked(j) /\ i \in Int /\ j \in Int
    BY DEF Chain
  <2>2. CASE j = i - 1
    BY <1>3, <2>1, <2>2 DEF Pass, Linked, Closed
  <2>3. CASE j = i
    BY <1>3, <2>1, <2>3 DEF Pass, Linked, Active, Closed
  <2>4. CASE j + 1 = i - 1
    BY <1>3, <2>1, <2>4 DEF Pass, Linked, Active, Closed
  <2>5. CASE j # i - 1 /\ j # i /\ j + 1 # i - 1
    <3>1. UNCHANGED <<pc[j], pc[j + 1], item[j], item[j + 1], done>>
      BY <2>1, <2>5 DEF Pass
    <3> QED BY <2>1, <3>1 DEF Linked, Active, Closed
  <2> QED BY <2>2, <2>3, <2>4, <2>5
<1>5. EndInv' /\ EndsInv'
  BY DEF Pass, EndInv, EndsInv, Closed
<1>6. Received'
  BY DEF Pass, Received, OutputIsPrefix
<1> QED BY <1>1, <1>4, <1>5, <1>6 DEF Chain

\* Goroutine i stops: it takes no value any more.
LEMMA StopStep ==
  ASSUME IInv, NEW i \in Links, EndOfInput(i) \/ Cancel(i) \/ DrainEnds(i)
  PROVE  IInv'
<1> USE Places DEF IInv, PipelineTypeOK
<1>1. PipelineTypeOK' /\ UNCHANGED <<item, done, output>>
  BY DEF EndOfInput, Cancel, DrainEnds
<1>2. /\ pc' = [pc EXCEPT ![i] = pc'[i]]
      /\ pc'[i] \in {"drain", "exited"}
      /\ pc[i] # "exited"
  BY DEF EndOfInput, Cancel, DrainEnds
<1>3. done # "closed" => item[i] = Inputs /\ (Active(i) => pc[i] = "recv")
  <2>1. CASE EndOfInput(i)
    <3>1. Linked(i - 1)
      BY DEF Chain
    <3> QED BY <2>1, <3>1 DEF EndOfInput, Linked, Active, EndInv, Links, Width
  <2>2. CASE Cancel(i)
    BY <2>2 DEF Cancel
  <2>3. CASE DrainEnds(i)
    BY <2>3 DEF DrainEnds, EndInv, Closed, Active
  <2> QED BY <2>1, <2>2, <2>3
<1>4. ASSUME NEW j \in 0..Width PROVE Linked(j)'
  <2>1. CASE j = i
    BY <1>1, <1>2, <1>3, <2>1 DEF Chain, Linked, Active, Closed
  <2>2. CASE j # i
    BY <1>1, <1>2, <2>2 DEF Chain, Linked, Active, Closed
  <2> QED BY <2>1, <2>2
<1>5. EndInv'
  BY <1>1, <1>2, <1>3 DEF EndInv, Closed
<1>6. EndsInv'
  BY <1>1, <1>2 DEF EndsInv
<1>7. Received'
  BY <1>1 DEF Received, OutputIsPrefix
<1> QED BY <1>1, <1>4, <1>5, <1>6, <1>7 DEF Chain

LEMMA DrainStep ==
  ASSUME IInv, NEW i \in Links, Drain(i)
  PROVE  IInv'
<1> USE Places DEF IInv, PipelineTypeOK
<1>1. PipelineTypeOK'
  BY DEF Drain
<1>2. ASSUME NEW j \in 0..Width PROVE Linked(j)'
  <2>1. Linked(j) /\ i \in Int /\ j \in Int
    BY DEF Chain
  <2>2. CASE j = i - 1
    BY <2>1, <2>2 DEF Drain, Linked, Active
  <2>3. CASE j + 1 = i - 1
    BY <2>1, <2>3 DEF Drain, Linked, Active, Closed
  <2>4. CASE j # i - 1 /\ j + 1 # i - 1
    <3>1. UNCHANGED <<pc[j], pc[j + 1], item[j], item[j + 1], done>>
      BY <2>1, <2>4 DEF Drain
    <3> QED BY <2>1, <3>1 DEF Linked, Active, Closed
  <2> QED BY <2>2, <2>3, <2>4
<1>3. EndInv' /\ EndsInv'
  BY DEF Drain, EndInv, EndsInv, Closed
<1>4. Received'
  BY DEF Drain, Received, OutputIsPrefix
<1> QED BY <1>1, <1>2, <1>3, <1>4 DEF Chain

LEMMA ConsumeStep ==
  ASSUME IInv, Consume
  PROVE  IInv'
<1> USE Places DEF IInv, PipelineTypeOK
<1>1. Linked(Width)
  BY DEF Chain
<1>2. item[Width] = item[Consumer] + 1 /\ item[Width] \in 1..Inputs
  BY <1>1, PipelineAssumption DEF Linked, Active, Consume
<1>3. PipelineTypeOK'
  <2>1. output' \in Seq(1..Inputs)
    BY <1>2 DEF Consume
  <2>2. item' \in [Procs -> 0..Inputs]
    BY <1>2 DEF Consume
  <2>3. pc' \in [Procs -> {"recv", "send", "drain", "exited"}]
    BY DEF Consume
  <2>4. done' \in {"nil", "open", "closed"}
    BY DEF Consume
  <2> QED BY <2>1, <2>2, <2>3, <2>4
<1>4. ASSUME NEW j \in 0..Width PROVE Linked(j)'
  <2>1. Linked(j) /\ j \in Int /\ j # Consumer
    BY DEF Chain
  <2>2. CASE j = Width
    BY <1>2, <2>1, <2>2 DEF Consume, Linked, Closed
  <2>3. CASE j + 1 = Width
    BY <1>2, <2>1, <2>3 DEF Consume, Linked, Active, Closed
  <2>4. CASE j # Width /\ j + 1 # Width
    <3>1. UNCHANGED <<pc[j], pc[j + 1], item[j], item[j + 1], done>>
      BY <2>1, <2>4 DEF Consume
    <3> QED BY <2>1, <3>1 DEF Linked, Active, Closed
  <2> QED BY <2>2, <2>3, <2>4
<1>5. EndInv' /\ EndsInv'
  BY DEF Consume, EndInv, EndsInv, Closed
<1>6. Received'
  BY <1>2 DEF Consume, Received, OutputIsPrefix
<1> QED BY <1>3, <1>4, <1>5, <1>6 DEF Chain

LEMMA OtherStep ==
  ASSUME IInv, CloseDone \/ EndOfOutput \/ UNCHANGED pipelineVars
  PROVE  IInv'
<1> USE Places DEF IInv, PipelineTypeOK
<1>1. CASE CloseDone \/ UNCHANGED pipelineVars
  BY <1>1 DEF CloseDone, pipelineVars, Chain, Linked, Active, Closed, EndInv, EndsInv,
              Received, OutputIsPrefix
<1>2. CASE EndOfOutput
  <2>1. PipelineTypeOK' /\ Received' /\ EndsInv'
    BY <1>2 DEF EndOfOutput, Received, OutputIsPrefix, EndsInv
  <2>2. Linked(Width)
    BY DEF Chain
  <2>3. done # "closed" => item[Consumer] = Inputs
    BY <1>2, <2>2 DEF EndOfOutput, Linked, Active, EndInv
  <2>4. ASSUME NEW j \in 0..Width PROVE Linked(j)'
    BY <1>2 DEF EndOfOutput, Chain, Linked, Active, Closed
  <2>5. EndInv'
    BY <1>2, <2>3 DEF EndOfOutput, EndInv, Closed
  <2> QED BY <2>1, <2>4, <2>5 DEF Chain
<1> QED BY <1>1, <1>2

LEMMA Inductive == PipelineSpec => []IInv
<1>1. IInv /\ [PipelineNext]_pipelineVars => IInv'
  BY SourceStep, PassStep, StopStep, DrainStep, ConsumeStep, OtherStep
     DEF PipelineNext, Main, Forward, Stage
<1> QED BY InitInv, <1>1, PTL DEF PipelineSpec

\* The variables keep their types for every number of stages and values.
THEOREM PipelineTypeCorrect == PipelineSpec => []PipelineTypeOK
<1>1. IInv => PipelineTypeOK
  BY DEF IInv
<1> QED BY Inductive, <1>1, PTL

\* Cancelling cuts the results short and leaves no gap in them, wherever it
\* meets the values in flight.
THEOREM ResultsAreAPrefix == PipelineSpec => []OutputIsPrefix
<1>1. IInv => OutputIsPrefix
  BY DEF IInv, Received
<1> QED BY Inductive, <1>1, PTL

\* Without done the consumer has everything when its range ends.
THEOREM NothingIsLost == PipelineSpec => []AllWithoutDone
<1>1. IInv => AllWithoutDone
  BY Places DEF IInv, Received, EndInv, AllWithoutDone, Closed
<1> QED BY Inductive, <1>1, PTL

----------------------------------------------------------------------------
(***************************************************************************)
(* The telnet client.  What run concludes from the result of one goroutine *)
(* is still true when the other one has ended and run returns, for every   *)
(* number of chunks.                                                       *)
(*                                                                         *)
(* The argument is what each result stands for (SendResult,                *)
(* ReceiveResult) and that run closes the connection only after it has     *)
(* taken one of them (Waits): an error that run reports was there before,  *)
(* and so is one of the peer.                                              *)
(***************************************************************************)

Results == {"off", "copying", "nil", "error", "taken"}

\* The variables of the client keep their types; no more is written than was
\* typed, and no more printed than served.
ClientTypes ==
  /\ runner \in {"connect", "select", "receiver", "sender", "returned"}
  /\ outcome \in {"none", "failed", "interrupted", "error", "sent", "received"}
  /\ interrupted \in BOOLEAN
  /\ input \in {"open", "end"}
  /\ typed \in 0 .. Chunks /\ written \in 0 .. typed
  /\ conn \in {"none", "open", "closed"}
  /\ peer \in {"open", "closed", "reset"}
  /\ served \in 0 .. Chunks /\ printed \in 0 .. served
  /\ sender \in Results /\ receiver \in Results

AllSent     == input = "end" /\ written = typed
AllReceived == peer # "open" /\ printed = served

\* The end of stdin is the only way for Send to succeed; while run waits for
\* either result, it fails only by a reset.
SendResult ==
  /\ sender = "nil" => AllSent
  /\ sender = "error" /\ runner = "select" => peer = "reset"

\* Likewise Receive and the end of the connection.
ReceiveResult ==
  /\ receiver = "nil" => AllReceived
  /\ receiver = "error" /\ runner = "select" => peer = "reset"

\* Where run is, what it has closed and taken, and what it knows by then.
Waits ==
  /\ runner # "returned" => outcome = "none"
  /\ runner = "connect" => conn = "none" /\ sender = "off" /\ receiver = "off"
  /\ runner = "select" => conn = "open"
  /\ runner = "receiver" => conn = "closed" /\ sender = "taken" /\ AllSent
  /\ runner = "sender" => conn = "closed" /\ receiver = "taken" /\ AllReceived

ClientInv ==
  /\ ClientTypes /\ SendResult /\ ReceiveResult /\ Waits
  /\ NothingCutShort /\ OwnCloseIsNoError

\* At first nothing has happened.
LEMMA ClientStarts == TelnetInit => ClientInv
<1> SUFFICES ASSUME TelnetInit PROVE ClientInv
  OBVIOUS
<1>1. 0 \in 0 .. Chunks /\ 0 \in 0 .. 0
  BY ChunksAssumption
<1>2. ClientTypes
  BY <1>1 DEF TelnetInit, ClientTypes, Results
<1>3. SendResult /\ ReceiveResult /\ Waits
  BY DEF TelnetInit, SendResult, ReceiveResult, Waits
<1> QED
  BY <1>2, <1>3 DEF TelnetInit, ClientInv, NothingCutShort, OwnCloseIsNoError

\* The user and the server change nothing that a result stands for.
LEMMA OthersStep ==
  ASSUME ClientInv, Type \/ Interrupt \/ Serve
  PROVE  ClientInv'
<1> USE ChunksAssumption
    DEF ClientInv, ClientTypes, SendResult, ReceiveResult, Waits,
        AllSent, AllReceived, NothingCutShort, OwnCloseIsNoError,
        Running, network, stdio
<1>1. CASE Type
  BY <1>1 DEF Type
<1>2. CASE Interrupt
  BY <1>2 DEF Interrupt
<1>3. CASE Serve
  BY <1>3 DEF Serve
<1> QED
  BY <1>1, <1>2, <1>3

\* A goroutine ends as its result says.
LEMMA CopyStep ==
  ASSUME ClientInv, Send \/ Receive
  PROVE  ClientInv'
<1> USE ChunksAssumption
    DEF ClientInv, ClientTypes, Results, SendResult, ReceiveResult, Waits,
        AllSent, AllReceived, NothingCutShort, OwnCloseIsNoError,
        Running, network, stdio
<1>1. CASE SendChunk
  BY <1>1 DEF SendChunk
<1>2. CASE SendEnds
  BY <1>2 DEF SendEnds
<1>3. CASE ReceiveChunk
  BY <1>3 DEF ReceiveChunk
<1>4. CASE ReceiveEnds
  BY <1>4 DEF ReceiveEnds
<1> QED
  BY <1>1, <1>2, <1>3, <1>4 DEF Send, Receive

\* run closes and returns only on what the results allow.
LEMMA RunStep ==
  ASSUME ClientInv, Run
  PROVE  ClientInv'
<1> USE DEF ClientInv, ClientTypes, Results, SendResult, ReceiveResult, Waits,
            AllSent, AllReceived, NothingCutShort, OwnCloseIsNoError,
            Return, stdio
<1>1. CASE Connect
  BY <1>1 DEF Connect
<1>2. CASE OnInterrupt
  BY <1>2 DEF OnInterrupt
<1>3. CASE OnSent
  BY <1>3 DEF OnSent
<1>4. CASE OnReceived
  BY <1>4 DEF OnReceived
<1>5. CASE AwaitReceiver
  BY <1>5 DEF AwaitReceiver
<1>6. CASE AwaitSender
  BY <1>6 DEF AwaitSender
<1> QED
  BY <1>1, <1>2, <1>3, <1>4, <1>5, <1>6 DEF Run

LEMMA ClientInductive == TelnetSpec => []ClientInv
<1>1. ClientInv /\ UNCHANGED telnetVars => ClientInv'
  BY DEF telnetVars, network, stdio, ClientInv, ClientTypes, SendResult,
         ReceiveResult, Waits, AllSent, AllReceived, NothingCutShort,
         OwnCloseIsNoError
<1>2. ClientInv /\ [TelnetNext]_telnetVars => ClientInv'
  BY <1>1, OthersStep, CopyStep, RunStep DEF TelnetNext
<1> QED
  BY ClientStarts, <1>2, PTL DEF TelnetSpec

\* A run that reports the end of stdin has written all of it, and one that
\* reports the end of the connection has printed all that arrived, whichever
\* of two ready cases select takes (main.go, run).
THEOREM TelnetCutsNothingShort == TelnetSpec => []NothingCutShort
<1>1. ClientInv => NothingCutShort
  BY DEF ClientInv
<1> QED
  BY ClientInductive, <1>1, PTL

\* An error that run reports is one of the peer, never one that its own Close
\* gave the other goroutine.
THEOREM TelnetReportsThePeer == TelnetSpec => []OwnCloseIsNoError
<1>1. ClientInv => OwnCloseIsNoError
  BY DEF ClientInv
<1> QED
  BY ClientInductive, <1>1, PTL

----------------------------------------------------------------------------
(* Parts of sequences, the least and the greatest of a set, and counting *)

\* A part of a sequence within its bounds.
LEMMA Part ==
  ASSUME NEW S, NEW s \in Seq(S), NEW m \in Nat \ {0}, NEW n \in Int, n <= Len(s)
  PROVE  /\ SubSeq(s, m, n) \in Seq(S)
         /\ Len(SubSeq(s, m, n)) = IF m <= n THEN n - m + 1 ELSE 0
         /\ \A i \in 1 .. n - m + 1 : SubSeq(s, m, n)[i] = s[m + i - 1]
<1>1. \A i \in m .. n : s[i] \in S
  BY ElementOfSeq
<1> QED
  BY <1>1, SubSeqProperties

\* The first m elements.
LEMMA Beginning ==
  ASSUME NEW S, NEW s \in Seq(S), NEW m \in Nat, m <= Len(s)
  PROVE  /\ SubSeq(s, 1, m) \in Seq(S) /\ Len(SubSeq(s, 1, m)) = m
         /\ \A i \in 1 .. m : SubSeq(s, 1, m)[i] = s[i]
<1>1. /\ 1 \in Nat \ {0} /\ m \in Int /\ m - 1 + 1 = m
      /\ ~(1 <= m) => m = 0
      /\ \A i \in 1 .. m : 1 + i - 1 = i
  OBVIOUS
<1> QED
  BY <1>1, Part

\* All but these.
LEMMA Rest ==
  ASSUME NEW S, NEW s \in Seq(S), NEW m \in Nat, m <= Len(s)
  PROVE  /\ SubSeq(s, m + 1, Len(s)) \in Seq(S)
         /\ Len(SubSeq(s, m + 1, Len(s))) = Len(s) - m
         /\ \A i \in 1 .. Len(s) - m : SubSeq(s, m + 1, Len(s))[i] = s[m + i]
<1>1. \A n \in Nat : m <= n =>
        /\ m + 1 \in Nat \ {0} /\ n \in Int /\ n - (m + 1) + 1 = n - m
        /\ ~(m + 1 <= n) => n - m = 0
        /\ \A i \in 1 .. n - m : (m + 1) + i - 1 = m + i
  OBVIOUS
<1>2. Len(s) \in Nat
  BY LenProperties
<1> QED
  BY <1>1, <1>2, Part

\* The order of the numbers as a relation, for the lemmas on well-founded ones.
LessThan == {ss \in Nat \X Nat : ss[1] < ss[2]}

\* Every set of numbers that is not empty has a least one.
LEMMA LeastOf ==
  ASSUME NEW S, S \subseteq Nat, S # {}
  PROVE  \E n \in S : \A m \in S : n <= m
<1>1. IsWellFoundedOn(LessThan, Nat)
  BY NatLessThanWellFounded DEF LessThan, OpToRel
<1>2. PICK n \in S : \A m \in S : ~(<<m, n>> \in LessThan)
  BY <1>1, WFMin
<1>3. \A m \in S : ~(m < n)
  BY <1>2 DEF LessThan
<1> QED
  BY <1>3

\* One below a bound has a greatest one.
LEMMA GreatestOf ==
  ASSUME NEW b \in Nat, NEW S, S \subseteq 0 .. b, S # {}
  PROVE  \E n \in S : \A m \in S : m <= n
<1> DEFINE T == {b - n : n \in S}
<1>1. T \subseteq Nat /\ T # {}
  <2>1. \A n \in S : n \in 0 .. b
    OBVIOUS
  <2>2. \A n \in S : b - n \in Nat
    BY <2>1
  <2> QED
    BY <2>2
<1>2. PICK t \in T : \A u \in T : t <= u
  BY <1>1, LeastOf
<1>3. PICK n \in S : t = b - n
  OBVIOUS
<1>4. \A m \in S : b - n <= b - m
  BY <1>2, <1>3
<1> QED
  BY <1>4

\* The sum over the places up to n + 1 of what is counted.
LEMMA CountsOn ==
  ASSUME NEW n \in Nat, NEW P, P \subseteq 1 .. n + 1
  PROVE  /\ Cardinality(P \cap 1 .. n) \in Nat
         /\ Cardinality(P) = Cardinality(P \cap 1 .. n)
                               + (IF n + 1 \in P THEN 1 ELSE 0)
<1> DEFINE before == P \cap 1 .. n
<1>1. IsFiniteSet(before) /\ Cardinality(before) \in Nat
  <2>1. IsFiniteSet(1 .. n)
    BY FS_Interval
  <2> QED
    BY <2>1, FS_Subset, FS_CardinalityType
<1>0. \A i \in P : i \in 1 .. n \/ i = n + 1
  <2>1. \A i \in 1 .. n + 1 : i \in 1 .. n \/ i = n + 1
    OBVIOUS
  <2> QED
    BY <2>1
<1>2. CASE n + 1 \in P
  <2>0. n + 1 \notin 1 .. n
    OBVIOUS
  <2>1. P = before \cup {n + 1} /\ n + 1 \notin before
    BY <1>0, <1>2, <2>0
  <2> HIDE DEF before
  <2>2. Cardinality(P) = Cardinality(before) + 1
    BY <1>1, <2>1, FS_AddElement
  <2> QED
    BY <1>1, <1>2, <2>2 DEF before
<1>3. CASE n + 1 \notin P
  <2>1. P = before
    BY <1>0, <1>3
  <2> HIDE DEF before
  <2>2. Cardinality(P) = Cardinality(before) + 0
    BY <1>1, <2>1
  <2> QED
    BY <1>1, <1>3, <2>2 DEF before
<1> QED
  BY <1>2, <1>3

----------------------------------------------------------------------------
(***************************************************************************)
(* File copying.  The destination always holds the first copied bytes of   *)
(* what the limited reader delivers (Copying), and that is what offset and *)
(* limit ask for (CopyRange).                                              *)
(***************************************************************************)

\* Kept apart: the provers take an interval for more than a name.
Byte == 0 .. 255

Sensible == job.offset >= 0 /\ job.limit >= 0 /\ ~job.itself

CopyTypes ==
  /\ job \in Jobs
  /\ copied \in Nat /\ lastUpdateBytes \in Nat
  /\ destination \in {"untouched", "created"}
  /\ held \in Seq(Byte) /\ shown \in Seq(Int)

\* What the loop has done so far.
Copying ==
  /\ job.offset <= Size /\ copied <= Len(Available) /\ copied <= job.readable
  /\ destination = "created" /\ held = SubSeq(Available, 1, copied)
  /\ InOrder(shown, bytesToCopy)
  /\ lastUpdateBytes = IF shown = <<>> THEN 0 ELSE shown[Len(shown)]
  /\ lastUpdateBytes <= copied

CopyInv ==
  /\ CopyTypes
  /\ copier = "start" =>
       /\ copied = 0 /\ lastUpdateBytes = 0 /\ destination = "untouched"
       /\ held = <<>> /\ shown = <<>>
  /\ Sensible /\ copier = "loop" => Copying
  /\ CopyIsRight

\* Whatever the arguments, the reader delivers bytes.
LEMMA ReaderType ==
  ASSUME job \in Jobs
  PROVE  /\ job.bytes \in Seq(Byte) /\ Size \in Nat /\ job.room \in Nat
         /\ job.readable \in Nat /\ job.offset \in Int /\ job.limit \in Int
         /\ bytesToCopy \in Int
         /\ Available \in Seq(Byte) /\ Len(Available) \in Nat
<1>1. /\ job.bytes \in Seq(Byte) /\ Size \in Nat /\ job.room \in Nat
      /\ job.readable \in Nat /\ job.offset \in Int /\ job.limit \in Int
  BY DEF Jobs, Size, Byte
<1>2. bytesToCopy \in Int
  BY <1>1 DEF bytesToCopy
<1>3. ASSUME NEW begin \in Nat
      PROVE  SubSeq(job.bytes, begin + 1, Least(begin + bytesToCopy, Size)) \in Seq(Byte)
  <2>1. /\ begin + 1 \in Nat \ {0}
        /\ Least(begin + bytesToCopy, Size) \in Int
        /\ Least(begin + bytesToCopy, Size) <= Size
    BY <1>1, <1>2 DEF Least
  <2> QED
    BY <1>1, <2>1, Part DEF Size
<1>4. Available \in Seq(Byte)
  BY <1>1, <1>3 DEF Available
<1> QED
  BY <1>1, <1>2, <1>4

\* With sensible arguments the reader delivers the bytes that are wanted.
LEMMA CopyRange ==
  ASSUME job \in Jobs, Sensible, job.offset <= Size
  PROVE  /\ bytesToCopy \in Nat /\ Size \in Nat
         /\ job.offset \in Nat /\ job.room \in Nat
         /\ Available \in Seq(Byte) /\ Len(Available) = bytesToCopy
         /\ \A k \in 1 .. bytesToCopy : Available[k] = job.bytes[job.offset + k]
         /\ Wanted = {i \in Int : job.offset < i /\ i <= job.offset + bytesToCopy}
<1>1. /\ job.bytes \in Seq(Byte) /\ Size \in Nat /\ job.room \in Nat
      /\ job.offset \in Nat /\ job.limit \in Nat
  BY ReaderType DEF Sensible
<1>2. bytesToCopy \in Nat /\ job.offset + bytesToCopy <= Size
  BY <1>1 DEF bytesToCopy
<1>3. Available = SubSeq(job.bytes, job.offset + 1, job.offset + bytesToCopy)
  <2>1. (IF job.offset > 0 THEN job.offset ELSE 0) = job.offset
    BY <1>1
  <2>2. Least(job.offset + bytesToCopy, Size) = job.offset + bytesToCopy
    BY <1>1, <1>2 DEF Least
  <2>3. ~job.itself
    BY DEF Sensible
  <2> QED
    BY <2>1, <2>2, <2>3 DEF Available
<1>4. /\ Available \in Seq(Byte) /\ Len(Available) = bytesToCopy
      /\ \A k \in 1 .. bytesToCopy : Available[k] = job.bytes[job.offset + k]
  <2> DEFINE first == job.offset + 1
             last == job.offset + bytesToCopy
  <2>1. /\ first \in Nat \ {0} /\ last \in Int /\ last <= Len(job.bytes)
    BY <1>1, <1>2 DEF Size
  <2>2. /\ last - first + 1 = bytesToCopy
        /\ ~(first <= last) => bytesToCopy = 0
        /\ \A k \in 1 .. bytesToCopy : first + k - 1 = job.offset + k
    <3>1. \A o, b \in Nat :
            /\ (o + b) - (o + 1) + 1 = b
            /\ ~(o + 1 <= o + b) => b = 0
            /\ \A k \in 1 .. b : (o + 1) + k - 1 = o + k
      OBVIOUS
    <3> QED
      BY <3>1, <1>1, <1>2
  <2> HIDE DEF first, last
  <2>3. /\ SubSeq(job.bytes, first, last) \in Seq(Byte)
        /\ Len(SubSeq(job.bytes, first, last)) = bytesToCopy
        /\ \A k \in 1 .. bytesToCopy :
             SubSeq(job.bytes, first, last)[k] = job.bytes[first + k - 1]
    BY <1>1, <2>1, <2>2, Part
  <2>4. Available = SubSeq(job.bytes, first, last)
    BY <1>3 DEF first, last
  <2> QED
    BY <2>2, <2>3, <2>4
<1>5. Wanted = {i \in Int : job.offset < i /\ i <= job.offset + bytesToCopy}
  BY <1>1, <1>2 DEF Wanted, bytesToCopy
<1> QED
  BY <1>1, <1>2, <1>4, <1>5

\* What depends on the job alone.
LEMMA SameJob ==
  ASSUME UNCHANGED job
  PROVE  /\ Size' = Size /\ bytesToCopy' = bytesToCopy /\ Available' = Available
         /\ Wanted' = Wanted /\ (Sensible' <=> Sensible)
BY DEF Size, bytesToCopy, Available, Least, Wanted, Sensible

\* A beginning of what the reader delivers is one of what is wanted.
LEMMA WantedFirst ==
  ASSUME job \in Jobs, Sensible, job.offset <= Size,
         NEW n \in Nat, n <= Len(Available),
         NEW part, part = SubSeq(Available, 1, n)
  PROVE  /\ part \in Seq(Byte) /\ Len(part) = n
         /\ \A k \in DOMAIN part :
              job.offset + k \in Wanted /\ part[k] = job.bytes[job.offset + k]
<1>1. /\ bytesToCopy \in Nat /\ job.offset \in Nat
      /\ Available \in Seq(Byte) /\ Len(Available) = bytesToCopy
      /\ \A k \in 1 .. bytesToCopy : Available[k] = job.bytes[job.offset + k]
      /\ Wanted = {i \in Int : job.offset < i /\ i <= job.offset + bytesToCopy}
  BY CopyRange
<1>2. /\ part \in Seq(Byte) /\ Len(part) = n
      /\ \A k \in 1 .. n : part[k] = Available[k]
  BY <1>1, Beginning
<1>3. DOMAIN part = 1 .. n
  BY <1>2, LenProperties
<1>4. ASSUME NEW k \in 1 .. n
      PROVE  job.offset + k \in Wanted /\ part[k] = job.bytes[job.offset + k]
  <2>1. k \in 1 .. bytesToCopy
    BY <1>1
  <2> QED
    BY <1>1, <1>2, <2>1
<1> QED
  BY <1>2, <1>3, <1>4

LEMMA CopyStarts == ASSUME NEW j \in Jobs, CopyStart(j) PROVE CopyInv
<1>1. /\ job = j /\ copier = "start" /\ copied = 0 /\ lastUpdateBytes = 0
      /\ destination = "untouched" /\ held = <<>> /\ shown = <<>>
  BY DEF CopyStart
<1>2. CopyTypes
  BY <1>1 DEF CopyTypes
<1>3. CopyIsRight
  BY <1>1 DEF CopyIsRight
<1> QED
  BY <1>1, <1>2, <1>3 DEF CopyInv

\* Before the loop: nothing to copy is right as it stands.
LEMMA CopyBegins == ASSUME CopyInv, Copy PROVE CopyInv'
<1>a. /\ CopyTypes /\ copied = 0 /\ lastUpdateBytes = 0 /\ destination = "untouched"
      /\ held = <<>> /\ shown = <<>>
      /\ UNCHANGED <<job, copied, lastUpdateBytes, held, shown>>
      /\ destination' = IF copier' \in {"nil", "loop"} /\ job.creates THEN "created"
                        ELSE destination
  BY DEF CopyInv, Copy
<1>1. CopyTypes' /\ copier' # "start"
  BY <1>a DEF Copy, CopyTypes
<1>b. /\ Available' = Available /\ Size' = Size /\ bytesToCopy' = bytesToCopy
      /\ Wanted' = Wanted /\ (Sensible' <=> Sensible)
  BY <1>a, SameJob
<1>c. /\ Size \in Nat /\ job.offset \in Int /\ job.readable \in Nat
      /\ Available \in Seq(Byte) /\ Len(Available) \in Nat
  BY <1>a, ReaderType DEF CopyTypes
<1>d. /\ copier' = "nil" => ~(job.offset > Size) /\ bytesToCopy = 0
      /\ copier' = "loop" => ~(job.offset > Size) /\ job.creates
  BY DEF Copy
<1>2. ASSUME Sensible', copier' = "loop" PROVE Copying'
  <2>1. Sensible /\ job.offset <= Size /\ destination' = "created"
    BY <1>2, <1>a, <1>b, <1>c, <1>d
  <2>2. SubSeq(Available, 1, 0) = <<>> /\ Len(Available) >= 0
    BY <1>c
  <2> QED
    BY <1>a, <1>b, <1>c, <2>1, <2>2 DEF Copying, InOrder
<1>3. CopyIsRight'
  <2> SUFFICES ASSUME Sensible'
               PROVE  /\ copier' = "nil" => Succeeded'
                      /\ copier' \notin {"start", "loop", "nil"} => Failed'
    BY <1>a DEF CopyIsRight, Sensible
  <2>1. Sensible
    BY <1>b
  <2>2. ASSUME copier' = "nil" PROVE Succeeded'
    <3>1. /\ job.offset <= Size /\ bytesToCopy = 0
          /\ destination' = "created" <=> job.creates
      BY <2>2, <1>a, <1>c, <1>d
    <3>2. Wanted = {}
      BY <2>1, <3>1, <1>a, CopyRange DEF CopyTypes
    <3>3. destination' = "created" \/ CreateErrorDropped'
      BY <3>1, <3>2, <1>a, <1>b DEF CreateErrorDropped
    <3>4. DOMAIN held' = {i - job.offset : i \in Wanted}
      BY <1>a, <3>2
    <3> QED
      BY <3>3, <3>4, <1>a, <1>b DEF Succeeded
  <2>3. ASSUME copier' \notin {"start", "loop", "nil"} PROVE Failed'
    <3>1. destination' = "untouched" /\ held' = <<>>
      BY <2>3, <1>a
    <3>2. ASSUME job.offset <= Size, bytesToCopy # 0 PROVE Wanted # {}
      <4>1. /\ bytesToCopy \in Nat /\ job.offset \in Nat
            /\ Wanted = {i \in Int : job.offset < i /\ i <= job.offset + bytesToCopy}
        BY <2>1, <3>2, <1>a, CopyRange DEF CopyTypes
      <4>2. job.offset + 1 \in Wanted
        BY <3>2, <4>1
      <4> QED
        BY <4>2
    <3>3. \/ copier' = "open" /\ ~job.opens
          \/ copier' = "stat" /\ ~job.stats
          \/ copier' = "unsupported" /\ ~job.regular
          \/ copier' = "offset" /\ job.offset > Size
          \/ copier' = "seek" /\ ~job.seeks /\ job.offset # 0
          \/ copier' = "create" /\ ~job.creates /\ Wanted # {}
      BY <2>3, <3>2, <1>c DEF Copy
    <3> QED
      BY <3>1, <3>3, <1>a, <1>b DEF Failed
  <2> QED
    BY <2>2, <2>3
<1> QED
  BY <1>1, <1>2, <1>3 DEF CopyInv

\* A chunk prolongs what the destination holds; a line shown is beyond the last.
LEMMA CopyGoesOn == ASSUME CopyInv, CopyChunk PROVE CopyInv'
<1> USE CopyAssumption
<1>a. /\ copier = "loop" /\ NextRead > 0 /\ copied' = copied + NextRead
      /\ held' = held \o SubSeq(Available, copied + 1, copied')
      /\ \/ /\ Enough(copied' - lastUpdateBytes) \/ copied' = bytesToCopy
            /\ shown' = Append(shown, copied') /\ lastUpdateBytes' = copied'
         \/ UNCHANGED <<shown, lastUpdateBytes>>
      /\ UNCHANGED <<job, copier, destination>>
  BY DEF CopyChunk
<1>b. CopyTypes /\ (Sensible => Copying)
  BY <1>a DEF CopyInv
<1>1. /\ NextRead \in Nat \ {0} /\ copied + NextRead <= Len(Available)
      /\ copied + NextRead <= job.readable
  <2>1. Len(Available) \in Nat /\ job.readable \in Nat
    BY <1>b, ReaderType DEF CopyTypes
  <2>2. /\ Least(Len(Available), job.readable) \in Int
        /\ Least(Len(Available), job.readable) <= Len(Available)
        /\ Least(Len(Available), job.readable) <= job.readable
    BY <2>1 DEF Least
  <2>3. /\ NextRead \in Int
        /\ NextRead <= Least(Len(Available), job.readable) - copied
    <3> DEFINE end == Least(Len(Available), job.readable)
    <3>1. end \in Int /\ copied \in Nat /\ BufferSize \in Nat
      BY <1>b, <2>2 DEF CopyTypes
    <3> HIDE DEF end
    <3>2. Least(BufferSize, end - copied) \in Int
          /\ Least(BufferSize, end - copied) <= end - copied
      BY <3>1 DEF Least
    <3> QED
      BY <3>2 DEF NextRead, end
  <2>4. copied \in Nat
    BY <1>b DEF CopyTypes
  <2> QED
    BY <1>a, <2>1, <2>2, <2>3, <2>4
<1>2. Available' = Available /\ Size' = Size /\ bytesToCopy' = bytesToCopy
  BY <1>a, SameJob
<1>3. Available \in Seq(Byte) /\ bytesToCopy \in Int
  BY <1>b, ReaderType DEF CopyTypes
<1>4. CopyTypes'
  <2>1. copied + 1 \in Nat \ {0} /\ copied' \in Nat /\ copied' <= Len(Available)
    BY <1>a, <1>b, <1>1, <1>3 DEF CopyTypes
  <2>2. SubSeq(Available, copied + 1, copied') \in Seq(Byte)
    BY <2>1, <1>3, Part
  <2>3. held' \in Seq(Byte)
    <3>1. held \in Seq(Byte)
      BY <1>b DEF CopyTypes
    <3> QED
      BY <1>a, <2>2, <3>1, ConcatProperties
  <2>4. shown' \in Seq(Int) /\ lastUpdateBytes' \in Nat
    <3>1. shown \in Seq(Int) /\ lastUpdateBytes \in Nat /\ copied' \in Int
      BY <1>b, <2>1 DEF CopyTypes
    <3>2. Append(shown, copied') \in Seq(Int)
      BY <3>1, AppendProperties
    <3>3. \/ shown' = Append(shown, copied') /\ lastUpdateBytes' = copied'
          \/ shown' = shown /\ lastUpdateBytes' = lastUpdateBytes
      BY <1>a
    <3> QED
      BY <2>1, <3>1, <3>2, <3>3
  <2> QED
    BY <1>a, <1>b, <2>1, <2>3, <2>4 DEF CopyTypes
<1>5. ASSUME Sensible' PROVE Copying'
  <2>1. Sensible /\ Copying
    BY <1>5, <1>a, <1>b, SameJob
  <2>2. /\ copied' \in Nat /\ copied' > copied /\ copied' <= Len(Available)
        /\ copied' <= job'.readable /\ destination' = "created"
    BY <1>a, <1>b, <1>1, <1>3, <2>1 DEF CopyTypes, Copying
  <2>3. held' = SubSeq(Available, 1, copied')
    <3>1. copied \in Nat /\ copied <= copied' /\ Len(Available) \in Nat
      BY <2>2, <1>b, <1>3 DEF CopyTypes
    <3>2. /\ 1 \in 1 .. Len(Available) + 1 /\ copied \in 1 - 1 .. Len(Available)
          /\ copied' \in copied .. Len(Available)
      BY <2>2, <3>1
    <3>3. /\ held = SubSeq(Available, 1, copied)
          /\ held' = held \o SubSeq(Available, copied + 1, copied')
      BY <2>1, <1>a DEF Copying
    <3>4. SubSeq(Available, 1, copied) \o SubSeq(Available, copied + 1, copied')
            = SubSeq(Available, 1, copied')
      BY <3>2, <1>3, ConcatAdjacentSubSeq
    <3> QED
      BY <3>3, <3>4
  <2>4. CASE UNCHANGED <<shown, lastUpdateBytes>>
    <3>1. job'.offset <= Size' /\ InOrder(shown', bytesToCopy')
      BY <1>a, <1>2, <2>1, <2>4 DEF Copying, InOrder
    <3>2. /\ lastUpdateBytes' = IF shown' = <<>> THEN 0 ELSE shown'[Len(shown')]
          /\ lastUpdateBytes' <= copied'
      BY <1>b, <2>1, <2>2, <2>4 DEF Copying, CopyTypes
    <3> QED
      BY <1>2, <2>2, <2>3, <3>1, <3>2, Zenon DEF Copying
  <2>5. CASE /\ Enough(copied' - lastUpdateBytes) \/ copied' = bytesToCopy
             /\ shown' = Append(shown, copied') /\ lastUpdateBytes' = copied'
    <3>1. /\ Len(shown') = Len(shown) + 1 /\ shown'[Len(shown) + 1] = copied'
          /\ \A k \in 1 .. Len(shown) : shown'[k] = shown[k]
          /\ shown' # <<>> /\ Len(shown) \in Nat /\ DOMAIN shown' = 1 .. Len(shown')
          /\ DOMAIN shown = 1 .. Len(shown)
      <4>1. copied' \in Int /\ shown \in Seq(Int) /\ shown' \in Seq(Int)
        BY <1>b, <1>4, <2>2 DEF CopyTypes
      <4> QED
        BY <4>1, <2>5, AppendProperties, LenProperties
    <3>2. InOrder(shown', bytesToCopy)
      <4> SUFFICES ASSUME NEW k \in DOMAIN shown'
                   PROVE  LET before == IF k = 1 THEN 0 ELSE shown'[k - 1] IN
                          /\ shown'[k] > before
                          /\ \/ 100 * (shown'[k] - before) >= Threshold * bytesToCopy
                             \/ shown'[k] = bytesToCopy
        BY DEF InOrder
      <4>1. CASE k <= Len(shown)
        <5>1. k \in DOMAIN shown /\ (k # 1 => k - 1 \in 1 .. Len(shown))
          BY <4>1, <3>1
        <5>2. shown'[k] = shown[k] /\ (k # 1 => shown'[k - 1] = shown[k - 1])
          BY <4>1, <3>1, <5>1
        <5> QED
          BY <2>1, <5>1, <5>2 DEF Copying, InOrder
      <4>2. CASE k = Len(shown) + 1
        <5>1. lastUpdateBytes = IF k = 1 THEN 0 ELSE shown'[k - 1]
          BY <4>2, <3>1, <2>1, <1>b DEF Copying, CopyTypes
        <5>2. /\ lastUpdateBytes \in Nat /\ copied \in Nat
              /\ lastUpdateBytes <= copied
          BY <2>1, <1>b DEF Copying, CopyTypes
        <5>3. shown'[k] = copied' /\ copied' > lastUpdateBytes
          BY <4>2, <3>1, <5>2, <2>2
        <5>4. \/ 100 * (copied' - lastUpdateBytes) >= Threshold * bytesToCopy
              \/ copied' = bytesToCopy
          BY <2>5 DEF Enough
        <5> QED
          BY <5>1, <5>3, <5>4, Zenon
      <4> QED
        BY <4>1, <4>2, <3>1
    <3>3. /\ lastUpdateBytes' = IF shown' = <<>> THEN 0 ELSE shown'[Len(shown')]
          /\ lastUpdateBytes' <= copied'
      BY <2>2, <2>5, <3>1
    <3>4. job'.offset <= Size' /\ Available' = Available /\ bytesToCopy' = bytesToCopy
      BY <1>a, <1>2, <2>1 DEF Copying
    <3> QED
      BY <3>2, <3>3, <3>4, <2>2, <2>3, Zenon DEF Copying
  <2> QED
    BY <1>a, <2>4, <2>5
<1>6. CopyIsRight'
  <2> SUFFICES ASSUME Sensible'
               PROVE  \A k \in DOMAIN held' :
                        /\ job'.offset + k \in Wanted'
                        /\ held'[k] = job'.bytes[job'.offset + k]
    BY <1>a DEF CopyIsRight, Sensible
  <2>1. Copying' /\ Sensible /\ Wanted' = Wanted
    BY <1>5, <1>a, SameJob
  <2>2. /\ copied' \in Nat /\ copied' <= Len(Available) /\ job.offset <= Size
        /\ held' = SubSeq(Available, 1, copied') /\ job \in Jobs
    BY <1>a, <1>b, <1>2, <1>4, <2>1 DEF Copying, CopyTypes
  <2>3. \A k \in DOMAIN held' :
          job.offset + k \in Wanted /\ held'[k] = job.bytes[job.offset + k]
    BY <2>1, <2>2, WantedFirst
  <2> QED
    BY <1>a, <2>1, <2>3
<1> QED
  BY <1>a, <1>4, <1>5, <1>6 DEF CopyInv

\* A failing read or write leaves the wanted bytes before it.
LEMMA CopyWriteFails == ASSUME CopyInv, WriteFails PROVE CopyInv'
<1> USE CopyAssumption
<1>a. /\ copier = "loop" /\ NextRead > 0 /\ copied + NextRead > job.room
      /\ held' = SubSeq(Available, 1, job.room) /\ copier' = "write"
      /\ UNCHANGED <<job, copied, lastUpdateBytes, destination, shown>>
  BY DEF WriteFails
<1>b. CopyTypes /\ job \in Jobs /\ copied \in Nat /\ (Sensible => Copying)
  BY <1>a DEF CopyInv, CopyTypes
<1>1. /\ Available \in Seq(Byte) /\ job.room \in Nat /\ job.readable \in Nat
      /\ Len(Available) \in Nat
  BY <1>b, ReaderType
<1>2. /\ NextRead \in Nat \ {0} /\ copied + NextRead <= Len(Available)
      /\ job.room <= Len(Available)
  BY <1>a, <1>b, <1>1 DEF NextRead, Least
<1>3. CopyTypes'
  <2>1. SubSeq(Available, 1, job.room) \in Seq(Byte)
    BY <1>1, <1>2, Part
  <2> QED
    BY <1>a, <1>b, <2>1 DEF CopyTypes
<1>4. ASSUME Sensible PROVE CopyIsRight'
  <2>1. job.offset <= Size /\ destination' = "created"
    BY <1>4, <1>a, <1>b DEF Copying
  <2>2. /\ bytesToCopy \in Nat /\ job.offset \in Nat /\ Len(Available) = bytesToCopy
        /\ Wanted = {i \in Int : job.offset < i /\ i <= job.offset + bytesToCopy}
    BY <1>4, <1>b, <2>1, CopyRange
  <2>3. /\ Len(held') = job.room
        /\ \A k \in DOMAIN held' :
             job.offset + k \in Wanted /\ held'[k] = job.bytes[job.offset + k]
    <3>1. /\ held' = SubSeq(Available, 1, job.room) /\ job.room \in Nat
          /\ job.room <= Len(Available) /\ job.offset <= Size /\ job \in Jobs
      BY <1>a, <1>b, <1>1, <1>2, <2>1
    <3> QED
      BY <1>4, <3>1, WantedFirst, ZenonT(40)
  <2>4. \E i \in Wanted : i - job.offset > job.room
    <3> DEFINE last == job.offset + (copied + NextRead)
    <3>1. last \in Wanted
      BY <1>b, <1>2, <2>2
    <3>2. last - job.offset > job.room
      BY <1>a, <1>b, <1>1, <1>2, <2>2
    <3> HIDE DEF last
    <3> QED
      BY <3>1, <3>2
  <2>5. Wanted' = Wanted
    BY <1>a, SameJob
  <2>6. Failed'
    BY <1>a, <2>1, <2>3, <2>4, <2>5 DEF Failed
  <2> QED
    BY <1>a, <2>3, <2>5, <2>6 DEF CopyIsRight
<1>5. CopyIsRight'
  BY <1>4, <1>a DEF CopyIsRight, Sensible
<1> QED
  BY <1>a, <1>3, <1>5 DEF CopyInv

LEMMA CopyReadFails == ASSUME CopyInv, ReadError PROVE CopyInv'
<1>a. /\ copier = "loop" /\ copied = job.readable /\ copied < bytesToCopy
      /\ copier' = "read"
      /\ UNCHANGED <<job, copied, lastUpdateBytes, destination, held, shown>>
  BY DEF ReadError, AtError
<1>b. CopyTypes /\ job \in Jobs /\ copied \in Nat /\ (Sensible => Copying)
  BY <1>a DEF CopyInv, CopyTypes
<1>1. CopyTypes'
  BY <1>a, <1>b DEF CopyTypes
<1>2. ASSUME Sensible PROVE CopyIsRight'
  <2>1. /\ job.offset <= Size /\ destination = "created" /\ copied <= Len(Available)
        /\ held = SubSeq(Available, 1, copied)
    BY <1>2, <1>b DEF Copying
  <2>2. /\ bytesToCopy \in Nat /\ job.offset \in Nat
        /\ Wanted = {i \in Int : job.offset < i /\ i <= job.offset + bytesToCopy}
    BY <1>2, <1>b, <2>1, CopyRange
  <2>3. /\ Len(held) = copied
        /\ \A k \in DOMAIN held :
             job.offset + k \in Wanted /\ held[k] = job.bytes[job.offset + k]
    BY <1>2, <1>b, <2>1, WantedFirst
  <2>4. \E i \in Wanted : i - job.offset > job.readable
    <3> DEFINE first == job.offset + (copied + 1)
    <3>1. first \in Wanted /\ first - job.offset > job.readable
      BY <1>a, <1>b, <2>2
    <3> HIDE DEF first
    <3> QED
      BY <3>1
  <2>5. Wanted' = Wanted
    BY <1>a, SameJob
  <2>6. Failed'
    BY <1>a, <2>1, <2>3, <2>4, <2>5 DEF Failed
  <2> QED
    BY <1>a, <2>3, <2>5, <2>6 DEF CopyIsRight
<1>3. CopyIsRight'
  BY <1>2, <1>a DEF CopyIsRight, Sensible
<1> QED
  BY <1>a, <1>1, <1>3 DEF CopyInv

LEMMA CopyEnds == ASSUME CopyInv, EndOfFile PROVE CopyInv'
<1> USE CopyAssumption DEF CopyInv, EndOfFile
<1>1. Available \in Seq(Byte) /\ bytesToCopy \in Int /\ job.readable \in Nat
  BY ReaderType DEF CopyTypes
<1>2. CopyTypes'
  BY <1>1 DEF CopyTypes
<1>3. ASSUME Sensible PROVE CopyIsRight'
  <2>1. Copying /\ job.offset <= Size /\ copied \in Nat /\ job \in Jobs
    BY <1>3 DEF Copying, CopyTypes
  <2>2. /\ bytesToCopy \in Nat /\ job.offset \in Nat /\ Len(Available) = bytesToCopy
        /\ \A k \in 1 .. bytesToCopy : Available[k] = job.bytes[job.offset + k]
        /\ Wanted = {i \in Int : job.offset < i /\ i <= job.offset + bytesToCopy}
    BY <1>3, <2>1, CopyRange
  <2>3. copied = bytesToCopy
    BY <1>1, <2>1, <2>2 DEF NextRead, AtError, Least, Copying
  <2>4. held = Available
    BY <1>1, <2>1, <2>2, <2>3 DEF Copying
  <2>5. DOMAIN held = {i - job.offset : i \in Wanted}
    <3>1. DOMAIN held = 1 .. bytesToCopy
      BY <1>1, <2>2, <2>4
    <3>2. ASSUME NEW k \in 1 .. bytesToCopy
          PROVE  k + job.offset \in Wanted /\ k = (k + job.offset) - job.offset
      BY <2>2
    <3>3. ASSUME NEW i \in Wanted PROVE i - job.offset \in 1 .. bytesToCopy
      BY <2>2
    <3> QED
      BY <3>1, <3>2, <3>3
  <2>6. \A k \in DOMAIN held :
          job.offset + k \in Wanted /\ held[k] = job.bytes[job.offset + k]
    BY <1>3, <2>1, WantedFirst DEF Copying
  <2>7. /\ shown' # <<>> /\ shown'[Len(shown')] = Len(held)
        /\ SubSeq(shown', 1, Len(shown') - 1) = shown
    <3>1. /\ shown \in Seq(Int) /\ shown' = Append(shown, bytesToCopy)
          /\ Len(shown) \in Nat
      BY DEF CopyTypes
    <3>2. /\ shown' \in Seq(Int) /\ shown' # <<>> /\ Len(shown') = Len(shown) + 1
          /\ shown'[Len(shown) + 1] = bytesToCopy
          /\ \A i \in 1 .. Len(shown) : shown'[i] = shown[i]
      BY <1>1, <3>1, AppendProperties
    <3>3. Len(shown') - 1 = Len(shown) /\ 1 \in Nat \ {0}
      BY <3>1, <3>2
    <3>4. /\ SubSeq(shown', 1, Len(shown)) \in Seq(Int)
          /\ Len(SubSeq(shown', 1, Len(shown))) = Len(shown)
          /\ \A i \in 1 .. Len(shown) : SubSeq(shown', 1, Len(shown))[i] = shown'[i]
      <4>1. /\ Len(shown) - 1 + 1 = Len(shown) /\ Len(shown) <= Len(shown')
            /\ \A i \in 1 .. Len(shown) : 1 + i - 1 = i
        BY <3>1, <3>2
      <4> QED
        BY <3>1, <3>2, <4>1, Part
    <3>5. SubSeq(shown', 1, Len(shown)) = shown
      BY <3>1, <3>2, <3>4, SeqEqual
    <3> QED
      BY <3>2, <3>3, <3>5, <2>2, <2>4
  <2>8. InOrder(shown, Len(held))
    BY <2>1, <2>2, <2>4 DEF Copying
  <2>9. Wanted' = Wanted
    BY SameJob
  <2>10. Succeeded'
    <3>1. destination' = "created"
      BY <2>1 DEF Copying
    <3> QED
      BY <2>5, <2>7, <2>8, <2>9, <3>1, SMTT(40) DEF Succeeded, InOrder
  <2> QED
    BY <2>6, <2>9, <2>10 DEF CopyIsRight
<1>4. CopyIsRight'
  BY <1>3 DEF CopyIsRight, Sensible
<1> QED
  BY <1>2, <1>4

\* However the file is cut into chunks and whatever fails, with no negative
\* argument and two different files the destination holds a beginning of the
\* wanted bytes; Copy succeeds only with all of them, fails only for the cause it
\* names, and progress goes forward to the total (copy.go).
THEOREM CopyCorrect == CopySpec => []CopyIsRight
<1>1. (\E j \in Jobs : CopyStart(j)) => CopyInv
  BY CopyStarts
<1>2. CopyInv /\ UNCHANGED copyVars => CopyInv'
  <2> SUFFICES ASSUME CopyInv, UNCHANGED copyVars PROVE CopyInv'
    OBVIOUS
  <2>1. UNCHANGED <<job, copier, copied, lastUpdateBytes, destination, held, shown>>
    BY DEF copyVars
  <2>2. CopyTypes' /\ (Copying' <=> Copying)
    BY <2>1, SameJob DEF CopyInv, CopyTypes, Copying, InOrder
  <2>3. CopyIsRight' <=> CopyIsRight
    <3>1. Wanted' = Wanted /\ Size' = Size
      BY <2>1, SameJob
    <3>2. (CreateErrorDropped' <=> CreateErrorDropped) /\ (Failed' <=> Failed)
      BY <2>1, <3>1 DEF CreateErrorDropped, Failed
    <3>3. Succeeded' <=> Succeeded
      <4>1. /\ job' = job /\ held' = held /\ shown' = shown
            /\ destination' = destination
        BY <2>1
      <4> QED
        BY <3>1, <3>2, <4>1 DEF Succeeded, InOrder
    <3> QED
      BY <2>1, <3>1, <3>2, <3>3 DEF CopyIsRight
  <2> QED
    BY <2>1, <2>2, <2>3, SameJob DEF CopyInv
<1>3. CopyInv /\ [CopyNext]_copyVars => CopyInv'
  BY <1>2, CopyBegins, CopyGoesOn, CopyWriteFails, CopyReadFails, CopyEnds
     DEF CopyNext
<1>4. CopyInv => CopyIsRight
  BY DEF CopyInv
<1> QED
  BY <1>1, <1>3, <1>4, PTL DEF CopySpec

----------------------------------------------------------------------------
(***************************************************************************)
(* Domain statistics.  The map is right for the lines scanned so far       *)
(* (RightSoFar): a line has one domain, the one EmailDomain finds, and     *)
(* below the one asked for it is never empty.                              *)
(***************************************************************************)

Unreadable(line) == line.kind \in {"bad", "long"}

RightSoFar ==
  /\ \A i \in 1 .. scanned : ~Unreadable(lines[i])
  /\ \A d : d \in DOMAIN result
              <=> Below(d) /\ \E i \in 1 .. scanned : HasDomain(lines[i], d)
  /\ \A d \in DOMAIN result :
       result[d] = Cardinality({i \in 1 .. scanned : HasDomain(lines[i], d)})

StatInv ==
  /\ lines \in Seq(Line) /\ domain \in Seq(Characters)
  /\ scanned \in Nat /\ scanned <= Len(lines)
  /\ statistician \in {"scan", "nil", "error"}
  /\ statistician = "error" => \E i \in DOMAIN lines : Unreadable(lines[i])
  /\ statistician # "error" => RightSoFar
  /\ statistician = "nil" => scanned = Len(lines)

\* Nothing at all is below a domain.
LEMMA NothingBelow == ASSUME domain \in Seq(Characters) PROVE ~Below(<<>>)
<1> DEFINE dotted == <<".">> \o domain
<1>1. Len(dotted) \in Nat \ {0}
  <2>1. <<".">> \in Seq(Characters) /\ Len(<<".">>) = 1
    BY DEF Characters
  <2> QED
    BY <2>1, ConcatProperties
<1>2. Len(Reverse(dotted)) = Len(dotted)
  BY <1>1 DEF Reverse
<1>3. Len(Reverse(<<>>)) = 0
  BY DEF Reverse
<1> QED
  BY <1>1, <1>2, <1>3 DEF Below, IsSuffix, IsPrefix

\* The first "@" is one, and what stands behind it is the domain.
LEMMA DomainOf ==
  ASSUME NEW line \in Line, line.kind = "user", NEW d,
         NEW i \in DOMAIN line.email, line.email[i] = "@"
  PROVE  HasDomain(line, d) <=> EmailDomain(line.email) = d
<1> DEFINE places == {k \in DOMAIN line.email : line.email[k] = "@"}
           atIdx == CHOOSE k \in places : \A j \in places : k <= j
           behind(k) == LowerCase(SubSeq(line.email, k + 1, Len(line.email)))
<1>1. DOMAIN line.email = 1 .. Len(line.email) /\ Len(line.email) \in Nat
  BY DEF Line
<1>2. places \subseteq Nat /\ places # {}
  BY <1>1
<1>3. atIdx \in places /\ \A j \in places : atIdx <= j
  <2> HIDE DEF places
  <2> QED
    BY <1>2, LeastOf
<1>4. EmailDomain(line.email) = behind(atIdx)
  BY <1>2 DEF EmailDomain
<1>5. ASSUME NEW k \in DOMAIN line.email, line.email[k] = "@",
             \A j \in 1 .. k - 1 : line.email[j] # "@"
      PROVE  k = atIdx
  <2>1. k \in places /\ k \in Nat
    BY <1>1, <1>5
  <2>4. atIdx <= k /\ atIdx \in Nat
    <3> HIDE DEF places, atIdx
    <3> QED
      BY <1>2, <1>3, <2>1
  <2>2. atIdx \in 1 .. Len(line.email) /\ line.email[atIdx] = "@"
    BY <1>1, <1>3
  <2> HIDE DEF atIdx
  <2> QED
    BY <2>1, <2>2, <2>4, <1>5
<1>6. \A j \in 1 .. atIdx - 1 : line.email[j] # "@"
  <2> HIDE DEF atIdx
  <2> QED
    BY <1>1, <1>3
<1>7. /\ atIdx \in DOMAIN line.email /\ line.email[atIdx] = "@"
  BY <1>3
<1> HIDE DEF atIdx, places
<1>8. HasDomain(line, d) <=> behind(atIdx) = d
  BY <1>5, <1>6, <1>7 DEF HasDomain
<1> QED
  BY <1>4, <1>8

\* A line has a domain below the one asked for if it is counted for it.
LEMMA LineCounts ==
  ASSUME StatInv, NEW line \in Line, NEW d
  PROVE  HasDomain(line, d) /\ Below(d) <=>
           /\ line.kind = "user" /\ EmailDomain(line.email) # <<>>
           /\ Below(d) /\ d = EmailDomain(line.email)
<1>1. CASE line.kind # "user"
  BY <1>1 DEF HasDomain
<1>2. CASE line.kind = "user" /\ \E i \in DOMAIN line.email : line.email[i] = "@"
  <2>1. HasDomain(line, d) <=> EmailDomain(line.email) = d
    BY <1>2, DomainOf
  <2> QED
    BY <1>2, <2>1, NothingBelow DEF StatInv
<1>3. CASE line.kind = "user" /\ ~\E i \in DOMAIN line.email : line.email[i] = "@"
  <2>1. EmailDomain(line.email) = <<>>
    BY <1>3 DEF EmailDomain
  <2>2. ~HasDomain(line, d)
    BY <1>3 DEF HasDomain
  <2> QED
    BY <2>1, <2>2
<1> QED
  BY <1>1, <1>2, <1>3

LEMMA StatStarts ==
  ASSUME NEW ls \in Seq(Line), NEW d \in Seq(Characters), StatStart(ls, d)
  PROVE  StatInv
<1>1. /\ lines \in Seq(Line) /\ domain \in Seq(Characters) /\ scanned = 0
      /\ DOMAIN result = {} /\ statistician = "scan" /\ Len(lines) \in Nat
  BY DEF StatStart
<1> QED
  BY <1>1 DEF StatInv, RightSoFar

\* What holds before a line is scanned, and what has to hold behind it.
LEMMA OneMoreLine ==
  ASSUME StatInv, statistician = "scan", scanned < Len(lines),
         UNCHANGED <<lines, domain, statistician>>, scanned' = scanned + 1,
         ~Unreadable(ThisLine),
         \A d : d \in DOMAIN result' <=>
                  \/ d \in DOMAIN result
                  \/ HasDomain(ThisLine, d) /\ Below(d),
         \A d \in DOMAIN result' :
           result'[d] = (IF d \in DOMAIN result THEN result[d] ELSE 0)
                          + (IF HasDomain(ThisLine, d) THEN 1 ELSE 0)
  PROVE  StatInv'
<1>1. /\ lines \in Seq(Line) /\ scanned \in Nat /\ Len(lines) \in Nat
      /\ RightSoFar
  BY DEF StatInv
<1>2. 1 .. scanned' = 1 .. scanned \cup {scanned + 1}
  BY <1>1
<1>3. \A d : Below(d)' <=> Below(d)
  BY DEF Below
<1>4. \A i \in 1 .. scanned' : ~Unreadable(lines[i])
  BY <1>1, <1>2 DEF RightSoFar, ThisLine
<1>5. ASSUME NEW d
      PROVE  d \in DOMAIN result'
               <=> Below(d) /\ \E i \in 1 .. scanned' : HasDomain(lines[i], d)
  BY <1>1, <1>2 DEF RightSoFar, ThisLine
<1>6. ASSUME NEW d \in DOMAIN result'
      PROVE  result'[d] = Cardinality({i \in 1 .. scanned' : HasDomain(lines[i], d)})
  <2> DEFINE now == {i \in 1 .. scanned + 1 : HasDomain(lines[i], d)}
             then == {i \in 1 .. scanned : HasDomain(lines[i], d)}
  <2>1. now \cap 1 .. scanned = then
    BY <1>1
  <2>2. /\ Cardinality(then) \in Nat
        /\ Cardinality(now) = Cardinality(then) + (IF scanned + 1 \in now THEN 1 ELSE 0)
    BY <1>1, <2>1, CountsOn
  <2>3. scanned + 1 \in now <=> HasDomain(ThisLine, d)
    BY <1>1 DEF ThisLine
  <2>4. (IF d \in DOMAIN result THEN result[d] ELSE 0) = Cardinality(then)
    <3>1. CASE d \in DOMAIN result
      BY <3>1, <1>1 DEF RightSoFar
    <3>2. CASE d \notin DOMAIN result
      <4>1. Below(d)
        BY <1>5
      <4>2. then = {}
        BY <3>2, <4>1, <1>1 DEF RightSoFar
      <4> QED
        BY <3>2, <4>2, FS_EmptySet
    <3> QED
      BY <3>1, <3>2
  <2>5. result'[d] = Cardinality(then) + (IF HasDomain(ThisLine, d) THEN 1 ELSE 0)
    BY <2>4
  <2>6. Cardinality(now) = Cardinality(then) + (IF HasDomain(ThisLine, d) THEN 1 ELSE 0)
    BY <2>2, <2>3
  <2> QED
    BY <2>5, <2>6
<1>7. RightSoFar'
  BY <1>3, <1>4, <1>5, <1>6 DEF RightSoFar, Unreadable
<1> QED
  BY <1>1, <1>7 DEF StatInv

LEMMA LineSkipped == ASSUME StatInv, SkipLine PROVE StatInv'
<1>1. /\ statistician = "scan" /\ scanned < Len(lines) /\ scanned' = scanned + 1
      /\ UNCHANGED <<lines, domain, result, statistician>>
  BY DEF SkipLine, Scanning
<1>2. ThisLine \in Line
  BY <1>1 DEF StatInv, ThisLine
<1>3. ~Unreadable(ThisLine) /\ \A d : ~(HasDomain(ThisLine, d) /\ Below(d))
  BY <1>2, LineCounts DEF SkipLine, Unreadable
<1>4. \A d \in DOMAIN result : Below(d) /\ result[d] \in Nat
  <2>1. RightSoFar /\ scanned \in Nat
    BY <1>1 DEF StatInv
  <2>2. ASSUME NEW d
        PROVE  Cardinality({i \in 1 .. scanned : HasDomain(lines[i], d)}) \in Nat
    <3>1. IsFiniteSet(1 .. scanned)
      BY <2>1, FS_Interval
    <3> QED
      BY <3>1, FS_Subset, FS_CardinalityType
  <2> QED
    BY <2>1, <2>2 DEF RightSoFar
<1> QED
  BY <1>1, <1>3, <1>4, OneMoreLine

LEMMA LineCounted == ASSUME StatInv, CountLine PROVE StatInv'
<1> DEFINE e == EmailDomain(ThisLine.email)
<1>1. /\ statistician = "scan" /\ scanned < Len(lines) /\ scanned' = scanned + 1
      /\ UNCHANGED <<lines, domain, statistician>>
      /\ ThisLine.kind = "user" /\ e # <<>> /\ Below(e)
      /\ result' = [d \in DOMAIN result \cup {e} |->
                      (IF d \in DOMAIN result THEN result[d] ELSE 0)
                        + (IF d = e THEN 1 ELSE 0)]
  BY DEF CountLine, Scanning
<1>2. ThisLine \in Line
  BY <1>1 DEF StatInv, ThisLine
<1>3. \A d : HasDomain(ThisLine, d) /\ Below(d) <=> d = e
  BY <1>1, <1>2, LineCounts
<1>4. ~Unreadable(ThisLine)
  BY <1>1 DEF Unreadable
<1>5. \A d \in DOMAIN result : Below(d)
  BY <1>1 DEF StatInv, RightSoFar
<1> HIDE DEF e
<1>6. \A d \in DOMAIN result' : HasDomain(ThisLine, d) <=> d = e
  BY <1>1, <1>3, <1>5
<1>7. \A d : d \in DOMAIN result' <=>
                \/ d \in DOMAIN result
                \/ HasDomain(ThisLine, d) /\ Below(d)
  BY <1>1, <1>3
<1>8. \A d \in DOMAIN result' :
        result'[d] = (IF d \in DOMAIN result THEN result[d] ELSE 0)
                       + (IF HasDomain(ThisLine, d) THEN 1 ELSE 0)
  BY <1>1, <1>6
<1> QED
  BY <1>1, <1>4, <1>7, <1>8, OneMoreLine

LEMMA ScanEnds == ASSUME StatInv, FailAtLine \/ EndOfLines PROVE StatInv'
<1>1. CASE FailAtLine
  <2>1. /\ scanned < Len(lines) /\ Unreadable(ThisLine)
        /\ UNCHANGED <<lines, domain, scanned>> /\ statistician' = "error"
    BY <1>1 DEF FailAtLine, Scanning, Unreadable
  <2>2. scanned + 1 \in DOMAIN lines /\ Unreadable(lines[scanned + 1])
    BY <2>1 DEF StatInv, ThisLine
  <2> QED
    BY <2>1, <2>2 DEF StatInv
<1>2. CASE EndOfLines
  BY <1>2 DEF EndOfLines, StatInv, RightSoFar, Below
<1> QED
  BY <1>1, <1>2

LEMMA StatRight == StatInv => StatIsRight
<1> SUFFICES ASSUME StatInv PROVE StatIsRight
  OBVIOUS
<1>1. lines \in Seq(Line) /\ DOMAIN lines = 1 .. Len(lines)
  BY DEF StatInv
<1>2. statistician = "nil" => RightSoFar /\ DOMAIN lines = 1 .. scanned
  BY <1>1 DEF StatInv
<1>3. ASSUME statistician = "nil"
      PROVE  /\ \A i \in DOMAIN lines : ~Unreadable(lines[i])
             /\ \A d \in DOMAIN result :
                  LET having == {i \in DOMAIN lines : HasDomain(lines[i], d)} IN
                  /\ result[d] = Cardinality(having)
                  /\ having # {} /\ Below(d)
             /\ \A i \in DOMAIN lines : \A d \in Ends(lines[i]) :
                  HasDomain(lines[i], d) /\ Below(d) => d \in DOMAIN result
  BY <1>2, <1>3 DEF RightSoFar
<1> QED
  BY <1>3 DEF StatInv, StatIsRight, Unreadable

\* A statistic has an entry for exactly the domains below the one asked for that
\* some line has, with the number of these lines, in whatever case they are
\* written, for every sequence of lines (stats.go, GetDomainStat).
THEOREM StatCorrect == StatSpec => []StatIsRight
<1>1. (\E ls \in Seq(Line), d \in Seq(Characters) : StatStart(ls, d)) => StatInv
  BY StatStarts
<1>2. StatInv /\ UNCHANGED statVars => StatInv'
  BY DEF statVars, StatInv, RightSoFar, Below
<1>3. StatInv /\ [StatNext]_statVars => StatInv'
  BY <1>2, LineSkipped, LineCounted, ScanEnds DEF StatNext
<1> QED
  BY <1>1, <1>3, StatRight, PTL DEF StatSpec

----------------------------------------------------------------------------
(***************************************************************************)
(* String unpacking.  What is written is the expansion of the only reading *)
(* the runes can have.                                                     *)
(*                                                                         *)
(* The argument keeps the reading of the first p runes (Read): their       *)
(* roles, which every reading of the whole string gives them, and where in *)
(* the answer the expansion of each ends.  The runes after them count as   *)
(* characters until they are read.                                         *)
(***************************************************************************)

Read(s, out, p, role, ends) ==
  /\ role \in [DOMAIN s -> Role]
  /\ \A i \in 1 .. p : Fits(s, role, i)
  /\ \A i \in p + 1 .. Len(s) : role[i] = "char"
  /\ \A r \in Readings(s) : \A i \in 1 .. p : r[i] = role[i]
  /\ ends \in [0 .. Len(s) -> 0 .. Len(out)]
  /\ ends[0] = 0 /\ ends[p] = Len(out)
  /\ \A i \in 1 .. p :
       /\ ends[i] = ends[i - 1] + Times(s, role, i)
       /\ \A k \in ends[i - 1] + 1 .. ends[i] : out[k] = s[i]

\* What rune p is does not hang on the runes after it.
NoCountNext(s, p, role) ==
  p > 0 => /\ role[p] # "escape"
           /\ role[p] = "char" => ~(p + 1 \in DOMAIN s /\ IsDigit(s[p + 1]))

UnpackTypes ==
  /\ runes \in Seq(STRING) /\ builder \in Seq(STRING)
  /\ at \in 1 .. Len(runes) + 1
  /\ unpacker \in {"loop", "nil", "invalid"}

UnpackInv ==
  /\ UnpackTypes
  /\ unpacker # "invalid" =>
       \E role, ends : /\ Read(runes, builder, at - 1, role, ends)
                       /\ NoCountNext(runes, at - 1, role)
  /\ unpacker = "nil" => at = Len(runes) + 1
  /\ unpacker = "invalid" => Readings(runes) = {}

\* A backslash is no digit, and a digit stands for a number.
LEMMA Runes ==
  /\ ~IsDigit("\\")
  /\ \A r : IsDigit(r) => Atoi(r) \in Nat
<1>1. ~IsDigit("\\")
  BY DEF IsDigit, Ascii
<1>2. ASSUME NEW r, IsDigit(r)  PROVE Atoi(r) \in Nat
  <2>1. CASE r = "other"
    BY <2>1 DEF Atoi
  <2>2. CASE r # "other"
    <3>1. \E n \in 0 .. 9 : r = Ascii[n + 1]
      BY <1>2, <2>2 DEF IsDigit
    <3>2. (CHOOSE n \in 0 .. 9 : r = Ascii[n + 1]) \in 0 .. 9
      BY <3>1
    <3>3. Atoi(r) = CHOOSE n \in 0 .. 9 : r = Ascii[n + 1]
      BY <2>2 DEF Atoi
    <3>4. \A n \in 0 .. 9 : n \in Nat
      OBVIOUS
    <3> QED
      BY <3>2, <3>3, <3>4, Zenon
  <2> QED
    BY <2>1, <2>2
<1> QED
  BY <1>1, <1>2

\* What a reading says of a rune and of the one after it.
LEMMA Roles ==
  ASSUME NEW s \in Seq(STRING), NEW r \in Readings(s), NEW i \in 1 .. Len(s)
  PROVE  /\ r \in [DOMAIN s -> Role] /\ r[i] \in {"escape", "char", "count"}
         /\ r[i] = "escape" => /\ s[i] = "\\" /\ i < Len(s)
                               /\ r[i + 1] = "char"
                               /\ i > 1 => r[i - 1] # "escape"
         /\ r[i] = "char" =>
              ((i > 1 /\ r[i - 1] = "escape") <=> (s[i] = "\\" \/ IsDigit(s[i])))
         /\ r[i] = "count" => IsDigit(s[i]) /\ i > 1 /\ r[i - 1] = "char"
<1>1. Len(s) \in Nat /\ DOMAIN s = 1 .. Len(s)
  BY LenProperties
<1>2. r \in [DOMAIN s -> Role] /\ Fits(s, r, i)
  BY <1>1 DEF Readings
<1>3. r[i] \in {"escape", "char", "count"}
  BY <1>1, <1>2 DEF Role
<1>4. i \in Nat /\ (i = 1 \/ i > 1)
  BY <1>1
<1> QED
  BY <1>2, <1>3, <1>4 DEF Fits

\* The reading of the first p runes, continued up to rune q.
Continues(s, out, p, role, ends, out2, q, role2, ends2) ==
  /\ p < q /\ q <= Len(s)
  /\ Len(out) <= Len(out2) /\ \A k \in 1 .. Len(out) : out2[k] = out[k]
  /\ role2 \in [DOMAIN s -> Role]
  /\ \A i \in 1 .. p : role2[i] = role[i]
  /\ \A i \in q + 1 .. Len(s) : role2[i] = "char"
  /\ role2[p + 1] # "count"
  /\ p > 0 /\ role[p] = "escape" => role2[p + 1] = "char"
  /\ ends2 \in [0 .. Len(s) -> 0 .. Len(out2)]
  /\ \A i \in 0 .. p : ends2[i] = ends[i]
  /\ ends2[q] = Len(out2)
  /\ \A i \in p + 1 .. q :
       /\ Fits(s, role2, i)
       /\ ends2[i] = ends2[i - 1] + Times(s, role2, i)
       /\ \A k \in ends2[i - 1] + 1 .. ends2[i] : out2[k] = s[i]
  /\ \A r \in Readings(s) : (\A i \in 1 .. p : r[i] = role[i]) =>
       \A i \in p + 1 .. q : r[i] = role2[i]

LEMMA Extends ==
  ASSUME NEW s \in Seq(STRING), NEW out \in Seq(STRING), NEW out2 \in Seq(STRING),
         NEW p \in Nat, NEW q \in Nat, NEW role, NEW ends, NEW role2, NEW ends2,
         Read(s, out, p, role, ends),
         Continues(s, out, p, role, ends, out2, q, role2, ends2)
  PROVE  Read(s, out2, q, role2, ends2)
<1> USE DEF Continues
<1>1. /\ Len(s) \in Nat /\ DOMAIN s = 1 .. Len(s)
      /\ Len(out) \in Nat /\ Len(out2) \in Nat
  BY LenProperties
<1>2. \A i \in 1 .. q : i \in 1 .. p \/ i \in p + 1 .. q
  OBVIOUS
<1>3. ASSUME NEW i \in 1 .. p
      PROVE  Fits(s, role2, i) /\ Times(s, role2, i) = Times(s, role, i)
  <2>1. /\ i \in 1 .. Len(s) /\ Fits(s, role, i) /\ role2[i] = role[i]
        /\ i > 1 => i - 1 \in 1 .. p
        /\ i < p => i + 1 \in 1 .. p
        /\ i < p \/ i = p
    BY <1>1 DEF Read
  <2>2. i > 1 => role2[i - 1] = role[i - 1]
    BY <2>1
  <2>3. CASE i < p
    <3>1. role2[i + 1] = role[i + 1]
      BY <2>1, <2>3
    <3> QED
      BY <2>1, <2>2, <3>1 DEF Fits, Times
  <2>4. CASE i = p
    <3>1. p + 1 \in p + 1 .. Len(s) /\ i > 0
      BY <1>1, <2>4
    <3>2. role[i + 1] = "char" /\ role2[i + 1] # "count"
      BY <3>1, <2>4 DEF Read
    <3>3. role[i] = "escape" => role2[i + 1] = "char"
      BY <2>4, <3>1
    <3> QED
      BY <2>1, <2>2, <3>2, <3>3 DEF Fits, Times
  <2> QED
    BY <2>1, <2>3, <2>4
<1>4. ASSUME NEW i \in 1 .. p
      PROVE  /\ ends2[i] = ends2[i - 1] + Times(s, role2, i)
             /\ \A k \in ends2[i - 1] + 1 .. ends2[i] : out2[k] = s[i]
  <2>1. /\ i \in 0 .. p /\ i - 1 \in 0 .. p
        /\ i \in 0 .. Len(s) /\ i - 1 \in 0 .. Len(s)
    BY <1>1
  <2>2. /\ ends[i] = ends[i - 1] + Times(s, role, i)
        /\ \A k \in ends[i - 1] + 1 .. ends[i] : out[k] = s[i]
        /\ ends[i] \in 0 .. Len(out) /\ ends[i - 1] \in 0 .. Len(out)
    BY <2>1 DEF Read
  <2>3. ends2[i] = ends[i] /\ ends2[i - 1] = ends[i - 1]
    BY <2>1
  <2>4. \A k \in ends[i - 1] + 1 .. ends[i] : k \in 1 .. Len(out)
    BY <2>2, <1>1
  <2> QED
    BY <2>2, <2>3, <2>4, <1>3
<1>5. ends2[0] = 0
  BY 0 \in 0 .. p DEF Read
<1>6. ASSUME NEW r \in Readings(s)
      PROVE  \A i \in 1 .. q : r[i] = role2[i]
  <2>1. \A i \in 1 .. p : r[i] = role[i]
    BY DEF Read
  <2> QED
    BY <2>1, <1>2
<1>7. \A i \in 1 .. q : Fits(s, role2, i)
  BY <1>2, <1>3
<1>8. \A i \in 1 .. q :
        /\ ends2[i] = ends2[i - 1] + Times(s, role2, i)
        /\ \A k \in ends2[i - 1] + 1 .. ends2[i] : out2[k] = s[i]
  BY <1>2, <1>4
<1> QED
  BY <1>5, <1>6, <1>7, <1>8 DEF Read

\* Ends for the answer out: those before rune c, and its length for all others.
Prolongs(s, out, c, ends, ends2) ==
  /\ ends2 \in [0 .. Len(s) -> 0 .. Len(out)]
  /\ \A i \in 0 .. c - 1 : ends2[i] = ends[i]
  /\ \A i \in c .. Len(s) : ends2[i] = Len(out)

LEMMA EndsOn ==
  ASSUME NEW s \in Seq(STRING), NEW out \in Seq(STRING), NEW out2 \in Seq(STRING),
         Len(out) <= Len(out2), NEW ends \in [0 .. Len(s) -> 0 .. Len(out)],
         NEW c \in 1 .. Len(s)
  PROVE  \E ends2 : Prolongs(s, out2, c, ends, ends2)
<1> DEFINE ends2 == [i \in 0 .. Len(s) |-> IF i < c THEN ends[i] ELSE Len(out2)]
<1>1. Len(s) \in Nat /\ Len(out) \in Nat /\ Len(out2) \in Nat
  BY LenProperties
<1>2. \A i \in 0 .. Len(s) : ends[i] \in 0 .. Len(out2)
  <2>1. \A i \in 0 .. Len(s) : ends[i] \in 0 .. Len(out)
    OBVIOUS
  <2>2. \A k \in 0 .. Len(out) : k \in 0 .. Len(out2)
    BY <1>1
  <2> QED
    BY <2>1, <2>2
<1>3. /\ Len(out2) \in 0 .. Len(out2)
      /\ \A i \in 0 .. c - 1 : i \in 0 .. Len(s) /\ i < c
      /\ \A i \in c .. Len(s) : i \in 0 .. Len(s) /\ ~(i < c)
  BY <1>1
<1>4. ends2 \in [0 .. Len(s) -> 0 .. Len(out2)]
  BY <1>2, <1>3
<1>5. \A i \in 0 .. c - 1 : ends2[i] = ends[i]
  BY <1>3
<1>6. \A i \in c .. Len(s) : ends2[i] = Len(out2)
  BY <1>3
<1> QED
  BY <1>4, <1>5, <1>6 DEF Prolongs

\* The next rune escapes the one after it.
LEMMA EscapeRead ==
  ASSUME NEW s \in Seq(STRING), NEW out \in Seq(STRING), NEW c \in Nat \ {0},
         c < Len(s), NEW role, NEW ends, Read(s, out, c - 1, role, ends),
         NoCountNext(s, c - 1, role), s[c] = "\\"
  PROVE  \E role2, ends2 : /\ Read(s, out, c, role2, ends2)
                           /\ role2[c] = "escape"
<1> DEFINE p == c - 1
           role2 == [role EXCEPT ![c] = "escape"]
<1>1. /\ Len(s) \in Nat /\ DOMAIN s = 1 .. Len(s) /\ Len(out) \in Nat
      /\ c \in 1 .. Len(s) /\ p \in Nat /\ c - 1 = p /\ p + 1 = c
  BY LenProperties
<1>2. /\ role \in [1 .. Len(s) -> Role] /\ ends \in [0 .. Len(s) -> 0 .. Len(out)]
      /\ \A i \in p + 1 .. Len(s) : role[i] = "char"
      /\ ends[p] = Len(out)
  BY <1>1 DEF Read
<1>3. /\ role2 \in [1 .. Len(s) -> Role] /\ role2[c] = "escape"
      /\ \A i \in 1 .. Len(s) : i # c => role2[i] = role[i]
  BY <1>1, <1>2 DEF Role
<1>4. PICK ends2 : Prolongs(s, out, c, ends, ends2)
  <2>1. Len(out) <= Len(out) /\ c \in 1 .. Len(s)
    BY <1>1
  <2>2. ends \in [0 .. Len(s) -> 0 .. Len(out)]
    BY <1>2
  <2> QED
    BY <2>1, <2>2, EndsOn
<1>5. /\ ends2 \in [0 .. Len(s) -> 0 .. Len(out)]
      /\ \A i \in 0 .. p : ends2[i] = ends[i]
      /\ \A i \in c .. Len(s) : ends2[i] = Len(out)
  BY <1>1, <1>4 DEF Prolongs
<1> HIDE DEF p, role2
<1>6. \A i \in 1 .. p : i \in 1 .. Len(s) /\ i # c
  BY <1>1
<1>7. /\ \A i \in c + 1 .. Len(s) : i \in 1 .. Len(s) /\ i # c /\ i \in p + 1 .. Len(s)
      /\ c + 1 \in c + 1 .. Len(s) /\ p \in 0 .. p /\ c \in c .. Len(s)
      /\ p > 0 => p \in 1 .. p
  BY <1>1
<1>8. role2[c + 1] = "char"
  BY <1>2, <1>3, <1>7
<1>9. Fits(s, role2, c)
  <2>1. CASE p = 0
    BY <2>1, <1>1, <1>3, <1>8 DEF Fits
  <2>2. CASE p > 0
    <3>1. role2[c - 1] # "escape" /\ c # 1
      BY <2>2, <1>1, <1>3, <1>6, <1>7 DEF NoCountNext, p
    <3> QED
      BY <3>1, <1>3, <1>8 DEF Fits
  <2> QED
    BY <2>1, <2>2, <1>1
<1>10. /\ ends2[c] = ends2[c - 1] + Times(s, role2, c)
      /\ \A k \in ends2[c - 1] + 1 .. ends2[c] : out[k] = s[c]
  <2>1. Times(s, role2, c) = 0
    BY <1>3 DEF Times
  <2>2. ends2[c] = Len(out) /\ ends2[c - 1] = Len(out)
    BY <1>1, <1>2, <1>5, <1>7
  <2> QED
    BY <1>1, <2>1, <2>2
<1>11. ASSUME NEW r \in Readings(s)
       PROVE  (\A i \in 1 .. p : r[i] = role[i]) => r[c] = "escape"
  <2>1. /\ r[c] \in {"escape", "char", "count"}
        /\ r[c] = "char" =>
              ((c > 1 /\ r[c - 1] = "escape") <=> (s[c] = "\\" \/ IsDigit(s[c])))
        /\ r[c] = "count" => IsDigit(s[c]) /\ c > 1 /\ r[c - 1] = "char"
    BY <1>1, Roles
  <2>2. (\A i \in 1 .. p : r[i] = role[i]) /\ c > 1 => r[c - 1] # "escape"
    BY <1>1, <1>7 DEF NoCountNext, p
  <2> QED
    BY <2>1, <2>2, Runes
<1>12. \A i \in p + 1 .. c : i = c
  BY <1>1
<1>13. p > 0 /\ role[p] = "escape" => role2[p + 1] = "char"
  BY DEF NoCountNext, p
<1>14. Read(s, out, c, role2, ends2)
  <2>1. \A i \in c + 1 .. Len(s) : role2[i] = "char"
    BY <1>2, <1>3, <1>7
  <2>2. \A i \in 1 .. p : role2[i] = role[i]
    BY <1>3, <1>6
  <2>3. c \in Nat /\ p < c /\ c <= Len(s) /\ Len(out) <= Len(out) /\ ends2[c] = Len(out)
    BY <1>1, <1>5, <1>7
  <2>4. role2 \in [DOMAIN s -> Role] /\ role2[p + 1] # "count"
    BY <1>1, <1>3
  <2>5. \A r \in Readings(s) : (\A i \in 1 .. p : r[i] = role[i]) =>
            \A i \in p + 1 .. c : r[i] = role2[i]
    BY <1>3, <1>11, <1>12
  <2>6. \A i \in p + 1 .. c :
            /\ Fits(s, role2, i)
            /\ ends2[i] = ends2[i - 1] + Times(s, role2, i)
            /\ \A k \in ends2[i - 1] + 1 .. ends2[i] : out[k] = s[i]
    BY <1>9, <1>10, <1>12
  <2>7. Continues(s, out, p, role, ends, out, c, role2, ends2)
    BY <2>1, <2>2, <2>3, <2>4, <2>5, <2>6, <1>5, <1>13 DEF Continues
  <2>8. Read(s, out, p, role, ends)
    BY DEF p
  <2> QED
    BY <2>7, <2>8, <1>1, Extends
<1> QED
  BY <1>3, <1>14

\* Every reading that agrees before rune c takes it for a character, and it can
\* be one.
CharNext(s, c, role) ==
  /\ (c > 1 /\ role[c - 1] = "escape") <=> (s[c] = "\\" \/ IsDigit(s[c]))
  /\ \A r \in Readings(s) :
       (\A i \in 1 .. c - 1 : r[i] = role[i]) => r[c] = "char"

\* A digit after a character is its count, and no digit follows it.
LEMMA CountRole ==
  ASSUME NEW s \in Seq(STRING), NEW c \in Nat \ {0}, c + 1 <= Len(s),
         IsDigit(s[c + 1]), NEW r \in Readings(s), r[c] = "char"
  PROVE  r[c + 1] = "count" /\ (c + 2 <= Len(s) => ~IsDigit(s[c + 2]))
<1>1. /\ Len(s) \in Nat /\ c + 1 \in 1 .. Len(s) /\ c + 1 > 1
      /\ (c + 1) - 1 = c
      /\ c + 2 <= Len(s) => c + 2 \in 1 .. Len(s) /\ (c + 2) - 1 = c + 1
  BY LenProperties
<1>2. r[c + 1] = "count"
  <2>1. /\ r[c + 1] \in {"escape", "char", "count"}
        /\ r[c + 1] = "escape" => s[c + 1] = "\\"
        /\ r[c + 1] = "char" =>
             ((c + 1 > 1 /\ r[(c + 1) - 1] = "escape")
                <=> (s[c + 1] = "\\" \/ IsDigit(s[c + 1])))
    BY <1>1, Roles
  <2>2. s[c + 1] # "\\"
    BY Runes
  <2>3. r[(c + 1) - 1] # "escape"
    BY <1>1
  <2> QED
    BY <2>1, <2>2, <2>3
<1>3. ASSUME c + 2 <= Len(s), IsDigit(s[c + 2])  PROVE FALSE
  <2>1. /\ r[c + 2] \in {"escape", "char", "count"}
        /\ r[c + 2] = "escape" => s[c + 2] = "\\"
        /\ r[c + 2] = "char" =>
             ((c + 2 > 1 /\ r[(c + 2) - 1] = "escape")
                <=> (s[c + 2] = "\\" \/ IsDigit(s[c + 2])))
        /\ r[c + 2] = "count" => r[(c + 2) - 1] = "char"
    BY <1>1, <1>3, Roles
  <2>2. s[c + 2] # "\\"
    BY <1>3, Runes
  <2>3. r[(c + 2) - 1] = "count"
    BY <1>1, <1>2, <1>3
  <2> QED
    BY <2>1, <2>2, <2>3, <1>3
<1> QED
  BY <1>2, <1>3

\* The next rune is a character without a count.
LEMMA CharRead ==
  ASSUME NEW s \in Seq(STRING), NEW out \in Seq(STRING), NEW c \in Nat \ {0},
         c <= Len(s), NEW role, NEW ends, Read(s, out, c - 1, role, ends),
         CharNext(s, c, role), ~(c + 1 \in DOMAIN s /\ IsDigit(s[c + 1]))
  PROVE  \E ends2 : /\ Read(s, Append(out, s[c]), c, role, ends2)
                    /\ NoCountNext(s, c, role)
<1> DEFINE p == c - 1
<1>1. /\ Len(s) \in Nat /\ DOMAIN s = 1 .. Len(s) /\ Len(out) \in Nat
      /\ c \in 1 .. Len(s) /\ p \in Nat /\ c - 1 = p /\ p + 1 = c
  BY LenProperties
<1>2. /\ role \in [1 .. Len(s) -> Role] /\ ends \in [0 .. Len(s) -> 0 .. Len(out)]
      /\ \A i \in p + 1 .. Len(s) : role[i] = "char"
      /\ ends[p] = Len(out)
  BY <1>1 DEF Read
<1>3. PICK out2 \in Seq(STRING) :
        /\ out2 = Append(out, s[c]) /\ Len(out2) = Len(out) + 1
        /\ \A k \in 1 .. Len(out) : out2[k] = out[k]
        /\ out2[Len(out) + 1] = s[c]
  <2>1. s[c] \in STRING
    BY <1>1, ElementOfSeq
  <2> DEFINE longer == Append(out, s[c])
  <2>2. /\ longer \in Seq(STRING) /\ Len(longer) = Len(out) + 1
        /\ \A k \in 1 .. Len(out) : longer[k] = out[k]
        /\ longer[Len(out) + 1] = s[c]
    BY <2>1, AppendProperties
  <2> HIDE DEF longer
  <2> QED
    BY <2>2 DEF longer
<1>4. PICK ends2 : Prolongs(s, out2, c, ends, ends2)
  <2>1. Len(out) <= Len(out2) /\ c \in 1 .. Len(s)
    BY <1>1, <1>3
  <2>2. ends \in [0 .. Len(s) -> 0 .. Len(out)]
    BY <1>2
  <2> QED
    BY <2>1, <2>2, EndsOn
<1>5. /\ ends2 \in [0 .. Len(s) -> 0 .. Len(out2)]
      /\ \A i \in 0 .. p : ends2[i] = ends[i]
      /\ \A i \in c .. Len(s) : ends2[i] = Len(out2)
  BY <1>1, <1>4 DEF Prolongs
<1> HIDE DEF p
<1>6. /\ \A i \in c + 1 .. Len(s) : i \in p + 1 .. Len(s)
      /\ p \in 0 .. p /\ c \in c .. Len(s) /\ c \in p + 1 .. Len(s)
      /\ c < Len(s) => c + 1 \in p + 1 .. Len(s)
      /\ c > 1 \/ c = 1
  BY <1>1
<1>7. role[c] = "char" /\ (c < Len(s) => role[c + 1] = "char")
  BY <1>2, <1>6
<1>8. Fits(s, role, c)
  BY <1>6, <1>7 DEF Fits, CharNext
<1>9. /\ ends2[c] = ends2[c - 1] + Times(s, role, c)
      /\ \A k \in ends2[c - 1] + 1 .. ends2[c] : out2[k] = s[c]
  <2>1. Times(s, role, c) = 1
    BY <1>7 DEF Times
  <2>2. ends2[c] = Len(out) + 1 /\ ends2[c - 1] = Len(out)
    BY <1>1, <1>2, <1>3, <1>5, <1>6
  <2> QED
    BY <1>1, <1>3, <2>1, <2>2
<1>10. \A i \in p + 1 .. c : i = c
  BY <1>1
<1>11. Read(s, out2, c, role, ends2)
  <2>1. \A i \in c + 1 .. Len(s) : role[i] = "char"
    BY <1>2, <1>6
  <2>2. /\ p < c /\ c <= Len(s) /\ Len(out) <= Len(out2)
        /\ ends2[c] = Len(out2)
    BY <1>1, <1>3, <1>5, <1>6
  <2>3. role \in [DOMAIN s -> Role] /\ role[p + 1] = "char"
    BY <1>1, <1>2, <1>7
  <2>4. \A r \in Readings(s) : (\A i \in 1 .. p : r[i] = role[i]) =>
            \A i \in p + 1 .. c : r[i] = role[i]
    BY <1>1, <1>7, <1>10 DEF CharNext
  <2>5. \A i \in p + 1 .. c :
            /\ Fits(s, role, i)
            /\ ends2[i] = ends2[i - 1] + Times(s, role, i)
            /\ \A k \in ends2[i - 1] + 1 .. ends2[i] : out2[k] = s[i]
    BY <1>8, <1>9, <1>10
  <2>6. Continues(s, out, p, role, ends, out2, c, role, ends2)
    BY <2>1, <2>2, <2>3, <2>4, <2>5, <1>3, <1>5 DEF Continues
  <2>7. Read(s, out, p, role, ends)
    BY DEF p
  <2>8. c \in Nat /\ p \in Nat
    BY <1>1
  <2> QED
    BY <2>6, <2>7, <2>8, Extends
<1>12. NoCountNext(s, c, role)
  BY <1>7 DEF NoCountNext
<1> QED
  BY <1>3, <1>11, <1>12

\* The next rune is a character and the one after it its count.
LEMMA CountedRead ==
  ASSUME NEW s \in Seq(STRING), NEW out \in Seq(STRING), NEW c \in Nat \ {0},
         c + 1 <= Len(s), NEW role, NEW ends, Read(s, out, c - 1, role, ends),
         CharNext(s, c, role), IsDigit(s[c + 1]),
         NEW out2 \in Seq(STRING), Len(out2) = Len(out) + Atoi(s[c + 1]),
         \A k \in 1 .. Len(out) : out2[k] = out[k],
         \A k \in Len(out) + 1 .. Len(out2) : out2[k] = s[c]
  PROVE  \E role2, ends2 : /\ Read(s, out2, c + 1, role2, ends2)
                           /\ NoCountNext(s, c + 1, role2)
<1> DEFINE p == c - 1
           role2 == [role EXCEPT ![c + 1] = "count"]
<1>1. /\ Len(s) \in Nat /\ DOMAIN s = 1 .. Len(s) /\ Len(out) \in Nat
      /\ c \in 1 .. Len(s) /\ c + 1 \in 1 .. Len(s)
      /\ p \in Nat /\ c - 1 = p /\ p + 1 = c /\ (c + 1) - 1 = c
      /\ c + 1 # c
  BY LenProperties
<1>2. /\ role \in [1 .. Len(s) -> Role] /\ ends \in [0 .. Len(s) -> 0 .. Len(out)]
      /\ \A i \in p + 1 .. Len(s) : role[i] = "char"
      /\ ends[p] = Len(out)
  BY <1>1 DEF Read
<1>3. /\ role2 \in [1 .. Len(s) -> Role] /\ role2[c + 1] = "count"
      /\ \A i \in 1 .. Len(s) : i # c + 1 => role2[i] = role[i]
  BY <1>1, <1>2 DEF Role
<1>4. Atoi(s[c + 1]) \in Nat /\ Len(out2) \in Nat /\ Len(out) <= Len(out2)
  <2>1. Atoi(s[c + 1]) \in Nat
    BY Runes
  <2> QED
    BY <2>1, <1>1
<1>5. PICK ends2 : Prolongs(s, out2, c, ends, ends2)
  BY <1>1, <1>2, <1>4, EndsOn
<1>6. /\ ends2 \in [0 .. Len(s) -> 0 .. Len(out2)]
      /\ \A i \in 0 .. p : ends2[i] = ends[i]
      /\ \A i \in c .. Len(s) : ends2[i] = Len(out2)
  BY <1>1, <1>5 DEF Prolongs
<1> HIDE DEF p, role2
<1>7. /\ \A i \in (c + 1) + 1 .. Len(s) :
            i \in 1 .. Len(s) /\ i # c + 1 /\ i \in p + 1 .. Len(s)
      /\ \A i \in 1 .. p : i \in 1 .. Len(s) /\ i # c + 1
      /\ p \in 0 .. p /\ c \in c .. Len(s) /\ c + 1 \in c .. Len(s)
      /\ c \in p + 1 .. Len(s)
      /\ c > 1 \/ c = 1
      /\ c > 1 => c - 1 \in 1 .. p
      /\ \A i \in p + 1 .. c + 1 : i = c \/ i = c + 1
  BY <1>1
<1>8. role2[c] = "char" /\ role[c] = "char"
  BY <1>1, <1>2, <1>3, <1>7
<1>9. Fits(s, role2, c)
  <2>1. c > 1 => role2[c - 1] = role[c - 1]
    BY <1>3, <1>7
  <2> QED
    BY <2>1, <1>7, <1>8 DEF Fits, CharNext
<1>10. Fits(s, role2, c + 1)
  BY <1>1, <1>3, <1>8 DEF Fits
<1>11. /\ ends2[c] = ends2[c - 1] + Times(s, role2, c)
       /\ \A k \in ends2[c - 1] + 1 .. ends2[c] : out2[k] = s[c]
  <2>1. Times(s, role2, c) = Atoi(s[c + 1])
    BY <1>1, <1>3, <1>8 DEF Times
  <2>2. ends2[c] = Len(out2) /\ ends2[c - 1] = Len(out)
    BY <1>1, <1>2, <1>6, <1>7
  <2> QED
    BY <2>1, <2>2
<1>12. /\ ends2[c + 1] = ends2[(c + 1) - 1] + Times(s, role2, c + 1)
       /\ \A k \in ends2[(c + 1) - 1] + 1 .. ends2[c + 1] : out2[k] = s[c + 1]
  <2>1. Times(s, role2, c + 1) = 0
    BY <1>3 DEF Times
  <2>2. ends2[c + 1] = Len(out2) /\ ends2[(c + 1) - 1] = Len(out2)
    BY <1>1, <1>6, <1>7
  <2> QED
    BY <2>1, <2>2, <1>4
<1>13. ASSUME NEW r \in Readings(s), \A i \in 1 .. p : r[i] = role[i]
       PROVE  r[c] = "char" /\ r[c + 1] = "count"
  <2>1. r[c] = "char"
    BY <1>1, <1>13 DEF CharNext
  <2> QED
    BY <2>1, CountRole
<1>14. Read(s, out2, c + 1, role2, ends2)
  <2>1. \A i \in (c + 1) + 1 .. Len(s) : role2[i] = "char"
    BY <1>2, <1>3, <1>7
  <2>2. /\ p < c + 1 /\ c + 1 <= Len(s) /\ Len(out) <= Len(out2)
        /\ ends2[c + 1] = Len(out2) /\ c + 1 \in Nat
    BY <1>1, <1>4, <1>6, <1>7
  <2>3. role2 \in [DOMAIN s -> Role] /\ role2[p + 1] = "char"
    BY <1>1, <1>3, <1>8
  <2>4. \A r \in Readings(s) : (\A i \in 1 .. p : r[i] = role[i]) =>
            \A i \in p + 1 .. c + 1 : r[i] = role2[i]
    BY <1>3, <1>7, <1>8, <1>13
  <2>5. \A i \in p + 1 .. c + 1 :
            /\ Fits(s, role2, i)
            /\ ends2[i] = ends2[i - 1] + Times(s, role2, i)
            /\ \A k \in ends2[i - 1] + 1 .. ends2[i] : out2[k] = s[i]
    BY <1>7, <1>9, <1>10, <1>11, <1>12
  <2>6. \A i \in 1 .. p : role2[i] = role[i]
    BY <1>3, <1>7
  <2>7. Continues(s, out, p, role, ends, out2, c + 1, role2, ends2)
    BY <2>1, <2>2, <2>3, <2>4, <2>5, <2>6, <1>6 DEF Continues
  <2>8. Read(s, out, p, role, ends)
    BY DEF p
  <2> QED
    BY <2>2, <2>7, <2>8, <1>1, Extends
<1>15. NoCountNext(s, c + 1, role2)
  BY <1>3 DEF NoCountNext
<1> QED
  BY <1>14, <1>15

\* A string whose runes cannot be read further has no reading.
LEMMA TwoDigits ==
  ASSUME NEW s \in Seq(STRING), NEW c \in Nat \ {0}, c + 2 <= Len(s),
         IsDigit(s[c + 1]), IsDigit(s[c + 2]),
         NEW out, NEW role, NEW ends, Read(s, out, c - 1, role, ends),
         CharNext(s, c, role)
  PROVE  Readings(s) = {}
<1>1. ASSUME NEW r \in Readings(s)  PROVE FALSE
  <2>1. \A i \in 1 .. c - 1 : r[i] = role[i]
    BY DEF Read
  <2>2. r[c] = "char"
    BY <2>1 DEF CharNext
  <2>3. c + 1 <= Len(s)
    BY LenProperties
  <2> QED
    BY <2>2, <2>3, CountRole
<1> QED
  BY <1>1

LEMMA UnpackStarts ==
  ASSUME NEW s \in Seq(STRING), UnpackStart(s)  PROVE UnpackInv
<1> DEFINE role == [i \in DOMAIN s |-> "char"]
           ends == [i \in 0 .. Len(s) |-> 0]
<1>1. /\ runes = s /\ at = 1 /\ builder = <<>> /\ unpacker = "loop"
      /\ Len(s) \in Nat /\ DOMAIN s = 1 .. Len(s) /\ at - 1 = 0
  BY LenProperties DEF UnpackStart
<1>2. builder \in Seq(STRING) /\ Len(builder) = 0
  BY <1>1
<1>3. UnpackTypes
  BY <1>1, <1>2 DEF UnpackTypes
<1>4. Read(s, builder, 0, role, ends)
  <2>1. role \in [DOMAIN s -> Role] /\ \A i \in 0 + 1 .. Len(s) : role[i] = "char"
    BY <1>1 DEF Role
  <2>2. ends \in [0 .. Len(s) -> 0 .. Len(builder)] /\ ends[0] = 0
    BY <1>1, <1>2
  <2>3. \A i \in 1 .. 0 : FALSE
    OBVIOUS
  <2> HIDE DEF role, ends
  <2> QED
    BY <1>2, <2>1, <2>2, <2>3 DEF Read
<1>5. NoCountNext(s, 0, role)
  BY DEF NoCountNext
<1> HIDE DEF role, ends
<1> QED
  BY <1>1, <1>3, <1>4, <1>5 DEF UnpackInv

\* Writing a character leaves the runes read up to the next one.
LEMMA CharWritten ==
  ASSUME UnpackTypes, unpacker = "loop", NEW c \in Nat \ {0}, c <= Len(runes),
         NEW role, NEW ends, Read(runes, builder, c - 1, role, ends),
         CharNext(runes, c, role), writeChar(c), UNCHANGED runes
  PROVE  UnpackInv'
<1>1. /\ runes \in Seq(STRING) /\ builder \in Seq(STRING)
      /\ Len(runes) \in Nat /\ DOMAIN runes = 1 .. Len(runes)
      /\ Len(builder) \in Nat
  BY LenProperties DEF UnpackTypes
<1>2. runes[c] \in STRING
  BY <1>1, c \in 1 .. Len(runes), ElementOfSeq
<1>3. CASE ~Digit(c + 1) /\ builder' = Append(builder, runes[c])
           /\ at' = c + 1 /\ unpacker' = unpacker
  <2>1. /\ builder' \in Seq(STRING) /\ at' \in 1 .. Len(runes) + 1
        /\ at' - 1 = c
    BY <1>1, <1>2, <1>3, AppendProperties
  <2>2. ~(c + 1 \in DOMAIN runes /\ IsDigit(runes[c + 1]))
    BY <1>3 DEF Digit
  <2>3. \E ends2 : /\ Read(runes, Append(builder, runes[c]), c, role, ends2)
                   /\ NoCountNext(runes, c, role)
    BY <1>1, <2>2, CharRead
  <2>4. \E r, e : Read(runes', builder', at' - 1, r, e) /\ NoCountNext(runes', at' - 1, r)
    BY <1>3, <2>1, <2>3
  <2>5. UnpackTypes'
    BY <1>1, <1>3, <2>1 DEF UnpackTypes
  <2> QED
    BY <1>3, <2>4, <2>5 DEF UnpackInv
<1>4. CASE Digit(c + 1) /\ ~Digit(c + 2) /\ at' = c + 2 /\ unpacker' = unpacker
           /\ builder' = builder \o [k \in 1 .. Atoi(runes[c + 1]) |-> runes[c]]
  <2> DEFINE n == Atoi(runes[c + 1])
             copies == [k \in 1 .. n |-> runes[c]]
  <2>1. c + 1 <= Len(runes) /\ IsDigit(runes[c + 1]) /\ n \in Nat
    BY <1>1, <1>4, Runes DEF Digit
  <2> HIDE DEF n
  <2>2. copies \in Seq(STRING) /\ Len(copies) = n
    BY <1>2, <2>1
  <2>3. /\ builder' \in Seq(STRING) /\ Len(builder') = Len(builder) + n
        /\ \A k \in 1 .. Len(builder) : builder'[k] = builder[k]
        /\ \A k \in Len(builder) + 1 .. Len(builder') : builder'[k] = runes[c]
    <3>1. builder' = builder \o copies
      BY <1>4 DEF n
    <3>2. \A k \in 1 .. n : copies[k] = runes[c]
      OBVIOUS
    <3> HIDE DEF copies
    <3>3. /\ builder' \in Seq(STRING) /\ Len(builder') = Len(builder) + n
          /\ \A k \in 1 .. Len(builder) + n :
               builder'[k] = IF k <= Len(builder) THEN builder[k]
                             ELSE copies[k - Len(builder)]
      BY <1>1, <2>2, <3>1, ConcatProperties
    <3>4. \A k \in Len(builder) + 1 .. Len(builder) + n :
            k \in 1 .. Len(builder) + n /\ ~(k <= Len(builder))
            /\ k - Len(builder) \in 1 .. n
      BY <1>1, <2>1
    <3>5. \A k \in 1 .. Len(builder) : k \in 1 .. Len(builder) + n /\ k <= Len(builder)
      BY <1>1, <2>1
    <3> QED
      BY <3>2, <3>3, <3>4, <3>5
  <2>4. \E r, e : Read(runes, builder', c + 1, r, e) /\ NoCountNext(runes, c + 1, r)
    <3>1. Len(builder') = Len(builder) + Atoi(runes[c + 1])
      BY <2>3 DEF n
    <3> HIDE DEF copies
    <3> QED
      BY <1>1, <2>1, <2>3, <3>1, CountedRead
  <2>5. /\ at' \in 1 .. Len(runes) + 1 /\ at' - 1 = c + 1
    BY <1>1, <1>4, <2>1
  <2>6. UnpackTypes'
    BY <1>1, <1>4, <2>3, <2>5 DEF UnpackTypes
  <2>7. \E r, e : Read(runes', builder', at' - 1, r, e) /\ NoCountNext(runes', at' - 1, r)
    BY <2>4, <2>5
  <2> QED
    BY <1>4, <2>6, <2>7 DEF UnpackInv
<1>5. CASE Digit(c + 1) /\ Digit(c + 2) /\ unpacker' = "invalid"
           /\ UNCHANGED <<at, builder>>
  <2>1. c + 2 <= Len(runes) /\ IsDigit(runes[c + 1]) /\ IsDigit(runes[c + 2])
    BY <1>1, <1>5 DEF Digit
  <2>2. Readings(runes) = {}
    BY <1>1, <2>1, TwoDigits
  <2>3. UnpackTypes'
    BY <1>5 DEF UnpackTypes
  <2>4. Readings(runes') = {}
    BY <2>2
  <2> QED
    BY <1>5, <2>3, <2>4 DEF UnpackInv
<1> QED
  BY <1>3, <1>4, <1>5 DEF writeChar

LEMMA EscapedRuneStep ==
  ASSUME UnpackInv, EscapedRune  PROVE UnpackInv'
<1>1. /\ unpacker = "loop" /\ at <= Len(runes) /\ runes[at] = "\\"
      /\ Escapable(at + 1) /\ writeChar(at + 1) /\ UNCHANGED runes
      /\ UnpackTypes /\ runes \in Seq(STRING) /\ builder \in Seq(STRING)
      /\ at \in 1 .. Len(runes) + 1
  BY DEF EscapedRune, Looping, UnpackInv, UnpackTypes
<1>2. /\ Len(runes) \in Nat /\ DOMAIN runes = 1 .. Len(runes)
      /\ at + 1 \in 1 .. Len(runes)
      /\ runes[at + 1] = "\\" \/ IsDigit(runes[at + 1])
  BY <1>1, LenProperties DEF Escapable
<1>3. PICK role0, ends0 : /\ Read(runes, builder, at - 1, role0, ends0)
                          /\ NoCountNext(runes, at - 1, role0)
  BY <1>1 DEF UnpackInv
<1>4. /\ at \in Nat \ {0} /\ at < Len(runes) /\ (at + 1) - 1 = at
      /\ at + 1 \in Nat \ {0} /\ at + 1 > 1 /\ at + 1 <= Len(runes)
      /\ at \in 1 .. Len(runes) /\ at \in 1 .. at
  BY <1>1, <1>2
<1>5. PICK role, ends : Read(runes, builder, at, role, ends) /\ role[at] = "escape"
  BY <1>1, <1>3, <1>4, EscapeRead
<1>6. CharNext(runes, at + 1, role)
  <2>1. ASSUME NEW r \in Readings(runes)  PROVE r[at + 1] = "char"
    <3>1. r[at] = "escape"
      BY <1>4, <1>5 DEF Read
    <3> QED
      BY <1>1, <1>4, <3>1, Roles
  <2> QED
    BY <1>2, <1>4, <1>5, <2>1 DEF CharNext
<1>7. Read(runes, builder, (at + 1) - 1, role, ends)
  BY <1>4, <1>5
<1> QED
  BY <1>1, <1>4, <1>6, <1>7, CharWritten

LEMMA PlainRuneStep ==
  ASSUME UnpackInv, PlainRune  PROVE UnpackInv'
<1>1. /\ unpacker = "loop" /\ at <= Len(runes) /\ runes[at] # "\\"
      /\ ~IsDigit(runes[at]) /\ writeChar(at) /\ UNCHANGED runes
      /\ UnpackTypes /\ runes \in Seq(STRING) /\ at \in 1 .. Len(runes) + 1
  BY DEF PlainRune, Looping, UnpackInv, UnpackTypes
<1>2. PICK role, ends : /\ Read(runes, builder, at - 1, role, ends)
                        /\ NoCountNext(runes, at - 1, role)
  BY <1>1 DEF UnpackInv
<1>3. /\ Len(runes) \in Nat /\ at \in Nat \ {0} /\ at \in 1 .. Len(runes)
      /\ at > 1 => at - 1 > 0
  BY <1>1, LenProperties
<1>4. CharNext(runes, at, role)
  <2>1. at > 1 => role[at - 1] # "escape"
    BY <1>2, <1>3 DEF NoCountNext
  <2>2. ASSUME NEW r \in Readings(runes)  PROVE r[at] = "char"
    BY <1>1, <1>3, Roles
  <2> QED
    BY <1>1, <2>1, <2>2 DEF CharNext
<1> QED
  BY <1>1, <1>2, <1>3, <1>4, CharWritten

LEMMA InvalidRuneStep ==
  ASSUME UnpackInv, InvalidRune  PROVE UnpackInv'
<1>1. /\ unpacker = "loop" /\ at <= Len(runes)
      /\ IF runes[at] = "\\" THEN ~Escapable(at + 1) ELSE IsDigit(runes[at])
      /\ unpacker' = "invalid" /\ UNCHANGED <<runes, at, builder>>
      /\ UnpackTypes /\ runes \in Seq(STRING) /\ at \in 1 .. Len(runes) + 1
  BY DEF InvalidRune, Looping, UnpackInv, UnpackTypes
<1>2. PICK role, ends : /\ Read(runes, builder, at - 1, role, ends)
                        /\ NoCountNext(runes, at - 1, role)
  BY <1>1 DEF UnpackInv
<1>3. /\ Len(runes) \in Nat /\ DOMAIN runes = 1 .. Len(runes)
      /\ at \in 1 .. Len(runes) /\ (at + 1) - 1 = at
      /\ at > 1 => at - 1 > 0 /\ at - 1 \in 1 .. at - 1
      /\ (at - 1) + 1 = at
      /\ at < Len(runes) => at + 1 \in 1 .. Len(runes) /\ at + 1 > 1
  BY <1>1, LenProperties
<1>4. ASSUME NEW r \in Readings(runes)  PROVE FALSE
  <2>1. at > 1 => /\ r[at - 1] = role[at - 1] /\ r[at - 1] # "escape"
                  /\ r[at - 1] = "char" => ~IsDigit(runes[at])
    <3>1. at > 1 => r[at - 1] = role[at - 1]
      BY <1>2, <1>3 DEF Read
    <3> QED
      BY <3>1, <1>2, <1>3 DEF NoCountNext
  <2>2. /\ r[at] \in {"escape", "char", "count"}
        /\ r[at] = "escape" => /\ runes[at] = "\\" /\ at < Len(runes)
                               /\ r[at + 1] = "char"
        /\ r[at] = "char" => ((at > 1 /\ r[at - 1] = "escape")
                                <=> (runes[at] = "\\" \/ IsDigit(runes[at])))
        /\ r[at] = "count" => IsDigit(runes[at]) /\ at > 1 /\ r[at - 1] = "char"
    BY <1>1, <1>3, Roles
  <2>3. CASE runes[at] = "\\"
    <3>1. r[at] = "escape" /\ at < Len(runes) /\ r[at + 1] = "char"
      BY <2>1, <2>2, <2>3, Runes
    <3>2. (at + 1 > 1 /\ r[(at + 1) - 1] = "escape")
            <=> (runes[at + 1] = "\\" \/ IsDigit(runes[at + 1]))
      BY <1>1, <1>3, <3>1, Roles
    <3> QED
      BY <1>1, <1>3, <2>3, <3>1, <3>2 DEF Escapable
  <2>4. CASE runes[at] # "\\"
    BY <1>1, <2>1, <2>2, <2>4
  <2> QED
    BY <2>3, <2>4
<1>5. Readings(runes') = {}
  BY <1>1, <1>4
<1>6. UnpackTypes'
  BY <1>1 DEF UnpackTypes
<1> QED
  BY <1>1, <1>5, <1>6 DEF UnpackInv

\* Unpack accepts the strings that can be read as runes with counts, and gives
\* the expansion of their reading; it refuses those that cannot be read (unpack.go).
THEOREM UnpackCorrect == UnpackSpec => []UnpackIsRight
<1>1. (\E s \in Seq(STRING) : UnpackStart(s)) => UnpackInv
  BY UnpackStarts
<1>2. UnpackInv /\ [UnpackNext]_unpackVars => UnpackInv'
  <2> SUFFICES ASSUME UnpackInv, [UnpackNext]_unpackVars  PROVE UnpackInv'
    OBVIOUS
  <2>1. CASE EscapedRune
    BY <2>1, EscapedRuneStep
  <2>2. CASE PlainRune
    BY <2>2, PlainRuneStep
  <2>3. CASE InvalidRune
    BY <2>3, InvalidRuneStep
  <2>4. CASE EndOfString
    <3>1. /\ unpacker = "loop" /\ at > Len(runes) /\ unpacker' = "nil"
          /\ UNCHANGED <<runes, at, builder>> /\ UnpackTypes
          /\ runes \in Seq(STRING) /\ at \in 1 .. Len(runes) + 1
      BY <2>4 DEF EndOfString, UnpackInv, UnpackTypes
    <3>2. at' = Len(runes') + 1
      BY <3>1, LenProperties
    <3>3. UnpackTypes'
      BY <3>1 DEF UnpackTypes
    <3> QED
      BY <3>1, <3>2, <3>3 DEF UnpackInv
  <2>5. CASE UNCHANGED unpackVars
    BY <2>5 DEF unpackVars, UnpackInv, UnpackTypes
  <2> QED
    BY <2>1, <2>2, <2>3, <2>4, <2>5 DEF UnpackNext
<1>3. UnpackInv => UnpackIsRight
  <2> SUFFICES ASSUME UnpackInv, unpacker = "nil"
               PROVE  /\ Readings(runes) # {}
                      /\ \A r \in Readings(runes) : Expands(builder, runes, r)
    BY DEF UnpackInv, UnpackIsRight
  <2>1. runes \in Seq(STRING) /\ at = Len(runes) + 1
    BY DEF UnpackInv, UnpackTypes
  <2>2. at - 1 = Len(runes) /\ DOMAIN runes = 1 .. Len(runes)
    BY <2>1, LenProperties
  <2>3. PICK role, ends : Read(runes, builder, Len(runes), role, ends)
    BY <2>2 DEF UnpackInv
  <2>4. role \in Readings(runes)
    BY <2>2, <2>3 DEF Read, Readings
  <2>5. ASSUME NEW r \in Readings(runes)  PROVE Expands(builder, runes, r)
    <3>1. r = role
      BY <2>2, <2>3 DEF Read, Readings
    <3>2. Expands(builder, runes, role)
      BY <2>2, <2>3 DEF Read, Expands
    <3> QED
      BY <3>1, <3>2
  <2> QED
    BY <2>4, <2>5
<1> QED
  BY <1>1, <1>2, <1>3, PTL DEF UnpackSpec

----------------------------------------------------------------------------
(***************************************************************************)
(* The envdir tool.  The variables the range has come to are in the slice  *)
(* as their files say (Settled), the foreign ones are never touched; the   *)
(* loop that skips the neighbour of a removed entry misses nothing because *)
(* no name is found twice.                                                 *)
(***************************************************************************)

Assignment == [name : STRING, value : Seq(FileBytes)]

Foreign(slice) == {v \in ToSet(slice) : v.name \notin Variables}

\* Variable n is as its file says.
Settled(n) ==
  IF SizeIsZero(directory[n]) THEN \A v \in ToSet(newEnv) : v.name # n
  ELSE \E v \in ToSet(newEnv) :
         v.name = n /\ v.value = processFirstLine(directory[n].bytes)

\* The map is what the directory holds.
MapRead ==
  /\ \A n \in Variables : ~Fails(directory[n])
  /\ env = [n \in Variables |->
              [NeedRemove |-> SizeIsZero(directory[n]),
               Value |-> processFirstLine(directory[n].bytes)]]

\* The loop that removes has not passed by the name.
RemovingOne ==
  /\ removing \in Variables \ unranged /\ SizeIsZero(directory[removing])
  /\ index \in Nat \ {0}
  /\ \A i \in DOMAIN newEnv : i < index => newEnv[i].name # removing

EnvdirInv ==
  /\ directory \in Directories /\ currentEnv \in Environ
  /\ envdir \in {"read", "range", "remove", "run", "unlisted", "exit"}
  /\ envdir = "exit" => \E n \in Variables : Fails(directory[n])
  /\ envdir \in {"range", "remove", "run"} =>
       /\ MapRead /\ unranged \subseteq Variables
       /\ newEnv \in Seq(Assignment) /\ NoNameTwice(newEnv)
       /\ Foreign(newEnv) = Foreign(currentEnv)
       /\ \A n \in Variables \ unranged :
            envdir # "remove" \/ n # removing => Settled(n)
  /\ envdir = "remove" => RemovingOne
  /\ envdir = "run" => unranged = {}

----------------------------------------------------------------------------
(* The first line *)

LEMMA TrimRightFacts ==
  ASSUME NEW S, NEW s \in Seq(S), NEW cut
  PROVE  \E m \in 0 .. Len(s) :
           /\ TrimRight(s, cut) = SubSeq(s, 1, m)
           /\ m > 0 => s[m] \notin cut
           /\ \A i \in m + 1 .. Len(s) : s[i] \in cut
<1> DEFINE kept == {0} \cup {i \in DOMAIN s : s[i] \notin cut}
           m == CHOOSE i \in kept : \A j \in kept : j <= i
<1>1. Len(s) \in Nat /\ DOMAIN s = 1 .. Len(s)
  BY LenProperties
<1>2. kept \subseteq 0 .. Len(s) /\ kept # {}
  BY <1>1
<1>3. m \in kept /\ \A j \in kept : j <= m
  <2> HIDE DEF kept
  <2> QED
    BY <1>1, <1>2, GreatestOf
<1>4. m \in 0 .. Len(s)
  BY <1>2, <1>3
<1>5. TrimRight(s, cut) = SubSeq(s, 1, m)
  BY DEF TrimRight
<1>6. m > 0 => s[m] \notin cut
  <2> HIDE DEF m
  <2> QED
    BY <1>3
<1>7. ASSUME NEW i \in m + 1 .. Len(s) PROVE s[i] \in cut
  <2>1. i \in DOMAIN s /\ i > m /\ i \in Nat /\ m \in Nat
    <3> HIDE DEF m
    <3> QED
      BY <1>1, <1>4
  <2>2. i \notin kept
    <3> HIDE DEF m, kept
    <3> QED
      BY <1>3, <2>1
  <2> QED
    BY <2>1, <2>2
<1> HIDE DEF m
<1> QED
  BY <1>4, <1>5, <1>6, <1>7

\* content[1 .. idx] is the first line.
LEMMA FirstLine ==
  ASSUME NEW S, NEW content \in Seq(S)
  PROVE  LET ends == {i \in DOMAIN content : content[i] = "\n"}
             idx == IF ends = {} THEN Len(content)
                    ELSE (CHOOSE i \in ends : \A j \in ends : i <= j) - 1
         IN /\ idx \in 0 .. Len(content)
            /\ \A i \in 1 .. idx : content[i] # "\n"
            /\ idx < Len(content) => content[idx + 1] = "\n"
<1> DEFINE ends == {i \in DOMAIN content : content[i] = "\n"}
           first == CHOOSE i \in ends : \A j \in ends : i <= j
<1>1. Len(content) \in Nat /\ DOMAIN content = 1 .. Len(content)
  BY LenProperties
<1>2. CASE ends = {}
  BY <1>1, <1>2
<1>3. CASE ends # {}
  <2>1. first \in ends /\ \A j \in ends : first <= j
    <3>1. ends \subseteq Nat
      BY <1>1
    <3> HIDE DEF ends
    <3> QED
      BY <1>3, <3>1, LeastOf
  <2>2. first \in 1 .. Len(content) /\ content[first] = "\n"
    BY <1>1, <2>1
  <2>3. ASSUME NEW i \in 1 .. first - 1 PROVE content[i] # "\n"
    <3>1. i \in 1 .. Len(content) /\ i < first
      <4> HIDE DEF first
      <4> QED
        BY <1>1, <2>2
    <3> HIDE DEF first
    <3> QED
      BY <1>1, <2>1, <2>2, <3>1
  <2> HIDE DEF first
  <2>4. first - 1 \in 0 .. Len(content) /\ (first - 1) + 1 = first
    BY <1>1, <2>2
  <2> QED
    BY <1>3, <2>2, <2>3, <2>4 DEF first
<1> QED
  BY <1>2, <1>3

\* Both trims together keep a beginning of the line; behind it stand carriage
\* returns, and behind these blanks.
LEMMA TrimTwice ==
  ASSUME NEW S, NEW line \in Seq(S)
  PROVE  \E m \in 0 .. Len(line), b \in 0 .. Len(line) :
           /\ m <= b
           /\ TrimRight(TrimRight(line, {" "}), {"\r"}) = SubSeq(line, 1, m)
           /\ \A i \in m + 1 .. b : line[i] = "\r"
           /\ \A i \in b + 1 .. Len(line) : line[i] = " "
           /\ m > 0 => line[m] # "\r" /\ (m = b => line[m] # " ")
<1>a. PICK b \in 0 .. Len(line) :
        /\ TrimRight(line, {" "}) = SubSeq(line, 1, b)
        /\ b > 0 => line[b] \notin {" "}
        /\ \A i \in b + 1 .. Len(line) : line[i] \in {" "}
  BY TrimRightFacts, Zenon
<1>1. /\ TrimRight(line, {" "}) = SubSeq(line, 1, b)
      /\ b > 0 => line[b] # " "
      /\ \A i \in b + 1 .. Len(line) : line[i] = " "
  BY <1>a, Zenon
<1> DEFINE trimmed == SubSeq(line, 1, b)
<1>2. Len(line) \in Nat /\ b \in Nat /\ b <= Len(line)
  BY LenProperties
<1>3. /\ trimmed \in Seq(S) /\ Len(trimmed) = b
      /\ \A i \in 1 .. b : trimmed[i] = line[i]
  BY <1>2, Beginning
<1> HIDE DEF trimmed
<1>b. PICK m \in 0 .. Len(trimmed) :
        /\ TrimRight(trimmed, {"\r"}) = SubSeq(trimmed, 1, m)
        /\ m > 0 => trimmed[m] \notin {"\r"}
        /\ \A i \in m + 1 .. Len(trimmed) : trimmed[i] \in {"\r"}
  BY <1>3, TrimRightFacts, Zenon
<1>4. /\ TrimRight(trimmed, {"\r"}) = SubSeq(trimmed, 1, m)
      /\ m > 0 => trimmed[m] # "\r"
      /\ \A i \in m + 1 .. b : trimmed[i] = "\r"
  BY <1>3, <1>b, Zenon
<1>c. m \in Nat /\ m <= b
  BY <1>2, <1>3
<1>5. SubSeq(trimmed, 1, m) = SubSeq(line, 1, m)
  <2>0. /\ m \in Nat /\ m <= Len(line) /\ m <= Len(trimmed)
        /\ \A i \in 1 .. m : i \in 1 .. b
    BY <1>2, <1>3, <1>c
  <2>1. /\ SubSeq(line, 1, m) \in Seq(S) /\ Len(SubSeq(line, 1, m)) = m
        /\ \A i \in 1 .. m : SubSeq(line, 1, m)[i] = line[i]
    BY <2>0, Beginning
  <2>2. /\ SubSeq(trimmed, 1, m) \in Seq(S) /\ Len(SubSeq(trimmed, 1, m)) = m
        /\ \A i \in 1 .. m : SubSeq(trimmed, 1, m)[i] = trimmed[i]
    BY <1>3, <2>0, Beginning
  <2> QED
    BY <1>3, <2>0, <2>1, <2>2, SeqEqual
<1>6. /\ TrimRight(TrimRight(line, {" "}), {"\r"}) = SubSeq(line, 1, m)
      /\ m \in 0 .. Len(line) /\ m <= b
      /\ \A i \in m + 1 .. b : line[i] = "\r"
      /\ m > 0 => line[m] # "\r" /\ (m = b => line[m] # " ")
  <2>1. TrimRight(TrimRight(line, {" "}), {"\r"}) = SubSeq(line, 1, m)
    BY <1>1, <1>4, <1>5 DEF trimmed
  <2>2. m \in 0 .. Len(line) /\ m <= b
    BY <1>2, <1>c
  <2>0. \A i \in m + 1 .. b : i \in 1 .. b
    BY <1>2, <1>c
  <2>3. \A i \in m + 1 .. b : line[i] = "\r"
    BY <2>0, <1>3, <1>4
  <2>4. m > 0 => line[m] # "\r" /\ (m = b => line[m] # " ")
    <3> SUFFICES ASSUME m > 0
                 PROVE  line[m] # "\r" /\ (m = b => line[m] # " ")
      OBVIOUS
    <3>1. m \in 1 .. b /\ (m = b => b > 0)
      BY <1>2, <1>c
    <3> QED
      BY <3>1, <1>1, <1>3, <1>4
  <2> QED
    BY <2>1, <2>2, <2>3, <2>4
<1> QED
  BY <1>1, <1>6

\* What ReadDir takes for a file's value is its first line, less carriage
\* returns and the blanks behind them.
LEMMA ValueRight ==
  ASSUME NEW content \in Seq(FileBytes)
  PROVE  /\ processFirstLine(content) \in Seq(FileBytes)
         /\ IsValue(processFirstLine(content), content)
<1> DEFINE breaks == {i \in DOMAIN content : content[i] = "\n"}
           idx == IF breaks = {} THEN Len(content)
                  ELSE (CHOOSE i \in breaks : \A j \in breaks : i <= j) - 1
           line == [i \in 1 .. idx |-> IF content[i] = "nul" THEN "\n" ELSE content[i]]
           value == TrimRight(TrimRight(line, {" "}), {"\r"})
<1>0. processFirstLine(content) = value
  BY DEF processFirstLine
<1>1. /\ idx \in 0 .. Len(content)
      /\ \A i \in 1 .. idx : content[i] # "\n"
      /\ idx < Len(content) => content[idx + 1] = "\n"
  BY FirstLine
<1>2. Len(content) \in Nat /\ DOMAIN content = 1 .. Len(content)
      /\ \A i \in 1 .. Len(content) : content[i] \in FileBytes
  BY LenProperties, ElementOfSeq
<1> HIDE DEF idx, breaks
<1>3. /\ line \in Seq(FileBytes) /\ Len(line) = idx
      /\ \A i \in 1 .. idx :
           line[i] = IF content[i] = "nul" THEN "\n" ELSE content[i]
  <2>1. "\n" \in FileBytes
    BY DEF FileBytes
  <2>2. idx \in Nat /\ \A i \in 1 .. idx : content[i] \in FileBytes
    BY <1>1, <1>2
  <2> QED
    BY <2>1, <2>2
<1> HIDE DEF line
<1>4. PICK m \in 0 .. idx, b \in 0 .. idx :
        /\ m <= b
        /\ value = SubSeq(line, 1, m)
        /\ \A i \in m + 1 .. b : line[i] = "\r"
        /\ \A i \in b + 1 .. idx : line[i] = " "
        /\ m > 0 => line[m] # "\r" /\ (m = b => line[m] # " ")
  BY <1>3, TrimTwice
<1>5. /\ m \in Nat /\ b \in Nat /\ idx \in Nat /\ m <= b /\ b <= idx
      /\ idx <= Len(content)
  <2>1. m <= b
    BY <1>4
  <2>2. idx \in 0 .. Len(content)
    BY <1>1
  <2>3. Len(content) \in Nat
    BY <1>2
  <2> QED
    BY <2>1, <2>2, <2>3
<1>6. /\ value \in Seq(FileBytes) /\ Len(value) = m
      /\ \A i \in 1 .. m : value[i] = line[i]
  <2>1. m <= Len(line)
    BY <1>3, <1>5
  <2>2. value = SubSeq(line, 1, m)
    BY <1>4
  <2> HIDE DEF value
  <2> QED
    BY <1>3, <1>5, <2>1, <2>2, Beginning
<1> HIDE DEF value
<1> DEFINE cut == SubSeq(content, m + 1, Len(content))
           kept == SubSeq(content, 1, Len(content) - Len(cut))
           ends == {i \in DOMAIN cut : cut[i] = "\n"}
           tail == IF ends = {} THEN cut
                   ELSE SubSeq(cut, 1, (CHOOSE i \in ends : \A j \in ends : i <= j) - 1)
<1>7. /\ cut \in Seq(FileBytes) /\ Len(cut) = Len(content) - m
      /\ \A i \in 1 .. Len(content) - m : cut[i] = content[m + i]
  <2>1. m <= Len(content)
    BY <1>2, <1>5
  <2> QED
    BY <1>5, <2>1, Rest
<1>8. /\ kept \in Seq(FileBytes) /\ Len(kept) = m
      /\ \A i \in 1 .. m : kept[i] = content[i]
  <2> HIDE DEF cut
  <2>1. m <= Len(content) /\ Len(content) - Len(cut) = m
    BY <1>2, <1>5, <1>7
  <2> QED
    BY <1>5, <2>1, Beginning
<1>9. /\ tail \in Seq(FileBytes) /\ Len(tail) = idx - m
      /\ \A i \in 1 .. idx - m : tail[i] = content[m + i]
  <2> HIDE DEF cut
  <2>1. DOMAIN cut = 1 .. Len(cut)
    BY <1>7, LenProperties
  <2>2. \A i \in 1 .. idx - m : cut[i] # "\n"
    BY <1>1, <1>2, <1>5, <1>7
  <2>3. CASE idx = Len(content)
    <3>1. ends = {}
      BY <2>1, <2>2, <2>3, <1>7
    <3> QED
      BY <3>1, <2>3, <1>7
  <2>4. CASE idx < Len(content)
    <3> DEFINE k == idx - m + 1
    <3>1. k \in ends
      BY <1>1, <1>2, <1>5, <1>7, <2>1, <2>4
    <3>2. \A j \in ends : k <= j
      BY <1>2, <1>5, <1>7, <2>1, <2>2
    <3>3. \A i \in ends : (\A j \in ends : i <= j) => i = k
      BY <3>1, <3>2, <2>1, <1>2, <1>5, <1>7, SMTT(30)
    <3>4. (CHOOSE i \in ends : \A j \in ends : i <= j) = k
      <4> HIDE DEF k, ends
      <4> QED
        BY <3>1, <3>2, <3>3
    <3>5. tail = SubSeq(cut, 1, idx - m)
      <4>1. k - 1 = idx - m
        BY <1>5
      <4> HIDE DEF k
      <4> QED
        BY <3>1, <3>4, <4>1
    <3>6. idx - m \in Nat /\ idx - m <= Len(cut)
      BY <1>2, <1>5, <1>7
    <3>7. /\ SubSeq(cut, 1, idx - m) \in Seq(FileBytes)
          /\ Len(SubSeq(cut, 1, idx - m)) = idx - m
          /\ \A i \in 1 .. idx - m : SubSeq(cut, 1, idx - m)[i] = cut[i]
      BY <1>7, <3>6, Beginning
    <3>8. \A i \in 1 .. idx - m : cut[i] = content[m + i]
      BY <1>2, <1>5, <1>7
    <3> HIDE DEF tail
    <3> QED
      BY <3>5, <3>7, <3>8
  <2>5. idx = Len(content) \/ idx < Len(content)
    <3>1. Len(content) \in Nat /\ idx \in Nat /\ idx <= Len(content)
      BY <1>2, <1>5, Zenon
    <3> HIDE DEF tail
    <3> QED
      BY <3>1
  <2> HIDE DEF tail
  <2> QED
    BY <2>3, <2>4, <2>5
<1> HIDE DEF cut, kept, tail
<1>10. DOMAIN kept = 1 .. m /\ DOMAIN tail = 1 .. idx - m /\ DOMAIN value = 1 .. m
  BY <1>6, <1>8, <1>9, LenProperties
<1>11. "\n" \notin ToSet(kept)
  <2>1. \A i \in 1 .. m : kept[i] # "\n"
    BY <1>1, <1>5, <1>8
  <2> QED
    BY <1>10, <2>1 DEF ToSet
<1>12. \A i \in 1 .. m : line[i] = IF kept[i] = "nul" THEN "\n" ELSE kept[i]
  BY <1>3, <1>5, <1>8
<1>13. value = [i \in DOMAIN kept |-> IF kept[i] = "nul" THEN "\n" ELSE kept[i]]
  <2>1. value = [i \in 1 .. m |-> value[i]]
    BY <1>6, LenProperties
  <2> QED
    BY <1>6, <1>10, <1>12, <2>1
<1>14. \A i \in 1 .. idx - m :
         /\ m + i <= b => tail[i] = "\r"
         /\ m + i > b => tail[i] = " "
  <2> SUFFICES ASSUME NEW i \in 1 .. idx - m
               PROVE  /\ m + i <= b => tail[i] = "\r"
                      /\ m + i > b => tail[i] = " "
    OBVIOUS
  <2>1. m + i \in m + 1 .. idx /\ m + i \in 1 .. idx /\ tail[i] = content[m + i]
    BY <1>5, <1>9
  <2>2. line[m + i] = IF tail[i] = "nul" THEN "\n" ELSE tail[i]
    BY <1>3, <2>1
  <2>3. /\ m + i <= b => line[m + i] = "\r"
        /\ m + i > b => line[m + i] = " "
    <3>1. /\ m + i <= b => m + i \in m + 1 .. b
          /\ m + i > b => m + i \in b + 1 .. idx
      BY <1>5, <2>1
    <3> QED
      BY <1>4, <3>1
  <2> QED
    BY <2>2, <2>3
<1>15. ToSet(tail) \subseteq {"\r", " "}
  <2>0. \A i \in 1 .. idx - m : m + i <= b \/ m + i > b
    BY <1>5
  <2>1. \A i \in 1 .. idx - m : tail[i] \in {"\r", " "}
    BY <2>0, <1>14
  <2> QED
    BY <1>10, <2>1 DEF ToSet
<1>16. \A i, j \in DOMAIN tail : i < j /\ tail[j] = "\r" => tail[i] = "\r"
  <2> SUFFICES ASSUME NEW i \in 1 .. idx - m, NEW j \in 1 .. idx - m,
                      i < j, tail[j] = "\r"
               PROVE  tail[i] = "\r"
    BY <1>10
  <2>1. m + j > b \/ m + i <= b
    BY <1>5
  <2>2. ~(m + j > b)
    BY <1>14
  <2> QED
    BY <1>14, <2>1, <2>2
<1>17. value # <<>> =>
         value[Len(value)] \notin {"\r", " "} \/ KeepsBlank(value, tail)
  <2> SUFFICES ASSUME value # <<>>
               PROVE  /\ value[Len(value)] # "\r"
                      /\ "\r" \in ToSet(tail) \/ value[Len(value)] # " "
    BY <1>16 DEF KeepsBlank
  <2>1. m > 0 /\ value[Len(value)] = line[m]
    BY <1>5, <1>6, EmptySeq
  <2>2. ASSUME m < b PROVE "\r" \in ToSet(tail)
    <3>1. 1 \in 1 .. idx - m /\ m + 1 <= b
      BY <1>5, <2>2
    <3> QED
      BY <3>1, <1>10, <1>14 DEF ToSet
  <2>3. m < b \/ m = b
    BY <1>5
  <2> QED
    BY <1>4, <2>1, <2>2, <2>3
<1>18. cut \in {SubSeq(content, i, Len(content)) : i \in 1 .. Len(content) + 1}
  <2>1. m + 1 \in 1 .. Len(content) + 1
    BY <1>2, <1>5
  <2> QED
    BY <2>1 DEF cut
<1>19. IsValue(value, content)
  BY <1>11, <1>13, <1>15, <1>17, <1>18, Zenon DEF IsValue, kept, tail
<1> QED
  BY <1>0, <1>6, <1>19 DEF value

----------------------------------------------------------------------------
(* The environment of the command *)

LEMMA RemoveAtFacts ==
  ASSUME NEW S, NEW s \in Seq(S), NEW i \in 1 .. Len(s)
  PROVE  /\ RemoveAt(s, i) \in Seq(S) /\ Len(RemoveAt(s, i)) = Len(s) - 1
         /\ \A k \in 1 .. i - 1 : RemoveAt(s, i)[k] = s[k]
         /\ \A k \in i .. Len(s) - 1 : RemoveAt(s, i)[k] = s[k + 1]
<1> DEFINE front == SubSeq(s, 1, i - 1)
           back == SubSeq(s, i + 1, Len(s))
<1>1. Len(s) \in Nat /\ i \in Nat /\ i - 1 \in Nat /\ i - 1 <= Len(s) /\ i <= Len(s)
  BY LenProperties
<1>2. /\ front \in Seq(S) /\ Len(front) = i - 1
      /\ \A k \in 1 .. i - 1 : front[k] = s[k]
  BY <1>1, Beginning
<1>3. /\ back \in Seq(S) /\ Len(back) = Len(s) - i
      /\ \A k \in 1 .. Len(s) - i : back[k] = s[i + k]
  BY <1>1, Rest
<1>4. RemoveAt(s, i) = front \o back
  BY DEF RemoveAt
<1> HIDE DEF front, back
<1>5. /\ front \o back \in Seq(S) /\ Len(front \o back) = Len(front) + Len(back)
      /\ \A k \in 1 .. Len(front) + Len(back) :
           (front \o back)[k] = IF k <= Len(front) THEN front[k]
                                ELSE back[k - Len(front)]
  BY <1>2, <1>3, ConcatProperties
<1>6. ASSUME NEW k \in 1 .. i - 1 PROVE (front \o back)[k] = s[k]
  <2>1. k \in 1 .. Len(front) + Len(back) /\ k <= Len(front)
    BY <1>1, <1>2, <1>3
  <2> QED
    BY <1>2, <1>5, <2>1
<1>7. ASSUME NEW k \in i .. Len(s) - 1 PROVE (front \o back)[k] = s[k + 1]
  <2>1. /\ k \in 1 .. Len(front) + Len(back) /\ ~(k <= Len(front))
        /\ k - Len(front) \in 1 .. Len(s) - i /\ i + (k - Len(front)) = k + 1
    BY <1>1, <1>2, <1>3
  <2>2. (front \o back)[k] = back[k - Len(front)]
    BY <1>5, <2>1
  <2>3. back[k - Len(front)] = s[i + (k - Len(front))]
    BY <1>3, <2>1
  <2> QED
    BY <2>1, <2>2, <2>3
<1>8. Len(front \o back) = Len(s) - 1
  BY <1>1, <1>2, <1>3, <1>5
<1> QED
  BY <1>4, <1>5, <1>6, <1>7, <1>8

\* What a removal leaves are the entries of other names, each once.
LEMMA RemovedEntry ==
  ASSUME NEW s \in Seq(Assignment), NoNameTwice(s), NEW i \in 1 .. Len(s)
  PROVE  /\ RemoveAt(s, i) \in Seq(Assignment) /\ NoNameTwice(RemoveAt(s, i))
         /\ \A k \in DOMAIN RemoveAt(s, i) : RemoveAt(s, i)[k].name # s[i].name
         /\ \A v : v.name # s[i].name =>
                     (v \in ToSet(RemoveAt(s, i)) <=> v \in ToSet(s))
<1> DEFINE r == RemoveAt(s, i)
           from(k) == IF k < i THEN k ELSE k + 1
<1>1. /\ r \in Seq(Assignment) /\ Len(r) = Len(s) - 1
      /\ \A k \in 1 .. i - 1 : r[k] = s[k]
      /\ \A k \in i .. Len(s) - 1 : r[k] = s[k + 1]
  BY RemoveAtFacts
<1>2. /\ Len(s) \in Nat /\ i \in Nat /\ i >= 1 /\ i <= Len(s)
      /\ DOMAIN s = 1 .. Len(s) /\ DOMAIN r = 1 .. Len(s) - 1
  BY <1>1, LenProperties
<1> HIDE DEF r
<1>3. ASSUME NEW k \in DOMAIN r
      PROVE  from(k) \in DOMAIN s /\ from(k) # i /\ r[k] = s[from(k)] /\ k \in Nat
  <2>1. CASE k < i
    <3>1. k \in 1 .. i - 1 /\ k \in 1 .. Len(s)
      BY <1>2, <2>1
    <3> QED
      BY <1>1, <1>2, <2>1, <3>1
  <2>2. CASE ~(k < i)
    <3>1. k \in i .. Len(s) - 1 /\ k + 1 \in 1 .. Len(s) /\ k + 1 # i
      BY <1>2, <2>2
    <3> QED
      BY <1>1, <1>2, <2>2, <3>1
  <2> QED
    BY <2>1, <2>2
<1>4. ASSUME NEW j \in DOMAIN s, j # i
      PROVE  \E k \in DOMAIN r : r[k] = s[j]
  <2>1. CASE j < i
    <3>1. j \in 1 .. i - 1 /\ j \in 1 .. Len(s) - 1
      BY <1>2, <2>1
    <3> QED
      BY <1>1, <1>2, <3>1
  <2>2. CASE j > i
    <3>1. j - 1 \in i .. Len(s) - 1 /\ j - 1 \in 1 .. Len(s) - 1 /\ (j - 1) + 1 = j
      BY <1>2, <2>2
    <3> QED
      BY <1>1, <1>2, <3>1
  <2> QED
    BY <1>2, <1>4, <2>1, <2>2
<1>5. NoNameTwice(r)
  <2> SUFFICES ASSUME NEW k \in DOMAIN r, NEW l \in DOMAIN r, r[k].name = r[l].name
               PROVE  k = l
    BY DEF NoNameTwice
  <2>1. from(k) = from(l)
    <3> HIDE DEF from
    <3> QED
      BY <1>3 DEF NoNameTwice
  <2>2. k \in Nat /\ l \in Nat
    BY <1>3
  <2> QED
    BY <1>2, <2>1, <2>2
<1>6. \A k \in DOMAIN r : r[k].name # s[i].name
  <2>1. i \in DOMAIN s
    BY <1>2
  <2> HIDE DEF from
  <2> QED
    BY <1>3, <2>1 DEF NoNameTwice
<1>7. ASSUME NEW v, v.name # s[i].name
      PROVE  v \in ToSet(r) <=> v \in ToSet(s)
  <2> HIDE DEF from
  <2> QED
    BY <1>3, <1>4, <1>7 DEF ToSet
<1> QED
  BY <1>1, <1>5, <1>6, <1>7 DEF r

\* Setting a variable gives it the value and leaves the others.
LEMMA SetEntry ==
  ASSUME NEW s \in Seq(Assignment), NoNameTwice(s),
         NEW n \in STRING, NEW value \in Seq(FileBytes)
  PROVE  /\ With(s, n, value) \in Seq(Assignment) /\ NoNameTwice(With(s, n, value))
         /\ \E k \in DOMAIN With(s, n, value) :
              /\ With(s, n, value)[k].name = n
              /\ With(s, n, value)[k].value = value
         /\ \A v : v.name # n =>
                     (v \in ToSet(With(s, n, value)) <=> v \in ToSet(s))
<1> DEFINE found == {i \in DOMAIN s : s[i].name = n}
           variable == [name |-> n, value |-> value]
           i0 == CHOOSE i \in found : \A j \in found : i <= j
           w == With(s, n, value)
<1>1. /\ Len(s) \in Nat /\ DOMAIN s = 1 .. Len(s)
      /\ variable \in Assignment /\ variable.name = n /\ variable.value = value
  BY LenProperties DEF Assignment
<1>2. w = IF found = {} THEN Append(s, variable) ELSE [s EXCEPT ![i0] = variable]
  BY DEF With
<1>3. CASE found = {}
  <2> HIDE DEF variable
  <2>1. w = Append(s, variable)
    BY <1>2, <1>3
  <2> HIDE DEF w
  <2>2. /\ w \in Seq(Assignment) /\ Len(w) = Len(s) + 1 /\ w[Len(s) + 1] = variable
        /\ \A k \in 1 .. Len(s) : w[k] = s[k]
    BY <1>1, <2>1, AppendProperties
  <2>3. /\ DOMAIN w = 1 .. Len(s) + 1 /\ Len(s) + 1 \in DOMAIN w
        /\ \A k \in DOMAIN w : k \in DOMAIN s \/ k = Len(s) + 1
        /\ \A k \in DOMAIN s : k \in DOMAIN w /\ w[k] = s[k]
    BY <1>1, <2>2, LenProperties
  <2>4. \A k \in DOMAIN s : s[k].name # n
    BY <1>3
  <2>5. NoNameTwice(w)
    BY <1>1, <2>2, <2>3, <2>4 DEF NoNameTwice
  <2>6. ASSUME NEW v, v.name # n PROVE v \in ToSet(w) <=> v \in ToSet(s)
    BY <1>1, <2>2, <2>3, <2>6 DEF ToSet
  <2> QED
    BY <1>1, <2>2, <2>3, <2>5, <2>6 DEF w
<1>4. CASE found # {}
  <2>1. i0 \in found
    <3>1. found \subseteq Nat
      BY <1>1
    <3> HIDE DEF found
    <3> QED
      BY <1>4, <3>1, LeastOf
  <2>2. i0 \in DOMAIN s /\ s[i0].name = n
    BY <2>1
  <2>3. w = [s EXCEPT ![i0] = variable]
    BY <1>2, <1>4
  <2> HIDE DEF w, i0, variable, found
  <2>4. w \in Seq(Assignment) /\ DOMAIN w = DOMAIN s
        /\ w[i0] = variable /\ \A k \in DOMAIN s : k # i0 => w[k] = s[k]
    <3>1. i0 \in 1 .. Len(s)
      BY <1>1, <2>2
    <3>2. /\ w \in Seq(Assignment) /\ Len(w) = Len(s)
          /\ \A j \in 1 .. Len(s) : w[j] = IF j = i0 THEN variable ELSE s[j]
      BY <1>1, <2>3, <3>1, ExceptSeq
    <3> QED
      BY <1>1, <3>1, <3>2, LenProperties
  <2>5. NoNameTwice(w)
    BY <1>1, <2>2, <2>4 DEF NoNameTwice
  <2>6. ASSUME NEW v, v.name # n PROVE v \in ToSet(w) <=> v \in ToSet(s)
    BY <1>1, <2>2, <2>4, <2>6 DEF ToSet
  <2> QED
    BY <1>1, <2>2, <2>4, <2>5, <2>6 DEF w
<1> QED
  BY <1>3, <1>4

\* A variable is a name with a file.
LEMMA VariableFacts ==
  ASSUME directory \in Directories, NEW n \in Variables
  PROVE  n \in STRING /\ directory[n].bytes \in Seq(FileBytes)
<1>1. PICK S \in SUBSET STRING : directory \in [S -> Entry]
  BY DEF Directories
<1>2. n \in S
  BY <1>1 DEF Variables
<1> QED
  BY <1>1, <1>2 DEF Entry

\* A variable stays as its file says, and the foreign ones as they were, when
\* the slice changes at another name.
LEMMA OtherName ==
  ASSUME UNCHANGED directory, NEW n \in Variables,
         \A v : v.name # n => (v \in ToSet(newEnv') <=> v \in ToSet(newEnv))
  PROVE  /\ Variables' = Variables /\ Foreign(newEnv)' = Foreign(newEnv)
         /\ \A m : m # n /\ Settled(m) => Settled(m)'
<1>1. Variables' = Variables
  BY DEF Variables
<1>2. ASSUME NEW v
      PROVE  v \in Foreign(newEnv)' <=> v \in Foreign(newEnv)
  BY <1>1, n \in Variables DEF Foreign
<1>3. ASSUME NEW m, m # n, Settled(m) PROVE Settled(m)'
  <2>1. directory' = directory
    OBVIOUS
  <2>2. \A v : v.name = m => (v \in ToSet(newEnv') <=> v \in ToSet(newEnv))
    BY <1>3
  <2>3. CASE SizeIsZero(directory[m])
    BY <1>3, <2>1, <2>2, <2>3 DEF Settled
  <2>4. CASE ~SizeIsZero(directory[m])
    BY <1>3, <2>1, <2>2, <2>4 DEF Settled
  <2> QED
    BY <2>3, <2>4
<1> QED
  BY <1>1, <1>2, <1>3

LEMMA EnvdirStarts ==
  ASSUME NEW dir \in Directories, NEW parent \in Environ, EnvdirStart(dir, parent)
  PROVE  EnvdirInv
BY DEF EnvdirStart, EnvdirInv

LEMMA DirectoryRead ==
  ASSUME EnvdirInv, ListingFails \/ ReadFails \/ ReadDir
  PROVE  EnvdirInv'
<1>1. CASE ListingFails \/ ReadFails
  BY <1>1 DEF ListingFails, ReadFails, EnvdirInv, Variables
<1>2. CASE ReadDir
  <2>1. /\ UNCHANGED <<directory, currentEnv>> /\ Variables' = Variables
        /\ envdir' = "range" /\ unranged' = Variables /\ newEnv' = currentEnv
    BY <1>2 DEF ReadDir, Variables
  <2>2. MapRead'
    BY <1>2, <2>1 DEF ReadDir, MapRead
  <2>3. newEnv' \in Seq(Assignment) /\ NoNameTwice(newEnv')
    BY <2>1 DEF EnvdirInv, Environ, Assignment
  <2>4. Foreign(newEnv)' = Foreign(currentEnv)'
    BY <2>1 DEF Foreign
  <2> QED
    BY <2>1, <2>2, <2>3, <2>4 DEF EnvdirInv
<1> QED
  BY <1>1, <1>2

LEMMA MapRanged ==
  ASSUME EnvdirInv, NEW n \in unranged, RangeOver(n)
  PROVE  EnvdirInv'
<1>1. /\ envdir = "range" /\ UNCHANGED <<directory, currentEnv, env>>
      /\ unranged' = unranged \ {n}
  BY DEF RangeOver
<1>2. /\ MapRead /\ unranged \subseteq Variables /\ n \in Variables
      /\ newEnv \in Seq(Assignment) /\ NoNameTwice(newEnv)
      /\ Foreign(newEnv) = Foreign(currentEnv)
      /\ \A m \in Variables \ unranged : Settled(m)
      /\ directory \in Directories /\ currentEnv \in Environ
  BY <1>1 DEF EnvdirInv
<1>3. Variables' = Variables /\ MapRead' /\ Foreign(currentEnv)' = Foreign(currentEnv)
  BY <1>1, <1>2 DEF Variables, MapRead, Foreign
<1>4. /\ env[n].NeedRemove <=> SizeIsZero(directory[n])
      /\ env[n].Value = processFirstLine(directory[n].bytes)
  BY <1>2 DEF MapRead
<1>5. CASE /\ env[n].NeedRemove /\ UNCHANGED newEnv
           /\ removing' = n /\ index' = 1 /\ envdir' = "remove"
  <2>1. \A m : Settled(m)' <=> Settled(m)
    BY <1>1, <1>5 DEF Settled
  <2>2. Foreign(newEnv)' = Foreign(newEnv)
    BY <1>1, <1>5, <1>3 DEF Foreign
  <2>3. RemovingOne'
    <3>1. DOMAIN newEnv \subseteq Nat \ {0}
      BY <1>2, LenProperties
    <3> QED
      BY <1>1, <1>2, <1>3, <1>4, <1>5, <3>1 DEF RemovingOne
  <2> QED
    BY <1>1, <1>2, <1>3, <1>5, <2>1, <2>2, <2>3 DEF EnvdirInv
<1>6. CASE /\ ~env[n].NeedRemove /\ newEnv' = With(newEnv, n, env[n].Value)
           /\ UNCHANGED <<removing, index, envdir>>
  <2> DEFINE value == processFirstLine(directory[n].bytes)
  <2>1. n \in STRING /\ value \in Seq(FileBytes)
    BY <1>2, VariableFacts, ValueRight
  <2>2. newEnv' = With(newEnv, n, value)
    BY <1>4, <1>6
  <2> HIDE DEF value
  <2>3. /\ newEnv' \in Seq(Assignment) /\ NoNameTwice(newEnv')
        /\ \E k \in DOMAIN newEnv' : newEnv'[k].name = n /\ newEnv'[k].value = value
        /\ \A v : v.name # n => (v \in ToSet(newEnv') <=> v \in ToSet(newEnv))
    <3> DEFINE slice == With(newEnv, n, value)
    <3>1. /\ slice \in Seq(Assignment) /\ NoNameTwice(slice)
          /\ \E k \in DOMAIN slice : slice[k].name = n /\ slice[k].value = value
          /\ \A v : v.name # n => (v \in ToSet(slice) <=> v \in ToSet(newEnv))
      BY <1>2, <2>1, SetEntry
    <3> HIDE DEF slice
    <3>2. newEnv' = slice
      BY <2>2 DEF slice
    <3> QED
      BY <3>1, <3>2
  <2>4. Foreign(newEnv)' = Foreign(newEnv) /\ \A m : m # n /\ Settled(m) => Settled(m)'
    BY <1>1, <1>2, <2>3, OtherName
  <2>5. Settled(n)'
    <3>1. \E v \in ToSet(newEnv') : v.name = n /\ v.value = value
      BY <2>3 DEF ToSet
    <3>2. ~SizeIsZero(directory'[n])
      BY <1>1, <1>4, <1>6
    <3> QED
      BY <1>1, <3>1, <3>2 DEF Settled, value
  <2>6. \A m \in Variables \ unranged' : Settled(m)'
    BY <1>1, <1>2, <2>4, <2>5
  <2> QED
    BY <1>1, <1>2, <1>3, <1>6, <2>3, <2>4, <2>6 DEF EnvdirInv
<1> QED
  BY <1>5, <1>6 DEF RangeOver

LEMMA EntryPassed == ASSUME EnvdirInv, RemoveAtIndex PROVE EnvdirInv'
<1>1. /\ envdir = "remove" /\ envdir' = "remove" /\ index <= Len(newEnv)
      /\ index' = index + 1
      /\ UNCHANGED <<directory, currentEnv, env, unranged, removing>>
  BY DEF RemoveAtIndex
<1>2. /\ MapRead /\ unranged \subseteq Variables /\ removing \in Variables \ unranged
      /\ newEnv \in Seq(Assignment) /\ NoNameTwice(newEnv)
      /\ Foreign(newEnv) = Foreign(currentEnv)
      /\ \A m \in Variables \ unranged : m # removing => Settled(m)
      /\ directory \in Directories /\ currentEnv \in Environ
      /\ SizeIsZero(directory[removing]) /\ index \in Nat \ {0}
      /\ \A i \in DOMAIN newEnv : i < index => newEnv[i].name # removing
  BY <1>1 DEF EnvdirInv, RemovingOne
<1>3. Variables' = Variables /\ MapRead' /\ Foreign(currentEnv)' = Foreign(currentEnv)
  BY <1>1, <1>2 DEF Variables, MapRead, Foreign
<1>4. index \in 1 .. Len(newEnv) /\ DOMAIN newEnv = 1 .. Len(newEnv)
      /\ Len(newEnv) \in Nat /\ index + 1 \in Nat \ {0}
  BY <1>1, <1>2, LenProperties
<1>5. /\ newEnv' \in Seq(Assignment) /\ NoNameTwice(newEnv')
      /\ \A i \in DOMAIN newEnv' : i < index + 1 => newEnv'[i].name # removing
      /\ \A v : v.name # removing => (v \in ToSet(newEnv') <=> v \in ToSet(newEnv))
  <2>1. CASE newEnv[index].name = removing
    <3>1. newEnv' = RemoveAt(newEnv, index)
      BY <2>1 DEF RemoveAtIndex
    <3> QED
      BY <1>2, <1>4, <2>1, <3>1, RemovedEntry
  <2>2. CASE newEnv[index].name # removing
    <3>1. newEnv' = newEnv
      BY <2>2 DEF RemoveAtIndex
    <3>2. \A i \in 1 .. Len(newEnv) : i < index + 1 => i < index \/ i = index
      BY <1>2, <1>4
    <3> QED
      BY <1>2, <1>4, <2>2, <3>1, <3>2
  <2> QED
    BY <2>1, <2>2
<1>6. /\ Foreign(newEnv)' = Foreign(newEnv)
      /\ \A m : m # removing /\ Settled(m) => Settled(m)'
  BY <1>1, <1>2, <1>5, OtherName
<1>7. RemovingOne'
  BY <1>1, <1>2, <1>3, <1>4, <1>5 DEF RemovingOne
<1> QED
  BY <1>1, <1>2, <1>3, <1>5, <1>6, <1>7 DEF EnvdirInv

LEMMA RangeGoesOn == ASSUME EnvdirInv, EndOfSlice \/ StartCommand PROVE EnvdirInv'
<1>1. /\ UNCHANGED <<directory, currentEnv, env, unranged, newEnv, removing, index>>
      /\ envdir \in {"range", "remove"} /\ envdir' \in {"range", "run"}
      /\ envdir' = "run" => unranged = {}
  BY DEF EndOfSlice, StartCommand
<1>2. /\ \A m : Settled(m)' <=> Settled(m)
      /\ Variables' = Variables /\ Foreign(newEnv)' = Foreign(newEnv)
      /\ Foreign(currentEnv)' = Foreign(currentEnv) /\ (MapRead' <=> MapRead)
  BY <1>1 DEF Settled, Variables, Foreign, MapRead
<1>3. ASSUME NEW m \in Variables \ unranged
      PROVE  Settled(m)
  <2>1. CASE envdir # "remove" \/ m # removing
    BY <1>1, <2>1 DEF EnvdirInv
  <2>2. CASE envdir = "remove" /\ m = removing
    <3>1. /\ index > Len(newEnv) /\ newEnv \in Seq(Assignment) /\ index \in Nat
          /\ SizeIsZero(directory[m])
          /\ \A i \in DOMAIN newEnv : i < index => newEnv[i].name # m
      BY <2>2 DEF EndOfSlice, StartCommand, EnvdirInv, RemovingOne
    <3>2. \A i \in DOMAIN newEnv : i < index
      BY <3>1, LenProperties
    <3> QED
      BY <3>1, <3>2 DEF Settled, ToSet
  <2> QED
    BY <2>1, <2>2
<1> QED
  BY <1>1, <1>2, <1>3 DEF EnvdirInv

LEMMA EnvdirRight == EnvdirInv => EnvdirIsRight
<1> SUFFICES ASSUME EnvdirInv, envdir = "run"
             PROVE  /\ \A n \in Variables : ~Fails(directory[n])
                    /\ NoNameTwice(newEnv)
                    /\ \A n \in Variables :
                         IF SizeIsZero(directory[n])
                         THEN \A i \in DOMAIN newEnv : newEnv[i].name # n
                         ELSE \E i \in DOMAIN newEnv :
                                /\ newEnv[i].name = n
                                /\ IsValue(newEnv[i].value, directory[n].bytes)
                    /\ Foreign(newEnv) = Foreign(currentEnv)
  BY DEF EnvdirInv, EnvdirIsRight, Foreign
<1>1. ASSUME NEW n \in Variables
      PROVE  IF SizeIsZero(directory[n])
             THEN \A i \in DOMAIN newEnv : newEnv[i].name # n
             ELSE \E i \in DOMAIN newEnv :
                    /\ newEnv[i].name = n
                    /\ IsValue(newEnv[i].value, directory[n].bytes)
  <2>1. Settled(n)
    BY DEF EnvdirInv
  <2>2. IsValue(processFirstLine(directory[n].bytes), directory[n].bytes)
    BY VariableFacts, ValueRight DEF EnvdirInv
  <2> QED
    BY <2>1, <2>2 DEF Settled, ToSet
<1> QED
  BY <1>1 DEF EnvdirInv, MapRead

\* In whatever order the map is ranged over, the command sees each variable of
\* the directory as its file says, none whose file is empty, the others as the
\* parent has them, and no name twice; it is not run exactly when the directory
\* cannot be listed or one of its files has no size or cannot be read
\* (env_reader.go, executor.go).
THEOREM EnvdirCorrect == EnvdirSpec => []EnvdirIsRight
<1>1. (\E dir \in Directories, parent \in Environ : EnvdirStart(dir, parent))
        => EnvdirInv
  BY EnvdirStarts
<1>2. EnvdirInv /\ UNCHANGED envdirVars => EnvdirInv'
  BY DEF envdirVars, EnvdirInv, MapRead, RemovingOne, Settled, Foreign, Variables
<1>3. EnvdirInv /\ [EnvdirNext]_envdirVars => EnvdirInv'
  BY <1>2, DirectoryRead, MapRanged, EntryPassed, RangeGoesOn DEF EnvdirNext
<1> QED
  BY <1>1, <1>3, EnvdirRight, PTL DEF EnvdirSpec

----------------------------------------------------------------------------
(***************************************************************************)
(* Frequency analysis.  The map counts what the words scanned so far count *)
(* for (Tallied); the order of the words is total and strict, so that a    *)
(* sorted arrangement has each word behind exactly those ahead of it.      *)
(***************************************************************************)

\* The places up to counted whose word counts for w.
PlacesOf(w) == {i \in 1 .. counted : Counted(text[i]) = w}

Tallied ==
  /\ IsFiniteSet(DOMAIN freq)
  /\ \A w : w \in DOMAIN freq <=> w # <<>> /\ PlacesOf(w) # {}
  /\ \A w \in DOMAIN freq : freq[w] = Cardinality(PlacesOf(w))

TopInv ==
  /\ text \in Seq(Words) /\ clean \in BOOLEAN
  /\ counted \in Nat /\ counted <= Len(text)
  /\ analyst = "count" => Tallied
  /\ TopIsRight

----------------------------------------------------------------------------
(* The order of words *)

\* The place from which on the order of two words is decided.
LEMMA PrecedesAt ==
  ASSUME NEW v \in Seq(Nat), NEW w \in Seq(Nat)
  PROVE  Precedes(v, w) <=>
           \E k \in Nat :
             /\ k <= Len(v) /\ k < Len(w)
             /\ \A i \in 1 .. k : v[i] = w[i]
             /\ k = Len(v) \/ v[k + 1] < w[k + 1]
<1>1. Len(v) \in Nat /\ Len(w) \in Nat
  BY LenProperties
<1>2. ASSUME NEW k \in Nat, k <= Len(v), k <= Len(w)
      PROVE  SubSeq(v, 1, k) = SubSeq(w, 1, k) <=> \A i \in 1 .. k : v[i] = w[i]
  <2>1. /\ SubSeq(v, 1, k) \in Seq(Nat) /\ Len(SubSeq(v, 1, k)) = k
        /\ \A i \in 1 .. k : SubSeq(v, 1, k)[i] = v[i]
    BY <1>2, Beginning
  <2>2. /\ SubSeq(w, 1, k) \in Seq(Nat) /\ Len(SubSeq(w, 1, k)) = k
        /\ \A i \in 1 .. k : SubSeq(w, 1, k)[i] = w[i]
    BY <1>2, Beginning
  <2>3. ASSUME \A i \in 1 .. k : v[i] = w[i]
        PROVE  SubSeq(v, 1, k) = SubSeq(w, 1, k)
    <3>1. \A i \in 1 .. k : SubSeq(v, 1, k)[i] = SubSeq(w, 1, k)[i]
      BY <2>1, <2>2, <2>3
    <3> QED
      BY <2>1, <2>2, <3>1, SeqEqual
  <2>4. ASSUME SubSeq(v, 1, k) = SubSeq(w, 1, k), NEW i \in 1 .. k
        PROVE  v[i] = w[i]
    BY <2>1, <2>2, <2>4
  <2> QED
    BY <2>3, <2>4
<1>3. ASSUME Precedes(v, w)
      PROVE  \E k \in Nat :
               /\ k <= Len(v) /\ k < Len(w)
               /\ \A i \in 1 .. k : v[i] = w[i]
               /\ k = Len(v) \/ v[k + 1] < w[k + 1]
  <2>1. PICK k \in 0 .. Len(v) :
          /\ k <= Len(w) /\ SubSeq(v, 1, k) = SubSeq(w, 1, k)
          /\ \/ k = Len(v) /\ k < Len(w)
             \/ k < Len(v) /\ k < Len(w) /\ v[k + 1] < w[k + 1]
    BY <1>3 DEF Precedes
  <2>2. k \in Nat /\ k <= Len(v) /\ k <= Len(w) /\ k < Len(w)
    BY <1>1, <2>1
  <2>3. \A i \in 1 .. k : v[i] = w[i]
    BY <1>2, <2>1, <2>2
  <2> QED
    BY <2>1, <2>2, <2>3
<1>4. ASSUME NEW k \in Nat, k <= Len(v), k < Len(w),
             \A i \in 1 .. k : v[i] = w[i],
             k = Len(v) \/ v[k + 1] < w[k + 1]
      PROVE  Precedes(v, w)
  <2>1. k \in 0 .. Len(v) /\ k <= Len(w)
    BY <1>1, <1>4
  <2>2. SubSeq(v, 1, k) = SubSeq(w, 1, k)
    BY <1>2, <1>4, <2>1
  <2>3. k = Len(v) \/ k < Len(v)
    BY <1>1, <1>4
  <2> QED
    BY <1>4, <2>1, <2>2, <2>3 DEF Precedes
<1> QED
  BY <1>3, <1>4

\* Of two words one precedes the other.
LEMMA PrecedesTotal ==
  ASSUME NEW v \in Seq(Nat), NEW w \in Seq(Nat), v # w
  PROVE  Precedes(v, w) \/ Precedes(w, v)
<1> DEFINE differ == {i \in 1 .. Len(v) : i <= Len(w) /\ v[i] # w[i]}
<1>1. Len(v) \in Nat /\ Len(w) \in Nat
  BY LenProperties
<1>2. CASE differ = {}
  <2>1. \A i \in 1 .. Len(v) : i <= Len(w) => v[i] = w[i]
    BY <1>2
  <2>2. Len(v) # Len(w)
    <3>1. SUFFICES ASSUME Len(v) = Len(w) PROVE FALSE
      OBVIOUS
    <3>2. \A i \in 1 .. Len(v) : i <= Len(w)
      BY <1>1, <3>1
    <3> QED
      BY <2>1, <3>1, <3>2, SeqEqual
  <2>3. CASE Len(v) < Len(w)
    <3>1. \A i \in 1 .. Len(v) : i <= Len(w)
      BY <1>1, <2>3
    <3>2. Len(v) \in Nat /\ Len(v) <= Len(v)
      BY <1>1
    <3> QED
      BY <2>1, <2>3, <3>1, <3>2, PrecedesAt
  <2>4. CASE Len(w) < Len(v)
    <3>1. \A i \in 1 .. Len(w) : i \in 1 .. Len(v) /\ i <= Len(w)
      BY <1>1, <2>4
    <3>2. Len(w) \in Nat /\ Len(w) <= Len(w)
      BY <1>1
    <3> QED
      BY <2>1, <2>4, <3>1, <3>2, PrecedesAt
  <2> QED
    BY <1>1, <2>2, <2>3, <2>4
<1>3. CASE differ # {}
  <2>1. differ \subseteq Nat
    OBVIOUS
  <2>2. PICK d \in differ : \A i \in differ : d <= i
    <3> HIDE DEF differ
    <3> QED
      BY <1>3, <2>1, LeastOf
  <2>3. d \in Nat /\ d - 1 \in Nat /\ d <= Len(v) /\ d <= Len(w) /\ v[d] # w[d]
        /\ (d - 1) + 1 = d /\ d \in 1 .. Len(v) /\ d \in 1 .. Len(w)
    BY <1>1
  <2>4. ASSUME NEW i \in 1 .. d - 1 PROVE v[i] = w[i]
    <3>1. i \in 1 .. Len(v) /\ i <= Len(w) /\ ~(d <= i)
      BY <1>1, <2>3
    <3> QED
      BY <2>2, <3>1
  <2>5. v[d] \in Nat /\ w[d] \in Nat
    BY <2>3, ElementOfSeq
  <2>6. /\ d - 1 <= Len(v) /\ d - 1 < Len(w) /\ d - 1 <= Len(w) /\ d - 1 < Len(v)
        /\ v[d] < w[d] \/ w[d] < v[d]
    BY <1>1, <2>3, <2>5
  <2>7. v[(d - 1) + 1] = v[d] /\ w[(d - 1) + 1] = w[d]
    BY <2>3
  <2>8. \A i \in 1 .. d - 1 : w[i] = v[i]
    BY <2>4
  <2>9. CASE v[d] < w[d]
    BY <2>3, <2>4, <2>6, <2>7, <2>9, PrecedesAt
  <2>10. CASE w[d] < v[d]
    BY <2>3, <2>8, <2>6, <2>7, <2>10, PrecedesAt
  <2> QED
    BY <2>6, <2>9, <2>10
<1> QED
  BY <1>2, <1>3

\* And not the other one.
LEMMA PrecedesStrict ==
  ASSUME NEW v \in Seq(Nat), NEW w \in Seq(Nat), Precedes(v, w)
  PROVE  ~Precedes(w, v)
<1> SUFFICES ASSUME Precedes(w, v) PROVE FALSE
  OBVIOUS
<1>1. Len(v) \in Nat /\ Len(w) \in Nat
  BY LenProperties
<1>2. PICK k \in Nat :
        /\ k <= Len(v) /\ k < Len(w)
        /\ \A i \in 1 .. k : v[i] = w[i]
        /\ k = Len(v) \/ v[k + 1] < w[k + 1]
  BY PrecedesAt
<1>3. PICK m \in Nat :
        /\ m <= Len(w) /\ m < Len(v)
        /\ \A i \in 1 .. m : w[i] = v[i]
        /\ m = Len(w) \/ w[m + 1] < v[m + 1]
  BY PrecedesAt
<1>4. CASE k < m
  <2>1. k + 1 \in 1 .. m /\ k # Len(v) /\ k + 1 \in 1 .. Len(v)
    BY <1>1, <1>3, <1>4
  <2>2. v[k + 1] = w[k + 1] /\ v[k + 1] \in Nat
    BY <1>3, <2>1, ElementOfSeq
  <2> QED
    BY <1>2, <2>1, <2>2
<1>5. CASE m < k
  <2>1. m + 1 \in 1 .. k /\ m # Len(w) /\ m + 1 \in 1 .. Len(v)
    BY <1>1, <1>2, <1>5
  <2>2. v[m + 1] = w[m + 1] /\ v[m + 1] \in Nat
    BY <1>2, <2>1, ElementOfSeq
  <2> QED
    BY <1>3, <2>1, <2>2
<1>6. CASE k = m
  <2>1. k # Len(v) /\ k # Len(w) /\ k + 1 \in 1 .. Len(v) /\ k + 1 \in 1 .. Len(w)
    BY <1>1, <1>2, <1>3, <1>6
  <2>2. v[k + 1] < w[k + 1] /\ w[k + 1] < v[k + 1]
    BY <1>2, <1>3, <1>6, <2>1
  <2>3. v[k + 1] \in Nat /\ w[k + 1] \in Nat
    BY <2>1, ElementOfSeq
  <2> QED
    BY <2>2, <2>3
<1> QED
  BY <1>4, <1>5, <1>6

\* Ahead of one that is ahead is ahead.
LEMMA PrecedesOn ==
  ASSUME NEW u \in Seq(Nat), NEW v \in Seq(Nat), NEW w \in Seq(Nat),
         Precedes(u, v), Precedes(v, w)
  PROVE  Precedes(u, w)
<1>1. Len(u) \in Nat /\ Len(v) \in Nat /\ Len(w) \in Nat
  BY LenProperties
<1>2. PICK k \in Nat :
        /\ k <= Len(u) /\ k < Len(v)
        /\ \A i \in 1 .. k : u[i] = v[i]
        /\ k = Len(u) \/ u[k + 1] < v[k + 1]
  BY PrecedesAt
<1>3. PICK m \in Nat :
        /\ m <= Len(v) /\ m < Len(w)
        /\ \A i \in 1 .. m : v[i] = w[i]
        /\ m = Len(v) \/ v[m + 1] < w[m + 1]
  BY PrecedesAt
<1>4. CASE k < m
  <2>1. k + 1 \in 1 .. m /\ k < Len(w) /\ \A i \in 1 .. k : i \in 1 .. m
    BY <1>1, <1>3, <1>4
  <2>2. /\ v[k + 1] = w[k + 1] /\ \A i \in 1 .. k : u[i] = w[i]
    BY <1>2, <1>3, <2>1
  <2>3. k = Len(u) \/ u[k + 1] < w[k + 1]
    BY <1>2, <2>2
  <2> QED
    BY <1>2, <2>1, <2>2, <2>3, PrecedesAt
<1>5. CASE m < k
  <2>1. /\ m + 1 \in 1 .. k /\ m <= Len(u) /\ m # Len(v)
        /\ \A i \in 1 .. m : i \in 1 .. k
    BY <1>1, <1>2, <1>5
  <2>2. u[m + 1] = v[m + 1] /\ \A i \in 1 .. m : u[i] = w[i]
    BY <1>2, <1>3, <2>1
  <2>3. u[m + 1] < w[m + 1]
    BY <1>3, <2>1, <2>2
  <2> QED
    BY <1>3, <2>1, <2>2, <2>3, PrecedesAt
<1>6. CASE k = m
  <2>1. /\ k # Len(v) /\ k + 1 \in 1 .. Len(v) /\ k + 1 \in 1 .. Len(w)
        /\ k # Len(u) => k + 1 \in 1 .. Len(u)
    BY <1>1, <1>2, <1>3, <1>6
  <2>2. v[k + 1] < w[k + 1] /\ v[k + 1] \in Nat /\ w[k + 1] \in Nat
    BY <1>3, <1>6, <2>1, ElementOfSeq
  <2>3. k = Len(u) \/ u[k + 1] < w[k + 1]
    <3> SUFFICES ASSUME k # Len(u) PROVE u[k + 1] < w[k + 1]
      OBVIOUS
    <3>1. u[k + 1] < v[k + 1] /\ u[k + 1] \in Nat
      BY <1>2, <2>1, ElementOfSeq
    <3> QED
      BY <2>2, <3>1
  <2>4. \A i \in 1 .. k : u[i] = w[i]
    BY <1>2, <1>3, <1>6
  <2> QED
    BY <1>2, <1>3, <1>6, <2>3, <2>4, PrecedesAt
<1> QED
  BY <1>4, <1>5, <1>6

----------------------------------------------------------------------------
(* The word that a word counts for *)

\* A word begins and ends somewhere with a letter or number, or has none.
LEMMA CoreOf ==
  ASSUME NEW word \in Words, \E i \in DOMAIN word : IsLetterOrNumber(word[i])
  PROVE  \E f, l \in DOMAIN word :
           /\ Core(word, f, l) /\ f <= l
           /\ cleanWord(word) = SubSeq(word, f, l)
           /\ \A i, j \in DOMAIN word : Core(word, i, j) => i = f /\ j = l
<1> DEFINE kept == {i \in DOMAIN word : IsLetterOrNumber(word[i])}
           f == CHOOSE i \in kept : \A j \in kept : i <= j
           l == CHOOSE i \in kept : \A j \in kept : j <= i
<1>1. DOMAIN word = 1 .. Len(word) /\ Len(word) \in Nat
  BY LenProperties DEF Words
<1>2. kept \subseteq 0 .. Len(word) /\ kept \subseteq Nat /\ kept # {}
  BY <1>1
<1>3. f \in kept /\ \A j \in kept : f <= j
  <2> HIDE DEF kept
  <2> QED
    BY <1>2, LeastOf
<1>4. l \in kept /\ \A j \in kept : j <= l
  <2> HIDE DEF kept
  <2> QED
    BY <1>1, <1>2, GreatestOf
<1>5. cleanWord(word) = SubSeq(word, f, l)
  BY <1>2 DEF cleanWord
<1> HIDE DEF f, l
<1>6. /\ f \in DOMAIN word /\ l \in DOMAIN word /\ f <= l
      /\ IsLetterOrNumber(word[f]) /\ IsLetterOrNumber(word[l])
      /\ f \in Nat /\ l \in Nat
  BY <1>1, <1>3, <1>4
<1>7. Core(word, f, l)
  <2>1. ASSUME NEW k \in DOMAIN word, k < f \/ k > l
        PROVE  k \notin kept
    <3>1. k \in Nat /\ (~(f <= k) \/ ~(k <= l))
      BY <1>1, <1>6, <2>1
    <3> HIDE DEF kept
    <3> QED
      BY <1>3, <1>4, <3>1
  <2> QED
    BY <1>6, <2>1 DEF Core
<1>8. ASSUME NEW i \in DOMAIN word, NEW j \in DOMAIN word, Core(word, i, j)
      PROVE  i = f /\ j = l
  <2>1. i \in kept /\ j \in kept /\ i \in Nat /\ j \in Nat
    BY <1>1, <1>8 DEF Core
  <2>2. f <= i /\ j <= l
    <3> HIDE DEF kept
    <3> QED
      BY <1>3, <1>4, <2>1
  <2>3. ~(f < i) /\ ~(l > j)
    BY <1>6, <1>8 DEF Core
  <2> QED
    BY <1>6, <2>1, <2>2, <2>3
<1> QED
  BY <1>5, <1>6, <1>7, <1>8, ZenonT(30)

\* A part of a word is a word, and so is its lower case.
LEMMA PartOfWord ==
  ASSUME NEW word \in Words, NEW i \in DOMAIN word, NEW j \in DOMAIN word, i <= j
  PROVE  /\ SubSeq(word, i, j) \in Words /\ ToLower(SubSeq(word, i, j)) \in Words
<1>1. word \in Seq(Nat) /\ DOMAIN word = 1 .. Len(word) /\ Len(word) \in Nat
  BY LenProperties DEF Words
<1>2. i \in Nat \ {0} /\ j \in Int /\ j <= Len(word) /\ j - i + 1 \in Nat \ {0}
  BY <1>1
<1> DEFINE p == SubSeq(word, i, j)
<1>3. p \in Seq(Nat) /\ Len(p) = j - i + 1
  BY <1>1, <1>2, Part
<1> HIDE DEF p
<1>4. p # <<>> /\ p \in [1 .. Len(p) -> Nat] /\ DOMAIN p = 1 .. Len(p) /\ Len(p) \in Nat
  BY <1>2, <1>3, LenProperties, EmptySeq
<1>5. ToLower(p) \in Seq(Nat) /\ Len(ToLower(p)) = Len(p)
  BY <1>4 DEF ToLower
<1>6. ToLower(p) # <<>>
  BY <1>2, <1>3, <1>5
<1> QED
  BY <1>3, <1>4, <1>5, <1>6 DEF p, Words

\* What the code counts is what counts.
LEMMA CountedRight ==
  ASSUME NEW word \in Words, clean \in BOOLEAN, NEW w
  PROVE  CountsAs(word, w) <=> w # <<>> /\ Counted(word) = w
<1>1. /\ word \in Seq(Nat) /\ word # <<>> /\ DOMAIN word = 1 .. Len(word)
      /\ Len(word) \in Nat \ {0} /\ word \in [1 .. Len(word) -> Nat]
  BY LenProperties, EmptySeq DEF Words
<1>2. CASE ~clean
  BY <1>1, <1>2 DEF CountsAs, Counted
<1>3. CASE clean /\ \E i \in DOMAIN word : IsLetterOrNumber(word[i])
  <2>1. PICK f \in DOMAIN word, l \in DOMAIN word :
          /\ Core(word, f, l) /\ f <= l
          /\ cleanWord(word) = SubSeq(word, f, l)
          /\ \A i, j \in DOMAIN word : Core(word, i, j) => i = f /\ j = l
    BY <1>3, CoreOf
  <2>2. ToLower(SubSeq(word, f, l)) # <<>>
    BY <2>1, PartOfWord DEF Words
  <2>3. ToSet(word) # {0}
    BY <1>3 DEF ToSet, IsLetterOrNumber
  <2>4. CountsAs(word, w) <=> w = ToLower(SubSeq(word, f, l))
    BY <1>3, <2>1, <2>3 DEF CountsAs
  <2>5. Counted(word) = ToLower(SubSeq(word, f, l))
    BY <1>3, <2>1 DEF Counted
  <2> QED
    BY <2>2, <2>4, <2>5
<1>4. CASE clean /\ ~\E i \in DOMAIN word : IsLetterOrNumber(word[i])
  <2>1. \A i \in DOMAIN word : word[i] = 0
    BY <1>1, <1>4 DEF IsLetterOrNumber
  <2>2. ToSet(word) = {0}
    <3>1. 1 \in DOMAIN word
      BY <1>1
    <3> QED
      BY <2>1, <3>1 DEF ToSet
  <2>3. ~\E i, j \in DOMAIN word : Core(word, i, j)
    BY <1>4 DEF Core
  <2>4. cleanWord(word) = IF Len(word) = 1 THEN <<>> ELSE word
    BY <1>4 DEF cleanWord
  <2>5. ToLower(word) = word
    <3>1. ToLower(word) = [i \in 1 .. Len(word) |-> word[i]]
      BY <1>1, <2>1 DEF ToLower
    <3> QED
      BY <1>1, <3>1
  <2>6. ToLower(<<>>) = <<>>
    BY DEF ToLower
  <2>7. CountsAs(word, w) <=> Len(word) > 1 /\ w = word
    BY <1>4, <2>2, <2>3 DEF CountsAs
  <2>8. Counted(word) = IF Len(word) = 1 THEN <<>> ELSE word
    BY <1>4, <2>4, <2>5, <2>6 DEF Counted
  <2>9. Len(word) > 1 <=> Len(word) # 1
    BY <1>1
  <2> QED
    BY <1>1, <2>7, <2>8, <2>9
<1> QED
  BY <1>2, <1>3, <1>4

\* A word counts for a word that is one of the candidates.
LEMMA CandidateCounts ==
  ASSUME text \in Seq(Words), clean \in BOOLEAN,
         NEW n \in DOMAIN text, NEW w, CountsAs(text[n], w)
  PROVE  w \in Candidates /\ w \in Words
<1> DEFINE word == text[n]
           From(v, i) == {SubSeq(v, i, j) : j \in DOMAIN v}
           Parts(v) == UNION {From(v, i) : i \in DOMAIN v}
           parts == UNION {Parts(text[k]) : k \in DOMAIN text}
<1>1. word \in Words
  BY LenProperties, ElementOfSeq
<1>2. /\ word \in Seq(Nat) /\ DOMAIN word = 1 .. Len(word) /\ Len(word) \in Nat \ {0}
  BY <1>1, LenProperties, EmptySeq DEF Words
<1>3. ASSUME NEW i \in DOMAIN word, NEW j \in DOMAIN word
      PROVE  SubSeq(word, i, j) \in parts
  <2>1. SubSeq(word, i, j) \in From(word, i)
    OBVIOUS
  <2>2. From(word, i) \in {From(word, k) : k \in DOMAIN word}
    OBVIOUS
  <2>3. Parts(word) \in {Parts(text[k]) : k \in DOMAIN text}
    OBVIOUS
  <2> HIDE DEF From
  <2>4. SubSeq(word, i, j) \in Parts(word)
    BY <2>1, <2>2
  <2> HIDE DEF Parts
  <2> QED
    BY <2>3, <2>4
<1>4. word = SubSeq(word, 1, Len(word)) /\ 1 \in DOMAIN word /\ Len(word) \in DOMAIN word
  BY <1>2, SubSeqFull
<1>5. word \in parts
  <2> HIDE DEF parts, word
  <2> QED
    BY <1>3, <1>4
<1>6. Candidates = parts \cup {ToLower(p) : p \in parts}
  BY DEF Candidates
<1> HIDE DEF parts
<1>7. CASE ~clean
  BY <1>1, <1>5, <1>6, <1>7 DEF CountsAs
<1>8. CASE clean /\ Len(word) > 1 /\ ToSet(word) = {0} /\ w = word
  BY <1>1, <1>5, <1>6, <1>8
<1>9. CASE clean /\ \E i, j \in DOMAIN word : Core(word, i, j) /\ w = ToLower(SubSeq(word, i, j))
  <2>1. PICK i \in DOMAIN word, j \in DOMAIN word :
          Core(word, i, j) /\ w = ToLower(SubSeq(word, i, j))
    BY <1>9
  <2>2. w \in Candidates
    BY <1>3, <1>6, <2>1
  <2>3. i <= j
    BY <1>2, <2>1 DEF Core
  <2> QED
    BY <1>1, <2>1, <2>2, <2>3, PartOfWord
<1> QED
  BY <1>7, <1>8, <1>9 DEF CountsAs

----------------------------------------------------------------------------
(* The invariant *)

LEMMA TopStarts ==
  ASSUME NEW t \in Seq(Words), NEW c \in BOOLEAN, TopStart(t, c)
  PROVE  TopInv
<1>1. /\ text \in Seq(Words) /\ clean \in BOOLEAN /\ counted = 0
      /\ DOMAIN freq = {} /\ analyst = "count" /\ Len(text) \in Nat
  BY LenProperties DEF TopStart
<1>2. \A w : PlacesOf(w) = {}
  BY <1>1 DEF PlacesOf
<1>3. Tallied
  BY <1>1, <1>2, FS_EmptySet DEF Tallied
<1> QED
  BY <1>1, <1>3 DEF TopInv, TopIsRight

LEMMA WordCounted == ASSUME TopInv, CountWord PROVE TopInv'
<1> DEFINE word == Counted(text[counted + 1])
<1>1. /\ analyst = "count" /\ counted < Len(text) /\ counted' = counted + 1
      /\ UNCHANGED <<text, clean, top, analyst>>
      /\ freq' = IF word = <<>> THEN freq
                 ELSE [w \in DOMAIN freq \cup {word} |->
                         (IF w \in DOMAIN freq THEN freq[w] ELSE 0)
                           + (IF w = word THEN 1 ELSE 0)]
  BY DEF CountWord
<1>2. text \in Seq(Words) /\ clean \in BOOLEAN /\ counted \in Nat /\ Len(text) \in Nat
      /\ Tallied
  BY <1>1, LenProperties DEF TopInv
<1>3. \A i : Counted(text[i])' = Counted(text[i])
  BY <1>1 DEF Counted
<1> HIDE DEF word
<1>4. ASSUME NEW w
      PROVE  /\ Cardinality(PlacesOf(w)) \in Nat
             /\ Cardinality(PlacesOf(w)') = Cardinality(PlacesOf(w))
                                              + (IF w = word THEN 1 ELSE 0)
             /\ PlacesOf(w)' # {} <=> PlacesOf(w) # {} \/ w = word
  <2> DEFINE P == {i \in 1 .. counted + 1 : Counted(text[i]) = w}
  <2>1. PlacesOf(w)' = P
    BY <1>1, <1>3 DEF PlacesOf
  <2>2. P \cap 1 .. counted = PlacesOf(w)
    <3>1. \A i \in 1 .. counted : i \in 1 .. counted + 1
      BY <1>2
    <3> QED
      BY <3>1 DEF PlacesOf
  <2>3. counted + 1 \in P <=> w = word
    BY <1>2 DEF word
  <2>4. \A i \in P : i \in 1 .. counted \/ i = counted + 1
    BY <1>2
  <2>5. P \subseteq 1 .. counted + 1
    OBVIOUS
  <2> HIDE DEF P
  <2>6. /\ Cardinality(P \cap 1 .. counted) \in Nat
        /\ Cardinality(P) = Cardinality(P \cap 1 .. counted)
                              + (IF counted + 1 \in P THEN 1 ELSE 0)
    BY <1>2, <2>5, CountsOn
  <2>7. P # {} <=> PlacesOf(w) # {} \/ w = word
    BY <2>2, <2>3, <2>4
  <2> QED
    BY <2>1, <2>2, <2>3, <2>6, <2>7
<1>5. CASE word = <<>>
  <2>1. freq' = freq
    BY <1>1, <1>5
  <2>2. \A w : w # <<>> =>
          /\ Cardinality(PlacesOf(w)') = Cardinality(PlacesOf(w))
          /\ PlacesOf(w)' # {} <=> PlacesOf(w) # {}
    BY <1>4, <1>5
  <2>3. Tallied'
    BY <1>2, <2>1, <2>2 DEF Tallied
  <2> QED
    BY <1>1, <1>2, <2>3 DEF TopInv, TopIsRight
<1>6. CASE word # <<>>
  <2>1. /\ DOMAIN freq' = DOMAIN freq \cup {word}
        /\ \A w \in DOMAIN freq' :
             freq'[w] = (IF w \in DOMAIN freq THEN freq[w] ELSE 0)
                          + (IF w = word THEN 1 ELSE 0)
    BY <1>1, <1>6
  <2>2. IsFiniteSet(DOMAIN freq')
    BY <1>2, <2>1, FS_AddElement DEF Tallied
  <2>3. \A w : w \in DOMAIN freq' <=> w # <<>> /\ PlacesOf(w)' # {}
    BY <1>2, <1>4, <1>6, <2>1 DEF Tallied
  <2>4. ASSUME NEW w \in DOMAIN freq'
        PROVE  freq'[w] = Cardinality(PlacesOf(w)')
    <3>1. (IF w \in DOMAIN freq THEN freq[w] ELSE 0) = Cardinality(PlacesOf(w))
      <4>1. CASE w \in DOMAIN freq
        BY <1>2, <4>1 DEF Tallied
      <4>2. CASE w \notin DOMAIN freq
        <5>1. w # <<>>
          BY <1>6, <2>1, <4>2
        <5>2. PlacesOf(w) = {}
          BY <1>2, <4>2, <5>1 DEF Tallied
        <5> QED
          BY <4>2, <5>2, FS_EmptySet
      <4> QED
        BY <4>1, <4>2
    <3> QED
      BY <1>4, <2>1, <3>1
  <2>5. Tallied'
    BY <2>2, <2>3, <2>4 DEF Tallied
  <2> QED
    BY <1>1, <1>2, <2>5 DEF TopInv, TopIsRight
<1> QED
  BY <1>5, <1>6

\* At the end of the text the map holds the words that occur, with their counts.
LEMMA TallyRight ==
  ASSUME text \in Seq(Words), clean \in BOOLEAN, counted = Len(text), Tallied
  PROVE  /\ DOMAIN freq = Occurring /\ Occurring \subseteq Seq(Nat)
         /\ \A w \in Occurring : freq[w] = Occurs(w) /\ Occurs(w) \in Nat
<1>1. DOMAIN text = 1 .. Len(text) /\ Len(text) \in Nat
      /\ \A i \in DOMAIN text : text[i] \in Words
  BY LenProperties, ElementOfSeq
<1>2. ASSUME NEW w, w # <<>>
      PROVE  PlacesOf(w) = {i \in DOMAIN text : CountsAs(text[i], w)}
  BY <1>1, <1>2, CountedRight DEF PlacesOf
<1>3. ASSUME NEW w
      PROVE  /\ IsFiniteSet(PlacesOf(w)) /\ Cardinality(PlacesOf(w)) \in Nat
             /\ Cardinality(PlacesOf(w)) > 0 <=> PlacesOf(w) # {}
  <2>1. IsFiniteSet(1 .. counted)
    BY <1>1, FS_Interval
  <2>2. IsFiniteSet(PlacesOf(w)) /\ Cardinality(PlacesOf(w)) \in Nat
    BY <2>1, FS_Subset, FS_CardinalityType DEF PlacesOf
  <2> QED
    BY <2>2, FS_EmptySet
<1>4. ASSUME NEW w, w # <<>>
      PROVE  Occurs(w) = Cardinality(PlacesOf(w))
  BY <1>2, <1>4 DEF Occurs
<1>5. \A i \in DOMAIN text : ~CountsAs(text[i], <<>>)
  BY <1>1, CountedRight
<1>6. <<>> \notin Occurring
  <2>1. {i \in DOMAIN text : CountsAs(text[i], <<>>)} = {}
    BY <1>5
  <2>2. Occurs(<<>>) = 0
    BY <2>1, FS_EmptySet DEF Occurs
  <2> QED
    BY <2>2 DEF Occurring
<1>7. ASSUME NEW w, w # <<>>, PlacesOf(w) # {}
      PROVE  w \in Candidates /\ w \in Words
  <2>1. PICK i \in DOMAIN text : CountsAs(text[i], w)
    BY <1>2, <1>7
  <2> QED
    BY <2>1, CandidateCounts
<1>8. ASSUME NEW w
      PROVE  w \in DOMAIN freq <=> w \in Occurring
  <2>1. w \in DOMAIN freq <=> w # <<>> /\ PlacesOf(w) # {}
    BY DEF Tallied
  <2>2. w \in Occurring => w # <<>> /\ Occurs(w) > 0
    BY <1>6 DEF Occurring
  <2>3. w # <<>> => (Occurs(w) > 0 <=> PlacesOf(w) # {})
    BY <1>3, <1>4
  <2>4. w # <<>> /\ PlacesOf(w) # {} => w \in Occurring
    BY <1>7, <2>3 DEF Occurring
  <2> QED
    BY <2>1, <2>2, <2>3, <2>4
<1>9. ASSUME NEW w \in Occurring
      PROVE  w \in Seq(Nat) /\ freq[w] = Occurs(w) /\ Occurs(w) \in Nat
  <2>1. w # <<>> /\ PlacesOf(w) # {} /\ w \in DOMAIN freq
    BY <1>8 DEF Tallied
  <2>2. w \in Seq(Nat)
    BY <1>7, <2>1 DEF Words
  <2>3. freq[w] = Cardinality(PlacesOf(w))
    BY <2>1 DEF Tallied
  <2> QED
    BY <1>3, <1>4, <2>1, <2>2, <2>3
<1>10. DOMAIN freq = Occurring
  BY <1>8
<1> QED
  BY <1>9, <1>10

\* The less function orders the words strictly.
LEMMA LessStrict ==
  ASSUME text \in Seq(Words), clean \in BOOLEAN, counted = Len(text), Tallied,
         NEW v \in Occurring, NEW w \in Occurring
  PROVE  /\ Less(v, w) <=> Ahead(v, w)
         /\ v # w => Less(v, w) \/ Less(w, v)
         /\ ~(Less(v, w) /\ Less(w, v))
<1>1. /\ v \in Seq(Nat) /\ w \in Seq(Nat)
      /\ freq[v] = Occurs(v) /\ freq[w] = Occurs(w)
      /\ Occurs(v) \in Nat /\ Occurs(w) \in Nat
  BY TallyRight
<1>2. /\ v # w => Precedes(v, w) \/ Precedes(w, v)
      /\ ~(Precedes(v, w) /\ Precedes(w, v))
  BY <1>1, PrecedesTotal, PrecedesStrict
<1> QED
  BY <1>1, <1>2 DEF Less, Ahead

\* An arrangement of a finite set holds all of it.
LEMMA ArrangementIsWhole ==
  ASSUME NEW S, IsFiniteSet(S), NEW s \in SetToSeqs(S)
  PROVE  /\ Cardinality(S) \in Nat /\ s \in [1 .. Cardinality(S) -> S]
         /\ \A i, j \in 1 .. Cardinality(S) : i # j => s[i] # s[j]
         /\ \A e \in S : \E i \in 1 .. Cardinality(S) : s[i] = e
<1> DEFINE n == Cardinality(S)
           image == {s[i] : i \in 1 .. n}
<1>1. n \in Nat
  BY FS_CardinalityType
<1>2. s \in [1 .. n -> S] /\ \A i, j \in 1 .. n : i # j => s[i] # s[j]
  BY DEF SetToSeqs
<1> HIDE DEF n
<1>3. IsFiniteSet(1 .. n) /\ Cardinality(1 .. n) = n
  BY <1>1, FS_Interval
<1>4. s \in Bijection(1 .. n, image)
  BY <1>2 DEF Bijection, Injection, Surjection, IsInjective
<1>5. IsFiniteSet(image) /\ Cardinality(image) = n
  BY <1>3, <1>4, FS_Bijection DEF ExistsBijection
<1>6. image \in SUBSET S
  BY <1>2
<1>7. image = S
  <2> HIDE DEF image
  <2> QED
    BY <1>5, <1>6, FS_Subset DEF n
<1> QED
  BY <1>1, <1>2, <1>7 DEF n

LEMMA TopAnswered == ASSUME TopInv, getTopWords PROVE TopInv'
<1> USE TopAssumption
<1>1. /\ analyst = "count" /\ counted = Len(text)
      /\ UNCHANGED <<text, clean, counted, freq>> /\ analyst' = "answered"
      /\ text \in Seq(Words) /\ clean \in BOOLEAN /\ Tallied
  BY DEF getTopWords, TopInv
<1>2. /\ DOMAIN freq = Occurring /\ IsFiniteSet(Occurring)
  BY <1>1, TallyRight DEF Tallied
<1> DEFINE n == Cardinality(Occurring)
<1>3. PICK words \in SetToSeqs(Occurring) :
        /\ \A i, j \in DOMAIN words : i < j => ~Less(words[j], words[i])
        /\ top' = IF Len(words) > Top THEN SubSeq(words, 1, Top) ELSE words
  BY <1>2 DEF getTopWords
<1>4. /\ n \in Nat /\ words \in [1 .. n -> Occurring]
      /\ \A i, j \in 1 .. n : i # j => words[i] # words[j]
      /\ \A e \in Occurring : \E i \in 1 .. n : words[i] = e
  BY <1>2, ArrangementIsWhole
<1> HIDE DEF n
<1>5. words \in Seq(Occurring) /\ Len(words) = n /\ DOMAIN words = 1 .. n
  BY <1>4
<1>6. ASSUME NEW i \in 1 .. n, NEW j \in 1 .. n
      PROVE  Ahead(words[i], words[j]) <=> i < j
  <2>1. words[i] \in Occurring /\ words[j] \in Occurring /\ i \in Int /\ j \in Int
    BY <1>4
  <2>2. /\ Less(words[i], words[j]) <=> Ahead(words[i], words[j])
        /\ words[i] # words[j] => Less(words[i], words[j]) \/ Less(words[j], words[i])
        /\ ~(Less(words[i], words[j]) /\ Less(words[j], words[i]))
    BY <1>1, <2>1, LessStrict
  <2>3. /\ i < j => ~Less(words[j], words[i])
        /\ j < i => ~Less(words[i], words[j])
        /\ i # j => words[i] # words[j]
    BY <1>3, <1>4, <1>5
  <2>4. i < j \/ j < i \/ i = j
    BY <2>1
  <2> QED
    BY <2>1, <2>2, <2>3, <2>4
<1>7. ASSUME NEW k \in 1 .. n
      PROVE  Cardinality({v \in Occurring : Ahead(v, words[k])}) = k - 1
  <2> DEFINE first == {words[i] : i \in 1 .. k - 1}
             place == [i \in 1 .. k - 1 |-> words[i]]
  <2>1. k \in Nat /\ k - 1 \in Nat /\ \A i \in 1 .. n : i \in 1 .. k - 1 <=> i < k
    BY <1>4
  <2>2. \A i \in 1 .. k - 1 : i \in 1 .. n
    BY <1>4
  <2>3. {v \in Occurring : Ahead(v, words[k])} = first
    <3>1. ASSUME NEW v \in Occurring, Ahead(v, words[k])
          PROVE  v \in first
      <4>1. PICK i \in 1 .. n : words[i] = v
        BY <1>4
      <4>2. i < k
        BY <1>6, <3>1, <4>1
      <4> QED
        BY <2>1, <4>1, <4>2
    <3>2. ASSUME NEW i \in 1 .. k - 1
          PROVE  words[i] \in Occurring /\ Ahead(words[i], words[k])
      BY <1>4, <1>6, <2>1, <2>2
    <3> QED
      BY <3>1, <3>2
  <2>4. place \in Bijection(1 .. k - 1, first)
    <3>1. \A i, j \in 1 .. k - 1 : words[i] = words[j] => i = j
      BY <1>4, <2>2
    <3> QED
      BY <3>1 DEF Bijection, Injection, Surjection, IsInjective
  <2>5. IsFiniteSet(1 .. k - 1) /\ Cardinality(1 .. k - 1) = k - 1
    BY <2>1, FS_Interval
  <2>6. Cardinality(first) = k - 1
    BY <2>4, <2>5, FS_Bijection DEF ExistsBijection
  <2> QED
    BY <2>3, <2>6
<1>8. /\ Len(top') = IF n < Top THEN n ELSE Top
      /\ DOMAIN top' = 1 .. Len(top')
      /\ \A k \in DOMAIN top' : k \in 1 .. n /\ top'[k] = words[k]
  <2>1. CASE n > Top
    <3>1. top' = SubSeq(words, 1, Top)
      BY <1>3, <1>5, <2>1
    <3>2. /\ top' \in Seq(Occurring) /\ Len(top') = Top
          /\ \A k \in 1 .. Top : top'[k] = words[k]
      BY <1>4, <1>5, <2>1, <3>1, Beginning
    <3>3. DOMAIN top' = 1 .. Top /\ ~(n < Top) /\ \A k \in 1 .. Top : k \in 1 .. n
      BY <1>4, <2>1, <3>2, LenProperties
    <3> QED
      BY <3>2, <3>3
  <2>2. CASE ~(n > Top)
    <3>1. top' = words
      BY <1>3, <1>5, <2>2
    <3>2. n = IF n < Top THEN n ELSE Top
      BY <1>4, <2>2
    <3> QED
      BY <1>5, <3>1, <3>2
  <2> QED
    BY <2>1, <2>2
<1>9. /\ Occurring' = Occurring
      /\ \A v, w : Ahead(v, w)' <=> Ahead(v, w)
  <2>1. \A word, w : CountsAs(word, w)' <=> CountsAs(word, w)
    BY <1>1 DEF CountsAs
  <2>2. \A w : Occurs(w)' = Occurs(w)
    BY <1>1, <2>1 DEF Occurs
  <2>3. Candidates' = Candidates
    BY <1>1 DEF Candidates
  <2> QED
    BY <2>2, <2>3 DEF Occurring, Ahead
<1>10. TopIsRight'
  <2>1. ASSUME NEW k \in DOMAIN top'
        PROVE  /\ top'[k] \in Occurring
               /\ Cardinality({v \in Occurring : Ahead(v, top'[k])}) = k - 1
    BY <1>4, <1>7, <1>8
  <2>2. \A w : {v \in Occurring' : Ahead(v, w)'} = {v \in Occurring : Ahead(v, w)}
    BY <1>9
  <2> QED
    BY <1>8, <1>9, <2>1, <2>2 DEF TopIsRight, n
<1> QED
  BY <1>1, <1>10 DEF TopInv

LEMMA TopInductive == TopSpec => []TopInv
<1>1. (\E t \in Seq(Words), c \in BOOLEAN : TopStart(t, c)) => TopInv
  BY TopStarts
<1>2. TopInv /\ UNCHANGED topVars => TopInv'
  <2> SUFFICES ASSUME TopInv, UNCHANGED topVars PROVE TopInv'
    OBVIOUS
  <2>1. UNCHANGED <<text, clean, counted, freq, top, analyst>>
    BY DEF topVars
  <2>2. Tallied' <=> Tallied
    BY <2>1 DEF Tallied, PlacesOf, Counted
  <2>3. \A word, w : CountsAs(word, w)' <=> CountsAs(word, w)
    BY <2>1 DEF CountsAs
  <2>4. \A w : Occurs(w)' = Occurs(w)
    BY <2>1, <2>3 DEF Occurs
  <2>5. Occurring' = Occurring /\ \A v, w : Ahead(v, w)' <=> Ahead(v, w)
    BY <2>1, <2>4 DEF Occurring, Candidates, Ahead
  <2>6. \A w : {v \in Occurring' : Ahead(v, w)'} = {v \in Occurring : Ahead(v, w)}
    BY <2>5
  <2>7. TopIsRight' <=> TopIsRight
    BY <2>1, <2>5, <2>6 DEF TopIsRight
  <2> QED
    BY <2>1, <2>2, <2>7 DEF TopInv
<1>3. TopInv /\ [TopNext]_topVars => TopInv'
  BY <1>2, WordCounted, TopAnswered DEF TopNext
<1> QED
  BY <1>1, <1>3, PTL DEF TopSpec

\* Whatever the order of the map and of equal counts, the answer is the first Top
\* words by their counts and then by their letters, for every text (top.go).
THEOREM TopCorrect == TopSpec => []TopIsRight
<1>1. TopInv => TopIsRight
  BY DEF TopInv
<1> QED
  BY <1>1, TopInductive, PTL

\* What sort.Slice asks of its less function, and what makes the answer the same
\* in whatever order the map was ranged over.
StrictOrder ==
  \A v, w \in DOMAIN freq :
    /\ ~(Less(v, w) /\ Less(w, v))
    /\ v # w => Less(v, w) \/ Less(w, v)
    /\ \A u \in DOMAIN freq : Less(u, v) /\ Less(v, w) => Less(u, w)

\* When getTopWords sorts the words, its less function is a strict total order of
\* them (top.go).
THEOREM LessOrders ==
  TopSpec => [](analyst = "count" /\ counted = Len(text) => StrictOrder)
<1>1. TopInv /\ analyst = "count" /\ counted = Len(text) => StrictOrder
  <2> SUFFICES ASSUME TopInv, analyst = "count", counted = Len(text)
               PROVE  StrictOrder
    OBVIOUS
  <2>1. text \in Seq(Words) /\ clean \in BOOLEAN /\ Tallied
    BY DEF TopInv
  <2>2. /\ DOMAIN freq = Occurring /\ Occurring \subseteq Seq(Nat)
        /\ \A w \in Occurring : freq[w] \in Nat
    BY <2>1, TallyRight
  <2>3. \A v, w \in DOMAIN freq :
          /\ ~(Less(v, w) /\ Less(w, v))
          /\ v # w => Less(v, w) \/ Less(w, v)
    BY <2>1, <2>2, LessStrict
  <2>4. ASSUME NEW u \in DOMAIN freq, NEW v \in DOMAIN freq, NEW w \in DOMAIN freq,
               Less(u, v), Less(v, w)
        PROVE  Less(u, w)
    <3>1. Precedes(u, v) /\ Precedes(v, w) => Precedes(u, w)
      BY <2>2, PrecedesOn
    <3>2. freq[u] \in Nat /\ freq[v] \in Nat /\ freq[w] \in Nat
      BY <2>2
    <3> QED
      BY <2>4, <3>1, <3>2 DEF Less
  <2>5. ASSUME NEW v \in DOMAIN freq, NEW w \in DOMAIN freq
        PROVE  /\ ~(Less(v, w) /\ Less(w, v))
               /\ v # w => Less(v, w) \/ Less(w, v)
               /\ \A u \in DOMAIN freq : Less(u, v) /\ Less(v, w) => Less(u, w)
    BY <2>3, <2>4
  <2> QED
    BY <2>5 DEF StrictOrder
<1>2. TopSpec => []TopInv
  BY TopInductive
<1> QED
  BY <1>1, <1>2, PTL
=============================================================================
