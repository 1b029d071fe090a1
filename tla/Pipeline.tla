------------------------------ MODULE Pipeline ------------------------------
(***************************************************************************)
(* ExecutePipeline of hw06_pipeline_execution.  Every stage runs between   *)
(* two forwarding goroutines that watch done; each goroutine of the chain  *)
(*                                                                         *)
(*   source 0 -> forward 1 -> stage 2 -> forward 3 -> forward 4 -> ...     *)
(*                                                                         *)
(* sends on an unbuffered channel of its own, the input of the next one.   *)
(* A value is its position in the input; a transfer is one step of both    *)
(* goroutines.  Source, stages and consumer are those of the tests.        *)
(***************************************************************************)
EXTENDS Integers, Sequences

CONSTANTS
  Stages,    \* len(stages)
  Inputs,    \* how many values the source sends before it closes its channel
  DoneModes  \* what done is at first: "nil", "open" or "closed"

ASSUME PipelineAssumption ==
  /\ Stages \in Nat
  /\ Inputs \in Nat
  /\ DoneModes \subseteq {"nil", "open", "closed"}

Width    == 3 * Stages
Consumer == Width + 1
Procs    == 0..Consumer

Links     == 1..Width
IsStage(i)   == i % 3 = 2
IsForward(i) == i \in Links /\ ~IsStage(i)

VARIABLES
  pc,      \* each goroutine: "recv", "send", "drain" or "exited"
  item,    \* the last value it took from its input, 0 at first
  done,    \* the done channel
  output   \* what the consumer received

pipelineVars == <<pc, item, done, output>>

\* Type invariant.
PipelineTypeOK ==
  /\ pc \in [Procs -> {"recv", "send", "drain", "exited"}]
  /\ item \in [Procs -> 0..Inputs]
  /\ done \in {"nil", "open", "closed"}
  /\ output \in Seq(1..Inputs)

\* Mutant: drain(in) runs before close(out).
ClosedLate(i) == pc[i] = "exited"

\* The channel goroutine i sends on is closed by i when it stops.
Closed(i) == pc[i] \in {"drain", "exited"}

PipelineInit ==
  /\ pc = [i \in Procs |-> "recv"]
  /\ item = [i \in Procs |-> 0]
  /\ done \in DoneModes
  /\ output = <<>>

CloseDone ==
  /\ done = "open"
  /\ done' = "closed"
  /\ UNCHANGED <<pc, item, output>>

----------------------------------------------------------------------------
(* The source *)

NextInput ==
  /\ pc[0] = "recv"
  /\ item[0] < Inputs
  /\ item' = [item EXCEPT ![0] = @ + 1]
  /\ pc' = [pc EXCEPT ![0] = "send"]
  /\ UNCHANGED <<done, output>>

CloseInput ==
  /\ pc[0] = "recv"
  /\ item[0] = Inputs
  /\ pc' = [pc EXCEPT ![0] = "exited"]
  /\ UNCHANGED <<item, done, output>>

----------------------------------------------------------------------------
(* A goroutine i of the chain and its input, the output of i - 1 *)

\* case v, ok := <-in, or a stage's range over in.
Pass(i) ==
  /\ pc[i - 1] = "send"
  /\ pc[i] = "recv"
  /\ item' = [item EXCEPT ![i] = item[i - 1]]
  /\ pc' = [pc EXCEPT ![i - 1] = "recv", ![i] = "send"]
  /\ UNCHANGED <<done, output>>

\* Mutant: the end of the input is noticed with a value still in hand.
EndOfInputEarly(i) ==
  /\ pc[i] \in {"recv", "send"}
  /\ Closed(i - 1)
  /\ pc' = [pc EXCEPT ![i] = "exited"]
  /\ UNCHANGED <<item, done, output>>

\* The input is closed: a forward closes its output, and drains nothing; a
\* stage closes its output.
EndOfInput(i) ==
  /\ pc[i] = "recv"
  /\ Closed(i - 1)
  /\ pc' = [pc EXCEPT ![i] = "exited"]
  /\ UNCHANGED <<item, done, output>>

\* Mutant: the value in hand is lost and the loop goes on.
CancelValue(i) ==
  /\ done = "closed"
  /\ pc[i] \in {"recv", "send"}
  /\ pc' = [pc EXCEPT ![i] = "recv"]
  /\ UNCHANGED <<item, done, output>>

\* Mutant: no drain.
CancelOnly(i) ==
  /\ done = "closed"
  /\ pc[i] \in {"recv", "send"}
  /\ pc' = [pc EXCEPT ![i] = "exited"]
  /\ UNCHANGED <<item, done, output>>

\* case <-done of a forward, in either select: close(out), then drain.
Cancel(i) ==
  /\ done = "closed"
  /\ pc[i] \in {"recv", "send"}
  /\ pc' = [pc EXCEPT ![i] = "drain"]
  /\ UNCHANGED <<item, done, output>>

\* drain takes a value and drops it.
Drain(i) ==
  /\ pc[i - 1] = "send"
  /\ pc[i] = "drain"
  /\ pc' = [pc EXCEPT ![i - 1] = "recv"]
  /\ UNCHANGED <<item, done, output>>

DrainEnds(i) ==
  /\ pc[i] = "drain"
  /\ Closed(i - 1)
  /\ pc' = [pc EXCEPT ![i] = "exited"]
  /\ UNCHANGED <<item, done, output>>

----------------------------------------------------------------------------
(* The consumer *)

Consume ==
  /\ pc[Width] = "send"
  /\ pc[Consumer] = "recv"
  /\ item' = [item EXCEPT ![Consumer] = item[Width]]
  /\ pc' = [pc EXCEPT ![Width] = "recv"]
  /\ output' = Append(output, item[Width])
  /\ UNCHANGED done

EndOfOutput ==
  /\ pc[Consumer] = "recv"
  /\ Closed(Width)
  /\ pc' = [pc EXCEPT ![Consumer] = "exited"]
  /\ UNCHANGED <<item, done, output>>

----------------------------------------------------------------------------
(* The specification *)

Forward(i) ==
  /\ IsForward(i)
  /\ Pass(i) \/ EndOfInput(i) \/ Cancel(i) \/ Drain(i) \/ DrainEnds(i)

Stage(i) ==
  /\ i \in Links /\ IsStage(i)
  /\ Pass(i) \/ EndOfInput(i)

Source == NextInput \/ CloseInput
Main   == Consume \/ EndOfOutput

PipelineNext ==
  \/ Source \/ Main \/ CloseDone
  \/ \E i \in Links : Forward(i) \/ Stage(i)

PipelineSpec == PipelineInit /\ [][PipelineNext]_pipelineVars

----------------------------------------------------------------------------
(* Properties *)

\* The consumer receives the first values of the input, in order and without
\* a gap, whenever done is closed and wherever it finds the values.
OutputIsPrefix == \A k \in 1..Len(output) : output[k] = k

\* Nothing is lost unless done is closed.
AllWithoutDone ==
  pc[Consumer] = "exited" /\ done # "closed" => Len(output) = Inputs

\* Unless the source stops sending without closing its channel, all goroutines
\* end: of the pipeline, of the stages and the source's, also those blocked in
\* a send when done is closed.
NobodyStays ==
  <>[](pc[0] = "recv") \/ <>[](\A i \in Procs : pc[i] = "exited")

\* Once done is closed the consumer is released, whatever the source does.
DoneReleases == (done = "closed" /\ Stages > 0) ~> pc[Consumer] = "exited"
=============================================================================
