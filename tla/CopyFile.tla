------------------------------ MODULE CopyFile ------------------------------
(***************************************************************************)
(* File copying (hw07).  A job says what the file system does: whether the *)
(* source can be opened, examined and positioned and is a regular file,    *)
(* its bytes and how many of those behind the offset can be read, whether  *)
(* the destination can be created, for how many bytes it has room and      *)
(* whether it is the source itself, which os.Create truncates.  Offset and *)
(* limit are what the flags give, negative ones included: nothing rejects  *)
(* them.  An answered write is in the file: Close's error is dropped.      *)
(***************************************************************************)
EXTENDS Integers, Sequences

CONSTANTS BufferSize,   \* bound: bytes of one read, 64 KB in the code
          Threshold     \* progress is shown every so many percent, 5 in the code

ASSUME CopyAssumption == BufferSize \in Nat \ {0} /\ Threshold \in Nat

VARIABLES
  job,
  copier,           \* "start", "loop", or how Copy ended: "nil" or an error
  copied,
  lastUpdateBytes,
  destination,      \* "created" if os.Create made or emptied it, else "untouched"
  held,             \* the bytes written to it
  shown             \* the progress lines, by their number of bytes

copyVars == <<job, copier, copied, lastUpdateBytes, destination, held, shown>>

Jobs == [opens : BOOLEAN, stats : BOOLEAN, regular : BOOLEAN, seeks : BOOLEAN,
         bytes : Seq(0 .. 255), readable : Nat,
         creates : BOOLEAN, itself : BOOLEAN, room : Nat,
         offset : Int, limit : Int]

CopyStart(j) ==
  /\ job = j
  /\ copier = "start"
  /\ copied = 0 /\ lastUpdateBytes = 0
  /\ destination = "untouched" /\ held = <<>> /\ shown = <<>>

----------------------------------------------------------------------------
(* Copy and copyWithProgress *)

Least(a, b) == IF a < b THEN a ELSE b

Size == Len(job.bytes)

\* A negative offset counts as more to copy.
bytesToCopy ==
  IF job.limit = 0 \/ job.limit > Size - job.offset THEN Size - job.offset
  ELSE job.limit

\* What the limited reader delivers: a negative offset seeks nowhere, and a
\* negative limit is the end.
Available ==
  LET begin == IF job.offset > 0 THEN job.offset ELSE 0
  IN IF job.itself THEN <<>>
     ELSE SubSeq(job.bytes, begin + 1, Least(begin + bytesToCopy, Size))

\* Everything before the loop; with nothing to copy os.Create's error is dropped.
Copy ==
  /\ copier = "start"
  /\ copier' = IF ~job.opens THEN "open"
               ELSE IF ~job.stats THEN "stat"
               ELSE IF ~job.regular THEN "unsupported"
               ELSE IF job.offset > Size THEN "offset"
               ELSE IF job.offset > 0 /\ ~job.seeks THEN "seek"
               ELSE IF bytesToCopy = 0 THEN "nil"
               ELSE IF ~job.creates THEN "create" ELSE "loop"
  /\ destination' = IF copier' \in {"nil", "loop"} /\ job.creates THEN "created"
                    ELSE destination
  /\ UNCHANGED <<job, copied, lastUpdateBytes, held, shown>>

\* The number of bytes of the next read, 0 at the end or at an error.
NextRead == Least(BufferSize, Least(Len(Available), job.readable) - copied)

\* The limited reader reads on until it has delivered all it is to deliver.
AtError == copied = job.readable /\ copied < bytesToCopy

Enough(n) == 100 * n >= Threshold * bytesToCopy

\* Mutant: the baseline of the progress is not moved.
CopyChunkRestless ==
  /\ copier = "loop" /\ NextRead > 0 /\ copied + NextRead <= job.room
  /\ copied' = copied + NextRead
  /\ held' = held \o SubSeq(Available, copied + 1, copied')
  /\ shown' = IF Enough(copied') \/ copied' = bytesToCopy
              THEN Append(shown, copied') ELSE shown
  /\ UNCHANGED <<job, copier, destination, lastUpdateBytes>>

CopyChunk ==
  /\ copier = "loop" /\ NextRead > 0 /\ copied + NextRead <= job.room
  /\ copied' = copied + NextRead
  /\ held' = held \o SubSeq(Available, copied + 1, copied')
  /\ IF Enough(copied' - lastUpdateBytes) \/ copied' = bytesToCopy
     THEN shown' = Append(shown, copied') /\ lastUpdateBytes' = copied'
     ELSE UNCHANGED <<shown, lastUpdateBytes>>
  /\ UNCHANGED <<job, copier, destination>>

\* What there is room for was written before the error.
WriteFails ==
  /\ copier = "loop" /\ NextRead > 0 /\ copied + NextRead > job.room
  /\ held' = SubSeq(Available, 1, job.room)
  /\ copier' = "write"
  /\ UNCHANGED <<job, copied, lastUpdateBytes, destination, shown>>

ReadError ==
  /\ copier = "loop" /\ AtError
  /\ copier' = "read"
  /\ UNCHANGED <<job, copied, lastUpdateBytes, destination, held, shown>>

EndOfFile ==
  /\ copier = "loop" /\ NextRead <= 0 /\ ~AtError
  /\ shown' = Append(shown, bytesToCopy)
  /\ copier' = "nil"
  /\ UNCHANGED <<job, copied, lastUpdateBytes, destination, held>>

CopyNext == Copy \/ CopyChunk \/ WriteFails \/ ReadError \/ EndOfFile

CopySpec == (\E j \in Jobs : CopyStart(j)) /\ [][CopyNext]_copyVars

----------------------------------------------------------------------------
(* Property *)

\* The bytes behind offset, at most limit of them unless limit is 0.
Wanted ==
  {i \in 1 .. Size :
     i > job.offset /\ (job.limit = 0 \/ i <= job.offset + job.limit)}

\* Each line is Threshold percent of total beyond the one before it, or the total.
InOrder(lines, total) ==
  \A k \in DOMAIN lines :
    LET before == IF k = 1 THEN 0 ELSE lines[k - 1] IN
    /\ lines[k] > before
    /\ \/ 100 * (lines[k] - before) >= Threshold * total
       \/ lines[k] = total

\* The one success without a destination: os.Create failed, unnoticed, when
\* nothing was to be copied.
CreateErrorDropped == Wanted = {} /\ ~job.creates

Succeeded ==
  /\ destination = "created" \/ CreateErrorDropped
  /\ DOMAIN held = {i - job.offset : i \in Wanted}
  /\ held # <<>> => shown # <<>> /\ shown[Len(shown)] = Len(held)
  /\ shown # <<>> => InOrder(SubSeq(shown, 1, Len(shown) - 1), Len(held))

\* Nothing was touched before these failures, and only the bytes that could be
\* read and written were copied before the other two.
Failed ==
  \/ /\ destination = "untouched" /\ held = <<>>
     /\ \/ copier = "open" /\ ~job.opens
        \/ copier = "stat" /\ ~job.stats
        \/ copier = "unsupported" /\ ~job.regular
        \/ copier = "offset" /\ job.offset > Size
        \/ copier = "seek" /\ ~job.seeks /\ job.offset # 0
        \/ copier = "create" /\ ~job.creates /\ Wanted # {}
  \/ /\ copier = "read" /\ destination = "created"
     /\ Len(held) = job.readable
     /\ \E i \in Wanted : i - job.offset > job.readable
  \/ /\ copier = "write" /\ destination = "created"
     /\ Len(held) = job.room
     /\ \E i \in Wanted : i - job.offset > job.room

\* With no negative argument and two different files, the destination holds at
\* every moment the wanted bytes from the first on, in their order.  Copy succeeds
\* only with all of them there and, but for CreateErrorDropped, a destination that
\* was made or emptied; it fails only for the cause it names.  Each progress line
\* but the last is Threshold percent beyond the one before it or the total, and
\* the last is the total.
CopyIsRight ==
  (job.offset >= 0 /\ job.limit >= 0 /\ ~job.itself) =>
    /\ \A k \in DOMAIN held :
         /\ job.offset + k \in Wanted
         /\ held[k] = job.bytes[job.offset + k]
    /\ copier = "nil" => Succeeded
    /\ copier \notin {"start", "loop", "nil"} => Failed
=============================================================================
