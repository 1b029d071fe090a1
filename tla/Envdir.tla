------------------------------- MODULE Envdir -------------------------------
(***************************************************************************)
(* The envdir tool (hw08).  A directory maps the names of its entries to a *)
(* kind and the bytes: "c" (any that is not special), " ", "\r", "\n" or   *)
(* "nul".  An entry is a "file", a "dir", "vanished" (its size cannot be   *)
(* asked for), "unreadable" (it has a size, but opening or reading it      *)
(* fails) or a "link", whose own size is that of its path, never 0, and    *)
(* whose bytes are the target's; a link that leads nowhere is unreadable.  *)
(* The parent's environment is a sequence of names with values in which no *)
(* name is found twice: os.Environ clears duplicates.                      *)
(***************************************************************************)
EXTENDS Integers, Sequences, FiniteSets, SequencesExt

CONSTANT Illegal   \* the entry names that hold an "="

VARIABLES
  directory, currentEnv,   \* what the tool is given
  env,        \* the map ReadDir returned
  unranged,   \* its names the range has not come to, in no order
  newEnv,     \* the slice for the command
  removing,   \* the name that is being removed from it
  index,      \* the index of that loop
  envdir      \* "read", "range", "remove", "run" the command; "unlisted" or
              \* "exit": the tool ended without running it

envdirVars ==
  <<directory, currentEnv, env, unranged, newEnv, removing, index, envdir>>

FileBytes == {"c", " ", "\r", "\n", "nul"}
Kinds == {"file", "dir", "vanished", "unreadable", "link"}
Entry == [kind : Kinds, bytes : Seq(FileBytes)]
Directories == UNION {[S -> Entry] : S \in SUBSET STRING}

NoNameTwice(e) == \A i, j \in DOMAIN e : e[i].name = e[j].name => i = j
Environ ==
  {e \in Seq([name : STRING, value : Seq(FileBytes)]) : NoNameTwice(e)}

EnvdirStart(dir, parent) ==
  /\ directory = dir /\ currentEnv = parent
  /\ env = <<>> /\ unranged = {} /\ newEnv = <<>>
  /\ removing = "" /\ index = 0
  /\ envdir = "read"

----------------------------------------------------------------------------
(* ReadDir *)

\* strings.TrimRight
TrimRight(s, cut) ==
  LET kept == {0} \cup {i \in DOMAIN s : s[i] \notin cut}
  IN SubSeq(s, 1, CHOOSE i \in kept : \A j \in kept : j <= i)

\* A blank before a carriage return stays: the blanks are cut first.
processFirstLine(content) ==
  LET ends == {i \in DOMAIN content : content[i] = "\n"}
      idx == IF ends = {} THEN Len(content)
             ELSE (CHOOSE i \in ends : \A j \in ends : i <= j) - 1
      line == [i \in 1 .. idx |-> IF content[i] = "nul" THEN "\n" ELSE content[i]]
  IN TrimRight(TrimRight(line, {" "}), {"\r"})

\* The entries ReadDir reads.
Variables == {n \in DOMAIN directory \ Illegal : directory[n].kind # "dir"}

\* The size is asked for first: an empty file is not opened.
Fails(entry) ==
  entry.kind = "vanished" \/ (entry.kind = "unreadable" /\ entry.bytes # <<>>)

SizeIsZero(entry) == entry.bytes = <<>> /\ entry.kind # "link"

ListingFails ==
  /\ envdir = "read"
  /\ envdir' = "unlisted"
  /\ UNCHANGED <<directory, currentEnv, env, unranged, newEnv, removing, index>>

ReadFails ==
  /\ envdir = "read"
  /\ \E n \in Variables : Fails(directory[n])
  /\ envdir' = "exit"
  /\ UNCHANGED <<directory, currentEnv, env, unranged, newEnv, removing, index>>

\* Mutant: an empty file sets an empty value.
ReadDirEmptyAsValue ==
  /\ envdir = "read"
  /\ \A n \in Variables : ~Fails(directory[n])
  /\ env' = [n \in Variables |->
               [NeedRemove |-> FALSE,
                Value |-> processFirstLine(directory[n].bytes)]]
  /\ unranged' = Variables
  /\ newEnv' = currentEnv
  /\ envdir' = "range"
  /\ UNCHANGED <<directory, currentEnv, removing, index>>

ReadDir ==
  /\ envdir = "read"
  /\ \A n \in Variables : ~Fails(directory[n])
  /\ env' = [n \in Variables |->
               [NeedRemove |-> SizeIsZero(directory[n]),
                Value |-> processFirstLine(directory[n].bytes)]]
  /\ unranged' = Variables
  /\ newEnv' = currentEnv
  /\ envdir' = "range"
  /\ UNCHANGED <<directory, currentEnv, removing, index>>

----------------------------------------------------------------------------
(* RunCmd, which ranges over the map *)

With(slice, name, value) ==
  LET found == {i \in DOMAIN slice : slice[i].name = name}
      variable == [name |-> name, value |-> value]
  IN IF found = {} THEN Append(slice, variable)
     ELSE [slice EXCEPT ![CHOOSE i \in found : \A j \in found : i <= j] = variable]

RangeOver(n) ==
  /\ envdir = "range" /\ n \in unranged
  /\ unranged' = unranged \ {n}
  /\ \/ /\ env[n].NeedRemove
        /\ removing' = n /\ index' = 1 /\ envdir' = "remove"
        /\ UNCHANGED newEnv
     \/ /\ ~env[n].NeedRemove
        /\ newEnv' = With(newEnv, n, env[n].Value)
        /\ UNCHANGED <<removing, index, envdir>>
  /\ UNCHANGED <<directory, currentEnv, env>>

\* The index is not stepped back after a removal: a neighbour is skipped.
RemoveAtIndex ==
  /\ envdir = "remove" /\ index <= Len(newEnv)
  /\ newEnv' = IF newEnv[index].name = removing THEN RemoveAt(newEnv, index)
               ELSE newEnv
  /\ index' = index + 1
  /\ UNCHANGED <<directory, currentEnv, env, unranged, removing, envdir>>

EndOfSlice ==
  /\ envdir = "remove" /\ index > Len(newEnv)
  /\ envdir' = "range"
  /\ UNCHANGED <<directory, currentEnv, env, unranged, newEnv, removing, index>>

StartCommand ==
  /\ envdir = "range" /\ unranged = {}
  /\ envdir' = "run"
  /\ UNCHANGED <<directory, currentEnv, env, unranged, newEnv, removing, index>>

EnvdirNext ==
  \/ ListingFails \/ ReadFails \/ ReadDir
  \/ \E n \in unranged : RangeOver(n)
  \/ RemoveAtIndex \/ EndOfSlice \/ StartCommand

EnvdirSpec ==
  /\ \E dir \in Directories, parent \in Environ : EnvdirStart(dir, parent)
  /\ [][EnvdirNext]_envdirVars

----------------------------------------------------------------------------
(* Properties *)

\* The exception of IsValue: the blanks are cut first, then the carriage returns
\* before them, and a blank before those stays.
KeepsBlank(value, tail) ==
  /\ value[Len(value)] = " " /\ "\r" \in ToSet(tail)
  /\ \A i, j \in DOMAIN tail : i < j /\ tail[j] = "\r" => tail[i] = "\r"

\* value is a file's first line, less the carriage returns and blanks it ends with.
IsValue(value, content) ==
  \E cut \in {SubSeq(content, i, Len(content)) : i \in 1 .. Len(content) + 1} :
    LET kept == SubSeq(content, 1, Len(content) - Len(cut))
        ends == {i \in DOMAIN cut : cut[i] = "\n"}
        tail == IF ends = {} THEN cut
                ELSE SubSeq(cut, 1, (CHOOSE i \in ends : \A j \in ends : i <= j) - 1)
    IN /\ "\n" \notin ToSet(kept)
       /\ value = [i \in DOMAIN kept |-> IF kept[i] = "nul" THEN "\n" ELSE kept[i]]
       /\ ToSet(tail) \subseteq {"\r", " "}
       /\ value # <<>> =>
            value[Len(value)] \notin {"\r", " "} \/ KeepsBlank(value, tail)

\* Whatever the order of the map, the command sees a variable of the directory
\* with its file's first line, none whose file is empty (a link never is), every
\* other one as the parent has it, and no name twice; the tool refuses to run it
\* exactly when the directory cannot be listed, a file's size cannot be told or
\* a file that is not empty cannot be read.
EnvdirIsRight ==
  /\ envdir = "exit" => \E n \in Variables : Fails(directory[n])
  /\ envdir = "run" =>
       /\ \A n \in Variables : ~Fails(directory[n])
       /\ NoNameTwice(newEnv)
       /\ \A n \in Variables :
            IF SizeIsZero(directory[n])
            THEN \A i \in DOMAIN newEnv : newEnv[i].name # n
            ELSE \E i \in DOMAIN newEnv :
                   newEnv[i].name = n /\ IsValue(newEnv[i].value, directory[n].bytes)
       /\ {v \in ToSet(newEnv) : v.name \notin Variables}
            = {v \in ToSet(currentEnv) : v.name \notin Variables}

\* What the README of the tool says of a value: the blanks at its end are removed.
NoBlankAtTheEnd ==
  envdir = "run" =>
    \A v \in ToSet(newEnv) :
      v.name \in Variables /\ v.value # <<>> => v.value[Len(v.value)] # " "

=============================================================================
