---------------------------- MODULE MCExercises -----------------------------
(***************************************************************************)
(* The small programs of the course that wait for nobody, in one instance: *)
(* a behaviour is a sequence of calls of the cache, or starts and ends with*)
(* one input of one of the programs that compute an answer.                *)
(***************************************************************************)
EXTENDS LruCache, CopyFile, DomainStat, Envdir, Unpack, TopWords

CONSTANTS MaxRunes, MaxWords, MaxSize, MaxLine, MaxEmail   \* bounds of the inputs

V == INSTANCE Validator

VARIABLES program,   \* the program of this behaviour
          argument   \* the input of the validator; the others have their own

answers == <<copyVars, statVars, envdirVars, unpackVars, topVars>>
mcVars == <<cacheVars, answers, program, argument>>

----------------------------------------------------------------------------
(* Inputs *)

Packed == BoundedSeq({"a", "\\", "0", "2", "other"}, MaxRunes)

ShortWords == BoundedSeq(0 .. 3, 2) \ {<<>>}

Job(size) ==
  [opens |-> TRUE, stats |-> TRUE, regular |-> TRUE, seeks |-> TRUE,
   bytes |-> [i \in 1 .. size |-> i], readable |-> MaxSize + 1,
   creates |-> TRUE, itself |-> FALSE, room |-> MaxSize,
   offset |-> 0, limit |-> 0]

SomeJobs ==
  UNION {{[Job(size) EXCEPT !.opens = FALSE], [Job(size) EXCEPT !.stats = FALSE],
          [Job(size) EXCEPT !.regular = FALSE]}
           \cup {[Job(size) EXCEPT !.seeks = FALSE, !.offset = o] : o \in 0 .. 2}
           \cup {[Job(size) EXCEPT !.readable = n, !.room = r,
                                   !.offset = o, !.limit = l]
                   : n \in 0 .. MaxSize, r \in 0 .. MaxSize,
                     o \in {-1, 0, 2}, l \in {0, 3}}
           \cup {[Job(size) EXCEPT !.creates = c, !.itself = s,
                                   !.offset = o, !.limit = l]
                   : c \in BOOLEAN, s \in BOOLEAN,
                     o \in -1 .. MaxSize + 1, l \in -1 .. MaxSize + 1}
           \cup {[Job(size) EXCEPT !.room = r, !.offset = o, !.limit = l]
                   : r \in 0 .. MaxSize - 1,
                     o \in -1 .. MaxSize + 1, l \in -1 .. MaxSize + 1}
           : size \in 0 .. MaxSize}

File(bytes) == [kind |-> "file", bytes |-> bytes]

Entries == {File(<<>>), File(<<"c">>)}
             \cup {[kind |-> k, bytes |-> <<>>]
                     : k \in {"dir", "vanished", "unreadable", "link"}}
             \cup {[kind |-> "unreadable", bytes |-> <<"c">>]}

Parents ==
  {[i \in DOMAIN names |-> [name |-> names[i], value |-> <<"c", "c">>]]
     : names \in UNION {SetToSeqs(S) : S \in SUBSET {"x", "y", "z"}}}

EnvInputs ==
  {[env |-> p, dir |-> d]
     : p \in Parents, d \in UNION {[S -> Entries] : S \in SUBSET {"x", "y"}}
                           \cup [{"x", "x="} -> Entries]}
  \cup {[env |-> <<>>, dir |-> [n \in {"x"} |-> File(content)]]
          : content \in BoundedSeq({"c", " ", "\r", "\n", "nul"}, MaxLine)}

Emails(n) == {[kind |-> "user", email |-> e]
                : e \in BoundedSeq({"@", ".", "g", "G"}, n)}

SomeLines == {<<l>> : l \in Emails(MaxEmail)}
           \cup BoundedSeq(Emails(MaxEmail - 2) \cup
                  {[kind |-> k, email |-> <<>>] : k \in {"empty", "bad", "long"}}, 2)

Arg(ok, value) == [ok |-> ok, value |-> value]
Rule(op, arg) == [op |-> op, arg |-> arg]
Simple(type, value, rules) ==
  [exported |-> TRUE, tag |-> "rules", rules |-> rules, type |-> type,
   value |-> value]

Leaf ==
  LET min == Rule("min", Arg(TRUE, 1))
      max == Rule("max", Arg(TRUE, 1))
      in == Rule("in", <<Arg(TRUE, 1), Arg(FALSE, 0), Arg(TRUE, 2)>>)
      len == Rule("len", Arg(TRUE, 1))
      a == Rule("in", <<Arg(TRUE, <<"a">>)>>)
      regexp == Rule("regexp", Arg(TRUE, {<<"a">>, <<"b">>}))
  IN <<Simple("int", 2, <<min, max, in>>), Simple("int", 0, <<min, min>>),
      Simple("int", 1, <<in, Rule("min", Arg(FALSE, 0))>>),
      Simple("ints", <<0, 1, 2>>, <<min, max>>), Simple("ints", <<>>, <<min>>),
      Simple("string", <<"b", "b">>, <<len, a, regexp>>),
      Simple("string", <<"a">>, <<len, Rule("", Arg(FALSE, 0))>>),
      Simple("strings", <<<<>>, <<"a">>>>,
             <<len, Rule("regexp", Arg(FALSE, {}))>>),
      Simple("other", 0, <<min>>),
      [Simple("int", 0, <<min>>) EXCEPT !.exported = FALSE],
      [Simple("other", 0, <<>>) EXCEPT !.tag = "none"],
      [Simple("int", 0, <<>>) EXCEPT !.tag = "nested"],
      Simple("struct", <<>>, <<>>)>>

Named(fields) ==
  [i \in DOMAIN fields |->
     [name |-> ToString(i), exported |-> fields[i].exported,
      tag |-> fields[i].tag, rules |-> fields[i].rules, type |-> fields[i].type,
      value |-> fields[i].value]]

\* A field is a leaf, or a struct of leaves within depth structs.
FieldOf(shape) ==
  LET Nested(struct) == [Simple("struct", struct, <<>>) EXCEPT !.tag = "nested"]
      inner == Named([i \in DOMAIN shape.leaves |-> Leaf[shape.leaves[i]]])
  IN CASE shape.depth = 0 -> Leaf[shape.leaves[1]]
       [] shape.depth = 1 -> Nested(inner)
       [] shape.depth = 2 -> Nested(Named(<<Nested(inner)>>))

Fields ==
  LET leaves == DOMAIN Leaf IN
  [depth : {0}, leaves : {<<l>> : l \in leaves}]
    \cup [depth : {1, 2}, leaves : BoundedSeq(leaves, 2)]

\* Two fields, one of them a leaf.
Structs ==
  LET Small(f) == f.depth = 0 IN
  {<<f, g>> \in Fields \X Fields : Small(f) \/ Small(g)}

StructOf(codes) == Named([i \in DOMAIN codes |-> FieldOf(codes[i])])

----------------------------------------------------------------------------
(* The specification *)

\* Each behaviour is of one program; the others stay at an input of theirs.
MCInit ==
  /\ program \in {"cache", "copy", "stats", "envdir", "unpack", "top",
                   "validator"}
  /\ CacheInit /\ (program = "cache" \/ capacity = 0)
  /\ IF program = "copy" THEN \E j \in SomeJobs : CopyStart(j)
     ELSE CopyStart(Job(0))
  /\ IF program = "stats"
     THEN \E ls \in SomeLines, d \in {<<"g">>, <<"G">>} : StatStart(ls, d)
     ELSE StatStart(<<>>, <<>>)
  /\ IF program = "envdir" THEN \E e \in EnvInputs : EnvdirStart(e.dir, e.env)
     ELSE EnvdirStart(<<>>, <<>>)
  /\ IF program = "unpack" THEN \E s \in Packed : UnpackStart(s)
     ELSE UnpackStart(<<>>)
  /\ IF program = "top"
     THEN \E t \in BoundedSeq(ShortWords, MaxWords), c \in BOOLEAN : TopStart(t, c)
     ELSE TopStart(<<>>, FALSE)
  /\ IF program = "validator" THEN argument \in Structs ELSE argument = <<>>

OneProgram ==
  \/ /\ program = "copy" /\ CopyNext
     /\ UNCHANGED <<statVars, envdirVars, unpackVars, topVars>>
  \/ /\ program = "stats" /\ StatNext
     /\ UNCHANGED <<copyVars, envdirVars, unpackVars, topVars>>
  \/ /\ program = "envdir" /\ EnvdirNext
     /\ UNCHANGED <<copyVars, statVars, unpackVars, topVars>>
  \/ /\ program = "unpack" /\ UnpackNext
     /\ UNCHANGED <<copyVars, statVars, envdirVars, topVars>>
  \/ /\ program = "top" /\ TopNext
     /\ UNCHANGED <<copyVars, statVars, envdirVars, unpackVars>>

MCNext ==
  \/ program = "cache" /\ CacheNext /\ UNCHANGED <<answers, program, argument>>
  \/ OneProgram /\ UNCHANGED <<cacheVars, program, argument>>

MCSpec == MCInit /\ [][MCNext]_mcVars

----------------------------------------------------------------------------
(* Properties of the program that is not a state machine here *)

\* The reported errors against the checks a struct asks for, nested ones, slices
\* and rules that do not parse included.
ValidatorIsRight == program = "validator" => V!ValidatorAgrees(StructOf(argument))

\* What the comment on the errors of the validator calls program errors is not
\* reported among the errors of validation.
ProgramErrorsAreApart ==
  program = "validator" => V!ProgramErrorsApart(StructOf(argument))
=============================================================================
