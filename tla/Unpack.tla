------------------------------- MODULE Unpack -------------------------------
(***************************************************************************)
(* String unpacking (hw02).  A rune is a string of one character; the one  *)
(* called "other" stands for a digit outside ASCII: unicode.IsDigit takes  *)
(* it for a digit, strconv.Atoi answers 0 and an error the code drops.     *)
(***************************************************************************)
EXTENDS Integers, Sequences

VARIABLES
  runes,     \* the argument
  at,        \* the next rune
  builder,   \* the runes written
  unpacker   \* "loop", or how Unpack ended: "nil" or "invalid"

unpackVars == <<runes, at, builder, unpacker>>

UnpackStart(s) ==
  runes = s /\ at = 1 /\ builder = <<>> /\ unpacker = "loop"

Ascii == <<"0", "1", "2", "3", "4", "5", "6", "7", "8", "9">>

IsDigit(r) == r = "other" \/ \E n \in 0 .. 9 : r = Ascii[n + 1]

Atoi(r) == IF r = "other" THEN 0 ELSE CHOOSE n \in 0 .. 9 : r = Ascii[n + 1]

----------------------------------------------------------------------------
(* Unpack *)

Digit(i) == i \in DOMAIN runes /\ IsDigit(runes[i])

\* Mutant: a count that ends the string is not seen.
WriteCharEarly(i) ==
  \/ /\ ~(Digit(i + 1) /\ i + 1 < Len(runes))
     /\ builder' = Append(builder, runes[i])
     /\ at' = i + 1 /\ unpacker' = unpacker
  \/ /\ Digit(i + 1) /\ i + 1 < Len(runes) /\ ~Digit(i + 2)
     /\ builder' = builder \o [k \in 1 .. Atoi(runes[i + 1]) |-> runes[i]]
     /\ at' = i + 2 /\ unpacker' = unpacker
  \/ /\ Digit(i + 1) /\ Digit(i + 2)
     /\ unpacker' = "invalid"
     /\ UNCHANGED <<at, builder>>

\* Writes rune i as often as the digit after it says, or once; two digits are
\* no count.
writeChar(i) ==
  \/ /\ ~Digit(i + 1)
     /\ builder' = Append(builder, runes[i])
     /\ at' = i + 1 /\ unpacker' = unpacker
  \/ /\ Digit(i + 1) /\ ~Digit(i + 2)
     /\ builder' = builder \o [k \in 1 .. Atoi(runes[i + 1]) |-> runes[i]]
     /\ at' = i + 2 /\ unpacker' = unpacker
  \/ /\ Digit(i + 1) /\ Digit(i + 2)
     /\ unpacker' = "invalid"
     /\ UNCHANGED <<at, builder>>

Looping == unpacker = "loop" /\ at <= Len(runes)

Escapable(i) == i \in DOMAIN runes /\ (runes[i] = "\\" \/ IsDigit(runes[i]))

EscapedRune ==
  /\ Looping /\ runes[at] = "\\" /\ Escapable(at + 1)
  /\ writeChar(at + 1)
  /\ UNCHANGED runes

PlainRune ==
  /\ Looping /\ runes[at] # "\\" /\ ~IsDigit(runes[at])
  /\ writeChar(at)
  /\ UNCHANGED runes

InvalidRune ==
  /\ Looping
  /\ IF runes[at] = "\\" THEN ~Escapable(at + 1) ELSE IsDigit(runes[at])
  /\ unpacker' = "invalid"
  /\ UNCHANGED <<runes, at, builder>>

EndOfString ==
  /\ unpacker = "loop" /\ at > Len(runes)
  /\ unpacker' = "nil"
  /\ UNCHANGED <<runes, at, builder>>

UnpackNext == EscapedRune \/ PlainRune \/ InvalidRune \/ EndOfString

UnpackSpec == (\E s \in Seq(STRING) : UnpackStart(s)) /\ [][UnpackNext]_unpackVars

----------------------------------------------------------------------------
(* Property: every rune has a role, and its neighbours must agree with it. *)

Role == {"escape", "char", "count"}

\* The role of rune i agrees with the rune and with the role before it.
Fits(s, role, i) ==
  LET before == IF i = 1 THEN "none" ELSE role[i - 1] IN
  /\ role[i] = "escape" => /\ s[i] = "\\" /\ i < Len(s)
                           /\ before # "escape" /\ role[i + 1] = "char"
  /\ role[i] = "char" =>
       ((before = "escape") <=> (s[i] = "\\" \/ IsDigit(s[i])))
  /\ role[i] = "count" => IsDigit(s[i]) /\ before = "char"

Readings(s) == {role \in [DOMAIN s -> Role] : \A i \in DOMAIN s : Fits(s, role, i)}

\* How often rune i is to be written.
Times(s, role, i) ==
  IF role[i] # "char" THEN 0
  ELSE IF i < Len(s) /\ role[i + 1] = "count" THEN Atoi(s[i + 1]) ELSE 1

\* out is each rune of s in its order, as often as it is to be written: there is
\* a place in out where what stands for a rune and those before it ends.
Expands(out, s, role) ==
  \E ends \in [0 .. Len(s) -> 0 .. Len(out)] :
    /\ ends[0] = 0 /\ ends[Len(s)] = Len(out)
    /\ \A i \in DOMAIN s :
         /\ ends[i] = ends[i - 1] + Times(s, role, i)
         /\ \A k \in ends[i - 1] + 1 .. ends[i] : out[k] = s[i]

\* Unpack accepts the strings that can be read as runes with counts, and gives
\* the expansion of every reading; it refuses those that cannot be read.
UnpackIsRight ==
  /\ unpacker = "invalid" => Readings(runes) = {}
  /\ unpacker = "nil" =>
       /\ Readings(runes) # {}
       /\ \A role \in Readings(runes) : Expands(builder, runes, role)
=============================================================================
