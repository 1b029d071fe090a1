------------------------------ MODULE TopWords ------------------------------
(***************************************************************************)
(* Frequency analysis (hw03).  A rune is a number, in the order of the     *)
(* code points: 0 is a sign that is neither letter nor number, 1 is an     *)
(* upper-case letter and 2 its lower case, the others have no case.  A     *)
(* word is a sequence of runes, and a text is what strings.Fields makes of *)
(* it, a sequence of words.                                                *)
(***************************************************************************)
EXTENDS Integers, Sequences, FiniteSets, SequencesExt

CONSTANT Top   \* bound: how many words are asked for, 10 in the code

ASSUME TopAssumption == Top \in Nat

VARIABLES
  text,      \* the argument
  clean,     \* whether it is Top10Clean that runs
  counted,   \* the words counted so far
  freq,      \* the map
  top,       \* the answer
  analyst    \* "count", or "answered"

topVars == <<text, clean, counted, freq, top, analyst>>

Words == Seq(Nat) \ {<<>>}

TopStart(t, c) ==
  /\ text = t /\ clean = c
  /\ counted = 0 /\ freq = [w \in {} |-> 0]
  /\ top = <<>> /\ analyst = "count"

----------------------------------------------------------------------------
(* Top10 and Top10Clean *)

IsLetterOrNumber(r) == r > 0

ToLower(word) == [i \in DOMAIN word |-> IF word[i] = 1 THEN 2 ELSE word[i]]

\* words[i] < words[j]: the order of Go's strings.
Precedes(v, w) ==
  \E k \in 0 .. Len(v) :
    /\ k <= Len(w) /\ SubSeq(v, 1, k) = SubSeq(w, 1, k)
    /\ \/ k = Len(v) /\ k < Len(w)
       \/ k < Len(v) /\ k < Len(w) /\ v[k + 1] < w[k + 1]

\* Cuts the signs off both ends; one sign alone is no word, several are.
cleanWord(word) ==
  LET kept == {i \in DOMAIN word : IsLetterOrNumber(word[i])} IN
  IF kept # {}
  THEN SubSeq(word, CHOOSE i \in kept : \A j \in kept : i <= j,
                    CHOOSE i \in kept : \A j \in kept : j <= i)
  ELSE IF Len(word) = 1 THEN <<>> ELSE word

\* Mutant: the words are counted before they are lower-cased.
CountedAsWritten(word) == IF clean THEN cleanWord(word) ELSE word

\* The word that text[i] counts for, none if it is empty.
Counted(word) == IF clean THEN ToLower(cleanWord(word)) ELSE word

CountWord ==
  /\ analyst = "count" /\ counted < Len(text)
  /\ LET word == Counted(text[counted + 1]) IN
     freq' = IF word = <<>> THEN freq
             ELSE [w \in DOMAIN freq \cup {word} |->
                     (IF w \in DOMAIN freq THEN freq[w] ELSE 0)
                       + (IF w = word THEN 1 ELSE 0)]
  /\ counted' = counted + 1
  /\ UNCHANGED <<text, clean, top, analyst>>

\* The less function of the sort.
Less(v, w) ==
  IF freq[v] = freq[w] THEN Precedes(v, w) ELSE freq[v] > freq[w]

\* sort.Slice leaves no word less than one before it, in whatever order the map
\* was ranged over.
getTopWords ==
  /\ analyst = "count" /\ counted = Len(text)
  /\ \E words \in SetToSeqs(DOMAIN freq) :
       /\ \A i, j \in DOMAIN words : i < j => ~Less(words[j], words[i])
       /\ top' = IF Len(words) > Top THEN SubSeq(words, 1, Top) ELSE words
  /\ analyst' = "answered"
  /\ UNCHANGED <<text, clean, counted, freq>>

TopNext == CountWord \/ getTopWords

TopSpec ==
  /\ \E t \in Seq(Words), c \in BOOLEAN : TopStart(t, c)
  /\ [][TopNext]_topVars

----------------------------------------------------------------------------
(* Property: the words that count at a position, and who is ahead of whom. *)

\* word[i .. j] is the longest part that begins and ends with a letter or number.
Core(word, i, j) ==
  /\ IsLetterOrNumber(word[i]) /\ IsLetterOrNumber(word[j])
  /\ \A k \in DOMAIN word : k < i \/ k > j => ~IsLetterOrNumber(word[k])

CountsAs(word, w) ==
  IF ~clean THEN w = word
  ELSE \/ \E i, j \in DOMAIN word : Core(word, i, j) /\ w = ToLower(SubSeq(word, i, j))
       \/ Len(word) > 1 /\ ToSet(word) = {0} /\ w = word

Occurs(w) == Cardinality({i \in DOMAIN text : CountsAs(text[i], w)})

\* The words of a text: parts of its words, or these in lower case.
Candidates ==
  LET From(word, i) == {SubSeq(word, i, j) : j \in DOMAIN word}
      Parts(word) == UNION {From(word, i) : i \in DOMAIN word}
      parts == UNION {Parts(text[n]) : n \in DOMAIN text}
  IN parts \cup {ToLower(p) : p \in parts}

Occurring == {w \in Candidates : Occurs(w) > 0}

Ahead(v, w) ==
  Occurs(v) > Occurs(w) \/ (Occurs(v) = Occurs(w) /\ Precedes(v, w))

\* The k-th word of an answer has k - 1 words ahead of it and none is left out
\* below Top; the extended variant does not depend on case or on the signs
\* around a word.
TopIsRight ==
  analyst = "answered" =>
    /\ Len(top) = IF Cardinality(Occurring) < Top THEN Cardinality(Occurring)
                  ELSE Top
    /\ \A k \in DOMAIN top :
         /\ top[k] \in Occurring
         /\ Cardinality({v \in Occurring : Ahead(v, top[k])}) = k - 1
=============================================================================
