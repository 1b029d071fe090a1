--------------------------- MODULE LruCacheProofs ---------------------------
(***************************************************************************)
(* The linked list and the cache of hw04 for any number of items and keys: *)
(* the pointers and the map always agree, and the cache is, to its caller, *)
(* the one of Recency.                                                     *)
(*                                                                         *)
(* The argument is a sequence of items that the pointers stand for: every  *)
(* operation of the list is followed on it, and the sequence is unique     *)
(* (OneReading), so that Order and KeyOrder are what the operations make.  *)
(***************************************************************************)
EXTENDS LruCache, SequenceTheorems, FiniteSetTheorems, WellFoundedInduction, TLAPS

----------------------------------------------------------------------------
(* Least numbers *)

\* The order of the numbers as a relation, for the lemmas on well-founded ones.
Less == {ss \in Nat \X Nat : ss[1] < ss[2]}

\* Every set of numbers that is not empty has a least one.
LEMMA LeastNumber ==
  ASSUME NEW S, S \subseteq Nat, S # {}
  PROVE  \E n \in S : \A m \in S : n <= m
<1>1. IsWellFoundedOn(Less, Nat)
  BY NatLessThanWellFounded DEF Less, OpToRel
<1>2. PICK n \in S : \A m \in S : ~(<<m, n>> \in Less)
  BY <1>1, WFMin
<1>3. \A m \in S : ~(m < n)
  BY <1>2 DEF Less
<1> QED
  BY <1>3

----------------------------------------------------------------------------
(* Sequences of items *)

\* An arrangement is a sequence with nothing twice: no bound is in its way.
LEMMA ArrangementFacts ==
  ASSUME NEW s
  PROVE  s \in Arrangements <=>
           s \in Seq(Cells) /\ \A i, j \in 1 .. Len(s) : s[i] = s[j] => i = j
<1>1. ASSUME s \in Arrangements
      PROVE  s \in Seq(Cells) /\ \A i, j \in 1 .. Len(s) : s[i] = s[j] => i = j
  <2>1. PICK n \in 0 .. Cardinality(Cells) : s \in Injection(1 .. n, Cells)
    BY <1>1 DEF Arrangements
  <2>2. n \in Nat /\ s \in [1 .. n -> Cells] /\ IsInjective(s)
    BY <2>1, CellAssumption, FS_CardinalityType DEF Injection
  <2>3. s \in Seq(Cells) /\ Len(s) = n
    BY <2>2
  <2> QED
    BY <2>2, <2>3 DEF IsInjective
<1>2. ASSUME s \in Seq(Cells), \A i, j \in 1 .. Len(s) : s[i] = s[j] => i = j
      PROVE  s \in Arrangements
  <2> DEFINE n == Len(s)
  <2>1. n \in Nat /\ s \in [1 .. n -> Cells] /\ DOMAIN s = 1 .. n
    BY <1>2
  <2>2. s \in Injection(1 .. n, Cells)
    BY <2>1, <1>2 DEF Injection, IsInjective
  <2> HIDE DEF n
  <2>3. Cardinality(1 .. n) <= Cardinality(Cells)
    BY <2>2, CellAssumption, FS_Injection
  <2>4. Cardinality(1 .. n) = n
    BY <2>1, FS_Interval
  <2>5. Cardinality(Cells) \in Nat
    BY CellAssumption, FS_CardinalityType
  <2>6. n \in 0 .. Cardinality(Cells)
    BY <2>1, <2>3, <2>4, <2>5
  <2> QED
    BY <2>2, <2>6 DEF Arrangements
<1> QED
  BY <1>1, <1>2

\* s without its p-th element.
Without(s, p) == SubSeq(s, 1, p - 1) \o SubSeq(s, p + 1, Len(s))

\* What it has at each place.
LEMMA WithoutFacts ==
  ASSUME NEW S, NEW s \in Seq(S), NEW p \in 1 .. Len(s)
  PROVE  /\ Without(s, p) \in Seq(S)
         /\ Len(Without(s, p)) = Len(s) - 1
         /\ \A i \in 1 .. Len(s) - 1 :
              Without(s, p)[i] = IF i < p THEN s[i] ELSE s[i + 1]
<1> DEFINE a == SubSeq(s, 1, p - 1)
           b == SubSeq(s, p + 1, Len(s))
<1>1. /\ Len(s) \in Nat /\ \A i \in 1 .. Len(s) : s[i] \in S
  OBVIOUS
<1>2. /\ a \in Seq(S) /\ Len(a) = p - 1
      /\ \A i \in 1 .. p - 1 : a[i] = s[i]
  BY <1>1, SubSeqProperties
<1>3. /\ b \in Seq(S) /\ Len(b) = Len(s) - p
      /\ \A i \in 1 .. Len(s) - p : b[i] = s[p + i]
  BY <1>1, SubSeqProperties
<1> HIDE DEF a, b
<1>4. /\ a \o b \in Seq(S) /\ Len(a \o b) = Len(s) - 1
      /\ \A i \in 1 .. Len(s) - 1 :
           (a \o b)[i] = IF i <= p - 1 THEN a[i] ELSE b[i - (p - 1)]
  BY <1>1, <1>2, <1>3, ConcatProperties
<1>5. ASSUME NEW i \in 1 .. Len(s) - 1
      PROVE  (a \o b)[i] = IF i < p THEN s[i] ELSE s[i + 1]
  <2>1. CASE i < p
    <3>1. i \in 1 .. p - 1 /\ i <= p - 1
      BY <2>1, <1>1
    <3> QED
      BY <3>1, <2>1, <1>2, <1>4
  <2>2. CASE ~(i < p)
    <3>1. /\ ~(i <= p - 1) /\ i - (p - 1) \in 1 .. Len(s) - p
          /\ p + (i - (p - 1)) = i + 1
      BY <2>2, <1>1
    <3>2. b[i - (p - 1)] = s[i + 1]
      BY <3>1, <1>3
    <3> QED
      BY <3>1, <3>2, <2>2, <1>4
  <2> QED
    BY <2>1, <2>2
<1> QED
  BY <1>4, <1>5 DEF Without, a, b

\* What is left of an arrangement is one, without the item.
LEMMA WithoutArrangement ==
  ASSUME NEW s \in Arrangements, NEW p \in 1 .. Len(s)
  PROVE  /\ Without(s, p) \in Arrangements
         /\ Range(Without(s, p)) = Range(s) \ {s[p]}
<1> DEFINE t == Without(s, p)
<1>1. s \in Seq(Cells) /\ \A i, j \in 1 .. Len(s) : s[i] = s[j] => i = j
  BY ArrangementFacts
<1>2. /\ t \in Seq(Cells) /\ Len(t) = Len(s) - 1 /\ Len(s) \in Nat
      /\ \A i \in 1 .. Len(s) - 1 : t[i] = IF i < p THEN s[i] ELSE s[i + 1]
  <2>1. s \in Seq(Cells) /\ Len(s) \in Nat
    BY <1>1
  <2> QED
    BY <2>1, WithoutFacts, Zenon
<1>a. DOMAIN t = 1 .. Len(s) - 1 /\ DOMAIN s = 1 .. Len(s)
  BY <1>1, <1>2
<1> HIDE DEF t
<1>3. \A i, j \in 1 .. Len(t) : t[i] = t[j] => i = j
  BY <1>1, <1>2
<1>4. ASSUME NEW c \in Range(t)
      PROVE  c \in Range(s) \ {s[p]}
  BY <1>1, <1>2, <1>a DEF Range
<1>5. ASSUME NEW c \in Range(s) \ {s[p]}
      PROVE  c \in Range(t)
  <2>1. PICK k \in 1 .. Len(s) : c = s[k] /\ k # p
    BY <1>2, <1>a DEF Range
  <2>2. CASE k < p
    BY <2>1, <2>2, <1>2, <1>a DEF Range
  <2>3. CASE k > p
    <3>1. k - 1 \in 1 .. Len(s) - 1 /\ t[k - 1] = s[k]
      BY <2>1, <2>3, <1>2
    <3> QED
      BY <2>1, <3>1, <1>2, <1>a DEF Range
  <2> QED
    BY <2>1, <2>2, <2>3
<1> QED
  BY <1>2, <1>3, <1>4, <1>5, ArrangementFacts DEF t

\* An item in front of an arrangement that it is not part of.
LEMMA InFront ==
  ASSUME NEW s \in Arrangements, NEW c \in Cells \ Range(s)
  PROVE  /\ <<c>> \o s \in Arrangements
         /\ Range(<<c>> \o s) = Range(s) \cup {c}
         /\ Len(<<c>> \o s) = Len(s) + 1
         /\ (<<c>> \o s)[1] = c
         /\ \A i \in 1 .. Len(s) : (<<c>> \o s)[i + 1] = s[i]
<1> DEFINE t == <<c>> \o s
<1>1. s \in Seq(Cells) /\ \A i, j \in 1 .. Len(s) : s[i] = s[j] => i = j
  BY ArrangementFacts
<1>2. /\ t \in Seq(Cells) /\ Len(t) = Len(s) + 1 /\ Len(s) \in Nat
      /\ \A i \in 1 .. Len(s) + 1 : t[i] = IF i = 1 THEN c ELSE s[i - 1]
      /\ DOMAIN t = 1 .. Len(s) + 1 /\ DOMAIN s = 1 .. Len(s)
  <2>1. <<c>> \in Seq(Cells) /\ Len(<<c>>) = 1 /\ <<c>>[1] = c
    OBVIOUS
  <2> QED
    BY <2>1, <1>1, ConcatProperties
<1> HIDE DEF t
<1>3. t[1] = c /\ \A i \in 1 .. Len(s) : t[i + 1] = s[i]
  BY <1>2
<1>4. \A i \in 1 .. Len(s) : s[i] # c
  BY <1>2 DEF Range
<1>5. \A i, j \in 1 .. Len(t) : t[i] = t[j] => i = j
  BY <1>1, <1>2, <1>4
<1>6. ASSUME NEW d \in Range(t)
      PROVE  d \in Range(s) \cup {c}
  BY <1>2 DEF Range
<1>7. ASSUME NEW d \in Range(s) \cup {c}
      PROVE  d \in Range(t)
  <2>1. CASE d = c
    <3>1. 1 \in DOMAIN t
      BY <1>2
    <3> QED
      BY <2>1, <3>1, <1>3 DEF Range
  <2>2. CASE d \in Range(s)
    <3>1. PICK i \in 1 .. Len(s) : d = s[i]
      BY <2>2, <1>2 DEF Range
    <3>2. i + 1 \in DOMAIN t /\ t[i + 1] = d
      BY <3>1, <1>2, <1>3
    <3> QED
      BY <3>2 DEF Range
  <2> QED
    BY <2>1, <2>2
<1> QED
  BY <1>2, <1>3, <1>5, <1>6, <1>7, ArrangementFacts DEF t

----------------------------------------------------------------------------
(* The operations of the list *)

\* An arrangement as a sequence.
LEMMA Items ==
  ASSUME NEW s \in Arrangements
  PROVE  /\ s \in Seq(Cells) /\ Len(s) \in Nat /\ DOMAIN s = 1 .. Len(s)
         /\ Range(s) = {s[i] : i \in 1 .. Len(s)}
         /\ \A i \in 1 .. Len(s) : s[i] \in Cells /\ s[i] # Nil
         /\ s = <<>> <=> Len(s) = 0
<1>1. s \in Seq(Cells)
  BY ArrangementFacts
<1>2. Len(s) \in Nat /\ DOMAIN s = 1 .. Len(s) /\ (s = <<>> <=> Len(s) = 0)
  BY <1>1
<1>3. \A i \in 1 .. Len(s) : s[i] \in Cells
  BY <1>1
<1> QED
  BY <1>1, <1>2, <1>3, CellAssumption DEF Range

\* The ends of a list, from what it stands for.
LEMMA Ends ==
  ASSUME NEW l, NEW s \in Arrangements, Represents(l, s)
  PROVE  /\ Len(s) = 0 => l.front = Nil /\ l.back = Nil
         /\ Len(s) # 0 => l.front = s[1] /\ l.front # Nil /\ l.back = s[Len(s)]
<1>1. /\ l.front = IF s = <<>> THEN Nil ELSE s[1]
      /\ l.back = IF s = <<>> THEN Nil ELSE s[Len(s)]
  BY DEF Represents
<1>2. Len(s) # 0 => s[1] # Nil
  <2>1. Len(s) # 0 => 1 \in 1 .. Len(s)
    BY Items
  <2> QED
    BY <2>1, Items
<1> QED
  BY <1>1, <1>2, Items

\* The pointers of its items, and of the others.
LEMMA Pointers ==
  ASSUME NEW l, NEW s \in Arrangements, Represents(l, s)
  PROVE  /\ l.len = Len(s)
         /\ \A i \in 1 .. Len(s) :
              /\ l.prev[s[i]] = IF i = 1 THEN Nil ELSE s[i - 1]
              /\ l.next[s[i]] = IF i = Len(s) THEN Nil ELSE s[i + 1]
         /\ \A c \in Cells \ Range(s) : l.prev[c] = Nil /\ l.next[c] = Nil
BY Items DEF Represents

\* Each item has one place in the list.
LEMMA OnePlace ==
  ASSUME NEW s \in Arrangements
  PROVE  \A i, j \in 1 .. Len(s) : s[i] = s[j] => i = j
BY ArrangementFacts

\* A list of fields of the right types.
LEMMA ListOf ==
  ASSUME NEW f \in Pointer, NEW b \in Pointer, NEW n \in Int,
         NEW p \in [Cells -> Pointer], NEW x \in [Cells -> Pointer]
  PROVE  [front |-> f, back |-> b, len |-> n, prev |-> p, next |-> x] \in List
BY DEF List

\* The fields of what the operations return.
LEMMA PushFrontFields ==
  ASSUME NEW l \in List, NEW c \in Cells
  PROVE  /\ PushFront(l, c) \in List
         /\ PushFront(l, c).front = c
         /\ PushFront(l, c).len = l.len + 1
         /\ l.front = Nil =>
              /\ PushFront(l, c).back = c
              /\ PushFront(l, c).prev = l.prev
              /\ PushFront(l, c).next = l.next
         /\ l.front # Nil =>
              /\ PushFront(l, c).back = l.back
              /\ PushFront(l, c).prev = [l.prev EXCEPT ![l.front] = c]
              /\ PushFront(l, c).next = [l.next EXCEPT ![c] = l.front]
<1>1. CASE l.front = Nil
  <2>1. PushFront(l, c) = [front |-> c, back |-> c, len |-> l.len + 1,
                           prev |-> l.prev, next |-> l.next]
    BY <1>1 DEF List, PushFront
  <2> QED
    BY <2>1, <1>1, ListOf DEF List, Pointer
<1>2. CASE l.front # Nil
  <2>1. PushFront(l, c) = [front |-> c, back |-> l.back, len |-> l.len + 1,
                           prev |-> [l.prev EXCEPT ![l.front] = c],
                           next |-> [l.next EXCEPT ![c] = l.front]]
    BY <1>2 DEF List, PushFront
  <2> QED
    BY <2>1, <1>2, ListOf DEF List, Pointer
<1> QED
  BY <1>1, <1>2

\* Unlink field by field, with the neighbours of the item named.
LEMMA UnlinkFields ==
  ASSUME NEW l \in List, NEW c \in Cells
  PROVE  LET u == Unlink(l, c)
             p == l.prev[c]
             n == l.next[c]
         IN /\ u \in List
            /\ u.len = l.len
            /\ u.front = IF p = Nil THEN n ELSE l.front
            /\ u.back = IF n = Nil THEN p ELSE l.back
            /\ u.next = IF p = Nil THEN l.next ELSE [l.next EXCEPT ![p] = n]
            /\ u.prev = IF n = Nil THEN l.prev ELSE [l.prev EXCEPT ![n] = p]
<1> DEFINE u == Unlink(l, c)
           p == l.prev[c]
           n == l.next[c]
<1>1. /\ u.len = l.len
      /\ u.front = IF p = Nil THEN n ELSE l.front
      /\ u.back = IF n = Nil THEN p ELSE l.back
      /\ u.next = IF p = Nil THEN l.next ELSE [l.next EXCEPT ![p] = n]
      /\ u.prev = IF n = Nil THEN l.prev ELSE [l.prev EXCEPT ![n] = p]
  BY DEF List, Unlink
<1>2. /\ p \in Pointer /\ n \in Pointer /\ l.front \in Pointer /\ l.back \in Pointer
      /\ l.prev \in [Cells -> Pointer] /\ l.next \in [Cells -> Pointer]
  BY DEF List
<1>3. u \in List
  <2> DEFINE f == IF p = Nil THEN n ELSE l.front
             x == IF p = Nil THEN l.next ELSE [l.next EXCEPT ![p] = n]
             y == IF n = Nil THEN l.prev ELSE [l.prev EXCEPT ![n] = p]
             b == IF n = Nil THEN p ELSE l.back
  <2>1. u = [l EXCEPT !.front = f, !.next = x, !.prev = y, !.back = b]
    BY DEF Unlink
  <2>2. f \in Pointer /\ b \in Pointer
    BY <1>2
  <2>3. x \in [Cells -> Pointer] /\ y \in [Cells -> Pointer]
    BY <1>2
  <2> HIDE DEF f, x, y, b, u
  <2> QED
    BY <2>1, <2>2, <2>3 DEF List
<1> QED
  BY <1>1, <1>3

\* Remove field by field.
LEMMA RemoveFields ==
  ASSUME NEW l \in List, NEW c \in Cells
  PROVE  LET u == Unlink(l, c)
             r == RemoveItem(l, c)
         IN /\ r \in List
            /\ r.len = l.len - 1
            /\ r.front = u.front /\ r.back = u.back
            /\ r.next = [u.next EXCEPT ![c] = Nil]
            /\ r.prev = [u.prev EXCEPT ![c] = Nil]
<1> DEFINE u == Unlink(l, c)
           r == RemoveItem(l, c)
<1>1. u \in List /\ u.len = l.len
  BY UnlinkFields
<1> HIDE DEF u
<1>2. r = [front |-> u.front, back |-> u.back, len |-> u.len - 1,
           prev |-> [u.prev EXCEPT ![c] = Nil],
           next |-> [u.next EXCEPT ![c] = Nil]]
  <2>1. r = [u EXCEPT !.next[c] = Nil, !.prev[c] = Nil, !.len = @ - 1]
    BY DEF RemoveItem, u
  <2> HIDE DEF r
  <2> QED
    BY <2>1, <1>1 DEF List
<1> HIDE DEF r
<1>3. r \in List
  BY <1>1, <1>2, ListOf DEF List, Pointer
<1> QED
  BY <1>1, <1>2, <1>3 DEF u, r

\* MoveToFront field by field, for an item that is not the first.
LEMMA MoveToFrontFields ==
  ASSUME NEW l \in List, NEW c \in Cells, c # l.front, Unlink(l, c).front \in Cells
  PROVE  LET u == Unlink(l, c)
             r == MoveToFront(l, c)
         IN /\ r \in List
            /\ r.len = l.len
            /\ r.front = c /\ r.back = u.back
            /\ r.next = [u.next EXCEPT ![c] = u.front]
            /\ r.prev = [u.prev EXCEPT ![c] = Nil, ![u.front] = c]
<1> DEFINE u == Unlink(l, c)
           r == MoveToFront(l, c)
<1>1. u \in List /\ u.len = l.len
  BY UnlinkFields
<1> HIDE DEF u
<1>2. r = [front |-> c, back |-> u.back, len |-> u.len,
           prev |-> [u.prev EXCEPT ![c] = Nil, ![u.front] = c],
           next |-> [u.next EXCEPT ![c] = u.front]]
  BY <1>1 DEF List, MoveToFront, u
<1> HIDE DEF r
<1>3. r \in List
  BY <1>1, <1>2, ListOf DEF List, Pointer, u
<1> QED
  BY <1>1, <1>2, <1>3 DEF u, r

\* PushFront puts its item in front of the others.
LEMMA PushFrontRepresents ==
  ASSUME NEW l \in List, NEW s \in Arrangements, Represents(l, s),
         NEW c \in Cells \ Range(s)
  PROVE  PushFront(l, c) \in List /\ Represents(PushFront(l, c), <<c>> \o s)
<1> DEFINE r == PushFront(l, c)
           t == <<c>> \o s
           n == Len(s)
<1>1. /\ n \in Nat /\ Range(s) = {s[i] : i \in 1 .. n}
      /\ \A i \in 1 .. n : s[i] \in Cells /\ s[i] # Nil
  BY Items
<1>2. /\ t \in Arrangements /\ Range(t) = Range(s) \cup {c} /\ Len(t) = n + 1
      /\ t[1] = c /\ \A i \in 1 .. n : t[i + 1] = s[i]
  BY InFront
<1>3. /\ n = 0 => l.front = Nil /\ l.back = Nil
      /\ n # 0 => l.front = s[1] /\ l.front # Nil /\ l.back = s[n]
  BY Ends
<1>4. /\ l.len = n
      /\ \A i \in 1 .. n :
           /\ l.prev[s[i]] = IF i = 1 THEN Nil ELSE s[i - 1]
           /\ l.next[s[i]] = IF i = n THEN Nil ELSE s[i + 1]
      /\ \A d \in Cells \ Range(s) : l.prev[d] = Nil /\ l.next[d] = Nil
  BY Pointers
<1>5. DOMAIN t = 1 .. n + 1 /\ t # <<>>
  <2> HIDE DEF t, n
  <2> QED
    BY <1>1, <1>2, Items
<1>6. \A i \in 1 .. n : s[i] # c
  BY <1>1
<1>7. l.prev \in [Cells -> Pointer] /\ l.next \in [Cells -> Pointer]
  BY DEF List
<1>8. /\ r \in List /\ r.front = c /\ r.len = n + 1
      /\ r.back = IF n = 0 THEN c ELSE l.back
      /\ r.next = IF n = 0 THEN l.next ELSE [l.next EXCEPT ![c] = s[1]]
      /\ r.prev = IF n = 0 THEN l.prev ELSE [l.prev EXCEPT ![s[1]] = c]
  <2>0. c \in Cells
    OBVIOUS
  <2>a. /\ r \in List /\ r.front = c /\ r.len = l.len + 1
        /\ l.front = Nil => r.back = c /\ r.prev = l.prev /\ r.next = l.next
        /\ l.front # Nil =>
             /\ r.back = l.back
             /\ r.prev = [l.prev EXCEPT ![l.front] = c]
             /\ r.next = [l.next EXCEPT ![c] = l.front]
    BY <2>0, PushFrontFields
  <2> HIDE DEF r, n
  <2>1. /\ r \in List /\ r.front = c /\ r.len = n + 1
    BY <2>a, <1>4
  <2>2. CASE n = 0
    BY <2>1, <2>2, <1>3, <2>a
  <2>3. CASE n # 0
    BY <2>1, <2>3, <1>3, <2>a
  <2> QED
    BY <2>1, <2>2, <2>3
<1> HIDE DEF r, t
<1>9. r.back = t[Len(t)]
  <2> HIDE DEF n
  <2>1. CASE n = 0
    BY <2>1, <1>2, <1>8
  <2>2. CASE n # 0
    <3>1. n \in 1 .. n
      BY <2>2, <1>1
    <3> QED
      BY <3>1, <2>2, <1>2, <1>3, <1>8
  <2> QED
    BY <2>1, <2>2
<1>10. ASSUME NEW i \in 1 .. n + 1
       PROVE  /\ r.prev[t[i]] = IF i = 1 THEN Nil ELSE t[i - 1]
              /\ r.next[t[i]] = IF i = n + 1 THEN Nil ELSE t[i + 1]
  <2>1. CASE i = 1
    <3> HIDE DEF n
    <3>1. t[i] = c /\ c \in Cells /\ l.prev[c] = Nil /\ l.next[c] = Nil
      BY <2>1, <1>2, <1>4
    <3>2. CASE n = 0
      BY <3>1, <3>2, <2>1, <1>8
    <3>3. CASE n # 0
      <4>1. 1 \in 1 .. n
        BY <3>3, <1>1
      <4>2. s[1] # c /\ t[2] = s[1] /\ s[1] \in Cells
        BY <4>1, <1>1, <1>2, <1>6
      <4>3. r.prev[c] = Nil /\ r.next[c] = s[1]
        BY <3>1, <3>3, <4>2, <1>7, <1>8
      <4> QED
        BY <4>2, <4>3, <3>1, <3>3, <2>1, <1>1
    <3> QED
      BY <3>2, <3>3
  <2>2. CASE i # 1
    <3> DEFINE k == i - 1
    <3>a. \A j \in 1 .. n : s[j] = s[1] => j = 1
      BY <1>1, OnePlace
    <3> HIDE DEF n
    <3>1. k \in 1 .. n /\ k + 1 = i /\ n # 0
      BY <2>2, <1>1
    <3> HIDE DEF k
    <3>2. t[i] = s[k] /\ s[k] # c /\ s[k] \in Cells /\ (s[k] = s[1] => k = 1)
      BY <3>1, <3>a, <1>1, <1>2, <1>6
    <3>3. /\ r.next[t[i]] = l.next[s[k]]
          /\ r.prev[t[i]] = IF k = 1 THEN c ELSE l.prev[s[k]]
      BY <3>1, <3>2, <1>7, <1>8
    <3>4. r.next[t[i]] = IF i = n + 1 THEN Nil ELSE t[i + 1]
      <4>1. CASE k = n
        BY <4>1, <3>1, <3>3, <1>4
      <4>2. CASE k # n
        <5>1. k + 1 \in 1 .. n /\ t[i + 1] = s[k + 1] /\ i # n + 1
          BY <4>2, <3>1, <1>1, <1>2
        <5> QED
          BY <4>2, <5>1, <3>1, <3>3, <1>4
      <4> QED
        BY <4>1, <4>2
    <3>5. r.prev[t[i]] = t[i - 1]
      <4>1. CASE k = 1
        BY <4>1, <3>1, <3>3, <1>2
      <4>2. CASE k # 1
        <5>1. k - 1 \in 1 .. n /\ i - 1 = (k - 1) + 1
          BY <4>2, <3>1, <1>1
        <5>2. t[i - 1] = s[k - 1]
          BY <5>1, <1>2
        <5> QED
          BY <4>2, <5>2, <3>1, <3>3, <1>4
      <4> QED
        BY <4>1, <4>2
    <3> QED
      BY <2>2, <3>4, <3>5
  <2> QED
    BY <2>1, <2>2
<1>11. ASSUME NEW d \in Cells \ Range(t)
       PROVE  r.prev[d] = Nil /\ r.next[d] = Nil
  <2> HIDE DEF n
  <2>1. d \in Cells \ Range(s) /\ d # c
    BY <1>2
  <2>2. n # 0 => d # s[1]
    <3>1. n # 0 => 1 \in 1 .. n
      BY <1>1
    <3> QED
      BY <2>1, <3>1, <1>1
  <2> QED
    BY <2>1, <2>2, <1>4, <1>7, <1>8
<1>12. Represents(r, t)
  <2> HIDE DEF n
  <2> QED
    BY <1>2, <1>5, <1>8, <1>9, <1>10, <1>11 DEF Represents
<1> QED
  BY <1>8, <1>12 DEF r, t

\* What Unlink leaves: the list without its p-th item, which keeps its pointers.
LEMMA UnlinkPointers ==
  ASSUME NEW l \in List, NEW s \in Arrangements, Represents(l, s),
         NEW p \in 1 .. Len(s)
  PROVE  LET u == Unlink(l, s[p])
             t == Without(s, p)
             n == Len(t)
         IN /\ u.front = IF n = 0 THEN Nil ELSE t[1]
            /\ u.back = IF n = 0 THEN Nil ELSE t[n]
            /\ \A i \in 1 .. n :
                 /\ u.prev[t[i]] = IF i = 1 THEN Nil ELSE t[i - 1]
                 /\ u.next[t[i]] = IF i = n THEN Nil ELSE t[i + 1]
            /\ \A d \in Cells \ Range(s) : u.prev[d] = Nil /\ u.next[d] = Nil
<1> DEFINE N == Len(s)
           c == s[p]
           u == Unlink(l, c)
           t == Without(s, p)
           pp == l.prev[c]
           nn == l.next[c]
<1>1. /\ N \in Nat /\ p \in 1 .. N /\ Range(s) = {s[i] : i \in 1 .. N}
      /\ \A i \in 1 .. N : s[i] \in Cells /\ s[i] # Nil
      /\ \A i, j \in 1 .. N : s[i] = s[j] => i = j
      /\ s \in Seq(Cells)
  BY Items, OnePlace
<1>2. /\ Len(t) = N - 1
      /\ \A i \in 1 .. N - 1 : t[i] = IF i < p THEN s[i] ELSE s[i + 1]
  BY <1>1, WithoutFacts, Zenon
<1>3. l.front = s[1] /\ l.back = s[N]
  <2>1. N # 0
    BY <1>1
  <2> QED
    BY <2>1, Ends
<1>4. /\ \A i \in 1 .. N :
           /\ l.prev[s[i]] = IF i = 1 THEN Nil ELSE s[i - 1]
           /\ l.next[s[i]] = IF i = N THEN Nil ELSE s[i + 1]
      /\ \A d \in Cells \ Range(s) : l.prev[d] = Nil /\ l.next[d] = Nil
  BY Pointers
<1>5. /\ pp = IF p = 1 THEN Nil ELSE s[p - 1]
      /\ nn = IF p = N THEN Nil ELSE s[p + 1]
  BY <1>4
<1>6. c \in Cells
  BY <1>1
<1>7. /\ u.front = IF pp = Nil THEN nn ELSE l.front
      /\ u.back = IF nn = Nil THEN pp ELSE l.back
      /\ u.next = IF pp = Nil THEN l.next ELSE [l.next EXCEPT ![pp] = nn]
      /\ u.prev = IF nn = Nil THEN l.prev ELSE [l.prev EXCEPT ![nn] = pp]
  BY <1>6, UnlinkFields
<1>8. l.prev \in [Cells -> Pointer] /\ l.next \in [Cells -> Pointer]
  BY DEF List
<1> HIDE DEF u, t, c, pp, nn, N
<1>9. /\ pp = Nil <=> p = 1
      /\ nn = Nil <=> p = N
  <2>1. p # 1 => p - 1 \in 1 .. N
    BY <1>1
  <2>2. p # N => p + 1 \in 1 .. N
    BY <1>1
  <2> QED
    BY <2>1, <2>2, <1>1, <1>5
<1>10. u.front = IF N - 1 = 0 THEN Nil ELSE t[1]
  <2>1. CASE p = 1
    <3>1. CASE N = 1
      BY <2>1, <3>1, <1>5, <1>7, <1>9
    <3>2. CASE N # 1
      <4>1. t[1] = s[2]
        BY <2>1, <3>2, <1>1, <1>2
      <4> QED
        BY <4>1, <2>1, <3>2, <1>1, <1>5, <1>7, <1>9
    <3> QED
      BY <3>1, <3>2
  <2>2. CASE p # 1
    <3>1. t[1] = s[1] /\ N - 1 # 0
      BY <2>2, <1>1, <1>2
    <3> QED
      BY <3>1, <2>2, <1>3, <1>7, <1>9
  <2> QED
    BY <2>1, <2>2
<1>11. u.back = IF N - 1 = 0 THEN Nil ELSE t[N - 1]
  <2>1. CASE p = N
    <3>1. CASE N = 1
      BY <2>1, <3>1, <1>5, <1>7, <1>9
    <3>2. CASE N # 1
      <4>1. t[N - 1] = s[N - 1] /\ N - 1 # 0
        BY <2>1, <3>2, <1>1, <1>2
      <4> QED
        BY <4>1, <2>1, <3>2, <1>5, <1>7, <1>9
    <3> QED
      BY <3>1, <3>2
  <2>2. CASE p # N
    <3>1. t[N - 1] = s[N] /\ N - 1 # 0
      BY <2>2, <1>1, <1>2
    <3> QED
      BY <3>1, <2>2, <1>3, <1>7, <1>9
  <2> QED
    BY <2>1, <2>2
<1>12. ASSUME NEW i \in 1 .. N - 1
       PROVE  /\ u.prev[t[i]] = IF i = 1 THEN Nil ELSE t[i - 1]
              /\ u.next[t[i]] = IF i = N - 1 THEN Nil ELSE t[i + 1]
  <2>1. CASE i < p
    <3>1. t[i] = s[i] /\ i \in 1 .. N /\ s[i] \in Cells /\ i # N
      BY <2>1, <1>1, <1>2
    <3>2. i # 1 => t[i - 1] = s[i - 1]
      BY <2>1, <1>1, <1>2
    <3>3. u.prev[s[i]] = l.prev[s[i]]
      <4>1. CASE p = N
        BY <4>1, <1>7, <1>9
      <4>2. CASE p # N
        <5>1. p + 1 \in 1 .. N /\ i # p + 1
          BY <4>2, <2>1, <1>1
        <5>2. nn = s[p + 1] /\ nn # s[i]
          BY <5>1, <4>2, <3>1, <1>1, <1>5
        <5> QED
          BY <5>2, <4>2, <3>1, <1>7, <1>8, <1>9
      <4> QED
        BY <4>1, <4>2
    <3>4. u.next[s[i]] = IF i = N - 1 THEN Nil ELSE t[i + 1]
      <4>1. CASE i = p - 1
        <5>1. p # 1 /\ pp = s[i]
          BY <4>1, <3>1, <1>1, <1>5
        <5>2. u.next[s[i]] = nn
          BY <5>1, <3>1, <1>7, <1>8, <1>9
        <5>3. i # N - 1 => t[i + 1] = s[p + 1]
          BY <4>1, <3>1, <1>1, <1>2
        <5>4. i = N - 1 <=> p = N
          BY <4>1, <1>1
        <5> QED
          BY <5>2, <5>3, <5>4, <1>5
      <4>2. CASE i # p - 1
        <5>1. t[i + 1] = s[i + 1] /\ i # N - 1
          BY <4>2, <2>1, <1>1, <1>2
        <5>2. u.next[s[i]] = l.next[s[i]]
          <6>1. CASE p = 1
            BY <6>1, <1>7, <1>9
          <6>2. CASE p # 1
            <7>1. p - 1 \in 1 .. N
              BY <6>2, <1>1
            <7>2. pp = s[p - 1] /\ pp # s[i]
              BY <7>1, <6>2, <4>2, <3>1, <1>1, <1>5
            <7> QED
              BY <7>2, <6>2, <3>1, <1>7, <1>8, <1>9
          <6> QED
            BY <6>1, <6>2
        <5> QED
          BY <5>1, <5>2, <3>1, <1>4
      <4> QED
        BY <4>1, <4>2
    <3> QED
      BY <3>1, <3>2, <3>3, <3>4, <1>4
  <2>2. CASE ~(i < p)
    <3> DEFINE k == i + 1
    <3>1. t[i] = s[k] /\ k \in 1 .. N /\ k > p /\ k - 1 = i
      BY <2>2, <1>1, <1>2
    <3>2. s[k] \in Cells
      BY <3>1, <1>1
    <3>3. i # N - 1 => t[i + 1] = s[k + 1]
      BY <2>2, <1>1, <1>2
    <3>4. u.next[s[k]] = IF k = N THEN Nil ELSE s[k + 1]
      <4>1. u.next[s[k]] = l.next[s[k]]
        <5>1. CASE p = 1
          BY <5>1, <1>7, <1>9
        <5>2. CASE p # 1
          <6>1. p - 1 \in 1 .. N /\ k # p - 1
            BY <5>2, <3>1, <1>1
          <6>2. pp = s[p - 1] /\ pp # s[k]
            BY <6>1, <5>2, <3>1, <1>1, <1>5
          <6> QED
            BY <6>2, <5>2, <3>2, <1>7, <1>8, <1>9
        <5> QED
          BY <5>1, <5>2
      <4> QED
        BY <4>1, <3>1, <1>4
    <3>5. u.prev[s[k]] = IF i = 1 THEN Nil ELSE t[i - 1]
      <4>1. CASE k = p + 1
        <5>1. p # N /\ nn = s[k]
          BY <4>1, <3>1, <1>1, <1>5
        <5>2. u.prev[s[k]] = pp
          BY <5>1, <3>2, <1>7, <1>8, <1>9
        <5>3. i = p
          BY <4>1, <1>1
        <5>4. i # 1 => t[i - 1] = s[p - 1]
          BY <5>3, <1>1, <1>2
        <5> QED
          BY <5>2, <5>3, <5>4, <1>5
      <4>2. CASE k # p + 1
        <5>1. i # 1 /\ t[i - 1] = s[i]
          BY <4>2, <2>2, <1>1, <1>2
        <5>2. u.prev[s[k]] = l.prev[s[k]]
          <6>1. CASE p = N
            BY <6>1, <1>7, <1>9
          <6>2. CASE p # N
            <7>1. p + 1 \in 1 .. N
              BY <6>2, <1>1
            <7>2. nn = s[p + 1] /\ nn # s[k]
              BY <7>1, <6>2, <4>2, <3>1, <1>1, <1>5
            <7> QED
              BY <7>2, <6>2, <3>2, <1>7, <1>8, <1>9
          <6> QED
            BY <6>1, <6>2
        <5>3. k # 1
          BY <5>1, <3>1
        <5> QED
          BY <5>1, <5>2, <5>3, <3>1, <1>4
      <4> QED
        BY <4>1, <4>2
    <3>6. i = N - 1 <=> k = N
      BY <1>1
    <3> QED
      BY <3>1, <3>3, <3>4, <3>5, <3>6
  <2> QED
    BY <2>1, <2>2
<1>13. ASSUME NEW d \in Cells \ Range(s)
       PROVE  u.prev[d] = Nil /\ u.next[d] = Nil
  <2>1. p # 1 => d # pp
    <3>1. p # 1 => p - 1 \in 1 .. N
      BY <1>1
    <3> QED
      BY <3>1, <1>1, <1>5
  <2>2. p # N => d # nn
    <3>1. p # N => p + 1 \in 1 .. N
      BY <1>1
    <3> QED
      BY <3>1, <1>1, <1>5
  <2> QED
    BY <2>1, <2>2, <1>4, <1>7, <1>8, <1>9
<1> QED
  BY <1>2, <1>10, <1>11, <1>12, <1>13 DEF u, t, c

\* Remove takes its item out of the list.
LEMMA RemoveRepresents ==
  ASSUME NEW l \in List, NEW s \in Arrangements, Represents(l, s),
         NEW p \in 1 .. Len(s)
  PROVE  RemoveItem(l, s[p]) \in List /\ Represents(RemoveItem(l, s[p]), Without(s, p))
<1> DEFINE N == Len(s)
           c == s[p]
           u == Unlink(l, c)
           r == RemoveItem(l, c)
           t == Without(s, p)
<1>1. /\ N \in Nat /\ Range(s) = {s[i] : i \in 1 .. N}
      /\ c \in Cells
  BY Items
<1>2. t \in Arrangements /\ Range(t) = Range(s) \ {c}
  BY WithoutArrangement
<1>3. Len(t) = N - 1
  BY Items, WithoutFacts, Zenon
<1>4. /\ u.front = IF N - 1 = 0 THEN Nil ELSE t[1]
      /\ u.back = IF N - 1 = 0 THEN Nil ELSE t[N - 1]
      /\ \A i \in 1 .. N - 1 :
           /\ u.prev[t[i]] = IF i = 1 THEN Nil ELSE t[i - 1]
           /\ u.next[t[i]] = IF i = N - 1 THEN Nil ELSE t[i + 1]
      /\ \A d \in Cells \ Range(s) : u.prev[d] = Nil /\ u.next[d] = Nil
  <2>1. /\ u.front = IF Len(t) = 0 THEN Nil ELSE t[1]
        /\ u.back = IF Len(t) = 0 THEN Nil ELSE t[Len(t)]
        /\ \A i \in 1 .. Len(t) :
             /\ u.prev[t[i]] = IF i = 1 THEN Nil ELSE t[i - 1]
             /\ u.next[t[i]] = IF i = Len(t) THEN Nil ELSE t[i + 1]
        /\ \A d \in Cells \ Range(s) : u.prev[d] = Nil /\ u.next[d] = Nil
    BY UnlinkPointers, Zenon
  <2> HIDE DEF u, t, N
  <2> QED
    BY <2>1, <1>3
<1>5. l.len = N
  BY Pointers
<1>6. u \in List
  BY <1>1, UnlinkFields
<1>7. /\ r \in List
      /\ r.len = N - 1
      /\ r.front = u.front /\ r.back = u.back
      /\ r.next = [u.next EXCEPT ![c] = Nil]
      /\ r.prev = [u.prev EXCEPT ![c] = Nil]
  BY <1>1, <1>5, RemoveFields, ZenonT(30)
<1>8. u.prev \in [Cells -> Pointer] /\ u.next \in [Cells -> Pointer]
  BY <1>6 DEF List
<1>9. /\ DOMAIN t = 1 .. N - 1 /\ (t = <<>> <=> N - 1 = 0)
      /\ \A i \in 1 .. N - 1 : t[i] \in Cells /\ t[i] \in Range(t)
  <2> HIDE DEF t, N
  <2> QED
    BY <1>2, <1>3, Items, ZenonT(30)
<1> HIDE DEF u, t, c, r, N
<1>10. ASSUME NEW i \in 1 .. N - 1
       PROVE  /\ r.prev[t[i]] = IF i = 1 THEN Nil ELSE t[i - 1]
              /\ r.next[t[i]] = IF i = N - 1 THEN Nil ELSE t[i + 1]
  <2>1. t[i] # c /\ t[i] \in Cells
    BY <1>2, <1>9
  <2>2. r.prev[t[i]] = u.prev[t[i]] /\ r.next[t[i]] = u.next[t[i]]
    BY <2>1, <1>7, <1>8
  <2> QED
    BY <2>2, <1>4
<1>11. ASSUME NEW d \in Cells \ Range(t)
       PROVE  r.prev[d] = Nil /\ r.next[d] = Nil
  <2>1. CASE d = c
    BY <2>1, <1>7, <1>8
  <2>2. CASE d # c
    BY <2>2, <1>2, <1>4, <1>7, <1>8
  <2> QED
    BY <2>1, <2>2
<1>12. Represents(r, t)
  BY <1>3, <1>4, <1>7, <1>9, <1>10, <1>11 DEF Represents
<1> QED
  BY <1>7, <1>12 DEF r, t, c

\* The arrangement s with its p-th item in front.
ToFront(s, p) == <<s[p]>> \o Without(s, p)

\* Where the items are when the p-th has gone to the front.
LEMMA ToFrontFacts ==
  ASSUME NEW s \in Arrangements, NEW p \in 1 .. Len(s)
  PROVE  /\ ToFront(s, p) \in Arrangements
         /\ Range(ToFront(s, p)) = Range(s)
         /\ Len(ToFront(s, p)) = Len(s)
         /\ \A i \in 1 .. Len(s) :
              ToFront(s, p)[i] = IF i = 1 THEN s[p]
                                 ELSE IF i <= p THEN s[i - 1] ELSE s[i]
<1> DEFINE c == s[p]
           t == Without(s, p)
           f == <<c>> \o t
           N == Len(s)
<1>1. N \in Nat /\ c \in Cells /\ c \in Range(s)
  BY Items
<1>2. t \in Arrangements /\ Range(t) = Range(s) \ {c}
  BY WithoutArrangement
<1>3. /\ Len(t) = N - 1
      /\ \A i \in 1 .. N - 1 : t[i] = IF i < p THEN s[i] ELSE s[i + 1]
  BY Items, WithoutFacts, Zenon
<1> HIDE DEF t, c
<1>4. /\ f \in Arrangements /\ Range(f) = Range(t) \cup {c} /\ Len(f) = Len(t) + 1
      /\ f[1] = c /\ \A i \in 1 .. Len(t) : f[i + 1] = t[i]
  <2>1. c \in Cells \ Range(t)
    BY <1>1, <1>2
  <2> QED
    BY <2>1, <1>2, InFront
<1> HIDE DEF f, N
<1>5. ASSUME NEW i \in 1 .. N, i # 1
      PROVE  f[i] = IF i <= p THEN s[i - 1] ELSE s[i]
  <2>1. i - 1 \in 1 .. N - 1 /\ (i - 1) + 1 = i /\ (i - 1 < p <=> i <= p)
    BY <1>5, <1>1
  <2>2. f[i] = t[i - 1]
    BY <2>1, <1>3, <1>4
  <2> QED
    BY <2>1, <2>2, <1>3
<1>6. Len(f) = N /\ Range(f) = Range(s)
  BY <1>1, <1>2, <1>3, <1>4
<1> QED
  BY <1>4, <1>5, <1>6 DEF f, t, c, N, ToFront

\* MoveToFront makes its item the first one, and leaves the order of the others.
LEMMA MoveToFrontRepresents ==
  ASSUME NEW l \in List, NEW s \in Arrangements, Represents(l, s),
         NEW p \in 1 .. Len(s)
  PROVE  /\ MoveToFront(l, s[p]) \in List
         /\ Represents(MoveToFront(l, s[p]), ToFront(s, p))
<1> DEFINE N == Len(s)
           c == s[p]
           u == Unlink(l, c)
           r == MoveToFront(l, c)
           t == Without(s, p)
           f == ToFront(s, p)
<1>1. /\ N \in Nat /\ p \in 1 .. N /\ c \in Cells
      /\ \A i \in 1 .. N : s[i] \in Cells
      /\ \A i, j \in 1 .. N : s[i] = s[j] => i = j
      /\ DOMAIN s = 1 .. N
  BY Items, OnePlace
<1>2. /\ f \in Arrangements /\ Range(f) = Range(s) /\ Len(f) = N
      /\ \A i \in 1 .. N : f[i] = IF i = 1 THEN s[p]
                                  ELSE IF i <= p THEN s[i - 1] ELSE s[i]
  BY ToFrontFacts
<1>3. l.front = s[1]
  <2>1. N # 0
    BY <1>1
  <2> QED
    BY <2>1, Ends
<1>4. s \in Seq(Cells)
  BY Items
<1>5. DOMAIN f = 1 .. N
  <2> HIDE DEF f, N
  <2> QED
    BY <1>2, Items
<1>a. l.len = N
  BY Pointers
<1>6. CASE p = 1
  <2>1. f = s
    <3>1. f \in Seq(Cells)
      <4> HIDE DEF f
      <4> QED
        BY <1>2, Items
    <3>2. \A i \in 1 .. N : f[i] = s[i]
      <4> HIDE DEF f, N
      <4> QED
        BY <1>6, <1>1, <1>2
    <3> HIDE DEF f
    <3> QED
      BY <3>1, <3>2, <1>2, <1>4, SeqEqual
  <2>2. r = l
    BY <1>3, <1>6 DEF MoveToFront
  <2> QED
    BY <2>1, <2>2
<1>7. CASE p # 1
  <2>1. /\ t \in Arrangements /\ Range(t) = Range(s) \ {c}
    BY WithoutArrangement
  <2>2. Len(t) = N - 1 /\ \A i \in 1 .. N - 1 : t[i] = IF i < p THEN s[i] ELSE s[i + 1]
    BY Items, WithoutFacts, Zenon
  <2>3. /\ u.front = IF N - 1 = 0 THEN Nil ELSE t[1]
        /\ u.back = IF N - 1 = 0 THEN Nil ELSE t[N - 1]
        /\ \A i \in 1 .. N - 1 :
             /\ u.prev[t[i]] = IF i = 1 THEN Nil ELSE t[i - 1]
             /\ u.next[t[i]] = IF i = N - 1 THEN Nil ELSE t[i + 1]
        /\ \A d \in Cells \ Range(s) : u.prev[d] = Nil /\ u.next[d] = Nil
    <3>1. /\ u.front = IF Len(t) = 0 THEN Nil ELSE t[1]
          /\ u.back = IF Len(t) = 0 THEN Nil ELSE t[Len(t)]
          /\ \A i \in 1 .. Len(t) :
               /\ u.prev[t[i]] = IF i = 1 THEN Nil ELSE t[i - 1]
               /\ u.next[t[i]] = IF i = Len(t) THEN Nil ELSE t[i + 1]
          /\ \A d \in Cells \ Range(s) : u.prev[d] = Nil /\ u.next[d] = Nil
      BY UnlinkPointers, Zenon
    <3> HIDE DEF u, t, N
    <3> QED
      BY <3>1, <2>2
  <2>4. \A i \in 1 .. N - 1 : t[i] \in Cells \ {c} /\ f[i + 1] = t[i]
    <3>1. \A i \in 1 .. N - 1 : t[i] \in Range(t)
      <4> HIDE DEF t, N
      <4> QED
        BY <2>1, <2>2, Items
    <3>2. Range(s) \subseteq Cells
      BY Items
    <3>3. ASSUME NEW i \in 1 .. N - 1
          PROVE  f[i + 1] = t[i]
      <4> HIDE DEF f, t, N
      <4>1. i + 1 \in 1 .. N /\ i + 1 # 1 /\ (i + 1 <= p <=> i < p) /\ (i + 1) - 1 = i
        BY <1>1
      <4>2. f[i + 1] = IF i + 1 <= p THEN s[(i + 1) - 1] ELSE s[i + 1]
        BY <4>1, <1>2
      <4> QED
        BY <4>1, <4>2, <2>2
    <3> QED
      BY <3>1, <3>2, <3>3, <2>1
  <2>5. /\ N - 1 # 0 /\ 1 \in 1 .. N - 1 /\ N - 1 \in 1 .. N - 1
        /\ u.front = t[1] /\ t[1] \in Cells \ {c}
        /\ c # l.front
    <3> HIDE DEF t, u, c, N
    <3>1. N - 1 # 0 /\ 1 \in 1 .. N - 1 /\ N - 1 \in 1 .. N - 1
      BY <1>1, <1>7
    <3>2. s[p] # s[1]
      BY <1>1, <1>7
    <3> QED
      BY <3>1, <3>2, <2>3, <2>4, <1>3 DEF c
  <2>6. u \in List
    BY <1>1, UnlinkFields
  <2>7. /\ r \in List
        /\ r.len = N
        /\ r.front = c /\ r.back = u.back
        /\ r.next = [u.next EXCEPT ![c] = u.front]
        /\ r.prev = [u.prev EXCEPT ![c] = Nil, ![u.front] = c]
    BY <1>1, <1>a, <2>5, MoveToFrontFields, ZenonT(60)
  <2>8. u.prev \in [Cells -> Pointer] /\ u.next \in [Cells -> Pointer]
    BY <2>6 DEF List
  <2>b. f[1] = c
    BY <1>1, <1>2
  <2>c. \A i, j \in 1 .. N - 1 : t[i] = t[j] => i = j
    <3> HIDE DEF t, N
    <3> QED
      BY <2>1, <2>2, OnePlace
  <2>d. f # <<>>
    <3> HIDE DEF f, N
    <3> QED
      BY <1>1, <1>2, Items
  <2>e. c \in Range(s)
    BY <1>1 DEF Range
  <2> HIDE DEF u, t, c, r, f, N
  <2>9. ASSUME NEW i \in 1 .. N
        PROVE  /\ r.prev[f[i]] = IF i = 1 THEN Nil ELSE f[i - 1]
               /\ r.next[f[i]] = IF i = N THEN Nil ELSE f[i + 1]
    <3>1. CASE i = 1
      <4>1. r.prev[c] = Nil /\ r.next[c] = t[1]
        BY <1>1, <2>5, <2>7, <2>8
      <4>2. f[i + 1] = t[1] /\ i # N
        BY <3>1, <2>4, <2>5, <1>1
      <4> QED
        BY <3>1, <4>1, <4>2, <2>b
    <3>2. CASE i # 1
      <4> DEFINE k == i - 1
      <4>1. k \in 1 .. N - 1 /\ k + 1 = i /\ (k = N - 1 <=> i = N)
        BY <3>2, <1>1
      <4> HIDE DEF k
      <4>2. f[i] = t[k] /\ t[k] \in Cells \ {c}
        BY <4>1, <2>4
      <4>3. r.next[t[k]] = IF k = N - 1 THEN Nil ELSE t[k + 1]
        BY <4>1, <4>2, <2>3, <2>7, <2>8
      <4>4. k # N - 1 => f[i + 1] = t[k + 1]
        <5>1. k # N - 1 => k + 1 \in 1 .. N - 1
          BY <4>1, <1>1
        <5> QED
          BY <4>1, <5>1, <2>4
      <4>5. r.prev[t[k]] = f[k]
        <5>1. CASE k = 1
          BY <5>1, <4>2, <2>5, <2>7, <2>8, <2>b
        <5>2. CASE k # 1
          <6>1. k - 1 \in 1 .. N - 1 /\ (k - 1) + 1 = k
            BY <5>2, <4>1, <1>1
          <6>2. t[k] # t[1] /\ f[k] = t[k - 1]
            BY <6>1, <5>2, <4>1, <2>4, <2>5, <2>c
          <6> QED
            BY <6>2, <5>2, <4>1, <4>2, <2>3, <2>5, <2>7, <2>8
        <5> QED
          BY <5>1, <5>2
      <4>6. f[i - 1] = f[k]
        BY <4>1 DEF k
      <4> QED
        BY <3>2, <4>1, <4>2, <4>3, <4>4, <4>5, <4>6
    <3> QED
      BY <3>1, <3>2
  <2>10. ASSUME NEW d \in Cells \ Range(f)
         PROVE  r.prev[d] = Nil /\ r.next[d] = Nil
    <3>1. d \in Cells \ Range(s) /\ d # c
      BY <1>2, <2>e
    <3>2. d # t[1]
      <4>1. t[1] \in Range(t)
        BY <2>1, <2>2, <2>5, Items
      <4> QED
        BY <3>1, <4>1, <2>1
    <3> QED
      BY <3>1, <3>2, <2>3, <2>5, <2>7, <2>8
  <2>11. r.back = f[N]
    <3>1. f[N] = t[N - 1]
      BY <2>4, <2>5, <1>1
    <3> QED
      BY <3>1, <2>3, <2>5, <2>7
  <2>12. Represents(r, f)
    <3>1. /\ r.len = Len(f) /\ f # <<>>
          /\ r.front = f[1] /\ r.back = f[Len(f)]
      BY <1>2, <2>7, <2>11, <2>b, <2>d
    <3>2. \A i \in DOMAIN f :
            /\ r.prev[f[i]] = IF i = 1 THEN Nil ELSE f[i - 1]
            /\ r.next[f[i]] = IF i = Len(f) THEN Nil ELSE f[i + 1]
      BY <1>2, <1>5, <2>9
    <3> QED
      BY <3>1, <3>2, <2>10 DEF Represents
  <2> QED
    BY <2>7, <2>12 DEF r, f, c
<1> QED
  BY <1>6, <1>7

\* A list can be read in one way only: the first item is that of front, and
\* each other one is the next of the one before.
LEMMA OneReading ==
  ASSUME NEW l, NEW s \in Arrangements, NEW t \in Arrangements,
         Represents(l, s), Represents(l, t)
  PROVE  s = t
<1> DEFINE n == Len(s)
           Bad == {i \in 1 .. n : s[i] # t[i]}
<1>1. /\ n \in Nat /\ s \in Seq(Cells) /\ t \in Seq(Cells)
  BY Items
<1>2. Len(t) = n
  BY Pointers
<1>3. Bad = {}
  <2>1. SUFFICES ASSUME Bad # {} PROVE FALSE
    OBVIOUS
  <2>2. Bad \subseteq Nat
    BY <1>1
  <2>3. PICK i \in Bad : \A j \in Bad : i <= j
    <3> HIDE DEF Bad
    <3> QED
      BY <2>1, <2>2, LeastNumber
  <2>4. i \in 1 .. n /\ s[i] # t[i] /\ i - 1 \notin Bad
    BY <2>2, <2>3
  <2>5. n # 0 => l.front = s[1] /\ l.front = t[1]
    <3>1. /\ n # 0 => l.front = s[1]
          /\ Len(t) # 0 => l.front = t[1]
      BY Ends, Zenon
    <3> QED
      BY <3>1, <1>2
  <2>6. i # 1
    <3> HIDE DEF Bad, n
    <3> QED
      BY <2>4, <2>5, <1>1
  <2>7. i - 1 \in 1 .. n /\ s[i - 1] = t[i - 1] /\ (i - 1) + 1 = i /\ i - 1 # n
    BY <2>4, <2>6, <1>1
  <2>8. /\ \A j \in 1 .. n : l.next[s[j]] = IF j = n THEN Nil ELSE s[j + 1]
        /\ \A j \in 1 .. Len(t) : l.next[t[j]] = IF j = Len(t) THEN Nil ELSE t[j + 1]
    BY Pointers, Zenon
  <2> HIDE DEF Bad, n
  <2>9. l.next[s[i - 1]] = s[i] /\ l.next[t[i - 1]] = t[i]
    BY <2>7, <2>8, <1>2
  <2> QED
    BY <2>4, <2>7, <2>9
<1>4. \A i \in 1 .. n : s[i] = t[i]
  BY <1>3
<1> QED
  BY <1>1, <1>2, <1>4, SeqEqual

\* What is read off a list is what it stands for.
LEMMA Reading ==
  ASSUME NEW l, NEW s \in Arrangements, Represents(l, s)
  PROVE  (CHOOSE t \in Arrangements : Represents(l, t)) = s
BY OneReading

----------------------------------------------------------------------------
(* The list and the map *)

\* MapMatchesList of the items s, the values st and the map m.
Matches(s, st, m) ==
  /\ \A k \in Keys : m[k] # Nil => m[k] \in Range(s) /\ st[m[k]].key = k
  /\ \A c \in Range(s) : st[c] # Nil /\ m[st[c].key] = c

\* A new item for a new key.
LEMMA AddedMatches ==
  ASSUME NEW s \in Arrangements, NEW st \in [Cells -> cacheItem \cup {Nil}],
         NEW m \in [Keys -> Pointer], Matches(s, st, m),
         NEW k \in Keys, NEW v \in Values, NEW c \in Cells,
         m[k] = Nil, st[c] = Nil
  PROVE  /\ c \notin Range(s)
         /\ [st EXCEPT ![c] = [key |-> k, value |-> v]]
              \in [Cells -> cacheItem \cup {Nil}]
         /\ [m EXCEPT ![k] = c] \in [Keys -> Pointer]
         /\ Matches(<<c>> \o s, [st EXCEPT ![c] = [key |-> k, value |-> v]],
                    [m EXCEPT ![k] = c])
<1> DEFINE t == <<c>> \o s
           new == [key |-> k, value |-> v]
           sn == [st EXCEPT ![c] = new]
           mn == [m EXCEPT ![k] = c]
<1>1. c \notin Range(s)
  BY DEF Matches
<1>2. Range(t) = Range(s) \cup {c}
  BY <1>1, InFront
<1>3. new \in cacheItem /\ new.key = k /\ new # Nil
  <2>1. new \in cacheItem /\ new.key = k
    BY DEF cacheItem
  <2> QED
    BY <2>1, LruAssumption
<1>4. sn \in [Cells -> cacheItem \cup {Nil}] /\ mn \in [Keys -> Pointer]
  BY <1>3 DEF Pointer
<1>5. /\ sn[c] = new /\ \A d \in Cells \ {c} : sn[d] = st[d]
      /\ mn[k] = c /\ \A j \in Keys \ {k} : mn[j] = m[j]
  OBVIOUS
<1>6. Range(s) \subseteq Cells
  BY Items
<1> HIDE DEF t, new, sn, mn
<1>7. ASSUME NEW j \in Keys, mn[j] # Nil
      PROVE  mn[j] \in Range(t) /\ sn[mn[j]].key = j
  <2>1. CASE j = k
    BY <2>1, <1>2, <1>3, <1>5
  <2>2. CASE j # k
    <3>1. m[j] # Nil /\ mn[j] = m[j]
      BY <2>2, <1>5, <1>7
    <3>2. m[j] \in Range(s) /\ st[m[j]].key = j
      BY <3>1 DEF Matches
    <3> QED
      BY <3>1, <3>2, <1>1, <1>2, <1>5, <1>6
  <2> QED
    BY <2>1, <2>2
<1>8. ASSUME NEW d \in Range(t)
      PROVE  sn[d] # Nil /\ mn[sn[d].key] = d
  <2>1. CASE d = c
    BY <2>1, <1>3, <1>5
  <2>2. CASE d # c
    <3>1. d \in Range(s) /\ d \in Cells /\ sn[d] = st[d]
      BY <2>2, <1>2, <1>5, <1>6
    <3>2. st[d] # Nil /\ m[st[d].key] = d
      BY <3>1 DEF Matches
    <3>3. st[d].key \in Keys
      BY <3>1, <3>2 DEF cacheItem
    <3>4. st[d].key # k
      BY <3>1, <3>2, <1>6, CellAssumption
    <3> QED
      BY <3>1, <3>2, <3>3, <3>4, <1>5
  <2> QED
    BY <2>1, <2>2
<1>9. Matches(t, sn, mn)
  BY <1>7, <1>8 DEF Matches
<1> QED
  BY <1>1, <1>4, <1>9 DEF t, new, sn, mn

\* An item leaves the list and the map.
LEMMA RemovedMatches ==
  ASSUME NEW s \in Arrangements, NEW st \in [Cells -> cacheItem \cup {Nil}],
         NEW m \in [Keys -> Pointer], Matches(s, st, m),
         NEW p \in 1 .. Len(s)
  PROVE  LET k == st[s[p]].key
         IN /\ k \in Keys /\ m[k] = s[p]
            /\ [st EXCEPT ![s[p]] = Nil] \in [Cells -> cacheItem \cup {Nil}]
            /\ [m EXCEPT ![k] = Nil] \in [Keys -> Pointer]
            /\ Matches(Without(s, p), [st EXCEPT ![s[p]] = Nil],
                       [m EXCEPT ![k] = Nil])
<1> DEFINE c == s[p]
           k == st[c].key
           t == Without(s, p)
           sn == [st EXCEPT ![c] = Nil]
           mn == [m EXCEPT ![k] = Nil]
<1>1. c \in Range(s) /\ c \in Cells /\ Range(s) \subseteq Cells
  BY Items
<1>2. Range(t) = Range(s) \ {c}
  BY WithoutArrangement
<1> HIDE DEF c
<1>3. st[c] # Nil /\ m[k] = c
  BY <1>1 DEF Matches
<1>4. k \in Keys
  BY <1>1, <1>3 DEF cacheItem
<1> HIDE DEF t, k
<1>5. sn \in [Cells -> cacheItem \cup {Nil}] /\ mn \in [Keys -> Pointer]
  BY DEF Pointer
<1>6. /\ \A d \in Cells \ {c} : sn[d] = st[d]
      /\ mn[k] = Nil /\ \A j \in Keys \ {k} : mn[j] = m[j]
  BY <1>4
<1> HIDE DEF sn, mn
<1>7. ASSUME NEW j \in Keys, mn[j] # Nil
      PROVE  mn[j] \in Range(t) /\ sn[mn[j]].key = j
  <2>1. j # k /\ mn[j] = m[j]
    BY <1>6, <1>7
  <2>2. m[j] \in Range(s) /\ st[m[j]].key = j
    BY <2>1, <1>7 DEF Matches
  <2>3. m[j] # c
    BY <2>1, <2>2 DEF k
  <2> QED
    BY <2>1, <2>2, <2>3, <1>1, <1>2, <1>6
<1>8. ASSUME NEW d \in Range(t)
      PROVE  sn[d] # Nil /\ mn[sn[d].key] = d
  <2>1. d \in Range(s) /\ d # c /\ d \in Cells /\ sn[d] = st[d]
    BY <1>1, <1>2, <1>6
  <2>2. st[d] # Nil /\ m[st[d].key] = d
    BY <2>1 DEF Matches
  <2>3. st[d].key \in Keys
    BY <2>1, <2>2 DEF cacheItem
  <2>4. st[d].key # k
    BY <2>1, <2>2, <1>3
  <2> QED
    BY <2>1, <2>2, <2>3, <2>4, <1>6
<1>9. Matches(t, sn, mn)
  BY <1>7, <1>8 DEF Matches
<1> QED
  BY <1>3, <1>4, <1>5, <1>9 DEF t, k, sn, mn, c

----------------------------------------------------------------------------
(* The steps of the cache *)

\* The invariant, of the items in their order.
LEMMA Holds ==
  ASSUME WellFormed
  PROVE  /\ CacheTypeOK /\ Order \in Arrangements /\ Represents(queue, Order)
         /\ Matches(Order, stored, items)
<1>1. PICK s \in Arrangements : Represents(queue, s)
  BY DEF WellFormed, WellLinked
<1>2. Order = s
  BY <1>1, Reading DEF Order
<1> QED
  BY <1>1, <1>2 DEF WellFormed, MapMatchesList, Matches

\* It holds after a step whose list stands for the items s, if they match.
LEMMA Follows ==
  ASSUME NEW s \in Arrangements, CacheTypeOK', Represents(queue', s),
         Matches(s, stored', items')
  PROVE  WellFormed' /\ Order' = s
<1>1. WellLinked'
  BY DEF WellLinked
<1>2. Order' = s
  BY Reading DEF Order
<1>3. MapMatchesList'
  BY <1>2 DEF MapMatchesList, Matches
<1> QED
  BY <1>1, <1>2, <1>3 DEF WellFormed

\* There is an arrangement of no items.
LEMMA Empty == <<>> \in Arrangements
<1>1. <<>> \in Seq(Cells) /\ Len(<<>>) = 0
  OBVIOUS
<1>2. \A i, j \in 1 .. Len(<<>>) : <<>>[i] = <<>>[j] => i = j
  BY <1>1
<1> QED
  BY <1>1, <1>2, ArrangementFacts

\* A new cache is well formed and empty.
LEMMA InitStep ==
  ASSUME CacheInit
  PROVE  WellFormed /\ Order = <<>>
<1>1. <<>> \in Arrangements
  BY Empty
<1>2. Represents(queue, <<>>)
  BY DEF CacheInit, NewList, Represents
<1>3. Order = <<>>
  BY <1>1, <1>2, Reading DEF Order
<1>4. Range(<<>>) = {}
  BY DEF Range
<1>5. CacheTypeOK
  <2>1. queue \in List /\ queue.len = 0
    BY DEF CacheInit, NewList, List, Pointer
  <2>2. stored \in [Cells -> cacheItem \cup {Nil}] /\ items \in [Keys -> Pointer]
    BY DEF CacheInit, NoneStored, NoItems, Pointer
  <2> QED
    BY <2>1, <2>2 DEF CacheInit, CacheTypeOK
<1>6. MapMatchesList
  BY <1>3, <1>4 DEF MapMatchesList, CacheInit, NoItems
<1> QED
  BY <1>1, <1>2, <1>3, <1>5, <1>6 DEF WellFormed, WellLinked

\* So is a cleared one (cache.go, Clear).
LEMMA ClearStep ==
  ASSUME WellFormed, Clear
  PROVE  WellFormed' /\ Order' = <<>>
<1>1. <<>> \in Arrangements
  BY Empty
<1>2. Represents(queue', <<>>)
  BY DEF Clear, NewList, Represents
<1>3. Range(<<>>) = {}
  BY DEF Range
<1>4. CacheTypeOK'
  <2>1. queue' \in List /\ queue'.len = 0
    BY DEF Clear, NewList, List, Pointer
  <2>2. stored' \in [Cells -> cacheItem \cup {Nil}] /\ items' \in [Keys -> Pointer]
    BY DEF Clear, NoneStored, NoItems, Pointer
  <2> QED
    BY <2>1, <2>2 DEF Clear, CacheTypeOK, WellFormed
<1>5. Matches(<<>>, stored', items')
  BY <1>3 DEF Clear, NoItems, Matches
<1> QED
  BY <1>1, <1>2, <1>4, <1>5, Follows

\* A key of the map has an item of the list.
LEMMA PlaceOf ==
  ASSUME WellFormed, NEW k \in Keys, items[k] # Nil
  PROVE  \E p \in 1 .. Len(Order) : Order[p] = items[k]
<1>1. Order \in Arrangements /\ items[k] \in Range(Order)
  BY Holds DEF Matches
<1> QED
  BY <1>1, Items

\* Its use moves the item to the front; new values leave the keys alone.
LEMMA MoveStep ==
  ASSUME WellFormed, NEW p \in 1 .. Len(Order),
         queue' = MoveToFront(queue, Order[p]),
         stored' \in [Cells -> cacheItem \cup {Nil}],
         \A c \in Cells : stored[c] # Nil =>
           stored'[c] # Nil /\ stored'[c].key = stored[c].key,
         capacity' = capacity, items' = items
  PROVE  WellFormed' /\ Order' = ToFront(Order, p)
<1>1. /\ CacheTypeOK /\ Order \in Arrangements /\ Represents(queue, Order)
      /\ Matches(Order, stored, items)
  BY Holds
<1>2. queue \in List
  BY <1>1 DEF CacheTypeOK
<1>3. queue' \in List /\ Represents(queue', ToFront(Order, p))
  BY <1>1, <1>2, MoveToFrontRepresents
<1>4. /\ ToFront(Order, p) \in Arrangements
      /\ Range(ToFront(Order, p)) = Range(Order)
      /\ Len(ToFront(Order, p)) = Len(Order)
  BY <1>1, ToFrontFacts
<1>5. queue'.len = queue.len
  BY <1>1, <1>3, <1>4, Pointers
<1>6. CacheTypeOK'
  BY <1>1, <1>3, <1>5 DEF CacheTypeOK
<1>7. Range(Order) \subseteq Cells
  BY <1>1, Items
<1>8. Matches(ToFront(Order, p), stored', items')
  BY <1>1, <1>4, <1>7 DEF Matches
<1> QED
  BY <1>3, <1>4, <1>6, <1>8, Follows

\* What a new item makes of the list and the map, before any item leaves them.
LEMMA NewItem ==
  ASSUME WellFormed, NEW k \in Keys, NEW v \in Values, NEW i \in Cells,
         items[k] = Nil, stored[i] = Nil
  PROVE  LET q == PushFront(queue, i)
             s == [stored EXCEPT ![i] = [key |-> k, value |-> v]]
             m == [items EXCEPT ![k] = i]
         IN /\ i \notin Range(Order) /\ q \in List /\ q.len = queue.len + 1
            /\ <<i>> \o Order \in Arrangements
            /\ Len(<<i>> \o Order) = Len(Order) + 1 /\ Len(Order) = queue.len
            /\ Represents(q, <<i>> \o Order)
            /\ s \in [Cells -> cacheItem \cup {Nil}]
            /\ m \in [Keys -> Pointer]
            /\ Matches(<<i>> \o Order, s, m)
<1>1. /\ CacheTypeOK /\ Order \in Arrangements /\ Represents(queue, Order)
      /\ Matches(Order, stored, items)
  BY Holds
<1>2. /\ queue \in List /\ stored \in [Cells -> cacheItem \cup {Nil}]
      /\ items \in [Keys -> Pointer]
  BY <1>1 DEF CacheTypeOK
<1>3. /\ i \notin Range(Order)
      /\ [stored EXCEPT ![i] = [key |-> k, value |-> v]]
           \in [Cells -> cacheItem \cup {Nil}]
      /\ [items EXCEPT ![k] = i] \in [Keys -> Pointer]
      /\ Matches(<<i>> \o Order, [stored EXCEPT ![i] = [key |-> k, value |-> v]],
                 [items EXCEPT ![k] = i])
  BY <1>1, <1>2, AddedMatches
<1>4. i \in Cells \ Range(Order)
  BY <1>3
<1>5. /\ <<i>> \o Order \in Arrangements
      /\ Len(<<i>> \o Order) = Len(Order) + 1
  BY <1>1, <1>4, InFront
<1>6. /\ PushFront(queue, i) \in List
      /\ Represents(PushFront(queue, i), <<i>> \o Order)
  BY <1>1, <1>2, <1>4, PushFrontRepresents
<1>7. queue.len = Len(Order) /\ PushFront(queue, i).len = Len(<<i>> \o Order)
  BY <1>1, <1>5, <1>6, Pointers
<1> QED
  BY <1>3, <1>5, <1>6, <1>7, Zenon

\* There was room for it.
LEMMA AddStep ==
  ASSUME WellFormed, NEW k \in Keys, NEW v \in Values, NEW i \in Cells,
         items[k] = Nil, stored[i] = Nil,
         PushFront(queue, i).len <= capacity,
         queue' = PushFront(queue, i),
         stored' = [stored EXCEPT ![i] = [key |-> k, value |-> v]],
         items' = [items EXCEPT ![k] = i],
         capacity' = capacity
  PROVE  WellFormed' /\ Order' = <<i>> \o Order
<1>1. /\ queue' \in List /\ queue'.len = queue.len + 1
      /\ <<i>> \o Order \in Arrangements /\ Represents(queue', <<i>> \o Order)
      /\ stored' \in [Cells -> cacheItem \cup {Nil}] /\ items' \in [Keys -> Pointer]
      /\ Matches(<<i>> \o Order, stored', items')
  BY NewItem
<1>2. queue.len >= 0 /\ capacity \in Capacities /\ queue \in List
  BY Holds DEF CacheTypeOK
<1>3. CacheTypeOK'
  <2>1. queue.len \in Int
    BY <1>2 DEF List
  <2> QED
    BY <1>1, <1>2, <2>1 DEF CacheTypeOK
<1> QED
  BY <1>1, <1>3, Follows

\* There was none: the last item leaves, which may be the new one.
LEMMA EvictStep ==
  ASSUME WellFormed, NEW k \in Keys, NEW v \in Values, NEW i \in Cells,
         items[k] = Nil, stored[i] = Nil,
         removeOldest(PushFront(queue, i),
                      [stored EXCEPT ![i] = [key |-> k, value |-> v]],
                      [items EXCEPT ![k] = i]),
         capacity' = capacity
  PROVE  LET t == <<i>> \o Order
         IN WellFormed' /\ Order' = Without(t, Len(t))
<1> DEFINE q == PushFront(queue, i)
           s == [stored EXCEPT ![i] = [key |-> k, value |-> v]]
           m == [items EXCEPT ![k] = i]
           t == <<i>> \o Order
           n == Len(t)
<1>1. /\ q \in List /\ q.len = queue.len + 1 /\ t \in Arrangements
      /\ n = Len(Order) + 1 /\ Len(Order) = queue.len
      /\ Represents(q, t)
      /\ s \in [Cells -> cacheItem \cup {Nil}] /\ m \in [Keys -> Pointer]
      /\ Matches(t, s, m)
  BY NewItem
<1>2. /\ queue' = RemoveItem(q, q.back) /\ stored' = [s EXCEPT ![q.back] = Nil]
      /\ items' = [m EXCEPT ![s[q.back].key] = Nil]
  BY DEF removeOldest
<1> HIDE DEF q, s, m, t
<1>3. /\ queue.len >= 0 /\ capacity \in Capacities
      /\ queue.len > 0 => queue.len <= capacity
      /\ queue.len \in Int
  BY Holds DEF CacheTypeOK, List
<1>4. n # 0 /\ n \in 1 .. n
  BY <1>1, <1>3
<1>5. q.back = t[n]
  BY <1>1, <1>4, Ends
<1>6. queue' \in List /\ Represents(queue', Without(t, n))
  BY <1>1, <1>2, <1>4, <1>5, RemoveRepresents
<1>7. /\ stored' \in [Cells -> cacheItem \cup {Nil}] /\ items' \in [Keys -> Pointer]
      /\ Matches(Without(t, n), stored', items')
  <2>1. /\ [s EXCEPT ![t[n]] = Nil] \in [Cells -> cacheItem \cup {Nil}]
        /\ [m EXCEPT ![s[t[n]].key] = Nil] \in [Keys -> Pointer]
        /\ Matches(Without(t, n), [s EXCEPT ![t[n]] = Nil],
                   [m EXCEPT ![s[t[n]].key] = Nil])
    BY <1>1, <1>4, RemovedMatches, Zenon
  <2> QED
    BY <2>1, <1>2, <1>5
<1>8. Without(t, n) \in Arrangements
  BY <1>1, <1>4, WithoutArrangement
<1>9. Len(Without(t, n)) = n - 1
  <2>1. t \in Seq(Cells)
    BY <1>1, Items
  <2> QED
    BY <2>1, <1>4, WithoutFacts
<1>10. queue'.len = queue.len
  BY <1>1, <1>3, <1>6, <1>8, <1>9, Pointers
<1>11. CacheTypeOK'
  BY <1>3, <1>6, <1>7, <1>10 DEF CacheTypeOK
<1>12. WellFormed' /\ Order' = Without(t, n)
  BY <1>6, <1>7, <1>8, <1>11, Follows
<1> QED
  BY <1>12 DEF t

\* A new value for a key is that of its item; the other items keep theirs.
LEMMA SetExistingValues ==
  ASSUME WellFormed, NEW k \in Keys, NEW v \in Values, SetExisting(k, v)
  PROVE  /\ stored' \in [Cells -> cacheItem \cup {Nil}]
         /\ \A c \in Cells : stored[c] # Nil =>
              stored'[c] # Nil /\ stored'[c].key = stored[c].key
         /\ stored'[items[k]].value = v
         /\ \A c \in Cells \ {items[k]} : stored'[c] = stored[c]
<1> DEFINE i == items[k]
<1>1. /\ stored \in [Cells -> cacheItem \cup {Nil}]
      /\ Order \in Arrangements /\ Matches(Order, stored, items)
  BY Holds DEF CacheTypeOK
<1>2. i \in Range(Order) /\ stored' = [stored EXCEPT ![i].value = v]
  BY <1>1 DEF Matches, SetExisting
<1>3. i \in Cells
  BY <1>1, <1>2, Items
<1>4. stored[i] \in cacheItem
  BY <1>1, <1>2, <1>3 DEF Matches
<1> HIDE DEF i
<1>5. PICK x \in cacheItem : x = stored[i]
  BY <1>4
<1>6. stored' = [stored EXCEPT ![i] = [x EXCEPT !.value = v]]
  BY <1>2, <1>5
<1> DEFINE y == [x EXCEPT !.value = v]
<1>7. y \in cacheItem /\ y.key = x.key /\ y.value = v
  BY DEF cacheItem
<1> HIDE DEF y
<1>8. stored'[i] = y /\ \A c \in Cells \ {i} : stored'[c] = stored[c]
  BY <1>1, <1>3, <1>6 DEF y
<1>9. stored' \in [Cells -> cacheItem \cup {Nil}]
  BY <1>1, <1>6, <1>7 DEF y
<1>10. y # Nil
  BY <1>7, LruAssumption
<1> QED
  BY <1>5, <1>7, <1>8, <1>9, <1>10 DEF i

\* Every step keeps the invariant.
LEMMA NextStep ==
  ASSUME WellFormed, CacheNext
  PROVE  WellFormed'
<1>1. CacheTypeOK
  BY Holds
<1>2. ASSUME NEW k \in Keys, Get(k)
      PROVE  WellFormed'
  <2>1. CASE items[k] = Nil
    <3>1. UNCHANGED <<capacity, queue, stored, items>>
      BY <2>1, <1>2 DEF Get
    <3> QED
      BY <3>1 DEF WellFormed, CacheTypeOK, WellLinked, MapMatchesList, Order
  <2>2. CASE items[k] # Nil
    <3>1. PICK p \in 1 .. Len(Order) : Order[p] = items[k]
      BY <2>2, PlaceOf
    <3>2. /\ queue' = MoveToFront(queue, Order[p]) /\ stored' = stored
          /\ capacity' = capacity /\ items' = items
      BY <2>2, <3>1, <1>2 DEF Get
    <3> QED
      BY <3>2, <1>1, MoveStep DEF CacheTypeOK
  <2> QED
    BY <2>1, <2>2
<1>3. ASSUME NEW k \in Keys, NEW v \in Values, SetExisting(k, v)
      PROVE  WellFormed'
  <2>1. PICK p \in 1 .. Len(Order) : Order[p] = items[k]
    BY <1>3, PlaceOf DEF SetExisting
  <2>2. /\ queue' = MoveToFront(queue, Order[p])
        /\ capacity' = capacity /\ items' = items
    BY <2>1, <1>3 DEF SetExisting
  <2>3. /\ stored' \in [Cells -> cacheItem \cup {Nil}]
        /\ \A c \in Cells : stored[c] # Nil =>
             stored'[c] # Nil /\ stored'[c].key = stored[c].key
    BY <1>3, SetExistingValues
  <2> QED
    BY <2>2, <2>3, MoveStep
<1>4. ASSUME NEW k \in Keys, NEW v \in Values, SetNew(k, v)
      PROVE  WellFormed'
  <2>1. PICK i \in Cells : SetNew(k, v)!(i)
    BY <1>4 DEF SetNew
  <2> QED
    BY <2>1, AddStep, EvictStep
<1>5. ASSUME Clear
      PROVE  WellFormed'
  BY <1>5, ClearStep
<1> QED
  BY <1>2, <1>3, <1>4, <1>5 DEF CacheNext, Set

\* A cache of any capacity, after any calls: the list reads the same in both
\* directions with no item twice, its length is right and within the capacity,
\* and the map leads to its items, each of them and no other (cache.go, list.go).
THEOREM CacheWellFormed == CacheSpec => []WellFormed
<1>1. CacheInit => WellFormed
  BY InitStep
<1>2. WellFormed /\ [CacheNext]_cacheVars => WellFormed'
  <2>1. ASSUME WellFormed, CacheNext PROVE WellFormed'
    BY <2>1, NextStep
  <2>2. ASSUME WellFormed, UNCHANGED cacheVars PROVE WellFormed'
    BY <2>2 DEF cacheVars, WellFormed, CacheTypeOK, WellLinked, MapMatchesList, Order
  <2> QED
    BY <2>1, <2>2
<1> QED
  BY <1>1, <1>2, PTL DEF CacheSpec

----------------------------------------------------------------------------
(* What the cache promises *)

\* The invariant after a step.
LEMMA HoldsNext ==
  ASSUME WellFormed'
  PROVE  /\ CacheTypeOK' /\ Order' \in Arrangements /\ Represents(queue', Order')
         /\ Matches(Order', stored', items')
<1>1. PICK s \in Arrangements : Represents(queue', s)
  BY DEF WellFormed, WellLinked
<1>2. Order' = s
  BY <1>1, Reading DEF Order
<1> QED
  BY <1>1, <1>2 DEF WellFormed, MapMatchesList, Matches

\* The keys of the items s.
KeysOf(s, st) == [n \in DOMAIN s |-> st[s[n]].key]

\* They are those of the map, each in the place of its item.
LEMMA KeyPlaces ==
  ASSUME NEW s \in Arrangements, NEW st \in [Cells -> cacheItem \cup {Nil}],
         NEW m \in [Keys -> Pointer], Matches(s, st, m)
  PROVE  /\ KeysOf(s, st) \in Seq(Keys) /\ Len(KeysOf(s, st)) = Len(s)
         /\ Len(s) \in Nat
         /\ \A n \in 1 .. Len(s) : KeysOf(s, st)[n] = st[s[n]].key
         /\ Range(KeysOf(s, st)) = {k \in Keys : m[k] # Nil}
         /\ \A k \in Keys, n \in 1 .. Len(s) :
              m[k] # Nil => (KeysOf(s, st)[n] = k <=> s[n] = m[k])
<1> DEFINE o == KeysOf(s, st)
<1>2. /\ Len(s) \in Nat /\ DOMAIN s = 1 .. Len(s)
      /\ \A n \in 1 .. Len(s) : s[n] \in Cells
      /\ Range(s) = {s[n] : n \in 1 .. Len(s)}
  BY Items
<1>3. \A n \in 1 .. Len(s) :
        st[s[n]].key \in Keys /\ m[st[s[n]].key] = s[n]
  BY <1>2 DEF Matches, cacheItem
<1>4. /\ o \in Seq(Keys) /\ Len(o) = Len(s)
      /\ DOMAIN o = 1 .. Len(s)
      /\ \A n \in 1 .. Len(s) : o[n] = st[s[n]].key
  <2>1. o = [n \in 1 .. Len(s) |-> st[s[n]].key]
    BY <1>2 DEF KeysOf
  <2> HIDE DEF o
  <2> QED
    BY <2>1, <1>2, <1>3
<1> HIDE DEF o
<1>5. ASSUME NEW k \in Keys, m[k] # Nil, NEW n \in 1 .. Len(s)
      PROVE  o[n] = k <=> s[n] = m[k]
  <2>1. st[m[k]].key = k
    BY <1>5 DEF Matches
  <2> QED
    BY <2>1, <1>3, <1>4
<1>6. ASSUME NEW k \in Range(o)
      PROVE  k \in Keys /\ m[k] # Nil
  <2>1. PICK n \in 1 .. Len(s) : k = o[n]
    BY <1>4 DEF Range
  <2>2. k \in Keys /\ m[k] = s[n]
    BY <2>1, <1>3, <1>4
  <2> QED
    BY <2>2, <1>2, CellAssumption
<1>7. ASSUME NEW k \in Keys, m[k] # Nil
      PROVE  k \in Range(o)
  <2>1. PICK n \in 1 .. Len(s) : s[n] = m[k]
    BY <1>2, <1>7 DEF Matches
  <2>2. o[n] = k /\ n \in DOMAIN o
    BY <2>1, <1>4, <1>5, <1>7
  <2> QED
    BY <2>2 DEF Range
<1>8. Range(o) = {k \in Keys : m[k] # Nil}
  BY <1>6, <1>7
<1> QED
  BY <1>2, <1>4, <1>5, <1>8 DEF o

\* The p-th of any sequence in front of the others.
LEMMA ToFrontPlaces ==
  ASSUME NEW S, NEW s \in Seq(S), NEW p \in 1 .. Len(s)
  PROVE  /\ ToFront(s, p) \in Seq(S) /\ Len(ToFront(s, p)) = Len(s)
         /\ \A i \in 1 .. Len(s) :
              ToFront(s, p)[i] = IF i = 1 THEN s[p]
                                 ELSE IF i <= p THEN s[i - 1] ELSE s[i]
<1> DEFINE t == Without(s, p)
           x == s[p]
           f == <<x>> \o t
           n == Len(s)
<1>1. n \in Nat /\ x \in S
  OBVIOUS
<1>2. /\ t \in Seq(S) /\ Len(t) = n - 1
      /\ \A i \in 1 .. n - 1 : t[i] = IF i < p THEN s[i] ELSE s[i + 1]
  BY WithoutFacts, Zenon
<1> HIDE DEF t, x, n
<1>3. /\ f \in Seq(S) /\ Len(f) = n
      /\ \A i \in 1 .. n : f[i] = IF i = 1 THEN x ELSE t[i - 1]
  <2>1. <<x>> \in Seq(S) /\ Len(<<x>>) = 1 /\ <<x>>[1] = x
    BY <1>1
  <2> QED
    BY <2>1, <1>1, <1>2, ConcatProperties
<1>4. \A i \in 1 .. n : i # 1 =>
        f[i] = IF i <= p THEN s[i - 1] ELSE s[i]
  <2> HIDE DEF f
  <2>1. \A i \in 1 .. n : i # 1 =>
          i - 1 \in 1 .. n - 1 /\ (i - 1) + 1 = i /\ (i - 1 < p <=> i <= p)
    BY <1>1 DEF n
  <2> QED
    BY <2>1, <1>2, <1>3
<1> HIDE DEF f
<1>5. \A i \in 1 .. n : f[i] = IF i = 1 THEN x ELSE IF i <= p THEN s[i - 1] ELSE s[i]
  BY <1>3, <1>4
<1> QED
  BY <1>3, <1>5 DEF f, t, x, n, ToFront

\* When an item is moved to the front, so is its key.
LEMMA KeysToFront ==
  ASSUME NEW s \in Arrangements, NEW st \in [Cells -> cacheItem \cup {Nil}],
         NEW m \in [Keys -> Pointer], Matches(s, st, m),
         NEW p \in 1 .. Len(s), NEW sn,
         \A c \in Cells : st[c] # Nil => sn[c].key = st[c].key
  PROVE  KeysOf(ToFront(s, p), sn) = ToFront(KeysOf(s, st), p)
<1> DEFINE n == Len(s)
           o == KeysOf(s, st)
           f == ToFront(s, p)
           z == KeysOf(f, sn)
<1>1. /\ o \in Seq(Keys) /\ Len(o) = n /\ n \in Nat
      /\ \A i \in 1 .. n : o[i] = st[s[i]].key
  BY KeyPlaces
<1>2. /\ f \in Arrangements /\ Len(f) = n
      /\ \A i \in 1 .. n : f[i] = IF i = 1 THEN s[p]
                             ELSE IF i <= p THEN s[i - 1] ELSE s[i]
  BY ToFrontFacts
<1>3. \A i \in 1 .. n : sn[s[i]].key = o[i]
  <2>1. \A i \in 1 .. n : s[i] \in Cells /\ s[i] \in Range(s)
    BY Items
  <2> QED
    BY <2>1, <1>1 DEF Matches
<1>4. DOMAIN f = 1 .. n
  <2> HIDE DEF f, n
  <2> QED
    BY <1>2, Items
<1> HIDE DEF o, f, n
<1>5. z = [i \in 1 .. n |-> sn[f[i]].key]
  BY <1>4 DEF KeysOf
<1> DEFINE g == ToFront(o, p)
<1>6. /\ g \in Seq(Keys) /\ Len(g) = n
      /\ \A i \in 1 .. n : g[i] = IF i = 1 THEN o[p]
                                  ELSE IF i <= p THEN o[i - 1] ELSE o[i]
  <2>1. p \in 1 .. Len(o)
    BY <1>1 DEF n
  <2> QED
    BY <2>1, <1>1, ToFrontPlaces, ZenonT(30)
<1> HIDE DEF g
<1>7. \A i \in 1 .. n : sn[f[i]].key = g[i]
  <2> SUFFICES ASSUME NEW i \in 1 .. n PROVE sn[f[i]].key = g[i]
    OBVIOUS
  <2>1. p \in 1 .. n
    BY DEF n
  <2>2. CASE i = 1
    BY <2>1, <2>2, <1>2, <1>3, <1>6
  <2>3. CASE i # 1 /\ i <= p
    <3>1. i - 1 \in 1 .. n
      BY <2>3, <1>1
    <3> QED
      BY <3>1, <2>3, <1>2, <1>3, <1>6
  <2>4. CASE i # 1 /\ ~(i <= p)
    BY <2>4, <1>2, <1>3, <1>6
  <2> QED
    BY <2>2, <2>3, <2>4
<1>8. z \in Seq(Keys) /\ Len(z) = n /\ \A i \in 1 .. n : z[i] = g[i]
  <2>1. \A i \in 1 .. n : g[i] \in Keys
    BY <1>6
  <2> HIDE DEF z
  <2> QED
    BY <2>1, <1>1, <1>5, <1>7
<1> HIDE DEF z
<1>9. z = g
  BY <1>6, <1>8, SeqEqual
<1> QED
  BY <1>9 DEF z, g, f, o

\* The key of a new item comes before the others.
LEMMA KeysAdded ==
  ASSUME NEW s \in Arrangements, NEW st \in [Cells -> cacheItem \cup {Nil}],
         NEW m \in [Keys -> Pointer], Matches(s, st, m),
         NEW c \in Cells \ Range(s), NEW sn,
         sn[c].key \in Keys,
         \A d \in Cells \ {c} : sn[d] = st[d]
  PROVE  KeysOf(<<c>> \o s, sn) = <<sn[c].key>> \o KeysOf(s, st)
<1> DEFINE k == sn[c].key
           n == Len(s)
           o == KeysOf(s, st)
           f == <<c>> \o s
           z == KeysOf(f, sn)
           g == <<k>> \o o
<1>1. /\ o \in Seq(Keys) /\ Len(o) = n /\ n \in Nat
      /\ \A i \in 1 .. n : o[i] = st[s[i]].key
  BY KeyPlaces
<1>2. /\ f \in Arrangements /\ Len(f) = n + 1
      /\ f[1] = c /\ \A i \in 1 .. n : f[i + 1] = s[i]
  BY InFront
<1>3. \A i \in 1 .. n : sn[s[i]].key = o[i]
  <2>1. \A i \in 1 .. n : s[i] \in Cells /\ s[i] \in Range(s)
    BY Items
  <2> QED
    BY <2>1, <1>1
<1>4. DOMAIN f = 1 .. n + 1
  <2> HIDE DEF f, n
  <2> QED
    BY <1>1, <1>2, Items
<1> HIDE DEF o, f, n, k
<1>5. z = [i \in 1 .. n + 1 |-> sn[f[i]].key]
  BY <1>4 DEF KeysOf
<1>6. /\ g \in Seq(Keys) /\ Len(g) = n + 1
      /\ \A i \in 1 .. n + 1 : g[i] = IF i = 1 THEN k ELSE o[i - 1]
  <2>0. k \in Keys
    BY DEF k
  <2>1. <<k>> \in Seq(Keys) /\ Len(<<k>>) = 1 /\ <<k>>[1] = k
    BY <2>0
  <2> QED
    BY <2>1, <1>1, ConcatProperties
<1> HIDE DEF g
<1>7. ASSUME NEW i \in 1 .. n + 1
      PROVE  sn[f[i]].key = g[i]
  <2>1. CASE i = 1
    BY <2>1, <1>2, <1>6 DEF k
  <2>2. CASE i # 1
    <3>1. i - 1 \in 1 .. n /\ (i - 1) + 1 = i
      BY <2>2, <1>1
    <3>2. f[i] = s[i - 1]
      BY <3>1, <1>2
    <3> QED
      BY <3>1, <3>2, <2>2, <1>3, <1>6
  <2> QED
    BY <2>1, <2>2
<1>8. z \in Seq(Keys) /\ Len(z) = n + 1 /\ \A i \in 1 .. n + 1 : z[i] = g[i]
  <2>1. \A i \in 1 .. n + 1 : g[i] \in Keys
    BY <1>6
  <2> HIDE DEF z
  <2> QED
    BY <2>1, <1>1, <1>5, <1>7, SMTT(30)
<1> HIDE DEF z
<1>9. z = g
  BY <1>6, <1>8, SeqEqual
<1> QED
  BY <1>9 DEF z, g, f, o, k

\* Without its last element a sequence is cut short by one.
LEMMA WithoutLast ==
  ASSUME NEW S, NEW s \in Seq(S), Len(s) # 0
  PROVE  Without(s, Len(s)) = SubSeq(s, 1, Len(s) - 1)
<1> DEFINE n == Len(s)
           w == Without(s, n)
           b == SubSeq(s, 1, n - 1)
<1>1. n \in Nat /\ n \in 1 .. n /\ \A i \in 1 .. n : s[i] \in S
  OBVIOUS
<1>2. /\ w \in Seq(S) /\ Len(w) = n - 1
      /\ \A i \in 1 .. n - 1 : w[i] = s[i]
  <2>1. /\ w \in Seq(S) /\ Len(w) = n - 1
        /\ \A i \in 1 .. n - 1 : w[i] = IF i < n THEN s[i] ELSE s[i + 1]
    BY <1>1, WithoutFacts, Zenon
  <2> QED
    BY <2>1, <1>1
<1>3. /\ b \in Seq(S) /\ Len(b) = n - 1
      /\ \A i \in 1 .. n - 1 : b[i] = s[i]
  <2>1. /\ Len(b) = IF 1 <= n - 1 THEN (n - 1) - 1 + 1 ELSE 0
        /\ b \in Seq(S) /\ \A i \in 1 .. (n - 1) - 1 + 1 : b[i] = s[1 + i - 1]
    BY <1>1, SubSeqProperties
  <2>2. /\ \A i \in 1 .. n - 1 : 1 + i - 1 = i /\ i \in 1 .. (n - 1) - 1 + 1
        /\ n - 1 \in Nat
    BY <1>1
  <2> HIDE DEF b, n
  <2> QED
    BY <2>1, <2>2, <1>1
<1> HIDE DEF w, b
<1>4. w = b
  BY <1>2, <1>3, SeqEqual
<1> QED
  BY <1>4 DEF w, b

\* When the last item leaves, so does its key.
LEMMA KeysEvicted ==
  ASSUME NEW s \in Arrangements, NEW st \in [Cells -> cacheItem \cup {Nil}],
         NEW m \in [Keys -> Pointer], Matches(s, st, m), Len(s) # 0,
         NEW sn, \A d \in Cells \ {s[Len(s)]} : sn[d] = st[d]
  PROVE  KeysOf(Without(s, Len(s)), sn) = SubSeq(KeysOf(s, st), 1, Len(s) - 1)
<1> DEFINE n == Len(s)
           o == KeysOf(s, st)
           f == Without(s, n)
           z == KeysOf(f, sn)
           g == SubSeq(o, 1, n - 1)
<1>1. /\ o \in Seq(Keys) /\ Len(o) = n /\ n \in Nat
      /\ \A i \in 1 .. n : o[i] = st[s[i]].key
  BY KeyPlaces
<1>2. f \in Arrangements /\ Range(f) = Range(s) \ {s[n]}
  <2>1. n \in 1 .. n
    BY <1>1
  <2> QED
    BY <2>1, WithoutArrangement
<1>3. Len(f) = n - 1 /\ \A i \in 1 .. n - 1 : f[i] = s[i]
  <2>1. n \in 1 .. n /\ s \in Seq(Cells)
    BY <1>1, Items
  <2>2. /\ Len(f) = n - 1
        /\ \A i \in 1 .. n - 1 : f[i] = IF i < n THEN s[i] ELSE s[i + 1]
    BY <2>1, WithoutFacts, Zenon
  <2> QED
    BY <2>2, <1>1
<1>4. \A i \in 1 .. n - 1 : sn[s[i]].key = o[i]
  <2>1. \A i \in 1 .. n : s[i] \in Cells
    BY Items
  <2>2. \A i \in 1 .. n - 1 : i \in 1 .. n /\ s[i] # s[n]
    BY <1>1, OnePlace
  <2> QED
    BY <2>1, <2>2, <1>1
<1>5. DOMAIN f = 1 .. n - 1
  <2> HIDE DEF f, n
  <2> QED
    BY <1>2, <1>3, Items
<1> HIDE DEF o, f
<1>6. z = [i \in 1 .. n - 1 |-> sn[f[i]].key]
  BY <1>5 DEF KeysOf
<1>7. /\ g \in Seq(Keys) /\ Len(g) = n - 1
      /\ \A i \in 1 .. n - 1 : g[i] = o[i]
  <2>1. \A i \in 1 .. n - 1 : o[i] \in Keys
    BY <1>1
  <2> QED
    BY <2>1, <1>1, SubSeqProperties
<1> HIDE DEF g
<1>8. z \in Seq(Keys) /\ Len(z) = n - 1 /\ \A i \in 1 .. n - 1 : z[i] = g[i]
  <2>1. \A i \in 1 .. n - 1 : sn[f[i]].key = g[i] /\ g[i] \in Keys
    BY <1>3, <1>4, <1>7
  <2>2. n - 1 \in Nat
    BY <1>1
  <2> HIDE DEF z, n
  <2> QED
    BY <2>1, <2>2, <1>6
<1> HIDE DEF z
<1>9. z = g
  BY <1>7, <1>8, SeqEqual
<1> QED
  BY <1>9 DEF z, g, f, o

\* The keys the cache keeps, for the promise and for the map.
LEMMA KeysKept ==
  ASSUME WellFormed
  PROVE  /\ KeyOrder = KeysOf(Order, stored)
         /\ KeyOrder \in Seq(Keys) /\ Len(KeyOrder) = Len(Order) /\ Len(Order) \in Nat
         /\ Len(Order) = queue.len
         /\ Promise!Kept = Kept
         /\ \A k \in Kept, n \in 1 .. Len(Order) :
              KeyOrder[n] = k <=> Order[n] = items[k]
<1>1. /\ CacheTypeOK /\ Order \in Arrangements /\ Represents(queue, Order)
      /\ Matches(Order, stored, items)
  BY Holds
<1>2. KeyOrder = KeysOf(Order, stored)
  BY DEF KeyOrder, KeysOf
<1>3. Promise!Kept = Range(KeyOrder)
  BY DEF Promise!Kept, Promise!Range, Range
<1>4. Len(Order) = queue.len
  BY <1>1, Pointers
<1>5. stored \in [Cells -> cacheItem \cup {Nil}] /\ items \in [Keys -> Pointer]
  BY <1>1 DEF CacheTypeOK
<1>6. /\ KeyOrder \in Seq(Keys) /\ Len(KeyOrder) = Len(Order) /\ Len(Order) \in Nat
      /\ Range(KeyOrder) = {k \in Keys : items[k] # Nil}
      /\ \A k \in Keys, n \in 1 .. Len(Order) :
           items[k] # Nil => (KeyOrder[n] = k <=> Order[n] = items[k])
  BY <1>1, <1>2, <1>5, KeyPlaces
<1> QED
  BY <1>2, <1>3, <1>4, <1>6 DEF Kept

\* The same of the next state.
LEMMA KeysKeptNext ==
  ASSUME WellFormed'
  PROVE  KeyOrder' = KeysOf(Order', stored') /\ Range(KeyOrder') = Kept'
<1>1. /\ CacheTypeOK' /\ Order' \in Arrangements /\ Matches(Order', stored', items')
  BY HoldsNext
<1>2. KeyOrder' = KeysOf(Order', stored')
  BY DEF KeyOrder, KeysOf
<1>3. stored' \in [Cells -> cacheItem \cup {Nil}] /\ items' \in [Keys -> Pointer]
  BY <1>1 DEF CacheTypeOK
<1>4. Range(KeyOrder') = {k \in Keys : items'[k] # Nil}
  BY <1>1, <1>2, <1>3, KeyPlaces
<1> QED
  BY <1>2, <1>4 DEF Kept

\* What the promise makes of the use of a key.
LEMMA UsedNew ==
  ASSUME WellFormed, NEW k \in Keys, items[k] = Nil
  PROVE  Promise!Used(k) = <<k>> \o KeyOrder
<1>1. k \notin Promise!Kept
  BY KeysKept DEF Kept
<1> QED
  BY <1>1 DEF Promise!Used, Promise!Others

\* Using a kept key puts it first and moves those before it back by one.
LEMMA UsedAgain ==
  ASSUME WellFormed, NEW k \in Keys, items[k] # Nil,
         NEW p \in 1 .. Len(Order), Order[p] = items[k]
  PROVE  KeyOrder[p] = k /\ Promise!Used(k) = ToFront(KeyOrder, p)
<1>1. k \in Promise!Kept /\ k \in Kept
  BY KeysKept DEF Kept
<1>2. /\ Order \in Arrangements /\ KeyOrder \in Seq(Keys)
      /\ Len(KeyOrder) = Len(Order)
      /\ \A n \in 1 .. Len(Order) : KeyOrder[n] = k <=> Order[n] = items[k]
  BY <1>1, Holds, KeysKept
<1>3. KeyOrder[p] = k
  BY <1>2
<1>4. \A n \in DOMAIN KeyOrder : KeyOrder[n] = k => n = p
  <2>1. DOMAIN KeyOrder = 1 .. Len(Order)
    BY <1>2
  <2>2. \A n \in 1 .. Len(Order) : Order[n] = Order[p] => n = p
    BY <1>2, OnePlace
  <2> QED
    BY <2>1, <2>2, <1>2
<1>5. (CHOOSE n \in DOMAIN KeyOrder : KeyOrder[n] = k) = p
  <2>1. p \in DOMAIN KeyOrder
    BY <1>2
  <2> QED
    BY <2>1, <1>3, <1>4
<1>6. Promise!Others(k) = Without(KeyOrder, p)
  BY <1>1, <1>5 DEF Promise!Others, Without, Promise!RemoveAt
<1> QED
  BY <1>3, <1>6 DEF Promise!Used, ToFront

\* As many keys as there is room for are kept, all of them where there is.
LEMMA RoomForAll ==
  ASSUME NEW s \in Seq(Keys), capacity \in Int, Len(s) > 0 => Len(s) <= capacity
  PROVE  Promise!Room(s) = s
<1> DEFINE n == IF capacity < 0 THEN 0 ELSE capacity
<1>1. Len(s) \in Nat /\ Len(s) <= n
  OBVIOUS
<1>2. Promise!Room(s) = SubSeq(s, 1, Len(s))
  BY <1>1 DEF Promise!Room
<1> QED
  BY <1>2

\* Where there is no room for all, the last one has to go.
LEMMA RoomForLess ==
  ASSUME NEW s \in Seq(Keys), capacity \in Int, Len(s) # 0,
         Len(s) > capacity, Len(s) > 1 => Len(s) - 1 <= capacity
  PROVE  Promise!Room(s) = SubSeq(s, 1, Len(s) - 1)
<1> DEFINE n == IF capacity < 0 THEN 0 ELSE capacity
           m == Len(s)
<1>1. m \in Nat /\ m # 0 /\ m > capacity /\ (m > 1 => m - 1 <= capacity)
  OBVIOUS
<1> HIDE DEF m
<1>2. n = m - 1 /\ ~(m <= n)
  <2>1. CASE m = 1
    BY <2>1, <1>1
  <2>2. CASE m # 1
    BY <2>2, <1>1
  <2> QED
    BY <2>1, <2>2
<1>3. Promise!Room(s) = SubSeq(s, 1, IF m <= n THEN m ELSE n)
  BY DEF Promise!Room, m
<1> QED
  BY <1>2, <1>3 DEF m

\* A read is that of the promise.
LEMMA GetPromise ==
  ASSUME WellFormed, WellFormed', NEW k \in Keys, Get(k)
  PROVE  Promise!Get(k)
<1>1. /\ CacheTypeOK /\ Order \in Arrangements /\ Matches(Order, stored, items)
  BY Holds
<1>2. stored \in [Cells -> cacheItem \cup {Nil}] /\ items \in [Keys -> Pointer]
  BY <1>1 DEF CacheTypeOK
<1>3. UNCHANGED <<capacity, stored, items>>
  BY DEF Get
<1>4. ValueOf' = ValueOf
  BY <1>3 DEF ValueOf, Kept
<1>5. Promise!Kept = Kept
  BY KeysKept
<1>6. CASE items[k] = Nil
  <2>1. k \notin Kept
    BY <1>6 DEF Kept
  <2>2. queue' = queue /\ answer' = <<FALSE>>
    BY <1>6 DEF Get
  <2>3. KeyOrder' = KeyOrder
    BY <2>2, <1>3 DEF KeyOrder, Order
  <2> QED
    BY <2>1, <2>2, <2>3, <1>3, <1>4, <1>5 DEF Promise!Get
<1>7. CASE items[k] # Nil
  <2>1. k \in Kept /\ ValueOf[k] = stored[items[k]].value
    BY <1>7 DEF Kept, ValueOf
  <2>2. PICK p \in 1 .. Len(Order) : Order[p] = items[k]
    BY <1>7, PlaceOf
  <2>3. queue' = MoveToFront(queue, Order[p]) /\ answer' = <<ValueOf[k], TRUE>>
    BY <2>1, <2>2, <1>7 DEF Get
  <2>4. Order' = ToFront(Order, p)
    BY <2>3, <1>2, <1>3, MoveStep
  <2>5. KeyOrder' = KeysOf(ToFront(Order, p), stored)
    BY <2>4, <1>3, KeysKeptNext
  <2>6. KeyOrder' = ToFront(KeyOrder, p)
    BY <2>5, <1>1, <1>2, KeysToFront, KeysKept
  <2>7. KeyOrder' = Promise!Used(k)
    BY <2>2, <2>6, <1>7, UsedAgain
  <2> QED
    BY <2>1, <2>3, <2>7, <1>3, <1>4, <1>5 DEF Promise!Get
<1> QED
  BY <1>6, <1>7

\* A new value for a key it has.
LEMMA SetExistingPromise ==
  ASSUME WellFormed, WellFormed', NEW k \in Keys, NEW v \in Values,
         SetExisting(k, v)
  PROVE  Promise!Set(k, v)
<1>1. /\ CacheTypeOK /\ Order \in Arrangements /\ Matches(Order, stored, items)
  BY Holds
<1>2. /\ stored \in [Cells -> cacheItem \cup {Nil}] /\ items \in [Keys -> Pointer]
      /\ capacity \in Int
      /\ queue.len > 0 => queue.len <= capacity
  BY <1>1, LruAssumption DEF CacheTypeOK
<1>3. /\ items[k] # Nil /\ queue' = MoveToFront(queue, items[k])
      /\ answer' = <<TRUE>> /\ capacity' = capacity /\ items' = items
  BY DEF SetExisting
<1>4. /\ stored' \in [Cells -> cacheItem \cup {Nil}]
      /\ \A c \in Cells : stored[c] # Nil =>
           stored'[c] # Nil /\ stored'[c].key = stored[c].key
      /\ stored'[items[k]].value = v
      /\ \A c \in Cells \ {items[k]} : stored'[c] = stored[c]
  BY SetExistingValues
<1>5. PICK p \in 1 .. Len(Order) : Order[p] = items[k]
  BY <1>3, PlaceOf
<1>6. Order' = ToFront(Order, p)
  BY <1>3, <1>4, <1>5, MoveStep
<1>7. KeyOrder' = ToFront(KeyOrder, p)
  <2>1. KeyOrder' = KeysOf(ToFront(Order, p), stored')
    BY <1>6, KeysKeptNext
  <2>2. KeysOf(ToFront(Order, p), stored') = ToFront(KeysOf(Order, stored), p)
    BY <1>1, <1>2, <1>4, KeysToFront
  <2> QED
    BY <2>1, <2>2, KeysKept
<1>8. /\ KeyOrder \in Seq(Keys) /\ Len(KeyOrder) = queue.len
      /\ p \in 1 .. Len(KeyOrder)
  BY KeysKept
<1>9. KeyOrder' = Promise!Room(Promise!Used(k))
  <2>1. Promise!Used(k) = ToFront(KeyOrder, p)
    BY <1>3, <1>5, UsedAgain
  <2>2. ToFront(KeyOrder, p) \in Seq(Keys) /\ Len(ToFront(KeyOrder, p)) = queue.len
    BY <1>8, ToFrontPlaces
  <2> DEFINE f == ToFront(KeyOrder, p)
  <2>3. Promise!Room(f) = f
    <3> HIDE DEF f
    <3>1. Len(f) > 0 => Len(f) <= capacity
      BY <2>2, <1>2 DEF f
    <3> QED
      BY <3>1, <2>2, <1>2, RoomForAll DEF f
  <2> QED
    BY <2>1, <2>3, <1>7
<1>10. Promise!Kept = Kept /\ Kept' = Kept /\ k \in Kept
  BY <1>3, KeysKept DEF Kept
<1>11. ValueOf' = [j \in Promise!Range(KeyOrder') |->
                     IF j = k THEN v ELSE ValueOf[j]]
  <2>1. Promise!Range(KeyOrder') = Kept
    BY <1>10, KeysKeptNext DEF Promise!Range, Range
  <2>2. ASSUME NEW j \in Kept
        PROVE  stored'[items'[j]].value = IF j = k THEN v ELSE ValueOf[j]
    <3>1. CASE j = k
      BY <3>1, <1>3, <1>4
    <3>2. CASE j # k
      <4>1. j \in Keys /\ items[j] # Nil
        BY DEF Kept
      <4>2. items[j] \in Cells /\ stored[items[j]].key = j
        BY <4>1, <1>1, <1>2 DEF Matches, Pointer
      <4>3. items[j] # items[k]
        BY <4>2, <3>2, <1>1, <1>3 DEF Matches
      <4> QED
        BY <4>2, <4>3, <3>2, <1>3, <1>4 DEF ValueOf
    <3> QED
      BY <3>1, <3>2
  <2>3. ValueOf' = [j \in Kept |-> stored'[items'[j]].value]
    BY <1>10 DEF ValueOf
  <2> QED
    BY <2>1, <2>2, <2>3
<1>12. answer' = <<k \in Promise!Kept>>
  BY <1>3, <1>10
<1> QED
  BY <1>3, <1>9, <1>11, <1>12 DEF Promise!Set

\* The keys that are kept have the values of before, the new one its own.
LEMMA ValuesSet ==
  ASSUME WellFormed, WellFormed', NEW k \in Keys, NEW v \in Values, NEW i \in Cells,
         stored[i] = Nil,
         \A j \in Kept' : /\ j = k => items'[j] = i
                          /\ j # k => items[j] # Nil /\ items'[j] = items[j],
         \A c \in Range(Order') :
           stored'[c] = IF c = i THEN [key |-> k, value |-> v] ELSE stored[c]
  PROVE  ValueOf' = [j \in Promise!Range(KeyOrder') |->
                       IF j = k THEN v ELSE ValueOf[j]]
<1>1. Promise!Range(KeyOrder') = Kept'
  BY KeysKeptNext DEF Promise!Range, Range
<1>2. ASSUME NEW j \in Kept'
      PROVE  stored'[items'[j]].value = IF j = k THEN v ELSE ValueOf[j]
  <2>1. j \in Keys /\ items'[j] # Nil
    BY DEF Kept
  <2>2. items'[j] \in Range(Order')
    BY <2>1, HoldsNext DEF Matches
  <2>3. CASE j = k
    BY <2>2, <2>3
  <2>4. CASE j # k
    <3>1. items[j] # Nil /\ items'[j] = items[j] /\ j \in Kept
      BY <2>1, <2>4 DEF Kept
    <3>2. items[j] # i
      <4>1. items[j] \in Range(Order) /\ stored[items[j]] # Nil
        BY <3>1, <2>1, Holds DEF Matches
      <4> QED
        BY <4>1
    <3> QED
      BY <3>1, <3>2, <2>2, <2>4 DEF ValueOf
  <2> QED
    BY <2>3, <2>4
<1>3. ValueOf' = [j \in Kept' |-> stored'[items'[j]].value]
  BY DEF ValueOf
<1> QED
  BY <1>1, <1>2, <1>3

\* A new key for which there is room.
LEMMA AddPromise ==
  ASSUME WellFormed, WellFormed', NEW k \in Keys, NEW v \in Values, NEW i \in Cells,
         items[k] = Nil, stored[i] = Nil,
         PushFront(queue, i).len <= capacity,
         queue' = PushFront(queue, i),
         stored' = [stored EXCEPT ![i] = [key |-> k, value |-> v]],
         items' = [items EXCEPT ![k] = i],
         capacity' = capacity, answer' = <<FALSE>>
  PROVE  Promise!Set(k, v)
<1>1. /\ CacheTypeOK /\ Order \in Arrangements /\ Matches(Order, stored, items)
  BY Holds
<1>2. /\ stored \in [Cells -> cacheItem \cup {Nil}] /\ items \in [Keys -> Pointer]
      /\ capacity \in Int
  BY <1>1, LruAssumption DEF CacheTypeOK
<1>3. /\ i \notin Range(Order) /\ queue'.len = queue.len + 1
  BY NewItem
<1>4. Order' = <<i>> \o Order
  BY AddStep
<1>5. /\ KeyOrder = KeysOf(Order, stored) /\ KeyOrder \in Seq(Keys)
      /\ Len(KeyOrder) = queue.len /\ Promise!Kept = Kept
  BY KeysKept
<1>6. /\ stored'[i] = [key |-> k, value |-> v]
      /\ \A c \in Cells \ {i} : stored'[c] = stored[c]
      /\ items'[k] = i /\ \A j \in Keys \ {k} : items'[j] = items[j]
  BY <1>2
<1>7. KeyOrder' = <<k>> \o KeyOrder
  <2>1. KeyOrder' = KeysOf(<<i>> \o Order, stored')
    BY <1>4, KeysKeptNext
  <2>2. stored'[i].key = k
    BY <1>6
  <2>3. KeysOf(<<i>> \o Order, stored') = <<k>> \o KeysOf(Order, stored)
    <3>1. i \in Cells \ Range(Order) /\ \A c \in Cells \ {i} : stored'[c] = stored[c]
      BY <1>3, <1>6
    <3>2. Order \in Arrangements /\ Matches(Order, stored, items)
      BY <1>1
    <3>3. stored \in [Cells -> cacheItem \cup {Nil}] /\ items \in [Keys -> Pointer]
      BY <1>2
    <3>4. stored'[i].key \in Keys
      BY <2>2
    <3>5. KeysOf(<<i>> \o Order, stored') = <<stored'[i].key>> \o KeysOf(Order, stored)
      BY <3>1, <3>2, <3>3, <3>4, KeysAdded
    <3> QED
      BY <3>5, <2>2
  <2> QED
    BY <2>1, <2>3, <1>5
<1>8. KeyOrder' = Promise!Room(Promise!Used(k))
  <2>1. Promise!Used(k) = <<k>> \o KeyOrder
    BY UsedNew
  <2>2. <<k>> \o KeyOrder \in Seq(Keys) /\ Len(<<k>> \o KeyOrder) = queue'.len
    BY <1>3, <1>5
  <2>3. Len(<<k>> \o KeyOrder) > 0 => Len(<<k>> \o KeyOrder) <= capacity
    BY <2>2
  <2>4. Promise!Room(<<k>> \o KeyOrder) = <<k>> \o KeyOrder
    BY <2>2, <2>3, <1>2, RoomForAll, Zenon
  <2> QED
    BY <2>1, <2>4, <1>7
<1>9. ValueOf' = [j \in Promise!Range(KeyOrder') |->
                    IF j = k THEN v ELSE ValueOf[j]]
  <2>1. \A j \in Kept' : /\ j = k => items'[j] = i
                         /\ j # k => items[j] # Nil /\ items'[j] = items[j]
    BY <1>6 DEF Kept
  <2>2. Range(Order') \subseteq Cells
    BY HoldsNext, Items
  <2>3. \A c \in Range(Order') :
          stored'[c] = IF c = i THEN [key |-> k, value |-> v] ELSE stored[c]
    BY <2>2, <1>6
  <2> QED
    BY <2>1, <2>3, ValuesSet
<1>10. answer' = <<k \in Promise!Kept>>
  <2>1. k \notin Promise!Kept
    BY <1>5 DEF Kept
  <2>2. (k \in Promise!Kept) = FALSE
    BY <2>1
  <2> QED
    BY <2>2, Zenon
<1> QED
  BY <1>8, <1>9, <1>10 DEF Promise!Set

\* A new key that takes the room of the key used the longest ago.
LEMMA EvictPromise ==
  ASSUME WellFormed, WellFormed', NEW k \in Keys, NEW v \in Values, NEW i \in Cells,
         items[k] = Nil, stored[i] = Nil,
         PushFront(queue, i).len > capacity,
         removeOldest(PushFront(queue, i),
                      [stored EXCEPT ![i] = [key |-> k, value |-> v]],
                      [items EXCEPT ![k] = i]),
         capacity' = capacity, answer' = <<FALSE>>
  PROVE  Promise!Set(k, v)
<1> DEFINE q == PushFront(queue, i)
           s == [stored EXCEPT ![i] = [key |-> k, value |-> v]]
           m == [items EXCEPT ![k] = i]
           t == <<i>> \o Order
           n == Len(t)
<1>1. /\ CacheTypeOK /\ Order \in Arrangements /\ Matches(Order, stored, items)
  BY Holds
<1>2. /\ stored \in [Cells -> cacheItem \cup {Nil}] /\ items \in [Keys -> Pointer]
      /\ capacity \in Int
      /\ queue.len > 0 => queue.len <= capacity
  BY <1>1, LruAssumption DEF CacheTypeOK
<1>3. /\ i \notin Range(Order) /\ q \in List /\ q.len = queue.len + 1
      /\ t \in Arrangements /\ n = Len(Order) + 1 /\ Len(Order) = queue.len
      /\ Represents(q, t)
      /\ s \in [Cells -> cacheItem \cup {Nil}] /\ m \in [Keys -> Pointer]
      /\ Matches(t, s, m)
  BY NewItem
<1>4. Order' = Without(t, n)
  BY EvictStep
<1>5. /\ KeyOrder = KeysOf(Order, stored) /\ KeyOrder \in Seq(Keys)
      /\ Len(KeyOrder) = Len(Order) /\ Len(Order) \in Nat /\ Promise!Kept = Kept
  BY KeysKept
<1>6. /\ s[i] = [key |-> k, value |-> v] /\ \A c \in Cells \ {i} : s[c] = stored[c]
      /\ m[k] = i /\ \A j \in Keys \ {k} : m[j] = items[j]
  BY <1>2
<1>7. /\ queue' = RemoveItem(q, q.back) /\ stored' = [s EXCEPT ![q.back] = Nil]
      /\ items' = [m EXCEPT ![s[q.back].key] = Nil]
  BY DEF removeOldest
<1> HIDE DEF q, s, m
<1>8. KeysOf(t, s) = <<k>> \o KeyOrder
  <2>1. s[i].key = k /\ i \in Cells \ Range(Order)
    BY <1>3, <1>6
  <2>2. KeysOf(<<i>> \o Order, s) = <<k>> \o KeysOf(Order, stored)
    <3>1. \A c \in Cells \ {i} : s[c] = stored[c]
      BY <1>6
    <3>2. Order \in Arrangements /\ Matches(Order, stored, items)
      BY <1>1
    <3>3. stored \in [Cells -> cacheItem \cup {Nil}] /\ items \in [Keys -> Pointer]
      BY <1>2
    <3>4. s[i].key \in Keys
      BY <2>1
    <3>5. KeysOf(<<i>> \o Order, s) = <<s[i].key>> \o KeysOf(Order, stored)
      BY <2>1, <3>1, <3>2, <3>3, <3>4, KeysAdded
    <3> QED
      BY <3>5, <2>1
  <2> QED
    BY <2>2, <1>5
<1> HIDE DEF t
<1>9. n # 0 /\ n \in 1 .. n /\ q.back = t[n]
  <2>1. n # 0 /\ n \in 1 .. n
    BY <1>3, <1>5
  <2> QED
    BY <2>1, <1>3, Ends
<1>10. \A c \in Cells \ {t[n]} : stored'[c] = s[c]
  BY <1>3, <1>7, <1>9
<1>11. KeyOrder' = SubSeq(<<k>> \o KeyOrder, 1, n - 1)
  <2>1. KeyOrder' = KeysOf(Without(t, n), stored')
    BY <1>4, KeysKeptNext
  <2>2. KeysOf(Without(t, n), stored') = SubSeq(KeysOf(t, s), 1, n - 1)
    BY <1>3, <1>9, <1>10, KeysEvicted
  <2> QED
    BY <2>1, <2>2, <1>8
<1>12. KeyOrder' = Promise!Room(Promise!Used(k))
  <2> DEFINE u == <<k>> \o KeyOrder
  <2>1. Promise!Used(k) = u
    BY UsedNew
  <2>2. u \in Seq(Keys) /\ Len(u) = n
    BY <1>3, <1>5
  <2>3. n > capacity
    BY <1>3 DEF q
  <2> HIDE DEF u, n
  <2>4. n > 1 => n - 1 <= capacity
    <3>1. n = queue.len + 1 /\ queue.len \in Nat
      BY <1>3, <1>5
    <3>2. queue.len > 0 => queue.len <= capacity
      BY <1>2
    <3> QED
      BY <3>1, <3>2, <1>2
  <2>5. Promise!Room(u) = SubSeq(u, 1, n - 1)
    <3>1. capacity \in Int /\ n # 0
      BY <1>2, <1>9
    <3> QED
      BY <2>2, <2>3, <2>4, <3>1, RoomForLess
  <2> QED
    BY <2>1, <2>5, <1>11 DEF u
<1>13. ValueOf' = [j \in Promise!Range(KeyOrder') |->
                     IF j = k THEN v ELSE ValueOf[j]]
  <2>1. ASSUME NEW j \in Kept'
        PROVE  /\ j = k => items'[j] = i
               /\ j # k => items[j] # Nil /\ items'[j] = items[j]
    <3>1. j \in Keys /\ items'[j] # Nil
      BY DEF Kept
    <3>2. items'[j] = m[j]
      BY <3>1, <1>3, <1>7
    <3> QED
      BY <3>1, <3>2, <1>6
  <2>2. Range(Order') \subseteq Cells \ {t[n]}
    <3>1. Range(Order') = Range(t) \ {t[n]}
      BY <1>3, <1>4, <1>9, WithoutArrangement
    <3>2. Range(t) \subseteq Cells
      BY <1>3, Items
    <3> QED
      BY <3>1, <3>2
  <2>3. \A c \in Range(Order') :
          stored'[c] = IF c = i THEN [key |-> k, value |-> v] ELSE stored[c]
    BY <2>2, <1>6, <1>10
  <2> QED
    BY <2>1, <2>3, ValuesSet
<1>14. answer' = <<k \in Promise!Kept>>
  <2>1. k \notin Promise!Kept
    BY <1>5 DEF Kept
  <2>2. (k \in Promise!Kept) = FALSE
    BY <2>1
  <2> QED
    BY <2>2, Zenon
<1> QED
  BY <1>12, <1>13, <1>14 DEF Promise!Set

\* Clear keeps the promise.
LEMMA ClearPromise ==
  ASSUME WellFormed, Clear
  PROVE  Promise!Clear
<1>1. Order' = <<>>
  BY ClearStep
<1>2. KeyOrder' = <<>>
  BY <1>1 DEF KeyOrder
<1>3. ValueOf' = <<>>
  BY DEF ValueOf, Kept, Clear, NoItems
<1> QED
  BY <1>2, <1>3 DEF Clear, Promise!Clear

\* The cache does what an LRU cache promises: whatever its capacity and the
\* calls, it keeps the keys used last, as many as there is room for, with the
\* values set last, and each call answers accordingly (cache.go).
THEOREM CacheImplementsRecency == CacheSpec => ImplementsRecency
<1>1. CacheInit => Promise!Init
  <2> SUFFICES ASSUME CacheInit PROVE Promise!Init
    OBVIOUS
  <2>2. Order = <<>>
    BY InitStep
  <2>3. KeyOrder = <<>>
    BY <2>2 DEF KeyOrder
  <2>4. ValueOf = <<>>
    <3>1. Kept = {}
      BY DEF Kept, CacheInit, NoItems
    <3> QED
      BY <3>1 DEF ValueOf
  <2> QED
    BY <2>3, <2>4 DEF CacheInit, Promise!Init
<1>2. WellFormed /\ WellFormed' /\ [CacheNext]_cacheVars => [Promise!Next]_(Promise!vars)
  <2> SUFFICES ASSUME WellFormed, WellFormed', [CacheNext]_cacheVars
               PROVE  Promise!Next \/ UNCHANGED Promise!vars
    OBVIOUS
  <2>1. CASE UNCHANGED cacheVars
    BY <2>1 DEF cacheVars, Promise!vars, KeyOrder, ValueOf, Kept, Order
  <2>2. ASSUME NEW k \in Keys, Get(k)
        PROVE  Promise!Next
    BY <2>2, GetPromise DEF Promise!Next
  <2>3. ASSUME NEW k \in Keys, NEW v \in Values, Set(k, v)
        PROVE  Promise!Next
    <3>1. CASE SetExisting(k, v)
      BY <3>1, SetExistingPromise DEF Promise!Next
    <3>2. CASE SetNew(k, v)
      <4>1. PICK i \in Cells : SetNew(k, v)!(i)
        BY <3>2 DEF SetNew
      <4>2. Promise!Set(k, v)
        BY <4>1, AddPromise, EvictPromise
      <4> QED
        BY <4>2 DEF Promise!Next
    <3> QED
      BY <2>3, <3>1, <3>2 DEF Set
  <2>4. ASSUME Clear
        PROVE  Promise!Next
    BY <2>4, ClearPromise DEF Promise!Next
  <2> QED
    BY <2>1, <2>2, <2>3, <2>4 DEF CacheNext
<1> QED
  BY <1>1, <1>2, CacheWellFormed, PTL DEF CacheSpec, ImplementsRecency, Promise!Spec
=============================================================================
