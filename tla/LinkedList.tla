----------------------------- MODULE LinkedList -----------------------------
(***************************************************************************)
(* The doubly linked list of hw04_lru_cache/list.go: its operations as     *)
(* functions of the list, which is the record of its fields and of the     *)
(* Prev and Next of all items.                                             *)
(***************************************************************************)
EXTENDS Integers, Sequences, FiniteSets, Functions

CONSTANTS
  Cells,   \* the items there may be
  Nil      \* the nil pointer

ASSUME CellAssumption == IsFiniteSet(Cells) /\ Nil \notin Cells

Pointer == Cells \cup {Nil}

List == [front : Pointer, back : Pointer, len : Int,
         prev : [Cells -> Pointer], next : [Cells -> Pointer]]

NewList == [front |-> Nil, back |-> Nil, len |-> 0,
            prev |-> [c \in Cells |-> Nil], next |-> [c \in Cells |-> Nil]]

----------------------------------------------------------------------------
(* The operations; c is a new item of PushFront and an item of l otherwise *)

PushFront(l, c) ==
  IF l.front = Nil
  THEN [l EXCEPT !.front = c, !.back = c, !.len = @ + 1]
  ELSE [l EXCEPT !.front = c, !.len = @ + 1,
                 !.next[c] = l.front, !.prev[l.front] = c]

\* Mutant: an item that was the last one stays the last one.
UnlinkKeepBack(l, c) ==
  LET p == l.prev[c]
      n == l.next[c]
  IN [l EXCEPT !.front = IF p = Nil THEN n ELSE @,
               !.next = IF p = Nil THEN @ ELSE [@ EXCEPT ![p] = n],
               !.prev = IF n = Nil THEN @ ELSE [@ EXCEPT ![n] = p]]

\* The neighbours of c, or the ends of the list, pass c by.
Unlink(l, c) ==
  LET p == l.prev[c]
      n == l.next[c]
  IN [l EXCEPT !.front = IF p = Nil THEN n ELSE @,
               !.next = IF p = Nil THEN @ ELSE [@ EXCEPT ![p] = n],
               !.prev = IF n = Nil THEN @ ELSE [@ EXCEPT ![n] = p],
               !.back = IF n = Nil THEN p ELSE @]

RemoveItem(l, c) ==
  [Unlink(l, c) EXCEPT !.next[c] = Nil, !.prev[c] = Nil, !.len = @ - 1]

\* An item that is not the first one has a predecessor.
MoveToFront(l, c) ==
  IF c = l.front THEN l
  ELSE LET u == Unlink(l, c)
       IN [u EXCEPT !.prev[c] = Nil, !.next[c] = u.front,
                    !.prev[u.front] = c, !.front = c]

----------------------------------------------------------------------------
(* What a list stands for *)

\* The ways to put items in a row, none of them twice (sets that TLC keeps).
Arrangements ==
  UNION {{s : s \in Injection(1..n, Cells)} : n \in 0..Cardinality(Cells)}

\* l is the list of the items of s: nil <- front <-> ... <-> back -> nil.
Represents(l, s) ==
  /\ l.len = Len(s)
  /\ l.front = IF s = <<>> THEN Nil ELSE s[1]
  /\ l.back = IF s = <<>> THEN Nil ELSE s[Len(s)]
  /\ \A i \in DOMAIN s :
       /\ l.prev[s[i]] = IF i = 1 THEN Nil ELSE s[i - 1]
       /\ l.next[s[i]] = IF i = Len(s) THEN Nil ELSE s[i + 1]
  /\ \A c \in Cells \ Range(s) : l.prev[c] = Nil /\ l.next[c] = Nil
=============================================================================
