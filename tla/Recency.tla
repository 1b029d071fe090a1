------------------------------ MODULE Recency ------------------------------
(***************************************************************************)
(* What an LRU cache promises (hw04_lru_cache/README.md says the same in   *)
(* words): it keeps the keys used last, as many as it has room for.        *)
(***************************************************************************)
EXTENDS Integers, Sequences, SequencesExt

CONSTANTS Keys, Values, Capacities

VARIABLES
  capacity,
  order,    \* the keys it keeps, the one used last first
  value,    \* value[k] for each of them
  answer    \* what the last call returned

vars == <<capacity, order, value, answer>>

Kept == Range(order)

\* Used(k): k becomes the key used last.
Others(k) ==
  IF k \in Kept THEN RemoveAt(order, CHOOSE n \in DOMAIN order : order[n] = k)
  ELSE order
Used(k) == <<k>> \o Others(k)

\* The first ones of s, as many as there is room for.
Room(s) ==
  LET n == IF capacity < 0 THEN 0 ELSE capacity
  IN SubSeq(s, 1, IF Len(s) <= n THEN Len(s) ELSE n)

Init ==
  /\ capacity \in Capacities
  /\ order = <<>>
  /\ value = <<>>
  /\ answer = <<>>

Get(k) ==
  /\ answer' = IF k \in Kept THEN <<value[k], TRUE>> ELSE <<FALSE>>
  /\ order' = IF k \in Kept THEN Used(k) ELSE order
  /\ UNCHANGED <<capacity, value>>

Set(k, v) ==
  /\ answer' = <<k \in Kept>>
  /\ order' = Room(Used(k))
  /\ value' = [j \in Range(order') |-> IF j = k THEN v ELSE value[j]]
  /\ UNCHANGED capacity

Clear ==
  /\ order' = <<>>
  /\ value' = <<>>
  /\ answer' = <<>>
  /\ UNCHANGED capacity

Next ==
  \/ \E k \in Keys : Get(k) \/ \E v \in Values : Set(k, v)
  \/ Clear

Spec == Init /\ [][Next]_vars
=============================================================================
