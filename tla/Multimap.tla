------------------------------ MODULE Multimap ------------------------------
(***************************************************************************)
(* What the hash table and the skip list of container.c promise: data      *)
(* under keys, any number of them under one key.  The skip list is         *)
(* "Ordered": it is walked by ascending keys and returns the newest data   *)
(* of a key first, the hash table the oldest.  A successful removal from a *)
(* sticky table may leave the last data of a key where it is.              *)
(***************************************************************************)
EXTENDS Integers, Sequences, SequencesExt

CONSTANTS
  Keys,     \* numbers
  Vals,     \* what may be stored
  Ordered,  \* see above
  Sticky    \* may a removed element stay

VARIABLES
  map,   \* the data of each key, the first to be found first
  op,    \* the last call
  out    \* the data it returned or passed to its function

Empty == [k \in Keys |-> << >>]

MInit == map = Empty /\ op = "init" /\ out = << >>

Ins(k, d) ==
  /\ op' = "ins" /\ out' = << >>
  /\ map' = [map EXCEPT ![k] = IF Ordered THEN <<d>> \o @ ELSE Append(@, d)]

FirstOf(k) == IF map[k] = << >> THEN << >> ELSE <<Head(map[k])>>

Find(k) == op' = "find" /\ out' = FirstOf(k) /\ UNCHANGED map

Rem(k) ==
  /\ op' = "rem" /\ out' = FirstOf(k)
  /\ IF map[k] = << >> THEN UNCHANGED map
     ELSE \/ map' = [map EXCEPT ![k] = Tail(@)]
          \/ Sticky /\ Len(map[k]) = 1 /\ UNCHANGED map

\* s holds all data as often as the map does
IsAllOf(s) ==
  IF Ordered
    THEN LET byKey == SetToSortSeq(Keys, <)
         IN s = FlattenSeq([i \in DOMAIN byKey |-> map[byKey[i]]])
    ELSE \A d \in Vals :
           Cardinality({i \in DOMAIN s : s[i] = d})
             = Cardinality(UNION {{k} \X {i \in DOMAIN map[k] : map[k][i] = d} : k \in Keys})

Walk == op' = "walk" /\ IsAllOf(out') /\ UNCHANGED map

\* a new map takes the place of the old one
Free == op' = "free" /\ IsAllOf(out') /\ map' = Empty

\* a copy takes the place of the table
Clone == op' = "clone" /\ out' = << >> /\ UNCHANGED map

MNext == (\E k \in Keys : Find(k) \/ Rem(k) \/ \E d \in Vals : Ins(k, d)) \/ Walk \/ Free \/ Clone

MSpec == MInit /\ [][MNext]_<<map, op, out>>
=============================================================================
