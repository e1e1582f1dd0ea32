-------------------------------- MODULE Hash --------------------------------
(***************************************************************************)
(* The hash table of container.c.  The first element of a chain lies in    *)
(* the table itself, the others are linked to it: a chain is a sequence.   *)
(* A slot without data, which hash_init leaves behind, is an empty chain.  *)
(***************************************************************************)
EXTENDS Integers, Sequences, SequencesExt

CONSTANTS
  HashSize,  \* hash_size
  Keys,      \* 32-bit numbers
  Vals,      \* pointers other than NULL
  MaxElems   \* bound: elements in the table

VARIABLES
  table,  \* hash_data
  op,     \* the last call
  out     \* the data it returned or passed to its function

vars == <<table, op, out>>

Bucket == 0 .. HashSize - 1

Call(name, d) == op' = name /\ out' = d

Empty == [b \in Bucket |-> << >>]

Init == table = Empty /\ op = "init" /\ out = << >>

\* hash_count
Count == FoldFunction(LAMBDA chain, n : n + Len(chain), 0, table)

\* hash_ins on table t: to the end of the chain
Inserted(t, k, d) == [t EXCEPT ![k % HashSize] = Append(@, [key |-> k, data |-> d])]

hash_ins(k, d) ==
  /\ Count < MaxElems
  /\ table' = Inserted(table, k, d)
  /\ Call("ins", << >>)

\* the place of k in its chain, 0 if it is not there
Position(k) ==
  LET chain == table[k % HashSize]
      hits == {i \in DOMAIN chain : chain[i].key = k}
  IN IF hits = {} THEN 0 ELSE CHOOSE i \in hits : \A j \in hits : i <= j

DataAt(k) == IF Position(k) = 0 THEN << >>
             ELSE <<table[k % HashSize][Position(k)].data>>

hash_find(k) == Call("find", DataAt(k)) /\ UNCHANGED table

\* fault: the first of a chain is cleared and the chain with it
hash_rem_First(k) ==
  /\ Call("rem", DataAt(k))
  /\ LET chain == table[k % HashSize]
         i == Position(k)
     IN table' = CASE i = 0 -> table
                   [] i = 1 -> [table EXCEPT ![k % HashSize] = << >>]
                   [] OTHER -> [table EXCEPT ![k % HashSize] = RemoveAt(@, i)]

(* hash_rem: the element after the first one of a chain moves up into the  *)
(* table; a first one that is alone is returned but stays.                 *)
hash_rem(k) ==
  /\ Call("rem", DataAt(k))
  /\ LET chain == table[k % HashSize]
         i == Position(k)
     IN table' = IF i = 0 \/ (i = 1 /\ Len(chain) = 1) THEN table
                 ELSE [table EXCEPT ![k % HashSize] = RemoveAt(@, i)]

\* what hash_map meets, and hash_free frees
All == FlattenSeq([b \in 1 .. HashSize |-> table[b - 1]])

AllData == [i \in DOMAIN All |-> All[i].data]

hash_map == Call("walk", AllData) /\ UNCHANGED table

\* and hash_init makes the next table
hash_free == Call("free", AllData) /\ table' = Empty

\* hash_clone inserts what hash_map meets
hash_clone ==
  /\ table' = LET all == All
                  copy[i \in 0 .. Len(all)] ==
                    IF i = 0 THEN Empty
                    ELSE Inserted(copy[i - 1], all[i].key, all[i].data)
              IN copy[Len(all)]
  /\ Call("clone", << >>)

Next ==
  \/ \E k \in Keys : hash_find(k) \/ hash_rem(k) \/ \E d \in Vals : hash_ins(k, d)
  \/ hash_map \/ hash_free \/ hash_clone

Spec == Init /\ [][Next]_vars

-----------------------------------------------------------------------------
(* Properties                                                              *)

\* the data under each key
Map == [k \in Keys |->
          LET of == SelectSeq(table[k % HashSize], LAMBDA e : e.key = k)
          IN [i \in DOMAIN of |-> of[i].data]]

M == INSTANCE Multimap WITH map <- Map, Ordered <- FALSE, Sticky <- TRUE

(* The hash table implements a multimap that returns the oldest data of a  *)
(* key: no call touches what other keys of the same chain hold, wherever   *)
(* the removed element was, a copy equals its original, and all elements    *)
(* are freed once.  The multimap has to be a sticky one: hash_rem leaves   *)
(* the only element of a chain.                                            *)
IsMultimap == M!MSpec
=============================================================================
