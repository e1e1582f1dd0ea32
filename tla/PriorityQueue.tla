---------------------------- MODULE PriorityQueue ----------------------------
(***************************************************************************)
(* What the heap of container.c promises its user, which merges two        *)
(* listings by name: a bag of keys from which the least one is taken.      *)
(***************************************************************************)
EXTENDS Integers

CONSTANTS Keys, Nothing

VARIABLES
  bag,     \* how often each key is in the heap
  popped   \* the key returned by the last heap_pop or heap_peek

PInit == bag = [k \in Keys |-> 0] /\ popped = Nothing

PPush(k) == bag' = [bag EXCEPT ![k] = @ + 1] /\ UNCHANGED popped

Least(k) == bag[k] > 0 /\ \A j \in Keys : bag[j] > 0 => k <= j

PPop(k) ==
  /\ Least(k)
  /\ bag' = [bag EXCEPT ![k] = @ - 1]
  /\ popped' = k

PPeek(k) == Least(k) /\ popped' = k /\ UNCHANGED bag

PNext == \E k \in Keys : PPush(k) \/ PPop(k) \/ PPeek(k)

PSpec == PInit /\ [][PNext]_<<bag, popped>>
=============================================================================
