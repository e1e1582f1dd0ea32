-------------------------------- MODULE Heap --------------------------------
(***************************************************************************)
(* The heap of container.c, with which build_local_dir and                 *)
(* build_remote_dir sort a listing.  The array is numbered from 0, but the *)
(* parent of i is i / 2 and its children are 2i and 2i + 1: slot 0 is the  *)
(* parent of slot 1 only.  heap_comp_fun is spf_push_comp, by which the    *)
(* least name is the greatest element.                                     *)
(***************************************************************************)
EXTENDS Integers, FiniteSets

CONSTANTS
  Keys,      \* the names, a set of natural numbers
  Nothing,   \* an uninitialised slot
  Chunk,     \* HEAP_CHUNK
  MaxKeys    \* bound: keys in the heap

VARIABLES
  data,    \* heap_data, a function on 0 .. size - 1
  keys,    \* heap_keys
  size,    \* heap_size
  popped   \* *data of the last heap_pop or heap_peek

vars == <<data, keys, size, popped>>

Slots(n) == 0 .. n - 1

Parent(i) == i \div 2
Left(i)   == 2 * i
Right(i)  == 2 * i + 1

\* spf_push_comp: positive when the first name is the lesser one
Comp(a, b) == b - a

Init ==
  /\ data = [i \in Slots(Chunk) |-> Nothing]
  /\ keys = 0
  /\ size = Chunk
  /\ popped = Nothing

\* realloc to n slots
Resized(n) == [i \in Slots(n) |-> IF i < size THEN data[i] ELSE Nothing]

(* The slots heap_push moves down: the ancestors of slot i up to the first *)
(* that is no less than x, ending with the slot where x goes.              *)
Place(d, x) ==
  LET up[i \in 0 .. keys] == IF i > 0 /\ Comp(d[Parent(i)], x) < 0 THEN up[Parent(i)] ELSE i
  IN up[keys]

\* is slot i on the way from slot j up to slot top
OnPath(i, j, top) ==
  LET on[k \in 0 .. keys] == k = i \/ (k > top /\ on[Parent(k)])
  IN i > top /\ on[j]

SiftUp(d, x) ==
  LET top == Place(d, x)
  IN [i \in DOMAIN d |-> IF i = top THEN x
                         ELSE IF i <= keys /\ OnPath(i, keys, top) THEN d[Parent(i)]
                         ELSE d[i]]

\* heap_push: doubles a full array, then lets the key rise
heap_push(x) ==
  /\ keys < MaxKeys
  /\ LET n == IF keys = size THEN 2 * size ELSE size
     IN size' = n /\ data' = SiftUp(Resized(n), x)
  /\ keys' = keys + 1
  /\ UNCHANGED popped

\* heap_heapify, one turn: the slot to exchange i with, or i itself
Largest(d, n, i) ==
  LET l == IF Left(i) < n /\ Comp(d[Left(i)], d[i]) > 0 THEN Left(i) ELSE i
  IN IF Right(i) < n /\ Comp(d[Right(i)], d[l]) > 0 THEN Right(i) ELSE l

Exchange(d, a, b) == [d EXCEPT ![a] = d[b], ![b] = d[a]]

(* heap_heapify from slot 0 on n keys: the state after each turn, of which *)
(* there are at most n.                                                    *)
heap_heapify(d0, n) ==
  LET turn[k \in 0 .. n] ==
        IF k = 0 THEN [d |-> d0, i |-> 0]
        ELSE LET s == turn[k - 1]
                 m == Largest(s.d, n, s.i)
             IN IF m = s.i THEN s ELSE [d |-> Exchange(s.d, s.i, m), i |-> m]
  IN turn[n].d

\* fault: the root is read after the last key was moved there
heap_pop_Moved ==
  /\ keys > 0
  /\ popped' = data[keys - 1]
  /\ LET n == IF keys < size \div 2 /\ size # Chunk THEN size \div 2 ELSE size
         d == Resized(n)
     IN /\ size' = n
        /\ data' = heap_heapify([d EXCEPT ![0] = d[keys - 1]], keys - 1)
  /\ keys' = keys - 1

\* heap_pop: halves an array less than half full, moves the last key to the
\* root and lets it sink
heap_pop ==
  /\ keys > 0
  /\ popped' = data[0]
  /\ LET n == IF keys < size \div 2 /\ size # Chunk THEN size \div 2 ELSE size
         d == Resized(n)
     IN /\ size' = n
        /\ data' = heap_heapify([d EXCEPT ![0] = d[keys - 1]], keys - 1)
  /\ keys' = keys - 1

\* heap_peek of a heap that is not empty
heap_peek == keys > 0 /\ popped' = data[0] /\ UNCHANGED <<data, keys, size>>

Next == (\E x \in Keys : heap_push(x)) \/ heap_pop \/ heap_peek

Spec == Init /\ [][Next]_vars

-----------------------------------------------------------------------------
(* Properties                                                              *)

\* how often each key is in the heap
Bag == [k \in Keys |-> Cardinality({i \in Slots(keys) : data[i] = k})]

P == INSTANCE PriorityQueue WITH bag <- Bag

(* The heap implements the priority queue: no key is lost or duplicated,   *)
(* and heap_pop and heap_peek return the least one, through every growth   *)
(* and shrinking of the array.                                             *)
IsPriorityQueue == P!PSpec
=============================================================================
