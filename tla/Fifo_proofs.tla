----------------------------- MODULE Fifo_proofs -----------------------------
(* The FIFO list implements the queue, for any FIFO_CHUNK, any number of   *)
(* elements and any number of growths and shrinkings, as long as its user  *)
(* pushes before it pops, the way sp_sync_dir does.                        *)
EXTENDS Fifo, SequenceTheorems, TLAPS

\* A number below the divisor is its own remainder.
LEMMA SmallMod ==
  ASSUME NEW n \in Nat \ {0}, NEW x \in Nat, x < n
  PROVE  x % n = x
  BY SMT

\* Half a size that leaves room for k elements still has a slot to spare.
LEMMA HalfRoom ==
  ASSUME NEW n \in Nat \ {0}, NEW k \in Nat, k < (n - 1) \div 2
  PROVE  /\ n \div 2 \in Nat \ {0}
         /\ k < n \div 2
  BY SMT

IInv == IndicesInBuffer /\ Contiguous

\* what a push does to an unwrapped buffer
Pushed(x) ==
  /\ start = 0 /\ start' = 0 /\ ~popping /\ popping' = FALSE
  /\ size' \in Nat \ {0}
  /\ end \in Nat /\ end' = end + 1 /\ end' \in Slots(size') /\ 0 \in Slots(size')
  /\ data' \in [Slots(size') -> Elems \cup {Nothing}]
  /\ data'[end] = x
  /\ \A i \in 0 .. end - 1 : data'[i] = data[i]

\* A push puts the element into the next slot, of a larger buffer if need be.
LEMMA PushEffect ==
  ASSUME ~Interleaved, IInv, NEW x \in Elems, fifo_push(x)
  PROVE  Pushed(x)
<1> USE DEF IInv, IndicesInBuffer, Contiguous, Slots
<1>1. start = 0 /\ start' = 0 /\ ~popping /\ popping' = FALSE /\ Count(start, end, size) = end
  BY DEF fifo_push, Count
<1>2. CASE Full
  <2>1. end = size - 1 /\ GrownEnd = end
    BY <1>1, <1>2 DEF Full, GrownEnd
  <2>2. end + 1 < 2 * size /\ (end + 1) % (2 * size) = end + 1
    <3>1. end + 1 < 2 * size /\ 2 * size \in Nat \ {0} /\ end + 1 \in Nat
      BY <2>1
    <3> QED
      BY <3>1, SmallMod
  <2>3. /\ data' = [Grown EXCEPT ![end] = x]
        /\ end' = end + 1
        /\ size' = 2 * size
    BY <1>2, <2>1, <2>2 DEF fifo_push, StoreIn
  <2>4. /\ Grown \in [Slots(2 * size) -> Elems \cup {Nothing}]
        /\ \A i \in 0 .. end - 1 : Grown[i] = data[i]
    BY <1>1, <2>1 DEF Grown
  <2>5. end \in Slots(2 * size)
    BY <2>2
  <2> QED
    BY <1>1, <2>2, <2>3, <2>4, <2>5 DEF Pushed
<1>3. CASE ~Full
  <2>1. end < size - 1
    BY <1>1, <1>3 DEF Full
  <2>2. (end + 1) % size = end + 1
    BY <2>1, SmallMod
  <2>3. /\ data' = [data EXCEPT ![end] = x]
        /\ end' = end + 1
        /\ size' = size
    BY <1>3, <2>2 DEF fifo_push, StoreIn
  <2> QED
    BY <1>1, <2>1, <2>3 DEF Pushed
<1> QED
  BY <1>2, <1>3

\* what a pop does to an unwrapped buffer
Popped ==
  /\ start \in Nat /\ end \in Nat /\ start < end
  /\ popping' = TRUE /\ popped' = data[start]
  /\ size' \in Nat \ {0}
  /\ start' \in Nat /\ end' \in Nat /\ start' <= end' /\ end' < size'
  /\ end' - start' = end - start - 1
  /\ data' \in [Slots(size') -> Elems \cup {Nothing}]
  /\ \A i \in 0 .. end - start - 2 : data'[start' + i] = data[start + 1 + i]
  /\ \A i \in start' .. end' - 1 : data'[i] \in Elems

(* After a pop the elements behind the oldest are the same ones in the     *)
(* same order, moved down if the buffer shrinks.                           *)
LEMMA PopEffect ==
  ASSUME IInv, fifo_pop
  PROVE  Popped
<1> USE DEF IInv, IndicesInBuffer, Contiguous, Slots
<1>1. start < end /\ popping' = TRUE /\ popped' = data[start]
  BY DEF fifo_pop
<1>2. (start + 1) % size = start + 1
  <2>1. size \in Nat \ {0} /\ start + 1 \in Nat /\ start + 1 < size
    BY <1>1
  <2> QED
    BY <2>1, SmallMod
<1> DEFINE n == end - (start + 1)
<1>3. Count(start + 1, end, size) = n /\ n \in Nat
  BY <1>1 DEF Count
<1>4. CASE n < (size - 1) \div 2 /\ size # Chunk
  <2>1. /\ data' = Shrunk(start + 1, end)
        /\ start' = 0
        /\ end' = n
        /\ size' = size \div 2
    BY <1>2, <1>3, <1>4 DEF fifo_pop
  <2>2. size \div 2 \in Nat \ {0} /\ n < size \div 2
    BY <1>3, <1>4, HalfRoom
  <2>3. size \div 2 <= size
    BY SMT
  <2>4. /\ Shrunk(start + 1, end) \in [Slots(size \div 2) -> Elems \cup {Nothing}]
        /\ \A i \in 0 .. n - 1 : Shrunk(start + 1, end)[i] = data[start + 1 + i]
    BY <1>1, <2>2, <2>3 DEF Shrunk
  <2> QED
    <3>1. \A i \in 0 .. n - 1 : data'[i] \in Elems
      BY <1>1, <1>3, <2>1, <2>4
    <3> QED
      BY <1>1, <1>3, <2>1, <2>2, <2>4, <3>1 DEF Popped
<1>5. CASE ~(n < (size - 1) \div 2 /\ size # Chunk)
  <2>1. start' = start + 1 /\ data' = data /\ end' = end /\ size' = size
    BY <1>2, <1>3, <1>5 DEF fifo_pop
  <2>2. \A i \in start + 1 .. end - 1 : data'[i] \in Elems
    BY <2>1
  <2> QED
    BY <1>1, <2>1, <2>2 DEF Popped
<1> QED
  BY <1>4, <1>5

(* The indices stay in the buffer, it never wraps, and every slot between  *)
(* start and end holds an element.                                         *)
LEMMA InvStep ==
  ASSUME ~Interleaved, IInv, [FifoNext]_fifoVars
  PROVE  IInv'
<1>1. ASSUME NEW x \in Elems, fifo_push(x)
      PROVE  IInv'
  <2>1. Pushed(x) /\ popped' = popped /\ pushes' = pushes + 1
    BY <1>1, PushEffect DEF fifo_push
  <2>2. IndicesInBuffer'
    <3>1. popping' \in BOOLEAN
      BY <2>1 DEF Pushed
    <3> QED
      BY <2>1, <3>1 DEF Pushed, IInv, IndicesInBuffer
  <2>3. ASSUME NEW i \in 0 .. end
        PROVE  data'[i] \in Elems
    <3>1. CASE i = end
      BY <2>1, <3>1 DEF Pushed
    <3>2. CASE i # end
      BY <2>1, <3>2 DEF Pushed, IInv, Contiguous
    <3> QED
      BY <3>1, <3>2
  <2>4. Contiguous'
    BY <2>1, <2>3 DEF Pushed, Contiguous
  <2> QED
    BY <2>2, <2>4 DEF IInv
<1>2. CASE fifo_pop
  <2>1. Popped /\ pushes' = pushes
    BY <1>2, PopEffect DEF fifo_pop
  <2>2. popped' \in Elems
    BY <2>1 DEF Popped, IInv, Contiguous
  <2>3. IndicesInBuffer'
    BY <2>1, <2>2 DEF Popped, IInv, IndicesInBuffer, Slots
  <2>4. Contiguous'
    BY <2>1 DEF Popped, Contiguous
  <2> QED
    BY <2>3, <2>4 DEF IInv
<1>3. CASE UNCHANGED fifoVars
  BY <1>3 DEF fifoVars, IInv, IndicesInBuffer, Contiguous, Slots
<1> QED
  BY <1>1, <1>2, <1>3 DEF FifoNext, Drained

LEMMA InvInit ==
  ASSUME FifoInit
  PROVE  IInv
<1>1. IndicesInBuffer
  <2>1. size \in Nat \ {0} /\ start \in Slots(size) /\ end \in Slots(size) /\ pushes \in Nat
    BY ChunkAssumption DEF FifoInit, Slots
  <2>2. data \in [Slots(size) -> Elems \cup {Nothing}] /\ popped \in Elems \cup {Nothing}
    BY DEF FifoInit
  <2>3. popping \in BOOLEAN
    BY DEF FifoInit
  <2> QED
    BY <2>1, <2>2, <2>3 DEF IndicesInBuffer
<1>2. Contiguous
  BY DEF FifoInit, Contiguous
<1> QED
  BY <1>1, <1>2 DEF IInv

InOrder ==
  /\ Items = [i \in 1 .. end - start |-> data[start + i - 1]]
  /\ Items \in Seq(Elems)
  /\ Len(Items) = end - start

\* The elements of an unwrapped buffer, in the order of the slots.
LEMMA ItemsUnwrapped == IInv => InOrder
<1> SUFFICES ASSUME IInv
             PROVE  InOrder
  OBVIOUS
<1> USE DEF IInv, IndicesInBuffer, Contiguous, Slots
<1>1. \A i \in 1 .. end - start : (start + i - 1) % size = start + i - 1
  <2> TAKE i \in 1 .. end - start
  <2>1. start + i - 1 \in Nat /\ start + i - 1 < size
    OBVIOUS
  <2> QED
    BY <2>1, SmallMod
<1>2. Items = [i \in 1 .. end - start |-> data[start + i - 1]]
  BY <1>1 DEF Items
<1>3. \A i \in 1 .. end - start : data[start + i - 1] \in Elems
  OBVIOUS
<1>4. end - start \in Nat
  OBVIOUS
<1>5. Items \in [1 .. end - start -> Elems]
  BY <1>2, <1>3
<1>6. Items \in Seq(Elems) /\ Len(Items) = end - start
  BY <1>4, <1>5
<1> QED
  BY <1>2, <1>6 DEF InOrder

\* A push appends, in whatever buffer.
LEMMA PushRefines ==
  ASSUME ~Interleaved, IInv, IInv', NEW x \in Elems, fifo_push(x)
  PROVE  Q!QPush(x)
<1>0. Pushed(x)
  BY PushEffect
<1>1. InOrder
  BY ItemsUnwrapped
<1>2. InOrder'
  BY ItemsUnwrapped, PTL
<1>3. start = 0 /\ start' = 0 /\ end \in Nat /\ end' = end + 1
  BY <1>0 DEF Pushed
<1>4. Append(Items, x) = [i \in 1 .. end + 1 |-> IF i = end + 1 THEN x ELSE data[i - 1]]
  BY <1>1, <1>3 DEF InOrder
<1>5. \A i \in 1 .. end + 1 : data'[i - 1] = IF i = end + 1 THEN x ELSE data[i - 1]
  <2> TAKE i \in 1 .. end + 1
  <2>1. i - 1 = end \/ i - 1 \in 0 .. end - 1
    BY <1>3
  <2> QED
    BY <1>0, <1>3, <2>1 DEF Pushed
<1>6. Items' = Append(Items, x)
  BY <1>2, <1>3, <1>4, <1>5 DEF InOrder
<1> QED
  BY <1>6 DEF Q!QPush, fifo_push

\* A pop takes the head off, also when the rest is moved to a smaller buffer.
LEMMA PopRefines ==
  ASSUME IInv, IInv', fifo_pop
  PROVE  Q!QPop
<1>0. Popped
  BY PopEffect
<1>1. InOrder
  BY ItemsUnwrapped
<1>2. InOrder'
  BY ItemsUnwrapped, PTL
<1> DEFINE n == end - start - 1
<1>3. /\ start \in Nat /\ start' \in Nat /\ n \in Nat /\ end - start = n + 1
      /\ end' - start' = n
      /\ popped' = data[start]
      /\ \A i \in 0 .. n - 1 : data'[start' + i] = data[start + 1 + i]
  <2>1. /\ start \in Nat /\ end \in Nat /\ start < end
        /\ start' \in Nat /\ end' - start' = end - start - 1
        /\ popped' = data[start]
    BY <1>0 DEF Popped
  <2>2. n - 1 = end - start - 2 /\ n \in Nat /\ end - start = n + 1
    BY <2>1
  <2>3. \A i \in 0 .. n - 1 : data'[start' + i] = data[start + 1 + i]
    BY <1>0, <2>2 DEF Popped
  <2> QED
    BY <2>1, <2>2, <2>3
<1> HIDE DEF n
<1>4. Items # << >> /\ Head(Items) = data[start]
  BY <1>1, <1>3 DEF InOrder
<1>5. Tail(Items) = [i \in 1 .. n |-> data[start + i]]
  BY <1>1, <1>3 DEF InOrder
<1>6. \A i \in 1 .. n : data'[start' + i - 1] = data[start + i]
  <2> TAKE i \in 1 .. n
  <2>1. i - 1 \in 0 .. n - 1 /\ start' + i - 1 = start' + (i - 1) /\ start + i = start + 1 + (i - 1)
    BY <1>3
  <2> QED
    BY <1>3, <2>1
<1>7. Items' = Tail(Items)
  BY <1>2, <1>3, <1>5, <1>6 DEF InOrder
<1> QED
  BY <1>3, <1>4, <1>7 DEF Q!QPop, fifo_pop

(* The indices of the ring buffer stay in it.                              *)
THEOREM TypeCorrect ==
  ASSUME ~Interleaved
  PROVE  FifoSpec => []IndicesInBuffer
<1>1. ASSUME IInv, [FifoNext]_fifoVars PROVE IInv'
  BY <1>1, InvStep
<1>2. IInv => IndicesInBuffer
  BY DEF IInv
<1> QED
  BY <1>1, <1>2, InvInit, PTL DEF FifoSpec

(* The buffer never wraps, so the wrong FIFO_COUNT of a wrapped buffer is  *)
(* never used: each slot between start and end holds an element.           *)
THEOREM NeverWraps ==
  ASSUME ~Interleaved
  PROVE  FifoSpec => []Contiguous
<1>1. ASSUME IInv, [FifoNext]_fifoVars PROVE IInv'
  BY <1>1, InvStep
<1>2. IInv => Contiguous
  BY DEF IInv
<1> QED
  BY <1>1, <1>2, InvInit, PTL DEF FifoSpec

(* The ring buffer, growing and shrinking, hands out what was pushed in    *)
(* the order it was pushed.                                                *)
THEOREM ImplementsQueue ==
  ASSUME ~Interleaved
  PROVE  FifoSpec => IsQueue
<1>1. FifoInit => Q!QInit
  BY DEF FifoInit, Q!QInit, Items
<1>2. ASSUME IInv, IInv', [FifoNext]_fifoVars
      PROVE  [Q!QNext]_<<Items, popped, popping>>
  <2>1. ASSUME NEW x \in Elems, fifo_push(x)
        PROVE  Q!QNext
    BY <1>2, <2>1, PushRefines DEF Q!QNext
  <2>2. CASE fifo_pop
    BY <1>2, <2>2, PopRefines DEF Q!QNext
  <2>3. CASE UNCHANGED fifoVars
    BY <2>3 DEF fifoVars, Items
  <2> QED
    BY <1>2, <2>1, <2>2, <2>3 DEF FifoNext, Drained
<1>3. ASSUME IInv, [FifoNext]_fifoVars PROVE IInv'
  BY <1>3, InvStep
<1> QED
  BY <1>1, <1>2, <1>3, InvInit, PTL DEF FifoSpec, IsQueue, Q!QSpec
=============================================================================
