-------------------------------- MODULE Fifo --------------------------------
(***************************************************************************)
(* The FIFO list of container.c: a ring buffer that doubles when it is     *)
(* full and halves when it is less than half full.  sp_sync_dir uses one   *)
(* as its queue of directories and pushes everything before it pops.       *)
(***************************************************************************)
EXTENDS Integers, Sequences

CONSTANTS
  Elems,       \* what may be stored
  Nothing,     \* an uninitialised slot, and *data before the first pop
  Chunk,       \* FIFO_CHUNK
  Width,       \* number of bits of an unsigned
  MaxItems,    \* bound: elements pushed in all
  Interleaved  \* does the user push after its first pop

ASSUME ChunkAssumption == Chunk \in Nat /\ Chunk >= 2

ASSUME NothingAssumption == Nothing \notin Elems

ASSUME BoundAssumption ==
  MaxItems \in Nat /\ Width \in Nat /\ Interleaved \in BOOLEAN

VARIABLES
  data,     \* fifo_data, a function on 0 .. size - 1
  start,    \* fifo_start
  end,      \* fifo_end
  size,     \* fifo_size
  popped,   \* *data of the last fifo_pop
  popping,  \* has the user begun to pop
  pushes    \* number of pushes so far

fifoVars == <<data, start, end, size, popped, popping, pushes>>

Slots(n) == 0 .. n - 1

\* arithmetic on unsigned
Unsigned(n) == n % 2^Width

\* fault: one too many
Count_Off(s, e, n) == IF s <= e THEN e - s + 1 ELSE Unsigned(n - (s + e))

\* FIFO_COUNT
Count(s, e, n) == IF s <= e THEN e - s ELSE Unsigned(n - (s + e))

FifoInit ==
  /\ data = [i \in Slots(Chunk) |-> Nothing]
  /\ start = 0
  /\ end = 0
  /\ size = Chunk
  /\ popped = Nothing
  /\ popping = FALSE
  /\ pushes = 0

(* fifo_incr: twice the slots; the part before fifo_end moves behind the   *)
(* old end of a wrapped buffer.                                            *)
Grown == [i \in Slots(2 * size) |->
            IF i < size THEN data[i]
            ELSE IF start > end /\ i - size < end THEN data[i - size]
            ELSE Nothing]

GrownEnd == IF start > end THEN end + size ELSE end

\* fault: the slot that tells full from empty is used too
Full_Late == Count(start, end, size) = size

\* the test of fifo_push
Full == Count(start, end, size) = size - 1

StoreIn(d, e, n, x) ==
  /\ data' = [d EXCEPT ![e] = x]
  /\ end' = (e + 1) % n
  /\ size' = n

\* fifo_push: grows a full buffer first, then stores
fifo_push(x) ==
  /\ Interleaved \/ ~popping
  /\ pushes < MaxItems
  /\ pushes' = pushes + 1
  /\ IF Full THEN StoreIn(Grown, GrownEnd, 2 * size, x) ELSE StoreIn(data, end, size, x)
  /\ UNCHANGED <<start, popped, popping>>

(* fifo_decr, with the elements from s to e in half as many slots: what it *)
(* copies.  The second branch is that of a wrapped buffer, which takes the *)
(* new size for the old one; a copy past the new buffer is left out here,  *)
(* the rest of it holds anything.                                          *)
Shrunk(s, e) ==
  LET half == size \div 2
  IN [i \in Slots(half) |->
        IF s < e /\ i < e - s THEN data[s + i]
        ELSE IF s > e /\ i < half - s THEN data[s + i]
        ELSE IF s > e /\ i >= half - s /\ i - (half - s) < e THEN data[i - (half - s)]
        ELSE Nothing]

\* fault: fifo_end still counts from the old start of the buffer
fifo_pop_OldEnd ==
  /\ start # end
  /\ popped' = data[start]
  /\ popping' = TRUE
  /\ LET s == (start + 1) % size
         n == Count(s, end, size)
     IN IF n < (size - 1) \div 2 /\ size # Chunk
        THEN data' = Shrunk(s, end) /\ start' = 0 /\ size' = size \div 2 /\ UNCHANGED end
        ELSE start' = s /\ UNCHANGED <<data, end, size>>
  /\ UNCHANGED pushes

\* fifo_pop: takes the oldest, then halves a buffer that is half empty
fifo_pop ==
  /\ start # end
  /\ popped' = data[start]
  /\ popping' = TRUE
  /\ LET s == (start + 1) % size
         n == Count(s, end, size)
     IN IF n < (size - 1) \div 2 /\ size # Chunk
        THEN /\ data' = Shrunk(s, end)
             /\ start' = 0
             /\ end' = n
             /\ size' = size \div 2
        ELSE start' = s /\ UNCHANGED <<data, end, size>>
  /\ UNCHANGED pushes

\* fifo_pop of an empty list returns ENOENT
Drained == start = end /\ UNCHANGED fifoVars

FifoNext == (\E x \in Elems : fifo_push(x)) \/ fifo_pop \/ Drained

FifoSpec == FifoInit /\ [][FifoNext]_fifoVars

-----------------------------------------------------------------------------
(* Properties                                                              *)

\* Type correctness: the indices lie in the buffer.
IndicesInBuffer ==
  /\ size \in Nat \ {0}
  /\ data \in [Slots(size) -> Elems \cup {Nothing}]
  /\ start \in Slots(size) /\ end \in Slots(size)
  /\ popped \in Elems \cup {Nothing}
  /\ popping \in BOOLEAN
  /\ pushes \in Nat

(* A user that pushes before it pops never wraps the buffer, and finds an  *)
(* element in every slot between start and end.                            *)
Contiguous ==
  /\ start <= end
  /\ ~popping => start = 0
  /\ \A i \in start .. end - 1 : data[i] \in Elems

\* the elements in the list
Items == [i \in 1 .. (IF start <= end THEN end - start ELSE size - start + end) |->
            data[(start + i - 1) % size]]

Q == INSTANCE Queue WITH items <- Items

\* The ring buffer implements the queue.
IsQueue == Q!QSpec
=============================================================================
