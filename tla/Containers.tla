----------------------------- MODULE Containers -----------------------------
(***************************************************************************)
(* The containers of container.c, one at a time: "which" says which one    *)
(* a behaviour is about, the others stay empty.                            *)
(***************************************************************************)
EXTENDS Fifo

CONSTANTS HeapKeys, HeapChunk, MaxHeap, ClElems, MaxNodes, MapKeys, MaxHash,
          HashSize, MaxSkip, MaxLevel, NilKey

VARIABLES
  which,                         \* what the behaviour is about
  hdata, hkeys, hsize, hpopped,  \* the heap
  ring, qdata, cop, cout,        \* the circular list, its last call and result
  table, top, tout,              \* the hash table
  forw, skey, sdata, level,      \* the skip list
  sop, sout

H == INSTANCE Heap WITH Keys <- HeapKeys, Chunk <- HeapChunk, MaxKeys <- MaxHeap,
       data <- hdata, keys <- hkeys, size <- hsize, popped <- hpopped

C == INSTANCE ClQue WITH op <- cop, out <- cout

T == INSTANCE Hash WITH Keys <- MapKeys, Vals <- Elems, MaxElems <- MaxHash,
       op <- top, out <- tout

S == INSTANCE SkipList WITH Keys <- MapKeys, Vals <- Elems, MaxElems <- MaxSkip,
       op <- sop, out <- sout

heapVars == <<hdata, hkeys, hsize, hpopped>>
listVars == <<ring, qdata, cop, cout>>
hashVars == <<table, top, tout>>
skipVars == <<forw, skey, sdata, level, sop, sout>>
contVars == <<fifoVars, heapVars, listVars, hashVars, skipVars>>

containers == {"fifo", "heap", "list", "hash", "skiplist"}

ContainersInit == FifoInit /\ H!Init /\ C!Init /\ T!Init /\ S!Init

ContainersNext ==
  \/ /\ which = "fifo" /\ FifoNext
     /\ UNCHANGED <<heapVars, listVars, hashVars, skipVars>>
  \/ /\ which = "heap" /\ H!Next
     /\ UNCHANGED <<fifoVars, listVars, hashVars, skipVars>>
  \/ /\ which = "list" /\ C!Next
     /\ UNCHANGED <<fifoVars, heapVars, hashVars, skipVars>>
  \/ /\ which = "hash" /\ T!Next
     /\ UNCHANGED <<fifoVars, heapVars, listVars, skipVars>>
  \/ /\ which = "skiplist" /\ S!Next
     /\ UNCHANGED <<fifoVars, heapVars, listVars, hashVars>>

-----------------------------------------------------------------------------
(* Properties; those of the FIFO list are in module Fifo                   *)

\* The heap implements the priority queue (module Heap).
HeapIsPriorityQueue == H!IsPriorityQueue

\* The ring of cl_que implements the list (module ClQue).
RingIsList == C!IsList

\* The hash table implements a sticky multimap (module Hash).
HashIsMultimap == T!IsMultimap

\* The skip list implements a multimap (module SkipList).
SkipListIsMultimap == S!IsMultimap
=============================================================================
