-------------------------------- MODULE Queue --------------------------------
(***************************************************************************)
(* What the FIFO list of container.c promises: elements come out in the    *)
(* order they were put in, each once.  Once the user has begun to pop it   *)
(* may or may not push again ("Interleaved").                              *)
(***************************************************************************)
EXTENDS Sequences

CONSTANTS
  Elems,       \* what may be stored
  Nothing,     \* what *data holds before the first pop
  Interleaved  \* does the user push after its first pop

VARIABLES
  items,    \* the elements in the list, the oldest first
  popped,   \* the element returned by the last fifo_pop
  popping   \* has the user begun to pop

QInit == items = << >> /\ popped = Nothing /\ popping = FALSE

QPush(x) ==
  /\ Interleaved \/ ~popping
  /\ items' = Append(items, x)
  /\ UNCHANGED <<popped, popping>>

QPop ==
  /\ items # << >>
  /\ popped' = Head(items)
  /\ items' = Tail(items)
  /\ popping' = TRUE

QNext == (\E x \in Elems : QPush(x)) \/ QPop

QSpec == QInit /\ [][QNext]_<<items, popped, popping>>
=============================================================================
