-------------------------------- MODULE List --------------------------------
(***************************************************************************)
(* What the circular list of container.c promises: a sequence that is      *)
(* changed at both ends, at a position, and by the order of its elements.  *)
(***************************************************************************)
EXTENDS Integers, Sequences, SequencesExt

CONSTANTS
  Elems,      \* what may be stored
  Rank(_)     \* by which elements are ordered; several may have the same

VARIABLES
  items,   \* the elements, the first one at the head of the list
  op,      \* the last call
  out      \* the elements it returned

LInit == items = << >> /\ op = "init" /\ out = << >>

Size == Len(items)

Call(name, s) == op' = name /\ out' = s

\* x becomes the element after the first i
PutAt(i, x) == items' = SubSeq(items, 1, i) \o <<x>> \o SubSeq(items, i + 1, Size)

TakeAt(i) ==
  /\ out' = <<items[i]>>
  /\ items' = SubSeq(items, 1, i - 1) \o SubSeq(items, i + 1, Size)

Push(x) == Call("push", << >>) /\ PutAt(0, x)

TailPush(x) == Call("tail_push", << >>) /\ PutAt(Size, x)

InsAfter(x) == Call("ins_after_pos", << >>) /\ \E i \in 1 .. Size : PutAt(i, x)

\* behind everything that does not sort after x, before everything that does
InsSort(x) ==
  /\ Call("ins_sort", << >>)
  /\ \E i \in 0 .. Size :
       /\ \A j \in 1 .. i : Rank(items[j]) <= Rank(x)
       /\ i < Size => Rank(items[i + 1]) > Rank(x)
       /\ PutAt(i, x)

Pop == op' = "pop" /\ items # << >> /\ TakeAt(1)

TailPop == op' = "tail_pop" /\ items # << >> /\ TakeAt(Size)

Peek == op' = "peek" /\ items # << >> /\ out' = <<items[1]>> /\ UNCHANGED items

TailPeek == op' = "tail_peek" /\ items # << >> /\ out' = <<items[Size]>> /\ UNCHANGED items

Empty ==
  /\ \E name \in {"pop", "tail_pop", "peek", "tail_peek"} : Call(name, << >>)
  /\ items = << >> /\ UNCHANGED items

Find(x) ==
  /\ op' = "find"
  /\ out' = IF \E i \in 1 .. Size : items[i] = x THEN <<x>> ELSE << >>
  /\ UNCHANGED items

\* the first that equals x goes
Rem(x) ==
  /\ op' = "rem"
  /\ IF \E i \in 1 .. Size : items[i] = x
       THEN \E i \in 1 .. Size :
              items[i] = x /\ (\A j \in 1 .. i - 1 : items[j] # x) /\ TakeAt(i)
       ELSE out' = << >> /\ UNCHANGED items

\* every element is met once, from either end
Walk == Call("walk", items) /\ UNCHANGED items

WalkBack == Call("walk_back", Reverse(items)) /\ UNCHANGED items

\* every element is freed once; a new list takes the place of the old one
Free == Call("free", items) /\ items' = << >>

\* in order, where equal elements stay in the order they had
Sort ==
  /\ Call("sort", << >>)
  /\ LET s == items
         n == Len(s)
         Before(i, j) == Rank(s[i]) < Rank(s[j]) \/ (Rank(s[i]) = Rank(s[j]) /\ i < j)
         place[i \in 1 .. n] == 1 + Cardinality({j \in 1 .. n : Before(j, i)})
     IN /\ Len(items') = n
        /\ \A i \in 1 .. n : items'[place[i]] = s[i]

LNext ==
  \/ \E x \in Elems :
       Push(x) \/ TailPush(x) \/ InsAfter(x) \/ InsSort(x) \/ Find(x) \/ Rem(x)
  \/ Pop \/ TailPop \/ Peek \/ TailPeek \/ Empty \/ Walk \/ WalkBack \/ Sort \/ Free

LSpec == LInit /\ [][LNext]_<<items, op, out>>
=============================================================================
