-------------------------------- MODULE ClQue --------------------------------
(***************************************************************************)
(* The circular list of container.c, which holds the skip and treatasdir   *)
(* expressions: a doubly linked ring through a head that carries no data.  *)
(* The nodes are numbers, 0 is the head; malloc gives the least that is    *)
(* free.                                                                   *)
(***************************************************************************)
EXTENDS Integers, Sequences

CONSTANTS
  ClElems,  \* the elements, numbers that rank by half of them
  MaxNodes, \* bound: elements in the list
  Nothing   \* no element: q_data of a node that is not allocated

VARIABLES
  ring,   \* q_forw and q_back of every node
  qdata,  \* q_data of every node
  op,     \* the last call
  out     \* the elements it returned or passed to its function

vars == <<ring, qdata, op, out>>

Head0 == 0
Node == 0 .. MaxNodes

\* comp_fun: 1 and 0 are equal, so are 3 and 2
Rank(x) == x \div 2

Call(name, s) == op' = name /\ out' = s

\* insque
insque(r, p, pred) ==
  LET next == r.forw[pred]
  IN [forw |-> [r.forw EXCEPT ![p] = next, ![pred] = p],
      back |-> [[r.back EXCEPT ![p] = pred] EXCEPT ![next] = p]]

\* remque: the node keeps its own pointers
remque(r, p) ==
  [forw |-> [r.forw EXCEPT ![r.back[p]] = r.forw[p]],
   back |-> [r.back EXCEPT ![r.forw[p]] = r.back[p]]]

\* the nodes met from h on along "next" until h comes again
Along(next, h) ==
  LET from[k \in 0 .. MaxNodes, n \in Node] ==
        IF k = 0 \/ next[n] = h THEN << >>
        ELSE <<next[n]>> \o from[k - 1, next[n]]
  IN from[MaxNodes, h]

Nodes(r, h) == Along(r.forw, h)

Empty == [forw |-> [n \in Node |-> n], back |-> [n \in Node |-> n]]

Init ==
  /\ ring = Empty
  /\ qdata = [n \in Node |-> Nothing]
  /\ op = "init" /\ out = << >>

InUse == {n \in Node : qdata[n] # Nothing}
Free == Node \ (InUse \cup {Head0})

\* a new node with x is linked behind pred(node)
Linked(name, x, pred) ==
  /\ Free # {}
  /\ LET p == CHOOSE n \in Free : \A m \in Free : n <= m
     IN ring' = insque(ring, p, pred) /\ qdata' = [qdata EXCEPT ![p] = x]
  /\ Call(name, << >>)

\* node p is unlinked and freed; what its pointers were is forgotten
Unlinked(name, p) ==
  /\ Call(name, <<qdata[p]>>)
  /\ LET r == remque(ring, p)
     IN ring' = [forw |-> [r.forw EXCEPT ![p] = p], back |-> [r.back EXCEPT ![p] = p]]
  /\ qdata' = [qdata EXCEPT ![p] = Nothing]

Fails(name) == Call(name, << >>) /\ UNCHANGED <<ring, qdata>>

Returns(name, p) == Call(name, <<qdata[p]>>) /\ UNCHANGED <<ring, qdata>>

cl_push(x) == Linked("push", x, Head0)

cl_tail_push(x) == Linked("tail_push", x, ring.back[Head0])

cl_pop ==
  IF ring.forw[Head0] = Head0 THEN Fails("pop") ELSE Unlinked("pop", ring.forw[Head0])

cl_tail_pop ==
  IF ring.back[Head0] = Head0 THEN Fails("tail_pop") ELSE Unlinked("tail_pop", ring.back[Head0])

cl_peek ==
  IF ring.forw[Head0] = Head0 THEN Fails("peek") ELSE Returns("peek", ring.forw[Head0])

cl_tail_peek ==
  IF ring.back[Head0] = Head0 THEN Fails("tail_peek") ELSE Returns("tail_peek", ring.back[Head0])

\* fault: before the first that is not less
Follower_NotLess(r, d, x) ==
  LET s == Nodes(r, Head0)
      after == {i \in DOMAIN s : Rank(d[s[i]]) >= Rank(x)}
  IN IF after = {} THEN Head0 ELSE s[CHOOSE i \in after : \A j \in after : i <= j]

\* the node before which cl_ins_sort_nomalloc puts x: the first that is
\* greater, or the head
Follower(r, d, x) ==
  LET s == Nodes(r, Head0)
      after == {i \in DOMAIN s : Rank(d[s[i]]) > Rank(x)}
  IN IF after = {} THEN Head0 ELSE s[CHOOSE i \in after : \A j \in after : i <= j]

cl_ins_sort_nomalloc(r, p) == insque(r, p, r.back[Follower(r, qdata, qdata[p])])

cl_ins_sort(x) == Linked("ins_sort", x, ring.back[Follower(ring, qdata, x)])

\* the user got pos from cl_find_pos or cl_walk
cl_ins_after_pos(pos, x) == Linked("ins_after_pos", x, pos)

\* cl_find_pos: the first node with x, the head if there is none
cl_find_pos(x) ==
  LET s == Nodes(ring, Head0)
      hits == {i \in DOMAIN s : qdata[s[i]] = x}
  IN IF hits = {} THEN Head0 ELSE s[CHOOSE i \in hits : \A j \in hits : i <= j]

cl_find(x) ==
  LET pos == cl_find_pos(x)
  IN IF pos = Head0 THEN Fails("find") ELSE Returns("find", pos)

cl_rem(x) ==
  LET pos == cl_find_pos(x)
  IN IF pos = Head0 THEN Fails("rem") ELSE Unlinked("rem", pos)

DataOf(s) == [i \in DOMAIN s |-> qdata[s[i]]]

\* cl_walk and cl_walk_back until they fail; cl_map is the first of them
cl_walk == Call("walk", DataOf(Along(ring.forw, Head0))) /\ UNCHANGED <<ring, qdata>>

cl_walk_back == Call("walk_back", DataOf(Along(ring.back, Head0))) /\ UNCHANGED <<ring, qdata>>

(* cl_free takes nodes from the front until none is left, then the head;   *)
(* cl_init makes the next list.                                            *)
cl_free ==
  /\ LET turn[k \in 0 .. MaxNodes] ==
           IF k = 0 THEN [r |-> ring, freed |-> << >>]
           ELSE LET t == turn[k - 1]
                    p == t.r.forw[Head0]
                IN IF p = Head0 THEN t
                   ELSE [r |-> remque(t.r, p), freed |-> Append(t.freed, qdata[p])]
     IN Call("free", turn[MaxNodes].freed)
  /\ ring' = Empty
  /\ qdata' = [n \in Node |-> Nothing]

(* cl_sort: the head is taken out of the ring, then every node is moved to *)
(* the ring of the head, the last one when it is alone.                    *)
cl_sort ==
  /\ Call("sort", << >>)
  /\ UNCHANGED qdata
  /\ IF ring.forw[Head0] = Head0 THEN UNCHANGED ring
     ELSE LET first == ring.forw[Head0]
              out0 == remque(ring, Head0)
              alone == [forw |-> [out0.forw EXCEPT ![Head0] = Head0],
                        back |-> [out0.back EXCEPT ![Head0] = Head0]]
              turn[k \in 0 .. MaxNodes] ==
                IF k = 0 THEN [r |-> alone, q |-> first]
                ELSE LET t == turn[k - 1]
                     IN IF t.r.forw[t.q] = t.q THEN t
                        ELSE [r |-> cl_ins_sort_nomalloc(remque(t.r, t.q), t.q),
                              q |-> t.r.forw[t.q]]
          IN ring' = cl_ins_sort_nomalloc(turn[MaxNodes].r, turn[MaxNodes].q)

Next ==
  \/ \E x \in ClElems :
       \/ cl_push(x) \/ cl_tail_push(x) \/ cl_ins_sort(x) \/ cl_find(x) \/ cl_rem(x)
       \/ \E pos \in InUse : cl_ins_after_pos(pos, x)
  \/ cl_pop \/ cl_tail_pop \/ cl_peek \/ cl_tail_peek
  \/ cl_walk \/ cl_walk_back \/ cl_sort \/ cl_free

Spec == Init /\ [][Next]_vars

-----------------------------------------------------------------------------
(* Properties                                                              *)

Items == DataOf(Nodes(ring, Head0))

L == INSTANCE List WITH Elems <- ClElems, items <- Items

(* The ring implements the list: every call finds, adds and removes the    *)
(* element it should at either end, the order of the others stays, walks   *)
(* from both ends meet the same elements, cl_sort, which takes the ring    *)
(* apart, loses none and keeps equal ones in their order, and cl_free      *)
(* frees each once.                                                        *)
IsList == L!LSpec
=============================================================================
