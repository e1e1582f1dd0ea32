------------------------------ MODULE SkipList ------------------------------
(***************************************************************************)
(* The skip list of container.c.  The nodes are numbers: 0 is sl_head, the *)
(* last one sl_NIL, whose key is greater than any other.                   *)
(***************************************************************************)
EXTENDS Integers, Sequences, FiniteSetsExt

CONSTANTS
  Keys,      \* 32-bit numbers below the key of sl_NIL
  Vals,      \* what may be stored
  MaxElems,  \* bound: elements in the list
  MaxLevel,  \* SL_MAX_LEVEL
  NilKey,    \* the key of sl_NIL, 0xffffffff
  Nothing    \* no data, and a pointer that was never set

VARIABLES
  forw,   \* sln_forw of every node
  skey,   \* sln_key
  sdata,  \* sln_data, Nothing in a node that is not allocated
  level,  \* sl_level
  op,     \* the last call
  out     \* the data it returned or passed to its function

vars == <<forw, skey, sdata, level, op, out>>

sl_head == 0
sl_NIL == MaxElems + 1
Node == 0 .. sl_NIL
Inner == 1 .. MaxElems
Levels == 0 .. MaxLevel

Call(name, d) == op' = name /\ out' = d

\* a node that is not allocated
Unset == [i \in Levels |-> Nothing]

Init ==
  /\ forw = [n \in Node |-> IF n = sl_head THEN [i \in Levels |-> sl_NIL] ELSE Unset]
  /\ skey = [n \in Node |-> IF n = sl_NIL THEN NilKey ELSE 0]
  /\ sdata = [n \in Node |-> Nothing]
  /\ level = 0
  /\ op = "init" /\ out = << >>

\* fault: nodes with key k are passed as well
Forward_Equal(n, i, k) ==
  LET last[m \in Node] == IF skey[forw[m][i]] <= k THEN last[forw[m][i]] ELSE m
  IN last[n]

\* along level i, from node n to the last one before key k
Forward(n, i, k) ==
  LET last[m \in Node] == IF skey[forw[m][i]] < k THEN last[forw[m][i]] ELSE m
  IN last[n]

\* update[]: the node before key k on every level, each search from where
\* the one above ended
Update(k) ==
  LET before[i \in 0 .. level + 1] ==
        IF i = level + 1 THEN sl_head ELSE Forward(before[i + 1], i, k)
  IN before

\* the first node with a key that is not less than k
Candidate(k) == forw[Update(k)[0]][0]

sl_find(k) ==
  /\ LET p == Candidate(k)
     IN Call("find", IF skey[p] = k THEN <<sdata[p]>> ELSE << >>)
  /\ UNCHANGED <<forw, skey, sdata, level>>

(* sl_random_level: two random bits at a time are drawn until both are 0,  *)
(* and each such pair is a level more.                                     *)
Draws == {d \in UNION {[1 .. n -> 0 .. 3] : n \in 1 .. 2} :
            \A i \in DOMAIN d : d[i] = 0 <=> i = Len(d)}

sl_random_level(d) == LET n == Cardinality({i \in DOMAIN d : d[i] = 0})
                      IN IF n > MaxLevel THEN MaxLevel ELSE n

Free == {n \in Inner : sdata[n] = Nothing}

sl_ins(k, d) ==
  /\ Free # {}
  /\ \E new_level \in {sl_random_level(r) : r \in Draws} :
       LET p == Min(Free)
           update == [i \in 0 .. new_level |-> IF i > level THEN sl_head ELSE Update(k)[i]]
       IN /\ level' = IF new_level > level THEN new_level ELSE level
          /\ forw' = [n \in Node |-> [i \in Levels |->
                        IF i > new_level THEN forw[n][i]
                        ELSE IF n = p THEN forw[update[i]][i]
                        ELSE IF n = update[i] THEN p
                        ELSE forw[n][i]]]
          /\ skey' = [skey EXCEPT ![p] = k]
          /\ sdata' = [sdata EXCEPT ![p] = d]
  /\ Call("ins", << >>)

\* the levels on which sl_rem unlinks p: up to the first that passes it by
Unlinks(update, p) == {i \in 0 .. level : \A j \in 0 .. i : forw[update[j]][j] = p}

sl_rem(k) ==
  LET update == Update(k)
      p == Candidate(k)
      down == [n \in Node |-> [i \in Levels |->
                 IF i \in Unlinks(update, p) /\ n = update[i] THEN forw[p][i] ELSE forw[n][i]]]
  IN IF skey[p] # k THEN Call("rem", << >>) /\ UNCHANGED <<forw, skey, sdata, level>>
     ELSE /\ Call("rem", <<sdata[p]>>)
          /\ forw' = [down EXCEPT ![p] = Unset]
          /\ skey' = [skey EXCEPT ![p] = 0]
          /\ sdata' = [sdata EXCEPT ![p] = Nothing]
          /\ level' = Max({-1} \cup {i \in 0 .. level : down[sl_head][i] # sl_NIL})

\* the nodes on the lowest level
Lowest ==
  LET from[k \in 0 .. MaxElems, n \in Node] ==
        IF k = 0 \/ forw[n][0] \notin Inner THEN << >>
        ELSE <<forw[n][0]>> \o from[k - 1, forw[n][0]]
  IN from[MaxElems, sl_head]

WalkData == LET s == Lowest IN [i \in DOMAIN s |-> sdata[s[i]]]

\* from sl_find_first_pos, if that gives data, until sl_walk fails
sl_walk == Call("walk", WalkData) /\ UNCHANGED <<forw, skey, sdata, level>>

\* and sl_init makes the next list
sl_free ==
  /\ Call("free", WalkData)
  /\ forw' = [n \in Node |-> IF n = sl_head THEN [i \in Levels |-> sl_NIL] ELSE Unset]
  /\ skey' = [n \in Node |-> IF n = sl_NIL THEN NilKey ELSE 0]
  /\ sdata' = [n \in Node |-> Nothing]
  /\ level' = 0

Next ==
  \/ \E k \in Keys : sl_find(k) \/ sl_rem(k) \/ \E d \in Vals : sl_ins(k, d)
  \/ sl_walk \/ sl_free

Spec == Init /\ [][Next]_vars

-----------------------------------------------------------------------------
(* Properties                                                              *)

\* the data under each key, in the order of the walk
Map == LET walk == Lowest
       IN [k \in Keys |-> LET of == SelectSeq(walk, LAMBDA n : skey[n] = k)
                          IN [i \in DOMAIN of |-> sdata[of[i]]]]

M == INSTANCE Multimap WITH map <- Map, Ordered <- TRUE, Sticky <- FALSE

(* The skip list implements a multimap that returns the newest data of a   *)
(* key first and is walked by ascending keys, through any order of         *)
(* insertions and removals, also when it becomes empty and its level falls *)
(* to -1.                                                                  *)
IsMultimap == M!MSpec
=============================================================================
