--------------------------- MODULE SyncDir_proofs ---------------------------
(* What the merge of two trees never does, whatever fails, and what it has *)
(* done when nothing did: for trees of any names and depth, any skipped    *)
(* paths and any parameters.                                               *)
EXTENDS SyncDir, FiniteSetTheorems, SequenceTheorems, WellFoundedInduction, TLAPS

Trees == [Paths -> Entries]

\* listings, queued directories, active calls
Listings == UNION { [S -> Live] : S \in SUBSET Names }
Waiting  == [name : Names, entry : [type : {"dir"}, sig : Nat, mode : Nat], create : BOOLEAN]
Call     == [at : Seq(Names), l : Listings, r : Listings, dirs : Seq(Waiting), sub : Seq(Waiting)]

Types ==
  /\ local \in Trees /\ remote \in Trees
  /\ cur_dir \in Seq(Names)
  /\ stack \in Seq(Call)
  /\ deletes \in Nat
  /\ pc \in {"sync", "done", "exit"}
  /\ param \in Param

\* a call that is waiting for another one, or for its way back, has merged all
Waits ==
  \A i \in 1 .. Len(stack) :
    /\ i < Len(stack) => stack[i].sub # << >>
    /\ stack[i].sub # << >> => DOMAIN stack[i].l = {} /\ DOMAIN stack[i].r = {}

(* Every directory on the way to cur_dir is a local one, and cur_dir is    *)
(* too, unless the program went there in vain.                             *)
Open ==
  \A q \in Paths : IsPrefix(q, cur_dir) /\ (q # cur_dir \/ Top.sub = << >>) => local[q].type = "dir"

\* two listings are right about the name n, whose path is p, in two trees
Agree(lt, rt, l, r, n, p) ==
  /\ n \in DOMAIN l => p \in Paths \ Skip /\ lt[p] = l[n]
  /\ n \in DOMAIN r => p \in Paths \ Skip /\ rt[p] = r[n]
  /\ n \in DOMAIN r \ DOMAIN l => lt[p] = None
  /\ n \in DOMAIN l \ DOMAIN r => rt[p] = None

(* What is left of the listings of the innermost call is still what the    *)
(* trees hold.                                                             *)
Fresh == \A n \in Names : Agree(local, remote, Top.l, Top.r, n, Here(n))

TreeInv ==
  /\ WellFormed(local) /\ WellFormed(remote)
  /\ pc = "sync" => stack # << >> /\ Waits /\ Open /\ Fresh

IInv == Types /\ DeletesBounded /\ TreeInv

-----------------------------------------------------------------------------
(* With names that fit                                                     *)

\* the longest path of the trees fits into PATH_MAX
Fits == 2 * Depth + 4 <= PathMax

(* Each call works one level below its caller, in the directory its caller *)
(* went down to, which is none that is skipped.                            *)
CallInPlace(i) ==
  LET f == stack[i]
  IN /\ Len(f.at) = i - 1
     /\ f.dirs # << >> \/ f.sub # << >> => Len(f.at) < Depth
     /\ f.sub # << >> => Append(f.at, f.sub[1].name) \notin Skip
     /\ i < Len(stack) => stack[i + 1].at = Append(f.at, f.sub[1].name)

PlaceInv ==
  pc = "sync" => InItsDirectory /\ \A i \in 1 .. Len(stack) : CallInPlace(i)

-----------------------------------------------------------------------------
(* Paths                                                                   *)

\* The paths are the sequences of names of some length up to Depth.
LEMMA PathSeq ==
  /\ \A p \in Paths : p \in Seq(Names) /\ Len(p) \in 1 .. Depth
  /\ \A p \in Seq(Names) : Len(p) \in 1 .. Depth => p \in Paths
<1>1. Depth \in Nat
  BY ParamsAssumption
<1>2. ASSUME NEW p \in Paths
      PROVE  p \in Seq(Names) /\ Len(p) \in 1 .. Depth
  <2>1. PICK k \in 1 .. Depth : p \in [1 .. k -> Names]
    BY <1>2 DEF Paths
  <2> QED
    BY <1>1, <2>1
<1>3. ASSUME NEW p \in Seq(Names), Len(p) \in 1 .. Depth
      PROVE  p \in Paths
  <2>1. p \in [1 .. Len(p) -> Names]
    BY <1>3
  <2> QED
    BY <1>3, <2>1 DEF Paths
<1> QED
  BY <1>2, <1>3

\* A name in a directory that is not too deep is a path.
LEMMA PathAppend ==
  ASSUME NEW d \in Seq(Names), NEW n \in Names
  PROVE  /\ Append(d, n) \in Seq(Names) /\ Len(Append(d, n)) = Len(d) + 1
         /\ Append(d, n) \in Paths <=> Len(d) < Depth
<1>1. Append(d, n) \in Seq(Names) /\ Len(Append(d, n)) = Len(d) + 1 /\ Len(d) \in Nat
  OBVIOUS
<1> DEFINE p == Append(d, n)
<1> HIDE DEF p
<1>2. p \in Seq(Names) /\ Len(p) = Len(d) + 1
  BY <1>1 DEF p
<1>3. p \in Paths <=> Len(p) \in 1 .. Depth
  BY <1>2, PathSeq
<1>4. p \in Paths <=> Len(d) < Depth
  BY <1>1, <1>2, <1>3, ParamsAssumption
<1> QED
  BY <1>1, <1>4 DEF p

\* A prefix, element by element.
LEMMA PrefixElements ==
  ASSUME NEW p \in Seq(Names), NEW q \in Seq(Names)
  PROVE  IsPrefix(p, q) <=> Len(p) <= Len(q) /\ \A i \in 1 .. Len(p) : p[i] = q[i]
<1>1. Len(p) \in Nat /\ Len(q) \in Nat
  OBVIOUS
<1>2. SubSeq(p, 1, Len(p)) = p
  BY SubSeqFull
<1>3. CASE Len(p) <= Len(q)
  <2>1. /\ SubSeq(q, 1, Len(p)) \in Seq(Names) /\ Len(SubSeq(q, 1, Len(p))) = Len(p)
        /\ \A i \in 1 .. Len(p) : SubSeq(q, 1, Len(p))[i] = q[i]
    BY <1>1, <1>3
  <2> QED
    BY <1>1, <1>2, <1>3, <2>1, SeqEqual DEF IsPrefix
<1>4. CASE ~(Len(p) <= Len(q))
  BY <1>4 DEF IsPrefix
<1> QED
  BY <1>3, <1>4

\* Being a prefix is an order.
LEMMA PrefixOrder ==
  ASSUME NEW p \in Seq(Names), NEW q \in Seq(Names)
  PROVE  /\ IsPrefix(p, p)
         /\ IsPrefix(p, q) /\ Len(p) = Len(q) => p = q
         /\ \A r \in Seq(Names) : IsPrefix(p, q) /\ IsPrefix(q, r) => IsPrefix(p, r)
<1>1. Len(p) \in Nat /\ Len(q) \in Nat
  OBVIOUS
<1>2. IsPrefix(p, p)
  BY <1>1, PrefixElements
<1>3. IsPrefix(p, q) /\ Len(p) = Len(q) => p = q
  BY <1>1, PrefixElements, SeqEqual
<1>4. ASSUME NEW r \in Seq(Names), IsPrefix(p, q), IsPrefix(q, r)
      PROVE  IsPrefix(p, r)
  <2>1. Len(p) <= Len(q) /\ \A i \in 1 .. Len(p) : p[i] = q[i]
    BY <1>4, PrefixElements
  <2>2. Len(q) <= Len(r) /\ \A i \in 1 .. Len(q) : q[i] = r[i]
    BY <1>4, PrefixElements
  <2>3. Len(r) \in Nat
    OBVIOUS
  <2>4. Len(p) <= Len(r) /\ \A i \in 1 .. Len(p) : p[i] = r[i]
    BY <1>1, <2>1, <2>2, <2>3
  <2> QED
    BY <2>4, PrefixElements
<1> QED
  BY <1>2, <1>3, <1>4

\* The prefixes of a name in a directory are itself and those of the directory.
LEMMA PrefixAppend ==
  ASSUME NEW d \in Seq(Names), NEW n \in Names, NEW p \in Seq(Names)
  PROVE  /\ IsPrefix(p, Append(d, n)) <=> IsPrefix(p, d) \/ p = Append(d, n)
         /\ IsPrefix(Append(d, n), p) => Len(p) > Len(d) /\ p[Len(d) + 1] = n
         /\ ~IsPrefix(Append(d, n), d)
<1> DEFINE q == Append(d, n)
<1>1. /\ q \in Seq(Names) /\ Len(q) = Len(d) + 1 /\ Len(d) \in Nat /\ Len(p) \in Nat
      /\ \A i \in 1 .. Len(d) : q[i] = d[i]
      /\ q[Len(d) + 1] = n
  OBVIOUS
<1> HIDE DEF q
<1>2. IsPrefix(p, d) => IsPrefix(p, q)
  BY <1>1, PrefixElements
<1>3. IsPrefix(p, q) /\ Len(p) <= Len(d) => IsPrefix(p, d)
  BY <1>1, PrefixElements
<1>4. IsPrefix(p, q) /\ ~(Len(p) <= Len(d)) => p = q
  <2> SUFFICES ASSUME IsPrefix(p, q), ~(Len(p) <= Len(d)) PROVE p = q
    OBVIOUS
  <2>1. Len(p) <= Len(q)
    BY <1>1, PrefixElements
  <2> QED
    BY <1>1, <2>1, PrefixOrder
<1>5. IsPrefix(q, q)
  BY <1>1, PrefixOrder
<1>6. IsPrefix(q, p) => Len(p) > Len(d) /\ p[Len(d) + 1] = n
  <2> SUFFICES ASSUME IsPrefix(q, p) PROVE Len(p) > Len(d) /\ p[Len(d) + 1] = n
    OBVIOUS
  <2>1. Len(q) <= Len(p) /\ \A i \in 1 .. Len(q) : q[i] = p[i]
    BY <1>1, PrefixElements
  <2> QED
    BY <1>1, <2>1
<1>7. ~IsPrefix(q, d)
  BY <1>1, PrefixElements
<1> QED
  BY <1>2, <1>3, <1>4, <1>5, <1>6, <1>7 DEF q

\* Below one name of a directory there is nothing of another.
LEMMA PrefixApart ==
  ASSUME NEW d \in Seq(Names), NEW n \in Names, NEW m \in Names,
         IsPrefix(Append(d, n), Append(d, m))
  PROVE  m = n
<1>1. Append(d, m) \in Seq(Names) /\ Append(d, m)[Len(d) + 1] = m
  OBVIOUS
<1> QED
  BY <1>1, PrefixAppend

\* The directory a path lies in.
LEMMA PrefixFront ==
  ASSUME NEW p \in Seq(Names), NEW q \in Seq(Names), Len(q) > 0, IsPrefix(q, p), q # p
  PROVE  /\ Front(p) \in Seq(Names) /\ Len(p) > 1 /\ Len(Front(p)) = Len(p) - 1
         /\ IsPrefix(q, Front(p)) /\ IsPrefix(Front(p), p) /\ Front(p) # p
<1>1. Len(p) \in Nat /\ Len(q) \in Nat
  OBVIOUS
<1>2. Len(q) <= Len(p) /\ \A i \in 1 .. Len(q) : q[i] = p[i]
  BY PrefixElements
<1>3. Len(q) # Len(p)
  BY PrefixOrder
<1>4. Len(p) > 1 /\ Len(q) <= Len(p) - 1
  BY <1>1, <1>2, <1>3
<1> DEFINE f == Front(p)
<1>5. /\ f \in Seq(Names) /\ Len(f) = Len(p) - 1
      /\ \A i \in 1 .. Len(p) - 1 : f[i] = p[i]
  BY <1>1, <1>4 DEF Front
<1> HIDE DEF f
<1>6. IsPrefix(f, p)
  <2>1. Len(f) <= Len(p) /\ \A i \in 1 .. Len(f) : f[i] = p[i]
    BY <1>1, <1>5
  <2> QED
    BY <1>5, <2>1, PrefixElements
<1>7. IsPrefix(q, f)
  <2>1. Len(q) <= Len(f) /\ \A i \in 1 .. Len(q) : q[i] = f[i]
    BY <1>1, <1>2, <1>4, <1>5
  <2> QED
    BY <1>5, <2>1, PrefixElements
<1>8. f # p
  BY <1>1, <1>5
<1> QED
  BY <1>4, <1>5, <1>6, <1>7, <1>8 DEF f

\* There are finitely many functions from one finite set to another.
LEMMA FunctionsFinite ==
  ASSUME NEW S, NEW T, IsFiniteSet(S), IsFiniteSet(T)
  PROVE  IsFiniteSet([S -> T])
<1> DEFINE Graph(f) == { x \in S \X T : f[x[1]] = x[2] }
           g == [f \in [S -> T] |-> Graph(f)]
<1>1. g \in [[S -> T] -> SUBSET (S \X T)]
  OBVIOUS
<1>2. ASSUME NEW f \in [S -> T], NEW h \in [S -> T], g[f] = g[h]
      PROVE  f = h
  <2>1. ASSUME NEW s \in S
        PROVE  f[s] = h[s]
    <3>1. <<s, f[s]>> \in Graph(f)
      OBVIOUS
    <3>2. Graph(f) = Graph(h)
      BY <1>2
    <3>3. <<s, f[s]>> \in Graph(h)
      BY <3>1, <3>2
    <3> QED
      BY <3>3
  <2> QED
    BY <2>1
<1>3. g \in Injection([S -> T], SUBSET (S \X T))
  <2> HIDE DEF g
  <2> QED
    BY <1>1, <1>2 DEF Injection, IsInjective
<1>4. IsFiniteSet(SUBSET (S \X T))
  BY FS_Product, FS_SUBSET
<1> HIDE DEF g
<1> QED
  BY <1>3, <1>4, FS_Injection

\* There are finitely many paths.
LEMMA PathsFinite == IsFiniteSet(Paths)
<1> DEFINE F == { [1 .. k -> Names] : k \in 1 .. Depth }
           g == [k \in 1 .. Depth |-> [1 .. k -> Names]]
<1>1. IsFiniteSet(1 .. Depth) /\ IsFiniteSet(Names)
  BY ParamsAssumption, FS_Interval
<1>2. g \in Surjection(1 .. Depth, F)
  BY DEF Surjection
<1>3. IsFiniteSet(F)
  <2> HIDE DEF g, F
  <2> QED
    BY <1>1, <1>2, FS_Surjection
<1>4. ASSUME NEW D \in F
      PROVE  IsFiniteSet(D)
  <2>1. PICK k \in 1 .. Depth : D = [1 .. k -> Names]
    OBVIOUS
  <2>2. IsFiniteSet(1 .. k)
    BY FS_Interval
  <2> QED
    BY <1>1, <2>1, <2>2, FunctionsFinite
<1>5. IsFiniteSet(UNION F)
  <2> HIDE DEF F
  <2> QED
    BY <1>3, <1>4, FS_UNION
<1> QED
  BY <1>5 DEF Paths

\* The least element of a set of names is in it.
LEMMA MinIn ==
  ASSUME NEW S \in SUBSET Names, S # {}
  PROVE  Min(S) \in S
<1>1. S \subseteq Nat
  BY ParamsAssumption
<1>2. PICK x \in S : \A y \in S : ~(<<y, x>> \in OpToRel(<, Nat))
  BY <1>1, NatLessThanWellFounded, WFMin
<1>3. \A y \in S : x <= y
  <2>1. ASSUME NEW y \in S
        PROVE  ~(y < x)
    BY <1>1, <1>2, Zenon DEF OpToRel
  <2> QED
    BY <1>1, <2>1
<1> QED
  BY <1>3 DEF Min

-----------------------------------------------------------------------------
(* Types                                                                   *)

\* No entry is unlike every entry.
LEMMA NoneType ==
  /\ None.type = "none" /\ None \notin Live /\ None \in Entries
  /\ \A e \in Entries : e = None <=> e.type = "none"
  /\ \A e \in Entries : e # None => e \in Live
  /\ \A e \in Live : e.type \in {"file", "link", "dir"} /\ e.mode \in Nat /\ e.sig \in Nat
  /\ Damaged \in Live /\ OpenDir \in Live
  BY DEF None, Live, Entries, Damaged, OpenDir

\* A file may have any mode.
LEMMA FileMode ==
  ASSUME NEW e \in Live, e.type = "file", NEW m \in Nat
  PROVE  [e EXCEPT !.mode = m] \in Live /\ [e EXCEPT !.mode = m].type = "file"
<1>1. e \in [type : {"file", "dir"}, sig : Nat, mode : Nat]
  BY DEF Live
<1> QED
  BY <1>1 DEF Live

\* A listing lists live entries under some of the names.
LEMMA ListingType ==
  ASSUME NEW tree \in Trees, NEW dir
  PROVE  Listing(tree, dir) \in Listings
<1> DEFINE here == { n \in Names : Append(dir, n) \in Paths \ Skip /\ tree[Append(dir, n)] # None }
<1>1. \A n \in here : tree[Append(dir, n)] \in Live
  BY NoneType DEF Trees
<1>2. Listing(tree, dir) = [n \in here |-> tree[Append(dir, n)]]
  BY DEF Listing
<1> HIDE DEF here
<1>3. Listing(tree, dir) \in [here -> Live]
  BY <1>1, <1>2
<1>4. here \in SUBSET Names
  BY DEF here
<1> QED
  BY <1>3, <1>4 DEF Listings

\* The parts of a listing.
LEMMA ListingParts ==
  ASSUME NEW f \in Listings
  PROVE  /\ DOMAIN f \subseteq Names /\ \A n \in DOMAIN f : f[n] \in Live
         /\ \A n : Less(f, n) \in Listings /\ DOMAIN Less(f, n) = DOMAIN f \ {n}
                   /\ \A m \in DOMAIN f \ {n} : Less(f, n)[m] = f[m]
<1>1. PICK S \in SUBSET Names : f \in [S -> Live]
  BY DEF Listings
<1>2. ASSUME NEW n
      PROVE  Less(f, n) \in Listings /\ DOMAIN Less(f, n) = DOMAIN f \ {n}
                   /\ \A m \in DOMAIN f \ {n} : Less(f, n)[m] = f[m]
  <2>1. Less(f, n) \in [S \ {n} -> Live]
    BY <1>1 DEF Less
  <2>2. S \ {n} \in SUBSET Names
    OBVIOUS
  <2> QED
    BY <1>1, <2>1, <2>2 DEF Listings, Less
<1> QED
  BY <1>1, <1>2

\* The parts of the innermost call.
LEMMA TopParts ==
  ASSUME Types, stack # << >>
  PROVE  /\ Len(stack) \in Nat \ {0} /\ Top \in Call
         /\ Top.at \in Seq(Names) /\ Top.l \in Listings /\ Top.r \in Listings
         /\ Top.dirs \in Seq(Waiting) /\ Top.sub \in Seq(Waiting)
<1>1. Len(stack) \in Nat \ {0} /\ Top \in Call
  BY DEF Types, Top
<1> QED
  BY <1>1 DEF Call

\* The call goes on, and no other one changes.
LEMMA GoOnEffect ==
  ASSUME Types, stack # << >>, NEW f \in Call, GoOn(f)
  PROVE  /\ stack' \in Seq(Call) /\ stack' # << >> /\ Len(stack') = Len(stack) /\ Top' = f
         /\ \A i \in 1 .. Len(stack) : i # Len(stack) => stack'[i] = stack[i]
  BY DEF Types, GoOn, Top

\* The name that is merged is a name of one of the listings.
LEMMA LeastIn ==
  ASSUME Types, Merging
  PROVE  Least \in Names /\ Least \in DOMAIN Top.l \cup DOMAIN Top.r
<1>1. stack # << >> /\ DOMAIN Top.l \cup DOMAIN Top.r # {}
  BY DEF Merging
<1>2. DOMAIN Top.l \cup DOMAIN Top.r \in SUBSET Names
  BY <1>1, TopParts, ListingParts
<1> QED
  BY <1>1, <1>2, MinIn DEF Least

\* Merging a name takes it off both listings.
LEMMA AdvanceEffect ==
  ASSUME Types, Merging, NEW dirs \in Seq(Waiting), Advance(dirs)
  PROVE  /\ stack' \in Seq(Call) /\ stack' # << >> /\ Len(stack') = Len(stack)
         /\ Top' = [Top EXCEPT !.l = Less(Top.l, Least), !.r = Less(Top.r, Least), !.dirs = dirs]
         /\ \A i \in 1 .. Len(stack) : i # Len(stack) => stack'[i] = stack[i]
<1> DEFINE f == [Top EXCEPT !.l = Less(Top.l, Least), !.r = Less(Top.r, Least), !.dirs = dirs]
<1>1. stack # << >>
  BY DEF Merging
<1>2. Top \in Call /\ Top.l \in Listings /\ Top.r \in Listings
  BY <1>1, TopParts
<1>3. Less(Top.l, Least) \in Listings /\ Less(Top.r, Least) \in Listings
  BY <1>2, ListingParts
<1>4. f \in Call
  BY <1>2, <1>3 DEF Call
<1>5. GoOn(f)
  BY DEF Advance
<1> HIDE DEF f
<1>6. /\ stack' \in Seq(Call) /\ stack' # << >> /\ Len(stack') = Len(stack) /\ Top' = f
      /\ \A i \in 1 .. Len(stack) : i # Len(stack) => stack'[i] = stack[i]
  BY <1>1, <1>4, <1>5, GoOnEffect
<1> QED
  BY <1>6 DEF f

\* The queue holds directories.
LEMMA QueuedType ==
  ASSUME Types, Merging, NEW n \in Names, NEW e \in Live, NEW create \in BOOLEAN
  PROVE  Queued(n, e, create) \in Seq(Waiting)
<1>1. Top.dirs \in Seq(Waiting)
  BY TopParts DEF Merging
<1>2. CASE e.type = "dir"
  <2>1. [name |-> n, entry |-> e, create |-> create] \in Waiting
    BY <1>2 DEF Waiting, Live
  <2> QED
    BY <1>1, <1>2, <2>1 DEF Queued
<1>3. CASE e.type # "dir"
  BY <1>1, <1>3 DEF Queued
<1> QED
  BY <1>2, <1>3

-----------------------------------------------------------------------------
(* What the operations do to the tree                                      *)

\* t is the tree after something that is no directory was put at q
Put(tree, q, t) ==
  \E x \in Entries : /\ x.type # "dir" /\ (Faults \/ x # None)
                     /\ tree[q].type # "dir"
                     /\ t = [tree EXCEPT ![q] = x]

(* sp_get_file leaves the tree alone or puts a file or a link where there  *)
(* is no directory; without failures it leaves something there.            *)
LEMMA GetOutcome ==
  ASSUME NEW tree \in Trees, NEW q, NEW e \in Live, NEW o \in sp_get_file(tree, q, e)
  PROVE  o.dels \in {0, 1} /\ (o.tree = tree \/ Put(tree, q, o.tree))
<1> DEFINE put(x) == IF tree[q].type = "dir" THEN tree ELSE [tree EXCEPT ![q] = x]
<1>1. ASSUME NEW x \in Entries, x.type # "dir", Faults \/ x # None
      PROVE  put(x) = tree \/ Put(tree, q, put(x))
  BY <1>1 DEF Put
<1>2. e \in Entries /\ e # None /\ Damaged \in Entries /\ Damaged.type = "file" /\ Damaged # None
  BY NoneType DEF Damaged, Entries
<1>3. CASE e.type = "file"
  <2>1. /\ put(e) = tree \/ Put(tree, q, put(e))
        /\ put(Damaged) = tree \/ Put(tree, q, put(Damaged))
    BY <1>1, <1>2, <1>3
  <2>2. Faults => put(None) = tree \/ Put(tree, q, put(None))
    BY <1>1, NoneType
  <2>3. o \in get_ftp_file(tree, q, e)
    BY <1>3 DEF sp_get_file
  <2>4. \/ o = [tree |-> put(e), dels |-> 0]
        \/ Faults /\ o.tree = tree /\ o.dels \in {0, 1}
        \/ Faults /\ o = [tree |-> put(Damaged), dels |-> 0]
        \/ Faults /\ o.tree = put(None) /\ o.dels \in {0, 1}
    BY <2>3 DEF get_ftp_file
  <2> HIDE DEF put
  <2> QED
    BY <2>1, <2>2, <2>4
<1>4. CASE e.type = "link"
  <2>1. o \in spf_symlink(tree, q, e)
    BY <1>4 DEF sp_get_file
  <2>2. o.dels = 0 /\ (o.tree = tree \/ (tree[q] = None /\ o.tree = [tree EXCEPT ![q] = e]))
    BY <2>1 DEF spf_symlink
  <2> QED
    BY <1>2, <1>4, <2>2, NoneType DEF Put
<1>5. CASE e.type = "dir"
  BY <1>5 DEF sp_get_file
<1> QED
  BY <1>3, <1>4, <1>5, NoneType

\* A put changes one path only.
LEMMA PutEffect ==
  ASSUME NEW tree \in Trees, NEW q, NEW t, Put(tree, q, t)
  PROVE  /\ t \in Trees
         /\ \A p \in Paths : p # q => t[p] = tree[p]
         /\ q \in Paths => t[q] \in Entries /\ t[q].type # "dir" /\ tree[q].type # "dir" /\ (Faults \/ t[q] # None)
<1>1. PICK x \in Entries : /\ x.type # "dir" /\ (Faults \/ x # None)
                           /\ tree[q].type # "dir"
                           /\ t = [tree EXCEPT ![q] = x]
  BY DEF Put
<1> QED
  BY <1>1 DEF Trees

\* What a removal leaves.
LEMMA WithoutEffect ==
  ASSUME NEW tree \in Trees, NEW gone
  PROVE  /\ Without(tree, gone) \in Trees
         /\ \A p \in Paths : Without(tree, gone)[p] = IF p \in gone THEN None ELSE tree[p]
  BY NoneType DEF Without, Trees

(* spf_rm removes some of what is at and below q, directories after what   *)
(* is in them, nothing without dodelete, and no more than maxdelete        *)
(* leaves room for.                                                        *)
LEMMA RmOutcome ==
  ASSUME Types, DeletesBounded, NEW q, NEW o \in spf_rm(q)
  PROVE  /\ o.gone \in PartlyGone(Below(local, q)) /\ o.gone \subseteq Paths
         /\ ~DoDelete => o.gone = {}
         /\ Cardinality(o.gone) \in Nat
         /\ MaxDelete # 0 => deletes + Cardinality(o.gone) <= MaxDelete
<1>1. MaxDelete \in Nat /\ deletes \in Nat
  BY DEF Types, Param, MaxDelete
<1>2. {} \in PartlyGone(Below(local, q)) /\ Cardinality({}) = 0
  BY FS_EmptySet DEF PartlyGone
<1>3. CASE ~DoDelete
  BY <1>1, <1>2, <1>3 DEF spf_rm, DeletesBounded
<1>4. CASE DoDelete
  <2>1. o \in rm_rf(q)
    BY <1>4 DEF spf_rm
  <2>2. o.gone \in PartlyGone(Below(local, q)) /\ Cardinality(o.gone) <= Allowed
    BY <2>1 DEF rm_rf
  <2>3. o.gone \in SUBSET Paths
    BY <2>2 DEF PartlyGone, Below
  <2>4. Cardinality(o.gone) \in Nat
    BY <2>3, PathsFinite, FS_Subset, FS_CardinalityType
  <2>5. MaxDelete # 0 => deletes + Cardinality(o.gone) <= MaxDelete
    BY <1>1, <2>2, <2>4 DEF Allowed
  <2> QED
    BY <1>4, <2>2, <2>3, <2>4, <2>5
<1> QED
  BY <1>3, <1>4

-----------------------------------------------------------------------------
(* One name is merged                                                      *)

\* t is the tree after something was removed and something else put at q
Swept(q, t) ==
  \E gone \in PartlyGone(Below(local, q)) :
    /\ DoDelete \/ gone = {}
    /\ t = Without(local, gone) \/ Put(Without(local, gone), q, t)

\* t is the tree after the file at q got another mode
Moded(q, t) == local[q].type = "file" /\ \E m \in Nat : t = [local EXCEPT ![q].mode = m]

\* what is at q is not what the server has
Unwanted(q) ==
  \/ local[q].type # remote[q].type
  \/ local[q].type \in {"file", "link"} /\ local[q].sig # remote[q].sig

\* the deletes are counted, and the program may end for them
Counted == deletes' \in Nat /\ DeletesBounded' /\ pc' \in {pc, "exit"}

\* the innermost call has merged the name, unless the program has ended
Merged ==
  \/ stack' = stack /\ pc' = "exit"
  \/ \E dirs \in Seq(Waiting) : Advance(dirs)

\* A name that is merged is not skipped, and the listings are right about it.
LEMMA LeastPlace ==
  ASSUME IInv, Merging
  PROVE  /\ Here(Least) \in Paths \ Skip
         /\ OnlyRemote => local[Here(Least)] = None
         /\ ~OnlyRemote => Top.l[Least] \in Live /\ local[Here(Least)] = Top.l[Least]
         /\ OnlyLocal => remote[Here(Least)] = None
         /\ ~OnlyLocal => Top.r[Least] \in Live /\ remote[Here(Least)] = Top.r[Least]
         /\ OnlyRemote => ~OnlyLocal
<1>1. Types /\ stack # << >> /\ Fresh
  BY DEF IInv, TreeInv, Merging
<1>2. Least \in Names /\ Least \in DOMAIN Top.l \cup DOMAIN Top.r
  BY <1>1, LeastIn
<1>3. (\A n \in DOMAIN Top.l : Top.l[n] \in Live) /\ (\A n \in DOMAIN Top.r : Top.r[n] \in Live)
  BY <1>1, TopParts, ListingParts
<1>4. Agree(local, remote, Top.l, Top.r, Least, Here(Least))
  BY <1>1, <1>2 DEF Fresh
<1> QED
  BY <1>2, <1>3, <1>4 DEF Agree, OnlyRemote, OnlyLocal

\* Deletes that rm_f counts one by one stay within the limit.
LEMMA CountEffect ==
  ASSUME Types, NEW done \in Nat, NEW more \in {0, 1}, UNCHANGED param,
         MaxDelete # 0 => deletes + done <= MaxDelete, CountDeletes(done, more)
  PROVE  Counted
<1>1. MaxDelete \in Nat /\ deletes \in Nat /\ MaxDelete' = MaxDelete
  BY DEF Types, Param, MaxDelete
<1>2. CASE MaxDelete # 0 /\ deletes + done + more > MaxDelete
  BY <1>1, <1>2 DEF CountDeletes, Counted, DeletesBounded
<1>3. CASE ~(MaxDelete # 0 /\ deletes + done + more > MaxDelete)
  BY <1>1, <1>3 DEF CountDeletes, Counted, DeletesBounded
<1> QED
  BY <1>2, <1>3

\* So do those of a removal.
LEMMA RemovedEffect ==
  ASSUME Types, DeletesBounded, NEW q, NEW o \in spf_rm(q), Removed(o), UNCHANGED param
  PROVE  Counted /\ Swept(q, local')
<1>1. /\ o.gone \in PartlyGone(Below(local, q)) /\ (~DoDelete => o.gone = {})
      /\ Cardinality(o.gone) \in Nat
      /\ MaxDelete # 0 => deletes + Cardinality(o.gone) <= MaxDelete
  BY RmOutcome
<1>2. MaxDelete' = MaxDelete /\ deletes \in Nat
  BY DEF Types, MaxDelete
<1>3. Counted
  BY <1>1, <1>2 DEF Removed, Counted, DeletesBounded
<1>4. Swept(q, local')
  BY <1>1 DEF Removed, Swept
<1> QED
  BY <1>3, <1>4

\* A tree that nothing is removed from stays as it is.
LEMMA NothingGone ==
  ASSUME Types, NEW q, NEW t, t = local \/ Put(local, q, t)
  PROVE  Swept(q, t)
<1>1. Without(local, {}) = local
  BY DEF Types, Trees, Without
<1>2. {} \in PartlyGone(Below(local, q))
  BY DEF PartlyGone
<1> QED
  BY <1>1, <1>2 DEF Swept

(* Whatever branch the loop takes, the tree stays as it is, a file gets    *)
(* another mode, or something the server does not have like that is        *)
(* removed or replaced.                                                    *)
LEMMA MergeEffect ==
  ASSUME IInv, Merge
  PROVE  /\ Merging /\ Merged /\ Counted /\ UNCHANGED <<remote, cur_dir, param>>
         /\ \/ local' = local
            \/ Moded(Here(Least), local')
            \/ Unwanted(Here(Least)) /\ Swept(Here(Least), local')
<1> DEFINE q == Here(Least)
           e == Top.r[Least]
<1> HIDE DEF q
<1>1. Types /\ DeletesBounded
  BY DEF IInv
<1>2. Merging
  BY DEF Merge, MissingLocally, ExtraLocally, TypesDiffer, SameDir, SameFile, SameLink, Same
<1>3. UNCHANGED <<remote, cur_dir, param>>
  BY DEF Merge, MissingLocally, ExtraLocally, TypesDiffer, SameDir, SameFile, SameLink
<1>4. /\ OnlyRemote => local[q] = None /\ ~OnlyLocal
      /\ ~OnlyRemote => Top.l[Least] \in Live /\ local[q] = Top.l[Least]
      /\ OnlyLocal => remote[q] = None
      /\ ~OnlyLocal => e \in Live /\ remote[q] = e
  BY <1>2, LeastPlace DEF q
<1>5. Least \in Names /\ Top.dirs \in Seq(Waiting) /\ deletes \in Nat /\ local \in Trees
  BY <1>1, <1>2, LeastIn, TopParts DEF Merging, Types
<1>6. ASSUME e \in Live, NEW c \in BOOLEAN
      PROVE  Queued(Least, e, c) \in Seq(Waiting)
  BY <1>1, <1>2, <1>5, <1>6, QueuedType
<1>7. MaxDelete # 0 => deletes + 0 <= MaxDelete
  BY <1>1, <1>5 DEF DeletesBounded
<1>8. UNCHANGED <<deletes, pc>> => Counted
  BY <1>1, <1>3, <1>5 DEF DeletesBounded, Counted, MaxDelete
<1>9. ASSUME NEW o \in sp_get_file(local, q, e), e \in Live, local' = o.tree, CountDeletes(0, o.dels)
      PROVE  Counted /\ Swept(q, local')
  <2>1. o.dels \in {0, 1} /\ (o.tree = local \/ Put(local, q, o.tree))
    BY <1>5, <1>9, GetOutcome
  <2>2. Swept(q, local')
    BY <1>1, <1>9, <2>1, NothingGone
  <2>3. Counted
    BY <1>1, <1>3, <1>7, <1>9, <2>1, CountEffect
  <2> QED
    BY <2>2, <2>3
<1>10. ASSUME NEW o \in spf_rm(q), NEW g \in sp_get_file(Without(local, o.gone), q, e), e \in Live,
              local' = g.tree, CountDeletes(Cardinality(o.gone), g.dels)
       PROVE  Counted /\ Swept(q, local')
  <2>1. /\ o.gone \in PartlyGone(Below(local, q)) /\ (~DoDelete => o.gone = {})
        /\ Cardinality(o.gone) \in Nat
        /\ MaxDelete # 0 => deletes + Cardinality(o.gone) <= MaxDelete
    BY <1>1, RmOutcome
  <2>2. Without(local, o.gone) \in Trees
    BY <1>5, WithoutEffect
  <2>3. g.dels \in {0, 1} /\ (g.tree = Without(local, o.gone) \/ Put(Without(local, o.gone), q, g.tree))
    BY <1>10, <2>2, GetOutcome
  <2>4. Swept(q, local')
    BY <1>10, <2>1, <2>3 DEF Swept
  <2>5. Counted
    BY <1>1, <1>3, <1>10, <2>1, <2>3, CountEffect
  <2> QED
    BY <2>4, <2>5
<1>11. CASE MissingLocally
  <2>1. OnlyRemote
    BY <1>11 DEF MissingLocally
  <2>2. /\ \E o \in sp_get_file(local, q, e) : local' = o.tree /\ CountDeletes(0, o.dels)
        /\ Advance(Queued(Least, e, TRUE))
    BY <1>11 DEF MissingLocally, q
  <2>3. Counted /\ Swept(q, local')
    BY <1>4, <1>9, <2>1, <2>2
  <2>4. Unwanted(q)
    BY <1>4, <2>1, NoneType DEF Unwanted
  <2>5. Merged
    BY <1>4, <1>6, <2>1, <2>2 DEF Merged
  <2> QED
    BY <1>2, <1>3, <2>3, <2>4, <2>5 DEF q
<1>12. CASE ExtraLocally
  <2>1. OnlyLocal /\ Advance(Top.dirs)
    BY <1>12 DEF ExtraLocally
  <2>2. PICK o \in spf_rm(q) : Removed(o)
    BY <1>12 DEF ExtraLocally, q
  <2>3. Counted /\ Swept(q, local')
    BY <1>1, <1>3, <2>2, RemovedEffect
  <2>4. Unwanted(q)
    BY <1>4, <2>1, NoneType DEF Unwanted
  <2>5. Merged
    BY <1>5, <2>1 DEF Merged
  <2> QED
    BY <1>2, <1>3, <2>3, <2>4, <2>5 DEF q
<1>13. CASE TypesDiffer
  <2>1. Both /\ Top.l[Least].type # e.type
    BY <1>13 DEF TypesDiffer
  <2>2. PICK o \in spf_rm(q) :
          IF o.res = "exit"
          THEN Removed(o) /\ UNCHANGED stack
          ELSE /\ \E g \in sp_get_file(Without(local, o.gone), q, e) :
                    local' = g.tree /\ CountDeletes(Cardinality(o.gone), g.dels)
               /\ Advance(Queued(Least, e, TRUE))
    BY <1>13 DEF TypesDiffer, q
  <2>3. e \in Live /\ Unwanted(q)
    BY <1>4, <2>1 DEF Unwanted, Both
  <2>4. CASE o.res = "exit"
    <3>1. Counted /\ Swept(q, local')
      BY <1>1, <1>3, <2>2, <2>4, RemovedEffect
    <3>2. Merged
      BY <2>2, <2>4 DEF Merged, Removed
    <3> QED
      BY <1>2, <1>3, <2>3, <3>1, <3>2 DEF q
  <2>5. CASE o.res # "exit"
    <3>1. Counted /\ Swept(q, local')
      BY <1>10, <2>2, <2>3, <2>5
    <3>2. Merged
      BY <1>6, <2>2, <2>3, <2>5 DEF Merged
    <3> QED
      BY <1>2, <1>3, <2>3, <3>1, <3>2 DEF q
  <2> QED
    BY <2>4, <2>5
<1>14. CASE SameDir
  <2>1. ~OnlyLocal /\ Advance(Queued(Least, e, FALSE)) /\ UNCHANGED <<local, deletes, pc>>
    BY <1>14 DEF SameDir, Same, Both
  <2>2. Merged
    BY <1>4, <1>6, <2>1 DEF Merged
  <2> QED
    BY <1>2, <1>3, <1>8, <2>1, <2>2
<1>15. CASE SameFile
  <2>1. /\ Both /\ Top.l[Least].type = "file" /\ e.type = "file" /\ Advance(Top.dirs)
        /\ IF e.sig # Top.l[Least].sig
           THEN \E o \in get_ftp_file(local, q, e) : local' = o.tree /\ CountDeletes(0, o.dels)
           ELSE /\ local' = [local EXCEPT ![q].mode = e.mode] \/ UNCHANGED local
                /\ UNCHANGED <<deletes, pc>>
    BY <1>15 DEF SameFile, Same, q
  <2>2. /\ e \in Live /\ e.mode \in Nat /\ local[q] = Top.l[Least] /\ remote[q] = e
        /\ get_ftp_file(local, q, e) = sp_get_file(local, q, e)
    BY <1>4, <2>1, NoneType DEF Both, sp_get_file
  <2>3. Merged
    BY <1>5, <2>1 DEF Merged
  <2>4. CASE e.sig # Top.l[Least].sig
    <3>1. Counted /\ Swept(q, local')
      BY <1>9, <2>1, <2>2, <2>4
    <3>2. Unwanted(q)
      BY <2>1, <2>2, <2>4 DEF Unwanted
    <3> QED
      BY <1>2, <1>3, <2>3, <3>1, <3>2 DEF q
  <2>5. CASE e.sig = Top.l[Least].sig
    BY <1>2, <1>3, <1>8, <2>1, <2>2, <2>3, <2>5 DEF q, Moded
  <2> QED
    BY <2>4, <2>5
<1>16. CASE SameLink
  <2>1. /\ Both /\ Top.l[Least].type = "link" /\ e.type = "link" /\ Advance(Top.dirs)
        /\ IF e.sig = Top.l[Least].sig
           THEN UNCHANGED <<local, deletes, pc>>
           ELSE \E o \in spf_rm(q) :
                  IF o.res # "ok"
                  THEN Removed(o)
                  ELSE \E g \in spf_symlink(Without(local, o.gone), q, e) :
                         local' = g.tree /\ CountDeletes(Cardinality(o.gone), 0)
    BY <1>16 DEF SameLink, Same, q
  <2>2. /\ e \in Live /\ local[q] = Top.l[Least] /\ remote[q] = e
        /\ \A t : spf_symlink(t, q, e) = sp_get_file(t, q, e)
        /\ \A t : \A g \in spf_symlink(t, q, e) : g.dels = 0
    BY <1>4, <2>1 DEF Both, sp_get_file, spf_symlink
  <2>3. Merged
    BY <1>5, <2>1 DEF Merged
  <2>4. CASE e.sig = Top.l[Least].sig
    BY <1>2, <1>3, <1>8, <2>1, <2>3, <2>4
  <2>5. CASE e.sig # Top.l[Least].sig
    <3>1. PICK o \in spf_rm(q) :
            \/ Removed(o)
            \/ \E g \in sp_get_file(Without(local, o.gone), q, e) :
                 local' = g.tree /\ CountDeletes(Cardinality(o.gone), g.dels)
      BY <2>1, <2>2, <2>5
    <3>2. Counted /\ Swept(q, local')
      BY <1>1, <1>3, <1>10, <2>2, <3>1, RemovedEffect
    <3>3. Unwanted(q)
      BY <2>1, <2>2, <2>5 DEF Unwanted
    <3> QED
      BY <1>2, <1>3, <2>3, <3>2, <3>3 DEF q
  <2> QED
    BY <2>4, <2>5
<1> QED
  BY <1>11, <1>12, <1>13, <1>14, <1>15, <1>16 DEF Merge

(* What is removed and put leaves a well-formed tree, other paths than     *)
(* those at and below q as they are, and nothing new below q.              *)
LEMMA SweptEffect ==
  ASSUME Types, WellFormed(local), NEW q \in Paths, NEW t, Swept(q, t),
         \A p \in Paths : IsPrefix(p, q) /\ p # q => local[p].type = "dir"
  PROVE  /\ t \in Trees /\ WellFormed(t)
         /\ \A p \in Paths : p # q => t[p] = local[p] \/ (t[p] = None /\ IsPrefix(q, p))
         /\ ~DoDelete /\ ~Faults => \A p \in Paths : local[p] # None => t[p] # None
<1>1. PICK gone \in PartlyGone(Below(local, q)) :
        /\ DoDelete \/ gone = {}
        /\ t = Without(local, gone) \/ Put(Without(local, gone), q, t)
  BY DEF Swept
<1> DEFINE w == Without(local, gone)
<1>2. w \in Trees /\ \A p \in Paths : w[p] = IF p \in gone THEN None ELSE local[p]
  BY WithoutEffect DEF Types
<1> HIDE DEF w
<1>3. \A p \in gone : p \in Paths /\ IsPrefix(q, p)
  BY DEF PartlyGone, Below
<1>4. \A p \in gone : \A x \in Below(local, q) : IsPrefix(p, x) => x \in gone
  BY DEF PartlyGone
<1>5. \A p \in Paths : p \in Seq(Names)
  BY PathSeq
<1>6. WellFormed(w)
  <2> SUFFICES ASSUME NEW p \in Paths, NEW x \in Paths, IsPrefix(p, x), p # x, w[x] # None
               PROVE  w[p].type = "dir"
    BY DEF WellFormed
  <2>1. x \notin gone /\ local[x] # None
    BY <1>2
  <2>2. local[p].type = "dir"
    BY <2>1 DEF WellFormed
  <2>3. p \notin gone
    <3> SUFFICES ASSUME p \in gone PROVE FALSE
      OBVIOUS
    <3>1. IsPrefix(q, x)
      BY <1>3, <1>5, PrefixOrder
    <3>2. x \in Below(local, q)
      BY <2>1, <3>1 DEF Below
    <3> QED
      BY <1>4, <2>1, <3>2
  <2> QED
    BY <1>2, <2>2, <2>3
<1>7. ASSUME NEW p \in Paths, IsPrefix(p, q), p # q
      PROVE  p \notin gone
  <2> SUFFICES ASSUME p \in gone PROVE FALSE
    OBVIOUS
  <2>1. p \in Seq(Names) /\ q \in Seq(Names) /\ IsPrefix(q, p)
    BY <1>3, <1>5
  <2>2. Len(p) <= Len(q) /\ Len(q) <= Len(p) /\ Len(p) \in Nat /\ Len(q) \in Nat
    BY <1>7, <2>1, PrefixElements
  <2>3. Len(p) = Len(q)
    BY <2>2
  <2> QED
    BY <1>7, <2>1, <2>3, PrefixOrder
<1>8. CASE t = w
  BY <1>1, <1>2, <1>3, <1>6, <1>8
<1>9. CASE Put(w, q, t)
  <2>1. /\ t \in Trees
        /\ \A p \in Paths : p # q => t[p] = w[p]
        /\ t[q] \in Entries /\ t[q].type # "dir" /\ w[q].type # "dir" /\ (Faults \/ t[q] # None)
    BY <1>2, <1>9, PutEffect
  <2>2. WellFormed(t)
    <3> SUFFICES ASSUME NEW p \in Paths, NEW x \in Paths, IsPrefix(p, x), p # x, t[x] # None
                 PROVE  t[p].type = "dir"
      BY DEF WellFormed
    <3>1. CASE x = q
      BY <1>2, <1>7, <2>1, <3>1
    <3>2. CASE x # q
      <4>1. w[p].type = "dir"
        BY <1>6, <2>1, <3>2 DEF WellFormed
      <4>2. p # q
        BY <2>1, <4>1
      <4> QED
        BY <2>1, <4>1, <4>2
    <3> QED
      BY <3>1, <3>2
  <2> QED
    BY <1>1, <1>2, <1>3, <2>1, <2>2
<1> QED
  BY <1>1, <1>8, <1>9 DEF w

\* Another mode for a file changes nothing else.
LEMMA ModeEffect ==
  ASSUME Types, WellFormed(local), NEW q \in Paths, NEW t, Moded(q, t)
  PROVE  /\ t \in Trees /\ WellFormed(t)
         /\ \A p \in Paths : t[p].type = local[p].type /\ (p # q => t[p] = local[p])
         /\ \A p \in Paths : local[p] = None <=> t[p] = None
<1>1. local \in Trees /\ local[q] \in Live
  BY NoneType DEF Types, Trees, Moded
<1> PICK m \in Nat : t = [local EXCEPT ![q].mode = m]
  BY DEF Moded
<1>2. [local[q] EXCEPT !.mode = m] \in Live /\ [local[q] EXCEPT !.mode = m].type = local[q].type
  BY <1>1, FileMode DEF Moded
<1>3. t[q] = [local[q] EXCEPT !.mode = m] /\ \A p \in Paths : p # q => t[p] = local[p]
  BY <1>1 DEF Trees
<1>4. t \in Trees
  BY <1>1, <1>2 DEF Trees, Entries
<1>5. \A p \in Paths : t[p].type = local[p].type
  BY <1>2, <1>3
<1>6. \A p \in Paths : local[p] = None <=> t[p] = None
  BY <1>1, <1>4, <1>5, NoneType DEF Trees
<1>7. WellFormed(t)
  BY <1>5, <1>6 DEF WellFormed
<1> QED
  BY <1>3, <1>4, <1>5, <1>6, <1>7

(* What merging a name does to the local tree: it stays well-formed, other *)
(* paths stay as they are, and nothing goes that the server has.           *)
LEMMA MergeTree ==
  ASSUME IInv, Merge
  PROVE  LET q == Here(Least) IN
         /\ q \in Paths \ Skip
         /\ local' \in Trees /\ WellFormed(local')
         /\ \A p \in Paths : ~IsPrefix(q, p) => local'[p] = local[p]
         /\ \A p \in Paths : local'[p].type = local[p].type \/ (Unwanted(q) /\ IsPrefix(q, p))
         /\ \A p \in Paths : p # q => local'[p] = local[p] \/ (Unwanted(q) /\ local'[p] = None /\ IsPrefix(q, p))
         /\ ~DoDelete /\ ~Faults => \A p \in Paths : local[p] # None => local'[p] # None
<1> DEFINE q == Here(Least)
<1>1. /\ Merging
      /\ \/ local' = local
         \/ Moded(q, local')
         \/ Unwanted(q) /\ Swept(q, local')
  BY MergeEffect
<1>2. Types /\ WellFormed(local) /\ stack # << >> /\ Waits /\ Open
  BY <1>1 DEF IInv, TreeInv, Merging
<1>3. q \in Paths \ Skip /\ Least \in Names /\ cur_dir \in Seq(Names)
  BY <1>1, <1>2, LeastPlace, LeastIn DEF Types
<1>4. Top.sub = << >>
  <2>1. Len(stack) \in 1 .. Len(stack)
    BY <1>2, TopParts
  <2> QED
    BY <1>1, <1>2, <2>1 DEF Waits, Merging, Top
<1>5. ASSUME NEW p \in Paths, IsPrefix(p, q), p # q
      PROVE  local[p].type = "dir"
  <2>1. IsPrefix(p, cur_dir)
    BY <1>3, <1>5, PathSeq, PrefixAppend DEF Here
  <2> QED
    BY <1>2, <1>4, <2>1 DEF Open
<1>6. IsPrefix(q, q)
  BY <1>3, PathSeq, PrefixOrder
<1> HIDE DEF q
<1>7. CASE local' = local
  BY <1>2, <1>3, <1>7 DEF Types, q
<1>8. CASE Moded(q, local')
  <2>1. /\ local' \in Trees /\ WellFormed(local')
        /\ \A p \in Paths : local'[p].type = local[p].type /\ (p # q => local'[p] = local[p])
        /\ \A p \in Paths : local[p] = None <=> local'[p] = None
    BY <1>2, <1>3, <1>8, ModeEffect
  <2> QED
    BY <1>3, <1>6, <2>1 DEF q
<1>9. CASE Unwanted(q) /\ Swept(q, local')
  <2>1. /\ local' \in Trees /\ WellFormed(local')
        /\ \A p \in Paths : p # q => local'[p] = local[p] \/ (local'[p] = None /\ IsPrefix(q, p))
        /\ ~DoDelete /\ ~Faults => \A p \in Paths : local[p] # None => local'[p] # None
    BY <1>2, <1>3, <1>5, <1>9, SweptEffect
  <2>2. \A p \in Paths : ~IsPrefix(q, p) => local'[p] = local[p]
    BY <1>6, <2>1
  <2> QED
    BY <1>3, <1>9, <2>1, <2>2 DEF q
<1> QED
  BY <1>1, <1>7, <1>8, <1>9

-----------------------------------------------------------------------------
(* Directories are made and get their attributes                           *)

\* t is the tree after a directory was made at p, or what is there changed
Made(p, t) ==
  \/ t = local
  \/ \E x \in Live : /\ t = [local EXCEPT ![p] = x]
                     /\ x.type = local[p].type \/ local[p] = None

LEMMA MadeEffect ==
  ASSUME Types, WellFormed(local), NEW p, NEW t, Made(p, t),
         \A a \in Paths : IsPrefix(a, p) /\ a # p => local[a].type = "dir"
  PROVE  /\ t \in Trees /\ WellFormed(t)
         /\ \A a \in Paths : a # p => t[a] = local[a]
         /\ \A a \in Paths : local[a] # None => t[a].type = local[a].type /\ t[a] # None
<1>1. local \in Trees
  BY DEF Types
<1>2. CASE t = local
  BY <1>1, <1>2
<1>3. CASE p \notin Paths
  BY <1>1, <1>2, <1>3 DEF Made, Trees
<1>4. CASE t # local /\ p \in Paths
  <2>1. PICK x \in Live : t = [local EXCEPT ![p] = x] /\ (x.type = local[p].type \/ local[p] = None)
    BY <1>4 DEF Made
  <2>2. t \in Trees /\ t[p] = x /\ \A a \in Paths : a # p => t[a] = local[a]
    BY <1>1, <1>4, <2>1 DEF Trees, Entries
  <2>3. x # None /\ x.type # "none"
    BY NoneType
  <2>4. \A a \in Paths : local[a] # None => t[a].type = local[a].type /\ t[a] # None
    BY <2>1, <2>2, <2>3
  <2>5. WellFormed(t)
    <3> SUFFICES ASSUME NEW a \in Paths, NEW b \in Paths, IsPrefix(a, b), a # b, t[b] # None
                 PROVE  t[a].type = "dir"
      BY DEF WellFormed
    <3>1. local[a].type = "dir"
      <4>1. CASE b = p
        BY <4>1
      <4>2. CASE b # p
        BY <2>2, <4>2 DEF WellFormed
      <4> QED
        BY <4>1, <4>2
    <3>2. local[a] # None
      BY <3>1, NoneType
    <3> QED
      BY <2>4, <3>1, <3>2
  <2> QED
    BY <2>2, <2>4, <2>5
<1> QED
  BY <1>2, <1>3, <1>4

\* spf_mkdir and spf_chmod make a directory or change attributes.
LEMMA MadeDirEffect ==
  ASSUME Types, NEW p, NEW d
  PROVE  Made(p, MadeDir(p, d))
<1>1. CASE p \notin Paths
  BY <1>1 DEF Types, Trees, Made, MadeDir
<1>2. CASE p \in Paths
  <2>1. local[p] \in Entries
    BY <1>2 DEF Types, Trees
  <2>2. OpenDir \in Live /\ OpenDir.type = "dir" /\ OpenDir.mode \in Nat
    BY NoneType DEF OpenDir
  <2>3. CASE local[p] = None /\ d.create
    <3>1. MadeDir(p, d) = [local EXCEPT ![p] = OpenDir]
      BY <2>3, NoneType DEF MadeDir
    <3> QED
      BY <2>2, <2>3, <3>1 DEF Made
  <2>4. CASE ~(local[p] = None /\ d.create) /\ local[p].type = "dir"
    <3>1. MadeDir(p, d) = [local EXCEPT ![p] = OpenDir]
      BY <2>4, NoneType DEF MadeDir
    <3> QED
      BY <2>2, <2>4, <3>1 DEF Made
  <2>5. CASE ~(local[p] = None /\ d.create) /\ local[p].type = "file"
    <3> DEFINE x == [local[p] EXCEPT !.mode = OpenDir.mode]
    <3>1. MadeDir(p, d) = [local EXCEPT ![p] = x]
      BY <1>2, <2>5 DEF MadeDir, Types, Trees
    <3>2. x \in Live /\ x.type = local[p].type
      <4>1. local[p] \in Live
        BY <2>1, <2>5, NoneType
      <4> QED
        BY <2>2, <2>5, <4>1, FileMode
    <3> HIDE DEF x
    <3> QED
      BY <3>1, <3>2 DEF Made
  <2>6. CASE ~(local[p] = None /\ d.create) /\ local[p].type \notin {"dir", "file"}
    BY <2>6 DEF MadeDir, Made
  <2> QED
    BY <2>3, <2>4, <2>5, <2>6
<1> QED
  BY <1>1, <1>2

\* spf_new_time and spf_chmod change attributes.
LEMMA DirAttributesEffect ==
  ASSUME Types, NEW p, NEW d \in Waiting
  PROVE  Made(p, DirAttributes(p, d))
<1>1. CASE local[p].type = "dir"
  <2>1. d.entry \in Live /\ d.entry.type = "dir"
    BY DEF Waiting, Live
  <2> QED
    BY <1>1, <2>1 DEF DirAttributes, Made
<1>2. CASE local[p].type = "file"
  <2> DEFINE x == [Damaged EXCEPT !.mode = d.entry.mode]
  <2>1. x \in Live /\ x.type = "file"
    BY DEF Waiting, Live, Damaged
  <2>2. DirAttributes(p, d) = [local EXCEPT ![p] = x]
    BY <1>2 DEF DirAttributes
  <2> HIDE DEF x
  <2> QED
    BY <1>2, <2>1, <2>2 DEF Made
<1>3. CASE local[p].type \notin {"dir", "file"}
  BY <1>3 DEF DirAttributes, Made
<1> QED
  BY <1>1, <1>2, <1>3

\* New listings are right about the trees they are read from.
LEMMA ListingFresh ==
  ASSUME NEW lt \in Trees, NEW rt \in Trees, NEW dir, NEW n \in Names
  PROVE  Agree(lt, rt, Listing(lt, dir), Listing(rt, dir), n, Append(dir, n))
  BY DEF Listing, Agree

-----------------------------------------------------------------------------
(* The invariant                                                           *)

LEMMA InitIInv == Init => IInv
<1> SUFFICES ASSUME Init PROVE IInv
  OBVIOUS
<1>1. local \in Trees /\ remote \in Trees /\ WellFormed(local) /\ WellFormed(remote)
  BY TreesAssumption DEF Init, Trees
<1>2. /\ cur_dir = << >> /\ deletes = 0 /\ param \in Param
      /\ \/ stack = << >> /\ pc = "done"
         \/ stack = <<Frame(<< >>)>> /\ pc = "sync"
  BY ParamsAssumption DEF Init
<1>3. stack \in Seq(Call) /\ pc \in {"sync", "done", "exit"}
  <2>1. << >> \in Seq(Call)
    OBVIOUS
  <2>2. Frame(<< >>) \in Call
    BY <1>1, ListingType DEF Frame, Call
  <2>3. <<Frame(<< >>)>> \in Seq(Call)
    BY <2>2
  <2> QED
    BY <1>2, <2>1, <2>3
<1>4. Types
  <2>1. << >> \in Seq(Names) /\ 0 \in Nat
    OBVIOUS
  <2> QED
    BY <1>1, <1>2, <1>3, <2>1 DEF Types
<1>5. DeletesBounded
  BY <1>2 DEF DeletesBounded, MaxDelete, Param
<1>6. CASE pc = "done"
  BY <1>1, <1>4, <1>5, <1>6 DEF IInv, TreeInv
<1> SUFFICES ASSUME pc = "sync" PROVE IInv
  BY <1>2, <1>6
<1>7. /\ stack = <<Frame(<< >>)>> /\ Len(stack) = 1 /\ stack[1] = Frame(<< >>)
      /\ Top = Frame(<< >>) /\ Top.sub = << >>
  <2>1. stack = <<Frame(<< >>)>>
    BY <1>2
  <2>2. Len(stack) = 1 /\ stack[1] = Frame(<< >>)
    BY <2>1
  <2> QED
    BY <2>1, <2>2 DEF Top, Frame
<1>8. Waits
  BY <1>7 DEF Waits
<1>9. Open
  <2> SUFFICES ASSUME NEW q \in Paths, IsPrefix(q, << >>) PROVE FALSE
    BY <1>2 DEF Open
  <2>1. q \in Seq(Names) /\ Len(q) \in 1 .. Depth /\ << >> \in Seq(Names) /\ Len(<< >>) = 0
    BY PathSeq
  <2>2. Len(q) <= 0
    BY <2>1, PrefixElements
  <2> QED
    BY <2>1, <2>2
<1>10. Fresh
  <2> SUFFICES ASSUME NEW n \in Names
               PROVE  Agree(local, remote, Top.l, Top.r, n, Here(n))
    BY DEF Fresh
  <2>1. Top.l = Listing(local, << >>) /\ Top.r = Listing(remote, << >>) /\ Here(n) = Append(<< >>, n)
    BY <1>2, <1>7 DEF Frame, Here
  <2> QED
    BY <1>1, <2>1, ListingFresh, Zenon
<1> QED
  BY <1>1, <1>2, <1>4, <1>5, <1>8, <1>9, <1>10 DEF IInv, TreeInv

LEMMA MergeInv == IInv /\ Merge => IInv'
<1> SUFFICES ASSUME IInv, Merge PROVE IInv'
  OBVIOUS
<1> DEFINE q == Here(Least)
<1>1. Merging /\ Merged /\ Counted /\ UNCHANGED <<remote, cur_dir, param>>
  BY MergeEffect
<1>2. /\ Types /\ WellFormed(remote) /\ stack # << >> /\ Waits /\ Open /\ Fresh /\ pc = "sync"
  BY <1>1 DEF IInv, TreeInv, Merging
<1>3. /\ local' \in Trees /\ WellFormed(local')
      /\ \A p \in Paths : ~IsPrefix(q, p) => local'[p] = local[p]
  BY MergeTree
<1>4. Least \in Names /\ cur_dir \in Seq(Names)
  BY <1>1, <1>2, LeastIn DEF Types
<1>5. stack' \in Seq(Call)
  BY <1>1, <1>2, AdvanceEffect DEF Merged, Types
<1>6. Types'
  BY <1>1, <1>2, <1>3, <1>5 DEF Types, Counted
<1>7. DeletesBounded' /\ WellFormed(remote)'
  BY <1>1, <1>2 DEF Counted, WellFormed
<1>8. ASSUME pc' = "sync"
      PROVE  stack' # << >> /\ Waits' /\ Open' /\ Fresh'
  <2>1. PICK dirs \in Seq(Waiting) : Advance(dirs)
    BY <1>1, <1>8 DEF Merged
  <2>2. /\ stack' # << >> /\ Len(stack') = Len(stack)
        /\ Top' = [Top EXCEPT !.l = Less(Top.l, Least), !.r = Less(Top.r, Least), !.dirs = dirs]
        /\ \A i \in 1 .. Len(stack) : i # Len(stack) => stack'[i] = stack[i]
    BY <1>1, <1>2, <2>1, AdvanceEffect
  <2>3. /\ Len(stack) \in Nat \ {0} /\ Top \in Call /\ Top = stack[Len(stack)] /\ Top' = stack'[Len(stack)]
        /\ Top.l \in Listings /\ Top.r \in Listings
    BY <1>2, <2>2, TopParts DEF Top
  <2>4. Top.sub = << >>
    BY <1>1, <1>2, <2>3 DEF Waits, Merging
  <2>5. Top'.sub = Top.sub /\ Top'.l = Less(Top.l, Least) /\ Top'.r = Less(Top.r, Least)
    BY <2>2, <2>3 DEF Call
  <2>6. Waits'
    <3> SUFFICES ASSUME NEW i \in 1 .. Len(stack)
                 PROVE  /\ i < Len(stack) => stack'[i].sub # << >>
                        /\ stack'[i].sub # << >> => DOMAIN stack'[i].l = {} /\ DOMAIN stack'[i].r = {}
      BY <2>2 DEF Waits
    <3>1. CASE i = Len(stack)
      BY <2>3, <2>4, <2>5, <3>1
    <3>2. CASE i # Len(stack)
      BY <1>2, <2>2, <3>2 DEF Waits
    <3> QED
      BY <3>1, <3>2
  <2>7. Open'
    <3> SUFFICES ASSUME NEW p \in Paths, IsPrefix(p, cur_dir)
                 PROVE  local'[p].type = "dir"
      BY <1>1 DEF Open
    <3>1. p \in Seq(Names) /\ q \in Seq(Names) /\ ~IsPrefix(q, cur_dir)
      BY <1>4, PathSeq, PathAppend, PrefixAppend DEF Here
    <3>2. ~IsPrefix(q, p)
      BY <1>4, <3>1, PrefixOrder
    <3>3. local[p].type = "dir"
      BY <1>2, <2>4 DEF Open
    <3> QED
      BY <1>3, <3>2, <3>3
  <2>8. Fresh'
    <3> SUFFICES ASSUME NEW n \in Names
                 PROVE  Agree(local', remote', Top'.l, Top'.r, n, Here(n)')
      BY DEF Fresh
    <3>1. Here(n)' = Here(n)
      BY <1>1 DEF Here
    <3>2. Agree(local, remote, Top.l, Top.r, n, Here(n))
      BY <1>2 DEF Fresh
    <3>3. /\ DOMAIN Top'.l = DOMAIN Top.l \ {Least} /\ \A m \in DOMAIN Top'.l : Top'.l[m] = Top.l[m]
          /\ DOMAIN Top'.r = DOMAIN Top.r \ {Least} /\ \A m \in DOMAIN Top'.r : Top'.r[m] = Top.r[m]
      <4>1. ASSUME NEW f \in Listings
            PROVE  DOMAIN Less(f, Least) = DOMAIN f \ {Least} /\ \A m \in DOMAIN f \ {Least} : Less(f, Least)[m] = f[m]
        BY ListingParts
      <4>2. /\ DOMAIN Less(Top.l, Least) = DOMAIN Top.l \ {Least}
            /\ \A m \in DOMAIN Top.l \ {Least} : Less(Top.l, Least)[m] = Top.l[m]
        BY <2>3, <4>1
      <4>3. /\ DOMAIN Less(Top.r, Least) = DOMAIN Top.r \ {Least}
            /\ \A m \in DOMAIN Top.r \ {Least} : Less(Top.r, Least)[m] = Top.r[m]
        BY <2>3, <4>1
      <4>4. DOMAIN Top'.l = DOMAIN Top.l \ {Least} /\ \A m \in DOMAIN Top'.l : Top'.l[m] = Top.l[m]
        BY <2>5, <4>2
      <4>5. DOMAIN Top'.r = DOMAIN Top.r \ {Least} /\ \A m \in DOMAIN Top'.r : Top'.r[m] = Top.r[m]
        BY <2>5, <4>3
      <4> QED
        BY <4>4, <4>5
    <3>4. CASE n = Least
      BY <3>3, <3>4 DEF Agree
    <3>5. CASE n # Least
      <4>1. ~IsPrefix(q, Here(n))
        BY <1>4, <3>5, PrefixApart DEF Here
      <4>2. Here(n) \in Paths => local'[Here(n)] = local[Here(n)]
        BY <1>3, <4>1
      <4>3. remote' = remote
        BY <1>1
      <4> HIDE DEF q
      <4> QED
        BY <3>1, <3>2, <3>3, <3>5, <4>2, <4>3 DEF Agree
    <3> QED
      BY <3>4, <3>5
  <2> QED
    BY <2>2, <2>6, <2>7, <2>8
<1> QED
  BY <1>3, <1>6, <1>7, <1>8 DEF IInv, TreeInv

LEMMA LeaveDirOutInv == IInv /\ LeaveDirOut => IInv'
<1> SUFFICES ASSUME IInv, LeaveDirOut PROVE IInv'
  OBVIOUS
<1>1. /\ stack # << >> /\ pc = "sync" /\ Top.sub = << >> /\ Top.dirs # << >>
      /\ UNCHANGED <<local, remote, cur_dir, deletes, pc, param>>
      /\ GoOn([Top EXCEPT !.dirs = Tail(@)])
  BY DEF LeaveDirOut, Descending
<1>2. Types /\ WellFormed(local) /\ WellFormed(remote) /\ DeletesBounded /\ Waits /\ Open /\ Fresh
  BY <1>1 DEF IInv, TreeInv
<1> DEFINE f == [Top EXCEPT !.dirs = Tail(@)]
<1>3. /\ Top \in Call /\ Len(stack) \in Nat \ {0} /\ Top = stack[Len(stack)]
      /\ Tail(Top.dirs) \in Seq(Waiting)
  BY <1>1, <1>2, TopParts DEF Top
<1>4. f \in Call /\ f.l = Top.l /\ f.r = Top.r /\ f.sub = Top.sub
  BY <1>3 DEF Call
<1> HIDE DEF f
<1>5. /\ stack' \in Seq(Call) /\ stack' # << >> /\ Len(stack') = Len(stack) /\ Top' = f
      /\ \A i \in 1 .. Len(stack) : i # Len(stack) => stack'[i] = stack[i]
  BY <1>1, <1>2, <1>4, GoOnEffect DEF f
<1>6. Top' = stack'[Len(stack)]
  BY <1>5 DEF Top
<1>7. Types'
  BY <1>1, <1>2, <1>5 DEF Types
<1>8. DeletesBounded' /\ WellFormed(local)' /\ WellFormed(remote)'
  BY <1>1, <1>2 DEF DeletesBounded, MaxDelete, WellFormed
<1>9. Waits'
  <2> SUFFICES ASSUME NEW i \in 1 .. Len(stack)
               PROVE  /\ i < Len(stack) => stack'[i].sub # << >>
                      /\ stack'[i].sub # << >> => DOMAIN stack'[i].l = {} /\ DOMAIN stack'[i].r = {}
    BY <1>5 DEF Waits
  <2>1. CASE i = Len(stack)
    BY <1>1, <1>3, <1>4, <1>5, <1>6, <2>1
  <2>2. CASE i # Len(stack)
    BY <1>2, <1>5, <2>2 DEF Waits
  <2> QED
    BY <2>1, <2>2
<1>10. Open'
  BY <1>1, <1>2, <1>4, <1>5 DEF Open
<1>11. Fresh'
  BY <1>1, <1>2, <1>4, <1>5 DEF Fresh, Agree, Here
<1> QED
  BY <1>5, <1>7, <1>8, <1>9, <1>10, <1>11 DEF IInv, TreeInv

(* What Descend does to the tree: a directory is made, or the attributes   *)
(* of what is there change.                                                *)
LEMMA DescendTree ==
  ASSUME IInv, Descend
  PROVE  LET p == Here(Head(Top.dirs).name) IN
         /\ local' \in Trees /\ WellFormed(local')
         /\ \A a \in Paths : a # p => local'[a] = local[a]
         /\ \A a \in Paths : local[a] # None => local'[a].type = local[a].type /\ local'[a] # None
<1> DEFINE d == Head(Top.dirs)
<1>1. /\ pc = "sync" /\ stack # << >> /\ Top.sub = << >> /\ Top.dirs # << >>
      /\ local' = MadeDir(Here(d.name), d)
  BY DEF Descend, Descending
<1>2. Types /\ WellFormed(local) /\ Open
  BY <1>1 DEF IInv, TreeInv
<1>3. Top.dirs \in Seq(Waiting)
  BY <1>1, <1>2, TopParts
<1>4. cur_dir \in Seq(Names) /\ d.name \in Names
  <2>1. d \in Waiting
    BY <1>1, <1>3
  <2> HIDE DEF d
  <2> QED
    BY <1>2, <2>1 DEF Types, Waiting
<1>5. Made(Here(d.name), local')
  BY <1>1, <1>2, MadeDirEffect
<1> HIDE DEF d
<1>6. ASSUME NEW a \in Paths, IsPrefix(a, Here(d.name)), a # Here(d.name)
      PROVE  local[a].type = "dir"
  <2>1. IsPrefix(a, cur_dir)
    BY <1>4, <1>6, PathSeq, PrefixAppend DEF Here
  <2> QED
    BY <1>1, <1>2, <2>1 DEF Open
<1>7. /\ local' \in Trees /\ WellFormed(local')
      /\ \A a \in Paths : a # Here(d.name) => local'[a] = local[a]
      /\ \A a \in Paths : local[a] # None => local'[a].type = local[a].type /\ local'[a] # None
  BY <1>2, <1>5, <1>6, MadeEffect
<1> QED
  BY <1>7 DEF d

LEMMA DescendInv == IInv /\ Descend => IInv'
<1> SUFFICES ASSUME IInv, Descend PROVE IInv'
  OBVIOUS
<1> DEFINE d  == Head(Top.dirs)
           to == IF CdFits THEN Here(d.name) ELSE cur_dir
           caller == [Top EXCEPT !.dirs = Tail(@), !.sub = <<d>>]
           calls  == [stack EXCEPT ![Len(stack)] = caller]
           callee == [at |-> Here(d.name), l |-> Listing(local', to), r |-> Listing(remote, to),
                      dirs |-> << >>, sub |-> << >>]
<1>1. /\ pc = "sync" /\ stack # << >> /\ DOMAIN Top.l = {} /\ DOMAIN Top.r = {}
      /\ Top.sub = << >> /\ Top.dirs # << >>
      /\ UNCHANGED <<remote, deletes, pc, param>>
      /\ local' = MadeDir(Here(d.name), d) /\ cur_dir' = to
  BY DEF Descend, Descending
<1>2. \/ IsDir(local', to) /\ stack' = Append(calls, callee)
      \/ stack' = calls
  BY DEF Descend
<1>3. Types /\ WellFormed(local) /\ WellFormed(remote) /\ DeletesBounded /\ Waits /\ Open
  BY <1>1 DEF IInv, TreeInv
<1>4. /\ Top \in Call /\ Len(stack) \in Nat \ {0} /\ Top = stack[Len(stack)]
      /\ Top.dirs \in Seq(Waiting) /\ Tail(Top.dirs) \in Seq(Waiting) /\ d \in Waiting
  BY <1>1, <1>3, TopParts DEF Top
<1>5. cur_dir \in Seq(Names) /\ d.name \in Names
  BY <1>3, <1>4 DEF Types, Waiting
<1>6. Here(d.name) \in Seq(Names) /\ to \in Seq(Names)
  BY <1>5, PathAppend DEF Here
<1>7. ASSUME NEW a \in Paths, IsPrefix(a, Here(d.name)), a # Here(d.name)
      PROVE  IsPrefix(a, cur_dir)
  BY <1>5, <1>7, PathSeq, PrefixAppend DEF Here
<1>8. \A a \in Paths : IsPrefix(a, cur_dir) => local[a].type = "dir"
  BY <1>1, <1>3 DEF Open
<1>9. /\ local' \in Trees /\ WellFormed(local')
      /\ \A a \in Paths : local[a] # None => local'[a].type = local[a].type
  BY DescendTree
<1>10. \A a \in Paths : IsPrefix(a, cur_dir) => local'[a].type = "dir"
  <2>1. \A a \in Paths : local[a].type = "dir" => local[a] # None
    BY NoneType
  <2> QED
    BY <1>8, <1>9, <2>1
<1>11. caller \in Call /\ caller.l = Top.l /\ caller.r = Top.r /\ caller.sub # << >>
  <2> HIDE DEF d
  <2>1. <<d>> \in Seq(Waiting) /\ <<d>> # << >>
    BY <1>4
  <2> QED
    BY <1>4, <2>1 DEF Call
<1>12. callee \in Call
  <2>1. remote \in Trees
    BY <1>3 DEF Types
  <2>2. Listing(local', to) \in Listings /\ Listing(remote, to) \in Listings
    BY <1>9, <2>1, ListingType
  <2> QED
    BY <1>6, <2>2 DEF Call
<1>13. callee.sub = << >> /\ callee.l = Listing(local', to) /\ callee.r = Listing(remote, to)
  OBVIOUS
<1> HIDE DEF caller, callee
<1>14. /\ calls \in Seq(Call) /\ Len(calls) = Len(stack) /\ calls[Len(stack)] = caller
       /\ \A i \in 1 .. Len(stack) : i # Len(stack) => calls[i] = stack[i]
  BY <1>3, <1>4, <1>11 DEF Types
<1> HIDE DEF calls
<1>15. ASSUME NEW i \in 1 .. Len(stack)
       PROVE  calls[i].sub # << >> /\ DOMAIN calls[i].l = {} /\ DOMAIN calls[i].r = {}
  <2>1. CASE i = Len(stack)
    BY <1>1, <1>11, <1>14, <2>1
  <2>2. CASE i # Len(stack)
    BY <1>3, <1>14, <2>2 DEF Waits
  <2> QED
    BY <2>1, <2>2
<1>16. DeletesBounded' /\ WellFormed(remote)'
  BY <1>1, <1>3 DEF DeletesBounded, MaxDelete, WellFormed
<1>17. ASSUME stack' \in Seq(Call)
       PROVE  Types'
  BY <1>1, <1>3, <1>6, <1>9, <1>17 DEF Types
<1>18. CASE IsDir(local', to) /\ stack' = Append(calls, callee)
  <2>1. /\ stack' \in Seq(Call) /\ stack' # << >> /\ Len(stack') = Len(stack) + 1
        /\ stack'[Len(stack) + 1] = callee
        /\ \A i \in 1 .. Len(stack) : stack'[i] = calls[i]
    BY <1>4, <1>12, <1>14, <1>18
  <2>2. Top' = callee
    BY <2>1 DEF Top
  <2>3. Waits'
    <3> SUFFICES ASSUME NEW i \in 1 .. Len(stack) + 1
                 PROVE  /\ i < Len(stack) + 1 => stack'[i].sub # << >>
                        /\ stack'[i].sub # << >> => DOMAIN stack'[i].l = {} /\ DOMAIN stack'[i].r = {}
      BY <2>1 DEF Waits
    <3>1. CASE i = Len(stack) + 1
      BY <1>13, <2>1, <3>1
    <3>2. CASE i # Len(stack) + 1
      <4>1. i \in 1 .. Len(stack)
        BY <1>4, <3>2
      <4> QED
        BY <1>15, <2>1, <4>1
    <3> QED
      BY <3>1, <3>2
  <2>4. Open'
    <3> SUFFICES ASSUME NEW a \in Paths, IsPrefix(a, to)
                 PROVE  local'[a].type = "dir"
      BY <1>1 DEF Open
    <3>1. CASE a = to
      <4>1. to # << >>
        BY <3>1, PathSeq
      <4> QED
        BY <1>18, <3>1, <4>1 DEF IsDir
    <3>2. CASE a # to
      BY <1>7, <1>10, <3>2
    <3> QED
      BY <3>1, <3>2
  <2>5. Fresh'
    <3> SUFFICES ASSUME NEW n \in Names
                 PROVE  Agree(local', remote', Top'.l, Top'.r, n, Here(n)')
      BY DEF Fresh
    <3>1. Here(n)' = Append(to, n) /\ remote' = remote /\ remote \in Trees
      BY <1>1, <1>3 DEF Here, Types
    <3>2. Agree(local', remote, Listing(local', to), Listing(remote, to), n, Append(to, n))
      BY <1>9, <3>1, ListingFresh
    <3> QED
      BY <1>13, <2>2, <3>1, <3>2
  <2> QED
    BY <1>9, <1>16, <1>17, <2>1, <2>3, <2>4, <2>5 DEF IInv, TreeInv
<1>19. CASE stack' = calls
  <2>1. stack' # << >> /\ Len(stack') = Len(stack) /\ Top' = caller
    BY <1>4, <1>14, <1>19 DEF Top
  <2>2. Waits'
    BY <1>15, <1>19, <2>1 DEF Waits
  <2>3. Open'
    <3> SUFFICES ASSUME NEW a \in Paths, IsPrefix(a, to), a # to
                 PROVE  local'[a].type = "dir"
      BY <1>1, <1>11, <2>1 DEF Open
    <3>1. IsPrefix(a, cur_dir)
      <4>1. CASE CdFits
        BY <1>7, <4>1
      <4>2. CASE ~CdFits
        BY <4>2
      <4> QED
        BY <4>1, <4>2
    <3> QED
      BY <1>10, <3>1
  <2>4. Fresh'
    BY <1>1, <1>11, <2>1 DEF Fresh, Agree
  <2> QED
    BY <1>9, <1>14, <1>16, <1>17, <1>19, <2>1, <2>2, <2>3, <2>4 DEF IInv, TreeInv
<1> QED
  BY <1>2, <1>18, <1>19

\* A sequence without its last element.
LEMMA FrontEffect ==
  ASSUME NEW S, NEW s \in Seq(S), s # << >>
  PROVE  /\ Len(s) \in Nat \ {0}
         /\ Front(s) \in Seq(S) /\ Len(Front(s)) = Len(s) - 1
         /\ \A i \in 1 .. Len(s) - 1 : Front(s)[i] = s[i]
<1>1. Len(s) \in Nat \ {0} /\ \A i \in 1 .. Len(s) - 1 : s[i] \in S
  OBVIOUS
<1>2. /\ SubSeq(s, 1, Len(s) - 1) \in Seq(S)
      /\ Len(SubSeq(s, 1, Len(s) - 1)) = IF 1 <= Len(s) - 1 THEN (Len(s) - 1) - 1 + 1 ELSE 0
      /\ \A i \in 1 .. (Len(s) - 1) - 1 + 1 : SubSeq(s, 1, Len(s) - 1)[i] = s[1 + i - 1]
  BY <1>1, SubSeqProperties
<1> DEFINE t == SubSeq(s, 1, Len(s) - 1)
<1> HIDE DEF t
<1>3. Front(s) = t
  BY DEF Front, t
<1>4. t \in Seq(S) /\ Len(t) = Len(s) - 1
  <2>1. t \in Seq(S) /\ Len(t) = IF 1 <= Len(s) - 1 THEN (Len(s) - 1) - 1 + 1 ELSE 0
    BY <1>2 DEF t
  <2>2. Len(s) \in Nat /\ Len(s) # 0
    BY <1>1
  <2>3. \A n \in Nat : n # 0 => (IF 1 <= n - 1 THEN (n - 1) - 1 + 1 ELSE 0) = n - 1
    OBVIOUS
  <2> QED
    BY <2>1, <2>2, <2>3
<1>5. ASSUME NEW i \in 1 .. Len(s) - 1
      PROVE  t[i] = s[i]
  <2>1. i \in 1 .. (Len(s) - 1) - 1 + 1 /\ 1 + i - 1 = i
    BY <1>1
  <2> QED
    BY <1>2, <2>1 DEF t
<1> QED
  BY <1>1, <1>3, <1>4, <1>5

\* On the way up from a directory lie only directories above it.
LEMMA UpPrefix ==
  ASSUME NEW d \in Seq(Names), NEW up, up = IF d = << >> THEN << >> ELSE Front(d)
  PROVE  up \in Seq(Names) /\ \A a \in Paths : IsPrefix(a, up) => IsPrefix(a, d) /\ a # d
<1>1. CASE d = << >>
  <2>1. up = << >> /\ up \in Seq(Names) /\ Len(up) = 0
    BY <1>1
  <2>2. ASSUME NEW a \in Paths, IsPrefix(a, up) PROVE FALSE
    <3>1. a \in Seq(Names) /\ Len(a) \in 1 .. Depth
      BY PathSeq
    <3>2. Len(a) <= 0
      BY <2>1, <2>2, <3>1, PrefixElements
    <3> QED
      BY <3>1, <3>2
  <2> QED
    BY <2>1, <2>2
<1>2. CASE d # << >>
  <2>1. /\ up \in Seq(Names) /\ Len(d) \in Nat \ {0} /\ Len(up) = Len(d) - 1
        /\ \A i \in 1 .. Len(d) - 1 : up[i] = d[i]
    BY <1>2, FrontEffect
  <2>2. ASSUME NEW a \in Paths, IsPrefix(a, up) PROVE IsPrefix(a, d) /\ a # d
    <3>1. a \in Seq(Names)
      BY PathSeq
    <3>2. Len(a) <= Len(up) /\ Len(a) \in Nat /\ \A i \in 1 .. Len(a) : a[i] = up[i]
      BY <2>1, <2>2, <3>1, PrefixElements
    <3>3. Len(a) <= Len(d) /\ Len(a) # Len(d) /\ \A i \in 1 .. Len(a) : a[i] = d[i]
      BY <2>1, <3>2
    <3> QED
      BY <3>1, <3>3, PrefixElements
  <2> QED
    BY <2>1, <2>2
<1> QED
  BY <1>1, <1>2

(* What StepUp does to the tree: the attributes of one path change.        *)
LEMMA StepUpTree ==
  ASSUME IInv, StepUp
  PROVE  /\ local' \in Trees /\ WellFormed(local') /\ cur_dir' \in Seq(Names)
         /\ \A a \in Paths : IsPrefix(a, cur_dir') => local[a].type = "dir"
         /\ \A a \in Paths : a # Append(cur_dir', Top.sub[1].name) => local'[a] = local[a]
         /\ \A a \in Paths : local[a] # None => local'[a].type = local[a].type /\ local'[a] # None
<1>1. /\ pc = "sync" /\ stack # << >> /\ Top.sub # << >>
      /\ cur_dir' = IF cur_dir = << >> THEN << >> ELSE Front(cur_dir)
      /\ local' = DirAttributes(Append(cur_dir', Top.sub[1].name), Top.sub[1])
  BY DEF StepUp
<1>2. Types /\ WellFormed(local) /\ Open
  BY <1>1 DEF IInv, TreeInv
<1>3. Top.sub[1] \in Waiting /\ Top.sub[1].name \in Names
  <2>1. Top.sub \in Seq(Waiting)
    BY <1>1, <1>2, TopParts
  <2>2. Len(Top.sub) \in Nat \ {0}
    BY <1>1, <2>1
  <2>3. Top.sub[1] \in Waiting
    BY <2>1, <2>2
  <2> QED
    BY <2>3 DEF Waiting
<1>4. cur_dir' \in Seq(Names) /\ \A a \in Paths : IsPrefix(a, cur_dir') => IsPrefix(a, cur_dir) /\ a # cur_dir
  BY <1>1, <1>2, UpPrefix DEF Types
<1>5. \A a \in Paths : IsPrefix(a, cur_dir') => local[a].type = "dir"
  BY <1>2, <1>4 DEF Open
<1> DEFINE p == Append(cur_dir', Top.sub[1].name)
<1>6. \A a \in Paths : IsPrefix(a, p) /\ a # p => local[a].type = "dir"
  BY <1>3, <1>4, <1>5, PathSeq, PrefixAppend
<1>7. Made(p, local')
  BY <1>1, <1>2, <1>3, DirAttributesEffect
<1> HIDE DEF p
<1>8. /\ local' \in Trees /\ WellFormed(local')
      /\ \A a \in Paths : a # p => local'[a] = local[a]
      /\ \A a \in Paths : local[a] # None => local'[a].type = local[a].type /\ local'[a] # None
  BY <1>2, <1>6, <1>7, MadeEffect
<1> QED
  BY <1>4, <1>5, <1>8 DEF p

LEMMA StepUpInv == IInv /\ StepUp => IInv'
<1> SUFFICES ASSUME IInv, StepUp PROVE IInv'
  OBVIOUS
<1>1. /\ pc = "sync" /\ stack # << >> /\ Top.sub # << >>
      /\ UNCHANGED <<remote, deletes, pc, param>>
      /\ GoOn([Top EXCEPT !.sub = << >>])
  BY DEF StepUp
<1>2. Types /\ WellFormed(remote) /\ DeletesBounded /\ Waits
  BY <1>1 DEF IInv, TreeInv
<1>3. /\ local' \in Trees /\ WellFormed(local') /\ cur_dir' \in Seq(Names)
      /\ \A a \in Paths : IsPrefix(a, cur_dir') => local[a].type = "dir"
      /\ \A a \in Paths : local[a] # None => local'[a].type = local[a].type
  BY StepUpTree
<1> DEFINE f == [Top EXCEPT !.sub = << >>]
<1>4. Top \in Call /\ Len(stack) \in Nat \ {0} /\ Top = stack[Len(stack)]
  BY <1>1, <1>2, TopParts DEF Top
<1>5. f \in Call /\ f.l = Top.l /\ f.r = Top.r /\ f.sub = << >>
  <2>1. << >> \in Seq(Waiting)
    OBVIOUS
  <2> QED
    BY <1>4, <2>1 DEF Call
<1>6. DOMAIN Top.l = {} /\ DOMAIN Top.r = {}
  BY <1>1, <1>2, <1>4 DEF Waits
<1> HIDE DEF f
<1>7. /\ stack' \in Seq(Call) /\ stack' # << >> /\ Len(stack') = Len(stack) /\ Top' = f
      /\ \A i \in 1 .. Len(stack) : i # Len(stack) => stack'[i] = stack[i]
  BY <1>1, <1>2, <1>5, GoOnEffect DEF f
<1>8. Top' = stack'[Len(stack)]
  BY <1>7 DEF Top
<1>9. Types'
  BY <1>1, <1>2, <1>3, <1>7 DEF Types
<1>10. DeletesBounded' /\ WellFormed(remote)'
  BY <1>1, <1>2 DEF DeletesBounded, MaxDelete, WellFormed
<1>11. Waits'
  <2> SUFFICES ASSUME NEW i \in 1 .. Len(stack)
               PROVE  /\ i < Len(stack) => stack'[i].sub # << >>
                      /\ stack'[i].sub # << >> => DOMAIN stack'[i].l = {} /\ DOMAIN stack'[i].r = {}
    BY <1>7 DEF Waits
  <2>1. CASE i = Len(stack)
    BY <1>4, <1>5, <1>7, <1>8, <2>1
  <2>2. CASE i # Len(stack)
    BY <1>2, <1>7, <2>2 DEF Waits
  <2> QED
    BY <2>1, <2>2
<1>12. Open'
  <2>1. \A a \in Paths : local[a].type = "dir" => local[a] # None
    BY NoneType
  <2>2. \A a \in Paths : IsPrefix(a, cur_dir') => local'[a].type = "dir"
    BY <1>3, <2>1
  <2> QED
    BY <2>2 DEF Open
<1>13. Fresh'
  BY <1>5, <1>6, <1>7 DEF Fresh, Agree
<1> QED
  BY <1>3, <1>7, <1>9, <1>10, <1>11, <1>12, <1>13 DEF IInv, TreeInv

LEMMA ReturnInv == IInv /\ Return => IInv'
<1> SUFFICES ASSUME IInv, Return PROVE IInv'
  OBVIOUS
<1>1. /\ pc = "sync" /\ stack # << >> /\ stack' = Front(stack)
      /\ pc' = IF Len(stack) = 1 THEN "done" ELSE pc
      /\ UNCHANGED <<local, remote, cur_dir, deletes, param>>
      /\ Top.sub = << >>
  BY DEF Return, Descending
<1>2. Types /\ WellFormed(local) /\ WellFormed(remote) /\ DeletesBounded /\ Waits /\ Open
  BY <1>1 DEF IInv, TreeInv
<1>3. Len(stack) \in Nat \ {0} /\ stack \in Seq(Call)
  BY <1>1, <1>2, TopParts DEF Types
<1>4. /\ stack' \in Seq(Call) /\ Len(stack') = Len(stack) - 1
      /\ \A i \in 1 .. Len(stack) - 1 : stack'[i] = stack[i]
  BY <1>1, <1>3, FrontEffect
<1>5. Types'
  BY <1>1, <1>2, <1>4 DEF Types
<1>6. DeletesBounded' /\ WellFormed(local)' /\ WellFormed(remote)'
  BY <1>1, <1>2 DEF DeletesBounded, MaxDelete, WellFormed
<1>7. ASSUME pc' = "sync"
      PROVE  stack' # << >> /\ Waits' /\ Open' /\ Fresh'
  <2>1. Len(stack) - 1 \in 1 .. Len(stack) - 1
    <3>1. Len(stack) # 1
      BY <1>1, <1>7
    <3>2. Len(stack) \in Nat \ {0}
      BY <1>3
    <3> QED
      BY <3>1, <3>2
  <2>2. stack' # << >> /\ Top' = stack[Len(stack) - 1]
    BY <1>4, <2>1 DEF Top
  <2>3. Waits'
    BY <1>2, <1>3, <1>4 DEF Waits
  <2>4. Top'.sub # << >> /\ DOMAIN Top'.l = {} /\ DOMAIN Top'.r = {}
    BY <1>2, <1>3, <2>1, <2>2 DEF Waits
  <2>5. Open'
    BY <1>1, <1>2, <2>4 DEF Open
  <2>6. Fresh'
    BY <2>4 DEF Fresh, Agree
  <2> QED
    BY <2>2, <2>3, <2>5, <2>6
<1> QED
  BY <1>5, <1>6, <1>7 DEF IInv, TreeInv

LEMMA QuitInv == IInv /\ Quit => IInv'
<1> SUFFICES ASSUME IInv, Quit PROVE IInv'
  OBVIOUS
<1>1. pc' = "exit" /\ UNCHANGED <<local, remote, cur_dir, stack, deletes, param>>
  BY DEF Quit
<1>2. Types'
  BY <1>1 DEF IInv, Types
<1>3. DeletesBounded' /\ WellFormed(local)' /\ WellFormed(remote)'
  BY <1>1 DEF IInv, TreeInv, DeletesBounded, MaxDelete, WellFormed
<1> QED
  BY <1>1, <1>2, <1>3 DEF IInv, TreeInv

LEMMA StutterInv == IInv /\ UNCHANGED vars => IInv'
<1> SUFFICES ASSUME IInv, UNCHANGED vars PROVE IInv'
  OBVIOUS
<1>1. /\ local' = local /\ remote' = remote /\ cur_dir' = cur_dir /\ stack' = stack
      /\ deletes' = deletes /\ pc' = pc /\ param' = param
  BY DEF vars
<1>2. Types'
  BY <1>1 DEF IInv, Types
<1>3. DeletesBounded' /\ WellFormed(local)' /\ WellFormed(remote)'
  BY <1>1 DEF IInv, TreeInv, DeletesBounded, MaxDelete, WellFormed
<1>4. pc = "sync" => stack # << >> /\ Waits /\ Open /\ Fresh
  BY DEF IInv, TreeInv
<1>5. pc' = "sync" => stack' # << >> /\ Waits' /\ Open' /\ Fresh'
  BY <1>1, <1>4 DEF Waits, Open, Fresh, Agree, Top, Here
<1> QED
  BY <1>2, <1>3, <1>5 DEF IInv, TreeInv

LEMMA Invariance == Spec => []IInv
<1>1. Init => IInv
  BY InitIInv
<1>2. IInv /\ [Next]_vars => IInv'
  BY MergeInv, LeaveDirOutInv, DescendInv, StepUpInv, ReturnInv, QuitInv, StutterInv DEF Next, Ended
<1> QED
  BY <1>1, <1>2, PTL DEF Spec

-----------------------------------------------------------------------------
(* What the invariant says of the merge                                    *)

\* Only merging a name can remove anything.
LEMMA OthersKeep ==
  ASSUME IInv, [Next]_vars, ~Merge
  PROVE  \A p \in Paths : local[p] # None => local'[p].type = local[p].type /\ local'[p] # None
<1>1. CASE Descend
  BY <1>1, DescendTree
<1>2. CASE StepUp
  BY <1>2, StepUpTree
<1>3. CASE UNCHANGED local
  BY <1>3
<1> QED
  BY <1>1, <1>2, <1>3 DEF Next, LeaveDirOut, Return, Quit, Ended, vars

(* rm_f never removes more files than maxdelete allows, counting the       *)
(* temporary files of failed downloads, for trees of any size and however  *)
(* the removals are spread over types that differ, links and directories.  *)
THEOREM DeletesWithinLimit == Spec => []DeletesBounded
<1>1. IInv => DeletesBounded
  BY DEF IInv
<1> QED
  BY <1>1, Invariance, PTL

(* Without dodelete no step of sp_sync_dir removes a local file, link or   *)
(* directory, as long as nothing fails.                                    *)
THEOREM DeletesNothing == Spec => NothingDeleted
<1>1. IInv /\ [Next]_vars =>
        [~DoDelete /\ ~Faults => \A p \in Paths : local[p] # None => local'[p] # None]_vars
  <2> SUFFICES ASSUME IInv, [Next]_vars, ~DoDelete, ~Faults
               PROVE  \A p \in Paths : local[p] # None => local'[p] # None
    OBVIOUS
  <2>1. CASE Merge
    BY <2>1, MergeTree
  <2>2. CASE ~Merge
    BY <2>2, OthersKeep
  <2> QED
    BY <2>1, <2>2
<1> QED
  BY <1>1, Invariance, PTL DEF Spec, NothingDeleted

(* A directory that the server has too, and a file or link that is as the  *)
(* server has it, is never removed by spf_rm or sp_get_file, whatever      *)
(* fails, also when a path is too long for cur_dir_cd and the directories  *)
(* get mixed up.                                                           *)
THEOREM KeepsWanted == Spec => WantedKept
<1>1. IInv /\ [Next]_vars =>
        [\A p \in Paths :
           /\ Wanted(p)
           /\ local[p].type = "dir" \/ (local[p].type # "none" /\ local[p].sig = remote[p].sig)
           => local'[p].type = local[p].type]_vars
  <2> SUFFICES ASSUME IInv, [Next]_vars, NEW p \in Paths, Wanted(p),
                      local[p].type = "dir" \/ (local[p].type # "none" /\ local[p].sig = remote[p].sig)
               PROVE  local'[p].type = local[p].type
    OBVIOUS
  <2>1. local[p] # None /\ local[p].type \in {"file", "link", "dir"}
    BY NoneType DEF IInv, Types, Trees
  <2>2. CASE ~Merge
    BY <2>1, <2>2, OthersKeep
  <2>3. CASE Merge
    <3> DEFINE q == Here(Least)
    <3>1. /\ q \in Paths
          /\ local'[p].type = local[p].type \/ (Unwanted(q) /\ IsPrefix(q, p))
      BY <2>3, MergeTree
    <3> HIDE DEF q
    <3>2. ASSUME Unwanted(q), IsPrefix(q, p)
          PROVE  FALSE
      <4>1. /\ p \in Seq(Names) /\ q \in Seq(Names) /\ Len(q) \in 1 .. Depth /\ Len(p) \in Nat
            /\ Len(q) <= Len(p) /\ SubSeq(q, 1, Len(q)) = SubSeq(p, 1, Len(q))
        BY <3>1, <3>2, PathSeq DEF IsPrefix
      <4>2. SubSeq(p, 1, Len(q)) = q /\ Len(q) \in 1 .. Len(p)
        BY <4>1, SubSeqFull
      <4>3. local[q].type = remote[q].type
        BY <4>2 DEF Wanted
      <4>4. local[q].type \in {"file", "link"} /\ local[q].sig # remote[q].sig
        BY <3>2, <4>3 DEF Unwanted
      <4>5. q # p
        BY <4>4
      <4>6. local[q].type = "dir"
        BY <2>1, <3>1, <3>2, <4>5 DEF IInv, TreeInv, WellFormed
      <4> QED
        BY <4>4, <4>6
    <3> QED
      BY <3>1, <3>2
  <2> QED
    BY <2>2, <2>3
<1> QED
  BY <1>1, Invariance, PTL DEF Spec, WantedKept

-----------------------------------------------------------------------------
(* Where the calls are, when all names fit                                 *)

\* Up is where one came from.
LEMMA FrontAppend ==
  ASSUME NEW d \in Seq(Names), NEW n \in Names
  PROVE  Append(d, n) # << >> /\ Front(Append(d, n)) = d
<1> DEFINE p == Append(d, n)
<1>1. /\ p \in Seq(Names) /\ p # << >> /\ Len(p) = Len(d) + 1 /\ Len(d) \in Nat
      /\ \A i \in 1 .. Len(d) : p[i] = d[i]
  OBVIOUS
<1> HIDE DEF p
<1>2. /\ Front(p) \in Seq(Names) /\ Len(Front(p)) = Len(p) - 1
      /\ \A i \in 1 .. Len(p) - 1 : Front(p)[i] = p[i]
  BY <1>1, FrontEffect
<1>3. Len(Front(p)) = Len(d) /\ \A i \in 1 .. Len(d) : Front(p)[i] = d[i]
  BY <1>1, <1>2
<1>4. Front(p) = d
  BY <1>2, <1>3, SeqEqual
<1> QED
  BY <1>1, <1>4 DEF p

\* The invariant for the innermost call.
LEMMA TopInPlace ==
  ASSUME IInv, PlaceInv, pc = "sync"
  PROVE  /\ stack # << >> /\ Len(stack) \in Nat \ {0} /\ Top = stack[Len(stack)]
         /\ Top \in Call /\ Len(Top.at) = Len(stack) - 1
         /\ Top.dirs # << >> \/ Top.sub # << >> => Len(Top.at) < Depth
         /\ Top.sub # << >> => Append(Top.at, Top.sub[1].name) \notin Skip
         /\ cur_dir = IF Top.sub = << >> THEN Top.at ELSE Append(Top.at, Top.sub[1].name)
<1>1. Types /\ stack # << >> /\ InItsDirectory
  BY DEF IInv, TreeInv, PlaceInv
<1>2. Len(stack) \in Nat \ {0} /\ Top \in Call /\ Top = stack[Len(stack)]
  BY <1>1, TopParts DEF Top
<1>3. CallInPlace(Len(stack))
  BY <1>2 DEF PlaceInv
<1> QED
  BY <1>1, <1>2, <1>3 DEF CallInPlace, InItsDirectory

LEMMA InitPlace == Init => PlaceInv
<1> SUFFICES ASSUME Init PROVE PlaceInv
  OBVIOUS
<1> SUFFICES ASSUME pc = "sync" PROVE PlaceInv
  BY DEF PlaceInv
<1>1. Len(stack) = 1 /\ stack[1] = Frame(<< >>) /\ Top = Frame(<< >>) /\ cur_dir = << >>
  BY DEF Init, Top
<1>2. /\ Frame(<< >>).at = << >> /\ Frame(<< >>).dirs = << >> /\ Frame(<< >>).sub = << >>
  BY DEF Frame
<1> QED
  BY <1>1, <1>2 DEF PlaceInv, CallInPlace, InItsDirectory

(* A step that only goes on with the innermost call, in the same place,    *)
(* keeps all calls in place.                                               *)
LEMMA SamePlace ==
  ASSUME IInv, PlaceInv, pc = "sync", Len(stack') = Len(stack), Top'.at = Top.at,
         \A i \in 1 .. Len(stack) : i # Len(stack) => stack'[i] = stack[i],
         Top'.dirs # << >> \/ Top'.sub # << >> => Len(Top.at) < Depth,
         Top'.sub # << >> => Append(Top.at, Top'.sub[1].name) \notin Skip,
         cur_dir' = IF Top'.sub = << >> THEN Top.at ELSE Append(Top.at, Top'.sub[1].name)
  PROVE  PlaceInv'
<1>1. Len(stack) \in Nat \ {0} /\ Top = stack[Len(stack)] /\ Len(Top.at) = Len(stack) - 1
  BY TopInPlace
<1>2. Top' = stack'[Len(stack)]
  BY DEF Top
<1>3. \A i \in 1 .. Len(stack) : stack'[i].at = stack[i].at
  BY <1>1, <1>2
<1>4. ASSUME NEW i \in 1 .. Len(stack)
      PROVE  /\ Len(stack'[i].at) = i - 1
             /\ stack'[i].dirs # << >> \/ stack'[i].sub # << >> => Len(stack'[i].at) < Depth
             /\ stack'[i].sub # << >> => Append(stack'[i].at, stack'[i].sub[1].name) \notin Skip
             /\ i < Len(stack) => stack'[i + 1].at = Append(stack'[i].at, stack'[i].sub[1].name)
  <2>1. CASE i = Len(stack)
    BY <1>1, <1>2, <2>1
  <2>2. CASE i # Len(stack)
    <3>1. stack'[i] = stack[i] /\ i + 1 \in 1 .. Len(stack)
      BY <1>1, <2>2
    <3>2. stack'[i + 1].at = stack[i + 1].at
      BY <1>3, <3>1
    <3>3. CallInPlace(i)
      BY DEF PlaceInv
    <3> QED
      BY <3>1, <3>2, <3>3 DEF CallInPlace
  <2> QED
    BY <2>1, <2>2
<1>5. \A i \in 1 .. Len(stack') : CallInPlace(i)'
  BY <1>4 DEF CallInPlace
<1>6. InItsDirectory'
  BY DEF InItsDirectory
<1> QED
  BY <1>5, <1>6 DEF PlaceInv

LEMMA MergePlace == IInv /\ PlaceInv /\ Merge => PlaceInv'
<1> SUFFICES ASSUME IInv, PlaceInv, Merge, pc' = "sync" PROVE PlaceInv'
  BY DEF PlaceInv
<1>1. Merging /\ Merged /\ cur_dir' = cur_dir
  BY MergeEffect
<1>2. Types /\ Waits /\ pc = "sync" /\ stack # << >>
  BY <1>1 DEF IInv, TreeInv, Merging
<1>3. PICK dirs \in Seq(Waiting) : Advance(dirs)
  BY <1>1 DEF Merged
<1>4. /\ Len(stack') = Len(stack)
      /\ Top' = [Top EXCEPT !.l = Less(Top.l, Least), !.r = Less(Top.r, Least), !.dirs = dirs]
      /\ \A i \in 1 .. Len(stack) : i # Len(stack) => stack'[i] = stack[i]
  BY <1>1, <1>2, <1>3, AdvanceEffect
<1>5. /\ Len(stack) \in Nat \ {0} /\ Top = stack[Len(stack)] /\ Top \in Call
      /\ cur_dir = IF Top.sub = << >> THEN Top.at ELSE Append(Top.at, Top.sub[1].name)
  BY <1>2, TopInPlace
<1>6. Top'.at = Top.at /\ Top'.sub = Top.sub
  BY <1>4, <1>5 DEF Call
<1>7. Top.sub = << >>
  BY <1>1, <1>2, <1>5 DEF Waits, Merging
<1>8. Len(Top.at) < Depth
  <2>1. Here(Least) \in Paths /\ Least \in Names /\ cur_dir \in Seq(Names)
    BY <1>1, <1>2, LeastPlace, LeastIn DEF Types
  <2> QED
    BY <1>5, <1>7, <2>1, PathAppend DEF Here
<1> QED
  BY <1>1, <1>2, <1>4, <1>5, <1>6, <1>7, <1>8, SamePlace

LEMMA LeaveDirOutPlace == IInv /\ PlaceInv /\ LeaveDirOut => PlaceInv'
<1> SUFFICES ASSUME IInv, PlaceInv, LeaveDirOut PROVE PlaceInv'
  OBVIOUS
<1>1. /\ stack # << >> /\ pc = "sync" /\ Top.sub = << >> /\ Top.dirs # << >> /\ cur_dir' = cur_dir
      /\ GoOn([Top EXCEPT !.dirs = Tail(@)])
  BY DEF LeaveDirOut, Descending
<1>2. /\ Top \in Call /\ Len(Top.at) < Depth /\ cur_dir = Top.at
  BY <1>1, TopInPlace
<1> DEFINE f == [Top EXCEPT !.dirs = Tail(@)]
<1>3. Types /\ Tail(Top.dirs) \in Seq(Waiting)
  BY <1>1, TopParts DEF IInv
<1>4. f \in Call /\ f.at = Top.at /\ f.sub = Top.sub
  BY <1>2, <1>3 DEF Call
<1> HIDE DEF f
<1>5. /\ Len(stack') = Len(stack) /\ Top' = f
      /\ \A i \in 1 .. Len(stack) : i # Len(stack) => stack'[i] = stack[i]
  BY <1>1, <1>3, <1>4, GoOnEffect DEF f
<1> QED
  BY <1>1, <1>2, <1>4, <1>5, SamePlace

LEMMA StepUpPlace == IInv /\ PlaceInv /\ StepUp => PlaceInv'
<1> SUFFICES ASSUME IInv, PlaceInv, StepUp PROVE PlaceInv'
  OBVIOUS
<1>1. /\ stack # << >> /\ pc = "sync" /\ Top.sub # << >>
      /\ cur_dir' = IF cur_dir = << >> THEN << >> ELSE Front(cur_dir)
      /\ GoOn([Top EXCEPT !.sub = << >>])
  BY DEF StepUp
<1>2. /\ Top \in Call /\ Len(Top.at) < Depth /\ cur_dir = Append(Top.at, Top.sub[1].name)
  BY <1>1, TopInPlace
<1>3. Types /\ Top.at \in Seq(Names) /\ Top.sub \in Seq(Waiting)
  BY <1>1, TopParts DEF IInv
<1>4. Top.sub[1].name \in Names
  <2>1. Len(Top.sub) \in Nat \ {0}
    BY <1>1, <1>3
  <2>2. Top.sub[1] \in Waiting
    BY <1>3, <2>1
  <2> QED
    BY <2>2 DEF Waiting
<1>5. cur_dir' = Top.at
  BY <1>1, <1>2, <1>3, <1>4, FrontAppend
<1> DEFINE f == [Top EXCEPT !.sub = << >>]
<1>6. f \in Call /\ f.at = Top.at /\ f.sub = << >>
  <2>1. << >> \in Seq(Waiting)
    OBVIOUS
  <2> QED
    BY <1>2, <2>1 DEF Call
<1> HIDE DEF f
<1>7. /\ Len(stack') = Len(stack) /\ Top' = f
      /\ \A i \in 1 .. Len(stack) : i # Len(stack) => stack'[i] = stack[i]
  BY <1>1, <1>3, <1>6, GoOnEffect DEF f
<1> QED
  BY <1>1, <1>2, <1>5, <1>6, <1>7, SamePlace

LEMMA DescendPlace ==
  ASSUME Fits
  PROVE  IInv /\ PlaceInv /\ Descend => PlaceInv'
<1> SUFFICES ASSUME IInv, PlaceInv, Descend PROVE PlaceInv'
  OBVIOUS
<1> DEFINE d  == Head(Top.dirs)
           to == IF CdFits THEN Here(d.name) ELSE cur_dir
           caller == [Top EXCEPT !.dirs = Tail(@), !.sub = <<d>>]
           calls  == [stack EXCEPT ![Len(stack)] = caller]
           callee == [at |-> Here(d.name), l |-> Listing(local', to), r |-> Listing(remote, to),
                      dirs |-> << >>, sub |-> << >>]
<1>1. /\ pc = "sync" /\ stack # << >> /\ Top.sub = << >> /\ Top.dirs # << >>
      /\ Here(d.name) \notin Skip /\ cur_dir' = to
  BY DEF Descend, Descending
<1>2. stack' = Append(calls, callee) \/ stack' = calls
  BY DEF Descend
<1>3. /\ Top \in Call /\ Len(stack) \in Nat \ {0} /\ Top = stack[Len(stack)]
      /\ Len(Top.at) = Len(stack) - 1 /\ Len(Top.at) < Depth /\ cur_dir = Top.at
  BY <1>1, TopInPlace
<1>4. /\ Types /\ Top.dirs \in Seq(Waiting) /\ Top.at \in Seq(Names)
      /\ Tail(Top.dirs) \in Seq(Waiting) /\ d \in Waiting
  BY <1>1, TopParts DEF IInv
<1>5. Here(d.name) = Append(Top.at, d.name)
  BY <1>3 DEF Here
<1>6. CdFits
  BY <1>3, <1>4, ParamsAssumption DEF Fits, CdFits, CurLen
<1>7. to = Append(Top.at, d.name) /\ d.name \in Names
  <2>1. d.name \in Names
    BY <1>4 DEF Waiting
  <2> QED
    BY <1>5, <1>6, <2>1
<1>8. Len(Append(Top.at, d.name)) = Len(stack)
  BY <1>3, <1>4, <1>7, PathAppend
<1>9. /\ caller \in Call /\ caller.at = Top.at
      /\ caller.sub # << >> /\ caller.sub[1] = d
  <2> HIDE DEF d
  <2>1. <<d>> \in Seq(Waiting) /\ <<d>> # << >> /\ <<d>>[1] = d
    BY <1>4
  <2> QED
    BY <1>3, <1>4, <2>1 DEF Call
<1>10. callee.at = Append(Top.at, d.name) /\ callee.dirs = << >> /\ callee.sub = << >>
  BY <1>5
<1> HIDE DEF caller, callee
<1>11. /\ calls \in Seq(Call) /\ Len(calls) = Len(stack) /\ calls[Len(stack)] = caller
       /\ \A i \in 1 .. Len(stack) : i # Len(stack) => calls[i] = stack[i]
  BY <1>3, <1>4, <1>9 DEF Types
<1> HIDE DEF calls, d, to
<1>12. ASSUME NEW i \in 1 .. Len(stack)
       PROVE  /\ Len(calls[i].at) = i - 1
              /\ Len(calls[i].at) < Depth
              /\ Append(calls[i].at, calls[i].sub[1].name) \notin Skip
              /\ i < Len(stack) => calls[i + 1].at = Append(calls[i].at, calls[i].sub[1].name)
  <2>1. CASE i = Len(stack)
    BY <1>1, <1>3, <1>5, <1>9, <1>11, <2>1
  <2>2. CASE i # Len(stack)
    <3>1. calls[i] = stack[i] /\ i + 1 \in 1 .. Len(stack) /\ i < Len(stack)
      BY <1>3, <1>11, <2>2
    <3>2. calls[i + 1].at = stack[i + 1].at
      BY <1>3, <1>9, <1>11, <3>1
    <3>3. CallInPlace(i)
      BY <1>1 DEF PlaceInv
    <3>4. stack[i].sub # << >>
      BY <1>1, <3>1 DEF IInv, TreeInv, Waits
    <3> QED
      BY <3>1, <3>2, <3>3, <3>4 DEF CallInPlace
  <2> QED
    BY <2>1, <2>2
<1>13. CASE stack' = Append(calls, callee)
  <2>1. /\ Len(stack') = Len(stack) + 1
        /\ stack'[Len(stack) + 1] = callee
        /\ \A i \in 1 .. Len(stack) : stack'[i] = calls[i]
    BY <1>3, <1>11, <1>13
  <2>2. Top' = callee
    BY <2>1 DEF Top
  <2>3. InItsDirectory'
    BY <1>1, <1>7, <1>10, <2>2 DEF InItsDirectory
  <2>4. ASSUME NEW i \in 1 .. Len(stack) + 1
        PROVE  CallInPlace(i)'
    <3>1. CASE i = Len(stack) + 1
      <4>1. Len(callee.at) = Len(stack)
        BY <1>8, <1>10
      <4> QED
        BY <1>3, <1>10, <2>1, <3>1, <4>1 DEF CallInPlace
    <3>2. CASE i # Len(stack) + 1
      <4>1. i \in 1 .. Len(stack) /\ stack'[i] = calls[i]
        BY <1>3, <2>1, <3>2
      <4>2. stack'[i + 1].at = Append(calls[i].at, calls[i].sub[1].name)
        <5>1. CASE i = Len(stack)
          BY <1>9, <1>10, <1>11, <2>1, <5>1
        <5>2. CASE i # Len(stack)
          <6>1. i < Len(stack) /\ i + 1 \in 1 .. Len(stack)
            BY <1>3, <4>1, <5>2
          <6> QED
            BY <1>12, <2>1, <4>1, <6>1
        <5> QED
          BY <5>1, <5>2
      <4> QED
        BY <1>12, <4>1, <4>2 DEF CallInPlace
    <3> QED
      BY <3>1, <3>2
  <2> QED
    BY <2>1, <2>3, <2>4 DEF PlaceInv
<1>14. CASE stack' = calls
  <2>1. Len(stack') = Len(stack) /\ Top' = caller
    BY <1>11, <1>14 DEF Top
  <2>2. InItsDirectory'
    BY <1>1, <1>7, <1>9, <2>1 DEF InItsDirectory
  <2>3. \A i \in 1 .. Len(stack') : CallInPlace(i)'
    BY <1>12, <1>14, <2>1 DEF CallInPlace
  <2> QED
    BY <2>2, <2>3 DEF PlaceInv
<1> QED
  BY <1>2, <1>13, <1>14

LEMMA ReturnPlace == IInv /\ PlaceInv /\ Return => PlaceInv'
<1> SUFFICES ASSUME IInv, PlaceInv, Return, pc' = "sync" PROVE PlaceInv'
  BY DEF PlaceInv
<1>1. /\ pc = "sync" /\ stack # << >> /\ stack' = Front(stack) /\ Top.sub = << >> /\ cur_dir' = cur_dir
      /\ pc' = IF Len(stack) = 1 THEN "done" ELSE pc
  BY DEF Return, Descending
<1>2. Len(stack) \in Nat \ {0} /\ Top = stack[Len(stack)] /\ cur_dir = Top.at
  BY <1>1, TopInPlace
<1>3. Len(stack) # 1
  BY <1>1
<1>4. /\ Len(stack') = Len(stack) - 1
      /\ \A i \in 1 .. Len(stack) - 1 : stack'[i] = stack[i]
  BY <1>1, FrontEffect DEF IInv, Types
<1> DEFINE k == Len(stack) - 1
<1>5. k \in 1 .. Len(stack) /\ k \in 1 .. k /\ k + 1 = Len(stack) /\ k < Len(stack) /\ k \in Nat
  <2>1. Len(stack) \in Nat /\ Len(stack) # 0
    BY <1>2
  <2>2. \A n \in Nat : n # 0 /\ n # 1 =>
          n - 1 \in 1 .. n /\ n - 1 \in 1 .. n - 1 /\ (n - 1) + 1 = n /\ n - 1 < n /\ n - 1 \in Nat
    OBVIOUS
  <2> QED
    BY <1>3, <2>1, <2>2
<1>6. Top' = stack[k]
  BY <1>4, <1>5 DEF Top
<1>7. stack[k].sub # << >> /\ stack[k + 1].at = Append(stack[k].at, stack[k].sub[1].name)
  BY <1>1, <1>5 DEF PlaceInv, CallInPlace, IInv, TreeInv, Waits
<1>8. InItsDirectory'
  BY <1>1, <1>2, <1>5, <1>6, <1>7 DEF InItsDirectory
<1>9. ASSUME NEW i \in 1 .. k
      PROVE  CallInPlace(i)'
  <2>1. i \in 1 .. Len(stack) /\ (i < k => i + 1 \in 1 .. k) /\ i < Len(stack)
    BY <1>5
  <2>2. CallInPlace(i)
    BY <1>1, <2>1 DEF PlaceInv
  <2> QED
    BY <1>4, <2>1, <2>2 DEF CallInPlace
<1> QED
  BY <1>4, <1>8, <1>9 DEF PlaceInv

\* With names that fit, every call stays in its place.
LEMMA PlaceInvariance ==
  ASSUME Fits
  PROVE  Spec => [](IInv /\ PlaceInv)
<1>1. Init => IInv /\ PlaceInv
  BY InitIInv, InitPlace
<1>2. IInv /\ PlaceInv /\ [Next]_vars => PlaceInv'
  <2> SUFFICES ASSUME IInv, PlaceInv, [Next]_vars PROVE PlaceInv'
    OBVIOUS
  <2>1. CASE Quit
    BY <2>1 DEF Quit, PlaceInv
  <2>2. CASE UNCHANGED vars
    BY <2>2 DEF vars, PlaceInv, CallInPlace, InItsDirectory, Top
  <2> QED
    BY <2>1, <2>2, MergePlace, LeaveDirOutPlace, DescendPlace, StepUpPlace, ReturnPlace DEF Next, Ended
<1> QED
  BY <1>1, <1>2, Invariance, PTL DEF Spec

(* As long as the longest path fits into PATH_MAX, cur_dir_cd and          *)
(* cur_dir_cdup keep cur_dir where the innermost call of sp_sync_dir works,*)
(* for trees of any depth, whatever listings and directories fail.         *)
THEOREM StaysInDirectory ==
  ASSUME Fits
  PROVE  Spec => []InItsDirectory
<1>1. IInv /\ PlaceInv => InItsDirectory
  BY DEF PlaceInv, InItsDirectory
<1> QED
  BY <1>1, PlaceInvariance, PTL

(* Then no step touches a path that matches skip in a directory that the   *)
(* server has: an rm -rf of a directory that it does not have may.         *)
THEOREM KeepsSkipped ==
  ASSUME Fits
  PROVE  Spec => SkippedKept
<1>1. IInv /\ PlaceInv /\ [Next]_vars =>
        [\A p \in Skip : Len(p) = 1 \/ remote[Front(p)].type = "dir" => local'[p] = local[p]]_vars
  <2> SUFFICES ASSUME IInv, PlaceInv, [Next]_vars, NEW p \in Skip, local'[p] # local[p]
               PROVE  Len(p) # 1 /\ remote[Front(p)].type # "dir"
    OBVIOUS
  <2>1. p \in Paths /\ p \in Seq(Names)
    BY TreesAssumption, PathSeq
  <2>2. CASE Descend
    <3>1. Here(Head(Top.dirs).name) \notin Skip
      BY <2>2 DEF Descend
    <3> QED
      BY <2>1, <2>2, <3>1, DescendTree
  <2>3. CASE StepUp
    <3>1. pc = "sync" /\ Top.sub # << >> /\ stack # << >>
          /\ cur_dir' = IF cur_dir = << >> THEN << >> ELSE Front(cur_dir)
      BY <2>3 DEF StepUp
    <3>2. InItsDirectory' /\ pc' = "sync" /\ Top'.at = Top.at /\ Top'.sub = << >> /\ stack' # << >>
      <4>1. PlaceInv' /\ pc' = "sync" /\ GoOn([Top EXCEPT !.sub = << >>])
        BY <2>3, <3>1, StepUpPlace DEF StepUp
      <4>2. Types /\ Top \in Call
        BY <3>1, TopParts DEF IInv
      <4>3. [Top EXCEPT !.sub = << >>] \in Call
        <5>1. << >> \in Seq(Waiting)
          OBVIOUS
        <5> QED
          BY <4>2, <5>1 DEF Call
      <4>4. Top' = [Top EXCEPT !.sub = << >>] /\ stack' # << >>
        BY <3>1, <4>1, <4>2, <4>3, GoOnEffect
      <4> QED
        BY <4>1, <4>2, <4>4 DEF PlaceInv, Call
    <3>3. cur_dir' = Top.at
      BY <3>2 DEF InItsDirectory
    <3>4. Append(Top.at, Top.sub[1].name) \notin Skip
      BY <3>1, TopInPlace
    <3> QED
      BY <2>1, <2>3, <3>3, <3>4, StepUpTree
  <2>4. CASE Merge
    <3> DEFINE q == Here(Least)
    <3>1. /\ q \in Paths \ Skip
          /\ \A a \in Paths : a # q => local'[a] = local[a] \/ (Unwanted(q) /\ local'[a] = None /\ IsPrefix(q, a))
      BY <2>4, MergeTree
    <3> HIDE DEF q
    <3>2. p # q /\ Unwanted(q) /\ local'[p] = None /\ IsPrefix(q, p)
      BY <2>1, <3>1
    <3>3. local[p] # None
      BY <3>2
    <3>4. q \in Seq(Names) /\ Len(q) > 0
      BY <3>1, PathSeq
    <3>5. /\ Front(p) \in Seq(Names) /\ Len(p) > 1 /\ Len(Front(p)) = Len(p) - 1
          /\ IsPrefix(q, Front(p))
      BY <2>1, <3>2, <3>4, PrefixFront
    <3>6. local[q].type = "dir"
      BY <2>1, <3>1, <3>2, <3>3 DEF IInv, TreeInv, WellFormed
    <3>7. remote[q].type # "dir"
      BY <3>2, <3>6 DEF Unwanted
    <3>8. Front(p) \in Paths
      <4>1. Len(p) \in 1 .. Depth
        BY <2>1, PathSeq
      <4>2. Len(Front(p)) \in 1 .. Depth
        BY <3>5, <4>1, ParamsAssumption
      <4> QED
        BY <3>5, <4>2, PathSeq
    <3>9. remote[Front(p)].type # "dir"
      <4> SUFFICES ASSUME remote[Front(p)].type = "dir" PROVE FALSE
        OBVIOUS
      <4>1. q # Front(p) /\ remote[Front(p)] # None
        BY <3>7, NoneType
      <4> QED
        BY <3>1, <3>5, <3>7, <3>8, <4>1 DEF IInv, TreeInv, WellFormed
    <3> QED
      BY <3>2, <3>5, <3>9
  <2>5. CASE UNCHANGED local
    BY <2>5
  <2> QED
    BY <2>2, <2>3, <2>4, <2>5 DEF Next, LeaveDirOut, Return, Quit, Ended, vars
<1> QED
  BY <1>1, PlaceInvariance, PTL DEF Spec, SkippedKept

-----------------------------------------------------------------------------
(* A run in which nothing fails ends with the remote tree, for trees of    *)
(* any names and depth that fit into PATH_MAX, and any skipped paths.      *)

(* These are about a local tree lt and a remote tree rt, del for dodelete. *)

\* the path x is mirrored, or overlooked
Good(lt, rt, del, x) ==
  \/ Overlooked(rt, x)
  \/ del \/ (rt[x].type = "file" /\ lt[x].type = "file") => lt[x] = rt[x]

\* all that is at and below the path p is mirrored, or skipped
Done(lt, rt, del, p) == \A x \in Unskipped : IsPrefix(p, x) => Good(lt, rt, del, x)

DoneBelow(lt, rt, del, p) ==
  \A x \in Unskipped : IsPrefix(p, x) /\ x # p => Good(lt, rt, del, x)

\* the call f has still to deal with the name n
Pending(f, n) ==
  \/ n \in DOMAIN f.l \cup DOMAIN f.r
  \/ \E j \in 1 .. Len(f.dirs) : f.dirs[j].name = n
  \/ f.sub # << >> /\ f.sub[1].name = n

(* The server has a queued directory, and with dodelete it is there or     *)
(* will be made.                                                           *)
QueueOK(lt, rt, del, f) ==
  \A j \in 1 .. Len(f.dirs) :
    LET d == f.dirs[j]
        p == Append(f.at, d.name)
    IN /\ d.name \notin DOMAIN f.l \cup DOMAIN f.r
       /\ rt[p] = d.entry
       /\ del => lt[p].type = "dir" \/ (lt[p] = None /\ d.create)

\* the same for the directory the call went down to
SubOK(lt, rt, del, f) ==
  f.sub # << >> => LET p == Append(f.at, f.sub[1].name)
                   IN rt[p] = f.sub[1].entry /\ (del => lt[p].type = "dir")

\* every name in the directory of a call is mirrored or will be dealt with
NamesOK(lt, rt, del, f) ==
  \A n \in Names : LET p == Append(f.at, n)
                   IN p \in Paths => Done(lt, rt, del, p) \/ Pending(f, n)

CallOK(lt, rt, del, f) ==
  QueueOK(lt, rt, del, f) /\ SubOK(lt, rt, del, f) /\ NamesOK(lt, rt, del, f)

\* each call works in the directory that the calls around it went down to
Nested ==
  \A i, j \in 1 .. Len(stack) :
    i < j => IsPrefix(Append(stack[i].at, stack[i].sub[1].name), stack[j].at)

(* The directory that the innermost call went down to, and is about to     *)
(* leave, is done but for its attributes.                                  *)
SubDone ==
  Top.sub # << >> => DoneBelow(local, remote, DoDelete, Append(Top.at, Top.sub[1].name))

MirrorInv ==
  ~Faults =>
    /\ pc = "sync" => /\ Nested /\ SubDone
                      /\ \A i \in 1 .. Len(stack) : CallOK(local, remote, DoDelete, stack[i])
    /\ Mirrored

-----------------------------------------------------------------------------
(* What is done                                                            *)

\* Below what is no directory there is nothing.
LEMMA LeafBelow ==
  ASSUME NEW t \in Trees, WellFormed(t), NEW q \in Paths, t[q].type # "dir",
         NEW x \in Paths, IsPrefix(q, x), x # q
  PROVE  t[x] = None
  BY DEF WellFormed

\* What is below a directory that is shown blank is overlooked.
LEMMA OverlookedBelow ==
  ASSUME NEW t, NEW q \in Paths, IsDir(t, q), ShownBlank(t, q),
         NEW x \in Paths, IsPrefix(q, x), x # q
  PROVE  Overlooked(t, x)
<1>1. q \in Seq(Names) /\ x \in Seq(Names) /\ Len(q) \in Nat /\ Len(x) \in Nat
  BY PathSeq
<1>2. Len(q) <= Len(x) /\ SubSeq(q, 1, Len(q)) = SubSeq(x, 1, Len(q))
  BY DEF IsPrefix
<1>3. SubSeq(x, 1, Len(q)) = q
  BY <1>1, <1>2, SubSeqFull
<1>4. Len(q) # Len(x)
  BY <1>1, PrefixOrder
<1>5. Len(q) \in 0 .. Len(x) - 1
  BY <1>1, <1>2, <1>4
<1> QED
  BY <1>3, <1>5 DEF Overlooked

\* What is no directory on the server is done when the path itself is.
LEMMA LeafDone ==
  ASSUME NEW lt \in Trees, NEW rt \in Trees, WellFormed(lt), WellFormed(rt), NEW del \in BOOLEAN,
         NEW q \in Paths, rt[q].type # "dir", Good(lt, rt, del, q), del => lt[q].type # "dir"
  PROVE  Done(lt, rt, del, q)
<1> SUFFICES ASSUME NEW x \in Unskipped, IsPrefix(q, x), x # q
             PROVE  Good(lt, rt, del, x)
  BY DEF Done
<1>1. x \in Paths
  BY DEF Unskipped
<1>2. rt[x] = None
  BY <1>1, LeafBelow
<1>3. del => lt[x] = None
  BY <1>1, LeafBelow
<1>4. rt[x].type # "file"
  BY <1>2, NoneType
<1> QED
  BY <1>2, <1>3, <1>4 DEF Good

\* What is skipped is done.
LEMMA SkippedDone ==
  ASSUME NEW lt, NEW rt, NEW del, NEW p \in Paths, p \in Skip
  PROVE  Done(lt, rt, del, p)
<1> SUFFICES ASSUME NEW x \in Unskipped, IsPrefix(p, x)
             PROVE  FALSE
  BY DEF Done
<1>1. /\ p \in Seq(Names) /\ Len(p) \in 1 .. Depth /\ x \in Seq(Names)
      /\ Len(x) \in Nat /\ \A k \in 1 .. Len(x) : SubSeq(x, 1, k) \notin Skip
  BY PathSeq DEF Unskipped
<1>2. Len(p) <= Len(x) /\ SubSeq(p, 1, Len(p)) = SubSeq(x, 1, Len(p))
  BY DEF IsPrefix
<1>3. SubSeq(x, 1, Len(p)) = p
  BY <1>1, <1>2, SubSeqFull
<1>4. Len(p) \in 1 .. Len(x)
  BY <1>1, <1>2
<1> QED
  BY <1>1, <1>3, <1>4

\* Nothing is both below one name of a directory and below another.
LEMMA Apart ==
  ASSUME NEW d \in Seq(Names), NEW n \in Names, NEW m \in Names, m # n,
         NEW q \in Seq(Names), IsPrefix(Append(d, n), q), NEW x \in Seq(Names), IsPrefix(Append(d, m), x)
  PROVE  ~IsPrefix(q, x)
<1> SUFFICES ASSUME IsPrefix(q, x) PROVE FALSE
  OBVIOUS
<1>1. Append(d, n) \in Seq(Names)
  OBVIOUS
<1>2. IsPrefix(Append(d, n), x)
  BY <1>1, PrefixOrder
<1>3. x[Len(d) + 1] = n /\ x[Len(d) + 1] = m
  BY <1>2, PrefixAppend
<1> QED
  BY <1>3

(* A change at and below one name of a directory leaves what is done under *)
(* another name done.                                                      *)
LEMMA DoneKept ==
  ASSUME NEW lt, NEW rt, NEW del, NEW t, NEW d \in Seq(Names),
         NEW n \in Names, NEW m \in Names, m # n,
         NEW q \in Seq(Names), IsPrefix(Append(d, n), q),
         \A x \in Paths : ~IsPrefix(q, x) => t[x] = lt[x],
         Done(lt, rt, del, Append(d, m))
  PROVE  Done(t, rt, del, Append(d, m))
<1> SUFFICES ASSUME NEW x \in Unskipped, IsPrefix(Append(d, m), x)
             PROVE  Good(t, rt, del, x)
  BY DEF Done
<1>1. x \in Paths /\ x \in Seq(Names)
  BY PathSeq DEF Unskipped
<1>2. ~IsPrefix(q, x)
  BY <1>1, Apart
<1>3. t[x] = lt[x]
  BY <1>1, <1>2
<1>4. Good(lt, rt, del, x)
  BY DEF Done
<1> QED
  BY <1>3, <1>4 DEF Good

\* The names of the queue and of the directory below.
LEMMA CallNames ==
  ASSUME NEW f \in Call
  PROVE  /\ f.at \in Seq(Names) /\ f.dirs \in Seq(Waiting) /\ f.sub \in Seq(Waiting)
         /\ \A j \in 1 .. Len(f.dirs) : f.dirs[j] \in Waiting /\ f.dirs[j].name \in Names
         /\ f.sub # << >> => f.sub[1] \in Waiting /\ f.sub[1].name \in Names
<1>1. f.at \in Seq(Names) /\ f.dirs \in Seq(Waiting) /\ f.sub \in Seq(Waiting)
  BY DEF Call
<1>2. ASSUME NEW j \in 1 .. Len(f.dirs)
      PROVE  f.dirs[j] \in Waiting /\ f.dirs[j].name \in Names
  <2>1. f.dirs[j] \in Waiting
    BY <1>1
  <2> QED
    BY <2>1 DEF Waiting
<1>3. ASSUME f.sub # << >>
      PROVE  f.sub[1] \in Waiting /\ f.sub[1].name \in Names
  <2>1. Len(f.sub) \in Nat \ {0}
    BY <1>1, <1>3
  <2>2. f.sub[1] \in Waiting
    BY <1>1, <2>1
  <2> QED
    BY <2>2 DEF Waiting
<1> QED
  BY <1>1, <1>2, <1>3

(* A change below the directory that a call went down to leaves the call   *)
(* as it was.                                                              *)
LEMMA CallKept ==
  ASSUME NEW lt, NEW rt, NEW del, NEW t, NEW f \in Call, f.sub # << >>,
         NEW q \in Seq(Names), IsPrefix(Append(f.at, f.sub[1].name), q), q # Append(f.at, f.sub[1].name),
         \A x \in Paths : ~IsPrefix(q, x) => t[x] = lt[x],
         CallOK(lt, rt, del, f), Len(f.at) < Depth
  PROVE  CallOK(t, rt, del, f)
<1> DEFINE s == f.sub[1].name
<1>1. /\ f.at \in Seq(Names) /\ s \in Names
      /\ \A j \in 1 .. Len(f.dirs) : f.dirs[j].name \in Names
  BY CallNames
<1>2. ASSUME NEW m \in Names
      PROVE  t[Append(f.at, m)] = lt[Append(f.at, m)]
  <2> DEFINE p == Append(f.at, m)
  <2>1. p \in Paths /\ p \in Seq(Names) /\ Len(p) = Len(f.at) + 1
    BY <1>1, PathAppend
  <2>2. Append(f.at, s) \in Seq(Names) /\ Len(Append(f.at, s)) = Len(f.at) + 1
    BY <1>1, PathAppend
  <2>3. ~IsPrefix(q, p)
    <3> SUFFICES ASSUME IsPrefix(q, p) PROVE FALSE
      OBVIOUS
    <3> HIDE DEF p
    <3>1. Len(q) <= Len(p) /\ Len(Append(f.at, s)) <= Len(q)
      BY <2>1, <2>2, PrefixElements
    <3>2. Len(q) = Len(Append(f.at, s))
      BY <1>1, <2>1, <2>2, <3>1
    <3> QED
      BY <2>2, <3>2, PrefixOrder
  <2> QED
    BY <2>1, <2>3
<1>3. QueueOK(t, rt, del, f)
  <2> SUFFICES ASSUME NEW j \in 1 .. Len(f.dirs)
               PROVE  LET d == f.dirs[j]
                          p == Append(f.at, d.name)
                      IN /\ d.name \notin DOMAIN f.l \cup DOMAIN f.r
                         /\ rt[p] = d.entry
                         /\ del => t[p].type = "dir" \/ (t[p] = None /\ d.create)
    BY DEF QueueOK
  <2>1. t[Append(f.at, f.dirs[j].name)] = lt[Append(f.at, f.dirs[j].name)]
    BY <1>1, <1>2
  <2> QED
    BY <2>1 DEF CallOK, QueueOK
<1>4. SubOK(t, rt, del, f)
  BY <1>1, <1>2 DEF CallOK, SubOK
<1>5. NamesOK(t, rt, del, f)
  <2> SUFFICES ASSUME NEW n \in Names, Append(f.at, n) \in Paths
               PROVE  Done(t, rt, del, Append(f.at, n)) \/ Pending(f, n)
    BY DEF NamesOK
  <2>1. Done(lt, rt, del, Append(f.at, n)) \/ Pending(f, n)
    BY DEF CallOK, NamesOK
  <2>2. CASE n = s
    BY <2>2 DEF Pending
  <2>3. CASE n # s
    BY <1>1, <2>1, <2>3, DoneKept
  <2> QED
    BY <2>2, <2>3
<1> QED
  BY <1>3, <1>4, <1>5 DEF CallOK

\* A call that has just listed its directory has everything before it.
LEMMA ListingDone ==
  ASSUME NEW lt \in Trees, NEW rt \in Trees, WellFormed(lt), WellFormed(rt), NEW del \in BOOLEAN,
         NEW f, f.l = Listing(lt, f.at), f.r = Listing(rt, f.at), f.dirs = << >>, f.sub = << >>
  PROVE  CallOK(lt, rt, del, f)
<1>1. QueueOK(lt, rt, del, f) /\ SubOK(lt, rt, del, f)
  <2>1. Len(f.dirs) = 0
    OBVIOUS
  <2> QED
    BY <2>1 DEF QueueOK, SubOK
<1>2. ASSUME NEW n \in Names, Append(f.at, n) \in Paths
      PROVE  Done(lt, rt, del, Append(f.at, n)) \/ Pending(f, n)
  <2> DEFINE p == Append(f.at, n)
  <2>1. CASE p \in Skip
    BY <1>2, <2>1, SkippedDone
  <2>2. CASE p \notin Skip /\ lt[p] = None /\ rt[p] = None
    <3>1. Good(lt, rt, del, p) /\ lt[p].type # "dir" /\ rt[p].type # "dir"
      BY <2>2, NoneType DEF Good
    <3> HIDE DEF p
    <3>2. p \in Paths
      BY <1>2 DEF p
    <3>3. Done(lt, rt, del, p)
      BY <3>1, <3>2, LeafDone
    <3> QED
      BY <3>3 DEF p
  <2>3. CASE p \notin Skip /\ (lt[p] # None \/ rt[p] # None)
    <3>1. n \in DOMAIN f.l \cup DOMAIN f.r
      BY <1>2, <2>3 DEF Listing
    <3> QED
      BY <3>1 DEF Pending
  <2> QED
    BY <2>1, <2>2, <2>3
<1>3. NamesOK(lt, rt, del, f)
  BY <1>2 DEF NamesOK
<1> QED
  BY <1>1, <1>3 DEF CallOK

-----------------------------------------------------------------------------
(* A name is merged                                                        *)

\* Without failures sp_get_file fetches what nothing is in the way of.
LEMMA GetSettles ==
  ASSUME ~Faults, NEW tree \in Trees, NEW q \in Paths, NEW e \in Live, NEW o \in sp_get_file(tree, q, e)
  PROVE  /\ e.type = "file" => o.tree[q] = e \/ (tree[q].type = "dir" /\ o.tree = tree)
         /\ e.type = "link" /\ tree[q] = None => o.tree[q] = e
         /\ e.type = "dir" => o.tree = tree
<1>1. CASE e.type = "file"
  BY <1>1 DEF sp_get_file, get_ftp_file, Trees
<1>2. CASE e.type = "link"
  BY <1>2 DEF sp_get_file, spf_symlink, Trees
<1>3. CASE e.type = "dir"
  BY <1>3 DEF sp_get_file
<1> QED
  BY <1>1, <1>2, <1>3, NoneType

\* Without failures spf_rm removes all, or the program ends at the limit.
LEMMA RmSettles ==
  ASSUME ~Faults, DoDelete, NEW q, NEW o \in spf_rm(q)
  PROVE  o.res = "exit" \/ (o.res = "ok" /\ o.gone = Below(local, q))
<1>1. o \in rm_rf(q)
  BY DEF spf_rm
<1>2. /\ o.gone = Below(local, q) \/ Cardinality(o.gone) = Allowed
      /\ o.res = CASE o.gone = Below(local, q) -> "ok"
                   [] o.gone # Below(local, q) /\ Cardinality(o.gone) = Allowed -> "exit"
                   [] OTHER -> "failed"
  BY <1>1 DEF rm_rf
<1> QED
  BY <1>2

\* Then nothing is left there.
LEMMA RemovedAll ==
  ASSUME Types, NEW q \in Paths
  PROVE  Without(local, Below(local, q)) \in Trees /\ Without(local, Below(local, q))[q] = None
<1>1. IsPrefix(q, q)
  BY PathSeq, PrefixOrder
<1>2. q \notin Below(local, q) => local[q] = None
  BY <1>1 DEF Below
<1> QED
  BY <1>2, WithoutEffect DEF Types

\* Entries are records: equal when their fields are.
LEMMA EntryEqual ==
  ASSUME NEW e \in Live, NEW x \in Live, e.type = x.type, e.sig = x.sig
  PROVE  /\ e.mode = x.mode => e = x
         /\ e.type = "link" => e = x
         /\ [x EXCEPT !.mode = e.mode] = e
<1>1. /\ e = [type |-> e.type, sig |-> e.sig, mode |-> e.mode]
      /\ x = [type |-> x.type, sig |-> x.sig, mode |-> x.mode]
  BY DEF Live
<1>2. e.mode = x.mode => e = x
  BY <1>1
<1>3. e.type = "link" => e.mode = 0 /\ x.mode = 0
  BY DEF Live
<1>4. [x EXCEPT !.mode = e.mode] = [type |-> x.type, sig |-> x.sig, mode |-> e.mode]
  BY <1>1
<1> QED
  BY <1>1, <1>2, <1>3, <1>4

\* the innermost call has queued what the server has at q
Enqueued(q, c) ==
  /\ remote[q].type = "dir"
  /\ Advance(Append(Top.dirs, [name |-> Least, entry |-> remote[q], create |-> c]))
  /\ DoDelete => local'[q].type = "dir" \/ (local'[q] = None /\ c)

(* Without failures a name that was merged is done, or it is a directory   *)
(* that is queued, for which the way is free.                              *)
LEMMA MergeSettles ==
  ASSUME IInv, ~Faults, Merge, pc' = "sync"
  PROVE  \/ Done(local', remote, DoDelete, Here(Least)) /\ Advance(Top.dirs)
         \/ \E c \in BOOLEAN : Enqueued(Here(Least), c)
<1> DEFINE q == Here(Least)
           e == Top.r[Least]
<1>1. Types /\ Merging /\ WellFormed(remote) /\ local \in Trees /\ remote \in Trees /\ DoDelete \in BOOLEAN
  BY MergeEffect DEF IInv, TreeInv, Types, DoDelete, Param
<1>2. q \in Paths /\ local' \in Trees /\ WellFormed(local')
  BY MergeTree
<1>3. /\ OnlyRemote => local[q] = None /\ ~OnlyLocal
      /\ ~OnlyRemote => Top.l[Least] \in Live /\ local[q] = Top.l[Least]
      /\ OnlyLocal => remote[q] = None
      /\ ~OnlyLocal => e \in Live /\ remote[q] = e
  BY <1>1, LeastPlace
<1> HIDE DEF q
<1>4. ASSUME remote[q].type # "dir", DoDelete => local'[q].type # "dir",
             Good(local', remote, DoDelete, q)
      PROVE  Done(local', remote, DoDelete, q)
  BY <1>1, <1>2, <1>4, LeafDone
<1>5. ASSUME ~OnlyLocal, NEW c \in BOOLEAN, Advance(Queued(Least, e, c))
      PROVE  /\ e.type # "dir" => Advance(Top.dirs)
             /\ /\ e.type = "dir"
                /\ DoDelete => local'[q].type = "dir" \/ (local'[q] = None /\ c)
                => Enqueued(q, c)
  BY <1>3, <1>5 DEF Queued, Enqueued
<1>6. ASSUME e \in Live, NEW tree \in Trees, NEW o \in sp_get_file(tree, q, e), local' = o.tree
      PROVE  /\ e.type = "file" => local'[q] = e \/ (tree[q].type = "dir" /\ local' = tree)
             /\ e.type = "link" /\ tree[q] = None => local'[q] = e
             /\ e.type = "dir" => local' = tree
  BY <1>2, <1>6, GetSettles
<1>7. CASE MissingLocally
  <2>1. /\ OnlyRemote /\ Advance(Queued(Least, e, TRUE))
    BY <1>7 DEF MissingLocally
  <2>2. PICK o \in sp_get_file(local, q, e) : local' = o.tree
    BY <1>7 DEF MissingLocally, q
  <2>3. e \in Live /\ remote[q] = e /\ local[q] = None /\ local[q].type # "dir"
    BY <1>3, <2>1, NoneType
  <2>4. CASE e.type = "dir"
    <3>1. local'[q] = None
      BY <1>1, <1>6, <2>2, <2>3, <2>4
    <3> QED
      BY <1>3, <1>5, <2>1, <2>4, <3>1 DEF q
  <2>5. CASE e.type # "dir"
    <3>1. local'[q] = e
      BY <1>1, <1>6, <2>2, <2>3, <2>5, NoneType
    <3>2. Done(local', remote, DoDelete, q)
      BY <1>4, <2>3, <2>5, <3>1 DEF Good
    <3> QED
      BY <1>3, <1>5, <2>1, <2>5, <3>2 DEF q
  <2> QED
    BY <2>4, <2>5
<1>8. CASE ExtraLocally
  <2>1. OnlyLocal /\ Advance(Top.dirs) /\ remote[q] = None /\ remote[q].type = "none"
    BY <1>3, <1>8, NoneType DEF ExtraLocally
  <2>2. PICK o \in spf_rm(q) : Removed(o)
    BY <1>8 DEF ExtraLocally, q
  <2>3. o.res # "exit" /\ local' = Without(local, o.gone)
    BY <2>2 DEF Removed
  <2>4. DoDelete => local'[q] = None
    BY <1>1, <1>2, <2>3, RmSettles, RemovedAll
  <2>5. Done(local', remote, DoDelete, q)
    BY <1>4, <2>1, <2>4, NoneType DEF Good
  <2> QED
    BY <2>1, <2>5 DEF q
<1>9. CASE TypesDiffer
  <2>1. Both /\ Top.l[Least].type # e.type
    BY <1>9 DEF TypesDiffer
  <2>2. PICK o \in spf_rm(q) :
          IF o.res = "exit"
          THEN Removed(o) /\ UNCHANGED stack
          ELSE /\ \E g \in sp_get_file(Without(local, o.gone), q, e) :
                    local' = g.tree /\ CountDeletes(Cardinality(o.gone), g.dels)
               /\ Advance(Queued(Least, e, TRUE))
    BY <1>9 DEF TypesDiffer, q
  <2>3. o.res # "exit"
    BY <2>2 DEF Removed
  <2>4. /\ \E g \in sp_get_file(Without(local, o.gone), q, e) : local' = g.tree
        /\ Advance(Queued(Least, e, TRUE))
    BY <2>2, <2>3
  <2> DEFINE tree == Without(local, o.gone)
  <2>5. e \in Live /\ remote[q] = e /\ local[q] = Top.l[Least] /\ ~OnlyLocal
    BY <1>3, <2>1 DEF Both
  <2>6. tree \in Trees /\ (DoDelete => tree[q] = None)
    BY <1>1, <1>2, <2>3, RmSettles, RemovedAll, WithoutEffect
  <2> HIDE DEF tree
  <2>7. PICK g \in sp_get_file(tree, q, e) : local' = g.tree
    BY <2>4 DEF tree
  <2>8. CASE e.type = "dir"
    <3>1. DoDelete => local'[q] = None
      BY <1>6, <2>5, <2>6, <2>7, <2>8
    <3> QED
      BY <1>3, <1>5, <2>4, <2>5, <2>8, <3>1 DEF q
  <2>9. CASE e.type = "file"
    <3>1. local'[q] = e \/ (local'[q].type = "dir" /\ tree[q].type = "dir")
      BY <1>6, <2>5, <2>6, <2>7, <2>9
    <3>2. Good(local', remote, DoDelete, q) /\ (DoDelete => local'[q].type # "dir")
      BY <2>5, <2>6, <2>9, <3>1, NoneType DEF Good
    <3> QED
      BY <1>4, <1>5, <2>4, <2>5, <2>9, <3>2 DEF q
  <2>10. CASE e.type = "link"
    <3>1. DoDelete => local'[q] = e
      BY <1>6, <2>5, <2>6, <2>7, <2>10
    <3>2. Good(local', remote, DoDelete, q) /\ (DoDelete => local'[q].type # "dir")
      BY <2>5, <2>10, <3>1 DEF Good
    <3> QED
      BY <1>4, <1>5, <2>4, <2>5, <2>10, <3>2 DEF q
  <2> QED
    BY <2>5, <2>8, <2>9, <2>10, NoneType
<1>10. CASE SameDir
  <2>1. /\ Both /\ Top.l[Least].type = "dir" /\ e.type = "dir"
        /\ Advance(Queued(Least, e, FALSE)) /\ local' = local
    BY <1>10 DEF SameDir, Same
  <2>2. ~OnlyLocal /\ local'[q].type = "dir"
    BY <1>3, <2>1 DEF Both
  <2> QED
    BY <1>5, <2>1, <2>2 DEF q
<1>11. CASE SameFile
  <2>1. /\ Both /\ Top.l[Least].type = "file" /\ e.type = "file" /\ Advance(Top.dirs)
        /\ IF e.sig # Top.l[Least].sig
           THEN \E o \in get_ftp_file(local, q, e) : local' = o.tree /\ CountDeletes(0, o.dels)
           ELSE local' = [local EXCEPT ![q].mode = e.mode]
    BY <1>11 DEF SameFile, Same, q
  <2>2. /\ e \in Live /\ local[q] = Top.l[Least] /\ remote[q] = e /\ Top.l[Least] \in Live
        /\ get_ftp_file(local, q, e) = sp_get_file(local, q, e)
    BY <1>3, <2>1 DEF Both, sp_get_file
  <2>3. local'[q] = e
    <3>1. CASE e.sig # Top.l[Least].sig
      <4>1. PICK o \in sp_get_file(local, q, e) : local' = o.tree
        BY <2>1, <2>2, <3>1
      <4> QED
        BY <1>1, <1>6, <2>1, <2>2, <4>1
    <3>2. CASE e.sig = Top.l[Least].sig
      <4>1. local'[q] = [local[q] EXCEPT !.mode = e.mode]
        BY <1>1, <1>2, <2>1, <3>2 DEF Trees
      <4> QED
        BY <2>1, <2>2, <3>2, <4>1, EntryEqual
    <3> QED
      BY <3>1, <3>2
  <2>4. Done(local', remote, DoDelete, q)
    BY <1>4, <2>1, <2>2, <2>3 DEF Good
  <2> QED
    BY <2>1, <2>4 DEF q
<1>12. CASE SameLink
  <2>1. /\ Both /\ Top.l[Least].type = "link" /\ e.type = "link" /\ Advance(Top.dirs)
        /\ IF e.sig = Top.l[Least].sig
           THEN UNCHANGED <<local, deletes, pc>>
           ELSE \E o \in spf_rm(q) :
                  IF o.res # "ok"
                  THEN Removed(o)
                  ELSE \E g \in spf_symlink(Without(local, o.gone), q, e) :
                         local' = g.tree /\ CountDeletes(Cardinality(o.gone), 0)
    BY <1>12 DEF SameLink, Same, q
  <2>2. /\ e \in Live /\ local[q] = Top.l[Least] /\ remote[q] = e /\ Top.l[Least] \in Live
        /\ \A t : spf_symlink(t, q, e) = sp_get_file(t, q, e)
    BY <1>3, <2>1 DEF Both, sp_get_file
  <2>3. DoDelete => local'[q] = e
    <3>1. CASE e.sig = Top.l[Least].sig
      BY <2>1, <2>2, <3>1, EntryEqual
    <3>2. CASE e.sig # Top.l[Least].sig /\ DoDelete
      <4>1. PICK o \in spf_rm(q) :
              IF o.res # "ok"
              THEN Removed(o)
              ELSE \E g \in sp_get_file(Without(local, o.gone), q, e) : local' = g.tree
        BY <2>1, <2>2, <3>2
      <4>2. o.res = "ok" /\ o.gone = Below(local, q)
        BY <3>2, <4>1, RmSettles DEF Removed
      <4> DEFINE tree == Without(local, o.gone)
      <4>3. tree \in Trees /\ tree[q] = None
        BY <1>1, <1>2, <4>2, RemovedAll
      <4> HIDE DEF tree
      <4>4. PICK g \in sp_get_file(tree, q, e) : local' = g.tree
        BY <4>1, <4>2 DEF tree
      <4> QED
        BY <1>6, <2>1, <2>2, <4>3, <4>4
    <3> QED
      BY <3>1, <3>2
  <2>4. Done(local', remote, DoDelete, q)
    BY <1>4, <2>1, <2>2, <2>3 DEF Good
  <2> QED
    BY <2>1, <2>4 DEF q
<1> QED
  BY <1>7, <1>8, <1>9, <1>10, <1>11, <1>12 DEF Merge

(* The name n with the path q is done, or queued as a directory for which  *)
(* the way is free, where the queue was "old" and is "new".                *)
Settled(t, rt, del, q, n, old, new) ==
  \/ new = old /\ Done(t, rt, del, q)
  \/ \E c \in BOOLEAN :
       /\ new = Append(old, [name |-> n, entry |-> rt[q], create |-> c])
       /\ del => t[q].type = "dir" \/ (t[q] = None /\ c)

(* The call f has become g by merging the name n, at or below whose path   *)
(* alone the tree lt became t.                                             *)
Popped(lt, rt, del, t, f, g, n) ==
  /\ f.sub = << >> /\ n \in DOMAIN f.l \cup DOMAIN f.r
  /\ g.at = f.at /\ g.sub = << >>
  /\ DOMAIN g.l = DOMAIN f.l \ {n} /\ DOMAIN g.r = DOMAIN f.r \ {n}
  /\ \A x \in Paths : ~IsPrefix(Append(f.at, n), x) => t[x] = lt[x]
  /\ Settled(t, rt, del, Append(f.at, n), n, f.dirs, g.dirs)

\* Then it has all names done or before it, as it had.
LEMMA MergeCall ==
  ASSUME NEW lt, NEW rt, NEW del, NEW t, NEW f \in Call, Len(f.at) < Depth, CallOK(lt, rt, del, f),
         NEW g \in Call, NEW n \in Names, Popped(lt, rt, del, t, f, g, n)
  PROVE  CallOK(t, rt, del, g)
<1>0. /\ f.sub = << >> /\ n \in DOMAIN f.l \cup DOMAIN f.r
      /\ g.at = f.at /\ g.sub = << >>
      /\ DOMAIN g.l = DOMAIN f.l \ {n} /\ DOMAIN g.r = DOMAIN f.r \ {n}
      /\ \A x \in Paths : ~IsPrefix(Append(f.at, n), x) => t[x] = lt[x]
      /\ Settled(t, rt, del, Append(f.at, n), n, f.dirs, g.dirs)
  BY DEF Popped
<1> USE <1>0
<1> DEFINE q == Append(f.at, n)
           free(c) == del => t[q].type = "dir" \/ (t[q] = None /\ c)
<1>1. /\ f.at \in Seq(Names) /\ f.dirs \in Seq(Waiting)
      /\ \A j \in 1 .. Len(f.dirs) : f.dirs[j].name \in Names
  BY CallNames
<1>2. q \in Paths /\ q \in Seq(Names) /\ IsPrefix(q, q)
  BY <1>1, PathAppend, PrefixOrder
<1>3. ASSUME NEW m \in Names, m # n
      PROVE  t[Append(f.at, m)] = lt[Append(f.at, m)]
  <2>1. Append(f.at, m) \in Paths
    BY <1>1, PathAppend
  <2> QED
    BY <1>1, <1>3, <2>1, PrefixApart
<1>4. \A j \in 1 .. Len(f.dirs) : j \in 1 .. Len(g.dirs) /\ g.dirs[j] = f.dirs[j]
  <2>1. g.dirs = f.dirs \/ \E w : g.dirs = Append(f.dirs, w)
    BY DEF Settled
  <2>2. ASSUME NEW w, g.dirs = Append(f.dirs, w), g.dirs \in Seq(Waiting)
        PROVE  \A j \in 1 .. Len(f.dirs) : j \in 1 .. Len(g.dirs) /\ g.dirs[j] = f.dirs[j]
    BY <1>1, <2>2
  <2> QED
    BY <2>1, <2>2, CallNames
<1>5. ASSUME NEW j \in 1 .. Len(g.dirs)
      PROVE  \/ j \in 1 .. Len(f.dirs)
             \/ g.dirs[j].name = n /\ g.dirs[j].entry = rt[q] /\ free(g.dirs[j].create)
  <2>1. CASE g.dirs = f.dirs
    BY <2>1
  <2>2. CASE \E c \in BOOLEAN :
               g.dirs = Append(f.dirs, [name |-> n, entry |-> rt[q], create |-> c]) /\ free(c)
    <3>1. PICK c \in BOOLEAN :
            g.dirs = Append(f.dirs, [name |-> n, entry |-> rt[q], create |-> c]) /\ free(c)
      BY <2>2
    <3> DEFINE w == [name |-> n, entry |-> rt[q], create |-> c]
    <3>2. w.name = n /\ w.entry = rt[q] /\ w.create = c
      OBVIOUS
    <3> HIDE DEF w, q
    <3>3. j \in 1 .. Len(f.dirs) \/ g.dirs[j] = w
      <4>1. g.dirs = Append(f.dirs, w)
        BY <3>1 DEF w
      <4>2. g.dirs[Len(f.dirs) + 1] = w /\ Len(g.dirs) = Len(f.dirs) + 1 /\ Len(f.dirs) \in Nat
        BY <1>1, <4>1
      <4> QED
        BY <4>2
    <3> QED
      BY <3>1, <3>2, <3>3
  <2> QED
    BY <2>1, <2>2 DEF Settled
<1>6. QueueOK(t, rt, del, g)
  <2> SUFFICES ASSUME NEW j \in 1 .. Len(g.dirs)
               PROVE  LET d == g.dirs[j]
                          p == Append(g.at, d.name)
                      IN /\ d.name \notin DOMAIN g.l \cup DOMAIN g.r
                         /\ rt[p] = d.entry
                         /\ del => t[p].type = "dir" \/ (t[p] = None /\ d.create)
    BY DEF QueueOK
  <2>1. CASE j \in 1 .. Len(f.dirs)
    <3>1. g.dirs[j] = f.dirs[j] /\ f.dirs[j].name \in Names
      BY <1>1, <1>4, <2>1
    <3> DEFINE d == f.dirs[j]
               p == Append(f.at, d.name)
    <3>2. /\ d.name \notin DOMAIN f.l \cup DOMAIN f.r
          /\ rt[p] = d.entry
          /\ del => lt[p].type = "dir" \/ (lt[p] = None /\ d.create)
      BY <2>1 DEF CallOK, QueueOK
    <3>3. t[p] = lt[p]
      BY <1>3, <3>1, <3>2
    <3> QED
      BY <3>1, <3>2, <3>3
  <2>2. CASE g.dirs[j].name = n /\ g.dirs[j].entry = rt[q] /\ free(g.dirs[j].create)
    BY <2>2
  <2> QED
    BY <1>5, <2>1, <2>2
<1>7. SubOK(t, rt, del, g)
  BY DEF SubOK
<1>8. NamesOK(t, rt, del, g)
  <2> SUFFICES ASSUME NEW m \in Names, Append(f.at, m) \in Paths
               PROVE  Done(t, rt, del, Append(f.at, m)) \/ Pending(g, m)
    BY DEF NamesOK
  <2>1. CASE m = n
    <3>1. CASE Done(t, rt, del, q)
      BY <2>1, <3>1
    <3>2. CASE \E c \in BOOLEAN : g.dirs = Append(f.dirs, [name |-> n, entry |-> rt[q], create |-> c])
      <4>1. PICK c \in BOOLEAN : g.dirs = Append(f.dirs, [name |-> n, entry |-> rt[q], create |-> c])
        BY <3>2
      <4> DEFINE w == [name |-> n, entry |-> rt[q], create |-> c]
      <4>2. w.name = n
        OBVIOUS
      <4> HIDE DEF w, q
      <4>3. g.dirs = Append(f.dirs, w)
        BY <4>1 DEF w
      <4>4. Len(f.dirs) + 1 \in 1 .. Len(g.dirs) /\ g.dirs[Len(f.dirs) + 1] = w
        BY <1>1, <4>3
      <4> QED
        BY <2>1, <4>2, <4>4 DEF Pending
    <3> QED
      BY <3>1, <3>2 DEF Settled
  <2>2. CASE m # n
    <3>1. CASE Done(lt, rt, del, Append(f.at, m))
      <4>1. Done(t, rt, del, Append(f.at, m))
        BY <1>1, <1>2, <2>2, <3>1, DoneKept
      <4> QED
        BY <4>1
    <3>2. CASE Pending(f, m)
      <4>1. CASE m \in DOMAIN f.l \cup DOMAIN f.r
        BY <2>2, <4>1 DEF Pending
      <4>2. CASE \E j \in 1 .. Len(f.dirs) : f.dirs[j].name = m
        BY <1>4, <4>2 DEF Pending
      <4> QED
        BY <3>2, <4>1, <4>2 DEF Pending
    <3> QED
      BY <3>1, <3>2 DEF CallOK, NamesOK
  <2> QED
    BY <2>1, <2>2
<1> QED
  BY <1>6, <1>7, <1>8 DEF CallOK

-----------------------------------------------------------------------------
(* The calls around the innermost one                                      *)

\* A change in the directory of the innermost call leaves them as they were.
LEMMA OuterKept ==
  ASSUME IInv, PlaceInv, pc = "sync", Nested, NEW del, NEW t, NEW n \in Names,
         \A x \in Paths : ~IsPrefix(Append(Top.at, n), x) => t[x] = local[x],
         NEW i \in 1 .. Len(stack), i # Len(stack), CallOK(local, remote, del, stack[i])
  PROVE  CallOK(t, remote, del, stack[i])
<1> DEFINE f == stack[i]
           s == f.sub[1].name
           q == Append(Top.at, n)
<1>1. /\ Len(stack) \in Nat /\ Len(stack) \in 1 .. Len(stack) /\ Top = stack[Len(stack)]
      /\ Top.at \in Seq(Names) /\ i < Len(stack)
  <2>1. Len(stack) \in Nat \ {0} /\ Top = stack[Len(stack)] /\ Top \in Call
    BY TopInPlace
  <2> QED
    BY <2>1 DEF Call
<1>2. f \in Call /\ f.sub # << >> /\ CallInPlace(i)
  BY <1>1 DEF IInv, TreeInv, Types, Waits, PlaceInv
<1>3. /\ f.at \in Seq(Names) /\ s \in Names /\ Len(f.at) < Depth
  BY <1>2, CallNames DEF CallInPlace
<1>4. IsPrefix(Append(f.at, s), Top.at)
  BY <1>1 DEF Nested
<1>5. q \in Seq(Names) /\ Append(f.at, s) \in Seq(Names)
  BY <1>1, <1>3, PathAppend
<1>6. IsPrefix(Append(f.at, s), q)
  <2> DEFINE p == Append(f.at, s)
  <2> HIDE DEF p
  <2>1. p \in Seq(Names) /\ IsPrefix(p, Top.at)
    BY <1>4, <1>5 DEF p
  <2>2. IsPrefix(p, Append(Top.at, n))
    BY <1>1, <2>1, PrefixAppend
  <2> QED
    BY <2>2 DEF p
<1>7. q # Append(f.at, s)
  BY <1>1, <1>4, PrefixAppend
<1> HIDE DEF q
<1>8. \A x \in Paths : ~IsPrefix(q, x) => t[x] = local[x]
  BY DEF q
<1> QED
  BY <1>2, <1>3, <1>5, <1>6, <1>7, <1>8, CallKept

(* A step of the innermost call that leaves it with all names done or      *)
(* before it keeps the invariant.                                          *)
LEMMA MirrorKept ==
  ASSUME IInv, PlaceInv, MirrorInv, ~Faults, pc = "sync", pc' = "sync", UNCHANGED <<remote, param>>,
         Len(stack') = Len(stack), Top'.at = Top.at,
         \A i \in 1 .. Len(stack) : i # Len(stack) => stack'[i] = stack[i],
         NEW n \in Names, \A x \in Paths : ~IsPrefix(Append(Top.at, n), x) => local'[x] = local[x],
         CallOK(local', remote, DoDelete, Top'), SubDone'
  PROVE  MirrorInv'
<1>1. Len(stack) \in Nat \ {0} /\ Top = stack[Len(stack)] /\ Top' = stack'[Len(stack)]
  BY TopInPlace DEF Top
<1>2. Nested /\ \A i \in 1 .. Len(stack) : CallOK(local, remote, DoDelete, stack[i])
  BY DEF MirrorInv
<1>3. DoDelete' = DoDelete /\ remote' = remote
  BY DEF DoDelete
<1>4. Nested'
  <2> SUFFICES ASSUME NEW i \in 1 .. Len(stack), NEW j \in 1 .. Len(stack), i < j
               PROVE  IsPrefix(Append(stack'[i].at, stack'[i].sub[1].name), stack'[j].at)
    BY DEF Nested
  <2>1. stack'[i] = stack[i]
    BY <1>1
  <2>2. stack'[j].at = stack[j].at
    BY <1>1
  <2> QED
    BY <1>2, <2>1, <2>2 DEF Nested
<1>5. ASSUME NEW i \in 1 .. Len(stack)
      PROVE  CallOK(local', remote', DoDelete', stack'[i])
  <2>1. CASE i = Len(stack)
    BY <1>1, <1>3, <2>1
  <2>2. CASE i # Len(stack)
    <3>1. CallOK(local', remote, DoDelete, stack[i])
      BY <1>2, <2>2, OuterKept
    <3> QED
      BY <1>3, <2>2, <3>1
  <2> QED
    BY <2>1, <2>2
<1>6. \A i \in 1 .. Len(stack') : CallOK(local, remote, DoDelete, stack[i])'
  BY <1>5
<1>7. Mirrored'
  BY DEF Mirrored
<1> QED
  BY <1>4, <1>6, <1>7 DEF MirrorInv

-----------------------------------------------------------------------------
(* The invariant                                                           *)

LEMMA InitMirror == Init => MirrorInv
<1> SUFFICES ASSUME Init PROVE MirrorInv
  OBVIOUS
<1>1. IInv
  BY InitIInv
<1>2. Types /\ WellFormed(local) /\ WellFormed(remote) /\ local \in Trees /\ remote \in Trees /\ DoDelete \in BOOLEAN
  BY <1>1 DEF IInv, TreeInv, Types, DoDelete, Param
<1>3. CASE pc = "done"
  <2>1. ShownBlank(remote, << >>)
    BY <1>3 DEF Init
  <2>2. ASSUME NEW x \in Unskipped PROVE Overlooked(remote, x)
    <3>1. x \in Seq(Names) /\ Len(x) \in 1 .. Depth
      BY PathSeq DEF Unskipped
    <3>2. 0 \in 0 .. Len(x) - 1 /\ SubSeq(x, 1, 0) = << >>
      BY <3>1
    <3> QED
      BY <2>1, <3>2 DEF Overlooked, IsDir
  <2> QED
    BY <1>3, <2>2 DEF MirrorInv, Mirrored
<1> SUFFICES ASSUME pc = "sync" PROVE MirrorInv
  BY <1>3 DEF Init
<1>4. Len(stack) = 1 /\ stack[1] = Frame(<< >>) /\ Top = Frame(<< >>)
  BY DEF Init, Top
<1>5. LET f == Frame(<< >>)
      IN f.l = Listing(local, f.at) /\ f.r = Listing(remote, f.at) /\ f.dirs = << >> /\ f.sub = << >>
  BY DEF Frame
<1>6. CallOK(local, remote, DoDelete, Frame(<< >>))
  BY <1>2, <1>5, ListingDone
<1>7. Nested /\ SubDone /\ Mirrored
  BY <1>4, <1>5 DEF Nested, SubDone, Mirrored, Init
<1> QED
  BY <1>4, <1>6, <1>7 DEF MirrorInv

LEMMA MergeMirror == IInv /\ PlaceInv /\ MirrorInv /\ Merge => MirrorInv'
<1> SUFFICES ASSUME IInv, PlaceInv, MirrorInv, Merge PROVE MirrorInv'
  OBVIOUS
<1>1. /\ Merging /\ pc = "sync" /\ pc' \in {pc, "exit"} /\ UNCHANGED <<remote, cur_dir, param>>
      /\ Types /\ stack # << >> /\ Waits
  BY MergeEffect DEF Counted, Merging, IInv, TreeInv
<1>2. CASE Faults \/ pc' = "exit"
  BY <1>1, <1>2 DEF MirrorInv, Mirrored, Faults
<1>3. CASE ~Faults /\ pc' = "sync"
  <2> DEFINE q == Here(Least)
  <2>1. /\ Len(stack) \in Nat \ {0} /\ Top = stack[Len(stack)] /\ Top \in Call
        /\ cur_dir = IF Top.sub = << >> THEN Top.at ELSE Append(Top.at, Top.sub[1].name)
    BY <1>1, TopInPlace
  <2>2. Top.sub = << >>
    BY <1>1, <2>1 DEF Waits, Merging
  <2>3. /\ Least \in Names /\ Least \in DOMAIN Top.l \cup DOMAIN Top.r
        /\ Top.at \in Seq(Names) /\ Top.l \in Listings /\ Top.r \in Listings /\ Top.dirs \in Seq(Waiting)
    BY <1>1, LeastIn, TopParts
  <2>4. q = Append(Top.at, Least)
    BY <2>1, <2>2 DEF Here
  <2>5. q \in Paths /\ \A x \in Paths : ~IsPrefix(q, x) => local'[x] = local[x]
    BY MergeTree
  <2>6. Len(Top.at) < Depth
    BY <2>3, <2>4, <2>5, PathAppend
  <2> HIDE DEF q
  <2>7. CallOK(local, remote, DoDelete, Top)
    BY <1>1, <1>3, <2>1 DEF MirrorInv
  <2>8. ASSUME NEW dirs \in Seq(Waiting), Advance(dirs),
               Settled(local', remote, DoDelete, q, Least, Top.dirs, dirs)
        PROVE  MirrorInv'
    <3>1. /\ stack' \in Seq(Call) /\ stack' # << >> /\ Len(stack') = Len(stack)
          /\ Top' = [Top EXCEPT !.l = Less(Top.l, Least), !.r = Less(Top.r, Least), !.dirs = dirs]
          /\ \A i \in 1 .. Len(stack) : i # Len(stack) => stack'[i] = stack[i]
      BY <1>1, <2>8, AdvanceEffect
    <3>2. Top' = stack'[Len(stack)] /\ Top' \in Call
      BY <2>1, <3>1 DEF Top
    <3>3. /\ Top'.at = Top.at /\ Top'.sub = << >> /\ Top'.dirs = dirs
          /\ Top'.l = Less(Top.l, Least) /\ Top'.r = Less(Top.r, Least)
      BY <2>1, <2>2, <3>1 DEF Call
    <3>4. DOMAIN Top'.l = DOMAIN Top.l \ {Least} /\ DOMAIN Top'.r = DOMAIN Top.r \ {Least}
      BY <2>3, <3>3, ListingParts
    <3> DEFINE g == Top'
    <3> HIDE DEF g
    <3>5. g \in Call /\ Popped(local, remote, DoDelete, local', Top, g, Least)
      BY <2>2, <2>3, <2>4, <2>5, <2>8, <3>2, <3>3, <3>4 DEF g, Popped
    <3>6. \A x \in Paths : ~IsPrefix(Append(Top.at, Least), x) => local'[x] = local[x]
      BY <2>4, <2>5
    <3>7. CallOK(local', remote, DoDelete, g)
      BY <2>1, <2>3, <2>6, <2>7, <3>5, MergeCall
    <3>8. SubDone'
      BY <3>3 DEF SubDone
    <3> QED
      BY <1>1, <1>3, <2>3, <3>1, <3>3, <3>6, <3>7, <3>8, MirrorKept DEF g
  <2>9. CASE Done(local', remote, DoDelete, q) /\ Advance(Top.dirs)
    BY <2>3, <2>8, <2>9 DEF Settled
  <2>10. CASE \E c \in BOOLEAN : Enqueued(q, c)
    <3>1. PICK c \in BOOLEAN : Enqueued(q, c)
      BY <2>10
    <3> DEFINE w == [name |-> Least, entry |-> remote[q], create |-> c]
    <3>2. /\ remote[q].type = "dir" /\ Advance(Append(Top.dirs, w))
          /\ DoDelete => local'[q].type = "dir" \/ (local'[q] = None /\ c)
      BY <3>1 DEF Enqueued
    <3>3. remote[q] \in Live
      BY <1>1, <2>5, <3>2, NoneType DEF Types, Trees
    <3>4. w \in Waiting
      BY <2>3, <3>2, <3>3 DEF Waiting, Live
    <3> HIDE DEF w
    <3>5. Append(Top.dirs, w) \in Seq(Waiting)
      BY <2>3, <3>4
    <3> QED
      BY <2>8, <3>2, <3>5 DEF w, Settled
  <2> QED
    BY <1>3, <2>9, <2>10, MergeSettles DEF q
<1> QED
  BY <1>1, <1>2, <1>3

-----------------------------------------------------------------------------
(* A directory is taken off the queue                                      *)

\* The elements of a queue without its first one.
LEMMA TailParts ==
  ASSUME NEW s \in Seq(Waiting), s # << >>
  PROVE  /\ Head(s) = s[1] /\ 1 \in 1 .. Len(s) /\ Head(s) \in Waiting /\ Tail(s) \in Seq(Waiting)
         /\ \A j \in 1 .. Len(Tail(s)) : j + 1 \in 1 .. Len(s) /\ Tail(s)[j] = s[j + 1]
         /\ \A j \in 1 .. Len(s) : j = 1 \/ (j - 1 \in 1 .. Len(Tail(s)) /\ Tail(s)[j - 1] = s[j])
<1>1. /\ Head(s) = s[1] /\ Len(s) \in Nat /\ Len(s) # 0 /\ Tail(s) \in Seq(Waiting)
      /\ Len(Tail(s)) = Len(s) - 1 /\ \A j \in 1 .. Len(s) - 1 : Tail(s)[j] = s[j + 1]
  OBVIOUS
<1>2. 1 \in 1 .. Len(s)
  BY <1>1
<1>3. \A j \in 1 .. Len(Tail(s)) : j + 1 \in 1 .. Len(s) /\ Tail(s)[j] = s[j + 1]
  BY <1>1
<1>4. ASSUME NEW j \in 1 .. Len(s), j # 1
      PROVE  j - 1 \in 1 .. Len(Tail(s)) /\ Tail(s)[j - 1] = s[j]
  <2>1. j - 1 \in 1 .. Len(s) - 1 /\ (j - 1) + 1 = j
    BY <1>1, <1>4
  <2> QED
    BY <1>1, <2>1
<1> QED
  BY <1>1, <1>2, <1>3, <1>4

\* A directory that is done may be left out.
LEMMA LeftOutCall ==
  ASSUME NEW lt, NEW rt, NEW del, NEW f \in Call, f.sub = << >>, f.dirs # << >>,
         CallOK(lt, rt, del, f), Done(lt, rt, del, Append(f.at, Head(f.dirs).name)),
         NEW g, g.at = f.at, g.l = f.l, g.r = f.r, g.dirs = Tail(f.dirs), g.sub = << >>
  PROVE  CallOK(lt, rt, del, g)
<1>1. f.dirs \in Seq(Waiting)
  BY CallNames
<1> DEFINE s == f.dirs
<1>2. /\ Head(s) = s[1]
      /\ \A j \in 1 .. Len(g.dirs) : j + 1 \in 1 .. Len(s) /\ g.dirs[j] = s[j + 1]
      /\ \A j \in 1 .. Len(s) : j = 1 \/ (j - 1 \in 1 .. Len(g.dirs) /\ g.dirs[j - 1] = s[j])
  BY <1>1, TailParts
<1> HIDE DEF s
<1>3. QueueOK(lt, rt, del, g)
  <2>1. \A j \in 1 .. Len(s) :
          LET d == s[j]
              p == Append(f.at, d.name)
          IN /\ d.name \notin DOMAIN f.l \cup DOMAIN f.r
             /\ rt[p] = d.entry
             /\ del => lt[p].type = "dir" \/ (lt[p] = None /\ d.create)
    BY DEF CallOK, QueueOK, s
  <2> QED
    BY <1>2, <2>1 DEF QueueOK
<1>4. SubOK(lt, rt, del, g)
  BY DEF SubOK
<1>5. NamesOK(lt, rt, del, g)
  <2> SUFFICES ASSUME NEW n \in Names, Append(f.at, n) \in Paths, ~Done(lt, rt, del, Append(f.at, n))
               PROVE  Pending(g, n)
    BY DEF NamesOK
  <2>1. Pending(f, n)
    BY DEF CallOK, NamesOK
  <2>2. CASE n \in DOMAIN f.l \cup DOMAIN f.r
    BY <2>2 DEF Pending
  <2>3. CASE \E j \in 1 .. Len(s) : s[j].name = n
    <3>1. PICK j \in 1 .. Len(s) : s[j].name = n
      BY <2>3
    <3>2. j # 1
      BY <1>2, <3>1 DEF s
    <3> QED
      BY <1>2, <3>1, <3>2 DEF Pending
  <2> QED
    BY <2>1, <2>2, <2>3 DEF Pending, s
<1> QED
  BY <1>3, <1>4, <1>5 DEF CallOK

(* The call f has become g by going down to the first directory d of its   *)
(* queue, at q, where the tree lt became t.                                *)
Down(lt, t, del, f, g, d, q) ==
  /\ f.sub = << >> /\ f.dirs # << >> /\ d = Head(f.dirs) /\ q = Append(f.at, d.name)
  /\ g.at = f.at /\ g.l = f.l /\ g.r = f.r /\ g.dirs = Tail(f.dirs) /\ g.sub # << >> /\ g.sub[1] = d
  /\ \A x \in Paths : x # q => t[x] = lt[x]
  /\ del => t[q].type = "dir"

\* A call goes down to a directory, which with dodelete is there.
LEMMA DownCall ==
  ASSUME NEW lt, NEW rt, NEW del, NEW t, NEW f \in Call, Len(f.at) < Depth,
         CallOK(lt, rt, del, f), NEW g, NEW d, NEW q, Down(lt, t, del, f, g, d, q)
  PROVE  CallOK(t, rt, del, g)
<1>0. /\ f.sub = << >> /\ f.dirs # << >> /\ d = Head(f.dirs) /\ q = Append(f.at, d.name)
      /\ g.at = f.at /\ g.l = f.l /\ g.r = f.r /\ g.dirs = Tail(f.dirs) /\ g.sub # << >> /\ g.sub[1] = d
      /\ \A x \in Paths : x # q => t[x] = lt[x]
      /\ del => t[q].type = "dir"
  BY DEF Down
<1> USE <1>0
<1>1. f.dirs \in Seq(Waiting) /\ f.at \in Seq(Names) /\ \A j \in 1 .. Len(f.dirs) : f.dirs[j].name \in Names
  BY CallNames
<1> DEFINE s == f.dirs
<1>2. /\ d = s[1] /\ 1 \in 1 .. Len(s)
      /\ \A j \in 1 .. Len(g.dirs) : j + 1 \in 1 .. Len(s) /\ g.dirs[j] = s[j + 1]
      /\ \A j \in 1 .. Len(s) : j = 1 \/ (j - 1 \in 1 .. Len(g.dirs) /\ g.dirs[j - 1] = s[j])
  BY <1>1, TailParts
<1>3. \A m \in Names : Append(f.at, m) \in Paths
  BY <1>1, PathAppend
<1>4. d.name \in Names /\ q \in Paths /\ q \in Seq(Names) /\ IsPrefix(q, q)
  BY <1>1, <1>2, <1>3, PathSeq, PrefixOrder
<1>5. \A j \in 1 .. Len(s) :
        LET w == s[j]
            p == Append(f.at, w.name)
        IN /\ w.name \notin DOMAIN f.l \cup DOMAIN f.r
           /\ rt[p] = w.entry
           /\ del => lt[p].type = "dir" \/ (lt[p] = None /\ w.create)
  BY DEF CallOK, QueueOK
<1> HIDE DEF s
<1>6. QueueOK(t, rt, del, g)
  <2> SUFFICES ASSUME NEW j \in 1 .. Len(g.dirs)
               PROVE  LET w == g.dirs[j]
                          p == Append(g.at, w.name)
                      IN /\ w.name \notin DOMAIN g.l \cup DOMAIN g.r
                         /\ rt[p] = w.entry
                         /\ del => t[p].type = "dir" \/ (t[p] = None /\ w.create)
    BY DEF QueueOK
  <2>1. j + 1 \in 1 .. Len(s) /\ g.dirs[j] = s[j + 1] /\ s[j + 1].name \in Names
    BY <1>1, <1>2 DEF s
  <2> DEFINE w == s[j + 1]
             p == Append(f.at, w.name)
  <2>2. p \in Paths
    BY <1>3, <2>1
  <2>3. /\ w.name \notin DOMAIN f.l \cup DOMAIN f.r
        /\ rt[p] = w.entry
        /\ del => lt[p].type = "dir" \/ (lt[p] = None /\ w.create)
    BY <1>5, <2>1
  <2>4. del => t[p].type = "dir" \/ (t[p] = None /\ w.create)
    BY <2>2, <2>3
  <2> QED
    BY <2>1, <2>3, <2>4
<1>7. SubOK(t, rt, del, g)
  <2>1. rt[q] = d.entry
    BY <1>2, <1>5 DEF s
  <2> QED
    BY <2>1 DEF SubOK, s
<1>8. NamesOK(t, rt, del, g)
  <2> SUFFICES ASSUME NEW n \in Names, ~Pending(g, n)
               PROVE  Done(t, rt, del, Append(f.at, n))
    BY DEF NamesOK
  <2>1. n # d.name
    BY DEF Pending, s
  <2>2. ~Pending(f, n)
    <3>1. n \notin DOMAIN f.l \cup DOMAIN f.r
      BY DEF Pending
    <3>2. ASSUME NEW j \in 1 .. Len(s), s[j].name = n PROVE FALSE
      <4>1. j # 1
        BY <1>2, <2>1, <3>2
      <4> QED
        BY <1>2, <3>2, <4>1 DEF Pending
    <3> QED
      BY <3>1, <3>2 DEF Pending, s
  <2>3. Done(lt, rt, del, Append(f.at, n))
    BY <1>3, <2>2 DEF CallOK, NamesOK
  <2>4. \A x \in Paths : ~IsPrefix(q, x) => t[x] = lt[x]
    BY <1>4
  <2>5. IsPrefix(Append(f.at, d.name), q)
    BY <1>4 DEF s
  <2> QED
    BY <1>1, <1>4, <2>1, <2>3, <2>4, <2>5, DoneKept
<1> QED
  BY <1>6, <1>7, <1>8 DEF CallOK

(* A call comes up from a directory in which all is done and which gets    *)
(* the attributes it has on the server.                                    *)
LEMMA UpCall ==
  ASSUME NEW lt, NEW rt, NEW del, NEW t, NEW f \in Call, f.sub # << >>, Len(f.at) < Depth,
         CallOK(lt, rt, del, f), NEW q, q = Append(f.at, f.sub[1].name), DoneBelow(lt, rt, del, q),
         \A x \in Paths : x # q => t[x] = lt[x], del => t[q] = rt[q], rt[q].type = "dir",
         NEW g, g.at = f.at, g.l = f.l, g.r = f.r, g.dirs = f.dirs, g.sub = << >>
  PROVE  CallOK(t, rt, del, g)
<1>1. /\ f.dirs \in Seq(Waiting) /\ f.at \in Seq(Names) /\ \A j \in 1 .. Len(f.dirs) : f.dirs[j].name \in Names
      /\ f.sub[1].name \in Names
  BY CallNames
<1>2. \A m \in Names : Append(f.at, m) \in Paths
  BY <1>1, PathAppend
<1>3. q \in Paths /\ q \in Seq(Names) /\ IsPrefix(q, q)
  BY <1>1, <1>2, PathSeq, PrefixOrder
<1>4. QueueOK(t, rt, del, g)
  <2> SUFFICES ASSUME NEW j \in 1 .. Len(f.dirs)
               PROVE  LET d == f.dirs[j]
                          p == Append(f.at, d.name)
                      IN /\ d.name \notin DOMAIN f.l \cup DOMAIN f.r
                         /\ rt[p] = d.entry
                         /\ del => t[p].type = "dir" \/ (t[p] = None /\ d.create)
    BY DEF QueueOK
  <2> DEFINE d == f.dirs[j]
             p == Append(f.at, d.name)
  <2>1. p \in Paths
    BY <1>1, <1>2
  <2>2. /\ d.name \notin DOMAIN f.l \cup DOMAIN f.r
        /\ rt[p] = d.entry
        /\ del => lt[p].type = "dir" \/ (lt[p] = None /\ d.create)
    BY DEF CallOK, QueueOK
  <2>3. del => t[p].type = "dir" \/ (t[p] = None /\ d.create)
    <3> HIDE DEF p
    <3> QED
      BY <2>1, <2>2
  <2> QED
    BY <2>2, <2>3
<1>5. SubOK(t, rt, del, g)
  BY DEF SubOK
<1>6. Done(t, rt, del, q)
  <2> SUFFICES ASSUME NEW x \in Unskipped, IsPrefix(q, x)
               PROVE  Good(t, rt, del, x)
    BY DEF Done
  <2>1. x \in Paths
    BY DEF Unskipped
  <2>2. CASE x = q
    BY <2>2 DEF Good
  <2>3. CASE x # q
    BY <2>1, <2>3 DEF DoneBelow, Good
  <2> QED
    BY <2>2, <2>3
<1>7. NamesOK(t, rt, del, g)
  <2> SUFFICES ASSUME NEW n \in Names, ~Pending(g, n), n # f.sub[1].name
               PROVE  Done(t, rt, del, Append(f.at, n))
    BY <1>6 DEF NamesOK
  <2>1. ~Pending(f, n)
    BY DEF Pending
  <2>2. Done(lt, rt, del, Append(f.at, n))
    BY <1>2, <2>1 DEF CallOK, NamesOK
  <2>3. \A x \in Paths : ~IsPrefix(q, x) => t[x] = lt[x]
    BY <1>3
  <2> QED
    BY <1>1, <1>3, <2>2, <2>3, DoneKept
<1> QED
  BY <1>4, <1>5, <1>7 DEF CallOK

\* A call that has nothing before it has done all in its directory.
LEMMA AllDone ==
  ASSUME NEW lt, NEW rt, NEW del, NEW f \in Call, CallOK(lt, rt, del, f),
         DOMAIN f.l \cup DOMAIN f.r = {}, f.dirs = << >>, f.sub = << >>
  PROVE  DoneBelow(lt, rt, del, f.at)
<1> SUFFICES ASSUME NEW x \in Unskipped, IsPrefix(f.at, x), x # f.at
             PROVE  Good(lt, rt, del, x)
  BY DEF DoneBelow
<1> DEFINE a == f.at
           k == Len(f.at) + 1
<1>1. x \in Seq(Names) /\ Len(x) \in 1 .. Depth /\ a \in Seq(Names) /\ Len(a) \in Nat
  BY PathSeq, CallNames DEF Unskipped
<1>2. Len(a) <= Len(x) /\ \A i \in 1 .. Len(a) : a[i] = x[i]
  BY <1>1, PrefixElements
<1>3. Len(a) # Len(x)
  BY <1>1, PrefixOrder
<1>4. k \in 1 .. Len(x) /\ Len(a) < Depth
  BY <1>1, <1>2, <1>3, ParamsAssumption
<1>5. x[k] \in Names
  BY <1>1, <1>4
<1> DEFINE p == Append(a, x[k])
<1>6. /\ p \in Paths /\ p \in Seq(Names) /\ Len(p) = k
      /\ p[k] = x[k] /\ \A i \in 1 .. Len(a) : p[i] = a[i]
  BY <1>1, <1>4, <1>5, PathAppend
<1> HIDE DEF p
<1>7. \A i \in 1 .. k : p[i] = x[i]
  BY <1>1, <1>2, <1>6
<1>8. IsPrefix(p, x)
  BY <1>1, <1>4, <1>6, <1>7, PrefixElements
<1>9. ~Pending(f, x[k])
  <2>1. Len(f.dirs) = 0
    OBVIOUS
  <2> QED
    BY <2>1 DEF Pending
<1>10. Done(lt, rt, del, p)
  BY <1>5, <1>6, <1>9 DEF CallOK, NamesOK, p
<1> QED
  BY <1>8, <1>10 DEF Done

-----------------------------------------------------------------------------
(* The invariant, for the queue of directories                             *)

LEMMA LeaveDirOutMirror ==
  ASSUME Fits
  PROVE  IInv /\ PlaceInv /\ MirrorInv /\ LeaveDirOut => MirrorInv'
<1> SUFFICES ASSUME IInv, PlaceInv, MirrorInv, LeaveDirOut PROVE MirrorInv'
  OBVIOUS
<1> DEFINE f == [Top EXCEPT !.dirs = Tail(@)]
           q == Here(Head(Top.dirs).name)
<1>1. /\ pc = "sync" /\ stack # << >> /\ Top.sub = << >> /\ Top.dirs # << >>
      /\ q \in Skip \/ ~NameFits \/ Faults
      /\ GoOn(f) /\ UNCHANGED <<local, remote, cur_dir, deletes, pc, param>>
  BY DEF LeaveDirOut, Descending
<1>2. CASE Faults
  BY <1>1, <1>2 DEF MirrorInv, Faults
<1>3. CASE ~Faults
  <2>1. /\ Types /\ Len(stack) \in Nat \ {0} /\ Top = stack[Len(stack)] /\ Top \in Call
        /\ Len(Top.at) < Depth /\ cur_dir = Top.at
    BY <1>1, TopInPlace DEF IInv
  <2>2. Top.dirs \in Seq(Waiting) /\ Top.at \in Seq(Names) /\ \A j \in 1 .. Len(Top.dirs) : Top.dirs[j].name \in Names
    BY <2>1, CallNames
  <2>3. Tail(Top.dirs) \in Seq(Waiting) /\ Head(Top.dirs).name \in Names
    BY <1>1, <2>2, TailParts
  <2>4. NameFits
    BY <2>1, <2>2, ParamsAssumption DEF Fits, NameFits, CurLen
  <2>5. q = Append(Top.at, Head(Top.dirs).name) /\ q \in Paths /\ q \in Skip
    BY <1>1, <1>3, <2>1, <2>2, <2>3, <2>4, PathAppend DEF Here
  <2>6. Done(local, remote, DoDelete, Append(Top.at, Head(Top.dirs).name))
    BY <2>5, SkippedDone
  <2>7. CallOK(local, remote, DoDelete, Top)
    BY <1>1, <1>3, <2>1 DEF MirrorInv
  <2>8. /\ f \in Call /\ f.at = Top.at /\ f.l = Top.l /\ f.r = Top.r
        /\ f.dirs = Tail(Top.dirs) /\ f.sub = << >>
    BY <1>1, <2>1, <2>3 DEF Call
  <2> HIDE DEF f, q
  <2>9. CallOK(local, remote, DoDelete, f)
    BY <1>1, <2>1, <2>6, <2>7, <2>8, LeftOutCall
  <2>10. /\ Len(stack') = Len(stack) /\ Top' = f
         /\ \A i \in 1 .. Len(stack) : i # Len(stack) => stack'[i] = stack[i]
    BY <1>1, <2>1, <2>8, GoOnEffect
  <2>11. SubDone'
    BY <2>8, <2>10 DEF SubDone
  <2> QED
    BY <1>1, <1>3, <2>3, <2>8, <2>9, <2>10, <2>11, MirrorKept
<1> QED
  BY <1>2, <1>3

LEMMA StepUpMirror == IInv /\ PlaceInv /\ MirrorInv /\ StepUp => MirrorInv'
<1> SUFFICES ASSUME IInv, PlaceInv, MirrorInv, StepUp PROVE MirrorInv'
  OBVIOUS
<1> DEFINE f == [Top EXCEPT !.sub = << >>]
           d == Top.sub[1]
           q == Append(Top.at, d.name)
<1>1. /\ pc = "sync" /\ stack # << >> /\ Top.sub # << >>
      /\ cur_dir' = IF cur_dir = << >> THEN << >> ELSE Front(cur_dir)
      /\ local' = DirAttributes(Append(cur_dir', d.name), d)
      /\ GoOn(f) /\ UNCHANGED <<remote, deletes, pc, param>>
  BY DEF StepUp
<1>2. CASE Faults
  BY <1>1, <1>2 DEF MirrorInv, Faults
<1>3. CASE ~Faults
  <2>1. /\ Types /\ Len(stack) \in Nat \ {0} /\ Top = stack[Len(stack)] /\ Top \in Call
        /\ Len(Top.at) < Depth /\ cur_dir = q
    BY <1>1, TopInPlace DEF IInv
  <2>2. Top.at \in Seq(Names) /\ d \in Waiting /\ d.name \in Names
    BY <1>1, <2>1, CallNames
  <2>3. q \in Paths /\ IsPrefix(q, q)
    BY <2>1, <2>2, PathAppend, PrefixOrder
  <2>4. cur_dir' = Top.at
    BY <1>1, <2>1, <2>2, FrontAppend
  <2>5. local' = DirAttributes(q, d)
    BY <1>1, <2>4
  <2>6. /\ CallOK(local, remote, DoDelete, Top) /\ DoneBelow(local, remote, DoDelete, q)
    BY <1>1, <1>3, <2>1 DEF MirrorInv, SubDone
  <2>7. remote[q] = d.entry /\ (DoDelete => local[q].type = "dir")
    BY <1>1, <2>6 DEF CallOK, SubOK
  <2>8. remote[q].type = "dir"
    BY <2>2, <2>7 DEF Waiting
  <2>9. \A x \in Paths : x # q => local'[x] = local[x]
    BY <2>4, StepUpTree
  <2>10. /\ f \in Call /\ f.at = Top.at /\ f.l = Top.l /\ f.r = Top.r
         /\ f.dirs = Top.dirs /\ f.sub = << >>
    <3>1. << >> \in Seq(Waiting)
      OBVIOUS
    <3> QED
      BY <2>1, <3>1 DEF Call
  <2> HIDE DEF f, q, d
  <2>11. DoDelete => local'[q] = remote[q]
    BY <2>1, <2>3, <2>5, <2>7 DEF DirAttributes, Types, Trees
  <2>12. q = Append(Top.at, Top.sub[1].name)
    BY DEF q, d
  <2>13. CallOK(local', remote, DoDelete, f)
    <3> DEFINE t == local'
               del == DoDelete
    <3>1. /\ Top.sub # << >> /\ Top \in Call /\ Len(Top.at) < Depth /\ CallOK(local, remote, del, Top)
          /\ DoneBelow(local, remote, del, q)
          /\ \A x \in Paths : x # q => t[x] = local[x]
          /\ del => t[q] = remote[q]
      BY <1>1, <2>1, <2>6, <2>9, <2>11
    <3> HIDE DEF t, del
    <3>2. CallOK(t, remote, del, f)
      BY <2>8, <2>10, <2>12, <3>1, UpCall
    <3> QED
      BY <3>2 DEF t, del
  <2>14. /\ Len(stack') = Len(stack) /\ Top' = f
         /\ \A i \in 1 .. Len(stack) : i # Len(stack) => stack'[i] = stack[i]
    BY <1>1, <2>1, <2>10, GoOnEffect
  <2>15. SubDone'
    BY <2>10, <2>14 DEF SubDone
  <2>16. \A x \in Paths : ~IsPrefix(Append(Top.at, d.name), x) => local'[x] = local[x]
    BY <2>3, <2>9 DEF q
  <2> QED
    BY <1>1, <1>3, <2>2, <2>10, <2>13, <2>14, <2>15, <2>16, MirrorKept
<1> QED
  BY <1>2, <1>3

LEMMA ReturnMirror == IInv /\ PlaceInv /\ MirrorInv /\ Return => MirrorInv'
<1> SUFFICES ASSUME IInv, PlaceInv, MirrorInv, Return PROVE MirrorInv'
  OBVIOUS
<1>1. /\ pc = "sync" /\ stack # << >> /\ stack' = Front(stack)
      /\ DOMAIN Top.l \cup DOMAIN Top.r = {} /\ Top.sub = << >> /\ Top.dirs = << >>
      /\ pc' = IF Len(stack) = 1 THEN "done" ELSE pc
      /\ UNCHANGED <<local, remote, cur_dir, deletes, param>>
  BY DEF Return, Descending
<1>2. /\ Len(stack) \in Nat /\ Len(stack) # 0 /\ Top = stack[Len(stack)] /\ Top \in Call
      /\ Len(Top.at) = Len(stack) - 1
  BY <1>1, TopInPlace
<1>3. CASE Faults
  BY <1>1, <1>3 DEF MirrorInv, Faults
<1>4. CASE ~Faults
  <2>1. /\ Nested /\ \A i \in 1 .. Len(stack) : CallOK(local, remote, DoDelete, stack[i])
    BY <1>1, <1>4 DEF MirrorInv
  <2>2. DoneBelow(local, remote, DoDelete, Top.at)
    BY <1>1, <1>2, <2>1, AllDone
  <2>3. Top.at \in Seq(Names)
    BY <1>2, CallNames
  <2>4. CASE Len(stack) = 1
    <3>1. Top.at = << >>
      BY <1>2, <2>3, <2>4
    <3>2. ASSUME NEW x \in Unskipped
          PROVE  Good(local, remote, DoDelete, x)
      <4>1. x \in Seq(Names) /\ Len(x) \in 1 .. Depth
        BY PathSeq DEF Unskipped
      <4>2. x # << >>
        BY <4>1
      <4>3. IsPrefix(Top.at, x)
        <5>1. Len(Top.at) = 0
          BY <3>1
        <5> QED
          BY <2>3, <4>1, <5>1, PrefixElements
      <4> QED
        BY <2>2, <3>1, <4>2, <4>3 DEF DoneBelow
    <3>3. Mirrored'
      BY <1>1, <3>2 DEF Mirrored, AsOnServer, Good, DoDelete
    <3> QED
      BY <1>1, <2>4, <3>3 DEF MirrorInv
  <2>5. CASE Len(stack) # 1
    <3> DEFINE k == Len(stack) - 1
    <3>1. /\ Len(stack') = k /\ \A i \in 1 .. k : stack'[i] = stack[i]
      BY <1>1, FrontEffect DEF IInv, Types
    <3>2. k \in 1 .. k /\ k \in 1 .. Len(stack) /\ k + 1 = Len(stack) /\ k < Len(stack)
      <4>1. \A n \in Nat : n # 0 /\ n # 1 =>
              n - 1 \in 1 .. n - 1 /\ n - 1 \in 1 .. n /\ (n - 1) + 1 = n /\ n - 1 < n
        OBVIOUS
      <4> QED
        BY <1>2, <2>5, <4>1
    <3>3. Top' = stack[k]
      BY <3>1, <3>2 DEF Top
    <3>4. Top.at = Append(stack[k].at, stack[k].sub[1].name)
      BY <1>1, <1>2, <3>2 DEF PlaceInv, CallInPlace
    <3>5. SubDone'
      BY <1>1, <2>2, <3>3, <3>4 DEF SubDone, DoDelete
    <3>6. \A i \in 1 .. k : i \in 1 .. Len(stack)
      BY <1>2
    <3> HIDE DEF k
    <3>7. Nested'
      BY <2>1, <3>1, <3>6 DEF Nested
    <3>8. \A i \in 1 .. Len(stack') : CallOK(local, remote, DoDelete, stack[i])'
      BY <1>1, <2>1, <3>1, <3>6 DEF DoDelete
    <3>9. Mirrored'
      BY <1>1, <2>5 DEF Mirrored
    <3> QED
      BY <3>5, <3>7, <3>8, <3>9 DEF MirrorInv
  <2> QED
    BY <2>4, <2>5
<1> QED
  BY <1>3, <1>4

LEMMA DescendMirror ==
  ASSUME Fits
  PROVE  IInv /\ PlaceInv /\ MirrorInv /\ Descend => MirrorInv'
<1> SUFFICES ASSUME IInv, PlaceInv, MirrorInv, Descend PROVE MirrorInv'
  OBVIOUS
<1> DEFINE d  == Head(Top.dirs)
           to == IF CdFits THEN Here(d.name) ELSE cur_dir
           q  == Append(Top.at, d.name)
           caller == [Top EXCEPT !.dirs = Tail(@), !.sub = <<d>>]
           calls  == [stack EXCEPT ![Len(stack)] = caller]
           callee == [at |-> Here(d.name), l |-> Listing(local', to), r |-> Listing(remote, to),
                      dirs |-> << >>, sub |-> << >>]
<1>1. /\ pc = "sync" /\ stack # << >> /\ Top.sub = << >> /\ Top.dirs # << >>
      /\ local' = MadeDir(Here(d.name), d) /\ UNCHANGED <<remote, deletes, pc, param>>
  BY DEF Descend, Descending
<1>2. \/ stack' = Append(calls, callee)
      \/ /\ Faults \/ ~IsDir(local', to) \/ ~IsDir(remote, to) \/ ShownBlank(remote, to)
         /\ stack' = calls
  BY DEF Descend
<1>3. CASE Faults
  BY <1>1, <1>3 DEF MirrorInv, Faults
<1>4. CASE ~Faults
  <2>1. /\ Top \in Call /\ Len(stack) \in Nat \ {0} /\ Top = stack[Len(stack)] /\ Types
        /\ Len(Top.at) < Depth /\ cur_dir = Top.at
    BY <1>1, TopInPlace DEF IInv
  <2>2. /\ Top.dirs \in Seq(Waiting) /\ Top.at \in Seq(Names)
        /\ Tail(Top.dirs) \in Seq(Waiting) /\ d \in Waiting /\ d = Top.dirs[1] /\ 1 \in 1 .. Len(Top.dirs)
    BY <1>1, <2>1, CallNames, TailParts
  <2>3. CdFits
    BY <2>1, <2>2, ParamsAssumption DEF Fits, CdFits, CurLen
  <2>4. Here(d.name) = q /\ to = q
    BY <2>1, <2>3 DEF Here
  <2>5. d.name \in Names /\ d.entry.type = "dir"
    <3> HIDE DEF d
    <3> QED
      BY <2>2 DEF Waiting
  <2>6. q \in Paths /\ q \in Seq(Names) /\ IsPrefix(q, q)
    BY <2>1, <2>2, <2>5, PathAppend, PrefixOrder
  <2>7. /\ local' \in Trees /\ WellFormed(local')
        /\ \A x \in Paths : x # q => local'[x] = local[x]
    BY <2>4, DescendTree
  <2>8. /\ Nested /\ \A i \in 1 .. Len(stack) : CallOK(local, remote, DoDelete, stack[i])
        /\ CallOK(local, remote, DoDelete, Top)
    BY <1>1, <1>4, <2>1 DEF MirrorInv
  <2>9. remote[q] = d.entry /\ (DoDelete => local[q].type = "dir" \/ (local[q] = None /\ d.create))
    BY <2>2, <2>8 DEF CallOK, QueueOK
  <2>10. local' = MadeDir(q, d)
    BY <1>1, <2>4
  <2>11. caller.at = Top.at /\ caller.l = Top.l /\ caller.r = Top.r /\ caller.dirs = Tail(Top.dirs)
         /\ caller.sub = <<d>> /\ caller \in Call
    <3> HIDE DEF d
    <3>1. <<d>> \in Seq(Waiting)
      BY <2>2
    <3> QED
      BY <2>1, <2>2, <3>1 DEF Call
  <2>12. caller.sub # << >> /\ caller.sub[1] = d
    BY <2>11
  <2>13. callee.at = q /\ callee.l = Listing(local', q) /\ callee.r = Listing(remote, q)
         /\ callee.dirs = << >> /\ callee.sub = << >>
    BY <2>4
  <2> HIDE DEF caller, callee
  <2>14. /\ Len(calls) = Len(stack) /\ calls[Len(stack)] = caller /\ calls \in Seq(Call)
         /\ \A i \in 1 .. Len(stack) : i # Len(stack) => calls[i] = stack[i]
    BY <2>1, <2>11 DEF Types
  <2>15. d = Head(Top.dirs) /\ q = Append(Top.at, d.name)
    OBVIOUS
  <2> HIDE DEF calls, d, q, to
  <2>16. DoDelete => local'[q].type = "dir"
    <3>1. OpenDir.type = "dir"
      BY DEF OpenDir
    <3>2. CASE local[q] = None /\ d.create
      BY <2>1, <2>6, <2>10, <3>1, <3>2, NoneType DEF MadeDir, Types, Trees
    <3>3. CASE local[q].type = "dir"
      BY <2>1, <2>6, <2>10, <3>1, <3>3, NoneType DEF MadeDir, Types, Trees
    <3> QED
      BY <2>9, <3>2, <3>3
  <2>17. CallOK(local', remote, DoDelete, caller)
    <3>1. Down(local, local', DoDelete, Top, caller, d, q)
      BY <1>1, <2>7, <2>11, <2>12, <2>15, <2>16 DEF Down
    <3> QED
      BY <2>1, <2>8, <3>1, DownCall
  <2>18. \A x \in Paths : ~IsPrefix(Append(Top.at, d.name), x) => local'[x] = local[x]
    BY <2>6, <2>7 DEF q
  <2>19. CASE stack' = calls
    <3>1. Top' = caller /\ Len(stack') = Len(stack)
      BY <2>14, <2>19 DEF Top
    <3>2. stack' # Append(calls, callee)
      BY <2>14, <2>19
    <3>3. ~IsDir(local', q) \/ (IsDir(remote, q) /\ ShownBlank(remote, q))
      BY <1>2, <1>4, <2>4, <2>5, <2>6, <2>9, <3>2 DEF IsDir
    <3>5. ASSUME NEW x \in Unskipped, IsPrefix(q, x), x # q
          PROVE  Good(local', remote, DoDelete, x)
      <4>1. x \in Paths
        BY DEF Unskipped
      <4>2. CASE ~IsDir(local', q)
        <5>1. local'[q].type # "dir" /\ ~DoDelete
          BY <2>6, <2>16, <4>2 DEF IsDir
        <5>2. local'[x] = None
          BY <2>6, <2>7, <3>5, <4>1, <5>1, LeafBelow
        <5>3. local'[x].type # "file"
          BY <5>2, NoneType
        <5> QED
          BY <5>1, <5>3 DEF Good
      <4>3. CASE IsDir(remote, q) /\ ShownBlank(remote, q)
        BY <2>6, <3>5, <4>1, <4>3, OverlookedBelow DEF Good
      <4> QED
        BY <3>3, <4>2, <4>3
    <3>6. SubDone'
      <4>1. DoneBelow(local', remote, DoDelete, q)
        BY <3>5 DEF DoneBelow
      <4>2. Append(caller.at, caller.sub[1].name) = q
        BY <2>11, <2>12 DEF q
      <4> QED
        BY <1>1, <3>1, <4>1, <4>2 DEF SubDone, DoDelete
    <3> QED
      BY <1>1, <1>4, <2>5, <2>11, <2>14, <2>17, <2>18, <2>19, <3>1, <3>6, MirrorKept
  <2>20. CASE stack' = Append(calls, callee)
    <3> DEFINE n == Len(stack) + 1
    <3>1. /\ Len(stack') = n /\ stack'[n] = callee
          /\ \A i \in 1 .. Len(stack) : stack'[i] = calls[i]
      BY <2>1, <2>14, <2>20
    <3>2. Top' = callee
      BY <3>1 DEF Top
    <3>3. DoDelete' = DoDelete /\ remote' = remote /\ DoDelete \in BOOLEAN
      BY <1>1, <2>1 DEF DoDelete, Types, Param
    <3>4. CallOK(local', remote, DoDelete, callee)
      <4>1. remote \in Trees /\ WellFormed(remote)
        BY DEF IInv, TreeInv, Types
      <4> QED
        BY <2>7, <2>13, <3>3, <4>1, ListingDone
    <3>5. ASSUME NEW i \in 1 .. n
          PROVE  CallOK(local', remote', DoDelete', stack'[i])
      <4>1. CASE i = n
        BY <3>1, <3>3, <3>4, <4>1
      <4>2. CASE i = Len(stack)
        BY <2>1, <2>14, <2>17, <3>1, <3>3, <4>2
      <4>3. CASE i # n /\ i # Len(stack)
        <5>1. i \in 1 .. Len(stack) /\ stack'[i] = stack[i]
          BY <2>1, <2>14, <3>1, <4>3
        <5>2. CallOK(local', remote, DoDelete, stack[i])
          BY <1>1, <2>5, <2>8, <2>18, <4>3, <5>1, OuterKept
        <5> QED
          BY <3>3, <5>1, <5>2
      <4> QED
        BY <4>1, <4>2, <4>3
    <3>6. Nested'
      <4> SUFFICES ASSUME NEW i \in 1 .. n, NEW j \in 1 .. n, i < j
                   PROVE  IsPrefix(Append(stack'[i].at, stack'[i].sub[1].name), stack'[j].at)
        BY <3>1 DEF Nested
      <4>1. i \in 1 .. Len(stack) /\ stack'[i] = calls[i]
        BY <2>1, <3>1
      <4>2. CASE i = Len(stack)
        <5>1. j = n
          BY <2>1, <4>2
        <5>2. stack'[i] = caller /\ stack'[j] = callee
          BY <2>14, <3>1, <4>1, <4>2, <5>1
        <5> QED
          BY <2>6, <2>11, <2>12, <2>13, <5>2 DEF q
      <4>3. CASE i # Len(stack)
        <5>1. stack'[i] = stack[i]
          BY <2>14, <4>1, <4>3
        <5>2. CASE j # n
          <6>1. j \in 1 .. Len(stack) /\ stack'[j].at = stack[j].at
            BY <2>1, <2>11, <2>14, <3>1, <5>2
          <6> QED
            BY <2>8, <4>1, <5>1, <6>1 DEF Nested
        <5>3. CASE j = n
          <6> DEFINE p == Append(stack[i].at, stack[i].sub[1].name)
          <6>1. Len(stack) \in 1 .. Len(stack) /\ i < Len(stack)
            BY <2>1, <4>1, <4>3
          <6>2. IsPrefix(p, Top.at)
            BY <2>1, <2>8, <4>1, <6>1 DEF Nested
          <6>3. p \in Seq(Names)
            <7>1. stack[i] \in Call /\ stack[i].sub # << >>
              BY <1>1, <2>1, <4>1, <6>1 DEF Types, IInv, TreeInv, Waits
            <7>2. stack[i].at \in Seq(Names) /\ stack[i].sub[1].name \in Names
              BY <7>1, CallNames
            <7> QED
              BY <7>2
          <6> HIDE DEF p
          <6>4. IsPrefix(p, Append(Top.at, d.name))
            BY <2>2, <2>5, <6>2, <6>3, PrefixAppend
          <6>5. stack'[j].at = Append(Top.at, d.name)
            BY <2>13, <3>1, <5>3 DEF q
          <6> QED
            BY <5>1, <6>4, <6>5 DEF p
        <5> QED
          BY <5>2, <5>3
      <4> QED
        BY <4>2, <4>3
    <3>7. SubDone' /\ Mirrored'
      BY <1>1, <2>13, <3>2 DEF SubDone, Mirrored
    <3>8. \A i \in 1 .. Len(stack') : CallOK(local, remote, DoDelete, stack[i])'
      BY <3>1, <3>5
    <3> QED
      BY <3>6, <3>7, <3>8 DEF MirrorInv
  <2> QED
    BY <1>2, <2>19, <2>20
<1> QED
  BY <1>3, <1>4

\* MirrorInv is inductive together with IInv and PlaceInv.
LEMMA MirrorInvariance ==
  ASSUME Fits
  PROVE  Spec => []MirrorInv
<1>1. Init => MirrorInv
  BY InitMirror
<1>2. IInv /\ PlaceInv /\ MirrorInv /\ [Next]_vars => MirrorInv'
  <2> SUFFICES ASSUME IInv, PlaceInv, MirrorInv, [Next]_vars PROVE MirrorInv'
    OBVIOUS
  <2>1. CASE Quit
    BY <2>1 DEF Quit, MirrorInv, Faults
  <2>2. CASE UNCHANGED vars
    BY <2>2 DEF vars, MirrorInv, Mirrored, AsOnServer, Nested, SubDone, Faults, DoDelete, Top
  <2> QED
    BY <2>1, <2>2, MergeMirror, LeaveDirOutMirror, DescendMirror, StepUpMirror, ReturnMirror DEF Next, Ended
<1> QED
  BY <1>1, <1>2, PlaceInvariance, PTL DEF Spec

(* A run of sp_sync_dir in which nothing fails ends with the remote tree,  *)
(* except for what is skipped and for what is below a directory whose      *)
(* listing is blank, when dodelete is set, and without dodelete with the   *)
(* remote one of every plain file that both sides have: for all            *)
(* well-formed trees whose longest path fits into PATH_MAX, every set of   *)
(* skipped paths, every way of listing empty directories and every limit   *)
(* of deletes.                                                             *)
THEOREM MirrorsTree ==
  ASSUME Fits
  PROVE  Spec => []Mirrored
<1>1. MirrorInv => Mirrored
  BY DEF MirrorInv, Mirrored
<1> QED
  BY <1>1, MirrorInvariance, PTL

(* When the server lists "." and "..", so that no listing is blank, such a *)
(* run makes a complete mirror but for what is skipped.                    *)
THEOREM MirrorsAll ==
  ASSUME Fits, Blank = {}
  PROVE  Spec => []CompleteMirror
<1>1. Mirrored => CompleteMirror
  BY DEF Mirrored, CompleteMirror, Overlooked, ShownBlank
<1> QED
  BY <1>1, MirrorsTree, PTL
=============================================================================
