-------------------------- MODULE LinkFilter_proofs --------------------------
(* Which links become directories and which entries are left out, for      *)
(* directories, links and expressions of any length and number.            *)
EXTENDS LinkFilter, SequenceTheorems, WellFoundedInduction, TLAPS

-----------------------------------------------------------------------------
(* Induction, by the least element of a set of numbers                     *)

LEMMA Least ==
  ASSUME NEW T \in SUBSET Nat, T # {}
  PROVE  \E x \in T : \A y \in T : x <= y
<1>1. PICK x \in T : \A y \in T : ~(<<y, x>> \in OpToRel(<, Nat))
  BY WFMin, NatLessThanWellFounded
<1>2. \A y \in T : ~(y < x)
  BY <1>1 DEF OpToRel
<1> QED
  BY <1>2

LEMMA UpTo ==
  ASSUME NEW n \in Nat, NEW S, 0 \in S, \A k \in 1 .. n : k - 1 \in S => k \in S
  PROVE  0 .. n \subseteq S
<1> SUFFICES ASSUME (0 .. n) \ S # {} PROVE FALSE
  OBVIOUS
<1>1. (0 .. n) \ S \in SUBSET Nat
  OBVIOUS
<1>2. PICK x \in (0 .. n) \ S : \A y \in (0 .. n) \ S : x <= y
  BY <1>1, Least
<1> QED
  BY <1>2

LEMMA Empty == EmptyName # "." /\ EmptyName # ".."
<1>1. EmptyName # "."
  BY Zenon DEF EmptyName
<1>2. EmptyName # ".."
  BY Zenon DEF EmptyName
<1> QED
  BY <1>1, <1>2

-----------------------------------------------------------------------------
(* The recursive functions                                                 *)

LEMMA LoopDef ==
  ASSUME NEW start, NEW link, Len(link) \in Nat
  PROVE  /\ Loop(start, link)[0] = [buf |-> start, slash |-> FALSE]
         /\ \A k \in 1 .. Len(link) :
              Loop(start, link)[k] = LoopStep(Loop(start, link)[k - 1], link, k)
<1> DEFINE First == [buf |-> start, slash |-> FALSE]
           Step(b, k) == LoopStep(b, link, k)
           Is(g, n) == g = [k \in 0 .. n |-> IF k = 0 THEN First ELSE Step(g[k - 1], k)]
           S == {n \in Nat : \E g : Is(g, n)}
<1> HIDE DEF First, Step
<1>1. 0 \in S
  <2>1. Is([k \in 0 .. 0 |-> First], 0)
    OBVIOUS
  <2> QED
    BY <2>1
<1>2. \A n \in 1 .. Len(link) : n - 1 \in S => n \in S
  <2> SUFFICES ASSUME NEW n \in 1 .. Len(link), n - 1 \in S PROVE n \in S
    OBVIOUS
  <2>1. PICK g : Is(g, n - 1)
    OBVIOUS
  <2>2. \A k \in 0 .. n - 1 : g[k] = IF k = 0 THEN First ELSE Step(g[k - 1], k)
    BY <2>1
  <2> DEFINE h == [k \in 0 .. n |-> IF k = n THEN Step(g[n - 1], n) ELSE g[k]]
  <2>3. \A k \in 0 .. n : h[k] = IF k = 0 THEN First ELSE Step(h[k - 1], k)
    <3> SUFFICES ASSUME NEW k \in 0 .. n
                 PROVE  h[k] = IF k = 0 THEN First ELSE Step(h[k - 1], k)
      OBVIOUS
    <3>1. CASE k = n
      <4>1. h[k] = Step(g[n - 1], n) /\ h[k - 1] = g[n - 1] /\ k # 0
        BY <3>1
      <4> QED
        BY <3>1, <4>1
    <3>2. CASE k # n
      <4>1. h[k] = g[k] /\ (k # 0 => h[k - 1] = g[k - 1])
        BY <3>2
      <4> QED
        BY <2>2, <3>2, <4>1
    <3> QED
      BY <3>1, <3>2
  <2>4. h = [k \in 0 .. n |-> h[k]]
    OBVIOUS
  <2> HIDE DEF h
  <2>5. Is(h, n)
    BY <2>3, <2>4
  <2> QED
    BY <2>5
<1>3. \E g : Is(g, Len(link))
  <2> HIDE DEF S
  <2>1. 0 .. Len(link) \subseteq S
    BY <1>1, <1>2, UpTo
  <2>2. Len(link) \in S
    BY <2>1
  <2> QED
    BY <2>2 DEF S
<1>4. Is(Loop(start, link), Len(link))
  BY <1>3 DEF Loop, First, Step
<1>5. \A k \in 0 .. Len(link) : Loop(start, link)[k] = IF k = 0 THEN First ELSE Step(Loop(start, link)[k - 1], k)
  BY <1>4
<1>6. Loop(start, link)[0] = First
  BY <1>5
<1>7. \A k \in 1 .. Len(link) : Loop(start, link)[k] = Step(Loop(start, link)[k - 1], k)
  BY <1>5
<1> QED
  BY <1>6, <1>7 DEF First, Step

LEMMA DotsDef ==
  ASSUME NEW link, Len(link) \in Nat
  PROVE  /\ WithoutDots(link)[0] = << >>
         /\ \A k \in 1 .. Len(link) :
              WithoutDots(link)[k] = IF link[k] = "." THEN WithoutDots(link)[k - 1]
                                     ELSE Append(WithoutDots(link)[k - 1], link[k])
<1> DEFINE First == << >>
           Step(b, k) == IF link[k] = "." THEN b ELSE Append(b, link[k])
           Is(g, n) == g = [k \in 0 .. n |-> IF k = 0 THEN First ELSE Step(g[k - 1], k)]
           S == {n \in Nat : \E g : Is(g, n)}
<1> HIDE DEF First, Step
<1>1. 0 \in S
  <2>1. Is([k \in 0 .. 0 |-> First], 0)
    OBVIOUS
  <2> QED
    BY <2>1
<1>2. \A n \in 1 .. Len(link) : n - 1 \in S => n \in S
  <2> SUFFICES ASSUME NEW n \in 1 .. Len(link), n - 1 \in S PROVE n \in S
    OBVIOUS
  <2>1. PICK g : Is(g, n - 1)
    OBVIOUS
  <2>2. \A k \in 0 .. n - 1 : g[k] = IF k = 0 THEN First ELSE Step(g[k - 1], k)
    BY <2>1
  <2> DEFINE h == [k \in 0 .. n |-> IF k = n THEN Step(g[n - 1], n) ELSE g[k]]
  <2>3. \A k \in 0 .. n : h[k] = IF k = 0 THEN First ELSE Step(h[k - 1], k)
    <3> SUFFICES ASSUME NEW k \in 0 .. n
                 PROVE  h[k] = IF k = 0 THEN First ELSE Step(h[k - 1], k)
      OBVIOUS
    <3>1. CASE k = n
      <4>1. h[k] = Step(g[n - 1], n) /\ h[k - 1] = g[n - 1] /\ k # 0
        BY <3>1
      <4> QED
        BY <3>1, <4>1
    <3>2. CASE k # n
      <4>1. h[k] = g[k] /\ (k # 0 => h[k - 1] = g[k - 1])
        BY <3>2
      <4> QED
        BY <2>2, <3>2, <4>1
    <3> QED
      BY <3>1, <3>2
  <2>4. h = [k \in 0 .. n |-> h[k]]
    OBVIOUS
  <2> HIDE DEF h
  <2>5. Is(h, n)
    BY <2>3, <2>4
  <2> QED
    BY <2>5
<1>3. \E g : Is(g, Len(link))
  <2> HIDE DEF S
  <2>1. 0 .. Len(link) \subseteq S
    BY <1>1, <1>2, UpTo
  <2>2. Len(link) \in S
    BY <2>1
  <2> QED
    BY <2>2 DEF S
<1>4. Is(WithoutDots(link), Len(link))
  BY <1>3 DEF WithoutDots, First, Step
<1>5. \A k \in 0 .. Len(link) : WithoutDots(link)[k] = IF k = 0 THEN First ELSE Step(WithoutDots(link)[k - 1], k)
  BY <1>4
<1> QED
  BY <1>5 DEF First, Step

-----------------------------------------------------------------------------
(* Where a link leads to                                                   *)

\* A name that is neither empty nor a dot or two is one more name of the path.
LEMMA StepDown ==
  ASSUME NEW buf \in Seq(STRING), NEW link, NEW k, link[k] \in STRING, link[k] \notin {EmptyName, ".."}
  PROVE  LoopStep([buf |-> buf, slash |-> FALSE], link, k) =
           [buf |-> IF link[k] = "." THEN buf ELSE Append(buf, link[k]), slash |-> FALSE]
<1>1. symlink_cd(<<link[k]>>, buf) = IF link[k] = "." THEN buf ELSE buf \o <<link[k]>>
  <2>1. <<link[k]>> # <<EmptyName>> /\ <<link[k]>> # <<"..">> /\ <<link[k]>> # <<EmptyName, EmptyName>>
    OBVIOUS
  <2>2. (<<link[k]>> = <<".">>) <=> link[k] = "."
    OBVIOUS
  <2> QED
    BY <2>1, <2>2 DEF symlink_cd
<1>2. buf \o <<link[k]>> = Append(buf, link[k])
  OBVIOUS
<1> QED
  BY <1>1, <1>2 DEF LoopStep

LEMMA SingleSeq ==
  ASSUME NEW T, NEW c \in T
  PROVE  <<c>> \in Seq(T)
  OBVIOUS

LEMMA AppendConcat ==
  ASSUME NEW a \in Seq(STRING), NEW b \in Seq(STRING), NEW c \in STRING
  PROVE  Append(a \o b, c) = a \o Append(b, c)
<1>1. PICK d \in Seq(STRING) : d = <<c>>
  <2>1. <<c>> \in Seq(STRING)
    BY SingleSeq, Zenon
  <2> QED
    BY <2>1, Zenon
<1>2. Append(b, c) = b \o d
  BY <1>1, AppendIsConcat
<1>3. a \o b \in Seq(STRING)
  BY ConcatProperties
<1>4. Append(a \o b, c) = (a \o b) \o d
  BY <1>1, <1>3, AppendIsConcat
<1> QED
  BY <1>2, <1>4, ConcatAssociative

\* A link that leads downward is resolved to where it leads to.
LEMMA Resolves ==
  ASSUME NEW dir \in Seq(STRING), NEW link \in Seq(STRING),
         \A i \in DOMAIN link : link[i] \notin {EmptyName, ".."}
  PROVE  /\ WithoutDots(link)[Len(link)] \in Seq(STRING)
         /\ Loop(dir, link)[Len(link)].buf = dir \o WithoutDots(link)[Len(link)]
<1> DEFINE S == {k \in 0 .. Len(link) :
                   /\ WithoutDots(link)[k] \in Seq(STRING)
                   /\ Loop(dir, link)[k] = [buf |-> dir \o WithoutDots(link)[k], slash |-> FALSE]}
<1>1. Len(link) \in Nat
  OBVIOUS
<1>2. 0 \in S
  <2>1. dir \o << >> = dir
    OBVIOUS
  <2> QED
    <3>1. Loop(dir, link)[0] = [buf |-> dir, slash |-> FALSE] /\ WithoutDots(link)[0] = << >>
      BY <1>1, LoopDef, DotsDef
    <3>2. WithoutDots(link)[0] \in Seq(STRING)
      BY <3>1
    <3>3. Loop(dir, link)[0] = [buf |-> dir \o WithoutDots(link)[0], slash |-> FALSE]
      BY <2>1, <3>1
    <3> QED
      BY <1>1, <3>2, <3>3
<1>3. \A k \in 1 .. Len(link) : k - 1 \in S => k \in S
  <2> SUFFICES ASSUME NEW k \in 1 .. Len(link), k - 1 \in S PROVE k \in S
    OBVIOUS
  <2>1. link[k] \in STRING /\ link[k] \notin {EmptyName, ".."}
    OBVIOUS
  <2>2. PICK w \in Seq(STRING) : w = WithoutDots(link)[k - 1]
    OBVIOUS
  <2>3. Loop(dir, link)[k - 1] = [buf |-> dir \o w, slash |-> FALSE]
    BY <2>2
  <2>4. dir \o w \in Seq(STRING)
    OBVIOUS
  <2>5. Loop(dir, link)[k] =
          [buf |-> IF link[k] = "." THEN dir \o w ELSE Append(dir \o w, link[k]), slash |-> FALSE]
    <3>1. Loop(dir, link)[k] = LoopStep(Loop(dir, link)[k - 1], link, k)
      BY <1>1, LoopDef
    <3>2. PICK b \in Seq(STRING) : b = dir \o w
      BY <2>4
    <3>3. LoopStep([buf |-> b, slash |-> FALSE], link, k) =
            [buf |-> IF link[k] = "." THEN b ELSE Append(b, link[k]), slash |-> FALSE]
      BY <2>1, StepDown
    <3> QED
      BY <2>3, <3>1, <3>2, <3>3
  <2>6. WithoutDots(link)[k] = IF link[k] = "." THEN w ELSE Append(w, link[k])
    BY <1>1, <2>2, DotsDef
  <2>7. Append(dir \o w, link[k]) = dir \o Append(w, link[k]) /\ Append(w, link[k]) \in Seq(STRING)
    <3>1. PICK c \in STRING : c = link[k]
      BY <2>1
    <3>2. Append(dir \o w, c) = dir \o Append(w, c)
      BY AppendConcat
    <3>3. Append(w, c) \in Seq(STRING)
      BY AppendProperties
    <3> QED
      BY <3>1, <3>2, <3>3
  <2>8. WithoutDots(link)[k] \in Seq(STRING)
    BY <2>6, <2>7
  <2>9. Loop(dir, link)[k] = [buf |-> dir \o WithoutDots(link)[k], slash |-> FALSE]
    BY <2>5, <2>6, <2>7
  <2> QED
    BY <2>8, <2>9
<1>4. Len(link) \in S
  <2> HIDE DEF S
  <2>1. 0 .. Len(link) \subseteq S
    BY <1>1, <1>2, <1>3, UpTo
  <2> QED
    BY <1>1, <2>1
<1> QED
  BY <1>4

\* The dot is taken off a path that starts with one.
LEMMA RootedPath ==
  ASSUME NEW path, path[1] = "."
  PROVE  WithoutFirst(path) = {Rooted(path)}
<1>1. path # <<EmptyName>> /\ path[1] # EmptyName /\ path[1] # ".."
  BY Empty
<1> QED
  BY <1>1 DEF WithoutFirst, Rooted

\* what is known of the directory and the entry
Sound ==
  /\ cur \in Seq(STRING) /\ cur # << >> /\ cur[1] = "."
  /\ ent.name \in STRING /\ ent.link \in Seq(STRING)

LEMMA NameRooted ==
  ASSUME Sound
  PROVE  WithoutFirst(FullName) = {Rooted(FullName)}
<1>1. FullName[1] = "."
  BY DEF FullName, Sound
<1> QED
  BY <1>1, RootedPath

LEMMA LinkRooted ==
  ASSUME Sound, Downward
  PROVE  /\ spf_symlink_resolve(ent.link) = Target
         /\ WithoutFirst(Target) = {Rooted(Target)}
<1> DEFINE w == WithoutDots(ent.link)[Len(ent.link)]
<1>1. \A i \in DOMAIN ent.link : ent.link[i] \notin {EmptyName, ".."}
  BY DEF Downward
<1>2. ~(Len(ent.link) > 1 /\ ent.link[1] = EmptyName)
  BY <1>1 DEF Sound
<1>3. w \in Seq(STRING) /\ Loop(cur, ent.link)[Len(ent.link)].buf = cur \o w
  BY <1>1, Resolves DEF Sound
<1> HIDE DEF w
<1>4. cur \o w # << >> /\ (cur \o w)[1] = "."
  BY <1>3 DEF Sound
<1>5. Target = cur \o w
  BY DEF Target, w
<1>6. spf_symlink_resolve(ent.link) = Target
  BY <1>2, <1>3, <1>4, <1>5 DEF spf_symlink_resolve
<1> QED
  BY <1>4, <1>5, <1>6, RootedPath

-----------------------------------------------------------------------------
(* The steps                                                               *)

FInv ==
  /\ cur \in Dirs
  /\ fpc \in {"treat", "skip"} => ent \in FileEntries
  /\ fpc = "treat" => type = ent.type
  /\ TreatedAsDocumented
  /\ NothingElseSkipped

LEMMA FInitInv == FInit => FInv
  BY DEF FInit, FInv, TreatedAsDocumented, NothingElseSkipped

\* The properties are about steps that have just been taken.
LEMMA OptionsStep ==
  ASSUME FInv, AddSkip \/ AddTreat \/ BadExpression \/ EndOfOptions, fpc = "config" => ent = NoEntry
  PROVE  FInv' /\ (fpc' = "config" => ent' = NoEntry)
  BY DEF FInv, AddSkip, AddTreat, BadExpression, EndOfOptions, TreatedAsDocumented, NothingElseSkipped

LEMMA ReadStep ==
  ASSUME FInv, ReadRow \/ ReadLocal
  PROVE  FInv' /\ fpc' # "config"
  BY DEF FInv, ReadRow, ReadLocal, Got, LeftOut, TreatedAsDocumented, NothingElseSkipped

LEMMA TreatStep ==
  ASSUME FInv, TreatAsDir
  PROVE  FInv' /\ fpc' # "config"
<1>1. Sound
  BY NamesAssumption DEF FInv, TreatAsDir, Sound
<1>2. PICK yes \in spf_is_a_treatasdir : type' = IF yes THEN "d" ELSE type
  BY DEF TreatAsDir
<1>3. type = ent.type /\ fpc' = "skip" /\ UNCHANGED <<cur, skip, treat, ent, kept>>
  BY DEF TreatAsDir, FInv
<1>4. ent.type # "l" => yes = FALSE
  BY <1>2 DEF spf_is_a_treatasdir
<1>5. ent.type = "l" => \E q \in WithoutFirst(spf_symlink_resolve(ent.link)) :
                           yes = (Rooted(FullName) \in treat.name \/ q \in treat.dest)
  BY <1>1, <1>2, NameRooted DEF spf_is_a_treatasdir, Matches
<1>6. ent.type = "l" /\ Downward =>
        yes = (Rooted(FullName) \in treat.name \/ Rooted(Target) \in treat.dest)
  BY <1>1, <1>5, LinkRooted
<1>7. /\ FullName' = FullName /\ Target' = Target /\ Downward' = Downward
      /\ Rooted(FullName)' = Rooted(FullName) /\ Rooted(Target)' = Rooted(Target)
  BY <1>3 DEF FullName, Target, Downward, Rooted, WithoutDots
<1>8. TreatedAsDocumented'
  BY <1>2, <1>3, <1>4, <1>5, <1>6, <1>7 DEF TreatedAsDocumented
<1> QED
  BY <1>3, <1>8 DEF FInv, TreatAsDir, NothingElseSkipped

LEMMA SkipStep ==
  ASSUME FInv, PushUnlessSkipped
  PROVE  FInv' /\ fpc' # "config"
<1>1. Sound
  BY NamesAssumption DEF FInv, PushUnlessSkipped, Sound
<1>2. kept' = ~spf_is_a_skip /\ fpc' = "read" /\ UNCHANGED <<cur, skip, treat, ent, type>>
  BY DEF PushUnlessSkipped
<1>3. spf_is_a_skip <=>
        \/ Rooted(FullName) \in skip
        \/ type = "l" /\ spf_symlink_resolve(ent.link) \in skip
  BY <1>1, NameRooted DEF spf_is_a_skip, Matches
<1>4. Downward => spf_symlink_resolve(ent.link) = Target
  BY <1>1, LinkRooted
<1>5. /\ FullName' = FullName /\ Target' = Target /\ Downward' = Downward
      /\ Rooted(FullName)' = Rooted(FullName) /\ Rooted(Target)' = Rooted(Target)
  BY <1>2 DEF FullName, Target, Downward, Rooted, WithoutDots
<1>6. NothingElseSkipped'
  BY <1>2, <1>3, <1>4, <1>5 DEF NothingElseSkipped
<1> QED
  BY <1>2, <1>6 DEF FInv, TreatedAsDocumented

-----------------------------------------------------------------------------
(* The theorems                                                            *)

LEMMA FInvariance == FSpec => []FInv
<1> DEFINE I == FInv /\ (fpc = "config" => ent = NoEntry)
<1>1. FInit => I
  BY FInitInv DEF FInit
<1>2. I /\ [FNext]_fvars => I'
  <2> SUFFICES ASSUME I, [FNext]_fvars PROVE I'
    OBVIOUS
  <2>1. CASE AddSkip \/ AddTreat \/ BadExpression \/ EndOfOptions
    BY <2>1, OptionsStep
  <2>2. CASE ReadRow \/ ReadLocal
    BY <2>2, ReadStep
  <2>3. CASE TreatAsDir
    BY <2>3, TreatStep
  <2>4. CASE PushUnlessSkipped
    BY <2>4, SkipStep
  <2>5. CASE FExited \/ UNCHANGED fvars
    <3>1. UNCHANGED fvars
      BY <2>5 DEF FExited
    <3>2. /\ FullName' = FullName /\ Target' = Target /\ Downward' = Downward
          /\ Rooted(FullName)' = Rooted(FullName) /\ Rooted(Target)' = Rooted(Target)
      BY <3>1 DEF FullName, Target, Downward, Rooted, WithoutDots, fvars
    <3> QED
      BY <3>1, <3>2 DEF FInv, TreatedAsDocumented, NothingElseSkipped, fvars
  <2> QED
    BY <2>1, <2>2, <2>3, <2>4, <2>5 DEF FNext
<1> QED
  BY <1>1, <1>2, PTL DEF FSpec

(* A link becomes a directory exactly as the options treatasdir and        *)
(* treatasdirdest say, and nothing else changes its type.                  *)
THEOREM TreatsAsDocumented == FSpec => []TreatedAsDocumented
<1>1. FInv => TreatedAsDocumented
  BY DEF FInv
<1> QED
  BY <1>1, FInvariance, PTL

(* What matches skip is left out, and of the rest only links that lead to  *)
(* what matches.                                                           *)
THEOREM SkipsNothingElse == FSpec => []NothingElseSkipped
<1>1. FInv => NothingElseSkipped
  BY DEF FInv
<1> QED
  BY <1>1, FInvariance, PTL
=============================================================================
