--------------------------- MODULE Options_proofs ---------------------------
(* What main has learned when it has read its options is what the user has *)
(* written, for any command line and any configuration file.               *)
EXTENDS Options, WellFoundedInduction, TLAPS

-----------------------------------------------------------------------------
(* Induction, by the least element of a set of numbers                     *)

LEMMA Least ==
  ASSUME NEW T \in SUBSET Nat, T # {}
  PROVE  \E x \in T : \A y \in T : x <= y
<1>1. PICK x \in T : \A y \in T : ~(<<y, x>> \in OpToRel(<, Nat))
  BY WFMin, NatLessThanWellFounded
<1>2. \A y \in T : ~(y < x)
  BY <1>1 DEF OpToRel
<1> QED
  BY <1>2

LEMMA UpTo ==
  ASSUME NEW n \in Nat, NEW S, n >= 1 => 1 \in S, \A k \in 2 .. n : k - 1 \in S => k \in S
  PROVE  1 .. n \subseteq S
<1> SUFFICES ASSUME (1 .. n) \ S # {} PROVE FALSE
  OBVIOUS
<1>1. (1 .. n) \ S \in SUBSET Nat
  OBVIOUS
<1>2. PICK x \in (1 .. n) \ S : \A y \in (1 .. n) \ S : x <= y
  BY <1>1, Least
<1>3. x # 1 /\ x \in 2 .. n
  BY <1>2
<1>4. x - 1 \in S
  BY <1>2, <1>3
<1> QED
  BY <1>2, <1>3, <1>4

LEMMA MaxOf ==
  ASSUME NEW n \in Nat, NEW S \in SUBSET (1 .. n), S # {}
  PROVE  Max(S) \in S /\ \A y \in S : Max(S) >= y
<1> DEFINE T == {x \in Nat : \E y \in S : x = n - y}
<1>1. T \in SUBSET Nat /\ T # {}
  <2>1. PICK y \in S : TRUE
    OBVIOUS
  <2>2. n - y \in Nat
    OBVIOUS
  <2> QED
    BY <2>1, <2>2
<1>2. PICK x \in T : \A z \in T : x <= z
  BY <1>1, Least
<1>3. PICK y \in S : x = n - y
  OBVIOUS
<1>4. \A z \in S : n - z \in T
  OBVIOUS
<1>5. \A z \in S : y >= z
  BY <1>2, <1>3, <1>4
<1>6. \E m \in S : \A z \in S : m >= z
  BY <1>5
<1> QED
  BY <1>6 DEF Max

\* the greatest place when one is added behind
LEMMA MaxBehind ==
  ASSUME NEW n \in Nat, NEW S \in SUBSET (1 .. n)
  PROVE  Max(S \cup {n + 1}) = n + 1
<1>1. S \cup {n + 1} \in SUBSET (1 .. n + 1) /\ S \cup {n + 1} # {}
  OBVIOUS
<1> DEFINE m == Max(S \cup {n + 1})
<1>2. m \in S \cup {n + 1} /\ \A y \in S \cup {n + 1} : m >= y
  BY <1>1, MaxOf
<1> HIDE DEF m
<1>3. m \in 1 .. n + 1 /\ m >= n + 1
  BY <1>1, <1>2
<1>4. m = n + 1
  BY <1>3
<1> QED
  BY <1>4 DEF m

LEMMA MinOf ==
  ASSUME NEW n \in Nat, NEW S \in SUBSET (1 .. n), S # {}
  PROVE  Min(S) \in S /\ \A y \in S : Min(S) <= y
<1>1. S \in SUBSET Nat
  OBVIOUS
<1> QED
  BY <1>1, Least DEF Min

-----------------------------------------------------------------------------
(* FlattenSeq                                                              *)

LEMMA FlattenDef ==
  ASSUME NEW f, Len(f) \in Nat \ {0}
  PROVE  \E g : /\ FlattenSeq(f) = g[Len(f)]
                /\ g[1] = f[1]
                /\ \A i \in 2 .. Len(f) : g[i] = g[i - 1] \o f[i]
<1> DEFINE Step(b, i) == b \o f[i]
           Is(g, n) == g = [i \in 1 .. n |-> IF i = 1 THEN f[i] ELSE Step(g[i - 1], i)]
           S == {n \in Nat : \E g : Is(g, n)}
<1> HIDE DEF Step
<1>1. 1 \in S
  <2>1. Is([i \in 1 .. 1 |-> f[i]], 1)
    OBVIOUS
  <2> QED
    BY <2>1
<1>2. \A n \in 2 .. Len(f) : n - 1 \in S => n \in S
  <2> SUFFICES ASSUME NEW n \in 2 .. Len(f), n - 1 \in S PROVE n \in S
    OBVIOUS
  <2>1. PICK g : Is(g, n - 1)
    OBVIOUS
  <2>2. \A k \in 1 .. n - 1 : g[k] = IF k = 1 THEN f[k] ELSE Step(g[k - 1], k)
    BY <2>1
  <2> DEFINE h == [k \in 1 .. n |-> IF k = n THEN Step(g[n - 1], n) ELSE g[k]]
  <2>3. \A k \in 1 .. n : h[k] = IF k = 1 THEN f[k] ELSE Step(h[k - 1], k)
    <3> SUFFICES ASSUME NEW k \in 1 .. n
                 PROVE  h[k] = IF k = 1 THEN f[k] ELSE Step(h[k - 1], k)
      OBVIOUS
    <3>1. CASE k = n
      <4>1. h[k] = Step(g[n - 1], n) /\ h[k - 1] = g[n - 1] /\ k # 1
        BY <3>1
      <4> QED
        BY <3>1, <4>1
    <3>2. CASE k # n
      <4>1. h[k] = g[k] /\ (k # 1 => h[k - 1] = g[k - 1])
        BY <3>2
      <4> QED
        BY <2>2, <3>2, <4>1
    <3> QED
      BY <3>1, <3>2
  <2>4. h = [k \in 1 .. n |-> h[k]]
    OBVIOUS
  <2> HIDE DEF h
  <2>5. Is(h, n)
    BY <2>3, <2>4
  <2> QED
    BY <2>5
<1>3. PICK w : Is(w, Len(f))
  <2> HIDE DEF S
  <2>1. 1 .. Len(f) \subseteq S
    BY <1>1, <1>2, UpTo
  <2>2. Len(f) \in S
    BY <2>1
  <2> QED
    BY <2>2 DEF S
<1> DEFINE c == CHOOSE g : Is(g, Len(f))
<1>4. Is(c, Len(f))
  BY <1>3
<1>5. FlattenSeq(f) = c[Len(f)]
  BY DEF FlattenSeq, Step
<1> HIDE DEF c
<1>6. \A i \in 1 .. Len(f) : c[i] = IF i = 1 THEN f[i] ELSE Step(c[i - 1], i)
  BY <1>4
<1>7. c[1] = f[1]
  BY <1>6
<1>8. \A i \in 2 .. Len(f) : c[i] = Step(c[i - 1], i)
  BY <1>6
<1>9. \A i \in 2 .. Len(f) : c[i] = c[i - 1] \o f[i]
  BY <1>8 DEF Step
<1> QED
  BY <1>5, <1>7, <1>9

\* A sequence of sequences, flattened, when one more comes behind it.
LEMMA FlattenStep ==
  ASSUME NEW X, NEW f \in Seq(Seq(X)), NEW x \in Seq(X)
  PROVE  /\ FlattenSeq(f) \in Seq(X)
         /\ FlattenSeq(Append(f, x)) = FlattenSeq(f) \o x
<1> DEFINE h == Append(f, x)
           n == Len(f)
<1>1. n \in Nat /\ h \in Seq(Seq(X)) /\ Len(h) = n + 1 /\ h[n + 1] = x
  OBVIOUS
<1>2. \A i \in 1 .. n : f[i] \in Seq(X) /\ h[i] = f[i]
  OBVIOUS
<1>3. PICK c : /\ FlattenSeq(h) = c[n + 1]
               /\ c[1] = h[1]
               /\ \A i \in 2 .. n + 1 : c[i] = c[i - 1] \o h[i]
  <2> HIDE DEF h, n
  <2>1. Len(h) \in Nat \ {0}
    BY <1>1
  <2>2. PICK c : /\ FlattenSeq(h) = c[Len(h)]
                 /\ c[1] = h[1]
                 /\ \A i \in 2 .. Len(h) : c[i] = c[i - 1] \o h[i]
    BY <2>1, FlattenDef
  <2>3. /\ FlattenSeq(h) = c[n + 1] /\ c[1] = h[1]
        /\ \A i \in 2 .. n + 1 : c[i] = c[i - 1] \o h[i]
    BY <1>1, <2>2
  <2> QED
    BY <2>3
<1>4. CASE n = 0
  <2>1. f = << >>
    BY <1>4
  <2>2. FlattenSeq(f) = << >>
    BY <2>1 DEF FlattenSeq
  <2>3. FlattenSeq(h) = x
    BY <1>1, <1>3, <1>4
  <2> QED
    BY <2>2, <2>3
<1>5. CASE n # 0
  <2>1. PICK g : /\ FlattenSeq(f) = g[n]
                 /\ g[1] = f[1]
                 /\ \A i \in 2 .. n : g[i] = g[i - 1] \o f[i]
    BY <1>1, <1>5, FlattenDef
  <2> DEFINE S == {i \in 1 .. n : g[i] = c[i] /\ g[i] \in Seq(X)}
  <2> HIDE DEF h, n
  <2>2. 1 \in S
    BY <1>1, <1>2, <1>3, <1>5, <2>1
  <2>3. \A k \in 2 .. n : k - 1 \in S => k \in S
    <3> SUFFICES ASSUME NEW k \in 2 .. n, k - 1 \in S PROVE k \in S
      OBVIOUS
    <3>1. k \in 1 .. n /\ k \in 2 .. n + 1 /\ k - 1 \in 1 .. n
      BY <1>1
    <3>2. g[k] = g[k - 1] \o f[k]
      BY <2>1
    <3>3. c[k] = c[k - 1] \o h[k] /\ h[k] = f[k] /\ f[k] \in Seq(X)
      BY <1>2, <1>3, <3>1
    <3>4. g[k - 1] \in Seq(X) /\ g[k - 1] = c[k - 1]
      OBVIOUS
    <3>5. g[k - 1] \o f[k] \in Seq(X)
      BY <3>3, <3>4
    <3> QED
      BY <3>1, <3>2, <3>3, <3>4, <3>5
  <2>4. n \in S
    <3> HIDE DEF S
    <3>1. 1 .. n \subseteq S
      BY <1>1, <2>2, <2>3, UpTo
    <3> QED
      BY <1>1, <1>5, <3>1
  <2>5. c[n + 1] = c[n] \o x
    <3>1. n + 1 \in 2 .. n + 1 /\ (n + 1) - 1 = n
      BY <1>1, <1>5
    <3>2. c[n + 1] = c[(n + 1) - 1] \o h[n + 1]
      BY <1>3, <3>1
    <3> QED
      BY <1>1, <3>1, <3>2
  <2>6. FlattenSeq(f) \in Seq(X) /\ FlattenSeq(h) = FlattenSeq(f) \o x
    BY <1>3, <2>1, <2>4, <2>5
  <2> QED
    BY <2>6 DEF h
<1> QED
  BY <1>4, <1>5

LEMMA FlattenNone == FlattenSeq(<< >>) = << >>
  BY DEF FlattenSeq

-----------------------------------------------------------------------------
(* The arguments                                                           *)

LEMMA Int32 ==
  ASSUME NEW n \in Int
  PROVE  ToInt(n) \in Int /\ ToInt(n) <= IntMax
<1> DEFINE b == 2 * (IntMax + 1)
           m == n + IntMax + 1
<1>1. b \in Nat \ {0} /\ m \in Int
  BY IntAssumption
<1>2. m % b \in 0 .. b - 1
  <2> HIDE DEF b, m
  <2> QED
    BY <1>1
<1>3. ToInt(n) = (m % b) - (IntMax + 1)
  BY DEF ToInt
<1> DEFINE k == m % b
<1>4. k \in 0 .. b - 1 /\ ToInt(n) = k - (IntMax + 1)
  BY <1>2, <1>3
<1> HIDE DEF k, m
<1> QED
  BY <1>4, IntAssumption


-----------------------------------------------------------------------------
(* The settings of the first words and rows                                *)

Rows == [head : Text \cup {None}, tokens : Seq(Text)]
Args == Text \cup {None}
Setting == [opt : Args \cup go, arg : Args]

\* the settings of the first n rows that are in a section
RowsTo(n, section) ==
  FlattenSeq([i \in 1 .. n |->
                IF RowSection(i) = section THEN RowSettings(i) ELSE <<>>])

\* the settings tgetopt finds for word i
WordGives(i) ==
  IF line[i].form = "plain" THEN <<>>
  ELSE IF line[i].opt = "configfile" THEN SectionSettings(SectionAt(i))
  ELSE <<[opt |-> line[i].opt, arg |-> WordArg(i)]>>

\* the settings of the first n words of the line
WordsTo(n) == FlattenSeq([i \in 1 .. n |-> WordGives(i)])

LEMMA FlattenTo ==
  ASSUME NEW X, NEW n \in Nat, NEW F \in [1 .. n + 1 -> Seq(X)]
  PROVE  /\ FlattenSeq([i \in 1 .. n |-> F[i]]) \in Seq(X)
         /\ FlattenSeq(F) = FlattenSeq([i \in 1 .. n |-> F[i]]) \o F[n + 1]
<1> DEFINE G == [i \in 1 .. n |-> F[i]]
<1>1. G \in Seq(Seq(X)) /\ Len(G) = n /\ F[n + 1] \in Seq(X)
  OBVIOUS
<1>2. F = Append(G, F[n + 1])
  BY <1>1
<1> HIDE DEF G
<1>3. FlattenSeq(G) \in Seq(X) /\ FlattenSeq(Append(G, F[n + 1])) = FlattenSeq(G) \o F[n + 1]
  BY <1>1, FlattenStep
<1> QED
  BY <1>2, <1>3 DEF G

LEMMA FlattenType ==
  ASSUME NEW X, NEW n \in Nat, NEW F \in [1 .. n -> Seq(X)]
  PROVE  FlattenSeq(F) \in Seq(X)
<1>1. F \in Seq(Seq(X)) /\ << >> \in Seq(X)
  OBVIOUS
<1> QED
  BY <1>1, FlattenStep

LEMMA BodyType ==
  ASSUME NEW r \in Rows
  PROVE  Body(r) \in Seq(Text)
<1> DEFINE c == {i \in DOMAIN r.tokens : r.tokens[i] = Comment}
<1>1. r.tokens \in Seq(Text) /\ c \in SUBSET (1 .. Len(r.tokens)) /\ Len(r.tokens) \in Nat
  BY DEF Rows
<1>2. c # {} => Min(c) \in c
  BY <1>1, MinOf
<1>3. c # {} => SubSeq(r.tokens, 1, Min(c) - 1) \in Seq(Text)
  <2> SUFFICES ASSUME c # {} PROVE SubSeq(r.tokens, 1, Min(c) - 1) \in Seq(Text)
    OBVIOUS
  <2>1. PICK m \in 1 .. Len(r.tokens) : m = Min(c)
    BY <1>1, <1>2
  <2>2. SubSeq(r.tokens, 1, m - 1) \in Seq(Text)
    BY <1>1
  <2> QED
    BY <2>1, <2>2
<1> QED
  BY <1>1, <1>3 DEF Body

LEMMA FileType ==
  ASSUME file \in Files
  PROVE  /\ file \in Seq(Rows) /\ Len(file) \in Nat
         /\ \A i \in 1 .. Len(file) :
              /\ file[i] \in Rows
              /\ Body(file[i]) \in Seq(Text) /\ Len(Body(file[i])) \in Nat
<1>1. file \in Seq(Rows)
  BY FilesAssumption DEF Rows
<1> QED
  BY <1>1, BodyType

LEMMA RowSettingsType ==
  ASSUME file \in Files, NEW i \in 1 .. Len(file)
  PROVE  /\ RowSettings(i) \in Seq(Setting)
         /\ Len(Body(file[i])) < 3 => RowSettings(i) = << >>
         /\ Len(Body(file[i])) >= 3 =>
              /\ Len(RowSettings(i)) = Len(Body(file[i])) - 2
              /\ \A j \in 1 .. Len(Body(file[i])) - 2 :
                   RowSettings(i)[j] = [opt |-> Body(file[i])[1], arg |-> Body(file[i])[j + 2]]
<1> DEFINE b == Body(file[i])
<1>1. b \in Seq(Text) /\ Len(b) \in Nat
  BY FileType
<1>2. RowSettings(i) = IF Len(b) < 3 THEN << >>
                       ELSE [j \in 1 .. Len(b) - 2 |-> [opt |-> b[1], arg |-> b[j + 2]]]
  BY DEF RowSettings
<1> HIDE DEF b
<1>3. CASE Len(b) < 3
  BY <1>1, <1>2, <1>3 DEF b
<1>4. CASE Len(b) >= 3
  <2>1. \A j \in 1 .. Len(b) - 2 : [opt |-> b[1], arg |-> b[j + 2]] \in Setting
    BY <1>1, <1>4 DEF Setting, Args
  <2>2. RowSettings(i) = [j \in 1 .. Len(b) - 2 |-> [opt |-> b[1], arg |-> b[j + 2]]]
    BY <1>1, <1>2, <1>4
  <2>3. RowSettings(i) \in Seq(Setting) /\ Len(RowSettings(i)) = Len(b) - 2
    BY <1>1, <1>4, <2>1, <2>2
  <2>4. \A j \in 1 .. Len(b) - 2 : RowSettings(i)[j] = [opt |-> b[1], arg |-> b[j + 2]]
    BY <2>2
  <2> QED
    BY <1>1, <1>4, <2>3, <2>4 DEF b
<1> QED
  BY <1>1, <1>3, <1>4

LEMMA RowsToStep ==
  ASSUME file \in Files, NEW n \in 0 .. Len(file) - 1, NEW section
  PROVE  /\ RowsTo(n, section) \in Seq(Setting)
         /\ RowsTo(n + 1, section) =
              RowsTo(n, section) \o (IF RowSection(n + 1) = section THEN RowSettings(n + 1) ELSE << >>)
<1> DEFINE F == [i \in 1 .. n + 1 |-> IF RowSection(i) = section THEN RowSettings(i) ELSE << >>]
<1>1. n \in Nat /\ Len(file) \in Nat
  BY FileType
<1>2. F \in [1 .. n + 1 -> Seq(Setting)]
  BY <1>1, RowSettingsType
<1>3. [i \in 1 .. n |-> F[i]] = [i \in 1 .. n |-> IF RowSection(i) = section THEN RowSettings(i) ELSE << >>]
  BY <1>1
<1>4. F[n + 1] = IF RowSection(n + 1) = section THEN RowSettings(n + 1) ELSE << >>
  BY <1>1
<1>5. RowsTo(n + 1, section) = FlattenSeq(F)
  BY DEF RowsTo
<1>6. RowsTo(n, section) = FlattenSeq([i \in 1 .. n |-> F[i]])
  BY <1>3 DEF RowsTo
<1> HIDE DEF F
<1>7. /\ FlattenSeq([i \in 1 .. n |-> F[i]]) \in Seq(Setting)
      /\ FlattenSeq(F) = FlattenSeq([i \in 1 .. n |-> F[i]]) \o F[n + 1]
  BY <1>1, <1>2, FlattenTo
<1> QED
  BY <1>4, <1>5, <1>6, <1>7

LEMMA RowsToType ==
  ASSUME file \in Files, NEW n \in 0 .. Len(file), NEW section
  PROVE  RowsTo(n, section) \in Seq(Setting)
<1>1. n \in Nat /\ Len(file) \in Nat
  BY FileType
<1>2. [i \in 1 .. n |-> IF RowSection(i) = section THEN RowSettings(i) ELSE << >>]
        \in [1 .. n -> Seq(Setting)]
  BY <1>1, RowSettingsType
<1> QED
  BY <1>1, <1>2, FlattenType DEF RowsTo

\* A row is in the section of its header, or in that of the row before it.
LEMMA RowSectionStep ==
  ASSUME file \in Files, NEW n \in 0 .. Len(file) - 1
  PROVE  RowSection(n + 1) = IF file[n + 1].head # None THEN file[n + 1].head
                             ELSE IF n = 0 THEN Empty ELSE RowSection(n)
<1> DEFINE H(k) == {j \in 1 .. k : file[j].head # None}
<1>1. n \in Nat /\ Len(file) \in Nat /\ H(n) \in SUBSET (1 .. n)
  BY FileType
<1>2. CASE file[n + 1].head # None
  <2>1. H(n + 1) = H(n) \cup {n + 1}
    BY <1>1, <1>2
  <2>2. Max(H(n + 1)) = n + 1 /\ H(n + 1) # {}
    <3>1. Max(H(n) \cup {n + 1}) = n + 1
      <4> HIDE DEF H
      <4> QED
        BY <1>1, MaxBehind
    <3> QED
      BY <2>1, <3>1
  <2> QED
    BY <1>2, <2>2 DEF RowSection
<1>3. CASE file[n + 1].head = None
  <2>1. H(n + 1) = H(n)
    BY <1>1, <1>3
  <2>2. n = 0 => H(n) = {}
    OBVIOUS
  <2> QED
    BY <1>3, <2>1, <2>2 DEF RowSection
<1> QED
  BY <1>2, <1>3


LEMMA LineType ==
  ASSUME line \in Lines
  PROVE  /\ line \in Seq(Words) /\ Len(line) \in Nat
         /\ \A i \in 1 .. Len(line) :
              /\ line[i] \in Words
              /\ line[i].opt \in Args /\ line[i].arg \in Args
              /\ line[i].form \in {"long", "short", "plain", "mark"}
              /\ line[i].form = "plain" => line[i].opt = None /\ line[i].arg \in Text
<1>1. line \in Seq(Words)
  BY LinesAssumption
<1>2. \A w \in Words : /\ w.opt \in Args /\ w.arg \in Args
                       /\ w.form \in {"long", "short", "plain", "mark"}
                       /\ w.form = "plain" => w.opt = None /\ w.arg \in Text
  BY DEF Words, Args, Mark
<1> QED
  BY <1>1, <1>2

\* the configuration file is known if it is needed for the first n words
Ready(n) == \A i \in 1 .. n : line[i].opt = "configfile" => file \in Files

LEMMA WordArgType ==
  ASSUME line \in Lines, NEW i \in 1 .. Len(line)
  PROVE  WordArg(i) \in Args
<1>1. i < Len(line) => i + 1 \in 1 .. Len(line)
  BY LineType
<1> QED
  BY <1>1, LineType DEF WordArg

LEMMA WordGivesType ==
  ASSUME line \in Lines, NEW i \in 1 .. Len(line), line[i].opt = "configfile" => file \in Files
  PROVE  WordGives(i) \in Seq(Setting)
<1>1. [opt |-> line[i].opt, arg |-> WordArg(i)] \in Setting
  BY WordArgType, LineType DEF Setting
<1>2. CASE line[i].opt = "configfile"
  <2>1. SectionSettings(SectionAt(i)) = RowsTo(Len(file), SectionAt(i))
    BY DEF SectionSettings, RowsTo
  <2>2. Len(file) \in 0 .. Len(file)
    BY <1>2, FileType
  <2>3. SectionSettings(SectionAt(i)) \in Seq(Setting)
    BY <1>2, <2>1, <2>2, RowsToType
  <2> QED
    BY <1>2, <2>3 DEF WordGives
<1>3. CASE line[i].opt # "configfile"
  BY <1>1, <1>3 DEF WordGives
<1> QED
  BY <1>2, <1>3

LEMMA WordsToStep ==
  ASSUME line \in Lines, NEW n \in 0 .. Len(line) - 1, Ready(n + 1)
  PROVE  /\ WordsTo(n) \in Seq(Setting)
         /\ WordsTo(n + 1) = WordsTo(n) \o WordGives(n + 1)
<1> DEFINE F == [i \in 1 .. n + 1 |-> WordGives(i)]
<1>1. n \in Nat /\ Len(line) \in Nat
  BY LineType
<1>2. F \in [1 .. n + 1 -> Seq(Setting)]
  BY <1>1, WordGivesType DEF Ready
<1>3. [i \in 1 .. n |-> F[i]] = [i \in 1 .. n |-> WordGives(i)] /\ F[n + 1] = WordGives(n + 1)
  BY <1>1
<1>4. WordsTo(n + 1) = FlattenSeq(F) /\ WordsTo(n) = FlattenSeq([i \in 1 .. n |-> F[i]])
  BY <1>3 DEF WordsTo
<1>5. F[n + 1] = WordGives(n + 1)
  BY <1>1
<1> HIDE DEF F
<1>6. /\ FlattenSeq([i \in 1 .. n |-> F[i]]) \in Seq(Setting)
      /\ FlattenSeq(F) = FlattenSeq([i \in 1 .. n |-> F[i]]) \o F[n + 1]
  BY <1>1, <1>2, FlattenTo
<1> QED
  BY <1>4, <1>5, <1>6

LEMMA WordsToType ==
  ASSUME line \in Lines, NEW n \in 0 .. Len(line), Ready(n)
  PROVE  WordsTo(n) \in Seq(Setting)
<1>1. n \in Nat /\ Len(line) \in Nat
  BY LineType
<1>2. [i \in 1 .. n |-> WordGives(i)] \in [1 .. n -> Seq(Setting)]
  BY <1>1, WordGivesType DEF Ready
<1> QED
  BY <1>1, <1>2, FlattenType DEF WordsTo

-----------------------------------------------------------------------------
(* What a setting changes                                                  *)

\* What main does with a setting that it accepts, whatever its kind.
Takes(s) ==
  /\ param' = [o \in Params |->
                 IF o \in DOMAIN Gives(s) THEN Value(o, Gives(s)[o])
                 ELSE IF o = "localdir" /\ s.opt = "url" /\ param[o] = None THEN "."
                 ELSE param[o]]
  /\ warned' = IF nowarn THEN warned
               ELSE warned \cup {o \in Params : o \in DOMAIN Gives(s) /\ param[o] # None}
  /\ nowarn' = IF s.opt = "warnoverrides" THEN Value("warnoverrides", s.arg) = 0
               ELSE nowarn
  /\ lists' = [skip |-> IF s.opt = "skip" THEN <<s.arg>> \o lists.skip ELSE lists.skip,
               treatasdir |->
                 IF s.opt \in {"treatasdir", "treatasdirdest"}
                   THEN <<[name |-> s.arg, deref |-> s.opt = "treatasdirdest"]>> \o lists.treatasdir
                   ELSE lists.treatasdir]

\* It has a value for all that it sets.
Valued(s) ==
  /\ \A o \in Params : o \in DOMAIN Gives(s) => Value(o, Gives(s)[o]) # None
  /\ "warnoverrides" \in DOMAIN Gives(s) <=> s.opt = "warnoverrides"
  /\ s.opt = "warnoverrides" => Value("warnoverrides", s.arg) \in {0, 1}

\* main is where the settings S have brought it
Outcome(S) ==
  /\ HoldsLast(S)
  /\ HoldsAll(S)
  /\ HoldsWarned(S)
  /\ nowarn \in BOOLEAN /\ (nowarn <=> ~Loud(S, Len(S) + 1))
  /\ \A o \in Params \ {"tempdir"} : param[o] = None <=> Times(S, o) = {}

LEMMA PlacesType ==
  ASSUME NEW S \in Seq(Setting), NEW o
  PROVE  /\ Places(S, o) \in SUBSET (1 .. Len(S)) /\ Times(S, o) \in SUBSET (1 .. Len(S))
         /\ Places(S, o) \subseteq Times(S, o)
         /\ Places(S, o) # {} => Max(Places(S, o)) \in Places(S, o)
<1>1. Places(S, o) \in SUBSET (1 .. Len(S)) /\ Len(S) \in Nat
  BY DEF Places
<1>2. Places(S, o) # {} => Max(Places(S, o)) \in Places(S, o)
  BY <1>1, MaxOf
<1> QED
  BY <1>1, <1>2 DEF Times

LEMMA PlacesStep ==
  ASSUME NEW S \in Seq(Setting), NEW s \in Setting, NEW o
  PROVE  /\ Places(Append(S, s), o) =
              Places(S, o) \cup (IF o \in DOMAIN Gives(s) THEN {Len(S) + 1} ELSE {})
         /\ Times(Append(S, s), o) =
              Times(S, o) \cup (IF o \in DOMAIN Gives(s) \/ (o = "localdir" /\ s.opt = "url")
                                  THEN {Len(S) + 1} ELSE {})
<1> DEFINE T == Append(S, s)
           n == Len(S)
<1>1. /\ n \in Nat /\ T \in Seq(Setting) /\ DOMAIN T = (1 .. n) \cup {n + 1} /\ DOMAIN S = 1 .. n
      /\ \A i \in 1 .. n : T[i] = S[i]
      /\ T[n + 1] = s
  OBVIOUS
<1> HIDE DEF T, n
<1>2. Places(T, o) = Places(S, o) \cup (IF o \in DOMAIN Gives(s) THEN {n + 1} ELSE {})
  BY <1>1 DEF Places
<1>3. {i \in DOMAIN T : o = "localdir" /\ T[i].opt = "url"} =
        {i \in DOMAIN S : o = "localdir" /\ S[i].opt = "url"}
          \cup (IF o = "localdir" /\ s.opt = "url" THEN {n + 1} ELSE {})
  BY <1>1
<1> QED
  BY <1>2, <1>3 DEF Times, T, n

LEMMA LoudStep ==
  ASSUME NEW S \in Seq(Setting), NEW s \in Setting
  PROVE  /\ \A j \in 1 .. Len(S) + 1 : Loud(Append(S, s), j) <=> Loud(S, j)
         /\ Loud(Append(S, s), Len(S) + 2) <=>
              IF "warnoverrides" \in DOMAIN Gives(s) THEN Value("warnoverrides", s.arg) = 1
              ELSE Loud(S, Len(S) + 1)
<1> DEFINE T == Append(S, s)
           n == Len(S)
           w == "warnoverrides"
           W(R, j) == {i \in Places(R, w) : i < j}
<1>1. n \in Nat /\ (\A i \in 1 .. n : T[i] = S[i]) /\ T[n + 1] = s
  OBVIOUS
<1>2. Places(T, w) = Places(S, w) \cup (IF w \in DOMAIN Gives(s) THEN {n + 1} ELSE {})
  BY PlacesStep
<1>3. Places(S, w) \in SUBSET (1 .. n)
  BY PlacesType
<1> HIDE DEF T, n
<1>4. \A R, j : Loud(R, j) <=> W(R, j) = {} \/ Value(w, R[Max(W(R, j))].arg) = 1
  BY DEF Loud
<1>5. ASSUME NEW j \in 1 .. n + 1
      PROVE  Loud(T, j) <=> Loud(S, j)
  <2>1. W(T, j) = W(S, j) /\ W(S, j) \in SUBSET (1 .. n)
    BY <1>1, <1>2, <1>3
  <2>2. W(S, j) # {} => Max(W(S, j)) \in 1 .. n
    <3> HIDE DEF W
    <3> QED
      BY <1>1, <2>1, MaxOf
  <2> QED
    BY <1>1, <1>4, <2>1, <2>2
<1>6. W(T, n + 2) = Places(T, w) /\ W(S, n + 1) = Places(S, w)
  BY <1>1, <1>2, <1>3
<1>7. CASE w \in DOMAIN Gives(s)
  <2>1. Max(Places(S, w) \cup {n + 1}) = n + 1
    BY <1>1, <1>3, MaxBehind
  <2>2. Max(W(T, n + 2)) = n + 1 /\ W(T, n + 2) # {}
    BY <1>2, <1>6, <1>7, <2>1
  <2>3. Loud(T, n + 2) <=> Value(w, s.arg) = 1
    BY <1>1, <1>4, <2>2
  <2> QED
    BY <1>5, <1>7, <2>3 DEF T, n
<1>8. CASE w \notin DOMAIN Gives(s)
  <2>1. W(T, n + 2) = W(S, n + 1) /\ W(S, n + 1) \in SUBSET (1 .. n)
    BY <1>2, <1>3, <1>6, <1>8
  <2>2. W(S, n + 1) # {} => Max(W(S, n + 1)) \in 1 .. n
    <3> HIDE DEF W
    <3> QED
      BY <1>1, <2>1, MaxOf
  <2>3. Loud(T, n + 2) <=> Loud(S, n + 1)
    BY <1>1, <1>4, <2>1, <2>2
  <2> QED
    BY <1>5, <1>8, <2>3 DEF T, n
<1> QED
  BY <1>7, <1>8


LEMMA LastStep ==
  ASSUME NEW S \in Seq(Setting), NEW s \in Setting, HoldsLast(S), Takes(s), Valued(s),
         \A o \in Params \ {"tempdir"} : param[o] = None <=> Times(S, o) = {}
  PROVE  /\ HoldsLast(Append(S, s))'
         /\ \A o \in Params \ {"tempdir"} : param'[o] = None <=> Times(Append(S, s), o) = {}
<1> DEFINE T == Append(S, s)
           n == Len(S)
           Given(o) == o \in DOMAIN Gives(s)
           Local(o) == o = "localdir" /\ s.opt = "url"
           LastIn(p, R, o) ==
             \/ Places(R, o) # {} /\ p[o] = Value(o, Gives(R[Max(Places(R, o))])[o])
             \/ Places(R, o) = {} /\ Times(R, o) # {} /\ p[o] = "."
             \/ Times(R, o) = {} /\ p[o] = None
             \/ Times(R, o) = {} /\ o = "tempdir" /\ p[o] = Environ
<1>1. n \in Nat /\ (\A i \in 1 .. n : T[i] = S[i]) /\ T[n + 1] = s
  OBVIOUS
<1> SUFFICES ASSUME NEW o \in Params
             PROVE  /\ LastIn(param', T, o)
                    /\ o # "tempdir" => (param'[o] = None <=> Times(T, o) = {})
  BY DEF HoldsLast, Places, Times, Gives, UrlParts, One, Value
<1>2. /\ Places(T, o) = Places(S, o) \cup (IF Given(o) THEN {n + 1} ELSE {})
      /\ Times(T, o) = Times(S, o) \cup (IF Given(o) \/ Local(o) THEN {n + 1} ELSE {})
  BY PlacesStep
<1>3. /\ Places(S, o) \in SUBSET (1 .. n) /\ Places(S, o) \subseteq Times(S, o)
      /\ Places(S, o) # {} => Max(Places(S, o)) \in Places(S, o)
  BY PlacesType
<1>4. LastIn(param, S, o)
  BY DEF HoldsLast
<1>5. param'[o] = IF Given(o) THEN Value(o, Gives(s)[o])
                  ELSE IF Local(o) /\ param[o] = None THEN "." ELSE param[o]
  BY DEF Takes
<1>6. None # "."
  BY NoneAssumption
<1> HIDE DEF T, n
<1>7. CASE Given(o)
  <2>1. Max(Places(S, o) \cup {n + 1}) = n + 1
    BY <1>1, <1>3, MaxBehind
  <2>2. Places(T, o) # {} /\ Max(Places(T, o)) = n + 1 /\ Times(T, o) # {}
    BY <1>2, <1>7, <2>1
  <2>3. param'[o] = Value(o, Gives(T[Max(Places(T, o))])[o])
    BY <1>1, <1>5, <1>7, <2>2
  <2>4. param'[o] # None
    BY <1>5, <1>7 DEF Valued
  <2> QED
    BY <2>2, <2>3, <2>4
<1>8. CASE ~Given(o)
  <2>1. Places(T, o) = Places(S, o)
    BY <1>2, <1>8
  <2>2. Places(T, o) # {} => Gives(T[Max(Places(T, o))]) = Gives(S[Max(Places(S, o))])
    BY <1>1, <1>3, <2>1
  <2>3. CASE ~Local(o)
    <3>1. Times(T, o) = Times(S, o) /\ param'[o] = param[o]
      BY <1>2, <1>5, <1>8, <2>3
    <3> QED
      BY <1>4, <2>1, <2>2, <3>1
  <2>4. CASE Local(o)
    <3>1. Times(T, o) # {} /\ o # "tempdir"
      BY <1>2, <2>4
    <3>2. CASE param[o] = None
      <4>1. Times(S, o) = {} /\ Places(S, o) = {} /\ param'[o] = "."
        BY <1>3, <1>5, <1>8, <2>4, <3>1, <3>2
      <4> QED
        BY <1>6, <2>1, <3>1, <4>1
    <3>3. CASE param[o] # None
      <4>1. Times(S, o) # {} /\ param'[o] = param[o]
        BY <1>5, <1>8, <3>1, <3>3
      <4> QED
        BY <1>4, <2>1, <2>2, <3>1, <3>3, <4>1
    <3> QED
      BY <3>2, <3>3
  <2> QED
    BY <2>3, <2>4
<1> QED
  BY <1>7, <1>8

LEMMA WarnedStep ==
  ASSUME NEW S \in Seq(Setting), NEW s \in Setting, Outcome(S), Takes(s)
  PROVE  HoldsWarned(Append(S, s))'
<1> DEFINE T == Append(S, s)
           n == Len(S)
           Given(o) == o \in DOMAIN Gives(s)
           Replaced(R, o) == \E j \in Places(R, o) : Loud(R, j) /\ \E i \in Times(R, o) : i < j
<1> SUFFICES ASSUME NEW o \in Params \ {"tempdir"}
             PROVE  o \in warned' <=> Replaced(T, o)
  BY DEF HoldsWarned, Places, Times, Loud, Gives, UrlParts, One, Value
<1>1. /\ Places(T, o) = Places(S, o) \cup (IF Given(o) THEN {n + 1} ELSE {})
      /\ \A i \in 1 .. n : i \in Times(T, o) <=> i \in Times(S, o)
      /\ Times(T, o) \subseteq Times(S, o) \cup {n + 1}
  BY PlacesStep
<1>2. Places(S, o) \in SUBSET (1 .. n) /\ Times(S, o) \in SUBSET (1 .. n) /\ n \in Nat
  BY PlacesType
<1>3. \A j \in 1 .. n + 1 : Loud(T, j) <=> Loud(S, j)
  BY LoudStep
<1>4. /\ o \in warned <=> Replaced(S, o)
      /\ nowarn <=> ~Loud(S, n + 1)
      /\ param[o] = None <=> Times(S, o) = {}
  BY DEF Outcome, HoldsWarned
<1>5. o \in warned' <=> o \in warned \/ (~nowarn /\ Given(o) /\ param[o] # None)
  BY DEF Takes
<1> HIDE DEF T, n
<1>6. \A j \in 1 .. n : (\E i \in Times(T, o) : i < j) <=> (\E i \in Times(S, o) : i < j)
  BY <1>1, <1>2
<1>7. (\E i \in Times(T, o) : i < n + 1) <=> Times(S, o) # {}
  BY <1>1, <1>2
<1>8. Replaced(T, o) <=> Replaced(S, o) \/ (Given(o) /\ Loud(S, n + 1) /\ Times(S, o) # {})
  <2>1. (\E j \in Places(S, o) : Loud(T, j) /\ \E i \in Times(T, o) : i < j) <=> Replaced(S, o)
    BY <1>2, <1>3, <1>6
  <2>2. Loud(T, n + 1) <=> Loud(S, n + 1)
    BY <1>2, <1>3
  <2>3. Replaced(T, o) <=>
          \/ \E j \in Places(S, o) : Loud(T, j) /\ \E i \in Times(T, o) : i < j
          \/ Given(o) /\ Loud(T, n + 1) /\ \E i \in Times(T, o) : i < n + 1
    BY <1>1
  <2> QED
    BY <1>7, <2>1, <2>2, <2>3
<1> QED
  BY <1>4, <1>5, <1>8

LEMMA ReverseStep ==
  ASSUME NEW X, NEW S \in Seq(X), NEW x \in X
  PROVE  Reverse(S \o <<x>>) = <<x>> \o Reverse(S)
<1> DEFINE n == Len(S)
<1>1. Len(S \o <<x>>) = n + 1 /\ n \in Nat
  OBVIOUS
<1>2. Reverse(S) \in Seq(X) /\ Len(Reverse(S)) = n /\ \A i \in 1 .. n : Reverse(S)[i] = S[n - i + 1]
  BY DEF Reverse
<1>3. Reverse(S \o <<x>>) = [i \in 1 .. n + 1 |-> (S \o <<x>>)[n + 1 - i + 1]]
  BY <1>1 DEF Reverse
<1> DEFINE A == Reverse(S \o <<x>>)
           B == <<x>> \o Reverse(S)
<1>4. A \in Seq(X) /\ Len(A) = n + 1
  BY <1>1, <1>3
<1>5. B \in Seq(X) /\ Len(B) = n + 1
  BY <1>1, <1>2
<1>6. \A i \in 1 .. n + 1 : A[i] = B[i]
  <2> SUFFICES ASSUME NEW i \in 1 .. n + 1 PROVE A[i] = B[i]
    OBVIOUS
  <2>1. CASE i = 1
    BY <1>1, <1>2, <1>3, <2>1
  <2>2. CASE i # 1
    <3>1. A[i] = S[n + 1 - i + 1] /\ i - 1 \in 1 .. n
      BY <1>1, <1>3, <2>2
    <3>2. B[i] = Reverse(S)[i - 1]
      BY <1>1, <1>2, <2>2
    <3>3. Reverse(S)[i - 1] = S[n - (i - 1) + 1] /\ n - (i - 1) + 1 = n + 1 - i + 1
      BY <1>1, <1>2, <3>1
    <3> QED
      BY <3>1, <3>2, <3>3
  <2> QED
    BY <2>1, <2>2
<1> HIDE DEF A, B
<1>7. A = B
  BY <1>1, <1>4, <1>5, <1>6
<1> QED
  BY <1>7 DEF A, B


LEMMA SkipsStep ==
  ASSUME NEW S \in Seq(Setting), NEW s \in Setting
  PROVE  /\ Skips(S) \in Seq(Args)
         /\ Skips(Append(S, s)) = Skips(S) \o (IF s.opt = "skip" THEN <<s.arg>> ELSE << >>)
<1> DEFINE T == Append(S, s)
           n == Len(S)
           F == [i \in 1 .. n + 1 |-> IF T[i].opt = "skip" THEN <<T[i].arg>> ELSE << >>]
<1>1. /\ n \in Nat /\ Len(T) = n + 1 /\ T \in Seq(Setting)
      /\ \A i \in 1 .. n : T[i] = S[i]
      /\ T[n + 1] = s
  OBVIOUS
<1> HIDE DEF T, n
<1>2. \A i \in 1 .. n + 1 : T[i].arg \in Args
  <2>1. \A i \in 1 .. n + 1 : T[i] \in Setting
    BY <1>1
  <2> QED
    BY <2>1 DEF Setting
<1>3. F \in [1 .. n + 1 -> Seq(Args)]
  BY <1>1, <1>2
<1>4. [i \in 1 .. n |-> F[i]] = [i \in 1 .. n |-> IF S[i].opt = "skip" THEN <<S[i].arg>> ELSE << >>]
  BY <1>1
<1>5. F[n + 1] = IF s.opt = "skip" THEN <<s.arg>> ELSE << >>
  BY <1>1
<1>6. Skips(T) = FlattenSeq(F) /\ Skips(S) = FlattenSeq([i \in 1 .. n |-> F[i]])
  <2>1. Skips(T) = FlattenSeq(F)
    BY <1>1 DEF Skips
  <2>2. Skips(S) = FlattenSeq([i \in 1 .. n |-> IF S[i].opt = "skip" THEN <<S[i].arg>> ELSE << >>])
    BY DEF Skips, n
  <2> QED
    BY <1>4, <2>1, <2>2
<1> HIDE DEF F
<1>7. /\ FlattenSeq([i \in 1 .. n |-> F[i]]) \in Seq(Args)
      /\ FlattenSeq(F) = FlattenSeq([i \in 1 .. n |-> F[i]]) \o F[n + 1]
  BY <1>1, <1>3, FlattenTo
<1> QED
  BY <1>5, <1>6, <1>7 DEF T

TreatItem == [name : Args, deref : BOOLEAN]

LEMMA TreatsStep ==
  ASSUME NEW S \in Seq(Setting), NEW s \in Setting
  PROVE  /\ Treats(S) \in Seq(TreatItem)
         /\ Treats(Append(S, s)) =
              Treats(S) \o (IF s.opt \in {"treatasdir", "treatasdirdest"}
                              THEN <<[name |-> s.arg, deref |-> s.opt = "treatasdirdest"]>>
                              ELSE << >>)
<1> DEFINE T == Append(S, s)
           n == Len(S)
           Item(x) == IF x.opt \in {"treatasdir", "treatasdirdest"}
                        THEN <<[name |-> x.arg, deref |-> x.opt = "treatasdirdest"]>>
                        ELSE << >>
           F == [i \in 1 .. n + 1 |-> Item(T[i])]
<1>1. /\ n \in Nat /\ Len(T) = n + 1 /\ T \in Seq(Setting)
      /\ \A i \in 1 .. n : T[i] = S[i]
      /\ T[n + 1] = s
  OBVIOUS
<1>2. \A x \in Setting : Item(x) \in Seq(TreatItem)
  <2> SUFFICES ASSUME NEW x \in Setting PROVE Item(x) \in Seq(TreatItem)
    OBVIOUS
  <2> DEFINE d == x.opt = "treatasdirdest"
             e == [name |-> x.arg, deref |-> d]
  <2>1. x.arg \in Args
    BY DEF Setting
  <2>2. d \in BOOLEAN
    OBVIOUS
  <2> HIDE DEF d
  <2>3. e \in TreatItem
    BY <2>1, <2>2 DEF TreatItem
  <2> HIDE DEF e
  <2>4. <<e>> \in Seq(TreatItem)
    BY <2>3
  <2> QED
    BY <2>4 DEF e, d
<1>3. Treats(T) = FlattenSeq([i \in 1 .. Len(T) |-> Item(T[i])])
  BY DEF Treats
<1>4. Treats(S) = FlattenSeq([i \in 1 .. n |-> Item(S[i])])
  BY DEF Treats
<1> HIDE DEF T, n, Item
<1>5. \A i \in 1 .. n + 1 : T[i] \in Setting
  BY <1>1
<1>6. F \in [1 .. n + 1 -> Seq(TreatItem)]
  BY <1>2, <1>5
<1>7. [i \in 1 .. n |-> F[i]] = [i \in 1 .. n |-> Item(S[i])] /\ F[n + 1] = Item(s)
  BY <1>1
<1>8. Treats(T) = FlattenSeq(F) /\ Treats(S) = FlattenSeq([i \in 1 .. n |-> F[i]])
  BY <1>1, <1>3, <1>4, <1>7
<1>9. F[n + 1] = Item(s)
  BY <1>7
<1> HIDE DEF F
<1>10. /\ FlattenSeq([i \in 1 .. n |-> F[i]]) \in Seq(TreatItem)
       /\ FlattenSeq(F) = FlattenSeq([i \in 1 .. n |-> F[i]]) \o F[n + 1]
  BY <1>1, <1>6, FlattenTo
<1>11. Treats(S) \in Seq(TreatItem) /\ Treats(T) = Treats(S) \o Item(s)
  BY <1>8, <1>9, <1>10
<1> QED
  BY <1>11 DEF T, Item

LEMMA CollectStep ==
  ASSUME NEW S \in Seq(Setting), NEW s \in Setting, HoldsAll(S), Takes(s)
  PROVE  HoldsAll(Append(S, s))'
<1> DEFINE t == [name |-> s.arg, deref |-> s.opt = "treatasdirdest"]
           T == Append(S, s)
<1>1. lists.skip = Reverse(Skips(S)) /\ lists.treatasdir = Reverse(Treats(S))
  BY DEF HoldsAll
<1>2. Skips(S) \in Seq(Args) /\ Treats(S) \in Seq(TreatItem)
  BY SkipsStep, TreatsStep
<1>3. s.arg \in Args /\ t \in TreatItem
  BY DEF Setting, TreatItem
<1>4. lists'.skip = Reverse(Skips(T))
  <2>1. CASE s.opt = "skip"
    <3>1. lists'.skip = <<s.arg>> \o Reverse(Skips(S))
      BY <1>1, <2>1 DEF Takes
    <3>2. Skips(T) = Skips(S) \o <<s.arg>>
      BY <2>1, SkipsStep
    <3> QED
      BY <1>2, <1>3, <3>1, <3>2, ReverseStep
  <2>2. CASE s.opt # "skip"
    <3>1. lists'.skip = Reverse(Skips(S))
      BY <1>1, <2>2 DEF Takes
    <3>2. Skips(T) = Skips(S) \o << >>
      BY <2>2, SkipsStep
    <3>3. Skips(S) \o << >> = Skips(S)
      BY <1>2
    <3> QED
      BY <3>1, <3>2, <3>3
  <2> QED
    BY <2>1, <2>2
<1>5. lists'.treatasdir = Reverse(Treats(T))
  <2>1. CASE s.opt \in {"treatasdir", "treatasdirdest"}
    <3>1. lists'.treatasdir = <<t>> \o Reverse(Treats(S))
      BY <1>1, <2>1 DEF Takes
    <3>2. Treats(T) = Treats(S) \o <<t>>
      BY <2>1, TreatsStep
    <3> HIDE DEF t
    <3> QED
      BY <1>2, <1>3, <3>1, <3>2, ReverseStep
  <2>2. CASE s.opt \notin {"treatasdir", "treatasdirdest"}
    <3>1. lists'.treatasdir = Reverse(Treats(S))
      BY <1>1, <2>2 DEF Takes
    <3>2. Treats(T) = Treats(S) \o << >>
      BY <2>2, TreatsStep
    <3>3. Treats(S) \o << >> = Treats(S)
      BY <1>2
    <3> QED
      BY <3>1, <3>2, <3>3
  <2> QED
    BY <2>1, <2>2
<1> QED
  BY <1>4, <1>5 DEF HoldsAll, Skips, Treats

\* One more setting, and main is where that has brought it.
LEMMA OutcomeStep ==
  ASSUME NEW S \in Seq(Setting), NEW s \in Setting, Outcome(S), Takes(s), Valued(s)
  PROVE  Outcome(Append(S, s))'
<1> DEFINE T == Append(S, s)
<1>1. HoldsLast(T)' /\ \A o \in Params \ {"tempdir"} : param'[o] = None <=> Times(T, o) = {}
  BY LastStep DEF Outcome
<1>2. HoldsAll(T)'
  BY CollectStep DEF Outcome
<1>3. HoldsWarned(T)'
  BY WarnedStep
<1>4. Len(T) = Len(S) + 1 /\ Len(S) \in Nat
  OBVIOUS
<1>5. nowarn' \in BOOLEAN /\ (nowarn' <=> ~Loud(T, Len(S) + 2))
  <2>1. Loud(T, Len(S) + 2) <=>
          IF "warnoverrides" \in DOMAIN Gives(s) THEN Value("warnoverrides", s.arg) = 1
          ELSE Loud(S, Len(S) + 1)
    BY LoudStep
  <2>2. CASE s.opt = "warnoverrides"
    <3> DEFINE v == Value("warnoverrides", s.arg)
    <3>1. nowarn' = (v = 0)
      BY <2>2 DEF Takes
    <3>2. v \in {0, 1} /\ (Loud(T, Len(S) + 2) <=> v = 1)
      BY <2>1, <2>2 DEF Valued
    <3> HIDE DEF v
    <3>3. (v = 0) <=> ~(v = 1)
      BY <3>2
    <3> HIDE DEF T
    <3> QED
      BY <3>1, <3>2, <3>3
  <2>3. CASE s.opt # "warnoverrides"
    BY <2>1, <2>3 DEF Takes, Valued, Outcome
  <2> QED
    BY <2>2, <2>3
<1>6. Loud(T, Len(T) + 1)' <=> Loud(T, Len(S) + 2)
  <2>1. Len(T) + 1 = Len(S) + 2
    BY <1>4
  <2>2. \A j : Loud(T, j)' <=> Loud(T, j)
    BY DEF Loud, Places, Gives, UrlParts, One, Value
  <2>3. Loud(T, Len(T) + 1)' <=> Loud(T, Len(T) + 1)
    BY <2>2
  <2> QED
    BY <2>1, <2>3
<1>7. \A o : Times(T, o)' = Times(T, o)
  BY DEF Times, Places, Gives, UrlParts, One
<1> QED
  BY <1>1, <1>2, <1>3, <1>5, <1>6, <1>7 DEF Outcome


-----------------------------------------------------------------------------
(* Where the reader is                                                     *)

\* the word whose option is being handled; a plain word is the argument of
\* the one before it
Word == IF argind > 0 /\ line[argind].form = "plain" THEN argind - 1 ELSE argind

\* the words that are done with
Settled == IF fp \/ pc = "set" \/ optind # 0 THEN Word - 1 ELSE argind

\* the settings that main has applied
Applied ==
  IF ~fp THEN WordsTo(Settled)
  ELSE IF pos < 0 THEN WordsTo(Word - 1) \o RowsTo(row, path)
  ELSE WordsTo(Word - 1) \o
         (RowsTo(row - 1, path) \o
            SubSeq(RowSettings(row), 1, IF pc = "set" THEN pos - 3 ELSE pos - 2))

Current == Word \in 1 .. argind /\ line[Word].form \in {"long", "short"}

\* the option that tgetopt has found on the command line
LinePlace ==
  /\ optind # 0 => pc = "argv" /\ argind >= 1 /\ line[argind].form = "short"
  /\ pc = "set" /\ ~fp => Current /\ line[Word].opt = option /\ (arg # None => WordArg(Word) = arg)
  /\ pc = "read" => argind = Len(line)

\* the row and the token it has come to in the file
FilePlace ==
  fp => /\ Current /\ line[Word].opt = "configfile"
        /\ file \in Files
        /\ path = SectionAt(Word)
        /\ in_sect <=> (IF row = 0 THEN Empty ELSE RowSection(row)) = path
        /\ pos < 0 => (pc = "set" => arg = None)
        /\ pos >= 0 => /\ row >= 1 /\ pos >= 3
                       /\ RowSection(row) = path
                       /\ Body(file[row])[1] = option
                       /\ pc = "set" => Body(file[row])[pos] = arg

\* only two options can be without an argument
ArgPlace ==
  pc = "set" => option \in go /\ arg \in Args /\ (arg = None => option \in {"version", "help"})

\* the parameter "section" is the section in force behind the first n words
SectionSet(n) ==
  LET I == OptionsAt(1 .. n, "section")
  IN IF I = {} THEN param["section"] = None
     ELSE param["section"] = WordArg(Max(I)) /\ param["section"] # None

Place ==
  /\ LinePlace /\ FilePlace /\ ArgPlace
  /\ Ready(Settled) /\ SectionSet(Settled)

Alive == {"argv", "file", "set", "read"}

Shape ==
  /\ param = [o \in Params |-> param[o]]
  /\ lists = [skip |-> lists.skip, treatasdir |-> lists.treatasdir]

IInv == TypeOK /\ (pc \in Alive => Shape /\ Place /\ Outcome(Applied))


LEMMA Kept ==
  ASSUME line' = line, file' = file
  PROVE  \A n, x : /\ WordsTo(n)' = WordsTo(n) /\ RowsTo(n, x)' = RowsTo(n, x)
                   /\ RowSettings(n)' = RowSettings(n) /\ RowSection(n)' = RowSection(n)
                   /\ SectionAt(n)' = SectionAt(n) /\ WordArg(n)' = WordArg(n)
                   /\ Ready(n)' = Ready(n)
<1> SUFFICES ASSUME NEW n, NEW x
             PROVE  /\ WordsTo(n)' = WordsTo(n) /\ RowsTo(n, x)' = RowsTo(n, x)
                    /\ RowSettings(n)' = RowSettings(n) /\ RowSection(n)' = RowSection(n)
                    /\ SectionAt(n)' = SectionAt(n) /\ WordArg(n)' = WordArg(n)
                    /\ Ready(n)' = Ready(n)
  OBVIOUS
<1>1. RowSettings(n)' = RowSettings(n) /\ RowSection(n)' = RowSection(n)
  BY DEF RowSettings, RowSection
<1>2. SectionAt(n)' = SectionAt(n) /\ WordArg(n)' = WordArg(n)
  BY DEF SectionAt, WordArg, OptionsAt
<1>3. RowsTo(n, x)' = RowsTo(n, x)
  BY DEF RowsTo, RowSettings, RowSection
<1>4. WordsTo(n)' = WordsTo(n)
  BY DEF WordsTo, WordGives, WordArg, SectionAt, SectionSettings, RowSection, RowSettings, OptionsAt
<1>5. Ready(n)' = Ready(n)
  BY DEF Ready
<1> QED
  BY <1>1, <1>2, <1>3, <1>4, <1>5

LEMMA OutcomeKept ==
  ASSUME NEW S, Outcome(S), UNCHANGED <<param, lists, nowarn, warned>>
  PROVE  Outcome(S)'
<1>1. HoldsLast(S)' /\ HoldsAll(S)' /\ HoldsWarned(S)'
  BY DEF Outcome, HoldsLast, HoldsAll, HoldsWarned
<1> QED
  BY <1>1 DEF Outcome

\* the words behind the option of the line that is being handled
LEMMA WordsOver ==
  ASSUME line \in Lines, argind \in 0 .. Len(line), Current, Ready(Word)
  PROVE  /\ Word \in 1 .. Len(line) /\ Word - 1 \in 0 .. Len(line)
         /\ WordsTo(Word - 1) \in Seq(Setting)
         /\ WordsTo(argind) = WordsTo(Word - 1) \o WordGives(Word)
         /\ Ready(argind) /\ Ready(Word - 1)
         /\ OptionsAt(1 .. argind, "section") = OptionsAt(1 .. Word, "section")
<1>1. Len(line) \in Nat /\ Word \in 1 .. Len(line)
  BY LineType DEF Current
<1>2. Word - 1 \in 0 .. Len(line) - 1 /\ (Word - 1) + 1 = Word
  BY <1>1
<1>3. WordsTo(Word - 1) \in Seq(Setting) /\ WordsTo(Word) = WordsTo(Word - 1) \o WordGives(Word)
  <2> DEFINE n == Word - 1
  <2>1. n \in 0 .. Len(line) - 1 /\ n + 1 = Word
    BY <1>2
  <2> HIDE DEF n
  <2>2. WordsTo(n) \in Seq(Setting) /\ WordsTo(n + 1) = WordsTo(n) \o WordGives(n + 1)
    BY <2>1, WordsToStep
  <2>3. WordsTo(n) \in Seq(Setting) /\ WordsTo(Word) = WordsTo(n) \o WordGives(Word)
    BY <2>1, <2>2
  <2> QED
    BY <2>3 DEF n
<1>4. Ready(Word - 1)
  BY <1>1 DEF Ready
<1>5. CASE Word = argind
  BY <1>1, <1>2, <1>3, <1>4, <1>5
<1>6. CASE Word # argind
  <2>1. Word = argind - 1 /\ line[argind].form = "plain" /\ argind \in 1 .. Len(line)
    BY <1>1, <1>6 DEF Word
  <2>2. line[argind].opt = None /\ None # "configfile" /\ None # "section"
    BY <2>1, LineType, NoneAssumption DEF go, Params
  <2>3. Ready(argind)
    BY <2>1, <2>2 DEF Ready
  <2>4. WordGives(argind) = << >>
    BY <2>1 DEF WordGives
  <2>5. WordsTo(Word) \in Seq(Setting)
    BY <1>1, WordsToType
  <2>6. Word \in 0 .. Len(line) - 1 /\ Word + 1 = argind
    BY <1>1, <2>1
  <2>7. WordsTo(argind) = WordsTo(Word) \o << >>
    <3> DEFINE n == Word
    <3>1. n \in 0 .. Len(line) - 1 /\ n + 1 = argind
      BY <2>6
    <3> HIDE DEF n
    <3>2. WordsTo(n + 1) = WordsTo(n) \o WordGives(n + 1)
      BY <2>3, <3>1, WordsToStep
    <3>3. WordsTo(argind) = WordsTo(n) \o << >>
      BY <2>4, <3>1, <3>2
    <3> QED
      BY <3>3 DEF n
  <2>8. WordsTo(argind) = WordsTo(Word)
    BY <2>5, <2>7
  <2>9. OptionsAt(1 .. argind, "section") = OptionsAt(1 .. Word, "section")
    BY <1>1, <2>1, <2>2 DEF OptionsAt
  <2> QED
    BY <1>1, <1>2, <1>3, <1>4, <2>3, <2>8, <2>9
<1> QED
  BY <1>5, <1>6


-----------------------------------------------------------------------------
(* Types                                                                   *)

\* the values of the parameters that are numbers
Numbers ==
  /\ \A o \in NumOpts : param[o] # None => param[o] \in 0 .. IntMax
  /\ \A o \in YesNoOpts : param[o] # None => param[o] \in 0 .. 1

ReaderType ==
  /\ line \in Lines /\ argind \in 0 .. Len(line) /\ optind \in 0 .. 1
  /\ file \in Files \cup {None}
  /\ row \in 0 .. (IF file = None THEN 0 ELSE Len(file))
  /\ pos \in -1 .. (IF row = 0 THEN -1 ELSE Len(Body(file[row])))
  /\ in_sect \in BOOLEAN

ControlType ==
  /\ pc \in {"argv", "file", "set", "read"} \cup Ended
  /\ fp \in BOOLEAN /\ (pc = "file" => fp) /\ (pc \in {"argv", "read"} => ~fp)
  /\ option \in go \cup {None}
  /\ fileread \in BOOLEAN

LEMMA TypeParts ==
  TypeOK <=> ReaderType /\ ControlType /\ Numbers /\ nowarn \in BOOLEAN /\ warned \subseteq Params
  BY DEF TypeOK, ReaderType, ControlType, Numbers

LEMMA ValueNumber ==
  ASSUME NEW o \in Params, NEW a, Accepts(o, a)
  PROVE  /\ o \in NumOpts => Value(o, a) \in 0 .. IntMax
         /\ o \in YesNoOpts => Value(o, a) \in {0, 1}
<1>1. CASE o \in NumOpts
  <2>1. Number[a] \in Int /\ ToInt(Number[a]) >= 0
    BY <1>1, ArgsAssumption DEF Accepts
  <2>2. ToInt(Number[a]) \in 0 .. IntMax
    BY <2>1, Int32, IntAssumption
  <2>3. o \notin YesNoOpts
    BY <1>1 DEF NumOpts, YesNoOpts
  <2> QED
    BY <1>1, <2>2, <2>3 DEF Value
<1>2. CASE o \in YesNoOpts
  <2>1. a \in DOMAIN YesNo /\ o \notin NumOpts
    BY <1>2 DEF Accepts, NumOpts, YesNoOpts
  <2>2. YesNo[a] \in {0, 1}
    BY <2>1 DEF YesNo
  <2> QED
    BY <1>2, <2>1, <2>2 DEF Value
<1> QED
  BY <1>1, <1>2

LEMMA AssignNumbers ==
  ASSUME NEW old, NEW given, Assign(old, given), DOMAIN given \subseteq Params,
         \A o \in DOMAIN given : Accepts(o, given[o]),
         \A o \in NumOpts \cup YesNoOpts : old[o] = param[o],
         Numbers, warned \subseteq Params
  PROVE  Numbers' /\ warned' \subseteq Params
<1>1. \A o \in NumOpts \cup YesNoOpts : o \in Params
  BY DEF Params
<1>2. \A o \in NumOpts \cup YesNoOpts :
        param'[o] = IF o \in DOMAIN given THEN Value(o, given[o]) ELSE param[o]
  BY <1>1 DEF Assign
<1>3. \A o \in NumOpts : param'[o] # None => param'[o] \in 0 .. IntMax
  BY <1>1, <1>2, ValueNumber DEF Numbers
<1>4. \A o \in YesNoOpts : param'[o] # None => param'[o] \in 0 .. 1
  <2> SUFFICES ASSUME NEW o \in YesNoOpts, param'[o] # None PROVE param'[o] \in 0 .. 1
    OBVIOUS
  <2>1. CASE o \in DOMAIN given
    <3>1. Value(o, given[o]) \in {0, 1}
      BY <1>1, <2>1, ValueNumber
    <3> QED
      BY <1>2, <2>1, <3>1
  <2>2. CASE o \notin DOMAIN given
    BY <1>2, <2>2 DEF Numbers
  <2> QED
    BY <2>1, <2>2
<1>5. warned' \subseteq Params
  BY DEF Assign
<1> QED
  BY <1>3, <1>4, <1>5 DEF Numbers

\* what reads words or rows
LEMMA ReadingType ==
  ASSUME TypeOK, NextWord \/ ShortOption \/ EndOfLine \/ EndOfFile \/ ReadError
                   \/ NewRow \/ SameRow, pc = "file" => file \in Files
  PROVE  TypeOK'
<1>1. ReaderType /\ ControlType /\ Numbers /\ nowarn \in BOOLEAN /\ warned \subseteq Params
  BY TypeParts
<1>2. UNCHANGED settings
  BY DEF NextWord, ShortOption, EndOfLine, EndOfFile, ReadError, NewRow, SameRow
<1>3. Numbers' /\ nowarn' \in BOOLEAN /\ warned' \subseteq Params
  BY <1>1, <1>2 DEF settings, Numbers
<1>4. Len(line) \in Nat
  BY <1>1, LineType DEF ReaderType
<1>5. file \in Files => Len(file) \in Nat /\ \A i \in 1 .. Len(file) : Body(file[i]) \in Seq(Text) /\ Len(Body(file[i])) \in Nat
  BY FileType
<1>6. ControlType'
  <2>1. CASE NextWord
    BY <1>1, <1>2, <2>1 DEF NextWord, ControlType, Found, Exit, found, settings, NO_ARG, OPT_ARG, REQ_ARG, go, Params, Ended
  <2>2. CASE ShortOption
    BY <1>1, <1>2, <2>2 DEF ShortOption, ControlType, Found, Exit, found, settings, OPT_ARG, go, Params, Ended
  <2>3. CASE EndOfLine \/ EndOfFile \/ ReadError
    <3>1. CASE EndOfLine
      BY <1>1, <1>2, <3>1 DEF EndOfLine, ControlType, found, settings, Ended
    <3>2. CASE EndOfFile
      BY <1>1, <1>2, <3>2 DEF EndOfFile, ControlType, found, settings, Ended
    <3>3. CASE ReadError
      BY <1>1, <1>2, <3>3 DEF ReadError, ControlType, Exit, found, settings, Ended
    <3> QED
      BY <2>3, <3>1, <3>2, <3>3
  <2>4. CASE NewRow
    BY <1>1, <1>2, <2>4 DEF NewRow, ControlType, Found, Exit, found, settings, Ended
  <2>5. CASE SameRow
    BY <1>1, <1>2, <2>5 DEF SameRow, ControlType, Found, found, settings, Ended
  <2> QED
    BY <2>1, <2>2, <2>3, <2>4, <2>5
<1>7. ReaderType'
  <2>1. CASE NextWord
    BY <1>1, <1>4, <2>1 DEF NextWord, ReaderType
  <2>2. CASE ShortOption
    BY <1>1, <1>4, <2>2 DEF ShortOption, ReaderType
  <2>3. CASE EndOfLine \/ EndOfFile \/ ReadError
    BY <1>1, <2>3 DEF EndOfLine, EndOfFile, ReadError, ReaderType, reader
  <2>4. CASE NewRow
    <3>1. file \in Files /\ file # None
      BY <2>4, FilesAssumption DEF NewRow
    <3>2. row < Len(file) /\ pos < 0 /\ row' = row + 1 /\ UNCHANGED <<line, argind, optind, file>>
      BY <2>4 DEF NewRow
    <3>3. row' \in 1 .. Len(file) /\ pos = -1
      BY <1>1, <1>5, <3>1, <3>2 DEF ReaderType
    <3>4. in_sect' \in BOOLEAN
      BY <1>1, <2>4 DEF NewRow, InSection, ReaderType
    <3>5. pos' = -1 \/ (pos' = 3 /\ Len(Body(file[row + 1])) > 2)
      BY <2>4, <3>3 DEF NewRow
    <3>6. pos' \in -1 .. Len(Body(file[row'])) /\ row' # 0
      BY <1>5, <3>1, <3>2, <3>3, <3>5
    <3> QED
      BY <1>1, <3>1, <3>2, <3>3, <3>4, <3>6 DEF ReaderType
  <2>5. CASE SameRow
    <3>1. file \in Files /\ file # None
      BY <2>5, FilesAssumption DEF SameRow
    <3>2. row \in 1 .. Len(file) /\ pos >= 0 /\ UNCHANGED <<line, argind, optind, file, row, in_sect>>
      BY <1>1, <1>5, <2>5, <3>1 DEF SameRow, ReaderType
    <3>3. pos' = -1 \/ (pos' = pos + 1 /\ pos < Len(Body(file[row])))
      BY <2>5 DEF SameRow
    <3>4. pos' \in -1 .. Len(Body(file[row]))
      BY <1>1, <1>5, <3>1, <3>2, <3>3 DEF ReaderType
    <3> QED
      BY <1>1, <3>1, <3>2, <3>4 DEF ReaderType
  <2> QED
    BY <2>1, <2>2, <2>3, <2>4, <2>5
<1> QED
  BY <1>3, <1>6, <1>7 DEF TypeOK, ReaderType, ControlType, Numbers


\* the switch of main, and what comes behind the loop
LEMMA SettingType ==
  ASSUME TypeOK, SetParam \/ FreeEnviron \/ AddParam \/ Help \/ SetUrl \/ SetVersion
                   \/ SetSection
  PROVE  TypeOK'
<1>1. ReaderType /\ ControlType /\ Numbers /\ nowarn \in BOOLEAN /\ warned \subseteq Params
  BY TypeParts
<1>2. UNCHANGED <<reader, found, fileread, fp>>
  BY DEF SetParam, FreeEnviron, AddParam, Help, SetUrl, SetVersion, SetSection, settings
<1>3. ReaderType'
  BY <1>1, <1>2 DEF reader, ReaderType
<1>4. pc' = (IF fp THEN "file" ELSE "argv") \/ pc' \in Ended
  BY DEF SetParam, FreeEnviron, AddParam, Help, SetUrl, SetVersion, SetSection, Continue, Exit, Ended
<1>5. ControlType'
  BY <1>1, <1>2, <1>4 DEF found, ControlType, Ended
<1>6. Numbers' /\ warned' \subseteq Params
  <2>1. CASE UNCHANGED <<param, warned>>
    BY <1>1, <2>1 DEF Numbers
  <2>2. CASE ~UNCHANGED <<param, warned>>
    <3>1. CASE SetParam
      <4>1. Assign(param, One(option, arg)) /\ Accepts(option, arg) /\ option \in Params
        BY <2>2, <3>1 DEF SetParam
      <4>2. DOMAIN One(option, arg) \subseteq Params /\ \A o \in DOMAIN One(option, arg) : Accepts(o, One(option, arg)[o])
        BY <4>1 DEF One
      <4> QED
        BY <1>1, <4>1, <4>2, AssignNumbers
    <3>2. CASE SetUrl
      <4> DEFINE old == [param EXCEPT !["localdir"] = IF @ = None THEN "." ELSE @]
      <4>1. Assign(old, UrlParts(arg)) /\ \A o \in DOMAIN UrlParts(arg) : Accepts(o, UrlParts(arg)[o])
        BY <2>2, <3>2 DEF SetUrl
      <4>2. DOMAIN UrlParts(arg) \subseteq Params
        BY DEF UrlParts, UrlOpts, Params, StrOpts, NumOpts
      <4>3. \A o \in NumOpts \cup YesNoOpts : old[o] = param[o]
        BY DEF NumOpts, YesNoOpts
      <4> HIDE DEF old
      <4> QED
        BY <1>1, <4>1, <4>2, <4>3, AssignNumbers
    <3>3. CASE SetVersion \/ SetSection
      <4>1. Assign(param, One(option, arg)) /\ option \in {"version", "section"}
        BY <2>2, <3>3 DEF SetVersion, SetSection
      <4>2. /\ DOMAIN One(option, arg) \subseteq Params
            /\ \A o \in DOMAIN One(option, arg) : Accepts(o, One(option, arg)[o])
        BY <4>1 DEF One, Params, Accepts, NumOpts, YesNoOpts
      <4> QED
        BY <1>1, <4>1, <4>2, AssignNumbers
    <3>4. CASE FreeEnviron \/ AddParam \/ Help
      BY <2>2, <3>4 DEF FreeEnviron, AddParam, Help, settings
    <3> QED
      BY <3>1, <3>2, <3>3, <3>4
  <2> QED
    BY <2>1, <2>2
<1>7. nowarn' \in BOOLEAN
  <2>1. CASE SetParam
    BY <1>1, <2>1 DEF SetParam
  <2>2. CASE ~SetParam
    BY <1>1, <2>2 DEF FreeEnviron, AddParam, Help, SetUrl, SetVersion, SetSection, settings
  <2> QED
    BY <2>1, <2>2
<1> QED
  BY <1>3, <1>5, <1>6, <1>7 DEF TypeOK, ReaderType, ControlType, Numbers

LEMMA OpenType ==
  ASSUME TypeOK, OpenFile
  PROVE  TypeOK'
<1>1. ReaderType /\ ControlType /\ Numbers /\ nowarn \in BOOLEAN /\ warned \subseteq Params
  BY TypeParts
<1>2. UNCHANGED <<line, argind, optind, found, param, nowarn, warned>> /\ fileread' = TRUE
  BY DEF OpenFile
<1>3. \/ /\ ~fp /\ fp' = TRUE /\ pc' = "file" /\ file' \in Files
         /\ row' = 0 /\ pos' = -1 /\ in_sect' \in BOOLEAN
      \/ pc' = "exit1" /\ UNCHANGED <<fp, file, row, pos, path, in_sect>>
  <2>1. CASE pc' = "exit1" /\ UNCHANGED <<fp, file, row, pos, path, in_sect>>
    BY <2>1
  <2>2. CASE ~(pc' = "exit1" /\ UNCHANGED <<fp, file, row, pos, path, in_sect>>)
    <3>1. /\ ~fp /\ fp' = TRUE /\ pc' = "file" /\ tgetopt_file_init(param["section"])
          /\ file' \in IF file = None THEN Files ELSE {file}
      BY <2>2 DEF OpenFile, Exit
    <3>2. file' \in Files
      BY <1>1, <3>1 DEF ReaderType
    <3>3. row' = 0 /\ pos' = -1 /\ in_sect' \in BOOLEAN
      BY <3>1 DEF tgetopt_file_init
    <3> QED
      BY <3>1, <3>2, <3>3
  <2> QED
    BY <2>1, <2>2
<1>4. ReaderType'
  <2>1. CASE UNCHANGED <<fp, file, row, pos, path, in_sect>>
    BY <1>1, <1>2, <2>1 DEF ReaderType
  <2>2. CASE file' \in Files /\ row' = 0 /\ pos' = -1 /\ in_sect' \in BOOLEAN
    <3>1. file' # None /\ Len(file') \in Nat
      BY <2>2, FilesAssumption
    <3> QED
      BY <1>1, <1>2, <2>2, <3>1 DEF ReaderType
  <2> QED
    BY <1>3, <2>1, <2>2
<1>5. ControlType'
  BY <1>1, <1>2, <1>3 DEF ControlType, found, Ended
<1>6. Numbers'
  BY <1>1, <1>2 DEF Numbers
<1> QED
  BY <1>1, <1>2, <1>4, <1>5, <1>6 DEF TypeOK, ReaderType, ControlType, Numbers

LEMMA ConfigureType ==
  ASSUME TypeOK, Configure
  PROVE  TypeOK'
<1>1. ReaderType /\ ControlType /\ Numbers /\ nowarn \in BOOLEAN /\ warned \subseteq Params
  BY TypeParts
<1>2. UNCHANGED <<reader, found, nowarn, fileread, warned, fp>> /\ pc = "read" /\ pc' \in {"exit1", "configured"}
  BY DEF Configure, Exit
<1>3. ReaderType' /\ ControlType'
  <2>1. ReaderType'
    BY <1>1, <1>2 DEF reader, ReaderType
  <2> QED
    BY <1>1, <1>2, <2>1 DEF found, ControlType, Ended
<1>4. Numbers'
  <2>1. CASE UNCHANGED param
    BY <1>1, <2>1 DEF Numbers
  <2>2. CASE ~UNCHANGED param
    <3>1. \A o \in NumOpts \cup YesNoOpts : o \in Params \ {"logfile", "lockfile"}
      BY DEF Params, NumOpts, YesNoOpts
    <3>2. \A o \in Params \ {"logfile", "lockfile"} : param'[o] = IF param[o] = None THEN Default(o) ELSE param[o]
      BY <2>2 DEF Configure
    <3>3. \A o \in NumOpts : Default(o) \in {0, 20, 21, 150}
      BY DEF NumOpts, Default
    <3>4. \A o \in YesNoOpts : Default(o) \in 0 .. 1
      <4>1. \A o \in YesNoOpts : Default(o) \in {0, 1}
        BY DEF YesNoOpts, Default
      <4> QED
        BY <4>1
    <3>5. \A o \in NumOpts : Default(o) \in 0 .. IntMax
      BY <3>3, IntAssumption
    <3> QED
      BY <1>1, <3>1, <3>2, <3>4, <3>5 DEF Numbers
  <2> QED
    BY <2>1, <2>2
<1> QED
  BY <1>1, <1>2, <1>3, <1>4 DEF TypeOK, ReaderType, ControlType, Numbers


-----------------------------------------------------------------------------
(* A setting is applied                                                    *)

LEMMA ValueNotNone ==
  ASSUME NEW o \in Params, NEW a \in Text, Accepts(o, a)
  PROVE  Value(o, a) # None
<1>1. CASE o \in NumOpts
  <2>1. Value(o, a) \in Int
    BY <1>1, ValueNumber, IntAssumption
  <2> QED
    BY <2>1, NoneAssumption
<1>2. CASE o \in YesNoOpts
  <2>1. Value(o, a) \in Int
    BY <1>2, ValueNumber
  <2> QED
    BY <2>1, NoneAssumption
<1>3. CASE o = "family"
  <2>1. a \in DOMAIN Family /\ o \notin NumOpts /\ o \notin YesNoOpts
    BY <1>3 DEF Accepts, NumOpts, YesNoOpts
  <2>2. Family[a] \in {"unspec", "inet", "inet6"}
    BY <2>1 DEF Family
  <2>3. Value(o, a) \in {"unspec", "inet", "inet6"}
    BY <1>3, <2>1, <2>2 DEF Value
  <2> QED
    BY <2>3, NoneAssumption
<1>4. CASE o \notin NumOpts \cup YesNoOpts \cup {"family"}
  BY <1>4, NoneAssumption DEF Value
<1> QED
  BY <1>1, <1>2, <1>3, <1>4

LEMMA UrlValued ==
  ASSUME NEW u \in DOMAIN Urls
  PROVE  \A o \in DOMAIN UrlParts(u) : o \in UrlOpts /\ UrlParts(u)[o] \in Text
  BY ArgsAssumption DEF UrlParts

\* a setting of one parameter
LEMMA TakesOne ==
  ASSUME Shape, NEW s \in Setting, s.opt \in Params, s.arg \in Text, Accepts(s.opt, s.arg),
         Assign(param, One(s.opt, s.arg)), UNCHANGED lists,
         nowarn' = IF s.opt = "warnoverrides" THEN Value(s.opt, s.arg) = 0 ELSE nowarn
  PROVE  Takes(s) /\ Valued(s)
<1>1. s.opt \notin {"url", "skip", "treatasdir", "treatasdirdest"}
  BY DEF Params, NumOpts, YesNoOpts, StrOpts
<1>2. Gives(s) = One(s.opt, s.arg)
  BY <1>1 DEF Gives
<1>3. DOMAIN Gives(s) = {s.opt} /\ Gives(s)[s.opt] = s.arg
  BY <1>2 DEF One
<1>4. param' = [o \in Params |-> IF o \in DOMAIN Gives(s) THEN Value(o, Gives(s)[o])
                                ELSE IF o = "localdir" /\ s.opt = "url" /\ param[o] = None THEN "."
                                ELSE param[o]]
  BY <1>1, <1>2 DEF Assign
<1>5. warned' = IF nowarn THEN warned
                ELSE warned \cup {o \in Params : o \in DOMAIN Gives(s) /\ param[o] # None}
  <2>1. warned' = IF nowarn THEN warned ELSE warned \cup {o \in DOMAIN Gives(s) : param[o] # None}
    BY <1>2 DEF Assign
  <2>2. {o \in DOMAIN Gives(s) : param[o] # None} = {o \in Params : o \in DOMAIN Gives(s) /\ param[o] # None}
    BY <1>3
  <2> QED
    BY <2>1, <2>2
<1>6. lists' = [skip |-> lists.skip, treatasdir |-> lists.treatasdir]
  BY DEF Shape
<1>7. nowarn' = IF s.opt = "warnoverrides" THEN Value("warnoverrides", s.arg) = 0 ELSE nowarn
  OBVIOUS
<1>8. Takes(s)
  BY <1>1, <1>4, <1>5, <1>6, <1>7 DEF Takes
<1>9. s.opt = "warnoverrides" => Value("warnoverrides", s.arg) \in {0, 1}
  BY ValueNumber DEF YesNoOpts
<1>10. \A o \in Params : o \in DOMAIN Gives(s) => Value(o, Gives(s)[o]) # None
  BY <1>3, ValueNotNone
<1> QED
  BY <1>3, <1>8, <1>9, <1>10 DEF Valued

LEMMA TakesUrl ==
  ASSUME Shape, NEW s \in Setting, s.opt = "url", s.arg \in DOMAIN Urls,
         \A o \in DOMAIN UrlParts(s.arg) : Accepts(o, UrlParts(s.arg)[o]),
         Assign([param EXCEPT !["localdir"] = IF @ = None THEN "." ELSE @], UrlParts(s.arg)),
         UNCHANGED <<lists, nowarn>>
  PROVE  Takes(s) /\ Valued(s)
<1> DEFINE old == [param EXCEPT !["localdir"] = IF @ = None THEN "." ELSE @]
<1>1. Gives(s) = UrlParts(s.arg)
  BY DEF Gives
<1>2. \A o \in DOMAIN Gives(s) : o \in UrlOpts /\ Gives(s)[o] \in Text
  BY <1>1, UrlValued
<1>3. \A o \in UrlOpts : o \in Params /\ o # "localdir" /\ o # "warnoverrides"
  BY DEF UrlOpts, Params, StrOpts, NumOpts
<1>4. \A o \in Params : old[o] = IF o = "localdir" /\ param[o] = None THEN "." ELSE param[o]
  BY DEF Shape
<1> HIDE DEF old
<1>5. Assign(old, Gives(s))
  BY <1>1 DEF old
<1>6. param' = [o \in Params |-> IF o \in DOMAIN Gives(s) THEN Value(o, Gives(s)[o])
                                ELSE IF o = "localdir" /\ s.opt = "url" /\ param[o] = None THEN "."
                                ELSE param[o]]
  BY <1>4, <1>5 DEF Assign
<1>7. warned' = IF nowarn THEN warned
                ELSE warned \cup {o \in Params : o \in DOMAIN Gives(s) /\ param[o] # None}
  <2>1. warned' = IF nowarn THEN warned ELSE warned \cup {o \in DOMAIN Gives(s) : old[o] # None}
    BY <1>5 DEF Assign
  <2>2. {o \in DOMAIN Gives(s) : old[o] # None} = {o \in Params : o \in DOMAIN Gives(s) /\ param[o] # None}
    BY <1>2, <1>3, <1>4
  <2> QED
    BY <2>1, <2>2
<1>8. lists' = [skip |-> lists.skip, treatasdir |-> lists.treatasdir]
  BY DEF Shape
<1>9. Takes(s)
  BY <1>6, <1>7, <1>8 DEF Takes
<1>10. \A o \in Params : o \in DOMAIN Gives(s) => Value(o, Gives(s)[o]) # None
  BY <1>1, <1>2, ValueNotNone
<1> QED
  BY <1>2, <1>3, <1>9, <1>10 DEF Valued

LEMMA TakesExpression ==
  ASSUME Shape, NEW s \in Setting, s.opt \in ListOpts, UNCHANGED <<param, warned, nowarn>>,
         lists' = IF s.opt = "skip" THEN [lists EXCEPT !.skip = <<s.arg>> \o @]
                  ELSE [lists EXCEPT !.treatasdir =
                          <<[name |-> s.arg, deref |-> s.opt = "treatasdirdest"]>> \o @]
  PROVE  Takes(s) /\ Valued(s)
<1>1. s.opt \notin Params /\ s.opt # "url" /\ s.opt # "warnoverrides"
  BY DEF ListOpts, Params, StrOpts, NumOpts, YesNoOpts
<1>2. DOMAIN Gives(s) = {s.opt}
  BY <1>1 DEF Gives, One
<1>3. param' = [o \in Params |-> IF o \in DOMAIN Gives(s) THEN Value(o, Gives(s)[o])
                                ELSE IF o = "localdir" /\ s.opt = "url" /\ param[o] = None THEN "."
                                ELSE param[o]]
  BY <1>1, <1>2 DEF Shape
<1>4. {o \in Params : o \in DOMAIN Gives(s) /\ param[o] # None} = {}
  BY <1>1, <1>2
<1>5. warned' = IF nowarn THEN warned
                ELSE warned \cup {o \in Params : o \in DOMAIN Gives(s) /\ param[o] # None}
  BY <1>4
<1>6. lists' = [skip |-> IF s.opt = "skip" THEN <<s.arg>> \o lists.skip ELSE lists.skip,
                treatasdir |->
                  IF s.opt \in {"treatasdir", "treatasdirdest"}
                    THEN <<[name |-> s.arg, deref |-> s.opt = "treatasdirdest"]>> \o lists.treatasdir
                    ELSE lists.treatasdir]
  BY DEF Shape, ListOpts
<1>7. Takes(s)
  BY <1>1, <1>3, <1>5, <1>6 DEF Takes
<1> QED
  BY <1>1, <1>2, <1>7 DEF Valued

LEMMA TakesSetting ==
  ASSUME TypeOK, Shape, ArgPlace, pc' \in Alive,
         SetParam \/ AddParam \/ SetUrl \/ SetVersion \/ SetSection,
         NEW s, s = [opt |-> option, arg |-> arg]
  PROVE  /\ s \in Setting /\ Takes(s) /\ Valued(s)
         /\ option \in go \ {"configfile", "help"} /\ arg # None /\ pc = "set"
         /\ UNCHANGED <<reader, found, fp>> /\ pc' = IF fp THEN "file" ELSE "argv"
         /\ option = "section" => ~fp
         /\ param'["section"] = IF option = "section" THEN arg ELSE param["section"]
<1>1. pc = "set" /\ option \in go /\ arg \in Args /\ (arg = None => option \in {"version", "help"})
  BY DEF SetParam, AddParam, SetUrl, SetVersion, SetSection, ArgPlace
<1>2. UNCHANGED <<reader, found, fp>> /\ pc' = IF fp THEN "file" ELSE "argv"
  BY DEF SetParam, AddParam, SetUrl, SetVersion, SetSection, Continue, Exit, Alive
<1>3. option \notin {"configfile", "help"} /\ (option = "section" => ~fp)
  BY DEF SetParam, AddParam, SetUrl, SetVersion, SetSection, Params, NumOpts, YesNoOpts, StrOpts, ListOpts, Alive, Exit
<1>4. arg # None /\ arg \in Text
  <2>1. arg # None
    BY <1>1 DEF SetParam, AddParam, SetUrl, SetVersion, SetSection, Params, NumOpts, YesNoOpts, StrOpts, ListOpts, Alive, Exit
  <2> QED
    BY <1>1, <2>1 DEF Args
<1>5. s \in Setting /\ s.opt = option /\ s.arg = arg
  BY <1>1 DEF Setting
<1>6. Takes(s) /\ Valued(s)
  <2>1. CASE SetParam
    <3>1. /\ option \in Params /\ Accepts(option, arg) /\ Assign(param, One(option, arg))
          /\ nowarn' = IF option = "warnoverrides" THEN Value(option, arg) = 0 ELSE nowarn
          /\ UNCHANGED lists
      BY <2>1 DEF SetParam, Exit, Alive
    <3> QED
      BY <1>4, <1>5, <3>1, TakesOne
  <2>2. CASE SetVersion \/ SetSection
    <3>1. /\ option \in {"version", "section"} /\ Assign(param, One(option, arg))
          /\ UNCHANGED <<nowarn, lists>>
      BY <1>4, <2>2 DEF SetVersion, SetSection, Exit, Alive
    <3>2. option \in Params /\ Accepts(option, arg) /\ option # "warnoverrides"
      BY <3>1 DEF Params, Accepts, NumOpts, YesNoOpts
    <3> QED
      BY <1>4, <1>5, <3>1, <3>2, TakesOne
  <2>3. CASE SetUrl
    <3>1. /\ option = "url" /\ arg \in DOMAIN Urls
          /\ \A o \in DOMAIN UrlParts(arg) : Accepts(o, UrlParts(arg)[o])
          /\ Assign([param EXCEPT !["localdir"] = IF @ = None THEN "." ELSE @], UrlParts(arg))
          /\ UNCHANGED <<lists, nowarn>>
      BY <2>3 DEF SetUrl, Exit, Alive
    <3> QED
      BY <1>5, <3>1, TakesUrl
  <2>4. CASE AddParam
    <3>1. /\ option \in ListOpts /\ UNCHANGED <<param, warned, nowarn>>
          /\ lists' = IF option = "skip" THEN [lists EXCEPT !.skip = <<arg>> \o @]
                      ELSE [lists EXCEPT !.treatasdir =
                              <<[name |-> arg, deref |-> option = "treatasdirdest"]>> \o @]
      BY <2>4 DEF AddParam, Exit, Alive
    <3> QED
      BY <1>5, <3>1, TakesExpression
  <2> QED
    BY <2>1, <2>2, <2>3, <2>4
<1>7. param'["section"] = IF option = "section" THEN arg ELSE param["section"]
  <2>1. "section" \in Params /\ "section" \notin UrlOpts /\ "section" # "url"
    BY DEF Params, UrlOpts
  <2>2. CASE option = "section"
    <3>1. Gives(s) = One("section", arg)
      BY <1>5, <2>2 DEF Gives
    <3>2. param'["section"] = Value("section", arg)
      BY <1>6, <2>1, <3>1 DEF Takes, One
    <3>3. Value("section", arg) = arg
      BY DEF Value, NumOpts, YesNoOpts
    <3> QED
      BY <2>2, <3>2, <3>3
  <2>3. CASE option # "section"
    <3>1. "section" \notin DOMAIN Gives(s)
      BY <1>5, <2>1, <2>3 DEF Gives, UrlParts, One
    <3> QED
      BY <1>6, <2>1, <2>3, <3>1 DEF Takes
  <2> QED
    BY <2>2, <2>3
<1> QED
  BY <1>1, <1>2, <1>3, <1>4, <1>5, <1>6, <1>7

\* what of a row has been applied before the argument at token k
LEMMA RowPart ==
  ASSUME file \in Files, NEW i \in 1 .. Len(file), NEW k \in 3 .. Len(Body(file[i]))
  PROVE  /\ SubSeq(RowSettings(i), 1, k - 3) \in Seq(Setting)
         /\ SubSeq(RowSettings(i), 1, k - 2) =
              Append(SubSeq(RowSettings(i), 1, k - 3), [opt |-> Body(file[i])[1], arg |-> Body(file[i])[k]])
         /\ k = Len(Body(file[i])) => SubSeq(RowSettings(i), 1, k - 2) = RowSettings(i)
         /\ SubSeq(RowSettings(i), 1, 0) = << >>
<1> DEFINE b == Body(file[i])
           R == RowSettings(i)
           s == [opt |-> b[1], arg |-> b[k]]
<1>1. b \in Seq(Text) /\ Len(b) \in Nat
  BY FileType
<1>2. /\ R \in Seq(Setting) /\ Len(R) = Len(b) - 2
      /\ \A j \in 1 .. Len(b) - 2 : R[j] = [opt |-> b[1], arg |-> b[j + 2]]
  BY <1>1, RowSettingsType
<1> HIDE DEF b, R
<1>3. k \in Nat /\ k - 2 \in 1 .. Len(R)
  BY <1>1, <1>2 DEF b
<1>4. R[k - 2] = s
  <2>1. R[k - 2] = [opt |-> b[1], arg |-> b[(k - 2) + 2]] /\ (k - 2) + 2 = k
    BY <1>2, <1>3
  <2> QED
    BY <2>1
<1> HIDE DEF s
<1>5. s \in Setting
  BY <1>2, <1>3, <1>4
<1>6. SubSeq(R, 1, k - 3) \in Seq(Setting)
  BY <1>2, <1>3
<1>7. SubSeq(R, 1, k - 2) = Append(SubSeq(R, 1, k - 3), s)
  <2> DEFINE m == k - 2
  <2>1. m \in 1 .. Len(R) /\ k - 3 = m - 1 /\ R[m] = s
    BY <1>3, <1>4
  <2> HIDE DEF m
  <2>2. SubSeq(R, 1, m) = Append(SubSeq(R, 1, m - 1), R[m])
    BY <1>2, <2>1
  <2> QED
    BY <2>1, <2>2 DEF m
<1>8. k = Len(b) => SubSeq(R, 1, k - 2) = R
  BY <1>1, <1>2
<1>9. SubSeq(R, 1, 0) = << >>
  BY <1>2
<1> QED
  BY <1>6, <1>7, <1>8, <1>9 DEF b, R, s

LEMMA SettledReady ==
  ASSUME TypeOK, Place, pc \in Alive
  PROVE  /\ fp \/ pc = "set" => Current /\ optind = 0
         /\ Current => Word \in 1 .. Len(line) /\ Word - 1 \in 0 .. Len(line)
         /\ Settled \in 0 .. Len(line)
         /\ WordsTo(Settled) \in Seq(Setting)
<1>1. line \in Lines /\ argind \in 0 .. Len(line) /\ optind \in 0 .. 1 /\ Len(line) \in Nat
      /\ (pc \in {"argv", "read"} => ~fp) /\ (pc = "file" => fp)
  BY LineType DEF TypeOK
<1>2. fp \/ pc = "set" => Current /\ optind = 0
  BY <1>1 DEF Place, LinePlace, FilePlace
<1>3. Current => Word \in 1 .. Len(line) /\ Word - 1 \in 0 .. Len(line)
  BY <1>1 DEF Current
<1>4. optind # 0 => Word = argind /\ argind >= 1
  BY <1>1 DEF Place, LinePlace, Word
<1>5. Settled \in 0 .. Len(line)
  BY <1>1, <1>2, <1>3, <1>4 DEF Settled
<1>6. WordsTo(Settled) \in Seq(Setting)
  BY <1>1, <1>5, WordsToType DEF Place
<1> QED
  BY <1>2, <1>3, <1>5, <1>6

LEMMA AppliedType ==
  ASSUME TypeOK, Place, pc \in Alive
  PROVE  Applied \in Seq(Setting)
<1>1. WordsTo(Settled) \in Seq(Setting)
  BY SettledReady
<1>2. CASE ~fp
  BY <1>1, <1>2 DEF Applied
<1>3. CASE fp
  <2>1. Settled = Word - 1 /\ file \in Files /\ file # None
    BY <1>3, FilesAssumption DEF Settled, Place, FilePlace
  <2>2. row \in 0 .. Len(file) /\ Len(file) \in Nat
    BY <2>1, FileType DEF TypeOK
  <2>3. RowsTo(row, path) \in Seq(Setting)
    BY <2>1, <2>2, RowsToType
  <2>4. CASE pos < 0
    BY <1>1, <1>3, <2>1, <2>3, <2>4 DEF Applied
  <2>5. CASE ~(pos < 0)
    <3>1. row \in 1 .. Len(file) /\ row - 1 \in 0 .. Len(file) /\ pos \in 3 .. Len(Body(file[row]))
      <4>1. pos \in Int
        <5>1. row # 0 => Len(Body(file[row])) \in Nat
          BY <2>1, <2>2, FileType
        <5> QED
          BY <5>1 DEF TypeOK
      <4>2. row >= 1 /\ pos >= 3
        BY <1>3, <2>5, <4>1 DEF Place, FilePlace
      <4> QED
        BY <2>1, <2>2, <4>1, <4>2 DEF TypeOK
    <3>2. RowsTo(row - 1, path) \in Seq(Setting)
      BY <2>1, <3>1, RowsToType
    <3> DEFINE k == IF pc = "set" THEN pos - 3 ELSE pos - 2
    <3>3. SubSeq(RowSettings(row), 1, k) \in Seq(Setting)
      <4>1. RowSettings(row) \in Seq(Setting) /\ Len(RowSettings(row)) = Len(Body(file[row])) - 2
        BY <2>1, <3>1, RowSettingsType, FileType
      <4>2. k \in Nat /\ k <= Len(RowSettings(row))
        BY <2>1, <3>1, <4>1, FileType
      <4> HIDE DEF k
      <4> QED
        BY <4>1, <4>2
    <3> HIDE DEF k
    <3>4. Applied = WordsTo(Word - 1) \o (RowsTo(row - 1, path) \o SubSeq(RowSettings(row), 1, k))
      BY <1>3, <2>5 DEF Applied, k
    <3> QED
      BY <1>1, <2>1, <3>2, <3>3, <3>4
  <2> QED
    BY <2>4, <2>5
<1> QED
  BY <1>2, <1>3


\* the parameter "section" behind the word that has just been handled
LEMMA SectionNext ==
  ASSUME line \in Lines, NEW n \in 1 .. Len(line), UNCHANGED <<line, file>>, SectionSet(n - 1),
         IF line[n].opt = "section" THEN param'["section"] = WordArg(n) /\ WordArg(n) # None
         ELSE param'["section"] = param["section"]
  PROVE  SectionSet(n)'
<1> DEFINE I(k) == OptionsAt(1 .. k, "section")
<1>1. n \in Nat /\ n - 1 \in Nat /\ (n - 1) + 1 = n /\ I(n - 1) \in SUBSET (1 .. n - 1)
  BY LineType DEF OptionsAt
<1>2. I(n) = I(n - 1) \cup (IF line[n].opt = "section" THEN {n} ELSE {})
  BY <1>1 DEF OptionsAt
<1>3. I(n - 1) = {} => param["section"] = None
  BY DEF SectionSet
<1>4. I(n - 1) # {} => param["section"] = WordArg(Max(I(n - 1))) /\ param["section"] # None
  BY DEF SectionSet
<1>5. I(n)' = I(n) /\ \A i : WordArg(i)' = WordArg(i)
  BY Kept DEF OptionsAt
<1>6. CASE line[n].opt = "section"
  <2>1. Max(I(n - 1) \cup {n}) = n
    <3> DEFINE m == n - 1
               J == I(m)
    <3>1. m \in Nat /\ m + 1 = n /\ J \in SUBSET (1 .. m)
      BY <1>1
    <3> HIDE DEF m, J
    <3>2. Max(J \cup {m + 1}) = m + 1
      BY <3>1, MaxBehind
    <3> QED
      BY <3>1, <3>2 DEF m, J
  <2>2. I(n) # {} /\ Max(I(n)) = n
    BY <1>2, <1>6, <2>1
  <2> QED
    BY <1>5, <1>6, <2>2 DEF SectionSet
<1>7. CASE line[n].opt # "section"
  <2>1. I(n) = I(n - 1) /\ param'["section"] = param["section"]
    BY <1>2, <1>7
  <2> QED
    BY <1>3, <1>4, <1>5, <2>1 DEF SectionSet
<1> QED
  BY <1>6, <1>7

LEMMA AppendOne ==
  ASSUME NEW X, NEW S \in Seq(X), NEW x \in X
  PROVE  S \o <<x>> = Append(S, x)
  OBVIOUS

LEMMA AppendInside ==
  ASSUME NEW X, NEW S \in Seq(X), NEW T \in Seq(X), NEW x \in X
  PROVE  S \o Append(T, x) = Append(S \o T, x)
  OBVIOUS

\* main goes on with the words of the line
LEMMA SettleLine ==
  ASSUME TypeOK, Place, pc = "set", ~fp, UNCHANGED <<reader, found, fp>>, pc' = "argv",
         option \in go \ {"configfile", "help"}, arg # None,
         param'["section"] = IF option = "section" THEN arg ELSE param["section"]
  PROVE  Place' /\ Applied' = Append(Applied, [opt |-> option, arg |-> arg])
<1>1. line \in Lines /\ argind \in 0 .. Len(line) /\ Len(line) \in Nat
  BY LineType DEF TypeOK
<1>2. Current /\ optind = 0 /\ Word \in 1 .. Len(line)
  BY SettledReady DEF Alive
<1>3. line[Word].opt = option /\ WordArg(Word) = arg /\ Settled = Word - 1
  BY DEF Place, LinePlace, Settled
<1>4. Ready(Word)
  BY <1>1, <1>2, <1>3 DEF Place, Ready
<1>5. /\ WordsTo(Word - 1) \in Seq(Setting)
      /\ WordsTo(argind) = WordsTo(Word - 1) \o WordGives(Word)
      /\ Ready(argind)
      /\ OptionsAt(1 .. argind, "section") = OptionsAt(1 .. Word, "section")
  BY <1>1, <1>2, <1>4, WordsOver
<1>6. WordGives(Word) = <<[opt |-> option, arg |-> arg]>>
  BY <1>2, <1>3 DEF WordGives, Current
<1>7. line' = line /\ file' = file /\ argind' = argind /\ optind' = 0 /\ fp' = FALSE /\ Settled' = argind
  BY <1>2 DEF reader, Settled, TypeOK
<1>8. Applied' = WordsTo(argind) /\ Applied = WordsTo(Word - 1)
  <2>1. Applied' = WordsTo(Settled)'
    BY <1>7 DEF Applied
  <2>2. WordsTo(Settled)' = WordsTo(argind)'
    BY <1>7
  <2>3. WordsTo(argind)' = WordsTo(argind)
    BY <1>7, Kept
  <2> QED
    BY <1>3, <2>1, <2>2, <2>3 DEF Applied
<1>9. Applied' = Append(Applied, [opt |-> option, arg |-> arg])
  <2>1. [opt |-> option, arg |-> arg] \in Setting
    BY DEF Place, ArgPlace, Setting
  <2> QED
    BY <1>5, <1>6, <1>8, <2>1, AppendOne
<1>10. PICK n \in 1 .. Len(line), k \in 0 .. Len(line) : n = Word /\ k = argind
  BY <1>1, <1>2
<1>11. SectionSet(n)'
  BY <1>1, <1>3, <1>7, <1>10, SectionNext DEF Place
<1>12. SectionSet(k)'
  <2>1. OptionsAt(1 .. k, "section") = OptionsAt(1 .. n, "section")
    BY <1>5, <1>10
  <2>2. /\ OptionsAt(1 .. k, "section")' = OptionsAt(1 .. k, "section")
        /\ OptionsAt(1 .. n, "section")' = OptionsAt(1 .. n, "section")
    BY <1>7 DEF OptionsAt
  <2> QED
    BY <1>11, <2>1, <2>2 DEF SectionSet
<1>13. Ready(k)'
  BY <1>5, <1>7, <1>10, Kept
<1>14. Settled' = k
  BY <1>7, <1>10
<1>15. Ready(Settled)' /\ SectionSet(Settled)'
  BY <1>12, <1>13, <1>14
<1>16. LinePlace' /\ FilePlace' /\ ArgPlace'
  BY <1>7 DEF LinePlace, FilePlace, ArgPlace
<1>17. Place'
  BY <1>15, <1>16 DEF Place
<1> QED
  BY <1>9, <1>17

LEMMA SectionKept ==
  ASSUME NEW n, SectionSet(n), line' = line, param'["section"] = param["section"]
  PROVE  SectionSet(n)'
<1>1. OptionsAt(1 .. n, "section")' = OptionsAt(1 .. n, "section") /\ \A i : WordArg(i)' = WordArg(i)
  BY DEF OptionsAt, WordArg
<1> QED
  BY <1>1 DEF SectionSet

\* where the reader is inside a file
LEMMA FileSpot ==
  ASSUME TypeOK, Place, fp
  PROVE  /\ file \in Files /\ file # None /\ Len(file) \in Nat
         /\ row \in 0 .. Len(file) /\ pos \in Int
         /\ pos < 0 => pos = -1
         /\ RowsTo(row, path) \in Seq(Setting)
         /\ pos >= 0 => /\ row \in 1 .. Len(file) /\ row - 1 \in 0 .. Len(file)
                        /\ pos \in 3 .. Len(Body(file[row]))
                        /\ RowsTo(row - 1, path) \in Seq(Setting)
                        /\ RowsTo(row, path) = RowsTo(row - 1, path) \o RowSettings(row)
<1>1. file \in Files /\ file # None
  BY FilesAssumption DEF Place, FilePlace
<1>2. row \in 0 .. Len(file) /\ Len(file) \in Nat
  BY <1>1, FileType DEF TypeOK
<1>3. row # 0 => Len(Body(file[row])) \in Nat
  BY <1>1, <1>2, FileType
<1>4. pos \in Int /\ (pos < 0 => pos = -1)
  BY <1>3 DEF TypeOK
<1>5. RowsTo(row, path) \in Seq(Setting)
  BY <1>1, <1>2, RowsToType
<1>6. ASSUME pos >= 0
      PROVE  /\ row \in 1 .. Len(file) /\ row - 1 \in 0 .. Len(file)
             /\ pos \in 3 .. Len(Body(file[row]))
             /\ RowsTo(row - 1, path) \in Seq(Setting)
             /\ RowsTo(row, path) = RowsTo(row - 1, path) \o RowSettings(row)
  <2>1. row >= 1 /\ pos >= 3 /\ RowSection(row) = path
    BY <1>6 DEF Place, FilePlace
  <2>2. row \in 1 .. Len(file) /\ row - 1 \in 0 .. Len(file) /\ pos \in 3 .. Len(Body(file[row]))
    BY <1>1, <1>2, <1>3, <1>4, <2>1 DEF TypeOK
  <2>3. RowsTo(row - 1, path) \in Seq(Setting)
    BY <1>1, <2>2, RowsToType
  <2>4. RowsTo(row, path) = RowsTo(row - 1, path) \o RowSettings(row)
    <3>1. PICK m \in 0 .. Len(file) - 1 : m = row - 1 /\ m + 1 = row
      BY <1>2, <2>2
    <3>2. RowsTo(m + 1, path) = RowsTo(m, path) \o (IF RowSection(m + 1) = path THEN RowSettings(m + 1) ELSE << >>)
      BY <1>1, RowsToStep
    <3> QED
      BY <2>1, <3>1, <3>2
  <2> QED
    BY <2>2, <2>3, <2>4
<1> QED
  BY <1>1, <1>2, <1>4, <1>5, <1>6

\* main goes on with the rows of the file
LEMMA SettleFile ==
  ASSUME TypeOK, Place, pc = "set", fp, UNCHANGED <<reader, found, fp>>, pc' = "file",
         arg # None, param'["section"] = param["section"]
  PROVE  Place' /\ Applied' = Append(Applied, [opt |-> option, arg |-> arg])
<1> DEFINE s == [opt |-> option, arg |-> arg]
<1>1. pos >= 0 /\ optind = 0 /\ Current
  BY SettledReady, FileSpot DEF Place, FilePlace, Alive
<1>2. /\ file \in Files /\ row \in 1 .. Len(file) /\ pos \in 3 .. Len(Body(file[row]))
      /\ RowsTo(row - 1, path) \in Seq(Setting) /\ ~(pos < 0)
  BY <1>1, FileSpot
<1>3. /\ line' = line /\ file' = file /\ argind' = argind /\ optind' = optind /\ fp' = fp
      /\ row' = row /\ pos' = pos /\ in_sect' = in_sect /\ path' = path
      /\ option' = option /\ arg' = arg
  BY DEF reader, found
<1>4. Word' = Word /\ Settled = Word - 1 /\ Settled' = Word - 1
  BY <1>3 DEF Word, Settled
<1>5. WordsTo(Word - 1) \in Seq(Setting)
  BY <1>4, SettledReady DEF Alive
<1>6. s \in Setting /\ Body(file[row])[1] = option /\ Body(file[row])[pos] = arg
  BY <1>1 DEF Place, ArgPlace, Setting, FilePlace
<1>7. /\ SubSeq(RowSettings(row), 1, pos - 3) \in Seq(Setting)
      /\ SubSeq(RowSettings(row), 1, pos - 2) = Append(SubSeq(RowSettings(row), 1, pos - 3), s)
  BY <1>2, <1>6, RowPart
<1>8. Applied = WordsTo(Word - 1) \o (RowsTo(row - 1, path) \o SubSeq(RowSettings(row), 1, pos - 3))
  BY <1>1, <1>2 DEF Applied
<1>9. Applied' = WordsTo(Word - 1) \o (RowsTo(row - 1, path) \o SubSeq(RowSettings(row), 1, pos - 2))
  <2>1. PICK w, r, x, p : w = Word - 1 /\ r = row /\ x = path /\ p = pos
    OBVIOUS
  <2>2. w = Word' - 1 /\ r = row' /\ x = path' /\ p = pos'
    BY <1>3, <1>4, <2>1
  <2>3. Applied' = WordsTo(Word - 1)' \o (RowsTo(row - 1, path)' \o SubSeq(RowSettings(row)', 1, pos - 2))
    <3>1. fp' /\ ~(pos' < 0) /\ pc' # "set" /\ pos' = pos
      BY <1>2, <1>3
    <3> QED
      BY <3>1 DEF Applied
  <2>4. /\ WordsTo(Word - 1)' = WordsTo(w)' /\ RowsTo(row - 1, path)' = RowsTo(r - 1, x)'
        /\ RowSettings(row)' = RowSettings(r)'
    BY <2>2
  <2>5. WordsTo(w)' = WordsTo(w) /\ RowsTo(r - 1, x)' = RowsTo(r - 1, x) /\ RowSettings(r)' = RowSettings(r)
    BY <1>3, Kept
  <2> QED
    BY <2>1, <2>3, <2>4, <2>5
<1> HIDE DEF s
<1>10. Applied' = Append(Applied, s)
  <2> DEFINE T == SubSeq(RowSettings(row), 1, pos - 3)
  <2>0. T \in Seq(Setting)
    BY <1>7
  <2> HIDE DEF T
  <2>1. RowsTo(row - 1, path) \o Append(T, s) = Append(RowsTo(row - 1, path) \o T, s)
    BY <1>2, <1>6, <2>0, AppendInside
  <2>2. RowsTo(row - 1, path) \o T \in Seq(Setting)
    BY <1>2, <2>0
  <2>3. WordsTo(Word - 1) \o Append(RowsTo(row - 1, path) \o T, s) =
          Append(WordsTo(Word - 1) \o (RowsTo(row - 1, path) \o T), s)
    BY <1>5, <1>6, <2>2, AppendInside
  <2>4. Applied' = WordsTo(Word - 1) \o (RowsTo(row - 1, path) \o Append(T, s))
    BY <1>7, <1>9 DEF T
  <2>5. Applied = WordsTo(Word - 1) \o (RowsTo(row - 1, path) \o T)
    BY <1>8 DEF T
  <2> QED
    BY <2>1, <2>3, <2>4, <2>5
<1>11. PICK n : n = Settled
  OBVIOUS
<1>12. Settled' = n /\ Ready(n)' /\ SectionSet(n)'
  BY <1>3, <1>4, <1>11, Kept, SectionKept DEF Place
<1>13. Ready(Settled)' /\ SectionSet(Settled)'
  BY <1>12
<1>14. LinePlace' /\ ArgPlace'
  BY <1>1, <1>3 DEF LinePlace, ArgPlace
<1>15. FilePlace'
  <2>1. PICK w, r : w = Word /\ r = row
    OBVIOUS
  <2>2. w = Word' /\ r = row' /\ Current' = Current
    BY <1>3, <1>4, <2>1 DEF Current
  <2>3. SectionAt(w)' = SectionAt(w) /\ RowSection(r)' = RowSection(r)
    BY <1>3, Kept
  <2>4. SectionAt(Word)' = SectionAt(Word) /\ RowSection(row)' = RowSection(row)
    BY <2>1, <2>2, <2>3
  <2> QED
    BY <1>1, <1>3, <1>4, <2>2, <2>4 DEF Place, FilePlace
<1> QED
  BY <1>10, <1>13, <1>14, <1>15 DEF Place, s

\* a setting has been applied, wherever it was read
LEMMA SettleStep ==
  ASSUME TypeOK, Shape, Place, Outcome(Applied), pc' \in Alive,
         SetParam \/ AddParam \/ SetUrl \/ SetVersion \/ SetSection
  PROVE  Shape' /\ Place' /\ Outcome(Applied)'
<1>1. ArgPlace
  BY DEF Place
<1>2. PICK s : s = [opt |-> option, arg |-> arg]
  OBVIOUS
<1>3. /\ s \in Setting /\ Takes(s) /\ Valued(s)
      /\ option \in go \ {"configfile", "help"} /\ arg # None /\ pc = "set"
      /\ UNCHANGED <<reader, found, fp>> /\ pc' = IF fp THEN "file" ELSE "argv"
      /\ option = "section" => ~fp
      /\ param'["section"] = IF option = "section" THEN arg ELSE param["section"]
  BY <1>1, <1>2, TakesSetting
<1>4. Place' /\ Applied' = Append(Applied, s)
  <2>1. CASE fp
    BY <1>2, <1>3, <2>1, SettleFile
  <2>2. CASE ~fp
    BY <1>2, <1>3, <2>2, SettleLine
  <2> QED
    BY <2>1, <2>2
<1>5. PICK S : S = Applied
  OBVIOUS
<1>6. S \in Seq(Setting) /\ Outcome(S)
  BY <1>3, <1>5, AppliedType DEF Alive
<1>7. Outcome(Append(S, s))'
  BY <1>3, <1>6, OutcomeStep
<1>8. Applied' = Append(S, s)
  BY <1>4, <1>5
<1>9. Outcome(Applied)'
  BY <1>7, <1>8
<1>10. Shape'
  BY <1>3 DEF Takes, Shape
<1> QED
  BY <1>4, <1>9, <1>10

-----------------------------------------------------------------------------
(* The steps of the reader: they look for the next setting and apply none  *)

\* a step that changes no word and no row
LEMMA LineFrame ==
  ASSUME NEW n, Ready(n), SectionSet(n), UNCHANGED <<line, file, param>>, Settled' = n
  PROVE  Ready(Settled)' /\ SectionSet(Settled)' /\ WordsTo(Settled)' = WordsTo(n)
<1>1. Ready(n)' /\ WordsTo(n)' = WordsTo(n)
  BY Kept
<1>2. SectionSet(n)'
  BY SectionKept
<1>3. Ready(Settled)' /\ SectionSet(Settled)'
  BY <1>1, <1>2
<1>4. WordsTo(Settled)' = WordsTo(n)'
  OBVIOUS
<1> QED
  BY <1>1, <1>3, <1>4

LEMMA NextWordStep ==
  ASSUME TypeOK, Place, NextWord, pc' \in Alive
  PROVE  Place' /\ Applied' = Applied
<1>1. /\ line \in Lines /\ argind \in Nat /\ Len(line) \in Nat /\ argind < Len(line)
      /\ pc = "argv" /\ optind = 0 /\ ~fp /\ fp' = fp /\ fp \in BOOLEAN
  BY LineType DEF TypeOK, NextWord
<1>2. PICK n \in Nat : n = argind
  BY <1>1
<1> DEFINE w == line[n + 1]
<1>3. n + 1 \in 1 .. Len(line) /\ argind' = n + 1 /\ UNCHANGED <<line, file, param>>
  BY <1>1, <1>2 DEF NextWord, settings
<1>4. w.opt \in Args /\ w.arg \in Args
  BY <1>1, <1>3, LineType
<1>5. Settled = n /\ Ready(n) /\ SectionSet(n) /\ Applied = WordsTo(n)
  BY <1>1, <1>2 DEF Settled, Place, Applied
<1>6. \/ w.form = "short" /\ optind' = 1 /\ pc' = "argv"
      \/ /\ w.form = "long" /\ optind' = 0 /\ pc' = "set"
         /\ option' = w.opt /\ arg' = w.arg /\ w.opt \in go
         /\ w.arg = None => w.opt \in {"version", "help"}
  BY <1>1, <1>2 DEF NextWord, Found, Exit, Alive, NO_ARG, OPT_ARG, REQ_ARG, go, Params
<1>7. Word' = n + 1 /\ line'[n + 1] = w /\ w.form \in {"long", "short"}
  BY <1>3, <1>6 DEF Word
<1>8. Settled' = n
  BY <1>1, <1>6, <1>7 DEF Settled
<1>9. Ready(Settled)' /\ SectionSet(Settled)' /\ WordsTo(Settled)' = WordsTo(n)
  BY <1>3, <1>5, <1>8, LineFrame
<1>10. LinePlace'
  <2>1. Current'
    BY <1>3, <1>7 DEF Current
  <2>2. WordArg(n + 1)' = WordArg(n + 1)
    BY <1>3, Kept
  <2>3. WordArg(Word)' = WordArg(n + 1)
    BY <1>7, <2>2
  <2>4. w.form = "long" => WordArg(n + 1) = w.arg
    BY DEF WordArg
  <2>5. optind' # 0 => pc' = "argv" /\ argind' >= 1 /\ line'[argind'].form = "short"
    BY <1>3, <1>6, <1>7
  <2>6. pc' = "set" => line'[Word'].opt = option' /\ WordArg(Word)' = arg'
    BY <1>6, <1>7, <2>3, <2>4
  <2>7. pc' # "read"
    BY <1>6
  <2> QED
    BY <2>1, <2>5, <2>6, <2>7 DEF LinePlace
<1>11. FilePlace' /\ ArgPlace'
  BY <1>1, <1>4, <1>6 DEF FilePlace, ArgPlace
<1>12. Applied' = WordsTo(Settled)'
  BY <1>1 DEF Applied
<1> QED
  BY <1>5, <1>9, <1>10, <1>11, <1>12 DEF Place

LEMMA ShortOptionStep ==
  ASSUME TypeOK, Place, ShortOption, pc' \in Alive
  PROVE  Place' /\ Applied' = Applied
<1>1. /\ line \in Lines /\ argind \in 1 .. Len(line) /\ Len(line) \in Nat
      /\ pc = "argv" /\ optind # 0 /\ ~fp /\ fp' = fp /\ fp \in BOOLEAN
      /\ line[argind].form = "short"
  BY LineType DEF TypeOK, ShortOption, Place, LinePlace
<1>2. PICK n \in 1 .. Len(line) : n = argind
  BY <1>1
<1> DEFINE w == line[n]
<1>3. UNCHANGED <<line, file, param>> /\ n - 1 \in Nat /\ n \in Nat
  BY <1>1 DEF ShortOption, settings
<1>4. /\ w.opt \in Args /\ w.arg \in Args /\ w.form = "short"
      /\ n < Len(line) => (line[n + 1].form = "plain" => line[n + 1].arg \in Text)
  BY <1>1, <1>2, LineType
<1>5. Settled = n - 1 /\ Ready(n - 1) /\ SectionSet(n - 1) /\ Applied = WordsTo(n - 1)
  <2>1. Settled = n - 1
    BY <1>1, <1>2 DEF Settled, Word
  <2> QED
    BY <1>1, <2>1 DEF Place, Applied
<1>6. /\ pc' = "set" /\ optind' = 0 /\ option' = w.opt /\ w.opt \in go
      /\ \/ argind' = n /\ arg' = w.arg /\ w.arg # None
         \/ /\ argind' = n + 1 /\ n < Len(line) /\ line[n + 1].form = "plain"
            /\ arg' = line[n + 1].arg /\ w.arg = None
         \/ argind' = n /\ arg' = None /\ w.opt = "version"
  BY <1>1, <1>2 DEF ShortOption, Found, Exit, Alive, OPT_ARG, go, Params
<1>7. Word' = n /\ Current'
  <2>1. Word' = n
    BY <1>3, <1>4, <1>6 DEF Word
  <2>2. n \in 1 .. argind'
    BY <1>3, <1>6
  <2> QED
    BY <1>3, <1>4, <2>1, <2>2 DEF Current
<1>8. Settled' = n - 1
  BY <1>6, <1>7 DEF Settled
<1>9. Ready(Settled)' /\ SectionSet(Settled)' /\ WordsTo(Settled)' = WordsTo(n - 1)
  BY <1>3, <1>5, <1>8, LineFrame
<1>10. arg' # None => WordArg(n) = arg'
  BY <1>4, <1>6 DEF WordArg
<1>11. arg' \in Args /\ (arg' = None => option' = "version")
  <2>1. None \notin Text
    BY NoneAssumption
  <2> QED
    BY <1>4, <1>6, <2>1 DEF Args
<1>12. LinePlace'
  <2>1. WordArg(n)' = WordArg(n)
    BY <1>3, Kept
  <2>2. WordArg(Word)' = WordArg(n)
    BY <1>7, <2>1
  <2> QED
    BY <1>3, <1>6, <1>7, <1>10, <2>2 DEF LinePlace
<1>13. FilePlace' /\ ArgPlace'
  BY <1>1, <1>6, <1>11 DEF FilePlace, ArgPlace
<1>14. Applied' = WordsTo(Settled)'
  BY <1>1 DEF Applied
<1> QED
  BY <1>5, <1>9, <1>12, <1>13, <1>14 DEF Place

LEMMA EndOfLineStep ==
  ASSUME TypeOK, Place, EndOfLine
  PROVE  Place' /\ Applied' = Applied
<1>1. /\ pc = "argv" /\ pc' = "read" /\ optind = 0 /\ argind = Len(line) /\ ~fp /\ fp' = FALSE
      /\ UNCHANGED <<line, file, param, argind, optind>>
  BY DEF EndOfLine, TypeOK, reader, settings
<1>2. PICK n : n = argind
  OBVIOUS
<1>3. Settled = n /\ Settled' = n
  BY <1>1, <1>2 DEF Settled
<1>4. Ready(n) /\ SectionSet(n) /\ Applied = WordsTo(n)
  BY <1>1, <1>3 DEF Place, Applied
<1>5. Ready(Settled)' /\ SectionSet(Settled)' /\ WordsTo(Settled)' = WordsTo(n)
  BY <1>1, <1>3, <1>4, LineFrame
<1>6. LinePlace' /\ FilePlace' /\ ArgPlace'
  BY <1>1 DEF LinePlace, FilePlace, ArgPlace
<1>7. Applied' = WordsTo(Settled)'
  BY <1>1 DEF Applied
<1> QED
  BY <1>4, <1>5, <1>6, <1>7 DEF Place

\* a step inside the file
LEMMA FileFrame ==
  ASSUME TypeOK, Place, pc = "file", UNCHANGED <<line, argind, optind, file, path, param, fp>>
  PROVE  /\ fp /\ optind = 0 /\ Current /\ Current' /\ Word' = Word
         /\ Ready(Settled)' /\ SectionSet(Settled)'
         /\ WordsTo(Word - 1) \in Seq(Setting) /\ WordsTo(Word - 1)' = WordsTo(Word - 1)
         /\ line[Word].opt = "configfile" /\ path = SectionAt(Word)
         /\ SectionAt(Word)' = SectionAt(Word)
         /\ \A i, x : /\ RowSection(i)' = RowSection(i) /\ RowSettings(i)' = RowSettings(i)
                      /\ RowsTo(i, x)' = RowsTo(i, x)
<1>1. fp /\ optind = 0 /\ Current /\ WordsTo(Settled) \in Seq(Setting)
  BY SettledReady DEF TypeOK, Alive
<1>2. Word' = Word /\ Current' /\ Settled = Word - 1 /\ Settled' = Word - 1
  BY <1>1 DEF Word, Current, Settled
<1>3. PICK n, k : n = Word - 1 /\ k = Word
  OBVIOUS
<1>4. Ready(Settled)' /\ SectionSet(Settled)'
  BY <1>2, <1>3, LineFrame DEF Place
<1>5. WordsTo(n)' = WordsTo(n) /\ SectionAt(k)' = SectionAt(k)
  BY Kept
<1>6. n = Word' - 1 /\ k = Word'
  BY <1>2, <1>3
<1>7. WordsTo(Word - 1)' = WordsTo(Word - 1) /\ SectionAt(Word)' = SectionAt(Word)
  BY <1>3, <1>5, <1>6
<1>8. line[Word].opt = "configfile" /\ path = SectionAt(Word)
  BY <1>1 DEF Place, FilePlace
<1> QED
  BY <1>1, <1>2, <1>4, <1>7, <1>8, Kept

\* get_opt_file keeps the section of the row in gos_in_sect
LEMMA InSectionRow ==
  ASSUME TypeOK, Place, fp, row < Len(file)
  PROVE  InSection(file[row + 1]) <=> RowSection(row + 1) = path
<1>1. file \in Files /\ Len(file) \in Nat /\ row \in 0 .. Len(file)
  BY FileSpot
<1>2. PICK n \in 0 .. Len(file) - 1 : n = row
  BY <1>1
<1>3. RowSection(n + 1) = IF file[n + 1].head # None THEN file[n + 1].head
                          ELSE IF n = 0 THEN Empty ELSE RowSection(n)
  BY <1>1, RowSectionStep
<1>4. in_sect <=> (IF n = 0 THEN Empty ELSE RowSection(n)) = path
  BY <1>2 DEF Place, FilePlace
<1> QED
  BY <1>2, <1>3, <1>4 DEF InSection

LEMMA NewRowStep ==
  ASSUME TypeOK, Place, NewRow, pc' \in Alive
  PROVE  Place' /\ Applied' = Applied
<1>1. /\ pc = "file" /\ pos < 0 /\ row < Len(file) /\ row' = row + 1
      /\ UNCHANGED <<line, argind, optind, file, path, param, fp>>
  BY DEF NewRow, settings
<1>2. /\ fp /\ optind = 0 /\ Current /\ Current' /\ Word' = Word
      /\ Ready(Settled)' /\ SectionSet(Settled)'
      /\ WordsTo(Word - 1) \in Seq(Setting) /\ WordsTo(Word - 1)' = WordsTo(Word - 1)
      /\ line[Word].opt = "configfile" /\ path = SectionAt(Word)
      /\ SectionAt(Word)' = SectionAt(Word)
      /\ \A i, x : /\ RowSection(i)' = RowSection(i) /\ RowSettings(i)' = RowSettings(i)
                   /\ RowsTo(i, x)' = RowsTo(i, x)
  BY <1>1, FileFrame
<1>3. /\ file \in Files /\ Len(file) \in Nat /\ row \in 0 .. Len(file) - 1 /\ pos = -1
      /\ RowsTo(row, path) \in Seq(Setting)
  BY <1>1, <1>2, FileSpot
<1>4. PICK n, x : n = row /\ x = path /\ n \in 0 .. Len(file) - 1
  BY <1>3
<1> DEFINE r == file[n + 1]
           b == Body(r)
<1>5. n + 1 \in 1 .. Len(file) /\ b \in Seq(Text) /\ Len(b) \in Nat /\ \A i \in 1 .. Len(b) : b[i] \in Text
  <2>1. n + 1 \in 1 .. Len(file)
    BY <1>3, <1>4
  <2>2. b \in Seq(Text)
    BY <1>3, <2>1, FileType
  <2> QED
    BY <2>1, <2>2
<1>6. InSection(r) <=> RowSection(n + 1) = x
  BY <1>1, <1>2, <1>4, InSectionRow
<1>7. /\ in_sect' = InSection(r)
      /\ \/ /\ ~(InSection(r) /\ b # << >>) /\ pos' = -1 /\ pc' = "file"
            /\ UNCHANGED <<option, arg>>
         \/ /\ Len(b) < 3 /\ b[1] \in {"version", "help"}
            /\ option' = b[1] /\ arg' = None /\ pos' = -1 /\ pc' = "set"
         \/ /\ InSection(r) /\ b[1] \in go /\ Len(b) > 2
            /\ option' = b[1] /\ arg' = b[3] /\ pos' = 3 /\ pc' = "set"
  BY <1>1, <1>3, <1>4 DEF NewRow, Found, Exit, Alive, found, NO_ARG, OPT_ARG, REQ_ARG, go, Params
<1>8. /\ RowsTo(n, x) \in Seq(Setting)
      /\ RowsTo(n + 1, x) = RowsTo(n, x) \o (IF RowSection(n + 1) = x THEN RowSettings(n + 1) ELSE << >>)
  BY <1>3, <1>4, RowsToStep
<1>9. Len(b) < 3 => RowSettings(n + 1) = << >>
  BY <1>3, <1>5, RowSettingsType
<1> HIDE DEF r, b
<1>10. ArgPlace' /\ LinePlace'
  <2>1. "version" \in go /\ "help" \in go
    BY DEF go, Params
  <2>2. Len(b) > 2 => b[3] \in Text /\ b[3] # None
    BY <1>5, NoneAssumption
  <2>3. ArgPlace'
    BY <1>7, <2>1, <2>2 DEF ArgPlace, Args
  <2>4. LinePlace'
    BY <1>1, <1>2, <1>7 DEF LinePlace
  <2> QED
    BY <2>3, <2>4
<1>11. FilePlace'
  <2>1. RowSection(n + 1)' = RowSection(n + 1) /\ row' = n + 1 /\ x = path'
    BY <1>1, <1>2, <1>4
  <2>2. RowSection(row)' = RowSection(n + 1)
    BY <2>1
  <2>3. Body(file[row])' = b
    BY <1>1, <2>1 DEF b, r
  <2>4. in_sect' <=> RowSection(row)' = path'
    BY <1>6, <1>7, <2>1, <2>2
  <2>5. row' \in Int /\ row' >= 1
    BY <1>5, <2>1
  <2>6. Current' /\ line'[Word'].opt = "configfile" /\ file' \in Files /\ path' = SectionAt(Word)'
    BY <1>1, <1>2, <1>3
  <2>7. pos' < 0 => (pc' = "set" => arg' = None)
    BY <1>7
  <2>8. pos' >= 0 => /\ pos' >= 3 /\ RowSection(row)' = path'
                     /\ b[1] = option' /\ b[pos'] = arg'
    BY <1>6, <1>7, <2>1, <2>2
  <2> QED
    BY <2>3, <2>4, <2>5, <2>6, <2>7, <2>8 DEF FilePlace
<1>12. Applied' = Applied
  <2>1. Applied = WordsTo(Word - 1) \o RowsTo(n, x)
    BY <1>1, <1>2, <1>4 DEF Applied
  <2>2. RowsTo(n + 1, x)' = RowsTo(n + 1, x) /\ RowsTo(n, x)' = RowsTo(n, x)
        /\ RowSettings(n + 1)' = RowSettings(n + 1)
    BY <1>2
  <2>3. row' = n + 1 /\ x = path' /\ row' - 1 = n
    BY <1>1, <1>4, <1>5
  <2>4. CASE pos' = -1
    <3>1. ~(InSection(r) /\ b # << >>) \/ Len(b) < 3
      BY <1>7, <2>4
    <3>2. RowsTo(n + 1, x) = RowsTo(n, x)
      <4>1. b = << >> => Len(b) < 3
        OBVIOUS
      <4>2. RowsTo(n + 1, x) = RowsTo(n, x) \o << >>
        BY <1>6, <1>8, <1>9, <3>1, <4>1
      <4> QED
        BY <1>8, <4>2
    <3>3. Applied' = WordsTo(Word - 1)' \o RowsTo(row, path)'
      BY <1>1, <1>2, <2>4 DEF Applied
    <3>4. RowsTo(row, path)' = RowsTo(n + 1, x)'
      BY <2>3
    <3> QED
      BY <1>2, <2>1, <2>2, <3>2, <3>3, <3>4
  <2>5. CASE pos' = 3
    <3>1. pc' = "set" /\ Len(b) > 2
      BY <1>7, <2>5
    <3>2. Applied' = WordsTo(Word - 1)' \o (RowsTo(row - 1, path) \o SubSeq(RowSettings(row), 1, 0))'
      BY <1>1, <1>2, <2>5, <3>1 DEF Applied
    <3>3. RowsTo(row - 1, path)' = RowsTo(n, x)' /\ RowSettings(row)' = RowSettings(n + 1)'
      BY <2>3
    <3>4. SubSeq(RowSettings(n + 1), 1, 0) = << >>
      <4>1. RowSettings(n + 1) \in Seq(Setting)
        BY <1>3, <1>5, RowSettingsType
      <4> QED
        BY <4>1
    <3>5. Applied' = WordsTo(Word - 1) \o (RowsTo(n, x) \o << >>)
      BY <1>2, <2>2, <3>2, <3>3, <3>4
    <3> QED
      BY <1>8, <2>1, <3>5
  <2> QED
    BY <1>7, <2>4, <2>5
<1> QED
  BY <1>2, <1>10, <1>11, <1>12 DEF Place

LEMMA SameRowStep ==
  ASSUME TypeOK, Place, SameRow
  PROVE  Place' /\ Applied' = Applied
<1>1. /\ pc = "file" /\ pos >= 0 /\ row' = row /\ in_sect' = in_sect
      /\ UNCHANGED <<line, argind, optind, file, path, param, fp>>
  BY DEF SameRow, settings
<1>2. /\ fp /\ optind = 0 /\ Current /\ Current' /\ Word' = Word
      /\ Ready(Settled)' /\ SectionSet(Settled)'
      /\ WordsTo(Word - 1) \in Seq(Setting) /\ WordsTo(Word - 1)' = WordsTo(Word - 1)
      /\ line[Word].opt = "configfile" /\ path = SectionAt(Word)
      /\ SectionAt(Word)' = SectionAt(Word)
      /\ \A i, x : /\ RowSection(i)' = RowSection(i) /\ RowSettings(i)' = RowSettings(i)
                   /\ RowsTo(i, x)' = RowsTo(i, x)
  BY <1>1, FileFrame
<1>3. /\ file \in Files /\ row \in 1 .. Len(file) /\ pos \in 3 .. Len(Body(file[row]))
      /\ pos \in Nat /\ ~(pos < 0)
      /\ RowsTo(row, path) = RowsTo(row - 1, path) \o RowSettings(row)
  BY <1>1, <1>2, FileSpot
<1>4. PICK n, x, p : n = row /\ x = path /\ p = pos
  BY <1>3
<1> DEFINE b == Body(file[n])
<1>5. n \in 1 .. Len(file) /\ p \in 3 .. Len(b) /\ p \in Nat
  BY <1>3, <1>4
<1>6. Len(b) \in Nat /\ b \in Seq(Text) /\ \A i \in 1 .. Len(b) : b[i] \in Text
  <2>1. b \in Seq(Text)
    BY <1>3, <1>5, FileType
  <2> QED
    BY <2>1
<1>7. b[1] = option /\ option \in go /\ RowSection(n) = x /\ (in_sect <=> RowSection(n) = x)
  <2>1. b[1] = option /\ RowSection(n) = x /\ (in_sect <=> RowSection(n) = x)
    BY <1>1, <1>2, <1>3, <1>4 DEF Place, FilePlace
  <2>2. b[1] \in Text
    BY <1>5, <1>6
  <2>3. option # None
    BY <2>1, <2>2, NoneAssumption
  <2> QED
    BY <2>1, <2>3 DEF TypeOK
<1>8. \/ p < Len(b) /\ pos' = p + 1 /\ option' = option /\ arg' = b[p + 1] /\ pc' = "set"
      \/ p = Len(b) /\ pos' = -1 /\ pc' = "file" /\ UNCHANGED <<option, arg>>
  BY <1>1, <1>4 DEF SameRow, Found, found
<1>9. Body(file[row])' = b /\ n = row' /\ x = path'
  BY <1>1, <1>4
<1> HIDE DEF b
<1>10. ArgPlace' /\ LinePlace'
  <2>1. p < Len(b) => b[p + 1] \in Text /\ b[p + 1] # None
    BY <1>5, <1>6, NoneAssumption
  <2>2. ArgPlace'
    BY <1>7, <1>8, <2>1 DEF ArgPlace, Args
  <2>3. LinePlace'
    BY <1>1, <1>2, <1>8 DEF LinePlace
  <2> QED
    BY <2>2, <2>3
<1>11. FilePlace'
  <2>1. RowSection(n)' = RowSection(n)
    BY <1>2
  <2>2. RowSection(row)' = RowSection(n)
    BY <1>9, <2>1
  <2>3. Current' /\ line'[Word'].opt = "configfile" /\ file' \in Files /\ path' = SectionAt(Word)'
    BY <1>1, <1>2, <1>3
  <2>4. row' >= 1 /\ row' # 0 /\ (in_sect' <=> RowSection(row)' = path') /\ RowSection(row)' = path'
    BY <1>1, <1>4, <1>5, <1>7, <1>9, <2>2
  <2>5. pos' < 0 => pc' # "set"
    BY <1>5, <1>8
  <2>6. pos' >= 0 => pos' >= 3 /\ b[1] = option' /\ b[pos'] = arg'
    BY <1>5, <1>7, <1>8
  <2> QED
    BY <1>9, <2>3, <2>4, <2>5, <2>6 DEF FilePlace
<1>12. Applied' = Applied
  <2> DEFINE R == RowSettings(n)
  <2>1. Applied = WordsTo(Word - 1) \o (RowsTo(n - 1, x) \o SubSeq(R, 1, p - 2))
    BY <1>1, <1>2, <1>3, <1>4 DEF Applied
  <2>2. RowsTo(n, x)' = RowsTo(n, x) /\ RowsTo(n - 1, x)' = RowsTo(n - 1, x) /\ R' = R
    BY <1>2
  <2>3. CASE pos' = -1
    <3>1. SubSeq(R, 1, p - 2) = R
      <4>1. p = Len(b)
        BY <1>5, <1>8, <2>3
      <4> QED
        BY <1>3, <1>5, <4>1, RowPart DEF b
    <3>2. Applied' = WordsTo(Word - 1)' \o RowsTo(row, path)'
      BY <1>1, <1>2, <2>3 DEF Applied
    <3>3. RowsTo(row, path)' = RowsTo(n, x)'
      BY <1>9
    <3> QED
      BY <1>2, <1>3, <1>4, <2>1, <2>2, <3>1, <3>2, <3>3
  <2>4. CASE pos' = p + 1
    <3>1. pc' = "set" /\ pos' - 3 = p - 2 /\ ~(pos' < 0)
      BY <1>5, <1>8, <2>4
    <3>2. Applied' = WordsTo(Word - 1)' \o (RowsTo(row - 1, path)' \o SubSeq(RowSettings(row)', 1, p - 2))
      BY <1>1, <1>2, <3>1 DEF Applied
    <3>3. RowsTo(row - 1, path)' = RowsTo(n - 1, x)' /\ RowSettings(row)' = R'
      BY <1>9
    <3> QED
      BY <1>2, <2>1, <2>2, <3>2, <3>3
  <2> QED
    BY <1>8, <2>3, <2>4
<1> QED
  BY <1>2, <1>10, <1>11, <1>12 DEF Place

\* The file is over: all of its section has taken the place of the option.
LEMMA EndOfFileStep ==
  ASSUME TypeOK, Place, EndOfFile
  PROVE  Place' /\ Applied' = Applied
<1>1. /\ pc = "file" /\ pos < 0 /\ row = Len(file) /\ fp' = FALSE /\ pc' = "argv"
      /\ UNCHANGED <<line, argind, optind, file, path, param>>
  BY DEF EndOfFile, reader, settings
<1>2. fp /\ optind = 0 /\ Current /\ Word \in 1 .. Len(line) /\ Settled = Word - 1
  BY <1>1, SettledReady DEF TypeOK, Alive, Settled
<1>3. line[Word].opt = "configfile" /\ path = SectionAt(Word) /\ file \in Files
  BY <1>2 DEF Place, FilePlace
<1>4. line \in Lines /\ argind \in 0 .. Len(line) /\ Len(line) \in Nat
  BY LineType DEF TypeOK
<1>5. Ready(Word)
  BY <1>3 DEF Ready
<1>6. /\ WordsTo(argind) = WordsTo(Word - 1) \o WordGives(Word)
      /\ Ready(argind)
      /\ OptionsAt(1 .. argind, "section") = OptionsAt(1 .. Word, "section")
  BY <1>2, <1>4, <1>5, WordsOver
<1>7. WordGives(Word) = RowsTo(row, path)
  <2>1. WordGives(Word) = SectionSettings(path)
    BY <1>2, <1>3 DEF WordGives, Current
  <2> QED
    BY <1>1, <2>1 DEF SectionSettings, RowsTo
<1>8. Applied = WordsTo(argind)
  BY <1>1, <1>2, <1>6, <1>7 DEF Applied
<1>9. PICK n, k : n = Word /\ k = argind /\ n \in 1 .. Len(line)
  BY <1>2
<1>10. Settled' = k
  BY <1>1, <1>2, <1>9 DEF Settled
<1>11. SectionSet(k)
  <2>1. SectionSet(n - 1)
    BY <1>2, <1>9 DEF Place
  <2>2. OptionsAt(1 .. k, "section") = OptionsAt(1 .. n - 1, "section")
    <3>1. OptionsAt(1 .. n, "section") = OptionsAt(1 .. n - 1, "section")
      BY <1>3, <1>4, <1>9 DEF OptionsAt
    <3> QED
      BY <1>6, <1>9, <3>1
  <2> QED
    BY <2>1, <2>2 DEF SectionSet
<1>12. Ready(Settled)' /\ SectionSet(Settled)' /\ WordsTo(Settled)' = WordsTo(k)
  BY <1>1, <1>6, <1>9, <1>10, <1>11, LineFrame
<1>13. LinePlace' /\ FilePlace' /\ ArgPlace'
  BY <1>1, <1>2 DEF LinePlace, FilePlace, ArgPlace
<1>14. Applied' = WordsTo(Settled)'
  BY <1>1 DEF Applied
<1> QED
  BY <1>8, <1>9, <1>12, <1>13, <1>14 DEF Place

\* The words in front of the first "configfile" do not depend on the file.
LEMMA OpenKept ==
  ASSUME NEW n, line' = line, Ready(n), file = None \/ file' = file
  PROVE  WordsTo(n)' = WordsTo(n)
<1>1. CASE file' = file
  BY <1>1, Kept
<1>2. CASE file = None
  <2>1. \A i \in 1 .. n : line[i].opt # "configfile"
    BY <1>2, FilesAssumption DEF Ready
  <2>2. \A i \in 1 .. n : WordGives(i)' = WordGives(i)
    BY <2>1 DEF WordGives, WordArg
  <2>3. [i \in 1 .. n |-> WordGives(i)]' = [i \in 1 .. n |-> WordGives(i)]
    BY <2>2
  <2> QED
    BY <2>3 DEF WordsTo
<1> QED
  BY <1>1, <1>2

LEMMA OpenFileStep ==
  ASSUME TypeOK, Place, OpenFile, pc' \in Alive
  PROVE  Place' /\ Applied' = Applied
<1>1. /\ pc = "set" /\ option = "configfile" /\ ~fp /\ fp' /\ pc' = "file"
      /\ file' \in IF file = None THEN Files ELSE {file}
      /\ row' = 0 /\ pos' = -1 /\ UNCHANGED <<line, argind, optind, param>>
      /\ path' = IF param["section"] = None THEN Empty ELSE param["section"]
      /\ in_sect' = (param["section"] \in {None, Empty})
  BY DEF OpenFile, Exit, Alive, tgetopt_file_init
<1>2. /\ Current /\ optind = 0 /\ Word \in 1 .. Len(line) /\ Word - 1 \in 0 .. Len(line)
      /\ WordsTo(Word - 1) \in Seq(Setting) /\ Settled = Word - 1
  BY <1>1, SettledReady DEF Alive, Settled
<1>3. file' \in Files /\ (file = None \/ file' = file)
  BY <1>1 DEF TypeOK
<1>4. Word' = Word /\ Current' /\ Settled' = Word - 1
  BY <1>1, <1>2 DEF Word, Current, Settled
<1>5. PICK n \in 1 .. Len(line) : n = Word
  BY <1>2
<1>6. line[n].opt = "configfile" /\ Ready(n - 1) /\ SectionSet(n - 1)
  BY <1>1, <1>2, <1>5 DEF Place, LinePlace
<1>7. Settled' = n - 1 /\ n = Word' /\ n - 1 = Word' - 1
  BY <1>4, <1>5
<1>8. WordsTo(n - 1)' = WordsTo(n - 1)
  BY <1>1, <1>3, <1>6, OpenKept
<1>9. Ready(n - 1)' /\ SectionSet(n - 1)'
  BY <1>1, <1>3, <1>6, SectionKept DEF Ready
<1>10. Ready(Settled)' /\ SectionSet(Settled)'
  BY <1>7, <1>9
<1>11. LinePlace' /\ ArgPlace'
  BY <1>1, <1>2 DEF LinePlace, ArgPlace
<1>12. path' = SectionAt(Word)'
  <2>1. OptionsAt(1 .. n, "section") = OptionsAt(1 .. n - 1, "section")
    <3>1. n \in Nat
      BY LineType DEF TypeOK
    <3> QED
      BY <1>6, <3>1 DEF OptionsAt
  <2>2. path' = SectionAt(n)
    BY <1>1, <1>6, <2>1 DEF SectionAt, SectionSet
  <2>3. SectionAt(n)' = SectionAt(n)
    BY <1>1 DEF SectionAt, OptionsAt, WordArg
  <2>4. SectionAt(Word)' = SectionAt(n)'
    BY <1>7
  <2> QED
    BY <2>2, <2>3, <2>4
<1>13. FilePlace'
  <2>1. in_sect' <=> Empty = path'
    BY <1>1
  <2>2. line'[Word'].opt = "configfile"
    BY <1>1, <1>5, <1>6, <1>7
  <2> QED
    BY <1>1, <1>3, <1>4, <1>12, <2>1, <2>2 DEF FilePlace
<1>14. Applied' = Applied
  <2>1. Applied' = WordsTo(Word - 1)' \o RowsTo(row, path)'
    BY <1>1 DEF Applied
  <2>2. WordsTo(Word - 1)' = WordsTo(n - 1)'
    BY <1>7
  <2>3. RowsTo(row, path)' = RowsTo(0, path)'
    BY <1>1
  <2>4. RowsTo(0, path)' = << >>
    <3>1. \A x : [i \in 1 .. 0 |-> IF RowSection(i)' = x THEN RowSettings(i)' ELSE << >>] = << >>
      OBVIOUS
    <3> QED
      BY <3>1, FlattenNone DEF RowsTo
  <2>5. Applied = WordsTo(Word - 1)
    BY <1>1, <1>2 DEF Applied
  <2> QED
    BY <1>2, <1>5, <1>8, <2>1, <2>2, <2>3, <2>4, <2>5
<1> QED
  BY <1>10, <1>11, <1>13, <1>14 DEF Place

-----------------------------------------------------------------------------
(* The invariant                                                           *)

LEMMA OutcomeInit ==
  ASSUME Init
  PROVE  Outcome(<< >>)
<1>1. \A o : Places(<< >>, o) = {} /\ Times(<< >>, o) = {}
  BY DEF Places, Times
<1>2. \A o \in Params : param[o] = None \/ (o = "tempdir" /\ param[o] = Environ)
  BY DEF Init
<1>3. Skips(<< >>) = << >> /\ Treats(<< >>) = << >>
  <2>1. /\ [i \in 1 .. Len(<< >>) |-> IF << >>[i].opt = "skip" THEN <<<< >>[i].arg>> ELSE << >>] = << >>
        /\ [i \in 1 .. Len(<< >>) |->
              IF << >>[i].opt \in {"treatasdir", "treatasdirdest"}
                THEN <<[name |-> << >>[i].arg, deref |-> << >>[i].opt = "treatasdirdest"]>>
                ELSE << >>] = << >>
    OBVIOUS
  <2> QED
    BY <2>1, FlattenNone DEF Skips, Treats
<1>4. Reverse(<< >>) = << >>
  BY DEF Reverse
<1>5. HoldsLast(<< >>)
  BY <1>1, <1>2 DEF HoldsLast
<1>6. HoldsAll(<< >>)
  BY <1>3, <1>4 DEF HoldsAll, Init
<1>7. HoldsWarned(<< >>)
  BY <1>1 DEF HoldsWarned, Init
<1>8. nowarn = FALSE /\ Loud(<< >>, Len(<< >>) + 1)
  BY <1>1 DEF Loud, Init
<1> QED
  BY <1>1, <1>2, <1>5, <1>6, <1>7, <1>8 DEF Outcome

LEMMA InitInv == Init => IInv
<1> SUFFICES ASSUME Init PROVE IInv
  OBVIOUS
<1>1. /\ line \in Lines /\ argind = 0 /\ optind = 0 /\ file = None /\ row = 0 /\ pos = -1
      /\ option = None /\ arg = None /\ in_sect = FALSE /\ nowarn = FALSE /\ fileread = FALSE
      /\ fp = FALSE /\ pc \in {"argv", "exit1"} /\ warned = {}
      /\ lists = [skip |-> << >>, treatasdir |-> << >>] /\ Len(line) \in Nat
  BY LineType DEF Init
<1>2. PICK t \in {None, Environ} : param = [[o \in Params |-> None] EXCEPT !["tempdir"] = t]
  BY DEF Init
<1>3. \A o \in Params \ {"tempdir"} : param[o] = None
  BY <1>2
<1>4. TypeOK
  <2>1. \A o \in NumOpts \cup YesNoOpts : param[o] = None
    BY <1>3 DEF Params, NumOpts, YesNoOpts
  <2>2. ReaderType
    <3>1. argind \in 0 .. Len(line) /\ optind \in 0 .. 1 /\ pos \in -1 .. -1
      BY <1>1
    <3>2. row \in 0 .. (IF file = None THEN 0 ELSE Len(file))
      BY <1>1
    <3>3. pos \in -1 .. (IF row = 0 THEN -1 ELSE Len(Body(file[row])))
      BY <1>1, <3>1
    <3> QED
      BY <1>1, <3>1, <3>2, <3>3 DEF ReaderType
  <2>3. ControlType
    BY <1>1 DEF ControlType, Ended
  <2>4. Numbers
    BY <2>1 DEF Numbers
  <2> QED
    BY <1>1, <2>2, <2>3, <2>4, TypeParts
<1>5. Shape
  <2>1. param = [o \in Params |-> param[o]]
    BY <1>2
  <2> QED
    BY <1>1, <2>1 DEF Shape
<1>6. Settled = 0 /\ Word = 0
  BY <1>1 DEF Settled, Word
<1>7. Place
  <2>1. "section" \in Params \ {"tempdir"}
    BY DEF Params
  <2>2. Ready(0) /\ SectionSet(0)
    BY <1>3, <2>1 DEF Ready, SectionSet, OptionsAt
  <2>3. LinePlace /\ FilePlace /\ ArgPlace
    BY <1>1 DEF LinePlace, FilePlace, ArgPlace
  <2> QED
    BY <1>6, <2>2, <2>3 DEF Place
<1>8. Applied = << >>
  <2>1. [i \in 1 .. 0 |-> WordGives(i)] = << >>
    OBVIOUS
  <2> QED
    BY <1>1, <1>6, <2>1, FlattenNone DEF Applied, WordsTo
<1> QED
  BY <1>4, <1>5, <1>7, <1>8, OutcomeInit DEF IInv

\* what main has in its parameters is not changed by a step of the reader
LEMMA ReaderKeeps ==
  ASSUME Shape, Outcome(Applied), Applied' = Applied, UNCHANGED <<param, lists, nowarn, warned>>
  PROVE  Shape' /\ Outcome(Applied)'
<1>1. PICK S : S = Applied
  OBVIOUS
<1>2. Outcome(S)' /\ Applied' = S
  BY <1>1, OutcomeKept
<1>3. Outcome(Applied)'
  BY <1>2
<1> QED
  BY <1>3 DEF Shape

LEMMA StepInv == IInv /\ [Next]_vars => IInv'
<1> SUFFICES ASSUME IInv, [Next]_vars PROVE IInv'
  OBVIOUS
<1>1. TypeOK /\ (pc \in Alive => Shape /\ Place /\ Outcome(Applied))
  BY DEF IInv
<1>2. pc = "file" => file \in Files
  BY <1>1 DEF Alive, TypeOK, Place, FilePlace
<1>3. CASE NextWord \/ ShortOption \/ EndOfLine \/ EndOfFile \/ NewRow \/ SameRow
  <2>1. TypeOK'
    BY <1>1, <1>2, <1>3, ReadingType
  <2>2. pc \in Alive /\ UNCHANGED <<param, lists, nowarn, warned>>
    BY <1>3 DEF NextWord, ShortOption, EndOfLine, EndOfFile, NewRow, SameRow, Alive, settings
  <2>3. pc' \in Alive => Place' /\ Applied' = Applied
    BY <1>1, <1>3, <2>2, NextWordStep, ShortOptionStep, EndOfLineStep, EndOfFileStep,
       NewRowStep, SameRowStep
  <2>4. pc' \in Alive => Shape' /\ Outcome(Applied)'
    BY <1>1, <2>2, <2>3, ReaderKeeps
  <2> QED
    BY <2>1, <2>3, <2>4 DEF IInv
<1>4. CASE SetParam \/ AddParam \/ SetUrl \/ SetVersion \/ SetSection
  <2>1. TypeOK'
    BY <1>1, <1>4, SettingType
  <2>2. pc \in Alive
    BY <1>4 DEF SetParam, AddParam, SetUrl, SetVersion, SetSection, Alive
  <2>3. pc' \in Alive => Shape' /\ Place' /\ Outcome(Applied)'
    BY <1>1, <1>4, <2>2, SettleStep
  <2> QED
    BY <2>1, <2>3 DEF IInv
<1>5. CASE OpenFile
  <2>1. TypeOK'
    BY <1>1, <1>5, OpenType
  <2>2. pc \in Alive /\ UNCHANGED <<param, lists, nowarn, warned>>
    BY <1>5 DEF OpenFile, Alive
  <2>3. pc' \in Alive => Place' /\ Applied' = Applied
    BY <1>1, <1>5, <2>2, OpenFileStep
  <2>4. pc' \in Alive => Shape' /\ Outcome(Applied)'
    BY <1>1, <2>2, <2>3, ReaderKeeps
  <2> QED
    BY <2>1, <2>3, <2>4 DEF IInv
<1>6. CASE ReadError
  <2>1. TypeOK'
    BY <1>1, <1>2, <1>6, ReadingType
  <2>2. pc' \notin Alive
    BY <1>6 DEF ReadError, Exit, Alive
  <2> QED
    BY <2>1, <2>2 DEF IInv
<1>7. CASE FreeEnviron \/ Help
  <2>1. TypeOK'
    BY <1>1, <1>7, SettingType
  <2>2. pc' \notin Alive
    BY <1>7 DEF FreeEnviron, Help, Exit, Alive
  <2> QED
    BY <2>1, <2>2 DEF IInv
<1>8. CASE Configure
  <2>1. TypeOK'
    BY <1>1, <1>8, ConfigureType
  <2>2. pc' \notin Alive
    BY <1>8 DEF Configure, Exit, Alive
  <2> QED
    BY <2>1, <2>2 DEF IInv
<1>9. CASE Stopped
  <2>1. pc \notin Alive /\ UNCHANGED vars
    BY <1>9 DEF Stopped, Ended, Alive
  <2>2. TypeOK' /\ pc' \notin Alive
    BY <1>1, <2>1 DEF vars, reader, found, settings, TypeOK
  <2> QED
    BY <2>2 DEF IInv
<1>10. CASE UNCHANGED vars
  <2>1. UNCHANGED <<line, argind, optind, file, row, pos, in_sect, path, option, arg, param, lists,
                    nowarn, fileread, warned, fp, pc>>
    BY <1>10 DEF vars, reader, found, settings
  <2>2. TypeOK'
    BY <1>1, <2>1 DEF TypeOK
  <2>3. pc' \in Alive => Place' /\ Applied' = Applied
    <3> SUFFICES ASSUME pc' \in Alive PROVE Place' /\ Applied' = Applied
      OBVIOUS
    <3>1. PICK n, w, r, x : n = Settled /\ w = Word /\ r = row /\ x = path
      OBVIOUS
    <3>2. n = Settled' /\ w = Word' /\ r = row' /\ x = path' /\ Current' = Current
      BY <2>1, <3>1 DEF Settled, Word, Current
    <3>3. Ready(n) /\ SectionSet(n) /\ LinePlace /\ FilePlace /\ ArgPlace
      BY <1>1, <2>1, <3>1 DEF Place
    <3>4. Ready(Settled)' /\ SectionSet(Settled)' /\ WordsTo(Settled)' = WordsTo(n)
      BY <2>1, <3>2, <3>3, LineFrame
    <3>5. /\ WordArg(w)' = WordArg(w) /\ SectionAt(w)' = SectionAt(w) /\ RowSection(r)' = RowSection(r)
          /\ WordsTo(w - 1)' = WordsTo(w - 1) /\ RowsTo(r, x)' = RowsTo(r, x)
          /\ RowsTo(r - 1, x)' = RowsTo(r - 1, x) /\ RowSettings(r)' = RowSettings(r)
      BY <2>1, Kept
    <3>6. /\ WordArg(Word)' = WordArg(Word) /\ SectionAt(Word)' = SectionAt(Word)
          /\ RowSection(row)' = RowSection(row) /\ WordsTo(Word - 1)' = WordsTo(Word - 1)
          /\ RowsTo(row, path)' = RowsTo(row, path) /\ RowsTo(row - 1, path)' = RowsTo(row - 1, path)
          /\ RowSettings(row)' = RowSettings(row)
      BY <3>1, <3>2, <3>5
    <3>7. LinePlace'
      BY <2>1, <3>1, <3>2, <3>3, <3>6 DEF LinePlace
    <3>8. FilePlace'
      BY <2>1, <3>1, <3>2, <3>3, <3>6 DEF FilePlace
    <3>9. ArgPlace'
      BY <2>1, <3>3 DEF ArgPlace
    <3>10. Applied' = Applied
      BY <2>1, <3>1, <3>4, <3>6 DEF Applied
    <3> QED
      BY <3>4, <3>7, <3>8, <3>9, <3>10 DEF Place
  <2>4. pc' \in Alive => Shape' /\ Outcome(Applied)'
    BY <1>1, <2>1, <2>3, ReaderKeeps
  <2> QED
    BY <2>2, <2>3, <2>4 DEF IInv
<1> QED
  BY <1>3, <1>4, <1>5, <1>6, <1>7, <1>8, <1>9, <1>10 DEF Next

LEMMA Invariant == Spec => []IInv
<1>1. Init => IInv
  BY InitInv
<1>2. IInv /\ [Next]_vars => IInv'
  BY StepInv
<1> QED
  BY <1>1, <1>2, PTL DEF Spec

(* What tgetopt finds is what the user wrote, but for a file that is asked *)
(* for as a whole and has sections.                                        *)
LEMMA FoundIsWritten ==
  ASSUME ~Curtailed
  PROVE  Written = WordsTo(Len(line))
<1>1. ASSUME NEW i \in 1 .. Len(line)
      PROVE  WordSettings(i) = WordGives(i)
  <2>1. CASE line[i].form # "plain" /\ line[i].opt = "configfile"
    <3>1. CASE WholeFile(SectionAt(i))
      <4>1. \A j \in 1 .. Len(file) : file[j].head = None
        BY <2>1, <3>1 DEF Curtailed
      <4>2. \A j \in 1 .. Len(file) : RowSection(j) = SectionAt(i)
        BY <3>1, <4>1 DEF RowSection, WholeFile
      <4>3. [j \in 1 .. Len(file) |-> RowSettings(j)]
              = [j \in 1 .. Len(file) |-> IF RowSection(j) = SectionAt(i) THEN RowSettings(j) ELSE <<>>]
        BY <4>2
      <4>4. FileSettings(SectionAt(i)) = SectionSettings(SectionAt(i))
        BY <3>1, <4>3 DEF FileSettings, SectionSettings
      <4> QED
        BY <2>1, <4>4 DEF WordSettings, WordGives
    <3>2. CASE ~WholeFile(SectionAt(i))
      BY <2>1, <3>2 DEF WordSettings, WordGives, FileSettings
    <3> QED
      BY <3>1, <3>2
  <2>2. CASE ~(line[i].form # "plain" /\ line[i].opt = "configfile")
    BY <2>2 DEF WordSettings, WordGives
  <2> QED
    BY <2>1, <2>2
<1>2. [i \in 1 .. Len(line) |-> WordSettings(i)] = [i \in 1 .. Len(line) |-> WordGives(i)]
  BY <1>1
<1> QED
  BY <1>2 DEF Written, WordsTo

(* At the end of the line everything that was written has been applied.    *)
LEMMA AllApplied ==
  ASSUME IInv, Read, ~Curtailed
  PROVE  Outcome(Written)
<1>1. TypeOK /\ Place /\ Outcome(Applied) /\ pc = "read"
  BY DEF IInv, Read, Alive
<1>2. ~fp /\ optind = 0 /\ argind = Len(line)
  BY <1>1 DEF TypeOK, Place, LinePlace
<1>3. Settled = Len(line)
  BY <1>1, <1>2 DEF Settled
<1>4. Applied = WordsTo(Len(line))
  BY <1>2, <1>3 DEF Applied
<1>5. Applied = Written
  BY <1>4, FoundIsWritten
<1> QED
  BY <1>1, <1>5

-----------------------------------------------------------------------------
(* Theorems                                                                *)

\* The reader stays inside its word, row and file, a file is open only while
\* it is read, and what set_param_num and set_param_yes_no have accepted is
\* in its range, through all calls of tgetopt and the defaults of main.
THEOREM TypeCorrect == Spec => []TypeOK
<1>1. IInv => TypeOK
  BY DEF IInv
<1> QED
  BY <1>1, Invariant, PTL

(* When the loop of main over the options ends, every parameter has the    *)
(* last value that the command line and the section of the configuration   *)
(* file in force at each "configfile" have for it, whatever the line and   *)
(* the file, unless the whole of a file with sections was asked for.       *)
THEOREM LastSettingWins == Spec => []LastWins
<1>1. IInv => LastWins
  BY AllApplied DEF LastWins, Outcome
<1> QED
  BY <1>1, Invariant, PTL

\* All expressions of "skip", "treatasdir" and "treatasdirdest" from every
\* source are then in the two queues that add_param_sps and add_param_spt
\* fill, the last one at the head.
THEOREM CollectsAll == Spec => []AllCollected
<1>1. IInv => AllCollected
  BY AllApplied DEF AllCollected, Outcome
<1> QED
  BY <1>1, Invariant, PTL

\* The parameters that set_param_str and its like have warned about are those
\* that were set once more while the last "warnoverrides" did not say no.
THEOREM WarnsOfOverrides == Spec => []WarnsOverrides
<1>1. IInv => WarnsOverrides
  BY AllApplied DEF WarnsOverrides, Outcome
<1> QED
  BY <1>1, Invariant, PTL
=============================================================================
