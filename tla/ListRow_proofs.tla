--------------------------- MODULE ListRow_proofs ---------------------------
(* What parse_row finds in a row, and how often and on which grounds a     *)
(* file is fetched again, for calendars, clocks and directories of any     *)
(* size.                                                                   *)
EXTENDS ListRow, TLAPS

\* the server shows the time t of a file without the time of day at time n
Old(t, n) == n - t >= YearLen \div 2

(* What is listed at time n for the time t is not mistaken by a year: the  *)
(* year is there, or the local clock has reached the month of t.           *)
Settled(t, n) == full \/ Old(t, n) \/ n + skew >= t - (t % MonthLen)

\* the time and the tgranul of a struct sp_file listed at time n
TimeOf(t, n) ==
  IF ~Settled(t, n) THEN t - YearLen
  ELSE IF full \/ ~Old(t, n) THEN t ELSE t - (t % DayLen)

Granul(t, n) == IF full THEN 0 ELSE IF Old(t, n) THEN DayLen ELSE 1

Types ==
  /\ now \in Nat /\ now >= YearLen
  /\ skew \in Skews /\ full \in BOOLEAN
  /\ mtime \in 0 .. now
  /\ fetches \in Nat
  /\ pc \in {"idle", "listed"}

\* the row in hand was listed at time k
ListedAt(k) ==
  /\ shown \in 0 .. k
  /\ spf # None => spf.time = TimeOf(shown, k) /\ spf.tgranul = Granul(shown, k)

(* The local file has the time of a listing made at time k or before; one  *)
(* that was not mistaken if the file was fetched twice.                    *)
LocalBy(k) ==
  local # None =>
    \E n \in YearLen .. k : /\ got \in 0 .. n
                            /\ local = TimeOf(got, n)
                            /\ fetches = 2 => Settled(got, n)

Times ==
  /\ pc = "idle" => LocalBy(now)
  /\ pc = "listed" => \E k \in YearLen .. now : ListedAt(k) /\ LocalBy(k)

\* a file is fetched again only if its listing was mistaken before
Counts ==
  /\ fetches <= 2
  /\ fetches >= 1 => local # None /\ got = mtime /\ (pc = "listed" => shown = mtime)
  /\ fetches = 2 => skew < 0 /\ ~full

IInv == Types /\ Times /\ Counts

-----------------------------------------------------------------------------
(* The calendar                                                            *)

\* quotient and remainder
LEMMA DivMod ==
  ASSUME NEW a \in Int, NEW b \in Nat \ {0}
  PROVE  /\ a \div b \in Int /\ a % b \in 0 .. b - 1
         /\ a = b * (a \div b) + (a % b)
  OBVIOUS

\* they are the only ones
LEMMA DivModUnique ==
  ASSUME NEW b \in Nat \ {0}, NEW q \in Int, NEW r \in 0 .. b - 1,
         NEW p \in Int, NEW s \in 0 .. b - 1, b * q + r = b * p + s
  PROVE  q = p /\ r = s
<1>1. CASE q > p
  <2>1. b * (q - p) = s - r
    OBVIOUS
  <2>2. b * (q - p) >= b
    BY <1>1
  <2> QED
    BY <2>1, <2>2
<1>2. CASE q < p
  <2>1. b * (p - q) = r - s
    OBVIOUS
  <2>2. b * (p - q) >= b
    BY <1>2
  <2> QED
    BY <2>1, <2>2
<1> QED
  BY <1>1, <1>2

LEMMA Lengths ==
  /\ DayLen \in Nat \ {0} /\ MonthLen \in Nat \ {0} /\ YearLen \in Nat \ {0}
  /\ MonthLen = Days * DayLen /\ YearLen = Months * MonthLen
  /\ MonthLen <= YearLen /\ DayLen <= MonthLen
  /\ YearLen \div 2 \in Nat
<1>1. DayLen \in Nat \ {0} /\ MonthLen \in Nat /\ MonthLen = Days * DayLen /\ DayLen <= MonthLen
  BY CalendarAssumption DEF DayLen, MonthLen
<1>2. YearLen \in Nat /\ YearLen = Months * MonthLen /\ MonthLen <= YearLen
  BY <1>1, CalendarAssumption DEF YearLen
<1> QED
  BY <1>1, <1>2

\* The remainder of a multiple's remainder.
LEMMA ModMod ==
  ASSUME NEW a \in Int, NEW b \in Nat \ {0}, NEW c \in Nat \ {0}
  PROVE  (a % (c * b)) % b = a % b
<1>1. PICK k \in Nat \ {0} : k = c * b
  OBVIOUS
<1>2. PICK q \in Int, r \in Int : a = k * q + r /\ r = a % k
  <2>1. a \div k \in Int /\ a % k \in Int /\ a = k * (a \div k) + (a % k)
    BY DivMod
  <2> QED
    BY <2>1
<1>3. PICK w \in Int, x \in 0 .. b - 1 : r = b * w + x /\ x = r % b
  BY DivMod
<1>4. PICK z \in Int, s \in 0 .. b - 1 : a = b * z + s /\ s = a % b
  BY DivMod
<1>5. PICK p \in Int : p = c * q + w
  OBVIOUS
<1>6. b * p + x = b * z + s
  <2>1. b * p = k * q + b * w
    BY <1>1, <1>5
  <2>2. k * q \in Int /\ b * w \in Int
    OBVIOUS
  <2>3. k * q + (b * w + x) = b * z + s
    BY <1>2, <1>3, <1>4
  <2> QED
    BY <2>1, <2>2, <2>3
<1>7. x = s
  BY <1>6, DivModUnique
<1> QED
  BY <1>1, <1>2, <1>3, <1>4, <1>7

\* A time is made of its year, month and the time in the month.
LEMMA TimeParts ==
  ASSUME NEW t \in Int
  PROVE  /\ tm(t).year \in Int /\ tm(t).mon \in 0 .. Months - 1
         /\ tm(t).mday \in Int /\ tm(t).tick \in 0 .. DayLen - 1
         /\ t % MonthLen \in 0 .. MonthLen - 1
         /\ t = YearLen * tm(t).year + MonthLen * tm(t).mon + (t % MonthLen)
         /\ t % MonthLen = DayLen * tm(t).mday + (t % DayLen)
         /\ tm(t).tick = t % DayLen
<1> DEFINE y == t \div YearLen
           u == t % YearLen
           m == u \div MonthLen
           v == t % MonthLen
           d == v \div DayLen
<1>1. tm(t).year = y /\ tm(t).mon = m /\ tm(t).mday = d /\ tm(t).tick = t % DayLen
  BY DEF tm
<1>2. y \in Int /\ u \in 0 .. YearLen - 1 /\ t = YearLen * y + u
  BY Lengths, DivMod
<1>3. m \in Int /\ u % MonthLen \in 0 .. MonthLen - 1 /\ u = MonthLen * m + (u % MonthLen)
  <2>1. u \in Int
    BY <1>2
  <2> HIDE DEF u
  <2> QED
    BY <2>1, Lengths, DivMod DEF m
<1>4. u % MonthLen = v
  BY Lengths, ModMod, CalendarAssumption
<1>5. v \in 0 .. MonthLen - 1
  BY Lengths, DivMod
<1>6. d \in Int /\ v % DayLen \in 0 .. DayLen - 1 /\ v = DayLen * d + (v % DayLen)
  <2>1. v \in Int
    BY <1>5
  <2> HIDE DEF v
  <2> QED
    BY <2>1, Lengths, DivMod DEF d
<1>7. v % DayLen = t % DayLen
  BY Lengths, ModMod, CalendarAssumption
<1> HIDE DEF y, u, m, v, d
<1>8. m \in 0 .. Months - 1
  <2>1. ~(m < 0)
    <3> SUFFICES ASSUME m < 0 PROVE FALSE
      OBVIOUS
    <3>1. MonthLen * m <= -MonthLen
      BY <1>3, Lengths
    <3> QED
      BY <3>1, <1>2, <1>3, Lengths
  <2>2. ~(m >= Months)
    <3> SUFFICES ASSUME m >= Months PROVE FALSE
      OBVIOUS
    <3>1. MonthLen * m >= MonthLen * Months
      BY <1>3, Lengths, CalendarAssumption
    <3>2. MonthLen * Months = YearLen
      BY Lengths, CalendarAssumption
    <3>3. MonthLen * m >= YearLen
      BY <3>1, <3>2
    <3>4. MonthLen * m \in Int
      BY <1>3, Lengths
    <3> QED
      BY <3>3, <3>4, <1>2, <1>3, Lengths
  <2> QED
    BY <1>3, <2>1, <2>2, CalendarAssumption
<1>9. t = YearLen * y + MonthLen * m + v
  <2>1. YearLen * y \in Int /\ MonthLen * m \in Int
    BY <1>2, <1>3, Lengths
  <2> QED
    BY <2>1, <1>2, <1>3, <1>4, <1>5
<1>10. v = DayLen * d + (t % DayLen) /\ t % DayLen \in 0 .. DayLen - 1
  BY <1>6, <1>7
<1> QED
  BY <1>1, <1>2, <1>5, <1>6, <1>8, <1>9, <1>10 DEF v


(* The year that the local time L gives to the month of t, for local times *)
(* from a year before t to a year less a month after it.                   *)
LEMMA YearByMonth ==
  ASSUME NEW K \in Nat \ {0}, NEW M \in Nat \ {0}, NEW Y \in Nat, Y = K * M,
         NEW yt \in Int, NEW mt \in 0 .. K - 1, NEW rt \in 0 .. M - 1,
         NEW yl \in Int, NEW ml \in 0 .. K - 1, NEW rl \in 0 .. M - 1,
         NEW t \in Int, t = Y * yt + M * mt + rt,
         NEW L \in Int, L = Y * yl + M * ml + rl,
         L > t - Y, L - t <= Y - M
  PROVE  (IF ml < mt THEN yl - 1 ELSE yl) = IF L >= t - rt THEN yt ELSE yt - 1
<1>1. PICK dm \in Int : dm = ml - mt
  OBVIOUS
<1>2. PICK dy \in Int : dy = yl - yt
  OBVIOUS
<1>3. PICK MD \in Int : MD = M * dm
  OBVIOUS
<1>4. PICK YD \in Int : YD = Y * dy
  OBVIOUS
<1>5. L - t = YD + MD + (rl - rt)
  <2>1. MD = M * ml - M * mt
    BY <1>1, <1>3
  <2>2. YD = Y * yl - Y * yt
    BY <1>2, <1>4
  <2>3. M * ml \in Int /\ M * mt \in Int /\ Y * yl \in Int /\ Y * yt \in Int
    OBVIOUS
  <2> QED
    BY <2>1, <2>2, <2>3
<1>6. MD <= Y - M
  <2>1. M * dm <= M * (K - 1)
    BY <1>1
  <2>2. M * (K - 1) = Y - M
    OBVIOUS
  <2> QED
    BY <1>3, <2>1, <2>2
<1>7. MD >= M - Y
  <2>1. M * dm >= M * (1 - K)
    BY <1>1
  <2>2. M * (1 - K) = M - Y
    OBVIOUS
  <2> QED
    BY <1>3, <2>1, <2>2
<1>8. (dm < 0 => MD <= -M) /\ (dm >= 0 => MD >= 0)
  BY <1>3
<1>9. /\ dy >= 2 => YD >= 2 * Y
      /\ dy <= -2 => YD <= -(2 * Y)
      /\ dy = 1 => YD = Y
      /\ dy = 0 => YD = 0
      /\ dy = -1 => YD = -Y
  BY <1>4
<1>10. dy \in {-1, 0, 1}
  BY <1>5, <1>6, <1>7, <1>9
<1>11. CASE dy = 1
  BY <1>1, <1>2, <1>5, <1>6, <1>7, <1>8, <1>9, <1>11
<1>12. CASE dy = 0
  BY <1>1, <1>2, <1>5, <1>6, <1>7, <1>8, <1>9, <1>12
<1>13. CASE dy = -1
  BY <1>1, <1>2, <1>5, <1>6, <1>7, <1>8, <1>9, <1>13
<1> QED
  BY <1>10, <1>11, <1>12, <1>13

-----------------------------------------------------------------------------
(* The time of a row                                                       *)

\* what parse_row makes of the time t of a file
ParsedTime(t) ==
  mktime(IF ListedTime(t).year = None THEN GuessedYear(tm(t).mon) ELSE ListedTime(t).year,
         tm(t).mon, tm(t).mday,
         IF ListedTime(t).tick = None THEN 0 ELSE ListedTime(t).tick)

ParsedGranul(t) ==
  IF ListedTime(t).year = None THEN 1 ELSE IF ListedTime(t).tick = None THEN DayLen ELSE 0

\* mktime is the inverse of localtime, with the time of day and the year apart.
LEMMA MkTime ==
  ASSUME NEW t \in Int, NEW k \in Int
  PROVE  LET T(y) == mktime(y, tm(t).mon, tm(t).mday, k)
         IN /\ T(tm(t).year) = t + (k - (t % DayLen))
            /\ T(tm(t).year - 1) = t - YearLen + (k - (t % DayLen))
<1>1. /\ tm(t).year \in Int /\ tm(t).mon \in Int /\ tm(t).mday \in Int /\ t % DayLen \in Int
      /\ t = YearLen * tm(t).year + MonthLen * tm(t).mon + (t % MonthLen)
      /\ t % MonthLen = DayLen * tm(t).mday + (t % DayLen)
  <2>1. /\ tm(t).year \in Int /\ tm(t).mon \in 0 .. Months - 1
        /\ tm(t).mday \in Int /\ tm(t).tick \in 0 .. DayLen - 1
        /\ tm(t).tick = t % DayLen
        /\ t = YearLen * tm(t).year + MonthLen * tm(t).mon + (t % MonthLen)
        /\ t % MonthLen = DayLen * tm(t).mday + (t % DayLen)
    BY TimeParts
  <2>2. tm(t).mon \in Int /\ tm(t).tick \in Int
    BY <2>1
  <2> QED
    BY <2>1, <2>2
<1>2. PICK m \in Int, d \in Int, z \in Int, r \in Int :
        m = tm(t).mon /\ d = tm(t).mday /\ z = tm(t).year /\ r = t % DayLen
  BY <1>1
<1>3. t = YearLen * z + MonthLen * m + (DayLen * d + r)
  BY <1>1, <1>2
<1>4. \A y \in Int : mktime(y, m, d, k) = y * YearLen + m * MonthLen + d * DayLen + k
  BY DEF mktime
<1>5. z * YearLen = YearLen * z /\ (z - 1) * YearLen = YearLen * z - YearLen
  BY Lengths
<1>6. m * MonthLen = MonthLen * m /\ d * DayLen = DayLen * d
  BY Lengths
<1>7. YearLen \in Int /\ YearLen * z \in Int /\ MonthLen * m \in Int /\ DayLen * d \in Int
  BY Lengths
<1>8. mktime(z, m, d, k) = t + (k - r)
  <2>1. mktime(z, m, d, k) = YearLen * z + MonthLen * m + DayLen * d + k
    BY <1>4, <1>5, <1>6
  <2> QED
    BY <1>3, <1>7, <2>1
<1>9. mktime(z - 1, m, d, k) = t - YearLen + (k - r)
  <2>1. mktime(z - 1, m, d, k) = YearLen * z - YearLen + MonthLen * m + DayLen * d + k
    BY <1>4, <1>5, <1>6
  <2> QED
    BY <1>3, <1>7, <2>1
<1> QED
  BY <1>2, <1>8, <1>9

\* The guess is the right year, or the one before it.
LEMMA Guessed ==
  ASSUME Types, NEW t \in 0 .. now, Recent(t)
  PROVE  GuessedYear(tm(t).mon)
           = IF now + skew >= t - (t % MonthLen) THEN tm(t).year ELSE tm(t).year - 1
<1> DEFINE L == now + skew
<1>1. /\ skew \in Int /\ skew > -YearLen
      /\ skew + (YearLen \div 2 - 1) <= YearLen - MonthLen
  BY SkewAssumption DEF Types
<1>2. now \in Int /\ t \in Int /\ t <= now /\ now - t < YearLen \div 2
  BY DEF Types, Recent
<1>3. L \in Int /\ L > t - YearLen /\ L - t <= YearLen - MonthLen
  BY <1>1, <1>2, Lengths
<1>4. GuessedYear(tm(t).mon) = IF tm(L).mon < tm(t).mon THEN tm(L).year - 1 ELSE tm(L).year
  BY DEF GuessedYear
<1> HIDE DEF L
<1>5. /\ tm(t).year \in Int /\ tm(t).mon \in 0 .. Months - 1
      /\ t % MonthLen \in 0 .. MonthLen - 1
      /\ t = YearLen * tm(t).year + MonthLen * tm(t).mon + (t % MonthLen)
  BY <1>2, TimeParts
<1>6. /\ tm(L).year \in Int /\ tm(L).mon \in 0 .. Months - 1
      /\ L % MonthLen \in 0 .. MonthLen - 1
      /\ L = YearLen * tm(L).year + MonthLen * tm(L).mon + (L % MonthLen)
  BY <1>3, TimeParts
<1>7. PICK yt \in Int, mt \in 0 .. Months - 1, rt \in 0 .. MonthLen - 1 :
        yt = tm(t).year /\ mt = tm(t).mon /\ rt = t % MonthLen
  BY <1>5
<1>8. PICK yl \in Int, ml \in 0 .. Months - 1, rl \in 0 .. MonthLen - 1 :
        yl = tm(L).year /\ ml = tm(L).mon /\ rl = L % MonthLen
  BY <1>6
<1>9. t = YearLen * yt + MonthLen * mt + rt /\ L = YearLen * yl + MonthLen * ml + rl
  BY <1>5, <1>6, <1>7, <1>8
<1>10. (IF ml < mt THEN yl - 1 ELSE yl) = IF L >= t - rt THEN yt ELSE yt - 1
  BY <1>2, <1>3, <1>9, Lengths, CalendarAssumption, YearByMonth
<1> QED
  BY <1>4, <1>7, <1>8, <1>10 DEF L

\* The time and the tgranul that parse_row finds are the listed ones.
LEMMA Parsed ==
  ASSUME Types, NEW t \in 0 .. now
  PROVE  ParsedTime(t) = TimeOf(t, now) /\ ParsedGranul(t) = Granul(t, now)
<1> DEFINE y == IF ListedTime(t).year = None THEN GuessedYear(tm(t).mon) ELSE ListedTime(t).year
           k == IF ListedTime(t).tick = None THEN 0 ELSE ListedTime(t).tick
<1>1. t \in Int /\ now \in Int /\ t <= now /\ skew \in Int
  BY SkewAssumption DEF Types
<1>2. /\ tm(t).year \in Int /\ tm(t).year # None
      /\ tm(t).tick \in Int /\ tm(t).tick # None /\ tm(t).tick = t % DayLen
  <2>1. tm(t).year \in Int /\ tm(t).tick \in Int /\ tm(t).tick = t % DayLen
    <3>1. tm(t).year \in Int /\ tm(t).tick \in 0 .. DayLen - 1 /\ tm(t).tick = t % DayLen
      BY <1>1, TimeParts
    <3> QED
      BY <3>1
  <2> QED
    BY <2>1, NoneAssumption
<1>3. Recent(t) <=> ~Old(t, now)
  BY <1>1, Lengths DEF Recent, Old
<1>4. /\ ListedTime(t).year = IF full \/ ~Recent(t) THEN tm(t).year ELSE None
      /\ ListedTime(t).tick = IF full \/ Recent(t) THEN tm(t).tick ELSE None
  BY DEF ListedTime
<1>5. ParsedGranul(t) = Granul(t, now)
  BY <1>2, <1>3, <1>4 DEF ParsedGranul, Granul
<1>6. ParsedTime(t) = mktime(y, tm(t).mon, tm(t).mday, k)
  BY DEF ParsedTime
<1>7. YearLen \in Int /\ t % DayLen \in Int
  BY <1>2, Lengths
<1>8. CASE full
  <2>1. y = tm(t).year /\ k = t % DayLen
    BY <1>2, <1>4, <1>8
  <2>2. ParsedTime(t) = t + (k - (t % DayLen))
    BY <1>1, <1>2, <1>6, <2>1, MkTime
  <2>3. ParsedTime(t) = t
    BY <1>1, <1>2, <1>7, <2>1, <2>2
  <2>4. TimeOf(t, now) = t
    BY <1>8 DEF TimeOf, Settled
  <2> QED
    BY <1>5, <2>3, <2>4
<1>9. CASE ~full /\ ~Recent(t)
  <2>1. y = tm(t).year /\ k = 0
    BY <1>2, <1>4, <1>9
  <2>2. ParsedTime(t) = t + (0 - (t % DayLen))
    BY <1>1, <1>2, <1>6, <2>1, MkTime
  <2>3. ParsedTime(t) = t - (t % DayLen)
    BY <1>1, <1>2, <1>7, <2>2
  <2>4. TimeOf(t, now) = t - (t % DayLen)
    BY <1>3, <1>9 DEF TimeOf, Settled
  <2> QED
    BY <1>5, <2>3, <2>4
<1>10. CASE ~full /\ Recent(t) /\ now + skew >= t - (t % MonthLen)
  <2>1. y = tm(t).year /\ k = t % DayLen
    BY <1>2, <1>4, <1>10, Guessed
  <2>2. ParsedTime(t) = t + (k - (t % DayLen))
    BY <1>1, <1>2, <1>6, <2>1, MkTime
  <2>3. ParsedTime(t) = t
    BY <1>1, <1>2, <1>7, <2>1, <2>2
  <2>4. TimeOf(t, now) = t
    BY <1>3, <1>10 DEF TimeOf, Settled
  <2> QED
    BY <1>5, <2>3, <2>4
<1>11. CASE ~full /\ Recent(t) /\ ~(now + skew >= t - (t % MonthLen))
  <2>1. y = tm(t).year - 1 /\ k = t % DayLen
    BY <1>2, <1>4, <1>11, Guessed
  <2>2. ParsedTime(t) = t - YearLen + (k - (t % DayLen))
    BY <1>1, <1>2, <1>6, <2>1, MkTime
  <2>3. ParsedTime(t) = t - YearLen
    BY <1>1, <1>2, <1>7, <2>1, <2>2
  <2>4. TimeOf(t, now) = t - YearLen
    BY <1>3, <1>11 DEF TimeOf, Settled
  <2> QED
    BY <1>5, <2>3, <2>4
<1> QED
  BY <1>8, <1>9, <1>10, <1>11

-----------------------------------------------------------------------------
(* The other fields of a row                                               *)

\* A letter of the mode stands for its bit.
LEMMA PlainParsed ==
  ASSUME NEW mode, NEW bit, NEW ch, ch # "-"
  PROVE  /\ Letter(mode, bit, ch) \in DOMAIN Plain(ch, bit)
         /\ Plain(ch, bit)[Letter(mode, bit, ch)] = mode \cap {bit}
  BY DEF Letter, Plain

LEMMA ExecParsed ==
  ASSUME NEW mode, NEW bit, NEW s, NEW both, NEW alone,
         both \notin {"x", "-"}, alone \notin {"x", "-", both}
  PROVE  /\ ExecLetter(mode, bit, s, both, alone) \in DOMAIN Exec(both, alone, bit, s)
         /\ Exec(both, alone, bit, s)[ExecLetter(mode, bit, s, both, alone)] = mode \cap {bit, s}
  BY DEF ExecLetter, Letter, Exec

\* parse_file_mode finds the permissions behind the letters.
LEMMA ModeParsed ==
  ASSUME NEW e, e.mode \subseteq Mode
  PROVE  LET m == ModeString(e)
         IN /\ m[1] = e.type
            /\ \A i \in 1 .. 9 : m[i + 1] \in DOMAIN ModeTable[i]
            /\ parse_file_mode(m) = e.mode
<1> DEFINE m == ModeString(e)
           B == <<{"RUSR"}, {"WUSR"}, {"XUSR", "SUID"}, {"RGRP"}, {"WGRP"}, {"XGRP", "SGID"},
                  {"ROTH"}, {"WOTH"}, {"XOTH", "SVTX"}>>
<1>1. m[1] = e.type
  BY DEF ModeString
<1>2. \A i \in 1 .. 9 : m[i + 1] \in DOMAIN ModeTable[i] /\ ModeTable[i][m[i + 1]] = e.mode \cap B[i]
  <2>1. /\ m[2] \in DOMAIN ModeTable[1] /\ ModeTable[1][m[2]] = e.mode \cap B[1]
        /\ m[3] \in DOMAIN ModeTable[2] /\ ModeTable[2][m[3]] = e.mode \cap B[2]
        /\ m[5] \in DOMAIN ModeTable[4] /\ ModeTable[4][m[5]] = e.mode \cap B[4]
        /\ m[6] \in DOMAIN ModeTable[5] /\ ModeTable[5][m[6]] = e.mode \cap B[5]
        /\ m[8] \in DOMAIN ModeTable[7] /\ ModeTable[7][m[8]] = e.mode \cap B[7]
        /\ m[9] \in DOMAIN ModeTable[8] /\ ModeTable[8][m[9]] = e.mode \cap B[8]
    BY PlainParsed DEF ModeString, ModeTable
  <2>2. /\ m[4] \in DOMAIN ModeTable[3] /\ ModeTable[3][m[4]] = e.mode \cap B[3]
        /\ m[7] \in DOMAIN ModeTable[6] /\ ModeTable[6][m[7]] = e.mode \cap B[6]
        /\ m[10] \in DOMAIN ModeTable[9] /\ ModeTable[9][m[10]] = e.mode \cap B[9]
    BY ExecParsed DEF ModeString, ModeTable
  <2> HIDE DEF m, B
  <2> QED
    BY <2>1, <2>2
<1>3. parse_file_mode(m) = UNION {e.mode \cap B[i] : i \in 1 .. 9}
  BY <1>2 DEF parse_file_mode
<1>4. UNION {e.mode \cap B[i] : i \in 1 .. 9} = e.mode
  BY DEF Mode
<1> QED
  BY <1>1, <1>2, <1>3, <1>4

LEMMA AfterThree ==
  ASSUME NEW a, NEW b, NEW c, NEW x, NEW y, NEW z
  PROVE  LET f == <<a, b, c>> \o <<x, y, z>>
         IN f[4] = x /\ f[5] = y /\ f[6] = z
  OBVIOUS

LEMMA AfterTwo ==
  ASSUME NEW a, NEW b, NEW x, NEW y, NEW z
  PROVE  LET f == <<a, b>> \o <<x, y, z>>
         IN f[3] = x /\ f[4] = y /\ f[5] = z
  OBVIOUS

\* parse_row finds the size, the month and the day, whatever is before them.
LEMMA FieldsParsed ==
  ASSUME NEW e, NEW layout \in Layouts, NEW t
  PROVE  LET f == Row(e, layout, t).fields
             s == SizeField(f)
         IN s \in 3 .. 4 /\ f[s] = Num(e.size) /\ f[s + 1] = Word(tm(t).mon) /\ f[s + 2] = Num(tm(t).mday)
<1> DEFINE f == Row(e, layout, t).fields
<1>1. layout \in {"group", "ids", "nogroup", "nolinks"}
  BY EntriesAssumption
<1>2. f = Owner(layout) \o <<Num(e.size), Word(tm(t).mon), Num(tm(t).mday)>>
  BY DEF Row
<1>3. CASE layout = "group"
  <2>1. f = <<Num(1), Word("user"), Word("group")>> \o <<Num(e.size), Word(tm(t).mon), Num(tm(t).mday)>>
    BY <1>2, <1>3 DEF Owner
  <2>2. f[4] = Num(e.size) /\ f[5] = Word(tm(t).mon) /\ f[6] = Num(tm(t).mday)
    BY <2>1, AfterThree
  <2>3. SizeField(f) = 4
    BY <2>2 DEF SizeField, Num, Word
  <2> QED
    BY <2>2, <2>3
<1>4. CASE layout = "ids"
  <2>1. f = <<Num(1), Num(100), Num(101)>> \o <<Num(e.size), Word(tm(t).mon), Num(tm(t).mday)>>
    BY <1>2, <1>4 DEF Owner
  <2>2. f[4] = Num(e.size) /\ f[5] = Word(tm(t).mon) /\ f[6] = Num(tm(t).mday)
    BY <2>1, AfterThree
  <2>3. SizeField(f) = 4
    BY <2>2 DEF SizeField, Num, Word
  <2> QED
    BY <2>2, <2>3
<1>5. CASE layout = "nogroup"
  <2>1. f = <<Num(1), Word("user")>> \o <<Num(e.size), Word(tm(t).mon), Num(tm(t).mday)>>
    BY <1>2, <1>5 DEF Owner
  <2>2. f[3] = Num(e.size) /\ f[4] = Word(tm(t).mon) /\ f[5] = Num(tm(t).mday)
    BY <2>1, AfterTwo
  <2>3. SizeField(f) = 3
    BY <2>2 DEF SizeField, Num, Word
  <2> QED
    BY <2>2, <2>3
<1>6. CASE layout = "nolinks"
  <2>1. f = <<Word("user"), Word("group")>> \o <<Num(e.size), Word(tm(t).mon), Num(tm(t).mday)>>
    BY <1>2, <1>6 DEF Owner
  <2>2. f[3] = Num(e.size) /\ f[4] = Word(tm(t).mon) /\ f[5] = Num(tm(t).mday)
    BY <2>1, AfterTwo
  <2>3. SizeField(f) = 3
    BY <2>2 DEF SizeField, Num, Word
  <2> QED
    BY <2>2, <2>3
<1> QED
  BY <1>1, <1>3, <1>4, <1>5, <1>6

\* What parse_row makes of the row of an entry.
LEMMA RowParsed ==
  ASSUME NEW e \in Entries, NEW layout \in Layouts, NEW t
  PROVE  parse_row(Row(e, layout, t)) =
           IF e.type \notin {"-", "d", "l"} THEN None
           ELSE [type |-> e.type, mode |-> e.mode, star |-> FALSE, size |-> e.size,
                 link |-> e.link, time |-> ParsedTime(t), tgranul |-> ParsedGranul(t)]
<1> DEFINE row == Row(e, layout, t)
           f == row.fields
           s == SizeField(f)
<1>1. /\ row.mode = ModeString(e) /\ row.time = ListedTime(t) /\ row.link = e.link
  BY DEF Row
<1>2. /\ row.mode[1] = e.type
      /\ \A i \in 1 .. 9 : row.mode[i + 1] \in DOMAIN ModeTable[i]
      /\ parse_file_mode(row.mode) = e.mode
  BY <1>1, ModeParsed, EntriesAssumption
<1>3. ModeAccepted(row.mode) <=> e.type \in {"-", "d", "l"}
  BY <1>2 DEF ModeAccepted
<1>4. f[s] = Num(e.size) /\ f[s + 1] = Word(tm(t).mon) /\ f[s + 2] = Num(tm(t).mday)
  BY FieldsParsed
<1>5. /\ f[s].num = TRUE /\ f[s + 1].num = FALSE
      /\ f[s].val = e.size /\ f[s + 1].val = tm(t).mon /\ f[s + 2].val = tm(t).mday
  BY <1>4 DEF Num, Word
<1> HIDE DEF row
<1>6. parse_row(row) =
        IF e.type \notin {"-", "d", "l"} THEN None
        ELSE [type |-> row.mode[1], mode |-> parse_file_mode(row.mode), star |-> FALSE,
              size |-> f[s].val, link |-> row.link,
              time |-> mktime(IF row.time.year = None THEN GuessedYear(f[s + 1].val)
                              ELSE row.time.year,
                              f[s + 1].val, f[s + 2].val,
                              IF row.time.tick = None THEN 0 ELSE row.time.tick),
              tgranul |-> IF row.time.year = None THEN 1
                          ELSE IF row.time.tick = None THEN DayLen ELSE 0]
  BY <1>3, <1>5 DEF parse_row
<1> HIDE DEF f, s
<1> QED
  BY <1>1, <1>2, <1>5, <1>6 DEF ParsedTime, ParsedGranul, row

\* It is no None if it is understood.
LEMMA ParsedIsFile ==
  ASSUME Types, NEW e \in Entries, NEW layout \in Layouts, e.type \in {"-", "d", "l"}
  PROVE  parse_row(Row(e, layout, mtime)) # None
<1>1. ParsedTime(mtime) \in Int /\ ParsedGranul(mtime) \in Int
  <2>1. mtime \in Int /\ mtime \in 0 .. now
    BY DEF Types
  <2>2. mtime % DayLen \in Int
    BY <2>1, Lengths, DivMod
  <2>3. TimeOf(mtime, now) \in Int /\ Granul(mtime, now) \in Int
    BY <2>1, <2>2, Lengths DEF TimeOf, Granul
  <2> QED
    BY <2>1, <2>3, Parsed
<1>2. e.mode \in SUBSET Mode
  BY EntriesAssumption
<1>3. e.size \in {x.size : x \in Entries} /\ e.link \in {x.link : x \in Entries}
  OBVIOUS
<1>4. parse_row(Row(e, layout, mtime)) =
        [type |-> e.type, mode |-> e.mode, star |-> FALSE, size |-> e.size,
         link |-> e.link, time |-> ParsedTime(mtime), tgranul |-> ParsedGranul(mtime)]
  BY RowParsed
<1>5. parse_row(Row(e, layout, mtime)) \in SpFile
  BY <1>1, <1>2, <1>3, <1>4 DEF SpFile
<1> QED
  BY <1>5, NoneAssumption

-----------------------------------------------------------------------------
(* The steps                                                               *)

\* A listing that was not mistaken is never mistaken again.
LEMMA SettledStays ==
  ASSUME Types, NEW n \in Nat, NEW k \in Nat, n <= k, NEW t \in 0 .. n, Settled(t, n)
  PROVE  Settled(t, k)
<1>1. skew \in Int /\ t \in Int /\ t % MonthLen \in Int /\ YearLen \div 2 \in Int
  BY Lengths, DivMod, SkewAssumption DEF Types
<1> QED
  BY <1>1 DEF Settled, Old

\* With a clock that is not behind, or the full time, none is mistaken.
LEMMA SettledAhead ==
  ASSUME Types, NEW n \in Nat, NEW t \in 0 .. n, skew >= 0 \/ full
  PROVE  Settled(t, n)
<1>1. t \in Int /\ t % MonthLen \in 0 .. MonthLen - 1
  BY TimeParts
<1>2. skew \in Int
  BY SkewAssumption DEF Types
<1> QED
  BY <1>1, <1>2 DEF Settled

(* Two listings of the same time look the same, unless the first one was   *)
(* mistaken and the second is not.                                         *)
LEMMA SameListing ==
  ASSUME Types, NEW n \in Nat, NEW k \in Nat, n <= k, NEW t \in 0 .. n,
         Settled(t, n) \/ ~Settled(t, k),
         NEW f, f.time = TimeOf(t, k), f.tgranul = Granul(t, k)
  PROVE  SameTime(f, TimeOf(t, n))
<1>1. t \in Int /\ t % DayLen \in 0 .. DayLen - 1 /\ DayLen \in Nat \ {0} /\ YearLen \in Nat
  <2>1. tm(t).tick \in 0 .. DayLen - 1 /\ tm(t).tick = t % DayLen
    BY TimeParts
  <2> QED
    BY <2>1, Lengths
<1>2. Old(t, n) => Old(t, k)
  BY <1>1, Lengths DEF Old
<1>3. CASE ~Settled(t, k)
  <2>1. ~Settled(t, n)
    BY <1>3, SettledStays
  <2>2. TimeOf(t, k) = t - YearLen /\ TimeOf(t, n) = t - YearLen
    BY <1>3, <2>1 DEF TimeOf
  <2>3. Granul(t, k) \in Nat
    BY <1>1 DEF Granul
  <2> QED
    BY <1>1, <2>2, <2>3 DEF SameTime
<1>4. CASE Settled(t, n) /\ Settled(t, k)
  <2>1. CASE full
    BY <1>1, <1>4, <2>1 DEF SameTime, TimeOf, Granul
  <2>2. CASE ~full /\ ~Old(t, k)
    BY <1>1, <1>2, <1>4, <2>2 DEF SameTime, TimeOf, Granul
  <2>3. CASE ~full /\ Old(t, k)
    <3>1. TimeOf(t, k) = t - (t % DayLen) /\ Granul(t, k) = DayLen
      BY <1>4, <2>3 DEF TimeOf, Granul
    <3>2. TimeOf(t, n) \in {t, t - (t % DayLen)}
      BY <1>4 DEF TimeOf
    <3> QED
      BY <1>1, <3>1, <3>2 DEF SameTime
  <2> QED
    BY <2>1, <2>2, <2>3
<1> QED
  BY <1>3, <1>4

\* A local file stays as it was listed while time passes.
LEMMA LocalStays ==
  ASSUME NEW k \in Nat, NEW j \in Nat, k <= j, LocalBy(k),
         UNCHANGED <<skew, full, local, got>>, fetches' = 2 => fetches = 2
  PROVE  LocalBy(j)'
<1> SUFFICES ASSUME local' # None
             PROVE  \E n \in YearLen .. j : /\ got' \in 0 .. n
                                            /\ local' = TimeOf(got, n)'
                                            /\ fetches' = 2 => Settled(got, n)'
  BY DEF LocalBy
<1>1. PICK n \in YearLen .. k : /\ got \in 0 .. n
                                /\ local = TimeOf(got, n)
                                /\ fetches = 2 => Settled(got, n)
  BY DEF LocalBy
<1>2. n \in YearLen .. j
  BY Lengths
<1>3. local' = TimeOf(got, n)' /\ Settled(got, n)' = Settled(got, n)
  BY <1>1 DEF Settled, TimeOf, Old
<1> QED
  BY <1>1, <1>2, <1>3

LEMMA InitInv == Init => IInv
  BY Lengths, CalendarAssumption DEF Init, IInv, Types, Times, Counts, LocalBy

\* The row in hand and the local file stay as they are when a step leaves them.
LEMMA TimesStay ==
  ASSUME Types, Times, UNCHANGED <<skew, full, local, got, pc, shown, spf>>,
         now' \in Nat, now <= now', fetches' = 2 => fetches = 2
  PROVE  Times'
<1>1. CASE pc = "idle"
  <2>1. LocalBy(now)
    BY <1>1 DEF Times
  <2>2. \A j \in Nat : now <= j => LocalBy(j)'
    BY <2>1, LocalStays DEF Types
  <2>3. PICK j \in Nat : j = now'
    OBVIOUS
  <2>4. LocalBy(j)'
    BY <2>2, <2>3
  <2>5. (LocalBy(now))'
    BY <2>3, <2>4 DEF LocalBy
  <2> QED
    BY <1>1, <2>5 DEF Times
<1>2. CASE pc = "listed"
  <2>1. PICK k \in YearLen .. now : ListedAt(k) /\ LocalBy(k)
    BY <1>2 DEF Times
  <2>2. k \in Nat /\ k \in YearLen .. now'
    BY Lengths DEF Types
  <2>3. LocalBy(k)'
    BY <2>1, <2>2, LocalStays
  <2>4. ListedAt(k)'
    BY <2>1 DEF ListedAt, TimeOf, Granul, Settled, Old
  <2> QED
    BY <1>2, <2>2, <2>3, <2>4 DEF Times
<1> QED
  BY <1>1, <1>2 DEF Types

LEMMA PassStep == IInv /\ Pass => IInv'
<1> SUFFICES ASSUME IInv, Pass PROVE IInv'
  OBVIOUS
<1>1. Types'
  BY Lengths DEF IInv, Types, Pass
<1>2. Times'
  BY TimesStay DEF IInv, Types, Pass
<1>3. Counts'
  BY DEF IInv, Counts, Pass
<1> QED
  BY <1>1, <1>2, <1>3 DEF IInv

LEMMA ChangeStep == IInv /\ Change => IInv'
<1> SUFFICES ASSUME IInv, Change PROVE IInv'
  OBVIOUS
<1>1. Types'
  BY DEF IInv, Types, Change
<1>2. Times'
  BY TimesStay DEF IInv, Types, Change
<1>3. Counts'
  BY DEF IInv, Counts, Change
<1> QED
  BY <1>1, <1>2, <1>3 DEF IInv

LEMMA ListStep == IInv /\ List => IInv'
<1> SUFFICES ASSUME IInv, List PROVE IInv'
  OBVIOUS
<1> USE DEF IInv
<1>1. Types'
  BY DEF Types, List
<1>2. Counts'
  BY DEF Counts, List
<1>3. Times'
  <2>1. PICK e \in Entries, layout \in Layouts : spf' = parse_row(Row(e, layout, mtime))
    BY DEF List
  <2>2. spf' # None => spf'.time = TimeOf(mtime, now) /\ spf'.tgranul = Granul(mtime, now)
    <3>1. ParsedTime(mtime) = TimeOf(mtime, now) /\ ParsedGranul(mtime) = Granul(mtime, now)
      BY Parsed DEF Types
    <3> QED
      BY <2>1, <3>1, RowParsed
  <2>3. PICK k \in Nat : k = now
    BY DEF Types
  <2>4. k \in YearLen .. now' /\ shown' = mtime /\ shown' \in 0 .. k /\ pc' = "listed"
    BY <2>3, Lengths DEF Types, List
  <2>5. TimeOf(mtime, now) = TimeOf(shown, k)' /\ Granul(mtime, now) = Granul(shown, k)'
    BY <2>3, <2>4 DEF List, TimeOf, Granul, Settled, Old
  <2>6. ListedAt(k)'
    BY <2>2, <2>4, <2>5 DEF ListedAt
  <2>7. LocalBy(k)
    BY <2>3 DEF List, Times
  <2>8. LocalBy(k)'
    BY <2>7, LocalStays DEF List
  <2> QED
    BY <2>4, <2>6, <2>8 DEF Times
<1> QED
  BY <1>1, <1>2, <1>3

\* a row is done with and the local file stays
LEMMA NextRowStep ==
  ASSUME IInv, pc = "listed", NextRow,
         UNCHANGED <<now, skew, full, mtime, changes, local, got, fetches>>
  PROVE  IInv'
<1> USE DEF IInv
<1>1. Types'
  BY DEF Types, NextRow
<1>2. Counts'
  BY DEF Counts, NextRow
<1>3. Times'
  <2>1. PICK k \in YearLen .. now : ListedAt(k) /\ LocalBy(k)
    BY DEF Times
  <2>2. PICK j \in Nat : j = now
    BY DEF Types
  <2>3. k \in Nat /\ k <= j
    BY <2>2, Lengths
  <2>4. LocalBy(j)'
    BY <2>1, <2>3, LocalStays
  <2>5. (LocalBy(now))'
    BY <2>2, <2>4 DEF LocalBy
  <2> QED
    BY <2>5 DEF Times, NextRow
<1> QED
  BY <1>1, <1>2, <1>3

(* A file is fetched again for the same remote file only if its listing    *)
(* was mistaken the first time and is not now.                             *)
LEMMA FetchStep == IInv /\ Fetch => IInv'
<1> SUFFICES ASSUME IInv, Fetch PROVE IInv'
  OBVIOUS
<1> USE DEF IInv
<1>1. Types'
  BY DEF Types, Fetch, NextRow
<1>2. PICK k \in YearLen .. now : ListedAt(k) /\ LocalBy(k)
  BY DEF Times, Fetch
<1>3. k \in Nat /\ shown \in 0 .. k /\ spf.time = TimeOf(shown, k) /\ spf.tgranul = Granul(shown, k)
  BY <1>2, Lengths DEF ListedAt, Fetch
<1>4. fetches >= 1 => /\ fetches = 1 /\ shown = mtime /\ Settled(shown, k)
                      /\ skew < 0 /\ ~full
  <2> SUFFICES ASSUME fetches >= 1
               PROVE  fetches = 1 /\ shown = mtime /\ Settled(shown, k) /\ skew < 0 /\ ~full
    OBVIOUS
  <2>1. local # None /\ got = mtime /\ shown = mtime /\ fetches \in Nat /\ fetches <= 2
    BY DEF Counts, Fetch, Types
  <2>2. PICK n \in YearLen .. k : /\ got \in 0 .. n
                                  /\ local = TimeOf(got, n)
                                  /\ fetches = 2 => Settled(got, n)
    BY <1>2, <2>1 DEF LocalBy
  <2>3. n \in Nat /\ n <= k
    BY <1>3, Lengths
  <2>4. ~SameTime(spf, local)
    BY <2>1 DEF Fetch, LooksCurrent
  <2>5. ~Settled(shown, n) /\ Settled(shown, k)
    BY <1>3, <2>1, <2>2, <2>3, <2>4, SameListing
  <2>6. ~(skew >= 0) /\ ~full
    BY <2>1, <2>2, <2>3, <2>5, SettledAhead
  <2>7. skew \in Int
    BY SkewAssumption DEF Types
  <2> QED
    BY <2>1, <2>2, <2>5, <2>6, <2>7
<1>5. Times'
  <2>1. k \in YearLen .. now' /\ got' = shown /\ got' \in 0 .. k /\ pc' = "idle"
    BY <1>3 DEF Fetch, NextRow
  <2>2. local' = TimeOf(got, k)' /\ Settled(got, k)' = Settled(shown, k)
    BY <1>3 DEF Fetch, TimeOf, Settled, Old
  <2>3. fetches' = 2 => Settled(shown, k)
    BY <1>4 DEF Fetch, Types
  <2>4. (LocalBy(now))'
    BY <2>1, <2>2, <2>3 DEF LocalBy
  <2> QED
    BY <2>1, <2>4 DEF Times
<1>6. Counts'
  <2>1. spf.time \in Int
    <3>1. TimeOf(shown, k) \in Int
      <4>1. shown \in Int /\ tm(shown).tick \in 0 .. DayLen - 1 /\ tm(shown).tick = shown % DayLen
        BY <1>3, TimeParts
      <4> QED
        BY <4>1, Lengths DEF TimeOf
    <3> QED
      BY <1>3, <3>1
  <2>2. local' # None
    BY <2>1, NoneAssumption DEF Fetch
  <2>3. fetches' >= 1 => got' = mtime'
    BY <1>4 DEF Fetch, Types
  <2>4. fetches' <= 2 /\ (fetches' = 2 => skew' < 0 /\ ~full')
    BY <1>4 DEF Fetch, Types
  <2> QED
    BY <2>2, <2>3, <2>4 DEF Counts, Fetch, NextRow
<1> QED
  BY <1>1, <1>5, <1>6

LEMMA StepInv == IInv /\ [Next]_vars => IInv'
<1> SUFFICES ASSUME IInv, [Next]_vars PROVE IInv'
  OBVIOUS
<1>1. CASE Pass
  BY <1>1, PassStep
<1>2. CASE Change
  BY <1>2, ChangeStep
<1>3. CASE List
  BY <1>3, ListStep
<1>4. CASE LeaveOut
  BY <1>4, NextRowStep DEF LeaveOut
<1>5. CASE Fetch
  BY <1>5, FetchStep
<1>6. CASE Keep
  BY <1>6, NextRowStep DEF Keep
<1>7. CASE UNCHANGED vars
  <2>1. Types' /\ Counts'
    BY <1>7 DEF IInv, Types, Counts, vars
  <2>2. Times'
    BY <1>7, TimesStay DEF IInv, Types, vars
  <2> QED
    BY <2>1, <2>2 DEF IInv
<1> QED
  BY <1>1, <1>2, <1>3, <1>4, <1>5, <1>6, <1>7 DEF Next

LEMMA Invariance == Spec => []IInv
<1>1. Init => IInv
  BY InitInv
<1>2. IInv /\ [Next]_vars => IInv'
  BY StepInv
<1> QED
  BY <1>1, <1>2, PTL DEF Spec

-----------------------------------------------------------------------------
(* The theorems                                                            *)

(* A file that does not change is fetched once, and a second time only     *)
(* with a clock that is behind and a server that leaves out the year.      *)
THEOREM FetchesOnce == Spec => []FetchedOnce
<1>1. IInv => FetchedOnce
  BY DEF IInv, Types, Counts, FetchedOnce
<1> QED
  BY <1>1, Invariance, PTL

(* A local file is taken for current only if it was fetched at a remote    *)
(* time as close as the listings tell, or, by a clock that is behind, a    *)
(* year from that.                                                         *)
THEOREM SeesChange == Spec => []ChangeSeen
<1>1. IInv => ChangeSeen
  <2> SUFFICES ASSUME IInv, pc = "listed", spf # None, LooksCurrent
               PROVE  LET off == shown - got
                          near == spf.tgranul + DayLen - 1
                      IN \/ off \in -near .. near
                         \/ skew < 0 /\ ~full /\ \E y \in {-YearLen, YearLen} : off - y \in -near .. near
    BY DEF ChangeSeen
  <2>1. PICK k \in YearLen .. now : ListedAt(k) /\ LocalBy(k)
    BY DEF IInv, Times
  <2>2. k \in Nat /\ shown \in 0 .. k /\ spf.time = TimeOf(shown, k) /\ spf.tgranul = Granul(shown, k)
    BY <2>1, Lengths DEF ListedAt
  <2>3. PICK n \in YearLen .. k : got \in 0 .. n /\ local = TimeOf(got, n)
    BY <2>1 DEF LocalBy, LooksCurrent
  <2>4. n \in Nat
    BY Lengths, <2>2
  <2>5. SameTime(spf, local)
    BY DEF LooksCurrent
  <2>6. PICK f \in Int, l \in Int, g \in Nat, a \in 0 .. DayLen - 1, b \in 0 .. DayLen - 1 :
          /\ f = spf.time /\ l = local /\ g = spf.tgranul
          /\ shown = f + a + (IF Settled(shown, k) THEN 0 ELSE YearLen)
          /\ got = l + b + (IF Settled(got, n) THEN 0 ELSE YearLen)
    <3>1. shown \in Int /\ shown % DayLen \in 0 .. DayLen - 1 /\ got \in Int /\ got % DayLen \in 0 .. DayLen - 1
      <4>1. shown \in Int /\ tm(shown).tick \in 0 .. DayLen - 1 /\ tm(shown).tick = shown % DayLen
        BY <2>2, TimeParts
      <4>2. got \in Int /\ tm(got).tick \in 0 .. DayLen - 1 /\ tm(got).tick = got % DayLen
        BY <2>3, TimeParts
      <4> QED
        BY <4>1, <4>2
    <3>2. /\ TimeOf(shown, k) \in Int
          /\ \E a \in 0 .. DayLen - 1 :
               shown = TimeOf(shown, k) + a + (IF Settled(shown, k) THEN 0 ELSE YearLen)
      BY <3>1, Lengths DEF TimeOf
    <3>3. /\ TimeOf(got, n) \in Int
          /\ \E b \in 0 .. DayLen - 1 :
               got = TimeOf(got, n) + b + (IF Settled(got, n) THEN 0 ELSE YearLen)
      BY <3>1, Lengths DEF TimeOf
    <3>4. Granul(shown, k) \in Nat
      BY Lengths DEF Granul
    <3> QED
      BY <2>2, <2>3, <3>2, <3>3, <3>4
  <2>7. f - g <= l /\ f + g >= l
    BY <2>5, <2>6 DEF SameTime
  <2>8. DayLen \in Nat \ {0} /\ YearLen \in Nat
    BY Lengths
  <2>9. f + a - (l + b) \in -(g + DayLen - 1) .. (g + DayLen - 1)
    BY <2>7, <2>8
  <2>10. CASE Settled(shown, k) <=> Settled(got, n)
    <3>1. shown - got = f + a - (l + b)
      BY <2>6, <2>8, <2>10
    <3> QED
      BY <2>6, <2>9, <3>1
  <2>11. CASE ~(Settled(shown, k) <=> Settled(got, n))
    <3>1. skew \in Int /\ ~(skew >= 0) /\ ~full
      BY <2>2, <2>3, <2>4, <2>11, SettledAhead, SkewAssumption DEF IInv, Types
    <3>2. \E y \in {-YearLen, YearLen} : shown - got - y = f + a - (l + b)
      BY <2>6, <2>8, <2>11
    <3> QED
      BY <2>6, <2>9, <3>1, <3>2
  <2> QED
    BY <2>10, <2>11
<1> QED
  BY <1>1, Invariance, PTL

\* the row in hand is the row of the entry
Understood ==
  pc = "listed" => entry \in Entries /\ RowUnderstood

(* parse_row finds what there is in a row: the type, the permissions, the  *)
(* size and the link of each entry, in every layout.                       *)
THEOREM UnderstandsRows == Spec => []RowUnderstood
<1>1. Init => Understood
  BY DEF Init, Understood
<1>2. IInv /\ Understood /\ [Next]_vars => Understood'
  <2> SUFFICES ASSUME IInv, Understood, [Next]_vars PROVE Understood'
    OBVIOUS
  <2>1. CASE List
    <3>1. PICK e \in Entries, layout \in Layouts :
            entry' = e /\ spf' = parse_row(Row(e, layout, mtime))
      BY <2>1 DEF List
    <3>2. e.type \in {"-", "d", "l"} => spf' # None
      BY <3>1, ParsedIsFile DEF IInv
    <3>3. spf' = IF e.type \notin {"-", "d", "l"} THEN None
                 ELSE [type |-> e.type, mode |-> e.mode, star |-> FALSE, size |-> e.size,
                       link |-> e.link, time |-> ParsedTime(mtime),
                       tgranul |-> ParsedGranul(mtime)]
      BY <3>1, RowParsed
    <3> QED
      BY <3>1, <3>2, <3>3 DEF Understood, RowUnderstood
  <2>2. CASE Pass \/ Change \/ UNCHANGED vars
    BY <2>2 DEF Pass, Change, vars, Understood, RowUnderstood
  <2>3. CASE LeaveOut \/ Fetch \/ Keep
    BY <2>3 DEF LeaveOut, Fetch, Keep, NextRow, Understood
  <2> QED
    BY <2>1, <2>2, <2>3 DEF Next
<1>3. Understood => RowUnderstood
  BY DEF Understood, RowUnderstood
<1> QED
  BY <1>1, <1>2, <1>3, Invariance, PTL DEF Spec
=============================================================================
