------------------------------ MODULE ListRow ------------------------------
(***************************************************************************)
(* A row of a directory listing and what spegla makes of it over the       *)
(* years: parse_row and parse_file_mode of parserow.c, spf_time_cmp of     *)
(* spf_util.c and the decision of sp_sync_dir to fetch a plain file.       *)
(*                                                                         *)
(* Most listings give the time of a recent file to the minute but without  *)
(* its year, and of an old file the day and the year.  The year that is    *)
(* not there is guessed from the local clock, which need not agree with    *)
(* the server's, if only for their time zones.  Time is counted in ticks,  *)
(* the precision of a listing, on a calendar of any size.  Fetching a file *)
(* always succeeds here: module Download has the rest of it.               *)
(***************************************************************************)
EXTENDS Integers, Sequences

CONSTANTS
  Months, Days, Ticks,  \* months of a year, days of a month, ticks of a day
  Years,                \* bound: the clock stops after so many years
  MaxChanges,           \* bound: how often the remote file is replaced
  Skews,                \* by how much the local clock may be ahead
  Entries,              \* what there may be in the directory
  Layouts,              \* the forms of a row to look at
  None

ASSUME CalendarAssumption ==
  /\ Months \in Nat \ {0} /\ Days \in Nat \ {0} /\ Ticks \in Nat \ {0}
  /\ Years \in Nat \ {0} /\ MaxChanges \in Nat

VARIABLES
  now,      \* the server's clock
  skew,     \* the local clock is at now + skew
  full,     \* the server shows times with seconds and year
  mtime,    \* when the remote file was last changed
  changes,  \* number of its changes
  entry,    \* what the listing is about, None between listings
  spf,      \* the struct sp_file made from its row
  local,    \* modification time of the local file, None if there is none
  pc,
  shown,    \* history: mtime when the listing was made
  got,      \* history: shown, when the local file was fetched
  fetches   \* history: how often the file was fetched since it changed

vars == <<now, skew, full, mtime, changes, entry, spf, local, pc, shown, got, fetches>>

-----------------------------------------------------------------------------
(* The calendar: localtime and mktime                                      *)

DayLen == Ticks
MonthLen == Days * DayLen
YearLen == Months * MonthLen

tm(t) == [year |-> t \div YearLen, mon |-> (t % YearLen) \div MonthLen,
          mday |-> (t % MonthLen) \div DayLen, tick |-> t % DayLen]

mktime(y, m, d, t) == y * YearLen + m * MonthLen + d * DayLen + t

(* The local clock is less than a year behind, and so little ahead that    *)
(* the oldest file that is shown without its year is not older by it than  *)
(* a year less a month.                                                    *)
ASSUME SkewAssumption ==
  \A s \in Skews : /\ s \in Int /\ s > -YearLen
                   /\ s + (YearLen \div 2 - 1) <= YearLen - MonthLen

-----------------------------------------------------------------------------
(* The server's side: how a file is shown                                  *)

Mode == {"RUSR", "WUSR", "XUSR", "SUID", "RGRP", "WGRP", "XGRP", "SGID",
         "ROTH", "WOTH", "XOTH", "SVTX"}

\* an entry of the directory; a link has a target, and the name may end in *
Entry(type, mode, star, size, link) ==
  [type |-> type, mode |-> mode, star |-> star, size |-> size, link |-> link]

ASSUME EntriesAssumption ==
  /\ \A e \in Entries : /\ e = Entry(e.type, e.mode, e.star, e.size, e.link)
                        /\ e.mode \subseteq Mode
  /\ Layouts \subseteq {"group", "ids", "nogroup", "nolinks"}

\* struct sp_file
SpFile == [type : {"-", "d", "l"}, mode : SUBSET Mode, star : {FALSE},
           size : {e.size : e \in Entries}, link : {e.link : e \in Entries},
           time : Int, tgranul : Int]

ASSUME NoneAssumption == None \notin Int /\ None \notin SpFile

Letter(mode, bit, ch) == IF bit \in mode THEN ch ELSE "-"

\* the place of an x, with one more bit s that is shown in the same place
ExecLetter(mode, bit, s, both, alone) ==
  IF s \in mode THEN (IF bit \in mode THEN both ELSE alone)
  ELSE Letter(mode, bit, "x")

ModeString(e) ==
  <<e.type,
    Letter(e.mode, "RUSR", "r"), Letter(e.mode, "WUSR", "w"),
    ExecLetter(e.mode, "XUSR", "SUID", "s", "S"),
    Letter(e.mode, "RGRP", "r"), Letter(e.mode, "WGRP", "w"),
    ExecLetter(e.mode, "XGRP", "SGID", "s", "S"),
    Letter(e.mode, "ROTH", "r"), Letter(e.mode, "WOTH", "w"),
    ExecLetter(e.mode, "XOTH", "SVTX", "t", "T")>>

Word(w) == [num |-> FALSE, val |-> w]
Num(n) == [num |-> TRUE, val |-> n]

\* the fields between the mode and the month; owners may be numbers
Owner(layout) ==
  CASE layout = "group" -> <<Num(1), Word("user"), Word("group")>>
    [] layout = "ids" -> <<Num(1), Num(100), Num(101)>>
    [] layout = "nogroup" -> <<Num(1), Word("user")>>
    [] layout = "nolinks" -> <<Word("user"), Word("group")>>

Recent(t) == t <= now /\ now - t < YearLen \div 2

ListedTime(t) ==
  [year |-> IF full \/ ~Recent(t) THEN tm(t).year ELSE None,
   tick |-> IF full \/ Recent(t) THEN tm(t).tick ELSE None]

Row(e, layout, t) ==
  [mode |-> ModeString(e),
   fields |-> Owner(layout) \o <<Num(e.size), Word(tm(t).mon), Num(tm(t).mday)>>,
   time |-> ListedTime(t), star |-> e.star, link |-> e.link]

-----------------------------------------------------------------------------
(* The client's side                                                       *)

\* parse_file_mode: the letters accepted in each place, with their bits
Plain(ch, bit) == [c \in {ch, "-"} |-> IF c = ch THEN {bit} ELSE {}]

Exec(both, alone, bit, s) ==
  [c \in {"x", both, alone, "-"} |->
     (IF c \in {"x", both} THEN {bit} ELSE {}) \cup
     (IF c \in {both, alone} THEN {s} ELSE {})]

ModeTable ==
  <<Plain("r", "RUSR"), Plain("w", "WUSR"), Exec("s", "S", "XUSR", "SUID"),
    Plain("r", "RGRP"), Plain("w", "WGRP"), Exec("s", "S", "XGRP", "SGID"),
    Plain("r", "ROTH"), Plain("w", "WOTH"), Exec("t", "T", "XOTH", "SVTX")>>

ModeAccepted(m) ==
  m[1] \in {"-", "d", "l"} /\ \A i \in 1 .. 9 : m[i + 1] \in DOMAIN ModeTable[i]

parse_file_mode(m) == UNION {ModeTable[i][m[i + 1]] : i \in 1 .. 9}

\* fault: the third field is the size whenever it is a number
SizeField_Third(f) == IF f[3].num THEN 3 ELSE 4

\* The size is the fourth field if that is a number, else the third; the
\* month follows.
SizeField(f) == IF f[4].num THEN 4 ELSE 3

\* fault: the current year
GuessedYear_This(mon) == tm(now + skew).year

\* the year of a time that is shown without one, by the local clock
GuessedYear(mon) ==
  LET here == tm(now + skew)
  IN IF here.mon < mon THEN here.year - 1 ELSE here.year

\* parse_row; None for a row that it does not understand
parse_row(row) ==
  LET f == row.fields
      s == SizeField(f)
      mon == f[s + 1].val
      mday == f[s + 2].val
  IN IF ~ModeAccepted(row.mode) \/ ~f[s].num \/ f[s + 1].num THEN None
     ELSE [type |-> row.mode[1],
           mode |-> parse_file_mode(row.mode),
           star |-> FALSE,             \* a last * is cut off from any name
           size |-> f[s].val,
           link |-> row.link,
           time |-> mktime(IF row.time.year = None THEN GuessedYear(mon)
                           ELSE row.time.year,
                           mon, mday,
                           IF row.time.tick = None THEN 0 ELSE row.time.tick),
           tgranul |-> IF row.time.year = None THEN 1
                       ELSE IF row.time.tick = None THEN DayLen ELSE 0]

\* fault: a file is fetched only when it is newer
SameTime_NotNewer(f, t) == f.time - f.tgranul <= t

\* spf_time_cmp of a listed file with a local one, whose tgranul is 0
SameTime(f, t) == f.time - f.tgranul <= t /\ f.time + f.tgranul >= t

-----------------------------------------------------------------------------
Init ==
  /\ now = YearLen
  /\ skew \in Skews
  /\ full \in BOOLEAN
  /\ mtime \in 0 .. YearLen
  /\ changes = 0
  /\ entry = None
  /\ spf = None
  /\ local = None
  /\ pc = "idle"
  /\ shown = None
  /\ got = None
  /\ fetches = 0

Pass ==
  /\ now < Years * YearLen
  /\ now' = now + 1
  /\ UNCHANGED <<skew, full, mtime, changes, entry, spf, local, pc, shown, got, fetches>>

\* the file is replaced, by one that may be older
Change ==
  /\ changes < MaxChanges
  /\ changes' = changes + 1
  /\ mtime' \in (0 .. now) \ {mtime}
  /\ fetches' = 0
  /\ UNCHANGED <<now, skew, full, entry, spf, local, pc, shown, got>>

\* build_remote_dir: a row is read and parsed
List ==
  /\ pc = "idle"
  /\ \E e \in Entries, layout \in Layouts :
       /\ entry' = e
       /\ spf' = parse_row(Row(e, layout, mtime))
  /\ shown' = mtime
  /\ pc' = "listed"
  /\ UNCHANGED <<now, skew, full, mtime, changes, local, got, fetches>>

NextRow == pc' = "idle" /\ entry' = None /\ spf' = None /\ shown' = None

\* A row that is not understood is left out; directories and links are the
\* business of module SyncDir.
LeaveOut ==
  /\ pc = "listed"
  /\ spf # None => spf.type # "-"
  /\ NextRow
  /\ UNCHANGED <<now, skew, full, mtime, changes, local, got, fetches>>

LooksCurrent == local # None /\ SameTime(spf, local)

\* sp_sync_dir fetches the file, and spf_new_time gives it the listed time
Fetch ==
  /\ pc = "listed" /\ spf # None /\ spf.type = "-" /\ ~LooksCurrent
  /\ local' = spf.time
  /\ got' = shown
  /\ fetches' = IF shown = mtime THEN fetches + 1 ELSE fetches
  /\ NextRow
  /\ UNCHANGED <<now, skew, full, mtime, changes>>

\* or leaves it as it is
Keep ==
  /\ pc = "listed" /\ spf # None /\ spf.type = "-" /\ LooksCurrent
  /\ NextRow
  /\ UNCHANGED <<now, skew, full, mtime, changes, local, got, fetches>>

Next == Pass \/ Change \/ List \/ LeaveOut \/ Fetch \/ Keep

Spec == Init /\ [][Next]_vars

-----------------------------------------------------------------------------
(* Properties                                                              *)

\* parse_row finds the type, the permissions, the size and the target of
\* every file, directory and link, whether or not a row has a link count, a
\* group, or numbers for its owners, and takes nothing else for a file.
RowUnderstood ==
  pc = "listed" =>
    IF entry.type \in {"-", "d", "l"}
      THEN /\ spf # None
           /\ spf.type = entry.type /\ spf.mode = entry.mode
           /\ spf.size = entry.size /\ spf.link = entry.link
      ELSE spf = None

\* A file that does not change is fetched once, although its listing turns
\* from a time without year into a day, and the year is guessed again at
\* each; once more only if the local clock is behind and the file was first
\* seen in a month that had not begun here.  A server that shows the whole
\* time does not depend on the clock.
FetchedOnce == fetches <= IF skew < 0 /\ ~full THEN 2 ELSE 1

\* spf_time_cmp does not overlook a file that was replaced by an older or a
\* newer one two days apart or more, except, with a clock that is behind and
\* a year guessed wrong, one of the same day of another year.
ChangeSeen ==
  pc = "listed" /\ spf # None /\ LooksCurrent =>
    LET off == shown - got
        near == spf.tgranul + DayLen - 1
    IN \/ off \in -near .. near
       \/ skew < 0 /\ ~full /\ \E y \in {-YearLen, YearLen} : off - y \in -near .. near
=============================================================================
