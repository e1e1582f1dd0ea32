------------------------------ MODULE Options ------------------------------
(***************************************************************************)
(* How spegla learns what to do: the loop of main in spegla.c over the     *)
(* options that tgetopt.c finds on the command line and, as soon as a      *)
(* "configfile" option is met, in that file, of which one section counts;  *)
(* then the check for what is missing and the defaults.                    *)
(*                                                                         *)
(* A word of the command line is an option in its long or its short form   *)
(* or plain text; a row of the file is a section header, if there is one,  *)
(* and the tokens behind it.  Splitting a row into tokens, with its quotes *)
(* and escapes, is not modelled.  No option of the table with a short form *)
(* is without argument, so a word never holds two short options.           *)
(***************************************************************************)
EXTENDS Integers, Sequences, SequencesExt, FiniteSetsExt

CONSTANTS
  Lines,     \* the command lines to look at: sequences of words
  Files,     \* the contents of the configuration file: sequences of rows
  Number,    \* what strtol makes of the arguments that are numbers
  Urls,      \* the parts of the arguments that are ftp URLs
  Percent,   \* the names with a %s in them
  IntMax,    \* INT_MAX
  Environ,   \* what the environment has for TEMPDIR, if it has anything
  None       \* a parameter that is not set, an argument that is not there

\* the defaults fit into an int
ASSUME IntAssumption == IntMax \in Nat /\ IntMax >= 150

\* what can be written
Text == STRING

NumOpts == {"retries", "retrytime", "timeout", "port", "minfree", "maxdelete",
            "loglevel"}
YesNoOpts == {"passive", "showconf", "dodelete", "warnoverrides"}
StrOpts == {"localdir", "remotedir", "username", "password", "host", "logfile",
            "lockfile", "mirroruser", "tempdir"}
ListOpts == {"skip", "treatasdir", "treatasdirdest"}
UrlOpts == {"password", "username", "port", "host", "remotedir"}

\* the parameters that hold one value
Params == NumOpts \cup YesNoOpts \cup StrOpts \cup {"family", "version", "section"}

\* the table go[] and its column go_want_arg
go == Params \cup ListOpts \cup {"configfile", "help", "url"}
NO_ARG == {"help"}
OPT_ARG == {"version"}
REQ_ARG == go \ (NO_ARG \cup OPT_ARG)

ASSUME NoneAssumption ==
  None \notin Int \cup Text \cup go \cup {".", "unspec", "inet", "inet6"}

Empty == ""

VARIABLES
  line,      \* argv without the name of the program
  argind,    \* gos_argv: how many words have been taken
  optind,    \* gos_optind: inside a word of the short form
  file,      \* what the configuration file holds, None before it is opened
  row,       \* number of rows read from it
  pos,       \* gos_pos: tokens taken of the current row, -1 for "new row"
  in_sect,   \* gos_in_sect
  path,      \* gos_path: the section asked for when the file was opened
  option,    \* the option and the argument tgetopt has found last
  arg,
  param,     \* the struct param of main
  lists,     \* the two queues param.skip and param.treatasdir
  nowarn,    \* nowarn
  fileread,  \* read_from_file
  fp,        \* the configuration file is open
  pc,        \* where the program is
  warned     \* history: parameters that a warning of an override named

reader == <<line, argind, optind, file, row, pos, in_sect, path>>
found == <<option, arg>>
settings == <<param, lists, nowarn, fileread, warned>>
vars == <<reader, found, settings, fp, pc>>

Init ==
  /\ line \in Lines
  /\ argind = 0
  /\ optind = 0
  /\ file = None
  /\ row = 0
  /\ pos = -1
  /\ in_sect = FALSE
  /\ path = Empty
  /\ option = None
  /\ arg = None
  /\ \E t \in {None, Environ} :        \* getenv("TEMPDIR")
       param = [[o \in Params |-> None] EXCEPT !["tempdir"] = t]
  /\ lists = [skip |-> <<>>, treatasdir |-> <<>>]
  /\ nowarn = FALSE
  /\ fileread = FALSE
  /\ fp = FALSE
  /\ pc = IF line = <<>> THEN "exit1" ELSE "argv"
  /\ warned = {}

\* tgetopt has found option o with argument a
Found(o, a) == option' = o /\ arg' = a /\ pc' = "set"

\* e_errx and its like: the program ends before it has mirrored anything
Exit(status) == pc' = status

-----------------------------------------------------------------------------
(* The command line                                                        *)

Long(o, a) == [form |-> "long", opt |-> o, arg |-> a]
Short(o, a) == [form |-> "short", opt |-> o, arg |-> a]
Plain(a) == [form |-> "plain", opt |-> None, arg |-> a]
Mark == [form |-> "mark", opt |-> None, arg |-> None]

Words ==
  [form : {"long", "short"}, opt : Text, arg : Text \cup {None}]
    \cup [form : {"plain"}, opt : {None}, arg : Text] \cup {Mark}

ASSUME LinesAssumption == \A l \in Lines : l \in Seq(Words)

\* get_opt_argv outside a short option: the next word
NextWord ==
  /\ pc = "argv" /\ optind = 0 /\ argind < Len(line)
  /\ argind' = argind + 1
  /\ LET w == line[argind + 1] IN
       \/ /\ w.form = "short"
          /\ optind' = 1
          /\ UNCHANGED <<pc, found>>
       \/ /\ w.form = "long"
          /\ w.opt \in (IF w.arg = None THEN NO_ARG ELSE REQ_ARG) \cup OPT_ARG
          /\ Found(w.opt, w.arg)
          /\ UNCHANGED optind
       \/ /\ w.form = "long"
          /\ w.opt \notin (IF w.arg = None THEN NO_ARG ELSE REQ_ARG) \cup OPT_ARG
          /\ Exit("exit1")
          /\ UNCHANGED <<found, optind>>
       \/ /\ w.form \in {"plain", "mark"}     \* not an option, or "--"
          /\ Exit("exit1")
          /\ UNCHANGED <<found, optind>>
  /\ UNCHANGED <<line, file, row, pos, in_sect, path, settings, fp>>

\* get_opt_argv inside a short option: what follows in the word is its
\* argument, or else the next word if that does not begin with a dash
ShortOption ==
  /\ pc = "argv" /\ optind # 0
  /\ LET w == line[argind]
         plain == argind < Len(line) /\ line[argind + 1].form = "plain"
     IN \/ /\ w.opt \in go /\ w.arg # None
           /\ Found(w.opt, w.arg)
           /\ optind' = 0
           /\ UNCHANGED argind
        \/ /\ w.opt \in go /\ w.arg = None /\ plain
           /\ argind' = argind + 1
           /\ Found(w.opt, line[argind + 1].arg)
           /\ optind' = 0
        \/ /\ w.opt \in OPT_ARG /\ w.arg = None /\ ~plain
           /\ Found(w.opt, None)
           /\ optind' = 0
           /\ UNCHANGED argind
        \/ /\ \/ w.opt \notin go
              \/ w.opt \in REQ_ARG /\ w.arg = None /\ ~plain
           /\ Exit("exit1")
           /\ UNCHANGED <<found, argind, optind>>
  /\ UNCHANGED <<line, file, row, pos, in_sect, path, settings, fp>>

\* GOS_END_OF_OPTIONS on the command line: the loop of main is left
EndOfLine ==
  /\ pc = "argv" /\ optind = 0 /\ argind = Len(line)
  /\ pc' = "read"
  /\ UNCHANGED <<reader, found, settings, fp>>

-----------------------------------------------------------------------------
(* The configuration file                                                  *)

Delim == "="
Comment == "#"
BadHeader == "["

\* a row with the header of section h, or None
Row(h, tokens) == [head |-> h, tokens |-> tokens]

ASSUME FilesAssumption ==
  /\ \A f \in Files : f \in Seq([head : Text \cup {None}, tokens : Seq(Text)])
  /\ None \notin Files

\* The tokens in front of a comment.  Every token is tested for being one
\* before it is used.
Body(r) ==
  LET c == {i \in DOMAIN r.tokens : r.tokens[i] = Comment}
  IN IF c = {} THEN r.tokens ELSE SubSeq(r.tokens, 1, Min(c) - 1)

\* fault: a section is never left again
InSection_Stays(r) ==
  IF r.head = None THEN in_sect ELSE in_sect \/ r.head = path

\* is a row of the file, with header or without, in the section
InSection(r) == IF r.head = None THEN in_sect ELSE r.head = path

\* GOS_END_OF_OPTIONS in the file: back to the command line.  A read error
\* ends the program.
EndOfFile ==
  /\ pc = "file" /\ pos < 0 /\ row = Len(file)
  /\ fp' = FALSE
  /\ pc' = "argv"
  /\ UNCHANGED <<reader, found, settings>>

ReadError ==
  /\ pc = "file" /\ pos < 0
  /\ Exit("exit1")
  /\ UNCHANGED <<reader, found, settings, fp>>

\* get_opt_file with a new row: find the option and its first argument
NewRow ==
  /\ pc = "file" /\ pos < 0 /\ row < Len(file)
  /\ row' = row + 1
  /\ LET r == file[row + 1]
         b == Body(r)
         o == b[1]
         use == r.head # BadHeader /\ InSection(r) /\ b # <<>>
         missing == Len(b) < 3 /\ (Len(b) = 2 => b[2] = Delim)
     IN /\ in_sect' = IF r.head = BadHeader THEN in_sect ELSE InSection(r)
        /\ \/ /\ ~use /\ r.head # BadHeader   \* another section, or blank
              /\ UNCHANGED <<pos, found, pc>>
           \/ /\ use /\ o \in go \ REQ_ARG /\ missing
              /\ Found(o, None)
              /\ UNCHANGED pos
           \/ /\ use /\ o \in go \ NO_ARG /\ Len(b) > 2 /\ b[2] = Delim
              /\ pos' = 3
              /\ Found(o, b[3])
           \/ /\ \/ r.head = BadHeader
                 \/ use /\ (o \notin go \/ (Len(b) > 1 /\ b[2] # Delim))
                 \/ use /\ o \in REQ_ARG /\ missing
                 \/ use /\ o \in NO_ARG /\ ~missing
              /\ Exit("exit1")
              /\ UNCHANGED <<pos, found>>
  /\ UNCHANGED <<line, argind, optind, file, path, settings, fp>>

\* fault: only the first argument of a row counts
SameRow_First ==
  /\ pc = "file" /\ pos >= 0
  /\ pos' = -1
  /\ UNCHANGED <<line, argind, optind, file, row, in_sect, path, found, settings, fp, pc>>

\* get_opt_file in the middle of a row: every further token, a comma or a
\* delimiter among them, is one more argument of the same option
SameRow ==
  /\ pc = "file" /\ pos >= 0
  /\ LET b == Body(file[row]) IN
       \/ /\ pos < Len(b)
          /\ pos' = pos + 1
          /\ Found(option, b[pos + 1])
       \/ /\ pos = Len(b)
          /\ pos' = -1
          /\ UNCHANGED <<found, pc>>
  /\ UNCHANGED <<line, argind, optind, file, row, in_sect, path, settings, fp>>

-----------------------------------------------------------------------------
(* The switch of main over the option found                                *)

\* (int) of a long
ToInt(n) == ((n + IntMax + 1) % (2 * (IntMax + 1))) - (IntMax + 1)

YesNo == [a \in {Empty, "yes", "no"} |-> IF a = "no" THEN 0 ELSE 1]
Family == [a \in {Empty, "unspec", "inet", "inet6"} |-> IF a = Empty THEN "unspec" ELSE a]

\* fault: the lower limit is forgotten
Accepts_Negative(o, a) ==
  /\ o \in NumOpts => a \in DOMAIN Number
  /\ o \in YesNoOpts => a \in DOMAIN YesNo
  /\ o = "family" => a \in DOMAIN Family

\* is a an argument that option o accepts, and the value it then has
Accepts(o, a) ==
  /\ o \in NumOpts => a \in DOMAIN Number /\ ToInt(Number[a]) >= 0
  /\ o \in YesNoOpts => a \in DOMAIN YesNo
  /\ o = "family" => a \in DOMAIN Family

Value(o, a) ==
  IF o \in NumOpts THEN ToInt(Number[a])
  ELSE IF o \in YesNoOpts THEN YesNo[a]
  ELSE IF o = "family" THEN Family[a]
  ELSE a

ASSUME ArgsAssumption ==
  /\ \A a \in DOMAIN Number : Number[a] \in Int
  /\ \A u \in DOMAIN Urls : Urls[u] \in [UrlOpts -> Text \cup {None}]

\* the parameters that a URL sets and their arguments, all different
UrlParts(u) == [o \in {p \in UrlOpts : Urls[u][p] # None} |-> Urls[u][o]]

\* main goes on with the source it was reading from
Continue == pc' = IF fp THEN "file" ELSE "argv"

\* fault: a setting is taken for an override if it changes the value
Assign_Changes(old, given) ==
  /\ param' = [o \in Params |-> IF o \in DOMAIN given THEN Value(o, given[o]) ELSE old[o]]
  /\ warned' = IF nowarn THEN warned
               ELSE warned \cup {o \in DOMAIN given : old[o] \notin {None, Value(o, given[o])}}

\* set_param_str, _num, _yes_no, _family: the last setting counts, and a
\* warning names the parameter unless warnings are off
Assign(old, given) ==
  /\ param' = [o \in Params |-> IF o \in DOMAIN given THEN Value(o, given[o]) ELSE old[o]]
  /\ warned' = IF nowarn THEN warned
               ELSE warned \cup {o \in DOMAIN given : old[o] # None}

\* option o alone
One(o, a) == [p \in {o} |-> a]

SetParam ==
  /\ pc = "set" /\ option \in Params \ {"version", "section"}
  /\ IF Accepts(option, arg)
       THEN /\ Assign(param, One(option, arg))
            /\ nowarn' = IF option = "warnoverrides" THEN Value(option, arg) = 0
                         ELSE nowarn
            /\ Continue
       ELSE Exit("exit1") /\ UNCHANGED <<param, warned, nowarn>>
  /\ UNCHANGED <<reader, found, lists, fileread, fp>>

\* set_param_str frees what "tempdir" held before, which belongs to the
\* environment and not to the heap: the library may stop the program
FreeEnviron ==
  /\ pc = "set" /\ option = "tempdir" /\ param["tempdir"] = Environ
  /\ Exit("crash")
  /\ UNCHANGED <<reader, found, settings, fp>>

\* add_param_sps and add_param_spt, both with cl_push at the head of the
\* queue; regcomp may refuse the expression
AddParam ==
  /\ pc = "set" /\ option \in ListOpts
  /\ \/ /\ option = "skip"
        /\ lists' = [lists EXCEPT !.skip = <<arg>> \o @]
        /\ Continue
     \/ /\ option # "skip"
        /\ LET spt == [name |-> arg, deref |-> option = "treatasdirdest"]
           IN lists' = [lists EXCEPT !.treatasdir = <<spt>> \o @]
        /\ Continue
     \/ Exit("exit1") /\ UNCHANGED lists
  /\ UNCHANGED <<reader, found, param, nowarn, fileread, warned, fp>>

\* usage
Help ==
  /\ pc = "set" /\ option = "help"
  /\ Exit("exit1")
  /\ UNCHANGED <<reader, found, settings, fp>>

\* set_param_url, and the default for localdir that comes with it
SetUrl ==
  /\ pc = "set" /\ option = "url"
  /\ IF /\ arg \in DOMAIN Urls
        /\ \A o \in DOMAIN UrlParts(arg) : Accepts(o, UrlParts(arg)[o])
       THEN /\ Assign([param EXCEPT !["localdir"] = IF @ = None THEN "." ELSE @],
                      UrlParts(arg))
            /\ Continue
       ELSE Exit("exit1") /\ UNCHANGED <<param, warned>>
  /\ UNCHANGED <<reader, found, lists, nowarn, fileread, fp>>

\* without an argument the option prints the version and ends the program
SetVersion ==
  /\ pc = "set" /\ option = "version"
  /\ \/ /\ arg = None
        /\ Exit("exit0")
        /\ UNCHANGED <<param, warned>>
     \/ /\ arg # None
        /\ Assign(param, One(option, arg))
        /\ IF arg \in {"1.1", "SPEGLA_VERSION"} THEN Continue ELSE Exit("exit1")
  /\ UNCHANGED <<reader, found, lists, nowarn, fileread, fp>>

SetSection ==
  /\ pc = "set" /\ option = "section"
  /\ IF fp THEN Exit("exit1") /\ UNCHANGED <<param, warned>>
     ELSE /\ Assign(param, One(option, arg))
          /\ Continue
  /\ UNCHANGED <<reader, found, lists, nowarn, fileread, fp>>

\* reading starts at the first row, which is in the section if none is given
tgetopt_file_init(section) ==
  /\ row' = 0
  /\ pos' = -1
  /\ path' = IF section = None THEN Empty ELSE section
  /\ in_sect' = (section \in {None, Empty})

\* Switch to the configuration file at once.  It is read for the section
\* that has been given so far.
OpenFile ==
  /\ pc = "set" /\ option = "configfile"
  /\ fileread' = TRUE
  /\ \/ /\ ~fp
        /\ fp' = TRUE
        /\ file' \in IF file = None THEN Files ELSE {file}
        /\ tgetopt_file_init(param["section"])
        /\ pc' = "file"
     \/ /\ Exit("exit1")        \* in a file, or one that cannot be opened
        /\ UNCHANGED <<fp, file, row, pos, path, in_sect>>
  /\ UNCHANGED <<line, argind, optind, found, param, lists, nowarn, warned>>

-----------------------------------------------------------------------------
(* What is missing, and the defaults                                       *)

Required == {"host", "localdir", "remotedir"}
              \cup (IF fileread THEN {"version"} ELSE {})

Default(o) ==
  CASE o = "username" -> "anonymous"   [] o = "password" -> "anonpass"
    [] o = "section" -> Empty          [] o = "version" -> "not defined"
    [] o = "tempdir" -> "/tmp"         [] o \in {"timeout", "retrytime", "maxdelete"} -> 150
    [] o = "retries" -> 20             [] o = "port" -> 21
    [] o = "family" -> "unspec"        [] o \in {"passive", "showconf", "warnoverrides"} -> 1
    [] o \in {"dodelete", "loglevel", "minfree"} -> 0
    [] OTHER -> None

\* expand_with_str
Expand(name, section) ==
  [name |-> name, sect |-> IF name \in Percent THEN section ELSE None]

Configure ==
  /\ pc = "read"
  /\ IF \E o \in Required : param[o] = None
       THEN Exit("exit1") /\ UNCHANGED param
       ELSE LET d == [o \in Params |-> IF param[o] = None THEN Default(o)
                                       ELSE param[o]]
            IN /\ param' = [o \in Params |->
                              IF o \in {"logfile", "lockfile"}
                                THEN Expand(d[o], d["section"]) ELSE d[o]]
               /\ pc' = "configured"
  /\ UNCHANGED <<reader, found, lists, nowarn, fileread, warned, fp>>

Ended == {"exit0", "exit1", "crash", "configured"}

Stopped == pc \in Ended /\ UNCHANGED vars

Next ==
  \/ NextWord \/ ShortOption \/ EndOfLine
  \/ EndOfFile \/ ReadError \/ NewRow \/ SameRow
  \/ SetParam \/ FreeEnviron \/ AddParam \/ Help \/ SetUrl \/ SetVersion
  \/ SetSection \/ OpenFile
  \/ Configure \/ Stopped

Spec == Init /\ [][Next]_vars

-----------------------------------------------------------------------------
(* What the user has written, by the rules of the manual page              *)

\* Command line: from left to right; a plain word belongs to the short
\* option in front of it.
WordArg(i) ==
  IF line[i].form = "short" /\ line[i].arg = None /\ i < Len(line)
    THEN line[i + 1].arg ELSE line[i].arg

OptionsAt(I, o) == {i \in I : line[i].opt = o}

\* the section that is in force at word i
SectionAt(i) ==
  LET I == OptionsAt(1 .. i, "section") IN IF I = {} THEN Empty ELSE WordArg(Max(I))

(* The section row i of the file is in: that of the last header before it. *)
(* Rows in front of all headers have the same name as those after "[]".    *)
RowSection(i) ==
  LET H == {j \in 1 .. i : file[j].head # None}
  IN IF H = {} THEN Empty ELSE file[Max(H)].head

\* what row i sets
RowSettings(i) ==
  LET b == Body(file[i])
  IN IF Len(b) < 3 THEN <<>>
     ELSE [j \in 1 .. Len(b) - 2 |-> [opt |-> b[1], arg |-> b[j + 2]]]

SectionSettings(section) ==
  FlattenSeq([i \in 1 .. Len(file) |->
                IF RowSection(i) = section THEN RowSettings(i) ELSE <<>>])

(* "If not specified the [] section will be read or in a file where no []  *)
(* is found, the whole file."                                              *)
WholeFile(section) == section = Empty /\ \A i \in 1 .. Len(file) : file[i].head # Empty

FileSettings(section) ==
  IF WholeFile(section) THEN FlattenSeq([i \in 1 .. Len(file) |-> RowSettings(i)])
                        ELSE SectionSettings(section)

WordSettings(i) ==
  IF line[i].form = "plain" THEN <<>>
  ELSE IF line[i].opt = "configfile" THEN FileSettings(SectionAt(i))
  ELSE <<[opt |-> line[i].opt, arg |-> WordArg(i)]>>

\* all settings of the line and the file
Written == FlattenSeq([i \in 1 .. Len(line) |-> WordSettings(i)])

(* The whole of a file that has sections, none of them "[]", is asked for: *)
(* there tgetopt reads the rows in front of the first header only.         *)
Curtailed ==
  \E i \in DOMAIN line :
    /\ line[i].form # "plain" /\ line[i].opt = "configfile"
    /\ WholeFile(SectionAt(i))
    /\ \E j \in 1 .. Len(file) : file[j].head # None

\* the parameters that a setting gives, and their arguments
Gives(s) == IF s.opt = "url" THEN UrlParts(s.arg) ELSE One(s.opt, s.arg)

\* the places of S where parameter o is set; a URL also gives a localdir
Places(S, o) == {i \in DOMAIN S : o \in DOMAIN Gives(S[i])}
Times(S, o) ==
  Places(S, o) \cup {i \in DOMAIN S : o = "localdir" /\ S[i].opt = "url"}

(* After the settings S: every parameter has the last value given for it,  *)
HoldsLast(S) ==
  \A o \in Params :
    LET given == Places(S, o)
    IN \/ given # {} /\ param[o] = Value(o, Gives(S[Max(given)])[o])
       \/ given = {} /\ Times(S, o) # {} /\ param[o] = "."
       \/ Times(S, o) = {} /\ param[o] = None
       \/ Times(S, o) = {} /\ o = "tempdir" /\ param[o] = Environ

(* the lists have the expressions, the last one first,                     *)
Skips(S) ==
  FlattenSeq([i \in 1 .. Len(S) |-> IF S[i].opt = "skip" THEN <<S[i].arg>> ELSE <<>>])

Treats(S) ==
  FlattenSeq([i \in 1 .. Len(S) |->
                IF S[i].opt \in {"treatasdir", "treatasdirdest"}
                  THEN <<[name |-> S[i].arg, deref |-> S[i].opt = "treatasdirdest"]>>
                  ELSE <<>>])

HoldsAll(S) == lists.skip = Reverse(Skips(S)) /\ lists.treatasdir = Reverse(Treats(S))

(* and the warnings are those that the settings of warnoverrides in front  *)
(* of each place have left on.                                             *)
Loud(S, j) ==
  LET W == {i \in Places(S, "warnoverrides") : i < j}
  IN W = {} \/ Value("warnoverrides", S[Max(W)].arg) = 1

HoldsWarned(S) ==
  \A o \in Params \ {"tempdir"} :
    o \in warned <=>
      \E j \in Places(S, o) : Loud(S, j) /\ \E i \in Times(S, o) : i < j

\* everything has been read and nothing was refused
Read == pc = "read"

-----------------------------------------------------------------------------
(* Properties                                                              *)

\* The parameters have values of their kinds, the reader is somewhere in its
\* word and row, and a file is open only while it is read.
TypeOK ==
  /\ line \in Lines /\ argind \in 0 .. Len(line) /\ optind \in 0 .. 1
  /\ file \in Files \cup {None}
  /\ row \in 0 .. (IF file = None THEN 0 ELSE Len(file))
  /\ pos \in -1 .. (IF row = 0 THEN -1 ELSE Len(Body(file[row])))
  /\ in_sect \in BOOLEAN /\ nowarn \in BOOLEAN /\ fileread \in BOOLEAN
  /\ option \in go \cup {None}
  /\ \A o \in NumOpts : param[o] # None => param[o] \in 0 .. IntMax
  /\ \A o \in YesNoOpts : param[o] # None => param[o] \in 0 .. 1
  /\ warned \subseteq Params
  /\ pc \in {"argv", "file", "set", "read"} \cup Ended
  /\ fp \in BOOLEAN /\ (pc = "file" => fp) /\ (pc \in {"argv", "read"} => ~fp)

(* "Options on the command line is read from left to right the last option *)
(* of a certain type overrides a previous", with the section in force at   *)
(* "configfile" read in its place: what main has in param once tgetopt has *)
(* come to the end is the last value that was written for each parameter,  *)
(* unless a file without "[]" has been read without a section.             *)
LastWins == Read /\ ~Curtailed => HoldsLast(Written)

(* add_param_sps and add_param_spt lose none of the expressions of any     *)
(* source, and keep apart the ones that are meant for what a link points   *)
(* to, with the same exception.                                            *)
AllCollected == Read /\ ~Curtailed => HoldsAll(Written)

(* A value is replaced without a warning only where the last               *)
(* "warnoverrides" before it, in whichever source, said no; and no warning *)
(* is made up.  The same exception.                                        *)
WarnsOverrides == Read /\ ~Curtailed => HoldsWarned(Written)

(* What the manual page says of "section", without an exception: when no   *)
(* section is given, and the file has no "[]", all of it is read.          *)
WholeFileRead == Read => HoldsLast(Written)
=============================================================================
