----------------------------- MODULE LinkFilter -----------------------------
(***************************************************************************)
(* What build_remote_dir and build_local_dir do with an entry before they  *)
(* keep it: a link may be treated as a directory, and what matches a skip  *)
(* expression is left out.  Both look at the name of the entry and at the  *)
(* path that spf_symlink_resolve makes of a link.                          *)
(*                                                                         *)
(* A path is the sequence of what its slashes separate: "./sub/b" is       *)
(* <<".", "sub", "b">>, "/b" is <<"", "b">>.  An expression, and a list of *)
(* them, is the set of the paths that regexec matches.  Paths are shorter  *)
(* than PATH_MAX.                                                          *)
(***************************************************************************)
EXTENDS Integers, Sequences, FiniteSets, SequencesExt

CONSTANTS
  Dirs,         \* the directories to look at
  FileEntries,  \* what there may be in them: a type ("-", "d", "l", or "u" for
                \* anything else), a name and the path in a link
  Paths,        \* the paths an expression may match
  MaxExprs,     \* bound: expressions given by each of the three options
  NoEntry

(* cur_dir starts with the dot of the root of the mirror; names and links  *)
(* are strings between slashes.                                            *)
ASSUME NamesAssumption ==
  /\ \A d \in Dirs : d \in Seq(STRING) /\ d # << >> /\ d[1] = "."
  /\ \A e \in FileEntries : e.name \in STRING /\ e.link \in Seq(STRING)

VARIABLES
  cur,    \* cur_dir
  skip,   \* what the skip expressions match
  treat,  \* what treatasdir and treatasdirdest match
  ent,    \* the entry as it was read
  type,   \* spf_type, which may change
  kept,   \* the entry was pushed on the heap
  fpc

fvars == <<cur, skip, treat, ent, type, kept, fpc>>

\* what is between two slashes, or before the first
EmptyName == ""

\* spf_full_name2
FullName == Append(cur, ent.name)

-----------------------------------------------------------------------------
(* spf_symlink_resolve.  Its buffer holds a sequence of names, each of     *)
(* which is followed by a slash.                                           *)

\* cd_up: the search for the last slash stops at the one at the end
Up(buf) ==
  LET b == IF buf = <<".", "..">> THEN <<"..">> ELSE buf
  IN IF b = << >> THEN <<"..">>
     ELSE IF b[1] = ".." THEN Append(b, "..")
     ELSE b

\* fault: only an empty name stays where it is
symlink_cd_Dot(piece, buf) ==
  CASE piece = <<EmptyName>> -> buf
    [] piece = <<"..">> -> Up(buf)
    [] piece = <<EmptyName, EmptyName>> -> Append(buf, EmptyName)
    [] OTHER -> buf \o piece

symlink_cd(piece, buf) ==
  CASE piece \in {<<EmptyName>>, <<".">>} -> buf
    [] piece = <<"..">> -> Up(buf)
    [] piece = <<EmptyName, EmptyName>> -> Append(buf, EmptyName)
    [] OTHER -> buf \o piece

(* The loop over the link, with what it has come to behind the k-th name.  *)
(* The character behind a slash is not looked at, so a second slash there  *)
(* becomes part of the name that follows.                                  *)
LoopStep(st, link, k) ==
  IF st.slash THEN [buf |-> symlink_cd(<<EmptyName, link[k]>>, st.buf), slash |-> FALSE]
  ELSE IF k > 1 /\ link[k] = EmptyName THEN [buf |-> st.buf, slash |-> TRUE]
  ELSE [buf |-> symlink_cd(<<link[k]>>, st.buf), slash |-> FALSE]

Loop(start, link) ==
  LET at[k \in 0 .. Len(link)] ==
        IF k = 0 THEN [buf |-> start, slash |-> FALSE]
        ELSE LoopStep(at[k - 1], link, k)
  IN at

\* the last slash is taken off
spf_symlink_resolve(link) ==
  LET start == IF Len(link) > 1 /\ link[1] = EmptyName THEN << >> ELSE cur
      all == Loop(start, link)[Len(link)].buf
  IN IF all = << >> THEN <<EmptyName>> ELSE all

(* p++, meant to take the dot off "./": the paths that p may point to then.*)
(* Behind the end of an empty path there is anything; "?" is a name        *)
(* without its first character.                                            *)
WithoutFirst(path) ==
  CASE path = <<EmptyName>> -> Paths
    [] path # <<EmptyName>> /\ path[1] = EmptyName -> {Tail(path)}
    [] path[1] = "." -> {<<EmptyName>> \o Tail(path)}
    [] path[1] = ".." -> {<<".">> \o Tail(path)}
    [] OTHER -> {<<"?">> \o Tail(path)}

-----------------------------------------------------------------------------
(* The decisions                                                           *)

\* sps_match, spt_match
Matches(exprs, path) == path \in exprs

\* spf_is_a_treatasdir: what it may return
spf_is_a_treatasdir ==
  IF ent.type # "l" THEN {FALSE}
  ELSE {Matches(treat.name, p) \/ Matches(treat.dest, q) :
          p \in WithoutFirst(FullName), q \in WithoutFirst(spf_symlink_resolve(ent.link))}

\* fault: with the dot in front of the name
spf_is_a_skip_Dot ==
  \/ Matches(skip, FullName)
  \/ type = "l" /\ Matches(skip, spf_symlink_resolve(ent.link))

\* the path of a link is compared with the dot in front
spf_is_a_skip ==
  \/ \E p \in WithoutFirst(FullName) : Matches(skip, p)
  \/ type = "l" /\ Matches(skip, spf_symlink_resolve(ent.link))

FInit ==
  /\ cur \in Dirs
  /\ skip = {} /\ treat = [name |-> {}, dest |-> {}]
  /\ ent = NoEntry /\ type = "-" /\ kept = FALSE /\ fpc = "config"

-----------------------------------------------------------------------------
(* The options: sps_init and spt_init compile an expression                *)

AddSkip ==
  /\ fpc = "config" /\ Cardinality(skip) < MaxExprs
  /\ \E p \in Paths : skip' = skip \cup {p}
  /\ UNCHANGED <<cur, treat, ent, type, kept, fpc>>

\* spt_deref is set by treatasdirdest
AddTreat ==
  /\ fpc = "config"
  /\ \E p \in Paths, kind \in {"name", "dest"} :
       /\ Cardinality(treat[kind]) < MaxExprs
       /\ treat' = [treat EXCEPT ![kind] = @ \cup {p}]
  /\ UNCHANGED <<cur, skip, ent, type, kept, fpc>>

\* regcomp fails; the program ends before it touches a file
BadExpression ==
  /\ fpc = "config"
  /\ fpc' = "exit"
  /\ UNCHANGED <<cur, skip, treat, ent, type, kept>>

EndOfOptions ==
  /\ fpc = "config"
  /\ fpc' = "read"
  /\ UNCHANGED <<cur, skip, treat, ent, type, kept>>

-----------------------------------------------------------------------------
(* The loops of build_remote_dir and build_local_dir                       *)

Got(e) == ent' = e /\ type' = e.type /\ fpc' = "treat"

LeftOut == ent' = NoEntry /\ type' = "-" /\ fpc' = "read"

\* parse_row knows three types; a row it does not understand is left out
ReadRow ==
  /\ fpc = "read"
  /\ \E e \in FileEntries : IF e.type # "u" THEN Got(e) ELSE LeftOut
  /\ kept' = FALSE
  /\ UNCHANGED <<cur, skip, treat>>

\* spf_stat_init: lstat or readlink may fail
ReadLocal ==
  /\ fpc = "read"
  /\ (\E e \in FileEntries : Got(e)) \/ LeftOut
  /\ kept' = FALSE
  /\ UNCHANGED <<cur, skip, treat>>

\* before skip
TreatAsDir ==
  /\ fpc = "treat"
  /\ \E yes \in spf_is_a_treatasdir : type' = IF yes THEN "d" ELSE type
  /\ fpc' = "skip"
  /\ UNCHANGED <<cur, skip, treat, ent, kept>>

PushUnlessSkipped ==
  /\ fpc = "skip"
  /\ kept' = ~spf_is_a_skip
  /\ fpc' = "read"
  /\ UNCHANGED <<cur, skip, treat, ent, type>>

FExited == fpc = "exit" /\ UNCHANGED fvars

FNext ==
  \/ AddSkip \/ AddTreat \/ BadExpression \/ EndOfOptions \/ FExited
  \/ ReadRow \/ ReadLocal \/ TreatAsDir \/ PushUnlessSkipped

FSpec == FInit /\ [][FNext]_fvars

-----------------------------------------------------------------------------
(* Properties                                                              *)

Rooted(path) == <<EmptyName>> \o Tail(path)

\* A link that stays below its directory, written without double slashes.
Downward == \A i \in DOMAIN ent.link : ent.link[i] \notin {EmptyName, ".."}

\* where it leads to: its names but for the dots
WithoutDots(link) ==
  LET names[k \in 0 .. Len(link)] ==
        IF k = 0 THEN << >>
        ELSE IF link[k] = "." THEN names[k - 1] ELSE Append(names[k - 1], link[k])
  IN names

Target == cur \o WithoutDots(ent.link)[Len(ent.link)]

(* A link becomes a directory exactly if its name matches treatasdir or,   *)
(* for one that leads downward, the path it leads to from the root of the  *)
(* mirror matches treatasdirdest; nothing else changes its type.           *)
TreatedAsDocumented ==
  fpc = "skip" =>
    IF ent.type # "l" THEN type = ent.type
    ELSE /\ Rooted(FullName) \in treat.name => type = "d"
         /\ Downward =>
              (type = "d" <=> Rooted(FullName) \in treat.name \/ Rooted(Target) \in treat.dest)

(* An entry whose name matches skip is not kept, not even as a directory   *)
(* that it was turned into before; and nothing is left out but what        *)
(* matches, or leads to what matches, in one of two ways of writing it.    *)
NothingElseSkipped ==
  fpc = "read" /\ ent # NoEntry =>
    /\ Rooted(FullName) \in skip => ~kept
    /\ Rooted(FullName) \notin skip /\ type # "l" => kept
    /\ Rooted(FullName) \notin skip /\ type = "l" /\ Downward
         /\ {Target, Rooted(Target)} \cap skip = {} => kept
=============================================================================
