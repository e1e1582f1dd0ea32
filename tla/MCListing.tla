----------------------------- MODULE MCListing -----------------------------
(***************************************************************************)
(* What becomes of a listing: its rows over the years (module ListRow),    *)
(* the filter for one of its entries (LinkFilter), or the containers that  *)
(* hold what is left (Containers); "which" says what a behaviour is about. *)
(*                                                                         *)
(* A year has three months of two days with two listed times each.  The    *)
(* entries have every letter of a mode at every place.                     *)
(***************************************************************************)
EXTENDS ListRow, LinkFilter, Containers

MCEntries ==
  {Entry("-", {"RUSR", "WUSR", "RGRP", "ROTH"}, FALSE, 3, None),
   Entry("-", {"XUSR", "SUID", "WGRP", "XGRP", "SGID", "XOTH", "SVTX"}, TRUE, 0, None),
   Entry("d", {"XUSR", "SGID", "XGRP", "SVTX", "WOTH"}, FALSE, 2, None),
   Entry("l", {"SUID", "XGRP", "SGID", "XOTH"}, FALSE, 1, "target"),
   Entry("l", {"SUID", "SGID", "SVTX"}, FALSE, 1, "target"),
   Entry("p", {"RUSR"}, FALSE, 0, None)}

MCSkews == {-1, 0, 1}

MCDirs == {<<".">>, <<".", "sub">>}

\* b, sub/b, ./b, ../b, sub/../b, sub//b, sub///b, /b, /../b, /sub/../b, //b, /., //
MCLinks ==
  {<<"b">>, <<"sub", "b">>, <<".", "b">>, <<"..", "b">>, <<"sub", "..", "b">>,
   <<"sub", "", "b">>, <<"sub", "", "", "b">>, <<"", "b">>, <<"", "..", "b">>,
   <<"", "sub", "..", "b">>, <<"", "", "b">>, <<"", ".">>, <<"", "", "">>}

MCFileEntries ==
  [type : {"-", "d", "u"}, name : {"a"}, link : {<< >>}]
    \cup [type : {"l"}, name : {"a"}, link : MCLinks]

MCPaths ==
  {<<"", "a">>, <<"", "b">>, <<"", "sub", "a">>, <<"", "sub", "b">>,
   <<".", "b">>, <<".", "sub", "b">>, <<"?">>}

\* what a behaviour that is not about rows, or about the filter, begins with
NoRow ==
  /\ now = YearLen /\ skew = 0 /\ full = FALSE /\ mtime = 0 /\ changes = 0
  /\ entry = None /\ spf = None /\ local = None /\ pc = "idle"
  /\ shown = None /\ got = None /\ fetches = 0

NoFilter ==
  /\ cur = <<".">> /\ skip = {} /\ treat = [name |-> {}, dest |-> {}]
  /\ ent = NoEntry /\ type = "-" /\ kept = FALSE /\ fpc = "read"

MCInit ==
  /\ ContainersInit
  /\ \/ which = "row" /\ Init /\ NoFilter
     \/ which = "filter" /\ FInit /\ NoRow
     \/ which \in containers /\ NoRow /\ NoFilter

MCNext ==
  /\ UNCHANGED which
  /\ \/ which = "row" /\ Next /\ UNCHANGED <<fvars, contVars>>
     \/ which = "filter" /\ FNext /\ UNCHANGED <<vars, contVars>>
     \/ which \in containers /\ ContainersNext /\ UNCHANGED <<vars, fvars>>

MCSpec == MCInit /\ [][MCNext]_<<vars, fvars, contVars, which>>
=============================================================================
