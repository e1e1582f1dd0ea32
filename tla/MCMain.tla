------------------------------- MODULE MCMain -------------------------------
(***************************************************************************)
(* What main does before and after it mirrors: it reads the options        *)
(* (module Options), or several processes take and release the lock file   *)
(* (LockFile); "which" says what a behaviour is about.                     *)
(*                                                                         *)
(* Command lines of up to three words of a small vocabulary, and the line  *)
(* of spegla.sh, which reads one file twice for two sections; files of up  *)
(* to three rows.  Three processes.                                        *)
(***************************************************************************)
EXTENDS Options, LockFile

CONSTANTS MaxWords, MaxRows, p1, p2, p3

VARIABLE which

MCWords ==
  {Short("section", "a"), Long("section", ""), Long("configfile", "conf"),
   Short("host", None), Plain("h1"), Long("url", "u"),
   Long("warnoverrides", "no"), Long("port", "1025")}

\* the words that end the program or that need no company
MCOtherLines ==
  {<<Long("url", "u"), Mark>>, <<Short("version", None)>>, <<Long("version", None)>>, <<Short("version", "0.9")>>,
   <<Short("nonsense", None)>>, <<Long("help", "x")>>, <<Long("help", None)>>,
   <<Long("host", None)>>, <<Long("family", "inet")>>, <<Short("family", "ipx")>>,
   <<Long("maxdelete", ""), Long("maxdelete", "-1")>>, <<Long("url", "http")>>,
   <<Long("url", "u"), Long("url", "w"), Long("remotedir", "d")>>,
   <<Long("localdir", "l"), Long("url", "u"), Long("localdir", "m")>>,
   <<Long("url", "u"), Long("lockfile", "lock/%s"), Short("section", "a")>>,
   <<Long("section", "a"), Long("configfile", "conf"),
     Long("section", "b"), Long("configfile", "conf"), Long("url", "u")>>}

MCLines == BoundedSeq(MCWords, MaxWords) \cup MCOtherLines

MCRows ==
  {Row("a", <<>>), Row("b", <<"port", Delim, "21">>), Row("", <<"host", Delim, "h2">>),
   Row(None, <<"host", Delim, "h3", Comment, "h4">>),
   Row(None, <<"skip", Delim, "x", ",", "y">>),
   Row(None, <<"warnoverrides", Delim, "yes">>),
   Row(None, <<"version", Delim, "1.1">>)}

MCOtherFiles ==
  {<<Row("a", <<>>), Row(None, <<"version", Delim, "1.1">>),
     Row(None, <<"warnoverrides", Delim, "no">>), Row(None, <<"skip", Delim, "x">>),
     Row("b", <<Comment>>), Row(None, <<"host", Delim, "h2">>),
     Row(None, <<"port", Delim, "21">>), Row(None, <<"skip", Delim, "y">>)>>,
   <<Row(None, <<"host", Delim, "h1">>), Row("a", <<>>), Row(None, <<"host", Delim, "h2">>),
     Row("", <<>>), Row(None, <<"port", Delim, "21">>)>>,
   <<Row(None, <<"tempdir", Delim, "t">>), Row(None, <<"tempdir", Delim, "t2">>)>>,
   <<Row(None, <<"treatasdir", Delim, "x">>), Row(None, <<"treatasdirdest", Delim, "y">>)>>,
   <<Row(BadHeader, <<>>)>>, <<Row(None, <<"nonsense">>)>>, <<Row(None, <<"host", "h2">>)>>,
   <<Row(None, <<"host", Delim>>)>>, <<Row(None, <<"version">>)>>,
   <<Row(None, <<"section", Delim, "b">>)>>, <<Row(None, <<"configfile", Delim, "c">>)>>,
   <<Row(None, <<"help", Delim, "x">>)>>}

MCFiles == BoundedSeq(MCRows, MaxRows) \cup MCOtherFiles

MCNumber == ("" :> 0) @@ ("1025" :> 1025) @@ ("-1" :> -1) @@ ("21" :> 21)

MCUrls ==
  ("u" :> [password |-> "p", username |-> "n", port |-> None, host |-> "h1",
           remotedir |-> "/r"]) @@
  ("w" :> [password |-> None, username |-> None, port |-> "21", host |-> "h2",
           remotedir |-> None])

MCPercent == {"lock/%s"}

MCProcs == {p1, p2, p3}

-----------------------------------------------------------------------------
\* the processes at the lock have no use for a command line
MCInit ==
  \/ which = "options" /\ Init /\ LockInit
  \/ which = "lock" /\ Init /\ line = <<>> /\ param["tempdir"] = None /\ LockInit

MCNext ==
  /\ UNCHANGED which
  /\ \/ which = "options" /\ Next /\ UNCHANGED lockVars
     \/ which = "lock" /\ LockNext /\ UNCHANGED vars

MCSpec == MCInit /\ [][MCNext]_<<vars, lockVars, which>>

MCFairSpec ==
  MCSpec /\ \A p \in Procs : WF_lockVars(which = "lock" /\ Work(p))
=============================================================================
