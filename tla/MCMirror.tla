------------------------------ MODULE MCMirror ------------------------------
(***************************************************************************)
(* The two halves of a mirror run: the merge of two trees (module SyncDir),*)
(* where a download just succeeds or fails, and the steps of the download  *)
(* of one file over several runs (Download), where the merge is one        *)
(* comparison; "which" says what a behaviour is about.                     *)
(***************************************************************************)
EXTENDS MCSyncDir, Download

VARIABLE which

\* what a behaviour that is not about trees, or about the file, begins with
NoTrees ==
  /\ local \in LocalTrees /\ remote = local /\ \A p \in Paths : local[p] = None
  /\ cur_dir = << >> /\ stack = << >> /\ deletes = 0 /\ pc = "done"
  /\ param = P(TRUE, 0, FALSE)

NoDownload == GetInit /\ file = NoFile /\ ~dodelete

MCInit ==
  \/ which = "trees" /\ Init /\ NoDownload
  \/ which = "file" /\ NoTrees /\ GetInit

MCNext ==
  /\ UNCHANGED which
  /\ \/ which = "trees" /\ Next /\ UNCHANGED getVars
     \/ which = "file" /\ GetNext /\ UNCHANGED vars

MCSpec == MCInit /\ [][MCNext]_<<vars, getVars, which>>

MCFairSpec ==
  /\ MCSpec
  /\ WF_vars(which = "trees" /\ Next)
  /\ WF_getVars(which = "file" /\ Program)
=============================================================================
