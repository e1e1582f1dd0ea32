------------------------------- MODULE SyncDir -------------------------------
(***************************************************************************)
(* sp_sync_dir of spegla.c: the recursive merge of the sorted local and    *)
(* remote listings of a directory, with build_local_dir, build_remote_dir, *)
(* sp_get_file and the file operations of spf_util.c it uses (spf_rm with  *)
(* rm_f and rm_rf, spf_mkdir, spf_chmod, spf_symlink, cur_dir_cd,          *)
(* cur_dir_cdup).                                                          *)
(*                                                                         *)
(* A tree is a function from paths (sequences of names, ordered like the   *)
(* names strcmp compares) to entries.  The "sig" of a file stands for its  *)
(* time and size, that of a link for its target, that of a directory for   *)
(* its time.  The heaps of sp_file are the listings still to be merged;    *)
(* popping takes the least name.  How a download or a listing fails is     *)
(* modelled in Download and FtpSession; here it just may.                  *)
(***************************************************************************)
EXTENDS Integers, Sequences, FiniteSets, FiniteSetsExt, SequencesExt

CONSTANTS
  Names,         \* file names, a set of numbers
  Depth,         \* how deep the trees are
  LocalTrees,    \* the local trees a run may start from
  RemoteTrees,   \* the remote trees a run may find
  Skip,          \* paths that match the "skip" parameter
  Blank,         \* directories whose listing has no row when they are empty
  PathMax,       \* PATH_MAX, when every name is one character long
  Params         \* the parameters to look at, see Param

(* "dodelete", "maxdelete" (0 for no limit), and whether operations on     *)
(* files and listings may fail.                                            *)
Param == [dodelete : BOOLEAN, maxdelete : Nat, faults : BOOLEAN]

ASSUME ParamsAssumption ==
  /\ Names \subseteq Nat /\ IsFiniteSet(Names)
  /\ Depth \in Nat /\ PathMax \in Nat
  /\ Params \subseteq Param

VARIABLES
  local,    \* the local tree
  remote,   \* the remote tree
  cur_dir,  \* the global cur_dir
  stack,    \* the active calls of sp_sync_dir, innermost last
  deletes,  \* sp_deletes
  pc,       \* "sync", "done" or "exit"
  param     \* the parameters of this run, which never change

vars == <<local, remote, cur_dir, stack, deletes, pc, param>>

DoDelete  == param.dodelete
MaxDelete == param.maxdelete
Faults    == param.faults

-----------------------------------------------------------------------------
Paths == UNION { [1 .. k -> Names] : k \in 1 .. Depth }

\* no entry, an unfinished download, a directory that was just made
None    == [type |-> "none", sig |-> 0, mode |-> 0]
Damaged == [type |-> "file", sig |-> 0, mode |-> 0]
OpenDir == [type |-> "dir", sig |-> 0, mode |-> 0]

\* what a path may be; the mode of a link is never looked at
Live    == [type : {"file", "dir"}, sig : Nat, mode : Nat]
             \cup [type : {"link"}, sig : Nat, mode : {0}]
Entries == Live \cup {None}

IsDir(tree, p) == p = << >> \/ (p \in Paths /\ tree[p].type = "dir")

\* a tree as file systems have them: everything lies in directories
WellFormed(tree) ==
  \A p, q \in Paths : IsPrefix(p, q) /\ p # q /\ tree[q] # None => tree[p].type = "dir"

ASSUME TreesAssumption ==
  /\ \A tree \in LocalTrees \cup RemoteTrees : tree \in [Paths -> Entries] /\ WellFormed(tree)
  /\ Skip \subseteq Paths
  /\ Blank \subseteq Paths \cup {<< >>}

\* the paths of p and of everything below it in a tree
Below(tree, p) == { q \in Paths : tree[q] # None /\ IsPrefix(p, q) }

\* fault: skip is not applied to a listing
Listing_All(tree, dir) ==
  LET here == { n \in Names : Append(dir, n) \in Paths /\ tree[Append(dir, n)] # None }
  IN [n \in here |-> tree[Append(dir, n)]]

(* build_local_dir, build_remote_dir: the listing of a directory without   *)
(* what is skipped.                                                        *)
Listing(tree, dir) ==
  LET here == { n \in Names : /\ Append(dir, n) \in Paths \ Skip
                              /\ tree[Append(dir, n)] # None }
  IN [n \in here |-> tree[Append(dir, n)]]

(* The listing of an empty directory has a row only if the server lists    *)
(* "." and "..".  build_remote_dir takes one without rows for a failure,   *)
(* before it looks at what is skipped.                                     *)
ShownBlank(tree, dir) ==
  /\ dir \in Blank
  /\ \A n \in Names : Append(dir, n) \in Paths => tree[Append(dir, n)] = None

\* a call of sp_sync_dir on two listings
Frame(dir) == [at |-> dir, l |-> Listing(local, dir), r |-> Listing(remote, dir),
               dirs |-> << >>, sub |-> << >>]

Init ==
  /\ local \in LocalTrees
  /\ remote \in RemoteTrees
  /\ cur_dir = << >>
  /\ deletes = 0
  /\ param \in Params
  /\ IF ShownBlank(remote, << >>)
     THEN stack = << >> /\ pc = "done"
     ELSE stack = <<Frame(<< >>)>> /\ pc = "sync"

Top == stack[Len(stack)]

\* the innermost call goes on with frame f
GoOn(f) == stack' = [stack EXCEPT ![Len(stack)] = f]

\* fault: the merged name is not popped
Less_Stuck(f, n) == f

\* a listing after the name n has been popped
Less(f, n) == [m \in DOMAIN f \ {n} |-> f[m]]

\* fault: a name without its directory
Here_NoDir(n) == <<n>>

\* full_name: a name in the current directory
Here(n) == Append(cur_dir, n)

-----------------------------------------------------------------------------
(* Lengths: strlen(cur_dir) is 2 for "./" and 2 more per level.            *)

CurLen == 2 + 2 * Len(cur_dir)

\* full_name has room for a name in cur_dir
NameFits == 1 + CurLen <= PathMax - 2

\* cur_dir_cd has room for a name and a slash; else cur_dir stays
CdFits == 1 + CurLen + 1 <= PathMax - 2

-----------------------------------------------------------------------------
(* spf_rm: rm_f or rm_rf                                                   *)

\* the tree without the paths in gone
Without(tree, gone) == [p \in Paths |-> IF p \in gone THEN None ELSE tree[p]]

\* what may be gone when an rm -rf of "all" stops early: leaves go first
PartlyGone(all) ==
  { gone \in SUBSET all : \A p \in gone, q \in all : IsPrefix(p, q) => q \in gone }

\* fault: one file more than maxdelete
Allowed_Late == IF MaxDelete = 0 THEN Cardinality(Paths) + 1 ELSE MaxDelete + 1 - deletes

\* how many more files may be removed
Allowed == IF MaxDelete = 0 THEN Cardinality(Paths) + 1 ELSE MaxDelete - deletes

(* The outcomes of rm_f or rm_rf of a local path: what is gone, and        *)
(* whether it returned 0, -1 or exited at the limit.                       *)
rm_rf(p) ==
  LET all == Below(local, p)
  IN { [gone |-> g, res |-> CASE g = all -> "ok"
                              [] g # all /\ Cardinality(g) = Allowed -> "exit"
                              [] OTHER -> "failed"] :
       g \in { x \in PartlyGone(all) :
                 /\ Cardinality(x) <= Allowed
                 /\ x = all \/ Cardinality(x) = Allowed \/ Faults } }

\* fault: dodelete is not looked at
spf_rm_Always(p) == rm_rf(p)

\* spf_rm: does nothing, successfully, without dodelete
spf_rm(p) == IF DoDelete THEN rm_rf(p) ELSE {[gone |-> {}, res |-> "ok"]}

\* a removal takes effect on a tree that nothing else happens to
Removed(o) ==
  /\ local' = Without(local, o.gone)
  /\ deletes' = deletes + Cardinality(o.gone)
  /\ pc' = IF o.res = "exit" THEN "exit" ELSE pc

-----------------------------------------------------------------------------
(* sp_get_file of a plain file or a link                                   *)

(* get_ftp_file: the outcomes on the tree, with the deletes of the         *)
(* temporary file it counts.  A directory in the way makes the rename      *)
(* fail.  A failed download leaves the file alone, but the unfinished      *)
(* temporary file is renamed over it without dodelete, or when it could    *)
(* not be removed.  When the disk is full the file is emptied and removed  *)
(* first, which is not counted, and may not come back.                     *)
get_ftp_file(tree, p, e) ==
  LET put(x) == IF tree[p].type = "dir" THEN tree ELSE [tree EXCEPT ![p] = x]
      failed == [tree |-> tree, dels |-> IF DoDelete THEN 1 ELSE 0]
      part   == [tree |-> put(Damaged), dels |-> 0]
      lost   == [tree |-> put(None), dels |-> IF DoDelete THEN 1 ELSE 0]
  IN {[tree |-> put(e), dels |-> 0]} \cup IF Faults THEN {failed, part, lost} ELSE {}

\* spf_symlink: fails when the name is taken
spf_symlink(tree, p, e) ==
  {[tree |-> IF tree[p] = None THEN [tree EXCEPT ![p] = e] ELSE tree, dels |-> 0]}
  \cup IF Faults THEN {[tree |-> tree, dels |-> 0]} ELSE {}

\* sp_get_file on the tree; a directory changes only the queue
sp_get_file(tree, p, e) ==
  CASE e.type = "file" -> get_ftp_file(tree, p, e)
    [] e.type = "link" -> spf_symlink(tree, p, e)
    [] e.type = "dir"  -> {[tree |-> tree, dels |-> 0]}

\* fault: a queued directory is never to be created
Queued_NoCreate(n, e, create) ==
  IF e.type = "dir" THEN Append(Top.dirs, [name |-> n, entry |-> e, create |-> FALSE]) ELSE Top.dirs

\* the queue of directories after sp_get_file
Queued(n, e, create) ==
  IF e.type = "dir" THEN Append(Top.dirs, [name |-> n, entry |-> e, create |-> create]) ELSE Top.dirs

(* The deletes after a step that removed "done" files and then "more"      *)
(* temporary ones: at the limit rm_f exits instead of removing.            *)
CountDeletes(done, more) ==
  IF MaxDelete # 0 /\ deletes + done + more > MaxDelete
  THEN deletes' = deletes + done /\ pc' = "exit"
  ELSE deletes' = deletes + done + more /\ pc' = pc

-----------------------------------------------------------------------------
(* The merge loop                                                          *)

Merging == pc = "sync" /\ stack # << >> /\ DOMAIN Top.l \cup DOMAIN Top.r # {}

\* the name the loop looks at: the least one of both listings
Least == Min(DOMAIN Top.l \cup DOMAIN Top.r)

OnlyRemote == Least \notin DOMAIN Top.l
OnlyLocal  == Least \notin DOMAIN Top.r
Both       == ~OnlyRemote /\ ~OnlyLocal

Advance(dirs) == GoOn([Top EXCEPT !.l = Less(Top.l, Least), !.r = Less(Top.r, Least), !.dirs = dirs])

\* no more files locally, or a file is missing locally
MissingLocally ==
  /\ Merging /\ OnlyRemote
  /\ LET e == Top.r[Least]
     IN /\ \E o \in sp_get_file(local, Here(Least), e) : local' = o.tree /\ CountDeletes(0, o.dels)
        /\ Advance(Queued(Least, e, TRUE))
  /\ UNCHANGED <<remote, cur_dir, param>>

\* no more files on the server, or an exceeding local file
ExtraLocally ==
  /\ Merging /\ OnlyLocal
  /\ \E o \in spf_rm(Here(Least)) : Removed(o)
  /\ Advance(Top.dirs)
  /\ UNCHANGED <<remote, cur_dir, param>>

\* differing types: the local file is removed and the remote one fetched
TypesDiffer ==
  /\ Merging /\ Both
  /\ Top.l[Least].type # Top.r[Least].type
  /\ LET e == Top.r[Least]
     IN \E o \in spf_rm(Here(Least)) :
          IF o.res = "exit"
          THEN Removed(o) /\ UNCHANGED stack
          ELSE /\ \E g \in sp_get_file(Without(local, o.gone), Here(Least), e) :
                    /\ local' = g.tree
                    /\ CountDeletes(Cardinality(o.gone), g.dels)
               /\ Advance(Queued(Least, e, TRUE))
  /\ UNCHANGED <<remote, cur_dir, param>>

Same(type) == Merging /\ Both /\ Top.l[Least].type = type /\ Top.r[Least].type = type

\* two directories: queued, and not to be created
SameDir ==
  /\ Same("dir")
  /\ Advance(Queued(Least, Top.r[Least], FALSE))
  /\ UNCHANGED <<local, remote, cur_dir, deletes, pc, param>>

\* two plain files: fetched if time or size differ, else chmod if need be
SameFile ==
  /\ Same("file")
  /\ LET e == Top.r[Least]
     IN IF e.sig # Top.l[Least].sig
        THEN \E o \in get_ftp_file(local, Here(Least), e) : local' = o.tree /\ CountDeletes(0, o.dels)
        ELSE /\ \/ local' = [local EXCEPT ![Here(Least)].mode = e.mode]
                \/ Faults /\ UNCHANGED local
             /\ UNCHANGED <<deletes, pc>>
  /\ Advance(Top.dirs)
  /\ UNCHANGED <<remote, cur_dir, param>>

\* two links: made anew if they point to different places
SameLink ==
  /\ Same("link")
  /\ LET e == Top.r[Least]
     IN IF e.sig = Top.l[Least].sig
        THEN UNCHANGED <<local, deletes, pc>>
        ELSE \E o \in spf_rm(Here(Least)) :
               IF o.res # "ok"
               THEN Removed(o)
               ELSE \E g \in spf_symlink(Without(local, o.gone), Here(Least), e) :
                      /\ local' = g.tree
                      /\ CountDeletes(Cardinality(o.gone), 0)
  /\ Advance(Top.dirs)
  /\ UNCHANGED <<remote, cur_dir, param>>

-----------------------------------------------------------------------------
(* The queue of directories                                                *)

Descending == pc = "sync" /\ stack # << >> /\ DOMAIN Top.l \cup DOMAIN Top.r = {}

(* spf_mkdir then spf_chmod: what the name is afterwards.  A plain file    *)
(* that dodelete did not let go gets the mode of the directory.            *)
MadeDir(p, d) ==
  CASE local[p] = None /\ d.create -> [local EXCEPT ![p] = OpenDir]
    [] local[p].type = "dir"       -> [local EXCEPT ![p] = OpenDir]
    [] local[p].type = "file"      -> [local EXCEPT ![p].mode = OpenDir.mode]
    [] OTHER                       -> local

\* spf_new_time then spf_chmod, the same for such a file
DirAttributes(p, d) ==
  CASE local[p].type = "dir"  -> [local EXCEPT ![p] = d.entry]
    [] local[p].type = "file" -> [local EXCEPT ![p] = [Damaged EXCEPT !.mode = d.entry.mode]]
    [] OTHER                  -> local

(* A directory is left out: skipped after all, too long a name, or mkdir   *)
(* or chmod failed.  mkdir of a name that exists counts as success.        *)
LeaveDirOut ==
  /\ Descending /\ Top.sub = << >> /\ Top.dirs # << >>
  /\ Here(Head(Top.dirs).name) \in Skip \/ ~NameFits \/ Faults
  /\ GoOn([Top EXCEPT !.dirs = Tail(@)])
  /\ UNCHANGED <<local, remote, cur_dir, deletes, pc, param>>

(* One step down: cur_dir_cd, whose result is ignored, then both listings  *)
(* of cur_dir and the recursive call if there are two.  A link in place of *)
(* the directory is followed by chmod and opendir: it is taken to lead to  *)
(* no directory, or out of the trees, where nothing is modelled.           *)
Descend ==
  /\ Descending /\ Top.sub = << >> /\ Top.dirs # << >>
  /\ Here(Head(Top.dirs).name) \notin Skip /\ NameFits
  /\ LET d  == Head(Top.dirs)
         to == IF CdFits THEN Here(d.name) ELSE cur_dir
     IN /\ local' = MadeDir(Here(d.name), d)
        /\ cur_dir' = to
        /\ LET caller == [Top EXCEPT !.dirs = Tail(@), !.sub = <<d>>]
               calls  == [stack EXCEPT ![Len(stack)] = caller]
               callee == [at |-> Here(d.name), l |-> Listing(local', to), r |-> Listing(remote, to),
                          dirs |-> << >>, sub |-> << >>]
               listed == IsDir(local', to) /\ IsDir(remote, to) /\ ~ShownBlank(remote, to)
           IN \/ listed /\ stack' = Append(calls, callee)
              \/ (Faults \/ ~listed) /\ stack' = calls
  /\ UNCHANGED <<remote, deletes, pc, param>>

\* fault: cur_dir_cdup is not called
StepUp_NoCdup ==
  /\ pc = "sync" /\ stack # << >>
  /\ Top.sub # << >>
  /\ GoOn([Top EXCEPT !.sub = << >>])
  /\ UNCHANGED <<local, remote, cur_dir, deletes, pc, param>>

(* One step up: cur_dir_cdup, then time and mode of the directory are set. *)
StepUp ==
  /\ pc = "sync" /\ stack # << >>
  /\ Top.sub # << >>
  /\ cur_dir' = IF cur_dir = << >> THEN << >> ELSE Front(cur_dir)
  /\ local' = DirAttributes(Append(cur_dir', Top.sub[1].name), Top.sub[1])
  /\ GoOn([Top EXCEPT !.sub = << >>])
  /\ UNCHANGED <<remote, deletes, pc, param>>

\* a call returns when its queue is empty; the outermost one ends the run
Return ==
  /\ Descending /\ Top.sub = << >> /\ Top.dirs = << >>
  /\ stack' = Front(stack)
  /\ pc' = IF Len(stack) = 1 THEN "done" ELSE pc
  /\ UNCHANGED <<local, remote, cur_dir, deletes, param>>

\* the program gives up: retries exhausted, no connection, no disk space
Quit ==
  /\ pc = "sync" /\ Faults
  /\ pc' = "exit"
  /\ UNCHANGED <<local, remote, cur_dir, stack, deletes, param>>

Ended == pc # "sync" /\ UNCHANGED vars

Merge == MissingLocally \/ ExtraLocally \/ TypesDiffer \/ SameDir \/ SameFile \/ SameLink

Next == Merge \/ LeaveDirOut \/ Descend \/ StepUp \/ Return \/ Quit \/ Ended

Spec == Init /\ [][Next]_vars

\* the program takes its next step
FairSpec == Spec /\ WF_vars(Next)

-----------------------------------------------------------------------------
(* Properties                                                              *)

\* paths that neither match skip nor lie in a directory that does
Unskipped == { p \in Paths : \A k \in 1 .. Len(p) : SubSeq(p, 1, k) \notin Skip }

\* p is as it has to be after a run in which nothing fails
AsOnServer(p) ==
  DoDelete \/ (remote[p].type = "file" /\ local[p].type = "file") => local[p] = remote[p]

\* the listing of a directory above p, empty on the server, has no row
Overlooked(tree, p) ==
  \E k \in 0 .. Len(p) - 1 :
    IsDir(tree, SubSeq(p, 1, k)) /\ ShownBlank(tree, SubSeq(p, 1, k))

(* A run without failures ends with the remote tree, except for what is    *)
(* skipped and for what is below a directory that is empty on the server   *)
(* and whose listing has no row: sp_sync_dir leaves that one alone, with   *)
(* all that was deleted from it.  "Local files will still be updated even  *)
(* if dodelete is set to no": then the run ends, for every plain file that *)
(* both sides have, with the remote one.                                   *)
Mirrored ==
  pc = "done" /\ ~Faults => \A p \in Unskipped : Overlooked(remote, p) \/ AsOnServer(p)

(* "It makes a complete mirror of a FTP area": without the exception of    *)
(* empty directories.                                                      *)
CompleteMirror == pc = "done" /\ ~Faults => \A p \in Unskipped : AsOnServer(p)

\* p is on both sides with the same type, and so are the directories above
Wanted(p) ==
  \A k \in 1 .. Len(p) : LET q == SubSeq(p, 1, k) IN local[q].type = remote[q].type

(* A directory that the server has too, and a file or link that is as the  *)
(* server has it, is never removed, whatever listings, downloads and       *)
(* removals fail along the way.                                            *)
WantedKept ==
  [][\A p \in Paths :
       /\ Wanted(p)
       /\ local[p].type = "dir" \/ (local[p].type # "none" /\ local[p].sig = remote[p].sig)
       => local'[p].type = local[p].type]_vars

(* A skipped path in a directory that the server has too is left as it is, *)
(* whatever the merge, the queue and the attributes set on the way back.   *)
SkippedKept ==
  [][\A p \in Skip : Len(p) = 1 \/ remote[Front(p)].type = "dir" => local'[p] = local[p]]_vars

(* "Files or directories remote or local matching this regular expression  *)
(* will not be touched", wherever they are.                                *)
SkippedNotTouched == [][\A p \in Skip : local'[p] = local[p]]_vars

(* "Spegla will not delete any local files unless this parameter is set to *)
(* yes": nothing is removed as long as no operation fails.  A failing      *)
(* write does remove a file (get_ftp_file).                                *)
NothingDeleted == [][~DoDelete /\ ~Faults => \A p \in Paths : local[p] # None => local'[p] # None]_vars

\* "Maximum number of files to delete": never exceeded.
DeletesBounded == MaxDelete # 0 => deletes <= MaxDelete

(* "one step down in the hierarchy": each call of sp_sync_dir works on the *)
(* directory it was made for, in which cur_dir is.                         *)
InItsDirectory ==
  stack # << >> /\ pc = "sync" =>
    cur_dir = IF Top.sub = << >> THEN Top.at ELSE Append(Top.at, Top.sub[1].name)

\* The recursion ends.
Terminates == <>(pc # "sync")
=============================================================================
