------------------------------ MODULE MCSyncDir ------------------------------
(* Instances of SyncDir for TLC: trees of two names, at most two deep.     *)
EXTENDS SyncDir

MCNames == {1, 2}

Plain(s, m) == [type |-> "file", sig |-> s, mode |-> m]
Link(s)    == [type |-> "link", sig |-> s, mode |-> 0]
DirOf(s)   == [type |-> "dir", sig |-> s, mode |-> 0]

\* a tree from the entries at the top and those in directories
Tree(top, inner) ==
  [p \in Paths |-> IF Len(p) = 1 THEN top[p[1]]
                   ELSE IF Len(p) = 2 /\ top[p[1]].type = "dir" THEN inner[p[2]] ELSE None]

Inner == { f \in [MCNames -> {None, Plain(1, 1), Plain(2, 1)}] : f[2] # Plain(2, 1) }

\* all trees over these entries
TreesOf(entries) == { Tree(top, inner) : top \in [MCNames -> entries], inner \in Inner }

MCLocal  == TreesOf({None, Plain(1, 1), Plain(1, 2), Link(1), DirOf(1)})
MCRemote == TreesOf({None, Plain(1, 1), Plain(2, 1), Link(2), DirOf(1)})

MCSkip   == {<<2, 1>>}
MCNoSkip == {}

\* the root and the first directory; the second one lists "." and ".."
MCBlank == {<< >>, <<1>>}
MCDirs  == {<<1>>, <<2>>}

P(dodelete, maxdelete, faults) ==
  [dodelete |-> dodelete, maxdelete |-> maxdelete, faults |-> faults]

MCParams == {P(TRUE, 0, FALSE), P(FALSE, 0, FALSE), P(TRUE, 2, TRUE), P(FALSE, 2, TRUE)}
MCDelete == {P(TRUE, 0, FALSE)}
=============================================================================
