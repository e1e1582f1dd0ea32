------------------------------ MODULE LockFile ------------------------------
(***************************************************************************)
(* The lock file of spegla: main creates it with O_EXCL, registers         *)
(* remove_lock with atexit and notes the name and the working directory in *)
(* globals; exit, also out of signal_handler, runs remove_lock.            *)
(*                                                                         *)
(* Several processes are started on the same mirror.  Signals arrive       *)
(* between any two statements, a second one during the exit handlers too.  *)
(***************************************************************************)
EXTENDS Naturals

CONSTANTS
  Procs,       \* processes that are started with the same lock file
  Nobody,      \* no process
  Kills,       \* may a process be killed outright
  CallsFail    \* may atexit, getcwd, malloc, seteuid, chdir or unlink fail

ASSUME NobodyAssumption == Nobody \notin Procs

ASSUME SwitchAssumption == Kills \in BOOLEAN /\ CallsFail \in BOOLEAN

VARIABLES
  at,        \* what each process does next
  owner,     \* the process that created the lock file, Nobody if there is none
  atexit,    \* is remove_lock registered
  lock_file, \* is the global lock_file set
  start_wd,  \* the global start_wd: NULL, allocated only, or filled in
  mishap     \* history: a process met with what the code does not provide for

lockVars == <<at, owner, atexit, lock_file, start_wd, mishap>>

Starting == {"open", "atexit", "lock_file", "setuid", "malloc", "getcwd", "chdir"}
Exiting  == {"exit", "exit_chdir", "exit_unlink"}
Running  == Starting \cup {"mirror"} \cup Exiting

LockInit ==
  /\ at = [p \in Procs |-> "down"]
  /\ owner = Nobody
  /\ atexit = [p \in Procs |-> FALSE]
  /\ lock_file = [p \in Procs |-> FALSE]
  /\ start_wd = [p \in Procs |-> "null"]
  /\ mishap = [p \in Procs |-> FALSE]

Go(p, from, to) == at[p] = from /\ at' = [at EXCEPT ![p] = to]

Mishap(p) == mishap' = [mishap EXCEPT ![p] = TRUE]

\* fault: remove_lock is registered before the lock file is opened
StartUp_Registered(p) ==
  /\ owner # p
  /\ Go(p, "down", "open")
  /\ atexit' = [atexit EXCEPT ![p] = TRUE]
  /\ lock_file' = [lock_file EXCEPT ![p] = TRUE]
  /\ start_wd' = [start_wd EXCEPT ![p] = "null"]
  /\ mishap' = [mishap EXCEPT ![p] = FALSE]
  /\ UNCHANGED owner

(* A new process, with fresh globals.  One that left the lock file behind  *)
(* keeps its identity until the file is removed.                           *)
StartUp(p) ==
  /\ owner # p
  /\ Go(p, "down", "open")
  /\ atexit' = [atexit EXCEPT ![p] = FALSE]
  /\ lock_file' = [lock_file EXCEPT ![p] = FALSE]
  /\ start_wd' = [start_wd EXCEPT ![p] = "null"]
  /\ mishap' = [mishap EXCEPT ![p] = FALSE]
  /\ UNCHANGED owner

\* fault: no O_EXCL
CreateLock_NoExcl(p) ==
  /\ owner' = p
  /\ Go(p, "open", "atexit")
  /\ UNCHANGED <<atexit, lock_file, start_wd, mishap>>

\* open with O_CREAT | O_EXCL: creates the file, or ends the program
CreateLock(p) ==
  /\ \/ owner = Nobody /\ owner' = p /\ Go(p, "open", "atexit")
     \/ owner # Nobody /\ UNCHANGED owner /\ Go(p, "open", "exit")
  /\ UNCHANGED <<atexit, lock_file, start_wd, mishap>>

\* atexit(remove_lock); a failure is only reported
RegisterRemoval(p) ==
  /\ Go(p, "atexit", "lock_file")
  /\ \/ atexit' = [atexit EXCEPT ![p] = TRUE] /\ UNCHANGED mishap
     \/ CallsFail /\ UNCHANGED atexit /\ Mishap(p)
  /\ UNCHANGED <<owner, lock_file, start_wd>>

\* fault: the name of the lock file is not kept
NoteLock_Forgets(p) ==
  /\ Go(p, "lock_file", "setuid")
  /\ UNCHANGED <<owner, atexit, lock_file, start_wd, mishap>>

\* lock_file = param.lockfile
NoteLock(p) ==
  /\ Go(p, "lock_file", "setuid")
  /\ lock_file' = [lock_file EXCEPT ![p] = TRUE]
  /\ UNCHANGED <<owner, atexit, start_wd, mishap>>

SetMirrorUid(p) ==
  /\ Go(p, "setuid", "malloc") \/ (CallsFail /\ Go(p, "setuid", "exit"))
  /\ UNCHANGED <<owner, atexit, lock_file, start_wd, mishap>>

\* start_wd = malloc(PATH_MAX)
AllocWd(p) ==
  /\ \/ Go(p, "malloc", "getcwd") /\ start_wd' = [start_wd EXCEPT ![p] = "garbage"]
     \/ CallsFail /\ Go(p, "malloc", "exit") /\ UNCHANGED start_wd
  /\ UNCHANGED <<owner, atexit, lock_file, mishap>>

\* fault: the buffer is too short for the name of the directory
NoteWd_Short(p) ==
  /\ Go(p, "getcwd", "chdir")
  /\ start_wd' = [start_wd EXCEPT ![p] = "cut short"]
  /\ UNCHANGED <<owner, atexit, lock_file, mishap>>

\* getcwd(start_wd), its result ignored
NoteWd(p) ==
  /\ Go(p, "getcwd", "chdir")
  /\ start_wd' \in {[start_wd EXCEPT ![p] = "filled"]} \cup (IF CallsFail THEN {start_wd} ELSE {})
  /\ UNCHANGED <<owner, atexit, lock_file, mishap>>

EnterMirror(p) ==
  /\ Go(p, "chdir", "mirror") \/ (CallsFail /\ Go(p, "chdir", "exit"))
  /\ UNCHANGED <<owner, atexit, lock_file, start_wd, mishap>>

(* The mirroring comes to its end, or to one of its many calls of exit.    *)
(* It need not: a server that falls silent is waited for without end.      *)
MirrorEnds(p) ==
  /\ Go(p, "mirror", "exit")
  /\ UNCHANGED <<owner, atexit, lock_file, start_wd, mishap>>

-----------------------------------------------------------------------------
\* exit runs remove_lock if it is registered
CallHandlers(p) ==
  /\ IF atexit[p] THEN Go(p, "exit", "exit_chdir") ELSE Go(p, "exit", "down")
  /\ UNCHANGED <<owner, atexit, lock_file, start_wd, mishap>>

\* fault: remove_lock ends the program (e_err) where it should only report
BackToWd_Exits(p) ==
  /\ \/ Go(p, "exit_chdir", "exit_unlink") /\ UNCHANGED mishap
     \/ start_wd[p] = "garbage" /\ Go(p, "exit_chdir", "exit") /\ UNCHANGED mishap
     \/ start_wd[p] = "filled" /\ CallsFail /\ Go(p, "exit_chdir", "exit") /\ UNCHANGED mishap
  /\ UNCHANGED <<owner, atexit, lock_file, start_wd>>

(* remove_lock, chdir(start_wd): remove_lock returns if it fails.  An      *)
(* uninitialised buffer may hold anything.                                 *)
BackToWd(p) ==
  /\ \/ Go(p, "exit_chdir", "exit_unlink") /\ UNCHANGED mishap
     \/ start_wd[p] = "garbage" /\ Go(p, "exit_chdir", "down") /\ Mishap(p)
     \/ start_wd[p] = "filled" /\ CallsFail /\ Go(p, "exit_chdir", "down") /\ Mishap(p)
  /\ UNCHANGED <<owner, atexit, lock_file, start_wd>>

\* remove_lock, unlink: whoever made the file; a failure is only reported
Unlink(p) ==
  /\ Go(p, "exit_unlink", "down")
  /\ \/ owner' = (IF lock_file[p] THEN Nobody ELSE owner) /\ UNCHANGED mishap
     \/ CallsFail /\ UNCHANGED owner /\ Mishap(p)
  /\ UNCHANGED <<atexit, lock_file, start_wd>>

-----------------------------------------------------------------------------
\* between the open and the note of its name the lock file is not removed
Windows == {"atexit", "lock_file"}

\* signal_handler calls exit, which starts the handlers
Signal(p) ==
  /\ at[p] \in Running \ Exiting
  /\ at' = [at EXCEPT ![p] = "exit"]
  /\ IF at[p] \in Windows THEN Mishap(p) ELSE UNCHANGED mishap
  /\ UNCHANGED <<owner, atexit, lock_file, start_wd>>

\* the same out of remove_lock, which is abandoned and not run again
SignalInHandler(p) ==
  /\ at[p] \in {"exit_chdir", "exit_unlink"}
  /\ at' = [at EXCEPT ![p] = "down"]
  /\ Mishap(p)
  /\ UNCHANGED <<owner, atexit, lock_file, start_wd>>

\* SIGKILL, or the machine goes down
Kill(p) ==
  /\ Kills
  /\ at[p] \in Running
  /\ at' = [at EXCEPT ![p] = "down"]
  /\ Mishap(p)
  /\ UNCHANGED <<owner, atexit, lock_file, start_wd>>

\* an operator removes a lock file left by a process that is gone (external)
RemoveStale ==
  /\ owner # Nobody /\ at[owner] = "down"
  /\ owner' = Nobody
  /\ UNCHANGED <<at, atexit, lock_file, start_wd, mishap>>

Work(p) == \/ CreateLock(p) \/ RegisterRemoval(p) \/ NoteLock(p) \/ SetMirrorUid(p) \/ AllocWd(p)
           \/ NoteWd(p) \/ EnterMirror(p) \/ CallHandlers(p) \/ BackToWd(p) \/ Unlink(p)

Step(p) == \/ StartUp(p) \/ Work(p) \/ MirrorEnds(p)
           \/ Signal(p) \/ SignalInHandler(p) \/ Kill(p)

LockNext == (\E p \in Procs : Step(p)) \/ RemoveStale

LockSpec == LockInit /\ [][LockNext]_lockVars

(* A process that sets up or cleans up is scheduled again, and none of the *)
(* calls it makes there blocks.  The mirroring may take for ever.          *)
LockFairSpec == LockSpec /\ \A p \in Procs : WF_lockVars(Work(p))

-----------------------------------------------------------------------------
(* Properties                                                              *)

\* Type correctness.
LockTypeOK ==
  /\ at \in [Procs -> Running \cup {"down"}]
  /\ owner \in Procs \cup {Nobody}
  /\ atexit \in [Procs -> BOOLEAN]
  /\ lock_file \in [Procs -> BOOLEAN]
  /\ start_wd \in [Procs -> {"null", "garbage", "filled"}]
  /\ mishap \in [Procs -> BOOLEAN]

(* "To make sure that not two instances of the same mirror is running at   *)
(* the same time": whatever signals, kills and failed calls happen.        *)
MutualExclusion ==
  \A p, q \in Procs : at[p] = "mirror" /\ at[q] = "mirror" => p = q

(* remove_lock only removes the lock file its own process created: a       *)
(* process turned away at the lock must not remove it on its way out.      *)
OnlyOwnLockRemoved ==
  \A p \in Procs : at[p] = "exit_unlink" /\ lock_file[p] => owner = p

\* statements at which a process has the lock file
Holding(p) == at[p] \in (Running \ {"open", "exit"}) \/ (at[p] = "exit" /\ atexit[p])

(* What makes it so: who is past the open owns the lock file, until it is  *)
(* removed or its process gone, and before the open no removal is          *)
(* registered.                                                             *)
HoldersOwn ==
  \A p \in Procs : /\ Holding(p) => owner = p
                   /\ at[p] = "open" => ~atexit[p]

(* A lock file outlives its process only after a kill, a failed atexit or  *)
(* unlink, a signal before the name is noted or within remove_lock, or a   *)
(* chdir back that fails: because the directory is gone, or because a      *)
(* signal came between malloc and getcwd (or getcwd failed) and start_wd   *)
(* holds anything.  An exit at any other point removes it.                 *)
LockNotLeft == \A p \in Procs : owner = p /\ at[p] = "down" => mishap[p]

(* Why: the creator of the lock file goes through the registration and the *)
(* note before it can come to an exit.                                     *)
RemovalPrepared ==
  \A p \in Procs : owner = p /\ ~mishap[p] =>
    /\ at[p] \notin {"down", "open"}
    /\ at[p] # "atexit" => atexit[p]
    /\ at[p] \notin Windows => lock_file[p]

(* A lock that was taken is released, but for those mishaps, unless its    *)
(* owner mirrors for ever: neither the set-up nor the way out of the       *)
(* program, from wherever a signal or a failed call sends it, gets stuck   *)
(* with the lock.                                                          *)
LockFreed ==
  \A p \in Procs : owner = p ~> owner # p \/ mishap[p] \/ [](at[p] = "mirror")
=============================================================================
