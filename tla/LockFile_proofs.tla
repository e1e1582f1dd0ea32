--------------------------- MODULE LockFile_proofs ---------------------------
(* Mutual exclusion by the lock file and its removal, for any number of    *)
(* processes and any pattern of signals, kills and failing calls.          *)
EXTENDS LockFile, TLAPS

\* Every step keeps the process states in their types.
THEOREM TypeCorrect == LockSpec => []LockTypeOK
<1>1. LockInit => LockTypeOK
  BY NobodyAssumption DEF LockInit, LockTypeOK, Running, Starting, Exiting
<1>2. ASSUME LockTypeOK, [LockNext]_lockVars
      PROVE  LockTypeOK'
  <2> USE <1>2 DEF LockTypeOK, Running, Starting, Exiting, Go, Mishap
  <2>1. ASSUME NEW p \in Procs, StartUp(p)
        PROVE  LockTypeOK'
    BY <2>1 DEF StartUp
  <2>2. ASSUME NEW p \in Procs, Work(p)
        PROVE  LockTypeOK'
    <3>1. CASE CreateLock(p)
      BY <3>1 DEF CreateLock
    <3>2. CASE RegisterRemoval(p)
      BY <3>2 DEF RegisterRemoval
    <3>3. CASE NoteLock(p)
      BY <3>3 DEF NoteLock
    <3>4. CASE SetMirrorUid(p)
      BY <3>4 DEF SetMirrorUid
    <3>5. CASE AllocWd(p)
      BY <3>5 DEF AllocWd
    <3>6. CASE NoteWd(p)
      BY <3>6 DEF NoteWd
    <3>7. CASE EnterMirror(p)
      BY <3>7 DEF EnterMirror
    <3>9. CASE CallHandlers(p)
      BY <3>9 DEF CallHandlers
    <3>10. CASE BackToWd(p)
      BY <3>10 DEF BackToWd
    <3>11. CASE Unlink(p)
      BY <3>11 DEF Unlink
    <3> QED
      BY <2>2, <3>1, <3>2, <3>3, <3>4, <3>5, <3>6, <3>7, <3>9, <3>10, <3>11 DEF Work
  <2>3. ASSUME NEW p \in Procs, MirrorEnds(p) \/ Signal(p) \/ SignalInHandler(p) \/ Kill(p)
        PROVE  LockTypeOK'
    BY <2>3 DEF MirrorEnds, Signal, SignalInHandler, Kill
  <2>4. CASE RemoveStale
    BY <2>4 DEF RemoveStale
  <2>5. CASE UNCHANGED lockVars
    BY <2>5 DEF lockVars
  <2> QED
    BY <2>1, <2>2, <2>3, <2>4, <2>5 DEF LockNext, Step
<1> QED
  BY <1>1, <1>2, PTL DEF LockSpec

(* A step that changes the state of process p only, and leaves the lock    *)
(* file alone, keeps HoldersOwn if it keeps it for p.                      *)
LEMMA LocalStep ==
  ASSUME HoldersOwn, NEW p \in Procs, LockTypeOK,
         owner' = owner,
         \A q \in Procs \ {p} : at'[q] = at[q] /\ atexit'[q] = atexit[q],
         /\ Holding(p)' => Holding(p)
         /\ at'[p] = "open" => ~atexit'[p]
  PROVE  HoldersOwn'
<1> SUFFICES ASSUME NEW q \in Procs
             PROVE  /\ Holding(q)' => owner' = q
                    /\ at'[q] = "open" => ~atexit'[q]
  BY DEF HoldersOwn
<1>1. CASE q = p
  BY <1>1 DEF HoldersOwn
<1>2. CASE q # p
  BY <1>2 DEF HoldersOwn, Holding
<1> QED
  BY <1>1, <1>2

\* Who is past the open owns the lock file.
THEOREM HoldersOwnAlways == LockSpec => []HoldersOwn
<1>1. LockInit => HoldersOwn
  BY DEF LockInit, HoldersOwn, Holding, Running, Starting, Exiting
<1>2. ASSUME HoldersOwn, LockTypeOK, [LockNext]_lockVars
      PROVE  HoldersOwn'
  <2> USE <1>2
  <2>1. ASSUME NEW p \in Procs, StartUp(p)
        PROVE  HoldersOwn'
    BY <2>1, LocalStep DEF StartUp, Go, Holding, LockTypeOK, Running, Starting, Exiting
  <2>2. ASSUME NEW p \in Procs, CreateLock(p)
        PROVE  HoldersOwn'
    <3>1. CASE owner = Nobody /\ owner' = p /\ Go(p, "open", "atexit")
      <4> SUFFICES ASSUME NEW q \in Procs
                   PROVE  /\ Holding(q)' => owner' = q
                          /\ at'[q] = "open" => ~atexit'[q]
        BY DEF HoldersOwn
      <4>1. CASE q = p
        BY <3>1, <4>1 DEF Go, LockTypeOK
      <4>2. CASE q # p
        BY <2>2, <3>1, <4>2, NobodyAssumption DEF CreateLock, Go, LockTypeOK, HoldersOwn, Holding
      <4> QED
        BY <4>1, <4>2
    <3>2. CASE owner # Nobody /\ UNCHANGED owner /\ Go(p, "open", "exit")
      <4>1. ~atexit[p]
        BY <3>2 DEF HoldersOwn, Go
      <4> QED
        BY <2>2, <3>2, <4>1, LocalStep DEF CreateLock, Go, Holding, LockTypeOK, Running, Starting, Exiting
    <3> QED
      BY <2>2, <3>1, <3>2 DEF CreateLock
  <2>3. ASSUME NEW p \in Procs,
               \/ RegisterRemoval(p) \/ NoteLock(p) \/ SetMirrorUid(p) \/ AllocWd(p)
               \/ NoteWd(p) \/ EnterMirror(p) \/ MirrorEnds(p)
        PROVE  HoldersOwn'
    <3>1. /\ Holding(p)
          /\ owner' = owner
          /\ at'[p] # "open"
          /\ \A q \in Procs \ {p} : at'[q] = at[q] /\ atexit'[q] = atexit[q]
      BY <2>3 DEF RegisterRemoval, NoteLock, SetMirrorUid, AllocWd, NoteWd, EnterMirror,
                  MirrorEnds, Go, Holding, LockTypeOK, Running, Starting, Exiting
    <3> QED
      BY <3>1, LocalStep
  <2>4. ASSUME NEW p \in Procs, \/ CallHandlers(p) \/ BackToWd(p) \/ Signal(p)
                               \/ SignalInHandler(p) \/ Kill(p)
        PROVE  HoldersOwn'
    <3>1. /\ Holding(p)' => Holding(p)
          /\ owner' = owner
          /\ at'[p] # "open"
          /\ \A q \in Procs \ {p} : at'[q] = at[q] /\ atexit'[q] = atexit[q]
      BY <2>4 DEF HoldersOwn, CallHandlers, BackToWd, Signal, SignalInHandler, Kill, Go, Holding,
                  LockTypeOK, Running, Starting, Exiting
    <3> QED
      BY <3>1, LocalStep
  <2>5. ASSUME NEW p \in Procs, Unlink(p)
        PROVE  HoldersOwn'
    <3>1. owner = p
      BY <2>5 DEF Unlink, Go, HoldersOwn, Holding, Running, Starting, Exiting
    <3>2. ASSUME NEW q \in Procs
          PROVE  ~Holding(q)' /\ (at'[q] = "open" => ~atexit'[q])
      BY <2>5, <3>1 DEF Unlink, Go, HoldersOwn, Holding, LockTypeOK, Running, Starting, Exiting
    <3> QED
      BY <3>2 DEF HoldersOwn
  <2>6. CASE RemoveStale
    BY <2>6, NobodyAssumption DEF RemoveStale, HoldersOwn, Holding, LockTypeOK, Running, Starting, Exiting
  <2>7. CASE UNCHANGED lockVars
    BY <2>7 DEF lockVars, HoldersOwn, Holding
  <2> QED
    BY <2>1, <2>2, <2>3, <2>4, <2>5, <2>6, <2>7 DEF LockNext, Step, Work
<1> QED
  BY <1>1, <1>2, TypeCorrect, PTL DEF LockSpec

(* Two processes never mirror at the same time, as the lockfile parameter  *)
(* promises.                                                               *)
THEOREM Exclusion == LockSpec => []MutualExclusion
<1>1. HoldersOwn => MutualExclusion
  BY DEF HoldersOwn, MutualExclusion, Holding, Running, Starting, Exiting
<1> QED
  BY <1>1, HoldersOwnAlways, PTL

\* remove_lock removes no lock file but that of its own process.
THEOREM RemovesOwn == LockSpec => []OnlyOwnLockRemoved
<1>1. HoldersOwn => OnlyOwnLockRemoved
  BY DEF HoldersOwn, OnlyOwnLockRemoved, Holding, Running, Starting, Exiting
<1> QED
  BY <1>1, HoldersOwnAlways, PTL

(* Only a mishap keeps the lock file from being removed when its process   *)
(* is gone.  RemovalPrepared is inductive: a signal outside the windows    *)
(* finds remove_lock registered and the name noted.                        *)
THEOREM NotLeft == LockSpec => []LockNotLeft
<1>1. LockInit => RemovalPrepared
  BY NobodyAssumption DEF LockInit, RemovalPrepared
<1>2. ASSUME RemovalPrepared, LockTypeOK, [LockNext]_lockVars
      PROVE  RemovalPrepared'
  <2> SUFFICES ASSUME NEW q \in Procs, owner' = q, ~mishap'[q]
               PROVE  /\ at'[q] \notin {"down", "open"}
                      /\ at'[q] # "atexit" => atexit'[q]
                      /\ at'[q] \notin Windows => lock_file'[q]
    BY DEF RemovalPrepared, Windows
  <2> USE <1>2 DEF RemovalPrepared, LockTypeOK, Windows, Go, Mishap, Running, Starting, Exiting
  <2>1. ASSUME NEW p \in Procs, StartUp(p)
        PROVE  /\ at'[q] \notin {"down", "open"}
               /\ at'[q] # "atexit" => atexit'[q]
               /\ at'[q] \notin Windows => lock_file'[q]
    BY <2>1 DEF StartUp
  <2>2. ASSUME NEW p \in Procs, Work(p)
        PROVE  /\ at'[q] \notin {"down", "open"}
               /\ at'[q] # "atexit" => atexit'[q]
               /\ at'[q] \notin Windows => lock_file'[q]
    <3>1. CASE CreateLock(p)
      BY <3>1, NobodyAssumption DEF CreateLock
    <3>2. CASE RegisterRemoval(p)
      BY <3>2 DEF RegisterRemoval
    <3>3. CASE NoteLock(p)
      BY <3>3 DEF NoteLock
    <3>4. CASE SetMirrorUid(p) \/ AllocWd(p) \/ NoteWd(p) \/ EnterMirror(p)
      BY <3>4 DEF SetMirrorUid, AllocWd, NoteWd, EnterMirror
    <3>5. CASE CallHandlers(p)
      BY <3>5 DEF CallHandlers
    <3>6. CASE BackToWd(p)
      BY <3>6 DEF BackToWd
    <3>7. CASE Unlink(p)
      BY <3>7, NobodyAssumption DEF Unlink
    <3> QED
      BY <2>2, <3>1, <3>2, <3>3, <3>4, <3>5, <3>6, <3>7 DEF Work
  <2>3. ASSUME NEW p \in Procs, MirrorEnds(p) \/ Signal(p) \/ SignalInHandler(p) \/ Kill(p)
        PROVE  /\ at'[q] \notin {"down", "open"}
               /\ at'[q] # "atexit" => atexit'[q]
               /\ at'[q] \notin Windows => lock_file'[q]
    BY <2>3 DEF MirrorEnds, Signal, SignalInHandler, Kill
  <2>4. CASE RemoveStale
    BY <2>4, NobodyAssumption DEF RemoveStale
  <2>5. CASE UNCHANGED lockVars
    BY <2>5 DEF lockVars
  <2> QED
    BY <2>1, <2>2, <2>3, <2>4, <2>5 DEF LockNext, Step
<1>3. RemovalPrepared => LockNotLeft
  BY DEF RemovalPrepared, LockNotLeft
<1> QED
  BY <1>1, <1>2, <1>3, TypeCorrect, PTL DEF LockSpec
=============================================================================
