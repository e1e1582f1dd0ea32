-------------------------- MODULE Download_proofs --------------------------
(* What a local file that looks current holds, and what it is replaced by, *)
(* for files of any length, any number of versions, runs and retries, and  *)
(* any limit of deletes.                                                   *)
EXTENDS Download, TLAPS

Steps == {"off", "sweep", "compare", "tmpname", "open", "transfer", "writeerr", "makeroom",
          "retry", "relogin", "giveup", "settime", "restore", "quit"}

\* the variables the argument is about have their types
Types ==
  /\ latest \in 1 .. Versions /\ listed \in 1 .. latest
  /\ file = NoFile \/ file \in FileSet
  /\ temp = NoFile \/ temp \in FileSet
  /\ stage \in Steps
  /\ sent \in Nat /\ size \in Nat
  /\ erased \in BOOLEAN /\ dodelete \in BOOLEAN /\ failed \subseteq {"write", "unlink"}

(* A local file has no data newer than the remote file, and none older     *)
(* than its time says.                                                     *)
LocalAge ==
  file \in FileSet => \A i \in DOMAIN file.data :
    /\ file.data[i].ver <= latest
    /\ file.time \in Nat => file.time <= file.data[i].ver

(* There is a temporary file only during a download; its data is of the    *)
(* listed version or newer, and it has a time from SetTime on only.        *)
TempAge ==
  /\ stage \in {"off", "sweep", "compare", "tmpname"} => temp = NoFile
  /\ temp \in FileSet =>
       /\ \A i \in DOMAIN temp.data : listed <= temp.data[i].ver /\ temp.data[i].ver <= latest
       /\ temp.time = Now \/ (stage = "restore" /\ temp.time = listed)

\* the chunks of a file are in their places
Placed(f) == f \in FileSet => \A i \in DOMAIN f.data : f.data[i].pos = i

(* Where the next chunk goes: erased means "from the start", a resumed     *)
(* download starts at the end of the temporary file.                       *)
Positions ==
  /\ erased => size = 0
  /\ stage \in {"transfer", "settime"} => temp \in FileSet
  /\ "write" \notin failed =>
       /\ Placed(file) /\ Placed(temp)
       /\ stage \in {"open", "writeerr", "makeroom", "relogin"} /\ size # 0 =>
            temp \in FileSet /\ Len(temp.data) = size
       /\ stage = "transfer" => Len(temp.data) = sent
       /\ stage = "settime" => Len(temp.data) >= Chunks

(* With dodelete an unfinished temporary file is gone before anything is   *)
(* renamed, if its removal never failed.                                   *)
RenameWhole ==
  dodelete /\ failed = {} /\ stage \in {"restore", "quit"} /\ temp # NoFile =>
    Len(temp.data) >= Chunks

IInv == Types /\ LocalAge /\ TempAge /\ Positions /\ RenameWhole

-----------------------------------------------------------------------------
(* Sequences of chunks                                                     *)

\* A chunk appended to a file is the last one, and the others stay.
LEMMA AppendChunk ==
  ASSUME NEW s \in Seq(Chunk), NEW x \in Chunk
  PROVE  /\ Append(s, x) \in Seq(Chunk)
         /\ Len(Append(s, x)) = Len(s) + 1
         /\ DOMAIN Append(s, x) = 1 .. Len(s) + 1
         /\ \A i \in 1 .. Len(s) : Append(s, x)[i] = s[i]
         /\ Append(s, x)[Len(s) + 1] = x
  OBVIOUS

\* The parts of a file.
LEMMA FileParts ==
  ASSUME NEW f \in FileSet
  PROVE  /\ f.data \in Seq(Chunk) /\ Len(f.data) \in Nat
         /\ \A i \in DOMAIN f.data : f.data[i].ver \in Nat
<1>1. f.data \in Seq(Chunk)
  BY DEF FileSet
<1>2. \A i \in DOMAIN f.data : f.data[i] \in Chunk
  BY <1>1
<1> QED
  BY <1>1, <1>2 DEF Chunk

\* An empty file is a file.
LEMMA EmptyFile ==
  /\ File(<< >>, Now) \in FileSet
  /\ File(<< >>, Now).data = << >> /\ File(<< >>, Now).time = Now
  BY DEF File, FileSet

\* So is any sequence of chunks without a time of its own.
LEMMA FileIsFile ==
  ASSUME NEW d \in Seq(Chunk)
  PROVE  File(d, Now) \in FileSet /\ File(d, Now).data = d /\ File(d, Now).time = Now
  BY DEF File, FileSet

\* So is the remote file of any version, with every time.
LEMMA CopyIsFile ==
  ASSUME NEW v \in 1 .. Versions, NEW t \in (1 .. Versions) \cup {Now}
  PROVE  /\ File(Copy(v), t) \in FileSet
         /\ File(Copy(v), t).data = Copy(v) /\ File(Copy(v), t).time = t
         /\ DOMAIN Copy(v) = 1 .. Chunks
         /\ \A i \in 1 .. Chunks : Copy(v)[i].pos = i /\ Copy(v)[i].ver = v
<1>1. \A i \in 1 .. Chunks : [pos |-> i, ver |-> v] \in Chunk
  BY DEF Chunk
<1>2. Copy(v) \in Seq(Chunk)
  BY <1>1, BoundsAssumption DEF Copy
<1> QED
  BY <1>2 DEF File, FileSet, Copy

-----------------------------------------------------------------------------
(* The invariant                                                           *)

LEMMA InitIInv == GetInit => IInv
<1> SUFFICES ASSUME GetInit
             PROVE  IInv
  OBVIOUS
<1>1. 1 \in 1 .. Versions /\ Now \notin Nat /\ Deleting \subseteq BOOLEAN
  BY BoundsAssumption
<1>2. \/ file = NoFile
      \/ /\ file \in FileSet /\ file.data = Copy(1)
         /\ file.time = 1 \/ file.time \notin Nat
         /\ DOMAIN Copy(1) = 1 .. Chunks
         /\ \A i \in 1 .. Chunks : Copy(1)[i].pos = i /\ Copy(1)[i].ver = 1
  <2>1. CASE file = File(Copy(1), 1)
    <3>1. 1 \in (1 .. Versions) \cup {Now}
      BY <1>1
    <3>2. /\ File(Copy(1), 1) \in FileSet
          /\ File(Copy(1), 1).data = Copy(1) /\ File(Copy(1), 1).time = 1
          /\ DOMAIN Copy(1) = 1 .. Chunks
          /\ \A i \in 1 .. Chunks : Copy(1)[i].pos = i /\ Copy(1)[i].ver = 1
      BY <1>1, <3>1, CopyIsFile, Zenon
    <3> QED
      BY <2>1, <3>2
  <2>2. CASE file = File(Copy(1), Now)
    <3>1. Now \in (1 .. Versions) \cup {Now}
      OBVIOUS
    <3>2. /\ File(Copy(1), Now) \in FileSet
          /\ File(Copy(1), Now).data = Copy(1) /\ File(Copy(1), Now).time = Now
          /\ DOMAIN Copy(1) = 1 .. Chunks
          /\ \A i \in 1 .. Chunks : Copy(1)[i].pos = i /\ Copy(1)[i].ver = 1
      BY <1>1, <3>1, CopyIsFile, Zenon
    <3> QED
      BY <1>1, <2>2, <3>2
  <2> QED
    BY <2>1, <2>2 DEF GetInit
<1>3. Types /\ LocalAge /\ Placed(file)
  <2>1. erased \in BOOLEAN /\ dodelete \in BOOLEAN
    BY <1>1, Zenon DEF GetInit
  <2>2. Types
    BY <1>1, <1>2, <2>1 DEF GetInit, Types, Steps
  <2>3. latest = 1
    BY DEF GetInit
  <2>4. LocalAge
    <3> SUFFICES ASSUME file \in FileSet, NEW i \in DOMAIN file.data
                 PROVE  /\ file.data[i].ver <= latest
                        /\ file.time \in Nat => file.time <= file.data[i].ver
      BY DEF LocalAge
    <3>1. file.data[i].ver = 1 /\ (file.time = 1 \/ file.time \notin Nat)
      BY <1>2, NoFileAssumption
    <3> QED
      BY <2>3, <3>1
  <2>5. Placed(file)
    BY <1>1, <1>2, NoFileAssumption DEF Placed
  <2> QED
    BY <2>2, <2>4, <2>5
<1>4. TempAge /\ Positions /\ RenameWhole
  BY <1>3, NoFileAssumption DEF GetInit, TempAge, Positions, RenameWhole, Placed
<1> QED
  BY <1>3, <1>4 DEF IInv

\* Every step keeps the invariant.
LEMMA NextIInv == IInv /\ [GetNext]_getVars => IInv'
<1> SUFFICES ASSUME IInv, [GetNext]_getVars
             PROVE  IInv'
  OBVIOUS
<1> USE BoundsAssumption, NoFileAssumption DEF IInv
<1>1. CASE RemoteChanges
  <2>1. Types'
    BY <1>1 DEF RemoteChanges, Types, Steps
  <2>2. LocalAge'
    <3> SUFFICES ASSUME file \in FileSet, NEW i \in DOMAIN file.data
                 PROVE  file.data[i].ver <= latest + 1
      BY <1>1 DEF RemoteChanges, LocalAge
    <3> QED
      BY FileParts DEF LocalAge, Types
  <2>3. TempAge'
    <3> SUFFICES ASSUME temp \in FileSet, NEW i \in DOMAIN temp.data
                 PROVE  temp.data[i].ver <= latest + 1
      BY <1>1 DEF RemoteChanges, TempAge
    <3> QED
      BY FileParts DEF TempAge, Types
  <2>4. Positions'
    BY <1>1 DEF RemoteChanges, Positions, Placed, TempAge, Types, Steps
  <2>5. RenameWhole'
    BY <1>1 DEF RemoteChanges, RenameWhole, Positions, TempAge, Types, Steps
  <2> QED
    BY <2>1, <2>2, <2>3, <2>4, <2>5
<1>2. CASE Die
  <2>1. Types'
    BY <1>2 DEF Die, Leave, Types, Steps
  <2>2. LocalAge'
    BY <1>2 DEF Die, Leave, LocalAge, Types
  <2>3. TempAge'
    BY <1>2 DEF Die, Leave, TempAge, Types, Steps
  <2>4. Positions'
    BY <1>2 DEF Die, Leave, Positions, Placed, TempAge, Types, Steps
  <2>5. RenameWhole'
    BY <1>2 DEF Die, Leave, RenameWhole, Positions, TempAge, Types, Steps
  <2> QED
    BY <2>1, <2>2, <2>3, <2>4, <2>5
<1>3. CASE Start
  <2>1. Types'
    BY <1>3 DEF Start, Types, Steps
  <2>2. LocalAge'
    BY <1>3 DEF Start, LocalAge, Types
  <2>3. TempAge'
    BY <1>3 DEF Start, TempAge, Types, Steps
  <2>4. Positions'
    BY <1>3 DEF Start, Positions, Placed, TempAge, Types, Steps
  <2>5. RenameWhole'
    BY <1>3 DEF Start, RenameWhole, Positions, TempAge, Types, Steps
  <2> QED
    BY <2>1, <2>2, <2>3, <2>4, <2>5
<1>4. CASE Sweep
  <2>1. Types'
    BY <1>4 DEF Sweep, Types, Steps
  <2>2. LocalAge'
    BY <1>4 DEF Sweep, LocalAge, Types
  <2>3. TempAge'
    BY <1>4 DEF Sweep, TempAge, Types, Steps
  <2>4. Positions'
    BY <1>4 DEF Sweep, Positions, Placed, TempAge, Types, Steps
  <2>5. RenameWhole'
    BY <1>4 DEF Sweep, RenameWhole, Positions, TempAge, Types, Steps
  <2> QED
    BY <2>1, <2>2, <2>3, <2>4, <2>5
<1>5. CASE Compare
  <2>1. Types'
    BY <1>5 DEF Compare, Types, Steps
  <2>2. LocalAge'
    BY <1>5 DEF Compare, LocalAge, Types
  <2>3. TempAge'
    BY <1>5 DEF Compare, TempAge, Types, Steps
  <2>4. Positions'
    BY <1>5 DEF Compare, Positions, Placed, TempAge, Types, Steps
  <2>5. RenameWhole'
    BY <1>5 DEF Compare, RenameWhole, Positions, TempAge, Types, Steps
  <2> QED
    BY <2>1, <2>2, <2>3, <2>4, <2>5
<1>6. CASE spf_use_tmp_name
  <2>1. Types'
    BY <1>6, EmptyFile DEF spf_use_tmp_name, Types, Steps
  <2>2. LocalAge'
    BY <1>6, EmptyFile DEF spf_use_tmp_name, LocalAge, Types
  <2>3. TempAge'
    BY <1>6, EmptyFile DEF spf_use_tmp_name, TempAge, Types, Steps
  <2>4. Positions'
    BY <1>6, EmptyFile DEF spf_use_tmp_name, Positions, Placed, TempAge, Types, Steps
  <2>5. RenameWhole'
    BY <1>6, EmptyFile DEF spf_use_tmp_name, RenameWhole, Positions, TempAge, Types, Steps
  <2> QED
    BY <2>1, <2>2, <2>3, <2>4, <2>5
<1>7. CASE OpenFile
  <2>1. Types'
    BY <1>7, EmptyFile DEF OpenFile, Types, Steps
  <2>2. LocalAge'
    BY <1>7, EmptyFile DEF OpenFile, LocalAge, Types
  <2>3. TempAge'
    BY <1>7, EmptyFile DEF OpenFile, TempAge, Types, Steps
  <2>4. Positions'
    BY <1>7, EmptyFile DEF OpenFile, Positions, Placed, TempAge, Types, Steps
  <2>5. RenameWhole'
    BY <1>7, EmptyFile DEF OpenFile, RenameWhole, Positions, TempAge, Types, Steps
  <2> QED
    BY <2>1, <2>2, <2>3, <2>4, <2>5
<1>8. CASE GetChunk
  <2> DEFINE x == [pos |-> sent + 1, ver |-> latest]
  <2>1. temp \in FileSet /\ temp.data \in Seq(Chunk) /\ x \in Chunk
    <3>1. temp \in FileSet
      BY <1>8 DEF GetChunk, Positions
    <3>2. sent + 1 \in 1 .. Chunks /\ latest \in 1 .. Versions
      BY <1>8 DEF GetChunk, Types
    <3> QED
      BY <3>1, <3>2, FileParts DEF Chunk
  <2>2. /\ temp' \in FileSet /\ temp'.data = Append(temp.data, x) /\ temp'.time = Now
        /\ temp' # NoFile
    <3>1. Append(temp.data, x) \in Seq(Chunk)
      BY <2>1, AppendChunk
    <3>2. temp' = File(Append(temp.data, x), Now)
      BY <1>8 DEF GetChunk
    <3> HIDE DEF x
    <3> QED
      BY <3>1, <3>2, FileIsFile
  <2>3. /\ Len(temp'.data) = Len(temp.data) + 1
        /\ DOMAIN temp'.data = 1 .. Len(temp.data) + 1
        /\ \A i \in 1 .. Len(temp.data) : temp'.data[i] = temp.data[i]
        /\ temp'.data[Len(temp.data) + 1] = x
        /\ DOMAIN temp.data = 1 .. Len(temp.data) /\ Len(temp.data) \in Nat
    BY <2>1, <2>2, AppendChunk
  <2>4. Types'
    BY <1>8, <2>2 DEF GetChunk, Types, Steps
  <2>5. LocalAge'
    BY <1>8 DEF GetChunk, LocalAge, Types
  <2>6. TempAge'
    <3>1. \A i \in DOMAIN temp'.data : listed <= temp'.data[i].ver /\ temp'.data[i].ver <= latest
      <4> SUFFICES ASSUME NEW i \in DOMAIN temp'.data
                   PROVE  listed <= temp'.data[i].ver /\ temp'.data[i].ver <= latest
        OBVIOUS
      <4>1. CASE i \in 1 .. Len(temp.data)
        BY <2>1, <2>3, <4>1 DEF TempAge
      <4>2. CASE i = Len(temp.data) + 1
        BY <2>3, <4>2 DEF Types
      <4> QED
        BY <2>3, <4>1, <4>2
    <3> QED
      BY <1>8, <2>2, <3>1 DEF GetChunk, TempAge
  <2>7. Positions'
    <3>1. "write" \notin failed => Placed(temp')
      <4> SUFFICES ASSUME "write" \notin failed, NEW i \in DOMAIN temp'.data
                   PROVE  temp'.data[i].pos = i
        BY <2>2 DEF Placed
      <4>1. CASE i \in 1 .. Len(temp.data)
        BY <2>1, <2>3, <4>1 DEF Positions, Placed
      <4>2. CASE i = Len(temp.data) + 1
        BY <1>8, <2>3, <4>2 DEF GetChunk, Positions
      <4> QED
        BY <2>3, <4>1, <4>2
    <3> QED
      BY <1>8, <2>2, <2>3, <3>1 DEF GetChunk, Positions, Placed, Types
  <2>8. RenameWhole'
    BY <1>8 DEF GetChunk, RenameWhole
  <2> QED
    BY <2>4, <2>5, <2>6, <2>7, <2>8
<1>9. CASE LoseChunk
  <2>1. Types'
    BY <1>9 DEF LoseChunk, Types, Steps
  <2>2. LocalAge'
    BY <1>9 DEF LoseChunk, LocalAge, Types
  <2>3. TempAge'
    BY <1>9 DEF LoseChunk, TempAge, Types, Steps
  <2>4. Positions'
    BY <1>9 DEF LoseChunk, Positions, Placed, TempAge, Types, Steps
  <2>5. RenameWhole'
    BY <1>9 DEF LoseChunk, RenameWhole, Positions, TempAge, Types, Steps
  <2> QED
    BY <2>1, <2>2, <2>3, <2>4, <2>5
<1>10. CASE GetReturns
  <2>1. Types'
    BY <1>10 DEF GetReturns, Types, Steps
  <2>2. LocalAge'
    BY <1>10 DEF GetReturns, LocalAge, Types
  <2>3. TempAge'
    BY <1>10 DEF GetReturns, TempAge, Types, Steps
  <2>4. Positions'
    BY <1>10 DEF GetReturns, Positions, Placed, TempAge, Types, Steps
  <2>5. RenameWhole'
    BY <1>10 DEF GetReturns, RenameWhole, Positions, TempAge, Types, Steps
  <2> QED
    BY <2>1, <2>2, <2>3, <2>4, <2>5
<1>11. CASE RetryLogin
  <2>1. Types'
    <3>1. (IF temp = NoFile THEN 0 ELSE Len(temp.data)) \in Nat
      BY FileParts DEF Types
    <3>2. size' \in Nat /\ stage' \in Steps /\ (temp' = NoFile \/ temp' \in FileSet)
      BY <1>11, <3>1 DEF RetryLogin, spf_rm_temp, Leave, Types, Steps
    <3>3. erased' \in BOOLEAN
      BY <1>11, Zenon DEF RetryLogin, Types
    <3>4. failed' \subseteq {"write", "unlink"}
      BY <1>11 DEF RetryLogin, spf_rm_temp, Types
    <3> QED
      BY <1>11, <3>2, <3>3, <3>4 DEF RetryLogin, Types
  <2>2. LocalAge'
    BY <1>11 DEF RetryLogin, spf_rm_temp, Leave, LocalAge, Types
  <2>3. TempAge'
    BY <1>11 DEF RetryLogin, spf_rm_temp, Leave, TempAge, Types, Steps
  <2>4. Positions'
    BY <1>11 DEF RetryLogin, spf_rm_temp, Leave, Positions, Placed, TempAge, Types, Steps
  <2>5. RenameWhole'
    BY <1>11 DEF RetryLogin, spf_rm_temp, Leave, RenameWhole, Positions, TempAge, Types, Steps
  <2> QED
    BY <2>1, <2>2, <2>3, <2>4, <2>5
<1>12. CASE Relogin
  <2>1. Types'
    BY <1>12 DEF Relogin, Types, Steps
  <2>2. LocalAge'
    BY <1>12 DEF Relogin, LocalAge, Types
  <2>3. TempAge'
    BY <1>12 DEF Relogin, TempAge, Types, Steps
  <2>4. Positions'
    BY <1>12 DEF Relogin, Positions, Placed, TempAge, Types, Steps
  <2>5. RenameWhole'
    BY <1>12 DEF Relogin, RenameWhole, Positions, TempAge, Types, Steps
  <2> QED
    BY <2>1, <2>2, <2>3, <2>4, <2>5
<1>13. CASE GiveUp
  <2>1. Types'
    BY <1>13 DEF GiveUp, spf_rm_temp, Leave, Types, Steps
  <2>2. LocalAge'
    BY <1>13 DEF GiveUp, spf_rm_temp, Leave, LocalAge, Types
  <2>3. TempAge'
    BY <1>13 DEF GiveUp, spf_rm_temp, Leave, TempAge, Types, Steps
  <2>4. Positions'
    BY <1>13 DEF GiveUp, spf_rm_temp, Leave, Positions, Placed, TempAge, Types, Steps
  <2>5. RenameWhole'
    BY <1>13 DEF GiveUp, spf_rm_temp, Leave, RenameWhole, Positions, TempAge, Types, Steps
  <2> QED
    BY <2>1, <2>2, <2>3, <2>4, <2>5
<1>14. CASE EmptyOriginal
  <2>0. \/ file' = file
        \/ file' \in FileSet /\ file'.data = << >> /\ file'.time = Now
    <3>1. CASE rmed /\ UNCHANGED file
      BY <3>1
    <3>2. CASE file' \in {file, IF file = NoFile THEN NoFile ELSE File(<< >>, Now)}
      BY <3>2, EmptyFile
    <3> QED
      BY <1>14, <3>1, <3>2 DEF EmptyOriginal
  <2>1. Types'
    BY <1>14, <2>0 DEF EmptyOriginal, Leave, Types, Steps
  <2>2. LocalAge'
    BY <1>14, <2>0 DEF EmptyOriginal, LocalAge, Types
  <2>3. TempAge'
    BY <1>14 DEF EmptyOriginal, Leave, TempAge, Types, Steps
  <2>4. Positions'
    BY <1>14, <2>0 DEF EmptyOriginal, Leave, Positions, Placed, TempAge, Types, Steps
  <2>5. RenameWhole'
    BY <1>14 DEF EmptyOriginal, Leave, RenameWhole
  <2> QED
    BY <2>1, <2>2, <2>3, <2>4, <2>5
<1>15. CASE UnlinkOriginal
  <2>1. Types'
    BY <1>15 DEF UnlinkOriginal, Types, Steps
  <2>2. LocalAge'
    BY <1>15 DEF UnlinkOriginal, LocalAge, Types
  <2>3. TempAge'
    BY <1>15 DEF UnlinkOriginal, TempAge
  <2>4. Positions'
    BY <1>15 DEF UnlinkOriginal, Positions, Placed
  <2>5. RenameWhole'
    BY <1>15 DEF UnlinkOriginal, RenameWhole
  <2> QED
    BY <2>1, <2>2, <2>3, <2>4, <2>5
<1>16. CASE SetTime
  <2>0. /\ temp' \in FileSet /\ temp'.data = temp.data
        /\ temp'.time = listed \/ temp'.time = Now
        /\ temp \in FileSet
    <3>1. temp \in FileSet /\ listed \in 1 .. Versions
      BY <1>16 DEF SetTime, Positions, Types
    <3> QED
      BY <1>16, <3>1 DEF SetTime, FileSet
  <2>1. Types'
    BY <1>16, <2>0 DEF SetTime, Types, Steps
  <2>2. LocalAge'
    BY <1>16 DEF SetTime, LocalAge, Types
  <2>3. TempAge'
    BY <1>16, <2>0 DEF SetTime, TempAge, Types
  <2>4. Positions'
    BY <1>16 DEF SetTime, Positions, Placed, TempAge, Types, Steps
  <2>5. RenameWhole'
    BY <1>16 DEF SetTime, RenameWhole, Positions, TempAge, Types, Steps
  <2> QED
    BY <2>1, <2>2, <2>3, <2>4, <2>5
<1>17. CASE RestoreName
  <2>1. Types'
    BY <1>17 DEF RestoreName, Leave, Types, Steps
  <2>2. LocalAge'
    <3>1. CASE file' = file
      BY <1>17, <3>1 DEF RestoreName, LocalAge
    <3>2. CASE file' = temp /\ temp \in FileSet
      <4> SUFFICES ASSUME NEW i \in DOMAIN temp.data
                   PROVE  /\ temp.data[i].ver <= latest
                          /\ temp.time \in Nat => temp.time <= temp.data[i].ver
        BY <1>17, <3>2 DEF RestoreName, LocalAge
      <4> QED
        BY <3>2 DEF TempAge
    <3> QED
      BY <1>17, <3>1, <3>2 DEF RestoreName, Types
  <2>3. TempAge'
    BY <1>17 DEF RestoreName, Leave, TempAge, Types, Steps
  <2>4. Positions'
    BY <1>17 DEF RestoreName, Leave, Positions, Placed, TempAge, Types, Steps
  <2>5. RenameWhole'
    BY <1>17 DEF RestoreName, Leave, RenameWhole, Positions, TempAge, Types, Steps
  <2> QED
    BY <2>1, <2>2, <2>3, <2>4, <2>5
<1>18. CASE UNCHANGED getVars
  BY <1>18 DEF getVars, Types, LocalAge, TempAge, Positions, Placed, RenameWhole
<1> QED
  BY <1>1, <1>2, <1>3, <1>4, <1>5, <1>6, <1>7, <1>8, <1>9, <1>10, <1>11, <1>12, <1>13, <1>14, <1>15, <1>16, <1>17, <1>18 DEF GetNext, Program, Finished

-----------------------------------------------------------------------------
(* The theorems                                                            *)

LEMMA Invariance == GetSpec => []IInv
<1>1. GetInit => IInv
  BY InitIInv
<1>2. IInv /\ [GetNext]_getVars => IInv'
  BY NextIInv
<1> QED
  BY <1>1, <1>2, PTL DEF GetSpec

(* A local file that looks current holds the data of one version only: of  *)
(* the listed one or a newer one, as it was fetched after the listing, and *)
(* not of a newer one, as the remote file is still that of the time.       *)
THEOREM OneVersion == GetSpec => []CurrentIsOneVersion
<1>1. IInv => CurrentIsOneVersion
  <2> SUFFICES ASSUME IInv, LooksCurrent(latest), NEW i \in DOMAIN file.data
               PROVE  file.data[i].ver = latest
    BY DEF CurrentIsOneVersion
  <2>1. file \in FileSet /\ file.time = latest /\ latest \in Nat
    BY BoundsAssumption DEF LooksCurrent, IInv, Types
  <2>2. file.data[i].ver <= latest /\ latest <= file.data[i].ver /\ file.data[i].ver \in Nat
    BY <2>1, FileParts DEF IInv, LocalAge
  <2> QED
    BY <2>1, <2>2
<1> QED
  BY <1>1, Invariance, PTL

(* Unless a write failed, such a file is a true copy: no interrupted or    *)
(* resumed download, crash or change on the server goes unnoticed.         *)
THEOREM Whole == GetSpec => []CurrentIsWhole
<1>1. IInv => CurrentIsWhole
  <2> SUFFICES ASSUME IInv, "write" \notin failed, LooksCurrent(latest)
               PROVE  file.data = Copy(latest)
    BY DEF CurrentIsWhole
  <2>1. /\ file \in FileSet /\ file.time = latest /\ latest \in Nat
        /\ file.data \in Seq(Chunk) /\ Len(file.data) = Chunks
    BY BoundsAssumption, FileParts DEF LooksCurrent, IInv, Types
  <2>2. ASSUME NEW i \in 1 .. Chunks
        PROVE  file.data[i] = [pos |-> i, ver |-> latest]
    <3>1. i \in DOMAIN file.data /\ file.data[i] \in Chunk
      BY <2>1, BoundsAssumption
    <3>2. file.data[i].ver <= latest /\ latest <= file.data[i].ver /\ file.data[i].ver \in Nat
      BY <2>1, <3>1, FileParts DEF IInv, LocalAge
    <3>3. file.data[i].pos = i
      BY <2>1, <3>1 DEF IInv, Positions, Placed
    <3> QED
      BY <2>1, <3>1, <3>2, <3>3 DEF Chunk
  <2> QED
    BY <2>1, <2>2, BoundsAssumption DEF Copy
<1> QED
  BY <1>1, Invariance, PTL

(* With dodelete, as long as the disk takes what is written and temporary  *)
(* files can be removed, only a completely received file takes the place   *)
(* of the one that was there, unless that is emptied to make room.         *)
THEOREM ReplacedWhole == GetSpec => ReplacedByWhole
<1>1. IInv /\ [GetNext]_getVars => [dodelete /\ failed = {} /\ stage # "writeerr" => ~ReplacedByPart]_getVars
  <2> SUFFICES ASSUME IInv, GetNext, dodelete, failed = {}, stage # "writeerr", ReplacedByPart
               PROVE  FALSE
    BY DEF getVars, ReplacedByPart
  <2>1. file' # file /\ file' # NoFile /\ Len(file'.data) < Chunks
    BY DEF ReplacedByPart
  <2>2. RestoreName
    BY <2>1 DEF GetNext, Program, Finished, getVars, RemoteChanges, Die, Start, Sweep, Compare,
                spf_use_tmp_name, OpenFile, GetChunk, LoseChunk, GetReturns, RetryLogin, Relogin,
                GiveUp, EmptyOriginal, UnlinkOriginal, SetTime
  <2>3. stage \in {"restore", "quit"} /\ temp # NoFile /\ file' = temp
    BY <2>1, <2>2 DEF RestoreName
  <2>4. Len(temp.data) >= Chunks /\ Len(temp.data) \in Nat
    BY <2>3, FileParts DEF IInv, RenameWhole, Types
  <2> QED
    BY <2>1, <2>3, <2>4, BoundsAssumption
<1> QED
  BY <1>1, Invariance, PTL DEF GetSpec, ReplacedByWhole
=============================================================================
