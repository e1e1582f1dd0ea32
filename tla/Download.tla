------------------------------ MODULE Download ------------------------------
(***************************************************************************)
(* The life of one mirrored plain file over several runs of spegla:        *)
(* get_ftp_file of spegla.c with the file operations it makes through      *)
(* ftp_get (jftp.c) and spf_util.c, the decision of sp_sync_dir to fetch   *)
(* the file, and the loss of the process between any two steps.            *)
(*                                                                         *)
(* The remote file is Chunks chunks long and is replaced now and then by a *)
(* new version.  A local file is the sequence of chunks written to it and  *)
(* a modification time, which is the version whose listing it was set from *)
(* or Now.  How ftp_get fails is the business of module FtpSession: here   *)
(* it may fail wherever it can.                                            *)
(***************************************************************************)
EXTENDS Integers, Sequences

CONSTANTS
  Chunks,      \* length of the remote file
  Versions,    \* bound: how many versions the remote file goes through
  Runs,        \* bound: how often spegla is started
  Retries,     \* the "retries" parameter
  Deleting,    \* the values of the "dodelete" parameter to look at
  Limit,       \* the "maxdelete" parameter, 0 for no limit
  NoFile,      \* no file
  Now          \* a modification time that no listing shows

ASSUME BoundsAssumption ==
  /\ Chunks \in Nat \ {0} /\ Versions \in Nat \ {0}
  /\ Runs \in Nat /\ Retries \in Nat /\ Limit \in Nat
  /\ Deleting \subseteq BOOLEAN
  /\ Now \notin Nat

Chunk == [pos : 1 .. Chunks, ver : 1 .. Versions]

\* what a local file may be
FileSet == [data : Seq(Chunk), time : (1 .. Versions) \cup {Now}]

ASSUME NoFileAssumption == NoFile \notin FileSet

VARIABLES
  latest,   \* the version of the remote file
  file,     \* the local file under its own name
  temp,     \* the temporary file of the download in progress
  stale,    \* number of temporary files that earlier runs left behind
  stage,    \* where the program is
  listed,   \* the version the listing of this run showed
  sent,     \* chunks the server has sent of the current transfer
  size,     \* local of get_ftp_file: where to resume
  erased,   \* local of get_ftp_file
  rmed,     \* local rmed_orig of get_ftp_file
  retries,  \* ftp_retries
  removed,  \* sp_deletes
  runs,     \* number of runs so far
  dodelete, \* sp_do_delete
  failed    \* history: "write" when data was lost, "unlink" when a temporary file stayed

getVars == <<latest, file, temp, stale, stage, listed, sent, size, erased, rmed,
             retries, removed, runs, dodelete, failed>>

File(data, time) == [data |-> data, time |-> time]

\* the remote file of version v
Copy(v) == [i \in 1 .. Chunks |-> [pos |-> i, ver |-> v]]

GetInit ==
  /\ latest = 1
  /\ file \in {NoFile, File(Copy(1), 1), File(Copy(1), Now)}
  /\ temp = NoFile
  /\ stale = 0
  /\ stage = "off"
  /\ listed = 1
  /\ sent = 0
  /\ size = 0
  /\ erased = FALSE
  /\ rmed = FALSE
  /\ retries = Retries
  /\ removed = 0
  /\ runs = 0
  /\ dodelete \in Deleting
  /\ failed = {}

-----------------------------------------------------------------------------
(* The world around the program                                            *)

\* the remote file is replaced
RemoteChanges ==
  /\ latest < Versions
  /\ latest' = latest + 1
  /\ UNCHANGED <<file, temp, stale, stage, listed, sent, size, erased, rmed, retries, removed, runs, dodelete, failed>>

\* the process ends, with or without a temporary file: nothing removes it
Leave ==
  /\ stage' = "off"
  /\ temp' = NoFile
  /\ stale' = IF temp = NoFile THEN stale ELSE stale + 1

\* a signal, a kill or a crash
Die ==
  /\ stage # "off"
  /\ Leave
  /\ UNCHANGED <<latest, file, listed, sent, size, erased, rmed, retries, removed, runs, dodelete, failed>>

-----------------------------------------------------------------------------
(* spf_rm and rm_f                                                         *)

\* the test of rm_f that makes it exit
DeleteLimit == Limit # 0 /\ Limit <= removed

(* spf_rm of the temporary file, then the step "next": a no-op without     *)
(* dodelete, the end of the program at the limit.  The unlink may fail,    *)
(* which is not counted; no caller looks at the result.                    *)
spf_rm_temp(next) ==
  \/ ~dodelete /\ stage' = next /\ UNCHANGED <<temp, stale, removed, failed>>
  \/ dodelete /\ DeleteLimit /\ Leave /\ UNCHANGED <<removed, failed>>
  \/ /\ dodelete /\ ~DeleteLimit
     /\ stage' = next
     /\ temp' = NoFile
     /\ removed' = IF temp = NoFile THEN removed ELSE removed + 1
     /\ UNCHANGED <<stale, failed>>
  \/ /\ dodelete /\ ~DeleteLimit /\ temp # NoFile
     /\ stage' = next
     /\ failed' = failed \cup {"unlink"}
     /\ UNCHANGED <<temp, stale, removed>>

-----------------------------------------------------------------------------
(* A run: the listings, left-over temporary files, the decision            *)

Start ==
  /\ stage = "off"
  /\ runs < Runs
  /\ runs' = runs + 1
  /\ stage' = "sweep"
  /\ listed' = latest
  /\ retries' = Retries
  /\ removed' = 0
  /\ UNCHANGED <<latest, file, temp, stale, sent, size, erased, rmed, dodelete, failed>>

(* Left-over temporary files are local files the server does not have.     *)
(* Without dodelete all of them stay, with it those rm_f fails to remove.  *)
Sweep ==
  /\ stage = "sweep"
  /\ \/ /\ stale > 0 /\ dodelete /\ ~DeleteLimit
        /\ stale' = stale - 1
        /\ removed' = removed + 1
        /\ UNCHANGED stage
     \/ /\ stale > 0 /\ dodelete /\ DeleteLimit
        /\ stage' = "off"
        /\ UNCHANGED <<stale, removed>>
     \/ /\ stage' = "compare"
        /\ UNCHANGED <<stale, removed>>
  /\ UNCHANGED <<latest, file, temp, listed, sent, size, erased, rmed, retries, runs, dodelete, failed>>

\* the test of sp_sync_dir: same time and same size as listed
LooksCurrent(v) == file # NoFile /\ file.time = v /\ Len(file.data) = Chunks

\* sp_sync_dir leaves the file alone or calls get_ftp_file
Compare ==
  /\ stage = "compare"
  /\ stage' = IF LooksCurrent(listed) THEN "off" ELSE "tmpname"
  /\ UNCHANGED <<latest, file, temp, stale, listed, sent, size, erased, rmed, retries, removed, runs, dodelete, failed>>

\* spf_use_tmp_name: mkstemp makes an empty file, or the file is skipped
spf_use_tmp_name ==
  /\ stage = "tmpname"
  /\ \/ temp' = File(<< >>, Now) /\ stage' = "open"
     \/ UNCHANGED temp /\ stage' = "off"
  /\ size' = 0
  /\ erased' = FALSE
  /\ rmed' = FALSE
  /\ UNCHANGED <<latest, file, stale, listed, sent, retries, removed, runs, dodelete, failed>>

-----------------------------------------------------------------------------
(* ftp_get                                                                 *)

\* fopen with "wb" from the start of the file, with "ab" to resume
OpenFile ==
  /\ stage = "open"
  /\ \/ /\ temp' = IF size = 0 \/ temp = NoFile THEN File(<< >>, Now) ELSE temp
        /\ sent' = size
        /\ stage' = "transfer"
     \/ /\ stage' = "writeerr"
        /\ UNCHANGED <<temp, sent>>
  /\ UNCHANGED <<latest, file, stale, listed, size, erased, rmed, retries, removed, runs, dodelete, failed>>

\* a chunk of the version the server has now arrives and is written
GetChunk ==
  /\ stage = "transfer"
  /\ sent < Chunks
  /\ sent' = sent + 1
  /\ temp' = File(Append(temp.data, [pos |-> sent + 1, ver |-> latest]), Now)
  /\ UNCHANGED <<latest, file, stale, stage, listed, size, erased, rmed, retries, removed, runs, dodelete, failed>>

\* fwrite writes nothing: its result is not negative, the loop goes on
LoseChunk ==
  /\ stage = "transfer"
  /\ sent < Chunks
  /\ sent' = sent + 1
  /\ failed' = failed \cup {"write"}
  /\ UNCHANGED <<latest, file, temp, stale, stage, listed, size, erased, rmed, retries, removed, runs, dodelete>>

\* ftp_get ends: all sent and acknowledged, refused or aborted, or cut off
GetReturns ==
  /\ stage = "transfer"
  /\ stage' \in {"retry", "giveup"} \cup (IF sent = Chunks THEN {"settime"} ELSE {})
  /\ UNCHANGED <<latest, file, temp, stale, listed, sent, size, erased, rmed, retries, removed, runs, dodelete, failed>>

-----------------------------------------------------------------------------
(* get_ftp_file after ftp_get                                              *)

\* one turn of the relogin loop, up to the removal of an empty file
RetryLogin ==
  /\ stage = "retry"
  /\ retries' = retries - 1
  /\ LET len == IF temp = NoFile THEN 0 ELSE Len(temp.data)
     IN IF retries < 0
        THEN spf_rm_temp("quit") /\ UNCHANGED <<size, erased>>
        ELSE /\ size' = IF erased THEN size ELSE len
             /\ erased' = (erased \/ len = 0)
             /\ IF ~erased /\ len = 0
                THEN spf_rm_temp("relogin")
                ELSE stage' = "relogin" /\ UNCHANGED <<temp, stale, removed, failed>>
  /\ UNCHANGED <<latest, file, listed, sent, rmed, runs, dodelete>>

\* ftp_relogin fails and the loop goes on, or the download is restarted
Relogin ==
  /\ stage = "relogin"
  /\ stage' \in {"retry", "open"}
  /\ UNCHANGED <<latest, file, temp, stale, listed, sent, size, erased, rmed, retries, removed, runs, dodelete, failed>>

\* fault: the unfinished file is not removed before the rename
GiveUp_Keeps ==
  /\ stage = "giveup"
  /\ stage' = "restore"
  /\ UNCHANGED <<latest, file, temp, stale, listed, sent, size, erased, rmed, retries, removed, runs, dodelete, failed>>

\* JFTP_ERR: the file is given up
GiveUp ==
  /\ stage = "giveup"
  /\ spf_rm_temp("restore")
  /\ UNCHANGED <<latest, file, listed, sent, size, erased, rmed, retries, runs, dodelete>>

(* JFTP_WRITEERR: the original is emptied to make room, unless the open    *)
(* with O_TRUNC fails, whatever dodelete says.  The second time the        *)
(* program quits.                                                          *)
EmptyOriginal ==
  /\ stage = "writeerr"
  /\ \/ rmed /\ Leave /\ UNCHANGED file
     \/ /\ ~rmed
        /\ stage' = "makeroom"
        /\ file' \in {file, IF file = NoFile THEN NoFile ELSE File(<< >>, Now)}
        /\ UNCHANGED <<temp, stale>>
  /\ UNCHANGED <<latest, listed, sent, size, erased, rmed, retries, removed, runs, dodelete, failed>>

\* fault: rmed_orig is not set
UnlinkOriginal_Forgets ==
  /\ stage = "makeroom"
  /\ file' \in {file, NoFile}
  /\ stage' = "open"
  /\ UNCHANGED <<latest, temp, stale, listed, sent, size, erased, rmed, retries, removed, runs, dodelete, failed>>

\* then it is removed, unless the unlink fails, and the download restarted
UnlinkOriginal ==
  /\ stage = "makeroom"
  /\ file' \in {file, NoFile}
  /\ rmed' = TRUE
  /\ stage' = "open"
  /\ UNCHANGED <<latest, temp, stale, listed, sent, size, erased, retries, removed, runs, dodelete, failed>>

\* fault: the time the remote file has now, not that of the listing
SetTime_Latest ==
  /\ stage = "settime"
  /\ temp' = [temp EXCEPT !.time = latest]
  /\ stage' = "restore"
  /\ UNCHANGED <<latest, file, stale, listed, sent, size, erased, rmed, retries, removed, runs, dodelete, failed>>

\* success: spf_chmod and spf_new_time on the temporary file, results ignored
SetTime ==
  /\ stage = "settime"
  /\ \E t \in {listed, Now} : temp' = [temp EXCEPT !.time = t]
  /\ stage' = "restore"
  /\ UNCHANGED <<latest, file, stale, listed, sent, size, erased, rmed, retries, removed, runs, dodelete, failed>>

(* spf_restore_name: if the temporary file still exists it is renamed to   *)
(* the file's own name, which may fail.                                    *)
RestoreName ==
  /\ stage \in {"restore", "quit"}
  /\ \/ /\ temp # NoFile
        /\ file' = temp
        /\ temp' = NoFile
        /\ stage' = "off"
        /\ UNCHANGED stale
     \/ Leave /\ UNCHANGED file
  /\ UNCHANGED <<latest, listed, sent, size, erased, rmed, retries, removed, runs, dodelete, failed>>

\* all runs made
Finished == stage = "off" /\ runs = Runs /\ UNCHANGED getVars

Program == \/ Sweep \/ Compare \/ spf_use_tmp_name \/ OpenFile \/ GetChunk \/ LoseChunk
           \/ GetReturns \/ RetryLogin \/ Relogin \/ GiveUp \/ EmptyOriginal \/ UnlinkOriginal
           \/ SetTime \/ RestoreName

GetNext == RemoteChanges \/ Die \/ Start \/ Program \/ Finished

GetSpec == GetInit /\ [][GetNext]_getVars

\* the program runs on: each of its calls returns
GetFairSpec == GetSpec /\ WF_getVars(Program)

-----------------------------------------------------------------------------
(* Properties                                                              *)

(* A local file that the next run will take for current, by its time and   *)
(* size, is a true copy: no crash, cut-off or resumed download, failed     *)
(* rename or removal, or change on the server can leave a damaged file     *)
(* that spegla would never repair, unless a write failed, which ftp_get    *)
(* overlooks.                                                              *)
CurrentIsWhole == "write" \notin failed /\ LooksCurrent(latest) => file.data = Copy(latest)

(* Even when writes fail unnoticed, a local file taken for current never   *)
(* mixes data of two versions of the remote file.                          *)
CurrentIsOneVersion ==
  LooksCurrent(latest) => \A i \in DOMAIN file.data : file.data[i].ver = latest

\* the local file is replaced by an unfinished one
ReplacedByPart == file # NoFile /\ file' # NoFile /\ file' # file /\ Len(file'.data) < Chunks

(* A download that breaks off, for good or for a while, does not cost the  *)
(* file that was there: with dodelete a local file is replaced by a        *)
(* completely received one only.  Three things do cost it, and are         *)
(* excepted: data that was not written, a temporary file that could not be *)
(* removed before the rename, and the emptying of the original itself when *)
(* the disk takes no new file, which a crash leaves as it is.              *)
ReplacedByWhole ==
  [][dodelete /\ failed = {} /\ stage # "writeerr" => ~ReplacedByPart]_getVars

(* "Download files to another name first and then rename them", so that a  *)
(* file is not lost to a download that fails, with or without dodelete.    *)
ReplacedByWholeAlways ==
  [][failed = {} /\ stage # "writeerr" => ~ReplacedByPart]_getVars

(* Every run ends: no combination of resumed downloads, failed logins and  *)
(* a full disk keeps get_ftp_file going round for ever.                    *)
RunEnds == stage # "off" ~> stage = "off"
=============================================================================
