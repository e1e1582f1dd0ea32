# A TLA+ model of spegla

spegla mirrors a directory of an FTP server into a local directory. One process
logs in, lists the remote directory, merges the listing with the local one,
fetches what is missing or different, removes what the server does not have
(if `dodelete` allows it), and goes down into each subdirectory. It is started
again and again, usually by cron, and must pick up whatever an earlier, failed
run left behind.

The program has no threads and one signal handler. What makes it hard is that
every system call and every reply of the server can fail, that failures are
handled by several nested retry loops which share state (`struct ftp_con`,
`cur_dir`, `sp_deletes`), that it can die between any two steps, and that its
caller may start it twice.

## 1. Inventory

| component | source | state | operations | interacts with |
|---|---|---|---|---|
| FTP client | `jftp.c` | `struct ftp_con`: control, listening and data socket, `ftp_resp`, `ftp_remote_dir`, `ftp_retries` | `ftp_login`, `ftp_relogin`, `ftp_cd`, `ftp_dir`, `ftp_get`, `ftp_bye` on `ftp_req`, `ftp_port`, `ftp_read_data` | the server; called by `main`, `sp_sync_dir`, `get_ftp_file`, which read `ftp_resp` |
| session control | `spegla.c` (`main`, `get_ftp_file`, `sp_sync_dir`) | `ftp_retries`, the request at hand | three retry loops, what to do with each error | FTP client |
| download of a file | `spegla.c`, `jftp.c`, `spf_util.c` | the local file, its temporary file, `size`, `erased`, `rmed_orig` | `get_ftp_file` with `ftp_get`, `spf_use_tmp_name`, `spf_restore_name`, `spf_new_time` | file system, FTP client |
| directory synchronisation | `spegla.c`, `spf_util.c` | two heaps, the queue of directories, `cur_dir`, `sp_deletes` | `sp_sync_dir`, `sp_get_file`, `spf_rm`, `spf_mkdir`, `spf_chmod`, `spf_symlink`, `cur_dir_cd`, `cur_dir_cdup` | all of the above, containers |
| lock file | `spegla.c` (`main`, `remove_lock`, `signal_handler`) | the file, the atexit registration, `lock_file`, `start_wd` | creation, registration, removal, signals | other processes |
| FIFO list, heap | `container.c` | ring buffer; array | push, pop, growing, shrinking | used by `sp_sync_dir` and the listings |
| circular list | `container.c` | a ring of nodes through a head without data | both ends pushed, popped and peeked, insertion at a place and in order, search, removal, walks both ways, sorting | holds the `skip` and `treatasdir` expressions |
| hash table, skip list | `container.c` | chains of elements; nodes with pointers on several levels | insertion, search, removal, walk | unused, but for an index that is never made |
| stack, Patricia tree | `container.c` | | | unused |
| listing parser | `parserow.c` | | a row of `ls -l` to type, mode, size, time | `build_remote_dir` |
| time comparison | `spf_util.c` | | `spf_time_cmp` | synchronisation |
| skipping and links | `spf_util.c`, `spegla.c` | the expressions of `skip`, `treatasdir` and `treatasdirdest` | `spf_symlink_resolve`, `spf_is_a_treatasdir`, `spf_is_a_skip` | `build_remote_dir`, `build_local_dir` |
| options | `tgetopt.c`, `spegla.c` | `struct get_opt_state`, `struct param`, `nowarn` | `get_opt_argv`, `get_opt_file`, the `set_param` functions, defaults | `main`; gives every other component its parameters |
| logging, regex, replacements | `e_err.c`, `regex/`, `missing/` | | | third-party or output only |

What correctness means for them: the session stays in step with the server,
accepts only complete answers to what it asked, and ends; a local file that looks
current is a true copy; a run ends with the remote tree, and under failures
never removes what it should keep; only one process mirrors, and the lock is
released; the containers are what their names say; a listed row is understood and
its time tells a changed file from an unchanged one; what is skipped, and which links become
directories, is what the expressions of the user say; the parameters are the last
ones written, whichever source they come from. The hazards behind these
properties are listed, each at its line, in `PROJECT.json`.

## 2. Modules

| module | models | state | actions |
|---|---|---|---|
| `FtpSession` | FTP client and session control | `c` is `struct ftp_con`, `srv` the server's end (unread replies, working directory, silence), `pc` the place in the program, `op`/`todo` the requests of the mirror | one per command sent or group of system calls, each with all its failures: `Connect`, `LoginStep`, `Recwd`, `Retry`, `SetType`, `RootCd`, `NextOp`, `DirCd`, `Port`, `List`, `Read`, `More`, `Final`, `CdBack`, `DirRet`, `Open`, `Rest`, `Retr`, `GetRet`, `ftp_bye` ... |
| `Download` | one file over several runs | the version on the server (`latest`), the `file` and its temporary file `temp` as sequences of chunks with a time, left-over temporary files (`stale`), the locals of `get_ftp_file`, what `failed` | one per step that touches a file; `Die` and `RemoteChanges` at any moment |
| `SyncDir` | the recursive merge | two trees, `cur_dir`, the stack of calls of `sp_sync_dir` with the listings still to be merged and the queue of directories, `deletes` | one per branch of the merge loop, `Descend`, `StepUp`, `LeaveDirOut`, `Return` |
| `LockFile` | the lock file | per process its statement, the atexit registration, the globals | one per statement of `main` and `remove_lock`, `Signal` and `Kill` at any of them |
| `Fifo`, `Queue` | the ring buffer and what it promises | | `fifo_push`, `fifo_pop` |
| `Heap`, `PriorityQueue` | the heap and what it promises | | `heap_push`, `heap_pop`, `heap_peek` |
| `ClQue`, `List` | the circular list and what it promises | `q_forw`, `q_back` and `q_data` of every node | one per function of `cl_que`, `cl_sort` with its two rings included |
| `Hash`, `SkipList`, `Multimap` | the hash table, the skip list and what both promise | the chains; the forward pointers of each level, the level | one per function |
| `Options` | command line, configuration file, parameters | the word, row and token the reader is at, `in_sect`, the parameters | one per kind of call of `tgetopt` (`NextWord`, `ShortOption`, `NewRow`, `SameRow`, the ends) and per kind of option, `Configure` for what is missing and the defaults |
| `ListRow` | listing parser, `spf_time_cmp` | two clocks, the remote file's time, the parsed row, the local time | `List`, `Fetch`, `Keep`, `LeaveOut`; time passes and the file changes at any moment |
| `LinkFilter` | skipping and links | `cur_dir`, the expressions, the entry at hand and its type | `AddSkip`, `AddTreat`, `BadExpression` for the options, `ReadRow`, `ReadLocal`, `TreatAsDir`, `PushUnlessSkipped` for an entry of a listing |
| `LockFile_proofs`, `Fifo_proofs`, `Download_proofs`, `FtpSession_proofs`, `SyncDir_proofs`, `ListRow_proofs`, `LinkFilter_proofs`, `Options_proofs` | theorems | | |
| `Containers` | all containers side by side | a variable `which` says which of them a behaviour is about | |
| `MCFtpSession`, `MCSyncDir`, `MCMirror`, `MCMain`, `MCListing` | instances for TLC. `MCMirror` holds `SyncDir` and `Download`, `MCMain` holds `Options` and `LockFile`, `MCListing` holds `ListRow`, `LinkFilter` and `Containers`: parts that do not share state, so that a behaviour is about one of them, which `which` says | | |

Operators named `X_Y` with a comment "fault:" are faulty variants of the
definition `X` that follows. They are not used by any specification; replacing `X` by
one shows that a property can fail.

**Abstractions.** In `FtpSession` a reply is its code as far as the client tells
codes apart, and paths are sequences of names that the server resolves against
its working directory. The server answers every command in order, and a transfer
with two replies; a client that leaves one unread is one behind from then on. EPRT
and EPSV differ from PORT and PASV in the command only. In `SyncDir` an entry
is its type, a "sig" (time and size, or link target) and a mode, which is 0 for a link, as nothing looks at it; trees are
well formed, that is, everything lies in directories (`WellFormed`, assumed of the initial trees and proved of all later ones); popping a heap
takes the least name, which is what `Heap` is checked to do, and the queue
is a sequence, which is what `Fifo` is proved to be. How a download or a
listing fails is looked into in `Download` and `FtpSession`; `SyncDir` only uses that
it may, with the outcomes those modules have. `Download` likewise lets `ftp_get` fail
wherever `FtpSession` lets it fail, and truncating the original and unlinking it are two
steps, each of which may fail. A temporary file that is removed because it is empty, and made anew, is counted as a delete in `Download` only. Failing `malloc`/`strdup` and the second `fclose` of
the same stream on the error path of `ftp_get` (undefined behaviour; `Die` covers an
abort) are left out. In `Options` a word is an option with its argument or plain text,
and a row its header and its tokens; quoting, escapes and rows of more than 1023 characters are not modelled, and
`strtol`, the parts of a URL and the names with `%s` are given as constants; an int is what lies between -`IntMax` - 1 and `IntMax`. A bundle of short options
cannot occur: every option of `go[]` that has a letter takes an argument. In `ListRow` a
row is its fields, each a number or a word; names are left to the other modules. What a
server prints (`ls -l`, the calendar, the clocks) is external. Time zones appear as a
difference between the clocks: the shift itself is the same in the listing and in the local file.
The local clock is less than a year behind and so little ahead that no file shown without its year looks older than a year less a month (`SkewAssumption`);
beyond that the guess of the year can be wrong in the other direction: with three months of two days and two times, a clock four ticks ahead violates `FetchedOnce`.
In `LinkFilter` a path is the sequence of what its slashes separate, an expression the set of the paths it
matches (an anchored one, then), and all paths are shorter than `PATH_MAX`; where the code looks at what is
behind the end of a string, any path may be there. `Loop` is the loop of `spf_symlink_resolve`, with the buffer and whether a slash has just been passed over. In the containers a node is a number, and `malloc` gives the least free one.
`SyncDir` takes the decisions of `LinkFilter` as given: it has links, and one skipped path, but no link that is treated as a directory.
Whether the listing of an empty directory has any row depends on the server: those whose listing has none are the constant `Blank`. `build_remote_dir` returns `NULL` for them (`spegla.c:279-284`) and the directory is not synchronised.
A local link in the place of a remote directory, which stays without `dodelete`, is followed by `chmod` and `opendir` (`spegla.c:643-648`); `SyncDir` takes it to lead to no directory, so that nothing is merged below it. Where it leads to one, spegla works on files outside the trees of the model.

## 3. Runs

| run | checks | states |
|---|---|---|
| `session` | `TypeOK`, `DataClosedAtPort`, `IdleConnected`, `InStep`, `AcceptedIsAsked`, `Terminates` | 104 thousand |
| `mirror` | of `SyncDir`: `Mirrored`, `InItsDirectory`, `DeletesBounded`, `NothingDeleted`, `WantedKept`, `SkippedKept`, `Terminates`; of `Download`: `CurrentIsWhole`, `CurrentIsOneVersion`, `ReplacedByWhole`, `RunEnds` | 512 thousand |
| `main` | of `Options`: `TypeOK`, `LastWins`, `AllCollected`, `WarnsOverrides`; of `LockFile`: `LockTypeOK`, `MutualExclusion`, `OnlyOwnLockRemoved`, `HoldersOwn`, `LockNotLeft`, `LockFreed` | 319 thousand |
| `listing` | of `ListRow`: `RowUnderstood`, `FetchedOnce`, `ChangeSeen`; of `LinkFilter`: `TreatedAsDocumented`, `NothingElseSkipped`; of the containers: `IndicesInBuffer`, `Contiguous`, `IsQueue`, `HeapIsPriorityQueue`, `RingIsList`, `HashIsMultimap`, `SkipListIsMultimap` | 629 thousand |
| `session_timeout` | `StallEnds` is violated | |
| `session_wrongdir` | `ListingIsAsked` is violated | |
| `session_retries` | `RetriesAsDocumented` is violated | |
| `download_clobber` | `ReplacedByWholeAlways` is violated | |
| `sync_pathmax` | `InItsDirectory` is violated | |
| `sync_skipped` | `SkippedNotTouched` is violated | |
| `sync_empty` | `CompleteMirror` is violated | |
| `options_section` | `WholeFileRead` is violated | |

**session.** Two directories, one of which cannot be entered, a file, one retry,
active and passive FTP. The login directory holds a directory of the same name as
the mirrored one, so that a session in the wrong place is not noticed by its
replies. The mirrored directory is that one or the root of the server. One retry already lets the three retry loops follow on each
other. `InStep` says that between two requests the client is where it believes to
be and has read every reply; `derailed` records the three ways in which the code
gives this up (a refused or lost CWD in `ftp_dir`, a transfer of `ftp_get` given up with a reply
unread, a new login that stays at home while the root is mirrored), and the property says there is no fourth.

**mirror, one file** (`Download`). Two chunks, two versions, two runs, one retry, a delete limit of one, with
and without `dodelete`. Two chunks suffice for a resumed download to be mixed of
two versions, two runs for one to find what the other left. `CurrentIsWhole`
rests on an order of steps: the time is set last, on the temporary file, and it is
that of the listing made before the download. `failed` records what the code overlooks: a write that
failed (`CurrentIsOneVersion` holds even so) and a temporary file that `rm_f` could not remove, which is then
renamed. `ReplacedByWhole` excepts both, and the truncation of the original in `EmptyOriginal`, which a crash
leaves as it is: there a partial file does replace a good one.

**mirror, two trees** (`SyncDir`). All pairs of trees of two names and depth two over five kinds of entry
on each side, with four parameter sets: `dodelete` with and without failures and
limit, and the same without `dodelete`. Two names give both orders of the merge,
and depth two the recursion with files after and before directories. One inner path is skipped, and the listings of the root and of one of the two
directories have no row when they are empty.
`Mirrored` says what a run without failures leaves: with `dodelete` the remote tree, without it the remote version of every plain file that both sides have; what
is below an empty directory whose listing has no row is excepted (`Overlooked`), and `sync_empty` shows the property without the exception to fail.
`SkippedKept` is about skipped paths in directories that the server has; `sync_skipped` shows that the others are not safe.

**main, the lock** (`LockFile`). Three processes, each started again and again. A process that left a lock
file keeps its identity until an operator has removed the file. `mishap` records what
the code does not provide for: a kill, a failing `atexit`, `chdir` or `unlink`, a
signal in `remove_lock` or in one of two windows of the set-up: between the open and the note of the name, and
between `malloc` and `getcwd` (`spegla.c:1384-1386`), after which `start_wd` holds anything and the `chdir` back may fail.
`LockNotLeft` says that nothing else leaves the lock file behind, `LockFreed`
that otherwise it does go away, unless its owner mirrors for ever, which a silent server can make it do (`session_timeout`).

**main, the options** (`Options`). All command lines of up to three words out of eight, with and without `TEMPDIR`, and a
number of others: each error, each special option, and that of `spegla.sh`, which reads one file for
two sections. All files of up to two rows out of seven, and longer ones with several
sections. The properties compare the state of `main` after the last option with `Written`, which says what the user wrote by the
rules of the manual page: left to right, the section in force in place of the
`configfile` option, and without a section the `[]` section or, in a file that has none, the whole file. The last case is not what the code does: `LastWins`, `AllCollected` and `WarnsOverrides` except it (`Curtailed`), and
`options_section` shows it. `IntMax` is 511, so that a number can be too large for it.

**listing.** The rows: a year of three months of two days with two times each, a clock that is a tick ahead, behind or
right, a file that is replaced once, by an older or a newer one; two years, in which every file goes from a listing
with a time to one with a day, over turns of months and of the year. The entries have every letter of
a mode in each place, the rows every layout that `parse_row` provides for. The filter: two directories, a file, a
directory, something else and thirteen links (relative, absolute, with `.`, `..` and double slashes), one expression for each
of the three options, which matches one of seven paths. `TreatedAsDocumented` and `NothingElseSkipped` compare
what is decided with where the link leads; of a link that leads upward or is written with double slashes they
only say what does not depend on its target (see below).
Each container is a refinement of what it promises. `FIFO_CHUNK` is 2 instead
of 20 (`HEAP_CHUNK` is 2 in the source), so that nine elements make the FIFO list grow and shrink twice; eight keys do that to
the heap. The circular list has four nodes and three elements of which two compare equal, enough for a node to be
first, last, alone or between others and for the sort to show whether it is stable. The hash table has
two buckets for three keys and four elements (two keys share a chain), the skip list three elements on the
two levels the code ever gives them, with `sl_NIL` just above the keys. A walk or a free returns the elements it meets: `List` and `Multimap` say that it is each of them, once.

**Deadlock** is checked in every run: a program that has ended has an explicit stuttering
action (`Exited`, `Ended`, `Finished`, `Drained`, `Stopped`, `FExited`), and so has one that waits for a silent server (`Wait`).

**Fairness.** `WF_vars(Client)`, `WF_vars(Program)`, `WF_vars(Work(p))`: a process
that can take a step is scheduled. That is what an operating system
gives, and nothing is assumed of the server, which may fall silent (`Terminates` is
then not promised), of crashes, signals or the remote file. In `LockFile` the step
`MirrorEnds` is not among them: the mirroring may take for ever.

## 4. What the code does otherwise than it says

Eight runs show a behaviour that contradicts the documentation; `PROJECT.json` has the quotations.

* `session_timeout`: only accepted data connections get `SO_RCVTIMEO` (`jftp.c:841`); a server that falls
  silent on the control connection or a passive data connection is waited for without end.
* `session_wrongdir`: `ftp_cd` records the directory before the server agrees (`jftp.c:520`), and `ftp_dir` does not restore it
  after a refused CWD; the next listings, and the next login, work in another directory.
* `session_retries`: the three loops test the counter before they decrement it (`spegla.c:400`, `657`, `1399`), and log in
  once more than `retries` says after the first attempt. `LoginsBounded` proves that it is never more than that.
* `download_clobber`: without `dodelete` the unfinished temporary file is not removed (`spf_rm` is
  a no-op) and `spf_restore_name` renames it over the good file.
* `sync_pathmax`: `cur_dir_cd` needs one character more than `spf_mkdir`, and its result is ignored (`spegla.c:645`):
  at the limit the recursive call works on the parent again.
* `sync_skipped`: `rm_rf` removes skipped files below a directory the server does not have (`spf_util.c:707`).
* `sync_empty`: a listing that is empty or has only its `total` row is taken for a failed one (`spegla.c:279-284`), so that the files of a
  directory that became empty on the server stay in the mirror. `MirrorsAll` proves that there is no other such case.
* `options_section`: without a section, and in a file without `[]`, the rows before the first header are read, not, as `spegla.1` has it, the whole file (`tgetopt.c:483`).

Others were met while modelling. They are part of the models, and the properties carry an exception for them:

* After a `select` error the listening socket stays open (`jftp.c:1022`), which the sanity check in `ftp_port` (`jftp.c:610`) finds; `DataClosedAtPort` is stated of the data socket.
* `ftp_relogin` skips the CWD for `/` (`jftp.c:500`), although a login may start elsewhere: an exception of `InStep`.
* When the temporary file cannot be opened the original is truncated and removed whatever `dodelete` says (`spegla.c:445-447`; `NothingDeleted` is stated without failures, and `ReplacedByWhole` excepts the truncation).
* Nobody looks at whether `spf_rm` removed the temporary file (`spegla.c:401`, `416`, `430`): one that stays is renamed over the file, also with `dodelete` (`failed`, excepted by `ReplacedByWhole`).
* `fwrite` is tested for `< 0`, which it never is, and `fclose` is not tested (`jftp.c:937`): a full disk goes unnoticed (`failed`).
* Without `dodelete` a link that points elsewhere is not updated (`spegla.c:612`; `Mirrored` is then stated of plain files only).
* The target of a link is compared with the dot of `./` in front (`spf_util.c:418`; line 412 takes it off a name, and line 473 off a target too): an expression that begins with `/` skips no link to what it matches, although `spegla.1` says that such links are skipped too and that all file names begin with a `/`. `NothingElseSkipped` admits both ways of writing.
* `FIFO_COUNT` of a wrapped buffer is wrong (`container.c:387`), and so is `fifo_decr` (`container.c:424`). `Fifo` with `Interleaved = TRUE` loses elements; `NeverWraps` shows that spegla's use never gets there.
* `cd_up` stops its search at the slash at the end (`spf_util.c:333`): `..` in a link is ignored, although the comment above `spf_symlink_resolve` says "shortest path regarding .. and so". The character behind a slash is not looked at, so a double slash becomes part of a name (`spf_util.c:380`). An absolute link loses its slash, and with `treatasdirdest` a character of its name (`spf_util.c:473`). `TreatedAsDocumented` and `NothingElseSkipped` are stated of links that lead downward.
* `hash_rem` leaves an element that is alone in its chain where it is (`container.c:1731`): `Sticky` in `Multimap`.
* `sl_random_level` ends at the first success and returns level 1 always (`container.c:1888`); `heap_walk` is bounded by the size of the array instead of the number of keys (`container.c:1520`); `stack_decr` does not store the new size.
* A row of the remote listing that cannot be parsed is left out, and the local file then removed as exceeding (`spegla.c:300`). `RowUnderstood` says that this does not happen to files, directories and links in the layouts modelled.
* With a clock that is behind the server's (or a time zone further west) a file of a month that has not begun here is dated a year back (`parserow.c:290`), and fetched again in a later run: the exceptions of `FetchedOnce` and `ChangeSeen`.
* The test for an executable is `|` where `&` is meant (`parserow.c:324`): a `*` at the end of any name is cut off (`star` in `parse_row`).
* In a file every token after the first argument is one more argument, a comma too (`tgetopt.c:807-862`): `skip = a, b` skips three expressions (`RowSettings` says so).
* `--` is an error to `main` (`spegla.c:1164`), although `tgetopt.h` lists it as no error; a URL without a path needs a `remotedir`, although `spegla.1` says nothing else is required.
* `%s` in `lockfile` stands for the section given last, which need not be one that was read (`spegla.c:1342`).
* A `tempdir` option frees the value of the environment variable `TEMPDIR` (`spegla.c:760`; `FreeEnviron`).
* A number is cut to an int before it is tested (`spegla.c:797`): 2^32 + 1 is taken for 1 (`ToInt`).

## 5. Proofs

`LockFile_proofs`, for any set of processes, whatever fails. Assumed is only that `Nobody` is no process (`NobodyAssumption`).

* `TypeCorrect`: `LockSpec => []LockTypeOK`.
* `HoldersOwnAlways`: `LockSpec => []HoldersOwn`. `MutualExclusion` is not inductive: it says nothing of a process about to mirror. `HoldersOwn` does: every process past the open owns the file, until it has removed it or is gone, and before the open nothing is registered, so that a process turned away cannot remove the file of another. The lemma `LocalStep` deals with all steps that leave the file alone.
* `Exclusion`, `RemovesOwn`: `MutualExclusion` and `OnlyOwnLockRemoved` follow from it.
* `NotLeft`: `LockSpec => []LockNotLeft`, from the inductive invariant `RemovalPrepared`: the creator of the lock file goes through registration and note before it can come to an exit, unless it meets with a mishap.

`Fifo_proofs`, for any `FIFO_CHUNK` of at least 2, any elements and any number of them, assuming that the user pushes before it pops (`~Interleaved`), as `sp_sync_dir` does.

* `TypeCorrect` (`IndicesInBuffer`) and `NeverWraps` (`Contiguous`): the indices stay in the buffer and `start <= end`; both together are inductive. `PushEffect` and `PopEffect` say what a step does to an unwrapped buffer, whether it is resized or not.
* `ImplementsQueue`: `FifoSpec => IsQueue`, the refinement of `Queue`: a push appends to and a pop takes the head off the sequence of the elements between `start` and `end`.

`Download_proofs`, for files of any length, any number of versions, runs and retries, and any limit of deletes. Assumed (`BoundsAssumption`, `NoFileAssumption`): the numbers are numbers, the time "now" is that of no version, `NoFile` is no file.

* `OneVersion`: `GetSpec => []CurrentIsOneVersion`. A chunk of the local file is never newer than the remote file and never older than the time of the file (`LocalAge`), because a temporary file holds only what was sent after the listing (`TempAge`) and gets its time last. A file with the time of the remote version can then hold that version only.
* `Whole`: `GetSpec => []CurrentIsWhole`, unless a write was lost: `Positions` says that the chunks of a file are in their places, and where a resumed download goes on (`erased` means from the start, `size` is the length of the temporary file).
* `ReplacedWhole`: `GetSpec => ReplacedByWhole`, an action property, from `RenameWhole`: with `dodelete` an unfinished temporary file is gone before anything is renamed, unless a write or an unlink has failed.

`FtpSession_proofs`, for any directories, files and number of retries, active and passive. Assumed: the names are different from each other (`NamesAssumption`), `retries` is a natural number.

* `TypeCorrect`, `PortFindsClosed` (`DataClosedAtPort`), `Connected` (`IdleConnected`), `LoginsBounded` (at most `Retries` + 2 calls of `ftp_login` and `ftp_relogin` together, one more than documented), `StaysInStep` (`InStep`), `AcceptsAsked` (`AcceptedIsAsked`). None is inductive. The invariant `IInv` adds which operation each step belongs to (`KindInv`), where a data connection is open (`DataInv`) and where the control connection is known to be (`ComInv`: the code `JFTP_ERR`, at which the program goes on, is never that of a lost connection), that every attempt but the first is paid for with a retry (`RetryInv`), and, until the session is derailed, which replies are unread and which directory the server and `ftp_remote_dir` are in at each step (`StepInv`).
* The lemmas `ReqOutcome`, `CdOutcome`, `PortOutcome` and `TransferAnswers` say what one request leaves behind: answered, with the rest of the replies unread, or lost, with all sockets closed. There is one lemma per action on top of them.

`SyncDir_proofs`, for any finite set of names, any depth, well-formed trees, skipped paths and parameters (`ParamsAssumption`, `TreesAssumption`).

* `DeletesWithinLimit` (`DeletesBounded`), `DeletesNothing` (`NothingDeleted`) and `KeepsWanted` (`WantedKept`), whatever fails and however short `PATH_MAX` is. They need to know that the listings of the innermost call still say what is in the trees (`Fresh`), although removals, downloads and deeper calls have changed the local tree since they were read. That holds because a call that waits for another has merged everything (`Waits`), all of `cur_dir` is local directories (`Open`) and both trees are well formed. `MergeEffect` reduces the branches of the merge loop to three kinds of change of the tree, and `MergeTree`, `DescendTree` and `StepUpTree` say what each step leaves alone.
* `StaysInDirectory` (`InItsDirectory`) and `KeepsSkipped` (`SkippedKept`), assuming that the longest path fits into `PATH_MAX` (`Fits`). The assumption is needed: with a shorter `PATH_MAX` the run `sync_pathmax` violates `InItsDirectory`. In the instance of `mirror` it holds. `PlaceInv` says that each call is one level below its caller, in the directory its caller went down to.
* `MirrorsTree`: `Spec => []Mirrored`, under `Fits`: a run without failures ends with the remote tree, but for what is skipped or below an empty directory whose listing has no row. `MirrorsAll`: `Spec => []CompleteMirror` if no listing is without rows (`Blank = {}`), the assumption that `sync_empty` shows to be needed. `MirrorInv` says of every active call that each name of its directory is mirrored with all that is below it, or still listed, queued or the one the call went down to (`NamesOK`); that the server has every queued directory, and that with `dodelete` it is there or will be made (`QueueOK`); and that the calls are nested (`Nested`), so that a change made by the innermost call stays below the directory the outer ones wait for (`CallKept`). When the outermost call returns nothing is pending, hence everything is mirrored (`AllDone`).

`ListRow_proofs`, for calendars with any number of months, days and ticks, any number of years and changes, any entries and permissions. Assumed: `SkewAssumption` on the clocks (section 2), that an entry is one (`EntriesAssumption`), that `None` is neither a number nor a file.

* `FetchesOnce` (`FetchedOnce`): not inductive, since it says nothing of the time the local file got. `IInv` adds that the row in hand and the local file have the time and granularity of listings made at some earlier moments (`Times`), and that a second fetch needs a first listing that was mistaken by a year (`Counts`, `Settled`). The core is arithmetic: `YearByMonth` says which year the test of `parse_row` on the month gives to a time, `Guessed` and `Parsed` that it is the right one or, with a clock behind, the one before, `SameListing` that two listings of one time look the same to `spf_time_cmp`.
* `SeesChange` (`ChangeSeen`): from the same invariant, by comparing the times of two listings.
* `UnderstandsRows` (`RowUnderstood`): `ModeParsed` says that `parse_file_mode` undoes what `ls` does with all twelve bits, `FieldsParsed` that the size and the date are found whatever columns are in front of them.

`LinkFilter_proofs`, for directories, links, expressions of any length and number. Assumed (`NamesAssumption`): `cur_dir` begins with the dot, names are strings.

* `TreatsAsDocumented` (`TreatedAsDocumented`) and `SkipsNothingElse` (`NothingElseSkipped`). What matters is `Resolves`: for a link that leads downward the loop of `spf_symlink_resolve` comes to the directory followed by the names of the link without its dots. It is an induction over the link, made with the least place at which the two would differ (`Least`, `UpTo`).

`Options_proofs`, for all command lines and configuration files. Assumed: words, rows, arguments and URLs are made as section 2 says (`LinesAssumption`, `FilesAssumption`, `ArgsAssumption`), an int holds the defaults (`IntAssumption`), `None` is not a value (`NoneAssumption`).

* `TypeCorrect` (`TypeOK`), `LastSettingWins` (`LastWins`), `CollectsAll` (`AllCollected`), `WarnsOfOverrides` (`WarnsOverrides`). The last three except the case of `options_section` (`Curtailed`) and speak of the end of the reading only. `IInv` says the same of every moment before it: `Applied` is the list of the settings that `main` has gone through, made of the words in front of the current one, the rows in front of the current row and the tokens in front of the current one, and `Outcome(Applied)` says that parameters, lists, warnings and `nowarn` are what these settings lead to. `Place` says where the reader is: which word it is in, that `gos_in_sect` is right for the row, that `gos_path` is the section in force at the `configfile` word, that the parameter `section` is the one in force behind the words done with, and that the file is known once a `configfile` word was met.
* A step of `main` appends one setting to `Applied` (`SettleLine`, `SettleFile`) and does to the parameters what one more setting must do (`TakesSetting`, `OutcomeStep`); a step of the reader leaves `Applied` and the parameters alone (`NextWordStep` to `OpenFileStep`). `EndOfFileStep` is where the rows of the section become what the `configfile` word stands for. Beneath it are lemmas on the community modules' `FlattenSeq`, `Reverse`, `Max` and `Min` (`FlattenStep`, `ReverseStep`, `MaxBehind`).

Only model-checked are the liveness properties (fairness and ENABLED are out of the prover's reach), `Heap` (what
a sift computes needs an induction over a recursive function) and `ClQue`, `Hash` and `SkipList` (a walk along pointers is one as
well).

## 6. Not modelled, and what is left

What could be added: an abstract specification for `Download` (a file is absent, old or current) and its refinement.

Left out for good:

* `e_err.c` (output only), `regex/` and `missing/` (third-party code);
* of `container.c` the stack and the Patricia tree, which spegla does not use and whose functions are not finished, and `fifo_find_rem` and `fifo_num_rem`, which the source calls untested and nothing calls;
* the index of a recursive listing at the end of `spf_util.c` (`spdi_` and `spd_` functions), which nothing calls;
* of `tgetopt.c` how a row is cut into tokens, and `get_opt_env` and `tgetopt_sections`, which spegla does not use;
* the lengths of strings, but for `PATH_MAX` in `SyncDir`: names that `expand_with_str` makes longer than `MAX_LINE` (`spegla.c:990`), and paths for which `spf_full_name2` and `spf_symlink_resolve` return `NULL` (`spf_util.c:411`), which ends the program at once;
* failing `malloc`.
