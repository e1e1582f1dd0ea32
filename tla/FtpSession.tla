----------------------------- MODULE FtpSession -----------------------------
(***************************************************************************)
(* The FTP session of spegla: the client of jftp.c, one step per command   *)
(* it sends or per system call that can fail, driven by main, sp_sync_dir  *)
(* and get_ftp_file of spegla.c, against a server that is only known by    *)
(* its replies.                                                            *)
(*                                                                         *)
(* The server answers every command in order, and a transfer command with  *)
(* two replies (one before, one after the data), so the control connection *)
(* is a queue of replies of which ftp_req reads the oldest.  A client that *)
(* gives a transfer up without reading its second reply is one reply       *)
(* behind from then on.  A server may also fall silent with its            *)
(* connections open: only the data connection of active FTP has a timeout. *)
(*                                                                         *)
(* Remote paths are sequences of names; <<>> is "/".  The names in Dirs    *)
(* and Files are relative to the mirrored directory ("./dir/", "./file")   *)
(* and are resolved by the server against its current directory.           *)
(***************************************************************************)
EXTENDS Integers, Sequences

CONSTANTS
  Dirs,       \* directories to list, named relative to remotedir
  Files,      \* files to fetch, named relative to remotedir
  RemoteDir,  \* the string given as remotedir, an absolute path
  Dot,        \* the string "."
  None,       \* a NULL pointer
  Roots,      \* the paths RemoteDir may stand for
  Home,       \* the directory the server puts a new login in
  Tree,       \* the remote paths the server lets the client into
  Passive,    \* the values of the "passive" parameter to look at
  Retries     \* the "retries" parameter

ASSUME RetriesAssumption == Retries \in Nat

ASSUME PassiveAssumption == Passive \subseteq BOOLEAN

ASSUME NamesAssumption ==
  /\ RemoteDir \notin Dirs \cup Files \cup {Dot, None}
  /\ Dot \notin Dirs \cup Files \cup {None}
  /\ None \notin Dirs \cup Files

VARIABLES
  c,         \* struct ftp_con: its sockets, ftp_resp, directory and counters
  srv,       \* the server's end of the control connection
  pc,        \* where the program is
  op,        \* the request spegla.c is working on
  todo,      \* requests the synchronisation has still to make
  buf,       \* local of ftp_dir: the directory to return to
  tmp,       \* local of ftp_dir: does ftp_dir2 return a listing
  seekto,    \* argument of ftp_get: is this a resumed download
  rmed,      \* local rmed_orig of get_ftp_file
  got,       \* history: the last listing or file accepted as complete
  derailed,  \* history: a CWD failed or was left out, or a reply was left
  attempts   \* history: how often ftp_login or ftp_relogin was called

vars == <<c, srv, pc, op, todo, buf, tmp, seekto, rmed, got, derailed, attempts>>

-----------------------------------------------------------------------------
(* ftp_resp: the JFTP_ codes of jftp.h and the replies the client tells    *)
(* apart.  Refused stands for every other reply, Garbage for a line that   *)
(* carries no reply code.                                                  *)

JFTP_BROKEN   == 1
JFTP_WRITEERR == 4
JFTP_TIMEOUT  == 5
JFTP_ERR      == 6
JFTP_ERRNO    == 7

Garbage == 0
Refused == 500

ReplyCodes == {Garbage, Refused, 125, 150, 200, 220, 221, 226, 227, 230, 250, 331, 350}
RespCodes  == ReplyCodes \cup {JFTP_BROKEN, JFTP_WRITEERR, JFTP_TIMEOUT, JFTP_ERR, JFTP_ERRNO}

Names == Dirs \cup Files \cup {RemoteDir, Dot, None}
Ops   == [kind : {"boot", "dir"}, name : Dirs \cup {Dot}] \cup [kind : {"get"}, name : Files]

Steps == {"connect", "greeting", "user", "pass", "type", "recwd", "retry",
          "settype", "rootcd", "idle", "bye", "exit",
          "dircd", "port", "list", "read", "more", "final", "cdback", "dirret",
          "open", "rest", "retr", "getret"}

-----------------------------------------------------------------------------
(* The server (external).                                                  *)

\* the path RemoteDir stands for
Root == srv.root

\* the path the server makes of a directory argument
Resolve(name) ==
  CASE name = RemoteDir -> Root
    [] name = Dot       -> srv.cwd
    [] OTHER            -> Append(srv.cwd, name)

\* what a CWD is answered with
CwdReplies(name) == IF Resolve(name) \in Tree THEN <<250>> ELSE <<Refused>>

\* where a CWD leaves the server
CwdAfter(name) == IF ~srv.quiet /\ Resolve(name) \in Tree THEN Resolve(name) ELSE srv.cwd

\* what a LIST or RETR of a path is answered with, both replies together
TransferReplies(path) ==
  IF path \in Tree
  THEN {<<150, 226>>, <<150, Refused>>, <<125, 226>>, <<Refused>>}
  ELSE {<<Refused>>}

-----------------------------------------------------------------------------
(* Control connection: ftp_req                                             *)

\* fault: the accepted or connected data socket is forgotten
DataClosed_ListenOnly(con) == [con EXCEPT !.listen = FALSE]

\* FD_CLOSE of both data sockets
DataClosed(con) == [con EXCEPT !.listen = FALSE, !.data = FALSE]

\* fault: an errno is stored in ftp_resp instead of a JFTP_ code
IoErr_Errno(con, code) == [DataClosed(con) EXCEPT !.com = FALSE, !.resp = 100 + code]

\* the io_err exit: every socket closed
IoErr(con, code) == [DataClosed(con) EXCEPT !.com = FALSE, !.resp = code]

(* The outcomes of ftp_req after the server has added the replies "new":   *)
(* the connection after it, the replies left unread, the return value.     *)
(* There is none while it waits for a silent server: the socket of the     *)
(* control connection has no timeout.                                      *)
ftp_req(con, new) ==
  LET q == IF srv.quiet THEN srv.replies ELSE srv.replies \o new
      reply == IF Head(q) = Garbage
               THEN [con |-> [con EXCEPT !.resp = JFTP_ERR], left |-> Tail(q), res |-> -1]
               ELSE [con |-> [con EXCEPT !.resp = Head(q)], left |-> Tail(q), res |-> 0]
      broken == [con |-> IoErr(con, JFTP_BROKEN), left |-> << >>, res |-> -1]
  IN IF ~con.com
     THEN {broken}
     ELSE (IF srv.quiet THEN {} ELSE {broken}) \cup (IF q = << >> THEN {} ELSE {reply})

\* fault: any reply is taken for the expected one
Expect_Any(n, ok) == n.res = 0

\* a request that expects one of the replies "ok" and otherwise is an error
Expect(n, ok) == n.res = 0 /\ n.con.resp \in ok

\* the idiom "if (res >= 0) c->ftp_resp = JFTP_ERR" of a refused request
ErrIfRefused(n) == IF n.res = 0 THEN [n.con EXCEPT !.resp = JFTP_ERR] ELSE n.con

(* ftp_cd: the new directory is recorded before the server is asked.       *)
ftp_cd(con, name) ==
  { [n EXCEPT !.con = IF Expect(n, {250}) THEN n.con ELSE ErrIfRefused(n),
              !.res = IF Expect(n, {250}) THEN 0 ELSE -1]
    : n \in ftp_req([con EXCEPT !.remote_dir = name], CwdReplies(name)) }

-----------------------------------------------------------------------------
(* Data connection                                                         *)

\* fault: a system call that fails is an error of the request only
PortBroken_Err(con) == [con |-> [con EXCEPT !.resp = JFTP_ERR], res |-> -1]

\* a system call of ftp_port failed
PortBroken(con) == [con |-> [con EXCEPT !.resp = JFTP_BROKEN], res |-> -1]

(* The system calls of ftp_port before its command: getsockname on the     *)
(* control connection, and for active FTP the making of the listening      *)
(* socket, after the sanity check closed one that was still open.          *)
ftp_port_setup(con) ==
  LET nolisten  == [con EXCEPT !.listen = FALSE]
      getsockname_fails == PortBroken([con EXCEPT !.com = FALSE])
  IN CASE ~con.com -> {getsockname_fails}
       [] con.com /\ con.passive -> {getsockname_fails, [con |-> con, res |-> 0]}
       [] con.com /\ ~con.passive ->
            {getsockname_fails,
             PortBroken(nolisten),                              \* socket
             PortBroken([nolisten EXCEPT !.com = FALSE]),       \* bind, getsockname, listen
             [con |-> [con EXCEPT !.listen = TRUE], res |-> 0]}

\* ftp_port after its command: what became of the data connection
ftp_port_answer(n) ==
  IF n.con.passive
  THEN IF Expect(n, {227})
       THEN {[n EXCEPT !.con = [@ EXCEPT !.data = TRUE]],
             [n EXCEPT !.con = [@ EXCEPT !.data = FALSE, !.resp = JFTP_ERR], !.res = -1],
             [n EXCEPT !.con = [@ EXCEPT !.resp = JFTP_ERR], !.res = -1]}  \* no address in it
       ELSE {[n EXCEPT !.con = ErrIfRefused(n), !.res = -1]}
  ELSE IF Expect(n, {200})
       THEN {n}
       ELSE {[n EXCEPT !.con = [ErrIfRefused(n) EXCEPT !.listen = FALSE], !.res = -1]}

(* ftp_port: PORT with a listening socket, or PASV and a connect.          *)
ftp_port(con) ==
  LET setup   == ftp_port_setup(con)
      replies == {<<IF con.passive THEN 227 ELSE 200>>, <<Refused>>}
  IN { [con |-> x.con, left |-> srv.replies, res |-> -1] : x \in {y \in setup : y.res < 0} }
     \cup UNION { ftp_port_answer(n) :
                  n \in UNION { ftp_req(x.con, r) : x \in {y \in setup : y.res = 0}, r \in replies } }

(* ftp_read_data: takes the server's connection when there is none yet,    *)
(* then reads.  The accepted connection gets a timeout, that of passive    *)
(* FTP has none.                                                           *)
ftp_read_data(con) ==
  LET fail(k, code) == [con |-> [k EXCEPT !.resp = code], res |-> -1]
      accepting == ~con.data /\ con.listen
      accepted  == [con EXCEPT !.listen = FALSE]
      closed    == [accepted EXCEPT !.data = FALSE]
  IN (IF accepting
      THEN {fail(con, JFTP_ERR),                         \* select: the socket stays open
            fail(accepted, JFTP_TIMEOUT),                \* nobody connected
            fail(accepted, JFTP_BROKEN),                 \* accept
            fail(closed, JFTP_ERR)}                      \* setsockopt
      ELSE {})
     \cup {fail(IF accepting THEN closed ELSE [con EXCEPT !.data = FALSE], e) :
             e \in (IF con.passive THEN {} ELSE {JFTP_TIMEOUT}) \cup (IF srv.quiet THEN {} ELSE {JFTP_BROKEN})}
     \cup (IF (accepting \/ con.data) /\ ~srv.quiet
           THEN {[con |-> [(IF accepting THEN accepted ELSE con) EXCEPT !.data = TRUE, !.resp = 0],
                  res |-> 0]}
           ELSE {})

-----------------------------------------------------------------------------
(* Initial state: main before its login loop.                              *)

FreshCon(passive) ==
  [com |-> FALSE, listen |-> FALSE, data |-> FALSE, resp |-> 0,
   remote_dir |-> None, retries |-> Retries, passive |-> passive]

Init ==
  /\ c \in {FreshCon(p) : p \in Passive}
  /\ srv \in [replies : {<< >>}, cwd : {Home}, path : {Home}, whole : {FALSE},
              quiet : {FALSE}, root : Roots]
  /\ pc = "connect"
  /\ op = [kind |-> "boot", name |-> Dot]
  /\ todo = [kind : {"dir"}, name : Dirs] \cup [kind : {"get"}, name : Files]
  /\ buf = None
  /\ tmp = FALSE
  /\ seekto = FALSE
  /\ rmed = FALSE
  /\ got = None
  /\ derailed = FALSE
  /\ attempts = 0

\* the step an operation starts with, also after a successful login
Start(o) == CASE o.kind = "boot" -> "settype"
              [] o.kind = "dir"  -> "dircd"
              [] o.kind = "get"  -> "open"

\* a request answered: the connection, the replies left, the next step
Take(con, left, next) ==
  /\ c' = con
  /\ srv' = [srv EXCEPT !.replies = left]
  /\ pc' = next

-----------------------------------------------------------------------------
(* ftp_relogin and the loops around it                                     *)

\* ftp_relogin up to connect: every socket is closed first
Connect ==
  /\ pc = "connect"
  /\ attempts' = attempts + 1
  /\ LET closed == IoErr(c, c.resp)
     IN \/ /\ c' = [closed EXCEPT !.resp = JFTP_ERR]
           /\ srv' = [srv EXCEPT !.replies = << >>, !.quiet = FALSE]
           /\ pc' = "retry"
        \/ \E g \in {220, Refused, Garbage} :
             /\ c' = [closed EXCEPT !.com = TRUE]
             /\ srv' = [srv EXCEPT !.replies = <<g>>, !.cwd = Home, !.quiet = FALSE]
             /\ pc' = "greeting"
  /\ UNCHANGED <<op, todo, buf, tmp, seekto, rmed, got, derailed>>

\* the login dialogue: per step what the server may say and what is accepted
Dialogue == [greeting |-> [say |-> {<< >>}, ok |-> {220}],
             user |-> [say |-> {<<331>>, <<230>>, <<Refused>>}, ok |-> {331, 230}],
             pass |-> [say |-> {<<230>>, <<Refused>>}, ok |-> {230}],
             type |-> [say |-> {<<200>>, <<Refused>>}, ok |-> {200}]]

\* after TYPE I: back to the directory the session was in, unless it is "/"
AfterType == IF c.remote_dir # None /\ ~(c.remote_dir = RemoteDir /\ Root = << >>)
             THEN "recwd" ELSE Start(op)

\* a new login of a session in "/" that stays where the server put it
LeftAtHome == AfterType # "recwd" /\ c.remote_dir # None /\ srv.cwd # Root

AfterLoginStep(step, resp) ==
  CASE step = "greeting" -> "user"
    [] step = "user" -> IF resp = 230 THEN "type" ELSE "pass"
    [] step = "pass" -> "type"
    [] step = "type" -> AfterType

LoginStep(step) ==
  /\ pc = step
  /\ \E r \in Dialogue[step].say : \E n \in ftp_req(c, r) :
       IF Expect(n, Dialogue[step].ok)
       THEN /\ Take(n.con, n.left, AfterLoginStep(step, n.con.resp))
            /\ derailed' = (derailed \/ (step = "type" /\ LeftAtHome))
       ELSE /\ Take([n.con EXCEPT !.com = FALSE, !.resp = JFTP_ERR], << >>, "retry")
            /\ UNCHANGED derailed
  /\ UNCHANGED <<op, todo, buf, tmp, seekto, rmed, got, attempts>>

\* the CWD at the end of ftp_relogin
Recwd ==
  /\ pc = "recwd"
  /\ \E n \in ftp_cd(c, c.remote_dir) :
       /\ c' = n.con
       /\ srv' = [srv EXCEPT !.replies = n.left, !.cwd = CwdAfter(c.remote_dir)]
       /\ pc' = IF n.res = 0 THEN Start(op) ELSE "retry"
  /\ UNCHANGED <<op, todo, buf, tmp, seekto, rmed, got, derailed, attempts>>

(* The retry loops of main, get_ftp_file and sp_sync_dir: the test comes   *)
(* before the decrement.  main starts over with a new struct ftp_con;      *)
(* get_ftp_file resumes if the temporary file already holds something.     *)
Retry ==
  /\ pc = "retry"
  /\ c' = [c EXCEPT !.retries = @ - 1]
  /\ pc' = IF c.retries < 0 THEN "exit" ELSE "connect"
  /\ seekto' \in IF op.kind = "get" THEN BOOLEAN ELSE {seekto}
  /\ UNCHANGED <<srv, op, todo, buf, tmp, rmed, got, derailed, attempts>>

-----------------------------------------------------------------------------
(* main: after the login, and at the end                                   *)

SetType ==
  /\ pc = "settype"
  /\ \E r \in {<<200>>, <<Refused>>} : \E n \in ftp_req(c, r) :
       Take(n.con, n.left, IF n.res < 0 THEN "exit" ELSE "rootcd")
  /\ UNCHANGED <<op, todo, buf, tmp, seekto, rmed, got, derailed, attempts>>

RootCd ==
  /\ pc = "rootcd"
  /\ \E n \in ftp_cd(c, RemoteDir) :
       /\ c' = n.con
       /\ srv' = [srv EXCEPT !.replies = n.left, !.cwd = CwdAfter(RemoteDir)]
       /\ pc' = IF n.res < 0 THEN "exit" ELSE "dircd"
  /\ UNCHANGED <<op, todo, buf, tmp, seekto, rmed, got, derailed, attempts>>

\* the synchronisation takes up its next directory or file
NextOp ==
  /\ pc = "idle"
  /\ \E o \in todo : /\ op' = o
                     /\ todo' = todo \ {o}
                     /\ pc' = Start(o)
  /\ seekto' = FALSE
  /\ rmed' = FALSE
  /\ UNCHANGED <<c, srv, buf, tmp, got, derailed, attempts>>

SyncDone ==
  /\ pc = "idle"
  /\ todo = {}
  /\ pc' = "bye"
  /\ UNCHANGED <<c, srv, op, todo, buf, tmp, seekto, rmed, got, derailed, attempts>>

ftp_bye ==
  /\ pc = "bye"
  /\ \E n \in ftp_req(c, <<221>>) : Take(IoErr(n.con, n.con.resp), << >>, "exit")
  /\ UNCHANGED <<op, todo, buf, tmp, seekto, rmed, got, derailed, attempts>>

Exited == pc = "exit" /\ UNCHANGED vars

-----------------------------------------------------------------------------
(* ftp_dir and ftp_dir2                                                    *)

DirCd ==
  /\ pc = "dircd"
  /\ buf' = c.remote_dir
  /\ tmp' = FALSE
  /\ \E n \in ftp_cd(c, op.name) :
       /\ c' = n.con
       /\ srv' = [srv EXCEPT !.replies = n.left, !.cwd = CwdAfter(op.name)]
       /\ pc' = IF n.res < 0 THEN "dirret" ELSE "port"
       /\ derailed' = (derailed \/ n.res < 0)
  /\ UNCHANGED <<op, todo, seekto, rmed, got, attempts>>

IsGet == op.kind = "get"

\* fault: ftp_dir returns at once when there is no listing
DirFail_NoCdBack(con, left) == Take(con, left, "dirret") /\ UNCHANGED derailed

\* ftp_dir2 gives up: it returns NULL to ftp_dir
DirFail(con, left) == Take(con, left, "cdback") /\ UNCHANGED derailed

(* ret_bad of ftp_get; history: is a reply left behind on a connection     *)
(* that stays in use.                                                      *)
GetFail(con, left) ==
  /\ Take(DataClosed(con), left, "getret")
  /\ derailed' = (derailed \/ (left # << >> /\ con.resp \notin {JFTP_BROKEN, JFTP_TIMEOUT}))

\* ftp_dir2 cannot create its temporary file
MkstempFails ==
  /\ pc = "port" /\ ~IsGet
  /\ DirFail([c EXCEPT !.resp = JFTP_WRITEERR], srv.replies)
  /\ UNCHANGED <<op, todo, buf, tmp, seekto, rmed, got, attempts>>

\* the call of ftp_port in ftp_dir2 and in ftp_get
Port ==
  /\ pc = "port"
  /\ \E n \in ftp_port(c) :
       \/ /\ n.res = 0
          /\ Take(n.con, n.left, IF IsGet THEN (IF seekto THEN "rest" ELSE "retr") ELSE "list")
          /\ UNCHANGED derailed
       \/ /\ n.res < 0 /\ ~IsGet
          /\ DirFail(DataClosed(n.con), n.left)
       \/ /\ n.res < 0 /\ IsGet
          /\ GetFail([n.con EXCEPT !.resp = IF @ \in {JFTP_BROKEN, JFTP_TIMEOUT} THEN @ ELSE JFTP_ERR],
                     n.left)
  /\ UNCHANGED <<op, todo, buf, tmp, seekto, rmed, got, attempts>>

(* LIST or RETR.  The server decides here what the data connection will    *)
(* carry: the path, and whether all of it.                                 *)
Transfer(path, step) ==
  /\ pc = step
  /\ \E r \in TransferReplies(path) : \E n \in ftp_req(c, r) :
       LET con == ErrIfRefused(n)
       IN /\ \/ Expect(n, {150}) /\ c' = n.con /\ pc' = "read" /\ UNCHANGED derailed
             \/ ~Expect(n, {150}) /\ ~IsGet /\ c' = DataClosed(con) /\ pc' = "cdback"
                /\ UNCHANGED derailed
             \/ ~Expect(n, {150}) /\ IsGet /\ c' = DataClosed(con) /\ pc' = "getret"
                /\ derailed' = (derailed \/ (n.left # << >> /\ n.res = 0))
          /\ srv' = [srv EXCEPT !.replies = n.left, !.path = path, !.whole = (r = <<150, 226>>)]
  /\ UNCHANGED <<op, todo, buf, tmp, seekto, rmed, got, attempts>>

List == ~IsGet /\ Transfer(srv.cwd, "list")

Retr == IsGet /\ Transfer(Append(srv.cwd, op.name), "retr")

\* the first ftp_read_data of a transfer: ftp_dir2 closes nothing if it fails
Read ==
  /\ pc = "read"
  /\ \E n \in ftp_read_data(c) :
       \/ n.res = 0 /\ Take(n.con, srv.replies, "more") /\ UNCHANGED derailed
       \/ n.res < 0 /\ ~IsGet /\ DirFail(n.con, srv.replies)
       \/ n.res < 0 /\ IsGet /\ GetFail(n.con, srv.replies)
  /\ UNCHANGED <<op, todo, buf, tmp, seekto, rmed, got, attempts>>

\* the loop of reads: it ends with the data, or with a read that fails
More ==
  /\ pc = "more"
  /\ \/ ~srv.quiet /\ Take(DataClosed(c), srv.replies, "final") /\ UNCHANGED derailed
     \/ \E n \in ftp_read_data(c) :
          /\ n.res < 0
          /\ IF IsGet THEN GetFail(n.con, srv.replies) ELSE DirFail(DataClosed(n.con), srv.replies)
  /\ UNCHANGED <<op, todo, buf, tmp, seekto, rmed, got, attempts>>

\* ftp_dir2 cannot write its temporary file: the reply is read and ignored
WriteFails ==
  /\ pc = "more" /\ ~IsGet
  /\ \E n \in ftp_req(DataClosed(c), << >>) : DirFail(n.con, n.left)
  /\ UNCHANGED <<op, todo, buf, tmp, seekto, rmed, got, attempts>>

\* the reply after the data
Final ==
  /\ pc = "final"
  /\ \E n \in ftp_req(c, << >>) :
       LET broken == [n.con EXCEPT !.com = FALSE, !.resp = JFTP_BROKEN]
       IN \/ /\ Expect(n, {226})
             /\ IF IsGet THEN Take(n.con, n.left, "idle") ELSE Take(n.con, n.left, "cdback")
             /\ tmp' = ~IsGet
             /\ got' = IF IsGet THEN [op |-> op, path |-> srv.path, whole |-> srv.whole] ELSE got
             /\ UNCHANGED derailed
          \/ /\ ~Expect(n, {226}) /\ ~IsGet
             /\ IF n.res < 0 THEN DirFail(broken, << >>) ELSE DirFail(n.con, n.left)
             /\ UNCHANGED <<tmp, got>>
          \/ /\ ~Expect(n, {226}) /\ IsGet
             /\ IF n.res < 0 THEN GetFail(broken, << >>) ELSE GetFail(ErrIfRefused(n), n.left)
             /\ UNCHANGED <<tmp, got>>
  /\ UNCHANGED <<op, todo, buf, seekto, rmed, attempts>>

\* the CWD back at the end of ftp_dir: a listing is dropped if it fails
CdBack ==
  /\ pc = "cdback"
  /\ \E n \in ftp_cd(c, buf) :
       /\ c' = n.con
       /\ srv' = [srv EXCEPT !.replies = n.left, !.cwd = CwdAfter(buf)]
       /\ tmp' = (tmp /\ n.res = 0)
       /\ derailed' = (derailed \/ (n.res < 0 /\ n.con.com))
  /\ pc' = "dirret"
  /\ UNCHANGED <<op, todo, buf, seekto, rmed, got, attempts>>

(* The return of ftp_dir to main or to sp_sync_dir, which look at ftp_resp *)
(* whatever it was last set to.                                            *)
DirRet ==
  /\ pc = "dirret"
  /\ pc' = CASE tmp -> "idle"
             [] ~tmp /\ op.kind = "boot" -> "exit"
             [] ~tmp /\ op.kind = "dir" /\ c.resp \in {JFTP_BROKEN, JFTP_TIMEOUT} -> "retry"
             [] ~tmp /\ op.kind = "dir" /\ c.resp = JFTP_ERR -> "idle"
             [] OTHER -> "exit"
  /\ got' = IF tmp THEN [op |-> op, path |-> srv.path, whole |-> srv.whole] ELSE got
  /\ UNCHANGED <<c, srv, op, todo, buf, tmp, seekto, rmed, derailed, attempts>>

-----------------------------------------------------------------------------
(* ftp_get                                                                 *)

\* the local file is opened, and positioned for a resumed download
Open ==
  /\ pc = "open"
  /\ \/ pc' = "port" /\ UNCHANGED c
     \/ pc' = "getret" /\ c' = [c EXCEPT !.resp = JFTP_WRITEERR]
     \/ seekto /\ pc' = "getret" /\ c' = [c EXCEPT !.resp = JFTP_ERRNO]
  /\ UNCHANGED <<srv, op, todo, buf, tmp, seekto, rmed, got, derailed, attempts>>

Rest ==
  /\ pc = "rest"
  /\ \E r \in {<<350>>, <<Refused>>} : \E n \in ftp_req(c, r) :
       IF Expect(n, {350})
       THEN Take(n.con, n.left, "retr") /\ UNCHANGED derailed
       ELSE GetFail(ErrIfRefused(n), n.left)
  /\ UNCHANGED <<op, todo, buf, tmp, seekto, rmed, got, attempts>>

\* fault: rmed_orig is not set
GetRet_Forgets ==
  /\ pc = "getret"
  /\ pc' = CASE c.resp \in {JFTP_BROKEN, JFTP_TIMEOUT} -> "retry"
             [] c.resp = JFTP_ERR -> "idle"
             [] c.resp = JFTP_WRITEERR /\ ~rmed -> "open"
             [] OTHER -> "exit"
  /\ UNCHANGED <<c, srv, op, todo, buf, tmp, seekto, rmed, got, derailed, attempts>>

(* A failed ftp_get in get_ftp_file: retry, give this file up, make room   *)
(* once by removing the original, or quit.                                 *)
GetRet ==
  /\ pc = "getret"
  /\ pc' = CASE c.resp \in {JFTP_BROKEN, JFTP_TIMEOUT} -> "retry"
             [] c.resp = JFTP_ERR -> "idle"
             [] c.resp = JFTP_WRITEERR /\ ~rmed -> "open"
             [] OTHER -> "exit"
  /\ rmed' = (rmed \/ c.resp = JFTP_WRITEERR)
  /\ UNCHANGED <<c, srv, op, todo, buf, tmp, seekto, got, derailed, attempts>>

-----------------------------------------------------------------------------
\* the server falls silent on the connections it has (external)
Stall ==
  /\ c.com /\ ~srv.quiet
  /\ srv' = [srv EXCEPT !.quiet = TRUE]
  /\ UNCHANGED <<c, pc, op, todo, buf, tmp, seekto, rmed, got, derailed, attempts>>

\* a call that does not return
Wait == srv.quiet /\ UNCHANGED vars

Login == Connect \/ (\E s \in DOMAIN Dialogue : LoginStep(s)) \/ Recwd \/ Retry

Main == SetType \/ RootCd \/ NextOp \/ SyncDone \/ ftp_bye

Dir == DirCd \/ MkstempFails \/ List \/ WriteFails \/ CdBack \/ DirRet

Get == Open \/ Rest \/ Retr \/ GetRet

Client == Login \/ Main \/ Dir \/ Get \/ Port \/ Read \/ More \/ Final

Next == Client \/ Stall \/ Wait \/ Exited

Spec == Init /\ [][Next]_vars

(* A system call of the client returns, unless it waits for a server that  *)
(* is silent and has no timeout.                                           *)
FairSpec == Spec /\ WF_vars(Client)

-----------------------------------------------------------------------------
(* Properties                                                              *)

\* Type correctness of the session state.
TypeOK ==
  /\ c \in [com : BOOLEAN, listen : BOOLEAN, data : BOOLEAN, resp : RespCodes,
            remote_dir : Names, retries : Int, passive : BOOLEAN]
  /\ srv.replies \in Seq(ReplyCodes) /\ srv.quiet \in BOOLEAN
  /\ pc \in Steps
  /\ op \in Ops
  /\ todo \subseteq Ops
  /\ buf \in Names
  /\ {tmp, seekto, rmed, derailed} \subseteq BOOLEAN
  /\ attempts \in Nat

(* ftp_port never finds the data connection of an earlier transfer still   *)
(* open ("This shouldn't happen, data connection wasn't closed").          *)
DataClosedAtPort == pc = "port" => ~c.data

(* spegla.c goes on to its next request only over an open control          *)
(* connection: every way of losing it ends in a new login or in exit.      *)
IdleConnected == pc = "idle" => c.com

(* Unless a CWD into a directory was refused or lost, a reply was left     *)
(* behind, or a new login of a mirror of "/" stayed in its home, the       *)
(* client is between two requests in the mirrored directory, would log in  *)
(* to it again, and has read every reply.                                  *)
InStep ==
  pc = "idle" /\ ~derailed =>
    c.remote_dir = RemoteDir /\ srv.cwd = Root /\ srv.replies = << >>

\* where the program believes a request is served from
Asked(o) == IF o.name = Dot THEN Root ELSE Append(Root, o.name)

(* A listing or file that is accepted is the one asked for, and whole,     *)
(* as long as the session has not been derailed.                           *)
AcceptedIsAsked ==
  got # None /\ ~derailed => got.path = Asked(got.op) /\ got.whole

(* "What remote directory to mirror": the same of every listing, whatever  *)
(* failed before it.                                                       *)
ListingIsAsked ==
  got # None /\ got.op.kind # "get" => got.path = Asked(got.op)

(* "How many retries before quit": the first attempt to log in is followed *)
(* by as many others as the "retries" parameter says, and no more.         *)
RetriesAsDocumented == attempts <= Retries + 1

(* The "timeout" parameter, "how many seconds to wait to timeout": a       *)
(* server that falls silent is given up.                                   *)
StallEnds == srv.quiet ~> ~srv.quiet \/ pc = "exit"

(* The run ends: retries run out or all requests have been made, unless    *)
(* the server falls silent for good.                                       *)
Terminates == <>(pc = "exit" \/ srv.quiet)
=============================================================================
