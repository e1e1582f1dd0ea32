------------------------- MODULE FtpSession_proofs -------------------------
(* The session stays in step with the server, for any directories, files   *)
(* and remote trees, any number of retries, active and passive FTP, and    *)
(* whatever fails.                                                         *)
EXTENDS FtpSession, SequenceTheorems, TLAPS

Con == [com : BOOLEAN, listen : BOOLEAN, data : BOOLEAN, resp : RespCodes,
        remote_dir : Names, retries : Int, passive : BOOLEAN]

\* where a session may be, and what it may ask for from there
Place == Tree \cup {Home}
Sources == Place \cup {Append(d, n) : d \in Place, n \in Names}

Server == [replies : Seq(ReplyCodes), cwd : Place, path : Sources, whole : BOOLEAN,
           quiet : BOOLEAN, root : Roots]

\* the types of all variables; of the server also what TypeOK leaves open
Types ==
  /\ c \in Con
  /\ srv \in Server
  /\ pc \in Steps
  /\ op \in Ops
  /\ todo \subseteq Ops
  /\ buf \in Names
  /\ tmp \in BOOLEAN /\ seekto \in BOOLEAN /\ rmed \in BOOLEAN /\ derailed \in BOOLEAN
  /\ attempts \in Nat

\* what the program is at belongs to the operation at hand
KindInv ==
  /\ pc \in {"settype", "rootcd"} => op.kind = "boot"
  /\ pc \in {"dircd", "list", "cdback", "dirret"} => ~IsGet
  /\ pc \in {"open", "rest", "retr", "getret"} => IsGet
  /\ todo \subseteq {o \in Ops : o.kind # "boot"}

\* a data connection is open from PORT or PASV to the end of the transfer
DataInv == c.data => pc \in {"list", "rest", "retr", "read", "more"}

\* Where the control connection is known to be open.  The code JFTP_ERR, at
\* which spegla.c goes on with its next request, is never that of a lost one.
ComInv ==
  /\ pc \in {"idle", "read", "more"} => c.com
  /\ pc = "dirret" /\ (tmp \/ c.resp = JFTP_ERR) => c.com
  /\ pc = "getret" /\ c.resp = JFTP_ERR => c.com

\* every attempt but the first is paid for with a retry
RetryInv ==
  /\ pc # "exit" => c.retries >= -1
  /\ pc = "connect" => attempts = Retries - c.retries
  /\ pc \notin {"connect", "exit"} => attempts = Retries - c.retries + 1
  /\ attempts <= Retries + 2

-----------------------------------------------------------------------------
(* In step with the server, until derailed                                 *)

LoginSteps == {"connect", "greeting", "user", "pass", "type", "recwd", "retry"}

AtRoot == c.remote_dir = RemoteDir /\ srv.cwd = Root

\* the last reply to a transfer is all that is unread, and it tells the truth
LastReply == \E x \in {226, Refused} : srv.replies = <<x>> /\ (x = 226 => srv.whole)

\* what the server is sending, or has sent, is what was asked for
RightPath == srv.path = Asked(op)

\* no listing is to be returned before the transfer of one has ended
TmpInv == pc \in {"port", "list", "read", "more", "final"} /\ ~IsGet => ~tmp

Relogin ==
  /\ pc \in LoginSteps =>
       c.remote_dir = RemoteDir \/ (c.remote_dir = None /\ op.kind = "boot")
  /\ pc = "recwd" => c.remote_dir # None
  /\ pc \in {"settype", "rootcd"} => op.kind = "boot"

Replies ==
  /\ pc = "greeting" => Len(srv.replies) = 1
  /\ pc \in {"user", "pass", "type", "recwd", "settype", "rootcd", "idle", "dircd", "port",
             "list", "open", "rest", "retr"} => srv.replies = << >>
  /\ pc \in {"read", "more", "final"} => LastReply /\ RightPath
  /\ pc = "cdback" => srv.replies = << >> \/ \E x \in {226, Refused} : srv.replies = <<x>>
  /\ pc = "cdback" /\ tmp => RightPath /\ srv.whole

Directories ==
  /\ pc \in {"idle", "dircd", "open"} => AtRoot
  /\ pc \in {"port", "rest", "retr", "read", "more", "final"} /\ IsGet => AtRoot
  /\ pc \in {"port", "list", "read", "more", "final", "cdback"} /\ ~IsGet =>
       buf = RemoteDir /\ srv.cwd = Asked(op)

Returns ==
  /\ pc = "dirret" => c.remote_dir = RemoteDir
  /\ pc = "dirret" /\ tmp => AtRoot /\ srv.replies = << >> /\ RightPath /\ srv.whole
  /\ pc = "dirret" /\ ~tmp => c.resp # JFTP_ERR
  /\ pc = "getret" => c.remote_dir = RemoteDir
  /\ pc = "getret" /\ c.resp \notin {JFTP_BROKEN, JFTP_TIMEOUT} => AtRoot /\ srv.replies = << >>

StepInv == ~derailed => Relogin /\ Replies /\ Directories /\ Returns /\ AcceptedIsAsked

IInv == Types /\ KindInv /\ DataInv /\ ComInv /\ RetryInv /\ TmpInv /\ StepInv

-----------------------------------------------------------------------------
(* What a request leaves behind                                            *)

\* the replies a request finds once the server has added "new"
Pending(new) == IF srv.quiet THEN srv.replies ELSE srv.replies \o new

\* the parts of the connection that no request changes
Kept(con, k) == k.remote_dir = con.remote_dir /\ k.retries = con.retries /\ k.passive = con.passive

\* the oldest reply was read
Answered(con, new, n) ==
  /\ con.com /\ n.con.com
  /\ n.con.data = con.data /\ n.con.listen = con.listen
  /\ Pending(new) # << >> /\ n.left = Tail(Pending(new))
  /\ \/ n.res = 0 /\ n.con.resp = Head(Pending(new)) /\ n.con.resp \in ReplyCodes
     \/ n.res = -1 /\ n.con.resp = JFTP_ERR /\ Head(Pending(new)) = Garbage

\* the control connection was lost
Lost(n) ==
  /\ ~n.con.com /\ ~n.con.data /\ ~n.con.listen
  /\ n.con.resp = JFTP_BROKEN /\ n.res = -1 /\ n.left = << >>

\* the results of a request
Outcome == [con : Con, left : Seq(ReplyCodes), res : {0, -1}]

\* Closing the sockets changes nothing else.
LEMMA ClosedCon ==
  ASSUME NEW con \in Con
  PROVE  /\ DataClosed(con) \in Con /\ Kept(con, DataClosed(con))
         /\ DataClosed(con).com = con.com /\ DataClosed(con).resp = con.resp
         /\ ~DataClosed(con).data /\ ~DataClosed(con).listen
  BY DEF DataClosed, Con, Kept

LEMMA IoErrCon ==
  ASSUME NEW con \in Con, NEW code \in RespCodes
  PROVE  /\ IoErr(con, code) \in Con /\ Kept(con, IoErr(con, code))
         /\ ~IoErr(con, code).com /\ ~IoErr(con, code).data /\ ~IoErr(con, code).listen
         /\ IoErr(con, code).resp = code
<1> DEFINE k == DataClosed(con)
<1>1. k \in Con /\ Kept(con, k) /\ ~k.data /\ ~k.listen
  BY ClosedCon
<1>2. IoErr(con, code) = [k EXCEPT !.com = FALSE, !.resp = code]
  BY DEF IoErr
<1> HIDE DEF k
<1> QED
  BY <1>1, <1>2 DEF Con, Kept

\* ftp_req reads the oldest reply, or loses the connection.
LEMMA ReqOutcome ==
  ASSUME NEW con \in Con, NEW new \in Seq(ReplyCodes), srv \in Server,
         NEW n \in ftp_req(con, new)
  PROVE  n \in Outcome /\ Kept(con, n.con) /\ (Answered(con, new, n) \/ Lost(n))
<1>1. Pending(new) \in Seq(ReplyCodes)
  BY DEF Pending, Server
<1> DEFINE q == Pending(new)
           broken == [con |-> IoErr(con, JFTP_BROKEN), left |-> << >>, res |-> -1]
           good == [con |-> [con EXCEPT !.resp = Head(q)], left |-> Tail(q), res |-> 0]
           bad == [con |-> [con EXCEPT !.resp = JFTP_ERR], left |-> Tail(q), res |-> -1]
<1>2. \/ n = broken
      \/ con.com /\ q # << >> /\ Head(q) = Garbage /\ n = bad
      \/ con.com /\ q # << >> /\ Head(q) # Garbage /\ n = good
  BY DEF ftp_req, Pending
<1>3. CASE n = broken
  <2>1. JFTP_BROKEN \in RespCodes
    BY DEF RespCodes
  <2>2. << >> \in Seq(ReplyCodes)
    OBVIOUS
  <2>3. n.con = IoErr(con, JFTP_BROKEN) /\ n.left = << >> /\ n.res = -1
    BY <1>3
  <2>4. n.con \in Con /\ Kept(con, n.con) /\ ~n.con.com /\ ~n.con.data /\ ~n.con.listen
        /\ n.con.resp = JFTP_BROKEN
    BY <2>1, <2>3, IoErrCon, Zenon
  <2>5. n \in Outcome
    BY <1>3, <2>2, <2>3, <2>4 DEF Outcome
  <2> QED
    BY <2>3, <2>4, <2>5, Zenon DEF Lost
<1>4. CASE con.com /\ q # << >> /\ Head(q) = Garbage /\ n = bad
  <2>1. Tail(q) \in Seq(ReplyCodes)
    BY <1>1, <1>4
  <2> QED
    BY <1>4, <2>1 DEF Con, Outcome, Kept, Answered, RespCodes
<1>5. CASE con.com /\ q # << >> /\ Head(q) # Garbage /\ n = good
  <2>1. Tail(q) \in Seq(ReplyCodes) /\ Head(q) \in ReplyCodes
    BY <1>1, <1>5
  <2> QED
    BY <1>5, <2>1 DEF Con, Outcome, Kept, Answered, RespCodes
<1> QED
  BY <1>2, <1>3, <1>4, <1>5

\* A refused request leaves the connection as it is.
LEMMA ErrCon ==
  ASSUME NEW m \in Outcome
  PROVE  /\ ErrIfRefused(m) \in Con /\ Kept(m.con, ErrIfRefused(m))
         /\ ErrIfRefused(m).com = m.con.com /\ ErrIfRefused(m).data = m.con.data
         /\ ErrIfRefused(m).listen = m.con.listen
         /\ ErrIfRefused(m).resp = IF m.res = 0 THEN JFTP_ERR ELSE m.con.resp
<1>1. m.con \in Con
  BY DEF Outcome
<1> QED
  BY <1>1 DEF ErrIfRefused, Con, Kept, RespCodes

\* a CWD was answered, as expected or not
CwdAnswered(con, name, n) ==
  /\ con.com /\ n.con.com
  /\ n.con.data = con.data /\ n.con.listen = con.listen
  /\ Pending(CwdReplies(name)) # << >> /\ n.left = Tail(Pending(CwdReplies(name)))
  /\ \/ n.res = 0 /\ n.con.resp = 250 /\ Head(Pending(CwdReplies(name))) = 250
     \/ n.res = -1 /\ n.con.resp = JFTP_ERR /\ Head(Pending(CwdReplies(name))) # 250

\* ftp_cd records the new directory whatever the server says of it.
LEMMA CdOutcome ==
  ASSUME NEW con \in Con, NEW name \in Names, srv \in Server, NEW n \in ftp_cd(con, name)
  PROVE  /\ n \in Outcome
         /\ n.con.remote_dir = name /\ n.con.retries = con.retries /\ n.con.passive = con.passive
         /\ CwdAnswered(con, name, n) \/ Lost(n)
<1> DEFINE to == [con EXCEPT !.remote_dir = name]
           new == CwdReplies(name)
<1>1. to \in Con /\ to.remote_dir = name /\ to.retries = con.retries /\ to.passive = con.passive
      /\ to.com = con.com /\ to.data = con.data /\ to.listen = con.listen
  BY DEF Con
<1>2. new \in Seq(ReplyCodes)
  <2>1. 250 \in ReplyCodes /\ Refused \in ReplyCodes
    BY DEF ReplyCodes
  <2>2. <<250>> \in Seq(ReplyCodes) /\ <<Refused>> \in Seq(ReplyCodes)
    BY <2>1
  <2> QED
    BY <2>2 DEF CwdReplies
<1>3. PICK m \in ftp_req(to, new) :
        n = [m EXCEPT !.con = IF Expect(m, {250}) THEN m.con ELSE ErrIfRefused(m),
                      !.res = IF Expect(m, {250}) THEN 0 ELSE -1]
  BY DEF ftp_cd
<1> HIDE DEF to, new
<1>4. m \in Outcome /\ Kept(to, m.con) /\ (Answered(to, new, m) \/ Lost(m))
  BY <1>1, <1>2, <1>3, ReqOutcome, Zenon
<1>5. CASE Expect(m, {250})
  <2>1. m.res = 0 /\ m.con.resp = 250
    BY <1>5 DEF Expect
  <2>2. Answered(to, new, m)
    BY <1>4, <2>1 DEF Lost
  <2>3. n = [m EXCEPT !.con = m.con, !.res = 0]
    BY <1>3, <1>5
  <2>4. n \in Outcome /\ n.con = m.con /\ n.left = m.left /\ n.res = 0
    BY <1>4, <2>3 DEF Outcome
  <2>5. CwdAnswered(con, name, n)
    BY <1>1, <2>1, <2>2, <2>4 DEF CwdAnswered, Answered, new, JFTP_ERR
  <2> QED
    BY <1>1, <1>4, <2>4, <2>5, Zenon DEF Kept
<1>6. CASE ~Expect(m, {250})
  <2>1. n = [m EXCEPT !.con = ErrIfRefused(m), !.res = -1]
    BY <1>3, <1>6
  <2>3. /\ ErrIfRefused(m) \in Con /\ Kept(m.con, ErrIfRefused(m))
        /\ ErrIfRefused(m).com = m.con.com /\ ErrIfRefused(m).data = m.con.data
        /\ ErrIfRefused(m).listen = m.con.listen
        /\ ErrIfRefused(m).resp = IF m.res = 0 THEN JFTP_ERR ELSE m.con.resp
    BY <1>4, ErrCon, Zenon
  <2>4. n \in Outcome /\ n.con = ErrIfRefused(m) /\ n.left = m.left /\ n.res = -1
    BY <1>4, <2>1, <2>3 DEF Outcome
  <2>5. CASE Lost(m)
    <3>1. Lost(n)
      BY <2>3, <2>4, <2>5 DEF Lost
    <3> QED
      BY <1>1, <1>4, <2>3, <2>4, <3>1, Zenon DEF Kept
  <2>6. CASE Answered(to, new, m)
    <3>1. n.con.resp = JFTP_ERR /\ Head(Pending(new)) # 250
      BY <1>6, <2>3, <2>4, <2>6 DEF Answered, Expect, Garbage
    <3>2. con.com /\ n.con.com /\ n.con.data = con.data /\ n.con.listen = con.listen
      <4>1. n.con.data = m.con.data /\ n.con.listen = m.con.listen /\ n.con.com = m.con.com
        BY <2>3, <2>4
      <4>2. m.con.data = to.data /\ m.con.listen = to.listen /\ m.con.com /\ to.com
        BY <2>6 DEF Answered
      <4> QED
        BY <1>1, <4>1, <4>2, Zenon
    <3>3. Pending(new) # << >> /\ n.left = Tail(Pending(new))
      BY <2>4, <2>6 DEF Answered
    <3>4. CwdAnswered(con, name, n)
      BY <2>4, <3>1, <3>2, <3>3, Zenon DEF CwdAnswered, new
    <3> QED
      BY <1>1, <1>4, <2>3, <2>4, <3>4, Zenon DEF Kept
  <2> QED
    BY <1>4, <2>5, <2>6
<1> QED
  BY <1>5, <1>6

\* What ftp_read_data leaves of the connection: no data connection if it fails.
LEMMA ReadOutcome ==
  ASSUME NEW con \in Con, NEW n \in ftp_read_data(con)
  PROVE  /\ n.con \in Con /\ Kept(con, n.con) /\ n.con.com = con.com
         /\ \/ n.res = 0
            \/ n.res = -1 /\ ~n.con.data /\ n.con.resp \in {JFTP_ERR, JFTP_TIMEOUT, JFTP_BROKEN}
<1> DEFINE fail(k, code) == [con |-> [k EXCEPT !.resp = code], res |-> -1]
           accepting == ~con.data /\ con.listen
           accepted  == [con EXCEPT !.listen = FALSE]
           closed    == [accepted EXCEPT !.data = FALSE]
           hung      == [con EXCEPT !.data = FALSE]
<1>1. /\ accepted \in Con /\ Kept(con, accepted) /\ accepted.com = con.com
      /\ accepted.data = con.data
  BY DEF Con, Kept
<1>2. /\ closed \in Con /\ Kept(con, closed) /\ closed.com = con.com /\ ~closed.data
      /\ hung \in Con /\ Kept(con, hung) /\ hung.com = con.com /\ ~hung.data
  BY DEF Con, Kept
<1>3. Kept(con, con)
  BY DEF Kept
<1>4. \/ \E k \in {con, accepted} : accepting /\ \E e \in {JFTP_ERR, JFTP_TIMEOUT, JFTP_BROKEN} : n = fail(k, e)
      \/ \E k \in {closed, hung} : \E e \in {JFTP_ERR, JFTP_TIMEOUT, JFTP_BROKEN} : n = fail(k, e)
      \/ \E k \in {accepted, con} : n = [con |-> [k EXCEPT !.data = TRUE, !.resp = 0], res |-> 0]
  BY DEF ftp_read_data
<1> HIDE DEF accepted, closed, hung
<1>5. CASE \E k \in {con, accepted, closed, hung} : ~k.data /\ \E e \in {JFTP_ERR, JFTP_TIMEOUT, JFTP_BROKEN} : n = fail(k, e)
  <2>1. PICK k \in {con, accepted, closed, hung}, e \in {JFTP_ERR, JFTP_TIMEOUT, JFTP_BROKEN} :
          ~k.data /\ n = fail(k, e)
    BY <1>5
  <2>2. k \in Con /\ Kept(con, k) /\ k.com = con.com
    BY <1>1, <1>2, <1>3, <2>1
  <2>3. n.con = [k EXCEPT !.resp = e] /\ n.res = -1
    BY <2>1
  <2>4. e \in RespCodes
    BY DEF RespCodes
  <2> QED
    BY <2>1, <2>2, <2>3, <2>4 DEF Con, Kept
<1>6. CASE \E k \in {accepted, con} : n = [con |-> [k EXCEPT !.data = TRUE, !.resp = 0], res |-> 0]
  <2>1. PICK k \in {accepted, con} : n = [con |-> [k EXCEPT !.data = TRUE, !.resp = 0], res |-> 0]
    BY <1>6
  <2>2. k \in Con /\ Kept(con, k) /\ k.com = con.com
    BY <1>1, <1>3
  <2>3. n.con = [k EXCEPT !.data = TRUE, !.resp = 0] /\ n.res = 0
    BY <2>1
  <2>4. 0 \in RespCodes
    BY DEF RespCodes, ReplyCodes, Garbage
  <2> QED
    BY <2>2, <2>3, <2>4 DEF Con, Kept
<1> QED
  BY <1>1, <1>2, <1>4, <1>5, <1>6

\* A system call of ftp_port that fails counts as a lost connection.
LEMMA SetupOutcome ==
  ASSUME NEW con \in Con, NEW x \in ftp_port_setup(con)
  PROVE  /\ x.con \in Con /\ Kept(con, x.con)
         /\ x.res = 0 \/ (x.res = -1 /\ x.con.resp = JFTP_BROKEN)
<1> DEFINE nolisten == [con EXCEPT !.listen = FALSE]
           listening == [con EXCEPT !.listen = TRUE]
           shut == [con EXCEPT !.com = FALSE]
           both == [nolisten EXCEPT !.com = FALSE]
<1>1. \A k \in {con, nolisten, listening, shut, both} : k \in Con /\ Kept(con, k)
  BY DEF Con, Kept
<1>2. \/ \E k \in {nolisten, shut, both} : x = PortBroken(k)
      \/ \E k \in {con, listening} : x = [con |-> k, res |-> 0]
  BY DEF ftp_port_setup, Con
<1> HIDE DEF nolisten, listening, shut, both
<1>3. CASE \E k \in {nolisten, shut, both} : x = PortBroken(k)
  <2>1. PICK k \in {nolisten, shut, both} : x = PortBroken(k)
    BY <1>3
  <2>2. k \in Con /\ Kept(con, k)
    BY <1>1
  <2>3. x.con = [k EXCEPT !.resp = JFTP_BROKEN] /\ x.res = -1
    BY <2>1 DEF PortBroken
  <2> QED
    BY <2>2, <2>3 DEF Con, Kept, RespCodes
<1>4. CASE \E k \in {con, listening} : x = [con |-> k, res |-> 0]
  BY <1>1, <1>4
<1> QED
  BY <1>2, <1>3, <1>4

\* A refusal, or an address that cannot be used, is an error of the request.
LEMMA AnswerOutcome ==
  ASSUME NEW m \in Outcome, NEW n \in ftp_port_answer(m),
         m.res = -1 => m.con.resp \in {JFTP_ERR, JFTP_BROKEN}
  PROVE  /\ n \in Outcome /\ Kept(m.con, n.con) /\ n.left = m.left /\ n.con.com = m.con.com
         /\ \/ n.res = 0 /\ m.res = 0
            \/ n.res = -1 /\ n.con.resp = IF m.res = 0 THEN JFTP_ERR ELSE m.con.resp
<1> DEFINE k == m.con
           err == ErrIfRefused(m)
           connected == [k EXCEPT !.data = TRUE]
           unconnected == [k EXCEPT !.data = FALSE, !.resp = JFTP_ERR]
           noaddress == [k EXCEPT !.resp = JFTP_ERR]
           unlistened == [err EXCEPT !.listen = FALSE]
<1>1. k \in Con /\ m.left \in Seq(ReplyCodes) /\ m.res \in {0, -1}
  BY DEF Outcome
<1>2. \/ m.res = 0 /\ n \in {m, [m EXCEPT !.con = connected]}
      \/ m.res = 0 /\ \E l \in {unconnected, noaddress} : n = [m EXCEPT !.con = l, !.res = -1]
      \/ \E l \in {err, unlistened} : n = [m EXCEPT !.con = l, !.res = -1]
  BY DEF ftp_port_answer, Expect
<1>3. connected \in Con /\ Kept(k, connected) /\ connected.com = k.com
  BY <1>1 DEF Con, Kept
<1>4. \A l \in {unconnected, noaddress} :
        l \in Con /\ Kept(k, l) /\ l.com = k.com /\ l.resp = JFTP_ERR
  BY <1>1 DEF Con, Kept, RespCodes
<1>5. /\ err \in Con /\ Kept(k, err) /\ err.com = k.com
      /\ err.resp = IF m.res = 0 THEN JFTP_ERR ELSE k.resp
  BY ErrCon
<1> HIDE DEF err
<1>6. \A l \in {err, unlistened} :
        /\ l \in Con /\ Kept(k, l) /\ l.com = k.com
        /\ l.resp = IF m.res = 0 THEN JFTP_ERR ELSE k.resp
  BY <1>5 DEF Con, Kept
<1> HIDE DEF connected, unconnected, noaddress, unlistened
<1>7. CASE m.res = 0 /\ n \in {m, [m EXCEPT !.con = connected]}
  <2>1. Kept(k, k)
    BY DEF Kept
  <2> QED
    BY <1>1, <1>3, <1>7, <2>1 DEF Outcome
<1>8. CASE m.res = 0 /\ \E l \in {unconnected, noaddress} : n = [m EXCEPT !.con = l, !.res = -1]
  <2>1. PICK l \in {unconnected, noaddress} : n = [m EXCEPT !.con = l, !.res = -1]
    BY <1>8
  <2>2. l \in Con /\ Kept(k, l) /\ l.com = k.com /\ l.resp = JFTP_ERR
    BY <1>4
  <2>3. n \in Outcome /\ n.con = l /\ n.left = m.left /\ n.res = -1
    BY <1>1, <2>1, <2>2 DEF Outcome
  <2> QED
    BY <1>8, <2>2, <2>3
<1>9. CASE \E l \in {err, unlistened} : n = [m EXCEPT !.con = l, !.res = -1]
  <2>1. PICK l \in {err, unlistened} : n = [m EXCEPT !.con = l, !.res = -1]
    BY <1>9
  <2>2. /\ l \in Con /\ Kept(k, l) /\ l.com = k.com
        /\ l.resp = IF m.res = 0 THEN JFTP_ERR ELSE k.resp
    BY <1>6
  <2>3. n \in Outcome /\ n.con = l /\ n.left = m.left /\ n.res = -1
    BY <1>1, <2>1, <2>2 DEF Outcome
  <2> QED
    BY <2>2, <2>3
<1> QED
  BY <1>2, <1>7, <1>8, <1>9

\* the command of ftp_port was answered
PortAnswered(n) ==
  /\ n.con.com
  /\ n.res = 0 \/ (n.res = -1 /\ n.con.resp = JFTP_ERR)
  /\ \E r \in ReplyCodes : Pending(<<r>>) # << >> /\ n.left = Tail(Pending(<<r>>))

\* it was not: a system call failed or the connection was lost
PortLost(n) ==
  n.res = -1 /\ n.con.resp = JFTP_BROKEN /\ (n.left = srv.replies \/ n.left = << >>)

LEMMA PortOutcome ==
  ASSUME NEW con \in Con, srv \in Server, NEW n \in ftp_port(con)
  PROVE  n \in Outcome /\ Kept(con, n.con) /\ (PortAnswered(n) \/ PortLost(n))
<1> DEFINE setup == ftp_port_setup(con)
           replies == {<<IF con.passive THEN 227 ELSE 200>>, <<Refused>>}
<1>1. \/ \E x \in setup : x.res < 0 /\ n = [con |-> x.con, left |-> srv.replies, res |-> -1]
      \/ \E x \in setup : x.res = 0 /\ \E r \in replies : \E m \in ftp_req(x.con, r) :
           n \in ftp_port_answer(m)
  BY DEF ftp_port
<1>2. CASE \E x \in setup : x.res < 0 /\ n = [con |-> x.con, left |-> srv.replies, res |-> -1]
  <2>1. PICK x \in setup : x.res < 0 /\ n = [con |-> x.con, left |-> srv.replies, res |-> -1]
    BY <1>2
  <2>2. /\ x.con \in Con /\ Kept(con, x.con)
        /\ x.res = 0 \/ (x.res = -1 /\ x.con.resp = JFTP_BROKEN)
    BY SetupOutcome, Zenon
  <2>3. srv.replies \in Seq(ReplyCodes)
    BY DEF Server
  <2>4. x.con.resp = JFTP_BROKEN
    BY <2>1, <2>2
  <2> QED
    BY <2>1, <2>2, <2>3, <2>4 DEF Outcome, PortLost
<1>3. CASE \E x \in setup : x.res = 0 /\ \E r \in replies : \E m \in ftp_req(x.con, r) :
             n \in ftp_port_answer(m)
  <2>1. PICK x \in setup, r \in replies : x.res = 0 /\ \E m \in ftp_req(x.con, r) :
             n \in ftp_port_answer(m)
    BY <1>3
  <2>2. PICK m \in ftp_req(x.con, r) : n \in ftp_port_answer(m)
    BY <2>1
  <2>3. x.con \in Con /\ Kept(con, x.con)
    BY SetupOutcome, Zenon
  <2>4. PICK v \in ReplyCodes : r = <<v>>
    <3>1. 227 \in ReplyCodes /\ 200 \in ReplyCodes /\ Refused \in ReplyCodes
      BY DEF ReplyCodes
    <3> QED
      BY <3>1
  <2>5. r \in Seq(ReplyCodes)
    BY <2>4
  <2>6. m \in Outcome /\ Kept(x.con, m.con) /\ (Answered(x.con, r, m) \/ Lost(m))
    BY <2>2, <2>3, <2>5, ReqOutcome, Zenon
  <2>7. /\ m.res = -1 => m.con.resp \in {JFTP_ERR, JFTP_BROKEN}
        /\ m.res = 0 \/ m.res = -1
    BY <2>6 DEF Answered, Lost
  <2>8. /\ n \in Outcome /\ Kept(m.con, n.con) /\ n.left = m.left /\ n.con.com = m.con.com
        /\ \/ n.res = 0 /\ m.res = 0
           \/ n.res = -1 /\ n.con.resp = IF m.res = 0 THEN JFTP_ERR ELSE m.con.resp
    BY <2>2, <2>6, <2>7, AnswerOutcome, Zenon
  <2>9. Kept(con, n.con)
    BY <2>3, <2>6, <2>8, Zenon DEF Kept
  <2>10. CASE Answered(x.con, r, m)
    <3>1. Pending(<<v>>) # << >> /\ n.left = Tail(Pending(<<v>>))
      BY <2>4, <2>8, <2>10 DEF Answered
    <3>2. n.con.com
      BY <2>8, <2>10 DEF Answered
    <3>3. n.res = 0 \/ (n.res = -1 /\ n.con.resp = JFTP_ERR)
      BY <2>8, <2>10 DEF Answered
    <3> QED
      BY <2>8, <2>9, <3>1, <3>2, <3>3, Zenon DEF PortAnswered
  <2>11. CASE Lost(m)
    BY <2>8, <2>9, <2>11 DEF Lost, PortLost
  <2> QED
    BY <2>6, <2>10, <2>11
<1> QED
  BY <1>1, <1>2, <1>3

-----------------------------------------------------------------------------
(* The invariant                                                           *)

\* What was accepted stays right while nothing else is.
LEMMA StillAccepted ==
  ASSUME StepInv, got' = got, srv'.root = srv.root, derailed \/ ~derailed, derailed => derailed'
  PROVE  ~derailed' => AcceptedIsAsked'
  BY DEF StepInv, AcceptedIsAsked, Asked, Root

\* The types when only the connections, the step and the history change.
LEMMA TypesKept ==
  ASSUME Types, c' \in Con, srv' \in Server, pc' \in Steps, derailed' \in BOOLEAN,
         UNCHANGED <<op, todo, buf, tmp, seekto, rmed, attempts>>
  PROVE  Types'
<1>1. tmp' \in BOOLEAN /\ seekto' \in BOOLEAN /\ rmed' \in BOOLEAN
  BY Zenon DEF Types
<1> QED
  BY <1>1 DEF Types

\* The parts of an operation.
LEMMA OpParts ==
  ASSUME Types
  PROVE  /\ op.kind \in {"boot", "dir", "get"} /\ op.name \in Names
         /\ IsGet => op.name \in Files /\ op.name \notin {Dot, RemoteDir}
         /\ ~IsGet => op.name = Dot \/ op.name \in Dirs
         /\ ~IsGet => op.name # RemoteDir
         /\ Start(op) = CASE op.kind = "boot" -> "settype"
                          [] op.kind = "dir"  -> "dircd"
                          [] op.kind = "get"  -> "open"
  BY NamesAssumption DEF Types, Ops, Names, Start, IsGet

\* What reading replies leaves of the server.
LEMMA TakeServer ==
  ASSUME srv \in Server, NEW left \in Seq(ReplyCodes), NEW con, NEW next, Take(con, left, next)
  PROVE  /\ c' = con /\ pc' = next /\ srv' \in Server
         /\ srv'.replies = left /\ srv'.cwd = srv.cwd /\ srv'.path = srv.path
         /\ srv'.whole = srv.whole /\ srv'.root = srv.root
  BY DEF Take, Server

\* What a CWD leaves of it.
LEMMA CdServer ==
  ASSUME srv \in Server, NEW left \in Seq(ReplyCodes), NEW name \in Names,
         srv' = [srv EXCEPT !.replies = left, !.cwd = CwdAfter(name)]
  PROVE  /\ srv' \in Server
         /\ srv'.replies = left /\ srv'.cwd = CwdAfter(name) /\ srv'.path = srv.path
         /\ srv'.whole = srv.whole /\ srv'.root = srv.root
<1>1. CwdAfter(name) \in Place
  BY DEF CwdAfter, Place, Server
<1> QED
  BY <1>1 DEF Server

\* A request of a client that has read everything gets the answer to it.
LEMMA PendingNew ==
  ASSUME srv \in Server, srv.replies = << >>, NEW new \in Seq(ReplyCodes), Pending(new) # << >>
  PROVE  Pending(new) = new /\ ~srv.quiet
<1>1. << >> \o new = new
  OBVIOUS
<1> QED
  BY <1>1 DEF Pending

\* With one reply to it, nothing is left to read after it.
LEMMA OneReply ==
  ASSUME srv \in Server, srv.replies = << >>, NEW v \in ReplyCodes, NEW con, NEW n,
         Answered(con, <<v>>, n)
  PROVE  n.left = << >> /\ (n.res = 0 => n.con.resp = v)
<1>1. <<v>> \in Seq(ReplyCodes) /\ Tail(<<v>>) = << >> /\ Head(<<v>>) = v
  OBVIOUS
<1>2. Pending(<<v>>) # << >> /\ n.left = Tail(Pending(<<v>>))
      /\ (n.res = 0 => n.con.resp = Head(Pending(<<v>>)))
  BY DEF Answered
<1>3. Pending(<<v>>) = <<v>>
  BY <1>1, <1>2, PendingNew, Zenon
<1> QED
  BY <1>1, <1>2, <1>3, Zenon

\* Without a request there is only what was left to read.
LEMMA PendingOld ==
  ASSUME srv \in Server
  PROVE  Pending(<< >>) = srv.replies
  BY DEF Pending, Server

\* Reading the last reply of a transfer leaves nothing to read.
LEMMA LastRead ==
  ASSUME srv \in Server, LastReply, NEW con, NEW n, Answered(con, << >>, n)
  PROVE  n.left = << >> /\ (n.res = 0 /\ n.con.resp = 226 => srv.whole)
<1>1. PICK x \in {226, Refused} : srv.replies = <<x>> /\ (x = 226 => srv.whole)
  BY DEF LastReply
<1>2. Tail(<<x>>) = << >> /\ Head(<<x>>) = x
  OBVIOUS
<1>3. n.left = Tail(Pending(<< >>)) /\ (n.res = 0 => n.con.resp = Head(Pending(<< >>)))
  BY DEF Answered
<1>4. Pending(<< >>) = <<x>>
  BY <1>1, PendingOld
<1> QED
  BY <1>1, <1>2, <1>3, <1>4, Zenon

\* What the server makes of a name.
LEMMA Resolved ==
  /\ Resolve(RemoteDir) = Root
  /\ Resolve(Dot) = srv.cwd
  /\ \A x \in Dirs : Resolve(x) = Append(srv.cwd, x)
<1>1. \A x \in Dirs : x # RemoteDir /\ x # Dot
  BY NamesAssumption
<1>2. RemoteDir # Dot
  BY NamesAssumption
<1>3. Resolve(RemoteDir) = Root
  BY <1>2 DEF Resolve
<1>4. Resolve(Dot) = srv.cwd
  BY <1>2 DEF Resolve
<1>5. \A x \in Dirs : Resolve(x) = Append(srv.cwd, x)
  BY <1>1 DEF Resolve
<1> QED
  BY <1>3, <1>4, <1>5

\* So the answer to a CWD tells where the server is.
LEMMA CwdInStep ==
  ASSUME srv \in Server, srv.replies = << >>, NEW con, NEW name, NEW n, CwdAnswered(con, name, n)
  PROVE  /\ n.left = << >>
         /\ n.res = 0 => CwdAfter(name) = Resolve(name)
<1>1. 250 \in ReplyCodes /\ Refused \in ReplyCodes
  BY DEF ReplyCodes
<1>2. CwdReplies(name) \in Seq(ReplyCodes)
  BY <1>1 DEF CwdReplies
<1>3. Pending(CwdReplies(name)) # << >> /\ n.left = Tail(Pending(CwdReplies(name)))
      /\ (n.res = 0 => Head(Pending(CwdReplies(name))) = 250)
  BY DEF CwdAnswered
<1>4. Pending(CwdReplies(name)) = CwdReplies(name) /\ ~srv.quiet
  BY <1>2, <1>3, PendingNew, Zenon
<1>5. CASE Resolve(name) \in Tree
  <2>1. CwdReplies(name) = <<250>> /\ CwdAfter(name) = Resolve(name)
    BY <1>4, <1>5, Zenon DEF CwdReplies, CwdAfter
  <2> QED
    BY <1>3, <1>4, <2>1
<1>6. CASE Resolve(name) \notin Tree
  <2>1. CwdReplies(name) = <<Refused>>
    BY <1>6, Zenon DEF CwdReplies
  <2> QED
    BY <1>3, <1>4, <2>1 DEF Refused
<1> QED
  BY <1>5, <1>6

LEMMA ConnectInv ==
  ASSUME IInv, Connect
  PROVE  IInv'
<1> DEFINE closed == IoErr(c, c.resp)
<1>1. Types /\ KindInv /\ DataInv /\ ComInv /\ RetryInv /\ TmpInv /\ StepInv
  BY DEF IInv
<1>2. c \in Con /\ srv \in Server /\ c.resp \in RespCodes
  BY <1>1 DEF Types, Con
<1>3. /\ closed \in Con /\ Kept(c, closed) /\ ~closed.com /\ ~closed.data /\ ~closed.listen
  BY <1>2, IoErrCon, Zenon
<1> HIDE DEF closed
<1>4. /\ pc = "connect" /\ attempts' = attempts + 1
      /\ \/ /\ c' = [closed EXCEPT !.resp = JFTP_ERR]
            /\ srv' = [srv EXCEPT !.replies = << >>, !.quiet = FALSE]
            /\ pc' = "retry"
         \/ \E g \in {220, Refused, Garbage} :
              /\ c' = [closed EXCEPT !.com = TRUE]
              /\ srv' = [srv EXCEPT !.replies = <<g>>, !.cwd = Home, !.quiet = FALSE]
              /\ pc' = "greeting"
  BY DEF Connect, closed
<1>5. /\ op' = op /\ todo' = todo /\ buf' = buf /\ tmp' = tmp /\ seekto' = seekto
      /\ rmed' = rmed /\ got' = got /\ derailed' = derailed
  BY DEF Connect
<1>6. c' \in Con /\ ~c'.data /\ c'.remote_dir = c.remote_dir /\ c'.retries = c.retries
  BY <1>3, <1>4 DEF Con, Kept, RespCodes
<1>7. /\ srv' \in Server /\ srv'.root = srv.root
      /\ pc' = "greeting" => Len(srv'.replies) = 1
  <2>1. \A g \in {220, Refused, Garbage} : <<g>> \in Seq(ReplyCodes)
    BY DEF ReplyCodes
  <2>2. Home \in Place /\ << >> \in Seq(ReplyCodes)
    BY DEF Place
  <2>3. CASE srv' = [srv EXCEPT !.replies = << >>, !.quiet = FALSE] /\ pc' = "retry"
    BY <1>2, <2>2, <2>3 DEF Server
  <2>4. CASE /\ \E g \in {220, Refused, Garbage} :
                  srv' = [srv EXCEPT !.replies = <<g>>, !.cwd = Home, !.quiet = FALSE]
             /\ pc' = "greeting"
    <3>1. PICK g \in {220, Refused, Garbage} :
            srv' = [srv EXCEPT !.replies = <<g>>, !.cwd = Home, !.quiet = FALSE]
      BY <2>4
    <3>2. srv' \in Server /\ srv'.root = srv.root /\ srv'.replies = <<g>>
      BY <1>2, <2>1, <2>2, <3>1 DEF Server
    <3> QED
      BY <3>2
  <2> QED
    BY <1>4, <2>3, <2>4
<1>8. Types'
  <2>1. tmp' \in BOOLEAN /\ seekto' \in BOOLEAN /\ rmed' \in BOOLEAN /\ derailed' \in BOOLEAN
    BY <1>1, <1>5, Zenon DEF Types
  <2> QED
    BY <1>1, <1>4, <1>5, <1>6, <1>7, <2>1 DEF Types, Steps
<1>9. KindInv' /\ DataInv' /\ ComInv' /\ RetryInv' /\ TmpInv'
  BY <1>1, <1>4, <1>5, <1>6, <1>2, RetriesAssumption DEF KindInv, DataInv, ComInv, RetryInv, TmpInv, IsGet, Types, Con
<1>10. StepInv'
  <2>1. ~derailed' => AcceptedIsAsked'
    BY <1>1, <1>5, <1>7, StillAccepted, Zenon
  <2>2. ~derailed' => Relogin' /\ Replies' /\ Directories' /\ Returns'
    BY <1>1, <1>4, <1>5, <1>6, <1>7 DEF StepInv, Relogin, Replies, Directories, Returns, LoginSteps
  <2> QED
    BY <2>1, <2>2 DEF StepInv
<1> QED
  BY <1>8, <1>9, <1>10 DEF IInv

LEMMA RetryLoopInv ==
  ASSUME IInv, Retry
  PROVE  IInv'
<1>1. Types /\ KindInv /\ DataInv /\ ComInv /\ RetryInv /\ TmpInv /\ StepInv
  BY DEF IInv
<1>2. /\ pc = "retry" /\ c' = [c EXCEPT !.retries = @ - 1]
      /\ pc' = IF c.retries < 0 THEN "exit" ELSE "connect"
      /\ srv' = srv /\ op' = op /\ todo' = todo /\ buf' = buf /\ tmp' = tmp
      /\ rmed' = rmed /\ got' = got /\ derailed' = derailed /\ attempts' = attempts
  BY DEF Retry
<1>3. c' \in Con /\ c'.data = c.data /\ c'.remote_dir = c.remote_dir
      /\ c'.retries = c.retries - 1 /\ c.retries \in Int
  BY <1>1, <1>2 DEF Types, Con
<1>4. Types'
  <2>1. seekto' \in BOOLEAN
    BY <1>1, Zenon DEF Types, Retry
  <2>2. tmp' \in BOOLEAN /\ rmed' \in BOOLEAN /\ derailed' \in BOOLEAN
    BY <1>1, <1>2, Zenon DEF Types
  <2> QED
    BY <1>1, <1>2, <1>3, <2>1, <2>2 DEF Types, Steps
<1>5. KindInv' /\ DataInv' /\ ComInv' /\ TmpInv'
  BY <1>1, <1>2, <1>3 DEF KindInv, DataInv, ComInv, TmpInv, IsGet
<1>6. RetryInv'
  BY <1>1, <1>2, <1>3, RetriesAssumption DEF RetryInv, Types
<1>7. StepInv'
  <2>1. ~derailed' => AcceptedIsAsked'
    BY <1>1, <1>2, StillAccepted, Zenon
  <2>2. ~derailed' => Relogin' /\ Replies' /\ Directories' /\ Returns'
    BY <1>1, <1>2, <1>3 DEF StepInv, Relogin, Replies, Directories, Returns, LoginSteps
  <2> QED
    BY <2>1, <2>2 DEF StepInv
<1> QED
  BY <1>4, <1>5, <1>6, <1>7 DEF IInv

LEMMA RecwdInv ==
  ASSUME IInv, Recwd
  PROVE  IInv'
<1>1. Types /\ KindInv /\ DataInv /\ ComInv /\ RetryInv /\ TmpInv /\ StepInv
  BY DEF IInv
<1>2. c \in Con /\ srv \in Server /\ c.remote_dir \in Names
  BY <1>1 DEF Types, Con
<1>3. PICK n \in ftp_cd(c, c.remote_dir) :
        /\ c' = n.con
        /\ srv' = [srv EXCEPT !.replies = n.left, !.cwd = CwdAfter(c.remote_dir)]
        /\ pc' = IF n.res = 0 THEN Start(op) ELSE "retry"
  BY DEF Recwd
<1>4. /\ pc = "recwd" /\ op' = op /\ todo' = todo /\ buf' = buf /\ tmp' = tmp /\ seekto' = seekto
      /\ rmed' = rmed /\ got' = got /\ derailed' = derailed /\ attempts' = attempts
  BY DEF Recwd
<1>5. /\ n \in Outcome
      /\ n.con.remote_dir = c.remote_dir /\ n.con.retries = c.retries
      /\ CwdAnswered(c, c.remote_dir, n) \/ Lost(n)
  BY <1>2, CdOutcome, Zenon
<1>6. c' \in Con /\ n.left \in Seq(ReplyCodes) /\ c'.remote_dir = c.remote_dir /\ c'.retries = c.retries
  BY <1>3, <1>5 DEF Outcome
<1>7. c.data = FALSE /\ ~c'.data
  <2>1. c.data = FALSE
    BY <1>1, <1>2, <1>4 DEF DataInv, Con
  <2> QED
    BY <1>3, <1>5, <2>1 DEF CwdAnswered, Lost
<1>8. /\ srv' \in Server
      /\ srv'.replies = n.left /\ srv'.cwd = CwdAfter(c.remote_dir) /\ srv'.root = srv.root
  BY <1>2, <1>3, <1>6, CdServer, Zenon
<1>9. /\ op.kind \in {"boot", "dir", "get"}
      /\ pc' = IF n.res # 0 THEN "retry"
               ELSE CASE op.kind = "boot" -> "settype"
                      [] op.kind = "dir"  -> "dircd"
                      [] op.kind = "get"  -> "open"
  BY <1>1, <1>3, OpParts
<1>10. Types'
  <2>1. derailed' \in BOOLEAN
    BY <1>1, <1>4, Zenon DEF Types
  <2>2. pc' \in Steps
    BY <1>9 DEF Steps
  <2> QED
    BY <1>1, <1>4, <1>6, <1>8, <2>1, <2>2, TypesKept, Zenon
<1>11. KindInv' /\ DataInv' /\ ComInv' /\ RetryInv' /\ TmpInv'
  BY <1>1, <1>4, <1>6, <1>7, <1>9 DEF KindInv, DataInv, ComInv, RetryInv, TmpInv, IsGet
<1>12. StepInv'
  <2>1. ~derailed' => AcceptedIsAsked'
    BY <1>1, <1>4, <1>8, StillAccepted, Zenon
  <2>2. ASSUME ~derailed
        PROVE  /\ c.remote_dir = RemoteDir /\ srv.replies = << >>
               /\ n.res = 0 => srv'.replies = << >> /\ srv'.cwd = srv'.root
    <3>1. c.remote_dir = RemoteDir /\ srv.replies = << >>
      BY <1>1, <1>4, <2>2 DEF StepInv, Relogin, Replies, LoginSteps
    <3>2. CASE CwdAnswered(c, c.remote_dir, n)
      <4>1. n.left = << >> /\ (n.res = 0 => CwdAfter(c.remote_dir) = Resolve(c.remote_dir))
        BY <1>2, <3>1, <3>2, CwdInStep, Zenon
      <4>2. Resolve(c.remote_dir) = srv.root
        BY <3>1, Resolved DEF Root
      <4> QED
        BY <1>8, <3>1, <4>1, <4>2
    <3>3. CASE Lost(n)
      BY <3>1, <3>3 DEF Lost
    <3> QED
      BY <1>5, <3>2, <3>3
  <2>3. ~derailed' => Relogin' /\ Replies' /\ Directories' /\ Returns'
    BY <1>4, <1>6, <1>9, <2>2 DEF Relogin, Replies, Directories, Returns, LoginSteps, AtRoot, Root, IsGet
  <2> QED
    BY <2>1, <2>3 DEF StepInv
<1> QED
  BY <1>10, <1>11, <1>12 DEF IInv

\* The login dialogue: one reply per command, and a greeting before the first.
LEMMA DialogueReplies ==
  ASSUME NEW s \in DOMAIN Dialogue
  PROVE  /\ s \in {"greeting", "user", "pass", "type"}
         /\ s = "greeting" => Dialogue[s].say = {<< >>}
         /\ s # "greeting" => \A r \in Dialogue[s].say : \E v \in ReplyCodes : r = <<v>>
         /\ \A r \in Dialogue[s].say : r \in Seq(ReplyCodes)
<1>1. s \in {"greeting", "user", "pass", "type"}
  BY DEF Dialogue
<1>2. 331 \in ReplyCodes /\ 230 \in ReplyCodes /\ 200 \in ReplyCodes /\ Refused \in ReplyCodes
  BY DEF ReplyCodes
<1>3. /\ Dialogue.greeting.say = {<< >>}
      /\ Dialogue.user.say = {<<331>>, <<230>>, <<Refused>>}
      /\ Dialogue.pass.say = {<<230>>, <<Refused>>}
      /\ Dialogue.type.say = {<<200>>, <<Refused>>}
  BY DEF Dialogue
<1>4. s # "greeting" => \A r \in Dialogue[s].say : \E v \in ReplyCodes : r = <<v>>
  BY <1>1, <1>2, <1>3
<1>5. s = "greeting" => Dialogue[s].say = {<< >>}
  BY <1>3
<1>6. << >> \in Seq(ReplyCodes) /\ \A v \in ReplyCodes : <<v>> \in Seq(ReplyCodes)
  OBVIOUS
<1> QED
  BY <1>1, <1>4, <1>5, <1>6

LEMMA LoginStepInv ==
  ASSUME IInv, NEW s \in DOMAIN Dialogue, LoginStep(s)
  PROVE  IInv'
<1>1. Types /\ KindInv /\ DataInv /\ ComInv /\ RetryInv /\ TmpInv /\ StepInv
  BY DEF IInv
<1>2. c \in Con /\ srv \in Server
  BY <1>1 DEF Types
<1>0. PICK r \in Dialogue[s].say : \E n \in ftp_req(c, r) :
       IF Expect(n, Dialogue[s].ok)
       THEN /\ Take(n.con, n.left, AfterLoginStep(s, n.con.resp))
            /\ derailed' = (derailed \/ (s = "type" /\ LeftAtHome))
       ELSE /\ Take([n.con EXCEPT !.com = FALSE, !.resp = JFTP_ERR], << >>, "retry")
            /\ UNCHANGED derailed
  BY DEF LoginStep
<1>3. PICK n \in ftp_req(c, r) :
       IF Expect(n, Dialogue[s].ok)
       THEN /\ Take(n.con, n.left, AfterLoginStep(s, n.con.resp))
            /\ derailed' = (derailed \/ (s = "type" /\ LeftAtHome))
       ELSE /\ Take([n.con EXCEPT !.com = FALSE, !.resp = JFTP_ERR], << >>, "retry")
            /\ UNCHANGED derailed
  BY <1>0
<1>4. /\ pc = s /\ op' = op /\ todo' = todo /\ buf' = buf /\ tmp' = tmp /\ seekto' = seekto
      /\ rmed' = rmed /\ got' = got /\ attempts' = attempts
  BY DEF LoginStep
<1>5. pc \in {"greeting", "user", "pass", "type"} /\ r \in Seq(ReplyCodes)
  BY <1>3, <1>4, DialogueReplies, Zenon
<1>6. n \in Outcome /\ Kept(c, n.con) /\ (Answered(c, r, n) \/ Lost(n))
  BY <1>2, <1>3, <1>5, ReqOutcome, Zenon
<1>7. n.con \in Con /\ n.left \in Seq(ReplyCodes) /\ << >> \in Seq(ReplyCodes)
  BY <1>6 DEF Outcome
<1>8. ~c.data /\ ~n.con.data
  <2>1. c.data = FALSE
    BY <1>1, <1>2, <1>5 DEF DataInv, Con
  <2> QED
    BY <1>6, <2>1 DEF Answered, Lost
<1>9. /\ op.kind \in {"boot", "dir", "get"}
      /\ Start(op) = CASE op.kind = "boot" -> "settype"
                       [] op.kind = "dir"  -> "dircd"
                       [] op.kind = "get"  -> "open"
  BY <1>1, OpParts
<1>10. CASE Expect(n, Dialogue[s].ok)
  <2>1. Take(n.con, n.left, AfterLoginStep(s, n.con.resp))
        /\ derailed' = (derailed \/ (s = "type" /\ LeftAtHome))
    BY <1>3, <1>10, Zenon
  <2>2. Answered(c, r, n)
    BY <1>6, <1>10 DEF Expect, Lost
  <2>3. /\ c' = n.con /\ pc' = AfterLoginStep(s, n.con.resp) /\ srv' \in Server
        /\ srv'.replies = n.left /\ srv'.cwd = srv.cwd /\ srv'.root = srv.root
    BY <1>2, <1>7, <2>1, TakeServer, Zenon
  <2>4. \/ pc # "type" /\ pc' \in {"user", "pass", "type"}
        \/ pc = "type" /\ pc' = AfterType /\ (pc' = "recwd" \/ pc' = Start(op))
    BY <1>4, <1>5, <2>3 DEF AfterLoginStep, AfterType
  <2>5. Types'
    <3>1. derailed' \in BOOLEAN
      <4>1. derailed \in BOOLEAN
        BY <1>1, Zenon DEF Types
      <4>2. (s = "type" /\ LeftAtHome) \in BOOLEAN
        BY Zenon DEF LeftAtHome
      <4> QED
        BY <2>1, <4>1, <4>2, Zenon
    <3>2. pc' \in Steps
      BY <1>9, <2>4 DEF Steps
    <3>3. c' \in Con
      BY <1>7, <2>3
    <3> QED
      BY <1>1, <1>4, <2>3, <3>1, <3>2, <3>3, TypesKept, Zenon
  <2>6. c'.remote_dir = c.remote_dir /\ c'.retries = c.retries /\ ~c'.data
    BY <1>6, <1>8, <2>3 DEF Kept
  <2>7. KindInv' /\ DataInv' /\ ComInv' /\ RetryInv' /\ TmpInv'
    BY <1>1, <1>4, <1>5, <1>9, <2>4, <2>6
    DEF KindInv, DataInv, ComInv, RetryInv, TmpInv, IsGet
  <2>8. StepInv'
    <3>1. ~derailed' => ~derailed
      BY <2>1
    <3>2. ~derailed' => AcceptedIsAsked'
      BY <1>1, <1>4, <2>3, <3>1, StillAccepted
    <3>3. ASSUME ~derailed
          PROVE  srv'.replies = << >>
      <4>1. Pending(r) # << >> /\ n.left = Tail(Pending(r))
        BY <2>2 DEF Answered
      <4>2. CASE s = "greeting"
        <5>1. r = << >> /\ Pending(r) = srv.replies
          BY <1>2, <4>2, DialogueReplies, PendingOld
        <5>2. Len(srv.replies) = 1 /\ srv.replies \in Seq(ReplyCodes)
          BY <1>1, <1>2, <1>4, <3>3, <4>2 DEF StepInv, Replies, Server
        <5> QED
          BY <2>3, <4>1, <5>1, <5>2
      <4>3. CASE s # "greeting"
        <5>1. PICK v \in ReplyCodes : r = <<v>>
          BY <4>3, DialogueReplies, Zenon
        <5>2. srv.replies = << >>
          BY <1>1, <1>4, <1>5, <3>3, <4>3 DEF StepInv, Replies
        <5>3. Pending(r) = r
          BY <1>2, <1>5, <4>1, <5>2, PendingNew, Zenon
        <5>4. Tail(<<v>>) = << >>
          OBVIOUS
        <5> QED
          BY <2>3, <4>1, <5>1, <5>3, <5>4, Zenon
      <4> QED
        BY <4>2, <4>3
    <3>4. ~derailed =>
            c.remote_dir = RemoteDir \/ (c.remote_dir = None /\ op.kind = "boot")
      BY <1>1, <1>4, <1>5 DEF StepInv, Relogin, LoginSteps
    <3>5. ASSUME ~derailed', pc = "type"
          PROVE  /\ pc' = "recwd" => c.remote_dir # None
                 /\ pc' # "recwd" => c.remote_dir = None \/ (c.remote_dir = RemoteDir /\ srv.cwd = srv.root)
      BY <1>4, <1>9, <2>1, <2>4, <3>1, <3>4, <3>5 DEF AfterType, LeftAtHome, Root
    <3>6. ~derailed' => Relogin'
      BY <1>4, <1>9, <2>4, <2>6, <3>1, <3>4, <3>5 DEF Relogin, LoginSteps
    <3>7. ~derailed' => Replies'
      BY <1>9, <2>4, <3>1, <3>3 DEF Replies
    <3>8. ~derailed' => Directories' /\ Returns'
      <4>1. RemoteDir # None
        BY NamesAssumption
      <4> QED
        BY <1>4, <1>9, <2>3, <2>4, <2>6, <3>1, <3>4, <3>5, <4>1
        DEF Directories, Returns, AtRoot, Root
    <3> QED
      BY <3>2, <3>6, <3>7, <3>8 DEF StepInv
  <2> QED
    BY <2>5, <2>7, <2>8 DEF IInv
<1>11. CASE ~Expect(n, Dialogue[s].ok)
  <2>1. Take([n.con EXCEPT !.com = FALSE, !.resp = JFTP_ERR], << >>, "retry") /\ derailed' = derailed
    BY <1>3, <1>11, Zenon
  <2>2. /\ c' = [n.con EXCEPT !.com = FALSE, !.resp = JFTP_ERR] /\ pc' = "retry" /\ srv' \in Server
        /\ srv'.replies = << >> /\ srv'.root = srv.root
    BY <1>2, <1>7, <2>1, TakeServer, Zenon
  <2>3. c' \in Con /\ c'.remote_dir = c.remote_dir /\ c'.retries = c.retries /\ ~c'.data
    BY <1>6, <1>7, <1>8, <2>2 DEF Kept, Con, RespCodes
  <2>4. Types'
    <3>1. derailed' \in BOOLEAN
      BY <1>1, <2>1, Zenon DEF Types
    <3>2. pc' \in Steps
      BY <2>2 DEF Steps
    <3> QED
      BY <1>1, <1>4, <2>2, <2>3, <3>1, <3>2, TypesKept, Zenon
  <2>5. KindInv' /\ DataInv' /\ ComInv' /\ RetryInv' /\ TmpInv'
    BY <1>1, <1>4, <1>5, <2>2, <2>3 DEF KindInv, DataInv, ComInv, RetryInv, TmpInv, IsGet
  <2>6. StepInv'
    <3>1. ~derailed' => AcceptedIsAsked'
      BY <1>1, <1>4, <2>1, <2>2, StillAccepted, Zenon
    <3>2. ~derailed' => Relogin' /\ Replies' /\ Directories' /\ Returns'
      BY <1>1, <1>4, <1>5, <2>1, <2>2, <2>3
      DEF StepInv, Relogin, Replies, Directories, Returns, LoginSteps
    <3> QED
      BY <3>1, <3>2 DEF StepInv
  <2> QED
    BY <2>4, <2>5, <2>6 DEF IInv
<1> QED
  BY <1>10, <1>11

LEMMA SetTypeInv ==
  ASSUME IInv, SetType
  PROVE  IInv'
<1>1. Types /\ KindInv /\ DataInv /\ ComInv /\ RetryInv /\ TmpInv /\ StepInv
  BY DEF IInv
<1>2. c \in Con /\ srv \in Server
  BY <1>1 DEF Types
<1>3. PICK r \in {<<200>>, <<Refused>>} : \E n \in ftp_req(c, r) :
        Take(n.con, n.left, IF n.res < 0 THEN "exit" ELSE "rootcd")
  BY DEF SetType
<1>4. PICK n \in ftp_req(c, r) : Take(n.con, n.left, IF n.res < 0 THEN "exit" ELSE "rootcd")
  BY <1>3
<1>5. /\ pc = "settype" /\ op' = op /\ todo' = todo /\ buf' = buf /\ tmp' = tmp /\ seekto' = seekto
      /\ rmed' = rmed /\ got' = got /\ derailed' = derailed /\ attempts' = attempts
  BY DEF SetType
<1>6. PICK v \in ReplyCodes : r = <<v>>
  <2>1. 200 \in ReplyCodes /\ Refused \in ReplyCodes
    BY DEF ReplyCodes
  <2> QED
    BY <2>1
<1>7. r \in Seq(ReplyCodes)
  BY <1>6
<1>8. n \in Outcome /\ Kept(c, n.con) /\ (Answered(c, r, n) \/ Lost(n))
  BY <1>2, <1>4, <1>7, ReqOutcome, Zenon
<1>9. n.con \in Con /\ n.left \in Seq(ReplyCodes)
  BY <1>8 DEF Outcome
<1>10. /\ c' = n.con /\ srv' \in Server
       /\ pc' = IF n.res < 0 THEN "exit" ELSE "rootcd"
       /\ srv'.replies = n.left /\ srv'.cwd = srv.cwd /\ srv'.root = srv.root
  BY <1>2, <1>4, <1>9, TakeServer, Zenon
<1>11. c' \in Con /\ c'.remote_dir = c.remote_dir /\ c'.retries = c.retries /\ ~c'.data
  <2>1. c.data = FALSE
    BY <1>1, <1>2, <1>5 DEF DataInv, Con
  <2> QED
    BY <1>8, <1>9, <1>10, <2>1 DEF Answered, Lost, Kept
<1>12. pc' \in {"exit", "rootcd"} /\ (pc' = "rootcd" => n.res = 0)
  BY <1>8, <1>10 DEF Outcome
<1>13. Types'
  <2>1. derailed' \in BOOLEAN
    BY <1>1, <1>5, Zenon DEF Types
  <2>2. pc' \in Steps
    BY <1>12 DEF Steps
  <2> QED
    BY <1>1, <1>5, <1>10, <1>11, <2>1, <2>2, TypesKept, Zenon
<1>14. KindInv' /\ DataInv' /\ ComInv' /\ RetryInv' /\ TmpInv'
  BY <1>1, <1>5, <1>11, <1>12 DEF KindInv, DataInv, ComInv, RetryInv, TmpInv, IsGet
<1>15. StepInv'
  <2>1. ~derailed' => AcceptedIsAsked'
    BY <1>1, <1>5, <1>10, StillAccepted, Zenon
  <2>2. ~derailed /\ pc' = "rootcd" => srv'.replies = << >>
    <3>1. ~derailed => srv.replies = << >>
      BY <1>1, <1>5 DEF StepInv, Replies
    <3>2. n.res = 0 => Answered(c, <<v>>, n)
      BY <1>6, <1>8 DEF Lost
    <3> QED
      BY <1>2, <1>10, <1>12, <3>1, <3>2, OneReply, Zenon
  <2>3. ~derailed' => Relogin' /\ Replies' /\ Directories' /\ Returns'
    BY <1>1, <1>5, <1>12, <2>2 DEF KindInv, Relogin, Replies, Directories, Returns, LoginSteps
  <2> QED
    BY <2>1, <2>3 DEF StepInv
<1> QED
  BY <1>13, <1>14, <1>15 DEF IInv

LEMMA RootCdInv ==
  ASSUME IInv, RootCd
  PROVE  IInv'
<1>1. Types /\ KindInv /\ DataInv /\ ComInv /\ RetryInv /\ TmpInv /\ StepInv
  BY DEF IInv
<1>2. c \in Con /\ srv \in Server /\ RemoteDir \in Names
  BY <1>1 DEF Types, Names
<1>3. PICK n \in ftp_cd(c, RemoteDir) :
       /\ c' = n.con
       /\ srv' = [srv EXCEPT !.replies = n.left, !.cwd = CwdAfter(RemoteDir)]
       /\ pc' = IF n.res < 0 THEN "exit" ELSE "dircd"
  BY DEF RootCd
<1>4. /\ pc = "rootcd" /\ op' = op /\ todo' = todo /\ buf' = buf /\ tmp' = tmp /\ seekto' = seekto
      /\ rmed' = rmed /\ got' = got /\ derailed' = derailed /\ attempts' = attempts
  BY DEF RootCd
<1>5. /\ n \in Outcome
      /\ n.con.remote_dir = RemoteDir /\ n.con.retries = c.retries
      /\ CwdAnswered(c, RemoteDir, n) \/ Lost(n)
  BY <1>2, CdOutcome, Zenon
<1>6. c' \in Con /\ n.left \in Seq(ReplyCodes) /\ c'.remote_dir = RemoteDir /\ c'.retries = c.retries
      /\ pc' \in {"exit", "dircd"} /\ (pc' = "dircd" => n.res = 0)
  BY <1>3, <1>5 DEF Outcome
<1>7. c.data = FALSE /\ ~c'.data
  <2>1. c.data = FALSE
    BY <1>1, <1>2, <1>4 DEF DataInv, Con
  <2> QED
    BY <1>3, <1>5, <2>1 DEF CwdAnswered, Lost
<1>8. /\ srv' \in Server
      /\ srv'.replies = n.left /\ srv'.cwd = CwdAfter(RemoteDir) /\ srv'.root = srv.root
  BY <1>2, <1>3, <1>6, CdServer, Zenon
<1>9. Types'
  <2>1. derailed' \in BOOLEAN
    BY <1>1, <1>4, Zenon DEF Types
  <2>2. pc' \in Steps
    BY <1>6 DEF Steps
  <2> QED
    BY <1>1, <1>4, <1>6, <1>8, <2>1, <2>2, TypesKept, Zenon
<1>10. KindInv' /\ DataInv' /\ ComInv' /\ RetryInv' /\ TmpInv'
  BY <1>1, <1>4, <1>6, <1>7 DEF KindInv, DataInv, ComInv, RetryInv, TmpInv, IsGet
<1>11. StepInv'
  <2>1. ~derailed' => AcceptedIsAsked'
    BY <1>1, <1>4, <1>8, StillAccepted, Zenon
  <2>2. ~derailed /\ pc' = "dircd" => srv'.replies = << >> /\ srv'.cwd = srv'.root
    <3>1. ~derailed => srv.replies = << >>
      BY <1>1, <1>4 DEF StepInv, Replies
    <3>2. n.res = 0 => CwdAnswered(c, RemoteDir, n)
      BY <1>5 DEF Lost
    <3>3. ~derailed /\ pc' = "dircd" => n.left = << >> /\ CwdAfter(RemoteDir) = Resolve(RemoteDir)
      BY <1>2, <1>6, <3>1, <3>2, CwdInStep, Zenon
    <3> QED
      BY <1>8, <3>3, Resolved DEF Root
  <2>3. ~derailed' => Relogin' /\ Replies' /\ Directories' /\ Returns'
    BY <1>4, <1>6, <2>2 DEF Relogin, Replies, Directories, Returns, LoginSteps, AtRoot, Root
  <2> QED
    BY <2>1, <2>3 DEF StepInv
<1> QED
  BY <1>9, <1>10, <1>11 DEF IInv

LEMMA NextOpInv ==
  ASSUME IInv, NextOp
  PROVE  IInv'
<1>1. Types /\ KindInv /\ DataInv /\ ComInv /\ RetryInv /\ TmpInv /\ StepInv
  BY DEF IInv
<1>2. PICK o \in todo : op' = o /\ todo' = todo \ {o} /\ pc' = Start(o)
  BY DEF NextOp
<1>3. /\ pc = "idle" /\ c' = c /\ srv' = srv /\ buf' = buf /\ tmp' = tmp
      /\ got' = got /\ derailed' = derailed /\ attempts' = attempts
      /\ seekto' = FALSE /\ rmed' = FALSE
  BY DEF NextOp
<1>4. o \in Ops /\ o.kind \in {"dir", "get"}
  BY <1>1 DEF KindInv, Types, Ops
<1>5. pc' = IF o.kind = "dir" THEN "dircd" ELSE "open"
  BY <1>2, <1>4 DEF Start
<1>6. c \in Con /\ ~c.data
  BY <1>1, <1>3 DEF DataInv, Types
<1>7. Types'
  <2>1. tmp' \in BOOLEAN /\ derailed' \in BOOLEAN /\ seekto' \in BOOLEAN /\ rmed' \in BOOLEAN
    BY <1>1, <1>3, Zenon DEF Types
  <2> QED
    BY <1>1, <1>2, <1>3, <1>4, <1>5, <2>1 DEF Types, Steps
<1>8. KindInv' /\ DataInv' /\ ComInv' /\ RetryInv' /\ TmpInv'
  BY <1>1, <1>2, <1>3, <1>4, <1>5, <1>6 DEF KindInv, DataInv, ComInv, RetryInv, TmpInv, IsGet
<1>9. StepInv'
  <2>1. ~derailed' => AcceptedIsAsked'
    BY <1>1, <1>3, StillAccepted, Zenon
  <2>2. ~derailed' => Relogin' /\ Replies' /\ Directories' /\ Returns'
    BY <1>1, <1>3, <1>5
    DEF StepInv, Relogin, Replies, Directories, Returns, LoginSteps, AtRoot, Root
  <2> QED
    BY <2>1, <2>2 DEF StepInv
<1> QED
  BY <1>7, <1>8, <1>9 DEF IInv

LEMMA SyncDoneInv ==
  ASSUME IInv, SyncDone
  PROVE  IInv'
<1>1. Types /\ KindInv /\ DataInv /\ ComInv /\ RetryInv /\ TmpInv /\ StepInv
  BY DEF IInv
<1>2. /\ pc = "idle" /\ pc' = "bye" /\ c' = c /\ srv' = srv /\ op' = op /\ todo' = todo
      /\ buf' = buf /\ tmp' = tmp /\ seekto' = seekto /\ rmed' = rmed
      /\ got' = got /\ derailed' = derailed /\ attempts' = attempts
  BY DEF SyncDone
<1>3. Types'
  <2>1. derailed' \in BOOLEAN
    BY <1>1, <1>2, Zenon DEF Types
  <2>2. c' \in Con /\ srv' \in Server /\ pc' \in Steps
    BY <1>1, <1>2 DEF Types, Steps
  <2> QED
    BY <1>1, <1>2, <2>1, <2>2, TypesKept, Zenon
<1>4. KindInv' /\ DataInv' /\ ComInv' /\ RetryInv' /\ TmpInv'
  BY <1>1, <1>2 DEF KindInv, DataInv, ComInv, RetryInv, TmpInv, IsGet
<1>5. StepInv'
  <2>1. ~derailed' => AcceptedIsAsked'
    BY <1>1, <1>2, StillAccepted, Zenon
  <2>2. ~derailed' => Relogin' /\ Replies' /\ Directories' /\ Returns'
    BY <1>2 DEF Relogin, Replies, Directories, Returns, LoginSteps
  <2> QED
    BY <2>1, <2>2 DEF StepInv
<1> QED
  BY <1>3, <1>4, <1>5 DEF IInv

LEMMA ByeInv ==
  ASSUME IInv, ftp_bye
  PROVE  IInv'
<1>1. Types /\ KindInv /\ DataInv /\ ComInv /\ RetryInv /\ TmpInv /\ StepInv
  BY DEF IInv
<1>2. c \in Con /\ srv \in Server
  BY <1>1 DEF Types
<1>3. PICK n \in ftp_req(c, <<221>>) : Take(IoErr(n.con, n.con.resp), << >>, "exit")
  BY DEF ftp_bye
<1>4. /\ pc = "bye" /\ op' = op /\ todo' = todo /\ buf' = buf /\ tmp' = tmp /\ seekto' = seekto
      /\ rmed' = rmed /\ got' = got /\ derailed' = derailed /\ attempts' = attempts
  BY DEF ftp_bye
<1>5. <<221>> \in Seq(ReplyCodes) /\ << >> \in Seq(ReplyCodes)
  <2>1. 221 \in ReplyCodes
    BY DEF ReplyCodes
  <2> QED
    BY <2>1
<1>6. n \in Outcome
  BY <1>2, <1>3, <1>5, ReqOutcome, Zenon
<1>7. n.con \in Con /\ n.con.resp \in RespCodes
  BY <1>6 DEF Outcome, Con
<1>8. c' = IoErr(n.con, n.con.resp) /\ pc' = "exit" /\ srv' \in Server /\ srv'.root = srv.root
  BY <1>2, <1>3, <1>5, TakeServer, Zenon
<1>9. c' \in Con /\ ~c'.data
  BY <1>7, <1>8, IoErrCon, Zenon
<1>10. Types'
  <2>1. derailed' \in BOOLEAN
    BY <1>1, <1>4, Zenon DEF Types
  <2>2. pc' \in Steps
    BY <1>8 DEF Steps
  <2> QED
    BY <1>1, <1>4, <1>8, <1>9, <2>1, <2>2, TypesKept, Zenon
<1>11. KindInv' /\ DataInv' /\ ComInv' /\ RetryInv' /\ TmpInv'
  BY <1>1, <1>4, <1>8, <1>9 DEF KindInv, DataInv, ComInv, RetryInv, TmpInv, IsGet
<1>12. StepInv'
  <2>1. ~derailed' => AcceptedIsAsked'
    BY <1>1, <1>4, <1>8, StillAccepted, Zenon
  <2>2. ~derailed' => Relogin' /\ Replies' /\ Directories' /\ Returns'
    BY <1>8 DEF Relogin, Replies, Directories, Returns, LoginSteps
  <2> QED
    BY <2>1, <2>2 DEF StepInv
<1> QED
  BY <1>10, <1>11, <1>12 DEF IInv

LEMMA DirCdInv ==
  ASSUME IInv, DirCd
  PROVE  IInv'
<1>1. Types /\ KindInv /\ DataInv /\ ComInv /\ RetryInv /\ TmpInv /\ StepInv
  BY DEF IInv
<1>2. c \in Con /\ srv \in Server /\ c.remote_dir \in Names
  BY <1>1 DEF Types, Con
<1>3. PICK n \in ftp_cd(c, op.name) :
       /\ c' = n.con
       /\ srv' = [srv EXCEPT !.replies = n.left, !.cwd = CwdAfter(op.name)]
       /\ pc' = IF n.res < 0 THEN "dirret" ELSE "port"
       /\ derailed' = (derailed \/ n.res < 0)
  BY DEF DirCd
<1>4. /\ pc = "dircd" /\ buf' = c.remote_dir /\ tmp' = FALSE
      /\ op' = op /\ todo' = todo /\ seekto' = seekto
      /\ rmed' = rmed /\ got' = got /\ attempts' = attempts
  BY DEF DirCd
<1>5. op.name \in Names /\ ~IsGet /\ (op.name = Dot \/ op.name \in Dirs)
  BY <1>1, <1>4, OpParts DEF KindInv
<1>6. /\ n \in Outcome
      /\ n.con.remote_dir = op.name /\ n.con.retries = c.retries
      /\ CwdAnswered(c, op.name, n) \/ Lost(n)
  BY <1>2, <1>5, CdOutcome, Zenon
<1>7. c' \in Con /\ n.left \in Seq(ReplyCodes) /\ c'.retries = c.retries
  BY <1>3, <1>6 DEF Outcome
<1>8. \/ n.res = 0 /\ pc' = "port" /\ CwdAnswered(c, op.name, n)
      \/ n.res = -1 /\ pc' = "dirret" /\ derailed'
  <2>1. n.res \in {0, -1} /\ (n.res = 0 => CwdAnswered(c, op.name, n))
    BY <1>6 DEF Outcome, Lost
  <2>2. CASE n.res = 0
    BY <1>3, <2>1, <2>2
  <2>3. CASE n.res = -1
    <3>1. n.res < 0
      BY <2>3
    <3> QED
      BY <1>3, <2>3, <3>1, Zenon
  <2> QED
    BY <2>1, <2>2, <2>3
<1>9. ~c'.data
  <2>1. c.data = FALSE
    BY <1>1, <1>2, <1>4 DEF DataInv, Con
  <2> QED
    BY <1>3, <1>6, <2>1 DEF CwdAnswered, Lost
<1>10. /\ srv' \in Server
       /\ srv'.replies = n.left /\ srv'.cwd = CwdAfter(op.name) /\ srv'.root = srv.root
  BY <1>2, <1>3, <1>5, <1>7, CdServer, Zenon
<1>11. c'.resp = JFTP_ERR => c'.com
  BY <1>3, <1>6 DEF CwdAnswered, Lost, JFTP_ERR, JFTP_BROKEN
<1>12. Types'
  <2>1. derailed' \in BOOLEAN
    <3>1. derailed \in BOOLEAN
      BY <1>1, Zenon DEF Types
    <3> QED
      BY <1>3, <3>1, Zenon
  <2>2. tmp' \in BOOLEAN /\ seekto' \in BOOLEAN /\ rmed' \in BOOLEAN
    BY <1>1, <1>4, Zenon DEF Types
  <2> QED
    BY <1>1, <1>2, <1>4, <1>7, <1>8, <1>10, <2>1, <2>2 DEF Types, Steps
<1>13. KindInv' /\ DataInv' /\ ComInv' /\ RetryInv' /\ TmpInv'
  BY <1>1, <1>4, <1>5, <1>7, <1>8, <1>9, <1>11
  DEF KindInv, DataInv, ComInv, RetryInv, TmpInv, IsGet
<1>14. StepInv'
  <2>1. ~derailed' => ~derailed /\ n.res = 0 /\ pc' = "port"
    BY <1>3, <1>8
  <2>2. ~derailed' => AcceptedIsAsked'
    BY <1>1, <1>4, <1>10, <2>1, StillAccepted
  <2>3. ASSUME ~derailed'
        PROVE  srv'.replies = << >> /\ srv'.cwd = Asked(op)' /\ buf' = RemoteDir
    <3>1. srv.replies = << >> /\ c.remote_dir = RemoteDir /\ srv.cwd = Root
      BY <1>1, <1>4, <2>1, <2>3 DEF StepInv, Replies, Directories, AtRoot
    <3>2. CwdAnswered(c, op.name, n) /\ n.res = 0
      BY <1>8, <2>1, <2>3
    <3>3. n.left = << >> /\ CwdAfter(op.name) = Resolve(op.name)
      BY <1>2, <3>1, <3>2, CwdInStep, Zenon
    <3>4. Asked(op)' = IF op.name = Dot THEN srv.root ELSE Append(srv.root, op.name)
      BY <1>4, <1>10 DEF Asked, Root
    <3>5. Resolve(op.name) = Asked(op)'
      BY <1>5, <3>1, <3>4, Resolved, NamesAssumption DEF Root
    <3> QED
      BY <1>4, <1>10, <3>1, <3>3, <3>5
  <2>4. ~derailed' => Relogin' /\ Replies' /\ Directories' /\ Returns'
    BY <1>4, <1>5, <2>1, <2>3 DEF Relogin, Replies, Directories, Returns, LoginSteps, IsGet
  <2> QED
    BY <2>2, <2>4 DEF StepInv
<1> QED
  BY <1>12, <1>13, <1>14 DEF IInv

\* ftp_dir2 gives a listing up: the data connection must be closed by then.
LEMMA DirFailInv ==
  ASSUME IInv, ~IsGet, pc \in {"port", "read", "more", "final"},
         NEW con \in Con, ~con.data, con.retries = c.retries,
         NEW left \in Seq(ReplyCodes),
         ~derailed => left = << >> \/ \E x \in {226, Refused} : left = <<x>>,
         DirFail(con, left),
         UNCHANGED <<op, todo, buf, tmp, seekto, rmed, got, attempts>>
  PROVE  IInv'
<1>1. Types /\ KindInv /\ DataInv /\ ComInv /\ RetryInv /\ TmpInv /\ StepInv
  BY DEF IInv
<1>2. srv \in Server /\ Take(con, left, "cdback") /\ derailed' = derailed
  BY <1>1 DEF Types, DirFail
<1>3. /\ c' = con /\ pc' = "cdback" /\ srv' \in Server
      /\ srv'.replies = left /\ srv'.cwd = srv.cwd /\ srv'.root = srv.root
  BY <1>2, TakeServer, Zenon
<1>4. Types'
  <2>1. derailed' \in BOOLEAN
    BY <1>1, <1>2, Zenon DEF Types
  <2>2. pc' \in Steps
    BY <1>3 DEF Steps
  <2> QED
    BY <1>1, <1>3, <2>1, <2>2, TypesKept
<1>5. KindInv' /\ DataInv' /\ ComInv' /\ RetryInv' /\ TmpInv'
  BY <1>1, <1>3 DEF KindInv, DataInv, ComInv, RetryInv, TmpInv, IsGet
<1>6. StepInv'
  <2>1. ~derailed' => AcceptedIsAsked'
    BY <1>1, <1>2, <1>3, StillAccepted
  <2>2. ~tmp'
    BY <1>1 DEF TmpInv
  <2>3. ~derailed' => Relogin' /\ Replies' /\ Returns'
    BY <1>2, <1>3, <2>2 DEF Relogin, Replies, Returns, LoginSteps
  <2>4. ~derailed' => Directories'
    BY <1>1, <1>2, <1>3 DEF StepInv, Directories, IsGet, Asked, Root
  <2> QED
    BY <2>1, <2>3, <2>4 DEF StepInv
<1> QED
  BY <1>4, <1>5, <1>6 DEF IInv

\* ret_bad of ftp_get: a reply that is left behind is remembered.
LEMMA GetFailInv ==
  ASSUME IInv, IsGet, pc \in {"port", "rest", "read", "more", "final"},
         NEW con \in Con, con.retries = c.retries, con.remote_dir = c.remote_dir,
         con.resp = JFTP_ERR => con.com,
         NEW left \in Seq(ReplyCodes),
         GetFail(con, left),
         UNCHANGED <<op, todo, buf, tmp, seekto, rmed, got, attempts>>
  PROVE  IInv'
<1>1. Types /\ KindInv /\ DataInv /\ ComInv /\ RetryInv /\ TmpInv /\ StepInv
  BY DEF IInv
<1>2. /\ srv \in Server /\ Take(DataClosed(con), left, "getret")
      /\ derailed' = (derailed \/ (left # << >> /\ con.resp \notin {JFTP_BROKEN, JFTP_TIMEOUT}))
  BY <1>1 DEF Types, GetFail
<1>3. /\ c' = DataClosed(con) /\ pc' = "getret" /\ srv' \in Server
      /\ srv'.replies = left /\ srv'.cwd = srv.cwd /\ srv'.root = srv.root
  BY <1>2, TakeServer, Zenon
<1>4. /\ c' \in Con /\ Kept(con, c') /\ c'.com = con.com /\ c'.resp = con.resp /\ ~c'.data
  BY <1>3, ClosedCon, Zenon
<1>5. c'.retries = c.retries /\ c'.remote_dir = c.remote_dir
  BY <1>4 DEF Kept
<1>6. Types'
  <2>1. derailed' \in BOOLEAN
    <3>1. derailed \in BOOLEAN
      BY <1>1, Zenon DEF Types
    <3> QED
      BY <1>2, <3>1, Zenon
  <2>2. pc' \in Steps
    BY <1>3 DEF Steps
  <2> QED
    BY <1>1, <1>3, <1>4, <2>1, <2>2, TypesKept
<1>7. KindInv' /\ DataInv' /\ RetryInv' /\ TmpInv'
  BY <1>1, <1>3, <1>4, <1>5 DEF KindInv, DataInv, RetryInv, TmpInv, IsGet
<1>8. ComInv'
  BY <1>3, <1>4 DEF ComInv
<1>9. StepInv'
  <2>1. ~derailed' => ~derailed /\ (left = << >> \/ con.resp \in {JFTP_BROKEN, JFTP_TIMEOUT})
    BY <1>2
  <2>2. ~derailed' => AcceptedIsAsked'
    BY <1>1, <1>3, <2>1, StillAccepted
  <2>3. ~derailed' => c'.remote_dir = RemoteDir /\ srv'.cwd = srv'.root
    BY <1>1, <1>3, <1>5, <2>1 DEF StepInv, Directories, AtRoot, Root
  <2>4. ~derailed' => Relogin' /\ Replies' /\ Directories' /\ Returns'
    BY <1>3, <1>4, <2>1, <2>3 DEF Relogin, Replies, Directories, Returns, LoginSteps, AtRoot, Root
  <2> QED
    BY <2>2, <2>4 DEF StepInv
<1> QED
  BY <1>6, <1>7, <1>8, <1>9 DEF IInv

LEMMA MkstempFailsInv ==
  ASSUME IInv, MkstempFails
  PROVE  IInv'
<1> DEFINE con == [c EXCEPT !.resp = JFTP_WRITEERR]
<1>1. Types /\ DataInv /\ StepInv
  BY DEF IInv
<1>2. /\ pc = "port" /\ ~IsGet /\ DirFail(con, srv.replies)
      /\ UNCHANGED <<op, todo, buf, tmp, seekto, rmed, got, attempts>>
  BY DEF MkstempFails
<1>3. c \in Con /\ srv.replies \in Seq(ReplyCodes)
  BY <1>1 DEF Types, Server
<1>4. con \in Con /\ con.retries = c.retries /\ ~con.data
  BY <1>1, <1>2, <1>3 DEF Con, DataInv, RespCodes
<1>5. ~derailed => srv.replies = << >>
  BY <1>1, <1>2 DEF StepInv, Replies
<1>6. pc \in {"port", "read", "more", "final"}
  BY <1>2
<1> HIDE DEF con
<1> QED
  BY <1>2, <1>3, <1>4, <1>5, <1>6, DirFailInv, Zenon

LEMMA PortInv ==
  ASSUME IInv, Port
  PROVE  IInv'
<1>1. Types /\ KindInv /\ DataInv /\ ComInv /\ RetryInv /\ TmpInv /\ StepInv
  BY DEF IInv
<1>2. c \in Con /\ srv \in Server /\ srv.replies \in Seq(ReplyCodes)
  BY <1>1 DEF Types, Server
<1> DEFINE getcon(n) == [n.con EXCEPT !.resp = IF @ \in {JFTP_BROKEN, JFTP_TIMEOUT} THEN @ ELSE JFTP_ERR]
<1>3. PICK n \in ftp_port(c) :
       \/ /\ n.res = 0
          /\ Take(n.con, n.left, IF IsGet THEN (IF seekto THEN "rest" ELSE "retr") ELSE "list")
          /\ UNCHANGED derailed
       \/ n.res < 0 /\ ~IsGet /\ DirFail(DataClosed(n.con), n.left)
       \/ n.res < 0 /\ IsGet /\ GetFail(getcon(n), n.left)
  BY DEF Port
<1>4. pc = "port" /\ UNCHANGED <<op, todo, buf, tmp, seekto, rmed, got, attempts>>
  BY DEF Port
<1>5. n \in Outcome /\ Kept(c, n.con) /\ (PortAnswered(n) \/ PortLost(n))
  BY <1>2, PortOutcome, Zenon
<1>6. n.con \in Con /\ n.left \in Seq(ReplyCodes) /\ n.con.resp \in RespCodes
  BY <1>5 DEF Outcome, Con
<1>7. ~derailed => srv.replies = << >> /\ n.left = << >>
  <2>1. ~derailed => srv.replies = << >>
    BY <1>1, <1>4 DEF StepInv, Replies
  <2>2. ASSUME srv.replies = << >>, NEW r \in ReplyCodes,
               Pending(<<r>>) # << >>, n.left = Tail(Pending(<<r>>))
        PROVE  n.left = << >>
    <3>1. <<r>> \in Seq(ReplyCodes) /\ Tail(<<r>>) = << >>
      OBVIOUS
    <3>2. Pending(<<r>>) = <<r>>
      BY <1>2, <2>2, <3>1, PendingNew, Zenon
    <3> QED
      BY <2>2, <3>1, <3>2, Zenon
  <2> QED
    BY <1>5, <2>1, <2>2 DEF PortAnswered, PortLost
<1> HIDE DEF getcon
<1>8. CASE /\ n.res = 0
           /\ Take(n.con, n.left, IF IsGet THEN (IF seekto THEN "rest" ELSE "retr") ELSE "list")
           /\ UNCHANGED derailed
  <2>1. /\ c' = n.con /\ srv' \in Server
        /\ pc' = IF IsGet THEN (IF seekto THEN "rest" ELSE "retr") ELSE "list"
        /\ srv'.replies = n.left /\ srv'.cwd = srv.cwd /\ srv'.root = srv.root
    BY <1>2, <1>6, <1>8, TakeServer, Zenon
  <2>2. c'.retries = c.retries /\ c'.remote_dir = c.remote_dir
    BY <1>5, <2>1 DEF Kept
  <2>3. (IsGet /\ pc' \in {"rest", "retr"}) \/ (~IsGet /\ pc' = "list")
    BY <2>1
  <2>4. Types'
    <3>1. derailed' \in BOOLEAN
      BY <1>1, <1>8, Zenon DEF Types
    <3>2. pc' \in Steps /\ c' \in Con
      BY <1>6, <2>1, <2>3 DEF Steps
    <3> QED
      BY <1>1, <1>4, <2>1, <3>1, <3>2, TypesKept
  <2>5. KindInv' /\ DataInv' /\ ComInv' /\ RetryInv' /\ TmpInv'
    BY <1>1, <1>4, <2>2, <2>3 DEF KindInv, DataInv, ComInv, RetryInv, TmpInv, IsGet
  <2>6. StepInv'
    <3>1. ~derailed' => AcceptedIsAsked'
      BY <1>1, <1>4, <1>8, <2>1, StillAccepted
    <3>2. ~derailed' => Relogin' /\ Replies' /\ Returns'
      BY <1>7, <1>8, <2>1, <2>3 DEF Relogin, Replies, Returns, LoginSteps
    <3>3. ~derailed' => Directories'
      BY <1>1, <1>4, <1>8, <2>1, <2>2, <2>3 DEF StepInv, Directories, AtRoot, IsGet, Asked, Root
    <3> QED
      BY <3>1, <3>2, <3>3 DEF StepInv
  <2> QED
    BY <2>4, <2>5, <2>6 DEF IInv
<1>9. CASE n.res < 0 /\ ~IsGet /\ DirFail(DataClosed(n.con), n.left)
  <2>1. DataClosed(n.con) \in Con /\ Kept(n.con, DataClosed(n.con)) /\ ~DataClosed(n.con).data
    BY <1>6, ClosedCon, Zenon
  <2>2. DataClosed(n.con).retries = c.retries
    BY <1>5, <2>1 DEF Kept
  <2>3. pc \in {"port", "read", "more", "final"}
    BY <1>4
  <2> QED
    BY <1>4, <1>6, <1>7, <1>9, <2>1, <2>2, <2>3, DirFailInv, Zenon
<1>10. CASE n.res < 0 /\ IsGet /\ GetFail(getcon(n), n.left)
  <2>1. /\ getcon(n) \in Con /\ getcon(n).retries = n.con.retries
        /\ getcon(n).remote_dir = n.con.remote_dir /\ getcon(n).com = n.con.com
        /\ n.con.resp = JFTP_BROKEN => getcon(n).resp = JFTP_BROKEN
    BY <1>6 DEF getcon, Con, RespCodes
  <2>2. getcon(n).retries = c.retries /\ getcon(n).remote_dir = c.remote_dir
    BY <1>5, <2>1 DEF Kept
  <2>3. getcon(n).resp = JFTP_ERR => getcon(n).com
    <3>1. CASE PortAnswered(n)
      BY <2>1, <3>1 DEF PortAnswered
    <3>2. CASE PortLost(n)
      BY <2>1, <3>2 DEF PortLost, JFTP_ERR, JFTP_BROKEN
    <3> QED
      BY <1>5, <3>1, <3>2
  <2>4. pc \in {"port", "rest", "read", "more", "final"}
    BY <1>4
  <2> QED
    BY <1>4, <1>6, <1>10, <2>1, <2>2, <2>3, <2>4, GetFailInv, Zenon
<1> QED
  BY <1>3, <1>8, <1>9, <1>10

LEMMA ReadInv ==
  ASSUME IInv, Read
  PROVE  IInv'
<1>1. Types /\ KindInv /\ DataInv /\ ComInv /\ RetryInv /\ TmpInv /\ StepInv
  BY DEF IInv
<1>2. c \in Con /\ srv \in Server /\ srv.replies \in Seq(ReplyCodes)
  BY <1>1 DEF Types, Server
<1>3. PICK n \in ftp_read_data(c) :
       \/ n.res = 0 /\ Take(n.con, srv.replies, "more") /\ UNCHANGED derailed
       \/ n.res < 0 /\ ~IsGet /\ DirFail(n.con, srv.replies)
       \/ n.res < 0 /\ IsGet /\ GetFail(n.con, srv.replies)
  BY DEF Read
<1>4. pc = "read" /\ UNCHANGED <<op, todo, buf, tmp, seekto, rmed, got, attempts>>
  BY DEF Read
<1>5. /\ n.con \in Con /\ Kept(c, n.con) /\ n.con.com = c.com
      /\ \/ n.res = 0
         \/ n.res = -1 /\ ~n.con.data /\ n.con.resp \in {JFTP_ERR, JFTP_TIMEOUT, JFTP_BROKEN}
  BY <1>2, ReadOutcome, Zenon
<1>6. n.con.com /\ n.con.retries = c.retries /\ n.con.remote_dir = c.remote_dir
  BY <1>1, <1>4, <1>5 DEF ComInv, Kept
<1>7. ~derailed => \E x \in {226, Refused} : srv.replies = <<x>>
  BY <1>1, <1>4 DEF StepInv, Replies, LastReply
<1>8. CASE n.res = 0 /\ Take(n.con, srv.replies, "more") /\ UNCHANGED derailed
  <2>1. /\ c' = n.con /\ pc' = "more" /\ srv' \in Server
        /\ srv'.replies = srv.replies /\ srv'.cwd = srv.cwd /\ srv'.root = srv.root
        /\ srv'.path = srv.path /\ srv'.whole = srv.whole
    BY <1>2, <1>8, TakeServer, Zenon
  <2>2. Types'
    <3>1. derailed' \in BOOLEAN
      BY <1>1, <1>8, Zenon DEF Types
    <3>2. pc' \in Steps /\ c' \in Con
      BY <1>5, <2>1 DEF Steps
    <3> QED
      BY <1>1, <1>4, <2>1, <3>1, <3>2, TypesKept
  <2>3. KindInv' /\ DataInv' /\ ComInv' /\ RetryInv' /\ TmpInv'
    BY <1>1, <1>4, <1>6, <2>1 DEF KindInv, DataInv, ComInv, RetryInv, TmpInv, IsGet
  <2>4. StepInv'
    <3>1. ~derailed' => AcceptedIsAsked'
      BY <1>1, <1>4, <1>8, <2>1, StillAccepted
    <3>2. ~derailed' => LastReply' /\ RightPath'
      BY <1>1, <1>4, <1>8, <2>1 DEF StepInv, Replies, LastReply, RightPath, Asked, Root
    <3>3. ~derailed' => Relogin' /\ Replies' /\ Returns'
      BY <2>1, <3>2 DEF Relogin, Replies, Returns, LoginSteps
    <3>4. ~derailed' => Directories'
      BY <1>1, <1>4, <1>6, <1>8, <2>1 DEF StepInv, Directories, AtRoot, IsGet, Asked, Root
    <3> QED
      BY <3>1, <3>3, <3>4 DEF StepInv
  <2> QED
    BY <2>2, <2>3, <2>4 DEF IInv
<1>9. CASE n.res < 0 /\ ~IsGet /\ DirFail(n.con, srv.replies)
  <2>1. ~n.con.data /\ pc \in {"port", "read", "more", "final"}
    BY <1>4, <1>5, <1>9
  <2> QED
    BY <1>2, <1>4, <1>5, <1>6, <1>7, <1>9, <2>1, DirFailInv, Zenon
<1>10. CASE n.res < 0 /\ IsGet /\ GetFail(n.con, srv.replies)
  <2>1. pc \in {"port", "rest", "read", "more", "final"}
    BY <1>4
  <2> QED
    BY <1>2, <1>4, <1>5, <1>6, <1>10, <2>1, GetFailInv, Zenon
<1> QED
  BY <1>3, <1>8, <1>9, <1>10

LEMMA MoreInv ==
  ASSUME IInv, More
  PROVE  IInv'
<1>1. Types /\ KindInv /\ DataInv /\ ComInv /\ RetryInv /\ TmpInv /\ StepInv
  BY DEF IInv
<1>2. c \in Con /\ srv \in Server /\ srv.replies \in Seq(ReplyCodes)
  BY <1>1 DEF Types, Server
<1>3. pc = "more" /\ UNCHANGED <<op, todo, buf, tmp, seekto, rmed, got, attempts>>
  BY DEF More
<1>4. ~derailed => \E x \in {226, Refused} : srv.replies = <<x>>
  BY <1>1, <1>3 DEF StepInv, Replies, LastReply
<1>5. CASE Take(DataClosed(c), srv.replies, "final") /\ UNCHANGED derailed
  <2>1. /\ c' = DataClosed(c) /\ pc' = "final" /\ srv' \in Server
        /\ srv'.replies = srv.replies /\ srv'.cwd = srv.cwd /\ srv'.root = srv.root
        /\ srv'.path = srv.path /\ srv'.whole = srv.whole
    BY <1>2, <1>5, TakeServer, Zenon
  <2>2. c' \in Con /\ Kept(c, c') /\ ~c'.data
    BY <1>2, <2>1, ClosedCon, Zenon
  <2>3. Types'
    <3>1. derailed' \in BOOLEAN
      BY <1>1, <1>5, Zenon DEF Types
    <3>2. pc' \in Steps
      BY <2>1 DEF Steps
    <3> QED
      BY <1>1, <1>3, <2>1, <2>2, <3>1, <3>2, TypesKept
  <2>4. KindInv' /\ DataInv' /\ ComInv' /\ RetryInv' /\ TmpInv'
    BY <1>1, <1>3, <2>1, <2>2 DEF KindInv, DataInv, ComInv, RetryInv, TmpInv, IsGet, Kept
  <2>5. StepInv'
    <3>1. ~derailed' => AcceptedIsAsked'
      BY <1>1, <1>3, <1>5, <2>1, StillAccepted
    <3>2. ~derailed' => LastReply' /\ RightPath'
      BY <1>1, <1>3, <1>5, <2>1 DEF StepInv, Replies, LastReply, RightPath, Asked, Root
    <3>3. ~derailed' => Relogin' /\ Replies' /\ Returns'
      BY <2>1, <3>2 DEF Relogin, Replies, Returns, LoginSteps
    <3>4. ~derailed' => Directories'
      BY <1>1, <1>3, <1>5, <2>1, <2>2 DEF StepInv, Directories, AtRoot, IsGet, Asked, Root, Kept
    <3> QED
      BY <3>1, <3>3, <3>4 DEF StepInv
  <2> QED
    BY <2>3, <2>4, <2>5 DEF IInv
<1>6. CASE \E n \in ftp_read_data(c) :
             /\ n.res < 0
             /\ IF IsGet THEN GetFail(n.con, srv.replies) ELSE DirFail(DataClosed(n.con), srv.replies)
  <2>1. PICK n \in ftp_read_data(c) :
             /\ n.res < 0
             /\ IF IsGet THEN GetFail(n.con, srv.replies) ELSE DirFail(DataClosed(n.con), srv.replies)
    BY <1>6
  <2>2. n.con \in Con /\ Kept(c, n.con) /\ n.con.com = c.com
    BY <1>2, ReadOutcome, Zenon
  <2>3. n.con.com /\ n.con.retries = c.retries /\ n.con.remote_dir = c.remote_dir
    BY <1>1, <1>3, <2>2 DEF ComInv, Kept
  <2>4. CASE IsGet
    <3>1. pc \in {"port", "rest", "read", "more", "final"} /\ GetFail(n.con, srv.replies)
      BY <1>3, <2>1, <2>4
    <3> QED
      BY <1>2, <1>3, <2>2, <2>3, <2>4, <3>1, GetFailInv, Zenon
  <2>5. CASE ~IsGet
    <3>1. pc \in {"port", "read", "more", "final"} /\ DirFail(DataClosed(n.con), srv.replies)
      BY <1>3, <2>1, <2>5
    <3>2. DataClosed(n.con) \in Con /\ Kept(n.con, DataClosed(n.con)) /\ ~DataClosed(n.con).data
      BY <2>2, ClosedCon, Zenon
    <3>3. DataClosed(n.con).retries = c.retries
      BY <2>3, <3>2 DEF Kept
    <3> QED
      BY <1>2, <1>3, <1>4, <2>5, <3>1, <3>2, <3>3, DirFailInv, Zenon
  <2> QED
    BY <2>4, <2>5
<1> QED
  BY <1>5, <1>6 DEF More

LEMMA WriteFailsInv ==
  ASSUME IInv, WriteFails
  PROVE  IInv'
<1>1. Types /\ StepInv
  BY DEF IInv
<1>2. c \in Con /\ srv \in Server /\ << >> \in Seq(ReplyCodes)
  BY <1>1 DEF Types
<1>3. PICK n \in ftp_req(DataClosed(c), << >>) : DirFail(n.con, n.left)
  BY DEF WriteFails
<1>4. /\ pc = "more" /\ ~IsGet /\ pc \in {"port", "read", "more", "final"}
      /\ UNCHANGED <<op, todo, buf, tmp, seekto, rmed, got, attempts>>
  BY DEF WriteFails
<1>5. DataClosed(c) \in Con /\ Kept(c, DataClosed(c)) /\ ~DataClosed(c).data
  BY <1>2, ClosedCon, Zenon
<1>6. n \in Outcome /\ Kept(DataClosed(c), n.con) /\ (Answered(DataClosed(c), << >>, n) \/ Lost(n))
  BY <1>2, <1>3, <1>5, ReqOutcome, Zenon
<1>7. n.con \in Con /\ n.left \in Seq(ReplyCodes) /\ n.con.retries = c.retries
  BY <1>5, <1>6 DEF Outcome, Kept
<1>8. ~n.con.data
  BY <1>5, <1>6 DEF Answered, Lost
<1>9. ~derailed => n.left = << >>
  <2>1. ~derailed => LastReply
    BY <1>1, <1>4 DEF StepInv, Replies
  <2>2. CASE Lost(n)
    BY <2>2 DEF Lost
  <2>3. CASE Answered(DataClosed(c), << >>, n)
    BY <1>2, <2>1, <2>3, LastRead, Zenon
  <2> QED
    BY <1>6, <2>2, <2>3
<1> QED
  BY <1>3, <1>4, <1>7, <1>8, <1>9, DirFailInv, Zenon

LEMMA FinalInv ==
  ASSUME IInv, Final
  PROVE  IInv'
<1>1. Types /\ KindInv /\ DataInv /\ ComInv /\ RetryInv /\ TmpInv /\ StepInv
  BY DEF IInv
<1>2. c \in Con /\ srv \in Server /\ << >> \in Seq(ReplyCodes)
  BY <1>1 DEF Types
<1> DEFINE broken(n) == [n.con EXCEPT !.com = FALSE, !.resp = JFTP_BROKEN]
           file == [op |-> op, path |-> srv.path, whole |-> srv.whole]
<1>3. PICK n \in ftp_req(c, << >>) :
          \/ /\ Expect(n, {226})
             /\ IF IsGet THEN Take(n.con, n.left, "idle") ELSE Take(n.con, n.left, "cdback")
             /\ tmp' = ~IsGet
             /\ got' = IF IsGet THEN file ELSE got
             /\ UNCHANGED derailed
          \/ /\ ~Expect(n, {226}) /\ ~IsGet
             /\ IF n.res < 0 THEN DirFail(broken(n), << >>) ELSE DirFail(n.con, n.left)
             /\ UNCHANGED <<tmp, got>>
          \/ /\ ~Expect(n, {226}) /\ IsGet
             /\ IF n.res < 0 THEN GetFail(broken(n), << >>) ELSE GetFail(ErrIfRefused(n), n.left)
             /\ UNCHANGED <<tmp, got>>
  BY DEF Final
<1>4. pc = "final" /\ UNCHANGED <<op, todo, buf, seekto, rmed, attempts>>
  BY DEF Final
<1>5. n \in Outcome /\ Kept(c, n.con) /\ (Answered(c, << >>, n) \/ Lost(n))
  BY <1>2, <1>3, ReqOutcome, Zenon
<1>6. n.con \in Con /\ n.left \in Seq(ReplyCodes) /\ n.res \in {0, -1}
      /\ n.con.retries = c.retries /\ n.con.remote_dir = c.remote_dir
  BY <1>5 DEF Outcome, Kept
<1>7. ~n.con.data
  <2>1. c.data = FALSE
    BY <1>1, <1>2, <1>4 DEF DataInv, Con
  <2> QED
    BY <1>5, <2>1 DEF Answered, Lost
<1>8. ~derailed => n.left = << >> /\ (n.res = 0 /\ n.con.resp = 226 => srv.whole)
  <2>1. ~derailed => LastReply
    BY <1>1, <1>4 DEF StepInv, Replies
  <2>2. CASE Lost(n)
    BY <2>2 DEF Lost
  <2>3. CASE Answered(c, << >>, n)
    <3>1. ASSUME ~derailed
          PROVE  n.left = << >> /\ (n.res = 0 /\ n.con.resp = 226 => srv.whole)
      <4>1. LastReply
        BY <2>1, <3>1
      <4> QED
        BY <1>2, <2>3, <4>1, LastRead
    <3> QED
      BY <3>1
  <2> QED
    BY <1>5, <2>2, <2>3
<1>9. broken(n) \in Con /\ broken(n).retries = c.retries /\ broken(n).remote_dir = c.remote_dir
      /\ broken(n).resp # JFTP_ERR /\ ~broken(n).data
  <2>1. JFTP_BROKEN \in RespCodes /\ JFTP_BROKEN # JFTP_ERR
    BY DEF RespCodes, JFTP_BROKEN, JFTP_ERR
  <2>2. /\ broken(n) \in Con /\ broken(n).retries = n.con.retries
        /\ broken(n).remote_dir = n.con.remote_dir
        /\ broken(n).resp = JFTP_BROKEN /\ broken(n).data = n.con.data
    BY <1>6, <2>1 DEF Con
  <2> QED
    BY <1>6, <1>7, <2>1, <2>2
<1> HIDE DEF broken
<1>10. CASE /\ Expect(n, {226})
            /\ IF IsGet THEN Take(n.con, n.left, "idle") ELSE Take(n.con, n.left, "cdback")
            /\ tmp' = ~IsGet
            /\ got' = IF IsGet THEN file ELSE got
            /\ UNCHANGED derailed
  <2>1. n.res = 0 /\ n.con.resp = 226 /\ n.con.com
    BY <1>5, <1>10 DEF Expect, Answered, Lost
  <2>2. Take(n.con, n.left, IF IsGet THEN "idle" ELSE "cdback")
    BY <1>10
  <2>3. /\ c' = n.con /\ pc' = (IF IsGet THEN "idle" ELSE "cdback") /\ srv' \in Server
        /\ srv'.replies = n.left /\ srv'.cwd = srv.cwd /\ srv'.root = srv.root
        /\ srv'.path = srv.path /\ srv'.whole = srv.whole
    BY <1>2, <1>6, <2>2, TakeServer, Zenon
  <2>4. Types'
    <3>1. derailed' \in BOOLEAN /\ seekto' \in BOOLEAN /\ rmed' \in BOOLEAN
      BY <1>1, <1>4, <1>10, Zenon DEF Types
    <3>2. tmp' \in BOOLEAN
      BY <1>10, Zenon DEF IsGet
    <3> QED
      BY <1>1, <1>4, <1>6, <2>3, <3>1, <3>2 DEF Types, Steps
  <2>5. KindInv' /\ DataInv' /\ ComInv' /\ RetryInv' /\ TmpInv'
    BY <1>1, <1>4, <1>6, <1>7, <2>1, <2>3 DEF KindInv, DataInv, ComInv, RetryInv, TmpInv, IsGet
  <2>6. StepInv'
    <3>1. ~derailed => RightPath /\ srv.whole /\ n.left = << >>
      BY <1>1, <1>4, <1>8, <2>1 DEF StepInv, Replies
    <3>2. ~derailed' => AcceptedIsAsked'
      <4>1. CASE ~IsGet
        BY <1>1, <1>10, <2>3, <4>1, StillAccepted
      <4>2. CASE IsGet
        <5>1. got' = file /\ derailed' = derailed
          BY <1>10, <4>2
        <5>2. got'.op = op /\ got'.path = srv.path /\ got'.whole = srv.whole
          BY <5>1
        <5>3. ~derailed => srv.path = Asked(got.op)'
          BY <1>4, <2>3, <3>1, <5>2 DEF RightPath, Asked, Root
        <5> QED
          BY <3>1, <5>1, <5>2, <5>3 DEF AcceptedIsAsked, Asked
      <4> QED
        BY <4>1, <4>2
    <3>3. ~derailed' => Relogin' /\ Returns'
      BY <2>3 DEF Relogin, Returns, LoginSteps
    <3>4. ~derailed' => RightPath' /\ srv'.whole
      BY <1>4, <1>10, <2>3, <3>1 DEF RightPath, Asked, Root
    <3>5. ~derailed' => Replies'
      BY <1>10, <2>3, <3>1, <3>4 DEF Replies
    <3>6. ~derailed' => Directories'
      BY <1>1, <1>4, <1>6, <1>10, <2>3 DEF StepInv, Directories, AtRoot, IsGet, Asked, Root
    <3> QED
      BY <3>2, <3>3, <3>5, <3>6 DEF StepInv
  <2> QED
    BY <2>4, <2>5, <2>6 DEF IInv
<1>11. CASE /\ ~Expect(n, {226}) /\ ~IsGet
            /\ IF n.res < 0 THEN DirFail(broken(n), << >>) ELSE DirFail(n.con, n.left)
            /\ UNCHANGED <<tmp, got>>
  <2>1. UNCHANGED <<op, todo, buf, tmp, seekto, rmed, got, attempts>>
        /\ pc \in {"port", "read", "more", "final"}
    BY <1>4, <1>11
  <2>2. CASE DirFail(broken(n), << >>)
    BY <1>2, <1>9, <1>11, <2>1, <2>2, DirFailInv, Zenon
  <2>3. CASE DirFail(n.con, n.left)
    BY <1>6, <1>7, <1>8, <1>11, <2>1, <2>3, DirFailInv, Zenon
  <2> QED
    BY <1>11, <2>2, <2>3
<1>12. CASE /\ ~Expect(n, {226}) /\ IsGet
            /\ IF n.res < 0 THEN GetFail(broken(n), << >>) ELSE GetFail(ErrIfRefused(n), n.left)
            /\ UNCHANGED <<tmp, got>>
  <2>1. UNCHANGED <<op, todo, buf, tmp, seekto, rmed, got, attempts>>
        /\ pc \in {"port", "rest", "read", "more", "final"}
    BY <1>4, <1>12
  <2>2. CASE GetFail(broken(n), << >>)
    BY <1>2, <1>9, <1>12, <2>1, <2>2, GetFailInv, Zenon
  <2>3. CASE n.res = 0 /\ GetFail(ErrIfRefused(n), n.left)
    <3>1. ErrIfRefused(n) \in Con /\ Kept(n.con, ErrIfRefused(n)) /\ ErrIfRefused(n).com = n.con.com
      BY <1>5, ErrCon, Zenon
    <3>2. ErrIfRefused(n).com /\ ErrIfRefused(n).retries = c.retries
          /\ ErrIfRefused(n).remote_dir = c.remote_dir
      BY <1>5, <1>6, <2>3, <3>1 DEF Answered, Lost, Kept
    <3> QED
      BY <1>6, <1>12, <2>1, <2>3, <3>1, <3>2, GetFailInv, Zenon
  <2> QED
    BY <1>6, <1>12, <2>2, <2>3
<1> QED
  BY <1>3, <1>10, <1>11, <1>12

LEMMA RestInv ==
  ASSUME IInv, Rest
  PROVE  IInv'
<1>1. Types /\ KindInv /\ DataInv /\ ComInv /\ RetryInv /\ TmpInv /\ StepInv
  BY DEF IInv
<1>2. c \in Con /\ srv \in Server
  BY <1>1 DEF Types
<1>3. PICK r \in {<<350>>, <<Refused>>} : \E n \in ftp_req(c, r) :
        IF Expect(n, {350})
        THEN Take(n.con, n.left, "retr") /\ UNCHANGED derailed
        ELSE GetFail(ErrIfRefused(n), n.left)
  BY DEF Rest
<1>4. PICK n \in ftp_req(c, r) :
        IF Expect(n, {350})
        THEN Take(n.con, n.left, "retr") /\ UNCHANGED derailed
        ELSE GetFail(ErrIfRefused(n), n.left)
  BY <1>3
<1>5. pc = "rest" /\ UNCHANGED <<op, todo, buf, tmp, seekto, rmed, got, attempts>>
  BY DEF Rest
<1>6. PICK v \in ReplyCodes : r = <<v>>
  <2>1. 350 \in ReplyCodes /\ Refused \in ReplyCodes
    BY DEF ReplyCodes
  <2> QED
    BY <2>1
<1>7. r \in Seq(ReplyCodes)
  BY <1>6
<1>8. n \in Outcome /\ Kept(c, n.con) /\ (Answered(c, r, n) \/ Lost(n))
  BY <1>2, <1>4, <1>7, ReqOutcome, Zenon
<1>9. n.con \in Con /\ n.left \in Seq(ReplyCodes)
      /\ n.con.retries = c.retries /\ n.con.remote_dir = c.remote_dir
  BY <1>8 DEF Outcome, Kept
<1>10. IsGet
  BY <1>1, <1>5 DEF KindInv
<1>11. CASE Expect(n, {350})
  <2>1. Take(n.con, n.left, "retr") /\ derailed' = derailed
    BY <1>4, <1>11
  <2>2. /\ c' = n.con /\ pc' = "retr" /\ srv' \in Server
        /\ srv'.replies = n.left /\ srv'.cwd = srv.cwd /\ srv'.root = srv.root
    BY <1>2, <1>9, <2>1, TakeServer, Zenon
  <2>3. Types'
    <3>1. derailed' \in BOOLEAN
      BY <1>1, <2>1, Zenon DEF Types
    <3>2. pc' \in Steps /\ c' \in Con
      BY <1>9, <2>2 DEF Steps
    <3> QED
      BY <1>1, <1>5, <2>2, <3>1, <3>2, TypesKept
  <2>4. KindInv' /\ DataInv' /\ ComInv' /\ RetryInv' /\ TmpInv'
    BY <1>1, <1>5, <1>9, <1>10, <2>2 DEF KindInv, DataInv, ComInv, RetryInv, TmpInv, IsGet
  <2>5. StepInv'
    <3>1. ~derailed' => AcceptedIsAsked'
      BY <1>1, <1>5, <2>1, <2>2, StillAccepted
    <3>2. ~derailed => n.left = << >>
      <4>1. ~derailed => srv.replies = << >>
        BY <1>1, <1>5 DEF StepInv, Replies
      <4>2. Answered(c, <<v>>, n)
        BY <1>6, <1>8, <1>11 DEF Lost, Expect
      <4> QED
        BY <1>2, <4>1, <4>2, OneReply, Zenon
    <3>3. ~derailed' => Relogin' /\ Replies' /\ Returns'
      BY <2>1, <2>2, <3>2 DEF Relogin, Replies, Returns, LoginSteps
    <3>4. ~derailed' => Directories'
      BY <1>1, <1>5, <1>9, <1>10, <2>1, <2>2 DEF StepInv, Directories, AtRoot, Root, IsGet
    <3> QED
      BY <3>1, <3>3, <3>4 DEF StepInv
  <2> QED
    BY <2>3, <2>4, <2>5 DEF IInv
<1>12. CASE ~Expect(n, {350})
  <2>1. GetFail(ErrIfRefused(n), n.left) /\ pc \in {"port", "rest", "read", "more", "final"}
    BY <1>4, <1>5, <1>12
  <2>2. /\ ErrIfRefused(n) \in Con /\ Kept(n.con, ErrIfRefused(n))
        /\ ErrIfRefused(n).com = n.con.com
        /\ ErrIfRefused(n).resp = IF n.res = 0 THEN JFTP_ERR ELSE n.con.resp
    BY <1>8, ErrCon, Zenon
  <2>3. ErrIfRefused(n).retries = c.retries /\ ErrIfRefused(n).remote_dir = c.remote_dir
    BY <1>9, <2>2 DEF Kept
  <2>4. ErrIfRefused(n).resp = JFTP_ERR => ErrIfRefused(n).com
    BY <1>8, <2>2 DEF Answered, Lost, JFTP_ERR, JFTP_BROKEN
  <2> QED
    BY <1>5, <1>9, <1>10, <2>1, <2>2, <2>3, <2>4, GetFailInv, Zenon
<1> QED
  BY <1>11, <1>12

LEMMA CdBackInv ==
  ASSUME IInv, CdBack
  PROVE  IInv'
<1>1. Types /\ KindInv /\ DataInv /\ ComInv /\ RetryInv /\ TmpInv /\ StepInv
  BY DEF IInv
<1>2. c \in Con /\ srv \in Server /\ buf \in Names
  BY <1>1 DEF Types
<1>3. PICK n \in ftp_cd(c, buf) :
       /\ c' = n.con
       /\ srv' = [srv EXCEPT !.replies = n.left, !.cwd = CwdAfter(buf)]
       /\ tmp' = (tmp /\ n.res = 0)
       /\ derailed' = (derailed \/ (n.res < 0 /\ n.con.com))
  BY DEF CdBack
<1>4. /\ pc = "cdback" /\ pc' = "dirret" /\ op' = op /\ todo' = todo /\ buf' = buf
      /\ seekto' = seekto /\ rmed' = rmed /\ got' = got /\ attempts' = attempts
  BY DEF CdBack
<1>5. /\ n \in Outcome
      /\ n.con.remote_dir = buf /\ n.con.retries = c.retries
      /\ CwdAnswered(c, buf, n) \/ Lost(n)
  BY <1>2, CdOutcome, Zenon
<1>6. c' \in Con /\ n.left \in Seq(ReplyCodes) /\ n.res \in {0, -1}
      /\ c'.remote_dir = buf /\ c'.retries = c.retries
  BY <1>3, <1>5 DEF Outcome
<1>7. ~c'.data
  <2>1. c.data = FALSE
    BY <1>1, <1>2, <1>4 DEF DataInv, Con
  <2> QED
    BY <1>3, <1>5, <2>1 DEF CwdAnswered, Lost
<1>8. /\ srv' \in Server
      /\ srv'.replies = n.left /\ srv'.cwd = CwdAfter(buf) /\ srv'.root = srv.root
      /\ srv'.path = srv.path /\ srv'.whole = srv.whole
  BY <1>2, <1>3, <1>6, CdServer, Zenon
<1>9. Types'
  <2>1. derailed' \in BOOLEAN
    BY <1>1, <1>3, Zenon DEF Types
  <2>2. tmp' \in BOOLEAN
    BY <1>1, <1>3, Zenon DEF Types
  <2>3. seekto' \in BOOLEAN /\ rmed' \in BOOLEAN
    BY <1>1, <1>4, Zenon DEF Types
  <2> QED
    BY <1>1, <1>4, <1>6, <1>8, <2>1, <2>2, <2>3 DEF Types, Steps
<1>10. \/ n.res = 0 /\ c'.com /\ c'.resp = 250 /\ CwdAnswered(c, buf, n)
       \/ n.res = -1 /\ ~tmp' /\ c'.com /\ derailed'
       \/ n.res = -1 /\ ~tmp' /\ c'.resp = JFTP_BROKEN
  <2>1. CASE n.res = 0
    BY <1>3, <1>5, <2>1 DEF CwdAnswered, Lost
  <2>2. CASE n.res = -1
    <3>1. n.res < 0 /\ n.res # 0
      BY <2>2
    <3>2. ~tmp' /\ (n.con.com => derailed')
      BY <1>3, <3>1, Zenon
    <3> QED
      BY <1>3, <1>5, <2>2, <3>2 DEF CwdAnswered, Lost
  <2> QED
    BY <1>6, <2>1, <2>2
<1>11. KindInv' /\ DataInv' /\ RetryInv' /\ TmpInv'
  BY <1>1, <1>4, <1>6, <1>7 DEF KindInv, DataInv, RetryInv, TmpInv, IsGet
<1>12. ComInv'
  BY <1>4, <1>10 DEF ComInv, JFTP_ERR, JFTP_BROKEN
<1>13. StepInv'
  <2>1. ~derailed' => ~derailed
    BY <1>3
  <2>2. ~derailed' => AcceptedIsAsked'
    BY <1>1, <1>4, <1>8, <2>1, StillAccepted
  <2>3. ~derailed => buf = RemoteDir
    BY <1>1, <1>4 DEF StepInv, Directories, KindInv
  <2>4. ASSUME ~derailed, tmp'
        PROVE  AtRoot' /\ srv'.replies = << >> /\ RightPath' /\ srv'.whole
    <3>1. n.res = 0 /\ tmp /\ CwdAnswered(c, buf, n)
      <4>1. n.res = 0 /\ tmp
        BY <1>3, <2>4, Zenon
      <4> QED
        BY <1>10, <2>4, <4>1
    <3>2. RightPath /\ srv.whole
      BY <1>1, <1>4, <2>4, <3>1 DEF StepInv, Replies
    <3>3. srv.replies = << >>
      <4>1. ASSUME NEW x \in {226, Refused}, srv.replies = <<x>>
            PROVE  FALSE
        <5>1. Head(Pending(CwdReplies(buf))) = 250
          BY <3>1 DEF CwdAnswered
        <5>2. 250 \in ReplyCodes /\ Refused \in ReplyCodes /\ x \in ReplyCodes
          BY DEF ReplyCodes
        <5>3. CwdReplies(buf) \in Seq(ReplyCodes) /\ <<x>> \in Seq(ReplyCodes)
          BY <5>2 DEF CwdReplies
        <5>4. Pending(CwdReplies(buf)) \in {<<x>>, <<x>> \o CwdReplies(buf)}
          BY <4>1 DEF Pending
        <5>5. Head(<<x>>) = x /\ Head(<<x>> \o CwdReplies(buf)) = x
          BY <5>3
        <5>6. x # 250
          BY DEF Refused
        <5> QED
          BY <5>1, <5>4, <5>5, <5>6
      <4>2. srv.replies = << >> \/ \E x \in {226, Refused} : srv.replies = <<x>>
        BY <1>1, <1>4, <2>4 DEF StepInv, Replies
      <4> QED
        BY <4>1, <4>2
    <3>4. n.left = << >> /\ CwdAfter(buf) = Resolve(buf)
      BY <1>2, <3>1, <3>3, CwdInStep, Zenon
    <3>5. srv'.cwd = srv'.root /\ c'.remote_dir = RemoteDir /\ srv'.replies = << >>
      BY <1>6, <1>8, <2>3, <2>4, <3>4, Resolved DEF Root
    <3> QED
      BY <1>4, <1>8, <3>2, <3>5 DEF AtRoot, RightPath, Asked, Root
  <2>5. ~derailed' => c'.resp # JFTP_ERR
    BY <1>10 DEF JFTP_ERR, JFTP_BROKEN
  <2>6. ~derailed' => Returns'
    BY <1>4, <1>6, <2>1, <2>3, <2>4, <2>5 DEF Returns
  <2>7. ~derailed' => Relogin' /\ Replies' /\ Directories'
    BY <1>4 DEF Relogin, Replies, Directories, LoginSteps
  <2> QED
    BY <2>2, <2>6, <2>7 DEF StepInv
<1> QED
  BY <1>9, <1>11, <1>12, <1>13 DEF IInv

LEMMA DirRetInv ==
  ASSUME IInv, DirRet
  PROVE  IInv'
<1>1. Types /\ KindInv /\ DataInv /\ ComInv /\ RetryInv /\ TmpInv /\ StepInv
  BY DEF IInv
<1> DEFINE listing == [op |-> op, path |-> srv.path, whole |-> srv.whole]
<1>2. /\ pc = "dirret" /\ got' = IF tmp THEN listing ELSE got
      /\ UNCHANGED <<c, srv, op, todo, buf, tmp, seekto, rmed, derailed, attempts>>
  BY DEF DirRet
<1>3. \/ pc' = "idle" /\ (tmp \/ c.resp = JFTP_ERR)
      \/ pc' \in {"exit", "retry"}
  BY DEF DirRet
<1>4. Types'
  <2>1. derailed' \in BOOLEAN
    BY <1>1, <1>2, Zenon DEF Types
  <2>2. c' \in Con /\ srv' \in Server /\ pc' \in Steps
    BY <1>1, <1>2, <1>3 DEF Types, Steps
  <2> QED
    BY <1>1, <1>2, <2>1, <2>2, TypesKept
<1>5. KindInv' /\ DataInv' /\ ComInv' /\ RetryInv' /\ TmpInv'
  BY <1>1, <1>2, <1>3 DEF KindInv, DataInv, ComInv, RetryInv, TmpInv, IsGet
<1>6. StepInv'
  <2>1. ~derailed /\ tmp => AtRoot /\ srv.replies = << >> /\ RightPath /\ srv.whole
    BY <1>1, <1>2 DEF StepInv, Returns
  <2>2. ~derailed' => AcceptedIsAsked'
    <3>1. CASE ~tmp
      BY <1>1, <1>2, <3>1, StillAccepted
    <3>2. CASE tmp
      <4>1. got'.op = op /\ got'.path = srv.path /\ got'.whole = srv.whole
        BY <1>2, <3>2
      <4>2. ~derailed => srv.path = Asked(got.op)'
        BY <1>2, <2>1, <3>2, <4>1 DEF RightPath, Asked, Root
      <4> QED
        BY <1>2, <2>1, <3>2, <4>1, <4>2 DEF AcceptedIsAsked
    <3> QED
      BY <3>1, <3>2
  <2>3. ~derailed' /\ pc' = "idle" => AtRoot' /\ srv'.replies = << >>
    BY <1>1, <1>2, <1>3, <2>1 DEF StepInv, Returns, AtRoot, Root
  <2>4. ~derailed' => c'.remote_dir = RemoteDir
    BY <1>1, <1>2 DEF StepInv, Returns
  <2>5. ~derailed' => Relogin' /\ Replies' /\ Directories' /\ Returns'
    BY <1>3, <2>3, <2>4 DEF Relogin, Replies, Directories, Returns, LoginSteps
  <2> QED
    BY <2>2, <2>5 DEF StepInv
<1> QED
  BY <1>4, <1>5, <1>6 DEF IInv

LEMMA OpenInv ==
  ASSUME IInv, Open
  PROVE  IInv'
<1>1. Types /\ KindInv /\ DataInv /\ ComInv /\ RetryInv /\ TmpInv /\ StepInv
  BY DEF IInv
<1>2. /\ pc = "open" /\ srv' = srv
      /\ UNCHANGED <<op, todo, buf, tmp, seekto, rmed, got, derailed, attempts>>
  BY DEF Open
<1>3. \/ pc' = "port" /\ c' = c
      \/ pc' = "getret" /\ \E e \in {JFTP_WRITEERR, JFTP_ERRNO} : c' = [c EXCEPT !.resp = e]
  BY DEF Open
<1>4. /\ c' \in Con /\ c'.data = c.data /\ c'.retries = c.retries /\ c'.remote_dir = c.remote_dir
      /\ pc' = "getret" => c'.resp # JFTP_ERR
  <2>1. c \in Con
    BY <1>1 DEF Types
  <2>2. CASE c' = c /\ pc' = "port"
    BY <2>1, <2>2
  <2>3. ASSUME NEW e \in {JFTP_WRITEERR, JFTP_ERRNO}, c' = [c EXCEPT !.resp = e]
        PROVE  <1>4!1 /\ c'.resp # JFTP_ERR
    BY <2>1, <2>3 DEF Con, RespCodes, JFTP_WRITEERR, JFTP_ERRNO, JFTP_ERR
  <2> QED
    BY <1>3, <2>2, <2>3
<1>5. Types'
  <2>1. derailed' \in BOOLEAN
    BY <1>1, <1>2, Zenon DEF Types
  <2>2. srv' \in Server /\ pc' \in Steps
    BY <1>1, <1>2, <1>3 DEF Types, Steps
  <2> QED
    BY <1>1, <1>2, <1>4, <2>1, <2>2, TypesKept
<1>6. KindInv' /\ DataInv' /\ ComInv' /\ RetryInv' /\ TmpInv'
  BY <1>1, <1>2, <1>3, <1>4 DEF KindInv, DataInv, ComInv, RetryInv, TmpInv, IsGet
<1>7. StepInv'
  <2>1. ~derailed' => AcceptedIsAsked'
    BY <1>1, <1>2, StillAccepted
  <2>2. ~derailed' => AtRoot' /\ srv'.replies = << >>
    BY <1>1, <1>2, <1>4 DEF StepInv, Directories, Replies, AtRoot, Root
  <2>3. IsGet'
    BY <1>1, <1>2 DEF KindInv, IsGet
  <2>4. ~derailed' => Relogin' /\ Replies' /\ Directories' /\ Returns'
    BY <1>3, <2>2, <2>3 DEF Relogin, Replies, Directories, Returns, LoginSteps, AtRoot
  <2> QED
    BY <2>1, <2>4 DEF StepInv
<1> QED
  BY <1>5, <1>6, <1>7 DEF IInv

LEMMA GetRetInv ==
  ASSUME IInv, GetRet
  PROVE  IInv'
<1>1. Types /\ KindInv /\ DataInv /\ ComInv /\ RetryInv /\ TmpInv /\ StepInv
  BY DEF IInv
<1>2. /\ pc = "getret" /\ rmed' = (rmed \/ c.resp = JFTP_WRITEERR)
      /\ UNCHANGED <<c, srv, op, todo, buf, tmp, seekto, got, derailed, attempts>>
  BY DEF GetRet
<1>3. \/ pc' = "idle" /\ c.resp = JFTP_ERR
      \/ pc' = "open" /\ c.resp = JFTP_WRITEERR
      \/ pc' \in {"exit", "retry"}
  BY DEF GetRet
<1>4. Types'
  <2>1. derailed' \in BOOLEAN /\ tmp' \in BOOLEAN /\ seekto' \in BOOLEAN
    BY <1>1, <1>2, Zenon DEF Types
  <2>2. rmed' \in BOOLEAN
    BY <1>1, <1>2, Zenon DEF Types
  <2> QED
    BY <1>1, <1>2, <1>3, <2>1, <2>2 DEF Types, Steps
<1>5. KindInv' /\ DataInv' /\ ComInv' /\ RetryInv' /\ TmpInv'
  BY <1>1, <1>2, <1>3 DEF KindInv, DataInv, ComInv, RetryInv, TmpInv, IsGet
<1>6. StepInv'
  <2>1. ~derailed' => AcceptedIsAsked'
    BY <1>1, <1>2, StillAccepted
  <2>2. ~derailed' /\ pc' \in {"idle", "open"} => AtRoot' /\ srv'.replies = << >>
    BY <1>1, <1>2, <1>3
    DEF StepInv, Returns, AtRoot, Root, JFTP_ERR, JFTP_WRITEERR, JFTP_BROKEN, JFTP_TIMEOUT
  <2>3. ~derailed' => c'.remote_dir = RemoteDir
    BY <1>1, <1>2 DEF StepInv, Returns
  <2>4. ~derailed' => Relogin' /\ Replies' /\ Directories' /\ Returns'
    BY <1>3, <2>2, <2>3 DEF Relogin, Replies, Directories, Returns, LoginSteps
  <2> QED
    BY <2>1, <2>4 DEF StepInv
<1> QED
  BY <1>4, <1>5, <1>6 DEF IInv

LEMMA StallInv ==
  ASSUME IInv, Stall
  PROVE  IInv'
<1>1. Types /\ KindInv /\ DataInv /\ ComInv /\ RetryInv /\ TmpInv /\ StepInv
  BY DEF IInv
<1>2. /\ srv' = [srv EXCEPT !.quiet = TRUE]
      /\ UNCHANGED <<c, pc, op, todo, buf, tmp, seekto, rmed, got, derailed, attempts>>
  BY DEF Stall
<1>3. /\ srv' \in Server /\ srv'.replies = srv.replies /\ srv'.cwd = srv.cwd
      /\ srv'.path = srv.path /\ srv'.whole = srv.whole /\ srv'.root = srv.root
  BY <1>1, <1>2 DEF Types, Server
<1>4. Types'
  <2>1. derailed' \in BOOLEAN
    BY <1>1, <1>2, Zenon DEF Types
  <2>2. c' \in Con /\ pc' \in Steps
    BY <1>1, <1>2 DEF Types
  <2> QED
    BY <1>1, <1>2, <1>3, <2>1, <2>2, TypesKept
<1>5. KindInv' /\ DataInv' /\ ComInv' /\ RetryInv' /\ TmpInv'
  BY <1>1, <1>2 DEF KindInv, DataInv, ComInv, RetryInv, TmpInv, IsGet
<1>6. StepInv'
  <2>1. ~derailed' => AcceptedIsAsked'
    BY <1>1, <1>2, <1>3, StillAccepted
  <2>2. ~derailed' => Relogin'
    BY <1>1, <1>2 DEF StepInv, Relogin
  <2>3. Asked(op)' = Asked(op)
    BY <1>2, <1>3 DEF Asked, Root
  <2>4. ~derailed' => Replies'
    BY <1>1, <1>2, <1>3, <2>3 DEF StepInv, Replies, LastReply, RightPath
  <2>5. ~derailed' => Directories'
    BY <1>1, <1>2, <1>3, <2>3 DEF StepInv, Directories, AtRoot, Root, IsGet
  <2>6. ~derailed' => Returns'
    BY <1>1, <1>2, <1>3, <2>3 DEF StepInv, Returns, RightPath, AtRoot, Root
  <2> QED
    BY <2>1, <2>2, <2>4, <2>5, <2>6 DEF StepInv
<1> QED
  BY <1>4, <1>5, <1>6 DEF IInv

\* What LIST and RETR are answered with.
LEMMA TransferAnswers ==
  ASSUME NEW path, NEW r \in TransferReplies(path)
  PROVE  /\ r \in Seq(ReplyCodes) /\ r # << >> /\ Head(r) # Garbage
         /\ Tail(r) = << >> \/ \E x \in {226, Refused} : Tail(r) = <<x>>
         /\ Head(r) = 150 => \/ r = <<150, 226>> /\ Tail(r) = <<226>>
                             \/ r # <<150, 226>> /\ Tail(r) = <<Refused>>
<1>1. 150 \in ReplyCodes /\ 125 \in ReplyCodes /\ 226 \in ReplyCodes /\ Refused \in ReplyCodes
  BY DEF ReplyCodes
<1>2. r \in {<<150, 226>>, <<150, Refused>>, <<125, 226>>, <<Refused>>}
  BY DEF TransferReplies
<1>3. CASE r = <<150, 226>>
  BY <1>1, <1>3 DEF Garbage
<1>4. CASE r = <<150, Refused>>
  <2>1. r # <<150, 226>>
    BY <1>4 DEF Refused
  <2> QED
    BY <1>1, <1>4, <2>1 DEF Garbage
<1>5. CASE r = <<125, 226>>
  BY <1>1, <1>5 DEF Garbage
<1>6. CASE r = <<Refused>>
  BY <1>1, <1>6 DEF Garbage, Refused
<1> QED
  BY <1>2, <1>3, <1>4, <1>5, <1>6

\* A transfer is of what is asked for, and its last reply says whether it is whole.
LEMMA TransferInv ==
  ASSUME IInv, NEW path \in Sources, NEW step, Transfer(path, step),
         \/ step = "list" /\ ~IsGet /\ path = srv.cwd
         \/ step = "retr" /\ IsGet /\ path = Append(srv.cwd, op.name)
  PROVE  IInv'
<1>1. Types /\ KindInv /\ DataInv /\ ComInv /\ RetryInv /\ TmpInv /\ StepInv
  BY DEF IInv
<1>2. c \in Con /\ srv \in Server
  BY <1>1 DEF Types
<1>3. PICK r \in TransferReplies(path) : \E n \in ftp_req(c, r) :
        /\ \/ Expect(n, {150}) /\ c' = n.con /\ pc' = "read" /\ UNCHANGED derailed
           \/ ~Expect(n, {150}) /\ ~IsGet /\ c' = DataClosed(ErrIfRefused(n)) /\ pc' = "cdback"
              /\ UNCHANGED derailed
           \/ ~Expect(n, {150}) /\ IsGet /\ c' = DataClosed(ErrIfRefused(n)) /\ pc' = "getret"
              /\ derailed' = (derailed \/ (n.left # << >> /\ n.res = 0))
        /\ srv' = [srv EXCEPT !.replies = n.left, !.path = path, !.whole = (r = <<150, 226>>)]
  BY DEF Transfer
<1>4. PICK n \in ftp_req(c, r) :
        /\ \/ Expect(n, {150}) /\ c' = n.con /\ pc' = "read" /\ UNCHANGED derailed
           \/ ~Expect(n, {150}) /\ ~IsGet /\ c' = DataClosed(ErrIfRefused(n)) /\ pc' = "cdback"
              /\ UNCHANGED derailed
           \/ ~Expect(n, {150}) /\ IsGet /\ c' = DataClosed(ErrIfRefused(n)) /\ pc' = "getret"
              /\ derailed' = (derailed \/ (n.left # << >> /\ n.res = 0))
        /\ srv' = [srv EXCEPT !.replies = n.left, !.path = path, !.whole = (r = <<150, 226>>)]
  BY <1>3
<1>5. pc = step /\ UNCHANGED <<op, todo, buf, tmp, seekto, rmed, got, attempts>>
  BY DEF Transfer
<1>6. /\ r \in Seq(ReplyCodes) /\ r # << >> /\ Head(r) # Garbage
      /\ Tail(r) = << >> \/ \E x \in {226, Refused} : Tail(r) = <<x>>
      /\ Head(r) = 150 => \/ r = <<150, 226>> /\ Tail(r) = <<226>>
                          \/ r # <<150, 226>> /\ Tail(r) = <<Refused>>
  <2>1. r \in TransferReplies(path)
    OBVIOUS
  <2> HIDE <1>3, <1>4
  <2> QED
    BY <2>1, TransferAnswers, ZenonT(30)
<1>7. n \in Outcome /\ Kept(c, n.con) /\ (Answered(c, r, n) \/ Lost(n))
  BY <1>2, <1>4, <1>6, ReqOutcome, Zenon
<1>8. n.con \in Con /\ n.left \in Seq(ReplyCodes) /\ n.res \in {0, -1}
      /\ n.con.retries = c.retries /\ n.con.remote_dir = c.remote_dir
  BY <1>7 DEF Outcome, Kept
<1>9. /\ srv' \in Server /\ srv'.replies = n.left /\ srv'.path = path
      /\ srv'.whole = (r = <<150, 226>>) /\ srv'.cwd = srv.cwd /\ srv'.root = srv.root
  <2>1. (r = <<150, 226>>) \in BOOLEAN
    OBVIOUS
  <2> DEFINE w == (r = <<150, 226>>)
  <2>2. w \in BOOLEAN /\ srv' = [srv EXCEPT !.replies = n.left, !.path = path, !.whole = w]
    BY <1>4, <2>1
  <2> HIDE DEF w
  <2>3. /\ srv' \in Server /\ srv'.replies = n.left /\ srv'.path = path
        /\ srv'.whole = w /\ srv'.cwd = srv.cwd /\ srv'.root = srv.root
    BY <1>2, <1>8, <2>2 DEF Server
  <2> QED
    BY <2>3 DEF w
<1>10. ASSUME ~derailed
       PROVE  /\ Asked(op)' = path
              /\ \/ Lost(n)
                 \/ n.res = 0 /\ n.con.com /\ n.con.resp = Head(r) /\ n.left = Tail(r)
  <2>1. srv.replies = << >>
    BY <1>1, <1>5, <1>10 DEF StepInv, Replies
  <2>2. Asked(op)' = Asked(op)
    BY <1>5, <1>9 DEF Asked, Root
  <2>3. ASSUME step = "list" /\ ~IsGet /\ path = srv.cwd
        PROVE  Asked(op)' = path
    <3>1. srv.cwd = Asked(op)
      BY <1>1, <1>5, <1>10, <2>3 DEF StepInv, Directories
    <3> QED
      BY <2>2, <2>3, <3>1
  <2>4. ASSUME step = "retr" /\ IsGet /\ path = Append(srv.cwd, op.name)
        PROVE  Asked(op)' = path
    <3>1. srv.cwd = Root
      BY <1>1, <1>5, <1>10, <2>4 DEF StepInv, Directories, AtRoot
    <3>2. op.name # Dot
      BY <1>1, <2>4, OpParts
    <3> QED
      BY <2>2, <2>4, <3>1, <3>2 DEF Asked
  <2>5. ASSUME Answered(c, r, n)
        PROVE  n.res = 0 /\ n.con.com /\ n.con.resp = Head(r) /\ n.left = Tail(r)
    <3>1. Pending(r) # << >>
      BY <2>5 DEF Answered
    <3>2. Pending(r) = r
      BY <1>2, <1>6, <2>1, <3>1, PendingNew, Zenon
    <3> QED
      BY <1>6, <2>5, <3>2 DEF Answered
  <2> QED
    BY <1>7, <2>3, <2>4, <2>5
<1>11. ASSUME NEW con \in Con, c' = con, con.retries = c.retries, pc' \in {"read", "cdback", "getret"},
              derailed' \in BOOLEAN,
              con.data => pc' = "read",
              pc' = "read" => con.com,
              pc' = "cdback" => ~IsGet,
              pc' = "getret" => IsGet /\ (con.resp = JFTP_ERR => con.com)
       PROVE  Types' /\ KindInv' /\ DataInv' /\ ComInv' /\ RetryInv' /\ TmpInv'
  <2>1. pc' \in Steps
    BY <1>11 DEF Steps
  <2>2. Types'
    BY <1>1, <1>5, <1>9, <1>11, <2>1, TypesKept
  <2>3. pc \in {"list", "retr"}
    BY <1>5
  <2> QED
    BY <1>1, <1>5, <1>11, <2>2, <2>3 DEF KindInv, DataInv, ComInv, RetryInv, TmpInv, IsGet
<1> DEFINE err == DataClosed(ErrIfRefused(n))
<1>12. /\ err \in Con /\ err.retries = c.retries /\ err.remote_dir = c.remote_dir
       /\ ~err.data /\ err.com = n.con.com
       /\ err.resp = IF n.res = 0 THEN JFTP_ERR ELSE n.con.resp
  <2>1. /\ ErrIfRefused(n) \in Con /\ Kept(n.con, ErrIfRefused(n))
        /\ ErrIfRefused(n).com = n.con.com
        /\ ErrIfRefused(n).resp = IF n.res = 0 THEN JFTP_ERR ELSE n.con.resp
    BY <1>7, ErrCon, Zenon
  <2>2. /\ err \in Con /\ Kept(ErrIfRefused(n), err)
        /\ err.com = ErrIfRefused(n).com /\ err.resp = ErrIfRefused(n).resp /\ ~err.data
    BY <2>1, ClosedCon, Zenon
  <2> QED
    BY <1>8, <2>1, <2>2, Zenon DEF Kept
<1>13. err.resp = JFTP_ERR => err.com
  BY <1>7, <1>12 DEF Answered, Lost, JFTP_ERR, JFTP_BROKEN
<1> HIDE DEF err
<1>14. CASE Expect(n, {150}) /\ c' = n.con /\ pc' = "read" /\ UNCHANGED derailed
  <2>1. n.con.com /\ n.res = 0 /\ n.con.resp = 150
    BY <1>7, <1>14 DEF Expect, Answered, Lost
  <2>2. derailed' \in BOOLEAN
    BY <1>1, <1>14, Zenon DEF Types
  <2>3. Types' /\ KindInv' /\ DataInv' /\ ComInv' /\ RetryInv' /\ TmpInv'
    BY <1>8, <1>11, <1>14, <2>1, <2>2
  <2>4. StepInv'
    <3>1. ~derailed' => AcceptedIsAsked'
      BY <1>1, <1>5, <1>9, <1>14, StillAccepted
    <3>2. ASSUME ~derailed'
          PROVE  LastReply' /\ RightPath'
      <4>1. n.left = Tail(r) /\ Head(r) = 150 /\ Asked(op)' = path
        BY <1>10, <1>14, <2>1, <3>2 DEF Lost
      <4>2. \/ srv'.replies = <<226>> /\ srv'.whole
            \/ srv'.replies = <<Refused>>
        BY <1>6, <1>9, <4>1
      <4>3. LastReply'
        BY <4>2 DEF LastReply, Refused
      <4> QED
        BY <1>9, <4>1, <4>3 DEF RightPath
    <3>3. ~derailed' => Relogin' /\ Replies' /\ Returns'
      BY <1>14, <3>2 DEF Relogin, Replies, Returns, LoginSteps
    <3>4. ~derailed' => Directories'
      BY <1>1, <1>5, <1>8, <1>9, <1>14 DEF StepInv, Directories, AtRoot, IsGet, Asked, Root
    <3> QED
      BY <3>1, <3>3, <3>4 DEF StepInv
  <2> QED
    BY <2>3, <2>4 DEF IInv
<1>15. CASE ~Expect(n, {150}) /\ ~IsGet /\ c' = err /\ pc' = "cdback" /\ UNCHANGED derailed
  <2>1. derailed' \in BOOLEAN
    BY <1>1, <1>15, Zenon DEF Types
  <2>2. Types' /\ KindInv' /\ DataInv' /\ ComInv' /\ RetryInv' /\ TmpInv'
    BY <1>11, <1>12, <1>15, <2>1
  <2>3. StepInv'
    <3>1. ~derailed' => AcceptedIsAsked'
      BY <1>1, <1>5, <1>9, <1>15, StillAccepted
    <3>2. ~tmp'
      BY <1>1, <1>5, <1>15 DEF TmpInv
    <3>3. ~derailed' => srv'.replies = << >> \/ \E x \in {226, Refused} : srv'.replies = <<x>>
      <4>1. ~derailed' => n.left = << >> \/ n.left = Tail(r)
        BY <1>10, <1>15 DEF Lost
      <4>2. srv'.replies = n.left
        BY <1>9
      <4> DEFINE few(s) == s = << >> \/ \E x \in {226, Refused} : s = <<x>>
      <4>3. few(Tail(r)) /\ few(<< >>)
        BY <1>6, Zenon
      <4> HIDE DEF few
      <4>4. ~derailed' => few(srv'.replies)
        BY <4>1, <4>2, <4>3
      <4> QED
        BY <4>4 DEF few
    <3>4. ~derailed' => Relogin' /\ Replies' /\ Returns'
      BY <1>15, <3>2, <3>3 DEF Relogin, Replies, Returns, LoginSteps
    <3>5. ~derailed' => Directories'
      BY <1>1, <1>5, <1>9, <1>15 DEF StepInv, Directories, AtRoot, IsGet, Asked, Root
    <3> QED
      BY <3>1, <3>4, <3>5 DEF StepInv
  <2> QED
    BY <2>2, <2>3 DEF IInv
<1>16. CASE /\ ~Expect(n, {150}) /\ IsGet /\ c' = err /\ pc' = "getret"
            /\ derailed' = (derailed \/ (n.left # << >> /\ n.res = 0))
  <2>1. derailed' \in BOOLEAN
    BY <1>1, <1>16, Zenon DEF Types
  <2>2. Types' /\ KindInv' /\ DataInv' /\ ComInv' /\ RetryInv' /\ TmpInv'
    BY <1>11, <1>12, <1>13, <1>16, <2>1
  <2>3. StepInv'
    <3>1. ~derailed' => ~derailed /\ (n.left = << >> \/ n.res # 0)
      BY <1>16
    <3>2. ~derailed' => AcceptedIsAsked'
      BY <1>1, <1>5, <1>9, <3>1, StillAccepted
    <3>3. ~derailed' => srv'.replies = << >>
      BY <1>9, <1>10, <3>1 DEF Lost
    <3>4. ~derailed' => AtRoot'
      BY <1>1, <1>5, <1>9, <1>12, <1>16, <3>1 DEF StepInv, Directories, AtRoot, Root
    <3>5. ~derailed' => Relogin' /\ Replies' /\ Directories' /\ Returns'
      BY <1>16, <3>3, <3>4 DEF Relogin, Replies, Directories, Returns, LoginSteps, AtRoot
    <3> QED
      BY <3>2, <3>5 DEF StepInv
  <2> QED
    BY <2>2, <2>3 DEF IInv
<1> QED
  BY <1>4, <1>14, <1>15, <1>16 DEF err

LEMMA InitIInv == Init => IInv
<1> SUFFICES ASSUME Init
             PROVE  IInv
  OBVIOUS
<1>1. PICK p \in Passive : c = FreshCon(p)
  BY DEF Init
<1>2. p \in BOOLEAN
  BY <1>1, PassiveAssumption
<1>3. None \in Names /\ 0 \in RespCodes /\ Retries \in Int
  BY RetriesAssumption DEF Names, RespCodes, ReplyCodes, Garbage
<1>4. /\ c \in Con /\ c.data = FALSE /\ c.remote_dir = None /\ c.retries = Retries
  BY <1>1, <1>2, <1>3 DEF FreshCon, Con
<1>5. Home \in Place /\ Home \in Sources /\ << >> \in Seq(ReplyCodes)
  BY DEF Place, Sources
<1>6. srv \in Server
  BY <1>5 DEF Init, Server
<1>7. pc = "connect" /\ op = [kind |-> "boot", name |-> Dot] /\ got = None /\ attempts = 0
  BY DEF Init
<1>8. tmp \in BOOLEAN /\ seekto \in BOOLEAN /\ rmed \in BOOLEAN /\ derailed \in BOOLEAN
  BY Zenon DEF Init
<1>9. op \in Ops /\ op.kind = "boot" /\ todo \subseteq {o \in Ops : o.kind # "boot"} /\ buf \in Names
  BY <1>3, <1>7 DEF Init, Ops
<1>10. Types
  BY <1>4, <1>6, <1>7, <1>8, <1>9 DEF Types, Steps
<1>11. KindInv /\ DataInv /\ ComInv /\ RetryInv /\ TmpInv
  BY <1>4, <1>7, <1>9, RetriesAssumption DEF KindInv, DataInv, ComInv, RetryInv, TmpInv
<1>12. StepInv
  BY <1>4, <1>7, <1>9
  DEF StepInv, Relogin, Replies, Directories, Returns, AcceptedIsAsked, LoginSteps
<1> QED
  BY <1>10, <1>11, <1>12 DEF IInv

LEMMA NextIInv == IInv /\ [Next]_vars => IInv'
<1> SUFFICES ASSUME IInv, [Next]_vars
             PROVE  IInv'
  OBVIOUS
<1>1. srv.cwd \in Sources /\ Append(srv.cwd, op.name) \in Sources
  <2>1. srv.cwd \in Place /\ op.name \in Names
    BY OpParts DEF IInv, Types, Server
  <2> QED
    BY <2>1 DEF Sources
<1>2. CASE Connect
  BY <1>2, ConnectInv
<1>3. CASE \E s \in DOMAIN Dialogue : LoginStep(s)
  BY <1>3, LoginStepInv
<1>4. CASE Recwd
  BY <1>4, RecwdInv
<1>5. CASE Retry
  BY <1>5, RetryLoopInv
<1>6. CASE SetType
  BY <1>6, SetTypeInv
<1>7. CASE RootCd
  BY <1>7, RootCdInv
<1>8. CASE NextOp
  BY <1>8, NextOpInv
<1>9. CASE SyncDone
  BY <1>9, SyncDoneInv
<1>10. CASE ftp_bye
  BY <1>10, ByeInv
<1>11. CASE DirCd
  BY <1>11, DirCdInv
<1>12. CASE MkstempFails
  BY <1>12, MkstempFailsInv
<1>13. CASE List
  BY <1>1, <1>13, TransferInv DEF List
<1>14. CASE WriteFails
  BY <1>14, WriteFailsInv
<1>15. CASE CdBack
  BY <1>15, CdBackInv
<1>16. CASE DirRet
  BY <1>16, DirRetInv
<1>17. CASE Open
  BY <1>17, OpenInv
<1>18. CASE Rest
  BY <1>18, RestInv
<1>19. CASE Retr
  BY <1>1, <1>19, TransferInv DEF Retr
<1>20. CASE GetRet
  BY <1>20, GetRetInv
<1>21. CASE Port
  BY <1>21, PortInv
<1>22. CASE Read
  BY <1>22, ReadInv
<1>23. CASE More
  BY <1>23, MoreInv
<1>24. CASE Final
  BY <1>24, FinalInv
<1>25. CASE Stall
  BY <1>25, StallInv
<1>26. CASE UNCHANGED vars
  <2>1. /\ c' = c /\ srv' = srv /\ pc' = pc /\ op' = op /\ todo' = todo /\ buf' = buf
        /\ tmp' = tmp /\ seekto' = seekto /\ rmed' = rmed /\ got' = got
        /\ derailed' = derailed /\ attempts' = attempts
    BY <1>26 DEF vars
  <2>2. Types' = Types
    BY <2>1, Zenon DEF Types
  <2>3. KindInv' /\ DataInv' /\ ComInv' /\ RetryInv' /\ TmpInv'
    BY <2>1 DEF IInv, KindInv, DataInv, ComInv, RetryInv, TmpInv, IsGet
  <2>4. Asked(op)' = Asked(op) /\ Asked(got.op)' = Asked(got.op)
    BY <2>1, Zenon DEF Asked, Root
  <2>5. AcceptedIsAsked' = AcceptedIsAsked
    BY <2>1, <2>4, Zenon DEF AcceptedIsAsked
  <2>6. Relogin' = Relogin
    BY <2>1, Zenon DEF Relogin
  <2>7. Replies' = Replies
    BY <2>1, <2>4, Zenon DEF Replies, LastReply, RightPath
  <2>8. Directories' = Directories
    BY <2>1, <2>4, Zenon DEF Directories, AtRoot, Root, IsGet
  <2>9. Returns' = Returns
    BY <2>1, <2>4, Zenon DEF Returns, AtRoot, Root, RightPath
  <2>10. StepInv' = StepInv
    BY <2>1, <2>5, <2>6, <2>7, <2>8, <2>9, Zenon DEF StepInv
  <2> QED
    BY <2>2, <2>3, <2>10, Zenon DEF IInv
<1> QED
  BY <1>2, <1>3, <1>4, <1>5, <1>6, <1>7, <1>8, <1>9, <1>10, <1>11, <1>12, <1>13, <1>14, <1>15,
     <1>16, <1>17, <1>18, <1>19, <1>20, <1>21, <1>22, <1>23, <1>24, <1>25, <1>26
  DEF Next, Client, Login, Main, Dir, Get, Wait, Exited

\* IInv holds in every state of the session.
LEMMA Invariance == Spec => []IInv
  BY InitIInv, NextIInv, PTL DEF Spec

-----------------------------------------------------------------------------
(* What the invariant says of the session                                  *)

(* Every variable of the session keeps its type: ftp_resp is a JFTP_ code  *)
(* or a reply code, and what jftp.c reads is always a sequence of replies. *)
THEOREM TypeCorrect == Spec => []TypeOK
<1>1. IInv => TypeOK
  <2> SUFFICES ASSUME IInv
               PROVE  TypeOK
    OBVIOUS
  <2>1. /\ c \in Con /\ srv \in Server /\ pc \in Steps /\ op \in Ops /\ todo \subseteq Ops
        /\ buf \in Names /\ attempts \in Nat
    BY DEF IInv, Types
  <2>2. srv.replies \in Seq(ReplyCodes) /\ srv.quiet \in BOOLEAN
    BY <2>1 DEF Server
  <2>3. {tmp, seekto, rmed, derailed} \subseteq BOOLEAN
    BY Zenon DEF IInv, Types
  <2> QED
    BY <2>1, <2>2, <2>3, Zenon DEF TypeOK, Con
<1> QED
  BY <1>1, Invariance, PTL

(* ftp_port never finds the data connection of an earlier transfer open,   *)
(* whichever way the transfer ended: every exit of ftp_dir2 and ftp_get    *)
(* has closed it.                                                          *)
THEOREM PortFindsClosed == Spec => []DataClosedAtPort
<1>1. IInv => DataClosedAtPort
  BY DEF IInv, DataInv, DataClosedAtPort
<1> QED
  BY <1>1, Invariance, PTL

(* spegla.c begins its next request only over an open control connection:  *)
(* JFTP_ERR, at which it skips the file or directory and goes on, is never *)
(* the code of a connection that was lost.                                 *)
THEOREM Connected == Spec => []IdleConnected
<1>1. IInv => IdleConnected
  BY DEF IInv, ComInv, IdleConnected
<1> QED
  BY <1>1, Invariance, PTL

(* The three retry loops share one counter: for every value of "retries"   *)
(* there are at most two more attempts to log in, the first one included,  *)
(* however the failures are spread over files and directories.  That is    *)
(* one more than the manual page says (RetriesAsDocumented).               *)
THEOREM LoginsBounded == Spec => [](attempts <= Retries + 2)
<1>1. IInv => attempts <= Retries + 2
  BY DEF IInv, RetryInv
<1> QED
  BY <1>1, Invariance, PTL

(* A session that was not derailed is between two requests in the mirrored *)
(* directory and has read every reply, whatever failed and however often   *)
(* it had to log in again.                                                 *)
THEOREM StaysInStep == Spec => []InStep
<1>1. IInv => InStep
  BY DEF IInv, StepInv, Replies, Directories, AtRoot, InStep
<1> QED
  BY <1>1, Invariance, PTL

(* What ftp_dir or ftp_get returns as complete in such a session is the    *)
(* listing or the file that was asked for, and all of it.                  *)
THEOREM AcceptsAsked == Spec => []AcceptedIsAsked
<1>1. IInv => AcceptedIsAsked
  BY DEF IInv, StepInv, AcceptedIsAsked
<1> QED
  BY <1>1, Invariance, PTL
=============================================================================
