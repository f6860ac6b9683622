------------------------------ MODULE FtpSession ------------------------------
(***************************************************************************)
(* One control connection of yafc: the Ftp structure, the blocking         *)
(* request/reply primitive ftp_cmd with its automatic reconnect and        *)
(* resend, the commands cd, ls, mkdir, get, user, open and close built     *)
(* from it, reply timeouts, the SIGINT handlers and the FTP server at the  *)
(* other end.                                                              *)
(*                                                                         *)
(* The program is single threaded.  It gives up control only where it      *)
(* blocks, so a step of the client runs from one blocking point (a reply,  *)
(* the data connection, connect(), the prompt) to the next, and signals    *)
(* and server steps interleave at those points.  pc names the point.       *)
(* stack holds the activations of ftp_cmd: the first frame waits for a     *)
(* reply, the frames below it were interrupted by a 421 and are sent again *)
(* when the reconnect that runs above them has returned.                   *)
(***************************************************************************)
EXTENDS Naturals, Sequences, FiniteSets

CONSTANTS
    Dirs,           \* absolute paths of the server's directories
    Home,           \* where a login starts
    BadDir,         \* "CWD?" and every other path the server does not have
    NoDir,          \* no path at all (a NULL directory)
    AutoReconnect,  \* gvAutoReconnect
    ServerMlsd,     \* does the server implement MLSD?
    LocalFails,     \* may fopen() of the local file fail after RETR?
    MaxOps,         \* bound: commands typed at the prompt
    MaxDrops,       \* bound: sessions the server ends on its own
    MaxInts,        \* bound: SIGINTs after the connection is made
    MaxJmps,        \* bound: SIGINTs before
    MaxGone         \* bound: directories other clients remove

ASSUME SessionAssumption ==
    /\ Home \in Dirs
    /\ BadDir \notin Dirs /\ NoDir \notin Dirs /\ BadDir # NoDir
    /\ AutoReconnect \in BOOLEAN /\ ServerMlsd \in BOOLEAN
    /\ LocalFails \in BOOLEAN
    /\ MaxOps \in Nat /\ MaxDrops \in Nat /\ MaxInts \in Nat
    /\ MaxJmps \in Nat /\ MaxGone \in Nat

VARIABLES
    ftp,    \* the Ftp structure of the client
    stack,  \* activations of ftp_cmd
    pc,     \* where the client blocks
    op,     \* the command being executed and its locals
    sig,    \* SIGINT handler, its counter, and whether SIGALRM is armed
    c2s,    \* commands in flight
    s2c,    \* replies in flight
    srv,    \* the server's session
    dconn,  \* the data connection: what the server sends over it
    stale,  \* history: directories changed since they were last listed
    made,   \* history: how often the server executed each MKD
    got,    \* history: what the last successful get delivered
    gone,   \* directories removed by other clients
    left    \* remaining budgets

vars == <<ftp, stack, pc, op, sig, c2s, s2c, srv, dconn,
          stale, made, got, gone, left>>
net == <<srv, dconn, stale, made, gone>>
-----------------------------------------------------------------------------
(* Values *)

Serials == 1..MaxOps            \* every command typed has one
Paths == Dirs \cup {BadDir, NoDir}

Verbs == {"USER", "PASS", "PWD", "CWD", "MKD", "PASV", "MLSD", "LIST",
          "TYPE", "REST", "RETR", "ABOR", "QUIT"}

Continuations ==
    {"user", "pass", "homePwd", "loginCwd", "loginCwdPwd", "cdCwd", "cdPwd",
     "lsCwd", "lsPasv", "lsList", "lsBack", "mkd",
     "getPasv", "getType", "getRest", "getRetr", "quit"}

Points == {"prompt", "cmd", "connect", "welcome", "data", "drain",
           "final", "abort1", "abort2", "crashed"}

Codes == {0, 150, 200, 220, 221, 226, 227, 230, 250, 257, 331, 350,
          421, 425, 426, 451, 500, 530, 550}

(* A command: its verb, its argument and its serial number.  The argument  *)
(* of MKD is relative; a is then the directory it was typed in (history).  *)
Cmd(v, a, n) == [v |-> v, a |-> a, n |-> n]
Verb(v) == Cmd(v, NoDir, 0)
Reply(full, re, dir) == [full |-> full, re |-> re, dir |-> dir]
NoReply == Reply(0, "none", NoDir)

Class(r) == r.full \div 100     \* ftp->code: 1 preliminary ... 5 error

CmdSet == [v : Verbs, a : Paths, n : 0..MaxOps]
ReplySet == [full : Codes, dir : Paths,
             re : Verbs \cup {"none", "banner", "421", "list", "retr"}]
FrameSet == [cmd : CmdSet, recon : BOOLEAN, k : Continuations]
EntrySet == [path : Paths, of : Paths, whole : BOOLEAN]

FtpSet == [connected : BOOLEAN, ctrl : BOOLEAN, loggedin : BOOLEAN,
           curdir : Paths, full : Codes, url : BOOLEAN, urldir : Paths,
           type : {"?", "I"}, hasPasv : BOOLEAN, hasMlsd : BOOLEAN,
           cache : SUBSET EntrySet, marks : SUBSET Paths]
OpSet == [name : {"none", "open", "reopen", "user", "cd", "ls", "mkdir", "get",
                  "close"},
          dir : Paths, here : BOOLEAN, verb : {"MLSD", "LIST"}, abor : BOOLEAN,
          failed : BOOLEAN, whole : BOOLEAN, of : Paths, resume : BOOLEAN]
SigSet == [h : {"jmp", "abort", "close"}, n : 0..3, alarm : BOOLEAN]
SrvSet == [up : BOOLEAN, auth : BOOLEAN, cwd : Dirs, type : {"A", "I"},
           rest : BOOLEAN, data : BOOLEAN, xfer : BOOLEAN]
DconnSet == [kind : {"none", "list", "retr"}, of : Paths, type : {"A", "I"},
             rest : BOOLEAN, eof : BOOLEAN, whole : BOOLEAN]
GotSet == [type : {"A", "I"}, rest : BOOLEAN, resume : BOOLEAN,
           whole : BOOLEAN]
LeftSet == [ops : 0..MaxOps, drops : 0..MaxDrops, ints : 0..MaxInts,
            jmps : 0..MaxJmps]

NoOp == [name |-> "none", dir |-> NoDir, here |-> TRUE, verb |-> "LIST",
         abor |-> FALSE, failed |-> FALSE, whole |-> FALSE, of |-> NoDir,
         resume |-> FALSE]

(* The server side of a session: none, and a fresh one. *)
Down == [up |-> FALSE, auth |-> FALSE, cwd |-> Home, type |-> "A",
         rest |-> FALSE, data |-> FALSE, xfer |-> FALSE]
NewSession == [Down EXCEPT !.up = TRUE]

(* Signal dispositions.  PromptSig: ftp_initsigs.  AbortSig and CloseSig:  *)
(* ftp_set_abort_handler and ftp_set_close_handler, which both clear the   *)
(* counter, followed by the alarm that ftp_read_reply arms.                *)
PromptSig == [h |-> "jmp", n |-> 0, alarm |-> FALSE]
AbortSig == [h |-> "abort", n |-> 0, alarm |-> TRUE]
CloseSig == [h |-> "close", n |-> 0, alarm |-> TRUE]

Init ==
    /\ ftp = [connected |-> FALSE, ctrl |-> FALSE, loggedin |-> FALSE,
              curdir |-> BadDir, full |-> 0, url |-> FALSE, urldir |-> NoDir,
              type |-> "?", hasPasv |-> TRUE, hasMlsd |-> TRUE,
              cache |-> {}, marks |-> {}]
    /\ stack = <<>>
    /\ pc = "prompt"
    /\ op = NoOp
    /\ sig = PromptSig
    /\ c2s = <<>>
    /\ s2c = <<>>
    /\ srv = Down
    /\ dconn = [kind |-> "none", of |-> NoDir, type |-> "A", rest |-> FALSE,
                eof |-> TRUE, whole |-> FALSE]
    /\ stale = {}
    /\ made = [n \in Serials |-> 0]
    /\ got = {}
    /\ gone = {}
    /\ left = [ops |-> MaxOps, drops |-> MaxDrops, ints |-> MaxInts,
               jmps |-> MaxJmps]
-----------------------------------------------------------------------------
(* The Ftp structure *)

LoggedIn(f) == f.connected /\ f.ctrl /\ f.loggedin      \* ftp_loggedin

Connected(f) == f.connected /\ f.ctrl                   \* ftp_connected

Cached(f, d) == \E e \in f.cache : e.path = d

(* ftp_close: drops the sockets, the URL, the directory cache and what was *)
(* learnt about the server; curdir survives.                               *)
Close(f) == [f EXCEPT !.connected = FALSE, !.ctrl = FALSE, !.loggedin = FALSE,
                      !.full = 0, !.url = FALSE, !.urldir = NoDir,
                      !.type = "?", !.hasPasv = TRUE, !.hasMlsd = TRUE,
                      !.cache = {}, !.marks = {}]

(* Mutant of Flush: the marks are cleared, the listings stay. *)
Flush_KeepCache(f) == [f EXCEPT !.marks = {}]

(* ftp_cache_flush: run when a command ends, not when it is jumped out of. *)
Flush(f) == [f EXCEPT !.cache = {e \in f.cache : e.path \notin f.marks},
                      !.marks = {}]
-----------------------------------------------------------------------------
(* Leaving a blocking point.  f, q and o are the Ftp structure, the unread *)
(* replies and the command's locals as the step leaves them.               *)

(* The server session and both directions of the channel go with the       *)
(* socket.                                                                 *)
Network(f, q, out) ==
    /\ s2c' = IF f.ctrl THEN q ELSE <<>>
    /\ c2s' = IF f.ctrl /\ srv.up THEN out ELSE <<>>
    /\ srv' = IF f.ctrl THEN srv ELSE Down
    /\ UNCHANGED <<dconn, stale, made, gone>>

(* ftp_cmd: send cmd and block until its reply; k is what the caller does  *)
(* with it.  below are the interrupted activations.                        *)
Issue(f, q, o, cmd, k, below) ==
    /\ ftp' = f
    /\ op' = o
    /\ stack' = <<[cmd |-> cmd, recon |-> FALSE, k |-> k]>> \o below
    /\ pc' = "cmd"
    /\ sig' = AbortSig
    /\ Network(f, q, Append(c2s, cmd))

(* The next ftp_cmd of the same activation. *)
Send(f, q, o, cmd, k) ==
    Issue(f, q, o, cmd, k, IF stack = <<>> THEN <<>> ELSE Tail(stack))

(* "goto ugly" in ftp_cmd: the interrupted command is sent again under the *)
(* close handler.  The argument of the CWD that ftp_login sends points     *)
(* into ftp->url, which the reconnect has freed: it may be anything.       *)
Resend(f, q, frames) ==
    \E a \in Paths :
        LET fr == Head(frames)
            again == [fr EXCEPT !.cmd.a = a]
        IN  /\ a # fr.cmd.a => fr.k = "loginCwd"
            /\ ftp' = f
            /\ stack' = <<again>> \o Tail(frames)
            /\ pc' = "cmd"
            /\ sig' = CloseSig
            /\ Network(f, q, Append(c2s, again.cmd))
            /\ UNCHANGED op

(* Back at the prompt, with the handlers of ftp_initsigs. *)
Prompt(f, q) ==
    /\ ftp' = f
    /\ op' = NoOp
    /\ stack' = <<>>
    /\ pc' = "prompt"
    /\ sig' = PromptSig
    /\ Network(f, q, c2s)

(* The command is over: exe_cmd flushes the marked directories. *)
EndCmd(f, q) == Prompt(Flush(f), q)

(* siglongjmp(gvRestartJmp): back to the prompt without the flush. *)
LongJmp(f, q) == Prompt(f, q)

(* Mutant of Block: no alarm while a reply is awaited. *)
Block_NoAlarm(f, q, o, p) ==
    /\ ftp' = f
    /\ op' = o
    /\ pc' = p
    /\ sig' = [CloseSig EXCEPT !.alarm = FALSE]
    /\ Network(f, q, c2s)
    /\ UNCHANGED stack

(* Block at p, under the close handler, for the next reply (with an alarm) *)
(* or for data (with none).                                                *)
Block(f, q, o, p) ==
    /\ ftp' = f
    /\ op' = o
    /\ pc' = p
    /\ sig' = [CloseSig EXCEPT !.alarm = p \notin {"data", "drain"}]
    /\ Network(f, q, c2s)
    /\ UNCHANGED stack
-----------------------------------------------------------------------------
(* ftp_open_url and ftp_login *)

(* ftp_open_url has failed.  yafc_open gives up; ftp_cmd ignores that      *)
(* ftp_reopen failed and resends.                                          *)
OpenFailed(f) ==
    IF stack = <<>> THEN EndCmd(f, <<>>) ELSE Resend(f, <<>>, stack)

(* ftp_login returns.  Only yafc_open looks at the result.                 *)
LoginDone(f, q, ok) ==
    IF Tail(stack) # <<>>
    THEN Resend(f, q, Tail(stack))
    ELSE EndCmd(IF op.name = "open" /\ ~ok THEN Close(f) ELSE f, q)

(* The end of ftp_login's USER/PASS dialogue.  A 530 to a client that      *)
(* believes it is logged in is taken for "already logged in".              *)
LoginAnswer(f, q, r) ==
    \/ /\ Class(r) > 3
       /\ LoginDone([f EXCEPT !.loggedin = r.full = 530 /\ LoggedIn(f)],
                    q, FALSE)
    \/ /\ Class(r) = 2
       /\ Send([f EXCEPT !.loggedin = TRUE], q, op, Verb("PWD"), "homePwd")
    \/ /\ Class(r) < 2
       /\ LoginDone(f, q, FALSE)

AfterUser(f, q, r) ==
    IF Class(r) = 3
    THEN Send([f EXCEPT !.loggedin = FALSE], q, op, Verb("PASS"), "pass")
    ELSE LoginAnswer(f, q, r)

(* ftp_getcurdir: the directory a PWD reply names. *)
CurDirOf(r) == IF Class(r) = 2 /\ r.re = "PWD" THEN r.dir ELSE BadDir

(* The home directory is known; change to the URL's directory, if the URL  *)
(* still exists.                                                           *)
AfterHomePwd(f, q, r) ==
    LET g == [f EXCEPT !.curdir = CurDirOf(r)]
    IN  IF ~g.url
        THEN /\ pc' = "crashed"
             /\ ftp' = g
             /\ Network(g, q, c2s)
             /\ UNCHANGED <<stack, op, sig>>
        ELSE IF g.urldir = NoDir
        THEN LoginDone(g, q, TRUE)
        ELSE Send(g, q, op, Cmd("CWD", g.urldir, 0), "loginCwd")

(* ftp_chdir: take the new directory from the reply if it names one, else  *)
(* ask for it with a PWD, whose continuation is k.                         *)
CwdDone(f, q, k) ==
    IF k = "loginCwdPwd" THEN LoginDone(f, q, TRUE) ELSE EndCmd(f, q)

AfterCwd(f, q, r, k) ==
    \/ Class(r) # 2 /\ CwdDone(f, q, k)
    \/ Class(r) = 2 /\ r.re = "CWD" /\ CwdDone([f EXCEPT !.curdir = r.dir], q, k)
    \/ Class(r) = 2 /\ Send(f, q, op, Verb("PWD"), k)

AfterPwd(f, q, r, k) == CwdDone([f EXCEPT !.curdir = CurDirOf(r)], q, k)
-----------------------------------------------------------------------------
(* ftp_read_directory *)

(* Back to the current directory, whatever happened; that the listing did  *)
(* not fail is all that is needed to cache it.                             *)
ListCached(f, o) ==
    IF o.failed THEN f
    ELSE [f EXCEPT !.cache =
            @ \cup {[path |-> o.dir, of |-> o.of, whole |-> o.whole]}]

(* Mutant of ListBack: stay where the listing was made. *)
ListBack_Stay(f, q, o) == EndCmd(ListCached(f, o), q)

ListBack(f, q, o) ==
    IF o.here
    THEN EndCmd(ListCached(f, o), q)
    ELSE Send(f, q, o, Cmd("CWD", f.curdir, 0), "lsBack")

(* ftp_list starts: ftp_init_transfer asks for a passive port.             *)
CanList(f) == Connected(f) /\ f.hasPasv
ListPasv(f, q, o) == Send(f, q, o, Verb("PASV"), "lsPasv")

(* ftp_list returned -1.  After an error to MLSD, LIST gets its chance.    *)
ListFailed(f, q, o) ==
    LET noMlsd == o.verb = "MLSD" /\ f.full \div 100 = 5
        g == IF noMlsd THEN [f EXCEPT !.hasMlsd = FALSE] ELSE f
    IN  IF noMlsd /\ CanList(g)
        THEN ListPasv(g, q, [o EXCEPT !.verb = "LIST"])
        ELSE ListBack(g, q, [o EXCEPT !.failed = TRUE])

ListStart(f, q, o) ==
    LET p == [o EXCEPT !.verb = IF f.hasMlsd THEN "MLSD" ELSE "LIST"]
    IN  IF CanList(f) THEN ListPasv(f, q, p) ELSE ListFailed(f, q, p)

(* ftp_pasv and the connect() of ftp_init_transfer.                        *)
NoMorePasv(f) == IF Connected(f) /\ f.full \div 100 = 5
                 THEN [f EXCEPT !.hasPasv = FALSE] ELSE f
PasvOk(f, r) == Connected(f) /\ Class(r) = 2 /\ r.re = "PASV"

AfterListPasv(f, q, r) ==
    \/ PasvOk(f, r) /\ srv.data /\ Send(f, q, op, Verb(op.verb), "lsList")
    \/ ListFailed(NoMorePasv(f), q, op)

AfterList(f, q, r) ==
    IF Class(r) = 1
    THEN Block(f, q, op, "data")
    ELSE ListFailed(f, q, op)
-----------------------------------------------------------------------------
(* ftp_getfile: ftp_init_receive, then fopen(), then ftp_do_receive *)

Retrieve(f, q) ==
    IF op.resume
    THEN Send(f, q, op, Verb("REST"), "getRest")
    ELSE Send(f, q, op, Verb("RETR"), "getRetr")

AfterGetPasv(f, q, r) ==
    \/ /\ PasvOk(f, r) /\ srv.data
       /\ IF f.type = "I"
          THEN Retrieve(f, q)
          ELSE Send(f, q, op, Verb("TYPE"), "getType")
    \/ EndCmd(NoMorePasv(f), q)

(* The result of ftp_type is ignored. *)
AfterType(f, q, r) ==
    Retrieve(IF Class(r) = 2 THEN [f EXCEPT !.type = "I"] ELSE f, q)

AfterRest(f, q, r) ==
    IF Class(r) = 3 THEN Send(f, q, op, Verb("RETR"), "getRetr") ELSE EndCmd(f, q)

(* fopen() comes after RETR; when it fails the transfer's final reply is   *)
(* left in the channel.                                                    *)
AfterRetr(f, q, r) ==
    \/ Class(r) = 1 /\ Block(f, q, op, "data")
    \/ Class(r) = 1 /\ LocalFails /\ EndCmd(f, q)
    \/ Class(r) # 1 /\ EndCmd(f, q)
-----------------------------------------------------------------------------
(* What each caller of ftp_cmd does with the reply r (NoReply when there   *)
(* is none, or no connection at all).                                      *)
Continue(f, q, r) ==
    LET k == Head(stack).k
    IN  \/ k = "user" /\ AfterUser(f, q, r)
        \/ k = "pass" /\ LoginAnswer(f, q, r)
        \/ k = "homePwd" /\ AfterHomePwd(f, q, r)
        \/ k = "loginCwd" /\ AfterCwd(f, q, r, "loginCwdPwd")
        \/ k = "cdCwd" /\ AfterCwd(f, q, r, "cdPwd")
        \/ k \in {"loginCwdPwd", "cdPwd"} /\ AfterPwd(f, q, r, k)
        \/ k = "lsCwd" /\ Class(r) = 2 /\ ListStart(f, q, op)
        \/ k = "lsCwd" /\ Class(r) # 2 /\ EndCmd(f, q)
        \/ k = "lsPasv" /\ AfterListPasv(f, q, r)
        \/ k = "lsList" /\ AfterList(f, q, r)
        \/ k = "lsBack" /\ EndCmd(ListCached(f, op), q)
        \/ k = "mkd" /\ EndCmd(IF Class(r) = 2
                               THEN [f EXCEPT !.marks = @ \cup {f.curdir}]
                               ELSE f, q)
        \/ k = "getPasv" /\ AfterGetPasv(f, q, r)
        \/ k = "getType" /\ AfterType(f, q, r)
        \/ k = "getRest" /\ AfterRest(f, q, r)
        \/ k = "getRetr" /\ AfterRetr(f, q, r)
        \/ k = "quit" /\ EndCmd(Close(f), q)

(* A 421 makes ftp_cmd reconnect, once, if the user was logged in.         *)
Reconnects(f, r) ==
    /\ r.full = 421 /\ AutoReconnect /\ LoggedIn(f)
    /\ Head(stack).cmd.v # "QUIT" /\ ~Head(stack).recon

CmdReply ==
    /\ pc = "cmd" /\ ftp.ctrl /\ s2c # <<>>
    /\ LET r == Head(s2c)
           f == [ftp EXCEPT !.full = r.full]
       IN  IF Reconnects(f, r)
           THEN /\ ftp' = f
                /\ stack' = [stack EXCEPT ![1].recon = TRUE]
                /\ pc' = "connect"
                /\ sig' = CloseSig
                /\ Network(f, Tail(s2c), c2s)
                /\ UNCHANGED op
           ELSE Continue(f, Tail(s2c), r)
    /\ UNCHANGED <<got, left>>

(* Mutant of CmdEof: reconnect and resend when the connection is lost. *)
CmdEof_Reconnect ==
    /\ pc = "cmd" /\ ftp.ctrl /\ s2c = <<>> /\ ~srv.up
    /\ pc' = "connect"
    /\ sig' = CloseSig
    /\ UNCHANGED <<ftp, stack, op, c2s, s2c, net, got, left>>

(* ftp_gets meets the end of the stream and calls ftp_close.               *)
CmdEof ==
    /\ pc = "cmd" /\ ftp.ctrl /\ s2c = <<>> /\ ~srv.up
    /\ Continue(Close(ftp), <<>>, NoReply)
    /\ UNCHANGED <<got, left>>

(* No control connection: ftp_cmd fails at once.                           *)
CmdNoCtrl ==
    /\ pc = "cmd" /\ ~ftp.ctrl
    /\ Continue([ftp EXCEPT !.full = 0], <<>>, NoReply)
    /\ UNCHANGED <<got, left>>

(* Mutant of ConnectOk: the transfer type of the old session is kept. *)
ConnectOk_KeepType ==
    /\ pc = "connect"
    /\ srv' = NewSession /\ s2c' = <<Reply(220, "banner", NoDir)>>
    /\ c2s' = <<>>
    /\ ftp' = [ftp EXCEPT !.ctrl = TRUE]
    /\ pc' = "welcome"
    /\ sig' = [sig EXCEPT !.alarm = TRUE]
    /\ UNCHANGED <<stack, op, dconn, stale, made, got, gone, left>>

(* ftp_open_url reaches the server (again, when stack is not empty: the    *)
(* old socket is abandoned, nothing else of ftp is reset), and either a    *)
(* session or a "421 too many users" answers.                              *)
ConnectOk ==
    /\ pc = "connect"
    /\ \/ srv' = NewSession /\ s2c' = <<Reply(220, "banner", NoDir)>>
       \/ srv' = Down /\ s2c' = <<Reply(421, "421", NoDir)>>
    /\ c2s' = <<>>
    /\ ftp' = [ftp EXCEPT !.ctrl = TRUE, !.type = "?"]
    /\ pc' = "welcome"
    /\ sig' = [sig EXCEPT !.alarm = TRUE]
    /\ UNCHANGED <<stack, op, dconn, stale, made, got, gone, left>>

(* Refused, unknown host, or open_timeout expired.                         *)
ConnectFail ==
    /\ pc = "connect"
    /\ OpenFailed(Close(ftp))
    /\ UNCHANGED <<got, left>>

(* Mutants of Welcome: the banner is not read, the URL is not kept, a      *)
(* reconnect does not return to the current directory.                     *)
Greeted == pc = "welcome" /\ ftp.ctrl /\ s2c # <<>> /\ Head(s2c).full = 220
WelcomeWith(url, urldir, q) ==
    /\ Greeted
    /\ Issue([ftp EXCEPT !.full = 220, !.connected = TRUE, !.url = url,
                         !.urldir = urldir], q, op, Verb("USER"), "user", stack)
    /\ UNCHANGED <<got, left>>
Welcome_Unread == WelcomeWith(TRUE, NoDir, s2c)
Welcome_NoUrl == WelcomeWith(FALSE, NoDir, Tail(s2c))
Welcome_Home == WelcomeWith(TRUE, NoDir, Tail(s2c))

Welcome ==
    /\ pc = "welcome" /\ ftp.ctrl
    /\ \/ /\ s2c # <<>> /\ Head(s2c).full = 220
          /\ Issue([ftp EXCEPT !.full = 220, !.connected = TRUE, !.url = TRUE,
                      !.urldir = IF stack = <<>> /\ op.name = "open"
                                 THEN op.dir ELSE ftp.curdir],
                   Tail(s2c), op, Verb("USER"), "user", stack)
       \/ /\ s2c # <<>> /\ Head(s2c).full # 220
          /\ OpenFailed(Close(ftp))
       \/ /\ s2c = <<>> /\ ~srv.up
          /\ OpenFailed(Close(ftp))
    /\ UNCHANGED <<got, left>>
-----------------------------------------------------------------------------
(* The data connection *)

Success ==
    got' = IF op.failed THEN got
           ELSE {[type |-> dconn.type, rest |-> dconn.rest,
                  resume |-> op.resume, whole |-> op.whole]}

(* Mutant of TransferEnd: whatever the reply says, all went well. *)
TransferEnd_AnyCode(f, q, r) ==
    \/ op.name = "ls" /\ ListBack(f, q, op) /\ UNCHANGED got
    \/ op.name = "get" /\ EndCmd(f, q) /\ Success

(* The reply that ends a transfer, or the end of the control stream.       *)
TransferEnd(f, q, r) ==
    \/ /\ op.name = "ls"
       /\ IF Class(r) = 2 THEN ListBack(f, q, op) ELSE ListFailed(f, q, op)
       /\ UNCHANGED got
    \/ /\ op.name = "get"
       /\ EndCmd(f, q)
       /\ IF Class(r) = 2 THEN Success ELSE UNCHANGED got

FinalReply ==
    /\ pc = "final" /\ s2c # <<>>
    /\ TransferEnd([ftp EXCEPT !.full = Head(s2c).full], Tail(s2c), Head(s2c))
    /\ UNCHANGED left

FinalEof ==
    /\ pc = "final" /\ s2c = <<>> /\ ~srv.up
    /\ TransferEnd(Close(ftp), <<>>, NoReply)
    /\ UNCHANGED left

(* All the server sent has been received. *)
RecvEnd ==
    /\ pc = "data" /\ dconn.eof
    /\ Block(ftp, s2c, [op EXCEPT !.whole = dconn.whole, !.of = dconn.of], "final")
    /\ UNCHANGED <<got, left>>

(* FILE_recv_binary sees a SIGINT after a read(): it leaves the loop, and  *)
(* the handler it installs again forgets that there was one.               *)
RecvBreak ==
    /\ pc = "data" /\ sig.n > 0 /\ op.name = "get"
    /\ Block(ftp, s2c, [op EXCEPT !.whole = FALSE], "final")
    /\ UNCHANGED <<got, left>>

(* ftp_abort finds something to read on the data connection and sends no   *)
(* ABOR.  A get has noted that it was interrupted, ftp_list has not.       *)
AbortPending ==
    /\ pc = "data" /\ sig.n > 0
    /\ Block(ftp, s2c, [op EXCEPT !.whole = FALSE, !.of = dconn.of,
                                  !.failed = op.name = "get"], "drain")
    /\ UNCHANGED <<got, left>>

SendAbor ==
    /\ pc = "data" /\ sig.n > 0 /\ ~dconn.eof
    /\ ftp' = ftp
    /\ op' = [op EXCEPT !.abor = TRUE]
    /\ pc' = "drain"
    /\ sig' = [CloseSig EXCEPT !.alarm = FALSE]
    /\ Network(ftp, s2c, Append(c2s, Verb("ABOR")))
    /\ UNCHANGED <<stack, got, left>>

Drained ==
    /\ pc = "drain" /\ dconn.eof
    /\ Block(ftp, s2c, op, IF op.abor THEN "abort1" ELSE "final")
    /\ UNCHANGED <<got, left>>

(* ftp_abort waits for two replies, whatever the first one says.           *)
AbortDone(f, q) == IF op.name = "ls" THEN ListFailed(f, q, op) ELSE EndCmd(f, q)

(* Mutant of AbortReply: one reply is read. *)
AbortReply_One ==
    /\ pc \in {"abort1", "abort2"} /\ s2c # <<>>
    /\ AbortDone([ftp EXCEPT !.full = Head(s2c).full], Tail(s2c))
    /\ UNCHANGED <<got, left>>

AbortReply ==
    /\ pc \in {"abort1", "abort2"} /\ s2c # <<>>
    /\ LET f == [ftp EXCEPT !.full = Head(s2c).full]
       IN  IF pc = "abort1" THEN Block(f, Tail(s2c), op, "abort2")
           ELSE AbortDone(f, Tail(s2c))
    /\ UNCHANGED <<got, left>>

AbortEof ==
    /\ pc \in {"abort1", "abort2"} /\ s2c = <<>> /\ ~srv.up
    /\ AbortDone(Close(ftp), <<>>)
    /\ UNCHANGED <<got, left>>
-----------------------------------------------------------------------------
(* Commands typed at the prompt *)

Type ==
    /\ pc = "prompt" /\ left.ops > 0
    /\ left' = [left EXCEPT !.ops = @ - 1]
    /\ UNCHANGED got

(* Enter connect(): ftp_open_url, under the handler of the prompt.         *)
Dial(f, o) ==
    /\ ftp' = f
    /\ op' = o
    /\ stack' = <<>>
    /\ pc' = "connect"
    /\ sig' = PromptSig
    /\ Network(f, s2c, c2s)

(* yafc_open, one attempt, when this Ftp structure is not connected.       *)
UserOpen(d) ==
    /\ Type /\ ~Connected(ftp)
    /\ Dial(Close(ftp), [NoOp EXCEPT !.name = "open", !.dir = d])

UserReopen == Type /\ LoggedIn(ftp) /\ Dial(ftp, [NoOp EXCEPT !.name = "reopen"])

UserUser ==
    /\ Type /\ Connected(ftp)
    /\ Send(ftp, s2c, [NoOp EXCEPT !.name = "user"], Verb("USER"), "user")

UserCd(d) ==
    /\ Type /\ LoggedIn(ftp)
    /\ Send(ftp, s2c, [NoOp EXCEPT !.name = "cd"], Cmd("CWD", d, 0), "cdCwd")

(* ls d/: ftp_get_directory, then ftp_read_directory if d is not cached.   *)
UserLs(d) ==
    /\ Type /\ LoggedIn(ftp)
    /\ LET o == [NoOp EXCEPT !.name = "ls", !.dir = d, !.here = d = ftp.curdir]
       IN  IF Cached(ftp, d) THEN EndCmd(ftp, s2c)
           ELSE IF o.here THEN ListStart(ftp, s2c, o)
           ELSE Send(ftp, s2c, o, Cmd("CWD", d, 0), "lsCwd")

UserMkdir ==
    /\ Type /\ LoggedIn(ftp)
    /\ Send(ftp, s2c, [NoOp EXCEPT !.name = "mkdir", !.dir = ftp.curdir],
            Cmd("MKD", ftp.curdir, MaxOps - left.ops + 1), "mkd")

(* ftp_getfile (cat, get of a tagged file); a get with a glob reads the    *)
(* directory first, which is a UserLs before it.                           *)
UserGet(resume) ==
    /\ Type /\ LoggedIn(ftp)
    /\ LET o == [NoOp EXCEPT !.name = "get", !.resume = resume]
       IN  IF CanList(ftp) THEN Send(ftp, s2c, o, Verb("PASV"), "getPasv")
           ELSE EndCmd(ftp, s2c)

(* cmd_close: ftp_quit. *)
UserClose ==
    /\ Type
    /\ IF Connected(ftp)
       THEN Send(ftp, s2c, [NoOp EXCEPT !.name = "close"], Verb("QUIT"), "quit")
       ELSE EndCmd(Close(ftp), s2c)

UserStep ==
    \/ \E d \in Dirs \cup {NoDir} : UserOpen(d)
    \/ UserReopen \/ UserUser \/ UserMkdir \/ UserClose
    \/ \E d \in Dirs : UserCd(d) \/ UserLs(d)
    \/ \E resume \in BOOLEAN : UserGet(resume)
-----------------------------------------------------------------------------
(* Signals *)

Interrupted == left.ints > 0 /\ left' = [left EXCEPT !.ints = @ - 1]

Waiting == pc \in {"cmd", "welcome", "final", "abort1", "abort2"} /\ ftp.ctrl

(* sigint_jmp_handler while connecting; the socket may not have been made  *)
(* yet.                                                                    *)
IntJmp ==
    /\ sig.h = "jmp" /\ pc \in {"connect", "welcome"}
    /\ left.jmps > 0 /\ left' = [left EXCEPT !.jmps = @ - 1]
    /\ \/ pc = "connect" /\ LongJmp([ftp EXCEPT !.ctrl = FALSE], <<>>)
       \/ LongJmp(ftp, s2c)
    /\ UNCHANGED got

(* sigint_abort_handler.  ftp_flush_reply reads what select() reports: of  *)
(* the replies that have arrived some may be left in the stdio buffer.     *)
IntAbort ==
    /\ Interrupted /\ sig.h = "abort" /\ pc = "cmd" /\ ftp.ctrl
    /\ IF sig.n < 2
       THEN /\ sig' = [sig EXCEPT !.n = @ + 1]
            /\ UNCHANGED <<ftp, stack, pc, op, c2s, s2c, net>>
       ELSE \/ \E n \in 0..Len(s2c) : LongJmp(ftp, SubSeq(s2c, n + 1, Len(s2c)))
            \/ ~srv.up /\ LongJmp(Close(ftp), <<>>)
    /\ UNCHANGED got

(* Mutant of IntClose: one interrupt too many. *)
IntClose_OneMore ==
    /\ Interrupted /\ sig.h = "close" /\ pc \notin {"prompt", "crashed"}
    /\ pc = "cmd" => ftp.ctrl
    /\ IF sig.n < 4
       THEN /\ sig' = [sig EXCEPT !.n = @ + 1, !.alarm = FALSE]
            /\ UNCHANGED <<ftp, stack, pc, op, c2s, s2c, net>>
       ELSE LongJmp(Close(ftp), <<>>)
    /\ UNCHANGED got

(* sigint_close_handler.  Any interrupt but the last cancels the alarm.    *)
IntClose ==
    /\ Interrupted /\ sig.h = "close" /\ pc \notin {"prompt", "crashed"}
    /\ pc = "cmd" => ftp.ctrl
    /\ IF sig.n < 3
       THEN /\ sig' = [sig EXCEPT !.n = @ + 1, !.alarm = FALSE]
            /\ UNCHANGED <<ftp, stack, pc, op, c2s, s2c, net>>
       ELSE LongJmp(Close(ftp), <<>>)
    /\ UNCHANGED got

(* reply_ALRM_handler. *)
Timeout ==
    /\ Waiting /\ sig.alarm
    /\ LongJmp(Close(ftp), <<>>)
    /\ UNCHANGED <<got, left>>
-----------------------------------------------------------------------------
(* The server: what the client relies on.  It reads commands in order, one *)
(* at a time, and while it transfers a file it reads only ABOR.            *)

client == <<ftp, stack, pc, op, sig, got>>

Next1 == Head(c2s)

Executes(v) ==
    /\ srv.up /\ c2s # <<>> /\ Next1.v = v
    /\ srv.xfer => v = "ABOR"
    /\ c2s' = Tail(c2s)
    /\ UNCHANGED <<client, gone, left>>

Answer(full, dir) == s2c' = Append(s2c, Reply(full, Next1.v, dir))

(* Reply, with session s from here on. *)
Say(full, s) ==
    /\ Answer(full, NoDir)
    /\ srv' = [s EXCEPT !.rest = s.rest /\ Next1.v = "REST"]
    /\ UNCHANGED <<dconn, stale, made>>

SrvUser ==
    /\ Executes("USER")
    /\ \/ Say(331, [srv EXCEPT !.auth = FALSE])
       \/ Say(530, srv)

SrvPass ==
    /\ Executes("PASS")
    /\ \/ Say(230, [srv EXCEPT !.auth = TRUE, !.cwd = Home])
       \/ Say(530, srv)

SrvDenies ==
    /\ \E v \in Verbs \ {"USER", "PASS", "ABOR", "QUIT"} : Executes(v)
    /\ ~srv.auth
    /\ Say(530, srv)

Serves(v) == Executes(v) /\ srv.auth

SrvPwd ==
    /\ Serves("PWD")
    /\ Answer(257, srv.cwd)
    /\ srv' = [srv EXCEPT !.rest = FALSE]
    /\ UNCHANGED <<dconn, stale, made>>

SrvCwd ==
    /\ Serves("CWD")
    /\ IF Next1.a \in Dirs \ gone
       THEN /\ Answer(250, Next1.a)
            /\ srv' = [srv EXCEPT !.cwd = Next1.a, !.rest = FALSE]
            /\ UNCHANGED <<dconn, stale, made>>
       ELSE Say(550, srv)

SrvMkd ==
    /\ Serves("MKD")
    /\ IF srv.cwd \notin gone
       THEN /\ Answer(257, BadDir)
            /\ srv' = [srv EXCEPT !.rest = FALSE]
            /\ made' = [made EXCEPT ![Next1.n] = IF @ < 2 THEN @ + 1 ELSE @]
            /\ stale' = stale \cup {srv.cwd}
            /\ UNCHANGED dconn
       ELSE Say(550, srv)

SrvPasv == Serves("PASV") /\ Say(227, [srv EXCEPT !.data = TRUE])

SrvType == Serves("TYPE") /\ Say(200, [srv EXCEPT !.type = "I"])

SrvRest == Serves("REST") /\ Say(350, [srv EXCEPT !.rest = TRUE])

(* Open the data connection and start sending. *)
Transfer(kind) ==
    /\ Answer(150, NoDir)
    /\ srv' = [srv EXCEPT !.data = FALSE, !.xfer = TRUE, !.rest = FALSE]
    /\ dconn' = [kind |-> kind, of |-> srv.cwd, type |-> srv.type,
                 rest |-> srv.rest, eof |-> FALSE, whole |-> FALSE]
    /\ stale' = IF kind = "list" THEN stale \ {srv.cwd} ELSE stale
    /\ UNCHANGED made

SrvList ==
    /\ Serves("MLSD") \/ Serves("LIST")
    /\ IF Next1.v = "MLSD" /\ ~ServerMlsd THEN Say(500, srv)
       ELSE IF ~srv.data THEN Say(425, srv)
       ELSE IF srv.cwd \in gone THEN Say(550, srv)
       ELSE Transfer("list")

SrvRetr ==
    /\ Serves("RETR")
    /\ \/ srv.data /\ Transfer("retr")
       \/ srv.data /\ Say(550, srv)
       \/ ~srv.data /\ Say(425, srv)

SrvQuit == Executes("QUIT") /\ Say(221, Down)

SrvAbor ==
    /\ Executes("ABOR")
    /\ s2c' = s2c \o (IF srv.xfer THEN <<Reply(426, dconn.kind, NoDir)>> ELSE <<>>)
                  \o <<Reply(226, "ABOR", NoDir)>>
    /\ srv' = [srv EXCEPT !.xfer = FALSE, !.data = FALSE]
    /\ dconn' = [dconn EXCEPT !.eof = TRUE]
    /\ UNCHANGED <<stale, made>>

(* A transfer ends by itself, well or badly: the data connection first ... *)
XferEof ==
    /\ srv.up /\ srv.xfer /\ ~dconn.eof
    /\ \E ok \in BOOLEAN : dconn' = [dconn EXCEPT !.eof = TRUE, !.whole = ok]
    /\ UNCHANGED <<client, c2s, s2c, srv, stale, made, gone, left>>

(* ... then the reply. *)
XferReply ==
    /\ srv.up /\ srv.xfer /\ dconn.eof
    /\ s2c' = Append(s2c, Reply(IF dconn.whole THEN 226 ELSE 451, dconn.kind, NoDir))
    /\ srv' = [srv EXCEPT !.xfer = FALSE]
    /\ UNCHANGED <<client, c2s, dconn, stale, made, gone, left>>

(* The server ends the session: with a 421, or without a word, when        *)
(* replies in flight may be lost with the connection.                      *)
SrvDrop ==
    /\ srv.up /\ left.drops > 0
    /\ left' = [left EXCEPT !.drops = @ - 1]
    /\ srv' = Down
    /\ c2s' = <<>>
    /\ dconn' = [dconn EXCEPT !.eof = TRUE]
    /\ \/ s2c' = Append(s2c, Reply(421, "421", NoDir))
       \/ \E n \in 0..Len(s2c) : s2c' = SubSeq(s2c, 1, n)
    /\ UNCHANGED <<client, stale, made, gone>>

(* Another client removes a directory. *)
RemoveDir(d) ==
    /\ d \notin gone /\ d # Home /\ Cardinality(gone) < MaxGone
    /\ gone' = gone \cup {d}
    /\ UNCHANGED <<client, c2s, s2c, srv, dconn, stale, made, left>>

ServerStep ==
    \/ SrvUser \/ SrvPass \/ SrvDenies \/ SrvPwd \/ SrvCwd \/ SrvMkd
    \/ SrvPasv \/ SrvType \/ SrvRest \/ SrvList \/ SrvRetr \/ SrvQuit
    \/ SrvAbor \/ XferEof \/ XferReply
-----------------------------------------------------------------------------
(* The specification *)

(* The client goes on by itself once what it waits for is there.           *)
ClientStep ==
    \/ CmdReply \/ CmdEof \/ CmdNoCtrl
    \/ ConnectOk \/ ConnectFail \/ Welcome
    \/ RecvEnd \/ RecvBreak \/ AbortPending \/ SendAbor \/ Drained
    \/ FinalReply \/ FinalEof \/ AbortReply \/ AbortEof

(* Nothing more is typed, or the process is gone. *)
Quiet == (pc = "crashed" \/ (pc = "prompt" /\ left.ops = 0)) /\ UNCHANGED vars

Next ==
    \/ UserStep \/ ClientStep \/ ServerStep
    \/ IntJmp \/ IntAbort \/ IntClose \/ Timeout
    \/ SrvDrop \/ \E d \in Dirs : RemoveDir(d)
    \/ Quiet

Spec == Init /\ [][Next]_vars

(* The kernel runs the process and delivers its alarms.  Nothing is        *)
(* assumed of the server or of the user.                                   *)
FairSpec == Spec /\ WF_vars(ClientStep) /\ WF_vars(Timeout)
-----------------------------------------------------------------------------
(* Properties *)

TypeOK ==
    /\ ftp \in FtpSet
    /\ stack \in Seq(FrameSet)
    /\ pc \in Points
    /\ op \in OpSet
    /\ sig \in SigSet
    /\ c2s \in Seq(CmdSet)
    /\ s2c \in Seq(ReplySet)
    /\ srv \in SrvSet
    /\ dconn \in DconnSet
    /\ stale \subseteq Dirs
    /\ made \in [Serials -> 0..2]
    /\ got \subseteq GotSet
    /\ gone \subseteq Dirs
    /\ left \in LeftSet

(* ftp_cmd "returns reply status code" of its command: whenever the client *)
(* waits in ftp_cmd, the next reply it will read answers the command it    *)
(* sent, or is the server's farewell.                                      *)
ReplyMatches ==
    pc = "cmd" /\ ftp.ctrl /\ s2c # <<>> =>
        Head(s2c).re \in {Head(stack).cmd.v, "421"}

(* Between commands the channel is idle: no reply of an earlier command is *)
(* left for the next one to read, no command is still to be executed, and  *)
(* no transfer goes on.                                                    *)
PromptInSync ==
    pc = "prompt" /\ Connected(ftp) =>
        /\ c2s = <<>> /\ ~srv.xfer
        /\ s2c = <<>> \/ (Len(s2c) = 1 /\ Head(s2c).full = 421)

(* At the prompt, the directory yafc shows and resolves names against is   *)
(* the server's working directory, unless it has none or it was removed.   *)
PromptCwd ==
    pc = "prompt" /\ LoggedIn(ftp) /\ srv.up /\ srv.auth =>
        ftp.curdir \in {srv.cwd, BadDir} \cup gone

(* At the prompt, who is shown as logged in is logged in.                  *)
LoggedinAuth ==
    pc = "prompt" /\ LoggedIn(ftp) /\ srv.up => srv.auth

(* ftp_read_directory caches under a path the listing of that path.        *)
ListingLabel == \A e \in ftp.cache : e.of = e.path

(* At the prompt no cached listing is older than a change this connection  *)
(* made to its directory: ftp_mkdir marks it, the end of the command       *)
(* flushes it.  (Two causes are set apart.  A listing may be another       *)
(* directory's, see ListingLabel.  And when others remove the current      *)
(* directory, the failed CWD back to it is ignored, and mkdir no longer    *)
(* knows where it works.)                                                  *)
OwnChangesSeen ==
    pc = "prompt" /\ Connected(ftp) /\ gone = {} =>
        \A e \in ftp.cache : e.of = e.path => e.path \notin stale

(* However often ftp_cmd resends a MKD, the server executes it once.       *)
MkdirOnce == \A n \in Serials : made[n] <= 1

(* RequestReply for mkdir: however often ftp_cmd resends the MKD, and       *)
(* wherever a reconnect may have put the server, the directory is made at  *)
(* most once, where it was asked for, and the user sees ftp_mkdir_verb     *)
(* succeed (its code is ctComplete) only if it was made.                   *)
Mkdir == INSTANCE RequestReply WITH
    Requests <- Serials, Places <- Paths, Idle <- NoDir,
    asked <- IF op.name = "mkdir" THEN [n |-> MaxOps - left.ops, place |-> op.dir]
             ELSE NoDir,
    done <- made, here <- srv.cwd, lost <- gone, shown <- ftp.full \div 100 = 2
MkdirServed == Mkdir!Spec

(* A binary get receives a RETR, in image type and from the offset it      *)
(* asked for, even when a reconnect has put the server back to ASCII.      *)
TransferIntact ==
    pc = "data" /\ op.name = "get" =>
        dconn.kind = "retr" /\ dconn.type = "I" /\ dconn.rest = op.resume

(* What counts as received was received whole: a listing that is cached,   *)
(* and the file of a get that reports success.                             *)
ReceivedWhole ==
    /\ \A e \in ftp.cache : e.whole
    /\ \A g \in got : g.whole /\ g.type = "I" /\ g.rest = g.resume

(* ftp_print_cmd and the login read ftp->url: it is there whenever a       *)
(* command is sent over a connection.                                      *)
UrlWhenSending == pc = "cmd" /\ ftp.ctrl => ftp.url

(* ftp_login survives the loss of its connection. *)
NoCrash == pc # "crashed"

(* "no use try it again": passive mode is given up for the connection only *)
(* if the server does not have it, and this server always does.            *)
PasvNotForgotten == Connected(ftp) => ftp.hasPasv

(* command_timeout: a command does not go on for ever without a response   *)
(* (transfers excepted).                                                   *)
CommandEnds ==
    op.name # "none" ~> pc \in {"prompt", "crashed", "data", "drain"}
=============================================================================
