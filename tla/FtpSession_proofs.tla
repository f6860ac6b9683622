-------------------------- MODULE FtpSession_proofs --------------------------
(***************************************************************************)
(* What a session keeps whatever the server, the user and the signals do,  *)
(* for any set of directories and any bounds; and what its client and the  *)
(* server agree on about the channel between them: which command a reply   *)
(* answers, and when nothing is under way.                                 *)
(***************************************************************************)
EXTENDS FtpSession, SequenceTheorems, TLAPS

-----------------------------------------------------------------------------
(* The inductive invariant.                                                *)

\* Which verbs a continuation of ftp_cmd belongs to, as far as it matters.
Fits(v, k) == v = "MKD" <=> k = "mkd"

Fitting == {fr \in FrameSet : Fits(fr.cmd.v, fr.k)}

\* A connection that was greeted has its URL, and nothing else has one.
FtpOK(f) == f \in FtpSet /\ f.url = f.connected

\* A socket is used by nothing but what was greeted on it ...
Live(f) == f.ctrl => f.connected
\* ... save where it is opened, or where opening it was interrupted.
Opening == {"connect", "welcome", "prompt", "crashed"}

TypeInv ==
  /\ TypeOK /\ FtpOK(ftp)
  /\ stack \in Seq(Fitting)
  /\ pc = "cmd" => stack # <<>>
  /\ pc = "prompt" => stack = <<>>
  /\ pc \notin Opening => Live(ftp)

\* Where a step of a command, or its end, may lead: f and q are what it
\* leaves of the Ftp structure and of the replies.
Good(f) == FtpOK(f) /\ Live(f)
Frames == Continuations \ {"mkd"}
Leave(f, q) ==
  \/ Prompt(f, q)
  \/ \E o \in OpSet, cmd \in CmdSet, k \in Frames :
        cmd.v # "MKD" /\ Send(f, q, o, cmd, k)
  \/ Tail(stack) # <<>> /\ Resend(f, q, Tail(stack))
  \/ /\ Head(stack).k # "mkd"
     /\ pc' = "crashed" /\ ftp' = f /\ Network(f, q, c2s)
     /\ UNCHANGED <<stack, op, sig>>
  \/ Head(stack).k # "mkd" /\ \E o \in OpSet : Block(f, q, o, "data")

\* Every mkdir typed has a serial number; the last one's is Now.
Now == MaxOps - left.ops
NoMkd == \A i \in DOMAIN c2s : c2s[i].v # "MKD"

\* An MKD in flight is the only one of its number, and was not executed.
SentOnce ==
  \A i \in DOMAIN c2s : c2s[i].v = "MKD" =>
    /\ c2s[i].n \in 1..Now /\ made[c2s[i].n] = 0
    /\ \A j \in DOMAIN c2s : c2s[j].v = "MKD" /\ c2s[j].n = c2s[i].n => i = j

MadeOnce == \A n \in Serials : made[n] <= 1 /\ (n > Now => made[n] = 0)

\* A 421 is the last word of a session.
Farewell == \A i \in DOMAIN s2c : s2c[i].full = 421 => ~srv.up

\* Only the last activation of ftp_cmd can be that of an MKD.
MkdLast ==
  \A i \in DOMAIN stack : stack[i].k = "mkd" =>
    i = Len(stack) /\ stack[i].cmd.n = Now /\ Now >= 1

\* While ftp_cmd waits for the reply to the MKD, that the MKD was executed
\* shows: the next thing to read is not a 421.  While it reconnects, the MKD
\* was not executed and no server has it to execute.
Unanswered ==
  made[Now] = 0 \/ (s2c # <<>> /\ Head(s2c).full # 421) \/ (s2c = <<>> /\ ~srv.up)
Unexecuted == made[Now] = 0 /\ NoMkd
Pending ==
  \A i \in DOMAIN stack : stack[i].k = "mkd" =>
    IF pc = "cmd" /\ i = 1 THEN Unanswered ELSE Unexecuted

OnceInv == SentOnce /\ MadeOnce /\ Farewell /\ MkdLast /\ Pending

-----------------------------------------------------------------------------
(* The Ftp structure, commands and replies.                                *)

LEMMA PathsTyped == Home \in Dirs /\ Dirs \subseteq Paths /\ BadDir \in Paths /\ NoDir \in Paths
  BY SessionAssumption DEF Paths

LEMMA VerbTyped ==
  /\ \A v \in Verbs : Verb(v) \in CmdSet /\ Verb(v).v = v
  /\ \A v \in Verbs, a \in Paths : Cmd(v, a, 0) \in CmdSet /\ Cmd(v, a, 0).v = v
  BY SessionAssumption, PathsTyped DEF Verb, Cmd, CmdSet

LEMMA FieldForms ==
  ASSUME NEW f, Good(f)
  PROVE  /\ \A b \in BOOLEAN : Good([f EXCEPT !.loggedin = b])
         /\ \A p \in Paths : Good([f EXCEPT !.curdir = p])
         /\ \A c \in Codes : Good([f EXCEPT !.full = c])
         /\ Good([f EXCEPT !.type = "I"])
         /\ Good([f EXCEPT !.hasPasv = FALSE])
         /\ Good([f EXCEPT !.hasMlsd = FALSE])
         /\ \A e \in EntrySet : Good([f EXCEPT !.cache = @ \cup {e}])
         /\ Good([f EXCEPT !.marks = @ \cup {f.curdir}])
         /\ Good(Flush(f))
  <1> f \in FtpSet /\ f.url = f.connected /\ (f.ctrl => f.connected)
    BY DEF Good, FtpOK, Live
  <1>1. \A b \in BOOLEAN : Good([f EXCEPT !.loggedin = b])
    BY DEF Good, FtpOK, Live, FtpSet
  <1>2. \A p \in Paths : Good([f EXCEPT !.curdir = p])
    BY DEF Good, FtpOK, Live, FtpSet
  <1>3. \A c \in Codes : Good([f EXCEPT !.full = c])
    BY DEF Good, FtpOK, Live, FtpSet
  <1>4. Good([f EXCEPT !.type = "I"])
    BY DEF Good, FtpOK, Live, FtpSet
  <1>5. Good([f EXCEPT !.hasPasv = FALSE]) /\ Good([f EXCEPT !.hasMlsd = FALSE])
    BY DEF Good, FtpOK, Live, FtpSet
  <1>6. \A e \in EntrySet : Good([f EXCEPT !.cache = @ \cup {e}])
    BY DEF Good, FtpOK, Live, FtpSet
  <1>7. Good([f EXCEPT !.marks = @ \cup {f.curdir}])
    BY DEF Good, FtpOK, Live, FtpSet
  <1>8. Good(Flush(f))
    BY DEF Good, FtpOK, Live, FtpSet, Flush
  <1> QED
    BY <1>1, <1>2, <1>3, <1>4, <1>5, <1>6, <1>7, <1>8

LEMMA CloseForm ==
  ASSUME NEW f, FtpOK(f)
  PROVE  Good(Close(f)) /\ ~Close(f).ctrl /\ Close(f).full = 0
  <1> DEFINE a == [f EXCEPT !.connected = FALSE, !.ctrl = FALSE, !.loggedin = FALSE]
             b == [a EXCEPT !.full = 0]
             c == [b EXCEPT !.url = FALSE]
             d == [c EXCEPT !.urldir = NoDir]
             e == [d EXCEPT !.type = "?"]
             g == [e EXCEPT !.hasPasv = TRUE, !.hasMlsd = TRUE]
             h == [g EXCEPT !.cache = {}, !.marks = {}]
  <1>1. a \in FtpSet /\ a.connected = FALSE /\ a.ctrl = FALSE
    BY DEF FtpOK, FtpSet
  <1>2. Close(f) = h
    BY Zenon DEF Close
  <1> HIDE DEF a
  <1>3. b \in FtpSet /\ b.connected = FALSE /\ b.ctrl = FALSE /\ b.full = 0
    BY <1>1 DEF FtpSet, Codes
  <1> HIDE DEF b
  <1>4. c \in FtpSet /\ c.connected = FALSE /\ c.ctrl = FALSE /\ c.url = FALSE /\ c.full = 0
    BY <1>3 DEF FtpSet
  <1> HIDE DEF c
  <1>5. d \in FtpSet /\ d.connected = FALSE /\ d.ctrl = FALSE /\ d.url = FALSE /\ d.full = 0
    BY <1>4, PathsTyped DEF FtpSet
  <1> HIDE DEF d
  <1>6. e \in FtpSet /\ e.connected = FALSE /\ e.ctrl = FALSE /\ e.url = FALSE /\ e.full = 0
    BY <1>5 DEF FtpSet
  <1> HIDE DEF e
  <1>7. g \in FtpSet /\ g.connected = FALSE /\ g.ctrl = FALSE /\ g.url = FALSE /\ g.full = 0
    BY <1>6 DEF FtpSet
  <1> HIDE DEF g
  <1>8. h \in FtpSet /\ h.connected = FALSE /\ h.ctrl = FALSE /\ h.url = FALSE /\ h.full = 0
    BY <1>7 DEF FtpSet
  <1> HIDE DEF h
  <1> QED
    BY <1>2, <1>8 DEF FtpOK, Live, Good

LEMMA OpForms ==
  ASSUME NEW o \in OpSet
  PROVE  /\ NoOp \in OpSet
         /\ \A v \in {"MLSD", "LIST"} : [o EXCEPT !.verb = v] \in OpSet
         /\ [o EXCEPT !.failed = TRUE] \in OpSet
         /\ [o EXCEPT !.abor = TRUE] \in OpSet
         /\ \A b \in BOOLEAN : [o EXCEPT !.whole = b] \in OpSet
         /\ \A b \in BOOLEAN, p \in Paths : [o EXCEPT !.whole = b, !.of = p] \in OpSet
         /\ \A b \in BOOLEAN, p \in Paths :
              [o EXCEPT !.whole = FALSE, !.of = p, !.failed = b] \in OpSet
         /\ \A p \in Paths, b \in BOOLEAN : 
              /\ [NoOp EXCEPT !.name = "open", !.dir = p] \in OpSet
              /\ [NoOp EXCEPT !.name = "ls", !.dir = p, !.here = b] \in OpSet
              /\ [NoOp EXCEPT !.name = "mkdir", !.dir = p] \in OpSet
         /\ \A b \in BOOLEAN : [NoOp EXCEPT !.name = "get", !.resume = b] \in OpSet
         /\ \A s \in {"reopen", "user", "cd", "close"} : [NoOp EXCEPT !.name = s] \in OpSet
  <1>1. NoOp \in OpSet
    BY PathsTyped DEF NoOp, OpSet
  <1>2. /\ \A v \in {"MLSD", "LIST"} : [o EXCEPT !.verb = v] \in OpSet
        /\ [o EXCEPT !.failed = TRUE] \in OpSet
        /\ [o EXCEPT !.abor = TRUE] \in OpSet
        /\ \A b \in BOOLEAN : [o EXCEPT !.whole = b] \in OpSet
    BY DEF OpSet
  <1>3. \A b \in BOOLEAN, p \in Paths : [o EXCEPT !.whole = b, !.of = p] \in OpSet
    BY DEF OpSet
  <1>4. \A b \in BOOLEAN, p \in Paths :
          [o EXCEPT !.whole = FALSE, !.of = p, !.failed = b] \in OpSet
    BY DEF OpSet
  <1>5. \A p \in Paths : /\ [NoOp EXCEPT !.name = "open", !.dir = p] \in OpSet
                         /\ [NoOp EXCEPT !.name = "mkdir", !.dir = p] \in OpSet
    BY <1>1 DEF OpSet
  <1>6. \A p \in Paths, b \in BOOLEAN :
          [NoOp EXCEPT !.name = "ls", !.dir = p, !.here = b] \in OpSet
    BY <1>1 DEF OpSet
  <1>7. \A b \in BOOLEAN : [NoOp EXCEPT !.name = "get", !.resume = b] \in OpSet
    BY <1>1 DEF OpSet
  <1>8. \A s \in {"reopen", "user", "cd", "close"} : [NoOp EXCEPT !.name = s] \in OpSet
    BY <1>1 DEF OpSet
  <1> QED
    BY <1>1, <1>2, <1>3, <1>4, <1>5, <1>6, <1>7, <1>8

-----------------------------------------------------------------------------
(* Where the continuations of ftp_cmd lead.                                *)

LEMMA EndForm ==
  ASSUME NEW f, Good(f), NEW q, EndCmd(f, q)
  PROVE  \E g : Good(g) /\ Leave(g, q)
  BY FieldForms DEF EndCmd, Leave

LEMMA SendForm ==
  ASSUME NEW f, Good(f), NEW q, NEW o \in OpSet, NEW cmd \in CmdSet, cmd.v # "MKD",
         NEW k \in Frames, Send(f, q, o, cmd, k)
  PROVE  \E g : Good(g) /\ Leave(g, q)
  BY Zenon DEF Leave

LEMMA CachedForm ==
  ASSUME NEW f, Good(f), NEW o \in OpSet
  PROVE  Good(ListCached(f, o))
  <1> [path |-> o.dir, of |-> o.of, whole |-> o.whole] \in EntrySet
    BY DEF OpSet, EntrySet
  <1> QED
    BY FieldForms DEF ListCached

LEMMA ListBackForm ==
  ASSUME NEW f, Good(f), NEW q, NEW o \in OpSet, ListBack(f, q, o)
  PROVE  \E g : Good(g) /\ Leave(g, q)
  <1>1. CASE o.here
    BY <1>1, CachedForm, EndForm, Zenon DEF ListBack
  <1>2. CASE ~o.here
    <2> f.curdir \in Paths
      BY DEF Good, FtpOK, FtpSet
    <2> "CWD" \in Verbs /\ "lsBack" \in Frames
      BY DEF Verbs, Frames, Continuations
    <2> Cmd("CWD", f.curdir, 0) \in CmdSet /\ Cmd("CWD", f.curdir, 0).v # "MKD"
      BY VerbTyped
    <2> Send(f, q, o, Cmd("CWD", f.curdir, 0), "lsBack")
      BY <1>2, Zenon DEF ListBack
    <2> QED
      BY SendForm
  <1> QED
    BY <1>1, <1>2

LEMMA PasvForm ==
  ASSUME NEW f, Good(f), NEW q, NEW o \in OpSet, ListPasv(f, q, o)
  PROVE  \E g : Good(g) /\ Leave(g, q)
  <1> "PASV" \in Verbs /\ "lsPasv" \in Frames
    BY DEF Verbs, Frames, Continuations
  <1> Verb("PASV") \in CmdSet /\ Verb("PASV").v # "MKD"
    BY VerbTyped
  <1> QED
    BY SendForm DEF ListPasv

LEMMA ListFailedForm ==
  ASSUME NEW f, Good(f), NEW q, NEW o \in OpSet, ListFailed(f, q, o)
  PROVE  \E g : Good(g) /\ Leave(g, q)
  <1> DEFINE noMlsd == o.verb = "MLSD" /\ f.full \div 100 = 5
             g == IF noMlsd THEN [f EXCEPT !.hasMlsd = FALSE] ELSE f
  <1>1. Good(g)
    BY FieldForms
  <1>2. \/ ListPasv(g, q, [o EXCEPT !.verb = "LIST"])
        \/ ListBack(g, q, [o EXCEPT !.failed = TRUE])
    BY Zenon DEF ListFailed
  <1> HIDE DEF g
  <1> [o EXCEPT !.verb = "LIST"] \in OpSet /\ [o EXCEPT !.failed = TRUE] \in OpSet
    BY OpForms
  <1> QED
    BY <1>1, <1>2, PasvForm, ListBackForm

LEMMA ListStartForm ==
  ASSUME NEW f, Good(f), NEW q, NEW o \in OpSet, ListStart(f, q, o)
  PROVE  \E g : Good(g) /\ Leave(g, q)
  <1> DEFINE p == [o EXCEPT !.verb = IF f.hasMlsd THEN "MLSD" ELSE "LIST"]
  <1>1. p \in OpSet
    BY OpForms
  <1>2. ListPasv(f, q, p) \/ ListFailed(f, q, p)
    BY Zenon DEF ListStart
  <1> HIDE DEF p
  <1> QED
    BY <1>1, <1>2, PasvForm, ListFailedForm

LEMMA LoginDoneForm ==
  ASSUME NEW f, Good(f), NEW q, NEW ok \in BOOLEAN, LoginDone(f, q, ok)
  PROVE  \E g : Good(g) /\ Leave(g, q)
  <1>1. CASE Tail(stack) # <<>>
    BY <1>1, Zenon DEF LoginDone, Leave
  <1>2. CASE Tail(stack) = <<>>
    <2> DEFINE g == IF op.name = "open" /\ ~ok THEN Close(f) ELSE f
    <2>1. Good(g)
      BY CloseForm DEF Good
    <2>2. EndCmd(g, q)
      BY <1>2, Zenon DEF LoginDone
    <2> HIDE DEF g
    <2> QED
      BY <2>1, <2>2, EndForm
  <1> QED
    BY <1>1, <1>2

LEMMA LoginAnswerForm ==
  ASSUME NEW f, Good(f), NEW q, NEW r \in ReplySet, op \in OpSet, LoginAnswer(f, q, r)
  PROVE  \E g : Good(g) /\ Leave(g, q)
  <1>1. CASE LoginDone([f EXCEPT !.loggedin = r.full = 530 /\ LoggedIn(f)], q, FALSE)
    <2> DEFINE b == r.full = 530 /\ LoggedIn(f)
    <2>1. b \in BOOLEAN
      BY Zenon
    <2> HIDE DEF b
    <2>2. LoginDone([f EXCEPT !.loggedin = b], q, FALSE)
      BY <1>1, Zenon DEF b
    <2> QED
      BY <2>1, <2>2, FieldForms, LoginDoneForm
  <1>2. CASE Send([f EXCEPT !.loggedin = TRUE], q, op, Verb("PWD"), "homePwd")
    <2> "PWD" \in Verbs /\ "homePwd" \in Frames
      BY DEF Verbs, Frames, Continuations
    <2> QED
      BY <1>2, VerbTyped, FieldForms, SendForm
  <1>3. CASE LoginDone(f, q, FALSE)
    BY <1>3, LoginDoneForm
  <1> QED
    BY <1>1, <1>2, <1>3, Zenon DEF LoginAnswer

LEMMA AfterUserForm ==
  ASSUME NEW f, Good(f), NEW q, NEW r \in ReplySet, op \in OpSet, AfterUser(f, q, r)
  PROVE  \E g : Good(g) /\ Leave(g, q)
  <1>1. CASE Send([f EXCEPT !.loggedin = FALSE], q, op, Verb("PASS"), "pass")
    <2> "PASS" \in Verbs /\ "pass" \in Frames
      BY DEF Verbs, Frames, Continuations
    <2> QED
      BY <1>1, VerbTyped, FieldForms, SendForm
  <1> QED
    BY <1>1, LoginAnswerForm, Zenon DEF AfterUser

LEMMA CurDirTyped ==
  ASSUME NEW r \in ReplySet
  PROVE  CurDirOf(r) \in Paths /\ r.dir \in Paths
  BY PathsTyped DEF CurDirOf, ReplySet

LEMMA AfterHomePwdForm ==
  ASSUME NEW f, Good(f), NEW q, NEW r \in ReplySet, op \in OpSet,
         Head(stack).k # "mkd", AfterHomePwd(f, q, r)
  PROVE  \E g : Good(g) /\ Leave(g, q)
  <1> DEFINE g == [f EXCEPT !.curdir = CurDirOf(r)]
  <1>1. Good(g)
    BY CurDirTyped, FieldForms
  <1>2. \/ /\ pc' = "crashed" /\ ftp' = g /\ Network(g, q, c2s)
           /\ UNCHANGED <<stack, op, sig>>
        \/ LoginDone(g, q, TRUE)
        \/ Send(g, q, op, Cmd("CWD", g.urldir, 0), "loginCwd")
    BY Zenon DEF AfterHomePwd
  <1> HIDE DEF g
  <1> "CWD" \in Verbs /\ "loginCwd" \in Frames /\ g.urldir \in Paths
    BY <1>1 DEF Verbs, Frames, Continuations, Good, FtpOK, FtpSet
  <1> Cmd("CWD", g.urldir, 0) \in CmdSet /\ Cmd("CWD", g.urldir, 0).v # "MKD"
    BY VerbTyped
  <1>3. CASE pc' = "crashed" /\ ftp' = g /\ Network(g, q, c2s) /\ UNCHANGED <<stack, op, sig>>
    BY <1>1, <1>3, Zenon DEF Leave
  <1> QED
    BY <1>1, <1>2, <1>3, LoginDoneForm, SendForm

LEMMA CwdDoneForm ==
  ASSUME NEW f, Good(f), NEW q, NEW k, CwdDone(f, q, k)
  PROVE  \E g : Good(g) /\ Leave(g, q)
  BY LoginDoneForm, EndForm, Zenon DEF CwdDone

LEMMA AfterCwdForm ==
  ASSUME NEW f, Good(f), NEW q, NEW r \in ReplySet, op \in OpSet,
         NEW k \in {"loginCwdPwd", "cdPwd"}, AfterCwd(f, q, r, k)
  PROVE  \E g : Good(g) /\ Leave(g, q)
  <1>1. CASE CwdDone(f, q, k)
    BY <1>1, CwdDoneForm
  <1>2. CASE CwdDone([f EXCEPT !.curdir = r.dir], q, k)
    BY <1>2, CurDirTyped, FieldForms, CwdDoneForm
  <1>3. CASE Send(f, q, op, Verb("PWD"), k)
    <2> "PWD" \in Verbs /\ k \in Frames
      BY DEF Verbs, Frames, Continuations
    <2> QED
      BY <1>3, VerbTyped, SendForm
  <1> QED
    BY <1>1, <1>2, <1>3, Zenon DEF AfterCwd

LEMMA NoMorePasvForm ==
  ASSUME NEW f, Good(f)
  PROVE  Good(NoMorePasv(f))
  BY FieldForms DEF NoMorePasv

LEMMA AfterListPasvForm ==
  ASSUME NEW f, Good(f), NEW q, NEW r \in ReplySet, op \in OpSet, AfterListPasv(f, q, r)
  PROVE  \E g : Good(g) /\ Leave(g, q)
  <1>1. CASE Send(f, q, op, Verb(op.verb), "lsList")
    <2> op.verb \in Verbs /\ op.verb # "MKD" /\ "lsList" \in Frames
      BY DEF Verbs, Frames, Continuations, OpSet
    <2> QED
      BY <1>1, VerbTyped, SendForm
  <1>2. CASE ListFailed(NoMorePasv(f), q, op)
    BY <1>2, NoMorePasvForm, ListFailedForm
  <1> QED
    BY <1>1, <1>2, Zenon DEF AfterListPasv

LEMMA AfterListForm ==
  ASSUME NEW f, Good(f), NEW q, NEW r \in ReplySet, op \in OpSet,
         Head(stack).k # "mkd", AfterList(f, q, r)
  PROVE  \E g : Good(g) /\ Leave(g, q)
  <1>1. CASE Block(f, q, op, "data")
    BY <1>1, Zenon DEF Leave
  <1> QED
    BY <1>1, ListFailedForm, Zenon DEF AfterList

LEMMA RetrieveForm ==
  ASSUME NEW f, Good(f), NEW q, op \in OpSet, Retrieve(f, q)
  PROVE  \E g : Good(g) /\ Leave(g, q)
  <1> "REST" \in Verbs /\ "RETR" \in Verbs /\ "getRest" \in Frames /\ "getRetr" \in Frames
    BY DEF Verbs, Frames, Continuations
  <1> QED
    BY VerbTyped, SendForm DEF Retrieve

LEMMA AfterGetPasvForm ==
  ASSUME NEW f, Good(f), NEW q, NEW r \in ReplySet, op \in OpSet, AfterGetPasv(f, q, r)
  PROVE  \E g : Good(g) /\ Leave(g, q)
  <1>1. CASE Send(f, q, op, Verb("TYPE"), "getType")
    <2> "TYPE" \in Verbs /\ "getType" \in Frames
      BY DEF Verbs, Frames, Continuations
    <2> QED
      BY <1>1, VerbTyped, SendForm
  <1>2. CASE EndCmd(NoMorePasv(f), q)
    BY <1>2, NoMorePasvForm, EndForm
  <1> QED
    BY <1>1, <1>2, RetrieveForm, Zenon DEF AfterGetPasv

LEMMA AfterRetrForm ==
  ASSUME NEW f, Good(f), NEW q, NEW r \in ReplySet, op \in OpSet,
         Head(stack).k # "mkd", AfterRetr(f, q, r)
  PROVE  \E g : Good(g) /\ Leave(g, q)
  <1>1. CASE Block(f, q, op, "data")
    BY <1>1, Zenon DEF Leave
  <1> QED
    BY <1>1, EndForm, Zenon DEF AfterRetr

\* Every continuation leaves the Ftp structure good, and goes where Leave
\* says; that of an MKD ends the command.
LEMMA ContinueForm ==
  ASSUME NEW f, Good(f), NEW q, NEW r \in ReplySet, op \in OpSet, Continue(f, q, r)
  PROVE  \E g : Good(g) /\ Leave(g, q) /\ (Head(stack).k = "mkd" => Prompt(g, q))
  <1> DEFINE k == Head(stack).k
             Goal == \E g : Good(g) /\ Leave(g, q)
  <1>1. CASE k = "mkd"
    <2> DEFINE g == IF Class(r) = 2 THEN [f EXCEPT !.marks = @ \cup {f.curdir}] ELSE f
    <2>1. Good(g)
      BY FieldForms
    <2>2. EndCmd(g, q)
      BY <1>1, Zenon DEF Continue
    <2> HIDE DEF g
    <2> QED
      BY <2>1, <2>2, FieldForms DEF EndCmd, Leave
  <1>2. CASE k # "mkd"
    <2>1. \/ AfterUser(f, q, r) \/ LoginAnswer(f, q, r) \/ AfterHomePwd(f, q, r)
          \/ AfterCwd(f, q, r, "loginCwdPwd") \/ AfterCwd(f, q, r, "cdPwd")
          \/ k \in {"loginCwdPwd", "cdPwd"} /\ AfterPwd(f, q, r, k)
          \/ ListStart(f, q, op) \/ EndCmd(f, q)
          \/ AfterListPasv(f, q, r) \/ AfterList(f, q, r)
          \/ EndCmd(ListCached(f, op), q) \/ AfterGetPasv(f, q, r)
          \/ AfterType(f, q, r) \/ AfterRest(f, q, r) \/ AfterRetr(f, q, r)
          \/ EndCmd(Close(f), q)
      BY <1>2, Zenon DEF Continue
    <2>2. AfterUser(f, q, r) => Goal
      BY AfterUserForm, Zenon
    <2>3. LoginAnswer(f, q, r) => Goal
      BY LoginAnswerForm, Zenon
    <2>4. AfterHomePwd(f, q, r) => Goal
      BY <1>2, AfterHomePwdForm, Zenon
    <2>5. AfterCwd(f, q, r, "loginCwdPwd") \/ AfterCwd(f, q, r, "cdPwd") => Goal
      BY AfterCwdForm, Zenon
    <2>6. AfterPwd(f, q, r, k) => Goal
      BY CurDirTyped, FieldForms, CwdDoneForm, Zenon DEF AfterPwd
    <2>7. ListStart(f, q, op) => Goal
      BY ListStartForm, Zenon
    <2>8. EndCmd(f, q) => Goal
      BY EndForm, Zenon
    <2>9. AfterListPasv(f, q, r) => Goal
      BY AfterListPasvForm, Zenon
    <2>10. AfterList(f, q, r) => Goal
      BY <1>2, AfterListForm, Zenon
    <2>11. EndCmd(ListCached(f, op), q) => Goal
      BY CachedForm, EndForm, Zenon
    <2>12. AfterGetPasv(f, q, r) => Goal
      BY AfterGetPasvForm, Zenon
    <2>13. AfterType(f, q, r) => Goal
      <3> Good(IF Class(r) = 2 THEN [f EXCEPT !.type = "I"] ELSE f)
        BY FieldForms
      <3> QED
        BY RetrieveForm, Zenon DEF AfterType
    <2>14. AfterRest(f, q, r) => Goal
      <3> "RETR" \in Verbs /\ "getRetr" \in Frames
        BY DEF Verbs, Frames, Continuations
      <3> Verb("RETR") \in CmdSet /\ Verb("RETR").v # "MKD"
        BY VerbTyped
      <3> QED
        BY EndForm, SendForm, Zenon DEF AfterRest
    <2>15. AfterRetr(f, q, r) => Goal
      BY <1>2, AfterRetrForm, Zenon
    <2>16. EndCmd(Close(f), q) => Goal
      BY CloseForm, EndForm, Zenon DEF Good
    <2> HIDE DEF Goal
    <2> Goal
      BY <2>1, <2>2, <2>3, <2>4, <2>5, <2>6, <2>7, <2>8, <2>9, <2>10, <2>11, <2>12,
         <2>13, <2>14, <2>15, <2>16, Zenon
    <2> QED
      BY <1>2, Zenon DEF Goal
  <1> QED
    BY <1>1, <1>2

-----------------------------------------------------------------------------
(* The types, step by step.                                                *)

LEMMA NetworkForm ==
  ASSUME TypeInv, NEW f, f.ctrl \in BOOLEAN, NEW q \in Seq(ReplySet), NEW out \in Seq(CmdSet),
         Network(f, q, out)
  PROVE  /\ s2c' \in Seq(ReplySet) /\ c2s' \in Seq(CmdSet) /\ srv' \in SrvSet
         /\ s2c' \in {q, <<>>} /\ c2s' \in {out, <<>>}
         /\ ~srv.up => c2s' = <<>>
         /\ ~f.ctrl => c2s' = <<>>
         /\ srv' = srv \/ srv' = Down
         /\ UNCHANGED <<dconn, stale, made, gone>>
  <1> s2c' = IF f.ctrl THEN q ELSE <<>>
    BY Zenon DEF Network
  <1> c2s' = IF f.ctrl /\ srv.up THEN out ELSE <<>>
    BY Zenon DEF Network
  <1> srv' = IF f.ctrl THEN srv ELSE Down
    BY Zenon DEF Network
  <1> UNCHANGED <<dconn, stale, made, gone>>
    BY Zenon DEF Network
  <1> <<>> \in Seq(ReplySet) /\ <<>> \in Seq(CmdSet)
    OBVIOUS
  <1> Down \in SrvSet
    BY PathsTyped DEF Down, SrvSet
  <1> srv \in SrvSet
    BY DEF TypeInv, TypeOK
  <1> QED
    OBVIOUS

LEMMA SigsTyped ==
  /\ PromptSig \in SigSet /\ AbortSig \in SigSet /\ CloseSig \in SigSet
  /\ \A b \in BOOLEAN : [CloseSig EXCEPT !.alarm = b] \in SigSet
  BY DEF PromptSig, AbortSig, CloseSig, SigSet

\* The rest of a stack, and a stack that was resent, are stacks.
LEMMA StackForms ==
  ASSUME NEW st \in Seq(Fitting), st # <<>>
  PROVE  /\ Head(st) \in Fitting /\ Tail(st) \in Seq(Fitting)
         /\ \A fr \in Fitting, t \in Seq(Fitting) : <<fr>> \o t \in Seq(Fitting)
         /\ \A fr, t : <<fr>> \o t # <<>>
  OBVIOUS

LEMMA FrameForms ==
  /\ \A cmd \in CmdSet, k \in Continuations : Fits(cmd.v, k) =>
       [cmd |-> cmd, recon |-> FALSE, k |-> k] \in Fitting
  /\ \A fr \in Fitting, a \in Paths : [fr EXCEPT !.cmd.a = a] \in Fitting
  <1>1. \A cmd \in CmdSet, k \in Continuations : Fits(cmd.v, k) =>
          [cmd |-> cmd, recon |-> FALSE, k |-> k] \in Fitting
    BY DEF Fitting, FrameSet
  <1>2. ASSUME NEW fr \in Fitting, NEW a \in Paths
        PROVE  [fr EXCEPT !.cmd.a = a] \in Fitting
    <2> fr.cmd \in CmdSet /\ [fr.cmd EXCEPT !.a = a] \in CmdSet
      BY DEF Fitting, FrameSet, CmdSet
    <2> [fr.cmd EXCEPT !.a = a].v = fr.cmd.v
      BY DEF CmdSet
    <2> QED
      BY DEF Fitting, FrameSet
  <1> QED
    BY <1>1, <1>2

\* What is common to the steps below: everything but the places named.
LEMMA TypeParts ==
  ASSUME ftp' \in FtpSet, ftp'.url = ftp'.connected, stack' \in Seq(Fitting),
         pc' \in Points, op' \in OpSet, sig' \in SigSet,
         c2s' \in Seq(CmdSet), s2c' \in Seq(ReplySet), srv' \in SrvSet, dconn' \in DconnSet,
         stale' \subseteq Dirs, made' \in [Serials -> 0..2], got' \subseteq GotSet,
         gone' \subseteq Dirs, left' \in LeftSet,
         pc' = "cmd" => stack' # <<>>, pc' = "prompt" => stack' = <<>>,
         pc' \notin Opening => Live(ftp')
  PROVE  TypeInv'
  <1> stack' \in Seq(FrameSet)
    <2> Fitting \subseteq FrameSet
      BY DEF Fitting
    <2> QED
      BY SeqMonotonic, Zenon
  <1>1. TypeOK'
    BY Zenon DEF TypeOK
  <1>2. FtpOK(ftp)'
    BY Zenon DEF FtpOK
  <1>3. (pc \notin Opening => Live(ftp))'
    BY Zenon DEF Opening, Live
  <1> QED
    BY <1>1, <1>2, <1>3, Zenon DEF TypeInv

LEMMA IssueTyped ==
  ASSUME TypeInv, NEW f, FtpOK(f), Live(f), NEW q \in Seq(ReplySet), NEW o \in OpSet,
         NEW cmd \in CmdSet, NEW k \in Continuations, Fits(cmd.v, k),
         NEW below \in Seq(Fitting), Issue(f, q, o, cmd, k, below),
         got' \subseteq GotSet, left' \in LeftSet
  PROVE  TypeInv'
  <1>1. /\ ftp' = f /\ op' = o /\ stack' = <<[cmd |-> cmd, recon |-> FALSE, k |-> k]>> \o below
        /\ pc' = "cmd" /\ sig' = AbortSig /\ Network(f, q, Append(c2s, cmd))
    BY Zenon DEF Issue
  <1> DEFINE out == Append(c2s, cmd)
  <1> out \in Seq(CmdSet)
    BY DEF TypeInv, TypeOK
  <1> Network(f, q, out)
    BY <1>1
  <1> f.ctrl \in BOOLEAN
    BY DEF FtpOK, FtpSet
  <1> HIDE DEF out
  <1>2. /\ s2c' \in Seq(ReplySet) /\ c2s' \in Seq(CmdSet) /\ srv' \in SrvSet
        /\ UNCHANGED <<dconn, stale, made, gone>>
    BY NetworkForm
  <1>3. stack' \in Seq(Fitting) /\ stack' # <<>>
    <2> [cmd |-> cmd, recon |-> FALSE, k |-> k] \in Fitting
      BY FrameForms
    <2> QED
      BY <1>1
  <1>4. /\ dconn' \in DconnSet /\ stale' \subseteq Dirs /\ made' \in [Serials -> 0..2]
        /\ gone' \subseteq Dirs
    BY <1>2 DEF TypeInv, TypeOK
  <1>5. pc' \in Points /\ pc' # "prompt"
    BY <1>1 DEF Points
  <1>6. sig' \in SigSet
    BY <1>1, SigsTyped
  <1>7. ftp' \in FtpSet /\ ftp'.url = ftp'.connected /\ Live(ftp')
    BY <1>1 DEF FtpOK
  <1> QED
    BY <1>1, <1>2, <1>3, <1>4, <1>5, <1>6, <1>7, TypeParts, Zenon

LEMMA ResendTyped ==
  ASSUME TypeInv, NEW f, FtpOK(f), Live(f), NEW q \in Seq(ReplySet),
         NEW frames \in Seq(Fitting), frames # <<>>, Resend(f, q, frames),
         got' \subseteq GotSet, left' \in LeftSet
  PROVE  TypeInv'
  <1> DEFINE again(a) == [Head(frames) EXCEPT !.cmd.a = a]
  <1>1. PICK a \in Paths :
          /\ ftp' = f /\ stack' = <<again(a)>> \o Tail(frames) /\ pc' = "cmd"
          /\ sig' = CloseSig /\ Network(f, q, Append(c2s, again(a).cmd)) /\ op' = op
    BY Zenon DEF Resend
  <1>2. again(a) \in Fitting /\ again(a).cmd \in CmdSet
    BY FrameForms, StackForms DEF Fitting, FrameSet
  <1> HIDE DEF again
  <1> DEFINE out == Append(c2s, again(a).cmd)
  <1> out \in Seq(CmdSet)
    BY <1>2 DEF TypeInv, TypeOK
  <1> Network(f, q, out)
    BY <1>1
  <1> f.ctrl \in BOOLEAN
    BY DEF FtpOK, FtpSet
  <1> HIDE DEF out
  <1>3. /\ s2c' \in Seq(ReplySet) /\ c2s' \in Seq(CmdSet) /\ srv' \in SrvSet
        /\ UNCHANGED <<dconn, stale, made, gone>>
    BY NetworkForm
  <1>4. stack' \in Seq(Fitting) /\ stack' # <<>>
    <2> Tail(frames) \in Seq(Fitting)
      BY StackForms
    <2> QED
      BY <1>1, <1>2
  <1>5. /\ dconn' \in DconnSet /\ stale' \subseteq Dirs /\ made' \in [Serials -> 0..2]
        /\ gone' \subseteq Dirs /\ op' \in OpSet
    BY <1>1, <1>3 DEF TypeInv, TypeOK
  <1>6. pc' \in Points /\ pc' # "prompt" /\ sig' \in SigSet
    BY <1>1, SigsTyped DEF Points
  <1>7. ftp' \in FtpSet /\ ftp'.url = ftp'.connected /\ Live(ftp')
    BY <1>1 DEF FtpOK
  <1> QED
    BY <1>1, <1>3, <1>4, <1>5, <1>6, <1>7, TypeParts, Zenon

LEMMA PromptTyped ==
  ASSUME TypeInv, NEW f, FtpOK(f), NEW q \in Seq(ReplySet), Prompt(f, q),
         got' \subseteq GotSet, left' \in LeftSet
  PROVE  TypeInv'
  <1>1. /\ ftp' = f /\ op' = NoOp /\ stack' = <<>> /\ pc' = "prompt" /\ sig' = PromptSig
        /\ Network(f, q, c2s)
    BY Zenon DEF Prompt
  <1> c2s \in Seq(CmdSet) /\ op \in OpSet
    BY DEF TypeInv, TypeOK
  <1> f.ctrl \in BOOLEAN
    BY DEF FtpOK, FtpSet
  <1>2. /\ s2c' \in Seq(ReplySet) /\ c2s' \in Seq(CmdSet) /\ srv' \in SrvSet
        /\ UNCHANGED <<dconn, stale, made, gone>>
    BY <1>1, NetworkForm
  <1>3. stack' \in Seq(Fitting)
    BY <1>1
  <1>4. /\ dconn' \in DconnSet /\ stale' \subseteq Dirs /\ made' \in [Serials -> 0..2]
        /\ gone' \subseteq Dirs
    BY <1>2 DEF TypeInv, TypeOK
  <1>5. pc' \in Points /\ pc' # "cmd" /\ sig' \in SigSet /\ op' \in OpSet /\ pc' \in Opening
    BY <1>1, SigsTyped, OpForms DEF Points, Opening
  <1>6. ftp' \in FtpSet /\ ftp'.url = ftp'.connected
    BY <1>1 DEF FtpOK
  <1> QED
    BY <1>1, <1>2, <1>3, <1>4, <1>5, <1>6, TypeParts, Zenon

LEMMA BlockTyped ==
  ASSUME TypeInv, NEW f, FtpOK(f), Live(f), NEW q \in Seq(ReplySet), NEW o \in OpSet,
         NEW p \in Points \ {"cmd", "prompt"}, Block(f, q, o, p),
         got' \subseteq GotSet, left' \in LeftSet
  PROVE  TypeInv'
  <1>1. /\ ftp' = f /\ op' = o /\ stack' = stack /\ pc' = p /\ Network(f, q, c2s)
        /\ sig' = [CloseSig EXCEPT !.alarm = p \notin {"data", "drain"}]
    BY Zenon DEF Block
  <1> c2s \in Seq(CmdSet)
    BY DEF TypeInv, TypeOK
  <1> f.ctrl \in BOOLEAN
    BY DEF FtpOK, FtpSet
  <1>2. /\ s2c' \in Seq(ReplySet) /\ c2s' \in Seq(CmdSet) /\ srv' \in SrvSet
        /\ UNCHANGED <<dconn, stale, made, gone>>
    BY <1>1, NetworkForm
  <1>3. stack' \in Seq(Fitting)
    BY <1>1 DEF TypeInv
  <1>4. /\ dconn' \in DconnSet /\ stale' \subseteq Dirs /\ made' \in [Serials -> 0..2]
        /\ gone' \subseteq Dirs
    BY <1>2 DEF TypeInv, TypeOK
  <1>5. pc' \in Points /\ pc' # "cmd" /\ pc' # "prompt" /\ sig' \in SigSet
    <2> DEFINE b == p \notin {"data", "drain"}
    <2>1. b \in BOOLEAN
      BY Zenon
    <2> HIDE DEF b
    <2>2. sig' = [CloseSig EXCEPT !.alarm = b]
      BY <1>1, Zenon DEF b
    <2> QED
      BY <1>1, <2>1, <2>2, SigsTyped
  <1>6. ftp' \in FtpSet /\ ftp'.url = ftp'.connected /\ Live(ftp')
    BY <1>1 DEF FtpOK
  <1> QED
    BY <1>1, <1>2, <1>3, <1>4, <1>5, <1>6, TypeParts, Zenon

LEMMA LeaveTyped ==
  ASSUME TypeInv, NEW f, Good(f), NEW q \in Seq(ReplySet), Leave(f, q),
         got' \subseteq GotSet, left' \in LeftSet
  PROVE  TypeInv'
  <1> FtpOK(f) /\ Live(f)
    BY DEF Good
  <1> stack \in Seq(Fitting)
    BY DEF TypeInv
  <1>1. CASE Prompt(f, q)
    BY <1>1, PromptTyped
  <1>2. CASE \E o \in OpSet, cmd \in CmdSet, k \in Frames :
                cmd.v # "MKD" /\ Send(f, q, o, cmd, k)
    <2> DEFINE below == IF stack = <<>> THEN <<>> ELSE Tail(stack)
    <2>1. PICK o \in OpSet, cmd \in CmdSet, k \in Frames :
             cmd.v # "MKD" /\ Send(f, q, o, cmd, k)
      BY <1>2
    <2>2. below \in Seq(Fitting)
      OBVIOUS
    <2>3. Issue(f, q, o, cmd, k, below)
      BY <2>1, Zenon DEF Send
    <2>4. Fits(cmd.v, k) /\ k \in Continuations
      BY <2>1 DEF Fits, Frames
    <2> HIDE DEF below
    <2> QED
      BY <2>2, <2>3, <2>4, IssueTyped
  <1>3. CASE Tail(stack) # <<>> /\ Resend(f, q, Tail(stack))
    <2>1. CASE stack # <<>>
      <3> Tail(stack) \in Seq(Fitting)
        BY <2>1
      <3> QED
        BY <1>3, ResendTyped
    <2>2. CASE stack = <<>>
      <3> Tail(stack) \in Seq(Fitting)
        BY <2>2
      <3> QED
        BY <1>3, ResendTyped
    <2> QED
      BY <2>1, <2>2
  <1>4. CASE pc' = "crashed" /\ ftp' = f /\ Network(f, q, c2s) /\ UNCHANGED <<stack, op, sig>>
    <2> c2s \in Seq(CmdSet) /\ f.ctrl \in BOOLEAN
      BY DEF TypeInv, TypeOK, FtpOK, FtpSet
    <2>1. /\ s2c' \in Seq(ReplySet) /\ c2s' \in Seq(CmdSet) /\ srv' \in SrvSet
          /\ UNCHANGED <<dconn, stale, made, gone>>
      BY <1>4, NetworkForm
    <2>2. /\ stack' \in Seq(Fitting) /\ op' \in OpSet /\ sig' \in SigSet
          /\ dconn' \in DconnSet /\ stale' \subseteq Dirs /\ made' \in [Serials -> 0..2]
          /\ gone' \subseteq Dirs
      BY <1>4, <2>1 DEF TypeInv, TypeOK
    <2>3. pc' \in Points /\ pc' # "cmd" /\ pc' # "prompt" /\ pc' \in Opening
      BY <1>4 DEF Points, Opening
    <2>4. ftp' \in FtpSet /\ ftp'.url = ftp'.connected
      BY <1>4 DEF FtpOK
    <2> QED
      BY <2>1, <2>2, <2>3, <2>4, TypeParts, Zenon
  <1>5. CASE \E o \in OpSet : Block(f, q, o, "data")
    <2> "data" \in Points \ {"cmd", "prompt"}
      BY DEF Points
    <2> QED
      BY <1>5, BlockTyped
  <1> QED
    BY <1>1, <1>2, <1>3, <1>4, <1>5, Zenon DEF Leave

-----------------------------------------------------------------------------
(* The steps of the client.                                                *)

Piece(q) ==
  /\ q \in Seq(ReplySet)
  /\ \A i \in DOMAIN q : \E j \in DOMAIN s2c : q[i] = s2c[j]

LEMMA Pieces ==
  ASSUME TypeInv
  PROVE  /\ Piece(<<>>) /\ Piece(s2c)
         /\ s2c # <<>> => Piece(Tail(s2c)) /\ Head(s2c) \in ReplySet
         /\ \A n \in 0..Len(s2c) : Piece(SubSeq(s2c, 1, n)) /\ Piece(SubSeq(s2c, n + 1, Len(s2c)))
  <1> s2c \in Seq(ReplySet)
    BY DEF TypeInv, TypeOK
  <1>1. Piece(<<>>) /\ Piece(s2c)
    BY DEF Piece
  <1>2. ASSUME s2c # <<>>
        PROVE  Piece(Tail(s2c)) /\ Head(s2c) \in ReplySet
    BY <1>2 DEF Piece
  <1>3. ASSUME NEW n \in 0..Len(s2c)
        PROVE  Piece(SubSeq(s2c, 1, n))
    BY DEF Piece
  <1>4. ASSUME NEW n \in 0..Len(s2c)
        PROVE  Piece(SubSeq(s2c, n + 1, Len(s2c)))
    <2> DEFINE q == SubSeq(s2c, n + 1, Len(s2c))
    <2>1. q \in Seq(ReplySet) /\ \A i \in DOMAIN q : i + n \in DOMAIN s2c /\ q[i] = s2c[i + n]
      OBVIOUS
    <2> HIDE DEF q
    <2> QED
      BY <2>1 DEF Piece
  <1> QED
    BY <1>1, <1>2, <1>3, <1>4

LEMMA NoReplyTyped == NoReply \in ReplySet
  BY PathsTyped DEF NoReply, Reply, ReplySet, Codes

\* Every step inside a command does one of these.
Continued ==
  \E g, q : Good(g) /\ Piece(q) /\ Leave(g, q) /\ (pc = "cmd" /\ Head(stack).k = "mkd" => Prompt(g, q))

LEMMA ContinueContinued ==
  ASSUME TypeInv, NEW f, Good(f), NEW q, Piece(q), NEW r \in ReplySet, Continue(f, q, r)
  PROVE  Continued
  <1> op \in OpSet
    BY DEF TypeInv, TypeOK
  <1> QED
    BY ContinueForm, Zenon DEF Continued

Reconnecting ==
  /\ pc = "cmd" /\ ftp.ctrl /\ s2c # <<>> /\ Head(s2c).full = 421
  /\ ftp' = [ftp EXCEPT !.full = Head(s2c).full]
  /\ stack' = [stack EXCEPT ![1].recon = TRUE]
  /\ pc' = "connect" /\ sig' = CloseSig
  /\ Network([ftp EXCEPT !.full = Head(s2c).full], Tail(s2c), c2s)
  /\ UNCHANGED op

LEMMA CmdGood ==
  ASSUME TypeInv, pc \notin Opening
  PROVE  Good(ftp) /\ Good(Close(ftp)) /\ \A c \in Codes : Good([ftp EXCEPT !.full = c])
  BY CloseForm, FieldForms DEF TypeInv, Good

LEMMA CmdReplyForm ==
  ASSUME TypeInv, CmdReply
  PROVE  Reconnecting \/ Continued
  <1> DEFINE r == Head(s2c)
             f == [ftp EXCEPT !.full = r.full]
  <1>1. /\ pc = "cmd" /\ ftp.ctrl /\ s2c # <<>>
        /\ \/ /\ Reconnects(f, r)
              /\ ftp' = f /\ stack' = [stack EXCEPT ![1].recon = TRUE]
              /\ pc' = "connect" /\ sig' = CloseSig /\ Network(f, Tail(s2c), c2s)
              /\ UNCHANGED op
           \/ Continue(f, Tail(s2c), r)
    BY Zenon DEF CmdReply
  <1>2. r \in ReplySet /\ r.full \in Codes /\ Piece(Tail(s2c))
    BY <1>1, Pieces DEF ReplySet
  <1>3. Good(f)
    BY <1>1, <1>2, CmdGood DEF Opening
  <1>4. CASE Continue(f, Tail(s2c), r)
    <2> HIDE DEF f, r
    <2> QED
      BY <1>2, <1>3, <1>4, ContinueContinued
  <1>5. CASE /\ Reconnects(f, r)
             /\ ftp' = f /\ stack' = [stack EXCEPT ![1].recon = TRUE]
             /\ pc' = "connect" /\ sig' = CloseSig /\ Network(f, Tail(s2c), c2s)
             /\ UNCHANGED op
    BY <1>1, <1>5, Zenon DEF Reconnecting, Reconnects
  <1> QED
    BY <1>1, <1>4, <1>5

LEMMA CmdLostForm ==
  ASSUME TypeInv, CmdEof \/ CmdNoCtrl
  PROVE  Continued
  <1>1. CASE CmdEof
    <2> Good(Close(ftp))
      BY <1>1, CmdGood DEF CmdEof, Opening
    <2> QED
      BY <1>1, Pieces, NoReplyTyped, ContinueContinued DEF CmdEof
  <1>2. CASE CmdNoCtrl
    <2> DEFINE f == [ftp EXCEPT !.full = 0]
    <2> Good(f)
      BY <1>2, CmdGood DEF CmdNoCtrl, Opening, Codes
    <2> Continue(f, <<>>, NoReply)
      BY <1>2 DEF CmdNoCtrl
    <2> HIDE DEF f
    <2> QED
      BY Pieces, NoReplyTyped, ContinueContinued
  <1> QED
    BY <1>1, <1>2

\* The end of a transfer.
LEMMA TransferEndForm ==
  ASSUME NEW f, Good(f), NEW q, NEW r \in ReplySet, op \in OpSet, TransferEnd(f, q, r)
  PROVE  /\ \E g : Good(g) /\ Leave(g, q)
         /\ got' = got \/ Success
  <1>1. ListBack(f, q, op) \/ ListFailed(f, q, op) \/ EndCmd(f, q)
    BY Zenon DEF TransferEnd
  <1>2. got' = got \/ Success
    BY Zenon DEF TransferEnd
  <1> QED
    BY <1>1, <1>2, ListBackForm, ListFailedForm, EndForm

LEMMA AbortDoneForm ==
  ASSUME NEW f, Good(f), NEW q, op \in OpSet, AbortDone(f, q)
  PROVE  \E g : Good(g) /\ Leave(g, q)
  BY ListFailedForm, EndForm, Zenon DEF AbortDone

LEMMA SuccessTyped ==
  ASSUME TypeInv, got' = got \/ Success
  PROVE  got' \subseteq GotSet
  BY DEF TypeInv, TypeOK, Success, GotSet, DconnSet, OpSet

LEMMA FinalForm ==
  ASSUME TypeInv, FinalReply \/ FinalEof
  PROVE  Continued /\ (got' = got \/ Success) /\ UNCHANGED left
  <1> op \in OpSet
    BY DEF TypeInv, TypeOK
  <1>1. CASE FinalReply
    <2> DEFINE f == [ftp EXCEPT !.full = Head(s2c).full]
    <2>1. pc = "final" /\ s2c # <<>> /\ TransferEnd(f, Tail(s2c), Head(s2c)) /\ UNCHANGED left
      BY <1>1, Zenon DEF FinalReply
    <2>2. Head(s2c) \in ReplySet /\ Head(s2c).full \in Codes /\ Piece(Tail(s2c))
      BY <2>1, Pieces DEF ReplySet
    <2>3. Good(f)
      BY <2>1, <2>2, CmdGood DEF Opening
    <2> HIDE DEF f
    <2> QED
      BY <2>1, <2>2, <2>3, TransferEndForm, Zenon DEF Continued
  <1>2. CASE FinalEof
    <2>1. pc = "final" /\ TransferEnd(Close(ftp), <<>>, NoReply) /\ UNCHANGED left
      BY <1>2, Zenon DEF FinalEof
    <2>2. Good(Close(ftp))
      BY <2>1, CmdGood DEF Opening
    <2>3. Piece(<<>>)
      BY Pieces
    <2> QED
      BY <2>1, <2>2, <2>3, NoReplyTyped, TransferEndForm, Zenon DEF Continued
  <1> QED
    BY <1>1, <1>2

\* Waiting for something else, with the same activations.
Awaits ==
  \E f, q : \E o \in OpSet, p \in Points \ {"cmd", "prompt"} :
    Good(f) /\ Piece(q) /\ pc \notin {"cmd", "prompt"} /\ Block(f, q, o, p)

LEMMA AbortForm ==
  ASSUME TypeInv, AbortReply \/ AbortEof
  PROVE  (Continued \/ Awaits) /\ UNCHANGED <<got, left>>
  <1> op \in OpSet
    BY DEF TypeInv, TypeOK
  <1>1. CASE AbortReply
    <2> DEFINE f == [ftp EXCEPT !.full = Head(s2c).full]
    <2>1. /\ pc \in {"abort1", "abort2"} /\ s2c # <<>> /\ UNCHANGED <<got, left>>
          /\ Block(f, Tail(s2c), op, "abort2") \/ AbortDone(f, Tail(s2c))
      BY <1>1, Zenon DEF AbortReply
    <2>2. Head(s2c).full \in Codes /\ Piece(Tail(s2c))
      BY <2>1, Pieces DEF ReplySet
    <2>3. Good(f) /\ pc \notin {"cmd", "prompt"} /\ "abort2" \in Points \ {"cmd", "prompt"}
      BY <2>1, <2>2, CmdGood DEF Opening, Points
    <2> HIDE DEF f
    <2> QED
      BY <2>1, <2>2, <2>3, AbortDoneForm, Zenon DEF Continued, Awaits
  <1>2. CASE AbortEof
    <2>1. pc \in {"abort1", "abort2"} /\ AbortDone(Close(ftp), <<>>) /\ UNCHANGED <<got, left>>
      BY <1>2, Zenon DEF AbortEof
    <2>2. Good(Close(ftp)) /\ pc # "cmd"
      BY <2>1, CmdGood DEF Opening
    <2>3. Piece(<<>>)
      BY Pieces
    <2> QED
      BY <2>1, <2>2, <2>3, AbortDoneForm, Zenon DEF Continued
  <1> QED
    BY <1>1, <1>2

LEMMA DataForm ==
  ASSUME TypeInv, RecvEnd \/ RecvBreak \/ AbortPending \/ Drained
  PROVE  Awaits /\ UNCHANGED <<got, left>>
  <1> op \in OpSet /\ dconn.whole \in BOOLEAN /\ dconn.of \in Paths /\ ftp \in FtpSet
    BY DEF TypeInv, TypeOK, DconnSet
  <1> Piece(s2c)
    BY Pieces
  <1> {"final", "drain", "abort1"} \subseteq Points \ {"cmd", "prompt"}
    BY DEF Points
  <1>1. PICK o \in OpSet, p \in {"final", "drain", "abort1"} :
          Block(ftp, s2c, o, p) /\ UNCHANGED <<got, left>> /\ pc \in {"data", "drain"}
    <2>1. CASE RecvEnd
      <3> [op EXCEPT !.whole = dconn.whole, !.of = dconn.of] \in OpSet
        BY OpForms
      <3> QED
        BY <2>1, Zenon DEF RecvEnd
    <2>2. CASE RecvBreak
      <3> [op EXCEPT !.whole = FALSE] \in OpSet
        BY OpForms
      <3> QED
        BY <2>2, Zenon DEF RecvBreak
    <2>3. CASE AbortPending
      <3> DEFINE b == op.name = "get"
      <3>1. b \in BOOLEAN
        BY Zenon
      <3>2. Block(ftp, s2c, [op EXCEPT !.whole = FALSE, !.of = dconn.of, !.failed = b], "drain")
            /\ UNCHANGED <<got, left>> /\ pc = "data"
        BY <2>3, Zenon DEF AbortPending
      <3> HIDE DEF b
      <3> [op EXCEPT !.whole = FALSE, !.of = dconn.of, !.failed = b] \in OpSet
        BY <3>1, OpForms
      <3> QED
        BY <3>2, Zenon
    <2>4. CASE Drained
      BY <2>4, Zenon DEF Drained
    <2> QED
      BY <2>1, <2>2, <2>3, <2>4
  <1>2. Good(ftp) /\ pc \notin {"cmd", "prompt"}
    BY <1>1, CmdGood DEF Opening
  <1> QED
    BY <1>1, <1>2, Zenon DEF Awaits

\* Back at the prompt, the stack again to be sent, and a greeting.
Aborted == \E f, q : FtpOK(f) /\ Piece(q) /\ Prompt(f, q)
Redone ==
  /\ pc \notin {"cmd", "prompt"} /\ stack # <<>>
  /\ \E f : Good(f) /\ ~f.ctrl /\ Resend(f, <<>>, stack)
Greeting ==
  /\ pc = "welcome"
  /\ \E f, q : Good(f) /\ Piece(q) /\ Issue(f, q, op, Verb("USER"), "user", stack)

LEMMA OpenFailedForm ==
  ASSUME TypeInv, pc \in {"connect", "welcome"}, OpenFailed(Close(ftp))
  PROVE  Aborted \/ Redone
  <1>1. Good(Close(ftp)) /\ ~Close(ftp).ctrl
    BY CloseForm DEF TypeInv
  <1>2. Good(Flush(Close(ftp))) /\ FtpOK(Flush(Close(ftp)))
    BY <1>1, FieldForms DEF Good
  <1>3. Piece(<<>>)
    BY Pieces
  <1> QED
    BY <1>1, <1>2, <1>3, Zenon DEF OpenFailed, EndCmd, Aborted, Redone

LEMMA ConnectFailForm ==
  ASSUME TypeInv, ConnectFail
  PROVE  (Aborted \/ Redone) /\ UNCHANGED <<got, left>>
  BY OpenFailedForm DEF ConnectFail

LEMMA WelcomeForm ==
  ASSUME TypeInv, Welcome
  PROVE  (Greeting \/ Aborted \/ Redone) /\ UNCHANGED <<got, left>>
  <1> DEFINE dir == IF stack = <<>> /\ op.name = "open" THEN op.dir ELSE ftp.curdir
             f == [ftp EXCEPT !.full = 220, !.connected = TRUE, !.url = TRUE, !.urldir = dir]
  <1>1. /\ pc = "welcome" /\ UNCHANGED <<got, left>>
        /\ \/ s2c # <<>> /\ Issue(f, Tail(s2c), op, Verb("USER"), "user", stack)
           \/ OpenFailed(Close(ftp))
    BY Zenon DEF Welcome
  <1>2. Good(f)
    <2> dir \in Paths
      BY DEF TypeInv, TypeOK, FtpSet, OpSet
    <2> HIDE DEF dir
    <2> DEFINE e == [ftp EXCEPT !.full = 220]
               g == [e EXCEPT !.connected = TRUE]
    <2>1. e \in FtpSet
      BY DEF TypeInv, TypeOK, FtpSet, Codes
    <2>2. f = [g EXCEPT !.url = TRUE, !.urldir = dir]
      BY Zenon
    <2> HIDE DEF f, e
    <2>3. g \in FtpSet /\ g.connected = TRUE
      BY <2>1 DEF FtpSet
    <2> HIDE DEF g
    <2>4. f \in FtpSet /\ f.connected = TRUE /\ f.url = TRUE
      BY <2>2, <2>3 DEF FtpSet
    <2> QED
      BY <2>4 DEF Good, FtpOK, Live
  <1> HIDE DEF f
  <1>3. CASE s2c # <<>> /\ Issue(f, Tail(s2c), op, Verb("USER"), "user", stack)
    <2> Piece(Tail(s2c))
      BY <1>3, Pieces
    <2> QED
      BY <1>1, <1>2, <1>3, Zenon DEF Greeting
  <1> QED
    BY <1>1, <1>3, OpenFailedForm

\* What a command typed at the prompt starts with, but for open and mkdir.
Dialled == \E f, o : FtpOK(f) /\ o \in OpSet /\ Dial(f, o)
Typed == Aborted \/ Continued \/ Dialled

LEMMA TypedSend ==
  ASSUME TypeInv, pc = "prompt", Good(ftp), NEW o \in OpSet, NEW cmd \in CmdSet, cmd.v # "MKD",
         NEW k \in Frames, Send(ftp, s2c, o, cmd, k)
  PROVE  Typed
  <1> Piece(s2c)
    BY Pieces
  <1> QED
    BY Zenon DEF Typed, Continued, Leave

LEMMA TypedEnd ==
  ASSUME TypeInv, pc = "prompt", NEW f, FtpOK(f), EndCmd(f, s2c)
  PROVE  Typed
  <1> FtpOK(Flush(f))
    BY DEF FtpOK, FtpSet, Flush
  <1> Piece(s2c)
    BY Pieces
  <1> QED
    BY Zenon DEF Typed, Aborted, EndCmd

LEMMA CommandForm ==
  ASSUME TypeInv, NEW d \in Dirs \cup {NoDir}, NEW b \in BOOLEAN,
         \/ UserOpen(d) \/ UserReopen \/ UserUser \/ UserClose
         \/ (d \in Dirs /\ (UserCd(d) \/ UserLs(d))) \/ UserGet(b)
  PROVE  Typed
  <1> d \in Paths
    BY PathsTyped
  <1>1. Type
    BY Zenon DEF UserOpen, UserReopen, UserUser, UserClose, UserCd, UserLs, UserGet
  <1>2. pc = "prompt" /\ FtpOK(ftp) /\ NoOp \in OpSet /\ FtpOK(Close(ftp)) /\ Piece(s2c)
    BY <1>1, OpForms, CloseForm, Pieces DEF Type, TypeInv, TypeOK, Good
  <1>3. Connected(ftp) \/ LoggedIn(ftp) => Good(ftp)
    BY <1>2 DEF Connected, LoggedIn, Good, Live
  <1>4. CASE UserOpen(d)
    <2> [NoOp EXCEPT !.name = "open", !.dir = d] \in OpSet
      BY <1>2, OpForms
    <2> QED
      BY <1>2, <1>4, Zenon DEF UserOpen, Typed, Dialled
  <1>5. CASE UserReopen
    <2> [NoOp EXCEPT !.name = "reopen"] \in OpSet
      BY <1>2, OpForms
    <2> QED
      BY <1>2, <1>5, Zenon DEF UserReopen, Typed, Dialled
  <1>6. CASE UserUser
    <2> DEFINE o == [NoOp EXCEPT !.name = "user"]
    <2>1. o \in OpSet
      BY <1>2, OpForms
    <2>2. Connected(ftp) /\ Send(ftp, s2c, o, Verb("USER"), "user")
      BY <1>6 DEF UserUser
    <2>3. Verb("USER") \in CmdSet /\ Verb("USER").v # "MKD" /\ "user" \in Frames
      BY VerbTyped DEF Verbs, Frames, Continuations
    <2> HIDE DEF o
    <2> QED
      BY <1>2, <1>3, <2>1, <2>2, <2>3, TypedSend
  <1>7. CASE UserClose
    <2> DEFINE o == [NoOp EXCEPT !.name = "close"]
    <2>1. o \in OpSet
      BY <1>2, OpForms
    <2>2. \/ Connected(ftp) /\ Send(ftp, s2c, o, Verb("QUIT"), "quit")
          \/ EndCmd(Close(ftp), s2c)
      BY <1>7, Zenon DEF UserClose
    <2>3. Verb("QUIT") \in CmdSet /\ Verb("QUIT").v # "MKD" /\ "quit" \in Frames
      BY VerbTyped DEF Verbs, Frames, Continuations
    <2> HIDE DEF o
    <2> QED
      BY <1>2, <1>3, <2>1, <2>2, <2>3, TypedSend, TypedEnd
  <1>8. CASE d \in Dirs /\ UserCd(d)
    <2> DEFINE o == [NoOp EXCEPT !.name = "cd"]
    <2>1. o \in OpSet
      BY <1>2, OpForms
    <2>2. LoggedIn(ftp) /\ Send(ftp, s2c, o, Cmd("CWD", d, 0), "cdCwd")
      BY <1>8 DEF UserCd
    <2>3. Cmd("CWD", d, 0) \in CmdSet /\ Cmd("CWD", d, 0).v # "MKD" /\ "cdCwd" \in Frames
      BY VerbTyped DEF Verbs, Frames, Continuations
    <2> HIDE DEF o
    <2> QED
      BY <1>2, <1>3, <2>1, <2>2, <2>3, TypedSend
  <1>9. CASE d \in Dirs /\ UserLs(d)
    <2> DEFINE h == d = ftp.curdir
               o == [NoOp EXCEPT !.name = "ls", !.dir = d, !.here = h]
    <2>1. o \in OpSet
      <3> h \in BOOLEAN
        BY Zenon
      <3> HIDE DEF h
      <3> QED
        BY <1>2, OpForms
    <2>2. /\ LoggedIn(ftp)
          /\ \/ EndCmd(ftp, s2c) \/ ListStart(ftp, s2c, o)
             \/ Send(ftp, s2c, o, Cmd("CWD", d, 0), "lsCwd")
      BY <1>9, Zenon DEF UserLs
    <2>3. Cmd("CWD", d, 0) \in CmdSet /\ Cmd("CWD", d, 0).v # "MKD" /\ "lsCwd" \in Frames
      BY VerbTyped DEF Verbs, Frames, Continuations
    <2> HIDE DEF o
    <2>4. ListStart(ftp, s2c, o) => Typed
      BY <1>2, <1>3, <2>1, <2>2, ListStartForm DEF Typed, Continued
    <2> QED
      BY <1>2, <1>3, <2>1, <2>2, <2>3, <2>4, TypedSend, TypedEnd
  <1>10. CASE UserGet(b)
    <2> DEFINE o == [NoOp EXCEPT !.name = "get", !.resume = b]
    <2>1. o \in OpSet
      BY <1>2, OpForms
    <2>2. LoggedIn(ftp) /\ (Send(ftp, s2c, o, Verb("PASV"), "getPasv") \/ EndCmd(ftp, s2c))
      BY <1>10, Zenon DEF UserGet
    <2>3. Verb("PASV") \in CmdSet /\ Verb("PASV").v # "MKD" /\ "getPasv" \in Frames
      BY VerbTyped DEF Verbs, Frames, Continuations
    <2> HIDE DEF o
    <2> QED
      BY <1>2, <1>3, <2>1, <2>2, <2>3, TypedSend, TypedEnd
  <1> QED
    BY <1>4, <1>5, <1>6, <1>7, <1>8, <1>9, <1>10

\* Signals: one more is counted, or back to the prompt.
Noted == sig' \in SigSet /\ UNCHANGED <<ftp, stack, pc, op, c2s, s2c, net>>

LEMMA AbortedBy ==
  ASSUME NEW f, FtpOK(f), NEW q, Piece(q), LongJmp(f, q)
  PROVE  Aborted
  BY Zenon DEF LongJmp, Aborted

LEMMA SignalForm ==
  ASSUME TypeInv, IntJmp \/ IntAbort \/ IntClose \/ Timeout
  PROVE  Aborted \/ Noted
  <1>0. /\ FtpOK(ftp) /\ FtpOK(Close(ftp)) /\ FtpOK([ftp EXCEPT !.ctrl = FALSE])
        /\ Piece(<<>>) /\ Piece(s2c)
        /\ \A n \in 0..Len(s2c) : Piece(SubSeq(s2c, n + 1, Len(s2c)))
    BY CloseForm, Pieces DEF TypeInv, Good, FtpOK, FtpSet
  <1>1. CASE IntJmp
    BY <1>0, <1>1, AbortedBy, Zenon DEF IntJmp
  <1>2. CASE IntAbort
    <2>1. CASE sig.n < 2
      <3>1. sig' = [sig EXCEPT !.n = @ + 1] /\ UNCHANGED <<ftp, stack, pc, op, c2s, s2c, net>>
        BY <1>2, <2>1, Zenon DEF IntAbort
      <3>2. sig' \in SigSet
        BY <2>1, <3>1 DEF TypeInv, TypeOK, SigSet
      <3> QED
        BY <3>1, <3>2 DEF Noted
    <2>2. CASE ~(sig.n < 2)
      <3>1. \/ \E n \in 0..Len(s2c) : LongJmp(ftp, SubSeq(s2c, n + 1, Len(s2c)))
            \/ LongJmp(Close(ftp), <<>>)
        BY <1>2, <2>2, Zenon DEF IntAbort
      <3> QED
        BY <1>0, <3>1, AbortedBy, Zenon
    <2> QED
      BY <2>1, <2>2
  <1>3. CASE IntClose
    <2>1. CASE sig.n < 3
      <3>1. /\ sig' = [sig EXCEPT !.n = @ + 1, !.alarm = FALSE]
            /\ UNCHANGED <<ftp, stack, pc, op, c2s, s2c, net>>
        BY <1>3, <2>1, Zenon DEF IntClose
      <3>2. sig' \in SigSet
        <4> DEFINE x == [sig EXCEPT !.n = @ + 1]
        <4>1. x \in SigSet
          BY <2>1 DEF TypeInv, TypeOK, SigSet
        <4>2. sig' = [x EXCEPT !.alarm = FALSE]
          BY <3>1, Zenon
        <4> HIDE DEF x
        <4> QED
          BY <4>1, <4>2 DEF SigSet
      <3> QED
        BY <3>1, <3>2 DEF Noted
    <2>2. CASE ~(sig.n < 3)
      <3>1. LongJmp(Close(ftp), <<>>)
        BY <1>3, <2>2, Zenon DEF IntClose
      <3> QED
        BY <1>0, <3>1, AbortedBy, Zenon
    <2> QED
      BY <2>1, <2>2
  <1>4. CASE Timeout
    BY <1>0, <1>4, AbortedBy, Zenon DEF Timeout
  <1> QED
    BY <1>1, <1>2, <1>3, <1>4

-----------------------------------------------------------------------------
(* The steps of the server.                                                *)

Quitting == 421
Answering == Codes \ {Quitting}
Executed ==
  /\ c2s # <<>> /\ Head(c2s).v = "MKD" /\ c2s' = Tail(c2s)
  /\ made' = [made EXCEPT ![Head(c2s).n] = IF @ < 2 THEN @ + 1 ELSE @]
  /\ s2c' # s2c
Served ==
  /\ srv.up /\ UNCHANGED <<client, gone, left>>
  /\ c2s' \in Seq(CmdSet) /\ srv' \in SrvSet /\ dconn' \in DconnSet /\ stale' \subseteq Dirs
  /\ \E a \in Seq(ReplySet) : s2c' = s2c \o a /\ \A i \in DOMAIN a : a[i].full # Quitting
  /\ c2s' = c2s \/ (c2s # <<>> /\ c2s' = Tail(c2s))
  /\ made' = made \/ Executed

LEMMA ExecutesForm ==
  ASSUME TypeInv, NEW v, Executes(v)
  PROVE  /\ srv.up /\ c2s # <<>> /\ Head(c2s) \in CmdSet /\ Head(c2s).v = v
         /\ c2s' = Tail(c2s) /\ c2s' \in Seq(CmdSet) /\ UNCHANGED <<client, gone, left>>
  <1> /\ srv.up /\ c2s # <<>> /\ Head(c2s).v = v
      /\ c2s' = Tail(c2s) /\ UNCHANGED <<client, gone, left>>
    BY Zenon DEF Executes, Next1
  <1> c2s \in Seq(CmdSet)
    BY DEF TypeInv, TypeOK
  <1> QED
    OBVIOUS

LEMMA AnswerForm ==
  ASSUME TypeInv, c2s # <<>>, NEW full \in Answering, NEW dir \in Paths, Answer(full, dir)
  PROVE  /\ \E a \in Seq(ReplySet) : s2c' = s2c \o a /\ \A i \in DOMAIN a : a[i].full # Quitting
         /\ s2c' # s2c
  <1> DEFINE r == Reply(full, Next1.v, dir)
  <1> Head(c2s) \in CmdSet /\ s2c \in Seq(ReplySet)
    BY DEF TypeInv, TypeOK
  <1>1. r \in ReplySet /\ r.full # Quitting
    BY DEF Reply, ReplySet, Next1, CmdSet, Answering
  <1>2. s2c' = Append(s2c, r)
    BY Zenon DEF Answer
  <1> HIDE DEF r
  <1>3. s2c' = s2c \o <<r>> /\ <<r>> \in Seq(ReplySet)
    BY <1>1, <1>2
  <1>4. \A i \in DOMAIN <<r>> : <<r>>[i].full # Quitting
    BY <1>1
  <1>5. s2c' # s2c
    BY <1>2
  <1> QED
    BY <1>3, <1>4, <1>5, Zenon

LEMMA SayForm ==
  ASSUME TypeInv, NEW v, Executes(v), NEW full \in Answering, NEW s \in SrvSet,
         Say(full, s)
  PROVE  Served
  <1>1. Answer(full, NoDir) /\ UNCHANGED <<dconn, stale, made>>
    BY Zenon DEF Say
  <1>2. srv' \in SrvSet
    <2> DEFINE b == s.rest /\ Next1.v = "REST"
    <2>1. srv' = [s EXCEPT !.rest = b] /\ b \in BOOLEAN
      BY Zenon DEF Say
    <2> HIDE DEF b
    <2> QED
      BY <2>1 DEF SrvSet
  <1>3. dconn' \in DconnSet /\ stale' \subseteq Dirs
    BY <1>1 DEF TypeInv, TypeOK
  <1> QED
    BY <1>1, <1>2, <1>3, ExecutesForm, AnswerForm, PathsTyped, Zenon DEF Served

LEMMA TransferForm ==
  ASSUME TypeInv, NEW v, Executes(v), NEW kind \in {"list", "retr"}, Transfer(kind)
  PROVE  Served
  <1> srv \in SrvSet /\ dconn \in DconnSet /\ stale \subseteq Dirs
    BY DEF TypeInv, TypeOK
  <1>1. /\ Answer(150, NoDir) /\ UNCHANGED made
        /\ srv' = [srv EXCEPT !.data = FALSE, !.xfer = TRUE, !.rest = FALSE]
        /\ dconn' = [kind |-> kind, of |-> srv.cwd, type |-> srv.type,
                     rest |-> srv.rest, eof |-> FALSE, whole |-> FALSE]
        /\ stale' = IF kind = "list" THEN stale \ {srv.cwd} ELSE stale
    BY Zenon DEF Transfer
  <1>2. srv' \in SrvSet
    BY <1>1 DEF SrvSet
  <1>3. dconn' \in DconnSet
    BY <1>1, PathsTyped DEF SrvSet, DconnSet
  <1>4. stale' \subseteq Dirs
    BY <1>1
  <1>5. 150 \in Answering
    BY DEF Answering, Codes, Quitting
  <1> QED
    BY <1>1, <1>2, <1>3, <1>4, <1>5, ExecutesForm, AnswerForm, PathsTyped, Zenon DEF Served

LEMMA SessionForms ==
  ASSUME TypeInv
  PROVE  /\ srv \in SrvSet /\ Down \in SrvSet /\ NewSession \in SrvSet
         /\ [srv EXCEPT !.auth = FALSE] \in SrvSet
         /\ [srv EXCEPT !.auth = TRUE, !.cwd = Home] \in SrvSet
         /\ [srv EXCEPT !.rest = FALSE] \in SrvSet /\ [srv EXCEPT !.rest = TRUE] \in SrvSet
         /\ \A d \in Dirs : [srv EXCEPT !.cwd = d, !.rest = FALSE] \in SrvSet
         /\ [srv EXCEPT !.data = TRUE] \in SrvSet /\ [srv EXCEPT !.type = "I"] \in SrvSet
         /\ [srv EXCEPT !.xfer = FALSE, !.data = FALSE] \in SrvSet
         /\ [srv EXCEPT !.xfer = FALSE] \in SrvSet
  BY PathsTyped DEF TypeInv, TypeOK, SrvSet, Down, NewSession

LEMMA SrvMkdForm ==
  ASSUME TypeInv, SrvMkd
  PROVE  Served
  <1>1. Executes("MKD")
    BY DEF SrvMkd, Serves
  <1>2. CASE Say(550, srv)
    <2> 550 \in Answering
      BY DEF Answering, Codes, Quitting
    <2> QED
      BY <1>1, <1>2, SayForm, SessionForms
  <1>3. CASE ~Say(550, srv)
    <2>1. /\ Answer(257, BadDir) /\ srv' = [srv EXCEPT !.rest = FALSE]
          /\ made' = [made EXCEPT ![Next1.n] = IF @ < 2 THEN @ + 1 ELSE @]
          /\ stale' = stale \cup {srv.cwd} /\ UNCHANGED dconn
      BY <1>3, Zenon DEF SrvMkd
    <2>2. 257 \in Answering
      BY DEF Answering, Codes, Quitting
    <2>3. srv' \in SrvSet /\ srv.cwd \in Dirs
      BY <2>1, SessionForms DEF SrvSet
    <2>4. dconn' \in DconnSet /\ stale' \subseteq Dirs
      BY <2>1, <2>3 DEF TypeInv, TypeOK
    <2>5. Executed
      BY <1>1, <2>1, <2>2, ExecutesForm, AnswerForm, PathsTyped, Zenon DEF Executed, Next1
    <2> QED
      BY <1>1, <2>1, <2>2, <2>3, <2>4, <2>5, ExecutesForm, AnswerForm, PathsTyped, Zenon DEF Served
  <1> QED
    BY <1>2, <1>3

LEMMA SrvAborForm ==
  ASSUME TypeInv, SrvAbor
  PROVE  Served
  <1> DEFINE a == (IF srv.xfer THEN <<Reply(426, dconn.kind, NoDir)>> ELSE <<>>)
                  \o <<Reply(226, "ABOR", NoDir)>>
  <1>0. /\ Executes("ABOR") /\ UNCHANGED <<stale, made>>
        /\ srv' = [srv EXCEPT !.xfer = FALSE, !.data = FALSE]
        /\ dconn' = [dconn EXCEPT !.eof = TRUE]
        /\ s2c' = s2c \o (IF srv.xfer THEN <<Reply(426, dconn.kind, NoDir)>> ELSE <<>>)
                      \o <<Reply(226, "ABOR", NoDir)>>
    BY Zenon DEF SrvAbor
  <1>1. Reply(426, dconn.kind, NoDir) \in ReplySet /\ Reply(226, "ABOR", NoDir) \in ReplySet
    BY PathsTyped DEF TypeInv, TypeOK, DconnSet, Reply, ReplySet, Codes, Verbs
  <1>2. Reply(426, dconn.kind, NoDir).full = 426 /\ Reply(226, "ABOR", NoDir).full = 226
    BY DEF Reply
  <1>3. a \in Seq(ReplySet) /\ \A i \in DOMAIN a : a[i].full \in {426, 226}
    BY <1>1, <1>2
  <1>4. s2c' = s2c \o a
    <2> s2c \in Seq(ReplySet)
      BY DEF TypeInv, TypeOK
    <2> DEFINE x == IF srv.xfer THEN <<Reply(426, dconn.kind, NoDir)>> ELSE <<>>
               y == <<Reply(226, "ABOR", NoDir)>>
    <2>1. x \in Seq(ReplySet) /\ y \in Seq(ReplySet)
      BY <1>1
    <2>2. s2c' = s2c \o x \o y /\ a = x \o y
      BY <1>0
    <2> HIDE DEF a, x, y
    <2> QED
      BY <2>1, <2>2, ConcatAssociative
  <1> HIDE DEF a
  <1>5. \A i \in DOMAIN a : a[i].full # Quitting
    BY <1>3 DEF Quitting
  <1>6. srv' \in SrvSet
    BY <1>0, SessionForms
  <1>7. dconn' \in DconnSet /\ stale' \subseteq Dirs
    BY <1>0 DEF TypeInv, TypeOK, DconnSet
  <1>8. Executes("ABOR") /\ made' = made /\ a \in Seq(ReplySet)
    BY <1>0, <1>3
  <1> QED
    BY <1>4, <1>5, <1>6, <1>7, <1>8, ExecutesForm, Zenon DEF Served

LEMMA XferForm ==
  ASSUME TypeInv, XferEof \/ XferReply
  PROVE  Served
  <1> s2c \in Seq(ReplySet) /\ c2s \in Seq(CmdSet)
    BY DEF TypeInv, TypeOK
  <1>1. CASE XferEof
    <2>1. /\ srv.up /\ UNCHANGED <<client, c2s, s2c, srv, stale, made, gone, left>>
          /\ \E ok \in BOOLEAN : dconn' = [dconn EXCEPT !.eof = TRUE, !.whole = ok]
      BY <1>1, Zenon DEF XferEof
    <2>2. s2c' = s2c \o <<>> /\ <<>> \in Seq(ReplySet) /\ DOMAIN <<>> = {}
      BY <2>1
    <2>3. dconn' \in DconnSet /\ stale' \subseteq Dirs /\ srv' \in SrvSet
      BY <2>1 DEF TypeInv, TypeOK, DconnSet
    <2> QED
      BY <2>1, <2>2, <2>3, Zenon DEF Served
  <1>2. CASE XferReply
    <2> DEFINE r == Reply(IF dconn.whole THEN 226 ELSE 451, dconn.kind, NoDir)
    <2>1. /\ srv.up /\ UNCHANGED <<client, c2s, dconn, stale, made, gone, left>>
          /\ s2c' = Append(s2c, r) /\ srv' = [srv EXCEPT !.xfer = FALSE]
      BY <1>2, Zenon DEF XferReply
    <2>2. r \in ReplySet /\ r.full # Quitting
      BY PathsTyped DEF TypeInv, TypeOK, DconnSet, Reply, ReplySet, Codes, Quitting
    <2> HIDE DEF r
    <2>3. s2c' = s2c \o <<r>> /\ <<r>> \in Seq(ReplySet) /\ \A i \in DOMAIN <<r>> : <<r>>[i].full # Quitting
      BY <2>1, <2>2
    <2>4. dconn' \in DconnSet /\ stale' \subseteq Dirs /\ srv' \in SrvSet
      BY <2>1, SessionForms DEF TypeInv, TypeOK
    <2> QED
      BY <2>1, <2>3, <2>4, Zenon DEF Served
  <1> QED
    BY <1>1, <1>2

LEMMA ServerForm ==
  ASSUME TypeInv, ServerStep
  PROVE  Served
  <1>0. /\ 331 \in Answering /\ 530 \in Answering /\ 230 \in Answering /\ 550 \in Answering
        /\ 227 \in Answering /\ 200 \in Answering /\ 350 \in Answering /\ 500 \in Answering
        /\ 425 \in Answering /\ 221 \in Answering /\ 257 \in Answering /\ 250 \in Answering
    BY DEF Answering, Codes, Quitting
  <1> srv.cwd \in Paths
    BY PathsTyped DEF TypeInv, TypeOK, SrvSet
  <1>1. CASE SrvUser \/ SrvPass
    BY <1>0, <1>1, SayForm, SessionForms DEF SrvUser, SrvPass
  <1>2. CASE SrvDenies
    BY <1>0, <1>2, SayForm, SessionForms DEF SrvDenies
  <1>3. CASE SrvPwd
    <2>1. /\ Executes("PWD") /\ Answer(257, srv.cwd) /\ srv' = [srv EXCEPT !.rest = FALSE]
          /\ UNCHANGED <<dconn, stale, made>>
      BY <1>3 DEF SrvPwd, Serves
    <2>2. srv' \in SrvSet /\ dconn' \in DconnSet /\ stale' \subseteq Dirs
      BY <2>1, SessionForms DEF TypeInv, TypeOK
    <2> QED
      <3>1. /\ Executes("PWD") /\ made' = made
        BY <2>1
      <3>2. c2s # <<>>
        BY <3>1, ExecutesForm
      <3>3. \E a \in Seq(ReplySet) : s2c' = s2c \o a /\ \A i \in DOMAIN a : a[i].full # Quitting
        BY <1>0, <2>1, <3>2, AnswerForm
      <3> QED
        BY <2>2, <3>1, <3>3, ExecutesForm, Zenon DEF Served
  <1>4. CASE SrvCwd
    <2>1. CASE Say(550, srv)
      <3>1. Executes("CWD")
        BY <1>4, Zenon DEF SrvCwd, Serves
      <3>2. \E full \in Answering : Say(full, srv)
        BY <1>0, <2>1
      <3> QED
        BY <3>1, <3>2, SayForm, SessionForms, Zenon
    <2>2. CASE ~Say(550, srv)
      <3>1. /\ Executes("CWD") /\ Next1.a \in Dirs /\ Answer(250, Next1.a)
            /\ srv' = [srv EXCEPT !.cwd = Next1.a, !.rest = FALSE]
            /\ UNCHANGED <<dconn, stale, made>>
        BY <1>4, <2>2 DEF SrvCwd, Serves
      <3>2. srv' \in SrvSet /\ dconn' \in DconnSet /\ stale' \subseteq Dirs /\ Next1.a \in Paths
        BY <3>1, SessionForms, PathsTyped DEF TypeInv, TypeOK
      <3> QED
        <4>1. /\ Executes("CWD") /\ made' = made
          BY <3>1
        <4>2. c2s # <<>>
          BY <4>1, ExecutesForm
        <4>3. \E a \in Seq(ReplySet) : s2c' = s2c \o a /\ \A i \in DOMAIN a : a[i].full # Quitting
          BY <1>0, <3>1, <3>2, <4>2, AnswerForm
        <4> QED
          BY <3>2, <4>1, <4>3, ExecutesForm, Zenon DEF Served
    <2> QED
      BY <2>1, <2>2
  <1>5. CASE SrvPasv \/ SrvType \/ SrvRest
    <2>1. \E v \in Verbs : Executes(v) /\
             \/ Say(227, [srv EXCEPT !.data = TRUE]) \/ Say(200, [srv EXCEPT !.type = "I"])
             \/ Say(350, [srv EXCEPT !.rest = TRUE])
      BY <1>5, Zenon DEF SrvPasv, SrvType, SrvRest, Serves, Verbs
    <2> QED
      BY <1>0, <2>1, SayForm, SessionForms, Zenon
  <1>6. CASE SrvList
    <2>1. PICK v \in {"MLSD", "LIST"} : Executes(v)
      BY <1>6 DEF SrvList, Serves
    <2>2. Say(500, srv) \/ Say(425, srv) \/ Say(550, srv) \/ Transfer("list")
      BY <1>6 DEF SrvList
    <2>3. CASE Say(500, srv) \/ Say(425, srv) \/ Say(550, srv)
      <3>1. \E full \in Answering : Say(full, srv)
        BY <1>0, <2>3
      <3> QED
        BY <2>1, <3>1, SayForm, SessionForms, Zenon
    <2>4. CASE Transfer("list")
      BY <2>1, <2>4, TransferForm
    <2> QED
      BY <2>2, <2>3, <2>4
  <1>7. CASE SrvRetr
    <2>1. Executes("RETR")
      BY <1>7 DEF SrvRetr, Serves
    <2>2. Say(425, srv) \/ Say(550, srv) \/ Transfer("retr")
      BY <1>7 DEF SrvRetr
    <2>3. CASE Say(425, srv) \/ Say(550, srv)
      <3>1. \E full \in Answering : Say(full, srv)
        BY <1>0, <2>3
      <3> QED
        BY <2>1, <3>1, SayForm, SessionForms, Zenon
    <2>4. CASE Transfer("retr")
      BY <2>1, <2>4, TransferForm
    <2> QED
      BY <2>2, <2>3, <2>4
  <1>8. CASE SrvQuit
    <2>1. Executes("QUIT") /\ Say(221, Down)
      BY <1>8 DEF SrvQuit
    <2>2. 221 \in Answering
      BY <1>0
    <2> QED
      BY <2>1, <2>2, SayForm, SessionForms
  <1> QED
    BY <1>1, <1>2, <1>3, <1>4, <1>5, <1>6, <1>7, <1>8, SrvMkdForm, SrvAborForm, XferForm, Zenon
       DEF ServerStep

-----------------------------------------------------------------------------
(* The types are kept, and the clock of commands typed.                    *)

LEMMA BudgetForm ==
  ASSUME TypeInv, NEW field \in {"drops", "ints", "jmps"}, left[field] > 0,
         left' = [left EXCEPT ![field] = @ - 1]
  PROVE  left' \in LeftSet /\ left'.ops = left.ops
  <1> left \in LeftSet
    BY DEF TypeInv, TypeOK
  <1>1. CASE field = "drops"
    BY <1>1, SessionAssumption DEF LeftSet
  <1>2. CASE field = "ints"
    BY <1>2, SessionAssumption DEF LeftSet
  <1>3. CASE field = "jmps"
    BY <1>3, SessionAssumption DEF LeftSet
  <1> QED
    BY <1>1, <1>2, <1>3

LEMMA TypeForm ==
  ASSUME TypeInv, Type
  PROVE  /\ left' \in LeftSet /\ left.ops \in 1..MaxOps /\ left'.ops = left.ops - 1
         /\ stack = <<>> /\ pc = "prompt" /\ got' \subseteq GotSet
  <1>1. stack = <<>> /\ pc = "prompt" /\ got' \subseteq GotSet
    BY Zenon DEF TypeInv, TypeOK, Type
  <1>2. /\ left.ops > 0 /\ left' = [left EXCEPT !.ops = left.ops - 1]
        /\ left \in LeftSet
    BY Zenon DEF TypeInv, TypeOK, Type
  <1>3. left' \in LeftSet /\ left.ops \in 1..MaxOps /\ left'.ops = left.ops - 1
    BY <1>2, SessionAssumption DEF LeftSet
  <1> QED
    BY <1>1, <1>3

LEMMA ContinuedTyped ==
  ASSUME TypeInv, Continued, got' \subseteq GotSet, left' \in LeftSet
  PROVE  TypeInv'
  BY LeaveTyped, Zenon DEF Continued, Piece

LEMMA AbortedTyped ==
  ASSUME TypeInv, Aborted, got' \subseteq GotSet, left' \in LeftSet
  PROVE  TypeInv'
  BY PromptTyped, Zenon DEF Aborted, Piece

LEMMA AwaitsTyped ==
  ASSUME TypeInv, Awaits, got' \subseteq GotSet, left' \in LeftSet
  PROVE  TypeInv'
  BY BlockTyped, Zenon DEF Awaits, Piece, Good

LEMMA RedoneTyped ==
  ASSUME TypeInv, Redone, got' \subseteq GotSet, left' \in LeftSet
  PROVE  TypeInv'
  <1> stack \in Seq(Fitting) /\ stack # <<>> /\ <<>> \in Seq(ReplySet)
    BY DEF TypeInv, Redone
  <1> QED
    BY ResendTyped, Zenon DEF Redone, Good

LEMMA GreetingTyped ==
  ASSUME TypeInv, Greeting, got' \subseteq GotSet, left' \in LeftSet
  PROVE  TypeInv'
  <1>1. PICK f : \E q : Good(f) /\ Piece(q) /\ Issue(f, q, op, Verb("USER"), "user", stack)
    BY Zenon DEF Greeting
  <1>2. PICK q : Good(f) /\ Piece(q) /\ Issue(f, q, op, Verb("USER"), "user", stack)
    BY <1>1
  <1>3. op \in OpSet /\ stack \in Seq(Fitting) /\ q \in Seq(ReplySet)
    BY <1>2 DEF TypeInv, TypeOK, Piece
  <1>4. Verb("USER") \in CmdSet /\ Verb("USER").v = "USER" /\ "user" \in Continuations
    BY VerbTyped DEF Verbs, Continuations
  <1>5. Fits(Verb("USER").v, "user")
    BY <1>4 DEF Fits
  <1> QED
    BY <1>2, <1>3, <1>4, <1>5, IssueTyped DEF Good

LEMMA DialledTyped ==
  ASSUME TypeInv, Dialled, got' \subseteq GotSet, left' \in LeftSet
  PROVE  TypeInv'
  <1>1. PICK f : \E o : FtpOK(f) /\ o \in OpSet /\ Dial(f, o)
    BY Zenon DEF Dialled
  <1>2. PICK o \in OpSet : FtpOK(f) /\ Dial(f, o)
    BY <1>1
  <1>3. /\ ftp' = f /\ op' = o /\ stack' = <<>> /\ pc' = "connect" /\ sig' = PromptSig
        /\ Network(f, s2c, c2s)
    BY <1>2, Zenon DEF Dial
  <1> c2s \in Seq(CmdSet) /\ s2c \in Seq(ReplySet) /\ f.ctrl \in BOOLEAN
    BY <1>2 DEF TypeInv, TypeOK, FtpOK, FtpSet
  <1>4. /\ s2c' \in Seq(ReplySet) /\ c2s' \in Seq(CmdSet) /\ srv' \in SrvSet
        /\ UNCHANGED <<dconn, stale, made, gone>>
    BY <1>3, NetworkForm
  <1>5. /\ dconn' \in DconnSet /\ stale' \subseteq Dirs /\ made' \in [Serials -> 0..2]
        /\ gone' \subseteq Dirs
    BY <1>4 DEF TypeInv, TypeOK
  <1>6. /\ stack' \in Seq(Fitting) /\ op' \in OpSet /\ sig' \in SigSet /\ pc' \in Points
        /\ pc' # "cmd" /\ pc' # "prompt" /\ pc' \in Opening
    BY <1>2, <1>3, SigsTyped DEF Points, Opening
  <1>7. ftp' \in FtpSet /\ ftp'.url = ftp'.connected
    BY <1>2, <1>3 DEF FtpOK
  <1> QED
    BY <1>4, <1>5, <1>6, <1>7, TypeParts, Zenon

LEMMA MkdirTyped ==
  ASSUME TypeInv, UserMkdir
  PROVE  TypeInv'
  <1> DEFINE o == [NoOp EXCEPT !.name = "mkdir", !.dir = ftp.curdir]
             cmd == Cmd("MKD", ftp.curdir, MaxOps - left.ops + 1)
  <1>1. Type /\ LoggedIn(ftp) /\ Send(ftp, s2c, o, cmd, "mkd")
    BY Zenon DEF UserMkdir
  <1>2. /\ left' \in LeftSet /\ left.ops \in 1..MaxOps /\ stack = <<>> /\ got' \subseteq GotSet
    BY <1>1, TypeForm
  <1>3. ftp.curdir \in Paths /\ Good(ftp) /\ s2c \in Seq(ReplySet)
    BY <1>1 DEF TypeInv, TypeOK, FtpSet, LoggedIn, Good, Live
  <1>4. o \in OpSet
    <2> op \in OpSet
      BY DEF TypeInv, TypeOK
    <2> QED
      BY <1>3, OpForms
  <1>5. cmd \in CmdSet /\ cmd.v = "MKD"
    BY <1>2, <1>3, SessionAssumption DEF Cmd, CmdSet, Verbs
  <1>6. Issue(ftp, s2c, o, cmd, "mkd", <<>>)
    BY <1>1, <1>2, Zenon DEF Send
  <1>7. "mkd" \in Continuations /\ Fits(cmd.v, "mkd") /\ <<>> \in Seq(Fitting)
    BY <1>5 DEF Continuations, Fits
  <1> HIDE DEF o, cmd
  <1> QED
    BY <1>2, <1>3, <1>4, <1>5, <1>6, <1>7, IssueTyped DEF Good

LEMMA ReconnectingTyped ==
  ASSUME TypeInv, Reconnecting, got' \subseteq GotSet, left' \in LeftSet
  PROVE  TypeInv'
  <1> DEFINE f == [ftp EXCEPT !.full = Head(s2c).full]
             q == Tail(s2c)
  <1>1. /\ s2c # <<>> /\ ftp' = f /\ stack' = [stack EXCEPT ![1].recon = TRUE] /\ pc = "cmd"
        /\ pc' = "connect" /\ sig' = CloseSig /\ Network(f, q, c2s) /\ UNCHANGED op
    BY Zenon DEF Reconnecting
  <1>2. q \in Seq(ReplySet) /\ Head(s2c).full \in Codes
    BY <1>1, Pieces DEF Piece, ReplySet
  <1>3. FtpOK(f) /\ f.ctrl \in BOOLEAN
    <2> Good(f)
      BY <1>1, <1>2, CmdGood DEF Opening
    <2> QED
      BY DEF Good, FtpOK, FtpSet
  <1> HIDE DEF f, q
  <1> c2s \in Seq(CmdSet)
    BY DEF TypeInv, TypeOK
  <1>4. /\ s2c' \in Seq(ReplySet) /\ c2s' \in Seq(CmdSet) /\ srv' \in SrvSet
        /\ UNCHANGED <<dconn, stale, made, gone>>
    BY <1>1, <1>2, <1>3, NetworkForm
  <1>5. stack' \in Seq(Fitting)
    <2> stack \in Seq(Fitting) /\ stack # <<>>
      BY <1>1 DEF TypeInv
    <2>1. \A fr \in Fitting : [fr EXCEPT !.recon = TRUE] \in Fitting
      BY DEF Fitting, FrameSet
    <2> QED
      BY <1>1, <2>1
  <1>6. /\ dconn' \in DconnSet /\ stale' \subseteq Dirs /\ made' \in [Serials -> 0..2]
        /\ gone' \subseteq Dirs /\ op' \in OpSet
    BY <1>1, <1>4 DEF TypeInv, TypeOK
  <1>7. sig' \in SigSet /\ pc' \in Points /\ pc' # "cmd" /\ pc' # "prompt" /\ pc' \in Opening
    BY <1>1, SigsTyped DEF Points, Opening
  <1>8. ftp' \in FtpSet /\ ftp'.url = ftp'.connected
    BY <1>1, <1>3 DEF FtpOK
  <1> QED
    BY <1>4, <1>5, <1>6, <1>7, <1>8, TypeParts, Zenon

LEMMA ConnectOkTyped ==
  ASSUME TypeInv, ConnectOk
  PROVE  TypeInv'
  <1>1. /\ c2s' = <<>> /\ ftp' = [ftp EXCEPT !.ctrl = TRUE, !.type = "?"] /\ pc' = "welcome"
        /\ sig' = [sig EXCEPT !.alarm = TRUE]
        /\ UNCHANGED <<stack, op, dconn, stale, made, got, gone, left>>
    BY DEF ConnectOk
  <1>2. s2c' \in Seq(ReplySet) /\ srv' \in SrvSet
    <2>1. \/ srv' = NewSession /\ s2c' = <<Reply(220, "banner", NoDir)>>
          \/ srv' = Down /\ s2c' = <<Reply(421, "421", NoDir)>>
      BY DEF ConnectOk
    <2> DEFINE a == Reply(220, "banner", NoDir)
               b == Reply(421, "421", NoDir)
    <2>2. a \in ReplySet /\ b \in ReplySet
      BY PathsTyped DEF Reply, ReplySet, Codes
    <2>3. (srv' = NewSession \/ srv' = Down) /\ (s2c' = <<a>> \/ s2c' = <<b>>)
      BY <2>1
    <2> HIDE DEF a, b
    <2>4. s2c' \in Seq(ReplySet)
      <3> <<a>> \in Seq(ReplySet) /\ <<b>> \in Seq(ReplySet)
        BY <2>2
      <3> QED
        BY <2>3, Zenon
    <2>5. srv' \in SrvSet
      BY <2>3, SessionForms, Zenon
    <2> QED
      BY <2>4, <2>5
  <1>3. ftp' \in FtpSet /\ ftp'.url = ftp'.connected
    BY <1>1 DEF TypeInv, TypeOK, FtpOK, FtpSet
  <1>4. sig' \in SigSet
    BY <1>1 DEF TypeInv, TypeOK, SigSet
  <1>5. pc' \in Points /\ pc' # "cmd" /\ pc' # "prompt" /\ pc' \in Opening
    BY <1>1 DEF Points, Opening
  <1>6. /\ stack' \in Seq(Fitting) /\ op' \in OpSet /\ dconn' \in DconnSet /\ stale' \subseteq Dirs
        /\ made' \in [Serials -> 0..2] /\ got' \subseteq GotSet /\ gone' \subseteq Dirs
        /\ left' \in LeftSet /\ c2s' \in Seq(CmdSet)
    BY <1>1 DEF TypeInv, TypeOK
  <1> QED
    BY <1>2, <1>3, <1>4, <1>5, <1>6, TypeParts, Zenon

LEMMA SendAborTyped ==
  ASSUME TypeInv, SendAbor
  PROVE  TypeInv'
  <1> DEFINE out == Append(c2s, Verb("ABOR"))
  <1>1. /\ pc = "data" /\ ftp' = ftp /\ op' = [op EXCEPT !.abor = TRUE] /\ pc' = "drain"
        /\ sig' = [CloseSig EXCEPT !.alarm = FALSE] /\ Network(ftp, s2c, out)
        /\ UNCHANGED <<stack, got, left>>
    BY DEF SendAbor
  <1>2. out \in Seq(CmdSet)
    <2> Verb("ABOR") \in CmdSet
      BY VerbTyped DEF Verbs
    <2> QED
      BY DEF TypeInv, TypeOK
  <1> HIDE DEF out
  <1> s2c \in Seq(ReplySet) /\ ftp.ctrl \in BOOLEAN
    BY DEF TypeInv, TypeOK, FtpSet
  <1>3. /\ s2c' \in Seq(ReplySet) /\ c2s' \in Seq(CmdSet) /\ srv' \in SrvSet
        /\ UNCHANGED <<dconn, stale, made, gone>>
    BY <1>1, <1>2, NetworkForm
  <1>4. /\ stack' \in Seq(Fitting) /\ dconn' \in DconnSet /\ stale' \subseteq Dirs
        /\ made' \in [Serials -> 0..2] /\ got' \subseteq GotSet /\ gone' \subseteq Dirs
        /\ left' \in LeftSet
    BY <1>1, <1>3 DEF TypeInv, TypeOK
  <1>5. op' \in OpSet
    BY <1>1, OpForms DEF TypeInv, TypeOK
  <1>6. sig' \in SigSet /\ pc' \in Points /\ pc' # "cmd" /\ pc' # "prompt"
    BY <1>1, SigsTyped DEF Points
  <1>7. ftp' \in FtpSet /\ ftp'.url = ftp'.connected /\ Live(ftp')
    BY <1>1 DEF TypeInv, FtpOK, Opening
  <1> QED
    BY <1>3, <1>4, <1>5, <1>6, <1>7, TypeParts, Zenon

\* The client stands still.
LEMMA StillTyped ==
  ASSUME TypeInv, UNCHANGED <<ftp, stack, pc, op>>, sig' \in SigSet, c2s' \in Seq(CmdSet),
         s2c' \in Seq(ReplySet), srv' \in SrvSet, dconn' \in DconnSet, stale' \subseteq Dirs,
         made' \in [Serials -> 0..2], got' \subseteq GotSet, gone' \subseteq Dirs, left' \in LeftSet
  PROVE  TypeInv'
  <1>1. /\ ftp' \in FtpSet /\ ftp'.url = ftp'.connected /\ stack' \in Seq(Fitting)
        /\ pc' \in Points /\ op' \in OpSet
        /\ (pc' = "cmd" => stack' # <<>>) /\ (pc' = "prompt" => stack' = <<>>)
    BY DEF TypeInv, TypeOK, FtpOK
  <1>2. pc' \notin Opening => Live(ftp')
    BY DEF TypeInv
  <1> QED
    BY <1>1, <1>2, TypeParts, Zenon

LEMMA NotedTyped ==
  ASSUME TypeInv, Noted, got' \subseteq GotSet, left' \in LeftSet
  PROVE  TypeInv'
  BY StillTyped DEF Noted, net, TypeInv, TypeOK

LEMMA ServedTyped ==
  ASSUME TypeInv, Served
  PROVE  TypeInv'
  <1>1. /\ UNCHANGED <<ftp, stack, pc, op, sig, got, gone, left>>
        /\ c2s' \in Seq(CmdSet) /\ srv' \in SrvSet /\ dconn' \in DconnSet /\ stale' \subseteq Dirs
    BY DEF Served, client
  <1>2. s2c' \in Seq(ReplySet)
    <2>1. PICK a \in Seq(ReplySet) : s2c' = s2c \o a
      BY DEF Served
    <2> QED
      BY <2>1 DEF TypeInv, TypeOK
  <1>3. made' \in [Serials -> 0..2]
    <2> made \in [Serials -> 0..2]
      BY DEF TypeInv, TypeOK
    <2>1. CASE made' = made
      BY <2>1
    <2>2. CASE made' = [made EXCEPT ![Head(c2s).n] = IF @ < 2 THEN @ + 1 ELSE @]
      <3> DEFINE n == Head(c2s).n
      <3>1. made' = [made EXCEPT ![n] = IF @ < 2 THEN @ + 1 ELSE @]
        BY <2>2
      <3> HIDE DEF n
      <3>2. CASE n \in Serials
        <4> made[n] \in 0..2 /\ (IF made[n] < 2 THEN made[n] + 1 ELSE made[n]) \in 0..2
          BY <3>2
        <4> QED
          BY <3>1, <3>2
      <3>3. CASE n \notin Serials
        BY <3>1, <3>3
      <3> QED
        BY <3>2, <3>3
    <2> QED
      BY <2>1, <2>2 DEF Served, Executed
  <1>4. sig' \in SigSet /\ got' \subseteq GotSet /\ gone' \subseteq Dirs /\ left' \in LeftSet
    BY <1>1 DEF TypeInv, TypeOK
  <1> QED
    BY <1>1, <1>2, <1>3, <1>4, StillTyped, Zenon

LEMMA DropForm ==
  ASSUME TypeInv, SrvDrop
  PROVE  /\ srv.up /\ srv' = Down /\ c2s' = <<>> /\ UNCHANGED <<ftp, stack, pc, op, sig, made>>
         /\ left'.ops = left.ops
         /\ \/ s2c' = Append(s2c, Reply(421, "421", NoDir))
            \/ \E n \in 0..Len(s2c) : s2c' = SubSeq(s2c, 1, n)
         /\ TypeInv'
  <1>1. /\ srv.up /\ left.drops > 0 /\ left' = [left EXCEPT !.drops = @ - 1]
        /\ srv' = Down /\ c2s' = <<>> /\ dconn' = [dconn EXCEPT !.eof = TRUE]
        /\ UNCHANGED <<ftp, stack, pc, op, sig, got, stale, made, gone>>
        /\ \/ s2c' = Append(s2c, Reply(421, "421", NoDir))
           \/ \E n \in 0..Len(s2c) : s2c' = SubSeq(s2c, 1, n)
    BY DEF SrvDrop, client
  <1>2. left' \in LeftSet /\ left'.ops = left.ops
    BY <1>1, BudgetForm
  <1>3. s2c' \in Seq(ReplySet)
    <2>1. Reply(421, "421", NoDir) \in ReplySet
      BY PathsTyped DEF Reply, ReplySet, Codes
    <2>2. \A n \in 0..Len(s2c) : SubSeq(s2c, 1, n) \in Seq(ReplySet)
      BY Pieces DEF Piece
    <2>3. CASE s2c' = Append(s2c, Reply(421, "421", NoDir))
      BY <2>1, <2>3 DEF TypeInv, TypeOK
    <2>4. CASE \E n \in 0..Len(s2c) : s2c' = SubSeq(s2c, 1, n)
      BY <2>2, <2>4
    <2> QED
      BY <1>1, <2>3, <2>4
  <1>4. srv' \in SrvSet /\ c2s' \in Seq(CmdSet)
    <2>1. srv' = Down /\ c2s' = <<>>
      BY <1>1
    <2>2. srv' \in SrvSet
      BY <2>1, SessionForms, Zenon
    <2> QED
      BY <2>1, <2>2
  <1>5. /\ dconn' \in DconnSet /\ sig' \in SigSet /\ stale' \subseteq Dirs
        /\ made' \in [Serials -> 0..2] /\ got' \subseteq GotSet /\ gone' \subseteq Dirs
    BY <1>1 DEF TypeInv, TypeOK, DconnSet
  <1>6. TypeInv'
    BY <1>1, <1>2, <1>3, <1>4, <1>5, StillTyped
  <1> QED
    BY <1>1, <1>2, <1>6

LEMMA RemoveTyped ==
  ASSUME TypeInv, NEW d \in Dirs, RemoveDir(d)
  PROVE  TypeInv'
  <1>1. gone' = gone \cup {d} /\ UNCHANGED <<ftp, stack, pc, op, sig, got, c2s, s2c, srv, dconn,
                                             stale, made, left>>
    BY DEF RemoveDir, client
  <1> QED
    BY <1>1, StillTyped DEF TypeInv, TypeOK

\* What the commands typed so far and the signals do to the budgets.
LEMMA SignalBudget ==
  ASSUME TypeInv, IntJmp \/ IntAbort \/ IntClose \/ Timeout
  PROVE  left' \in LeftSet /\ left'.ops = left.ops /\ got' = got
  <1>1. CASE IntJmp
    BY <1>1, BudgetForm DEF IntJmp
  <1>2. CASE IntAbort \/ IntClose
    <2> left.ints > 0 /\ left' = [left EXCEPT !.ints = @ - 1] /\ got' = got
      BY <1>2, Zenon DEF IntAbort, IntClose, Interrupted
    <2> QED
      BY BudgetForm
  <1>3. CASE Timeout
    BY <1>3 DEF Timeout, TypeInv, TypeOK
  <1> QED
    BY <1>1, <1>2, <1>3

LEMMA UserTyped ==
  ASSUME TypeInv, UserStep
  PROVE  TypeInv'
  <1>1. CASE UserMkdir
    BY <1>1, MkdirTyped
  <1>2. CASE ~UserMkdir
    <2>1. PICK d \in Dirs \cup {NoDir}, b \in BOOLEAN :
             \/ UserOpen(d) \/ UserReopen \/ UserUser \/ UserClose
             \/ (d \in Dirs /\ (UserCd(d) \/ UserLs(d))) \/ UserGet(b)
      BY <1>2, Zenon DEF UserStep
    <2>2. Typed /\ Type
      BY <2>1, CommandForm, Zenon
         DEF UserOpen, UserReopen, UserUser, UserClose, UserCd, UserLs, UserGet
    <2>3. left' \in LeftSet /\ got' \subseteq GotSet
      BY <2>2, TypeForm
    <2> QED
      BY <2>2, <2>3, AbortedTyped, ContinuedTyped, DialledTyped DEF Typed
  <1> QED
    BY <1>1, <1>2

LEMMA ClientTyped ==
  ASSUME TypeInv, ClientStep
  PROVE  TypeInv'
  <1> got \subseteq GotSet /\ left \in LeftSet
    BY DEF TypeInv, TypeOK
  <1>1. CASE CmdReply
    <2>1. UNCHANGED <<got, left>>
      BY <1>1, Zenon DEF CmdReply
    <2> QED
      BY <1>1, <2>1, CmdReplyForm, ReconnectingTyped, ContinuedTyped
  <1>2. CASE CmdEof \/ CmdNoCtrl
    <2>1. UNCHANGED <<got, left>>
      BY <1>2, Zenon DEF CmdEof, CmdNoCtrl
    <2> QED
      BY <1>2, <2>1, CmdLostForm, ContinuedTyped
  <1>3. CASE ConnectOk
    BY <1>3, ConnectOkTyped
  <1>4. CASE ConnectFail
    BY <1>4, ConnectFailForm, AbortedTyped, RedoneTyped
  <1>5. CASE Welcome
    BY <1>5, WelcomeForm, GreetingTyped, AbortedTyped, RedoneTyped
  <1>6. CASE RecvEnd \/ RecvBreak \/ AbortPending \/ Drained
    BY <1>6, DataForm, AwaitsTyped
  <1>7. CASE SendAbor
    BY <1>7, SendAborTyped
  <1>8. CASE FinalReply \/ FinalEof
    BY <1>8, FinalForm, SuccessTyped, ContinuedTyped
  <1>9. CASE AbortReply \/ AbortEof
    BY <1>9, AbortForm, AwaitsTyped, ContinuedTyped
  <1> QED
    BY <1>1, <1>2, <1>3, <1>4, <1>5, <1>6, <1>7, <1>8, <1>9, Zenon DEF ClientStep

LEMMA StillEverything ==
  ASSUME TypeInv, UNCHANGED vars
  PROVE  TypeInv'
  BY StillTyped DEF vars, TypeInv, TypeOK

LEMMA TypeStep ==
  ASSUME TypeInv, [Next]_vars
  PROVE  TypeInv'
  <1>1. CASE UserStep
    BY <1>1, UserTyped
  <1>2. CASE ClientStep
    BY <1>2, ClientTyped
  <1>3. CASE ServerStep
    BY <1>3, ServerForm, ServedTyped
  <1>4. CASE IntJmp \/ IntAbort \/ IntClose \/ Timeout
    <2> got \subseteq GotSet
      BY DEF TypeInv, TypeOK
    <2> QED
      BY <1>4, SignalForm, SignalBudget, AbortedTyped, NotedTyped
  <1>5. CASE SrvDrop
    BY <1>5, DropForm
  <1>6. CASE \E d \in Dirs : RemoveDir(d)
    BY <1>6, RemoveTyped
  <1>7. CASE UNCHANGED vars
    BY <1>7, StillEverything
  <1> QED
    BY <1>1, <1>2, <1>3, <1>4, <1>5, <1>6, <1>7, Zenon DEF Next, Quiet

LEMMA TypeInit ==
  ASSUME Init
  PROVE  TypeInv
  <1>1. ftp \in FtpSet /\ ftp.url = ftp.connected
    BY PathsTyped DEF Init, FtpSet, Codes
  <1>2. op \in OpSet /\ sig \in SigSet /\ srv \in SrvSet /\ pc \in Points /\ pc = "prompt"
    <2> op = NoOp /\ sig = PromptSig /\ srv = Down /\ pc = "prompt"
      BY DEF Init
    <2> NoOp \in OpSet /\ PromptSig \in SigSet /\ Down \in SrvSet /\ "prompt" \in Points
      BY PathsTyped DEF NoOp, OpSet, PromptSig, SigSet, Down, SrvSet, Points
    <2> QED
      OBVIOUS
  <1>3. dconn \in DconnSet /\ left \in LeftSet /\ made \in [Serials -> 0..2]
    BY PathsTyped, SessionAssumption DEF Init, DconnSet, LeftSet
  <1>4. /\ stack = <<>> /\ c2s = <<>> /\ s2c = <<>> /\ stale \subseteq Dirs /\ got \subseteq GotSet
        /\ gone \subseteq Dirs
    BY DEF Init
  <1>5. TypeOK
    BY <1>1, <1>2, <1>3, <1>4 DEF TypeOK
  <1> QED
    BY <1>1, <1>2, <1>4, <1>5 DEF TypeInv, FtpOK, Opening

\* The variables of a session keep their types; ftp_cmd has an activation to
\* return to whenever a reply is awaited, and none is left at the prompt.
THEOREM Typing == Spec => []TypeOK
  <1>1. Init => TypeInv
    BY TypeInit
  <1>2. TypeInv /\ [Next]_vars => TypeInv'
    BY TypeStep
  <1>3. TypeInv => TypeOK
    BY DEF TypeInv
  <1> QED
    BY <1>1, <1>2, <1>3, PTL DEF Spec

\* ftp_print_cmd() and ftp_login() read ftp->url while a command is sent: a
\* connection on which one can be sent has been greeted, and then has its URL,
\* whatever reconnects, failures and interrupts came before.
THEOREM UrlIsThere == Spec => []UrlWhenSending
  <1>1. Init => TypeInv
    BY TypeInit
  <1>2. TypeInv /\ [Next]_vars => TypeInv'
    BY TypeStep
  <1>3. TypeInv => UrlWhenSending
    BY DEF TypeInv, UrlWhenSending, FtpOK, Live, Opening
  <1> QED
    BY <1>1, <1>2, <1>3, PTL DEF Spec

-----------------------------------------------------------------------------
(* An MKD is executed once: the parts of the invariant.                    *)

Clock ==
  /\ left' \in LeftSet
  /\ left'.ops = left.ops \/ (stack = <<>> /\ left'.ops = left.ops - 1)

LEMMA ClockForm ==
  ASSUME TypeInv, Clock
  PROVE  /\ Now \in 0..MaxOps /\ Now' \in 0..MaxOps /\ Now' >= Now
         /\ stack # <<>> => Now' = Now
  <1>1. left.ops \in 0..MaxOps /\ left'.ops \in 0..MaxOps
    BY DEF TypeInv, TypeOK, LeftSet, Clock
  <1>2. left'.ops = left.ops \/ (stack = <<>> /\ left'.ops = left.ops - 1)
    BY DEF Clock
  <1> QED
    BY <1>1, <1>2, SessionAssumption DEF Now

LEMMA FarewellKept ==
  ASSUME TypeInv, Farewell, NEW q, Piece(q), s2c' \in {q, <<>>}, srv' = srv \/ srv' = Down
  PROVE  Farewell'
  <1>1. \A i \in DOMAIN s2c' : \E j \in DOMAIN s2c : s2c'[i] = s2c[j]
    BY DEF Piece
  <1>2. srv'.up => srv.up
    BY DEF Down
  <1> QED
    BY <1>1, <1>2 DEF Farewell

\* Commands other than MKD go out; the rest stays, or goes with the session.
LEMMA SentKept ==
  ASSUME TypeInv, SentOnce, Clock, made' = made, NEW cmd \in CmdSet, cmd.v # "MKD",
         c2s' \in {c2s, Append(c2s, cmd), <<>>}
  PROVE  SentOnce' /\ (NoMkd => NoMkd')
  <1> c2s \in Seq(CmdSet)
    BY DEF TypeInv, TypeOK
  <1>1. \A i \in DOMAIN c2s' : c2s'[i].v = "MKD" => i \in DOMAIN c2s /\ c2s'[i] = c2s[i]
    BY SMTT(20)
  <1>2. Now \in Nat /\ Now' \in Nat /\ Now' >= Now
    BY ClockForm, SessionAssumption
  <1>3. SentOnce'
    <2> SUFFICES ASSUME NEW i \in DOMAIN c2s', c2s'[i].v = "MKD"
                 PROVE  /\ c2s'[i].n \in 1..Now' /\ made'[c2s'[i].n] = 0
                        /\ \A j \in DOMAIN c2s' : c2s'[j].v = "MKD" /\ c2s'[j].n = c2s'[i].n => i = j
      BY Zenon DEF SentOnce
    <2>1. i \in DOMAIN c2s /\ c2s'[i] = c2s[i]
      BY <1>1
    <2>2. c2s[i].n \in 1..Now /\ made[c2s[i].n] = 0
      BY <2>1 DEF SentOnce
    <2>3. ASSUME NEW j \in DOMAIN c2s', c2s'[j].v = "MKD", c2s'[j].n = c2s'[i].n
          PROVE  i = j
      BY <1>1, <2>1, <2>3 DEF SentOnce
    <2> QED
      BY <1>2, <2>1, <2>2, <2>3
  <1>4. NoMkd => NoMkd'
    BY <1>1 DEF NoMkd
  <1> QED
    BY <1>3, <1>4

LEMMA MadeKept ==
  ASSUME TypeInv, MadeOnce, Clock, made' = made
  PROVE  MadeOnce'
  BY ClockForm, SessionAssumption DEF MadeOnce, Serials

LEMMA SentNew ==
  ASSUME TypeInv, SentOnce, Clock, made' = made, NEW cmd \in CmdSet, cmd.v = "MKD",
         cmd.n = Now', Now' >= 1, made[Now'] = 0, NoMkd \/ Now' > Now,
         c2s' \in {Append(c2s, cmd), <<>>}
  PROVE  SentOnce'
  <1> c2s \in Seq(CmdSet)
    BY DEF TypeInv, TypeOK
  <1>1. \A i \in DOMAIN c2s' : \/ i \in DOMAIN c2s /\ c2s'[i] = c2s[i]
                               \/ i = Len(c2s) + 1 /\ c2s'[i] = cmd
    BY SMTT(20)
  <1>2. Now \in Nat /\ Now' \in Nat /\ Now' >= Now
    BY ClockForm, SessionAssumption
  <1>3. \A i \in DOMAIN c2s : c2s[i].v = "MKD" => c2s[i].n \in 1..Now /\ c2s[i].n # Now'
    BY <1>2 DEF SentOnce, NoMkd
  <1> SUFFICES ASSUME NEW i \in DOMAIN c2s', c2s'[i].v = "MKD"
               PROVE  /\ c2s'[i].n \in 1..Now' /\ made'[c2s'[i].n] = 0
                      /\ \A j \in DOMAIN c2s' : c2s'[j].v = "MKD" /\ c2s'[j].n = c2s'[i].n => i = j
    BY Zenon DEF SentOnce
  <1>4. c2s'[i].n \in 1..Now' /\ made'[c2s'[i].n] = 0
    BY <1>1, <1>2, <1>3 DEF SentOnce
  <1>5. ASSUME NEW j \in DOMAIN c2s', c2s'[j].v = "MKD", c2s'[j].n = c2s'[i].n
        PROVE  i = j
    <2>1. CASE i \in DOMAIN c2s /\ c2s'[i] = c2s[i]
      <3>1. j \in DOMAIN c2s /\ c2s'[j] = c2s[j]
        BY <1>1, <1>3, <1>5, <2>1
      <3> QED
        BY <1>5, <2>1, <3>1 DEF SentOnce
    <2>2. CASE i = Len(c2s) + 1 /\ c2s'[i] = cmd
      BY <1>1, <1>3, <1>5, <2>2
    <2> QED
      BY <1>1, <2>1, <2>2
  <1> QED
    BY <1>4, <1>5

\* Activations that wait below: an MKD among them is not executed.
Below(frames) ==
  \A i \in DOMAIN frames : frames[i].k = "mkd" =>
    i = Len(frames) /\ frames[i].cmd.n = Now /\ Now >= 1 /\ Unexecuted

LEMMA BelowForms ==
  ASSUME TypeInv, OnceInv
  PROVE  /\ Below(<<>>)
         /\ stack # <<>> => Below(Tail(stack))
         /\ pc # "cmd" \/ stack = <<>> \/ Head(stack).k # "mkd" => Below(stack)
  <1> stack \in Seq(Fitting)
    BY DEF TypeInv
  <1>1. ASSUME stack # <<>>
        PROVE  Below(Tail(stack))
    <2> SUFFICES ASSUME NEW i \in DOMAIN Tail(stack), Tail(stack)[i].k = "mkd"
                 PROVE  /\ i = Len(Tail(stack)) /\ Tail(stack)[i].cmd.n = Now
                        /\ Now >= 1 /\ Unexecuted
      BY Zenon DEF Below
    <2>1. i + 1 \in DOMAIN stack /\ Tail(stack)[i] = stack[i + 1] /\ i + 1 # 1
          /\ Len(Tail(stack)) = Len(stack) - 1
      BY <1>1
    <2>2. i + 1 = Len(stack) /\ stack[i + 1].cmd.n = Now /\ Now >= 1
      BY <2>1 DEF OnceInv, MkdLast
    <2>3. Unexecuted
      BY <2>1 DEF OnceInv, Pending
    <2> QED
      BY <2>1, <2>2, <2>3
  <1>2. pc # "cmd" \/ stack = <<>> \/ Head(stack).k # "mkd" => Below(stack)
    BY DEF OnceInv, MkdLast, Pending, Below
  <1>3. Below(<<>>)
    BY DEF Below
  <1> QED
    BY <1>1, <1>2, <1>3

LEMMA StackKept ==
  ASSUME TypeInv, Now' = Now, made' = made, NoMkd => NoMkd',
         NEW frames \in Seq(Fitting), Below(frames),
         \/ stack' = frames
         \/ \E fr \in Fitting : fr.k # "mkd" /\ stack' = <<fr>> \o frames
  PROVE  \A i \in DOMAIN stack' : stack'[i].k = "mkd" =>
           i = Len(stack') /\ stack'[i].cmd.n = Now' /\ Now' >= 1 /\ Unexecuted'
  <1>1. Unexecuted => Unexecuted'
    BY DEF Unexecuted
  <1>2. CASE stack' = frames
    BY <1>1, <1>2 DEF Below
  <1>3. ASSUME NEW fr \in Fitting, fr.k # "mkd", stack' = <<fr>> \o frames,
               NEW i \in DOMAIN stack', stack'[i].k = "mkd"
        PROVE  i = Len(stack') /\ stack'[i].cmd.n = Now' /\ Now' >= 1 /\ Unexecuted'
    <2>1. i # 1 /\ i - 1 \in DOMAIN frames /\ stack'[i] = frames[i - 1] /\ Len(stack') = Len(frames) + 1
      BY <1>3
    <2> QED
      BY <1>1, <1>3, <2>1 DEF Below
  <1> QED
    BY <1>2, <1>3

\* What StackKept establishes is enough, wherever the client then waits.
LEMMA StackOnce ==
  ASSUME \A i \in DOMAIN stack' : stack'[i].k = "mkd" =>
           i = Len(stack') /\ stack'[i].cmd.n = Now' /\ Now' >= 1 /\ Unexecuted'
  PROVE  MkdLast' /\ Pending'
  BY DEF MkdLast, Pending, Unanswered, Unexecuted

\* A step that sends no MKD, and leaves no MKD but one that waits below.
LEMMA OnceAfter ==
  ASSUME TypeInv, OnceInv, Clock, made' = made,
         NEW cmd \in CmdSet, cmd.v # "MKD", c2s' \in {c2s, Append(c2s, cmd), <<>>},
         NEW q, Piece(q), s2c' \in {q, <<>>}, srv' = srv \/ srv' = Down,
         NEW frames \in Seq(Fitting), Below(frames), Now' = Now \/ frames = <<>>,
         \/ stack' = frames
         \/ \E fr \in Fitting : fr.k # "mkd" /\ stack' = <<fr>> \o frames
  PROVE  OnceInv'
  <1>1. SentOnce' /\ (NoMkd => NoMkd') /\ MadeOnce' /\ Farewell'
    BY SentKept, MadeKept, FarewellKept DEF OnceInv
  <1>2. \A i \in DOMAIN stack' : stack'[i].k = "mkd" =>
          i = Len(stack') /\ stack'[i].cmd.n = Now' /\ Now' >= 1 /\ Unexecuted'
    <2>1. CASE Now' = Now
      BY <1>1, <2>1, StackKept
    <2>2. CASE frames = <<>>
      <3>1. \A fr \in Fitting : <<fr>> \o <<>> = <<fr>>
        OBVIOUS
      <3> QED
        BY <2>2, <3>1
    <2> QED
      BY <2>1, <2>2
  <1>3. MkdLast' /\ Pending'
    BY <1>2, StackOnce
  <1> QED
    BY <1>1, <1>3, Zenon DEF OnceInv

LEMMA AborTyped == Verb("ABOR") \in CmdSet /\ Verb("ABOR").v # "MKD"
  BY VerbTyped DEF Verbs

LEMMA PromptOnce ==
  ASSUME TypeInv, OnceInv, Clock, NEW f, FtpOK(f), NEW q, Piece(q), Prompt(f, q)
  PROVE  OnceInv'
  <1>1. stack' = <<>> /\ Network(f, q, c2s)
    BY Zenon DEF Prompt
  <1>2. q \in Seq(ReplySet) /\ c2s \in Seq(CmdSet) /\ f.ctrl \in BOOLEAN
    BY DEF Piece, TypeInv, TypeOK, FtpOK, FtpSet
  <1>3. s2c' \in {q, <<>>} /\ c2s' \in {c2s, <<>>} /\ (srv' = srv \/ srv' = Down) /\ made' = made
    BY <1>1, <1>2, NetworkForm
  <1>4. Below(<<>>) /\ <<>> \in Seq(Fitting)
    BY BelowForms
  <1> QED
    BY <1>1, <1>3, <1>4, AborTyped, OnceAfter

LEMMA IssueOnce ==
  ASSUME TypeInv, OnceInv, Clock, NEW f, FtpOK(f), NEW q, Piece(q), NEW o, NEW cmd \in CmdSet,
         cmd.v # "MKD", NEW k \in Frames, NEW below \in Seq(Fitting), Below(below),
         Now' = Now \/ below = <<>>, Issue(f, q, o, cmd, k, below)
  PROVE  OnceInv'
  <1> DEFINE out == Append(c2s, cmd)
             fr == [cmd |-> cmd, recon |-> FALSE, k |-> k]
  <1>1. stack' = <<fr>> \o below /\ Network(f, q, out)
    BY Zenon DEF Issue
  <1>2. q \in Seq(ReplySet) /\ out \in Seq(CmdSet) /\ f.ctrl \in BOOLEAN
    BY DEF Piece, TypeInv, TypeOK, FtpOK, FtpSet
  <1>3. fr \in Fitting /\ fr.k # "mkd"
    <2> k \in Continuations /\ k # "mkd" /\ Fits(cmd.v, k)
      BY DEF Frames, Fits
    <2> QED
      BY FrameForms
  <1> HIDE DEF fr
  <1>4. s2c' \in {q, <<>>} /\ c2s' \in {out, <<>>} /\ (srv' = srv \/ srv' = Down) /\ made' = made
    <2> HIDE DEF out
    <2> QED
      BY <1>1, <1>2, NetworkForm
  <1>5. c2s' \in {c2s, Append(c2s, cmd), <<>>}
    BY <1>4
  <1> HIDE DEF out
  <1> QED
    BY <1>1, <1>3, <1>4, <1>5, OnceAfter

\* "goto ugly": the interrupted MKD is sent again, and it was not executed.
LEMMA ResendOnce ==
  ASSUME TypeInv, OnceInv, Clock, NEW f, FtpOK(f), NEW q, Piece(q),
         NEW frames \in Seq(Fitting), frames # <<>>, Below(frames), Now' = Now, Resend(f, q, frames)
  PROVE  OnceInv'
  <1> DEFINE again(a) == [Head(frames) EXCEPT !.cmd.a = a]
             cmd(a) == again(a).cmd
  <1>1. PICK a \in Paths :
          stack' = <<again(a)>> \o Tail(frames) /\ Network(f, q, Append(c2s, cmd(a)))
    BY Zenon DEF Resend
  <1>2. Head(frames) \in Fitting /\ Tail(frames) \in Seq(Fitting)
    BY StackForms
  <1>3. /\ again(a) \in Fitting /\ cmd(a) \in CmdSet /\ again(a).k = Head(frames).k
        /\ cmd(a).v = Head(frames).cmd.v /\ cmd(a).n = Head(frames).cmd.n
        /\ again(a).cmd = cmd(a)
    <2>1. again(a) \in Fitting
      BY <1>2, FrameForms
    <2>2. again(a).k = Head(frames).k /\ again(a).cmd = [Head(frames).cmd EXCEPT !.a = a]
      BY <1>2 DEF Fitting, FrameSet
    <2>3. Head(frames).cmd \in CmdSet
      BY <1>2 DEF Fitting, FrameSet
    <2>4. cmd(a) \in CmdSet /\ cmd(a).v = Head(frames).cmd.v /\ cmd(a).n = Head(frames).cmd.n
      BY <2>2, <2>3 DEF CmdSet
    <2> QED
      BY <2>1, <2>2, <2>4
  <1> DEFINE fr == again(a)
             out == Append(c2s, cmd(a))
  <1>4. q \in Seq(ReplySet) /\ f.ctrl \in BOOLEAN
    BY DEF Piece, FtpOK, FtpSet
  <1>5. out \in Seq(CmdSet)
    <2> HIDE DEF cmd
    <2> QED
      BY <1>3 DEF TypeInv, TypeOK
  <1>6. s2c' \in {q, <<>>} /\ c2s' \in {out, <<>>} /\ (srv' = srv \/ srv' = Down) /\ made' = made
    <2>1. Network(f, q, out)
      BY <1>1
    <2> HIDE DEF out
    <2> QED
      BY <1>4, <1>5, <2>1, NetworkForm
  <1>7. Below(Tail(frames))
    <2> HIDE DEF again, cmd
    <2> QED
      BY DEF Below
  <1>8. c2s' \in {c2s, Append(c2s, cmd(a)), <<>>} /\ c2s' \in {Append(c2s, cmd(a)), <<>>}
        /\ stack' = <<fr>> \o Tail(frames)
    BY <1>1, <1>6
  <1>9. CASE Head(frames).k # "mkd"
    <2>1. cmd(a).v # "MKD" /\ fr.k # "mkd"
      BY <1>2, <1>3, <1>9 DEF Fitting, Fits
    <2> HIDE DEF again, cmd, fr, out
    <2>2. fr \in Fitting
      BY <1>3 DEF fr
    <2> DEFINE c == cmd(a)
               t == Tail(frames)
    <2>3. /\ c \in CmdSet /\ c.v # "MKD" /\ c2s' \in {c2s, Append(c2s, c), <<>>}
          /\ t \in Seq(Fitting) /\ Below(t) /\ stack' = <<fr>> \o t
      BY <1>2, <1>3, <1>7, <1>8, <2>1
    <2> HIDE DEF c, t
    <2> QED
      BY <1>6, <2>1, <2>2, <2>3, OnceAfter
  <1>10. CASE Head(frames).k = "mkd"
    <2>1. 1 \in DOMAIN frames /\ Head(frames) = frames[1]
      BY <1>2
    <2>2. Len(frames) = 1 /\ Head(frames).cmd.n = Now /\ Now >= 1 /\ Unexecuted
      BY <1>10, <2>1 DEF Below
    <2>3. cmd(a).v = "MKD" /\ fr.k = "mkd" /\ fr.cmd = cmd(a)
      BY <1>2, <1>3, <1>10 DEF Fitting, Fits
    <2>4. Tail(frames) = <<>>
      <3> Len(Tail(frames)) = 0 /\ Tail(frames) \in Seq(Fitting)
        BY <1>2, <2>2
      <3> QED
        BY EmptySeq, Zenon
    <2> HIDE DEF again, cmd, fr, out
    <2>5. SentOnce'
      <3> DEFINE c == cmd(a)
      <3>1. /\ c \in CmdSet /\ c.v = "MKD" /\ c.n = Now' /\ Now' >= 1 /\ made[Now'] = 0 /\ NoMkd
            /\ c2s' \in {Append(c2s, c), <<>>}
        BY <1>3, <1>8, <2>2, <2>3 DEF Unexecuted
      <3> HIDE DEF c
      <3> QED
        BY <1>6, <3>1, SentNew DEF OnceInv
    <2>6. MadeOnce' /\ Farewell'
      BY <1>6, MadeKept, FarewellKept DEF OnceInv
    <2>7. pc' = "cmd"
      BY Zenon DEF Resend
    <2>8. stack' = <<fr>>
      <3>1. stack' = <<fr>> \o <<>>
        BY <1>8, <2>4, Zenon
      <3> QED
        BY <3>1
    <2>9. MkdLast' /\ Pending'
      <3>1. made'[Now'] = 0
        BY <1>6, <2>2 DEF Unexecuted
      <3>2. Unanswered'
        BY <3>1 DEF Unanswered
      <3>3. \A i \in DOMAIN stack' : i = 1 /\ stack'[i] = fr /\ i = Len(stack')
        BY <2>8
      <3>4. fr.cmd.n = Now' /\ Now' >= 1
        BY <1>3, <2>2, <2>3
      <3> QED
        BY <2>7, <3>2, <3>3, <3>4 DEF MkdLast, Pending
    <2> QED
      BY <2>5, <2>6, <2>9, Zenon DEF OnceInv
  <1> QED
    BY <1>9, <1>10

\* The same activations wait, but not in ftp_cmd.
LEMMA WaitOnce ==
  ASSUME TypeInv, OnceInv, Clock, NEW q, Piece(q), s2c' \in {q, <<>>}, srv' = srv \/ srv' = Down,
         made' = made, NEW cmd \in CmdSet, cmd.v # "MKD", c2s' \in {c2s, Append(c2s, cmd), <<>>},
         stack' = stack, pc # "cmd" \/ stack = <<>> \/ Head(stack).k # "mkd"
  PROVE  OnceInv'
  <1>1. Below(stack) /\ stack \in Seq(Fitting)
    BY BelowForms DEF TypeInv
  <1>2. Now' = Now \/ stack = <<>>
    BY ClockForm
  <1> QED
    BY <1>1, <1>2, OnceAfter

LEMMA LeaveOnce ==
  ASSUME TypeInv, OnceInv, Clock, NEW f, Good(f), NEW q, Piece(q), Leave(f, q),
         pc = "cmd" /\ Head(stack).k = "mkd" => Prompt(f, q)
  PROVE  OnceInv'
  <1> FtpOK(f) /\ stack \in Seq(Fitting) /\ c2s \in Seq(CmdSet) /\ q \in Seq(ReplySet)
    BY DEF Good, TypeInv, TypeOK, Piece
  <1> f.ctrl \in BOOLEAN
    BY DEF FtpOK, FtpSet
  <1>0. Now' = Now \/ stack = <<>>
    BY ClockForm
  <1>1. CASE Prompt(f, q)
    BY <1>1, PromptOnce
  <1>2. CASE \E o \in OpSet, cmd \in CmdSet, k \in Frames :
                cmd.v # "MKD" /\ Send(f, q, o, cmd, k)
    <2> DEFINE below == IF stack = <<>> THEN <<>> ELSE Tail(stack)
    <2>1. PICK o \in OpSet, cmd \in CmdSet, k \in Frames :
             cmd.v # "MKD" /\ Send(f, q, o, cmd, k)
      BY <1>2
    <2>2. below \in Seq(Fitting) /\ Below(below)
      BY BelowForms
    <2>3. Now' = Now \/ below = <<>>
      BY <1>0
    <2>4. Issue(f, q, o, cmd, k, below)
      BY <2>1, Zenon DEF Send
    <2> HIDE DEF below
    <2> QED
      BY <2>1, <2>2, <2>3, <2>4, IssueOnce
  <1>3. CASE Tail(stack) # <<>> /\ Resend(f, q, Tail(stack))
    <2>1. stack # <<>> /\ Tail(stack) \in Seq(Fitting)
      <3> Tail(<<>>) = <<>>
        OBVIOUS
      <3> QED
        BY <1>3
    <2>2. Below(Tail(stack)) /\ Now' = Now
      BY <1>0, <2>1, BelowForms
    <2> QED
      BY <1>3, <2>1, <2>2, ResendOnce
  <1>4. CASE /\ Head(stack).k # "mkd"
             /\ pc' = "crashed" /\ ftp' = f /\ Network(f, q, c2s) /\ UNCHANGED <<stack, op, sig>>
    <2>1. s2c' \in {q, <<>>} /\ c2s' \in {c2s, <<>>} /\ (srv' = srv \/ srv' = Down) /\ made' = made
      BY <1>4, NetworkForm
    <2> QED
      BY <1>4, <2>1, AborTyped, WaitOnce
  <1>5. CASE Head(stack).k # "mkd" /\ \E o \in OpSet : Block(f, q, o, "data")
    <2>1. Network(f, q, c2s) /\ stack' = stack
      BY <1>5, Zenon DEF Block
    <2>2. s2c' \in {q, <<>>} /\ c2s' \in {c2s, <<>>} /\ (srv' = srv \/ srv' = Down) /\ made' = made
      BY <2>1, NetworkForm
    <2> QED
      BY <1>5, <2>1, <2>2, AborTyped, WaitOnce
  <1> QED
    BY <1>1, <1>2, <1>3, <1>4, <1>5, Zenon DEF Leave

-----------------------------------------------------------------------------
(* An MKD is executed once: the steps.                                     *)

LEMMA ContinuedOnce ==
  ASSUME TypeInv, OnceInv, Clock, Continued
  PROVE  OnceInv'
  <1>1. PICK g : \E q : Good(g) /\ Piece(q) /\ Leave(g, q)
                        /\ (pc = "cmd" /\ Head(stack).k = "mkd" => Prompt(g, q))
    BY Zenon DEF Continued
  <1>2. PICK q : Good(g) /\ Piece(q) /\ Leave(g, q)
                 /\ (pc = "cmd" /\ Head(stack).k = "mkd" => Prompt(g, q))
    BY <1>1
  <1> QED
    BY <1>2, LeaveOnce

LEMMA AbortedOnce ==
  ASSUME TypeInv, OnceInv, Clock, Aborted
  PROVE  OnceInv'
  <1>1. PICK f : \E q : FtpOK(f) /\ Piece(q) /\ Prompt(f, q)
    BY Zenon DEF Aborted
  <1>2. PICK q : FtpOK(f) /\ Piece(q) /\ Prompt(f, q)
    BY <1>1
  <1> QED
    BY <1>2, PromptOnce

LEMMA RedoneOnce ==
  ASSUME TypeInv, OnceInv, Clock, Redone
  PROVE  OnceInv'
  <1>1. PICK f : Good(f) /\ Resend(f, <<>>, stack)
    BY Zenon DEF Redone
  <1>2. stack # <<>> /\ pc # "cmd" /\ stack \in Seq(Fitting) /\ FtpOK(f)
    BY <1>1 DEF Redone, TypeInv, Good
  <1>3. Below(stack) /\ Now' = Now /\ Piece(<<>>)
    BY <1>2, BelowForms, ClockForm, Pieces
  <1> QED
    BY <1>1, <1>2, <1>3, ResendOnce

LEMMA GreetingOnce ==
  ASSUME TypeInv, OnceInv, Clock, Greeting
  PROVE  OnceInv'
  <1>1. PICK f : \E q : Good(f) /\ Piece(q) /\ Issue(f, q, op, Verb("USER"), "user", stack)
    BY Zenon DEF Greeting
  <1>2. PICK q : Good(f) /\ Piece(q) /\ Issue(f, q, op, Verb("USER"), "user", stack)
    BY <1>1
  <1>3. Verb("USER") \in CmdSet /\ Verb("USER").v # "MKD" /\ "user" \in Frames
    BY VerbTyped DEF Verbs, Frames, Continuations
  <1>4. Below(stack) /\ stack \in Seq(Fitting) /\ (Now' = Now \/ stack = <<>>)
    BY BelowForms, ClockForm DEF Greeting, TypeInv
  <1> QED
    BY <1>2, <1>3, <1>4, IssueOnce DEF Good

LEMMA AwaitsOnce ==
  ASSUME TypeInv, OnceInv, Clock, Awaits
  PROVE  OnceInv'
  <1>1. PICK f : \E q : \E o \in OpSet, p \in Points \ {"cmd", "prompt"} :
          Good(f) /\ Piece(q) /\ pc \notin {"cmd", "prompt"} /\ Block(f, q, o, p)
    BY Zenon DEF Awaits
  <1>2. PICK q : \E o \in OpSet, p \in Points \ {"cmd", "prompt"} :
          Good(f) /\ Piece(q) /\ pc \notin {"cmd", "prompt"} /\ Block(f, q, o, p)
    BY <1>1
  <1>3. Good(f) /\ Piece(q) /\ pc # "cmd" /\ stack' = stack /\ Network(f, q, c2s)
    BY <1>2 DEF Block
  <1>4. q \in Seq(ReplySet) /\ c2s \in Seq(CmdSet) /\ f.ctrl \in BOOLEAN
    BY <1>3 DEF Piece, TypeInv, TypeOK, Good, FtpOK, FtpSet
  <1>5. s2c' \in {q, <<>>} /\ c2s' \in {c2s, <<>>} /\ (srv' = srv \/ srv' = Down) /\ made' = made
    BY <1>3, <1>4, NetworkForm
  <1> QED
    BY <1>3, <1>5, AborTyped, WaitOnce

LEMMA SendAborOnce ==
  ASSUME TypeInv, OnceInv, Clock, SendAbor
  PROVE  OnceInv'
  <1> DEFINE out == Append(c2s, Verb("ABOR"))
  <1>1. pc # "cmd" /\ stack' = stack /\ Network(ftp, s2c, out)
    BY DEF SendAbor
  <1>2. out \in Seq(CmdSet)
    BY AborTyped DEF TypeInv, TypeOK
  <1>3. Piece(s2c) /\ s2c \in Seq(ReplySet) /\ ftp.ctrl \in BOOLEAN
    BY Pieces DEF TypeInv, TypeOK, FtpSet
  <1>4. s2c' \in {s2c, <<>>} /\ c2s' \in {out, <<>>} /\ (srv' = srv \/ srv' = Down) /\ made' = made
    <2> HIDE DEF out
    <2> QED
      BY <1>1, <1>2, <1>3, NetworkForm
  <1> DEFINE cmd == Verb("ABOR")
  <1>5. cmd \in CmdSet /\ cmd.v # "MKD" /\ c2s' \in {c2s, Append(c2s, cmd), <<>>}
    BY <1>4, AborTyped
  <1> HIDE DEF out, cmd
  <1> QED
    BY <1>1, <1>3, <1>4, <1>5, WaitOnce

LEMMA DialledOnce ==
  ASSUME TypeInv, OnceInv, Clock, Dialled
  PROVE  OnceInv'
  <1>1. PICK f : \E o : FtpOK(f) /\ o \in OpSet /\ Dial(f, o)
    BY Zenon DEF Dialled
  <1>2. FtpOK(f) /\ stack' = <<>> /\ Network(f, s2c, c2s)
    BY <1>1 DEF Dial
  <1>3. /\ s2c \in Seq(ReplySet) /\ c2s \in Seq(CmdSet) /\ f.ctrl \in BOOLEAN /\ Piece(s2c)
        /\ Below(<<>>) /\ <<>> \in Seq(Fitting)
    BY <1>2, Pieces, BelowForms DEF TypeInv, TypeOK, FtpOK, FtpSet
  <1>4. s2c' \in {s2c, <<>>} /\ c2s' \in {c2s, <<>>} /\ (srv' = srv \/ srv' = Down) /\ made' = made
    BY <1>2, <1>3, NetworkForm
  <1> QED
    BY <1>2, <1>3, <1>4, AborTyped, OnceAfter

LEMMA ConnectOkOnce ==
  ASSUME TypeInv, OnceInv, ConnectOk
  PROVE  OnceInv'
  <1>1. /\ pc = "connect" /\ pc' = "welcome" /\ c2s' = <<>>
        /\ stack' = stack /\ made' = made /\ left' = left
    BY DEF ConnectOk
  <1>2. Farewell'
    <2>1. CASE s2c' = <<Reply(220, "banner", NoDir)>>
      <3>1. Reply(220, "banner", NoDir).full # 421
        BY DEF Reply
      <3> QED
        BY <2>1, <3>1 DEF Farewell
    <2>2. CASE srv' = Down
      BY <2>2 DEF Farewell, Down
    <2> QED
      BY <2>1, <2>2 DEF ConnectOk
  <1>3. SentOnce' /\ NoMkd'
    BY <1>1 DEF SentOnce, NoMkd
  <1>4. MadeOnce' /\ Now' = Now
    BY <1>1 DEF OnceInv, MadeOnce, Now
  <1>5. MkdLast' /\ Pending'
    <2> Below(stack) /\ stack \in Seq(Fitting)
      BY <1>1, BelowForms DEF TypeInv
    <2>1. \A i \in DOMAIN stack' : stack'[i].k = "mkd" =>
            i = Len(stack') /\ stack'[i].cmd.n = Now' /\ Now' >= 1 /\ Unexecuted'
      BY <1>1, <1>3, <1>4, StackKept
    <2> QED
      BY <2>1, StackOnce
  <1> QED
    BY <1>2, <1>3, <1>4, <1>5, Zenon DEF OnceInv

\* The 421 that ftp_cmd reconnects for tells that the MKD was not executed.
LEMMA ReconnectingOnce ==
  ASSUME TypeInv, OnceInv, Reconnecting, left' = left
  PROVE  OnceInv'
  <1> DEFINE f == [ftp EXCEPT !.full = Head(s2c).full]
             q == Tail(s2c)
  <1>1. /\ s2c # <<>> /\ Head(s2c).full = 421 /\ stack' = [stack EXCEPT ![1].recon = TRUE]
        /\ pc = "cmd" /\ pc' = "connect" /\ Network(f, q, c2s)
    BY Zenon DEF Reconnecting
  <1>2. f.ctrl \in BOOLEAN /\ Piece(q) /\ q \in Seq(ReplySet) /\ c2s \in Seq(CmdSet)
    BY <1>1, Pieces DEF Piece, TypeInv, TypeOK, FtpSet
  <1> HIDE DEF f, q
  <1>3. ~srv.up
    <2> s2c \in Seq(ReplySet)
      BY DEF TypeInv, TypeOK
    <2> 1 \in DOMAIN s2c /\ s2c[1].full = 421
      BY <1>1
    <2> QED
      BY DEF OnceInv, Farewell
  <1>4. s2c' \in {q, <<>>} /\ c2s' = <<>> /\ (srv' = srv \/ srv' = Down) /\ made' = made
    BY <1>1, <1>2, <1>3, NetworkForm
  <1>5. Now' = Now /\ Clock
    BY DEF Now, Clock, TypeInv, TypeOK
  <1>6. SentOnce' /\ NoMkd' /\ MadeOnce' /\ Farewell'
    BY <1>2, <1>4, <1>5, MadeKept, FarewellKept DEF OnceInv, SentOnce, NoMkd
  <1>7. MkdLast' /\ Pending'
    <2> stack \in Seq(Fitting) /\ stack # <<>>
      BY <1>1 DEF TypeInv
    <2>1. /\ DOMAIN stack' = DOMAIN stack /\ Len(stack') = Len(stack)
          /\ \A i \in DOMAIN stack : stack'[i].k = stack[i].k /\ stack'[i].cmd = stack[i].cmd
      <3>1. \A fr \in Fitting : [fr EXCEPT !.recon = TRUE].k = fr.k
                                /\ [fr EXCEPT !.recon = TRUE].cmd = fr.cmd
        BY DEF Fitting, FrameSet
      <3>2. stack' = [stack EXCEPT ![1] = [stack[1] EXCEPT !.recon = TRUE]]
        BY <1>1
      <3> QED
        BY <3>1, <3>2
    <2>2. ASSUME NEW i \in DOMAIN stack, stack[i].k = "mkd"
          PROVE  made[Now] = 0
      <3>1. CASE i = 1
        <4>1. Unanswered
          BY <1>1, <2>2, <3>1 DEF OnceInv, Pending
        <4> QED
          BY <1>1, <4>1 DEF Unanswered
      <3>2. CASE i # 1
        BY <2>2, <3>2 DEF OnceInv, Pending, Unexecuted
      <3> QED
        BY <3>1, <3>2
    <2>3. \A i \in DOMAIN stack' : stack'[i].k = "mkd" =>
            i = Len(stack') /\ stack'[i].cmd.n = Now' /\ Now' >= 1 /\ Unexecuted'
      BY <1>4, <1>5, <1>6, <2>1, <2>2 DEF OnceInv, MkdLast, Unexecuted
    <2> QED
      BY <2>3, StackOnce
  <1> QED
    BY <1>6, <1>7, Zenon DEF OnceInv

\* A new MKD has a new number.
LEMMA MkdirTypedOnce ==
  ASSUME TypeInv, OnceInv, UserMkdir
  PROVE  OnceInv'
  <1> DEFINE o == [NoOp EXCEPT !.name = "mkdir", !.dir = ftp.curdir]
             cmd == Cmd("MKD", ftp.curdir, MaxOps - left.ops + 1)
             out == Append(c2s, cmd)
             fr == [cmd |-> cmd, recon |-> FALSE, k |-> "mkd"]
  <1>1. Type /\ Send(ftp, s2c, o, cmd, "mkd")
    BY Zenon DEF UserMkdir
  <1>2. left' \in LeftSet /\ left.ops \in 1..MaxOps /\ left'.ops = left.ops - 1 /\ stack = <<>>
    BY <1>1, TypeForm
  <1>3. stack' = <<fr>> \o <<>> /\ pc' = "cmd" /\ Network(ftp, s2c, out)
    BY <1>1, <1>2, Zenon DEF Send, Issue
  <1>4. Clock /\ Now' = Now + 1 /\ Now' \in Serials /\ cmd.n = Now' /\ cmd.v = "MKD" /\ Now \in Nat
    BY <1>2, SessionAssumption DEF Clock, Now, Serials, Cmd
  <1>5. cmd \in CmdSet
    <2> ftp.curdir \in Paths
      BY DEF TypeInv, TypeOK, FtpSet
    <2> QED
      BY <1>2, SessionAssumption DEF Cmd, CmdSet, Verbs
  <1>6. fr.k = "mkd" /\ fr.cmd = cmd
    OBVIOUS
  <1> HIDE DEF cmd, fr
  <1>7. out \in Seq(CmdSet) /\ Piece(s2c) /\ s2c \in Seq(ReplySet) /\ ftp.ctrl \in BOOLEAN
    BY <1>5, Pieces DEF TypeInv, TypeOK, FtpSet
  <1>8. s2c' \in {s2c, <<>>} /\ c2s' \in {out, <<>>} /\ (srv' = srv \/ srv' = Down) /\ made' = made
    <2> HIDE DEF out
    <2> QED
      BY <1>3, <1>7, NetworkForm
  <1>9. made[Now'] = 0 /\ Now' > Now /\ Now' >= 1
    BY <1>4 DEF OnceInv, MadeOnce
  <1>10. SentOnce' /\ MadeOnce' /\ Farewell'
    BY <1>4, <1>5, <1>7, <1>8, <1>9, SentNew, MadeKept, FarewellKept DEF OnceInv
  <1>11. MkdLast' /\ Pending'
    <2>1. \A i \in DOMAIN stack' : i = 1 /\ stack'[i] = fr /\ i = Len(stack')
      BY <1>3
    <2>2. Unanswered'
      BY <1>8, <1>9 DEF Unanswered
    <2> QED
      BY <1>3, <1>4, <1>6, <1>9, <2>1, <2>2 DEF MkdLast, Pending
  <1> QED
    BY <1>10, <1>11, Zenon DEF OnceInv

LEMMA SameOnce ==
  ASSUME OnceInv, UNCHANGED <<stack, pc, c2s, s2c, srv, made>>, left'.ops = left.ops
  PROVE  OnceInv'
  <1>1. Now' = Now
    BY DEF Now
  <1>2. (SentOnce <=> SentOnce') /\ (MadeOnce <=> MadeOnce') /\ (Farewell <=> Farewell')
    BY <1>1 DEF SentOnce, MadeOnce, Farewell
  <1>3. (Unanswered <=> Unanswered') /\ (Unexecuted <=> Unexecuted')
    BY <1>1 DEF Unanswered, Unexecuted, NoMkd
  <1>4. MkdLast' /\ Pending'
    BY <1>1, <1>3 DEF OnceInv, MkdLast, Pending
  <1> QED
    BY <1>2, <1>4, Zenon DEF OnceInv

\* The server takes the commands in order; an MKD it executes is answered, and
\* with no 421.
LEMMA ServedOnce ==
  ASSUME TypeInv, OnceInv, Served
  PROVE  OnceInv'
  <1> c2s \in Seq(CmdSet) /\ s2c \in Seq(ReplySet) /\ made \in [Serials -> 0..2]
    BY DEF TypeInv, TypeOK
  <1>1. /\ srv.up /\ UNCHANGED <<stack, pc, left>>
        /\ c2s' = c2s \/ (c2s # <<>> /\ c2s' = Tail(c2s))
        /\ made' = made \/ Executed
    BY DEF Served, client
  <1>2. PICK a \in Seq(ReplySet) : s2c' = s2c \o a /\ \A i \in DOMAIN a : a[i].full # 421
    BY DEF Served, Quitting
  <1>3. Now' = Now /\ Now \in 0..MaxOps /\ MaxOps \in Nat
    BY <1>1, ClockForm, SessionAssumption DEF Now, Clock, TypeInv, TypeOK
  <1>4. \A i \in DOMAIN s2c' : s2c'[i].full # 421
    <2>1. \A i \in DOMAIN s2c : s2c[i].full # 421
      BY <1>1 DEF OnceInv, Farewell
    <2> QED
      BY <1>2, <2>1
  <1>5. Farewell'
    BY <1>4 DEF Farewell
  <1>6. \A i \in DOMAIN c2s' : \E j \in DOMAIN c2s : c2s'[i] = c2s[j]
    <2>1. CASE c2s' = c2s
      BY <2>1
    <2>2. CASE c2s # <<>> /\ c2s' = Tail(c2s)
      <3> TAKE i \in DOMAIN c2s'
      <3> i + 1 \in DOMAIN c2s /\ c2s'[i] = c2s[i + 1]
        BY <2>2
      <3> QED
        OBVIOUS
    <2> QED
      BY <1>1, <2>1, <2>2
  <1>7. NoMkd => NoMkd' /\ made' = made
    <2>1. ASSUME NoMkd, Executed
          PROVE  FALSE
      <3> 1 \in DOMAIN c2s /\ c2s[1].v = "MKD"
        BY <2>1 DEF Executed
      <3> QED
        BY <2>1 DEF NoMkd
    <2> QED
      BY <1>1, <1>6, <2>1 DEF NoMkd
  <1>8. SentOnce' /\ MadeOnce'
    <2>1. CASE made' = made
      <3>1. MadeOnce'
        BY <1>3, <2>1 DEF OnceInv, MadeOnce
      <3>2. CASE c2s' = c2s
        BY <1>3, <2>1, <3>1, <3>2 DEF OnceInv, SentOnce
      <3>3. CASE c2s # <<>> /\ c2s' = Tail(c2s)
        <4>1. \A i \in DOMAIN c2s' : i + 1 \in DOMAIN c2s /\ c2s'[i] = c2s[i + 1] /\ i \in Nat
          BY <3>3
        <4> QED
          BY <1>3, <2>1, <3>1, <4>1 DEF OnceInv, SentOnce
      <3> QED
        BY <1>1, <3>2, <3>3
    <2>2. CASE Executed
      <3> DEFINE n == Head(c2s).n
      <3>1. /\ c2s # <<>> /\ c2s[1].v = "MKD" /\ n = c2s[1].n /\ 1 \in DOMAIN c2s
            /\ c2s' = Tail(c2s)
            /\ made' = [made EXCEPT ![n] = IF @ < 2 THEN @ + 1 ELSE @]
        BY <2>2 DEF Executed
      <3>2. n \in 1..Now /\ made[n] = 0 /\ n \in Serials
        BY <1>3, <3>1 DEF OnceInv, SentOnce, Serials
      <3>3. \A i \in DOMAIN c2s' : i + 1 \in DOMAIN c2s /\ c2s'[i] = c2s[i + 1] /\ i \in Nat /\ i + 1 # 1
        BY <3>1
      <3> HIDE DEF n
      <3>4. made'[n] = 1 /\ \A m \in Serials : m # n => made'[m] = made[m]
        BY <3>1, <3>2
      <3>5. MadeOnce'
        BY <1>3, <3>2, <3>4 DEF OnceInv, MadeOnce
      <3>6. SentOnce'
        <4> SUFFICES ASSUME NEW i \in DOMAIN c2s', c2s'[i].v = "MKD"
                     PROVE  /\ c2s'[i].n \in 1..Now' /\ made'[c2s'[i].n] = 0
                            /\ \A j \in DOMAIN c2s' :
                                 c2s'[j].v = "MKD" /\ c2s'[j].n = c2s'[i].n => i = j
          BY Zenon DEF SentOnce
        <4>1. c2s'[i].n \in 1..Now /\ made[c2s'[i].n] = 0 /\ c2s'[i].n # n
          BY <3>1, <3>3 DEF OnceInv, SentOnce
        <4>2. c2s'[i].n \in Serials
          BY <1>3, <4>1 DEF Serials
        <4>3. ASSUME NEW j \in DOMAIN c2s', c2s'[j].v = "MKD", c2s'[j].n = c2s'[i].n
              PROVE  i = j
          <5> DEFINE ii == i + 1
                     jj == j + 1
          <5>0. /\ ii \in DOMAIN c2s /\ c2s[ii].v = "MKD"
                /\ jj \in DOMAIN c2s /\ c2s[jj].v = "MKD" /\ c2s[jj].n = c2s[ii].n
            BY <3>3, <4>3
          <5>1. ii = jj
            <6> HIDE DEF ii, jj
            <6> QED
              BY <5>0, Zenon DEF OnceInv, SentOnce
          <5> QED
            BY <3>3, <5>1
        <4> QED
          BY <1>3, <3>4, <4>1, <4>2, <4>3
      <3> QED
        BY <3>5, <3>6
    <2> QED
      BY <1>1, <2>1, <2>2
  <1>9. MkdLast'
    BY <1>1, <1>3 DEF OnceInv, MkdLast
  <1>10. Unexecuted => Unexecuted'
    BY <1>3, <1>7 DEF Unexecuted
  <1>11. Unanswered => Unanswered'
    <2>1. CASE s2c' # <<>>
      <3> s2c' \in Seq(ReplySet)
        BY <1>2
      <3> 1 \in DOMAIN s2c' /\ Head(s2c') = s2c'[1]
        BY <2>1
      <3> QED
        BY <1>4, <2>1 DEF Unanswered
    <2>2. CASE s2c' = <<>>
      <3>1. s2c = <<>> /\ s2c' = s2c
        <4>1. Len(s2c') = Len(s2c) + Len(a) /\ Len(s2c) \in Nat /\ Len(a) \in Nat
          BY <1>2
        <4>2. Len(s2c') = 0
          BY <2>2, EmptySeq
        <4>3. Len(s2c) = 0
          <5> DEFINE x == Len(s2c)
                     y == Len(a)
                     z == Len(s2c')
          <5>1. z = x + y /\ x \in Nat /\ y \in Nat /\ z = 0
            BY <4>1, <4>2, Zenon
          <5>2. x = 0
            <6> HIDE DEF x, y, z
            <6> QED
              BY <5>1
          <5> QED
            BY <5>2
        <4>4. s2c = <<>>
          BY <4>3, EmptySeq, Zenon
        <4> QED
          BY <2>2, <4>4
      <3>2. made' = made
        BY <1>1, <3>1 DEF Executed
      <3> QED
        BY <1>1, <1>3, <3>1, <3>2 DEF Unanswered
    <2> QED
      BY <2>1, <2>2
  <1>12. Pending'
    BY <1>1, <1>10, <1>11 DEF OnceInv, Pending
  <1> QED
    BY <1>5, <1>8, <1>9, <1>12, Zenon DEF OnceInv

\* The session ends: a 421 comes last, or replies are lost and the end shows.
LEMMA DropOnce ==
  ASSUME TypeInv, OnceInv, SrvDrop
  PROVE  OnceInv'
  <1> s2c \in Seq(ReplySet)
    BY DEF TypeInv, TypeOK
  <1>1. /\ srv.up /\ ~srv'.up /\ c2s' = <<>> /\ UNCHANGED <<stack, pc, made>>
        /\ left'.ops = left.ops
    BY DropForm DEF Down
  <1>2. Now' = Now
    BY <1>1 DEF Now
  <1>3. SentOnce' /\ NoMkd' /\ MadeOnce' /\ Farewell' /\ MkdLast'
    BY <1>1, <1>2 DEF OnceInv, SentOnce, NoMkd, MadeOnce, Farewell, MkdLast
  <1>4. Unexecuted => Unexecuted'
    BY <1>1, <1>2, <1>3 DEF Unexecuted
  <1>5. Unanswered => Unanswered'
    <2> DEFINE bye == Reply(421, "421", NoDir)
    <2>1. s2c' = <<>> \/ s2c # <<>> => s2c' = <<>> \/ Head(s2c') = Head(s2c)
      <3>1. CASE s2c' = Append(s2c, bye)
        <4> HIDE DEF bye
        <4> QED
          BY <3>1
      <3>2. CASE \E n \in 0..Len(s2c) : s2c' = SubSeq(s2c, 1, n)
        BY <3>2
      <3> QED
        BY <3>1, <3>2, DropForm
    <2>2. s2c = <<>> /\ Unanswered => made[Now] = 0
      BY <1>1 DEF Unanswered
    <2> QED
      BY <1>1, <1>2, <2>1, <2>2 DEF Unanswered
  <1>6. Pending'
    BY <1>1, <1>4, <1>5 DEF OnceInv, Pending
  <1> QED
    BY <1>3, <1>6, Zenon DEF OnceInv

LEMMA TypeClock ==
  ASSUME TypeInv, Type
  PROVE  Clock
  BY TypeForm DEF Clock

LEMMA StillClock ==
  ASSUME TypeInv, left' = left
  PROVE  Clock
  BY DEF Clock, TypeInv, TypeOK

LEMMA UserOnce ==
  ASSUME TypeInv, OnceInv, UserStep
  PROVE  OnceInv'
  <1>1. CASE UserMkdir
    BY <1>1, MkdirTypedOnce
  <1>2. CASE ~UserMkdir
    <2>1. PICK d \in Dirs \cup {NoDir}, b \in BOOLEAN :
             \/ UserOpen(d) \/ UserReopen \/ UserUser \/ UserClose
             \/ (d \in Dirs /\ (UserCd(d) \/ UserLs(d))) \/ UserGet(b)
      BY <1>2, Zenon DEF UserStep
    <2>2. Typed /\ Type
      BY <2>1, CommandForm, Zenon
         DEF UserOpen, UserReopen, UserUser, UserClose, UserCd, UserLs, UserGet
    <2> QED
      BY <2>2, TypeClock, AbortedOnce, ContinuedOnce, DialledOnce DEF Typed
  <1> QED
    BY <1>1, <1>2

LEMMA ClientOnce ==
  ASSUME TypeInv, OnceInv, ClientStep
  PROVE  OnceInv'
  <1>1. CASE CmdReply
    <2>1. left' = left
      BY <1>1, Zenon DEF CmdReply
    <2> QED
      BY <1>1, <2>1, CmdReplyForm, StillClock, ReconnectingOnce, ContinuedOnce
  <1>2. CASE CmdEof \/ CmdNoCtrl
    <2>1. left' = left
      BY <1>2, Zenon DEF CmdEof, CmdNoCtrl
    <2> QED
      BY <1>2, <2>1, CmdLostForm, StillClock, ContinuedOnce
  <1>3. CASE ConnectOk
    BY <1>3, ConnectOkOnce
  <1>4. CASE ConnectFail
    BY <1>4, ConnectFailForm, StillClock, AbortedOnce, RedoneOnce
  <1>5. CASE Welcome
    BY <1>5, WelcomeForm, StillClock, GreetingOnce, AbortedOnce, RedoneOnce
  <1>6. CASE RecvEnd \/ RecvBreak \/ AbortPending \/ Drained
    BY <1>6, DataForm, StillClock, AwaitsOnce
  <1>7. CASE SendAbor
    <2>1. left' = left
      BY <1>7 DEF SendAbor
    <2> QED
      BY <1>7, <2>1, StillClock, SendAborOnce
  <1>8. CASE FinalReply \/ FinalEof
    BY <1>8, FinalForm, StillClock, ContinuedOnce
  <1>9. CASE AbortReply \/ AbortEof
    BY <1>9, AbortForm, StillClock, AwaitsOnce, ContinuedOnce
  <1> QED
    BY <1>1, <1>2, <1>3, <1>4, <1>5, <1>6, <1>7, <1>8, <1>9, Zenon DEF ClientStep

LEMMA OnceStep ==
  ASSUME TypeInv, OnceInv, [Next]_vars
  PROVE  OnceInv'
  <1>1. CASE UserStep
    BY <1>1, UserOnce
  <1>2. CASE ClientStep
    BY <1>2, ClientOnce
  <1>3. CASE ServerStep
    BY <1>3, ServerForm, ServedOnce
  <1>4. CASE IntJmp \/ IntAbort \/ IntClose \/ Timeout
    <2>1. left' \in LeftSet /\ left'.ops = left.ops
      BY <1>4, SignalBudget
    <2>2. CASE Aborted
      BY <2>1, <2>2, AbortedOnce DEF Clock
    <2>3. CASE Noted
      BY <2>1, <2>3, SameOnce DEF Noted, net
    <2> QED
      BY <1>4, <2>2, <2>3, SignalForm
  <1>5. CASE SrvDrop
    BY <1>5, DropOnce
  <1>6. CASE \E d \in Dirs : RemoveDir(d)
    <2> UNCHANGED <<stack, pc, c2s, s2c, srv, made, left>>
      BY <1>6 DEF RemoveDir, client
    <2> QED
      BY SameOnce
  <1>7. CASE UNCHANGED vars
    BY <1>7, SameOnce DEF vars
  <1> QED
    BY <1>1, <1>2, <1>3, <1>4, <1>5, <1>6, <1>7, Zenon DEF Next, Quiet

LEMMA OnceInit ==
  ASSUME Init
  PROVE  OnceInv
  <1>1. SentOnce /\ Farewell /\ MkdLast /\ Pending
    BY DEF Init, SentOnce, Farewell, MkdLast, Pending
  <1>2. MadeOnce
    BY DEF Init, MadeOnce
  <1> QED
    BY <1>1, <1>2 DEF OnceInv

\* However often ftp_cmd resends an MKD, and whatever the server, the signals
\* and the commands typed before do, the server executes it at most once.
THEOREM MadeAtMostOnce == Spec => []MkdirOnce
  <1>1. Init => TypeInv /\ OnceInv
    BY TypeInit, OnceInit
  <1>2. TypeInv /\ OnceInv /\ [Next]_vars => TypeInv' /\ OnceInv'
    BY TypeStep, OnceStep
  <1>3. OnceInv => MkdirOnce
    BY DEF OnceInv, MadeOnce, MkdirOnce
  <1> QED
    BY <1>1, <1>2, <1>3, PTL DEF Spec

-----------------------------------------------------------------------------
(* The activations of ftp_cmd.                                             *)

\* The verb each caller of ftp_cmd sends.
Speaks(v, k) ==
  \/ k = "user" /\ v = "USER"
  \/ k = "pass" /\ v = "PASS"
  \/ k \in {"homePwd", "loginCwdPwd", "cdPwd"} /\ v = "PWD"
  \/ k \in {"loginCwd", "cdCwd", "lsCwd", "lsBack"} /\ v = "CWD"
  \/ k \in {"lsPasv", "getPasv"} /\ v = "PASV"
  \/ k = "lsList" /\ v \in {"MLSD", "LIST"}
  \/ k = "mkd" /\ v = "MKD"
  \/ k = "getType" /\ v = "TYPE"
  \/ k = "getRest" /\ v = "REST"
  \/ k = "getRetr" /\ v = "RETR"
  \/ k = "quit" /\ v = "QUIT"

Logins == {"user", "pass", "homePwd", "loginCwd", "loginCwdPwd"}

\* The first activation is one of the command that was typed; an aborted
\* listing has only its way back left.
Owns(o, k) ==
  /\ \/ o.name \in {"open", "reopen", "user"} /\ k \in Logins
     \/ o.name = "cd" /\ k \in {"cdCwd", "cdPwd"}
     \/ o.name = "ls" /\ k \in {"lsCwd", "lsPasv", "lsList", "lsBack"}
     \/ o.name = "mkdir" /\ k = "mkd"
     \/ o.name = "get" /\ k \in {"getPasv", "getType", "getRest", "getRetr"}
     \/ o.name = "close" /\ k = "quit"
  /\ o.abor => k = "lsBack"
  /\ k = "getRest" => o.resume

\* Those above it are of a reconnect's login.
Calls(st, o) ==
  \A i \in DOMAIN st :
    /\ Speaks(st[i].cmd.v, st[i].k)
    /\ IF i = Len(st) THEN Owns(o, st[i].k) ELSE st[i].k \in Logins

Transfers == {"lsList", "getRetr"}
CallsInv ==
  /\ pc \in {"cmd", "connect", "welcome"} => Calls(stack, op)
  /\ pc \in {"connect", "welcome"} /\ stack = <<>> =>
       op.name \in {"open", "reopen"} /\ ~op.abor
  /\ pc \in {"data", "drain", "final", "abort1", "abort2"} =>
       /\ stack # <<>> /\ Tail(stack) = <<>>
       /\ \/ Head(stack).k = "lsList" /\ op.name = "ls"
          \/ Head(stack).k = "getRetr" /\ op.name = "get"
  /\ pc \in {"data", "final"} => ~op.abor

-----------------------------------------------------------------------------
(* The channel.  q and s are the replies in flight and the session.        *)

Bye(r) == r.re = "421" /\ r.full = 421
Final(r) == r.re \in {"none", "list", "retr"} /\ r.full # 421

\* Nothing is due.
Rest(q, s) ==
  ~s.xfer /\ (q = <<>> \/ (~s.up /\ Bye(Head(q)) /\ Tail(q) = <<>>))

\* The end of a transfer is.
Moving(q, s) ==
  \/ s.xfer /\ s.up /\ q = <<>>
  \/ ~s.up /\ Rest(q, s)
  \/ q # <<>> /\ Final(Head(q)) /\ Rest(Tail(q), s)

\* The reply to v is in flight.
Replied(v, q, s) ==
  /\ q # <<>> /\ Head(q).re = v /\ Head(q).full # 421
  /\ v = "ABOR" => Head(q).full = 226
  /\ IF Head(q).full = 150
     THEN v \in {"MLSD", "LIST", "RETR"} /\ Moving(Tail(q), s)
     ELSE Rest(Tail(q), s)

\* The command is on its way; c are the commands in flight.
Sends(cmd, c, s) == c = <<cmd>> /\ s.up

\* The reply to v is all that is due, or it was lost with the session.
Answered(v, c, q, s) == c = <<>> /\ (Replied(v, q, s) \/ (~s.up /\ Rest(q, s)))
Due(cmd, c, q, s) == Answered(cmd.v, c, q, s) \/ (Sends(cmd, c, s) /\ q = <<>> /\ ~s.xfer)

\* So are the end of a transfer and the reply to ABOR.
TwoDue(c, q, s) ==
  \/ Sends(Verb("ABOR"), c, s) /\ Moving(q, s)
  \/ c = <<>> /\ q # <<>> /\ Final(Head(q)) /\ Replied("ABOR", Tail(q), s)
  \/ c = <<>> /\ ~s.up /\ Moving(q, s)

Idle(c, q, s) == c = <<>> /\ Rest(q, s)
Ending(c, q, s) == c = <<>> /\ Moving(q, s)

Synchronous ==
  /\ pc = "prompt" /\ Connected(ftp) => Idle(c2s, s2c, srv)
  /\ ftp.ctrl =>
       /\ pc = "cmd" => Due(Head(stack).cmd, c2s, s2c, srv)
       /\ pc = "welcome" => Answered("banner", c2s, s2c, srv)
       /\ pc \in {"data", "final"} => Ending(c2s, s2c, srv)
       /\ pc = "drain" => IF op.abor THEN TwoDue(c2s, s2c, srv) ELSE Ending(c2s, s2c, srv)
       /\ pc = "abort1" => TwoDue(c2s, s2c, srv)
       /\ pc = "abort2" => Due(Verb("ABOR"), c2s, s2c, srv)
  /\ pc \in {"data", "drain", "final", "abort1", "abort2"} => ftp.ctrl

\* A SIGINT abandons a command and leaves the connection open.
Abandons == (IntJmp \/ IntAbort) /\ pc' = "prompt" /\ Connected(ftp')

\* Where a step of a command, or its end, may lead: f and q are what it
\* leaves of the Ftp structure and of the replies.
Gets == {"getPasv", "getType", "getRest", "getRetr"}
Lists == {"lsCwd", "lsPasv", "lsList", "lsBack"}
Keeps(g, f) ==
  /\ g.ctrl => f.ctrl
  /\ g.connected => f.connected
  /\ g.type = "I" => f.type = "I" \/ Head(stack).k = "getType"
  /\ Head(stack).k \notin Lists => g.cache \subseteq f.cache
Follows(o, cmd, k) ==
  /\ Speaks(cmd.v, k) /\ k # "mkd"
  /\ k \in Gets => op.name = "get"
  /\ k \in Lists => Head(stack).k \in Lists
  /\ IF Head(stack).k \in Logins THEN k \in Logins /\ o = op ELSE Owns(o, k)
Moved(f, q) ==
  \E g : /\ Keeps(g, f)
         /\ \/ Prompt(g, q)
            \/ \E o, cmd, k : Follows(o, cmd, k) /\ Send(g, q, o, cmd, k)
            \/ Tail(stack) # <<>> /\ Resend(g, q, Tail(stack))
            \/ pc' = "crashed" /\ ftp' = g /\ Network(g, q, c2s) /\ UNCHANGED <<stack, op>>

-----------------------------------------------------------------------------
(* Frames and commands.                                                    *)

LEMMA Unstacked ==
  ASSUME NEW S, NEW st \in Seq(S), st # <<>>
  PROVE  Head(st) \in S /\ Tail(st) \in Seq(S) /\ Len(st) = Len(Tail(st)) + 1
  OBVIOUS

LEMMA Stacked ==
  ASSUME NEW S, NEW fr \in S, NEW t \in Seq(S)
  PROVE  /\ <<fr>> \o t \in Seq(S) /\ <<fr>> \o t # <<>>
         /\ Head(<<fr>> \o t) = fr /\ Tail(<<fr>> \o t) = t
         /\ Len(<<fr>> \o t) = Len(t) + 1
  OBVIOUS

LEMMA CallsForm ==
  ASSUME NEW st \in Seq(Fitting), st # <<>>, NEW o
  PROVE  Calls(st, o) <=>
           /\ Speaks(Head(st).cmd.v, Head(st).k)
           /\ IF Tail(st) = <<>> THEN Owns(o, Head(st).k)
              ELSE Head(st).k \in Logins /\ Calls(Tail(st), o)
  <1> DEFINE t == Tail(st)
             n == Len(t)
  <1>1. n \in Nat /\ Len(st) = n + 1 /\ DOMAIN st = 1..(n + 1) /\ DOMAIN t = 1..n
    BY Unstacked
  <1>2. \A i \in 1..n : t[i] = st[i + 1]
    OBVIOUS
  <1>3. st[1] = Head(st)
    OBVIOUS
  <1>4. t = <<>> <=> n = 0
    <2> t \in Seq(Fitting)
      BY Unstacked
    <2> HIDE DEF t
    <2> QED
      BY EmptySeq, Zenon DEF n
  <1> HIDE DEF n, t
  <1>5. ASSUME Calls(st, o)
        PROVE  /\ Speaks(Head(st).cmd.v, Head(st).k)
               /\ IF t = <<>> THEN Owns(o, Head(st).k)
                  ELSE Head(st).k \in Logins /\ Calls(t, o)
    <2>1. 1 \in DOMAIN st
      BY <1>1
    <2>2. Speaks(st[1].cmd.v, st[1].k) /\ IF 1 = n + 1 THEN Owns(o, st[1].k) ELSE st[1].k \in Logins
      BY <1>1, <1>5, <2>1 DEF Calls
    <2>3. ASSUME n # 0 PROVE Calls(t, o)
      <3> SUFFICES ASSUME NEW i \in 1..n
                   PROVE  /\ Speaks(t[i].cmd.v, t[i].k)
                          /\ IF i = n THEN Owns(o, t[i].k) ELSE t[i].k \in Logins
        BY <1>1 DEF Calls, n
      <3> DEFINE ii == i + 1
      <3>1. ii \in DOMAIN st /\ (ii = n + 1 <=> i = n)
        BY <1>1
      <3>2. t[i] = st[ii]
        BY <1>2
      <3> HIDE DEF ii
      <3> QED
        BY <1>1, <1>5, <3>1, <3>2 DEF Calls
    <2>4. 1 = n + 1 <=> n = 0
      BY <1>1
    <2> QED
      BY <1>3, <1>4, <2>2, <2>3, <2>4
  <1>6. ASSUME Speaks(Head(st).cmd.v, Head(st).k),
               IF t = <<>> THEN Owns(o, Head(st).k) ELSE Head(st).k \in Logins /\ Calls(t, o)
        PROVE  Calls(st, o)
    <2> SUFFICES ASSUME NEW i \in 1..(n + 1)
                 PROVE  /\ Speaks(st[i].cmd.v, st[i].k)
                        /\ IF i = n + 1 THEN Owns(o, st[i].k) ELSE st[i].k \in Logins
      BY <1>1 DEF Calls
    <2>1. CASE i = 1
      <3> 1 = n + 1 <=> n = 0
        BY <1>1
      <3> QED
        BY <1>3, <1>4, <1>6, <2>1
    <2>2. CASE i # 1
      <3> DEFINE j == i - 1
      <3>1. j \in 1..n /\ j + 1 = i /\ (j = n <=> i = n + 1) /\ n # 0
        BY <1>1, <2>2
      <3>2. t[j] = st[i]
        BY <1>2, <3>1
      <3> HIDE DEF j
      <3>3. Calls(t, o)
        BY <1>4, <1>6, <3>1
      <3> QED
        BY <1>1, <3>1, <3>2, <3>3 DEF Calls, n
    <2> QED
      BY <2>1, <2>2
  <1> QED
    BY <1>5, <1>6 DEF t


LEMMA CallsCons ==
  ASSUME NEW fr \in Fitting, NEW t \in Seq(Fitting), NEW o
  PROVE  Calls(<<fr>> \o t, o) <=>
           /\ Speaks(fr.cmd.v, fr.k)
           /\ IF t = <<>> THEN Owns(o, fr.k) ELSE fr.k \in Logins /\ Calls(t, o)
  <1> DEFINE st == <<fr>> \o t
  <1>1. st \in Seq(Fitting) /\ st # <<>> /\ Head(st) = fr /\ Tail(st) = t
    BY Stacked
  <1> HIDE DEF st
  <1>2. Calls(st, o) <=> /\ Speaks(fr.cmd.v, fr.k)
                         /\ IF t = <<>> THEN Owns(o, fr.k) ELSE fr.k \in Logins /\ Calls(t, o)
    BY <1>1, CallsForm
  <1> QED
    BY <1>2 DEF st

-----------------------------------------------------------------------------
(* What the helpers of a command leave of the Ftp structure and of the     *)
(* command's locals.                                                       *)

\* Structures that differ in no more than what was learnt of the server.
Alike(g, f) ==
  /\ g.connected = f.connected /\ g.ctrl = f.ctrl
  /\ g.curdir = f.curdir /\ g.urldir = f.urldir /\ g.type = f.type
  /\ g.cache = f.cache /\ g.marks = f.marks
SameJob(p, o) ==
  /\ p.name = o.name /\ p.dir = o.dir /\ p.here = o.here /\ p.abor = o.abor
  /\ p.whole = o.whole /\ p.of = o.of /\ p.resume = o.resume

LEMMA AlikeForms ==
  ASSUME NEW f, Good(f)
  PROVE  /\ Alike(f, f)
         /\ \A b \in BOOLEAN : Alike([f EXCEPT !.loggedin = b], f)
         /\ \A c \in Codes : Alike([f EXCEPT !.full = c], f)
         /\ Alike([f EXCEPT !.hasPasv = FALSE], f)
         /\ Alike([f EXCEPT !.hasMlsd = FALSE], f)
         /\ Alike(NoMorePasv(f), f)
  <1> f \in FtpSet
    BY DEF Good, FtpOK
  <1>1. Alike(f, f)
    BY DEF Alike
  <1>2. \A b \in BOOLEAN : Alike([f EXCEPT !.loggedin = b], f)
    BY DEF Alike, FtpSet
  <1>3. \A c \in Codes : Alike([f EXCEPT !.full = c], f)
    BY DEF Alike, FtpSet
  <1>4. Alike([f EXCEPT !.hasPasv = FALSE], f)
    BY DEF Alike, FtpSet
  <1>5. Alike([f EXCEPT !.hasMlsd = FALSE], f)
    BY DEF Alike, FtpSet
  <1> QED
    BY <1>1, <1>2, <1>3, <1>4, <1>5 DEF NoMorePasv

LEMMA KeepsForms ==
  ASSUME NEW f, Good(f)
  PROVE  /\ \A g : Alike(g, f) => Keeps(g, f)
         /\ \A p \in Paths : Keeps([f EXCEPT !.curdir = p], f)
         /\ Head(stack).k = "getType" => Keeps([f EXCEPT !.type = "I"], f)
         /\ Keeps([f EXCEPT !.marks = @ \cup {f.curdir}], f)
         /\ Keeps(Flush(f), f) /\ Keeps(Close(f), f)
         /\ Head(stack).k \in Lists => \A o : Keeps(ListCached(f, o), f)
  <1> f \in FtpSet
    BY DEF Good, FtpOK
  <1>1. \A g : Alike(g, f) => Keeps(g, f)
    BY DEF Alike, Keeps
  <1>2. \A p \in Paths : Keeps([f EXCEPT !.curdir = p], f)
    BY DEF Keeps, FtpSet
  <1>3. Head(stack).k = "getType" => Keeps([f EXCEPT !.type = "I"], f)
    BY DEF Keeps, FtpSet
  <1>5. Keeps([f EXCEPT !.marks = @ \cup {f.curdir}], f)
    BY DEF Keeps, FtpSet
  <1>6. Keeps(Flush(f), f)
    BY DEF Keeps, FtpSet, Flush
  <1>7. Keeps(Close(f), f)
    <2> ~Close(f).ctrl /\ Good(Close(f))
      BY CloseForm DEF Good
    <2> ~Close(f).connected /\ Close(f).type = "?" /\ Close(f).cache = {}
      BY DEF Close, FtpSet
    <2> QED
      BY DEF Keeps
  <1>8. Head(stack).k \in Lists => \A o : Keeps(ListCached(f, o), f)
    BY DEF Keeps, FtpSet, ListCached
  <1> QED
    BY <1>1, <1>2, <1>3, <1>5, <1>6, <1>7, <1>8

LEMMA KeepsTrans ==
  ASSUME NEW f, NEW g, NEW h, Keeps(g, f), Keeps(h, g)
  PROVE  Keeps(h, f)
  BY DEF Keeps

LEMMA JobForms ==
  ASSUME NEW o \in OpSet
  PROVE  /\ \A v \in {"MLSD", "LIST"} : SameJob([o EXCEPT !.verb = v], o)
                                        /\ [o EXCEPT !.verb = v].failed = o.failed
         /\ SameJob([o EXCEPT !.failed = TRUE], o) /\ [o EXCEPT !.failed = TRUE].failed
         /\ SameJob(o, o)
  BY DEF OpSet, SameJob

\* The listing goes on, or it has failed.
Relists(g, q, p) == Send(g, q, p, Verb("PASV"), "lsPasv")
GivesUp(g, q, p) ==
  /\ p.failed
  /\ IF p.here THEN EndCmd(g, q) ELSE Send(g, q, p, Cmd("CWD", g.curdir, 0), "lsBack")

LEMMA ListFailedMoves ==
  ASSUME NEW f, Good(f), NEW q, NEW o \in OpSet, ListFailed(f, q, o)
  PROVE  \E g, p : /\ Good(g) /\ Alike(g, f) /\ p \in OpSet /\ SameJob(p, o)
                   /\ \/ f.full \div 100 = 5 /\ p.failed = o.failed /\ Relists(g, q, p)
                      \/ GivesUp(g, q, p)
  <1> DEFINE noMlsd == o.verb = "MLSD" /\ f.full \div 100 = 5
             g == IF noMlsd THEN [f EXCEPT !.hasMlsd = FALSE] ELSE f
             list == [o EXCEPT !.verb = "LIST"]
             fail == [o EXCEPT !.failed = TRUE]
  <1>1. Good(g) /\ Alike(g, f)
    BY FieldForms, AlikeForms
  <1>2. /\ list \in OpSet /\ SameJob(list, o) /\ list.failed = o.failed
        /\ fail \in OpSet /\ SameJob(fail, o) /\ fail.failed
    BY OpForms, JobForms
  <1>3. (noMlsd /\ ListPasv(g, q, list)) \/ ListBack(g, q, fail)
    BY Zenon DEF ListFailed
  <1> HIDE DEF g, list, fail
  <1>4. CASE noMlsd /\ ListPasv(g, q, list)
    <2> Relists(g, q, list)
      BY <1>4, Zenon DEF ListPasv, Relists
    <2> f.full \div 100 = 5
      BY <1>4
    <2> QED
      BY <1>1, <1>2, Zenon
  <1>5. CASE ListBack(g, q, fail)
    <2> ListCached(g, fail) = g
      BY <1>2, Zenon DEF ListCached
    <2> GivesUp(g, q, fail)
      BY <1>2, <1>5, Zenon DEF ListBack, GivesUp
    <2> QED
      BY <1>1, <1>2, Zenon
  <1> QED
    BY <1>3, <1>4, <1>5

LEMMA ListStartMoves ==
  ASSUME NEW f, Good(f), NEW q, NEW o \in OpSet, ListStart(f, q, o)
  PROVE  \E g, p : /\ Good(g) /\ Alike(g, f) /\ p \in OpSet /\ SameJob(p, o)
                   /\ (p.failed = o.failed /\ Relists(g, q, p)) \/ GivesUp(g, q, p)
  <1> DEFINE p == [o EXCEPT !.verb = IF f.hasMlsd THEN "MLSD" ELSE "LIST"]
  <1>1. p \in OpSet /\ SameJob(p, o) /\ p.failed = o.failed
    BY OpForms, JobForms
  <1>2. ListPasv(f, q, p) \/ ListFailed(f, q, p)
    BY Zenon DEF ListStart
  <1> HIDE DEF p
  <1>3. CASE ListPasv(f, q, p)
    <2> Relists(f, q, p)
      BY <1>3, Zenon DEF ListPasv, Relists
    <2> QED
      BY <1>1, AlikeForms, Zenon
  <1>4. CASE ListFailed(f, q, p)
    <2> PICK g : \E x : /\ Good(g) /\ Alike(g, f) /\ x \in OpSet /\ SameJob(x, p)
                        /\ \/ f.full \div 100 = 5 /\ x.failed = p.failed /\ Relists(g, q, x)
                           \/ GivesUp(g, q, x)
      BY <1>1, <1>4, ListFailedMoves
    <2> PICK x \in OpSet : /\ Good(g) /\ Alike(g, f) /\ SameJob(x, p)
                           /\ (x.failed = p.failed /\ Relists(g, q, x)) \/ GivesUp(g, q, x)
      BY Zenon
    <2> SameJob(x, o) /\ (x.failed = p.failed => x.failed = o.failed)
      BY <1>1 DEF SameJob
    <2> QED
      BY Zenon
  <1> QED
    BY <1>2, <1>3, <1>4

LEMMA PasvMoves ==
  ASSUME NEW f, Good(f), NEW q, NEW r, op \in OpSet, AfterListPasv(f, q, r)
  PROVE  \/ PasvOk(f, r) /\ srv.data /\ Send(f, q, op, Verb(op.verb), "lsList")
         \/ \E g, p : /\ Good(g) /\ Alike(g, f) /\ p \in OpSet /\ SameJob(p, op)
                      /\ (p.failed = op.failed /\ Relists(g, q, p)) \/ GivesUp(g, q, p)
  <1> DEFINE h == NoMorePasv(f)
  <1>1. Good(h) /\ Alike(h, f)
    BY NoMorePasvForm, AlikeForms
  <1>2. \/ PasvOk(f, r) /\ srv.data /\ Send(f, q, op, Verb(op.verb), "lsList")
        \/ ListFailed(h, q, op)
    BY Zenon DEF AfterListPasv
  <1> HIDE DEF h
  <1>3. CASE ListFailed(h, q, op)
    <2> PICK g : \E x : /\ Good(g) /\ Alike(g, h) /\ x \in OpSet /\ SameJob(x, op)
                        /\ \/ h.full \div 100 = 5 /\ x.failed = op.failed /\ Relists(g, q, x)
                           \/ GivesUp(g, q, x)
      BY <1>1, <1>3, ListFailedMoves
    <2> PICK x \in OpSet : /\ Good(g) /\ Alike(g, h) /\ SameJob(x, op)
                           /\ (x.failed = op.failed /\ Relists(g, q, x)) \/ GivesUp(g, q, x)
      BY Zenon
    <2> Alike(g, f)
      BY <1>1 DEF Alike
    <2> QED
      BY Zenon
  <1> QED
    BY <1>2, <1>3

\* ftp_login returns to the reconnect or to the command line.
Return(f, q) ==
  \/ Tail(stack) # <<>> /\ Resend(f, q, Tail(stack))
  \/ Tail(stack) = <<>> /\ (EndCmd(f, q) \/ EndCmd(Close(f), q))

LEMMA ReturnForm ==
  ASSUME NEW f, NEW q, NEW ok, LoginDone(f, q, ok)
  PROVE  Return(f, q)
  BY Zenon DEF LoginDone, Return

-----------------------------------------------------------------------------
(* Where a command may lead.                                               *)

LEMMA MovedEnd ==
  ASSUME NEW f, NEW g, Good(g), Keeps(g, f), NEW q, EndCmd(g, q)
  PROVE  Moved(f, q)
  <1> Keeps(Flush(g), f)
    BY KeepsForms, KeepsTrans
  <1> Prompt(Flush(g), q)
    BY Zenon DEF EndCmd
  <1> QED
    BY Zenon DEF Moved

LEMMA MovedSend ==
  ASSUME NEW f, NEW g, Keeps(g, f), NEW q, NEW o, NEW cmd, NEW k,
         Follows(o, cmd, k), Send(g, q, o, cmd, k)
  PROVE  Moved(f, q)
  BY Zenon DEF Moved

LEMMA MovedBack ==
  ASSUME NEW f, NEW g, Keeps(g, f), NEW q, Tail(stack) # <<>>, Resend(g, q, Tail(stack))
  PROVE  Moved(f, q)
  BY Zenon DEF Moved

LEMMA MovedReturn ==
  ASSUME NEW f, NEW g, Good(g), Keeps(g, f), NEW q, Return(g, q)
  PROVE  Moved(f, q)
  <1> Good(Close(g)) /\ Keeps(Close(g), f)
    BY CloseForm, KeepsForms, KeepsTrans DEF Good
  <1> QED
    BY MovedEnd, MovedBack DEF Return

\* From one caller of ftp_cmd to the next.
LEMMA LoginFollows ==
  ASSUME NEW k0, NEW k, Head(stack).k = k0, k0 \in Logins, k \in Logins,
         NEW cmd, Speaks(cmd.v, k)
  PROVE  Follows(op, cmd, k)
  BY DEF Follows, Logins, Gets, Lists

LEMMA OwnFollows ==
  ASSUME Head(stack).k \notin Logins, NEW o, NEW k, k # "mkd", Owns(o, k),
         o.name = "ls" => Head(stack).k \in Lists,
         o.name = "get" => op.name = "get",
         NEW cmd, Speaks(cmd.v, k)
  PROVE  Follows(o, cmd, k)
  <1> (k \in Gets => o.name = "get") /\ (k \in Lists => o.name = "ls")
    BY DEF Owns, Gets, Lists, Logins
  <1> QED
    BY DEF Follows

LEMMA VerbForm == 
  /\ \A v : Verb(v).v = v 
  /\ \A v, a : Cmd(v, a, 0).v = v /\ Cmd(v, a, 0).a = a
  BY DEF Verb, Cmd

\* An aborted listing is not made again.
LEMMA ListFollows ==
  ASSUME NEW f, Good(f), NEW q, NEW g, NEW p, Good(g), Alike(g, f),
         Head(stack).k \in Lists, p.name = "ls",
         (~p.abor /\ Relists(g, q, p)) \/ GivesUp(g, q, p)
  PROVE  Moved(f, q)
  <1>0. Head(stack).k \notin Logins
    BY DEF Lists, Logins
  <1>1. Keeps(g, f)
    BY KeepsForms
  <1>2. CASE ~p.abor /\ Relists(g, q, p)
    <2> Owns(p, "lsPasv") /\ Speaks(Verb("PASV").v, "lsPasv")
      BY <1>2, VerbForm DEF Owns, Speaks
    <2> QED
      BY <1>0, <1>1, <1>2, OwnFollows, MovedSend, Zenon DEF Relists
  <1>3. CASE GivesUp(g, q, p)
    <2> Owns(p, "lsBack") /\ Speaks(Cmd("CWD", g.curdir, 0).v, "lsBack")
      BY VerbForm DEF Owns, Speaks
    <2> QED
      BY <1>0, <1>1, <1>3, OwnFollows, MovedSend, MovedEnd, Zenon DEF GivesUp
  <1> QED
    BY <1>2, <1>3

LEMMA LoginAnswerMoves ==
  ASSUME NEW f, Good(f), NEW q, NEW r, Head(stack).k \in Logins, LoginAnswer(f, q, r)
  PROVE  Moved(f, q)
  <1>1. CASE LoginDone([f EXCEPT !.loggedin = r.full = 530 /\ LoggedIn(f)], q, FALSE)
    <2> DEFINE b == r.full = 530 /\ LoggedIn(f)
               g == [f EXCEPT !.loggedin = b]
    <2>1. b \in BOOLEAN
      BY Zenon
    <2> HIDE DEF b
    <2>2. Good(g) /\ Keeps(g, f)
      BY <2>1, FieldForms, AlikeForms, KeepsForms
    <2>3. LoginDone(g, q, FALSE)
      BY <1>1, Zenon DEF b
    <2> HIDE DEF g
    <2> QED
      BY <2>2, <2>3, ReturnForm, MovedReturn
  <1>2. CASE Send([f EXCEPT !.loggedin = TRUE], q, op, Verb("PWD"), "homePwd")
    <2> DEFINE g == [f EXCEPT !.loggedin = TRUE]
    <2>1. Keeps(g, f)
      BY FieldForms, AlikeForms, KeepsForms
    <2> HIDE DEF g
    <2>2. Speaks(Verb("PWD").v, "homePwd") /\ "homePwd" \in Logins
      BY VerbForm DEF Speaks, Logins
    <2> QED
      BY <1>2, <2>1, <2>2, LoginFollows, MovedSend, Zenon DEF g
  <1>3. CASE LoginDone(f, q, FALSE)
    BY <1>3, AlikeForms, KeepsForms, ReturnForm, MovedReturn
  <1> QED
    BY <1>1, <1>2, <1>3, Zenon DEF LoginAnswer

LEMMA AfterUserMoves ==
  ASSUME NEW f, Good(f), NEW q, NEW r, Head(stack).k \in Logins, AfterUser(f, q, r)
  PROVE  Moved(f, q)
  <1>1. CASE Send([f EXCEPT !.loggedin = FALSE], q, op, Verb("PASS"), "pass")
    <2> DEFINE g == [f EXCEPT !.loggedin = FALSE]
    <2>1. Keeps(g, f)
      BY FieldForms, AlikeForms, KeepsForms
    <2> HIDE DEF g
    <2>2. Speaks(Verb("PASS").v, "pass") /\ "pass" \in Logins
      BY VerbForm DEF Speaks, Logins
    <2> QED
      BY <1>1, <2>1, <2>2, LoginFollows, MovedSend, Zenon DEF g
  <1> QED
    BY <1>1, LoginAnswerMoves, Zenon DEF AfterUser

LEMMA AfterHomePwdMoves ==
  ASSUME NEW f, Good(f), NEW q, NEW r \in ReplySet, Head(stack).k \in Logins,
         AfterHomePwd(f, q, r)
  PROVE  Moved(f, q)
  <1> DEFINE g == [f EXCEPT !.curdir = CurDirOf(r)]
  <1>1. Good(g) /\ Keeps(g, f)
    BY CurDirTyped, FieldForms, KeepsForms
  <1>2. \/ pc' = "crashed" /\ ftp' = g /\ Network(g, q, c2s) /\ UNCHANGED <<stack, op>>
        \/ LoginDone(g, q, TRUE)
        \/ Send(g, q, op, Cmd("CWD", g.urldir, 0), "loginCwd")
    BY Zenon DEF AfterHomePwd
  <1> HIDE DEF g
  <1>3. Speaks(Cmd("CWD", g.urldir, 0).v, "loginCwd") /\ "loginCwd" \in Logins
    BY VerbForm DEF Speaks, Logins
  <1>4. CASE pc' = "crashed" /\ ftp' = g /\ Network(g, q, c2s) /\ UNCHANGED <<stack, op>>
    BY <1>1, <1>4, Zenon DEF Moved
  <1> QED
    BY <1>1, <1>2, <1>3, <1>4, LoginFollows, MovedSend, ReturnForm, MovedReturn

LEMMA CwdDoneMoves ==
  ASSUME NEW f, NEW g, Good(g), Keeps(g, f), NEW q, NEW k, CwdDone(g, q, k)
  PROVE  Moved(f, q)
  BY ReturnForm, MovedReturn, MovedEnd, Zenon DEF CwdDone

LEMMA AfterCwdMoves ==
  ASSUME NEW f, Good(f), NEW q, NEW r \in ReplySet, NEW k, AfterCwd(f, q, r, k),
         Follows(op, Verb("PWD"), k)
  PROVE  Moved(f, q)
  <1>1. Keeps(f, f)
    BY DEF Keeps
  <1>2. CASE CwdDone(f, q, k)
    BY <1>1, <1>2, CwdDoneMoves
  <1>3. CASE CwdDone([f EXCEPT !.curdir = r.dir], q, k)
    BY <1>3, CurDirTyped, FieldForms, KeepsForms, CwdDoneMoves
  <1>4. CASE Send(f, q, op, Verb("PWD"), k)
    BY <1>1, <1>4, MovedSend
  <1> QED
    BY <1>2, <1>3, <1>4, Zenon DEF AfterCwd

\* Listings.
LEMMA ListBackMoves ==
  ASSUME NEW f, Good(f), NEW q, op \in OpSet, op.name = "ls",
         Head(stack).k \in Lists, ListBack(f, q, op)
  PROVE  Moved(f, q)
  <1>0. Head(stack).k \notin Logins
    BY DEF Lists, Logins
  <1>1. Good(ListCached(f, op)) /\ Keeps(ListCached(f, op), f) /\ Keeps(f, f)
    BY CachedForm, KeepsForms DEF Keeps
  <1>2. CASE EndCmd(ListCached(f, op), q)
    BY <1>1, <1>2, MovedEnd
  <1>3. CASE Send(f, q, op, Cmd("CWD", f.curdir, 0), "lsBack")
    <2> Owns(op, "lsBack") /\ Speaks(Cmd("CWD", f.curdir, 0).v, "lsBack")
      BY VerbForm DEF Owns, Speaks
    <2> QED
      BY <1>0, <1>1, <1>3, OwnFollows, MovedSend, Zenon
  <1> QED
    BY <1>2, <1>3, Zenon DEF ListBack

LEMMA ListFailedMoved ==
  ASSUME NEW f, Good(f), NEW q, op \in OpSet, op.name = "ls",
         Head(stack).k \in Lists, ListFailed(f, q, op),
         op.abor => f.full \div 100 # 5
  PROVE  Moved(f, q)
  <1> PICK g : \E p : /\ Good(g) /\ Alike(g, f) /\ p \in OpSet /\ SameJob(p, op)
                      /\ \/ f.full \div 100 = 5 /\ p.failed = op.failed /\ Relists(g, q, p)
                         \/ GivesUp(g, q, p)
    BY ListFailedMoves
  <1> PICK p : /\ Good(g) /\ Alike(g, f) /\ p \in OpSet /\ SameJob(p, op)
               /\ \/ f.full \div 100 = 5 /\ p.failed = op.failed /\ Relists(g, q, p)
                  \/ GivesUp(g, q, p)
    OBVIOUS
  <1> p.name = "ls" /\ (p.abor => op.abor)
    BY Zenon DEF SameJob
  <1>1. (~p.abor /\ Relists(g, q, p)) \/ GivesUp(g, q, p)
    BY Zenon
  <1> QED
    BY <1>1, ListFollows

LEMMA ListStartMoved ==
  ASSUME NEW f, Good(f), NEW q, NEW o \in OpSet, o.name = "ls", ~o.abor,
         Head(stack).k \in Lists, ListStart(f, q, o)
  PROVE  Moved(f, q)
  <1> PICK g : \E p : /\ Good(g) /\ Alike(g, f) /\ p \in OpSet /\ SameJob(p, o)
                      /\ (p.failed = o.failed /\ Relists(g, q, p)) \/ GivesUp(g, q, p)
    BY ListStartMoves
  <1> PICK p : /\ Good(g) /\ Alike(g, f) /\ p \in OpSet /\ SameJob(p, o)
               /\ (p.failed = o.failed /\ Relists(g, q, p)) \/ GivesUp(g, q, p)
    OBVIOUS
  <1> p.name = "ls" /\ ~p.abor
    BY Zenon DEF SameJob
  <1>1. (~p.abor /\ Relists(g, q, p)) \/ GivesUp(g, q, p)
    BY Zenon
  <1> QED
    BY <1>1, ListFollows

LEMMA AfterListPasvMoves ==
  ASSUME NEW f, Good(f), NEW q, NEW r, op \in OpSet, op.name = "ls", ~op.abor,
         Head(stack).k \in Lists, AfterListPasv(f, q, r)
  PROVE  Moved(f, q)
  <1>1. CASE Send(f, q, op, Verb(op.verb), "lsList")
    <2> op.verb \in {"MLSD", "LIST"}
      BY DEF OpSet
    <2> Owns(op, "lsList") /\ Speaks(Verb(op.verb).v, "lsList")
      BY VerbForm DEF Owns, Speaks
    <2> Keeps(f, f)
      BY DEF Keeps
    <2> Head(stack).k \notin Logins
      BY DEF Lists, Logins
    <2> QED
      BY <1>1, OwnFollows, MovedSend, Zenon
  <1>2. CASE ListFailed(NoMorePasv(f), q, op)
    <2> DEFINE g == NoMorePasv(f)
    <2>1. Good(g) /\ Keeps(g, f)
      BY NoMorePasvForm, AlikeForms, KeepsForms
    <2> HIDE DEF g
    <2>2. Moved(g, q)
      BY <1>2, <2>1, ListFailedMoved DEF g
    <2> QED
      BY <2>1, <2>2, KeepsTrans, Zenon DEF Moved
  <1> QED
    BY <1>1, <1>2, Zenon DEF AfterListPasv

\* Downloads.
LEMMA RetrieveMoves ==
  ASSUME NEW f, NEW g, Keeps(g, f), NEW q, op.name = "get", ~op.abor,
         Head(stack).k \notin Logins, Retrieve(g, q)
  PROVE  Moved(f, q)
  <1> /\ op.resume => Owns(op, "getRest")
      /\ Speaks(Verb("REST").v, "getRest")
      /\ Owns(op, "getRetr") /\ Speaks(Verb("RETR").v, "getRetr")
    BY VerbForm DEF Owns, Speaks
  <1> QED
    BY OwnFollows, MovedSend, Zenon DEF Retrieve

LEMMA AfterGetPasvMoves ==
  ASSUME NEW f, Good(f), NEW q, NEW r, op.name = "get", ~op.abor,
         Head(stack).k \notin Logins, AfterGetPasv(f, q, r)
  PROVE  Moved(f, q)
  <1> Keeps(f, f)
    BY DEF Keeps
  <1>1. CASE Send(f, q, op, Verb("TYPE"), "getType")
    <2> Owns(op, "getType") /\ Speaks(Verb("TYPE").v, "getType")
      BY VerbForm DEF Owns, Speaks
    <2> QED
      BY <1>1, OwnFollows, MovedSend, Zenon
  <1>2. CASE Retrieve(f, q)
    BY <1>2, RetrieveMoves
  <1>3. CASE EndCmd(NoMorePasv(f), q)
    <2> Good(NoMorePasv(f)) /\ Keeps(NoMorePasv(f), f)
      BY NoMorePasvForm, AlikeForms, KeepsForms
    <2> QED
      BY <1>3, MovedEnd
  <1> QED
    BY <1>1, <1>2, <1>3, Zenon DEF AfterGetPasv

LEMMA AfterTypeMoves ==
  ASSUME NEW f, Good(f), NEW q, NEW r, op.name = "get", ~op.abor,
         Head(stack).k = "getType", AfterType(f, q, r)
  PROVE  Moved(f, q)
  <1> Head(stack).k \notin Logins
    BY DEF Logins
  <1> Keeps(IF Class(r) = 2 THEN [f EXCEPT !.type = "I"] ELSE f, f)
    BY KeepsForms DEF Keeps
  <1> QED
    BY RetrieveMoves, Zenon DEF AfterType

LEMMA AfterRestMoves ==
  ASSUME NEW f, Good(f), NEW q, NEW r, op.name = "get", ~op.abor,
         Head(stack).k \notin Logins, AfterRest(f, q, r)
  PROVE  Moved(f, q)
  <1> Keeps(f, f)
    BY DEF Keeps
  <1> Owns(op, "getRetr") /\ Speaks(Verb("RETR").v, "getRetr")
    BY VerbForm DEF Owns, Speaks
  <1> QED
    BY OwnFollows, MovedSend, MovedEnd, Zenon DEF AfterRest

\* A preliminary reply to RETR or to a listing starts a transfer, and every
\* other reply leads on or ends the command.
Starts(r) == Class(r) = 1 /\ Head(stack).k \in Transfers

LEMMA ContinueMoves ==
  ASSUME stack \in Seq(Fitting), stack # <<>>, Calls(stack, op), op \in OpSet, ~LocalFails,
         NEW f, Good(f), NEW q, NEW r \in ReplySet, Continue(f, q, r)
  PROVE  IF Starts(r) THEN Block(f, q, op, "data") ELSE Moved(f, q)
  <1> DEFINE k == Head(stack).k
  <1>1. Head(stack).k = k
    OBVIOUS
  <1>2. \/ k = "user" /\ AfterUser(f, q, r)
        \/ k = "pass" /\ LoginAnswer(f, q, r)
        \/ k = "homePwd" /\ AfterHomePwd(f, q, r)
        \/ k = "loginCwd" /\ AfterCwd(f, q, r, "loginCwdPwd")
        \/ k = "cdCwd" /\ AfterCwd(f, q, r, "cdPwd")
        \/ k \in {"loginCwdPwd", "cdPwd"} /\ AfterPwd(f, q, r, k)
        \/ k = "lsCwd" /\ ListStart(f, q, op)
        \/ k = "lsCwd" /\ EndCmd(f, q)
        \/ k = "lsPasv" /\ AfterListPasv(f, q, r)
        \/ k = "lsList" /\ AfterList(f, q, r)
        \/ k = "lsBack" /\ EndCmd(ListCached(f, op), q)
        \/ k = "mkd" /\ EndCmd(IF Class(r) = 2
                               THEN [f EXCEPT !.marks = @ \cup {f.curdir}] ELSE f, q)
        \/ k = "getPasv" /\ AfterGetPasv(f, q, r)
        \/ k = "getType" /\ AfterType(f, q, r)
        \/ k = "getRest" /\ AfterRest(f, q, r)
        \/ k = "getRetr" /\ AfterRetr(f, q, r)
        \/ k = "quit" /\ EndCmd(Close(f), q)
    BY Zenon DEF Continue
  <1>3. k \in Logins \/ Owns(op, k)
    BY CallsForm
  <1>4. Keeps(f, f)
    BY DEF Keeps
  <1> HIDE DEF k
  <1>5. ASSUME k \in Logins PROVE ~Starts(r) /\ Moved(f, q)
    <2>1. ~Starts(r)
      BY <1>1, <1>5 DEF Starts, Logins, Transfers
    <2>2. CASE k = "user"
      BY <1>1, <1>2, <2>1, <2>2, AfterUserMoves DEF Logins
    <2>3. CASE k = "pass"
      BY <1>1, <1>2, <2>1, <2>3, LoginAnswerMoves DEF Logins
    <2>4. CASE k = "homePwd"
      BY <1>1, <1>2, <2>1, <2>4, AfterHomePwdMoves DEF Logins
    <2>5. CASE k = "loginCwd"
      <3> Speaks(Verb("PWD").v, "loginCwdPwd") /\ "loginCwdPwd" \in Logins /\ "loginCwd" \in Logins
        BY VerbForm DEF Speaks, Logins
      <3> Follows(op, Verb("PWD"), "loginCwdPwd")
        BY <1>1, <2>5, LoginFollows
      <3> AfterCwd(f, q, r, "loginCwdPwd")
        BY <1>2, <2>5
      <3> QED
        BY <2>1, AfterCwdMoves
    <2>6. CASE k = "loginCwdPwd"
      <3> CwdDone([f EXCEPT !.curdir = CurDirOf(r)], q, k)
        BY <1>2, <2>6, Zenon DEF AfterPwd
      <3> QED
        BY <2>1, CurDirTyped, FieldForms, KeepsForms, CwdDoneMoves
    <2> QED
      BY <1>5, <2>1, <2>2, <2>3, <2>4, <2>5, <2>6 DEF Logins
  <1>6. ASSUME k \notin Logins, k \notin Transfers PROVE ~Starts(r) /\ Moved(f, q)
    <2>1. ~Starts(r)
      BY <1>1, <1>6 DEF Starts
    <2>2. Owns(op, k) /\ (op.abor => k = "lsBack")
      BY <1>3, <1>6 DEF Owns
    <2>3. CASE k \in {"cdCwd", "cdPwd"}
      <3>1. CASE k = "cdCwd"
        <4> Owns(op, "cdPwd") /\ Speaks(Verb("PWD").v, "cdPwd")
          BY <2>2, <3>1, VerbForm DEF Owns, Speaks, Logins
        <4> op.name = "cd"
          BY <2>2, <3>1 DEF Owns, Logins
        <4> Follows(op, Verb("PWD"), "cdPwd")
          BY <1>1, <1>6, OwnFollows
        <4> AfterCwd(f, q, r, "cdPwd")
          BY <1>2, <3>1
        <4> QED
          BY <2>1, AfterCwdMoves
      <3>2. CASE k = "cdPwd"
        <4> CwdDone([f EXCEPT !.curdir = CurDirOf(r)], q, k)
          BY <1>2, <3>2, Zenon DEF AfterPwd
        <4> QED
          BY <2>1, CurDirTyped, FieldForms, KeepsForms, CwdDoneMoves
      <3> QED
        BY <2>3, <3>1, <3>2
    <2>4. CASE k \in {"lsCwd", "lsPasv", "lsBack"}
      <3>1. op.name = "ls" /\ k \in Lists
        BY <2>2, <2>4 DEF Owns, Logins, Lists
      <3>2. CASE k = "lsCwd" /\ ListStart(f, q, op)
        BY <1>1, <1>6, <2>1, <2>2, <3>1, <3>2, ListStartMoved
      <3>3. CASE k = "lsCwd" /\ EndCmd(f, q)
        BY <1>4, <2>1, <3>3, MovedEnd
      <3>4. CASE k = "lsPasv" /\ AfterListPasv(f, q, r)
        BY <1>1, <1>6, <2>1, <2>2, <3>1, <3>4, AfterListPasvMoves
      <3>5. CASE k = "lsBack" /\ EndCmd(ListCached(f, op), q)
        BY <1>1, <2>1, <3>1, <3>5, CachedForm, KeepsForms, MovedEnd
      <3> QED
        BY <1>2, <2>4, <3>2, <3>3, <3>4, <3>5
    <2>5. CASE k = "mkd"
      <3> DEFINE g == IF Class(r) = 2 THEN [f EXCEPT !.marks = @ \cup {f.curdir}] ELSE f
      <3>1. Good(g) /\ Keeps(g, f)
        BY <1>4, FieldForms, KeepsForms
      <3>2. EndCmd(g, q)
        BY <1>2, <2>5, Zenon
      <3> HIDE DEF g
      <3> QED
        BY <2>1, <3>1, <3>2, MovedEnd
    <2>6. CASE k \in {"getPasv", "getType", "getRest"}
      <3>1. op.name = "get" /\ ~op.abor
        BY <2>2, <2>6 DEF Owns, Logins
      <3> QED
        BY <1>1, <1>2, <1>6, <2>1, <2>6, <3>1, AfterGetPasvMoves, AfterTypeMoves, AfterRestMoves
    <2>7. CASE k = "quit"
      <3> EndCmd(Close(f), q)
        BY <1>2, <2>7
      <3> QED
        BY <2>1, CloseForm, KeepsForms, MovedEnd DEF Good
    <2> QED
      BY <1>6, <2>2, <2>3, <2>4, <2>5, <2>6, <2>7 DEF Owns, Transfers, Logins
  <1>7. ASSUME k \in Transfers
        PROVE  IF Starts(r) THEN Block(f, q, op, "data") ELSE Moved(f, q)
    <2>1. /\ k \notin Logins /\ Owns(op, k) /\ ~op.abor
          /\ op.name = IF k = "lsList" THEN "ls" ELSE "get"
      BY <1>3, <1>7 DEF Owns, Transfers, Logins
    <2>2. CASE Class(r) = 1
      <3> Starts(r)
        BY <1>1, <1>7, <2>2 DEF Starts
      <3>1. CASE k = "lsList"
        BY <1>2, <2>2, <3>1, Zenon DEF AfterList
      <3>2. CASE k = "getRetr"
        BY <1>2, <2>2, <3>2, Zenon DEF AfterRetr
      <3> QED
        BY <1>7, <3>1, <3>2 DEF Transfers
    <2>3. CASE Class(r) # 1
      <3> ~Starts(r)
        BY <2>3 DEF Starts
      <3>1. CASE k = "lsList"
        <4> ListFailed(f, q, op)
          BY <1>2, <2>3, <3>1, Zenon DEF AfterList
        <4> k \in Lists
          BY <3>1 DEF Lists
        <4> QED
          BY <1>1, <2>1, <3>1, ListFailedMoved
      <3>2. CASE k = "getRetr"
        <4> EndCmd(f, q)
          BY <1>2, <2>3, <3>2, Zenon DEF AfterRetr
        <4> QED
          BY <1>4, MovedEnd
      <3> QED
        BY <1>7, <3>1, <3>2 DEF Transfers
    <2> QED
      BY <2>2, <2>3
  <1> QED
    BY <1>5, <1>6, <1>7

-----------------------------------------------------------------------------
(* The channel as the client leaves it.                                    *)

LEMMA Classes ==
  /\ \A c \in Codes : c \div 100 = 1 <=> c = 150
  /\ 226 \div 100 # 5 /\ 421 \div 100 # 5 /\ 0 \div 100 # 5 /\ 0 \div 100 # 1
  BY DEF Codes

LEMMA MovingOn ==
  ASSUME NEW q, NEW s, Moving(q, s)
  PROVE  /\ q # <<>> => Rest(Tail(q), s)
         /\ ~s.up => (q = <<>> => Rest(q, s))
  BY DEF Moving, Rest

LEMMA RestOn ==
  ASSUME NEW q, NEW s, Rest(q, s)
  PROVE  /\ q # <<>> => Bye(Head(q)) /\ Tail(q) = <<>> /\ Rest(Tail(q), s) /\ ~s.up
         /\ s.up => q = <<>> /\ ~s.xfer
  BY DEF Rest

LEMMA RepliedOn ==
  ASSUME NEW v, NEW q, NEW s, Replied(v, q, s)
  PROVE  /\ q # <<>> /\ Head(q).re = v
         /\ IF Head(q).full = 150 THEN v \in {"MLSD", "LIST", "RETR"} /\ Moving(Tail(q), s)
            ELSE Rest(Tail(q), s)
  BY DEF Replied

\* A command sent, and the prompt reached, over an idle channel.
LEMMA IdleForm ==
  ASSUME NEW g, g.ctrl, NEW q, c2s = <<>>, Rest(q, srv), NEW cmd
  PROVE  /\ Network(g, q, Append(c2s, cmd)) => Due(cmd, c2s', s2c', srv')
         /\ Network(g, q, c2s) => Idle(c2s', s2c', srv')
  <1>1. ASSUME Network(g, q, Append(c2s, cmd)) PROVE Due(cmd, c2s', s2c', srv')
    <2>1. s2c' = q /\ srv' = srv /\ c2s' = IF srv.up THEN Append(c2s, cmd) ELSE <<>>
      BY <1>1, Zenon DEF Network
    <2>2. Append(c2s, cmd) = <<cmd>>
      OBVIOUS
    <2>3. CASE srv.up
      <3>1. q = <<>> /\ ~srv.xfer
        BY <2>3, RestOn
      <3> QED
        BY <2>1, <2>2, <2>3, <3>1, Zenon DEF Due, Sends
    <2>4. CASE ~srv.up
      <3>1. c2s' = <<>> /\ ~srv'.up /\ Rest(s2c', srv')
        BY <2>1, <2>4
      <3> QED
        BY <3>1, Zenon DEF Due, Answered
    <2> QED
      BY <2>3, <2>4
  <1>2. ASSUME Network(g, q, c2s) PROVE Idle(c2s', s2c', srv')
    <2>1. s2c' = q /\ srv' = srv /\ c2s' = <<>>
      BY <1>2, Zenon DEF Network
    <2> QED
      BY <2>1, Zenon DEF Idle
  <1> QED
    BY <1>1, <1>2

Moment == {"data", "drain", "final", "abort1", "abort2"}

LEMMA PromptSync ==
  ASSUME NEW g, NEW q, Prompt(g, q), g.ctrl => c2s = <<>> /\ Rest(q, srv)
  PROVE  CallsInv' /\ Synchronous'
  <1>1. pc' = "prompt" /\ ftp' = g /\ Network(g, q, c2s)
    BY Zenon DEF Prompt
  <1>2. CallsInv'
    BY <1>1 DEF CallsInv
  <1>3. g.ctrl => Idle(c2s', s2c', srv')
    BY <1>1, IdleForm
  <1> QED
    BY <1>1, <1>2, <1>3 DEF Synchronous, Connected

LEMMA FrameHead ==
  ASSUME NEW fr, NEW S, NEW t \in Seq(S)
  PROVE  <<fr>> \o t # <<>> /\ Head(<<fr>> \o t) = fr /\ Tail(<<fr>> \o t) = t
  <1> fr \in S \cup {fr} /\ t \in Seq(S \cup {fr})
    <2> S \subseteq S \cup {fr}
      OBVIOUS
    <2> QED
      BY SeqMonotonic, Zenon
  <1> QED
    BY Stacked

LEMMA SendSync ==
  ASSUME TypeInv', NEW g, NEW q, NEW o, NEW cmd, NEW k, NEW below \in Seq(Fitting),
         Issue(g, q, o, cmd, k, below),
         Speaks(cmd.v, k),
         IF below = <<>> THEN Owns(o, k) ELSE k \in Logins /\ Calls(below, o),
         g.ctrl => c2s = <<>> /\ Rest(q, srv)
  PROVE  CallsInv' /\ Synchronous'
  <1> DEFINE fr == [cmd |-> cmd, recon |-> FALSE, k |-> k]
  <1>1. /\ pc' = "cmd" /\ ftp' = g /\ op' = o /\ stack' = <<fr>> \o below
        /\ Network(g, q, Append(c2s, cmd))
    BY Zenon DEF Issue
  <1>2. fr.cmd = cmd /\ fr.k = k
    OBVIOUS
  <1> HIDE DEF fr
  <1>3. stack' # <<>> /\ Head(stack') = fr /\ Tail(stack') = below
    BY <1>1, FrameHead
  <1>4. Calls(stack', op')
    <2> stack' \in Seq(Fitting)
      BY DEF TypeInv
    <2> QED
      BY <1>1, <1>2, <1>3, CallsForm
  <1>5. CallsInv'
    BY <1>1, <1>3, <1>4 DEF CallsInv, Calls
  <1>6. g.ctrl => Due(Head(stack').cmd, c2s', s2c', srv')
    BY <1>1, <1>2, <1>3, IdleForm
  <1>7. Synchronous'
    BY <1>1, <1>6 DEF Synchronous
  <1> QED
    BY <1>5, <1>7

LEMMA ResendSync ==
  ASSUME TypeInv', NEW g, NEW q, NEW frames \in Seq(Fitting), frames # <<>>,
         Calls(frames, op), Resend(g, q, frames),
         g.ctrl => c2s = <<>> /\ Rest(q, srv)
  PROVE  CallsInv' /\ Synchronous'
  <1> PICK a \in Paths :
        /\ ftp' = g /\ stack' = <<[Head(frames) EXCEPT !.cmd.a = a]>> \o Tail(frames)
        /\ pc' = "cmd" /\ op' = op
        /\ Network(g, q, Append(c2s, [Head(frames) EXCEPT !.cmd.a = a].cmd))
    BY Zenon DEF Resend
  <1> DEFINE fr == [Head(frames) EXCEPT !.cmd.a = a]
  <1>1. Head(frames) \in Fitting /\ Tail(frames) \in Seq(Fitting)
    BY Unstacked
  <1>2. fr.cmd.v = Head(frames).cmd.v /\ fr.k = Head(frames).k
    BY <1>1 DEF Fitting, FrameSet, CmdSet
  <1>3. stack' = <<fr>> \o Tail(frames) /\ Network(g, q, Append(c2s, fr.cmd))
    OBVIOUS
  <1> HIDE DEF fr
  <1>4. stack' # <<>> /\ Head(stack') = fr /\ Tail(stack') = Tail(frames)
    BY <1>1, <1>3, FrameHead
  <1>5. Calls(stack', op')
    <2> stack' \in Seq(Fitting)
      BY DEF TypeInv
    <2> QED
      BY <1>2, <1>4, CallsForm
  <1>6. CallsInv'
    BY <1>4, <1>5 DEF CallsInv, Calls
  <1>7. g.ctrl => Due(Head(stack').cmd, c2s', s2c', srv')
    BY <1>3, <1>4, IdleForm
  <1>8. Synchronous'
    BY <1>7 DEF Synchronous
  <1> QED
    BY <1>6, <1>8

\* The activation on top is that of a login only under the commands that
\* make one, and under a reconnect.
Nested ==
  /\ stack # <<>>
  /\ IF Tail(stack) = <<>> THEN Head(stack).k \in Logins => Owns(op, Head(stack).k)
     ELSE Head(stack).k \in Logins /\ Calls(Tail(stack), op)

LEMMA NestedForm ==
  ASSUME TypeInv, CallsInv, stack # <<>>, pc # "prompt", pc # "crashed"
  PROVE  Nested
  <1> stack \in Seq(Fitting) /\ pc \in Points
    BY DEF TypeInv, TypeOK
  <1>1. CASE pc \in {"cmd", "connect", "welcome"}
    BY <1>1, CallsForm DEF CallsInv, Nested
  <1>2. CASE pc \in Moment
    <2> Tail(stack) = <<>> /\ Head(stack).k \in {"lsList", "getRetr"}
      BY <1>2 DEF CallsInv, Moment
    <2> QED
      BY DEF Nested, Logins
  <1> QED
    BY <1>1, <1>2 DEF Points, Moment

LEMMA MovedSync ==
  ASSUME TypeInv, TypeInv', Nested, NEW f, NEW q, Moved(f, q),
         f.ctrl => c2s = <<>> /\ Rest(q, srv)
  PROVE  CallsInv' /\ Synchronous'
  <1> PICK g : /\ Keeps(g, f)
               /\ \/ Prompt(g, q)
                  \/ \E o, cmd, k : Follows(o, cmd, k) /\ Send(g, q, o, cmd, k)
                  \/ Tail(stack) # <<>> /\ Resend(g, q, Tail(stack))
                  \/ pc' = "crashed" /\ ftp' = g /\ Network(g, q, c2s) /\ UNCHANGED <<stack, op>>
    BY Zenon DEF Moved
  <1>1. g.ctrl => c2s = <<>> /\ Rest(q, srv)
    BY DEF Keeps
  <1>2. stack # <<>> /\ Tail(stack) \in Seq(Fitting)
    BY DEF Nested, TypeInv
  <1>3. CASE Prompt(g, q)
    BY <1>1, <1>3, PromptSync
  <1>4. CASE \E o, cmd, k : Follows(o, cmd, k) /\ Send(g, q, o, cmd, k)
    <2> PICK o : \E cmd, k : Follows(o, cmd, k) /\ Send(g, q, o, cmd, k)
      BY <1>4
    <2> PICK cmd : \E k : Follows(o, cmd, k) /\ Send(g, q, o, cmd, k)
      OBVIOUS
    <2> PICK k : Follows(o, cmd, k) /\ Send(g, q, o, cmd, k)
      OBVIOUS
    <2>1. Issue(g, q, o, cmd, k, Tail(stack))
      BY <1>2, Zenon DEF Send
    <2>2. IF Tail(stack) = <<>> THEN Owns(o, k) ELSE k \in Logins /\ Calls(Tail(stack), o)
      <3>1. CASE Head(stack).k \notin Logins
        BY <3>1 DEF Follows, Nested
      <3>2. CASE Head(stack).k \in Logins /\ Tail(stack) # <<>>
        BY <3>2 DEF Follows, Nested
      <3>3. CASE Head(stack).k \in Logins /\ Tail(stack) = <<>>
        <4> Owns(op, Head(stack).k) /\ k \in Logins /\ o = op
          BY <3>3 DEF Follows, Nested
        <4> QED
          BY <3>3 DEF Owns, Logins
      <3> QED
        BY <3>1, <3>2, <3>3
    <2>3. Speaks(cmd.v, k)
      BY DEF Follows
    <2> QED
      BY <1>1, <1>2, <2>1, <2>2, <2>3, SendSync
  <1>5. CASE Tail(stack) # <<>> /\ Resend(g, q, Tail(stack))
    <2> Calls(Tail(stack), op)
      BY <1>5 DEF Nested
    <2> QED
      BY <1>1, <1>2, <1>5, ResendSync
  <1>6. CASE pc' = "crashed" /\ ftp' = g /\ UNCHANGED <<stack, op>>
    BY <1>6 DEF CallsInv, Synchronous
  <1> QED
    BY <1>3, <1>4, <1>5, <1>6

\* The client waits on the data connection, or for what ends a transfer.
LEMMA BlockSync ==
  ASSUME TypeInv, NEW f, NEW q, NEW o, NEW p \in {"data", "final"}, Block(f, q, o, p),
         stack # <<>>, Tail(stack) = <<>>,
         \/ Head(stack).k = "lsList" /\ o.name = "ls"
         \/ Head(stack).k = "getRetr" /\ o.name = "get",
         ~o.abor, f.ctrl, c2s = <<>>, Moving(q, srv)
  PROVE  CallsInv' /\ Synchronous'
  <1>1. pc' = p /\ ftp' = f /\ op' = o /\ stack' = stack /\ Network(f, q, c2s)
    BY Zenon DEF Block
  <1>2. s2c' = q /\ srv' = srv /\ c2s' = <<>>
    BY <1>1, Zenon DEF Network
  <1>3. CallsInv'
    BY <1>1 DEF CallsInv
  <1>4. Ending(c2s', s2c', srv')
    BY <1>2, Zenon DEF Ending
  <1>5. Synchronous'
    BY <1>1, <1>4 DEF Synchronous
  <1> QED
    BY <1>3, <1>5

-----------------------------------------------------------------------------
(* The replies.                                                            *)

LEMMA FullForm ==
  ASSUME TypeInv, pc \notin Opening, s2c # <<>>
  PROVE  /\ Head(s2c) \in ReplySet /\ Tail(s2c) \in Seq(ReplySet)
         /\ Good([ftp EXCEPT !.full = Head(s2c).full])
         /\ Alike([ftp EXCEPT !.full = Head(s2c).full], ftp)
         /\ [ftp EXCEPT !.full = Head(s2c).full].full = Head(s2c).full
         /\ [ftp EXCEPT !.full = Head(s2c).full].loggedin = ftp.loggedin
  <1>1. s2c \in Seq(ReplySet) /\ ftp \in FtpSet /\ Good(ftp)
    BY DEF TypeInv, TypeOK, Good
  <1>2. Head(s2c) \in ReplySet /\ Tail(s2c) \in Seq(ReplySet)
    BY <1>1
  <1>3. Head(s2c).full \in Codes
    BY <1>2 DEF ReplySet
  <1>4. Good([ftp EXCEPT !.full = Head(s2c).full]) /\ Alike([ftp EXCEPT !.full = Head(s2c).full], ftp)
    BY <1>1, <1>3, FieldForms, AlikeForms
  <1>5. /\ [ftp EXCEPT !.full = Head(s2c).full].full = Head(s2c).full
        /\ [ftp EXCEPT !.full = Head(s2c).full].loggedin = ftp.loggedin
    BY <1>1 DEF FtpSet
  <1> QED
    BY <1>2, <1>4, <1>5

LEMMA ClosedForm ==
  ASSUME TypeInv
  PROVE  Good(Close(ftp)) /\ ~Close(ftp).ctrl /\ Close(ftp).full = 0
  BY CloseForm DEF TypeInv, Good

\* A reply starts a transfer exactly when the end of it is still due.
LEMMA ReplyForm ==
  ASSUME TypeInv, CallsInv, pc = "cmd", s2c # <<>>, Due(Head(stack).cmd, c2s, s2c, srv)
  PROVE  /\ c2s = <<>>
         /\ IF Starts(Head(s2c)) THEN Moving(Tail(s2c), srv) ELSE Rest(Tail(s2c), srv)
         /\ Head(s2c).full = 421 => ~Starts(Head(s2c))
  <1> DEFINE r == Head(s2c)
             k == Head(stack).k
             v == Head(stack).cmd.v
  <1>1. stack # <<>> /\ stack \in Seq(Fitting) /\ Calls(stack, op)
    BY DEF TypeInv, CallsInv
  <1>2. Speaks(v, k)
    BY <1>1, CallsForm
  <1>3. r \in ReplySet
    BY DEF TypeInv, TypeOK
  <1>4. r.full \in Codes
    BY <1>3 DEF ReplySet
  <1>5. Class(r) = 1 <=> r.full = 150
    BY <1>4, Classes DEF Class
  <1>6. c2s = <<>> /\ (Replied(v, s2c, srv) \/ Rest(s2c, srv))
    BY DEF Due, Answered
  <1>7. CASE Rest(s2c, srv)
    <2> Bye(r) /\ Rest(Tail(s2c), srv)
      BY <1>7, RestOn
    <2> r.full # 150
      BY DEF Bye
    <2> ~Starts(r)
      BY <1>5 DEF Starts
    <2> QED
      BY <1>6
  <1>8. CASE Replied(v, s2c, srv)
    <2>1. IF r.full = 150 THEN v \in {"MLSD", "LIST", "RETR"} /\ Moving(Tail(s2c), srv)
          ELSE Rest(Tail(s2c), srv)
      BY <1>8, RepliedOn
    <2>2. v \in {"MLSD", "LIST", "RETR"} => k \in Transfers
      BY <1>2 DEF Speaks, Transfers
    <2>3. Starts(r) <=> r.full = 150
      BY <1>5, <2>1, <2>2 DEF Starts
    <2> QED
      BY <1>6, <2>1, <2>3
  <1> QED
    BY <1>6, <1>7, <1>8

LEMMA CmdReplySync ==
  ASSUME TypeInv, TypeInv', CallsInv, Synchronous, ~LocalFails, CmdReply
  PROVE  CallsInv' /\ Synchronous'
  <1> DEFINE r == Head(s2c)
             f == [ftp EXCEPT !.full = Head(s2c).full]
  <1>1. pc = "cmd" /\ ftp.ctrl /\ s2c # <<>>
    BY Zenon DEF CmdReply
  <1>2. /\ r \in ReplySet /\ Good(f) /\ f.ctrl
        /\ stack \in Seq(Fitting) /\ stack # <<>> /\ Calls(stack, op) /\ op \in OpSet
    BY <1>1, FullForm DEF Opening, Alike, TypeInv, TypeOK, CallsInv
  <1>3. /\ c2s = <<>>
        /\ IF Starts(r) THEN Moving(Tail(s2c), srv) ELSE Rest(Tail(s2c), srv)
    BY <1>1, ReplyForm DEF Synchronous
  <1>4. \/ pc' = "connect" /\ op' = op /\ stack' = [stack EXCEPT ![1].recon = TRUE]
        \/ Continue(f, Tail(s2c), r)
    BY Zenon DEF CmdReply
  <1> HIDE DEF r, f
  <1>5. CASE pc' = "connect" /\ op' = op /\ stack' = [stack EXCEPT ![1].recon = TRUE]
    <2>1. Len(stack') = Len(stack) /\ DOMAIN stack' = DOMAIN stack /\ Len(stack) # 0
      BY <1>2, <1>5
    <2>2. \A i \in DOMAIN stack : stack'[i].cmd.v = stack[i].cmd.v /\ stack'[i].k = stack[i].k
      <3> SUFFICES ASSUME NEW i \in DOMAIN stack
                   PROVE  stack'[i].cmd.v = stack[i].cmd.v /\ stack'[i].k = stack[i].k
        OBVIOUS
      <3> stack[i] \in Fitting
        BY <1>2
      <3>1. CASE i = 1
        <4> stack'[i] = [stack[i] EXCEPT !.recon = TRUE]
          BY <1>2, <1>5, <3>1
        <4> QED
          BY DEF Fitting, FrameSet
      <3>2. CASE i # 1
        BY <1>2, <1>5, <3>2
      <3> QED
        BY <3>1, <3>2
    <2>3. Calls(stack', op')
      BY <1>2, <1>5, <2>1, <2>2 DEF Calls
    <2>4. stack' # <<>>
      BY <2>1, EmptySeq
    <2> QED
      BY <1>5, <2>3, <2>4 DEF CallsInv, Synchronous, Calls
  <1>6. CASE Continue(f, Tail(s2c), r)
    <2>1. IF Starts(r) THEN Block(f, Tail(s2c), op, "data") ELSE Moved(f, Tail(s2c))
      BY <1>2, <1>6, ContinueMoves
    <2>2. CASE Starts(r)
      <3>1. Block(f, Tail(s2c), op, "data") /\ Moving(Tail(s2c), srv)
        BY <1>3, <2>1, <2>2
      <3>2. Head(stack).k \in Transfers /\ Head(stack).k \notin Logins
        BY <2>2 DEF Starts, Transfers, Logins
      <3>3. Tail(stack) = <<>> /\ Owns(op, Head(stack).k)
        BY <1>2, <3>2, CallsForm
      <3>4. /\ \/ Head(stack).k = "lsList" /\ op.name = "ls"
               \/ Head(stack).k = "getRetr" /\ op.name = "get"
            /\ ~op.abor
        BY <3>2, <3>3 DEF Owns, Transfers, Logins
      <3> QED
        BY <1>2, <1>3, <3>1, <3>3, <3>4, BlockSync
    <2>3. CASE ~Starts(r)
      <3>1. Moved(f, Tail(s2c)) /\ Rest(Tail(s2c), srv)
        BY <1>3, <2>1, <2>3
      <3>2. Nested
        BY <1>1, <1>2, NestedForm
      <3> QED
        BY <1>3, <3>1, <3>2, MovedSync
    <2> QED
      BY <2>2, <2>3
  <1> QED
    BY <1>4, <1>5, <1>6

\* Without a connection every reply is NoReply, which starts nothing.
LEMMA NoReplyForm == Class(NoReply) = 0 /\ ~Starts(NoReply)
  <1> NoReply.full = 0
    BY DEF NoReply, Reply
  <1> Class(NoReply) = 0
    BY DEF Class
  <1> QED
    BY DEF Starts

LEMMA CmdLostSync ==
  ASSUME TypeInv, TypeInv', CallsInv, ~LocalFails, CmdEof \/ CmdNoCtrl
  PROVE  CallsInv' /\ Synchronous'
  <1>1. pc = "cmd"
    BY Zenon DEF CmdEof, CmdNoCtrl
  <1>2. /\ stack \in Seq(Fitting) /\ stack # <<>> /\ Calls(stack, op) /\ op \in OpSet
    BY <1>1 DEF TypeInv, TypeOK, CallsInv
  <1>3. \E f : Good(f) /\ ~f.ctrl /\ Continue(f, <<>>, NoReply)
    <2>1. CASE CmdEof
      BY <2>1, ClosedForm, Zenon DEF CmdEof
    <2>2. CASE CmdNoCtrl
      <3> DEFINE f == [ftp EXCEPT !.full = 0]
      <3>1. ~ftp.ctrl /\ Continue(f, <<>>, NoReply)
        BY <2>2, Zenon DEF CmdNoCtrl
      <3>2. Good(ftp) /\ 0 \in Codes
        BY <1>1 DEF TypeInv, Good, Opening, Codes
      <3>3. Good(f) /\ Alike(f, ftp)
        BY <3>2, FieldForms, AlikeForms
      <3> HIDE DEF f
      <3> QED
        BY <3>1, <3>3 DEF Alike
    <2> QED
      BY <2>1, <2>2
  <1> PICK f : Good(f) /\ ~f.ctrl /\ Continue(f, <<>>, NoReply)
    BY <1>3
  <1>4. Moved(f, <<>>)
    BY <1>2, ContinueMoves, NoReplyForm, NoReplyTyped
  <1>5. Nested
    BY <1>1, <1>2, NestedForm
  <1> QED
    BY <1>4, <1>5, MovedSync

-----------------------------------------------------------------------------
(* Connecting.                                                             *)

LEMMA OpenFailedSync ==
  ASSUME TypeInv, TypeInv', CallsInv, pc \in {"connect", "welcome"}, NEW f, Good(f), ~f.ctrl,
         OpenFailed(f)
  PROVE  CallsInv' /\ Synchronous'
  <1>1. CASE stack = <<>>
    <2> Prompt(Flush(f), <<>>)
      BY <1>1, Zenon DEF OpenFailed, EndCmd
    <2> ~Flush(f).ctrl
      BY KeepsForms DEF Keeps
    <2> QED
      BY PromptSync
  <1>2. CASE stack # <<>>
    <2> Resend(f, <<>>, stack)
      BY <1>2, Zenon DEF OpenFailed
    <2> stack \in Seq(Fitting) /\ Calls(stack, op)
      BY DEF TypeInv, CallsInv
    <2> QED
      BY <1>2, ResendSync
  <1> QED
    BY <1>1, <1>2

LEMMA ConnectFailSync ==
  ASSUME TypeInv, TypeInv', CallsInv, ConnectFail
  PROVE  CallsInv' /\ Synchronous'
  <1> pc = "connect" /\ OpenFailed(Close(ftp))
    BY Zenon DEF ConnectFail
  <1> QED
    BY ClosedForm, OpenFailedSync

LEMMA ConnectOkSync ==
  ASSUME TypeInv, CallsInv, ConnectOk
  PROVE  CallsInv' /\ Synchronous'
  <1>1. pc = "connect" /\ pc' = "welcome" /\ c2s' = <<>> /\ UNCHANGED <<stack, op>>
    BY Zenon DEF ConnectOk
  <1>2. CallsInv'
    BY <1>1 DEF CallsInv, Calls
  <1>3. Answered("banner", c2s', s2c', srv')
    <2>1. CASE srv' = NewSession /\ s2c' = <<Reply(220, "banner", NoDir)>>
      <3> DEFINE r == Reply(220, "banner", NoDir)
      <3>1. s2c' # <<>> /\ Head(s2c') = r /\ Tail(s2c') = <<>>
        BY <2>1
      <3>2. r.re = "banner" /\ r.full = 220
        BY DEF Reply
      <3>3. ~srv'.xfer
        BY <2>1 DEF NewSession, Down
      <3> HIDE DEF r
      <3>4. Rest(Tail(s2c'), srv')
        BY <3>1, <3>3 DEF Rest
      <3>5. Replied("banner", s2c', srv')
        BY <3>1, <3>2, <3>4 DEF Replied
      <3> QED
        BY <1>1, <3>5 DEF Answered
    <2>2. CASE srv' = Down /\ s2c' = <<Reply(421, "421", NoDir)>>
      <3> DEFINE r == Reply(421, "421", NoDir)
      <3>1. Head(s2c') = r /\ Tail(s2c') = <<>>
        BY <2>2
      <3>2. r.re = "421" /\ r.full = 421
        BY DEF Reply
      <3>3. ~srv'.xfer /\ ~srv'.up
        BY <2>2 DEF Down
      <3> HIDE DEF r
      <3>4. Rest(s2c', srv')
        BY <3>1, <3>2, <3>3 DEF Rest, Bye
      <3> QED
        BY <1>1, <3>3, <3>4 DEF Answered
    <2> QED
      BY <2>1, <2>2, Zenon DEF ConnectOk
  <1> QED
    BY <1>1, <1>2, <1>3 DEF Synchronous

LEMMA WelcomeSync ==
  ASSUME TypeInv, TypeInv', CallsInv, Synchronous, Welcome
  PROVE  CallsInv' /\ Synchronous'
  <1>1. pc = "welcome" /\ ftp.ctrl
    BY Zenon DEF Welcome
  <1>2. Answered("banner", c2s, s2c, srv)
    BY <1>1 DEF Synchronous
  <1>3. CASE OpenFailed(Close(ftp))
    BY <1>1, <1>3, ClosedForm, OpenFailedSync
  <1>4. CASE /\ s2c # <<>> /\ Head(s2c).full = 220
             /\ \E f : Issue(f, Tail(s2c), op, Verb("USER"), "user", stack)
    <2> PICK f : Issue(f, Tail(s2c), op, Verb("USER"), "user", stack)
      BY <1>4
    <2>1. c2s = <<>> /\ Rest(Tail(s2c), srv)
      <3>1. CASE Replied("banner", s2c, srv)
        BY <1>2, <1>4, <3>1, RepliedOn DEF Answered
      <3>2. CASE Rest(s2c, srv)
        BY <1>2, <1>4, <3>2, RestOn DEF Answered
      <3> QED
        BY <1>2, <3>1, <3>2 DEF Answered
    <2>2. Speaks(Verb("USER").v, "user") /\ "user" \in Logins
      BY VerbForm DEF Speaks, Logins
    <2>3. IF stack = <<>> THEN Owns(op, "user") ELSE "user" \in Logins /\ Calls(stack, op)
      <3>1. CASE stack = <<>>
        BY <1>1, <2>2, <3>1 DEF CallsInv, Owns
      <3>2. CASE stack # <<>>
        BY <1>1, <2>2, <3>2 DEF CallsInv
      <3> QED
        BY <3>1, <3>2
    <2>4. stack \in Seq(Fitting)
      BY DEF TypeInv
    <2> QED
      BY <2>1, <2>2, <2>3, <2>4, SendSync
  <1> QED
    BY <1>3, <1>4, Zenon DEF Welcome

-----------------------------------------------------------------------------
(* Transfers.                                                              *)

\* The client waits on; what it has not read stays in the channel.
LEMMA WaitsForm ==
  ASSUME NEW f, f.ctrl, NEW q, ~srv.up => c2s = <<>>
  PROVE  /\ Network(f, q, c2s) => s2c' = q /\ srv' = srv /\ c2s' = c2s
         /\ \A o, p : Block(f, q, o, p) =>
              /\ pc' = p /\ op' = o /\ ftp' = f /\ stack' = stack
              /\ s2c' = q /\ srv' = srv /\ c2s' = c2s
  <1>1. ASSUME Network(f, q, c2s) PROVE s2c' = q /\ srv' = srv /\ c2s' = c2s
    BY <1>1, Zenon DEF Network
  <1>2. ASSUME NEW o, NEW p, Block(f, q, o, p)
        PROVE  /\ pc' = p /\ op' = o /\ ftp' = f /\ stack' = stack
               /\ s2c' = q /\ srv' = srv /\ c2s' = c2s
    BY <1>1, <1>2, Zenon DEF Block
  <1> QED
    BY <1>1, <1>2

LEMMA TwoDueOn ==
  ASSUME NEW c, NEW q, NEW s, TwoDue(c, q, s)
  PROVE  /\ ~s.up => c = <<>>
         /\ q # <<>> => Due(Verb("ABOR"), c, Tail(q), s)
  <1>1. Verb("ABOR").v = "ABOR"
    BY VerbForm
  <1>2. CASE Sends(Verb("ABOR"), c, s) /\ Moving(q, s)
    <2>1. s.up
      BY <1>2 DEF Sends
    <2>2. ASSUME q # <<>> PROVE Tail(q) = <<>> /\ ~s.xfer
      <3> Rest(Tail(q), s)
        BY <1>2, <2>2, MovingOn
      <3> QED
        BY <2>1, RestOn
    <2> QED
      BY <1>2, <2>1, <2>2 DEF Due
  <1>3. CASE c = <<>> /\ q # <<>> /\ Final(Head(q)) /\ Replied("ABOR", Tail(q), s)
    BY <1>1, <1>3 DEF Due, Answered
  <1>4. CASE c = <<>> /\ ~s.up /\ Moving(q, s)
    BY <1>4, MovingOn DEF Due, Answered
  <1> QED
    BY <1>2, <1>3, <1>4 DEF TwoDue

LEMMA AborOn ==
  ASSUME NEW c, NEW q, NEW s, Due(Verb("ABOR"), c, q, s)
  PROVE  /\ ~s.up => c = <<>>
         /\ q # <<>> => c = <<>> /\ Rest(Tail(q), s) /\ Head(q).full \in {226, 421}
  <1>1. Verb("ABOR").v = "ABOR"
    BY VerbForm
  <1>2. CASE c = <<>> /\ Replied("ABOR", q, s)
    BY <1>2 DEF Replied
  <1>3. CASE c = <<>> /\ ~s.up /\ Rest(q, s)
    BY <1>3, RestOn DEF Bye
  <1>4. CASE Sends(Verb("ABOR"), c, s) /\ q = <<>>
    BY <1>4 DEF Sends
  <1> QED
    BY <1>1, <1>2, <1>3, <1>4 DEF Due, Answered

LEMMA DataSync ==
  ASSUME TypeInv, CallsInv, Synchronous,
         RecvEnd \/ RecvBreak \/ AbortPending \/ SendAbor \/ Drained
  PROVE  CallsInv' /\ Synchronous'
  <1>1. pc \in Moment
    BY Zenon DEF RecvEnd, RecvBreak, AbortPending, SendAbor, Drained, Moment
  <1>2. /\ stack # <<>> /\ Tail(stack) = <<>> /\ ftp.ctrl
        /\ \/ Head(stack).k = "lsList" /\ op.name = "ls"
           \/ Head(stack).k = "getRetr" /\ op.name = "get"
    BY <1>1 DEF CallsInv, Moment, Synchronous
  <1>3. op \in OpSet /\ dconn.whole \in BOOLEAN /\ dconn.of \in Paths
    BY DEF TypeInv, TypeOK, DconnSet
  <1>4. ASSUME pc = "data"
        PROVE  c2s = <<>> /\ Moving(s2c, srv) /\ ~op.abor
    BY <1>2, <1>4 DEF Synchronous, CallsInv, Ending
  <1>5. ASSUME NEW o, Block(ftp, s2c, o, "final"), o.name = op.name, ~o.abor,
               c2s = <<>>, Moving(s2c, srv)
        PROVE  CallsInv' /\ Synchronous'
    BY <1>2, <1>5, BlockSync
  <1>6. CASE RecvEnd \/ RecvBreak
    <2>1. pc = "data"
      BY <1>6, Zenon DEF RecvEnd, RecvBreak
    <2>2. \E b \in BOOLEAN, p \in Paths :
            \/ Block(ftp, s2c, [op EXCEPT !.whole = b, !.of = p], "final")
            \/ Block(ftp, s2c, [op EXCEPT !.whole = b], "final")
      <3>1. CASE RecvEnd
        BY <1>3, <3>1, Zenon DEF RecvEnd
      <3>2. CASE RecvBreak
        BY <1>3, <3>2, Zenon DEF RecvBreak
      <3> QED
        BY <1>6, <3>1, <3>2
    <2> PICK b \in BOOLEAN, p \in Paths :
          \/ Block(ftp, s2c, [op EXCEPT !.whole = b, !.of = p], "final")
          \/ Block(ftp, s2c, [op EXCEPT !.whole = b], "final")
      BY <2>2
    <2> DEFINE o1 == [op EXCEPT !.whole = b, !.of = p]
               o2 == [op EXCEPT !.whole = b]
    <2>3. o1.name = op.name /\ o1.abor = op.abor /\ o2.name = op.name /\ o2.abor = op.abor
      BY <1>3 DEF OpSet
    <2>4. Block(ftp, s2c, o1, "final") \/ Block(ftp, s2c, o2, "final")
      OBVIOUS
    <2> HIDE DEF o1, o2
    <2> QED
      BY <1>4, <1>5, <2>1, <2>3, <2>4
  <1>7. CASE AbortPending
    <2> DEFINE b == op.name = "get"
               o == [op EXCEPT !.whole = FALSE, !.of = dconn.of, !.failed = b]
    <2>1. pc = "data" /\ Block(ftp, s2c, o, "drain")
      BY <1>7, Zenon DEF AbortPending
    <2>2. o.name = op.name /\ o.abor = op.abor
      BY <1>3 DEF OpSet
    <2> HIDE DEF b, o
    <2>3. /\ pc' = "drain" /\ op' = o /\ ftp' = ftp /\ stack' = stack
          /\ s2c' = s2c /\ srv' = srv /\ c2s' = c2s
      BY <1>2, <1>4, <2>1, WaitsForm
    <2>4. Ending(c2s', s2c', srv')
      BY <1>4, <2>1, <2>3 DEF Ending
    <2>5. CallsInv'
      BY <1>2, <2>2, <2>3 DEF CallsInv
    <2> QED
      BY <1>2, <1>4, <2>1, <2>2, <2>3, <2>4, <2>5 DEF Synchronous
  <1>8. CASE SendAbor
    <2>1. /\ pc = "data" /\ ftp' = ftp /\ op' = [op EXCEPT !.abor = TRUE] /\ pc' = "drain"
          /\ stack' = stack /\ Network(ftp, s2c, Append(c2s, Verb("ABOR")))
      BY <1>8, Zenon DEF SendAbor
    <2>2. op'.name = op.name /\ op'.abor
      BY <1>3, <2>1 DEF OpSet
    <2>3. s2c' = s2c /\ srv' = srv /\ c2s' = IF srv.up THEN Append(c2s, Verb("ABOR")) ELSE <<>>
      BY <1>2, <2>1, Zenon DEF Network
    <2>4. Append(c2s, Verb("ABOR")) = <<Verb("ABOR")>>
      BY <1>4, <2>1
    <2>5. TwoDue(c2s', s2c', srv')
      BY <1>4, <2>1, <2>3, <2>4 DEF TwoDue, Sends
    <2>6. CallsInv'
      BY <1>2, <2>1, <2>2 DEF CallsInv
    <2> QED
      BY <1>2, <2>1, <2>2, <2>5, <2>6 DEF Synchronous
  <1>9. CASE Drained
    <2>1. pc = "drain" /\ Block(ftp, s2c, op, IF op.abor THEN "abort1" ELSE "final")
      BY <1>9, Zenon DEF Drained
    <2>2. IF op.abor THEN TwoDue(c2s, s2c, srv) ELSE Ending(c2s, s2c, srv)
      BY <1>2, <2>1 DEF Synchronous
    <2>3. CASE ~op.abor
      BY <1>5, <2>1, <2>2, <2>3 DEF Ending
    <2>4. CASE op.abor
      <3>1. Block(ftp, s2c, op, "abort1") /\ TwoDue(c2s, s2c, srv)
        BY <2>1, <2>2, <2>4
      <3>2. /\ pc' = "abort1" /\ op' = op /\ ftp' = ftp /\ stack' = stack
            /\ s2c' = s2c /\ srv' = srv /\ c2s' = c2s
        BY <1>2, <3>1, TwoDueOn, WaitsForm
      <3>3. CallsInv'
        BY <1>2, <3>2 DEF CallsInv
      <3> QED
        BY <1>2, <3>1, <3>2, <3>3 DEF Synchronous
    <2> QED
      BY <2>3, <2>4
  <1> QED
    BY <1>6, <1>7, <1>8, <1>9

LEMMA TransferEndMoves ==
  ASSUME TypeInv, pc = "final", CallsInv, NEW f, Good(f), NEW q, NEW r, TransferEnd(f, q, r)
  PROVE  Moved(f, q)
  <1>1. /\ op.name = "ls" => Head(stack).k \in Lists
        /\ ~op.abor /\ op \in OpSet /\ Keeps(f, f)
    BY DEF CallsInv, Lists, TypeInv, TypeOK, Keeps
  <1>2. \/ op.name = "ls" /\ (ListBack(f, q, op) \/ ListFailed(f, q, op))
        \/ EndCmd(f, q)
    BY Zenon DEF TransferEnd
  <1>3. CASE EndCmd(f, q)
    BY <1>1, <1>3, MovedEnd
  <1>4. CASE op.name = "ls" /\ ListBack(f, q, op)
    BY <1>1, <1>4, ListBackMoves
  <1>5. CASE op.name = "ls" /\ ListFailed(f, q, op)
    BY <1>1, <1>5, ListFailedMoved
  <1> QED
    BY <1>2, <1>3, <1>4, <1>5

LEMMA FinalSync ==
  ASSUME TypeInv, TypeInv', CallsInv, Synchronous, FinalReply \/ FinalEof
  PROVE  CallsInv' /\ Synchronous'
  <1>1. pc = "final"
    BY Zenon DEF FinalReply, FinalEof
  <1>2. stack # <<>> /\ ftp.ctrl /\ c2s = <<>> /\ Moving(s2c, srv)
    BY <1>1 DEF CallsInv, Synchronous, Ending
  <1>3. Nested
    BY <1>1, <1>2, NestedForm
  <1>4. CASE FinalReply
    <2> DEFINE f == [ftp EXCEPT !.full = Head(s2c).full]
    <2>1. s2c # <<>> /\ TransferEnd(f, Tail(s2c), Head(s2c))
      BY <1>4, Zenon DEF FinalReply
    <2>2. Good(f)
      BY <1>1, <2>1, FullForm DEF Opening
    <2> HIDE DEF f
    <2>3. Moved(f, Tail(s2c))
      BY <1>1, <2>1, <2>2, TransferEndMoves
    <2>4. Rest(Tail(s2c), srv)
      BY <1>2, <2>1, MovingOn
    <2> QED
      BY <1>2, <1>3, <2>3, <2>4, MovedSync
  <1>5. CASE FinalEof
    <2>1. TransferEnd(Close(ftp), <<>>, NoReply)
      BY <1>5, Zenon DEF FinalEof
    <2>2. Moved(Close(ftp), <<>>)
      BY <1>1, <2>1, ClosedForm, TransferEndMoves
    <2> QED
      BY <1>3, <2>2, ClosedForm, MovedSync
  <1> QED
    BY <1>4, <1>5

LEMMA AbortDoneMoves ==
  ASSUME TypeInv, CallsInv, pc \in {"abort1", "abort2"}, NEW f, Good(f), NEW q,
         f.full \div 100 # 5, AbortDone(f, q)
  PROVE  Moved(f, q)
  <1>1. (op.name = "ls" => Head(stack).k \in Lists) /\ op \in OpSet /\ Keeps(f, f)
    BY DEF CallsInv, Lists, TypeInv, TypeOK, Keeps
  <1>2. (op.name = "ls" /\ ListFailed(f, q, op)) \/ EndCmd(f, q)
    BY Zenon DEF AbortDone
  <1>3. CASE EndCmd(f, q)
    BY <1>1, <1>3, MovedEnd
  <1>4. CASE op.name = "ls" /\ ListFailed(f, q, op)
    BY <1>1, <1>4, ListFailedMoved
  <1> QED
    BY <1>2, <1>3, <1>4

LEMMA AbortSync ==
  ASSUME TypeInv, TypeInv', CallsInv, Synchronous, AbortReply \/ AbortEof
  PROVE  CallsInv' /\ Synchronous'
  <1>1. pc \in {"abort1", "abort2"}
    BY Zenon DEF AbortReply, AbortEof
  <1>2. /\ stack # <<>> /\ Tail(stack) = <<>> /\ ftp.ctrl
        /\ \/ Head(stack).k = "lsList" /\ op.name = "ls"
           \/ Head(stack).k = "getRetr" /\ op.name = "get"
    BY <1>1 DEF CallsInv, Synchronous
  <1>3. Nested
    BY <1>1, <1>2, NestedForm
  <1>4. CASE AbortReply
    <2> DEFINE f == [ftp EXCEPT !.full = Head(s2c).full]
    <2>1. s2c # <<>> /\ IF pc = "abort1" THEN Block(f, Tail(s2c), op, "abort2")
                        ELSE AbortDone(f, Tail(s2c))
      BY <1>4, Zenon DEF AbortReply
    <2>2. Good(f) /\ f.ctrl /\ f.full = Head(s2c).full
      BY <1>1, <1>2, <2>1, FullForm DEF Opening, Alike
    <2> HIDE DEF f
    <2>3. CASE pc = "abort1"
      <3>1. TwoDue(c2s, s2c, srv)
        BY <1>2, <2>3 DEF Synchronous
      <3>2. Due(Verb("ABOR"), c2s, Tail(s2c), srv) /\ (~srv.up => c2s = <<>>)
        BY <2>1, <3>1, TwoDueOn
      <3>3. /\ pc' = "abort2" /\ op' = op /\ ftp' = f /\ stack' = stack
            /\ s2c' = Tail(s2c) /\ srv' = srv /\ c2s' = c2s
        BY <2>1, <2>2, <2>3, <3>2, WaitsForm
      <3>4. CallsInv'
        BY <1>2, <3>3 DEF CallsInv
      <3> QED
        BY <2>2, <3>2, <3>3, <3>4 DEF Synchronous
    <2>4. CASE pc = "abort2"
      <3>1. Due(Verb("ABOR"), c2s, s2c, srv)
        BY <1>2, <2>4 DEF Synchronous
      <3>2. c2s = <<>> /\ Rest(Tail(s2c), srv) /\ Head(s2c).full \in {226, 421}
        BY <2>1, <3>1, AborOn
      <3>3. f.full \div 100 # 5
        BY <2>2, <3>2, Classes
      <3>4. Moved(f, Tail(s2c))
        BY <2>1, <2>2, <2>4, <3>3, AbortDoneMoves
      <3> QED
        BY <1>3, <3>2, <3>4, MovedSync
    <2> QED
      BY <1>1, <2>3, <2>4
  <1>5. CASE AbortEof
    <2>1. AbortDone(Close(ftp), <<>>)
      BY <1>5, Zenon DEF AbortEof
    <2>2. Close(ftp).full \div 100 # 5
      BY ClosedForm, Classes
    <2>3. Moved(Close(ftp), <<>>)
      BY <1>1, <2>1, <2>2, ClosedForm, AbortDoneMoves
    <2> QED
      BY <1>3, <2>3, ClosedForm, MovedSync
  <1> QED
    BY <1>4, <1>5

-----------------------------------------------------------------------------
(* Commands typed at the prompt.                                           *)

LEMMA UserSendSync ==
  ASSUME TypeInv, TypeInv', stack = <<>>, NEW q, NEW o, NEW cmd, NEW k,
         Send(ftp, q, o, cmd, k), Speaks(cmd.v, k), Owns(o, k),
         c2s = <<>>, Rest(q, srv)
  PROVE  CallsInv' /\ Synchronous'
  <1>1. Issue(ftp, q, o, cmd, k, <<>>)
    BY Zenon DEF Send
  <1>2. <<>> \in Seq(Fitting)
    OBVIOUS
  <1> QED
    BY <1>1, <1>2, SendSync

LEMMA UserEndSync ==
  ASSUME TypeInv, NEW f, Good(f), f.ctrl => c2s = <<>> /\ Rest(s2c, srv), EndCmd(f, s2c)
  PROVE  CallsInv' /\ Synchronous'
  <1>1. Prompt(Flush(f), s2c)
    BY Zenon DEF EndCmd
  <1>2. Flush(f).ctrl => f.ctrl
    BY KeepsForms DEF Keeps
  <1> QED
    BY <1>1, <1>2, PromptSync

LEMMA DialSync ==
  ASSUME TypeInv, NEW f, NEW s \in {"open", "reopen"}, NEW d \in Paths,
         Dial(f, [NoOp EXCEPT !.name = s, !.dir = d]) \/ Dial(f, [NoOp EXCEPT !.name = s])
  PROVE  CallsInv' /\ Synchronous'
  <1> DEFINE o1 == [NoOp EXCEPT !.name = s, !.dir = d]
             o2 == [NoOp EXCEPT !.name = s]
  <1>1. o1.name = s /\ ~o1.abor /\ o2.name = s /\ ~o2.abor
    BY DEF NoOp
  <1>2. Dial(f, o1) \/ Dial(f, o2)
    OBVIOUS
  <1> HIDE DEF o1, o2
  <1>3. pc' = "connect" /\ stack' = <<>> /\ op' \in {o1, o2}
    BY <1>2, Zenon DEF Dial
  <1>4. CallsInv'
    BY <1>1, <1>3 DEF CallsInv, Calls
  <1> QED
    BY <1>3, <1>4 DEF Synchronous

LEMMA UserLsSync ==
  ASSUME TypeInv, TypeInv', stack = <<>>, Good(ftp), c2s = <<>>, Rest(s2c, srv),
         NEW o \in OpSet, o.name = "ls", ~o.abor,
         \/ EndCmd(ftp, s2c)
         \/ ListStart(ftp, s2c, o)
         \/ \E d : Send(ftp, s2c, o, Cmd("CWD", d, 0), "lsCwd")
  PROVE  CallsInv' /\ Synchronous'
  <1>1. CASE EndCmd(ftp, s2c)
    BY <1>1, UserEndSync
  <1>2. CASE \E d : Send(ftp, s2c, o, Cmd("CWD", d, 0), "lsCwd")
    <2> PICK d : Send(ftp, s2c, o, Cmd("CWD", d, 0), "lsCwd")
      BY <1>2
    <2> Speaks(Cmd("CWD", d, 0).v, "lsCwd") /\ Owns(o, "lsCwd")
      BY VerbForm DEF Speaks, Owns
    <2> QED
      BY UserSendSync
  <1>3. CASE ListStart(ftp, s2c, o)
    <2> PICK g : \E p : /\ Good(g) /\ Alike(g, ftp) /\ p \in OpSet /\ SameJob(p, o)
                        /\ (p.failed = o.failed /\ Relists(g, s2c, p)) \/ GivesUp(g, s2c, p)
      BY <1>3, ListStartMoves
    <2> PICK p : /\ Good(g) /\ Alike(g, ftp) /\ p \in OpSet /\ SameJob(p, o)
                 /\ (p.failed = o.failed /\ Relists(g, s2c, p)) \/ GivesUp(g, s2c, p)
      OBVIOUS
    <2>1. p.name = "ls" /\ ~p.abor
      BY Zenon DEF SameJob
    <2>2. /\ Owns(p, "lsPasv") /\ Speaks(Verb("PASV").v, "lsPasv")
          /\ Owns(p, "lsBack") /\ Speaks(Cmd("CWD", g.curdir, 0).v, "lsBack")
      BY <2>1, VerbForm DEF Owns, Speaks
    <2>3. \/ Send(g, s2c, p, Verb("PASV"), "lsPasv")
          \/ EndCmd(g, s2c)
          \/ Send(g, s2c, p, Cmd("CWD", g.curdir, 0), "lsBack")
      BY Zenon DEF Relists, GivesUp
    <2>4. CASE EndCmd(g, s2c)
      BY <2>4, UserEndSync
    <2>5. <<>> \in Seq(Fitting)
      OBVIOUS
    <2>6. CASE Send(g, s2c, p, Verb("PASV"), "lsPasv")
      <3> Issue(g, s2c, p, Verb("PASV"), "lsPasv", <<>>)
        BY <2>6, Zenon DEF Send
      <3> QED
        BY <2>2, <2>5, SendSync
    <2>7. CASE Send(g, s2c, p, Cmd("CWD", g.curdir, 0), "lsBack")
      <3> DEFINE cmd == Cmd("CWD", g.curdir, 0)
      <3> Issue(g, s2c, p, cmd, "lsBack", <<>>)
        BY <2>7, Zenon DEF Send
      <3> Speaks(cmd.v, "lsBack")
        BY <2>2
      <3> HIDE DEF cmd
      <3> QED
        BY <2>2, <2>5, SendSync
    <2> QED
      BY <2>3, <2>4, <2>6, <2>7
  <1> QED
    BY <1>1, <1>2, <1>3

LEMMA UserSync ==
  ASSUME TypeInv, TypeInv', Synchronous, UserStep
  PROVE  CallsInv' /\ Synchronous'
  <1>1. pc = "prompt"
    BY Zenon DEF UserStep, UserOpen, UserReopen, UserUser, UserMkdir, UserClose, UserCd,
                 UserLs, UserGet, Type
  <1>2. stack = <<>> /\ ftp.curdir \in Paths /\ Dirs \subseteq Paths /\ NoDir \in Paths
    BY <1>1, PathsTyped DEF TypeInv, TypeOK, FtpSet
  <1>3. ASSUME Connected(ftp) PROVE Good(ftp) /\ c2s = <<>> /\ Rest(s2c, srv)
    BY <1>1, <1>3 DEF TypeInv, Good, Live, Connected, Synchronous, Idle
  <1>4. LoggedIn(ftp) => Connected(ftp)
    BY DEF LoggedIn, Connected
  <1>5. CASE \E d \in Dirs \cup {NoDir} : UserOpen(d)
    <2> PICK d \in Dirs \cup {NoDir} : UserOpen(d)
      BY <1>5
    <2> Dial(Close(ftp), [NoOp EXCEPT !.name = "open", !.dir = d]) /\ d \in Paths
      BY <1>2, Zenon DEF UserOpen
    <2> QED
      BY DialSync
  <1>6. CASE UserReopen
    <2> Dial(ftp, [NoOp EXCEPT !.name = "reopen"])
      BY <1>6, Zenon DEF UserReopen
    <2> QED
      BY <1>2, DialSync
  <1>7. CASE UserUser
    <2> DEFINE o == [NoOp EXCEPT !.name = "user"]
    <2>1. Connected(ftp) /\ Send(ftp, s2c, o, Verb("USER"), "user")
      BY <1>7, Zenon DEF UserUser
    <2>2. o.name = "user" /\ ~o.abor
      BY DEF NoOp
    <2> HIDE DEF o
    <2>3. Speaks(Verb("USER").v, "user") /\ Owns(o, "user")
      BY <2>2, VerbForm DEF Speaks, Owns, Logins
    <2> QED
      BY <1>2, <1>3, <2>1, <2>3, UserSendSync
  <1>8. CASE UserMkdir
    <2> DEFINE o == [NoOp EXCEPT !.name = "mkdir", !.dir = ftp.curdir]
               cmd == Cmd("MKD", ftp.curdir, MaxOps - left.ops + 1)
    <2>1. LoggedIn(ftp) /\ Send(ftp, s2c, o, cmd, "mkd")
      BY <1>8, Zenon DEF UserMkdir
    <2>2. o.name = "mkdir" /\ ~o.abor /\ cmd.v = "MKD"
      BY DEF NoOp, Cmd
    <2> HIDE DEF o, cmd
    <2>3. Speaks(cmd.v, "mkd") /\ Owns(o, "mkd")
      BY <2>2 DEF Speaks, Owns
    <2> QED
      BY <1>2, <1>3, <1>4, <2>1, <2>3, UserSendSync
  <1>9. CASE UserClose
    <2> DEFINE o == [NoOp EXCEPT !.name = "close"]
    <2>1. IF Connected(ftp) THEN Send(ftp, s2c, o, Verb("QUIT"), "quit")
          ELSE EndCmd(Close(ftp), s2c)
      BY <1>9, Zenon DEF UserClose
    <2>2. o.name = "close" /\ ~o.abor
      BY DEF NoOp
    <2> HIDE DEF o
    <2>3. Speaks(Verb("QUIT").v, "quit") /\ Owns(o, "quit")
      BY <2>2, VerbForm DEF Speaks, Owns
    <2>4. CASE Connected(ftp)
      BY <1>2, <1>3, <2>1, <2>3, <2>4, UserSendSync
    <2>5. CASE ~Connected(ftp)
      BY <2>1, <2>5, ClosedForm, UserEndSync
    <2> QED
      BY <2>4, <2>5
  <1>10. CASE \E d \in Dirs : UserCd(d) \/ UserLs(d)
    <2> PICK d \in Dirs : UserCd(d) \/ UserLs(d)
      BY <1>10
    <2>1. CASE UserCd(d)
      <3> DEFINE o == [NoOp EXCEPT !.name = "cd"]
      <3>1. LoggedIn(ftp) /\ Send(ftp, s2c, o, Cmd("CWD", d, 0), "cdCwd")
        BY <2>1, Zenon DEF UserCd
      <3>2. o.name = "cd" /\ ~o.abor
        BY DEF NoOp
      <3> HIDE DEF o
      <3>3. Speaks(Cmd("CWD", d, 0).v, "cdCwd") /\ Owns(o, "cdCwd")
        BY <3>2, VerbForm DEF Speaks, Owns
      <3> QED
        BY <1>2, <1>3, <1>4, <3>1, <3>3, UserSendSync
    <2>2. CASE UserLs(d)
      <3> DEFINE b == d = ftp.curdir
                 o == [NoOp EXCEPT !.name = "ls", !.dir = d, !.here = b]
      <3>1. b \in BOOLEAN /\ d \in Paths
        BY <1>2, Zenon
      <3> HIDE DEF b
      <3>2. o \in OpSet
        <4> op \in OpSet
          BY DEF TypeInv, TypeOK
        <4> QED
          BY <3>1, OpForms, Zenon
      <3>3. o.name = "ls" /\ ~o.abor
        BY DEF NoOp
      <3>4. /\ LoggedIn(ftp)
            /\ \/ EndCmd(ftp, s2c)
               \/ ListStart(ftp, s2c, o)
               \/ \E x : Send(ftp, s2c, o, Cmd("CWD", x, 0), "lsCwd")
        BY <2>2, Zenon DEF UserLs, b
      <3> HIDE DEF o
      <3> QED
        BY <1>2, <1>3, <1>4, <3>2, <3>3, <3>4, UserLsSync
    <2> QED
      BY <2>1, <2>2
  <1>11. CASE \E resume \in BOOLEAN : UserGet(resume)
    <2> PICK resume \in BOOLEAN : UserGet(resume)
      BY <1>11
    <2> DEFINE o == [NoOp EXCEPT !.name = "get", !.resume = resume]
    <2>1. /\ LoggedIn(ftp)
          /\ Send(ftp, s2c, o, Verb("PASV"), "getPasv") \/ EndCmd(ftp, s2c)
      BY Zenon DEF UserGet
    <2>2. o.name = "get" /\ ~o.abor
      BY DEF NoOp
    <2> HIDE DEF o
    <2>3. Speaks(Verb("PASV").v, "getPasv") /\ Owns(o, "getPasv")
      BY <2>2, VerbForm DEF Speaks, Owns
    <2>4. CASE EndCmd(ftp, s2c)
      BY <1>3, <1>4, <2>1, <2>4, UserEndSync
    <2> QED
      BY <1>2, <1>3, <1>4, <2>1, <2>3, <2>4, UserSendSync
  <1> QED
    BY <1>5, <1>6, <1>7, <1>8, <1>9, <1>10, <1>11, Zenon DEF UserStep

-----------------------------------------------------------------------------
(* Signals.                                                                *)

LEMMA StillSync ==
  ASSUME CallsInv, Synchronous, UNCHANGED <<ftp, stack, pc, op, c2s, s2c, srv>>
  PROVE  CallsInv' /\ Synchronous'
  <1>1. CallsInv'
    BY DEF CallsInv, Calls
  <1>2. Synchronous'
    BY Zenon DEF Synchronous
  <1> QED
    BY <1>1, <1>2

LEMMA SignalSync ==
  ASSUME TypeInv, CallsInv, Synchronous, ~Abandons, IntJmp \/ IntAbort \/ IntClose \/ Timeout
  PROVE  CallsInv' /\ Synchronous'
  <1>1. CASE UNCHANGED <<ftp, stack, pc, op, c2s, s2c, net>>
    <2> UNCHANGED <<ftp, stack, pc, op, c2s, s2c, srv>>
      BY <1>1 DEF net
    <2> QED
      BY StillSync
  <1>2. CASE \E f, q : Prompt(f, q) /\ ~f.ctrl
    BY <1>2, PromptSync
  <1>3. CASE \E f, q : Prompt(f, q) /\ (IntJmp \/ IntAbort)
    <2> PICK f : \E q : Prompt(f, q) /\ (IntJmp \/ IntAbort)
      BY <1>3
    <2> PICK q : Prompt(f, q) /\ (IntJmp \/ IntAbort)
      OBVIOUS
    <2>1. pc' = "prompt" /\ ftp' = f
      BY Zenon DEF Prompt
    <2>2. ~Connected(ftp')
      BY <2>1, Zenon DEF Abandons
    <2>3. CallsInv'
      BY <2>1 DEF CallsInv
    <2> QED
      BY <2>1, <2>2, <2>3 DEF Synchronous, Connected
  <1>4. IntClose \/ Timeout =>
          \/ UNCHANGED <<ftp, stack, pc, op, c2s, s2c, net>>
          \/ Prompt(Close(ftp), <<>>)
    BY Zenon DEF IntClose, Timeout, LongJmp
  <1>5. IntAbort =>
          \/ UNCHANGED <<ftp, stack, pc, op, c2s, s2c, net>>
          \/ \E f, q : Prompt(f, q)
    BY Zenon DEF IntAbort, LongJmp
  <1>6. IntJmp => \E f, q : Prompt(f, q)
    BY Zenon DEF IntJmp, LongJmp
  <1> QED
    BY <1>1, <1>2, <1>3, <1>4, <1>5, <1>6, ClosedForm, Zenon

-----------------------------------------------------------------------------
(* The channel as the server leaves it.                                    *)

LEMMA Appended ==
  ASSUME NEW S, NEW q \in Seq(S), NEW r
  PROVE  /\ Append(q, r) # <<>>
         /\ q = <<>> => Head(Append(q, r)) = r /\ Tail(Append(q, r)) = <<>>
         /\ q # <<>> => /\ Head(Append(q, r)) = Head(q)
                        /\ Tail(Append(q, r)) = Append(Tail(q), r)
  <1>1. q = <<>> => Head(Append(q, r)) = r /\ Tail(Append(q, r)) = <<>>
    OBVIOUS
  <1>2. Append(q, r) # <<>>
    <2> Len(Append(q, r)) = Len(q) + 1 /\ Len(q) \in Nat
      OBVIOUS
    <2> Len(Append(q, r)) # 0 /\ Len(<<>>) = 0
      OBVIOUS
    <2> QED
      BY Zenon
  <1>3. q # <<>> => Head(Append(q, r)) = Head(q)
    OBVIOUS
  <1>4. ASSUME q # <<>> PROVE Tail(Append(q, r)) = Append(Tail(q), r)
    BY <1>4
  <1> QED
    BY <1>1, <1>2, <1>3, <1>4

\* What the end of a session leaves of the replies in flight.
Bow == Reply(421, "421", NoDir)
Cut(q, p) == p = Append(q, Bow) \/ \E n \in 0..Len(q) : p = SubSeq(q, 1, n)

LEMMA CutForm ==
  ASSUME NEW S, NEW q \in Seq(S), NEW p, Cut(q, p)
  PROVE  /\ q = <<>> => p = <<>> \/ (p # <<>> /\ Head(p) = Bow /\ Tail(p) = <<>>)
         /\ q # <<>> => p = <<>> \/ (p # <<>> /\ Head(p) = Head(q) /\ Cut(Tail(q), Tail(p)))
  <1>1. CASE p = Append(q, Bow)
    BY <1>1, Appended DEF Cut
  <1>2. CASE \E n \in 0..Len(q) : p = SubSeq(q, 1, n)
    <2> PICK n \in 0..Len(q) : p = SubSeq(q, 1, n)
      BY <1>2
    <2>1. CASE n = 0
      BY <2>1
    <2>2. CASE n # 0
      <3>1. q # <<>> /\ p # <<>> /\ Head(p) = Head(q)
        BY <2>2
      <3>2. Tail(p) = SubSeq(Tail(q), 1, n - 1) /\ n - 1 \in 0..Len(Tail(q))
        BY <2>2
      <3> QED
        BY <3>1, <3>2 DEF Cut
    <2> QED
      BY <2>1, <2>2
  <1> QED
    BY <1>1, <1>2 DEF Cut

LEMMA BowForm == Bow.re = "421" /\ Bow.full = 421 /\ Bye(Bow) /\ ~Down.up /\ ~Down.xfer
  BY DEF Bow, Bye, Reply, Down

\* The session ends: what was due of it may be lost from there on.
LEMMA RestCut ==
  ASSUME NEW S, NEW q \in Seq(S), NEW p, NEW s, s.up, Rest(q, s), Cut(q, p)
  PROVE  Rest(p, Down)
  <1>1. q = <<>>
    BY DEF Rest
  <1>2. p = <<>> \/ (p # <<>> /\ Head(p) = Bow /\ Tail(p) = <<>>)
    BY <1>1, CutForm
  <1> QED
    BY <1>2, BowForm DEF Rest

LEMMA MovingCut ==
  ASSUME NEW S, NEW q \in Seq(S), NEW p, NEW s, s.up, Moving(q, s), Cut(q, p)
  PROVE  Moving(p, Down)
  <1>1. Rest(<<>>, Down)
    BY BowForm DEF Rest
  <1>2. CASE q = <<>>
    <2> p = <<>> \/ (p # <<>> /\ Head(p) = Bow /\ Tail(p) = <<>>)
      BY <1>2, CutForm
    <2> Rest(p, Down)
      BY BowForm DEF Rest
    <2> QED
      BY BowForm DEF Moving
  <1>3. CASE q # <<>>
    <2>1. Final(Head(q)) /\ Rest(Tail(q), s)
      BY <1>3 DEF Moving
    <2>2. p = <<>> \/ (p # <<>> /\ Head(p) = Head(q) /\ Cut(Tail(q), Tail(p)))
      BY <1>3, CutForm
    <2>3. CASE p = <<>>
      BY <1>1, <2>3, BowForm DEF Moving
    <2>4. CASE p # <<>> /\ Head(p) = Head(q) /\ Cut(Tail(q), Tail(p))
      <3> Tail(q) \in Seq(S)
        BY <1>3
      <3> Rest(Tail(p), Down)
        BY <2>1, <2>4, RestCut
      <3> QED
        BY <2>1, <2>4 DEF Moving
    <2> QED
      BY <2>2, <2>3, <2>4
  <1> QED
    BY <1>2, <1>3

LEMMA RepliedCut ==
  ASSUME NEW S, NEW q \in Seq(S), NEW p, NEW s, NEW v, s.up, Replied(v, q, s), Cut(q, p)
  PROVE  p = <<>> \/ Replied(v, p, Down)
  <1>1. q # <<>> /\ Tail(q) \in Seq(S)
    BY DEF Replied
  <1>2. CASE p # <<>> /\ Head(p) = Head(q) /\ Cut(Tail(q), Tail(p))
    <2>1. CASE Head(q).full = 150
      <3> v \in {"MLSD", "LIST", "RETR"} /\ Moving(Tail(q), s)
        BY <2>1 DEF Replied
      <3> Moving(Tail(p), Down)
        BY <1>1, <1>2, MovingCut
      <3> QED
        BY <1>2, <2>1 DEF Replied
    <2>2. CASE Head(q).full # 150
      <3> Rest(Tail(q), s)
        BY <2>2 DEF Replied
      <3> Rest(Tail(p), Down)
        BY <1>1, <1>2, RestCut
      <3> QED
        BY <1>2, <2>2 DEF Replied
    <2> QED
      BY <2>1, <2>2
  <1> QED
    BY <1>1, <1>2, CutForm

LEMMA AnsweredCut ==
  ASSUME NEW S, NEW q \in Seq(S), NEW p, NEW s, NEW v, s.up, NEW c, Answered(v, c, q, s), Cut(q, p)
  PROVE  Answered(v, <<>>, p, Down)
  <1>1. Replied(v, q, s)
    BY DEF Answered
  <1>2. p = <<>> \/ Replied(v, p, Down)
    BY <1>1, RepliedCut
  <1>3. Rest(<<>>, Down)
    BY BowForm DEF Rest
  <1> QED
    BY <1>2, <1>3, BowForm DEF Answered

LEMMA DueCut ==
  ASSUME NEW S, NEW q \in Seq(S), NEW p, NEW s, NEW cmd, s.up, NEW c, Due(cmd, c, q, s), Cut(q, p)
  PROVE  Due(cmd, <<>>, p, Down)
  <1>1. CASE Answered(cmd.v, c, q, s)
    BY <1>1, AnsweredCut DEF Due
  <1>2. CASE q = <<>> /\ ~s.xfer
    <2> Rest(q, s)
      BY <1>2 DEF Rest
    <2> Rest(p, Down)
      BY RestCut
    <2> QED
      BY BowForm DEF Due, Answered
  <1> QED
    BY <1>1, <1>2 DEF Due

LEMMA TwoDueCut ==
  ASSUME NEW S, NEW q \in Seq(S), NEW p, NEW s, s.up, NEW c, TwoDue(c, q, s), Cut(q, p)
  PROVE  TwoDue(<<>>, p, Down)
  <1>1. CASE Moving(q, s)
    <2> Moving(p, Down)
      BY <1>1, MovingCut
    <2> QED
      BY BowForm DEF TwoDue
  <1>2. CASE q # <<>> /\ Final(Head(q)) /\ Replied("ABOR", Tail(q), s)
    <2>1. Tail(q) \in Seq(S)
      BY <1>2
    <2>2. CASE p = <<>>
      <3> Moving(p, Down)
        BY <2>2, BowForm DEF Moving, Rest
      <3> QED
        BY BowForm DEF TwoDue
    <2>3. CASE p # <<>> /\ Head(p) = Head(q) /\ Cut(Tail(q), Tail(p))
      <3>1. Tail(p) = <<>> \/ Replied("ABOR", Tail(p), Down)
        BY <1>2, <2>1, <2>3, RepliedCut
      <3>2. CASE Tail(p) = <<>>
        <4> Rest(Tail(p), Down)
          BY <3>2, BowForm DEF Rest
        <4> Moving(p, Down)
          BY <1>2, <2>3 DEF Moving
        <4> QED
          BY BowForm DEF TwoDue
      <3>3. CASE Replied("ABOR", Tail(p), Down)
        BY <1>2, <2>3, <3>3 DEF TwoDue
      <3> QED
        BY <3>1, <3>2, <3>3
    <2> QED
      BY <1>2, <2>2, <2>3, CutForm
  <1> QED
    BY <1>1, <1>2 DEF TwoDue

LEMMA DropSync ==
  ASSUME TypeInv, CallsInv, Synchronous, SrvDrop
  PROVE  CallsInv' /\ Synchronous'
  <1>1. /\ srv.up /\ srv' = Down /\ c2s' = <<>> /\ UNCHANGED <<ftp, stack, pc, op>>
        /\ \/ s2c' = Append(s2c, Reply(421, "421", NoDir))
           \/ \E n \in 0..Len(s2c) : s2c' = SubSeq(s2c, 1, n)
    BY Zenon DEF SrvDrop, client
  <1>2. Cut(s2c, s2c')
    BY <1>1, Zenon DEF Cut, Bow
  <1>3. s2c \in Seq(ReplySet)
    BY DEF TypeInv, TypeOK
  <1>4. CallsInv'
    BY <1>1 DEF CallsInv, Calls
  <1>5. Idle(c2s, s2c, srv) => Idle(c2s', s2c', srv')
    BY <1>1, <1>2, <1>3, RestCut DEF Idle
  <1>6. Ending(c2s, s2c, srv) => Ending(c2s', s2c', srv')
    BY <1>1, <1>2, <1>3, MovingCut DEF Ending
  <1>7. Answered("banner", c2s, s2c, srv) => Answered("banner", c2s', s2c', srv')
    BY <1>1, <1>2, <1>3, AnsweredCut
  <1>8. \A cmd : Due(cmd, c2s, s2c, srv) => Due(cmd, c2s', s2c', srv')
    BY <1>1, <1>2, <1>3, DueCut
  <1>9. TwoDue(c2s, s2c, srv) => TwoDue(c2s', s2c', srv')
    BY <1>1, <1>2, <1>3, TwoDueCut
  <1>10. Synchronous'
    BY <1>1, <1>5, <1>6, <1>7, <1>8, <1>9, Zenon DEF Synchronous
  <1> QED
    BY <1>4, <1>10

-----------------------------------------------------------------------------
(* The server executes a command, or ends a transfer.                      *)

\* The command v is answered; a 150 starts a transfer.
Answers(full) ==
  /\ full # 421
  /\ IF full = 150 THEN Next1.v \in {"MLSD", "LIST", "RETR"} /\ srv'.xfer /\ srv'.up
     ELSE ~srv'.xfer
Responds == \E full, dir : s2c' = Append(s2c, Reply(full, Next1.v, dir)) /\ Answers(full)
Handled ==
  /\ srv.up /\ ~srv.xfer /\ c2s # <<>> /\ Next1.v # "ABOR" /\ c2s' = Tail(c2s)
  /\ Responds
  /\ UNCHANGED <<ftp, stack, pc, op>>

LEMMA RespondsForm ==
  ASSUME NEW full, NEW dir, s2c' = Append(s2c, Reply(full, Next1.v, dir)), Answers(full)
  PROVE  Responds
  BY Zenon DEF Responds

LEMMA AnswersForm ==
  ASSUME NEW full, full # 421, full # 150, ~srv'.xfer
  PROVE  Answers(full)
  BY DEF Answers

LEMMA SaysForm ==
  ASSUME NEW full, full # 421, full # 150, NEW s, ~s.xfer, s \in SrvSet, Say(full, s)
  PROVE  Responds
  <1> DEFINE b == s.rest /\ Next1.v = "REST"
  <1>1. b \in BOOLEAN
    BY Zenon DEF SrvSet
  <1>2. srv' = [s EXCEPT !.rest = b] /\ s2c' = Append(s2c, Reply(full, Next1.v, NoDir))
    BY Zenon DEF Say, Answer
  <1> HIDE DEF b
  <1>3. srv'.xfer = s.xfer
    BY <1>1, <1>2 DEF SrvSet
  <1> QED
    BY <1>2, <1>3, AnswersForm, RespondsForm, Zenon

LEMMA TransferResponds ==
  ASSUME srv \in SrvSet, srv.up, NEW kind, Transfer(kind), Next1.v \in {"MLSD", "LIST", "RETR"}
  PROVE  Responds
  <1>1. /\ s2c' = Append(s2c, Reply(150, Next1.v, NoDir))
        /\ srv' = [srv EXCEPT !.data = FALSE, !.xfer = TRUE, !.rest = FALSE]
    BY Zenon DEF Transfer, Answer
  <1>2. srv'.xfer /\ srv'.up
    BY <1>1 DEF SrvSet
  <1> DEFINE n == 150
  <1>3. Answers(n)
    BY <1>2 DEF Answers
  <1>4. s2c' = Append(s2c, Reply(n, Next1.v, NoDir))
    BY <1>1
  <1> HIDE DEF n
  <1> QED
    BY <1>3, <1>4, RespondsForm, Zenon

LEMMA HandledForm ==
  ASSUME srv \in SrvSet,
         \/ SrvUser \/ SrvPass \/ SrvDenies \/ SrvPwd \/ SrvCwd \/ SrvMkd
         \/ SrvPasv \/ SrvType \/ SrvRest \/ SrvList \/ SrvRetr \/ SrvQuit
  PROVE  Handled
  <1> DEFINE Ex(v) == v # "ABOR" /\ Executes(v)
  <1>1. ASSUME NEW v, Ex(v)
        PROVE  /\ srv.up /\ ~srv.xfer /\ c2s # <<>> /\ Next1.v = v /\ Next1.v # "ABOR"
               /\ c2s' = Tail(c2s) /\ UNCHANGED <<ftp, stack, pc, op>>
    BY <1>1 DEF Executes, client
  <1>2. ASSUME NEW full, full # 421, full # 150, NEW s \in SrvSet, ~s.xfer, Say(full, s)
        PROVE  Responds
    BY <1>2, SaysForm, Zenon
  <1>3. ASSUME NEW full, full # 421, full # 150, NEW dir, Answer(full, dir), ~srv'.xfer
        PROVE  Responds
    BY <1>3, AnswersForm, RespondsForm, Zenon DEF Answer
  <1>4. ASSUME ~srv.xfer, NEW d, srv' = [srv EXCEPT !.cwd = d, !.rest = FALSE] 
                                 \/ srv' = [srv EXCEPT !.rest = FALSE]
        PROVE  ~srv'.xfer
    BY <1>4 DEF SrvSet
  <1>5. CASE SrvUser
    <2> DEFINE s == [srv EXCEPT !.auth = FALSE]
    <2>1. Ex("USER") /\ (Say(331, s) \/ Say(530, srv))
      BY <1>5 DEF SrvUser
    <2>2. ~srv.xfer
      BY <1>1, <2>1
    <2>3. s \in SrvSet /\ ~s.xfer
      BY <2>2, SessionAssumption DEF SrvSet, Down
    <2> HIDE DEF s
    <2>4. Responds
      BY <1>2, <2>1, <2>2, <2>3
    <2> QED
      BY <1>1, <2>1, <2>4, Zenon DEF Handled
  <1>6. CASE SrvPass
    <2> DEFINE s == [srv EXCEPT !.auth = TRUE, !.cwd = Home]
    <2>1. Ex("PASS") /\ (Say(230, s) \/ Say(530, srv))
      BY <1>6 DEF SrvPass
    <2>2. ~srv.xfer
      BY <1>1, <2>1
    <2>3. s \in SrvSet /\ ~s.xfer
      BY <2>2, SessionAssumption DEF SrvSet, Down
    <2> HIDE DEF s
    <2>4. Responds
      BY <1>2, <2>1, <2>2, <2>3
    <2> QED
      BY <1>1, <2>1, <2>4, Zenon DEF Handled
  <1>7. CASE SrvDenies
    <2>1. PICK v \in Verbs \ {"USER", "PASS", "ABOR", "QUIT"} : Executes(v)
      BY <1>7 DEF SrvDenies
    <2>2. Ex(v) /\ Say(530, srv)
      BY <1>7, <2>1 DEF SrvDenies
    <2>3. Responds
      BY <1>1, <1>2, <2>2
    <2> QED
      BY <1>1, <2>2, <2>3, Zenon DEF Handled
  <1>8. CASE SrvPwd
    <2>1. Ex("PWD") /\ Answer(257, srv.cwd) /\ srv' = [srv EXCEPT !.rest = FALSE]
      BY <1>8 DEF SrvPwd, Serves
    <2>2. ~srv'.xfer
      BY <1>1, <1>4, <2>1
    <2> DEFINE d == srv.cwd
    <2>3. Answer(257, d)
      BY <2>1
    <2> HIDE DEF d
    <2>4. Responds
      BY <1>3, <2>2, <2>3
    <2> QED
      BY <1>1, <2>1, <2>4, Zenon DEF Handled
  <1>9. CASE SrvCwd
    <2>1. /\ Ex("CWD")
          /\ \/ Answer(250, Next1.a) /\ srv' = [srv EXCEPT !.cwd = Next1.a, !.rest = FALSE]
             \/ Say(550, srv)
      BY <1>9 DEF SrvCwd, Serves
    <2>2. CASE Say(550, srv)
      <3> Responds
        BY <1>1, <1>2, <2>1, <2>2
      <3> QED
        BY <1>1, <2>1, Zenon DEF Handled
    <2>3. CASE Answer(250, Next1.a) /\ srv' = [srv EXCEPT !.cwd = Next1.a, !.rest = FALSE]
      <3> DEFINE d == Next1.a
      <3> Answer(250, d) /\ srv' = [srv EXCEPT !.cwd = d, !.rest = FALSE]
        BY <2>3
      <3> HIDE DEF d
      <3> ~srv'.xfer
        BY <1>1, <1>4, <2>1
      <3> Responds
        BY <1>3
      <3> QED
        BY <1>1, <2>1, Zenon DEF Handled
    <2> QED
      BY <2>1, <2>2, <2>3
  <1>10. CASE SrvMkd
    <2>1. /\ Ex("MKD")
          /\ \/ Answer(257, BadDir) /\ srv' = [srv EXCEPT !.rest = FALSE]
             \/ Say(550, srv)
      BY <1>10 DEF SrvMkd, Serves
    <2>2. CASE Say(550, srv)
      <3> Responds
        BY <1>1, <1>2, <2>1, <2>2
      <3> QED
        BY <1>1, <2>1, Zenon DEF Handled
    <2>3. CASE Answer(257, BadDir) /\ srv' = [srv EXCEPT !.rest = FALSE]
      <3> ~srv'.xfer
        BY <1>1, <1>4, <2>1, <2>3
      <3> Responds
        BY <1>3, <2>3
      <3> QED
        BY <1>1, <2>1, Zenon DEF Handled
    <2> QED
      BY <2>1, <2>2, <2>3
  <1>11. CASE SrvPasv
    <2> DEFINE s == [srv EXCEPT !.data = TRUE]
    <2>1. Ex("PASV") /\ Say(227, s)
      BY <1>11 DEF SrvPasv, Serves
    <2>2. ~srv.xfer
      BY <1>1, <2>1
    <2>3. s \in SrvSet /\ ~s.xfer
      BY <2>2, SessionAssumption DEF SrvSet, Down
    <2> HIDE DEF s
    <2>4. Responds
      BY <1>2, <2>1, <2>2, <2>3
    <2> QED
      BY <1>1, <2>1, <2>4, Zenon DEF Handled
  <1>12. CASE SrvType
    <2> DEFINE s == [srv EXCEPT !.type = "I"]
    <2>1. Ex("TYPE") /\ Say(200, s)
      BY <1>12 DEF SrvType, Serves
    <2>2. ~srv.xfer
      BY <1>1, <2>1
    <2>3. s \in SrvSet /\ ~s.xfer
      BY <2>2, SessionAssumption DEF SrvSet, Down
    <2> HIDE DEF s
    <2>4. Responds
      BY <1>2, <2>1, <2>2, <2>3
    <2> QED
      BY <1>1, <2>1, <2>4, Zenon DEF Handled
  <1>13. CASE SrvRest
    <2> DEFINE s == [srv EXCEPT !.rest = TRUE]
    <2>1. Ex("REST") /\ Say(350, s)
      BY <1>13 DEF SrvRest, Serves
    <2>2. ~srv.xfer
      BY <1>1, <2>1
    <2>3. s \in SrvSet /\ ~s.xfer
      BY <2>2, SessionAssumption DEF SrvSet, Down
    <2> HIDE DEF s
    <2>4. Responds
      BY <1>2, <2>1, <2>2, <2>3
    <2> QED
      BY <1>1, <2>1, <2>4, Zenon DEF Handled
  <1>14. CASE SrvList
    <2>1. /\ Ex("MLSD") \/ Ex("LIST")
          /\ Transfer("list") \/ Say(500, srv) \/ Say(425, srv) \/ Say(550, srv)
      BY <1>14 DEF SrvList, Serves
    <2>2. ~srv.xfer /\ srv.up /\ Next1.v \in {"MLSD", "LIST", "RETR"}
      BY <1>1, <2>1
    <2>3. (\E kind : Transfer(kind)) => Responds
      BY <2>2, TransferResponds, Zenon
    <2>4. Responds
      BY <1>2, <2>1, <2>2, <2>3
    <2> QED
      BY <1>1, <2>1, <2>4, Zenon DEF Handled
  <1>15. CASE SrvRetr
    <2>1. /\ Ex("RETR")
          /\ Say(425, srv) \/ Say(550, srv) \/ Transfer("retr")
      BY <1>15 DEF SrvRetr, Serves
    <2>2. ~srv.xfer /\ srv.up /\ Next1.v \in {"MLSD", "LIST", "RETR"}
      BY <1>1, <2>1
    <2>3. (\E kind : Transfer(kind)) => Responds
      BY <2>2, TransferResponds, Zenon
    <2>4. Responds
      BY <1>2, <2>1, <2>2, <2>3
    <2> QED
      BY <1>1, <2>1, <2>4, Zenon DEF Handled
  <1>16. CASE SrvQuit
    <2> DEFINE s == Down
    <2>1. Ex("QUIT") /\ Say(221, s)
      BY <1>16 DEF SrvQuit
    <2>2. ~srv.xfer
      BY <1>1, <2>1
    <2>3. s \in SrvSet /\ ~s.xfer
      BY <2>2, SessionAssumption DEF SrvSet, Down
    <2> HIDE DEF s
    <2>4. Responds
      BY <1>2, <2>1, <2>2, <2>3
    <2> QED
      BY <1>1, <2>1, <2>4, Zenon DEF Handled
  <1> QED
    BY <1>5, <1>6, <1>7, <1>8, <1>9, <1>10, <1>11, <1>12, <1>13, <1>14, <1>15, <1>16

LEMMA HandledSync ==
  ASSUME TypeInv, CallsInv, Synchronous, Handled
  PROVE  CallsInv' /\ Synchronous'
  <1>1. s2c \in Seq(ReplySet) /\ c2s \in Seq(CmdSet)
    BY DEF TypeInv, TypeOK
  <1>2. /\ srv.up /\ ~srv.xfer /\ c2s # <<>> /\ Next1.v # "ABOR" /\ c2s' = Tail(c2s)
        /\ UNCHANGED <<ftp, stack, pc, op>>
    BY DEF Handled
  <1>3. PICK full : \E dir : s2c' = Append(s2c, Reply(full, Next1.v, dir)) /\ Answers(full)
    BY DEF Handled, Responds
  <1>4. PICK dir : s2c' = Append(s2c, Reply(full, Next1.v, dir)) /\ Answers(full)
    BY <1>3
  <1>5. ASSUME NEW cmd, Due(cmd, c2s, s2c, srv)
        PROVE  Due(cmd, c2s', s2c', srv')
    <2>1. c2s = <<cmd>> /\ s2c = <<>>
      BY <1>2, <1>5 DEF Due, Answered, Sends
    <2>2. c2s' = <<>> /\ Next1 = cmd
      BY <1>2, <2>1 DEF Next1
    <2> DEFINE r == Reply(full, cmd.v, dir)
    <2>3. s2c' # <<>> /\ Head(s2c') = r /\ Tail(s2c') = <<>>
      BY <1>1, <1>4, <2>1, <2>2, Appended
    <2>4. r.re = cmd.v /\ r.full = full
      BY DEF Reply
    <2> HIDE DEF r
    <2>5. cmd.v # "ABOR" /\ full # 421
      BY <1>2, <1>4, <2>2 DEF Answers
    <2>6. CASE full = 150
      <3>1. cmd.v \in {"MLSD", "LIST", "RETR"} /\ srv'.xfer /\ srv'.up
        BY <1>4, <2>2, <2>6 DEF Answers
      <3>2. Moving(Tail(s2c'), srv')
        BY <2>3, <3>1 DEF Moving
      <3>3. Replied(cmd.v, s2c', srv')
        BY <2>3, <2>4, <2>5, <2>6, <3>1, <3>2 DEF Replied
      <3> QED
        BY <2>2, <3>3 DEF Due, Answered
    <2>7. CASE full # 150
      <3>1. Rest(Tail(s2c'), srv')
        BY <1>4, <2>3, <2>7 DEF Answers, Rest
      <3>2. Replied(cmd.v, s2c', srv')
        BY <2>3, <2>4, <2>5, <2>7, <3>1 DEF Replied
      <3> QED
        BY <2>2, <3>2 DEF Due, Answered
    <2> QED
      BY <2>6, <2>7
  <1>6. ~Idle(c2s, s2c, srv) /\ ~Ending(c2s, s2c, srv) /\ \A v : ~Answered(v, c2s, s2c, srv)
    BY <1>2 DEF Idle, Ending, Answered
  <1>7. ~TwoDue(c2s, s2c, srv)
    <2>1. Verb("ABOR").v = "ABOR"
      BY DEF Verb, Cmd
    <2> QED
      BY <1>2, <2>1 DEF TwoDue, Sends, Next1
  <1>8. CallsInv'
    BY <1>2 DEF CallsInv, Calls
  <1>9. Synchronous'
    BY <1>2, <1>5, <1>6, <1>7, Zenon DEF Synchronous
  <1> QED
    BY <1>8, <1>9

LEMMA OneForm == \A r : <<r>> # <<>> /\ Head(<<r>>) = r /\ Tail(<<r>>) = <<>>
  OBVIOUS

LEMMA TwoForm ==
  ASSUME NEW x, NEW r, NEW q, q = <<>> \o <<x>> \o <<r>>
  PROVE  q # <<>> /\ Head(q) = x /\ Tail(q) = <<r>>
  <1> DEFINE S == {x, r}
  <1>1. <<x>> \in Seq(S) /\ <<r>> \in Seq(S) /\ <<>> \o <<x>> = <<x>>
    OBVIOUS
  <1>2. q = Append(<<x>>, r)
    BY <1>1
  <1>3. Append(<<>>, r) = <<r>>
    OBVIOUS
  <1> DEFINE p == <<x>>
  <1>4. p \in Seq(S) /\ p # <<>> /\ Head(p) = x /\ Tail(p) = <<>> /\ q = Append(p, r)
    BY <1>1, <1>2, OneForm
  <1> HIDE DEF p
  <1>5. Append(p, r) # <<>> /\ Head(Append(p, r)) = Head(p) /\ Tail(Append(p, r)) = Append(Tail(p), r)
    BY <1>4, Appended
  <1> QED
    BY <1>3, <1>4, <1>5, Zenon

LEMMA AborSync ==
  ASSUME TypeInv, CallsInv, Synchronous, SrvAbor
  PROVE  CallsInv' /\ Synchronous'
  <1> DEFINE x == Reply(426, dconn.kind, NoDir)
             r == Reply(226, "ABOR", NoDir)
  <1>1. s2c \in Seq(ReplySet) /\ c2s \in Seq(CmdSet) /\ srv \in SrvSet /\ dconn \in DconnSet
    BY DEF TypeInv, TypeOK
  <1>2. /\ srv.up /\ c2s # <<>> /\ Next1.v = "ABOR" /\ c2s' = Tail(c2s)
        /\ UNCHANGED <<ftp, stack, pc, op>>
        /\ s2c' = s2c \o (IF srv.xfer THEN <<x>> ELSE <<>>) \o <<r>>
        /\ srv' = [srv EXCEPT !.xfer = FALSE, !.data = FALSE]
    BY DEF SrvAbor, Executes, client
  <1>3. Final(x) /\ r.re = "ABOR" /\ r.full = 226
    BY <1>1 DEF Reply, Final, DconnSet
  <1>4. srv'.up /\ ~srv'.xfer
    BY <1>1, <1>2 DEF SrvSet
  <1> HIDE DEF x, r
  <1>5. Rest(<<>>, srv')
    BY <1>4 DEF Rest
  <1>6. ASSUME NEW q, q # <<>>, Head(q) = r, Tail(q) = <<>>
        PROVE  Replied("ABOR", q, srv')
    <2>1. Head(q).re = "ABOR" /\ Head(q).full = 226
      BY <1>3, <1>6
    <2>2. Rest(Tail(q), srv')
      BY <1>5, <1>6, Zenon
    <2> QED
      BY <1>6, <2>1, <2>2 DEF Replied
  <1>7. ~srv.xfer => s2c' = Append(s2c, r)
    BY <1>1, <1>2
  <1>8. ASSUME NEW cmd, Due(cmd, c2s, s2c, srv)
        PROVE  Due(cmd, c2s', s2c', srv')
    <2>1. c2s = <<cmd>> /\ s2c = <<>> /\ ~srv.xfer
      BY <1>2, <1>8 DEF Due, Answered, Sends
    <2>2. c2s' = <<>> /\ cmd.v = "ABOR"
      BY <1>2, <2>1 DEF Next1
    <2>3. s2c' # <<>> /\ Head(s2c') = r /\ Tail(s2c') = <<>>
      BY <1>1, <1>7, <2>1, Appended
    <2>4. Replied("ABOR", s2c', srv')
      BY <1>6, <2>3
    <2> QED
      BY <2>2, <2>4 DEF Due, Answered
  <1>9. ASSUME TwoDue(c2s, s2c, srv)
        PROVE  TwoDue(c2s', s2c', srv')
    <2>1. c2s = <<Verb("ABOR")>> /\ Moving(s2c, srv)
      BY <1>2, <1>9 DEF TwoDue, Sends
    <2>2. c2s' = <<>>
      BY <1>2, <2>1
    <2>3. CASE srv.xfer
      <3>1. s2c = <<>>
        BY <1>2, <2>1, <2>3 DEF Moving, Rest
      <3>2. s2c' = <<>> \o <<x>> \o <<r>>
        BY <1>2, <2>3, <3>1
      <3>3. s2c' # <<>> /\ Head(s2c') = x /\ Tail(s2c') = <<r>>
        BY <3>2, TwoForm
      <3>4. Replied("ABOR", Tail(s2c'), srv')
        BY <1>6, <3>3, OneForm
      <3> QED
        BY <1>3, <2>2, <3>3, <3>4 DEF TwoDue
    <2>4. CASE ~srv.xfer
      <3>1. s2c # <<>> /\ Final(Head(s2c)) /\ Tail(s2c) = <<>>
        BY <1>2, <2>1, <2>4 DEF Moving, Rest
      <3>2. s2c' # <<>> /\ Head(s2c') = Head(s2c) /\ Tail(s2c') = Append(<<>>, r)
        BY <1>1, <1>7, <2>4, <3>1, Appended
      <3>3. Append(<<>>, r) = <<r>>
        OBVIOUS
      <3>4. Replied("ABOR", Tail(s2c'), srv')
        BY <1>6, <3>2, <3>3, OneForm
      <3> QED
        BY <2>2, <3>1, <3>2, <3>4 DEF TwoDue
    <2> QED
      BY <2>3, <2>4
  <1>10. ~Idle(c2s, s2c, srv) /\ ~Ending(c2s, s2c, srv) /\ \A v : ~Answered(v, c2s, s2c, srv)
    BY <1>2 DEF Idle, Ending, Answered
  <1>11. CallsInv'
    BY <1>2 DEF CallsInv, Calls
  <1>12. Synchronous'
    BY <1>2, <1>8, <1>9, <1>10, Zenon DEF Synchronous
  <1> QED
    BY <1>11, <1>12

LEMMA XferReplySync ==
  ASSUME TypeInv, CallsInv, Synchronous, XferReply
  PROVE  CallsInv' /\ Synchronous'
  <1> DEFINE full == IF dconn.whole THEN 226 ELSE 451
             r == Reply(full, dconn.kind, NoDir)
  <1>1. s2c \in Seq(ReplySet) /\ srv \in SrvSet /\ dconn \in DconnSet
    BY DEF TypeInv, TypeOK
  <1>2. /\ srv.up /\ srv.xfer /\ UNCHANGED <<ftp, stack, pc, op, c2s>>
        /\ s2c' = Append(s2c, r) /\ srv' = [srv EXCEPT !.xfer = FALSE]
    BY DEF XferReply, client
  <1>3. Final(r)
    BY <1>1 DEF Reply, Final, DconnSet
  <1>4. srv'.up /\ ~srv'.xfer
    BY <1>1, <1>2 DEF SrvSet
  <1> HIDE DEF r, full
  <1>5. Rest(<<>>, srv') /\ ~Rest(s2c, srv)
    BY <1>2, <1>4 DEF Rest
  <1>6. ASSUME NEW q \in Seq(ReplySet), Moving(q, srv)
        PROVE  q = <<>> /\ Moving(Append(q, r), srv')
    <2>1. q = <<>>
      BY <1>2, <1>6 DEF Moving, Rest
    <2>2. Append(q, r) # <<>> /\ Head(Append(q, r)) = r /\ Tail(Append(q, r)) = <<>>
      BY <2>1, Appended
    <2> QED
      BY <1>3, <1>5, <2>1, <2>2 DEF Moving
  <1>7. ASSUME NEW v, Replied(v, s2c, srv)
        PROVE  Replied(v, s2c', srv')
    <2>1. s2c # <<>> /\ Tail(s2c) \in Seq(ReplySet)
      BY <1>1, <1>7 DEF Replied
    <2>2. s2c' # <<>> /\ Head(s2c') = Head(s2c) /\ Tail(s2c') = Append(Tail(s2c), r)
      BY <1>1, <1>2, <2>1, Appended
    <2>3. /\ Head(s2c).full = 150 /\ Head(s2c).re = v
          /\ v \in {"MLSD", "LIST", "RETR"} /\ Moving(Tail(s2c), srv)
      BY <1>2, <1>7 DEF Replied, Rest
    <2>4. Moving(Tail(s2c'), srv')
      BY <1>6, <2>1, <2>2, <2>3
    <2>5. 150 # 421 /\ v # "ABOR"
      BY <2>3
    <2> QED
      BY <2>2, <2>3, <2>4, <2>5 DEF Replied
  <1>8. ~Idle(c2s, s2c, srv)
    BY <1>5 DEF Idle
  <1>9. Ending(c2s, s2c, srv) => Ending(c2s', s2c', srv')
    BY <1>1, <1>2, <1>6 DEF Ending
  <1>10. \A v : Answered(v, c2s, s2c, srv) => Answered(v, c2s', s2c', srv')
    BY <1>2, <1>7 DEF Answered
  <1>11. \A cmd : Due(cmd, c2s, s2c, srv) => Due(cmd, c2s', s2c', srv')
    BY <1>2, <1>10 DEF Due
  <1>12. ASSUME TwoDue(c2s, s2c, srv)
         PROVE  TwoDue(c2s', s2c', srv')
    <2>1. CASE Sends(Verb("ABOR"), c2s, srv) /\ Moving(s2c, srv)
      <3>1. Moving(s2c', srv')
        BY <1>1, <1>2, <1>6, <2>1
      <3>2. Sends(Verb("ABOR"), c2s', srv')
        BY <1>2, <1>4, <2>1 DEF Sends
      <3> QED
        BY <3>1, <3>2 DEF TwoDue
    <2>2. CASE Replied("ABOR", Tail(s2c), srv)
      BY <1>2, <2>2 DEF Replied, Rest
    <2> QED
      BY <1>2, <1>12, <2>1, <2>2 DEF TwoDue
  <1>13. CallsInv'
    BY <1>2 DEF CallsInv, Calls
  <1>14. Synchronous'
    BY <1>2, <1>8, <1>9, <1>10, <1>11, <1>12, Zenon DEF Synchronous
  <1> QED
    BY <1>13, <1>14

LEMMA ServerSync ==
  ASSUME TypeInv, CallsInv, Synchronous, ServerStep
  PROVE  CallsInv' /\ Synchronous'
  <1>1. srv \in SrvSet
    BY DEF TypeInv, TypeOK
  <1>2. CASE SrvAbor
    BY <1>2, AborSync
  <1>3. CASE XferEof
    <2> UNCHANGED <<ftp, stack, pc, op, c2s, s2c, srv>>
      BY <1>3, Zenon DEF XferEof, client
    <2> QED
      BY StillSync
  <1>4. CASE XferReply
    BY <1>4, XferReplySync
  <1>5. CASE \/ SrvUser \/ SrvPass \/ SrvDenies \/ SrvPwd \/ SrvCwd \/ SrvMkd
             \/ SrvPasv \/ SrvType \/ SrvRest \/ SrvList \/ SrvRetr \/ SrvQuit
    BY <1>1, <1>5, HandledForm, HandledSync
  <1> QED
    BY <1>2, <1>3, <1>4, <1>5, Zenon DEF ServerStep

LEMMA ClientSync ==
  ASSUME TypeInv, TypeInv', CallsInv, Synchronous, ~LocalFails, ClientStep
  PROVE  CallsInv' /\ Synchronous'
  <1>1. CASE CmdReply \/ CmdEof \/ CmdNoCtrl
    BY <1>1, CmdReplySync, CmdLostSync
  <1>2. CASE ConnectOk \/ ConnectFail \/ Welcome
    BY <1>2, ConnectOkSync, ConnectFailSync, WelcomeSync
  <1>3. CASE RecvEnd \/ RecvBreak \/ AbortPending \/ SendAbor \/ Drained
    BY <1>3, DataSync
  <1>4. CASE FinalReply \/ FinalEof \/ AbortReply \/ AbortEof
    BY <1>4, FinalSync, AbortSync
  <1> QED
    BY <1>1, <1>2, <1>3, <1>4, Zenon DEF ClientStep

-----------------------------------------------------------------------------
(* Every step leaves the two ends in step.                                 *)

Agreed == TypeInv /\ CallsInv /\ Synchronous

LEMMA AgreedInit ==
  ASSUME Init
  PROVE  Agreed
  <1>1. ftp.connected = FALSE /\ ftp.ctrl = FALSE /\ pc = "prompt"
    BY DEF Init
  <1>2. CallsInv
    BY <1>1 DEF CallsInv
  <1>3. Synchronous
    BY <1>1 DEF Synchronous, Connected
  <1> QED
    BY <1>2, <1>3, TypeInit DEF Agreed

LEMMA AgreedStep ==
  ASSUME ~LocalFails, Agreed, [Next]_vars, [~Abandons]_vars
  PROVE  Agreed'
  <1> TypeInv /\ CallsInv /\ Synchronous
    BY DEF Agreed
  <1>1. TypeInv'
    BY TypeStep
  <1>2. CASE UNCHANGED vars
    <2> UNCHANGED <<ftp, stack, pc, op, c2s, s2c, srv>>
      BY <1>2 DEF vars
    <2> QED
      BY <1>1, StillSync DEF Agreed
  <1>3. CASE UserStep
    BY <1>1, <1>3, UserSync DEF Agreed
  <1>4. CASE ClientStep
    BY <1>1, <1>4, ClientSync DEF Agreed
  <1>5. CASE ServerStep
    BY <1>1, <1>5, ServerSync DEF Agreed
  <1>6. CASE (IntJmp \/ IntAbort \/ IntClose \/ Timeout) /\ ~Abandons
    BY <1>1, <1>6, SignalSync DEF Agreed
  <1>7. CASE SrvDrop
    BY <1>1, <1>7, DropSync DEF Agreed
  <1>8. CASE \E d \in Dirs : RemoveDir(d)
    <2> UNCHANGED <<ftp, stack, pc, op, c2s, s2c, srv>>
      BY <1>8, Zenon DEF RemoveDir, client
    <2> QED
      BY <1>1, StillSync DEF Agreed
  <1> QED
    BY <1>2, <1>3, <1>4, <1>5, <1>6, <1>7, <1>8, Zenon DEF Next, Quiet

LEMMA AgreedReply == Agreed => ReplyMatches
  <1> SUFFICES ASSUME Agreed, pc = "cmd", ftp.ctrl, s2c # <<>>
               PROVE  Head(s2c).re \in {Head(stack).cmd.v, "421"}
    BY DEF ReplyMatches
  <1> DEFINE cmd == Head(stack).cmd
  <1>1. Due(cmd, c2s, s2c, srv)
    BY DEF Agreed, Synchronous
  <1> HIDE DEF cmd
  <1>2. Replied(cmd.v, s2c, srv) \/ Rest(s2c, srv)
    BY <1>1 DEF Due, Answered
  <1>3. Head(s2c).re = cmd.v \/ Head(s2c).re = "421"
    BY <1>2 DEF Replied, Rest, Bye
  <1> QED
    BY <1>3 DEF cmd

LEMMA AgreedPrompt == Agreed => PromptInSync
  <1> SUFFICES ASSUME Agreed, pc = "prompt", Connected(ftp)
               PROVE  /\ c2s = <<>> /\ ~srv.xfer
                      /\ s2c = <<>> \/ (Len(s2c) = 1 /\ Head(s2c).full = 421)
    BY DEF PromptInSync
  <1>1. c2s = <<>> /\ Rest(s2c, srv) /\ s2c \in Seq(ReplySet)
    BY DEF Agreed, Synchronous, Idle, TypeInv, TypeOK
  <1>2. ASSUME s2c # <<>>
        PROVE  Len(s2c) = 1 /\ Head(s2c).full = 421
    <2>1. Bye(Head(s2c)) /\ Tail(s2c) = <<>>
      BY <1>1, <1>2 DEF Rest
    <2>2. Len(s2c) = Len(Tail(s2c)) + 1 /\ Len(<<>>) = 0
      BY <1>1, <1>2, Unstacked
    <2>3. Head(s2c).full = 421
      BY <2>1 DEF Bye
    <2>4. Len(Tail(s2c)) = 0
      BY <2>1, <2>2, Zenon
    <2> QED
      BY <2>2, <2>3, <2>4
  <1> QED
    BY <1>1, <1>2 DEF Rest

\* ftp_cmd() returns the reply to the command it sent.  Through reconnects and
\* resends, listings that are aborted, downloads that are broken off, timeouts
\* and sessions the server ends at any point, what the client reads next while
\* it waits in ftp_cmd() answers the command it waits for, or is the server's
\* farewell.  The two ways out of step that the runs find are set apart, and
\* these are all there are: fopen() failing after a RETR was accepted, and a
\* SIGINT that leaves a command or a greeting unread on an open connection.
THEOREM RepliesMatch ==
  ASSUME ~LocalFails
  PROVE  Spec /\ [][~Abandons]_vars => []ReplyMatches
  <1>1. Init => Agreed
    BY AgreedInit
  <1>2. Agreed /\ [Next]_vars /\ [~Abandons]_vars => Agreed'
    BY AgreedStep
  <1>3. Agreed => ReplyMatches
    BY AgreedReply
  <1> QED
    BY <1>1, <1>2, <1>3, PTL DEF Spec

\* Under the same two conditions a command that returns to the prompt leaves
\* nothing behind in the control connection: no reply to it is still to come,
\* the server has nothing of it to execute, and no transfer goes on.
THEOREM IdleAtPrompt ==
  ASSUME ~LocalFails
  PROVE  Spec /\ [][~Abandons]_vars => []PromptInSync
  <1>1. Init => Agreed
    BY AgreedInit
  <1>2. Agreed /\ [Next]_vars /\ [~Abandons]_vars => Agreed'
    BY AgreedStep
  <1>3. Agreed => PromptInSync
    BY AgreedPrompt
  <1> QED
    BY <1>1, <1>2, <1>3, PTL DEF Spec
==============================================================================
