------------------------- MODULE FtpCommands_proofs -------------------------
(***************************************************************************)
(* What the commands of a session promise: where the server is when one    *)
(* has ended, that a mkdir sent again after a reconnect takes effect once, *)
(* where it was typed, that a get receives what it asked for, that what    *)
(* counts as received is whole, that a listing is filed under its own      *)
(* directory, and that what this session changed is not shown as it was.   *)
(***************************************************************************)
EXTENDS FtpSession_proofs

-----------------------------------------------------------------------------
(* Where the server is.  f is the Ftp structure, o the command, q the      *)
(* replies in flight, s the session and L what others have removed.        *)

Serving(s) == s.up /\ s.auth
Lost(d, L) == d = BadDir \/ d \in L

\* The client knows where the server is, or cannot.
Sits(f, s, L) == f.curdir = s.cwd \/ Lost(f.curdir, L)

\* The answer is there, and a success.
Yes(q) == q # <<>> /\ Class(Head(q)) = 2

\* Commands that need the current directory again when they are resent.
Places == {"mkd", "lsBack"}

\* What holds of the activation that waits for a reply.
Placed(fr, f, o, q, s, L) ==
  /\ fr.k \in {"user", "mkd", "quit", "getPasv", "getType", "getRest", "getRetr"} => Sits(f, s, L)
  /\ fr.k = "user" /\ q # <<>> => Class(Head(q)) # 3
  /\ fr.k = "pass" => Yes(q)
  /\ fr.k \in {"homePwd", "loginCwdPwd", "cdPwd"} /\ q # <<>> => Yes(q) /\ Head(q).dir = s.cwd
  /\ fr.k \in {"loginCwd", "cdCwd"} => IF Yes(q) THEN Head(q).dir = s.cwd ELSE Sits(f, s, L)
  /\ fr.k = "lsCwd" => Yes(q) \/ Sits(f, s, L)
  /\ fr.k \in {"lsPasv", "lsList"} /\ o.here => Sits(f, s, L)
  /\ fr.k = "lsBack" => IF q = <<>> THEN fr.cmd.a = f.curdir \/ (Sits(f, s, L) /\ Lost(fr.cmd.a, L))
                        ELSE Sits(f, s, L)
  /\ fr.k \in Places /\ fr.recon => f.curdir = fr.cmd.a \/ Lost(fr.cmd.a, L)

\* What holds of a reconnect's login above a command that was typed in t.
Heads(fr, f, t) == fr.k \in {"user", "pass"} => t = f.urldir /\ t = f.curdir
Homes(fr, f, q, s, L, t) ==
  /\ fr.k = "homePwd" => t = f.urldir
  /\ fr.k = "loginCwd" => IF q = <<>> THEN fr.cmd.a = t
                          ELSE IF Yes(q) THEN Head(q).dir = t \/ Lost(t, L) ELSE Lost(t, L)
  /\ fr.k = "loginCwdPwd" => s.cwd = t \/ Lost(t, L)
Above(fr, b, f, q, s, L) ==
  b.k \in Places => /\ s.up => Heads(fr, f, b.cmd.a)
                    /\ Serving(s) => Homes(fr, f, q, s, L, b.cmd.a)

Framed(fr, o) ==
  /\ fr.k = "mkd" => fr.cmd.a = o.dir
  /\ fr.k \in Places => fr.cmd.a # NoDir
  /\ fr.k = "pass" => ~fr.recon
  /\ fr.k = "lsCwd" => ~o.here
Frames2(st, o) ==
  /\ st # <<>> => Framed(Head(st), o)
  /\ st # <<>> /\ Tail(st) # <<>> => Framed(Head(Tail(st)), o) /\ Head(Tail(st)).recon

\* An answer that names a directory names one.
Names(q) ==
  q # <<>> /\ Class(Head(q)) = 2 /\ Head(q).re \in {"PWD", "CWD"} => Head(q).dir # NoDir

Waits(f, st, o, q, s, L) ==
  /\ Head(st).k \in Places /\ ~Head(st).recon => Head(st).cmd.a = f.curdir
  /\ Head(st).k = "pass" => ~f.loggedin
  /\ f.ctrl => Names(q)
  /\ f.ctrl /\ Serving(s) => Placed(Head(st), f, o, q, s, L)
  /\ f.ctrl /\ Tail(st) # <<>> => Above(Head(st), Head(Tail(st)), f, q, s, L)
Redials(p, f, st, s) ==
  /\ st # <<>> => Head(st).recon
  /\ st # <<>> /\ Tail(st) = <<>> /\ Head(st).k \in Places => Head(st).cmd.a = f.curdir
  /\ p = "welcome" /\ f.ctrl /\ s.up => ~s.auth

Where(p, f, st, o, q, s, L) ==
  /\ f.curdir # NoDir
  /\ Frames2(st, o)
  /\ p = "prompt" /\ Connected(f) /\ Serving(s) => Sits(f, s, L)
  /\ p = "cmd" => Waits(f, st, o, q, s, L)
  /\ p \in {"connect", "welcome"} => Redials(p, f, st, s)
  /\ p \in {"data", "drain", "final", "abort1", "abort2"} /\ Serving(s) /\ (o.name = "get" \/ o.here)
        => Sits(f, s, L)

WhereInv == Where(pc, ftp, stack, op, s2c, srv, gone)

\* No session is lost in the login of a reconnect, to another reconnect.
Single == Len(stack) <= 2


-----------------------------------------------------------------------------
(* Landings: how a step of the client ends.                                *)

\* What a step leaves of the Ftp structure is in place.
Set(g, q) ==
  /\ g.curdir # NoDir
  /\ g.ctrl => Rest(q, srv)
  /\ Connected(g) /\ Serving(srv) => Sits(g, srv, gone)

LEMMA CurdirForms ==
  ASSUME NEW f, Good(f)
  PROVE  /\ Flush(f).curdir = f.curdir /\ Flush(f).ctrl = f.ctrl /\ Connected(Flush(f)) = Connected(f)
         /\ Close(f).curdir = f.curdir /\ ~Close(f).ctrl
         /\ \A e : [f EXCEPT !.cache = @ \cup {e}].curdir = f.curdir
         /\ \A e : [f EXCEPT !.cache = @ \cup {e}].ctrl = f.ctrl
         /\ \A o : ListCached(f, o).curdir = f.curdir /\ ListCached(f, o).ctrl = f.ctrl
  <1> f \in FtpSet
    BY DEF Good, FtpOK
  <1>1. Flush(f).curdir = f.curdir /\ Flush(f).ctrl = f.ctrl /\ Flush(f).connected = f.connected
    BY DEF Flush, FtpSet
  <1>2. Close(f).curdir = f.curdir /\ ~Close(f).ctrl
    BY DEF Close, FtpSet
  <1>3. \A e : /\ [f EXCEPT !.cache = @ \cup {e}].curdir = f.curdir
               /\ [f EXCEPT !.cache = @ \cup {e}].ctrl = f.ctrl
    BY DEF FtpSet
  <1>4. \A o : ListCached(f, o).curdir = f.curdir /\ ListCached(f, o).ctrl = f.ctrl
    BY <1>3, Zenon DEF ListCached
  <1> QED
    BY <1>1, <1>2, <1>3, <1>4 DEF Connected

LEMMA RestServing ==
  ASSUME NEW q, NEW s, Rest(q, s)
  PROVE  (Serving(s) => q = <<>>) /\ Names(q)
  <1>1. Serving(s) => q = <<>>
    BY DEF Rest, Serving
  <1>2. q # <<>> => Head(q).re = "421"
    BY DEF Rest, Bye
  <1> QED
    BY <1>1, <1>2 DEF Names

LEMMA PromptWhere ==
  ASSUME NEW g, NEW q, Set(g, q), Prompt(g, q)
  PROVE  WhereInv'
  <1>1. /\ ftp' = g /\ op' = NoOp /\ stack' = <<>> /\ pc' = "prompt"
        /\ srv' = (IF g.ctrl THEN srv ELSE Down) /\ gone' = gone
    BY Zenon DEF Prompt, Network
  <1>2. Connected(g) => srv' = srv
    BY <1>1 DEF Connected
  <1>3. Frames2(<<>>, op')
    BY DEF Frames2
  <1> QED
    BY <1>1, <1>2, <1>3 DEF WhereInv, Where, Set

LEMMA EndWhere ==
  ASSUME NEW g, Good(g), NEW q, Set(g, q), EndCmd(g, q)
  PROVE  WhereInv'
  <1> DEFINE h == Flush(g)
  <1>1. h.curdir = g.curdir /\ h.ctrl = g.ctrl /\ Connected(h) = Connected(g)
    BY CurdirForms
  <1>2. Prompt(h, q)
    BY Zenon DEF EndCmd
  <1> HIDE DEF h
  <1>3. Set(h, q)
    BY <1>1 DEF Set, Sits
  <1> QED
    BY <1>2, <1>3, PromptWhere

\* The activation of a command that is sent now.
LEMMA LandWhere ==
  ASSUME NEW g, NEW q, NEW c, NEW fr \in Fitting, NEW below \in Seq(Fitting),
         ftp' = g, stack' = <<fr>> \o below, pc' = "cmd", Network(g, q, c),
         g.curdir # NoDir, g.ctrl => Rest(q, srv),
         Framed(fr, op'), below # <<>> => Framed(Head(below), op') /\ Head(below).recon,
         fr.k \in Places /\ ~fr.recon => fr.cmd.a = g.curdir,
         fr.k = "pass" => ~g.loggedin,
         g.ctrl /\ Serving(srv) => Placed(fr, g, op', q, srv, gone),
         g.ctrl /\ below # <<>> => Above(fr, Head(below), g, q, srv, gone)
  PROVE  WhereInv'
  <1>1. srv' = (IF g.ctrl THEN srv ELSE Down) /\ s2c' = (IF g.ctrl THEN q ELSE <<>>) /\ gone' = gone
    BY Zenon DEF Network
  <1>2. stack' # <<>> /\ Head(stack') = fr /\ Tail(stack') = below
    BY FrameHead
  <1>3. Frames2(stack', op')
    BY <1>2 DEF Frames2
  <1>4. g.ctrl => Names(q)
    BY RestServing
  <1>5. Waits(g, stack', op', s2c', srv', gone')
    <2>1. CASE g.ctrl
      <3> srv' = srv /\ s2c' = q
        BY <1>1, <2>1
      <3> QED
        BY <1>1, <1>2, <1>4, <2>1 DEF Waits
    <2>2. CASE ~g.ctrl
      BY <1>2, <2>2 DEF Waits
    <2> QED
      BY <2>1, <2>2
  <1> QED
    BY <1>3, <1>5 DEF WhereInv, Where

\* Those that learn where the server is, or go back to where the client is.
Learns == {"homePwd", "loginCwdPwd", "cdPwd", "lsBack"}

LEMMA FreshPlaced ==
  ASSUME NEW fr, NEW f, NEW o, NEW s, NEW L,
         fr.k # "pass",
         Sits(f, s, L) \/ fr.k \in Learns \/ (fr.k \in {"lsPasv", "lsList"} /\ ~o.here),
         fr.k = "lsBack" => fr.cmd.a = f.curdir \/ (Sits(f, s, L) /\ Lost(fr.cmd.a, L)),
         fr.k \in Places /\ fr.recon => f.curdir = fr.cmd.a \/ Lost(fr.cmd.a, L)
  PROVE  Placed(fr, f, o, <<>>, s, L)
  <1> ~Yes(<<>>)
    BY DEF Yes
  <1> QED
    BY DEF Placed, Learns

\* A command that was typed goes on.
LEMMA OwnWhere ==
  ASSUME stack \in Seq(Fitting), stack = <<>> \/ Tail(stack) = <<>>,
         NEW g, g.curdir # NoDir, NEW q, g.ctrl => Rest(q, srv),
         NEW o, NEW cmd, NEW k, Send(g, q, o, cmd, k),
         [cmd |-> cmd, recon |-> FALSE, k |-> k] \in Fitting,
         k # "pass", k = "mkd" => cmd.a = o.dir, k \in Places => cmd.a = g.curdir,
         k = "lsCwd" => ~o.here,
         \/ g.ctrl /\ Serving(srv) => Sits(g, srv, gone)
         \/ k \in Learns \/ (k \in {"lsPasv", "lsList"} /\ ~o.here)
  PROVE  WhereInv'
  <1> DEFINE fr == [cmd |-> cmd, recon |-> FALSE, k |-> k]
  <1>1. /\ ftp' = g /\ op' = o /\ stack' = <<fr>> \o <<>> /\ pc' = "cmd"
        /\ Network(g, q, Append(c2s, cmd))
    BY Zenon DEF Send, Issue
  <1>2. fr \in Fitting /\ fr.cmd = cmd /\ fr.k = k /\ ~fr.recon
    OBVIOUS
  <1> HIDE DEF fr
  <1>3. Framed(fr, op')
    BY <1>1, <1>2 DEF Framed
  <1>4. ASSUME g.ctrl, Serving(srv) PROVE Placed(fr, g, op', q, srv, gone)
    <2>1. q = <<>>
      BY <1>4, RestServing
    <2>2. Sits(g, srv, gone) \/ fr.k \in Learns \/ (fr.k \in {"lsPasv", "lsList"} /\ ~op'.here)
      BY <1>1, <1>2, <1>4
    <2>3. fr.k = "lsBack" => fr.cmd.a = g.curdir
      BY <1>2 DEF Places
    <2>4. Placed(fr, g, op', <<>>, srv, gone)
      BY <1>2, <2>2, <2>3, FreshPlaced
    <2> QED
      BY <2>1, <2>4
  <1> DEFINE below == <<>>
  <1>5. below \in Seq(Fitting) /\ below = <<>>
    OBVIOUS
  <1>6. stack' = <<fr>> \o below
    BY <1>1
  <1> HIDE DEF below
  <1> QED
    BY <1>1, <1>2, <1>3, <1>4, <1>5, <1>6, LandWhere

\* A login goes on; b is the activation that waits for it.
Ahead(k, g, b, s, L) ==
  b.k \in Places =>
    /\ s.up /\ k = "pass" => b.cmd.a = g.urldir /\ b.cmd.a = g.curdir
    /\ Serving(s) => /\ k \in {"homePwd", "loginCwd"} => b.cmd.a = g.urldir
                     /\ k = "loginCwdPwd" => s.cwd = b.cmd.a \/ Lost(b.cmd.a, L)

LEMMA LoginWhere ==
  ASSUME stack \in Seq(Fitting), stack # <<>>, Frames2(stack, op),
         NEW g, g.curdir # NoDir, NEW q, g.ctrl => Rest(q, srv),
         NEW cmd, NEW k, Send(g, q, op, cmd, k),
         [cmd |-> cmd, recon |-> FALSE, k |-> k] \in Fitting,
         k \in Logins \ {"user"},
         k = "pass" => ~g.loggedin /\ (g.ctrl => ~Serving(srv)),
         k = "loginCwd" => cmd.a = g.urldir /\ (g.ctrl /\ Serving(srv) => Sits(g, srv, gone)),
         g.ctrl /\ Tail(stack) # <<>> => Ahead(k, g, Head(Tail(stack)), srv, gone)
  PROVE  WhereInv'
  <1> DEFINE fr == [cmd |-> cmd, recon |-> FALSE, k |-> k]
             below == Tail(stack)
  <1>1. /\ ftp' = g /\ op' = op /\ stack' = <<fr>> \o below /\ pc' = "cmd"
        /\ Network(g, q, Append(c2s, cmd))
    BY Zenon DEF Send, Issue
  <1>2. fr \in Fitting /\ fr.cmd = cmd /\ fr.k = k /\ ~fr.recon
    OBVIOUS
  <1>3. below \in Seq(Fitting) /\ below = Tail(stack)
    BY Unstacked
  <1> HIDE DEF fr, below
  <1>4. Framed(fr, op')
    BY <1>1, <1>2 DEF Framed, Places, Logins
  <1>5. fr.k \notin Places
    BY <1>2 DEF Places, Logins
  <1>6. ASSUME g.ctrl, Serving(srv) PROVE Placed(fr, g, op', q, srv, gone)
    <2>1. q = <<>>
      BY <1>6, RestServing
    <2>2. Sits(g, srv, gone) \/ fr.k \in Learns
      BY <1>2, <1>6 DEF Learns, Logins
    <2>4. Placed(fr, g, op', <<>>, srv, gone)
      BY <1>2, <1>5, <1>6, <2>2, FreshPlaced DEF Places
    <2> QED
      BY <2>1, <2>4
  <1>7. ASSUME g.ctrl, below # <<>> PROVE Above(fr, Head(below), g, q, srv, gone)
    <2> DEFINE b == Head(below)
    <2> Ahead(k, g, b, srv, gone)
      BY <1>3, <1>7
    <2> HIDE DEF b
    <2>1. Serving(srv) => q = <<>>
      BY <1>7, RestServing
    <2>2. fr.k # "user"
      BY <1>2
    <2>3. Above(fr, b, g, q, srv, gone)
      BY <1>2, <2>1, <2>2 DEF Above, Ahead, Heads, Homes
    <2> QED
      BY <2>3 DEF b
  <1>8. below # <<>> => Framed(Head(below), op') /\ Head(below).recon
    BY <1>1, <1>3 DEF Frames2
  <1> QED
    BY <1>1, <1>2, <1>3, <1>4, <1>5, <1>6, <1>7, <1>8, LandWhere

\* The command of an interrupted activation is sent again.
LEMMA AgainWhere ==
  ASSUME NEW g, g.curdir # NoDir, NEW q, g.ctrl => Rest(q, srv),
         NEW frames \in Seq(Fitting), frames # <<>>, Resend(g, q, frames),
         Frames2(frames, op), Head(frames).recon,
         g.ctrl => Tail(frames) = <<>>,
         g.ctrl /\ Serving(srv) =>
           /\ Sits(g, srv, gone)
           /\ Head(frames).k \in Places =>
                g.curdir = Head(frames).cmd.a \/ Lost(Head(frames).cmd.a, gone)
  PROVE  WhereInv'
  <1> DEFINE b == Head(frames)
  <1> PICK a \in Paths :
        /\ a # b.cmd.a => b.k = "loginCwd"
        /\ ftp' = g /\ stack' = <<[b EXCEPT !.cmd.a = a]>> \o Tail(frames)
        /\ pc' = "cmd" /\ op' = op
        /\ Network(g, q, Append(c2s, [b EXCEPT !.cmd.a = a].cmd))
    BY Zenon DEF Resend
  <1> DEFINE fr == [b EXCEPT !.cmd.a = a]
             below == Tail(frames)
  <1>1. b \in Fitting /\ below \in Seq(Fitting)
    BY Unstacked
  <1>2. fr.cmd.a = a /\ fr.k = b.k /\ fr.recon = b.recon
    BY <1>1 DEF Fitting, FrameSet, CmdSet
  <1>3. fr \in Fitting
    BY <1>1, FrameForms
  <1>4. stack' = <<fr>> \o below /\ Network(g, q, Append(c2s, fr.cmd))
    OBVIOUS
  <1>5. Framed(b, op) /\ b.recon /\ (below # <<>> => Framed(Head(below), op) /\ Head(below).recon)
    BY DEF Frames2
  <1>6. g.ctrl => below = <<>>
    OBVIOUS
  <1>7. g.ctrl /\ Serving(srv) =>
          Sits(g, srv, gone) /\ (b.k \in Places => g.curdir = b.cmd.a \/ Lost(b.cmd.a, gone))
    OBVIOUS
  <1> HIDE DEF fr, below, b
  <1>8. fr.k \in Places => fr.cmd.a = b.cmd.a
    BY <1>2 DEF Places
  <1>9. Framed(fr, op') /\ fr.k # "pass"
    BY <1>2, <1>5, <1>8 DEF Framed, Places
  <1>10. ASSUME g.ctrl, Serving(srv) PROVE Placed(fr, g, op', q, srv, gone)
    <2>1. q = <<>>
      BY <1>10, RestServing
    <2>2. Sits(g, srv, gone)
      BY <1>7, <1>10
    <2>3. fr.k \in Places => g.curdir = fr.cmd.a \/ Lost(fr.cmd.a, gone)
      BY <1>2, <1>7, <1>8, <1>10
    <2>4. Placed(fr, g, op', <<>>, srv, gone)
      BY <1>9, <2>2, <2>3, FreshPlaced DEF Places
    <2> QED
      BY <2>1, <2>4
  <1> QED
    BY <1>2, <1>3, <1>1, <1>4, <1>5, <1>6, <1>9, <1>10, LandWhere

\* ftp_login returns to what waits for it.
LEMMA ReturnWhere ==
  ASSUME stack \in Seq(Fitting), stack # <<>>, Frames2(stack, op), Single,
         NEW f, Good(f), f.curdir # NoDir, NEW q, f.ctrl => Rest(q, srv), Return(f, q),
         f.ctrl /\ Serving(srv) => Sits(f, srv, gone),
         f.ctrl /\ Serving(srv) /\ Tail(stack) # <<>> /\ Head(Tail(stack)).k \in Places =>
           f.curdir = Head(Tail(stack)).cmd.a \/ Lost(Head(Tail(stack)).cmd.a, gone)
  PROVE  WhereInv'
  <1>1. CASE Tail(stack) # <<>> /\ Resend(f, q, Tail(stack))
    <2> DEFINE frames == Tail(stack)
    <2>1. frames \in Seq(Fitting) /\ Len(stack) = Len(frames) + 1
      BY Unstacked
    <2>2. frames # <<>> /\ Resend(f, q, frames) /\ Framed(Head(frames), op) /\ Head(frames).recon
      BY <1>1 DEF Frames2
    <2> HIDE DEF frames
    <2>3. Len(frames) = Len(Tail(frames)) + 1 /\ Tail(frames) \in Seq(Fitting)
      BY <2>1, <2>2, Unstacked
    <2>4. Len(Tail(frames)) = 0
      <3> Len(Tail(frames)) \in Nat
        BY <2>3
      <3> QED
        BY <2>1, <2>3 DEF Single
    <2>5. Tail(frames) = <<>>
      <3> DEFINE t == Tail(frames)
      <3> t \in Seq(Fitting) /\ Len(t) = 0
        BY <2>3, <2>4
      <3> HIDE DEF t
      <3> t = <<>>
        BY EmptySeq, Zenon
      <3> QED
        BY DEF t
    <2>6. Frames2(frames, op)
      BY <2>2, <2>5 DEF Frames2
    <2>7. f.ctrl /\ Serving(srv) =>
            /\ Sits(f, srv, gone)
            /\ Head(frames).k \in Places =>
                 f.curdir = Head(frames).cmd.a \/ Lost(Head(frames).cmd.a, gone)
      BY <1>1 DEF frames
    <2> QED
      BY <2>1, <2>2, <2>5, <2>6, <2>7, AgainWhere
  <1>2. CASE EndCmd(f, q)
    <2> Set(f, q)
      BY DEF Set, Connected
    <2> QED
      BY <1>2, EndWhere
  <1>3. CASE EndCmd(Close(f), q)
    <2> DEFINE g == Close(f)
    <2>1. Good(g)
      BY CloseForm DEF Good
    <2>2. g.curdir = f.curdir /\ ~g.ctrl
      BY CurdirForms
    <2>3. EndCmd(g, q)
      BY <1>3
    <2> HIDE DEF g
    <2> Set(g, q)
      BY <2>2 DEF Set, Connected
    <2> QED
      BY <2>1, <2>3, EndWhere
  <1> QED
    BY <1>1, <1>2, <1>3 DEF Return

-----------------------------------------------------------------------------
(* What the caller of ftp_cmd does with the reply r.                       *)

\* Placed and Above, of a reply that was read.
Told(fr, f, o, r, s, L) ==
  /\ fr.k \in {"user", "mkd", "quit", "getPasv", "getType", "getRest", "getRetr", "lsBack"} =>
       Sits(f, s, L)
  /\ fr.k = "user" => Class(r) # 3
  /\ fr.k = "pass" => Class(r) = 2
  /\ fr.k \in {"homePwd", "loginCwdPwd", "cdPwd"} => Class(r) = 2 /\ r.dir = s.cwd
  /\ fr.k \in {"loginCwd", "cdCwd"} => IF Class(r) = 2 THEN r.dir = s.cwd ELSE Sits(f, s, L)
  /\ fr.k = "lsCwd" => Class(r) = 2 \/ Sits(f, s, L)
  /\ fr.k \in {"lsPasv", "lsList"} /\ o.here => Sits(f, s, L)
Hears(fr, b, f, r, s, L) ==
  b.k \in Places =>
    /\ s.up => Heads(fr, f, b.cmd.a)
    /\ Serving(s) =>
         /\ fr.k = "homePwd" => b.cmd.a = f.urldir
         /\ fr.k = "loginCwd" => (Class(r) = 2 /\ r.dir = b.cmd.a) \/ Lost(b.cmd.a, L)
         /\ fr.k = "loginCwdPwd" => s.cwd = b.cmd.a \/ Lost(b.cmd.a, L)
Back(f, r) ==
  /\ f.curdir # NoDir
  /\ Class(r) = 2 /\ r.re \in {"PWD", "CWD"} => r.dir # NoDir
  /\ f.ctrl /\ Serving(srv) =>
       r.re = Head(stack).cmd.v /\ Told(Head(stack), f, op, r, srv, gone)
  /\ f.ctrl /\ Tail(stack) # <<>> => Hears(Head(stack), Head(Tail(stack)), f, r, srv, gone)

Poised ==
  /\ stack \in Seq(Fitting) /\ stack # <<>> /\ op \in OpSet
  /\ Calls(stack, op) /\ Frames2(stack, op) /\ Single

LEMMA ToldForm ==
  ASSUME NEW fr, NEW b, NEW f, NEW o, NEW q, q # <<>>, NEW s, NEW L
  PROVE  /\ Placed(fr, f, o, q, s, L) => Told(fr, f, o, Head(q), s, L)
         /\ Above(fr, b, f, q, s, L) => Hears(fr, b, f, Head(q), s, L)
  BY DEF Placed, Told, Above, Hears, Homes, Yes

LEMMA FrameIn ==
  ASSUME NEW cmd \in CmdSet, NEW k \in Frames, cmd.v # "MKD"
  PROVE  [cmd |-> cmd, recon |-> FALSE, k |-> k] \in Fitting
  BY FrameForms DEF Fits, Frames

LEMMA VerbIn ==
  ASSUME NEW v \in Verbs, v # "MKD", NEW k \in Frames
  PROVE  [cmd |-> Verb(v), recon |-> FALSE, k |-> k] \in Fitting
  <1> DEFINE cmd == Verb(v)
  <1> cmd \in CmdSet /\ cmd.v # "MKD"
    BY VerbTyped
  <1> HIDE DEF cmd
  <1> [cmd |-> cmd, recon |-> FALSE, k |-> k] \in Fitting
    BY FrameIn
  <1> QED
    BY DEF cmd

LEMMA CwdIn ==
  ASSUME NEW a \in Paths, NEW k \in Frames
  PROVE  [cmd |-> Cmd("CWD", a, 0), recon |-> FALSE, k |-> k] \in Fitting
  <1> DEFINE cmd == Cmd("CWD", a, 0)
  <1> cmd \in CmdSet /\ cmd.v # "MKD"
    BY VerbTyped DEF Verbs
  <1> HIDE DEF cmd
  <1> [cmd |-> cmd, recon |-> FALSE, k |-> k] \in Fitting
    BY FrameIn
  <1> QED
    BY DEF cmd

LEMMA LoginAnswerWhere ==
  ASSUME Poised, NEW f, Good(f), NEW q, f.ctrl => Rest(q, srv), NEW r \in ReplySet, Back(f, r),
         Head(stack).k \in {"user", "pass"}, LoginAnswer(f, q, r)
  PROVE  WhereInv'
  <1> DEFINE k == Head(stack).k
             b == Head(Tail(stack))
  <1>1. f.curdir # NoDir
    BY DEF Back
  <1>2. ASSUME NEW g, Good(g), Alike(g, f), NEW ok, LoginDone(g, q, ok), Class(r) # 2
        PROVE  WhereInv'
    <2>1. Return(g, q)
      BY <1>2, ReturnForm
    <2>2. g.curdir = f.curdir /\ g.ctrl = f.ctrl
      BY <1>2 DEF Alike
    <2>3. ASSUME f.ctrl, Serving(srv) PROVE k = "user" /\ Sits(f, srv, gone)
      BY <1>2, <2>3 DEF Back, Told
    <2>4. ASSUME f.ctrl, Serving(srv), Tail(stack) # <<>>, b.k \in Places
          PROVE  f.curdir = b.cmd.a
      BY <2>3, <2>4 DEF Back, Hears, Heads, Serving
    <2>5. Sits(f, srv, gone) => Sits(g, srv, gone)
      BY <2>2 DEF Sits
    <2> QED
      BY <1>1, <1>2, <2>1, <2>2, <2>3, <2>4, <2>5, ReturnWhere DEF Poised
  <1>3. CASE Class(r) > 3 /\
             LoginDone([f EXCEPT !.loggedin = r.full = 530 /\ LoggedIn(f)], q, FALSE)
    <2> DEFINE bb == r.full = 530 /\ LoggedIn(f)
               g == [f EXCEPT !.loggedin = bb]
    <2>1. bb \in BOOLEAN
      BY Zenon
    <2>2. LoginDone(g, q, FALSE)
      BY <1>3, Zenon
    <2> HIDE DEF bb
    <2>3. Good(g) /\ Alike(g, f)
      BY <2>1, FieldForms, AlikeForms
    <2>4. Class(r) # 2
      BY <1>3 DEF Class, ReplySet, Codes
    <2> HIDE DEF g
    <2> QED
      BY <1>2, <2>2, <2>3, <2>4
  <1>4. CASE Class(r) = 2 /\
             Send([f EXCEPT !.loggedin = TRUE], q, op, Verb("PWD"), "homePwd")
    <2> DEFINE g == [f EXCEPT !.loggedin = TRUE]
    <2>1. Good(g) /\ Alike(g, f)
      BY FieldForms, AlikeForms
    <2>2. Send(g, q, op, Verb("PWD"), "homePwd")
      BY <1>4
    <2> HIDE DEF g
    <2>3. g.curdir = f.curdir /\ g.ctrl = f.ctrl /\ g.urldir = f.urldir
      BY <2>1 DEF Alike
    <2>4. ASSUME g.ctrl, Tail(stack) # <<>>
          PROVE  Ahead("homePwd", g, b, srv, gone)
      BY <2>3, <2>4 DEF Back, Hears, Heads, Ahead, Serving
    <2>5. [cmd |-> Verb("PWD"), recon |-> FALSE, k |-> "homePwd"] \in Fitting
      BY VerbIn DEF Verbs, Frames, Continuations
    <2>6. "homePwd" \in Logins \ {"user"} /\ "homePwd" # "pass" /\ "homePwd" # "loginCwd"
      BY DEF Logins
    <2> QED
      BY <1>1, <2>2, <2>3, <2>4, <2>5, <2>6, LoginWhere DEF Poised
  <1>5. CASE Class(r) < 2 /\ LoginDone(f, q, FALSE)
    <2> Alike(f, f)
      BY AlikeForms
    <2> Class(r) # 2
      BY <1>5 DEF Class, ReplySet, Codes
    <2> QED
      BY <1>2, <1>5
  <1> QED
    BY <1>3, <1>4, <1>5, Zenon DEF LoginAnswer

LEMMA AfterUserWhere ==
  ASSUME Poised, NEW f, Good(f), NEW q, f.ctrl => Rest(q, srv), NEW r \in ReplySet, Back(f, r),
         Head(stack).k = "user", AfterUser(f, q, r)
  PROVE  WhereInv'
  <1> DEFINE b == Head(Tail(stack))
  <1>1. CASE Class(r) = 3
    <2> DEFINE g == [f EXCEPT !.loggedin = FALSE]
    <2>1. Good(g) /\ Alike(g, f)
      BY FieldForms, AlikeForms
    <2>2. ~g.loggedin
      BY DEF Good, FtpOK, FtpSet
    <2>3. Send(g, q, op, Verb("PASS"), "pass")
      BY <1>1, Zenon DEF AfterUser
    <2> HIDE DEF g
    <2>4. g.curdir = f.curdir /\ g.ctrl = f.ctrl /\ g.urldir = f.urldir /\ f.curdir # NoDir
      BY <2>1 DEF Alike, Back
    <2>5. g.ctrl => ~Serving(srv)
      BY <1>1, <2>4 DEF Back, Told
    <2>6. ASSUME g.ctrl, Tail(stack) # <<>>
          PROVE  Ahead("pass", g, b, srv, gone)
      BY <2>4, <2>6 DEF Back, Hears, Heads, Ahead
    <2>7. [cmd |-> Verb("PASS"), recon |-> FALSE, k |-> "pass"] \in Fitting
      BY VerbIn DEF Verbs, Frames, Continuations
    <2>8. "pass" \in Logins \ {"user"} /\ "pass" # "loginCwd"
      BY DEF Logins
    <2> QED
      BY <2>2, <2>3, <2>4, <2>5, <2>6, <2>7, <2>8, LoginWhere DEF Poised
  <1>2. CASE Class(r) # 3
    BY <1>2, LoginAnswerWhere, Zenon DEF AfterUser
  <1> QED
    BY <1>1, <1>2

\* The directory a reply names becomes the current one.
LEMMA Learnt ==
  ASSUME NEW f, Good(f), NEW p \in Paths
  PROVE  LET g == [f EXCEPT !.curdir = p]
         IN  Good(g) /\ g.curdir = p /\ g.ctrl = f.ctrl /\ g.urldir = f.urldir
  <1> f \in FtpSet
    BY DEF Good, FtpOK
  <1>1. Good([f EXCEPT !.curdir = p])
    BY FieldForms
  <1> QED
    BY <1>1 DEF FtpSet

LEMMA CurDirForm ==
  ASSUME NEW f, NEW r, Back(f, r)
  PROVE  /\ CurDirOf(r) # NoDir
         /\ CurDirOf(r) = r.dir \/ CurDirOf(r) = BadDir
         /\ Class(r) = 2 /\ r.re = "PWD" => CurDirOf(r) = r.dir
  BY SessionAssumption DEF CurDirOf, Back

LEMMA AfterHomePwdWhere ==
  ASSUME Poised, NEW f, Good(f), NEW q, f.ctrl => Rest(q, srv), NEW r \in ReplySet, Back(f, r),
         Head(stack).k = "homePwd", AfterHomePwd(f, q, r)
  PROVE  WhereInv'
  <1> DEFINE b == Head(Tail(stack))
             d == CurDirOf(r)
             g == [f EXCEPT !.curdir = d]
  <1>1. d \in Paths
    BY CurDirTyped
  <1>2. Good(g) /\ g.curdir = d /\ g.ctrl = f.ctrl /\ g.urldir = f.urldir
    BY <1>1, Learnt
  <1>3. d # NoDir /\ (d = r.dir \/ d = BadDir)
    BY CurDirForm
  <1>4. \/ /\ pc' = "crashed" /\ ftp' = g /\ UNCHANGED <<stack, op>>
        \/ g.urldir = NoDir /\ LoginDone(g, q, TRUE)
        \/ Send(g, q, op, Cmd("CWD", g.urldir, 0), "loginCwd")
    BY Zenon DEF AfterHomePwd
  <1> HIDE DEF g, d
  <1>5. ASSUME g.ctrl, Serving(srv) PROVE Sits(g, srv, gone)
    BY <1>2, <1>3, <1>5 DEF Back, Told, Sits, Lost
  <1>6. ASSUME g.ctrl, Serving(srv), Tail(stack) # <<>>, b.k \in Places
        PROVE  b.cmd.a = g.urldir
    BY <1>2, <1>6 DEF Back, Hears
  <1>7. CASE pc' = "crashed" /\ ftp' = g /\ UNCHANGED <<stack, op>>
    BY <1>2, <1>3, <1>7 DEF Poised, WhereInv, Where
  <1>8. CASE g.urldir = NoDir /\ LoginDone(g, q, TRUE)
    <2>1. Return(g, q)
      BY <1>8, ReturnForm
    <2>2. Tail(stack) # <<>> /\ b.k \in Places => b.cmd.a # NoDir
      BY DEF Poised, Frames2, Framed
    <2> QED
      BY <1>2, <1>3, <1>5, <1>6, <1>8, <2>1, <2>2, ReturnWhere DEF Poised
  <1>9. CASE Send(g, q, op, Cmd("CWD", g.urldir, 0), "loginCwd")
    <2> DEFINE cmd == Cmd("CWD", g.urldir, 0)
    <2>1. g.urldir \in Paths
      BY <1>2 DEF Good, FtpOK, FtpSet
    <2>2. [cmd |-> cmd, recon |-> FALSE, k |-> "loginCwd"] \in Fitting
      BY <2>1, CwdIn DEF Frames, Continuations
    <2>3. cmd.a = g.urldir
      BY VerbForm
    <2>4. Send(g, q, op, cmd, "loginCwd")
      BY <1>9
    <2> HIDE DEF cmd
    <2>5. ASSUME g.ctrl, Tail(stack) # <<>>
          PROVE  Ahead("loginCwd", g, b, srv, gone)
      BY <1>6, <2>5 DEF Ahead
    <2>6. "loginCwd" \in Logins \ {"user"} /\ "loginCwd" # "pass"
      BY DEF Logins
    <2>7. g.ctrl => Rest(q, srv)
      BY <1>2
    <2> QED
      BY <1>2, <1>3, <1>5, <2>2, <2>3, <2>4, <2>5, <2>6, <2>7, LoginWhere DEF Poised
  <1> QED
    BY <1>4, <1>7, <1>8, <1>9

\* ftp_chdir is done: in the login, or at the end of a cd.
LEMMA CwdDoneWhere ==
  ASSUME Poised, NEW g, Good(g), g.curdir # NoDir, NEW q, g.ctrl => Rest(q, srv), NEW k,
         CwdDone(g, q, k),
         g.ctrl /\ Serving(srv) => Sits(g, srv, gone),
         k = "loginCwdPwd" /\ g.ctrl /\ Serving(srv) /\ Tail(stack) # <<>> /\
             Head(Tail(stack)).k \in Places =>
           g.curdir = Head(Tail(stack)).cmd.a \/ Lost(Head(Tail(stack)).cmd.a, gone)
  PROVE  WhereInv'
  <1>1. CASE k = "loginCwdPwd"
    <2> Return(g, q)
      BY <1>1, ReturnForm, Zenon DEF CwdDone
    <2> QED
      BY <1>1, ReturnWhere DEF Poised
  <1>2. CASE k # "loginCwdPwd"
    <2> EndCmd(g, q)
      BY <1>2, Zenon DEF CwdDone
    <2> Set(g, q)
      BY DEF Set, Connected
    <2> QED
      BY EndWhere
  <1> QED
    BY <1>1, <1>2

LEMMA AfterPwdWhere ==
  ASSUME Poised, NEW f, Good(f), NEW q, f.ctrl => Rest(q, srv), NEW r \in ReplySet, Back(f, r),
         Head(stack).k \in {"loginCwdPwd", "cdPwd"}, AfterPwd(f, q, r, Head(stack).k)
  PROVE  WhereInv'
  <1> DEFINE k == Head(stack).k
             b == Head(Tail(stack))
             d == CurDirOf(r)
             g == [f EXCEPT !.curdir = d]
  <1>1. d \in Paths
    BY CurDirTyped
  <1>2. Good(g) /\ g.curdir = d /\ g.ctrl = f.ctrl /\ g.urldir = f.urldir
    BY <1>1, Learnt
  <1>3. d # NoDir /\ (d = r.dir \/ d = BadDir)
    BY CurDirForm
  <1>4. CwdDone(g, q, k)
    BY Zenon DEF AfterPwd
  <1>5. Speaks(Head(stack).cmd.v, k)
    BY CallsForm DEF Poised
  <1>6. Head(stack).cmd.v = "PWD"
    BY <1>5 DEF Speaks
  <1>7. ASSUME f.ctrl, Serving(srv) PROVE d = srv.cwd
    <2>1. Class(r) = 2 /\ r.dir = srv.cwd /\ r.re = "PWD"
      BY <1>6, <1>7 DEF Back, Told
    <2> QED
      BY <2>1, CurDirForm
  <1>8. ASSUME f.ctrl, Serving(srv), k = "loginCwdPwd", Tail(stack) # <<>>, b.k \in Places
        PROVE  srv.cwd = b.cmd.a \/ Lost(b.cmd.a, gone)
    BY <1>8 DEF Back, Hears
  <1> HIDE DEF g, d, k, b
  <1>9. ASSUME g.ctrl, Serving(srv) PROVE Sits(g, srv, gone)
    BY <1>2, <1>7, <1>9 DEF Sits
  <1>10. ASSUME k = "loginCwdPwd", g.ctrl, Serving(srv), Tail(stack) # <<>>, b.k \in Places
         PROVE  g.curdir = b.cmd.a \/ Lost(b.cmd.a, gone)
    BY <1>2, <1>7, <1>8, <1>10
  <1> QED
    BY <1>2, <1>3, <1>4, <1>9, <1>10, CwdDoneWhere DEF b

LEMMA AfterCwdWhere ==
  ASSUME Poised, NEW f, Good(f), NEW q, f.ctrl => Rest(q, srv), NEW r \in ReplySet, Back(f, r),
         NEW k,
         \/ Head(stack).k = "loginCwd" /\ k = "loginCwdPwd"
         \/ Head(stack).k = "cdCwd" /\ k = "cdPwd",
         AfterCwd(f, q, r, k)
  PROVE  WhereInv'
  <1> DEFINE b == Head(Tail(stack))
  <1>1. f.curdir # NoDir
    BY DEF Back
  <1>2. k = "loginCwdPwd" => Head(stack).k = "loginCwd"
    OBVIOUS
  <1>3. ASSUME k = "loginCwdPwd", f.ctrl, Serving(srv), Tail(stack) # <<>>, b.k \in Places
        PROVE  (Class(r) = 2 /\ r.dir = b.cmd.a) \/ Lost(b.cmd.a, gone)
    BY <1>2, <1>3 DEF Back, Hears
  <1>4. ASSUME f.ctrl, Serving(srv)
        PROVE  IF Class(r) = 2 THEN r.dir = srv.cwd ELSE Sits(f, srv, gone)
    BY <1>4 DEF Back, Told
  <1>5. CASE Class(r) # 2 /\ CwdDone(f, q, k)
    BY <1>1, <1>3, <1>4, <1>5, CwdDoneWhere
  <1>6. CASE Class(r) = 2 /\ r.re = "CWD" /\ CwdDone([f EXCEPT !.curdir = r.dir], q, k)
    <2> DEFINE g == [f EXCEPT !.curdir = r.dir]
    <2>1. r.dir \in Paths
      BY CurDirTyped
    <2>2. Good(g) /\ g.curdir = r.dir /\ g.ctrl = f.ctrl
      BY <2>1, Learnt
    <2>3. CwdDone(g, q, k)
      BY <1>6
    <2> HIDE DEF g
    <2>4. r.dir # NoDir
      BY <1>6 DEF Back
    <2>5. ASSUME g.ctrl, Serving(srv) PROVE Sits(g, srv, gone)
      BY <1>4, <1>6, <2>2, <2>5 DEF Sits
    <2>6. ASSUME k = "loginCwdPwd", g.ctrl, Serving(srv), Tail(stack) # <<>>, b.k \in Places
          PROVE  g.curdir = b.cmd.a \/ Lost(b.cmd.a, gone)
      BY <1>3, <2>2, <2>6
    <2> QED
      BY <2>2, <2>3, <2>4, <2>5, <2>6, CwdDoneWhere
  <1>7. CASE Class(r) = 2 /\ Send(f, q, op, Verb("PWD"), k)
    <2>1. [cmd |-> Verb("PWD"), recon |-> FALSE, k |-> k] \in Fitting
      BY VerbIn DEF Verbs, Frames, Continuations
    <2>2. CASE k = "cdPwd"
      <3>1. Tail(stack) = <<>>
        <4> Head(stack).k \notin Logins
          BY <2>2 DEF Logins
        <4> QED
          BY CallsForm DEF Poised
      <3>2. k \in Learns /\ k \notin Places /\ k \notin {"pass", "mkd", "lsCwd"}
        BY <2>2 DEF Learns, Places
      <3> QED
        BY <1>1, <1>7, <2>1, <3>1, <3>2, OwnWhere DEF Poised
    <2>3. CASE k = "loginCwdPwd"
      <3>1. ASSUME f.ctrl, Tail(stack) # <<>> PROVE Ahead(k, f, b, srv, gone)
        BY <1>3, <1>4, <1>7, <2>3, <3>1 DEF Ahead
      <3>2. k \in Logins \ {"user"} /\ k \notin {"pass", "loginCwd"}
        BY <2>3 DEF Logins
      <3> QED
        BY <1>1, <1>7, <2>1, <3>1, <3>2, LoginWhere DEF Poised
    <2> QED
      BY <2>2, <2>3
  <1> QED
    BY <1>5, <1>6, <1>7, Zenon DEF AfterCwd

\* Where a listing goes on, or ends.
LEMMA ListWhere ==
  ASSUME stack \in Seq(Fitting), stack = <<>> \/ Tail(stack) = <<>>,
         NEW g, Good(g), g.curdir # NoDir, NEW q, g.ctrl => Rest(q, srv),
         NEW p, Relists(g, q, p) \/ GivesUp(g, q, p),
         g.ctrl /\ Serving(srv) /\ p.here => Sits(g, srv, gone)
  PROVE  WhereInv'
  <1>1. CASE Relists(g, q, p)
    <2>1. [cmd |-> Verb("PASV"), recon |-> FALSE, k |-> "lsPasv"] \in Fitting
      BY VerbIn DEF Verbs, Frames, Continuations
    <2> QED
      BY <1>1, <2>1, OwnWhere DEF Relists, Places, Learns
  <1>2. CASE GivesUp(g, q, p) /\ p.here
    <2> EndCmd(g, q)
      BY <1>2 DEF GivesUp
    <2> Set(g, q)
      BY <1>2 DEF Set, Connected
    <2> QED
      BY EndWhere
  <1>3. CASE GivesUp(g, q, p) /\ ~p.here
    <2> DEFINE cmd == Cmd("CWD", g.curdir, 0)
    <2>1. Send(g, q, p, cmd, "lsBack")
      BY <1>3 DEF GivesUp
    <2>2. g.curdir \in Paths
      BY DEF Good, FtpOK, FtpSet
    <2>3. [cmd |-> cmd, recon |-> FALSE, k |-> "lsBack"] \in Fitting
      BY <2>2, CwdIn DEF Frames, Continuations
    <2>4. cmd.a = g.curdir
      BY VerbForm
    <2> HIDE DEF cmd
    <2> QED
      BY <2>1, <2>3, <2>4, OwnWhere DEF Learns
  <1> QED
    BY <1>1, <1>2, <1>3

LEMMA OwnEndWhere ==
  ASSUME NEW f, f.curdir # NoDir, NEW q, f.ctrl => Rest(q, srv),
         f.ctrl /\ Serving(srv) => Sits(f, srv, gone),
         NEW g, Good(g), g.curdir = f.curdir, g.ctrl => f.ctrl, EndCmd(g, q)
  PROVE  WhereInv'
  <1> Set(g, q)
    BY DEF Set, Connected, Sits
  <1> QED
    BY EndWhere

\* While data moves, and until the end of the transfer is known.
SamePlace(p, o) == p.name = o.name /\ p.dir = o.dir /\ p.here = o.here

LEMMA BlockWhere ==
  ASSUME Frames2(stack, op), NEW f, f.curdir # NoDir, NEW p \in Moment,
         NEW o, SamePlace(o, op), ftp' = f, op' = o, pc' = p, stack' = stack, gone' = gone,
         srv' = (IF f.ctrl THEN srv ELSE Down),
         f.ctrl /\ Serving(srv) /\ (o.name = "get" \/ o.here) => Sits(f, srv, gone)
  PROVE  WhereInv'
  <1>1. Frames2(stack', op')
    BY DEF Frames2, Framed, SamePlace
  <1>2. Serving(srv') => f.ctrl /\ srv' = srv
    BY DEF Serving, Down
  <1> QED
    BY <1>1, <1>2 DEF WhereInv, Where, Moment

LEMMA RetrieveWhere ==
  ASSUME stack \in Seq(Fitting), Tail(stack) = <<>>, NEW f, f.curdir # NoDir,
         NEW q, f.ctrl => Rest(q, srv), f.ctrl /\ Serving(srv) => Sits(f, srv, gone),
         Retrieve(f, q)
  PROVE  WhereInv'
  <1>1. /\ [cmd |-> Verb("REST"), recon |-> FALSE, k |-> "getRest"] \in Fitting
        /\ [cmd |-> Verb("RETR"), recon |-> FALSE, k |-> "getRetr"] \in Fitting
    BY VerbIn DEF Verbs, Frames, Continuations
  <1>2. CASE Send(f, q, op, Verb("REST"), "getRest")
    BY <1>1, <1>2, OwnWhere DEF Places
  <1>3. CASE Send(f, q, op, Verb("RETR"), "getRetr")
    BY <1>1, <1>3, OwnWhere DEF Places
  <1> QED
    BY <1>2, <1>3 DEF Retrieve

LEMMA AlikePlace ==
  ASSUME NEW g, NEW f, Alike(g, f)
  PROVE  g.curdir = f.curdir /\ g.ctrl = f.ctrl /\ g.connected = f.connected /\
         \A s, L : Sits(f, s, L) => Sits(g, s, L)
  BY DEF Alike, Sits

LEMMA ListsWhere ==
  ASSUME Poised, NEW f, Good(f), NEW q, f.ctrl => Rest(q, srv), NEW r \in ReplySet, Back(f, r),
         NEW k, k = Head(stack).k, Tail(stack) = <<>>,
         \/ k = "lsCwd" /\ Class(r) = 2 /\ ListStart(f, q, op)
         \/ k = "lsCwd" /\ Class(r) # 2 /\ EndCmd(f, q)
         \/ k = "lsPasv" /\ AfterListPasv(f, q, r)
         \/ k = "lsList" /\ Class(r) # 1 /\ AfterList(f, q, r)
         \/ k = "lsBack" /\ EndCmd(ListCached(f, op), q)
  PROVE  WhereInv'
  <1>1. f.curdir # NoDir /\ op \in OpSet
    BY DEF Back, Poised
  <1>2. k = "lsCwd" => ~op.here
    BY DEF Poised, Frames2, Framed
  <1>3. f.ctrl /\ Serving(srv) /\ k \in {"lsPasv", "lsList"} /\ op.here => Sits(f, srv, gone)
    BY DEF Back, Told
  <1>4. ASSUME NEW g, NEW p, Good(g), Alike(g, f), SameJob(p, op),
               Relists(g, q, p) \/ GivesUp(g, q, p), k \in {"lsCwd", "lsPasv", "lsList"}
        PROVE  WhereInv'
    <2>1. g.curdir = f.curdir /\ g.ctrl = f.ctrl /\ (Sits(f, srv, gone) => Sits(g, srv, gone))
      BY <1>4, AlikePlace
    <2>2. p.here = op.here
      BY <1>4 DEF SameJob
    <2> QED
      BY <1>1, <1>2, <1>3, <1>4, <2>1, <2>2, ListWhere DEF Poised
  <1>5. CASE k = "lsCwd" /\ Class(r) = 2 /\ ListStart(f, q, op)
    BY <1>1, <1>4, <1>5, ListStartMoves
  <1>6. CASE k = "lsCwd" /\ Class(r) # 2 /\ EndCmd(f, q)
    <2> f.ctrl /\ Serving(srv) => Sits(f, srv, gone)
      BY <1>6 DEF Back, Told
    <2> QED
      BY <1>1, <1>6, OwnEndWhere
  <1>7. CASE k = "lsPasv" /\ AfterListPasv(f, q, r)
    <2>1. CASE Send(f, q, op, Verb(op.verb), "lsList")
      <3>1. op.verb \in Verbs /\ op.verb # "MKD"
        BY <1>1 DEF OpSet, Verbs
      <3>2. [cmd |-> Verb(op.verb), recon |-> FALSE, k |-> "lsList"] \in Fitting
        BY <3>1, VerbIn DEF Frames, Continuations
      <3> DEFINE cmd == Verb(op.verb)
      <3>3. Send(f, q, op, cmd, "lsList") /\ stack \in Seq(Fitting)
        BY <2>1 DEF Poised
      <3>4. [cmd |-> cmd, recon |-> FALSE, k |-> "lsList"] \in Fitting
        BY <3>2
      <3> HIDE DEF cmd
      <3>5. "lsList" \notin Places /\ "lsList" \notin {"pass", "mkd", "lsCwd"}
        BY DEF Places
      <3>6. CASE op.here
        <4> f.ctrl /\ Serving(srv) => Sits(f, srv, gone)
          BY <1>3, <1>7, <3>6
        <4> QED
          BY <1>1, <3>3, <3>4, <3>5, OwnWhere
      <3>7. CASE ~op.here
        BY <1>1, <3>3, <3>4, <3>5, <3>7, OwnWhere
      <3> QED
        BY <3>6, <3>7
    <2> QED
      BY <1>1, <1>4, <1>7, <2>1, PasvMoves
  <1>8. CASE k = "lsList" /\ Class(r) # 1 /\ AfterList(f, q, r)
    <2> ListFailed(f, q, op)
      BY <1>8, Zenon DEF AfterList
    <2> QED
      BY <1>1, <1>4, <1>8, ListFailedMoves
  <1>9. CASE k = "lsBack" /\ EndCmd(ListCached(f, op), q)
    <2> DEFINE g == ListCached(f, op)
    <2>1. Good(g) /\ g.curdir = f.curdir /\ g.ctrl = f.ctrl
      BY <1>1, CachedForm, CurdirForms
    <2>2. EndCmd(g, q)
      BY <1>9
    <2> HIDE DEF g
    <2> f.ctrl /\ Serving(srv) => Sits(f, srv, gone)
      BY <1>9 DEF Back, Told
    <2> QED
      BY <1>1, <2>1, <2>2, OwnEndWhere
  <1> QED
    BY <1>5, <1>6, <1>7, <1>8, <1>9

LEMMA GetsWhere ==
  ASSUME Poised, NEW f, Good(f), NEW q, f.ctrl => Rest(q, srv), NEW r \in ReplySet, Back(f, r),
         ~LocalFails, NEW k, k = Head(stack).k, Tail(stack) = <<>>,
         \/ k = "getPasv" /\ AfterGetPasv(f, q, r)
         \/ k = "getType" /\ AfterType(f, q, r)
         \/ k = "getRest" /\ AfterRest(f, q, r)
         \/ k = "getRetr" /\ Class(r) # 1 /\ AfterRetr(f, q, r)
  PROVE  WhereInv'
  <1>1. f.curdir # NoDir /\ stack \in Seq(Fitting)
    BY DEF Back, Poised
  <1>2. f.ctrl /\ Serving(srv) => Sits(f, srv, gone)
    BY DEF Back, Told
  <1>3. \/ Retrieve(f, q)
        \/ Retrieve([f EXCEPT !.type = "I"], q)
        \/ Send(f, q, op, Verb("TYPE"), "getType")
        \/ Send(f, q, op, Verb("RETR"), "getRetr")
        \/ EndCmd(f, q)
        \/ EndCmd(NoMorePasv(f), q)
    <2>1. CASE k = "getPasv" /\ AfterGetPasv(f, q, r)
      BY <2>1, Zenon DEF AfterGetPasv
    <2>2. CASE k = "getType" /\ AfterType(f, q, r)
      BY <2>2, Zenon DEF AfterType
    <2>3. CASE k = "getRest" /\ AfterRest(f, q, r)
      BY <2>3, Zenon DEF AfterRest
    <2>4. CASE k = "getRetr" /\ Class(r) # 1 /\ AfterRetr(f, q, r)
      BY <2>4, Zenon DEF AfterRetr
    <2> QED
      BY <2>1, <2>2, <2>3, <2>4
  <1>4. CASE Retrieve(f, q)
    BY <1>1, <1>2, <1>4, RetrieveWhere
  <1>5. CASE Retrieve([f EXCEPT !.type = "I"], q)
    <2> DEFINE g == [f EXCEPT !.type = "I"]
    <2>1. g.curdir = f.curdir /\ g.ctrl = f.ctrl
      BY DEF Good, FtpOK, FtpSet
    <2>2. Retrieve(g, q)
      BY <1>5
    <2> HIDE DEF g
    <2>3. Sits(f, srv, gone) => Sits(g, srv, gone)
      BY <2>1 DEF Sits
    <2> QED
      BY <1>1, <1>2, <2>1, <2>2, <2>3, RetrieveWhere
  <1>6. CASE Send(f, q, op, Verb("TYPE"), "getType") \/ Send(f, q, op, Verb("RETR"), "getRetr")
    <2>1. /\ [cmd |-> Verb("TYPE"), recon |-> FALSE, k |-> "getType"] \in Fitting
          /\ [cmd |-> Verb("RETR"), recon |-> FALSE, k |-> "getRetr"] \in Fitting
      BY VerbIn DEF Verbs, Frames, Continuations
    <2>2. CASE Send(f, q, op, Verb("TYPE"), "getType")
      BY <1>1, <1>2, <2>1, <2>2, OwnWhere DEF Places
    <2>3. CASE Send(f, q, op, Verb("RETR"), "getRetr")
      BY <1>1, <1>2, <2>1, <2>3, OwnWhere DEF Places
    <2> QED
      BY <1>6, <2>2, <2>3
  <1>7. CASE EndCmd(f, q)
    BY <1>1, <1>2, <1>7, OwnEndWhere
  <1>8. CASE EndCmd(NoMorePasv(f), q)
    <2> Good(NoMorePasv(f)) /\ Alike(NoMorePasv(f), f)
      BY NoMorePasvForm, AlikeForms
    <2> NoMorePasv(f).curdir = f.curdir /\ NoMorePasv(f).ctrl = f.ctrl
      BY AlikePlace
    <2> QED
      BY <1>1, <1>2, <1>8, OwnEndWhere
  <1> QED
    BY <1>3, <1>4, <1>5, <1>6, <1>7, <1>8

LEMMA MkdQuitWhere ==
  ASSUME Poised, NEW f, Good(f), NEW q, f.ctrl => Rest(q, srv), NEW r \in ReplySet, Back(f, r),
         NEW k, k = Head(stack).k,
         \/ k = "mkd" /\ EndCmd(IF Class(r) = 2 THEN [f EXCEPT !.marks = @ \cup {f.curdir}] ELSE f, q)
         \/ k = "quit" /\ EndCmd(Close(f), q)
  PROVE  WhereInv'
  <1>1. f.curdir # NoDir /\ (f.ctrl /\ Serving(srv) => Sits(f, srv, gone))
    BY DEF Back, Told
  <1>2. CASE k = "mkd" /\ Class(r) = 2
    <2> DEFINE g == [f EXCEPT !.marks = @ \cup {f.curdir}]
    <2>1. g.curdir = f.curdir /\ g.ctrl = f.ctrl
      BY DEF Good, FtpOK, FtpSet
    <2>2. Good(g)
      BY FieldForms
    <2>3. EndCmd(g, q)
      BY <1>2
    <2> HIDE DEF g
    <2> QED
      BY <1>1, <2>1, <2>2, <2>3, OwnEndWhere
  <1>3. CASE k = "mkd" /\ Class(r) # 2
    <2> EndCmd(f, q)
      BY <1>3
    <2> QED
      BY <1>1, OwnEndWhere
  <1>4. CASE k = "quit" /\ EndCmd(Close(f), q)
    <2> Good(Close(f)) /\ Close(f).curdir = f.curdir /\ ~Close(f).ctrl
      BY CloseForm, CurdirForms DEF Good
    <2> QED
      BY <1>1, <1>4, OwnEndWhere
  <1> QED
    BY <1>2, <1>3, <1>4

LEMMA ContinueWhere ==
  ASSUME Poised, ~LocalFails, NEW f, Good(f), NEW q, NEW r \in ReplySet,
         f.ctrl /\ ~Starts(r) => Rest(q, srv), Back(f, r), Continue(f, q, r)
  PROVE  WhereInv'
  <1> DEFINE k == Head(stack).k
  <1>1. Head(stack) \in Fitting
    BY Unstacked DEF Poised
  <1>2. Tail(stack) # <<>> => k \in Logins
    BY CallsForm DEF Poised
  <1>3. CASE ~Starts(r)
    <2>1. k \in Transfers => Class(r) # 1
      BY <1>3 DEF Starts
    <2>2. CASE k = "user"
      <3> AfterUser(f, q, r)
        BY <2>2, Zenon DEF Continue
      <3> QED
        BY <1>3, <2>2, AfterUserWhere
    <2>3. CASE k = "pass"
      <3> LoginAnswer(f, q, r)
        BY <2>3, Zenon DEF Continue
      <3> QED
        BY <1>3, <2>3, LoginAnswerWhere
    <2>4. CASE k = "homePwd"
      <3> AfterHomePwd(f, q, r)
        BY <2>4, Zenon DEF Continue
      <3> QED
        BY <1>3, <2>4, AfterHomePwdWhere
    <2>5. CASE k = "loginCwd"
      <3> AfterCwd(f, q, r, "loginCwdPwd")
        BY <2>5, Zenon DEF Continue
      <3> QED
        BY <1>3, <2>5, AfterCwdWhere
    <2>6. CASE k = "cdCwd"
      <3> AfterCwd(f, q, r, "cdPwd")
        BY <2>6, Zenon DEF Continue
      <3> QED
        BY <1>3, <2>6, AfterCwdWhere
    <2>7. CASE k \in {"loginCwdPwd", "cdPwd"}
      <3> AfterPwd(f, q, r, k)
        BY <2>7, Zenon DEF Continue
      <3> QED
        BY <1>3, <2>7, AfterPwdWhere
    <2>8. CASE k \in {"lsCwd", "lsPasv", "lsList", "lsBack"}
      <3>1. Tail(stack) = <<>>
        BY <1>2, <2>8 DEF Logins
      <3>2. \/ k = "lsCwd" /\ Class(r) = 2 /\ ListStart(f, q, op)
            \/ k = "lsCwd" /\ Class(r) # 2 /\ EndCmd(f, q)
            \/ k = "lsPasv" /\ AfterListPasv(f, q, r)
            \/ k = "lsList" /\ AfterList(f, q, r)
            \/ k = "lsBack" /\ EndCmd(ListCached(f, op), q)
        BY <2>8, Zenon DEF Continue
      <3>3. k = "lsList" => Class(r) # 1
        BY <2>1 DEF Transfers
      <3> QED
        BY <1>3, <3>1, <3>2, <3>3, ListsWhere
    <2>9. CASE k \in {"getPasv", "getType", "getRest", "getRetr"}
      <3>1. Tail(stack) = <<>>
        BY <1>2, <2>9 DEF Logins
      <3>2. \/ k = "getPasv" /\ AfterGetPasv(f, q, r)
            \/ k = "getType" /\ AfterType(f, q, r)
            \/ k = "getRest" /\ AfterRest(f, q, r)
            \/ k = "getRetr" /\ AfterRetr(f, q, r)
        BY <2>9, Zenon DEF Continue
      <3>3. k = "getRetr" => Class(r) # 1
        BY <2>1 DEF Transfers
      <3> QED
        BY <1>3, <3>1, <3>2, <3>3, GetsWhere
    <2>10. CASE k \in {"mkd", "quit"}
      <3>1. \/ k = "mkd" /\ EndCmd(IF Class(r) = 2
                                    THEN [f EXCEPT !.marks = @ \cup {f.curdir}] ELSE f, q)
            \/ k = "quit" /\ EndCmd(Close(f), q)
        BY <2>10, Zenon DEF Continue
      <3> QED
        BY <1>3, <3>1, MkdQuitWhere
    <2>11. k \in Continuations
      BY <1>1 DEF Fitting, FrameSet
    <2> QED
      BY <2>2, <2>3, <2>4, <2>5, <2>6, <2>7, <2>8, <2>9, <2>10, <2>11 DEF Continuations
  <1>4. CASE Starts(r)
    <2>1. Class(r) = 1 /\ k \in Transfers
      BY <1>4 DEF Starts
    <2>2. Owns(op, k)
      <3> k \notin Logins
        BY <2>1 DEF Transfers, Logins
      <3> QED
        BY <1>2, CallsForm DEF Poised
    <2>3. Block(f, q, op, "data")
      <3>1. CASE k = "lsList"
        <4> AfterList(f, q, r)
          BY <3>1, Zenon DEF Continue
        <4> QED
          BY <2>1, Zenon DEF AfterList
      <3>2. CASE k = "getRetr"
        <4> AfterRetr(f, q, r)
          BY <3>2, Zenon DEF Continue
        <4> QED
          BY <2>1, Zenon DEF AfterRetr
      <3> QED
        BY <2>1, <3>1, <3>2 DEF Transfers
    <2>4. /\ ftp' = f /\ op' = op /\ pc' = "data" /\ stack' = stack /\ gone' = gone
          /\ srv' = (IF f.ctrl THEN srv ELSE Down)
      BY <2>3, Zenon DEF Block, Network
    <2>5. k = "getRetr" \/ (k = "lsList" /\ op.name # "get")
      BY <2>1, <2>2 DEF Transfers, Owns
    <2>6. f.ctrl /\ Serving(srv) /\ (op.name = "get" \/ op.here) => Sits(f, srv, gone)
      BY <2>5 DEF Back, Told
    <2>7. SamePlace(op, op) /\ "data" \in Moment /\ f.curdir # NoDir
      BY DEF SamePlace, Moment, Back
    <2> QED
      BY <2>4, <2>6, <2>7, BlockWhere DEF Poised
  <1> QED
    BY <1>3, <1>4

-----------------------------------------------------------------------------
(* The steps of the client.                                                *)

LEMMA PoisedForm ==
  ASSUME TypeInv, CallsInv, WhereInv, Single, pc = "cmd"
  PROVE  Poised /\ ftp.curdir # NoDir /\ Waits(ftp, stack, op, s2c, srv, gone) /\ Good(ftp)
  BY DEF Poised, TypeInv, TypeOK, CallsInv, WhereInv, Where, Good, Opening

LEMMA BackAlike ==
  ASSUME NEW f, NEW g, NEW r, Back(f, r), Alike(g, f)
  PROVE  Back(g, r)
  <1>1. g.curdir = f.curdir /\ g.urldir = f.urldir /\ g.ctrl = f.ctrl
    BY DEF Alike
  <1>2. \A fr, b, o, s, L : /\ Told(fr, f, o, r, s, L) => Told(fr, g, o, r, s, L)
                            /\ Hears(fr, b, f, r, s, L) => Hears(fr, b, g, r, s, L)
    BY <1>1 DEF Told, Hears, Heads, Sits
  <1> QED
    BY <1>1, <1>2 DEF Back

LEMMA ReadForm ==
  ASSUME TypeInv, CallsInv, Synchronous, WhereInv, Single, pc = "cmd", ftp.ctrl, s2c # <<>>
  PROVE  Back(ftp, Head(s2c))
  <1>1. ftp.curdir # NoDir /\ Waits(ftp, stack, op, s2c, srv, gone)
    BY PoisedForm
  <1>2. Names(s2c)
    BY <1>1 DEF Waits
  <1>3. ASSUME Serving(srv) PROVE Head(s2c).re = Head(stack).cmd.v
    <2> DEFINE cmd == Head(stack).cmd
    <2>1. Due(cmd, c2s, s2c, srv)
      BY DEF Synchronous
    <2> HIDE DEF cmd
    <2>2. Replied(cmd.v, s2c, srv)
      BY <1>3, <2>1 DEF Due, Answered, Serving
    <2>3. Head(s2c).re = cmd.v
      BY <2>2 DEF Replied
    <2> QED
      BY <2>3 DEF cmd
  <1>4. ASSUME Serving(srv) PROVE Told(Head(stack), ftp, op, Head(s2c), srv, gone)
    BY <1>1, <1>4, ToldForm DEF Waits
  <1>5. ASSUME Tail(stack) # <<>>
        PROVE  Hears(Head(stack), Head(Tail(stack)), ftp, Head(s2c), srv, gone)
    BY <1>1, <1>5, ToldForm DEF Waits
  <1> QED
    BY <1>1, <1>2, <1>3, <1>4, <1>5 DEF Back, Names

LEMMA FirstForm ==
  ASSUME NEW S, NEW st \in Seq(S), st # <<>>, NEW x \in S, NEW t, t = [st EXCEPT ![1] = x]
  PROVE  t # <<>> /\ Head(t) = x /\ Tail(t) = Tail(st)
  <1>1. Len(st) \in Nat /\ Len(st) # 0 /\ DOMAIN st = 1..Len(st)
    BY EmptySeq
  <1>2. t \in Seq(S) /\ Len(t) = Len(st) /\ t[1] = x
    BY <1>1
  <1>3. t # <<>>
    BY <1>1, <1>2, EmptySeq
  <1>4. Head(t) = x
    BY <1>2
  <1>5. Tail(t) \in Seq(S) /\ Tail(st) \in Seq(S) /\ Len(Tail(t)) = Len(t) - 1
        /\ Len(Tail(st)) = Len(st) - 1
    BY <1>2, <1>3
  <1>6. \A i \in 1..Len(Tail(st)) : Tail(t)[i] = t[i + 1] /\ Tail(st)[i] = st[i + 1]
    BY <1>2, <1>3, <1>5
  <1>7. \A i \in 1..Len(Tail(st)) : t[i + 1] = st[i + 1]
    BY <1>1, <1>5
  <1>8. \A i \in 1..Len(Tail(st)) : Tail(t)[i] = Tail(st)[i]
    BY <1>6, <1>7
  <1> QED
    BY <1>2, <1>3, <1>4, <1>5, <1>8, SeqEqual

LEMMA RedialWhere ==
  ASSUME TypeInv, CallsInv, WhereInv, Single, pc = "cmd", NEW f, Alike(f, ftp),
         ftp' = f, f.loggedin = ftp.loggedin, f.loggedin, ~Head(stack).recon,
         stack' = [stack EXCEPT ![1].recon = TRUE], pc' = "connect", op' = op
  PROVE  WhereInv'
  <1>1. Poised /\ ftp.curdir # NoDir /\ Waits(ftp, stack, op, s2c, srv, gone)
    BY PoisedForm
  <1>2. stack \in Seq(Fitting) /\ stack # <<>> /\ Frames2(stack, op)
    BY <1>1 DEF Poised
  <1> DEFINE fr == Head(stack)
             g == [fr EXCEPT !.recon = TRUE]
  <1>3. stack' # <<>> /\ Head(stack') = g /\ Tail(stack') = Tail(stack)
    <2>1. g \in Fitting
      <3> fr \in Fitting
        BY <1>2, Unstacked
      <3> QED
        BY DEF Fitting, FrameSet
    <2>2. fr = stack[1] /\ 1 \in DOMAIN stack
      BY <1>2
    <2>3. stack' = [stack EXCEPT ![1] = g]
      BY <2>2
    <2> HIDE DEF g, fr
    <2> QED
      BY <1>2, <2>1, <2>3, FirstForm
  <1>4. fr \in Fitting
    BY <1>2, Unstacked
  <1>5. g.recon /\ g.k = fr.k /\ g.cmd = fr.cmd
    BY <1>4 DEF Fitting, FrameSet
  <1>6. fr.k # "pass"
    BY <1>1 DEF Waits
  <1>7. fr.k \in Places => fr.cmd.a = ftp.curdir
    BY <1>1 DEF Waits
  <1>8. Framed(fr, op)
    BY <1>2 DEF Frames2
  <1>9. Head(stack') = g
    BY <1>3
  <1> HIDE DEF fr, g
  <1>10. Framed(g, op)
    BY <1>5, <1>6, <1>8 DEF Framed
  <1>11. Frames2(stack', op')
    BY <1>2, <1>3, <1>9, <1>10 DEF Frames2
  <1>12. f.curdir = ftp.curdir
    BY DEF Alike
  <1>13. Redials(pc', f, stack', srv')
    BY <1>3, <1>5, <1>7, <1>9, <1>12 DEF Redials
  <1> QED
    BY <1>1, <1>11, <1>12, <1>13 DEF WhereInv, Where

LEMMA CmdReplyWhere ==
  ASSUME TypeInv, CallsInv, Synchronous, WhereInv, Single, ~LocalFails, CmdReply
  PROVE  WhereInv'
  <1> DEFINE r == Head(s2c)
             f == [ftp EXCEPT !.full = Head(s2c).full]
  <1>1. pc = "cmd" /\ ftp.ctrl /\ s2c # <<>>
    BY Zenon DEF CmdReply
  <1>2. r \in ReplySet /\ Good(f) /\ Alike(f, ftp) /\ f.loggedin = ftp.loggedin
    BY <1>1, FullForm DEF Opening
  <1>3. IF Starts(r) THEN Moving(Tail(s2c), srv) ELSE Rest(Tail(s2c), srv)
    BY <1>1, ReplyForm DEF Synchronous
  <1>4. \/ /\ Reconnects(f, r)
           /\ ftp' = f /\ pc' = "connect" /\ op' = op /\ stack' = [stack EXCEPT ![1].recon = TRUE]
        \/ Continue(f, Tail(s2c), r)
    BY Zenon DEF CmdReply
  <1>5. Back(ftp, r)
    BY <1>1, ReadForm
  <1> HIDE DEF r, f
  <1>6. CASE Continue(f, Tail(s2c), r)
    BY <1>1, <1>2, <1>3, <1>5, <1>6, PoisedForm, BackAlike, ContinueWhere
  <1>7. CASE /\ Reconnects(f, r)
             /\ ftp' = f /\ pc' = "connect" /\ op' = op /\ stack' = [stack EXCEPT ![1].recon = TRUE]
    <2> f.loggedin /\ ~Head(stack).recon
      BY <1>7 DEF Reconnects, LoggedIn
    <2> QED
      BY <1>1, <1>2, <1>7, RedialWhere
  <1> QED
    BY <1>4, <1>6, <1>7

LEMMA CmdLostWhere ==
  ASSUME TypeInv, CallsInv, WhereInv, Single, ~LocalFails, CmdEof \/ CmdNoCtrl
  PROVE  WhereInv'
  <1>1. pc = "cmd"
    BY Zenon DEF CmdEof, CmdNoCtrl
  <1>2. Poised /\ ftp.curdir # NoDir /\ Good(ftp)
    BY <1>1, PoisedForm
  <1>3. \E f : Good(f) /\ ~f.ctrl /\ f.curdir = ftp.curdir /\ Continue(f, <<>>, NoReply)
    <2>1. CASE CmdEof
      <3> Good(Close(ftp)) /\ ~Close(ftp).ctrl /\ Close(ftp).curdir = ftp.curdir
        BY <1>2, ClosedForm, CurdirForms
      <3> QED
        BY <2>1, Zenon DEF CmdEof
    <2>2. CASE CmdNoCtrl
      <3> DEFINE f == [ftp EXCEPT !.full = 0]
      <3>1. ~ftp.ctrl /\ Continue(f, <<>>, NoReply)
        BY <2>2, Zenon DEF CmdNoCtrl
      <3>2. 0 \in Codes
        BY DEF Codes
      <3>3. Good(f) /\ Alike(f, ftp)
        BY <1>2, <3>2, FieldForms, AlikeForms
      <3> HIDE DEF f
      <3> QED
        BY <3>1, <3>3 DEF Alike
    <2> QED
      BY <2>1, <2>2
  <1> PICK f : Good(f) /\ ~f.ctrl /\ f.curdir = ftp.curdir /\ Continue(f, <<>>, NoReply)
    BY <1>3
  <1>4. Back(f, NoReply)
    BY <1>2, NoReplyForm DEF Back
  <1> QED
    BY <1>2, <1>4, NoReplyTyped, ContinueWhere

\* Opening a connection failed: the command is over, or goes on without one.
LEMMA OpenFailedWhere ==
  ASSUME TypeInv, WhereInv, pc \in {"connect", "welcome"}, OpenFailed(Close(ftp))
  PROVE  WhereInv'
  <1> DEFINE g == Close(ftp)
  <1>1. ftp.curdir # NoDir /\ Frames2(stack, op) /\ Redials(pc, ftp, stack, srv) /\ stack \in Seq(Fitting)
    BY DEF WhereInv, Where, TypeInv
  <1>2. Good(g) /\ ~g.ctrl /\ g.curdir = ftp.curdir
    BY ClosedForm DEF Close, TypeInv, TypeOK, FtpSet
  <1>3. IF stack = <<>> THEN EndCmd(g, <<>>) ELSE Resend(g, <<>>, stack)
    BY Zenon DEF OpenFailed
  <1> HIDE DEF g
  <1>4. CASE stack = <<>>
    <2> Set(g, <<>>)
      BY <1>1, <1>2 DEF Set, Connected
    <2> QED
      BY <1>2, <1>3, <1>4, EndWhere
  <1>5. CASE stack # <<>>
    <2> Head(stack).recon
      BY <1>1, <1>5 DEF Redials
    <2> QED
      BY <1>1, <1>2, <1>3, <1>5, AgainWhere
  <1> QED
    BY <1>4, <1>5

LEMMA ConnectOkWhere ==
  ASSUME TypeInv, WhereInv, ConnectOk
  PROVE  WhereInv'
  <1>1. pc = "connect" /\ ftp' = [ftp EXCEPT !.ctrl = TRUE, !.type = "?"] /\ pc' = "welcome"
        /\ stack' = stack /\ op' = op /\ (srv' = NewSession \/ srv' = Down)
    BY Zenon DEF ConnectOk
  <1>2. ftp'.curdir = ftp.curdir
    BY <1>1 DEF TypeInv, TypeOK, FtpSet
  <1>3. ~srv'.auth
    BY <1>1 DEF NewSession, Down
  <1>4. Redials("connect", ftp, stack, srv) /\ Frames2(stack, op) /\ ftp.curdir # NoDir
    BY <1>1 DEF WhereInv, Where
  <1>5. Redials("welcome", ftp', stack', srv')
    BY <1>1, <1>2, <1>3, <1>4 DEF Redials
  <1> QED
    BY <1>1, <1>2, <1>4, <1>5 DEF WhereInv, Where

LEMMA WelcomeWhere ==
  ASSUME TypeInv, Synchronous, WhereInv, Single', Welcome
  PROVE  WhereInv'
  <1>1. pc = "welcome" /\ ftp.ctrl
    BY Zenon DEF Welcome
  <1>2. CASE OpenFailed(Close(ftp))
    BY <1>1, <1>2, OpenFailedWhere
  <1>3. CASE /\ s2c # <<>> /\ Head(s2c).full = 220
             /\ Issue([ftp EXCEPT !.full = 220, !.connected = TRUE, !.url = TRUE,
                         !.urldir = IF stack = <<>> /\ op.name = "open"
                                    THEN op.dir ELSE ftp.curdir],
                      Tail(s2c), op, Verb("USER"), "user", stack)
    <2> DEFINE u == IF stack = <<>> /\ op.name = "open" THEN op.dir ELSE ftp.curdir
               g == [ftp EXCEPT !.full = 220, !.connected = TRUE, !.url = TRUE, !.urldir = u]
               fr == [cmd |-> Verb("USER"), recon |-> FALSE, k |-> "user"]
               q == Tail(s2c)
    <2>1. /\ ftp.curdir # NoDir /\ Frames2(stack, op) /\ Redials("welcome", ftp, stack, srv)
          /\ stack \in Seq(Fitting)
      BY <1>1 DEF WhereInv, Where, TypeInv
    <2>2. g.curdir = ftp.curdir /\ g.urldir = u /\ g.ctrl
      BY <1>1 DEF TypeInv, TypeOK, FtpSet
    <2>3. Rest(q, srv)
      <3>0. Answered("banner", c2s, s2c, srv)
        BY <1>1 DEF Synchronous
      <3>1. CASE Replied("banner", s2c, srv)
        BY <1>3, <3>1, RepliedOn
      <3>2. CASE Rest(s2c, srv)
        BY <1>3, <3>2, RestOn
      <3> QED
        BY <3>0, <3>1, <3>2 DEF Answered
    <2>4. fr \in Fitting
      BY VerbIn DEF Verbs, Frames, Continuations
    <2>5. fr.k = "user" /\ ~fr.recon
      OBVIOUS
    <2>6. /\ ftp' = g /\ op' = op /\ stack' = <<fr>> \o stack /\ pc' = "cmd"
          /\ Network(g, q, Append(c2s, Verb("USER")))
      BY <1>3, Zenon DEF Issue
    <2>7. stack # <<>> => u = ftp.curdir
      OBVIOUS
    <2>8. ~srv.up \/ ~srv.auth
      BY <1>1, <2>1 DEF Redials
    <2> HIDE DEF u, g, fr, q
    <2>9. Framed(fr, op')
      BY <2>5 DEF Framed, Places
    <2>10. stack # <<>> => Framed(Head(stack), op') /\ Head(stack).recon
      BY <2>1, <2>6 DEF Frames2, Redials
    <2>11. ASSUME stack # <<>> PROVE Above(fr, Head(stack), g, q, srv, gone)
      <3>1. Len(stack') = Len(stack) + 1
        BY <2>1, <2>4, <2>6, Stacked
      <3>2. Len(stack) = Len(Tail(stack)) + 1 /\ Tail(stack) \in Seq(Fitting)
        BY <2>1, <2>11, Unstacked
      <3>3. Len(Tail(stack)) = 0
        <4> Len(Tail(stack)) \in Nat
          BY <3>2
        <4> QED
          BY <3>1, <3>2 DEF Single
      <3>4. Tail(stack) = <<>>
        <4> DEFINE t == Tail(stack)
        <4> t \in Seq(Fitting) /\ Len(t) = 0
          BY <3>2, <3>3
        <4> HIDE DEF t
        <4> t = <<>>
          BY EmptySeq, Zenon
        <4> QED
          BY DEF t
      <3>5. Head(stack).k \in Places => Head(stack).cmd.a = ftp.curdir
        BY <2>1, <2>11, <3>4 DEF Redials
      <3> QED
        BY <2>2, <2>7, <2>8, <2>11, <3>5 DEF Above, Heads, Serving
    <2>12. ~Serving(srv)
      BY <2>8 DEF Serving
    <2>13. fr.k \notin Places /\ fr.k # "pass"
      BY <2>5 DEF Places
    <2> QED
      BY <2>1, <2>2, <2>3, <2>4, <2>6, <2>9, <2>10, <2>11, <2>12, <2>13, LandWhere
  <1> QED
    BY <1>2, <1>3, Zenon DEF Welcome

\* Whatever moves data knows where, if it matters.
LEMMA MomentForm ==
  ASSUME TypeInv, CallsInv, Synchronous, WhereInv, pc \in Moment
  PROVE  /\ ftp.curdir # NoDir /\ Frames2(stack, op) /\ stack \in Seq(Fitting) /\ op \in OpSet
         /\ Tail(stack) = <<>> /\ ftp.ctrl /\ Good(ftp) /\ op.name \in {"ls", "get"}
         /\ Serving(srv) /\ (op.name = "get" \/ op.here) => Sits(ftp, srv, gone)
  BY DEF TypeInv, TypeOK, CallsInv, Synchronous, WhereInv, Where, Moment, Good, Opening

LEMMA DataWhere ==
  ASSUME TypeInv, CallsInv, Synchronous, WhereInv,
         RecvEnd \/ RecvBreak \/ AbortPending \/ SendAbor \/ Drained
  PROVE  WhereInv'
  <1>1. pc \in Moment
    BY Zenon DEF RecvEnd, RecvBreak, AbortPending, SendAbor, Drained, Moment
  <1>2. /\ ftp.curdir # NoDir /\ Frames2(stack, op) /\ ftp.ctrl /\ op \in OpSet
        /\ Serving(srv) /\ (op.name = "get" \/ op.here) => Sits(ftp, srv, gone)
    BY <1>1, MomentForm
  <1>3. ASSUME NEW o, SamePlace(o, op), NEW p \in Moment, NEW c,
               ftp' = ftp, op' = o, pc' = p, stack' = stack, Network(ftp, s2c, c)
        PROVE  WhereInv'
    <2>1. srv' = (IF ftp.ctrl THEN srv ELSE Down) /\ gone' = gone
      BY <1>3, Zenon DEF Network
    <2>2. o.name = op.name /\ o.here = op.here
      BY <1>3 DEF SamePlace
    <2> QED
      BY <1>2, <1>3, <2>1, <2>2, BlockWhere
  <1>4. ASSUME NEW o, SamePlace(o, op), NEW p \in Moment, Block(ftp, s2c, o, p)
        PROVE  WhereInv'
    <2> ftp' = ftp /\ op' = o /\ pc' = p /\ stack' = stack /\ Network(ftp, s2c, c2s)
      BY <1>4, Zenon DEF Block
    <2> QED
      BY <1>3, <1>4
  <1>5. /\ \A b, x : SamePlace([op EXCEPT !.whole = b, !.of = x], op)
        /\ \A b : SamePlace([op EXCEPT !.whole = b], op)
        /\ \A x, b : SamePlace([op EXCEPT !.whole = FALSE, !.of = x, !.failed = b], op)
        /\ SamePlace([op EXCEPT !.abor = TRUE], op)
        /\ SamePlace(op, op)
    BY <1>2 DEF SamePlace, OpSet
  <1>6. {"final", "drain", "abort1"} \subseteq Moment
    BY DEF Moment
  <1>7. CASE RecvEnd \/ RecvBreak
    <2> \E b, x : \/ Block(ftp, s2c, [op EXCEPT !.whole = b, !.of = x], "final")
                  \/ Block(ftp, s2c, [op EXCEPT !.whole = b], "final")
      BY <1>7, Zenon DEF RecvEnd, RecvBreak
    <2> QED
      BY <1>4, <1>5, <1>6
  <1>8. CASE AbortPending
    <2> \E x, b : Block(ftp, s2c, [op EXCEPT !.whole = FALSE, !.of = x, !.failed = b], "drain")
      BY <1>8, Zenon DEF AbortPending
    <2> QED
      BY <1>4, <1>5, <1>6
  <1>9. CASE SendAbor
    <2> /\ ftp' = ftp /\ op' = [op EXCEPT !.abor = TRUE] /\ pc' = "drain"
        /\ stack' = stack /\ Network(ftp, s2c, Append(c2s, Verb("ABOR")))
      BY <1>9, Zenon DEF SendAbor
    <2> QED
      BY <1>3, <1>5, <1>6
  <1>10. CASE Drained
    <2> Block(ftp, s2c, op, "abort1") \/ Block(ftp, s2c, op, "final")
      BY <1>10, Zenon DEF Drained
    <2> QED
      BY <1>4, <1>5, <1>6
  <1> QED
    BY <1>7, <1>8, <1>9, <1>10

\* The listing or the download is over; f and q are what the last reply
\* leaves.
LEMMA OverWhere ==
  ASSUME TypeInv, CallsInv, Synchronous, WhereInv, pc \in Moment,
         NEW f, Good(f), f.curdir = ftp.curdir, NEW q, f.ctrl => Rest(q, srv),
         \/ op.name = "ls" /\ (ListBack(f, q, op) \/ ListFailed(f, q, op))
         \/ op.name = "get" /\ EndCmd(f, q)
  PROVE  WhereInv'
  <1>1. /\ ftp.curdir # NoDir /\ stack \in Seq(Fitting) /\ Tail(stack) = <<>> /\ op \in OpSet
        /\ Serving(srv) /\ (op.name = "get" \/ op.here) => Sits(ftp, srv, gone)
    BY MomentForm
  <1>2. Serving(srv) /\ (op.name = "get" \/ op.here) => Sits(f, srv, gone)
    BY <1>1 DEF Sits
  <1>3. CASE op.name = "get" /\ EndCmd(f, q)
    BY <1>1, <1>2, <1>3, OwnEndWhere
  <1>4. CASE ListFailed(f, q, op)
    <2> PICK g : \E p : /\ Good(g) /\ Alike(g, f) /\ SameJob(p, op)
                        /\ Relists(g, q, p) \/ GivesUp(g, q, p)
      BY <1>1, <1>4, ListFailedMoves
    <2> PICK p : /\ Good(g) /\ Alike(g, f) /\ SameJob(p, op)
                 /\ Relists(g, q, p) \/ GivesUp(g, q, p)
      OBVIOUS
    <2>1. g.curdir = f.curdir /\ g.ctrl = f.ctrl /\ (Sits(f, srv, gone) => Sits(g, srv, gone))
      BY AlikePlace
    <2>2. p.here = op.here
      BY DEF SameJob
    <2> QED
      BY <1>1, <1>2, <2>1, <2>2, ListWhere
  <1>5. CASE ListBack(f, q, op)
    <2>1. CASE op.here
      <3> DEFINE g == ListCached(f, op)
      <3>1. Good(g) /\ g.curdir = f.curdir /\ g.ctrl = f.ctrl
        BY <1>1, CachedForm, CurdirForms
      <3>2. EndCmd(g, q)
        BY <1>5, <2>1, Zenon DEF ListBack
      <3> HIDE DEF g
      <3> QED
        BY <1>1, <1>2, <2>1, <3>1, <3>2, OwnEndWhere
    <2>2. CASE ~op.here
      <3> DEFINE cmd == Cmd("CWD", f.curdir, 0)
      <3>1. Send(f, q, op, cmd, "lsBack")
        BY <1>5, <2>2, Zenon DEF ListBack
      <3>2. f.curdir \in Paths
        BY DEF Good, FtpOK, FtpSet
      <3>3. [cmd |-> cmd, recon |-> FALSE, k |-> "lsBack"] \in Fitting
        BY <3>2, CwdIn DEF Frames, Continuations
      <3>4. cmd.a = f.curdir
        BY VerbForm
      <3> HIDE DEF cmd
      <3> QED
        BY <1>1, <3>1, <3>3, <3>4, OwnWhere DEF Learns
    <2> QED
      BY <2>1, <2>2
  <1> QED
    BY <1>3, <1>4, <1>5

LEMMA FinalWhere ==
  ASSUME TypeInv, CallsInv, Synchronous, WhereInv, FinalReply \/ FinalEof
  PROVE  WhereInv'
  <1>1. pc = "final" /\ pc \in Moment
    BY Zenon DEF FinalReply, FinalEof, Moment
  <1>2. ftp.ctrl /\ Moving(s2c, srv) /\ Good(ftp)
    BY <1>1, MomentForm DEF Synchronous, Ending
  <1>3. CASE FinalReply
    <2> DEFINE f == [ftp EXCEPT !.full = Head(s2c).full]
    <2>1. s2c # <<>> /\ TransferEnd(f, Tail(s2c), Head(s2c))
      BY <1>3, Zenon DEF FinalReply
    <2>2. Good(f) /\ Alike(f, ftp)
      BY <1>1, <2>1, FullForm DEF Opening
    <2> HIDE DEF f
    <2>3. f.curdir = ftp.curdir
      BY <2>2 DEF Alike
    <2>4. Rest(Tail(s2c), srv)
      BY <1>2, <2>1, MovingOn
    <2>5. \/ op.name = "ls" /\ (ListBack(f, Tail(s2c), op) \/ ListFailed(f, Tail(s2c), op))
          \/ op.name = "get" /\ EndCmd(f, Tail(s2c))
      BY <2>1, Zenon DEF TransferEnd
    <2> QED
      BY <1>1, <2>2, <2>3, <2>4, <2>5, OverWhere
  <1>4. CASE FinalEof
    <2> DEFINE g == Close(ftp)
    <2>1. TransferEnd(g, <<>>, NoReply)
      BY <1>4, Zenon DEF FinalEof
    <2>2. Good(g) /\ ~g.ctrl /\ g.curdir = ftp.curdir
      BY <1>2, ClosedForm, CurdirForms
    <2> HIDE DEF g
    <2>3. \/ op.name = "ls" /\ (ListBack(g, <<>>, op) \/ ListFailed(g, <<>>, op))
          \/ op.name = "get" /\ EndCmd(g, <<>>)
      BY <2>1, Zenon DEF TransferEnd
    <2> QED
      BY <1>1, <2>2, <2>3, OverWhere
  <1> QED
    BY <1>3, <1>4

LEMMA AbortWhere ==
  ASSUME TypeInv, CallsInv, Synchronous, WhereInv, AbortReply \/ AbortEof
  PROVE  WhereInv'
  <1>1. pc \in {"abort1", "abort2"} /\ pc \in Moment
    BY Zenon DEF AbortReply, AbortEof, Moment
  <1>2. /\ ftp.curdir # NoDir /\ Frames2(stack, op) /\ ftp.ctrl /\ Good(ftp)
        /\ op.name \in {"ls", "get"}
        /\ Serving(srv) /\ (op.name = "get" \/ op.here) => Sits(ftp, srv, gone)
    BY <1>1, MomentForm
  <1>3. CASE AbortReply
    <2> DEFINE f == [ftp EXCEPT !.full = Head(s2c).full]
    <2>1. s2c # <<>> /\ IF pc = "abort1" THEN Block(f, Tail(s2c), op, "abort2")
                        ELSE AbortDone(f, Tail(s2c))
      BY <1>3, Zenon DEF AbortReply
    <2>2. Good(f) /\ Alike(f, ftp)
      BY <1>1, <2>1, FullForm DEF Opening
    <2> HIDE DEF f
    <2>3. f.curdir = ftp.curdir /\ f.ctrl = ftp.ctrl
      BY <2>2 DEF Alike
    <2>4. CASE pc = "abort1"
      <3>1. /\ pc' = "abort2" /\ op' = op /\ ftp' = f /\ stack' = stack
            /\ srv' = (IF f.ctrl THEN srv ELSE Down) /\ gone' = gone
        BY <2>1, <2>4, Zenon DEF Block, Network
      <3>2. SamePlace(op, op) /\ "abort2" \in Moment
        BY DEF SamePlace, Moment
      <3>3. Sits(ftp, srv, gone) => Sits(f, srv, gone)
        BY <2>3 DEF Sits
      <3> QED
        BY <1>2, <2>3, <3>1, <3>2, <3>3, BlockWhere
    <2>5. CASE pc = "abort2"
      <3>1. Due(Verb("ABOR"), c2s, s2c, srv)
        BY <1>2, <2>5 DEF Synchronous
      <3>2. Rest(Tail(s2c), srv)
        BY <2>1, <3>1, AborOn
      <3>3. \/ op.name = "ls" /\ (ListBack(f, Tail(s2c), op) \/ ListFailed(f, Tail(s2c), op))
            \/ op.name = "get" /\ EndCmd(f, Tail(s2c))
        <4> AbortDone(f, Tail(s2c))
          BY <2>1, <2>5
        <4> QED
          BY <1>2, Zenon DEF AbortDone
      <3> QED
        BY <1>1, <2>2, <2>3, <3>2, <3>3, OverWhere
    <2> QED
      BY <1>1, <2>4, <2>5
  <1>4. CASE AbortEof
    <2> DEFINE g == Close(ftp)
    <2>1. AbortDone(g, <<>>)
      BY <1>4, Zenon DEF AbortEof
    <2>2. Good(g) /\ ~g.ctrl /\ g.curdir = ftp.curdir
      BY <1>2, ClosedForm, CurdirForms
    <2> HIDE DEF g
    <2>3. \/ op.name = "ls" /\ (ListBack(g, <<>>, op) \/ ListFailed(g, <<>>, op))
          \/ op.name = "get" /\ EndCmd(g, <<>>)
      BY <1>2, <2>1, Zenon DEF AbortDone
    <2> QED
      BY <1>1, <2>2, <2>3, OverWhere
  <1> QED
    BY <1>3, <1>4

LEMMA ClientWhere ==
  ASSUME TypeInv, CallsInv, Synchronous, WhereInv, Single, Single', ~LocalFails, ClientStep
  PROVE  WhereInv'
  <1>1. CASE CmdReply
    BY <1>1, CmdReplyWhere
  <1>2. CASE CmdEof \/ CmdNoCtrl
    BY <1>2, CmdLostWhere
  <1>3. CASE ConnectOk
    BY <1>3, ConnectOkWhere
  <1>4. CASE ConnectFail
    <2> pc \in {"connect", "welcome"} /\ OpenFailed(Close(ftp))
      BY <1>4, Zenon DEF ConnectFail
    <2> QED
      BY OpenFailedWhere
  <1>5. CASE Welcome
    BY <1>5, WelcomeWhere
  <1>6. CASE RecvEnd \/ RecvBreak \/ AbortPending \/ SendAbor \/ Drained
    BY <1>6, DataWhere
  <1>7. CASE FinalReply \/ FinalEof
    BY <1>7, FinalWhere
  <1>8. CASE AbortReply \/ AbortEof
    BY <1>8, AbortWhere
  <1> QED
    BY <1>1, <1>2, <1>3, <1>4, <1>5, <1>6, <1>7, <1>8, Zenon DEF ClientStep

-----------------------------------------------------------------------------
(* Commands, signals.                                                      *)

LEMMA DialWhere ==
  ASSUME NEW f, f.curdir # NoDir, NEW o, Dial(f, o)
  PROVE  WhereInv'
  <1>1. ftp' = f /\ op' = o /\ stack' = <<>> /\ pc' = "connect"
    BY Zenon DEF Dial
  <1>2. Frames2(<<>>, o)
    BY DEF Frames2
  <1>3. Redials("connect", f, <<>>, srv')
    BY DEF Redials
  <1> QED
    BY <1>1, <1>2, <1>3 DEF WhereInv, Where

LEMMA UserWhere ==
  ASSUME TypeInv, Synchronous, WhereInv, UserStep
  PROVE  WhereInv'
  <1>1. pc = "prompt"
    BY Zenon DEF UserStep, UserOpen, UserReopen, UserUser, UserMkdir, UserClose, UserCd,
                 UserLs, UserGet, Type
  <1>2. /\ stack = <<>> /\ stack \in Seq(Fitting) /\ ftp.curdir \in Paths /\ ftp.curdir # NoDir
        /\ op \in OpSet
    BY <1>1 DEF TypeInv, TypeOK, FtpSet, WhereInv, Where
  <1>3. ASSUME Connected(ftp)
        PROVE  Good(ftp) /\ Rest(s2c, srv) /\ (Serving(srv) => Sits(ftp, srv, gone))
    BY <1>1, <1>3 DEF TypeInv, Good, Live, Connected, Synchronous, Idle, WhereInv, Where
  <1>4. LoggedIn(ftp) => Connected(ftp)
    BY DEF LoggedIn, Connected
  <1>5. CASE \E d \in Dirs \cup {NoDir} : UserOpen(d)
    <2> \E o : Dial(Close(ftp), o)
      BY <1>5, Zenon DEF UserOpen
    <2> Close(ftp).curdir = ftp.curdir
      BY DEF Close, TypeInv, TypeOK, FtpSet
    <2> QED
      BY <1>2, DialWhere
  <1>6. CASE UserReopen
    <2> \E o : Dial(ftp, o)
      BY <1>6, Zenon DEF UserReopen
    <2> QED
      BY <1>2, DialWhere
  <1>7. CASE UserUser
    <2> \E o : Connected(ftp) /\ Send(ftp, s2c, o, Verb("USER"), "user")
      BY <1>7, Zenon DEF UserUser
    <2> [cmd |-> Verb("USER"), recon |-> FALSE, k |-> "user"] \in Fitting
      BY VerbIn DEF Verbs, Frames, Continuations
    <2> QED
      BY <1>2, <1>3, OwnWhere DEF Places
  <1>8. CASE UserMkdir
    <2> DEFINE o == [NoOp EXCEPT !.name = "mkdir", !.dir = ftp.curdir]
               n == MaxOps - left.ops + 1
               cmd == Cmd("MKD", ftp.curdir, n)
    <2>1. LoggedIn(ftp) /\ Send(ftp, s2c, o, cmd, "mkd")
      BY <1>8, Zenon DEF UserMkdir
    <2>2. o.dir = ftp.curdir /\ cmd.v = "MKD" /\ cmd.a = ftp.curdir
      BY DEF NoOp, Cmd
    <2>3. cmd \in CmdSet
      <3>1. n \in 0..MaxOps
        <4> Type
          BY <1>8, Zenon DEF UserMkdir
        <4> left.ops \in 1..MaxOps /\ MaxOps \in Nat
          BY TypeForm, SessionAssumption
        <4> QED
          OBVIOUS
      <3> HIDE DEF n
      <3> QED
        BY <1>2, <3>1 DEF Cmd, CmdSet, Verbs
    <2> HIDE DEF o, cmd
    <2>4. [cmd |-> cmd, recon |-> FALSE, k |-> "mkd"] \in Fitting
      BY <2>2, <2>3, FrameForms DEF Fits, Continuations
    <2> QED
      BY <1>2, <1>3, <1>4, <2>1, <2>2, <2>4, OwnWhere
  <1>9. CASE UserClose
    <2>1. \/ Connected(ftp) /\ \E o : Send(ftp, s2c, o, Verb("QUIT"), "quit")
          \/ EndCmd(Close(ftp), s2c)
      BY <1>9, Zenon DEF UserClose
    <2>2. CASE Connected(ftp) /\ \E o : Send(ftp, s2c, o, Verb("QUIT"), "quit")
      <3> [cmd |-> Verb("QUIT"), recon |-> FALSE, k |-> "quit"] \in Fitting
        BY VerbIn DEF Verbs, Frames, Continuations
      <3> QED
        BY <1>2, <1>3, <2>2, OwnWhere DEF Places
    <2>3. CASE EndCmd(Close(ftp), s2c)
      <3> DEFINE g == Close(ftp)
      <3>1. Good(g) /\ ~g.ctrl
        BY ClosedForm
      <3>2. g.curdir = ftp.curdir
        BY DEF Close, TypeInv, TypeOK, FtpSet
      <3>3. EndCmd(g, s2c)
        BY <2>3
      <3> HIDE DEF g
      <3> Set(g, s2c)
        BY <1>2, <3>1, <3>2 DEF Set, Connected
      <3> QED
        BY <3>1, <3>3, EndWhere
    <2> QED
      BY <2>1, <2>2, <2>3
  <1>10. CASE \E d \in Dirs : UserCd(d) \/ UserLs(d)
    <2> PICK d \in Dirs : UserCd(d) \/ UserLs(d)
      BY <1>10
    <2> DEFINE cmd == Cmd("CWD", d, 0)
    <2>0. d \in Paths
      BY PathsTyped
    <2>1. /\ [cmd |-> cmd, recon |-> FALSE, k |-> "cdCwd"] \in Fitting
          /\ [cmd |-> cmd, recon |-> FALSE, k |-> "lsCwd"] \in Fitting
      BY <2>0, CwdIn DEF Frames, Continuations
    <2>2. CASE UserCd(d)
      <3> LoggedIn(ftp) /\ \E o : Send(ftp, s2c, o, cmd, "cdCwd")
        BY <2>2, Zenon DEF UserCd
      <3> HIDE DEF cmd
      <3> QED
        BY <1>2, <1>3, <1>4, <2>1, OwnWhere DEF Places
    <2>3. CASE UserLs(d)
      <3> DEFINE b == d = ftp.curdir
                 o == [NoOp EXCEPT !.name = "ls", !.dir = d, !.here = b]
      <3>1. b \in BOOLEAN
        BY Zenon
      <3>2. LoggedIn(ftp) /\ IF Cached(ftp, d) THEN EndCmd(ftp, s2c)
                             ELSE IF o.here THEN ListStart(ftp, s2c, o)
                             ELSE Send(ftp, s2c, o, cmd, "lsCwd")
        BY <2>3, Zenon DEF UserLs
      <3> HIDE DEF b
      <3>3. o \in OpSet
        BY <1>2, <2>0, <3>1, OpForms, Zenon
      <3> HIDE DEF o, cmd
      <3>4. Good(ftp) /\ Rest(s2c, srv) /\ (Serving(srv) => Sits(ftp, srv, gone))
        BY <1>3, <1>4, <3>2
      <3>5. CASE EndCmd(ftp, s2c)
        BY <1>2, <3>4, <3>5, OwnEndWhere
      <3>6. CASE ListStart(ftp, s2c, o)
        <4> PICK g : \E p : /\ Good(g) /\ Alike(g, ftp)
                            /\ Relists(g, s2c, p) \/ GivesUp(g, s2c, p)
          BY <3>3, <3>4, <3>6, ListStartMoves
        <4> PICK p : Good(g) /\ Alike(g, ftp) /\ (Relists(g, s2c, p) \/ GivesUp(g, s2c, p))
          OBVIOUS
        <4> g.curdir = ftp.curdir /\ (Sits(ftp, srv, gone) => Sits(g, srv, gone))
          BY AlikePlace
        <4> QED
          BY <1>2, <3>4, ListWhere
      <3>7. CASE ~o.here /\ Send(ftp, s2c, o, cmd, "lsCwd")
        BY <1>2, <2>1, <3>4, <3>7, OwnWhere DEF Places
      <3> QED
        BY <3>2, <3>5, <3>6, <3>7
    <2> QED
      BY <2>2, <2>3
  <1>11. CASE \E resume \in BOOLEAN : UserGet(resume)
    <2>1. /\ LoggedIn(ftp)
          /\ \/ \E o : Send(ftp, s2c, o, Verb("PASV"), "getPasv")
             \/ EndCmd(ftp, s2c)
      BY <1>11, Zenon DEF UserGet
    <2>2. CASE EndCmd(ftp, s2c)
      BY <1>2, <1>3, <1>4, <2>1, <2>2, OwnEndWhere
    <2>3. CASE \E o : Send(ftp, s2c, o, Verb("PASV"), "getPasv")
      <3> [cmd |-> Verb("PASV"), recon |-> FALSE, k |-> "getPasv"] \in Fitting
        BY VerbIn DEF Verbs, Frames, Continuations
      <3> QED
        BY <1>2, <1>3, <1>4, <2>1, <2>3, OwnWhere DEF Places
    <2> QED
      BY <2>1, <2>2, <2>3
  <1> QED
    BY <1>5, <1>6, <1>7, <1>8, <1>9, <1>10, <1>11, Zenon DEF UserStep

LEMMA StillWhere ==
  ASSUME WhereInv, UNCHANGED <<ftp, stack, pc, op, s2c, srv, gone>>
  PROVE  WhereInv'
  BY DEF WhereInv

LEMMA SignalWhere ==
  ASSUME TypeInv, WhereInv, ~Abandons, IntJmp \/ IntAbort \/ IntClose \/ Timeout
  PROVE  WhereInv'
  <1>0. ftp \in FtpSet /\ ftp.curdir # NoDir
    BY DEF TypeInv, TypeOK, WhereInv, Where
  <1>1. CASE UNCHANGED <<ftp, stack, pc, op, c2s, s2c, net>>
    <2> UNCHANGED <<ftp, stack, pc, op, s2c, srv, gone>>
      BY <1>1 DEF net
    <2> QED
      BY StillWhere
  <1>2. ASSUME NEW f, NEW q, Prompt(f, q), f.curdir = ftp.curdir, ~Connected(ftp')
        PROVE  WhereInv'
    <2>1. pc' = "prompt" /\ ftp' = f /\ stack' = <<>>
      BY <1>2, Zenon DEF Prompt
    <2>2. Frames2(<<>>, op')
      BY DEF Frames2
    <2> QED
      BY <1>0, <1>2, <2>1, <2>2 DEF WhereInv, Where
  <1>3. Close(ftp).curdir = ftp.curdir /\ ~Close(ftp).ctrl
        /\ [ftp EXCEPT !.ctrl = FALSE].curdir = ftp.curdir
    BY <1>0 DEF Close, FtpSet
  <1>4. IntClose \/ Timeout =>
          \/ UNCHANGED <<ftp, stack, pc, op, c2s, s2c, net>>
          \/ Prompt(Close(ftp), <<>>)
    BY Zenon DEF IntClose, Timeout, LongJmp
  <1>5. IntAbort =>
          \/ UNCHANGED <<ftp, stack, pc, op, c2s, s2c, net>>
          \/ \E q : Prompt(ftp, q) \/ Prompt(Close(ftp), q)
    BY Zenon DEF IntAbort, LongJmp
  <1>6. IntJmp => \E q : Prompt(ftp, q) \/ Prompt([ftp EXCEPT !.ctrl = FALSE], q)
    BY Zenon DEF IntJmp, LongJmp
  <1>7. CASE \E f, q : Prompt(f, q) /\ f.curdir = ftp.curdir /\ (IntJmp \/ IntAbort)
    <2> PICK f, q : Prompt(f, q) /\ f.curdir = ftp.curdir /\ (IntJmp \/ IntAbort)
      BY <1>7
    <2> pc' = "prompt"
      BY Zenon DEF Prompt
    <2> ~Connected(ftp')
      BY Zenon DEF Abandons
    <2> QED
      BY <1>2
  <1>8. CASE Prompt(Close(ftp), <<>>)
    <2> ftp' = Close(ftp)
      BY <1>8, Zenon DEF Prompt
    <2> ~Connected(ftp')
      BY <1>3 DEF Connected
    <2> QED
      BY <1>2, <1>3, <1>8
  <1> QED
    BY <1>1, <1>3, <1>4, <1>5, <1>6, <1>7, <1>8

-----------------------------------------------------------------------------
(* The server executes a command, or ends a transfer.                      *)

\* The session does not move, and the client would read the same.
LEMMA SameStation ==
  ASSUME WhereInv, UNCHANGED <<ftp, stack, pc, op, gone>>,
         srv'.up = srv.up, srv'.auth = srv.auth, srv'.cwd = srv.cwd,
         pc = "cmd" /\ ftp.ctrl => s2c # <<>> /\ s2c' # <<>> /\ Head(s2c') = Head(s2c)
  PROVE  WhereInv'
  <1>1. Serving(srv') = Serving(srv) /\ \A f, L : Sits(f, srv', L) = Sits(f, srv, L)
    BY DEF Serving, Sits
  <1>2. CASE pc = "cmd" /\ ftp.ctrl
    <2>1. Yes(s2c') = Yes(s2c) /\ Names(s2c') = Names(s2c)
      BY <1>2 DEF Yes, Names
    <2>2. ASSUME NEW fr
          PROVE  Placed(fr, ftp, op, s2c', srv', gone) = Placed(fr, ftp, op, s2c, srv, gone)
      BY <1>1, <1>2, <2>1 DEF Placed
    <2>3. ASSUME NEW fr, NEW b
          PROVE  Above(fr, b, ftp, s2c', srv', gone) = Above(fr, b, ftp, s2c, srv, gone)
      BY <1>1, <1>2, <2>1 DEF Above, Homes
    <2>4. Waits(ftp, stack, op, s2c, srv, gone)
      BY <1>2 DEF WhereInv, Where
    <2>5. Waits(ftp, stack, op, s2c', srv', gone)
      BY <1>1, <2>1, <2>2, <2>3, <2>4 DEF Waits
    <2> QED
      BY <1>2, <2>5 DEF WhereInv, Where
  <1>3. CASE ~(pc = "cmd" /\ ftp.ctrl)
    <2>1. Waits(ftp, stack, op, s2c, srv, gone) /\ ~ftp.ctrl => Waits(ftp, stack, op, s2c', srv', gone)
      BY DEF Waits
    <2>2. Redials(pc, ftp, stack, srv) => Redials(pc, ftp, stack, srv')
      BY DEF Redials
    <2> QED
      BY <1>1, <1>3, <2>1, <2>2 DEF WhereInv, Where
  <1> QED
    BY <1>2, <1>3

\* What the session does when nothing depends on it.
LEMMA AloneWhere ==
  ASSUME Synchronous, WhereInv, Handled, gone' = gone, ~(pc = "cmd" /\ ftp.ctrl)
  PROVE  WhereInv'
  <1>1. c2s # <<>> /\ Next1.v # "ABOR" /\ UNCHANGED <<ftp, stack, pc, op>>
    BY DEF Handled
  <1>2. Verb("ABOR").v = "ABOR"
    BY DEF Verb, Cmd
  <1>3. ~TwoDue(c2s, s2c, srv) /\ ~Due(Verb("ABOR"), c2s, s2c, srv)
    BY <1>1, <1>2 DEF TwoDue, Due, Sends, Answered, Next1
  <1>4. pc \notin {"data", "drain", "final", "abort1", "abort2"}
    BY <1>1, <1>3 DEF Synchronous, Ending
  <1>5. ~(pc = "prompt" /\ Connected(ftp)) /\ ~(pc = "welcome" /\ ftp.ctrl)
    BY <1>1 DEF Synchronous, Idle, Answered
  <1>6. Waits(ftp, stack, op, s2c, srv, gone) /\ ~ftp.ctrl => Waits(ftp, stack, op, s2c', srv', gone)
    BY DEF Waits
  <1>7. Redials(pc, ftp, stack, srv) => Redials(pc, ftp, stack, srv')
    BY <1>5 DEF Redials
  <1> QED
    BY <1>1, <1>4, <1>5, <1>6, <1>7 DEF WhereInv, Where

\* The answer to the command the client waits for.
Replies(full, dir) ==
  /\ pc = "cmd" /\ ftp.ctrl
  /\ s2c' = Append(s2c, Reply(full, Next1.v, dir))
  /\ UNCHANGED <<ftp, stack, pc, op, gone>>

LEMMA RepliesForm ==
  ASSUME TypeInv, CallsInv, Synchronous, WhereInv,
         srv.up, c2s # <<>>, NEW full, NEW dir, Replies(full, dir)
  PROVE  /\ s2c = <<>> /\ s2c' # <<>> /\ Head(s2c') = Reply(full, Next1.v, dir)
         /\ stack # <<>> /\ Head(stack) \in Fitting /\ Head(stack).cmd = Next1 /\ Next1 \in CmdSet
         /\ Speaks(Next1.v, Head(stack).k)
         /\ Framed(Head(stack), op)
         /\ Tail(stack) # <<>> => Framed(Head(Tail(stack)), op) /\ Head(Tail(stack)) \in Fitting
         /\ Serving(srv) => Placed(Head(stack), ftp, op, <<>>, srv, gone)
         /\ Tail(stack) # <<>> => Above(Head(stack), Head(Tail(stack)), ftp, <<>>, srv, gone)
         /\ Waits(ftp, stack, op, <<>>, srv, gone)
         /\ Frames2(stack, op) /\ ftp.curdir # NoDir
         /\ UNCHANGED <<ftp, stack, pc, op, gone>> /\ pc = "cmd" /\ ftp.ctrl
  <1>1. /\ pc = "cmd" /\ ftp.ctrl /\ UNCHANGED <<ftp, stack, pc, op, gone>>
        /\ s2c' = Append(s2c, Reply(full, Next1.v, dir))
    BY DEF Replies
  <1>2. stack # <<>> /\ stack \in Seq(Fitting) /\ c2s \in Seq(CmdSet)
    BY <1>1, WaitsForm DEF TypeInv, TypeOK
  <1> DEFINE cmd == Head(stack).cmd
  <1>3. Due(cmd, c2s, s2c, srv)
    BY <1>1 DEF Synchronous
  <1> HIDE DEF cmd
  <1>4. s2c = <<>> /\ c2s = <<cmd>>
    BY <1>3 DEF Due, Answered, Sends
  <1>5. Next1 = cmd /\ Next1 \in CmdSet
    BY <1>2, <1>4 DEF Next1
  <1>6. s2c' # <<>> /\ Head(s2c') = Reply(full, Next1.v, dir)
    <2> DEFINE r == Reply(full, Next1.v, dir)
    <2> HIDE DEF r
    <2>1. s2c' = Append(s2c, r) /\ s2c \in Seq(ReplySet)
      BY <1>1 DEF r, TypeInv, TypeOK
    <2> QED
      BY <1>4, <2>1, Appended DEF r
  <1>7. Speaks(cmd.v, Head(stack).k)
    <2> Calls(stack, op) /\ 1 \in DOMAIN stack /\ Head(stack) = stack[1]
      BY <1>1, <1>2 DEF CallsInv
    <2> QED
      BY DEF Calls, cmd
  <1>8. Waits(ftp, stack, op, <<>>, srv, gone) /\ Frames2(stack, op) /\ ftp.curdir # NoDir
    BY <1>1, <1>4 DEF WhereInv, Where
  <1>9. Head(stack) \in Fitting /\ (Tail(stack) # <<>> => Head(Tail(stack)) \in Fitting)
    BY <1>2, Unstacked
  <1> QED
    BY <1>1, <1>2, <1>4, <1>5, <1>6, <1>7, <1>8, <1>9 DEF Waits, Frames2, cmd

\* The answer fits, where the session is now.
LEMMA RepliesWhere ==
  ASSUME TypeInv, CallsInv, Synchronous, WhereInv,
         srv.up, c2s # <<>>, NEW full, NEW dir, Replies(full, dir),
         Names(s2c'),
         Serving(srv') => Placed(Head(stack), ftp, op, s2c', srv', gone),
         Tail(stack) # <<>> => Above(Head(stack), Head(Tail(stack)), ftp, s2c', srv', gone)
  PROVE  WhereInv'
  <1>1. /\ Waits(ftp, stack, op, <<>>, srv, gone) /\ Frames2(stack, op) /\ ftp.curdir # NoDir
        /\ UNCHANGED <<ftp, stack, pc, op, gone>> /\ pc = "cmd" /\ ftp.ctrl
    BY RepliesForm
  <1>2. Waits(ftp, stack, op, s2c', srv', gone)
    BY <1>1 DEF Waits
  <1> QED
    BY <1>1, <1>2 DEF WhereInv, Where

\* Nobody is logged in any more.
LEMMA AbsentWhere ==
  ASSUME TypeInv, CallsInv, Synchronous, WhereInv,
         srv.up, c2s # <<>>, NEW full, NEW dir, Replies(full, dir),
         full \div 100 # 2 \/ Next1.v \notin {"PWD", "CWD"},
         ~Serving(srv')
  PROVE  WhereInv'
  <1>1. s2c' # <<>> /\ Head(s2c') = Reply(full, Next1.v, dir)
        /\ (Tail(stack) # <<>> => Above(Head(stack), Head(Tail(stack)), ftp, <<>>, srv, gone))
    BY RepliesForm
  <1>2. Names(s2c')
    <2>1. Head(s2c').re = Next1.v /\ Head(s2c').full = full
      BY <1>1 DEF Reply
    <2> QED
      BY <2>1 DEF Names, Class
  <1>3. Tail(stack) # <<>> => Above(Head(stack), Head(Tail(stack)), ftp, s2c', srv', gone)
    BY <1>1 DEF Above
  <1> QED
    BY <1>2, <1>3, RepliesWhere

\* The reply names no directory, and the session stays where it is.
LEMMA DutyWhere ==
  ASSUME TypeInv, CallsInv, Synchronous, WhereInv,
         srv.up, c2s # <<>>, NEW full, NEW dir, Replies(full, dir),
         Next1.v \in Verbs \ {"PASS", "PWD", "CWD"},
         Next1.v = "USER" => full \div 100 # 3,
         srv'.up = srv.up, srv'.auth = srv.auth, srv'.cwd = srv.cwd
  PROVE  WhereInv'
  <1> DEFINE fr == Head(stack)
  <1>1. /\ s2c' # <<>> /\ Head(s2c') = Reply(full, Next1.v, dir)
        /\ Speaks(Next1.v, fr.k)
        /\ Serving(srv) => Placed(fr, ftp, op, <<>>, srv, gone)
        /\ Tail(stack) # <<>> => Above(fr, Head(Tail(stack)), ftp, <<>>, srv, gone)
    BY RepliesForm
  <1>2. Head(s2c').re = Next1.v /\ Class(Head(s2c')) = full \div 100
    BY <1>1 DEF Reply, Class
  <1> HIDE DEF fr
  <1>3. fr.k \in {"user", "lsPasv", "getPasv", "lsList", "mkd", "getType", "getRest", "getRetr", "quit"}
        /\ (fr.k = "user" => Next1.v = "USER")
    BY <1>1 DEF Speaks
  <1>4. Names(s2c')
    BY <1>2 DEF Names
  <1>5. Serving(srv') = Serving(srv) /\ \A f, L : Sits(f, srv', L) = Sits(f, srv, L)
    BY DEF Serving, Sits
  <1>6. Serving(srv') => Placed(fr, ftp, op, s2c', srv', gone)
    BY <1>1, <1>2, <1>3, <1>5 DEF Placed
  <1>7. Tail(stack) # <<>> => Above(fr, Head(Tail(stack)), ftp, s2c', srv', gone)
    BY <1>1, <1>3, <1>5 DEF Above, Homes
  <1> QED
    BY <1>4, <1>6, <1>7, RepliesWhere DEF fr

LEMMA SayStation ==
  ASSUME NEW full, NEW s \in SrvSet, Say(full, s)
  PROVE  /\ s2c' = Append(s2c, Reply(full, Next1.v, NoDir))
         /\ srv'.up = s.up /\ srv'.auth = s.auth /\ srv'.cwd = s.cwd
  <1> DEFINE b == s.rest /\ Next1.v = "REST"
  <1>1. srv' = [s EXCEPT !.rest = b] /\ s2c' = Append(s2c, Reply(full, Next1.v, NoDir))
    BY Zenon DEF Say, Answer
  <1> HIDE DEF b
  <1> QED
    BY <1>1 DEF SrvSet

LEMMA LoggingWhere ==
  ASSUME TypeInv, CallsInv, Synchronous, WhereInv, pc = "cmd", ftp.ctrl,
         SrvUser \/ SrvPass \/ SrvDenies \/ SrvQuit
  PROVE  WhereInv'
  <1>0. srv \in SrvSet
    BY DEF TypeInv, TypeOK
  <1>1. ASSUME NEW v, Executes(v)
        PROVE  srv.up /\ c2s # <<>> /\ Next1.v = v /\ UNCHANGED <<ftp, stack, pc, op, gone>>
    BY <1>1 DEF Executes, client
  <1>2. ASSUME NEW v, Executes(v), NEW full, NEW s \in SrvSet, Say(full, s)
        PROVE  /\ Replies(full, NoDir)
               /\ srv'.up = s.up /\ srv'.auth = s.auth /\ srv'.cwd = s.cwd
    BY <1>1, <1>2, SayStation DEF Replies
  <1>3. CASE SrvUser
    <2> DEFINE s == [srv EXCEPT !.auth = FALSE]
    <2>1. s \in SrvSet /\ ~s.auth
      BY <1>0 DEF SrvSet
    <2>2. Executes("USER") /\ (Say(331, s) \/ Say(530, srv))
      BY <1>3, Zenon DEF SrvUser
    <2> HIDE DEF s
    <2>3. srv.up /\ c2s # <<>> /\ Next1.v = "USER"
      BY <1>1, <2>2
    <2>4. CASE Say(331, s)
      <3> Replies(331, NoDir) /\ ~Serving(srv')
        BY <1>2, <2>1, <2>2, <2>4 DEF Serving
      <3> QED
        BY <2>3, AbsentWhere
    <2>5. CASE Say(530, srv)
      <3>1. /\ Replies(530, NoDir)
            /\ srv'.up = srv.up /\ srv'.auth = srv.auth /\ srv'.cwd = srv.cwd
        BY <1>0, <1>2, <2>2, <2>5
      <3>2. Next1.v \in Verbs \ {"PASS", "PWD", "CWD"} /\ 530 \div 100 # 3
        BY <2>3 DEF Verbs
      <3> QED
        BY <2>3, <3>1, <3>2, DutyWhere
    <2> QED
      BY <2>2, <2>4, <2>5
  <1>4. CASE SrvPass
    <2> DEFINE s == [srv EXCEPT !.auth = TRUE, !.cwd = Home]
    <2>1. s \in SrvSet
      BY <1>0, SessionAssumption DEF SrvSet
    <2>2. Executes("PASS") /\ (Say(230, s) \/ Say(530, srv))
      BY <1>4, Zenon DEF SrvPass
    <2> HIDE DEF s
    <2>3. srv.up /\ c2s # <<>> /\ Next1.v = "PASS"
      BY <1>1, <2>2
    <2>4. CASE Say(230, s)
      <3> DEFINE fr == Head(stack)
      <3>1. Replies(230, NoDir)
        BY <1>2, <2>1, <2>2, <2>4
      <3>2. /\ s2c' # <<>> /\ Head(s2c') = Reply(230, Next1.v, NoDir)
            /\ Speaks(Next1.v, fr.k) /\ Framed(fr, op)
            /\ Tail(stack) # <<>> => Above(fr, Head(Tail(stack)), ftp, <<>>, srv, gone)
        BY <2>3, <3>1, RepliesForm
      <3> HIDE DEF fr
      <3>3. Head(s2c').re = "PASS" /\ Class(Head(s2c')) = 2
        BY <2>3, <3>2 DEF Reply, Class
      <3>4. fr.k = "pass" /\ ~fr.recon
        BY <2>3, <3>2 DEF Speaks, Framed
      <3>5. Yes(s2c') /\ Names(s2c')
        BY <3>2, <3>3 DEF Yes, Names
      <3>6. Placed(fr, ftp, op, s2c', srv', gone)
        BY <3>4, <3>5 DEF Placed, Places
      <3>7. Tail(stack) # <<>> => Above(fr, Head(Tail(stack)), ftp, s2c', srv', gone)
        BY <2>3, <3>2, <3>4 DEF Above, Homes
      <3> QED
        BY <2>3, <3>1, <3>5, <3>6, <3>7, RepliesWhere DEF fr
    <2>5. CASE Say(530, srv)
      <3>1. Replies(530, NoDir) /\ srv'.up = srv.up /\ srv'.auth = srv.auth
        BY <1>0, <1>2, <2>2, <2>5
      <3> DEFINE fr == Head(stack)
      <3>2. Speaks(Next1.v, fr.k) /\ (Serving(srv) => Placed(fr, ftp, op, <<>>, srv, gone))
        BY <2>3, <3>1, RepliesForm
      <3> HIDE DEF fr
      <3>3. ~Serving(srv)
        BY <2>3, <3>2 DEF Speaks, Placed, Yes
      <3>4. ~Serving(srv')
        BY <3>1, <3>3 DEF Serving
      <3> QED
        BY <2>3, <3>1, <3>4, AbsentWhere
    <2> QED
      BY <2>2, <2>4, <2>5
  <1>5. CASE SrvDenies
    <2>1. PICK v \in Verbs \ {"USER", "PASS", "ABOR", "QUIT"} : Executes(v)
      BY <1>5 DEF SrvDenies
    <2>2. Say(530, srv) /\ ~srv.auth
      BY <1>5, Zenon DEF SrvDenies
    <2>3. Replies(530, NoDir) /\ ~Serving(srv')
      BY <1>0, <1>2, <2>1, <2>2 DEF Serving
    <2>4. srv.up /\ c2s # <<>> /\ 530 \div 100 # 2
      BY <1>1, <2>1
    <2> QED
      BY <2>3, <2>4, AbsentWhere
  <1>6. CASE SrvQuit
    <2>1. Executes("QUIT") /\ Say(221, Down)
      BY <1>6, Zenon DEF SrvQuit
    <2>2. Down \in SrvSet
      BY SessionAssumption DEF Down, SrvSet
    <2>3. Replies(221, NoDir) /\ ~Serving(srv')
      BY <1>2, <2>1, <2>2, BowForm DEF Serving
    <2>4. srv.up /\ c2s # <<>> /\ Next1.v = "QUIT"
      BY <1>1, <2>1
    <2> QED
      BY <2>3, <2>4, AbsentWhere
  <1> QED
    BY <1>3, <1>4, <1>5, <1>6

LEMMA PwdWhere ==
  ASSUME TypeInv, CallsInv, Synchronous, WhereInv, pc = "cmd", ftp.ctrl, SrvPwd
  PROVE  WhereInv'
  <1> DEFINE d == srv.cwd
             fr == Head(stack)
  <1>1. /\ srv.up /\ c2s # <<>> /\ Next1.v = "PWD" /\ srv.auth
        /\ UNCHANGED <<ftp, stack, pc, op, gone>>
        /\ s2c' = Append(s2c, Reply(257, Next1.v, d))
        /\ srv' = [srv EXCEPT !.rest = FALSE]
    BY DEF SrvPwd, Serves, Executes, client, Answer
  <1>2. d # NoDir /\ srv'.up = srv.up /\ srv'.auth = srv.auth /\ srv'.cwd = d
    BY <1>1, SessionAssumption DEF TypeInv, TypeOK, SrvSet
  <1> HIDE DEF d
  <1>3. Replies(257, d)
    BY <1>1 DEF Replies
  <1>4. /\ s2c' # <<>> /\ Head(s2c') = Reply(257, Next1.v, d)
        /\ Speaks(Next1.v, fr.k)
        /\ Tail(stack) # <<>> => Above(fr, Head(Tail(stack)), ftp, <<>>, srv, gone)
    BY <1>1, <1>3, RepliesForm
  <1> HIDE DEF fr
  <1>5. Class(Head(s2c')) = 2 /\ Head(s2c').dir = d
    BY <1>4 DEF Reply, Class
  <1>6. fr.k \in {"homePwd", "loginCwdPwd", "cdPwd"}
    BY <1>1, <1>4 DEF Speaks
  <1>7. Yes(s2c') /\ Names(s2c')
    BY <1>2, <1>4, <1>5 DEF Yes, Names
  <1>8. Placed(fr, ftp, op, s2c', srv', gone)
    BY <1>2, <1>5, <1>6, <1>7 DEF Placed, Places
  <1>9. Tail(stack) # <<>> => Above(fr, Head(Tail(stack)), ftp, s2c', srv', gone)
    BY <1>2, <1>4, <1>6 DEF Above, Heads, Homes, Serving, d
  <1> QED
    BY <1>1, <1>3, <1>7, <1>8, <1>9, RepliesWhere DEF fr

LEMMA CwdWhere ==
  ASSUME TypeInv, CallsInv, Synchronous, WhereInv, pc = "cmd", ftp.ctrl, SrvCwd
  PROVE  WhereInv'
  <1> DEFINE fr == Head(stack)
             a == Next1.a
  <1>1. /\ srv.up /\ c2s # <<>> /\ Next1.v = "CWD" /\ srv.auth
        /\ UNCHANGED <<ftp, stack, pc, op, gone>>
        /\ \/ /\ a \in Dirs \ gone
              /\ s2c' = Append(s2c, Reply(250, Next1.v, a))
              /\ srv' = [srv EXCEPT !.cwd = a, !.rest = FALSE]
           \/ a \notin Dirs \ gone /\ Say(550, srv)
    BY DEF SrvCwd, Serves, Executes, client, Answer
  <1>0. srv \in SrvSet /\ Serving(srv)
    BY <1>1 DEF TypeInv, TypeOK, Serving
  <1>2. \E full, dir : Replies(full, dir)
    BY <1>0, <1>1, SayStation DEF Replies
  <1>3. /\ s2c = <<>> /\ Next1 \in CmdSet /\ fr.cmd = Next1 /\ Speaks(Next1.v, fr.k)
        /\ Framed(fr, op)
        /\ Tail(stack) # <<>> => Framed(Head(Tail(stack)), op)
        /\ Placed(fr, ftp, op, <<>>, srv, gone)
        /\ Tail(stack) # <<>> => Above(fr, Head(Tail(stack)), ftp, <<>>, srv, gone)
    BY <1>0, <1>1, <1>2, RepliesForm
  <1>4. fr.k \in {"loginCwd", "cdCwd", "lsCwd", "lsBack"} /\ fr.cmd.a = a /\ a \in Paths
    BY <1>1, <1>3 DEF Speaks, CmdSet
  <1> ~Yes(<<>>)
    BY DEF Yes
  <1> HIDE DEF fr, a
  <1>5. CASE /\ a \in Dirs \ gone
             /\ s2c' = Append(s2c, Reply(250, Next1.v, a))
             /\ srv' = [srv EXCEPT !.cwd = a, !.rest = FALSE]
    <2>1. Replies(250, a)
      BY <1>1, <1>5 DEF Replies
    <2>2. s2c' # <<>> /\ Head(s2c') = Reply(250, Next1.v, a)
      BY <1>1, <2>1, RepliesForm
    <2>3. Class(Head(s2c')) = 2 /\ Head(s2c').dir = a
      BY <2>2 DEF Reply, Class
    <2>4. Serving(srv') /\ srv'.cwd = a /\ a # NoDir /\ ~Lost(a, gone)
      BY <1>0, <1>5, SessionAssumption DEF SrvSet, Serving, Lost
    <2>5. Yes(s2c') /\ Names(s2c')
      BY <2>2, <2>3, <2>4 DEF Yes, Names
    <2>6. fr.k = "lsBack" => Sits(ftp, srv', gone)
      BY <1>3, <1>4, <2>4 DEF Placed, Sits
    <2>7. Placed(fr, ftp, op, s2c', srv', gone)
      BY <1>3, <1>4, <2>2, <2>3, <2>4, <2>5, <2>6 DEF Placed
    <2>8. Tail(stack) # <<>> => Above(fr, Head(Tail(stack)), ftp, s2c', srv', gone)
      BY <1>0, <1>1, <1>3, <1>4, <2>2, <2>3, <2>5 DEF Above, Heads, Homes
    <2> QED
      BY <1>1, <2>1, <2>5, <2>7, <2>8, RepliesWhere DEF fr
  <1>6. CASE a \notin Dirs \ gone /\ Say(550, srv)
    <2>0. /\ s2c' = Append(s2c, Reply(550, Next1.v, NoDir))
          /\ srv'.up = srv.up /\ srv'.auth = srv.auth /\ srv'.cwd = srv.cwd
      BY <1>0, <1>6, SayStation
    <2>1. Replies(550, NoDir)
      BY <1>1, <2>0 DEF Replies
    <2>2. s2c' # <<>> /\ Head(s2c') = Reply(550, Next1.v, NoDir)
      BY <1>1, <2>1, RepliesForm
    <2>3. Class(Head(s2c')) = 5
      BY <2>2 DEF Reply, Class
    <2>4. ~Yes(s2c') /\ Names(s2c')
      BY <2>3 DEF Yes, Names
    <2>5. a # NoDir => Lost(a, gone)
      BY <1>4, <1>6 DEF Lost, Paths
    <2>6. Serving(srv') = Serving(srv) /\ \A f, L : Sits(f, srv', L) = Sits(f, srv, L)
      BY <2>0 DEF Serving, Sits
    <2>7. fr.k = "lsBack" => Sits(ftp, srv', gone)
      BY <1>3, <1>4, <2>5, <2>6 DEF Placed, Sits, Framed, Places
    <2>8. Placed(fr, ftp, op, s2c', srv', gone)
      BY <1>3, <1>4, <2>2, <2>4, <2>6, <2>7 DEF Placed
    <2>9. Tail(stack) # <<>> => Above(fr, Head(Tail(stack)), ftp, s2c', srv', gone)
      <3> DEFINE b == Head(Tail(stack))
      <3> SUFFICES ASSUME Tail(stack) # <<>> PROVE Above(fr, b, ftp, s2c', srv', gone)
        OBVIOUS
      <3>1. Framed(b, op) /\ Above(fr, b, ftp, <<>>, srv, gone)
        BY <1>3
      <3> HIDE DEF b
      <3>2. b.k \in Places => b.cmd.a # NoDir
        BY <3>1 DEF Framed
      <3>3. b.k \in Places /\ fr.k = "loginCwd" => Lost(b.cmd.a, gone)
        BY <1>0, <1>4, <2>5, <3>1, <3>2 DEF Above, Homes
      <3> QED
        BY <1>4, <2>2, <2>4, <3>3 DEF Above, Heads, Homes
    <2> QED
      BY <1>1, <2>1, <2>4, <2>8, <2>9, RepliesWhere DEF fr
  <1> QED
    BY <1>1, <1>5, <1>6

LEMMA WorkWhere ==
  ASSUME TypeInv, CallsInv, Synchronous, WhereInv, pc = "cmd", ftp.ctrl,
         SrvMkd \/ SrvPasv \/ SrvType \/ SrvRest \/ SrvList \/ SrvRetr
  PROVE  WhereInv'
  <1> DEFINE Vs == {"MKD", "PASV", "TYPE", "REST", "MLSD", "LIST", "RETR"}
             Stays == srv'.up = srv.up /\ srv'.auth = srv.auth /\ srv'.cwd = srv.cwd
  <1>0. srv \in SrvSet
    BY DEF TypeInv, TypeOK
  <1>1. ASSUME NEW v \in Vs, Serves(v)
        PROVE  /\ srv.up /\ c2s # <<>> /\ Next1.v \in Verbs \ {"USER", "PASS", "PWD", "CWD"}
               /\ UNCHANGED <<ftp, stack, pc, op, gone>>
    BY <1>1 DEF Serves, Executes, client, Verbs
  <1>2. ASSUME NEW full, NEW s \in SrvSet, Say(full, s),
               s.up = srv.up, s.auth = srv.auth, s.cwd = srv.cwd
        PROVE  \E dir : s2c' = Append(s2c, Reply(full, Next1.v, dir)) /\ Stays
    BY <1>2, SayStation
  <1>3. ASSUME NEW v \in Vs, Serves(v), NEW full, NEW dir,
               s2c' = Append(s2c, Reply(full, Next1.v, dir)), Stays
        PROVE  WhereInv'
    <2>1. /\ srv.up /\ c2s # <<>> /\ Next1.v \in Verbs \ {"USER", "PASS", "PWD", "CWD"}
          /\ UNCHANGED <<ftp, stack, pc, op, gone>>
      BY <1>1, <1>3
    <2>2. Replies(full, dir)
      BY <1>3, <2>1 DEF Replies
    <2> QED
      BY <1>3, <2>1, <2>2, DutyWhere
  <1>4. ASSUME NEW kind, Transfer(kind)
        PROVE  \E full, dir : s2c' = Append(s2c, Reply(full, Next1.v, dir)) /\ Stays
    <2>1. /\ s2c' = Append(s2c, Reply(150, Next1.v, NoDir))
          /\ srv' = [srv EXCEPT !.data = FALSE, !.xfer = TRUE, !.rest = FALSE]
      BY <1>4, Zenon DEF Transfer, Answer
    <2>2. Stays
      BY <1>0, <2>1 DEF SrvSet
    <2> QED
      BY <2>1, <2>2
  <1>5. CASE SrvMkd
    <2>1. /\ Serves("MKD")
          /\ \/ Answer(257, BadDir) /\ srv' = [srv EXCEPT !.rest = FALSE]
             \/ Say(550, srv)
      BY <1>5 DEF SrvMkd
    <2>2. \E full, dir : s2c' = Append(s2c, Reply(full, Next1.v, dir)) /\ Stays
      <3>1. CASE Answer(257, BadDir) /\ srv' = [srv EXCEPT !.rest = FALSE]
        <4> s2c' = Append(s2c, Reply(257, Next1.v, BadDir))
          BY <3>1 DEF Answer
        <4> Stays
          BY <1>0, <3>1 DEF SrvSet
        <4> QED
          OBVIOUS
      <3>2. CASE Say(550, srv)
        BY <1>0, <1>2, <3>2
      <3> QED
        BY <2>1, <3>1, <3>2
    <2> HIDE DEF Stays
    <2> QED
      BY <1>3, <2>1, <2>2
  <1>6. CASE SrvPasv
    <2> DEFINE s == [srv EXCEPT !.data = TRUE]
    <2>1. Serves("PASV") /\ Say(227, s)
      BY <1>6 DEF SrvPasv
    <2>2. s \in SrvSet /\ s.up = srv.up /\ s.auth = srv.auth /\ s.cwd = srv.cwd
      BY <1>0 DEF SrvSet
    <2> HIDE DEF s, Stays
    <2> QED
      BY <1>2, <1>3, <2>1, <2>2
  <1>7. CASE SrvType
    <2> DEFINE s == [srv EXCEPT !.type = "I"]
    <2>1. Serves("TYPE") /\ Say(200, s)
      BY <1>7 DEF SrvType
    <2>2. s \in SrvSet /\ s.up = srv.up /\ s.auth = srv.auth /\ s.cwd = srv.cwd
      BY <1>0 DEF SrvSet
    <2> HIDE DEF s, Stays
    <2> QED
      BY <1>2, <1>3, <2>1, <2>2
  <1>8. CASE SrvRest
    <2> DEFINE s == [srv EXCEPT !.rest = TRUE]
    <2>1. Serves("REST") /\ Say(350, s)
      BY <1>8 DEF SrvRest
    <2>2. s \in SrvSet /\ s.up = srv.up /\ s.auth = srv.auth /\ s.cwd = srv.cwd
      BY <1>0 DEF SrvSet
    <2> HIDE DEF s, Stays
    <2> QED
      BY <1>2, <1>3, <2>1, <2>2
  <1>9. CASE SrvList \/ SrvRetr
    <2>1. /\ \E v \in Vs : Serves(v)
          /\ (\E kind : Transfer(kind)) \/ (\E full : Say(full, srv))
      BY <1>9 DEF SrvList, SrvRetr
    <2> HIDE DEF Vs, Stays
    <2>2. \E full, dir : s2c' = Append(s2c, Reply(full, Next1.v, dir)) /\ Stays
      BY <1>0, <1>2, <1>4, <2>1
    <2> QED
      BY <1>3, <2>1, <2>2
  <1> QED
    BY <1>5, <1>6, <1>7, <1>8, <1>9

LEMMA ServerWhere ==
  ASSUME TypeInv, CallsInv, Synchronous, WhereInv, ServerStep
  PROVE  WhereInv'
  <1>0. srv \in SrvSet /\ s2c \in Seq(ReplySet)
    BY DEF TypeInv, TypeOK
  <1>1. CASE SrvAbor
    <2>1. /\ srv.up /\ c2s # <<>> /\ Next1.v = "ABOR" /\ UNCHANGED <<ftp, stack, pc, op, gone>>
          /\ srv' = [srv EXCEPT !.xfer = FALSE, !.data = FALSE]
      BY <1>1, Zenon DEF SrvAbor, Executes, client
    <2>2. srv'.up = srv.up /\ srv'.auth = srv.auth /\ srv'.cwd = srv.cwd
      BY <1>0, <2>1 DEF SrvSet
    <2>3. ~(pc = "cmd" /\ ftp.ctrl)
      <3> SUFFICES ASSUME pc = "cmd", ftp.ctrl PROVE FALSE
        OBVIOUS
      <3> DEFINE fr == Head(stack)
                 cmd == fr.cmd
      <3>1. Due(cmd, c2s, s2c, srv)
        BY DEF Synchronous
      <3>2. stack # <<>> /\ stack \in Seq(Fitting) /\ Calls(stack, op)
        BY WaitsForm DEF CallsInv, TypeInv, TypeOK
      <3>3. Speaks(cmd.v, fr.k)
        BY <3>2 DEF Calls
      <3> HIDE DEF fr, cmd
      <3>4. Next1 = cmd
        BY <2>1, <3>1 DEF Due, Answered, Sends, Next1
      <3> QED
        BY <2>1, <3>3, <3>4 DEF Speaks
    <2> QED
      BY <2>1, <2>2, <2>3, SameStation
  <1>2. CASE XferEof
    <2> UNCHANGED <<ftp, stack, pc, op, s2c, srv, gone>>
      BY <1>2, Zenon DEF XferEof, client
    <2> QED
      BY StillWhere
  <1>3. CASE XferReply
    <2>1. /\ srv.up /\ srv.xfer /\ UNCHANGED <<ftp, stack, pc, op, gone>>
          /\ srv' = [srv EXCEPT !.xfer = FALSE]
          /\ \E r : s2c' = Append(s2c, r)
      BY <1>3, Zenon DEF XferReply, client
    <2>2. srv'.up = srv.up /\ srv'.auth = srv.auth /\ srv'.cwd = srv.cwd
      BY <1>0, <2>1 DEF SrvSet
    <2>3. ASSUME pc = "cmd", ftp.ctrl
          PROVE  s2c # <<>> /\ s2c' # <<>> /\ Head(s2c') = Head(s2c)
      <3> DEFINE cmd == Head(stack).cmd
      <3>1. Due(cmd, c2s, s2c, srv)
        BY <2>3 DEF Synchronous
      <3> HIDE DEF cmd
      <3>2. s2c # <<>>
        BY <2>1, <3>1 DEF Due, Answered, Replied
      <3> QED
        BY <1>0, <2>1, <3>2
    <2> QED
      BY <2>1, <2>2, <2>3, SameStation
  <1>4. CASE /\ pc = "cmd" /\ ftp.ctrl
             /\ \/ SrvUser \/ SrvPass \/ SrvDenies \/ SrvPwd \/ SrvCwd \/ SrvMkd
                \/ SrvPasv \/ SrvType \/ SrvRest \/ SrvList \/ SrvRetr \/ SrvQuit
    BY <1>4, LoggingWhere, PwdWhere, CwdWhere, WorkWhere
  <1>5. CASE /\ ~(pc = "cmd" /\ ftp.ctrl)
             /\ \/ SrvUser \/ SrvPass \/ SrvDenies \/ SrvPwd \/ SrvCwd \/ SrvMkd
                \/ SrvPasv \/ SrvType \/ SrvRest \/ SrvList \/ SrvRetr \/ SrvQuit
    <2>1. Handled
      BY <1>0, <1>5, HandledForm
    <2>2. gone' = gone
      <3>1. ASSUME NEW v, Executes(v) PROVE gone' = gone
        BY <3>1, Zenon DEF Executes
      <3> QED
        BY <1>5, <3>1, Zenon DEF SrvUser, SrvPass, SrvDenies, SrvPwd, SrvCwd, SrvMkd, SrvPasv,
              SrvType, SrvRest, SrvList, SrvRetr, SrvQuit, Serves
    <2> QED
      BY <1>5, <2>1, <2>2, AloneWhere
  <1> QED
    BY <1>1, <1>2, <1>3, <1>4, <1>5, Zenon DEF ServerStep

-----------------------------------------------------------------------------
(* The session ends, a directory goes.                                     *)

LEMMA DropWhere ==
  ASSUME TypeInv, WhereInv, SrvDrop
  PROVE  WhereInv'
  <1>1. /\ srv' = Down /\ UNCHANGED <<ftp, stack, pc, op, gone>>
        /\ Cut(s2c, s2c')
    BY Zenon DEF SrvDrop, client, Cut, Bow
  <1>2. s2c \in Seq(ReplySet) /\ ~Serving(srv') /\ ~srv'.up
    BY <1>1, BowForm DEF TypeInv, TypeOK, Serving
  <1>3. Names(s2c) => Names(s2c')
    <2> DEFINE p == s2c'
    <2>1. p = <<>> \/ (p # <<>> /\ (Head(p) = Bow \/ (s2c # <<>> /\ Head(p) = Head(s2c))))
      BY <1>1, <1>2, CutForm
    <2> HIDE DEF p
    <2>2. Names(s2c) => Names(p)
      BY <2>1, BowForm DEF Names
    <2> QED
      BY <2>2 DEF p
  <1>4. Waits(ftp, stack, op, s2c, srv, gone) => Waits(ftp, stack, op, s2c', srv', gone)
    BY <1>2, <1>3 DEF Waits, Above
  <1>5. Redials(pc, ftp, stack, srv) => Redials(pc, ftp, stack, srv')
    BY <1>2 DEF Redials
  <1> QED
    BY <1>1, <1>2, <1>4, <1>5 DEF WhereInv, Where

LEMMA RemoveWhere ==
  ASSUME WhereInv, NEW d, RemoveDir(d)
  PROVE  WhereInv'
  <1>1. UNCHANGED <<ftp, stack, pc, op, s2c, srv>> /\ gone' = gone \cup {d}
    BY Zenon DEF RemoveDir, client
  <1>2. \A x : Lost(x, gone) => Lost(x, gone')
    BY <1>1 DEF Lost
  <1>3. \A f, s : Sits(f, s, gone) => Sits(f, s, gone')
    BY <1>2 DEF Sits
  <1>4. \A fr, q, s : Placed(fr, ftp, op, q, s, gone) => Placed(fr, ftp, op, q, s, gone')
    BY <1>2, <1>3 DEF Placed
  <1>5. \A fr, b, q, s : Above(fr, b, ftp, q, s, gone) => Above(fr, b, ftp, q, s, gone')
    BY <1>2 DEF Above, Homes
  <1>6. Waits(ftp, stack, op, s2c, srv, gone) => Waits(ftp, stack, op, s2c, srv, gone')
    BY <1>4, <1>5 DEF Waits
  <1> QED
    BY <1>1, <1>3, <1>6 DEF WhereInv, Where

-----------------------------------------------------------------------------
(* Every step leaves the client where it believes it is.                   *)

LEMMA WhereInit ==
  ASSUME Init
  PROVE  WhereInv
  <1>1. ftp.curdir = BadDir /\ ~ftp.connected /\ stack = <<>> /\ pc = "prompt"
    BY DEF Init
  <1>2. Frames2(<<>>, op)
    BY DEF Frames2
  <1> QED
    BY <1>1, <1>2, SessionAssumption DEF WhereInv, Where, Connected

LEMMA WhereStep ==
  ASSUME ~LocalFails, Agreed, WhereInv, Single, Single', [Next]_vars, [~Abandons]_vars
  PROVE  WhereInv'
  <1> TypeInv /\ CallsInv /\ Synchronous
    BY DEF Agreed
  <1>2. CASE UNCHANGED vars
    <2> UNCHANGED <<ftp, stack, pc, op, s2c, srv, gone>>
      BY <1>2 DEF vars
    <2> QED
      BY StillWhere
  <1>3. CASE UserStep
    BY <1>3, UserWhere
  <1>4. CASE ClientStep
    BY <1>4, ClientWhere
  <1>5. CASE ServerStep
    BY <1>5, ServerWhere
  <1>6. CASE (IntJmp \/ IntAbort \/ IntClose \/ Timeout) /\ ~Abandons
    BY <1>6, SignalWhere
  <1>7. CASE SrvDrop
    BY <1>7, DropWhere
  <1>8. CASE \E d \in Dirs : RemoveDir(d)
    BY <1>8, RemoveWhere
  <1> QED
    BY <1>2, <1>3, <1>4, <1>5, <1>6, <1>7, <1>8, Zenon DEF Next, Quiet

LEMMA WherePrompt == Agreed /\ WhereInv => PromptCwd
  <1> SUFFICES ASSUME WhereInv, pc = "prompt", LoggedIn(ftp), srv.up, srv.auth
               PROVE  ftp.curdir \in {srv.cwd, BadDir} \cup gone
    BY DEF PromptCwd
  <1>1. Connected(ftp) /\ Serving(srv)
    BY DEF LoggedIn, Connected, Serving
  <1>2. Sits(ftp, srv, gone)
    BY <1>1 DEF WhereInv, Where
  <1> QED
    BY <1>2 DEF Sits, Lost

\* The client knows where the server is.  Through cd, ls of another directory
\* and back, logins, reconnects that put the server into its home directory
\* and resend the interrupted command from there, and directories others
\* remove, the directory that yafc shows at the prompt and resolves names
\* against is the server's working directory, unless it has none or it was
\* removed.  Besides the two ways out of step one more is set apart: a session
\* that ends within the login of a reconnect, so that ftp_cmd reconnects from
\* there, and the directory of the first reconnect is forgotten.
THEOREM PlaceIsKnown ==
  ASSUME ~LocalFails
  PROVE  Spec /\ [][~Abandons]_vars /\ []Single => []PromptCwd
  <1>1. Init => Agreed /\ WhereInv
    BY AgreedInit, WhereInit
  <1>2. Agreed /\ WhereInv /\ Single /\ Single' /\ [Next]_vars /\ [~Abandons]_vars
          => Agreed' /\ WhereInv'
    BY AgreedStep, WhereStep
  <1>3. Agreed /\ WhereInv => PromptCwd
    BY WherePrompt
  <1> QED
    BY <1>1, <1>2, <1>3, PTL DEF Spec

-----------------------------------------------------------------------------
(* What mkdir promises its user.                                           *)

\* MKDs in flight are of the ftp_cmd that waits.  Nothing is being done at the
\* prompt.  A reconnect shows no success.  A success that is on its way to
\* ftp_mkdir_verb is true.
Unmade(c) == \A i \in DOMAIN c : c[i].v # "MKD"
Honest(p, f, st, o, c, q, done) ==
  /\ Unmade(c) \/ (p = "cmd" /\ f.ctrl)
  /\ p = "prompt" => o.name = "none"
  /\ p \in {"connect", "welcome"} /\ st # <<>> => f.full \div 100 # 2
  /\ p = "cmd" /\ f.ctrl /\ Head(st).k = "mkd" /\ Yes(q) => done = 1
HonestInv == Honest(pc, ftp, stack, op, c2s, s2c, made[Now])

\* A step leaves the wish alone, makes one, grants it, or tells how it ended.
Left ==
  /\ made' = made
  /\ IF op.name = "mkdir" THEN op'.name = "mkdir" /\ op'.dir = op.dir /\ Now' = Now
     ELSE op'.name # "mkdir"
Wished ==
  /\ made' = made /\ op.name # "mkdir" /\ op'.name = "mkdir"
  /\ Now' \in Serials /\ op'.dir \in Paths /\ made[Now'] = 0
Granted ==
  /\ op.name = "mkdir" /\ op' = op /\ Now' = Now /\ Now \in Serials
  /\ made[Now] = 0 /\ made' = [made EXCEPT ![Now] = 1]
  /\ op.dir = srv.cwd \/ op.dir \in gone
Ended ==
  /\ made' = made /\ op.name = "mkdir" /\ op'.name # "mkdir"
  /\ ftp'.full \div 100 = 2 => made[Now] = 1
Honours == Left \/ Wished \/ Granted \/ Ended

Somewhere == NoDir \notin [n : 0..MaxOps, place : Paths]

LEMMA HonoursStep ==
  ASSUME TypeInv, TypeInv', Somewhere, Honours
  PROVE  [Mkdir!Next]_<<IF op.name = "mkdir" THEN [n |-> MaxOps - left.ops, place |-> op.dir]
                        ELSE NoDir, made>>
  <1> DEFINE a == IF op.name = "mkdir" THEN [n |-> Now, place |-> op.dir] ELSE NoDir
             b == IF op'.name = "mkdir" THEN [n |-> Now', place |-> op'.dir] ELSE NoDir
  <1>1. /\ Now \in 0..MaxOps /\ op.dir \in Paths
        /\ Now' \in 0..MaxOps /\ op'.dir \in Paths
    <2>1. op \in OpSet /\ left \in LeftSet /\ op' \in OpSet /\ left' \in LeftSet
      BY DEF TypeInv, TypeOK
    <2>2. \A o \in OpSet : o.dir \in Paths
      BY DEF OpSet
    <2>3. \A l \in LeftSet : MaxOps - l.ops \in 0..MaxOps
      BY SessionAssumption DEF LeftSet
    <2> QED
      BY <2>1, <2>2, <2>3 DEF Now
  <1>2. op.name = "mkdir" => a # NoDir /\ a.n = Now /\ a.place = op.dir
    BY <1>1 DEF Somewhere
  <1>3. SUFFICES \/ a' = a /\ made' = made
                 \/ Mkdir!Ask \/ Mkdir!Execute \/ Mkdir!Answer
    BY DEF Mkdir!Next, Now
  <1>4. CASE Left
    BY <1>4 DEF Left
  <1>5. CASE Wished
    <2>1. Now' \in Serials /\ op'.dir \in Paths /\ made[Now'] = 0 /\ made' = made
      BY <1>5 DEF Wished
    <2>2. a = NoDir /\ a' = [n |-> Now', place |-> op'.dir]
      BY <1>5 DEF Wished
    <2> QED
      BY <2>1, <2>2 DEF Mkdir!Ask, Mkdir!Asked, Now
  <1>6. CASE Granted
    BY <1>2, <1>6 DEF Granted, Mkdir!Execute, Now
  <1>7. CASE Ended
    BY <1>2, <1>7 DEF Ended, Mkdir!Answer, Now
  <1> QED
    BY <1>4, <1>5, <1>6, <1>7 DEF Honours

-----------------------------------------------------------------------------
(* The steps of the client.                                                *)

LEMMA UnmadeForm == NoMkd <=> Unmade(c2s)
  BY DEF NoMkd, Unmade

\* What leaves the channel with no MKD leaves none in it.
LEMMA UnmadeKept ==
  ASSUME NEW g, NEW q, NEW cmd, cmd.v # "MKD", c2s \in Seq(CmdSet), Unmade(c2s) \/ ~srv.up,
         Network(g, q, c2s) \/ Network(g, q, Append(c2s, cmd))
  PROVE  Unmade(c2s')
  <1>1. c2s' = <<>> \/ (Unmade(c2s) /\ (c2s' = c2s \/ c2s' = Append(c2s, cmd)))
    BY DEF Network
  <1>2. Unmade(<<>>)
    BY DEF Unmade
  <1>3. Unmade(c2s) => Unmade(Append(c2s, cmd))
    BY DEF Unmade
  <1> QED
    BY <1>1, <1>2, <1>3

LEMMA MovedHonest ==
  ASSUME TypeInv, NEW f, NEW q, Moved(f, q), f.ctrl => Rest(q, srv),
         Unmade(c2s) \/ ~srv.up
  PROVE  HonestInv' /\ made' = made
  <1>0. c2s \in Seq(CmdSet)
    BY DEF TypeInv, TypeOK
  <1> PICK g : /\ Keeps(g, f)
               /\ \/ Prompt(g, q)
                  \/ \E o, cmd, k : Follows(o, cmd, k) /\ Send(g, q, o, cmd, k)
                  \/ Tail(stack) # <<>> /\ Resend(g, q, Tail(stack))
                  \/ pc' = "crashed" /\ ftp' = g /\ Network(g, q, c2s) /\ UNCHANGED <<stack, op>>
    BY Zenon DEF Moved
  <1>1. CASE Prompt(g, q)
    <2>1. /\ pc' = "prompt" /\ op' = NoOp /\ stack' = <<>> /\ Network(g, q, c2s)
          /\ made' = made
      BY <1>1, Zenon DEF Prompt, Network
    <2>2. Unmade(c2s')
      BY <1>0, <2>1, UnmadeKept, VerbTyped DEF Verbs
    <2> QED
      BY <2>1, <2>2 DEF HonestInv, Honest, NoOp
  <1>2. CASE \E o, cmd, k : Follows(o, cmd, k) /\ Send(g, q, o, cmd, k)
    <2> PICK o, cmd, k : Follows(o, cmd, k) /\ Send(g, q, o, cmd, k)
      BY <1>2, Zenon
    <2>1. PICK below : /\ stack' = <<[cmd |-> cmd, recon |-> FALSE, k |-> k]>> \o below
                       /\ pc' = "cmd" /\ Network(g, q, Append(c2s, cmd))
      BY Zenon DEF Send, Issue
    <2>2. k # "mkd" /\ cmd.v # "MKD"
      BY DEF Follows, Speaks
    <2>3. Unmade(c2s') /\ made' = made
      BY <1>0, <2>1, <2>2, UnmadeKept DEF Network
    <2>4. Head(stack').k = k
      BY <2>1
    <2> QED
      BY <2>1, <2>2, <2>3, <2>4 DEF HonestInv, Honest
  <1>3. CASE Tail(stack) # <<>> /\ Resend(g, q, Tail(stack))
    <2>1. PICK c : ftp' = g /\ pc' = "cmd" /\ Network(g, q, c)
      BY <1>3, Zenon DEF Resend
    <2>2. made' = made /\ (~g.ctrl => c2s' = <<>>) /\ (g.ctrl => s2c' = q)
      BY <2>1 DEF Network
    <2>3. g.ctrl => ~Yes(q)
      BY RestOn, Classes DEF Keeps, Rest, Bye, Yes, Class
    <2> QED
      BY <2>1, <2>2, <2>3 DEF HonestInv, Honest, Unmade
  <1>4. CASE pc' = "crashed" /\ ftp' = g /\ Network(g, q, c2s) /\ UNCHANGED <<stack, op>>
    <2>1. Unmade(c2s') /\ made' = made
      BY <1>0, <1>4, UnmadeKept, VerbTyped DEF Verbs, Network
    <2> QED
      BY <1>4, <2>1 DEF HonestInv, Honest
  <1> QED
    BY <1>1, <1>2, <1>3, <1>4

\* A command that is not a mkdir does not become one; a mkdir that reconnects
\* goes on.
LEMMA MovedLeft ==
  ASSUME NEW f, NEW q, Moved(f, q), left' = left, made' = made,
         op.name = "mkdir" => Head(stack).k \in Logins /\ pc' # "prompt"
  PROVE  Left
  <1> PICK g : /\ Keeps(g, f)
               /\ \/ Prompt(g, q)
                  \/ \E o, cmd, k : Follows(o, cmd, k) /\ Send(g, q, o, cmd, k)
                  \/ Tail(stack) # <<>> /\ Resend(g, q, Tail(stack))
                  \/ pc' = "crashed" /\ ftp' = g /\ Network(g, q, c2s) /\ UNCHANGED <<stack, op>>
    BY Zenon DEF Moved
  <1>1. CASE Prompt(g, q)
    BY <1>1 DEF Prompt, NoOp, Left
  <1>2. CASE \E o, cmd, k : Follows(o, cmd, k) /\ Send(g, q, o, cmd, k)
    <2> PICK o, cmd, k : Follows(o, cmd, k) /\ Send(g, q, o, cmd, k)
      BY <1>2, Zenon
    <2>1. op' = o
      BY Zenon DEF Send, Issue
    <2>2. op.name = "mkdir" => o = op
      BY DEF Follows
    <2>3. op.name # "mkdir" => o.name # "mkdir"
      BY DEF Follows, Owns
    <2> QED
      BY <2>1, <2>2, <2>3 DEF Left, Now
  <1>3. CASE Tail(stack) # <<>> /\ Resend(g, q, Tail(stack))
    <2> op' = op
      BY <1>3, Zenon DEF Resend
    <2> QED
      BY DEF Left, Now
  <1> QED
    BY <1>1, <1>2, <1>3 DEF Left, Now

\* The login of a reconnect does not end the command it runs in.
LEMMA InnerLogin ==
  ASSUME Head(stack).k \in Logins, Tail(stack) # <<>>, NEW f, NEW q, NEW r, Continue(f, q, r)
  PROVE  pc' # "prompt"
  <1>1. \A g, p, ok : LoginDone(g, p, ok) => pc' = "cmd"
    BY Zenon DEF LoginDone, Resend
  <1>2. \A g, p, o, c, k : Send(g, p, o, c, k) => pc' = "cmd"
    BY Zenon DEF Send, Issue
  <1>3. Head(stack).k \notin {"cdCwd", "cdPwd", "lsCwd", "lsPasv", "lsList", "lsBack", "mkd",
                              "getPasv", "getType", "getRest", "getRetr", "quit"}
    BY DEF Logins
  <1>4. \/ AfterUser(f, q, r) \/ LoginAnswer(f, q, r) \/ AfterHomePwd(f, q, r)
        \/ AfterCwd(f, q, r, "loginCwdPwd") \/ AfterPwd(f, q, r, "loginCwdPwd")
    BY <1>3, Zenon DEF Continue
  <1>5. LoginAnswer(f, q, r) => pc' = "cmd"
    BY <1>1, <1>2, Zenon DEF LoginAnswer
  <1>6. AfterUser(f, q, r) => pc' = "cmd"
    BY <1>2, <1>5, Zenon DEF AfterUser
  <1>7. AfterHomePwd(f, q, r) => pc' \in {"cmd", "crashed"}
    BY <1>1, <1>2, Zenon DEF AfterHomePwd
  <1>8. \A g : CwdDone(g, q, "loginCwdPwd") => pc' = "cmd"
    BY <1>1, Zenon DEF CwdDone
  <1>9. AfterCwd(f, q, r, "loginCwdPwd") => pc' = "cmd"
    BY <1>2, <1>8, Zenon DEF AfterCwd
  <1>10. AfterPwd(f, q, r, "loginCwdPwd") => pc' = "cmd"
    BY <1>8, Zenon DEF AfterPwd
  <1>11. pc' \in {"cmd", "crashed"}
    BY <1>4, <1>5, <1>6, <1>7, <1>9, <1>10, Zenon
  <1> QED
    BY <1>11

\* ftp_mkdir_verb returns what the reply said.
LEMMA MkdEnd ==
  ASSUME Head(stack).k = "mkd", NEW f, Good(f), NEW q, NEW r, Continue(f, q, r)
  PROVE  op' = NoOp /\ ftp'.full = f.full /\ made' = made
  <1>1. EndCmd(IF Class(r) = 2 THEN [f EXCEPT !.marks = @ \cup {f.curdir}] ELSE f, q)
    <2>1. Head(stack).k \notin {"user", "pass", "homePwd", "loginCwd", "loginCwdPwd", "cdCwd",
             "cdPwd", "lsCwd", "lsPasv", "lsList", "lsBack", "getPasv", "getType", "getRest",
             "getRetr", "quit"}
      OBVIOUS
    <2> QED
      BY <2>1, Zenon DEF Continue
  <1> PICK g : g = (IF Class(r) = 2 THEN [f EXCEPT !.marks = @ \cup {f.curdir}] ELSE f) /\ EndCmd(g, q)
    BY <1>1, Zenon
  <1>2. f \in FtpSet
    BY DEF Good, FtpOK
  <1>3. g.full = f.full /\ Flush(g).full = g.full
    BY <1>2 DEF FtpSet, Flush
  <1>4. ftp' = Flush(g) /\ op' = NoOp /\ made' = made
    BY Zenon DEF EndCmd, Prompt, Network
  <1> QED
    BY <1>3, <1>4

LEMMA ContinueHonours ==
  ASSUME TypeInv, CallsInv, pc = "cmd", ~LocalFails, NEW f, Good(f), NEW q, NEW r \in ReplySet,
         Continue(f, q, r), f.ctrl /\ ~Starts(r) => Rest(q, srv), Unmade(c2s) \/ ~srv.up,
         left' = left, Head(stack).k = "mkd" /\ f.full \div 100 = 2 => made[Now] = 1
  PROVE  Honours /\ HonestInv'
  <1>1. /\ stack \in Seq(Fitting) /\ stack # <<>> /\ Calls(stack, op) /\ op \in OpSet
        /\ c2s \in Seq(CmdSet)
    BY DEF TypeInv, TypeOK, CallsInv
  <1>2. IF Starts(r) THEN Block(f, q, op, "data") ELSE Moved(f, q)
    BY <1>1, ContinueMoves
  <1>3. CASE Starts(r)
    <2>1. pc' = "data" /\ op' = op /\ Network(f, q, c2s)
      BY <1>2, <1>3 DEF Block
    <2>2. Unmade(c2s') /\ made' = made
      BY <1>1, <2>1, UnmadeKept, VerbTyped DEF Verbs, Network
    <2> QED
      BY <2>1, <2>2 DEF HonestInv, Honest, Honours, Left, Now
  <1>4. CASE ~Starts(r)
    <2>1. Moved(f, q)
      BY <1>2, <1>4
    <2>2. HonestInv' /\ made' = made
      BY <1>4, <2>1, MovedHonest
    <2>3. CASE op.name # "mkdir"
      BY <2>1, <2>2, <2>3, MovedLeft DEF Honours
    <2>4. CASE op.name = "mkdir" /\ Tail(stack) # <<>>
      <3> Head(stack).k \in Logins
        BY <1>1, <2>4, CallsForm
      <3> QED
        BY <2>1, <2>2, <2>4, InnerLogin, MovedLeft DEF Honours
    <2>5. CASE op.name = "mkdir" /\ Tail(stack) = <<>>
      <3>1. Head(stack).k = "mkd"
        BY <1>1, <2>5, CallsForm DEF Owns
      <3>2. op' = NoOp /\ ftp'.full = f.full
        BY <3>1, MkdEnd
      <3> QED
        BY <2>2, <2>5, <3>1, <3>2 DEF Honours, Ended, NoOp
    <2> QED
      BY <2>3, <2>4, <2>5
  <1> QED
    BY <1>3, <1>4

LEMMA CmdReplyHonours ==
  ASSUME TypeInv, CallsInv, Synchronous, HonestInv, ~LocalFails, CmdReply
  PROVE  Honours /\ HonestInv'
  <1> DEFINE r == Head(s2c)
             f == [ftp EXCEPT !.full = Head(s2c).full]
  <1>1. pc = "cmd" /\ ftp.ctrl /\ s2c # <<>> /\ left' = left
    BY Zenon DEF CmdReply
  <1>2. r \in ReplySet /\ Good(f) /\ f.full = r.full
    BY <1>1, FullForm DEF Opening
  <1>3. c2s = <<>> /\ IF Starts(r) THEN Moving(Tail(s2c), srv) ELSE Rest(Tail(s2c), srv)
    BY <1>1, ReplyForm DEF Synchronous
  <1>4. \/ /\ Reconnects(f, r)
           /\ ftp' = f /\ pc' = "connect" /\ op' = op /\ Network(f, Tail(s2c), c2s)
        \/ Continue(f, Tail(s2c), r)
    BY Zenon DEF CmdReply
  <1>5. Class(r) = 2 => Yes(s2c)
    BY <1>1 DEF Yes
  <1> HIDE DEF r, f
  <1>6. Unmade(c2s)
    BY <1>3 DEF Unmade
  <1>7. CASE Continue(f, Tail(s2c), r)
    <2>1. Head(stack).k = "mkd" /\ f.full \div 100 = 2 => made[Now] = 1
      BY <1>1, <1>2, <1>5 DEF HonestInv, Honest, Class
    <2> QED
      BY <1>1, <1>2, <1>3, <1>6, <1>7, <2>1, ContinueHonours
  <1>8. CASE /\ Reconnects(f, r)
             /\ ftp' = f /\ pc' = "connect" /\ op' = op /\ Network(f, Tail(s2c), c2s)
    <2>1. f.full = 421
      BY <1>2, <1>8 DEF Reconnects
    <2>2. f.full \div 100 # 2
      BY <2>1
    <2>3. c2s' = <<>> /\ made' = made
      BY <1>3, <1>8 DEF Network
    <2> QED
      BY <1>1, <1>8, <2>2, <2>3 DEF HonestInv, Honest, Unmade, Honours, Left, Now
  <1> QED
    BY <1>4, <1>7, <1>8

LEMMA CmdLostHonours ==
  ASSUME TypeInv, CallsInv, HonestInv, ~LocalFails, CmdEof \/ CmdNoCtrl
  PROVE  Honours /\ HonestInv'
  <1>1. pc = "cmd" /\ left' = left
    BY Zenon DEF CmdEof, CmdNoCtrl
  <1>2. Unmade(c2s) \/ ~srv.up
    <2>1. CmdNoCtrl => ~ftp.ctrl
      BY Zenon DEF CmdNoCtrl
    <2>2. CmdEof => ~srv.up
      BY Zenon DEF CmdEof
    <2> QED
      BY <2>1, <2>2 DEF HonestInv, Honest
  <1>3. \E f : Good(f) /\ ~f.ctrl /\ f.full = 0 /\ Continue(f, <<>>, NoReply)
    <2>1. CASE CmdEof
      BY <2>1, ClosedForm, Zenon DEF CmdEof
    <2>2. CASE CmdNoCtrl
      <3> DEFINE f == [ftp EXCEPT !.full = 0]
      <3>1. ~ftp.ctrl /\ Continue(f, <<>>, NoReply)
        BY <2>2, Zenon DEF CmdNoCtrl
      <3>2. Good(ftp) /\ 0 \in Codes
        BY <1>1 DEF TypeInv, Good, Opening, Codes
      <3>3. Good(f) /\ Alike(f, ftp)
        BY <3>2, FieldForms, AlikeForms
      <3>4. f.full = 0
        BY DEF TypeInv, TypeOK, FtpSet
      <3> HIDE DEF f
      <3> QED
        BY <3>1, <3>3, <3>4 DEF Alike
    <2> QED
      BY <2>1, <2>2
  <1> PICK f : Good(f) /\ ~f.ctrl /\ f.full = 0 /\ Continue(f, <<>>, NoReply)
    BY <1>3
  <1>4. f.full \div 100 # 2
    OBVIOUS
  <1> QED
    BY <1>1, <1>2, <1>4, NoReplyTyped, ContinueHonours

LEMMA OpenFailedHonours ==
  ASSUME TypeInv, CallsInv, HonestInv, pc \in {"connect", "welcome"}, left' = left,
         OpenFailed(Close(ftp))
  PROVE  Honours /\ HonestInv'
  <1> DEFINE f == Close(ftp)
  <1>1. Good(f) /\ ~f.ctrl
    BY ClosedForm
  <1> HIDE DEF f
  <1>2. \/ stack = <<>> /\ EndCmd(f, <<>>)
        \/ stack # <<>> /\ Resend(f, <<>>, stack)
    BY Zenon DEF OpenFailed, f
  <1>3. CASE stack = <<>> /\ EndCmd(f, <<>>)
    <2>1. ~Flush(f).ctrl
      BY <1>1, KeepsForms DEF Keeps
    <2>2. Network(Flush(f), <<>>, c2s) /\ pc' = "prompt" /\ op' = NoOp
      BY <1>3, Zenon DEF EndCmd, Prompt
    <2>3. c2s' = <<>> /\ made' = made
      BY <2>1, <2>2 DEF Network
    <2>4. op.name # "mkdir"
      BY <1>3 DEF CallsInv
    <2> QED
      BY <2>2, <2>3, <2>4 DEF HonestInv, Honest, Unmade, Honours, Left, NoOp
  <1>4. CASE stack # <<>> /\ Resend(f, <<>>, stack)
    <2>1. PICK c : ftp' = f /\ pc' = "cmd" /\ op' = op /\ Network(f, <<>>, c)
      BY <1>4, Zenon DEF Resend
    <2>2. c2s' = <<>> /\ made' = made
      BY <1>1, <2>1 DEF Network
    <2> QED
      BY <1>1, <2>1, <2>2 DEF HonestInv, Honest, Unmade, Honours, Left, Now
  <1> QED
    BY <1>2, <1>3, <1>4

LEMMA ConnectHonours ==
  ASSUME TypeInv, CallsInv, HonestInv, ConnectOk \/ ConnectFail \/ Welcome
  PROVE  Honours /\ HonestInv'
  <1>1. CASE ConnectFail
    BY <1>1, OpenFailedHonours, Zenon DEF ConnectFail
  <1>2. CASE ConnectOk
    <2>1. /\ pc = "connect" /\ pc' = "welcome" /\ c2s' = <<>> /\ UNCHANGED <<stack, op, made, left>>
          /\ ftp' = [ftp EXCEPT !.ctrl = TRUE, !.type = "?"]
      BY <1>2, Zenon DEF ConnectOk
    <2>2. ftp'.full = ftp.full
      BY <2>1 DEF TypeInv, TypeOK, FtpSet
    <2>3. Left
      BY <2>1 DEF Left, Now
    <2>4. stack # <<>> => ftp.full \div 100 # 2
      BY <2>1 DEF HonestInv, Honest
    <2> QED
      BY <2>1, <2>2, <2>3, <2>4 DEF HonestInv, Honest, Unmade, Honours
  <1>3. CASE Welcome
    <2>1. pc = "welcome" /\ left' = left
      BY <1>3, Zenon DEF Welcome
    <2>2. CASE OpenFailed(Close(ftp))
      BY <2>1, <2>2, OpenFailedHonours
    <2>3. CASE \E f : Issue(f, Tail(s2c), op, Verb("USER"), "user", stack)
      <3> PICK f : Issue(f, Tail(s2c), op, Verb("USER"), "user", stack)
        BY <2>3
      <3>1. /\ pc' = "cmd" /\ op' = op /\ Network(f, Tail(s2c), Append(c2s, Verb("USER")))
            /\ stack' = <<[cmd |-> Verb("USER"), recon |-> FALSE, k |-> "user"]>> \o stack
        BY Zenon DEF Issue
      <3>2. Unmade(c2s)
        BY <2>1 DEF HonestInv, Honest
      <3>3. c2s \in Seq(CmdSet) /\ stack \in Seq(Fitting) /\ Verb("USER").v # "MKD"
        BY VerbForm DEF TypeInv, TypeOK
      <3>4. Unmade(c2s') /\ made' = made
        BY <3>1, <3>2, <3>3, UnmadeKept DEF Network
      <3>5. Head(stack').k = "user"
        BY <3>1, <3>3
      <3> QED
        BY <2>1, <3>1, <3>4, <3>5 DEF HonestInv, Honest, Honours, Left, Now
    <2> QED
      BY <1>3, <2>2, <2>3, Zenon DEF Welcome
  <1> QED
    BY <1>1, <1>2, <1>3

\* A transfer is not a mkdir.
LEMMA BusyHonours ==
  ASSUME TypeInv, CallsInv, CallsInv', HonestInv, pc \in Moment, pc' \in Moment,
         NEW g, NEW q, NEW cmd, cmd.v # "MKD", Network(g, q, c2s) \/ Network(g, q, Append(c2s, cmd))
  PROVE  Honours /\ HonestInv'
  <1>1. c2s \in Seq(CmdSet) /\ Unmade(c2s)
    BY DEF TypeInv, TypeOK, HonestInv, Honest, Moment
  <1>2. Unmade(c2s') /\ made' = made
    BY <1>1, UnmadeKept DEF Network
  <1>3. op.name # "mkdir" /\ op'.name # "mkdir"
    BY DEF CallsInv, Moment
  <1>4. HonestInv'
    BY <1>2 DEF HonestInv, Honest, Moment
  <1> QED
    BY <1>2, <1>3, <1>4 DEF Honours, Left

LEMMA DataHonours ==
  ASSUME TypeInv, CallsInv, CallsInv', HonestInv,
         RecvEnd \/ RecvBreak \/ AbortPending \/ SendAbor \/ Drained
  PROVE  Honours /\ HonestInv'
  <1>1. Verb("ABOR").v # "MKD" /\ Verb("PWD").v # "MKD"
    BY VerbForm
  <1>2. CASE SendAbor
    <2> pc = "data" /\ pc' = "drain" /\ Network(ftp, s2c, Append(c2s, Verb("ABOR")))
      BY <1>2, Zenon DEF SendAbor
    <2> QED
      BY <1>1, BusyHonours DEF Moment
  <1>3. CASE RecvEnd \/ RecvBreak \/ AbortPending \/ Drained
    <2>1. pc \in Moment
      BY <1>3, Zenon DEF RecvEnd, RecvBreak, AbortPending, Drained, Moment
    <2>2. \E o, p : p \in Moment /\ Block(ftp, s2c, o, p)
      BY <1>3, Zenon DEF RecvEnd, RecvBreak, AbortPending, Drained, Moment
    <2>3. pc' \in Moment /\ Network(ftp, s2c, c2s)
      BY <2>2, Zenon DEF Block
    <2> QED
      BY <1>1, <2>1, <2>3, BusyHonours
  <1> QED
    BY <1>2, <1>3

LEMMA OverHonours ==
  ASSUME TypeInv, CallsInv, HonestInv, pc \in Moment, NEW f, NEW q, f.ctrl => Rest(q, srv),
         Moved(f, q), left' = left
  PROVE  Honours /\ HonestInv'
  <1>1. Unmade(c2s)
    BY DEF HonestInv, Honest, Moment
  <1>2. op.name # "mkdir"
    BY DEF CallsInv, Moment
  <1> QED
    BY <1>1, <1>2, MovedHonest, MovedLeft DEF Honours

LEMMA FinalHonours ==
  ASSUME TypeInv, CallsInv, Synchronous, HonestInv, FinalReply \/ FinalEof
  PROVE  Honours /\ HonestInv'
  <1>1. pc = "final" /\ pc \in Moment /\ left' = left
    BY Zenon DEF FinalReply, FinalEof, Moment
  <1>2. Moving(s2c, srv)
    BY <1>1 DEF CallsInv, Synchronous, Ending
  <1>3. CASE FinalReply
    <2> DEFINE f == [ftp EXCEPT !.full = Head(s2c).full]
    <2>1. s2c # <<>> /\ TransferEnd(f, Tail(s2c), Head(s2c))
      BY <1>3, Zenon DEF FinalReply
    <2>2. Good(f)
      BY <1>1, <2>1, FullForm DEF Opening
    <2> HIDE DEF f
    <2>3. Moved(f, Tail(s2c))
      BY <1>1, <2>1, <2>2, TransferEndMoves
    <2>4. Rest(Tail(s2c), srv)
      BY <1>2, <2>1, MovingOn
    <2> QED
      BY <1>1, <2>3, <2>4, OverHonours
  <1>4. CASE FinalEof
    <2>1. TransferEnd(Close(ftp), <<>>, NoReply)
      BY <1>4, Zenon DEF FinalEof
    <2>2. Moved(Close(ftp), <<>>)
      BY <1>1, <2>1, ClosedForm, TransferEndMoves
    <2> QED
      BY <1>1, <2>2, ClosedForm, OverHonours
  <1> QED
    BY <1>3, <1>4

LEMMA AbortHonours ==
  ASSUME TypeInv, CallsInv, CallsInv', Synchronous, HonestInv, AbortReply \/ AbortEof
  PROVE  Honours /\ HonestInv'
  <1>1. pc \in {"abort1", "abort2"} /\ pc \in Moment /\ left' = left
    BY Zenon DEF AbortReply, AbortEof, Moment
  <1>2. CASE AbortReply
    <2> DEFINE f == [ftp EXCEPT !.full = Head(s2c).full]
    <2>1. s2c # <<>> /\ IF pc = "abort1" THEN Block(f, Tail(s2c), op, "abort2")
                        ELSE AbortDone(f, Tail(s2c))
      BY <1>2, Zenon DEF AbortReply
    <2>2. Good(f) /\ f.full = Head(s2c).full
      BY <1>1, <2>1, FullForm DEF Opening
    <2> HIDE DEF f
    <2>3. CASE pc = "abort1"
      <3>1. pc' \in Moment /\ Network(f, Tail(s2c), c2s)
        BY <2>1, <2>3, Zenon DEF Block, Moment
      <3>2. Verb("PWD").v # "MKD"
        BY VerbForm
      <3> QED
        BY <1>1, <3>1, <3>2, BusyHonours
    <2>4. CASE pc = "abort2"
      <3>1. ftp.ctrl /\ Due(Verb("ABOR"), c2s, s2c, srv)
        BY <2>4 DEF Synchronous
      <3>2. c2s = <<>> /\ Rest(Tail(s2c), srv) /\ Head(s2c).full \in {226, 421}
        BY <2>1, <3>1, AborOn
      <3>3. f.full \div 100 # 5
        BY <2>2, <3>2, Classes
      <3>4. Moved(f, Tail(s2c))
        BY <2>1, <2>2, <2>4, <3>3, AbortDoneMoves
      <3> QED
        BY <1>1, <3>2, <3>4, OverHonours
    <2> QED
      BY <1>1, <2>3, <2>4
  <1>3. CASE AbortEof
    <2>1. AbortDone(Close(ftp), <<>>)
      BY <1>3, Zenon DEF AbortEof
    <2>2. Close(ftp).full \div 100 # 5
      BY ClosedForm, Classes
    <2>3. Moved(Close(ftp), <<>>)
      BY <1>1, <2>1, <2>2, ClosedForm, AbortDoneMoves
    <2> QED
      BY <1>1, <2>3, ClosedForm, OverHonours
  <1> QED
    BY <1>2, <1>3

-----------------------------------------------------------------------------
(* Commands and signals.                                                   *)

LEMMA TypedHonours ==
  ASSUME TypeInv, TypeInv', CallsInv', HonestInv, pc = "prompt", Typed
  PROVE  Honours /\ HonestInv'
  <1>1. stack = <<>> /\ c2s \in Seq(CmdSet) /\ Unmade(c2s) /\ op.name = "none"
    BY DEF TypeInv, TypeOK, HonestInv, Honest
  <1>2. \A v : Verb(v).v = v
    BY VerbForm
  <1>3. CASE \E f, q : Prompt(f, q) \/ (UNCHANGED op /\ pc' = "crashed" /\ Network(f, q, c2s))
    <2> PICK f, q : Prompt(f, q) \/ (UNCHANGED op /\ pc' = "crashed" /\ Network(f, q, c2s))
      BY <1>3
    <2>1. /\ pc' \in {"prompt", "crashed"} /\ Network(f, q, c2s) /\ op' \in {op, NoOp}
          /\ pc' = "prompt" => op' = NoOp
      BY Zenon DEF Prompt
    <2>2. Unmade(c2s') /\ made' = made
      BY <1>1, <1>2, <2>1, UnmadeKept DEF Network
    <2> QED
      BY <1>1, <2>1, <2>2 DEF HonestInv, Honest, Honours, Left, NoOp
  <1>4. CASE Dialled
    <2> PICK f, o : Dial(f, o)
      BY <1>4 DEF Dialled
    <2>1. pc' = "connect" /\ stack' = <<>> /\ Network(f, s2c, c2s)
      BY Zenon DEF Dial
    <2>2. Unmade(c2s') /\ made' = made
      BY <1>1, <1>2, <2>1, UnmadeKept DEF Network
    <2>3. op'.name # "mkdir"
      BY <2>1 DEF CallsInv
    <2> QED
      BY <1>1, <2>1, <2>2, <2>3 DEF HonestInv, Honest, Honours, Left
  <1>5. CASE \E g, q, o, cmd, k : k \in Frames /\ cmd.v # "MKD" /\ Send(g, q, o, cmd, k)
    <2> PICK g, q, o, cmd, k : k \in Frames /\ cmd.v # "MKD" /\ Send(g, q, o, cmd, k)
      BY <1>5
    <2>1. /\ pc' = "cmd" /\ stack' = <<[cmd |-> cmd, recon |-> FALSE, k |-> k]>> \o <<>>
          /\ Network(g, q, Append(c2s, cmd))
      BY <1>1, Zenon DEF Send, Issue
    <2>2. Unmade(c2s') /\ made' = made
      BY <1>1, <2>1, UnmadeKept DEF Network
    <2>3. stack' # <<>> /\ Head(stack').k = k /\ Tail(stack') = <<>>
      BY <2>1
    <2>4. stack' \in Seq(Fitting) /\ Calls(stack', op')
      BY <2>1 DEF TypeInv, CallsInv
    <2>5. Owns(op', k) /\ k # "mkd"
      BY <2>3, <2>4, CallsForm DEF Frames
    <2>6. op'.name # "mkdir"
      BY <2>5 DEF Owns
    <2> QED
      BY <1>1, <2>1, <2>2, <2>3, <2>5, <2>6 DEF HonestInv, Honest, Honours, Left
  <1>6. CASE \E f, q, o : Block(f, q, o, "data")
    <2> PICK f, q, o : Block(f, q, o, "data")
      BY <1>6
    <2>1. pc' = "data" /\ Network(f, q, c2s)
      BY Zenon DEF Block
    <2>2. Unmade(c2s') /\ made' = made
      BY <1>1, <1>2, <2>1, UnmadeKept DEF Network
    <2>3. op'.name # "mkdir"
      BY <2>1 DEF CallsInv
    <2> QED
      BY <1>1, <2>1, <2>2, <2>3 DEF HonestInv, Honest, Honours, Left
  <1>7. Tail(stack) = <<>>
    BY <1>1
  <1>8. CASE Aborted
    BY <1>3, <1>8, Zenon DEF Aborted
  <1>9. CASE Continued
    <2> PICK g, q : Leave(g, q)
      BY <1>9, Zenon DEF Continued
    <2> QED
      BY <1>3, <1>5, <1>6, <1>7, Zenon DEF Leave
  <1> QED
    BY <1>4, <1>8, <1>9 DEF Typed

LEMMA MkdirHonours ==
  ASSUME TypeInv, TypeInv', Synchronous, HonestInv, OnceInv, UserMkdir
  PROVE  Honours /\ HonestInv'
  <1> DEFINE o == [NoOp EXCEPT !.name = "mkdir", !.dir = ftp.curdir]
             cmd == Cmd("MKD", ftp.curdir, MaxOps - left.ops + 1)
  <1>1. Type /\ LoggedIn(ftp) /\ Send(ftp, s2c, o, cmd, "mkd")
    BY Zenon DEF UserMkdir
  <1>2. pc' = "cmd" /\ ftp' = ftp /\ op' = o /\ Network(ftp, s2c, Append(c2s, cmd))
    BY <1>1, Zenon DEF Send, Issue
  <1>3. ftp.ctrl /\ Connected(ftp) /\ pc = "prompt"
    BY <1>1, TypeForm DEF LoggedIn, Connected
  <1>4. ~Yes(s2c)
    <2> Rest(s2c, srv)
      BY <1>3 DEF Synchronous, Idle
    <2> QED
      BY DEF Rest, Bye, Yes, Class
  <1>5. s2c' = s2c /\ made' = made
    BY <1>2, <1>3 DEF Network
  <1>6. Now' \in Serials /\ Now' > Now
    BY <1>1, TypeForm, SessionAssumption DEF Now, Serials
  <1>7. made[Now'] = 0
    BY <1>6 DEF OnceInv, MadeOnce
  <1>8. o.name = "mkdir" /\ o.dir = ftp.curdir /\ ftp.curdir \in Paths
    BY DEF NoOp, TypeInv, TypeOK, FtpSet
  <1>9. op.name = "none"
    BY <1>3 DEF HonestInv, Honest
  <1>10. HonestInv'
    BY <1>2, <1>3, <1>4, <1>5 DEF HonestInv, Honest
  <1> HIDE DEF o
  <1> QED
    BY <1>2, <1>5, <1>6, <1>7, <1>8, <1>9, <1>10 DEF Honours, Wished

LEMMA UserHonours ==
  ASSUME TypeInv, TypeInv', CallsInv', Synchronous, HonestInv, OnceInv, UserStep
  PROVE  Honours /\ HonestInv'
  <1>1. CASE UserMkdir
    BY <1>1, MkdirHonours
  <1>2. CASE \E d \in Dirs \cup {NoDir}, b \in BOOLEAN :
               \/ UserOpen(d) \/ UserReopen \/ UserUser \/ UserClose
               \/ (d \in Dirs /\ (UserCd(d) \/ UserLs(d))) \/ UserGet(b)
    <2> PICK d \in Dirs \cup {NoDir}, b \in BOOLEAN :
               \/ UserOpen(d) \/ UserReopen \/ UserUser \/ UserClose
               \/ (d \in Dirs /\ (UserCd(d) \/ UserLs(d))) \/ UserGet(b)
      BY <1>2, Zenon
    <2>1. Typed
      BY CommandForm
    <2>2. Type
      BY Zenon DEF UserOpen, UserReopen, UserUser, UserClose, UserCd, UserLs, UserGet
    <2> QED
      BY <2>1, <2>2, TypeForm, TypedHonours
  <1> QED
    BY <1>1, <1>2, Zenon DEF UserStep

LEMMA HungUp ==
  ASSUME TypeInv, HonestInv, NEW g, NEW q, LongJmp(g, q), Unmade(c2s) \/ ~g.ctrl,
         op.name = "mkdir" => g.full \div 100 # 2
  PROVE  Honours /\ HonestInv'
  <1>1. pc' = "prompt" /\ op' = NoOp /\ ftp' = g /\ Network(g, q, c2s)
    BY Zenon DEF LongJmp, Prompt
  <1>2. Unmade(c2s') /\ made' = made
    BY <1>1 DEF Network, Unmade
  <1> QED
    BY <1>1, <1>2 DEF HonestInv, Honest, Honours, Left, Ended, NoOp

LEMMA SignalHonours ==
  ASSUME TypeInv, CallsInv, HonestInv, ~Abandons, IntJmp \/ IntAbort \/ IntClose \/ Timeout
  PROVE  Honours /\ HonestInv'
  <1>0. left'.ops = left.ops
    BY SignalBudget
  <1>1. CASE UNCHANGED <<ftp, stack, pc, op, c2s, s2c, net>>
    BY <1>0, <1>1 DEF HonestInv, Honest, Honours, Left, Now, net
  <1>2. CASE LongJmp(Close(ftp), <<>>)
    <2> Close(ftp).full \div 100 # 2 /\ ~Close(ftp).ctrl
      BY ClosedForm
    <2> QED
      BY <1>2, HungUp
  <1>3. CASE IntJmp
    <2>1. /\ pc \in {"connect", "welcome"}
          /\ \/ LongJmp([ftp EXCEPT !.ctrl = FALSE], <<>>)
             \/ LongJmp(ftp, s2c)
      BY <1>3, Zenon DEF IntJmp
    <2>2. Unmade(c2s)
      BY <2>1 DEF HonestInv, Honest
    <2>3. op.name = "mkdir" => ftp.full \div 100 # 2
      BY <2>1 DEF HonestInv, Honest, CallsInv
    <2>4. [ftp EXCEPT !.ctrl = FALSE].full = ftp.full
      BY DEF TypeInv, TypeOK, FtpSet
    <2> DEFINE g == [ftp EXCEPT !.ctrl = FALSE]
    <2>5. g.full = ftp.full
      BY <2>4
    <2> HIDE DEF g
    <2>6. LongJmp(g, <<>>) \/ LongJmp(ftp, s2c)
      BY <2>1 DEF g
    <2> QED
      BY <2>2, <2>3, <2>5, <2>6, HungUp
  <1>4. CASE IntAbort
    <2>1. /\ pc = "cmd" /\ ftp.ctrl
          /\ \/ UNCHANGED <<ftp, stack, pc, op, c2s, s2c, net>>
             \/ \E n \in 0..Len(s2c) : LongJmp(ftp, SubSeq(s2c, n + 1, Len(s2c)))
             \/ LongJmp(Close(ftp), <<>>)
      BY <1>4, Zenon DEF IntAbort
    <2>2. Connected(ftp)
      BY <2>1 DEF TypeInv, Opening, Live, Connected
    <2>3. CASE \E n \in 0..Len(s2c) : LongJmp(ftp, SubSeq(s2c, n + 1, Len(s2c)))
      <3> pc' = "prompt" /\ ftp' = ftp
        BY <2>3, Zenon DEF LongJmp, Prompt
      <3> QED
        BY <1>4, <2>2 DEF Abandons, Connected
    <2> QED
      BY <1>1, <1>2, <2>1, <2>3
  <1>5. CASE IntClose \/ Timeout
    BY <1>1, <1>2, <1>5, Zenon DEF IntClose, Timeout
  <1> QED
    BY <1>3, <1>4, <1>5

-----------------------------------------------------------------------------
(* The server.                                                             *)

\* Where the server may execute an MKD, and what with.
LEMMA AtMkd ==
  ASSUME TypeInv, CallsInv, Synchronous, HonestInv, OnceInv, srv.up, c2s # <<>>, Next1.v = "MKD"
  PROVE  /\ pc = "cmd" /\ ftp.ctrl /\ s2c = <<>>
         /\ stack # <<>> /\ Head(stack).k = "mkd" /\ Head(stack).cmd = Next1
         /\ op.name = "mkdir" /\ Next1.n = Now /\ Now \in Serials /\ made[Now] = 0
         /\ Tail(stack) = <<>>
  <1>1. 1 \in DOMAIN c2s /\ c2s[1] = Next1
    <2> c2s \in Seq(CmdSet)
      BY DEF TypeInv, TypeOK
    <2> QED
      BY DEF Next1
  <1>2. pc = "cmd" /\ ftp.ctrl
    BY <1>1 DEF HonestInv, Honest, Unmade
  <1>3. Sends(Head(stack).cmd, c2s, srv) /\ s2c = <<>>
    BY <1>2 DEF Synchronous, Due, Answered
  <1>4. Head(stack).cmd = Next1
    BY <1>3 DEF Sends, Next1
  <1>5. stack # <<>> /\ stack \in Seq(Fitting) /\ Calls(stack, op)
    BY <1>2 DEF TypeInv, CallsInv
  <1>6. Speaks("MKD", Head(stack).k)
    BY <1>4, <1>5, CallsForm
  <1>7. Head(stack).k = "mkd"
    BY <1>6 DEF Speaks
  <1>8. Tail(stack) = <<>> /\ op.name = "mkdir"
    BY <1>5, <1>7, CallsForm DEF Logins, Owns
  <1>9. 1 \in DOMAIN stack /\ stack[1] = Head(stack)
    BY <1>5
  <1>10. Next1.n = Now
    BY <1>4, <1>7, <1>9 DEF OnceInv, MkdLast
  <1>11. Next1.n \in 1..Now /\ made[Next1.n] = 0
    BY <1>1 DEF OnceInv, SentOnce
  <1>12. Now \in Serials
    BY <1>10, <1>11, SessionAssumption DEF Serials, Now, TypeInv, TypeOK, LeftSet
  <1> QED
    BY <1>2, <1>3, <1>4, <1>5, <1>7, <1>8, <1>10, <1>11, <1>12

\* It executes it where the mkdir was typed.
LEMMA MkdPlace ==
  ASSUME TypeInv, CallsInv, Synchronous, HonestInv, OnceInv, WhereInv, Serving(srv), c2s # <<>>,
         Next1.v = "MKD", op.dir # BadDir
  PROVE  op.dir = srv.cwd \/ op.dir \in gone
  <1> DEFINE fr == Head(stack)
  <1>1. pc = "cmd" /\ ftp.ctrl /\ s2c = <<>> /\ stack # <<>> /\ fr.k = "mkd"
    BY AtMkd DEF Serving
  <1>2. Framed(fr, op) /\ Waits(ftp, stack, op, s2c, srv, gone)
    BY <1>1 DEF WhereInv, Where, Frames2
  <1>3. fr.cmd.a = op.dir
    BY <1>1, <1>2 DEF Framed
  <1>4. Placed(fr, ftp, op, s2c, srv, gone) /\ (~fr.recon => fr.cmd.a = ftp.curdir)
    BY <1>1, <1>2 DEF Waits, Places
  <1> HIDE DEF fr
  <1>5. Sits(ftp, srv, gone) /\ (fr.recon => ftp.curdir = fr.cmd.a \/ Lost(fr.cmd.a, gone))
    BY <1>1, <1>4 DEF Placed, Places
  <1> QED
    BY <1>3, <1>4, <1>5 DEF Sits, Lost

LEMMA SrvMkdHonours ==
  ASSUME TypeInv, CallsInv, Synchronous, HonestInv, OnceInv, WhereInv,
         op.name = "mkdir" => op.dir # BadDir, SrvMkd
  PROVE  Honours /\ HonestInv'
  <1>1. /\ srv.up /\ srv.auth /\ c2s # <<>> /\ Next1.v = "MKD" /\ c2s' = Tail(c2s)
        /\ UNCHANGED <<ftp, stack, pc, op, left>>
    BY Zenon DEF SrvMkd, Serves, Executes, client
  <1>2. /\ pc = "cmd" /\ ftp.ctrl /\ s2c = <<>> /\ op.name = "mkdir" /\ Next1.n = Now
        /\ Now \in Serials /\ made[Now] = 0 /\ made \in [Serials -> 0..2]
    BY <1>1, AtMkd DEF TypeInv, TypeOK
  <1>3. op.dir = srv.cwd \/ op.dir \in gone
    BY <1>1, <1>2, MkdPlace DEF Serving
  <1>4. CASE made' = [made EXCEPT ![Next1.n] = IF @ < 2 THEN @ + 1 ELSE @]
    <2>1. made' = [made EXCEPT ![Now] = 1] /\ made'[Now] = 1
      BY <1>2, <1>4
    <2>2. Now' = Now
      BY <1>1 DEF Now
    <2>3. HonestInv'
      BY <1>1, <1>2, <2>1, <2>2 DEF HonestInv, Honest
    <2>4. Granted
      BY <1>1, <1>2, <1>3, <2>1, <2>2 DEF Granted
    <2> QED
      BY <2>3, <2>4 DEF Honours
  <1>5. CASE Say(550, srv)
    <2>1. s2c' = Append(s2c, Reply(550, Next1.v, NoDir)) /\ made' = made
      BY <1>5, Zenon DEF Say, Answer
    <2>2. Head(s2c') = Reply(550, Next1.v, NoDir)
      BY <1>2, <2>1
    <2>3. ~Yes(s2c')
      BY <2>2 DEF Yes, Class, Reply
    <2> QED
      BY <1>1, <1>2, <2>1, <2>3 DEF HonestInv, Honest, Honours, Left, Now
  <1> QED
    BY <1>4, <1>5, Zenon DEF SrvMkd

\* What else it does makes nothing and answers no MKD with a success.
LEMMA ServedHonours ==
  ASSUME TypeInv, HonestInv, UNCHANGED <<ftp, stack, pc, op, left, made>>,
         c2s' = c2s \/ (c2s # <<>> /\ c2s' = Tail(c2s)),
         \/ pc = "cmd" /\ ftp.ctrl /\ Head(stack).k = "mkd" /\ Yes(s2c') => Yes(s2c)
  PROVE  Honours /\ HonestInv'
  <1>1. Unmade(c2s) => Unmade(c2s')
    <2> c2s \in Seq(CmdSet)
      BY DEF TypeInv, TypeOK
    <2> QED
      BY DEF Unmade
  <1>2. made'[Now'] = made[Now]
    BY DEF Now
  <1>3. HonestInv'
    BY <1>1, <1>2 DEF HonestInv, Honest
  <1> QED
    BY <1>3 DEF Honours, Left, Now

LEMMA OthersMade ==
  ASSUME \/ SrvUser \/ SrvPass \/ SrvDenies \/ SrvPwd \/ SrvCwd
         \/ SrvPasv \/ SrvType \/ SrvRest \/ SrvList \/ SrvRetr \/ SrvQuit \/ SrvAbor
         \/ XferEof \/ XferReply
  PROVE  made' = made
  <1>1. CASE SrvUser \/ SrvPass \/ SrvDenies
    BY <1>1, Zenon DEF SrvUser, SrvPass, SrvDenies, Say
  <1>2. CASE SrvPwd \/ SrvCwd \/ SrvPasv \/ SrvType \/ SrvRest \/ SrvQuit
    BY <1>2, Zenon DEF SrvPwd, SrvCwd, SrvPasv, SrvType, SrvRest, SrvQuit, Say
  <1>3. CASE SrvList
    BY <1>3, Zenon DEF SrvList, Say, Transfer
  <1>4. CASE SrvRetr
    BY <1>4, Zenon DEF SrvRetr, Say, Transfer
  <1>5. CASE SrvAbor \/ XferEof \/ XferReply
    BY <1>5, Zenon DEF SrvAbor, XferEof, XferReply
  <1> QED
    BY <1>1, <1>2, <1>3, <1>4, <1>5

\* An MKD that another command than SrvMkd meets is refused.
LEMMA OthersRefuse ==
  ASSUME TypeInv, CallsInv, Synchronous, pc = "cmd", ftp.ctrl, Head(stack).k = "mkd",
         s2c = <<>>,
         \/ SrvUser \/ SrvPass \/ SrvDenies \/ SrvPwd \/ SrvCwd
         \/ SrvPasv \/ SrvType \/ SrvRest \/ SrvList \/ SrvRetr \/ SrvQuit \/ SrvAbor
         \/ XferEof \/ XferReply
  PROVE  ~Yes(s2c')
  <1>1. srv.up
    <2>1. \A v : Executes(v) => srv.up
      BY Zenon DEF Executes
    <2>2. CASE SrvUser \/ SrvPass \/ SrvDenies \/ SrvPwd \/ SrvCwd \/ SrvPasv \/ SrvType \/ SrvRest
      BY <2>1, <2>2, Zenon DEF SrvUser, SrvPass, SrvDenies, SrvPwd, SrvCwd, SrvPasv, SrvType,
                               SrvRest, Serves
    <2>3. CASE SrvList \/ SrvRetr \/ SrvQuit \/ SrvAbor \/ XferEof \/ XferReply
      BY <2>1, <2>3, Zenon DEF SrvList, SrvRetr, SrvQuit, SrvAbor, Serves, XferEof, XferReply
    <2> QED
      BY <2>2, <2>3
  <1>2. Sends(Head(stack).cmd, c2s, srv) /\ ~srv.xfer
    BY <1>1 DEF Synchronous, Due, Answered, Replied
  <1>3. Speaks(Head(stack).cmd.v, Head(stack).k)
    <2> stack # <<>> /\ stack \in Seq(Fitting) /\ Calls(stack, op)
      BY DEF TypeInv, CallsInv
    <2> QED
      BY CallsForm
  <1>4. Next1.v = "MKD"
    BY <1>2, <1>3 DEF Sends, Next1, Speaks
  <1>5. \A v : Executes(v) => v = "MKD"
    BY <1>4, Zenon DEF Executes
  <1>6. SrvDenies \/ XferEof \/ XferReply
    <2>1. ~Executes("USER") /\ ~Executes("PASS") /\ ~Executes("PWD") /\ ~Executes("CWD")
          /\ ~Executes("PASV") /\ ~Executes("TYPE") /\ ~Executes("REST") /\ ~Executes("MLSD")
          /\ ~Executes("LIST") /\ ~Executes("RETR") /\ ~Executes("QUIT") /\ ~Executes("ABOR")
      BY <1>5
    <2> QED
      BY <2>1, Zenon DEF SrvUser, SrvPass, SrvPwd, SrvCwd, SrvPasv, SrvType,
                         SrvRest, SrvList, SrvRetr, SrvQuit, SrvAbor, Serves
  <1>7. ~XferEof /\ ~XferReply
    BY <1>2, Zenon DEF XferEof, XferReply
  <1>8. Say(530, srv)
    BY <1>6, <1>7, Zenon DEF SrvDenies
  <1>9. s2c' = Append(s2c, Reply(530, Next1.v, NoDir))
    BY <1>8, Zenon DEF Say, Answer
  <1>10. Head(s2c') = Reply(530, Next1.v, NoDir)
    BY <1>9
  <1> QED
    BY <1>10 DEF Yes, Class, Reply

LEMMA ServerHonours ==
  ASSUME TypeInv, CallsInv, Synchronous, HonestInv, OnceInv, WhereInv,
         op.name = "mkdir" => op.dir # BadDir, ServerStep
  PROVE  Honours /\ HonestInv'
  <1>1. CASE SrvMkd
    BY <1>1, SrvMkdHonours
  <1>2. CASE \/ SrvUser \/ SrvPass \/ SrvDenies \/ SrvPwd \/ SrvCwd
             \/ SrvPasv \/ SrvType \/ SrvRest \/ SrvList \/ SrvRetr \/ SrvQuit \/ SrvAbor
             \/ XferEof \/ XferReply
    <2>1. Served
      BY ServerForm
    <2>2. /\ UNCHANGED <<ftp, stack, pc, op, left>>
          /\ c2s' = c2s \/ (c2s # <<>> /\ c2s' = Tail(c2s))
      BY <2>1, Zenon DEF Served, client
    <2>3. made' = made
      BY <1>2, OthersMade
    <2>4. ASSUME pc = "cmd", ftp.ctrl, Head(stack).k = "mkd", Yes(s2c')
          PROVE  Yes(s2c)
      <3>1. CASE s2c = <<>>
        BY <1>2, <2>4, <3>1, OthersRefuse
      <3>2. CASE s2c # <<>>
        <4> PICK a \in Seq(ReplySet) : s2c' = s2c \o a
          BY <2>1 DEF Served
        <4> s2c \in Seq(ReplySet)
          BY DEF TypeInv, TypeOK
        <4> Head(s2c') = Head(s2c)
          BY <3>2
        <4> QED
          BY <2>4, <3>2 DEF Yes
      <3> QED
        BY <3>1, <3>2
    <2> QED
      BY <2>2, <2>3, <2>4, ServedHonours
  <1> QED
    BY <1>1, <1>2, Zenon DEF ServerStep

LEMMA DropHonours ==
  ASSUME TypeInv, HonestInv, SrvDrop
  PROVE  Honours /\ HonestInv'
  <1>1. /\ c2s' = <<>> /\ UNCHANGED <<ftp, stack, pc, op, made>> /\ left'.ops = left.ops
        /\ Cut(s2c, s2c')
    BY DropForm DEF Cut, Bow
  <1>2. s2c \in Seq(ReplySet)
    BY DEF TypeInv, TypeOK
  <1>3. ~(Class(Bow) = 2)
    BY BowForm DEF Class
  <1>4. Yes(s2c') => Yes(s2c)
    BY <1>1, <1>2, <1>3, CutForm DEF Yes
  <1>5. made'[Now'] = made[Now] /\ Now' = Now
    BY <1>1 DEF Now
  <1> QED
    BY <1>1, <1>4, <1>5 DEF HonestInv, Honest, Unmade, Honours, Left

-----------------------------------------------------------------------------
(* The promise.                                                            *)

LEMMA ClientHonours ==
  ASSUME Agreed, CallsInv', HonestInv, ~LocalFails, ClientStep
  PROVE  Honours /\ HonestInv'
  <1>1. TypeInv /\ CallsInv /\ Synchronous
    BY DEF Agreed
  <1>2. CASE CmdReply \/ CmdEof \/ CmdNoCtrl
    BY <1>1, <1>2, CmdReplyHonours, CmdLostHonours
  <1>3. CASE ConnectOk \/ ConnectFail \/ Welcome
    BY <1>1, <1>3, ConnectHonours
  <1>4. CASE RecvEnd \/ RecvBreak \/ AbortPending \/ SendAbor \/ Drained
    BY <1>1, <1>4, DataHonours
  <1>5. CASE FinalReply \/ FinalEof \/ AbortReply \/ AbortEof
    BY <1>1, <1>5, FinalHonours, AbortHonours
  <1> QED
    BY <1>2, <1>3, <1>4, <1>5, Zenon DEF ClientStep

LEMMA HonestInit ==
  ASSUME Init
  PROVE  HonestInv
  <1> pc = "prompt" /\ op = NoOp /\ c2s = <<>>
    BY Zenon DEF Init
  <1> QED
    BY DEF HonestInv, Honest, Unmade, NoOp

LEMMA HonestStep ==
  ASSUME ~LocalFails, Agreed, Agreed', WhereInv, OnceInv, HonestInv, [Next]_vars, [~Abandons]_vars,
         op.name = "mkdir" => op.dir # BadDir
  PROVE  Honours /\ HonestInv'
  <1>1. TypeInv /\ CallsInv /\ Synchronous /\ TypeInv' /\ CallsInv'
    BY DEF Agreed
  <1>2. CASE UNCHANGED vars
    BY <1>2 DEF HonestInv, Honest, Honours, Left, Now, vars
  <1>3. CASE UserStep
    BY <1>1, <1>3, UserHonours
  <1>4. CASE ClientStep
    BY <1>1, <1>4, ClientHonours
  <1>5. CASE ServerStep
    BY <1>1, <1>5, ServerHonours
  <1>6. CASE ~Abandons /\ (IntJmp \/ IntAbort \/ IntClose \/ Timeout)
    BY <1>1, <1>6, SignalHonours
  <1>7. CASE SrvDrop
    BY <1>1, <1>7, DropHonours
  <1>8. CASE \E d \in Dirs : RemoveDir(d)
    <2> UNCHANGED <<ftp, stack, pc, op, c2s, s2c, made, left>>
      BY <1>8, Zenon DEF RemoveDir, client
    <2> QED
      BY DEF HonestInv, Honest, Honours, Left, Now
  <1>9. CASE Quiet
    BY <1>2, <1>9, Zenon DEF Quiet
  <1> QED
    BY <1>2, <1>3, <1>4, <1>5, <1>6, <1>7, <1>8, <1>9, Zenon DEF Next

(* ftp_mkdir_verb implements RequestReply: however often a reconnect sends  *)
(* the MKD again, the directory is made at most once, where mkdir was      *)
(* typed, and the user sees a success only if it was made.  Set apart are  *)
(* what PlaceIsKnown sets apart, and a mkdir typed while yafc shows "CWD?":*)
(* it does not know where it is then, and a reconnect leaves it at home.   *)
THEOREM MkdirKeepsItsPromise ==
  ASSUME ~LocalFails, Somewhere
  PROVE  /\ Spec /\ [][~Abandons]_vars /\ []Single
         /\ [](op.name = "mkdir" => op.dir # BadDir)
         => MkdirServed
  <1> DEFINE Known == op.name = "mkdir" => op.dir # BadDir
             All == Agreed /\ WhereInv /\ OnceInv /\ HonestInv
  <1>1. Init => All
    BY AgreedInit, WhereInit, OnceInit, HonestInit DEF Agreed
  <1>2. All /\ Single /\ Single' /\ Known /\ [Next]_vars /\ [~Abandons]_vars => All' /\ Honours
    <2> SUFFICES ASSUME All, Single, Single', Known, [Next]_vars, [~Abandons]_vars
                 PROVE  All' /\ Honours
      OBVIOUS
    <2>1. Agreed'
      BY AgreedStep
    <2>2. WhereInv'
      BY WhereStep
    <2>3. OnceInv'
      BY OnceStep DEF Agreed
    <2> QED
      BY <2>1, <2>2, <2>3, HonestStep
  <1>3. Init => Mkdir!Init
    BY DEF Init, NoOp, Mkdir!Init
  <1>4. All /\ All' /\ Honours =>
          [Mkdir!Next]_<<IF op.name = "mkdir" THEN [n |-> MaxOps - left.ops, place |-> op.dir]
                         ELSE NoDir, made>>
    BY HonoursStep DEF Agreed
  <1> HIDE DEF All, Known
  <1>5. Spec /\ [][~Abandons]_vars /\ []Single /\ []Known => MkdirServed
    BY <1>1, <1>2, <1>3, <1>4, PTL DEF Spec, MkdirServed, Mkdir!Spec
  <1> QED
    BY <1>5 DEF Known

-----------------------------------------------------------------------------
(* What a get receives.                                                    *)

Intact(o, d) == d.kind = "retr" /\ d.type = "I" /\ d.rest = o.resume
Armed(s) == s.up /\ s.auth /\ s.data

\* A client that has seen TYPE I accepted talks to a server in image type.
Image(f, s) == f.ctrl /\ s.up /\ f.type = "I" => s.type = "I"

\* The server is ready for the RETR, or for the REST before it.
Ready(k, o, s) ==
  k \in {"getRest", "getRetr"} /\ Armed(s) =>
     s.type = "I" /\ (k = "getRetr" => s.rest = o.resume)

\* A reply r that is read says how far the preparation has come.
Arrived(k, o, r, s, d) ==
  /\ k \in {"getPasv", "getType"} /\ s.up => ~s.rest
  /\ k = "getType" /\ s.up /\ (Class(r) = 2 \/ Armed(s)) => s.type = "I"
  /\ k \in {"getRest", "getRetr"} /\ Armed(s) => s.type = "I"
  /\ k = "getRest" /\ s.up /\ Class(r) = 3 => s.rest
  /\ k = "getRetr" /\ Class(r) = 1 => Intact(o, d)

\* A get waits for a reply.  A reconnect has no port to receive at: the RETR
\* that it sends again is refused.
Fetches(k, o, q, s, d) == IF q = <<>> THEN Ready(k, o, s) ELSE Arrived(k, o, Head(q), s, d)

Carry(p, f, st, o, q, s, d) ==
  /\ Image(f, s)
  /\ p = "welcome" /\ f.ctrl /\ s.up => ~s.data
  /\ p = "cmd" /\ f.ctrl => /\ Tail(st) # <<>> /\ s.up => ~s.data
                            /\ Fetches(Head(st).k, o, q, s, d)
  /\ p = "data" /\ o.name = "get" => Intact(o, d)
CarryInv == Carry(pc, ftp, stack, op, s2c, srv, dconn)

-----------------------------------------------------------------------------
(* Where a step may land.                                                  *)

LEMMA RestFetches ==
  ASSUME NEW q, NEW s, Rest(q, s), NEW k, NEW o, NEW d, Ready(k, o, s)
  PROVE  Fetches(k, o, q, s, d)
  <1>1. CASE q = <<>>
    BY <1>1 DEF Fetches
  <1>2. CASE q # <<>>
    <2> ~s.up /\ Head(q).full = 421
      BY <1>2 DEF Rest, Bye
    <2> Class(Head(q)) # 1
      BY Classes DEF Class
    <2> QED
      BY <1>2 DEF Fetches, Arrived, Armed
  <1> QED
    BY <1>1, <1>2

LEMMA FlushType ==
  ASSUME NEW f, Good(f)
  PROVE  Flush(f).type = f.type /\ Flush(f).ctrl = f.ctrl
  BY DEF Good, FtpOK, FtpSet, Flush

LEMMA NetworkImage ==
  ASSUME NEW g, NEW q, NEW c, Network(g, q, c), g.ctrl => Image(g, srv)
  PROVE  /\ Image(g, srv')
         /\ dconn' = dconn
         /\ g.ctrl => s2c' = q /\ srv' = srv
  BY DEF Network, Image

\* Neither in ftp_cmd nor where data arrives.
LEMMA AsideCarry ==
  ASSUME pc' \notin {"welcome", "cmd", "data"}, Image(ftp', srv')
  PROVE  CarryInv'
  BY DEF CarryInv, Carry

LEMMA PromptCarry ==
  ASSUME NEW g, NEW q, Prompt(g, q), g.ctrl => Image(g, srv)
  PROVE  CarryInv'
  <1> pc' = "prompt" /\ ftp' = g /\ Network(g, q, c2s)
    BY Zenon DEF Prompt
  <1> QED
    BY NetworkImage, AsideCarry

LEMMA EndCarry ==
  ASSUME NEW f, Good(f), NEW q, EndCmd(f, q), f.ctrl => Image(f, srv)
  PROVE  CarryInv'
  <1> DEFINE g == Flush(f)
  <1>1. g.type = f.type /\ g.ctrl = f.ctrl /\ Prompt(g, q)
    BY FlushType, Zenon DEF EndCmd
  <1> HIDE DEF g
  <1> QED
    BY <1>1, PromptCarry DEF Image

LEMMA LandCarry ==
  ASSUME NEW g, NEW q, NEW c, NEW fr, NEW below \in Seq(Fitting),
         ftp' = g, stack' = <<fr>> \o below, pc' = "cmd", Network(g, q, c),
         g.ctrl => Rest(q, srv) /\ Image(g, srv) /\ Ready(fr.k, op', srv),
         g.ctrl /\ srv.up /\ below # <<>> => ~srv.data
  PROVE  CarryInv'
  <1>1. Head(stack') = fr /\ Tail(stack') = below
    BY FrameHead
  <1>2. Image(g, srv') /\ (g.ctrl => s2c' = q /\ srv' = srv)
    BY NetworkImage
  <1>3. g.ctrl => Fetches(fr.k, op', q, srv, dconn')
    BY RestFetches
  <1> QED
    BY <1>1, <1>2, <1>3 DEF CarryInv, Carry

LEMMA SendCarry ==
  ASSUME stack \in Seq(Fitting), NEW g, NEW q, NEW o, NEW cmd, NEW k, Send(g, q, o, cmd, k),
         g.ctrl => Rest(q, srv) /\ Image(g, srv) /\ Ready(k, o, srv),
         g.ctrl /\ srv.up /\ stack # <<>> /\ Tail(stack) # <<>> => ~srv.data
  PROVE  CarryInv'
  <1> DEFINE below == IF stack = <<>> THEN <<>> ELSE Tail(stack)
             fr == [cmd |-> cmd, recon |-> FALSE, k |-> k]
  <1>1. /\ ftp' = g /\ op' = o /\ stack' = <<fr>> \o below /\ pc' = "cmd"
        /\ Network(g, q, Append(c2s, cmd))
    BY Zenon DEF Send, Issue
  <1>2. below \in Seq(Fitting)
    BY Unstacked
  <1>3. below # <<>> => stack # <<>> /\ Tail(stack) # <<>>
    OBVIOUS
  <1>4. fr.k = k
    OBVIOUS
  <1> HIDE DEF below, fr
  <1> QED
    BY <1>1, <1>2, <1>3, <1>4, LandCarry

\* Nothing can be received on a session that a reconnect has just opened.
LEMMA ResendCarry ==
  ASSUME NEW g, NEW q, NEW frames \in Seq(Fitting), frames # <<>>, Resend(g, q, frames),
         g.ctrl => Rest(q, srv) /\ Image(g, srv),
         g.ctrl /\ srv.up => ~srv.data
  PROVE  CarryInv'
  <1>1. PICK again : \E c : /\ ftp' = g /\ stack' = <<again>> \o Tail(frames) /\ pc' = "cmd"
                            /\ Network(g, q, c)
    BY Zenon DEF Resend
  <1>2. PICK c : /\ ftp' = g /\ stack' = <<again>> \o Tail(frames) /\ pc' = "cmd"
                 /\ Network(g, q, c)
    BY <1>1
  <1> DEFINE below == Tail(frames)
  <1>3. below \in Seq(Fitting) /\ stack' = <<again>> \o below
    BY <1>2, Unstacked
  <1> HIDE DEF below
  <1>4. g.ctrl => Ready(again.k, op', srv)
    BY DEF Ready, Armed
  <1> QED
    BY <1>2, <1>3, <1>4, LandCarry

\* No step but the reply to TYPE changes what the client knows of the type, and
\* only a get prepares a transfer.
LEMMA MovedCarry ==
  ASSUME stack \in Seq(Fitting), stack # <<>>, Head(stack).k # "getType",
         op.name = "get" => Head(stack).k \in Logins,
         NEW f, NEW q, Moved(f, q), f.ctrl => Rest(q, srv) /\ Image(f, srv),
         f.ctrl /\ srv.up /\ Tail(stack) # <<>> => ~srv.data
  PROVE  CarryInv'
  <1> PICK g : /\ Keeps(g, f)
               /\ \/ Prompt(g, q)
                  \/ \E o, cmd, k : Follows(o, cmd, k) /\ Send(g, q, o, cmd, k)
                  \/ Tail(stack) # <<>> /\ Resend(g, q, Tail(stack))
                  \/ pc' = "crashed" /\ ftp' = g /\ Network(g, q, c2s) /\ UNCHANGED <<stack, op>>
    BY Zenon DEF Moved
  <1>1. g.ctrl => f.ctrl /\ Rest(q, srv) /\ Image(g, srv)
    BY DEF Keeps, Image
  <1>2. CASE Prompt(g, q)
    BY <1>1, <1>2, PromptCarry
  <1>3. CASE \E o, cmd, k : Follows(o, cmd, k) /\ Send(g, q, o, cmd, k)
    <2> PICK o, cmd, k : Follows(o, cmd, k) /\ Send(g, q, o, cmd, k)
      BY <1>3, Zenon
    <2>1. k \notin Gets
      BY DEF Follows, Gets, Logins
    <2>2. Ready(k, o, srv)
      BY <2>1 DEF Ready, Gets
    <2> QED
      BY <1>1, <2>2, SendCarry
  <1>4. CASE Tail(stack) # <<>> /\ Resend(g, q, Tail(stack))
    <2> DEFINE t == Tail(stack)
    <2>1. t \in Seq(Fitting) /\ t # <<>> /\ Resend(g, q, t) /\ (g.ctrl /\ srv.up => ~srv.data)
      BY <1>1, <1>4, Unstacked
    <2> HIDE DEF t
    <2> QED
      BY <1>1, <2>1, ResendCarry
  <1>5. CASE pc' = "crashed" /\ ftp' = g /\ Network(g, q, c2s) /\ UNCHANGED <<stack, op>>
    BY <1>1, <1>5, NetworkImage, AsideCarry
  <1> QED
    BY <1>2, <1>3, <1>4, <1>5

-----------------------------------------------------------------------------
(* What the caller of ftp_cmd does next.                                   *)

LEMMA RetrieveCarry ==
  ASSUME stack \in Seq(Fitting), Tail(stack) = <<>>, op \in OpSet, srv \in SrvSet,
         NEW g, NEW q, Retrieve(g, q),
         g.ctrl => Rest(q, srv) /\ Image(g, srv) /\ (Armed(srv) => srv.type = "I"),
         g.ctrl /\ srv.up => ~srv.rest
  PROVE  CarryInv'
  <1>1. CASE op.resume /\ Send(g, q, op, Verb("REST"), "getRest")
    <2> g.ctrl => Ready("getRest", op, srv)
      BY DEF Ready
    <2> QED
      BY <1>1, SendCarry
  <1>2. CASE ~op.resume /\ Send(g, q, op, Verb("RETR"), "getRetr")
    <2> g.ctrl /\ srv.up => srv.rest = op.resume
      BY <1>2 DEF OpSet, SrvSet
    <2> g.ctrl => Ready("getRetr", op, srv)
      BY DEF Ready, Armed
    <2> QED
      BY <1>2, SendCarry
  <1> QED
    BY <1>1, <1>2, Zenon DEF Retrieve

\* The dialogue of ftp_init_receive.
LEMMA GetCarry ==
  ASSUME stack \in Seq(Fitting), Tail(stack) = <<>>, op \in OpSet, srv \in SrvSet,
         NEW f, Good(f), NEW q, NEW r, NEW k, k = "getRest" => op.resume,
         \/ k = "getPasv" /\ AfterGetPasv(f, q, r)
         \/ k = "getType" /\ AfterType(f, q, r)
         \/ k = "getRest" /\ AfterRest(f, q, r)
         \/ k = "getRetr" /\ EndCmd(f, q),
         f.ctrl => Rest(q, srv) /\ Image(f, srv) /\ Arrived(k, op, r, srv, dconn)
  PROVE  CarryInv'
  <1>1. CASE k = "getPasv" /\ AfterGetPasv(f, q, r)
    <2>1. CASE f.type = "I" /\ Retrieve(f, q)
      <3> f.ctrl => (Armed(srv) => srv.type = "I") /\ (srv.up => ~srv.rest)
        BY <1>1, <2>1 DEF Image, Armed, Arrived
      <3> QED
        BY <2>1, RetrieveCarry
    <2>2. CASE Send(f, q, op, Verb("TYPE"), "getType")
      <3> Ready("getType", op, srv)
        BY DEF Ready
      <3> QED
        BY <2>2, SendCarry
    <2>3. CASE EndCmd(NoMorePasv(f), q)
      <3> DEFINE g == NoMorePasv(f)
      <3>1. Good(g) /\ Alike(g, f)
        BY NoMorePasvForm, AlikeForms
      <3> HIDE DEF g
      <3>2. g.ctrl => Image(g, srv)
        BY <3>1 DEF Alike, Image
      <3> QED
        BY <2>3, <3>1, <3>2, EndCarry DEF g
    <2> QED
      BY <1>1, <2>1, <2>2, <2>3, Zenon DEF AfterGetPasv
  <1>2. CASE k = "getType" /\ AfterType(f, q, r)
    <2> PICK g : g = (IF Class(r) = 2 THEN [f EXCEPT !.type = "I"] ELSE f) /\ Retrieve(g, q)
      BY <1>2, Zenon DEF AfterType
    <2>1. g.ctrl = f.ctrl /\ (g.type = "I" => Class(r) = 2 \/ f.type = "I")
      BY DEF Good, FtpOK, FtpSet
    <2>2. f.ctrl => /\ srv.up => ~srv.rest
                    /\ srv.up /\ (Class(r) = 2 \/ Armed(srv)) => srv.type = "I"
      BY <1>2 DEF Arrived
    <2>3. g.ctrl => Rest(q, srv) /\ Image(g, srv) /\ (Armed(srv) => srv.type = "I")
      BY <2>1, <2>2 DEF Image, Armed
    <2> QED
      BY <2>1, <2>2, <2>3, RetrieveCarry
  <1>3. CASE k = "getRest" /\ AfterRest(f, q, r)
    <2>1. CASE EndCmd(f, q)
      BY <2>1, EndCarry
    <2>2. CASE Class(r) = 3 /\ Send(f, q, op, Verb("RETR"), "getRetr")
      <3>1. op.resume = TRUE
        BY <1>3 DEF OpSet
      <3>2. f.ctrl /\ Armed(srv) => srv.type = "I" /\ srv.rest = TRUE
        BY <1>3, <2>2 DEF Arrived, Armed, SrvSet
      <3>3. f.ctrl => Ready("getRetr", op, srv)
        BY <3>1, <3>2 DEF Ready
      <3> QED
        BY <2>2, <3>3, SendCarry
    <2> QED
      BY <1>3, <2>1, <2>2, Zenon DEF AfterRest
  <1>4. CASE k = "getRetr" /\ EndCmd(f, q)
    BY <1>4, EndCarry
  <1> QED
    BY <1>1, <1>2, <1>3, <1>4

LEMMA ContinueCarry ==
  ASSUME TypeInv, CallsInv, pc = "cmd", ~LocalFails, NEW f, Good(f), NEW q, NEW r \in ReplySet,
         Continue(f, q, r), Starts(r) => f.ctrl,
         f.ctrl => /\ ~Starts(r) => Rest(q, srv)
                   /\ Image(f, srv) /\ Arrived(Head(stack).k, op, r, srv, dconn)
                   /\ srv.up /\ Tail(stack) # <<>> => ~srv.data
  PROVE  CarryInv'
  <1> DEFINE k == Head(stack).k
  <1>1. /\ stack \in Seq(Fitting) /\ stack # <<>> /\ Calls(stack, op) /\ op \in OpSet
        /\ srv \in SrvSet
    BY DEF TypeInv, TypeOK, CallsInv
  <1>2. IF Tail(stack) = <<>> THEN Owns(op, k) ELSE k \in Logins
    BY <1>1, CallsForm
  <1>3. IF Starts(r) THEN Block(f, q, op, "data") ELSE Moved(f, q)
    BY <1>1, ContinueMoves
  <1>4. CASE Starts(r)
    <2>1. pc' = "data" /\ op' = op /\ ftp' = f /\ Network(f, q, c2s)
      BY <1>3, <1>4, Zenon DEF Block
    <2>2. Image(f, srv') /\ dconn' = dconn
      BY <2>1, NetworkImage
    <2>3. Class(r) = 1 /\ k \in Transfers
      BY <1>4 DEF Starts
    <2>4. op.name = "get" => k = "getRetr"
      BY <1>2, <2>3 DEF Owns, Transfers, Logins
    <2>5. op.name = "get" => Intact(op, dconn)
      BY <1>4, <2>3, <2>4 DEF Arrived
    <2> QED
      BY <2>1, <2>2, <2>5 DEF CarryInv, Carry
  <1>5. CASE ~Starts(r) /\ k \in Gets
    <2>1. k \notin Logins /\ k \notin {"user", "pass", "homePwd", "loginCwd", "loginCwdPwd",
             "cdCwd", "cdPwd", "lsCwd", "lsPasv", "lsList", "lsBack", "mkd", "quit"}
      BY <1>5 DEF Gets, Logins
    <2>2. Tail(stack) = <<>> /\ (k = "getRest" => op.resume)
      BY <1>2, <2>1 DEF Owns
    <2>3. \/ k = "getPasv" /\ AfterGetPasv(f, q, r)
          \/ k = "getType" /\ AfterType(f, q, r)
          \/ k = "getRest" /\ AfterRest(f, q, r)
          \/ k = "getRetr" /\ AfterRetr(f, q, r)
      BY <2>1, Zenon DEF Continue
    <2>4. k = "getRetr" => Class(r) # 1
      BY <1>5 DEF Starts, Transfers
    <2>5. k = "getRetr" /\ AfterRetr(f, q, r) => EndCmd(f, q)
      BY <2>4, Zenon DEF AfterRetr
    <2>6. \/ k = "getPasv" /\ AfterGetPasv(f, q, r)
          \/ k = "getType" /\ AfterType(f, q, r)
          \/ k = "getRest" /\ AfterRest(f, q, r)
          \/ k = "getRetr" /\ EndCmd(f, q)
      BY <2>3, <2>5, Zenon
    <2>7. f.ctrl => Rest(q, srv) /\ Image(f, srv) /\ Arrived(k, op, r, srv, dconn)
      BY <1>5
    <2> HIDE DEF k
    <2> QED
      BY <1>1, <2>2, <2>6, <2>7, GetCarry
  <1>6. CASE ~Starts(r) /\ k \notin Gets
    <2>1. k # "getType" /\ (op.name = "get" => k \in Logins)
      BY <1>2, <1>6 DEF Owns, Gets
    <2>2. Moved(f, q) /\ (f.ctrl => Rest(q, srv))
      BY <1>3, <1>6
    <2> QED
      BY <1>1, <2>1, <2>2, MovedCarry
  <1> QED
    BY <1>4, <1>5, <1>6

LEMMA CmdReplyCarry ==
  ASSUME TypeInv, CallsInv, Synchronous, CarryInv, ~LocalFails, CmdReply
  PROVE  CarryInv'
  <1> DEFINE r == Head(s2c)
             f == [ftp EXCEPT !.full = Head(s2c).full]
  <1>1. pc = "cmd" /\ ftp.ctrl /\ s2c # <<>>
    BY Zenon DEF CmdReply
  <1>2. r \in ReplySet /\ Good(f) /\ Alike(f, ftp)
    BY <1>1, FullForm DEF Opening
  <1>3. IF Starts(r) THEN Moving(Tail(s2c), srv) ELSE Rest(Tail(s2c), srv)
    BY <1>1, ReplyForm DEF Synchronous
  <1>4. \/ ftp' = f /\ pc' = "connect" /\ Network(f, Tail(s2c), c2s)
        \/ Continue(f, Tail(s2c), r)
    BY Zenon DEF CmdReply
  <1>5. /\ Image(ftp, srv) /\ Arrived(Head(stack).k, op, r, srv, dconn)
        /\ srv.up /\ Tail(stack) # <<>> => ~srv.data
    BY <1>1 DEF CarryInv, Carry, Fetches
  <1> HIDE DEF r, f
  <1>6. Image(f, srv) /\ f.ctrl
    BY <1>1, <1>2, <1>5 DEF Alike, Image
  <1>7. CASE Continue(f, Tail(s2c), r)
    BY <1>1, <1>2, <1>3, <1>5, <1>6, <1>7, ContinueCarry
  <1>8. CASE ftp' = f /\ pc' = "connect" /\ Network(f, Tail(s2c), c2s)
    BY <1>6, <1>8, NetworkImage, AsideCarry
  <1> QED
    BY <1>4, <1>7, <1>8

LEMMA CmdLostCarry ==
  ASSUME TypeInv, CallsInv, ~LocalFails, CmdEof \/ CmdNoCtrl
  PROVE  CarryInv'
  <1>1. pc = "cmd"
    BY Zenon DEF CmdEof, CmdNoCtrl
  <1>2. \E f : Good(f) /\ ~f.ctrl /\ Continue(f, <<>>, NoReply)
    <2>1. CASE CmdEof
      BY <2>1, ClosedForm, Zenon DEF CmdEof
    <2>2. CASE CmdNoCtrl
      <3> DEFINE f == [ftp EXCEPT !.full = 0]
      <3>1. ~ftp.ctrl /\ Continue(f, <<>>, NoReply)
        BY <2>2, Zenon DEF CmdNoCtrl
      <3>2. Good(ftp) /\ 0 \in Codes
        BY <1>1 DEF TypeInv, Good, Opening, Codes
      <3>3. Good(f) /\ Alike(f, ftp)
        BY <3>2, FieldForms, AlikeForms
      <3> HIDE DEF f
      <3> QED
        BY <3>1, <3>3 DEF Alike
    <2> QED
      BY <2>1, <2>2
  <1> PICK f : Good(f) /\ ~f.ctrl /\ Continue(f, <<>>, NoReply)
    BY <1>2
  <1> QED
    BY <1>1, NoReplyTyped, NoReplyForm, ContinueCarry

-----------------------------------------------------------------------------
(* The connection.                                                         *)

LEMMA OpenFailedCarry ==
  ASSUME TypeInv, OpenFailed(Close(ftp))
  PROVE  CarryInv'
  <1> DEFINE f == Close(ftp)
  <1>1. Good(f) /\ ~f.ctrl /\ stack \in Seq(Fitting)
    BY ClosedForm DEF TypeInv
  <1> HIDE DEF f
  <1>2. \/ stack = <<>> /\ EndCmd(f, <<>>)
        \/ stack # <<>> /\ Resend(f, <<>>, stack)
    BY Zenon DEF OpenFailed, f
  <1> QED
    BY <1>1, <1>2, EndCarry, ResendCarry

LEMMA ConnectCarry ==
  ASSUME TypeInv, Synchronous, CarryInv, ConnectOk \/ ConnectFail \/ Welcome
  PROVE  CarryInv'
  <1>1. CASE ConnectFail
    BY <1>1, OpenFailedCarry, Zenon DEF ConnectFail
  <1>2. CASE ConnectOk
    <2>1. /\ srv' = NewSession \/ srv' = Down
          /\ ftp' = [ftp EXCEPT !.ctrl = TRUE, !.type = "?"]
      BY <1>2, Zenon DEF ConnectOk
    <2>2. ftp'.type = "?"
      BY <2>1 DEF TypeInv, TypeOK, FtpSet
    <2>3. ~srv'.data
      BY <2>1 DEF NewSession, Down
    <2>4. pc' = "welcome"
      BY <1>2, Zenon DEF ConnectOk
    <2> QED
      BY <2>2, <2>3, <2>4 DEF CarryInv, Carry, Image
  <1>3. CASE Welcome
    <2>1. pc = "welcome" /\ ftp.ctrl
      BY <1>3, Zenon DEF Welcome
    <2>2. CASE OpenFailed(Close(ftp))
      BY <2>2, OpenFailedCarry
    <2>3. CASE \E u : /\ s2c # <<>> /\ Head(s2c).full = 220
                      /\ Issue([ftp EXCEPT !.full = 220, !.connected = TRUE, !.url = TRUE,
                                           !.urldir = u],
                               Tail(s2c), op, Verb("USER"), "user", stack)
      <3> PICK u : /\ s2c # <<>> /\ Head(s2c).full = 220
                   /\ Issue([ftp EXCEPT !.full = 220, !.connected = TRUE, !.url = TRUE,
                                        !.urldir = u],
                            Tail(s2c), op, Verb("USER"), "user", stack)
        BY <2>3
      <3> DEFINE g == [ftp EXCEPT !.full = 220, !.connected = TRUE, !.url = TRUE, !.urldir = u]
                 fr == [cmd |-> Verb("USER"), recon |-> FALSE, k |-> "user"]
                 q == Tail(s2c)
      <3>1. g.type = ftp.type /\ g.ctrl = ftp.ctrl /\ fr.k = "user"
        BY DEF TypeInv, TypeOK, FtpSet
      <3>2. Rest(q, srv)
        <4>0. Answered("banner", c2s, s2c, srv)
          BY <2>1 DEF Synchronous
        <4>1. CASE Replied("banner", s2c, srv)
          BY <4>1, RepliedOn
        <4>2. CASE Rest(s2c, srv)
          BY <4>2, RestOn
        <4> QED
          BY <4>0, <4>1, <4>2 DEF Answered
      <3>3. /\ ftp' = g /\ stack' = <<fr>> \o stack /\ pc' = "cmd"
            /\ Network(g, q, Append(c2s, Verb("USER")))
        BY Zenon DEF Issue
      <3>4. Image(ftp, srv) /\ (srv.up => ~srv.data) /\ stack \in Seq(Fitting)
        BY <2>1 DEF CarryInv, Carry, TypeInv
      <3> HIDE DEF g, fr, q
      <3>5. Ready(fr.k, op', srv) /\ Image(g, srv)
        BY <3>1, <3>4 DEF Ready, Image
      <3> QED
        BY <3>2, <3>3, <3>4, <3>5, LandCarry
    <2> QED
      BY <1>3, <2>2, <2>3, Zenon DEF Welcome
  <1> QED
    BY <1>1, <1>2, <1>3

-----------------------------------------------------------------------------
(* The data connection, and the end of a transfer.                         *)

LEMMA DataCarry ==
  ASSUME CarryInv, RecvEnd \/ RecvBreak \/ AbortPending \/ SendAbor \/ Drained
  PROVE  CarryInv'
  <1>1. Image(ftp, srv)
    BY DEF CarryInv, Carry
  <1>2. CASE SendAbor
    <2> ftp' = ftp /\ pc' = "drain" /\ Network(ftp, s2c, Append(c2s, Verb("ABOR")))
      BY <1>2, Zenon DEF SendAbor
    <2> QED
      BY <1>1, NetworkImage, AsideCarry
  <1>3. CASE RecvEnd \/ RecvBreak \/ AbortPending \/ Drained
    <2>1. \E o, p : p \notin {"welcome", "cmd", "data"} /\ Block(ftp, s2c, o, p)
      BY <1>3 DEF RecvEnd, RecvBreak, AbortPending, Drained
    <2>2. ftp' = ftp /\ pc' \notin {"welcome", "cmd", "data"} /\ Network(ftp, s2c, c2s)
      BY <2>1, Zenon DEF Block
    <2> QED
      BY <1>1, <2>2, NetworkImage, AsideCarry
  <1> QED
    BY <1>2, <1>3

LEMMA OverCarry ==
  ASSUME TypeInv, CallsInv, pc \in Moment, NEW f, Good(f), NEW q,
         f.ctrl => Rest(q, srv) /\ Image(f, srv),
         \/ op.name = "ls" /\ Moved(f, q)
         \/ op.name = "get" /\ EndCmd(f, q)
  PROVE  CarryInv'
  <1>1. CASE op.name = "ls" /\ Moved(f, q)
    <2> /\ stack \in Seq(Fitting) /\ stack # <<>> /\ Tail(stack) = <<>>
        /\ Head(stack).k = "lsList"
      BY <1>1 DEF TypeInv, CallsInv, Moment
    <2> QED
      BY <1>1, MovedCarry
  <1>2. CASE op.name = "get" /\ EndCmd(f, q)
    BY <1>2, EndCarry
  <1> QED
    BY <1>1, <1>2

LEMMA FinalCarry ==
  ASSUME TypeInv, CallsInv, Synchronous, CarryInv, FinalReply \/ FinalEof
  PROVE  CarryInv'
  <1>1. pc = "final" /\ pc \in Moment
    BY Zenon DEF FinalReply, FinalEof, Moment
  <1>2. Moving(s2c, srv) /\ Image(ftp, srv)
    BY <1>1 DEF CallsInv, Synchronous, Ending, CarryInv, Carry
  <1>3. ASSUME NEW f, Good(f), NEW q, NEW r, TransferEnd(f, q, r)
        PROVE  \/ op.name = "ls" /\ Moved(f, q)
               \/ op.name = "get" /\ EndCmd(f, q)
    <2> Moved(f, q)
      BY <1>1, <1>3, TransferEndMoves
    <2> QED
      BY <1>3, Zenon DEF TransferEnd
  <1>4. CASE FinalReply
    <2> DEFINE f == [ftp EXCEPT !.full = Head(s2c).full]
    <2>1. s2c # <<>> /\ TransferEnd(f, Tail(s2c), Head(s2c))
      BY <1>4, Zenon DEF FinalReply
    <2>2. Good(f) /\ Alike(f, ftp)
      BY <1>1, <2>1, FullForm DEF Opening
    <2> HIDE DEF f
    <2>3. Rest(Tail(s2c), srv) /\ (f.ctrl => Image(f, srv))
      BY <1>2, <2>1, <2>2, MovingOn DEF Alike, Image
    <2> QED
      BY <1>1, <1>3, <2>1, <2>2, <2>3, OverCarry
  <1>5. CASE FinalEof
    <2>1. TransferEnd(Close(ftp), <<>>, NoReply)
      BY <1>5, Zenon DEF FinalEof
    <2> QED
      BY <1>1, <1>3, <2>1, ClosedForm, OverCarry
  <1> QED
    BY <1>4, <1>5

LEMMA AbortCarry ==
  ASSUME TypeInv, CallsInv, Synchronous, CarryInv, AbortReply \/ AbortEof
  PROVE  CarryInv'
  <1>1. pc \in {"abort1", "abort2"} /\ pc \in Moment
    BY Zenon DEF AbortReply, AbortEof, Moment
  <1>2. Image(ftp, srv) /\ op.name \in {"ls", "get"}
    BY <1>1 DEF CarryInv, Carry, CallsInv
  <1>3. ASSUME NEW f, Good(f), NEW q, f.full \div 100 # 5, AbortDone(f, q)
        PROVE  \/ op.name = "ls" /\ Moved(f, q)
               \/ op.name = "get" /\ EndCmd(f, q)
    <2> Moved(f, q)
      BY <1>1, <1>3, AbortDoneMoves
    <2> QED
      BY <1>2, <1>3, Zenon DEF AbortDone
  <1>4. CASE AbortReply
    <2> DEFINE f == [ftp EXCEPT !.full = Head(s2c).full]
    <2>1. s2c # <<>> /\ IF pc = "abort1" THEN Block(f, Tail(s2c), op, "abort2")
                        ELSE AbortDone(f, Tail(s2c))
      BY <1>4, Zenon DEF AbortReply
    <2>2. Good(f) /\ Alike(f, ftp) /\ f.full = Head(s2c).full
      BY <1>1, <2>1, FullForm DEF Opening
    <2> HIDE DEF f
    <2>3. Image(f, srv)
      BY <1>2, <2>2 DEF Alike, Image
    <2>4. CASE pc = "abort1"
      <3> pc' = "abort2" /\ ftp' = f /\ Network(f, Tail(s2c), c2s)
        BY <2>1, <2>4, Zenon DEF Block
      <3> QED
        BY <2>3, NetworkImage, AsideCarry
    <2>5. CASE pc = "abort2"
      <3>1. ftp.ctrl /\ Due(Verb("ABOR"), c2s, s2c, srv)
        BY <2>5 DEF CallsInv, Synchronous
      <3>2. Rest(Tail(s2c), srv) /\ Head(s2c).full \in {226, 421}
        BY <2>1, <3>1, AborOn
      <3>3. f.full \div 100 # 5
        BY <2>2, <3>2, Classes
      <3> QED
        BY <1>1, <1>3, <2>1, <2>2, <2>3, <2>5, <3>2, <3>3, OverCarry
    <2> QED
      BY <1>1, <2>4, <2>5
  <1>5. CASE AbortEof
    <2>1. AbortDone(Close(ftp), <<>>)
      BY <1>5, Zenon DEF AbortEof
    <2>2. Close(ftp).full \div 100 # 5
      BY ClosedForm, Classes
    <2> QED
      BY <1>1, <1>3, <2>1, <2>2, ClosedForm, OverCarry
  <1> QED
    BY <1>4, <1>5

LEMMA ClientCarry ==
  ASSUME TypeInv, CallsInv, Synchronous, CarryInv, ~LocalFails, ClientStep
  PROVE  CarryInv'
  <1>1. CASE CmdReply \/ CmdEof \/ CmdNoCtrl
    BY <1>1, CmdReplyCarry, CmdLostCarry
  <1>2. CASE ConnectOk \/ ConnectFail \/ Welcome
    BY <1>2, ConnectCarry
  <1>3. CASE RecvEnd \/ RecvBreak \/ AbortPending \/ SendAbor \/ Drained
    BY <1>3, DataCarry
  <1>4. CASE FinalReply \/ FinalEof \/ AbortReply \/ AbortEof
    BY <1>4, FinalCarry, AbortCarry
  <1> QED
    BY <1>1, <1>2, <1>3, <1>4, Zenon DEF ClientStep

-----------------------------------------------------------------------------
(* Commands and signals.                                                   *)

LEMMA DialCarry ==
  ASSUME NEW f, NEW o, Dial(f, o), f.ctrl => Image(f, srv)
  PROVE  CarryInv'
  <1> ftp' = f /\ pc' = "connect" /\ Network(f, s2c, c2s)
    BY Zenon DEF Dial
  <1> QED
    BY NetworkImage, AsideCarry

LEMMA UserCarry ==
  ASSUME TypeInv, Synchronous, CarryInv, UserStep
  PROVE  CarryInv'
  <1>1. pc = "prompt"
    BY Zenon DEF UserStep, UserOpen, UserReopen, UserUser, UserMkdir, UserClose, UserCd,
                 UserLs, UserGet, Type
  <1>2. stack = <<>> /\ stack \in Seq(Fitting) /\ op \in OpSet /\ Image(ftp, srv)
    BY <1>1 DEF TypeInv, TypeOK, CarryInv, Carry
  <1>3. ASSUME Connected(ftp)
        PROVE  Good(ftp) /\ Rest(s2c, srv)
    BY <1>1, <1>3 DEF TypeInv, Good, Live, Connected, Synchronous, Idle
  <1>4. LoggedIn(ftp) => Connected(ftp)
    BY DEF LoggedIn, Connected
  <1>5. ASSUME Connected(ftp), NEW o, NEW cmd, NEW k, Send(ftp, s2c, o, cmd, k),
               k \notin {"getRest", "getRetr"}
        PROVE  CarryInv'
    <2> Ready(k, o, srv)
      BY <1>5 DEF Ready
    <2> QED
      BY <1>2, <1>3, <1>5, SendCarry
  <1>6. CASE \E d \in Dirs \cup {NoDir} : UserOpen(d)
    <2> \E o : Dial(Close(ftp), o)
      BY <1>6, Zenon DEF UserOpen
    <2> QED
      BY ClosedForm, DialCarry
  <1>7. CASE UserReopen
    <2> \E o : Dial(ftp, o)
      BY <1>7, Zenon DEF UserReopen
    <2> QED
      BY <1>2, DialCarry
  <1>8. CASE UserUser
    <2> \E o : Connected(ftp) /\ Send(ftp, s2c, o, Verb("USER"), "user")
      BY <1>8, Zenon DEF UserUser
    <2> QED
      BY <1>5
  <1>9. CASE UserMkdir
    <2> \E o, cmd : LoggedIn(ftp) /\ Send(ftp, s2c, o, cmd, "mkd")
      BY <1>9, Zenon DEF UserMkdir
    <2> QED
      BY <1>4, <1>5
  <1>10. CASE UserClose
    <2>1. \/ Connected(ftp) /\ \E o : Send(ftp, s2c, o, Verb("QUIT"), "quit")
          \/ EndCmd(Close(ftp), s2c)
      BY <1>10, Zenon DEF UserClose
    <2> QED
      BY <1>5, <2>1, ClosedForm, EndCarry
  <1>11. CASE \E d \in Dirs : UserCd(d)
    <2> \E o, cmd : LoggedIn(ftp) /\ Send(ftp, s2c, o, cmd, "cdCwd")
      BY <1>11, Zenon DEF UserCd
    <2> QED
      BY <1>4, <1>5
  <1>12. CASE \E d \in Dirs : UserLs(d)
    <2> PICK d \in Dirs : UserLs(d)
      BY <1>12
    <2> DEFINE b == d = ftp.curdir
               o == [NoOp EXCEPT !.name = "ls", !.dir = d, !.here = b]
    <2>1. b \in BOOLEAN /\ d \in Paths
      BY PathsTyped, Zenon
    <2>2. LoggedIn(ftp) /\ IF Cached(ftp, d) THEN EndCmd(ftp, s2c)
                           ELSE IF o.here THEN ListStart(ftp, s2c, o)
                           ELSE Send(ftp, s2c, o, Cmd("CWD", d, 0), "lsCwd")
      BY Zenon DEF UserLs
    <2> HIDE DEF b
    <2>3. o \in OpSet
      BY <1>2, <2>1, OpForms, Zenon
    <2> HIDE DEF o
    <2>4. Connected(ftp) /\ Good(ftp) /\ Rest(s2c, srv)
      BY <1>3, <1>4, <2>2
    <2>5. CASE EndCmd(ftp, s2c)
      BY <1>2, <2>4, <2>5, EndCarry
    <2>6. CASE ListStart(ftp, s2c, o)
      <3> PICK g : \E p : /\ Good(g) /\ Alike(g, ftp)
                          /\ Relists(g, s2c, p) \/ GivesUp(g, s2c, p)
        BY <2>3, <2>4, <2>6, ListStartMoves
      <3> PICK p : Good(g) /\ Alike(g, ftp) /\ (Relists(g, s2c, p) \/ GivesUp(g, s2c, p))
        OBVIOUS
      <3>1. g.ctrl => Rest(s2c, srv) /\ Image(g, srv)
        BY <1>2, <2>4 DEF Alike, Image
      <3>2. \A k : k \in {"lsPasv", "lsBack"} => Ready(k, p, srv)
        BY DEF Ready
      <3>3. CASE EndCmd(g, s2c)
        BY <3>1, <3>3, EndCarry
      <3>4. CASE \E cmd, k : k \in {"lsPasv", "lsBack"} /\ Send(g, s2c, p, cmd, k)
        <4> PICK cmd, k : k \in {"lsPasv", "lsBack"} /\ Send(g, s2c, p, cmd, k)
          BY <3>4, Zenon
        <4> QED
          BY <1>2, <3>1, <3>2, SendCarry
      <3> QED
        BY <3>3, <3>4, Zenon DEF Relists, GivesUp
    <2>7. CASE Send(ftp, s2c, o, Cmd("CWD", d, 0), "lsCwd")
      BY <1>5, <2>4, <2>7
    <2> QED
      BY <2>2, <2>5, <2>6, <2>7
  <1>13. CASE \E resume \in BOOLEAN : UserGet(resume)
    <2>1. LoggedIn(ftp) /\ ((\E o, cmd : Send(ftp, s2c, o, cmd, "getPasv")) \/ EndCmd(ftp, s2c))
      BY <1>13, Zenon DEF UserGet
    <2> QED
      BY <1>2, <1>3, <1>4, <1>5, <2>1, EndCarry
  <1> QED
    BY <1>6, <1>7, <1>8, <1>9, <1>10, <1>11, <1>12, <1>13, Zenon DEF UserStep

LEMMA StillCarry ==
  ASSUME CarryInv, UNCHANGED <<ftp, stack, pc, op, s2c, srv, dconn>>
  PROVE  CarryInv'
  BY DEF CarryInv

LEMMA SignalCarry ==
  ASSUME TypeInv, CarryInv, IntJmp \/ IntAbort \/ IntClose \/ Timeout
  PROVE  CarryInv'
  <1>1. Image(ftp, srv)
    BY DEF CarryInv, Carry
  <1>2. \/ UNCHANGED <<ftp, stack, pc, op, c2s, s2c, net>>
        \/ \E q : LongJmp(ftp, q)
        \/ LongJmp([ftp EXCEPT !.ctrl = FALSE], <<>>)
        \/ LongJmp(Close(ftp), <<>>)
    BY Zenon DEF IntJmp, IntAbort, IntClose, Timeout
  <1>3. CASE UNCHANGED <<ftp, stack, pc, op, c2s, s2c, net>>
    BY <1>3, StillCarry DEF net
  <1>4. CASE \E q : LongJmp(ftp, q)
    BY <1>1, <1>4, PromptCarry, Zenon DEF LongJmp
  <1>5. CASE LongJmp([ftp EXCEPT !.ctrl = FALSE], <<>>)
    <2> DEFINE g == [ftp EXCEPT !.ctrl = FALSE]
    <2>1. ~g.ctrl /\ Prompt(g, <<>>)
      BY <1>5 DEF LongJmp, TypeInv, TypeOK, FtpSet
    <2> HIDE DEF g
    <2> QED
      BY <2>1, PromptCarry
  <1>6. CASE LongJmp(Close(ftp), <<>>)
    BY <1>6, ClosedForm, PromptCarry, Zenon DEF LongJmp
  <1> QED
    BY <1>2, <1>3, <1>4, <1>5, <1>6

LEMMA DropCarry ==
  ASSUME TypeInv, CarryInv, SrvDrop
  PROVE  CarryInv'
  <1>1. /\ srv' = Down /\ UNCHANGED <<ftp, stack, pc, op>> /\ dconn' = [dconn EXCEPT !.eof = TRUE]
        /\ Cut(s2c, s2c')
    BY Zenon DEF SrvDrop, client, Cut, Bow
  <1>2. s2c \in Seq(ReplySet) /\ ~srv'.up
    BY <1>1, BowForm DEF TypeInv, TypeOK
  <1>3. dconn'.kind = dconn.kind /\ dconn'.type = dconn.type /\ dconn'.rest = dconn.rest
    BY <1>1 DEF TypeInv, TypeOK, DconnSet
  <1>4. Intact(op, dconn) => Intact(op, dconn')
    BY <1>3 DEF Intact
  <1>5. ASSUME pc = "cmd", ftp.ctrl
        PROVE  Fetches(Head(stack).k, op, s2c', srv', dconn')
    <2> DEFINE p == s2c'
               k == Head(stack).k
    <2>1. Fetches(k, op, s2c, srv, dconn)
      BY <1>5 DEF CarryInv, Carry
    <2>2. p = <<>> \/ (p # <<>> /\ (Head(p) = Bow \/ (s2c # <<>> /\ Head(p) = Head(s2c))))
      BY <1>1, <1>2, CutForm
    <2> HIDE DEF p, k
    <2>3. Class(Bow) # 1
      BY BowForm, Classes DEF Class
    <2>4. k = "getRetr" /\ p # <<>> /\ Class(Head(p)) = 1 => Intact(op, dconn')
      BY <1>4, <2>1, <2>2, <2>3 DEF Fetches, Arrived
    <2>5. Fetches(k, op, p, srv', dconn')
      BY <1>2, <2>4 DEF Fetches, Ready, Arrived, Armed
    <2> QED
      BY <2>5 DEF p, k
  <1> QED
    BY <1>1, <1>2, <1>4, <1>5 DEF CarryInv, Carry, Image

-----------------------------------------------------------------------------
(* The server.                                                             *)

\* Where the client waits in ftp_cmd, the server executes its command.
LEMMA Serves1 ==
  ASSUME TypeInv, CallsInv, Synchronous, srv.up, c2s # <<>>, pc = "cmd", ftp.ctrl
  PROVE  /\ s2c = <<>> /\ s2c \in Seq(ReplySet)
         /\ Speaks(Next1.v, Head(stack).k)
         /\ Tail(stack) # <<>> => Head(stack).k \in Logins
  <1>1. stack # <<>> /\ stack \in Seq(Fitting) /\ Calls(stack, op) /\ s2c \in Seq(ReplySet)
    BY DEF TypeInv, TypeOK, CallsInv
  <1>2. Due(Head(stack).cmd, c2s, s2c, srv)
    BY DEF Synchronous
  <1>3. s2c = <<>> /\ c2s = <<Head(stack).cmd>>
    BY <1>2 DEF Due, Answered, Sends
  <1>4. Next1 = Head(stack).cmd
    BY <1>3 DEF Next1
  <1> QED
    BY <1>1, <1>3, <1>4, CallsForm

LEMMA SaidForm ==
  ASSUME NEW full, NEW s \in SrvSet, Say(full, s)
  PROVE  /\ s2c' = Append(s2c, Reply(full, Next1.v, NoDir)) /\ dconn' = dconn
         /\ srv'.up = s.up /\ srv'.auth = s.auth /\ srv'.type = s.type /\ srv'.data = s.data
         /\ srv'.rest <=> s.rest /\ Next1.v = "REST"
  <1> DEFINE b == s.rest /\ Next1.v = "REST"
  <1>1. /\ srv' = [s EXCEPT !.rest = b] /\ s2c' = Append(s2c, Reply(full, Next1.v, NoDir))
        /\ dconn' = dconn
    BY Zenon DEF Say, Answer
  <1>2. srv'.rest = b
    <2> HIDE DEF b
    <2> QED
      BY <1>1 DEF SrvSet
  <1>3. /\ srv'.up = s.up /\ srv'.auth = s.auth /\ srv'.type = s.type /\ srv'.data = s.data
    <2> HIDE DEF b
    <2> QED
      BY <1>1 DEF SrvSet
  <1> QED
    BY <1>1, <1>2, <1>3

\* What executing a command does to the session.
Kept(s) ==
  /\ s.type \in {srv.type, "I"}
  /\ s.data => srv.data \/ Next1.v = "PASV"
Commanded ==
  /\ srv.up /\ c2s # <<>> /\ Next1.v # "ABOR" /\ UNCHANGED <<ftp, stack, pc, op>>
  /\ srv'.up => Kept(srv')
  /\ \E full, dir : s2c' = Append(s2c, Reply(full, Next1.v, dir))

LEMMA CommandedForm ==
  ASSUME srv \in SrvSet,
         \/ SrvUser \/ SrvPass \/ SrvDenies \/ SrvPwd \/ SrvCwd \/ SrvMkd
         \/ SrvPasv \/ SrvType \/ SrvRest \/ SrvList \/ SrvRetr \/ SrvQuit
  PROVE  Commanded
  <1>0. Handled
    BY HandledForm
  <1>1. /\ srv.up /\ c2s # <<>> /\ Next1.v # "ABOR" /\ UNCHANGED <<ftp, stack, pc, op>>
        /\ \E full, dir : s2c' = Append(s2c, Reply(full, Next1.v, dir))
    BY <1>0, Zenon DEF Handled, Responds
  <1> SUFFICES srv'.up => Kept(srv')
    BY <1>1 DEF Commanded
  <1>2. ASSUME NEW full, NEW s \in SrvSet, Say(full, s), s.up => Kept(s)
        PROVE  srv'.up => Kept(srv')
    BY <1>2, SaidForm DEF Kept
  <1>3. Kept(srv)
    BY DEF Kept
  <1>4. CASE SrvUser
    <2>1. Say(331, [srv EXCEPT !.auth = FALSE]) \/ Say(530, srv)
      BY <1>4, Zenon DEF SrvUser
    <2> DEFINE s == [srv EXCEPT !.auth = FALSE]
    <2>2. s \in SrvSet /\ Kept(s)
      BY DEF SrvSet, Kept
    <2>3. Say(331, s) \/ Say(530, srv)
      BY <2>1
    <2> HIDE DEF s
    <2> QED
      BY <1>2, <1>3, <2>2, <2>3
  <1>5. CASE SrvPass
    <2>1. Say(230, [srv EXCEPT !.auth = TRUE, !.cwd = Home]) \/ Say(530, srv)
      BY <1>5, Zenon DEF SrvPass
    <2> DEFINE s == [srv EXCEPT !.auth = TRUE, !.cwd = Home]
    <2>2. s \in SrvSet /\ Kept(s)
      BY SessionAssumption DEF SrvSet, Kept
    <2>3. Say(230, s) \/ Say(530, srv)
      BY <2>1
    <2> HIDE DEF s
    <2> QED
      BY <1>2, <1>3, <2>2, <2>3
  <1>6. CASE Say(550, srv) \/ Say(530, srv) \/ Say(500, srv) \/ Say(425, srv)
    BY <1>2, <1>3, <1>6
  <1>7. CASE SrvPwd \/ SrvCwd \/ SrvMkd
    <2>1. \/ Say(550, srv)
          \/ srv' = [srv EXCEPT !.rest = FALSE]
          \/ srv' = [srv EXCEPT !.cwd = Next1.a, !.rest = FALSE]
      BY <1>7, Zenon DEF SrvPwd, SrvCwd, SrvMkd
    <2>2. Say(550, srv) \/ (srv'.type = srv.type /\ srv'.data = srv.data)
      BY <2>1 DEF SrvSet
    <2> QED
      BY <1>6, <2>2 DEF Kept
  <1>8. CASE SrvPasv
    <2> DEFINE s == [srv EXCEPT !.data = TRUE]
    <2>1. Say(227, s) /\ Next1.v = "PASV"
      BY <1>8, Zenon DEF SrvPasv, Serves, Executes
    <2>2. s \in SrvSet /\ Kept(s)
      BY <2>1 DEF SrvSet, Kept
    <2> HIDE DEF s
    <2> QED
      BY <1>2, <2>1, <2>2
  <1>9. CASE SrvType
    <2> DEFINE s == [srv EXCEPT !.type = "I"]
    <2>1. Say(200, s)
      BY <1>9, Zenon DEF SrvType
    <2>2. s \in SrvSet /\ Kept(s)
      BY DEF SrvSet, Kept
    <2> HIDE DEF s
    <2> QED
      BY <1>2, <2>1, <2>2
  <1>10. CASE SrvRest
    <2> DEFINE s == [srv EXCEPT !.rest = TRUE]
    <2>1. Say(350, s)
      BY <1>10, Zenon DEF SrvRest
    <2>2. s \in SrvSet /\ Kept(s)
      BY DEF SrvSet, Kept
    <2> HIDE DEF s
    <2> QED
      BY <1>2, <2>1, <2>2
  <1>11. CASE SrvDenies \/ SrvList \/ SrvRetr
    <2>1. \/ Say(550, srv) \/ Say(530, srv) \/ Say(500, srv) \/ Say(425, srv)
          \/ srv' = [srv EXCEPT !.data = FALSE, !.xfer = TRUE, !.rest = FALSE]
      BY <1>11, Zenon DEF SrvDenies, SrvList, SrvRetr, Transfer
    <2>2. CASE srv' = [srv EXCEPT !.data = FALSE, !.xfer = TRUE, !.rest = FALSE]
      BY <2>2 DEF SrvSet, Kept
    <2> QED
      BY <1>6, <2>1, <2>2
  <1>12. CASE SrvQuit
    <2>1. Say(221, Down)
      BY <1>12, Zenon DEF SrvQuit
    <2>2. Down \in SrvSet /\ ~Down.up
      BY SessionAssumption DEF Down, SrvSet
    <2> QED
      BY <1>2, <2>1, <2>2
  <1> QED
    BY <1>4, <1>5, <1>7, <1>8, <1>9, <1>10, <1>11, <1>12

\* PASV, TYPE, REST and RETR prepare the transfer that follows.
LEMMA PreparesCarry ==
  ASSUME TypeInv, CallsInv, Synchronous, CarryInv, pc = "cmd", ftp.ctrl,
         Commanded, Head(stack).k \in Gets,
         \/ SrvDenies \/ SrvPasv \/ SrvType \/ SrvRest \/ SrvRetr
  PROVE  Fetches(Head(stack).k, op, s2c', srv', dconn')
  <1> DEFINE k == Head(stack).k
             p == s2c'
  <1>1. srv \in SrvSet
    BY DEF TypeInv, TypeOK
  <1>2. s2c = <<>> /\ s2c \in Seq(ReplySet) /\ Speaks(Next1.v, k)
    BY Serves1 DEF Commanded
  <1>3. Ready(k, op, srv)
    BY <1>2 DEF CarryInv, Carry, Fetches
  <1>4. ASSUME NEW full, NEW dir, s2c' = Append(s2c, Reply(full, Next1.v, dir))
        PROVE  p # <<>> /\ Class(Head(p)) = full \div 100
    <2> DEFINE r == Reply(full, Next1.v, dir)
    <2>1. p = Append(s2c, r) /\ Class(r) = full \div 100
      BY <1>4 DEF Class, Reply
    <2> HIDE DEF r, p
    <2> QED
      BY <1>2, <2>1, Appended
  <1> HIDE DEF k, p
  <1>5. k \in Gets
    BY DEF k
  <1>6. /\ k = "getPasv" => Next1.v = "PASV"
        /\ k = "getType" => Next1.v = "TYPE"
        /\ k = "getRest" => Next1.v = "REST"
        /\ k = "getRetr" => Next1.v = "RETR"
    BY <1>2 DEF Speaks
  <1>7. SUFFICES p # <<>> /\ Arrived(k, op, Head(p), srv', dconn')
    BY DEF Fetches, k, p
  <1>8. CASE SrvDenies
    <2>1. Say(530, srv) /\ ~srv.auth
      BY <1>8, Zenon DEF SrvDenies
    <2>2. p # <<>> /\ Class(Head(p)) = 530 \div 100
      BY <1>1, <1>4, <2>1, SaidForm
    <2>3. ~Armed(srv') /\ (srv'.rest => Next1.v = "REST")
      BY <1>1, <2>1, SaidForm DEF Armed
    <2>4. Class(Head(p)) = 5
      BY <2>2
    <2> QED
      BY <1>6, <2>2, <2>3, <2>4 DEF Arrived
  <1>9. CASE SrvPasv
    <2> DEFINE s == [srv EXCEPT !.data = TRUE]
    <2>1. Say(227, s) /\ Next1.v = "PASV"
      BY <1>9, Zenon DEF SrvPasv, Serves, Executes
    <2>2. s \in SrvSet
      BY <1>1 DEF SrvSet
    <2> HIDE DEF s
    <2>3. p # <<>> /\ ~srv'.rest
      BY <1>4, <2>1, <2>2, SaidForm
    <2>4. k = "getPasv"
      BY <1>5, <1>6, <2>1 DEF Gets
    <2> QED
      BY <2>3, <2>4 DEF Arrived
  <1>10. CASE SrvType
    <2> DEFINE s == [srv EXCEPT !.type = "I"]
    <2>1. Say(200, s) /\ Next1.v = "TYPE"
      BY <1>10, Zenon DEF SrvType, Serves, Executes
    <2>2. s \in SrvSet /\ s.type = "I"
      BY <1>1 DEF SrvSet
    <2> HIDE DEF s
    <2>3. p # <<>> /\ ~srv'.rest /\ srv'.type = "I"
      BY <1>4, <2>1, <2>2, SaidForm
    <2>4. k = "getType"
      BY <1>5, <1>6, <2>1 DEF Gets
    <2> QED
      BY <2>3, <2>4 DEF Arrived
  <1>11. CASE SrvRest
    <2> DEFINE s == [srv EXCEPT !.rest = TRUE]
    <2>1. Say(350, s) /\ Next1.v = "REST"
      BY <1>11, Zenon DEF SrvRest, Serves, Executes
    <2>2. s \in SrvSet /\ s.rest /\ s.type = srv.type /\ (Armed(s) => Armed(srv))
      BY <1>1 DEF SrvSet, Armed
    <2> HIDE DEF s
    <2>3. p # <<>> /\ srv'.rest /\ srv'.type = srv.type /\ (Armed(srv') => Armed(s))
      BY <1>4, <2>1, <2>2, SaidForm DEF Armed
    <2>4. k = "getRest"
      BY <1>5, <1>6, <2>1 DEF Gets
    <2> QED
      BY <1>3, <2>2, <2>3, <2>4 DEF Arrived, Ready
  <1>12. CASE SrvRetr
    <2>1. /\ Next1.v = "RETR" /\ srv.auth /\ srv.up
          /\ \/ srv.data /\ Transfer("retr")
             \/ Say(550, srv)
             \/ Say(425, srv)
      BY <1>12, Zenon DEF SrvRetr, Serves, Executes
    <2>2. k = "getRetr"
      BY <1>5, <1>6, <2>1 DEF Gets
    <2>3. ASSUME NEW full, Say(full, srv), full \div 100 # 1
          PROVE  p # <<>> /\ Arrived(k, op, Head(p), srv', dconn')
      <3>1. p # <<>> /\ Class(Head(p)) = full \div 100
        BY <1>1, <1>4, <2>3, SaidForm
      <3>2. srv'.type = srv.type /\ (Armed(srv') => Armed(srv))
        BY <1>1, <2>3, SaidForm DEF Armed
      <3> QED
        BY <1>3, <2>2, <2>3, <3>1, <3>2 DEF Arrived, Ready
    <2>4. CASE srv.data /\ Transfer("retr")
      <3>1. /\ s2c' = Append(s2c, Reply(150, Next1.v, NoDir))
            /\ srv' = [srv EXCEPT !.data = FALSE, !.xfer = TRUE, !.rest = FALSE]
            /\ dconn' = [kind |-> "retr", of |-> srv.cwd, type |-> srv.type,
                         rest |-> srv.rest, eof |-> FALSE, whole |-> FALSE]
        BY <2>4, Zenon DEF Transfer, Answer
      <3>2. srv.type = "I" /\ srv.rest = op.resume
        BY <1>3, <2>1, <2>2, <2>4 DEF Ready, Armed
      <3>3. Intact(op, dconn')
        BY <3>1, <3>2 DEF Intact
      <3>4. ~Armed(srv') /\ p # <<>>
        BY <1>1, <1>4, <3>1 DEF Armed, SrvSet
      <3> QED
        BY <2>2, <3>3, <3>4 DEF Arrived
    <2>5. 550 \div 100 # 1 /\ 425 \div 100 # 1
      OBVIOUS
    <2> QED
      BY <2>1, <2>3, <2>4, <2>5
  <1> QED
    BY <1>8, <1>9, <1>10, <1>11, <1>12

LEMMA CommandedCarry ==
  ASSUME TypeInv, CallsInv, Synchronous, CarryInv,
         \/ SrvUser \/ SrvPass \/ SrvDenies \/ SrvPwd \/ SrvCwd \/ SrvMkd
         \/ SrvPasv \/ SrvType \/ SrvRest \/ SrvList \/ SrvRetr \/ SrvQuit
  PROVE  CarryInv'
  <1>1. srv \in SrvSet
    BY DEF TypeInv, TypeOK
  <1>2. Commanded
    BY <1>1, CommandedForm
  <1>3. /\ srv.up /\ c2s # <<>> /\ UNCHANGED <<ftp, stack, pc, op>>
        /\ srv'.up => Kept(srv')
    BY <1>2 DEF Commanded
  <1>4. Image(ftp, srv')
    BY <1>3 DEF CarryInv, Carry, Image, Kept
  <1>5. ~(pc = "welcome" /\ ftp.ctrl) /\ pc # "data"
    BY <1>3 DEF Synchronous, Answered, Ending
  <1>6. ASSUME pc = "cmd", ftp.ctrl
        PROVE  /\ Tail(stack) # <<>> /\ srv'.up => ~srv'.data
               /\ Fetches(Head(stack).k, op, s2c', srv', dconn')
    <2> DEFINE k == Head(stack).k
    <2>1. Speaks(Next1.v, k) /\ (Tail(stack) # <<>> => k \in Logins)
      BY <1>3, <1>6, Serves1
    <2>2. Next1.v = "PASV" => k \notin Logins
      BY <2>1 DEF Speaks, Logins
    <2>3. Tail(stack) # <<>> /\ srv'.up => ~srv'.data
      BY <1>3, <1>6, <2>1, <2>2 DEF CarryInv, Carry, Kept
    <2>4. CASE k \in Gets
      <3>1. Next1.v \in {"PASV", "TYPE", "REST", "RETR"}
        BY <2>1, <2>4 DEF Speaks, Gets
      <3>2. ~Executes("USER") /\ ~Executes("PASS") /\ ~Executes("PWD") /\ ~Executes("CWD")
            /\ ~Executes("MKD") /\ ~Executes("MLSD") /\ ~Executes("LIST") /\ ~Executes("QUIT")
        BY <3>1 DEF Executes
      <3>3. SrvDenies \/ SrvPasv \/ SrvType \/ SrvRest \/ SrvRetr
        BY <3>2, Zenon DEF SrvUser, SrvPass, SrvPwd, SrvCwd, SrvMkd, SrvList, SrvQuit, Serves
      <3> QED
        BY <1>2, <1>6, <2>3, <2>4, <3>3, PreparesCarry
    <2>5. CASE k \notin Gets
      <3> DEFINE p == s2c'
      <3> HIDE DEF k, p
      <3> Fetches(k, op, p, srv', dconn')
        BY <2>5 DEF Fetches, Ready, Arrived, Gets
      <3> QED
        BY <2>3 DEF k, p
    <2> QED
      BY <2>4, <2>5
  <1> QED
    BY <1>3, <1>4, <1>5, <1>6 DEF CarryInv, Carry

\* A transfer goes on, or ends by itself.
LEMMA XferCarry ==
  ASSUME TypeInv, CallsInv, Synchronous, CarryInv, XferEof \/ XferReply
  PROVE  CarryInv'
  <1>1. /\ srv.up /\ srv.xfer /\ UNCHANGED <<ftp, stack, pc, op>>
        /\ \/ s2c' = s2c
           \/ \E r : s2c' = Append(s2c, r)
    BY Zenon DEF XferEof, XferReply, client
  <1>2. /\ dconn'.kind = dconn.kind /\ dconn'.type = dconn.type /\ dconn'.rest = dconn.rest
    <2>1. dconn' = dconn \/ \E ok : dconn' = [dconn EXCEPT !.eof = TRUE, !.whole = ok]
      BY Zenon DEF XferEof, XferReply
    <2> QED
      BY <2>1 DEF TypeInv, TypeOK, DconnSet
  <1>3. /\ srv'.up = srv.up /\ srv'.auth = srv.auth /\ srv'.type = srv.type
        /\ srv'.rest = srv.rest /\ srv'.data = srv.data
    <2>1. srv' = srv \/ srv' = [srv EXCEPT !.xfer = FALSE]
      BY Zenon DEF XferEof, XferReply
    <2> QED
      BY <2>1 DEF TypeInv, TypeOK, SrvSet
  <1>4. \A o : Intact(o, dconn) => Intact(o, dconn')
    BY <1>2 DEF Intact
  <1>5. Armed(srv') = Armed(srv)
    BY <1>3 DEF Armed
  <1>6. ASSUME pc = "cmd", ftp.ctrl
        PROVE  Fetches(Head(stack).k, op, s2c', srv', dconn')
    <2> DEFINE k == Head(stack).k
               p == s2c'
    <2>1. Due(Head(stack).cmd, c2s, s2c, srv)
      BY <1>6 DEF Synchronous
    <2>2. s2c # <<>> /\ s2c \in Seq(ReplySet)
      BY <1>1, <2>1 DEF Due, Answered, Replied, TypeInv, TypeOK
    <2>3. p = s2c \/ \E r : p = Append(s2c, r)
      BY <1>1
    <2> HIDE DEF k, p
    <2>4. p # <<>> /\ Head(p) = Head(s2c)
      BY <2>2, <2>3, Appended
    <2>5. Arrived(k, op, Head(s2c), srv, dconn)
      BY <1>6, <2>2 DEF CarryInv, Carry, Fetches, k
    <2>6. Fetches(k, op, p, srv', dconn')
      BY <1>3, <1>4, <1>5, <2>4, <2>5 DEF Fetches, Arrived
    <2> QED
      BY <2>6 DEF k, p
  <1> QED
    BY <1>1, <1>3, <1>4, <1>6 DEF CarryInv, Carry, Image

LEMMA AborCarry ==
  ASSUME TypeInv, CallsInv, Synchronous, CarryInv, SrvAbor
  PROVE  CarryInv'
  <1>1. /\ srv.up /\ c2s # <<>> /\ Next1.v = "ABOR" /\ UNCHANGED <<ftp, stack, pc, op>>
        /\ srv' = [srv EXCEPT !.xfer = FALSE, !.data = FALSE]
    BY Zenon DEF SrvAbor, Executes, client
  <1>2. srv'.type = srv.type /\ srv'.up = srv.up
    BY <1>1 DEF TypeInv, TypeOK, SrvSet
  <1>3. Image(ftp', srv')
    BY <1>1, <1>2 DEF CarryInv, Carry, Image
  <1>4. ~(pc = "welcome" /\ ftp.ctrl) /\ pc # "data"
    BY <1>1 DEF Synchronous, Answered, Ending
  <1>5. ~(pc = "cmd" /\ ftp.ctrl)
    BY <1>1, Serves1 DEF Speaks
  <1> QED
    BY <1>1, <1>3, <1>4, <1>5 DEF CarryInv, Carry

LEMMA ServerCarry ==
  ASSUME TypeInv, CallsInv, Synchronous, CarryInv, ServerStep
  PROVE  CarryInv'
  BY CommandedCarry, XferCarry, AborCarry, Zenon DEF ServerStep

-----------------------------------------------------------------------------
(* What arrives is what was asked for.                                     *)

LEMMA CarryInit ==
  ASSUME Init
  PROVE  CarryInv
  <1> pc = "prompt" /\ srv = Down
    BY Zenon DEF Init
  <1> QED
    BY BowForm DEF CarryInv, Carry, Image

LEMMA CarryStep ==
  ASSUME ~LocalFails, Agreed, CarryInv, [Next]_vars
  PROVE  CarryInv'
  <1>1. TypeInv /\ CallsInv /\ Synchronous
    BY DEF Agreed
  <1>2. CASE UNCHANGED vars
    BY <1>2, StillCarry DEF vars
  <1>3. CASE UserStep
    BY <1>1, <1>3, UserCarry
  <1>4. CASE ClientStep
    BY <1>1, <1>4, ClientCarry
  <1>5. CASE ServerStep
    BY <1>1, <1>5, ServerCarry
  <1>6. CASE IntJmp \/ IntAbort \/ IntClose \/ Timeout
    BY <1>1, <1>6, SignalCarry
  <1>7. CASE SrvDrop
    BY <1>1, <1>7, DropCarry
  <1>8. CASE \E d \in Dirs : RemoveDir(d)
    <2> UNCHANGED <<ftp, stack, pc, op, s2c, srv, dconn>>
      BY <1>8, Zenon DEF RemoveDir, client
    <2> QED
      BY StillCarry
  <1>9. CASE Quiet
    BY <1>2, <1>9, Zenon DEF Quiet
  <1> QED
    BY <1>2, <1>3, <1>4, <1>5, <1>6, <1>7, <1>8, <1>9, Zenon DEF Next

(* A binary get receives a RETR, in image type and from the offset it      *)
(* asked for: the "?" that ConnectOk leaves makes ftp_type send its TYPE   *)
(* again, and a RETR that a reconnect sends again finds no port.  Set      *)
(* apart are the interrupts that RepliesMatch sets apart.                  *)
THEOREM TransfersIntact ==
  ASSUME ~LocalFails
  PROVE  Spec /\ [][~Abandons]_vars => []TransferIntact
  <1>1. Init => Agreed /\ CarryInv
    BY AgreedInit, CarryInit
  <1>2. Agreed /\ CarryInv /\ [Next]_vars /\ [~Abandons]_vars => Agreed' /\ CarryInv'
    BY AgreedStep, CarryStep
  <1>3. CarryInv => TransferIntact
    BY DEF CarryInv, Carry, Intact, TransferIntact
  <1> QED
    BY <1>1, <1>2, <1>3, PTL DEF Spec

-----------------------------------------------------------------------------
(* Transfers that end.  Counts: a reply of success to a transfer is on its *)
(* way only if all was sent.  Vowed: a listing that is to be cached was    *)
(* whole.                                                                  *)

Proper(f) == \A e \in f.cache : e.whole
Counts(q, d) == q # <<>> /\ Class(Head(q)) = 2 => d.whole
Base(st) == st[Len(st)]
Bottom(st) == Base(st).k
Vows(k, o) == k = "lsBack" /\ ~o.failed => o.whole
Vowed(st, o) == st # <<>> => Vows(Bottom(st), o)

\* An interrupted get is not a success.
GivenUp(o) == o.name = "get" /\ o.failed

Whole(p, f, st, o, q, d) ==
  /\ Proper(f)
  /\ p \in {"cmd", "connect", "welcome"} => Vowed(st, o)
  /\ p = "cmd" /\ f.ctrl /\ Head(st).k \in Transfers /\ q # <<>> /\ Class(Head(q)) = 1 =>
       Counts(Tail(q), d)
  /\ p = "data" => Counts(q, d)
  /\ p = "drain" => o.abor \/ GivenUp(o)
  /\ p = "final" => \/ GivenUp(o)
                    \/ /\ Counts(q, d) /\ d.eof /\ o.whole = d.whole
                       /\ o.name = "get" => Intact(o, d)
WholeInv == Whole(pc, ftp, stack, op, s2c, dconn)

\* What a get has received, and the steps that cut a transfer short unnoticed.
GotWhole == \A g \in got : g.whole /\ g.type = "I" /\ g.rest = g.resume
CutsShort == RecvBreak \/ (AbortPending /\ op.name = "ls")

-----------------------------------------------------------------------------
(* Where a step may land.                                                  *)

LEMMA BaseForm ==
  /\ \A fr, t : t \in Seq(Fitting) =>
       Base(<<fr>> \o t) = IF t = <<>> THEN fr ELSE Base(t)
  /\ \A t : t \in Seq(Fitting) /\ t # <<>> /\ Tail(t) # <<>> =>
       Base(Tail(t)) = Base(t)
  /\ \A t : t \in Seq(Fitting) /\ t # <<>> /\ Tail(t) = <<>> => Base(t) = Head(t)
  <1>1. ASSUME NEW fr, NEW t \in Seq(Fitting)
        PROVE  Base(<<fr>> \o t) = IF t = <<>> THEN fr ELSE Base(t)
    <2>1. CASE t = <<>>
      BY <2>1 DEF Base
    <2>2. CASE t # <<>>
      <3>1. Len(<<fr>> \o t) = Len(t) + 1 /\ Len(t) \in Nat \ {0}
        BY <2>2
      <3>2. (<<fr>> \o t)[Len(t) + 1] = t[Len(t)]
        BY <3>1
      <3> QED
        BY <2>2, <3>1, <3>2 DEF Base
    <2> QED
      BY <2>1, <2>2
  <1>2. ASSUME NEW t \in Seq(Fitting), t # <<>>
        PROVE  IF Tail(t) = <<>> THEN Base(t) = Head(t) ELSE Base(Tail(t)) = Base(t)
    <2>1. Len(t) = Len(Tail(t)) + 1 /\ Tail(t) \in Seq(Fitting) /\ Len(t) \in Nat
      BY <1>2, Unstacked
    <2>2. CASE Tail(t) = <<>>
      <3> DEFINE u == Tail(t)
      <3>0. u = <<>> /\ Len(t) = Len(u) + 1
        BY <2>1, <2>2
      <3> HIDE DEF u
      <3>1. Len(u) = 0
        BY <3>0
      <3>2. Len(t) = 1
        BY <3>0, <3>1
      <3> QED
        BY <1>2, <2>2, <3>2 DEF Base
    <2>3. CASE Tail(t) # <<>>
      <3>1. Len(Tail(t)) \in 1..Len(Tail(t))
        BY <2>1, <2>3
      <3>2. Tail(t)[Len(Tail(t))] = t[Len(Tail(t)) + 1]
        BY <1>2, <2>1, <3>1
      <3> QED
        BY <2>1, <2>3, <3>2 DEF Base
    <2> QED
      BY <2>2, <2>3
  <1> QED
    BY <1>1, <1>2

LEMMA BottomForm ==
  /\ \A fr, t : t \in Seq(Fitting) =>
       Bottom(<<fr>> \o t) = IF t = <<>> THEN fr.k ELSE Bottom(t)
  /\ \A t : t \in Seq(Fitting) /\ t # <<>> /\ Tail(t) # <<>> =>
       Bottom(Tail(t)) = Bottom(t)
  /\ \A t : t \in Seq(Fitting) /\ t # <<>> /\ Tail(t) = <<>> => Bottom(t) = Head(t).k
  BY BaseForm DEF Bottom

LEMMA RestFails ==
  ASSUME NEW q, NEW s, Rest(q, s), q # <<>>
  PROVE  Class(Head(q)) = 4
  BY DEF Rest, Bye, Class

LEMMA ProperForms ==
  ASSUME NEW f, Good(f), Proper(f)
  PROVE  /\ Proper(Flush(f)) /\ Proper(Close(f))
         /\ \A g : Alike(g, f) => Proper(g)
         /\ \A o : (~o.failed => o.whole) => Proper(ListCached(f, o))
  <1> f \in FtpSet
    BY DEF Good, FtpOK
  <1>1. Proper(Flush(f)) /\ Proper(Close(f))
    BY DEF FtpSet, Flush, Close, Proper
  <1>2. \A g : Alike(g, f) => Proper(g)
    BY DEF Alike, Proper
  <1>3. \A o : (~o.failed => o.whole) => Proper(ListCached(f, o))
    BY DEF FtpSet, ListCached, Proper
  <1> QED
    BY <1>1, <1>2, <1>3

LEMMA AsideWhole ==
  ASSUME Proper(ftp'), pc' \in {"prompt", "crashed", "abort1", "abort2"}
  PROVE  WholeInv'
  BY DEF WholeInv, Whole

LEMMA PromptWhole ==
  ASSUME NEW g, NEW q, Proper(g), Prompt(g, q) \/ LongJmp(g, q)
  PROVE  WholeInv'
  <1> ftp' = g /\ pc' = "prompt"
    BY Zenon DEF Prompt, LongJmp
  <1> QED
    BY AsideWhole

LEMMA EndWhole ==
  ASSUME NEW f, Good(f), Proper(f), NEW q, EndCmd(f, q)
  PROVE  WholeInv'
  BY ProperForms, PromptWhole, Zenon DEF EndCmd

LEMMA LandWhole ==
  ASSUME NEW g, NEW q, NEW c, NEW fr, NEW below \in Seq(Fitting),
         ftp' = g, stack' = <<fr>> \o below, pc' = "cmd", Network(g, q, c),
         Proper(g), g.ctrl => Rest(q, srv),
         IF below = <<>> THEN Vows(fr.k, op') ELSE Vowed(below, op')
  PROVE  WholeInv'
  <1>1. Vowed(stack', op')
    BY BottomForm DEF Vowed
  <1>2. g.ctrl /\ s2c' # <<>> => Class(Head(s2c')) = 4
    BY RestFails DEF Network
  <1> QED
    BY <1>1, <1>2 DEF WholeInv, Whole

LEMMA SendWhole ==
  ASSUME stack \in Seq(Fitting), NEW g, NEW q, NEW o, NEW cmd, NEW k, Send(g, q, o, cmd, k),
         Proper(g), g.ctrl => Rest(q, srv),
         IF stack = <<>> \/ Tail(stack) = <<>> THEN Vows(k, o) ELSE Vowed(stack, o)
  PROVE  WholeInv'
  <1> DEFINE below == IF stack = <<>> THEN <<>> ELSE Tail(stack)
             fr == [cmd |-> cmd, recon |-> FALSE, k |-> k]
  <1>1. /\ ftp' = g /\ op' = o /\ stack' = <<fr>> \o below /\ pc' = "cmd"
        /\ Network(g, q, Append(c2s, cmd))
    BY Zenon DEF Send, Issue
  <1>2. below \in Seq(Fitting)
    BY Unstacked
  <1>3. fr.k = k /\ (below = <<>> => Vows(k, o)) /\ (below # <<>> => Vowed(below, o))
    BY BottomForm DEF Vowed
  <1> HIDE DEF below, fr
  <1> QED
    BY <1>1, <1>2, <1>3, LandWhole

LEMMA ResendWhole ==
  ASSUME NEW g, NEW q, NEW frames \in Seq(Fitting), frames # <<>>, Resend(g, q, frames),
         Proper(g), g.ctrl => Rest(q, srv), Vowed(frames, op)
  PROVE  WholeInv'
  <1> DEFINE fr == Head(frames)
             below == Tail(frames)
  <1>1. PICK a \in Paths :
          /\ ftp' = g /\ stack' = <<[fr EXCEPT !.cmd.a = a]>> \o below /\ pc' = "cmd"
          /\ Network(g, q, Append(c2s, [fr EXCEPT !.cmd.a = a].cmd)) /\ op' = op
    BY Zenon DEF Resend
  <1>2. below \in Seq(Fitting) /\ fr \in Fitting
    BY Unstacked
  <1> DEFINE again == [fr EXCEPT !.cmd.a = a]
  <1>3. again.k = fr.k
    BY <1>2 DEF Fitting, FrameSet
  <1>4. IF below = <<>> THEN Vows(again.k, op') ELSE Vowed(below, op')
    BY <1>1, <1>3, BottomForm DEF Vowed
  <1>5. \E c : ftp' = g /\ stack' = <<again>> \o below /\ pc' = "cmd" /\ Network(g, q, c)
    BY <1>1
  <1> HIDE DEF again, below
  <1> QED
    BY <1>2, <1>4, <1>5, LandWhole

\* A step outside ftp_read_directory caches nothing and vows nothing.
LEMMA MovedWhole ==
  ASSUME stack \in Seq(Fitting), stack # <<>>, Head(stack).k \notin Lists,
         Tail(stack) # <<>> => Head(stack).k \in Logins /\ Vowed(stack, op),
         NEW f, Good(f), Proper(f), NEW q, Moved(f, q), f.ctrl => Rest(q, srv)
  PROVE  WholeInv'
  <1> PICK g : /\ Keeps(g, f)
               /\ \/ Prompt(g, q)
                  \/ \E o, cmd, k : Follows(o, cmd, k) /\ Send(g, q, o, cmd, k)
                  \/ Tail(stack) # <<>> /\ Resend(g, q, Tail(stack))
                  \/ pc' = "crashed" /\ ftp' = g /\ Network(g, q, c2s) /\ UNCHANGED <<stack, op>>
    BY Zenon DEF Moved
  <1>1. Proper(g) /\ (g.ctrl => Rest(q, srv))
    BY DEF Keeps, Proper
  <1>2. CASE Prompt(g, q)
    BY <1>1, <1>2, PromptWhole
  <1>3. CASE \E o, cmd, k : Follows(o, cmd, k) /\ Send(g, q, o, cmd, k)
    <2> PICK o, cmd, k : Follows(o, cmd, k) /\ Send(g, q, o, cmd, k)
      BY <1>3, Zenon
    <2>1. k # "lsBack" /\ (Tail(stack) # <<>> => o = op)
      BY DEF Follows, Lists
    <2>2. IF stack = <<>> \/ Tail(stack) = <<>> THEN Vows(k, o) ELSE Vowed(stack, o)
      BY <2>1 DEF Vows
    <2> QED
      BY <1>1, <2>2, SendWhole
  <1>4. CASE Tail(stack) # <<>> /\ Resend(g, q, Tail(stack))
    <2> DEFINE t == Tail(stack)
    <2>1. t \in Seq(Fitting) /\ t # <<>> /\ Resend(g, q, t)
      BY <1>4, Unstacked
    <2>2. Vowed(t, op)
      BY <1>4, BottomForm DEF Vowed
    <2> HIDE DEF t
    <2> QED
      BY <1>1, <2>1, <2>2, ResendWhole
  <1>5. CASE pc' = "crashed" /\ ftp' = g /\ Network(g, q, c2s) /\ UNCHANGED <<stack, op>>
    BY <1>1, <1>5, AsideWhole
  <1> QED
    BY <1>2, <1>3, <1>4, <1>5

\* In ftp_read_directory: the way back from a failure vows nothing.
LEMMA ListsWhole ==
  ASSUME stack \in Seq(Fitting), stack = <<>> \/ Tail(stack) = <<>>,
         NEW f, Proper(f), NEW g, Good(g), Alike(g, f), NEW q, NEW p,
         Relists(g, q, p) \/ GivesUp(g, q, p), f.ctrl => Rest(q, srv)
  PROVE  WholeInv'
  <1>1. Proper(g) /\ (g.ctrl => Rest(q, srv))
    BY DEF Alike, Proper
  <1>2. CASE EndCmd(g, q)
    BY <1>1, <1>2, EndWhole
  <1>3. CASE \E cmd, k : Vows(k, p) /\ Send(g, q, p, cmd, k)
    BY <1>1, <1>3, SendWhole
  <1>4. \/ EndCmd(g, q)
        \/ Send(g, q, p, Verb("PASV"), "lsPasv")
        \/ p.failed /\ Send(g, q, p, Cmd("CWD", g.curdir, 0), "lsBack")
    BY Zenon DEF Relists, GivesUp
  <1>5. Vows("lsPasv", p) /\ (p.failed => Vows("lsBack", p))
    BY DEF Vows
  <1> QED
    BY <1>2, <1>3, <1>4, <1>5

LEMMA FailedWhole ==
  ASSUME stack \in Seq(Fitting), Tail(stack) = <<>>, op \in OpSet,
         NEW f, Good(f), Proper(f), NEW q, ListFailed(f, q, op), f.ctrl => Rest(q, srv)
  PROVE  WholeInv'
  <1> PICK g : \E p : Good(g) /\ Alike(g, f) /\ (Relists(g, q, p) \/ GivesUp(g, q, p))
    BY ListFailedMoves
  <1> PICK p : Good(g) /\ Alike(g, f) /\ (Relists(g, q, p) \/ GivesUp(g, q, p))
    OBVIOUS
  <1> QED
    BY ListsWhole

-----------------------------------------------------------------------------
(* ftp_cmd.                                                                *)

LEMMA ContinueWhole ==
  ASSUME TypeInv, CallsInv, pc = "cmd", ~LocalFails, Vowed(stack, op),
         NEW f, Good(f), Proper(f), NEW q, NEW r \in ReplySet, Continue(f, q, r),
         Starts(r) => Counts(q, dconn) /\ f.ctrl,
         f.ctrl /\ ~Starts(r) => Rest(q, srv)
  PROVE  WholeInv'
  <1> DEFINE k == Head(stack).k
  <1>1. stack \in Seq(Fitting) /\ stack # <<>> /\ Calls(stack, op) /\ op \in OpSet
    BY DEF TypeInv, TypeOK, CallsInv
  <1>2. IF Tail(stack) = <<>> THEN Owns(op, k) ELSE k \in Logins
    BY <1>1, CallsForm
  <1>3. IF Starts(r) THEN Block(f, q, op, "data") ELSE Moved(f, q)
    BY <1>1, ContinueMoves
  <1>4. CASE Starts(r)
    <2>1. pc' = "data" /\ ftp' = f /\ s2c' = q /\ dconn' = dconn
      BY <1>3, <1>4, Zenon DEF Block, Network
    <2> QED
      BY <1>4, <2>1 DEF WholeInv, Whole
  <1>5. CASE ~Starts(r) /\ k \notin Lists
    BY <1>1, <1>2, <1>3, <1>5, MovedWhole
  <1>6. CASE ~Starts(r) /\ k \in Lists
    <2>1. Tail(stack) = <<>> /\ (f.ctrl => Rest(q, srv))
      BY <1>2, <1>6 DEF Lists, Logins
    <2>2. \/ k = "lsCwd" /\ (ListStart(f, q, op) \/ EndCmd(f, q))
          \/ k = "lsPasv" /\ AfterListPasv(f, q, r)
          \/ k = "lsList" /\ AfterList(f, q, r)
          \/ k = "lsBack" /\ EndCmd(ListCached(f, op), q)
      BY <1>6, Zenon DEF Continue, Lists
    <2>3. CASE EndCmd(f, q)
      BY <2>3, EndWhole
    <2>4. CASE ListStart(f, q, op)
      <3> PICK g : \E p : Good(g) /\ Alike(g, f) /\ (Relists(g, q, p) \/ GivesUp(g, q, p))
        BY <1>1, <2>4, ListStartMoves
      <3> PICK p : Good(g) /\ Alike(g, f) /\ (Relists(g, q, p) \/ GivesUp(g, q, p))
        OBVIOUS
      <3> QED
        BY <1>1, <2>1, ListsWhole
    <2>5. CASE AfterListPasv(f, q, r)
      <3>1. CASE Send(f, q, op, Verb(op.verb), "lsList")
        <4> Vows("lsList", op)
          BY DEF Vows
        <4> QED
          BY <1>1, <2>1, <3>1, SendWhole
      <3>2. CASE \E g, p : Good(g) /\ Alike(g, f) /\ (Relists(g, q, p) \/ GivesUp(g, q, p))
        BY <1>1, <2>1, <3>2, ListsWhole
      <3> QED
        BY <1>1, <2>5, <3>1, <3>2, PasvMoves
    <2>6. CASE k = "lsList" /\ AfterList(f, q, r)
      <3>1. Class(r) # 1
        BY <1>6, <2>6 DEF Starts, Transfers
      <3>2. ListFailed(f, q, op)
        BY <2>6, <3>1, Zenon DEF AfterList
      <3> QED
        BY <1>1, <2>1, <3>2, FailedWhole
    <2>7. CASE k = "lsBack" /\ EndCmd(ListCached(f, op), q)
      <3>1. ~op.failed => op.whole
        BY <1>1, <2>1, <2>7, BottomForm DEF Vowed, Vows
      <3> QED
        BY <1>1, <2>7, <3>1, ProperForms, CachedForm, EndWhole
    <2> QED
      BY <2>2, <2>3, <2>4, <2>5, <2>6, <2>7
  <1> QED
    BY <1>4, <1>5, <1>6

LEMMA CmdWhole ==
  ASSUME TypeInv, CallsInv, Synchronous, WholeInv, ~LocalFails, CmdReply \/ CmdEof \/ CmdNoCtrl
  PROVE  WholeInv'
  <1>1. pc = "cmd"
    BY Zenon DEF CmdReply, CmdEof, CmdNoCtrl
  <1>2. Vowed(stack, op) /\ Proper(ftp)
    BY <1>1 DEF WholeInv, Whole
  <1>3. CASE CmdReply
    <2> DEFINE r == Head(s2c)
               f == [ftp EXCEPT !.full = Head(s2c).full]
    <2>1. ftp.ctrl /\ s2c # <<>>
      BY <1>3, Zenon DEF CmdReply
    <2>2. r \in ReplySet /\ Good(f) /\ Alike(f, ftp)
      BY <1>1, <2>1, FullForm DEF Opening
    <2>3. IF Starts(r) THEN Moving(Tail(s2c), srv) ELSE Rest(Tail(s2c), srv)
      BY <1>1, <2>1, ReplyForm DEF Synchronous
    <2>4. \/ /\ ftp' = f /\ pc' = "connect" /\ op' = op
             /\ stack' = [stack EXCEPT ![1].recon = TRUE]
          \/ Continue(f, Tail(s2c), r)
      BY <1>3, Zenon DEF CmdReply
    <2>5. Starts(r) => Counts(Tail(s2c), dconn)
      BY <1>1, <2>1 DEF WholeInv, Whole, Starts
    <2> HIDE DEF r, f
    <2>6. Proper(f) /\ f.ctrl
      BY <1>2, <2>1, <2>2 DEF Alike, Proper
    <2>7. CASE Continue(f, Tail(s2c), r)
      BY <1>1, <1>2, <2>2, <2>3, <2>5, <2>6, <2>7, ContinueWhole
    <2>8. CASE /\ ftp' = f /\ pc' = "connect" /\ op' = op
               /\ stack' = [stack EXCEPT ![1].recon = TRUE]
      <3> DEFINE n == Len(stack)
      <3>1. stack \in Seq(Fitting) /\ n \in 1..Len(stack)
        BY <1>1 DEF TypeInv
      <3>2. Len(stack') = n /\ stack'[n].k = stack[n].k
        BY <2>8, <3>1 DEF Fitting, FrameSet
      <3>3. Bottom(stack') = Bottom(stack) /\ stack # <<>>
        BY <3>1, <3>2 DEF Base, Bottom
      <3> QED
        BY <1>2, <2>6, <2>8, <3>3 DEF WholeInv, Whole, Vowed
    <2> QED
      BY <2>4, <2>7, <2>8
  <1>4. CASE CmdEof \/ CmdNoCtrl
    <2>1. \E f : Good(f) /\ Proper(f) /\ ~f.ctrl /\ Continue(f, <<>>, NoReply)
      <3>1. CASE CmdEof
        <4> Proper(Close(ftp))
          BY DEF Close, Proper, TypeInv, TypeOK, FtpSet
        <4> QED
          BY <3>1, ClosedForm, Zenon DEF CmdEof
      <3>2. CASE CmdNoCtrl
        <4> DEFINE f == [ftp EXCEPT !.full = 0]
        <4>1. ~ftp.ctrl /\ Continue(f, <<>>, NoReply)
          BY <3>2, Zenon DEF CmdNoCtrl
        <4>2. Good(ftp) /\ 0 \in Codes
          BY <1>1 DEF TypeInv, Good, Opening, Codes
        <4>3. Good(f) /\ Alike(f, ftp)
          BY <4>2, FieldForms, AlikeForms
        <4> HIDE DEF f
        <4> QED
          BY <1>2, <4>1, <4>3 DEF Alike, Proper
      <3> QED
        BY <1>4, <3>1, <3>2
    <2> PICK f : Good(f) /\ Proper(f) /\ ~f.ctrl /\ Continue(f, <<>>, NoReply)
      BY <2>1
    <2> QED
      BY <1>1, <1>2, NoReplyTyped, NoReplyForm, ContinueWhole
  <1> QED
    BY <1>3, <1>4

-----------------------------------------------------------------------------
(* The connection.                                                         *)

LEMMA OpeningWhole ==
  ASSUME TypeInv, Synchronous, WholeInv, ConnectOk \/ ConnectFail \/ Welcome
  PROVE  WholeInv'
  <1>1. pc \in {"connect", "welcome"}
    BY Zenon DEF ConnectOk, ConnectFail, Welcome
  <1>2. Vowed(stack, op) /\ Proper(ftp) /\ ftp \in FtpSet /\ stack \in Seq(Fitting)
    BY <1>1 DEF WholeInv, Whole, TypeInv, TypeOK
  <1>3. CASE OpenFailed(Close(ftp))
    <2> DEFINE f == Close(ftp)
    <2>1. Good(f) /\ ~f.ctrl /\ Proper(f)
      BY <1>2, ClosedForm DEF Close, Proper, FtpSet
    <2> HIDE DEF f
    <2>2. \/ stack = <<>> /\ EndCmd(f, <<>>)
          \/ stack # <<>> /\ Resend(f, <<>>, stack)
      BY <1>3, Zenon DEF OpenFailed, f
    <2> QED
      BY <1>2, <2>1, <2>2, EndWhole, ResendWhole
  <1>4. CASE ConnectOk
    <2> ftp' = [ftp EXCEPT !.ctrl = TRUE, !.type = "?"] /\ pc' = "welcome" /\ UNCHANGED <<stack, op>>
      BY <1>4, Zenon DEF ConnectOk
    <2> Proper(ftp')
      BY <1>2 DEF FtpSet, Proper
    <2> QED
      BY <1>2 DEF WholeInv, Whole
  <1>5. CASE Welcome
    <2>1. pc = "welcome" /\ ftp.ctrl
      BY <1>5, Zenon DEF Welcome
    <2>2. CASE \E u : /\ s2c # <<>> /\ Head(s2c).full = 220
                      /\ Issue([ftp EXCEPT !.full = 220, !.connected = TRUE, !.url = TRUE,
                                           !.urldir = u],
                               Tail(s2c), op, Verb("USER"), "user", stack)
      <3> PICK u : /\ s2c # <<>> /\ Head(s2c).full = 220
                   /\ Issue([ftp EXCEPT !.full = 220, !.connected = TRUE, !.url = TRUE,
                                        !.urldir = u],
                            Tail(s2c), op, Verb("USER"), "user", stack)
        BY <2>2
      <3> DEFINE g == [ftp EXCEPT !.full = 220, !.connected = TRUE, !.url = TRUE, !.urldir = u]
                 fr == [cmd |-> Verb("USER"), recon |-> FALSE, k |-> "user"]
                 q == Tail(s2c)
      <3>1. Proper(g) /\ fr.k = "user"
        BY <1>2 DEF FtpSet, Proper
      <3>2. Rest(q, srv)
        <4>0. Answered("banner", c2s, s2c, srv)
          BY <2>1 DEF Synchronous
        <4>1. CASE Replied("banner", s2c, srv)
          BY <4>1, RepliedOn
        <4>2. CASE Rest(s2c, srv)
          BY <4>2, RestOn
        <4> QED
          BY <4>0, <4>1, <4>2 DEF Answered
      <3>3. /\ ftp' = g /\ stack' = <<fr>> \o stack /\ pc' = "cmd" /\ op' = op
            /\ Network(g, q, Append(c2s, Verb("USER")))
        BY Zenon DEF Issue
      <3> HIDE DEF g, fr, q
      <3>4. Vows(fr.k, op')
        BY <3>1 DEF Vows
      <3> QED
        BY <1>2, <3>1, <3>2, <3>3, <3>4, LandWhole
    <2>3. CASE OpenFailed(Close(ftp))
      BY <1>3, <2>3
    <2> QED
      BY <1>5, <2>2, <2>3, Zenon DEF Welcome
  <1> QED
    BY <1>3, <1>4, <1>5, Zenon DEF ConnectFail

-----------------------------------------------------------------------------
(* The data connection, and the end of a transfer.                         *)

LEMMA DataWhole ==
  ASSUME TypeInv, CallsInv, Synchronous, CarryInv, WholeInv, ~CutsShort,
         RecvEnd \/ RecvBreak \/ AbortPending \/ SendAbor \/ Drained
  PROVE  WholeInv'
  <1>1. pc \in {"data", "drain"} /\ ftp.ctrl /\ op \in OpSet /\ Proper(ftp)
    <2> pc \in {"data", "drain"}
      BY Zenon DEF RecvEnd, RecvBreak, AbortPending, SendAbor, Drained
    <2> QED
      BY DEF CallsInv, Synchronous, TypeInv, TypeOK, WholeInv, Whole
  <1>2. CASE RecvEnd
    <2> DEFINE o == [op EXCEPT !.whole = dconn.whole, !.of = dconn.of]
    <2>1. pc = "data" /\ dconn.eof /\ Block(ftp, s2c, o, "final")
      BY <1>2, Zenon DEF RecvEnd
    <2>2. o.whole = dconn.whole /\ o.name = op.name /\ o.resume = op.resume
      BY <1>1 DEF OpSet
    <2> HIDE DEF o
    <2>3. /\ pc' = "final" /\ ftp' = ftp /\ op' = o /\ s2c' = s2c /\ dconn' = dconn
      BY <1>1, <2>1, Zenon DEF Block, Network
    <2>4. op.name = "get" => Intact(o, dconn)
      BY <2>1, <2>2 DEF CarryInv, Carry, Intact
    <2>5. Counts(s2c, dconn)
      BY <2>1 DEF WholeInv, Whole
    <2> QED
      BY <1>1, <2>1, <2>2, <2>3, <2>4, <2>5 DEF WholeInv, Whole
  <1>3. CASE SendAbor
    <2> ftp' = ftp /\ pc' = "drain" /\ op' = [op EXCEPT !.abor = TRUE]
      BY <1>3, Zenon DEF SendAbor
    <2> op'.abor
      BY <1>1 DEF OpSet
    <2> QED
      BY <1>1 DEF WholeInv, Whole
  <1>4. CASE Drained
    <2>1. pc = "drain" /\ Block(ftp, s2c, op, IF op.abor THEN "abort1" ELSE "final")
      BY <1>4, Zenon DEF Drained
    <2>2. op.abor \/ GivenUp(op)
      BY <2>1 DEF WholeInv, Whole
    <2>3. ftp' = ftp /\ op' = op /\ pc' = IF op.abor THEN "abort1" ELSE "final"
      BY <2>1, Zenon DEF Block
    <2> QED
      BY <1>1, <2>2, <2>3 DEF WholeInv, Whole
  <1>5. CASE AbortPending /\ op.name = "get"
    <2> DEFINE b == op.name = "get"
    <2>1. /\ pc' = "drain" /\ ftp' = ftp
          /\ op' = [op EXCEPT !.whole = FALSE, !.of = dconn.of, !.failed = b]
      BY <1>5, Zenon DEF AbortPending, Block
    <2>2. op'.name = "get" /\ op'.failed
      BY <1>1, <1>5, <2>1 DEF OpSet
    <2> QED
      BY <1>1, <2>1, <2>2 DEF WholeInv, Whole, GivenUp
  <1>6. AbortPending => op.name \in {"ls", "get"}
    <2> AbortPending => pc = "data"
      BY Zenon DEF AbortPending
    <2> QED
      BY DEF CallsInv
  <1> QED
    BY <1>2, <1>3, <1>4, <1>5, <1>6 DEF CutsShort

\* Success is a reply of class 2, and such a reply says that all was sent.
LEMMA FinalWhole ==
  ASSUME TypeInv, CallsInv, Synchronous, WholeInv, GotWhole, FinalReply \/ FinalEof
  PROVE  WholeInv' /\ GotWhole'
  <1>1. pc = "final"
    BY Zenon DEF FinalReply, FinalEof
  <1>2. /\ stack \in Seq(Fitting) /\ stack # <<>> /\ Tail(stack) = <<>> /\ op \in OpSet
        /\ Moving(s2c, srv) /\ Proper(ftp)
    BY <1>1 DEF TypeInv, TypeOK, CallsInv, Synchronous, Ending, WholeInv, Whole
  <1>3. ASSUME NEW f, Good(f), Proper(f), NEW q, f.ctrl => Rest(q, srv),
               NEW r, GivenUp(op) \/ (Class(r) = 2 => op.whole), TransferEnd(f, q, r)
        PROVE  WholeInv' /\ GotWhole'
    <2>1. \/ op.name = "ls" /\ Class(r) = 2 /\ ListBack(f, q, op) /\ got' = got
          \/ ListFailed(f, q, op) /\ got' = got
          \/ op.name = "get" /\ EndCmd(f, q) /\ (got' = got \/ (Class(r) = 2 /\ Success))
      BY <1>3, Zenon DEF TransferEnd
    <2>2. CASE op.name = "ls" /\ Class(r) = 2 /\ ListBack(f, q, op) /\ got' = got
      <3>1. op.whole
        BY <1>3, <2>2 DEF GivenUp
      <3>2. Good(ListCached(f, op)) /\ Proper(ListCached(f, op))
        BY <1>2, <1>3, <3>1, CachedForm, ProperForms
      <3>3. Vows("lsBack", op)
        BY <3>1 DEF Vows
      <3>4. \/ EndCmd(ListCached(f, op), q)
            \/ Send(f, q, op, Cmd("CWD", f.curdir, 0), "lsBack")
        BY <2>2, Zenon DEF ListBack
      <3>5. WholeInv'
        BY <1>2, <1>3, <3>2, <3>3, <3>4, EndWhole, SendWhole
      <3> QED
        BY <2>2, <3>5 DEF GotWhole
    <2>3. CASE ListFailed(f, q, op) /\ got' = got
      BY <1>2, <1>3, <2>3, FailedWhole DEF GotWhole
    <2>4. CASE op.name = "get" /\ EndCmd(f, q) /\ (got' = got \/ (Class(r) = 2 /\ Success))
      <3>1. WholeInv'
        BY <1>3, <2>4, EndWhole
      <3>2. op.failed \/ Intact(op, dconn)
        BY <1>1, <2>4 DEF WholeInv, Whole, GivenUp
      <3>3. CASE Class(r) = 2 /\ Success
        <4> op.failed \/ op.whole
          BY <1>3, <3>3 DEF GivenUp
        <4> QED
          BY <3>1, <3>2, <3>3 DEF Success, GotWhole, Intact
      <3> QED
        BY <2>4, <3>1, <3>3 DEF GotWhole
    <2> QED
      BY <2>1, <2>2, <2>3, <2>4
  <1>4. CASE FinalReply
    <2> DEFINE f == [ftp EXCEPT !.full = Head(s2c).full]
    <2>1. s2c # <<>> /\ TransferEnd(f, Tail(s2c), Head(s2c))
      BY <1>4, Zenon DEF FinalReply
    <2>2. Good(f) /\ Alike(f, ftp)
      BY <1>1, <2>1, FullForm DEF Opening
    <2> HIDE DEF f
    <2>3. Rest(Tail(s2c), srv) /\ Proper(f)
      BY <1>2, <2>1, <2>2, MovingOn DEF Alike, Proper
    <2>4. GivenUp(op) \/ (Class(Head(s2c)) = 2 => op.whole)
      BY <1>1, <2>1 DEF WholeInv, Whole, Counts
    <2> QED
      BY <1>3, <2>1, <2>2, <2>3, <2>4
  <1>5. CASE FinalEof
    <2> DEFINE f == Close(ftp)
    <2>1. TransferEnd(f, <<>>, NoReply)
      BY <1>5, Zenon DEF FinalEof
    <2>2. Good(f) /\ ~f.ctrl
      BY ClosedForm
    <2>3. Proper(f)
      BY DEF Close, Proper, TypeInv, TypeOK, FtpSet
    <2> HIDE DEF f
    <2>4. GivenUp(op) \/ (Class(NoReply) = 2 => op.whole)
      BY NoReplyForm
    <2> QED
      BY <1>3, <2>1, <2>2, <2>3, <2>4
  <1> QED
    BY <1>4, <1>5

LEMMA AbortWhole ==
  ASSUME TypeInv, CallsInv, Synchronous, WholeInv, AbortReply \/ AbortEof
  PROVE  WholeInv'
  <1>1. pc \in {"abort1", "abort2"}
    BY Zenon DEF AbortReply, AbortEof
  <1>2. /\ stack \in Seq(Fitting) /\ Tail(stack) = <<>> /\ op \in OpSet /\ Proper(ftp) /\ ftp.ctrl
    BY <1>1 DEF TypeInv, TypeOK, CallsInv, Synchronous, WholeInv, Whole
  <1>3. ASSUME NEW f, Good(f), Proper(f), NEW q, f.ctrl => Rest(q, srv), AbortDone(f, q)
        PROVE  WholeInv'
    <2> ListFailed(f, q, op) \/ EndCmd(f, q)
      BY <1>3, Zenon DEF AbortDone
    <2> QED
      BY <1>2, <1>3, FailedWhole, EndWhole
  <1>4. CASE AbortReply
    <2> DEFINE f == [ftp EXCEPT !.full = Head(s2c).full]
    <2>1. s2c # <<>> /\ IF pc = "abort1" THEN Block(f, Tail(s2c), op, "abort2")
                        ELSE AbortDone(f, Tail(s2c))
      BY <1>4, Zenon DEF AbortReply
    <2>2. Good(f) /\ Alike(f, ftp)
      BY <1>1, <2>1, FullForm DEF Opening
    <2> HIDE DEF f
    <2>3. Proper(f)
      BY <1>2, <2>2 DEF Alike, Proper
    <2>4. CASE pc = "abort1"
      <3> pc' = "abort2" /\ ftp' = f
        BY <2>1, <2>4, Zenon DEF Block
      <3> QED
        BY <2>3, AsideWhole
    <2>5. CASE pc = "abort2"
      <3> Due(Verb("ABOR"), c2s, s2c, srv)
        BY <1>2, <2>5 DEF Synchronous
      <3> Rest(Tail(s2c), srv)
        BY <2>1, AborOn
      <3> QED
        BY <1>3, <2>1, <2>2, <2>3, <2>5
    <2> QED
      BY <1>1, <2>4, <2>5
  <1>5. CASE AbortEof
    <2> AbortDone(Close(ftp), <<>>)
      BY <1>5, Zenon DEF AbortEof
    <2> Proper(Close(ftp))
      BY DEF Close, Proper, TypeInv, TypeOK, FtpSet
    <2> QED
      BY <1>3, ClosedForm
  <1> QED
    BY <1>4, <1>5

LEMMA GotKept ==
  ASSUME [Next]_vars, ~(FinalReply \/ FinalEof)
  PROVE  got' = got
  <1>1. CASE UserStep
    BY <1>1, Zenon DEF UserStep, UserOpen, UserReopen, UserUser, UserMkdir, UserClose, UserCd,
                       UserLs, UserGet, Type
  <1>2. CASE ClientStep
    BY <1>2, Zenon DEF ClientStep, CmdReply, CmdEof, CmdNoCtrl, ConnectOk, ConnectFail, Welcome,
                       RecvEnd, RecvBreak, AbortPending, SendAbor, Drained, AbortReply, AbortEof
  <1>3. CASE ServerStep
    BY <1>3, Zenon DEF ServerStep, SrvUser, SrvPass, SrvDenies, SrvPwd, SrvCwd, SrvMkd, SrvPasv,
                       SrvType, SrvRest, SrvList, SrvRetr, SrvQuit, SrvAbor, XferEof, XferReply,
                       Serves, Executes, client
  <1>4. CASE IntJmp \/ IntAbort \/ IntClose \/ Timeout
    BY <1>4, Zenon DEF IntJmp, IntAbort, IntClose, Timeout
  <1>5. CASE SrvDrop \/ (\E d \in Dirs : RemoveDir(d))
    BY <1>5, Zenon DEF SrvDrop, RemoveDir, client
  <1>6. CASE UNCHANGED vars
    BY <1>6, Zenon DEF vars
  <1> QED
    BY <1>1, <1>2, <1>3, <1>4, <1>5, <1>6, Zenon DEF Next, Quiet

-----------------------------------------------------------------------------
(* Commands and signals.                                                   *)

LEMMA UserWhole ==
  ASSUME TypeInv, Synchronous, WholeInv, UserStep
  PROVE  WholeInv'
  <1>1. pc = "prompt"
    BY Zenon DEF UserStep, UserOpen, UserReopen, UserUser, UserMkdir, UserClose, UserCd,
                 UserLs, UserGet, Type
  <1>2. /\ stack = <<>> /\ stack \in Seq(Fitting) /\ op \in OpSet /\ Proper(ftp)
        /\ Proper(Close(ftp))
    BY <1>1 DEF TypeInv, TypeOK, WholeInv, Whole, Close, Proper, FtpSet
  <1>3. ASSUME Connected(ftp)
        PROVE  Good(ftp) /\ Rest(s2c, srv)
    BY <1>1, <1>3 DEF TypeInv, Good, Live, Connected, Synchronous, Idle
  <1>4. LoggedIn(ftp) => Connected(ftp)
    BY DEF LoggedIn, Connected
  <1>5. ASSUME Connected(ftp), NEW o, NEW cmd, NEW k, Send(ftp, s2c, o, cmd, k), k # "lsBack"
        PROVE  WholeInv'
    <2> Vows(k, o)
      BY <1>5 DEF Vows
    <2> QED
      BY <1>2, <1>3, <1>5, SendWhole
  <1>6. ASSUME NEW f, Proper(f), NEW o, Dial(f, o)
        PROVE  WholeInv'
    <2> ftp' = f /\ pc' = "connect" /\ stack' = <<>>
      BY <1>6, Zenon DEF Dial
    <2> QED
      BY <1>6 DEF WholeInv, Whole, Vowed
  <1>7. CASE \E d \in Dirs \cup {NoDir} : UserOpen(d)
    <2> \E o : Dial(Close(ftp), o)
      BY <1>7, Zenon DEF UserOpen
    <2> QED
      BY <1>2, <1>6
  <1>8. CASE UserReopen
    <2> \E o : Dial(ftp, o)
      BY <1>8, Zenon DEF UserReopen
    <2> QED
      BY <1>2, <1>6
  <1>9. CASE \/ UserUser \/ UserMkdir \/ \E d \in Dirs : UserCd(d)
    <2> \E o, cmd, k : k # "lsBack" /\ Connected(ftp) /\ Send(ftp, s2c, o, cmd, k)
      BY <1>4, <1>9 DEF UserUser, UserMkdir, UserCd
    <2> QED
      BY <1>5
  <1>10. CASE UserClose
    <2>1. \/ Connected(ftp) /\ \E o : Send(ftp, s2c, o, Verb("QUIT"), "quit")
          \/ EndCmd(Close(ftp), s2c)
      BY <1>10, Zenon DEF UserClose
    <2> QED
      BY <1>2, <1>5, <2>1, ClosedForm, EndWhole
  <1>11. CASE \E d \in Dirs : UserLs(d)
    <2> PICK d \in Dirs : UserLs(d)
      BY <1>11
    <2> DEFINE b == d = ftp.curdir
               o == [NoOp EXCEPT !.name = "ls", !.dir = d, !.here = b]
    <2>1. b \in BOOLEAN /\ d \in Paths
      BY PathsTyped, Zenon
    <2>2. LoggedIn(ftp) /\ IF Cached(ftp, d) THEN EndCmd(ftp, s2c)
                           ELSE IF o.here THEN ListStart(ftp, s2c, o)
                           ELSE Send(ftp, s2c, o, Cmd("CWD", d, 0), "lsCwd")
      BY Zenon DEF UserLs
    <2> HIDE DEF b
    <2>3. o \in OpSet
      BY <1>2, <2>1, OpForms, Zenon
    <2> HIDE DEF o
    <2>4. Connected(ftp) /\ Good(ftp) /\ Rest(s2c, srv)
      BY <1>3, <1>4, <2>2
    <2>5. CASE EndCmd(ftp, s2c)
      BY <1>2, <2>4, <2>5, EndWhole
    <2>6. CASE ListStart(ftp, s2c, o)
      <3> PICK g : \E p : Good(g) /\ Alike(g, ftp) /\ (Relists(g, s2c, p) \/ GivesUp(g, s2c, p))
        BY <2>3, <2>4, <2>6, ListStartMoves
      <3> PICK p : Good(g) /\ Alike(g, ftp) /\ (Relists(g, s2c, p) \/ GivesUp(g, s2c, p))
        OBVIOUS
      <3> QED
        BY <1>2, <2>4, ListsWhole
    <2>7. CASE Send(ftp, s2c, o, Cmd("CWD", d, 0), "lsCwd")
      BY <1>5, <2>4, <2>7
    <2> QED
      BY <2>2, <2>5, <2>6, <2>7
  <1>12. CASE \E resume \in BOOLEAN : UserGet(resume)
    <2>1. LoggedIn(ftp) /\ ((\E o, cmd : Send(ftp, s2c, o, cmd, "getPasv")) \/ EndCmd(ftp, s2c))
      BY <1>12, Zenon DEF UserGet
    <2> QED
      BY <1>2, <1>3, <1>4, <1>5, <2>1, EndWhole
  <1> QED
    BY <1>7, <1>8, <1>9, <1>10, <1>11, <1>12, Zenon DEF UserStep

LEMMA StillWhole ==
  ASSUME WholeInv, UNCHANGED <<ftp, stack, pc, op, s2c, dconn>>
  PROVE  WholeInv'
  BY DEF WholeInv

LEMMA SignalWhole ==
  ASSUME TypeInv, WholeInv, IntJmp \/ IntAbort \/ IntClose \/ Timeout
  PROVE  WholeInv'
  <1>1. Proper(ftp) /\ Proper(Close(ftp)) /\ Proper([ftp EXCEPT !.ctrl = FALSE])
    BY DEF WholeInv, Whole, TypeInv, TypeOK, FtpSet, Close, Proper
  <1>2. \/ UNCHANGED <<ftp, stack, pc, op, c2s, s2c, net>>
        \/ \E q : LongJmp(ftp, q)
        \/ LongJmp([ftp EXCEPT !.ctrl = FALSE], <<>>)
        \/ LongJmp(Close(ftp), <<>>)
    BY Zenon DEF IntJmp, IntAbort, IntClose, Timeout
  <1>3. CASE UNCHANGED <<ftp, stack, pc, op, c2s, s2c, net>>
    BY <1>3, StillWhole DEF net
  <1> QED
    BY <1>1, <1>2, <1>3, PromptWhole

LEMMA DropWhole ==
  ASSUME TypeInv, WholeInv, SrvDrop
  PROVE  WholeInv'
  <1>1. /\ UNCHANGED <<ftp, stack, pc, op>> /\ dconn' = [dconn EXCEPT !.eof = TRUE]
        /\ Cut(s2c, s2c')
    BY Zenon DEF SrvDrop, client, Cut, Bow
  <1>2. s2c \in Seq(ReplySet) /\ dconn \in DconnSet
    BY DEF TypeInv, TypeOK
  <1>3. /\ dconn'.eof /\ dconn'.whole = dconn.whole /\ dconn'.kind = dconn.kind
        /\ dconn'.type = dconn.type /\ dconn'.rest = dconn.rest
    BY <1>1, <1>2 DEF DconnSet
  <1>4. ASSUME NEW q \in Seq(ReplySet), NEW p, Cut(q, p), Counts(q, dconn)
        PROVE  Counts(p, dconn')
    <2>1. p = <<>> \/ Head(p) = Bow \/ (q # <<>> /\ Head(p) = Head(q))
      BY <1>4, CutForm
    <2>2. Class(Bow) # 2
      BY BowForm DEF Class
    <2> QED
      BY <1>3, <1>4, <2>1, <2>2 DEF Counts
  <1>5. /\ pc = "data" => Counts(s2c', dconn')
        /\ pc = "final" => GivenUp(op) \/ Counts(s2c', dconn')
    BY <1>1, <1>2, <1>4 DEF WholeInv, Whole
  <1>6. ASSUME pc = "cmd", ftp.ctrl, Head(stack).k \in Transfers, s2c' # <<>>, Class(Head(s2c')) = 1
        PROVE  Counts(Tail(s2c'), dconn')
    <2>1. Class(Bow) # 1
      BY BowForm DEF Class
    <2>2. s2c # <<>> /\ Head(s2c') = Head(s2c) /\ Cut(Tail(s2c), Tail(s2c'))
      <3> DEFINE p == s2c'
      <3>1. Cut(s2c, p) /\ p # <<>> /\ Head(p) # Bow
        BY <1>1, <1>6, <2>1
      <3> HIDE DEF p
      <3>2. s2c # <<>> /\ Head(p) = Head(s2c) /\ Cut(Tail(s2c), Tail(p))
        BY <1>2, <3>1, CutForm
      <3> QED
        BY <3>2 DEF p
    <2>3. Counts(Tail(s2c), dconn)
      BY <1>6, <2>2 DEF WholeInv, Whole
    <2>4. Tail(s2c) \in Seq(ReplySet)
      BY <1>2, <2>2
    <2> QED
      BY <1>4, <2>2, <2>3, <2>4
  <1>7. op.name = "get" /\ Intact(op, dconn) => Intact(op, dconn')
    BY <1>3 DEF Intact
  <1> QED
    BY <1>1, <1>3, <1>5, <1>6, <1>7 DEF WholeInv, Whole

-----------------------------------------------------------------------------
(* The server.                                                             *)

LEMMA CommandedWhole ==
  ASSUME TypeInv, CallsInv, Synchronous, WholeInv,
         \/ SrvUser \/ SrvPass \/ SrvDenies \/ SrvPwd \/ SrvCwd \/ SrvMkd
         \/ SrvPasv \/ SrvType \/ SrvRest \/ SrvList \/ SrvRetr \/ SrvQuit
  PROVE  WholeInv'
  <1>1. Commanded
    BY CommandedForm DEF TypeInv, TypeOK
  <1>2. /\ srv.up /\ c2s # <<>> /\ UNCHANGED <<ftp, stack, pc, op>>
        /\ \E r : s2c' = Append(s2c, r)
    BY <1>1, Zenon DEF Commanded
  <1>3. pc \notin {"data", "final"}
    BY <1>2 DEF CallsInv, Synchronous, Ending
  <1>4. pc = "cmd" /\ ftp.ctrl => Tail(s2c') = <<>>
    BY <1>2, Serves1, Appended
  <1> QED
    BY <1>2, <1>3, <1>4 DEF WholeInv, Whole, Counts

\* The reply that ends a transfer says whether all was sent.
LEMMA XferWhole ==
  ASSUME TypeInv, CallsInv, Synchronous, WholeInv, XferEof \/ XferReply
  PROVE  WholeInv'
  <1>1. /\ srv.up /\ srv.xfer /\ UNCHANGED <<ftp, stack, pc, op>> /\ s2c \in Seq(ReplySet)
        /\ \/ s2c' = s2c /\ ~dconn.eof
           \/ /\ s2c' = Append(s2c, Reply(IF dconn.whole THEN 226 ELSE 451, dconn.kind, NoDir))
              /\ dconn' = dconn
    BY Zenon DEF XferEof, XferReply, client, TypeInv, TypeOK
  <1> DEFINE r == Reply(IF dconn.whole THEN 226 ELSE 451, dconn.kind, NoDir)
             p == s2c'
  <1>2. Class(r) = 2 => dconn.whole
    BY DEF Class, Reply
  <1>3. (p = s2c /\ ~dconn.eof) \/ (p = Append(s2c, r) /\ dconn' = dconn)
    BY <1>1
  <1>4. ASSUME NEW q, Moving(q, srv)
        PROVE  q = <<>>
    BY <1>1, <1>4 DEF Moving, Rest
  <1>5. CASE pc \in {"data", "final"}
    <2>1. s2c = <<>>
      BY <1>4, <1>5 DEF CallsInv, Synchronous, Ending
    <2> HIDE DEF r, p
    <2>2. Counts(p, dconn')
      BY <1>1, <1>2, <1>3, <2>1, Appended DEF Counts
    <2>3. pc = "final" => GivenUp(op) \/ dconn' = dconn
      BY <1>3 DEF WholeInv, Whole
    <2> QED
      BY <1>1, <1>5, <2>2, <2>3 DEF WholeInv, Whole, p
  <1>6. CASE pc \notin {"data", "final"}
    <2>1. ASSUME pc = "cmd", ftp.ctrl, Class(Head(p)) = 1
          PROVE  Counts(Tail(p), dconn')
      <3>1. s2c # <<>> /\ Tail(s2c) = <<>>
        <4>1. Due(Head(stack).cmd, c2s, s2c, srv)
          BY <2>1 DEF Synchronous
        <4>2. Replied(Head(stack).cmd.v, s2c, srv)
          BY <1>1, <4>1 DEF Due, Answered
        <4>3. s2c # <<>> /\ (Moving(Tail(s2c), srv) \/ Rest(Tail(s2c), srv))
          BY <4>2 DEF Replied
        <4>4. ~Rest(Tail(s2c), srv)
          BY <1>1 DEF Rest
        <4> QED
          BY <1>4, <4>3, <4>4
      <3> HIDE DEF r, p
      <3>2. Tail(p) = <<>> \/ (Tail(p) = Append(<<>>, r) /\ dconn' = dconn)
        <4>1. Tail(Append(s2c, r)) = Append(Tail(s2c), r)
          BY <1>1, <3>1, Appended
        <4>2. Tail(Append(s2c, r)) = Append(<<>>, r)
          BY <3>1, <4>1, Zenon
        <4> QED
          BY <1>3, <3>1, <4>2, Zenon
      <3>3. <<>> \in Seq(ReplySet)
        OBVIOUS
      <3>4. CASE Tail(p) = <<>>
        BY <3>4 DEF Counts
      <3>5. CASE Tail(p) = Append(<<>>, r) /\ dconn' = dconn
        <4> Head(Tail(p)) = r
          BY <3>3, <3>5, Appended
        <4> QED
          BY <1>2, <3>5 DEF Counts
      <3> QED
        BY <3>2, <3>4, <3>5
    <2> QED
      BY <1>1, <1>6, <2>1 DEF WholeInv, Whole
  <1> QED
    BY <1>5, <1>6

LEMMA AborWhole ==
  ASSUME TypeInv, CallsInv, Synchronous, WholeInv, SrvAbor
  PROVE  WholeInv'
  <1>1. srv.up /\ c2s # <<>> /\ Next1.v = "ABOR" /\ UNCHANGED <<ftp, stack, pc, op>>
    BY Zenon DEF SrvAbor, Executes, client
  <1>2. pc \notin {"data", "final"}
    BY <1>1 DEF CallsInv, Synchronous, Ending
  <1>3. ~(pc = "cmd" /\ ftp.ctrl)
    BY <1>1, Serves1 DEF Speaks
  <1> QED
    BY <1>1, <1>2, <1>3 DEF WholeInv, Whole

-----------------------------------------------------------------------------
(* What counts as received was received whole.                             *)

LEMMA WholeInit ==
  ASSUME Init
  PROVE  WholeInv /\ GotWhole
  <1> pc = "prompt" /\ ftp.cache = {} /\ got = {}
    BY DEF Init
  <1> QED
    BY DEF WholeInv, Whole, Proper, GotWhole

LEMMA WholeStep ==
  ASSUME ~LocalFails, Agreed, CarryInv, WholeInv, GotWhole, ~CutsShort, [Next]_vars
  PROVE  WholeInv' /\ GotWhole'
  <1>1. TypeInv /\ CallsInv /\ Synchronous
    BY DEF Agreed
  <1>2. CASE FinalReply \/ FinalEof
    BY <1>1, <1>2, FinalWhole
  <1>3. CASE ~(FinalReply \/ FinalEof)
    <2>1. GotWhole'
      BY <1>3, GotKept DEF GotWhole
    <2>2. CASE UserStep
      BY <1>1, <2>1, <2>2, UserWhole
    <2>3. CASE CmdReply \/ CmdEof \/ CmdNoCtrl
      BY <1>1, <2>1, <2>3, CmdWhole
    <2>4. CASE ConnectOk \/ ConnectFail \/ Welcome
      BY <1>1, <2>1, <2>4, OpeningWhole
    <2>5. CASE RecvEnd \/ RecvBreak \/ AbortPending \/ SendAbor \/ Drained
      BY <1>1, <2>1, <2>5, DataWhole
    <2>6. CASE AbortReply \/ AbortEof
      BY <1>1, <2>1, <2>6, AbortWhole
    <2>7. CASE ServerStep
      <3> WholeInv'
        BY <1>1, <2>7, CommandedWhole, XferWhole, AborWhole, Zenon DEF ServerStep
      <3> QED
        BY <2>1
    <2>8. CASE IntJmp \/ IntAbort \/ IntClose \/ Timeout
      BY <1>1, <2>1, <2>8, SignalWhole
    <2>9. CASE SrvDrop
      BY <1>1, <2>1, <2>9, DropWhole
    <2>10. CASE (\E d \in Dirs : RemoveDir(d)) \/ UNCHANGED vars
      <3> UNCHANGED <<ftp, stack, pc, op, s2c, dconn>>
        BY <2>10, Zenon DEF RemoveDir, client, vars
      <3> QED
        BY <2>1, StillWhole
    <2> QED
      BY <1>3, <2>2, <2>3, <2>4, <2>5, <2>6, <2>7, <2>8, <2>9, <2>10, Zenon
         DEF Next, ClientStep, Quiet
  <1> QED
    BY <1>2, <1>3

(* What counts as received was received whole: the listings that are       *)
(* cached, also those that a reconnect or a second LIST delayed, and the   *)
(* file of a get that reports success.  Set apart are the two interrupts   *)
(* after which ftp_list or FILE_recv_binary forgets that it was cut short, *)
(* and those that RepliesMatch sets apart.                                 *)
THEOREM SuccessIsWhole ==
  ASSUME ~LocalFails
  PROVE  Spec /\ [][~Abandons /\ ~CutsShort]_vars => []ReceivedWhole
  <1> DEFINE Inv == Agreed /\ CarryInv /\ WholeInv /\ GotWhole
  <1>1. Init => Inv
    BY AgreedInit, CarryInit, WholeInit
  <1>2. Inv /\ [Next]_vars /\ [~Abandons /\ ~CutsShort]_vars => Inv'
    <2> SUFFICES ASSUME Inv, [Next]_vars, [~Abandons /\ ~CutsShort]_vars
                 PROVE  Inv'
      OBVIOUS
    <2>1. Agreed' /\ CarryInv'
      BY AgreedStep, CarryStep
    <2>2. WholeInv' /\ GotWhole'
      <3>1. CASE ~CutsShort
        BY <3>1, WholeStep
      <3>2. CASE UNCHANGED vars
        <4> UNCHANGED <<ftp, stack, pc, op, s2c, dconn, got>>
          BY <3>2, Zenon DEF vars
        <4> QED
          BY StillWhole DEF GotWhole
      <3> QED
        BY <3>1, <3>2
    <2> QED
      BY <2>1, <2>2
  <1>3. Inv => ReceivedWhole
    BY DEF WholeInv, Whole, Proper, GotWhole, ReceivedWhole
  <1> QED
    BY <1>1, <1>2, <1>3, PTL DEF Spec

-----------------------------------------------------------------------------
(* Which directory is listed.  Between the CWD there and the way back the  *)
(* server is in the directory of the ls, and so is what it lists.          *)

Labelled(f) == \A e \in f.cache : e.of = e.path
AtDir(o, s) == Serving(s) => s.cwd = o.dir
Listing == {"lsPasv", "lsList"}

\* What the first activation goes to, and what the last one files.
Meant(fr, o) == /\ fr.k = "lsCwd" => fr.cmd.a = o.dir
                /\ fr.k = "lsBack" /\ ~o.failed => o.of = o.dir
Rooted(st, o) == st # <<>> => Meant(Base(st), o)

\* No reconnect has begun within a listing.
Stays(st) == st # <<>> => Bottom(st) \notin Listing

Stands(k, o, q, s, d) ==
  /\ k = "lsCwd" /\ Yes(q) => AtDir(o, s)
  /\ k \in Listing => AtDir(o, s)
  /\ k = "lsList" /\ q # <<>> /\ Class(Head(q)) = 1 => d.of = o.dir
Receives(p, o, s, d) ==
  /\ AtDir(o, s)
  /\ p = "data" => d.of = o.dir
  /\ p = "drain" => o.abor \/ o.of = o.dir
  /\ p = "final" => o.of = o.dir

Label(p, f, st, o, q, s, d) ==
  /\ Labelled(f)
  /\ p \in {"cmd", "connect", "welcome"} => Rooted(st, o)
  /\ p \in {"connect", "welcome"} => Stays(st)
  /\ p = "cmd" /\ Tail(st) # <<>> => Stays(st)
  /\ p = "cmd" /\ f.ctrl => Stands(Head(st).k, o, q, s, d)
  /\ p \in Moment /\ o.name = "ls" => Receives(p, o, s, d)
LabelInv == Label(pc, ftp, stack, op, s2c, srv, dconn)

\* A session is lost within a listing, and ftp_cmd reconnects to the current
\* directory, from which it goes on.
Strays == CmdReply /\ pc' = "connect" /\ Head(stack).k \in Listing

-----------------------------------------------------------------------------
(* Where a step may land.                                                  *)

LEMMA LabelledForms ==
  ASSUME NEW f, Good(f), Labelled(f)
  PROVE  /\ Labelled(Flush(f)) /\ Labelled(Close(f))
         /\ \A g : Alike(g, f) => Labelled(g)
         /\ \A o : (~o.failed => o.of = o.dir) => Labelled(ListCached(f, o))
  <1> f \in FtpSet
    BY DEF Good, FtpOK
  <1>1. Labelled(Flush(f)) /\ Labelled(Close(f))
    BY DEF FtpSet, Flush, Close, Labelled
  <1>2. \A g : Alike(g, f) => Labelled(g)
    BY DEF Alike, Labelled
  <1>3. \A o : (~o.failed => o.of = o.dir) => Labelled(ListCached(f, o))
    BY DEF FtpSet, ListCached, Labelled
  <1> QED
    BY <1>1, <1>2, <1>3

LEMMA AsideLabel ==
  ASSUME Labelled(ftp'), pc' \in {"prompt", "crashed"}
  PROVE  LabelInv'
  BY DEF LabelInv, Label, Moment

LEMMA PromptLabel ==
  ASSUME NEW g, NEW q, Labelled(g), Prompt(g, q) \/ LongJmp(g, q)
  PROVE  LabelInv'
  <1> ftp' = g /\ pc' = "prompt"
    BY Zenon DEF Prompt, LongJmp
  <1> QED
    BY AsideLabel

LEMMA EndLabel ==
  ASSUME NEW f, Good(f), Labelled(f), NEW q, EndCmd(f, q)
  PROVE  LabelInv'
  BY LabelledForms, PromptLabel, Zenon DEF EndCmd

\* The activation of a command that is sent now.
LEMMA LandLabel ==
  ASSUME NEW g, NEW q, NEW c, NEW fr, NEW below \in Seq(Fitting),
         ftp' = g, stack' = <<fr>> \o below, pc' = "cmd", Network(g, q, c),
         Labelled(g), g.ctrl => Rest(q, srv),
         IF below = <<>> THEN Meant(fr, op') ELSE Rooted(below, op') /\ Stays(below),
         fr.k \in Listing /\ g.ctrl => AtDir(op', srv)
  PROVE  LabelInv'
  <1>1. Rooted(stack', op') /\ (below # <<>> => Stays(stack'))
    BY BaseForm DEF Rooted, Stays, Bottom
  <1>2. Head(stack') = fr /\ Tail(stack') = below
    BY FrameHead
  <1>3. g.ctrl => s2c' = q /\ srv' = srv
    BY Zenon DEF Network
  <1>4. g.ctrl /\ q # <<>> => Class(Head(q)) = 4
    BY RestFails
  <1>5. g.ctrl => Stands(fr.k, op', s2c', srv', dconn')
    BY <1>3, <1>4 DEF Stands, Yes, Listing
  <1> QED
    BY <1>1, <1>2, <1>5 DEF LabelInv, Label, Moment

LEMMA SendLabel ==
  ASSUME stack \in Seq(Fitting), NEW g, NEW q, NEW o, NEW cmd, NEW k, Send(g, q, o, cmd, k),
         Labelled(g), g.ctrl => Rest(q, srv),
         IF stack = <<>> \/ Tail(stack) = <<>>
         THEN Meant([cmd |-> cmd, recon |-> FALSE, k |-> k], o)
         ELSE Rooted(stack, o) /\ Stays(stack),
         k \in Listing /\ g.ctrl => AtDir(o, srv)
  PROVE  LabelInv'
  <1> DEFINE below == IF stack = <<>> THEN <<>> ELSE Tail(stack)
             fr == [cmd |-> cmd, recon |-> FALSE, k |-> k]
  <1>1. /\ ftp' = g /\ op' = o /\ stack' = <<fr>> \o below /\ pc' = "cmd"
        /\ Network(g, q, Append(c2s, cmd))
    BY Zenon DEF Send, Issue
  <1>2. below \in Seq(Fitting)
    BY Unstacked
  <1>3. fr.k = k /\ (below = <<>> => Meant(fr, o))
        /\ (below # <<>> => Rooted(below, o) /\ Stays(below))
    BY BaseForm DEF Rooted, Stays, Bottom
  <1> HIDE DEF below, fr
  <1> QED
    BY <1>1, <1>2, <1>3, LandLabel

\* The command of an interrupted activation is sent again.
LEMMA ResendLabel ==
  ASSUME NEW g, NEW q, NEW frames \in Seq(Fitting), frames # <<>>, Resend(g, q, frames),
         Labelled(g), g.ctrl => Rest(q, srv), Rooted(frames, op), Stays(frames),
         Tail(frames) # <<>> => Head(frames).k \in Logins
  PROVE  LabelInv'
  <1> DEFINE fr == Head(frames)
             below == Tail(frames)
  <1>1. PICK a \in Paths :
          /\ a # fr.cmd.a => fr.k = "loginCwd"
          /\ ftp' = g /\ stack' = <<[fr EXCEPT !.cmd.a = a]>> \o below /\ pc' = "cmd"
          /\ Network(g, q, Append(c2s, [fr EXCEPT !.cmd.a = a].cmd)) /\ op' = op
    BY Zenon DEF Resend
  <1>2. below \in Seq(Fitting) /\ fr \in Fitting
    BY Unstacked
  <1> DEFINE again == [fr EXCEPT !.cmd.a = a]
  <1>3. again.k = fr.k /\ again.cmd.a = a
    BY <1>2 DEF Fitting, FrameSet, CmdSet
  <1>4. \E c : ftp' = g /\ stack' = <<again>> \o below /\ pc' = "cmd" /\ Network(g, q, c)
    BY <1>1
  <1>5. op' = op /\ (a # fr.cmd.a => fr.k = "loginCwd")
    BY <1>1
  <1>6. IF below = <<>> THEN Meant(fr, op) /\ fr.k \notin Listing
        ELSE Rooted(below, op) /\ Stays(below) /\ fr.k \notin Listing
    BY BaseForm DEF Rooted, Stays, Bottom, Listing, Logins
  <1> HIDE DEF again, below, fr
  <1>7. Rooted(below, op') /\ again.k \notin Listing
    BY <1>3, <1>5, <1>6 DEF Rooted
  <1>8. below = <<>> => Meant(again, op')
    BY <1>3, <1>5, <1>6 DEF Meant
  <1> QED
    BY <1>2, <1>4, <1>6, <1>7, <1>8, LandLabel

\* A step outside ftp_read_directory lists nothing.
LEMMA MovedLabel ==
  ASSUME stack \in Seq(Fitting), stack # <<>>, Calls(stack, op), Head(stack).k \notin Lists,
         Tail(stack) # <<>> => Rooted(stack, op) /\ Stays(stack),
         NEW f, Good(f), Labelled(f), NEW q, Moved(f, q), f.ctrl => Rest(q, srv)
  PROVE  LabelInv'
  <1> PICK g : /\ Keeps(g, f)
               /\ \/ Prompt(g, q)
                  \/ \E o, cmd, k : Follows(o, cmd, k) /\ Send(g, q, o, cmd, k)
                  \/ Tail(stack) # <<>> /\ Resend(g, q, Tail(stack))
                  \/ pc' = "crashed" /\ ftp' = g /\ Network(g, q, c2s) /\ UNCHANGED <<stack, op>>
    BY Zenon DEF Moved
  <1>1. Labelled(g) /\ (g.ctrl => Rest(q, srv))
    BY DEF Keeps, Labelled
  <1>2. CASE Prompt(g, q)
    BY <1>1, <1>2, PromptLabel
  <1>3. CASE \E o, cmd, k : Follows(o, cmd, k) /\ Send(g, q, o, cmd, k)
    <2> PICK o, cmd, k : Follows(o, cmd, k) /\ Send(g, q, o, cmd, k)
      BY <1>3, Zenon
    <2>1. k \notin Lists /\ (Tail(stack) # <<>> => o = op)
      BY CallsForm DEF Follows
    <2>2. k \notin {"lsCwd", "lsBack"} /\ k \notin Listing
      BY <2>1 DEF Lists, Listing
    <2>3. Meant([cmd |-> cmd, recon |-> FALSE, k |-> k], o)
      BY <2>2 DEF Meant
    <2> QED
      BY <1>1, <2>1, <2>2, <2>3, SendLabel
  <1>4. CASE Tail(stack) # <<>> /\ Resend(g, q, Tail(stack))
    <2> DEFINE t == Tail(stack)
    <2>1. t \in Seq(Fitting) /\ t # <<>> /\ Resend(g, q, t)
      BY <1>4, Unstacked
    <2>2. Rooted(t, op) /\ Stays(t)
      BY <1>4, BaseForm DEF Rooted, Stays, Bottom
    <2>3. Calls(t, op)
      BY <1>4, CallsForm
    <2> HIDE DEF t
    <2>4. Tail(t) # <<>> => Head(t).k \in Logins
      BY <2>1, <2>3, CallsForm
    <2> QED
      BY <1>1, <2>1, <2>2, <2>4, ResendLabel
  <1>5. CASE pc' = "crashed" /\ ftp' = g /\ Network(g, q, c2s) /\ UNCHANGED <<stack, op>>
    BY <1>1, <1>5, AsideLabel
  <1> QED
    BY <1>2, <1>3, <1>4, <1>5

\* In ftp_read_directory: what is listed next is where the server is, and the
\* way back from a failure files nothing.
LEMMA ListsLabel ==
  ASSUME stack \in Seq(Fitting), stack = <<>> \/ Tail(stack) = <<>>,
         NEW f, Labelled(f), NEW g, Good(g), Alike(g, f), NEW q, NEW p,
         Relists(g, q, p) \/ GivesUp(g, q, p), f.ctrl => Rest(q, srv) /\ AtDir(p, srv)
  PROVE  LabelInv'
  <1>1. Labelled(g) /\ (g.ctrl => Rest(q, srv) /\ AtDir(p, srv))
    BY DEF Alike, Labelled
  <1>2. CASE EndCmd(g, q)
    BY <1>1, <1>2, EndLabel
  <1>3. CASE Send(g, q, p, Verb("PASV"), "lsPasv")
    <2> Meant([cmd |-> Verb("PASV"), recon |-> FALSE, k |-> "lsPasv"], p)
      BY DEF Meant
    <2> QED
      BY <1>1, <1>3, SendLabel
  <1>4. CASE p.failed /\ Send(g, q, p, Cmd("CWD", g.curdir, 0), "lsBack")
    <2> Meant([cmd |-> Cmd("CWD", g.curdir, 0), recon |-> FALSE, k |-> "lsBack"], p)
      BY <1>4 DEF Meant
    <2> QED
      BY <1>1, <1>4, SendLabel DEF Listing
  <1> QED
    BY <1>2, <1>3, <1>4, Zenon DEF Relists, GivesUp

LEMMA FailedLabel ==
  ASSUME stack \in Seq(Fitting), Tail(stack) = <<>>, op \in OpSet,
         NEW f, Good(f), Labelled(f), NEW q, ListFailed(f, q, op),
         f.ctrl => Rest(q, srv) /\ AtDir(op, srv)
  PROVE  LabelInv'
  <1> PICK g : \E p : /\ Good(g) /\ Alike(g, f) /\ SameJob(p, op)
                      /\ Relists(g, q, p) \/ GivesUp(g, q, p)
    BY ListFailedMoves
  <1> PICK p : /\ Good(g) /\ Alike(g, f) /\ SameJob(p, op)
               /\ Relists(g, q, p) \/ GivesUp(g, q, p)
    OBVIOUS
  <1> f.ctrl => AtDir(p, srv)
    BY DEF SameJob, AtDir
  <1> QED
    BY ListsLabel

-----------------------------------------------------------------------------
(* ftp_cmd.                                                                *)

LEMMA ContinueLabel ==
  ASSUME TypeInv, CallsInv, pc = "cmd", ~LocalFails, Rooted(stack, op),
         Tail(stack) # <<>> => Stays(stack),
         NEW f, Good(f), Labelled(f), NEW q, NEW r \in ReplySet, Continue(f, q, r),
         Starts(r) => f.ctrl,
         f.ctrl /\ Head(stack).k = "lsCwd" /\ Class(r) = 2 => AtDir(op, srv),
         f.ctrl /\ Head(stack).k \in Listing => AtDir(op, srv),
         Starts(r) /\ Head(stack).k = "lsList" => dconn.of = op.dir,
         f.ctrl /\ ~Starts(r) => Rest(q, srv)
  PROVE  LabelInv'
  <1> DEFINE k == Head(stack).k
  <1>1. stack \in Seq(Fitting) /\ stack # <<>> /\ Calls(stack, op) /\ op \in OpSet
    BY DEF TypeInv, TypeOK, CallsInv
  <1>2. IF Tail(stack) = <<>> THEN Owns(op, k) ELSE k \in Logins
    BY <1>1, CallsForm
  <1>3. IF Starts(r) THEN Block(f, q, op, "data") ELSE Moved(f, q)
    BY <1>1, ContinueMoves
  <1>4. CASE Starts(r)
    <2>1. pc' = "data" /\ ftp' = f /\ op' = op /\ srv' = srv /\ dconn' = dconn
      BY <1>3, <1>4, Zenon DEF Block, Network
    <2>2. op.name = "ls" => k = "lsList"
      BY <1>2, <1>4 DEF Starts, Transfers, Owns, Logins
    <2> QED
      BY <1>4, <2>1, <2>2 DEF LabelInv, Label, Receives, Listing
  <1>5. CASE ~Starts(r) /\ k \notin Lists
    BY <1>1, <1>3, <1>5, MovedLabel
  <1>6. CASE ~Starts(r) /\ k \in Lists
    <2>1. Tail(stack) = <<>> /\ (f.ctrl => Rest(q, srv))
      BY <1>2, <1>6 DEF Lists, Logins
    <2>2. \/ k = "lsCwd" /\ Class(r) = 2 /\ ListStart(f, q, op)
          \/ EndCmd(f, q)
          \/ k = "lsPasv" /\ AfterListPasv(f, q, r)
          \/ k = "lsList" /\ AfterList(f, q, r)
          \/ k = "lsBack" /\ EndCmd(ListCached(f, op), q)
      BY <1>6, Zenon DEF Continue, Lists
    <2>3. CASE EndCmd(f, q)
      BY <2>3, EndLabel
    <2>4. ASSUME NEW g, NEW p, Good(g), Alike(g, f), SameJob(p, op), f.ctrl => AtDir(op, srv),
                 Relists(g, q, p) \/ GivesUp(g, q, p)
          PROVE  LabelInv'
      <3> f.ctrl => AtDir(p, srv)
        BY <2>4 DEF SameJob, AtDir
      <3> QED
        BY <1>1, <2>1, <2>4, ListsLabel
    <2>5. CASE k = "lsCwd" /\ Class(r) = 2 /\ ListStart(f, q, op)
      <3> PICK g : \E p : /\ Good(g) /\ Alike(g, f) /\ SameJob(p, op)
                          /\ Relists(g, q, p) \/ GivesUp(g, q, p)
        BY <1>1, <2>5, ListStartMoves
      <3> QED
        BY <2>4, <2>5
    <2>6. CASE k = "lsPasv" /\ AfterListPasv(f, q, r)
      <3>1. f.ctrl => AtDir(op, srv)
        BY <2>6 DEF Listing
      <3>2. CASE Send(f, q, op, Verb(op.verb), "lsList")
        <4> Meant([cmd |-> Verb(op.verb), recon |-> FALSE, k |-> "lsList"], op)
          BY DEF Meant
        <4> QED
          BY <1>1, <2>1, <3>1, <3>2, SendLabel
      <3>3. CASE \E g, p : /\ Good(g) /\ Alike(g, f) /\ SameJob(p, op)
                           /\ Relists(g, q, p) \/ GivesUp(g, q, p)
        BY <2>4, <3>1, <3>3
      <3> QED
        BY <1>1, <2>6, <3>2, <3>3, PasvMoves
    <2>7. CASE k = "lsList" /\ AfterList(f, q, r)
      <3>1. Class(r) # 1
        BY <1>6, <2>7 DEF Starts, Transfers
      <3>2. ListFailed(f, q, op)
        BY <2>7, <3>1, Zenon DEF AfterList
      <3> QED
        BY <1>1, <2>1, <2>7, <3>2, FailedLabel DEF Listing
    <2>8. CASE k = "lsBack" /\ EndCmd(ListCached(f, op), q)
      <3>1. ~op.failed => op.of = op.dir
        BY <1>1, <2>1, <2>8, BaseForm DEF Rooted, Meant
      <3> QED
        BY <1>1, <2>8, <3>1, LabelledForms, CachedForm, EndLabel
    <2> QED
      BY <2>2, <2>3, <2>5, <2>6, <2>7, <2>8
  <1> QED
    BY <1>4, <1>5, <1>6

LEMMA CmdLabel ==
  ASSUME TypeInv, CallsInv, Synchronous, LabelInv, ~LocalFails, ~Strays,
         CmdReply \/ CmdEof \/ CmdNoCtrl
  PROVE  LabelInv'
  <1>1. pc = "cmd"
    BY Zenon DEF CmdReply, CmdEof, CmdNoCtrl
  <1>2. /\ Rooted(stack, op) /\ Labelled(ftp) /\ (Tail(stack) # <<>> => Stays(stack))
        /\ ftp.ctrl => Stands(Head(stack).k, op, s2c, srv, dconn)
    BY <1>1 DEF LabelInv, Label
  <1>3. CASE CmdReply
    <2> DEFINE r == Head(s2c)
               f == [ftp EXCEPT !.full = Head(s2c).full]
    <2>1. ftp.ctrl /\ s2c # <<>>
      BY <1>3, Zenon DEF CmdReply
    <2>2. r \in ReplySet /\ Good(f) /\ Alike(f, ftp)
      BY <1>1, <2>1, FullForm DEF Opening
    <2>3. IF Starts(r) THEN Moving(Tail(s2c), srv) ELSE Rest(Tail(s2c), srv)
      BY <1>1, <2>1, ReplyForm DEF Synchronous
    <2>4. \/ /\ ftp' = f /\ pc' = "connect" /\ op' = op
             /\ stack' = [stack EXCEPT ![1].recon = TRUE]
          \/ Continue(f, Tail(s2c), r)
      BY <1>3, Zenon DEF CmdReply
    <2>5. /\ Head(stack).k = "lsCwd" /\ Class(r) = 2 => AtDir(op, srv)
          /\ Head(stack).k \in Listing => AtDir(op, srv)
          /\ Starts(r) /\ Head(stack).k = "lsList" => dconn.of = op.dir
      BY <1>2, <2>1 DEF Stands, Yes, Starts
    <2> HIDE DEF r, f
    <2>6. Labelled(f) /\ f.ctrl
      BY <1>2, <2>1, <2>2 DEF Alike, Labelled
    <2>7. CASE Continue(f, Tail(s2c), r)
      BY <1>1, <1>2, <2>2, <2>3, <2>5, <2>6, <2>7, ContinueLabel
    <2>8. CASE /\ ftp' = f /\ pc' = "connect" /\ op' = op
               /\ stack' = [stack EXCEPT ![1].recon = TRUE]
      <3> DEFINE n == Len(stack)
      <3>1. stack \in Seq(Fitting) /\ n \in 1..Len(stack) /\ stack # <<>>
        BY <1>1 DEF TypeInv
      <3>2. Len(stack') = n /\ stack'[n].k = stack[n].k /\ stack'[n].cmd = stack[n].cmd
        BY <2>8, <3>1 DEF Fitting, FrameSet
      <3>3. /\ Base(stack').k = Base(stack).k /\ Base(stack').cmd = Base(stack).cmd
            /\ stack # <<>>
        BY <3>1, <3>2 DEF Base
      <3>4. Head(stack).k \notin Listing
        BY <1>3, <2>8 DEF Strays
      <3>5. Stays(stack)
        BY <1>2, <3>1, <3>4, BaseForm DEF Stays, Bottom
      <3>6. Rooted(stack', op) /\ Stays(stack')
        BY <1>2, <3>3, <3>5 DEF Rooted, Meant, Stays, Bottom
      <3> QED
        BY <2>6, <2>8, <3>6 DEF LabelInv, Label, Moment
    <2> QED
      BY <2>4, <2>7, <2>8
  <1>4. CASE CmdEof \/ CmdNoCtrl
    <2>1. \E f : Good(f) /\ Labelled(f) /\ ~f.ctrl /\ Continue(f, <<>>, NoReply)
      <3>1. CASE CmdEof
        <4> Labelled(Close(ftp))
          BY DEF Close, Labelled, TypeInv, TypeOK, FtpSet
        <4> QED
          BY <3>1, ClosedForm, Zenon DEF CmdEof
      <3>2. CASE CmdNoCtrl
        <4> DEFINE f == [ftp EXCEPT !.full = 0]
        <4>1. ~ftp.ctrl /\ Continue(f, <<>>, NoReply)
          BY <3>2, Zenon DEF CmdNoCtrl
        <4>2. Good(ftp) /\ 0 \in Codes
          BY <1>1 DEF TypeInv, Good, Opening, Codes
        <4>3. Good(f) /\ Alike(f, ftp)
          BY <4>2, FieldForms, AlikeForms
        <4> HIDE DEF f
        <4> QED
          BY <1>2, <4>1, <4>3 DEF Alike, Labelled
      <3> QED
        BY <1>4, <3>1, <3>2
    <2> PICK f : Good(f) /\ Labelled(f) /\ ~f.ctrl /\ Continue(f, <<>>, NoReply)
      BY <2>1
    <2> QED
      BY <1>1, <1>2, NoReplyTyped, NoReplyForm, ContinueLabel
  <1> QED
    BY <1>3, <1>4

-----------------------------------------------------------------------------
(* The connection.                                                         *)

LEMMA OpeningLabel ==
  ASSUME TypeInv, CallsInv, Synchronous, LabelInv, ConnectOk \/ ConnectFail \/ Welcome
  PROVE  LabelInv'
  <1>1. pc \in {"connect", "welcome"}
    BY Zenon DEF ConnectOk, ConnectFail, Welcome
  <1>2. /\ Rooted(stack, op) /\ Stays(stack) /\ Labelled(ftp) /\ ftp \in FtpSet
        /\ stack \in Seq(Fitting) /\ Calls(stack, op)
    BY <1>1 DEF LabelInv, Label, TypeInv, TypeOK, CallsInv
  <1>3. CASE OpenFailed(Close(ftp))
    <2> DEFINE f == Close(ftp)
    <2>1. Good(f) /\ ~f.ctrl /\ Labelled(f)
      BY <1>2, ClosedForm DEF Close, Labelled, FtpSet
    <2> HIDE DEF f
    <2>2. \/ stack = <<>> /\ EndCmd(f, <<>>)
          \/ stack # <<>> /\ Resend(f, <<>>, stack)
      BY <1>3, Zenon DEF OpenFailed, f
    <2>3. stack # <<>> /\ Tail(stack) # <<>> => Head(stack).k \in Logins
      BY <1>2, CallsForm
    <2> QED
      BY <1>2, <2>1, <2>2, <2>3, EndLabel, ResendLabel
  <1>4. CASE ConnectOk
    <2> ftp' = [ftp EXCEPT !.ctrl = TRUE, !.type = "?"] /\ pc' = "welcome" /\ UNCHANGED <<stack, op>>
      BY <1>4, Zenon DEF ConnectOk
    <2> Labelled(ftp')
      BY <1>2 DEF FtpSet, Labelled
    <2> QED
      BY <1>2 DEF LabelInv, Label, Moment
  <1>5. CASE Welcome
    <2>1. pc = "welcome" /\ ftp.ctrl
      BY <1>5, Zenon DEF Welcome
    <2>2. CASE \E u : /\ s2c # <<>> /\ Head(s2c).full = 220
                      /\ Issue([ftp EXCEPT !.full = 220, !.connected = TRUE, !.url = TRUE,
                                           !.urldir = u],
                               Tail(s2c), op, Verb("USER"), "user", stack)
      <3> PICK u : /\ s2c # <<>> /\ Head(s2c).full = 220
                   /\ Issue([ftp EXCEPT !.full = 220, !.connected = TRUE, !.url = TRUE,
                                        !.urldir = u],
                            Tail(s2c), op, Verb("USER"), "user", stack)
        BY <2>2
      <3> DEFINE g == [ftp EXCEPT !.full = 220, !.connected = TRUE, !.url = TRUE, !.urldir = u]
                 fr == [cmd |-> Verb("USER"), recon |-> FALSE, k |-> "user"]
                 q == Tail(s2c)
      <3>1. Labelled(g) /\ fr.k = "user"
        BY <1>2 DEF FtpSet, Labelled
      <3>2. Rest(q, srv)
        <4>0. Answered("banner", c2s, s2c, srv)
          BY <2>1 DEF Synchronous
        <4>1. CASE Replied("banner", s2c, srv)
          BY <4>1, RepliedOn
        <4>2. CASE Rest(s2c, srv)
          BY <4>2, RestOn
        <4> QED
          BY <4>0, <4>1, <4>2 DEF Answered
      <3>3. /\ ftp' = g /\ stack' = <<fr>> \o stack /\ pc' = "cmd" /\ op' = op
            /\ Network(g, q, Append(c2s, Verb("USER")))
        BY Zenon DEF Issue
      <3> HIDE DEF g, fr, q
      <3>4. Meant(fr, op') /\ fr.k \notin Listing
        BY <3>1 DEF Meant, Listing
      <3>5. Rooted(stack, op')
        BY <1>2, <3>3
      <3> QED
        BY <1>2, <3>1, <3>2, <3>3, <3>4, <3>5, LandLabel
    <2>3. CASE OpenFailed(Close(ftp))
      BY <1>3, <2>3
    <2> QED
      BY <1>5, <2>2, <2>3, Zenon DEF Welcome
  <1> QED
    BY <1>3, <1>4, <1>5, Zenon DEF ConnectFail

-----------------------------------------------------------------------------
(* The data connection, and the end of a transfer.                         *)

\* What a step within a transfer may count on.
LEMMA MomentLabel ==
  ASSUME TypeInv, CallsInv, Synchronous, LabelInv, pc \in Moment
  PROVE  /\ ftp.ctrl /\ op \in OpSet /\ Labelled(ftp)
         /\ stack \in Seq(Fitting) /\ stack # <<>> /\ Tail(stack) = <<>>
         /\ op.name = "ls" => Receives(pc, op, srv, dconn)
         /\ op.name \in {"ls", "get"}
         /\ pc \in {"data", "final"} => ~op.abor
  BY DEF TypeInv, TypeOK, CallsInv, Synchronous, LabelInv, Label, Moment

LEMMA BusyLabel ==
  ASSUME NEW p \in Moment, pc' = p, Labelled(ftp'),
         op'.name = "ls" => Receives(p, op', srv', dconn')
  PROVE  LabelInv'
  BY DEF LabelInv, Label, Moment

LEMMA DataLabel ==
  ASSUME TypeInv, CallsInv, Synchronous, LabelInv,
         RecvEnd \/ RecvBreak \/ AbortPending \/ SendAbor \/ Drained
  PROVE  LabelInv'
  <1>1. pc \in {"data", "drain"} /\ pc \in Moment
    BY Zenon DEF RecvEnd, RecvBreak, AbortPending, SendAbor, Drained, Moment
  <1>2. /\ ftp.ctrl /\ op \in OpSet /\ Labelled(ftp)
        /\ op.name = "ls" => Receives(pc, op, srv, dconn)
    BY <1>1, MomentLabel
  <1>3. CASE RecvEnd
    <2> DEFINE o == [op EXCEPT !.whole = dconn.whole, !.of = dconn.of]
    <2>1. pc = "data" /\ Block(ftp, s2c, o, "final")
      BY <1>3, Zenon DEF RecvEnd
    <2>2. o.of = dconn.of /\ o.name = op.name /\ o.dir = op.dir
      BY <1>2 DEF OpSet
    <2> HIDE DEF o
    <2>3. /\ pc' = "final" /\ ftp' = ftp /\ op' = o /\ srv' = srv /\ dconn' = dconn
      BY <1>2, <2>1, Zenon DEF Block, Network
    <2> QED
      BY <1>2, <2>1, <2>2, <2>3, BusyLabel DEF Receives, AtDir, Moment
  <1>4. CASE RecvBreak
    <2>1. /\ op.name = "get" /\ op' = [op EXCEPT !.whole = FALSE] /\ ftp' = ftp /\ pc' = "final"
      BY <1>4, Zenon DEF RecvBreak, Block
    <2>2. op'.name = "get"
      BY <1>2, <2>1 DEF OpSet
    <2> QED
      BY <1>2, <2>1, <2>2, BusyLabel DEF Moment
  <1>5. CASE AbortPending
    <2> DEFINE b == op.name = "get"
               o == [op EXCEPT !.whole = FALSE, !.of = dconn.of, !.failed = b]
    <2>1. pc = "data" /\ Block(ftp, s2c, o, "drain")
      BY <1>5, Zenon DEF AbortPending
    <2>2. o.of = dconn.of /\ o.name = op.name /\ o.dir = op.dir
      BY <1>2 DEF OpSet
    <2> HIDE DEF o
    <2>3. /\ pc' = "drain" /\ ftp' = ftp /\ op' = o /\ srv' = srv /\ dconn' = dconn
      BY <1>2, <2>1, Zenon DEF Block, Network
    <2> QED
      BY <1>2, <2>1, <2>2, <2>3, BusyLabel DEF Receives, AtDir, Moment
  <1>6. CASE SendAbor
    <2> DEFINE o == [op EXCEPT !.abor = TRUE]
    <2>1. /\ ftp' = ftp /\ pc' = "drain" /\ op' = o
          /\ Network(ftp, s2c, Append(c2s, Verb("ABOR")))
      BY <1>6, Zenon DEF SendAbor
    <2>2. o.abor /\ o.name = op.name /\ o.dir = op.dir
      BY <1>2 DEF OpSet
    <2> HIDE DEF o
    <2>3. srv' = srv
      BY <1>2, <2>1, Zenon DEF Network
    <2> QED
      BY <1>2, <2>1, <2>2, <2>3, BusyLabel DEF Receives, AtDir, Moment
  <1>7. CASE Drained
    <2> DEFINE p == IF op.abor THEN "abort1" ELSE "final"
    <2>1. pc = "drain" /\ Block(ftp, s2c, op, p)
      BY <1>7, Zenon DEF Drained
    <2>2. ftp' = ftp /\ op' = op /\ pc' = p /\ srv' = srv
      BY <1>2, <2>1, Zenon DEF Block, Network
    <2>3. op.name = "ls" => Receives(p, op, srv, dconn')
      BY <1>2, <2>1 DEF Receives
    <2>4. p \in Moment
      BY DEF Moment
    <2> HIDE DEF p
    <2> QED
      BY <1>2, <2>2, <2>3, <2>4, BusyLabel
  <1> QED
    BY <1>3, <1>4, <1>5, <1>6, <1>7

LEMMA FinalLabel ==
  ASSUME TypeInv, CallsInv, Synchronous, LabelInv, FinalReply \/ FinalEof
  PROVE  LabelInv'
  <1>1. pc = "final" /\ pc \in Moment
    BY Zenon DEF FinalReply, FinalEof, Moment
  <1>2. /\ stack \in Seq(Fitting) /\ stack # <<>> /\ Tail(stack) = <<>> /\ op \in OpSet
        /\ Labelled(ftp) /\ (op.name = "ls" => AtDir(op, srv) /\ op.of = op.dir)
    BY <1>1, MomentLabel DEF Receives
  <1>3. ASSUME NEW f, Good(f), Labelled(f), NEW q, f.ctrl => Rest(q, srv),
               NEW r, TransferEnd(f, q, r)
        PROVE  LabelInv'
    <2>1. \/ op.name = "ls" /\ ListBack(f, q, op)
          \/ op.name = "ls" /\ ListFailed(f, q, op)
          \/ EndCmd(f, q)
      BY <1>3, Zenon DEF TransferEnd
    <2>2. CASE op.name = "ls" /\ ListBack(f, q, op)
      <3>1. Good(ListCached(f, op)) /\ Labelled(ListCached(f, op))
        BY <1>2, <1>3, <2>2, CachedForm, LabelledForms
      <3>2. Meant([cmd |-> Cmd("CWD", f.curdir, 0), recon |-> FALSE, k |-> "lsBack"], op)
        BY <1>2, <2>2 DEF Meant
      <3>3. \/ EndCmd(ListCached(f, op), q)
            \/ Send(f, q, op, Cmd("CWD", f.curdir, 0), "lsBack")
        BY <2>2, Zenon DEF ListBack
      <3> QED
        BY <1>2, <1>3, <3>1, <3>2, <3>3, EndLabel, SendLabel DEF Listing
    <2>3. CASE op.name = "ls" /\ ListFailed(f, q, op)
      BY <1>2, <1>3, <2>3, FailedLabel
    <2>4. CASE EndCmd(f, q)
      BY <1>3, <2>4, EndLabel
    <2> QED
      BY <2>1, <2>2, <2>3, <2>4
  <1>4. CASE FinalReply
    <2> DEFINE f == [ftp EXCEPT !.full = Head(s2c).full]
    <2>1. s2c # <<>> /\ TransferEnd(f, Tail(s2c), Head(s2c))
      BY <1>4, Zenon DEF FinalReply
    <2>2. Good(f) /\ Alike(f, ftp)
      BY <1>1, <2>1, FullForm DEF Opening
    <2> HIDE DEF f
    <2>3. Rest(Tail(s2c), srv) /\ Labelled(f)
      <3>1. Moving(s2c, srv)
        BY <1>1 DEF CallsInv, Synchronous, Ending
      <3> QED
        BY <1>2, <2>1, <2>2, <3>1, MovingOn DEF Alike, Labelled
    <2> QED
      BY <1>3, <2>1, <2>2, <2>3
  <1>5. CASE FinalEof
    <2> DEFINE f == Close(ftp)
    <2>1. TransferEnd(f, <<>>, NoReply)
      BY <1>5, Zenon DEF FinalEof
    <2>2. Good(f) /\ ~f.ctrl
      BY ClosedForm
    <2>3. Labelled(f)
      BY DEF Close, Labelled, TypeInv, TypeOK, FtpSet
    <2> HIDE DEF f
    <2> QED
      BY <1>3, <2>1, <2>2, <2>3
  <1> QED
    BY <1>4, <1>5

LEMMA AbortLabel ==
  ASSUME TypeInv, CallsInv, Synchronous, LabelInv, AbortReply \/ AbortEof
  PROVE  LabelInv'
  <1>1. pc \in {"abort1", "abort2"} /\ pc \in Moment
    BY Zenon DEF AbortReply, AbortEof, Moment
  <1>2. /\ stack \in Seq(Fitting) /\ Tail(stack) = <<>> /\ op \in OpSet /\ ftp.ctrl
        /\ Labelled(ftp) /\ (op.name = "ls" => AtDir(op, srv))
    BY <1>1, MomentLabel DEF Receives
  <1>3. ASSUME NEW f, Good(f), Labelled(f), NEW q, f.ctrl => Rest(q, srv), AbortDone(f, q)
        PROVE  LabelInv'
    <2> (op.name = "ls" /\ ListFailed(f, q, op)) \/ EndCmd(f, q)
      BY <1>3, Zenon DEF AbortDone
    <2> QED
      BY <1>2, <1>3, FailedLabel, EndLabel
  <1>4. CASE AbortReply
    <2> DEFINE f == [ftp EXCEPT !.full = Head(s2c).full]
    <2>1. s2c # <<>> /\ IF pc = "abort1" THEN Block(f, Tail(s2c), op, "abort2")
                        ELSE AbortDone(f, Tail(s2c))
      BY <1>4, Zenon DEF AbortReply
    <2>2. Good(f) /\ Alike(f, ftp)
      BY <1>1, <2>1, FullForm DEF Opening
    <2> HIDE DEF f
    <2>3. Labelled(f) /\ f.ctrl
      BY <1>2, <2>2 DEF Alike, Labelled
    <2>4. CASE pc = "abort1"
      <3>1. pc' = "abort2" /\ ftp' = f /\ op' = op /\ srv' = srv
        BY <2>1, <2>3, <2>4, Zenon DEF Block, Network
      <3>2. op.name = "ls" => Receives("abort2", op, srv, dconn')
        BY <1>2 DEF Receives
      <3> QED
        BY <2>3, <3>1, <3>2, BusyLabel DEF Moment
    <2>5. CASE pc = "abort2"
      <3> Due(Verb("ABOR"), c2s, s2c, srv)
        BY <1>2, <2>5 DEF Synchronous
      <3> Rest(Tail(s2c), srv)
        BY <2>1, AborOn
      <3> QED
        BY <1>3, <2>1, <2>2, <2>3, <2>5
    <2> QED
      BY <1>1, <2>4, <2>5
  <1>5. CASE AbortEof
    <2> AbortDone(Close(ftp), <<>>)
      BY <1>5, Zenon DEF AbortEof
    <2> Labelled(Close(ftp))
      BY DEF Close, Labelled, TypeInv, TypeOK, FtpSet
    <2> QED
      BY <1>3, ClosedForm
  <1> QED
    BY <1>4, <1>5

-----------------------------------------------------------------------------
(* Commands and signals.                                                   *)

LEMMA UserLabel ==
  ASSUME TypeInv, Synchronous, WhereInv, gone = {}, LabelInv, UserStep
  PROVE  LabelInv'
  <1>1. pc = "prompt"
    BY Zenon DEF UserStep, UserOpen, UserReopen, UserUser, UserMkdir, UserClose, UserCd,
                 UserLs, UserGet, Type
  <1>2. /\ stack = <<>> /\ stack \in Seq(Fitting) /\ op \in OpSet /\ Labelled(ftp)
        /\ Labelled(Close(ftp))
    BY <1>1 DEF TypeInv, TypeOK, LabelInv, Label, Close, Labelled, FtpSet
  <1>3. ASSUME Connected(ftp)
        PROVE  Good(ftp) /\ Rest(s2c, srv)
    BY <1>1, <1>3 DEF TypeInv, Good, Live, Connected, Synchronous, Idle
  <1>4. LoggedIn(ftp) => Connected(ftp)
    BY DEF LoggedIn, Connected
  <1>5. ASSUME Connected(ftp), NEW o, NEW cmd, NEW k, Send(ftp, s2c, o, cmd, k), k \notin Listing,
               k = "lsCwd" => cmd.a = o.dir, k # "lsBack"
        PROVE  LabelInv'
    <2> Meant([cmd |-> cmd, recon |-> FALSE, k |-> k], o)
      BY <1>5 DEF Meant
    <2> QED
      BY <1>2, <1>3, <1>5, SendLabel
  <1>6. ASSUME NEW f, Labelled(f), NEW o, Dial(f, o)
        PROVE  LabelInv'
    <2> ftp' = f /\ pc' = "connect" /\ stack' = <<>>
      BY <1>6, Zenon DEF Dial
    <2> QED
      BY <1>6 DEF LabelInv, Label, Rooted, Stays, Moment
  <1>7. CASE \E d \in Dirs \cup {NoDir} : UserOpen(d)
    <2> \E o : Dial(Close(ftp), o)
      BY <1>7, Zenon DEF UserOpen
    <2> QED
      BY <1>2, <1>6
  <1>8. CASE UserReopen
    <2> \E o : Dial(ftp, o)
      BY <1>8, Zenon DEF UserReopen
    <2> QED
      BY <1>2, <1>6
  <1>9. CASE \/ UserUser \/ UserMkdir \/ \E d \in Dirs : UserCd(d)
    <2> \E o, cmd, k : k \in {"user", "mkd", "cdCwd"} /\ Connected(ftp) /\ Send(ftp, s2c, o, cmd, k)
      BY <1>4, <1>9 DEF UserUser, UserMkdir, UserCd
    <2> QED
      BY <1>5 DEF Listing
  <1>10. CASE UserClose
    <2>1. \/ Connected(ftp) /\ \E o : Send(ftp, s2c, o, Verb("QUIT"), "quit")
          \/ EndCmd(Close(ftp), s2c)
      BY <1>10, Zenon DEF UserClose
    <2>2. CASE Connected(ftp) /\ \E o : Send(ftp, s2c, o, Verb("QUIT"), "quit")
      BY <1>5, <2>2 DEF Listing
    <2> QED
      BY <1>2, <2>1, <2>2, ClosedForm, EndLabel
  <1>11. CASE \E d \in Dirs : UserLs(d)
    <2> PICK d \in Dirs : UserLs(d)
      BY <1>11
    <2> DEFINE b == d = ftp.curdir
               o == [NoOp EXCEPT !.name = "ls", !.dir = d, !.here = b]
    <2>1. b \in BOOLEAN /\ d \in Paths
      BY PathsTyped, Zenon
    <2>2. LoggedIn(ftp) /\ IF Cached(ftp, d) THEN EndCmd(ftp, s2c)
                           ELSE IF o.here THEN ListStart(ftp, s2c, o)
                           ELSE Send(ftp, s2c, o, Cmd("CWD", d, 0), "lsCwd")
      BY Zenon DEF UserLs
    <2> HIDE DEF b
    <2>3. o \in OpSet
      BY <1>2, <2>1, OpForms, Zenon
    <2>4. o.dir = d /\ (o.here => d = ftp.curdir)
      BY DEF NoOp, b
    <2> HIDE DEF o
    <2>5. Connected(ftp) /\ Good(ftp) /\ Rest(s2c, srv)
      BY <1>3, <1>4, <2>2
    <2>6. CASE EndCmd(ftp, s2c)
      BY <1>2, <2>5, <2>6, EndLabel
    <2>7. CASE o.here /\ ListStart(ftp, s2c, o)
      <3>1. AtDir(o, srv)
        <4>1. Serving(srv) => Sits(ftp, srv, gone)
          BY <1>1, <2>5 DEF WhereInv, Where
        <4>2. d = ftp.curdir /\ d # BadDir
          BY <2>4, <2>7, SessionAssumption
        <4> QED
          BY <2>4, <4>1, <4>2 DEF AtDir, Sits, Lost
      <3> PICK g : \E p : /\ Good(g) /\ Alike(g, ftp) /\ SameJob(p, o)
                          /\ Relists(g, s2c, p) \/ GivesUp(g, s2c, p)
        BY <2>3, <2>5, <2>7, ListStartMoves
      <3> PICK p : /\ Good(g) /\ Alike(g, ftp) /\ SameJob(p, o)
                   /\ Relists(g, s2c, p) \/ GivesUp(g, s2c, p)
        OBVIOUS
      <3>2. AtDir(p, srv)
        BY <3>1 DEF SameJob, AtDir
      <3> QED
        BY <1>2, <2>5, <3>2, ListsLabel
    <2>8. CASE Send(ftp, s2c, o, Cmd("CWD", d, 0), "lsCwd")
      BY <1>5, <2>4, <2>5, <2>8, VerbForm DEF Listing
    <2> QED
      BY <2>2, <2>6, <2>7, <2>8
  <1>12. CASE \E resume \in BOOLEAN : UserGet(resume)
    <2>1. LoggedIn(ftp) /\ ((\E o, cmd : Send(ftp, s2c, o, cmd, "getPasv")) \/ EndCmd(ftp, s2c))
      BY <1>12, Zenon DEF UserGet
    <2>2. CASE \E o, cmd : Send(ftp, s2c, o, cmd, "getPasv")
      BY <1>4, <1>5, <2>1, <2>2 DEF Listing
    <2> QED
      BY <1>2, <1>3, <1>4, <2>1, <2>2, EndLabel
  <1> QED
    BY <1>7, <1>8, <1>9, <1>10, <1>11, <1>12, Zenon DEF UserStep

LEMMA StillLabel ==
  ASSUME LabelInv, UNCHANGED <<ftp, stack, pc, op, s2c, srv, dconn>>
  PROVE  LabelInv'
  BY DEF LabelInv

LEMMA SignalLabel ==
  ASSUME TypeInv, LabelInv, IntJmp \/ IntAbort \/ IntClose \/ Timeout
  PROVE  LabelInv'
  <1>1. Labelled(ftp) /\ Labelled(Close(ftp)) /\ Labelled([ftp EXCEPT !.ctrl = FALSE])
    BY DEF LabelInv, Label, TypeInv, TypeOK, FtpSet, Close, Labelled
  <1>2. \/ UNCHANGED <<ftp, stack, pc, op, c2s, s2c, net>>
        \/ \E q : LongJmp(ftp, q)
        \/ LongJmp([ftp EXCEPT !.ctrl = FALSE], <<>>)
        \/ LongJmp(Close(ftp), <<>>)
    BY Zenon DEF IntJmp, IntAbort, IntClose, Timeout
  <1>3. CASE UNCHANGED <<ftp, stack, pc, op, c2s, s2c, net>>
    BY <1>3, StillLabel DEF net
  <1> QED
    BY <1>1, <1>2, <1>3, PromptLabel

\* Whoever serves is where it was, and sends what it sent.
LEMMA StationLabel ==
  ASSUME LabelInv, UNCHANGED <<ftp, stack, pc, op>>,
         Serving(srv') => Serving(srv) /\ srv'.cwd = srv.cwd, dconn'.of = dconn.of,
         pc = "cmd" /\ ftp.ctrl => Stands(Head(stack).k, op, s2c', srv', dconn')
  PROVE  LabelInv'
  <1>1. AtDir(op, srv) => AtDir(op, srv')
    BY DEF AtDir
  <1> QED
    BY <1>1 DEF LabelInv, Label, Receives

LEMMA DropLabel ==
  ASSUME TypeInv, LabelInv, SrvDrop
  PROVE  LabelInv'
  <1>1. /\ UNCHANGED <<ftp, stack, pc, op>> /\ dconn' = [dconn EXCEPT !.eof = TRUE]
        /\ Cut(s2c, s2c') /\ srv' = Down
    BY Zenon DEF SrvDrop, client, Cut, Bow
  <1>2. ~Serving(srv') /\ dconn'.of = dconn.of /\ s2c \in Seq(ReplySet)
    BY <1>1, BowForm DEF Serving, TypeInv, TypeOK, DconnSet
  <1>3. ASSUME pc = "cmd", ftp.ctrl, Head(stack).k = "lsList", s2c' # <<>>, Class(Head(s2c')) = 1
        PROVE  dconn.of = op.dir
    <2> DEFINE p == s2c'
    <2>1. Head(p) # Bow
      BY <1>3, BowForm DEF Class
    <2>2. Cut(s2c, p) /\ p # <<>>
      BY <1>1, <1>3
    <2> HIDE DEF p
    <2>3. s2c # <<>> /\ Head(p) = Head(s2c)
      BY <1>2, <2>1, <2>2, CutForm
    <2> QED
      BY <1>3, <2>3 DEF LabelInv, Label, Stands, p
  <1>4. pc = "cmd" /\ ftp.ctrl => Stands(Head(stack).k, op, s2c', srv', dconn')
    BY <1>2, <1>3 DEF Stands, AtDir
  <1> QED
    BY <1>1, <1>2, <1>4, StationLabel

-----------------------------------------------------------------------------
(* The server.                                                             *)

LEMMA TransferStation ==
  ASSUME srv \in SrvSet, NEW kind, Transfer(kind)
  PROVE  /\ s2c' = Append(s2c, Reply(150, Next1.v, NoDir))
         /\ srv'.up = srv.up /\ srv'.auth = srv.auth /\ srv'.cwd = srv.cwd
         /\ dconn'.of = srv.cwd
  <1>1. /\ s2c' = Append(s2c, Reply(150, Next1.v, NoDir))
        /\ srv' = [srv EXCEPT !.data = FALSE, !.xfer = TRUE, !.rest = FALSE]
        /\ dconn' = [kind |-> kind, of |-> srv.cwd, type |-> srv.type,
                     rest |-> srv.rest, eof |-> FALSE, whole |-> FALSE]
    BY Zenon DEF Transfer, Answer
  <1> QED
    BY <1>1 DEF SrvSet

\* A listing is of the directory the server is in, and only CWD takes it
\* elsewhere.
LEMMA CommandedLabel ==
  ASSUME TypeInv, CallsInv, Synchronous, LabelInv,
         \/ SrvUser \/ SrvPass \/ SrvDenies \/ SrvPwd \/ SrvCwd \/ SrvMkd
         \/ SrvPasv \/ SrvType \/ SrvRest \/ SrvList \/ SrvRetr \/ SrvQuit
  PROVE  LabelInv'
  <1>1. Commanded /\ srv \in SrvSet
    BY CommandedForm DEF TypeInv, TypeOK
  <1>2. /\ srv.up /\ c2s # <<>> /\ Next1.v # "ABOR" /\ UNCHANGED <<ftp, stack, pc, op>>
    BY <1>1, Zenon DEF Commanded
  <1>3. pc \notin Moment
    <2>1. ~TwoDue(c2s, s2c, srv) /\ ~Ending(c2s, s2c, srv) /\ ~Due(Verb("ABOR"), c2s, s2c, srv)
      BY <1>2, VerbForm, OneForm DEF TwoDue, Ending, Due, Answered, Sends, Next1
    <2> QED
      BY <2>1 DEF CallsInv, Synchronous, Moment
  <1>4. CASE ~(pc = "cmd" /\ ftp.ctrl)
    BY <1>2, <1>3, <1>4 DEF LabelInv, Label
  <1>5. CASE pc = "cmd" /\ ftp.ctrl
    <2> DEFINE k == Head(stack).k
    <2>1. /\ s2c = <<>> /\ s2c \in Seq(ReplySet) /\ Speaks(Next1.v, k)
          /\ Tail(stack) # <<>> => k \in Logins
      BY <1>2, <1>5, Serves1
    <2>2. Stands(k, op, s2c, srv, dconn) /\ Rooted(stack, op)
      BY <1>5 DEF LabelInv, Label
    <2>3. \A full, dir : s2c' = Append(s2c, Reply(full, Next1.v, dir)) =>
            s2c' # <<>> /\ Class(Head(s2c')) = full \div 100
      BY <2>1, Appended DEF Class, Reply
    <2>4. CASE k \notin {"lsCwd"} \cup Listing
      <3> Stands(k, op, s2c', srv', dconn')
        BY <2>4 DEF Stands, Listing
      <3> QED
        BY <1>2, <1>3, <1>5, <2>2 DEF LabelInv, Label
    <2>5. CASE k = "lsCwd"
      <3>1. Next1.v = "CWD"
        BY <2>1, <2>5 DEF Speaks
      <3>2. SrvDenies \/ SrvCwd
        BY <3>1, Zenon DEF SrvUser, SrvPass, SrvPwd, SrvMkd, SrvPasv, SrvType, SrvRest,
                           SrvList, SrvRetr, SrvQuit, Serves, Executes
      <3>3. CASE \E full \in {530, 550} : Say(full, srv)
        <4> PICK full \in {530, 550} : Say(full, srv)
          BY <3>3
        <4>1. s2c' = Append(s2c, Reply(full, Next1.v, NoDir))
          BY <1>1, SayStation
        <4>2. ~Yes(s2c')
          BY <2>3, <4>1 DEF Yes
        <4> QED
          BY <1>2, <1>3, <1>5, <2>2, <2>5, <4>2 DEF LabelInv, Label, Stands, Listing
      <3>4. CASE srv' = [srv EXCEPT !.cwd = Next1.a, !.rest = FALSE]
        <4>1. Tail(stack) = <<>> /\ stack \in Seq(Fitting) /\ stack # <<>>
          BY <1>5, <2>1, <2>5 DEF Logins, TypeInv
        <4>2. Head(stack).cmd.a = op.dir
          BY <2>2, <2>5, <4>1, BaseForm DEF Rooted, Meant
        <4>3. Next1 = Head(stack).cmd
          <5> Due(Head(stack).cmd, c2s, s2c, srv)
            BY <1>5 DEF Synchronous
          <5> QED
            BY <1>2, OneForm DEF Due, Answered, Sends, Next1
        <4>4. srv'.cwd = op.dir
          BY <1>1, <3>4, <4>2, <4>3 DEF SrvSet
        <4> QED
          BY <1>2, <1>3, <1>5, <2>2, <2>5, <4>4 DEF LabelInv, Label, Stands, Listing, AtDir
      <3> QED
        BY <3>2, <3>3, <3>4, Zenon DEF SrvDenies, SrvCwd
    <2>6. CASE k \in Listing
      <3>1. Next1.v \in {"PASV", "MLSD", "LIST"}
        BY <2>1, <2>6 DEF Speaks, Listing
      <3>2. SrvDenies \/ SrvPasv \/ SrvList
        BY <3>1, Zenon DEF SrvUser, SrvPass, SrvPwd, SrvCwd, SrvMkd, SrvType, SrvRest,
                           SrvRetr, SrvQuit, Serves, Executes
      <3>3. AtDir(op, srv)
        BY <2>2, <2>6 DEF Stands
      <3>4. ASSUME AtDir(op, srv'),
                   k = "lsList" /\ Class(Head(s2c')) = 1 => dconn'.of = op.dir
            PROVE  LabelInv'
        <4> Stands(k, op, s2c', srv', dconn')
          BY <2>6, <3>4 DEF Stands, Listing
        <4> QED
          BY <1>2, <1>3, <1>5, <2>2 DEF LabelInv, Label
      <3>5. ASSUME NEW full, full \div 100 # 1, NEW s \in SrvSet, Say(full, s),
                   s.up = srv.up, s.auth = srv.auth, s.cwd = srv.cwd
            PROVE  LabelInv'
        <4>1. /\ s2c' = Append(s2c, Reply(full, Next1.v, NoDir))
              /\ srv'.up = srv.up /\ srv'.auth = srv.auth /\ srv'.cwd = srv.cwd
          BY <3>5, SayStation
        <4> QED
          BY <2>3, <3>3, <3>4, <3>5, <4>1 DEF AtDir, Serving
      <3>6. CASE \E full \in {530, 500, 425, 550} : Say(full, srv)
        BY <1>1, <3>5, <3>6
      <3>7. CASE Say(227, [srv EXCEPT !.data = TRUE])
        <4> DEFINE s == [srv EXCEPT !.data = TRUE]
        <4> s \in SrvSet /\ s.up = srv.up /\ s.auth = srv.auth /\ s.cwd = srv.cwd
          BY <1>1 DEF SrvSet
        <4> HIDE DEF s
        <4> Say(227, s)
          BY <3>7 DEF s
        <4> QED
          BY <3>5
      <3>8. CASE srv.auth /\ Transfer("list")
        <4>1. /\ srv'.up = srv.up /\ srv'.auth = srv.auth /\ srv'.cwd = srv.cwd
              /\ dconn'.of = srv.cwd
          BY <1>1, <3>8, TransferStation
        <4>2. srv.cwd = op.dir
          BY <1>2, <3>3, <3>8 DEF AtDir, Serving
        <4> QED
          BY <3>4, <4>1, <4>2 DEF AtDir
      <3>9. \/ Say(530, srv) \/ Say(500, srv) \/ Say(425, srv) \/ Say(550, srv)
            \/ Say(227, [srv EXCEPT !.data = TRUE])
            \/ srv.auth /\ Transfer("list")
        BY <3>2, Zenon DEF SrvDenies, SrvPasv, SrvList, Serves
      <3> QED
        BY <3>6, <3>7, <3>8, <3>9
    <2> QED
      BY <2>4, <2>5, <2>6
  <1> QED
    BY <1>4, <1>5

\* The end of a transfer, by itself or by ABOR, takes the server nowhere.
LEMMA XferLabel ==
  ASSUME TypeInv, CallsInv, Synchronous, LabelInv, SrvAbor \/ XferEof \/ XferReply
  PROVE  LabelInv'
  <1>1. /\ srv.up /\ UNCHANGED <<ftp, stack, pc, op>> /\ s2c \in Seq(ReplySet)
        /\ srv \in SrvSet /\ dconn \in DconnSet
    BY Zenon DEF SrvAbor, XferEof, XferReply, Executes, client, TypeInv, TypeOK
  <1>2. /\ srv'.up = srv.up /\ srv'.auth = srv.auth /\ srv'.cwd = srv.cwd /\ dconn'.of = dconn.of
    <2>1. \/ srv' = srv \/ srv' = [srv EXCEPT !.xfer = FALSE]
          \/ srv' = [srv EXCEPT !.xfer = FALSE, !.data = FALSE]
      BY Zenon DEF SrvAbor, XferEof, XferReply
    <2>2. \/ dconn' = dconn \/ dconn' = [dconn EXCEPT !.eof = TRUE]
          \/ \E ok : dconn' = [dconn EXCEPT !.eof = TRUE, !.whole = ok]
      BY Zenon DEF SrvAbor, XferEof, XferReply
    <2> QED
      BY <1>1, <2>1, <2>2 DEF SrvSet, DconnSet
  <1>3. ASSUME pc = "cmd", ftp.ctrl
        PROVE  Stands(Head(stack).k, op, s2c', srv', dconn')
    <2>1. ~SrvAbor
      BY <1>3, Serves1 DEF SrvAbor, Executes, Speaks
    <2>2. srv.xfer /\ (s2c' = s2c \/ \E r : s2c' = Append(s2c, r))
      BY <2>1, Zenon DEF XferEof, XferReply
    <2>3. s2c # <<>>
      <3> Due(Head(stack).cmd, c2s, s2c, srv)
        BY <1>3 DEF Synchronous
      <3> QED
        BY <1>1, <2>2 DEF Due, Answered, Replied
    <2>4. s2c' # <<>> /\ Head(s2c') = Head(s2c)
      BY <1>1, <2>2, <2>3, Appended
    <2>5. Stands(Head(stack).k, op, s2c, srv, dconn)
      BY <1>3 DEF LabelInv, Label
    <2> QED
      BY <1>2, <2>3, <2>4, <2>5 DEF Stands, AtDir, Serving, Yes
  <1> QED
    BY <1>1, <1>2, <1>3, StationLabel DEF Serving

-----------------------------------------------------------------------------
(* What is filed under a name is the listing of that directory.            *)

LEMMA LabelInit ==
  ASSUME Init
  PROVE  LabelInv
  <1> pc = "prompt" /\ ftp.cache = {}
    BY DEF Init
  <1> QED
    BY DEF LabelInv, Label, Labelled, Moment

LEMMA LabelStep ==
  ASSUME ~LocalFails, Agreed, WhereInv, LabelInv, gone = {}, ~Strays, [Next]_vars
  PROVE  LabelInv'
  <1>1. TypeInv /\ CallsInv /\ Synchronous
    BY DEF Agreed
  <1>2. CASE UserStep
    BY <1>1, <1>2, UserLabel
  <1>3. CASE CmdReply \/ CmdEof \/ CmdNoCtrl
    BY <1>1, <1>3, CmdLabel
  <1>4. CASE ConnectOk \/ ConnectFail \/ Welcome
    BY <1>1, <1>4, OpeningLabel
  <1>5. CASE RecvEnd \/ RecvBreak \/ AbortPending \/ SendAbor \/ Drained
    BY <1>1, <1>5, DataLabel
  <1>6. CASE FinalReply \/ FinalEof
    BY <1>1, <1>6, FinalLabel
  <1>7. CASE AbortReply \/ AbortEof
    BY <1>1, <1>7, AbortLabel
  <1>8. CASE ServerStep
    BY <1>1, <1>8, CommandedLabel, XferLabel, Zenon DEF ServerStep
  <1>9. CASE IntJmp \/ IntAbort \/ IntClose \/ Timeout
    BY <1>1, <1>9, SignalLabel
  <1>10. CASE SrvDrop
    BY <1>1, <1>10, DropLabel
  <1>11. CASE (\E d \in Dirs : RemoveDir(d)) \/ UNCHANGED vars
    <2> UNCHANGED <<ftp, stack, pc, op, s2c, srv, dconn>>
      BY <1>11, Zenon DEF RemoveDir, client, vars
    <2> QED
      BY StillLabel
  <1> QED
    BY <1>2, <1>3, <1>4, <1>5, <1>6, <1>7, <1>8, <1>9, <1>10, <1>11, Zenon
       DEF Next, ClientStep, Quiet

(* ftp_read_directory files under a name the listing of that directory,    *)
(* and under no other name: whichever of its four commands fails, is       *)
(* refused or is interrupted, and whatever was in the channel before.  Set *)
(* apart are the sessions lost within a listing, which ftp_cmd goes on     *)
(* with in the current directory, the directories that others remove, and  *)
(* what PlaceIsKnown sets apart.                                           *)
THEOREM ListingsAreLabelled ==
  ASSUME ~LocalFails
  PROVE  Spec /\ [][~Abandons /\ ~Strays]_vars /\ []Single /\ [](gone = {}) => []ListingLabel
  <1>1. Init => Agreed /\ WhereInv /\ LabelInv
    BY AgreedInit, WhereInit, LabelInit
  <1>2. Agreed /\ WhereInv /\ LabelInv /\ Single /\ Single' /\ gone = {}
          /\ [Next]_vars /\ [~Abandons /\ ~Strays]_vars
        => Agreed' /\ WhereInv' /\ LabelInv'
    <2> SUFFICES ASSUME Agreed, WhereInv, LabelInv, Single, Single', gone = {},
                        [Next]_vars, [~Abandons /\ ~Strays]_vars
                 PROVE  Agreed' /\ WhereInv' /\ LabelInv'
      OBVIOUS
    <2>1. [~Abandons]_vars
      OBVIOUS
    <2>2. LabelInv'
      <3>1. CASE ~Strays
        BY <3>1, LabelStep
      <3>2. CASE UNCHANGED vars
        <4> UNCHANGED <<ftp, stack, pc, op, s2c, srv, dconn>>
          BY <3>2, Zenon DEF vars
        <4> QED
          BY StillLabel
      <3> QED
        BY <3>1, <3>2
    <2> QED
      BY <2>1, <2>2, AgreedStep, WhereStep
  <1>3. LabelInv => ListingLabel
    BY DEF LabelInv, Label, Labelled, ListingLabel
  <1> QED
    BY <1>1, <1>2, <1>3, PTL DEF Spec

-----------------------------------------------------------------------------
(* What the connection has changed.  Open: the MKD was executed, or may    *)
(* have been, and its directory is not marked yet.  Current: else what is  *)
(* cached is no older than the last change.  News: nor is a listing that   *)
(* is to be cached.                                                        *)

Open(p, f, st, q, s) ==
  /\ p = "cmd" /\ f.ctrl /\ Head(st).k = "mkd"
  /\ Yes(q) \/ (q = <<>> /\ ~s.up)
Seen(f, T) == \A e \in f.cache : e.of = e.path => e.path \notin T
Current(f, T, L) == L = {} => Seen(f, T)
News(k, o, T) == k = "lsBack" /\ ~o.failed => o.of \notin T
Tells(st, o, T) == st # <<>> => News(Bottom(st), o, T)

Fresh(p, f, st, o, q, s, d, T, L) ==
  /\ Current(f, IF Open(p, f, st, q, s) THEN T \ {f.curdir} ELSE T, L)
  /\ p \in {"cmd", "connect", "welcome"} => Tells(st, o, T)
  /\ p = "cmd" /\ f.ctrl /\ Head(st).k = "lsList" /\ q # <<>> /\ Class(Head(q)) = 1 =>
       d.of \notin T
  /\ o.name = "ls" => /\ p = "data" => d.of \notin T
                      /\ p = "drain" => o.abor \/ o.of \notin T
                      /\ p = "final" => o.of \notin T
FreshInv == Fresh(pc, ftp, stack, op, s2c, srv, dconn, stale, gone)

-----------------------------------------------------------------------------
(* Where a step may land.                                                  *)

LEMMA CurrentForms ==
  ASSUME NEW f, Good(f), NEW T, NEW L
  PROVE  /\ Current(f, T, L) =>
              /\ Current(Flush(f), T, L)
              /\ \A g : Alike(g, f) => Current(g, T, L)
              /\ \A d : Current(f, T \ {d}, L)
              /\ \A o : (~o.failed => o.of \notin T) => Current(ListCached(f, o), T, L)
         /\ Current(Close(f), T, L)
  <1> f \in FtpSet
    BY DEF Good, FtpOK
  <1>1. Current(f, T, L) => Current(Flush(f), T, L)
    BY DEF FtpSet, Flush, Current, Seen
  <1>2. Current(f, T, L) => \A g : Alike(g, f) => Current(g, T, L)
    BY DEF Alike, Current, Seen
  <1>3. Current(f, T, L) => \A d : Current(f, T \ {d}, L)
    BY DEF Current, Seen
  <1>4. ASSUME Current(f, T, L), NEW o, ~o.failed => o.of \notin T
        PROVE  Current(ListCached(f, o), T, L)
    <2>1. CASE o.failed
      BY <1>4, <2>1 DEF ListCached
    <2>2. CASE ~o.failed
      <3>1. ListCached(f, o).cache = f.cache \cup {[path |-> o.dir, of |-> o.of, whole |-> o.whole]}
        BY <2>2 DEF FtpSet, ListCached
      <3> QED
        BY <1>4, <2>2, <3>1 DEF Current, Seen
    <2> QED
      BY <2>1, <2>2
  <1>5. Current(Close(f), T, L)
    BY DEF FtpSet, Close, Current, Seen
  <1> QED
    BY <1>1, <1>2, <1>3, <1>4, <1>5

LEMMA NetStill ==
  ASSUME NEW g, NEW q, NEW c, Network(g, q, c)
  PROVE  stale' = stale /\ gone' = gone /\ dconn' = dconn
  BY Zenon DEF Network

LEMMA AsideFresh ==
  ASSUME Current(ftp', stale', gone'), pc' \in {"prompt", "crashed", "abort1", "abort2"}
  PROVE  FreshInv'
  BY DEF FreshInv, Fresh, Open

LEMMA PromptFresh ==
  ASSUME NEW g, NEW q, Current(g, stale, gone), Prompt(g, q) \/ LongJmp(g, q)
  PROVE  FreshInv'
  <1> ftp' = g /\ pc' = "prompt" /\ stale' = stale /\ gone' = gone
    BY Zenon DEF Prompt, LongJmp, Network
  <1> QED
    BY AsideFresh

LEMMA EndFresh ==
  ASSUME NEW f, Good(f), Current(f, stale, gone), NEW q, EndCmd(f, q)
  PROVE  FreshInv'
  BY CurrentForms, PromptFresh, Zenon DEF EndCmd

LEMMA LandFresh ==
  ASSUME NEW g, NEW q, NEW c, NEW fr, NEW below \in Seq(Fitting),
         ftp' = g, stack' = <<fr>> \o below, pc' = "cmd", Network(g, q, c),
         Current(g, stale, gone), g.ctrl => Rest(q, srv),
         IF below = <<>> THEN News(fr.k, op', stale) ELSE Tells(below, op', stale)
  PROVE  FreshInv'
  <1>1. Tells(stack', op', stale)
    BY BottomForm DEF Tells
  <1>2. g.ctrl /\ s2c' # <<>> => Class(Head(s2c')) = 4
    BY RestFails DEF Network
  <1>3. stale' = stale /\ gone' = gone
    BY NetStill
  <1>4. Current(g, IF Open(pc', ftp', stack', s2c', srv') THEN stale \ {g.curdir} ELSE stale, gone)
    BY DEF Current, Seen
  <1> QED
    BY <1>1, <1>2, <1>3, <1>4 DEF FreshInv, Fresh

LEMMA SendFresh ==
  ASSUME stack \in Seq(Fitting), NEW g, NEW q, NEW o, NEW cmd, NEW k, Send(g, q, o, cmd, k),
         Current(g, stale, gone), g.ctrl => Rest(q, srv),
         IF stack = <<>> \/ Tail(stack) = <<>> THEN News(k, o, stale) ELSE Tells(stack, o, stale)
  PROVE  FreshInv'
  <1> DEFINE below == IF stack = <<>> THEN <<>> ELSE Tail(stack)
             fr == [cmd |-> cmd, recon |-> FALSE, k |-> k]
  <1>1. /\ ftp' = g /\ op' = o /\ stack' = <<fr>> \o below /\ pc' = "cmd"
        /\ Network(g, q, Append(c2s, cmd))
    BY Zenon DEF Send, Issue
  <1>2. below \in Seq(Fitting)
    BY Unstacked
  <1>3. /\ fr.k = k
        /\ below = <<>> => News(k, o, stale)
        /\ below # <<>> => Tells(below, o, stale)
    BY BottomForm DEF Tells
  <1> HIDE DEF below, fr
  <1> QED
    BY <1>1, <1>2, <1>3, LandFresh

LEMMA ResendFresh ==
  ASSUME NEW g, NEW q, NEW frames \in Seq(Fitting), frames # <<>>, Resend(g, q, frames),
         Current(g, stale, gone), g.ctrl => Rest(q, srv), Tells(frames, op, stale)
  PROVE  FreshInv'
  <1> DEFINE fr == Head(frames)
             below == Tail(frames)
  <1>1. PICK a \in Paths :
          /\ ftp' = g /\ stack' = <<[fr EXCEPT !.cmd.a = a]>> \o below /\ pc' = "cmd"
          /\ Network(g, q, Append(c2s, [fr EXCEPT !.cmd.a = a].cmd)) /\ op' = op
    BY Zenon DEF Resend
  <1>2. below \in Seq(Fitting) /\ fr \in Fitting
    BY Unstacked
  <1> DEFINE again == [fr EXCEPT !.cmd.a = a]
  <1>3. again.k = fr.k
    BY <1>2 DEF Fitting, FrameSet
  <1>4. IF below = <<>> THEN News(again.k, op', stale) ELSE Tells(below, op', stale)
    BY <1>1, <1>3, BottomForm DEF Tells
  <1>5. \E c : ftp' = g /\ stack' = <<again>> \o below /\ pc' = "cmd" /\ Network(g, q, c)
    BY <1>1
  <1> HIDE DEF again, below
  <1> QED
    BY <1>2, <1>4, <1>5, LandFresh

\* A step outside ftp_read_directory brings no news.
LEMMA MovedFresh ==
  ASSUME stack \in Seq(Fitting), stack # <<>>, Head(stack).k \notin Lists,
         Tail(stack) # <<>> => Head(stack).k \in Logins /\ Tells(stack, op, stale),
         NEW f, Good(f), Current(f, stale, gone), NEW q, Moved(f, q), f.ctrl => Rest(q, srv)
  PROVE  FreshInv'
  <1> PICK g : /\ Keeps(g, f)
               /\ \/ Prompt(g, q)
                  \/ \E o, cmd, k : Follows(o, cmd, k) /\ Send(g, q, o, cmd, k)
                  \/ Tail(stack) # <<>> /\ Resend(g, q, Tail(stack))
                  \/ pc' = "crashed" /\ ftp' = g /\ Network(g, q, c2s) /\ UNCHANGED <<stack, op>>
    BY Zenon DEF Moved
  <1>1. Current(g, stale, gone) /\ (g.ctrl => Rest(q, srv))
    BY DEF Keeps, Current, Seen
  <1>2. CASE Prompt(g, q)
    BY <1>1, <1>2, PromptFresh
  <1>3. CASE \E o, cmd, k : Follows(o, cmd, k) /\ Send(g, q, o, cmd, k)
    <2> PICK o, cmd, k : Follows(o, cmd, k) /\ Send(g, q, o, cmd, k)
      BY <1>3, Zenon
    <2>1. k # "lsBack" /\ (Tail(stack) # <<>> => o = op)
      BY DEF Follows, Lists
    <2>2. IF stack = <<>> \/ Tail(stack) = <<>> THEN News(k, o, stale) ELSE Tells(stack, o, stale)
      BY <2>1 DEF News
    <2> QED
      BY <1>1, <2>2, SendFresh
  <1>4. CASE Tail(stack) # <<>> /\ Resend(g, q, Tail(stack))
    <2> DEFINE t == Tail(stack)
    <2>1. t \in Seq(Fitting) /\ t # <<>> /\ Resend(g, q, t)
      BY <1>4, Unstacked
    <2>2. Tells(t, op, stale)
      BY <1>4, BottomForm DEF Tells
    <2> HIDE DEF t
    <2> QED
      BY <1>1, <2>1, <2>2, ResendFresh
  <1>5. CASE pc' = "crashed" /\ ftp' = g /\ Network(g, q, c2s) /\ UNCHANGED <<stack, op>>
    BY <1>1, <1>5, NetStill, AsideFresh
  <1> QED
    BY <1>2, <1>3, <1>4, <1>5

\* In ftp_read_directory: the way back from a failure brings none either.
LEMMA ListsFresh ==
  ASSUME stack \in Seq(Fitting), stack = <<>> \/ Tail(stack) = <<>>,
         NEW f, Good(f), Current(f, stale, gone), NEW g, Good(g), Alike(g, f), NEW q, NEW p,
         Relists(g, q, p) \/ GivesUp(g, q, p), f.ctrl => Rest(q, srv)
  PROVE  FreshInv'
  <1>1. Current(g, stale, gone) /\ (g.ctrl => Rest(q, srv))
    BY CurrentForms DEF Alike
  <1>2. CASE EndCmd(g, q)
    BY <1>1, <1>2, EndFresh
  <1>3. CASE \E cmd, k : News(k, p, stale) /\ Send(g, q, p, cmd, k)
    BY <1>1, <1>3, SendFresh
  <1>4. \/ EndCmd(g, q)
        \/ Send(g, q, p, Verb("PASV"), "lsPasv")
        \/ p.failed /\ Send(g, q, p, Cmd("CWD", g.curdir, 0), "lsBack")
    BY Zenon DEF Relists, GivesUp
  <1>5. News("lsPasv", p, stale) /\ (p.failed => News("lsBack", p, stale))
    BY DEF News
  <1> QED
    BY <1>2, <1>3, <1>4, <1>5

LEMMA FailedFresh ==
  ASSUME stack \in Seq(Fitting), Tail(stack) = <<>>, op \in OpSet,
         NEW f, Good(f), Current(f, stale, gone), NEW q, ListFailed(f, q, op),
         f.ctrl => Rest(q, srv)
  PROVE  FreshInv'
  <1> PICK g : \E p : Good(g) /\ Alike(g, f) /\ (Relists(g, q, p) \/ GivesUp(g, q, p))
    BY ListFailedMoves
  <1> PICK p : Good(g) /\ Alike(g, f) /\ (Relists(g, q, p) \/ GivesUp(g, q, p))
    OBVIOUS
  <1> QED
    BY ListsFresh

\* A MKD that was carried out marks its directory, and the end of the
\* command drops what is cached of it.
LEMMA MarkedFresh ==
  ASSUME NEW f, Good(f), Current(f, stale \ {f.curdir}, gone), NEW q,
         EndCmd([f EXCEPT !.marks = @ \cup {f.curdir}], q)
  PROVE  FreshInv'
  <1> DEFINE g == [f EXCEPT !.marks = @ \cup {f.curdir}]
  <1>1. f \in FtpSet
    BY DEF Good, FtpOK
  <1>2. g \in FtpSet /\ g.cache = f.cache /\ g.marks = f.marks \cup {f.curdir}
    BY <1>1 DEF FtpSet
  <1> HIDE DEF g
  <1>3. Flush(g).cache = {e \in f.cache : e.path \notin f.marks \cup {f.curdir}}
    BY <1>2 DEF FtpSet, Flush
  <1>4. Current(Flush(g), stale, gone)
    BY <1>3 DEF Current, Seen
  <1>5. Prompt(Flush(g), q)
    BY Zenon DEF EndCmd, g
  <1> QED
    BY <1>4, <1>5, PromptFresh

LEMMA ContinueFresh ==
  ASSUME TypeInv, CallsInv, pc = "cmd", ~LocalFails, Tells(stack, op, stale),
         NEW f, Good(f), NEW q, NEW r \in ReplySet, Continue(f, q, r),
         Current(f, stale \ {f.curdir}, gone),
         Head(stack).k # "mkd" \/ Class(r) # 2 => Current(f, stale, gone),
         Starts(r) => f.ctrl,
         Starts(r) /\ Head(stack).k = "lsList" => dconn.of \notin stale,
         f.ctrl /\ ~Starts(r) => Rest(q, srv)
  PROVE  FreshInv'
  <1> DEFINE k == Head(stack).k
  <1>1. stack \in Seq(Fitting) /\ stack # <<>> /\ Calls(stack, op) /\ op \in OpSet
    BY DEF TypeInv, TypeOK, CallsInv
  <1>2. IF Tail(stack) = <<>> THEN Owns(op, k) ELSE k \in Logins
    BY <1>1, CallsForm
  <1>3. IF Starts(r) THEN Block(f, q, op, "data") ELSE Moved(f, q)
    BY <1>1, ContinueMoves
  <1>4. CASE Starts(r)
    <2>1. pc' = "data" /\ ftp' = f /\ op' = op /\ stale' = stale /\ gone' = gone /\ dconn' = dconn
      BY <1>3, <1>4, Zenon DEF Block, Network
    <2>2. op.name = "ls" => k = "lsList"
      BY <1>2, <1>4 DEF Starts, Transfers, Owns, Logins
    <2>3. k # "mkd"
      BY <1>4 DEF Starts, Transfers
    <2> QED
      BY <1>4, <2>1, <2>2, <2>3 DEF FreshInv, Fresh, Open
  <1>5. CASE ~Starts(r) /\ k = "mkd" /\ Class(r) = 2
    <2> EndCmd([f EXCEPT !.marks = @ \cup {f.curdir}], q)
      BY <1>5, Zenon DEF Continue
    <2> QED
      BY MarkedFresh
  <1>6. CASE ~Starts(r) /\ k \notin Lists /\ ~(k = "mkd" /\ Class(r) = 2)
    <2>1. Current(f, stale, gone) /\ (f.ctrl => Rest(q, srv))
      BY <1>6
    <2>2. Moved(f, q) /\ Head(stack).k \notin Lists
      BY <1>3, <1>6
    <2>3. Tail(stack) # <<>> => Head(stack).k \in Logins /\ Tells(stack, op, stale)
      BY <1>2
    <2> QED
      BY <1>1, <2>1, <2>2, <2>3, MovedFresh
  <1>7. CASE ~Starts(r) /\ k \in Lists
    <2>1. Tail(stack) = <<>> /\ (f.ctrl => Rest(q, srv)) /\ Current(f, stale, gone)
      BY <1>2, <1>7 DEF Lists, Logins
    <2>2. \/ k = "lsCwd" /\ Class(r) = 2 /\ ListStart(f, q, op)
          \/ EndCmd(f, q)
          \/ k = "lsPasv" /\ AfterListPasv(f, q, r)
          \/ k = "lsList" /\ AfterList(f, q, r)
          \/ k = "lsBack" /\ EndCmd(ListCached(f, op), q)
      BY <1>7, Zenon DEF Continue, Lists
    <2>3. CASE EndCmd(f, q)
      BY <2>1, <2>3, EndFresh
    <2>4. ASSUME NEW g, NEW p, Good(g), Alike(g, f), Relists(g, q, p) \/ GivesUp(g, q, p)
          PROVE  FreshInv'
      BY <1>1, <2>1, <2>4, ListsFresh
    <2>5. CASE k = "lsCwd" /\ Class(r) = 2 /\ ListStart(f, q, op)
      <3> PICK g : \E p : Good(g) /\ Alike(g, f) /\ (Relists(g, q, p) \/ GivesUp(g, q, p))
        BY <1>1, <2>5, ListStartMoves
      <3> QED
        BY <2>4
    <2>6. CASE k = "lsPasv" /\ AfterListPasv(f, q, r)
      <3>1. CASE Send(f, q, op, Verb(op.verb), "lsList")
        BY <1>1, <2>1, <3>1, SendFresh DEF News
      <3>2. CASE \E g, p : Good(g) /\ Alike(g, f) /\ (Relists(g, q, p) \/ GivesUp(g, q, p))
        BY <2>4, <3>2
      <3> QED
        BY <1>1, <2>6, <3>1, <3>2, PasvMoves
    <2>7. CASE k = "lsList" /\ AfterList(f, q, r)
      <3>1. Class(r) # 1
        BY <1>7, <2>7 DEF Starts, Transfers
      <3>2. ListFailed(f, q, op)
        BY <2>7, <3>1, Zenon DEF AfterList
      <3> QED
        BY <1>1, <2>1, <3>2, FailedFresh
    <2>8. CASE k = "lsBack" /\ EndCmd(ListCached(f, op), q)
      <3>1. ~op.failed => op.of \notin stale
        BY <1>1, <2>1, <2>8, BottomForm DEF Tells, News
      <3> QED
        BY <1>1, <2>1, <2>8, <3>1, CurrentForms, CachedForm, EndFresh
    <2> QED
      BY <2>2, <2>3, <2>5, <2>6, <2>7, <2>8
  <1>8. k = "mkd" => k \notin Lists
    BY DEF Lists
  <1> QED
    BY <1>4, <1>5, <1>6, <1>7, <1>8

LEMMA CmdFresh ==
  ASSUME TypeInv, CallsInv, Synchronous, FreshInv, ~LocalFails,
         CmdReply \/ CmdEof \/ CmdNoCtrl
  PROVE  FreshInv'
  <1>1. pc = "cmd"
    BY Zenon DEF CmdReply, CmdEof, CmdNoCtrl
  <1>2. Tells(stack, op, stale)
    BY <1>1 DEF FreshInv, Fresh
  <1>3. CASE CmdReply
    <2> DEFINE r == Head(s2c)
               f == [ftp EXCEPT !.full = Head(s2c).full]
    <2>1. ftp.ctrl /\ s2c # <<>>
      BY <1>3, Zenon DEF CmdReply
    <2>2. r \in ReplySet /\ Good(f) /\ Alike(f, ftp)
      BY <1>1, <2>1, FullForm DEF Opening
    <2>3. IF Starts(r) THEN Moving(Tail(s2c), srv) ELSE Rest(Tail(s2c), srv)
      BY <1>1, <2>1, ReplyForm DEF Synchronous
    <2>4. \/ /\ r.full = 421
             /\ ftp' = f /\ pc' = "connect" /\ op' = op
             /\ stack' = [stack EXCEPT ![1].recon = TRUE]
             /\ stale' = stale /\ gone' = gone
          \/ Continue(f, Tail(s2c), r)
      BY <1>3, Zenon DEF CmdReply, Reconnects, Network
    <2>5. Starts(r) /\ Head(stack).k = "lsList" => dconn.of \notin stale
      BY <1>1, <2>1 DEF FreshInv, Fresh, Starts
    <2>6. /\ Current(ftp, stale \ {ftp.curdir}, gone)
          /\ Head(stack).k # "mkd" \/ Class(r) # 2 => Current(ftp, stale, gone)
      BY <2>1 DEF FreshInv, Fresh, Open, Yes, Current, Seen
    <2> HIDE DEF r, f
    <2>7. /\ f.ctrl /\ Current(f, stale \ {f.curdir}, gone)
          /\ Head(stack).k # "mkd" \/ Class(r) # 2 => Current(f, stale, gone)
      BY <2>1, <2>2, <2>6 DEF Alike, Current, Seen
    <2>8. CASE Continue(f, Tail(s2c), r)
      BY <1>1, <1>2, <2>2, <2>3, <2>5, <2>7, <2>8, ContinueFresh
    <2>9. CASE /\ r.full = 421
               /\ ftp' = f /\ pc' = "connect" /\ op' = op
               /\ stack' = [stack EXCEPT ![1].recon = TRUE]
               /\ stale' = stale /\ gone' = gone
      <3> DEFINE n == Len(stack)
      <3>1. stack \in Seq(Fitting) /\ n \in 1..Len(stack) /\ stack # <<>>
        BY <1>1 DEF TypeInv
      <3>2. Len(stack') = n /\ stack'[n].k = stack[n].k
        BY <2>9, <3>1 DEF Fitting, FrameSet
      <3>3. Bottom(stack') = Bottom(stack)
        BY <3>1, <3>2 DEF Bottom, Base
      <3>4. Class(r) # 2
        BY <2>9 DEF Class
      <3> QED
        BY <1>2, <2>7, <2>9, <3>1, <3>3, <3>4 DEF FreshInv, Fresh, Open, Tells
    <2> QED
      BY <2>4, <2>8, <2>9
  <1>4. CASE CmdEof \/ CmdNoCtrl
    <2>1. \E f : /\ Good(f) /\ Current(f, stale, gone) /\ ~f.ctrl
                 /\ Continue(f, <<>>, NoReply)
      <3>1. CASE CmdEof
        <4>1. Current(Close(ftp), stale, gone)
          BY DEF TypeInv, TypeOK, FtpSet, Close, Current, Seen
        <4> QED
          BY <3>1, <4>1, ClosedForm, Zenon DEF CmdEof
      <3>2. CASE CmdNoCtrl
        <4> DEFINE f == [ftp EXCEPT !.full = 0]
        <4>1. ~ftp.ctrl /\ Continue(f, <<>>, NoReply)
          BY <3>2, Zenon DEF CmdNoCtrl
        <4>2. Good(ftp) /\ 0 \in Codes
          BY <1>1 DEF TypeInv, Good, Opening, Codes
        <4>3. Good(f) /\ Alike(f, ftp)
          BY <4>2, FieldForms, AlikeForms
        <4>4. Current(ftp, stale, gone)
          BY <4>1 DEF FreshInv, Fresh, Open
        <4> HIDE DEF f
        <4>5. Current(f, stale, gone) /\ ~f.ctrl
          BY <4>1, <4>3, <4>4 DEF Alike, Current, Seen
        <4> QED
          BY <4>1, <4>3, <4>5
      <3> QED
        BY <1>4, <3>1, <3>2
    <2> PICK f : /\ Good(f) /\ Current(f, stale, gone) /\ ~f.ctrl
                 /\ Continue(f, <<>>, NoReply)
      BY <2>1
    <2>2. Current(f, stale \ {f.curdir}, gone)
      BY DEF Current, Seen
    <2> QED
      BY <1>1, <1>2, <2>2, NoReplyTyped, NoReplyForm, ContinueFresh
  <1> QED
    BY <1>3, <1>4

-----------------------------------------------------------------------------
(* The connection, and the data connection.                                *)

LEMMA OpeningFresh ==
  ASSUME TypeInv, CallsInv, Synchronous, FreshInv, ConnectOk \/ ConnectFail \/ Welcome
  PROVE  FreshInv'
  <1>1. pc \in {"connect", "welcome"}
    BY Zenon DEF ConnectOk, ConnectFail, Welcome
  <1>2. /\ Tells(stack, op, stale) /\ Current(ftp, stale, gone) /\ ftp \in FtpSet
        /\ stack \in Seq(Fitting)
    BY <1>1 DEF FreshInv, Fresh, Open, TypeInv, TypeOK
  <1>3. CASE OpenFailed(Close(ftp))
    <2> DEFINE f == Close(ftp)
    <2>1. Good(f) /\ ~f.ctrl
      BY ClosedForm
    <2>2. Current(f, stale, gone)
      BY <1>2 DEF Close, FtpSet, Current, Seen
    <2>3. \/ stack = <<>> /\ EndCmd(f, <<>>)
          \/ stack # <<>> /\ Resend(f, <<>>, stack)
      BY <1>3, Zenon DEF OpenFailed
    <2> HIDE DEF f
    <2> QED
      BY <1>2, <2>1, <2>2, <2>3, EndFresh, ResendFresh
  <1>4. CASE ConnectOk
    <2>1. /\ ftp' = [ftp EXCEPT !.ctrl = TRUE, !.type = "?"] /\ pc' = "welcome"
          /\ stack' = stack /\ op' = op /\ stale' = stale /\ gone' = gone
      BY <1>4, Zenon DEF ConnectOk
    <2>2. Current(ftp', stale, gone)
      BY <1>2, <2>1 DEF FtpSet, Current, Seen
    <2> QED
      BY <1>2, <2>1, <2>2 DEF FreshInv, Fresh, Open
  <1>5. CASE Welcome
    <2>1. pc = "welcome" /\ ftp.ctrl
      BY <1>5, Zenon DEF Welcome
    <2>2. CASE \E u : /\ s2c # <<>> /\ Head(s2c).full = 220
                      /\ Issue([ftp EXCEPT !.full = 220, !.connected = TRUE, !.url = TRUE,
                                           !.urldir = u],
                               Tail(s2c), op, Verb("USER"), "user", stack)
      <3> PICK u : /\ s2c # <<>> /\ Head(s2c).full = 220
                   /\ Issue([ftp EXCEPT !.full = 220, !.connected = TRUE, !.url = TRUE,
                                        !.urldir = u],
                            Tail(s2c), op, Verb("USER"), "user", stack)
        BY <2>2
      <3> DEFINE g == [ftp EXCEPT !.full = 220, !.connected = TRUE, !.url = TRUE, !.urldir = u]
                 fr == [cmd |-> Verb("USER"), recon |-> FALSE, k |-> "user"]
                 q == Tail(s2c)
      <3>1. Current(g, stale, gone) /\ fr.k = "user"
        BY <1>2 DEF FtpSet, Current, Seen
      <3>2. Rest(q, srv)
        <4>0. Answered("banner", c2s, s2c, srv)
          BY <2>1 DEF Synchronous
        <4>1. CASE Replied("banner", s2c, srv)
          BY <4>1, RepliedOn
        <4>2. CASE Rest(s2c, srv)
          BY <4>2, RestOn
        <4> QED
          BY <4>0, <4>1, <4>2 DEF Answered
      <3>3. /\ ftp' = g /\ stack' = <<fr>> \o stack /\ pc' = "cmd" /\ op' = op
            /\ Network(g, q, Append(c2s, Verb("USER")))
        BY Zenon DEF Issue
      <3> HIDE DEF g, fr, q
      <3>4. News(fr.k, op', stale) /\ Tells(stack, op', stale)
        BY <1>2, <3>1, <3>3 DEF News
      <3> QED
        BY <1>2, <3>1, <3>2, <3>3, <3>4, LandFresh
    <2>3. CASE OpenFailed(Close(ftp))
      BY <1>3, <2>3
    <2> QED
      BY <1>5, <2>2, <2>3, Zenon DEF Welcome
  <1> QED
    BY <1>3, <1>4, <1>5, Zenon DEF ConnectFail

\* What a step within a transfer may count on.
Recent(p, o, d, T) ==
  /\ p = "data" => d.of \notin T
  /\ p = "drain" => o.abor \/ o.of \notin T
  /\ p = "final" => o.of \notin T

LEMMA MomentFresh ==
  ASSUME TypeInv, CallsInv, Synchronous, FreshInv, pc \in Moment
  PROVE  /\ ftp.ctrl /\ op \in OpSet /\ Current(ftp, stale, gone)
         /\ stack \in Seq(Fitting) /\ stack # <<>> /\ Tail(stack) = <<>>
         /\ op.name = "ls" => Recent(pc, op, dconn, stale)
         /\ op.name \in {"ls", "get"}
         /\ pc \in {"data", "final"} => ~op.abor
  BY DEF TypeInv, TypeOK, CallsInv, Synchronous, FreshInv, Fresh, Open, Recent, Moment

LEMMA BusyFresh ==
  ASSUME NEW p \in Moment, pc' = p, Current(ftp', stale', gone'),
         op'.name = "ls" => Recent(p, op', dconn', stale')
  PROVE  FreshInv'
  BY DEF FreshInv, Fresh, Open, Recent, Moment

LEMMA DataFresh ==
  ASSUME TypeInv, CallsInv, Synchronous, FreshInv,
         RecvEnd \/ RecvBreak \/ AbortPending \/ SendAbor \/ Drained
  PROVE  FreshInv'
  <1>1. pc \in {"data", "drain"} /\ pc \in Moment
    BY Zenon DEF RecvEnd, RecvBreak, AbortPending, SendAbor, Drained, Moment
  <1>2. /\ ftp.ctrl /\ op \in OpSet /\ Current(ftp, stale, gone)
        /\ op.name = "ls" => Recent(pc, op, dconn, stale)
    BY <1>1, MomentFresh
  <1>3. CASE RecvEnd
    <2> DEFINE o == [op EXCEPT !.whole = dconn.whole, !.of = dconn.of]
    <2>1. pc = "data" /\ Block(ftp, s2c, o, "final")
      BY <1>3, Zenon DEF RecvEnd
    <2>2. o.of = dconn.of /\ o.name = op.name
      BY <1>2 DEF OpSet
    <2> HIDE DEF o
    <2>3. pc' = "final" /\ ftp' = ftp /\ op' = o /\ stale' = stale /\ gone' = gone
      BY <2>1, Zenon DEF Block, Network
    <2> QED
      BY <1>2, <2>1, <2>2, <2>3, BusyFresh DEF Recent, Moment
  <1>4. CASE RecvBreak
    <2>1. /\ op.name = "get" /\ op' = [op EXCEPT !.whole = FALSE] /\ ftp' = ftp /\ pc' = "final"
          /\ stale' = stale /\ gone' = gone
      BY <1>4, Zenon DEF RecvBreak, Block, Network
    <2>2. op'.name = "get"
      BY <1>2, <2>1 DEF OpSet
    <2> QED
      BY <1>2, <2>1, <2>2, BusyFresh DEF Moment
  <1>5. CASE AbortPending
    <2> DEFINE b == op.name = "get"
               o == [op EXCEPT !.whole = FALSE, !.of = dconn.of, !.failed = b]
    <2>1. pc = "data" /\ Block(ftp, s2c, o, "drain")
      BY <1>5, Zenon DEF AbortPending
    <2>2. o.of = dconn.of /\ o.name = op.name
      BY <1>2 DEF OpSet
    <2> HIDE DEF o
    <2>3. pc' = "drain" /\ ftp' = ftp /\ op' = o /\ stale' = stale /\ gone' = gone
      BY <2>1, Zenon DEF Block, Network
    <2> QED
      BY <1>2, <2>1, <2>2, <2>3, BusyFresh DEF Recent, Moment
  <1>6. CASE SendAbor
    <2> DEFINE o == [op EXCEPT !.abor = TRUE]
    <2>1. /\ ftp' = ftp /\ pc' = "drain" /\ op' = o /\ stale' = stale /\ gone' = gone
      BY <1>6, Zenon DEF SendAbor, Network
    <2>2. o.abor
      BY <1>2 DEF OpSet
    <2> HIDE DEF o
    <2> QED
      BY <1>2, <2>1, <2>2, BusyFresh DEF Recent, Moment
  <1>7. CASE Drained
    <2> DEFINE p == IF op.abor THEN "abort1" ELSE "final"
    <2>1. pc = "drain" /\ Block(ftp, s2c, op, p)
      BY <1>7, Zenon DEF Drained
    <2>2. ftp' = ftp /\ op' = op /\ pc' = p /\ stale' = stale /\ gone' = gone
      BY <2>1, Zenon DEF Block, Network
    <2>3. op.name = "ls" => Recent(p, op, dconn', stale)
      BY <1>2, <2>1 DEF Recent
    <2>4. p \in Moment
      BY DEF Moment
    <2> HIDE DEF p
    <2> QED
      BY <1>2, <2>2, <2>3, <2>4, BusyFresh
  <1> QED
    BY <1>3, <1>4, <1>5, <1>6, <1>7

LEMMA FinalFresh ==
  ASSUME TypeInv, CallsInv, Synchronous, FreshInv, FinalReply \/ FinalEof
  PROVE  FreshInv'
  <1>1. pc = "final" /\ pc \in Moment
    BY Zenon DEF FinalReply, FinalEof, Moment
  <1>2. /\ stack \in Seq(Fitting) /\ stack # <<>> /\ Tail(stack) = <<>> /\ op \in OpSet
        /\ Current(ftp, stale, gone) /\ (op.name = "ls" => op.of \notin stale)
    BY <1>1, MomentFresh DEF Recent
  <1>3. ASSUME NEW f, Good(f), Current(f, stale, gone), NEW q, f.ctrl => Rest(q, srv),
               NEW r, TransferEnd(f, q, r)
        PROVE  FreshInv'
    <2>1. \/ op.name = "ls" /\ ListBack(f, q, op)
          \/ op.name = "ls" /\ ListFailed(f, q, op)
          \/ EndCmd(f, q)
      BY <1>3, Zenon DEF TransferEnd
    <2>2. CASE op.name = "ls" /\ ListBack(f, q, op)
      <3>1. Good(ListCached(f, op)) /\ Current(ListCached(f, op), stale, gone)
        BY <1>2, <1>3, <2>2, CachedForm, CurrentForms
      <3>2. News("lsBack", op, stale)
        BY <1>2, <2>2 DEF News
      <3>3. \/ EndCmd(ListCached(f, op), q)
            \/ Send(f, q, op, Cmd("CWD", f.curdir, 0), "lsBack")
        BY <2>2, Zenon DEF ListBack
      <3> QED
        BY <1>2, <1>3, <3>1, <3>2, <3>3, EndFresh, SendFresh
    <2>3. CASE op.name = "ls" /\ ListFailed(f, q, op)
      BY <1>2, <1>3, <2>3, FailedFresh
    <2>4. CASE EndCmd(f, q)
      BY <1>3, <2>4, EndFresh
    <2> QED
      BY <2>1, <2>2, <2>3, <2>4
  <1>4. CASE FinalReply
    <2> DEFINE f == [ftp EXCEPT !.full = Head(s2c).full]
    <2>1. s2c # <<>> /\ TransferEnd(f, Tail(s2c), Head(s2c))
      BY <1>4, Zenon DEF FinalReply
    <2>2. Good(f) /\ Alike(f, ftp)
      BY <1>1, <2>1, FullForm DEF Opening
    <2> HIDE DEF f
    <2>3. Rest(Tail(s2c), srv) /\ Current(f, stale, gone)
      <3>1. Moving(s2c, srv)
        BY <1>1 DEF CallsInv, Synchronous, Ending
      <3> QED
        BY <1>2, <2>1, <2>2, <3>1, MovingOn DEF Alike, Current, Seen
    <2> QED
      BY <1>3, <2>1, <2>2, <2>3
  <1>5. CASE FinalEof
    <2> DEFINE f == Close(ftp)
    <2>1. TransferEnd(f, <<>>, NoReply)
      BY <1>5, Zenon DEF FinalEof
    <2>2. Good(f) /\ ~f.ctrl
      BY ClosedForm
    <2>3. Current(f, stale, gone)
      BY DEF Close, Current, Seen, TypeInv, TypeOK, FtpSet
    <2> HIDE DEF f
    <2> QED
      BY <1>3, <2>1, <2>2, <2>3
  <1> QED
    BY <1>4, <1>5

LEMMA AbortFresh ==
  ASSUME TypeInv, CallsInv, Synchronous, FreshInv, AbortReply \/ AbortEof
  PROVE  FreshInv'
  <1>1. pc \in {"abort1", "abort2"} /\ pc \in Moment
    BY Zenon DEF AbortReply, AbortEof, Moment
  <1>2. /\ stack \in Seq(Fitting) /\ Tail(stack) = <<>> /\ op \in OpSet /\ ftp.ctrl
        /\ Current(ftp, stale, gone)
    BY <1>1, MomentFresh
  <1>3. ASSUME NEW f, Good(f), Current(f, stale, gone), NEW q, f.ctrl => Rest(q, srv),
               AbortDone(f, q)
        PROVE  FreshInv'
    <2> ListFailed(f, q, op) \/ EndCmd(f, q)
      BY <1>3, Zenon DEF AbortDone
    <2> QED
      BY <1>2, <1>3, FailedFresh, EndFresh
  <1>4. CASE AbortReply
    <2> DEFINE f == [ftp EXCEPT !.full = Head(s2c).full]
    <2>1. s2c # <<>> /\ IF pc = "abort1" THEN Block(f, Tail(s2c), op, "abort2")
                        ELSE AbortDone(f, Tail(s2c))
      BY <1>4, Zenon DEF AbortReply
    <2>2. Good(f) /\ Alike(f, ftp)
      BY <1>1, <2>1, FullForm DEF Opening
    <2> HIDE DEF f
    <2>3. Current(f, stale, gone)
      BY <1>2, <2>2 DEF Alike, Current, Seen
    <2>4. CASE pc = "abort1"
      <3>1. pc' = "abort2" /\ ftp' = f /\ stale' = stale /\ gone' = gone
        BY <2>1, <2>4, Zenon DEF Block, Network
      <3> QED
        BY <2>3, <3>1, BusyFresh DEF Moment, Recent
    <2>5. CASE pc = "abort2"
      <3> Due(Verb("ABOR"), c2s, s2c, srv)
        BY <1>2, <2>5 DEF Synchronous
      <3> Rest(Tail(s2c), srv)
        BY <2>1, AborOn
      <3> QED
        BY <1>3, <2>1, <2>2, <2>3, <2>5
    <2> QED
      BY <1>1, <2>4, <2>5
  <1>5. CASE AbortEof
    <2> AbortDone(Close(ftp), <<>>)
      BY <1>5, Zenon DEF AbortEof
    <2> Current(Close(ftp), stale, gone)
      BY DEF Close, Current, Seen, TypeInv, TypeOK, FtpSet
    <2> QED
      BY <1>3, ClosedForm
  <1> QED
    BY <1>4, <1>5

-----------------------------------------------------------------------------
(* Commands and signals.                                                   *)

LEMMA UserFresh ==
  ASSUME TypeInv, Synchronous, FreshInv, UserStep
  PROVE  FreshInv'
  <1>1. pc = "prompt"
    BY Zenon DEF UserStep, UserOpen, UserReopen, UserUser, UserMkdir, UserClose, UserCd,
                 UserLs, UserGet, Type
  <1>2. /\ stack = <<>> /\ stack \in Seq(Fitting) /\ op \in OpSet
        /\ Current(ftp, stale, gone) /\ Current(Close(ftp), stale, gone)
    BY <1>1 DEF TypeInv, TypeOK, FreshInv, Fresh, Open, Close, Current, Seen, FtpSet
  <1>3. ASSUME Connected(ftp)
        PROVE  Good(ftp) /\ Rest(s2c, srv)
    BY <1>1, <1>3 DEF TypeInv, Good, Live, Connected, Synchronous, Idle
  <1>4. LoggedIn(ftp) => Connected(ftp)
    BY DEF LoggedIn, Connected
  <1>5. ASSUME Connected(ftp), NEW o, NEW cmd, NEW k, Send(ftp, s2c, o, cmd, k), k # "lsBack"
        PROVE  FreshInv'
    BY <1>2, <1>3, <1>5, SendFresh DEF News
  <1>6. ASSUME NEW f, Current(f, stale, gone), NEW o, Dial(f, o)
        PROVE  FreshInv'
    <2> ftp' = f /\ pc' = "connect" /\ stack' = <<>> /\ stale' = stale /\ gone' = gone
      BY <1>6, Zenon DEF Dial, Network
    <2> QED
      BY <1>6 DEF FreshInv, Fresh, Open, Tells
  <1>7. CASE \E d \in Dirs \cup {NoDir} : UserOpen(d)
    <2> \E o : Dial(Close(ftp), o)
      BY <1>7, Zenon DEF UserOpen
    <2> QED
      BY <1>2, <1>6
  <1>8. CASE UserReopen
    <2> \E o : Dial(ftp, o)
      BY <1>8, Zenon DEF UserReopen
    <2> QED
      BY <1>2, <1>6
  <1>9. CASE \/ UserUser \/ UserMkdir \/ \E d \in Dirs : UserCd(d)
    <2> \E o, cmd, k : k \in {"user", "mkd", "cdCwd"} /\ Connected(ftp) /\ Send(ftp, s2c, o, cmd, k)
      BY <1>4, <1>9 DEF UserUser, UserMkdir, UserCd
    <2> QED
      BY <1>5
  <1>10. CASE UserClose
    <2>1. \/ Connected(ftp) /\ \E o : Send(ftp, s2c, o, Verb("QUIT"), "quit")
          \/ EndCmd(Close(ftp), s2c)
      BY <1>10, Zenon DEF UserClose
    <2>2. CASE Connected(ftp) /\ \E o : Send(ftp, s2c, o, Verb("QUIT"), "quit")
      BY <1>5, <2>2
    <2> QED
      BY <1>2, <2>1, <2>2, ClosedForm, EndFresh
  <1>11. CASE \E d \in Dirs : UserLs(d)
    <2> PICK d \in Dirs : UserLs(d)
      BY <1>11
    <2> DEFINE b == d = ftp.curdir
               o == [NoOp EXCEPT !.name = "ls", !.dir = d, !.here = b]
    <2>1. b \in BOOLEAN /\ d \in Paths
      BY PathsTyped, Zenon
    <2>2. LoggedIn(ftp) /\ IF Cached(ftp, d) THEN EndCmd(ftp, s2c)
                           ELSE IF o.here THEN ListStart(ftp, s2c, o)
                           ELSE Send(ftp, s2c, o, Cmd("CWD", d, 0), "lsCwd")
      BY Zenon DEF UserLs
    <2> HIDE DEF b
    <2>3. o \in OpSet
      BY <1>2, <2>1, OpForms, Zenon
    <2> HIDE DEF o
    <2>4. Connected(ftp) /\ Good(ftp) /\ Rest(s2c, srv)
      BY <1>3, <1>4, <2>2
    <2>5. CASE EndCmd(ftp, s2c)
      BY <1>2, <2>4, <2>5, EndFresh
    <2>6. CASE ListStart(ftp, s2c, o)
      <3> PICK g : \E p : Good(g) /\ Alike(g, ftp) /\ (Relists(g, s2c, p) \/ GivesUp(g, s2c, p))
        BY <2>3, <2>4, <2>6, ListStartMoves
      <3> PICK p : Good(g) /\ Alike(g, ftp) /\ (Relists(g, s2c, p) \/ GivesUp(g, s2c, p))
        OBVIOUS
      <3> QED
        BY <1>2, <2>4, ListsFresh
    <2>7. CASE Send(ftp, s2c, o, Cmd("CWD", d, 0), "lsCwd")
      BY <1>5, <2>4, <2>7
    <2> QED
      BY <2>2, <2>5, <2>6, <2>7
  <1>12. CASE \E resume \in BOOLEAN : UserGet(resume)
    <2>1. LoggedIn(ftp) /\ ((\E o, cmd : Send(ftp, s2c, o, cmd, "getPasv")) \/ EndCmd(ftp, s2c))
      BY <1>12, Zenon DEF UserGet
    <2>2. CASE \E o, cmd : Send(ftp, s2c, o, cmd, "getPasv")
      BY <1>4, <1>5, <2>1, <2>2
    <2> QED
      BY <1>2, <1>3, <1>4, <2>1, <2>2, EndFresh
  <1> QED
    BY <1>7, <1>8, <1>9, <1>10, <1>11, <1>12, Zenon DEF UserStep

LEMMA StillFresh ==
  ASSUME FreshInv, UNCHANGED <<ftp, stack, pc, op, s2c, srv, dconn, stale, gone>>
  PROVE  FreshInv'
  BY DEF FreshInv

\* Once a MKD may have been carried out, ftp_cmd is not jumped out of with
\* the connection left open.
LEMMA SignalFresh ==
  ASSUME TypeInv, FreshInv, ~Abandons, IntJmp \/ IntAbort \/ IntClose \/ Timeout
  PROVE  FreshInv'
  <1>1. CASE UNCHANGED <<ftp, stack, pc, op, c2s, s2c, net>>
    BY <1>1, StillFresh DEF net
  <1>2. CASE LongJmp(Close(ftp), <<>>)
    <2> Current(Close(ftp), stale, gone)
      BY DEF Close, Current, Seen, TypeInv, TypeOK, FtpSet
    <2> QED
      BY <1>2, PromptFresh
  <1>3. CASE IntJmp
    <2> DEFINE g == [ftp EXCEPT !.ctrl = FALSE]
    <2>1. /\ pc \in {"connect", "welcome"}
          /\ LongJmp(g, <<>>) \/ LongJmp(ftp, s2c)
      BY <1>3, Zenon DEF IntJmp
    <2>2. Current(ftp, stale, gone)
      BY <2>1 DEF FreshInv, Fresh, Open
    <2>3. Current(g, stale, gone)
      BY <2>2 DEF TypeInv, TypeOK, FtpSet, Current, Seen
    <2> HIDE DEF g
    <2> QED
      BY <2>1, <2>2, <2>3, PromptFresh
  <1>4. CASE IntAbort
    <2>1. /\ pc = "cmd" /\ ftp.ctrl
          /\ \/ UNCHANGED <<ftp, stack, pc, op, c2s, s2c, net>>
             \/ \E n \in 0..Len(s2c) : LongJmp(ftp, SubSeq(s2c, n + 1, Len(s2c)))
             \/ LongJmp(Close(ftp), <<>>)
      BY <1>4, Zenon DEF IntAbort
    <2>2. Connected(ftp)
      BY <2>1 DEF TypeInv, Opening, Live, Connected
    <2>3. CASE \E n \in 0..Len(s2c) : LongJmp(ftp, SubSeq(s2c, n + 1, Len(s2c)))
      <3> pc' = "prompt" /\ ftp' = ftp
        BY <2>3, Zenon DEF LongJmp, Prompt
      <3> QED
        BY <1>4, <2>2 DEF Abandons, Connected
    <2> QED
      BY <1>1, <1>2, <2>1, <2>3
  <1>5. CASE IntClose \/ Timeout
    BY <1>1, <1>2, <1>5, Zenon DEF IntClose, Timeout
  <1> QED
    BY <1>3, <1>4, <1>5

-----------------------------------------------------------------------------
(* The server.                                                             *)

\* Nothing is changed, and what may have been carried out still may have.
LEMMA ServedFresh ==
  ASSUME FreshInv, UNCHANGED <<ftp, stack, pc, op, gone>>, stale' \subseteq stale,
         Open(pc, ftp, stack, s2c, srv) => Open(pc, ftp, stack, s2c', srv'),
         pc = "cmd" /\ ftp.ctrl /\ Head(stack).k = "lsList" /\ s2c' # <<>>
           /\ Class(Head(s2c')) = 1 => dconn'.of \notin stale',
         pc = "data" => dconn'.of = dconn.of
  PROVE  FreshInv'
  <1>1. Current(ftp, IF Open(pc, ftp, stack, s2c', srv') THEN stale' \ {ftp.curdir} ELSE stale',
                gone)
    BY DEF FreshInv, Fresh, Current, Seen
  <1>2. Tells(stack, op, stale) => Tells(stack, op, stale')
    BY DEF Tells, News
  <1> QED
    BY <1>1, <1>2 DEF FreshInv, Fresh

LEMMA DropFresh ==
  ASSUME TypeInv, FreshInv, SrvDrop
  PROVE  FreshInv'
  <1>1. /\ UNCHANGED <<ftp, stack, pc, op, gone, stale>> /\ dconn' = [dconn EXCEPT !.eof = TRUE]
        /\ Cut(s2c, s2c') /\ srv' = Down /\ srv.up
    BY Zenon DEF SrvDrop, client, Cut, Bow
  <1>2. ~srv'.up /\ dconn'.of = dconn.of /\ s2c \in Seq(ReplySet)
    BY <1>1, BowForm DEF TypeInv, TypeOK, DconnSet
  <1> DEFINE p == s2c'
  <1>3. Cut(s2c, p)
    BY <1>1
  <1> HIDE DEF p
  <1>4. Open(pc, ftp, stack, s2c, srv) => Open(pc, ftp, stack, p, srv')
    <2>1. s2c # <<>> => p = <<>> \/ (p # <<>> /\ Head(p) = Head(s2c))
      BY <1>2, <1>3, CutForm
    <2> QED
      BY <1>1, <1>2, <2>1 DEF Open, Yes
  <1>5. ASSUME pc = "cmd", ftp.ctrl, Head(stack).k = "lsList", p # <<>>, Class(Head(p)) = 1
        PROVE  dconn.of \notin stale
    <2>1. Head(p) # Bow
      BY <1>5, BowForm DEF Class
    <2>2. s2c # <<>> /\ Head(p) = Head(s2c)
      BY <1>2, <1>3, <1>5, <2>1, CutForm
    <2> QED
      BY <1>5, <2>2 DEF FreshInv, Fresh
  <1> QED
    BY <1>1, <1>2, <1>4, <1>5, ServedFresh DEF p

\* The MKD is carried out in the directory that ftp_mkdir will mark.
LEMMA MkdCurdir ==
  ASSUME TypeInv, CallsInv, Synchronous, HonestInv, OnceInv, WhereInv, Serving(srv), c2s # <<>>,
         Next1.v = "MKD", op.dir # BadDir, gone = {}
  PROVE  srv.cwd = ftp.curdir
  <1> DEFINE fr == Head(stack)
  <1>1. pc = "cmd" /\ ftp.ctrl /\ s2c = <<>> /\ stack # <<>> /\ fr.k = "mkd"
    BY AtMkd DEF Serving
  <1>2. Framed(fr, op) /\ Waits(ftp, stack, op, s2c, srv, gone)
    BY <1>1 DEF WhereInv, Where, Frames2
  <1>3. fr.cmd.a = op.dir
    BY <1>1, <1>2 DEF Framed
  <1>4. Placed(fr, ftp, op, s2c, srv, gone) /\ (~fr.recon => fr.cmd.a = ftp.curdir)
    BY <1>1, <1>2 DEF Waits, Places
  <1> HIDE DEF fr
  <1>5. Sits(ftp, srv, gone) /\ (fr.recon => ftp.curdir = fr.cmd.a \/ Lost(fr.cmd.a, gone))
    BY <1>1, <1>4 DEF Placed, Places
  <1> QED
    BY <1>3, <1>4, <1>5 DEF Sits, Lost

LEMMA MkdFresh ==
  ASSUME TypeInv, CallsInv, Synchronous, HonestInv, OnceInv, WhereInv, FreshInv,
         op.name = "mkdir" => op.dir # BadDir, SrvMkd
  PROVE  FreshInv'
  <1>1. /\ srv.up /\ srv.auth /\ c2s # <<>> /\ Next1.v = "MKD"
        /\ UNCHANGED <<ftp, stack, pc, op, gone>>
    BY Zenon DEF SrvMkd, Serves, Executes, client
  <1>2. /\ pc = "cmd" /\ ftp.ctrl /\ s2c = <<>> /\ stack # <<>> /\ Head(stack).k = "mkd"
        /\ op.name = "mkdir" /\ Tail(stack) = <<>>
        /\ s2c \in Seq(ReplySet) /\ stack \in Seq(Fitting)
    BY <1>1, AtMkd DEF TypeInv, TypeOK
  <1>3. Current(ftp, stale, gone)
    BY <1>1, <1>2 DEF FreshInv, Fresh, Open, Yes
  <1>4. Tells(stack, op, stale')
    BY <1>2, BottomForm DEF Tells, News
  <1>5. CASE s2c' = Append(s2c, Reply(257, Next1.v, BadDir)) /\ stale' = stale \cup {srv.cwd}
    <2>1. s2c' # <<>> /\ Head(s2c') = Reply(257, Next1.v, BadDir)
      BY <1>2, <1>5, Appended
    <2>2. Yes(s2c')
      BY <2>1 DEF Yes, Class, Reply
    <2>3. gone = {} => srv.cwd = ftp.curdir
      BY <1>1, <1>2, MkdCurdir DEF Serving
    <2>4. Current(ftp, stale' \ {ftp.curdir}, gone)
      BY <1>3, <1>5, <2>3 DEF Current, Seen
    <2> QED
      BY <1>1, <1>2, <1>4, <2>2, <2>4 DEF FreshInv, Fresh, Open
  <1>6. CASE Say(550, srv)
    <2>1. s2c' = Append(s2c, Reply(550, Next1.v, NoDir)) /\ stale' = stale
      BY <1>6, Zenon DEF Say, Answer
    <2>2. s2c' # <<>> /\ Head(s2c') = Reply(550, Next1.v, NoDir)
      BY <1>2, <2>1, Appended
    <2>3. ~Yes(s2c')
      BY <2>2 DEF Yes, Class, Reply
    <2> QED
      BY <1>1, <1>2, <1>3, <1>4, <2>1, <2>2, <2>3 DEF FreshInv, Fresh, Open
  <1> QED
    BY <1>5, <1>6, Zenon DEF SrvMkd, Answer

LEMMA CommandedFresh ==
  ASSUME TypeInv, CallsInv, Synchronous, FreshInv,
         \/ SrvUser \/ SrvPass \/ SrvDenies \/ SrvPwd \/ SrvCwd
         \/ SrvPasv \/ SrvType \/ SrvRest \/ SrvList \/ SrvRetr \/ SrvQuit
  PROVE  FreshInv'
  <1>1. Commanded /\ srv \in SrvSet
    BY CommandedForm DEF TypeInv, TypeOK
  <1>2. /\ srv.up /\ c2s # <<>> /\ Next1.v # "ABOR" /\ UNCHANGED <<ftp, stack, pc, op>>
    BY <1>1, Zenon DEF Commanded
  <1>3. pc \notin Moment
    <2>1. ~TwoDue(c2s, s2c, srv) /\ ~Ending(c2s, s2c, srv) /\ ~Due(Verb("ABOR"), c2s, s2c, srv)
      BY <1>2, VerbForm, OneForm DEF TwoDue, Ending, Due, Answered, Sends, Next1
    <2> QED
      BY <2>1 DEF CallsInv, Synchronous, Moment
  <1>4. pc = "cmd" /\ ftp.ctrl =>
          s2c = <<>> /\ s2c \in Seq(ReplySet) /\ Speaks(Next1.v, Head(stack).k)
    BY <1>2, Serves1
  <1>5. ~Open(pc, ftp, stack, s2c, srv) /\ pc # "data"
    BY <1>2, <1>3, <1>4 DEF Open, Yes, Moment
  <1>6. /\ gone' = gone
        /\ \/ stale' = stale /\ ~Transfer("list")
           \/ stale' = stale /\ Next1.v = "RETR"
           \/ Transfer("list")
    BY Zenon DEF SrvUser, SrvPass, SrvDenies, SrvPwd, SrvCwd, SrvPasv, SrvType, SrvRest,
                 SrvList, SrvRetr, SrvQuit, Serves, Executes, Say, Transfer
  <1>7. ASSUME pc = "cmd", ftp.ctrl, Head(stack).k = "lsList", s2c' # <<>>, Class(Head(s2c')) = 1
        PROVE  dconn'.of \notin stale'
    <2>1. Next1.v \in {"MLSD", "LIST"}
      BY <1>4, <1>7 DEF Speaks
    <2>2. SrvDenies \/ SrvList
      BY <2>1, Zenon DEF SrvUser, SrvPass, SrvPwd, SrvCwd, SrvPasv, SrvType, SrvRest,
                         SrvRetr, SrvQuit, Serves, Executes
    <2>3. \/ Say(530, srv) \/ Say(500, srv) \/ Say(425, srv) \/ Say(550, srv)
          \/ Transfer("list")
      BY <2>2, Zenon DEF SrvDenies, SrvList
    <2>4. ASSUME NEW full \in {530, 500, 425, 550}, Say(full, srv)
          PROVE  FALSE
      <3>1. s2c' = Append(s2c, Reply(full, Next1.v, NoDir))
        BY <2>4, Zenon DEF Say, Answer
      <3>2. Head(s2c') = Reply(full, Next1.v, NoDir)
        BY <1>4, <1>7, <3>1, Appended
      <3> QED
        BY <1>7, <2>4, <3>2 DEF Class, Reply
    <2>5. Transfer("list")
      BY <2>3, <2>4
    <2>6. dconn'.of = srv.cwd
      BY <1>1, <2>5, TransferStation
    <2>7. stale' = stale \ {srv.cwd}
      BY <2>5, Zenon DEF Transfer
    <2> QED
      BY <2>6, <2>7
  <1>8. stale' \subseteq stale
    BY <1>6, Zenon DEF Transfer
  <1> QED
    BY <1>2, <1>5, <1>6, <1>7, <1>8, ServedFresh

LEMMA XferFresh ==
  ASSUME TypeInv, CallsInv, Synchronous, FreshInv, SrvAbor \/ XferEof \/ XferReply
  PROVE  FreshInv'
  <1>1. /\ srv.up /\ UNCHANGED <<ftp, stack, pc, op, stale, gone>> /\ s2c \in Seq(ReplySet)
        /\ dconn \in DconnSet
    BY Zenon DEF SrvAbor, XferEof, XferReply, Executes, client, TypeInv, TypeOK
  <1>2. dconn'.of = dconn.of
    <2> \/ dconn' = dconn \/ dconn' = [dconn EXCEPT !.eof = TRUE]
        \/ \E ok : dconn' = [dconn EXCEPT !.eof = TRUE, !.whole = ok]
      BY Zenon DEF SrvAbor, XferEof, XferReply
    <2> QED
      BY <1>1 DEF DconnSet
  <1>3. pc = "cmd" /\ ftp.ctrl => s2c # <<>> /\ s2c' # <<>> /\ Head(s2c') = Head(s2c)
    <2> SUFFICES ASSUME pc = "cmd", ftp.ctrl
                 PROVE  s2c # <<>> /\ s2c' # <<>> /\ Head(s2c') = Head(s2c)
      OBVIOUS
    <2>1. ~SrvAbor
      BY Serves1 DEF SrvAbor, Executes, Speaks
    <2>2. srv.xfer /\ (s2c' = s2c \/ \E r : s2c' = Append(s2c, r))
      BY <2>1, Zenon DEF XferEof, XferReply
    <2>3. s2c # <<>>
      <3> Due(Head(stack).cmd, c2s, s2c, srv)
        BY DEF Synchronous
      <3> QED
        BY <1>1, <2>2 DEF Due, Answered, Replied
    <2> QED
      BY <1>1, <2>2, <2>3, Appended
  <1>4. Open(pc, ftp, stack, s2c, srv) => Open(pc, ftp, stack, s2c', srv')
    BY <1>3 DEF Open, Yes
  <1>5. pc = "cmd" /\ ftp.ctrl /\ Head(stack).k = "lsList" /\ s2c' # <<>>
          /\ Class(Head(s2c')) = 1 => dconn'.of \notin stale'
    BY <1>1, <1>2, <1>3 DEF FreshInv, Fresh
  <1> QED
    BY <1>1, <1>2, <1>4, <1>5, ServedFresh

-----------------------------------------------------------------------------
(* What this connection changed, this connection sees.                     *)

LEMMA FreshInit ==
  ASSUME Init
  PROVE  FreshInv
  <1> pc = "prompt" /\ ftp.cache = {} /\ op.name = "none"
    BY DEF Init, NoOp
  <1> QED
    BY DEF FreshInv, Fresh, Current, Seen

LEMMA FreshStep ==
  ASSUME ~LocalFails, Agreed, WhereInv, OnceInv, HonestInv, FreshInv,
         op.name = "mkdir" => op.dir # BadDir, [Next]_vars, [~Abandons]_vars
  PROVE  FreshInv'
  <1>1. TypeInv /\ CallsInv /\ Synchronous
    BY DEF Agreed
  <1>2. CASE UserStep
    BY <1>1, <1>2, UserFresh
  <1>3. CASE CmdReply \/ CmdEof \/ CmdNoCtrl
    BY <1>1, <1>3, CmdFresh
  <1>4. CASE ConnectOk \/ ConnectFail \/ Welcome
    BY <1>1, <1>4, OpeningFresh
  <1>5. CASE RecvEnd \/ RecvBreak \/ AbortPending \/ SendAbor \/ Drained
    BY <1>1, <1>5, DataFresh
  <1>6. CASE FinalReply \/ FinalEof
    BY <1>1, <1>6, FinalFresh
  <1>7. CASE AbortReply \/ AbortEof
    BY <1>1, <1>7, AbortFresh
  <1>8. CASE ServerStep
    BY <1>1, <1>8, CommandedFresh, MkdFresh, XferFresh, Zenon DEF ServerStep
  <1>9. CASE UNCHANGED vars
    <2> UNCHANGED <<ftp, stack, pc, op, s2c, srv, dconn, stale, gone>>
      BY <1>9, Zenon DEF vars
    <2> QED
      BY StillFresh
  <1>10. CASE ~Abandons /\ (IntJmp \/ IntAbort \/ IntClose \/ Timeout)
    BY <1>1, <1>10, SignalFresh
  <1>11. CASE SrvDrop
    BY <1>1, <1>11, DropFresh
  <1>12. CASE \E d \in Dirs : RemoveDir(d)
    <2> PICK d \in Dirs : RemoveDir(d)
      BY <1>12
    <2>1. UNCHANGED <<ftp, stack, pc, op, s2c, srv, dconn, stale>> /\ gone' = gone \cup {d}
      BY Zenon DEF RemoveDir, client
    <2>2. gone' # {}
      BY <2>1
    <2> QED
      BY <2>1, <2>2 DEF FreshInv, Fresh, Current
  <1> QED
    BY <1>2, <1>3, <1>4, <1>5, <1>6, <1>7, <1>8, <1>9, <1>10, <1>11, <1>12, Zenon
       DEF Next, ClientStep, Quiet

(* At the prompt nothing is cached that is older than what ftp_mkdir did   *)
(* to it: between the reply to MKD and the prompt lie the mark, on the     *)
(* directory the server then was in, and the flush; a listing made after   *)
(* is a new one; and a reply that is lost takes the cache with it.  Set    *)
(* apart is what MkdirKeepsItsPromise sets apart.                          *)
THEOREM OwnChangesAreSeen ==
  ASSUME ~LocalFails
  PROVE  /\ Spec /\ [][~Abandons]_vars /\ []Single
         /\ [](op.name = "mkdir" => op.dir # BadDir)
         => []OwnChangesSeen
  <1> DEFINE Known == op.name = "mkdir" => op.dir # BadDir
             All == Agreed /\ WhereInv /\ OnceInv /\ HonestInv /\ FreshInv
  <1>1. Init => All
    BY AgreedInit, WhereInit, OnceInit, HonestInit, FreshInit DEF Agreed
  <1>2. All /\ Single /\ Single' /\ Known /\ [Next]_vars /\ [~Abandons]_vars => All'
    <2> SUFFICES ASSUME All, Single, Single', Known, [Next]_vars, [~Abandons]_vars
                 PROVE  All'
      OBVIOUS
    <2>1. Agreed'
      BY AgreedStep
    <2>2. WhereInv'
      BY WhereStep
    <2>3. OnceInv'
      BY OnceStep DEF Agreed
    <2>4. HonestInv'
      BY <2>1, HonestStep
    <2>5. FreshInv'
      BY FreshStep
    <2> QED
      BY <2>1, <2>2, <2>3, <2>4, <2>5
  <1>3. All => OwnChangesSeen
    BY DEF FreshInv, Fresh, Open, Current, Seen, OwnChangesSeen
  <1> HIDE DEF All, Known
  <1>4. Spec /\ [][~Abandons]_vars /\ []Single /\ []Known => []OwnChangesSeen
    BY <1>1, <1>2, <1>3, PTL DEF Spec
  <1> QED
    BY <1>4 DEF Known
=============================================================================
