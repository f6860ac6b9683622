-------------------------------- MODULE Fxp --------------------------------
(***************************************************************************)
(* fxp (src/fxp.c, ftp_fxpfile() in src/ftp/ftpsend.c): files are sent     *)
(* from the server of one connection to that of another, the target.  The  *)
(* client conducts two dialogues in turns, and moves the global `ftp` from *)
(* one connection to the other with ftp_use() before every request; `use`  *)
(* is the connection whose reply the client waits for.                     *)
(*                                                                         *)
(* Each request may be refused, or find the session lost and be sent again *)
(* in a new one, which knows nothing of TYPE, PASV and PORT.  The list of  *)
(* files is walked as get walks it (see Get).                              *)
(***************************************************************************)
EXTENDS Connections

CONSTANTS
  Items, Kind,    \* what the source has: "reg", "dir", "dot" or "other"
  Children,       \* what a directory holds
  Lists,          \* what the arguments of fxp may expand to
  OptionSets,     \* options an fxp may be given
  Modes,          \* transfer types: of "A" and "I"
  Refusable,      \* requests a server may refuse
  ReconnectAt,    \* requests that may be sent again after a reconnect
  SourceErrors,   \* may the source fail in a way the target does not see?
  NoItem, NoFtp,
  MaxFxps         \* bound: fxp commands

ASSUME FxpAssumption ==
  /\ Kind \in [Items -> {"reg", "dir", "dot", "other"}]
  /\ Children \in [Items -> Seq(Items)] /\ Lists \subseteq Seq(Items)
  /\ NoItem \notin Items /\ NoFtp \notin Ftps
  /\ Modes \subseteq {"A", "I"} /\ SourceErrors \in BOOLEAN /\ MaxFxps \in Nat

VARIABLES
  target,  \* fxp_target
  this,    \* thisftp of fxpfile()
  frames,  \* the activations of fxpfiles(): what is left of each list
  cur,     \* locals of fxpfile() and ftp_fxpfile()
  opt,     \* options of the command
  flags,   \* fxp_quit, fxp_batch, fxp_owbatch, fxp_delbatch
  restart, \* restart_offset of each structure: 0, or 1 for any other
  remote,  \* the items the source has
  jumped,  \* history: SIGINT ended an fxp
  fxps

fvars == <<target, this, frames, cur, opt, flags, restart, remote, jumped, fxps>>
allvars == <<vars, fvars>>
conn == <<list, current, try, astray>>

NoCur == [i |-> NoItem, mode |-> "I", how |-> "normal", created |-> FALSE, got |-> 0, sent |-> 0,
          whole |-> FALSE, ok |-> FALSE]
FlagNames == {"quit", "batch", "owbatch", "delbatch"}
Top == Head(frames)
Item == Head(Top)

FxpInit ==
  /\ Init
  /\ target = NoFtp /\ this = NoFtp /\ frames = <<>> /\ cur = NoCur /\ opt = {}
  /\ flags = [f \in FlagNames |-> FALSE] /\ restart = [f \in Ftps |-> 0]
  /\ remote = Items /\ jumped = FALSE /\ fxps = 0

-----------------------------------------------------------------------------
(* Requests.                                                               *)

\* What a session becomes when it has executed a request.  STOR and RETR need
\* a data connection, and their last reply is still to come.
Executed(s, verb, mode) ==
  CASE verb = "TYPE" -> [s EXCEPT !.type = mode]
    [] verb \in {"PASV", "PORT"} -> [s EXCEPT !.prep = verb]
    [] verb \in {"STOR", "RETR"} -> [s EXCEPT !.prep = "none", !.owed = @ + 1]
    [] OTHER -> s

CanServe(s, verb) == verb \in {"STOR", "RETR"} => s.prep # "none"

Answer(c, s, verb, mode, ok, lost) ==
  [c |-> c, s |-> IF ok THEN Executed(s, verb, mode) ELSE s, ok |-> ok, lost |-> lost]

\* ftp_cmd() on structure f: no connection, a reply, a session that is lost,
\* or one that is lost and opened again.
Answers(f, verb, mode) ==
  LET serve(c, s, lost) ==
        {Answer(c, s, verb, mode, ok, lost) :
           ok \in {CanServe(s, verb)} \cup IF verb \in Refusable THEN {FALSE} ELSE {}}
  IN  IF ~Connected(f) THEN {Answer(ftp[f], srv[f], verb, mode, FALSE, FALSE)}
      ELSE serve(ftp[f], srv[f], FALSE) \cup
           IF left["drops"] = 0 THEN {}
           ELSE {Answer(Closed, NewSession, verb, mode, FALSE, TRUE)} \cup
                IF AutoReconnect /\ LoggedIn(f) /\ verb \in ReconnectAt
                THEN serve(Reopened, NewSession, TRUE) ELSE {}

\* Answer a arrives on the connection in use; the next request goes to `next`.
Take(a, next) ==
  /\ SetFtp(use, a.c, a.s) /\ use' = next
  /\ left' = [left EXCEPT !["drops"] = IF a.lost THEN @ - 1 ELSE @]

Ask(verb) == Answers(use, verb, cur.mode)
Goto(p, next) == pc' = p /\ use' = next /\ UNCHANGED <<sessions, left>>

\* fxpfile() returns.  Every way out goes back to `thisftp`, but one.
Returned(ok) == cur' = [cur EXCEPT !.ok = ok] /\ pc' = "next"
Leave_NoUse(ok) == Returned(ok) /\ UNCHANGED <<use, sessions, left>>
Leave(ok) == Returned(ok) /\ use' = this /\ UNCHANGED <<sessions, left>>

-----------------------------------------------------------------------------
(* cmd_fxp() and fxpfiles().                                               *)

\* The other connection if there are two, else the one --target names.
Targets == IF Len(list) = 2 THEN {CHOOSE f \in ToSet(list) : f # use} \cup ToSet(list) ELSE ToSet(list)

CmdFxp ==
  /\ pc = "prompt" /\ LoggedIn(use) /\ fxps < MaxFxps
  /\ fxps' = fxps + 1
  /\ target' \in Targets
  /\ \E o \in OptionSets, l \in Lists :
       /\ opt' = IF "force" \in o THEN o \ {"interactive"} ELSE o
       /\ flags' = [f \in FlagNames |-> f # "quit" /\ "force" \in o]
       /\ frames' = <<l>>
  /\ pc' = "loop" /\ cur' = NoCur
  /\ UNCHANGED <<structures, sessions, try, astray, left, this, restart, remote, jumped>>

\* fxpfiles() returns, to its caller or to cmd_fxp() (whose locals are gone).
Return ==
  /\ pc = "loop"
  /\ Top = <<>> \/ flags["quit"] \/ ~Connected(use)
  /\ IF Len(frames) > 1
     THEN frames' = <<Tail(frames[2])>> \o SubSeq(frames, 3, Len(frames)) /\ UNCHANGED pc
     ELSE frames' = <<>> /\ pc' = "prompt"
  /\ cur' = NoCur /\ opt' = IF pc' = "prompt" THEN {} ELSE opt
  /\ this' = IF pc' = "prompt" THEN NoFtp ELSE this
  /\ target' = IF pc' = "prompt" THEN NoFtp ELSE target
  /\ flags' = IF pc' = "prompt" THEN [f \in FlagNames |-> FALSE] ELSE flags
  /\ UNCHANGED <<conn, use, sessions, left, restart, remote, jumped, fxps>>

NextFile == frames' = [frames EXCEPT ![1] = Tail(@)]

NextItem ==
  /\ pc = "loop" /\ Top # <<>> /\ ~flags["quit"] /\ Connected(use)
  /\ \/ /\ Kind[Item] = "dot" /\ NextFile /\ UNCHANGED <<pc, cur, flags>>
     \/ /\ Kind[Item] # "dot"
        /\ \E a \in IF "interactive" \in opt /\ ~flags["batch"]
                    THEN {"yes", "no", "cancel", "all"} ELSE {"yes"} :
             /\ flags' = [flags EXCEPT !["quit"] = a = "cancel", !["batch"] = @ \/ a = "all"]
             /\ IF a = "no" THEN NextFile /\ UNCHANGED <<pc, cur>>
                ELSE IF a = "cancel" THEN UNCHANGED <<frames, pc, cur>>
                ELSE UNCHANGED frames /\ pc' = "item" /\ cur' = [NoCur EXCEPT !.i = Item]
  /\ UNCHANGED <<conn, use, sessions, left, target, this, opt, restart, remote, jumped, fxps>>

\* Directories are lists of their own; only regular files are sent.
NotAFile ==
  /\ pc = "item" /\ Kind[cur.i] # "reg"
  /\ LET inside == Only(Children[cur.i], remote) IN
     IF Kind[cur.i] = "dir" /\ "recursive" \in opt /\ inside # <<>>
     THEN frames' = <<inside>> \o frames ELSE NextFile
  /\ pc' = "loop" /\ cur' = NoCur
  /\ UNCHANGED <<conn, use, sessions, left, target, this, opt, flags, restart, remote, jumped, fxps>>

\* Back in fxpfiles(): after SIGINT the user is asked whether to go on.
AfterFile ==
  /\ pc = "next" /\ NextFile /\ pc' = "loop" /\ cur' = NoCur
  /\ \E quit \in BOOLEAN : flags' = [flags EXCEPT !["quit"] = @ \/ quit]
  /\ UNCHANGED <<conn, use, sessions, left, target, this, opt, restart, remote, jumped, fxps>>

-----------------------------------------------------------------------------
(* fxpfile().                                                              *)

Stay == UNCHANGED <<conn, target, frames, opt, flags, restart, remote, jumped, fxps>>
Here == Stay /\ UNCHANGED this

\* thisftp = ftp; a masked file is done; else on to the target.
Begin ==
  /\ pc = "item" /\ Kind[cur.i] = "reg" /\ this' = use
  /\ \/ Returned(TRUE) /\ UNCHANGED <<use, sessions, left>>
     \/ Goto("mkpath", target) /\ \E m \in Modes : cur' = [cur EXCEPT !.mode = m]
  /\ Stay

\* ftp_mkpath(): the directories are known, or the last MKD decides.
Mkpath ==
  /\ pc = "mkpath" /\ pc' = "look"
  /\ \/ UNCHANGED <<cur, sessions, left, use>>
     \/ \E a \in Ask("MKD") : Take(a, use) /\ cur' = [cur EXCEPT !.created = a.ok]
  /\ Here

\* The target is asked for the file, unless that cannot matter.  "Is a
\* directory" is the way out that forgets to go back.
Looked == {"no"} \cup IF cur.created \/ opt \cap {"unique", "force"} # {} THEN {} ELSE {"file", "dir"}
Look ==
  /\ pc = "look"
  /\ \E found \in Looked :
       \/ /\ found = "dir"
          /\ Leave_NoUse(TRUE) /\ astray' = (astray \/ use # current) /\ UNCHANGED flags
       \/ /\ found # "dir" /\ UNCHANGED astray
          /\ \E w \in IF "append" \in opt THEN {"append"}
                      ELSE IF found = "no" THEN {"normal"}
                      ELSE IF "skip" \in opt THEN {"no"}
                      ELSE IF "newer" \in opt THEN {"no", "normal"}
                      ELSE IF "resume" \in opt \/ flags["owbatch"] THEN {"normal"}
                      ELSE {"no", "cancel", "all", "unique", "resume", "normal"} :
               LET how == IF w = "unique" \/ "unique" \in opt THEN "unique"
                          ELSE IF w = "resume" \/ "resume" \in opt THEN "resume"
                          ELSE IF w = "append" THEN "append" ELSE "normal"
               IN /\ flags' = [flags EXCEPT !["quit"] = w = "cancel", !["owbatch"] = @ \/ w = "all"]
                  /\ IF w \in {"no", "cancel"} THEN Leave(TRUE)
                     ELSE IF this = target THEN Leave(FALSE)    \* "FxP between same hosts"
                     ELSE Goto("type", this) /\ cur' = [cur EXCEPT !.how = how]
  /\ UNCHANGED <<list, current, try, this, target, frames, opt, restart, remote, jumped, fxps>>

-----------------------------------------------------------------------------
(* ftp_fxpfile().                                                          *)

\* ftp_type(), on either side; a refusal is ignored.
Type ==
  /\ pc \in {"type", "type2"}
  /\ pc' = IF pc = "type" THEN "pasv" ELSE "port"
  /\ IF ftp[use].prev = cur.mode THEN UNCHANGED <<use, sessions, left>>
     ELSE \E a \in Ask("TYPE") :
            Take([a EXCEPT !.c.prev = IF a.ok THEN cur.mode ELSE @], use)
  /\ Here /\ UNCHANGED cur

\* PASV on the source; no server is asked for it again that refused it once.
Pasv ==
  /\ pc = "pasv"
  /\ \E a \in Ask("PASV") :
       IF a.ok THEN Take(a, target) /\ pc' = "type2" /\ UNCHANGED cur
       ELSE Take(a, this) /\ Returned(FALSE)
  /\ Here

\* The address the source gave goes to the target.
Port ==
  /\ pc = "port"
  /\ \E a \in Ask("PORT") :
       IF a.ok THEN Take(a, use) /\ pc' = "size" /\ UNCHANGED cur
       ELSE Take(a, this) /\ Returned(FALSE)
  /\ Here

\* Where to resume: the size the target's listing tells.  When that has to be
\* read first, it takes the data connection and the type that were set up.
Size ==
  /\ pc = "size"
  /\ \E n \in IF cur.how = "resume" THEN {0, 1} ELSE {0} :
       /\ restart' = [restart EXCEPT ![target] = n]
       /\ pc' = IF n = 0 THEN "stor" ELSE "rest"
  /\ \/ UNCHANGED sessions
     \/ /\ cur.how = "resume" /\ (cur.created \/ "force" \in opt) /\ Connected(use)
        /\ SetFtp(use, [ftp[use] EXCEPT !.prev = "A"], [srv[use] EXCEPT !.type = "A", !.prep = "none"])
  /\ UNCHANGED <<conn, use, left, target, this, frames, cur, opt, flags, remote, jumped, fxps>>

\* REST on the target, then on the source: with the offset in the structure
\* that is in use, which is the source's own.
RestTarget ==
  /\ pc = "rest"
  /\ \E a \in Ask("REST") :
       IF a.ok THEN Take(a, this) /\ pc' = "rest2" /\ cur' = [cur EXCEPT !.got = restart[use]]
       ELSE Take(a, this) /\ Returned(FALSE)
  /\ Here
RestSource ==
  /\ pc = "rest2"
  /\ \E a \in Ask("REST") :
       IF a.ok THEN Take(a, target) /\ pc' = "stor" /\ cur' = [cur EXCEPT !.sent = restart[use]]
       ELSE Take(a, this) /\ Returned(FALSE)
  /\ Here

\* STOR, APPE, or STOU unless the server is known not to have it.
Stor ==
  /\ pc = "stor"
  /\ \/ cur.how = "unique" /\ Leave(FALSE)
     \/ \E a \in Ask("STOR") :
          IF a.ok THEN Take(a, this) /\ pc' = "retr" /\ UNCHANGED cur
          ELSE Take(a, this) /\ Returned(FALSE)
  /\ Here

\* RETR; from then on the wait for the target's reply is not bounded.
Unbounded(c) == [c EXCEPT !.bounded = FALSE]
Retr ==
  /\ pc = "retr"
  /\ \E a \in Ask("RETR") :
       /\ srv' = [srv EXCEPT ![use] = a.s] /\ use' = target
       /\ left' = [left EXCEPT !["drops"] = IF a.lost THEN @ - 1 ELSE @]
       /\ IF a.ok THEN pc' = "read" /\ ftp' = [ftp EXCEPT ![use] = a.c, ![target] = Unbounded(@)]
          ELSE pc' = "abort" /\ ftp' = [ftp EXCEPT ![use] = a.c]
  /\ Here /\ UNCHANGED cur

\* ftp_abort() on the target: a reply to the transfer, and one to ABOR.
AbortStor_NoAbort == UNCHANGED <<sessions, left>>
AbortStor ==
  \/ SetFtp(use, ftp[use], [srv[use] EXCEPT !.owed = 0]) /\ UNCHANGED left
  \/ CloseFtp(use) /\ Spend("drops")
Abort ==
  /\ pc = "abort" /\ AbortStor /\ use' = this /\ Returned(FALSE) /\ Here

\* The last reply of a transfer on the structure in use; `next` is awaited.
Finished(next) ==
  LET done == [ftp EXCEPT ![use].bounded = TRUE]
  IN  /\ ftp' = IF next = this /\ use = target THEN [done EXCEPT ![next] = Unbounded(@)] ELSE done
      /\ srv' = [srv EXCEPT ![use].owed = 0]
      /\ UNCHANGED left
Lost(next) ==
  /\ ftp' = IF next = this /\ use = target THEN [ftp EXCEPT ![use] = Closed, ![next] = Unbounded(@)]
            ELSE [ftp EXCEPT ![use] = Closed]
  /\ srv' = [srv EXCEPT ![use] = NewSession] /\ Spend("drops")

\* The target's reply: did it get all there was, of what the source has, in
\* the type asked for and from where the target went on?
CopyIsWhole(sent) ==
  sent /\ cur.got = cur.sent /\ srv[this].type = cur.mode /\ srv[target].type = cur.mode

Result_Source(stored, sent) == sent
Result(stored, sent) == stored

ReadTarget ==
  /\ pc = "read" /\ pc' = "read2" /\ use' = this
  /\ \/ /\ Finished(this)
        /\ \E stored, sent \in BOOLEAN :
             /\ stored => sent \/ SourceErrors
             /\ cur' = [cur EXCEPT !.ok = Result(stored, sent), !.whole = stored /\ CopyIsWhole(sent)]
     \/ Lost(this) /\ cur' = [cur EXCEPT !.ok = FALSE]
  /\ Here

\* The source's reply is read and not looked at.
ReadSource ==
  /\ pc = "read2"
  /\ Finished(target) \/ Lost(target)
  /\ IF cur.ok THEN pc' = "sent" /\ use' = target /\ UNCHANGED cur ELSE Returned(FALSE) /\ use' = this
  /\ Here

-----------------------------------------------------------------------------
(* The rest of fxpfile(), and SIGINT.                                      *)

\* Attributes are set on the target; then back, and perhaps on to deleting.
AfterTransfer ==
  /\ pc = "sent"
  /\ \/ UNCHANGED <<sessions, left>> /\ use' = this
     \/ "preserve" \in opt /\ \E a \in Ask("SITE CHMOD") : Take(a, this)
  /\ IF "delete" \notin opt THEN Returned(TRUE) /\ UNCHANGED flags
     ELSE \E a \in IF "force" \in opt \/ flags["delbatch"] THEN {"yes"}
                   ELSE {"yes", "no", "cancel", "all"} :
            /\ flags' = [flags EXCEPT !["quit"] = @ \/ a = "cancel", !["delbatch"] = @ \/ a = "all"]
            /\ IF a \in {"yes", "all"} THEN pc' = "unlink" /\ UNCHANGED cur ELSE Returned(TRUE)
  /\ UNCHANGED <<conn, this, target, frames, opt, restart, remote, jumped, fxps>>

Unlink ==
  /\ pc = "unlink" /\ Returned(TRUE)
  /\ \E a \in Ask("DELE") :
       Take(a, use) /\ remote' = IF a.ok THEN remote \ {cur.i} ELSE remote
  /\ UNCHANGED <<conn, this, target, frames, opt, flags, restart, jumped, fxps>>

Asking == {"mkpath", "type", "type2", "pasv", "port", "rest", "rest2", "stor", "retr", "abort",
           "read", "read2", "unlink"}

\* The third SIGINT in ftp_cmd(), or the fourth elsewhere (which closes the
\* connection in use), jumps to the prompt; nothing is put back.
Jump ==
  /\ pc \in Asking /\ Spend("ints")
  /\ pc' = "prompt" /\ jumped' = TRUE /\ astray' = (use # current)
  /\ frames' = <<>> /\ cur' = NoCur /\ opt' = {} /\ this' = NoFtp /\ target' = NoFtp
  /\ flags' = [f \in FlagNames |-> FALSE]
  /\ CloseFtp(use) \/ UNCHANGED sessions
  /\ UNCHANGED <<structures, try, restart, remote, fxps>>

FxpStep ==
  \/ Return \/ NextItem \/ NotAFile \/ AfterFile \/ Begin \/ Mkpath \/ Look
  \/ Type \/ Pasv \/ Port \/ Size \/ RestTarget \/ RestSource \/ Stor \/ Retr \/ Abort
  \/ ReadTarget \/ ReadSource \/ AfterTransfer \/ Unlink

ConnectionStep == (Commands \/ OpenStep \/ OpenAborted \/ Exited) /\ UNCHANGED fvars

Next == ConnectionStep \/ CmdFxp \/ FxpStep \/ Jump

Spec == FxpInit /\ [][Next]_allvars
FairSpec == Spec /\ WF_allvars(OpenStep /\ UNCHANGED fvars) /\ WF_allvars(FxpStep)

-----------------------------------------------------------------------------
TypeOK ==
  /\ ListOK
  /\ target \in Ftps \cup {NoFtp} /\ this \in Ftps \cup {NoFtp}
  /\ \A k \in DOMAIN frames : frames[k] \in Seq(Items)
  /\ cur.i \in Items \cup {NoItem} /\ flags \in [FlagNames -> BOOLEAN]
  /\ restart \in [Ftps -> 0..1] /\ remote \subseteq Items /\ jumped \in BOOLEAN
  /\ pc # "prompt" \/ frames = <<>>

\* Two dialogues: unless SIGINT jumped out of it, fxp leaves no reply unread on
\* either channel and no wait unbounded, whoever refused what and whichever
\* session was lost.
ChannelsInStep ==
  pc = "prompt" /\ ~jumped => \A f \in Ftps : srv[f].owed = 0 /\ ftp[f].bounded

\* --delete-after: "delete source file after successful transfer".  What the
\* source loses the target has whole, in the type asked for.  (Not when the
\* transfer was resumed: the source sends from its own offset.)
DeleteOnlyCopied ==
  [][\A i \in remote \ remote' : cur.i = i /\ (cur.whole \/ cur.got # cur.sent)]_allvars

\* yafc_open() gives up after connect_attempts, and an fxp comes to the end of
\* its list: both return to the prompt, whatever is refused or lost.  (A server
\* that says nothing is FtpSession's concern.)
Returns == pc \notin {"prompt", "exited"} ~> pc \in {"prompt", "exited"}
=============================================================================
