-------------------------------- MODULE Ssh --------------------------------
(***************************************************************************)
(* sftp and scp instead of FTP (src/ftp/ssh_cmd.c, and the branches of     *)
(* ftp.c, ftpsend.c and ftpsigs.c for ftp->session).  There is no dialogue *)
(* to get out of step here: libssh answers each call.  The server keeps no *)
(* working directory; `cd` is decided by the client, from its cache if it  *)
(* can.  SIGINT closes the connection whatever the client is doing, and    *)
(* jumps to the prompt.                                                    *)
(*                                                                         *)
(* The tree of directories and the cache are those of DirCache, without    *)
(* what is checked there.  Files lie in Home; a content is a sequence of   *)
(* pieces, each one a read() or write().                                   *)
(***************************************************************************)
EXTENDS Integers, Sequences, SequencesExt

CONSTANTS
  Dirs, Home,  \* absolute paths
  Parent,      \* the directory that contains one
  Files,       \* names, on both sides
  Contents,    \* what a file may hold at first
  TryScp,      \* gvSSHTrySCP
  MaxLen       \* bound: length of an appended file

ASSUME SshAssumption ==
  /\ Home \in Dirs /\ Parent \in [Dirs \ {Home} -> Dirs]
  /\ Contents \subseteq Seq(Nat \ {0}) /\ TryScp \in BOOLEAN /\ MaxLen \in Nat

VARIABLES
  session, \* "none", "connect", "verify", "login", "sftp", "up"; "dead" when lost
  curdir,  \* ftp->curdir
  cache,   \* ftp->cache: a listing for each directory, or NoListing
  restart, \* ftp->restart_offset
  pc, op,  \* where the client is in a transfer, and its locals
  tree,    \* the directories the server has
  remote, loc, \* the files on either side
  moved    \* history: names directories had before they were renamed

client == <<session, curdir, cache, restart, pc, op>>
vars == <<client, tree, remote, loc, moved>>

File(s) == [there |-> TRUE, data |-> s]
Absent == [there |-> FALSE, data |-> <<>>]
Size(f) == IF f.there THEN Len(f.data) ELSE -1

NoListing == [known |-> FALSE, dirs |-> {}, size |-> [f \in Files |-> -1]]
Below(d) == {e \in Dirs \ {Home} : Parent[e] = d}
ListingOf(d) == [known |-> TRUE, dirs |-> Below(d) \cap tree,
                 size |-> [f \in Files |-> IF d = Home THEN Size(remote[f]) ELSE -1]]
NoCache == [d \in Dirs |-> NoListing]
Flush(marks) == [d \in Dirs |-> IF d \in marks THEN NoListing ELSE cache[d]]

NoOp == [name |-> "none", f |-> CHOOSE f \in Files : TRUE, how |-> "normal", at |-> 0, from |-> 0,
         before |-> Absent, clean |-> TRUE, ok |-> FALSE]

Init ==
  /\ session = "none" /\ curdir = Home /\ cache = NoCache /\ restart = 0
  /\ pc = "prompt" /\ op = NoOp /\ tree = {Home} /\ moved = {}
  /\ remote \in [Files -> {Absent} \cup {File(s) : s \in Contents}]
  /\ loc \in [Files -> {Absent} \cup {File(s) : s \in Contents}]

Up == session = "up"
Usable == session \in {"up", "dead"} /\ pc = "prompt"
Elsewhere == UNCHANGED <<tree, remote, loc, moved>>

-----------------------------------------------------------------------------
(* ssh_open_url(), and the end of a session.                               *)

\* ftp_close(): ftp_reset_vars() does not look at restart_offset.
Close ==
  /\ session' = "none" /\ curdir' = Home /\ cache' = NoCache /\ moved' = {}
  /\ pc' = "prompt" /\ op' = NoOp
  /\ UNCHANGED <<restart, tree, remote, loc>>

Open ==
  /\ session = "none" /\ session' = "connect"
  /\ UNCHANGED <<curdir, cache, restart, pc, op>> /\ Elsewhere

\* verify_knownhost(): only a known key, or one the user accepts and that
\* can be written down.
Trusted(key, answer, written) == key = "known" \/ (key \in {"unknown", "no file"} /\ answer = "yes" /\ written)

\* The steps of ssh_open_url(), each of which may fail and close.
After == [connect |-> "verify", verify |-> "login", login |-> "sftp", sftp |-> "up"]
Establish ==
  /\ session \in DOMAIN After
  /\ \E key \in {"known", "changed", "other", "no file", "unknown", "error"}, answer \in {"yes", "no"},
        written, works \in BOOLEAN :
       IF works /\ (session = "verify" => Trusted(key, answer, written))
       THEN session' = After[session] /\ UNCHANGED <<curdir, cache, restart, pc, op>> /\ Elsewhere
       ELSE Close

CmdClose == Usable /\ Close

\* The server or the network ends the session; the client sees only failures.
SessionLost ==
  /\ Up /\ session' = "dead" /\ UNCHANGED <<curdir, cache, restart, pc, op>> /\ Elsewhere

\* sigint_jmp_handler() at the prompt and while connecting, and
\* sigint_close_handler() in a transfer, do the same; so does the alarm while
\* connecting.
Interrupt == session # "none" /\ Close

-----------------------------------------------------------------------------
(* Directories.  Each is a command of its own: what it marks is flushed     *)
(* when it returns.                                                        *)

Alone == UNCHANGED <<session, restart, pc, op, remote, loc>>

\* A directory whose listing, or whose entry, is in the cache needs no stat.
TakenForDir(d) == cache[d].known \/ (d # Home /\ d \in cache[Parent[d]].dirs)
ChDir(d) ==
  /\ Usable /\ Up /\ (TakenForDir(d) \/ d \in tree)
  /\ curdir' = d /\ Alone /\ UNCHANGED <<cache, tree, moved>>

\* ssh_read_directory(), from ftp_get_directory().
List(d) ==
  /\ Usable /\ Up /\ d \in tree /\ ~cache[d].known
  /\ cache' = [cache EXCEPT ![d] = ListingOf(d)]
  /\ Alone /\ UNCHANGED <<curdir, tree, moved>>

\* A directory that is there already counts as made.
Mkdir(d) ==
  /\ Usable /\ Up /\ d # Home /\ Parent[d] \in tree
  /\ tree' = tree \cup {d} /\ cache' = Flush({Parent[d]})
  /\ Alone /\ UNCHANGED <<curdir, moved>>

\* One that is not there counts as removed.
RmdirMarks_ParentOnly(d) == {Parent[d]}
RmdirMarks(d) == {d, Parent[d]}
Rmdir(d) ==
  /\ Usable /\ Up /\ d # Home /\ Below(d) \cap tree = {}
  /\ tree' = tree \ {d} /\ cache' = Flush(RmdirMarks(d))
  /\ Alone /\ UNCHANGED <<curdir, moved>>

\* A directory moves with all below it (here: nothing); its own listing stays.
Rename(d, e) ==
  /\ Usable /\ Up /\ Home \notin {d, e} /\ d \in tree /\ e \notin tree
  /\ Below(d) \cap tree = {} /\ Parent[e] \in tree \ {d}
  /\ tree' = (tree \ {d}) \cup {e} /\ cache' = Flush({Parent[d], Parent[e]})
  /\ moved' = (moved \cup {d}) \ {e}
  /\ Alone /\ UNCHANGED curdir

Unlink(f) ==
  /\ Usable /\ Up
  /\ remote' = [remote EXCEPT ![f] = Absent] /\ cache' = Flush({Home})
  /\ UNCHANGED <<session, curdir, restart, pc, op, tree, loc, moved>>

-----------------------------------------------------------------------------
(* Downloads: ftp_getfile(), ssh_do_receive(), do_read(), do_scp_read().   *)

Away == UNCHANGED <<session, curdir, tree, moved>>
Done(r) == pc' = "done" /\ op' = [op EXCEPT !.ok = r]

\* Only a file that is there already has its size, or nothing, looked at: the
\* offset an earlier get has left is used for one that is to be overwritten.
OffsetOf(f, how) ==
  IF ~loc[f].there THEN 0 ELSE IF how = "resume" THEN Len(loc[f].data) ELSE restart

\* fopen(): "a" keeps what is there.
Opened(f, kept) == IF kept THEN File(loc[f].data) ELSE File(<<>>)

Get(f, how) ==
  /\ Usable /\ Away /\ UNCHANGED <<cache, remote>>
  /\ how = "append" => Len(loc[f].data) + Len(remote[f].data) <= MaxLen
  /\ LET at == OffsetOf(f, how)
         this == [NoOp EXCEPT !.name = "get", !.f = f, !.how = how, !.at = at,
                              !.before = loc[f], !.clean = restart = 0]
     IN  \/ /\ ~Up \/ ~remote[f].there                  \* sftp_stat() fails
            /\ restart' = at /\ pc' = "done" /\ op' = this /\ UNCHANGED loc
         \/ /\ Up /\ remote[f].there /\ restart' = 0
            /\ \/ pc' = "done" /\ op' = this /\ UNCHANGED loc   \* fopen() fails
               \/ /\ loc' = [loc EXCEPT ![f] = Opened(f, at > 0 \/ how = "append")]
                  /\ op' = this /\ pc' = IF TryScp /\ at = 0 THEN "scp get" ELSE "sftp get"

\* scp is tried for whole files only, and given up for sftp only before a byte
\* has been read.
FromStart == pc' = "sftp get" /\ op' = [op EXCEPT !.at = 0]
ScpGetResult_Any(r) == IF r # 0 THEN FromStart ELSE Done(TRUE)
ScpGetResult(r) == IF r = -2 THEN FromStart ELSE Done(r = 0)

StartGet ==
  /\ \/ pc = "scp get" /\ (ScpGetResult(-2) \/ (Up /\ pc' = "scp read" /\ UNCHANGED op))
     \/ pc = "sftp get" /\ (Done(FALSE) \/ (Up /\ pc' = "sftp read" /\ UNCHANGED op))
  /\ Away /\ UNCHANGED <<cache, restart, remote, loc>>

\* A piece arrives and is written, or one of the two fails.
Read ==
  /\ pc \in {"scp read", "sftp read"} /\ op.at < Len(remote[op.f].data)
  /\ \/ /\ Up /\ UNCHANGED pc
        /\ loc' = [loc EXCEPT ![op.f].data = Append(@, remote[op.f].data[op.at + 1])]
        /\ op' = [op EXCEPT !.at = @ + 1]
     \/ /\ IF pc = "scp read" THEN ScpGetResult(-1) ELSE Done(FALSE)
        /\ UNCHANGED loc
  /\ Away /\ UNCHANGED <<cache, restart, remote>>

ReadEnd ==
  /\ pc \in {"scp read", "sftp read"} /\ op.at >= Len(remote[op.f].data)
  /\ (Up /\ Done(TRUE)) \/ Done(FALSE)
  /\ Away /\ UNCHANGED <<cache, restart, remote, loc>>

-----------------------------------------------------------------------------
(* Uploads: ftp_putfile(), ssh_send(), do_write(), do_scp_write().         *)

\* ftp_get_file() from the cache, after a look at the server if need be; else
\* ssh_filesize(), which is 0 on failure.
ServerSize(f) == IF Up /\ remote[f].there THEN Len(remote[f].data) ELSE 0
Known == IF ~cache[Home].known /\ Up THEN [cache EXCEPT ![Home] = ListingOf(Home)] ELSE cache
ResumeAt(f) == IF Known[Home].size[f] # -1 THEN Known[Home].size[f] ELSE ServerSize(f)

PutMarks_None == {}
PutMarks == {Home}

Put(f, how) ==
  /\ Usable /\ Away /\ UNCHANGED <<remote, loc>> /\ loc[f].there
  /\ how = "append" => Len(loc[f].data) + Len(remote[f].data) <= MaxLen
  /\ cache' = IF how = "resume" THEN Known ELSE cache
  /\ restart' = 0
  /\ LET from == IF how = "resume" THEN ResumeAt(f) ELSE 0
         at == IF how = "append" THEN ServerSize(f) ELSE from
     IN  op' = [NoOp EXCEPT !.name = "put", !.f = f, !.how = how, !.at = at, !.from = from,
                            !.before = remote[f]]
         /\ pc' = IF how = "unique" THEN "done" ELSE IF TryScp /\ at = 0 THEN "scp put" ELSE "sftp put"

\* sftp_open() truncates when it starts at 0; scp always does.
StartPut ==
  /\ pc \in {"scp put", "sftp put"}
  /\ \/ /\ IF pc = "scp put" THEN pc' = "sftp put" /\ UNCHANGED op ELSE Done(FALSE)
        /\ UNCHANGED remote
     \/ /\ Up /\ pc' = "write" /\ UNCHANGED op
        /\ remote' = [remote EXCEPT ![op.f] = IF op.at = 0 THEN File(<<>>) ELSE File(@.data)]
  /\ Away /\ UNCHANGED <<cache, restart, loc>>

\* A write beyond the end leaves a hole.
WriteAt(s, n, piece) ==
  [k \in 1..(IF Len(s) > n THEN Len(s) ELSE n + 1) |->
     IF k = n + 1 THEN piece ELSE IF k <= Len(s) THEN s[k] ELSE 0]

Write ==
  /\ pc = "write" /\ op.from < Len(loc[op.f].data)
  /\ \/ /\ Up /\ UNCHANGED pc
        /\ remote' = [remote EXCEPT ![op.f].data = WriteAt(@, op.at, loc[op.f].data[op.from + 1])]
        /\ op' = [op EXCEPT !.at = @ + 1, !.from = @ + 1]
     \/ Done(FALSE) /\ UNCHANGED remote
  /\ Away /\ UNCHANGED <<cache, restart, loc>>

WriteEnd ==
  /\ pc = "write" /\ op.from >= Len(loc[op.f].data) /\ Done(TRUE)
  /\ Away /\ UNCHANGED <<cache, restart, remote, loc>>

\* Back in exe_cmd(), which flushes what ssh_send() has marked.
EndCmd ==
  /\ pc = "done" /\ pc' = "prompt" /\ op' = NoOp
  /\ cache' = IF op.name = "put" /\ op.how # "unique" THEN Flush(PutMarks) ELSE cache
  /\ UNCHANGED <<session, curdir, restart>> /\ Elsewhere

Transfer == StartGet \/ Read \/ ReadEnd \/ StartPut \/ Write \/ WriteEnd \/ EndCmd

Next ==
  \/ Open \/ Establish \/ CmdClose \/ SessionLost \/ Interrupt \/ Transfer
  \/ \E d \in Dirs : ChDir(d) \/ List(d) \/ Mkdir(d) \/ Rmdir(d) \/ \E e \in Dirs : Rename(d, e)
  \/ \E f \in Files : Unlink(f) \/ \E how \in {"normal", "resume", "append"} : Get(f, how)
  \/ \E f \in Files : \E how \in {"normal", "resume", "append", "unique"} : Put(f, how)

Spec == Init /\ [][Next]_vars

-----------------------------------------------------------------------------
\* ssh_chdir() asks its cache first.  Still nobody enters a directory that is
\* not there, unless it has been renamed: ssh_rename() marks the directories
\* that hold the two names, not the one that moves.
EnterExisting == [][curdir' # curdir => curdir' \in tree \cup moved]_vars

Expected(from, how, before) == IF how = "append" THEN before.data \o from ELSE from

\* ftp_getfile() returns 0: the local file is what the server has, behind what
\* was there if it was to be appended; scp or sftp, resumed or not.  (If what
\* is resumed is the beginning of it, and no earlier get has left its offset.)
GetWhole ==
  pc = "done" /\ op.name = "get" /\ op.ok /\ op.clean
    /\ (op.how = "resume" => IsPrefix(op.before.data, remote[op.f].data))
  => loc[op.f].data = Expected(remote[op.f].data, op.how, op.before)

\* ftp_putfile() returns 0: the server has the local file, behind what was
\* there if it was to be appended; the size the cache tells is the real one.
PutWhole ==
  pc = "done" /\ op.name = "put" /\ op.ok
    /\ (op.how = "resume" => IsPrefix(op.before.data, loc[op.f].data))
  => remote[op.f].data = Expected(loc[op.f].data, op.how, op.before)
=============================================================================
