------------------------------ MODULE DirCache ------------------------------
(***************************************************************************)
(* The remote directory cache of yafc (src/ftp/cache.c) and every command  *)
(* that reads, invalidates or fails to invalidate it.                      *)
(*                                                                         *)
(* Each connection keeps the listings it has read (ftp->cache) and a list  *)
(* of directories to drop (ftp->dirs_to_flush).  A command that changes a  *)
(* directory only MARKS it; exe_cmd() drops the marked listings when the   *)
(* command has returned, and only on the connection that is then in use.   *)
(* What can go wrong lies between the two: a mark under another name, a    *)
(* second copy of a listing, a command that never returns to exe_cmd(), a  *)
(* mark on a connection that is not the one in use.                        *)
(*                                                                         *)
(* The server's replies carry no detail here (see FtpSession): a request   *)
(* that fails changes nothing and is no step.  A directory is the sequence *)
(* of names that leads to it from "/"; a file is its directory.            *)
(***************************************************************************)
EXTENDS Naturals, Sequences, FiniteSets

CONSTANTS
  Names, Letters,      \* names of directories, and those of one character
  Dirs,                \* remote directories
  Conns, NoConn,       \* the open connections (gvFtpList)
  StartDir,            \* the directory a login ends in
  MovesDirs,           \* does mv rename directories too?
  Fxps,                \* does the user run fxp?
  OntoDirs,            \* may an fxp destination turn out to be a directory?
  Jumps,               \* does the user abort commands with repeated SIGINT?
  Expires,             \* is cache_timeout set?
  MaxCopies            \* bound on the copies of one listing

Root == <<>>
Parent(d) == IF d = Root THEN Root ELSE SubSeq(d, 1, Len(d) - 1)

ASSUMPTION CacheAssumption ==
  /\ Dirs \subseteq Seq(Names) /\ Root \in Dirs /\ StartDir \in Dirs
  /\ \A d \in Dirs : Parent(d) \in Dirs
  /\ NoConn \notin Conns
  /\ {MovesDirs, Fxps, OntoDirs, Jumps, Expires} \subseteq BOOLEAN
  /\ MaxCopies \in Nat \ {0}

VARIABLES
  exists,   \* the directories each server has
  cwd,      \* ftp->curdir of each connection
  cache,    \* ftp->cache: the copies of each directory's listing, oldest first
  marks,    \* ftp->dirs_to_flush
  use,      \* the global `ftp`: the connection functions work on
  current,  \* gvCurrentFtp: the connection the user has chosen
  cmd,      \* the command exe_cmd() runs, or "none" at the prompt
  target,   \* fxp_target
  from,     \* thisftp in fxpfile(), the connection to go back to
  mine,     \* history: <<connection, directory>> pairs the running command changed
  astray,   \* history: pairs whose listing has a second copy, or whose mark
            \* went to another name (see Resolve)
  shown     \* history: what was wrong with the listings this command was given

vars == <<exists, cwd, cache, marks, use, current, cmd, target, from, mine, astray, shown>>

\* A listing the client keeps.  outdated: a command of ours changed the
\* directory since it was read; aged: cache_timeout seconds have passed.
Entry == [outdated : BOOLEAN, aged : BOOLEAN]
FreshEntry == [outdated |-> FALSE, aged |-> FALSE]

Commands == {"ls", "cd", "mkdir", "rm", "mv", "chmod", "put", "get", "fxp", "cache", "switch"}
Reading  == {"ls", "rm", "put", "get", "fxp"}
Faults   == {"outdated", "aged", "other"}

Init ==
  /\ exists \in [Conns -> {{Root, StartDir}, Dirs}]
  /\ cwd = [c \in Conns |-> StartDir]
  /\ cache = [c \in Conns |-> [d \in Dirs |-> <<>>]]
  /\ marks = [c \in Conns |-> {}]
  /\ current \in Conns /\ use = current
  /\ cmd = "none" /\ target = NoConn /\ from = NoConn
  /\ mine = {} /\ astray = {} /\ shown = {}

-----------------------------------------------------------------------------
(* Names of directories.                                                   *)

\* ftp_path_absolute(): a path of fewer than three characters is taken as
\* relative, also when it begins with "/".  Once more it is not the same then.
Short(path) == path = Root \/ (Len(path) = 1 /\ path[1] \in Letters)
Resolve(c, path) == IF Short(path) THEN cwd[c] \o path ELSE path

\* How the user, or a command, names what it means: by an absolute path, by a
\* relative one, or (a file of the current directory) by the bare name.
Forms == {"absolute", "relative", "bare"}
Says(c, d, form) == form = "bare" => d = cwd[c]

\* A directory, and what it is marked as: ftp_cache_flush_mark() of its path,
\* ftp_cache_flush_mark_for() of the path of something in it.
Marked(d, path) == [dir |-> d, path |-> path]
Mark(c, d, form) == Marked(d, IF form = "absolute" THEN Resolve(c, d) ELSE d)
MarkFor(c, d, form) == Marked(d, IF form = "relative" THEN d ELSE Resolve(c, d))

-----------------------------------------------------------------------------
(* The cache.                                                              *)

Cached(c, d) == d \in Dirs /\ cache[c][d] # <<>>

\* ftp_cache_flush(): for every mark, the first copy list_search() finds.
Flushed(listings, marked) ==
  [d \in Dirs |-> IF d \in marked /\ listings[d] # <<>> THEN Tail(listings[d])
                  ELSE listings[d]]

Outdate(copies) == [i \in 1 .. Len(copies) |-> [copies[i] EXCEPT !.outdated = TRUE]]

\* A request of this command changed the directories `changed` of connection
\* c, and the client marked `marked` for it.
Change(c, changed, marked) ==
  /\ cache' = [cache EXCEPT ![c] = [d \in Dirs |-> IF d \in changed THEN Outdate(cache[c][d])
                                                   ELSE cache[c][d]]]
  /\ mine' = mine \cup ({c} \X changed)
  /\ marks' = [marks EXCEPT ![c] = @ \cup {m.path : m \in marked}]
  /\ astray' = astray \cup {<<c, m.dir>> : m \in {x \in marked : x.path # x.dir}}

\* What is wrong with copy e of d, given to a caller that asked for `asked`.
FaultsOf(c, asked, d, e) ==
  {f \in Faults : \/ f = "outdated" /\ e.outdated /\ <<c, d>> \notin mine \cup astray
                  \/ f = "aged" /\ e.aged
                  \/ f = "other" /\ d # asked}

\* ftp_cache_get_directory() finds the first copy under that path (one that has
\* timed out is marked, and still given out), or ftp_read_directory() reads the
\* directory and adds a copy.
GiveOut(c, asked, path, found) ==
  \/ /\ found /\ Cached(c, path)
     /\ shown' = shown \cup FaultsOf(c, asked, path, Head(cache[c][path]))
     /\ marks' = IF Head(cache[c][path]).aged THEN [marks EXCEPT ![c] = @ \cup {Resolve(c, path)}] ELSE marks
     /\ UNCHANGED <<cache, astray>>
  \/ /\ path \in exists[c] /\ Len(cache[c][path]) < MaxCopies
     /\ ~(found /\ Cached(c, path))
     /\ cache' = [cache EXCEPT ![c][path] = Append(@, FreshEntry)]
     /\ astray' = IF Cached(c, path) THEN astray \cup {<<c, path>>} ELSE astray
     /\ shown' = shown \cup FaultsOf(c, asked, path, FreshEntry)
     /\ UNCHANGED marks

\* ftp_get_directory() resolves its argument; then both of them do, and "/" leaves
\* a slash behind the current directory, with which no copy is found.
GetDirectory(c, asked, form) ==
  LET ap == Mark(c, asked, form).path
  IN  GiveOut(c, asked, Resolve(c, ap), ap = Root => cwd[c] = Root)

-----------------------------------------------------------------------------
(* The command interpreter: exe_cmd() and the way out of it.               *)

\* exe_cmd() calls the command's function.
Begin(k) ==
  /\ cmd = "none" /\ cmd' = k /\ mine' = {} /\ shown' = {}
  /\ IF k = "fxp" THEN Fxps /\ target' \in Conns ELSE target' = target
  /\ UNCHANGED <<exists, cwd, cache, marks, use, current, from, astray>>

\* The function returned: exe_cmd() flushes, on the connection now in use.
EndCmd_NoFlush ==
  /\ cmd # "none" /\ from = NoConn
  /\ cmd' = "none" /\ mine' = {} /\ shown' = {}
  /\ UNCHANGED <<exists, cwd, cache, marks, use, current, target, from, astray>>

\* A directory without a copy is no longer astray.
Regain(kept) == astray' = {x \in astray : x[1] # use \/ kept[x[2]] # <<>>}
EndCmd ==
  /\ cmd # "none" /\ from = NoConn
  /\ cache' = [cache EXCEPT ![use] = Flushed(@, marks[use])]
  /\ marks' = [marks EXCEPT ![use] = {}]
  /\ Regain(cache'[use])
  /\ cmd' = "none" /\ mine' = {} /\ shown' = {}
  /\ UNCHANGED <<exists, cwd, use, current, target, from>>

\* The SIGINT handler jumps to the prompt: no flush, and `ftp` stays as it is.
JumpOut ==
  /\ Jumps /\ cmd # "none"
  /\ cmd' = "none" /\ mine' = {} /\ shown' = {} /\ from' = NoConn
  /\ UNCHANGED <<exists, cwd, cache, marks, use, current, target, astray>>

-----------------------------------------------------------------------------
(* What commands do, on the connection in use.                             *)

Idle == UNCHANGED <<use, current, cmd, target, from>>

\* A glob, ls, or the look-up of one file (which is by an absolute path).
Read(d, form) ==
  /\ cmd \in Reading /\ GetDirectory(use, d, form)
  /\ Idle /\ UNCHANGED <<exists, cwd, mine>>

\* ftp_unlink(), ftp_chmod(), ftp_send(): one file of d changes, and the
\* directory that contains it is marked.
ChangeFile(d, form) ==
  /\ cmd \in {"rm", "chmod", "put", "get", "fxp"}
  /\ d \in exists[use]
  /\ Change(use, {d}, {MarkFor(use, d, form)})
  /\ Idle /\ UNCHANGED <<exists, cwd, shown>>

\* ftp_mkdir(), also from ftp_mkpath() in put and fxp.
Mkdir(d, form) ==
  /\ cmd \in {"mkdir", "put"} \/ (cmd = "fxp" /\ from # NoConn)
  /\ d \notin exists[use] /\ Parent(d) \in exists[use]
  /\ exists' = [exists EXCEPT ![use] = @ \cup {d}]
  /\ Change(use, {Parent(d)}, {MarkFor(use, Parent(d), form)})
  /\ Idle /\ UNCHANGED <<cwd, shown>>

\* A directory the server lets go of: no directory in it, and not in use.
Leaf(c, d) ==
  /\ d \in exists[c] \ {Root, cwd[c]}
  /\ \A e \in exists[c] : Parent(e) # d

\* ftp_rmdir() marks the directory and the one that contains it.
Rmdir_ParentOnly(d, form) ==
  /\ cmd = "rm" /\ Leaf(use, d)
  /\ exists' = [exists EXCEPT ![use] = @ \ {d}]
  /\ Change(use, {d, Parent(d)}, {MarkFor(use, Parent(d), form)})
  /\ Idle /\ UNCHANGED <<cwd, shown>>

Rmdir(d, form) ==
  /\ cmd = "rm" /\ Leaf(use, d)
  /\ exists' = [exists EXCEPT ![use] = @ \ {d}]
  /\ Change(use, {d, Parent(d)}, {Mark(use, d, form), MarkFor(use, Parent(d), form)})
  /\ Idle /\ UNCHANGED <<cwd, shown>>

\* ftp_rename() of a file in p to a name in q, or (when it is a directory) of
\* a directory in p that was called `old` and will be called `new`.
Renames(c) ==
  {[p |-> p, q |-> q, old |-> {}, new |-> {}] : p, q \in exists[c]}
    \cup {r \in {[p |-> Parent(o), q |-> Parent(n), old |-> {o}, new |-> {n}] :
                    o \in exists[c], n \in Dirs \ exists[c]} :
            MovesDirs /\ r.q \in exists[c] \ r.old /\ \A o \in r.old : Leaf(c, o)}

Rename(r, form, formTo) ==
  /\ cmd = "mv" /\ r \in Renames(use)
  /\ exists' = [exists EXCEPT ![use] = (@ \ r.old) \cup r.new]
  /\ Change(use, {r.p, r.q} \cup r.old \cup r.new,
            {MarkFor(use, r.p, form), MarkFor(use, r.q, formTo)})
  /\ Idle /\ UNCHANGED <<cwd, shown>>

ChDir(d) ==
  /\ cmd = "cd" /\ d \in exists[use] /\ cwd' = [cwd EXCEPT ![use] = d]
  /\ Idle /\ UNCHANGED <<exists, cache, marks, mine, astray, shown>>

\* cache --touch: the user knows that others changed d.
Touch(d, form) ==
  /\ cmd = "cache" /\ Change(use, {d}, {Mark(use, d, form)})
  /\ Idle /\ UNCHANGED <<exists, cwd, shown>>

\* cache --clear.
Clear ==
  /\ cmd = "cache"
  /\ cache' = [cache EXCEPT ![use] = [d \in Dirs |-> <<>>]]
  /\ marks' = [marks EXCEPT ![use] = {}]
  /\ Regain(cache'[use])
  /\ Idle /\ UNCHANGED <<exists, cwd, mine, shown>>

Switch(c) ==
  /\ cmd = "switch" /\ current' = c /\ use' = c
  /\ UNCHANGED <<exists, cwd, cache, marks, cmd, target, from, mine, astray, shown>>

-----------------------------------------------------------------------------
(* fxp: fxpfile() works on the target and comes back to `thisftp`.         *)

Fxp == cmd = "fxp" /\ from # NoConn
Stay == UNCHANGED <<exists, cwd, current, cmd, target, mine>>

FxpEnter_NoUse ==
  /\ cmd = "fxp" /\ from = NoConn
  /\ from' = use /\ use' = use
  /\ Stay /\ UNCHANGED <<cache, marks, astray, shown>>

\* thisftp = ftp; ftp_use(fxp_target).  Look-ups and ftp_mkpath() follow there.
FxpEnter ==
  /\ cmd = "fxp" /\ from = NoConn
  /\ from' = use /\ use' = target
  /\ Stay /\ UNCHANGED <<cache, marks, astray, shown>>

FxpStore_MarksSource(d, form, accepted) ==
  /\ Fxp /\ from # target /\ d \in exists[target] /\ Says(target, d, form)
  /\ cache' = [cache EXCEPT ![target][d] = IF accepted THEN Outdate(@) ELSE @]
  /\ marks' = [marks EXCEPT ![from] = @ \cup {d}]
  /\ mine' = mine \cup {<<target, d>>}
  /\ use' = from /\ from' = NoConn
  /\ UNCHANGED <<exists, cwd, current, cmd, target, astray, shown>>

\* ftp_fxpfile(): STOR on the destination, whose directory is marked whether
\* or not the server accepted; then fxpfile() goes back.
FxpStore(d, form, accepted) ==
  /\ Fxp /\ from # target /\ d \in exists[target] /\ Says(target, d, form)
  /\ Change(target, IF accepted THEN {d} ELSE {}, {MarkFor(target, d, form)})
  /\ use' = from /\ from' = NoConn
  /\ UNCHANGED <<exists, cwd, current, cmd, target, shown>>

\* Skipped, refused, "FxP between same hosts": back without a STOR.
FxpLeave ==
  /\ Fxp /\ use' = from /\ from' = NoConn
  /\ Stay /\ UNCHANGED <<cache, marks, astray, shown>>

\* "%s: is a directory": fxpfile() returns and leaves `ftp` on the target.
FxpOntoDir ==
  /\ OntoDirs /\ Fxp /\ from' = NoConn
  /\ Stay /\ UNCHANGED <<use, cache, marks, astray, shown>>

-----------------------------------------------------------------------------
(* At the prompt, and in the background.                                   *)

\* remote_completion_function() resolves the directory, without taking a slash at
\* the end away: "./" and "/" leave one.
Complete(d, form) ==
  /\ cmd = "none"
  /\ IF form = "absolute" /\ d = Root
     THEN GiveOut(use, d, cwd[use], cwd[use] = Root)
     ELSE GetDirectory(use, d, form)
  /\ Idle /\ UNCHANGED <<exists, cwd, mine>>
CompleteDot ==
  /\ cmd = "none"
  /\ GiveOut(use, cwd[use], cwd[use], cwd[use] = Root)
  /\ Idle /\ UNCHANGED <<exists, cwd, mine>>

\* cache_timeout seconds pass for the oldest copy of a listing.
Expire(c, d) ==
  /\ Expires /\ Cached(c, d)
  /\ cache' = [cache EXCEPT ![c][d][1].aged = TRUE]
  /\ Idle /\ UNCHANGED <<exists, cwd, marks, mine, astray, shown>>

-----------------------------------------------------------------------------
CommandStep ==
  \/ \E d \in Dirs, form \in Forms :
       \/ \E accepted \in BOOLEAN : FxpStore(d, form, accepted)
       \/ /\ Says(use, d, form)
          /\ Read(d, form) \/ ChangeFile(d, form) \/ Touch(d, form)
       \/ /\ Says(use, Parent(d), form)
          /\ Mkdir(d, form) \/ Rmdir(d, form)
  \/ \E r \in Renames(use), form, formTo \in Forms :
       Says(use, r.p, form) /\ Says(use, r.q, formTo) /\ Rename(r, form, formTo)
  \/ \E d \in Dirs : ChDir(d)
  \/ \E c \in Conns : Switch(c)
  \/ Clear \/ FxpEnter \/ FxpLeave \/ FxpOntoDir

Next ==
  \/ \E k \in Commands : Begin(k)
  \/ EndCmd \/ JumpOut \/ CommandStep \/ CompleteDot
  \/ \E d \in Dirs, form \in {"absolute", "relative"} : Complete(d, form)
  \/ \E c \in Conns, d \in Dirs : Expire(c, d)

Spec == Init /\ [][Next]_vars

-----------------------------------------------------------------------------
Paths == Seq(Names)
TypeOK ==
  /\ exists \in [Conns -> SUBSET Dirs] /\ cwd \in [Conns -> Dirs]
  /\ cache \in [Conns -> [Dirs -> Seq(Entry)]]
  /\ \A c \in Conns, d \in Dirs : Len(cache[c][d]) <= MaxCopies
  /\ marks \in [Conns -> SUBSET Paths]
  /\ use \in Conns /\ current \in Conns
  /\ cmd \in Commands \cup {"none"}
  /\ target \in Conns \cup {NoConn} /\ from \in Conns \cup {NoConn}
  /\ cmd = "fxp" => target \in Conns
  /\ from # NoConn => cmd = "fxp" /\ use = target
  /\ {mine, astray} \subseteq SUBSET (Conns \X Dirs) /\ shown \subseteq Faults

\* ftp_cache_flush_mark_for() and its callers: on every connection, a listing
\* that a command of ours made untrue is marked, so that the next flush there
\* drops it; aborted commands, fxp, switches and lookups leave no unmarked one
\* behind, and two copies only where one was read though there was one.  Left
\* out is what went astray: see Resolve().
StaleIsMarked ==
  \A c \in Conns, d \in Dirs : <<c, d>> \notin astray =>
    /\ Len(cache[c][d]) <= 1
    /\ \A i \in 1 .. Len(cache[c][d]) : cache[c][d][i].outdated => d \in marks[c]

\* exe_cmd() ends with ftp_cache_flush(): no command is given a listing that
\* an earlier command of ours (or cache --touch) had made untrue, unless that
\* directory's mark or listing went astray.
NoStaleService == "outdated" \notin shown

\* A command is given the listing of the directory it asked for.  (For a path that
\* Resolve() changes it is not.)
ServesAsked == "other" \notin shown

\* ftp_cache_get_directory(): a listing older than cache_timeout is read again.
TimedOutReread == "aged" \notin shown
=============================================================================
