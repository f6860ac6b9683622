# yafc in TLA+

Specifications of [yafc](../src), an interactive FTP client in C: what its
control connection, its directory cache, its signal handlers and its commands
do together, what they decide about files, and what they make of listings and
configuration files; checked with TLC on small instances and, for the session, the
directory cache, get, put, fxp and ssh, proved with TLAPS.

All paths below are relative to the repository; `ftp.c` and friends are in
`src/ftp/`.

## 1. The system

yafc is one process with one thread.  It blocks in a system call (a reply, data,
`connect()`, the prompt) and is interrupted there by signals; signal handlers
may close the connection or `siglongjmp` to the prompt.  What runs concurrently
with it is the server, the network and the user's Ctrl-C.

| component | state | operations | interacts with |
|---|---|---|---|
| control connection (`ftp.c`, `login.c`) | `Ftp`: sockets, `url`, `connected`, `loggedin`, `curdir`, `code`, `has_*`, `prev_type` | `ftp_cmd`, `ftp_read_reply`, `ftp_open_url`, `ftp_login`, `ftp_reopen`, `ftp_chdir`, ... | server; `ftp_cmd` calls `ftp_reopen`, which calls `ftp_login`, which calls `ftp_cmd` |
| transfers (`ftpsend.c`) | data socket, `transfer_info`, `restart_offset` | `ftp_list`, `ftp_getfile`, `ftp_putfile`, `ftp_fxpfile`, `ftp_abort` | control connection, signals |
| directory cache (`cache.c`, `rdirectory.c`) | `cache`, `dirs_to_flush` per connection | mark, flush, clear, look up | every command that reads or changes a directory |
| signals (`ftpsigs.c`) | handler installed, `sigints`, alarm, `gvInterrupted` | three SIGINT handlers, SIGALRM, SIGHUP | close the connection, jump to `command_loop` |
| command loop (`cmd.c`, `commands.c`, `alias.c`, `args.c`) | aliases, redirection, `gvInTransfer` | `exe_cmdline`, `exe_cmd` | every command; the flush at the end |
| connection list (`login.c`, `commands.c`, `main.c`) | `gvFtpList`, `gvCurrentFtp`, `ftp` | open, switch, close, quit | fxp changes `ftp` meanwhile |
| get, put, fxp (`get.c`, `put.c`, `fxp.c`, `transfer.c`) | options, answers given once for all, what is left of each list | per-file decisions, recursion, delete after, nohup | cache, transfers, tags, SIGHUP |
| tags (`tag.c`, `ltag.c`), globbing and rm (`rglob.c`, `rm.c`) | two lists, and the files they are saved in | add, remove, save, load, rm | `ftp_close` saves and frees the tag list |
| bookmarks, rc (`bookmark.c`, `rc.c`) | bookmarks in memory and in a file | create, update, delete, auto-create | other yafc processes, an editor; written when a connection closes |
| ssh (`ssh_cmd.c`) | libssh session, `curdir`, `restart_offset` | the FTP operations once more | cache |
| listings (`rfile.c`, `rdirectory.c`) | `LIST_type`, `has_mlsd_command` | parse lines, guess formats and years | what every command knows of a directory |
| other helpers (`strq.c`, `linklist.c`, `url.c`, `modechange.c`) | none | paths, quotes, URLs, modes | |

`PROJECT.json` lists every component with its status and every hazard at its
line.

### What is hard, and what makes each component correct

* **Control connection.**  A reply carries no name of its request: the n-th reply
  answers the n-th request, and anything that reads or sends one too many shifts
  the rest.  After a 421 `ftp_cmd` reconnects *inside itself*, runs a whole login
  dialogue with the same function, and sends the interrupted command again, on a
  server that has forgotten directory, type, offset and port.  Correct: replies
  match requests; the channel is idle at the prompt; a resent command has its
  effect once, where and how the user asked; every command ends.
* **Transfers.**  Two connections end independently, interrupts arrive between
  any two reads, and ABOR may meet a transfer that is just over.  Correct: what
  is reported complete is complete.
* **Directory cache.**  Marks and flush are separated by the rest of the command,
  and the command may never return.  Correct: no command acts on a listing that
  an earlier one made untrue.
* **Signals.**  A handler runs at any blocking point and the jump skips the rest of
  the command.  Correct: the state it leaves is one the next command can start from.
* **Connection list.**  `ftp` and `gvCurrentFtp` are two names for one thing, and
  fxp moves the first.  Correct: they agree at the prompt, and what closes is
  what the user chose.
* **get, put.**  Each file passes a tree of options, questions and earlier
  answers, while the session may go and SIGHUP may silence the questions.
  Correct: nothing is overwritten unasked, only what was transferred is deleted,
  what failed stays tagged, and the walk ends.
* **fxp.**  Two dialogues are interleaved request by request.  Correct: whoever
  refuses, both channels are in step afterwards, and a deleted source was copied.
* **ssh.**  No dialogue to lose, but a cache that decides in the server's place,
  and an offset shared by all transfers.  Correct: files are whole, and no
  directory is entered that is not there.
* **Listings.**  No format is announced: each line is tried, and what one line
  taught is kept for the next.  Correct: an entry is what the server showed.
* **Tags, rm, bookmarks.**  Lists outlive connections and processes in files that
  are written whole.  Correct: nothing is lost that was not given up, nothing
  removed or saved (a password) without consent.
* **Shell.**  Correct: an alias runs what the manual says.

## 2. Modules

| module | what it is |
|---|---|
| `RequestReply` | abstract: what a command that changes the server promises its user |
| `FtpSession` | one connection: `Ftp`, `ftp_cmd` with its activations, cd, ls, mkdir, get, user, open, reopen, close, SIGINT, SIGALRM, the server; implements `RequestReply` |
| `DirCache` | the directory caches of several connections and all commands that touch them |
| `Get`, `Put` | what get and put decide about each file of a list, questions, SIGHUP, tags, deletion |
| `Connections` | the list of connections: open with retries, user, reopen, switch, close, quit |
| `Fxp` | extends `Connections`: fxp between two of them, request by request |
| `Ssh` | the commands once more over sftp and scp |
| `Shell` | abbreviations, aliases and their parameters |
| `Bookmarks` | extends `Shell` (hosts are abbreviated with the same search): the bookmarks of several processes and their file |
| `Listing` | lines of listings, the parsers, the year guess, and what the session remembers |
| `Tags` | extends `Listing`: globbing over listings, tag lists and their files, rm |
| `Linklist` | the lists that commands take items from while they walk them; used by `Get`, `Put`, `Connections`, `Fxp`, `Tags` |
| `FtpSession_proofs`, `DirCache_proofs`, `Get_proofs`, `Put_proofs`, `Fxp_proofs`, `Ssh_proofs` | theorems about these modules for all values of their constants |
| `FtpCommands_proofs` | extends `FtpSession_proofs`: what cd, ls, mkdir and get promise, and the refinement of `RequestReply` |
| `Linklist_proofs` | lemmas on lists, cited by `Get_proofs`, `Put_proofs`, `Fxp_proofs` |
| `MC*` | model values and bounds of the instances, one module for one family of `.cfg` files |

`MCFtpSession` serves `session_*.cfg` and `v_hang.cfg`, `MCDirCache` `cache_*.cfg`,
`MCFxp` `connections.cfg`, `MCBookmarks` `bookmarks.cfg`, `MCTags` `listings.cfg`;
`MCGet`, `MCPut` and `MCSsh` one run each.

What one module describes in full, others use by its outcomes.  `Get` and `Put`
see a transfer end well, fail, or lose the session, and a listing as a set of
names; `FtpSession` has the dialogue behind the first, `DirCache` and `Listing`
what the second may be.  Where a caller relies on a promise of such a module,
it is one of that module's properties (`ReceivedWhole`, `NoStaleService`,
`EntriesRight`).

### FtpSession and RequestReply

A step of the client runs from one blocking point to the next; `pc` names the
point (`cmd`: in `ftp_cmd`; `connect`, `welcome`: in `ftp_open_url`; `data`,
`final`: in `ftp_list` or `ftp_do_receive`; `drain`, `abort1`, `abort2`: in
`ftp_abort`).  The C stack appears as `stack`: `ftp_cmd` is the only function
that re-enters itself, so one frame per activation (its command, its local
`recon`, and what its caller does with the reply, `k`) is enough.  The frames
under the first are the ones waiting for a reconnect.

| action | code |
|---|---|
| `CmdReply`, `CmdEof`, `CmdNoCtrl`, `Resend` | `ftp_cmd`, `ftp_read_reply`, `ftp_gets` |
| `ConnectOk`, `ConnectFail`, `Welcome`, `OpenFailed`, `LoginDone` | `ftp_open_url`, `ftp_reopen`, `yafc_open` |
| `AfterUser` ... `AfterPwd` | `ftp_login`, `ftp_getcurdir`, `ftp_chdir` |
| `ListStart` ... `ListCached` | `ftp_read_directory`, `ftp_list`, `ftp_init_transfer`, `ftp_pasv` |
| `AfterGetPasv` ... `AfterRetr`, `Success` | `ftp_getfile`, `ftp_init_receive`, `ftp_type`, `ftp_do_receive` |
| `RecvEnd`, `RecvBreak`, `AbortPending`, `SendAbor`, `Drained`, `AbortReply`, `AbortEof` | `FILE_recv_binary`, `FILE_recv_ascii`, `maybe_abort_in`, `ftp_abort` |
| `IntJmp`, `IntAbort`, `IntClose`, `Timeout` | `sigint_*_handler`, `reply_ALRM_handler`, `ftp_longjmp` |
| `User*` | `cmd_*`, up to the first blocking point |
| `Srv*`, `XferEof`, `XferReply`, `SrvDrop`, `RemoveDir` | the server, as far as the client relies on it (external) |

The server is an ordinary one: it executes commands in order, answers each
once, answers ABOR with 426 and 226 or with 226 alone, may refuse a login, a
directory or a file, and may end the session at any moment with a 421 or
without a word, losing replies in flight.  Its answers carry, as history, the
verb they answer (`re`); the client never reads that to decide anything a real
reply would not tell it.

Abstractions: paths are absolute model values; a listing is the directory it
came from (`of`) and whether it is `whole`; a file is the transfer that brought
it.  Only passive mode, plain FTP, no proxy.  Credentials are known: the
interaction with the user in `get_password` is not a blocking point.

`RequestReply` keeps three steps: the user asks for something in a place, it is
executed there once, the user is answered, and a success is shown only for what
was executed.  The refinement `Mkdir` maps

| `RequestReply` | `FtpSession` |
|---|---|
| `asked` | the running mkdir: its serial number and the directory it was typed in |
| `done` | `made`: how often the server executed each MKD |
| `here` | `srv.cwd`: where a MKD sent now would be executed |
| `lost` | `gone`: directories removed by others |
| `shown` | the class of `ftp->code` is `ctComplete` |

Only `asked` and `done` are constrained; the server moves `here` in every login.
So `MkdirServed` says: whatever `ftp_cmd` sends in between (a whole login, the
CWD back, the MKD again), a mkdir takes effect once and in the right place.

### DirCache

Several connections, each with a tree of directories, a current directory, a
cache and marks.  Here the server has no dialogue: a refused request changes
nothing and is no step, since `FtpSession` covers the dialogue.  A cached
listing is a record of two facts about it: a command of ours has changed the
directory since (`outdated`), and `cache_timeout` has passed (`aged`).  A
command begins (`Begin`), makes any number of look-ups and requests of its
kind, and returns to `exe_cmd` (`EndCmd`) or is aborted (`JumpOut`).  A file is
its directory: what matters is whose listing changes.

A directory is the sequence of names that leads to it, and a command writes it as
an absolute path, a relative one or a bare name (`Forms`).  The difference matters:
`path_absolute` takes a path of fewer than three characters as relative even if it
begins with `/`, and a path goes through it once when a directory is marked, twice when it is
looked up (`Resolve`, `GetDirectory`).  So a lookup that ends at `/`, `ls ..` in a
directory below it included, does not find the current directory's listing (it
searches under that name with a slash behind it), reads it once more and gives that
out; `/x` is looked up and marked below the current directory; and the change of
something in `/` marks the current directory.  A flush drops one copy per mark.
`astray` records the directories this happens to, until no copy of theirs is
left: the code promises nothing about them, and the properties leave them out.
Everything else is checked and proved with these names in use.

`MovesDirs`, `Fxps`, `OntoDirs`, `Jumps` and `Expires` switch on circumstances some of
which break a property, so that the rest is checked, and proved, without them.

### Get and Put

`frames` is the C stack of `getfiles()` or `putfiles()`: for each activation what
is left of its list, the output directory, and whether the list is the tag list.
`cur` holds the locals of the running `getfile()` or `putfile()`, `flags` the
static variables that keep answers (`get_quit`, `get_batch`, `get_owbatch`,
`get_delbatch`, the same for put) and `gvInterrupted`.

| action | code |
|---|---|
| `CmdGet`, `CmdPut` | `cmd_get`, `cmd_put`: options, the list or the tags |
| `NextItem` | the head of the loop: dot entries, masks, `--interactive` |
| `FollowLink`, `Directory`, `NotAFile` | the link, directory and other branches of `getfiles` |
| `Getfile`, `AskOverwrite` | `getfile()`: unique names, skip, newer, resume, append, the question |
| `MakePath`, `Exists`, `AskOverwrite` | `putfile()`: `ftp_mkpath` with `last_mkpath`, the look into the cached listing, the question |
| `Transfer`, `Upload`, `AfterTransfer`, `AfterUpload` | `ftp_getfile`, `ftp_putfile`, with success, failure, SIGINT; what is asked then |
| `Unlink`, `AfterFile` | `--delete-after`; `list_delitem`, tags |
| `Return` | the end of a list; the tagged files after it |
| `Sighup` | `sighup_handler`: nohup from here on |
| `Lose`, `Vanish` | the session ends; somebody removes a directory (external) |

A file's content is the set of files it holds whole: overwriting replaces the
set, appending and resuming add to it.  `consent` records every agreement: an
answer, "all", an option; `sent` (put) the files this command has sent, which a
listing cached before them does not show.  The two modules differ where the code does: get asks
the local file system, put a cached listing that may be old; get prunes the tag
list file by file, put clears it at the end; put makes directories.

### Connections and Fxp

`list`, `current` and `use` are `gvFtpList`, `gvCurrentFtp` and the global `ftp`;
`ftp[f]` holds what these commands look at in a structure, `srv[f]` what the
server's session knows and how many replies are still unread (`owed`).

| action | code |
|---|---|
| `CmdOpen`, `Dial`, `Login`, `Retry`, `Sleep`, `OpenEnd`, `OpenAborted` | `yafc_open` and `cmd_open`, from the new structure to the sleep between attempts |
| `CmdClose`, `CmdUser`, `CmdReopen`, `CmdSwitch`, `CmdQuit`, `SessionLost` | the other commands; a session that ends between commands |
| `CmdFxp`, `NextItem`, `NotAFile`, `Begin`, `AfterFile`, `Return` | `cmd_fxp`, `fxpfiles`, `fxpfile` |
| `Mkpath`, `Look`, `Type`, `Pasv`, `Port`, `Size`, `RestTarget`, `RestSource`, `Stor`, `Retr`, `Abort` | `ftp_fxpfile`: one request each, on the connection `use`, refused or not, resent in a new session or not |
| `ReadTarget`, `ReadSource`, `AfterTransfer`, `Unlink` | the two last replies and what follows them |
| `Jump` | SIGINT in an fxp |

A copy is right (`cur.whole`) if the target stored it in the type the source sent
it in, from the place the source sent it from.

### Ssh

One step is one call of libssh or one `read()`/`write()` of a transfer.  The
server keeps no directory; `cd` is decided by `ssh_chdir` from the cache, then by
the server.  A content is a sequence of pieces, so that a transfer that stopped,
began at the wrong offset or was appended twice is a different content.  Actions:
`Open`, `Establish` (connect, host key, login, sftp), `CmdClose`, `SessionLost`,
`Interrupt`, `ChDir`, `List`, `Mkdir`, `Rmdir`, `Rename`, `Unlink`, `Get`, `Put`
with `StartGet`, `Read`, `ReadEnd`, `StartPut`, `Write`, `WriteEnd`, and `EndCmd`
(`exe_cmd`'s flush).

### Shell and Bookmarks

`Shell`: `Enter` is a typed line, from `exe_cmdline` to the commands it runs
(`ran`); `DefineAlias` and `Unalias` change the table.  A word is a sequence of
letters because abbreviation is about prefixes; an argument is a word that may
hold a parameter.  `AsDocumented` is the manual's reading of a body, `Expand`
the code's.

`Bookmarks`: each process has the bookmarks in memory (`mem`), a connection
(`conn`: what of `ftp->url` is used) and options; `file` is shared.  `Start` reads
yafcrc, the file and `.netrc` in the order of `main.c`; `Open` looks a host up;
`Bookmark`, `Save`, `Read`, `Delete`, `ToggleNoupdate` and `ToggleCurrent` are the
command's options; `Close` includes `auto_create_bookmark`; `Edit` is the user's
editor; `Vanish` a killed process.

Writing the file takes steps, between which other processes read and write it:
`Create` reads it again (`saving.step = "reread"`), `Empty` is `fopen` with `"w"` (at
once for the other options, in `Reopen` after `Create`), `Fill` is `fclose`.  A
process killed in between leaves an empty file; one that starts, or creates a
bookmark, in between reads it empty and may write it back so.  What another process has
put behind the end of this one's text stays after `Fill`: any subset of the
entries then in the file, an entry cut in two counting as lost.  The text is assumed to fit the
buffer of stdio (4096 bytes), so that it is written at once.  While a process writes it takes no
command; its aliases are typed apart from work on bookmarks (`Apart`, a bound), since they share
nothing but the process.

### Listing and Tags

`Listing`: a server's line is what its first characters tell apart and a sequence
of columns.  `Tried` is each parser (UNIX with its ISO and webstar variants, DOS,
EPLF, MLSD) applied to a line, `Detect` the loop of `rfile_parse` that tries them
in turn and remembers the last in `LIST_type`, `ParseListing` `rdir_parse` with its
treatment of blank, total and junk lines, `ReadDirectory` one listing received.
`Mktime`, `GmtMktime` and `LocalYear` are calendar arithmetic in minutes, written
without recursion.  `ForgetServer` is what a new session resets.

`Tags`: `Tag`, `LocalTag`, `Untag`, `Clear`, `SaveCommand`, `LoadCommand` are the
commands; `Start`, `Open`, `Close`, `Reopen`, `Exit` save and load by themselves.
`Rm`, `RmOnlyTagged`, `RmItem`, `RmReturn`, `RmTagged`, `RmEnd`, `RmInterrupt` walk
like get; what a mask matches comes from the entries `Listing` parsed, dot
directories included.  `Ls` reads a listing that is shown and forgotten.

A path is a sequence of names from the root, and `Real` what `path_collapse` makes of
it.  Loading a saved list looks each line up (`Known`, `ftp_get_file`): the
tag `.` of the home directory comes back as the entry home has in the directory
above, `..` likewise if the directory above that may be read, and what is not found as a
plain file under the saved path.  A tag is therefore followed by what its path
leads to (`Denoted`), not by the path.

## 3. Runs

Bounds are constants of the modules.

| run | checks | distinct states |
|---|---|---|
| `session_reconnect` | one lost session, a directory removed by others: replies match, working directory, whole listings and files, own changes seen, mkdir once and as `RequestReply` promises, type and offset of a download, every command ends | 108 393 |
| `session_interrupts` | two SIGINTs, no reconnect, LIST-only server: prompt in sync, listings filed under the right name | 183 073 |
| `session_interrupts_hard` | two lost sessions, four SIGINTs, one while connecting, local files that cannot be opened: types, URL present | 460 047 |
| `cache_commands` | one connection, all commands but fxp, three directories written in every way, second copies, timeouts: no stale listing served, what changed is marked | 450 859 |
| `cache_jumps` | two connections, switching, aborted commands, fxp, also onto a directory: what changed is marked | 962 519 |
| `get_files` | one get, 12 sets of options, one lost session, SIGINT, SIGHUP: no local data lost unasked, only received files deleted, failed files stay tagged, get ends | 923 253 |
| `put_files` | two puts in a row, 10 sets of options, the same faults and directories that vanish: the same for put, directories made | 289 122 |
| `connections` | three connections, three opens of two attempts, an fxp, a lost session, a SIGINT: `ftp` is the user's choice, channels in step, only the right connection is closed, only copied files are deleted, opens and fxps end | 374 289 |
| `ssh` | three directories, a file on both sides: received and sent whole, no directory entered that is not there | 1 097 456 |
| `bookmarks` | two processes and an editor on one file written in steps, two hosts with one alias: creating loses nothing that was read again unless another writes meanwhile, no password written unasked, aliases as documented | 1 897 813 |
| `listings` | seven formats, 88 listings at three times; tags and rm: entries right, tags survive, rm removes what it was told to | 613 974 |
| `v_hang` | violated: a command that never ends | |

**Sessions.**  `MaxOps` commands typed, `MaxDrops` sessions ended, `MaxInts`
SIGINTs during a command, `MaxJmps` while connecting, `MaxGone` directories removed
by others.  Two directories (`home`, where logins end, and `pub`) tell "back where
I was" from "at home".  One lost session meets every blocking point; two meet a
reconnect inside a reconnect.  Four interrupts are what the close handler counts
to.  **Cache.**  On one connection, `/` with `home` and `x` in it: a parent and a child
to have marks of both kinds, a sibling for `mv`, and a name of one character; two copies
of a listing at most, the second being the one a flush leaves.  On two, for fxp and
switch, `/` with `home`, and no lookup that would add a second copy; there
`SYMMETRY` exchanges the connections and `VIEW` leaves out the history
variables that the run's properties do not read.
**Get and put.**  Two files of one name in two directories (who overwrites whom),
a link up (a circle), links to a file and to a directory, a list and a tag list; put twice,
because the memory of `ftp_mkpath` and the marks of the cache act on the next.
**Connections.**  Three, since closing and switching go to the neighbours in the
list; two attempts for one retry; one refusal of every request, and one lost
session at every request.  **Ssh.**  Files of one and two pieces make "resume"
start at every offset; appending is bounded at three pieces.  **Bookmarks.**
Two hosts that get the same alias, three versions of it, one edit; two commands
that write or read the file, of two processes or of one that is started again, which
is what a lost update takes, interleaved with the steps of their writing; opening is not counted.
**Listings.**  Each line first, and after each kind of line that
changes what is remembered; the three instants are around a turn of the year and
in a leap year's August; the tree has two levels of directories for `rm -r`, home is
listed in the directory above it, and the one above that may not be read.
`MaxCmds` counts neither starts nor opens: four commands are enough to tag, close,
and remove what was loaded again.  `MaxLooks` and `MaxRms` keep `ls` and `rm` with
arguments among the first two commands; `rm --tagged` may come any time.  `VIEW` leaves out
which listing was read last; the property over it is an action property, evaluated on
every step.

Deadlock is checked in all runs but `bookmarks` (`CHECK_DEADLOCK FALSE`), where the
users may have typed all they are allowed to.  In the others a final state is an
explicit stutter (`Quiet`, `Rest`, `Exited`, `Stopped`: the prompt, the exit or the crash),
so anything else without a successor is a client that waits for nothing.

**Fairness.**  `FtpSession`: `FairSpec` assumes that the process runs
(`WF(ClientStep)`) and that an armed alarm is delivered (`WF(Timeout)`), which the
kernel gives.  Nothing is assumed of the server, the network or the user.  Under
it `CommandEnds` says that a command ends, crashes or is moving data (the code has
no timeout for data, `ftp_read_reply` is the only caller of `alarm` there).
`Get`, `Connections` and `Fxp`: that the client's next step is taken (`WF` of
`ClientStep`, `OpenStep`, `FxpStep`).  This includes that the user answers a
question and that a request is answered, refused or finds its session lost:
`CommandEnds` is where that is checked.  What remains, and what `GetEnds` and
`Returns` show, is that no walk, retry loop or reconnect goes round for ever.

### Where the code departs from what it says

`v_hang` is the run that expects a violation; `PROJECT.json` quotes both sides
under `findings`.  The models show more departures.  They are not runs of the
project; each is what TLC answers when the constants of an existing `.cfg` are
changed as listed and the property is the only one it names.

| property | from | change | what happens |
|---|---|---|---|
| `MkdirServed` | `session_reconnect` | `MaxDrops = 2`, `MaxGone = 0` | a 421 at the CWD of the login: the nested reconnect frees the URL whose directory is being sent (`ftp.c:416`, `1093`), the login ends elsewhere and the resent MKD runs there |
| `LoggedinAuth` | `session_reconnect` | none | `loggedin` of the lost session turns a refused login (530) into "already logged in" (`ftp.c:1067`) |
| `PasvNotForgotten` | `session_reconnect` | none | a PASV resent after a failed login is answered 530 and passive mode is given up (`ftpsend.c:96`) |
| `ListingLabel` | `session_reconnect` | none | the session is lost within an `ls` of another directory: `ftp_cmd` reconnects to the current directory and goes on there, whose listing is filed under the other's name (`ftp.c:416`); or others remove the current directory, the CWD back to it after a listing fails unnoticed, and the next listing is filed under its name |
| `ReplyMatches` | `session_reconnect` | `LocalFails = TRUE` | `fopen` fails after RETR was accepted; the reply that ends the transfer is read by the next command (`ftpsend.c:1120`) |
| `NoCrash` | `session_interrupts` | none | the connection is lost before the reply to PWD and `ftp->url` is read after `ftp_close` (`ftp.c:1092`) |
| `ReceivedWhole` | `session_interrupts` | none | a SIGINT while data is pending, or after the last `read()`, leaves a truncated listing or file that counts as complete (`ftpsend.c:294`, `494`) |
| `PromptInSync` | `session_interrupts` | `MaxInts = 3` | the third SIGINT jumps to the prompt and leaves a reply in the channel (`ftpsigs.c:139`) |
| `ServesAsked` | `cache_commands` | none | `ls /`, or `ls ..` below `/`, reads the current directory's listing once more and shows it (`ftp.c:1485`, `strq.c:274`) |
| `TimedOutReread` | `cache_commands` | none | a listing that has timed out is given out once more (`cache.c:115`) |
| `StaleIsMarked`, `NoStaleService` | `cache_commands` | `MovesDirs = TRUE` | a renamed directory keeps its cached listing (`ftp.c:1681`) |
| `NoStaleService` | `cache_commands` | `Fxps = TRUE`, `Conns = {a, b}` | marks on the fxp target are not flushed when fxp ends (`cmd.c:201`, `ftpsend.c:1024`) |
| `NoStaleService` | `cache_commands` | `Jumps = TRUE` | an aborted command is not followed by its flush (`ftpsigs.c:163`) |
| `LocalKept` | `get_files` | `HupAt` with `"resolve"`, `"file"`, `"over"` | SIGHUP after `getfiles` has looked at the options and before the question is put: the file is overwritten or resumed |
| `pc # "crash"` | `get_files` | `Drops` with `"tagged"` or `"linked"` | a session lost during `get -t`, or while a link is followed, frees the list or the file in use (`get.c:525`) |
| `RemoteKept` | `put_files` | `Lists <- MCSameName` | the second file of one name finds no such file in the listing cached before the first was sent |
| `RemoteKept` | `put_files` | `HupAt` with `"mkpath"`, `"exists"`, `"over"`; or `ServerStou = FALSE`; or `Ssh = TRUE` | SIGHUP makes put unique; too late for the file at hand, and without STOU it overwrites; over ssh nobody asks after a MKD (`ftp.c:1608`) |
| `DeleteOnlySent` | `put_files` | `AbortDelete = TRUE` | an upload ended by SIGINT counts as sent (`ftpsend.c:918`) |
| `DeleteOnlyCopied` | `connections` | `SourceErrors = TRUE` | the source's last reply is ignored (`ftpsend.c:1043`) |
| `DeleteOnlyCopied` | `connections` | `ReconnectAt` with `"PASV"`, `"PORT"` | a reconnect inside PASV or PORT forgets the TYPE sent before (`ftpsend.c:953`) |
| `DeleteOnlyCopied` | `connections` | `Refusable` with `"TYPE"` | a refused TYPE is not noticed, the copy is made in the wrong one (`ftpsend.c:952`) |
| `CreatedBesideWriters` | `bookmarks` | none | another process writes a bookmark between `parse_rc` and `fclose` in `create_the_bookmark`, or has the file empty at that moment: it is lost (`bookmark.c:217`, `135`) |
| `HomeStays` | `listings` | none | `tag *` tags `.`; after close and open it is in the list as the home directory's own name, which `rm -r -t` does not skip: home is emptied and removed (`tag.c:130`, `rm.c:67`) |
| `EntriesRight` | `listings` | `RecentDays = 182`, `tty`'s time in `MCTags` one day earlier | a server that shows times for half a year, as `ls` does, is a day or two ahead of the client's 180 days (`rfile.c:241`) |

The passing runs leave out exactly these: for example `ListingLabel` holds where no
session is lost within a listing, and is not asked of the runs that lose them.  Other causes
are set apart in the statements of the properties, as their comments say:

* `OwnChangesSeen`: after others removed the current directory, the failed CWD
  back to it is ignored.
* `StaleIsMarked`, `NoStaleService` (`astray`): a directory whose mark went to
  another name, or which has a second copy, as told in section 2: a change in `/`
  or `/x`, a lookup of them, and the completion of `./` or `/` (`strq.c:274`,
  `completion.c:167`).
* `UseIsCurrent`, `OthersKept` (`astray`): an fxp onto a directory returns with
  `ftp` on the target (`fxp.c:224`); a close then ends one connection and takes
  the other from the list.  `ChannelsInStep` (`jumped`): SIGINT in an fxp leaves
  replies unread and waits unbounded.
* `DeleteOnlyCopied`: a resumed fxp sends from the source's own offset
  (`ftpsend.c:997`).
* `TagsKept`: a tagged directory, or link to one, leaves the list even if files in it
  failed; a session lost meanwhile empties the list.
* `GetWhole` of `Ssh` (`clean`): a get that failed leaves its offset to the next
  (`ftpsend.c:1078`).  `EnterExisting` (`moved`): a directory that was renamed
  can still be entered through the cache (`ssh_cmd.c:379`, `597`).
* `PasswordAgreed` (`misled`): a connection whose alias is another host's by now
  takes that one's password for a permission.  `CreatedBesideOthers` (`alone`):
  what somebody else writes between the new reading and the end of the writing may be lost;
  bookmark `-d`, `-u` and `-s` write their memory over what others have written in any
  case.
* `RunsAsDocumented`: an abbreviation of an alias comes before a command's exact
  name (`cmd.c:205`); `%` in typed arguments is expanded again; `%*` within an
  argument.
* `TagsSurvive` (`aside`): declining to load the saved tags and closing replaces
  them; `load_taglist = no` makes `tag --save` save nothing (`tag.c:41`).
* `RmAsked`: what `rm --tagged` is told is what the tag list shows, not what the
  user once tagged (`HomeStays` above).
* `EntriesRight`: a line that is not understood drops the entries before it
  (`rdirectory.c:66`), a blank one ends the listing (both in `Counted`); the years of
  ISO dates and 12 o'clock in DOS listings come out wrong (`ShownTime`;
  `rfile.c:517`, `603`); a month in a DOS file's name, or as the owner before an ISO
  date, misleads the parser (`misled`).  No file of the instance has " -> " in a plain
  name or a comma in an EPLF one.

## 4. Proofs

The theorems hold for every value of the constants: any number of connections,
commands, lost sessions, signals and retries, any tree of files and links, any
lists, options and masks.  A theorem that needs a hypothesis names it, and section
3 shows what happens without it.  Each invariant was checked by TLC on the runs
of its module before it was proved.

| module | theorem | states |
|---|---|---|
| `FtpSession_proofs` | `Typing` | `Spec => []TypeOK` |
| | `UrlIsThere` | `Spec => []UrlWhenSending` |
| | `MadeAtMostOnce` | `Spec => []MkdirOnce` |
| | `RepliesMatch` | `[]ReplyMatches`, under `~LocalFails` and `[][~Abandons]_vars` |
| | `IdleAtPrompt` | `[]PromptInSync`, under the same |
| `FtpCommands_proofs` | `PlaceIsKnown` | `[]PromptCwd`, under the same and `[]Single` |
| | `MkdirKeepsItsPromise` | `MkdirServed` (`FtpSession` implements `RequestReply`), under the same, `Somewhere`, and no mkdir typed while yafc shows `CWD?` |
| | `TransfersIntact` | `[]TransferIntact`, under `~LocalFails` and `[][~Abandons]_vars` |
| | `SuccessIsWhole` | `[]ReceivedWhole`, under `~LocalFails` and `[][~Abandons /\ ~CutsShort]_vars` |
| | `ListingsAreLabelled` | `[]ListingLabel`, under `~LocalFails`, `[][~Abandons /\ ~Strays]_vars`, `[]Single` and `[](gone = {})` |
| | `OwnChangesAreSeen` | `[]OwnChangesSeen`, under the hypotheses of `MkdirKeepsItsPromise` but `Somewhere` |
| `DirCache_proofs` | `Typing` | `Spec => []TypeOK` |
| | `MarksComplete` | `[]StaleIsMarked`, under `~MovesDirs` |
| | `NeverServedStale` | `[]NoStaleService`, under `Quiet`: `~MovesDirs`, `~Fxps` and `~Jumps` |
| `Get_proofs` | `Typing` | `[](TypeInv /\ TypeOK)` |
| | `TagsAreKept` | `[]TagsKept` |
| | `FilesAreKept` | `LocalKept`, if `HupAt` has none of `resolve`, `file`, `over` |
| | `OnlyReceivedDeleted` | `DeleteOnlyReceived` |
| `Put_proofs` | `Typing` | `[](TypeInv /\ TypeOK)` |
| | `PathIsMade` | `[]PathMade` |
| | `RemoteFilesKept` | `RemoteKept`, under `ServerStou`, `~Ssh`, `HupLate`, `[]OneEach` |
| | `OnlySentDeleted` | `DeleteOnlySent`, under `~AbortDelete` |
| `Fxp_proofs` | `Typing` | `[](TypeInv /\ TypeOK)` |
| | `UseIsChosen` | `[]UseIsCurrent` |
| | `OthersAreKept` | `OthersKept` |
| | `ChannelsAreInStep` | `[]ChannelsInStep` |
| | `OnlyCopiesDeleted` | `DeleteOnlyCopied`, under `CopyHypothesis` |
| `Ssh_proofs` | `EntersExisting` | `EnterExisting` |
| | `GetsWhole` | `[]GetWhole` |
| | `PutsWhole` | `[]PutWhole` |

Assumptions on constants are those of the modules (`SessionAssumption`,
`CacheAssumption`, `GetAssumption`, `PutAssumption`, `ConnectionsAssumption`,
`FxpAssumption`): types, the root is its own parent, "none" is none of the values.
TLC evaluates them in every run of the module.

**FtpSession.**  `TypeInv` is `TypeOK` and what a client step relies on without looking:
`ftp_cmd` has an activation to return to whenever a reply is awaited; only the
activation of an MKD continues a mkdir (`Fitting`); a connection has a URL exactly
if it was greeted (`FtpOK`), and a socket, outside the calls that open one, is a
greeted one (`Live`).  Where the continuation of a reply may lead is said once, in
`Leave`, instead of action by action.  `MkdirOnce` is not inductive.  `OnceInv` adds

* an MKD in flight is the only one of its number and was not executed (`SentOnce`);
* a 421 is the last word of a session (`Farewell`);
* the activation of the MKD is the last one, and of the last command (`MkdLast`);
* while its `ftp_cmd` waits, an executed MKD shows: the next reply is not a 421, or the
  server has gone and none comes (`Unanswered`); while it reconnects, the MKD was not
  executed and is not in flight (`Unexecuted`).

So a 421 read for an MKD says that the server which sent it is down and has not
executed it, whatever the login dialogue in between does with the same function.
This relies on what the server is assumed to do: it loses an executed command's
reply only by dropping the connection without a word, and then `ftp_cmd` does not
resend.

**The channel.**  `ReplyMatches` says of one point of the client what has to be known of
every point, and of the commands and replies in both directions.  `CallsInv` says which
activations of `ftp_cmd` there can be: the first is one of the command that was typed,
those above it are of a reconnect's login, and each sent the verb its continuation
expects.  `Synchronous` pairs each blocking point with what is due there.  In `ftp_cmd`
it is the reply to the command on top, which is on its way, being executed, answered,
or lost with the session (`Due`); while data moves, the reply that ends the transfer
(`Moving`); in `ftp_abort` two replies, to the transfer and to ABOR (`TwoDue`); at the
prompt nothing.  A session that ended may have left a 421 behind (`Bye`) everywhere.
Two things break this, both found by TLC first (section 3) and set apart as hypotheses
that most behaviours of every run meet: a local file that does not open after RETR was
accepted (`~LocalFails`), and a SIGINT that gives a command up on an open connection
(`~Abandons`: the third in the close handler, or one in the handlers that only jump).
Interrupted transfers, the handler that closes, timeouts and reconnects are included.

**The place.**  `PromptCwd` compares `ftp->curdir` with the server's directory, at the
prompt only.  In between they differ for good reasons: a CWD that was executed and whose
reply is on its way, a PWD not yet answered, a new session that starts at home.
`WhereInv` says at each blocking point which of these may be, and what makes up for it:
the reply in flight names the place (`Placed`), or the activations below are of a
command that will be sent again, and the login that runs on top of them ends with a CWD
to the directory the lost session was in (`Above`).  One thing breaks this and is set apart as
`Single`, at most two activations of `ftp_cmd`: a session that ends within the login of
a reconnect makes `ftp_cmd` reconnect from there.  The inner reconnect takes home for
the directory to return to, and the outer command is sent again from there; with two
lost sessions TLC finds a listing whose CWD back then leaves the server elsewhere.
Any number of lost sessions one after the other is included.

**mkdir.**  `MkdirKeepsItsPromise` is the refinement mapping of section 2, step by step.  Each
step of a session leaves asked and `done` alone, begins a mkdir, executes its MKD, or
ends it (`Honours`), and these are a stutter and the three steps of `RequestReply`.  That
the MKD is executed once is `OnceInv`; that it is executed where it was typed is
`WhereInv`, read when the server takes the command; that a success shown is a true one
is `HonestInv`: a reply of class 2 on its way to `ftp_mkdir_verb` follows an execution,
and what a login leaves in `ftp->code` on its way out is not such a class.  Two more
hypotheses: `Somewhere`, that the value for "no request" is not a request; and no mkdir
is typed while the prompt shows `CWD?`: the client does not know then where it is,
and after a reconnect the MKD is executed at home.

**Downloads.**  `TransferIntact` speaks of the moment data moves; `CarryInv` says what leads
there.  A client that has seen its TYPE accepted talks to a server in image type
(`Image`): over a reconnect this holds because the reopened session has type `?`, so
that `ftp_type` sends TYPE again.  For each reply of PASV, TYPE, REST and RETR,
`Fetches` says what the server has prepared when it is sent (`Ready`) and when it is read
(`Arrived`); the 150 to a RETR is on its way only if the transfer has the type and
the offset asked for.  REST and PASV are not repeated by a reconnect: what keeps a RETR
sent again from being received from the wrong offset is that the new session has no data
port, and refuses it.

**What counts as received.**  `ReceivedWhole` speaks of the end of a transfer, and a
listing is filed only after the way back to the old directory (`lsBack`), which may
take a reconnect of its own.  `WholeInv` follows a transfer there: a reply of success
is on its way only if all was sent (`Counts`), an interrupted get is given up
(`GivenUp`), and a listing that waits to be filed was whole unless it failed
(`Vowed`, which is about the bottom of the stack, whatever reconnects are above it).
`CutsShort` names the two steps set apart: `FILE_recv_binary` forgets a SIGINT that
ends its loop (`RecvBreak`), and `ftp_abort` finds data pending in a listing and
leaves it (`AbortPending`).  They are the row of `ReceivedWhole` in section 3.

**Whose listing it is.**  `ftp_read_directory` has the name of the directory, the server
has the place; four commands lie between, and the listing is filed after the last.
`LabelInv`: from the reply to the CWD there until the data has come, whoever serves is
in the directory asked for (`AtDir`); what is received is of that directory
(`Receives`); and what waits to be filed was (`Meant`, of the bottom of the stack, as
reconnects may run above it).  For a listing of the current directory, which sends no
CWD, it is `WhereInv` that says where the server is.  `Strays` is what cannot be had: a
421 to the PASV or the LIST makes `ftp_cmd` reconnect to the *current* directory and
send the command again there.  A reconnect within a listing of the current directory
does no harm and is set apart with the others for brevity (TLC finds the property
to hold with those included); a reconnect within the CWD there, or within the
CWD back, is not set apart.  `gone = {}`: a CWD back to a directory that others have removed is
not noticed, and the next listing is of another place.

**Own changes.**  `OwnChangesSeen` speaks of the prompt; a MKD is executed two steps before it.
`FreshInv` says what is cached is current but for one directory at one time: while the
reply that says the MKD was executed is on its way, or may have been lost (`Open`), the
current directory's listing may be old.  If the reply is read, `ftp_mkdir` marks
that directory, and the end of the command drops it (`MarkedFresh`); if it is lost with
the session, `ftp_close` drops everything; and a 421 in its place says there was none.
That the directory marked is the one the server worked in is `WhereInv` once more
(`MkdCurdir`).  A listing on its way to the cache is no older than what it shows (`News`),
since ls and mkdir do not overlap.

**DirCache.**  `StaleIsMarked` with the types is inductive.  Every request of a command
is one of a few kinds of change (`StepKinds`, `RequestRequests`, `StoreRequests`): it changes some
directories, and marks those, under their own names or under another; in the second case
they are astray from then on (`RequestedProperties`).  This needs that `mv` renames files only
(`~MovesDirs`).  What is given out leaves the cache as it is, or adds a fresh copy
(`GiveOutProperties`), to one that is there only if the directory is astray
afterwards.  So what is not astray has one copy, which the flush drops when it
takes the mark away (`EndCmdMarked`), and a directory stops being astray only when
nothing of it is cached.  How the root and short names are resolved is not looked into: the
proof holds for whatever name `Resolve` makes.  For service `IService` adds that what is
stale, and not astray, was made so by the *running* command, on the connection in use
(`StaleIsMine`): between commands nothing else is stale.  `Quiet` adds no fxp and no
aborted commands.

**Get.**  `TypeInv` says where the walk is: every activation of `getfiles` but the
innermost stands at an item, and the innermost does while a file is dealt with.
`TagInv`: what has been received has been dealt with, and an outer walk over tags stands
at a directory.  `ConsentInv`: a file that exists is received into only with consent, and after
SIGHUP the options leave no question to ask.  `WholeInv`: what is on the way to
`--delete-after` is whole in the local file.  The attempt to prove `TagsKept` showed
that its first statement, which excepted only directories, was wrong: a tagged
*link* to a directory leaves the list when it is entered.  The property now says so
(`Directories`), and `get_files` has such a link.

**Put.**  `PathInv`: what `ftp_mkpath` remembers to have made is there, or was refused.
`ListingInv`: a cached listing lacks only what this command has sent since (`sent`).
`SendInv` collects why a file about to be sent harms nothing: `--force` and SIGHUP
leave no existing file to ask about (`ForceInv`, `HupInv`), a file whose directory was
just made is new (`MadeInv`), and otherwise the user agreed or the listing shows
that it is not there (`AgreedInv`).  `OneEach`, that no two files of one command go to
one name, is a hypothesis on behaviours since it depends on the lists typed; every
behaviour of `put_files` meets it.

**Fxp.**  `TypeInv` has `PlaceInv`: which of the two connections `use` is at each point
of `ftp_fxpfile`.  `UseInv` follows `use` back to `current` unless an fxp onto a
directory has led it astray.  `ChannelInv` says which connection owes a reply at each
point and whose wait is unbounded.  `CopyInv` ties the data connection prepared by
PASV and PORT to the type both sides were set to: it is lost if a TYPE is refused
unnoticed or the session is reopened within PASV or PORT (`CopyHypothesis`).

**Ssh.**  `CacheInv`: what the cache takes for a directory is in the tree or was
renamed, and the sizes it tells are the server's, except while one of the files is being
sent; every command's marks are what keeps it so.  `Copied` is the invariant of the read
and write loops: the destination is what was to be kept, and behind it the source from
the offset the transfer began at to where it is.  `GetInv` and `PutInv` say that a
transfer begins so: the offset is the length of what is kept, or 0, whether it comes
from the local file, the cached size or the server.  What is kept is chosen by `Opened`
from the offset alone, so this is where a wrong offset would show.
Files may have any length.

**Lists.**  `Only`, what is left when items are taken from a list, is a recursive
function; `Linklist_proofs` proves what it returns for every list (`OnlyProperties`)
by induction over a set of numbers, which rests on well-founded induction
(`WFMin`) and needs no operator as a parameter.  The lemmas on `Walks`, `Popped`
and `Callers` describe a stack of such lists.

**Left to TLC.**  Liveness (`CommandEnds`, `GetEnds`, `Returns`) and `ENABLED`, which
the provers cannot treat.  Safety not proved: the properties
of `Tags`,
`Bookmarks`, `Shell` and `Listing`.  No module uses `RECURSIVE`, so that
each can be proved about.

## 5. Not modelled, and why

* Proxies and the security extensions: more of the same dialogue, or optional code.
* Active mode: as passive mode with PORT for PASV, except for a server that
  connects late.  Line ends in text transfers.
* `quote` and `site`: the user bypasses the client's bookkeeping.
* The dialogues of SIZE, MDTM, SYST, FEAT, HELP: one request and one reply each,
  in `FtpSession`'s frame.
* Display, progress and statistics, line editing, help, colours, local shell
  commands, redirection of output, the mail after a nohup transfer: no state that
  others depend on.
* Variables, `set` and the syntax of yafcrc; URLs, modes, sorting and searching of
  lists: pure helpers.  Quotes within a typed line.
* Time zones and summer time in listings; permissions of entries.
* Saving tags to a file the user names.  The methods of ssh authentication one
  by one, chmod and links over ssh; links in fxp (they are resolved as in get).
* What is read from freed memory: the models stop at `crash` or keep it out
  (`putfile` uses its directory after freeing it when mkpath fails; `rm -t` walks a
  list that a lost session freed).
* Vendored code in `lib/`.

## 6. Plan

Modelled and checked: `FtpSession`, `DirCache`, `Get`, `Put`, `Connections`, `Fxp`,
`Ssh`, `Shell`, `Bookmarks`, `Listing`, `Tags`, and `RequestReply` as an abstract
specification.  Proved: section 4.  Next, in this order:

1. `Tags_proofs`: `RmAsked`, `TagsSurvive`.  `Listing`: `GmtMktime` equals `Mktime` on
   dates that exist, as a lemma.
2. `CoherentCache`, the abstract cache that always serves the truth, implemented
   by `DirCache` under `Quiet`, as a PROPERTY and a theorem.
3. More code: active mode, redirection, `path_collapse` and `path_absolute` against
   reference definitions.
