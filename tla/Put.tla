-------------------------------- MODULE Put --------------------------------
(***************************************************************************)
(* The put command (src/put.c, with src/ltag.c, ftp_putfile() and          *)
(* ftp_send() of src/ftp/ftpsend.c, and ftp_mkpath() of src/ftp/ftp.c): a  *)
(* list of local files, or the locally tagged ones, is sent to the server. *)
(*                                                                         *)
(* Unlike get, which asks the file system, put learns whether the target   *)
(* exists from a listing in the directory cache; what it uploads only      *)
(* marks that listing, which is dropped when the command is over.  The     *)
(* directories on the way are made by ftp_mkpath(), which remembers the    *)
(* last path it made.                                                      *)
(***************************************************************************)
EXTENDS FiniteSets, Linklist

CONSTANTS
  Items,        \* local files and directories
  Kind,         \* "reg", "dir", "dot" or "other"
  Name, DirName,\* last part of the local path, and the parts before it
  Children,     \* what a directory holds
  First, Ignored, \* items that match transfer_first, ignore_masks
  Lists,        \* what the arguments of put may expand to
  LTagged,      \* initial local tag lists
  OptionSets,   \* options a put may be given
  Masks,        \* sets of items a --mask or --dir-mask may leave out
  RemoteDirs,   \* directories the server has at first, as paths
  RemoteFiles,  \* files the server has at first
  ServerStou,   \* does the server know STOU?
  Ssh,          \* is the connection one of ssh_cmd.c?
  AbortDelete,  \* may SIGINT end an upload of put --delete-after?
  HupAt,        \* where may SIGHUP arrive
  Other, NoItem,\* contents of files that were on the server; no item
  MaxPuts, MaxDrops

ASSUMPTION PutAssumption ==
  /\ Kind \in [Items -> {"reg", "dir", "dot", "other"}]
  /\ Children \in [Items -> Seq(Items)]
  /\ Name \in [Items -> STRING] /\ DirName \in [Items -> Seq(STRING)]
  /\ Lists \subseteq Seq(Items) /\ LTagged \subseteq Seq(Items)
  /\ \A o \in OptionSets : "ofile" \notin o
  /\ Other \notin Items /\ NoItem \notin Items
  /\ <<>> \in RemoteDirs /\ RemoteDirs \subseteq Seq(STRING)
  /\ RemoteFiles \subseteq [dir : RemoteDirs, name : STRING, n : Nat] /\ IsFiniteSet(RemoteFiles)
  /\ {ServerStou, AbortDelete, Ssh} \subseteq BOOLEAN
  /\ MaxPuts \in Nat /\ MaxDrops \in Nat

VARIABLES
  pc, frames, cur, opt, mask, \* as in get
  flags,      \* put_quit, put_batch, put_owbatch, put_delbatch, gvInterrupted
  sighup, connected,
  hasstou,    \* ftp->has_stou_command
  lastmk,     \* ftp->last_mkpath: NoPath or a path
  listings,   \* the cached listings: directory |-> file names when it was read
  marked,     \* ftp->dirs_to_flush
  ltags,      \* gvLocalTagList
  localfs,    \* the items that are there
  dirs, files,\* what the server has
  consent,    \* history: remote files the user has agreed to overwrite or change
  refused,    \* history: directories the server would not make for this command
  sent,       \* history: remote files this command has written
  puts, drops

server == <<dirs, files, hasstou>>
env == <<sighup, connected, puts, drops>>
cache == <<listings, marked>>
vars == <<pc, frames, cur, opt, mask, flags, lastmk, cache, ltags, localfs, server,
          consent, refused, sent, env>>

Top == frames[Len(frames)]
Item == Head(Top.todo)
FlagNames == {"quit", "batch", "owbatch", "delbatch", "intr"}
NoPath == <<"no", "path">>

\* A remote file: the items it holds whole, and one it holds a part of.
Holding(whole, part) == [has |-> whole, part |-> part]
FilePath(dir, name) == [dir |-> dir, name |-> name, n |-> 0]
NoCur == [src |-> NoItem, dest |-> FilePath(<<>>, ""), made |-> FALSE, how |-> "normal"]
Above(path) == {SubSeq(path, 1, k) : k \in 0 .. Len(path)}   \* and itself
Parent(path) == SubSeq(path, 1, Len(path) - 1)
InDir(d) == {f \in DOMAIN files : f.dir = d}

Init ==
  /\ pc = "prompt" /\ frames = <<>> /\ cur = NoCur /\ opt = {} /\ mask = {}
  /\ flags = [f \in FlagNames |-> FALSE] /\ sighup = FALSE /\ connected = TRUE
  /\ hasstou = TRUE /\ lastmk = NoPath /\ listings = [d \in {} |-> {}] /\ marked = {}
  /\ ltags \in LTagged /\ localfs = Items /\ dirs = RemoteDirs
  /\ files = [f \in RemoteFiles |-> Holding({Other}, NoItem)]
  /\ consent = {} /\ refused = {} /\ sent = {} /\ puts = 0 /\ drops = 0

-----------------------------------------------------------------------------
(* Lists, options and names.                                               *)

Sorted(s) == Only(s, First) \o Only(s, Items \ First)
Frame(list, out, tags) == [todo |-> Sorted(list), out |-> out, tags |-> tags]

\* What the options become in a nohup transfer, and after SIGHUP.
NohupOptions(o) ==
  (IF o \cap {"force", "resume"} = {} /\ hasstou THEN o \cup {"tryunique"} ELSE o) \cup {"force"}
HupOptions(o) ==
  IF sighup THEN (IF "resume" \notin o /\ hasstou THEN o \cup {"tryunique"} ELSE o) \cup {"force"}
  ELSE o

Answers(all, default) == IF sighup \/ "nohup" \in opt THEN {default} ELSE all

\* The name putfile() gives the remote copy.
Destination(out, i) ==
  IF "parents" \in opt THEN FilePath(out \o DirName[i], Name[i])
  ELSE IF "ofile" \in opt THEN FilePath(Parent(out), out[Len(out)])
  ELSE FilePath(out, Name[i])

\* ftp_cache_flush(), when the command is over.
Flushed == [d \in DOMAIN listings \ marked |-> listings[d]]

-----------------------------------------------------------------------------
(* cmd_put() and the way out of it.                                        *)

\* The memory of ftp_mkpath() when a put starts.
PathAtStart_Kept == lastmk
PathAtStart == NoPath

\* cmd_put(): refusals, options, lists; the memory of ftp_mkpath() is cleared.
CmdPut ==
  /\ pc = "prompt" /\ connected /\ puts < MaxPuts
  /\ puts' = puts + 1
  /\ \E o \in OptionSets, list \in Lists, m \in Masks :
       LET number == Len(list) + IF "tagged" \in o THEN Len(ltags) ELSE 0
           o1 == IF "force" \in o THEN o \ {"interactive"} ELSE o
           o2 == IF "output" \in o /\ "recursive" \notin o /\ number = 1
                 THEN o1 \cup {"ofile"} ELSE o1
       IN  /\ "unique" \in o => hasstou
           /\ ~({"append", "skip"} \subseteq o)
           /\ list # <<>> \/ ("tagged" \in o /\ ltags # <<>>)
           /\ mask' = m
           /\ opt' = IF "nohup" \in o THEN NohupOptions(o2) ELSE o2
           /\ flags' = [f \in FlagNames |-> "force" \in o /\ f \in {"batch", "owbatch", "delbatch"}]
           /\ frames' = <<Frame(list, IF "output" \in o THEN <<"out">> ELSE <<>>, FALSE)>>
  /\ lastmk' = PathAtStart
  /\ pc' = "loop" /\ consent' = {} /\ refused' = {} /\ sent' = {}
  /\ UNCHANGED <<cur, cache, ltags, localfs, server, sighup, connected, drops>>

\* The next item of the innermost list; nothing leaves the list.
NextFile == frames' = [frames EXCEPT ![Len(frames)].todo = Tail(@)]

\* The end of cmd_put(), or of yafc after a nohup transfer.
Leave_OpenList(exits) ==
  /\ pc' = IF exits THEN "exited" ELSE "prompt"
  /\ cur' = NoCur /\ opt' = {} /\ mask' = {} /\ UNCHANGED <<frames, flags>>
Leave(exits) ==
  /\ pc' = IF exits THEN "exited" ELSE "prompt"
  /\ frames' = <<>> /\ cur' = NoCur /\ opt' = {} /\ mask' = {}
  /\ flags' = [f \in FlagNames |-> FALSE]

\* A putfiles() returns.  The tagged files come after the others, and are
\* untagged at the end, sent or not.  exe_cmd() then flushes the cache.
Return ==
  /\ pc = "loop"
  /\ Top.todo = <<>> \/ flags["quit"] \/ ~connected
  /\ \/ /\ Len(frames) > 1
        /\ frames' = [SubSeq(frames, 1, Len(frames) - 1) EXCEPT ![Len(frames) - 1].todo = Tail(@)]
        /\ UNCHANGED <<pc, cur, opt, mask, flags, ltags, cache, consent, refused, sent>>
     \/ /\ Len(frames) = 1 /\ ~Top.tags /\ "tagged" \in opt
        /\ frames' = <<Frame(ltags, Top.out, TRUE)>>
        /\ UNCHANGED <<pc, cur, opt, mask, flags, ltags, cache, consent, refused, sent>>
     \/ /\ Len(frames) = 1 /\ (Top.tags \/ "tagged" \notin opt)
        /\ ltags' = IF Top.tags THEN <<>> ELSE ltags
        /\ Leave(sighup \/ "nohup" \in opt)
        /\ listings' = Flushed /\ marked' = {} /\ consent' = {} /\ refused' = {} /\ sent' = {}
  /\ UNCHANGED <<lastmk, localfs, server, env>>

\* putfiles(): the next item; directories become lists of their own.
NextItem ==
  /\ pc = "loop" /\ Top.todo # <<>> /\ ~flags["quit"] /\ connected
  /\ opt' = HupOptions(opt)
  /\ \/ /\ Kind[Item] = "dot" \/ Item \in Ignored
        /\ NextFile /\ UNCHANGED <<pc, cur, flags>>
     \/ /\ Kind[Item] # "dot" /\ Item \notin Ignored
        /\ \E a \in IF "interactive" \in opt' /\ ~flags["batch"]
                    THEN Answers({"yes", "no", "cancel", "all"}, "yes") ELSE {"yes"} :
             /\ flags' = [flags EXCEPT !["quit"] = @ \/ a = "cancel", !["batch"] = @ \/ a = "all"]
             /\ LET out == IF "parents" \in opt THEN Top.out ELSE Append(Top.out, Name[Item])
                    inside == Only(Children[Item], localfs) IN
                CASE a = "cancel" -> UNCHANGED <<pc, cur, frames>>
                  [] a = "no" \/ (a # "cancel" /\ (Item \notin localfs \/ Kind[Item] = "other"))
                       -> NextFile /\ UNCHANGED <<pc, cur>>
                  [] a \in {"yes", "all"} /\ Item \in localfs /\ Kind[Item] = "dir"
                       -> /\ IF "recursive" \in opt /\ Item \notin mask /\ inside # <<>>
                             THEN frames' = Append(frames, Frame(inside, out, FALSE))
                             ELSE NextFile
                          /\ UNCHANGED <<pc, cur>>
                  [] a \in {"yes", "all"} /\ Item \in localfs /\ Kind[Item] = "reg"
                       -> pc' = "mkpath" /\ cur' = [NoCur EXCEPT !.src = Item] /\ UNCHANGED frames
  /\ UNCHANGED <<mask, lastmk, cache, ltags, localfs, server, consent, refused, sent, env>>

-----------------------------------------------------------------------------
(* putfile(): one file.                                                    *)

PutfileReturns == pc' = "next" /\ UNCHANGED cur

\* The parts of the path made last.
Known == IF lastmk = NoPath THEN {<<>>} ELSE Above(lastmk)

\* ftp_mkpath(): MKD for every part that is neither part of the path made
\* last nor of the current directory; made if the last of them succeeded.  With
\* ssh there is no reply code to tell (it stays what it was): they all count.
MakePath ==
  /\ pc = "mkpath"
  /\ IF cur.src \in mask
     THEN PutfileReturns /\ UNCHANGED <<lastmk, dirs, marked, refused>>
     ELSE LET d == Destination(Top.out, cur.src)
              asked == Above(d.dir) \ (Known \cup {<<>>})
          IN \E allowed \in BOOLEAN :
               LET made == IF allowed /\ connected THEN asked \ dirs ELSE {} IN
               /\ dirs' = dirs \cup made
               /\ marked' = marked \cup {Parent(x) : x \in made}
               /\ refused' = refused \cup (asked \ dirs')
               /\ lastmk' = IF d.dir \in Known THEN lastmk ELSE d.dir
               /\ cur' = [cur EXCEPT !.dest = d, !.made = IF Ssh THEN asked # {} ELSE d.dir \in made]
               /\ pc' = "exists"
  /\ UNCHANGED <<frames, opt, mask, flags, listings, ltags, localfs, files, hasstou, consent, sent, env>>

\* Does the target exist?  ftp_get_file() looks in the listing of its
\* directory, cached or read now.  It is not asked after MKD or --force.
Looked_OnlyCached ==
  IF cur.dest.dir \in DOMAIN listings THEN listings[cur.dest.dir] ELSE {}
Looked == IF cur.made \/ opt \cap {"unique", "force"} # {} THEN {}
          ELSE IF cur.dest.dir \in DOMAIN listings THEN listings[cur.dest.dir]
          ELSE InDir(cur.dest.dir)

Send(how, agreed) ==
  /\ pc' = "send"
  /\ cur' = [cur EXCEPT !.how = IF "tryunique" \in opt THEN "tryunique"
                                ELSE IF "unique" \in opt THEN "unique"
                                ELSE IF "resume" \in opt THEN "resume" ELSE how]
  /\ consent' = IF agreed THEN consent \cup {cur.dest} ELSE consent

Exists ==
  /\ pc = "exists"
  /\ LET there == cur.dest \in Looked IN
     /\ listings' = IF cur.made \/ opt \cap {"unique", "force"} # {} \/ cur.dest.dir \notin dirs
                       \/ cur.dest.dir \in DOMAIN listings \/ ~connected
                    THEN listings
                    ELSE [d \in DOMAIN listings \cup {cur.dest.dir} |->
                            IF d = cur.dest.dir THEN InDir(d) ELSE listings[d]]
     /\ CASE "append" \in opt -> Send("append", TRUE)
          [] "append" \notin opt /\ ~there -> Send("normal", flags["owbatch"] \/ "resume" \in opt)
          [] there /\ "append" \notin opt /\ "skip" \in opt -> PutfileReturns /\ UNCHANGED consent
          [] there /\ opt \cap {"append", "skip"} = {} /\ "newer" \in opt
               -> (PutfileReturns /\ UNCHANGED consent) \/ Send("normal", TRUE)
          [] there /\ opt \cap {"append", "skip", "newer"} = {} /\ "resume" \in opt
               -> Send("resume", TRUE)
          [] there /\ opt \cap {"append", "skip", "newer", "resume"} = {}
               -> IF flags["owbatch"] THEN Send("normal", TRUE)
                  ELSE pc' = "over" /\ UNCHANGED <<cur, consent>>
  /\ UNCHANGED <<frames, opt, mask, flags, lastmk, marked, ltags, localfs, server, refused, sent, env>>

\* "Remote file exists: overwrite?"
AskOverwrite ==
  /\ pc = "over"
  /\ \E a \in Answers({"yes", "no", "cancel", "all", "unique", "resume"}, "resume") :
       /\ flags' = [flags EXCEPT !["quit"] = @ \/ a = "cancel", !["owbatch"] = @ \/ a = "all"]
       /\ IF a \in {"no", "cancel"} THEN PutfileReturns /\ UNCHANGED consent
          ELSE /\ pc' = "send"
               /\ cur' = [cur EXCEPT !.how = IF "tryunique" \in opt THEN "tryunique"
                                             ELSE IF a \in {"unique", "resume"} THEN a ELSE "normal"]
               /\ consent' = IF sighup \/ a = "unique" THEN consent ELSE consent \cup {cur.dest}
  /\ UNCHANGED <<frames, opt, mask, lastmk, cache, ltags, localfs, server, refused, sent, env>>

\* The name the server stores under: after STOU one that is free.
Stored(how) ==
  LET taken == {f.n : f \in {g \in DOMAIN files : g.dir = cur.dest.dir /\ g.name = cur.dest.name}}
  IN  IF how \notin {"unique", "tryunique"} THEN cur.dest
      ELSE [cur.dest EXCEPT !.n = CHOOSE k \in 0 .. Cardinality(taken) : k \notin taken]

\* What file f holds after item i was sent to it.
Sent(f, i, how, whole) ==
  LET old  == IF f \in DOMAIN files THEN files[f] ELSE Holding({}, NoItem)
      keep == IF how = "append" THEN old.has ELSE {}
  IN  IF how = "resume" /\ old.has \cup {old.part} \notin {{NoItem}, {i}, {i, NoItem}}
      THEN Holding({}, NoItem)
      ELSE IF whole \/ (how = "resume" /\ i \in old.has) THEN Holding(keep \cup {i}, NoItem)
      ELSE Holding(keep, i)

\* ftp_send(): STOU falls back to STOR if the server does not know it and it
\* was not the user who asked for it.  An upload that SIGINT or a local error
\* ended counts as a success; one that ended in an error reply does not.
UploadResult_Deaf(whole, aborted) == TRUE
UploadResult(whole, aborted) == whole \/ aborted

Upload ==
  /\ pc = "send"
  /\ LET how == IF cur.how = "tryunique" /\ (~hasstou \/ ~ServerStou) THEN "normal" ELSE cur.how
         f == Stored(how) IN
     /\ hasstou' = (hasstou /\ (cur.how \in {"unique", "tryunique"} => ServerStou))
     /\ \/ PutfileReturns /\ UNCHANGED <<files, marked, flags, cur, sent>>     \* refused
        \/ /\ connected /\ cur.dest.dir \in dirs /\ (how = "unique" => hasstou /\ ServerStou)
           /\ \E whole, aborted, intr \in BOOLEAN :
                /\ whole => ~aborted
                /\ intr \/ aborted => AbortDelete \/ "delete" \notin opt
                /\ files' = [g \in DOMAIN files \cup {f} |->
                               IF g = f THEN Sent(f, cur.src, how, whole) ELSE files[g]]
                /\ marked' = marked \cup {cur.dest.dir} /\ sent' = sent \cup {f}
                /\ flags' = [flags EXCEPT !["intr"] = @ \/ (intr /\ ~sighup)]
                /\ cur' = [cur EXCEPT !.dest = f]
                /\ pc' = IF UploadResult(whole, aborted) THEN "done" ELSE "next"
  /\ UNCHANGED <<frames, opt, mask, lastmk, listings, ltags, localfs, dirs, consent, refused, env>>

\* The rest of a successful putfile(): the local file may be deleted.
AfterUpload ==
  /\ pc = "done"
  /\ \E a \in IF "delete" \notin opt THEN {"no"}
              ELSE IF "force" \in opt \/ flags["delbatch"] THEN {"yes"}
              ELSE Answers({"yes", "no", "cancel", "all"}, "yes") :
       /\ flags' = [flags EXCEPT !["delbatch"] = @ \/ a = "all", !["quit"] = @ \/ a = "cancel"]
       /\ localfs' \in IF a \in {"yes", "all"} THEN {localfs, localfs \ {cur.src}} ELSE {localfs}
  /\ PutfileReturns
  /\ UNCHANGED <<frames, opt, mask, lastmk, cache, ltags, server, consent, refused, sent, env>>

\* Back in putfiles(): after SIGINT the user is asked whether to go on.
AfterFile ==
  /\ pc = "next"
  /\ NextFile
  /\ \E a \in IF flags["intr"] /\ Tail(Top.todo) # <<>> /\ ~flags["quit"] /\ connected /\ ~sighup
              THEN {"yes", "no"} ELSE {"yes"} :
       flags' = [flags EXCEPT !["intr"] = FALSE, !["quit"] = @ \/ a = "no"]
  /\ pc' = "loop" /\ cur' = NoCur
  /\ UNCHANGED <<opt, mask, lastmk, cache, ltags, localfs, server, consent, refused, sent, env>>

-----------------------------------------------------------------------------
(* What happens meanwhile.                                                 *)

\* SIGHUP during the command; at the prompt it ends yafc.
Sighup ==
  /\ ~sighup /\ pc \in HupAt
  /\ sighup' = TRUE
  /\ pc' = IF pc = "prompt" THEN "exited" ELSE pc
  /\ UNCHANGED <<frames, cur, opt, mask, flags, lastmk, cache, ltags, localfs, server, consent,
                 refused, sent, connected, puts, drops>>

\* The session is lost, and perhaps opened again: cache and memory are gone.
Lose ==
  /\ pc \in {"mkpath", "exists", "over", "send"} /\ connected /\ drops < MaxDrops
  /\ drops' = drops + 1 /\ connected' \in BOOLEAN
  /\ lastmk' = NoPath /\ listings' = [d \in {} |-> {}] /\ marked' = {}
  /\ UNCHANGED <<pc, frames, cur, opt, mask, flags, ltags, localfs, server, consent, refused,
                 sent, sighup, puts>>

\* Between two commands a directory is removed (by rmdir, or somebody else).
Vanish ==
  /\ pc = "prompt"
  /\ \E d \in dirs \ RemoteDirs :
       /\ \A x \in dirs \ {d} : d \notin Above(x)
       /\ InDir(d) = {}
       /\ dirs' = dirs \ {d}
       /\ listings' = [x \in DOMAIN listings \ {d, Parent(d)} |-> listings[x]]
  /\ UNCHANGED <<pc, frames, cur, opt, mask, flags, lastmk, marked, ltags, localfs, files, hasstou,
                 consent, refused, sent, env>>

Stopped == pc = "exited" \/ (pc = "prompt" /\ (~connected \/ puts = MaxPuts))
Rest == Stopped /\ UNCHANGED vars

ClientStep == Return \/ NextItem \/ MakePath \/ Exists \/ AskOverwrite \/ Upload \/ AfterUpload
              \/ AfterFile
Next == CmdPut \/ ClientStep \/ Sighup \/ Lose \/ Vanish \/ Rest
Spec == Init /\ [][Next]_vars

-----------------------------------------------------------------------------
(* Properties.                                                             *)

TypeOK ==
  /\ pc \in {"prompt", "loop", "mkpath", "exists", "over", "send", "done", "next", "exited"}
  /\ \A k \in DOMAIN frames : frames[k].todo \in Seq(Items) /\ frames[k].tags \in BOOLEAN
  /\ cur.src \in Items \cup {NoItem}
  /\ flags \in [FlagNames -> BOOLEAN] /\ {sighup, connected, hasstou} \subseteq BOOLEAN
  /\ ltags \in Seq(Items) /\ localfs \subseteq Items
  /\ \A f \in DOMAIN files : files[f].has \subseteq Items \cup {Other} /\ f.dir \in dirs
  /\ (pc \in {"prompt", "exited"}) = (frames = <<>>)

\* "If the destination file already exists, ... you will be prompted what to
\* do" (put's manual): what a remote file holds whole is lost only if the user
\* agreed to it.
RemoteKept ==
  [][\A f \in DOMAIN files : \A x \in files[f].has :
       x \in files'[f].has \/ f \in consent]_vars

\* --delete-after deletes a local file only while the remote copy just made
\* holds it whole.  (A resumed file is trusted to be the beginning of it.)
DeleteOnlySent ==
  [][\A i \in localfs \ localfs' :
       cur.how = "resume" \/ (cur.dest \in DOMAIN files /\ i \in files[cur.dest].has)]_vars

\* No upload is tried into a directory that is missing, unless the server has
\* refused to make it in this command, or the session was lost since.
PathMade ==
  pc = "send" => cur.dest.dir \in dirs \/ cur.dest.dir \in refused \/ drops > 0
=============================================================================
