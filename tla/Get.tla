-------------------------------- MODULE Get --------------------------------
(***************************************************************************)
(* The get command (src/get.c, with src/transfer.c, src/tag.c and the part *)
(* of src/ftp/ftpsigs.c that handles SIGHUP): a list of remote files, or   *)
(* the tagged ones, is received into local files.                          *)
(*                                                                         *)
(* getfiles() walks a list and calls itself for directories; `frames` is   *)
(* its C stack.  For each file it follows links, decides about an existing *)
(* local file (getfile()), transfers, and deletes the remote file if told  *)
(* to.  Between any two of these steps the connection may be lost, SIGHUP  *)
(* may turn the command into a nohup transfer, and SIGINT may end a        *)
(* transfer.                                                               *)
(*                                                                         *)
(* ftp_getfile() itself is modelled in FtpSession; here it ends well or    *)
(* fails, and a local file is the set of remote files it holds whole.      *)
(***************************************************************************)
EXTENDS FiniteSets, Linklist

CONSTANTS
  Items,        \* remote files, links and directories
  Kind,         \* "reg", "link", "dir", "dot" or "other"
  Name, DirName,\* last part of the remote path, and the parts before it
  Target,       \* what a link points to
  Children,     \* what a directory holds
  TextPrefix,   \* pairs <<p, q>>: the path of q is, as a text, a prefix of p's
  First,        \* items that match transfer_first
  Lists,        \* what the arguments of get may expand to
  Tagged,       \* initial tag lists
  OptionSets,   \* options a get may be given
  Masks,        \* sets of items a --mask or --dir-mask may leave out
  UserFiles,    \* local files that are there before
  Drops,        \* when may the session be lost: subset of {"plain", "tagged", "linked"}
  HupAt,        \* where may SIGHUP arrive
  User, NoItem, \* contents of the user's own files; no item
  MaxGets, MaxDrops

ASSUMPTION GetAssumption ==
  /\ Kind \in [Items -> {"reg", "link", "dir", "dot", "other"}]
  /\ Target \in [Items -> Items] /\ Children \in [Items -> Seq(Items)]
  /\ Name \in [Items -> STRING] /\ DirName \in [Items -> Seq(STRING)]
  /\ Lists \subseteq Seq(Items) /\ Tagged \subseteq Seq(Items)
  /\ UserFiles \subseteq [path : Seq(STRING), n : Nat] /\ IsFiniteSet(UserFiles)
  /\ TextPrefix \subseteq Items \X Items
  /\ User \notin Items /\ NoItem \notin Items
  /\ MaxGets \in Nat /\ MaxDrops \in Nat

VARIABLES
  pc,        \* where getfiles() and getfile() are, or "prompt", "exited", "crash"
  frames,    \* the activations of getfiles(): what is left of the list, and where to
  cur,       \* the locals of the running getfile()
  opt, mask, \* options and masks of the command
  flags,     \* get_quit, get_batch, get_owbatch, get_delbatch, gvInterrupted
  sighup,    \* gvSighupReceived
  connected, \* ftp_connected()
  taglist,   \* ftp->taglist
  remote,    \* the items the server has
  local,     \* the local files
  consent,   \* history: local files the user has agreed to overwrite or change
  tagged0,   \* history: what was tagged at first
  dealt,     \* history: items received, or refused by the user or an option
  gets, drops

files == <<remote, local>>
env == <<sighup, connected, tagged0, gets, drops>>
vars == <<pc, frames, cur, opt, mask, flags, taglist, consent, dealt, files, env>>

Top == frames[Len(frames)]
Item == Head(Top.todo)
FlagNames == {"quit", "batch", "owbatch", "delbatch", "intr"}
Pcs == {"prompt", "loop", "resolve", "file", "over", "recv", "done", "unlink", "next",
        "exited", "crash"}

\* A local file: the remote files it holds whole, and one it holds a part of.
Holding(whole, part) == [has |-> whole, part |-> part]
NoCur == [src |-> NoItem, fp |-> NoItem, cached |-> FALSE, dest |-> [path |-> <<>>, n |-> 0],
          how |-> "normal", ok |-> FALSE]

Init ==
  /\ pc = "prompt" /\ frames = <<>> /\ cur = NoCur /\ opt = {} /\ mask = {}
  /\ flags = [f \in FlagNames |-> FALSE] /\ sighup = FALSE
  /\ connected = TRUE /\ taglist \in Tagged /\ remote = Items
  /\ local = [d \in UserFiles |-> Holding({User}, NoItem)]
  /\ consent = {} /\ tagged0 = ToSet(taglist) /\ dealt = {} /\ gets = 0 /\ drops = 0

-----------------------------------------------------------------------------
(* Lists, options and names.                                               *)

\* list_sort() with get_sort_func(): the transfer_first items come first.
Sorted(s) == Only(s, First) \o Only(s, Items \ First)

Frame(list, out, tags) == [todo |-> Sorted(list), out |-> out, tags |-> tags]

\* What the options become in a nohup transfer, and after SIGHUP.
NohupOptions(o) == (IF o \cap {"force", "resume"} # {} THEN o ELSE o \cup {"unique"}) \cup {"force"}
HupOptions(o) == IF sighup THEN (IF "resume" \in o THEN o ELSE o \cup {"unique"}) \cup {"force"}
                 ELSE o

\* ask(): the user's answer; the default once there is no terminal.
Answers(all, default) == IF sighup \/ "nohup" \in opt THEN {default} ELSE all

\* The name getfile() gives the local copy.
Destination(out, i, name) ==
  [path |-> IF "parents" \in opt THEN out \o DirName[i] \o <<name>>
            ELSE IF "ofile" \in opt THEN out ELSE Append(out, name),
   n |-> 0]

\* make_unique_filename(): name, name.1, name.2, ...
Unique_Given(d) == d
Unique(d) ==
  LET free == {k \in 0 .. Cardinality(DOMAIN local) : [d EXCEPT !.n = k] \notin DOMAIN local}
  IN  [d EXCEPT !.n = CHOOSE k \in free : \A j \in free : k <= j]

\* What is in the local file after item i was received into it.
Received(d, i, how, whole) ==
  LET old  == IF d \in DOMAIN local THEN local[d] ELSE Holding({}, NoItem)
      keep == IF how = "append" THEN old.has ELSE {}
  IN  IF how = "resume" /\ old.has \cup {old.part} \notin {{NoItem}, {i}, {i, NoItem}}
      THEN Holding({}, NoItem)    \* a piece of i behind something else
      ELSE IF whole \/ (how = "resume" /\ i \in old.has) THEN Holding(keep \cup {i}, NoItem)
      ELSE Holding(keep, i)

WithFile(d, content) ==
  [x \in DOMAIN local \cup {d} |-> IF x = d THEN content ELSE local[x]]

-----------------------------------------------------------------------------
(* cmd_get() and the way out of it.                                        *)

Finish_OpenList(exits) ==
  /\ pc' = IF exits THEN "exited" ELSE "prompt"
  /\ cur' = NoCur /\ mask' = {} /\ opt' = {} /\ consent' = {} /\ UNCHANGED <<frames, flags>>
Finish(exits) ==
  /\ pc' = IF exits THEN "exited" ELSE "prompt"
  /\ frames' = <<>> /\ cur' = NoCur /\ mask' = {} /\ opt' = {}
  /\ flags' = [f \in FlagNames |-> FALSE] /\ consent' = {}

\* cmd_get(): options, the list the arguments expand to, the flags of the
\* command.  --output names a file when one file is to be received.
CmdGet ==
  /\ pc = "prompt" /\ connected /\ gets < MaxGets
  /\ gets' = gets + 1
  /\ \E o \in OptionSets, list \in Lists, m \in Masks :
       LET number == Len(list) + IF "tagged" \in o THEN Len(taglist) ELSE 0
           one == number = 1 /\ "recursive" \notin o
           o1 == IF "force" \in o THEN o \ {"interactive"} ELSE o
           o2 == IF "output" \in o /\ one THEN o1 \cup {"ofile"} ELSE o1
           out == IF "output" \in o THEN <<"out">> ELSE <<>>
       IN  /\ number > 0
           /\ mask' = m
           /\ opt' = IF "nohup" \in o THEN NohupOptions(o2) ELSE o2
           /\ flags' = [f \in FlagNames |-> "force" \in o /\ f \in {"batch", "owbatch", "delbatch"}]
           /\ frames' = IF list # <<>> THEN <<Frame(list, out, FALSE)>>
                        ELSE <<Frame(taglist, out, TRUE)>>
           /\ taglist' = IF list # <<>> THEN taglist ELSE Sorted(taglist)
  /\ pc' = "loop" /\ consent' = {}
  /\ UNCHANGED <<cur, dealt, files, sighup, connected, tagged0, drops>>

\* transfer_nextfile() on the innermost list.
NextFile_Stay(remove) ==
  /\ frames' = IF remove THEN [frames EXCEPT ![Len(frames)].todo = Tail(@)] ELSE frames
  /\ taglist' = IF remove /\ Top.tags THEN Without(taglist, Item) ELSE taglist
NextFile_Remove(remove) ==
  /\ frames' = [frames EXCEPT ![Len(frames)].todo = Tail(@)]
  /\ taglist' = IF Top.tags THEN Without(taglist, Item) ELSE taglist

NextFile(remove) ==
  /\ frames' = [frames EXCEPT ![Len(frames)].todo = Tail(@)]
  /\ taglist' = IF remove /\ Top.tags THEN Without(taglist, Item) ELSE taglist

\* A getfiles() returns: at the end of its list, when the user has had enough,
\* or without connection.  Its caller, if it is getfiles() too, is done with
\* the directory whether or not all of it was received.
Return ==
  /\ pc = "loop"
  /\ Top.todo = <<>> \/ flags["quit"] \/ ~connected
  /\ \/ /\ Len(frames) > 1
        /\ LET outer == SubSeq(frames, 1, Len(frames) - 1)
               l == Len(outer) IN
           /\ frames' = [outer EXCEPT ![l].todo = Tail(@)]
           /\ taglist' = IF outer[l].tags
                         THEN Without(taglist, Head(outer[l].todo)) ELSE taglist
        /\ UNCHANGED <<pc, cur, opt, mask, flags, consent>>
     \/ /\ Len(frames) = 1 /\ ~Top.tags /\ "tagged" \in opt
        /\ frames' = <<Frame(taglist, Top.out, TRUE)>>
        /\ taglist' = Sorted(taglist)
        /\ UNCHANGED <<pc, cur, opt, mask, flags, consent>>
     \/ /\ Len(frames) = 1 /\ (Top.tags \/ "tagged" \notin opt)
        /\ Finish(sighup \/ "nohup" \in opt)
        /\ UNCHANGED taglist
  /\ UNCHANGED <<dealt, files, env>>

\* The next item: what SIGHUP changes, dot directories, the question "Get?".
NextItem ==
  /\ pc = "loop" /\ Top.todo # <<>> /\ ~flags["quit"] /\ connected
  /\ opt' = HupOptions(opt)
  /\ \/ /\ Kind[Item] = "dot"
        /\ NextFile(TRUE) /\ dealt' = dealt \cup {Item} /\ UNCHANGED <<pc, cur, flags>>
     \/ /\ Kind[Item] # "dot"
        /\ \E a \in IF "interactive" \in opt' /\ ~flags["batch"]
                    THEN Answers({"yes", "no", "cancel", "all"}, "yes") ELSE {"yes"} :
             \/ /\ a = "no" /\ NextFile(TRUE) /\ dealt' = dealt \cup {Item}
                /\ UNCHANGED <<pc, cur, flags>>
             \/ /\ a = "cancel" /\ flags' = [flags EXCEPT !["quit"] = TRUE]
                /\ UNCHANGED <<pc, cur, frames, taglist, dealt>>
             \/ /\ a \in {"yes", "all"}
                /\ flags' = [flags EXCEPT !["batch"] = @ \/ a = "all"]
                /\ cur' = [NoCur EXCEPT !.src = Item, !.fp = Item]
                /\ pc' = "resolve" /\ UNCHANGED <<frames, taglist, dealt>>
  /\ UNCHANGED <<mask, consent, files, env>>

-----------------------------------------------------------------------------
(* Links and directories.                                                  *)

\* The entry for the item is done without a transfer.
Pass == NextFile(TRUE) /\ pc' = "loop" /\ cur' = NoCur /\ dealt' = dealt \cup {cur.src}

\* A link: taken as it is (--no-dereference, or a target the server does not
\* list), skipped as circular, or replaced by the cache's entry of its target.
Circular(p, q) == p = q \/ <<p, q>> \in TextPrefix

FollowLink ==
  /\ pc = "resolve" /\ Kind[cur.fp] = "link"
  /\ LET to == Target[cur.fp] IN
     IF "nodereference" \in opt \/ to \notin remote
     THEN pc' = "file" /\ UNCHANGED <<cur, frames, taglist, dealt>>
     ELSE IF Circular(cur.src, to) THEN Pass
     ELSE cur' = [cur EXCEPT !.fp = to, !.cached = TRUE]
          /\ UNCHANGED <<pc, frames, taglist, dealt>>
  /\ UNCHANGED <<opt, mask, flags, consent, files, env>>

\* A directory: its files are a list of their own, below a directory of its
\* name; it leaves the list whatever becomes of them.
Directory ==
  /\ pc = "resolve" /\ Kind[cur.fp] = "dir"
  /\ LET inside == Only(Children[cur.fp], remote)
         out == IF "parents" \in opt THEN Top.out ELSE Append(Top.out, Name[cur.src])
     IN  IF "recursive" \in opt /\ cur.fp \notin mask /\ inside # <<>>
         THEN /\ frames' = Append(frames, Frame(inside, out, FALSE))
              /\ pc' = "loop" /\ cur' = NoCur /\ UNCHANGED <<taglist, dealt>>
         ELSE Pass
  /\ UNCHANGED <<opt, mask, flags, consent, files, env>>

NotAFile ==
  /\ pc = "resolve" /\ Kind[cur.fp] \notin {"link", "dir"}
  /\ IF Kind[cur.fp] = "reg" THEN pc' = "file" /\ UNCHANGED <<cur, frames, taglist, dealt>> ELSE Pass
  /\ UNCHANGED <<opt, mask, flags, consent, files, env>>

-----------------------------------------------------------------------------
(* getfile(): one file.                                                    *)

GetfileReturns(ok) == pc' = "next" /\ cur' = [cur EXCEPT !.ok = ok]

\* The user or an option does not want the file: that counts as success.
Refuse == GetfileReturns(TRUE) /\ dealt' = dealt \cup {cur.src} /\ UNCHANGED consent

\* The file is received into d.  The user has agreed to what that does to a
\* file that is there, by an option or an answer, if `agreed`.
Receive(d, how, agreed) ==
  /\ pc' = "recv" /\ cur' = [cur EXCEPT !.dest = d, !.how = how]
  /\ consent' = IF agreed THEN consent \cup {d} ELSE consent
  /\ UNCHANGED dealt

\* getfile() up to the question about an existing file.  After SIGHUP, and
\* when the user answered "all", it is overwritten without asking.
Getfile ==
  /\ pc = "file"
  /\ LET d == Destination(Top.out, cur.fp, Name[cur.src]) IN
     \/ /\ cur.fp \in mask /\ Refuse
     \/ /\ cur.fp \notin mask    \* make_path() failed
        /\ GetfileReturns(FALSE) /\ UNCHANGED <<consent, dealt>>
     \/ /\ cur.fp \notin mask /\ d \notin DOMAIN local
        /\ Receive(d, "normal", FALSE)
     \/ /\ cur.fp \notin mask /\ d \in DOMAIN local
        /\ CASE "skip" \in opt -> Refuse
             [] "skip" \notin opt /\ "unique" \in opt
                  -> Receive(Unique(d), IF "resume" \in opt THEN "resume" ELSE "normal", FALSE)
             [] opt \cap {"skip", "unique"} = {} /\ "append" \in opt
                  -> Receive(d, IF "resume" \in opt THEN "resume" ELSE "append", TRUE)
             [] opt \cap {"skip", "unique", "append"} = {} /\ "newer" \in opt
                  -> \/ Refuse   \* the local file is newer
                     \/ Receive(d, IF "resume" \in opt THEN "resume" ELSE "normal", TRUE)
             [] opt \cap {"skip", "unique", "append", "newer"} = {} /\ "resume" \in opt
                  -> Receive(d, "resume", TRUE)
             [] opt \cap {"skip", "unique", "append", "newer", "resume"} = {}
                  -> IF flags["owbatch"] \/ sighup THEN Receive(d, "normal", flags["owbatch"])
                     ELSE pc' = "over" /\ cur' = [cur EXCEPT !.dest = d] /\ UNCHANGED <<consent, dealt>>
  /\ UNCHANGED <<frames, opt, mask, flags, taglist, files, env>>

\* "Local file exists: overwrite?"  Without a terminal the answer is to resume.
AskOverwrite ==
  /\ pc = "over"
  /\ \E a \in Answers({"yes", "no", "cancel", "all", "unique", "resume"}, "resume") :
       \/ /\ a \in {"no", "cancel"}
          /\ Refuse
          /\ flags' = [flags EXCEPT !["quit"] = @ \/ a = "cancel"]
       \/ /\ a = "unique"
          /\ Receive(Unique(cur.dest), "normal", FALSE) /\ UNCHANGED flags
       \/ /\ a \in {"yes", "all", "resume"}
          /\ Receive(cur.dest, IF a = "resume" THEN "resume" ELSE "normal", ~sighup)
          /\ flags' = [flags EXCEPT !["owbatch"] = @ \/ a = "all"]
  /\ UNCHANGED <<frames, opt, mask, taglist, files, env>>

\* ftp_do_receive(): a transfer succeeded if it ended well and whole.
TransferResult_Deaf(whole, opened) == opened
TransferResult(whole, opened) == whole

\* do_the_get(): the transfer ends well; or it fails, before or after the
\* local file was opened; SIGINT may have been the cause.  A link that is not
\* followed is made anew.
Transfer ==
  /\ pc = "recv"
  /\ \/ /\ Kind[cur.fp] = "link" /\ "nodereference" \in opt
        /\ local' = WithFile(cur.dest, Holding({cur.fp}, NoItem))
        /\ GetfileReturns(TRUE) /\ dealt' = dealt \cup {cur.src} /\ UNCHANGED flags
     \/ /\ ~(Kind[cur.fp] = "link" /\ "nodereference" \in opt)
        /\ \E whole, opened, intr \in BOOLEAN :
             /\ whole => opened /\ cur.fp \in remote /\ connected
             /\ opened => connected
             /\ local' = IF opened
                         THEN WithFile(cur.dest, Received(cur.dest, cur.fp, cur.how, whole))
                         ELSE local
             /\ flags' = [flags EXCEPT !["intr"] = @ \/ (intr /\ ~sighup)]
             /\ dealt' = IF whole THEN dealt \cup {cur.src} ELSE dealt
             /\ IF TransferResult(whole, opened) THEN pc' = "done" /\ cur' = [cur EXCEPT !.ok = TRUE]
                ELSE GetfileReturns(FALSE)
  /\ UNCHANGED <<frames, opt, mask, taglist, remote, consent, env>>

\* The rest of a successful getfile(): attributes (which ask the server for
\* the time), and the question whether to delete the remote file.
AfterTransfer ==
  /\ pc = "done"
  /\ \/ /\ "delete" \notin opt /\ GetfileReturns(TRUE) /\ UNCHANGED flags
     \/ /\ "delete" \in opt
        /\ \E a \in IF "force" \in opt \/ flags["delbatch"] \/ sighup THEN {"yes"}
                    ELSE Answers({"yes", "no", "cancel", "all"}, "yes") :
             /\ flags' = [flags EXCEPT !["delbatch"] = @ \/ a = "all",
                                       !["quit"] = @ \/ a = "cancel"]
             /\ IF a \in {"yes", "all"} THEN pc' = "unlink" /\ UNCHANGED cur
                ELSE GetfileReturns(TRUE)
  /\ UNCHANGED <<frames, opt, mask, taglist, consent, dealt, files, env>>

\* ftp_unlink(): the file a followed link points to, not the link.
Unlink ==
  /\ pc = "unlink"
  /\ \/ connected /\ remote' = remote \ {cur.fp}
     \/ UNCHANGED remote
  /\ GetfileReturns(TRUE)
  /\ UNCHANGED <<frames, opt, mask, flags, taglist, local, consent, dealt, env>>

\* Back in getfiles(): the item leaves the list if it was dealt with; after
\* SIGINT the user is asked whether to go on.
AfterFile ==
  /\ pc = "next"
  /\ NextFile(cur.ok)
  /\ \E a \in IF flags["intr"] /\ Tail(Top.todo) # <<>> /\ ~flags["quit"] /\ connected /\ ~sighup
              THEN {"yes", "no"} ELSE {"yes"} :
       flags' = [flags EXCEPT !["intr"] = FALSE, !["quit"] = @ \/ a = "no"]
  /\ pc' = "loop" /\ cur' = NoCur
  /\ UNCHANGED <<opt, mask, consent, dealt, files, env>>

-----------------------------------------------------------------------------
(* What happens meanwhile.                                                 *)

\* SIGHUP: the transfer goes on without a terminal.  The question about an
\* existing file that is open then is answered with its default.
Sighup ==
  /\ ~sighup /\ pc \in HupAt
  /\ sighup' = TRUE
  /\ pc' = IF pc = "prompt" THEN "exited" ELSE pc
  /\ UNCHANGED <<frames, cur, opt, mask, flags, taglist, consent, dealt, files, connected, tagged0, gets, drops>>

Walking == \E k \in DOMAIN frames : frames[k].tags
Circumstance == IF Walking THEN "tagged" ELSE IF cur.cached THEN "linked" ELSE "plain"

\* The session is lost while a request waits, and perhaps opened again.
\* ftp_close() frees the tag list and the cache: a getfiles() that walks the
\* list, or a getfile() whose file is the cache's, goes on with freed memory.
Lose ==
  /\ pc \in {"resolve", "over", "recv", "done", "unlink"} /\ connected /\ drops < MaxDrops
  /\ Circumstance \in Drops
  /\ drops' = drops + 1
  /\ taglist' = <<>>
  /\ connected' \in BOOLEAN
  /\ pc' = IF Circumstance = "plain" THEN pc ELSE "crash"
  /\ UNCHANGED <<frames, cur, opt, mask, flags, consent, dealt, files, sighup, tagged0, gets>>

Stopped == pc \in {"exited", "crash"} \/ (pc = "prompt" /\ (~connected \/ gets = MaxGets))
Rest == Stopped /\ UNCHANGED vars

ClientStep == \/ Return \/ NextItem \/ FollowLink \/ Directory \/ NotAFile \/ Getfile
              \/ AskOverwrite \/ Transfer \/ AfterTransfer \/ Unlink \/ AfterFile

Next == CmdGet \/ ClientStep \/ Sighup \/ Lose \/ Rest

Spec == Init /\ [][Next]_vars
FairSpec == Spec /\ WF_vars(ClientStep)

-----------------------------------------------------------------------------
(* Properties.                                                             *)

TypeOK ==
  /\ pc \in Pcs
  /\ \A k \in DOMAIN frames :
       frames[k].todo \in Seq(Items) /\ frames[k].tags \in BOOLEAN
  /\ cur.src \in Items \cup {NoItem} /\ cur.fp \in Items \cup {NoItem}
  /\ flags \in [FlagNames -> BOOLEAN] /\ {sighup, connected} \subseteq BOOLEAN
  /\ taglist \in Seq(Items) /\ remote \subseteq Items
  /\ \A d \in DOMAIN local : local[d].has \subseteq Items \cup {User}
  /\ (pc \in {"prompt", "exited"}) = (frames = <<>>)

\* "If the destination file already exists, ... you will be prompted what to
\* do" (get's manual): what a local file holds whole, the user's own data or a
\* file received before, is lost only if the user agreed, by an answer, by
\* "all" or by an option, whenever SIGHUP comes.
LocalKept ==
  [][\A d \in DOMAIN local : \A x \in local[d].has :
       (d \in DOMAIN local' /\ x \in local'[d].has) \/ d \in consent]_vars

\* --delete-after deletes a remote file only while its local copy holds it
\* whole.  (A resumed file is trusted to be the beginning of the remote one.)
DeleteOnlyReceived ==
  [][\A i \in remote \ remote' : cur.how = "resume" \/ i \in local[cur.dest].has]_vars

\* Directories, and links that lead to one.
Closed(S) == \A i \in S : Kind[i] = "link" => Target[i] \in S
Directories ==
  {i \in Items : \A S \in SUBSET Items : i \in S /\ Closed(S) => \E j \in S : Kind[j] = "dir"}

\* A tagged file leaves the tag list only once it has been received or
\* refused; a failed one can be tried again with the next `get -t'.  (Loss of
\* the session empties the list, and a directory, or a link to one, leaves it
\* in any case.)
TagsKept ==
  drops > 0 \/ \A i \in tagged0 : i \in ToSet(taglist) \cup dealt \cup Directories

\* A get ends, or waits for the user: the walk over the list, directories and
\* links comes to an end, whatever fails.  Links that point at each other are
\* followed for ever, and are left out of the instance.
Running == pc \notin {"prompt", "exited", "crash"}
GetEnds == Running ~> ~Running
=============================================================================
