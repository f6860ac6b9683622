-------------------------------- MODULE Tags --------------------------------
(***************************************************************************)
(* Globbing and the commands that use it: tag and untag (src/tag.c), ltag  *)
(* and luntag (src/ltag.c), rm (src/rm.c), with rglob_glob() in            *)
(* src/ftp/rglob.c and lglob_glob() in src/lglob.c, and where opening,     *)
(* closing and leaving the program load and save the tag lists.            *)
(*                                                                         *)
(* A path is a sequence of names; the user stays in the home directory.    *)
(* There is one connection, and no other process uses the files of saved   *)
(* tags.  A directory is read anew whenever it is needed: what the cache   *)
(* would give instead, and how the root is looked up, are subjects of      *)
(* DirCache.  Saving to and loading from another file than the usual one   *)
(* are left out.                                                           *)
(***************************************************************************)
EXTENDS Listing, Linklist

CONSTANTS
  Home,       \* the path of the home directory
  Tree,       \* what the directories hold that may be read: sets of Files, by path
  Masks,      \* what the user may name: [text |-> a name, matches |-> a set of names]
  LocalNames, \* names of local files
  RmOptions,  \* options of rm: sets of "i", "f", "r", "t"
  Listings,   \* what ls may be shown: sequences of Files and Extras
  Loads,      \* values of load_taglist: "no", "yes", "ask"
  Systs,      \* values of gvStartupSyst
  MaxCmds, MaxTags,
  MaxGone,    \* no further rm once that many files are gone
  MaxLooks, MaxRms \* ls, and rm with arguments, are among so many first commands

\* Names of home and of the directory it is in have a directory, which is not the root.
ASSUMPTION TagsAssumption ==
  Len(Home) >= 3 /\ Home \in DOMAIN Tree /\ \A d \in DOMAIN Tree : Tree[d] \subseteq Files

VARIABLES
  loadTaglist, syst, \* the user's settings
  running, connected,
  tags,     \* ftp->taglist and gvLocalTagList: [path, kind]
  saved,    \* the files they are saved in; <<>>: there is none
  rm,       \* the rm command that runs: see NoRm
  gone,     \* paths the server has no more
  marked,   \* history: the files the user has tagged and neither untagged nor cleared
  aside,    \* history: the files of saved tags not loaded when a list was begun
  cmds

tagVars == <<tags, saved, marked, aside>>
life == <<loadTaglist, syst, running, connected>>
vars == <<listingVars, life, tagVars, rm, gone, cmds>>

Kinds == {"remote", "local"}
Item(path, kind) == [path |-> path, kind |-> kind]
Paths(list) == {list[i].path : i \in DOMAIN list}
Dot == <<".">>
DotDot == <<"..">>
NoRm == [frames |-> <<>>, opt |-> {}, phase |-> "none", quit |-> FALSE, batch |-> FALSE,
         intr |-> FALSE, targets |-> {}, agreed |-> {}]

Init ==
  /\ ListingInit
  /\ loadTaglist \in Loads /\ syst \in Systs /\ running = FALSE /\ connected = FALSE
  /\ tags = [k \in Kinds |-> <<>>] /\ saved = [k \in Kinds |-> <<>>]
  /\ rm = NoRm /\ gone = {}
  /\ marked = [k \in Kinds |-> {}] /\ aside = [k \in Kinds |-> {}]
  /\ cmds = 0

-----------------------------------------------------------------------------
(* The server's files.                                                     *)

\* What a path leads to: path_collapse().
Real(path) == FoldLeft(LAMBDA acc, n : CASE n = Dot -> acc
                                         [] n = DotDot -> IF acc = <<>> THEN acc ELSE Front(acc)
                                         [] OTHER -> Append(acc, n), <<>>, path)
FilesOf(path) == IF Real(path) \in DOMAIN Tree THEN Tree[Real(path)] ELSE {}
Contents(path) == {f \in FilesOf(path) : Real(Append(path, f.name)) \notin gone}
IsEmpty(path) == \A f \in Contents(path) : f.name \in {Dot, DotDot}
Denoted(list) == {Real(path) : path \in Paths(list)}
Style == IF mlsd THEN "mlsd" ELSE "ls"

\* rglob_glob(): items for what a directory lists; without a match the mask
\* itself, as a file.
Add(list, items) ==
  list \o SetToSeq({x \in items : x.path \notin Paths(list)})
Listed(dir) == {Item(Append(dir, e.name), e.kind) : e \in seen'.entries}
Glob(list, dir, mask, copyMask) ==
  LET found == {x \in Listed(dir) : Last(x.path) \in mask.matches}
  IN  IF found = {} /\ copyMask THEN Add(list, {Item(Append(dir, mask.text), "-")})
      ELSE Add(list, found)
Everything == [text |-> <<"*">>, matches |-> {f.name : f \in Files}]
\* A directory that is not there lists nothing.
ReadDir(path) == ReadDirectory(Style, SetToSeq(Contents(path)))

-----------------------------------------------------------------------------
(* Saving and loading.                                                     *)

Command == running /\ rm = NoRm /\ cmds < MaxCmds /\ cmds' = cmds + 1

\* save_taglist() and save_ltaglist(): an empty list is not saved.
Saved_OnlyNew(list, file) == IF list = <<>> \/ loadTaglist = "no" \/ file # <<>> THEN file ELSE list
Saved(list, file) == IF list = <<>> \/ loadTaglist = "no" THEN file ELSE list

\* ftp_get_file(): the file a path leads to, under the name its directory lists.
Known(path) ==
  LET r == Real(path) IN {Item(r, f.kind) : f \in {g \in Contents(Front(r)) : g.name = Last(r)}}

\* The items of a file's lines.  A remote one the server does not list is taken
\* for a file of that path; one that ends in a dot name gets another name.
Lines(k) ==
  IF k = "local" THEN saved[k]
  ELSE [i \in DOMAIN saved[k] |->
          LET path == saved[k][i].path
          IN  IF Known(path) = {} THEN Item(path, "-") ELSE CHOOSE x \in Known(path) : TRUE]

\* load_taglist() and load_ltaglist(): the file's lines are added to a list, and
\* the file is removed.  `always': the user has asked for it.  Of the directories
\* that are read for it, one is the last.
Load(k, always, list) ==
  /\ \E yes \in IF saved[k] = <<>> \/ (loadTaglist = "no" /\ ~always) THEN {FALSE}
                ELSE IF loadTaglist = "ask" /\ ~always THEN BOOLEAN ELSE {TRUE} :
       /\ tags' = [tags EXCEPT ![k] = IF yes THEN list \o Lines(k) ELSE list]
       /\ saved' = IF yes THEN [saved EXCEPT ![k] = <<>>] ELSE saved
       /\ aside' = [aside EXCEPT ![k] = IF yes THEN @ \ Denoted(saved[k]) ELSE @ \cup Denoted(saved[k])]
       /\ IF yes /\ k = "remote" THEN \E path \in Paths(saved[k]) : ReadDir(Front(Real(path)))
          ELSE UNCHANGED listingVars
  /\ UNCHANGED marked

\* main(): the program starts.
Start ==
  /\ ~running /\ running' = TRUE /\ cmds < MaxCmds
  /\ Load("local", FALSE, <<>>)
  /\ UNCHANGED <<loadTaglist, syst, connected, rm, gone, cmds>>

\* yafc_open(): a connection, with an empty list.
Open ==
  /\ running /\ rm = NoRm /\ cmds < MaxCmds
  /\ ~connected /\ connected' = TRUE
  /\ IF syst THEN Load("remote", FALSE, <<>>)
     ELSE /\ aside' = [aside EXCEPT !["remote"] = @ \cup Denoted(saved["remote"])]
          /\ UNCHANGED <<listingVars, tags, saved, marked>>
  /\ UNCHANGED <<loadTaglist, syst, running, rm, gone, cmds>>

\* ftp_close(): the list is saved, then freed.
CloseDown ==
  /\ saved' = IF connected THEN [saved EXCEPT !["remote"] = Saved(tags["remote"], @)] ELSE saved
  /\ tags' = [tags EXCEPT !["remote"] = <<>>]
  /\ ForgetServer /\ UNCHANGED <<seen, marked>>

Close ==
  /\ Command /\ connected /\ connected' = FALSE
  /\ CloseDown
  /\ UNCHANGED <<loadTaglist, syst, running, aside, rm, gone>>

\* The session is lost and opened again by ftp_reopen(), which loads nothing.
Reopen ==
  /\ Command /\ connected
  /\ CloseDown
  /\ aside' = [aside EXCEPT !["remote"] = @ \cup Denoted(saved'["remote"])]
  /\ UNCHANGED <<life, rm, gone>>

\* exit_yafc()
Exit ==
  /\ Command /\ running' = FALSE /\ connected' = FALSE
  /\ saved' = [saved EXCEPT !["local"] = Saved(tags["local"], @),
                            !["remote"] = IF connected THEN Saved(tags["remote"], @) ELSE @]
  /\ tags' = [k \in Kinds |-> <<>>]
  /\ ForgetServer /\ UNCHANGED <<seen, loadTaglist, syst, marked, aside, rm, gone>>

-----------------------------------------------------------------------------
(* Tagging.                                                                *)

Usable(k) == k = "local" \/ connected

Tag(mask) ==
  /\ Command /\ connected
  /\ ReadDir(Home)
  /\ tags' = [tags EXCEPT !["remote"] = Glob(@, Home, mask, TRUE)]
  /\ marked' = [marked EXCEPT !["remote"] = @ \cup Denoted(Glob(<<>>, Home, mask, TRUE))]
  /\ UNCHANGED <<life, saved, aside, rm, gone>>

\* ltag: lglob_glob() excludes "." and "..", and adds nothing without a match.
LocalTag(name) ==
  /\ Command
  /\ tags' = [tags EXCEPT !["local"] = Add(@, {Item(<<name>>, "-")})]
  /\ marked' = [marked EXCEPT !["local"] = @ \cup {<<name>>}]
  /\ UNCHANGED <<listingVars, life, saved, aside, rm, gone>>

\* untag and luntag: every item of that path.
Untag(k, path) ==
  /\ Command /\ Usable(k) /\ path \in Paths(tags[k])
  /\ tags' = [tags EXCEPT ![k] = Only(@, {x \in ToSet(@) : x.path # path})]
  /\ marked' = [marked EXCEPT ![k] = @ \ {Real(path)}]
  /\ UNCHANGED <<listingVars, life, saved, aside, rm, gone>>

\* tag --clear, --save and --load, and those of ltag.
Clear(k) ==
  /\ Command
  /\ tags' = [tags EXCEPT ![k] = <<>>] /\ marked' = [marked EXCEPT ![k] = {}]
  /\ UNCHANGED <<listingVars, life, saved, aside, rm, gone>>
SaveCommand(k) ==
  /\ Command /\ Usable(k)
  /\ saved' = [saved EXCEPT ![k] = Saved(tags[k], @)]
  /\ UNCHANGED <<listingVars, life, tags, marked, aside, rm, gone>>
LoadCommand(k) ==
  /\ Command /\ Usable(k) /\ Len(tags[k]) + Len(saved[k]) <= MaxTags
  /\ Load(k, TRUE, tags[k])
  /\ UNCHANGED <<life, rm, gone>>

-----------------------------------------------------------------------------
(* rm.                                                                     *)

Frame(todo, up) == [todo |-> todo, up |-> up]
Top == Last(rm.frames)
WithoutHead(frames) == Append(Front(frames), [Last(frames) EXCEPT !.todo = Tail(@)])
Named(paths) == {path \in paths : Last(path) \notin {Dot, DotDot}}

\* cmd_rm(): what the arguments match, then what is tagged.  --force is stronger
\* than --interactive.
RmOf(opt, list, targets) ==
  rm' = [NoRm EXCEPT !.frames = <<Frame(list, <<>>)>>, !.phase = "args", !.targets = targets,
                     !.opt = IF "f" \in opt THEN opt \ {"i"} ELSE opt, !.batch = "f" \in opt]
Rm(opt, mask) ==
  /\ Command /\ cmds < MaxRms /\ connected /\ Cardinality(gone) < MaxGone
  /\ ReadDir(Home)
  /\ RmOf(opt, Glob(<<>>, Home, mask, TRUE), Named({Append(Home, n) : n \in mask.matches}))
  /\ UNCHANGED <<life, tagVars, gone>>
RmOnlyTagged(opt) ==
  /\ Command /\ connected /\ Cardinality(gone) < MaxGone
  /\ "t" \in opt /\ tags["remote"] # <<>>
  /\ RmOf(opt, <<>>, {})
  /\ UNCHANGED <<listingVars, life, tagVars, gone>>

\* remove_files() asks about an item, and goes into a directory or removes it.
IsDotDir_Never(path) == FALSE
IsDotDir(path) == Last(path) \in {Dot, DotDot}
Walking == rm.frames # <<>> /\ ~rm.quit /\ ~rm.intr
RmItem ==
  /\ Walking /\ Top.todo # <<>>
  /\ LET x == Head(Top.todo)
         skipped == [rm EXCEPT !.frames = WithoutHead(@)]
     IN  IF IsDotDir(x.path)
         THEN rm' = skipped /\ UNCHANGED <<listingVars, gone>>
         ELSE \E a \in IF "i" \in rm.opt /\ ~rm.batch THEN {"yes", "no", "cancel", "all"} ELSE {"yes"} :
           LET agreed == [skipped EXCEPT !.batch = @ \/ a = "all", !.agreed = @ \cup {x.path}]
           IN  CASE a = "no"     -> rm' = skipped /\ UNCHANGED <<listingVars, gone>>
                 [] a = "cancel" -> rm' = [skipped EXCEPT !.quit = TRUE] /\ UNCHANGED <<listingVars, gone>>
                 [] a \in {"yes", "all"} /\ x.kind # "d" ->
                      /\ rm' = agreed
                      /\ gone' \in {gone, gone \cup {Real(x.path)}}
                      /\ UNCHANGED listingVars
                 [] a \in {"yes", "all"} /\ x.kind = "d" /\ "r" \notin rm.opt ->
                      rm' = agreed /\ UNCHANGED <<listingVars, gone>>
                 [] OTHER ->
                      /\ ReadDir(x.path)
                      /\ rm' = [agreed EXCEPT !.frames =
                                  Append(@, Frame(Glob(<<>>, x.path, Everything, FALSE), x.path))]
                      /\ UNCHANGED gone
  /\ UNCHANGED <<life, tagVars, cmds>>

\* The end of a list, or of the command: a directory whose contents were
\* walked is removed in any case, if it is empty.
RmReturn ==
  /\ rm.frames # <<>> /\ (~Walking \/ Top.todo = <<>>)
  /\ gone' \in IF Top.up = <<>> \/ ~IsEmpty(Top.up) THEN {gone} ELSE {gone, gone \cup {Real(Top.up)}}
  /\ rm' = [rm EXCEPT !.frames = Front(@)]
  /\ UNCHANGED <<listingVars, life, tagVars, cmds>>

\* cmd_rm() goes on with the tagged files, or returns.
RmTagged ==
  /\ rm.frames = <<>> /\ rm.phase = "args"
  /\ rm' = IF "t" \in rm.opt
           THEN [rm EXCEPT !.phase = "tagged", !.frames = <<Frame(tags["remote"], <<>>)>>,
                           !.targets = @ \cup Named(Paths(tags["remote"]))]
           ELSE NoRm
  /\ UNCHANGED <<listingVars, life, tagVars, gone, cmds>>
RmEnd ==
  /\ rm.frames = <<>> /\ rm.phase = "tagged"
  /\ rm' = NoRm
  /\ tags' = [tags EXCEPT !["remote"] = <<>>] /\ marked' = [marked EXCEPT !["remote"] = {}]
  /\ UNCHANGED <<listingVars, life, saved, aside, gone, cmds>>

\* SIGINT while a request waits.
RmInterrupt ==
  /\ rm.frames # <<>> /\ ~rm.intr
  /\ rm' = [rm EXCEPT !.intr = TRUE]
  /\ UNCHANGED <<listingVars, life, tagVars, gone, cmds>>

-----------------------------------------------------------------------------
(* ls: any directory, in any format.                                       *)

Ls(style, items) ==
  /\ Command /\ connected /\ cmds < MaxLooks
  /\ ReadDirectory(style, items)
  /\ UNCHANGED <<life, tagVars, rm, gone>>

Stopped == cmds = MaxCmds /\ rm = NoRm /\ UNCHANGED vars

Next ==
  \/ Start \/ Open \/ Close \/ Reopen \/ Exit
  \/ \E mask \in Masks : Tag(mask)
  \/ \E n \in LocalNames : LocalTag(n)
  \/ \E k \in Kinds : Clear(k) \/ SaveCommand(k) \/ LoadCommand(k)
  \/ \E k \in Kinds : \E path \in Paths(tags[k]) : Untag(k, path)
  \/ \E opt \in RmOptions : RmOnlyTagged(opt) \/ \E mask \in Masks : Rm(opt, mask)
  \/ RmItem \/ RmReturn \/ RmTagged \/ RmEnd \/ RmInterrupt
  \/ \E style \in Styles : \E items \in Listings : Ls(style, items)
  \/ Stopped

Spec == Init /\ [][Next]_vars

-----------------------------------------------------------------------------
(* Properties.                                                             *)

\* Whatever the listings before it looked like, a listing becomes the entries of
\* the files it shows: name, kind, size, target and time are right, for every
\* variant of LIST and for MLSD.  What counts is what stands before a blank line
\* and after the last line that is not understood; a listing has failed if that is
\* nothing.  Left out are times the client has wrong in any case (see ShownTime), and
\* two ways to be misled by a month: in the names of a DOS listing, and as the
\* owner of a file with an ISO date.
Understood(style, x) == x.kind # "junk" /\ ~(x.kind = "total" /\ style = "mlsd")
Counted(style, items) ==
  {i \in DOMAIN items : /\ items[i].kind \notin Extras
                        /\ \A j \in 1 .. i : items[j].kind # "blank"
                        /\ \A j \in i .. Len(items) :
                             \/ Understood(style, items[j])
                             \/ \E n \in i .. j : items[n].kind = "blank"}
Tells(e, shown) == e = shown \/ (shown.time = NoTime /\ [e EXCEPT !.time = NoTime] = shown)
ListingRight ==
  LET shown == {ShownEntry(seen.style, seen.items[i]) : i \in Counted(seen.style, seen.items)}
      misled(x) == \/ seen.style = "dos" /\ ToSet(x.name) \cap ToSet(MonthNames) # {}
                   \/ seen.style = "iso" /\ x.owner \in ToSet(MonthNames)
  IN  \/ \E i \in DOMAIN seen.items : misled(seen.items[i])
      \/ /\ \A e \in seen.entries : \E s \in shown : Tells(e, s)
         /\ \A s \in shown : \E e \in seen.entries : Tells(e, s)
EntriesRight == [][seen' # seen => ListingRight']_vars

\* "Tag files for later transferring or removal" (the manual's tag): what is
\* tagged and not untagged, cleared or removed stays in the list or in the file it
\* is saved in, under one name or another of the same file, through close, exit and
\* start, unless a file was there that was not loaded when the list was begun: the
\* next save replaces it.
TagsSurvive ==
  loadTaglist # "no" =>
    \A k \in Kinds : marked[k] \subseteq Denoted(tags[k]) \cup Denoted(saved[k]) \cup aside[k]

\* rm removes nothing but what its arguments match and, with --tagged, what the tag
\* list shows, dot names excepted: in directories only with --recursive, and with
\* --interactive only what the user has agreed to.
RmAsked ==
  [][\A p \in gone' \ gone :
       /\ \E t \in rm.targets : p = t \/ ("r" \in rm.opt /\ IsPrefix(t, p))
       /\ "i" \in rm.opt => rm.batch \/ rm'.batch \/ p \in {Real(q) : q \in rm'.agreed}]_vars

\* No mask of this user's matches the home directory itself but by its name ".",
\* and "." is skipped by rm: it stays.  (It fails: the tag "." is loaded again
\* under the name home has in the directory above, and is not skipped then.)
HomeStays == Home \notin gone
=============================================================================
