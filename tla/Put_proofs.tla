----------------------------- MODULE Put_proofs -----------------------------
(***************************************************************************)
(* What put keeps, for any tree of files, any lists and any options: remote *)
(* files, local files, and the directories on the way.                     *)
(***************************************************************************)
EXTENDS Put, Linklist_proofs, FiniteSetTheorems

-----------------------------------------------------------------------------
(* The inductive invariant.                                                *)

\* Where putfiles() is at the first item of the innermost list.
AtItem == {"mkpath", "exists", "over", "send", "done", "next"}
Pcs == AtItem \cup {"prompt", "loop", "exited"}

\* Parts of remote paths.  (The provers do not know that "out" is a string.)
Parts == STRING \cup {"out", ""}

Frames == Walks(Items, Parts)
RFiles == [dir : Seq(Parts), name : Parts, n : Nat]
Locals == [src : Items \cup {NoItem}, dest : RFiles, made : BOOLEAN,
           how : {"normal", "append", "resume", "unique", "tryunique"}]
Contents == [has : SUBSET (Items \cup {Other}), part : Items \cup {NoItem}]

StateInv ==
  /\ pc \in Pcs /\ cur \in Locals /\ flags \in [FlagNames -> BOOLEAN]
  /\ sighup \in BOOLEAN /\ connected \in BOOLEAN /\ hasstou \in BOOLEAN
  /\ drops \in Nat
  /\ ltags \in Seq(Items) /\ localfs \subseteq Items
  /\ pc \in AtItem => cur.src \in Items

\* The activations of putfiles(): every one but the innermost is at an item.
\* Only a command that was told where to has one file to put there.
FrameInv ==
  /\ frames \in Seq(Frames)
  /\ pc \in {"prompt", "exited"} <=> frames = <<>>
  /\ \A k \in 1 .. Len(frames) - 1 : frames[k].todo # <<>>
  /\ pc \in AtItem => Top.todo # <<>>
  /\ "ofile" \in opt => \A k \in 1 .. Len(frames) : frames[k].out # <<>>

ServerInv ==
  /\ IsFiniteSet(DOMAIN files) /\ DOMAIN files \subseteq RFiles
  /\ files \in [DOMAIN files -> Contents]
  /\ \A f \in DOMAIN files : f.dir \in dirs
  /\ <<>> \in dirs

TypeInv == StateInv /\ FrameInv /\ ServerInv

\* What ftp_mkpath() remembers to have made is there, or was refused.
PathInv ==
  \/ drops > 0
  \/ /\ pc \notin {"prompt", "exited"} /\ lastmk # NoPath => Above(lastmk) \subseteq dirs \cup refused
     /\ pc \in {"exists", "over", "send"} => cur.dest.dir \in dirs \cup refused

\* A cached listing lacks only what this command has sent since.
ListingInv ==
  /\ \A d \in DOMAIN listings : \A f \in DOMAIN files :
       f.dir = d => f \in listings[d] \/ (f \in sent /\ d \in marked)
  /\ pc = "prompt" => sent = {}

\* --force and SIGHUP leave no existing file to ask about.
ForceInv == "force" \in opt => flags["owbatch"] \/ opt \cap {"tryunique", "unique", "resume"} # {}
HupInv ==
  /\ pc \in {"mkpath", "exists"} /\ sighup => "force" \in opt
  /\ pc = "over" => ~sighup

\* A file whose directory has just been made is new.
MadeInv == pc = "exists" /\ cur.made => cur.dest \notin DOMAIN files

\* What is about to be sent harms nothing that the user has not agreed to,
\* save a file this command has sent before.
AgreedInv ==
  pc = "send" => \/ cur.how \in {"unique", "tryunique"}
                 \/ cur.dest \in consent \/ cur.dest \notin DOMAIN files
                 \/ cur.how = "normal" /\ cur.dest \in sent

SendInv == hasstou /\ ForceInv /\ HupInv /\ MadeInv /\ AgreedInv

\* Only what has been sent whole is on the way to being deleted.
WholeInv ==
  pc = "done" /\ "delete" \in opt =>
    cur.how = "resume" \/ (cur.dest \in DOMAIN files /\ cur.src \in files[cur.dest].has)

\* No two files of one command go to the same remote file.
OneEach == pc = "send" /\ cur.how = "normal" => cur.dest \notin sent

-----------------------------------------------------------------------------
(* Lists, names and files.                                                 *)

LEMMA SortedItems ==
  ASSUME NEW s \in Seq(Items)
  PROVE  Sorted(s) \in Seq(Items)
  <1>1. Only(s, First) \in Seq(Items) /\ Only(s, Items \ First) \in Seq(Items)
    BY OnlyProperties
  <1> QED
    BY <1>1, ConcatProperties DEF Sorted

LEMMA NewFrame ==
  ASSUME NEW l \in Seq(Items), NEW out \in Seq(Parts), NEW tags \in BOOLEAN
  PROVE  Frame(l, out, tags) \in Frames /\ Frame(l, out, tags).out = out
  BY SortedItems DEF Frame, Frames, Walks

LEMMA NamesTyped ==
  \A i \in Items : Name[i] \in Parts /\ DirName[i] \in Seq(Parts)
  <1>1. \A s \in Seq(STRING) : s \in Seq(Parts)
    <2>1. STRING \subseteq Parts
      BY DEF Parts
    <2> QED
      BY <2>1, SeqMonotonic
  <1> QED
    BY <1>1, PutAssumption DEF Parts

LEMMA TopFrame ==
  ASSUME frames \in Seq(Frames), frames # <<>>
  PROVE  Len(frames) \in Nat \ {0} /\ Top \in Frames
  <1>1. Len(frames) \in Nat \ {0}
    BY EmptySeq
  <1> QED
    BY <1>1, ElementOfSeq DEF Top

LEMMA NoCurTyped ==
  /\ NoCur \in Locals
  /\ \A i \in Items : [NoCur EXCEPT !.src = i] \in Locals /\ [NoCur EXCEPT !.src = i].src = i
  <1>1. NoCur.dest \in RFiles
    <2>1. "" \in Parts /\ <<>> \in Seq(Parts)
      BY DEF Parts
    <2> QED
      BY <2>1 DEF NoCur, FilePath, RFiles
  <1>2. NoCur \in Locals
    <2> DEFINE d == NoCur.dest
    <2>1. NoCur = [src |-> NoItem, dest |-> d, made |-> FALSE, how |-> "normal"]
      BY DEF NoCur
    <2> HIDE DEF d
    <2>2. d \in RFiles
      BY <1>1 DEF d
    <2> QED
      BY <2>1, <2>2 DEF Locals
  <1> QED
    BY <1>2 DEF Locals

\* The name putfile() gives the remote copy.
LEMMA DestinationTyped ==
  ASSUME TypeInv, pc \in AtItem
  PROVE  Destination(Top.out, cur.src) \in RFiles
  <1>1. /\ Top.out \in Seq(Parts) /\ ("ofile" \in opt => Top.out # <<>>)
        /\ Name[cur.src] \in Parts /\ DirName[cur.src] \in Seq(Parts)
    <2>1. frames \in Seq(Frames) /\ frames # <<>> /\ cur.src \in Items
      BY DEF TypeInv, StateInv, FrameInv, AtItem
    <2>2. Len(frames) \in Nat \ {0} /\ Top \in Frames
      BY <2>1, TopFrame
    <2>3. "ofile" \in opt => Top.out # <<>>
      BY <2>2 DEF TypeInv, FrameInv, Top
    <2> QED
      BY <2>1, <2>2, <2>3, NamesTyped DEF Frames, Walks
  <1>2. \A out \in Seq(Parts), i \in Parts : FilePath(out, i) \in RFiles
    BY DEF FilePath, RFiles
  <1>3. CASE "parents" \in opt
    <2>1. Top.out \o DirName[cur.src] \in Seq(Parts)
      BY <1>1, ConcatProperties
    <2> QED
      BY <1>1, <1>2, <1>3, <2>1 DEF Destination
  <1>4. CASE "parents" \notin opt /\ "ofile" \in opt
    <2>1. Len(Top.out) \in Nat \ {0}
      BY <1>1, <1>4, EmptySeq
    <2>2. Top.out[Len(Top.out)] \in Parts /\ \A k \in 1 .. Len(Top.out) - 1 : Top.out[k] \in Parts
      BY <1>1, <2>1, ElementOfSeq
    <2>3. Parent(Top.out) \in Seq(Parts)
      BY <2>1, <2>2, SubSeqProperties DEF Parent
    <2> QED
      BY <1>2, <1>4, <2>2, <2>3 DEF Destination
  <1>5. CASE "parents" \notin opt /\ "ofile" \notin opt
    BY <1>1, <1>2, <1>5 DEF Destination
  <1> QED
    BY <1>3, <1>4, <1>5

\* The server's STOU finds a name: there are more numbers than files.
LEMMA StoredForm ==
  ASSUME ServerInv, cur.dest \in RFiles, NEW how
  PROVE  /\ Stored(how) \in RFiles /\ Stored(how).dir = cur.dest.dir
         /\ how \in {"unique", "tryunique"} => Stored(how) \notin DOMAIN files
         /\ how \notin {"unique", "tryunique"} => Stored(how) = cur.dest
  <1> DEFINE G == {g \in DOMAIN files : g.dir = cur.dest.dir /\ g.name = cur.dest.name}
             taken == {f.n : f \in G}
             N == Cardinality(taken)
             name(k) == [cur.dest EXCEPT !.n = k]
  <1>1. CASE how \notin {"unique", "tryunique"}
    BY <1>1 DEF Stored
  <1>2. CASE how \in {"unique", "tryunique"}
    <2>1. IsFiniteSet(taken) /\ N \in Nat
      <3>1. IsFiniteSet(G)
        BY FS_Subset DEF ServerInv
      <3> DEFINE number == [g \in G |-> g.n]
      <3>2. number \in Surjection(G, taken)
        BY DEF Surjection
      <3> QED
        BY <3>1, <3>2, FS_Surjection, FS_CardinalityType
    <2>2. \E k \in 0 .. N : k \notin taken
      <3> SUFFICES ASSUME 0 .. N \in SUBSET taken
                   PROVE  FALSE
        OBVIOUS
      <3>1. Cardinality(0 .. N) <= N
        BY <2>1, FS_Subset
      <3>2. Cardinality(0 .. N) = N + 1
        BY <2>1, FS_Interval
      <3> QED
        BY <2>1, <3>1, <3>2
    <2>3. PICK k \in 0 .. N : k \notin taken /\ Stored(how) = name(k)
      BY <1>2, <2>2 DEF Stored
    <2>4. k \in Nat
      BY <2>1, <2>3
    <2>5. /\ name(k) \in RFiles /\ name(k).dir = cur.dest.dir
          /\ name(k).name = cur.dest.name /\ name(k).n = k
      BY <2>4 DEF RFiles
    <2> HIDE DEF name
    <2>6. name(k) \notin DOMAIN files
      BY <2>3, <2>5
    <2> QED
      BY <1>2, <2>3, <2>5, <2>6
  <1> QED
    BY <1>1, <1>2

LEMMA SentForm ==
  ASSUME ServerInv, NEW f \in RFiles, NEW i \in Items, NEW how, NEW whole \in BOOLEAN
  PROVE  /\ Sent(f, i, how, whole) \in Contents
         /\ whole /\ how # "resume" => i \in Sent(f, i, how, whole).has
  <1> DEFINE old == IF f \in DOMAIN files THEN files[f] ELSE Holding({}, NoItem)
             keep == IF how = "append" THEN old.has ELSE {}
  <1>1. old \in Contents /\ Holding({}, NoItem) \in Contents
    BY DEF ServerInv, Contents, Holding
  <1>2. keep \in SUBSET (Items \cup {Other})
    BY <1>1 DEF Contents
  <1>3. Holding(keep \cup {i}, NoItem) \in Contents /\ Holding(keep, i) \in Contents
        /\ i \in Holding(keep \cup {i}, NoItem).has
    BY <1>2 DEF Holding, Contents
  <1>4. \/ how = "resume" /\ Sent(f, i, how, whole) = Holding({}, NoItem)
        \/ Sent(f, i, how, whole) = Holding(keep \cup {i}, NoItem)
        \/ ~whole /\ Sent(f, i, how, whole) = Holding(keep, i)
    BY Zenon DEF Sent
  <1> HIDE DEF old, keep
  <1> QED
    BY <1>1, <1>3, <1>4

-----------------------------------------------------------------------------
(* The locals of putfile(), and what its steps are.                        *)

Hows == {"normal", "append", "resume", "unique", "tryunique"}

LEMMA CurHow ==
  ASSUME cur \in Locals, NEW h \in Hows, cur' = [cur EXCEPT !.how = h]
  PROVE  /\ cur' \in Locals /\ cur'.src = cur.src /\ cur'.dest = cur.dest /\ cur'.made = cur.made
         /\ cur'.how = h
  BY DEF Locals, Hows

LEMMA CurStored ==
  ASSUME cur \in Locals, NEW f \in RFiles, cur' = [cur EXCEPT !.dest = f]
  PROVE  cur' \in Locals /\ cur'.src = cur.src /\ cur'.dest = f /\ cur'.how = cur.how
  BY DEF Locals

LEMMA CurMade ==
  ASSUME cur \in Locals, NEW d \in RFiles, NEW m \in BOOLEAN, cur' = [cur EXCEPT !.dest = d, !.made = m]
  PROVE  cur' \in Locals /\ cur'.src = cur.src /\ cur'.dest = d /\ cur'.made = m
  <1> DEFINE c == [cur EXCEPT !.dest = d]
  <1>1. c \in Locals /\ c.src = cur.src /\ c.dest = d
    BY DEF Locals
  <1>2. cur' = [c EXCEPT !.made = m]
    OBVIOUS
  <1> HIDE DEF c
  <1> QED
    BY <1>1, <1>2 DEF Locals

\* Flags are only ever set during a command.
LEMMA FlagsSet ==
  ASSUME flags \in [FlagNames -> BOOLEAN], NEW f \in FlagNames, NEW g \in FlagNames,
         NEW a \in BOOLEAN, NEW b \in BOOLEAN,
         flags' = [flags EXCEPT ![f] = @ \/ a, ![g] = @ \/ b]
  PROVE  flags' \in [FlagNames -> BOOLEAN] /\ (flags["owbatch"] => flags'["owbatch"])
  <1>1. flags' \in [FlagNames -> BOOLEAN]
    OBVIOUS
  <1>2. "owbatch" \in FlagNames
    BY DEF FlagNames
  <1>3. flags["owbatch"] => flags'["owbatch"]
    BY <1>2
  <1> QED
    BY <1>1, <1>3

LEMMA NextItemForm ==
  ASSUME TypeInv, NextItem
  PROVE  /\ pc = "loop" /\ Top.todo # <<>> /\ opt' = HupOptions(opt)
         /\ UNCHANGED <<mask, lastmk, cache, ltags, localfs, server, consent, refused, sent, env>>
         /\ flags' \in [FlagNames -> BOOLEAN] /\ (flags["owbatch"] => flags'["owbatch"])
         /\ \/ NextFile /\ UNCHANGED <<pc, cur>>
            \/ UNCHANGED <<pc, cur, frames>>
            \/ /\ \E out : /\ out = Top.out \/ out = Append(Top.out, Name[Item])
                           /\ frames' = Append(frames, Frame(Only(Children[Item], localfs), out, FALSE))
               /\ UNCHANGED <<pc, cur>>
            \/ pc' = "mkpath" /\ cur' = [NoCur EXCEPT !.src = Item] /\ UNCHANGED frames
  <1>1. flags \in [FlagNames -> BOOLEAN]
    BY DEF TypeInv, StateInv
  <1>2. CASE NextFile /\ UNCHANGED <<pc, cur, flags>>
    BY <1>1, <1>2 DEF NextItem
  <1>3. CASE ~(NextFile /\ UNCHANGED <<pc, cur, flags>>)
    <2> DEFINE out == IF "parents" \in opt THEN Top.out ELSE Append(Top.out, Name[Item])
               inside == Only(Children[Item], localfs)
               To == \/ NextFile /\ UNCHANGED <<pc, cur>>
                     \/ UNCHANGED <<pc, cur, frames>>
                     \/ frames' = Append(frames, Frame(inside, out, FALSE)) /\ UNCHANGED <<pc, cur>>
                     \/ pc' = "mkpath" /\ cur' = [NoCur EXCEPT !.src = Item] /\ UNCHANGED frames
    <2>1. PICK a :
            /\ flags' = [flags EXCEPT !["quit"] = @ \/ a = "cancel", !["batch"] = @ \/ a = "all"]
            /\ CASE a = "cancel" -> UNCHANGED <<pc, cur, frames>>
                 [] a = "no" \/ (a # "cancel" /\ (Item \notin localfs \/ Kind[Item] = "other"))
                      -> NextFile /\ UNCHANGED <<pc, cur>>
                 [] a \in {"yes", "all"} /\ Item \in localfs /\ Kind[Item] = "dir"
                      -> /\ IF "recursive" \in opt /\ Item \notin mask /\ inside # <<>>
                            THEN frames' = Append(frames, Frame(inside, out, FALSE))
                            ELSE NextFile
                         /\ UNCHANGED <<pc, cur>>
                 [] a \in {"yes", "all"} /\ Item \in localfs /\ Kind[Item] = "reg"
                      -> pc' = "mkpath" /\ cur' = [NoCur EXCEPT !.src = Item] /\ UNCHANGED frames
            /\ \/ a = "cancel" \/ a = "no"
               \/ (a # "cancel" /\ (Item \notin localfs \/ Kind[Item] = "other"))
               \/ a \in {"yes", "all"} /\ Item \in localfs /\ Kind[Item] = "dir"
               \/ a \in {"yes", "all"} /\ Item \in localfs /\ Kind[Item] = "reg"
      <3>1. PICK a \in IF "interactive" \in opt' /\ ~flags["batch"]
                       THEN Answers({"yes", "no", "cancel", "all"}, "yes") ELSE {"yes"} :
            /\ flags' = [flags EXCEPT !["quit"] = @ \/ a = "cancel", !["batch"] = @ \/ a = "all"]
            /\ CASE a = "cancel" -> UNCHANGED <<pc, cur, frames>>
                 [] a = "no" \/ (a # "cancel" /\ (Item \notin localfs \/ Kind[Item] = "other"))
                      -> NextFile /\ UNCHANGED <<pc, cur>>
                 [] a \in {"yes", "all"} /\ Item \in localfs /\ Kind[Item] = "dir"
                      -> /\ IF "recursive" \in opt /\ Item \notin mask /\ inside # <<>>
                            THEN frames' = Append(frames, Frame(inside, out, FALSE))
                            ELSE NextFile
                         /\ UNCHANGED <<pc, cur>>
                 [] a \in {"yes", "all"} /\ Item \in localfs /\ Kind[Item] = "reg"
                      -> pc' = "mkpath" /\ cur' = [NoCur EXCEPT !.src = Item] /\ UNCHANGED frames
        BY <1>3, Zenon DEF NextItem
      <3>2. a \in {"yes", "no", "cancel", "all"}
        BY DEF Answers
      <3>3. Kind[Item] \in {"reg", "dir", "dot", "other"} /\ Kind[Item] # "dot"
        <4>1. Item \in Items
          <5>1. Top.todo # <<>> /\ Top.todo \in Seq(Items)
            BY TopFrame DEF NextItem, TypeInv, FrameInv, Frames, Walks
          <5> QED
            BY <5>1 DEF Item
        <4> QED
          BY <1>3, <4>1, PutAssumption DEF NextItem
      <3>4. \/ a = "cancel" \/ a = "no"
            \/ (a # "cancel" /\ (Item \notin localfs \/ Kind[Item] = "other"))
            \/ a \in {"yes", "all"} /\ Item \in localfs /\ Kind[Item] = "dir"
            \/ a \in {"yes", "all"} /\ Item \in localfs /\ Kind[Item] = "reg"
        BY <3>2, <3>3
      <3> QED
        BY <3>1, <3>4, Zenon
    <2>2. To
      BY <2>1, Zenon
    <2>3. flags' \in [FlagNames -> BOOLEAN] /\ (flags["owbatch"] => flags'["owbatch"])
      <3> DEFINE q == a = "cancel"
                 b == a = "all"
      <3>1. q \in BOOLEAN /\ b \in BOOLEAN /\ "quit" \in FlagNames /\ "batch" \in FlagNames
        BY DEF FlagNames
      <3>2. flags' = [flags EXCEPT !["quit"] = @ \/ q, !["batch"] = @ \/ b]
        BY <2>1
      <3> HIDE DEF q, b
      <3> QED
        BY <1>1, <3>1, <3>2, FlagsSet
    <2>4. out = Top.out \/ out = Append(Top.out, Name[Item])
      OBVIOUS
    <2>5. /\ pc = "loop" /\ Top.todo # <<>> /\ opt' = HupOptions(opt)
          /\ UNCHANGED <<mask, lastmk, cache, ltags, localfs, server, consent, refused, sent, env>>
      BY DEF NextItem
    <2> HIDE DEF out
    <2> QED
      BY <2>2, <2>3, <2>4, <2>5, Zenon
  <1> QED
    BY <1>2, <1>3

Sending(h) == pc' = "send" /\ cur' = [cur EXCEPT !.how = h]

LEMMA SendForm ==
  ASSUME NEW how \in {"normal", "append", "resume"}, NEW agreed \in BOOLEAN, Send(how, agreed)
  PROVE  \E h \in Hows :
           /\ Sending(h) /\ (agreed => cur.dest \in consent')
           /\ \/ h \in {"unique", "tryunique"}
              \/ opt \cap {"unique", "tryunique"} = {} /\ (h = how \/ "resume" \in opt)
  <1> DEFINE h == IF "tryunique" \in opt THEN "tryunique" ELSE IF "unique" \in opt THEN "unique"
                  ELSE IF "resume" \in opt THEN "resume" ELSE how
  <1>1. h \in Hows
    BY DEF Hows
  <1>2. \/ h \in {"unique", "tryunique"}
        \/ opt \cap {"unique", "tryunique"} = {} /\ (h = how \/ "resume" \in opt)
    OBVIOUS
  <1>3. Sending(h) /\ (agreed => cur.dest \in consent')
    BY DEF Send, Sending
  <1> HIDE DEF h
  <1> QED
    BY <1>1, <1>2, <1>3

\* The answer of the cache: an existing file is overwritten with consent, put
\* beside, or asked about; of one that is not in the listing nobody knows.
LEMMA ExistsForm ==
  ASSUME TypeInv, Exists
  PROVE  /\ pc = "exists"
         /\ UNCHANGED <<frames, opt, mask, flags, lastmk, marked, ltags, localfs, server, refused, sent, env>>
         /\ \/ UNCHANGED listings
            \/ listings' = [d \in DOMAIN listings \cup {cur.dest.dir} |->
                              IF d = cur.dest.dir THEN InDir(d) ELSE listings[d]]
         /\ \/ PutfileReturns
            \/ pc' = "over" /\ UNCHANGED cur /\ cur.dest \in Looked
            \/ \E h \in Hows :
                 /\ Sending(h)
                 /\ \/ cur.dest \in consent' \/ h \in {"unique", "tryunique"}
                    \/ /\ cur.dest \notin Looked /\ h = "normal" /\ ~flags["owbatch"]
                       /\ opt \cap {"tryunique", "unique", "resume"} = {}
  <1>1. /\ pc = "exists"
        /\ UNCHANGED <<frames, opt, mask, flags, lastmk, marked, ltags, localfs, server, refused, sent, env>>
    BY DEF Exists
  <1>2. \/ UNCHANGED listings
        \/ listings' = [d \in DOMAIN listings \cup {cur.dest.dir} |->
                          IF d = cur.dest.dir THEN InDir(d) ELSE listings[d]]
    BY Zenon DEF Exists
  <1>3. flags["owbatch"] \in BOOLEAN
    BY DEF TypeInv, StateInv, FlagNames
  <1> DEFINE there == cur.dest \in Looked
             Kept == \E h \in Hows : /\ Sending(h)
                                     /\ \/ cur.dest \in consent' \/ h \in {"unique", "tryunique"}
                                        \/ /\ cur.dest \notin Looked /\ h = "normal" /\ ~flags["owbatch"]
                                           /\ opt \cap {"tryunique", "unique", "resume"} = {}
  <1>4. \/ PutfileReturns
        \/ Send("append", TRUE) \/ Send("normal", TRUE) \/ Send("resume", TRUE)
        \/ ~there /\ Send("normal", flags["owbatch"] \/ "resume" \in opt)
        \/ there /\ pc' = "over" /\ UNCHANGED cur
    <2> DEFINE a == "append" \in opt
               s == "skip" \in opt
               n == "newer" \in opt
               r == "resume" \in opt
    <2>1. CASE a
      BY <2>1, Zenon DEF Exists
    <2>2. CASE ~a /\ ~there
      BY <2>2, Zenon DEF Exists
    <2>3. CASE there /\ ~a /\ s
      BY <2>3, Zenon DEF Exists
    <2>4. CASE there /\ ~a /\ ~s /\ n
      <3>1. opt \cap {"append", "skip"} = {}
        BY <2>4
      <3> QED
        BY <2>4, <3>1, Zenon DEF Exists
    <2>5. CASE there /\ ~a /\ ~s /\ ~n /\ r
      <3>1. opt \cap {"append", "skip", "newer"} = {}
        BY <2>5
      <3> QED
        BY <2>5, <3>1, Zenon DEF Exists
    <2>6. CASE there /\ ~a /\ ~s /\ ~n /\ ~r
      <3>1. opt \cap {"append", "skip", "newer", "resume"} = {}
        BY <2>6
      <3> QED
        BY <2>6, <3>1, Zenon DEF Exists
    <2> QED
      BY <2>1, <2>2, <2>3, <2>4, <2>5, <2>6
  <1>5. CASE Send("append", TRUE) \/ Send("normal", TRUE) \/ Send("resume", TRUE)
    <2>1. Kept
      BY <1>5, SendForm
    <2> QED
      BY <1>1, <1>2, <2>1
  <1>6. CASE ~there /\ Send("normal", flags["owbatch"] \/ "resume" \in opt)
    <2> DEFINE agreed == flags["owbatch"] \/ "resume" \in opt
    <2>1. agreed \in BOOLEAN
      BY <1>3
    <2>2. PICK h \in Hows :
             /\ Sending(h) /\ (agreed => cur.dest \in consent')
             /\ \/ h \in {"unique", "tryunique"}
                \/ opt \cap {"unique", "tryunique"} = {} /\ (h = "normal" \/ "resume" \in opt)
      <3> HIDE DEF agreed
      <3>1. Send("normal", agreed)
        BY <1>6 DEF agreed
      <3> QED
        BY <2>1, <3>1, SendForm
    <2>3. Kept
      <3>1. CASE agreed
        BY <2>2, <3>1
      <3>2. CASE ~agreed
        BY <1>6, <2>2, <3>2
      <3> QED
        BY <3>1, <3>2
    <2> QED
      BY <1>1, <1>2, <2>3
  <1> HIDE DEF Kept
  <1>7. CASE there /\ pc' = "over" /\ UNCHANGED cur
    BY <1>1, <1>2, <1>7
  <1>8. CASE PutfileReturns
    BY <1>1, <1>2, <1>8
  <1> QED
    BY <1>4, <1>5, <1>6, <1>7, <1>8

LEMMA OverwriteForm ==
  ASSUME TypeInv, AskOverwrite
  PROVE  /\ pc = "over"
         /\ UNCHANGED <<frames, opt, mask, lastmk, cache, ltags, localfs, server, refused, sent, env>>
         /\ flags' \in [FlagNames -> BOOLEAN] /\ (flags["owbatch"] => flags'["owbatch"])
         /\ \/ PutfileReturns
            \/ \E h \in Hows :
                 Sending(h) /\ (cur.dest \in consent' \/ sighup \/ h \in {"unique", "tryunique"})
  <1>1. /\ pc = "over"
        /\ UNCHANGED <<frames, opt, mask, lastmk, cache, ltags, localfs, server, refused, sent, env>>
    BY DEF AskOverwrite
  <1>2. PICK a : /\ flags' = [flags EXCEPT !["quit"] = @ \/ a = "cancel", !["owbatch"] = @ \/ a = "all"]
                 /\ IF a \in {"no", "cancel"} THEN PutfileReturns /\ UNCHANGED consent
                    ELSE /\ pc' = "send"
                         /\ cur' = [cur EXCEPT !.how = IF "tryunique" \in opt THEN "tryunique"
                                                       ELSE IF a \in {"unique", "resume"} THEN a ELSE "normal"]
                         /\ consent' = IF sighup \/ a = "unique" THEN consent ELSE consent \cup {cur.dest}
    BY DEF AskOverwrite
  <1>3. flags' \in [FlagNames -> BOOLEAN] /\ (flags["owbatch"] => flags'["owbatch"])
    <2> DEFINE q == a = "cancel"
               b == a = "all"
    <2>1. q \in BOOLEAN /\ b \in BOOLEAN /\ "quit" \in FlagNames /\ "owbatch" \in FlagNames
      BY DEF FlagNames
    <2>2. flags' = [flags EXCEPT !["quit"] = @ \/ q, !["owbatch"] = @ \/ b]
      BY <1>2
    <2>3. flags \in [FlagNames -> BOOLEAN]
      BY DEF TypeInv, StateInv
    <2> HIDE DEF q, b
    <2> QED
      BY <2>1, <2>2, <2>3, FlagsSet
  <1> DEFINE h == IF "tryunique" \in opt THEN "tryunique" ELSE IF a \in {"unique", "resume"} THEN a ELSE "normal"
  <1>4. CASE a \in {"no", "cancel"}
    BY <1>1, <1>2, <1>3, <1>4
  <1>5. CASE a \notin {"no", "cancel"}
    <2>1. h \in Hows /\ (a = "unique" => h \in {"unique", "tryunique"})
      BY DEF Hows
    <2>2. Sending(h) /\ (cur.dest \in consent' \/ sighup \/ a = "unique")
      BY <1>2, <1>5 DEF Sending
    <2> HIDE DEF h
    <2> QED
      BY <1>1, <1>3, <2>1, <2>2
  <1> QED
    BY <1>4, <1>5

\* What is written where.
Writing(how, whole) ==
  LET f == Stored(how) IN
  /\ files' = [g \in DOMAIN files \cup {f} |->
                 IF g = f THEN Sent(f, cur.src, how, whole) ELSE files[g]]
  /\ marked' = marked \cup {cur.dest.dir} /\ sent' = sent \cup {f}
  /\ cur' = [cur EXCEPT !.dest = f]

LEMMA UploadForm ==
  ASSUME TypeInv, Upload
  PROVE  /\ pc = "send"
         /\ UNCHANGED <<frames, opt, mask, lastmk, listings, ltags, localfs, dirs, consent, refused, env>>
         /\ flags' \in [FlagNames -> BOOLEAN] /\ (flags["owbatch"] => flags'["owbatch"])
         /\ hasstou' \in BOOLEAN /\ (hasstou /\ ServerStou => hasstou')
         /\ \/ pc' = "next" /\ UNCHANGED <<files, marked, cur, sent>>
            \/ \E how \in Hows, whole, aborted \in BOOLEAN :
                 /\ how = cur.how \/ (how = "normal" /\ ~(hasstou /\ ServerStou))
                 /\ cur.dest.dir \in dirs /\ Writing(how, whole)
                 /\ pc' = IF whole \/ aborted THEN "done" ELSE "next"
                 /\ aborted => AbortDelete \/ "delete" \notin opt
  <1>1. /\ pc = "send"
        /\ UNCHANGED <<frames, opt, mask, lastmk, listings, ltags, localfs, dirs, consent, refused, env>>
    BY DEF Upload
  <1>2. flags \in [FlagNames -> BOOLEAN] /\ hasstou \in BOOLEAN /\ ServerStou \in BOOLEAN /\ cur.how \in Hows
    BY PutAssumption DEF TypeInv, StateInv, Locals, Hows
  <1>3. hasstou' \in BOOLEAN /\ (hasstou /\ ServerStou => hasstou')
    <2>1. hasstou' = (hasstou /\ (cur.how \in {"unique", "tryunique"} => ServerStou))
      BY DEF Upload
    <2> QED
      BY <2>1
  <1> DEFINE how == IF cur.how = "tryunique" /\ (~hasstou \/ ~ServerStou) THEN "normal" ELSE cur.how
  <1>4. how \in Hows /\ (how = cur.how \/ (how = "normal" /\ ~(hasstou /\ ServerStou)))
    BY <1>2 DEF Hows
  <1>5. \/ PutfileReturns /\ UNCHANGED <<files, marked, flags, cur, sent>>
        \/ \E whole, aborted, intr \in BOOLEAN :
             /\ cur.dest.dir \in dirs /\ Writing(how, whole)
             /\ intr \/ aborted => AbortDelete \/ "delete" \notin opt
             /\ flags' = [flags EXCEPT !["intr"] = @ \/ (intr /\ ~sighup)]
             /\ pc' = IF whole \/ aborted THEN "done" ELSE "next"
    BY Zenon DEF Upload, UploadResult, Writing
  <1> HIDE DEF how
  <1>6. CASE PutfileReturns /\ UNCHANGED <<files, marked, flags, cur, sent>>
    BY <1>1, <1>2, <1>3, <1>6 DEF PutfileReturns
  <1>7. ASSUME NEW whole \in BOOLEAN, NEW aborted \in BOOLEAN, NEW intr \in BOOLEAN,
               cur.dest.dir \in dirs /\ Writing(how, whole),
               intr \/ aborted => AbortDelete \/ "delete" \notin opt,
               flags' = [flags EXCEPT !["intr"] = @ \/ (intr /\ ~sighup)],
               pc' = IF whole \/ aborted THEN "done" ELSE "next"
        PROVE  /\ flags' \in [FlagNames -> BOOLEAN] /\ (flags["owbatch"] => flags'["owbatch"])
               /\ \E h \in Hows, w, a \in BOOLEAN :
                    /\ h = cur.how \/ (h = "normal" /\ ~(hasstou /\ ServerStou))
                    /\ cur.dest.dir \in dirs /\ Writing(h, w)
                    /\ pc' = IF w \/ a THEN "done" ELSE "next"
                    /\ a => AbortDelete \/ "delete" \notin opt
    <2>1. flags' \in [FlagNames -> BOOLEAN] /\ (flags["owbatch"] => flags'["owbatch"])
      BY <1>2, <1>7 DEF FlagNames
    <2> QED
      BY <1>4, <1>7, <2>1
  <1> QED
    BY <1>1, <1>3, <1>5, <1>6, <1>7

LEMMA AfterUploadForm ==
  ASSUME TypeInv, AfterUpload
  PROVE  /\ pc = "done" /\ pc' = "next"
         /\ UNCHANGED <<cur, frames, opt, mask, lastmk, cache, ltags, server, consent, refused, sent, env>>
         /\ flags' \in [FlagNames -> BOOLEAN] /\ (flags["owbatch"] => flags'["owbatch"])
         /\ UNCHANGED localfs \/ (localfs' = localfs \ {cur.src} /\ "delete" \in opt)
  <1>1. PICK a \in IF "delete" \notin opt THEN {"no"}
                   ELSE IF "force" \in opt \/ flags["delbatch"] THEN {"yes"}
                   ELSE Answers({"yes", "no", "cancel", "all"}, "yes") :
          /\ flags' = [flags EXCEPT !["delbatch"] = @ \/ a = "all", !["quit"] = @ \/ a = "cancel"]
          /\ localfs' \in IF a \in {"yes", "all"} THEN {localfs, localfs \ {cur.src}} ELSE {localfs}
    BY DEF AfterUpload
  <1>2. flags' \in [FlagNames -> BOOLEAN] /\ (flags["owbatch"] => flags'["owbatch"])
    <2> DEFINE q == a = "cancel"
               b == a = "all"
    <2>1. q \in BOOLEAN /\ b \in BOOLEAN /\ "quit" \in FlagNames /\ "delbatch" \in FlagNames
      BY DEF FlagNames
    <2>2. flags' = [flags EXCEPT !["delbatch"] = @ \/ b, !["quit"] = @ \/ q]
      BY <1>1
    <2>3. flags \in [FlagNames -> BOOLEAN]
      BY DEF TypeInv, StateInv
    <2> HIDE DEF q, b
    <2> QED
      BY <2>1, <2>2, <2>3, FlagsSet
  <1>3. UNCHANGED localfs \/ (localfs' = localfs \ {cur.src} /\ "delete" \in opt)
    BY <1>1
  <1> QED
    BY <1>2, <1>3 DEF AfterUpload, PutfileReturns

LEMMA AfterFileForm ==
  ASSUME TypeInv, AfterFile
  PROVE  /\ pc = "next" /\ NextFile /\ pc' = "loop" /\ cur' = NoCur
         /\ UNCHANGED <<opt, mask, lastmk, cache, ltags, localfs, server, consent, refused, sent, env>>
         /\ flags' \in [FlagNames -> BOOLEAN] /\ (flags["owbatch"] => flags'["owbatch"])
  <1>1. flags \in [FlagNames -> BOOLEAN]
    BY DEF TypeInv, StateInv
  <1>2. \E q \in BOOLEAN : flags' = [flags EXCEPT !["intr"] = FALSE, !["quit"] = @ \/ q]
    <2>1. PICK a : flags' = [flags EXCEPT !["intr"] = FALSE, !["quit"] = @ \/ a = "no"]
      BY DEF AfterFile
    <2> DEFINE q == a = "no"
    <2>2. q \in BOOLEAN
      OBVIOUS
    <2>3. flags' = [flags EXCEPT !["intr"] = FALSE, !["quit"] = @ \/ q]
      BY <2>1
    <2> HIDE DEF q
    <2> QED
      BY <2>2, <2>3
  <1>3. flags' \in [FlagNames -> BOOLEAN] /\ (flags["owbatch"] => flags'["owbatch"])
    BY <1>1, <1>2 DEF FlagNames
  <1> QED
    BY <1>3 DEF AfterFile

\* The commands ftp_mkpath() sends.
LEMMA MakePathCommands ==
  ASSUME MakePath, cur.src \notin mask
  PROVE  LET d == Destination(Top.out, cur.src)
             asked == Above(d.dir) \ (Known \cup {<<>>}) IN
         \E allowed \in BOOLEAN :
           LET made == IF allowed /\ connected THEN asked \ dirs ELSE {} IN
           /\ dirs' = dirs \cup made
           /\ marked' = marked \cup {Parent(x) : x \in made}
           /\ refused' = refused \cup (asked \ dirs')
           /\ lastmk' = IF d.dir \in Known THEN lastmk ELSE d.dir
           /\ cur' = [cur EXCEPT !.dest = d, !.made = IF Ssh THEN asked # {} ELSE d.dir \in made]
           /\ pc' = "exists"
  BY Zenon DEF MakePath

\* ftp_mkpath(): what it asks for is there afterwards, or refused.
LEMMA MakePathForm ==
  ASSUME TypeInv, MakePath
  PROVE  /\ pc = "mkpath"
         /\ UNCHANGED <<frames, opt, mask, flags, listings, ltags, localfs, files, hasstou, consent, sent, env>>
         /\ dirs \subseteq dirs' /\ refused \subseteq refused' /\ marked \subseteq marked'
         /\ \/ PutfileReturns /\ UNCHANGED <<lastmk, dirs, refused>>
            \/ \E d \in RFiles, m \in BOOLEAN :
                 /\ pc' = "exists" /\ cur' = [cur EXCEPT !.dest = d, !.made = m]
                 /\ Above(d.dir) \subseteq Known \cup {<<>>} \cup dirs' \cup refused'
                 /\ lastmk' = IF d.dir \in Known THEN lastmk ELSE d.dir
                 /\ m /\ ~Ssh => d.dir \notin dirs
  <1>1. /\ pc = "mkpath"
        /\ UNCHANGED <<frames, opt, mask, flags, listings, ltags, localfs, files, hasstou, consent, sent, env>>
    BY DEF MakePath
  <1>2. CASE PutfileReturns /\ UNCHANGED <<lastmk, dirs, marked, refused>>
    BY <1>1, <1>2
  <1>3. CASE ~(PutfileReturns /\ UNCHANGED <<lastmk, dirs, marked, refused>>)
    <2> DEFINE d == Destination(Top.out, cur.src)
               asked == Above(d.dir) \ (Known \cup {<<>>})
    <2>1. d \in RFiles
      BY <1>1, DestinationTyped DEF AtItem
    <2>0. cur.src \notin mask
      BY <1>3 DEF MakePath
    <2>2. PICK allowed \in BOOLEAN :
            LET made == IF allowed /\ connected THEN asked \ dirs ELSE {} IN
            /\ dirs' = dirs \cup made
            /\ marked' = marked \cup {Parent(x) : x \in made}
            /\ refused' = refused \cup (asked \ dirs')
            /\ lastmk' = IF d.dir \in Known THEN lastmk ELSE d.dir
            /\ cur' = [cur EXCEPT !.dest = d, !.made = IF Ssh THEN asked # {} ELSE d.dir \in made]
            /\ pc' = "exists"
      BY <2>0, MakePathCommands, Zenon
    <2> HIDE DEF d
    <2> DEFINE made == IF allowed /\ connected THEN asked \ dirs ELSE {}
               m == IF Ssh THEN asked # {} ELSE d.dir \in made
    <2>6. d.dir \in made => d.dir \notin dirs
      OBVIOUS
    <2>7. m \in BOOLEAN /\ (m /\ ~Ssh => d.dir \in made)
      <3> HIDE DEF made, asked
      <3>1. CASE Ssh
        <4>1. m = (asked # {})
          BY <3>1, Zenon
        <4> QED
          BY <3>1, <4>1, Zenon
      <3>2. CASE ~Ssh /\ d.dir \in made
        <4>1. m = TRUE
          BY <3>2, Zenon
        <4> QED
          BY <3>2, <4>1, Zenon
      <3>3. CASE ~Ssh /\ d.dir \notin made
        <4>1. m = FALSE
          BY <3>3
        <4> HIDE DEF m
        <4> QED
          BY <4>1
      <3> QED
        BY <3>1, <3>2, <3>3, Zenon
    <2>3. m \in BOOLEAN /\ (m /\ ~Ssh => d.dir \notin dirs)
      BY <2>6, <2>7
    <2>4. cur' = [cur EXCEPT !.dest = d, !.made = m] /\ pc' = "exists"
          /\ lastmk' = IF d.dir \in Known THEN lastmk ELSE d.dir
      BY <2>2
    <2>5. /\ dirs \subseteq dirs' /\ refused \subseteq refused' /\ marked \subseteq marked'
          /\ Above(d.dir) \subseteq Known \cup {<<>>} \cup dirs' \cup refused'
      BY <2>2
    <2> HIDE DEF m
    <2> QED
      BY <1>1, <2>1, <2>3, <2>4, <2>5
  <1> QED
    BY <1>2, <1>3

-----------------------------------------------------------------------------
(* Types and places.                                                       *)

LEMMA WriteTyped ==
  ASSUME ServerInv, NEW f \in RFiles, f.dir \in dirs, NEW c \in Contents, UNCHANGED dirs,
         files' = [g \in DOMAIN files \cup {f} |-> IF g = f THEN c ELSE files[g]]
  PROVE  ServerInv'
  <1>1. DOMAIN files' = DOMAIN files \cup {f}
    OBVIOUS
  <1>2. \A g \in DOMAIN files : files[g] \in Contents
    BY DEF ServerInv
  <1>3. files' \in [DOMAIN files \cup {f} -> Contents]
    BY <1>2
  <1>4. IsFiniteSet(DOMAIN files \cup {f})
    BY FS_AddElement DEF ServerInv
  <1>5. \A g \in DOMAIN files' : g \in RFiles /\ g.dir \in dirs'
    BY <1>1 DEF ServerInv
  <1> QED
    BY <1>1, <1>3, <1>4, <1>5 DEF ServerInv

LEMMA ServerKept ==
  ASSUME ServerInv, UNCHANGED files, dirs \subseteq dirs'
  PROVE  ServerInv'
  BY DEF ServerInv

\* putfiles() goes on with the list after the item.
LEMMA FramesPopped ==
  ASSUME FrameInv, frames # <<>>, Top.todo # <<>>, NextFile, pc' = "loop",
         "ofile" \in opt' => "ofile" \in opt
  PROVE  FrameInv'
  <1>1. Len(frames) \in Nat \ {0} /\ Len(frames) \in 1 .. Len(frames) /\ frames[Len(frames)].todo # <<>>
    BY TopFrame DEF FrameInv, Top
  <1>2. frames' = Popped(frames, Len(frames))
    BY DEF NextFile, Popped
  <1>3. /\ frames' \in Seq(Frames) /\ Len(frames') = Len(frames) /\ frames' # <<>>
        /\ frames'[Len(frames)].out = frames[Len(frames)].out
        /\ \A k \in 1 .. Len(frames) : k # Len(frames) => frames'[k] = frames[k]
    BY <1>1, <1>2, PoppedProperties DEF FrameInv, Frames
  <1>4. \A k \in 1 .. Len(frames) : frames'[k].out = frames[k].out
    BY <1>1, <1>3
  <1> QED
    BY <1>1, <1>3, <1>4 DEF FrameInv, AtItem

\* A step of putfile().
LEMMA StayTyped ==
  ASSUME TypeInv, pc \in AtItem, pc' \in AtItem, cur' \in Locals, cur'.src = cur.src,
         flags' \in [FlagNames -> BOOLEAN], hasstou' \in BOOLEAN, localfs' \subseteq Items,
         UNCHANGED <<frames, opt, ltags, env>>, ServerInv'
  PROVE  TypeInv'
  <1>1. FrameInv'
    BY DEF TypeInv, FrameInv, Top, AtItem
  <1>2. StateInv'
    BY DEF TypeInv, StateInv, AtItem, Pcs, env
  <1> QED
    BY <1>1, <1>2 DEF TypeInv

LEMMA InitTyped ==
  ASSUME Init
  PROVE  TypeInv
  <1>1. StateInv
    <2>1. ltags \in Seq(Items) /\ drops \in Nat /\ localfs = Items
      BY PutAssumption DEF Init
    <2>2. flags \in [FlagNames -> BOOLEAN]
      BY DEF Init
    <2>3. pc = "prompt" /\ cur = NoCur
      BY DEF Init
    <2>4. sighup \in BOOLEAN /\ connected \in BOOLEAN /\ hasstou \in BOOLEAN
      BY Zenon DEF Init
    <2> QED
      BY <2>1, <2>2, <2>3, <2>4, NoCurTyped DEF StateInv, Pcs, AtItem
  <1>2. FrameInv
    <2>1. frames = <<>> /\ <<>> \in Seq(Frames) /\ Len(<<>>) = 0 /\ pc = "prompt" /\ opt = {}
      BY DEF Init
    <2> QED
      BY <2>1 DEF FrameInv, AtItem
  <1>3. ServerInv
    <2>1. files = [f \in RemoteFiles |-> Holding({Other}, NoItem)] /\ dirs = RemoteDirs
      BY DEF Init
    <2>2. Holding({Other}, NoItem) \in Contents
      BY DEF Holding, Contents
    <2>3. RemoteFiles \subseteq RFiles /\ \A f \in RemoteFiles : f.dir \in RemoteDirs
      <3>1. \A s \in Seq(STRING) : s \in Seq(Parts)
        <4>1. STRING \subseteq Parts
          BY DEF Parts
        <4> QED
          BY <4>1, SeqMonotonic
      <3> QED
        BY <3>1, PutAssumption DEF RFiles, Parts
    <2> QED
      BY <2>1, <2>2, <2>3, PutAssumption DEF ServerInv
  <1> QED
    BY <1>1, <1>2, <1>3 DEF TypeInv

LEMMA CmdPutTyped ==
  ASSUME TypeInv, CmdPut
  PROVE  TypeInv'
  <1>1. /\ pc = "prompt" /\ pc' = "loop"
        /\ UNCHANGED <<cur, cache, ltags, localfs, server, sighup, connected, drops>>
    BY DEF CmdPut
  <1>2. PICK o \in OptionSets, l \in Lists :
          LET number == Len(l) + IF "tagged" \in o THEN Len(ltags) ELSE 0
              o1 == IF "force" \in o THEN o \ {"interactive"} ELSE o
              o2 == IF "output" \in o /\ "recursive" \notin o /\ number = 1 THEN o1 \cup {"ofile"} ELSE o1
          IN  /\ opt' = IF "nohup" \in o THEN NohupOptions(o2) ELSE o2
              /\ flags' = [f \in FlagNames |-> "force" \in o /\ f \in {"batch", "owbatch", "delbatch"}]
              /\ frames' = <<Frame(l, IF "output" \in o THEN <<"out">> ELSE <<>>, FALSE)>>
    BY DEF CmdPut
  <1> DEFINE out == IF "output" \in o THEN <<"out">> ELSE <<>>
  <1>3. out \in Seq(Parts) /\ ("output" \in o => out # <<>>)
    <2>1. <<"out">> \in Seq(Parts) /\ <<>> \in Seq(Parts)
      BY DEF Parts
    <2> QED
      BY <2>1
  <1>4. "ofile" \in opt' => "output" \in o
    <2>1. "ofile" \notin o
      BY PutAssumption
    <2> QED
      BY <1>2, <2>1 DEF NohupOptions
  <1>5. PICK f \in Frames : frames' = <<f>> /\ f.out = out
    <2>1. Frame(l, out, FALSE) \in Frames /\ Frame(l, out, FALSE).out = out
      <3> HIDE DEF out
      <3> QED
        BY <1>3, NewFrame, PutAssumption
    <2> QED
      BY <1>2, <2>1
  <1>6. StateInv'
    <2>1. flags' \in [FlagNames -> BOOLEAN]
      BY <1>2
    <2> QED
      BY <1>1, <2>1 DEF TypeInv, StateInv, Pcs, AtItem, server
  <1> HIDE DEF out
  <1>7. FrameInv'
    <2>1. frames' \in Seq(Frames) /\ Len(frames') = 1 /\ frames' # <<>> /\ frames'[1].out = out
      BY <1>5
    <2> QED
      BY <1>1, <1>3, <1>4, <2>1 DEF FrameInv, AtItem
  <1>8. ServerInv'
    BY <1>1, ServerKept DEF TypeInv, server
  <1> QED
    BY <1>6, <1>7, <1>8 DEF TypeInv

LEMMA ReturnTyped ==
  ASSUME TypeInv, Return
  PROVE  TypeInv'
  <1>1. pc = "loop" /\ UNCHANGED <<lastmk, localfs, server, env>> /\ frames # <<>> /\ frames \in Seq(Frames)
    BY DEF Return, TypeInv, FrameInv
  <1>2. ServerInv'
    BY <1>1, ServerKept DEF TypeInv, server
  <1>3. Len(frames) \in Nat \ {0} /\ Top \in Frames
    BY <1>1, TopFrame
  <1>4. CASE /\ Len(frames) > 1 /\ frames' = Popped(Callers(frames), Len(frames) - 1)
             /\ UNCHANGED <<pc, cur, opt, flags, ltags>>
    <2>1. \A k \in 1 .. Len(frames) - 1 : frames[k].todo # <<>>
      BY DEF TypeInv, FrameInv
    <2>2. /\ frames' \in Seq(Frames) /\ Len(frames') = Len(frames) - 1 /\ frames' # <<>>
          /\ frames'[Len(frames) - 1].out = frames[Len(frames) - 1].out
          /\ \A k \in 1 .. Len(frames) - 2 : frames'[k] = frames[k]
      BY <1>1, <1>4, <2>1, CallerProperties DEF Frames
    <2>3. \A k \in 1 .. Len(frames) - 1 : frames'[k].out = frames[k].out
      BY <1>3, <2>2
    <2>4. FrameInv'
      BY <1>1, <1>3, <1>4, <2>1, <2>2, <2>3 DEF TypeInv, FrameInv, AtItem
    <2>5. StateInv'
      BY <1>1, <1>4 DEF TypeInv, StateInv, server, env, AtItem
    <2> QED
      BY <1>2, <2>4, <2>5 DEF TypeInv
  <1>5. CASE frames' = <<Frame(ltags, Top.out, TRUE)>> /\ UNCHANGED <<pc, cur, opt, flags, ltags>>
    <2>1. Frame(ltags, Top.out, TRUE) \in Frames /\ Frame(ltags, Top.out, TRUE).out = Top.out
      BY <1>3, NewFrame DEF TypeInv, StateInv, Frames, Walks
    <2>2. frames' \in Seq(Frames) /\ Len(frames') = 1 /\ frames' # <<>> /\ frames'[1].out = Top.out
      <3>1. PICK f \in Frames : frames' = <<f>> /\ f.out = Top.out
        BY <1>5, <2>1
      <3> QED
        BY <3>1
    <2>3. "ofile" \in opt => Top.out # <<>>
      BY <1>3 DEF TypeInv, FrameInv, Top
    <2>4. FrameInv'
      <3>1. pc' = "loop" /\ opt' = opt
        BY <1>1, <1>5
      <3> QED
        BY <2>2, <2>3, <3>1 DEF FrameInv, AtItem
    <2>5. StateInv'
      BY <1>1, <1>5 DEF TypeInv, StateInv, server, env, AtItem
    <2> QED
      BY <1>2, <2>4, <2>5 DEF TypeInv
  <1>6. CASE Leave(sighup \/ "nohup" \in opt) /\ (UNCHANGED ltags \/ ltags' = <<>>)
    <2>1. /\ pc' \in {"prompt", "exited"} /\ frames' = <<>> /\ cur' = NoCur /\ opt' = {}
          /\ flags' = [f \in FlagNames |-> FALSE]
      BY <1>6 DEF Leave
    <2>2. frames' \in Seq(Frames) /\ Len(frames') = 0
      BY <2>1
    <2>3. FrameInv'
      BY <2>1, <2>2 DEF FrameInv, AtItem
    <2>4. flags' \in [FlagNames -> BOOLEAN]
      BY <2>1
    <2>5. ltags' \in Seq(Items)
      <3>1. ltags \in Seq(Items) /\ <<>> \in Seq(Items)
        BY DEF TypeInv, StateInv
      <3> QED
        BY <1>6, <3>1, Zenon
    <2>6. StateInv'
      BY <1>1, <2>1, <2>4, <2>5, NoCurTyped DEF TypeInv, StateInv, server, env, AtItem, Pcs
    <2> QED
      BY <1>2, <2>3, <2>6 DEF TypeInv
  <1>7. \/ /\ Len(frames) > 1 /\ frames' = Popped(Callers(frames), Len(frames) - 1)
           /\ UNCHANGED <<pc, cur, opt, flags, ltags>>
        \/ frames' = <<Frame(ltags, Top.out, TRUE)>> /\ UNCHANGED <<pc, cur, opt, flags, ltags>>
        \/ Leave(sighup \/ "nohup" \in opt) /\ (UNCHANGED ltags \/ ltags' = <<>>)
    BY Zenon DEF Return, Popped, Callers
  <1> QED
    BY <1>4, <1>5, <1>6, <1>7

LEMMA NextItemTyped ==
  ASSUME TypeInv, NextItem
  PROVE  TypeInv'
  <1>1. /\ pc = "loop" /\ Top.todo # <<>> /\ frames # <<>> /\ frames \in Seq(Frames)
        /\ UNCHANGED <<ltags, localfs, server, env>> /\ flags' \in [FlagNames -> BOOLEAN]
        /\ opt' = HupOptions(opt)
    BY NextItemForm DEF TypeInv, FrameInv
  <1>2. ServerInv'
    BY <1>1, ServerKept DEF TypeInv, server
  <1>3. Item \in Items /\ Len(frames) \in Nat \ {0} /\ Top \in Frames
    <2>1. Top.todo \in Seq(Items)
      BY <1>1, TopFrame DEF Frames, Walks
    <2> QED
      BY <1>1, <2>1, TopFrame DEF Item
  <1>4. "ofile" \in opt' => "ofile" \in opt
    BY <1>1 DEF HupOptions
  <1>5. CASE NextFile /\ UNCHANGED <<pc, cur>>
    <2>1. FrameInv'
      BY <1>1, <1>4, <1>5, FramesPopped DEF TypeInv
    <2>2. StateInv'
      BY <1>1, <1>5 DEF TypeInv, StateInv, AtItem, server, env
    <2> QED
      BY <1>2, <2>1, <2>2 DEF TypeInv
  <1>6. CASE UNCHANGED <<pc, cur, frames>>
    <2>1. FrameInv'
      BY <1>1, <1>4, <1>6 DEF TypeInv, FrameInv, AtItem
    <2>2. StateInv'
      BY <1>1, <1>6 DEF TypeInv, StateInv, AtItem, server, env
    <2> QED
      BY <1>2, <2>1, <2>2 DEF TypeInv
  <1>7. ASSUME NEW out, out = Top.out \/ out = Append(Top.out, Name[Item]),
               frames' = Append(frames, Frame(Only(Children[Item], localfs), out, FALSE)),
               UNCHANGED <<pc, cur>>
        PROVE  TypeInv'
    <2>1. out \in Seq(Parts) /\ ("ofile" \in opt' => out # <<>>)
      <3>1. Top.out \in Seq(Parts) /\ Name[Item] \in Parts
        BY <1>3, NamesTyped DEF Frames, Walks
      <3>2. "ofile" \in opt' => Top.out # <<>>
        BY <1>3, <1>4 DEF TypeInv, FrameInv, Top
      <3>3. Append(Top.out, Name[Item]) \in Seq(Parts) /\ Append(Top.out, Name[Item]) # <<>>
        BY <3>1, AppendProperties
      <3> QED
        BY <1>7, <3>1, <3>2, <3>3
    <2>2. Only(Children[Item], localfs) \in Seq(Items)
      BY <1>3, OnlyProperties, PutAssumption
    <2>3. PICK f \in Frames : frames' = Append(frames, f) /\ f.out = out
      BY <1>7, <2>1, <2>2, NewFrame
    <2>4. /\ frames' \in Seq(Frames) /\ Len(frames') = Len(frames) + 1 /\ frames' # <<>>
          /\ \A k \in 1 .. Len(frames) : frames'[k] = frames[k]
          /\ frames'[Len(frames) + 1] = f
      BY <1>1, <2>3, AppendProperties
    <2>5. \A k \in 1 .. Len(frames) : frames[k].todo # <<>>
      BY <1>1, <1>3 DEF TypeInv, FrameInv, Top
    <2>6. \A k \in 1 .. Len(frames') - 1 : frames'[k].todo # <<>>
      BY <1>3, <2>4, <2>5
    <2>7. "ofile" \in opt' => \A k \in 1 .. Len(frames') : frames'[k].out # <<>>
      <3> SUFFICES ASSUME "ofile" \in opt', NEW k \in 1 .. Len(frames')
                   PROVE  frames'[k].out # <<>>
        OBVIOUS
      <3>1. CASE k = Len(frames) + 1
        BY <2>1, <2>3, <2>4, <3>1
      <3>2. CASE k \in 1 .. Len(frames)
        BY <1>4, <2>4, <3>2 DEF TypeInv, FrameInv
      <3> QED
        BY <1>3, <2>4, <3>1, <3>2
    <2>8. FrameInv'
      BY <1>1, <1>7, <2>4, <2>6, <2>7 DEF FrameInv, AtItem
    <2>9. StateInv'
      BY <1>1, <1>7 DEF TypeInv, StateInv, AtItem, server, env
    <2> QED
      BY <1>2, <2>8, <2>9 DEF TypeInv
  <1>8. CASE pc' = "mkpath" /\ cur' = [NoCur EXCEPT !.src = Item] /\ UNCHANGED frames
    <2>1. cur' \in Locals /\ cur'.src \in Items
      BY <1>3, <1>8, NoCurTyped
    <2>2. FrameInv'
      BY <1>1, <1>4, <1>8 DEF TypeInv, FrameInv, AtItem, Top
    <2>3. StateInv'
      BY <1>1, <1>8, <2>1 DEF TypeInv, StateInv, AtItem, Pcs, server, env
    <2> QED
      BY <1>2, <2>2, <2>3 DEF TypeInv
  <1> QED
    BY <1>5, <1>6, <1>7, <1>8, NextItemForm

LEMMA PutfileTyped ==
  ASSUME TypeInv, MakePath \/ Exists \/ AskOverwrite \/ Upload \/ AfterUpload
  PROVE  TypeInv'
  <1>1. cur \in Locals /\ cur.dest \in RFiles /\ localfs \subseteq Items /\ hasstou \in BOOLEAN
        /\ flags \in [FlagNames -> BOOLEAN]
    BY DEF TypeInv, StateInv, Locals
  <1>2. CASE MakePath
    <2>1. pc = "mkpath" /\ UNCHANGED <<frames, opt, flags, ltags, localfs, files, hasstou, env>> /\ dirs \subseteq dirs'
      BY <1>2, MakePathForm
    <2>2. ServerInv'
      BY <2>1, ServerKept DEF TypeInv
    <2>3. cur' \in Locals /\ cur'.src = cur.src /\ pc' \in {"exists", "next"}
      BY <1>1, <1>2, MakePathForm, CurMade DEF PutfileReturns
    <2> QED
      BY <1>1, <2>1, <2>2, <2>3, StayTyped DEF AtItem
  <1>3. CASE Exists \/ AskOverwrite
    <2>1. /\ pc \in {"exists", "over"} /\ UNCHANGED <<frames, opt, ltags, localfs, server, env>>
          /\ flags' \in [FlagNames -> BOOLEAN]
      BY <1>1, <1>3, ExistsForm, OverwriteForm
    <2>2. ServerInv'
      BY <2>1, ServerKept DEF TypeInv, server
    <2>3. \/ PutfileReturns
          \/ pc' = "over" /\ UNCHANGED cur
          \/ \E h \in Hows : Sending(h)
      <3>1. CASE Exists
        BY <3>1, ExistsForm
      <3>2. CASE AskOverwrite
        BY <3>2, OverwriteForm
      <3> QED
        BY <1>3, <3>1, <3>2
    <2>4. cur' \in Locals /\ cur'.src = cur.src /\ pc' \in {"next", "over", "send"}
      BY <1>1, <2>3, CurHow DEF PutfileReturns, Sending
    <2> QED
      BY <1>1, <2>1, <2>2, <2>4, StayTyped DEF AtItem, server
  <1>4. CASE Upload
    <2>1. /\ pc = "send" /\ UNCHANGED <<frames, opt, ltags, localfs, dirs, env>>
          /\ flags' \in [FlagNames -> BOOLEAN] /\ hasstou' \in BOOLEAN
          /\ \/ pc' = "next" /\ UNCHANGED <<files, marked, cur, sent>>
             \/ \E how \in Hows, whole \in BOOLEAN :
                  cur.dest.dir \in dirs /\ Writing(how, whole) /\ pc' \in {"next", "done"}
      BY <1>4, UploadForm
    <2>2. CASE pc' = "next" /\ UNCHANGED <<files, marked, cur, sent>>
      <3>1. ServerInv'
        BY <2>1, <2>2, ServerKept DEF TypeInv
      <3> QED
        BY <1>1, <2>1, <2>2, <3>1, StayTyped DEF AtItem
    <2>3. CASE \E how \in Hows, whole \in BOOLEAN :
                 cur.dest.dir \in dirs /\ Writing(how, whole) /\ pc' \in {"next", "done"}
      <3>1. PICK how \in Hows, whole \in BOOLEAN :
              cur.dest.dir \in dirs /\ Writing(how, whole) /\ pc' \in {"next", "done"}
        BY <2>3
      <3>2. Stored(how) \in RFiles /\ Stored(how).dir \in dirs
        BY <1>1, <3>1, StoredForm DEF TypeInv
      <3>3. cur' \in Locals /\ cur'.src = cur.src
        BY <1>1, <3>1, <3>2, CurStored DEF Writing
      <3>4. Sent(Stored(how), cur.src, how, whole) \in Contents
        BY <2>1, <3>2, SentForm DEF TypeInv, StateInv, AtItem
      <3>5. ServerInv'
        BY <2>1, <3>1, <3>2, <3>4, WriteTyped DEF TypeInv, Writing
      <3> QED
        BY <1>1, <2>1, <3>1, <3>3, <3>5, StayTyped DEF AtItem
    <2> QED
      BY <2>1, <2>2, <2>3
  <1>5. CASE AfterUpload
    <2>1. /\ pc = "done" /\ pc' = "next" /\ UNCHANGED <<cur, frames, opt, ltags, server, env>>
          /\ flags' \in [FlagNames -> BOOLEAN] /\ localfs' \subseteq Items
      BY <1>1, <1>5, AfterUploadForm
    <2>2. ServerInv'
      BY <2>1, ServerKept DEF TypeInv, server
    <2> QED
      BY <1>1, <2>1, <2>2, StayTyped DEF AtItem, server
  <1> QED
    BY <1>2, <1>3, <1>4, <1>5

LEMMA AfterFileTyped ==
  ASSUME TypeInv, AfterFile
  PROVE  TypeInv'
  <1>1. /\ pc = "next" /\ NextFile /\ pc' = "loop" /\ cur' = NoCur
        /\ UNCHANGED <<opt, ltags, localfs, server, env>> /\ flags' \in [FlagNames -> BOOLEAN]
    BY AfterFileForm
  <1>2. frames # <<>> /\ Top.todo # <<>>
    BY <1>1 DEF TypeInv, FrameInv, AtItem
  <1>3. FrameInv'
    BY <1>1, <1>2, FramesPopped DEF TypeInv
  <1>4. ServerInv'
    BY <1>1, ServerKept DEF TypeInv, server
  <1>5. StateInv'
    BY <1>1, NoCurTyped DEF TypeInv, StateInv, AtItem, Pcs, server, env
  <1> QED
    BY <1>3, <1>4, <1>5 DEF TypeInv

\* SIGHUP, the loss of the session, and directories that vanish.
LEMMA EventTyped ==
  ASSUME TypeInv, Sighup \/ Lose \/ Vanish
  PROVE  TypeInv'
  <1>1. /\ UNCHANGED <<frames, cur, opt, flags, ltags, localfs, files, hasstou>>
        /\ pc' \in Pcs /\ (pc' \in {"prompt", "exited"} <=> pc \in {"prompt", "exited"})
        /\ pc' \in AtItem => pc' = pc
    BY DEF Sighup, Lose, Vanish, TypeInv, StateInv, Pcs, AtItem, server
  <1>2. sighup' \in BOOLEAN /\ connected' \in BOOLEAN
    BY Zenon DEF Sighup, Lose, Vanish, TypeInv, StateInv, env
  <1>3. drops' \in Nat
    <2>1. drops' = drops \/ drops' = drops + 1
      BY DEF Sighup, Lose, Vanish, env
    <2>2. drops \in Nat
      BY DEF TypeInv, StateInv
    <2> QED
      BY <2>1, <2>2
  <1>4. StateInv'
    BY <1>1, <1>2, <1>3 DEF TypeInv, StateInv
  <1>5. FrameInv'
    BY <1>1 DEF TypeInv, FrameInv, Top
  <1>6. ServerInv'
    <2>1. \A f \in DOMAIN files : f.dir \in dirs'
      <3>1. CASE Sighup \/ Lose
        BY <3>1 DEF Sighup, Lose, server, TypeInv, ServerInv
      <3>2. CASE Vanish
        <4>1. PICK d \in dirs \ RemoteDirs : InDir(d) = {} /\ dirs' = dirs \ {d}
          BY <3>2 DEF Vanish
        <4> QED
          BY <4>1 DEF InDir, TypeInv, ServerInv
      <3> QED
        BY <3>1, <3>2
    <2>2. <<>> \in dirs'
      BY PutAssumption DEF Sighup, Lose, Vanish, server, TypeInv, ServerInv
    <2> QED
      BY <1>1, <2>1, <2>2 DEF TypeInv, ServerInv
  <1> QED
    BY <1>4, <1>5, <1>6 DEF TypeInv

LEMMA StepTyped ==
  ASSUME TypeInv, [Next]_vars
  PROVE  TypeInv'
  <1>1. CASE UNCHANGED vars
    BY <1>1 DEF vars, server, env, TypeInv, StateInv, FrameInv, ServerInv, Top
  <1>2. CASE CmdPut
    BY <1>2, CmdPutTyped
  <1>3. CASE ClientStep
    BY <1>3, ReturnTyped, NextItemTyped, PutfileTyped, AfterFileTyped DEF ClientStep
  <1>4. CASE Sighup \/ Lose \/ Vanish
    BY <1>4, EventTyped
  <1> QED
    BY <1>1, <1>2, <1>3, <1>4 DEF Next, Rest

\* The program's variables always hold what they are meant to hold, and every
\* file the server has is in a directory it has.
THEOREM Typing == Spec => [](TypeInv /\ TypeOK)
  <1>1. Init => TypeInv
    BY InitTyped
  <1>2. TypeInv /\ [Next]_vars => TypeInv'
    BY StepTyped, Zenon
  <1>3. TypeInv => TypeOK
    <2> SUFFICES ASSUME TypeInv
                 PROVE  TypeOK
      OBVIOUS
    <2>1. \A k \in DOMAIN frames : frames[k].todo \in Seq(Items) /\ frames[k].tags \in BOOLEAN
      <3>1. \A k \in DOMAIN frames : frames[k] \in Frames
        BY LenProperties, ElementOfSeq DEF TypeInv, FrameInv
      <3> QED
        BY <3>1 DEF Frames, Walks
    <2>2. \A f \in DOMAIN files : files[f].has \subseteq Items \cup {Other} /\ f.dir \in dirs
      <3>1. \A f \in DOMAIN files : files[f] \in Contents /\ f.dir \in dirs
        BY DEF TypeInv, ServerInv
      <3> QED
        BY <3>1 DEF Contents
    <2>3. (pc \in {"prompt", "exited"}) = (frames = <<>>)
      BY DEF TypeInv, FrameInv
    <2>4. cur.src \in Items \cup {NoItem}
      BY DEF TypeInv, StateInv, Locals
    <2>5. pc \in {"prompt", "loop", "mkpath", "exists", "over", "send", "done", "next", "exited"}
      BY DEF TypeInv, StateInv, Pcs, AtItem
    <2> QED
      BY <2>1, <2>2, <2>3, <2>4, <2>5 DEF TypeInv, StateInv, TypeOK
  <1>4. Spec => []TypeInv
    BY <1>1, <1>2, PTL DEF Spec
  <1> QED
    BY <1>3, <1>4, PTL


-----------------------------------------------------------------------------
(* The directories on the way.                                             *)

LEMMA PathKept ==
  ASSUME TypeInv, PathInv, UNCHANGED <<lastmk, drops>>, dirs \subseteq dirs', refused \subseteq refused',
         pc \notin {"prompt", "exited"},
         pc' \in {"exists", "over", "send"} => pc \in {"exists", "over", "send"} /\ cur'.dest = cur.dest
  PROVE  PathInv'
  BY DEF PathInv, Above

LEMMA MakePathPath ==
  ASSUME TypeInv, PathInv, MakePath
  PROVE  PathInv'
  <1>1. /\ pc = "mkpath" /\ UNCHANGED env /\ dirs \subseteq dirs' /\ refused \subseteq refused'
        /\ \/ pc' = "next" /\ UNCHANGED lastmk
           \/ \E d \in RFiles, m \in BOOLEAN :
                /\ pc' = "exists" /\ cur' = [cur EXCEPT !.dest = d, !.made = m]
                /\ Above(d.dir) \subseteq Known \cup {<<>>} \cup dirs' \cup refused'
                /\ lastmk' = IF d.dir \in Known THEN lastmk ELSE d.dir
    BY MakePathForm DEF PutfileReturns
  <1>2. CASE drops > 0
    BY <1>1, <1>2 DEF PathInv, env
  <1>3. CASE pc' = "next" /\ UNCHANGED lastmk
    BY <1>1, <1>3, PathKept DEF env
  <1>4. CASE ~(drops > 0) /\ \E d \in RFiles, m \in BOOLEAN :
               /\ pc' = "exists" /\ cur' = [cur EXCEPT !.dest = d, !.made = m]
               /\ Above(d.dir) \subseteq Known \cup {<<>>} \cup dirs' \cup refused'
               /\ lastmk' = IF d.dir \in Known THEN lastmk ELSE d.dir
    <2>1. PICK d \in RFiles, m \in BOOLEAN :
            /\ pc' = "exists" /\ cur' = [cur EXCEPT !.dest = d, !.made = m]
            /\ Above(d.dir) \subseteq Known \cup {<<>>} \cup dirs' \cup refused'
            /\ lastmk' = IF d.dir \in Known THEN lastmk ELSE d.dir
      BY <1>4
    <2>2. cur'.dest = d
      BY <2>1, CurMade DEF TypeInv, StateInv
    <2>3. Known \subseteq dirs' \cup refused' /\ <<>> \in dirs'
      BY <1>1, <1>4 DEF Known, PathInv, TypeInv, ServerInv
    <2>4. d.dir \in Above(d.dir)
      <3>1. d.dir \in Seq(Parts)
        BY DEF RFiles
      <3> DEFINE p == d.dir
      <3>2. Len(p) \in 0 .. Len(p) /\ SubSeq(p, 1, Len(p)) = p
        <4> HIDE DEF p
        <4>1. p \in Seq(Parts)
          BY <3>1 DEF p
        <4> QED
          BY <4>1, SubSeqFull, LenProperties
      <3> QED
        BY <3>2 DEF Above
    <2>5. Above(d.dir) \subseteq dirs' \cup refused'
      BY <2>1, <2>3
    <2>6. lastmk' # NoPath => Above(lastmk') \subseteq dirs' \cup refused'
      <3>1. CASE lastmk' = lastmk
        BY <1>1, <1>4, <3>1 DEF PathInv, Above
      <3>2. CASE lastmk' = d.dir
        BY <2>5, <3>2
      <3> QED
        BY <2>1, <3>1, <3>2
    <2> QED
      BY <2>1, <2>2, <2>4, <2>5, <2>6 DEF PathInv, Above
  <1> QED
    BY <1>1, <1>2, <1>3, <1>4

LEMMA StepPath ==
  ASSUME TypeInv, PathInv, [Next]_vars
  PROVE  PathInv'
  <1>1. CASE UNCHANGED vars
    BY <1>1 DEF vars, server, env, PathInv, Above
  <1>2. CASE CmdPut
    BY <1>2 DEF CmdPut, PathAtStart, PathInv
  <1>3. CASE Return
    <2>1. /\ pc = "loop" /\ UNCHANGED <<lastmk, server, env>>
          /\ pc' \in {"prompt", "exited"} \/ (pc' = pc /\ UNCHANGED refused)
      BY <1>3 DEF Return, Leave
    <2>2. CASE pc' = pc /\ UNCHANGED refused
      BY <2>1, <2>2, PathKept DEF server, env
    <2>3. CASE pc' \in {"prompt", "exited"}
      BY <2>1, <2>3 DEF PathInv, env
    <2> QED
      BY <2>1, <2>2, <2>3
  <1>4. CASE NextItem
    <2>1. pc = "loop" /\ UNCHANGED <<lastmk, server, refused, env>> /\ pc' \in {"loop", "mkpath"}
      BY <1>4, NextItemForm
    <2> QED
      BY <2>1, PathKept DEF server, env
  <1>5. CASE MakePath
    BY <1>5, MakePathPath
  <1>6. CASE Exists \/ AskOverwrite
    <2>1. /\ pc \in {"exists", "over"} /\ UNCHANGED <<lastmk, server, refused, env>>
          /\ PutfileReturns \/ (pc' = "over" /\ UNCHANGED cur) \/ \E h \in Hows : Sending(h)
      <3>1. CASE Exists
        BY <3>1, ExistsForm
      <3>2. CASE AskOverwrite
        BY <3>2, OverwriteForm
      <3> QED
        BY <1>6, <3>1, <3>2
    <2>2. pc' = "next" \/ cur'.dest = cur.dest
      BY <2>1, CurHow DEF PutfileReturns, Sending, TypeInv, StateInv
    <2> QED
      BY <2>1, <2>2, PathKept DEF server, env
  <1>7. CASE Upload
    <2>1. pc = "send" /\ UNCHANGED <<lastmk, dirs, refused, env>> /\ pc' \in {"next", "done"}
      BY <1>7, UploadForm
    <2> QED
      BY <2>1, PathKept DEF env
  <1>8. CASE AfterUpload \/ AfterFile
    <2>1. pc \in {"next", "done"} /\ UNCHANGED <<lastmk, server, refused, env>> /\ pc' \in {"next", "loop"}
      BY <1>8, AfterUploadForm, AfterFileForm
    <2> QED
      BY <2>1, PathKept DEF server, env
  <1>9. CASE Sighup \/ Vanish
    BY <1>9 DEF Sighup, Vanish, PathInv, Above, server, env
  <1>10. CASE Lose
    BY <1>10 DEF Lose, PathInv, TypeInv, StateInv
  <1> QED
    BY <1>1, <1>2, <1>3, <1>4, <1>5, <1>6, <1>7, <1>8, <1>9, <1>10 DEF Next, ClientStep, Rest

\* No upload is tried into a directory that is missing, unless this command's
\* MKD for it was refused, or the session was lost: ftp_mkpath() forgets the
\* path it made last when a command starts, so that what it skips is there.
THEOREM PathIsMade == Spec => []PathMade
  <1>1. Init => PathInv
    BY DEF Init, PathInv
  <1>2. TypeInv /\ PathInv /\ [Next]_vars => PathInv'
    BY StepPath, Zenon
  <1>3. PathInv => PathMade
    BY DEF PathInv, PathMade
  <1>4. Spec => []TypeInv
    BY Typing, PTL
  <1> QED
    BY <1>1, <1>2, <1>3, <1>4, PTL DEF Spec


-----------------------------------------------------------------------------
(* Local files are deleted after they were sent.                           *)

LEMMA StepWhole ==
  ASSUME ~AbortDelete, TypeInv, WholeInv, [Next]_vars
  PROVE  WholeInv'
  <1>1. CASE UNCHANGED <<opt, cur, files>> /\ (pc' = "done" => pc = "done")
    BY <1>1 DEF WholeInv
  <1>2. CASE pc' # "done"
    BY <1>2 DEF WholeInv
  <1>3. CASE UNCHANGED vars
    BY <1>1, <1>3 DEF vars, server
  <1>4. CASE CmdPut \/ NextItem \/ MakePath \/ Exists \/ AskOverwrite \/ AfterUpload \/ AfterFile
    <2>1. CASE CmdPut \/ NextItem
      BY <1>2, <2>1, NextItemForm DEF CmdPut
    <2>2. CASE MakePath \/ Exists \/ AskOverwrite \/ AfterUpload \/ AfterFile
      BY <1>2, <2>2, MakePathForm, ExistsForm, OverwriteForm, AfterUploadForm, AfterFileForm
         DEF PutfileReturns, Sending
    <2> QED
      BY <1>4, <2>1, <2>2
  <1>5. CASE Return
    <2>1. pc = "loop" /\ (pc' = pc \/ pc' \in {"prompt", "exited"})
      BY <1>5 DEF Return, Leave
    <2> QED
      BY <1>2, <2>1
  <1>6. CASE Upload /\ pc' = "done" /\ "delete" \in opt
    <2>1. PICK how \in Hows, whole \in BOOLEAN :
            /\ how = cur.how \/ how = "normal"
            /\ Writing(how, whole) /\ whole
      BY <1>6, UploadForm
    <2>2. cur \in Locals /\ cur.src \in Items /\ cur.dest \in RFiles /\ ServerInv
      BY <1>6, UploadForm DEF TypeInv, StateInv, Locals, AtItem
    <2>3. Stored(how) \in RFiles
      BY <2>2, StoredForm
    <2>4. cur'.src = cur.src /\ cur'.dest = Stored(how) /\ cur'.how = cur.how
      BY <2>1, <2>2, <2>3, CurStored DEF Writing
    <2>5. how # "resume" => cur.src \in Sent(Stored(how), cur.src, how, whole).has
      BY <2>1, <2>2, <2>3, SentForm
    <2>6. /\ Stored(how) \in DOMAIN files'
          /\ files'[Stored(how)] = Sent(Stored(how), cur.src, how, whole)
      BY <2>1 DEF Writing
    <2> QED
      BY <2>1, <2>4, <2>5, <2>6 DEF WholeInv
  <1>7. CASE Upload /\ ~(pc' = "done" /\ "delete" \in opt)
    BY <1>7, UploadForm DEF WholeInv
  <1>8. CASE Sighup \/ Lose \/ Vanish
    BY <1>1, <1>8 DEF Sighup, Lose, Vanish, server
  <1> QED
    BY <1>3, <1>4, <1>5, <1>6, <1>7, <1>8 DEF Next, ClientStep, Rest

\* put --delete-after deletes a local file only while the remote copy just
\* made holds it whole (a resumed one is trusted to be its beginning).  It is
\* not so if SIGINT ends the upload: ftp_send() takes that for a success.
THEOREM OnlySentDeleted ==
  ASSUME ~AbortDelete
  PROVE  Spec => DeleteOnlySent
  <1> DEFINE Deleted == \A i \in localfs \ localfs' :
               cur.how = "resume" \/ (cur.dest \in DOMAIN files /\ i \in files[cur.dest].has)
  <1>1. Init => WholeInv
    BY DEF Init, WholeInv
  <1>2. TypeInv /\ WholeInv /\ [Next]_vars => WholeInv'
    BY StepWhole, Zenon
  <1>3. TypeInv /\ WholeInv /\ [Next]_vars => [Deleted]_vars
    <2> SUFFICES ASSUME TypeInv, WholeInv, Next
                 PROVE  Deleted
      OBVIOUS
    <2>1. CASE AfterUpload
      BY <2>1, AfterUploadForm DEF WholeInv
    <2>2. CASE UNCHANGED localfs
      BY <2>2
    <2>3. AfterUpload \/ UNCHANGED localfs
      BY DEF Next, ClientStep, Rest, vars, CmdPut, Return, NextItem, MakePath, Exists, AskOverwrite, Upload,
             AfterFile, Sighup, Lose, Vanish
    <2> QED
      BY <2>1, <2>2, <2>3
  <1>4. Spec => []TypeInv
    BY Typing, PTL
  <1>5. Spec => [][Deleted]_vars
    BY <1>1, <1>2, <1>3, <1>4, PTL DEF Spec
  <1> QED
    BY <1>5 DEF DeleteOnlySent


-----------------------------------------------------------------------------
(* Remote files are kept.                                                  *)

\* What the cache lacks has been sent by this command.
LEMMA StepListing ==
  ASSUME TypeInv, ListingInv, [Next]_vars
  PROVE  ListingInv'
  <1>1. CASE UNCHANGED <<listings, files, sent>> /\ marked \subseteq marked' /\ pc # "prompt" /\ pc' # "prompt"
    BY <1>1 DEF ListingInv
  <1>2. CASE UNCHANGED vars
    BY <1>2 DEF vars, cache, server, ListingInv
  <1>3. CASE CmdPut
    BY <1>3 DEF CmdPut, cache, server, ListingInv
  <1>4. CASE Return
    <2>1. pc = "loop" /\ UNCHANGED files
      BY <1>4 DEF Return, server
    <2>2. \/ UNCHANGED <<pc, listings, marked, sent>>
          \/ listings' = Flushed /\ sent' = {}
      BY <1>4 DEF Return, cache
    <2>3. CASE listings' = Flushed /\ sent' = {}
      BY <2>1, <2>3 DEF ListingInv, Flushed
    <2> QED
      BY <1>1, <2>1, <2>2, <2>3
  <1>5. CASE NextItem \/ AskOverwrite \/ AfterUpload \/ AfterFile
    <2>1. /\ pc \in {"loop", "over", "done", "next"} /\ UNCHANGED <<cache, server, sent>>
      BY <1>5, NextItemForm, OverwriteForm, AfterUploadForm, AfterFileForm
    <2>2. pc' # "prompt"
      <3>1. CASE NextItem \/ AskOverwrite
        BY <3>1, NextItemForm, OverwriteForm DEF PutfileReturns, Sending
      <3>2. CASE AfterUpload \/ AfterFile
        BY <3>2, AfterUploadForm, AfterFileForm
      <3> QED
        BY <1>5, <3>1, <3>2
    <2> QED
      BY <1>1, <2>1, <2>2 DEF cache, server
  <1>6. CASE MakePath
    <2>1. pc = "mkpath" /\ UNCHANGED <<listings, files, sent>> /\ marked \subseteq marked' /\ pc' # "prompt"
      BY <1>6, MakePathForm DEF PutfileReturns
    <2> QED
      BY <1>1, <2>1
  <1>7. CASE Exists
    <2>1. /\ pc = "exists" /\ UNCHANGED <<files, marked, sent>> /\ pc' # "prompt"
          /\ \/ UNCHANGED listings
             \/ listings' = [d \in DOMAIN listings \cup {cur.dest.dir} |->
                               IF d = cur.dest.dir THEN InDir(d) ELSE listings[d]]
      BY <1>7, ExistsForm DEF server, PutfileReturns, Sending
    <2>2. CASE listings' = [d \in DOMAIN listings \cup {cur.dest.dir} |->
                              IF d = cur.dest.dir THEN InDir(d) ELSE listings[d]]
      BY <2>1, <2>2 DEF ListingInv, InDir
    <2> QED
      BY <1>1, <2>1, <2>2
  <1>8. CASE Upload
    <2>1. /\ pc = "send" /\ UNCHANGED listings /\ pc' # "prompt"
          /\ \/ UNCHANGED <<files, marked, sent>>
             \/ \E how \in Hows, whole \in BOOLEAN : Writing(how, whole)
      BY <1>8, UploadForm
    <2>2. ASSUME NEW how \in Hows, NEW whole \in BOOLEAN, Writing(how, whole)
          PROVE  ListingInv'
      <3>1. Stored(how).dir = cur.dest.dir
        BY StoredForm DEF TypeInv, StateInv, Locals
      <3>2. /\ DOMAIN files' = DOMAIN files \cup {Stored(how)}
            /\ marked' = marked \cup {cur.dest.dir} /\ sent' = sent \cup {Stored(how)}
        BY <2>2 DEF Writing
      <3> QED
        BY <2>1, <3>1, <3>2 DEF ListingInv
    <2> QED
      BY <1>1, <2>1, <2>2
  <1>9. CASE Sighup
    BY <1>9 DEF Sighup, cache, server, ListingInv
  <1>10. CASE Lose
    BY <1>10 DEF Lose, server, ListingInv
  <1>11. CASE Vanish
    BY <1>11 DEF Vanish, server, ListingInv
  <1> QED
    BY <1>2, <1>3, <1>4, <1>5, <1>6, <1>7, <1>8, <1>9, <1>10, <1>11 DEF Next, ClientStep, Rest

\* Where SIGHUP makes the program do what it would have asked about.
HupLate == HupAt \cap {"mkpath", "exists", "over"} = {}

LEMMA SendElsewhere ==
  ASSUME hasstou', ForceInv', pc' \notin {"mkpath", "exists", "over", "send"}
  PROVE  SendInv'
  BY DEF SendInv, HupInv, MadeInv, AgreedInv

LEMMA ForceKept ==
  ASSUME ForceInv, UNCHANGED opt, flags["owbatch"] => flags'["owbatch"]
  PROVE  ForceInv'
  BY DEF ForceInv

LEMMA NextItemSend ==
  ASSUME ServerStou, TypeInv, SendInv, NextItem
  PROVE  SendInv'
  <1>1. /\ pc' \in {"loop", "mkpath"} /\ opt' = HupOptions(opt) /\ UNCHANGED <<hasstou, sighup>>
        /\ flags["owbatch"] => flags'["owbatch"]
    BY NextItemForm DEF server, env
  <1>2. ForceInv' /\ (sighup' => "force" \in opt')
    <2>1. CASE sighup
      <3>1. opt' = (IF "resume" \notin opt /\ hasstou THEN opt \cup {"tryunique"} ELSE opt) \cup {"force"}
        BY <1>1, <2>1 DEF HupOptions
      <3>2. hasstou
        BY DEF SendInv
      <3> QED
        BY <3>1, <3>2 DEF ForceInv
    <2>2. CASE ~sighup
      <3>1. opt' = opt
        BY <1>1, <2>2 DEF HupOptions
      <3> QED
        BY <1>1, <2>2, <3>1, ForceKept DEF SendInv
    <2> QED
      BY <2>1, <2>2
  <1> QED
    BY <1>1, <1>2 DEF SendInv, HupInv, MadeInv, AgreedInv

LEMMA CmdPutSend ==
  ASSUME SendInv, CmdPut
  PROVE  SendInv'
  <1>1. pc' = "loop" /\ hasstou'
    BY DEF CmdPut, server, SendInv
  <1>2. PICK o \in OptionSets, l \in Lists :
          LET number == Len(l) + IF "tagged" \in o THEN Len(ltags) ELSE 0
              o1 == IF "force" \in o THEN o \ {"interactive"} ELSE o
              o2 == IF "output" \in o /\ "recursive" \notin o /\ number = 1 THEN o1 \cup {"ofile"} ELSE o1
          IN  /\ opt' = IF "nohup" \in o THEN NohupOptions(o2) ELSE o2
              /\ flags' = [f \in FlagNames |-> "force" \in o /\ f \in {"batch", "owbatch", "delbatch"}]
    BY Zenon DEF CmdPut
  <1>3. "force" \in o => flags'["owbatch"]
    BY <1>2 DEF FlagNames
  <1>4. "force" \in opt' => "force" \in o \/ opt' \cap {"tryunique", "unique", "resume"} # {}
    <2>1. hasstou
      BY DEF SendInv
    <2> QED
      BY <1>2, <2>1 DEF NohupOptions
  <1> QED
    BY <1>1, <1>3, <1>4, SendElsewhere DEF ForceInv

LEMMA MakePathSend ==
  ASSUME ~Ssh, TypeInv, SendInv, MakePath
  PROVE  SendInv'
  <1>1. /\ pc = "mkpath" /\ UNCHANGED <<opt, flags, files, hasstou, sighup>>
        /\ \/ pc' = "next"
           \/ \E d \in RFiles, m \in BOOLEAN :
                /\ pc' = "exists" /\ cur' = [cur EXCEPT !.dest = d, !.made = m]
                /\ m => d.dir \notin dirs
    BY MakePathForm DEF PutfileReturns, env
  <1>2. ForceInv'
    BY <1>1, ForceKept DEF SendInv
  <1>3. CASE pc' = "next"
    BY <1>1, <1>2, <1>3, SendElsewhere DEF SendInv
  <1>4. ASSUME NEW d \in RFiles, NEW m \in BOOLEAN, pc' = "exists",
               cur' = [cur EXCEPT !.dest = d, !.made = m], m => d.dir \notin dirs
        PROVE  SendInv'
    <2>1. cur'.dest = d /\ cur'.made = m
      BY <1>4, CurMade DEF TypeInv, StateInv
    <2>2. MadeInv'
      BY <1>1, <1>4, <2>1 DEF MadeInv, TypeInv, ServerInv
    <2> QED
      BY <1>1, <1>2, <1>4, <2>2 DEF SendInv, HupInv, AgreedInv
  <1> QED
    BY <1>1, <1>3, <1>4

\* A file that is found in no listing is new, or has been sent before.
LEMMA UnseenIsNew ==
  ASSUME TypeInv, ListingInv, MadeInv, pc = "exists", cur.dest \notin Looked,
         opt \cap {"unique", "force"} = {}
  PROVE  cur.dest \notin DOMAIN files \/ cur.dest \in sent
  <1>1. CASE cur.made
    BY <1>1 DEF MadeInv
  <1>2. CASE ~cur.made /\ cur.dest.dir \in DOMAIN listings
    <2>1. Looked = listings[cur.dest.dir]
      BY <1>2 DEF Looked
    <2> QED
      BY <1>2, <2>1 DEF ListingInv
  <1>3. CASE ~cur.made /\ cur.dest.dir \notin DOMAIN listings
    <2>1. Looked = InDir(cur.dest.dir)
      BY <1>3 DEF Looked
    <2> QED
      BY <2>1 DEF InDir
  <1>4. cur.made \in BOOLEAN
    BY DEF TypeInv, StateInv, Locals
  <1> QED
    BY <1>1, <1>2, <1>3, <1>4

LEMMA ExistsSend ==
  ASSUME TypeInv, ListingInv, SendInv, Exists
  PROVE  SendInv'
  <1>1. /\ pc = "exists" /\ UNCHANGED <<opt, flags, files, hasstou, sighup, sent>>
        /\ \/ pc' = "next"
           \/ pc' = "over" /\ cur.dest \in Looked
           \/ \E h \in Hows :
                /\ Sending(h)
                /\ \/ cur.dest \in consent' \/ h \in {"unique", "tryunique"}
                   \/ /\ cur.dest \notin Looked /\ h = "normal" /\ ~flags["owbatch"]
                      /\ opt \cap {"tryunique", "unique", "resume"} = {}
    BY ExistsForm DEF PutfileReturns, server, env
  <1>2. ForceInv'
    BY <1>1, ForceKept DEF SendInv
  <1>3. CASE pc' = "next"
    BY <1>1, <1>2, <1>3, SendElsewhere DEF SendInv
  <1>4. CASE pc' = "over" /\ cur.dest \in Looked
    <2>1. "force" \notin opt
      BY <1>4 DEF Looked
    <2>2. ~sighup'
      BY <1>1, <2>1 DEF SendInv, HupInv
    <2> QED
      BY <1>1, <1>2, <1>4, <2>2 DEF SendInv, HupInv, MadeInv, AgreedInv
  <1>5. ASSUME NEW h \in Hows, Sending(h),
               \/ cur.dest \in consent' \/ h \in {"unique", "tryunique"}
               \/ /\ cur.dest \notin Looked /\ h = "normal" /\ ~flags["owbatch"]
                  /\ opt \cap {"tryunique", "unique", "resume"} = {}
        PROVE  SendInv'
    <2>1. pc' = "send" /\ cur'.how = h /\ cur'.dest = cur.dest
      BY <1>5, CurHow DEF Sending, TypeInv, StateInv
    <2>2. CASE cur.dest \in consent' \/ h \in {"unique", "tryunique"}
      BY <1>1, <1>2, <2>1, <2>2 DEF SendInv, HupInv, MadeInv, AgreedInv
    <2>3. CASE /\ cur.dest \notin Looked /\ h = "normal" /\ ~flags["owbatch"]
               /\ opt \cap {"tryunique", "unique", "resume"} = {}
      <3>1. opt \cap {"unique", "force"} = {}
        BY <2>3 DEF SendInv, ForceInv
      <3>2. cur.dest \notin DOMAIN files \/ cur.dest \in sent
        BY <1>1, <2>3, <3>1, UnseenIsNew DEF SendInv
      <3> QED
        BY <1>1, <1>2, <2>1, <2>3, <3>2 DEF SendInv, HupInv, MadeInv, AgreedInv
    <2> QED
      BY <1>5, <2>2, <2>3
  <1> QED
    BY <1>1, <1>3, <1>4, <1>5

LEMMA OverwriteSend ==
  ASSUME TypeInv, SendInv, AskOverwrite
  PROVE  SendInv'
  <1>1. /\ pc = "over" /\ UNCHANGED <<opt, hasstou>> /\ ~sighup
        /\ flags["owbatch"] => flags'["owbatch"]
        /\ \/ pc' = "next"
           \/ \E h \in Hows : Sending(h) /\ (cur.dest \in consent' \/ h \in {"unique", "tryunique"})
    BY OverwriteForm DEF PutfileReturns, server, SendInv, HupInv
  <1>2. ForceInv'
    BY <1>1, ForceKept DEF SendInv
  <1>3. CASE pc' = "next"
    BY <1>1, <1>2, <1>3, SendElsewhere DEF SendInv
  <1>4. ASSUME NEW h \in Hows, Sending(h), cur.dest \in consent' \/ h \in {"unique", "tryunique"}
        PROVE  SendInv'
    <2>1. pc' = "send" /\ cur'.how = h /\ cur'.dest = cur.dest
      BY <1>4, CurHow DEF Sending, TypeInv, StateInv
    <2> QED
      BY <1>1, <1>2, <1>4, <2>1 DEF SendInv, HupInv, MadeInv, AgreedInv
  <1> QED
    BY <1>1, <1>3, <1>4

LEMMA StepSend ==
  ASSUME ServerStou, ~Ssh, HupLate, TypeInv, ListingInv, SendInv, [Next]_vars
  PROVE  SendInv'
  <1>1. CASE UNCHANGED vars
    BY <1>1 DEF vars, server, env, SendInv, ForceInv, HupInv, MadeInv, AgreedInv
  <1>2. CASE CmdPut \/ NextItem \/ MakePath
    BY <1>2, CmdPutSend, NextItemSend, MakePathSend
  <1>3. CASE Exists \/ AskOverwrite
    BY <1>3, ExistsSend, OverwriteSend
  <1>4. CASE Return
    <2>1. /\ hasstou' = hasstou /\ pc' \in {"loop", "prompt", "exited"}
          /\ opt' = {} \/ UNCHANGED <<opt, flags>>
      BY <1>4 DEF Return, Leave, server
    <2>2. ForceInv'
      BY <2>1 DEF SendInv, ForceInv
    <2> QED
      BY <2>1, <2>2, SendElsewhere DEF SendInv
  <1>5. CASE Upload
    BY <1>5, UploadForm, ForceKept, SendElsewhere DEF SendInv
  <1>6. CASE AfterUpload \/ AfterFile
    BY <1>6, AfterUploadForm, AfterFileForm, ForceKept, SendElsewhere DEF SendInv, server
  <1>7. CASE Sighup
    <2>1. /\ UNCHANGED <<cur, opt, flags, files, hasstou, consent, sent>>
          /\ pc \notin {"mkpath", "exists", "over"} /\ (pc' = pc \/ pc' = "exited")
      BY <1>7 DEF Sighup, HupLate, server
    <2> QED
      BY <2>1 DEF SendInv, ForceInv, HupInv, MadeInv, AgreedInv
  <1>8. CASE Lose \/ Vanish
    <2>1. UNCHANGED <<pc, cur, opt, flags, files, hasstou, consent, sent, sighup>>
      <3>1. CASE Lose
        BY <3>1 DEF Lose, server
      <3>2. CASE Vanish
        BY <3>2 DEF Vanish, env
      <3> QED
        BY <1>8, <3>1, <3>2
    <2> QED
      BY <2>1 DEF SendInv, ForceInv, HupInv, MadeInv, AgreedInv
  <1> QED
    BY <1>1, <1>2, <1>3, <1>4, <1>5, <1>6, <1>7, <1>8 DEF Next, ClientStep, Rest

\* "If the destination file already exists, ... you will be prompted what to
\* do" (put's manual): what a remote file holds whole is lost only if the user
\* agreed to it.  It needs a server that knows STOU (--nohup and SIGHUP rely on
\* it), ftp_mkpath()'s reply code (which ssh has not), a SIGHUP that does not
\* come between the choice of a file and the question about it, and no two files
\* that go to the same name: without any one of these TLC finds a file lost.
THEOREM RemoteFilesKept ==
  ASSUME ServerStou, ~Ssh, HupLate
  PROVE  Spec /\ []OneEach => RemoteKept
  <1> DEFINE Kept == \A f \in DOMAIN files : \A x \in files[f].has : x \in files'[f].has \/ f \in consent
  <1>1. Init => ListingInv /\ SendInv
    BY DEF Init, ListingInv, SendInv, ForceInv, HupInv, MadeInv, AgreedInv
  <1>2. TypeInv /\ ListingInv /\ [Next]_vars => ListingInv'
    BY StepListing, Zenon
  <1>3. TypeInv /\ ListingInv /\ SendInv /\ [Next]_vars => SendInv'
    BY StepSend, Zenon
  <1>4. TypeInv /\ SendInv /\ OneEach /\ [Next]_vars => [Kept]_vars
    <2> SUFFICES ASSUME TypeInv, SendInv, OneEach, Next
                 PROVE  Kept
      OBVIOUS
    <2>1. CASE UNCHANGED files
      BY <2>1
    <2>2. ASSUME Upload, NEW how \in Hows, NEW whole \in BOOLEAN,
                 how = cur.how \/ (how = "normal" /\ ~(hasstou /\ ServerStou)), Writing(how, whole)
          PROVE  Kept
      <3>1. pc = "send" /\ how = cur.how
        BY <2>2, UploadForm DEF SendInv
      <3>2. \A f \in DOMAIN files : f # Stored(how) => files'[f] = files[f]
        BY <2>2 DEF Writing
      <3>3. Stored(how) \notin DOMAIN files \/ Stored(how) \in consent
        <4>1. cur.dest \in RFiles /\ ServerInv
          BY DEF TypeInv, StateInv, Locals
        <4> QED
          BY <3>1, <4>1, StoredForm DEF SendInv, AgreedInv, OneEach
      <3> QED
        BY <3>2, <3>3
    <2>3. CASE Upload
      BY <2>1, <2>2, <2>3, UploadForm
    <2>4. Upload \/ UNCHANGED files
      <3>1. CASE MakePath
        BY <3>1, MakePathForm
      <3>2. CASE ~MakePath
        BY <3>2 DEF Next, ClientStep, Rest, vars, server, CmdPut, Return, NextItem, Exists, AskOverwrite,
                    AfterUpload, AfterFile, Sighup, Lose, Vanish
      <3> QED
        BY <3>1, <3>2
    <2> QED
      BY <2>1, <2>3, <2>4
  <1>5. Spec => []TypeInv
    BY Typing, PTL
  <1>6. Spec /\ []OneEach => [][Kept]_vars
    BY <1>1, <1>2, <1>3, <1>4, <1>5, PTL DEF Spec
  <1> QED
    BY <1>6 DEF RemoteKept
=============================================================================
