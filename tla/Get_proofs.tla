----------------------------- MODULE Get_proofs -----------------------------
(***************************************************************************)
(* What get keeps, for any tree of files, any lists and any options: local *)
(* files, remote files and tags.                                           *)
(***************************************************************************)
EXTENDS Get, Linklist_proofs, FiniteSetTheorems

-----------------------------------------------------------------------------
(* The inductive invariant.                                                *)

\* Where getfiles() is at the first item of the innermost list.
AtItem == {"resolve", "file", "over", "recv", "done", "unlink", "next"}

\* Parts of local paths.  (The provers do not know that "out" is a string.)
Parts == STRING \cup {"out"}

Frames == Walks(Items, Parts)
Files == [path : Seq(Parts), n : Nat]
Locals == [src : Items \cup {NoItem}, fp : Items \cup {NoItem}, cached : BOOLEAN, dest : Files,
           how : {"normal", "append", "resume"}, ok : BOOLEAN]
Contents == [has : SUBSET (Items \cup {User}), part : Items \cup {NoItem}]

StateInv ==
  /\ pc \in Pcs /\ cur \in Locals /\ flags \in [FlagNames -> BOOLEAN]
  /\ sighup \in BOOLEAN /\ connected \in BOOLEAN /\ drops \in Nat
  /\ taglist \in Seq(Items) /\ remote \subseteq Items
  /\ pc \in AtItem => cur.src \in Items /\ cur.fp \in Items

\* The activations of getfiles(): every one but the innermost is at an item.
FrameInv ==
  /\ frames \in Seq(Frames)
  /\ pc \in {"prompt", "exited"} <=> frames = <<>>
  /\ \A k \in 1 .. Len(frames) - 1 : frames[k].todo # <<>>
  /\ pc \in AtItem => Top.todo # <<>> /\ cur.src = Item

LocalInv ==
  /\ IsFiniteSet(DOMAIN local) /\ DOMAIN local \subseteq Files
  /\ local \in [DOMAIN local -> Contents]

TypeInv == StateInv /\ FrameInv /\ LocalInv

\* What leaves the tag list has been dealt with, or is a directory.
TagInv ==
  /\ TagsKept
  /\ \A k \in 1 .. Len(frames) - 1 : frames[k].tags => Head(frames[k].todo) \in Directories
  /\ pc \in AtItem /\ cur.fp \in Directories => cur.src \in Directories
  /\ pc \in {"done", "unlink"} => cur.src \in dealt
  /\ pc = "next" /\ cur.ok => cur.src \in dealt

\* A file that is there is received into with the user's consent only; after
\* SIGHUP the options see to it that nobody needs to be asked.
ConsentInv ==
  /\ pc = "recv" /\ cur.dest \in DOMAIN local => cur.dest \in consent
  /\ pc \in {"resolve", "file"} /\ sighup => opt \cap {"unique", "resume"} # {}
  /\ pc = "over" => ~sighup

\* Only what has been received whole is on the way to being deleted.
WholeInv == pc \in {"done", "unlink"} => cur.how = "resume" \/ cur.fp \in local[cur.dest].has

-----------------------------------------------------------------------------
(* Lists, names and files.                                                 *)

LEMMA SortedItems ==
  ASSUME NEW s \in Seq(Items)
  PROVE  Sorted(s) \in Seq(Items) /\ ToSet(Sorted(s)) = ToSet(s)
  <1>1. /\ Only(s, First) \in Seq(Items) /\ ToSet(Only(s, First)) = ToSet(s) \cap First
        /\ Only(s, Items \ First) \in Seq(Items)
        /\ ToSet(Only(s, Items \ First)) = ToSet(s) \cap (Items \ First)
    BY OnlyProperties
  <1>2. ToSet(s) \subseteq Items
    BY ElementOfSeq, LenProperties DEF ToSet
  <1>3. Sorted(s) \in Seq(Items)
    BY <1>1, ConcatProperties DEF Sorted
  <1>4. ToSet(Sorted(s)) = ToSet(Only(s, First)) \cup ToSet(Only(s, Items \ First))
    BY <1>1, ConcatItems DEF Sorted
  <1> QED
    BY <1>1, <1>2, <1>3, <1>4

LEMMA NamesTyped ==
  /\ UserFiles \subseteq Files /\ IsFiniteSet(UserFiles)
  /\ \A i \in Items : Name[i] \in Parts /\ DirName[i] \in Seq(Parts)
  <1>1. \A s \in Seq(STRING) : s \in Seq(Parts)
    BY DEF Parts
  <1> QED
    BY <1>1, GetAssumption DEF Files, Parts

LEMMA NewFrame ==
  ASSUME NEW l \in Seq(Items), NEW out \in Seq(Parts), NEW tags \in BOOLEAN
  PROVE  Frame(l, out, tags) \in Frames
  BY SortedItems DEF Frame, Frames, Walks

LEMMA TopFrame ==
  ASSUME frames \in Seq(Frames), frames # <<>>
  PROVE  Len(frames) \in Nat \ {0} /\ Top \in Frames
  <1>1. Len(frames) \in Nat \ {0}
    BY EmptySeq
  <1> QED
    BY <1>1, ElementOfSeq DEF Top

LEMMA NextFileKeeps ==
  ASSUME frames \in Seq(Frames), frames # <<>>, Top.todo # <<>>, taglist \in Seq(Items),
         NEW remove \in BOOLEAN, NextFile(remove)
  PROVE  /\ frames' \in Seq(Frames) /\ Len(frames') = Len(frames) /\ frames' # <<>>
         /\ \A k \in 1 .. Len(frames) - 1 : frames'[k] = frames[k]
         /\ taglist' \in Seq(Items)
         /\ ToSet(taglist) \subseteq ToSet(taglist') \cup (IF remove THEN {Item} ELSE {})
  <1>1. Len(frames) \in Nat \ {0}
    BY TopFrame
  <1>2. frames' = Popped(frames, Len(frames))
    BY DEF NextFile, Popped
  <1>3. /\ frames' \in Seq(Frames) /\ Len(frames') = Len(frames) /\ frames' # <<>>
        /\ \A k \in 1 .. Len(frames) : k # Len(frames) => frames'[k] = frames[k]
    <2>1. Len(frames) \in 1 .. Len(frames) /\ frames[Len(frames)].todo # <<>>
      BY <1>1 DEF Top
    <2> QED
      BY <1>2, <2>1, PoppedProperties DEF Frames
  <1>4. taglist' = taglist \/ (remove /\ taglist' = Without(taglist, Item))
    BY DEF NextFile
  <1>5. /\ Without(taglist, Item) \in Seq(Items)
        /\ ToSet(Without(taglist, Item)) = ToSet(taglist) \ {Item}
    BY WithoutProperties
  <1> QED
    BY <1>1, <1>3, <1>4, <1>5

\* make_unique_filename() finds a name: there are more numbers than files.
LEMMA UniqueIsNew ==
  ASSUME LocalInv, NEW d \in Files
  PROVE  Unique(d) \in Files /\ Unique(d) \notin DOMAIN local
  <1> DEFINE N == Cardinality(DOMAIN local)
             name(k) == [d EXCEPT !.n = k]
             free == {k \in 0 .. N : name(k) \notin DOMAIN local}
  <1>1. N \in Nat /\ IsFiniteSet(DOMAIN local)
    BY FS_CardinalityType DEF LocalInv
  <1>2. \A k \in Nat : name(k) \in Files /\ name(k).n = k
    BY DEF Files
  <1> HIDE DEF name
  <1>3. free # {}
    <2> SUFFICES ASSUME \A k \in 0 .. N : name(k) \in DOMAIN local
                 PROVE  FALSE
      OBVIOUS
    <2> DEFINE f == [k \in 0 .. N |-> name(k)]
    <2>1. f \in [0 .. N -> DOMAIN local]
      OBVIOUS
    <2>2. IsFiniteSet(0 .. N) /\ Cardinality(0 .. N) = N + 1
      BY <1>1, FS_Interval
    <2>3. N < N + 1
      BY <1>1
    <2> HIDE DEF f
    <2>4. PICK x \in 0 .. N, y \in 0 .. N : x # y /\ f[x] = f[y]
      BY <1>1, <2>1, <2>2, <2>3, FS_PigeonHole
    <2>5. name(x) = name(y) /\ x \in Nat /\ y \in Nat
      BY <1>1, <2>4 DEF f
    <2> QED
      BY <1>2, <2>4, <2>5
  <1>4. free \subseteq Nat
    OBVIOUS
  <1>5. PICK k \in free : \A j \in free : k <= j
    BY <1>3, <1>4, Least
  <1>6. PICK m \in free : Unique(d) = name(m)
    BY <1>5 DEF Unique, name
  <1> QED
    BY <1>2, <1>4, <1>6
-----------------------------------------------------------------------------
(* The locals of getfile(), and what its steps are.                        *)

LEMMA CurOk ==
  ASSUME cur \in Locals, NEW ok \in BOOLEAN, cur' = [cur EXCEPT !.ok = ok]
  PROVE  /\ cur' \in Locals /\ cur'.src = cur.src /\ cur'.fp = cur.fp /\ cur'.dest = cur.dest
         /\ cur'.how = cur.how /\ cur'.ok = ok
  BY DEF Locals

LEMMA CurDest ==
  ASSUME cur \in Locals, NEW d \in Files, cur' = [cur EXCEPT !.dest = d]
  PROVE  cur' \in Locals /\ cur'.src = cur.src /\ cur'.fp = cur.fp /\ cur'.dest = d
  BY DEF Locals

LEMMA CurReceives ==
  ASSUME cur \in Locals, NEW d \in Files, NEW how \in {"normal", "append", "resume"},
         cur' = [cur EXCEPT !.dest = d, !.how = how]
  PROVE  cur' \in Locals /\ cur'.src = cur.src /\ cur'.fp = cur.fp /\ cur'.dest = d
  <1> DEFINE c == [cur EXCEPT !.dest = d]
  <1>1. c \in Locals /\ c.src = cur.src /\ c.fp = cur.fp /\ c.dest = d
    BY DEF Locals
  <1>2. cur' = [c EXCEPT !.how = how]
    OBVIOUS
  <1> HIDE DEF c
  <1> QED
    BY <1>1, <1>2 DEF Locals

LEMMA CurLinked ==
  ASSUME cur \in Locals, NEW to \in Items, cur' = [cur EXCEPT !.fp = to, !.cached = TRUE]
  PROVE  cur' \in Locals /\ cur'.src = cur.src /\ cur'.fp = to
  <1> DEFINE c == [cur EXCEPT !.fp = to]
  <1>1. c \in Locals /\ c.src = cur.src /\ c.fp = to
    BY DEF Locals
  <1>2. cur' = [c EXCEPT !.cached = TRUE]
    OBVIOUS
  <1> HIDE DEF c
  <1> QED
    BY <1>1, <1>2 DEF Locals

LEMMA CurNew ==
  /\ NoCur \in Locals
  /\ \A i \in Items : LET c == [NoCur EXCEPT !.src = i, !.fp = i]
                      IN  c \in Locals /\ c.src = i /\ c.fp = i
  <1>1. NoCur.dest \in Files
    BY DEF NoCur, Files
  <1> QED
    BY <1>1 DEF NoCur, Locals

\* getfile() up to the question: refused, failed, on to a file that nobody
\* needs to agree about, or that somebody agreed to, or on to the question.
Receiving(d, how) ==
  pc' = "recv" /\ cur' = [cur EXCEPT !.dest = d, !.how = how] /\ UNCHANGED dealt

LEMMA GetfileForm ==
  ASSUME TypeInv, Getfile
  PROVE  /\ pc = "file" /\ UNCHANGED <<frames, opt, mask, flags, taglist, files, env>>
         /\ \/ GetfileReturns(TRUE) /\ dealt' = dealt \cup {cur.src}
            \/ GetfileReturns(FALSE) /\ UNCHANGED dealt
            \/ \E d \in Files, how \in {"normal", "append", "resume"} :
                 /\ Receiving(d, how)
                 /\ \/ d \notin DOMAIN local \/ d \in consent'
                    \/ sighup /\ opt \cap {"unique", "resume"} = {}
            \/ \E d \in Files :
                 /\ pc' = "over" /\ cur' = [cur EXCEPT !.dest = d] /\ UNCHANGED dealt
                 /\ ~sighup
  <1> DEFINE d == Destination(Top.out, cur.fp, Name[cur.src])
             Agreed(e) == e \notin DOMAIN local \/ e \in consent'
                          \/ (sighup /\ opt \cap {"unique", "resume"} = {})
             To == \E e \in Files, how \in {"normal", "append", "resume"} : Receiving(e, how) /\ Agreed(e)
             Question == pc' = "over" /\ cur' = [cur EXCEPT !.dest = d] /\ UNCHANGED dealt /\ ~sighup
  <1>1. pc = "file" /\ UNCHANGED <<frames, opt, mask, flags, taglist, files, env>>
    BY DEF Getfile
  <1>2. d \in Files
    <2>1. Top.out \in Seq(Parts)
      BY <1>1, TopFrame DEF TypeInv, FrameInv, Frames, Walks
    <2>2. Name[cur.src] \in Parts /\ DirName[cur.fp] \in Seq(Parts)
      BY <1>1, NamesTyped DEF TypeInv, StateInv, AtItem
    <2>3. /\ Append(Top.out, Name[cur.src]) \in Seq(Parts)
          /\ Top.out \o DirName[cur.fp] \o <<Name[cur.src]>> \in Seq(Parts)
      BY <2>1, <2>2
    <2> QED
      BY <2>1, <2>3 DEF Destination, Files
  <1>3. Unique(d) \in Files /\ Unique(d) \notin DOMAIN local
    BY <1>2, UniqueIsNew DEF TypeInv
  <1> HIDE DEF d
  <1>4. ASSUME NEW e \in Files, NEW how \in {"normal", "append", "resume"}, NEW agreed \in BOOLEAN,
               Receive(e, how, agreed), agreed \/ e \notin DOMAIN local
                                        \/ (sighup /\ opt \cap {"unique", "resume"} = {})
        PROVE  To
    BY <1>4 DEF Receive, Receiving
  <1> DEFINE Resumes == IF "resume" \in opt THEN "resume" ELSE "normal"
  <1>5. \/ Refuse
        \/ GetfileReturns(FALSE) /\ UNCHANGED <<consent, dealt>>
        \/ d \notin DOMAIN local /\ Receive(d, "normal", FALSE)
        \/ Receive(Unique(d), Resumes, FALSE)
        \/ Receive(d, IF "resume" \in opt THEN "resume" ELSE "append", TRUE)
        \/ Receive(d, Resumes, TRUE) \/ Receive(d, "resume", TRUE)
        \/ /\ opt \cap {"skip", "unique", "append", "newer", "resume"} = {}
           /\ IF flags["owbatch"] \/ sighup THEN Receive(d, "normal", flags["owbatch"])
              ELSE pc' = "over" /\ cur' = [cur EXCEPT !.dest = d] /\ UNCHANGED <<consent, dealt>>
    BY Zenon DEF Getfile, d
  <1>6. CASE Refuse
    BY <1>1, <1>6 DEF Refuse
  <1>7. CASE GetfileReturns(FALSE) /\ UNCHANGED <<consent, dealt>>
    BY <1>1, <1>7
  <1>8. CASE d \notin DOMAIN local /\ Receive(d, "normal", FALSE)
    BY <1>1, <1>2, <1>4, <1>8
  <1>9. CASE Receive(Unique(d), Resumes, FALSE)
    BY <1>1, <1>3, <1>4, <1>9
  <1>10. CASE \/ Receive(d, IF "resume" \in opt THEN "resume" ELSE "append", TRUE)
              \/ Receive(d, Resumes, TRUE) \/ Receive(d, "resume", TRUE)
    BY <1>1, <1>2, <1>4, <1>10
  <1>11. CASE /\ opt \cap {"skip", "unique", "append", "newer", "resume"} = {}
              /\ IF flags["owbatch"] \/ sighup THEN Receive(d, "normal", flags["owbatch"])
                 ELSE pc' = "over" /\ cur' = [cur EXCEPT !.dest = d] /\ UNCHANGED <<consent, dealt>>
    <2>1. flags["owbatch"] \in BOOLEAN
      BY DEF TypeInv, StateInv, FlagNames
    <2>2. opt \cap {"unique", "resume"} = {}
      BY <1>11
    <2>3. CASE flags["owbatch"] \/ sighup
      <3>1. Receive(d, "normal", flags["owbatch"])
        BY <1>11, <2>3
      <3>2. flags["owbatch"] \/ (sighup /\ opt \cap {"unique", "resume"} = {})
        BY <2>2, <2>3
      <3> QED
        BY <1>1, <1>2, <1>4, <2>1, <3>1, <3>2
    <2>4. CASE ~(flags["owbatch"] \/ sighup)
      BY <1>1, <1>2, <1>11, <2>4
    <2> QED
      BY <2>3, <2>4
  <1> QED
    BY <1>5, <1>6, <1>7, <1>8, <1>9, <1>10, <1>11

\* The answer to the question: refused, or on to the same file or a new one.
LEMMA OverwriteForm ==
  ASSUME TypeInv, AskOverwrite
  PROVE  /\ pc = "over" /\ UNCHANGED <<frames, opt, mask, taglist, files, env>>
         /\ flags' \in [FlagNames -> BOOLEAN]
         /\ \/ GetfileReturns(TRUE) /\ dealt' = dealt \cup {cur.src}
            \/ \E d \in Files, how \in {"normal", "append", "resume"} :
                 Receiving(d, how) /\ (d \notin DOMAIN local \/ d \in consent' \/ sighup)
  <1>1. pc = "over" /\ UNCHANGED <<frames, opt, mask, taglist, files, env>>
    BY DEF AskOverwrite
  <1>2. flags \in [FlagNames -> BOOLEAN] /\ cur.dest \in Files /\ sighup \in BOOLEAN
    BY DEF TypeInv, StateInv, Locals
  <1>3. Unique(cur.dest) \in Files /\ Unique(cur.dest) \notin DOMAIN local
    BY <1>2, UniqueIsNew DEF TypeInv
  <1>4. PICK a : \/ Refuse /\ \E q \in BOOLEAN : flags' = [flags EXCEPT !["quit"] = @ \/ q]
                 \/ Receive(Unique(cur.dest), "normal", FALSE) /\ UNCHANGED flags
                 \/ /\ Receive(cur.dest, IF a = "resume" THEN "resume" ELSE "normal", ~sighup)
                    /\ \E o \in BOOLEAN : flags' = [flags EXCEPT !["owbatch"] = @ \/ o]
    <2>1. PICK a \in Answers({"yes", "no", "cancel", "all", "unique", "resume"}, "resume") :
             \/ /\ a \in {"no", "cancel"}
                /\ Refuse
                /\ flags' = [flags EXCEPT !["quit"] = @ \/ a = "cancel"]
             \/ /\ a = "unique"
                /\ Receive(Unique(cur.dest), "normal", FALSE) /\ UNCHANGED flags
             \/ /\ a \in {"yes", "all", "resume"}
                /\ Receive(cur.dest, IF a = "resume" THEN "resume" ELSE "normal", ~sighup)
                /\ flags' = [flags EXCEPT !["owbatch"] = @ \/ a = "all"]
      BY DEF AskOverwrite
    <2> DEFINE q == a = "cancel"
               o == a = "all"
    <2>2. q \in BOOLEAN /\ o \in BOOLEAN
      OBVIOUS
    <2>3. \/ Refuse /\ flags' = [flags EXCEPT !["quit"] = @ \/ q]
          \/ Receive(Unique(cur.dest), "normal", FALSE) /\ UNCHANGED flags
          \/ /\ Receive(cur.dest, IF a = "resume" THEN "resume" ELSE "normal", ~sighup)
             /\ flags' = [flags EXCEPT !["owbatch"] = @ \/ o]
      BY <2>1, Zenon
    <2> HIDE DEF q, o
    <2> QED
      BY <2>2, <2>3
  <1>5. flags' \in [FlagNames -> BOOLEAN]
    BY <1>2, <1>4 DEF FlagNames
  <1>6. CASE Refuse
    BY <1>1, <1>5, <1>6 DEF Refuse
  <1>7. CASE Receive(Unique(cur.dest), "normal", FALSE)
    BY <1>1, <1>3, <1>5, <1>7 DEF Receive, Receiving
  <1>8. CASE Receive(cur.dest, IF a = "resume" THEN "resume" ELSE "normal", ~sighup)
    <2> DEFINE how == IF a = "resume" THEN "resume" ELSE "normal"
    <2>1. how \in {"normal", "append", "resume"} /\ Receiving(cur.dest, how)
          /\ (cur.dest \in consent' \/ sighup)
      BY <1>2, <1>8 DEF Receive, Receiving
    <2> HIDE DEF how
    <2> QED
      BY <1>1, <1>2, <1>5, <2>1
  <1> QED
    BY <1>4, <1>6, <1>7, <1>8
\* What a transfer leaves in the local file.
LEMMA ReceivedForm ==
  ASSUME LocalInv, NEW d \in Files, NEW i \in Items, NEW how \in {"normal", "append", "resume"},
         NEW whole \in BOOLEAN
  PROVE  /\ Received(d, i, how, whole) \in Contents
         /\ whole /\ how # "resume" => i \in Received(d, i, how, whole).has
  <1> DEFINE old == IF d \in DOMAIN local THEN local[d] ELSE Holding({}, NoItem)
             keep == IF how = "append" THEN old.has ELSE {}
  <1>1. old \in Contents /\ Holding({}, NoItem) \in Contents
    BY DEF LocalInv, Contents, Holding
  <1>2. keep \in SUBSET (Items \cup {User})
    BY <1>1 DEF Contents
  <1>3. Holding(keep \cup {i}, NoItem) \in Contents /\ Holding(keep, i) \in Contents
        /\ i \in Holding(keep \cup {i}, NoItem).has
    BY <1>2 DEF Holding, Contents
  <1>4. \/ how = "resume" /\ Received(d, i, how, whole) = Holding({}, NoItem)
        \/ Received(d, i, how, whole) = Holding(keep \cup {i}, NoItem)
        \/ ~whole /\ Received(d, i, how, whole) = Holding(keep, i)
    BY Zenon DEF Received
  <1> HIDE DEF old, keep
  <1> QED
    BY <1>1, <1>3, <1>4

LEMMA TransferForm ==
  ASSUME TypeInv, Transfer
  PROVE  /\ pc = "recv" /\ UNCHANGED <<frames, opt, mask, taglist, remote, consent, env>>
         /\ flags' \in [FlagNames -> BOOLEAN]
         /\ \/ /\ pc' = "done" /\ cur' = [cur EXCEPT !.ok = TRUE] /\ dealt' = dealt \cup {cur.src}
               /\ \E c \in Contents : /\ local' = WithFile(cur.dest, c)
                                      /\ cur.how = "resume" \/ cur.fp \in c.has
            \/ /\ pc' = "next"
               /\ \E ok \in BOOLEAN : /\ cur' = [cur EXCEPT !.ok = ok]
                                      /\ dealt' = IF ok THEN dealt \cup {cur.src} ELSE dealt
               /\ local' = local \/ \E c \in Contents : local' = WithFile(cur.dest, c)
  <1>1. pc = "recv" /\ UNCHANGED <<frames, opt, mask, taglist, remote, consent, env>>
    BY DEF Transfer
  <1>2. /\ cur.dest \in Files /\ cur.fp \in Items /\ cur.how \in {"normal", "append", "resume"}
        /\ flags \in [FlagNames -> BOOLEAN]
    BY <1>1 DEF TypeInv, StateInv, Locals, AtItem
  <1>3. CASE /\ local' = WithFile(cur.dest, Holding({cur.fp}, NoItem))
             /\ GetfileReturns(TRUE) /\ dealt' = dealt \cup {cur.src} /\ UNCHANGED flags
    <2>1. Holding({cur.fp}, NoItem) \in Contents
      BY <1>2 DEF Holding, Contents
    <2> QED
      BY <1>1, <1>2, <1>3, <2>1 DEF GetfileReturns
  <1>4. ASSUME NEW whole \in BOOLEAN, NEW opened \in BOOLEAN, NEW intr \in BOOLEAN,
               whole => opened,
               local' = IF opened THEN WithFile(cur.dest, Received(cur.dest, cur.fp, cur.how, whole))
                        ELSE local,
               flags' = [flags EXCEPT !["intr"] = @ \/ (intr /\ ~sighup)],
               dealt' = IF whole THEN dealt \cup {cur.src} ELSE dealt,
               IF whole THEN pc' = "done" /\ cur' = [cur EXCEPT !.ok = TRUE] ELSE GetfileReturns(FALSE)
        PROVE  /\ flags' \in [FlagNames -> BOOLEAN]
               /\ \/ /\ pc' = "done" /\ cur' = [cur EXCEPT !.ok = TRUE] /\ dealt' = dealt \cup {cur.src}
                     /\ \E c \in Contents : /\ local' = WithFile(cur.dest, c)
                                            /\ cur.how = "resume" \/ cur.fp \in c.has
                  \/ /\ pc' = "next"
                     /\ \E ok \in BOOLEAN : /\ cur' = [cur EXCEPT !.ok = ok]
                                            /\ dealt' = IF ok THEN dealt \cup {cur.src} ELSE dealt
                     /\ local' = local \/ \E c \in Contents : local' = WithFile(cur.dest, c)
    <2> DEFINE c == Received(cur.dest, cur.fp, cur.how, whole)
    <2>1. c \in Contents /\ (whole => cur.how = "resume" \/ cur.fp \in c.has)
      BY <1>2, ReceivedForm DEF TypeInv
    <2> HIDE DEF c
    <2>2. local' = IF opened THEN WithFile(cur.dest, c) ELSE local
      BY <1>4 DEF c
    <2>3. flags' \in [FlagNames -> BOOLEAN]
      BY <1>2, <1>4 DEF FlagNames
    <2>4. CASE whole
      BY <1>4, <2>1, <2>2, <2>3, <2>4
    <2>5. CASE ~whole
      BY <1>4, <2>1, <2>2, <2>3, <2>5 DEF GetfileReturns
    <2> QED
      BY <2>4, <2>5
  <1>5. \/ /\ local' = WithFile(cur.dest, Holding({cur.fp}, NoItem))
           /\ GetfileReturns(TRUE) /\ dealt' = dealt \cup {cur.src} /\ UNCHANGED flags
        \/ \E whole, opened, intr \in BOOLEAN :
             /\ whole => opened
             /\ local' = IF opened THEN WithFile(cur.dest, Received(cur.dest, cur.fp, cur.how, whole))
                         ELSE local
             /\ flags' = [flags EXCEPT !["intr"] = @ \/ (intr /\ ~sighup)]
             /\ dealt' = IF whole THEN dealt \cup {cur.src} ELSE dealt
             /\ IF whole THEN pc' = "done" /\ cur' = [cur EXCEPT !.ok = TRUE] ELSE GetfileReturns(FALSE)
    BY Zenon DEF Transfer, TransferResult
  <1> QED
    BY <1>1, <1>3, <1>4, <1>5

LEMMA AfterTransferForm ==
  ASSUME TypeInv, AfterTransfer
  PROVE  /\ pc = "done" /\ UNCHANGED <<frames, opt, mask, taglist, consent, dealt, files, env>>
         /\ flags' \in [FlagNames -> BOOLEAN]
         /\ GetfileReturns(TRUE) \/ (pc' = "unlink" /\ UNCHANGED cur)
  <1>1. flags \in [FlagNames -> BOOLEAN]
    BY DEF TypeInv, StateInv
  <1>2. /\ flags' = flags \/ \E b, q \in BOOLEAN :
                               flags' = [flags EXCEPT !["delbatch"] = @ \/ b, !["quit"] = @ \/ q]
        /\ GetfileReturns(TRUE) \/ (pc' = "unlink" /\ UNCHANGED cur)
    <2>1. CASE GetfileReturns(TRUE) /\ UNCHANGED flags
      BY <2>1
    <2>2. CASE ~(GetfileReturns(TRUE) /\ UNCHANGED flags)
      <3>1. PICK a : /\ flags' = [flags EXCEPT !["delbatch"] = @ \/ a = "all",
                                               !["quit"] = @ \/ a = "cancel"]
                     /\ IF a \in {"yes", "all"} THEN pc' = "unlink" /\ UNCHANGED cur
                        ELSE GetfileReturns(TRUE)
        BY <2>2 DEF AfterTransfer
      <3> DEFINE b == a = "all"
                 q == a = "cancel"
      <3>2. b \in BOOLEAN /\ q \in BOOLEAN
        OBVIOUS
      <3>3. flags' = [flags EXCEPT !["delbatch"] = @ \/ b, !["quit"] = @ \/ q]
        BY <3>1
      <3> HIDE DEF b, q
      <3> QED
        BY <3>1, <3>2, <3>3
    <2> QED
      BY <2>1, <2>2
  <1>3. flags' \in [FlagNames -> BOOLEAN]
    BY <1>1, <1>2 DEF FlagNames
  <1> QED
    BY <1>2, <1>3 DEF AfterTransfer
-----------------------------------------------------------------------------
(* Types and places.                                                       *)

LEMMA WithFileKeeps ==
  ASSUME LocalInv, NEW d \in Files, NEW c \in Contents, local' = WithFile(d, c)
  PROVE  /\ LocalInv' /\ DOMAIN local' = DOMAIN local \cup {d} /\ local'[d] = c
         /\ \A x \in DOMAIN local \ {d} : local'[x] = local[x]
  <1>1. local' = [x \in DOMAIN local \cup {d} |-> IF x = d THEN c ELSE local[x]]
    BY DEF WithFile
  <1>2. DOMAIN local' = DOMAIN local \cup {d}
    BY <1>1
  <1>3. \A x \in DOMAIN local : local[x] \in Contents
    BY DEF LocalInv
  <1>4. local' \in [DOMAIN local \cup {d} -> Contents]
    BY <1>1, <1>3
  <1>5. IsFiniteSet(DOMAIN local \cup {d})
    BY FS_AddElement DEF LocalInv
  <1> QED
    BY <1>1, <1>2, <1>4, <1>5 DEF LocalInv

LEMMA FilesKept ==
  ASSUME LocalInv, UNCHANGED local
  PROVE  LocalInv'
  BY DEF LocalInv

LEMMA FramesKept ==
  ASSUME FrameInv, UNCHANGED frames, pc \notin {"prompt", "exited"}, pc' \notin {"prompt", "exited"},
         pc' \in AtItem => pc \in AtItem /\ cur'.src = cur.src
  PROVE  FrameInv'
  BY DEF FrameInv, Top, Item

LEMMA FramesPopped ==
  ASSUME StateInv, FrameInv, frames # <<>>, Top.todo # <<>>, NEW remove \in BOOLEAN,
         NextFile(remove), pc' = "loop"
  PROVE  FrameInv' /\ taglist' \in Seq(Items)
  <1>1. /\ frames' \in Seq(Frames) /\ Len(frames') = Len(frames) /\ frames' # <<>>
        /\ \A k \in 1 .. Len(frames) - 1 : frames'[k] = frames[k]
        /\ taglist' \in Seq(Items)
    BY NextFileKeeps DEF StateInv, FrameInv
  <1> QED
    BY <1>1 DEF FrameInv, AtItem

LEMMA InitTyped ==
  ASSUME Init
  PROVE  TypeInv
  <1>1. StateInv
    <2>1. taglist \in Seq(Items) /\ drops \in Nat
      BY GetAssumption DEF Init
    <2>2. flags \in [FlagNames -> BOOLEAN]
      BY DEF Init
    <2>3. pc = "prompt" /\ cur = NoCur /\ remote = Items
      BY DEF Init
    <2>5. sighup \in BOOLEAN /\ connected \in BOOLEAN
      BY Zenon DEF Init
    <2>4. NoCur \in Locals
      BY CurNew
    <2> QED
      BY <2>1, <2>2, <2>3, <2>4, <2>5 DEF StateInv, Pcs, AtItem
  <1>2. FrameInv
    <2>1. frames = <<>> /\ <<>> \in Seq(Frames) /\ Len(<<>>) = 0 /\ pc = "prompt"
      BY DEF Init
    <2> QED
      BY <2>1 DEF FrameInv, AtItem
  <1>3. LocalInv
    <2>1. local = [d \in UserFiles |-> Holding({User}, NoItem)]
      BY DEF Init
    <2>2. Holding({User}, NoItem) \in Contents
      BY DEF Holding, Contents
    <2> QED
      BY <2>1, <2>2, NamesTyped DEF LocalInv
  <1> QED
    BY <1>1, <1>2, <1>3 DEF TypeInv

LEMMA CmdGetTyped ==
  ASSUME TypeInv, CmdGet
  PROVE  TypeInv'
  <1>1. /\ pc = "prompt" /\ pc' = "loop"
        /\ UNCHANGED <<cur, dealt, files, sighup, connected, tagged0, drops>>
    BY DEF CmdGet
  <1>2. PICK o \in OptionSets, l \in Lists :
          LET out == IF "output" \in o THEN <<"out">> ELSE <<>>
          IN  /\ flags' = [f \in FlagNames |-> "force" \in o /\ f \in {"batch", "owbatch", "delbatch"}]
              /\ frames' = IF l # <<>> THEN <<Frame(l, out, FALSE)>> ELSE <<Frame(taglist, out, TRUE)>>
              /\ taglist' = IF l # <<>> THEN taglist ELSE Sorted(taglist)
    BY DEF CmdGet
  <1> DEFINE out == IF "output" \in o THEN <<"out">> ELSE <<>>
  <1>3. taglist \in Seq(Items) /\ l \in Seq(Items) /\ out \in Seq(Parts)
    <2>1. <<"out">> \in Seq(Parts) /\ <<>> \in Seq(Parts)
      BY DEF Parts
    <2>2. out \in Seq(Parts)
      BY <2>1
    <2> QED
      BY <2>2, GetAssumption DEF TypeInv, StateInv
  <1>4. Sorted(taglist) \in Seq(Items)
    BY <1>3, SortedItems
  <1>5. PICK f \in Frames : frames' = <<f>>
    <2>1. Frame(l, out, FALSE) \in Frames /\ Frame(taglist, out, TRUE) \in Frames
      BY <1>3, NewFrame
    <2>2. frames' = <<Frame(l, out, FALSE)>> \/ frames' = <<Frame(taglist, out, TRUE)>>
      BY <1>2
    <2> QED
      BY <2>1, <2>2
  <1>6. StateInv'
    <2>1. flags' \in [FlagNames -> BOOLEAN]
      BY <1>2
    <2>2. taglist' \in Seq(Items)
      BY <1>2, <1>3, <1>4
    <2> QED
      BY <1>1, <2>1, <2>2 DEF TypeInv, StateInv, Pcs, AtItem, files
  <1>7. FrameInv'
    <2>1. frames' \in Seq(Frames) /\ Len(frames') = 1 /\ frames' # <<>>
      BY <1>5
    <2> QED
      BY <1>1, <2>1 DEF FrameInv, AtItem
  <1>8. LocalInv'
    BY <1>1, FilesKept DEF TypeInv, files
  <1> QED
    BY <1>6, <1>7, <1>8 DEF TypeInv

LEMMA ReturnTyped ==
  ASSUME TypeInv, Return
  PROVE  TypeInv'
  <1>1. pc = "loop" /\ UNCHANGED <<dealt, files, env>> /\ frames # <<>> /\ frames \in Seq(Frames)
    BY DEF Return, TypeInv, FrameInv
  <1>2. LocalInv'
    BY <1>1, FilesKept DEF TypeInv, files
  <1>3. Len(frames) \in Nat \ {0} /\ Top \in Frames
    BY <1>1, TopFrame
  <1> DEFINE outer == Callers(frames)
             Drop(e) == taglist' = taglist \/ taglist' = Without(taglist, e)
  <1>4. ASSUME Len(frames) > 1, frames' = Popped(outer, Len(outer)), NEW e, Drop(e),
               UNCHANGED <<pc, cur, opt, mask, flags, consent>>
        PROVE  TypeInv'
    <2>1. \A k \in 1 .. Len(frames) - 1 : frames[k].todo # <<>>
      BY DEF TypeInv, FrameInv
    <2>2. /\ frames' \in Seq(Frames) /\ Len(frames') = Len(frames) - 1 /\ frames' # <<>>
          /\ \A k \in 1 .. Len(frames) - 2 : frames'[k] = frames[k]
      BY <1>1, <1>4, <2>1, CallerProperties DEF Frames
    <2>3. taglist' \in Seq(Items)
      BY <1>4, WithoutProperties DEF TypeInv, StateInv
    <2>4. FrameInv'
      BY <1>1, <1>3, <1>4, <2>1, <2>2 DEF FrameInv, AtItem
    <2>5. StateInv'
      BY <1>1, <1>4, <2>3 DEF TypeInv, StateInv, files, env, AtItem
    <2> QED
      BY <1>2, <2>4, <2>5 DEF TypeInv
  <1>5. CASE /\ frames' = <<Frame(taglist, Top.out, TRUE)>> /\ taglist' = Sorted(taglist)
             /\ UNCHANGED <<pc, cur, opt, mask, flags, consent>>
    <2>1. Frame(taglist, Top.out, TRUE) \in Frames /\ Sorted(taglist) \in Seq(Items)
      BY <1>3, NewFrame, SortedItems DEF TypeInv, StateInv, Frames, Walks
    <2>2. frames' \in Seq(Frames) /\ Len(frames') = 1 /\ frames' # <<>>
      <3>1. PICK f \in Frames : frames' = <<f>>
        BY <1>5, <2>1
      <3> QED
        BY <3>1
    <2>3. pc' = "loop"
      BY <1>1, <1>5
    <2> HIDE DEF outer, Drop
    <2>5. FrameInv'
      BY <2>2, <2>3 DEF FrameInv, AtItem
    <2>4. StateInv'
      BY <1>1, <1>5, <2>1 DEF TypeInv, StateInv, files, env, AtItem
    <2> QED
      BY <1>2, <2>4, <2>5 DEF TypeInv
  <1>6. CASE Finish(sighup \/ "nohup" \in opt) /\ UNCHANGED taglist
    <2>1. /\ pc' \in {"prompt", "exited"} /\ frames' = <<>> /\ cur' = NoCur
          /\ flags' = [f \in FlagNames |-> FALSE]
      BY <1>6 DEF Finish
    <2>2. frames' \in Seq(Frames) /\ Len(frames') = 0
      BY <2>1
    <2>3. FrameInv'
      BY <2>1, <2>2 DEF FrameInv, AtItem
    <2>4. flags' \in [FlagNames -> BOOLEAN]
      BY <2>1
    <2>5. StateInv'
      BY <1>1, <1>6, <2>1, <2>4, CurNew DEF TypeInv, StateInv, files, env, AtItem, Pcs
    <2> QED
      BY <1>2, <2>3, <2>5 DEF TypeInv
  <1>7. \/ /\ Len(frames) > 1 /\ frames' = Popped(outer, Len(outer))
           /\ \E e : Drop(e)
           /\ UNCHANGED <<pc, cur, opt, mask, flags, consent>>
        \/ /\ frames' = <<Frame(taglist, Top.out, TRUE)>> /\ taglist' = Sorted(taglist)
           /\ UNCHANGED <<pc, cur, opt, mask, flags, consent>>
        \/ Finish(sighup \/ "nohup" \in opt) /\ UNCHANGED taglist
    BY Zenon DEF Return, Popped, Callers
  <1> QED
    BY <1>4, <1>5, <1>6, <1>7

LEMMA NextItemTyped ==
  ASSUME TypeInv, NextItem
  PROVE  TypeInv'
  <1>1. /\ pc = "loop" /\ Top.todo # <<>> /\ UNCHANGED <<mask, consent, files, env>>
        /\ frames # <<>> /\ frames \in Seq(Frames)
    BY DEF NextItem, TypeInv, FrameInv
  <1>2. LocalInv'
    BY <1>1, FilesKept DEF TypeInv, files
  <1>3. Item \in Items
    <2>1. Top.todo \in Seq(Items)
      BY <1>1, TopFrame DEF Frames, Walks
    <2> QED
      BY <1>1, <2>1 DEF Item
  <1>4. \/ NextFile(TRUE) /\ UNCHANGED <<pc, cur, flags>>
        \/ /\ flags' = [flags EXCEPT !["quit"] = TRUE]
           /\ UNCHANGED <<pc, cur, frames, taglist>>
        \/ /\ \E b \in BOOLEAN : flags' = [flags EXCEPT !["batch"] = @ \/ b]
           /\ cur' = [NoCur EXCEPT !.src = Item, !.fp = Item]
           /\ pc' = "resolve" /\ UNCHANGED <<frames, taglist>>
    <2>1. CASE NextFile(TRUE) /\ UNCHANGED <<pc, cur, flags>>
      BY <2>1
    <2>2. CASE ~(NextFile(TRUE) /\ UNCHANGED <<pc, cur, flags>>)
      <3>1. PICK a : \/ flags' = [flags EXCEPT !["quit"] = TRUE] /\ UNCHANGED <<pc, cur, frames, taglist>>
                     \/ /\ flags' = [flags EXCEPT !["batch"] = @ \/ a = "all"]
                        /\ cur' = [NoCur EXCEPT !.src = Item, !.fp = Item]
                        /\ pc' = "resolve" /\ UNCHANGED <<frames, taglist>>
        BY <2>2, Zenon DEF NextItem
      <3> DEFINE b == a = "all"
      <3>2. b \in BOOLEAN
        OBVIOUS
      <3>3. \/ flags' = [flags EXCEPT !["quit"] = TRUE] /\ UNCHANGED <<pc, cur, frames, taglist>>
            \/ /\ flags' = [flags EXCEPT !["batch"] = @ \/ b]
               /\ cur' = [NoCur EXCEPT !.src = Item, !.fp = Item]
               /\ pc' = "resolve" /\ UNCHANGED <<frames, taglist>>
        BY <3>1
      <3> HIDE DEF b
      <3> QED
        BY <3>2, <3>3
    <2> QED
      BY <2>1, <2>2
  <1>5. CASE NextFile(TRUE) /\ UNCHANGED <<pc, cur, flags>>
    <2>1. FrameInv' /\ taglist' \in Seq(Items)
      BY <1>1, <1>5, FramesPopped DEF TypeInv
    <2>2. StateInv'
      BY <1>1, <1>5, <2>1 DEF TypeInv, StateInv, AtItem, files, env
    <2> QED
      BY <1>2, <2>1, <2>2 DEF TypeInv
  <1>6. CASE flags' = [flags EXCEPT !["quit"] = TRUE] /\ UNCHANGED <<pc, cur, frames, taglist>>
    <2>1. flags' \in [FlagNames -> BOOLEAN]
      BY <1>6 DEF TypeInv, StateInv, FlagNames
    <2>2. FrameInv'
      BY <1>1, <1>6, FramesKept DEF TypeInv
    <2>3. StateInv'
      BY <1>1, <1>6, <2>1 DEF TypeInv, StateInv, AtItem, files, env
    <2> QED
      BY <1>2, <2>2, <2>3 DEF TypeInv
  <1>7. CASE /\ \E b \in BOOLEAN : flags' = [flags EXCEPT !["batch"] = @ \/ b]
             /\ cur' = [NoCur EXCEPT !.src = Item, !.fp = Item]
             /\ pc' = "resolve" /\ UNCHANGED <<frames, taglist>>
    <2>1. flags' \in [FlagNames -> BOOLEAN]
      BY <1>7 DEF TypeInv, StateInv, FlagNames
    <2>2. cur' \in Locals /\ cur'.src = Item /\ cur'.fp = Item
      BY <1>3, <1>7, CurNew
    <2>3. FrameInv'
      BY <1>1, <1>7, <2>2 DEF TypeInv, FrameInv, Top, Item
    <2>4. StateInv'
      BY <1>1, <1>3, <1>7, <2>1, <2>2 DEF TypeInv, StateInv, AtItem, Pcs, files, env
    <2> QED
      BY <1>2, <2>3, <2>4 DEF TypeInv
  <1> QED
    BY <1>4, <1>5, <1>6, <1>7

\* getfiles() goes on with the list after the item.
LEMMA PopTyped ==
  ASSUME TypeInv, pc \in AtItem, NEW remove \in BOOLEAN, NextFile(remove), pc' = "loop", cur' = NoCur,
         flags' \in [FlagNames -> BOOLEAN], UNCHANGED <<files, env>>
  PROVE  TypeInv'
  <1>1. frames # <<>> /\ Top.todo # <<>>
    BY DEF TypeInv, FrameInv, AtItem
  <1>2. FrameInv' /\ taglist' \in Seq(Items)
    BY <1>1, FramesPopped DEF TypeInv
  <1>3. LocalInv'
    BY FilesKept DEF TypeInv, files
  <1>4. StateInv'
    BY <1>2, CurNew DEF TypeInv, StateInv, AtItem, Pcs, files, env
  <1> QED
    BY <1>2, <1>3, <1>4 DEF TypeInv

\* A step of getfile(), or to it.
LEMMA StayTyped ==
  ASSUME TypeInv, pc \in AtItem, pc' \in AtItem, cur' \in Locals, cur'.src = cur.src, cur'.fp \in Items,
         flags' \in [FlagNames -> BOOLEAN], UNCHANGED <<frames, taglist, env>>, remote' \subseteq Items, LocalInv'
  PROVE  TypeInv'
  <1>1. FrameInv'
    BY FramesKept DEF TypeInv, AtItem
  <1>2. StateInv'
    BY DEF TypeInv, StateInv, AtItem, Pcs, env
  <1> QED
    BY <1>1, <1>2 DEF TypeInv

LEMMA ResolveTyped ==
  ASSUME TypeInv, FollowLink \/ Directory \/ NotAFile
  PROVE  TypeInv'
  <1>1. /\ pc = "resolve" /\ UNCHANGED <<opt, mask, flags, consent, files, env>>
        /\ frames # <<>> /\ frames \in Seq(Frames) /\ cur.fp \in Items /\ cur.src \in Items /\ cur \in Locals
        /\ flags \in [FlagNames -> BOOLEAN] /\ remote \subseteq Items
    BY DEF FollowLink, Directory, NotAFile, TypeInv, FrameInv, StateInv, AtItem
  <1>2. LocalInv'
    BY <1>1, FilesKept DEF TypeInv, files
  <1>3. CASE Pass
    BY <1>1, <1>3, PopTyped DEF Pass, AtItem
  <1>4. CASE pc' = "file" /\ UNCHANGED <<cur, frames, taglist, dealt>>
    BY <1>1, <1>2, <1>4, StayTyped DEF AtItem, files
  <1>5. CASE /\ cur' = [cur EXCEPT !.fp = Target[cur.fp], !.cached = TRUE]
             /\ UNCHANGED <<pc, frames, taglist, dealt>>
    <2>1. cur' \in Locals /\ cur'.src = cur.src /\ cur'.fp \in Items
      BY <1>1, <1>5, CurLinked, GetAssumption
    <2> QED
      BY <1>1, <1>2, <1>5, <2>1, StayTyped DEF AtItem, files
  <1> DEFINE inside == Only(Children[cur.fp], remote)
             out == IF "parents" \in opt THEN Top.out ELSE Append(Top.out, Name[cur.src])
  <1>6. CASE /\ frames' = Append(frames, Frame(inside, out, FALSE))
             /\ pc' = "loop" /\ cur' = NoCur /\ UNCHANGED <<taglist, dealt>>
    <2>1. inside \in Seq(Items)
      BY <1>1, OnlyProperties, GetAssumption
    <2>2. out \in Seq(Parts)
      <3>1. Top.out \in Seq(Parts) /\ Name[cur.src] \in Parts
        BY <1>1, TopFrame, NamesTyped DEF Frames, Walks
      <3> QED
        BY <3>1
    <2> HIDE DEF inside, out
    <2>3. Frame(inside, out, FALSE) \in Frames
      BY <2>1, <2>2, NewFrame
    <2>4. /\ frames' \in Seq(Frames) /\ Len(frames') = Len(frames) + 1 /\ frames' # <<>>
          /\ \A k \in 1 .. Len(frames) : frames'[k] = frames[k]
      <3>1. PICK f \in Frames : frames' = Append(frames, f)
        BY <1>6, <2>3
      <3> QED
        BY <1>1, <3>1, AppendProperties
    <2>5. FrameInv'
      <3>1. Len(frames) \in Nat \ {0} /\ Top.todo # <<>>
        BY <1>1, TopFrame DEF TypeInv, FrameInv, AtItem
      <3>2. \A k \in 1 .. Len(frames) : frames[k].todo # <<>>
        BY <3>1 DEF TypeInv, FrameInv, Top
      <3>3. \A k \in 1 .. Len(frames') - 1 : frames'[k].todo # <<>>
        BY <2>4, <3>1, <3>2
      <3> QED
        BY <1>6, <2>4, <3>3 DEF FrameInv, AtItem
    <2>6. StateInv'
      BY <1>1, <1>6, CurNew DEF TypeInv, StateInv, AtItem, Pcs, files, env
    <2> QED
      BY <1>2, <2>5, <2>6 DEF TypeInv
  <1>7. \/ Pass \/ (pc' = "file" /\ UNCHANGED <<cur, frames, taglist, dealt>>)
        \/ /\ cur' = [cur EXCEPT !.fp = Target[cur.fp], !.cached = TRUE]
           /\ UNCHANGED <<pc, frames, taglist, dealt>>
        \/ /\ frames' = Append(frames, Frame(inside, out, FALSE))
           /\ pc' = "loop" /\ cur' = NoCur /\ UNCHANGED <<taglist, dealt>>
    BY Zenon DEF FollowLink, Directory, NotAFile
  <1> QED
    BY <1>3, <1>4, <1>5, <1>6, <1>7

LEMMA GetfileTyped ==
  ASSUME TypeInv, Getfile \/ AskOverwrite
  PROVE  TypeInv'
  <1>1. /\ pc \in {"file", "over"} /\ UNCHANGED <<frames, taglist, files, env>>
        /\ flags' \in [FlagNames -> BOOLEAN] /\ cur \in Locals /\ cur.fp \in Items /\ remote \subseteq Items
    BY GetfileForm, OverwriteForm DEF TypeInv, StateInv, AtItem
  <1>2. LocalInv'
    BY <1>1, FilesKept DEF TypeInv, files
  <1>3. CASE \E ok \in BOOLEAN : GetfileReturns(ok)
    <2>1. cur' \in Locals /\ cur'.src = cur.src /\ cur'.fp = cur.fp /\ pc' = "next"
      BY <1>1, <1>3, CurOk DEF GetfileReturns
    <2> QED
      BY <1>1, <1>2, <2>1, StayTyped DEF AtItem, files
  <1>4. CASE \E d \in Files, how \in {"normal", "append", "resume"} : Receiving(d, how)
    <2>1. cur' \in Locals /\ cur'.src = cur.src /\ cur'.fp = cur.fp /\ pc' = "recv"
      BY <1>1, <1>4, CurReceives DEF Receiving
    <2> QED
      BY <1>1, <1>2, <2>1, StayTyped DEF AtItem, files
  <1>5. CASE \E d \in Files : pc' = "over" /\ cur' = [cur EXCEPT !.dest = d]
    <2>1. cur' \in Locals /\ cur'.src = cur.src /\ cur'.fp = cur.fp /\ pc' = "over"
      BY <1>1, <1>5, CurDest
    <2> QED
      BY <1>1, <1>2, <2>1, StayTyped DEF AtItem, files
  <1>6. \/ \E ok \in BOOLEAN : GetfileReturns(ok)
        \/ \E d \in Files, how \in {"normal", "append", "resume"} : Receiving(d, how)
        \/ \E d \in Files : pc' = "over" /\ cur' = [cur EXCEPT !.dest = d]
    <2>1. CASE Getfile
      BY <2>1, GetfileForm
    <2>2. CASE AskOverwrite
      BY <2>2, OverwriteForm
    <2> QED
      BY <2>1, <2>2
  <1> QED
    BY <1>3, <1>4, <1>5, <1>6

LEMMA ReceiveTyped ==
  ASSUME TypeInv, Transfer \/ AfterTransfer \/ Unlink
  PROVE  TypeInv'
  <1>1. /\ pc \in {"recv", "done", "unlink"} /\ pc' \in {"done", "unlink", "next"}
        /\ UNCHANGED <<frames, taglist, env>>
        /\ flags' \in [FlagNames -> BOOLEAN] /\ remote' \subseteq Items
        /\ cur' = cur \/ \E ok \in BOOLEAN : cur' = [cur EXCEPT !.ok = ok]
        /\ local' = local \/ \E c \in Contents : local' = WithFile(cur.dest, c)
    <2>1. flags \in [FlagNames -> BOOLEAN] /\ remote \subseteq Items
      BY DEF TypeInv, StateInv
    <2>2. CASE Transfer
      BY <2>1, <2>2, TransferForm
    <2>3. CASE AfterTransfer
      BY <2>1, <2>3, AfterTransferForm DEF GetfileReturns, files
    <2>4. CASE Unlink
      BY <2>1, <2>4 DEF Unlink, GetfileReturns
    <2> QED
      BY <2>2, <2>3, <2>4
  <1>2. cur \in Locals /\ cur.dest \in Files /\ cur.fp \in Items
    BY <1>1 DEF TypeInv, StateInv, Locals, AtItem
  <1>3. cur' \in Locals /\ cur'.src = cur.src /\ cur'.fp \in Items
    BY <1>1, <1>2, CurOk
  <1>4. LocalInv'
    BY <1>1, <1>2, FilesKept, WithFileKeeps DEF TypeInv
  <1> QED
    BY <1>1, <1>3, <1>4, StayTyped DEF AtItem

LEMMA AfterFileTyped ==
  ASSUME TypeInv, AfterFile
  PROVE  TypeInv'
  <1>1. pc = "next" /\ NextFile(cur.ok) /\ pc' = "loop" /\ cur' = NoCur /\ UNCHANGED <<files, env>>
    BY DEF AfterFile
  <1>2. cur.ok \in BOOLEAN /\ flags \in [FlagNames -> BOOLEAN]
    BY DEF TypeInv, StateInv, Locals
  <1>3. flags' \in [FlagNames -> BOOLEAN]
    <2>1. PICK a : flags' = [flags EXCEPT !["intr"] = FALSE, !["quit"] = @ \/ a = "no"]
      BY DEF AfterFile
    <2> DEFINE q == a = "no"
    <2>2. q \in BOOLEAN
      OBVIOUS
    <2>3. flags' = [flags EXCEPT !["intr"] = FALSE, !["quit"] = @ \/ q]
      BY <2>1
    <2> HIDE DEF q
    <2> QED
      BY <1>2, <2>2, <2>3 DEF FlagNames
  <1> QED
    BY <1>1, <1>2, <1>3, PopTyped DEF AtItem

\* SIGHUP, and the loss of the session.
LEMMA EventTyped ==
  ASSUME TypeInv, Sighup \/ Lose
  PROVE  TypeInv'
  <1>1. /\ UNCHANGED <<frames, cur, opt, mask, flags, consent, dealt, files, tagged0, gets>>
        /\ pc' \in Pcs /\ (pc' \in {"prompt", "exited"} <=> pc \in {"prompt", "exited"})
        /\ pc' \in AtItem => pc' = pc
    BY DEF Sighup, Lose, TypeInv, StateInv, Pcs, AtItem
  <1>2. sighup' \in BOOLEAN /\ connected' \in BOOLEAN
    BY Zenon DEF Sighup, Lose, TypeInv, StateInv
  <1>3. taglist' \in Seq(Items) /\ drops' \in Nat
    <2>1. drops' = drops \/ drops' = drops + 1
      BY DEF Sighup, Lose
    <2>2. taglist' = taglist \/ taglist' = <<>>
      BY DEF Sighup, Lose
    <2>3. taglist \in Seq(Items) /\ <<>> \in Seq(Items)
      BY DEF TypeInv, StateInv
    <2>4. drops \in Nat
      BY DEF TypeInv, StateInv
    <2>5. taglist' \in Seq(Items)
      BY <2>2, <2>3, Zenon
    <2>6. drops' \in Nat
      BY <2>1, <2>4
    <2> QED
      BY <2>5, <2>6
  <1>4. StateInv'
    BY <1>1, <1>2, <1>3 DEF TypeInv, StateInv, files
  <1>5. FrameInv'
    BY <1>1 DEF TypeInv, FrameInv, Top, Item
  <1>6. LocalInv'
    BY <1>1, FilesKept DEF TypeInv, files
  <1> QED
    BY <1>4, <1>5, <1>6 DEF TypeInv

LEMMA StepTyped ==
  ASSUME TypeInv, [Next]_vars
  PROVE  TypeInv'
  <1>1. CASE UNCHANGED vars
    BY <1>1 DEF vars, files, env, TypeInv, StateInv, FrameInv, LocalInv, Top, Item
  <1>2. CASE CmdGet
    BY <1>2, CmdGetTyped
  <1>3. CASE ClientStep
    BY <1>3, ReturnTyped, NextItemTyped, ResolveTyped, GetfileTyped, ReceiveTyped, AfterFileTyped
       DEF ClientStep
  <1>4. CASE Sighup \/ Lose
    BY <1>4, EventTyped
  <1> QED
    BY <1>1, <1>2, <1>3, <1>4 DEF Next, Rest

\* The program's variables always hold what they are meant to hold.
THEOREM Typing == Spec => [](TypeInv /\ TypeOK)
  <1>1. Init => TypeInv
    BY InitTyped
  <1>2. TypeInv /\ [Next]_vars => TypeInv'
    BY StepTyped, Zenon
  <1>3. TypeInv => TypeOK
    <2> SUFFICES ASSUME TypeInv
                 PROVE  TypeOK
      OBVIOUS
    <2>1. \A k \in DOMAIN frames : frames[k].todo \in Seq(Items) /\ frames[k].tags \in BOOLEAN
      <3>1. \A k \in DOMAIN frames : frames[k] \in Frames
        BY LenProperties, ElementOfSeq DEF TypeInv, FrameInv
      <3> QED
        BY <3>1 DEF Frames, Walks
    <2>2. \A d \in DOMAIN local : local[d].has \subseteq Items \cup {User}
      <3>1. \A d \in DOMAIN local : local[d] \in Contents
        BY DEF TypeInv, LocalInv
      <3> QED
        BY <3>1 DEF Contents
    <2>3. (pc \in {"prompt", "exited"}) = (frames = <<>>)
      BY DEF TypeInv, FrameInv
    <2>4. cur.src \in Items \cup {NoItem} /\ cur.fp \in Items \cup {NoItem}
      BY DEF TypeInv, StateInv, Locals
    <2> QED
      BY <2>1, <2>2, <2>3, <2>4 DEF TypeInv, StateInv, TypeOK
  <1>4. Spec => []TypeInv
    BY <1>1, <1>2, PTL DEF Spec
  <1> QED
    BY <1>3, <1>4, PTL

-----------------------------------------------------------------------------
(* The tag list.                                                           *)

LEMMA DirectoriesClosed ==
  ASSUME NEW i \in Items
  PROVE  /\ Kind[i] = "dir" => i \in Directories
         /\ Kind[i] = "link" /\ Target[i] \in Directories => i \in Directories
  <1>1. ASSUME Kind[i] = "dir"
        PROVE  i \in Directories
    BY <1>1 DEF Directories
  <1>2. ASSUME Kind[i] = "link", Target[i] \in Directories
        PROVE  i \in Directories
    <2>1. ASSUME NEW S \in SUBSET Items, i \in S, Closed(S)
          PROVE  \E j \in S : Kind[j] = "dir"
      <3>1. Target[i] \in S
        BY <1>2, <2>1 DEF Closed
      <3> QED
        BY <1>2, <2>1, <3>1 DEF Directories
    <2> QED
      BY <2>1 DEF Directories
  <1> QED
    BY <1>1, <1>2

LEMMA TagsStay ==
  ASSUME TagsKept, UNCHANGED <<tagged0, drops>>, dealt \subseteq dealt',
         ToSet(taglist) \subseteq ToSet(taglist') \cup dealt' \cup Directories
  PROVE  TagsKept'
  <1>1. CASE drops > 0
    BY <1>1 DEF TagsKept
  <1>2. CASE \A i \in tagged0 : i \in ToSet(taglist) \cup dealt \cup Directories
    <2>1. \A i \in tagged0' : i \in ToSet(taglist') \cup dealt' \cup Directories
      BY <1>2
    <2> QED
      BY <2>1 DEF TagsKept
  <1> QED
    BY <1>1, <1>2 DEF TagsKept

LEMMA TagsPopped ==
  ASSUME TypeInv, TagInv, Top.todo # <<>>, frames # <<>>, NEW remove \in BOOLEAN, NextFile(remove),
         pc' = "loop", UNCHANGED <<tagged0, drops>>, dealt \subseteq dealt',
         remove => Item \in dealt' \cup Directories
  PROVE  TagInv'
  <1>1. /\ Len(frames') = Len(frames)
        /\ \A k \in 1 .. Len(frames) - 1 : frames'[k] = frames[k]
        /\ ToSet(taglist) \subseteq ToSet(taglist') \cup (IF remove THEN {Item} ELSE {})
    BY NextFileKeeps DEF TypeInv, StateInv, FrameInv
  <1>2. TagsKept'
    <2>1. ToSet(taglist) \subseteq ToSet(taglist') \cup dealt' \cup Directories
      BY <1>1
    <2> QED
      BY <2>1, TagsStay DEF TagInv
  <1>3. \A k \in 1 .. Len(frames') - 1 : frames'[k].tags => Head(frames'[k].todo) \in Directories
    BY <1>1 DEF TagInv
  <1> QED
    BY <1>2, <1>3 DEF TagInv, AtItem

\* A step of getfile(): the lists stay.
LEMMA TagsRest ==
  ASSUME TagInv, UNCHANGED <<frames, taglist, tagged0, drops>>, dealt \subseteq dealt',
         cur'.src = cur.src, cur'.fp = cur.fp, pc \in AtItem, pc' \in {"file", "over", "recv", "done", "unlink", "next"},
         pc' \in {"done", "unlink"} => cur.src \in dealt',
         pc' = "next" /\ cur'.ok => cur.src \in dealt'
  PROVE  TagInv'
  <1>1. TagsKept'
    BY TagsStay DEF TagInv
  <1>2. \A k \in 1 .. Len(frames') - 1 : frames'[k].tags => Head(frames'[k].todo) \in Directories
    BY DEF TagInv
  <1> QED
    BY <1>1, <1>2 DEF TagInv, AtItem

LEMMA TagsReturn ==
  ASSUME TypeInv, TagInv, Return
  PROVE  TagInv'
  <1>1. pc = "loop" /\ UNCHANGED <<dealt, files, env>> /\ frames # <<>> /\ frames \in Seq(Frames)
    BY DEF Return, TypeInv, FrameInv
  <1>2. taglist \in Seq(Items)
    BY DEF TypeInv, StateInv
  <1> DEFINE outer == Callers(frames)
             Drop == LET l == Len(outer) IN
                     taglist' = IF outer[l].tags THEN Without(taglist, Head(outer[l].todo)) ELSE taglist
  <1>3. ASSUME Len(frames) > 1, frames' = Popped(outer, Len(outer)), Drop, UNCHANGED pc
        PROVE  TagInv'
    <2>1. \A k \in 1 .. Len(frames) - 1 : frames[k].todo # <<>>
      BY DEF TypeInv, FrameInv
    <2>2. /\ Len(frames') = Len(frames) - 1
          /\ outer[Len(outer)] = frames[Len(frames) - 1]
          /\ \A k \in 1 .. Len(frames) - 2 : frames'[k] = frames[k]
      BY <1>1, <1>3, <2>1, CallerProperties DEF Frames
    <2> DEFINE f == frames[Len(frames) - 1]
    <2>3. taglist' = taglist \/ (taglist' = Without(taglist, Head(f.todo)) /\ f.tags)
      BY <1>3, <2>2, Zenon
    <2>4. Len(frames) \in Nat
      BY <1>1, LenProperties
    <2>5. f.tags => Head(f.todo) \in Directories
      BY <1>3, <2>4 DEF TagInv
    <2>6. ToSet(Without(taglist, Head(f.todo))) = ToSet(taglist) \ {Head(f.todo)}
      BY <1>2, WithoutProperties
    <2> HIDE DEF outer, Drop, f
    <2>7. ToSet(taglist) \subseteq ToSet(taglist') \cup dealt' \cup Directories
      BY <2>3, <2>5, <2>6
    <2>8. TagsKept'
      BY <1>1, <2>7, TagsStay DEF TagInv, env
    <2>9. \A k \in 1 .. Len(frames') - 1 : frames'[k].tags => Head(frames'[k].todo) \in Directories
      BY <2>2, <2>4 DEF TagInv
    <2> QED
      BY <1>1, <1>3, <2>8, <2>9 DEF TagInv, AtItem
  <1>4. CASE frames' = <<Frame(taglist, Top.out, TRUE)>> /\ taglist' = Sorted(taglist) /\ UNCHANGED pc
    <2>1. ToSet(taglist') = ToSet(taglist)
      BY <1>2, <1>4, SortedItems
    <2>2. Len(frames') = 1
      <3>1. PICK f : frames' = <<f>>
        BY <1>4
      <3> QED
        BY <3>1
    <2>3. TagsKept'
      BY <1>1, <2>1, TagsStay DEF TagInv, env
    <2>4. pc' = "loop"
      BY <1>1, <1>4
    <2> QED
      BY <2>2, <2>3, <2>4 DEF TagInv, AtItem
  <1>5. CASE Finish(sighup \/ "nohup" \in opt) /\ UNCHANGED taglist
    <2>1. frames' = <<>> /\ pc' \in {"prompt", "exited"}
      BY <1>5 DEF Finish
    <2>2. Len(frames') = 0
      BY <2>1
    <2>3. TagsKept'
      BY <1>1, <1>5, TagsStay DEF TagInv, env
    <2> QED
      BY <2>1, <2>2, <2>3 DEF TagInv, AtItem
  <1>6. \/ Len(frames) > 1 /\ frames' = Popped(outer, Len(outer)) /\ Drop /\ UNCHANGED pc
        \/ frames' = <<Frame(taglist, Top.out, TRUE)>> /\ taglist' = Sorted(taglist) /\ UNCHANGED pc
        \/ Finish(sighup \/ "nohup" \in opt) /\ UNCHANGED taglist
    BY Zenon DEF Return, Popped, Callers
  <1> QED
    BY <1>3, <1>4, <1>5, <1>6

LEMMA TagsStep ==
  ASSUME TypeInv, TypeInv', TagInv, [Next]_vars
  PROVE  TagInv'
  <1>1. CASE UNCHANGED vars
    BY <1>1 DEF vars, files, env, TagInv, TagsKept
  <1>2. CASE CmdGet
    <2>1. /\ pc' = "loop" /\ UNCHANGED <<dealt, tagged0, drops>>
          /\ \E f, g : frames' = <<f>> \/ frames' = <<g>>
          /\ taglist' = taglist \/ taglist' = Sorted(taglist)
      <3>1. PICK l \in Lists, out \in {<<>>, <<"out">>} :
              /\ frames' = IF l # <<>> THEN <<Frame(l, out, FALSE)>> ELSE <<Frame(taglist, out, TRUE)>>
              /\ taglist' = IF l # <<>> THEN taglist ELSE Sorted(taglist)
        BY <1>2 DEF CmdGet
      <3>2. pc' = "loop" /\ UNCHANGED <<dealt, tagged0, drops>>
        BY <1>2 DEF CmdGet
      <3> QED
        BY <3>1, <3>2
    <2>2. Len(frames') = 1
      BY <2>1
    <2>3. ToSet(taglist') = ToSet(taglist)
      BY <2>1, SortedItems DEF TypeInv, StateInv
    <2>4. TagsKept'
      BY <2>1, <2>3, TagsStay DEF TagInv
    <2> QED
      BY <2>1, <2>2, <2>4 DEF TagInv, AtItem
  <1>3. CASE Return
    BY <1>3, TagsReturn
  <1>4. CASE NextItem
    <2>1. pc = "loop" /\ Top.todo # <<>> /\ UNCHANGED <<tagged0, drops>> /\ frames # <<>>
      BY <1>4 DEF NextItem, TypeInv, FrameInv, env
    <2>2. \/ NextFile(TRUE) /\ dealt' = dealt \cup {Item} /\ UNCHANGED pc
          \/ UNCHANGED <<pc, frames, taglist, dealt>>
          \/ /\ cur' = [NoCur EXCEPT !.src = Item, !.fp = Item]
             /\ pc' = "resolve" /\ UNCHANGED <<frames, taglist, dealt>>
      BY <1>4, Zenon DEF NextItem
    <2>3. CASE NextFile(TRUE) /\ dealt' = dealt \cup {Item} /\ UNCHANGED pc
      BY <2>1, <2>3, TagsPopped
    <2>4. CASE UNCHANGED <<pc, frames, taglist, dealt>>
      BY <2>1, <2>4 DEF TagInv, TagsKept, AtItem
    <2>5. CASE /\ cur' = [NoCur EXCEPT !.src = Item, !.fp = Item]
               /\ pc' = "resolve" /\ UNCHANGED <<frames, taglist, dealt>>
      <3>1. Item \in Items
        <4>1. Top.todo \in Seq(Items)
          BY <2>1, TopFrame DEF Frames, Walks, TypeInv, FrameInv
        <4> QED
          BY <2>1, <4>1 DEF Item
      <3>2. cur'.src = cur'.fp
        BY <2>5, <3>1, CurNew
      <3> QED
        BY <2>1, <2>5, <3>2 DEF TagInv, TagsKept, AtItem
    <2> QED
      BY <2>2, <2>3, <2>4, <2>5
  <1>5. CASE FollowLink \/ Directory \/ NotAFile
    <2>1. /\ pc = "resolve" /\ UNCHANGED <<tagged0, drops>> /\ frames # <<>> /\ Top.todo # <<>>
          /\ cur.src = Item /\ cur.fp \in Items
      BY <1>5 DEF FollowLink, Directory, NotAFile, TypeInv, StateInv, FrameInv, AtItem, env
    <2>2. CASE Pass
      BY <2>1, <2>2, TagsPopped DEF Pass
    <2>3. CASE pc' = "file" /\ UNCHANGED <<cur, frames, taglist, dealt>>
      BY <2>1, <2>3, TagsRest DEF AtItem
    <2>4. CASE /\ Kind[cur.fp] = "link" /\ cur' = [cur EXCEPT !.fp = Target[cur.fp], !.cached = TRUE]
               /\ UNCHANGED <<pc, frames, taglist, dealt>>
      <3>1. cur'.src = cur.src /\ cur'.fp = Target[cur.fp]
        BY <2>1, <2>4, CurLinked, GetAssumption DEF TypeInv, StateInv
      <3>2. cur'.fp \in Directories => cur'.src \in Directories
        BY <2>1, <2>4, <3>1, DirectoriesClosed DEF TagInv, AtItem
      <3> QED
        BY <2>1, <2>4, <3>2 DEF TagInv, TagsKept, AtItem
    <2>5. CASE /\ Kind[cur.fp] = "dir" /\ \E f : frames' = Append(frames, f)
               /\ pc' = "loop" /\ UNCHANGED <<taglist, dealt>>
      <3>1. Item \in Directories
        BY <2>1, <2>5, DirectoriesClosed DEF TagInv, AtItem
      <3>2. /\ frames' \in Seq(Frames) /\ frames' # <<>> /\ frames \in Seq(Frames)
            /\ Len(frames) \in Nat \ {0}
        BY <2>1, <2>5, TopFrame DEF TypeInv, FrameInv
      <3>3. Len(frames') = Len(frames) + 1 /\ \A k \in 1 .. Len(frames) : frames'[k] = frames[k]
        BY <2>5, <3>2, AppendProperties
      <3>4. \A k \in 1 .. Len(frames') - 1 : frames'[k].tags => Head(frames'[k].todo) \in Directories
        BY <3>1, <3>2, <3>3 DEF TagInv, Item, Top
      <3> QED
        BY <2>1, <2>5, <3>4 DEF TagInv, TagsKept, AtItem
    <2>6. \/ Pass \/ (pc' = "file" /\ UNCHANGED <<cur, frames, taglist, dealt>>)
          \/ /\ Kind[cur.fp] = "link" /\ cur' = [cur EXCEPT !.fp = Target[cur.fp], !.cached = TRUE]
             /\ UNCHANGED <<pc, frames, taglist, dealt>>
          \/ /\ Kind[cur.fp] = "dir" /\ \E f : frames' = Append(frames, f)
             /\ pc' = "loop" /\ UNCHANGED <<taglist, dealt>>
      BY <1>5, Zenon DEF FollowLink, Directory, NotAFile
    <2> QED
      BY <2>2, <2>3, <2>4, <2>5, <2>6
  <1>6. CASE Getfile \/ AskOverwrite
    <2>1. /\ pc \in {"file", "over"} /\ UNCHANGED <<frames, taglist, tagged0, drops>> /\ cur \in Locals
      BY <1>6, GetfileForm, OverwriteForm DEF TypeInv, StateInv, env
    <2>2. \/ \E ok \in BOOLEAN : GetfileReturns(ok) /\ dealt' = IF ok THEN dealt \cup {cur.src} ELSE dealt
          \/ \E d \in Files, how \in {"normal", "append", "resume"} : Receiving(d, how)
          \/ \E d \in Files : pc' = "over" /\ cur' = [cur EXCEPT !.dest = d] /\ UNCHANGED dealt
      <3>1. CASE Getfile
        BY <3>1, GetfileForm
      <3>2. CASE AskOverwrite
        BY <3>2, OverwriteForm
      <3> QED
        BY <1>6, <3>1, <3>2
    <2>3. CASE \E ok \in BOOLEAN :
                 GetfileReturns(ok) /\ dealt' = IF ok THEN dealt \cup {cur.src} ELSE dealt
      <3>1. PICK ok \in BOOLEAN :
              GetfileReturns(ok) /\ dealt' = IF ok THEN dealt \cup {cur.src} ELSE dealt
        BY <2>3
      <3>2. cur'.src = cur.src /\ cur'.fp = cur.fp /\ cur'.ok = ok /\ pc' = "next"
        BY <2>1, <3>1, CurOk DEF GetfileReturns
      <3>3. dealt \subseteq dealt' /\ (cur'.ok => cur.src \in dealt')
        BY <3>1, <3>2
      <3> QED
        BY <2>1, <3>2, <3>3, TagsRest DEF AtItem
    <2>4. CASE \E d \in Files, how \in {"normal", "append", "resume"} : Receiving(d, how)
      <3>1. cur'.src = cur.src /\ cur'.fp = cur.fp /\ pc' = "recv" /\ UNCHANGED dealt
        BY <2>1, <2>4, CurReceives DEF Receiving
      <3> QED
        BY <2>1, <3>1, TagsRest DEF AtItem
    <2>5. CASE \E d \in Files : pc' = "over" /\ cur' = [cur EXCEPT !.dest = d] /\ UNCHANGED dealt
      <3>1. cur'.src = cur.src /\ cur'.fp = cur.fp /\ pc' = "over" /\ UNCHANGED dealt
        BY <2>1, <2>5, CurDest
      <3> QED
        BY <2>1, <3>1, TagsRest DEF AtItem
    <2> QED
      BY <2>2, <2>3, <2>4, <2>5
  <1>7. CASE Transfer
    <2>1. pc = "recv" /\ UNCHANGED <<frames, taglist, tagged0, drops>> /\ cur \in Locals
      BY <1>7, TransferForm DEF TypeInv, StateInv, env
    <2>2. \/ pc' = "done" /\ cur' = [cur EXCEPT !.ok = TRUE] /\ dealt' = dealt \cup {cur.src}
          \/ /\ pc' = "next"
             /\ \E ok \in BOOLEAN : /\ cur' = [cur EXCEPT !.ok = ok]
                                    /\ dealt' = IF ok THEN dealt \cup {cur.src} ELSE dealt
      BY <1>7, TransferForm
    <2>3. /\ pc' \in {"done", "next"} /\ dealt \subseteq dealt' /\ cur'.src = cur.src /\ cur'.fp = cur.fp
          /\ pc' = "done" \/ cur'.ok => cur.src \in dealt'
      BY <2>1, <2>2, CurOk
    <2> QED
      BY <2>1, <2>3, TagsRest DEF AtItem
  <1>8. CASE AfterTransfer \/ Unlink
    <2>1. /\ pc \in {"done", "unlink"} /\ UNCHANGED <<frames, taglist, tagged0, drops, dealt>>
          /\ GetfileReturns(TRUE) \/ (pc' = "unlink" /\ UNCHANGED cur)
      BY <1>8, AfterTransferForm DEF Unlink, env
    <2>2. cur \in Locals /\ cur.src \in dealt
      BY <2>1 DEF TypeInv, StateInv, TagInv
    <2>3. cur'.src = cur.src /\ cur'.fp = cur.fp /\ pc' \in {"unlink", "next"}
      BY <2>1, <2>2, CurOk DEF GetfileReturns
    <2> QED
      BY <2>1, <2>2, <2>3, TagsRest DEF AtItem
  <1>9. CASE AfterFile
    <2>1. pc = "next" /\ NextFile(cur.ok) /\ pc' = "loop" /\ UNCHANGED <<dealt, tagged0, drops>>
      BY <1>9 DEF AfterFile, env
    <2>2. cur.ok \in BOOLEAN /\ frames # <<>> /\ Top.todo # <<>> /\ cur.src = Item
      BY <2>1 DEF TypeInv, StateInv, FrameInv, Locals, AtItem
    <2>3. cur.ok => Item \in dealt
      BY <2>1, <2>2 DEF TagInv
    <2> QED
      BY <2>1, <2>2, <2>3, TagsPopped
  <1>10. CASE Sighup
    <2>1. /\ UNCHANGED <<frames, cur, taglist, dealt, tagged0, drops>>
          /\ pc' = pc \/ pc' = "exited"
      BY <1>10 DEF Sighup
    <2> QED
      BY <2>1 DEF TagInv, TagsKept, AtItem
  <1>11. CASE Lose
    <2>1. UNCHANGED <<frames, cur, dealt>> /\ (pc' = pc \/ pc' = "crash") /\ drops' = drops + 1
      BY <1>11 DEF Lose
    <2>2. drops \in Nat
      BY DEF TypeInv, StateInv
    <2>3. TagsKept'
      BY <2>1, <2>2 DEF TagsKept
    <2> QED
      BY <2>1, <2>3 DEF TagInv, AtItem
  <1> QED
    BY <1>1, <1>2, <1>3, <1>4, <1>5, <1>6, <1>7, <1>8, <1>9, <1>10, <1>11 DEF Next, ClientStep, Rest

\* get's manual: a tagged file stays tagged until it has been received, or
\* refused by the user or an option (transfer_nextfile() in src/transfer.c,
\* called by getfiles()); only the loss of the session takes it away before.
THEOREM TagsAreKept == Spec => []TagsKept
  <1>1. Init => TypeInv /\ TagInv
    <2>1. ASSUME Init
          PROVE  TagInv
      <3>1. frames = <<>> /\ pc = "prompt" /\ tagged0 = ToSet(taglist) /\ Len(<<>>) = 0
        BY <2>1 DEF Init
      <3> QED
        BY <3>1 DEF TagInv, TagsKept, AtItem
    <2> QED
      BY <2>1, InitTyped
  <1>2. TypeInv /\ TagInv /\ [Next]_vars => (TypeInv /\ TagInv)'
    BY StepTyped, TagsStep, Zenon
  <1>3. TagInv => TagsKept
    BY DEF TagInv
  <1> QED
    BY <1>1, <1>2, <1>3, PTL DEF Spec

-----------------------------------------------------------------------------
(* Local files.                                                            *)

\* Steps to a place where ConsentInv asks for nothing.
LEMMA ConsentFree ==
  ASSUME ConsentInv, pc' \notin {"resolve", "file", "over", "recv"}
  PROVE  ConsentInv'
  BY DEF ConsentInv

LEMMA ConsentRest ==
  ASSUME ConsentInv, UNCHANGED <<pc, cur, local, consent, opt, sighup>>
  PROVE  ConsentInv'
  BY DEF ConsentInv

LEMMA ConsentStep ==
  ASSUME HupAt \cap {"resolve", "file", "over"} = {}, TypeInv, ConsentInv, [Next]_vars
  PROVE  ConsentInv'
  <1>1. CASE UNCHANGED vars
    BY <1>1, ConsentRest DEF vars, files, env
  <1>2. CASE CmdGet \/ Return \/ Unlink \/ AfterFile \/ Transfer \/ AfterTransfer
    <2>1. pc' \in {"loop", "prompt", "exited", "next", "unlink", "done"}
      <3>1. CASE CmdGet \/ Return
        BY <3>1 DEF CmdGet, Return, Finish
      <3>2. CASE Unlink \/ AfterFile
        BY <3>2 DEF Unlink, AfterFile, GetfileReturns
      <3>3. CASE Transfer
        BY <3>3, TransferForm
      <3>4. CASE AfterTransfer
        BY <3>4, AfterTransferForm DEF GetfileReturns
      <3> QED
        BY <1>2, <3>1, <3>2, <3>3, <3>4
    <2> QED
      BY <2>1, ConsentFree
  <1>3. CASE NextItem
    <2>1. opt' = HupOptions(opt) /\ UNCHANGED sighup /\ pc' \in {"loop", "resolve"}
      BY <1>3 DEF NextItem, env
    <2>2. sighup => HupOptions(opt) \cap {"unique", "resume"} # {}
      BY DEF HupOptions
    <2> QED
      BY <2>1, <2>2 DEF ConsentInv
  <1>4. CASE FollowLink \/ Directory \/ NotAFile
    <2>1. /\ pc = "resolve" /\ pc' \in {"loop", "resolve", "file"} /\ UNCHANGED <<opt, sighup>>
      BY <1>4 DEF FollowLink, Directory, NotAFile, Pass, env
    <2> QED
      BY <2>1 DEF ConsentInv
  <1>5. CASE Getfile \/ AskOverwrite
    <2>1. /\ pc \in {"file", "over"} /\ UNCHANGED <<opt, local, sighup>> /\ cur \in Locals
      BY <1>5, GetfileForm, OverwriteForm DEF TypeInv, StateInv, env, files
    <2>2. \/ pc' = "next"
          \/ \E d \in Files, how \in {"normal", "append", "resume"} :
               Receiving(d, how) /\ (d \notin DOMAIN local \/ d \in consent')
          \/ pc' = "over" /\ ~sighup
      <3>1. CASE Getfile
        <4>1. ~(sighup /\ opt \cap {"unique", "resume"} = {})
          BY <3>1, GetfileForm DEF ConsentInv
        <4> QED
          BY <3>1, <4>1, GetfileForm DEF GetfileReturns
      <3>2. CASE AskOverwrite
        <4>1. ~sighup
          BY <3>2, OverwriteForm DEF ConsentInv
        <4> QED
          BY <3>2, <4>1, OverwriteForm DEF GetfileReturns
      <3> QED
        BY <1>5, <3>1, <3>2
    <2>3. CASE \E d \in Files, how \in {"normal", "append", "resume"} :
                 Receiving(d, how) /\ (d \notin DOMAIN local \/ d \in consent')
      <3>1. PICK d \in Files, how \in {"normal", "append", "resume"} :
              Receiving(d, how) /\ (d \notin DOMAIN local \/ d \in consent')
        BY <2>3
      <3>2. cur'.dest = d /\ pc' = "recv"
        BY <2>1, <3>1, CurReceives DEF Receiving
      <3> QED
        BY <2>1, <3>1, <3>2 DEF ConsentInv
    <2> QED
      BY <2>1, <2>2, <2>3 DEF ConsentInv
  <1>6. CASE Sighup
    <2>1. pc \in HupAt /\ (pc' = pc \/ pc' = "exited") /\ UNCHANGED <<cur, opt, consent, local>>
      BY <1>6 DEF Sighup, files
    <2> QED
      BY <2>1 DEF ConsentInv
  <1>7. CASE Lose
    <2>1. (pc' = pc \/ pc' = "crash") /\ UNCHANGED <<cur, opt, consent, local, sighup>>
      BY <1>7 DEF Lose, files
    <2> QED
      BY <2>1 DEF ConsentInv
  <1> QED
    BY <1>1, <1>2, <1>3, <1>4, <1>5, <1>6, <1>7 DEF Next, ClientStep, Rest

\* Local files change in transfers only.
LEMMA OnlyTransferWrites ==
  ASSUME TypeInv, [Next]_vars, ~Transfer
  PROVE  UNCHANGED local
  <1>1. CASE UNCHANGED vars
    BY <1>1 DEF vars, files
  <1>2. CASE CmdGet \/ Return \/ NextItem \/ FollowLink \/ Directory \/ NotAFile
    BY <1>2 DEF CmdGet, Return, NextItem, FollowLink, Directory, NotAFile, files
  <1>3. CASE Getfile \/ AskOverwrite \/ AfterTransfer \/ Unlink \/ AfterFile
    BY <1>3 DEF Getfile, AskOverwrite, AfterTransfer, Unlink, AfterFile, files
  <1>4. CASE Sighup \/ Lose
    BY <1>4 DEF Sighup, Lose, files
  <1> QED
    BY <1>1, <1>2, <1>3, <1>4 DEF Next, ClientStep, Rest

\* get's manual: you are asked before a local file is overwritten (getfile()
\* in src/get.c).  What a file holds is lost with the user's consent only,
\* whatever the options, if SIGHUP does not come between the start of the loop
\* and the question.
THEOREM FilesAreKept ==
  ASSUME HupAt \cap {"resolve", "file", "over"} = {}
  PROVE  Spec => LocalKept
  <1>1. Init => TypeInv /\ ConsentInv
    BY InitTyped DEF Init, ConsentInv
  <1>2. TypeInv /\ ConsentInv /\ [Next]_vars => (TypeInv /\ ConsentInv)'
    BY StepTyped, ConsentStep, Zenon
  <1>3. TypeInv /\ ConsentInv /\ [Next]_vars =>
          [\A d \in DOMAIN local : \A x \in local[d].has :
             (d \in DOMAIN local' /\ x \in local'[d].has) \/ d \in consent]_vars
    <2> SUFFICES ASSUME TypeInv, ConsentInv, [Next]_vars,
                        NEW d \in DOMAIN local, NEW x \in local[d].has
                 PROVE  (d \in DOMAIN local' /\ x \in local'[d].has) \/ d \in consent
      OBVIOUS
    <2>1. CASE ~Transfer
      BY <2>1, OnlyTransferWrites
    <2>2. CASE Transfer
      <3>1. pc = "recv" /\ (local' = local \/ \E c \in Contents : local' = WithFile(cur.dest, c))
        BY <2>2, TransferForm
      <3>2. CASE local' = local
        BY <3>2
      <3>3. CASE \E c \in Contents : local' = WithFile(cur.dest, c)
        <4>1. cur.dest \in Files
          BY DEF TypeInv, StateInv, Locals
        <4>2. /\ DOMAIN local' = DOMAIN local \cup {cur.dest}
              /\ \A y \in DOMAIN local \ {cur.dest} : local'[y] = local[y]
          BY <3>3, <4>1, WithFileKeeps DEF TypeInv
        <4>3. d = cur.dest => d \in consent
          BY <3>1 DEF ConsentInv
        <4> QED
          BY <4>2, <4>3
      <3> QED
        BY <3>1, <3>2, <3>3
    <2> QED
      BY <2>1, <2>2
  <1> QED
    BY <1>1, <1>2, <1>3, PTL DEF Spec, LocalKept

-----------------------------------------------------------------------------
(* Remote files.                                                           *)

LEMMA WholeStep ==
  ASSUME TypeInv, WholeInv, [Next]_vars
  PROVE  WholeInv'
  <1>1. CASE Transfer
    <2>1. CASE pc' = "next"
      BY <2>1 DEF WholeInv
    <2>2. CASE pc' # "next"
      <3>1. pc = "recv" /\ cur \in Locals /\ cur.dest \in Files
        BY <1>1, TransferForm DEF TypeInv, StateInv, Locals
      <3>2. PICK c \in Contents : /\ cur' = [cur EXCEPT !.ok = TRUE] /\ local' = WithFile(cur.dest, c)
                                  /\ cur.how = "resume" \/ cur.fp \in c.has
        BY <1>1, <2>2, TransferForm
      <3>3. cur'.fp = cur.fp /\ cur'.dest = cur.dest /\ cur'.how = cur.how
        BY <3>1, <3>2, CurOk
      <3>4. local'[cur.dest] = c
        BY <3>1, <3>2, WithFileKeeps DEF TypeInv
      <3> QED
        BY <3>2, <3>3, <3>4 DEF WholeInv
    <2> QED
      BY <2>1, <2>2
  <1>2. CASE AfterTransfer
    <2>1. pc = "done" /\ UNCHANGED local /\ (pc' = "next" \/ (pc' = "unlink" /\ UNCHANGED cur))
      BY <1>2, AfterTransferForm DEF GetfileReturns, files
    <2> QED
      BY <2>1 DEF WholeInv
  <1>3. CASE Sighup \/ Lose
    <2>1. UNCHANGED <<cur, local>> /\ (pc' = pc \/ pc' \in {"exited", "crash"})
      BY <1>3 DEF Sighup, Lose, files
    <2> QED
      BY <2>1 DEF WholeInv
  <1>4. CASE UNCHANGED vars
    BY <1>4 DEF vars, files, WholeInv
  <1>5. CASE Getfile \/ AskOverwrite
    <2>1. pc' \in {"next", "recv", "over"}
      BY <1>5, GetfileForm, OverwriteForm DEF GetfileReturns, Receiving
    <2> QED
      BY <2>1 DEF WholeInv
  <1>6. CASE CmdGet \/ Return \/ NextItem \/ FollowLink \/ Directory \/ NotAFile \/ Unlink \/ AfterFile
    <2>1. pc' \notin {"done", "unlink"}
      BY <1>6 DEF CmdGet, Return, Finish, NextItem, FollowLink, Directory, NotAFile, Pass, Unlink,
                  AfterFile, GetfileReturns
    <2> QED
      BY <2>1 DEF WholeInv
  <1> QED
    BY <1>1, <1>2, <1>3, <1>4, <1>5, <1>6 DEF Next, ClientStep, Rest

\* --delete-after (getfile() in src/get.c, after do_the_get() succeeded): a
\* remote file goes only while its local copy holds all of it, or was resumed.
THEOREM OnlyReceivedDeleted == Spec => DeleteOnlyReceived
  <1>1. Init => TypeInv /\ WholeInv
    BY InitTyped DEF Init, WholeInv
  <1>2. TypeInv /\ WholeInv /\ [Next]_vars => (TypeInv /\ WholeInv)'
    BY StepTyped, WholeStep, Zenon
  <1>3. TypeInv /\ WholeInv /\ [Next]_vars =>
          [\A i \in remote \ remote' : cur.how = "resume" \/ i \in local[cur.dest].has]_vars
    <2> SUFFICES ASSUME TypeInv, WholeInv, [Next]_vars, NEW i \in remote \ remote'
                 PROVE  cur.how = "resume" \/ i \in local[cur.dest].has
      OBVIOUS
    <2>1. CASE Unlink
      BY <2>1 DEF Unlink, WholeInv
    <2>2. CASE ~Unlink
      <3>1. UNCHANGED remote
        <4>1. CASE Transfer
          BY <4>1, TransferForm
        <4>2. CASE ~Transfer
          <5>1. CASE UNCHANGED vars
            BY <5>1 DEF vars, files
          <5>2. CASE CmdGet \/ Return \/ NextItem \/ FollowLink \/ Directory \/ NotAFile
            BY <5>2 DEF CmdGet, Return, NextItem, FollowLink, Directory, NotAFile, files
          <5>3. CASE Getfile \/ AskOverwrite \/ AfterTransfer \/ AfterFile
            BY <5>3 DEF Getfile, AskOverwrite, AfterTransfer, AfterFile, files
          <5>4. CASE Sighup \/ Lose
            BY <5>4 DEF Sighup, Lose, files
          <5> QED
            BY <2>2, <4>2, <5>1, <5>2, <5>3, <5>4 DEF Next, ClientStep, Rest
        <4> QED
          BY <4>1, <4>2
      <3> QED
        BY <3>1
    <2> QED
      BY <2>1, <2>2
  <1> QED
    BY <1>1, <1>2, <1>3, PTL DEF Spec, DeleteOnlyReceived
=============================================================================
