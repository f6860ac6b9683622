--------------------------- MODULE DirCache_proofs ---------------------------
(***************************************************************************)
(* Proofs about the directory cache, for any set of connections, any tree  *)
(* of directories, any one-character names and any bound on copies: its    *)
(* types, that a listing made untrue by our own commands is marked for the *)
(* next flush unless its mark or a second copy went astray, and that such  *)
(* a listing is never given to a later command.                            *)
(***************************************************************************)
EXTENDS DirCache, SequenceTheorems, TLAPS

\* The part of TypeOK the cache's helpers read and write.
CacheTypeOK ==
  /\ cache \in [Conns -> [Dirs -> Seq(Entry)]]
  /\ marks \in [Conns -> SUBSET Paths]
  /\ mine \subseteq Conns \X Dirs /\ astray \subseteq Conns \X Dirs
  /\ shown \subseteq Faults

RestTypeOK ==
  /\ exists \in [Conns -> SUBSET Dirs] /\ cwd \in [Conns -> Dirs]
  /\ use \in Conns /\ current \in Conns
  /\ cmd \in Commands \cup {"none"}
  /\ target \in Conns \cup {NoConn} /\ from \in Conns \cup {NoConn}
  /\ cmd = "fxp" => target \in Conns
  /\ from # NoConn => cmd = "fxp" /\ use = target

-----------------------------------------------------------------------------
(* What the helpers do.                                                    *)

\* However a path is resolved, it is a path.
LEMMA ResolveType ==
  ASSUME RestTypeOK, NEW c \in Conns, NEW path \in Paths
  PROVE  Resolve(c, path) \in Paths
  <1>1. cwd[c] \in Paths
    BY CacheAssumption DEF RestTypeOK, Paths
  <1>2. cwd[c] \o path \in Paths
    BY <1>1, ConcatProperties DEF Paths
  <1> QED
    BY <1>2 DEF Resolve

\* A mark is for the directory it names, whatever path it is made under.
LEMMA MarkType ==
  ASSUME RestTypeOK, NEW c \in Conns, NEW d \in Dirs, NEW form
  PROVE  /\ Mark(c, d, form).dir = d /\ Mark(c, d, form).path \in Paths
         /\ MarkFor(c, d, form).dir = d /\ MarkFor(c, d, form).path \in Paths
  <1>1. d \in Paths
    BY CacheAssumption DEF Paths
  <1>2. Resolve(c, d) \in Paths
    BY <1>1, ResolveType
  <1> QED
    BY <1>1, <1>2 DEF Mark, MarkFor, Marked

\* The directory that contains a directory is one.
LEMMA ParentType == \A d \in Dirs : Parent(d) \in Dirs
  BY CacheAssumption

\* Outdate() keeps every copy and sets its flag.
LEMMA OutdateProperties ==
  ASSUME NEW s \in Seq(Entry)
  PROVE  /\ Outdate(s) \in Seq(Entry)
         /\ Len(Outdate(s)) = Len(s)
  <1>1. DOMAIN s = 1 .. Len(s) /\ Len(s) \in Nat
    BY LenProperties
  <1>2. \A i \in 1 .. Len(s) : [s[i] EXCEPT !.outdated = TRUE] \in Entry
    <2>1. TAKE i \in 1 .. Len(s)
    <2>2. s[i] \in Entry
      BY ElementOfSeq
    <2> QED
      BY <2>2 DEF Entry
  <1>3. Outdate(s) \in [1 .. Len(s) -> Entry]
    BY <1>2 DEF Outdate
  <1> QED
    BY <1>1, <1>3, IsASeq, LenProperties

\* ftp_cache_flush() takes a copy of each marked directory that has one, and
\* nothing else.
LEMMA FlushedProperties ==
  ASSUME NEW f \in [Dirs -> Seq(Entry)], NEW M
  PROVE  /\ Flushed(f, M) \in [Dirs -> Seq(Entry)]
         /\ \A d \in Dirs : Len(Flushed(f, M)[d]) <= Len(f[d])
         /\ \A d \in Dirs \ M : Flushed(f, M)[d] = f[d]
         /\ \A d \in Dirs \cap M : Len(f[d]) <= 1 => Len(Flushed(f, M)[d]) = 0
  <1> DEFINE g == Flushed(f, M)
  <1>1. ASSUME NEW d \in Dirs
        PROVE  /\ g[d] \in Seq(Entry)
               /\ Len(g[d]) <= Len(f[d])
               /\ d \notin M => g[d] = f[d]
               /\ d \in M /\ Len(f[d]) <= 1 => Len(g[d]) = 0
    <2>1. f[d] \in Seq(Entry) /\ Len(f[d]) \in Nat
      BY LenProperties
    <2>2. g[d] = IF d \in M /\ f[d] # <<>> THEN Tail(f[d]) ELSE f[d]
      BY DEF Flushed
    <2>3. CASE d \in M /\ f[d] # <<>>
      <3>1. Tail(f[d]) \in Seq(Entry) /\ Len(Tail(f[d])) = Len(f[d]) - 1
        BY <2>1, <2>3, HeadTailProperties
      <3>2. g[d] = Tail(f[d])
        BY <2>2, <2>3
      <3>3. Len(f[d]) \in Nat \ {0}
        BY <2>1, <2>3, EmptySeq
      <3>4. Len(g[d]) = Len(f[d]) - 1
        BY <3>1, <3>2
      <3>5. Len(g[d]) <= Len(f[d]) /\ (Len(f[d]) <= 1 => Len(g[d]) = 0)
        <4>1. \A m \in Nat \ {0} : \A n : n = m - 1 => n <= m /\ (m <= 1 => n = 0)
          BY SMT
        <4> QED
          BY <3>3, <3>4, <4>1, Zenon
      <3> QED
        BY <2>3, <3>1, <3>2, <3>5
    <2>4. CASE ~(d \in M /\ f[d] # <<>>)
      BY <2>1, <2>2, <2>4, EmptySeq
    <2> QED
      BY <2>3, <2>4
  <1>2. g = [d \in Dirs |-> g[d]]
    BY DEF Flushed
  <1> QED
    BY <1>1, <1>2

\* A request's effect: no copy comes or goes, the marks grow, only copies of
\* the changed directories are touched, and what is marked is marked under its
\* own name or astray.
LEMMA ChangeProperties ==
  ASSUME CacheTypeOK,
         NEW c \in Conns, NEW changed \in SUBSET Dirs, NEW marked,
         \A m \in marked : m.dir \in Dirs /\ m.path \in Paths,
         Change(c, changed, marked)
  PROVE  /\ cache' \in [Conns -> [Dirs -> Seq(Entry)]]
         /\ marks' \in [Conns -> SUBSET Paths]
         /\ mine' \subseteq Conns \X Dirs
         /\ astray \subseteq astray' /\ astray' \subseteq Conns \X Dirs
         /\ \A e \in Conns, d \in Dirs : Len(cache'[e][d]) = Len(cache[e][d])
         /\ \A e \in Conns, d \in Dirs :
              ~(e = c /\ d \in changed) => cache'[e][d] = cache[e][d]
         /\ \A e \in Conns : marks[e] \subseteq marks'[e]
         /\ \A m \in marked : m.dir \in marks'[c] \/ <<c, m.dir>> \in astray'
         /\ mine' = mine \cup ({c} \X changed)
  <1> DEFINE g == [d \in Dirs |-> IF d \in changed THEN Outdate(cache[c][d]) ELSE cache[c][d]]
             new == {m.path : m \in marked}
             lost == {<<c, m.dir>> : m \in {x \in marked : x.path # x.dir}}
  <1>1. cache' = [cache EXCEPT ![c] = g]
    BY DEF Change
  <1>2. \A d \in Dirs : g[d] \in Seq(Entry) /\ Len(g[d]) = Len(cache[c][d])
    BY OutdateProperties DEF CacheTypeOK
  <1>3. g \in [Dirs -> Seq(Entry)]
    BY <1>2
  <1>4. \A e \in Conns : cache'[e] = IF e = c THEN g ELSE cache[e]
    BY <1>1 DEF CacheTypeOK
  <1>5. cache' \in [Conns -> [Dirs -> Seq(Entry)]]
    BY <1>1, <1>3 DEF CacheTypeOK
  <1>6. \A e \in Conns, d \in Dirs :
          /\ Len(cache'[e][d]) = Len(cache[e][d])
          /\ ~(e = c /\ d \in changed) => cache'[e][d] = cache[e][d]
    BY <1>2, <1>4
  <1>7. mine' \subseteq Conns \X Dirs
    BY DEF Change, CacheTypeOK
  <1>8. marks' = [marks EXCEPT ![c] = @ \cup new] /\ astray' = astray \cup lost
    BY DEF Change
  <1>9. new \subseteq Paths /\ lost \subseteq Conns \X Dirs
    OBVIOUS
  <1>10. \A m \in marked : m.path \in new /\ (m.path # m.dir => <<c, m.dir>> \in lost)
    OBVIOUS
  <1> HIDE DEF new, lost
  <1>11. marks' \in [Conns -> SUBSET Paths] /\ astray' \subseteq Conns \X Dirs
         /\ astray \subseteq astray'
    BY <1>8, <1>9 DEF CacheTypeOK
  <1>12. (\A e \in Conns : marks[e] \subseteq marks'[e]) /\ new \subseteq marks'[c]
    BY <1>8 DEF CacheTypeOK
  <1>13. \A m \in marked : m.dir \in marks'[c] \/ <<c, m.dir>> \in astray'
    BY <1>8, <1>10, <1>12
  <1> QED
    BY <1>5, <1>6, <1>7, <1>11, <1>12, <1>13 DEF Change

\* A lookup leaves every listing as it is or adds a fresh copy: the only one,
\* or one that goes astray.  It takes no mark away.
LEMMA GiveOutProperties ==
  ASSUME CacheTypeOK, RestTypeOK,
         NEW c \in Conns, NEW asked, NEW path \in Paths, NEW found,
         GiveOut(c, asked, path, found)
  PROVE  /\ cache' \in [Conns -> [Dirs -> Seq(Entry)]]
         /\ marks' \in [Conns -> SUBSET Paths]
         /\ shown' \subseteq Faults
         /\ astray \subseteq astray' /\ astray' \subseteq Conns \X Dirs
         /\ \A e \in Conns, d \in Dirs :
              cache'[e][d] = cache[e][d] \/ Len(cache'[e][d]) <= MaxCopies
         /\ \A e \in Conns, d \in Dirs :
              \/ cache'[e][d] = cache[e][d]
              \/ cache'[e][d] = <<FreshEntry>>
              \/ <<e, d>> \in astray'
         /\ \A e \in Conns : marks[e] \subseteq marks'[e]
  <1>1. shown' \subseteq Faults
    BY DEF GiveOut, FaultsOf, CacheTypeOK
  <1>2. CASE found /\ Cached(c, path)
    <2>1. cache' = cache /\ astray' = astray
      BY <1>2 DEF GiveOut
    <2>2. marks' = marks \/ marks' = [marks EXCEPT ![c] = @ \cup {Resolve(c, path)}]
      BY <1>2 DEF GiveOut
    <2>3. Resolve(c, path) \in Paths
      BY ResolveType
    <2>4. marks' \in [Conns -> SUBSET Paths] /\ \A e \in Conns : marks[e] \subseteq marks'[e]
      BY <2>2, <2>3 DEF CacheTypeOK
    <2> QED
      BY <1>1, <2>1, <2>4 DEF CacheTypeOK
  <1>3. CASE ~(found /\ Cached(c, path))
    <2> DEFINE s == cache[c][path]
               g == Append(s, FreshEntry)
    <2>1. path \in Dirs /\ Len(s) < MaxCopies
      BY <1>3 DEF GiveOut, RestTypeOK
    <2>2. /\ marks' = marks /\ cache' = [cache EXCEPT ![c][path] = g]
          /\ astray' = IF Cached(c, path) THEN astray \cup {<<c, path>>} ELSE astray
      BY <1>3 DEF GiveOut
    <2>3. s \in Seq(Entry) /\ FreshEntry \in Entry
      BY <2>1 DEF CacheTypeOK, FreshEntry, Entry
    <2>4. g \in Seq(Entry) /\ Len(g) = Len(s) + 1 /\ Len(s) \in Nat
      BY <2>3, AppendProperties, LenProperties
    <2>5. Len(g) <= MaxCopies
      BY <2>1, <2>4, CacheAssumption
    <2>6. g = <<FreshEntry>> \/ <<c, path>> \in astray'
      <3>1. CASE Cached(c, path)
        BY <2>2, <3>1
      <3>2. CASE ~Cached(c, path)
        <4>1. s = <<>>
          BY <2>1, <3>2 DEF Cached
        <4> QED
          BY <4>1
      <3> QED
        BY <3>1, <3>2
    <2> HIDE DEF g
    <2>7. cache' \in [Conns -> [Dirs -> Seq(Entry)]]
      BY <2>1, <2>2, <2>4 DEF CacheTypeOK
    <2>8. \A e \in Conns, d \in Dirs :
            cache'[e][d] = cache[e][d] \/ (e = c /\ d = path /\ cache'[e][d] = g)
      BY <2>1, <2>2 DEF CacheTypeOK
    <2>9. astray \subseteq astray' /\ astray' \subseteq Conns \X Dirs
      BY <2>1, <2>2 DEF CacheTypeOK
    <2> QED
      BY <1>1, <2>2, <2>5, <2>6, <2>7, <2>8, <2>9 DEF CacheTypeOK
  <1> QED
    BY <1>2, <1>3

\* A look-up, of a command or at the prompt, is one of a path.
LEMMA LookupGivesOut ==
  ASSUME RestTypeOK,
         \/ \E d \in Dirs, form \in Forms : Read(d, form) \/ Complete(d, form)
         \/ CompleteDot
  PROVE  \E asked \in Dirs, path \in Paths, found \in BOOLEAN : GiveOut(use, asked, path, found)
  <1>1. use \in Conns /\ cwd[use] \in Dirs
    BY DEF RestTypeOK
  <1>2. \A d \in Dirs : d \in Paths
    BY CacheAssumption DEF Paths
  <1>3. ASSUME NEW d \in Dirs, NEW form, GetDirectory(use, d, form)
        PROVE  \E asked \in Dirs, path \in Paths, found \in BOOLEAN : GiveOut(use, asked, path, found)
    <2> DEFINE ap == Mark(use, d, form).path
               found == ap = Root => cwd[use] = Root
    <2>1. ap \in Paths
      BY <1>1, MarkType
    <2>2. Resolve(use, ap) \in Paths
      BY <1>1, <2>1, ResolveType
    <2>3. GiveOut(use, d, Resolve(use, ap), found)
      BY <1>3 DEF GetDirectory
    <2>4. found \in BOOLEAN
      OBVIOUS
    <2> HIDE DEF ap, found
    <2> QED
      BY <2>2, <2>3, <2>4
  <1>4. ASSUME NEW d \in Dirs, GiveOut(use, d, cwd[use], cwd[use] = Root)
        PROVE  \E asked \in Dirs, path \in Paths, found \in BOOLEAN : GiveOut(use, asked, path, found)
    <2>1. (cwd[use] = Root) \in BOOLEAN
      OBVIOUS
    <2> QED
      BY <1>1, <1>2, <1>4, <2>1
  <1>5. ASSUME NEW d \in Dirs, NEW form \in Forms, Read(d, form)
        PROVE  \E asked \in Dirs, path \in Paths, found \in BOOLEAN : GiveOut(use, asked, path, found)
    BY <1>3, <1>5 DEF Read
  <1>6. ASSUME NEW d \in Dirs, NEW form \in Forms, Complete(d, form)
        PROVE  \E asked \in Dirs, path \in Paths, found \in BOOLEAN : GiveOut(use, asked, path, found)
    <2>1. GetDirectory(use, d, form) \/ GiveOut(use, d, cwd[use], cwd[use] = Root)
      BY <1>6 DEF Complete
    <2> QED
      BY <1>3, <1>4, <2>1
  <1>7. ASSUME CompleteDot
        PROVE  \E asked \in Dirs, path \in Paths, found \in BOOLEAN : GiveOut(use, asked, path, found)
    BY <1>1, <1>4, <1>7 DEF CompleteDot
  <1> QED
    BY <1>5, <1>6, <1>7

\* Expire() ages one copy and leaves everything else as it is.
LEMMA ExpireProperties ==
  ASSUME CacheTypeOK, NEW c \in Conns, NEW d \in Dirs, Expire(c, d)
  PROVE  /\ cache' \in [Conns -> [Dirs -> Seq(Entry)]]
         /\ \A e \in Conns, x \in Dirs :
              /\ Len(cache'[e][x]) = Len(cache[e][x])
              /\ \A i \in 1 .. Len(cache[e][x]) :
                   cache'[e][x][i].outdated = cache[e][x][i].outdated
  <1> DEFINE s == cache[c][d]
             g == [s EXCEPT ![1].aged = TRUE]
  <1>1. s \in Seq(Entry) /\ s # <<>>
    BY DEF CacheTypeOK, Expire, Cached
  <1>2. 1 \in 1 .. Len(s)
    BY <1>1, EmptySeq
  <1>3. s[1] \in Entry
    BY <1>1, <1>2, ElementOfSeq
  <1>4. [s[1] EXCEPT !.aged = TRUE] \in Entry
        /\ [s[1] EXCEPT !.aged = TRUE].outdated = s[1].outdated
    BY <1>3 DEF Entry
  <1>5. g = [s EXCEPT ![1] = [s[1] EXCEPT !.aged = TRUE]]
    OBVIOUS
  <1> HIDE DEF g
  <1>6. /\ g \in Seq(Entry) /\ Len(g) = Len(s)
        /\ \A i \in 1 .. Len(s) : g[i].outdated = s[i].outdated
    BY <1>1, <1>2, <1>4, <1>5, ExceptSeq
  <1>7. cache' = [cache EXCEPT ![c][d] = g]
    BY DEF Expire, g
  <1>8. \A e \in Conns, x \in Dirs : cache'[e][x] = IF e = c /\ x = d THEN g ELSE cache[e][x]
    BY <1>7 DEF CacheTypeOK
  <1>9. cache' \in [Conns -> [Dirs -> Seq(Entry)]]
    BY <1>6, <1>7 DEF CacheTypeOK
  <1> QED
    BY <1>6, <1>8, <1>9

-----------------------------------------------------------------------------
(* The kinds of steps.                                                     *)

Lookup ==
  \/ \E d \in Dirs, form \in Forms : Read(d, form) \/ Complete(d, form)
  \/ CompleteDot

Request ==
  \/ \E d \in Dirs, form \in Forms :
       ChangeFile(d, form) \/ Touch(d, form) \/ Mkdir(d, form) \/ Rmdir(d, form)
  \/ \E r \in Renames(use), form, formTo \in Forms : Rename(r, form, formTo)

Store == \E d \in Dirs, form \in Forms, accepted \in BOOLEAN : FxpStore(d, form, accepted)

\* Every step is of one of these kinds.
LEMMA StepKinds ==
  ASSUME Next
  PROVE  \/ \E k \in Commands : Begin(k)
         \/ EndCmd \/ JumpOut \/ Lookup \/ Request \/ Store
         \/ (\E d \in Dirs : ChDir(d)) \/ (\E c \in Conns : Switch(c))
         \/ Clear \/ FxpEnter \/ FxpLeave \/ FxpOntoDir
         \/ \E c \in Conns, d \in Dirs : Expire(c, d)
  <1>1. ASSUME CommandStep
        PROVE  \/ Lookup \/ Request \/ Store
               \/ (\E d \in Dirs : ChDir(d)) \/ (\E c \in Conns : Switch(c))
               \/ Clear \/ FxpEnter \/ FxpLeave \/ FxpOntoDir
    BY <1>1, Zenon DEF CommandStep, Lookup, Request, Store
  <1>2. {"absolute", "relative"} \subseteq Forms
    BY DEF Forms
  <1>3. ASSUME \E d \in Dirs, form \in {"absolute", "relative"} : Complete(d, form)
        PROVE  Lookup
    BY <1>2, <1>3 DEF Lookup
  <1>4. CompleteDot => Lookup
    BY DEF Lookup
  <1> QED
    BY <1>1, <1>3, <1>4, Zenon DEF Next

\* A request of connection c: a Change() whose marks are well-typed and, unless
\* it moves directories, are for all it changes.
Requested(c) ==
  \E changed \in SUBSET Dirs : \E marked :
    /\ \A m \in marked : m.dir \in Dirs /\ m.path \in Paths
    /\ ~MovesDirs => \A d \in changed : \E m \in marked : m.dir = d
    /\ Change(c, changed, marked)

\* mv works on directories of the connection, and with ~MovesDirs on files.
LEMMA RenamesType ==
  ASSUME RestTypeOK, NEW r \in Renames(use)
  PROVE  /\ r.p \in Dirs /\ r.q \in Dirs
         /\ r.old \in SUBSET Dirs /\ r.new \in SUBSET Dirs
         /\ ~MovesDirs => r.old = {} /\ r.new = {}
  <1>1. exists[use] \subseteq Dirs
    BY DEF RestTypeOK
  <1>2. \A d \in Dirs : Parent(d) \in Dirs
    BY ParentType
  <1> QED
    BY <1>1, <1>2 DEF Renames

\* What a command asks of the server it requests of the connection in use.
LEMMA RequestRequests ==
  ASSUME RestTypeOK, Request
  PROVE  Requested(use)
  <1>a. use \in Conns
    BY DEF RestTypeOK
  <1>1. ASSUME NEW d \in Dirs, NEW form \in Forms, ChangeFile(d, form) PROVE Requested(use)
    <2> DEFINE m == MarkFor(use, d, form)
    <2>1. m.dir = d /\ m.path \in Paths
      BY <1>a, MarkType
    <2>2. Change(use, {d}, {m})
      BY <1>1 DEF ChangeFile
    <2> HIDE DEF m
    <2> QED
      BY <2>1, <2>2 DEF Requested
  <1>2. ASSUME NEW d \in Dirs, NEW form \in Forms, Touch(d, form) PROVE Requested(use)
    <2> DEFINE m == Mark(use, d, form)
    <2>1. m.dir = d /\ m.path \in Paths
      BY <1>a, MarkType
    <2>2. Change(use, {d}, {m})
      BY <1>2 DEF Touch
    <2> HIDE DEF m
    <2> QED
      BY <2>1, <2>2 DEF Requested
  <1>3. ASSUME NEW d \in Dirs, NEW form \in Forms, Mkdir(d, form) PROVE Requested(use)
    <2> DEFINE up == Parent(d)
               m == MarkFor(use, up, form)
    <2>1. up \in Dirs
      BY ParentType
    <2>2. m.dir = up /\ m.path \in Paths
      BY <1>a, <2>1, MarkType
    <2>3. Change(use, {up}, {m})
      BY <1>3 DEF Mkdir
    <2> HIDE DEF m, up
    <2> QED
      BY <2>1, <2>2, <2>3 DEF Requested
  <1>4. ASSUME NEW d \in Dirs, NEW form \in Forms, Rmdir(d, form) PROVE Requested(use)
    <2> DEFINE up == Parent(d)
               m == Mark(use, d, form)
               n == MarkFor(use, up, form)
    <2>1. up \in Dirs
      BY ParentType
    <2>2. m.dir = d /\ m.path \in Paths /\ n.dir = up /\ n.path \in Paths
      BY <1>a, <2>1, MarkType
    <2>3. Change(use, {d, up}, {m, n})
      BY <1>4 DEF Rmdir
    <2> HIDE DEF m, n, up
    <2> QED
      BY <2>1, <2>2, <2>3 DEF Requested
  <1>5. ASSUME NEW r \in Renames(use), NEW form \in Forms, NEW formTo \in Forms,
               Rename(r, form, formTo)
        PROVE  Requested(use)
    <2> DEFINE m == MarkFor(use, r.p, form)
               n == MarkFor(use, r.q, formTo)
               changed == {r.p, r.q} \cup r.old \cup r.new
    <2>1. /\ r.p \in Dirs /\ r.q \in Dirs /\ r.old \in SUBSET Dirs /\ r.new \in SUBSET Dirs
          /\ ~MovesDirs => r.old = {} /\ r.new = {}
      BY RenamesType
    <2>2. m.dir = r.p /\ m.path \in Paths /\ n.dir = r.q /\ n.path \in Paths
      BY <1>a, <2>1, MarkType
    <2>3. Change(use, changed, {m, n})
      BY <1>5 DEF Rename
    <2>4. changed \in SUBSET Dirs /\ (~MovesDirs => changed = {r.p, r.q})
      BY <2>1
    <2> HIDE DEF m, n, changed
    <2> QED
      BY <2>1, <2>2, <2>3, <2>4 DEF Requested
  <1> QED
    BY <1>1, <1>2, <1>3, <1>4, <1>5 DEF Request

\* ftp_fxpfile() requests of the destination.
LEMMA StoreRequests ==
  ASSUME RestTypeOK, Store
  PROVE  target \in Conns /\ Requested(target)
  <1>1. PICK d \in Dirs, form \in Forms, accepted \in BOOLEAN : FxpStore(d, form, accepted)
    BY DEF Store
  <1>2. target \in Conns
    BY <1>1 DEF FxpStore, Fxp, RestTypeOK
  <1> DEFINE m == MarkFor(target, d, form)
             changed == IF accepted THEN {d} ELSE {}
  <1>3. m.dir = d /\ m.path \in Paths
    BY <1>2, MarkType
  <1>4. Change(target, changed, {m})
    BY <1>1 DEF FxpStore
  <1>5. changed \in SUBSET Dirs /\ changed \subseteq {d}
    OBVIOUS
  <1> HIDE DEF m, changed
  <1> QED
    BY <1>2, <1>3, <1>4, <1>5 DEF Requested

\* What a request does.
LEMMA RequestedProperties ==
  ASSUME CacheTypeOK, NEW c \in Conns, Requested(c)
  PROVE  \E changed \in SUBSET Dirs :
           /\ cache' \in [Conns -> [Dirs -> Seq(Entry)]]
           /\ marks' \in [Conns -> SUBSET Paths]
           /\ mine' \subseteq Conns \X Dirs
           /\ astray \subseteq astray' /\ astray' \subseteq Conns \X Dirs
           /\ \A e \in Conns, d \in Dirs : Len(cache'[e][d]) = Len(cache[e][d])
           /\ \A e \in Conns, d \in Dirs :
                ~(e = c /\ d \in changed) => cache'[e][d] = cache[e][d]
           /\ \A e \in Conns : marks[e] \subseteq marks'[e]
           /\ ~MovesDirs => \A d \in changed : d \in marks'[c] \/ <<c, d>> \in astray'
           /\ mine' = mine \cup ({c} \X changed)
  <1>a. PICK changed \in SUBSET Dirs :
          \E marked :
            /\ \A m \in marked : m.dir \in Dirs /\ m.path \in Paths
            /\ ~MovesDirs => \A d \in changed : \E m \in marked : m.dir = d
            /\ Change(c, changed, marked)
    BY DEF Requested
  <1>1. PICK marked :
          /\ \A m \in marked : m.dir \in Dirs /\ m.path \in Paths
          /\ ~MovesDirs => \A d \in changed : \E m \in marked : m.dir = d
          /\ Change(c, changed, marked)
    BY <1>a
  <1>2. /\ cache' \in [Conns -> [Dirs -> Seq(Entry)]]
        /\ marks' \in [Conns -> SUBSET Paths]
        /\ mine' \subseteq Conns \X Dirs
        /\ astray \subseteq astray' /\ astray' \subseteq Conns \X Dirs
        /\ \A e \in Conns, d \in Dirs : Len(cache'[e][d]) = Len(cache[e][d])
        /\ \A e \in Conns, d \in Dirs :
             ~(e = c /\ d \in changed) => cache'[e][d] = cache[e][d]
        /\ \A e \in Conns : marks[e] \subseteq marks'[e]
        /\ \A m \in marked : m.dir \in marks'[c] \/ <<c, m.dir>> \in astray'
        /\ mine' = mine \cup ({c} \X changed)
    <2>1. \A m \in marked : m.dir \in Dirs /\ m.path \in Paths
      BY <1>1
    <2>2. Change(c, changed, marked)
      BY <1>1
    <2> QED
      BY <2>1, <2>2, ChangeProperties, ZenonT(60)
  <1>3. ~MovesDirs => \A d \in changed : d \in marks'[c] \/ <<c, d>> \in astray'
    BY <1>1, <1>2
  <1> WITNESS changed \in SUBSET Dirs
  <1> QED
    BY <1>2, <1>3

-----------------------------------------------------------------------------
(* Types.                                                                  *)

Bounded == \A c \in Conns, d \in Dirs : Len(cache[c][d]) <= MaxCopies

ITypeOK == CacheTypeOK /\ Bounded /\ RestTypeOK

\* ITypeOK is the type invariant, in parts.
LEMMA ITypeImpliesType == ITypeOK <=> TypeOK
  BY DEF ITypeOK, TypeOK, CacheTypeOK, Bounded, RestTypeOK

\* The connections start well-typed.
LEMMA InitType == Init => ITypeOK
  <1> SUFFICES ASSUME Init PROVE ITypeOK
    OBVIOUS
  <1>1. cache \in [Conns -> [Dirs -> Seq(Entry)]] /\ Bounded
    BY CacheAssumption, EmptySeq DEF Init, Bounded
  <1> QED
    BY <1>1, CacheAssumption DEF Init, ITypeOK, CacheTypeOK, RestTypeOK, Commands, Faults

\* The connections, the command and the directories keep their types.
LEMMA RestStep == RestTypeOK /\ [Next]_vars => RestTypeOK'
  <1> SUFFICES ASSUME RestTypeOK, [Next]_vars PROVE RestTypeOK'
    OBVIOUS
  <1> USE DEF RestTypeOK
  <1>1. ASSUME NEW k \in Commands, Begin(k) PROVE RestTypeOK'
    BY <1>1 DEF Begin
  <1>2. CASE EndCmd \/ JumpOut
    BY <1>2, CacheAssumption DEF EndCmd, JumpOut
  <1>3. CASE Lookup
    <2>1. UNCHANGED <<exists, cwd, use, current, cmd, target, from>>
      BY <1>3 DEF Lookup, Read, Complete, CompleteDot, Idle
    <2> QED
      BY <2>1
  <1>4. CASE Request
    <2>1. UNCHANGED <<cwd, use, current, cmd, target, from>>
      BY <1>4 DEF Request, ChangeFile, Touch, Mkdir, Rmdir, Rename, Idle
    <2>2. exists' \in [Conns -> SUBSET Dirs]
      <3>1. ASSUME NEW d \in Dirs, NEW form \in Forms,
                   ChangeFile(d, form) \/ Touch(d, form) \/ Mkdir(d, form) \/ Rmdir(d, form)
            PROVE  exists' \in [Conns -> SUBSET Dirs]
        BY <3>1 DEF ChangeFile, Touch, Mkdir, Rmdir
      <3>2. ASSUME NEW r \in Renames(use), NEW form \in Forms, NEW formTo \in Forms,
                   Rename(r, form, formTo)
            PROVE  exists' \in [Conns -> SUBSET Dirs]
        <4>1. r.new \in SUBSET Dirs
          BY RenamesType
        <4> QED
          BY <3>2, <4>1 DEF Rename
      <3> QED
        BY <1>4, <3>1, <3>2 DEF Request
    <2> QED
      BY <2>1, <2>2
  <1>5. CASE Store
    BY <1>5 DEF Store, FxpStore, Fxp
  <1>6. ASSUME NEW d \in Dirs, ChDir(d) PROVE RestTypeOK'
    BY <1>6 DEF ChDir, Idle
  <1>7. ASSUME NEW c \in Conns, Switch(c) PROVE RestTypeOK'
    BY <1>7 DEF Switch
  <1>8. CASE Clear
    BY <1>8 DEF Clear, Idle
  <1>9. CASE FxpEnter \/ FxpLeave \/ FxpOntoDir
    BY <1>9 DEF FxpEnter, FxpLeave, FxpOntoDir, Fxp, Stay
  <1>10. ASSUME NEW c \in Conns, NEW d \in Dirs, Expire(c, d) PROVE RestTypeOK'
    BY <1>10 DEF Expire, Idle
  <1>11. CASE UNCHANGED vars
    BY <1>11 DEF vars
  <1> QED
    BY <1>1, <1>2, <1>3, <1>4, <1>5, <1>6, <1>7, <1>8, <1>9, <1>10, <1>11, StepKinds

\* A directory is taken off the astray ones, never put on, and only without a copy.
LEMMA RegainProperties ==
  ASSUME astray \subseteq Conns \X Dirs, NEW kept, Regain(kept)
  PROVE  /\ astray' \subseteq Conns \X Dirs
         /\ \A x \in astray \ astray' : x[1] = use /\ kept[x[2]] = <<>>
  BY DEF Regain

\* The caches and marks keep their types, and copies their bound.
LEMMA CacheStep == ITypeOK /\ [Next]_vars => CacheTypeOK' /\ Bounded'
  <1> SUFFICES ASSUME ITypeOK, [Next]_vars PROVE CacheTypeOK' /\ Bounded'
    OBVIOUS
  <1>a. use \in Conns /\ CacheTypeOK /\ Bounded /\ RestTypeOK
    BY DEF ITypeOK, RestTypeOK
  <1>1. ASSUME NEW k \in Commands, Begin(k) PROVE CacheTypeOK' /\ Bounded'
    BY <1>a, <1>1 DEF Begin, CacheTypeOK, Bounded
  <1>2. CASE EndCmd
    <2> DEFINE g == Flushed(cache[use], marks[use])
    <2>1. cache' = [cache EXCEPT ![use] = g]
      BY <1>2 DEF EndCmd
    <2>2. cache[use] \in [Dirs -> Seq(Entry)]
      BY <1>a DEF CacheTypeOK
    <2>3. g \in [Dirs -> Seq(Entry)] /\ \A d \in Dirs : Len(g[d]) <= Len(cache[use][d])
      BY <2>2, FlushedProperties
    <2> HIDE DEF g
    <2>4. \A e \in Conns : cache'[e] = IF e = use THEN g ELSE cache[e]
      BY <1>a, <2>1 DEF CacheTypeOK
    <2>5. cache' \in [Conns -> [Dirs -> Seq(Entry)]]
      BY <1>a, <2>1, <2>3 DEF CacheTypeOK
    <2>6. Bounded'
      <3>1. SUFFICES ASSUME NEW e \in Conns, NEW d \in Dirs
                     PROVE  Len(cache'[e][d]) <= MaxCopies
        BY DEF Bounded
      <3>2. Len(cache[e][d]) \in Nat /\ Len(cache'[e][d]) \in Nat
        BY <1>a, <2>5, LenProperties DEF CacheTypeOK
      <3>3. Len(cache[e][d]) <= MaxCopies
        BY <1>a DEF Bounded
      <3>4. Len(cache'[e][d]) <= Len(cache[e][d])
        BY <2>3, <2>4, <3>2
      <3> QED
        BY <3>2, <3>3, <3>4, CacheAssumption
    <2>7. astray' \subseteq Conns \X Dirs
      BY <1>a, <1>2, RegainProperties DEF EndCmd, CacheTypeOK
    <2> QED
      BY <1>a, <1>2, <2>5, <2>6, <2>7 DEF EndCmd, CacheTypeOK
  <1>3. CASE JumpOut
    BY <1>a, <1>3 DEF JumpOut, CacheTypeOK, Bounded
  <1>4. CASE Lookup
    <2>1. PICK asked \in Dirs, path \in Paths, found \in BOOLEAN : GiveOut(use, asked, path, found)
      BY <1>a, <1>4, LookupGivesOut DEF Lookup
    <2>2. /\ cache' \in [Conns -> [Dirs -> Seq(Entry)]]
          /\ marks' \in [Conns -> SUBSET Paths]
          /\ shown' \subseteq Faults /\ astray' \subseteq Conns \X Dirs
          /\ \A e \in Conns, d \in Dirs :
               cache'[e][d] = cache[e][d] \/ Len(cache'[e][d]) <= MaxCopies
      BY <1>a, <2>1, GiveOutProperties
    <2>3. mine' = mine
      BY <1>4 DEF Lookup, Read, Complete, CompleteDot
    <2> QED
      BY <1>a, <2>2, <2>3 DEF CacheTypeOK, Bounded
  <1>5. CASE Request \/ Store
    <2>1. PICK c \in Conns : Requested(c)
      BY <1>a, <1>5, RequestRequests, StoreRequests
    <2>2. /\ cache' \in [Conns -> [Dirs -> Seq(Entry)]]
          /\ marks' \in [Conns -> SUBSET Paths]
          /\ mine' \subseteq Conns \X Dirs /\ astray' \subseteq Conns \X Dirs
          /\ \A e \in Conns, d \in Dirs : Len(cache'[e][d]) = Len(cache[e][d])
      BY <1>a, <2>1, RequestedProperties
    <2>3. shown' = shown
      BY <1>5 DEF Request, Store, ChangeFile, Touch, Mkdir, Rmdir, Rename, FxpStore
    <2> QED
      BY <1>a, <2>2, <2>3 DEF CacheTypeOK, Bounded
  <1>6. ASSUME NEW d \in Dirs, ChDir(d) PROVE CacheTypeOK' /\ Bounded'
    BY <1>a, <1>6 DEF ChDir, CacheTypeOK, Bounded
  <1>7. ASSUME NEW c \in Conns, Switch(c) PROVE CacheTypeOK' /\ Bounded'
    BY <1>a, <1>7 DEF Switch, CacheTypeOK, Bounded
  <1>8. CASE Clear
    <2>1. [d \in Dirs |-> <<>>] \in [Dirs -> Seq(Entry)]
      BY EmptySeq
    <2>2. \A e \in Conns, d \in Dirs : cache'[e][d] = cache[e][d] \/ cache'[e][d] = <<>>
      BY <1>a, <1>8 DEF Clear, CacheTypeOK
    <2>3. Len(<<>>) <= MaxCopies
      BY CacheAssumption
    <2>4. Bounded'
      BY <1>a, <2>2, <2>3 DEF Bounded
    <2>5. astray' \subseteq Conns \X Dirs
      BY <1>a, <1>8, RegainProperties DEF Clear, CacheTypeOK
    <2> QED
      BY <1>a, <1>8, <2>1, <2>4, <2>5 DEF Clear, CacheTypeOK
  <1>9. CASE FxpEnter \/ FxpLeave \/ FxpOntoDir
    BY <1>a, <1>9 DEF FxpEnter, FxpLeave, FxpOntoDir, Stay, CacheTypeOK, Bounded
  <1>10. ASSUME NEW c \in Conns, NEW d \in Dirs, Expire(c, d) PROVE CacheTypeOK' /\ Bounded'
    <2>1. /\ cache' \in [Conns -> [Dirs -> Seq(Entry)]]
          /\ \A e \in Conns, x \in Dirs : Len(cache'[e][x]) = Len(cache[e][x])
      BY <1>a, <1>10, ExpireProperties
    <2> QED
      BY <1>a, <1>10, <2>1 DEF Expire, CacheTypeOK, Bounded
  <1>11. CASE UNCHANGED vars
    BY <1>a, <1>11 DEF vars, CacheTypeOK, Bounded
  <1> QED
    BY <1>1, <1>2, <1>3, <1>4, <1>5, <1>6, <1>7, <1>8, <1>9, <1>10, <1>11, StepKinds

\* Every step keeps the types, and the number of copies within its bound.
LEMMA TypeStep == ITypeOK /\ [Next]_vars => ITypeOK'
  BY CacheStep, RestStep DEF ITypeOK

\* Every reachable state of the cache is well typed, and from the moment fxpfile()
\* has gone to the target until it comes back, `ftp` is the target.
THEOREM Typing == Spec => []TypeOK
  <1>1. ITypeOK /\ [Next]_vars => ITypeOK'
    BY TypeStep
  <1>2. ITypeOK => TypeOK
    BY ITypeImpliesType
  <1> QED
    BY <1>1, <1>2, InitType, PTL DEF Spec

-----------------------------------------------------------------------------
(* Marks.  mv renames files only: a directory that mv renames is not marked *)
(* (TLC refutes StaleIsMarked with MovesDirs).                              *)

\* A flush drops one copy per mark: marks are enough because what is not astray
\* has a single copy.
IMarked == ITypeOK /\ StaleIsMarked

\* StaleIsMarked is kept when every listing of c but the astray ones is as it was
\* (on a connection that keeps its marks), a single fresh copy, or marked now.
LEMMA MarkedKept ==
  ASSUME StaleIsMarked,
         \A e \in Conns, d \in Dirs : <<e, d>> \notin astray' =>
           \/ cache'[e][d] = <<>>
           \/ cache'[e][d] = <<FreshEntry>>
           \/ /\ Len(cache'[e][d]) = Len(cache[e][d]) /\ <<e, d>> \notin astray
              /\ d \in marks'[e]
           \/ /\ cache'[e][d] = cache[e][d] /\ <<e, d>> \notin astray
              /\ d \in marks[e] => d \in marks'[e]
  PROVE  StaleIsMarked'
  <1> SUFFICES ASSUME NEW e \in Conns, NEW d \in Dirs, <<e, d>> \notin astray'
               PROVE  /\ Len(cache'[e][d]) <= 1
                      /\ \A i \in 1 .. Len(cache'[e][d]) :
                           cache'[e][d][i].outdated => d \in marks'[e]
    BY DEF StaleIsMarked
  <1>1. CASE cache'[e][d] = <<>>
    BY <1>1
  <1>2. CASE cache'[e][d] = <<FreshEntry>>
    <2>1. Len(<<FreshEntry>>) = 1 /\ <<FreshEntry>>[1].outdated = FALSE
      BY DEF FreshEntry
    <2>2. \A i \in 1 .. 1 : i = 1
      OBVIOUS
    <2> QED
      BY <1>2, <2>1, <2>2
  <1>3. CASE Len(cache'[e][d]) = Len(cache[e][d]) /\ <<e, d>> \notin astray /\ d \in marks'[e]
    BY <1>3 DEF StaleIsMarked
  <1>4. CASE /\ cache'[e][d] = cache[e][d] /\ <<e, d>> \notin astray
             /\ d \in marks[e] => d \in marks'[e]
    BY <1>4 DEF StaleIsMarked
  <1> QED
    BY <1>1, <1>2, <1>3, <1>4

\* The flush at the end of a command drops every marked listing that is not astray.
LEMMA EndCmdMarked == IMarked /\ EndCmd => StaleIsMarked'
  <1> SUFFICES ASSUME IMarked, EndCmd PROVE StaleIsMarked'
    OBVIOUS
  <1> DEFINE g == Flushed(cache[use], marks[use])
  <1>1. CacheTypeOK /\ use \in Conns /\ StaleIsMarked
    BY DEF IMarked, ITypeOK, RestTypeOK
  <1>2. /\ cache' = [cache EXCEPT ![use] = g] /\ marks' = [marks EXCEPT ![use] = {}]
        /\ Regain(cache'[use])
    BY DEF EndCmd
  <1>3. cache[use] \in [Dirs -> Seq(Entry)]
    BY <1>1 DEF CacheTypeOK
  <1>4. /\ g \in [Dirs -> Seq(Entry)]
        /\ \A d \in Dirs \ marks[use] : g[d] = cache[use][d]
        /\ \A d \in Dirs \cap marks[use] : Len(cache[use][d]) <= 1 => Len(g[d]) = 0
    BY <1>3, FlushedProperties
  <1> HIDE DEF g
  <1>5. \A e \in Conns : /\ cache'[e] = IF e = use THEN g ELSE cache[e]
                         /\ marks'[e] = IF e = use THEN {} ELSE marks[e]
    BY <1>1, <1>2 DEF CacheTypeOK
  <1>6. \A x \in astray \ astray' : x[1] = use /\ g[x[2]] = <<>>
    BY <1>1, <1>2, <1>5, RegainProperties DEF CacheTypeOK
  <1>7. \A d \in Dirs : Len(g[d]) = 0 => g[d] = <<>>
    BY <1>4, EmptySeq
  <1>8. ASSUME NEW e \in Conns, NEW d \in Dirs, <<e, d>> \notin astray', <<e, d>> \in astray
        PROVE  cache'[e][d] = <<>>
    BY <1>5, <1>6, <1>8
  <1>9. ASSUME NEW d \in Dirs, <<use, d>> \notin astray, d \in marks[use]
        PROVE  cache'[use][d] = <<>>
    <2>1. Len(cache[use][d]) <= 1
      BY <1>1, <1>9 DEF StaleIsMarked
    <2> QED
      BY <1>1, <1>4, <1>5, <1>7, <1>9, <2>1
  <1>10. ASSUME NEW d \in Dirs, d \notin marks[use]
         PROVE  cache'[use][d] = cache[use][d]
    BY <1>1, <1>4, <1>5, <1>10
  <1>11. ASSUME NEW e \in Conns, NEW d \in Dirs, <<e, d>> \notin astray'
         PROVE  \/ cache'[e][d] = <<>>
                \/ /\ cache'[e][d] = cache[e][d] /\ <<e, d>> \notin astray
                   /\ d \in marks[e] => d \in marks'[e]
    <2>1. CASE e # use
      BY <1>5, <1>8, <1>11, <2>1
    <2>2. CASE e = use
      BY <1>8, <1>9, <1>10, <1>11, <2>2
    <2> QED
      BY <2>1, <2>2
  <1> QED
    BY <1>1, <1>11, MarkedKept

\* StaleIsMarked is inductive together with the types.
LEMMA MarkedStep == ~MovesDirs /\ IMarked /\ [Next]_vars => IMarked'
  <1> SUFFICES ASSUME ~MovesDirs, IMarked, [Next]_vars PROVE IMarked'
    OBVIOUS
  <1>a. ITypeOK'
    BY TypeStep DEF IMarked
  <1>b. use \in Conns /\ CacheTypeOK /\ RestTypeOK /\ StaleIsMarked
    BY DEF IMarked, ITypeOK, RestTypeOK
  <1> SUFFICES StaleIsMarked'
    BY <1>a DEF IMarked
  <1>1. ASSUME NEW k \in Commands, Begin(k) PROVE StaleIsMarked'
    BY <1>b, <1>1 DEF Begin, StaleIsMarked
  <1>2. CASE EndCmd
    BY <1>2, EndCmdMarked
  <1>3. CASE JumpOut
    BY <1>b, <1>3 DEF JumpOut, StaleIsMarked
  <1>4. CASE Lookup
    <2>1. PICK asked \in Dirs, path \in Paths, found \in BOOLEAN : GiveOut(use, asked, path, found)
      BY <1>b, <1>4, LookupGivesOut DEF Lookup
    <2>2. /\ astray \subseteq astray' /\ \A e \in Conns : marks[e] \subseteq marks'[e]
          /\ \A e \in Conns, d \in Dirs :
               \/ cache'[e][d] = cache[e][d]
               \/ cache'[e][d] = <<FreshEntry>>
               \/ <<e, d>> \in astray'
      BY <1>b, <2>1, GiveOutProperties
    <2> QED
      BY <1>b, <2>2, MarkedKept
  <1>5. CASE Request \/ Store
    <2>1. PICK c \in Conns : Requested(c)
      BY <1>b, <1>5, RequestRequests, StoreRequests
    <2>2. PICK changed \in SUBSET Dirs :
            /\ astray \subseteq astray'
            /\ \A e \in Conns, d \in Dirs : Len(cache'[e][d]) = Len(cache[e][d])
            /\ \A e \in Conns, d \in Dirs :
                 ~(e = c /\ d \in changed) => cache'[e][d] = cache[e][d]
            /\ \A e \in Conns : marks[e] \subseteq marks'[e]
            /\ \A d \in changed : d \in marks'[c] \/ <<c, d>> \in astray'
      BY <1>b, <2>1, RequestedProperties
    <2> QED
      BY <1>b, <2>2, MarkedKept
  <1>6. ASSUME NEW d \in Dirs, ChDir(d) PROVE StaleIsMarked'
    BY <1>b, <1>6 DEF ChDir, StaleIsMarked
  <1>7. ASSUME NEW c \in Conns, Switch(c) PROVE StaleIsMarked'
    BY <1>b, <1>7 DEF Switch, StaleIsMarked
  <1>8. CASE Clear
    <2>1. \A e \in Conns, d \in Dirs : cache'[e][d] = IF e = use THEN <<>> ELSE cache[e][d]
      BY <1>b, <1>8 DEF Clear, CacheTypeOK
    <2>2. \A e \in Conns : e # use => marks'[e] = marks[e]
      BY <1>b, <1>8 DEF Clear, CacheTypeOK
    <2>3. \A x \in astray \ astray' : x[1] = use
      BY <1>b, <1>8, RegainProperties DEF Clear, CacheTypeOK
    <2>4. ASSUME NEW e \in Conns, NEW d \in Dirs, e # use, <<e, d>> \in astray
          PROVE  <<e, d>> \in astray'
      BY <2>3, <2>4
    <2> QED
      BY <1>b, <2>1, <2>2, <2>4, MarkedKept
  <1>9. CASE FxpEnter \/ FxpLeave \/ FxpOntoDir
    BY <1>b, <1>9 DEF FxpEnter, FxpLeave, FxpOntoDir, Stay, StaleIsMarked
  <1>10. ASSUME NEW c \in Conns, NEW d \in Dirs, Expire(c, d) PROVE StaleIsMarked'
    <2>1. \A e \in Conns, x \in Dirs :
            /\ Len(cache'[e][x]) = Len(cache[e][x])
            /\ \A i \in 1 .. Len(cache[e][x]) :
                 cache'[e][x][i].outdated = cache[e][x][i].outdated
      BY <1>b, <1>10, ExpireProperties
    <2>2. marks' = marks /\ astray' = astray
      BY <1>10 DEF Expire
    <2> QED
      BY <1>b, <2>1, <2>2 DEF StaleIsMarked
  <1>11. CASE UNCHANGED vars
    BY <1>b, <1>11 DEF vars, StaleIsMarked
  <1> QED
    BY <1>1, <1>2, <1>3, <1>4, <1>5, <1>6, <1>7, <1>8, <1>9, <1>10, <1>11, StepKinds

\* At the start nothing is cached, hence nothing is stale.
LEMMA InitMarked == Init => IMarked
  <1> SUFFICES ASSUME Init PROVE IMarked
    OBVIOUS
  <1>1. \A c \in Conns, d \in Dirs : Len(cache[c][d]) = 0
    BY DEF Init
  <1> QED
    BY <1>1, InitType DEF IMarked, StaleIsMarked

\* Every listing our commands made untrue is marked on its connection and is the
\* only copy there, except where a mark or a copy went astray: aborts, fxp, timeouts,
\* lookups by any name and switching connections included.
THEOREM MarksComplete ==
  ASSUME ~MovesDirs
  PROVE  Spec => []StaleIsMarked
  <1>1. IMarked /\ [Next]_vars => IMarked'
    BY MarkedStep
  <1>2. IMarked => StaleIsMarked
    BY DEF IMarked
  <1> QED
    BY <1>1, <1>2, InitMarked, PTL DEF Spec

-----------------------------------------------------------------------------
(* Service.  Marks alone do not keep a stale listing from a command: that  *)
(* also takes a flush between the change and the command, on the           *)
(* connection of the change.  fxp and aborted commands are left out.       *)

Quiet == ~MovesDirs /\ ~Fxps /\ ~Jumps

StaleIsMine ==
  \A c \in Conns, d \in Dirs : <<c, d>> \notin astray =>
    \A i \in 1 .. Len(cache[c][d]) : cache[c][d][i].outdated => <<c, d>> \in mine

\* Between commands nothing is stale that is not astray; within one, only what it
\* changed itself, on the connection in use.
ServicePart ==
  /\ cmd # "fxp" /\ from = NoConn
  /\ mine \subseteq {use} \X Dirs
  /\ cmd \in {"none", "switch"} => mine = {}
  /\ StaleIsMine
  /\ NoStaleService
IService == IMarked /\ ServicePart

\* A listing given out is fresh, astray, or stale by the running command's own change.
LEMMA GiveOutService ==
  ASSUME CacheTypeOK, RestTypeOK, StaleIsMine, NoStaleService,
         NEW asked \in Dirs, NEW path \in Paths, NEW found \in BOOLEAN,
         GiveOut(use, asked, path, found), mine' = mine
  PROVE  StaleIsMine' /\ NoStaleService'
  <1>1. use \in Conns
    BY DEF RestTypeOK
  <1>2. /\ astray \subseteq astray'
        /\ \A e \in Conns, d \in Dirs :
             \/ cache'[e][d] = cache[e][d]
             \/ cache'[e][d] = <<FreshEntry>>
             \/ <<e, d>> \in astray'
    BY <1>1, GiveOutProperties
  <1>3. Len(<<FreshEntry>>) = 1 /\ <<FreshEntry>>[1].outdated = FALSE /\ FreshEntry.outdated = FALSE
    BY DEF FreshEntry
  <1>4. ASSUME NEW e \in Conns, NEW y \in Dirs, <<e, y>> \notin astray',
               NEW i \in 1 .. Len(cache'[e][y]), cache'[e][y][i].outdated
        PROVE  <<e, y>> \in mine'
    <2>1. CASE cache'[e][y] = cache[e][y]
      BY <1>2, <1>4, <2>1 DEF StaleIsMine
    <2>2. CASE cache'[e][y] = <<FreshEntry>>
      <3>1. i = 1
        BY <1>3, <2>2
      <3> QED
        BY <1>3, <1>4, <2>2, <3>1
    <2> QED
      BY <1>2, <1>4, <2>1, <2>2
  <1>5. CASE found /\ Cached(use, path)
    <2> DEFINE e == Head(cache[use][path])
    <2>1. path \in Dirs /\ cache[use][path] \in Seq(Entry) /\ cache[use][path] # <<>>
      BY <1>1, <1>5 DEF CacheTypeOK, Cached
    <2>2. 1 \in 1 .. Len(cache[use][path]) /\ e = cache[use][path][1]
      BY <2>1, EmptySeq
    <2>3. ~(e.outdated /\ <<use, path>> \notin mine \cup astray)
      BY <1>1, <2>1, <2>2 DEF StaleIsMine
    <2>4. "outdated" \notin FaultsOf(use, asked, path, e)
      BY <2>3 DEF FaultsOf
    <2>5. shown' = shown \cup FaultsOf(use, asked, path, e)
      BY <1>5 DEF GiveOut
    <2> QED
      BY <1>4, <2>4, <2>5 DEF NoStaleService, StaleIsMine
  <1>6. CASE ~(found /\ Cached(use, path))
    <2>1. shown' = shown \cup FaultsOf(use, asked, path, FreshEntry)
      BY <1>6 DEF GiveOut
    <2>2. "outdated" \notin FaultsOf(use, asked, path, FreshEntry)
      BY <1>3 DEF FaultsOf
    <2> QED
      BY <1>4, <2>1, <2>2 DEF NoStaleService, StaleIsMine
  <1> QED
    BY <1>5, <1>6

\* A command's own change is its own.
LEMMA RequestedService ==
  ASSUME CacheTypeOK, RestTypeOK, StaleIsMine, mine \subseteq {use} \X Dirs, Requested(use)
  PROVE  StaleIsMine' /\ mine' \subseteq {use} \X Dirs
  <1>1. use \in Conns
    BY DEF RestTypeOK
  <1>2. PICK changed \in SUBSET Dirs :
          /\ astray \subseteq astray'
          /\ \A e \in Conns, d \in Dirs :
               ~(e = use /\ d \in changed) => cache'[e][d] = cache[e][d]
          /\ mine' = mine \cup ({use} \X changed)
    BY <1>1, RequestedProperties
  <1>3. ASSUME NEW e \in Conns, NEW d \in Dirs, <<e, d>> \notin astray',
               NEW i \in 1 .. Len(cache'[e][d]), cache'[e][d][i].outdated
        PROVE  <<e, d>> \in mine'
    <2>1. CASE e = use /\ d \in changed
      BY <1>2, <2>1
    <2>2. CASE ~(e = use /\ d \in changed)
      <3>1. <<e, d>> \in mine
        BY <1>2, <1>3, <2>2 DEF StaleIsMine
      <3> QED
        BY <1>2, <3>1
    <2> QED
      BY <2>1, <2>2
  <1>4. mine' \subseteq {use} \X Dirs
    BY <1>2
  <1> QED
    BY <1>3, <1>4 DEF StaleIsMine

\* The flush of exe_cmd() leaves no stale listing and no mark but the astray ones.
LEMMA EndCmdService ==
  ASSUME CacheTypeOK, RestTypeOK, ServicePart, EndCmd, StaleIsMarked'
  PROVE  ServicePart'
  <1>1. use \in Conns /\ StaleIsMine /\ from = NoConn /\ mine \subseteq {use} \X Dirs
    BY DEF ServicePart, RestTypeOK
  <1>2. \A e \in Conns \ {use} : cache'[e] = cache[e]
    BY <1>1 DEF EndCmd, CacheTypeOK
  <1>3. marks'[use] = {}
    BY <1>1 DEF EndCmd, CacheTypeOK
  <1>4. \A x \in astray \ astray' : x[1] = use
    BY RegainProperties DEF EndCmd, CacheTypeOK
  <1>5. ASSUME NEW e \in Conns, NEW d \in Dirs, <<e, d>> \notin astray',
               NEW i \in 1 .. Len(cache'[e][d]), cache'[e][d][i].outdated
        PROVE  FALSE
    <2>1. CASE e = use
      BY <1>3, <1>5, <2>1 DEF StaleIsMarked
    <2>2. CASE e # use
      <3>1. <<e, d>> \notin astray
        BY <1>4, <1>5, <2>2
      <3>2. <<e, d>> \in mine
        BY <1>1, <1>2, <1>5, <2>2, <3>1 DEF StaleIsMine
      <3> QED
        BY <1>1, <2>2, <3>2
    <2> QED
      BY <2>1, <2>2
  <1>6. StaleIsMine'
    BY <1>5 DEF StaleIsMine
  <1> QED
    BY <1>1, <1>6 DEF EndCmd, ServicePart, NoStaleService

\* Every step keeps the service invariant.
LEMMA ServiceStep ==
  ASSUME Quiet, IService, [Next]_vars
  PROVE  IService'
  <1>a. IMarked'
    BY MarkedStep DEF Quiet, IService
  <1>b. ServicePart /\ CacheTypeOK /\ RestTypeOK /\ use \in Conns
    BY DEF IService, IMarked, ITypeOK, RestTypeOK
  <1> SUFFICES ServicePart'
    BY <1>a DEF IService
  <1>1. ASSUME NEW k \in Commands, Begin(k) PROVE ServicePart'
    BY <1>b, <1>1 DEF Begin, Quiet, ServicePart, StaleIsMine, NoStaleService
  <1>2. CASE EndCmd
    BY <1>a, <1>b, <1>2, EndCmdService DEF IMarked
  <1>3. CASE JumpOut
    BY <1>3 DEF JumpOut, Quiet
  <1>4. CASE Lookup
    <2>1. PICK asked \in Dirs, path \in Paths, found \in BOOLEAN : GiveOut(use, asked, path, found)
      BY <1>b, <1>4, LookupGivesOut DEF Lookup
    <2>2. mine' = mine /\ Idle
      BY <1>4 DEF Lookup, Read, Complete, CompleteDot
    <2>3. StaleIsMine' /\ NoStaleService'
      BY <1>b, <2>1, <2>2, GiveOutService DEF ServicePart
    <2> QED
      BY <1>b, <2>2, <2>3 DEF Idle, ServicePart
  <1>5. CASE Request
    <2>1. Requested(use)
      BY <1>b, <1>5, RequestRequests
    <2>2. StaleIsMine' /\ mine' \subseteq {use} \X Dirs
      BY <1>b, <2>1, RequestedService DEF ServicePart
    <2>3. Idle /\ shown' = shown /\ cmd \notin {"none", "switch"}
      BY <1>b, <1>5
         DEF Request, ChangeFile, Touch, Mkdir, Rmdir, Rename, ServicePart
    <2> QED
      BY <1>b, <2>2, <2>3 DEF Idle, ServicePart, NoStaleService
  <1>6. CASE Store \/ FxpEnter \/ FxpLeave \/ FxpOntoDir
    BY <1>b, <1>6 DEF Store, FxpStore, FxpEnter, FxpLeave, FxpOntoDir, Fxp, ServicePart
  <1>7. ASSUME NEW d \in Dirs, ChDir(d) PROVE ServicePart'
    BY <1>b, <1>7 DEF ChDir, Idle, ServicePart, StaleIsMine, NoStaleService
  <1>8. ASSUME NEW c \in Conns, Switch(c) PROVE ServicePart'
    BY <1>b, <1>8 DEF Switch, ServicePart, StaleIsMine, NoStaleService
  <1>9. CASE Clear
    <2>1. \A e \in Conns, d \in Dirs : cache'[e][d] = IF e = use THEN <<>> ELSE cache[e][d]
      BY <1>b, <1>9 DEF Clear, CacheTypeOK
    <2>2. \A x \in astray \ astray' : x[1] = use
      BY <1>b, <1>9, RegainProperties DEF Clear, CacheTypeOK
    <2>3. mine' = mine
      BY <1>9 DEF Clear
    <2>4. ASSUME NEW e \in Conns, NEW d \in Dirs, <<e, d>> \notin astray',
                 NEW i \in 1 .. Len(cache'[e][d]), cache'[e][d][i].outdated
          PROVE  <<e, d>> \in mine'
      <3>1. e # use
        BY <2>1, <2>4
      <3>2. <<e, d>> \notin astray
        BY <2>2, <2>4, <3>1
      <3> QED
        BY <1>b, <2>1, <2>3, <2>4, <3>1, <3>2 DEF ServicePart, StaleIsMine
    <2>5. StaleIsMine'
      BY <2>4 DEF StaleIsMine
    <2> QED
      BY <1>b, <1>9, <2>5 DEF Clear, Idle, ServicePart, NoStaleService
  <1>10. ASSUME NEW c \in Conns, NEW d \in Dirs, Expire(c, d) PROVE ServicePart'
    <2>1. \A e \in Conns, x \in Dirs :
            /\ Len(cache'[e][x]) = Len(cache[e][x])
            /\ \A i \in 1 .. Len(cache[e][x]) :
                 cache'[e][x][i].outdated = cache[e][x][i].outdated
      BY <1>b, <1>10, ExpireProperties
    <2>2. mine' = mine /\ astray' = astray
      BY <1>10 DEF Expire
    <2>3. StaleIsMine'
      <3>1. SUFFICES ASSUME NEW e \in Conns, NEW x \in Dirs, <<e, x>> \notin astray',
                            NEW i \in 1 .. Len(cache'[e][x]), cache'[e][x][i].outdated
                     PROVE  <<e, x>> \in mine'
        BY DEF StaleIsMine
      <3>2. i \in 1 .. Len(cache[e][x]) /\ cache[e][x][i].outdated
        BY <2>1, <3>1
      <3>3. StaleIsMine
        BY <1>b DEF ServicePart
      <3> QED
        BY <2>2, <3>1, <3>2, <3>3 DEF StaleIsMine
    <2> QED
      BY <1>b, <1>10, <2>3 DEF Expire, Idle, ServicePart, NoStaleService
  <1>11. CASE UNCHANGED vars
    BY <1>b, <1>11 DEF vars, ServicePart, StaleIsMine, NoStaleService
  <1> QED
    BY <1>1, <1>2, <1>3, <1>4, <1>5, <1>6, <1>7, <1>8, <1>9, <1>10, <1>11, StepKinds

\* The service invariant holds at the start.
LEMMA InitService == Init => IService
  <1> SUFFICES ASSUME Init PROVE IService
    OBVIOUS
  <1>1. \A c \in Conns, d \in Dirs : Len(cache[c][d]) = 0
    BY DEF Init
  <1> QED
    BY <1>1, InitMarked DEF Init, IService, ServicePart, StaleIsMine, NoStaleService

\* Where commands run to their end, fxp is not used and mv moves files only, no
\* command is given a listing that an earlier command made untrue, except of a
\* directory whose mark or listing went astray.
THEOREM NeverServedStale ==
  ASSUME Quiet
  PROVE  Spec => []NoStaleService
  <1>1. IService /\ [Next]_vars => IService'
    BY ServiceStep
  <1>2. IService => NoStaleService
    BY DEF IService, ServicePart
  <1> QED
    BY <1>1, <1>2, InitService, PTL DEF Spec
=============================================================================
