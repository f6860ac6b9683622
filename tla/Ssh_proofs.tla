---------------------------- MODULE Ssh_proofs ----------------------------
(***************************************************************************)
(* Files are whole and no directory is entered that is not there, over     *)
(* sftp and scp.                                                           *)
(***************************************************************************)
EXTENDS Ssh, SequenceTheorems, TLAPS

-----------------------------------------------------------------------------
(* Types, and where the client is.                                         *)

FileSet == {x \in [there : BOOLEAN, data : Seq(Nat)] : ~x.there => x.data = <<>>}
ListingSet == [known : BOOLEAN, dirs : SUBSET Dirs, size : [Files -> Nat \cup {-1}]]
OpSet == [name : {"none", "get", "put"}, f : Files \cup {NoOp.f},
          how : {"normal", "resume", "append", "unique"}, at : Nat, from : Nat,
          before : FileSet, clean : BOOLEAN, ok : BOOLEAN]

Receiving == {"scp get", "sftp get", "scp read", "sftp read"}
Opening == {"scp put", "sftp put"}
Sending == Opening \cup {"write"}

TypeOK ==
  /\ session \in {"none", "connect", "verify", "login", "sftp", "up", "dead"}
  /\ pc \in {"prompt", "done"} \cup Receiving \cup Sending
  /\ curdir \in Dirs /\ cache \in [Dirs -> ListingSet] /\ restart \in Nat /\ op \in OpSet
  /\ tree \subseteq Dirs /\ moved \subseteq Dirs
  /\ remote \in [Files -> FileSet] /\ loc \in [Files -> FileSet]

\* A transfer needs a session, if only a lost one.
Busy ==
  /\ pc # "prompt" => session \in {"up", "dead"} /\ op.f \in Files
  /\ pc \in Receiving => op.name = "get" /\ loc[op.f].there
  /\ pc \in Sending => op.name = "put"
  /\ pc = "write" => remote[op.f].there
  /\ op.name = "get" \/ pc \in Sending => op.how # "unique"

TypeInv == TypeOK /\ Busy

LEMMA NoOpForms ==
  /\ NoOp \in OpSet
  /\ NoOp.name = "none" /\ NoOp.how = "normal" /\ NoOp.at = 0 /\ NoOp.from = 0 /\ ~NoOp.ok
  <1>1. Absent \in FileSet
    BY DEF Absent, FileSet
  <1> QED
    BY <1>1 DEF NoOp, OpSet

LEMMA FileForms ==
  /\ Absent \in FileSet
  /\ \A s \in Seq(Nat) : File(s) \in FileSet /\ File(s).there /\ File(s).data = s
  /\ \A x \in FileSet : x.data \in Seq(Nat) /\ (~x.there => x.data = <<>>) /\ Size(x) \in Nat \cup {-1}
                        /\ Len(x.data) \in Nat
  BY LenProperties DEF FileSet, File, Absent, Size

LEMMA ListingForms ==
  ASSUME TypeOK
  PROVE  /\ NoListing \in ListingSet
         /\ \A d \in Dirs : ListingOf(d) \in ListingSet
         /\ \A m : Flush(m) \in [Dirs -> ListingSet]
         /\ NoCache \in [Dirs -> ListingSet]
         /\ Known \in [Dirs -> ListingSet]
  <1>1. NoListing \in ListingSet
    BY DEF NoListing, ListingSet
  <1>2. \A d \in Dirs : ListingOf(d) \in ListingSet
    <2> SUFFICES ASSUME NEW d \in Dirs
                 PROVE  ListingOf(d) \in ListingSet
      OBVIOUS
    <2>1. \A f \in Files : (IF d = Home THEN Size(remote[f]) ELSE -1) \in Nat \cup {-1}
      BY FileForms DEF TypeOK
    <2>2. Below(d) \cap tree \in SUBSET Dirs
      BY DEF TypeOK
    <2> QED
      BY <2>1, <2>2 DEF ListingOf, ListingSet
  <1>3. Home \in Dirs
    BY SshAssumption
  <1> QED
    BY <1>1, <1>2, <1>3 DEF TypeOK, Flush, NoCache, Known

LEMMA TypingInit == Init => TypeInv
  <1> SUFFICES ASSUME Init
               PROVE  TypeInv
    OBVIOUS
  <1>1. \A s \in Contents : s \in Seq(Nat)
    <2>1. Contents \subseteq Seq(Nat \ {0})
      BY SshAssumption
    <2>2. \A s \in Seq(Nat \ {0}) : s \in Seq(Nat)
      OBVIOUS
    <2> QED
      BY <2>1, <2>2
  <1>2. {Absent} \cup {File(s) : s \in Contents} \subseteq FileSet
    BY <1>1, FileForms
  <1>3. remote \in [Files -> FileSet] /\ loc \in [Files -> FileSet]
    BY <1>2 DEF Init
  <1>4. NoCache \in [Dirs -> ListingSet]
    <2>1. NoListing \in ListingSet
      BY DEF NoListing, ListingSet
    <2> QED
      BY <2>1 DEF NoCache
  <1> QED
    BY <1>3, <1>4, NoOpForms, SshAssumption DEF Init, TypeInv, TypeOK, Busy, Receiving, Sending, Opening

LEMMA CloseTyping ==
  ASSUME TypeInv, Close
  PROVE  TypeInv'
  <1>1. NoCache \in [Dirs -> ListingSet]
    BY ListingForms DEF TypeInv
  <1> QED
    BY <1>1, NoOpForms, SshAssumption DEF Close, TypeInv, TypeOK, Busy, Receiving, Sending, Opening

\* The steps of ssh_open_url() and the commands on directories.
Still == UNCHANGED <<pc, op, loc>>

LEMMA EstablishForms ==
  ASSUME Establish
  PROVE  \/ Close
         \/ /\ session' \in {"verify", "login", "sftp", "up"} /\ session \notin {"up", "dead"}
            /\ UNCHANGED <<curdir, cache, restart, pc, op, tree, remote, loc, moved>>
  <1>1. session \in DOMAIN After
    BY DEF Establish
  <1>2. session \in {"connect", "verify", "login", "sftp"} /\ After[session] \in {"verify", "login", "sftp", "up"}
    BY <1>1 DEF After
  <1>3. Close \/ (session' = After[session] /\ UNCHANGED <<curdir, cache, restart, pc, op>> /\ Elsewhere)
    BY Zenon DEF Establish
  <1> QED
    BY <1>2, <1>3 DEF Elsewhere

LEMMA TreeTyping ==
  ASSUME TypeInv,
         \E d \in Dirs : ChDir(d) \/ List(d) \/ Mkdir(d) \/ Rmdir(d) \/ \E e \in Dirs : Rename(d, e)
  PROVE  TypeInv'
  <1>0. TypeOK /\ Busy
    BY DEF TypeInv
  <1>1. PICK d \in Dirs : ChDir(d) \/ List(d) \/ Mkdir(d) \/ Rmdir(d) \/ \E e \in Dirs : Rename(d, e)
    OBVIOUS
  <1>2. \A m : Flush(m) \in [Dirs -> ListingSet]
    BY <1>0, ListingForms
  <1>3. UNCHANGED <<session, restart, pc, op, remote, loc>>
    BY <1>1 DEF ChDir, List, Mkdir, Rmdir, Rename, Alone
  <1>4. curdir' \in Dirs /\ tree' \subseteq Dirs /\ moved' \subseteq Dirs
    BY <1>0, <1>1 DEF ChDir, List, Mkdir, Rmdir, Rename, TypeOK
  <1>5. cache' \in [Dirs -> ListingSet]
    <2>1. CASE ChDir(d)
      BY <1>0, <2>1 DEF ChDir, TypeOK
    <2>2. CASE List(d)
      BY <1>0, <2>2, ListingForms DEF List, TypeOK
    <2>3. CASE Mkdir(d) \/ Rmdir(d) \/ \E e \in Dirs : Rename(d, e)
      <3>1. \E m : cache' = Flush(m)
        BY <2>3, Zenon DEF Mkdir, Rmdir, Rename
      <3> QED
        BY <1>2, <3>1
    <2> QED
      BY <1>1, <2>1, <2>2, <2>3
  <1> QED
    BY <1>0, <1>3, <1>4, <1>5 DEF TypeInv, TypeOK, Busy

LEMMA UnlinkTyping ==
  ASSUME TypeInv, NEW f \in Files, Unlink(f)
  PROVE  TypeInv'
  <1>1. cache' \in [Dirs -> ListingSet]
    BY ListingForms DEF Unlink, TypeInv
  <1>2. remote' \in [Files -> FileSet]
    BY FileForms DEF Unlink, TypeInv, TypeOK
  <1> QED
    BY <1>1, <1>2 DEF Unlink, Usable, TypeInv, TypeOK, Busy, Receiving, Sending, Opening

\* The locals of a get.
GetOp(f, how) ==
  [NoOp EXCEPT !.name = "get", !.f = f, !.how = how, !.at = OffsetOf(f, how),
               !.before = loc[f], !.clean = restart = 0]

OpenedFor(f, how) == IF OffsetOf(f, how) > 0 \/ how = "append" THEN File(loc[f].data) ELSE File(<<>>)

LEMMA GetForms ==
  ASSUME NEW f \in Files, NEW how \in {"normal", "resume", "append"}, Get(f, how)
  PROVE  /\ op' = GetOp(f, how)
         /\ session \in {"up", "dead"} /\ pc = "prompt"
         /\ UNCHANGED <<session, curdir, tree, moved, cache, remote>>
         /\ \/ pc' = "done" /\ loc' = loc /\ restart' \in {OffsetOf(f, how), 0}
            \/ /\ loc' = [loc EXCEPT ![f] = OpenedFor(f, how)] /\ restart' = 0
               /\ pc' = "sftp get" \/ (pc' = "scp get" /\ OffsetOf(f, how) = 0)
  <1>1. Usable /\ Away /\ UNCHANGED <<cache, remote>>
    BY Zenon DEF Get
  <1>2. \/ restart' = OffsetOf(f, how) /\ pc' = "done" /\ op' = GetOp(f, how) /\ UNCHANGED loc
        \/ restart' = 0 /\ pc' = "done" /\ op' = GetOp(f, how) /\ UNCHANGED loc
        \/ /\ restart' = 0
           /\ loc' = [loc EXCEPT ![f] = OpenedFor(f, how)]
           /\ op' = GetOp(f, how)
           /\ pc' = IF TryScp /\ OffsetOf(f, how) = 0 THEN "scp get" ELSE "sftp get"
    BY Zenon DEF Get, GetOp, Opened, OpenedFor
  <1> QED
    BY <1>1, <1>2 DEF Usable, Away

LEMMA GetTyping ==
  ASSUME TypeInv, NEW f \in Files, NEW how \in {"normal", "resume", "append"}, Get(f, how)
  PROVE  TypeInv'
  <1>0. TypeOK /\ Busy
    BY DEF TypeInv
  <1>1. OffsetOf(f, how) \in Nat /\ loc[f] \in FileSet
    BY <1>0, FileForms DEF TypeOK, OffsetOf
  <1>2. /\ GetOp(f, how) \in OpSet
        /\ GetOp(f, how).name = "get" /\ GetOp(f, how).f = f /\ GetOp(f, how).how = how
    BY <1>1, NoOpForms DEF OpSet, GetOp
  <1>3. loc' \in [Files -> FileSet]
    <2>1. OpenedFor(f, how) \in FileSet
      <3>1. loc[f].data \in Seq(Nat) /\ <<>> \in Seq(Nat)
        BY <1>1, FileForms
      <3>2. File(loc[f].data) \in FileSet /\ File(<<>>) \in FileSet
        BY <3>1, FileForms
      <3> QED
        BY <3>2 DEF OpenedFor
    <2>2. loc' = loc \/ loc' = [loc EXCEPT ![f] = OpenedFor(f, how)]
      BY GetForms
    <2> QED
      BY <1>0, <2>1, <2>2 DEF TypeOK
  <1>4. /\ session \in {"up", "dead"} /\ UNCHANGED <<session, curdir, tree, moved, cache, remote>>
        /\ restart' \in Nat /\ op' = GetOp(f, how) /\ pc' \in {"done", "sftp get", "scp get"}
    <2>1. \/ pc' = "done" /\ restart' \in {OffsetOf(f, how), 0}
          \/ restart' = 0 /\ (pc' = "sftp get" \/ pc' = "scp get")
      BY GetForms, Zenon
    <2>2. session \in {"up", "dead"} /\ op' = GetOp(f, how)
          /\ UNCHANGED <<session, curdir, tree, moved, cache, remote>>
      BY GetForms, Zenon
    <2>3. restart' \in Nat
      <3>1. restart' = OffsetOf(f, how) \/ restart' = 0
        BY <2>1, Zenon
      <3>2. 0 \in Nat
        OBVIOUS
      <3> QED
        BY <1>1, <3>1, <3>2, Zenon
    <2>4. pc' \in {"done", "sftp get", "scp get"}
      BY <2>1
    <2> QED
      BY <2>2, <2>3, <2>4, Zenon
  <1>7. pc' \in Receiving => loc'[f].there
    <2>1. pc' = "done" \/ loc' = [loc EXCEPT ![f] = OpenedFor(f, how)]
      BY GetForms, Zenon
    <2>2. OpenedFor(f, how).there
      <3>1. loc[f].data \in Seq(Nat) /\ <<>> \in Seq(Nat)
        BY <1>1, FileForms
      <3>2. File(loc[f].data).there /\ File(<<>>).there
        BY <3>1, FileForms
      <3> QED
        BY <3>2 DEF OpenedFor
    <2> QED
      BY <1>0, <2>1, <2>2 DEF TypeOK, Receiving
  <1> HIDE DEF GetOp
  <1>5. TypeOK'
    BY <1>0, <1>2, <1>3, <1>4 DEF TypeOK, Receiving
  <1>6. Busy'
    BY <1>2, <1>4, <1>7 DEF Busy, Receiving, Sending, Opening
  <1> QED
    BY <1>5, <1>6 DEF TypeInv

LEMMA PutTyping ==
  ASSUME TypeInv, NEW f \in Files, NEW how \in {"normal", "resume", "append", "unique"}, Put(f, how)
  PROVE  TypeInv'
  <1> DEFINE from == IF how = "resume" THEN ResumeAt(f) ELSE 0
             at == IF how = "append" THEN ServerSize(f) ELSE from
             this == [NoOp EXCEPT !.name = "put", !.f = f, !.how = how, !.at = at, !.from = from,
                                  !.before = remote[f]]
  <1>0. TypeOK /\ Busy
    BY DEF TypeInv
  <1>1. from \in Nat /\ at \in Nat /\ remote[f] \in FileSet
    <2>1. remote[f] \in FileSet /\ ServerSize(f) \in Nat
      BY <1>0, FileForms DEF TypeOK, ServerSize
    <2>2. Known[Home] \in ListingSet
      BY <1>0, ListingForms, SshAssumption
    <2>3. Known[Home].size[f] \in Nat \cup {-1}
      BY <2>2 DEF ListingSet
    <2>4. ResumeAt(f) \in Nat
      <3> DEFINE n == Known[Home].size[f]
      <3> HIDE DEF n
      <3>1. n \in Nat \cup {-1} /\ ResumeAt(f) = IF n # -1 THEN n ELSE ServerSize(f)
        BY <2>3 DEF ResumeAt, n
      <3> QED
        BY <2>1, <3>1
    <2> QED
      BY <2>1, <2>4
  <1>2. this \in OpSet /\ this.name = "put" /\ this.f = f /\ this.how = how
    <2> HIDE DEF at, from
    <2> QED
      BY <1>1, NoOpForms DEF OpSet
  <1>3. /\ op' = this /\ restart' = 0 /\ pc' \in {"done", "scp put", "sftp put"}
        /\ how = "unique" => pc' = "done"
        /\ UNCHANGED <<session, curdir, tree, moved, remote, loc>> /\ session \in {"up", "dead"}
    <2> HIDE DEF at, from
    <2> QED
      BY <1>1 DEF Put, Away, Usable, at, from
  <1>4. cache' \in [Dirs -> ListingSet]
    BY <1>0, ListingForms DEF Put, TypeOK
  <1> HIDE DEF this
  <1> QED
    BY <1>0, <1>2, <1>3, <1>4 DEF TypeInv, TypeOK, Busy, Receiving, Sending, Opening

\* A transfer under way changes nothing but its locals and the file it writes.
LEMMA TransferForms ==
  ASSUME TypeInv, StartGet \/ Read \/ ReadEnd \/ StartPut \/ Write \/ WriteEnd
  PROVE  /\ UNCHANGED <<session, curdir, tree, moved, cache, restart>>
         /\ op' \in OpSet /\ op'.f = op.f /\ op'.name = op.name /\ op'.how = op.how
         /\ op'.before = op.before /\ op'.clean = op.clean
         /\ pc # "prompt" /\ pc # "done"
         /\ pc' = "done" \/ (pc \in Receiving /\ pc' \in Receiving) \/ (pc \in Sending /\ pc' \in Sending)
  <1>0. op \in OpSet /\ TypeOK
    BY DEF TypeInv, TypeOK
  <1>1. /\ UNCHANGED <<session, curdir, tree, moved, cache, restart>>
    BY Zenon DEF StartGet, Read, ReadEnd, StartPut, Write, WriteEnd, Away
  <1>2. \A r \in BOOLEAN : Done(r) => pc' = "done" /\ op' = [op EXCEPT !.ok = r]
    BY DEF Done
  <1>3. /\ ScpGetResult(-2) => pc' = "sftp get" /\ op' = [op EXCEPT !.at = 0]
        /\ ScpGetResult(-1) => pc' = "done" /\ op' = [op EXCEPT !.ok = FALSE]
    <2>1. (-2 = -2) = TRUE /\ (-1 = -2) = FALSE /\ (-1 = 0) = FALSE
      OBVIOUS
    <2> QED
      BY <2>1, Zenon DEF ScpGetResult, FromStart, Done
  <1>4. \/ \E r \in BOOLEAN : pc' = "done" /\ op' = [op EXCEPT !.ok = r]
        \/ pc \in Receiving /\ pc' \in Receiving /\ op' \in {op, [op EXCEPT !.at = 0], [op EXCEPT !.at = @ + 1]}
        \/ /\ pc \in Sending /\ pc' \in Sending
           /\ op' \in {op, [op EXCEPT !.at = @ + 1, !.from = @ + 1]}
    <2>1. CASE StartGet
      BY <1>2, <1>3, <2>1 DEF StartGet, Receiving
    <2>2. CASE Read
      BY <1>2, <1>3, <2>2 DEF Read, Receiving
    <2>3. CASE ReadEnd
      BY <1>2, <2>3 DEF ReadEnd
    <2>4. CASE StartPut
      BY <1>2, <2>4 DEF StartPut, Sending, Opening
    <2>5. CASE Write
      BY <1>2, <2>5 DEF Write, Sending, Opening
    <2>6. CASE WriteEnd
      BY <1>2, <2>6 DEF WriteEnd
    <2> QED
      BY <2>1, <2>2, <2>3, <2>4, <2>5, <2>6
  <1>5. pc # "prompt" /\ pc # "done"
    BY DEF StartGet, Read, ReadEnd, StartPut, Write, WriteEnd
  <1>6. op' \in OpSet /\ op'.f = op.f /\ op'.name = op.name /\ op'.how = op.how
        /\ op'.before = op.before /\ op'.clean = op.clean
    <2>1. CASE \E r \in BOOLEAN : op' = [op EXCEPT !.ok = r]
      BY <1>0, <2>1 DEF OpSet
    <2>2. CASE op' \in {op, [op EXCEPT !.at = 0], [op EXCEPT !.at = @ + 1]}
      BY <1>0, <2>2 DEF OpSet
    <2>3. CASE op' = [op EXCEPT !.at = @ + 1, !.from = @ + 1]
      <3>1. op.at + 1 \in Nat /\ op.from + 1 \in Nat
        BY <1>0 DEF OpSet
      <3> DEFINE n == op.at + 1
                 m == op.from + 1
      <3>2. op' = [op EXCEPT !.at = n, !.from = m]
        BY <2>3
      <3> HIDE DEF n, m
      <3>3. n \in Nat /\ m \in Nat
        BY <3>1 DEF n, m
      <3> QED
        BY <1>0, <3>2, <3>3 DEF OpSet
    <2> QED
      BY <1>4, <2>1, <2>2, <2>3
  <1> QED
    BY <1>1, <1>4, <1>5, <1>6

\* What a read appends and a write puts in place.
LEMMA PieceForms ==
  ASSUME NEW s \in Seq(Nat), NEW p \in Nat
  PROVE  /\ Append(s, p) \in Seq(Nat) /\ Len(Append(s, p)) = Len(s) + 1
         /\ \A i \in 1 .. Len(s) : Append(s, p)[i] = s[i]
         /\ Append(s, p)[Len(s) + 1] = p
  BY AppendProperties

LEMMA WriteForms ==
  ASSUME NEW s \in Seq(Nat), NEW n \in Nat, NEW p \in Nat
  PROVE  /\ WriteAt(s, n, p) \in Seq(Nat)
         /\ n = Len(s) => /\ Len(WriteAt(s, n, p)) = n + 1
                          /\ \A i \in 1 .. n : WriteAt(s, n, p)[i] = s[i]
                          /\ WriteAt(s, n, p)[n + 1] = p
  <1> DEFINE m == IF Len(s) > n THEN Len(s) ELSE n + 1
             t == [k \in 1 .. m |-> IF k = n + 1 THEN p ELSE IF k <= Len(s) THEN s[k] ELSE 0]
  <1>1. Len(s) \in Nat /\ m \in Nat /\ \A k \in 1 .. Len(s) : s[k] \in Nat
    BY LenProperties, ElementOfSeq
  <1>2. \A k \in 1 .. m : t[k] \in Nat
    BY <1>1
  <1>3. t \in [1 .. m -> Nat]
    BY <1>2
  <1>4. WriteAt(s, n, p) = t
    BY DEF WriteAt
  <1>5. t \in Seq(Nat) /\ Len(t) = m
    <2> HIDE DEF m, t
    <2> QED
      BY <1>1, <1>3, SeqDef, LenProperties
  <1>6. n = Len(s) => m = n + 1 /\ \A i \in 1 .. n : t[i] = s[i] /\ t[n + 1] = p
    BY <1>1
  <1>7. n = Len(s) => t[n + 1] = p
    BY <1>1
  <1> HIDE DEF t, m
  <1> QED
    BY <1>4, <1>5, <1>6, <1>7

\* The file a transfer writes.
LEMMA WrittenForms ==
  ASSUME TypeInv, StartGet \/ Read \/ ReadEnd \/ StartPut \/ Write \/ WriteEnd
  PROVE  \/ loc' = loc /\ remote' = remote /\ pc' # "write"
         \/ /\ Read /\ remote' = remote
            /\ op.at < Len(remote[op.f].data) /\ remote[op.f].data[op.at + 1] \in Nat
            /\ loc' = [loc EXCEPT ![op.f].data = Append(@, remote[op.f].data[op.at + 1])]
         \/ /\ StartPut /\ loc' = loc /\ pc' = "write" /\ op' = op /\ Up
            /\ remote' = [remote EXCEPT ![op.f] = IF op.at = 0 THEN File(<<>>) ELSE File(@.data)]
         \/ /\ Write /\ loc' = loc
            /\ op.from < Len(loc[op.f].data) /\ loc[op.f].data[op.from + 1] \in Nat
            /\ remote' = [remote EXCEPT ![op.f].data = WriteAt(@, op.at, loc[op.f].data[op.from + 1])]
  <1>0. /\ op.f \in Files /\ op.at \in Nat /\ op.from \in Nat
        /\ remote[op.f].data \in Seq(Nat) /\ loc[op.f].data \in Seq(Nat)
    <2>1. op.f \in Files /\ op \in OpSet /\ TypeOK
      BY TransferForms DEF TypeInv, TypeOK, Busy
    <2> QED
      BY <2>1, FileForms DEF TypeOK, OpSet
  <1>1. CASE StartGet \/ ReadEnd \/ WriteEnd
    BY <1>1 DEF StartGet, ReadEnd, WriteEnd, Done, ScpGetResult, FromStart
  <1>2. CASE Read
    <2>1. op.at < Len(remote[op.f].data) => remote[op.f].data[op.at + 1] \in Nat
      <3> DEFINE s == remote[op.f].data
                 ii == op.at + 1
      <3> HIDE DEF s, ii
      <3>1. s \in Seq(Nat) /\ Len(s) \in Nat
        BY <1>0, LenProperties DEF s
      <3>2. op.at < Len(s) => ii \in 1 .. Len(s)
        BY <1>0, <3>1 DEF ii
      <3> QED
        BY <3>1, <3>2, ElementOfSeq DEF s, ii
    <2>2. remote' = remote /\ op.at < Len(remote[op.f].data)
      BY <1>2 DEF Read
    <2>3. \/ pc' = pc /\ loc' = [loc EXCEPT ![op.f].data = Append(@, remote[op.f].data[op.at + 1])]
          \/ loc' = loc /\ (Done(FALSE) \/ ScpGetResult(-1))
      BY <1>2 DEF Read
    <2>4. ScpGetResult(-1) => pc' # "write"
      BY DEF ScpGetResult, FromStart, Done
    <2> QED
      BY <1>2, <2>1, <2>2, <2>3, <2>4 DEF Done
  <1>3. CASE StartPut
    BY <1>3 DEF StartPut, Done
  <1>4. CASE Write
    <2>1. op.from < Len(loc[op.f].data) => loc[op.f].data[op.from + 1] \in Nat
      <3> DEFINE s == loc[op.f].data
                 ii == op.from + 1
      <3> HIDE DEF s, ii
      <3>1. s \in Seq(Nat) /\ Len(s) \in Nat
        BY <1>0, LenProperties DEF s
      <3>2. op.from < Len(s) => ii \in 1 .. Len(s)
        BY <1>0, <3>1 DEF ii
      <3> QED
        BY <3>1, <3>2, ElementOfSeq DEF s, ii
    <2>2. loc' = loc /\ op.from < Len(loc[op.f].data)
      BY <1>4 DEF Write
    <2>3. \/ remote' = [remote EXCEPT ![op.f].data = WriteAt(@, op.at, loc[op.f].data[op.from + 1])]
          \/ Done(FALSE) /\ remote' = remote
      BY <1>4 DEF Write
    <2> QED
      BY <1>4, <2>1, <2>2, <2>3 DEF Done
  <1> QED
    BY <1>1, <1>2, <1>3, <1>4

LEMMA TransferTyping ==
  ASSUME TypeInv, StartGet \/ Read \/ ReadEnd \/ StartPut \/ Write \/ WriteEnd
  PROVE  TypeInv'
  <1>0. /\ TypeOK /\ Busy /\ op.f \in Files /\ op.at \in Nat /\ op.from \in Nat
        /\ remote \in [Files -> FileSet] /\ loc \in [Files -> FileSet]
        /\ remote[op.f] \in FileSet /\ loc[op.f] \in FileSet
        /\ remote[op.f].data \in Seq(Nat) /\ loc[op.f].data \in Seq(Nat)
    <2>1. TypeOK /\ Busy /\ op.f \in Files /\ op \in OpSet
      BY TransferForms DEF TypeInv, TypeOK, Busy
    <2> QED
      BY <2>1, FileForms DEF TypeOK, OpSet
  <1>1. /\ remote' \in [Files -> FileSet] /\ loc' \in [Files -> FileSet]
        /\ loc[op.f].there => loc'[op.f].there
        /\ remote[op.f].there => remote'[op.f].there
        /\ pc' = "write" => remote'[op.f].there
    <2>1. CASE loc' = loc /\ remote' = remote /\ pc' # "write"
      BY <1>0, <2>1
    <2>2. CASE /\ Read /\ remote' = remote /\ remote[op.f].data[op.at + 1] \in Nat
               /\ loc' = [loc EXCEPT ![op.f].data = Append(@, remote[op.f].data[op.at + 1])]
      <3> DEFINE x == loc[op.f]
                 p == remote[op.f].data[op.at + 1]
                 t == Append(x.data, p)
      <3>1. x.there
        BY <1>0, <2>2 DEF Read, Busy, Receiving
      <3>2. t \in Seq(Nat)
        BY <1>0, <2>2, PieceForms
      <3>3. loc' = [loc EXCEPT ![op.f].data = t]
        BY <2>2
      <3>4. pc' # "write"
        BY <2>2, TransferForms DEF Read, Receiving, Sending, Opening
      <3> HIDE DEF t
      <3>5. [x EXCEPT !.data = t] \in FileSet /\ [x EXCEPT !.data = t].there
        BY <1>0, <3>1, <3>2 DEF FileSet
      <3>6. loc' = [loc EXCEPT ![op.f] = [x EXCEPT !.data = t]]
        BY <1>0, <3>3
      <3> HIDE DEF x
      <3> QED
        BY <1>0, <2>2, <3>1, <3>4, <3>5, <3>6
    <2>3. CASE /\ loc' = loc
               /\ remote' = [remote EXCEPT ![op.f] = IF op.at = 0 THEN File(<<>>) ELSE File(@.data)]
      <3>1. /\ File(<<>>) \in FileSet /\ File(remote[op.f].data) \in FileSet
            /\ File(<<>>).there /\ File(remote[op.f].data).there
        <4>1. <<>> \in Seq(Nat) /\ remote[op.f].data \in Seq(Nat)
          BY <1>0
        <4> QED
          BY <4>1, FileForms, Zenon
      <3> QED
        BY <1>0, <2>3, <3>1
    <2>4. CASE /\ Write /\ loc' = loc /\ loc[op.f].data[op.from + 1] \in Nat
               /\ remote' = [remote EXCEPT ![op.f].data = WriteAt(@, op.at, loc[op.f].data[op.from + 1])]
      <3> DEFINE x == remote[op.f]
                 p == loc[op.f].data[op.from + 1]
                 t == WriteAt(x.data, op.at, p)
      <3>1. x.there
        BY <1>0, <2>4 DEF Write, Busy
      <3>2. t \in Seq(Nat)
        BY <1>0, <2>4, WriteForms
      <3>3. remote' = [remote EXCEPT ![op.f].data = t]
        BY <2>4
      <3> HIDE DEF t
      <3>5. [x EXCEPT !.data = t] \in FileSet /\ [x EXCEPT !.data = t].there
        BY <1>0, <3>1, <3>2 DEF FileSet
      <3>6. remote' = [remote EXCEPT ![op.f] = [x EXCEPT !.data = t]]
        BY <1>0, <3>3
      <3> HIDE DEF x
      <3> QED
        BY <1>0, <2>4, <3>1, <3>5, <3>6
    <2> QED
      BY <2>1, <2>2, <2>3, <2>4, WrittenForms
  <1>2. /\ UNCHANGED <<session, curdir, tree, moved, cache, restart>>
        /\ op' \in OpSet /\ op'.f = op.f /\ op'.name = op.name /\ op'.how = op.how
        /\ pc # "prompt"
        /\ pc' = "done" \/ (pc \in Receiving /\ pc' \in Receiving) \/ (pc \in Sending /\ pc' \in Sending)
    BY TransferForms, Zenon
  <1>3. TypeOK'
    BY <1>0, <1>1, <1>2 DEF TypeOK
  <1>4. Busy'
    BY <1>0, <1>1, <1>2 DEF Busy, Receiving, Sending, Opening
  <1> QED
    BY <1>3, <1>4 DEF TypeInv

LEMMA EndTyping ==
  ASSUME TypeInv, EndCmd
  PROVE  TypeInv'
  <1>1. cache' \in [Dirs -> ListingSet]
    <2>1. cache' = cache \/ cache' = Flush(PutMarks)
      BY DEF EndCmd
    <2> QED
      BY <2>1, ListingForms DEF TypeInv, TypeOK
  <1> QED
    BY <1>1, NoOpForms DEF EndCmd, Elsewhere, TypeInv, TypeOK, Busy, Receiving, Sending, Opening

\* The steps, sorted by what they touch.
Moves == \E d \in Dirs : ChDir(d) \/ List(d) \/ Mkdir(d) \/ Rmdir(d) \/ \E e \in Dirs : Rename(d, e)
Gets == \E f \in Files : \E how \in {"normal", "resume", "append"} : Get(f, how)
Puts == \E f \in Files : \E how \in {"normal", "resume", "append", "unique"} : Put(f, how)
Runs == StartGet \/ Read \/ ReadEnd \/ StartPut \/ Write \/ WriteEnd
Dials ==
  /\ UNCHANGED <<curdir, cache, restart, pc, op, tree, remote, loc, moved>>
  /\ \/ session = "none" /\ session' = "connect"
     \/ session' \in {"verify", "login", "sftp", "up"} /\ session \notin {"up", "dead"}
     \/ session = "up" /\ session' = "dead"

LEMMA NextForms ==
  ASSUME Next
  PROVE  Dials \/ Close \/ Runs \/ EndCmd \/ Moves \/ Gets \/ Puts \/ \E f \in Files : Unlink(f)
  <1>1. CASE Open \/ SessionLost
    BY <1>1 DEF Open, SessionLost, Up, Dials, Elsewhere
  <1>2. CASE Establish
    BY <1>2, EstablishForms DEF Dials
  <1>3. CASE CmdClose \/ Interrupt
    BY <1>3, Zenon DEF CmdClose, Interrupt
  <1>4. CASE Transfer
    BY <1>4, Zenon DEF Transfer, Runs
  <1> QED
    BY <1>1, <1>2, <1>3, <1>4, Zenon DEF Next, Moves, Gets, Puts

LEMMA TypingStep == TypeInv /\ [Next]_vars => TypeInv'
  <1> SUFFICES ASSUME TypeInv, [Next]_vars
               PROVE  TypeInv'
    OBVIOUS
  <1>1. CASE UNCHANGED vars
    BY <1>1 DEF vars, client, TypeInv, TypeOK, Busy
  <1>2. CASE Dials
    BY <1>2 DEF Dials, TypeInv, TypeOK, Busy, Receiving, Sending, Opening
  <1>3. CASE Close
    BY <1>3, CloseTyping
  <1>4. CASE Runs
    BY <1>4, TransferTyping DEF Runs
  <1>5. CASE EndCmd
    BY <1>5, EndTyping
  <1>6. CASE Moves
    BY <1>6, TreeTyping DEF Moves
  <1>7. CASE Gets
    BY <1>7, GetTyping DEF Gets
  <1>8. CASE Puts
    BY <1>8, PutTyping DEF Puts
  <1>9. CASE \E f \in Files : Unlink(f)
    BY <1>9, UnlinkTyping
  <1> QED
    BY <1>1, <1>2, <1>3, <1>4, <1>5, <1>6, <1>7, <1>8, <1>9, NextForms

-----------------------------------------------------------------------------
(* The cache and the tree.                                                 *)

\* What the cache knows to be a directory is one, or was renamed, and what it
\* knows of the files of Home is so, but while one of them is being sent.
CacheInv ==
  /\ Home \in tree
  /\ \A d \in Dirs : cache[d].known => d \in tree \cup moved
  /\ \A d \in Dirs : cache[d].dirs \subseteq Below(d) \cap (tree \cup moved)
  /\ \A d \in Dirs : ~cache[d].known => cache[d] = NoListing
  /\ cache[Home].known /\ ~(pc # "prompt" /\ op.name = "put" /\ op.how # "unique")
     => \A f \in Files : cache[Home].size[f] = Size(remote[f])

\* The first four parts of a cache c, a tree t and names m.
Truly(c, t, m) ==
  /\ Home \in t
  /\ \A d \in Dirs : c[d].known => d \in t \cup m
  /\ \A d \in Dirs : c[d].dirs \subseteq Below(d) \cap (t \cup m)
  /\ \A d \in Dirs : ~c[d].known => c[d] = NoListing

Sized(c, r) == c[Home].known => \A f \in Files : c[Home].size[f] = Size(r[f])

LEMMA CacheForms ==
  CacheInv <=> /\ Truly(cache, tree, moved)
               /\ pc = "prompt" \/ op.name # "put" \/ op.how = "unique" => Sized(cache, remote)
  BY Zenon DEF CacheInv, Truly, Sized

LEMMA CacheFormsNext ==
  CacheInv' <=> /\ Truly(cache', tree', moved')
                /\ pc' = "prompt" \/ op'.name # "put" \/ op'.how = "unique" => Sized(cache', remote')
  BY Zenon DEF CacheInv, Truly, Sized, Below, Size

LEMMA NoListingForms ==
  ~NoListing.known /\ NoListing.dirs = {} /\ \A f \in Files : NoListing.size[f] = -1
  BY DEF NoListing

LEMMA NoCacheTrue ==
  ASSUME NEW t, Home \in t, NEW m, NEW r
  PROVE  Truly(NoCache, t, m) /\ Sized(NoCache, r)
  BY NoListingForms, SshAssumption DEF NoCache, Truly, Sized

\* Dropping the listings of m, when the others are true of t and n.
But(m, t, n) ==
  /\ Home \in t
  /\ \A d \in Dirs \ m : cache[d].known => d \in t \cup n
  /\ \A d \in Dirs \ m : cache[d].dirs \subseteq Below(d) \cap (t \cup n)
  /\ \A d \in Dirs : ~cache[d].known => cache[d] = NoListing

LEMMA FlushTrue ==
  ASSUME TypeOK, NEW m, NEW t, NEW n, NEW r, But(m, t, n), Home \in m \/ Sized(cache, r)
  PROVE  Truly(Flush(m), t, n) /\ Sized(Flush(m), r)
  <1> DEFINE c == Flush(m)
  <1>1. \A d \in Dirs : c[d] = IF d \in m THEN NoListing ELSE cache[d]
    BY DEF Flush
  <1> HIDE DEF c
  <1>2. Truly(c, t, n)
    BY <1>1, NoListingForms DEF Truly, But
  <1>3. Sized(c, r)
    BY <1>1, NoListingForms, SshAssumption DEF Sized
  <1> QED
    BY <1>2, <1>3 DEF c

\* Looking at a directory that is there.
LEMMA ListTrue ==
  ASSUME TypeOK, NEW d \in Dirs, d \in tree, Truly(cache, tree, moved),
         NEW c, c = [cache EXCEPT ![d] = ListingOf(d)]
  PROVE  /\ Truly(c, tree, moved)
         /\ d = Home \/ Sized(cache, remote) => Sized(c, remote)
  <1>1. /\ ListingOf(d).known /\ ListingOf(d).dirs = Below(d) \cap tree
        /\ d = Home => \A f \in Files : ListingOf(d).size[f] = Size(remote[f])
    BY DEF ListingOf
  <1>2. \A e \in Dirs : c[e] = IF e = d THEN ListingOf(d) ELSE cache[e]
    BY DEF TypeOK
  <1>3. Truly(c, tree, moved)
    BY <1>1, <1>2 DEF Truly
  <1>4. d = Home \/ Sized(cache, remote) => Sized(c, remote)
    BY <1>1, <1>2, SshAssumption DEF Sized
  <1> QED
    BY <1>3, <1>4

LEMMA CacheInit == Init => CacheInv
  <1> SUFFICES ASSUME Init
               PROVE  CacheInv
    OBVIOUS
  <1>1. cache = NoCache /\ Home \in tree
    BY DEF Init
  <1> QED
    BY <1>1, NoCacheTrue, CacheForms

LEMMA CacheStep == TypeInv /\ CacheInv /\ [Next]_vars => CacheInv'
  <1> SUFFICES ASSUME TypeInv, CacheInv, [Next]_vars
               PROVE  CacheInv'
    OBVIOUS
  <1>0. /\ TypeOK /\ Busy /\ Truly(cache, tree, moved) /\ Home \in tree
        /\ pc = "prompt" \/ op.name # "put" \/ op.how = "unique" => Sized(cache, remote)
    BY CacheForms DEF TypeInv, CacheInv
  <1>1. CASE UNCHANGED vars
    BY <1>0, <1>1, CacheFormsNext DEF vars, client
  <1>2. CASE Dials
    BY <1>0, <1>2, CacheFormsNext DEF Dials
  <1>3. CASE Close
    BY <1>0, <1>3, CacheFormsNext, NoCacheTrue DEF Close
  <1>4. CASE Runs
    <2>1. /\ UNCHANGED <<tree, moved, cache>> /\ op'.name = op.name /\ op'.how = op.how
          /\ pc \in Receiving \cup Sending /\ pc' # "prompt"
      <3>1. /\ UNCHANGED <<tree, moved, cache>> /\ op'.name = op.name /\ op'.how = op.how
            /\ pc # "prompt" /\ pc # "done"
            /\ pc' = "done" \/ (pc \in Receiving /\ pc' \in Receiving) \/ (pc \in Sending /\ pc' \in Sending)
        BY <1>4, TransferForms DEF Runs
      <3> QED
        BY <1>0, <3>1 DEF TypeOK, Receiving, Sending, Opening
    <2>2. CASE pc \in Sending
      BY <1>0, <2>1, <2>2, CacheFormsNext DEF Busy
    <2>3. CASE pc \in Receiving
      <3>1. ~StartPut /\ ~Write
        BY <2>3 DEF StartPut, Write, Receiving
      <3>2. remote' = remote
        BY <1>4, <3>1, WrittenForms, Zenon DEF Runs
      <3> QED
        BY <1>0, <2>1, <3>2, CacheFormsNext
    <2> QED
      BY <2>1, <2>2, <2>3
  <1>5. CASE EndCmd
    <2>1. Truly(Flush(PutMarks), tree, moved) /\ Sized(Flush(PutMarks), remote)
      <3>1. Home \in PutMarks
        BY DEF PutMarks
      <3>2. But(PutMarks, tree, moved)
        BY <1>0 DEF Truly, But
      <3> QED
        BY <1>0, <3>1, <3>2, FlushTrue
    <2>2. UNCHANGED <<tree, moved, remote>>
          /\ cache' = IF op.name = "put" /\ op.how # "unique" THEN Flush(PutMarks) ELSE cache
      BY <1>5 DEF EndCmd, Elsewhere
    <2> QED
      BY <1>0, <2>1, <2>2, CacheFormsNext
  <1>6. CASE Moves
    <2>0. Usable /\ pc' = pc /\ UNCHANGED <<op, remote>> /\ Sized(cache, remote)
      <3>1. Usable /\ pc' = pc /\ UNCHANGED <<op, remote>>
        BY <1>6 DEF Moves, ChDir, List, Mkdir, Rmdir, Rename, Alone
      <3> QED
        BY <1>0, <3>1 DEF Usable
    <2> SUFFICES Truly(cache', tree', moved') /\ Sized(cache', remote)
      BY <2>0, CacheFormsNext
    <2>1. PICK d \in Dirs : ChDir(d) \/ List(d) \/ Mkdir(d) \/ Rmdir(d) \/ \E e \in Dirs : Rename(d, e)
      BY <1>6 DEF Moves
    <2>2. CASE ChDir(d)
      BY <1>0, <2>0, <2>2 DEF ChDir
    <2>3. CASE List(d)
      <3>1. d \in tree /\ cache' = [cache EXCEPT ![d] = ListingOf(d)] /\ UNCHANGED <<tree, moved>>
        BY <2>3 DEF List
      <3> DEFINE c == [cache EXCEPT ![d] = ListingOf(d)]
      <3>2. Truly(c, tree, moved) /\ Sized(c, remote)
        BY <1>0, <2>0, <3>1, ListTrue
      <3> QED
        BY <3>1, <3>2
    <2>4. CASE Mkdir(d)
      <3>1. tree' = tree \cup {d} /\ cache' = Flush({Parent[d]}) /\ moved' = moved
        BY <2>4 DEF Mkdir
      <3> DEFINE t == tree \cup {d}
                 m == {Parent[d]}
      <3>2. Truly(Flush(m), t, moved) /\ Sized(Flush(m), remote)
        <4>1. But(m, t, moved)
          BY <1>0 DEF Truly, But
        <4> HIDE DEF t, m
        <4> QED
          BY <1>0, <2>0, <4>1, FlushTrue
      <3> QED
        BY <3>1, <3>2
    <2>5. CASE Rmdir(d)
      <3>1. tree' = tree \ {d} /\ cache' = Flush({d, Parent[d]}) /\ moved' = moved /\ d # Home
        BY <2>5 DEF Rmdir, RmdirMarks
      <3> DEFINE t == tree \ {d}
                 m == {d, Parent[d]}
      <3>2. \A e \in Dirs \ m : cache[e].dirs \subseteq Below(e) \cap (t \cup moved)
        BY <1>0 DEF Truly, Below
      <3>3. Truly(Flush(m), t, moved) /\ Sized(Flush(m), remote)
        <4>1. But(m, t, moved)
          BY <1>0, <3>1, <3>2 DEF Truly, But
        <4> HIDE DEF t, m
        <4> QED
          BY <1>0, <2>0, <4>1, FlushTrue
      <3> QED
        BY <3>1, <3>3
    <2>6. CASE \E e \in Dirs : Rename(d, e)
      <3>0. PICK e \in Dirs : Rename(d, e)
        BY <2>6
      <3>1. /\ tree' = (tree \ {d}) \cup {e} /\ cache' = Flush({Parent[d], Parent[e]})
            /\ moved' = (moved \cup {d}) \ {e} /\ d # Home
        BY <3>0 DEF Rename
      <3> DEFINE t == (tree \ {d}) \cup {e}
                 n == (moved \cup {d}) \ {e}
                 m == {Parent[d], Parent[e]}
      <3>2. tree \cup moved \subseteq t \cup n /\ Home \in t
        BY <1>0, <3>1
      <3>3. Truly(Flush(m), t, n) /\ Sized(Flush(m), remote)
        <4> HIDE DEF t, n, m
        <4>1. But(m, t, n)
          BY <1>0, <3>2 DEF Truly, But
        <4> QED
          BY <1>0, <2>0, <4>1, FlushTrue
      <3> QED
        BY <3>1, <3>3
    <2> QED
      BY <2>1, <2>2, <2>3, <2>4, <2>5, <2>6
  <1>7. CASE Gets
    <2>1. UNCHANGED <<tree, moved, cache, remote>> /\ pc = "prompt"
      BY <1>7, GetForms DEF Gets
    <2> QED
      BY <1>0, <2>1, CacheFormsNext
  <1>8. CASE Puts
    <2>1. PICK f \in Files, how \in {"normal", "resume", "append", "unique"} : Put(f, how)
      BY <1>8 DEF Puts
    <2>2. UNCHANGED <<tree, moved, remote>> /\ Sized(cache, remote)
          /\ cache' = IF how = "resume" THEN Known ELSE cache
      BY <1>0, <2>1 DEF Put, Usable, Away
    <2>3. Truly(Known, tree, moved) /\ Sized(Known, remote)
      <3> DEFINE c == [cache EXCEPT ![Home] = ListingOf(Home)]
      <3>1. Truly(c, tree, moved) /\ Sized(c, remote)
        BY <1>0, ListTrue, SshAssumption
      <3> QED
        BY <1>0, <2>2, <3>1 DEF Known
    <2> QED
      BY <1>0, <2>2, <2>3, CacheFormsNext
  <1>9. CASE \E f \in Files : Unlink(f)
    <2>1. PICK f \in Files : Unlink(f)
      BY <1>9
    <2>2. cache' = Flush({Home}) /\ UNCHANGED <<tree, moved>>
      BY <2>1 DEF Unlink
    <2> DEFINE m == {Home}
    <2>3. But(m, tree, moved) /\ Home \in m
      BY <1>0 DEF Truly, But
    <2>4. cache' = Flush(m)
      BY <2>2
    <2> HIDE DEF m
    <2>5. Truly(Flush(m), tree, moved) /\ Sized(Flush(m), remote')
      BY <1>0, <2>3, FlushTrue
    <2> QED
      BY <2>2, <2>4, <2>5, CacheFormsNext
  <1> QED
    BY <1>1, <1>2, <1>3, <1>4, <1>5, <1>6, <1>7, <1>8, <1>9, NextForms

LEMMA EnterStep ==
  ASSUME TypeInv, CacheInv, [Next]_vars, curdir' # curdir
  PROVE  curdir' \in tree \cup moved
  <1>1. CASE Close
    BY <1>1 DEF Close, CacheInv
  <1>2. CASE Moves
    <2>1. PICK d \in Dirs : ChDir(d)
      BY <1>2 DEF Moves, List, Mkdir, Rmdir, Rename
    <2>2. curdir' = d /\ (TakenForDir(d) \/ d \in tree)
      BY <2>1 DEF ChDir
    <2>3. TakenForDir(d) => d \in tree \cup moved
      <3>1. d # Home => Parent[d] \in Dirs
        BY SshAssumption
      <3> QED
        BY <3>1 DEF TakenForDir, CacheInv
    <2> QED
      BY <2>2, <2>3
  <1>3. CASE ~Close /\ ~Moves
    <2>1. UNCHANGED vars => curdir' = curdir
      BY DEF vars, client
    <2>2. Dials \/ Runs \/ EndCmd \/ Gets \/ Puts \/ \E f \in Files : Unlink(f)
      BY <1>3, <2>1, NextForms
    <2>3. Runs => curdir' = curdir
      BY TransferForms DEF Runs
    <2>4. Gets => curdir' = curdir
      BY GetForms DEF Gets
    <2>5. Dials \/ EndCmd \/ Puts \/ (\E f \in Files : Unlink(f)) => curdir' = curdir
      BY DEF Dials, EndCmd, Puts, Put, Away, Unlink
    <2> QED
      BY <2>2, <2>3, <2>4, <2>5
  <1> QED
    BY <1>1, <1>2, <1>3

-----------------------------------------------------------------------------
(* Copying a file piece by piece.                                          *)

\* t is b, and behind it what s has from k to n.
Copied(t, b, k, s, n) ==
  /\ n >= k /\ (n = k \/ n <= Len(s))
  /\ Len(t) = Len(b) + (n - k)
  /\ \A i \in 1 .. Len(b) : t[i] = b[i]
  /\ \A i \in 1 .. (n - k) : t[Len(b) + i] = s[k + i]

LEMMA CopyStart ==
  ASSUME NEW b \in Seq(Nat), NEW k \in Nat, NEW s \in Seq(Nat)
  PROVE  Copied(b, b, k, s, k)
  <1>1. Len(b) \in Nat /\ Len(s) \in Nat
    BY LenProperties
  <1> QED
    BY <1>1 DEF Copied

LEMMA CopyMore ==
  ASSUME NEW t \in Seq(Nat), NEW b \in Seq(Nat), NEW k \in Nat, NEW s \in Seq(Nat), NEW n \in Nat,
         Copied(t, b, k, s, n), n < Len(s),
         NEW u \in Seq(Nat), Len(u) = Len(t) + 1,
         \A i \in 1 .. Len(t) : u[i] = t[i],
         u[Len(t) + 1] = s[n + 1]
  PROVE  Copied(u, b, k, s, n + 1)
  <1>1. Len(b) \in Nat /\ Len(s) \in Nat /\ Len(t) \in Nat
    BY LenProperties
  <1>0. Len(t) = Len(b) + (n - k) /\ n >= k
    BY DEF Copied
  <1>2. Len(u) = Len(b) + (n + 1 - k) /\ n + 1 >= k /\ n + 1 <= Len(s) /\ n - k \in Nat
    BY <1>0, <1>1
  <1>3. \A i \in 1 .. Len(b) : u[i] = b[i]
    BY <1>1, <1>2 DEF Copied
  <1>4. ASSUME NEW i \in 1 .. (n + 1 - k)
        PROVE  u[Len(b) + i] = s[k + i]
    <2>0. /\ i <= n - k => i \in 1 .. (n - k) /\ Len(b) + i \in 1 .. Len(t)
          /\ i > n - k => i = n + 1 - k /\ Len(b) + i = Len(t) + 1 /\ k + i = n + 1
      <3> DEFINE lb == Len(b)
                 lt == Len(t)
      <3>1. lb \in Nat /\ lt \in Nat /\ lt = lb + (n - k) /\ n >= k
        BY <1>0, <1>1
      <3> HIDE DEF lb, lt
      <3>2. i \in Int /\ 1 <= i /\ i <= n + 1 - k
        OBVIOUS
      <3>3. /\ i <= n - k => i \in 1 .. (n - k) /\ lb + i \in 1 .. lt
            /\ i > n - k => i = n + 1 - k /\ lb + i = lt + 1 /\ k + i = n + 1
        BY <3>1, <3>2
      <3> QED
        BY <3>3 DEF lb, lt
    <2>1. CASE i <= n - k
      <3>1. i \in 1 .. (n - k) /\ Len(b) + i \in 1 .. Len(t)
        BY <2>0, <2>1
      <3> QED
        BY <3>1 DEF Copied
    <2>2. CASE i > n - k
      <3>1. i = n + 1 - k /\ Len(b) + i = Len(t) + 1 /\ k + i = n + 1
        BY <2>0, <2>2
      <3> QED
        BY <3>1
    <2> QED
      BY <1>2, <2>1, <2>2
  <1> QED
    BY <1>2, <1>3, <1>4 DEF Copied

\* All of s behind b.
LEMMA CopyEnd ==
  ASSUME NEW t \in Seq(Nat), NEW b \in Seq(Nat), NEW s \in Seq(Nat), NEW n \in Nat,
         Copied(t, b, 0, s, n), n >= Len(s)
  PROVE  t = b \o s
  <1>1. Len(b) \in Nat /\ Len(s) \in Nat /\ Len(t) \in Nat
    BY LenProperties
  <1>2. n = Len(s) /\ n - 0 = n /\ \A i \in Nat : 0 + i = i
    BY <1>1 DEF Copied
  <1>3. /\ Len(t) = Len(b) + Len(s)
        /\ \A i \in 1 .. Len(b) : t[i] = b[i]
        /\ \A i \in 1 .. Len(s) : t[Len(b) + i] = s[i]
    BY <1>1, <1>2 DEF Copied
  <1> DEFINE u == b \o s
  <1>4. /\ u \in Seq(Nat) /\ Len(u) = Len(b) + Len(s)
        /\ \A i \in 1 .. Len(b) + Len(s) : u[i] = IF i <= Len(b) THEN b[i] ELSE s[i - Len(b)]
    BY ConcatProperties
  <1> HIDE DEF u
  <1>5. ASSUME NEW i \in 1 .. Len(t)
        PROVE  t[i] = u[i]
    <2>1. CASE i <= Len(b)
      <3>1. i \in 1 .. Len(b) /\ i \in 1 .. Len(b) + Len(s)
        BY <1>1, <2>1
      <3>2. t[i] = b[i] /\ u[i] = b[i]
        BY <1>3, <1>4, <2>1, <3>1
      <3> QED
        BY <3>2
    <2>2. CASE i > Len(b)
      <3>1. i - Len(b) \in 1 .. Len(s) /\ Len(b) + (i - Len(b)) = i
        BY <1>1, <1>3, <2>2
      <3>2. t[i] = s[i - Len(b)]
        BY <1>3, <3>1
      <3> QED
        BY <1>1, <1>3, <1>4, <2>2, <3>2
    <2> QED
      BY <1>1, <2>1, <2>2
  <1>6. t = u
    BY <1>3, <1>4, <1>5, SeqEqual
  <1> QED
    BY <1>6 DEF u

\* The rest of s behind its beginning.
LEMMA ResumeEnd ==
  ASSUME NEW t \in Seq(Nat), NEW b \in Seq(Nat), NEW s \in Seq(Nat), NEW n \in Nat,
         Copied(t, b, Len(b), s, n), n >= Len(s), IsPrefix(b, s)
  PROVE  t = s
  <1>1. Len(b) \in Nat /\ Len(s) \in Nat /\ Len(t) \in Nat
    BY LenProperties
  <1>2. Len(b) <= Len(s) /\ \A i \in 1 .. Len(b) : b[i] = s[i]
    <2>1. Len(b) <= Len(s) /\ SubSeq(b, 1, Len(b)) = SubSeq(s, 1, Len(b))
      BY DEF IsPrefix
    <2>2. \A i \in 1 .. Len(b) : b[i] \in Nat /\ s[i] \in Nat
      BY <1>1, <2>1, ElementOfSeq
    <2> DEFINE l == Len(b)
    <2> HIDE DEF l
    <2>3. l \in Nat /\ \A i \in 1 .. l : b[i] \in Nat /\ s[i] \in Nat
      BY <1>1, <2>2 DEF l
    <2>4. \A i \in 1 .. l - 1 + 1 : SubSeq(b, 1, l)[i] = b[1 + i - 1]
      BY <2>3, SubSeqProperties
    <2>5. \A i \in 1 .. l - 1 + 1 : SubSeq(s, 1, l)[i] = s[1 + i - 1]
      BY <2>3, SubSeqProperties
    <2>6. SubSeq(b, 1, l) = SubSeq(s, 1, l)
      BY <2>1 DEF l
    <2>7. \A i \in 1 .. l : i \in 1 .. l - 1 + 1 /\ 1 + i - 1 = i
      BY <2>3
    <2>8. \A i \in 1 .. l : b[i] = s[i]
      BY <2>4, <2>5, <2>6, <2>7
    <2> QED
      BY <2>1, <2>8 DEF l
  <1>3. n = Len(s) /\ Len(t) = Len(s)
    BY <1>1, <1>2 DEF Copied
  <1>4. ASSUME NEW i \in 1 .. Len(t)
        PROVE  t[i] = s[i]
    <2>1. CASE i <= Len(b)
      BY <1>1, <1>2, <2>1 DEF Copied
    <2>2. CASE i > Len(b)
      <3> DEFINE j == i - Len(b)
      <3>1. j \in 1 .. (n - Len(b)) /\ Len(b) + j = i
        BY <1>1, <1>3, <2>2
      <3> HIDE DEF j
      <3> QED
        BY <3>1 DEF Copied
    <2> QED
      BY <1>1, <2>1, <2>2
  <1> QED
    BY <1>3, <1>4, SeqEqual

-----------------------------------------------------------------------------
(* What a transfer has copied.                                             *)

Kept(o) == IF o.how \in {"resume", "append"} THEN o.before.data ELSE <<>>
First(o) == IF o.how = "resume" THEN Len(o.before.data) ELSE 0
Carried(t, o, s, n) == Copied(t, Kept(o), First(o), s, n)

GetInv ==
  /\ pc = "scp get" => op.at = 0
  /\ pc \in Receiving /\ op.clean => Carried(loc[op.f].data, op, remote[op.f].data, op.at)
  /\ pc \in {"scp get", "sftp get"} /\ op.clean => op.at = First(op)

\* A session that is lost does not come back within a put.
PutInv ==
  /\ pc \in Opening => /\ remote[op.f] = op.before
                       /\ Up => op.from = First(op) /\ op.at = Len(Kept(op))
  /\ pc = "write" => /\ Carried(remote[op.f].data, op, loc[op.f].data, op.from)
                     /\ op.at = Len(remote[op.f].data)

LEMMA KeptForms ==
  ASSUME NEW o \in OpSet
  PROVE  Kept(o) \in Seq(Nat) /\ First(o) \in Nat /\ Len(Kept(o)) \in Nat
  <1>1. o.before \in FileSet /\ <<>> \in Seq(Nat)
    BY DEF OpSet
  <1>2. Kept(o) \in Seq(Nat) /\ First(o) \in Nat
    BY <1>1, FileForms DEF Kept, First
  <1> QED
    BY <1>2, LenProperties

LEMMA CarriedEnd ==
  ASSUME NEW o \in OpSet, NEW t \in Seq(Nat), NEW s \in Seq(Nat), NEW n \in Nat,
         Carried(t, o, s, n), n >= Len(s), o.how # "unique",
         o.how = "resume" => IsPrefix(o.before.data, s)
  PROVE  t = Expected(s, o.how, o.before)
  <1> DEFINE b == o.before.data
  <1>1. b \in Seq(Nat) /\ o.how \in {"normal", "resume", "append", "unique"}
    <2>1. o.before \in FileSet /\ o.how \in {"normal", "resume", "append", "unique"}
      BY DEF OpSet
    <2> QED
      BY <2>1, FileForms
  <1>2. CASE o.how = "resume"
    <2>1. Copied(t, b, Len(b), s, n) /\ IsPrefix(b, s)
      BY <1>2 DEF Carried, Kept, First
    <2> HIDE DEF b
    <2>2. t = s
      BY <1>1, <2>1, ResumeEnd
    <2> QED
      BY <1>2, <2>2 DEF Expected
  <1>3. CASE o.how = "append"
    <2>1. Copied(t, b, 0, s, n)
      BY <1>3 DEF Carried, Kept, First
    <2>2. t = b \o s
      <3> HIDE DEF b
      <3> QED
        BY <1>1, <2>1, CopyEnd
    <2> QED
      BY <1>3, <2>2 DEF Expected
  <1>4. CASE o.how = "normal"
    <2> DEFINE e == <<>>
    <2>1. Copied(t, e, 0, s, n) /\ e \in Seq(Nat)
      BY <1>4 DEF Carried, Kept, First
    <2> HIDE DEF e
    <2>2. t = e \o s
      BY <2>1, CopyEnd
    <2>3. t = s
      BY <2>2, ConcatEmptySeq DEF e
    <2> QED
      BY <1>4, <2>3 DEF Expected
  <1> QED
    BY <1>1, <1>2, <1>3, <1>4

LEMMA OpKept ==
  ASSUME NEW o, NEW p, p.how = o.how, p.before = o.before
  PROVE  Kept(p) = Kept(o) /\ First(p) = First(o)
  BY DEF Kept, First

\* A read and a write, on what has been copied.
LEMMA CarryMore ==
  ASSUME NEW o \in OpSet, NEW t \in Seq(Nat), NEW s \in Seq(Nat), NEW n \in Nat,
         Carried(t, o, s, n), n < Len(s),
         NEW p \in OpSet, p.how = o.how, p.before = o.before,
         NEW u \in Seq(Nat), Len(u) = Len(t) + 1,
         \A i \in 1 .. Len(t) : u[i] = t[i],
         u[Len(t) + 1] = s[n + 1]
  PROVE  Carried(u, p, s, n + 1)
  <1> DEFINE b == Kept(o)
             k == First(o)
  <1>1. b \in Seq(Nat) /\ k \in Nat /\ Kept(p) = b /\ First(p) = k
    BY KeptForms, OpKept
  <1>2. Copied(t, b, k, s, n)
    BY DEF Carried
  <1> HIDE DEF b, k
  <1>3. Copied(u, b, k, s, n + 1)
    BY <1>1, <1>2, CopyMore
  <1> QED
    BY <1>1, <1>3 DEF Carried

\* The file that is there when a get has opened it.
LEMMA GetStart ==
  ASSUME TypeInv, NEW f \in Files, NEW how \in {"normal", "resume", "append"}, Get(f, how),
         pc' # "done", GetOp(f, how).clean
  PROVE  /\ GetOp(f, how).at = First(GetOp(f, how))
         /\ loc'[f].data = Kept(GetOp(f, how))
  <1> DEFINE o == GetOp(f, how)
  <1>1. /\ o.at = OffsetOf(f, how) /\ o.how = how /\ o.before = loc[f] /\ restart = 0
        /\ loc[f] \in FileSet
    <2>1. loc[f] \in FileSet
      BY DEF TypeInv, TypeOK
    <2> QED
      BY <2>1, NoOpForms DEF GetOp, OpSet
  <1>2. loc[f].data \in Seq(Nat) /\ (~loc[f].there => loc[f].data = <<>>) /\ Len(loc[f].data) \in Nat
    BY <1>1, FileForms
  <1>3. OffsetOf(f, how) = First(o)
    <2>1. CASE how = "resume"
      <3>1. Len(<<>>) = 0
        OBVIOUS
      <3> QED
        BY <1>1, <1>2, <2>1, <3>1 DEF OffsetOf, First
    <2>2. CASE how # "resume"
      BY <1>1, <2>2 DEF OffsetOf, First
    <2> QED
      BY <2>1, <2>2
  <1>4. loc'[f] = OpenedFor(f, how)
    <2>1. loc' = [loc EXCEPT ![f] = OpenedFor(f, how)]
      BY GetForms, Zenon
    <2> QED
      BY <2>1 DEF TypeInv, TypeOK
  <1>5. OpenedFor(f, how).data = Kept(o)
    <2>1. File(loc[f].data).data = loc[f].data /\ File(<<>>).data = <<>>
      <3>1. <<>> \in Seq(Nat)
        OBVIOUS
      <3> QED
        BY <1>2, <3>1, FileForms, Zenon
    <2>2. CASE how = "append"
      BY <1>1, <2>1, <2>2 DEF OpenedFor, Kept
    <2>3. CASE how = "normal"
      BY <1>1, <1>3, <2>1, <2>3 DEF OpenedFor, Kept, First
    <2>4. CASE how = "resume"
      <3>1. OffsetOf(f, how) = Len(loc[f].data)
        BY <1>1, <1>3, <2>4 DEF First
      <3>2. OffsetOf(f, how) > 0 \/ loc[f].data = <<>>
        BY <1>2, <3>1, EmptySeq
      <3> QED
        BY <1>1, <2>1, <2>4, <3>2 DEF OpenedFor, Kept
    <2> QED
      BY <2>2, <2>3, <2>4
  <1> QED
    BY <1>1, <1>3, <1>4, <1>5

LEMMA GetStep == TypeInv /\ TypeInv' /\ GetInv /\ [Next]_vars => GetInv'
  <1> SUFFICES ASSUME TypeInv, TypeInv', GetInv, [Next]_vars
               PROVE  GetInv'
    OBVIOUS
  <1>1. CASE UNCHANGED <<pc, op, remote, loc>>
    BY <1>1 DEF GetInv, Receiving
  <1>2. CASE pc' \notin Receiving
    BY <1>2 DEF GetInv, Receiving
  <1>3. CASE Runs /\ pc' \in Receiving
    <2>0. /\ op \in OpSet /\ op' \in OpSet /\ op.f \in Files /\ op.at \in Nat
          /\ remote[op.f].data \in Seq(Nat) /\ loc[op.f].data \in Seq(Nat) /\ loc'[op.f].data \in Seq(Nat)
      <3>1. op \in OpSet /\ op' \in OpSet /\ op.f \in Files /\ op'.f = op.f
        BY <1>3, TransferForms DEF Runs, TypeInv, TypeOK, Busy
      <3>2. remote[op.f] \in FileSet /\ loc[op.f] \in FileSet /\ loc'[op.f] \in FileSet
        BY <3>1 DEF TypeInv, TypeOK
      <3> QED
        BY <3>1, <3>2, FileForms DEF OpSet
    <2>1. pc \in Receiving /\ op'.f = op.f /\ op'.how = op.how /\ op'.before = op.before /\ op'.clean = op.clean
      <3>1. /\ op'.f = op.f /\ op'.how = op.how /\ op'.before = op.before /\ op'.clean = op.clean
            /\ pc' = "done" \/ (pc \in Receiving /\ pc' \in Receiving) \/ (pc \in Sending /\ pc' \in Sending)
        BY <1>3, TransferForms, Zenon DEF Runs
      <3> QED
        BY <1>3, <3>1 DEF Receiving, Sending, Opening
    <2>2. CASE StartGet
      <3>1. op' = op /\ remote' = remote /\ loc' = loc /\ (pc' = "scp get" => pc = "scp get")
        <4>1. ScpGetResult(-2) => pc' = "sftp get" /\ op' = [op EXCEPT !.at = 0]
          <5>1. (-2 = -2) = TRUE
            OBVIOUS
          <5> QED
            BY <5>1, Zenon DEF ScpGetResult, FromStart
        <4>2. op.at = 0 => [op EXCEPT !.at = 0] = op
          BY <2>0 DEF OpSet
        <4> QED
          BY <1>3, <2>2, <4>1, <4>2 DEF StartGet, GetInv, Done, Receiving
      <3>2. pc' \in {"scp get", "sftp get"} => pc \in {"scp get", "sftp get"}
        BY <2>2 DEF StartGet
      <3> QED
        BY <2>1, <3>1, <3>2 DEF GetInv
    <2>3. CASE Read
      <3>1. pc' = pc /\ op' = [op EXCEPT !.at = @ + 1] /\ remote' = remote
        <4>1. (-1 = -2) = FALSE
          OBVIOUS
        <4>2. ~ScpGetResult(-1) /\ ~Done(FALSE)
          BY <1>3, <4>1 DEF ScpGetResult, Done, Receiving
        <4> QED
          BY <2>3, <4>2 DEF Read
      <3>2. pc \in {"scp read", "sftp read"} /\ op.at < Len(remote[op.f].data)
        BY <2>3 DEF Read
      <3>3. loc' = [loc EXCEPT ![op.f].data = Append(@, remote[op.f].data[op.at + 1])]
            /\ remote[op.f].data[op.at + 1] \in Nat
        <4>1. ~ScpGetResult(-1) /\ ~Done(FALSE)
          <5>1. (-1 = -2) = FALSE
            OBVIOUS
          <5> QED
            BY <1>3, <5>1 DEF ScpGetResult, Done, Receiving
        <4>2. loc' = [loc EXCEPT ![op.f].data = Append(@, remote[op.f].data[op.at + 1])]
          BY <2>3, <4>1 DEF Read
        <4>3. op.at + 1 \in 1 .. Len(remote[op.f].data)
          <5> DEFINE l == Len(remote[op.f].data)
          <5>1. l \in Nat /\ op.at < l
            BY <2>0, <3>2, LenProperties
          <5> HIDE DEF l
          <5>2. op.at + 1 \in 1 .. l
            BY <2>0, <5>1
          <5> QED
            BY <5>2 DEF l
        <4> QED
          BY <2>0, <4>2, <4>3, ElementOfSeq
      <3> DEFINE t == loc[op.f].data
                 s == remote[op.f].data
                 u == loc'[op.f].data
      <3>4. u = Append(t, s[op.at + 1])
        BY <2>0, <3>3 DEF TypeInv, TypeOK, FileSet
      <3>5. op'.at = op.at + 1
        BY <2>0, <3>1 DEF OpSet
      <3>6. op.clean => Carried(t, op, s, op.at)
        BY <2>1 DEF GetInv
      <3> HIDE DEF t, s, u
      <3>7. /\ Len(u) = Len(t) + 1 /\ (\A i \in 1 .. Len(t) : u[i] = t[i]) /\ u[Len(t) + 1] = s[op.at + 1]
            /\ t \in Seq(Nat) /\ s \in Seq(Nat) /\ u \in Seq(Nat)
        <4>1. t \in Seq(Nat) /\ s \in Seq(Nat) /\ u \in Seq(Nat) /\ s[op.at + 1] \in Nat
          BY <2>0, <3>3 DEF t, s, u
        <4> QED
          BY <3>4, <4>1, PieceForms
      <3>8. op.clean => Carried(u, op', s, op.at + 1)
        BY <2>0, <2>1, <3>2, <3>6, <3>7, CarryMore DEF s
      <3>9. op'.clean => Carried(loc'[op'.f].data, op', remote'[op'.f].data, op'.at)
        BY <2>1, <3>1, <3>5, <3>8 DEF u, s
      <3> QED
        BY <3>1, <3>2, <3>9 DEF GetInv
    <2>4. CASE ~StartGet /\ ~Read
      BY <1>3, <2>4, <2>1 DEF Runs, ReadEnd, StartPut, Write, WriteEnd, Done, Receiving
    <2> QED
      BY <2>2, <2>3, <2>4
  <1>4. CASE Gets
    <2>1. PICK f \in Files, how \in {"normal", "resume", "append"} : Get(f, how)
      BY <1>4 DEF Gets
    <2> DEFINE o == GetOp(f, how)
    <2>2. op' = o /\ remote' = remote /\ o.f = f /\ (pc' = "scp get" => o.at = 0) /\ o \in OpSet
      <3>1. op' = GetOp(f, how) /\ remote' = remote /\ (pc' = "scp get" => OffsetOf(f, how) = 0)
        BY <2>1, GetForms
      <3>2. o.f = f /\ o.at = OffsetOf(f, how)
        BY NoOpForms DEF GetOp, OpSet
      <3>3. op' \in OpSet
        BY DEF TypeInv, TypeOK
      <3> QED
        BY <3>1, <3>2, <3>3
    <2>3. CASE pc' # "done" /\ o.clean
      <3>1. o.at = First(o) /\ loc'[f].data = Kept(o)
        BY <2>1, <2>3, GetStart
      <3>2. remote[f].data \in Seq(Nat)
        BY FileForms DEF TypeInv, TypeOK
      <3>3. Carried(loc'[f].data, o, remote[f].data, o.at)
        BY <2>2, <3>1, <3>2, CopyStart, KeptForms DEF Carried
      <3> HIDE DEF o
      <3> QED
        BY <2>2, <3>1, <3>3 DEF GetInv
    <2>4. CASE pc' = "done" \/ ~o.clean
      <3> HIDE DEF o
      <3> QED
        BY <2>2, <2>4 DEF GetInv, Receiving
    <2> QED
      BY <2>3, <2>4
  <1>5. CASE ~Gets /\ ~Runs
    <2>1. Puts => pc' \in {"done", "scp put", "sftp put"}
      BY DEF Puts, Put
    <2>2. Close \/ EndCmd => pc' = "prompt"
      BY DEF Close, EndCmd
    <2>3. Moves \/ (\E f \in Files : Unlink(f)) => pc' = "prompt"
      BY DEF Moves, ChDir, List, Mkdir, Rmdir, Rename, Alone, Unlink, Usable
    <2>4. Dials \/ UNCHANGED vars => UNCHANGED <<pc, op, remote, loc>>
      BY DEF Dials, vars, client
    <2> QED
      BY <1>1, <1>2, <1>5, <2>1, <2>2, <2>3, <2>4, NextForms DEF Receiving
  <1> QED
    BY <1>2, <1>3, <1>4, <1>5

\* The locals of a put.
FromOf(f, how) == IF how = "resume" THEN ResumeAt(f) ELSE 0
AtOf(f, how) == IF how = "append" THEN ServerSize(f) ELSE FromOf(f, how)
PutOp(f, how) ==
  [NoOp EXCEPT !.name = "put", !.f = f, !.how = how, !.at = AtOf(f, how), !.from = FromOf(f, how),
               !.before = remote[f]]

LEMMA PutForms ==
  ASSUME NEW f \in Files, NEW how \in {"normal", "resume", "append", "unique"}, Put(f, how)
  PROVE  /\ op' = PutOp(f, how) /\ pc = "prompt"
         /\ UNCHANGED <<session, remote, loc>>
         /\ how = "unique" => pc' = "done"
         /\ pc' \in {"done", "scp put", "sftp put"}
  <1>1. Usable /\ Away /\ UNCHANGED <<remote, loc>>
    BY Zenon DEF Put
  <1>2. /\ op' = PutOp(f, how)
        /\ pc' = IF how = "unique" THEN "done" ELSE IF TryScp /\ AtOf(f, how) = 0 THEN "scp put" ELSE "sftp put"
    BY Zenon DEF Put, PutOp, FromOf, AtOf
  <1> QED
    BY <1>1, <1>2 DEF Usable, Away

\* The server is asked, or the cache knows, how much it has.
LEMMA PutStart ==
  ASSUME TypeInv, CacheInv, NEW f \in Files, NEW how \in {"normal", "resume", "append"}, Put(f, how), Up
  PROVE  FromOf(f, how) = First(PutOp(f, how)) /\ AtOf(f, how) = Len(Kept(PutOp(f, how)))
  <1> DEFINE o == PutOp(f, how)
             l == Len(remote[f].data)
             n == Known[Home].size[f]
  <1>1. /\ remote[f] \in FileSet /\ l \in Nat /\ (~remote[f].there => l = 0)
        /\ Size(remote[f]) = IF remote[f].there THEN l ELSE -1
    <2>1. remote[f] \in FileSet
      BY DEF TypeInv, TypeOK
    <2>2. Len(<<>>) = 0
      OBVIOUS
    <2> QED
      BY <2>1, <2>2, FileForms DEF Size
  <1>2. o.how = how /\ o.before = remote[f]
    BY NoOpForms DEF PutOp, OpSet
  <1>3. ServerSize(f) = l
    BY <1>1 DEF ServerSize
  <1>4. n = Size(remote[f])
    <2>1. Sized(cache, remote)
      BY CacheForms, PutForms
    <2>2. CASE cache[Home].known
      BY <2>1, <2>2 DEF Known, Sized
    <2>3. CASE ~cache[Home].known
      <3>1. Known[Home] = ListingOf(Home)
        BY <2>3, SshAssumption DEF Known, TypeInv, TypeOK
      <3> QED
        BY <3>1 DEF ListingOf
    <2> QED
      BY <2>2, <2>3
  <1>5. ResumeAt(f) = l
    <2>1. ResumeAt(f) = IF n # -1 THEN n ELSE l
      BY <1>3 DEF ResumeAt
    <2> HIDE DEF n, l
    <2> QED
      BY <1>1, <1>4, <2>1
  <1>6. Len(<<>>) = 0
    OBVIOUS
  <1> HIDE DEF o
  <1>7. CASE how = "resume"
    BY <1>2, <1>5, <1>7 DEF FromOf, AtOf, First, Kept, o
  <1>8. CASE how = "append"
    BY <1>2, <1>3, <1>8 DEF FromOf, AtOf, First, Kept, o
  <1>9. CASE how = "normal"
    BY <1>2, <1>6, <1>9 DEF FromOf, AtOf, First, Kept, o
  <1> QED
    BY <1>7, <1>8, <1>9

\* sftp_open() and scp leave what is kept.
LEMMA TruncateKeeps ==
  ASSUME NEW o \in OpSet, o.at = Len(Kept(o)), o.before \in FileSet
  PROVE  (IF o.at = 0 THEN File(<<>>) ELSE File(o.before.data)).data = Kept(o)
  <1>1. Kept(o) \in Seq(Nat)
    BY KeptForms
  <1>2. o.at = 0 => Kept(o) = <<>>
    BY <1>1, EmptySeq
  <1>3. o.at # 0 => Kept(o) = o.before.data
    <2>1. Len(<<>>) = 0
      OBVIOUS
    <2> QED
      BY <2>1 DEF Kept
  <1>4. File(<<>>).data = <<>> /\ File(o.before.data).data = o.before.data
    BY DEF File
  <1> QED
    BY <1>2, <1>3, <1>4

LEMMA PutStep == TypeInv /\ TypeInv' /\ CacheInv /\ PutInv /\ [Next]_vars => PutInv'
  <1> SUFFICES ASSUME TypeInv, TypeInv', CacheInv, PutInv, [Next]_vars
               PROVE  PutInv'
    OBVIOUS
  <1>1. CASE pc' \notin Sending
    BY <1>1 DEF PutInv, Sending, Opening
  <1>2. CASE UNCHANGED vars \/ Dials
    <2>1. UNCHANGED <<pc, op, remote, loc>> /\ (pc # "prompt" /\ Up' => Up)
      BY <1>2 DEF Dials, vars, client, Up, TypeInv, Busy
    <2> QED
      BY <2>1 DEF PutInv, Opening
  <1>3. CASE Puts
    <2>1. PICK f \in Files, how \in {"normal", "resume", "append", "unique"} : Put(f, how)
      BY <1>3 DEF Puts
    <2>2. /\ op' = PutOp(f, how) /\ UNCHANGED <<session, remote, loc>>
          /\ pc' \in {"done", "scp put", "sftp put"} /\ (how = "unique" => pc' = "done")
      BY <2>1, PutForms
    <2>3. /\ PutOp(f, how).f = f /\ PutOp(f, how).before = remote[f]
          /\ PutOp(f, how).at = AtOf(f, how) /\ PutOp(f, how).from = FromOf(f, how)
      BY NoOpForms DEF PutOp, OpSet
    <2>4. how # "unique" /\ Up =>
            FromOf(f, how) = First(PutOp(f, how)) /\ AtOf(f, how) = Len(Kept(PutOp(f, how)))
      BY <2>1, PutStart
    <2> QED
      BY <2>2, <2>3, <2>4 DEF PutInv, Opening, Up
  <1>4. CASE Runs /\ pc' \in Sending
    <2>0. /\ op \in OpSet /\ op' \in OpSet /\ op.f \in Files /\ op.at \in Nat /\ op.from \in Nat
          /\ op.before \in FileSet
          /\ remote[op.f].data \in Seq(Nat) /\ loc[op.f].data \in Seq(Nat) /\ remote'[op.f].data \in Seq(Nat)
      <3>1. op \in OpSet /\ op' \in OpSet /\ op.f \in Files /\ op'.f = op.f
        BY <1>4, TransferForms DEF Runs, TypeInv, TypeOK, Busy
      <3>2. remote[op.f] \in FileSet /\ loc[op.f] \in FileSet /\ remote'[op.f] \in FileSet
        BY <3>1 DEF TypeInv, TypeOK
      <3> QED
        BY <3>1, <3>2, FileForms DEF OpSet
    <2>1. /\ pc \in Sending /\ op'.f = op.f /\ op'.how = op.how /\ op'.before = op.before
          /\ session' = session
      <3>1. /\ op'.f = op.f /\ op'.how = op.how /\ op'.before = op.before /\ session' = session
            /\ pc' = "done" \/ (pc \in Receiving /\ pc' \in Receiving) \/ (pc \in Sending /\ pc' \in Sending)
        BY <1>4, TransferForms, Zenon DEF Runs
      <3> QED
        BY <1>4, <3>1 DEF Receiving, Sending, Opening
    <2>2. CASE StartPut /\ pc' # "write"
      <3>1. op' = op /\ remote' = remote /\ pc' \in Opening /\ pc \in Opening
        BY <1>4, <2>2 DEF StartPut, Sending, Opening, Done
      <3> QED
        BY <2>1, <3>1 DEF PutInv, Opening, Up
    <2>3. CASE StartPut /\ pc' = "write"
      <3>1. /\ op' = op /\ loc' = loc /\ pc \in Opening /\ Up
            /\ remote' = [remote EXCEPT ![op.f] = IF op.at = 0 THEN File(<<>>) ELSE File(@.data)]
        BY <2>3 DEF StartPut, Opening, Done, Away
      <3>2. remote[op.f] = op.before /\ op.from = First(op) /\ op.at = Len(Kept(op))
        BY <3>1 DEF PutInv
      <3>3. remote'[op.f] = IF op.at = 0 THEN File(<<>>) ELSE File(op.before.data)
        BY <2>0, <3>1, <3>2 DEF TypeInv, TypeOK
      <3>4. remote'[op.f].data = Kept(op)
        BY <2>0, <3>2, <3>3, TruncateKeeps
      <3>5. Carried(Kept(op), op, loc[op.f].data, First(op))
        BY <2>0, CopyStart, KeptForms DEF Carried
      <3> QED
        BY <2>3, <3>1, <3>2, <3>4, <3>5 DEF PutInv, Opening
    <2>4. CASE Write
      <3>1. /\ pc' = "write" /\ pc = "write" /\ op.from < Len(loc[op.f].data) /\ loc' = loc
            /\ op' = [op EXCEPT !.at = @ + 1, !.from = @ + 1]
            /\ remote' = [remote EXCEPT ![op.f].data = WriteAt(@, op.at, loc[op.f].data[op.from + 1])]
        BY <1>4, <2>4 DEF Write, Done, Sending, Opening, Away
      <3>2. loc[op.f].data[op.from + 1] \in Nat
        <4> DEFINE l == Len(loc[op.f].data)
        <4>1. l \in Nat /\ op.from < l
          BY <2>0, <3>1, LenProperties
        <4> HIDE DEF l
        <4>2. op.from + 1 \in 1 .. l
          BY <2>0, <4>1
        <4> QED
          BY <2>0, <4>2, ElementOfSeq DEF l
      <3> DEFINE t == remote[op.f].data
                 s == loc[op.f].data
                 u == remote'[op.f].data
      <3>4. u = WriteAt(t, op.at, s[op.from + 1])
        BY <2>0, <3>1 DEF TypeInv, TypeOK, FileSet
      <3>5. op'.at = op.at + 1 /\ op'.from = op.from + 1
        BY <2>0, <3>1 DEF OpSet
      <3>6. Carried(t, op, s, op.from) /\ op.at = Len(t)
        BY <3>1 DEF PutInv
      <3>7. t \in Seq(Nat) /\ s \in Seq(Nat) /\ u \in Seq(Nat) /\ s[op.from + 1] \in Nat
        BY <2>0, <3>2
      <3> HIDE DEF t, s, u
      <3>8. Len(u) = Len(t) + 1 /\ (\A i \in 1 .. Len(t) : u[i] = t[i]) /\ u[Len(t) + 1] = s[op.from + 1]
        <4> DEFINE p == s[op.from + 1]
                   n == op.at
        <4>1. u = WriteAt(t, n, p) /\ n \in Nat /\ p \in Nat /\ n = Len(t)
          BY <2>0, <3>4, <3>6, <3>7
        <4> HIDE DEF p, n
        <4>2. /\ Len(u) = n + 1 /\ u[n + 1] = p
              /\ \A i \in 1 .. n : u[i] = t[i]
          <5>1. n = Len(t) => /\ Len(WriteAt(t, n, p)) = n + 1
                              /\ \A i \in 1 .. n : WriteAt(t, n, p)[i] = t[i]
                              /\ WriteAt(t, n, p)[n + 1] = p
            <6>1. t \in Seq(Nat) /\ n \in Nat /\ p \in Nat
              BY <3>7, <4>1
            <6> QED
              BY <6>1, WriteForms
          <5> QED
            BY <4>1, <5>1
        <4> QED
          BY <4>1, <4>2 DEF p
      <3>9. Carried(u, op', s, op.from + 1)
        BY <2>0, <2>1, <3>1, <3>6, <3>7, <3>8, CarryMore DEF s
      <3>10. Carried(remote'[op'.f].data, op', loc'[op'.f].data, op'.from) /\ op'.at = Len(remote'[op'.f].data)
        BY <2>1, <3>1, <3>5, <3>6, <3>8, <3>9 DEF u, s
      <3> QED
        BY <3>1, <3>10 DEF PutInv, Opening
    <2>5. CASE ~StartPut /\ ~Write
      BY <1>4, <2>1, <2>5 DEF Runs, StartGet, Read, ReadEnd, WriteEnd, Done, Sending, Opening
    <2> QED
      BY <2>2, <2>3, <2>4, <2>5
  <1>5. CASE Close \/ EndCmd \/ Moves \/ Gets \/ \E f \in Files : Unlink(f)
    <2>1. Gets => pc' \in {"done", "scp get", "sftp get"}
      BY GetForms DEF Gets
    <2>2. Close \/ EndCmd => pc' = "prompt"
      BY DEF Close, EndCmd
    <2>3. Moves \/ (\E f \in Files : Unlink(f)) => pc' = "prompt"
      BY DEF Moves, ChDir, List, Mkdir, Rmdir, Rename, Alone, Unlink, Usable
    <2> QED
      BY <1>1, <1>5, <2>1, <2>2, <2>3 DEF Sending, Opening
  <1> QED
    BY <1>1, <1>2, <1>3, <1>4, <1>5, NextForms

-----------------------------------------------------------------------------
(* A transfer that returns 0 has copied all there was.                     *)

Whole == GetWhole /\ PutWhole

\* What a transfer returns.
LEMMA Returned ==
  ASSUME TypeInv, Runs, pc' = "done", op'.ok
  PROVE  /\ UNCHANGED <<remote, loc>> /\ op' = [op EXCEPT !.ok = TRUE]
         /\ \/ pc \in {"scp read", "sftp read"} /\ op.at >= Len(remote[op.f].data)
            \/ pc = "write" /\ op.from >= Len(loc[op.f].data)
  <1>0. op \in OpSet
    BY DEF TypeInv, TypeOK
  <1>1. ~Done(FALSE)
    BY <1>0 DEF Done, OpSet
  <1>2. ~ScpGetResult(-1) /\ ~ScpGetResult(-2)
    <2>1. (-1 = -2) = FALSE /\ (-2 = -2) = TRUE /\ (-1 = 0) = FALSE
      OBVIOUS
    <2>2. ScpGetResult(-1) => Done(FALSE)
      BY <2>1, Zenon DEF ScpGetResult
    <2>3. ScpGetResult(-2) => pc' = "sftp get"
      BY <2>1, Zenon DEF ScpGetResult, FromStart
    <2> QED
      BY <1>1, <2>2, <2>3
  <1>3. ~StartGet /\ ~StartPut
    BY <1>1, <1>2 DEF StartGet, StartPut
  <1>4. ~Read /\ ~Write
    BY <1>1, <1>2 DEF Read, Write
  <1>5. ReadEnd \/ WriteEnd
    BY <1>3, <1>4 DEF Runs
  <1> QED
    BY <1>1, <1>5 DEF ReadEnd, WriteEnd, Done

LEMMA WholeStep ==
  TypeInv /\ TypeInv' /\ GetInv /\ PutInv /\ Whole /\ [Next]_vars => Whole'
  <1> SUFFICES ASSUME TypeInv, TypeInv', GetInv, PutInv, Whole, [Next]_vars, pc' = "done", op'.ok
               PROVE  Whole'
    BY DEF Whole, GetWhole, PutWhole
  <1>1. CASE UNCHANGED <<pc, op, remote, loc>>
    BY <1>1 DEF Whole, GetWhole, PutWhole
  <1>2. CASE Runs
    <2>1. /\ UNCHANGED <<remote, loc>> /\ op' = [op EXCEPT !.ok = TRUE]
          /\ \/ pc \in {"scp read", "sftp read"} /\ op.at >= Len(remote[op.f].data)
             \/ pc = "write" /\ op.from >= Len(loc[op.f].data)
      BY <1>2, Returned
    <2>2. /\ op \in OpSet /\ op.f \in Files /\ op.at \in Nat /\ op.from \in Nat
          /\ remote[op.f].data \in Seq(Nat) /\ loc[op.f].data \in Seq(Nat)
      <3>1. op \in OpSet /\ op.f \in Files
        BY <1>2, TransferForms DEF Runs, TypeInv, TypeOK, Busy
      <3> QED
        BY <3>1, FileForms DEF TypeInv, TypeOK, OpSet
    <2>3. /\ op'.f = op.f /\ op'.how = op.how /\ op'.before = op.before /\ op'.name = op.name
          /\ op'.clean = op.clean
      BY <2>1, <2>2 DEF OpSet
    <2> DEFINE R == remote[op.f].data
               L == loc[op.f].data
    <2>4. CASE pc \in {"scp read", "sftp read"} /\ op.at >= Len(R)
      <3>1. op.name = "get" /\ op.how # "unique"
        BY <2>4 DEF TypeInv, Busy, Receiving
      <3>2. op.clean /\ (op.how = "resume" => IsPrefix(op.before.data, R)) => L = Expected(R, op.how, op.before)
        <4>1. op.clean => Carried(L, op, R, op.at)
          BY <2>4 DEF GetInv, Receiving
        <4> HIDE DEF R, L
        <4>2. R \in Seq(Nat) /\ L \in Seq(Nat)
          BY <2>2 DEF R, L
        <4> QED
          BY <2>2, <2>4, <3>1, <4>1, <4>2, CarriedEnd
      <3> QED
        BY <2>1, <2>3, <3>1, <3>2 DEF Whole, GetWhole, PutWhole
    <2>5. CASE pc = "write" /\ op.from >= Len(L)
      <3>1. op.name = "put" /\ op.how # "unique"
        BY <2>5 DEF TypeInv, Busy, Sending, Opening
      <3>2. (op.how = "resume" => IsPrefix(op.before.data, L)) => R = Expected(L, op.how, op.before)
        <4>1. Carried(R, op, L, op.from)
          BY <2>5 DEF PutInv
        <4> HIDE DEF R, L
        <4>2. R \in Seq(Nat) /\ L \in Seq(Nat)
          BY <2>2 DEF R, L
        <4> QED
          BY <2>2, <2>5, <3>1, <4>1, <4>2, CarriedEnd
      <3> QED
        BY <2>1, <2>3, <3>1, <3>2 DEF Whole, GetWhole, PutWhole
    <2> QED
      BY <2>1, <2>4, <2>5
  <1>3. ~Gets /\ ~Puts
    <2>1. \A f \in Files, how \in {"normal", "resume", "append"} : ~GetOp(f, how).ok
      BY NoOpForms DEF GetOp, OpSet
    <2>2. \A f \in Files, how \in {"normal", "resume", "append", "unique"} : ~PutOp(f, how).ok
      BY NoOpForms DEF PutOp, OpSet
    <2>3. ~Gets
      BY <2>1, GetForms DEF Gets
    <2>4. ~Puts
      BY <2>2, PutForms DEF Puts
    <2> QED
      BY <2>3, <2>4
  <1>4. CASE ~Runs
    <2>1. Close \/ EndCmd => pc' = "prompt"
      BY DEF Close, EndCmd
    <2>2. Moves \/ (\E f \in Files : Unlink(f)) => pc' = "prompt"
      BY DEF Moves, ChDir, List, Mkdir, Rmdir, Rename, Alone, Unlink, Usable
    <2>3. Dials \/ UNCHANGED vars => UNCHANGED <<pc, op, remote, loc>>
      BY DEF Dials, vars, client
    <2> QED
      BY <1>1, <1>3, <1>4, <2>1, <2>2, <2>3, NextForms
  <1> QED
    BY <1>2, <1>4

SshInv == TypeInv /\ CacheInv /\ GetInv /\ PutInv /\ Whole

LEMMA Invariant == Spec => []SshInv
  <1>1. Init => SshInv
    <2> SUFFICES ASSUME Init
                 PROVE  SshInv
      OBVIOUS
    <2>1. pc = "prompt"
      BY DEF Init
    <2> QED
      BY <2>1, TypingInit, CacheInit DEF SshInv, GetInv, PutInv, Whole, GetWhole, PutWhole, Receiving, Opening
  <1>2. SshInv /\ [Next]_vars => SshInv'
    BY TypingStep, CacheStep, GetStep, PutStep, WholeStep DEF SshInv
  <1> QED
    BY <1>1, <1>2, PTL DEF Spec

-----------------------------------------------------------------------------
\* ssh_chdir() enters a directory without a look at the server if the cache
\* has it.  Whatever is made, removed and renamed meanwhile, by whichever
\* sequence of commands and sessions, the marks of these commands leave no
\* directory in the cache that is not there, unless it was renamed.
THEOREM EntersExisting == Spec => EnterExisting
  <1>1. TypeInv /\ CacheInv /\ [Next]_vars => [curdir' # curdir => curdir' \in tree \cup moved]_vars
    BY EnterStep
  <1> QED
    BY <1>1, Invariant, PTL DEF EnterExisting, SshInv, Spec

\* A get over sftp or scp that returns 0 has brought the whole file, from the
\* right place and behind what was to be kept, for files of any length: scp
\* that gives up before the first byte and is followed by sftp, failures at
\* any piece, offsets left by gets that failed and lost sessions included.
THEOREM GetsWhole == Spec => []GetWhole
  <1>1. SshInv => GetWhole
    BY DEF SshInv, Whole
  <1> QED
    BY <1>1, Invariant, PTL

\* A put that returns 0 has sent the whole file: the size at which it resumes,
\* from the cache or from the server, is the one the file has when the first
\* piece is written.
THEOREM PutsWhole == Spec => []PutWhole
  <1>1. SshInv => PutWhole
    BY DEF SshInv, Whole
  <1> QED
    BY <1>1, Invariant, PTL
=============================================================================
