----------------------------- MODULE Bookmarks -----------------------------
(***************************************************************************)
(* Bookmarks (src/bookmark.c, parse_rc() in src/rc.c, and the part of      *)
(* yafc_open() that looks them up), in yafc processes that share one       *)
(* bookmarks file.  Each keeps the bookmarks in memory, reads the file     *)
(* when it starts and when it creates one, and writes all of it: fopen()   *)
(* empties the file, and fclose() fills it, the buffer of stdio being      *)
(* larger than the bookmarks.  Nothing is locked: other processes read and *)
(* write in between.                                                       *)
(*                                                                         *)
(* A bookmark is known by its name: its alias, or its host.  Of its other  *)
(* fields there are kept the password (is there one?), `noupdate`, and     *)
(* whether its directory holds a quote.  Logins are not anonymous.         *)
(***************************************************************************)
EXTENDS Shell

CONSTANTS
  Procs,      \* the yafc processes
  Hosts,      \* host names
  Guess,      \* guess_alias(): an alias for a host
  Versions,   \* an alias and the versions after it: foo, foo(2), foo(3); the last is a bound
  Typed,      \* what `open` is given
  Files,      \* the bookmarks files there may be at first, by name
  RcBefore, RcAfter, \* the bookmarks of yafcrc and of ~/.netrc, by name
  OptionSets, \* auto_bookmark, auto_bookmark_update, auto_bookmark_save_passwd
  Quoted,     \* hosts on which the user's directory holds a quote
  Edits,      \* what an editor may do to the file: a name and what it becomes
  Shown,      \* the process whose aliases are followed
  MaxStarts, MaxCommands, MaxEdits \* bounds

Aliases == DOMAIN Versions
Names == Hosts \cup Aliases
NoMark == [host |-> "none"]
Marks == [host : Hosts, pass : BOOLEAN, noupdate : BOOLEAN, quote : BOOLEAN]

ASSUME BookmarksAssumption ==
  /\ Guess \in [Hosts -> Aliases] /\ Versions \in [Aliases -> Seq(Aliases)] /\ Aliases \cap Hosts = {}
  /\ OptionSets \subseteq [auto : {"yes", "no", "ask"}, update : {"yes", "no", "ask"}, savePass : BOOLEAN]
  /\ Files \cup {RcBefore, RcAfter} \subseteq [Names -> Marks \cup {NoMark}]
  /\ \A e \in Edits : e.name \in Names /\ e.mark \in Marks \cup {NoMark}
  /\ Shown \in Procs /\ Quoted \subseteq Hosts /\ {MaxStarts, MaxCommands, MaxEdits} \subseteq Nat

VARIABLES
  up,    \* the processes that run
  opts,  \* their options
  mem,   \* gvBookmarks of each
  conn,  \* the connection of each: ftp->url
  file,  \* the bookmarks file
  saving, \* how far each is with writing it
  agreed, \* history: hosts whose password may be written down
  misled, \* history: hosts saved while their alias was another's
  starts, commands, edits

counts == <<starts, commands, edits>>
markVars == <<up, opts, mem, conn, file, saving, agreed, misled, counts>>
vars == <<shellVars, markVars>>

NoOptions == CHOOSE o \in OptionSets : TRUE
NoConn == [up |-> FALSE, host |-> CHOOSE h \in Hosts : TRUE, alias |-> <<>>, noupdate |-> FALSE]
NoMarks == [n \in Names |-> NoMark]
Here(marks) == {n \in Names : marks[n] # NoMark}

\* The key urlcmp() compares.
Key(c) == IF c.alias = <<>> THEN c.host ELSE c.alias

\* The steps of a process that writes: "reread" (the file, before it creates a
\* bookmark called name), "emptied" (by fopen).  For the properties: automatic,
\* what was read again (base), and whether another process has had the file
\* open for writing, or an editor changed it, meanwhile (alone).
NotSaving == [step |-> "none", name |-> <<>>, automatic |-> FALSE, base |-> NoMarks, alone |-> TRUE]
Disturbed(p, q) == IF q = p THEN saving[q] ELSE [saving[q] EXCEPT !.alone = FALSE]

Init ==
  /\ ShellInit
  /\ up = {} /\ opts = [p \in Procs |-> NoOptions]
  /\ mem = [p \in Procs |-> NoMarks] /\ conn = [p \in Procs |-> NoConn]
  /\ file \in Files /\ saving = [p \in Procs |-> NotSaving]
  /\ agreed = {h \in Hosts : \E marks \in {file, RcBefore, RcAfter}, n \in Names :
                                marks[n] # NoMark /\ marks[n].host = h /\ marks[n].pass}
  /\ misled = {} /\ starts = 0 /\ commands = 0 /\ edits = 0

-----------------------------------------------------------------------------
(* The file.                                                               *)

\* bookmark_save_one() and parse_host(): a directory with a quote ends the
\* entry; what comes after it is lost.
ReadBack(marks) ==
  [n \in Names |-> IF marks[n] # NoMark /\ marks[n].quote
                   THEN [marks[n] EXCEPT !.noupdate = FALSE, !.quote = FALSE] ELSE marks[n]]

\* What is read later replaces what has the same name.
Over(old, new) == [n \in Names |-> IF new[n] # NoMark THEN new[n] ELSE old[n]]

\* bookmark_save(): fopen() with "w", and at last fclose().  When another process
\* has written in between, what lies behind the end of this one's text stays.
Empty(p, by) ==
  /\ file' = NoMarks
  /\ saving' = [q \in Procs |-> IF q = p THEN [by EXCEPT !.step = "emptied"] ELSE Disturbed(p, q)]

Reopen(p) ==
  /\ saving[p].step = "reread" /\ Empty(p, saving[p])
  /\ UNCHANGED <<up, opts, mem, conn, agreed, misled, counts>>

Fill(p) ==
  /\ saving[p].step = "emptied"
  /\ \E rest \in SUBSET Here(file) :
       file' = Over(mem[p], [n \in Names |-> IF n \in rest THEN file[n] ELSE NoMark])
  /\ saving' = [q \in Procs |-> IF q = p THEN NotSaving ELSE Disturbed(p, q)]
  /\ UNCHANGED <<up, opts, mem, conn, agreed, misled, counts>>

\* main(): yafcrc, bookmarks, .netrc.
Start(p) ==
  /\ p \notin up /\ starts < MaxStarts /\ starts' = starts + 1
  /\ up' = up \cup {p}
  /\ \E o \in OptionSets : opts' = [opts EXCEPT ![p] = o]
  /\ mem' = [mem EXCEPT ![p] = Over(Over(RcBefore, ReadBack(file)), RcAfter)]
  /\ UNCHANGED <<conn, file, saving, agreed, misled, commands, edits>>

\* bookmark -e, or any other editor.
Edit ==
  /\ edits < MaxEdits /\ edits' = edits + 1
  /\ saving' = [q \in Procs |-> [saving[q] EXCEPT !.alone = FALSE]]
  /\ \E e \in Edits :
       /\ file' = [file EXCEPT ![e.name] = e.mark]
       /\ agreed' = IF e.mark # NoMark /\ e.mark.pass THEN agreed \cup {e.mark.host} ELSE agreed
  /\ UNCHANGED <<up, opts, mem, conn, misled, starts, commands>>

\* p takes a command; those that may change bookmarks or aliases are counted.
AtPrompt(p) == p \in up /\ saving[p].step = "none" /\ UNCHANGED <<up, opts, starts, edits>>
Command(p) == AtPrompt(p) /\ commands < MaxCommands /\ commands' = commands + 1

\* bookmark --save and bookmark --read.
Save(p) ==
  /\ Command(p) /\ Empty(p, NotSaving)
  /\ UNCHANGED <<mem, conn, agreed, misled>>

Read(p) ==
  /\ Command(p) /\ mem' = [mem EXCEPT ![p] = ReadBack(file)]
  /\ UNCHANGED <<conn, file, saving, agreed, misled>>

\* bookmark --delete: what is in memory is written, without the one deleted.
Delete(p, n) ==
  /\ Command(p) /\ mem[p][n] # NoMark
  /\ mem' = [mem EXCEPT ![p][n] = NoMark] /\ Empty(p, NotSaving)
  /\ UNCHANGED <<conn, agreed, misled>>

\* bookmark --noupdate, of a bookmark or of the connection and its bookmark.
Toggle(marks, n) == [marks EXCEPT ![n].noupdate = ~@]
ToggleNoupdate(p, n) ==
  /\ Command(p) /\ mem[p][n] # NoMark
  /\ mem' = [mem EXCEPT ![p] = Toggle(@, n)] /\ Empty(p, NotSaving)
  /\ UNCHANGED <<conn, agreed, misled>>

ToggleCurrent(p) ==
  /\ Command(p) /\ conn[p].up /\ conn[p].alias # <<>>
  /\ conn' = [conn EXCEPT ![p].noupdate = ~@]
  /\ IF mem[p][Key(conn[p])] # NoMark
     THEN /\ mem' = [mem EXCEPT ![p] = Toggle(@, Key(conn[p]))]
          /\ Empty(p, NotSaving)
     ELSE UNCHANGED <<mem, file, saving>>
  /\ UNCHANGED <<agreed, misled>>

-----------------------------------------------------------------------------
(* get_autologin_url() and yafc_open().                                    *)

\* Aliases first; then hosts of bookmarks without one.
Lookup(marks, w) ==
  LET a == Search(w, Here(marks) \ Hosts) IN IF a # {} THEN a ELSE Search(w, Here(marks) \cap Hosts)

Open(p, w, lookup) ==
  /\ p \in up /\ ~conn[p].up
  /\ LET found == IF lookup THEN Lookup(mem[p], w) ELSE {}
     IN  \/ /\ IsOne(found)
            /\ LET m == mem[p][TheOne(found)]
               IN conn' = [conn EXCEPT ![p] =
                    [up |-> TRUE, host |-> m.host, noupdate |-> FALSE,
                     alias |-> IF TheOne(found) \in Hosts THEN <<>> ELSE TheOne(found)]]
         \/ /\ found = {} /\ w \in Hosts
            /\ conn' = [conn EXCEPT ![p] = [up |-> TRUE, host |-> w, alias |-> <<>>, noupdate |-> FALSE]]
  /\ AtPrompt(p)
  /\ UNCHANGED <<mem, file, saving, commands, agreed, misled>>

-----------------------------------------------------------------------------
(* Creating one.                                                           *)

\* create_the_bookmark(): the file is read again first, so that what others
\* have written stays.  Reopen() and Fill() write it.
Current_Mem(p) == mem[p]
Current(p) == ReadBack(file)

Create(p, name, pass, automatic) ==
  /\ mem' = [mem EXCEPT ![p] = [Current(p) EXCEPT ![name] =
               [host |-> conn[p].host, pass |-> pass, noupdate |-> conn[p].noupdate,
                quote |-> conn[p].host \in Quoted]]]
  /\ saving' = [saving EXCEPT ![p] =
       [step |-> "reread", name |-> name, automatic |-> automatic, base |-> file,
        alone |-> \A q \in Procs : saving[q].step # "emptied"]]
  /\ UNCHANGED file

\* create_bookmark(): the user has named it, has agreed to replace one of that
\* name, and is asked about the password.
AskedFor(p, name) ==
  \E pass \in BOOLEAN :
    /\ Create(p, name, pass, FALSE)
    /\ agreed' = IF pass THEN agreed \cup {conn[p].host} ELSE agreed

Bookmark(p, name) ==
  /\ Command(p) /\ conn[p].up /\ name \notin Hosts
  /\ AskedFor(p, name)
  /\ conn' = [conn EXCEPT ![p].alias = name] /\ UNCHANGED misled

\* should_update_bookmark(): directory, port, protocol and so on are as they
\* may be.
ShouldUpdate(m) == IF m.noupdate THEN {FALSE} ELSE BOOLEAN

\* The alias of an automatic bookmark: versions that are another host's are
\* passed over.
Free(marks, alias, host) ==
  LET vs == Versions[alias]
      ok(n) == marks[vs[n]] = NoMark \/ marks[vs[n]].host = host
  IN  {vs[n] : n \in {k \in DOMAIN vs : ok(k) /\ \A m \in 1..(k - 1) : ~ok(m)}}

\* Whether the password is written: had_passwd is the replaced bookmark's, or,
\* for a new version, still that of the one looked at first.
Writes_Always(o, marks, key, wanted, alias) == TRUE
Writes(o, marks, key, wanted, alias) ==
  LET Had(m) == m # NoMark /\ m.pass
  IN  o.savePass \/ (marks[wanted] # NoMark /\ Had(marks[IF marks[alias] # NoMark THEN alias ELSE key]))

\* auto_create_bookmark(), from ftp_close(): the connection's bookmark is looked
\* for by the name it was opened with, then by the alias it would get.
AutoCreate(p) ==
  LET c == conn[p]  o == opts[p]
      old == mem[p][Key(c)]
      wanted == IF c.alias = <<>> THEN Guess[c.host] ELSE c.alias
      Nothing == UNCHANGED <<mem, file, saving, agreed, misled>>
      Asked == UNCHANGED misled /\ \E name \in Aliases : AskedFor(p, name)
      Automatically ==
        /\ \E alias \in Free(mem[p], wanted, c.host) :
             Create(p, alias, Writes(o, mem[p], Key(c), wanted, alias), TRUE)
        /\ agreed' = IF o.savePass THEN agreed \cup {c.host} ELSE agreed
        /\ misled' = IF old # NoMark /\ old.host # c.host THEN misled \cup {c.host} ELSE misled
  IN  IF o.auto = "no" /\ o.update = "no" THEN Nothing
      ELSE IF old # NoMark
      THEN \/ FALSE \in ShouldUpdate(old) /\ Nothing
           \/ TRUE \in ShouldUpdate(old) /\ (Automatically \/ (o.update = "ask" /\ Nothing))
      ELSE IF o.auto = "ask" THEN Nothing \/ Asked ELSE Automatically

\* close, quit, or a lost connection.
Close(p) ==
  /\ Command(p) /\ conn[p].up /\ AutoCreate(p)
  /\ conn' = [conn EXCEPT ![p] = NoConn]

\* SIGHUP: no bookmark; a killed process or one that ends leaves no more, and a
\* killed one may leave the file empty.
Vanish(p) ==
  /\ p \in up /\ up' = up \ {p}
  /\ conn' = [conn EXCEPT ![p] = NoConn] /\ mem' = [mem EXCEPT ![p] = NoMarks]
  /\ aliases' = (IF p = Shown THEN <<>> ELSE aliases) /\ line' = <<>> /\ ran' = <<>>
  /\ saving' = [saving EXCEPT ![p] = NotSaving]
  /\ opts' = [opts EXCEPT ![p] = NoOptions] /\ UNCHANGED <<file, agreed, misled, counts>>

MarksNext ==
  \/ Edit
  \/ \E p \in Procs :
       \/ Start(p) \/ Reopen(p) \/ Fill(p) \/ Save(p) \/ Read(p) \/ ToggleCurrent(p) \/ Close(p)
       \/ \E n \in Names : Delete(p, n) \/ ToggleNoupdate(p, n) \/ Bookmark(p, n)
       \/ \E w \in Typed, lookup \in BOOLEAN : Open(p, w, lookup)

\* A bound: what is typed and what is done with bookmarks have nothing in common
\* but the process and its end, so they are not interleaved.
Apart == up = {Shown} /\ conn[Shown] = NoConn /\ file \in Files /\ edits = 0

Next ==
  \/ MarksNext /\ aliases = <<>> /\ line' = <<>> /\ ran' = <<>> /\ UNCHANGED aliases
  \/ \E p \in Procs : Vanish(p)
  \/ /\ Apart /\ ShellNext
     /\ IF line' = <<>> THEN Command(Shown) ELSE AtPrompt(Shown) /\ UNCHANGED commands
     /\ UNCHANGED <<mem, conn, file, saving, agreed, misled>>

Spec == Init /\ [][Next]_vars

-----------------------------------------------------------------------------
Site(m) == IF m = NoMark THEN NoMark ELSE [host |-> m.host, pass |-> m.pass]

\* p has written the bookmark it created; and with it the others it had read.
Wrote(p) == saving[p].step = "emptied" /\ saving[p].name # <<>> /\ saving'[p] = NotSaving /\ p \in up'
Beside(p) == \A n \in Names \ {saving[p].name} : Site(file'[n]) = Site(saving[p].base[n])

\* Creating a bookmark, asked for or automatically, loses none of another name
\* that was in the file when it was read again, however old the bookmarks in
\* memory are, unless somebody else writes between that and the end of the
\* writing; and an automatic one never replaces a bookmark that this process
\* knows to be of another host.  (bookmark --delete, --save and --noupdate do
\* lose what others have written since.)
CreatedBesideOthers ==
  [][\A p \in Procs :
       /\ Wrote(p) /\ saving[p].alone => Beside(p)
       /\ saving'[p].step = "reread" /\ saving'[p].automatic =>
            LET known == mem[p][saving'[p].name]
            IN  known = NoMark \/ known.host = mem'[p][saving'[p].name].host]_<<file, mem, saving>>

\* The same without the condition on others.  (It fails: nothing is locked.)
CreatedBesideWriters == [][\A p \in Procs : Wrote(p) => Beside(p)]_<<file, saving>>

\* No password is in the file but those of hosts for which the user has agreed,
\* at the question, by auto_bookmark_save_password, or by writing it into a
\* configuration file.  (A connection whose alias has become another host's
\* takes that bookmark's password for a permission.)
PasswordAgreed ==
  \A n \in Names : file[n] # NoMark /\ file[n].pass => file[n].host \in agreed \cup misled
=============================================================================
