----------------------------- MODULE Fxp_proofs -----------------------------
(***************************************************************************)
(* What the connections and fxp keep, for any number of connections, files *)
(* and lists: one dialogue per connection, two while fxp runs.             *)
(***************************************************************************)
EXTENDS Fxp, Linklist_proofs

-----------------------------------------------------------------------------
(* The inductive invariant.                                                *)

\* Where the client is: in the commands on connections, on the way through
\* the lists of fxp, or in fxpfile() with one server or the other.
Outside == {"prompt", "dial", "login", "failed", "given up", "sleep", "opened", "exited"}
OnTarget == {"mkpath", "look", "type2", "port", "size", "rest", "stor", "abort", "read", "sent"}
OnSource == {"type", "pasv", "rest2", "retr", "read2", "unlink"}
Inside == OnTarget \cup OnSource
OnTheWay == {"loop", "item", "next"}

Structure == [st : {"closed", "open", "in"}, prev : {"?", "A", "I"}, bounded : BOOLEAN]
Session == [type : {"A", "I"}, prep : {"none", "PASV", "PORT"}, owed : Nat]
Local == [i : Items \cup {NoItem}, mode : {"A", "I"}, how : {"normal", "unique", "resume", "append"},
          created : BOOLEAN, got : 0..1, sent : 0..1, whole : BOOLEAN, ok : BOOLEAN]

ListInv ==
  /\ list \in Seq(Ftps) /\ list # <<>> /\ IsInjective(list)
  /\ current \in ToSet(list) /\ use \in ToSet(list)

SessionInv ==
  /\ ftp \in [Ftps -> Structure] /\ srv \in [Ftps -> Session]
  /\ \A f \in Ftps : f \notin ToSet(list) => ftp[f].st = "closed"

LocalInv ==
  /\ cur \in Local /\ flags \in [FlagNames -> BOOLEAN]
  /\ restart \in [Ftps -> 0..1] /\ remote \subseteq Items /\ jumped \in BOOLEAN

\* The activations of fxpfiles(): every one but the innermost is at an item.
FrameInv ==
  /\ frames \in Seq(Seq(Items))
  /\ \A k \in 2 .. Len(frames) : frames[k] # <<>>
  /\ pc \in Outside => frames = <<>>
  /\ pc \notin Outside => frames # <<>>
  /\ pc \in Inside \cup {"item", "next"} => frames[1] # <<>>

\* fxpfile() knows both connections, they are two while files are sent, and
\* `ftp` is the one it speaks to.
PlaceInv ==
  /\ pc \in Outside \cup Inside \cup OnTheWay
  /\ pc \in Outside => target = NoFtp /\ this = NoFtp
  /\ pc \notin Outside => target \in ToSet(list) /\ this \in ToSet(list) \cup {NoFtp}
  /\ pc \in Inside \cup {"next"} => this \in ToSet(list)
  /\ pc \in Inside \cup {"item"} => cur.i \in Items
  /\ pc \in OnTarget => use = target
  /\ pc \in OnSource => use = this
  /\ pc \in Inside \ {"mkpath", "look"} => this # target

TypeInv == ListInv /\ SessionInv /\ LocalInv /\ FrameInv /\ PlaceInv

\* `ftp` is the connection the user has chosen, or will be after this file.
Returning == Inside \ {"unlink"}
UseInv ==
  pc # "exited" /\ ~astray => (pc \in Returning => this = current) /\ (pc \notin Returning => use = current)

\* Only between STOR and the end of the transfer is a reply owed, by the
\* target, by the source from RETR on, and only then is a wait unbounded.
Settled(f) == srv[f].owed = 0 /\ ftp[f].bounded
ChannelInv ==
  ~jumped =>
    \A f \in Ftps :
      \/ Settled(f)
      \/ pc \in {"retr", "abort"} /\ f = target /\ ftp[f].bounded
      \/ pc = "read" /\ f = target
      \/ pc = "read" /\ f = this /\ ftp[f].bounded
      \/ pc = "read2" /\ f = this

\* A data connection is only ever prepared in the type asked for, on either
\* side, and a transfer needs one.
Agree(f) == ftp[f].prev # "?" => srv[f].type = ftp[f].prev
TypeSet(f) == srv[f].type = cur.mode
CopyInv ==
  /\ \A f \in Ftps : Agree(f)
  /\ pc = "pasv" /\ Connected(this) => TypeSet(this)
  /\ pc = "port" /\ Connected(target) => TypeSet(target)
  /\ pc \in {"type2", "port", "size", "rest", "rest2", "stor", "retr"} /\ srv[this].prep # "none"
       => TypeSet(this)
  /\ pc \in {"size", "rest", "rest2", "stor"} /\ srv[target].prep # "none" => TypeSet(target)
  /\ pc \in {"retr", "read"} => TypeSet(target)
  /\ pc = "read" => TypeSet(this)
  /\ pc = "read2" /\ cur.ok => cur.whole \/ cur.got # cur.sent
  /\ pc \in {"sent", "unlink"} => cur.whole \/ cur.got # cur.sent

-----------------------------------------------------------------------------
(* Requests and connections.                                               *)

LEMMA ConstantsTyped ==
  /\ Closed \in Structure /\ Opened \in Structure /\ Reopened \in Structure
  /\ NewSession \in Session /\ NoCur \in Local
  /\ Closed.st = "closed" /\ Opened.st = "open" /\ Reopened.st = "in"
  /\ \A c \in {Closed, Opened, Reopened} : c.prev = "?" /\ c.bounded
  <1>1. Opened \in Structure /\ Opened.prev = "?" /\ Opened.bounded
    BY DEF Opened, Structure
  <1>2. /\ Reopened \in Structure /\ Reopened.st = "in" /\ Reopened.prev = "?"
        /\ Reopened.bounded
    BY <1>1 DEF Reopened, Structure
  <1>3. NoCur \in Local
    BY DEF NoCur, Local
  <1> QED
    BY <1>1, <1>2, <1>3 DEF Closed, Opened, NewSession, Structure, Session

\* What a request does to a session, field by field.
LEMMA ExecutedForm ==
  ASSUME NEW s \in Session, NEW verb, NEW mode \in {"A", "I"}
  PROVE  /\ Executed(s, verb, mode) \in Session
         /\ Executed(s, verb, mode).type = IF verb = "TYPE" THEN mode ELSE s.type
         /\ Executed(s, verb, mode).prep = IF verb \in {"PASV", "PORT"} THEN verb
                                           ELSE IF verb \in {"STOR", "RETR"} THEN "none" ELSE s.prep
         /\ Executed(s, verb, mode).owed = IF verb \in {"STOR", "RETR"} THEN s.owed + 1 ELSE s.owed
  <1>1. CASE verb = "TYPE"
    <2>1. Executed(s, verb, mode) = [s EXCEPT !.type = mode]
      BY <1>1 DEF Executed
    <2> QED
      BY <1>1, <2>1 DEF Session
  <1>2. CASE verb \in {"PASV", "PORT"}
    <2>1. Executed(s, verb, mode) = [s EXCEPT !.prep = verb]
      BY <1>2 DEF Executed
    <2> QED
      BY <1>2, <2>1 DEF Session
  <1>3. CASE verb \in {"STOR", "RETR"}
    <2>1. Executed(s, verb, mode) = [s EXCEPT !.prep = "none", !.owed = @ + 1]
      BY <1>3, Zenon DEF Executed
    <2> DEFINE p == [s EXCEPT !.prep = "none"]
               o == [p EXCEPT !.owed = s.owed + 1]
    <2>2. Executed(s, verb, mode) = o
      BY <2>1
    <2>3. p \in Session /\ p.type = s.type /\ p.prep = "none" /\ p.owed = s.owed
      BY DEF Session
    <2>4. s.owed \in Nat
      BY DEF Session
    <2> HIDE DEF p
    <2>5. o \in Session /\ o.type = p.type /\ o.prep = p.prep /\ o.owed = s.owed + 1
      BY <2>3, <2>4 DEF Session
    <2> QED
      BY <1>3, <2>2, <2>3, <2>5
  <1>4. CASE verb \notin {"TYPE", "PASV", "PORT", "STOR", "RETR"}
    <2>1. Executed(s, verb, mode) = s
      BY <1>4, Zenon DEF Executed
    <2> QED
      BY <1>4, <2>1 DEF Session
  <1> QED
    BY <1>1, <1>2, <1>3, <1>4

\* What an answer can be: it comes from the old session, or from none, or from
\* a new one, and is a refusal only where that can be.
Asked(a, f) == IF a.lost THEN NewSession ELSE srv[f]

LEMMA AnswerForm ==
  ASSUME NEW f \in Ftps, NEW verb, NEW mode \in {"A", "I"}, SessionInv,
         NEW a \in Answers(f, verb, mode)
  PROVE  /\ a.c \in Structure /\ a.s \in Session /\ a.ok \in BOOLEAN /\ a.lost \in BOOLEAN
         /\ a = [c |-> a.c, s |-> a.s, ok |-> a.ok, lost |-> a.lost]
         /\ a.s = IF a.ok THEN Executed(Asked(a, f), verb, mode) ELSE Asked(a, f)
         /\ ~a.lost => a.c = ftp[f]
         /\ a.lost => (a.c = Closed /\ ~a.ok) \/ (a.c = Reopened /\ verb \in ReconnectAt)
         /\ a.ok => CanServe(Asked(a, f), verb) /\ a.c.st # "closed"
         /\ ~a.ok => verb \in Refusable \/ ~CanServe(Asked(a, f), verb) \/ a.c.st = "closed"
  <1>1. ftp[f] \in Structure /\ srv[f] \in Session
    BY DEF SessionInv
  <1>2. PICK c \in Structure, s \in Session, ok \in BOOLEAN, lost \in BOOLEAN :
          /\ a = Answer(c, s, verb, mode, ok, lost)
          /\ s = IF lost THEN NewSession ELSE srv[f]
          /\ ~lost => c = ftp[f]
          /\ lost => (c = Closed /\ ~ok) \/ (c = Reopened /\ verb \in ReconnectAt)
          /\ ok => CanServe(s, verb) /\ c.st # "closed"
          /\ ~ok => verb \in Refusable \/ ~CanServe(s, verb) \/ c.st = "closed"
    <2>1. CASE ~Connected(f)
      BY <1>1, <2>1 DEF Answers, Connected
    <2>2. CASE Connected(f)
      <3> DEFINE serve(c, s, lost) ==
                   {Answer(c, s, verb, mode, ok, lost) :
                      ok \in {CanServe(s, verb)} \cup IF verb \in Refusable THEN {FALSE} ELSE {}}
      <3>1. \/ a \in serve(ftp[f], srv[f], FALSE)
            \/ a = Answer(Closed, NewSession, verb, mode, FALSE, TRUE)
            \/ verb \in ReconnectAt /\ a \in serve(Reopened, NewSession, TRUE)
        BY <2>2 DEF Answers
      <3>2. Closed.st = "closed" /\ Reopened.st # "closed" /\ ftp[f].st # "closed"
        BY <2>2 DEF Closed, Reopened, Opened, Connected
      <3>3. CanServe(srv[f], verb) \in BOOLEAN /\ CanServe(NewSession, verb) \in BOOLEAN
        BY DEF CanServe
      <3>4. CASE a \in serve(ftp[f], srv[f], FALSE)
        <4>1. PICK ok \in BOOLEAN : /\ a = Answer(ftp[f], srv[f], verb, mode, ok, FALSE)
                                    /\ ok => CanServe(srv[f], verb)
                                    /\ ~ok => verb \in Refusable \/ ~CanServe(srv[f], verb)
          BY <3>3, <3>4
        <4> QED
          BY <1>1, <3>2, <4>1
      <3>5. CASE a = Answer(Closed, NewSession, verb, mode, FALSE, TRUE)
        BY <3>2, <3>5, ConstantsTyped
      <3>6. CASE verb \in ReconnectAt /\ a \in serve(Reopened, NewSession, TRUE)
        <4>1. PICK ok \in BOOLEAN : /\ a = Answer(Reopened, NewSession, verb, mode, ok, TRUE)
                                    /\ ok => CanServe(NewSession, verb)
                                    /\ ~ok => verb \in Refusable \/ ~CanServe(NewSession, verb)
          BY <3>3, <3>6
        <4> QED
          BY <3>2, <3>6, <4>1, ConstantsTyped
      <3> QED
        BY <3>1, <3>4, <3>5, <3>6
    <2> QED
      BY <2>1, <2>2
  <1>3. a = [c |-> c, s |-> IF ok THEN Executed(s, verb, mode) ELSE s, ok |-> ok, lost |-> lost]
    BY <1>2 DEF Answer
  <1>4. Executed(s, verb, mode) \in Session
    BY ExecutedForm
  <1> QED
    BY <1>2, <1>3, <1>4 DEF Asked

\* A structure of the list and its session become something else.
LEMMA SetKeeps ==
  ASSUME ListInv, SessionInv, NEW f \in ToSet(list), NEW c \in Structure, NEW s \in Session,
         SetFtp(f, c, s), ToSet(list) \subseteq ToSet(list')
  PROVE  SessionInv'
  <1>1. f \in Ftps
    BY DEF ListInv, ToSet
  <1> QED
    BY <1>1 DEF SessionInv, SetFtp

-----------------------------------------------------------------------------
(* The commands on connections.                                            *)

\* Of what fxp looks at, these commands keep all or leave a new session.
Renewed ==
  \A f \in Ftps :
    \/ srv'[f] = srv[f] /\ ftp'[f].prev = ftp[f].prev /\ ftp'[f].bounded = ftp[f].bounded
    \/ srv'[f] = NewSession /\ ftp'[f].prev = "?" /\ ftp'[f].bounded

LEMMA Kept ==
  ASSUME SessionInv, ListInv, UNCHANGED sessions, ToSet(list) \subseteq ToSet(list')
  PROVE  SessionInv' /\ Renewed
  BY DEF SessionInv, Renewed, sessions

LEMMA Closing ==
  ASSUME ListInv, SessionInv, NEW f \in ToSet(list), CloseFtp(f),
         ToSet(list) \subseteq ToSet(list')
  PROVE  SessionInv' /\ Renewed
  <1>1. SetFtp(f, Closed, NewSession)
    BY DEF CloseFtp
  <1>2. SessionInv'
    BY <1>1, SetKeeps, ConstantsTyped
  <1>3. Renewed
    BY <1>1, ConstantsTyped DEF Renewed, SetFtp, SessionInv
  <1> QED
    BY <1>2, <1>3

\* close, also when an open failed: another connection is chosen, if there is one.
LEMMA CloseCommandKeeps ==
  ASSUME ListInv, SessionInv, CloseCommand
  PROVE  /\ ListInv' /\ SessionInv' /\ Renewed
         /\ use' = current'
         /\ \A f \in ToSet(list) \ {use, current} : f \in ToSet(list') /\ ftp'[f] = ftp[f]
  <1>1. list \in Seq(Ftps) /\ list # <<>> /\ {current, use} \subseteq ToSet(list) /\ ToSet(list) \subseteq Ftps
    BY DEF ListInv, ToSet
  <1>2. CASE Len(list) = 1
    <2>1. CloseFtp(use) /\ UNCHANGED structures
      BY <1>2 DEF CloseCommand
    <2>2. ListInv'
      BY <2>1 DEF ListInv, structures
    <2>3. SessionInv' /\ Renewed
      BY <1>1, <2>1, Closing DEF structures
    <2>4. use = current
      BY <1>1, <1>2 DEF ToSet
    <2> QED
      BY <1>1, <2>1, <2>2, <2>3, <2>4 DEF structures, CloseFtp, SetFtp, SessionInv
  <1>3. CASE Len(list) # 1
    <2> DEFINE rest == Without(list, current)
    <2>1. /\ list' = rest /\ current' = Head(rest) /\ use' = current'
          /\ ftp' = [ftp EXCEPT ![use] = Closed, ![current] = Closed]
          /\ srv' = [srv EXCEPT ![use] = NewSession, ![current] = NewSession]
      BY <1>3 DEF CloseCommand
    <2>2. rest \in Seq(Ftps) /\ ToSet(rest) = ToSet(list) \ {current} /\ IsInjective(rest)
      BY <1>1, WithoutProperties DEF ListInv
    <2>3. rest # <<>>
      BY <1>1, <1>3, WithoutOneOfMany DEF ListInv
    <2> HIDE DEF rest
    <2>4. Head(rest) \in ToSet(rest)
      BY <2>2, <2>3, TailItems
    <2>5. ListInv'
      BY <2>1, <2>2, <2>3, <2>4 DEF ListInv
    <2>6. \A f \in Ftps : IF f \in {use, current} THEN ftp'[f] = Closed /\ srv'[f] = NewSession
                                               ELSE ftp'[f] = ftp[f] /\ srv'[f] = srv[f]
      BY <1>1, <2>1 DEF SessionInv
    <2>7. SessionInv'
      <3>1. ftp' \in [Ftps -> Structure] /\ srv' \in [Ftps -> Session]
        BY <1>1, <2>1, ConstantsTyped DEF SessionInv
      <3> QED
        BY <2>1, <2>2, <2>6, <3>1, ConstantsTyped DEF SessionInv
    <2>8. Renewed
      BY <2>6, ConstantsTyped DEF Renewed
    <2> QED
      BY <1>1, <2>1, <2>2, <2>5, <2>6, <2>7, <2>8
  <1> QED
    BY <1>2, <1>3

\* `ftp` is the connection the user has chosen; the others stay as they are.
Chosen == pc # "exited" /\ ~astray => use = current
OthersStay ==
  \A f \in Ftps \ {current} :
    pc \in {"prompt", "opened"} /\ pc' # "exited" /\ ~astray /\ Connected(f)
      => f \in ToSet(list') /\ ftp'[f].st # "closed"

LEMMA Chooses ==
  ASSUME ListInv, SessionInv, Choose, UNCHANGED sessions
  PROVE  ListInv' /\ SessionInv' /\ Renewed /\ ToSet(list) \subseteq ToSet(list')
  <1>1. list \in Seq(Ftps) /\ list # <<>> /\ IsInjective(list) /\ ToSet(list) \subseteq Ftps
        /\ use \in ToSet(list) /\ current \in ToSet(list)
    BY DEF ListInv, ToSet
  <1>2. ListInv' /\ ToSet(list) \subseteq ToSet(list')
    <2>1. CASE UNCHANGED structures
      BY <1>1, <2>1 DEF ListInv, structures
    <2>2. CASE \E k \in DOMAIN list : current' = list[k] /\ use' = current' /\ UNCHANGED list
      BY <1>1, <2>2 DEF ListInv, ToSet
    <2>3. CASE /\ ToSet(list) # Ftps
               /\ current' = Created(ToSet(list)) /\ use' = current' /\ list' = Append(list, current')
      <3> DEFINE new == Created(ToSet(list))
      <3>1. new \in Ftps \ ToSet(list)
        BY <1>1, <2>3 DEF Created
      <3> HIDE DEF new
      <3>2. /\ Append(list, new) \in Seq(Ftps) /\ Append(list, new) # <<>>
            /\ IsInjective(Append(list, new))
            /\ ToSet(Append(list, new)) = ToSet(list) \cup {new}
        BY <1>1, <3>1, AppendItems, AppendDistinct, AppendProperties, EmptySeq
      <3>3. list' = Append(list, new) /\ current' = new /\ use' = new
        BY <2>3 DEF new
      <3> QED
        BY <1>1, <3>2, <3>3 DEF ListInv
    <2> QED
      BY <2>1, <2>2, <2>3 DEF Choose
  <1> QED
    BY <1>2, Kept

\* Steps that leave the list alone, and change at most the structure in use.
UseChanges ==
  \/ UNCHANGED sessions
  \/ CloseFtp(use)
  \/ SetFtp(use, Opened, NewSession) \/ SetFtp(use, Reopened, NewSession)
  \/ \E st \in {"open", "in"} : ftp' = [ftp EXCEPT ![use].st = st] /\ UNCHANGED srv

LEMMA UseChangesKeep ==
  ASSUME ListInv, SessionInv, UseChanges, UNCHANGED list
  PROVE  SessionInv' /\ Renewed /\ \A f \in Ftps \ {use} : ftp'[f] = ftp[f]
  <1>1. use \in ToSet(list) /\ use \in Ftps
    BY DEF ListInv, ToSet
  <1>2. CASE UNCHANGED sessions
    BY <1>2, Kept DEF sessions
  <1>3. CASE CloseFtp(use)
    BY <1>1, <1>3, Closing DEF CloseFtp, SetFtp, SessionInv
  <1>4. CASE \E c \in {Opened, Reopened} : SetFtp(use, c, NewSession)
    <2>1. PICK c \in {Opened, Reopened} : SetFtp(use, c, NewSession)
      BY <1>4
    <2>2. c \in Structure /\ c.prev = "?" /\ c.bounded
      BY ConstantsTyped
    <2>3. SessionInv'
      BY <1>1, <2>1, <2>2, SetKeeps, ConstantsTyped
    <2> QED
      BY <1>1, <2>1, <2>2, <2>3 DEF SetFtp, Renewed, SessionInv
  <1>5. CASE \E st \in {"open", "in"} : ftp' = [ftp EXCEPT ![use].st = st] /\ UNCHANGED srv
    <2>1. PICK st \in {"open", "in"} : ftp' = [ftp EXCEPT ![use].st = st] /\ UNCHANGED srv
      BY <1>5
    <2> DEFINE c == [ftp[use] EXCEPT !.st = st]
    <2>2. c \in Structure /\ c.prev = ftp[use].prev /\ c.bounded = ftp[use].bounded
      BY <1>1 DEF SessionInv, Structure
    <2>3. ftp' = [ftp EXCEPT ![use] = c]
      BY <1>1, <2>1 DEF SessionInv
    <2> HIDE DEF c
    <2> QED
      BY <1>1, <2>1, <2>2, <2>3 DEF Renewed, SessionInv
  <1> QED
    BY <1>2, <1>3, <1>4, <1>5 DEF UseChanges

\* A command on connections: what fxp relies on stays.
LEMMA ConnectionStepKeeps ==
  ASSUME ListInv, SessionInv, ConnectionStep
  PROVE  /\ ListInv' /\ SessionInv' /\ Renewed
         /\ pc \in Outside /\ pc' \in Outside /\ UNCHANGED fvars
         /\ Chosen => Chosen' /\ OthersStay
  <1> DEFINE Kind1 == UseChanges /\ UNCHANGED <<structures, astray>> /\ pc # "exited"
             Goal == /\ ListInv' /\ SessionInv' /\ Renewed
                     /\ Chosen => Chosen' /\ OthersStay
  <1> SUFFICES Goal /\ pc \in Outside /\ pc' \in Outside
    BY DEF ConnectionStep
  <1>1. list \in Seq(Ftps) /\ use \in ToSet(list) /\ current \in ToSet(list)
        /\ ToSet(list) \subseteq Ftps /\ ftp \in [Ftps -> Structure] /\ srv \in [Ftps -> Session]
        /\ \A f \in Ftps : Connected(f) => f \in ToSet(list)
    BY DEF ListInv, SessionInv, ToSet, Connected
  <1>2. ASSUME Kind1
        PROVE  Goal
    <2>1. SessionInv' /\ Renewed /\ \A f \in Ftps \ {use} : ftp'[f] = ftp[f]
      BY <1>2, UseChangesKeep DEF structures
    <2>2. ListInv'
      BY <1>2 DEF ListInv, structures
    <2> QED
      BY <1>1, <1>2, <2>1, <2>2 DEF Chosen, OthersStay, Connected, structures
  <1>3. ASSUME CloseCommand, astray' = (use' # current'), pc # "exited"
        PROVE  Goal
    BY <1>1, <1>3, CloseCommandKeeps DEF Chosen, OthersStay, Connected
  <1>4. CASE CmdClose
    BY <1>3, <1>4 DEF CmdClose, Outside
  <1>5. CASE CmdOpen
    <2>1. ListInv' /\ SessionInv' /\ Renewed /\ ToSet(list) \subseteq ToSet(list')
      BY <1>5, Chooses DEF CmdOpen
    <2> QED
      BY <1>1, <1>5, <2>1 DEF CmdOpen, Outside, Chosen, OthersStay, Connected, sessions
  <1>6. CASE CmdUser
    <2>1. UseChanges
      BY <1>6 DEF CmdUser, UseChanges
    <2> QED
      BY <1>2, <1>6, <2>1 DEF CmdUser, Outside
  <1>7. CASE CmdReopen
    <2>1. UseChanges
      BY <1>7 DEF CmdReopen, UseChanges
    <2> QED
      BY <1>2, <1>7, <2>1 DEF CmdReopen, Outside
  <1>8. CASE SessionLost
    <2>1. UseChanges
      BY <1>8 DEF SessionLost, UseChanges
    <2> QED
      BY <1>2, <1>8, <2>1 DEF SessionLost, Outside
  <1>9. CASE CmdSwitch
    <2>1. ListInv'
      BY <1>9 DEF CmdSwitch, ListInv
    <2>2. SessionInv' /\ Renewed
      BY <1>9, Kept DEF CmdSwitch
    <2> QED
      BY <1>1, <1>9, <2>1, <2>2 DEF CmdSwitch, Outside, Chosen, OthersStay, Connected, sessions
  <1>10. CASE CmdQuit
    <2>1. ListInv'
      <3>1. Last(list) \in ToSet(list)
        <4>1. Len(list) \in Nat \ {0} /\ DOMAIN list = 1 .. Len(list)
          BY <1>1, EmptySeq, LenProperties DEF ListInv
        <4>2. Len(list) \in DOMAIN list
          BY <4>1
        <4> QED
          BY <4>2 DEF Last, ToSet
      <3> QED
        BY <1>10, <3>1 DEF CmdQuit, ListInv
    <2>2. ftp' = [f \in Ftps |-> Closed] /\ srv' = [f \in Ftps |-> NewSession]
      BY <1>10 DEF CmdQuit
    <2>3. SessionInv' /\ Renewed
      BY <2>2, ConstantsTyped DEF SessionInv, Renewed
    <2> QED
      BY <1>10, <2>1, <2>3 DEF CmdQuit, Outside, Chosen, OthersStay
  <1>11. CASE Dial
    <2>1. UseChanges
      BY <1>11 DEF Dial, UseChanges
    <2> QED
      BY <1>2, <1>11, <2>1 DEF Dial, Outside
  <1>12. CASE Login
    <2>1. UseChanges
      BY <1>1, <1>12 DEF Login, UseChanges, SetFtp
    <2> QED
      BY <1>2, <1>12, <2>1 DEF Login, Outside
  <1>13. CASE Retry
    <2>1. UseChanges
      BY <1>13 DEF Retry, AttemptFailed, UseChanges
    <2> QED
      BY <1>2, <1>13, <2>1 DEF Retry, AttemptFailed, Outside
  <1>14. CASE Sleep
    <2>1. UseChanges
      BY <1>14 DEF Sleep, UseChanges
    <2> QED
      BY <1>2, <1>14, <2>1 DEF Sleep, Outside
  <1>15. CASE OpenEnd
    <2>1. CASE Connected(use)
      <3>1. UNCHANGED <<structures, sessions>> /\ astray' = (use' # current') /\ pc = "opened" /\ pc' = "prompt"
        BY <1>15, <2>1 DEF OpenEnd
      <3>2. ListInv' /\ SessionInv' /\ Renewed
        BY <3>1, Kept DEF structures, ListInv
      <3> QED
        BY <1>1, <1>15, <3>1, <3>2
           DEF OpenEnd, Outside, Chosen, OthersStay, Connected, structures, sessions
    <2>2. CASE ~Connected(use)
      BY <1>3, <1>15, <2>2 DEF OpenEnd, Outside
    <2> QED
      BY <2>1, <2>2
  <1>16. CASE OpenAborted
    <2>1. UseChanges
      BY <1>16 DEF OpenAborted, UseChanges
    <2> QED
      BY <1>2, <1>16, <2>1 DEF OpenAborted, Outside
  <1>17. CASE Exited
    <2>1. UNCHANGED <<structures, sessions, pc, astray>> /\ pc = "exited"
      BY <1>17 DEF Exited, vars
    <2>2. ListInv' /\ SessionInv' /\ Renewed
      BY <2>1, Kept DEF structures, ListInv
    <2> QED
      BY <2>1, <2>2 DEF Outside, Chosen, OthersStay
  <1> QED
    BY <1>4, <1>5, <1>6, <1>7, <1>8, <1>9, <1>10, <1>11, <1>12, <1>13, <1>14, <1>15, <1>16, <1>17
       DEF ConnectionStep, Commands, OpenStep

-----------------------------------------------------------------------------
(* Types and places.                                                       *)

\* From here on the model's abbreviations for what stays as it is and for the
\* ways out of fxpfile() are expanded, and the sets of places.
USE DEF Here, Stay, conn, Returned, Leave, Goto, Take,
        Outside, OnTarget, OnSource, Inside, OnTheWay

\* Steps that leave the list alone, and work on one of the two connections.
LEMMA ListKept ==
  ASSUME ListInv, UNCHANGED <<list, current>>, use' \in ToSet(list)
  PROVE  ListInv'
  BY DEF ListInv

LEMMA SessionsKept ==
  ASSUME SessionInv, UNCHANGED <<list, sessions>>
  PROVE  SessionInv'
  BY DEF SessionInv, sessions

LEMMA AnswerKeeps ==
  ASSUME ListInv, SessionInv, LocalInv, UNCHANGED list,
         NEW verb, \E a \in Ask(verb) : SetFtp(use, a.c, a.s)
  PROVE  SessionInv'
  <1>1. use \in Ftps /\ cur.mode \in {"A", "I"} /\ use \in ToSet(list)
    BY DEF ListInv, ToSet, Local, LocalInv
  <1>2. PICK a \in Ask(verb) : SetFtp(use, a.c, a.s)
    OBVIOUS
  <1>3. a.c \in Structure /\ a.s \in Session
    BY <1>1, AnswerForm DEF Ask
  <1> QED
    BY <1>1, <1>2, <1>3, SetKeeps

LEMMA AnswerIsBoolean ==
  ASSUME ListInv, SessionInv, LocalInv, NEW verb, NEW a \in Ask(verb)
  PROVE  a.ok \in BOOLEAN
  <1>1. use \in Ftps /\ cur.mode \in {"A", "I"}
    BY DEF ListInv, ToSet, Local, LocalInv
  <1> QED
    BY <1>1, AnswerForm DEF Ask

LEMMA MkpathTyped ==
  ASSUME TypeInv, Mkpath
  PROVE  TypeInv'
  <1>1. ListInv'
    BY ListKept DEF TypeInv, PlaceInv, ListInv, Mkpath
  <1>2. SessionInv'
    <2>1. UNCHANGED list /\ (UNCHANGED sessions \/ \E a \in Ask("MKD") : SetFtp(use, a.c, a.s))
      BY DEF Mkpath
    <2> QED
      BY <2>1, SessionsKept, AnswerKeeps DEF TypeInv
  <1>3. LocalInv'
    <2>1. \A a \in Ask("MKD") : a.ok \in BOOLEAN
      BY AnswerIsBoolean DEF TypeInv
    <2> QED
      BY <2>1 DEF TypeInv, LocalInv, Local, PlaceInv, Mkpath
  <1>4. FrameInv'
    BY DEF TypeInv, FrameInv, Mkpath
  <1>5. PlaceInv'
    BY DEF TypeInv, PlaceInv, LocalInv, Local, Mkpath
  <1> QED
    BY <1>1, <1>2, <1>3, <1>4, <1>5 DEF TypeInv

\* fxpfile() returns, or goes on: its locals keep their types.
LEMMA ResultKept ==
  ASSUME LocalInv, cur' = cur \/ cur' = [cur EXCEPT !.ok = FALSE], Here
  PROVE  LocalInv'
  <1> cur' \in Local
    BY DEF LocalInv, Local
  <1> QED
    BY DEF LocalInv, Here, Stay

LEMMA PasvTyped ==
  ASSUME TypeInv, Pasv
  PROVE  TypeInv'
  <1>1. ListInv'
    BY ListKept DEF TypeInv, PlaceInv, ListInv, Pasv
  <1>2. SessionInv'
    <2>1. UNCHANGED list /\ \E a \in Ask("PASV") : SetFtp(use, a.c, a.s)
      BY DEF Pasv
    <2> QED
      BY <2>1, AnswerKeeps DEF TypeInv
  <1>3. LocalInv'
    <2> cur' = cur \/ cur' = [cur EXCEPT !.ok = FALSE]
      BY Zenon DEF Pasv, Returned
    <2> QED
      BY ResultKept, Zenon DEF TypeInv, Pasv
  <1>4. FrameInv'
    BY DEF TypeInv, FrameInv, Pasv
  <1>5. PlaceInv'
    BY DEF TypeInv, PlaceInv, LocalInv, Local, Pasv
  <1> QED
    BY <1>1, <1>2, <1>3, <1>4, <1>5 DEF TypeInv

LEMMA PortTyped ==
  ASSUME TypeInv, Port
  PROVE  TypeInv'
  <1>1. ListInv'
    BY ListKept DEF TypeInv, PlaceInv, ListInv, Port
  <1>2. SessionInv'
    <2>1. UNCHANGED list /\ \E a \in Ask("PORT") : SetFtp(use, a.c, a.s)
      BY DEF Port
    <2> QED
      BY <2>1, AnswerKeeps DEF TypeInv
  <1>3. LocalInv'
    <2> cur' = cur \/ cur' = [cur EXCEPT !.ok = FALSE]
      BY Zenon DEF Port, Returned
    <2> QED
      BY ResultKept, Zenon DEF TypeInv, Port
  <1>4. FrameInv'
    BY DEF TypeInv, FrameInv, Port
  <1>5. PlaceInv'
    BY DEF TypeInv, PlaceInv, LocalInv, Local, Port
  <1> QED
    BY <1>1, <1>2, <1>3, <1>4, <1>5 DEF TypeInv

LEMMA RestTargetTyped ==
  ASSUME TypeInv, RestTarget
  PROVE  TypeInv'
  <1>1. ListInv'
    BY ListKept DEF TypeInv, PlaceInv, ListInv, RestTarget
  <1>2. SessionInv'
    <2>1. UNCHANGED list /\ \E a \in Ask("REST") : SetFtp(use, a.c, a.s)
      BY DEF RestTarget
    <2> QED
      BY <2>1, AnswerKeeps DEF TypeInv
  <1>3. LocalInv'
    <2>1. restart[use] \in 0..1 /\ UNCHANGED <<restart, flags, remote, jumped>>
      BY DEF TypeInv, LocalInv, ListInv, ToSet, RestTarget
    <2>2. cur' \in Local
      BY <2>1 DEF TypeInv, LocalInv, Local, RestTarget
    <2> QED
      BY <2>1, <2>2 DEF TypeInv, LocalInv
  <1>4. FrameInv'
    BY DEF TypeInv, FrameInv, RestTarget
  <1>5. PlaceInv'
    BY DEF TypeInv, PlaceInv, LocalInv, Local, RestTarget
  <1> QED
    BY <1>1, <1>2, <1>3, <1>4, <1>5 DEF TypeInv

LEMMA RestSourceTyped ==
  ASSUME TypeInv, RestSource
  PROVE  TypeInv'
  <1>1. ListInv'
    BY ListKept DEF TypeInv, PlaceInv, ListInv, RestSource
  <1>2. SessionInv'
    <2>1. UNCHANGED list /\ \E a \in Ask("REST") : SetFtp(use, a.c, a.s)
      BY DEF RestSource
    <2> QED
      BY <2>1, AnswerKeeps DEF TypeInv
  <1>3. LocalInv'
    <2>1. restart[use] \in 0..1 /\ UNCHANGED <<restart, flags, remote, jumped>>
      BY DEF TypeInv, LocalInv, ListInv, ToSet, RestSource
    <2>2. cur' \in Local
      BY <2>1 DEF TypeInv, LocalInv, Local, RestSource
    <2> QED
      BY <2>1, <2>2 DEF TypeInv, LocalInv
  <1>4. FrameInv'
    BY DEF TypeInv, FrameInv, RestSource
  <1>5. PlaceInv'
    BY DEF TypeInv, PlaceInv, LocalInv, Local, RestSource
  <1> QED
    BY <1>1, <1>2, <1>3, <1>4, <1>5 DEF TypeInv

LEMMA StorTyped ==
  ASSUME TypeInv, Stor
  PROVE  TypeInv'
  <1>1. ListInv'
    BY ListKept DEF TypeInv, PlaceInv, ListInv, Stor
  <1>2. SessionInv'
    <2>1. UNCHANGED list /\ (UNCHANGED sessions \/ \E a \in Ask("STOR") : SetFtp(use, a.c, a.s))
      BY DEF Stor
    <2> QED
      BY <2>1, SessionsKept, AnswerKeeps DEF TypeInv
  <1>3. LocalInv'
    <2> cur' = cur \/ cur' = [cur EXCEPT !.ok = FALSE]
      BY Zenon DEF Stor, Leave, Returned
    <2> QED
      BY ResultKept, Zenon DEF TypeInv, Stor
  <1>4. FrameInv'
    BY DEF TypeInv, FrameInv, Stor
  <1>5. PlaceInv'
    BY DEF TypeInv, PlaceInv, LocalInv, Local, Stor
  <1> QED
    BY <1>1, <1>2, <1>3, <1>4, <1>5 DEF TypeInv

\* ftp_type(): what is remembered of the answer to TYPE.
LEMMA TypeAnswer ==
  ASSUME ListInv, SessionInv, LocalInv, NEW a \in Ask("TYPE"),
         Take([a EXCEPT !.c.prev = IF a.ok THEN cur.mode ELSE @], use)
  PROVE  /\ a.s \in Session
         /\ \E c \in Structure :
              /\ SetFtp(use, c, a.s) /\ c.prev = IF a.ok THEN cur.mode ELSE a.c.prev
              /\ c.st = a.c.st /\ c.bounded = a.c.bounded
  <1>1. use \in Ftps /\ cur.mode \in {"A", "I"}
    BY DEF ListInv, ToSet, Local, LocalInv
  <1>2. /\ a.c \in Structure /\ a.s \in Session /\ a.ok \in BOOLEAN /\ a.lost \in BOOLEAN
        /\ a = [c |-> a.c, s |-> a.s, ok |-> a.ok, lost |-> a.lost]
    BY <1>1, AnswerForm DEF Ask
  <1> DEFINE p == IF a.ok THEN cur.mode ELSE a.c.prev
             c == [a.c EXCEPT !.prev = p]
             b == [a EXCEPT !.c = c]
  <1>3. c \in Structure /\ c.prev = p /\ c.st = a.c.st /\ c.bounded = a.c.bounded
    BY <1>1, <1>2 DEF Structure
  <1>4. SetFtp(use, b.c, b.s)
    OBVIOUS
  <1>5. a \in [c : Structure, s : Session, ok : BOOLEAN, lost : BOOLEAN]
    BY <1>2
  <1> HIDE DEF c
  <1>6. b.c = c /\ b.s = a.s
    BY <1>5
  <1> HIDE DEF b
  <1> QED
    BY <1>2, <1>3, <1>4, <1>6

LEMMA TypeTyped ==
  ASSUME TypeInv, Type
  PROVE  TypeInv'
  <1>1. ListInv'
    BY ListKept DEF TypeInv, PlaceInv, ListInv, Type
  <1>2. SessionInv'
    <2>1. CASE UNCHANGED sessions
      BY <2>1, SessionsKept DEF TypeInv, Type
    <2>2. CASE ~UNCHANGED sessions
      <3>1. PICK a \in Ask("TYPE") : Take([a EXCEPT !.c.prev = IF a.ok THEN cur.mode ELSE @], use)
        BY <2>2 DEF Type
      <3>2. a.s \in Session /\ \E c \in Structure : SetFtp(use, c, a.s)
        BY <3>1, TypeAnswer DEF TypeInv
      <3> QED
        BY <3>2, SetKeeps DEF TypeInv, ListInv, Type
    <2> QED
      BY <2>1, <2>2
  <1>3. LocalInv'
    BY DEF TypeInv, LocalInv, Type
  <1>4. FrameInv'
    BY DEF TypeInv, FrameInv, Type
  <1>5. PlaceInv'
    BY DEF TypeInv, PlaceInv, Type
  <1> QED
    BY <1>1, <1>2, <1>3, <1>4, <1>5 DEF TypeInv

LEMMA SizeTyped ==
  ASSUME TypeInv, Size
  PROVE  TypeInv'
  <1>1. ListInv'
    BY ListKept DEF TypeInv, ListInv, Size
  <1>2. SessionInv'
    <2> DEFINE c == [ftp[use] EXCEPT !.prev = "A"]
               s == [srv[use] EXCEPT !.type = "A", !.prep = "none"]
    <2>1. use \in ToSet(list) /\ use \in Ftps /\ ftp[use] \in Structure /\ srv[use] \in Session
      BY DEF TypeInv, ListInv, SessionInv, ToSet
    <2>2. c \in Structure /\ s \in Session
      BY <2>1 DEF Structure, Session
    <2>3. UNCHANGED list /\ (UNCHANGED sessions \/ SetFtp(use, c, s))
      BY DEF Size
    <2> HIDE DEF c, s
    <2> QED
      BY <2>1, <2>2, <2>3, SetKeeps, SessionsKept DEF TypeInv
  <1>3. LocalInv'
    <2>1. PICK n \in {0, 1} : restart' = [restart EXCEPT ![target] = n]
      BY Zenon DEF Size
    <2>2. n \in 0..1
      OBVIOUS
    <2> QED
      BY <2>1, <2>2 DEF TypeInv, LocalInv, Size
  <1>4. FrameInv'
    BY DEF TypeInv, FrameInv, Size
  <1>5. PlaceInv'
    BY DEF TypeInv, PlaceInv, Size
  <1> QED
    BY <1>1, <1>2, <1>3, <1>4, <1>5 DEF TypeInv

\* The wait for the other side's reply.
LEMMA UnboundedForm ==
  ASSUME NEW c \in Structure
  PROVE  /\ Unbounded(c) \in Structure /\ Unbounded(c).st = c.st /\ Unbounded(c).prev = c.prev
         /\ ~Unbounded(c).bounded
  BY DEF Unbounded, Structure

LEMMA BoundedForm ==
  ASSUME SessionInv, NEW f \in Ftps
  PROVE  LET done == [ftp EXCEPT ![f].bounded = TRUE]
         IN  /\ done \in [Ftps -> Structure]
             /\ done[f].st = ftp[f].st /\ done[f].prev = ftp[f].prev /\ done[f].bounded
             /\ \A g \in Ftps \ {f} : done[g] = ftp[g]
  <1> DEFINE c == [ftp[f] EXCEPT !.bounded = TRUE]
  <1>1. c \in Structure /\ c.st = ftp[f].st /\ c.prev = ftp[f].prev /\ c.bounded
    BY DEF SessionInv, Structure
  <1> HIDE DEF c
  <1>2. [ftp EXCEPT ![f].bounded = TRUE] = [ftp EXCEPT ![f] = c]
    BY DEF c
  <1> QED
    BY <1>1, <1>2 DEF SessionInv

LEMMA RetrTyped ==
  ASSUME TypeInv, Retr
  PROVE  TypeInv'
  <1>1. ListInv'
    BY ListKept DEF TypeInv, PlaceInv, Retr
  <1>2. SessionInv'
    <2>1. PICK a \in Ask("RETR") :
            /\ srv' = [srv EXCEPT ![use] = a.s]
            /\ \/ ftp' = [ftp EXCEPT ![use] = a.c, ![target] = Unbounded(@)]
               \/ ftp' = [ftp EXCEPT ![use] = a.c]
      BY DEF Retr
    <2>2. /\ use \in ToSet(list) /\ target \in ToSet(list) /\ use # target
          /\ use \in Ftps /\ target \in Ftps /\ cur.mode \in {"A", "I"} /\ UNCHANGED list
      BY DEF TypeInv, ListInv, PlaceInv, LocalInv, Local, ToSet, Retr
    <2>3. a.c \in Structure /\ a.s \in Session
      BY <2>2, AnswerForm DEF Ask, TypeInv
    <2>4. Unbounded(ftp[target]) \in Structure
      BY <2>2, UnboundedForm DEF TypeInv, SessionInv
    <2>5. ftp' = [ftp EXCEPT ![use] = a.c, ![target] = Unbounded(ftp[target])]
          \/ ftp' = [ftp EXCEPT ![use] = a.c]
      BY <2>1, <2>2 DEF TypeInv, SessionInv
    <2> QED
      BY <2>1, <2>2, <2>3, <2>4, <2>5 DEF TypeInv, SessionInv
  <1>3. LocalInv'
    BY DEF TypeInv, LocalInv, Retr
  <1>4. FrameInv'
    BY DEF TypeInv, FrameInv, Retr
  <1>5. PlaceInv'
    BY DEF TypeInv, PlaceInv, Retr
  <1> QED
    BY <1>1, <1>2, <1>3, <1>4, <1>5 DEF TypeInv

LEMMA AbortTyped ==
  ASSUME TypeInv, Abort
  PROVE  TypeInv'
  <1>1. ListInv'
    BY ListKept DEF TypeInv, PlaceInv, Abort
  <1>2. SessionInv'
    <2> DEFINE s == [srv[use] EXCEPT !.owed = 0]
    <2>1. use \in ToSet(list) /\ use \in Ftps /\ ftp[use] \in Structure /\ srv[use] \in Session
      BY DEF TypeInv, ListInv, SessionInv, ToSet
    <2>2. s \in Session
      BY <2>1 DEF Session
    <2>3. UNCHANGED list /\ (CloseFtp(use) \/ SetFtp(use, ftp[use], s))
      BY DEF Abort, AbortStor
    <2> HIDE DEF s
    <2> QED
      BY <2>1, <2>2, <2>3, SetKeeps, Closing DEF TypeInv
  <1>3. LocalInv'
    BY DEF TypeInv, LocalInv, Local, Abort
  <1>4. FrameInv'
    BY DEF TypeInv, FrameInv, Abort
  <1>5. PlaceInv'
    BY DEF TypeInv, PlaceInv, Abort
  <1> QED
    BY <1>1, <1>2, <1>3, <1>4, <1>5 DEF TypeInv

\* The last replies of a transfer: the other side's is awaited next.
LEMMA ReplyKeeps ==
  ASSUME ListInv, SessionInv, NEW next \in ToSet(list), next # use,
         Finished(next) \/ Lost(next), UNCHANGED list
  PROVE  /\ SessionInv'
         /\ srv'[use].owed = 0 /\ ftp'[use].bounded
         /\ ftp'[use].prev # "?" => ftp'[use].prev = ftp[use].prev /\ srv'[use].type = srv[use].type
         /\ srv'[next] = srv[next] /\ ftp'[next].prev = ftp[next].prev
         /\ ftp'[next].bounded = (ftp[next].bounded /\ ~(next = this /\ use = target))
         /\ \A f \in Ftps \ {use, next} : ftp'[f] = ftp[f] /\ srv'[f] = srv[f]
  <1> DEFINE done == [ftp EXCEPT ![use].bounded = TRUE]
             gone == [ftp EXCEPT ![use] = Closed]
             waits == next = this /\ use = target
             s == [srv[use] EXCEPT !.owed = 0]
  <1>1. use \in ToSet(list) /\ use \in Ftps /\ next \in Ftps /\ ToSet(list) \subseteq Ftps
        /\ ftp \in [Ftps -> Structure] /\ srv \in [Ftps -> Session]
    BY DEF ListInv, SessionInv, ToSet
  <1>2. ASSUME NEW g \in [Ftps -> Structure], \A f \in Ftps \ {use} : g[f] = ftp[f],
               ftp' = IF waits THEN [g EXCEPT ![next] = Unbounded(@)] ELSE g
        PROVE  /\ ftp' \in [Ftps -> Structure]
               /\ \A f \in Ftps \ {next} : ftp'[f] = g[f]
               /\ ftp'[next].st = ftp[next].st /\ ftp'[next].prev = ftp[next].prev
               /\ ftp'[next].bounded = (ftp[next].bounded /\ ~waits)
    <2>1. CASE waits
      <3>1. ftp' = [g EXCEPT ![next] = Unbounded(g[next])]
        BY <1>2, <2>1
      <3>2. g[next] = ftp[next] /\ g[next] \in Structure
        BY <1>1, <1>2
      <3>3. /\ Unbounded(g[next]) \in Structure /\ Unbounded(g[next]).st = g[next].st
            /\ Unbounded(g[next]).prev = g[next].prev /\ Unbounded(g[next]).bounded = FALSE
        BY <3>2, UnboundedForm DEF Structure
      <3> HIDE DEF waits
      <3> QED
        BY <1>1, <1>2, <2>1, <3>1, <3>2, <3>3
    <2>2. CASE ~waits
      <3>1. ftp[next].bounded \in BOOLEAN
        BY <1>1 DEF Structure
      <3> QED
        BY <1>1, <1>2, <2>2, <3>1
    <2> QED
      BY <2>1, <2>2
  <1>3. CASE Finished(next)
    <2>1. /\ ftp' = IF waits THEN [done EXCEPT ![next] = Unbounded(@)] ELSE done
          /\ srv' = [srv EXCEPT ![use].owed = 0]
      BY <1>3 DEF Finished
    <2>2. /\ done \in [Ftps -> Structure] /\ done[use].st = ftp[use].st
          /\ done[use].prev = ftp[use].prev /\ done[use].bounded
          /\ \A f \in Ftps \ {use} : done[f] = ftp[f]
      BY <1>1, BoundedForm
    <2>3. s \in Session /\ s.owed = 0 /\ s.type = srv[use].type
      BY <1>1 DEF Session
    <2>4. srv' = [srv EXCEPT ![use] = s]
      BY <2>1
    <2> HIDE DEF done, s, waits
    <2>5. /\ ftp' \in [Ftps -> Structure] /\ \A f \in Ftps \ {next} : ftp'[f] = done[f]
          /\ ftp'[next].st = ftp[next].st /\ ftp'[next].prev = ftp[next].prev
          /\ ftp'[next].bounded = (ftp[next].bounded /\ ~waits)
      BY <1>2, <2>1, <2>2
    <2>6. SessionInv'
      BY <1>1, <2>2, <2>3, <2>4, <2>5 DEF SessionInv
    <2> QED
      BY <1>1, <2>2, <2>3, <2>4, <2>5, <2>6 DEF waits
  <1>4. CASE Lost(next)
    <2>1. /\ ftp' = IF waits THEN [gone EXCEPT ![next] = Unbounded(@)] ELSE gone
          /\ srv' = [srv EXCEPT ![use] = NewSession]
      BY <1>1, <1>4 DEF Lost
    <2>2. gone \in [Ftps -> Structure] /\ gone[use] = Closed /\ \A f \in Ftps \ {use} : gone[f] = ftp[f]
      BY <1>1, ConstantsTyped
    <2> HIDE DEF gone, waits
    <2>3. /\ ftp' \in [Ftps -> Structure] /\ \A f \in Ftps \ {next} : ftp'[f] = gone[f]
          /\ ftp'[next].st = ftp[next].st /\ ftp'[next].prev = ftp[next].prev
          /\ ftp'[next].bounded = (ftp[next].bounded /\ ~waits)
      BY <1>2, <2>1, <2>2
    <2>4. SessionInv'
      BY <1>1, <2>1, <2>2, <2>3, ConstantsTyped DEF SessionInv
    <2>5. NewSession.owed = 0
      BY DEF NewSession
    <2> QED
      BY <1>1, <2>1, <2>2, <2>3, <2>4, <2>5, ConstantsTyped DEF waits
  <1> QED
    BY <1>3, <1>4

\* What the target's reply tells fxpfile().
LEMMA ReadTargetCur ==
  ASSUME cur \in Local, ReadTarget
  PROVE  /\ cur' \in Local
         /\ cur'.i = cur.i /\ cur'.mode = cur.mode /\ cur'.got = cur.got /\ cur'.sent = cur.sent
         /\ cur'.ok => \E sent \in BOOLEAN : /\ cur'.whole = CopyIsWhole(sent)
                                             /\ sent \/ SourceErrors
  <1>1. CASE cur' = [cur EXCEPT !.ok = FALSE]
    BY <1>1 DEF Local
  <1>2. CASE \E stored, sent \in BOOLEAN :
               /\ stored => sent \/ SourceErrors
               /\ cur' = [cur EXCEPT !.ok = Result(stored, sent), !.whole = stored /\ CopyIsWhole(sent)]
    <2>1. PICK stored \in BOOLEAN, sent \in BOOLEAN :
               /\ stored => sent \/ SourceErrors
               /\ cur' = [cur EXCEPT !.ok = Result(stored, sent), !.whole = stored /\ CopyIsWhole(sent)]
      BY <1>2
    <2> DEFINE w == stored /\ CopyIsWhole(sent)
               o == [cur EXCEPT !.ok = stored]
    <2>2. w \in BOOLEAN
      BY DEF CopyIsWhole
    <2>3. o \in Local /\ o.i = cur.i /\ o.mode = cur.mode /\ o.got = cur.got /\ o.sent = cur.sent
          /\ o.ok = stored
      BY DEF Local
    <2>4. cur' = [o EXCEPT !.whole = w]
      BY <2>1 DEF Result
    <2> HIDE DEF w, o
    <2>5. cur' \in Local /\ cur'.i = o.i /\ cur'.mode = o.mode /\ cur'.got = o.got
          /\ cur'.sent = o.sent /\ cur'.ok = o.ok /\ cur'.whole = w
      BY <2>2, <2>3, <2>4 DEF Local
    <2>6. stored => w = CopyIsWhole(sent)
      BY DEF w, CopyIsWhole
    <2> QED
      BY <2>1, <2>3, <2>5, <2>6
  <1> QED
    BY <1>1, <1>2 DEF ReadTarget

LEMMA ReadTargetTyped ==
  ASSUME TypeInv, ReadTarget
  PROVE  TypeInv'
  <1>1. ListInv'
    BY ListKept DEF TypeInv, PlaceInv, ReadTarget
  <1>2. SessionInv'
    BY ReplyKeeps DEF TypeInv, PlaceInv, ReadTarget
  <1>3. LocalInv'
    BY ReadTargetCur DEF TypeInv, LocalInv, ReadTarget
  <1>4. FrameInv'
    BY DEF TypeInv, FrameInv, ReadTarget
  <1>5. PlaceInv'
    BY ReadTargetCur DEF TypeInv, PlaceInv, LocalInv, ReadTarget
  <1> QED
    BY <1>1, <1>2, <1>3, <1>4, <1>5 DEF TypeInv

LEMMA ReadSourceTyped ==
  ASSUME TypeInv, ReadSource
  PROVE  TypeInv'
  <1>1. ListInv'
    BY ListKept DEF TypeInv, PlaceInv, ReadSource
  <1>2. SessionInv'
    BY ReplyKeeps DEF TypeInv, PlaceInv, ReadSource
  <1>3. LocalInv'
    <2> cur' = cur \/ cur' = [cur EXCEPT !.ok = FALSE]
      BY Zenon DEF ReadSource, Returned
    <2> QED
      BY ResultKept, Zenon DEF TypeInv, ReadSource
  <1>4. FrameInv'
    BY DEF TypeInv, FrameInv, ReadSource
  <1>5. PlaceInv'
    BY DEF TypeInv, PlaceInv, LocalInv, Local, ReadSource
  <1> QED
    BY <1>1, <1>2, <1>3, <1>4, <1>5 DEF TypeInv

LEMMA OkForm ==
  ASSUME cur \in Local, NEW ok \in BOOLEAN
  PROVE  LET c == [cur EXCEPT !.ok = ok]
         IN  c \in Local /\ \A g \in {"i", "mode", "got", "sent", "whole", "how", "created"} : c[g] = cur[g]
  BY DEF Local

LEMMA AfterTransferTyped ==
  ASSUME TypeInv, AfterTransfer
  PROVE  TypeInv'
  <1>1. ListInv'
    BY ListKept DEF TypeInv, PlaceInv, AfterTransfer
  <1>2. SessionInv'
    <2>1. UNCHANGED list /\ (UNCHANGED sessions \/ \E a \in Ask("SITE CHMOD") : SetFtp(use, a.c, a.s))
      BY DEF AfterTransfer
    <2> QED
      BY <2>1, SessionsKept, AnswerKeeps DEF TypeInv
  <1>3. LocalInv'
    <2>1. cur' = cur \/ cur' = [cur EXCEPT !.ok = TRUE]
      BY Zenon DEF AfterTransfer
    <2>3. cur' \in Local
      BY <2>1, OkForm DEF TypeInv, LocalInv
    <2>2. flags' \in [FlagNames -> BOOLEAN]
      BY DEF TypeInv, LocalInv, AfterTransfer
    <2> QED
      BY <2>2, <2>3 DEF TypeInv, LocalInv, AfterTransfer
  <1>4. FrameInv'
    BY DEF TypeInv, FrameInv, AfterTransfer
  <1>5. PlaceInv'
    BY DEF TypeInv, PlaceInv, LocalInv, Local, AfterTransfer
  <1> QED
    BY <1>1, <1>2, <1>3, <1>4, <1>5 DEF TypeInv

LEMMA UnlinkTyped ==
  ASSUME TypeInv, Unlink
  PROVE  TypeInv'
  <1>1. ListInv'
    BY ListKept DEF TypeInv, ListInv, Unlink
  <1>2. SessionInv'
    <2>1. UNCHANGED list /\ \E a \in Ask("DELE") : SetFtp(use, a.c, a.s)
      BY DEF Unlink
    <2> QED
      BY <2>1, AnswerKeeps DEF TypeInv
  <1>3. LocalInv'
    BY DEF TypeInv, LocalInv, Local, Unlink
  <1>4. FrameInv'
    BY DEF TypeInv, FrameInv, Unlink
  <1>5. PlaceInv'
    BY DEF TypeInv, PlaceInv, Unlink
  <1> QED
    BY <1>1, <1>2, <1>3, <1>4, <1>5 DEF TypeInv

LEMMA BeginTyped ==
  ASSUME TypeInv, Begin
  PROVE  TypeInv'
  <1>1. ListInv'
    BY ListKept DEF TypeInv, ListInv, PlaceInv, Begin
  <1>2. SessionInv'
    BY SessionsKept DEF TypeInv, Begin
  <1>3. LocalInv'
    <2>1. UNCHANGED <<flags, restart, remote, jumped>>
          /\ (cur' = [cur EXCEPT !.ok = TRUE] \/ \E m \in Modes : cur' = [cur EXCEPT !.mode = m])
      BY Zenon DEF Begin
    <2>2. cur' \in Local
      BY <2>1, FxpAssumption DEF TypeInv, LocalInv, Local
    <2> QED
      BY <2>1, <2>2 DEF TypeInv, LocalInv
  <1>4. FrameInv'
    BY DEF TypeInv, FrameInv, Begin
  <1>5. PlaceInv'
    BY FxpAssumption DEF TypeInv, PlaceInv, ListInv, LocalInv, Local, Begin
  <1> QED
    BY <1>1, <1>2, <1>3, <1>4, <1>5 DEF TypeInv

\* fxpfile() has asked the target for the file, and returns or goes on.
LEMMA LookForm ==
  ASSUME Look
  PROVE  /\ UNCHANGED <<list, current, this, target, frames, restart, remote, jumped, sessions>>
         /\ pc = "look"
         /\ \/ flags' = flags
            \/ \E q, o \in BOOLEAN :
                 flags' = [flags EXCEPT !["quit"] = q, !["owbatch"] = @ \/ o]
         /\ \/ /\ pc' = "next" /\ cur' = [cur EXCEPT !.ok = TRUE]
               /\ use' = use /\ astray' = (astray \/ use # current)
            \/ /\ pc' = "next" /\ \E ok \in BOOLEAN : cur' = [cur EXCEPT !.ok = ok]
               /\ use' = this /\ astray' = astray
            \/ /\ pc' = "type" /\ this # target
               /\ \E how \in {"normal", "unique", "resume", "append"} : cur' = [cur EXCEPT !.how = how]
               /\ use' = this /\ astray' = astray
  <1>1. UNCHANGED <<list, current, this, target, frames, restart, remote, jumped>> /\ pc = "look"
    BY DEF Look
  <1>2. PICK found \in Looked :
       \/ /\ found = "dir"
          /\ Leave_NoUse(TRUE) /\ astray' = (astray \/ use # current) /\ UNCHANGED flags
       \/ /\ found # "dir" /\ UNCHANGED astray
          /\ \E w, how :
               /\ flags' = [flags EXCEPT !["quit"] = w = "cancel", !["owbatch"] = @ \/ w = "all"]
               /\ how \in {"normal", "unique", "resume", "append"}
               /\ IF w \in {"no", "cancel"} THEN Leave(TRUE)
                  ELSE IF this = target THEN Leave(FALSE)
                  ELSE Goto("type", this) /\ cur' = [cur EXCEPT !.how = how]
    BY DEF Look
  <1>3. CASE found = "dir"
    BY <1>1, <1>2, <1>3, Zenon DEF Leave_NoUse
  <1>4. CASE found # "dir"
    <2>1. PICK w, how :
               /\ flags' = [flags EXCEPT !["quit"] = w = "cancel", !["owbatch"] = @ \/ w = "all"]
               /\ how \in {"normal", "unique", "resume", "append"}
               /\ IF w \in {"no", "cancel"} THEN Leave(TRUE)
                  ELSE IF this = target THEN Leave(FALSE)
                  ELSE Goto("type", this) /\ cur' = [cur EXCEPT !.how = how]
      BY <1>2, <1>4
    <2>2. \E q, o \in BOOLEAN : flags' = [flags EXCEPT !["quit"] = q, !["owbatch"] = @ \/ o]
      <3> DEFINE q == w = "cancel"
                 o == w = "all"
      <3>1. q \in BOOLEAN /\ o \in BOOLEAN /\ flags' = [flags EXCEPT !["quit"] = q, !["owbatch"] = @ \/ o]
        BY <2>1
      <3> HIDE DEF q, o
      <3> QED
        BY <3>1, Zenon
    <2>3. UNCHANGED astray /\ UNCHANGED sessions /\ use' = this
      BY <1>2, <1>4, <2>1
    <2>4. \/ pc' = "next" /\ \E ok \in BOOLEAN : cur' = [cur EXCEPT !.ok = ok]
          \/ pc' = "type" /\ this # target /\ cur' = [cur EXCEPT !.how = how]
      BY <2>1, Zenon
    <2> QED
      BY <1>1, <2>1, <2>2, <2>3, <2>4
  <1> QED
    BY <1>3, <1>4

LEMMA LookTyped ==
  ASSUME TypeInv, Look
  PROVE  TypeInv'
  <1>1. ListInv'
    BY ListKept, LookForm DEF TypeInv, ListInv, PlaceInv
  <1>2. SessionInv'
    BY SessionsKept, LookForm DEF TypeInv
  <1>3. LocalInv'
    <2>1. cur' \in Local
      BY LookForm DEF TypeInv, LocalInv, Local
    <2>2. flags' \in [FlagNames -> BOOLEAN]
      <3>1. CASE flags' = flags
        BY <3>1 DEF TypeInv, LocalInv
      <3>2. CASE \E q, o \in BOOLEAN :
                   flags' = [flags EXCEPT !["quit"] = q, !["owbatch"] = @ \/ o]
        BY <3>2 DEF TypeInv, LocalInv
      <3> QED
        BY <3>1, <3>2, LookForm
    <2> QED
      BY <2>1, <2>2, LookForm DEF TypeInv, LocalInv
  <1>4. FrameInv'
    BY LookForm DEF TypeInv, FrameInv
  <1>5. PlaceInv'
    BY LookForm DEF TypeInv, PlaceInv, LocalInv, Local
  <1> QED
    BY <1>1, <1>2, <1>3, <1>4, <1>5 DEF TypeInv

-----------------------------------------------------------------------------
(* The walk through the lists.                                             *)

Stacked(fs) == fs \in Seq(Seq(Items)) /\ \A k \in 2 .. Len(fs) : fs[k] # <<>>

LEMMA NextFileStacked ==
  ASSUME Stacked(frames), frames # <<>>, frames[1] # <<>>, NextFile
  PROVE  Stacked(frames') /\ frames' # <<>>
  <1>1. Len(frames) \in Nat /\ 1 \in 1 .. Len(frames)
    BY EmptySeq DEF Stacked
  <1>2. frames[1] \in Seq(Items)
    BY <1>1, ElementOfSeq DEF Stacked
  <1>3. Tail(frames[1]) \in Seq(Items)
    BY <1>2, TailItems
  <1>4. frames' = [frames EXCEPT ![1] = Tail(frames[1])]
    BY DEF NextFile
  <1>5. /\ frames' \in Seq(Seq(Items)) /\ Len(frames') = Len(frames)
        /\ \A j \in 1 .. Len(frames) : frames'[j] = IF j = 1 THEN Tail(frames[1]) ELSE frames[j]
    BY <1>1, <1>3, <1>4, ExceptSeq DEF Stacked
  <1>6. \A k \in 2 .. Len(frames') : frames'[k] # <<>>
    BY <1>1, <1>5 DEF Stacked
  <1>7. frames' # <<>>
    BY <1>1, <1>5, EmptySeq
  <1> QED
    BY <1>5, <1>6, <1>7 DEF Stacked

\* A list is put before what is below; what is below is at an item.
LEMMA PushStacked ==
  ASSUME NEW l \in Seq(Items), NEW fs \in Seq(Seq(Items)), \A k \in 1 .. Len(fs) : fs[k] # <<>>
  PROVE  Stacked(<<l>> \o fs) /\ <<l>> \o fs # <<>>
  <1> DEFINE new == <<l>> \o fs
  <1>1. <<l>> \in Seq(Seq(Items)) /\ Len(<<l>>) = 1
    OBVIOUS
  <1>2. Len(fs) \in Nat
    OBVIOUS
  <1>3. new \in Seq(Seq(Items)) /\ Len(new) = 1 + Len(fs)
        /\ \A i \in 1 .. 1 + Len(fs) : new[i] = IF i <= 1 THEN <<l>>[i] ELSE fs[i - 1]
    BY <1>1, ConcatProperties
  <1> HIDE DEF new
  <1>4. ASSUME NEW k \in 2 .. Len(new)
        PROVE  new[k] # <<>>
    <2>1. new[k] = fs[k - 1] /\ k - 1 \in 1 .. Len(fs)
      BY <1>2, <1>3
    <2> QED
      BY <2>1
  <1>5. new # <<>>
    BY <1>2, <1>3, EmptySeq
  <1> QED
    BY <1>3, <1>4, <1>5 DEF Stacked, new

LEMMA FrameOfLoop ==
  ASSUME Stacked(frames'), pc' = "loop", frames' # <<>>
  PROVE  FrameInv'
  BY DEF Stacked, FrameInv

LEMMA AfterFileTyped ==
  ASSUME TypeInv, AfterFile
  PROVE  TypeInv'
  <1>1. ListInv'
    BY ListKept DEF TypeInv, ListInv, AfterFile
  <1>2. SessionInv'
    BY SessionsKept DEF TypeInv, AfterFile
  <1>3. LocalInv'
    BY ConstantsTyped DEF TypeInv, LocalInv, AfterFile
  <1>4. FrameInv'
    BY NextFileStacked, FrameOfLoop DEF TypeInv, FrameInv, Stacked, AfterFile
  <1>5. PlaceInv'
    BY DEF TypeInv, PlaceInv, AfterFile
  <1> QED
    BY <1>1, <1>2, <1>3, <1>4, <1>5 DEF TypeInv

LEMMA NotAFileTyped ==
  ASSUME TypeInv, NotAFile
  PROVE  TypeInv'
  <1>1. ListInv'
    BY ListKept DEF TypeInv, ListInv, NotAFile
  <1>2. SessionInv'
    BY SessionsKept DEF TypeInv, NotAFile
  <1>3. LocalInv'
    BY ConstantsTyped DEF TypeInv, LocalInv, NotAFile
  <1>4. FrameInv'
    <2> DEFINE inside == Only(Children[cur.i], remote)
    <2>1. Stacked(frames) /\ frames # <<>> /\ frames[1] # <<>> /\ frames \in Seq(Seq(Items))
      BY DEF TypeInv, FrameInv, Stacked, NotAFile
    <2>2. inside \in Seq(Items)
      BY OnlyProperties, FxpAssumption DEF TypeInv, PlaceInv, NotAFile
    <2>3. \A k \in 1 .. Len(frames) : frames[k] # <<>>
      BY <2>1 DEF Stacked
    <2>4. CASE NextFile
      BY <2>1, <2>4, NextFileStacked, FrameOfLoop DEF NotAFile
    <2>5. CASE frames' = <<inside>> \o frames
      BY <2>1, <2>2, <2>3, <2>5, PushStacked, FrameOfLoop DEF NotAFile
    <2> QED
      BY <2>4, <2>5 DEF NotAFile
  <1>5. PlaceInv'
    BY DEF TypeInv, PlaceInv, NotAFile
  <1> QED
    BY <1>1, <1>2, <1>3, <1>4, <1>5 DEF TypeInv

LEMMA ReturnTyped ==
  ASSUME TypeInv, Return
  PROVE  TypeInv'
  <1>1. ListInv'
    BY ListKept DEF TypeInv, ListInv, Return
  <1>2. SessionInv'
    BY SessionsKept DEF TypeInv, Return
  <1>3. LocalInv'
    BY ConstantsTyped DEF TypeInv, LocalInv, Return, FlagNames
  <1>4. FrameInv'
    <2>1. Stacked(frames) /\ frames \in Seq(Seq(Items)) /\ Len(frames) \in Nat
      <3>1. Stacked(frames) /\ frames \in Seq(Seq(Items))
        BY DEF TypeInv, FrameInv, Stacked
      <3> QED
        BY <3>1, LenProperties
    <2>2. CASE Len(frames) > 1
      <3> DEFINE below == SubSeq(frames, 3, Len(frames))
      <3>1. frames[2] \in Seq(Items) /\ frames[2] # <<>>
        BY <2>1, <2>2, ElementOfSeq DEF Stacked
      <3>2. Tail(frames[2]) \in Seq(Items)
        BY <3>1, TailItems
      <3>3. /\ below \in Seq(Seq(Items)) /\ Len(below) = IF 3 <= Len(frames) THEN Len(frames) - 2 ELSE 0
            /\ \A i \in 1 .. Len(frames) - 2 : below[i] = frames[i + 2]
        <4>1. \A i \in 3 .. Len(frames) : frames[i] \in Seq(Items)
          BY <2>1, ElementOfSeq
        <4>2. /\ below \in Seq(Seq(Items))
              /\ Len(below) = IF 3 <= Len(frames) THEN Len(frames) - 3 + 1 ELSE 0
              /\ \A i \in 1 .. Len(frames) - 3 + 1 : below[i] = frames[3 + i - 1]
          BY <2>1, <4>1, SubSeqProperties
        <4> HIDE DEF below
        <4> QED
          BY <2>1, <4>2
      <3> HIDE DEF below
      <3>4. ASSUME NEW k \in 1 .. Len(below)
            PROVE  below[k] # <<>>
        <4>1. k \in 1 .. Len(frames) - 2 /\ k + 2 \in 2 .. Len(frames)
          BY <2>1, <2>2, <3>3
        <4> QED
          BY <2>1, <3>3, <4>1 DEF Stacked
      <3>5. frames' = <<Tail(frames[2])>> \o below /\ pc' = "loop"
        BY <2>2 DEF Return, below
      <3> QED
        BY <3>2, <3>3, <3>4, <3>5, PushStacked, FrameOfLoop
    <2>3. CASE ~(Len(frames) > 1)
      <3>1. frames' = <<>> /\ pc' = "prompt"
        BY <2>3 DEF Return
      <3>2. <<>> \in Seq(Seq(Items)) /\ Len(<<>>) = 0
        OBVIOUS
      <3>3. frames' \in Seq(Seq(Items)) /\ \A k \in 2 .. Len(frames') : frames'[k] # <<>>
        BY <3>1, <3>2
      <3> QED
        BY <3>1, <3>3 DEF FrameInv
    <2> QED
      BY <2>2, <2>3
  <1>5. PlaceInv'
    BY DEF TypeInv, PlaceInv, Return
  <1> QED
    BY <1>1, <1>2, <1>3, <1>4, <1>5 DEF TypeInv

LEMMA CmdFxpTyped ==
  ASSUME TypeInv, CmdFxp
  PROVE  TypeInv'
  <1>1. UNCHANGED <<list, current, use, sessions, this, restart, remote, jumped>>
        /\ pc = "prompt" /\ pc' = "loop" /\ cur' = NoCur /\ target' \in Targets
    BY DEF CmdFxp, structures
  <1>2. ListInv'
    BY <1>1, ListKept DEF TypeInv, ListInv
  <1>3. SessionInv'
    BY <1>1, SessionsKept DEF TypeInv
  <1>4. PICK o \in OptionSets, l \in Lists :
          /\ flags' = [f \in FlagNames |-> f # "quit" /\ "force" \in o]
          /\ frames' = <<l>>
    BY DEF CmdFxp
  <1>5. LocalInv'
    BY <1>1, <1>4, ConstantsTyped DEF TypeInv, LocalInv
  <1>6. FrameInv'
    <2>1. l \in Seq(Items)
      BY FxpAssumption
    <2>2. <<l>> \in Seq(Seq(Items)) /\ Len(<<l>>) = 1 /\ <<l>> # <<>>
      BY <2>1
    <2>3. Stacked(<<l>>)
      BY <2>2 DEF Stacked
    <2> QED
      BY <1>1, <1>4, <2>2, <2>3, FrameOfLoop
  <1>7. target' \in ToSet(list)
    <2>1. CASE target' \in ToSet(list)
      BY <2>1
    <2>2. CASE Len(list) = 2 /\ target' = CHOOSE f \in ToSet(list) : f # use
      <3>1. \E f \in ToSet(list) : f # use
        <4>1. list \in Seq(Ftps) /\ list # <<>> /\ IsInjective(list)
          BY DEF TypeInv, ListInv
        <4>2. Without(list, use) # <<>>
          <5>1. Len(list) # 1
            BY <2>2
          <5> QED
            BY <4>1, <5>1, WithoutOneOfMany
        <4>3. /\ Without(list, use) \in Seq(Ftps)
              /\ ToSet(Without(list, use)) = ToSet(list) \ {use}
          BY <4>1, WithoutProperties
        <4>4. Head(Without(list, use)) \in ToSet(Without(list, use))
          BY <4>2, <4>3, TailItems
        <4> QED
          BY <4>3, <4>4
      <3> QED
        BY <2>2, <3>1
    <2> QED
      BY <1>1, <2>1, <2>2 DEF Targets
  <1>8. PlaceInv'
    BY <1>1, <1>7 DEF TypeInv, PlaceInv
  <1> QED
    BY <1>2, <1>3, <1>5, <1>6, <1>8 DEF TypeInv

LEMMA NextItemTyped ==
  ASSUME TypeInv, NextItem
  PROVE  TypeInv'
  <1>1. UNCHANGED <<list, current, use, sessions, target, this, restart, remote, jumped>>
        /\ pc = "loop" /\ Top # <<>>
    BY DEF NextItem
  <1>2. ListInv'
    BY <1>1, ListKept DEF TypeInv, ListInv
  <1>3. SessionInv'
    BY <1>1, SessionsKept DEF TypeInv
  <1>4. Stacked(frames) /\ frames # <<>> /\ frames[1] # <<>> /\ Item \in Items
    <2>1. Stacked(frames) /\ frames # <<>>
      BY <1>1 DEF TypeInv, FrameInv, Stacked
    <2>2. Top = frames[1] /\ Top \in Seq(Items)
      BY <2>1, TailItems DEF Top, Stacked
    <2> QED
      BY <1>1, <2>1, <2>2, TailItems DEF Item
  <1>5. \/ NextFile /\ pc' = "loop" /\ cur' = cur
        \/ UNCHANGED frames /\ pc' = "loop" /\ cur' = cur
        \/ UNCHANGED frames /\ pc' = "item" /\ cur' = [NoCur EXCEPT !.i = Item]
    BY <1>1, Zenon DEF NextItem
  <1>6. cur' \in Local /\ (pc' = "item" => cur'.i \in Items)
    BY <1>4, <1>5, ConstantsTyped DEF TypeInv, LocalInv, Local
  <1>7. flags' \in [FlagNames -> BOOLEAN]
    <2>1. CASE UNCHANGED flags
      BY <2>1 DEF TypeInv, LocalInv
    <2>2. CASE \E a : flags' = [flags EXCEPT !["quit"] = a = "cancel", !["batch"] = @ \/ a = "all"]
      BY <2>2 DEF TypeInv, LocalInv
    <2> QED
      BY <2>1, <2>2, Zenon DEF NextItem
  <1>8. LocalInv'
    BY <1>1, <1>6, <1>7 DEF TypeInv, LocalInv
  <1>9. FrameInv'
    BY <1>1, <1>4, <1>5, NextFileStacked, FrameOfLoop DEF TypeInv, FrameInv, Stacked
  <1>10. PlaceInv'
    BY <1>1, <1>5, <1>6 DEF TypeInv, PlaceInv
  <1> QED
    BY <1>2, <1>3, <1>8, <1>9, <1>10 DEF TypeInv

LEMMA JumpKeeps ==
  ASSUME TypeInv, Jump
  PROVE  TypeInv' /\ Renewed
  <1>1. UNCHANGED <<list, current, use, restart, remote>> /\ pc' = "prompt" /\ jumped' = TRUE
        /\ frames' = <<>> /\ cur' = NoCur /\ this' = NoFtp /\ target' = NoFtp
        /\ flags' = [f \in FlagNames |-> FALSE]
        /\ (CloseFtp(use) \/ UNCHANGED sessions)
    BY DEF Jump, structures
  <1>2. ListInv'
    BY <1>1, ListKept DEF TypeInv, ListInv
  <1>3. SessionInv' /\ Renewed
    BY <1>1, Kept, Closing DEF TypeInv, ListInv
  <1>4. LocalInv'
    BY <1>1, ConstantsTyped DEF TypeInv, LocalInv
  <1>5. FrameInv'
    <2>1. <<>> \in Seq(Seq(Items)) /\ Len(<<>>) = 0
      OBVIOUS
    <2> QED
      BY <1>1, <2>1 DEF FrameInv
  <1>6. PlaceInv'
    BY <1>1 DEF PlaceInv
  <1> QED
    BY <1>2, <1>3, <1>4, <1>5, <1>6 DEF TypeInv

LEMMA ConnectionStepTyped ==
  ASSUME TypeInv, ConnectionStep
  PROVE  TypeInv'
  <1>1. ListInv' /\ SessionInv' /\ pc \in Outside /\ pc' \in Outside /\ UNCHANGED fvars
    BY ConnectionStepKeeps DEF TypeInv
  <1> QED
    BY <1>1 DEF TypeInv, LocalInv, FrameInv, PlaceInv, fvars

LEMMA InitTyped ==
  ASSUME FxpInit
  PROVE  TypeInv
  <1> DEFINE f1 == Created({})
  <1>1. f1 \in Ftps
    BY ConnectionsAssumption DEF Created
  <1> HIDE DEF f1
  <1>2. list = <<f1>> /\ current = f1 /\ use = f1
    BY DEF FxpInit, Init, f1
  <1>3. ListInv
    <2>1. <<f1>> \in Seq(Ftps) /\ <<f1>> # <<>> /\ DOMAIN <<f1>> = {1} /\ <<f1>>[1] = f1
      BY <1>1
    <2> QED
      BY <1>2, <2>1 DEF ListInv, ToSet, IsInjective
  <1>4. SessionInv
    BY ConstantsTyped DEF FxpInit, Init, SessionInv
  <1>5. LocalInv
    <2>1. 0 \in 0..1
      OBVIOUS
    <2> QED
      BY <2>1, ConstantsTyped DEF FxpInit, LocalInv
  <1>6. FrameInv
    <2>1. <<>> \in Seq(Seq(Items)) /\ Len(<<>>) = 0
      OBVIOUS
    <2> QED
      BY <2>1 DEF FxpInit, Init, FrameInv
  <1>7. PlaceInv
    BY DEF FxpInit, Init, PlaceInv
  <1> QED
    BY <1>3, <1>4, <1>5, <1>6, <1>7 DEF TypeInv

LEMMA StepTyped ==
  ASSUME TypeInv, [Next]_allvars
  PROVE  TypeInv'
  <1>1. CASE UNCHANGED allvars
    BY <1>1 DEF allvars, vars, fvars, structures, sessions, TypeInv, ListInv, SessionInv, LocalInv,
                FrameInv, PlaceInv
  <1>2. CASE ConnectionStep
    BY <1>2, ConnectionStepTyped
  <1>3. CASE CmdFxp
    BY <1>3, CmdFxpTyped
  <1>4. CASE Jump
    BY <1>4, JumpKeeps
  <1>5. CASE FxpStep
    BY <1>5, ReturnTyped, NextItemTyped, NotAFileTyped, AfterFileTyped, BeginTyped, MkpathTyped,
       LookTyped, TypeTyped, PasvTyped, PortTyped, SizeTyped, RestTargetTyped, RestSourceTyped,
       StorTyped, RetrTyped, AbortTyped, ReadTargetTyped, ReadSourceTyped, AfterTransferTyped,
       UnlinkTyped DEF FxpStep
  <1> QED
    BY <1>1, <1>2, <1>3, <1>4, <1>5 DEF Next

LEMMA TypeInvImplies ==
  ASSUME TypeInv
  PROVE  TypeOK
  <1>1. ListOK
    BY DEF TypeInv, ListInv, SessionInv, Structure, Session, ListOK, Connected, ToSet
  <1>2. \A k \in DOMAIN frames : frames[k] \in Seq(Items)
    BY LenProperties, ElementOfSeq DEF TypeInv, FrameInv
  <1>3. target \in Ftps \cup {NoFtp} /\ this \in Ftps \cup {NoFtp}
    <2>1. ToSet(list) \subseteq Ftps
      BY <1>1 DEF ListOK
    <2> QED
      BY <2>1 DEF TypeInv, PlaceInv
  <1>4. cur.i \in Items \cup {NoItem}
    BY DEF TypeInv, LocalInv, Local
  <1> QED
    BY <1>1, <1>2, <1>3, <1>4 DEF TypeInv, LocalInv, FrameInv, TypeOK

\* gvFtpList is a list of different structures, and the one chosen and the one
\* in use are in it, whatever is opened, closed and jumped out of.
THEOREM Typing == Spec => [](TypeInv /\ TypeOK)
  <1>1. FxpInit => TypeInv
    BY InitTyped
  <1>2. TypeInv /\ [Next]_allvars => TypeInv'
    BY StepTyped
  <1>3. TypeInv => TypeOK
    BY TypeInvImplies
  <1> QED
    BY <1>1, <1>2, <1>3, PTL DEF Spec

-----------------------------------------------------------------------------
(* The connection in use is the one the user has chosen.                   *)

LEMMA UseStep ==
  ASSUME TypeInv, UseInv, [Next]_allvars
  PROVE  UseInv' /\ [OthersStay]_vars
  <1> USE DEF TypeInv, UseInv, Returning, PlaceInv
  <1>1. CASE UNCHANGED allvars
    BY <1>1 DEF allvars, vars, structures, fvars
  <1>2. CASE ConnectionStep
    <2>1. pc \in Outside /\ pc' \in Outside /\ (Chosen => Chosen' /\ OthersStay)
      BY <1>2, ConnectionStepKeeps
    <2> QED
      BY <2>1 DEF Chosen, OthersStay
  <1>3. CASE CmdFxp
    <2>1. UseInv'
      BY <1>3 DEF CmdFxp, structures
    <2>2. OthersStay
      BY <1>3 DEF CmdFxp, OthersStay, structures, sessions, SessionInv, Connected
    <2> QED
      BY <2>1, <2>2
  <1>4. CASE Jump
    <2>1. UseInv'
      BY <1>4 DEF Jump, structures
    <2>2. OthersStay
      BY <1>4 DEF Jump, Asking, OthersStay
    <2> QED
      BY <2>1, <2>2
  <1>5. ASSUME FxpStep
        PROVE  OthersStay
    <2>1. pc \notin {"prompt", "opened"}
      BY <1>5 DEF FxpStep, Return, NextItem, NotAFile, AfterFile, Begin, Mkpath, Look, Type, Pasv,
         Port, Size, RestTarget, RestSource, Stor, Retr, Abort, ReadTarget, ReadSource,
         AfterTransfer, Unlink
    <2> QED
      BY <2>1 DEF OthersStay
  <1>6. CASE Return
    BY <1>5, <1>6 DEF FxpStep, Return
  <1>7. CASE NextItem
    <2>1. UNCHANGED <<use, current, astray>> /\ pc = "loop" /\ pc' \in {"loop", "item"}
      BY <1>7 DEF NextItem
    <2> QED
      BY <1>5, <1>7, <2>1 DEF FxpStep
  <1>8. CASE NotAFile
    BY <1>5, <1>8 DEF FxpStep, NotAFile
  <1>9. CASE AfterFile
    BY <1>5, <1>9 DEF FxpStep, AfterFile
  <1>10. CASE Begin
    BY <1>5, <1>10 DEF FxpStep, Begin
  <1>11. CASE Mkpath
    BY <1>5, <1>11 DEF FxpStep, Mkpath
  <1>12. CASE Look
    BY <1>5, <1>12, LookForm DEF FxpStep
  <1>13. CASE Type
    BY <1>5, <1>13 DEF FxpStep, Type
  <1>14. CASE Pasv
    BY <1>5, <1>14 DEF FxpStep, Pasv
  <1>15. CASE Port
    BY <1>5, <1>15 DEF FxpStep, Port
  <1>16. CASE Size
    BY <1>5, <1>16 DEF FxpStep, Size
  <1>17. CASE RestTarget
    BY <1>5, <1>17 DEF FxpStep, RestTarget
  <1>18. CASE RestSource
    BY <1>5, <1>18 DEF FxpStep, RestSource
  <1>19. CASE Stor
    BY <1>5, <1>19 DEF FxpStep, Stor
  <1>20. CASE Retr
    BY <1>5, <1>20 DEF FxpStep, Retr
  <1>21. CASE Abort
    BY <1>5, <1>21 DEF FxpStep, Abort
  <1>22. CASE ReadTarget
    BY <1>5, <1>22 DEF FxpStep, ReadTarget
  <1>23. CASE ReadSource
    BY <1>5, <1>23 DEF FxpStep, ReadSource
  <1>24. CASE AfterTransfer
    BY <1>5, <1>24 DEF FxpStep, AfterTransfer
  <1>25. CASE Unlink
    BY <1>5, <1>25 DEF FxpStep, Unlink
  <1> QED
    BY <1>1, <1>2, <1>3, <1>4, <1>6, <1>7, <1>8, <1>9, <1>10, <1>11, <1>12, <1>13, <1>14, <1>15,
       <1>16, <1>17, <1>18, <1>19, <1>20, <1>21, <1>22, <1>23, <1>24, <1>25 DEF Next, FxpStep

\* At the prompt the commands work on the connection the user has chosen,
\* unless fxp has returned from the target without going back.
THEOREM UseIsChosen == Spec => []UseIsCurrent
  <1>1. FxpInit => TypeInv /\ UseInv
    BY InitTyped DEF FxpInit, Init, UseInv, Returning
  <1>2. TypeInv /\ UseInv /\ [Next]_allvars => (TypeInv /\ UseInv)'
    BY StepTyped, UseStep
  <1>3. UseInv => UseIsCurrent
    BY DEF UseInv, UseIsCurrent, Returning
  <1> QED
    BY <1>1, <1>2, <1>3, PTL DEF Spec

\* close ends the connection the user has chosen and no other.
THEOREM OthersAreKept == Spec => OthersKept
  <1>1. FxpInit => TypeInv /\ UseInv
    BY InitTyped DEF FxpInit, Init, UseInv, Returning
  <1>2. TypeInv /\ UseInv /\ [Next]_allvars => (TypeInv /\ UseInv)' /\ [OthersStay]_vars
    BY StepTyped, UseStep
  <1>3. OthersKept <=> [][OthersStay]_vars
    BY DEF OthersKept, OthersStay
  <1> QED
    BY <1>1, <1>2, <1>3, PTL DEF Spec

-----------------------------------------------------------------------------
(* No reply is left unread, and no wait unbounded.                         *)

AllSettled == \A f \in Ftps : Settled(f)

\* A request other than STOR and RETR that is granted leaves both sides as
\* they were, or closed, or in a new session.
LEMMA RequestSettles ==
  ASSUME TypeInv, NEW verb, NEW a \in Ask(verb), verb \notin {"STOR", "RETR"} \/ ~a.ok
  PROVE  /\ Settled(use) => a.s.owed = 0 /\ a.c.bounded
         /\ a.c \in Structure /\ a.s \in Session
  <1>1. use \in Ftps /\ cur.mode \in {"A", "I"} /\ srv[use] \in Session
    BY DEF TypeInv, ListInv, SessionInv, LocalInv, Local, ToSet
  <1>2. /\ a.c \in Structure /\ a.s \in Session
        /\ a.s = IF a.ok THEN Executed(Asked(a, use), verb, cur.mode) ELSE Asked(a, use)
        /\ a.lost => a.c \in {Closed, Reopened}
        /\ ~a.lost => a.c = ftp[use]
    BY <1>1, AnswerForm DEF Ask, TypeInv
  <1>3. Asked(a, use) \in Session /\ (Settled(use) => Asked(a, use).owed = 0)
    BY <1>1, ConstantsTyped DEF Asked, Settled, NewSession
  <1>4. a.s.owed = Asked(a, use).owed
    BY <1>1, <1>2, <1>3, ExecutedForm
  <1>5. Settled(use) => a.c.bounded
    BY <1>2, ConstantsTyped DEF Settled
  <1> QED
    BY <1>2, <1>3, <1>4, <1>5

LEMMA SettledBySet ==
  ASSUME TypeInv, NEW c \in Structure, NEW s \in Session, SetFtp(use, c, s)
  PROVE  /\ \A f \in Ftps \ {use} : Settled(f) => Settled(f)'
         /\ \A f \in {use} : s.owed = 0 /\ c.bounded => Settled(f)'
         /\ ftp'[use] = c /\ srv'[use] = s
  <1>1. use \in Ftps /\ ftp \in [Ftps -> Structure] /\ srv \in [Ftps -> Session]
    BY DEF TypeInv, ListInv, SessionInv, ToSet
  <1>2. ftp' = [ftp EXCEPT ![use] = c] /\ srv' = [srv EXCEPT ![use] = s]
    BY DEF SetFtp
  <1>3. /\ \A f \in Ftps \ {use} : ftp'[f] = ftp[f] /\ srv'[f] = srv[f]
        /\ ftp'[use] = c /\ srv'[use] = s
    BY <1>1, <1>2
  <1>4. \A f \in Ftps \ {use} : Settled(f) => Settled(f)'
    BY <1>3, Zenon DEF Settled
  <1>5. s.owed = 0 /\ c.bounded => srv'[use].owed = 0 /\ ftp'[use].bounded
    BY <1>3, Zenon
  <1> QED
    BY <1>3, <1>4, <1>5, Zenon DEF Settled

LEMMA RequestKeepsSettled ==
  ASSUME TypeInv, AllSettled, NEW verb, verb \notin {"STOR", "RETR"},
         NEW a \in Ask(verb), SetFtp(use, a.c, a.s)
  PROVE  AllSettled'
  <1>1. use \in Ftps
    BY DEF TypeInv, ListInv, ToSet
  <1> QED
    BY <1>1, RequestSettles, SettledBySet DEF AllSettled, Settled

LEMMA UnchangedSettled ==
  ASSUME UNCHANGED sessions, AllSettled
  PROVE  AllSettled'
  BY DEF sessions, AllSettled, Settled

LEMMA RenewedSettled ==
  ASSUME Renewed, AllSettled
  PROVE  AllSettled'
  BY DEF Renewed, AllSettled, Settled, NewSession

\* Where all is settled: everywhere but from STOR on.
Transferring == {"retr", "abort", "read", "read2"}

LEMMA ChannelStep ==
  ASSUME TypeInv, ChannelInv, [Next]_allvars
  PROVE  ChannelInv'
  <1> SUFFICES ASSUME ~jumped'
               PROVE  ChannelInv'
    BY DEF ChannelInv
  <1> USE DEF Transferring
  <1>0. jumped' = jumped
    <2>1. ~Jump
      BY DEF Jump
    <2> QED
      BY <2>1 DEF Next, allvars, fvars, ConnectionStep, CmdFxp, FxpStep, Return, NextItem, NotAFile,
         AfterFile, Begin, Mkpath, Look, Type, Pasv, Port, Size, RestTarget, RestSource, Stor, Retr,
         Abort, ReadTarget, ReadSource, AfterTransfer, Unlink
  <1>a. pc \notin Transferring => AllSettled
    BY <1>0 DEF ChannelInv, AllSettled
  <1>b. AllSettled' => ChannelInv'
    BY DEF ChannelInv, AllSettled
  <1>c. /\ use \in Ftps /\ ToSet(list) \subseteq Ftps /\ cur.mode \in {"A", "I"}
        /\ ftp \in [Ftps -> Structure] /\ srv \in [Ftps -> Session]
    BY DEF TypeInv, ListInv, SessionInv, LocalInv, Local, ToSet
  <1>1. CASE UNCHANGED allvars
    BY <1>1 DEF allvars, vars, structures, sessions, fvars, ChannelInv, Settled
  <1>2. CASE ConnectionStep
    <2>1. pc \in Outside /\ Renewed
      BY <1>2, ConnectionStepKeeps DEF TypeInv
    <2> QED
      BY <1>a, <1>b, <2>1, RenewedSettled
  <1>3. CASE CmdFxp
    BY <1>3, <1>a, <1>b, UnchangedSettled DEF CmdFxp
  <1>4. CASE Jump
    BY <1>4 DEF Jump
  <1>5. CASE Return
    BY <1>5, <1>a, <1>b, UnchangedSettled DEF Return
  <1>6. CASE NextItem
    BY <1>6, <1>a, <1>b, UnchangedSettled DEF NextItem
  <1>7. CASE NotAFile
    BY <1>7, <1>a, <1>b, UnchangedSettled DEF NotAFile
  <1>8. CASE AfterFile
    BY <1>8, <1>a, <1>b, UnchangedSettled DEF AfterFile
  <1>9. CASE Begin
    BY <1>9, <1>a, <1>b, UnchangedSettled DEF Begin
  <1>10. CASE Mkpath
    BY <1>10, <1>a, <1>b, UnchangedSettled, RequestKeepsSettled DEF Mkpath
  <1>11. CASE Look
    BY <1>11, <1>a, <1>b, UnchangedSettled, LookForm
  <1>12. CASE Type
    <2>1. CASE UNCHANGED sessions
      BY <1>12, <1>a, <1>b, <2>1, UnchangedSettled DEF Type
    <2>2. CASE ~UNCHANGED sessions
      <3>1. PICK a \in Ask("TYPE") : Take([a EXCEPT !.c.prev = IF a.ok THEN cur.mode ELSE @], use)
        BY <1>12, <2>2 DEF Type
      <3>2. PICK c \in Structure : SetFtp(use, c, a.s) /\ c.bounded = a.c.bounded
        BY <3>1, TypeAnswer DEF TypeInv
      <3>3. AllSettled
        BY <1>12, <1>a DEF Type
      <3>4. a.s \in Session /\ a.s.owed = 0 /\ c.bounded
        BY <1>c, <3>1, <3>2, <3>3, RequestSettles DEF AllSettled
      <3> QED
        BY <1>b, <1>c, <3>2, <3>3, <3>4, SettledBySet DEF AllSettled, Settled
    <2> QED
      BY <2>1, <2>2
  <1>13. CASE Pasv
    BY <1>13, <1>a, <1>b, RequestKeepsSettled DEF Pasv
  <1>14. CASE Port
    BY <1>14, <1>a, <1>b, RequestKeepsSettled DEF Port
  <1>15. CASE Size
    <2> DEFINE c == [ftp[use] EXCEPT !.prev = "A"]
               s == [srv[use] EXCEPT !.type = "A", !.prep = "none"]
    <2>1. /\ c \in Structure /\ c.bounded = ftp[use].bounded
          /\ s \in Session /\ s.owed = srv[use].owed
      BY <1>c DEF Structure, Session
    <2>2. UNCHANGED sessions \/ SetFtp(use, c, s)
      BY <1>15 DEF Size
    <2> HIDE DEF c, s
    <2>3. AllSettled
      BY <1>15, <1>a DEF Size
    <2> QED
      BY <1>b, <1>c, <2>1, <2>2, <2>3, UnchangedSettled, SettledBySet DEF AllSettled, Settled
  <1>16. CASE RestTarget
    BY <1>16, <1>a, <1>b, RequestKeepsSettled DEF RestTarget
  <1>17. CASE RestSource
    BY <1>17, <1>a, <1>b, RequestKeepsSettled DEF RestSource
  <1>18. CASE AfterTransfer
    BY <1>18, <1>a, <1>b, UnchangedSettled, RequestKeepsSettled DEF AfterTransfer
  <1>19. CASE Unlink
    BY <1>19, <1>a, <1>b, RequestKeepsSettled DEF Unlink
  <1>20. CASE Stor
    <2>1. CASE UNCHANGED sessions
      BY <1>20, <1>a, <1>b, <2>1, UnchangedSettled DEF Stor
    <2>2. CASE ~UNCHANGED sessions
      <3>1. PICK a \in Ask("STOR") : /\ SetFtp(use, a.c, a.s)
                                     /\ pc' = IF a.ok THEN "retr" ELSE "next"
        BY <1>20, <2>2 DEF Stor
      <3>2. pc = "stor" /\ use = target /\ AllSettled /\ UNCHANGED target
        BY <1>20, <1>a DEF Stor, TypeInv, PlaceInv
      <3>3. CASE ~a.ok
        <4>1. a.s.owed = 0 /\ a.c.bounded /\ a.c \in Structure /\ a.s \in Session
          BY <1>c, <3>2, <3>3, RequestSettles DEF AllSettled
        <4> QED
          BY <1>b, <1>c, <3>1, <3>2, <4>1, SettledBySet DEF AllSettled, Settled
      <3>4. CASE a.ok
        <4>1. a.c \in Structure /\ a.s \in Session /\ (a.lost => a.c \in {Closed, Reopened})
              /\ (~a.lost => a.c = ftp[use])
          BY <1>c, AnswerForm DEF Ask, TypeInv
        <4>2. a.c.bounded
          BY <1>c, <3>2, <4>1, ConstantsTyped DEF AllSettled, Settled
        <4> QED
          BY <1>c, <3>1, <3>2, <3>4, <4>1, <4>2, SettledBySet DEF ChannelInv, AllSettled, Settled
      <3> QED
        BY <3>3, <3>4
    <2> QED
      BY <2>1, <2>2
  <1>21. CASE Retr
    <2>1. pc = "retr" /\ use = this /\ this # target /\ use' = target /\ target \in Ftps
          /\ UNCHANGED <<this, target>>
      BY <1>21, <1>c DEF Retr, TypeInv, PlaceInv
    <2>2. PICK a \in Ask("RETR") :
            /\ srv' = [srv EXCEPT ![use] = a.s]
            /\ IF a.ok THEN pc' = "read" /\ ftp' = [ftp EXCEPT ![use] = a.c, ![target] = Unbounded(@)]
               ELSE pc' = "abort" /\ ftp' = [ftp EXCEPT ![use] = a.c]
      BY <1>21 DEF Retr
    <2>3. /\ \A f \in Ftps \ {target} : Settled(f)
          /\ ftp[target].bounded
      BY <1>0, <2>1 DEF ChannelInv, Settled
    <2>4. a.c \in Structure /\ a.s \in Session /\ a.c.bounded /\ (~a.ok => a.s.owed = 0)
      <3>1. a.c \in Structure /\ a.s \in Session /\ (a.lost => a.c \in {Closed, Reopened})
            /\ (~a.lost => a.c = ftp[use])
        BY <1>c, AnswerForm DEF Ask, TypeInv
      <3>2. Settled(use)
        BY <1>c, <2>1, <2>3
      <3> QED
        BY <3>1, <3>2, RequestSettles, ConstantsTyped DEF Settled
    <2>5. /\ \A f \in Ftps \ {use, target} : ftp'[f] = ftp[f] /\ srv'[f] = srv[f]
          /\ ftp'[use] = a.c /\ srv'[use] = a.s /\ srv'[target] = srv[target]
          /\ ~a.ok => ftp'[target] = ftp[target]
      BY <1>c, <2>1, <2>2
    <2> QED
      BY <1>c, <2>1, <2>2, <2>3, <2>4, <2>5 DEF ChannelInv, Settled
  <1>22. CASE Abort
    <2>1. pc = "abort" /\ use = target
      BY <1>22 DEF Abort, TypeInv, PlaceInv
    <2>2. /\ \A f \in Ftps \ {use} : Settled(f)
          /\ ftp[use].bounded
      BY <1>0, <2>1, <1>c DEF ChannelInv, Settled
    <2> DEFINE s == [srv[use] EXCEPT !.owed = 0]
    <2>3. s \in Session /\ s.owed = 0 /\ ftp[use] \in Structure
      BY <1>c DEF Session
    <2>4. SetFtp(use, Closed, NewSession) \/ SetFtp(use, ftp[use], s)
      BY <1>22 DEF Abort, AbortStor, CloseFtp
    <2> HIDE DEF s
    <2>5. NewSession.owed = 0
      BY DEF NewSession
    <2>6. AllSettled'
      BY <1>c, <2>2, <2>3, <2>4, <2>5, SettledBySet, ConstantsTyped DEF AllSettled, Settled
    <2> QED
      BY <1>b, <2>6
  <1>23. CASE ReadTarget
    <2>1. pc = "read" /\ pc' = "read2" /\ use = target /\ this # use /\ this \in ToSet(list)
          /\ UNCHANGED <<this, list>> /\ (Finished(this) \/ Lost(this))
      BY <1>23 DEF ReadTarget, TypeInv, PlaceInv
    <2>2. \A f \in Ftps \ {this, target} : Settled(f)
      BY <1>0, <2>1 DEF ChannelInv
    <2>3. /\ srv'[use].owed = 0 /\ ftp'[use].bounded
          /\ \A f \in Ftps \ {use, this} : ftp'[f] = ftp[f] /\ srv'[f] = srv[f]
      BY <2>1, ReplyKeeps DEF TypeInv
    <2> QED
      BY <2>1, <2>2, <2>3 DEF ChannelInv, Settled
  <1>24. CASE ReadSource
    <2>1. pc = "read2" /\ use = this /\ target # use /\ target \in ToSet(list)
          /\ UNCHANGED list /\ (Finished(target) \/ Lost(target))
      BY <1>24 DEF ReadSource, TypeInv, PlaceInv
    <2>2. \A f \in Ftps \ {use} : Settled(f)
      BY <1>0, <2>1 DEF ChannelInv
    <2>3. target \in Ftps /\ ftp[target].bounded \in BOOLEAN
      BY <1>c, <2>1 DEF Structure
    <2>4. /\ srv'[use].owed = 0 /\ ftp'[use].bounded /\ srv'[target] = srv[target]
          /\ ftp'[target].bounded = (ftp[target].bounded /\ ~(target = this /\ use = target))
          /\ \A f \in Ftps \ {use, target} : ftp'[f] = ftp[f] /\ srv'[f] = srv[f]
      BY <2>1, ReplyKeeps DEF TypeInv
    <2>5. AllSettled'
      BY <1>c, <2>1, <2>2, <2>3, <2>4 DEF AllSettled, Settled
    <2> QED
      BY <1>b, <2>5
  <1> QED
    BY <1>1, <1>2, <1>3, <1>4, <1>5, <1>6, <1>7, <1>8, <1>9, <1>10, <1>11, <1>12, <1>13, <1>14, <1>15,
       <1>16, <1>17, <1>18, <1>19, <1>20, <1>21, <1>22, <1>23, <1>24 DEF Next, FxpStep

\* fxp leaves both dialogues where they were: no reply unread, no wait
\* unbounded, whoever refused what and whichever session was lost.
THEOREM ChannelsAreInStep == Spec => []ChannelsInStep
  <1>1. ASSUME FxpInit
        PROVE  TypeInv /\ ChannelInv
    <2>1. ftp = [f \in Ftps |-> Closed] /\ srv = [f \in Ftps |-> NewSession]
      BY <1>1 DEF FxpInit, Init
    <2>2. Closed.bounded /\ NewSession.owed = 0
      BY DEF Closed, NewSession
    <2>3. \A f \in Ftps : Settled(f)
      BY <2>1, <2>2 DEF Settled
    <2> QED
      BY <1>1, <2>3, InitTyped DEF ChannelInv
  <1>2. TypeInv /\ ChannelInv /\ [Next]_allvars => (TypeInv /\ ChannelInv)'
    BY StepTyped, ChannelStep
  <1>3. ChannelInv => ChannelsInStep
    BY DEF ChannelInv, ChannelsInStep, Settled
  <1> QED
    BY <1>1, <1>2, <1>3, PTL DEF Spec

-----------------------------------------------------------------------------
(* What --delete-after removes has been copied.                            *)

\* TYPE is not refused, the source does not fail behind the target's back,
\* and a session lost in PASV or PORT stays lost: without these the client
\* itself takes a part of a file for the whole (see the README).
CopyHypothesis ==
  /\ "TYPE" \notin Refusable /\ "PASV" \notin ReconnectAt /\ "PORT" \notin ReconnectAt
  /\ ~SourceErrors

\* Where CopyInv says more than that the client knows the types.
Stages == {"pasv", "type2", "port", "size", "rest", "rest2", "stor", "retr", "read", "read2",
           "sent", "unlink"}

\* What an answer leaves of the type and of the data connection: both, or a
\* new session; and a transfer has been prepared by this session.
LEMMA RequestCopies ==
  ASSUME TypeInv, CopyInv, NEW verb, verb # "TYPE", NEW a \in Ask(verb)
  PROVE  /\ a.c \in Structure /\ a.s \in Session
         /\ a.c.prev # "?" => a.s.type = a.c.prev
         /\ verb \notin {"PASV", "PORT"} /\ a.s.prep # "none" =>
              a.s.prep = srv[use].prep /\ a.s.type = srv[use].type
         /\ a.ok /\ verb \in {"PASV", "PORT"} /\ verb \notin ReconnectAt =>
              ftp[use].st # "closed" /\ a.s.type = srv[use].type
         /\ a.ok /\ verb \in {"STOR", "RETR"} =>
              srv[use].prep # "none" /\ a.s.type = srv[use].type
  <1>1. use \in Ftps /\ cur.mode \in {"A", "I"} /\ srv[use] \in Session
    BY DEF TypeInv, ListInv, SessionInv, LocalInv, Local, ToSet
  <1>2. /\ a.c \in Structure /\ a.s \in Session
        /\ a.s = IF a.ok THEN Executed(Asked(a, use), verb, cur.mode) ELSE Asked(a, use)
        /\ a.lost => (a.c = Closed /\ ~a.ok) \/ (a.c = Reopened /\ verb \in ReconnectAt)
        /\ ~a.lost => a.c = ftp[use]
        /\ a.ok => CanServe(Asked(a, use), verb) /\ a.c.st # "closed"
    BY <1>1, AnswerForm DEF Ask, TypeInv
  <1>3. Asked(a, use) \in Session
    BY <1>1, ConstantsTyped DEF Asked
  <1>4. /\ a.s.type = Asked(a, use).type
        /\ a.s.prep # "none" /\ verb \notin {"PASV", "PORT"} => a.s.prep = Asked(a, use).prep
    BY <1>1, <1>2, <1>3, ExecutedForm
  <1>5. a.lost => a.c.prev = "?"
    BY <1>2, ConstantsTyped
  <1>6. Agree(use)
    BY <1>1 DEF CopyInv
  <1>7. CASE ~a.lost
    <2>1. Asked(a, use) = srv[use]
      BY <1>7 DEF Asked
    <2> QED
      BY <1>2, <1>4, <1>6, <1>7, <2>1 DEF Agree, CanServe
  <1>8. CASE a.lost
    <2>1. Asked(a, use).prep = "none"
      BY <1>8 DEF Asked, NewSession
    <2> QED
      BY <1>2, <1>4, <1>5, <1>8, <2>1 DEF CanServe
  <1> QED
    BY <1>7, <1>8

\* The structure in use and its session become something that agrees.
LEMMA SetAgrees ==
  ASSUME TypeInv, CopyInv, NEW c \in Structure, NEW s \in Session, SetFtp(use, c, s),
         c.prev # "?" => s.type = c.prev
  PROVE  /\ \A f \in Ftps : Agree(f)'
         /\ \A f \in Ftps \ {use} : ftp'[f] = ftp[f] /\ srv'[f] = srv[f]
         /\ ftp'[use] = c /\ srv'[use] = s
  <1>1. use \in Ftps /\ ftp \in [Ftps -> Structure] /\ srv \in [Ftps -> Session]
    BY DEF TypeInv, ListInv, SessionInv, ToSet
  <1>2. ftp' = [ftp EXCEPT ![use] = c] /\ srv' = [srv EXCEPT ![use] = s]
    BY DEF SetFtp
  <1>3. /\ \A f \in Ftps \ {use} : ftp'[f] = ftp[f] /\ srv'[f] = srv[f]
        /\ ftp'[use] = c /\ srv'[use] = s
    BY <1>1, <1>2
  <1> QED
    BY <1>3 DEF CopyInv, Agree

LEMMA RequestAgrees ==
  ASSUME TypeInv, CopyInv, NEW verb, verb # "TYPE", NEW a \in Ask(verb), SetFtp(use, a.c, a.s)
  PROVE  /\ \A f \in Ftps : Agree(f)'
         /\ \A f \in Ftps \ {use} : ftp'[f] = ftp[f] /\ srv'[f] = srv[f]
         /\ ftp'[use] = a.c /\ srv'[use] = a.s
  BY RequestCopies, SetAgrees

LEMMA UnchangedAgrees ==
  ASSUME UNCHANGED sessions, CopyInv
  PROVE  \A f \in Ftps : Agree(f)'
  BY DEF sessions, CopyInv, Agree

\* After TYPE a session that is there has the type asked for.
LEMMA TypeSets ==
  ASSUME TypeInv, CopyInv, "TYPE" \notin Refusable, Type
  PROVE  /\ \A f \in Ftps : Agree(f)'
         /\ ftp'[use].st # "closed" => srv'[use].type = cur.mode
         /\ \A f \in Ftps \ {use} : ftp'[f] = ftp[f] /\ srv'[f] = srv[f]
  <1>1. use \in Ftps /\ cur.mode \in {"A", "I"} /\ srv[use] \in Session /\ Agree(use)
    BY DEF TypeInv, ListInv, SessionInv, LocalInv, Local, ToSet, CopyInv
  <1>2. CASE ftp[use].prev = cur.mode
    <2>1. UNCHANGED sessions
      BY <1>2 DEF Type
    <2> QED
      BY <1>1, <1>2, <2>1, UnchangedAgrees DEF Agree, sessions
  <1>3. CASE ftp[use].prev # cur.mode
    <2>1. PICK a \in Ask("TYPE") : Take([a EXCEPT !.c.prev = IF a.ok THEN cur.mode ELSE @], use)
      BY <1>3 DEF Type
    <2>2. PICK c \in Structure : /\ SetFtp(use, c, a.s) /\ a.s \in Session
                                 /\ c.prev = IF a.ok THEN cur.mode ELSE a.c.prev
                                 /\ c.st = a.c.st
      BY <2>1, TypeAnswer DEF TypeInv
    <2>3. /\ a.s = IF a.ok THEN Executed(Asked(a, use), "TYPE", cur.mode) ELSE Asked(a, use)
          /\ a.lost => a.c \in {Closed, Reopened}
          /\ ~a.lost => a.c = ftp[use]
          /\ a.ok \/ a.c.st = "closed" \/ ~CanServe(Asked(a, use), "TYPE")
      BY <1>1, AnswerForm DEF Ask, TypeInv
    <2>4. Asked(a, use) \in Session /\ CanServe(Asked(a, use), "TYPE")
      BY <1>1, ConstantsTyped DEF Asked, CanServe
    <2>5. CASE a.ok
      <3>1. a.s.type = cur.mode /\ c.prev = cur.mode
        BY <1>1, <2>2, <2>3, <2>4, <2>5, ExecutedForm
      <3> QED
        BY <2>2, <3>1, SetAgrees
    <2>6. CASE ~a.ok
      <3>1. c.st = "closed" /\ c.prev = a.c.prev /\ a.s = Asked(a, use)
        BY <2>2, <2>3, <2>4, <2>6
      <3>2. a.c.prev # "?" => a.s.type = a.c.prev
        BY <1>1, <2>3, <3>1, ConstantsTyped DEF Agree, Asked
      <3> QED
        BY <2>2, <3>1, <3>2, SetAgrees
    <2> QED
      BY <2>5, <2>6
  <1> QED
    BY <1>2, <1>3

LEMMA CopyStep ==
  ASSUME CopyHypothesis, TypeInv, CopyInv, [Next]_allvars
  PROVE  CopyInv'
  <1> USE DEF Stages
  <1>a. ASSUME \A f \in Ftps : Agree(f)', pc' \notin Stages
        PROVE  CopyInv'
    BY <1>a DEF CopyInv
  <1>b. ASSUME UNCHANGED sessions, pc' \notin Stages
        PROVE  CopyInv'
    BY <1>a, <1>b, UnchangedAgrees
  <1>c. /\ use \in Ftps /\ ToSet(list) \subseteq Ftps /\ cur \in Local
        /\ ftp \in [Ftps -> Structure] /\ srv \in [Ftps -> Session]
    BY DEF TypeInv, ListInv, SessionInv, LocalInv, ToSet
  <1>d. /\ pc \in Inside => this \in Ftps /\ target \in Ftps
        /\ pc \in OnTarget => use = target
        /\ pc \in OnSource => use = this
        /\ pc \in Inside \ {"mkpath", "look"} => this # target
    BY <1>c DEF TypeInv, PlaceInv
  <1>1. CASE UNCHANGED allvars
    BY <1>1 DEF allvars, vars, structures, sessions, fvars, CopyInv, Agree, TypeSet, Connected
  <1>2. CASE ConnectionStep
    <2>1. pc' \in Outside /\ Renewed
      BY <1>2, ConnectionStepKeeps DEF TypeInv
    <2> QED
      BY <1>a, <2>1 DEF Renewed, CopyInv, Agree
  <1>3. CASE CmdFxp
    BY <1>3, <1>b DEF CmdFxp
  <1>4. CASE Jump
    <2>1. pc' = "prompt" /\ (UNCHANGED sessions \/ SetFtp(use, Closed, NewSession))
      BY <1>4 DEF Jump, CloseFtp
    <2> QED
      BY <1>a, <1>b, <2>1, SetAgrees, ConstantsTyped
  <1>5. CASE Return
    <2>1. pc = "loop" /\ pc' \in {"loop", "prompt"} /\ UNCHANGED sessions
      BY <1>5 DEF Return
    <2> QED
      BY <1>b, <2>1
  <1>6. CASE NextItem
    <2>1. pc = "loop" /\ pc' \in {"loop", "item"} /\ UNCHANGED sessions
      BY <1>6 DEF NextItem
    <2> QED
      BY <1>b, <2>1
  <1>7. CASE NotAFile
    BY <1>7, <1>b DEF NotAFile
  <1>8. CASE AfterFile
    BY <1>8, <1>b DEF AfterFile
  <1>9. CASE Begin
    BY <1>9, <1>b DEF Begin
  <1>10. CASE Mkpath
    BY <1>10, <1>a, <1>b, RequestAgrees DEF Mkpath
  <1>11. CASE Look
    <2>1. UNCHANGED <<sessions, this, target>> /\ pc' \in {"next", "type"}
      BY <1>11, LookForm
    <2> QED
      BY <1>b, <2>1
  <1>12. CASE Type
    <2>1. /\ \A f \in Ftps : Agree(f)'
          /\ ftp'[use].st # "closed" => srv'[use].type = cur.mode
          /\ \A f \in Ftps \ {use} : ftp'[f] = ftp[f] /\ srv'[f] = srv[f]
      BY <1>12, TypeSets DEF CopyHypothesis
    <2>2. /\ UNCHANGED <<this, target, cur>>
          /\ (pc = "type" /\ pc' = "pasv") \/ (pc = "type2" /\ pc' = "port")
      BY <1>12 DEF Type
    <2> QED
      BY <1>c, <1>d, <2>1, <2>2 DEF CopyInv, TypeSet, Connected
  <1>13. CASE Pasv
    <2>1. PICK a \in Ask("PASV") :
            /\ SetFtp(use, a.c, a.s)
            /\ (a.ok /\ pc' = "type2" /\ UNCHANGED cur) \/ (~a.ok /\ pc' = "next")
      BY <1>13 DEF Pasv
    <2>2. /\ \A f \in Ftps : Agree(f)'
          /\ ftp'[use] = a.c /\ srv'[use] = a.s
          /\ a.ok => ftp[use].st # "closed" /\ a.s.type = srv[use].type
      BY <2>1, RequestAgrees, RequestCopies DEF CopyHypothesis
    <2>3. pc = "pasv" /\ UNCHANGED <<this, target>>
      BY <1>13 DEF Pasv
    <2> QED
      BY <1>a, <1>c, <1>d, <2>1, <2>2, <2>3 DEF CopyInv, TypeSet, Connected
  <1>14. CASE Port
    <2>1. PICK a \in Ask("PORT") :
            /\ SetFtp(use, a.c, a.s)
            /\ (a.ok /\ pc' = "size" /\ UNCHANGED cur) \/ (~a.ok /\ pc' = "next")
      BY <1>14 DEF Port
    <2>2. /\ \A f \in Ftps : Agree(f)'
          /\ \A f \in Ftps \ {use} : ftp'[f] = ftp[f] /\ srv'[f] = srv[f]
          /\ ftp'[use] = a.c /\ srv'[use] = a.s
          /\ a.ok => ftp[use].st # "closed" /\ a.s.type = srv[use].type
      BY <2>1, RequestAgrees, RequestCopies DEF CopyHypothesis
    <2>3. pc = "port" /\ UNCHANGED <<this, target>>
      BY <1>14 DEF Port
    <2> QED
      BY <1>a, <1>c, <1>d, <2>1, <2>2, <2>3 DEF CopyInv, TypeSet, Connected
  <1>15. CASE Size
    <2> DEFINE c == [ftp[use] EXCEPT !.prev = "A"]
               s == [srv[use] EXCEPT !.type = "A", !.prep = "none"]
    <2>1. c \in Structure /\ c.prev = "A"
      BY <1>c DEF Structure
    <2>2. s \in Session /\ s.type = "A" /\ s.prep = "none"
      BY <1>c DEF Session
    <2>3. /\ pc = "size" /\ pc' \in {"stor", "rest"} /\ UNCHANGED <<this, target, cur>>
          /\ UNCHANGED sessions \/ SetFtp(use, c, s)
      BY <1>15 DEF Size
    <2> HIDE DEF c, s
    <2>4. CASE UNCHANGED sessions
      BY <1>c, <1>d, <2>3, <2>4 DEF sessions, CopyInv, Agree, TypeSet
    <2>5. CASE SetFtp(use, c, s)
      <3>1. /\ \A f \in Ftps : Agree(f)'
            /\ \A f \in Ftps \ {use} : ftp'[f] = ftp[f] /\ srv'[f] = srv[f]
            /\ srv'[use] = s
        BY <2>1, <2>2, <2>5, SetAgrees
      <3> QED
        BY <1>c, <1>d, <2>2, <2>3, <3>1 DEF CopyInv, TypeSet
    <2> QED
      BY <2>3, <2>4, <2>5
  <1>16. ASSUME NEW f \in {this, target}, use = f, NEW verb \in {"REST", "STOR"}, NEW a \in Ask(verb),
                SetFtp(use, a.c, a.s), pc \in {"rest", "rest2", "stor"},
                UNCHANGED <<this, target>>, cur'.mode = cur.mode,
                pc' \in {"rest2", "stor"} \/ (pc = "stor" /\ pc' = "retr" /\ verb = "STOR" /\ a.ok)
         PROVE  CopyInv'
    <2>1. /\ \A g \in Ftps : Agree(g)'
          /\ \A g \in Ftps \ {use} : ftp'[g] = ftp[g] /\ srv'[g] = srv[g]
          /\ ftp'[use] = a.c /\ srv'[use] = a.s
          /\ a.s.prep # "none" => a.s.prep = srv[use].prep /\ a.s.type = srv[use].type
          /\ a.ok /\ verb = "STOR" => srv[use].prep # "none" /\ a.s.type = srv[use].type
      BY <1>16, RequestAgrees, RequestCopies
    <2> QED
      BY <1>c, <1>d, <1>16, <2>1 DEF CopyInv, TypeSet
  <1>17. CASE RestTarget
    <2>1. PICK a \in Ask("REST") :
            /\ SetFtp(use, a.c, a.s) /\ pc = "rest" /\ UNCHANGED <<this, target>>
            /\ \/ pc' = "rest2" /\ cur' = [cur EXCEPT !.got = restart[use]]
               \/ pc' = "next"
      BY <1>17 DEF RestTarget
    <2>2. CASE pc' = "next"
      BY <1>a, <2>1, <2>2, RequestAgrees
    <2>3. CASE pc' # "next"
      <3>1. cur'.mode = cur.mode
        BY <1>c, <2>1, <2>3 DEF Local
      <3> QED
        BY <1>d, <1>16, <2>1, <2>3, <3>1
    <2> QED
      BY <2>2, <2>3
  <1>18. CASE RestSource
    <2>1. PICK a \in Ask("REST") :
            /\ SetFtp(use, a.c, a.s) /\ pc = "rest2" /\ UNCHANGED <<this, target>>
            /\ \/ pc' = "stor" /\ cur' = [cur EXCEPT !.sent = restart[use]]
               \/ pc' = "next"
      BY <1>18 DEF RestSource
    <2>2. CASE pc' = "next"
      BY <1>a, <2>1, <2>2, RequestAgrees
    <2>3. CASE pc' # "next"
      <3>1. cur'.mode = cur.mode
        BY <1>c, <2>1, <2>3 DEF Local
      <3> QED
        BY <1>d, <1>16, <2>1, <2>3, <3>1
    <2> QED
      BY <2>2, <2>3
  <1>19. CASE Stor
    <2>1. CASE UNCHANGED sessions
      <3>1. CASE pc' = "next"
        BY <1>b, <2>1, <3>1
      <3>2. CASE pc' # "next"
        <4>1. PICK a \in Ask("STOR") : SetFtp(use, a.c, a.s) /\ a.ok /\ pc' = "retr" /\ UNCHANGED cur
          BY <1>19, <3>2 DEF Stor
        <4> QED
          BY <1>19, <1>d, <1>16, <4>1 DEF Stor
      <3> QED
        BY <3>1, <3>2
    <2>2. CASE ~UNCHANGED sessions
      <3>1. PICK a \in Ask("STOR") : /\ SetFtp(use, a.c, a.s)
                                     /\ (a.ok /\ pc' = "retr" /\ UNCHANGED cur) \/ pc' = "next"
        BY <1>19, <2>2 DEF Stor
      <3>2. pc = "stor" /\ UNCHANGED <<this, target>>
        BY <1>19 DEF Stor
      <3>3. CASE pc' = "next"
        BY <1>a, <3>1, <3>3, RequestAgrees
      <3>4. CASE pc' # "next"
        BY <1>d, <1>16, <3>1, <3>2, <3>4
      <3> QED
        BY <3>3, <3>4
    <2> QED
      BY <2>1, <2>2
  <1>20. CASE Retr
    <2>1. pc = "retr" /\ use = this /\ this # target /\ UNCHANGED <<this, target, cur>>
      BY <1>20, <1>d DEF Retr
    <2>2. PICK a \in Ask("RETR") :
            /\ srv' = [srv EXCEPT ![use] = a.s]
            /\ \/ a.ok /\ pc' = "read" /\ ftp' = [ftp EXCEPT ![use] = a.c, ![target] = Unbounded(@)]
               \/ pc' = "abort" /\ ftp' = [ftp EXCEPT ![use] = a.c]
      BY <1>20 DEF Retr
    <2>3. /\ a.c \in Structure /\ a.s \in Session /\ (a.c.prev # "?" => a.s.type = a.c.prev)
          /\ a.ok => srv[use].prep # "none" /\ a.s.type = srv[use].type
      BY RequestCopies
    <2>4. Unbounded(ftp[target]).prev = ftp[target].prev
      BY <1>c, <1>d, <2>1, UnboundedForm
    <2>5. /\ \A f \in Ftps \ {use} : ftp'[f].prev = ftp[f].prev /\ srv'[f] = srv[f]
          /\ ftp'[use] = a.c /\ srv'[use] = a.s
      BY <1>c, <1>d, <2>1, <2>2, <2>4
    <2>6. \A f \in Ftps : Agree(f)'
      BY <2>3, <2>5 DEF CopyInv, Agree
    <2>7. CASE pc' = "abort"
      BY <1>a, <2>6, <2>7
    <2>8. CASE pc' # "abort"
      BY <1>c, <1>d, <2>1, <2>2, <2>3, <2>5, <2>6, <2>8 DEF CopyInv, TypeSet
    <2> QED
      BY <2>7, <2>8
  <1>21. CASE Abort
    <2> DEFINE s == [srv[use] EXCEPT !.owed = 0]
    <2>1. s \in Session /\ s.type = srv[use].type /\ ftp[use] \in Structure /\ Agree(use)
      BY <1>c DEF Session, CopyInv
    <2>2. pc' = "next" /\ (SetFtp(use, Closed, NewSession) \/ SetFtp(use, ftp[use], s))
      BY <1>21 DEF Abort, AbortStor, CloseFtp
    <2> HIDE DEF s
    <2>3. \A f \in Ftps : Agree(f)'
      BY <2>1, <2>2, SetAgrees, ConstantsTyped DEF Agree
    <2> QED
      BY <1>a, <2>2, <2>3
  <1>22. ASSUME NEW next \in ToSet(list), next # use, Finished(next) \/ Lost(next), UNCHANGED list
         PROVE  \A f \in Ftps : Agree(f)'
    <2>1. /\ ftp'[use].prev # "?" => ftp'[use].prev = ftp[use].prev /\ srv'[use].type = srv[use].type
          /\ srv'[next] = srv[next] /\ ftp'[next].prev = ftp[next].prev
          /\ \A f \in Ftps \ {use, next} : ftp'[f] = ftp[f] /\ srv'[f] = srv[f]
      BY <1>22, ReplyKeeps DEF TypeInv
    <2> QED
      BY <2>1 DEF CopyInv, Agree
  <1>23. CASE ReadTarget
    <2>1. pc = "read" /\ pc' = "read2" /\ use = target /\ this # use /\ this \in ToSet(list)
          /\ UNCHANGED list /\ (Finished(this) \/ Lost(this))
      BY <1>23 DEF ReadTarget, TypeInv, PlaceInv
    <2>2. \A f \in Ftps : Agree(f)'
      BY <1>22, <2>1
    <2>3. /\ cur'.got = cur.got /\ cur'.sent = cur.sent
          /\ cur'.ok => cur'.whole = CopyIsWhole(TRUE)
      BY <1>c, <1>23, ReadTargetCur DEF CopyHypothesis
    <2>4. CopyIsWhole(TRUE) <=> cur.got = cur.sent
      BY <2>1 DEF CopyInv, TypeSet, CopyIsWhole
    <2> QED
      BY <2>1, <2>2, <2>3, <2>4 DEF CopyInv
  <1>24. CASE ReadSource
    <2>1. pc = "read2" /\ target # use /\ target \in ToSet(list)
          /\ UNCHANGED list /\ (Finished(target) \/ Lost(target))
      BY <1>24 DEF ReadSource, TypeInv, PlaceInv
    <2>2. (cur.ok /\ pc' = "sent" /\ UNCHANGED cur) \/ pc' = "next"
      BY <1>24, Zenon DEF ReadSource
    <2>3. \A f \in Ftps : Agree(f)'
      BY <1>22, <2>1
    <2> QED
      BY <1>a, <2>1, <2>2, <2>3 DEF CopyInv
  <1>25. CASE AfterTransfer
    <2>1. /\ pc = "sent"
          /\ UNCHANGED sessions \/ \E a \in Ask("SITE CHMOD") : SetFtp(use, a.c, a.s)
          /\ (pc' = "unlink" /\ UNCHANGED cur) \/ pc' = "next"
      BY <1>25 DEF AfterTransfer
    <2>2. \A f \in Ftps : Agree(f)'
      BY <2>1, RequestAgrees, UnchangedAgrees
    <2> QED
      BY <1>a, <2>1, <2>2 DEF CopyInv
  <1>26. CASE Unlink
    <2>1. pc' = "next" /\ \E a \in Ask("DELE") : SetFtp(use, a.c, a.s)
      BY <1>26 DEF Unlink
    <2> QED
      BY <1>a, <2>1, RequestAgrees
  <1> QED
    BY <1>1, <1>2, <1>3, <1>4, <1>5, <1>6, <1>7, <1>8, <1>9, <1>10, <1>11, <1>12, <1>13, <1>14, <1>15,
       <1>17, <1>18, <1>19, <1>20, <1>21, <1>23, <1>24, <1>25, <1>26 DEF Next, FxpStep

\* Only Unlink takes anything from the source.
LEMMA RemoteStep ==
  ASSUME TypeInv, CopyInv, [Next]_allvars
  PROVE  \A i \in remote \ remote' : cur.i = i /\ (cur.whole \/ cur.got # cur.sent)
  <1>1. CASE Unlink
    <2>1. pc = "unlink" /\ (remote' = remote \/ remote' = remote \ {cur.i})
      BY <1>1 DEF Unlink
    <2> QED
      BY <2>1 DEF CopyInv
  <1>2. CASE ~Unlink
    <2>1. remote' = remote
      <3>1. Look => remote' = remote
        BY LookForm
      <3>2. ReadTarget \/ ReadSource \/ AfterTransfer => remote' = remote
        BY DEF ReadTarget, ReadSource, AfterTransfer
      <3> QED
        BY <1>2, <3>1, <3>2 DEF Next, allvars, fvars, ConnectionStep, CmdFxp, FxpStep, Return, NextItem,
           NotAFile, AfterFile, Begin, Mkpath, Type, Pasv, Port, Size, RestTarget, RestSource, Stor,
           Retr, Abort, Jump
    <2> QED
      BY <2>1
  <1> QED
    BY <1>1, <1>2

\* --delete-after removes from the source only what the target has received
\* whole and in the type asked for (or what was resumed).
THEOREM OnlyCopiesDeleted == ASSUME CopyHypothesis PROVE Spec => DeleteOnlyCopied
  <1>1. ASSUME FxpInit
        PROVE  TypeInv /\ CopyInv
    <2>1. ftp = [f \in Ftps |-> Closed] /\ pc = "prompt"
      BY <1>1 DEF FxpInit, Init
    <2>2. \A f \in Ftps : Agree(f)
      BY <2>1 DEF Agree, Closed
    <2> QED
      BY <1>1, <2>1, <2>2, InitTyped DEF CopyInv
  <1>2. TypeInv /\ CopyInv /\ [Next]_allvars =>
          /\ (TypeInv /\ CopyInv)'
          /\ [\A i \in remote \ remote' : cur.i = i /\ (cur.whole \/ cur.got # cur.sent)]_allvars
    BY StepTyped, CopyStep, RemoteStep
  <1> QED
    BY <1>1, <1>2, PTL DEF Spec, DeleteOnlyCopied
=============================================================================
