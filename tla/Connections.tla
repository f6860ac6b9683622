---------------------------- MODULE Connections ----------------------------
(***************************************************************************)
(* The list of connections (src/login.c, src/commands.c, src/cmd.c): open  *)
(* with its retry loop, user, reopen, switch, close and quit.              *)
(*                                                                         *)
(* gvFtpList holds the Ftp structures, open or not; gvCurrentFtp is the    *)
(* entry the user has chosen, and the global `ftp` is the structure every  *)
(* function works on.  They are two variables for one thing, and fxp (see  *)
(* Fxp) moves one of them about.  Of a structure only what these commands  *)
(* and fxp look at is kept; of its server, the session.                    *)
(*                                                                         *)
(* The client blocks while it connects, logs in and sleeps between two     *)
(* attempts; there SIGINT finds it, and jumps to the prompt or ends the    *)
(* loop.                                                                   *)
(***************************************************************************)
EXTENDS FiniteSets, Linklist

CONSTANTS
  Ftps,          \* Ftp structures
  Attempts,      \* gvConnectAttempts
  AutoReconnect, \* gvAutoReconnect
  MaxOpens,      \* bound: hosts the user opens
  MaxDrops,      \* bound: sessions the servers end
  MaxInts        \* bound: SIGINTs

ASSUME ConnectionsAssumption ==
  /\ Ftps # {} /\ IsFiniteSet(Ftps)
  /\ Attempts \in Nat \ {0} /\ AutoReconnect \in BOOLEAN
  /\ MaxOpens \in Nat /\ MaxDrops \in Nat /\ MaxInts \in Nat

VARIABLES
  list,    \* gvFtpList
  current, \* gvCurrentFtp
  use,     \* ftp
  ftp,     \* what of each Ftp structure matters
  srv,     \* the session each server keeps
  pc,      \* where the client is
  try,     \* yafc_open(): attempts made, and whether the URL names a user
  astray,  \* history: fxp has left `ftp` on the target
  left     \* remaining budgets

structures == <<list, current, use>>
sessions == <<ftp, srv>>
vars == <<structures, sessions, pc, try, astray, left>>

\* connected and loggedin; prev_type; is reply_timeout set?
Closed == [st |-> "closed", prev |-> "?", bounded |-> TRUE]
Opened == [st |-> "open", prev |-> "?", bounded |-> TRUE]
Connected(f) == ftp[f].st # "closed"
LoggedIn(f) == ftp[f].st = "in"

\* A server's session: its transfer type, what the next transfer has been
\* prepared with, and how many replies the client has not read yet.
NewSession == [type |-> "A", prep |-> "none", owed |-> 0]

SetFtp(f, c, s) == ftp' = [ftp EXCEPT ![f] = c] /\ srv' = [srv EXCEPT ![f] = s]
CloseFtp(f) == SetFtp(f, Closed, NewSession)
NoTry == [n |-> 0, user |-> TRUE]
Spend(k) == left[k] > 0 /\ left' = [left EXCEPT ![k] = @ - 1]

\* ftp_create(): a structure that is not in the list; which one does not matter.
Created(old) == CHOOSE f \in Ftps : f \notin old

Init ==
  /\ list = <<Created({})>> /\ current = Created({}) /\ use = Created({})
  /\ ftp = [f \in Ftps |-> Closed] /\ srv = [f \in Ftps |-> NewSession]
  /\ pc = "prompt" /\ try = NoTry /\ astray = FALSE
  /\ left = [opens |-> MaxOpens, drops |-> MaxDrops, ints |-> MaxInts]

-----------------------------------------------------------------------------
(* cmd_close(): the structure in use is closed, and the entry the user has  *)
(* chosen leaves the list.                                                  *)

CloseCommand_First ==
  /\ CloseFtp(use)
  /\ list' = IF Len(list) > 1 THEN Tail(list) ELSE list
  /\ current' = Head(list') /\ use' = current'

CloseCommand_KeepUse ==
  IF Len(list) = 1 THEN CloseFtp(use) /\ UNCHANGED structures
  ELSE /\ list' = Without(list, current)
       /\ current' = Head(list') /\ use' = use
       /\ CloseFtp(use)

CloseCommand ==
  IF Len(list) = 1 THEN CloseFtp(use) /\ UNCHANGED structures
  ELSE /\ list' = Without(list, current)
       /\ current' = Head(list') /\ use' = current'
       /\ ftp' = [ftp EXCEPT ![use] = Closed, ![current] = Closed]
       /\ srv' = [srv EXCEPT ![use] = NewSession, ![current] = NewSession]

CmdClose ==
  /\ pc = "prompt" /\ CloseCommand
  /\ astray' = (use' # current') /\ UNCHANGED <<pc, try, left>>

-----------------------------------------------------------------------------
(* yafc_open(): which structure to use, and the loop of attempts.          *)

\* The structure in use if it is not connected; else the first unconnected
\* one in the list; else a new one.
Choose ==
  \/ /\ ~Connected(use) /\ UNCHANGED structures
  \/ /\ Connected(use)
     /\ \/ \E k \in DOMAIN list :
             /\ ~Connected(list[k]) /\ \A j \in 1 .. k - 1 : Connected(list[j])
             /\ current' = list[k] /\ use' = current' /\ UNCHANGED list
        \/ /\ \A f \in ToSet(list) : Connected(f)
           /\ ToSet(list) # Ftps
           /\ current' = Created(ToSet(list)) /\ use' = current' /\ list' = Append(list, current')

CmdOpen ==
  /\ pc = "prompt" /\ Choose /\ Spend("opens")
  /\ pc' = "dial" /\ try' = NoTry
  /\ astray' = (use' # current')
  /\ UNCHANGED sessions

\* ftp_open_url(): connected; host unknown or no connection (-1); a timeout
\* or an unfriendly welcome (1).  `user` tells if the URL names a user.
Dial ==
  /\ pc = "dial"
  /\ \/ SetFtp(use, Opened, NewSession) /\ pc' = "login" /\ UNCHANGED try
     \/ \E pc1 \in {"failed", "given up"}, named \in BOOLEAN :
          CloseFtp(use) /\ pc' = pc1 /\ try' = [try EXCEPT !.user = named]
  /\ UNCHANGED <<structures, astray, left>>

\* ftp_login(): logged in; refused, or aborted by the user (1, 2); the session
\* is lost (-1).
Login ==
  /\ pc = "login"
  /\ \/ SetFtp(use, [ftp[use] EXCEPT !.st = "in"], srv[use]) /\ pc' = "opened" /\ UNCHANGED try
     \/ \E pc1 \in {"failed", "given up"} :
          pc' = pc1 /\ try' = [try EXCEPT !.user = TRUE] /\ UNCHANGED sessions
  /\ UNCHANGED <<structures, astray, left>>

\* After ftp_close(): another attempt, at once if nobody is named.
AttemptFailed_NoCount ==
  /\ CloseFtp(use) /\ UNCHANGED try
  /\ pc' = IF pc = "given up" \/ try.n + 1 = Attempts THEN "opened"
           ELSE IF try.user THEN "sleep" ELSE "dial"
AttemptFailed ==
  /\ CloseFtp(use) /\ try' = [try EXCEPT !.n = @ + 1]
  /\ pc' = IF pc = "given up" \/ try.n + 1 = Attempts THEN "opened"
           ELSE IF try.user THEN "sleep" ELSE "dial"

Retry ==
  /\ pc \in {"failed", "given up"} /\ AttemptFailed
  /\ UNCHANGED <<structures, astray, left>>

\* sleep() ends, or SIGINT ends it and with it the loop.
Sleep ==
  /\ pc = "sleep"
  /\ \/ pc' = "dial" /\ UNCHANGED left
     \/ pc' = "opened" /\ Spend("ints")
  /\ UNCHANGED <<structures, sessions, try, astray>>

\* An entry that could not be opened is closed, and leaves the list.
OpenEnd ==
  /\ pc = "opened" /\ pc' = "prompt"
  /\ IF Connected(use) THEN UNCHANGED <<structures, sessions>> ELSE CloseCommand
  /\ astray' = (use' # current') /\ try' = NoTry
  /\ UNCHANGED left

\* SIGINT while connecting jumps to the prompt: the attempt's socket is still
\* in the structure.  During the login it takes three (or four, which close).
OpenAborted ==
  /\ pc \in {"dial", "login"} /\ Spend("ints")
  /\ pc' = "prompt"
  /\ IF pc = "dial" THEN CloseFtp(use)
     ELSE CloseFtp(use) \/ UNCHANGED sessions
  /\ try' = NoTry /\ UNCHANGED <<structures, astray>>

-----------------------------------------------------------------------------
(* Other commands.                                                         *)

\* user: the login may fail, which leaves the connection.
CmdUser ==
  /\ pc = "prompt" /\ Connected(use)
  /\ \E in \in BOOLEAN :
       ftp' = [ftp EXCEPT ![use].st = IF in THEN "in" ELSE "open"]
  /\ UNCHANGED <<structures, srv, pc, try, astray, left>>

\* reopen: ftp_reopen() starts the structure anew; it is closed if that fails.
Reopened == [Opened EXCEPT !.st = "in"]

CmdReopen ==
  /\ pc = "prompt" /\ LoggedIn(use)
  /\ SetFtp(use, Reopened, NewSession) \/ SetFtp(use, Opened, NewSession) \/ CloseFtp(use)
  /\ UNCHANGED <<structures, pc, try, astray, left>>

\* A command finds that the session is lost.
SessionLost ==
  /\ pc = "prompt" /\ Connected(use) /\ Spend("drops")
  /\ \/ CloseFtp(use)
     \/ AutoReconnect /\ LoggedIn(use) /\ SetFtp(use, Reopened, NewSession)
  /\ UNCHANGED <<structures, pc, try, astray>>

CmdSwitch ==
  /\ pc = "prompt"
  /\ current' \in ToSet(list) /\ use' = current'
  /\ astray' = FALSE
  /\ UNCHANGED <<list, sessions, pc, try, left>>

\* exit_yafc(): every connection is closed.
CmdQuit ==
  /\ pc = "prompt" /\ pc' = "exited"
  /\ use' = Last(list)
  /\ ftp' = [f \in Ftps |-> Closed] /\ srv' = [f \in Ftps |-> NewSession]
  /\ UNCHANGED <<list, current, try, astray, left>>

Exited == pc = "exited" /\ UNCHANGED vars

OpenStep == Dial \/ Login \/ Retry \/ Sleep \/ OpenEnd
Commands == CmdClose \/ CmdOpen \/ CmdUser \/ CmdReopen \/ SessionLost \/ CmdSwitch \/ CmdQuit

-----------------------------------------------------------------------------
ListOK ==
  /\ list # <<>> /\ ToSet(list) \subseteq Ftps /\ IsInjective(list)
  /\ {current, use} \subseteq ToSet(list)
  /\ \A f \in Ftps :
       /\ ftp[f].st \in {"closed", "open", "in"} /\ ftp[f].prev \in {"?", "A", "I"}
       /\ ftp[f].bounded \in BOOLEAN
       /\ srv[f].type \in {"A", "I"} /\ srv[f].owed \in Nat
       /\ srv[f].prep \in {"none", "PASV", "PORT"}
       /\ f \notin ToSet(list) => ~Connected(f)

\* ftp_use(), cmd_switch(), cmd_close(): at the prompt the commands work on the
\* connection the user has chosen, unless fxp went astray.
UseIsCurrent == pc = "prompt" /\ ~astray => use = current

\* cmd_close(), also at the end of an open that failed, ends the connection
\* the user has chosen and no other: every other open one stays, and stays in
\* the list.
OthersKept ==
  [][\A f \in Ftps \ {current} :
       pc \in {"prompt", "opened"} /\ pc' # "exited" /\ ~astray /\ Connected(f)
         => f \in ToSet(list') /\ ftp'[f].st # "closed"]_vars
=============================================================================
