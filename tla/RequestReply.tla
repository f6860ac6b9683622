---------------------------- MODULE RequestReply ----------------------------
(***************************************************************************)
(* What a command that changes something on the server promises its user,  *)
(* with sessions, replies, reconnects and resent commands out of sight:    *)
(* it is executed at most once, where the user was when it was typed, and  *)
(* before the user is told so.  FtpSession implements it for mkdir.        *)
(***************************************************************************)
EXTENDS Naturals

CONSTANTS
  Requests, \* serial numbers
  Places,   \* where a request may be executed
  Idle      \* no request

VARIABLES
  asked, \* what the user waits for: a request and the place it is meant for
  done,  \* how often each request was executed
  here,  \* where the server would execute one now: it moves as it likes
  lost,  \* places that are no more; who was there may end up anywhere
  shown  \* does the user see a success?

Asked(n, place) == [n |-> n, place |-> place]

Init == asked = Idle /\ done = [n \in Requests |-> 0]

Ask ==
  /\ asked = Idle
  /\ \E n \in Requests, place \in Places : done[n] = 0 /\ asked' = Asked(n, place)
  /\ UNCHANGED done

Execute ==
  /\ asked # Idle /\ done[asked.n] = 0
  /\ asked.place = here \/ asked.place \in lost
  /\ done' = [done EXCEPT ![asked.n] = 1]
  /\ UNCHANGED asked

\* The answer may be lost and the request fail though it was executed, never
\* the other way round.
Answer ==
  /\ asked # Idle
  /\ shown' => done[asked.n] = 1
  /\ asked' = Idle
  /\ UNCHANGED done

Next == Ask \/ Execute \/ Answer
Spec == Init /\ [][Next]_<<asked, done>>
=============================================================================
