----------------------------- MODULE Linklist ------------------------------
(***************************************************************************)
(* The lists of src/libmhe/linklist.c that commands take items from while  *)
(* they walk them, as sequences.                                           *)
(***************************************************************************)
EXTENDS Integers, Sequences, SequencesExt

\* What is left of list s when all but the items of T are taken from it.
Only(s, T) ==
  LET upTo[n \in 0 .. Len(s)] ==
        IF n = 0 THEN <<>>
        ELSE IF s[n] \in T THEN Append(upTo[n - 1], s[n]) ELSE upTo[n - 1]
  IN  upTo[Len(s)]

\* list_removeitem(), list_delitem(): the list without item e.
Without(s, e) == Only(s, ToSet(s) \ {e})
=============================================================================
