----------------------------- MODULE MCDirCache -----------------------------
(***************************************************************************)
(* TLC instances of DirCache: "/" with the directories home and x in it (x  *)
(* is a name of one character) on one connection, and "/" with home in it   *)
(* on two.                                                                  *)
(***************************************************************************)
EXTENDS DirCache, TLC

MCHome == <<"home">>
MCDirs == {Root, MCHome, <<"x">>}
MCFewDirs == {Root, MCHome}

\* The connections are alike.  What the running command was shown and what it
\* changed does not influence what happens; StaleIsMarked does not look at it.
Alike == Permutations(Conns)
NoHistory == <<exists, cwd, cache, marks, use, current, cmd, target, from, astray>>
=============================================================================
