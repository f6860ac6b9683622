------------------------------- MODULE MCFxp -------------------------------
(* Instances of Fxp: two or three connections, a file and a directory with    *)
(* another file.                                                             *)
EXTENDS Fxp

CONSTANTS file, dir, inDir, c1, c2, c3

MCKind == [i \in Items |-> IF i = dir THEN "dir" ELSE "reg"]
MCChildren == [i \in Items |-> IF i = dir THEN <<inDir>> ELSE <<>>]
MCLists == {<<file>>, <<dir>>}
MCOptions == {{}, {"delete", "force", "recursive"}, {"delete", "resume"},
              {"unique", "interactive"}, {"append", "preserve"}, {"newer"}, {"skip"}}
=============================================================================
