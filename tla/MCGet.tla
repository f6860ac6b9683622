------------------------------- MODULE MCGet -------------------------------
(* The remote tree of get's instance: files a and b, a directory d with      *)
(* another a and a link back to d, a link l to a and a link ld to d.         *)
EXTENDS Get

CONSTANTS fileA, fileB, dirD, fileDA, linkUp, linkL, linkD, user, none

MCItems == {fileA, fileB, dirD, fileDA, linkUp, linkL, linkD}
MCKind == [i \in MCItems |-> IF i = dirD THEN "dir" ELSE IF i \in {linkUp, linkL, linkD} THEN "link" ELSE "reg"]
MCName == [i \in MCItems |-> IF i \in {fileA, fileDA} THEN "a" ELSE IF i = fileB THEN "b"
                             ELSE IF i = dirD THEN "d" ELSE IF i = linkUp THEN "up"
                             ELSE IF i = linkL THEN "l" ELSE "ld"]
MCDirName == [i \in MCItems |-> IF i \in {fileDA, linkUp} THEN <<"d">> ELSE <<>>]
MCTarget == [i \in MCItems |-> IF i \in {linkUp, linkD} THEN dirD ELSE fileA]
MCChildren == [i \in MCItems |-> IF i = dirD THEN <<fileDA, linkUp>> ELSE <<>>]
MCTextPrefix == {<<fileDA, dirD>>, <<linkUp, dirD>>}
MCLists == {<<>>, <<fileA, fileDA>>, <<dirD>>, <<linkL, fileB>>}
MCTagged == {<<>>, <<fileB, fileA>>, <<dirD, fileB>>, <<linkD>>}
MCOptions == {{}, {"delete", "tagged"}, {"force", "delete", "recursive"}, {"unique", "recursive"},
              {"interactive", "tagged"}, {"append", "delete"}, {"resume", "tagged"},
              {"skip", "recursive"}, {"newer"}, {"nodereference", "delete", "recursive", "parents"},
              {"nohup", "tagged", "recursive"}, {"output", "tagged"}}
MCMasks == {{}, {fileDA}, {dirD}}
MCUserFiles == {[path |-> <<"a">>, n |-> 0]}
=============================================================================
