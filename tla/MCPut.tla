------------------------------- MODULE MCPut -------------------------------
(* The local tree of put's instance: files a, b and c, and a directory d     *)
(* with another b; the server has a file named like the first.               *)
EXTENDS Put

CONSTANTS fileA, fileB, pipeC, dirD, fileDB, fileE, other, none

MCItems == {fileA, fileB, pipeC, dirD, fileDB, fileE}
MCKind == [i \in MCItems |-> IF i = dirD THEN "dir" ELSE IF i = pipeC THEN "other" ELSE "reg"]
MCName == [i \in MCItems |-> IF i = fileA THEN "a" ELSE IF i \in {fileB, fileDB} THEN "b" ELSE IF i = fileE THEN "e" ELSE "d"]
MCDirName == [i \in MCItems |-> IF i = fileDB THEN <<"d">> ELSE <<>>]
MCChildren == [i \in MCItems |-> IF i = dirD THEN <<fileDB>> ELSE <<>>]
MCLists == {<<>>, <<fileA, pipeC>>, <<dirD>>}
MCSameName == {<<fileB, fileDB>>}
MCTagged == {<<>>, <<fileE>>}
MCOptions == {{}, {"delete", "recursive"}, {"force", "delete", "recursive"}, {"unique", "delete"}, {"append", "delete"},
              {"interactive", "resume"}, {"skip", "recursive", "parents"}, {"newer", "delete"},
              {"nohup", "tagged", "recursive"}, {"output", "tagged"}}
MCMasks == {{}, {fileDB}}
MCDirs == {<<>>}
MCFiles == {FilePath(<<>>, "a"), FilePath(<<>>, "e")}
=============================================================================
