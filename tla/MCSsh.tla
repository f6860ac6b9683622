------------------------------- MODULE MCSsh -------------------------------
(* An instance of Ssh: two directories in Home, and a file.                *)
EXTENDS Ssh

CONSTANTS home, dir, otherDir, file

MCParent == [d \in {dir, otherDir} |-> home]
MCContents == {<<1>>, <<1, 2>>}
=============================================================================
