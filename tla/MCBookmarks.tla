---------------------------- MODULE MCBookmarks ----------------------------
(* An instance of Bookmarks: two processes; two hosts that would get the   *)
(* same alias; and a few aliases of the shell.                             *)
EXTENDS Bookmarks, TLC

CONSTANTS p, q

h1 == <<"h", "1">>
h2 == <<"h", "2">>
foo == <<"f">>
foo2 == <<"f", "2">>
foo3 == <<"f", "3">>
MCHosts == {h1, h2}
MCGuess == [h \in MCHosts |-> foo]
MCVersions == (foo :> <<foo, foo2, foo3>>) @@ (foo2 :> <<foo2, foo3>>) @@ (foo3 :> <<foo3>>)
MCTyped == {foo, h2}
MCQuoted == {h2}
MCBefore == [n \in MCHosts \cup {foo, foo2, foo3} |-> [host |-> "none"]]
MCAfter == [MCBefore EXCEPT ![h2] = [host |-> h2, pass |-> TRUE, noupdate |-> FALSE, quote |-> FALSE]]
Mark(h) == [host |-> h, pass |-> TRUE, noupdate |-> FALSE, quote |-> FALSE]
MCFiles == {[MCBefore EXCEPT ![foo] = [host |-> h1, pass |-> FALSE, noupdate |-> TRUE, quote |-> FALSE]]}
MCEdits == {[name |-> foo, mark |-> Mark(h2)], [name |-> foo2, mark |-> Mark(h1)]}
MCOptions == {[auto |-> "yes", update |-> "ask", savePass |-> FALSE],
              [auto |-> "ask", update |-> "yes", savePass |-> TRUE]}

ls == <<"l", "s">>
list == <<"l", "i">>
lsx == <<"l", "s", "x">>
a1 == <<"a">>
a2 == <<"b">>
out == <<">", "o">>

MCCommands == {ls, list}
MCNames == {lsx, ls}
MCBodies == {<<Plain(ls)>>, <<Plain(list), Arg(<<>>, Star), Semi, Plain(ls), Arg(<<>>, Star)>>,
             <<Plain(ls), Arg(<<>>, 2), Arg(<<"x">>, 1)>>}
MCLines == {<<Plain(w)>> \o args : w \in {<<"l">>, ls, lsx},
            args \in {<<>>, <<Plain(a1), Plain(a2)>>, <<Plain(a1), Plain(out)>>}}
=============================================================================
