------------------------------- MODULE MCTags -------------------------------
(* The files of the instance of Tags: a plain file, a directory with a file    *)
(* and an empty directory, "." and ".." in both; the directory home is in, and *)
(* one above it that cannot be read; files whose name, owner, kind or time is  *)
(* a hard case for a parser.                                                   *)
EXTENDS Tags

File(name, kind, size, link, time, owner) ==
  [name |-> name, kind |-> kind, size |-> size, link |-> link, time |-> time, owner |-> owner]
At(y, mon, d, h, mi) == Mktime(y, mon - 1, d, h, mi)

NewYear == At(2025, 1, 1, 0, 30)
NewYearsEve == At(2024, 12, 31, 23, 30)
August == At(2024, 8, 20, 15, 0)
MCNows == {NewYear, NewYearsEve, August}

A == File(<<"a">>, "-", 5, <<>>, At(2024, 2, 29, 15, 7), "u")
D == File(<<"d">>, "d", 1, <<>>, At(2024, 8, 1, 9, 59), "u")
B == File(<<"b">>, "-", 0, <<>>, At(1999, 12, 31, 12, 0), "u")
E == File(<<"e">>, "d", 1, <<>>, August, "u")
Here == File(Dot, "d", 1, <<>>, August, "u")
Up == File(DotDot, "d", 1, <<>>, August, "u")
MCHome == <<<<"v">>, <<"h">>, <<"u">>>>
HomeFiles == {A, D, Here, Up}
MCTree == (MCHome :> HomeFiles) @@ (Append(MCHome, <<"d">>) :> {B, E, Here, Up})
  @@ (MCHome \o <<<<"d">>, <<"e">>>> :> {}) @@ (Front(MCHome) :> {File(<<"u">>, "d", 1, <<>>, August, "u"), Here, Up})

MCFiles == UNION Range(MCTree) \cup
  {File(<<"l">>, "l", 3, <<"a">>, At(2024, 7, 5, 0, 30), "u"),
   File(<<"my", "Jan", "3">>, "-", 7, <<>>, At(2025, 1, 1, 0, 10), "u"),
   File(<<"Jan", "b", "c">>, "-", 7, <<>>, At(2024, 12, 31, 23, 50), "u"),
   File(<<"x", "y">>, "d", 2, <<>>, At(2025, 1, 1, 1, 30), "Jan"),
   File(<<"tty">>, "b", 4, <<>>, At(2024, 2, 22, 15, 0), "u")}
MCListings ==
  LET lines == MCFiles \cup {Extra(x) : x \in Extras}
  IN  {<<x>> : x \in lines} \cup
      {<<x, y>> : x \in {A, D} \cup {Extra(x) : x \in Extras}, y \in lines}
        \cup {<<A, Extra("junk"), D>>, <<Extra("junk"), A, Extra("blank")>>,
              <<Extra("total"), D, A>>, <<A, Extra("blank"), Extra("junk")>>}

MCLocalNames == {<<"x">>, <<"y">>}
MaskOf(names) == [text |-> CHOOSE n \in names : TRUE, matches |-> names]
MCMasks == {MaskOf({A.name}), MaskOf({D.name}), MaskOf({f.name : f \in HomeFiles})}
MCRmOptions == {{}, {"r"}, {"i", "r"}, {"i", "r", "t"}, {"f", "i", "r", "t"}}

\* What the next steps depend on: all but the listing read last.
Unlisted == <<now, listType, mlsd, life, tagVars, rm, gone, cmds>>
=============================================================================
