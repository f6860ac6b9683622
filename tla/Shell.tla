------------------------------- MODULE Shell -------------------------------
(***************************************************************************)
(* What a typed line runs: abbreviations (src/commands.c, src/alias.c),    *)
(* aliases and their parameters, and the splitting at semicolons           *)
(* (exe_cmdline() in src/cmd.c).                                           *)
(*                                                                         *)
(* A word is a sequence of letters.  An argument is a word that may hold a *)
(* parameter: what follows the parameter in it is left out.  Quotes only   *)
(* decide where arguments end, and are not modelled.                       *)
(***************************************************************************)
EXTENDS Integers, Sequences, SequencesExt

CONSTANTS
  Commands,   \* the commands' names
  AliasNames, \* names the user gives aliases
  Bodies,     \* what they may stand for
  Lines       \* what the user types: sequences of arguments

VARIABLES
  aliases, \* gvAliases: a body for each name defined
  line,    \* the line typed last
  ran      \* what it has run: commands with their arguments

shellVars == <<aliases, line, ran>>

-----------------------------------------------------------------------------
(* Names.                                                                  *)

\* find_cmd(), alias_search() and get_autologin_url_short(): the names a word
\* may stand for.  Several of them: ambiguous.
Search_NoExact(w, names) == {n \in names : IsPrefix(w, n)}
Search(w, names) == IF w \in names THEN {w} ELSE {n \in names : IsPrefix(w, n)}
IsOne(s) == \E x \in s : s = {x}
TheOne(s) == CHOOSE x \in s : TRUE

\* Arguments.  `par`: no parameter, %*, %n, or a % without a number.
NoPar == -1
Star == 0
Bare == 99
Arg(text, par) == [text |-> text, par |-> par]
Plain(w) == Arg(w, NoPar)
Semi == Plain(<<";">>)
IsRedirection(a) == a.text # <<>> /\ Head(a.text) \in {"|", ">", "<"}

\* find_func(): the command a word runs once aliases are expanded.  An alias
\* of that very name comes first, for the command it stands for.
FindFunc(w) ==
  LET c == Search(w, Commands)  a == Search(w, DOMAIN aliases)
      OfAlias(n) == LET v == Search(aliases[n][1].text, Commands) IN IF IsOne(v) THEN v ELSE {}
  IN  CASE a = {}                  -> IF IsOne(c) THEN c ELSE {}
        [] ~IsOne(a)               -> c \cap {w}
        [] w \in a \/ ~IsOne(c)    -> OfAlias(TheOne(a))
        [] OTHER                   -> c \cap {w}

-----------------------------------------------------------------------------
(* expand_alias_parameters().                                              *)

\* The place of the first redirection, or one past the end.
RedirAt(args) ==
  IF \E k \in DOMAIN args : IsRedirection(args[k])
  THEN CHOOSE k \in DOMAIN args : IsRedirection(args[k]) /\ \A j \in 1..(k - 1) : ~IsRedirection(args[j])
  ELSE Len(args) + 1

\* An argument that has been used as %n is gone from those left.
Gone == Arg(<<>>, NoPar)

\* One turn of the loop.  What %* puts in is not looked at in its first
\* argument, but is in the others.
StarStep_Rest(st, typed) ==
  [st EXCEPT !.args = SubSeq(@, 1, st.i - 1) \o st.left \o SubSeq(@, st.i + 1, Len(@)),
             !.left = <<>>, !.i = @ + 1]
StarStep(st, typed) ==
  [st EXCEPT !.args = SubSeq(@, 1, st.i - 1) \o typed \o SubSeq(@, st.i + 1, Len(@)),
             !.left = <<>>, !.i = @ + 1]

ParStep(st, typed) ==
  LET a == st.args[st.i]  n == a.par
  IN  IF n \in 1..Len(st.left)
      THEN [st EXCEPT !.args[st.i] = Arg(a.text \o typed[n].text, typed[n].par), !.left[n] = Gone, !.i = @ + 1]
      ELSE [st EXCEPT !.args[st.i] = Plain(a.text), !.i = @ + 1]

Step(st, typed) ==
  CASE st.i > Len(st.args)               -> st
    [] st.args[st.i] = Arg(<<>>, Star)   -> StarStep(st, typed)
    [] st.args[st.i].par # NoPar         -> ParStep(st, typed)
    [] OTHER                             -> [st EXCEPT !.i = @ + 1]

NotEmpty(a) == a # Gone

Expand(body, given) ==
  LET r == RedirAt(given)
      typed == SubSeq(given, 1, r - 1)
      bound == Len(body) * (Len(given) + 1)
      after[n \in 0..bound] ==
        IF n = 0 THEN [args |-> body, left |-> typed, i |-> 1] ELSE Step(after[n - 1], typed)
      end == after[bound]
  IN  SelectSeq(end.args \o end.left \o SubSeq(given, r, Len(given)), NotEmpty)

-----------------------------------------------------------------------------
(* exe_cmdline().                                                          *)

\* The commands of a line, at its semicolons.
Parts(args) ==
  LET cuts == {0, Len(args) + 1} \cup {k \in DOMAIN args : args[k] = Semi}
      Part(k) == SubSeq(args, k + 1, (CHOOSE j \in cuts : j > k /\ \A m \in cuts : m > k => j <= m) - 1)
      starts == SetToSortSeq(cuts \ {Len(args) + 1}, <)
  IN  SelectSeq([n \in DOMAIN starts |-> Part(starts[n])], LAMBDA p : p # <<>>)

\* One command, its alias expanded: nothing, or the command and what it gets.
RunPart(part) ==
  LET c == FindFunc(part[1].text) IN IF c = {} THEN <<>> ELSE <<[cmd |-> TheOne(c), args |-> Tail(part)]>>

RunAll(args) == FlattenSeq([n \in DOMAIN Parts(args) |-> RunPart(Parts(args)[n])])

\* expand_alias() takes an abbreviation of an alias even for a word that is a
\* command's name.
RunTyped(part) ==
  LET a == Search(part[1].text, DOMAIN aliases)
  IN  IF a = {} THEN RunAll(part)
      ELSE IF IsOne(a) THEN RunAll(Expand(aliases[TheOne(a)], Tail(part)))
      ELSE <<>>

Enter(l) ==
  /\ line' = l
  /\ ran' = FlattenSeq([n \in DOMAIN Parts(l) |-> RunTyped(Parts(l)[n])])
  /\ UNCHANGED aliases

DefineAlias(name, body) ==
  /\ aliases' = [n \in DOMAIN aliases \cup {name} |-> IF n = name THEN body ELSE aliases[n]]
  /\ line' = <<>> /\ ran' = <<>>

\* cmd_unalias(): exact names only, or all of them.
Unalias(names) ==
  /\ aliases # <<>>
  /\ aliases' = [n \in DOMAIN aliases \ names |-> aliases[n]]
  /\ line' = <<>> /\ ran' = <<>>

ShellInit == aliases = <<>> /\ line = <<>> /\ ran = <<>>

ShellNext ==
  \/ \E l \in Lines : Enter(l)
  \/ \E name \in AliasNames, body \in Bodies : DefineAlias(name, body)
  \/ \E name \in AliasNames : Unalias({name})
  \/ Unalias(AliasNames)

-----------------------------------------------------------------------------
\* What the manual says an alias's parameters are: each %* is all that was
\* typed; a %n is one of the arguments, those not named go to the end; what is
\* redirected comes last.  (doc/yafc_alias.texi)
AsDocumented(body, given) ==
  LET r == RedirAt(given)
      typed == SubSeq(given, 1, r - 1)
      Used(n) == \E k \in DOMAIN body : body[k].par = n
      One(a) == IF a.par = Star /\ a.text = <<>> THEN typed
                ELSE IF a.par \in DOMAIN typed THEN <<Plain(a.text \o typed[a.par].text)>>
                ELSE <<Plain(a.text)>>
      Rest == IF Used(Star) THEN <<>>
              ELSE [n \in DOMAIN typed |-> IF Used(n) THEN Gone ELSE typed[n]]
  IN  SelectSeq(FlattenSeq([k \in DOMAIN body |-> One(body[k])]) \o Rest \o SubSeq(given, r, Len(given)),
                NotEmpty)

\* Who types the name of an alias runs each command it stands for, with the
\* arguments the manual promises.  (Unless an alias takes the place of one of
\* those commands; a typed argument holds a %; or the body has both %* and %n,
\* or a %* within an argument.)
RunsAsDocumented ==
  line # <<>> /\ line[1].text \in DOMAIN aliases /\ Semi \notin ToSet(line) =>
    LET body == aliases[line[1].text]
        parts == Parts(AsDocumented(body, Tail(line)))
        Shadowed(w) == w \in DOMAIN aliases \/ (w \notin Commands /\ Search(w, DOMAIN aliases) # {})
    IN  \/ \E n \in DOMAIN parts : Shadowed(parts[n][1].text)
        \/ \E a \in ToSet(line) : a.par # NoPar
        \/ Arg(<<>>, Star) \in ToSet(body) /\ \E a \in ToSet(body) : a.par > Star
        \/ \E a \in ToSet(body) : a.par = Star /\ a.text # <<>>
        \/ ran = FlattenSeq([n \in DOMAIN parts |->
             LET c == Search(parts[n][1].text, Commands)
             IN  IF IsOne(c) THEN <<[cmd |-> TheOne(c), args |-> Tail(parts[n])]>> ELSE <<>>])
=============================================================================
